-------------------------------- MODULE Tsi --------------------------------
(***************************************************************************)
(* The Tethered Serial Interface (fesvr/tsi.cc): the host's reads and      *)
(* writes of target memory become words on a serial stream, which an       *)
(* adapter on the target (external) decodes and executes.  Host and target *)
(* are two coroutines of one process: the host runs until it waits for a   *)
(* word, the target simulates one cycle and gives control back.            *)
(* A stream word has Base values, and an address or length takes two, so   *)
(* the split into 32-bit chunks is modelled with a small word.             *)
(***************************************************************************)
EXTENDS Integers, Sequences

CONSTANTS Base,        \* the values of a word: 2^32 in the code
          MaxLen,      \* bound: words in a chunk (chunk_max_size: 256)
          MaxWrites,   \* bound: chunks written by the host
          HasTohost    \* the program has the tohost symbol

ASSUME TsiAssumption == /\ Base \in Nat /\ Base > 1
                        /\ MaxLen \in 1 .. Base * Base
                        /\ MaxWrites \in Nat
                        /\ HasTohost \in BOOLEAN

VARIABLES current,     \* the context that has control
          phase,       \* where run() is: "load", "loop" or "spin"
          op,          \* the read_chunk() in progress, or NoOp
          result,      \* the words it has received
          writes,      \* how many chunks the host has written
          in_data,     \* host to target
          out_data,    \* target to host
          frame,       \* words of the command the adapter is receiving
          sending,     \* what the adapter still has to send: address and count
          mem,         \* target memory, by word
          issued,      \* history: the word writes posted that have not landed
          fetched      \* history: what the adapter read for op

hostVars == <<phase, op, result, writes>>
adapter == <<frame, sending, mem>>
vars == <<current, hostVars, in_data, out_data, adapter, issued, fetched>>

Word == 0 .. Base - 1
WordAddr == 0 .. Base * Base - 1
MSIP == Base * Base - 1              \* MSIP_BASE, a register of core 0
Programs == WordAddr \ {MSIP}
NoOp == [addr |-> 0, len |-> 0]

SAI_CMD_READ == 0
SAI_CMD_WRITE == 1

\* The two contexts, once tsi_t's constructor has created the host's.
Co == INSTANCE Coroutine WITH
        Contexts <- {"host", "target"}, Main <- "target", None <- "none", fresh <- {},
        creator <- [c \in {"host", "target"} |-> IF c = "host" THEN "target" ELSE "none"]

Init == /\ current = "target"
        /\ phase = "load"
        /\ op = NoOp
        /\ result = <<>>
        /\ writes = 0
        /\ in_data = <<>>
        /\ out_data = <<>>
        /\ frame = <<>>
        /\ sending = NoOp
        /\ mem = [a \in WordAddr |-> 0]
        /\ issued = <<>>
        /\ fetched = <<>>

----------------------------------------------------------------------------
(* The host.                                                               *)

\* Mutant: the address and length are pushed high word first.
MutChunks(x) == <<x \div Base, x % Base>>

\* push_addr and push_len: the low word first.
Chunks(x) == <<x % Base, x \div Base>>

Header(cmd, a, len) == <<cmd>> \o Chunks(a) \o Chunks(len - 1)

Hosting == current = "host" /\ op = NoOp

\* write_chunk() only queues words.
WriteChunk(a, ws) ==
  /\ in_data' = in_data \o Header(SAI_CMD_WRITE, a, Len(ws)) \o ws
  /\ issued' = issued \o [i \in 1 .. Len(ws) |-> [addr |-> a + i - 1, val |-> ws[i]]]
  /\ UNCHANGED <<current, op, result, out_data, adapter, fetched>>

\* Loading the program, or a handler's write to memory.
HostWrite == /\ Hosting
             /\ phase # "spin"
             /\ writes < MaxWrites
             /\ writes' = writes + 1
             /\ \E n \in 1 .. MaxLen, a \in Programs :
                  /\ a + n <= MSIP
                  /\ \E ws \in [1 .. n -> Word] : WriteChunk(a, ws)
             /\ UNCHANGED phase

\* Mutant: reset() does nothing.
MutReset == /\ Hosting
            /\ phase = "load"
            /\ phase' = IF HasTohost THEN "loop" ELSE "spin"
            /\ UNCHANGED <<current, op, result, writes, in_data, out_data, adapter, issued, fetched>>

\* reset(), after which run() listens to tohost, or spins in idle().
Reset == /\ Hosting
         /\ phase = "load"
         /\ phase' = IF HasTohost THEN "loop" ELSE "spin"
         /\ WriteChunk(MSIP, <<1>>)
         /\ UNCHANGED writes

\* read_chunk(): the command is queued ...
HostRead == /\ Hosting
            /\ phase # "spin"
            /\ \E n \in 1 .. MaxLen, a \in Programs :
                 /\ a + n <= MSIP
                 /\ op' = [addr |-> a, len |-> n]
                 /\ in_data' = in_data \o Header(SAI_CMD_READ, a, n)
            /\ result' = <<>>
            /\ fetched' = <<>>
            /\ UNCHANGED <<current, phase, writes, out_data, adapter, issued>>

\* ... then, for each word, while (out_data.empty()) switch_to_target().
Waiting == current = "host" /\ op # NoOp

\* Mutant: the host polls out_data without giving control to the target.
MutSpinRead == /\ Waiting
               /\ out_data = <<>>
               /\ UNCHANGED vars

SwitchToTarget == /\ Waiting
                  /\ out_data = <<>>
                  /\ Co!Switch("target")
                  /\ UNCHANGED <<hostVars, in_data, out_data, adapter, issued, fetched>>

ReceiveWord == /\ Waiting
               /\ out_data # <<>>
               /\ result' = Append(result, Head(out_data))
               /\ out_data' = Tail(out_data)
               /\ op' = IF Len(result') = op.len THEN NoOp ELSE op
               /\ UNCHANGED <<current, phase, writes, in_data, adapter, issued, fetched>>

HostStep == HostWrite \/ Reset \/ HostRead \/ SwitchToTarget \/ ReceiveWord

----------------------------------------------------------------------------
(* The target: one cycle, tick(), then switch_to_host().                   *)

Number(lo, hi) == lo + hi * Base
FrameAddr == Number(frame[2], frame[3])
FrameLen == Number(frame[4], frame[5]) + 1

Cycle == current = "target" /\ Co!Switch("host")

\* tick() with in_ready: the adapter takes a word of the command's header ...
TakeWord(w) == in_data # <<>> /\ sending = NoOp /\ w = Head(in_data) /\ in_data' = Tail(in_data)

TickHeader == /\ Cycle
              /\ Len(frame) < 5
              /\ \E w \in Word :
                   LET f == Append(frame, w) IN
                   /\ TakeWord(w)
                   /\ IF Len(f) = 5 /\ f[1] = SAI_CMD_READ
                      THEN /\ frame' = <<>>
                           /\ sending' = [addr |-> Number(f[2], f[3]), len |-> Number(f[4], f[5]) + 1]
                      ELSE frame' = f /\ UNCHANGED sending
              /\ UNCHANGED <<hostVars, out_data, mem, issued, fetched>>

\* ... or a word of data, which it stores.
TickData == /\ Cycle
            /\ Len(frame) >= 5
            /\ \E w \in Word :
                 /\ TakeWord(w)
                 /\ mem' = [mem EXCEPT ![FrameAddr + Len(frame) - 5] = w]
                 /\ frame' = IF Len(frame) - 4 = FrameLen THEN <<>> ELSE Append(frame, w)
            /\ issued' = Tail(issued)
            /\ UNCHANGED <<hostVars, out_data, sending, fetched>>

\* tick() with out_valid: the adapter sends a word of a read (send_word()).
TickSend == /\ Cycle
            /\ sending # NoOp
            /\ out_data' = Append(out_data, mem[sending.addr])
            /\ fetched' = Append(fetched, [addr |-> sending.addr, val |-> mem[sending.addr]])
            /\ sending' = IF sending.len = 1 THEN NoOp
                          ELSE [addr |-> sending.addr + 1, len |-> sending.len - 1]
            /\ UNCHANGED <<hostVars, in_data, frame, mem, issued>>

\* A cycle in which the adapter does nothing and the core, if it runs, stores.
TickCore == /\ Cycle
            /\ \/ UNCHANGED mem
               \/ /\ mem[MSIP] = 1
                  /\ \E a \in Programs, v \in Word : mem' = [mem EXCEPT ![a] = v]
            /\ UNCHANGED <<hostVars, in_data, out_data, frame, sending, issued, fetched>>

TargetStep == TickHeader \/ TickData \/ TickSend \/ TickCore

Next == HostStep \/ TargetStep

Spec == Init /\ [][Next]_vars

\* The two threads of control advance, and the adapter is not idle for ever when
\* it has a word to take or to send.  The host's program ends its loading.
LiveSpec == /\ Spec
            /\ WF_vars(HostStep) /\ WF_vars(TargetStep)
            /\ SF_vars(TickHeader) /\ SF_vars(TickData) /\ SF_vars(TickSend)
            /\ SF_vars(Reset)

----------------------------------------------------------------------------
\* What a read receives are the words that memory held at its addresses, in order,
\* and none is left over for the next read; and a read overtakes no write: while it is
\* served, every write that the host posted before has landed.
ReadExact ==
  /\ result \o out_data = [i \in 1 .. Len(fetched) |-> fetched[i].val]
  /\ op # NoOp => \A i \in 1 .. Len(fetched) : fetched[i].addr = op.addr + i - 1
  /\ op = NoOp => out_data = <<>> /\ sending = NoOp
  /\ sending # NoOp => issued = <<>>

\* The stream implements the memory port: words land in the order and at the
\* addresses at which write_chunk was given them, and a read is served from them.
Port == INSTANCE MemPort WITH Addr <- WordAddr, Val <- Word, posted <- issued

ImplementsPort == Port!Spec /\ [][ReadExact']_vars

\* A read returns.
ReadReturns == (op # NoOp) ~> (op = NoOp)

\* "Interrupt core 0 to make it start executing the program in DRAM" (reset()).
CoreStarts == (phase # "load") ~> (mem[MSIP] = 1)
=============================================================================
