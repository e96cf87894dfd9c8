------------------------------- MODULE MemIf -------------------------------
(***************************************************************************)
(* memif_t: byte reads and writes at any address, over a transport that    *)
(* moves aligned chunks (fesvr/memif.cc, and htif_t::clear_chunk).  An     *)
(* unaligned head or tail is a read-modify-write of a whole chunk, while   *)
(* the target goes on storing to its memory.                               *)
(***************************************************************************)
EXTENDS Integers, FiniteSets, FiniteSetsExt

CONSTANTS Align,       \* chunk_align()
          MaxChunk,    \* chunk_max_size()
          Size,        \* bytes of target memory
          MaxLen,      \* bound: bytes in a request
          MaxReqs,     \* bound: requests of the host
          MaxStores    \* bound: stores of the target

ASSUME MemIfAssumption == /\ Align \in Nat \ {0}
                          /\ MaxChunk \in Nat \ {0} /\ MaxChunk % Align = 0
                          /\ Size \in Nat \ {0} /\ Size % Align = 0
                          /\ MaxLen \in Nat /\ MaxReqs \in Nat /\ MaxStores \in Nat

VARIABLES pc,          \* where the host is in read() or write()
          req,         \* the request: kind, addr, and the bytes
          chunk,       \* the chunk buffer of a read-modify-write
          pos,         \* the loop variable of the aligned part
          mem,         \* target memory, by byte
          result,      \* the bytes read so far
          reqs, stores,
          \* History.
          call,        \* the last call of the transport
          ref,         \* what each byte should hold: its last writer's value
          raced,       \* bytes stored by the target within a read-modify-write
          touched      \* bytes stored by the target during the request

vars == <<pc, req, chunk, pos, mem, result, reqs, stores, call, ref, raced, touched>>

Bytes == 0 .. Size - 1
Byte == 0 .. 255
NoByte == 256                        \* result bytes not read yet

\* What memory holds at first, and the target's stores, differ from each other
\* and from the host's data.
Initial == [b \in Bytes |-> 1 + b]
StoreVal(n) == 100 + n
Data(n) == {[i \in 0 .. n - 1 |-> 0], [i \in 0 .. n - 1 |-> 200 + i],
            [i \in 0 .. n - 1 |-> IF i < n \div 2 THEN 0 ELSE 200 + i]}

Init == /\ pc = "idle"
        /\ req = [kind |-> "read", addr |-> 0, len |-> 0, data |-> [i \in {} |-> 0]]
        /\ chunk = [b \in {} |-> 0]
        /\ pos = 0
        /\ mem = Initial
        /\ result = [b \in {} |-> 0]
        /\ reqs = 0 /\ stores = 0
        /\ call = [addr |-> 0, len |-> Align]
        /\ ref = Initial
        /\ raced = {} /\ touched = {}

----------------------------------------------------------------------------
(* The arithmetic of read() and write(), which is the same.                *)

\* Mutant: the address of a chunk is not rounded down.
MutDown(a) == a

Down(a) == a - (a % Align)           \* addr & ~(align-1)
Span(a, n) == a .. a + n - 1
Wanted == Span(req.addr, req.len)
DataAt(b) == req.data[b - req.addr]

HeadLen == IF req.len > 0 /\ req.addr % Align # 0
           THEN Min({req.len, Align - (req.addr % Align)}) ELSE 0
Rest == req.addr + HeadLen
TailLen == (req.len - HeadLen) % Align
BodyLen == req.len - HeadLen - TailLen

HeadChunk == Span(Down(req.addr), Align)
TailChunk == Span(Rest + BodyLen, Align)
\* Mutant: the address was not advanced past the head.
MutBodyChunk == Span(Down(req.addr) + pos, Min({MaxChunk, BodyLen - pos}))

BodyChunk == Span(Rest + pos, Min({MaxChunk, BodyLen - pos}))
AllZero == \A b \in Span(Rest, BodyLen) : DataAt(b) = 0

Goto(from, to) == pc = from /\ pc' = to

----------------------------------------------------------------------------
(* Calls of the transport.                                                 *)

Called(S) == call' = [addr |-> Min(S), len |-> Cardinality(S)]

ReadChunk(S) == /\ Called(S)
                /\ chunk' = [b \in S |-> mem[b]]

\* The bytes S of memory become f; those of the request are now the host's.
WriteChunk(S, f) == /\ Called(S)
                    /\ mem' = [b \in Bytes |-> IF b \in S THEN f[b] ELSE mem[b]]
                    /\ ref' = [b \in Bytes |-> IF b \in S \cap Wanted THEN DataAt(b) ELSE ref[b]]
                    /\ raced' = raced \ (S \cap Wanted)

\* Mutant: the buffer was not filled with what memory holds.
MutModified == [b \in DOMAIN chunk |-> IF b \in Wanted THEN DataAt(b) ELSE 0]

Modified == [b \in DOMAIN chunk |-> IF b \in Wanted THEN DataAt(b) ELSE chunk[b]]
FromData(S) == [b \in S |-> DataAt(b)]
Received(S) == result' = [b \in Wanted |-> IF b \in S THEN mem[b] ELSE result[b]]

----------------------------------------------------------------------------
Begin == /\ Goto("idle", "head")
         /\ reqs < MaxReqs
         /\ reqs' = reqs + 1
         /\ \E kind \in {"read", "write"}, a \in Bytes, n \in 0 .. MaxLen :
              /\ a + n <= Size
              /\ \E d \in (IF kind = "write" THEN Data(n) ELSE {Initial}) :
                   req' = [kind |-> kind, addr |-> a, len |-> n, data |-> d]
              /\ result' = [b \in Span(a, n) |-> NoByte]
         /\ pos' = 0
         /\ touched' = {}
         /\ UNCHANGED <<chunk, mem, stores, call, ref, raced>>

\* if (len && (addr & (align-1)))
NoHead == /\ Goto("head", "tail")
          /\ HeadLen = 0
          /\ UNCHANGED <<req, chunk, pos, mem, result, reqs, stores, call, ref, raced, touched>>

Head1 == /\ Goto("head", IF req.kind = "read" THEN "tail" ELSE "head2")
         /\ HeadLen > 0
         /\ ReadChunk(HeadChunk)
         /\ IF req.kind = "read" THEN Received(HeadChunk) ELSE UNCHANGED result
         /\ UNCHANGED <<req, pos, mem, reqs, stores, ref, raced, touched>>

Head2 == /\ Goto("head2", "tail")
         /\ WriteChunk(HeadChunk, Modified)
         /\ UNCHANGED <<req, chunk, pos, result, reqs, stores, touched>>

\* Mutant: a request with an unaligned head has its tail skipped ("else if").
MutNoTail == /\ Goto("tail", "body")
             /\ TailLen = 0 \/ HeadLen > 0
             /\ UNCHANGED <<req, chunk, pos, mem, result, reqs, stores, call, ref, raced, touched>>

\* if (len & (align-1))
NoTail == /\ Goto("tail", "body")
          /\ TailLen = 0
          /\ UNCHANGED <<req, chunk, pos, mem, result, reqs, stores, call, ref, raced, touched>>

Tail1 == /\ Goto("tail", IF req.kind = "read" THEN "body" ELSE "tail2")
         /\ TailLen > 0
         /\ ReadChunk(TailChunk)
         /\ IF req.kind = "read" THEN Received(TailChunk) ELSE UNCHANGED result
         /\ UNCHANGED <<req, pos, mem, reqs, stores, ref, raced, touched>>

Tail2 == /\ Goto("tail2", "body")
         /\ WriteChunk(TailChunk, Modified)
         /\ UNCHANGED <<req, chunk, pos, result, reqs, stores, touched>>

\* for (pos = 0; pos < len; pos += chunk_max_size())
Step == pc = "body" /\ pos < BodyLen /\ pos' = pos + MaxChunk

BodyRead == /\ Step
            /\ req.kind = "read"
            /\ Called(BodyChunk)
            /\ Received(BodyChunk)
            /\ UNCHANGED <<pc, req, chunk, mem, reqs, stores, ref, raced, touched>>

BodyWrite == /\ Step
             /\ req.kind = "write"
             /\ ~ AllZero
             /\ WriteChunk(BodyChunk, FromData(BodyChunk))
             /\ UNCHANGED <<pc, req, chunk, result, reqs, stores, touched>>

\* clear_chunk(), which writes zeros chunk by chunk.
BodyClear == /\ Step
             /\ req.kind = "write"
             /\ AllZero
             /\ WriteChunk(BodyChunk, [b \in BodyChunk |-> 0])
             /\ UNCHANGED <<pc, req, chunk, result, reqs, stores, touched>>

Finish == /\ pc = "body" /\ pos >= BodyLen
          /\ pc' = "done"
          /\ UNCHANGED <<req, chunk, pos, mem, result, reqs, stores, call, ref, raced, touched>>

Again == /\ Goto("done", "idle")
         /\ UNCHANGED <<req, chunk, pos, mem, result, reqs, stores, call, ref, raced, touched>>

Host == \/ Begin \/ NoHead \/ Head1 \/ Head2 \/ NoTail \/ Tail1 \/ Tail2
        \/ BodyRead \/ BodyWrite \/ BodyClear \/ Finish \/ Again

\* The target stores a byte; within a read-modify-write of its chunk, the store
\* will be undone.
Modifying == CASE pc = "head2" -> HeadChunk [] pc = "tail2" -> TailChunk [] OTHER -> {}

Store == /\ stores < MaxStores
         /\ stores' = stores + 1
         /\ \E b \in Bytes :
              /\ mem' = [mem EXCEPT ![b] = StoreVal(stores)]
              /\ ref' = [ref EXCEPT ![b] = StoreVal(stores)]
              /\ raced' = IF b \in Modifying \ Wanted THEN raced \cup {b} ELSE raced \ {b}
              /\ touched' = touched \cup {b}
         /\ UNCHANGED <<pc, req, chunk, pos, result, reqs, call>>

Next == Host \/ Store

Spec == Init /\ [][Next]_vars

----------------------------------------------------------------------------
\* Every variable has its type, and the host's buffer is one chunk.
TypeOK == /\ pc \in {"idle", "head", "head2", "tail", "tail2", "body", "done"}
          /\ req.kind \in {"read", "write"} /\ Wanted \subseteq Bytes
          /\ DOMAIN chunk \subseteq Bytes /\ Cardinality(DOMAIN chunk) \in {0, Align}
          /\ mem \in [Bytes -> Byte] /\ ref \in [Bytes -> Byte]
          /\ raced \subseteq Bytes /\ touched \subseteq Bytes
          /\ pos \in 0 .. MaxLen + MaxChunk

\* The transport is asked for aligned, whole, non-empty chunks of at most its
\* size, within memory (what tsi's len - 1 and the hexwriter's asserts need).
CallsLegal == /\ call.addr % Align = 0
              /\ call.len % Align = 0
              /\ call.len \in 1 .. MaxChunk
              /\ Span(call.addr, call.len) \subseteq Bytes

\* Every byte holds what was last written to it, by the host or the target: a
\* write changes no other byte, whatever its alignment.  The exception is a byte
\* next to the request that the target stored during the read-modify-write.
NothingElseChanged ==
  \A b \in Bytes : mem[b] = ref[b] \/ b \in raced

\* A finished write has written all its bytes (the target may have overwritten
\* some since).
WriteComplete == pc = "done" /\ req.kind = "write" =>
                   \A b \in Wanted \ touched : mem[b] = DataAt(b)

\* A finished read has the bytes of its addresses, each of them.
ReadComplete == pc = "done" /\ req.kind = "read" =>
                  \A b \in Wanted : result[b] = mem[b] \/ b \in touched
=============================================================================
