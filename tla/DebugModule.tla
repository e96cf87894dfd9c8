---------------------------- MODULE DebugModule ----------------------------
(***************************************************************************)
(* What fesvr/dtm.cc drives: a RISC-V debug module (version 0.13) and its  *)
(* harts, behind a bus of one request and one response.  External code: it *)
(* is modelled from the use that dtm.cc makes of it and from the comments  *)
(* of fesvr/debug_defines.h.                                               *)
(***************************************************************************)
EXTENDS Integers, Sequences

CONSTANTS NHarts,       \* the harts are 0 .. NHarts - 1
          HartselMax,   \* the highest hart that HARTSEL can name
          XLEN,         \* the width of a register: 32 or 64
          MemWords,     \* the memory: this many XLEN-wide words from address 0
          RamWords,     \* instructions in the program buffer
          Entry         \* the program's entry point

ASSUME DebugModuleAssumption == /\ XLEN \in {32, 64}
                                /\ HartselMax \in 0 .. 1023
                                /\ NHarts \in 1 .. HartselMax + 1
                                /\ {MemWords, RamWords, Entry} \subseteq Nat

VARIABLES dm,       \* the registers of the debug module
          harts,    \* the state of each hart
          mem,      \* memory: address -> register-wide value
          ppc,      \* the program buffer's instruction that is executed, or -1
          own       \* s0 and s1 as the hart's own program left them

dvars == <<dm, harts, mem, ppc, own>>

Harts == 0 .. NHarts - 1
Step == XLEN \div 8
Words == XLEN \div 32                              \* 32-bit words of a register
Addrs == {Step * i : i \in 0 .. MemWords - 1}
Long(x) == [i \in 1 .. Words |-> IF i = 1 THEN x ELSE 0]
DataAddr == 1000                                   \* where harts see DATA0

Ins(op, rd, rs, imm) == [op |-> op, rd |-> rd, rs |-> rs, imm |-> imm]
NoCommand == [write |-> FALSE, transfer |-> FALSE, postexec |-> FALSE, size |-> 0, reg |-> "x0"]

DmInit ==
  /\ dm = [active |-> FALSE, hartsel |-> 0, haltreq |-> FALSE, busy |-> FALSE, cmderr |-> 0,
           command |-> NoCommand, data |-> [i \in 1 .. Words |-> 0], auto |-> 0,
           prog |-> [i \in 1 .. RamWords |-> Ins("ebreak", "x0", "x0", 0)]]
  /\ harts = [h \in Harts |->
                [halted |-> FALSE, resume |-> FALSE, ack |-> FALSE, pc |-> Long(0),
                 reg |-> [s0 |-> Long(1), s1 |-> Long(2), x0 |-> Long(0)],
                 csr |-> [dpc |-> Long(0), dscratch0 |-> Long(0), mscratch |-> Long(1)]]]
  /\ mem = [a \in Addrs |-> Long(0)]
  /\ ppc = -1
  /\ own = [h \in Harts |-> [s0 |-> Long(1), s1 |-> Long(2)]]

Selected == dm.hartsel
Exists == Selected \in Harts

----------------------------------------------------------------------------
(* The registers, as the bus sees them.                                    *)

BUSY == 1
NOT_SUPPORTED == 2
EXCEPTION == 3
HALT_RESUME == 4

DmControl == [active |-> dm.active, hartsel |-> dm.hartsel, haltreq |-> FALSE, resumereq |-> FALSE]
DmStatus == [nonexistent |-> ~ Exists, allhalted |-> Exists /\ harts[Selected].halted,
             resumeack |-> Exists /\ harts[Selected].ack]
AbstractCs == [busy |-> dm.busy, cmderr |-> dm.cmderr, progsize |-> RamWords, datacount |-> Words]

Readout(addr) == CASE addr[1] = "DMCONTROL" -> DmControl
                   [] addr[1] = "DMSTATUS" -> DmStatus
                   [] addr[1] = "ABSTRACTCS" -> AbstractCs
                   [] addr[1] = "HARTINFO" -> [nscratch |-> 1, dataaccess |-> TRUE, dataaddr |-> DataAddr]
                   [] addr[1] = "DATA" -> dm.data[addr[2] + 1]

\* A command starts unless an error is pending or it cannot be carried out.
Started(d, c) == CASE d.busy -> [d EXCEPT !.cmderr = IF @ = 0 THEN BUSY ELSE @]
                   [] ~ d.busy /\ d.cmderr # 0 -> d
                   [] ~ d.busy /\ d.cmderr = 0 ->
                        IF ~ (Exists /\ harts[Selected].halted) THEN [d EXCEPT !.cmderr = HALT_RESUME]
                        ELSE IF c.transfer /\ c.size # XLEN THEN [d EXCEPT !.cmderr = NOT_SUPPORTED]
                        ELSE [d EXCEPT !.busy = TRUE, !.command = c]

\* A write to the data registers starts the last command again if autoexec says so; one
\* that comes while a command executes is an error.
Written(addr, v) ==
  CASE addr[1] = "DMCONTROL" ->
         [dm EXCEPT !.active = v.active, !.haltreq = v.haltreq,
                    !.hartsel = IF v.hartsel > HartselMax THEN HartselMax ELSE v.hartsel]
    [] addr[1] = "ABSTRACTCS" -> [dm EXCEPT !.cmderr = IF v = "clear" THEN 0 ELSE @]
    [] addr[1] = "ABSTRACTAUTO" -> [dm EXCEPT !.auto = v]
    [] addr[1] = "COMMAND" -> Started(dm, v)
    [] addr[1] = "PROGBUF" /\ dm.busy -> [dm EXCEPT !.cmderr = BUSY]
    [] addr[1] = "PROGBUF" /\ ~ dm.busy -> [dm EXCEPT !.prog[addr[2] + 1] = v]
    [] addr[1] = "DATA" /\ dm.busy -> [dm EXCEPT !.cmderr = BUSY]
    [] addr[1] = "DATA" /\ ~ dm.busy ->
         LET d == [dm EXCEPT !.data[addr[2] + 1] = v]
         IN  IF dm.auto = 1 /\ addr[2] = 0 THEN Started(d, d.command) ELSE d

\* The bus carries out a request: op is 0 (none), 1 (read) or 2 (write).
Access(req) ==
  /\ dm' = IF req.op = 2 THEN Written(req.addr, req.data) ELSE dm
  /\ harts' = IF req.op = 2 /\ req.addr[1] = "DMCONTROL" /\ req.data.resumereq /\ req.data.hartsel \in Harts
              THEN [harts EXCEPT ![req.data.hartsel].resume = TRUE, ![req.data.hartsel].ack = FALSE]
              ELSE harts
  /\ UNCHANGED <<mem, ppc, own>>

----------------------------------------------------------------------------
(* The hardware's own steps.                                               *)

\* The hart that is selected halts on request, and remembers where.
Halt(h) == /\ dm.active /\ dm.haltreq /\ Selected = h /\ ~ harts[h].halted
           /\ harts' = [harts EXCEPT ![h].halted = TRUE, ![h].csr.dpc = harts[h].pc]
           /\ UNCHANGED <<dm, mem, ppc, own>>

Resume(h) == /\ harts[h].resume
             /\ harts' = [harts EXCEPT ![h].resume = FALSE, ![h].ack = TRUE, ![h].halted = FALSE,
                                       ![h].pc = harts[h].csr.dpc]
             /\ UNCHANGED <<dm, mem, ppc, own>>

\* A running hart executes its program, here one that exchanges s0 and s1.
Run(h) == /\ ~ harts[h].halted
          /\ LET r == harts[h].reg
             IN  /\ harts' = [harts EXCEPT ![h].reg.s0 = r.s1, ![h].reg.s1 = r.s0]
                 /\ own' = [own EXCEPT ![h] = [s0 |-> r.s1, s1 |-> r.s0]]
          /\ UNCHANGED <<dm, mem, ppc>>

\* A command: the transfer of a register, then the program buffer.
Transfer ==
  /\ dm.busy /\ ppc = -1
  /\ LET c == dm.command
         h == Selected
     IN  /\ harts' = IF c.transfer /\ c.write /\ c.reg # "x0"
                     THEN [harts EXCEPT ![h].reg[c.reg] = dm.data] ELSE harts
         /\ dm' = [dm EXCEPT !.data = IF c.transfer /\ ~ c.write THEN harts[h].reg[c.reg] ELSE @,
                             !.busy = c.postexec]
         /\ ppc' = IF c.postexec THEN 0 ELSE -1
  /\ UNCHANGED <<mem, own>>

Bit(x, k) == (x \div 2 ^ k) % 2
Or(v, w) == [i \in DOMAIN v |-> LET b(k) == IF Bit(v[i], k) + Bit(w[i], k) > 0 THEN 2 ^ k ELSE 0 IN b(0) + b(1)]
AndNot(v, w) == [i \in DOMAIN v |-> LET b(k) == IF Bit(v[i], k) > Bit(w[i], k) THEN 2 ^ k ELSE 0 IN b(0) + b(1)]
Combined(op, old, w) == CASE op = "csrrw" -> w [] op = "csrrs" -> Or(old, w) [] op = "csrrc" -> AndNot(old, w)

\* An instruction of the program buffer; ebreak or an exception ends the command.
Fetch == LET here == harts[Selected].reg
             ins == dm.prog[ppc + 1]
         IN  [ins |-> ins, src |-> IF ins.rs \in DOMAIN here THEN here[ins.rs] ELSE Long(0),
              dst |-> IF ins.rd \in DOMAIN here THEN here[ins.rd] ELSE Long(0)]
Target(f) == f.src[1] + f.ins.imm
Traps(f) == \/ f.ins.op \in {"load", "store"} /\ Target(f) \notin Addrs \cup {DataAddr}
            \/ f.ins.op \in {"csrrw", "csrrs", "csrrc"} /\ f.ins.imm \notin DOMAIN harts[Selected].csr
SetReg(r, v) == harts' = IF r = "x0" THEN harts ELSE [harts EXCEPT ![Selected].reg[r] = v]

Execute ==
  /\ ppc >= 0
  /\ LET f == Fetch
         i == f.ins
     IN  IF Traps(f) \/ i.op = "ebreak" \/ ppc + 1 = RamWords
         THEN /\ dm' = [dm EXCEPT !.busy = FALSE, !.cmderr = IF Traps(f) THEN EXCEPTION ELSE @]
              /\ ppc' = -1
              /\ UNCHANGED <<harts, mem>>
         ELSE /\ ppc' = IF i.op = "bne" /\ f.src # f.dst THEN ppc + i.imm \div 4 ELSE ppc + 1
              /\ CASE i.op = "load" ->
                        /\ SetReg(i.rd, IF Target(f) = DataAddr THEN dm.data ELSE mem[Target(f)])
                        /\ UNCHANGED <<dm, mem>>
                   [] i.op = "store" ->
                        /\ mem' = IF Target(f) \in Addrs THEN [mem EXCEPT ![Target(f)] = f.dst] ELSE mem
                        /\ dm' = IF Target(f) = DataAddr THEN [dm EXCEPT !.data = f.dst] ELSE dm
                        /\ UNCHANGED harts
                   [] i.op = "addi" ->
                        /\ SetReg(i.rd, [f.src EXCEPT ![1] = @ + i.imm]) /\ UNCHANGED <<dm, mem>>
                   [] i.op \in {"csrrw", "csrrs", "csrrc"} ->
                        /\ LET old == harts[Selected].csr[i.imm]
                               h1 == [harts EXCEPT ![Selected].csr[i.imm] = Combined(i.op, old, f.src)]
                           IN  harts' = IF i.rd = "x0" THEN h1 ELSE [h1 EXCEPT ![Selected].reg[i.rd] = old]
                        /\ UNCHANGED <<dm, mem>>
                   [] i.op \in {"bne", "fence.i"} -> UNCHANGED <<dm, harts, mem>>
  /\ UNCHANGED own

Hardware == (\E h \in Harts : Halt(h) \/ Resume(h)) \/ Transfer \/ Execute
=============================================================================
