-------------------------------- MODULE Dtm --------------------------------
(***************************************************************************)
(* dtm_t (fesvr/dtm.cc): the host side of a debug transport.  The host is  *)
(* a coroutine that issues one request after the other to the debug module *)
(* and is resumed with its response, from tick() or return_resp().  What a *)
(* function of dtm.cc does is a sequence of steps: requests, and the few   *)
(* computations between them.  The borrowed hart's registers, memory and   *)
(* the debug module are those of DebugModule.                              *)
(***************************************************************************)
EXTENDS DebugModule

CONSTANTS MaxOps,       \* operations after the boot, at most
          MaxWords,     \* words of a chunk, at most
          Data,         \* the values of a word that the host writes
          Csrs          \* the CSRs that the host touches

\* The longest program has 6 instructions; run_abstract_command asserts that it fits.
\* The host keeps s0 in dscratch0 while it touches another CSR.
ASSUME DtmAssumption == /\ MaxOps \in Nat /\ MaxWords \in Nat /\ Data \subseteq Nat
                        /\ RamWords >= 6
                        /\ Csrs \subseteq {"dpc", "mscratch"}

VARIABLES todo,         \* the steps that the host has still to do
          loc,          \* the host's variables
          op,           \* the operation at hand: what was asked for
          ops,          \* operations that were begun after the boot
          in_command,   \* the host is inside do_command()
          control,      \* who has control: "host" or "target"
          req_buf, req_wait, resp_wait, resp_buf,
          wire          \* "executed" when the target has carried out a request and not yet
                        \* responded; "call" when it uses return_resp() and not tick()

hvars == <<todo, loc, op, ops, in_command, control, req_buf, req_wait, resp_wait, resp_buf, wire>>
vars == <<dvars, hvars>>

----------------------------------------------------------------------------
(* Steps.  Requests: write a constant, or a word of a variable; read into a *)
(* variable; read until a condition holds.  Others compute.                 *)

StepOf(do, addr, val) == [do |-> do, addr |-> addr, val |-> val]
Reg(name) == <<name, 0>>
write(addr, v) == <<StepOf("write", addr, v)>>
write_word(addr, var, i) == <<StepOf("write_word", addr, <<var, i>>)>>
read(addr, var) == <<StepOf("read", addr, var)>>
until(addr, cond) == <<StepOf("until", addr, cond)>>
local(what, arg) == <<StepOf(what, Reg("none"), arg)>>
nop == <<StepOf("nop", Reg("none"), 0)>>

DMACTIVE == [active |-> TRUE, hartsel |-> 0, haltreq |-> FALSE, resumereq |-> FALSE]

\* select_hart: the other fields of dmcontrol keep their values.
select_hart(h) == read(Reg("DMCONTROL"), "dmcontrol")
                    \o local("hartsel", h)
                    \o write_word(Reg("DMCONTROL"), "dmcontrol", 0)
                    \o local("current_hart", h)

\* The hart to halt is named only after the debug module was written once, and no two
\* writes of dmcontrol follow each other.
halt(h) == (IF loc.running THEN write(Reg("DMCONTROL"), DMACTIVE) \o read(Reg("DMSTATUS"), "dmstatus") ELSE <<>>)
             \o write(Reg("DMCONTROL"), [DMACTIVE EXCEPT !.haltreq = TRUE, !.hartsel = h])
             \o until(Reg("DMSTATUS"), "allhalted")
             \o write(Reg("DMCONTROL"), [DMACTIVE EXCEPT !.hartsel = h])
             \o read(Reg("DMSTATUS"), "dmstatus")
             \o local("current_hart", h)

\* Mutant: the hart is assumed to resume at once.
Mutresume(h) == write(Reg("DMCONTROL"), [DMACTIVE EXCEPT !.resumereq = TRUE, !.hartsel = h])
                  \o write(Reg("DMCONTROL"), [DMACTIVE EXCEPT !.hartsel = h])
                  \o read(Reg("DMSTATUS"), "dmstatus")
                  \o local("current_hart", h)

resume(h) == write(Reg("DMCONTROL"), [DMACTIVE EXCEPT !.resumereq = TRUE, !.hartsel = h])
               \o until(Reg("DMSTATUS"), "resumeack")
               \o write(Reg("DMCONTROL"), [DMACTIVE EXCEPT !.hartsel = h])
               \o read(Reg("DMSTATUS"), "dmstatus")
               \o local("current_hart", h)
               \o (IF loc.running THEN write(Reg("DMCONTROL"), DMACTIVE) \o read(Reg("DMSTATUS"), "dmstatus") ELSE <<>>)

----------------------------------------------------------------------------
(* Abstract commands.                                                      *)

Ac(flags, size, reg) == [write |-> "WRITE" \in flags, transfer |-> "TRANSFER" \in flags,
                         postexec |-> "POSTEXEC" \in flags, size |-> size, reg |-> reg]

LOAD(dst, base, imm) == Ins("load", dst, base, imm)
STORE(src, base, imm) == Ins("store", src, base, imm)
ADDI(dst, src, imm) == Ins("addi", dst, src, imm)
BNE(r1, r2, there, here) == Ins("bne", r2, r1, there - here)
CSRRx(type, dst, csr, src) == Ins(type, dst, src, csr)
FENCE_I == Ins("fence.i", "x0", "x0", 0)
EBREAK == Ins("ebreak", "x0", "x0", 0)

Progbuf(prog) == [i \in 1 .. Len(prog) |-> StepOf("write", <<"PROGBUF", i - 1>>, prog[i])]
WriteData(n) == [i \in 1 .. n |-> StepOf("write_word", <<"DATA", i - 1>>, <<"data", i>>)]
ReadData(n) == [i \in 1 .. n |-> StepOf("read", <<"DATA", i - 1>>, <<"data", i>>)]

\* assert(program_n <= ram_words) and assert(data_n <= data_words) hold for the module.
run_abstract_command(command, prog, n) ==
  Progbuf(prog)
    \o (IF command.write /\ command.transfer THEN WriteData(n) ELSE <<>>)
    \o write(Reg("COMMAND"), command)
    \o until(Reg("ABSTRACTCS"), "idle")
    \o (IF ~ command.write /\ command.transfer THEN ReadData(n) ELSE <<>>)

die == write(Reg("ABSTRACTCS"), "clear")
RUN_AC_OR_DIE(command, prog, n) == run_abstract_command(command, prog, n) \o local("check", 0)

save_reg(reg, var) == RUN_AC_OR_DIE(Ac({"TRANSFER"}, loc.xlen, reg), <<>>, Words) \o local("keep", var)
restore_reg(reg, var) == local("recall", var) \o RUN_AC_OR_DIE(Ac({"TRANSFER", "WRITE"}, loc.xlen, reg), <<>>, Words)

chunk_align == loc.xlen \div 8
Borrow == save_reg("s0", "s0") \o save_reg("s1", "s1")
GiveBack == restore_reg("s0", "s0") \o restore_reg("s1", "s1")
DataIs(v) == local("data", v)

\* The first command loads the first word; each further one hands over a word and loads
\* the next, except the last.
ReadWords(i, n) ==
  IF i > n THEN <<>>
  ELSE RUN_AC_OR_DIE(Ac({"TRANSFER"} \cup (IF i < n THEN {"POSTEXEC"} ELSE {}), loc.xlen, "s1"), <<>>, Words)
         \o local("memcpy", i) \o local("read_words", <<i + 1, n>>)
read_chunk(taddr, n) ==
  LET prog == <<LOAD("s1", "s0", 0), ADDI("s0", "s0", chunk_align), EBREAK>>
  IN  halt(loc.current_hart) \o Borrow
        \o DataIs(Long(taddr))
        \o RUN_AC_OR_DIE(Ac({"TRANSFER", "WRITE", "POSTEXEC"}, loc.xlen, "s0"), prog, Words)
        \o local("read_words", <<1, n>>)
        \o GiveBack \o resume(loc.current_hart)

\* Mutant: the halves in the order of their addresses.
MutAutoWord(v) == DataIs(v)
                    \o write_word(<<"DATA", 0>>, "data", 1)
                    \o until(Reg("ABSTRACTCS"), "idle")
                    \o (IF loc.xlen = 64 THEN write_word(<<"DATA", 1>>, "data", 2) ELSE <<>>)
                    \o local("check", 0)
\* After the first word the commands are started by the write of DATA0, so the other
\* half of a word has to be there before.
AutoWord(v) == DataIs(v)
                 \o (IF loc.xlen = 64 THEN write_word(<<"DATA", 1>>, "data", 2) ELSE <<>>)
                 \o write_word(<<"DATA", 0>>, "data", 1)
                 \o until(Reg("ABSTRACTCS"), "idle") \o local("check", 0)

StartWrite(taddr, first) ==
  LET prog == <<STORE("s1", "s0", 0), ADDI("s0", "s0", chunk_align), EBREAK>>
  IN  DataIs(Long(taddr)) \o RUN_AC_OR_DIE(Ac({"TRANSFER", "WRITE"}, loc.xlen, "s0"), prog, Words)
        \o DataIs(first) \o RUN_AC_OR_DIE(Ac({"TRANSFER", "WRITE", "POSTEXEC"}, loc.xlen, "s1"), <<>>, Words)
AutoOn == write(Reg("ABSTRACTAUTO"), 1)
AutoOff == write(Reg("ABSTRACTAUTO"), 0)
\* Mutant: autoexec stays on.
MutAutoWords(words) == IF words = <<>> THEN <<>> ELSE AutoOn \o local("auto_words", words)
AutoWords(words) == IF words = <<>> THEN <<>> ELSE AutoOn \o local("auto_words", words) \o AutoOff
NextWords(words) == IF words = <<>> THEN <<>> ELSE AutoWord(Head(words)) \o local("auto_words", Tail(words))
write_chunk(taddr, src) ==
  halt(loc.current_hart) \o Borrow \o StartWrite(taddr, src[1]) \o AutoWords(Tail(src))
    \o GiveBack \o resume(loc.current_hart)

\* The hart itself loops over the chunk.
clear_chunk(taddr, n) ==
  LET prog == <<STORE("x0", "s0", 0), ADDI("s0", "s0", chunk_align), BNE("s0", "s1", 0 * 4, 2 * 4), EBREAK>>
  IN  halt(loc.current_hart) \o Borrow
        \o DataIs(Long(taddr)) \o RUN_AC_OR_DIE(Ac({"TRANSFER", "WRITE"}, loc.xlen, "s0"), <<>>, Words)
        \o DataIs(Long(taddr + n * chunk_align))
        \o RUN_AC_OR_DIE(Ac({"TRANSFER", "WRITE", "POSTEXEC"}, loc.xlen, "s1"), prog, Words)
        \o GiveBack \o resume(loc.current_hart)

\* s0 is exchanged with dscratch0, twice; the value travels through the data registers.
modify_csr(which, v, type) ==
  LET prog == <<CSRRx("csrrw", "s0", "dscratch0", "s0"), LOAD("s0", "x0", loc.data_base),
                CSRRx(type, "s0", which, "s0"), STORE("s0", "x0", loc.data_base),
                CSRRx("csrrw", "s0", "dscratch0", "s0"), EBREAK>>
  IN  halt(loc.current_hart)
        \o DataIs(v) \o RUN_AC_OR_DIE(Ac({"POSTEXEC", "TRANSFER", "WRITE"}, loc.xlen, "x0"), prog, Words)
        \o ReadData(Words)
        \o resume(loc.current_hart)

fence_i == halt(loc.current_hart)
             \o RUN_AC_OR_DIE(Ac({"POSTEXEC", "TRANSFER", "WRITE"}, loc.xlen, "x0"), <<FENCE_I, EBREAK>>, 0)
             \o resume(loc.current_hart)

\* Whatever the size of s0 is, the commands of other sizes fail, and their errors are
\* cleared.  (A hart with 128 bits ends the program.)
TrySize(n) == run_abstract_command(Ac({"TRANSFER"}, n, "s0"), <<>>, 0) \o local("size", n)
get_xlen == TrySize(128)

\* The harts that HARTSEL can name are tried in turn.
enumerate_harts == read(Reg("DMCONTROL"), "dmcontrol") \o local("hartsel", 1023)
                     \o write_word(Reg("DMCONTROL"), "dmcontrol", 0)
                     \o read(Reg("DMSTATUS"), "dmstatus") \o read(Reg("DMCONTROL"), "dmcontrol")
                     \o local("max_hart", 0) \o local("enumerate", 0)

\* producer_thread, up to running = true.
Boot == write(Reg("DMCONTROL"), DMACTIVE) \o until(Reg("DMCONTROL"), "dmactive")
          \o read(Reg("ABSTRACTCS"), "abstractcs") \o read(Reg("HARTINFO"), "hartinfo") \o local("data_base", 0)
          \o enumerate_harts \o halt(0) \o get_xlen \o resume(0) \o local("running", 0)

----------------------------------------------------------------------------
(* The host.                                                               *)

Holds(cond, v) == CASE cond = "allhalted" -> v.allhalted
                    [] cond = "resumeack" -> v.resumeack
                    [] cond = "idle" -> ~ v.busy
                    [] cond = "dmactive" -> v.active
IsRequest(s) == s.do \in {"write", "write_word", "read", "until", "nop"}
Now == Head(todo)
Rest == Tail(todo)
Hosting == control = "host"

Word(w) == IF w[2] = 0 THEN loc[w[1]] ELSE loc[w[1]][w[2]]

\* do_command: the request is left in req_buf, and the target gets control ...
do_command == /\ Hosting /\ ~ in_command /\ todo # <<>> /\ IsRequest(Now)
              /\ req_buf' = [addr |-> Now.addr,
                             op |-> CASE Now.do \in {"write", "write_word"} -> 2
                                      [] Now.do \in {"read", "until"} -> 1 [] Now.do = "nop" -> 0,
                             data |-> CASE Now.do = "write" -> Now.val [] Now.do = "write_word" -> Word(Now.val)
                                        [] OTHER -> 0]
              /\ in_command' = TRUE /\ control' = "target"
              /\ UNCHANGED <<dvars, todo, loc, op, ops, req_wait, resp_wait, resp_buf, wire>>

\* ... until the response is there.  A loop asks again.
Receive == /\ Hosting /\ in_command
           /\ in_command' = FALSE
           /\ loc' = CASE Now.do = "read" /\ Now.addr[1] = "DATA" -> [loc EXCEPT !.data[Now.val[2]] = resp_buf]
                       [] Now.do = "read" /\ Now.addr[1] # "DATA" -> [loc EXCEPT ![Now.val] = resp_buf]
                       [] Now.do = "until" /\ Now.addr[1] = "ABSTRACTCS" -> [loc EXCEPT !.abstractcs = resp_buf]
                       [] OTHER -> loc
           /\ todo' = IF Now.do = "until" /\ ~ Holds(Now.val, resp_buf) THEN todo ELSE Rest
           /\ UNCHANGED <<dvars, op, ops, control, req_buf, req_wait, resp_wait, resp_buf, wire>>

Assign(var, v) == loc' = [loc EXCEPT ![var] = v] /\ todo' = Rest /\ UNCHANGED op
Replace(steps) == todo' = steps \o Rest /\ UNCHANGED loc
CMDERR == loc.abstractcs.cmderr

\* The number of harts is the first that does not exist, or all that can be named.
Enumerate(h) == IF h <= loc.max_hart
                THEN /\ Replace(select_hart(h) \o read(Reg("DMSTATUS"), "dmstatus") \o local("exists", h))
                     /\ UNCHANGED op
                ELSE Assign("num_harts", h)

\* reset: one hart after the other; then hart 0 is the one that accesses memory.
ResetHart(h) == IF h < loc.num_harts
                THEN select_hart(h) \o local("fence_i", 0) \o local("write_csr", 0) \o local("reset", h + 1)
                ELSE select_hart(0) \o read(Reg("DMSTATUS"), "dmstatus")

Compute ==
  /\ Hosting /\ ~ in_command /\ todo # <<>> /\ ~ IsRequest(Now)
  /\ LET arg == Now.val IN
     CASE Now.do = "hartsel" -> Assign("dmcontrol", [loc.dmcontrol EXCEPT !.hartsel = arg])
       [] Now.do = "current_hart" -> Assign("current_hart", arg)
       [] Now.do = "data" -> Assign("data", arg)
       [] Now.do = "keep" -> Assign(arg, loc.data)
       [] Now.do = "recall" -> Assign("data", loc[arg])
       [] Now.do = "memcpy" -> Assign("dst", Append(loc.dst, loc.data))
       [] Now.do = "data_base" -> Assign("data_base", loc.hartinfo.dataaddr)
       [] Now.do = "max_hart" -> Assign("max_hart", loc.dmcontrol.hartsel)
       [] Now.do = "running" -> Assign("running", TRUE)
       [] Now.do = "enumerate" -> Enumerate(arg)
       [] Now.do = "exists" /\ loc.dmstatus.nonexistent -> Assign("num_harts", arg)
       [] Now.do = "exists" /\ ~ loc.dmstatus.nonexistent -> Replace(local("enumerate", arg + 1)) /\ UNCHANGED op
       [] Now.do = "size" /\ CMDERR = 0 -> Assign("xlen", arg)
       [] Now.do = "size" /\ CMDERR # 0 ->
            Replace(write(Reg("ABSTRACTCS"), "clear") \o TrySize(arg \div 2)) /\ UNCHANGED op
       [] Now.do = "check" -> /\ Replace(IF CMDERR = 0 THEN <<>> ELSE die)
                              /\ op' = [op EXCEPT !.failed = @ \/ CMDERR # 0]
       [] Now.do = "read_words" -> Replace(ReadWords(arg[1], arg[2])) /\ UNCHANGED op
       [] Now.do = "auto_words" -> Replace(NextWords(arg)) /\ UNCHANGED op
       [] Now.do = "reset" -> Replace(ResetHart(arg)) /\ UNCHANGED op
       [] Now.do = "fence_i" -> Replace(fence_i) /\ UNCHANGED op
       [] Now.do = "write_csr" -> Replace(modify_csr("dpc", Long(Entry), "csrrw")) /\ UNCHANGED op
  /\ UNCHANGED <<dvars, ops, in_command, control, req_buf, req_wait, resp_wait, resp_buf, wire>>

\* The memory port and the other calls of htif_t, in any order; then nops for ever.
Op(kind, addr, n, src, which) ==
  [kind |-> kind, addr |-> addr, n |-> n, src |-> src, which |-> which, failed |-> FALSE, before |-> mem,
   csr |-> harts[loc.current_hart].csr]
Begin(o, steps) == /\ op' = o /\ todo' = steps /\ ops' = ops + 1
                   /\ loc' = [loc EXCEPT !.dst = <<>>]
Values == IF Words = 1 THEN {<<x>> : x \in Data} ELSE {<<x, y>> : x \in Data, y \in Data}
Starts == {Step * i : i \in 0 .. MemWords}
CallPort == \E a \in Starts, n \in 1 .. MaxWords :
              \/ Begin(Op("read", a, n, <<>>, "-"), read_chunk(a, n))
              \/ Begin(Op("clear", a, n, [i \in 1 .. n |-> Long(0)], "-"), clear_chunk(a, n))
              \/ \E src \in [1 .. n -> Values] : Begin(Op("write", a, n, src, "-"), write_chunk(a, src))
CallCsr == \E which \in Csrs, v \in Values, type \in {"csrrw", "csrrs", "csrrc"} :
              Begin(Op(type, 0, 0, <<v>>, which), modify_csr(which, v, type))
CallReset == Begin(Op("reset", 0, 0, <<>>, "-"), local("reset", 0))
Idle == todo' = nop /\ UNCHANGED <<loc, op, ops>>

Call == /\ Hosting /\ todo = <<>>
        /\ \/ ops < MaxOps /\ (CallPort \/ CallCsr \/ CallReset)
           \/ Idle
        /\ UNCHANGED <<dvars, in_command, control, req_buf, req_wait, resp_wait, resp_buf, wire>>

HostStep == do_command \/ Receive \/ Compute \/ Call

----------------------------------------------------------------------------
(* The target: each cycle it calls tick() with what its side of the wires  *)
(* says, and looks at req_valid() and req_bits().                          *)

ByTick == wire # "call"
Targeting == ByTick /\ control = "target"

\* A request is shown to the target in the cycle after the last response.
TickShow == /\ Targeting /\ ~ resp_wait /\ ~ req_wait
            /\ req_wait' = TRUE
            /\ UNCHANGED <<dvars, todo, loc, op, ops, in_command, control, req_buf, resp_wait, resp_buf, wire>>

\* The target is ready, and carries it out.
TickAccept == /\ Targeting /\ ~ resp_wait /\ req_wait
              /\ Access(req_buf)
              /\ req_wait' = FALSE /\ resp_wait' = TRUE /\ wire' = "executed"
              /\ resp_buf' = IF req_buf.op = 1 THEN Readout(req_buf.addr) ELSE resp_buf
              /\ UNCHANGED <<todo, loc, op, ops, in_command, control, req_buf>>

\* Mutant: the target is still seen as busy with a request.
MutTickRespond == /\ Targeting /\ wire = "executed" /\ resp_wait
                  /\ wire' = "none" /\ control' = "host"
                  /\ UNCHANGED <<dvars, todo, loc, op, ops, in_command, req_buf, req_wait, resp_wait, resp_buf>>
\* assert(resp_wait): the response takes control back to the host.
TickRespond == /\ Targeting /\ wire = "executed" /\ resp_wait
               /\ resp_wait' = FALSE /\ wire' = "none" /\ control' = "host"
               /\ UNCHANGED <<dvars, todo, loc, op, ops, in_command, req_buf, req_wait, resp_buf>>

\* return_resp: carried out and answered in one call.
ReturnResp == /\ ~ ByTick /\ control = "target"
              /\ Access(req_buf)
              /\ resp_buf' = IF req_buf.op = 1 THEN Readout(req_buf.addr) ELSE resp_buf
              /\ control' = "host"
              /\ UNCHANGED <<todo, loc, op, ops, in_command, req_buf, req_wait, resp_wait, wire>>

TargetStep == TickShow \/ TickAccept \/ TickRespond \/ ReturnResp

\* The target simulation advances while it has control.
HardwareStep == control = "target" /\ Hardware /\ UNCHANGED hvars
ProgramStep == control = "target" /\ (\E h \in Harts : Run(h)) /\ UNCHANGED hvars

NoInfo == [nscratch |-> 0, dataaccess |-> FALSE, dataaddr |-> 0]

Init == /\ DmInit
        /\ loc = [running |-> FALSE, current_hart |-> 0, num_harts |-> 0, max_hart |-> 0, xlen |-> 0,
                  data_base |-> 0, dmcontrol |-> DMACTIVE, dmstatus |-> DmStatus, hartinfo |-> NoInfo,
                  abstractcs |-> AbstractCs, data |-> Long(0), dst |-> <<>>, s0 |-> Long(0), s1 |-> Long(0)]
        /\ todo = Boot
        /\ op = [kind |-> "boot", failed |-> FALSE] /\ ops = 0
        /\ in_command = FALSE /\ control = "host"
        /\ req_buf = [addr |-> Reg("none"), op |-> 0, data |-> 0]
        /\ req_wait = FALSE /\ resp_wait = FALSE /\ resp_buf = 0 /\ wire \in {"none", "call"}

Next == HostStep \/ TargetStep \/ HardwareStep \/ ProgramStep

Spec == Init /\ [][Next]_vars

\* The host runs when it has control, the target goes on ticking and answers, and its
\* hardware does what it is asked: strong fairness, because it advances only while the
\* target has control, again and again.  The harts' program need not advance.
LiveSpec == Spec /\ WF_vars(HostStep) /\ WF_vars(TargetStep) /\ SF_vars(HardwareStep)

----------------------------------------------------------------------------
Between == Hosting /\ todo = <<>>

\* Whenever a hart runs its program, s0 and s1 are the program's own: an operation that
\* borrowed them gave them back before, also when one of its commands failed.
BorrowedRestored == \A h \in Harts : ~ harts[h].halted =>
                      harts[h].reg.s0 = own[h].s0 /\ harts[h].reg.s1 = own[h].s1

\* An operation did what it was asked: a read has the words of memory, a write or a clear
\* has changed its words and no other, a CSR has its new value and the old one was
\* returned.  An operation that met an address without memory changes nothing else, and no
\* other operation's program traps.
Beyond == op.kind \in {"read", "write", "clear"} /\ op.addr + Step * (op.n - 1) \notin Addrs
Asked(a) == a \in {op.addr + Step * (i - 1) : i \in 1 .. op.n}
Place(a) == (a - op.addr) \div Step + 1
DoneRight ==
  /\ dm.cmderr = EXCEPTION => Beyond
  /\ Between =>
       CASE op.kind = "read" -> /\ mem = op.before
                                /\ op.failed \/ \A i \in 1 .. op.n : loc.dst[i] = mem[op.addr + Step * (i - 1)]
         [] op.kind \in {"write", "clear"} ->
              \A a \in Addrs : mem[a] = IF Asked(a) THEN op.src[Place(a)] ELSE op.before[a]
         [] op.kind \in {"csrrw", "csrrs", "csrrc"} ->
              /\ loc.data = op.csr[op.which]
              /\ op.which = "mscratch" =>
                   harts[0].csr.mscratch = Combined(op.kind, op.csr.mscratch, op.src[1])
         [] op.kind = "reset" -> \A h \in Harts : harts[h].pc = Long(Entry)
         [] OTHER -> TRUE

\* The host's commands are in order: none, and no word for one, comes while another
\* executes, or while the hart is running; but sizes are tried before the boot is over, and
\* a program may trap.
ErrorsAsked == dm.cmderr \in {0, EXCEPTION} \/ (dm.cmderr = NOT_SUPPORTED /\ ~ loc.running)

\* Between operations the debug module is idle, without an error and without autoexec;
\* every hart runs; hart 0 is the one that will be used; and the host knows the harts.
LeftQuiet == Between => /\ dm.cmderr = 0 /\ dm.auto = 0 /\ ~ dm.busy /\ ~ dm.haltreq /\ dm.active
                        /\ \A h \in Harts : ~ harts[h].halted /\ ~ harts[h].resume
                        /\ loc.current_hart = 0 /\ loc.num_harts = NHarts /\ loc.xlen = XLEN

\* The host keeps to the debug module's protocol: its commands are legal, and every
\* operation, also one that failed, leaves the module as the next one expects it.
CommandsLegal == ErrorsAsked /\ LeftQuiet

\* The boot, and every operation, ends.
OperationsEnd == (todo # <<>>) ~> Between
=============================================================================
