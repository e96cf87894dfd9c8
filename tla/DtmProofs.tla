----------------------------- MODULE DtmProofs -----------------------------
(***************************************************************************)
(* The host of the debug transport leaves harts and debug module as it     *)
(* found them, for any number of harts, operations and words, any memory   *)
(* and either width.  What the host has still to do is a list of steps.    *)
(* The invariant puts an assertion between any two of them, so that each   *)
(* step leads from the one before it to the one behind it, and says that   *)
(* the first assertion holds now.  An assertion is a record of what is     *)
(* known of the module, the harts and the host's variables.                *)
(***************************************************************************)
EXTENDS Dtm, TLAPS

----------------------------------------------------------------------------
(* Types.                                                                  *)

Val == [1 .. Words -> Int]
RegName == {"s0", "s1", "x0"}
CsrName == {"dpc", "dscratch0", "mscratch"}
Hart == [halted : BOOLEAN, resume : BOOLEAN, ack : BOOLEAN, pc : Val,
         reg : [RegName -> Val], csr : [CsrName -> Val]]
Command == [write : BOOLEAN, transfer : BOOLEAN, postexec : BOOLEAN, size : Int, reg : RegName]
Kinds(ops_, imms) == [op : ops_, rd : RegName, rs : RegName, imm : imms]
CsrOps == {"csrrw", "csrrs", "csrrc"}
Instruction == Kinds({"load", "store", "addi", "bne", "fence.i", "ebreak"}, Int) \cup Kinds(CsrOps, CsrName)
\* The k-th instruction of a program; a branch goes back within it.
Fits(k, i) == /\ i \in Instruction
              /\ i.op = "bne" => k - 1 + (i.imm \div 4) \in 0 .. k - 1
Control == [active : BOOLEAN, hartsel : Nat, haltreq : BOOLEAN, resumereq : BOOLEAN]
Status == [nonexistent : BOOLEAN, allhalted : BOOLEAN, resumeack : BOOLEAN]
Abstract == [busy : BOOLEAN, cmderr : Nat, progsize : Nat, datacount : Nat]
Info == [nscratch : Int, dataaccess : BOOLEAN, dataaddr : Int]

DmType == /\ dm \in [active : BOOLEAN, hartsel : Nat, haltreq : BOOLEAN, busy : BOOLEAN, cmderr : Nat,
                     command : Command, data : Val, auto : Int, prog : [1 .. RamWords -> Instruction]]
          /\ \A k \in 1 .. RamWords : Fits(k, dm.prog[k])
HartType == /\ harts \in [Harts -> Hart]
            /\ mem \in [Addrs -> Val]
            /\ ppc \in -1 .. RamWords - 1
            /\ own \in [Harts -> [s0 : Val, s1 : Val]]
LocType == loc \in [running : BOOLEAN, current_hart : Nat, num_harts : Nat, max_hart : Nat, xlen : Int,
                    data_base : Int, dmcontrol : Control, dmstatus : Status, hartinfo : Info,
                    abstractcs : Abstract, data : Val, dst : Seq(Val), s0 : Val, s1 : Val]
Typed == DmType /\ HartType /\ LocType

----------------------------------------------------------------------------
(* Control: what is known of the debug module and of who runs.             *)

Unknown == -1
Fact == {"active",    \* the module is active
         "auto",      \* DATA0 starts the last command
         "command",   \* which is of the right size
         "cmderr",    \* the host knows the module's error
         "probe",     \* ... and whether the selected hart exists,
         "info", "base", \* where harts see DATA0, in hartinfo and in data_base,
         "max", "harts", \* the highest number of a hart, and that of the harts,
         "xlen",      \* the width of a register,
         "running"}   \* and the boot is over

Mode == {"run",       \* every hart runs
         "halting",   \* the selected one has been asked to halt
         "caught",    \* it has halted, and is still asked to
         "halted",    \* it has halted
         "resuming"}  \* it has been asked to resume
Number == Nat \cup {Unknown}

Ctl == [mode : Mode,
        sel : Number,       \* the hart that is selected
        ctl : Number,       \* the hart named in the host's copy of dmcontrol
        cur : Number,       \* current_hart
        busy : BOOLEAN,     \* a command may be executing
        err : SUBSET Nat,   \* the errors there can be
        know : SUBSET Fact]

KnownOfModule(p) ==
  /\ "active" \in p.know => dm.active
  /\ dm.auto = IF "auto" \in p.know THEN 1 ELSE 0
  /\ "command" \in p.know => dm.command.size = XLEN
  /\ "cmderr" \in p.know => ~ p.busy /\ loc.abstractcs.cmderr = dm.cmderr
  /\ "probe" \in p.know => (loc.dmstatus.nonexistent <=> dm.hartsel \notin Harts)
KnownOfHost(p) ==
  /\ p.ctl # Unknown => loc.dmcontrol = [DMACTIVE EXCEPT !.hartsel = p.ctl]
  /\ p.cur # Unknown => loc.current_hart = p.cur
  /\ "info" \in p.know => loc.hartinfo.dataaddr = DataAddr
  /\ "base" \in p.know => loc.data_base = DataAddr
  /\ "max" \in p.know => loc.max_hart = HartselMax
  /\ "harts" \in p.know => loc.num_harts = NHarts
  /\ "xlen" \in p.know => loc.xlen = XLEN
  /\ loc.running <=> "running" \in p.know
Borrowed(p) ==
  p.mode # "run" =>
    /\ p.sel \in Harts
    /\ p.mode = "halting" => ~ harts[p.sel].resume
    /\ p.mode \in {"caught", "halted"} => harts[p.sel].halted /\ ~ harts[p.sel].resume
    /\ p.mode = "resuming" => IF harts[p.sel].resume THEN harts[p.sel].halted /\ ~ harts[p.sel].ack
                              ELSE ~ harts[p.sel].halted /\ harts[p.sel].ack
OthersRun(p) == \A g \in Harts : p.mode = "run" \/ g # p.sel => ~ harts[g].halted /\ ~ harts[g].resume
Module(p) == /\ p.sel # Unknown => dm.hartsel = p.sel
             /\ dm.haltreq <=> p.mode \in {"halting", "caught"}
             /\ dm.cmderr \in p.err
             /\ dm.busy => p.busy /\ p.mode = "halted"
             /\ dm.busy /\ (ppc # -1 \/ dm.command.postexec) => EXCEPTION \in p.err
             /\ ~ dm.busy => ppc = -1

\* The assertion p holds.
At(p) == Module(p) /\ Borrowed(p) /\ OthersRun(p) /\ KnownOfModule(p) /\ KnownOfHost(p)

----------------------------------------------------------------------------
(* A step leads from p to q.                                               *)

Add(p, facts) == [p EXCEPT !.know = @ \cup facts]
Forget(p, facts) == [p EXCEPT !.know = @ \ facts]
Clamp(h) == IF h > HartselMax THEN HartselMax ELSE h

\* A write of dmcontrol: it asks to halt, to resume, or neither.
Controls(p, v, q) ==
  /\ v \in Control /\ v.active
  /\ \/ /\ p.mode = "run" /\ ~ v.haltreq /\ ~ v.resumereq
        /\ q = [p EXCEPT !.sel = Clamp(v.hartsel), !.know = (@ \ {"probe"}) \cup {"active"}]
     \/ /\ p.mode = "run" /\ v.haltreq /\ ~ v.resumereq /\ v.hartsel \in Harts
        /\ q = [p EXCEPT !.mode = "halting", !.sel = v.hartsel, !.know = (@ \ {"probe"}) \cup {"active"}]
     \/ /\ p.mode = "caught" /\ ~ v.haltreq /\ ~ v.resumereq /\ v.hartsel = p.sel
        /\ q = [p EXCEPT !.mode = "halted"]
     \/ /\ p.mode = "halted" /\ ~ p.busy /\ ~ v.haltreq /\ v.resumereq /\ v.hartsel = p.sel
        /\ q = [p EXCEPT !.mode = "resuming"]

\* A command starts, with XLEN bits, or is not supported.
Commands(p, c, q) ==
  /\ c \in Command /\ c.transfer
  /\ p.mode = "halted" /\ ~ p.busy /\ p.err = {0}
  /\ IF c.size = XLEN
     THEN q = [p EXCEPT !.busy = TRUE, !.err = IF c.postexec THEN {0, EXCEPTION} ELSE {0},
                        !.know = (@ \ {"cmderr"}) \cup {"command"}]
     ELSE "running" \notin p.know /\ q = [p EXCEPT !.err = {NOT_SUPPORTED}, !.know = @ \ {"cmderr"}]

Writes(p, s, q) ==
  /\ s.do = "write"
  /\ \/ s.addr = Reg("DMCONTROL") /\ Controls(p, s.val, q)
     \/ s.addr = Reg("COMMAND") /\ Commands(p, s.val, q)
     \/ \E k \in 1 .. RamWords : s.addr = <<"PROGBUF", k - 1>> /\ ~ p.busy /\ Fits(k, s.val) /\ q = p
     \/ s.addr = Reg("ABSTRACTCS") /\ s.val = "clear" /\ ~ p.busy
          /\ q = [Forget(p, {"cmderr"}) EXCEPT !.err = {0}]
     \/ s.addr = Reg("ABSTRACTAUTO") /\ s.val = 1 /\ q = Add(p, {"auto"})
     \/ s.addr = Reg("ABSTRACTAUTO") /\ s.val = 0 /\ q = Forget(p, {"auto"})

WritesWord(p, s, q) ==
  /\ s.do = "write_word"
  /\ \/ /\ s.addr = Reg("DMCONTROL") /\ s.val = <<"dmcontrol", 0>>
        /\ p.ctl # Unknown /\ p.mode = "run"
        /\ Controls(p, [DMACTIVE EXCEPT !.hartsel = p.ctl], q)
     \/ \E k \in 1 .. Words :
          /\ s.addr = <<"DATA", k - 1>> /\ s.val = <<"data", k>>
          /\ ~ p.busy
          /\ IF "auto" \in p.know /\ k = 1
             THEN /\ p.mode = "halted" /\ p.err = {0} /\ "command" \in p.know
                  /\ q = [p EXCEPT !.busy = TRUE, !.err = {0, EXCEPTION}, !.know = @ \ {"cmderr"}]
             ELSE q = p

Reads(p, s, q) ==
  /\ s.do = "read"
  /\ \/ /\ s.addr = Reg("DMCONTROL") /\ s.val = "dmcontrol"
        /\ "active" \in p.know /\ p.sel # Unknown /\ q = [p EXCEPT !.ctl = p.sel]
     \/ s.addr = Reg("DMSTATUS") /\ s.val = "dmstatus" /\ q = Add(p, {"probe"})
     \/ s.addr = Reg("ABSTRACTCS") /\ s.val = "abstractcs" /\ q = Forget(p, {"cmderr"})
     \/ s.addr = Reg("HARTINFO") /\ s.val = "hartinfo" /\ q = Add(p, {"info"})
     \/ \E k \in 1 .. Words : s.addr = <<"DATA", k - 1>> /\ s.val = <<"data", k>> /\ ~ p.busy /\ q = p

Awaits(p, s, q) ==
  /\ s.do = "until"
  /\ \/ s.addr = Reg("DMSTATUS") /\ s.val = "allhalted" /\ p.mode = "halting"
          /\ q = [p EXCEPT !.mode = "caught"]
     \/ s.addr = Reg("DMSTATUS") /\ s.val = "resumeack" /\ p.mode = "resuming" /\ q = [p EXCEPT !.mode = "run"]
     \/ s.addr = Reg("DMCONTROL") /\ s.val = "dmactive" /\ q = p
     \/ s.addr = Reg("ABSTRACTCS") /\ s.val = "idle" /\ q = [Add(p, {"cmderr"}) EXCEPT !.busy = FALSE]

\* Between operations, and within the boot after the harts were counted.
Ready == {"active", "command", "base", "max", "harts", "xlen", "running"}
Quiet(p) == /\ p \in Ctl /\ p.mode = "run" /\ ~ p.busy /\ p.err = {0} /\ p.sel # Unknown
            /\ Ready \subseteq p.know /\ "auto" \notin p.know
Halted(p) == p.mode = "halted" /\ ~ p.busy /\ p.err = {0} /\ {"xlen", "command"} \subseteq p.know

\* The sizes that are tried before the right one was found.
Tried == {n \in {32, 64, 128} : XLEN <= n}

\* A computation that stands for steps leads where they do.
Computes(p, s, q) ==
  \/ s.do = "hartsel" /\ s.val \in Nat /\ p.ctl # Unknown /\ q = [p EXCEPT !.ctl = s.val]
  \/ s.do = "current_hart" /\ s.val \in Nat /\ q = [p EXCEPT !.cur = s.val]
  \/ s.do = "data" /\ s.val \in Val /\ q = p
  \/ s.do = "keep" /\ s.val \in {"s0", "s1"} /\ q = p
  \/ s.do = "recall" /\ s.val \in {"s0", "s1"} /\ ~ p.busy /\ "auto" \notin p.know /\ q = p
  \/ s.do = "memcpy" /\ q = p
  \/ s.do = "data_base" /\ "info" \in p.know /\ q = Add(p, {"base"})
  \/ s.do = "max_hart" /\ p.ctl = HartselMax /\ q = Add(p, {"max"})
  \/ s.do = "running" /\ p.err = {0} /\ q = Add(p, {"running"})
  \/ /\ s.do = "enumerate" /\ s.val \in 0 .. NHarts
     /\ p.mode = "run" /\ p.sel # Unknown /\ {"active", "max"} \subseteq p.know
     /\ q = [p EXCEPT !.sel = Unknown, !.ctl = Unknown, !.cur = Unknown,
          !.know = (@ \ {"probe"}) \cup {"harts"}]
  \/ /\ s.do = "exists" /\ s.val \in 0 .. NHarts
     /\ p.mode = "run" /\ p.sel = s.val /\ {"active", "max", "probe"} \subseteq p.know
     /\ q = [p EXCEPT !.sel = Unknown, !.ctl = Unknown, !.cur = Unknown,
          !.know = (@ \ {"probe"}) \cup {"harts"}]
  \/ /\ s.do = "size" /\ s.val \in Tried
     /\ p.mode = "halted" /\ ~ p.busy /\ "cmderr" \in p.know /\ {"auto", "running"} \cap p.know = {}
     /\ IF s.val = XLEN THEN p.err = {0} /\ "command" \in p.know ELSE p.err = {NOT_SUPPORTED}
     /\ q = [p EXCEPT !.err = {0}, !.know = (@ \ {"cmderr"}) \cup {"xlen", "command"}]
  \/ /\ s.do = "check" /\ ~ p.busy /\ "cmderr" \in p.know
     /\ q = [Forget(p, {"cmderr"}) EXCEPT !.err = {0}]
  \/ /\ s.do = "read_words" /\ s.val \in Nat \X Nat /\ Halted(p) /\ "auto" \notin p.know
     /\ q = Forget(p, {"cmderr"})
  \/ /\ s.do = "auto_words" /\ s.val \in Seq(Val) /\ Halted(p) /\ "auto" \in p.know
     /\ q = Forget(p, {"cmderr"})
  \/ /\ s.do = "reset" /\ s.val \in 0 .. NHarts /\ Quiet(p)
     /\ q = [Forget(p, {"cmderr"}) EXCEPT !.sel = 0, !.ctl = 0, !.cur = 0, !.know = @ \cup {"probe"}]
  \/ /\ s.do \in {"fence_i", "write_csr"} /\ Quiet(p) /\ p.cur \in Harts
     /\ q = [Forget(p, {"cmderr"}) EXCEPT !.sel = 0, !.know = @ \cup {"probe"}]

Leads(p, s, q) == \/ Writes(p, s, q) \/ WritesWord(p, s, q) \/ Reads(p, s, q) \/ Awaits(p, s, q)
                  \/ s.do = "nop" /\ q = p
                  \/ s.addr = Reg("none") /\ Computes(p, s, q)

\* The steps lead from p to r, by way of assertions between them.
Plan(p, steps, r) ==
  \E S, as : /\ steps \in Seq(S)
             /\ \A k \in 1 .. Len(steps) + 1 : as[k] \in Ctl
             /\ as[1] = p /\ as[Len(steps) + 1] = r
             /\ \A i \in 1 .. Len(steps) : Leads(as[i], steps[i], as[i + 1])

----------------------------------------------------------------------------
(* Plans.                                                                  *)

LEMMA PlanNone == ASSUME NEW p \in Ctl PROVE Plan(p, <<>>, p)
<1> DEFINE as == [i \in 1 .. 1 |-> p]
<1>1. (\A k \in 1 .. 0 + 1 : as[k] \in Ctl) /\ as[1] = p /\ as[0 + 1] = p
  OBVIOUS
<1>2. <<>> \in Seq({}) /\ Len(<<>>) = 0
  OBVIOUS
<1> HIDE DEF as
<1>3. \A i \in 1 .. 0 : Leads(as[i], <<>>[i], as[i + 1])
  <2>1. 1 .. 0 = {}
    OBVIOUS
  <2> QED BY <2>1
<1> QED BY <1>1, <1>2, <1>3 DEF Plan

LEMMA PlanStep == ASSUME NEW p \in Ctl, NEW q \in Ctl, NEW s, Leads(p, s, q) PROVE Plan(p, <<s>>, q)
<1> DEFINE as == [i \in 1 .. 2 |-> IF i = 1 THEN p ELSE q]
           ss == <<s>>
<1>1. (\A k \in 1 .. 1 + 1 : as[k] \in Ctl) /\ as[1] = p /\ as[1 + 1] = q
  OBVIOUS
<1>2. ss \in Seq({s}) /\ Len(ss) = 1 /\ ss[1] = s
  OBVIOUS
<1> HIDE DEF as, ss
<1>3. \A i \in 1 .. 1 : Leads(as[i], ss[i], as[i + 1])
  <2> TAKE i \in 1 .. 1
  <2>0. i = 1
    OBVIOUS
  <2>1. as[i] = p /\ ss[i] = s /\ as[i + 1] = q
    BY <2>0, <1>1, <1>2
  <2> QED BY <2>1
<1>4. Plan(p, ss, q)
  <2>1. /\ (\A k \in 1 .. Len(ss) + 1 : as[k] \in Ctl) /\ as[1] = p /\ as[Len(ss) + 1] = q
        /\ \A i \in 1 .. Len(ss) : Leads(as[i], ss[i], as[i + 1])
    BY <1>1, <1>2, <1>3
  <2> QED BY <1>2, <2>1 DEF Plan
<1> QED BY <1>4 DEF ss

\* Plans in a row.
LEMMA PlanJoin == ASSUME NEW p, NEW q, NEW r, NEW a, NEW b, Plan(p, a, q), Plan(q, b, r)
                  PROVE  Plan(p, a \o b, r)
<1> DEFINE m == Len(a)
           n == Len(b)
<1>1. PICK S, as : /\ a \in Seq(S)
                   /\ \A k \in 1 .. m + 1 : as[k] \in Ctl
                   /\ as[1] = p /\ as[m + 1] = q
                   /\ \A i \in 1 .. m : Leads(as[i], a[i], as[i + 1])
  BY DEF Plan
<1>2. PICK T, bs : /\ b \in Seq(T)
                   /\ \A k \in 1 .. n + 1 : bs[k] \in Ctl
                   /\ bs[1] = q /\ bs[n + 1] = r
                   /\ \A i \in 1 .. n : Leads(bs[i], b[i], bs[i + 1])
  BY DEF Plan
<1> DEFINE U == S \cup T
           c == a \o b
           cs == [i \in 1 .. m + n + 1 |-> IF i <= m THEN as[i] ELSE bs[i - m]]
<1>3. m \in Nat /\ n \in Nat
  BY <1>1, <1>2
<1>4. a \in Seq(U) /\ b \in Seq(U)
  BY <1>1, <1>2
<1>5. c \in Seq(U) /\ Len(c) = m + n
  BY <1>4
<1>6. \A i \in 1 .. m + n : c[i] = IF i <= m THEN a[i] ELSE b[i - m]
  BY <1>4
<1> HIDE DEF m, n, U, c
<1>7. (\A k \in 1 .. m + 1 : as[k] \in Ctl) /\ \A k \in 1 .. n + 1 : bs[k] \in Ctl
  BY <1>1, <1>2
<1>8. \A i \in 1 .. (m + n) + 1 : IF i <= m THEN i \in 1 .. m + 1 ELSE i - m \in 1 .. n + 1
  BY <1>3
<1>9. \A k \in 1 .. (m + n) + 1 : cs[k] \in Ctl
  BY <1>7, <1>8, <1>3
<1>10. \A i \in 1 .. m + n + 1 : cs[i] = IF i <= m THEN as[i] ELSE bs[i - m]
  OBVIOUS
<1> HIDE DEF cs
<1>a. ASSUME NEW i \in 1 .. m + n + 1, NEW j \in Int, i = m + j, j > 0 PROVE cs[i] = bs[j]
  <2>1. ~ (i <= m) /\ i - m = j
    BY <1>3, <1>a
  <2> QED BY <2>1, <1>10
<1>11. cs[1] = p /\ cs[(m + n) + 1] = r
  <2>1. (m + n + 1) - m = n + 1 /\ (m + n) + 1 = m + n + 1 /\ m + n + 1 \in 1 .. m + n + 1
        /\ 1 \in 1 .. m + n + 1 /\ ~ (m + n + 1 <= m)
    BY <1>3
  <2>2. cs[m + n + 1] = bs[n + 1]
    <3>1. n + 1 \in Int /\ n + 1 > 0 /\ m + n + 1 = m + (n + 1)
      BY <1>3
    <3> QED BY <3>1, <2>1, <1>a
  <2>3. CASE m = 0
    <3>1. m + 1 = 1
      BY <2>3
    <3>2. cs[1] = bs[1]
      BY <3>1, <2>1, <1>a
    <3> QED BY <3>1, <3>2, <2>1, <2>2, <1>1, <1>2
  <2>4. CASE m # 0
    <3>0. 1 <= m /\ 1 \in 1 .. m + n + 1
      BY <2>4, <1>3
    <3>1. cs[1] = as[1]
      BY <1>10, <3>0, <1>3
    <3> QED BY <3>1, <2>1, <2>2, <1>1, <1>2
  <2> QED BY <2>3, <2>4
<1>12. ASSUME NEW i \in 1 .. m + n PROVE Leads(cs[i], c[i], cs[i + 1])
  <2>1. CASE i < m
    <3>0. i <= m /\ i + 1 <= m /\ i \in 1 .. m + n + 1 /\ i + 1 \in 1 .. m + n + 1 /\ i \in 1 .. m
      BY <2>1, <1>3
    <3>1. cs[i] = as[i] /\ cs[i + 1] = as[i + 1] /\ c[i] = a[i] /\ i \in 1 .. m
      BY <3>0, <1>3, <1>6, <1>10
    <3>2. Leads(as[i], a[i], as[i + 1])
      BY <3>1, <1>1
    <3> QED BY <3>1, <3>2
  <2>2. CASE i = m
    <3>0. i <= m /\ i \in 1 .. m + n + 1 /\ i \in 1 .. m
      BY <2>2, <1>3
    <3>1. cs[i] = as[i] /\ c[i] = a[i] /\ i \in 1 .. m
      BY <3>0, <1>3, <1>6, <1>10
    <3>2. (i + 1) - m = 1 /\ ~ (i + 1 <= m) /\ i + 1 \in 1 .. m + n + 1
      BY <2>2, <1>3
    <3>3. cs[i + 1] = bs[1]
      BY <3>2, <1>10
    <3>4. bs[1] = as[i + 1]
      BY <2>2, <1>1, <1>2
    <3>5. Leads(as[i], a[i], as[i + 1])
      BY <3>1, <1>1
    <3> QED BY <3>1, <3>3, <3>4, <3>5
  <2>3. CASE i > m
    <3> DEFINE j == i - m
    <3>1. j \in 1 .. n /\ (i + 1) - m = j + 1 /\ ~ (i <= m) /\ ~ (i + 1 <= m) /\ i + 1 \in 1 .. m + n + 1
          /\ i \in 1 .. m + n + 1
      BY <2>3, <1>3
    <3>2. cs[i] = bs[i - m] /\ cs[i + 1] = bs[(i + 1) - m] /\ c[i] = b[i - m]
      BY <3>1, <1>6, <1>10
    <3> HIDE DEF j
    <3>3. Leads(bs[j], b[j], bs[j + 1])
      BY <3>1, <1>2
    <3> QED BY <3>1, <3>2, <3>3 DEF j
  <2> QED BY <2>1, <2>2, <2>3, <1>3
<1>13. Plan(p, c, r)
  <2>1. /\ (\A k \in 1 .. Len(c) + 1 : cs[k] \in Ctl) /\ cs[1] = p /\ cs[Len(c) + 1] = r
        /\ \A i \in 1 .. Len(c) : Leads(cs[i], c[i], cs[i + 1])
    BY <1>5, <1>9, <1>11, <1>12
  <2> QED BY <1>5, <2>1 DEF Plan
<1> QED BY <1>13 DEF c

\* What is known of a plan whose first step has not been done.
LEMMA PlanFirst == ASSUME NEW p, NEW r, NEW steps, Plan(p, steps, r)
                   PROVE  /\ p \in Ctl /\ r \in Ctl
                          /\ steps = <<>> => p = r
                          /\ steps # <<>> => \E q \in Ctl : Leads(p, Head(steps), q) /\ Plan(q, Tail(steps), r)
<1> DEFINE n == Len(steps)
           rest == Tail(steps)
<1>1. PICK S, as : /\ steps \in Seq(S)
                   /\ \A k \in 1 .. n + 1 : as[k] \in Ctl
                   /\ as[1] = p /\ as[n + 1] = r
                   /\ \A i \in 1 .. n : Leads(as[i], steps[i], as[i + 1])
  BY DEF Plan
<1>2. n \in Nat
  BY <1>1
<1>3. steps = <<>> => n = 0
  OBVIOUS
<1>4. steps # <<>> => /\ n >= 1 /\ Head(steps) = steps[1] /\ rest \in Seq(S) /\ Len(rest) = n - 1
                      /\ \A i \in 1 .. n - 1 : rest[i] = steps[i + 1]
  BY <1>1
<1> HIDE DEF n, rest
<1>5. p \in Ctl /\ r \in Ctl /\ (steps = <<>> => p = r)
  <2>0. \A k \in 1 .. n + 1 : as[k] \in Ctl
    BY <1>1
  <2>1. as[1] \in Ctl /\ as[n + 1] \in Ctl
    <3>1. 1 \in 1 .. n + 1 /\ n + 1 \in 1 .. n + 1
      BY <1>2
    <3> QED BY <2>0, <3>1
  <2>2. n = 0 => as[1] = as[n + 1]
    OBVIOUS
  <2> QED BY <2>1, <2>2, <1>1, <1>3
<1>6. ASSUME steps # <<>> PROVE \E q \in Ctl : Leads(p, Head(steps), q) /\ Plan(q, rest, r)
  <2> DEFINE bs == [i \in 1 .. (n - 1) + 1 |-> as[i + 1]]
  <2>0. \A k \in 1 .. n + 1 : as[k] \in Ctl
    BY <1>1
  <2>2. \A i \in 1 .. n : bs[i] = as[i + 1]
    BY <1>2
  <2> HIDE DEF bs
  <2>3. 1 \in 1 .. n /\ n \in 1 .. n /\ (n - 1) + 1 = n
    BY <1>2, <1>4, <1>6
  <2>1. \A k \in 1 .. (n - 1) + 1 : bs[k] \in Ctl
    <3>1. \A k \in 1 .. n : k + 1 \in 1 .. n + 1
      BY <1>2
    <3> QED BY <3>1, <2>0, <2>2, <2>3
  <2>4. bs[1] = as[1 + 1] /\ bs[(n - 1) + 1] = r
    <3>1. bs[1] = as[1 + 1] /\ bs[n] = as[n + 1]
      BY <2>2, <2>3
    <3> QED BY <3>1, <2>3, <1>1
  <2>5. Leads(p, Head(steps), bs[1]) /\ bs[1] \in Ctl
    <3>1. Leads(as[1], steps[1], as[1 + 1])
      BY <1>1, <2>3
    <3>2. bs[1] \in Ctl
      BY <2>1, <2>3
    <3> QED BY <3>1, <3>2, <2>4, <1>1, <1>4, <1>6
  <2>6. ASSUME NEW i \in 1 .. n - 1 PROVE Leads(bs[i], rest[i], bs[i + 1])
    <3>1. i \in 1 .. n /\ i + 1 \in 1 .. n
      BY <1>2
    <3>2. bs[i] = as[i + 1] /\ bs[i + 1] = as[(i + 1) + 1] /\ rest[i] = steps[i + 1]
      BY <3>1, <2>2, <1>4, <1>6
    <3>3. Leads(as[i + 1], steps[i + 1], as[(i + 1) + 1])
      BY <3>1, <1>1
    <3> QED BY <3>2, <3>3
  <2>7. Plan(bs[1], rest, r)
    <3>1. /\ (\A k \in 1 .. Len(rest) + 1 : bs[k] \in Ctl) /\ bs[Len(rest) + 1] = r
          /\ \A i \in 1 .. Len(rest) : Leads(bs[i], rest[i], bs[i + 1])
      BY <2>1, <2>4, <2>6, <1>4, <1>6
    <3> QED BY <3>1, <1>4, <1>6 DEF Plan
  <2> QED BY <2>5, <2>7
<1> QED BY <1>5, <1>6 DEF rest

----------------------------------------------------------------------------
(* The hardware's own steps.                                               *)

LEMMA Sizes == /\ Words \in {1, 2} /\ Step \in {4, 8} /\ RamWords \in Nat /\ RamWords >= 6 /\ NHarts \in Nat
               /\ 0 \in Harts /\ \A x \in Int : Long(x) \in Val
BY DebugModuleAssumption, DtmAssumption DEF Words, Step, Harts, Long, Val

\* What an instruction of the program buffer works on.
LEMMA Fetched == ASSUME Typed, dm.hartsel \in Harts, ppc \in 0 .. RamWords - 1
                 PROVE  /\ Fetch.ins = dm.prog[ppc + 1] /\ Fits(ppc + 1, Fetch.ins)
                        /\ Fetch.src = harts[dm.hartsel].reg[Fetch.ins.rs] /\ Fetch.src \in Val
                        /\ Fetch.dst = harts[dm.hartsel].reg[Fetch.ins.rd] /\ Fetch.dst \in Val
<1> DEFINE i == dm.prog[ppc + 1]
           here == harts[dm.hartsel].reg
<1>1. ppc + 1 \in 1 .. RamWords
  BY Sizes
<1>2. i \in Instruction /\ Fits(ppc + 1, i)
  BY <1>1 DEF Typed, DmType
<1>3. i.rs \in RegName /\ i.rd \in RegName
  BY <1>2 DEF Instruction, Kinds
<1>4. here \in [RegName -> Val]
  BY DEF Typed, HartType, Hart
<1> HIDE DEF i, here
<1>5. Fetch = [ins |-> i, src |-> here[i.rs], dst |-> here[i.rd]]
  BY <1>3, <1>4 DEF Fetch, Selected, i, here
<1> QED BY <1>2, <1>3, <1>4, <1>5 DEF i, here

LEMMA CombinedType == ASSUME NEW o \in CsrOps, NEW v \in Val, NEW w \in Val PROVE Combined(o, v, w) \in Val
<1>1. 2 ^ 0 \in Int /\ 2 ^ 1 \in Int
  OBVIOUS
<1>2. Or(v, w) \in Val
  BY <1>1 DEF Or, Val
<1>3. AndNot(v, w) \in Val
  BY <1>1 DEF AndNot, Val
<1> QED BY <1>2, <1>3 DEF Combined, CsrOps

\* A step that changes registers and CSRs of the selected hart only.
SameRuns == \A g \in Harts : /\ harts'[g].halted = harts[g].halted
                             /\ harts'[g].resume = harts[g].resume
                             /\ harts'[g].ack = harts[g].ack

LEMMA RegSet == ASSUME Typed, dm.hartsel \in Harts, NEW r \in RegName, NEW v \in Val, SetReg(r, v)
                PROVE  harts' \in [Harts -> Hart] /\ SameRuns
<1> DEFINE h == dm.hartsel
           t == [harts[h].reg EXCEPT ![r] = v]
           u == [harts[h] EXCEPT !.reg = t]
<1>1. harts \in [Harts -> Hart] /\ harts[h] \in Hart /\ h \in Harts
  BY DEF Typed, HartType
<1>2. harts' = harts \/ harts' = [harts EXCEPT ![h] = u]
  BY DEF SetReg, Selected
<1>3. t \in [RegName -> Val]
  BY <1>1 DEF Hart
<1> HIDE DEF t
<1>4. u \in Hart /\ u.halted = harts[h].halted /\ u.resume = harts[h].resume /\ u.ack = harts[h].ack
  BY <1>1, <1>3 DEF Hart
<1> HIDE DEF u, h
<1> QED BY <1>1, <1>2, <1>4 DEF SameRuns

LEMMA CsrSet == ASSUME Typed, dm.hartsel \in Harts, NEW r \in RegName, NEW c \in CsrName, NEW v \in Val,
                       NEW w \in Val,
                       \/ harts' = [harts EXCEPT ![Selected].csr[c] = w]
                       \/ harts' = [[harts EXCEPT ![Selected].csr[c] = w] EXCEPT ![Selected].reg[r] = v]
                PROVE  harts' \in [Harts -> Hart] /\ SameRuns
<1> DEFINE h == dm.hartsel
           t == [harts[h].csr EXCEPT ![c] = w]
           u == [harts[h] EXCEPT !.csr = t]
           h1 == [harts EXCEPT ![h] = u]
           t1 == [u.reg EXCEPT ![r] = v]
           u1 == [u EXCEPT !.reg = t1]
<1>1. harts \in [Harts -> Hart] /\ harts[h] \in Hart /\ h \in Harts
  BY DEF Typed, HartType
<1>2. t \in [CsrName -> Val]
  BY <1>1 DEF Hart
<1> HIDE DEF t
<1>3. u \in Hart /\ u.halted = harts[h].halted /\ u.resume = harts[h].resume /\ u.ack = harts[h].ack
  BY <1>1, <1>2 DEF Hart
<1>4. h1[h] = u
  BY <1>1
<1>5. harts' = h1 \/ harts' = [h1 EXCEPT ![h] = u1]
  BY <1>4 DEF Selected, t
<1> HIDE DEF u
<1>6. t1 \in [RegName -> Val]
  BY <1>3 DEF Hart
<1> HIDE DEF t1
<1>7. u1 \in Hart /\ u1.halted = u.halted /\ u1.resume = u.resume /\ u1.ack = u.ack
  BY <1>3, <1>6 DEF Hart
<1> HIDE DEF u1, h
<1>8. h1 \in [Harts -> Hart] /\ \A g \in Harts : h1[g] = IF g = h THEN u ELSE harts[g]
  BY <1>1, <1>3
<1> HIDE DEF h1
<1>9. u \in Hart /\ u1 \in Hart
  BY <1>3, <1>7
<1>10. harts' \in [Harts -> Hart] /\ \A g \in Harts : harts'[g] = IF g # h THEN harts[g] ELSE harts'[h]
  BY <1>1, <1>5, <1>8, <1>9
<1>11. harts'[h] = u \/ harts'[h] = u1
  BY <1>1, <1>5, <1>8
<1>12. harts'[h].halted = harts[h].halted /\ harts'[h].resume = harts[h].resume /\ harts'[h].ack = harts[h].ack
  BY <1>3, <1>7, <1>11
<1> QED BY <1>10, <1>12 DEF SameRuns

\* One instruction, or the end of the program.
LEMMA ExecuteKeeps ==
  ASSUME Typed, dm.busy, dm.hartsel \in Harts, Execute, UNCHANGED loc
  PROVE  /\ Typed' /\ SameRuns
         /\ dm' = [dm EXCEPT !.busy = dm'.busy, !.cmderr = dm'.cmderr, !.data = dm'.data]
         /\ IF dm'.busy THEN dm'.cmderr = dm.cmderr
            ELSE ppc' = -1 /\ dm'.cmderr \in {dm.cmderr, EXCEPTION}
<1> DEFINE f == Fetch
           i == Fetch.ins
<1>0. ppc \in 0 .. RamWords - 1
  BY Sizes DEF Execute, Typed, HartType
<1>1. Fits(ppc + 1, i) /\ i \in Instruction /\ i.rd \in RegName /\ f.src \in Val /\ f.dst \in Val
  BY <1>0, Fetched DEF Fits, Instruction, Kinds
<1>2. dm \in [active : BOOLEAN, hartsel : Nat, haltreq : BOOLEAN, busy : BOOLEAN, cmderr : Nat,
               command : Command, data : Val, auto : Int, prog : [1 .. RamWords -> Instruction]]
  BY DEF Typed, DmType
<1>3. harts \in [Harts -> Hart] /\ mem \in [Addrs -> Val] /\ own' = own
  BY DEF Typed, HartType, Execute
<1>a. ASSUME dm' = dm, harts' \in [Harts -> Hart], SameRuns, mem' \in [Addrs -> Val], ppc' \in 0 .. RamWords - 1
      PROVE  /\ Typed' /\ SameRuns
             /\ dm' = [dm EXCEPT !.busy = dm'.busy, !.cmderr = dm'.cmderr, !.data = dm'.data]
             /\ IF dm'.busy THEN dm'.cmderr = dm.cmderr ELSE ppc' = -1 /\ dm'.cmderr \in {dm.cmderr, EXCEPTION}
  <2>1. Typed'
    BY <1>3, <1>a, Sizes DEF Typed, DmType, HartType, LocType
  <2>2. dm = [dm EXCEPT !.busy = dm.busy, !.cmderr = dm.cmderr, !.data = dm.data]
    BY <1>2
  <2> QED BY <2>1, <2>2, <1>a
<1>4. CASE Traps(f) \/ i.op = "ebreak" \/ ppc + 1 = RamWords
  <2>1. /\ dm' = [dm EXCEPT !.busy = FALSE, !.cmderr = IF Traps(f) THEN EXCEPTION ELSE @]
        /\ ppc' = -1 /\ UNCHANGED <<harts, mem>>
    BY <1>4 DEF Execute
  <2>2. Typed'
    <3>1. DmType'
      BY <2>1, <1>2 DEF Typed, DmType, EXCEPTION
    <3>2. HartType'
      BY <2>1, <1>3, Sizes DEF Typed, HartType
    <3> QED BY <3>1, <3>2 DEF Typed, LocType
  <2> QED BY <2>1, <2>2, <1>2 DEF SameRuns
<1>5. CASE ~ (Traps(f) \/ i.op = "ebreak" \/ ppc + 1 = RamWords)
  <2>1. ppc' = IF i.op = "bne" /\ f.src # f.dst THEN ppc + i.imm \div 4 ELSE ppc + 1
    BY <1>5 DEF Execute
  <2>2. ppc' \in 0 .. RamWords - 1
    <3>1. CASE i.op = "bne" /\ f.src # f.dst
      <4>1. (ppc + 1) - 1 + (i.imm \div 4) \in 0 .. (ppc + 1) - 1
        BY <3>1, <1>1 DEF Fits
      <4> DEFINE d == i.imm \div 4
      <4>2. d \in Int
        BY <3>1, <1>1 DEF Instruction, Kinds, CsrOps
      <4>3. ppc' = ppc + d
        BY <3>1, <2>1
      <4> HIDE DEF d
      <4>4. (ppc + 1) - 1 + d \in 0 .. (ppc + 1) - 1
        BY <4>1 DEF d
      <4> QED BY <4>2, <4>3, <4>4, <1>0, Sizes
    <3>2. CASE ~ (i.op = "bne" /\ f.src # f.dst)
      BY <3>2, <2>1, <1>0, <1>5, Sizes
    <3> QED BY <3>1, <3>2
  <2>3. CASE i.op = "load"
    <3>1. /\ SetReg(i.rd, IF Target(f) = DataAddr THEN dm.data ELSE mem[Target(f)])
          /\ UNCHANGED <<dm, mem>>
      BY <2>3, <1>5 DEF Execute
    <3>2. Target(f) = DataAddr \/ Target(f) \in Addrs
      BY <2>3, <1>5 DEF Traps
    <3>3. (IF Target(f) = DataAddr THEN dm.data ELSE mem[Target(f)]) \in Val
      BY <3>2, <1>2, <1>3
    <3>4. harts' \in [Harts -> Hart] /\ SameRuns
      BY <3>1, <3>3, <1>1, RegSet
    <3> QED BY <3>1, <3>4, <2>2, <1>3, <1>a
  <2>4. CASE i.op = "store"
    <3>1. /\ mem' = IF Target(f) \in Addrs THEN [mem EXCEPT ![Target(f)] = f.dst] ELSE mem
          /\ dm' = IF Target(f) = DataAddr THEN [dm EXCEPT !.data = f.dst] ELSE dm
          /\ UNCHANGED harts
      BY <2>4, <1>5 DEF Execute
    <3>2. mem' \in [Addrs -> Val]
      BY <3>1, <1>1, <1>3
    <3>3. SameRuns
      BY <3>1 DEF SameRuns
    <3>4. CASE dm' = dm
      BY <3>1, <3>2, <3>3, <3>4, <2>2, <1>3, <1>a
    <3>5. CASE dm' = [dm EXCEPT !.data = f.dst]
      <4>1. Typed'
        <5>1. DmType'
          BY <3>5, <1>1, <1>2 DEF Typed, DmType
        <5>2. HartType'
          BY <3>1, <3>2, <2>2, <1>3, Sizes DEF Typed, HartType
        <5> QED BY <5>1, <5>2 DEF Typed, LocType
      <4> QED BY <4>1, <3>3, <3>5, <1>2
    <3> QED BY <3>1, <3>4, <3>5
  <2>5. CASE i.op = "addi"
    <3>1. SetReg(i.rd, [f.src EXCEPT ![1] = @ + i.imm]) /\ UNCHANGED <<dm, mem>>
      BY <2>5, <1>5 DEF Execute
    <3>2. i.imm \in Int
      BY <2>5, <1>1 DEF Instruction, Kinds, CsrOps
    <3>3. [f.src EXCEPT ![1] = @ + i.imm] \in Val
      <4> DEFINE v == f.src
                 m == i.imm
      <4>1. v \in Val /\ m \in Int
        BY <1>1, <3>2
      <4> HIDE DEF v, m
      <4>2. [v EXCEPT ![1] = @ + m] \in Val
        BY <4>1, Sizes DEF Val
      <4> QED BY <4>2 DEF v, m
    <3>4. harts' \in [Harts -> Hart] /\ SameRuns
      BY <3>1, <3>3, <1>1, RegSet
    <3> QED BY <3>1, <3>4, <2>2, <1>3, <1>a
  <2>6. CASE i.op \in CsrOps
    <3> DEFINE old == harts[Selected].csr[i.imm]
               new == Combined(i.op, old, f.src)
    <3>1. /\ LET h1 == [harts EXCEPT ![Selected].csr[i.imm] = new]
             IN  harts' = IF i.rd = "x0" THEN h1 ELSE [h1 EXCEPT ![Selected].reg[i.rd] = old]
          /\ UNCHANGED <<dm, mem>>
      BY <2>6, <1>5 DEF Execute, CsrOps
    <3>2. harts[Selected].csr \in [CsrName -> Val]
      BY <1>3 DEF Hart, Selected
    <3>3. i.imm \in CsrName
      BY <2>6, <1>5, <3>2 DEF Traps, CsrOps
    <3>4. old \in Val /\ new \in Val
      BY <3>2, <3>3, <2>6, <1>1, CombinedType
    <3> HIDE DEF old, new
    <3>5. harts' \in [Harts -> Hart] /\ SameRuns
      <4> DEFINE r == i.rd
                 c == i.imm
      <4>1. r \in RegName /\ c \in CsrName
        BY <1>1, <3>3
      <4>2. \/ harts' = [harts EXCEPT ![Selected].csr[c] = new]
            \/ harts' = [[harts EXCEPT ![Selected].csr[c] = new] EXCEPT ![Selected].reg[r] = old]
        BY <3>1
      <4> HIDE DEF r, c
      <4> QED BY <3>4, <4>1, <4>2, CsrSet
    <3> QED BY <3>1, <3>5, <2>2, <1>3, <1>a
  <2>7. CASE i.op \in {"bne", "fence.i"}
    <3>1. UNCHANGED <<dm, harts, mem>>
      BY <2>7, <1>5 DEF Execute
    <3> QED BY <3>1, <2>2, <1>3, <1>a DEF SameRuns
  <2> QED BY <2>3, <2>4, <2>5, <2>6, <2>7, <1>1, <1>5 DEF Instruction, Kinds, CsrOps
<1> QED BY <1>4, <1>5

LEMMA TransferKeeps ==
  ASSUME Typed, dm.hartsel \in Harts, Transfer, UNCHANGED loc
  PROVE  /\ Typed' /\ SameRuns
         /\ dm' = [dm EXCEPT !.busy = dm'.busy, !.data = dm'.data]
         /\ dm'.busy = dm.command.postexec /\ ppc' = IF dm.command.postexec THEN 0 ELSE -1
<1> DEFINE c == dm.command
           h == dm.hartsel
           new == IF c.transfer /\ ~ c.write THEN harts[h].reg[c.reg] ELSE dm.data
<1>1. dm \in [active : BOOLEAN, hartsel : Nat, haltreq : BOOLEAN, busy : BOOLEAN, cmderr : Nat,
               command : Command, data : Val, auto : Int, prog : [1 .. RamWords -> Instruction]]
  BY DEF Typed, DmType
<1>2. c \in Command /\ c.reg \in RegName /\ dm.data \in Val /\ c.postexec \in BOOLEAN
  BY <1>1 DEF Command
<1>3. harts \in [Harts -> Hart]
  BY DEF Typed, HartType
<1>4. harts[h].reg[c.reg] \in Val
  BY <1>2, <1>3 DEF Hart
<1>5. new \in Val
  BY <1>2, <1>4
<1>6. /\ dm' = [dm EXCEPT !.data = new, !.busy = c.postexec]
      /\ ppc' = IF c.postexec THEN 0 ELSE -1
      /\ UNCHANGED <<mem, own>>
      /\ harts' = IF c.transfer /\ c.write /\ c.reg # "x0"
                  THEN [harts EXCEPT ![h].reg[c.reg] = dm.data] ELSE harts
  BY DEF Transfer, Selected
<1>7. harts' \in [Harts -> Hart] /\ SameRuns
  <2>1. CASE harts' = harts
    BY <2>1, <1>3 DEF SameRuns
  <2>2. CASE c.reg # "x0" /\ harts' = [harts EXCEPT ![h].reg[c.reg] = dm.data]
    <3> DEFINE r == c.reg
               v == dm.data
    <3>1. r \in RegName /\ v \in Val
      BY <1>2
    <3>2. SetReg(r, v)
      BY <2>2 DEF SetReg, Selected
    <3> HIDE DEF r, v
    <3> QED BY <3>1, <3>2, RegSet
  <2> QED BY <1>6, <2>1, <2>2
<1> HIDE DEF new
<1>8. DmType'
  BY <1>1, <1>2, <1>5, <1>6 DEF Typed, DmType
<1>9. HartType'
  BY <1>2, <1>6, <1>7, Sizes DEF Typed, HartType
<1>10. dm' = [dm EXCEPT !.busy = dm'.busy, !.data = dm'.data] /\ dm'.busy = c.postexec
  BY <1>1, <1>6
<1> QED BY <1>6, <1>7, <1>8, <1>9, <1>10 DEF Typed, LocType

LEMMA HaltSets == ASSUME harts \in [Harts -> Hart], NEW h \in Harts,
                         harts' = [harts EXCEPT ![h].halted = TRUE, ![h].csr.dpc = harts[h].pc]
                  PROVE  /\ harts' \in [Harts -> Hart]
                         /\ harts'[h].halted /\ harts'[h].resume = harts[h].resume
                         /\ harts'[h].ack = harts[h].ack
                         /\ harts'[h].reg = harts[h].reg
                         /\ harts'[h].csr["dscratch0"] = harts[h].csr["dscratch0"]
                         /\ \A g \in Harts : g # h => harts'[g] = harts[g]
BY DEF Hart, CsrName

LEMMA PutOne == ASSUME NEW S, NEW T, NEW L \in [S -> T], NEW h \in S, NEW z \in T
                PROVE  LET K == [L EXCEPT ![h] = z]
                       IN  K \in [S -> T] /\ K[h] = z /\ \A g \in S : g # h => K[g] = L[g]
OBVIOUS

LEMMA ResumeSets == ASSUME harts \in [Harts -> Hart], NEW h \in Harts,
                           harts' = [harts EXCEPT ![h].resume = FALSE, ![h].ack = TRUE, ![h].halted = FALSE,
                                                  ![h].pc = harts[h].csr.dpc]
                    PROVE  /\ harts' \in [Harts -> Hart]
                           /\ ~ harts'[h].halted /\ ~ harts'[h].resume /\ harts'[h].ack
                           /\ harts'[h].reg = harts[h].reg /\ harts'[h].csr = harts[h].csr
                           /\ \A g \in Harts : g # h => harts'[g] = harts[g]
<1> DEFINE x == harts[h]
           K == [[harts EXCEPT ![h].resume = FALSE] EXCEPT ![h].ack = TRUE]
<1>1. /\ K \in [Harts -> Hart] /\ ~ K[h].resume /\ K[h].ack /\ \A g \in Harts : g # h => K[g] = harts[g]
      /\ x.csr.dpc \in Val /\ K[h].reg = x.reg /\ K[h].csr = x.csr
  BY DEF Hart, CsrName
<1>2. harts' = [[K EXCEPT ![h].halted = FALSE] EXCEPT ![h].pc = x.csr.dpc]
  OBVIOUS
<1> DEFINE v == x.csr.dpc
           L == [K EXCEPT ![h].halted = FALSE]
<1> HIDE DEF K, x
<1>3. /\ L \in [Harts -> Hart] /\ ~ L[h].resume /\ L[h].ack /\ ~ L[h].halted
      /\ L[h].reg = x.reg /\ L[h].csr = x.csr
      /\ \A g \in Harts : g # h => L[g] = harts[g]
  BY <1>1 DEF Hart
<1>4. harts' = [L EXCEPT ![h].pc = v] /\ v \in Val
  BY <1>1, <1>2
<1> HIDE DEF L, v
<1>5. \A y \in Hart : LET z == [y EXCEPT !.pc = v]
                      IN  z \in Hart /\ z.halted = y.halted /\ z.resume = y.resume /\ z.ack = y.ack
                          /\ z.reg = y.reg /\ z.csr = y.csr
  BY <1>4 DEF Hart
<1> DEFINE z == [L[h] EXCEPT !.pc = v]
<1>6. harts' = [L EXCEPT ![h] = z] /\ L[h] \in Hart
  BY <1>3, <1>4
<1>7. z \in Hart /\ ~ z.resume /\ z.ack /\ ~ z.halted /\ z.reg = x.reg /\ z.csr = x.csr
  BY <1>3, <1>5, <1>6
<1> HIDE DEF z
<1>8. harts'[h] = z /\ harts' \in [Harts -> Hart] /\ \A g \in Harts : g # h => harts'[g] = harts[g]
  <2>1. z \in Hart /\ L \in [Harts -> Hart]
    BY <1>3, <1>7
  <2>2. LET K1 == [L EXCEPT ![h] = z]
        IN  K1 \in [Harts -> Hart] /\ K1[h] = z /\ \A g \in Harts : g # h => K1[g] = L[g]
    BY <2>1, PutOne, Zenon
  <2> QED BY <1>3, <1>6, <2>2, Zenon
<1> QED BY <1>7, <1>8 DEF x

LEMMA RunSets == ASSUME harts \in [Harts -> Hart], NEW h \in Harts,
                        own \in [Harts -> [s0 : Val, s1 : Val]], Run(h)
                 PROVE  /\ harts' \in [Harts -> Hart] /\ SameRuns
                        /\ own' \in [Harts -> [s0 : Val, s1 : Val]]
                        /\ harts'[h].reg.s0 = own'[h].s0 /\ harts'[h].reg.s1 = own'[h].s1
                        /\ \A g \in Harts : g # h => harts'[g] = harts[g] /\ own'[g] = own[g]
<1> DEFINE r == harts[h].reg
           a == r.s1
           b == r.s0
<1>1. harts[h] \in Hart /\ r \in [RegName -> Val] /\ a \in Val /\ b \in Val
  BY DEF Hart, RegName
<1>2. /\ harts' = [harts EXCEPT ![h].reg.s0 = a, ![h].reg.s1 = b]
      /\ own' = [own EXCEPT ![h] = [s0 |-> a, s1 |-> b]]
  BY DEF Run
<1> HIDE DEF r, a, b
<1>3. own' \in [Harts -> [s0 : Val, s1 : Val]] /\ own'[h].s0 = a /\ own'[h].s1 = b /\ \A g \in Harts : g # h
      => own'[g] = own[g]
  BY <1>1, <1>2
<1>4. /\ harts' \in [Harts -> Hart] /\ harts'[h].reg.s0 = a /\ harts'[h].reg.s1 = b
      /\ harts'[h].halted = harts[h].halted /\ harts'[h].resume = harts[h].resume
           /\ harts'[h].ack = harts[h].ack
      /\ \A g \in Harts : g # h => harts'[g] = harts[g]
  BY <1>1, <1>2 DEF Hart, RegName
<1> QED BY <1>3, <1>4 DEF SameRuns

\* What a step of the hardware leaves as it is.
Onward == /\ dm'.hartsel = dm.hartsel
          /\ ~ dm.busy => ~ dm'.busy /\ dm'.cmderr = dm.cmderr
          /\ \A g \in Harts : /\ harts[g].ack => harts'[g].ack
                              /\ harts[g].halted /\ ~ harts[g].resume => harts'[g].halted

\* The hardware, and the harts' programs, make no assertion false.
LEMMA HardwareKeeps ==
  ASSUME Typed, NEW p \in Ctl, At(p), UNCHANGED loc, Hardware \/ \E h \in Harts : Run(h)
  PROVE  Typed' /\ At(p)' /\ Onward
<1>0. dm \in [active : BOOLEAN, hartsel : Nat, haltreq : BOOLEAN, busy : BOOLEAN, cmderr : Nat,
               command : Command, data : Val, auto : Int, prog : [1 .. RamWords -> Instruction]]
  BY DEF Typed, DmType
<1>1. harts \in [Harts -> Hart] /\ mem \in [Addrs -> Val] /\ own \in [Harts -> [s0 : Val, s1 : Val]]
  BY DEF Typed, HartType
<1>2. p.mode # "run" => p.sel \in Harts /\ dm.hartsel = p.sel /\ p.sel # Unknown
  BY Sizes DEF At, Borrowed, Module, Harts, Unknown
<1>3. ASSUME NEW h \in Harts, Halt(h) PROVE Typed' /\ At(p)' /\ Onward
  <2>1. p.mode \in {"halting", "caught"} /\ h = p.sel /\ ~ harts[h].halted
    BY <1>2, <1>3 DEF Halt, Selected, At, Module
  <2>2. p.mode = "halting"
    BY <2>1 DEF At, Borrowed
  <2>3. /\ harts' = [harts EXCEPT ![h].halted = TRUE, ![h].csr.dpc = harts[h].pc]
        /\ UNCHANGED <<dm, mem, ppc, own>>
    BY <1>3 DEF Halt
  <2>7. /\ harts' \in [Harts -> Hart]
        /\ harts'[h].halted /\ harts'[h].resume = harts[h].resume /\ harts'[h].ack = harts[h].ack
        /\ \A g \in Harts : g # h => harts'[g] = harts[g]
    BY <2>3, <1>1, HaltSets
  <2>6. Typed'
    BY <1>1, <2>3, <2>7 DEF Typed, DmType, HartType, LocType
  <2>8. Borrowed(p)'
    BY <2>1, <2>2, <2>7 DEF At, Borrowed
  <2>9. OthersRun(p)'
    BY <2>1, <2>2, <2>7 DEF At, OthersRun
  <2>10. Onward
    BY <2>3, <2>7 DEF Onward
  <2> QED BY <2>3, <2>6, <2>8, <2>9, <2>10 DEF At, Module, KnownOfModule, KnownOfHost
<1>4. ASSUME NEW h \in Harts, Resume(h) PROVE Typed' /\ At(p)' /\ Onward
  <2>1. p.mode = "resuming" /\ h = p.sel
    <3>1. harts[h].resume
      BY <1>4 DEF Resume
    <3>2. p.mode # "run" /\ h = p.sel
      BY <3>1 DEF At, OthersRun
    <3>3. p.mode \in Mode
      BY DEF Ctl
    <3> QED BY <3>1, <3>2, <3>3 DEF At, Borrowed, Mode
  <2>3. /\ harts' = [harts EXCEPT ![h].resume = FALSE, ![h].ack = TRUE, ![h].halted = FALSE,
                                 ![h].pc = harts[h].csr.dpc]
        /\ UNCHANGED <<dm, mem, ppc, own>>
    BY <1>4 DEF Resume
  <2>7. /\ harts' \in [Harts -> Hart]
        /\ ~ harts'[h].halted /\ ~ harts'[h].resume /\ harts'[h].ack
        /\ \A g \in Harts : g # h => harts'[g] = harts[g]
    BY <2>3, <1>1, ResumeSets
  <2>6. Typed'
    BY <1>1, <2>3, <2>7 DEF Typed, DmType, HartType, LocType
  <2>8. Borrowed(p)'
    BY <2>1, <2>7 DEF At, Borrowed
  <2>9. OthersRun(p)'
    BY <2>1, <2>7 DEF At, OthersRun
  <2>10. Onward
    BY <2>3, <2>7, <1>4 DEF Onward, Resume
  <2> QED BY <2>3, <2>6, <2>8, <2>9, <2>10 DEF At, Module, KnownOfModule, KnownOfHost
<1>a. ASSUME SameRuns PROVE Borrowed(p)' /\ OthersRun(p)'
  BY <1>a DEF At, Borrowed, OthersRun, SameRuns
<1>5. ASSUME NEW h \in Harts, Run(h) PROVE Typed' /\ At(p)' /\ Onward
  <2>1. UNCHANGED <<dm, mem, ppc>>
    BY <1>5 DEF Run
  <2>4. harts' \in [Harts -> Hart] /\ SameRuns /\ own' \in [Harts -> [s0 : Val, s1 : Val]]
    BY <1>1, <1>5, RunSets
  <2>6. Typed'
    BY <2>1, <2>4, <1>1 DEF Typed, DmType, HartType, LocType
  <2>7. Onward
    BY <2>1, <2>4 DEF Onward, SameRuns
  <2> QED BY <2>1, <2>4, <2>6, <2>7, <1>a DEF At, Module, KnownOfModule, KnownOfHost
<1>6. CASE Transfer
  <2>1. dm.busy /\ p.busy /\ p.mode = "halted" /\ dm.hartsel \in Harts
    BY <1>2, <1>6 DEF Transfer, At, Module
  <2>2. /\ Typed' /\ SameRuns
        /\ dm' = [dm EXCEPT !.busy = dm'.busy, !.data = dm'.data]
        /\ dm'.busy = dm.command.postexec /\ ppc' = IF dm.command.postexec THEN 0 ELSE -1
    BY <2>1, <1>6, TransferKeeps
  <2>3. /\ dm'.active = dm.active /\ dm'.hartsel = dm.hartsel /\ dm'.haltreq = dm.haltreq
             /\ dm'.cmderr = dm.cmderr
        /\ dm'.command = dm.command /\ dm'.auto = dm.auto
    BY <2>2, <1>0
  <2>4. Module(p)'
    BY <2>1, <2>2, <2>3 DEF At, Module
  <2>5. KnownOfModule(p)' /\ KnownOfHost(p)'
    BY <2>1, <2>3 DEF At, KnownOfModule, KnownOfHost
  <2>6. Onward
    BY <2>1, <2>2, <2>3 DEF Onward, SameRuns
  <2> QED BY <2>2, <2>4, <2>5, <2>6, <1>a DEF At
<1>7. CASE Execute
  <2>0. ppc \in Int
    BY DEF Typed, HartType
  <2>1. dm.busy /\ p.busy /\ p.mode = "halted" /\ dm.hartsel \in Harts /\ EXCEPTION \in p.err
    <3>1. ppc # -1
      BY <1>7, <2>0 DEF Execute
    <3> QED BY <3>1, <1>2 DEF At, Module
  <2>2. /\ Typed' /\ SameRuns
        /\ dm' = [dm EXCEPT !.busy = dm'.busy, !.cmderr = dm'.cmderr, !.data = dm'.data]
        /\ IF dm'.busy THEN dm'.cmderr = dm.cmderr
           ELSE ppc' = -1 /\ dm'.cmderr \in {dm.cmderr, EXCEPTION}
    BY <2>1, <1>7, ExecuteKeeps
  <2>3. /\ dm'.active = dm.active /\ dm'.hartsel = dm.hartsel /\ dm'.haltreq = dm.haltreq
        /\ dm'.command = dm.command /\ dm'.auto = dm.auto
    BY <2>2, <1>0
  <2>4. Module(p)'
    BY <2>1, <2>2, <2>3 DEF At, Module
  <2>5. KnownOfModule(p)' /\ KnownOfHost(p)'
    BY <2>1, <2>3 DEF At, KnownOfModule, KnownOfHost
  <2>6. Onward
    BY <2>1, <2>2, <2>3 DEF Onward, SameRuns
  <2> QED BY <2>2, <2>4, <2>5, <2>6, <1>a DEF At
<1> QED BY <1>3, <1>4, <1>5, <1>6, <1>7 DEF Hardware

----------------------------------------------------------------------------
(* The bus carries out a request.                                          *)

LEMMA ResumeAsked == ASSUME harts \in [Harts -> Hart], NEW h \in Harts,
                            harts' = [harts EXCEPT ![h].resume = TRUE, ![h].ack = FALSE]
                     PROVE  /\ harts' \in [Harts -> Hart]
                            /\ harts'[h].resume /\ ~ harts'[h].ack /\ harts'[h].halted = harts[h].halted
                            /\ \A g \in Harts : g # h => harts'[g] = harts[g]
BY DEF Hart

DmSet == [active : BOOLEAN, hartsel : Nat, haltreq : BOOLEAN, busy : BOOLEAN, cmderr : Nat,
          command : Command, data : Val, auto : Int, prog : [1 .. RamWords -> Instruction]]

LEMMA Clamped == HartselMax \in Nat /\ (\A h \in Nat : Clamp(h) \in Nat) /\ \A h \in Harts : h \in Nat
  /\ Clamp(h) = h
BY DebugModuleAssumption DEF Clamp, Harts

LEMMA WroteControl ==
  ASSUME Typed, NEW p \in Ctl, NEW q \in Ctl, At(p), NEW v, Controls(p, v, q),
         dm' = [dm EXCEPT !.active = v.active, !.haltreq = v.haltreq, !.hartsel = Clamp(v.hartsel)],
         harts' = IF v.resumereq /\ v.hartsel \in Harts
                  THEN [harts EXCEPT ![v.hartsel].resume = TRUE, ![v.hartsel].ack = FALSE]
                  ELSE harts,
         UNCHANGED <<mem, ppc, own, loc>>
  PROVE  Typed' /\ At(q)'
<1> DEFINE w == Clamp(v.hartsel)
<1>1. v \in Control /\ v.active /\ v.hartsel \in Nat /\ v.haltreq \in BOOLEAN /\ v.resumereq \in BOOLEAN
  BY DEF Controls, Control
<1>2. w \in Nat /\ (v.hartsel \in Harts => w = v.hartsel)
  BY <1>1, Clamped
<1>3. dm \in DmSet
  BY DEF Typed, DmType, DmSet
<1>4. harts \in [Harts -> Hart] /\ mem \in [Addrs -> Val] /\ own \in [Harts -> [s0 : Val, s1 : Val]]
  BY DEF Typed, HartType
<1> HIDE DEF w
<1>5. dm' \in DmSet /\ dm' = [dm EXCEPT !.active = v.active, !.haltreq = v.haltreq, !.hartsel = w]
  BY <1>1, <1>2, <1>3 DEF DmSet, w
<1>6. /\ dm'.active /\ dm'.haltreq = v.haltreq /\ dm'.hartsel = w
      /\ dm'.busy = dm.busy /\ dm'.cmderr = dm.cmderr /\ dm'.command = dm.command /\ dm'.data = dm.data
      /\ dm'.auto = dm.auto /\ dm'.prog = dm.prog
  BY <1>1, <1>3, <1>5 DEF DmSet
<1>7. DmType'
  BY <1>5, <1>6 DEF Typed, DmType, DmSet
<1>a. ASSUME harts' \in [Harts -> Hart] PROVE Typed'
  BY <1>a, <1>4, <1>7 DEF Typed, HartType, LocType
<1>8. CASE /\ p.mode = "run" /\ ~ v.haltreq /\ ~ v.resumereq
           /\ q = [p EXCEPT !.sel = w, !.know = (@ \ {"probe"}) \cup {"active"}]
  <2>0. harts' = harts
    BY <1>8
  <2>1. /\ q.mode = p.mode /\ q.sel = w /\ q.ctl = p.ctl /\ q.cur = p.cur /\ q.busy = p.busy /\ q.err = p.err
        /\ q.know = (p.know \ {"probe"}) \cup {"active"}
    BY <1>8 DEF Ctl
  <2>2. Module(q)'
    BY <2>0, <2>1, <1>6, <1>8 DEF At, Module
  <2>3. Borrowed(q)' /\ OthersRun(q)'
    BY <2>0, <2>1, <1>8 DEF At, Borrowed, OthersRun
  <2>4. KnownOfModule(q)' /\ KnownOfHost(q)'
    BY <2>1, <1>6 DEF At, KnownOfModule, KnownOfHost
  <2> QED BY <2>0, <2>2, <2>3, <2>4, <1>a, <1>4 DEF At
<1>9. CASE /\ p.mode = "run" /\ v.haltreq /\ ~ v.resumereq /\ v.hartsel \in Harts
           /\ q = [p EXCEPT !.mode = "halting", !.sel = v.hartsel, !.know = (@ \ {"probe"}) \cup {"active"}]
  <2>0. harts' = harts
    BY <1>9
  <2>1. /\ q.mode = "halting" /\ q.sel = w /\ q.ctl = p.ctl /\ q.cur = p.cur /\ q.busy = p.busy /\ q.err = p.err
        /\ q.know = (p.know \ {"probe"}) \cup {"active"} /\ w \in Harts
    BY <1>9, <1>2 DEF Ctl
  <2>2. Module(q)'
    BY <2>0, <2>1, <1>6, <1>9 DEF At, Module
  <2>3. Borrowed(q)' /\ OthersRun(q)'
    BY <2>0, <2>1, <1>9 DEF At, Borrowed, OthersRun
  <2>4. KnownOfModule(q)' /\ KnownOfHost(q)'
    BY <2>1, <1>6 DEF At, KnownOfModule, KnownOfHost
  <2> QED BY <2>0, <2>2, <2>3, <2>4, <1>a, <1>4 DEF At
<1>10. CASE /\ p.mode = "caught" /\ ~ v.haltreq /\ ~ v.resumereq /\ v.hartsel = p.sel
            /\ q = [p EXCEPT !.mode = "halted"]
  <2>0. harts' = harts
    BY <1>10
  <2>1. /\ q.mode = "halted" /\ q.sel = w /\ q.sel = p.sel /\ q.ctl = p.ctl /\ q.cur = p.cur /\ q.busy = p.busy
             /\ q.err = p.err
        /\ q.know = p.know /\ w \in Harts
    BY <1>10, <1>2 DEF Ctl, At, Borrowed
  <2>5. dm.hartsel = w
    BY <2>1, Clamped DEF At, Module, Unknown
  <2>2. Module(q)'
    BY <2>0, <2>1, <1>6, <1>10 DEF At, Module
  <2>3. Borrowed(q)' /\ OthersRun(q)'
    BY <2>0, <2>1, <1>10 DEF At, Borrowed, OthersRun
  <2>4. KnownOfModule(q)' /\ KnownOfHost(q)'
    BY <2>1, <2>5, <1>6 DEF At, KnownOfModule, KnownOfHost
  <2> QED BY <2>0, <2>2, <2>3, <2>4, <1>a, <1>4 DEF At
<1>11. CASE /\ p.mode = "halted" /\ ~ p.busy /\ ~ v.haltreq /\ v.resumereq /\ v.hartsel = p.sel
            /\ q = [p EXCEPT !.mode = "resuming"]
  <2>1. /\ q.mode = "resuming" /\ q.sel = w /\ q.sel = p.sel /\ q.ctl = p.ctl /\ q.cur = p.cur
             /\ q.busy = p.busy /\ q.err = p.err
        /\ q.know = p.know /\ w \in Harts /\ w = v.hartsel
    BY <1>11, <1>2 DEF Ctl, At, Borrowed
  <2>5. dm.hartsel = w
    BY <2>1, Clamped DEF At, Module, Unknown
  <2>0. harts' = [harts EXCEPT ![w].resume = TRUE, ![w].ack = FALSE]
    BY <1>11, <2>1
  <2>6. /\ harts' \in [Harts -> Hart]
        /\ harts'[w].resume /\ ~ harts'[w].ack /\ harts'[w].halted = harts[w].halted
        /\ \A g \in Harts : g # w => harts'[g] = harts[g]
    BY <2>0, <2>1, <1>4, ResumeAsked
  <2>2. Module(q)'
    BY <2>1, <1>6, <1>11 DEF At, Module
  <2>3. Borrowed(q)' /\ OthersRun(q)'
    BY <2>6, <2>1, <1>11 DEF At, Borrowed, OthersRun
  <2>4. KnownOfModule(q)' /\ KnownOfHost(q)'
    BY <2>1, <2>5, <1>6, <1>11 DEF At, KnownOfModule, KnownOfHost
  <2> QED BY <2>6, <2>2, <2>3, <2>4, <1>a DEF At
<1> QED BY <1>8, <1>9, <1>10, <1>11 DEF Controls, w

\* A command that the module starts, or does not support.
LEMMA WroteCommand ==
  ASSUME Typed, NEW p \in Ctl, NEW q \in Ctl, At(p), NEW c, Commands(p, c, q),
         dm' = Started(dm, c), UNCHANGED <<harts, mem, ppc, own, loc>>
  PROVE  Typed' /\ At(q)'
<1>1. dm \in DmSet /\ c \in Command /\ c.transfer /\ XLEN \in Int
  BY DebugModuleAssumption DEF Typed, DmType, DmSet, Commands
<1>2. /\ p.mode = "halted" /\ ~ p.busy /\ p.err = {0} /\ p.sel \in Harts /\ dm.hartsel = p.sel
           /\ harts[p.sel].halted
      /\ ~ dm.busy /\ dm.cmderr = 0 /\ ppc = -1
  BY Clamped DEF Commands, At, Borrowed, Module, Unknown
<1>3. dm' = IF c.size # XLEN THEN [dm EXCEPT !.cmderr = NOT_SUPPORTED] ELSE [dm EXCEPT !.busy = TRUE,
      !.command = c]
  BY <1>1, <1>2 DEF Started, Exists, Selected
<1>4. CASE c.size = XLEN
  <2>1. dm' = [dm EXCEPT !.busy = TRUE, !.command = c]
    BY <1>3, <1>4
  <2>2. dm' \in DmSet /\ dm'.prog = dm.prog
    BY <2>1, <1>1 DEF DmSet
  <2>3. Typed'
    BY <2>2 DEF Typed, DmType, DmSet, HartType, LocType
  <2>4. /\ dm'.active = dm.active /\ dm'.haltreq = dm.haltreq /\ dm'.hartsel = dm.hartsel
        /\ dm'.busy /\ dm'.cmderr = 0 /\ dm'.command = c /\ dm'.auto = dm.auto
    BY <2>1, <1>1, <1>2 DEF DmSet
  <2>5. /\ q.mode = p.mode /\ q.sel = p.sel /\ q.ctl = p.ctl /\ q.cur = p.cur /\ q.busy = TRUE
        /\ q.err = IF c.postexec THEN {0, EXCEPTION} ELSE {0}
        /\ q.know = (p.know \ {"cmderr"}) \cup {"command"}
    BY <1>4 DEF Commands, Ctl
  <2>6. Module(q)'
    BY <2>4, <2>5, <1>2 DEF At, Module
  <2>7. KnownOfModule(q)' /\ KnownOfHost(q)' /\ Borrowed(q)' /\ OthersRun(q)'
    BY <2>4, <2>5, <1>4 DEF At, KnownOfModule, KnownOfHost, Borrowed, OthersRun
  <2> QED BY <2>3, <2>6, <2>7 DEF At
<1>5. CASE c.size # XLEN
  <2>1. dm' = [dm EXCEPT !.cmderr = NOT_SUPPORTED]
    BY <1>3, <1>5
  <2>2. dm' \in DmSet /\ dm'.prog = dm.prog
    BY <2>1, <1>1 DEF DmSet, NOT_SUPPORTED
  <2>3. Typed'
    BY <2>2 DEF Typed, DmType, DmSet, HartType, LocType
  <2>4. /\ dm'.active = dm.active /\ dm'.haltreq = dm.haltreq /\ dm'.hartsel = dm.hartsel
        /\ ~ dm'.busy /\ dm'.cmderr = NOT_SUPPORTED /\ dm'.command = dm.command /\ dm'.auto = dm.auto
    BY <2>1, <1>1, <1>2 DEF DmSet
  <2>5. /\ q.mode = p.mode /\ q.sel = p.sel /\ q.ctl = p.ctl /\ q.cur = p.cur /\ q.busy = p.busy
        /\ q.err = {NOT_SUPPORTED}
        /\ q.know = p.know \ {"cmderr"}
    BY <1>5 DEF Commands, Ctl
  <2>6. Module(q)'
    BY <2>4, <2>5, <1>2 DEF At, Module
  <2>7. KnownOfModule(q)' /\ KnownOfHost(q)' /\ Borrowed(q)' /\ OthersRun(q)'
    BY <2>4, <2>5 DEF At, KnownOfModule, KnownOfHost, Borrowed, OthersRun
  <2> QED BY <2>3, <2>6, <2>7 DEF At
<1> QED BY <1>4, <1>5

\* A word for a command; the first one starts the last command if autoexec says so.
LEMMA WroteData ==
  ASSUME Typed, NEW p \in Ctl, NEW q \in Ctl, At(p), NEW k \in 1 .. Words, NEW x \in Int, ~ p.busy,
         IF "auto" \in p.know /\ k = 1
         THEN /\ p.mode = "halted" /\ p.err = {0} /\ "command" \in p.know
              /\ q = [p EXCEPT !.busy = TRUE, !.err = {0, EXCEPTION}, !.know = @ \ {"cmderr"}]
         ELSE q = p,
         dm' = LET d == [dm EXCEPT !.data[k] = x]
               IN  IF dm.auto = 1 /\ k - 1 = 0 THEN Started(d, d.command) ELSE d,
         UNCHANGED <<harts, mem, ppc, own, loc>>
  PROVE  Typed' /\ At(q)'
<1> DEFINE t == [dm.data EXCEPT ![k] = x]
           d == [dm EXCEPT !.data = t]
<1>0. dm \in DmSet /\ dm.data \in Val /\ XLEN \in Int /\ k \in Int
  BY DebugModuleAssumption DEF Typed, DmType, DmSet
<1>1. t \in Val
  BY <1>0 DEF Val
<1> HIDE DEF t
<1>2. /\ d \in DmSet /\ d.active = dm.active /\ d.haltreq = dm.haltreq /\ d.hartsel = dm.hartsel
           /\ d.prog = dm.prog
      /\ d.busy = dm.busy /\ d.cmderr = dm.cmderr /\ d.command = dm.command /\ d.auto = dm.auto
  BY <1>0, <1>1 DEF DmSet
<1>3. dm' = IF dm.auto = 1 /\ k = 1 THEN Started(d, d.command) ELSE d
  BY <1>0 DEF t
<1>4. ~ dm.busy /\ (dm.auto = 1 <=> "auto" \in p.know)
  BY DEF At, Module, KnownOfModule
<1> HIDE DEF d
<1>5. CASE "auto" \in p.know /\ k = 1
  <2>0. /\ p.mode = "halted" /\ p.err = {0} /\ "command" \in p.know /\ p.sel \in Harts /\ dm.hartsel = p.sel
             /\ harts[p.sel].halted
        /\ dm.cmderr = 0 /\ ppc = -1 /\ dm.command.size = XLEN
    BY <1>5, <1>4, Clamped DEF At, Borrowed, Module, KnownOfModule, Unknown
  <2>1. dm' = [d EXCEPT !.busy = TRUE, !.command = d.command]
    BY <2>0, <1>2, <1>3, <1>4, <1>5 DEF Started, Exists, Selected
  <2>2. dm' \in DmSet /\ dm'.prog = dm.prog
    BY <2>1, <1>2 DEF DmSet
  <2>3. Typed'
    BY <2>2 DEF Typed, DmType, DmSet, HartType, LocType
  <2>4. /\ dm'.active = dm.active /\ dm'.haltreq = dm.haltreq /\ dm'.hartsel = dm.hartsel
        /\ dm'.busy /\ dm'.cmderr = 0 /\ dm'.command = dm.command /\ dm'.auto = dm.auto
    BY <2>1, <2>0, <1>2 DEF DmSet
  <2>5. /\ q.mode = p.mode /\ q.sel = p.sel /\ q.ctl = p.ctl /\ q.cur = p.cur /\ q.busy = TRUE
        /\ q.err = {0, EXCEPTION} /\ q.know = p.know \ {"cmderr"}
    BY <1>5 DEF Ctl
  <2>6. Module(q)'
    BY <2>4, <2>5, <2>0 DEF At, Module
  <2>7. KnownOfModule(q)' /\ KnownOfHost(q)' /\ Borrowed(q)' /\ OthersRun(q)'
    BY <2>4, <2>5 DEF At, KnownOfModule, KnownOfHost, Borrowed, OthersRun
  <2> QED BY <2>3, <2>6, <2>7 DEF At
<1>6. CASE ~ ("auto" \in p.know /\ k = 1)
  <2>1. dm' = d /\ q = p
    BY <1>3, <1>4, <1>6
  <2>2. Typed'
    BY <2>1, <1>2 DEF Typed, DmType, DmSet, HartType, LocType
  <2> QED BY <2>1, <2>2, <1>2 DEF At, Module, KnownOfModule, KnownOfHost, Borrowed, OthersRun
<1> QED BY <1>5, <1>6

\* The request for a step.
Asking(s) == /\ req_buf.addr = s.addr
             /\ req_buf.op = CASE s.do \in {"write", "write_word"} -> 2
                               [] s.do \in {"read", "until"} -> 1 [] s.do = "nop" -> 0
             /\ s.do = "write" => req_buf.data = s.val
             /\ s.do = "write_word" => req_buf.data = Word(s.val)

\* What the response to a read says, until the host takes it.
Told(p, s) ==
  /\ s.do = "read" =>
       /\ s.addr = Reg("DMCONTROL") => resp_buf = [DMACTIVE EXCEPT !.hartsel = p.sel]
       /\ s.addr = Reg("DMSTATUS") => resp_buf \in Status /\ (resp_buf.nonexistent <=> dm.hartsel \notin Harts)
       /\ s.addr = Reg("ABSTRACTCS") => resp_buf \in Abstract
       /\ s.addr = Reg("HARTINFO") => resp_buf \in Info /\ resp_buf.dataaddr = DataAddr
       /\ s.addr[1] = "DATA" => resp_buf \in Int
  /\ s.do = "until" =>
       /\ s.val = "allhalted" => resp_buf \in Status /\ (resp_buf.allhalted => harts[p.sel].halted)
       /\ s.val = "resumeack" => resp_buf \in Status /\ (resp_buf.resumeack => harts[p.sel].ack)
       /\ s.val = "idle" => /\ resp_buf \in Abstract /\ (resp_buf.busy => p.busy)
                            /\ ~ resp_buf.busy => ~ dm.busy /\ resp_buf.cmderr = dm.cmderr

\* The request for s was carried out: a write leads to q, a read to p and what the
\* response says.
Answered(p, s, q) == IF s.do \in {"read", "until"} THEN At(p) /\ Told(p, s) ELSE At(q)

LEMMA Wrote ==
  ASSUME Typed, NEW p \in Ctl, NEW q \in Ctl, NEW s, At(p), s.do = "write", Writes(p, s, q), Asking(s),
         Access(req_buf), UNCHANGED loc
  PROVE  Typed' /\ At(q)'
<1> DEFINE v == s.val
           rest == harts' = IF s.addr[1] = "DMCONTROL" /\ v.resumereq /\ v.hartsel \in Harts
                            THEN [harts EXCEPT ![v.hartsel].resume = TRUE, ![v.hartsel].ack = FALSE]
                            ELSE harts
<1>1. dm' = Written(s.addr, v) /\ rest /\ UNCHANGED <<mem, ppc, own>>
  BY DEF Access, Asking
<1>0. dm \in DmSet
  BY DEF Typed, DmType, DmSet
<1>2. CASE s.addr = Reg("DMCONTROL") /\ Controls(p, v, q)
  <2>1. /\ dm' = [dm EXCEPT !.active = v.active, !.haltreq = v.haltreq, !.hartsel = Clamp(v.hartsel)]
        /\ harts' = IF v.resumereq /\ v.hartsel \in Harts
                    THEN [harts EXCEPT ![v.hartsel].resume = TRUE, ![v.hartsel].ack = FALSE]
                    ELSE harts
    BY <1>1, <1>2 DEF Written, Clamp, Reg
  <2> HIDE DEF v
  <2> QED BY <1>1, <1>2, <2>1, WroteControl
<1>3. CASE s.addr = Reg("COMMAND") /\ Commands(p, v, q)
  <2>1. dm' = Started(dm, v) /\ harts' = harts
    BY <1>1, <1>3 DEF Written, Reg
  <2> HIDE DEF v
  <2> QED BY <1>1, <1>3, <2>1, WroteCommand
<1>4. CASE \E k \in 1 .. RamWords : s.addr = <<"PROGBUF", k - 1>> /\ ~ p.busy /\ Fits(k, v) /\ q = p
  <2>1. PICK k \in 1 .. RamWords : s.addr = <<"PROGBUF", k - 1>> /\ ~ p.busy /\ Fits(k, v) /\ q = p
    BY <1>4
  <2> DEFINE t == [dm.prog EXCEPT ![k] = v]
  <2>2. dm' = [dm EXCEPT !.prog = t] /\ harts' = harts
    <3>1. ~ dm.busy /\ (k - 1) + 1 = k
      BY <2>1, Sizes DEF At, Module
    <3> QED BY <1>1, <2>1, <3>1 DEF Written
  <2>3. dm.prog \in [1 .. RamWords -> Instruction] /\ v \in Instruction
    BY <1>0, <2>1 DEF DmSet, Fits
  <2>4. t \in [1 .. RamWords -> Instruction] /\ \A j \in 1 .. RamWords : Fits(j, t[j])
    BY <2>1, <2>3 DEF Typed, DmType
  <2> HIDE DEF t
  <2>5. dm' \in DmSet /\ dm'.prog = t
    BY <2>2, <2>4, <1>0 DEF DmSet
  <2>6. /\ dm'.active = dm.active /\ dm'.haltreq = dm.haltreq /\ dm'.hartsel = dm.hartsel
        /\ dm'.busy = dm.busy /\ dm'.cmderr = dm.cmderr /\ dm'.command = dm.command /\ dm'.auto = dm.auto
    BY <2>2, <1>0 DEF DmSet
  <2>7. Typed'
    BY <2>2, <2>4, <2>5, <1>1 DEF Typed, DmType, DmSet, HartType, LocType
  <2> QED BY <1>1, <2>1, <2>2, <2>6, <2>7 DEF At, Module, KnownOfModule, KnownOfHost, Borrowed, OthersRun
<1>5. CASE s.addr = Reg("ABSTRACTCS") /\ v = "clear" /\ ~ p.busy
           /\ q = [Forget(p, {"cmderr"}) EXCEPT !.err = {0}]
  <2>1. dm' = [dm EXCEPT !.cmderr = 0] /\ harts' = harts
    BY <1>1, <1>5 DEF Written, Reg
  <2>2. /\ dm'.active = dm.active /\ dm'.haltreq = dm.haltreq /\ dm'.hartsel = dm.hartsel /\ dm'.prog = dm.prog
        /\ dm'.busy = dm.busy /\ dm'.cmderr = 0 /\ dm'.command = dm.command /\ dm'.auto = dm.auto
    BY <2>1, <1>0 DEF DmSet
  <2>3. dm' \in DmSet
    BY <2>1, <1>0 DEF DmSet
  <2>4. Typed'
    BY <2>1, <2>2, <2>3, <1>1 DEF Typed, DmType, DmSet, HartType, LocType
  <2>5. /\ q.mode = p.mode /\ q.sel = p.sel /\ q.ctl = p.ctl /\ q.cur = p.cur /\ q.busy = p.busy /\ ~ q.busy
        /\ q.err = {0} /\ q.know = p.know \ {"cmderr"}
    BY <1>5 DEF Ctl, Forget
  <2>6. Module(q)'
    BY <1>1, <2>2, <2>5 DEF At, Module
  <2>7. KnownOfModule(q)' /\ KnownOfHost(q)'
    BY <2>2, <2>5 DEF At, KnownOfModule, KnownOfHost
  <2>8. Borrowed(q)' /\ OthersRun(q)'
    BY <2>1, <2>5 DEF At, Borrowed, OthersRun
  <2> QED BY <2>4, <2>6, <2>7, <2>8 DEF At
<1>6. CASE s.addr = Reg("ABSTRACTAUTO")
           /\ ((v = 1 /\ q = Add(p, {"auto"})) \/ (v = 0 /\ q = Forget(p, {"auto"})))
  <2>1. dm' = [dm EXCEPT !.auto = v] /\ harts' = harts
    BY <1>1, <1>6 DEF Written, Reg
  <2>2. /\ dm'.active = dm.active /\ dm'.haltreq = dm.haltreq /\ dm'.hartsel = dm.hartsel /\ dm'.prog = dm.prog
        /\ dm'.busy = dm.busy /\ dm'.cmderr = dm.cmderr /\ dm'.command = dm.command /\ dm'.auto = v
    BY <2>1, <1>0 DEF DmSet
  <2>3. dm' \in DmSet
    BY <2>1, <1>0, <1>6 DEF DmSet
  <2>4. Typed'
    BY <2>1, <2>2, <2>3, <1>1 DEF Typed, DmType, DmSet, HartType, LocType
  <2>5. /\ q.mode = p.mode /\ q.sel = p.sel /\ q.ctl = p.ctl /\ q.cur = p.cur /\ q.busy = p.busy
        /\ q.err = p.err /\ q.know = IF v = 1 THEN p.know \cup {"auto"} ELSE p.know \ {"auto"}
    BY <1>6 DEF Ctl, Forget, Add
  <2>6. Module(q)'
    BY <1>1, <2>2, <2>5 DEF At, Module
  <2>7. KnownOfModule(q)' /\ KnownOfHost(q)'
    BY <1>6, <2>2, <2>5 DEF At, KnownOfModule, KnownOfHost
  <2>8. Borrowed(q)' /\ OthersRun(q)'
    BY <2>1, <2>5 DEF At, Borrowed, OthersRun
  <2> QED BY <2>4, <2>6, <2>7, <2>8 DEF At
<1>7. \/ s.addr = Reg("DMCONTROL") /\ Controls(p, v, q)
      \/ s.addr = Reg("COMMAND") /\ Commands(p, v, q)
      \/ \E k \in 1 .. RamWords : s.addr = <<"PROGBUF", k - 1>> /\ ~ p.busy /\ Fits(k, v) /\ q = p
      \/ s.addr = Reg("ABSTRACTCS") /\ v = "clear" /\ ~ p.busy /\ q = [Forget(p, {"cmderr"}) EXCEPT !.err = {0}]
      \/ s.addr = Reg("ABSTRACTAUTO") /\ v = 1 /\ q = Add(p, {"auto"})
      \/ s.addr = Reg("ABSTRACTAUTO") /\ v = 0 /\ q = Forget(p, {"auto"})
  BY DEF Writes
<1> HIDE DEF v, rest
<1> QED BY <1>2, <1>3, <1>4, <1>5, <1>6, <1>7

LEMMA WroteWord ==
  ASSUME Typed, NEW p \in Ctl, NEW q \in Ctl, NEW s, At(p), s.do = "write_word", WritesWord(p, s, q), Asking(s),
         Access(req_buf), UNCHANGED loc
  PROVE  Typed' /\ At(q)'
<1> DEFINE v == Word(s.val)
           rest == harts' = IF s.addr[1] = "DMCONTROL" /\ v.resumereq /\ v.hartsel \in Harts
                            THEN [harts EXCEPT ![v.hartsel].resume = TRUE, ![v.hartsel].ack = FALSE]
                            ELSE harts
<1>1. dm' = Written(s.addr, v) /\ rest /\ UNCHANGED <<mem, ppc, own>>
  BY DEF Access, Asking
<1>2. CASE /\ s.addr = Reg("DMCONTROL") /\ s.val = <<"dmcontrol", 0>>
           /\ p.ctl # Unknown /\ p.mode = "run"
           /\ Controls(p, [DMACTIVE EXCEPT !.hartsel = p.ctl], q)
  <2>0. v = [DMACTIVE EXCEPT !.hartsel = p.ctl]
    BY <1>2 DEF At, KnownOfHost, Word
  <2>1. /\ dm' = [dm EXCEPT !.active = v.active, !.haltreq = v.haltreq, !.hartsel = Clamp(v.hartsel)]
        /\ harts' = IF v.resumereq /\ v.hartsel \in Harts
                    THEN [harts EXCEPT ![v.hartsel].resume = TRUE, ![v.hartsel].ack = FALSE]
                    ELSE harts
    BY <1>1, <1>2 DEF Written, Clamp, Reg
  <2>2. Controls(p, v, q)
    BY <1>2, <2>0
  <2> HIDE DEF v
  <2> QED BY <1>1, <2>1, <2>2, WroteControl
<1>3. ASSUME NEW k \in 1 .. Words, s.addr = <<"DATA", k - 1>>, s.val = <<"data", k>>, ~ p.busy,
             IF "auto" \in p.know /\ k = 1
             THEN /\ p.mode = "halted" /\ p.err = {0} /\ "command" \in p.know
                  /\ q = [p EXCEPT !.busy = TRUE, !.err = {0, EXCEPTION}, !.know = @ \ {"cmderr"}]
             ELSE q = p
      PROVE  Typed' /\ At(q)'
  <2>1. k \in Int /\ k # 0 /\ (k - 1) + 1 = k
    BY Sizes
  <2>2. v = loc.data[k] /\ v \in Int
    <3>1. loc.data \in Val
      BY DEF Typed, LocType
    <3>2. v = loc.data[k]
      BY <1>3, <2>1 DEF Word
    <3> QED BY <3>1, <3>2 DEF Val
  <2>3. ~ dm.busy
    BY <1>3 DEF At, Module
  <2>4. harts' = harts /\ dm' = LET d == [dm EXCEPT !.data[k] = v]
                               IN  IF dm.auto = 1 /\ k - 1 = 0 THEN Started(d, d.command) ELSE d
    BY <1>1, <1>3, <2>1, <2>3 DEF Written
  <2> HIDE DEF v
  <2> QED BY <1>1, <1>3, <2>2, <2>4, WroteData
<1> QED BY <1>2, <1>3 DEF WritesWord

LEMMA Readouts == /\ Readout(Reg("DMCONTROL")) = DmControl
                  /\ Readout(Reg("DMSTATUS")) = DmStatus
                  /\ Readout(Reg("ABSTRACTCS")) = AbstractCs
                  /\ Readout(Reg("HARTINFO")) = [nscratch |-> 1, dataaccess |-> TRUE, dataaddr |-> DataAddr]
                  /\ \A k \in Nat : Readout(<<"DATA", k - 1>>) = dm.data[k]
<1>1. Reg("DMCONTROL")[1] = "DMCONTROL" /\ Reg("DMSTATUS")[1] = "DMSTATUS"
      /\ Reg("ABSTRACTCS")[1] = "ABSTRACTCS"
      /\ Reg("HARTINFO")[1] = "HARTINFO"
  BY DEF Reg
<1>2. \A k \in Nat : <<"DATA", k - 1>>[1] = "DATA" /\ <<"DATA", k - 1>>[2] + 1 = k
  OBVIOUS
<1> QED BY <1>1, <1>2, Zenon DEF Readout

LEMMA SameControl == ASSUME NEW a \in Control, NEW b \in Control,
                            a.active = b.active, a.hartsel = b.hartsel, a.haltreq = b.haltreq,
                              a.resumereq = b.resumereq
                     PROVE  a = b
BY DEF Control

\* dmcontrol, as the host reads it, names the selected hart and asks for nothing.
LEMMA Naming == ASSUME dm \in DmSet, dm.active, NEW n, dm.hartsel = n
                PROVE  DmControl = [DMACTIVE EXCEPT !.hartsel = n]
<1> DEFINE a == DmControl
           b == [DMACTIVE EXCEPT !.hartsel = n]
<1>1. dm.active = TRUE /\ n \in Nat
  BY DEF DmSet
<1>2. a \in Control /\ a.active = TRUE /\ a.hartsel = n /\ a.haltreq = FALSE /\ a.resumereq = FALSE
  BY <1>1 DEF DmControl, Control
<1>3. b \in Control /\ b.active = TRUE /\ b.hartsel = n /\ b.haltreq = FALSE /\ b.resumereq = FALSE
  BY <1>1 DEF DMACTIVE, Control
<1> HIDE DEF a, b
<1>4. a = b
  BY <1>2, <1>3, SameControl
<1> QED BY <1>4 DEF a, b

LEMMA WasRead ==
  ASSUME Typed, NEW p \in Ctl, NEW q \in Ctl, NEW s, At(p), s.do \in {"read", "until"},
         Reads(p, s, q) \/ Awaits(p, s, q),
         Asking(s), Access(req_buf), resp_buf' = Readout(req_buf.addr), UNCHANGED loc
  PROVE  Typed' /\ At(p)' /\ Told(p, s)'
<1>0. dm \in DmSet /\ dm.data \in Val /\ harts \in [Harts -> Hart] /\ RamWords \in Nat /\ Words \in Nat
  BY Sizes DEF Typed, DmType, DmSet, HartType
<1>1. UNCHANGED <<dm, harts, mem, ppc, own, loc>>
  BY DEF Access, Asking
<1>2. Typed' /\ At(p)'
  BY <1>1 DEF Typed, DmType, HartType, LocType, At, Module, KnownOfModule, KnownOfHost, Borrowed, OthersRun
<1>3. resp_buf' = Readout(s.addr)
  BY DEF Asking
<1>4. s.addr = Reg("DMCONTROL") => resp_buf' = DmControl
  BY <1>3, Readouts
<1>5. s.addr = Reg("DMSTATUS") => resp_buf' = DmStatus
  BY <1>3, Readouts
<1>6. s.addr = Reg("ABSTRACTCS") => resp_buf' = AbstractCs
  BY <1>3, Readouts
<1>7. s.addr = Reg("HARTINFO") => resp_buf' = [nscratch |-> 1, dataaccess |-> TRUE, dataaddr |-> DataAddr]
  BY <1>3, Readouts
<1>8. DmStatus \in Status /\ (DmStatus.nonexistent <=> dm.hartsel \notin Harts)
      /\ (DmStatus.allhalted => dm.hartsel \in Harts /\ harts[dm.hartsel].halted)
      /\ (DmStatus.resumeack => dm.hartsel \in Harts /\ harts[dm.hartsel].ack)
  <2>1. dm.hartsel \in Harts => harts[dm.hartsel].halted \in BOOLEAN /\ harts[dm.hartsel].ack \in BOOLEAN
    BY <1>0 DEF Hart
  <2> QED BY <2>1 DEF DmStatus, Status, Exists, Selected
<1>9. AbstractCs \in Abstract /\ AbstractCs.busy = dm.busy /\ AbstractCs.cmderr = dm.cmderr
  BY <1>0 DEF AbstractCs, Abstract, DmSet
<1>10. CASE s.do = "read"
  <2>1. Reads(p, s, q)
    BY <1>10 DEF Awaits
  <2>2. s.addr = Reg("DMCONTROL") => resp_buf' = [DMACTIVE EXCEPT !.hartsel = p.sel]
    <3>1. s.addr = Reg("DMCONTROL") => "active" \in p.know /\ p.sel # Unknown
      BY <2>1, Sizes DEF Reads, Reg
    <3>2. "active" \in p.know /\ p.sel # Unknown => dm.active /\ dm.hartsel = p.sel
      BY DEF At, Module, KnownOfModule
    <3>3. dm.active /\ dm.hartsel = p.sel => DmControl = [DMACTIVE EXCEPT !.hartsel = p.sel]
      BY <1>0, Naming
    <3> QED BY <3>1, <3>2, <3>3, <1>4
  <2>3. s.addr = Reg("DMSTATUS") => resp_buf' \in Status /\ (resp_buf'.nonexistent <=> dm.hartsel \notin Harts)
    BY <1>5, <1>8
  <2>4. s.addr = Reg("ABSTRACTCS") => resp_buf' \in Abstract
    BY <1>6, <1>9
  <2>5. s.addr = Reg("HARTINFO") => resp_buf' \in Info /\ resp_buf'.dataaddr = DataAddr
    <3>1. [nscratch |-> 1, dataaccess |-> TRUE, dataaddr |-> DataAddr] \in Info
      BY DEF Info, DataAddr
    <3> QED BY <3>1, <1>7
  <2>6. s.addr[1] = "DATA" => resp_buf' \in Int
    <3> SUFFICES ASSUME s.addr[1] = "DATA" PROVE resp_buf' \in Int
      OBVIOUS
    <3>1. PICK k \in 1 .. Words : s.addr = <<"DATA", k - 1>>
      BY <2>1 DEF Reads, Reg
    <3>2. k \in Nat
      BY <1>0
    <3>3. resp_buf' = dm.data[k]
      BY <1>3, <3>1, <3>2, Readouts
    <3> QED BY <3>3, <1>0 DEF Val
  <2> QED BY <1>1, <1>2, <1>10, <2>2, <2>3, <2>4, <2>5, <2>6 DEF Told
<1>11. CASE s.do = "until"
  <2>1. Awaits(p, s, q)
    BY <1>11 DEF Reads
  <2>2. CASE s.val = "allhalted"
    <3>1. s.addr = Reg("DMSTATUS") /\ p.mode = "halting"
      BY <2>1, <2>2 DEF Awaits
    <3>2. dm.hartsel = p.sel
      BY <3>1, Clamped DEF At, Module, Borrowed, Unknown
    <3> QED BY <1>1, <1>2, <1>11, <2>2, <3>1, <3>2, <1>5, <1>8 DEF Told
  <2>3. CASE s.val = "resumeack"
    <3>1. s.addr = Reg("DMSTATUS") /\ p.mode = "resuming"
      BY <2>1, <2>3 DEF Awaits
    <3>2. dm.hartsel = p.sel
      BY <3>1, Clamped DEF At, Module, Borrowed, Unknown
    <3> QED BY <1>1, <1>2, <1>11, <2>3, <3>1, <3>2, <1>5, <1>8 DEF Told
  <2>4. CASE s.val = "dmactive"
    BY <1>2, <1>11, <2>4 DEF Told
  <2>5. CASE s.val = "idle"
    <3>1. s.addr = Reg("ABSTRACTCS")
      BY <2>1, <2>5 DEF Awaits
    <3>2. dm.busy => p.busy
      BY DEF At, Module
    <3> QED BY <1>1, <1>2, <1>11, <2>5, <3>1, <3>2, <1>6, <1>9 DEF Told
  <2> QED BY <2>1, <2>2, <2>3, <2>4, <2>5 DEF Awaits
<1> QED BY <1>2, <1>10, <1>11

\* The module carries out the request for the step at hand.
LEMMA Accessed ==
  ASSUME Typed, NEW p \in Ctl, NEW q \in Ctl, NEW s, At(p), Leads(p, s, q), IsRequest(s), Asking(s),
         Access(req_buf), resp_buf' = IF req_buf.op = 1 THEN Readout(req_buf.addr) ELSE resp_buf, UNCHANGED loc
  PROVE  Typed' /\ Answered(p, s, q)'
<1>1. CASE s.do = "write"
  <2>1. Writes(p, s, q)
    BY <1>1 DEF Leads, WritesWord, Reads, Awaits, Computes
  <2> QED BY <1>1, <2>1, Wrote DEF Answered
<1>2. CASE s.do = "write_word"
  <2>1. WritesWord(p, s, q)
    BY <1>2 DEF Leads, Writes, Reads, Awaits, Computes
  <2> QED BY <1>2, <2>1, WroteWord DEF Answered
<1>3. CASE s.do \in {"read", "until"}
  <2>1. Reads(p, s, q) \/ Awaits(p, s, q)
    BY <1>3 DEF Leads, Writes, WritesWord, Computes
  <2>2. req_buf.op = 1
    BY <1>3 DEF Asking
  <2> QED BY <1>3, <2>1, <2>2, WasRead DEF Answered
<1>4. CASE s.do = "nop"
  <2>1. p = q
    BY <1>4 DEF Leads, Writes, WritesWord, Reads, Awaits, Computes
  <2>2. UNCHANGED <<dm, harts, mem, ppc, own, loc>>
    BY <1>4 DEF Access, Asking
  <2> QED BY <1>4, <2>1, <2>2
       DEF Answered, Typed, DmType, HartType, LocType, At, Module, KnownOfModule, KnownOfHost, Borrowed,
         OthersRun
<1> QED BY <1>1, <1>2, <1>3, <1>4 DEF IsRequest

LEMMA AnswerKeeps ==
  ASSUME Typed, NEW p \in Ctl, NEW q \in Ctl, NEW s, Leads(p, s, q), Answered(p, s, q),
         UNCHANGED <<loc, resp_buf>>,
         Hardware \/ \E h \in Harts : Run(h)
  PROVE  Typed' /\ Answered(p, s, q)'
<1>1. CASE s.do \notin {"read", "until"}
  BY <1>1, HardwareKeeps DEF Answered
<1>2. CASE s.do \in {"read", "until"}
  <2>1. At(p) /\ Told(p, s)
    BY <1>2 DEF Answered
  <2>2. Typed' /\ At(p)' /\ Onward
    BY <2>1, HardwareKeeps
  <2>3. s.do = "until" => Awaits(p, s, q)
    BY DEF Leads, Writes, WritesWord, Reads, Computes
  <2>4. s.do = "until" /\ s.val = "allhalted" => p.sel \in Harts /\ ~ harts[p.sel].resume
    BY <2>1, <2>3 DEF At, Borrowed, Awaits
  <2>5. s.do = "until" /\ s.val = "resumeack" => p.sel \in Harts
    BY <2>1, <2>3 DEF At, Borrowed, Awaits
  <2>6. Told(p, s)'
    BY <2>1, <2>2, <2>4, <2>5 DEF Told, Onward
  <2> QED BY <1>2, <2>2, <2>6 DEF Answered
<1> QED BY <1>1, <1>2

LocSet == [running : BOOLEAN, current_hart : Nat, num_harts : Nat, max_hart : Nat, xlen : Int,
           data_base : Int, dmcontrol : Control, dmstatus : Status, hartinfo : Info,
           abstractcs : Abstract, data : Val, dst : Seq(Val), s0 : Val, s1 : Val]

\* The host takes the response: it asks again, or has got to q.
LEMMA Received ==
  ASSUME Typed, NEW p \in Ctl, NEW q \in Ctl, Leads(p, Now, q), IsRequest(Now), Answered(p, Now, q), Receive
  PROVE  Typed' /\ \/ todo' = todo /\ At(p)'
                   \/ todo' = Rest /\ At(q)'
<1> DEFINE s == Now
<1>0. loc \in LocSet /\ UNCHANGED <<dm, harts, mem, ppc, own>>
  BY DEF Typed, LocType, LocSet, Receive, dvars
<1>a. ASSUME loc' \in LocSet PROVE Typed'
  BY <1>0, <1>a DEF Typed, DmType, HartType, LocType, LocSet
\* What p and q say of the module and of the harts' runs is not about the host.
<1>b. ASSUME NEW r, r.mode = p.mode, r.sel = p.sel, r.busy = p.busy, r.err = p.err, At(p),
             KnownOfModule(r)', KnownOfHost(r)'
      PROVE  At(r)'
  <2>1. Module(r)'
    BY <1>0, <1>b DEF At, Module
  <2>2. Borrowed(r)' /\ OthersRun(r)'
    BY <1>0, <1>b DEF At, Borrowed, OthersRun
  <2> QED BY <1>b, <2>1, <2>2 DEF At
<1>1. CASE s.do \in {"write", "write_word", "nop"}
  <2>1. loc' = loc /\ todo' = Rest
    BY <1>1 DEF Receive
  <2>2. At(q)
    BY <1>1 DEF Answered
  <2> QED BY <1>0, <1>a, <2>1, <2>2 DEF At, Module, Borrowed, OthersRun, KnownOfModule, KnownOfHost
<1>2. CASE s.do = "read"
  <2>0. At(p) /\ Told(p, s) /\ Reads(p, s, q) /\ todo' = Rest
    BY <1>2 DEF Answered, Receive, Leads, Writes, WritesWord, Awaits, Computes
  <2>c. s.addr[1] # "DATA" => loc' = [loc EXCEPT ![s.val] = resp_buf]
    BY <1>2, Zenon DEF Receive
  <2>1. CASE s.addr = Reg("DMCONTROL")
    <3>1. s.val = "dmcontrol" /\ p.sel # Unknown /\ q = [p EXCEPT !.ctl = p.sel] /\ "active" \in p.know
      BY <2>0, <2>1, Sizes DEF Reads, Reg
    <3>2. resp_buf = [DMACTIVE EXCEPT !.hartsel = p.sel] /\ p.sel \in Nat
      BY <2>0, <2>1, <3>1, <1>2 DEF Told, Ctl, Number
    <3>3. resp_buf \in Control
      BY <3>2 DEF DMACTIVE, Control
    <3>4. loc' = [loc EXCEPT !.dmcontrol = resp_buf]
      BY <2>c, <2>1, <3>1 DEF Reg
    <3>5. loc' \in LocSet /\ loc'.dmcontrol = resp_buf
      BY <1>0, <3>3, <3>4 DEF LocSet
    <3>6. /\ loc'.running = loc.running /\ loc'.current_hart = loc.current_hart
               /\ loc'.num_harts = loc.num_harts
          /\ loc'.max_hart = loc.max_hart /\ loc'.xlen = loc.xlen /\ loc'.data_base = loc.data_base
          /\ loc'.dmstatus = loc.dmstatus /\ loc'.hartinfo = loc.hartinfo /\ loc'.abstractcs = loc.abstractcs
      BY <1>0, <3>4 DEF LocSet
    <3>7. /\ q.mode = p.mode /\ q.sel = p.sel /\ q.ctl = p.sel /\ q.cur = p.cur /\ q.busy = p.busy
          /\ q.err = p.err /\ q.know = p.know
      BY <3>1 DEF Ctl
    <3>8. KnownOfModule(q)' /\ KnownOfHost(q)'
      BY <2>0, <3>2, <3>5, <3>6, <3>7, <1>0 DEF At, KnownOfModule, KnownOfHost
    <3> QED BY <2>0, <3>5, <3>7, <3>8, <1>a, <1>b
  <2>2. CASE s.addr = Reg("DMSTATUS")
    <3>1. s.val = "dmstatus" /\ q = Add(p, {"probe"})
      BY <2>0, <2>2, Sizes DEF Reads, Reg
    <3>2. resp_buf \in Status /\ (resp_buf.nonexistent <=> dm.hartsel \notin Harts)
      BY <2>0, <2>2, <1>2 DEF Told
    <3>4. loc' = [loc EXCEPT !.dmstatus = resp_buf]
      BY <2>c, <2>2, <3>1 DEF Reg
    <3>5. loc' \in LocSet /\ loc'.dmstatus = resp_buf
      BY <1>0, <3>2, <3>4 DEF LocSet
    <3>6. /\ loc'.running = loc.running /\ loc'.current_hart = loc.current_hart
               /\ loc'.num_harts = loc.num_harts
          /\ loc'.max_hart = loc.max_hart /\ loc'.xlen = loc.xlen /\ loc'.data_base = loc.data_base
          /\ loc'.dmcontrol = loc.dmcontrol /\ loc'.hartinfo = loc.hartinfo /\ loc'.abstractcs = loc.abstractcs
      BY <1>0, <3>4 DEF LocSet
    <3>7. /\ q.mode = p.mode /\ q.sel = p.sel /\ q.ctl = p.ctl /\ q.cur = p.cur /\ q.busy = p.busy
          /\ q.err = p.err /\ q.know = p.know \cup {"probe"}
      BY <3>1 DEF Ctl, Add
    <3>8. KnownOfModule(q)' /\ KnownOfHost(q)'
      BY <2>0, <3>2, <3>5, <3>6, <3>7, <1>0 DEF At, KnownOfModule, KnownOfHost
    <3> QED BY <2>0, <3>5, <3>7, <3>8, <1>a, <1>b
  <2>3. CASE s.addr = Reg("ABSTRACTCS")
    <3>1. s.val = "abstractcs" /\ q = Forget(p, {"cmderr"})
      BY <2>0, <2>3, Sizes DEF Reads, Reg
    <3>2. resp_buf \in Abstract
      BY <2>0, <2>3, <1>2 DEF Told
    <3>4. loc' = [loc EXCEPT !.abstractcs = resp_buf]
      BY <2>c, <2>3, <3>1 DEF Reg
    <3>5. loc' \in LocSet
      BY <1>0, <3>2, <3>4 DEF LocSet
    <3>6. /\ loc'.running = loc.running /\ loc'.current_hart = loc.current_hart
               /\ loc'.num_harts = loc.num_harts
          /\ loc'.max_hart = loc.max_hart /\ loc'.xlen = loc.xlen /\ loc'.data_base = loc.data_base
          /\ loc'.dmcontrol = loc.dmcontrol /\ loc'.hartinfo = loc.hartinfo /\ loc'.dmstatus = loc.dmstatus
      BY <1>0, <3>4 DEF LocSet
    <3>7. /\ q.mode = p.mode /\ q.sel = p.sel /\ q.ctl = p.ctl /\ q.cur = p.cur /\ q.busy = p.busy
          /\ q.err = p.err /\ q.know = p.know \ {"cmderr"}
      BY <3>1 DEF Ctl, Forget
    <3>8. KnownOfModule(q)' /\ KnownOfHost(q)'
      BY <2>0, <3>6, <3>7, <1>0 DEF At, KnownOfModule, KnownOfHost
    <3> QED BY <2>0, <3>5, <3>7, <3>8, <1>a, <1>b
  <2>4. CASE s.addr = Reg("HARTINFO")
    <3>1. s.val = "hartinfo" /\ q = Add(p, {"info"})
      BY <2>0, <2>4, Sizes DEF Reads, Reg
    <3>2. resp_buf \in Info /\ resp_buf.dataaddr = DataAddr
      BY <2>0, <2>4, <1>2 DEF Told
    <3>4. loc' = [loc EXCEPT !.hartinfo = resp_buf]
      BY <2>c, <2>4, <3>1 DEF Reg
    <3>5. loc' \in LocSet /\ loc'.hartinfo = resp_buf
      BY <1>0, <3>2, <3>4 DEF LocSet
    <3>6. /\ loc'.running = loc.running /\ loc'.current_hart = loc.current_hart
               /\ loc'.num_harts = loc.num_harts
          /\ loc'.max_hart = loc.max_hart /\ loc'.xlen = loc.xlen /\ loc'.data_base = loc.data_base
          /\ loc'.dmcontrol = loc.dmcontrol /\ loc'.dmstatus = loc.dmstatus /\ loc'.abstractcs = loc.abstractcs
      BY <1>0, <3>4 DEF LocSet
    <3>7. /\ q.mode = p.mode /\ q.sel = p.sel /\ q.ctl = p.ctl /\ q.cur = p.cur /\ q.busy = p.busy
          /\ q.err = p.err /\ q.know = p.know \cup {"info"}
      BY <3>1 DEF Ctl, Add
    <3>8. KnownOfModule(q)' /\ KnownOfHost(q)'
      BY <2>0, <3>2, <3>5, <3>6, <3>7, <1>0 DEF At, KnownOfModule, KnownOfHost
    <3> QED BY <2>0, <3>5, <3>7, <3>8, <1>a, <1>b
  <2>5. ASSUME NEW k \in 1 .. Words, s.addr = <<"DATA", k - 1>>, s.val = <<"data", k>>, q = p
        PROVE Typed' /\ At(q)'
    <3> DEFINE d == [loc.data EXCEPT ![k] = resp_buf]
    <3>1. loc' = [loc EXCEPT !.data = d]
      BY <1>2, <2>5 DEF Receive
    <3>2. resp_buf \in Int /\ loc.data \in Val
      BY <2>0, <2>5, <1>2, <1>0 DEF Told, LocSet
    <3>3. d \in Val
      BY <3>2 DEF Val
    <3> HIDE DEF d
    <3>5. loc' \in LocSet
      BY <1>0, <3>1, <3>3 DEF LocSet
    <3>6. /\ loc'.running = loc.running /\ loc'.current_hart = loc.current_hart
               /\ loc'.num_harts = loc.num_harts
          /\ loc'.max_hart = loc.max_hart /\ loc'.xlen = loc.xlen /\ loc'.data_base = loc.data_base
          /\ loc'.dmcontrol = loc.dmcontrol /\ loc'.dmstatus = loc.dmstatus /\ loc'.abstractcs = loc.abstractcs
          /\ loc'.hartinfo = loc.hartinfo
      BY <1>0, <3>1 DEF LocSet
    <3>8. KnownOfModule(q)' /\ KnownOfHost(q)'
      BY <2>0, <2>5, <3>6, <1>0 DEF At, KnownOfModule, KnownOfHost
    <3> QED BY <2>0, <2>5, <3>5, <3>8, <1>a, <1>b
  <2> QED BY <2>0, <2>1, <2>2, <2>3, <2>4, <2>5 DEF Reads
<1>3. CASE s.do = "until"
  <2>0. At(p) /\ Told(p, s) /\ Awaits(p, s, q) /\ todo' = IF Holds(s.val, resp_buf) THEN Rest ELSE todo
    BY <1>3 DEF Answered, Receive, Leads, Writes, WritesWord, Reads, Computes
  <2>c. s.addr[1] # "ABSTRACTCS" => loc' = loc
    BY <1>3, Zenon DEF Receive
  <2>1. CASE s.addr = Reg("DMSTATUS") \/ s.addr = Reg("DMCONTROL")
    <3>1. loc' = loc
      BY <2>1, <2>c DEF Reg
    <3>2. Typed' /\ At(p)'
      BY <2>0, <3>1, <1>0, <1>a DEF At, Module, Borrowed, OthersRun, KnownOfModule, KnownOfHost
    <3>3. CASE s.val = "allhalted" /\ Holds(s.val, resp_buf)
      <4>1. resp_buf.allhalted /\ p.mode = "halting" /\ q = [p EXCEPT !.mode = "caught"]
        BY <2>0, <3>3 DEF Holds, Awaits
      <4>2. harts[p.sel].halted
        BY <2>0, <4>1, <3>3, <1>3 DEF Told
      <4>3. /\ q.mode = "caught" /\ q.sel = p.sel /\ q.ctl = p.ctl /\ q.cur = p.cur /\ q.busy = p.busy
            /\ q.err = p.err /\ q.know = p.know
        BY <4>1 DEF Ctl
      <4>4. Module(q)' /\ Borrowed(q)' /\ OthersRun(q)'
        BY <2>0, <4>1, <4>2, <4>3, <1>0 DEF At, Module, Borrowed, OthersRun
      <4>5. KnownOfModule(q)' /\ KnownOfHost(q)'
        BY <2>0, <4>3, <3>1, <1>0 DEF At, KnownOfModule, KnownOfHost
      <4> QED BY <2>0, <3>2, <3>3, <4>4, <4>5 DEF At
    <3>4. CASE s.val = "resumeack" /\ Holds(s.val, resp_buf)
      <4>1. resp_buf.resumeack /\ p.mode = "resuming" /\ q = [p EXCEPT !.mode = "run"]
        BY <2>0, <3>4 DEF Holds, Awaits
      <4>2. harts[p.sel].ack /\ p.sel \in Harts /\ ~ harts[p.sel].halted /\ ~ harts[p.sel].resume
        BY <2>0, <4>1, <3>4, <1>3 DEF Told, At, Borrowed
      <4>3. /\ q.mode = "run" /\ q.sel = p.sel /\ q.ctl = p.ctl /\ q.cur = p.cur /\ q.busy = p.busy
            /\ q.err = p.err /\ q.know = p.know
        BY <4>1 DEF Ctl
      <4>4. Module(q)' /\ Borrowed(q)' /\ OthersRun(q)'
        BY <2>0, <4>1, <4>2, <4>3, <1>0 DEF At, Module, Borrowed, OthersRun
      <4>5. KnownOfModule(q)' /\ KnownOfHost(q)'
        BY <2>0, <4>3, <3>1, <1>0 DEF At, KnownOfModule, KnownOfHost
      <4> QED BY <2>0, <3>2, <3>4, <4>4, <4>5 DEF At
    <3>5. CASE s.val = "dmactive"
      BY <2>0, <3>2, <3>5 DEF Awaits
    <3>6. CASE ~ Holds(s.val, resp_buf)
      BY <2>0, <3>2, <3>6
    <3>7. s.val \in {"allhalted", "resumeack", "dmactive"}
      BY <2>0, <2>1 DEF Awaits, Reg
    <3> QED BY <3>3, <3>4, <3>5, <3>6, <3>7
  <2>2. CASE s.addr = Reg("ABSTRACTCS")
    <3>1. s.val = "idle" /\ q = [Add(p, {"cmderr"}) EXCEPT !.busy = FALSE]
      BY <2>0, <2>2 DEF Awaits, Reg
    <3>2. /\ resp_buf \in Abstract /\ (resp_buf.busy => p.busy)
          /\ ~ resp_buf.busy => ~ dm.busy /\ resp_buf.cmderr = dm.cmderr
      BY <2>0, <3>1, <1>3 DEF Told
    <3>4. loc' = [loc EXCEPT !.abstractcs = resp_buf]
      BY <1>3, <2>2 DEF Receive, Reg
    <3>5. loc' \in LocSet /\ loc'.abstractcs = resp_buf
      BY <1>0, <3>2, <3>4 DEF LocSet
    <3>6. /\ loc'.running = loc.running /\ loc'.current_hart = loc.current_hart
               /\ loc'.num_harts = loc.num_harts
          /\ loc'.max_hart = loc.max_hart /\ loc'.xlen = loc.xlen /\ loc'.data_base = loc.data_base
          /\ loc'.dmcontrol = loc.dmcontrol /\ loc'.hartinfo = loc.hartinfo /\ loc'.dmstatus = loc.dmstatus
      BY <1>0, <3>4 DEF LocSet
    <3>7. Typed'
      BY <3>5, <1>a
    <3>8. CASE resp_buf.busy
      <4>1. todo' = todo
        BY <2>0, <3>1, <3>8 DEF Holds
      <4>2. KnownOfModule(p)' /\ KnownOfHost(p)'
        BY <2>0, <3>2, <3>6, <3>8, <1>0 DEF At, KnownOfModule, KnownOfHost
      <4> QED BY <2>0, <3>7, <4>1, <4>2, <1>b
    <3>9. CASE ~ resp_buf.busy
      <4>1. todo' = Rest
        BY <2>0, <3>1, <3>9 DEF Holds
      <4>3. /\ q.mode = p.mode /\ q.sel = p.sel /\ q.ctl = p.ctl /\ q.cur = p.cur /\ q.busy = FALSE
            /\ q.err = p.err /\ q.know = p.know \cup {"cmderr"}
        BY <3>1 DEF Ctl, Add
      <4>4. Module(q)' /\ Borrowed(q)' /\ OthersRun(q)'
        BY <2>0, <3>2, <3>9, <4>3, <1>0 DEF At, Module, Borrowed, OthersRun
      <4>5. KnownOfModule(q)' /\ KnownOfHost(q)'
        BY <2>0, <3>2, <3>5, <3>6, <3>9, <4>3, <1>0 DEF At, KnownOfModule, KnownOfHost
      <4> QED BY <3>7, <4>1, <4>4, <4>5 DEF At
    <3> QED BY <3>8, <3>9
  <2> QED BY <2>0, <2>1, <2>2 DEF Awaits
<1> QED BY <1>1, <1>2, <1>3 DEF IsRequest

----------------------------------------------------------------------------
(* The plans of single steps.                                              *)

C(m, s, c, u, b, e, k) == [mode |-> m, sel |-> s, ctl |-> c, cur |-> u, busy |-> b, err |-> e, know |-> k]

LEMMA Fields == ASSUME NEW m, NEW s, NEW c, NEW u, NEW b, NEW e, NEW k
                PROVE  LET p == C(m, s, c, u, b, e, k)
                       IN  /\ p.mode = m /\ p.sel = s /\ p.ctl = c /\ p.cur = u /\ p.busy = b /\ p.err = e
                         /\ p.know = k
                           /\ p \in Ctl <=> /\ m \in Mode /\ s \in Number /\ c \in Number /\ u \in Number
                                            /\ b \in BOOLEAN /\ e \in SUBSET Nat /\ k \in SUBSET Fact
BY DEF C, Ctl

LEMMA SameCtl == ASSUME NEW p \in Ctl, NEW q \in Ctl, p.mode = q.mode, p.sel = q.sel, p.ctl = q.ctl,
                        p.cur = q.cur,
                        p.busy = q.busy, p.err = q.err, p.know = q.know
                 PROVE  p = q
BY DEF Ctl

LEMMA Rebuilt == ASSUME NEW q \in Ctl PROVE q = C(q.mode, q.sel, q.ctl, q.cur, q.busy, q.err, q.know)
<1> DEFINE r == C(q.mode, q.sel, q.ctl, q.cur, q.busy, q.err, q.know)
<1>1. /\ r \in Ctl /\ q.mode = r.mode /\ q.sel = r.sel /\ q.ctl = r.ctl /\ q.cur = r.cur
      /\ q.busy = r.busy /\ q.err = r.err /\ q.know = r.know
  BY DEF C, Ctl
<1> HIDE DEF r
<1>2. q = r
  BY <1>1, SameCtl
<1> QED BY <1>2 DEF r

\* Assertions of which one, two or more parts change.
LEMMA ChangeMode == ASSUME NEW p \in Ctl, NEW m2 \in Mode
  PROVE  [p EXCEPT !.mode = m2] = C(m2, p.sel, p.ctl, p.cur, p.busy, p.err, p.know)
<1> DEFINE q == [p EXCEPT !.mode = m2]
<1>1. q \in Ctl /\ q.mode = m2 /\ q.sel = p.sel /\ q.ctl = p.ctl /\ q.cur = p.cur /\ q.busy = p.busy
      /\ q.err = p.err /\ q.know = p.know
  BY DEF Ctl
<1> HIDE DEF q
<1>2. q = C(m2, p.sel, p.ctl, p.cur, p.busy, p.err, p.know)
  BY <1>1, Rebuilt
<1> QED BY <1>2 DEF q

LEMMA ChangeCtl == ASSUME NEW p \in Ctl, NEW c2 \in Number
  PROVE  [p EXCEPT !.ctl = c2] = C(p.mode, p.sel, c2, p.cur, p.busy, p.err, p.know)
<1> DEFINE q == [p EXCEPT !.ctl = c2]
<1>1. q \in Ctl /\ q.mode = p.mode /\ q.sel = p.sel /\ q.ctl = c2 /\ q.cur = p.cur /\ q.busy = p.busy
      /\ q.err = p.err /\ q.know = p.know
  BY DEF Ctl
<1> HIDE DEF q
<1>2. q = C(p.mode, p.sel, c2, p.cur, p.busy, p.err, p.know)
  BY <1>1, Rebuilt
<1> QED BY <1>2 DEF q

LEMMA ChangeCur == ASSUME NEW p \in Ctl, NEW u2 \in Number
  PROVE  [p EXCEPT !.cur = u2] = C(p.mode, p.sel, p.ctl, u2, p.busy, p.err, p.know)
<1> DEFINE q == [p EXCEPT !.cur = u2]
<1>1. q \in Ctl /\ q.mode = p.mode /\ q.sel = p.sel /\ q.ctl = p.ctl /\ q.cur = u2 /\ q.busy = p.busy
      /\ q.err = p.err /\ q.know = p.know
  BY DEF Ctl
<1> HIDE DEF q
<1>2. q = C(p.mode, p.sel, p.ctl, u2, p.busy, p.err, p.know)
  BY <1>1, Rebuilt
<1> QED BY <1>2 DEF q

LEMMA ChangeKnow == ASSUME NEW p \in Ctl, NEW k2 \in SUBSET Fact
  PROVE  [p EXCEPT !.know = k2] = C(p.mode, p.sel, p.ctl, p.cur, p.busy, p.err, k2)
<1> DEFINE q == [p EXCEPT !.know = k2]
<1>1. q \in Ctl /\ q.mode = p.mode /\ q.sel = p.sel /\ q.ctl = p.ctl /\ q.cur = p.cur /\ q.busy = p.busy
      /\ q.err = p.err /\ q.know = k2
  BY DEF Ctl
<1> HIDE DEF q
<1>2. q = C(p.mode, p.sel, p.ctl, p.cur, p.busy, p.err, k2)
  BY <1>1, Rebuilt
<1> QED BY <1>2 DEF q

LEMMA ChangeSelKnow == ASSUME NEW p \in Ctl, NEW s2 \in Number, NEW k2 \in SUBSET Fact
  PROVE  [p EXCEPT !.sel = s2, !.know = k2] = C(p.mode, s2, p.ctl, p.cur, p.busy, p.err, k2)
<1> DEFINE q == [p EXCEPT !.sel = s2, !.know = k2]
<1>1. q \in Ctl /\ q.mode = p.mode /\ q.sel = s2 /\ q.ctl = p.ctl /\ q.cur = p.cur /\ q.busy = p.busy
      /\ q.err = p.err /\ q.know = k2
  BY DEF Ctl
<1> HIDE DEF q
<1>2. q = C(p.mode, s2, p.ctl, p.cur, p.busy, p.err, k2)
  BY <1>1, Rebuilt
<1> QED BY <1>2 DEF q

LEMMA ChangeKnowErrInTurn == ASSUME NEW p \in Ctl, NEW k2 \in SUBSET Fact, NEW e2 \in SUBSET Nat
  PROVE  [[p EXCEPT !.know = k2] EXCEPT !.err = e2] = C(p.mode, p.sel, p.ctl, p.cur, p.busy, e2, k2)
<1> DEFINE q == [[p EXCEPT !.know = k2] EXCEPT !.err = e2]
<1>1. q \in Ctl /\ q.mode = p.mode /\ q.sel = p.sel /\ q.ctl = p.ctl /\ q.cur = p.cur /\ q.busy = p.busy
      /\ q.err = e2 /\ q.know = k2
  BY DEF Ctl
<1> HIDE DEF q
<1>2. q = C(p.mode, p.sel, p.ctl, p.cur, p.busy, e2, k2)
  BY <1>1, Rebuilt
<1> QED BY <1>2 DEF q

LEMMA PlanName ==
  ASSUME NEW s, NEW c, NEW u, NEW b, NEW e, NEW k, C("run", s, c, u, b, e, k) \in Ctl, NEW h \in Nat
  PROVE  Plan(C("run", s, c, u, b, e, k), write(Reg("DMCONTROL"), [DMACTIVE EXCEPT !.hartsel = h]),
         C("run", Clamp(h), c, u, b, e, (k \ {"probe"}) \cup {"active"}))
<1> DEFINE p == C("run", s, c, u, b, e, k)
           q == C("run", Clamp(h), c, u, b, e, (k \ {"probe"}) \cup {"active"})
           v == [DMACTIVE EXCEPT !.hartsel = h]
           st == StepOf("write", Reg("DMCONTROL"), v)
           s2 == Clamp(h)
           k2 == (k \ {"probe"}) \cup {"active"}
<1>1. /\ p \in Ctl /\ p.mode = "run" /\ p.sel = s /\ p.ctl = c /\ p.cur = u /\ p.busy = b /\ p.err = e
           /\ p.know = k
      /\ "run" \in Mode /\ s \in Number /\ c \in Number /\ u \in Number /\ b \in BOOLEAN /\ e \in SUBSET Nat
           /\ k \in SUBSET Fact
  BY DEF C, Ctl
<1>2. s2 \in Number /\ k2 \in SUBSET Fact
  BY <1>1, Clamped DEF Number, Fact
<1> HIDE DEF s2, k2
<1>3. q \in Ctl
  BY <1>1, <1>2, Fields DEF s2, k2
<1> HIDE DEF p
<1>4. q = [p EXCEPT !.sel = s2, !.know = k2]
  <2>1. [p EXCEPT !.sel = s2, !.know = k2] = C(p.mode, s2, p.ctl, p.cur, p.busy, p.err, k2)
    BY <1>1, <1>2, ChangeSelKnow
  <2> QED BY <1>1, <2>1 DEF s2, k2
<1>v. v \in Control /\ v.active /\ v.hartsel = h /\ ~ v.haltreq /\ ~ v.resumereq
  BY Clamped DEF DMACTIVE, Control
<1> HIDE DEF q, v
<1>5. Leads(p, st, q)
  BY <1>1, <1>4, <1>v DEF s2, k2, Leads, Writes, Controls, StepOf
<1>6. Plan(p, <<st>>, q)
  BY <1>1, <1>3, <1>5, PlanStep
<1> QED BY <1>6 DEF p, q, st, v, write

LEMMA PlanAskHalt ==
  ASSUME NEW s, NEW c, NEW u, NEW b, NEW e, NEW k, C("run", s, c, u, b, e, k) \in Ctl, NEW h \in Harts
  PROVE  Plan(C("run", s, c, u, b, e, k),
         write(Reg("DMCONTROL"), [DMACTIVE EXCEPT !.haltreq = TRUE, !.hartsel = h]),
           C("halting", h, c, u, b, e, (k \ {"probe"}) \cup {"active"}))
<1> DEFINE p == C("run", s, c, u, b, e, k)
           q == C("halting", h, c, u, b, e, (k \ {"probe"}) \cup {"active"})
           v == [DMACTIVE EXCEPT !.haltreq = TRUE, !.hartsel = h]
           st == StepOf("write", Reg("DMCONTROL"), v)
           m2 == "halting"
           s2 == h
           k2 == (k \ {"probe"}) \cup {"active"}
<1>1. /\ p \in Ctl /\ p.mode = "run" /\ p.sel = s /\ p.ctl = c /\ p.cur = u /\ p.busy = b /\ p.err = e
           /\ p.know = k
      /\ "run" \in Mode /\ s \in Number /\ c \in Number /\ u \in Number /\ b \in BOOLEAN /\ e \in SUBSET Nat
           /\ k \in SUBSET Fact
  BY DEF C, Ctl
<1>2. m2 \in Mode /\ s2 \in Number /\ k2 \in SUBSET Fact
  BY <1>1, Clamped DEF Number, Fact, Mode
<1> HIDE DEF m2, s2, k2
<1>3. q \in Ctl
  BY <1>1, <1>2, Fields DEF m2, s2, k2
<1> HIDE DEF p
<1>4. q = [p EXCEPT !.mode = m2, !.sel = s2, !.know = k2]
  <2> DEFINE r == [p EXCEPT !.mode = m2, !.sel = s2, !.know = k2]
  <2>0. r \in Ctl /\ r.mode = m2 /\ r.sel = s2 /\ r.ctl = p.ctl /\ r.cur = p.cur /\ r.busy = p.busy
        /\ r.err = p.err /\ r.know = k2
    BY <1>1, <1>2 DEF Ctl
  <2> HIDE DEF r
  <2>2. r = C(m2, s2, p.ctl, p.cur, p.busy, p.err, k2)
    BY <2>0, Rebuilt
  <2>1. [p EXCEPT !.mode = m2, !.sel = s2, !.know = k2] = C(m2, s2, p.ctl, p.cur, p.busy, p.err, k2)
    BY <2>2 DEF r
  <2> QED BY <1>1, <2>1 DEF m2, s2, k2
<1>v. v \in Control /\ v.active /\ v.hartsel = h /\ v.haltreq /\ ~ v.resumereq
  BY Clamped DEF DMACTIVE, Control
<1> HIDE DEF q, v
<1>5. Leads(p, st, q)
  BY <1>1, <1>4, <1>v DEF m2, s2, k2, Leads, Writes, Controls, StepOf
<1>6. Plan(p, <<st>>, q)
  BY <1>1, <1>3, <1>5, PlanStep
<1> QED BY <1>6 DEF p, q, st, v, write

LEMMA PlanRelease ==
  ASSUME NEW s, NEW c, NEW u, NEW b, NEW e, NEW k, C("caught", s, c, u, b, e, k) \in Ctl, s \in Harts
  PROVE  Plan(C("caught", s, c, u, b, e, k), write(Reg("DMCONTROL"), [DMACTIVE EXCEPT !.hartsel = s]),
         C("halted", s, c, u, b, e, k))
<1> DEFINE p == C("caught", s, c, u, b, e, k)
           q == C("halted", s, c, u, b, e, k)
           v == [DMACTIVE EXCEPT !.hartsel = s]
           st == StepOf("write", Reg("DMCONTROL"), v)
           m2 == "halted"
<1>1. /\ p \in Ctl /\ p.mode = "caught" /\ p.sel = s /\ p.ctl = c /\ p.cur = u /\ p.busy = b /\ p.err = e
           /\ p.know = k
      /\ "caught" \in Mode /\ s \in Number /\ c \in Number /\ u \in Number /\ b \in BOOLEAN /\ e \in SUBSET Nat
           /\ k \in SUBSET Fact
  BY DEF C, Ctl
<1>2. m2 \in Mode
  BY <1>1 DEF Mode
<1> HIDE DEF m2
<1>3. q \in Ctl
  BY <1>1, <1>2, Fields DEF m2
<1> HIDE DEF p
<1>4. q = [p EXCEPT !.mode = m2]
  <2>1. [p EXCEPT !.mode = m2] = C(m2, p.sel, p.ctl, p.cur, p.busy, p.err, p.know)
    BY <1>1, <1>2, ChangeMode
  <2> QED BY <1>1, <2>1 DEF m2
<1>v. v \in Control /\ v.active /\ v.hartsel = s /\ ~ v.haltreq /\ ~ v.resumereq
  BY Clamped DEF DMACTIVE, Control
<1> HIDE DEF q, v
<1>5. Leads(p, st, q)
  BY <1>1, <1>4, <1>v DEF m2, Leads, Writes, Controls, StepOf
<1>6. Plan(p, <<st>>, q)
  BY <1>1, <1>3, <1>5, PlanStep
<1> QED BY <1>6 DEF p, q, st, v, write

LEMMA PlanAskResume ==
  ASSUME NEW s, NEW c, NEW u, NEW e, NEW k, C("halted", s, c, u, FALSE, e, k) \in Ctl, s \in Harts
  PROVE  Plan(C("halted", s, c, u, FALSE, e, k),
         write(Reg("DMCONTROL"), [DMACTIVE EXCEPT !.resumereq = TRUE, !.hartsel = s]),
           C("resuming", s, c, u, FALSE, e, k))
<1> DEFINE p == C("halted", s, c, u, FALSE, e, k)
           q == C("resuming", s, c, u, FALSE, e, k)
           v == [DMACTIVE EXCEPT !.resumereq = TRUE, !.hartsel = s]
           st == StepOf("write", Reg("DMCONTROL"), v)
           m2 == "resuming"
<1>1. /\ p \in Ctl /\ p.mode = "halted" /\ p.sel = s /\ p.ctl = c /\ p.cur = u /\ p.busy = FALSE /\ p.err = e
           /\ p.know = k
      /\ "halted" \in Mode /\ s \in Number /\ c \in Number /\ u \in Number /\ FALSE \in BOOLEAN
           /\ e \in SUBSET Nat /\ k \in SUBSET Fact
  BY DEF C, Ctl
<1>2. m2 \in Mode
  BY <1>1 DEF Mode
<1> HIDE DEF m2
<1>3. q \in Ctl
  <2>1. C(m2, s, c, u, FALSE, e, k) \in Ctl
    BY <1>1, <1>2 DEF C, Ctl
  <2> QED BY <2>1 DEF m2
<1> HIDE DEF p
<1>4. q = [p EXCEPT !.mode = m2]
  <2>1. [p EXCEPT !.mode = m2] = C(m2, p.sel, p.ctl, p.cur, p.busy, p.err, p.know)
    BY <1>1, <1>2, ChangeMode
  <2> QED BY <1>1, <2>1 DEF m2
<1>v. v \in Control /\ v.active /\ v.hartsel = s /\ ~ v.haltreq /\ v.resumereq
  BY Clamped DEF DMACTIVE, Control
<1> HIDE DEF q, v
<1>5. Leads(p, st, q)
  BY <1>1, <1>4, <1>v DEF m2, Leads, Writes, Controls, StepOf
<1>6. Plan(p, <<st>>, q)
  BY <1>1, <1>3, <1>5, PlanStep
<1> QED BY <1>6 DEF p, q, st, v, write

LEMMA PlanHalted ==
  ASSUME NEW s, NEW c, NEW u, NEW b, NEW e, NEW k, C("halting", s, c, u, b, e, k) \in Ctl
  PROVE  Plan(C("halting", s, c, u, b, e, k), until(Reg("DMSTATUS"), "allhalted"),
         C("caught", s, c, u, b, e, k))
<1> DEFINE p == C("halting", s, c, u, b, e, k)
           q == C("caught", s, c, u, b, e, k)
           st == StepOf("until", Reg("DMSTATUS"), "allhalted")
           m2 == "caught"
<1>1. /\ p \in Ctl /\ p.mode = "halting" /\ p.sel = s /\ p.ctl = c /\ p.cur = u /\ p.busy = b /\ p.err = e
           /\ p.know = k
      /\ "halting" \in Mode /\ s \in Number /\ c \in Number /\ u \in Number /\ b \in BOOLEAN
           /\ e \in SUBSET Nat /\ k \in SUBSET Fact
  BY DEF C, Ctl
<1>2. m2 \in Mode
  BY <1>1 DEF Mode
<1> HIDE DEF m2
<1>3. q \in Ctl
  BY <1>1, <1>2, Fields DEF m2
<1> HIDE DEF p
<1>4. q = [p EXCEPT !.mode = m2]
  <2>1. [p EXCEPT !.mode = m2] = C(m2, p.sel, p.ctl, p.cur, p.busy, p.err, p.know)
    BY <1>1, <1>2, ChangeMode
  <2> QED BY <1>1, <2>1 DEF m2
<1> HIDE DEF q
<1>5. Leads(p, st, q)
  BY <1>1, <1>4 DEF m2, Leads, Awaits, StepOf
<1>6. Plan(p, <<st>>, q)
  BY <1>1, <1>3, <1>5, PlanStep
<1> QED BY <1>6 DEF p, q, st, until

LEMMA PlanResumed ==
  ASSUME NEW s, NEW c, NEW u, NEW b, NEW e, NEW k, C("resuming", s, c, u, b, e, k) \in Ctl
  PROVE  Plan(C("resuming", s, c, u, b, e, k), until(Reg("DMSTATUS"), "resumeack"), C("run", s, c, u, b, e, k))
<1> DEFINE p == C("resuming", s, c, u, b, e, k)
           q == C("run", s, c, u, b, e, k)
           st == StepOf("until", Reg("DMSTATUS"), "resumeack")
           m2 == "run"
<1>1. /\ p \in Ctl /\ p.mode = "resuming" /\ p.sel = s /\ p.ctl = c /\ p.cur = u /\ p.busy = b /\ p.err = e
           /\ p.know = k
      /\ "resuming" \in Mode /\ s \in Number /\ c \in Number /\ u \in Number /\ b \in BOOLEAN
           /\ e \in SUBSET Nat /\ k \in SUBSET Fact
  BY DEF C, Ctl
<1>2. m2 \in Mode
  BY <1>1 DEF Mode
<1> HIDE DEF m2
<1>3. q \in Ctl
  BY <1>1, <1>2, Fields DEF m2
<1> HIDE DEF p
<1>4. q = [p EXCEPT !.mode = m2]
  <2>1. [p EXCEPT !.mode = m2] = C(m2, p.sel, p.ctl, p.cur, p.busy, p.err, p.know)
    BY <1>1, <1>2, ChangeMode
  <2> QED BY <1>1, <2>1 DEF m2
<1> HIDE DEF q
<1>5. Leads(p, st, q)
  BY <1>1, <1>4 DEF m2, Leads, Awaits, StepOf
<1>6. Plan(p, <<st>>, q)
  BY <1>1, <1>3, <1>5, PlanStep
<1> QED BY <1>6 DEF p, q, st, until

LEMMA PlanReadControl ==
  ASSUME NEW m, NEW s, NEW c, NEW u, NEW b, NEW e, NEW k, C(m, s, c, u, b, e, k) \in Ctl, "active" \in k,
         s # Unknown
  PROVE  Plan(C(m, s, c, u, b, e, k), read(Reg("DMCONTROL"), "dmcontrol"), C(m, s, s, u, b, e, k))
<1> DEFINE p == C(m, s, c, u, b, e, k)
           q == C(m, s, s, u, b, e, k)
           st == StepOf("read", Reg("DMCONTROL"), "dmcontrol")
           c2 == s
<1>1. /\ p \in Ctl /\ p.mode = m /\ p.sel = s /\ p.ctl = c /\ p.cur = u /\ p.busy = b /\ p.err = e /\ p.know = k
      /\ m \in Mode /\ s \in Number /\ c \in Number /\ u \in Number /\ b \in BOOLEAN /\ e \in SUBSET Nat
           /\ k \in SUBSET Fact
  BY DEF C, Ctl
<1>2. c2 \in Number
  BY <1>1
<1> HIDE DEF c2
<1>3. q \in Ctl
  BY <1>1, <1>2, Fields DEF c2
<1> HIDE DEF p
<1>4. q = [p EXCEPT !.ctl = c2]
  <2>1. [p EXCEPT !.ctl = c2] = C(p.mode, p.sel, c2, p.cur, p.busy, p.err, p.know)
    BY <1>1, <1>2, ChangeCtl
  <2> QED BY <1>1, <2>1 DEF c2
<1> HIDE DEF q
<1>5. Leads(p, st, q)
  BY <1>1, <1>4 DEF c2, Leads, Reads, StepOf
<1>6. Plan(p, <<st>>, q)
  BY <1>1, <1>3, <1>5, PlanStep
<1> QED BY <1>6 DEF p, q, st, read

LEMMA PlanNameWord ==
  ASSUME NEW s, NEW c, NEW u, NEW b, NEW e, NEW k, C("run", s, c, u, b, e, k) \in Ctl, c \in Nat
  PROVE  Plan(C("run", s, c, u, b, e, k), write_word(Reg("DMCONTROL"), "dmcontrol", 0),
         C("run", Clamp(c), c, u, b, e, (k \ {"probe"}) \cup {"active"}))
<1> DEFINE p == C("run", s, c, u, b, e, k)
           q == C("run", Clamp(c), c, u, b, e, (k \ {"probe"}) \cup {"active"})
           st == StepOf("write_word", Reg("DMCONTROL"), <<"dmcontrol", 0>>)
           s2 == Clamp(c)
           k2 == (k \ {"probe"}) \cup {"active"}
<1>1. /\ p \in Ctl /\ p.mode = "run" /\ p.sel = s /\ p.ctl = c /\ p.cur = u /\ p.busy = b /\ p.err = e
           /\ p.know = k
      /\ "run" \in Mode /\ s \in Number /\ c \in Number /\ u \in Number /\ b \in BOOLEAN /\ e \in SUBSET Nat
           /\ k \in SUBSET Fact
  BY DEF C, Ctl
<1>2. s2 \in Number /\ k2 \in SUBSET Fact
  BY <1>1, Clamped DEF Number, Fact
<1> HIDE DEF s2, k2
<1>3. q \in Ctl
  BY <1>1, <1>2, Fields DEF s2, k2
<1> HIDE DEF p
<1>4. q = [p EXCEPT !.sel = s2, !.know = k2]
  <2>1. [p EXCEPT !.sel = s2, !.know = k2] = C(p.mode, s2, p.ctl, p.cur, p.busy, p.err, k2)
    BY <1>1, <1>2, ChangeSelKnow
  <2> QED BY <1>1, <2>1 DEF s2, k2
<1> DEFINE v == [DMACTIVE EXCEPT !.hartsel = c]
<1>v. v \in Control /\ v.active /\ v.hartsel = c /\ ~ v.haltreq /\ ~ v.resumereq
  BY Clamped DEF DMACTIVE, Control
<1> HIDE DEF v
<1>w. Controls(p, v, q)
  BY <1>1, <1>4, <1>v DEF s2, k2, Controls
<1>x. Controls(p, [DMACTIVE EXCEPT !.hartsel = p.ctl], q)
  BY <1>1, <1>w DEF v
<1> HIDE DEF q
<1>5. Leads(p, st, q)
  BY <1>1, <1>4, <1>x DEF s2, k2, Leads, WritesWord, Controls, Unknown, StepOf
<1>6. Plan(p, <<st>>, q)
  BY <1>1, <1>3, <1>5, PlanStep
<1> QED BY <1>6 DEF p, q, st, write_word

LEMMA PlanReadStatus ==
  ASSUME NEW m, NEW s, NEW c, NEW u, NEW b, NEW e, NEW k, C(m, s, c, u, b, e, k) \in Ctl
  PROVE  Plan(C(m, s, c, u, b, e, k), read(Reg("DMSTATUS"), "dmstatus"), C(m, s, c, u, b, e, k \cup {"probe"}))
<1> DEFINE p == C(m, s, c, u, b, e, k)
           q == C(m, s, c, u, b, e, k \cup {"probe"})
           st == StepOf("read", Reg("DMSTATUS"), "dmstatus")
           k2 == k \cup {"probe"}
<1>1. /\ p \in Ctl /\ p.mode = m /\ p.sel = s /\ p.ctl = c /\ p.cur = u /\ p.busy = b /\ p.err = e /\ p.know = k
      /\ m \in Mode /\ s \in Number /\ c \in Number /\ u \in Number /\ b \in BOOLEAN /\ e \in SUBSET Nat
           /\ k \in SUBSET Fact
  BY DEF C, Ctl
<1>2. k2 \in SUBSET Fact
  BY <1>1 DEF Fact
<1> HIDE DEF k2
<1>3. q \in Ctl
  BY <1>1, <1>2, Fields DEF k2
<1> HIDE DEF p
<1>4. q = [p EXCEPT !.know = k2]
  <2>1. [p EXCEPT !.know = k2] = C(p.mode, p.sel, p.ctl, p.cur, p.busy, p.err, k2)
    BY <1>1, <1>2, ChangeKnow
  <2> QED BY <1>1, <2>1 DEF k2
<1> HIDE DEF q
<1>5. Leads(p, st, q)
  BY <1>1, <1>4 DEF k2, Leads, Reads, Add, StepOf
<1>6. Plan(p, <<st>>, q)
  BY <1>1, <1>3, <1>5, PlanStep
<1> QED BY <1>6 DEF p, q, st, read

LEMMA PlanReadAbstract ==
  ASSUME NEW m, NEW s, NEW c, NEW u, NEW b, NEW e, NEW k, C(m, s, c, u, b, e, k) \in Ctl
  PROVE  Plan(C(m, s, c, u, b, e, k), read(Reg("ABSTRACTCS"), "abstractcs"),
         C(m, s, c, u, b, e, k \ {"cmderr"}))
<1> DEFINE p == C(m, s, c, u, b, e, k)
           q == C(m, s, c, u, b, e, k \ {"cmderr"})
           st == StepOf("read", Reg("ABSTRACTCS"), "abstractcs")
           k2 == k \ {"cmderr"}
<1>1. /\ p \in Ctl /\ p.mode = m /\ p.sel = s /\ p.ctl = c /\ p.cur = u /\ p.busy = b /\ p.err = e /\ p.know = k
      /\ m \in Mode /\ s \in Number /\ c \in Number /\ u \in Number /\ b \in BOOLEAN /\ e \in SUBSET Nat
           /\ k \in SUBSET Fact
  BY DEF C, Ctl
<1>2. k2 \in SUBSET Fact
  BY <1>1 DEF Fact
<1> HIDE DEF k2
<1>3. q \in Ctl
  BY <1>1, <1>2, Fields DEF k2
<1> HIDE DEF p
<1>4. q = [p EXCEPT !.know = k2]
  <2>1. [p EXCEPT !.know = k2] = C(p.mode, p.sel, p.ctl, p.cur, p.busy, p.err, k2)
    BY <1>1, <1>2, ChangeKnow
  <2> QED BY <1>1, <2>1 DEF k2
<1> HIDE DEF q
<1>5. Leads(p, st, q)
  BY <1>1, <1>4 DEF k2, Leads, Reads, Forget, StepOf
<1>6. Plan(p, <<st>>, q)
  BY <1>1, <1>3, <1>5, PlanStep
<1> QED BY <1>6 DEF p, q, st, read

LEMMA PlanReadInfo ==
  ASSUME NEW m, NEW s, NEW c, NEW u, NEW b, NEW e, NEW k, C(m, s, c, u, b, e, k) \in Ctl
  PROVE  Plan(C(m, s, c, u, b, e, k), read(Reg("HARTINFO"), "hartinfo"), C(m, s, c, u, b, e, k \cup {"info"}))
<1> DEFINE p == C(m, s, c, u, b, e, k)
           q == C(m, s, c, u, b, e, k \cup {"info"})
           st == StepOf("read", Reg("HARTINFO"), "hartinfo")
           k2 == k \cup {"info"}
<1>1. /\ p \in Ctl /\ p.mode = m /\ p.sel = s /\ p.ctl = c /\ p.cur = u /\ p.busy = b /\ p.err = e /\ p.know = k
      /\ m \in Mode /\ s \in Number /\ c \in Number /\ u \in Number /\ b \in BOOLEAN /\ e \in SUBSET Nat
           /\ k \in SUBSET Fact
  BY DEF C, Ctl
<1>2. k2 \in SUBSET Fact
  BY <1>1 DEF Fact
<1> HIDE DEF k2
<1>3. q \in Ctl
  BY <1>1, <1>2, Fields DEF k2
<1> HIDE DEF p
<1>4. q = [p EXCEPT !.know = k2]
  <2>1. [p EXCEPT !.know = k2] = C(p.mode, p.sel, p.ctl, p.cur, p.busy, p.err, k2)
    BY <1>1, <1>2, ChangeKnow
  <2> QED BY <1>1, <2>1 DEF k2
<1> HIDE DEF q
<1>5. Leads(p, st, q)
  BY <1>1, <1>4 DEF k2, Leads, Reads, Add, StepOf
<1>6. Plan(p, <<st>>, q)
  BY <1>1, <1>3, <1>5, PlanStep
<1> QED BY <1>6 DEF p, q, st, read

LEMMA PlanActive ==
  ASSUME NEW m, NEW s, NEW c, NEW u, NEW b, NEW e, NEW k, C(m, s, c, u, b, e, k) \in Ctl
  PROVE  Plan(C(m, s, c, u, b, e, k), until(Reg("DMCONTROL"), "dmactive"), C(m, s, c, u, b, e, k))
<1> DEFINE p == C(m, s, c, u, b, e, k)
           q == C(m, s, c, u, b, e, k)
           st == StepOf("until", Reg("DMCONTROL"), "dmactive")
<1>1. /\ p \in Ctl /\ p.mode = m /\ p.sel = s /\ p.ctl = c /\ p.cur = u /\ p.busy = b /\ p.err = e /\ p.know = k
      /\ m \in Mode /\ s \in Number /\ c \in Number /\ u \in Number /\ b \in BOOLEAN /\ e \in SUBSET Nat
           /\ k \in SUBSET Fact
  BY DEF C, Ctl
<1>3. q \in Ctl
  BY <1>1
<1> HIDE DEF p
<1>4. q = p
  BY DEF p
<1> HIDE DEF q
<1>5. Leads(p, st, q)
  BY <1>1, <1>4 DEF Leads, Awaits, StepOf
<1>6. Plan(p, <<st>>, q)
  BY <1>1, <1>3, <1>5, PlanStep
<1> QED BY <1>6 DEF p, q, st, until

LEMMA PlanHartsel ==
  ASSUME NEW m, NEW s, NEW c, NEW u, NEW b, NEW e, NEW k, C(m, s, c, u, b, e, k) \in Ctl, NEW h \in Nat,
         c # Unknown
  PROVE  Plan(C(m, s, c, u, b, e, k), local("hartsel", h), C(m, s, h, u, b, e, k))
<1> DEFINE p == C(m, s, c, u, b, e, k)
           q == C(m, s, h, u, b, e, k)
           st == StepOf("hartsel", Reg("none"), h)
           c2 == h
<1>1. /\ p \in Ctl /\ p.mode = m /\ p.sel = s /\ p.ctl = c /\ p.cur = u /\ p.busy = b /\ p.err = e /\ p.know = k
      /\ m \in Mode /\ s \in Number /\ c \in Number /\ u \in Number /\ b \in BOOLEAN /\ e \in SUBSET Nat
           /\ k \in SUBSET Fact
  BY DEF C, Ctl
<1>2. c2 \in Number
  BY <1>1 DEF Number
<1> HIDE DEF c2
<1>3. q \in Ctl
  BY <1>1, <1>2, Fields DEF c2
<1> HIDE DEF p
<1>4. q = [p EXCEPT !.ctl = c2]
  <2>1. [p EXCEPT !.ctl = c2] = C(p.mode, p.sel, c2, p.cur, p.busy, p.err, p.know)
    BY <1>1, <1>2, ChangeCtl
  <2> QED BY <1>1, <2>1 DEF c2
<1> HIDE DEF q
<1>5. Leads(p, st, q)
  BY <1>1, <1>4 DEF c2, Leads, Computes, Reg, StepOf
<1>6. Plan(p, <<st>>, q)
  BY <1>1, <1>3, <1>5, PlanStep
<1> QED BY <1>6 DEF p, q, st, local

LEMMA PlanCurrent ==
  ASSUME NEW m, NEW s, NEW c, NEW u, NEW b, NEW e, NEW k, C(m, s, c, u, b, e, k) \in Ctl, NEW h \in Nat
  PROVE  Plan(C(m, s, c, u, b, e, k), local("current_hart", h), C(m, s, c, h, b, e, k))
<1> DEFINE p == C(m, s, c, u, b, e, k)
           q == C(m, s, c, h, b, e, k)
           st == StepOf("current_hart", Reg("none"), h)
           u2 == h
<1>1. /\ p \in Ctl /\ p.mode = m /\ p.sel = s /\ p.ctl = c /\ p.cur = u /\ p.busy = b /\ p.err = e /\ p.know = k
      /\ m \in Mode /\ s \in Number /\ c \in Number /\ u \in Number /\ b \in BOOLEAN /\ e \in SUBSET Nat
           /\ k \in SUBSET Fact
  BY DEF C, Ctl
<1>2. u2 \in Number
  BY <1>1 DEF Number
<1> HIDE DEF u2
<1>3. q \in Ctl
  BY <1>1, <1>2, Fields DEF u2
<1> HIDE DEF p
<1>4. q = [p EXCEPT !.cur = u2]
  <2>1. [p EXCEPT !.cur = u2] = C(p.mode, p.sel, p.ctl, u2, p.busy, p.err, p.know)
    BY <1>1, <1>2, ChangeCur
  <2> QED BY <1>1, <2>1 DEF u2
<1> HIDE DEF q
<1>5. Leads(p, st, q)
  BY <1>1, <1>4 DEF u2, Leads, Computes, Reg, StepOf
<1>6. Plan(p, <<st>>, q)
  BY <1>1, <1>3, <1>5, PlanStep
<1> QED BY <1>6 DEF p, q, st, local

LEMMA PlanData ==
  ASSUME NEW m, NEW s, NEW c, NEW u, NEW b, NEW e, NEW k, C(m, s, c, u, b, e, k) \in Ctl, NEW x \in Val
  PROVE  Plan(C(m, s, c, u, b, e, k), local("data", x), C(m, s, c, u, b, e, k))
<1> DEFINE p == C(m, s, c, u, b, e, k)
           q == C(m, s, c, u, b, e, k)
           st == StepOf("data", Reg("none"), x)
<1>1. /\ p \in Ctl /\ p.mode = m /\ p.sel = s /\ p.ctl = c /\ p.cur = u /\ p.busy = b /\ p.err = e /\ p.know = k
      /\ m \in Mode /\ s \in Number /\ c \in Number /\ u \in Number /\ b \in BOOLEAN /\ e \in SUBSET Nat
           /\ k \in SUBSET Fact
  BY DEF C, Ctl
<1>3. q \in Ctl
  BY <1>1
<1> HIDE DEF p
<1>4. q = p
  BY DEF p
<1> HIDE DEF q
<1>5. Leads(p, st, q)
  BY <1>1, <1>4 DEF Leads, Computes, Reg, StepOf
<1>6. Plan(p, <<st>>, q)
  BY <1>1, <1>3, <1>5, PlanStep
<1> QED BY <1>6 DEF p, q, st, local

LEMMA PlanKeep ==
  ASSUME NEW m, NEW s, NEW c, NEW u, NEW b, NEW e, NEW k, C(m, s, c, u, b, e, k) \in Ctl, NEW x \in {"s0", "s1"}
  PROVE  Plan(C(m, s, c, u, b, e, k), local("keep", x), C(m, s, c, u, b, e, k))
<1> DEFINE p == C(m, s, c, u, b, e, k)
           q == C(m, s, c, u, b, e, k)
           st == StepOf("keep", Reg("none"), x)
<1>1. /\ p \in Ctl /\ p.mode = m /\ p.sel = s /\ p.ctl = c /\ p.cur = u /\ p.busy = b /\ p.err = e /\ p.know = k
      /\ m \in Mode /\ s \in Number /\ c \in Number /\ u \in Number /\ b \in BOOLEAN /\ e \in SUBSET Nat
           /\ k \in SUBSET Fact
  BY DEF C, Ctl
<1>3. q \in Ctl
  BY <1>1
<1> HIDE DEF p
<1>4. q = p
  BY DEF p
<1> HIDE DEF q
<1>5. Leads(p, st, q)
  BY <1>1, <1>4 DEF Leads, Computes, Reg, StepOf
<1>6. Plan(p, <<st>>, q)
  BY <1>1, <1>3, <1>5, PlanStep
<1> QED BY <1>6 DEF p, q, st, local

LEMMA PlanRecall ==
  ASSUME NEW m, NEW s, NEW c, NEW u, NEW e, NEW k, C(m, s, c, u, FALSE, e, k) \in Ctl, "auto" \notin k,
         NEW x \in {"s0", "s1"}
  PROVE  Plan(C(m, s, c, u, FALSE, e, k), local("recall", x), C(m, s, c, u, FALSE, e, k))
<1> DEFINE p == C(m, s, c, u, FALSE, e, k)
           q == C(m, s, c, u, FALSE, e, k)
           st == StepOf("recall", Reg("none"), x)
<1>1. /\ p \in Ctl /\ p.mode = m /\ p.sel = s /\ p.ctl = c /\ p.cur = u /\ p.busy = FALSE /\ p.err = e
           /\ p.know = k
      /\ m \in Mode /\ s \in Number /\ c \in Number /\ u \in Number /\ e \in SUBSET Nat
           /\ k \in SUBSET Fact
  BY DEF C, Ctl
<1>3. q \in Ctl
  BY <1>1
<1> HIDE DEF p
<1>4. q = p
  BY DEF p
<1> HIDE DEF q
<1>5. Leads(p, st, q)
  BY <1>1, <1>4 DEF Leads, Computes, Reg, StepOf
<1>6. Plan(p, <<st>>, q)
  BY <1>1, <1>3, <1>5, PlanStep
<1> QED BY <1>6 DEF p, q, st, local

LEMMA PlanCopied ==
  ASSUME NEW m, NEW s, NEW c, NEW u, NEW b, NEW e, NEW k, C(m, s, c, u, b, e, k) \in Ctl, NEW x
  PROVE  Plan(C(m, s, c, u, b, e, k), local("memcpy", x), C(m, s, c, u, b, e, k))
<1> DEFINE p == C(m, s, c, u, b, e, k)
           q == C(m, s, c, u, b, e, k)
           st == StepOf("memcpy", Reg("none"), x)
<1>1. /\ p \in Ctl /\ p.mode = m /\ p.sel = s /\ p.ctl = c /\ p.cur = u /\ p.busy = b /\ p.err = e /\ p.know = k
      /\ m \in Mode /\ s \in Number /\ c \in Number /\ u \in Number /\ b \in BOOLEAN /\ e \in SUBSET Nat
           /\ k \in SUBSET Fact
  BY DEF C, Ctl
<1>3. q \in Ctl
  BY <1>1
<1> HIDE DEF p
<1>4. q = p
  BY DEF p
<1> HIDE DEF q
<1>5. Leads(p, st, q)
  BY <1>1, <1>4 DEF Leads, Computes, Reg, StepOf
<1>6. Plan(p, <<st>>, q)
  BY <1>1, <1>3, <1>5, PlanStep
<1> QED BY <1>6 DEF p, q, st, local

LEMMA PlanBase ==
  ASSUME NEW m, NEW s, NEW c, NEW u, NEW b, NEW e, NEW k, C(m, s, c, u, b, e, k) \in Ctl, "info" \in k
  PROVE  Plan(C(m, s, c, u, b, e, k), local("data_base", 0), C(m, s, c, u, b, e, k \cup {"base"}))
<1> DEFINE p == C(m, s, c, u, b, e, k)
           q == C(m, s, c, u, b, e, k \cup {"base"})
           st == StepOf("data_base", Reg("none"), 0)
           k2 == k \cup {"base"}
<1>1. /\ p \in Ctl /\ p.mode = m /\ p.sel = s /\ p.ctl = c /\ p.cur = u /\ p.busy = b /\ p.err = e /\ p.know = k
      /\ m \in Mode /\ s \in Number /\ c \in Number /\ u \in Number /\ b \in BOOLEAN /\ e \in SUBSET Nat
           /\ k \in SUBSET Fact
  BY DEF C, Ctl
<1>2. k2 \in SUBSET Fact
  BY <1>1 DEF Fact
<1> HIDE DEF k2
<1>3. q \in Ctl
  BY <1>1, <1>2, Fields DEF k2
<1> HIDE DEF p
<1>4. q = [p EXCEPT !.know = k2]
  <2>1. [p EXCEPT !.know = k2] = C(p.mode, p.sel, p.ctl, p.cur, p.busy, p.err, k2)
    BY <1>1, <1>2, ChangeKnow
  <2> QED BY <1>1, <2>1 DEF k2
<1> HIDE DEF q
<1>5. Leads(p, st, q)
  BY <1>1, <1>4 DEF k2, Leads, Computes, Reg, Add, StepOf
<1>6. Plan(p, <<st>>, q)
  BY <1>1, <1>3, <1>5, PlanStep
<1> QED BY <1>6 DEF p, q, st, local

LEMMA PlanMax ==
  ASSUME NEW m, NEW s, NEW c, NEW u, NEW b, NEW e, NEW k, C(m, s, c, u, b, e, k) \in Ctl, c = HartselMax
  PROVE  Plan(C(m, s, c, u, b, e, k), local("max_hart", 0), C(m, s, c, u, b, e, k \cup {"max"}))
<1> DEFINE p == C(m, s, c, u, b, e, k)
           q == C(m, s, c, u, b, e, k \cup {"max"})
           st == StepOf("max_hart", Reg("none"), 0)
           k2 == k \cup {"max"}
<1>1. /\ p \in Ctl /\ p.mode = m /\ p.sel = s /\ p.ctl = c /\ p.cur = u /\ p.busy = b /\ p.err = e /\ p.know = k
      /\ m \in Mode /\ s \in Number /\ c \in Number /\ u \in Number /\ b \in BOOLEAN /\ e \in SUBSET Nat
           /\ k \in SUBSET Fact
  BY DEF C, Ctl
<1>2. k2 \in SUBSET Fact
  BY <1>1 DEF Fact
<1> HIDE DEF k2
<1>3. q \in Ctl
  BY <1>1, <1>2, Fields DEF k2
<1> HIDE DEF p
<1>4. q = [p EXCEPT !.know = k2]
  <2>1. [p EXCEPT !.know = k2] = C(p.mode, p.sel, p.ctl, p.cur, p.busy, p.err, k2)
    BY <1>1, <1>2, ChangeKnow
  <2> QED BY <1>1, <2>1 DEF k2
<1> HIDE DEF q
<1>5. Leads(p, st, q)
  BY <1>1, <1>4 DEF k2, Leads, Computes, Reg, Add, StepOf
<1>6. Plan(p, <<st>>, q)
  BY <1>1, <1>3, <1>5, PlanStep
<1> QED BY <1>6 DEF p, q, st, local

LEMMA PlanRunning ==
  ASSUME NEW m, NEW s, NEW c, NEW u, NEW b, NEW e, NEW k, C(m, s, c, u, b, e, k) \in Ctl, e = {0}
  PROVE  Plan(C(m, s, c, u, b, e, k), local("running", 0), C(m, s, c, u, b, e, k \cup {"running"}))
<1> DEFINE p == C(m, s, c, u, b, e, k)
           q == C(m, s, c, u, b, e, k \cup {"running"})
           st == StepOf("running", Reg("none"), 0)
           k2 == k \cup {"running"}
<1>1. /\ p \in Ctl /\ p.mode = m /\ p.sel = s /\ p.ctl = c /\ p.cur = u /\ p.busy = b /\ p.err = e /\ p.know = k
      /\ m \in Mode /\ s \in Number /\ c \in Number /\ u \in Number /\ b \in BOOLEAN /\ e \in SUBSET Nat
           /\ k \in SUBSET Fact
  BY DEF C, Ctl
<1>2. k2 \in SUBSET Fact
  BY <1>1 DEF Fact
<1> HIDE DEF k2
<1>3. q \in Ctl
  BY <1>1, <1>2, Fields DEF k2
<1> HIDE DEF p
<1>4. q = [p EXCEPT !.know = k2]
  <2>1. [p EXCEPT !.know = k2] = C(p.mode, p.sel, p.ctl, p.cur, p.busy, p.err, k2)
    BY <1>1, <1>2, ChangeKnow
  <2> QED BY <1>1, <2>1 DEF k2
<1> HIDE DEF q
<1>5. Leads(p, st, q)
  BY <1>1, <1>4 DEF k2, Leads, Computes, Reg, Add, StepOf
<1>6. Plan(p, <<st>>, q)
  BY <1>1, <1>3, <1>5, PlanStep
<1> QED BY <1>6 DEF p, q, st, local

LEMMA PlanCommand ==
  ASSUME NEW s, NEW c, NEW u, NEW k, C("halted", s, c, u, FALSE, {0}, k) \in Ctl, NEW x \in Command,
         x.transfer, x.size = XLEN
  PROVE  Plan(C("halted", s, c, u, FALSE, {0}, k), write(Reg("COMMAND"), x),
         C("halted", s, c, u, TRUE, IF x.postexec THEN {0, EXCEPTION} ELSE {0},
           (k \ {"cmderr"}) \cup {"command"}))
<1> DEFINE p == C("halted", s, c, u, FALSE, {0}, k)
           q == C("halted", s, c, u, TRUE, IF x.postexec THEN {0, EXCEPTION} ELSE {0},
             (k \ {"cmderr"}) \cup {"command"})
           st == StepOf("write", Reg("COMMAND"), x)
           b2 == TRUE
           e2 == IF x.postexec THEN {0, EXCEPTION} ELSE {0}
           k2 == (k \ {"cmderr"}) \cup {"command"}
<1>1. /\ p \in Ctl /\ p.mode = "halted" /\ p.sel = s /\ p.ctl = c /\ p.cur = u /\ p.busy = FALSE /\ p.err = {0}
           /\ p.know = k
      /\ "halted" \in Mode /\ s \in Number /\ c \in Number /\ u \in Number /\ FALSE \in BOOLEAN
           /\ {0} \in SUBSET Nat /\ k \in SUBSET Fact
  BY DEF C, Ctl
<1>2. b2 \in BOOLEAN /\ e2 \in SUBSET Nat /\ k2 \in SUBSET Fact
  BY <1>1 DEF Fact, EXCEPTION
<1> HIDE DEF b2, e2, k2
<1>3. q \in Ctl
  <2>1. C("halted", s, c, u, b2, e2, k2) \in Ctl
    BY <1>1, <1>2 DEF C, Ctl
  <2> QED BY <2>1 DEF b2, e2, k2
<1> HIDE DEF p
<1>4. q = [p EXCEPT !.busy = b2, !.err = e2, !.know = k2]
  <2> DEFINE r == [p EXCEPT !.busy = b2, !.err = e2, !.know = k2]
  <2>0. r \in Ctl /\ r.mode = p.mode /\ r.sel = p.sel /\ r.ctl = p.ctl /\ r.cur = p.cur /\ r.busy = b2
        /\ r.err = e2 /\ r.know = k2
    BY <1>1, <1>2 DEF Ctl
  <2> HIDE DEF r
  <2>2. r = C(p.mode, p.sel, p.ctl, p.cur, b2, e2, k2)
    BY <2>0, Rebuilt
  <2>1. [p EXCEPT !.busy = b2, !.err = e2, !.know = k2] = C(p.mode, p.sel, p.ctl, p.cur, b2, e2, k2)
    BY <2>2 DEF r
  <2> QED BY <1>1, <2>1 DEF b2, e2, k2
<1> HIDE DEF q
<1>5. Leads(p, st, q)
  BY <1>1, <1>4 DEF b2, e2, k2, Leads, Writes, Commands, StepOf
<1>6. Plan(p, <<st>>, q)
  BY <1>1, <1>3, <1>5, PlanStep
<1> QED BY <1>6 DEF p, q, st, write

LEMMA PlanUnsupported ==
  ASSUME NEW s, NEW c, NEW u, NEW k, C("halted", s, c, u, FALSE, {0}, k) \in Ctl, NEW x \in Command,
         x.transfer, x.size # XLEN, "running" \notin k
  PROVE  Plan(C("halted", s, c, u, FALSE, {0}, k), write(Reg("COMMAND"), x),
         C("halted", s, c, u, FALSE, {NOT_SUPPORTED}, k \ {"cmderr"}))
<1> DEFINE p == C("halted", s, c, u, FALSE, {0}, k)
           q == C("halted", s, c, u, FALSE, {NOT_SUPPORTED}, k \ {"cmderr"})
           st == StepOf("write", Reg("COMMAND"), x)
           e2 == {NOT_SUPPORTED}
           k2 == k \ {"cmderr"}
<1>1. /\ p \in Ctl /\ p.mode = "halted" /\ p.sel = s /\ p.ctl = c /\ p.cur = u /\ p.busy = FALSE /\ p.err = {0}
           /\ p.know = k
      /\ "halted" \in Mode /\ s \in Number /\ c \in Number /\ u \in Number /\ FALSE \in BOOLEAN
           /\ {0} \in SUBSET Nat /\ k \in SUBSET Fact
  BY DEF C, Ctl
<1>2. e2 \in SUBSET Nat /\ k2 \in SUBSET Fact
  BY <1>1 DEF Fact, NOT_SUPPORTED
<1> HIDE DEF e2, k2
<1>3. q \in Ctl
  <2>1. C("halted", s, c, u, FALSE, e2, k2) \in Ctl
    BY <1>1, <1>2 DEF C, Ctl
  <2> QED BY <2>1 DEF e2, k2
<1> HIDE DEF p
<1>4. q = [p EXCEPT !.err = e2, !.know = k2]
  <2> DEFINE r == [p EXCEPT !.err = e2, !.know = k2]
  <2>0. r \in Ctl /\ r.mode = p.mode /\ r.sel = p.sel /\ r.ctl = p.ctl /\ r.cur = p.cur /\ r.busy = p.busy
        /\ r.err = e2 /\ r.know = k2
    BY <1>1, <1>2 DEF Ctl
  <2> HIDE DEF r
  <2>2. r = C(p.mode, p.sel, p.ctl, p.cur, p.busy, e2, k2)
    BY <2>0, Rebuilt
  <2>1. [p EXCEPT !.err = e2, !.know = k2] = C(p.mode, p.sel, p.ctl, p.cur, p.busy, e2, k2)
    BY <2>2 DEF r
  <2> QED BY <1>1, <2>1 DEF e2, k2
<1> HIDE DEF q
<1>5. Leads(p, st, q)
  BY <1>1, <1>4 DEF e2, k2, Leads, Writes, Commands, StepOf
<1>6. Plan(p, <<st>>, q)
  BY <1>1, <1>3, <1>5, PlanStep
<1> QED BY <1>6 DEF p, q, st, write

LEMMA PlanIdle ==
  ASSUME NEW m, NEW s, NEW c, NEW u, NEW b, NEW e, NEW k, C(m, s, c, u, b, e, k) \in Ctl
  PROVE  Plan(C(m, s, c, u, b, e, k), until(Reg("ABSTRACTCS"), "idle"),
         C(m, s, c, u, FALSE, e, k \cup {"cmderr"}))
<1> DEFINE p == C(m, s, c, u, b, e, k)
           q == C(m, s, c, u, FALSE, e, k \cup {"cmderr"})
           st == StepOf("until", Reg("ABSTRACTCS"), "idle")
           k2 == k \cup {"cmderr"}
           b2 == FALSE
<1>1. /\ p \in Ctl /\ p.mode = m /\ p.sel = s /\ p.ctl = c /\ p.cur = u /\ p.busy = b /\ p.err = e /\ p.know = k
      /\ m \in Mode /\ s \in Number /\ c \in Number /\ u \in Number /\ b \in BOOLEAN /\ e \in SUBSET Nat
           /\ k \in SUBSET Fact
  BY DEF C, Ctl
<1>2. k2 \in SUBSET Fact /\ b2 \in BOOLEAN
  BY <1>1 DEF Fact
<1> HIDE DEF k2, b2
<1>3. q \in Ctl
  <2>1. C(m, s, c, u, b2, e, k2) \in Ctl
    BY <1>1, <1>2 DEF C, Ctl
  <2> QED BY <2>1 DEF k2, b2
<1> HIDE DEF p
<1>4. q = [[p EXCEPT !.know = k2] EXCEPT !.busy = b2]
  <2> DEFINE r == [[p EXCEPT !.know = k2] EXCEPT !.busy = b2]
  <2>0. r \in Ctl /\ r.mode = p.mode /\ r.sel = p.sel /\ r.ctl = p.ctl /\ r.cur = p.cur /\ r.busy = b2
        /\ r.err = p.err /\ r.know = k2
    BY <1>1, <1>2 DEF Ctl
  <2> HIDE DEF r
  <2>2. r = C(p.mode, p.sel, p.ctl, p.cur, b2, p.err, k2)
    BY <2>0, Rebuilt
  <2>1. [[p EXCEPT !.know = k2] EXCEPT !.busy = b2] = C(p.mode, p.sel, p.ctl, p.cur, b2, p.err, k2)
    BY <2>2 DEF r
  <2> QED BY <1>1, <2>1 DEF k2, b2
<1> HIDE DEF q
<1>5. Leads(p, st, q)
  BY <1>1, <1>4 DEF k2, b2, Leads, Awaits, Add, StepOf
<1>6. Plan(p, <<st>>, q)
  BY <1>1, <1>3, <1>5, PlanStep
<1> QED BY <1>6 DEF p, q, st, until

LEMMA PlanCheck ==
  ASSUME NEW m, NEW s, NEW c, NEW u, NEW e, NEW k, C(m, s, c, u, FALSE, e, k) \in Ctl, "cmderr" \in k
  PROVE  Plan(C(m, s, c, u, FALSE, e, k), local("check", 0), C(m, s, c, u, FALSE, {0}, k \ {"cmderr"}))
<1> DEFINE p == C(m, s, c, u, FALSE, e, k)
           q == C(m, s, c, u, FALSE, {0}, k \ {"cmderr"})
           st == StepOf("check", Reg("none"), 0)
           k2 == k \ {"cmderr"}
           e2 == {0}
<1>1. /\ p \in Ctl /\ p.mode = m /\ p.sel = s /\ p.ctl = c /\ p.cur = u /\ p.busy = FALSE /\ p.err = e
           /\ p.know = k
      /\ m \in Mode /\ s \in Number /\ c \in Number /\ u \in Number /\ FALSE \in BOOLEAN /\ e \in SUBSET Nat
           /\ k \in SUBSET Fact
  BY DEF C, Ctl
<1>2. k2 \in SUBSET Fact /\ e2 \in SUBSET Nat
  BY <1>1 DEF Fact
<1> HIDE DEF k2, e2
<1>3. q \in Ctl
  <2>1. C(m, s, c, u, FALSE, e2, k2) \in Ctl
    BY <1>1, <1>2 DEF C, Ctl
  <2> QED BY <2>1 DEF k2, e2
<1> HIDE DEF p
<1>4. q = [[p EXCEPT !.know = k2] EXCEPT !.err = e2]
  <2>1. [[p EXCEPT !.know = k2] EXCEPT !.err = e2] = C(p.mode, p.sel, p.ctl, p.cur, p.busy, e2, k2)
    BY <1>1, <1>2, ChangeKnowErrInTurn
  <2> QED BY <1>1, <2>1 DEF k2, e2
<1> HIDE DEF q
<1>5. Leads(p, st, q)
  BY <1>1, <1>4 DEF k2, e2, Leads, Computes, Reg, Forget, StepOf
<1>6. Plan(p, <<st>>, q)
  BY <1>1, <1>3, <1>5, PlanStep
<1> QED BY <1>6 DEF p, q, st, local

LEMMA PlanClear ==
  ASSUME NEW m, NEW s, NEW c, NEW u, NEW e, NEW k, C(m, s, c, u, FALSE, e, k) \in Ctl
  PROVE  Plan(C(m, s, c, u, FALSE, e, k), write(Reg("ABSTRACTCS"), "clear"),
         C(m, s, c, u, FALSE, {0}, k \ {"cmderr"}))
<1> DEFINE p == C(m, s, c, u, FALSE, e, k)
           q == C(m, s, c, u, FALSE, {0}, k \ {"cmderr"})
           st == StepOf("write", Reg("ABSTRACTCS"), "clear")
           k2 == k \ {"cmderr"}
           e2 == {0}
<1>1. /\ p \in Ctl /\ p.mode = m /\ p.sel = s /\ p.ctl = c /\ p.cur = u /\ p.busy = FALSE /\ p.err = e
           /\ p.know = k
      /\ m \in Mode /\ s \in Number /\ c \in Number /\ u \in Number /\ FALSE \in BOOLEAN /\ e \in SUBSET Nat
           /\ k \in SUBSET Fact
  BY DEF C, Ctl
<1>2. k2 \in SUBSET Fact /\ e2 \in SUBSET Nat
  BY <1>1 DEF Fact
<1> HIDE DEF k2, e2
<1>3. q \in Ctl
  <2>1. C(m, s, c, u, FALSE, e2, k2) \in Ctl
    BY <1>1, <1>2 DEF C, Ctl
  <2> QED BY <2>1 DEF k2, e2
<1> HIDE DEF p
<1>4. q = [[p EXCEPT !.know = k2] EXCEPT !.err = e2]
  <2>1. [[p EXCEPT !.know = k2] EXCEPT !.err = e2] = C(p.mode, p.sel, p.ctl, p.cur, p.busy, e2, k2)
    BY <1>1, <1>2, ChangeKnowErrInTurn
  <2> QED BY <1>1, <2>1 DEF k2, e2
<1> HIDE DEF q
<1>5. Leads(p, st, q)
  BY <1>1, <1>4 DEF k2, e2, Leads, Writes, Forget, StepOf
<1>6. Plan(p, <<st>>, q)
  BY <1>1, <1>3, <1>5, PlanStep
<1> QED BY <1>6 DEF p, q, st, write

LEMMA PlanAutoOn ==
  ASSUME NEW m, NEW s, NEW c, NEW u, NEW b, NEW e, NEW k, C(m, s, c, u, b, e, k) \in Ctl
  PROVE  Plan(C(m, s, c, u, b, e, k), AutoOn, C(m, s, c, u, b, e, k \cup {"auto"}))
<1> DEFINE p == C(m, s, c, u, b, e, k)
           q == C(m, s, c, u, b, e, k \cup {"auto"})
           st == StepOf("write", Reg("ABSTRACTAUTO"), 1)
           k2 == k \cup {"auto"}
<1>1. /\ p \in Ctl /\ p.mode = m /\ p.sel = s /\ p.ctl = c /\ p.cur = u /\ p.busy = b /\ p.err = e /\ p.know = k
      /\ m \in Mode /\ s \in Number /\ c \in Number /\ u \in Number /\ b \in BOOLEAN /\ e \in SUBSET Nat
           /\ k \in SUBSET Fact
  BY DEF C, Ctl
<1>2. k2 \in SUBSET Fact
  BY <1>1 DEF Fact
<1> HIDE DEF k2
<1>3. q \in Ctl
  BY <1>1, <1>2, Fields DEF k2
<1> HIDE DEF p
<1>4. q = [p EXCEPT !.know = k2]
  <2>1. [p EXCEPT !.know = k2] = C(p.mode, p.sel, p.ctl, p.cur, p.busy, p.err, k2)
    BY <1>1, <1>2, ChangeKnow
  <2> QED BY <1>1, <2>1 DEF k2
<1> HIDE DEF q
<1>5. Leads(p, st, q)
  BY <1>1, <1>4 DEF k2, Leads, Writes, Add, StepOf
<1>6. Plan(p, <<st>>, q)
  BY <1>1, <1>3, <1>5, PlanStep
<1> QED BY <1>6 DEF p, q, st, AutoOn, write

LEMMA PlanAutoOff ==
  ASSUME NEW m, NEW s, NEW c, NEW u, NEW b, NEW e, NEW k, C(m, s, c, u, b, e, k) \in Ctl
  PROVE  Plan(C(m, s, c, u, b, e, k), AutoOff, C(m, s, c, u, b, e, k \ {"auto"}))
<1> DEFINE p == C(m, s, c, u, b, e, k)
           q == C(m, s, c, u, b, e, k \ {"auto"})
           st == StepOf("write", Reg("ABSTRACTAUTO"), 0)
           k2 == k \ {"auto"}
<1>1. /\ p \in Ctl /\ p.mode = m /\ p.sel = s /\ p.ctl = c /\ p.cur = u /\ p.busy = b /\ p.err = e /\ p.know = k
      /\ m \in Mode /\ s \in Number /\ c \in Number /\ u \in Number /\ b \in BOOLEAN /\ e \in SUBSET Nat
           /\ k \in SUBSET Fact
  BY DEF C, Ctl
<1>2. k2 \in SUBSET Fact
  BY <1>1 DEF Fact
<1> HIDE DEF k2
<1>3. q \in Ctl
  BY <1>1, <1>2, Fields DEF k2
<1> HIDE DEF p
<1>4. q = [p EXCEPT !.know = k2]
  <2>1. [p EXCEPT !.know = k2] = C(p.mode, p.sel, p.ctl, p.cur, p.busy, p.err, k2)
    BY <1>1, <1>2, ChangeKnow
  <2> QED BY <1>1, <2>1 DEF k2
<1> HIDE DEF q
<1>5. Leads(p, st, q)
  BY <1>1, <1>4 DEF k2, Leads, Writes, Forget, StepOf
<1>6. Plan(p, <<st>>, q)
  BY <1>1, <1>3, <1>5, PlanStep
<1> QED BY <1>6 DEF p, q, st, AutoOff, write

LEMMA PlanAutoData ==
  ASSUME NEW s, NEW c, NEW u, NEW k, C("halted", s, c, u, FALSE, {0}, k) \in Ctl,
         {"auto", "command"} \subseteq k
  PROVE  Plan(C("halted", s, c, u, FALSE, {0}, k), write_word(<<"DATA", 0>>, "data", 1),
         C("halted", s, c, u, TRUE, {0, EXCEPTION}, k \ {"cmderr"}))
<1> DEFINE p == C("halted", s, c, u, FALSE, {0}, k)
           q == C("halted", s, c, u, TRUE, {0, EXCEPTION}, k \ {"cmderr"})
           st == StepOf("write_word", <<"DATA", 0>>, <<"data", 1>>)
           b2 == TRUE
           e2 == {0, EXCEPTION}
           k2 == k \ {"cmderr"}
<1>1. /\ p \in Ctl /\ p.mode = "halted" /\ p.sel = s /\ p.ctl = c /\ p.cur = u /\ p.busy = FALSE /\ p.err = {0}
           /\ p.know = k
      /\ "halted" \in Mode /\ s \in Number /\ c \in Number /\ u \in Number /\ FALSE \in BOOLEAN
           /\ {0} \in SUBSET Nat /\ k \in SUBSET Fact
  BY DEF C, Ctl
<1>2. b2 \in BOOLEAN /\ e2 \in SUBSET Nat /\ k2 \in SUBSET Fact
  BY <1>1 DEF Fact, EXCEPTION
<1> HIDE DEF b2, e2, k2
<1>3. q \in Ctl
  <2>1. C("halted", s, c, u, b2, e2, k2) \in Ctl
    BY <1>1, <1>2 DEF C, Ctl
  <2> QED BY <2>1 DEF b2, e2, k2
<1> HIDE DEF p
<1>4. q = [p EXCEPT !.busy = b2, !.err = e2, !.know = k2]
  <2> DEFINE r == [p EXCEPT !.busy = b2, !.err = e2, !.know = k2]
  <2>0. r \in Ctl /\ r.mode = p.mode /\ r.sel = p.sel /\ r.ctl = p.ctl /\ r.cur = p.cur /\ r.busy = b2
        /\ r.err = e2 /\ r.know = k2
    BY <1>1, <1>2 DEF Ctl
  <2> HIDE DEF r
  <2>2. r = C(p.mode, p.sel, p.ctl, p.cur, b2, e2, k2)
    BY <2>0, Rebuilt
  <2>1. [p EXCEPT !.busy = b2, !.err = e2, !.know = k2] = C(p.mode, p.sel, p.ctl, p.cur, b2, e2, k2)
    BY <2>2 DEF r
  <2> QED BY <1>1, <2>1 DEF b2, e2, k2
<1>w. 1 \in 1 .. Words /\ 1 - 1 = 0
  BY Sizes
<1> HIDE DEF q
<1>5. Leads(p, st, q)
  BY <1>1, <1>4, <1>w DEF b2, e2, k2, Leads, WritesWord, StepOf
<1>6. Plan(p, <<st>>, q)
  BY <1>1, <1>3, <1>5, PlanStep
<1> QED BY <1>6 DEF p, q, st, write_word

LEMMA PlanAutoHigh ==
  ASSUME NEW m, NEW s, NEW c, NEW u, NEW e, NEW k, C(m, s, c, u, FALSE, e, k) \in Ctl, Words = 2
  PROVE  Plan(C(m, s, c, u, FALSE, e, k), write_word(<<"DATA", 1>>, "data", 2), C(m, s, c, u, FALSE, e, k))
<1> DEFINE p == C(m, s, c, u, FALSE, e, k)
           q == C(m, s, c, u, FALSE, e, k)
           st == StepOf("write_word", <<"DATA", 1>>, <<"data", 2>>)
<1>1. /\ p \in Ctl /\ p.mode = m /\ p.sel = s /\ p.ctl = c /\ p.cur = u /\ p.busy = FALSE /\ p.err = e
           /\ p.know = k
      /\ m \in Mode /\ s \in Number /\ c \in Number /\ u \in Number /\ FALSE \in BOOLEAN /\ e \in SUBSET Nat
           /\ k \in SUBSET Fact
  BY DEF C, Ctl
<1>3. q \in Ctl
  BY <1>1
<1> HIDE DEF p
<1>4. q = p
  BY DEF p
<1>w. 2 \in 1 .. Words /\ 2 - 1 = 1 /\ p.busy = FALSE
  BY DEF p, C
<1> HIDE DEF q
<1>5. Leads(p, st, q)
  BY <1>1, <1>4, <1>w DEF Leads, WritesWord, StepOf
<1>6. Plan(p, <<st>>, q)
  BY <1>1, <1>3, <1>5, PlanStep
<1> QED BY <1>6 DEF p, q, st, write_word

LEMMA PlanEnumerate ==
  ASSUME NEW s, NEW c, NEW u, NEW b, NEW e, NEW k, C("run", s, c, u, b, e, k) \in Ctl, NEW h \in 0 .. NHarts,
         s # Unknown, {"active", "max"} \subseteq k
  PROVE  Plan(C("run", s, c, u, b, e, k), local("enumerate", h),
         C("run", Unknown, Unknown, Unknown, b, e, (k \ {"probe"}) \cup {"harts"}))
<1> DEFINE p == C("run", s, c, u, b, e, k)
           q == C("run", Unknown, Unknown, Unknown, b, e, (k \ {"probe"}) \cup {"harts"})
           st == StepOf("enumerate", Reg("none"), h)
           s2 == Unknown
           c2 == Unknown
           u2 == Unknown
           k2 == (k \ {"probe"}) \cup {"harts"}
<1>1. /\ p \in Ctl /\ p.mode = "run" /\ p.sel = s /\ p.ctl = c /\ p.cur = u /\ p.busy = b /\ p.err = e
           /\ p.know = k
      /\ "run" \in Mode /\ s \in Number /\ c \in Number /\ u \in Number /\ b \in BOOLEAN /\ e \in SUBSET Nat
           /\ k \in SUBSET Fact
  BY DEF C, Ctl
<1>2. s2 \in Number /\ c2 \in Number /\ u2 \in Number /\ k2 \in SUBSET Fact
  BY <1>1 DEF Fact, Number
<1> HIDE DEF s2, c2, u2, k2
<1>3. q \in Ctl
  BY <1>1, <1>2, Fields DEF s2, c2, u2, k2
<1> HIDE DEF p
<1>4. q = [p EXCEPT !.sel = s2, !.ctl = c2, !.cur = u2, !.know = k2]
  <2> DEFINE r == [p EXCEPT !.sel = s2, !.ctl = c2, !.cur = u2, !.know = k2]
  <2>0. r \in Ctl /\ r.mode = p.mode /\ r.sel = s2 /\ r.ctl = c2 /\ r.cur = u2 /\ r.busy = p.busy
        /\ r.err = p.err /\ r.know = k2
    BY <1>1, <1>2 DEF Ctl
  <2> HIDE DEF r
  <2>2. r = C(p.mode, s2, c2, u2, p.busy, p.err, k2)
    BY <2>0, Rebuilt
  <2>1. [p EXCEPT !.sel = s2, !.ctl = c2, !.cur = u2, !.know = k2] = C(p.mode, s2, c2, u2, p.busy, p.err, k2)
    BY <2>2 DEF r
  <2> QED BY <1>1, <2>1 DEF s2, c2, u2, k2
<1> HIDE DEF q
<1>5. Leads(p, st, q)
  BY <1>1, <1>4 DEF s2, c2, u2, k2, Leads, Computes, Reg, StepOf
<1>6. Plan(p, <<st>>, q)
  BY <1>1, <1>3, <1>5, PlanStep
<1> QED BY <1>6 DEF p, q, st, local

LEMMA PlanExists ==
  ASSUME NEW s, NEW c, NEW u, NEW b, NEW e, NEW k, C("run", s, c, u, b, e, k) \in Ctl, s \in 0 .. NHarts,
         {"active", "max", "probe"} \subseteq k
  PROVE  Plan(C("run", s, c, u, b, e, k), local("exists", s),
         C("run", Unknown, Unknown, Unknown, b, e, (k \ {"probe"}) \cup {"harts"}))
<1> DEFINE p == C("run", s, c, u, b, e, k)
           q == C("run", Unknown, Unknown, Unknown, b, e, (k \ {"probe"}) \cup {"harts"})
           st == StepOf("exists", Reg("none"), s)
           s2 == Unknown
           c2 == Unknown
           u2 == Unknown
           k2 == (k \ {"probe"}) \cup {"harts"}
<1>1. /\ p \in Ctl /\ p.mode = "run" /\ p.sel = s /\ p.ctl = c /\ p.cur = u /\ p.busy = b /\ p.err = e
           /\ p.know = k
      /\ "run" \in Mode /\ s \in Number /\ c \in Number /\ u \in Number /\ b \in BOOLEAN /\ e \in SUBSET Nat
           /\ k \in SUBSET Fact
  BY DEF C, Ctl
<1>2. s2 \in Number /\ c2 \in Number /\ u2 \in Number /\ k2 \in SUBSET Fact
  BY <1>1 DEF Fact, Number
<1> HIDE DEF s2, c2, u2, k2
<1>3. q \in Ctl
  BY <1>1, <1>2, Fields DEF s2, c2, u2, k2
<1> HIDE DEF p
<1>4. q = [p EXCEPT !.sel = s2, !.ctl = c2, !.cur = u2, !.know = k2]
  <2> DEFINE r == [p EXCEPT !.sel = s2, !.ctl = c2, !.cur = u2, !.know = k2]
  <2>0. r \in Ctl /\ r.mode = p.mode /\ r.sel = s2 /\ r.ctl = c2 /\ r.cur = u2 /\ r.busy = p.busy
        /\ r.err = p.err /\ r.know = k2
    BY <1>1, <1>2 DEF Ctl
  <2> HIDE DEF r
  <2>2. r = C(p.mode, s2, c2, u2, p.busy, p.err, k2)
    BY <2>0, Rebuilt
  <2>1. [p EXCEPT !.sel = s2, !.ctl = c2, !.cur = u2, !.know = k2] = C(p.mode, s2, c2, u2, p.busy, p.err, k2)
    BY <2>2 DEF r
  <2> QED BY <1>1, <2>1 DEF s2, c2, u2, k2
<1> HIDE DEF q
<1>5. Leads(p, st, q)
  BY <1>1, <1>4 DEF s2, c2, u2, k2, Leads, Computes, Reg, StepOf
<1>6. Plan(p, <<st>>, q)
  BY <1>1, <1>3, <1>5, PlanStep
<1> QED BY <1>6 DEF p, q, st, local

LEMMA PlanSize ==
  ASSUME NEW s, NEW c, NEW u, NEW e, NEW k, C("halted", s, c, u, FALSE, e, k) \in Ctl, NEW n \in Tried,
         "cmderr" \in k, "auto" \notin k, "running" \notin k, IF n = XLEN THEN e = {0}
           /\ "command" \in k ELSE e = {NOT_SUPPORTED}
  PROVE  Plan(C("halted", s, c, u, FALSE, e, k), local("size", n),
         C("halted", s, c, u, FALSE, {0}, (k \ {"cmderr"}) \cup {"xlen", "command"}))
<1> DEFINE p == C("halted", s, c, u, FALSE, e, k)
           q == C("halted", s, c, u, FALSE, {0}, (k \ {"cmderr"}) \cup {"xlen", "command"})
           st == StepOf("size", Reg("none"), n)
           e2 == {0}
           k2 == (k \ {"cmderr"}) \cup {"xlen", "command"}
<1>1. /\ p \in Ctl /\ p.mode = "halted" /\ p.sel = s /\ p.ctl = c /\ p.cur = u /\ p.busy = FALSE /\ p.err = e
           /\ p.know = k
      /\ "halted" \in Mode /\ s \in Number /\ c \in Number /\ u \in Number /\ FALSE \in BOOLEAN
           /\ e \in SUBSET Nat /\ k \in SUBSET Fact
  BY DEF C, Ctl
<1>2. e2 \in SUBSET Nat /\ k2 \in SUBSET Fact
  BY <1>1 DEF Fact
<1> HIDE DEF e2, k2
<1>3. q \in Ctl
  <2>1. C("halted", s, c, u, FALSE, e2, k2) \in Ctl
    BY <1>1, <1>2 DEF C, Ctl
  <2> QED BY <2>1 DEF e2, k2
<1> HIDE DEF p
<1>4. q = [p EXCEPT !.err = e2, !.know = k2]
  <2> DEFINE r == [p EXCEPT !.err = e2, !.know = k2]
  <2>0. r \in Ctl /\ r.mode = p.mode /\ r.sel = p.sel /\ r.ctl = p.ctl /\ r.cur = p.cur /\ r.busy = p.busy
        /\ r.err = e2 /\ r.know = k2
    BY <1>1, <1>2 DEF Ctl
  <2> HIDE DEF r
  <2>2. r = C(p.mode, p.sel, p.ctl, p.cur, p.busy, e2, k2)
    BY <2>0, Rebuilt
  <2>1. [p EXCEPT !.err = e2, !.know = k2] = C(p.mode, p.sel, p.ctl, p.cur, p.busy, e2, k2)
    BY <2>2 DEF r
  <2> QED BY <1>1, <2>1 DEF e2, k2
<1> HIDE DEF q
<1>5. Leads(p, st, q)
  BY <1>1, <1>4 DEF e2, k2, Leads, Computes, Reg, StepOf
<1>6. Plan(p, <<st>>, q)
  BY <1>1, <1>3, <1>5, PlanStep
<1> QED BY <1>6 DEF p, q, st, local

LEMMA PlanReadWords ==
  ASSUME NEW s, NEW c, NEW u, NEW k, C("halted", s, c, u, FALSE, {0}, k) \in Ctl, NEW i \in Nat, NEW n \in Nat,
         {"xlen", "command"} \subseteq k, "auto" \notin k
  PROVE  Plan(C("halted", s, c, u, FALSE, {0}, k), local("read_words", <<i, n>>),
         C("halted", s, c, u, FALSE, {0}, k \ {"cmderr"}))
<1> DEFINE p == C("halted", s, c, u, FALSE, {0}, k)
           q == C("halted", s, c, u, FALSE, {0}, k \ {"cmderr"})
           st == StepOf("read_words", Reg("none"), <<i, n>>)
           k2 == k \ {"cmderr"}
<1>1. /\ p \in Ctl /\ p.mode = "halted" /\ p.sel = s /\ p.ctl = c /\ p.cur = u /\ p.busy = FALSE /\ p.err = {0}
           /\ p.know = k
      /\ "halted" \in Mode /\ s \in Number /\ c \in Number /\ u \in Number /\ FALSE \in BOOLEAN
           /\ {0} \in SUBSET Nat /\ k \in SUBSET Fact
  BY DEF C, Ctl
<1>2. k2 \in SUBSET Fact
  BY <1>1 DEF Fact
<1> HIDE DEF k2
<1>3. q \in Ctl
  <2>1. C("halted", s, c, u, FALSE, {0}, k2) \in Ctl
    BY <1>1, <1>2 DEF C, Ctl
  <2> QED BY <2>1 DEF k2
<1> HIDE DEF p
<1>4. q = [p EXCEPT !.know = k2]
  <2>1. [p EXCEPT !.know = k2] = C(p.mode, p.sel, p.ctl, p.cur, p.busy, p.err, k2)
    BY <1>1, <1>2, ChangeKnow
  <2> QED BY <1>1, <2>1 DEF k2
<1> HIDE DEF q
<1>5. Leads(p, st, q)
  BY <1>1, <1>4 DEF k2, Leads, Computes, Reg, Forget, Halted, StepOf
<1>6. Plan(p, <<st>>, q)
  BY <1>1, <1>3, <1>5, PlanStep
<1> QED BY <1>6 DEF p, q, st, local

LEMMA PlanAutoWords ==
  ASSUME NEW s, NEW c, NEW u, NEW k, C("halted", s, c, u, FALSE, {0}, k) \in Ctl, NEW ws \in Seq(Val),
         {"xlen", "command"} \subseteq k, "auto" \in k
  PROVE  Plan(C("halted", s, c, u, FALSE, {0}, k), local("auto_words", ws),
         C("halted", s, c, u, FALSE, {0}, k \ {"cmderr"}))
<1> DEFINE p == C("halted", s, c, u, FALSE, {0}, k)
           q == C("halted", s, c, u, FALSE, {0}, k \ {"cmderr"})
           st == StepOf("auto_words", Reg("none"), ws)
           k2 == k \ {"cmderr"}
<1>1. /\ p \in Ctl /\ p.mode = "halted" /\ p.sel = s /\ p.ctl = c /\ p.cur = u /\ p.busy = FALSE /\ p.err = {0}
           /\ p.know = k
      /\ "halted" \in Mode /\ s \in Number /\ c \in Number /\ u \in Number /\ FALSE \in BOOLEAN
           /\ {0} \in SUBSET Nat /\ k \in SUBSET Fact
  BY DEF C, Ctl
<1>2. k2 \in SUBSET Fact
  BY <1>1 DEF Fact
<1> HIDE DEF k2
<1>3. q \in Ctl
  <2>1. C("halted", s, c, u, FALSE, {0}, k2) \in Ctl
    BY <1>1, <1>2 DEF C, Ctl
  <2> QED BY <2>1 DEF k2
<1> HIDE DEF p
<1>4. q = [p EXCEPT !.know = k2]
  <2>1. [p EXCEPT !.know = k2] = C(p.mode, p.sel, p.ctl, p.cur, p.busy, p.err, k2)
    BY <1>1, <1>2, ChangeKnow
  <2> QED BY <1>1, <2>1 DEF k2
<1> HIDE DEF q
<1>5. Leads(p, st, q)
  BY <1>1, <1>4 DEF k2, Leads, Computes, Reg, Forget, Halted, StepOf
<1>6. Plan(p, <<st>>, q)
  BY <1>1, <1>3, <1>5, PlanStep
<1> QED BY <1>6 DEF p, q, st, local

----------------------------------------------------------------------------
(* The plans of what the host calls.                                       *)

LEMMA PlanEnds == ASSUME NEW p, NEW q, NEW a, Plan(p, a, q) PROVE p \in Ctl /\ q \in Ctl
BY PlanFirst

LEMMA Whole == DMACTIVE = [DMACTIVE EXCEPT !.hartsel = 0] /\ Clamp(0) = 0 /\ 0 \in Nat /\ 0 \in Harts
<1> DEFINE d == [DMACTIVE EXCEPT !.hartsel = 0]
<1>1. /\ d \in Control /\ DMACTIVE \in Control /\ d.active = DMACTIVE.active /\ d.hartsel = DMACTIVE.hartsel
      /\ d.haltreq = DMACTIVE.haltreq /\ d.resumereq = DMACTIVE.resumereq
  BY DEF DMACTIVE, Control
<1> HIDE DEF d
<1>2. d = DMACTIVE
  BY <1>1, SameControl
<1> QED BY <1>2, Sizes, Clamped DEF d

LEMMA PlanNameNone ==
  ASSUME NEW s, NEW c, NEW u, NEW b, NEW e, NEW k, C("run", s, c, u, b, e, k) \in Ctl
  PROVE  Plan(C("run", s, c, u, b, e, k),
         write(Reg("DMCONTROL"), DMACTIVE) \o read(Reg("DMSTATUS"), "dmstatus"),
           C("run", 0, c, u, b, e, k \cup {"active", "probe"}))
<1> DEFINE p0 == C("run", s, c, u, b, e, k)
           p1 == C("run", 0, c, u, b, e, (k \ {"probe"}) \cup {"active"})
           a1 == write(Reg("DMCONTROL"), DMACTIVE)
           p2 == C("run", 0, c, u, b, e, ((k \ {"probe"}) \cup {"active"}) \cup {"probe"})
           a2 == read(Reg("DMSTATUS"), "dmstatus")
<1>0. p0 \in Ctl
  OBVIOUS
<1>1. Plan(p0, a1, p1) /\ p1 \in Ctl
  <2>1. Plan(p0, a1, p1)
    BY <1>0, PlanName, Whole
  <2> QED BY <2>1, PlanEnds
<1>2. Plan(p1, a2, p2) /\ p2 \in Ctl
  <2>1. Plan(p1, a2, p2)
    BY <1>1, PlanReadStatus
  <2> QED BY <2>1, PlanEnds
<1>3. p2 = C("run", 0, c, u, b, e, k \cup {"active", "probe"})
  OBVIOUS
<1> HIDE DEF p0, p1, p2, a1, a2
<1>4. Plan(p0, a1 \o a2, p2)
  <2>2. Plan(p0, a1 \o a2, p2)
    BY <1>1, <1>2, PlanJoin
  <2> QED BY <2>2
<1> QED BY <1>3, <1>4 DEF p0, a1, a2

LEMMA PlanHaltAfter ==
  ASSUME NEW s, NEW c, NEW u, NEW b, NEW e, NEW k, NEW h \in Harts, NEW p, NEW x,
         Plan(p, x, C("run", s, c, u, b, e, k))
  PROVE  Plan(p, x \o write(Reg("DMCONTROL"), [DMACTIVE EXCEPT !.haltreq = TRUE, !.hartsel = h])
            \o until(Reg("DMSTATUS"), "allhalted") \o write(Reg("DMCONTROL"), [DMACTIVE EXCEPT !.hartsel = h])
            \o read(Reg("DMSTATUS"), "dmstatus") \o local("current_hart", h),
              C("halted", h, c, h, b, e, k \cup {"active", "probe"}))
<1> DEFINE p0 == p
           p1 == C("run", s, c, u, b, e, k)
           a1 == x
           p2 == C("halting", h, c, u, b, e, (k \ {"probe"}) \cup {"active"})
           a2 == write(Reg("DMCONTROL"), [DMACTIVE EXCEPT !.haltreq = TRUE, !.hartsel = h])
           p3 == C("caught", h, c, u, b, e, (k \ {"probe"}) \cup {"active"})
           a3 == until(Reg("DMSTATUS"), "allhalted")
           p4 == C("halted", h, c, u, b, e, (k \ {"probe"}) \cup {"active"})
           a4 == write(Reg("DMCONTROL"), [DMACTIVE EXCEPT !.hartsel = h])
           p5 == C("halted", h, c, u, b, e, ((k \ {"probe"}) \cup {"active"}) \cup {"probe"})
           a5 == read(Reg("DMSTATUS"), "dmstatus")
           p6 == C("halted", h, c, h, b, e, ((k \ {"probe"}) \cup {"active"}) \cup {"probe"})
           a6 == local("current_hart", h)
<1>0. p0 \in Ctl
  BY PlanEnds
<1>1. Plan(p0, a1, p1) /\ p1 \in Ctl
  <2>1. Plan(p0, a1, p1)
    BY <1>0, PlanEnds
  <2> QED BY <2>1, PlanEnds
<1>2. Plan(p1, a2, p2) /\ p2 \in Ctl
  <2>1. Plan(p1, a2, p2)
    BY <1>1, PlanAskHalt
  <2> QED BY <2>1, PlanEnds
<1>3. Plan(p2, a3, p3) /\ p3 \in Ctl
  <2>1. Plan(p2, a3, p3)
    BY <1>2, PlanHalted
  <2> QED BY <2>1, PlanEnds
<1>4. Plan(p3, a4, p4) /\ p4 \in Ctl
  <2>1. Plan(p3, a4, p4)
    BY <1>3, PlanRelease
  <2> QED BY <2>1, PlanEnds
<1>5. Plan(p4, a5, p5) /\ p5 \in Ctl
  <2>1. Plan(p4, a5, p5)
    BY <1>4, PlanReadStatus
  <2> QED BY <2>1, PlanEnds
<1>6. Plan(p5, a6, p6) /\ p6 \in Ctl
  <2>1. Plan(p5, a6, p6)
    BY <1>5, Clamped, PlanCurrent
  <2> QED BY <2>1, PlanEnds
<1>7. p6 = C("halted", h, c, h, b, e, k \cup {"active", "probe"})
  OBVIOUS
<1> HIDE DEF p0, p1, p2, p3, p4, p5, p6, a1, a2, a3, a4, a5, a6
<1>8. Plan(p0, a1 \o a2 \o a3 \o a4 \o a5 \o a6, p6)
  <2>2. Plan(p0, a1 \o a2, p2)
    BY <1>1, <1>2, PlanJoin
  <2>3. Plan(p0, a1 \o a2 \o a3, p3)
    BY <2>2, <1>3, PlanJoin
  <2>4. Plan(p0, a1 \o a2 \o a3 \o a4, p4)
    BY <2>3, <1>4, PlanJoin
  <2>5. Plan(p0, a1 \o a2 \o a3 \o a4 \o a5, p5)
    BY <2>4, <1>5, PlanJoin
  <2>6. Plan(p0, a1 \o a2 \o a3 \o a4 \o a5 \o a6, p6)
    BY <2>5, <1>6, PlanJoin
  <2> QED BY <2>6
<1> QED BY <1>7, <1>8 DEF p0, a1, a2, a3, a4, a5, a6

LEMMA PlanHalt ==
  ASSUME NEW s, NEW c, NEW u, NEW b, NEW e, NEW k, C("run", s, c, u, b, e, k) \in Ctl, NEW h \in Harts
  PROVE  Plan(C("run", s, c, u, b, e, k), halt(h), C("halted", h, c, h, b, e, k \cup {"active", "probe"}))
<1> DEFINE p == C("run", s, c, u, b, e, k)
<1>1. CASE loc.running
  <2>1. Plan(p, write(Reg("DMCONTROL"), DMACTIVE) \o read(Reg("DMSTATUS"), "dmstatus"),
        C("run", 0, c, u, b, e, k \cup {"active", "probe"}))
    BY PlanNameNone
  <2>2. (k \cup {"active", "probe"}) \cup {"active", "probe"} = k \cup {"active", "probe"}
    OBVIOUS
  <2> HIDE DEF p
  <2> DEFINE k2 == k \cup {"active", "probe"}
  <2>3. Plan(p, write(Reg("DMCONTROL"), DMACTIVE) \o read(Reg("DMSTATUS"), "dmstatus"),
        C("run", 0, c, u, b, e, k2))
    BY <2>1
  <2>4. k2 \cup {"active", "probe"} = k2
    BY <2>2
  <2> HIDE DEF k2
  <2>5. Plan(p, halt(h), C("halted", h, c, h, b, e, k2 \cup {"active", "probe"}))
    BY <1>1, <2>3, PlanHaltAfter DEF halt
  <2> QED BY <2>4, <2>5 DEF p, k2
<1>2. CASE ~ loc.running
  <2>1. Plan(p, <<>>, C("run", s, c, u, b, e, k))
    BY PlanNone
  <2> HIDE DEF p
  <2>2. Plan(p, halt(h), C("halted", h, c, h, b, e, k \cup {"active", "probe"}))
    BY <1>2, <2>1, PlanHaltAfter DEF halt
  <2> QED BY <2>2 DEF p
<1> QED BY <1>1, <1>2

LEMMA PlanResume ==
  ASSUME NEW s, NEW c, NEW u, NEW b, NEW e, NEW k, s \in Harts, loc.running,
         C("halted", s, c, u, FALSE, e, k) \in Ctl
  PROVE  Plan(C("halted", s, c, u, FALSE, e, k), resume(s),
         C("run", 0, c, s, FALSE, e, k \cup {"active", "probe"}))
<1> DEFINE p0 == C("halted", s, c, u, FALSE, e, k)
           p1 == C("resuming", s, c, u, FALSE, e, k)
           a1 == write(Reg("DMCONTROL"), [DMACTIVE EXCEPT !.resumereq = TRUE, !.hartsel = s])
           p2 == C("run", s, c, u, FALSE, e, k)
           a2 == until(Reg("DMSTATUS"), "resumeack")
           p3 == C("run", s, c, u, FALSE, e, (k \ {"probe"}) \cup {"active"})
           a3 == write(Reg("DMCONTROL"), [DMACTIVE EXCEPT !.hartsel = s])
           p4 == C("run", s, c, u, FALSE, e, ((k \ {"probe"}) \cup {"active"}) \cup {"probe"})
           a4 == read(Reg("DMSTATUS"), "dmstatus")
           p5 == C("run", s, c, s, FALSE, e, ((k \ {"probe"}) \cup {"active"}) \cup {"probe"})
           a5 == local("current_hart", s)
           p6 == C("run", 0, c, s, FALSE, e,
             (((k \ {"probe"}) \cup {"active"}) \cup {"probe"}) \cup {"active", "probe"})
           a6 == (write(Reg("DMCONTROL"), DMACTIVE) \o read(Reg("DMSTATUS"), "dmstatus"))
<1>0. p0 \in Ctl
  OBVIOUS
<1>1. Plan(p0, a1, p1) /\ p1 \in Ctl
  <2>1. Plan(p0, a1, p1)
    BY <1>0, PlanAskResume
  <2> QED BY <2>1, PlanEnds
<1>2. Plan(p1, a2, p2) /\ p2 \in Ctl
  <2>1. Plan(p1, a2, p2)
    BY <1>1, PlanResumed
  <2> QED BY <2>1, PlanEnds
<1>3. Plan(p2, a3, p3) /\ p3 \in Ctl
  <2>1. Plan(p2, a3, p3)
    BY <1>2, Clamped, PlanName
  <2> QED BY <2>1, PlanEnds
<1>4. Plan(p3, a4, p4) /\ p4 \in Ctl
  <2>1. Plan(p3, a4, p4)
    BY <1>3, PlanReadStatus
  <2> QED BY <2>1, PlanEnds
<1>5. Plan(p4, a5, p5) /\ p5 \in Ctl
  <2>1. Plan(p4, a5, p5)
    BY <1>4, Clamped, PlanCurrent
  <2> QED BY <2>1, PlanEnds
<1>6. Plan(p5, a6, p6) /\ p6 \in Ctl
  <2>1. Plan(p5, a6, p6)
    BY <1>5, PlanNameNone
  <2> QED BY <2>1, PlanEnds
<1>7. p6 = C("run", 0, c, s, FALSE, e, k \cup {"active", "probe"})
  OBVIOUS
<1> HIDE DEF p0, p1, p2, p3, p4, p5, p6, a1, a2, a3, a4, a5, a6
<1>8. Plan(p0, a1 \o a2 \o a3 \o a4 \o a5 \o a6, p6)
  <2>2. Plan(p0, a1 \o a2, p2)
    BY <1>1, <1>2, PlanJoin
  <2>3. Plan(p0, a1 \o a2 \o a3, p3)
    BY <2>2, <1>3, PlanJoin
  <2>4. Plan(p0, a1 \o a2 \o a3 \o a4, p4)
    BY <2>3, <1>4, PlanJoin
  <2>5. Plan(p0, a1 \o a2 \o a3 \o a4 \o a5, p5)
    BY <2>4, <1>5, PlanJoin
  <2>6. Plan(p0, a1 \o a2 \o a3 \o a4 \o a5 \o a6, p6)
    BY <2>5, <1>6, PlanJoin
  <2> QED BY <2>6
<1> QED BY <1>7, <1>8 DEF p0, a1, a2, a3, a4, a5, a6, resume

LEMMA PlanFirstResume ==
  ASSUME NEW s, NEW c, NEW u, NEW b, NEW e, NEW k, s \in Harts, ~ loc.running,
         C("halted", s, c, u, FALSE, e, k) \in Ctl
  PROVE  Plan(C("halted", s, c, u, FALSE, e, k), resume(s),
         C("run", s, c, s, FALSE, e, k \cup {"active", "probe"}))
<1> DEFINE p0 == C("halted", s, c, u, FALSE, e, k)
           p1 == C("resuming", s, c, u, FALSE, e, k)
           a1 == write(Reg("DMCONTROL"), [DMACTIVE EXCEPT !.resumereq = TRUE, !.hartsel = s])
           p2 == C("run", s, c, u, FALSE, e, k)
           a2 == until(Reg("DMSTATUS"), "resumeack")
           p3 == C("run", s, c, u, FALSE, e, (k \ {"probe"}) \cup {"active"})
           a3 == write(Reg("DMCONTROL"), [DMACTIVE EXCEPT !.hartsel = s])
           p4 == C("run", s, c, u, FALSE, e, ((k \ {"probe"}) \cup {"active"}) \cup {"probe"})
           a4 == read(Reg("DMSTATUS"), "dmstatus")
           p5 == C("run", s, c, s, FALSE, e, ((k \ {"probe"}) \cup {"active"}) \cup {"probe"})
           a5 == local("current_hart", s)
           p6 == C("run", s, c, s, FALSE, e, ((k \ {"probe"}) \cup {"active"}) \cup {"probe"})
           a6 == <<>>
<1>0. p0 \in Ctl
  OBVIOUS
<1>1. Plan(p0, a1, p1) /\ p1 \in Ctl
  <2>1. Plan(p0, a1, p1)
    BY <1>0, PlanAskResume
  <2> QED BY <2>1, PlanEnds
<1>2. Plan(p1, a2, p2) /\ p2 \in Ctl
  <2>1. Plan(p1, a2, p2)
    BY <1>1, PlanResumed
  <2> QED BY <2>1, PlanEnds
<1>3. Plan(p2, a3, p3) /\ p3 \in Ctl
  <2>1. Plan(p2, a3, p3)
    BY <1>2, Clamped, PlanName
  <2> QED BY <2>1, PlanEnds
<1>4. Plan(p3, a4, p4) /\ p4 \in Ctl
  <2>1. Plan(p3, a4, p4)
    BY <1>3, PlanReadStatus
  <2> QED BY <2>1, PlanEnds
<1>5. Plan(p4, a5, p5) /\ p5 \in Ctl
  <2>1. Plan(p4, a5, p5)
    BY <1>4, Clamped, PlanCurrent
  <2> QED BY <2>1, PlanEnds
<1>6. Plan(p5, a6, p6) /\ p6 \in Ctl
  <2>1. Plan(p5, a6, p6)
    BY <1>5, PlanNone
  <2> QED BY <2>1, PlanEnds
<1>7. p6 = C("run", s, c, s, FALSE, e, k \cup {"active", "probe"})
  OBVIOUS
<1> HIDE DEF p0, p1, p2, p3, p4, p5, p6, a1, a2, a3, a4, a5, a6
<1>8. Plan(p0, a1 \o a2 \o a3 \o a4 \o a5 \o a6, p6)
  <2>2. Plan(p0, a1 \o a2, p2)
    BY <1>1, <1>2, PlanJoin
  <2>3. Plan(p0, a1 \o a2 \o a3, p3)
    BY <2>2, <1>3, PlanJoin
  <2>4. Plan(p0, a1 \o a2 \o a3 \o a4, p4)
    BY <2>3, <1>4, PlanJoin
  <2>5. Plan(p0, a1 \o a2 \o a3 \o a4 \o a5, p5)
    BY <2>4, <1>5, PlanJoin
  <2>6. Plan(p0, a1 \o a2 \o a3 \o a4 \o a5 \o a6, p6)
    BY <2>5, <1>6, PlanJoin
  <2> QED BY <2>6
<1> QED BY <1>7, <1>8 DEF p0, a1, a2, a3, a4, a5, a6, resume

LEMMA PlanSelect ==
  ASSUME NEW s, NEW c, NEW u, NEW b, NEW e, NEW k, C("run", s, c, u, b, e, k) \in Ctl, NEW h \in Nat,
         "active" \in k, s # Unknown
  PROVE  Plan(C("run", s, c, u, b, e, k), select_hart(h), C("run", Clamp(h), h, h, b, e, k \ {"probe"}))
<1> DEFINE p0 == C("run", s, c, u, b, e, k)
           p1 == C("run", s, s, u, b, e, k)
           a1 == read(Reg("DMCONTROL"), "dmcontrol")
           p2 == C("run", s, h, u, b, e, k)
           a2 == local("hartsel", h)
           p3 == C("run", Clamp(h), h, u, b, e, (k \ {"probe"}) \cup {"active"})
           a3 == write_word(Reg("DMCONTROL"), "dmcontrol", 0)
           p4 == C("run", Clamp(h), h, h, b, e, (k \ {"probe"}) \cup {"active"})
           a4 == local("current_hart", h)
<1>0. p0 \in Ctl
  OBVIOUS
<1>1. Plan(p0, a1, p1) /\ p1 \in Ctl
  <2>1. Plan(p0, a1, p1)
    BY <1>0, PlanReadControl
  <2> QED BY <2>1, PlanEnds
<1>2. Plan(p1, a2, p2) /\ p2 \in Ctl
  <2>1. Plan(p1, a2, p2)
    BY <1>1, PlanHartsel
  <2> QED BY <2>1, PlanEnds
<1>3. Plan(p2, a3, p3) /\ p3 \in Ctl
  <2>1. Plan(p2, a3, p3)
    BY <1>2, PlanNameWord
  <2> QED BY <2>1, PlanEnds
<1>4. Plan(p3, a4, p4) /\ p4 \in Ctl
  <2>1. Plan(p3, a4, p4)
    BY <1>3, PlanCurrent
  <2> QED BY <2>1, PlanEnds
<1>5. p4 = C("run", Clamp(h), h, h, b, e, k \ {"probe"})
  OBVIOUS
<1> HIDE DEF p0, p1, p2, p3, p4, a1, a2, a3, a4
<1>6. Plan(p0, a1 \o a2 \o a3 \o a4, p4)
  <2>2. Plan(p0, a1 \o a2, p2)
    BY <1>1, <1>2, PlanJoin
  <2>3. Plan(p0, a1 \o a2 \o a3, p3)
    BY <2>2, <1>3, PlanJoin
  <2>4. Plan(p0, a1 \o a2 \o a3 \o a4, p4)
    BY <2>3, <1>4, PlanJoin
  <2> QED BY <2>4
<1> QED BY <1>5, <1>6 DEF p0, a1, a2, a3, a4, select_hart

\* A program that fits into the program buffer.
Program(prog) == /\ prog \in Seq(Instruction) /\ Len(prog) <= RamWords
                 /\ \A i \in 1 .. Len(prog) : Fits(i, prog[i])

LEMMA PlanSame == ASSUME NEW p \in Ctl, NEW steps, NEW S, steps \in Seq(S),
                         \A i \in 1 .. Len(steps) : Leads(p, steps[i], p)
                  PROVE  Plan(p, steps, p)
<1> DEFINE n == Len(steps)
           as == [i \in 1 .. n + 1 |-> p]
<1>1. n \in Nat
  OBVIOUS
<1>2. \A i \in 1 .. n + 1 : as[i] = p
  OBVIOUS
<1> HIDE DEF n, as
<1>3. (\A i \in 1 .. n + 1 : as[i] \in Ctl) /\ as[1] = p /\ as[n + 1] = p
  <2>1. 1 \in 1 .. n + 1 /\ n + 1 \in 1 .. n + 1
    BY <1>1
  <2>2. as[1] = p /\ as[n + 1] = p
    BY <2>1, <1>2
  <2>3. \A i \in 1 .. n + 1 : as[i] \in Ctl
    BY <1>2
  <2> QED BY <2>2, <2>3
<1>4. \A i \in 1 .. n : Leads(as[i], steps[i], as[i + 1])
  <2> TAKE i \in 1 .. n
  <2>1. i \in 1 .. n + 1 /\ i + 1 \in 1 .. n + 1
    BY <1>1
  <2>2. Leads(p, steps[i], p)
    BY DEF n
  <2> QED BY <2>1, <2>2, <1>2
<1> QED BY <1>3, <1>4 DEF n, Plan

LEMMA PlanProgbuf ==
  ASSUME NEW m, NEW s, NEW c, NEW u, NEW e, NEW k, C(m, s, c, u, FALSE, e, k) \in Ctl, NEW prog, Program(prog)
  PROVE  Plan(C(m, s, c, u, FALSE, e, k), Progbuf(prog), C(m, s, c, u, FALSE, e, k))
<1> DEFINE p == C(m, s, c, u, FALSE, e, k)
           steps == Progbuf(prog)
<1>1. p \in Ctl /\ ~ p.busy /\ p.know = k
  BY DEF C
<1>2. steps \in Seq({StepOf("write", <<"PROGBUF", i - 1>>, prog[i]) : i \in 1 .. Len(prog)})
      /\ Len(steps) = Len(prog)
  <2> DEFINE n == Len(prog)
             S == {StepOf("write", <<"PROGBUF", i - 1>>, prog[i]) : i \in 1 .. n}
  <2>1. n \in Nat
    BY DEF Program
  <2>2. steps = [i \in 1 .. n |-> StepOf("write", <<"PROGBUF", i - 1>>, prog[i])]
    BY DEF Progbuf
  <2> DEFINE F(i) == StepOf("write", <<"PROGBUF", i - 1>>, prog[i])
  <2>4. \A i \in 1 .. n : F(i) \in S
    OBVIOUS
  <2>5. steps = [i \in 1 .. n |-> F(i)]
    BY <2>2
  <2> HIDE DEF n, steps, F, S
  <2>3. steps \in Seq(S) /\ Len(steps) = n
    BY <2>1, <2>4, <2>5
  <2> QED BY <2>3 DEF n, S
<1> HIDE DEF p
<1>3. ASSUME NEW i \in 1 .. Len(prog) PROVE Leads(p, steps[i], p)
  <2> DEFINE a == <<"PROGBUF", i - 1>>
             v == prog[i]
  <2>1. Len(prog) \in Nat /\ i \in 1 .. RamWords /\ Fits(i, v)
    BY Sizes DEF Program
  <2>2. steps[i] = StepOf("write", a, v)
    BY DEF Progbuf
  <2> HIDE DEF steps, v
  <2>3. Writes(p, StepOf("write", a, v), p)
    BY <1>1, <2>1 DEF Writes, StepOf
  <2> QED BY <2>2, <2>3 DEF Leads
<1> HIDE DEF steps
<1>4. \A i \in 1 .. Len(steps) : Leads(p, steps[i], p)
  BY <1>2, <1>3
<1>5. Plan(p, steps, p)
  BY <1>1, <1>2, <1>4, PlanSame
<1> QED BY <1>5 DEF p, steps

LEMMA PlanWriteData ==
  ASSUME NEW m, NEW s, NEW c, NEW u, NEW e, NEW k, C(m, s, c, u, FALSE, e, k) \in Ctl, NEW n \in 0 .. Words,
         "auto" \notin k
  PROVE  Plan(C(m, s, c, u, FALSE, e, k), WriteData(n), C(m, s, c, u, FALSE, e, k))
<1> DEFINE p == C(m, s, c, u, FALSE, e, k)
           steps == WriteData(n)
<1>1. p \in Ctl /\ ~ p.busy /\ p.know = k
  BY DEF C
<1>2. steps \in Seq({StepOf("write_word", <<"DATA", i - 1>>, <<"data", i>>) : i \in 1 .. n}) /\ Len(steps) = n
  BY Sizes DEF WriteData
<1> HIDE DEF p
<1>3. ASSUME NEW i \in 1 .. n PROVE Leads(p, steps[i], p)
  <2> DEFINE a == <<"DATA", i - 1>>
             v == <<"data", i>>
  <2>1. i \in 1 .. Words
    BY Sizes
  <2>2. steps[i] = StepOf("write_word", a, v)
    BY DEF WriteData
  <2>3. WritesWord(p, StepOf("write_word", a, v), p)
    BY <1>1, <2>1 DEF WritesWord, StepOf
  <2> HIDE DEF steps
  <2> QED BY <2>2, <2>3 DEF Leads
<1> HIDE DEF steps
<1>4. \A i \in 1 .. Len(steps) : Leads(p, steps[i], p)
  BY <1>2, <1>3
<1>5. Plan(p, steps, p)
  BY <1>1, <1>2, <1>4, PlanSame
<1> QED BY <1>5 DEF p, steps

LEMMA PlanReadData ==
  ASSUME NEW m, NEW s, NEW c, NEW u, NEW e, NEW k, C(m, s, c, u, FALSE, e, k) \in Ctl, NEW n \in 0 .. Words
  PROVE  Plan(C(m, s, c, u, FALSE, e, k), ReadData(n), C(m, s, c, u, FALSE, e, k))
<1> DEFINE p == C(m, s, c, u, FALSE, e, k)
           steps == ReadData(n)
<1>1. p \in Ctl /\ ~ p.busy /\ p.know = k
  BY DEF C
<1>2. steps \in Seq({StepOf("read", <<"DATA", i - 1>>, <<"data", i>>) : i \in 1 .. n}) /\ Len(steps) = n
  BY Sizes DEF ReadData
<1> HIDE DEF p
<1>3. ASSUME NEW i \in 1 .. n PROVE Leads(p, steps[i], p)
  <2> DEFINE a == <<"DATA", i - 1>>
             v == <<"data", i>>
  <2>1. i \in 1 .. Words
    BY Sizes
  <2>2. steps[i] = StepOf("read", a, v)
    BY DEF ReadData
  <2>3. Reads(p, StepOf("read", a, v), p)
    BY <1>1, <2>1 DEF Reads, StepOf
  <2> HIDE DEF steps
  <2> QED BY <2>2, <2>3 DEF Leads
<1> HIDE DEF steps
<1>4. \A i \in 1 .. Len(steps) : Leads(p, steps[i], p)
  BY <1>2, <1>3
<1>5. Plan(p, steps, p)
  BY <1>1, <1>2, <1>4, PlanSame
<1> QED BY <1>5 DEF p, steps

LEMMA PlanCommandRun ==
  ASSUME NEW s, NEW c, NEW u, NEW k, C("halted", s, c, u, FALSE, {0}, k) \in Ctl, NEW x \in Command,
         x.transfer, x.size = XLEN,
         NEW prog, Program(prog), NEW n \in 0 .. Words, "auto" \notin k
  PROVE  Plan(C("halted", s, c, u, FALSE, {0}, k), run_abstract_command(x, prog, n),
         C("halted", s, c, u, FALSE, (IF x.postexec THEN {0, EXCEPTION} ELSE {0}),
           ((k \ {"cmderr"}) \cup {"command"}) \cup {"cmderr"}))
<1> DEFINE p0 == C("halted", s, c, u, FALSE, {0}, k)
           p1 == C("halted", s, c, u, FALSE, {0}, k)
           a1 == Progbuf(prog)
           p2 == C("halted", s, c, u, FALSE, {0}, k)
           a2 == (IF x.write /\ x.transfer THEN WriteData(n) ELSE <<>>)
           p3 == C("halted", s, c, u, TRUE, (IF x.postexec THEN {0, EXCEPTION} ELSE {0}),
             (k \ {"cmderr"}) \cup {"command"})
           a3 == write(Reg("COMMAND"), x)
           p4 == C("halted", s, c, u, FALSE, (IF x.postexec THEN {0, EXCEPTION} ELSE {0}),
             ((k \ {"cmderr"}) \cup {"command"}) \cup {"cmderr"})
           a4 == until(Reg("ABSTRACTCS"), "idle")
           p5 == C("halted", s, c, u, FALSE, (IF x.postexec THEN {0, EXCEPTION} ELSE {0}),
             ((k \ {"cmderr"}) \cup {"command"}) \cup {"cmderr"})
           a5 == (IF ~ x.write /\ x.transfer THEN ReadData(n) ELSE <<>>)
<1>0. p0 \in Ctl
  OBVIOUS
<1>1. Plan(p0, a1, p1) /\ p1 \in Ctl
  <2>1. Plan(p0, a1, p1)
    BY <1>0, PlanProgbuf
  <2> QED BY <2>1, PlanEnds
<1>2. Plan(p1, a2, p2) /\ p2 \in Ctl
  <2>1. Plan(p1, a2, p2)
    BY <1>1, PlanWriteData, PlanNone
  <2> QED BY <2>1, PlanEnds
<1>3. Plan(p2, a3, p3) /\ p3 \in Ctl
  <2>1. Plan(p2, a3, p3)
    BY <1>2, PlanCommand
  <2> QED BY <2>1, PlanEnds
<1>4. Plan(p3, a4, p4) /\ p4 \in Ctl
  <2>1. Plan(p3, a4, p4)
    BY <1>3, PlanIdle
  <2> QED BY <2>1, PlanEnds
<1>5. Plan(p4, a5, p5) /\ p5 \in Ctl
  <2>1. Plan(p4, a5, p5)
    BY <1>4, PlanReadData, PlanNone
  <2> QED BY <2>1, PlanEnds
<1>6. p5 = C("halted", s, c, u, FALSE, (IF x.postexec THEN {0, EXCEPTION} ELSE {0}),
      ((k \ {"cmderr"}) \cup {"command"}) \cup {"cmderr"})
  OBVIOUS
<1> HIDE DEF p0, p1, p2, p3, p4, p5, a1, a2, a3, a4, a5
<1>7. Plan(p0, a1 \o a2 \o a3 \o a4 \o a5, p5)
  <2>2. Plan(p0, a1 \o a2, p2)
    BY <1>1, <1>2, PlanJoin
  <2>3. Plan(p0, a1 \o a2 \o a3, p3)
    BY <2>2, <1>3, PlanJoin
  <2>4. Plan(p0, a1 \o a2 \o a3 \o a4, p4)
    BY <2>3, <1>4, PlanJoin
  <2>5. Plan(p0, a1 \o a2 \o a3 \o a4 \o a5, p5)
    BY <2>4, <1>5, PlanJoin
  <2> QED BY <2>5
<1> QED BY <1>6, <1>7 DEF p0, a1, a2, a3, a4, a5, run_abstract_command

LEMMA PlanRunOrDie ==
  ASSUME NEW s, NEW c, NEW u, NEW k, C("halted", s, c, u, FALSE, {0}, k) \in Ctl, NEW x \in Command,
         x.transfer, x.size = XLEN,
         NEW prog, Program(prog), NEW n \in 0 .. Words, "auto" \notin k
  PROVE  Plan(C("halted", s, c, u, FALSE, {0}, k), RUN_AC_OR_DIE(x, prog, n),
         C("halted", s, c, u, FALSE, {0}, (k \ {"cmderr"}) \cup {"command"}))
<1> DEFINE p0 == C("halted", s, c, u, FALSE, {0}, k)
           p1 == C("halted", s, c, u, FALSE, (IF x.postexec THEN {0, EXCEPTION} ELSE {0}),
             ((k \ {"cmderr"}) \cup {"command"}) \cup {"cmderr"})
           a1 == run_abstract_command(x, prog, n)
           p2 == C("halted", s, c, u, FALSE, {0},
             (((k \ {"cmderr"}) \cup {"command"}) \cup {"cmderr"}) \ {"cmderr"})
           a2 == local("check", 0)
<1>0. p0 \in Ctl
  OBVIOUS
<1>1. Plan(p0, a1, p1) /\ p1 \in Ctl
  <2>1. Plan(p0, a1, p1)
    BY <1>0, PlanCommandRun
  <2> QED BY <2>1, PlanEnds
<1>2. Plan(p1, a2, p2) /\ p2 \in Ctl
  <2>1. Plan(p1, a2, p2)
    BY <1>1, PlanCheck
  <2> QED BY <2>1, PlanEnds
<1>3. p2 = C("halted", s, c, u, FALSE, {0}, (k \ {"cmderr"}) \cup {"command"})
  OBVIOUS
<1> HIDE DEF p0, p1, p2, a1, a2
<1>4. Plan(p0, a1 \o a2, p2)
  <2>2. Plan(p0, a1 \o a2, p2)
    BY <1>1, <1>2, PlanJoin
  <2> QED BY <2>2
<1> QED BY <1>3, <1>4 DEF p0, a1, a2, RUN_AC_OR_DIE

LEMMA AcType == ASSUME NEW f, NEW r \in RegName
                PROVE  /\ Ac(f, XLEN, r) \in Command /\ Ac(f, XLEN, r).size = XLEN
                       /\ ("TRANSFER" \in f) => Ac(f, XLEN, r).transfer
<1> DEFINE w == "WRITE" \in f
           t == "TRANSFER" \in f
           x == "POSTEXEC" \in f
<1>1. w \in BOOLEAN /\ t \in BOOLEAN /\ x \in BOOLEAN
  OBVIOUS
<1>2. XLEN \in Int
  BY DebugModuleAssumption
<1>3. Ac(f, XLEN, r) = [write |-> w, transfer |-> t, postexec |-> x, size |-> XLEN, reg |-> r]
  BY DEF Ac
<1> HIDE DEF w, t, x
<1>4. Ac(f, XLEN, r) \in Command /\ Ac(f, XLEN, r).size = XLEN /\ Ac(f, XLEN, r).transfer = t
  BY <1>1, <1>2, <1>3 DEF Command
<1> QED BY <1>4 DEF t

LEMMA NoProgram == Program(<<>>)
BY Sizes DEF Program

\* A command for the right size, by a host that knows that size.
LEMMA PlanRun ==
  ASSUME NEW s, NEW c, NEW u, NEW k, C("halted", s, c, u, FALSE, {0}, k) \in Ctl,
         "command" \in k, "auto" \notin k, loc.xlen = XLEN,
         NEW f, "TRANSFER" \in f, NEW r \in RegName, NEW prog, Program(prog), NEW n \in 0 .. Words
  PROVE  Plan(C("halted", s, c, u, FALSE, {0}, k), RUN_AC_OR_DIE(Ac(f, loc.xlen, r), prog, n),
              C("halted", s, c, u, FALSE, {0}, k \ {"cmderr"}))
<1> DEFINE x == Ac(f, XLEN, r)
<1>1. x \in Command /\ x.size = XLEN /\ x.transfer
  BY AcType
<1>2. (k \ {"cmderr"}) \cup {"command"} = k \ {"cmderr"}
  OBVIOUS
<1> HIDE DEF x
<1>3. Plan(C("halted", s, c, u, FALSE, {0}, k), RUN_AC_OR_DIE(x, prog, n),
           C("halted", s, c, u, FALSE, {0}, (k \ {"cmderr"}) \cup {"command"}))
  BY <1>1, PlanRunOrDie
<1> QED BY <1>2, <1>3 DEF x

\* A command that only moves a register.
LEMMA PlanMove ==
  ASSUME NEW s, NEW c, NEW u, NEW k, C("halted", s, c, u, FALSE, {0}, k) \in Ctl,
         "command" \in k, "auto" \notin k, loc.xlen = XLEN, NEW r \in RegName,
         NEW f \in {{"TRANSFER"}, {"TRANSFER", "WRITE"}}
  PROVE  Plan(C("halted", s, c, u, FALSE, {0}, k), RUN_AC_OR_DIE(Ac(f, loc.xlen, r), <<>>, Words),
              C("halted", s, c, u, FALSE, {0}, k \ {"cmderr"}))
<1> DEFINE n == Words
<1>1. "TRANSFER" \in f /\ n \in 0 .. Words
  BY Sizes
<1> HIDE DEF n
<1>2. Plan(C("halted", s, c, u, FALSE, {0}, k), RUN_AC_OR_DIE(Ac(f, loc.xlen, r), <<>>, n),
              C("halted", s, c, u, FALSE, {0}, k \ {"cmderr"}))
  BY <1>1, PlanRun, NoProgram
<1> QED BY <1>2 DEF n

LEMMA PlanSave ==
  ASSUME NEW s, NEW c, NEW u, NEW k, C("halted", s, c, u, FALSE, {0}, k) \in Ctl, "command" \in k,
         "auto" \notin k, loc.xlen = XLEN,
         NEW r \in RegName, NEW x \in {"s0", "s1"}
  PROVE  Plan(C("halted", s, c, u, FALSE, {0}, k), save_reg(r, x),
         C("halted", s, c, u, FALSE, {0}, k \ {"cmderr"}))
<1> DEFINE p0 == C("halted", s, c, u, FALSE, {0}, k)
           p1 == C("halted", s, c, u, FALSE, {0}, k \ {"cmderr"})
           a1 == RUN_AC_OR_DIE(Ac({"TRANSFER"}, loc.xlen, r), <<>>, Words)
           p2 == C("halted", s, c, u, FALSE, {0}, k \ {"cmderr"})
           a2 == local("keep", x)
<1>0. p0 \in Ctl
  OBVIOUS
<1>1. Plan(p0, a1, p1) /\ p1 \in Ctl
  <2>1. Plan(p0, a1, p1)
    BY <1>0, PlanMove
  <2> QED BY <2>1, PlanEnds
<1>2. Plan(p1, a2, p2) /\ p2 \in Ctl
  <2>1. Plan(p1, a2, p2)
    BY <1>1, PlanKeep
  <2> QED BY <2>1, PlanEnds
<1>3. p2 = C("halted", s, c, u, FALSE, {0}, k \ {"cmderr"})
  OBVIOUS
<1> HIDE DEF p0, p1, p2, a1, a2
<1>4. Plan(p0, a1 \o a2, p2)
  <2>2. Plan(p0, a1 \o a2, p2)
    BY <1>1, <1>2, PlanJoin
  <2> QED BY <2>2
<1> QED BY <1>3, <1>4 DEF p0, a1, a2, save_reg

LEMMA PlanBorrow ==
  ASSUME NEW s, NEW c, NEW u, NEW k, C("halted", s, c, u, FALSE, {0}, k) \in Ctl, "command" \in k,
         "auto" \notin k, loc.xlen = XLEN
  PROVE  Plan(C("halted", s, c, u, FALSE, {0}, k), Borrow, C("halted", s, c, u, FALSE, {0}, k \ {"cmderr"}))
<1> DEFINE p0 == C("halted", s, c, u, FALSE, {0}, k)
           p1 == C("halted", s, c, u, FALSE, {0}, k \ {"cmderr"})
           a1 == save_reg("s0", "s0")
           p2 == C("halted", s, c, u, FALSE, {0}, (k \ {"cmderr"}) \ {"cmderr"})
           a2 == save_reg("s1", "s1")
<1>0. p0 \in Ctl
  OBVIOUS
<1>1. Plan(p0, a1, p1) /\ p1 \in Ctl
  <2>1. Plan(p0, a1, p1)
    BY <1>0, PlanSave DEF RegName
  <2> QED BY <2>1, PlanEnds
<1>2. Plan(p1, a2, p2) /\ p2 \in Ctl
  <2>1. Plan(p1, a2, p2)
    BY <1>1, PlanSave DEF RegName
  <2> QED BY <2>1, PlanEnds
<1>3. p2 = C("halted", s, c, u, FALSE, {0}, k \ {"cmderr"})
  OBVIOUS
<1> HIDE DEF p0, p1, p2, a1, a2
<1>4. Plan(p0, a1 \o a2, p2)
  <2>2. Plan(p0, a1 \o a2, p2)
    BY <1>1, <1>2, PlanJoin
  <2> QED BY <2>2
<1> QED BY <1>3, <1>4 DEF p0, a1, a2, Borrow

LEMMA PlanRestore ==
  ASSUME NEW s, NEW c, NEW u, NEW k, C("halted", s, c, u, FALSE, {0}, k) \in Ctl, "command" \in k,
         "auto" \notin k, loc.xlen = XLEN,
         NEW r \in RegName, NEW x \in {"s0", "s1"}
  PROVE  Plan(C("halted", s, c, u, FALSE, {0}, k), restore_reg(r, x),
         C("halted", s, c, u, FALSE, {0}, k \ {"cmderr"}))
<1> DEFINE p0 == C("halted", s, c, u, FALSE, {0}, k)
           p1 == C("halted", s, c, u, FALSE, {0}, k)
           a1 == local("recall", x)
           p2 == C("halted", s, c, u, FALSE, {0}, k \ {"cmderr"})
           a2 == RUN_AC_OR_DIE(Ac({"TRANSFER", "WRITE"}, loc.xlen, r), <<>>, Words)
<1>0. p0 \in Ctl
  OBVIOUS
<1>1. Plan(p0, a1, p1) /\ p1 \in Ctl
  <2>1. Plan(p0, a1, p1)
    BY <1>0, PlanRecall
  <2> QED BY <2>1, PlanEnds
<1>2. Plan(p1, a2, p2) /\ p2 \in Ctl
  <2>1. Plan(p1, a2, p2)
    BY <1>1, PlanMove
  <2> QED BY <2>1, PlanEnds
<1>3. p2 = C("halted", s, c, u, FALSE, {0}, k \ {"cmderr"})
  OBVIOUS
<1> HIDE DEF p0, p1, p2, a1, a2
<1>4. Plan(p0, a1 \o a2, p2)
  <2>2. Plan(p0, a1 \o a2, p2)
    BY <1>1, <1>2, PlanJoin
  <2> QED BY <2>2
<1> QED BY <1>3, <1>4 DEF p0, a1, a2, restore_reg

LEMMA PlanGiveBack ==
  ASSUME NEW s, NEW c, NEW u, NEW k, C("halted", s, c, u, FALSE, {0}, k) \in Ctl, "command" \in k,
         "auto" \notin k, loc.xlen = XLEN
  PROVE  Plan(C("halted", s, c, u, FALSE, {0}, k), GiveBack, C("halted", s, c, u, FALSE, {0}, k \ {"cmderr"}))
<1> DEFINE p0 == C("halted", s, c, u, FALSE, {0}, k)
           p1 == C("halted", s, c, u, FALSE, {0}, k \ {"cmderr"})
           a1 == restore_reg("s0", "s0")
           p2 == C("halted", s, c, u, FALSE, {0}, (k \ {"cmderr"}) \ {"cmderr"})
           a2 == restore_reg("s1", "s1")
<1>0. p0 \in Ctl
  OBVIOUS
<1>1. Plan(p0, a1, p1) /\ p1 \in Ctl
  <2>1. Plan(p0, a1, p1)
    BY <1>0, PlanRestore DEF RegName
  <2> QED BY <2>1, PlanEnds
<1>2. Plan(p1, a2, p2) /\ p2 \in Ctl
  <2>1. Plan(p1, a2, p2)
    BY <1>1, PlanRestore DEF RegName
  <2> QED BY <2>1, PlanEnds
<1>3. p2 = C("halted", s, c, u, FALSE, {0}, k \ {"cmderr"})
  OBVIOUS
<1> HIDE DEF p0, p1, p2, a1, a2
<1>4. Plan(p0, a1 \o a2, p2)
  <2>2. Plan(p0, a1 \o a2, p2)
    BY <1>1, <1>2, PlanJoin
  <2> QED BY <2>2
<1> QED BY <1>3, <1>4 DEF p0, a1, a2, GiveBack

----------------------------------------------------------------------------
(* The plans of the operations.                                            *)

\* What the host knows while it borrows a hart.
Steady(k) == {"xlen", "command"} \subseteq k /\ "auto" \notin k /\ "cmderr" \notin k

LEMMA SteadyRun ==
  ASSUME NEW s, NEW c, NEW u, NEW k, C("halted", s, c, u, FALSE, {0}, k) \in Ctl, Steady(k), loc.xlen = XLEN,
         NEW f, "TRANSFER" \in f, NEW r \in RegName, NEW prog, Program(prog), NEW n \in 0 .. Words
  PROVE  Plan(C("halted", s, c, u, FALSE, {0}, k), RUN_AC_OR_DIE(Ac(f, loc.xlen, r), prog, n),
              C("halted", s, c, u, FALSE, {0}, k))
<1>1. k \ {"cmderr"} = k /\ "command" \in k /\ "auto" \notin k
  BY DEF Steady
<1>2. Plan(C("halted", s, c, u, FALSE, {0}, k), RUN_AC_OR_DIE(Ac(f, loc.xlen, r), prog, n),
           C("halted", s, c, u, FALSE, {0}, k \ {"cmderr"}))
  BY <1>1, PlanRun
<1> QED BY <1>1, <1>2

LEMMA SteadyGiveBack ==
  ASSUME NEW s, NEW c, NEW u, NEW k, C("halted", s, c, u, FALSE, {0}, k) \in Ctl, Steady(k), loc.xlen = XLEN
  PROVE  Plan(C("halted", s, c, u, FALSE, {0}, k), GiveBack, C("halted", s, c, u, FALSE, {0}, k))
<1>1. k \ {"cmderr"} = k /\ "command" \in k /\ "auto" \notin k
  BY DEF Steady
<1>2. Plan(C("halted", s, c, u, FALSE, {0}, k), GiveBack, C("halted", s, c, u, FALSE, {0}, k \ {"cmderr"}))
  BY <1>1, PlanGiveBack
<1> QED BY <1>1, <1>2

LEMMA SteadyReadWords ==
  ASSUME NEW s, NEW c, NEW u, NEW k, C("halted", s, c, u, FALSE, {0}, k) \in Ctl, Steady(k), NEW i \in Nat,
         NEW n \in Nat
  PROVE  Plan(C("halted", s, c, u, FALSE, {0}, k), local("read_words", <<i, n>>),
         C("halted", s, c, u, FALSE, {0}, k))
<1>1. k \ {"cmderr"} = k /\ {"xlen", "command"} \subseteq k /\ "auto" \notin k
  BY DEF Steady
<1>2. Plan(C("halted", s, c, u, FALSE, {0}, k), local("read_words", <<i, n>>),
      C("halted", s, c, u, FALSE, {0}, k \ {"cmderr"}))
  BY <1>1, PlanReadWords
<1> QED BY <1>1, <1>2

\* The programs of the program buffer fit into it.
LEMMA Lines == ASSUME loc.xlen = XLEN, NEW imm \in Int, NEW rd \in RegName, NEW rs \in RegName, NEW k \in Nat
               PROVE  /\ Fits(k, LOAD(rd, rs, imm)) /\ Fits(k, STORE(rd, rs, imm)) /\ Fits(k, ADDI(rd, rs, imm))
                      /\ Fits(k, FENCE_I) /\ Fits(k, EBREAK) /\ chunk_align \in {4, 8}
<1>1. chunk_align \in {4, 8}
  BY DebugModuleAssumption DEF chunk_align
<1>2. ASSUME NEW o \in {"load", "store", "addi", "fence.i", "ebreak"}, NEW a \in RegName, NEW b \in RegName,
             NEW j \in Int
      PROVE  Fits(k, Ins(o, a, b, j))
  <2>1. Ins(o, a, b, j) \in Kinds({"load", "store", "addi", "bne", "fence.i", "ebreak"}, Int)
        /\ Ins(o, a, b, j).op = o
    BY DEF Ins, Kinds
  <2> QED BY <2>1 DEF Fits, Instruction
<1>3. "x0" \in RegName /\ 0 \in Int
  BY DEF RegName
<1> QED BY <1>1, <1>2, <1>3 DEF LOAD, STORE, ADDI, FENCE_I, EBREAK

LEMMA Looping == Fits(3, BNE("s0", "s1", 0 * 4, 2 * 4))
<1> DEFINE j == -8
<1>1. j \in Int /\ j \div 4 = -2 /\ (0 * 4) - (2 * 4) = j
  BY SMT
<1> HIDE DEF j
<1>2. BNE("s0", "s1", 0 * 4, 2 * 4) = Ins("bne", "s1", "s0", j)
  BY <1>1 DEF BNE
<1>3. Ins("bne", "s1", "s0", j) \in Kinds({"load", "store", "addi", "bne", "fence.i", "ebreak"}, Int)
  BY <1>1 DEF Ins, Kinds, RegName
<1>4. Ins("bne", "s1", "s0", j).imm = j
  BY DEF Ins
<1> QED BY <1>1, <1>2, <1>3, <1>4 DEF Fits, Instruction

LEMMA Scratch == "dscratch0" \in CsrName /\ "csrrw" \in CsrOps
BY DEF CsrOps, CsrName

LEMMA CsrLines == ASSUME NEW o \in CsrOps, NEW w \in CsrName, NEW k \in Nat
                  PROVE  Fits(k, CSRRx(o, "s0", w, "s0"))
<1>1. Ins(o, "s0", "s0", w) \in Kinds(CsrOps, CsrName) /\ Ins(o, "s0", "s0", w).op # "bne"
  BY DEF Ins, Kinds, RegName, CsrOps
<1> QED BY <1>1 DEF Fits, Instruction, CSRRx

LEMMA ReadProgram == ASSUME loc.xlen = XLEN PROVE Program(<<LOAD("s1", "s0", 0), ADDI("s0", "s0", chunk_align),
                            EBREAK>>)
<1> DEFINE l1 == LOAD("s1", "s0", 0)
           l2 == ADDI("s0", "s0", chunk_align)
           l3 == EBREAK
<1>1. Fits(1, l1) /\ Fits(2, l2) /\ Fits(3, l3)
  <2>1. Fits(1, l1)
    BY Lines DEF RegName
  <2>2. Fits(2, l2)
    BY Lines DEF RegName
  <2>3. Fits(3, l3)
    BY Lines DEF RegName
  <2> QED BY <2>1, <2>2, <2>3
<1> HIDE DEF l1, l2, l3
<1> DEFINE prog == <<l1, l2, l3>>
<1>2. l1 \in Instruction /\ l2 \in Instruction /\ l3 \in Instruction
  BY <1>1 DEF Fits
<1>3. prog \in Seq(Instruction) /\ Len(prog) = 3 /\ prog[1] = l1 /\ prog[2] = l2 /\ prog[3] = l3
  BY <1>2
<1> HIDE DEF prog
<1>4. \A i \in 1 .. 3 : i = 1 \/ i = 2 \/ i = 3
  OBVIOUS
<1>5. Program(prog)
  BY <1>1, <1>3, <1>4, Sizes DEF Program
<1> QED BY <1>5 DEF prog, l1, l2, l3

LEMMA WriteProgram == ASSUME loc.xlen = XLEN PROVE Program(<<STORE("s1", "s0", 0),
                             ADDI("s0", "s0", chunk_align), EBREAK>>)
<1> DEFINE l1 == STORE("s1", "s0", 0)
           l2 == ADDI("s0", "s0", chunk_align)
           l3 == EBREAK
<1>1. Fits(1, l1) /\ Fits(2, l2) /\ Fits(3, l3)
  <2>1. Fits(1, l1)
    BY Lines DEF RegName
  <2>2. Fits(2, l2)
    BY Lines DEF RegName
  <2>3. Fits(3, l3)
    BY Lines DEF RegName
  <2> QED BY <2>1, <2>2, <2>3
<1> HIDE DEF l1, l2, l3
<1> DEFINE prog == <<l1, l2, l3>>
<1>2. l1 \in Instruction /\ l2 \in Instruction /\ l3 \in Instruction
  BY <1>1 DEF Fits
<1>3. prog \in Seq(Instruction) /\ Len(prog) = 3 /\ prog[1] = l1 /\ prog[2] = l2 /\ prog[3] = l3
  BY <1>2
<1> HIDE DEF prog
<1>4. \A i \in 1 .. 3 : i = 1 \/ i = 2 \/ i = 3
  OBVIOUS
<1>5. Program(prog)
  BY <1>1, <1>3, <1>4, Sizes DEF Program
<1> QED BY <1>5 DEF prog, l1, l2, l3

LEMMA ClearProgram == ASSUME loc.xlen = XLEN PROVE Program(<<STORE("x0", "s0", 0),
                             ADDI("s0", "s0", chunk_align), BNE("s0", "s1", 0 * 4, 2 * 4), EBREAK>>)
<1> DEFINE l1 == STORE("x0", "s0", 0)
           l2 == ADDI("s0", "s0", chunk_align)
           l3 == BNE("s0", "s1", 0 * 4, 2 * 4)
           l4 == EBREAK
<1>1. Fits(1, l1) /\ Fits(2, l2) /\ Fits(3, l3) /\ Fits(4, l4)
  <2>1. Fits(1, l1)
    BY Lines, Looping DEF RegName
  <2>2. Fits(2, l2)
    BY Lines, Looping DEF RegName
  <2>3. Fits(3, l3)
    BY Lines, Looping DEF RegName
  <2>4. Fits(4, l4)
    BY Lines, Looping DEF RegName
  <2> QED BY <2>1, <2>2, <2>3, <2>4
<1> HIDE DEF l1, l2, l3, l4
<1> DEFINE prog == <<l1, l2, l3, l4>>
<1>2. l1 \in Instruction /\ l2 \in Instruction /\ l3 \in Instruction /\ l4 \in Instruction
  BY <1>1 DEF Fits
<1>3. prog \in Seq(Instruction) /\ Len(prog) = 4 /\ prog[1] = l1 /\ prog[2] = l2 /\ prog[3] = l3 /\ prog[4] = l4
  BY <1>2
<1> HIDE DEF prog
<1>4. \A i \in 1 .. 4 : i = 1 \/ i = 2 \/ i = 3 \/ i = 4
  OBVIOUS
<1>5. Program(prog)
  BY <1>1, <1>3, <1>4, Sizes DEF Program
<1> QED BY <1>5 DEF prog, l1, l2, l3, l4

LEMMA CsrProgram == ASSUME loc.xlen = XLEN, loc.data_base \in Int, NEW o \in CsrOps, NEW w \in CsrName
                     PROVE  Program(<<CSRRx("csrrw", "s0", "dscratch0", "s0"), LOAD("s0", "x0", loc.data_base),
                            CSRRx(o, "s0", w, "s0"), STORE("s0", "x0", loc.data_base),
                              CSRRx("csrrw", "s0", "dscratch0", "s0"), EBREAK>>)
<1> DEFINE l1 == CSRRx("csrrw", "s0", "dscratch0", "s0")
           l2 == LOAD("s0", "x0", loc.data_base)
           l3 == CSRRx(o, "s0", w, "s0")
           l4 == STORE("s0", "x0", loc.data_base)
           l5 == CSRRx("csrrw", "s0", "dscratch0", "s0")
           l6 == EBREAK
<1>1. Fits(1, l1) /\ Fits(2, l2) /\ Fits(3, l3) /\ Fits(4, l4) /\ Fits(5, l5) /\ Fits(6, l6)
  <2>1. Fits(1, l1)
    BY Lines, CsrLines, Scratch DEF RegName
  <2>2. Fits(2, l2)
    BY Lines, CsrLines, Scratch DEF RegName
  <2>3. Fits(3, l3)
    BY Lines, CsrLines, Scratch DEF RegName
  <2>4. Fits(4, l4)
    BY Lines, CsrLines, Scratch DEF RegName
  <2>5. Fits(5, l5)
    BY Lines, CsrLines, Scratch DEF RegName
  <2>6. Fits(6, l6)
    BY Lines, CsrLines, Scratch DEF RegName
  <2> QED BY <2>1, <2>2, <2>3, <2>4, <2>5, <2>6
<1> HIDE DEF l1, l2, l3, l4, l5, l6
<1> DEFINE prog == <<l1, l2, l3, l4, l5, l6>>
<1>2. l1 \in Instruction /\ l2 \in Instruction /\ l3 \in Instruction /\ l4 \in Instruction
      /\ l5 \in Instruction /\ l6 \in Instruction
  BY <1>1 DEF Fits
<1>3. prog \in Seq(Instruction) /\ Len(prog) = 6 /\ prog[1] = l1 /\ prog[2] = l2 /\ prog[3] = l3
      /\ prog[4] = l4 /\ prog[5] = l5 /\ prog[6] = l6
  BY <1>2
<1> HIDE DEF prog
<1>4. \A i \in 1 .. 6 : i = 1 \/ i = 2 \/ i = 3 \/ i = 4 \/ i = 5 \/ i = 6
  OBVIOUS
<1>5. Program(prog)
  BY <1>1, <1>3, <1>4, Sizes DEF Program
<1> QED BY <1>5 DEF prog, l1, l2, l3, l4, l5, l6

LEMMA FenceProgram == ASSUME loc.xlen = XLEN PROVE Program(<<FENCE_I, EBREAK>>)
<1> DEFINE l1 == FENCE_I
           l2 == EBREAK
<1>1. Fits(1, l1) /\ Fits(2, l2)
  <2>1. Fits(1, l1)
    BY Lines DEF RegName
  <2>2. Fits(2, l2)
    BY Lines DEF RegName
  <2> QED BY <2>1, <2>2
<1> HIDE DEF l1, l2
<1> DEFINE prog == <<l1, l2>>
<1>2. l1 \in Instruction /\ l2 \in Instruction
  BY <1>1 DEF Fits
<1>3. prog \in Seq(Instruction) /\ Len(prog) = 2 /\ prog[1] = l1 /\ prog[2] = l2
  BY <1>2
<1> HIDE DEF prog
<1>4. \A i \in 1 .. 2 : i = 1 \/ i = 2
  OBVIOUS
<1>5. Program(prog)
  BY <1>1, <1>3, <1>4, Sizes DEF Program
<1> QED BY <1>5 DEF prog, l1, l2

\* An operation on the hart that the host uses now.
LEMMA Begun ==
  ASSUME NEW s, NEW c, NEW u, NEW k, C("run", s, c, u, FALSE, {0}, k) \in Ctl, Ready \subseteq k,
         "auto" \notin k,
         u \in Harts, loc.xlen = XLEN, NEW K, K = (k \cup {"active", "probe"}) \ {"cmderr"}
  PROVE  /\ Steady(K) /\ K \cup {"active", "probe"} = K
         /\ Plan(C("run", s, c, u, FALSE, {0}, k), halt(u),
              C("halted", u, c, u, FALSE, {0}, k \cup {"active", "probe"}))
         /\ Plan(C("run", s, c, u, FALSE, {0}, k), halt(u) \o Borrow, C("halted", u, c, u, FALSE, {0}, K))
<1> DEFINE k1 == k \cup {"active", "probe"}
           h == halt(u)
           w == Borrow
           p == C("run", s, c, u, FALSE, {0}, k)
<1>1. Plan(p, h, C("halted", u, c, u, FALSE, {0}, k1))
  BY PlanHalt
<1>2. "command" \in k1 /\ "auto" \notin k1 /\ "xlen" \in k1
  BY DEF Ready
<1>3. Steady(K) /\ K \cup {"active", "probe"} = K
  BY <1>2 DEF Steady
<1>4. C("halted", u, c, u, FALSE, {0}, k1) \in Ctl
  BY <1>1, PlanEnds
<1> HIDE DEF k1, h, p
<1>5. Plan(C("halted", u, c, u, FALSE, {0}, k1), w, C("halted", u, c, u, FALSE, {0}, k1 \ {"cmderr"}))
  BY <1>2, <1>4, PlanBorrow
<1>6. k1 \ {"cmderr"} = K
  BY DEF k1
<1>7. Plan(C("halted", u, c, u, FALSE, {0}, k1), w, C("halted", u, c, u, FALSE, {0}, K))
  BY <1>5, <1>6
<1> HIDE DEF w
<1>8. Plan(p, h \o w, C("halted", u, c, u, FALSE, {0}, K))
  BY <1>1, <1>7, PlanJoin
<1> QED BY <1>1, <1>3, <1>8 DEF k1, h, w, p

LEMMA Ended ==
  ASSUME NEW c, NEW u, NEW K, C("halted", u, c, u, FALSE, {0}, K) \in Ctl, u \in Harts, loc.running,
         K \cup {"active", "probe"} = K
  PROVE  Plan(C("halted", u, c, u, FALSE, {0}, K), resume(u), C("run", 0, c, u, FALSE, {0}, K))
<1>1. Plan(C("halted", u, c, u, FALSE, {0}, K), resume(u),
      C("run", 0, c, u, FALSE, {0}, K \cup {"active", "probe"}))
  BY PlanResume
<1> QED BY <1>1

LEMMA Address == /\ Words \in 0 .. Words /\ 0 \in 0 .. Words /\ 1 \in Nat
                 /\ \A a \in Int : Long(a) \in Val
BY Sizes DEF Long, Val

\* Flags of the commands, each of which moves a register.
Flags == {{"TRANSFER"}, {"TRANSFER", "WRITE"}, {"TRANSFER", "WRITE", "POSTEXEC"},
  {"POSTEXEC", "TRANSFER", "WRITE"}, {"TRANSFER", "POSTEXEC"}}

LEMMA Run1 ==
  ASSUME NEW s, NEW c, NEW u, NEW k, C("halted", s, c, u, FALSE, {0}, k) \in Ctl, Steady(k), loc.xlen = XLEN,
         NEW f \in Flags, NEW r \in RegName, NEW prog, Program(prog)
  PROVE  /\ Plan(C("halted", s, c, u, FALSE, {0}, k), RUN_AC_OR_DIE(Ac(f, loc.xlen, r), prog, Words),
                 C("halted", s, c, u, FALSE, {0}, k))
         /\ Plan(C("halted", s, c, u, FALSE, {0}, k), RUN_AC_OR_DIE(Ac(f, loc.xlen, r), prog, 0),
                 C("halted", s, c, u, FALSE, {0}, k))
<1> DEFINE n == Words
           z == 0
<1>1. "TRANSFER" \in f /\ n \in 0 .. Words /\ z \in 0 .. Words
  BY Address DEF Flags
<1> HIDE DEF n, z
<1>2. /\ Plan(C("halted", s, c, u, FALSE, {0}, k), RUN_AC_OR_DIE(Ac(f, loc.xlen, r), prog, n),
              C("halted", s, c, u, FALSE, {0}, k))
      /\ Plan(C("halted", s, c, u, FALSE, {0}, k), RUN_AC_OR_DIE(Ac(f, loc.xlen, r), prog, z),
              C("halted", s, c, u, FALSE, {0}, k))
  BY <1>1, SteadyRun
<1> QED BY <1>2 DEF n, z

\* The commands that the operations use.
LEMMA Run2 ==
  ASSUME NEW s, NEW c, NEW u, NEW k, C("halted", s, c, u, FALSE, {0}, k) \in Ctl, Steady(k), loc.xlen = XLEN,
         NEW prog, Program(prog)
  PROVE  /\ Plan(C("halted", s, c, u, FALSE, {0}, k),
              RUN_AC_OR_DIE(Ac({"TRANSFER", "WRITE"}, loc.xlen, "s0"), prog, Words),
                 C("halted", s, c, u, FALSE, {0}, k))
         /\ Plan(C("halted", s, c, u, FALSE, {0}, k),
              RUN_AC_OR_DIE(Ac({"TRANSFER", "WRITE", "POSTEXEC"}, loc.xlen, "s0"), prog, Words),
                 C("halted", s, c, u, FALSE, {0}, k))
         /\ Plan(C("halted", s, c, u, FALSE, {0}, k),
              RUN_AC_OR_DIE(Ac({"TRANSFER", "WRITE", "POSTEXEC"}, loc.xlen, "s1"), prog, Words),
                 C("halted", s, c, u, FALSE, {0}, k))
<1> DEFINE f1 == {"TRANSFER", "WRITE"}
           f2 == {"TRANSFER", "WRITE", "POSTEXEC"}
<1>1. f1 \in Flags /\ f2 \in Flags /\ "s0" \in RegName /\ "s1" \in RegName
  BY DEF Flags, RegName
<1> HIDE DEF f1, f2
<1> QED BY <1>1, Run1 DEF f1, f2

LEMMA PlanReadChunk ==
  ASSUME NEW s, NEW c, NEW u, NEW k, C("run", s, c, u, FALSE, {0}, k) \in Ctl, Ready \subseteq k,
         "auto" \notin k,
         u \in Harts, u = loc.current_hart, loc.running, loc.xlen = XLEN, NEW K,
           K = (k \cup {"active", "probe"}) \ {"cmderr"}, NEW a \in Int, NEW n \in Nat
  PROVE  Plan(C("run", s, c, u, FALSE, {0}, k), read_chunk(a, n), C("run", 0, c, u, FALSE, {0}, K))
<1> DEFINE p0 == C("run", s, c, u, FALSE, {0}, k)
           p1 == C("halted", u, c, u, FALSE, {0}, K)
           a1 == halt(loc.current_hart) \o Borrow
           p2 == C("halted", u, c, u, FALSE, {0}, K)
           a2 == DataIs(Long(a))
           p3 == C("halted", u, c, u, FALSE, {0}, K)
           a3 == RUN_AC_OR_DIE(Ac({"TRANSFER", "WRITE", "POSTEXEC"}, loc.xlen, "s0"),
             <<LOAD("s1", "s0", 0), ADDI("s0", "s0", chunk_align), EBREAK>>, Words)
           p4 == C("halted", u, c, u, FALSE, {0}, K)
           a4 == local("read_words", <<1, n>>)
           p5 == C("halted", u, c, u, FALSE, {0}, K)
           a5 == GiveBack
           p6 == C("run", 0, c, u, FALSE, {0}, K)
           a6 == resume(loc.current_hart)
<1>s. Steady(K) /\ K \cup {"active", "probe"} = K
  BY Begun
<1>n. Words \in 0 .. Words /\ 0 \in 0 .. Words /\ 1 \in Nat
  BY Address
<1>0. p0 \in Ctl
  OBVIOUS
<1>1. Plan(p0, a1, p1) /\ p1 \in Ctl
  <2>1. Plan(p0, a1, p1)
    BY <1>0, Begun
  <2> QED BY <2>1, PlanEnds
<1>2. Plan(p1, a2, p2) /\ p2 \in Ctl
  <2>1. Plan(p1, a2, p2)
    BY <1>1, Address, PlanData DEF DataIs
  <2> QED BY <2>1, PlanEnds
<1>3. Plan(p2, a3, p3) /\ p3 \in Ctl
  <2>1. Plan(p2, a3, p3)
    BY <1>2, <1>s, Run2, ReadProgram
  <2> QED BY <2>1, PlanEnds
<1>4. Plan(p3, a4, p4) /\ p4 \in Ctl
  <2>1. Plan(p3, a4, p4)
    BY <1>3, <1>s, <1>n, SteadyReadWords
  <2> QED BY <2>1, PlanEnds
<1>5. Plan(p4, a5, p5) /\ p5 \in Ctl
  <2>1. Plan(p4, a5, p5)
    BY <1>4, <1>s, SteadyGiveBack
  <2> QED BY <2>1, PlanEnds
<1>6. Plan(p5, a6, p6) /\ p6 \in Ctl
  <2>1. Plan(p5, a6, p6)
    BY <1>5, <1>s, Ended
  <2> QED BY <2>1, PlanEnds
<1>7. p6 = C("run", 0, c, u, FALSE, {0}, K)
  OBVIOUS
<1> HIDE DEF p0, p1, p2, p3, p4, p5, p6, a1, a2, a3, a4, a5, a6
<1>8. Plan(p0, a1 \o a2 \o a3 \o a4 \o a5 \o a6, p6)
  <2>2. Plan(p0, a1 \o a2, p2)
    BY <1>1, <1>2, PlanJoin
  <2>3. Plan(p0, a1 \o a2 \o a3, p3)
    BY <2>2, <1>3, PlanJoin
  <2>4. Plan(p0, a1 \o a2 \o a3 \o a4, p4)
    BY <2>3, <1>4, PlanJoin
  <2>5. Plan(p0, a1 \o a2 \o a3 \o a4 \o a5, p5)
    BY <2>4, <1>5, PlanJoin
  <2>6. Plan(p0, a1 \o a2 \o a3 \o a4 \o a5 \o a6, p6)
    BY <2>5, <1>6, PlanJoin
  <2> QED BY <2>6
<1> QED BY <1>7, <1>8 DEF p0, a1, a2, a3, a4, a5, a6, read_chunk

LEMMA PlanStartWrite ==
  ASSUME NEW s, NEW c, NEW u, NEW K, C("halted", s, c, u, FALSE, {0}, K) \in Ctl, Steady(K), loc.xlen = XLEN,
         NEW a \in Int, NEW v \in Val
  PROVE  Plan(C("halted", s, c, u, FALSE, {0}, K), StartWrite(a, v), C("halted", s, c, u, FALSE, {0}, K))
<1> DEFINE p0 == C("halted", s, c, u, FALSE, {0}, K)
           p1 == C("halted", s, c, u, FALSE, {0}, K)
           a1 == DataIs(Long(a))
           p2 == C("halted", s, c, u, FALSE, {0}, K)
           a2 == RUN_AC_OR_DIE(Ac({"TRANSFER", "WRITE"}, loc.xlen, "s0"),
             <<STORE("s1", "s0", 0), ADDI("s0", "s0", chunk_align), EBREAK>>, Words)
           p3 == C("halted", s, c, u, FALSE, {0}, K)
           a3 == DataIs(v)
           p4 == C("halted", s, c, u, FALSE, {0}, K)
           a4 == RUN_AC_OR_DIE(Ac({"TRANSFER", "WRITE", "POSTEXEC"}, loc.xlen, "s1"), <<>>, Words)
<1>0. p0 \in Ctl
  OBVIOUS
<1>1. Plan(p0, a1, p1) /\ p1 \in Ctl
  <2>1. Plan(p0, a1, p1)
    BY <1>0, Address, PlanData DEF DataIs
  <2> QED BY <2>1, PlanEnds
<1>2. Plan(p1, a2, p2) /\ p2 \in Ctl
  <2>1. Plan(p1, a2, p2)
    BY <1>1, Run2, WriteProgram
  <2> QED BY <2>1, PlanEnds
<1>3. Plan(p2, a3, p3) /\ p3 \in Ctl
  <2>1. Plan(p2, a3, p3)
    BY <1>2, PlanData DEF DataIs
  <2> QED BY <2>1, PlanEnds
<1>4. Plan(p3, a4, p4) /\ p4 \in Ctl
  <2>1. Plan(p3, a4, p4)
    BY <1>3, Run2, NoProgram
  <2> QED BY <2>1, PlanEnds
<1>5. p4 = C("halted", s, c, u, FALSE, {0}, K)
  OBVIOUS
<1> HIDE DEF p0, p1, p2, p3, p4, a1, a2, a3, a4
<1>6. Plan(p0, a1 \o a2 \o a3 \o a4, p4)
  <2>2. Plan(p0, a1 \o a2, p2)
    BY <1>1, <1>2, PlanJoin
  <2>3. Plan(p0, a1 \o a2 \o a3, p3)
    BY <2>2, <1>3, PlanJoin
  <2>4. Plan(p0, a1 \o a2 \o a3 \o a4, p4)
    BY <2>3, <1>4, PlanJoin
  <2> QED BY <2>4
<1> QED BY <1>5, <1>6 DEF p0, a1, a2, a3, a4, StartWrite

LEMMA PlanAuto ==
  ASSUME NEW s, NEW c, NEW u, NEW K, C("halted", s, c, u, FALSE, {0}, K) \in Ctl, Steady(K), loc.xlen = XLEN,
         NEW w \in Seq(Val)
  PROVE  Plan(C("halted", s, c, u, FALSE, {0}, K), AutoOn \o local("auto_words", w) \o AutoOff,
         C("halted", s, c, u, FALSE, {0}, K))
<1> DEFINE p0 == C("halted", s, c, u, FALSE, {0}, K)
           p1 == C("halted", s, c, u, FALSE, {0}, K \cup {"auto"})
           a1 == AutoOn
           p2 == C("halted", s, c, u, FALSE, {0}, (K \cup {"auto"}) \ {"cmderr"})
           a2 == local("auto_words", w)
           p3 == C("halted", s, c, u, FALSE, {0}, ((K \cup {"auto"}) \ {"cmderr"}) \ {"auto"})
           a3 == AutoOff
<1>s. {"xlen", "command"} \subseteq K \cup {"auto"} /\ "auto" \in K \cup {"auto"}
      /\ ((K \cup {"auto"}) \ {"cmderr"}) \ {"auto"} = K
  BY DEF Steady
<1>0. p0 \in Ctl
  OBVIOUS
<1>1. Plan(p0, a1, p1) /\ p1 \in Ctl
  <2>1. Plan(p0, a1, p1)
    BY <1>0, PlanAutoOn
  <2> QED BY <2>1, PlanEnds
<1>2. Plan(p1, a2, p2) /\ p2 \in Ctl
  <2>1. Plan(p1, a2, p2)
    BY <1>1, <1>s, PlanAutoWords
  <2> QED BY <2>1, PlanEnds
<1>3. Plan(p2, a3, p3) /\ p3 \in Ctl
  <2>1. Plan(p2, a3, p3)
    BY <1>2, PlanAutoOff
  <2> QED BY <2>1, PlanEnds
<1>4. p3 = C("halted", s, c, u, FALSE, {0}, K)
  BY <1>s
<1> HIDE DEF p0, p1, p2, p3, a1, a2, a3
<1>5. Plan(p0, a1 \o a2 \o a3, p3)
  <2>2. Plan(p0, a1 \o a2, p2)
    BY <1>1, <1>2, PlanJoin
  <2>3. Plan(p0, a1 \o a2 \o a3, p3)
    BY <2>2, <1>3, PlanJoin
  <2> QED BY <2>3
<1> QED BY <1>4, <1>5 DEF p0, a1, a2, a3

LEMMA PlanAutoWordsOf ==
  ASSUME NEW s, NEW c, NEW u, NEW K, C("halted", s, c, u, FALSE, {0}, K) \in Ctl, Steady(K), loc.xlen = XLEN,
         NEW w \in Seq(Val)
  PROVE  Plan(C("halted", s, c, u, FALSE, {0}, K), AutoWords(w), C("halted", s, c, u, FALSE, {0}, K))
<1>1. CASE w = <<>>
  BY <1>1, PlanNone DEF AutoWords
<1>2. CASE w # <<>>
  BY <1>2, PlanAuto DEF AutoWords
<1> QED BY <1>1, <1>2

LEMMA PlanWriteChunk ==
  ASSUME NEW s, NEW c, NEW u, NEW k, C("run", s, c, u, FALSE, {0}, k) \in Ctl, Ready \subseteq k,
         "auto" \notin k,
         u \in Harts, u = loc.current_hart, loc.running, loc.xlen = XLEN, NEW K,
           K = (k \cup {"active", "probe"}) \ {"cmderr"}, NEW a \in Int, NEW src \in Seq(Val), src # <<>>
  PROVE  Plan(C("run", s, c, u, FALSE, {0}, k), write_chunk(a, src), C("run", 0, c, u, FALSE, {0}, K))
<1> DEFINE p0 == C("run", s, c, u, FALSE, {0}, k)
           p1 == C("halted", u, c, u, FALSE, {0}, K)
           a1 == halt(loc.current_hart) \o Borrow
           p2 == C("halted", u, c, u, FALSE, {0}, K)
           a2 == StartWrite(a, src[1])
           p3 == C("halted", u, c, u, FALSE, {0}, K)
           a3 == AutoWords(Tail(src))
           p4 == C("halted", u, c, u, FALSE, {0}, K)
           a4 == GiveBack
           p5 == C("run", 0, c, u, FALSE, {0}, K)
           a5 == resume(loc.current_hart)
<1>s. Steady(K) /\ K \cup {"active", "probe"} = K
  BY Begun
<1>n. Words \in 0 .. Words /\ 0 \in 0 .. Words /\ 1 \in Nat
  BY Address
<1>w. src[1] \in Val /\ Tail(src) \in Seq(Val)
  OBVIOUS
<1>0. p0 \in Ctl
  OBVIOUS
<1>1. Plan(p0, a1, p1) /\ p1 \in Ctl
  <2>1. Plan(p0, a1, p1)
    BY <1>0, Begun
  <2> QED BY <2>1, PlanEnds
<1>2. Plan(p1, a2, p2) /\ p2 \in Ctl
  <2>1. Plan(p1, a2, p2)
    BY <1>1, <1>s, <1>w, PlanStartWrite
  <2> QED BY <2>1, PlanEnds
<1>3. Plan(p2, a3, p3) /\ p3 \in Ctl
  <2>1. Plan(p2, a3, p3)
    BY <1>2, <1>s, <1>w, PlanAutoWordsOf
  <2> QED BY <2>1, PlanEnds
<1>4. Plan(p3, a4, p4) /\ p4 \in Ctl
  <2>1. Plan(p3, a4, p4)
    BY <1>3, <1>s, SteadyGiveBack
  <2> QED BY <2>1, PlanEnds
<1>5. Plan(p4, a5, p5) /\ p5 \in Ctl
  <2>1. Plan(p4, a5, p5)
    BY <1>4, <1>s, Ended
  <2> QED BY <2>1, PlanEnds
<1>6. p5 = C("run", 0, c, u, FALSE, {0}, K)
  OBVIOUS
<1> HIDE DEF p0, p1, p2, p3, p4, p5, a1, a2, a3, a4, a5
<1>7. Plan(p0, a1 \o a2 \o a3 \o a4 \o a5, p5)
  <2>2. Plan(p0, a1 \o a2, p2)
    BY <1>1, <1>2, PlanJoin
  <2>3. Plan(p0, a1 \o a2 \o a3, p3)
    BY <2>2, <1>3, PlanJoin
  <2>4. Plan(p0, a1 \o a2 \o a3 \o a4, p4)
    BY <2>3, <1>4, PlanJoin
  <2>5. Plan(p0, a1 \o a2 \o a3 \o a4 \o a5, p5)
    BY <2>4, <1>5, PlanJoin
  <2> QED BY <2>5
<1> QED BY <1>6, <1>7 DEF p0, a1, a2, a3, a4, a5, write_chunk

LEMMA PlanClearChunk ==
  ASSUME NEW s, NEW c, NEW u, NEW k, C("run", s, c, u, FALSE, {0}, k) \in Ctl, Ready \subseteq k,
         "auto" \notin k,
         u \in Harts, u = loc.current_hart, loc.running, loc.xlen = XLEN, NEW K,
           K = (k \cup {"active", "probe"}) \ {"cmderr"}, NEW a \in Int, NEW n \in Nat
  PROVE  Plan(C("run", s, c, u, FALSE, {0}, k), clear_chunk(a, n), C("run", 0, c, u, FALSE, {0}, K))
<1> DEFINE p0 == C("run", s, c, u, FALSE, {0}, k)
           p1 == C("halted", u, c, u, FALSE, {0}, K)
           a1 == halt(loc.current_hart) \o Borrow
           p2 == C("halted", u, c, u, FALSE, {0}, K)
           a2 == DataIs(Long(a))
           p3 == C("halted", u, c, u, FALSE, {0}, K)
           a3 == RUN_AC_OR_DIE(Ac({"TRANSFER", "WRITE"}, loc.xlen, "s0"), <<>>, Words)
           p4 == C("halted", u, c, u, FALSE, {0}, K)
           a4 == DataIs(Long(a + n * chunk_align))
           p5 == C("halted", u, c, u, FALSE, {0}, K)
           a5 == RUN_AC_OR_DIE(Ac({"TRANSFER", "WRITE", "POSTEXEC"}, loc.xlen, "s1"),
             <<STORE("x0", "s0", 0), ADDI("s0", "s0", chunk_align), BNE("s0", "s1", 0 * 4, 2 * 4), EBREAK>>,
               Words)
           p6 == C("halted", u, c, u, FALSE, {0}, K)
           a6 == GiveBack
           p7 == C("run", 0, c, u, FALSE, {0}, K)
           a7 == resume(loc.current_hart)
<1>s. Steady(K) /\ K \cup {"active", "probe"} = K
  BY Begun
<1>n. Words \in 0 .. Words /\ 0 \in 0 .. Words /\ 1 \in Nat
  BY Address
<1>a. a + n * chunk_align \in Int
  <2>1. chunk_align \in Int
    BY DebugModuleAssumption DEF chunk_align
  <2> QED BY <2>1
<1>0. p0 \in Ctl
  OBVIOUS
<1>1. Plan(p0, a1, p1) /\ p1 \in Ctl
  <2>1. Plan(p0, a1, p1)
    BY <1>0, Begun
  <2> QED BY <2>1, PlanEnds
<1>2. Plan(p1, a2, p2) /\ p2 \in Ctl
  <2>1. Plan(p1, a2, p2)
    BY <1>1, Address, PlanData DEF DataIs
  <2> QED BY <2>1, PlanEnds
<1>3. Plan(p2, a3, p3) /\ p3 \in Ctl
  <2>1. Plan(p2, a3, p3)
    BY <1>2, <1>s, Run2, NoProgram
  <2> QED BY <2>1, PlanEnds
<1>4. Plan(p3, a4, p4) /\ p4 \in Ctl
  <2>1. Plan(p3, a4, p4)
    BY <1>3, <1>a, Address, PlanData DEF DataIs
  <2> QED BY <2>1, PlanEnds
<1>5. Plan(p4, a5, p5) /\ p5 \in Ctl
  <2>1. Plan(p4, a5, p5)
    BY <1>4, <1>s, Run2, ClearProgram
  <2> QED BY <2>1, PlanEnds
<1>6. Plan(p5, a6, p6) /\ p6 \in Ctl
  <2>1. Plan(p5, a6, p6)
    BY <1>5, <1>s, SteadyGiveBack
  <2> QED BY <2>1, PlanEnds
<1>7. Plan(p6, a7, p7) /\ p7 \in Ctl
  <2>1. Plan(p6, a7, p7)
    BY <1>6, <1>s, Ended
  <2> QED BY <2>1, PlanEnds
<1>8. p7 = C("run", 0, c, u, FALSE, {0}, K)
  OBVIOUS
<1> HIDE DEF p0, p1, p2, p3, p4, p5, p6, p7, a1, a2, a3, a4, a5, a6, a7
<1>9. Plan(p0, a1 \o a2 \o a3 \o a4 \o a5 \o a6 \o a7, p7)
  <2>2. Plan(p0, a1 \o a2, p2)
    BY <1>1, <1>2, PlanJoin
  <2>3. Plan(p0, a1 \o a2 \o a3, p3)
    BY <2>2, <1>3, PlanJoin
  <2>4. Plan(p0, a1 \o a2 \o a3 \o a4, p4)
    BY <2>3, <1>4, PlanJoin
  <2>5. Plan(p0, a1 \o a2 \o a3 \o a4 \o a5, p5)
    BY <2>4, <1>5, PlanJoin
  <2>6. Plan(p0, a1 \o a2 \o a3 \o a4 \o a5 \o a6, p6)
    BY <2>5, <1>6, PlanJoin
  <2>7. Plan(p0, a1 \o a2 \o a3 \o a4 \o a5 \o a6 \o a7, p7)
    BY <2>6, <1>7, PlanJoin
  <2> QED BY <2>7
<1> QED BY <1>8, <1>9 DEF p0, a1, a2, a3, a4, a5, a6, a7, clear_chunk

\* The first command after the halt.
LEMMA FirstRun ==
  ASSUME NEW u, NEW c, NEW k, C("halted", u, c, u, FALSE, {0}, k \cup {"active", "probe"}) \in Ctl,
         Ready \subseteq k, "auto" \notin k,
         loc.xlen = XLEN, NEW K, K = (k \cup {"active", "probe"}) \ {"cmderr"}, NEW prog, Program(prog),
           NEW n \in {0, Words}
  PROVE  Plan(C("halted", u, c, u, FALSE, {0}, k \cup {"active", "probe"}),
              RUN_AC_OR_DIE(Ac({"POSTEXEC", "TRANSFER", "WRITE"}, loc.xlen, "x0"), prog, n),
                C("halted", u, c, u, FALSE, {0}, K))
<1> DEFINE k1 == k \cup {"active", "probe"}
           f == {"POSTEXEC", "TRANSFER", "WRITE"}
           r == "x0"
<1>1. "command" \in k1 /\ "auto" \notin k1 /\ k1 \ {"cmderr"} = K
  BY DEF Ready
<1>2. "TRANSFER" \in f /\ r \in RegName /\ n \in 0 .. Words
  BY Address DEF RegName
<1> HIDE DEF k1, f, r
<1>3. ASSUME C("halted", u, c, u, FALSE, {0}, k1) \in Ctl
      PROVE  Plan(C("halted", u, c, u, FALSE, {0}, k1), RUN_AC_OR_DIE(Ac(f, loc.xlen, r), prog, n),
             C("halted", u, c, u, FALSE, {0}, k1 \ {"cmderr"}))
  BY <1>1, <1>2, <1>3, PlanRun
<1> QED BY <1>1, <1>3 DEF k1, f, r

LEMMA PlanModifyCsr ==
  ASSUME NEW s, NEW c, NEW u, NEW k, C("run", s, c, u, FALSE, {0}, k) \in Ctl, Ready \subseteq k,
         "auto" \notin k,
         u \in Harts, u = loc.current_hart, loc.running, loc.xlen = XLEN, NEW K,
           K = (k \cup {"active", "probe"}) \ {"cmderr"},
         loc.data_base \in Int, NEW w \in CsrName, NEW v \in Val, NEW o \in CsrOps
  PROVE  Plan(C("run", s, c, u, FALSE, {0}, k), modify_csr(w, v, o), C("run", 0, c, u, FALSE, {0}, K))
<1> DEFINE p0 == C("run", s, c, u, FALSE, {0}, k)
           p1 == C("halted", u, c, u, FALSE, {0}, k \cup {"active", "probe"})
           a1 == halt(loc.current_hart)
           p2 == C("halted", u, c, u, FALSE, {0}, k \cup {"active", "probe"})
           a2 == DataIs(v)
           p3 == C("halted", u, c, u, FALSE, {0}, K)
           a3 == RUN_AC_OR_DIE(Ac({"POSTEXEC", "TRANSFER", "WRITE"}, loc.xlen, "x0"),
             <<CSRRx("csrrw", "s0", "dscratch0", "s0"), LOAD("s0", "x0", loc.data_base),
               CSRRx(o, "s0", w, "s0"), STORE("s0", "x0", loc.data_base),
                 CSRRx("csrrw", "s0", "dscratch0", "s0"), EBREAK>>, Words)
           p4 == C("halted", u, c, u, FALSE, {0}, K)
           a4 == ReadData(Words)
           p5 == C("run", 0, c, u, FALSE, {0}, K)
           a5 == resume(loc.current_hart)
<1>s. Steady(K) /\ K \cup {"active", "probe"} = K
  BY Begun
<1>n. Words \in 0 .. Words /\ 0 \in 0 .. Words /\ 1 \in Nat
  BY Address
<1>0. p0 \in Ctl
  OBVIOUS
<1>1. Plan(p0, a1, p1) /\ p1 \in Ctl
  <2>1. Plan(p0, a1, p1)
    BY <1>0, Begun
  <2> QED BY <2>1, PlanEnds
<1>2. Plan(p1, a2, p2) /\ p2 \in Ctl
  <2>1. Plan(p1, a2, p2)
    BY <1>1, PlanData DEF DataIs
  <2> QED BY <2>1, PlanEnds
<1>3. Plan(p2, a3, p3) /\ p3 \in Ctl
  <2>1. Plan(p2, a3, p3)
    BY <1>2, FirstRun, CsrProgram
  <2> QED BY <2>1, PlanEnds
<1>4. Plan(p3, a4, p4) /\ p4 \in Ctl
  <2>1. Plan(p3, a4, p4)
    BY <1>3, <1>n, PlanReadData
  <2> QED BY <2>1, PlanEnds
<1>5. Plan(p4, a5, p5) /\ p5 \in Ctl
  <2>1. Plan(p4, a5, p5)
    BY <1>4, <1>s, Ended
  <2> QED BY <2>1, PlanEnds
<1>6. p5 = C("run", 0, c, u, FALSE, {0}, K)
  OBVIOUS
<1> HIDE DEF p0, p1, p2, p3, p4, p5, a1, a2, a3, a4, a5
<1>7. Plan(p0, a1 \o a2 \o a3 \o a4 \o a5, p5)
  <2>2. Plan(p0, a1 \o a2, p2)
    BY <1>1, <1>2, PlanJoin
  <2>3. Plan(p0, a1 \o a2 \o a3, p3)
    BY <2>2, <1>3, PlanJoin
  <2>4. Plan(p0, a1 \o a2 \o a3 \o a4, p4)
    BY <2>3, <1>4, PlanJoin
  <2>5. Plan(p0, a1 \o a2 \o a3 \o a4 \o a5, p5)
    BY <2>4, <1>5, PlanJoin
  <2> QED BY <2>5
<1> QED BY <1>6, <1>7 DEF p0, a1, a2, a3, a4, a5, modify_csr

LEMMA PlanFence ==
  ASSUME NEW s, NEW c, NEW u, NEW k, C("run", s, c, u, FALSE, {0}, k) \in Ctl, Ready \subseteq k,
         "auto" \notin k,
         u \in Harts, u = loc.current_hart, loc.running, loc.xlen = XLEN, NEW K,
           K = (k \cup {"active", "probe"}) \ {"cmderr"}
  PROVE  Plan(C("run", s, c, u, FALSE, {0}, k), fence_i, C("run", 0, c, u, FALSE, {0}, K))
<1> DEFINE p0 == C("run", s, c, u, FALSE, {0}, k)
           p1 == C("halted", u, c, u, FALSE, {0}, k \cup {"active", "probe"})
           a1 == halt(loc.current_hart)
           p2 == C("halted", u, c, u, FALSE, {0}, K)
           a2 == RUN_AC_OR_DIE(Ac({"POSTEXEC", "TRANSFER", "WRITE"}, loc.xlen, "x0"), <<FENCE_I, EBREAK>>, 0)
           p3 == C("run", 0, c, u, FALSE, {0}, K)
           a3 == resume(loc.current_hart)
<1>s. Steady(K) /\ K \cup {"active", "probe"} = K
  BY Begun
<1>n. Words \in 0 .. Words /\ 0 \in 0 .. Words /\ 1 \in Nat
  BY Address
<1>0. p0 \in Ctl
  OBVIOUS
<1>1. Plan(p0, a1, p1) /\ p1 \in Ctl
  <2>1. Plan(p0, a1, p1)
    BY <1>0, Begun
  <2> QED BY <2>1, PlanEnds
<1>2. Plan(p1, a2, p2) /\ p2 \in Ctl
  <2>1. Plan(p1, a2, p2)
    BY <1>1, FirstRun, FenceProgram
  <2> QED BY <2>1, PlanEnds
<1>3. Plan(p2, a3, p3) /\ p3 \in Ctl
  <2>1. Plan(p2, a3, p3)
    BY <1>2, <1>s, Ended
  <2> QED BY <2>1, PlanEnds
<1>4. p3 = C("run", 0, c, u, FALSE, {0}, K)
  OBVIOUS
<1> HIDE DEF p0, p1, p2, p3, a1, a2, a3
<1>5. Plan(p0, a1 \o a2 \o a3, p3)
  <2>2. Plan(p0, a1 \o a2, p2)
    BY <1>1, <1>2, PlanJoin
  <2>3. Plan(p0, a1 \o a2 \o a3, p3)
    BY <2>2, <1>3, PlanJoin
  <2> QED BY <2>3
<1> QED BY <1>4, <1>5 DEF p0, a1, a2, a3, fence_i

\* Steps that stand for others.
LEMMA PlanWord ==
  ASSUME NEW s, NEW c, NEW u, NEW K, C("halted", s, c, u, FALSE, {0}, K) \in Ctl,
         {"auto", "command"} \subseteq K, loc.xlen = XLEN, NEW v \in Val
  PROVE  Plan(C("halted", s, c, u, FALSE, {0}, K), AutoWord(v),
         C("halted", s, c, u, FALSE, {0}, K \ {"cmderr"}))
<1> DEFINE p0 == C("halted", s, c, u, FALSE, {0}, K)
           p1 == C("halted", s, c, u, FALSE, {0}, K)
           a1 == DataIs(v)
           p2 == C("halted", s, c, u, FALSE, {0}, K)
           a2 == (IF loc.xlen = 64 THEN write_word(<<"DATA", 1>>, "data", 2) ELSE <<>>)
           p3 == C("halted", s, c, u, TRUE, {0, EXCEPTION}, K \ {"cmderr"})
           a3 == write_word(<<"DATA", 0>>, "data", 1)
           p4 == C("halted", s, c, u, FALSE, {0, EXCEPTION}, (K \ {"cmderr"}) \cup {"cmderr"})
           a4 == until(Reg("ABSTRACTCS"), "idle")
           p5 == C("halted", s, c, u, FALSE, {0}, ((K \ {"cmderr"}) \cup {"cmderr"}) \ {"cmderr"})
           a5 == local("check", 0)
<1>w. loc.xlen = 64 => Words = 2
  BY DEF Words
<1>0. p0 \in Ctl
  OBVIOUS
<1>1. Plan(p0, a1, p1) /\ p1 \in Ctl
  <2>1. Plan(p0, a1, p1)
    BY <1>0, PlanData DEF DataIs
  <2> QED BY <2>1, PlanEnds
<1>2. Plan(p1, a2, p2) /\ p2 \in Ctl
  <2>1. Plan(p1, a2, p2)
    BY <1>1, <1>w, PlanAutoHigh, PlanNone
  <2> QED BY <2>1, PlanEnds
<1>3. Plan(p2, a3, p3) /\ p3 \in Ctl
  <2>1. Plan(p2, a3, p3)
    BY <1>2, PlanAutoData
  <2> QED BY <2>1, PlanEnds
<1>4. Plan(p3, a4, p4) /\ p4 \in Ctl
  <2>1. Plan(p3, a4, p4)
    BY <1>3, PlanIdle
  <2> QED BY <2>1, PlanEnds
<1>5. Plan(p4, a5, p5) /\ p5 \in Ctl
  <2>1. Plan(p4, a5, p5)
    BY <1>4, PlanCheck
  <2> QED BY <2>1, PlanEnds
<1>6. p5 = C("halted", s, c, u, FALSE, {0}, K \ {"cmderr"})
  OBVIOUS
<1> HIDE DEF p0, p1, p2, p3, p4, p5, a1, a2, a3, a4, a5
<1>7. Plan(p0, a1 \o a2 \o a3 \o a4 \o a5, p5)
  <2>2. Plan(p0, a1 \o a2, p2)
    BY <1>1, <1>2, PlanJoin
  <2>3. Plan(p0, a1 \o a2 \o a3, p3)
    BY <2>2, <1>3, PlanJoin
  <2>4. Plan(p0, a1 \o a2 \o a3 \o a4, p4)
    BY <2>3, <1>4, PlanJoin
  <2>5. Plan(p0, a1 \o a2 \o a3 \o a4 \o a5, p5)
    BY <2>4, <1>5, PlanJoin
  <2> QED BY <2>5
<1> QED BY <1>6, <1>7 DEF p0, a1, a2, a3, a4, a5, AutoWord

LEMMA PlanNextWords ==
  ASSUME NEW s, NEW c, NEW u, NEW K, C("halted", s, c, u, FALSE, {0}, K) \in Ctl,
         {"auto", "command", "xlen"} \subseteq K, loc.xlen = XLEN,
         NEW w \in Seq(Val), "cmderr" \notin K
  PROVE  Plan(C("halted", s, c, u, FALSE, {0}, K), NextWords(w), C("halted", s, c, u, FALSE, {0}, K))
<1> DEFINE p == C("halted", s, c, u, FALSE, {0}, K)
<1>0. K \ {"cmderr"} = K
  OBVIOUS
<1>1. CASE w = <<>>
  BY <1>1, PlanNone DEF NextWords
<1>2. CASE w # <<>>
  <2>1. Head(w) \in Val /\ Tail(w) \in Seq(Val)
    BY <1>2
  <2>2. Plan(p, AutoWord(Head(w)), C("halted", s, c, u, FALSE, {0}, K \ {"cmderr"}))
    BY <2>1, PlanWord
  <2>3. Plan(p, local("auto_words", Tail(w)), C("halted", s, c, u, FALSE, {0}, K \ {"cmderr"}))
    BY <2>1, PlanAutoWords
  <2>4. Plan(p, AutoWord(Head(w)), p) /\ Plan(p, local("auto_words", Tail(w)), p)
    BY <1>0, <2>2, <2>3
  <2> HIDE DEF p
  <2>5. Plan(p, AutoWord(Head(w)) \o local("auto_words", Tail(w)), p)
    BY <2>4, PlanJoin
  <2> QED BY <2>5, <1>2 DEF NextWords, p
<1> QED BY <1>1, <1>2

LEMMA PlanReadOne ==
  ASSUME NEW s, NEW c, NEW u, NEW K, C("halted", s, c, u, FALSE, {0}, K) \in Ctl, Steady(K), loc.xlen = XLEN,
         NEW i \in Nat, NEW n \in Nat
  PROVE  Plan(C("halted", s, c, u, FALSE, {0}, K),
         RUN_AC_OR_DIE(Ac({"TRANSFER"} \cup (IF i < n THEN {"POSTEXEC"} ELSE {}), loc.xlen, "s1"), <<>>, Words)
              \o local("memcpy", i) \o local("read_words", <<i + 1, n>>), C("halted", s, c, u, FALSE, {0}, K))
<1> DEFINE p0 == C("halted", s, c, u, FALSE, {0}, K)
           p1 == C("halted", s, c, u, FALSE, {0}, K)
           a1 == RUN_AC_OR_DIE(Ac({"TRANSFER"} \cup (IF i < n THEN {"POSTEXEC"} ELSE {}), loc.xlen, "s1"),
             <<>>, Words)
           p2 == C("halted", s, c, u, FALSE, {0}, K)
           a2 == local("memcpy", i)
           p3 == C("halted", s, c, u, FALSE, {0}, K)
           a3 == local("read_words", <<i + 1, n>>)
<1>f. ({"TRANSFER"} \cup (IF i < n THEN {"POSTEXEC"} ELSE {})) \in Flags /\ "s1" \in RegName
  BY DEF Flags, RegName
<1>i. i + 1 \in Nat
  OBVIOUS
<1>0. p0 \in Ctl
  OBVIOUS
<1>1. Plan(p0, a1, p1) /\ p1 \in Ctl
  <2>1. Plan(p0, a1, p1)
    BY <1>0, <1>f, NoProgram, Run1
  <2> QED BY <2>1, PlanEnds
<1>2. Plan(p1, a2, p2) /\ p2 \in Ctl
  <2>1. Plan(p1, a2, p2)
    BY <1>1, PlanCopied
  <2> QED BY <2>1, PlanEnds
<1>3. Plan(p2, a3, p3) /\ p3 \in Ctl
  <2>1. Plan(p2, a3, p3)
    BY <1>2, <1>i, SteadyReadWords
  <2> QED BY <2>1, PlanEnds
<1>4. p3 = C("halted", s, c, u, FALSE, {0}, K)
  OBVIOUS
<1> HIDE DEF p0, p1, p2, p3, a1, a2, a3
<1>5. Plan(p0, a1 \o a2 \o a3, p3)
  <2>2. Plan(p0, a1 \o a2, p2)
    BY <1>1, <1>2, PlanJoin
  <2>3. Plan(p0, a1 \o a2 \o a3, p3)
    BY <2>2, <1>3, PlanJoin
  <2> QED BY <2>3
<1> QED BY <1>4, <1>5 DEF p0, a1, a2, a3

LEMMA PlanNextReads ==
  ASSUME NEW s, NEW c, NEW u, NEW K, C("halted", s, c, u, FALSE, {0}, K) \in Ctl, Steady(K), loc.xlen = XLEN,
         NEW i \in Nat, NEW n \in Nat
  PROVE  Plan(C("halted", s, c, u, FALSE, {0}, K), ReadWords(i, n), C("halted", s, c, u, FALSE, {0}, K))
<1>1. CASE i > n
  BY <1>1, PlanNone DEF ReadWords
<1>2. CASE ~ (i > n)
  BY <1>2, PlanReadOne DEF ReadWords
<1> QED BY <1>1, <1>2

----------------------------------------------------------------------------
(* The plan of the boot.                                                   *)

LEMMA Moves == ASSUME NEW n \in Tried
               PROVE  LET x == Ac({"TRANSFER"}, n, "s0")
                      IN  x \in Command /\ x.transfer /\ x.size = n /\ x.postexec = FALSE /\ x.write = FALSE
<1> DEFINE w == "WRITE" \in {"TRANSFER"}
           t == "TRANSFER" \in {"TRANSFER"}
           e == "POSTEXEC" \in {"TRANSFER"}
           r == "s0"
           x == Ac({"TRANSFER"}, n, "s0")
<1>1. w = FALSE /\ t = TRUE /\ e = FALSE
  OBVIOUS
<1>2. n \in Int /\ r \in RegName
  BY DEF RegName, Tried
<1>3. x = [write |-> w, transfer |-> t, postexec |-> e, size |-> n, reg |-> r]
  BY DEF Ac
<1> HIDE DEF w, t, e, r, x
<1>4. x \in Command /\ x.transfer = t /\ x.size = n /\ x.postexec = e /\ x.write = w
  BY <1>1, <1>2, <1>3 DEF Command
<1> QED BY <1>1, <1>4 DEF x

LEMMA PlanRightSize ==
  ASSUME NEW s, NEW c, NEW u, NEW k, C("halted", s, c, u, FALSE, {0}, k) \in Ctl, "auto" \notin k,
         "running" \notin k, NEW n \in Tried, n = XLEN
  PROVE  Plan(C("halted", s, c, u, FALSE, {0}, k), TrySize(n),
         C("halted", s, c, u, FALSE, {0}, (k \ {"cmderr"}) \cup {"xlen", "command"}))
<1> DEFINE x == Ac({"TRANSFER"}, n, "s0")
           z == 0
           K == ((k \ {"cmderr"}) \cup {"command"}) \cup {"cmderr"}
           E == IF x.postexec THEN {0, EXCEPTION} ELSE {0}
           p0 == C("halted", s, c, u, FALSE, {0}, k)
           p1 == C("halted", s, c, u, FALSE, E, K)
           a1 == run_abstract_command(x, <<>>, z)
           p2 == C("halted", s, c, u, FALSE, {0}, (K \ {"cmderr"}) \cup {"xlen", "command"})
           a2 == local("size", n)
<1>x. x \in Command /\ x.transfer /\ x.size = n /\ x.postexec = FALSE /\ x.write = FALSE
  BY Moves
<1>z. z \in 0 .. Words /\ E = {0}
  BY Address, <1>x
<1>k. "cmderr" \in K /\ "command" \in K /\ "auto" \notin K /\ "running" \notin K
      /\ (K \ {"cmderr"}) \cup {"xlen", "command"} = (k \ {"cmderr"}) \cup {"xlen", "command"}
  OBVIOUS
<1> HIDE DEF x, z
<1>0. p0 \in Ctl
  OBVIOUS
<1>1. Plan(p0, a1, p1) /\ p1 \in Ctl
  <2>1. Plan(p0, a1, p1)
    BY <1>0, <1>x, <1>z, NoProgram, PlanCommandRun
  <2> QED BY <2>1, PlanEnds
<1> HIDE DEF K, E
<1>2. Plan(p1, a2, p2) /\ p2 \in Ctl
  <2>1. Plan(p1, a2, p2)
    BY <1>1, <1>z, <1>k, PlanSize
  <2> QED BY <2>1, PlanEnds
<1>3. p2 = C("halted", s, c, u, FALSE, {0}, (k \ {"cmderr"}) \cup {"xlen", "command"})
  BY <1>k
<1> HIDE DEF p0, p1, p2, a1, a2
<1>4. Plan(p0, a1 \o a2, p2)
  <2>2. Plan(p0, a1 \o a2, p2)
    BY <1>1, <1>2, PlanJoin
  <2> QED BY <2>2
<1> QED BY <1>3, <1>4 DEF p0, a1, a2, TrySize, x, z

LEMMA PlanWrongSize ==
  ASSUME NEW s, NEW c, NEW u, NEW k, C("halted", s, c, u, FALSE, {0}, k) \in Ctl, "auto" \notin k,
         "running" \notin k, NEW n \in Tried, n # XLEN
  PROVE  Plan(C("halted", s, c, u, FALSE, {0}, k), TrySize(n),
         C("halted", s, c, u, FALSE, {0}, (k \ {"cmderr"}) \cup {"xlen", "command"}))
<1> DEFINE x == Ac({"TRANSFER"}, n, "s0")
           z == 0
           E == {NOT_SUPPORTED}
           K == k \ {"cmderr"}
           p0 == C("halted", s, c, u, FALSE, {0}, k)
           p1 == C("halted", s, c, u, FALSE, {0}, k)
           a1 == Progbuf(<<>>)
           p2 == C("halted", s, c, u, FALSE, {0}, k)
           a2 == (IF x.write /\ x.transfer THEN WriteData(z) ELSE <<>>)
           p3 == C("halted", s, c, u, FALSE, E, K)
           a3 == write(Reg("COMMAND"), x)
           p4 == C("halted", s, c, u, FALSE, E, K \cup {"cmderr"})
           a4 == until(Reg("ABSTRACTCS"), "idle")
           p5 == C("halted", s, c, u, FALSE, E, K \cup {"cmderr"})
           a5 == (IF ~ x.write /\ x.transfer THEN ReadData(z) ELSE <<>>)
           p6 == C("halted", s, c, u, FALSE, {0}, ((K \cup {"cmderr"}) \ {"cmderr"}) \cup {"xlen", "command"})
           a6 == local("size", n)
<1>x. x \in Command /\ x.transfer /\ x.size # XLEN /\ x.postexec = FALSE /\ x.write = FALSE
  BY Moves
<1>z. z \in 0 .. Words /\ (IF ~ x.write /\ x.transfer THEN ReadData(z) ELSE <<>>) = ReadData(z)
  BY Address, <1>x
<1>e. E = {NOT_SUPPORTED} /\ "auto" \notin K /\ "running" \notin K
      /\ ((K \cup {"cmderr"}) \ {"cmderr"}) \cup {"xlen", "command"} = (k \ {"cmderr"}) \cup {"xlen", "command"}
  OBVIOUS
<1> HIDE DEF x, z, E, K
<1>0. p0 \in Ctl
  OBVIOUS
<1>1. Plan(p0, a1, p1) /\ p1 \in Ctl
  <2>1. Plan(p0, a1, p1)
    BY <1>0, PlanProgbuf, NoProgram
  <2> QED BY <2>1, PlanEnds
<1>2. Plan(p1, a2, p2) /\ p2 \in Ctl
  <2>1. Plan(p1, a2, p2)
    BY <1>1, <1>x, PlanNone
  <2> QED BY <2>1, PlanEnds
<1>3. Plan(p2, a3, p3) /\ p3 \in Ctl
  <2>1. Plan(p2, a3, p3)
    BY <1>2, <1>x, PlanUnsupported DEF K, E
  <2> QED BY <2>1, PlanEnds
<1>4. Plan(p3, a4, p4) /\ p4 \in Ctl
  <2>1. Plan(p3, a4, p4)
    BY <1>3, PlanIdle
  <2> QED BY <2>1, PlanEnds
<1>5. Plan(p4, a5, p5) /\ p5 \in Ctl
  <2>1. Plan(p4, a5, p5)
    BY <1>4, <1>z, PlanReadData
  <2> QED BY <2>1, PlanEnds
<1>6. Plan(p5, a6, p6) /\ p6 \in Ctl
  <2>1. Plan(p5, a6, p6)
    BY <1>5, <1>e, PlanSize
  <2> QED BY <2>1, PlanEnds
<1>7. p6 = C("halted", s, c, u, FALSE, {0}, (k \ {"cmderr"}) \cup {"xlen", "command"})
  BY <1>e
<1> HIDE DEF p0, p1, p2, p3, p4, p5, p6, a1, a2, a3, a4, a5, a6
<1>8. Plan(p0, a1 \o a2 \o a3 \o a4 \o a5 \o a6, p6)
  <2>2. Plan(p0, a1 \o a2, p2)
    BY <1>1, <1>2, PlanJoin
  <2>3. Plan(p0, a1 \o a2 \o a3, p3)
    BY <2>2, <1>3, PlanJoin
  <2>4. Plan(p0, a1 \o a2 \o a3 \o a4, p4)
    BY <2>3, <1>4, PlanJoin
  <2>5. Plan(p0, a1 \o a2 \o a3 \o a4 \o a5, p5)
    BY <2>4, <1>5, PlanJoin
  <2>6. Plan(p0, a1 \o a2 \o a3 \o a4 \o a5 \o a6, p6)
    BY <2>5, <1>6, PlanJoin
  <2> QED BY <2>6
<1> QED BY <1>7, <1>8 DEF p0, a1, a2, a3, a4, a5, a6, run_abstract_command, TrySize, x, z

LEMMA PlanTrySize ==
  ASSUME NEW s, NEW c, NEW u, NEW k, C("halted", s, c, u, FALSE, {0}, k) \in Ctl, "auto" \notin k,
         "running" \notin k, NEW n \in Tried
  PROVE  Plan(C("halted", s, c, u, FALSE, {0}, k), TrySize(n),
         C("halted", s, c, u, FALSE, {0}, (k \ {"cmderr"}) \cup {"xlen", "command"}))
<1>1. CASE n = XLEN
  BY <1>1, PlanRightSize
<1>2. CASE n # XLEN
  BY <1>2, PlanWrongSize
<1> QED BY <1>1, <1>2

LEMMA PlanEnumerateHarts ==
  ASSUME NEW s, NEW c, NEW u, NEW k, C("run", s, c, u, FALSE, {0}, k) \in Ctl, "active" \in k, s # Unknown
  PROVE  Plan(C("run", s, c, u, FALSE, {0}, k), enumerate_harts,
         C("run", Unknown, Unknown, Unknown, FALSE, {0}, (k \ {"probe"}) \cup {"max", "harts"}))
<1> DEFINE h == 1023
           z == 0
           p0 == C("run", s, c, u, FALSE, {0}, k)
           p1 == C("run", s, s, u, FALSE, {0}, k)
           a1 == read(Reg("DMCONTROL"), "dmcontrol")
           p2 == C("run", s, h, u, FALSE, {0}, k)
           a2 == local("hartsel", h)
           p3 == C("run", Clamp(h), h, u, FALSE, {0}, (k \ {"probe"}) \cup {"active"})
           a3 == write_word(Reg("DMCONTROL"), "dmcontrol", 0)
           p4 == C("run", Clamp(h), h, u, FALSE, {0}, ((k \ {"probe"}) \cup {"active"}) \cup {"probe"})
           a4 == read(Reg("DMSTATUS"), "dmstatus")
           p5 == C("run", Clamp(h), Clamp(h), u, FALSE, {0}, ((k \ {"probe"}) \cup {"active"}) \cup {"probe"})
           a5 == read(Reg("DMCONTROL"), "dmcontrol")
           p6 == C("run", Clamp(h), Clamp(h), u, FALSE, {0},
             (((k \ {"probe"}) \cup {"active"}) \cup {"probe"}) \cup {"max"})
           a6 == local("max_hart", 0)
           p7 == C("run", Unknown, Unknown, Unknown, FALSE, {0},
             (((((k \ {"probe"}) \cup {"active"}) \cup {"probe"}) \cup {"max"}) \ {"probe"}) \cup {"harts"})
           a7 == local("enumerate", z)
<1>m. Clamp(h) = HartselMax /\ Clamp(h) # Unknown /\ z \in 0 .. NHarts /\ h \in Nat
  BY DebugModuleAssumption, Sizes DEF Clamp, Unknown
<1> HIDE DEF h, z
<1>0. p0 \in Ctl
  OBVIOUS
<1>1. Plan(p0, a1, p1) /\ p1 \in Ctl
  <2>1. Plan(p0, a1, p1)
    BY <1>0, PlanReadControl
  <2> QED BY <2>1, PlanEnds
<1>2. Plan(p1, a2, p2) /\ p2 \in Ctl
  <2>1. Plan(p1, a2, p2)
    BY <1>1, <1>m, PlanHartsel
  <2> QED BY <2>1, PlanEnds
<1>3. Plan(p2, a3, p3) /\ p3 \in Ctl
  <2>1. Plan(p2, a3, p3)
    BY <1>2, <1>m, PlanNameWord
  <2> QED BY <2>1, PlanEnds
<1>4. Plan(p3, a4, p4) /\ p4 \in Ctl
  <2>1. Plan(p3, a4, p4)
    BY <1>3, PlanReadStatus
  <2> QED BY <2>1, PlanEnds
<1>5. Plan(p4, a5, p5) /\ p5 \in Ctl
  <2>1. Plan(p4, a5, p5)
    BY <1>4, <1>m, PlanReadControl
  <2> QED BY <2>1, PlanEnds
<1>6. Plan(p5, a6, p6) /\ p6 \in Ctl
  <2>1. Plan(p5, a6, p6)
    BY <1>5, <1>m, PlanMax
  <2> QED BY <2>1, PlanEnds
<1>7. Plan(p6, a7, p7) /\ p7 \in Ctl
  <2>1. Plan(p6, a7, p7)
    BY <1>6, <1>m, PlanEnumerate
  <2> QED BY <2>1, PlanEnds
<1>8. p7 = C("run", Unknown, Unknown, Unknown, FALSE, {0}, (k \ {"probe"}) \cup {"max", "harts"})
  OBVIOUS
<1> HIDE DEF p0, p1, p2, p3, p4, p5, p6, p7, a1, a2, a3, a4, a5, a6, a7
<1>9. Plan(p0, a1 \o a2 \o a3 \o a4 \o a5 \o a6 \o a7, p7)
  <2>2. Plan(p0, a1 \o a2, p2)
    BY <1>1, <1>2, PlanJoin
  <2>3. Plan(p0, a1 \o a2 \o a3, p3)
    BY <2>2, <1>3, PlanJoin
  <2>4. Plan(p0, a1 \o a2 \o a3 \o a4, p4)
    BY <2>3, <1>4, PlanJoin
  <2>5. Plan(p0, a1 \o a2 \o a3 \o a4 \o a5, p5)
    BY <2>4, <1>5, PlanJoin
  <2>6. Plan(p0, a1 \o a2 \o a3 \o a4 \o a5 \o a6, p6)
    BY <2>5, <1>6, PlanJoin
  <2>7. Plan(p0, a1 \o a2 \o a3 \o a4 \o a5 \o a6 \o a7, p7)
    BY <2>6, <1>7, PlanJoin
  <2> QED BY <2>7
<1> QED BY <1>8, <1>9 DEF p0, a1, a2, a3, a4, a5, a6, a7, enumerate_harts, h, z

LEMMA PlanConnect ==
  ASSUME C("run", 0, 0, 0, FALSE, {0}, {}) \in Ctl
  PROVE  Plan(C("run", 0, 0, 0, FALSE, {0}, {}),
         write(Reg("DMCONTROL"), DMACTIVE) \o until(Reg("DMCONTROL"), "dmactive")
           \o read(Reg("ABSTRACTCS"), "abstractcs")
              \o read(Reg("HARTINFO"), "hartinfo") \o local("data_base", 0),
                C("run", 0, 0, 0, FALSE, {0}, {"active", "info", "base"}))
<1> DEFINE p0 == C("run", 0, 0, 0, FALSE, {0}, {})
           p1 == C("run", 0, 0, 0, FALSE, {0}, (({} \ {"probe"}) \cup {"active"}))
           a1 == write(Reg("DMCONTROL"), DMACTIVE)
           p2 == C("run", 0, 0, 0, FALSE, {0}, (({} \ {"probe"}) \cup {"active"}))
           a2 == until(Reg("DMCONTROL"), "dmactive")
           p3 == C("run", 0, 0, 0, FALSE, {0}, (({} \ {"probe"}) \cup {"active"}) \ {"cmderr"})
           a3 == read(Reg("ABSTRACTCS"), "abstractcs")
           p4 == C("run", 0, 0, 0, FALSE, {0}, ((({} \ {"probe"}) \cup {"active"}) \ {"cmderr"}) \cup {"info"})
           a4 == read(Reg("HARTINFO"), "hartinfo")
           p5 == C("run", 0, 0, 0, FALSE, {0},
             (((({} \ {"probe"}) \cup {"active"}) \ {"cmderr"}) \cup {"info"}) \cup {"base"})
           a5 == local("data_base", 0)
<1>0. p0 \in Ctl
  OBVIOUS
<1>1. Plan(p0, a1, p1) /\ p1 \in Ctl
  <2>1. Plan(p0, a1, p1)
    BY <1>0, PlanName, Whole
  <2> QED BY <2>1, PlanEnds
<1>2. Plan(p1, a2, p2) /\ p2 \in Ctl
  <2>1. Plan(p1, a2, p2)
    BY <1>1, PlanActive
  <2> QED BY <2>1, PlanEnds
<1>3. Plan(p2, a3, p3) /\ p3 \in Ctl
  <2>1. Plan(p2, a3, p3)
    BY <1>2, PlanReadAbstract
  <2> QED BY <2>1, PlanEnds
<1>4. Plan(p3, a4, p4) /\ p4 \in Ctl
  <2>1. Plan(p3, a4, p4)
    BY <1>3, PlanReadInfo
  <2> QED BY <2>1, PlanEnds
<1>5. Plan(p4, a5, p5) /\ p5 \in Ctl
  <2>1. Plan(p4, a5, p5)
    BY <1>4, PlanBase
  <2> QED BY <2>1, PlanEnds
<1>6. p5 = C("run", 0, 0, 0, FALSE, {0}, {"active", "info", "base"})
  OBVIOUS
<1> HIDE DEF p0, p1, p2, p3, p4, p5, a1, a2, a3, a4, a5
<1>7. Plan(p0, a1 \o a2 \o a3 \o a4 \o a5, p5)
  <2>2. Plan(p0, a1 \o a2, p2)
    BY <1>1, <1>2, PlanJoin
  <2>3. Plan(p0, a1 \o a2 \o a3, p3)
    BY <2>2, <1>3, PlanJoin
  <2>4. Plan(p0, a1 \o a2 \o a3 \o a4, p4)
    BY <2>3, <1>4, PlanJoin
  <2>5. Plan(p0, a1 \o a2 \o a3 \o a4 \o a5, p5)
    BY <2>4, <1>5, PlanJoin
  <2> QED BY <2>5
<1> QED BY <1>6, <1>7 DEF p0, a1, a2, a3, a4, a5

LEMMA PlanBoot ==
  ASSUME C("run", 0, 0, 0, FALSE, {0}, {}) \in Ctl, ~ loc.running
  PROVE  Plan(C("run", 0, 0, 0, FALSE, {0}, {}), Boot,
         C("run", 0, Unknown, 0, FALSE, {0},
           {"active", "info", "base", "max", "harts", "probe", "xlen", "command", "running"}))
<1> DEFINE z == 0
           n == 128
           k1 == {"active", "info", "base"}
           k2 == (k1 \ {"probe"}) \cup {"max", "harts"}
           k3 == k2 \cup {"active", "probe"}
           k4 == (k3 \ {"cmderr"}) \cup {"xlen", "command"}
           k5 == k4 \cup {"active", "probe"}
           k6 == k5 \cup {"running"}
           p0 == C("run", 0, 0, 0, FALSE, {0}, {})
           p1 == C("run", z, z, z, FALSE, {0}, k1)
           a1 == write(Reg("DMCONTROL"), DMACTIVE) \o until(Reg("DMCONTROL"), "dmactive")
             \o read(Reg("ABSTRACTCS"), "abstractcs")
                   \o read(Reg("HARTINFO"), "hartinfo") \o local("data_base", 0)
           p2 == C("run", Unknown, Unknown, Unknown, FALSE, {0}, k2)
           a2 == enumerate_harts
           p3 == C("halted", z, Unknown, z, FALSE, {0}, k3)
           a3 == halt(z)
           p4 == C("halted", z, Unknown, z, FALSE, {0}, k4)
           a4 == TrySize(n)
           p5 == C("run", z, Unknown, z, FALSE, {0}, k5)
           a5 == resume(z)
           p6 == C("run", z, Unknown, z, FALSE, {0}, k6)
           a6 == local("running", 0)
<1>k. /\ "active" \in k1 /\ z # Unknown /\ z \in Harts /\ n \in Tried
      /\ "auto" \notin k3 /\ "running" \notin k3
  BY Whole, DebugModuleAssumption DEF Unknown, Tried
<1>f. k6 = {"active", "info", "base", "max", "harts", "probe", "xlen", "command", "running"}
  OBVIOUS
<1> HIDE DEF z, n, k1, k2, k3, k4, k5, k6
<1>0. p0 \in Ctl
  OBVIOUS
<1>1. Plan(p0, a1, p1) /\ p1 \in Ctl
  <2>1. Plan(p0, a1, p1)
    BY <1>0, PlanConnect DEF z, k1
  <2> QED BY <2>1, PlanEnds
<1>2. Plan(p1, a2, p2) /\ p2 \in Ctl
  <2>1. Plan(p1, a2, p2)
    BY <1>1, <1>k, PlanEnumerateHarts DEF k2
  <2> QED BY <2>1, PlanEnds
<1>3. Plan(p2, a3, p3) /\ p3 \in Ctl
  <2>1. Plan(p2, a3, p3)
    BY <1>2, <1>k, PlanHalt DEF k3
  <2> QED BY <2>1, PlanEnds
<1>4. Plan(p3, a4, p4) /\ p4 \in Ctl
  <2>1. Plan(p3, a4, p4)
    BY <1>3, <1>k, PlanTrySize DEF k4
  <2> QED BY <2>1, PlanEnds
<1>5. Plan(p4, a5, p5) /\ p5 \in Ctl
  <2>1. Plan(p4, a5, p5)
    BY <1>4, <1>k, PlanFirstResume DEF k5
  <2> QED BY <2>1, PlanEnds
<1>6. Plan(p5, a6, p6) /\ p6 \in Ctl
  <2>1. Plan(p5, a6, p6)
    BY <1>5, PlanRunning DEF k6
  <2> QED BY <2>1, PlanEnds
<1>7. p6 = C("run", 0, Unknown, 0, FALSE, {0},
      {"active", "info", "base", "max", "harts", "probe", "xlen", "command", "running"})
  BY <1>f DEF z
<1> HIDE DEF p0, p1, p2, p3, p4, p5, p6, a1, a2, a3, a4, a5, a6
<1>8. Plan(p0, a1 \o a2 \o a3 \o a4 \o a5 \o a6, p6)
  <2>2. Plan(p0, a1 \o a2, p2)
    BY <1>1, <1>2, PlanJoin
  <2>3. Plan(p0, a1 \o a2 \o a3, p3)
    BY <2>2, <1>3, PlanJoin
  <2>4. Plan(p0, a1 \o a2 \o a3 \o a4, p4)
    BY <2>3, <1>4, PlanJoin
  <2>5. Plan(p0, a1 \o a2 \o a3 \o a4 \o a5, p5)
    BY <2>4, <1>5, PlanJoin
  <2>6. Plan(p0, a1 \o a2 \o a3 \o a4 \o a5 \o a6, p6)
    BY <2>5, <1>6, PlanJoin
  <2> QED BY <2>6
<1> QED BY <1>7, <1>8 DEF p0, a1, a2, a3, a4, a5, a6, Boot, get_xlen, z, n

LEMMA PlanFenceStep ==
  ASSUME NEW s, NEW c, NEW u, NEW k, C("run", s, c, u, FALSE, {0}, k) \in Ctl, Ready \subseteq k,
         "auto" \notin k, s # Unknown, u \in Harts
  PROVE  Plan(C("run", s, c, u, FALSE, {0}, k), local("fence_i", 0),
         C("run", 0, c, u, FALSE, {0}, (k \ {"cmderr"}) \cup {"probe"}))
<1> DEFINE p == C("run", s, c, u, FALSE, {0}, k)
           q == [Forget(p, {"cmderr"}) EXCEPT !.sel = 0, !.know = @ \cup {"probe"}]
           st == StepOf("fence_i", Reg("none"), 0)
<1>1. p \in Ctl /\ p.mode = "run" /\ p.sel = s /\ p.ctl = c /\ p.cur = u /\ ~ p.busy /\ p.busy = FALSE
      /\ p.err = {0} /\ p.know = k
  BY DEF C, Ctl
<1> HIDE DEF p
<1>2. /\ q \in Ctl /\ q.mode = "run" /\ q.sel = 0 /\ q.ctl = c /\ q.cur = u /\ q.busy = FALSE /\ q.err = {0}
      /\ q.know = (k \ {"cmderr"}) \cup {"probe"}
  BY <1>1 DEF Ctl, Number, Fact, Forget
<1>3. Quiet(p) /\ p.cur \in Harts
  BY <1>1 DEF Quiet
<1>4. Leads(p, st, q)
  BY <1>3 DEF Leads, Computes, StepOf
<1> HIDE DEF q, st
<1>5. q = C(q.mode, q.sel, q.ctl, q.cur, q.busy, q.err, q.know)
  BY <1>2, Rebuilt
<1>6. q = C("run", 0, c, u, FALSE, {0}, (k \ {"cmderr"}) \cup {"probe"})
  BY <1>2, <1>5
<1>7. Plan(p, <<st>>, q)
  BY <1>1, <1>2, <1>4, PlanStep
<1> QED BY <1>6, <1>7 DEF p, st, local

LEMMA PlanCsrStep ==
  ASSUME NEW s, NEW c, NEW u, NEW k, C("run", s, c, u, FALSE, {0}, k) \in Ctl, Ready \subseteq k,
         "auto" \notin k, s # Unknown, u \in Harts
  PROVE  Plan(C("run", s, c, u, FALSE, {0}, k), local("write_csr", 0),
         C("run", 0, c, u, FALSE, {0}, (k \ {"cmderr"}) \cup {"probe"}))
<1> DEFINE p == C("run", s, c, u, FALSE, {0}, k)
           q == [Forget(p, {"cmderr"}) EXCEPT !.sel = 0, !.know = @ \cup {"probe"}]
           st == StepOf("write_csr", Reg("none"), 0)
<1>1. p \in Ctl /\ p.mode = "run" /\ p.sel = s /\ p.ctl = c /\ p.cur = u /\ ~ p.busy /\ p.busy = FALSE
      /\ p.err = {0} /\ p.know = k
  BY DEF C, Ctl
<1> HIDE DEF p
<1>2. /\ q \in Ctl /\ q.mode = "run" /\ q.sel = 0 /\ q.ctl = c /\ q.cur = u /\ q.busy = FALSE /\ q.err = {0}
      /\ q.know = (k \ {"cmderr"}) \cup {"probe"}
  BY <1>1 DEF Ctl, Number, Fact, Forget
<1>3. Quiet(p) /\ p.cur \in Harts
  BY <1>1 DEF Quiet
<1>4. Leads(p, st, q)
  BY <1>3 DEF Leads, Computes, StepOf
<1> HIDE DEF q, st
<1>5. q = C(q.mode, q.sel, q.ctl, q.cur, q.busy, q.err, q.know)
  BY <1>2, Rebuilt
<1>6. q = C("run", 0, c, u, FALSE, {0}, (k \ {"cmderr"}) \cup {"probe"})
  BY <1>2, <1>5
<1>7. Plan(p, <<st>>, q)
  BY <1>1, <1>2, <1>4, PlanStep
<1> QED BY <1>6, <1>7 DEF p, st, local

LEMMA PlanResetStep ==
  ASSUME NEW s, NEW c, NEW u, NEW k, C("run", s, c, u, FALSE, {0}, k) \in Ctl, Ready \subseteq k,
         "auto" \notin k, s # Unknown, NEW h \in 0 .. NHarts
  PROVE  Plan(C("run", s, c, u, FALSE, {0}, k), local("reset", h),
         C("run", 0, 0, 0, FALSE, {0}, (k \ {"cmderr"}) \cup {"probe"}))
<1> DEFINE p == C("run", s, c, u, FALSE, {0}, k)
           q == [Forget(p, {"cmderr"}) EXCEPT !.sel = 0, !.ctl = 0, !.cur = 0, !.know = @ \cup {"probe"}]
           st == StepOf("reset", Reg("none"), h)
<1>1. p \in Ctl /\ p.mode = "run" /\ p.sel = s /\ p.ctl = c /\ p.cur = u /\ ~ p.busy /\ p.busy = FALSE
      /\ p.err = {0} /\ p.know = k
  BY DEF C, Ctl
<1> HIDE DEF p
<1>2. /\ q \in Ctl /\ q.mode = "run" /\ q.sel = 0 /\ q.ctl = 0 /\ q.cur = 0 /\ q.busy = FALSE /\ q.err = {0}
      /\ q.know = (k \ {"cmderr"}) \cup {"probe"}
  BY <1>1 DEF Ctl, Number, Fact, Forget
<1>3. Quiet(p)
  BY <1>1 DEF Quiet
<1>4. Leads(p, st, q)
  BY <1>3 DEF Leads, Computes, StepOf
<1> HIDE DEF q, st
<1>5. q = C(q.mode, q.sel, q.ctl, q.cur, q.busy, q.err, q.know)
  BY <1>2, Rebuilt
<1>6. q = C("run", 0, 0, 0, FALSE, {0}, (k \ {"cmderr"}) \cup {"probe"})
  BY <1>2, <1>5
<1>7. Plan(p, <<st>>, q)
  BY <1>1, <1>2, <1>4, PlanStep
<1> QED BY <1>6, <1>7 DEF p, st, local

LEMMA PlanNextHart ==
  ASSUME NEW s, NEW c, NEW u, NEW k, C("run", s, c, u, FALSE, {0}, k) \in Ctl, Ready \subseteq k,
         "auto" \notin k, s # Unknown, NEW h \in Harts, h + 1 \in 0 .. NHarts
  PROVE  Plan(C("run", s, c, u, FALSE, {0}, k),
         select_hart(h) \o local("fence_i", 0) \o local("write_csr", 0) \o local("reset", h + 1),
           C("run", 0, 0, 0, FALSE, {0}, (k \ {"cmderr"}) \cup {"probe"}))
<1> DEFINE K == ((k \ {"probe"}) \ {"cmderr"}) \cup {"probe"}
           p0 == C("run", s, c, u, FALSE, {0}, k)
           p1 == C("run", h, h, h, FALSE, {0}, k \ {"probe"})
           a1 == select_hart(h)
           p2 == C("run", 0, h, h, FALSE, {0}, K)
           a2 == local("fence_i", 0)
           p3 == C("run", 0, h, h, FALSE, {0}, K)
           a3 == local("write_csr", 0)
           p4 == C("run", 0, 0, 0, FALSE, {0}, K)
           a4 == local("reset", h + 1)
<1>k. /\ "active" \in k /\ h \in Nat /\ Clamp(h) = h /\ h # Unknown /\ Ready \subseteq (k \ {"probe"})
           /\ Ready \subseteq K
      /\ "auto" \notin (k \ {"probe"}) /\ "auto" \notin K /\ 0 # Unknown /\ (K \ {"cmderr"}) \cup {"probe"} = K
      /\ K = (k \ {"cmderr"}) \cup {"probe"}
  BY Clamped DEF Ready, Unknown
<1>0. p0 \in Ctl
  OBVIOUS
<1>1. Plan(p0, a1, p1) /\ p1 \in Ctl
  <2>1. Plan(p0, a1, p1)
    BY <1>0, <1>k, PlanSelect
  <2> QED BY <2>1, PlanEnds
<1>2. Plan(p1, a2, p2) /\ p2 \in Ctl
  <2>1. Plan(p1, a2, p2)
    BY <1>1, <1>k, PlanFenceStep
  <2> QED BY <2>1, PlanEnds
<1> HIDE DEF K
<1>3. Plan(p2, a3, p3) /\ p3 \in Ctl
  <2>1. Plan(p2, a3, p3)
    BY <1>2, <1>k, PlanCsrStep
  <2> QED BY <2>1, PlanEnds
<1>4. Plan(p3, a4, p4) /\ p4 \in Ctl
  <2>1. Plan(p3, a4, p4)
    BY <1>3, <1>k, PlanResetStep
  <2> QED BY <2>1, PlanEnds
<1>5. p4 = C("run", 0, 0, 0, FALSE, {0}, (k \ {"cmderr"}) \cup {"probe"})
  BY <1>k
<1> HIDE DEF p0, p1, p2, p3, p4, a1, a2, a3, a4
<1>6. Plan(p0, a1 \o a2 \o a3 \o a4, p4)
  <2>2. Plan(p0, a1 \o a2, p2)
    BY <1>1, <1>2, PlanJoin
  <2>3. Plan(p0, a1 \o a2 \o a3, p3)
    BY <2>2, <1>3, PlanJoin
  <2>4. Plan(p0, a1 \o a2 \o a3 \o a4, p4)
    BY <2>3, <1>4, PlanJoin
  <2> QED BY <2>4
<1> QED BY <1>5, <1>6 DEF p0, a1, a2, a3, a4

LEMMA PlanLastHart ==
  ASSUME NEW s, NEW c, NEW u, NEW k, C("run", s, c, u, FALSE, {0}, k) \in Ctl, Ready \subseteq k,
         "auto" \notin k, s # Unknown
  PROVE  Plan(C("run", s, c, u, FALSE, {0}, k), select_hart(0) \o read(Reg("DMSTATUS"), "dmstatus"),
         C("run", 0, 0, 0, FALSE, {0}, k \cup {"probe"}))
<1> DEFINE z == 0
           p0 == C("run", s, c, u, FALSE, {0}, k)
           p1 == C("run", z, z, z, FALSE, {0}, k \ {"probe"})
           a1 == select_hart(z)
           p2 == C("run", z, z, z, FALSE, {0}, (k \ {"probe"}) \cup {"probe"})
           a2 == read(Reg("DMSTATUS"), "dmstatus")
<1>k. "active" \in k /\ z \in Nat /\ Clamp(z) = z
  BY Whole DEF Ready
<1>z. (k \ {"probe"}) \cup {"probe"} = k \cup {"probe"}
  OBVIOUS
<1> HIDE DEF z
<1>0. p0 \in Ctl
  OBVIOUS
<1>1. Plan(p0, a1, p1) /\ p1 \in Ctl
  <2>1. Plan(p0, a1, p1)
    BY <1>0, <1>k, PlanSelect
  <2> QED BY <2>1, PlanEnds
<1>2. Plan(p1, a2, p2) /\ p2 \in Ctl
  <2>1. Plan(p1, a2, p2)
    BY <1>1, PlanReadStatus
  <2> QED BY <2>1, PlanEnds
<1>3. p2 = C("run", 0, 0, 0, FALSE, {0}, k \cup {"probe"})
  BY <1>z DEF z
<1> HIDE DEF p0, p1, p2, a1, a2
<1>4. Plan(p0, a1 \o a2, p2)
  <2>2. Plan(p0, a1 \o a2, p2)
    BY <1>1, <1>2, PlanJoin
  <2> QED BY <2>2
<1> QED BY <1>3, <1>4 DEF p0, a1, a2, z

LEMMA PlanNextNumber ==
  ASSUME NEW s, NEW c, NEW u, NEW b, NEW e, NEW k, C("run", s, c, u, b, e, k) \in Ctl, NEW h \in 0 .. NHarts,
         h <= HartselMax,
         s # Unknown, {"active", "max"} \subseteq k
  PROVE  Plan(C("run", s, c, u, b, e, k),
         select_hart(h) \o read(Reg("DMSTATUS"), "dmstatus") \o local("exists", h),
           C("run", Unknown, Unknown, Unknown, b, e, (k \ {"probe"}) \cup {"harts"}))
<1> DEFINE K == (k \ {"probe"}) \cup {"probe"}
           p0 == C("run", s, c, u, b, e, k)
           p1 == C("run", h, h, h, b, e, k \ {"probe"})
           a1 == select_hart(h)
           p2 == C("run", h, h, h, b, e, K)
           a2 == read(Reg("DMSTATUS"), "dmstatus")
           p3 == C("run", Unknown, Unknown, Unknown, b, e, (K \ {"probe"}) \cup {"harts"})
           a3 == local("exists", h)
<1>k. /\ h \in Nat /\ Clamp(h) = h /\ "active" \in k /\ {"active", "max", "probe"} \subseteq K
      /\ (K \ {"probe"}) \cup {"harts"} = (k \ {"probe"}) \cup {"harts"}
  BY Sizes, Clamped DEF Clamp
<1>0. p0 \in Ctl
  OBVIOUS
<1>1. Plan(p0, a1, p1) /\ p1 \in Ctl
  <2>1. Plan(p0, a1, p1)
    BY <1>0, <1>k, PlanSelect
  <2> QED BY <2>1, PlanEnds
<1>2. Plan(p1, a2, p2) /\ p2 \in Ctl
  <2>1. Plan(p1, a2, p2)
    BY <1>1, PlanReadStatus
  <2> QED BY <2>1, PlanEnds
<1> HIDE DEF K
<1>3. Plan(p2, a3, p3) /\ p3 \in Ctl
  <2>1. Plan(p2, a3, p3)
    BY <1>2, <1>k, PlanExists
  <2> QED BY <2>1, PlanEnds
<1>4. p3 = C("run", Unknown, Unknown, Unknown, b, e, (k \ {"probe"}) \cup {"harts"})
  BY <1>k
<1> HIDE DEF p0, p1, p2, p3, a1, a2, a3
<1>5. Plan(p0, a1 \o a2 \o a3, p3)
  <2>2. Plan(p0, a1 \o a2, p2)
    BY <1>1, <1>2, PlanJoin
  <2>3. Plan(p0, a1 \o a2 \o a3, p3)
    BY <2>2, <1>3, PlanJoin
  <2> QED BY <2>3
<1> QED BY <1>4, <1>5 DEF p0, a1, a2, a3

----------------------------------------------------------------------------
(* Computations.                                                           *)

LEMMA RunForm == ASSUME NEW p \in Ctl, p.mode = "run", ~ p.busy, p.err = {0}
                 PROVE  p = C("run", p.sel, p.ctl, p.cur, FALSE, {0}, p.know)
<1>1. p.busy = FALSE
  BY DEF Ctl
<1> QED BY <1>1, Rebuilt

\* The errors that there may be: those of the tries for the right size, before the boot is
\* over, and exceptions.
Legal(p) == p.err \subseteq {0, NOT_SUPPORTED, EXCEPTION}
  /\ (NOT_SUPPORTED \in p.err => "running" \notin p.know)

LEMMA ControlsSame == ASSUME NEW p \in Ctl, NEW q \in Ctl, NEW v, Controls(p, v, q)
                      PROVE  q.err = p.err /\ ("running" \in q.know => "running" \in p.know)
<1>1. ASSUME NEW x, q = [p EXCEPT !.sel = x, !.know = (@ \ {"probe"}) \cup {"active"}]
      PROVE  q.err = p.err /\ ("running" \in q.know => "running" \in p.know)
  BY <1>1 DEF Ctl
<1>2. ASSUME NEW x, q = [p EXCEPT !.mode = "halting", !.sel = x, !.know = (@ \ {"probe"}) \cup {"active"}]
      PROVE  q.err = p.err /\ ("running" \in q.know => "running" \in p.know)
  BY <1>2 DEF Ctl
<1>3. ASSUME NEW m, q = [p EXCEPT !.mode = m]
      PROVE  q.err = p.err /\ ("running" \in q.know => "running" \in p.know)
  BY <1>3 DEF Ctl
<1> QED BY <1>1, <1>2, <1>3 DEF Controls

LEMMA StaysLegal == ASSUME NEW p \in Ctl, NEW q \in Ctl, NEW s, Legal(p), Leads(p, s, q) PROVE Legal(q)
<1> DEFINE Same == q.err = p.err /\ ("running" \in q.know => "running" \in p.know)
           Few == q.err \subseteq {0, EXCEPTION}
           Early == q.err = {NOT_SUPPORTED} /\ "running" \notin q.know
<1>1. Writes(p, s, q) => Same \/ Few \/ Early
  <2>1. ASSUME NEW v, Controls(p, v, q) PROVE Same
    BY <2>1, ControlsSame
  <2>2. ASSUME NEW c, Commands(p, c, q) PROVE Few \/ Early
    <3>1. CASE c.size = XLEN
      <4>1. q.err \in {{0, EXCEPTION}, {0}}
        BY <2>2, <3>1 DEF Commands, Ctl
      <4> QED BY <4>1
    <3>2. CASE c.size # XLEN
      BY <2>2, <3>2 DEF Commands, Ctl
    <3> QED BY <3>1, <3>2
  <2>3. ASSUME q = p \/ q = Add(p, {"auto"}) \/ q = Forget(p, {"auto"}) PROVE Same
    BY <2>3 DEF Add, Forget, Ctl
  <2>4. ASSUME q = [Forget(p, {"cmderr"}) EXCEPT !.err = {0}] PROVE Few
    BY <2>4 DEF Forget, Ctl
  <2> HIDE DEF Same, Few, Early
  <2> QED BY <2>1, <2>2, <2>3, <2>4 DEF Writes
<1>2. WritesWord(p, s, q) => Same \/ Few
  <2>1. ASSUME NEW v, Controls(p, v, q) PROVE Same
    BY <2>1, ControlsSame
  <2>2. ASSUME q = [p EXCEPT !.busy = TRUE, !.err = {0, EXCEPTION}, !.know = @ \ {"cmderr"}] PROVE Few
    BY <2>2 DEF Ctl
  <2>3. ASSUME q = p PROVE Same
    BY <2>3
  <2> HIDE DEF Same, Few
  <2> QED BY <2>1, <2>2, <2>3 DEF WritesWord
<1>3. Reads(p, s, q) => Same
  BY DEF Reads, Ctl, Add, Forget
<1>4. Awaits(p, s, q) => Same
  <2>1. ASSUME NEW m, q = [p EXCEPT !.mode = m] PROVE Same
    BY <2>1 DEF Ctl
  <2>2. ASSUME q = [Add(p, {"cmderr"}) EXCEPT !.busy = FALSE] PROVE Same
    <3>1. q.err = p.err /\ q.know = p.know \cup {"cmderr"}
      BY <2>2 DEF Ctl, Add
    <3> QED BY <3>1
  <2>3. q = p => Same
    OBVIOUS
  <2> HIDE DEF Same
  <2> QED BY <2>1, <2>2, <2>3 DEF Awaits
<1>5. Computes(p, s, q) => Same \/ Few
  <2>1. ASSUME NEW n, q = [p EXCEPT !.ctl = n] \/ q = [p EXCEPT !.cur = n] PROVE Same
    BY <2>1 DEF Ctl
  <2>3. ASSUME q = p \/ q = Add(p, {"base"}) \/ q = Add(p, {"max"}) \/ q = Forget(p, {"cmderr"}) PROVE Same
    BY <2>3 DEF Ctl, Add, Forget
  <2>4. ASSUME q = [p EXCEPT !.sel = Unknown, !.ctl = Unknown, !.cur = Unknown,
                             !.know = (@ \ {"probe"}) \cup {"harts"}]
        PROVE  Same
    BY <2>4 DEF Ctl
  <2>5. ASSUME q = [Forget(p, {"cmderr"}) EXCEPT !.sel = 0, !.ctl = 0, !.cur = 0, !.know = @ \cup {"probe"}]
        PROVE Same
    BY <2>5 DEF Ctl, Forget
  <2>6. ASSUME q = [Forget(p, {"cmderr"}) EXCEPT !.sel = 0, !.know = @ \cup {"probe"}] PROVE Same
    BY <2>6 DEF Ctl, Forget
  <2>2. ASSUME \/ p.err = {0} /\ q = Add(p, {"running"})
               \/ q = [p EXCEPT !.err = {0}, !.know = (@ \ {"cmderr"}) \cup {"xlen", "command"}]
               \/ q = [Forget(p, {"cmderr"}) EXCEPT !.err = {0}]
        PROVE  Few
    BY <2>2 DEF Ctl, Add, Forget
  <2> HIDE DEF Same, Few
  <2> QED BY <2>1, <2>2, <2>3, <2>4, <2>5, <2>6 DEF Computes
<1>6. q = p => Same
  OBVIOUS
<1>7. Same \/ Few \/ Early
  <2> HIDE DEF Same, Few, Early
  <2> QED BY <1>1, <1>2, <1>3, <1>4, <1>5, <1>6 DEF Leads
<1> QED BY <1>7 DEF Legal, NOT_SUPPORTED, EXCEPTION

LEMMA StillLegal == ASSUME NEW p \in Ctl, NEW facts, Legal(p) PROVE Legal(Forget(p, facts))
BY DEF Legal, Forget, Ctl

\* An assertion may be forgotten in part.
LEMMA Forgotten == ASSUME NEW p \in Ctl
                   PROVE  /\ Forget(p, {"cmderr"}) \in Ctl
                          /\ Forget(p, {"cmderr"}) = C(p.mode, p.sel, p.ctl, p.cur, p.busy, p.err,
                               p.know \ {"cmderr"})
                          /\ At(p) => At(Forget(p, {"cmderr"}))
<1> DEFINE f == Forget(p, {"cmderr"})
<1>1. /\ f \in Ctl /\ f.mode = p.mode /\ f.sel = p.sel /\ f.ctl = p.ctl /\ f.cur = p.cur /\ f.busy = p.busy
      /\ f.err = p.err /\ f.know = p.know \ {"cmderr"}
  BY DEF Ctl, Forget
<1> HIDE DEF f
<1>2. f = C(p.mode, p.sel, p.ctl, p.cur, p.busy, p.err, p.know \ {"cmderr"})
  BY <1>1, Rebuilt
<1>3. ASSUME At(p) PROVE At(f)
  <2>1. Module(f) /\ Borrowed(f) /\ OthersRun(f)
    BY <1>1, <1>3 DEF At, Module, Borrowed, OthersRun
  <2>2. KnownOfModule(f) /\ KnownOfHost(f)
    BY <1>1, <1>3 DEF At, KnownOfModule, KnownOfHost
  <2> QED BY <2>1, <2>2 DEF At
<1> QED BY <1>1, <1>2, <1>3 DEF f

\* What an assertion says of the module and of the harts' runs is not about the host.
LEMMA AtStill == ASSUME NEW p, NEW q, At(p), UNCHANGED dvars, q.mode = p.mode, q.busy = p.busy, q.err = p.err,
                        q.sel = p.sel \/ (p.mode = "run" /\ q.sel = Unknown), KnownOfModule(q)', KnownOfHost(q)'
                 PROVE  At(q)'
<1>1. UNCHANGED <<dm, harts, mem, ppc, own>>
  BY DEF dvars
<1>2. Module(q)'
  BY <1>1 DEF At, Module
<1>3. Borrowed(q)' /\ OthersRun(q)'
  BY <1>1 DEF At, Borrowed, OthersRun
<1> QED BY <1>2, <1>3 DEF At

LEMMA AtSame == ASSUME NEW p, At(p), UNCHANGED <<dvars, loc>> PROVE At(p)'
<1>1. UNCHANGED <<dm, harts, mem, ppc, own, loc>>
  BY DEF dvars
<1> QED BY <1>1 DEF At, Module, Borrowed, OthersRun, KnownOfModule, KnownOfHost

LEMMA TypedStill == ASSUME Typed, UNCHANGED dvars, loc' \in LocSet PROVE Typed'
<1>1. UNCHANGED <<dm, harts, mem, ppc, own>>
  BY DEF dvars
<1> QED BY <1>1 DEF Typed, DmType, HartType, LocType, LocSet

\* Assignments to the host's variables.
LEMMA AssignedControl ==
  ASSUME Typed, NEW p \in Ctl, NEW q \in Ctl, At(p), UNCHANGED dvars, NEW v \in Nat,
         p.ctl # Unknown, q = [p EXCEPT !.ctl = v],
           loc' = [loc EXCEPT !.dmcontrol = [loc.dmcontrol EXCEPT !.hartsel = v]]
  PROVE  Typed' /\ At(q)'
<1> DEFINE d == [loc.dmcontrol EXCEPT !.hartsel = v]
           w == [DMACTIVE EXCEPT !.hartsel = v]
<1>0. loc \in LocSet
  BY DEF Typed, LocType, LocSet
<1>1. p.ctl \in Nat /\ loc.dmcontrol = [DMACTIVE EXCEPT !.hartsel = p.ctl]
  BY DEF At, KnownOfHost, Ctl, Number
<1>2. /\ d \in Control /\ w \in Control /\ d.active = w.active /\ d.hartsel = w.hartsel
      /\ d.haltreq = w.haltreq /\ d.resumereq = w.resumereq
  BY <1>1 DEF DMACTIVE, Control
<1>3. loc' = [loc EXCEPT !.dmcontrol = d]
  OBVIOUS
<1> HIDE DEF d
<1>4. d = w
  <2> HIDE DEF w
  <2> QED BY <1>2, SameControl
<1>5. loc' \in LocSet /\ loc'.dmcontrol = d
  BY <1>0, <1>2, <1>3 DEF LocSet
<1>6. /\ loc'.running = loc.running /\ loc'.current_hart = loc.current_hart /\ loc'.num_harts = loc.num_harts
      /\ loc'.max_hart = loc.max_hart /\ loc'.xlen = loc.xlen /\ loc'.data_base = loc.data_base
      /\ loc'.dmstatus = loc.dmstatus /\ loc'.hartinfo = loc.hartinfo /\ loc'.abstractcs = loc.abstractcs
  BY <1>0, <1>3 DEF LocSet
<1>7. /\ q.mode = p.mode /\ q.sel = p.sel /\ q.ctl = v /\ q.cur = p.cur /\ q.busy = p.busy
      /\ q.err = p.err /\ q.know = p.know
  BY DEF Ctl
<1>8. KnownOfModule(q)'
  BY <1>6, <1>7 DEF At, KnownOfModule, dvars
<1>9. KnownOfHost(q)'
  BY <1>4, <1>5, <1>6, <1>7 DEF At, KnownOfHost
<1> QED BY <1>5, <1>7, <1>8, <1>9, TypedStill, AtStill

LEMMA AssignedHart ==
  ASSUME Typed, NEW p \in Ctl, NEW q \in Ctl, At(p), UNCHANGED dvars, NEW v \in Nat,
         q = [p EXCEPT !.cur = v], loc' = [loc EXCEPT !.current_hart = v]
  PROVE  Typed' /\ At(q)'
<1> DEFINE z == v
<1>0. loc \in LocSet
  BY DEF Typed, LocType, LocSet
<1>1. z = v /\ z \in Nat
  BY <1>0, Sizes, Clamped DEF LocSet, At, KnownOfHost, KnownOfModule, Module, Control, Info, Unknown
<1>2. loc' = [loc EXCEPT !.current_hart = z]
  OBVIOUS
<1> HIDE DEF z
<1>3. loc' \in LocSet /\ loc'.current_hart = z
  BY <1>0, <1>1, <1>2 DEF LocSet
<1>4. /\ loc'.running = loc.running /\ loc'.num_harts = loc.num_harts /\ loc'.max_hart = loc.max_hart 
      /\ loc'.xlen = loc.xlen /\ loc'.data_base = loc.data_base /\ loc'.dmcontrol = loc.dmcontrol
           /\ loc'.dmstatus = loc.dmstatus /\ loc'.hartinfo = loc.hartinfo /\ loc'.abstractcs = loc.abstractcs
  BY <1>0, <1>2 DEF LocSet
<1>5. q.mode = p.mode /\ q.sel = p.sel /\ q.ctl = p.ctl /\ q.cur = v /\ q.busy = p.busy /\ q.err = p.err
      /\ q.know = p.know
  BY <1>1 DEF Ctl, Add
<1>6. KnownOfModule(q)'
  BY <1>1, <1>4, <1>5 DEF At, KnownOfModule, dvars
<1>7. KnownOfHost(q)'
  BY <1>1, <1>3, <1>4, <1>5 DEF At, KnownOfHost
<1> QED BY <1>1, <1>3, <1>5, <1>6, <1>7, TypedStill, AtStill

LEMMA AssignedData ==
  ASSUME Typed, NEW p \in Ctl, NEW q \in Ctl, At(p), UNCHANGED dvars, NEW v \in Val,
         q = p, loc' = [loc EXCEPT !.data = v]
  PROVE  Typed' /\ At(q)'
<1> DEFINE z == v
<1>0. loc \in LocSet
  BY DEF Typed, LocType, LocSet
<1>1. z \in Val
  BY <1>0, Sizes, Clamped DEF LocSet, At, KnownOfHost, KnownOfModule, Module, Control, Info, Unknown
<1>2. loc' = [loc EXCEPT !.data = z]
  OBVIOUS
<1> HIDE DEF z
<1>3. loc' \in LocSet /\ loc'.data = z
  BY <1>0, <1>1, <1>2 DEF LocSet
<1>4. /\ loc'.running = loc.running /\ loc'.current_hart = loc.current_hart /\ loc'.num_harts = loc.num_harts
           /\ loc'.max_hart = loc.max_hart 
      /\ loc'.xlen = loc.xlen /\ loc'.data_base = loc.data_base /\ loc'.dmcontrol = loc.dmcontrol
           /\ loc'.dmstatus = loc.dmstatus /\ loc'.hartinfo = loc.hartinfo /\ loc'.abstractcs = loc.abstractcs
  BY <1>0, <1>2 DEF LocSet
<1>5. q.mode = p.mode /\ q.sel = p.sel /\ q.ctl = p.ctl /\ q.cur = p.cur /\ q.busy = p.busy /\ q.err = p.err
      /\ q.know = p.know
  BY <1>1 DEF Ctl, Add
<1>6. KnownOfModule(q)'
  BY <1>1, <1>4, <1>5 DEF At, KnownOfModule, dvars
<1>7. KnownOfHost(q)'
  BY <1>1, <1>3, <1>4, <1>5 DEF At, KnownOfHost
<1> QED BY <1>1, <1>3, <1>5, <1>6, <1>7, TypedStill, AtStill

LEMMA AssignedS0 ==
  ASSUME Typed, NEW p \in Ctl, NEW q \in Ctl, At(p), UNCHANGED dvars, NEW v \in Val,
         q = p, loc' = [loc EXCEPT !.s0 = v]
  PROVE  Typed' /\ At(q)'
<1> DEFINE z == v
<1>0. loc \in LocSet
  BY DEF Typed, LocType, LocSet
<1>1. z \in Val
  BY <1>0, Sizes, Clamped DEF LocSet, At, KnownOfHost, KnownOfModule, Module, Control, Info, Unknown
<1>2. loc' = [loc EXCEPT !.s0 = z]
  OBVIOUS
<1> HIDE DEF z
<1>3. loc' \in LocSet /\ loc'.s0 = z
  BY <1>0, <1>1, <1>2 DEF LocSet
<1>4. /\ loc'.running = loc.running /\ loc'.current_hart = loc.current_hart /\ loc'.num_harts = loc.num_harts
           /\ loc'.max_hart = loc.max_hart 
      /\ loc'.xlen = loc.xlen /\ loc'.data_base = loc.data_base /\ loc'.dmcontrol = loc.dmcontrol
           /\ loc'.dmstatus = loc.dmstatus /\ loc'.hartinfo = loc.hartinfo /\ loc'.abstractcs = loc.abstractcs
  BY <1>0, <1>2 DEF LocSet
<1>5. q.mode = p.mode /\ q.sel = p.sel /\ q.ctl = p.ctl /\ q.cur = p.cur /\ q.busy = p.busy /\ q.err = p.err
      /\ q.know = p.know
  BY <1>1 DEF Ctl, Add
<1>6. KnownOfModule(q)'
  BY <1>1, <1>4, <1>5 DEF At, KnownOfModule, dvars
<1>7. KnownOfHost(q)'
  BY <1>1, <1>3, <1>4, <1>5 DEF At, KnownOfHost
<1> QED BY <1>1, <1>3, <1>5, <1>6, <1>7, TypedStill, AtStill

LEMMA AssignedS1 ==
  ASSUME Typed, NEW p \in Ctl, NEW q \in Ctl, At(p), UNCHANGED dvars, NEW v \in Val,
         q = p, loc' = [loc EXCEPT !.s1 = v]
  PROVE  Typed' /\ At(q)'
<1> DEFINE z == v
<1>0. loc \in LocSet
  BY DEF Typed, LocType, LocSet
<1>1. z \in Val
  BY <1>0, Sizes, Clamped DEF LocSet, At, KnownOfHost, KnownOfModule, Module, Control, Info, Unknown
<1>2. loc' = [loc EXCEPT !.s1 = z]
  OBVIOUS
<1> HIDE DEF z
<1>3. loc' \in LocSet /\ loc'.s1 = z
  BY <1>0, <1>1, <1>2 DEF LocSet
<1>4. /\ loc'.running = loc.running /\ loc'.current_hart = loc.current_hart /\ loc'.num_harts = loc.num_harts
           /\ loc'.max_hart = loc.max_hart 
      /\ loc'.xlen = loc.xlen /\ loc'.data_base = loc.data_base /\ loc'.dmcontrol = loc.dmcontrol
           /\ loc'.dmstatus = loc.dmstatus /\ loc'.hartinfo = loc.hartinfo /\ loc'.abstractcs = loc.abstractcs
  BY <1>0, <1>2 DEF LocSet
<1>5. q.mode = p.mode /\ q.sel = p.sel /\ q.ctl = p.ctl /\ q.cur = p.cur /\ q.busy = p.busy /\ q.err = p.err
      /\ q.know = p.know
  BY <1>1 DEF Ctl, Add
<1>6. KnownOfModule(q)'
  BY <1>1, <1>4, <1>5 DEF At, KnownOfModule, dvars
<1>7. KnownOfHost(q)'
  BY <1>1, <1>3, <1>4, <1>5 DEF At, KnownOfHost
<1> QED BY <1>1, <1>3, <1>5, <1>6, <1>7, TypedStill, AtStill

LEMMA AssignedDst ==
  ASSUME Typed, NEW p \in Ctl, NEW q \in Ctl, At(p), UNCHANGED dvars, NEW v \in Seq(Val),
         q = p, loc' = [loc EXCEPT !.dst = v]
  PROVE  Typed' /\ At(q)'
<1> DEFINE z == v
<1>0. loc \in LocSet
  BY DEF Typed, LocType, LocSet
<1>1. z \in Seq(Val)
  BY <1>0, Sizes, Clamped DEF LocSet, At, KnownOfHost, KnownOfModule, Module, Control, Info, Unknown
<1>2. loc' = [loc EXCEPT !.dst = z]
  OBVIOUS
<1> HIDE DEF z
<1>3. loc' \in LocSet /\ loc'.dst = z
  BY <1>0, <1>1, <1>2 DEF LocSet
<1>4. /\ loc'.running = loc.running /\ loc'.current_hart = loc.current_hart /\ loc'.num_harts = loc.num_harts
           /\ loc'.max_hart = loc.max_hart 
      /\ loc'.xlen = loc.xlen /\ loc'.data_base = loc.data_base /\ loc'.dmcontrol = loc.dmcontrol
           /\ loc'.dmstatus = loc.dmstatus /\ loc'.hartinfo = loc.hartinfo /\ loc'.abstractcs = loc.abstractcs
  BY <1>0, <1>2 DEF LocSet
<1>5. q.mode = p.mode /\ q.sel = p.sel /\ q.ctl = p.ctl /\ q.cur = p.cur /\ q.busy = p.busy /\ q.err = p.err
      /\ q.know = p.know
  BY <1>1 DEF Ctl, Add
<1>6. KnownOfModule(q)'
  BY <1>1, <1>4, <1>5 DEF At, KnownOfModule, dvars
<1>7. KnownOfHost(q)'
  BY <1>1, <1>3, <1>4, <1>5 DEF At, KnownOfHost
<1> QED BY <1>1, <1>3, <1>5, <1>6, <1>7, TypedStill, AtStill

LEMMA AssignedBase ==
  ASSUME Typed, NEW p \in Ctl, NEW q \in Ctl, At(p), UNCHANGED dvars, "info" \in p.know,
         q = Add(p, {"base"}), loc' = [loc EXCEPT !.data_base = loc.hartinfo.dataaddr]
  PROVE  Typed' /\ At(q)'
<1> DEFINE z == loc.hartinfo.dataaddr
<1>0. loc \in LocSet
  BY DEF Typed, LocType, LocSet
<1>1. z = DataAddr /\ z \in Int
  BY <1>0, Sizes, Clamped DEF LocSet, At, KnownOfHost, KnownOfModule, Module, Control, Info, Unknown
<1>2. loc' = [loc EXCEPT !.data_base = z]
  OBVIOUS
<1> HIDE DEF z
<1>3. loc' \in LocSet /\ loc'.data_base = z
  BY <1>0, <1>1, <1>2 DEF LocSet
<1>4. /\ loc'.running = loc.running /\ loc'.current_hart = loc.current_hart /\ loc'.num_harts = loc.num_harts
           /\ loc'.max_hart = loc.max_hart 
      /\ loc'.xlen = loc.xlen /\ loc'.dmcontrol = loc.dmcontrol /\ loc'.dmstatus = loc.dmstatus
           /\ loc'.hartinfo = loc.hartinfo /\ loc'.abstractcs = loc.abstractcs
  BY <1>0, <1>2 DEF LocSet
<1>5. q.mode = p.mode /\ q.sel = p.sel /\ q.ctl = p.ctl /\ q.cur = p.cur /\ q.busy = p.busy /\ q.err = p.err
      /\ q.know = p.know \cup {"base"}
  BY <1>1 DEF Ctl, Add
<1>6. KnownOfModule(q)'
  BY <1>1, <1>4, <1>5 DEF At, KnownOfModule, dvars
<1>7. KnownOfHost(q)'
  BY <1>1, <1>3, <1>4, <1>5 DEF At, KnownOfHost
<1> QED BY <1>1, <1>3, <1>5, <1>6, <1>7, TypedStill, AtStill

LEMMA AssignedMax ==
  ASSUME Typed, NEW p \in Ctl, NEW q \in Ctl, At(p), UNCHANGED dvars, p.ctl = HartselMax,
         q = Add(p, {"max"}), loc' = [loc EXCEPT !.max_hart = loc.dmcontrol.hartsel]
  PROVE  Typed' /\ At(q)'
<1> DEFINE z == loc.dmcontrol.hartsel
<1>0. loc \in LocSet
  BY DEF Typed, LocType, LocSet
<1>1. z = HartselMax /\ z \in Nat
  BY <1>0, Sizes, Clamped DEF LocSet, At, KnownOfHost, KnownOfModule, Module, Control, Info, Unknown
<1>2. loc' = [loc EXCEPT !.max_hart = z]
  OBVIOUS
<1> HIDE DEF z
<1>3. loc' \in LocSet /\ loc'.max_hart = z
  BY <1>0, <1>1, <1>2 DEF LocSet
<1>4. /\ loc'.running = loc.running /\ loc'.current_hart = loc.current_hart /\ loc'.num_harts = loc.num_harts 
      /\ loc'.xlen = loc.xlen /\ loc'.data_base = loc.data_base /\ loc'.dmcontrol = loc.dmcontrol
           /\ loc'.dmstatus = loc.dmstatus /\ loc'.hartinfo = loc.hartinfo /\ loc'.abstractcs = loc.abstractcs
  BY <1>0, <1>2 DEF LocSet
<1>5. q.mode = p.mode /\ q.sel = p.sel /\ q.ctl = p.ctl /\ q.cur = p.cur /\ q.busy = p.busy /\ q.err = p.err
      /\ q.know = p.know \cup {"max"}
  BY <1>1 DEF Ctl, Add
<1>6. KnownOfModule(q)'
  BY <1>1, <1>4, <1>5 DEF At, KnownOfModule, dvars
<1>7. KnownOfHost(q)'
  BY <1>1, <1>3, <1>4, <1>5 DEF At, KnownOfHost
<1> QED BY <1>1, <1>3, <1>5, <1>6, <1>7, TypedStill, AtStill

LEMMA AssignedRunning ==
  ASSUME Typed, NEW p \in Ctl, NEW q \in Ctl, At(p), UNCHANGED dvars,
         q = Add(p, {"running"}), loc' = [loc EXCEPT !.running = TRUE]
  PROVE  Typed' /\ At(q)'
<1> DEFINE z == TRUE
<1>0. loc \in LocSet
  BY DEF Typed, LocType, LocSet
<1>1. z = TRUE /\ z \in BOOLEAN
  BY <1>0, Sizes, Clamped DEF LocSet, At, KnownOfHost, KnownOfModule, Module, Control, Info, Unknown
<1>2. loc' = [loc EXCEPT !.running = z]
  OBVIOUS
<1> HIDE DEF z
<1>3. loc' \in LocSet /\ loc'.running = z
  BY <1>0, <1>1, <1>2 DEF LocSet
<1>4. /\ loc'.current_hart = loc.current_hart /\ loc'.num_harts = loc.num_harts /\ loc'.max_hart = loc.max_hart 
      /\ loc'.xlen = loc.xlen /\ loc'.data_base = loc.data_base /\ loc'.dmcontrol = loc.dmcontrol
           /\ loc'.dmstatus = loc.dmstatus /\ loc'.hartinfo = loc.hartinfo /\ loc'.abstractcs = loc.abstractcs
  BY <1>0, <1>2 DEF LocSet
<1>5. q.mode = p.mode /\ q.sel = p.sel /\ q.ctl = p.ctl /\ q.cur = p.cur /\ q.busy = p.busy /\ q.err = p.err
      /\ q.know = p.know \cup {"running"}
  BY <1>1 DEF Ctl, Add
<1>6. KnownOfModule(q)'
  BY <1>1, <1>4, <1>5 DEF At, KnownOfModule, dvars
<1>7. KnownOfHost(q)'
  BY <1>1, <1>3, <1>4, <1>5 DEF At, KnownOfHost
<1> QED BY <1>1, <1>3, <1>5, <1>6, <1>7, TypedStill, AtStill

LEMMA AssignedHarts ==
  ASSUME Typed, NEW p \in Ctl, NEW q \in Ctl, At(p), UNCHANGED dvars, p.mode = "run",
         q = [p EXCEPT !.sel = Unknown, !.ctl = Unknown, !.cur = Unknown,
           !.know = (@ \ {"probe"}) \cup {"harts"}], loc' = [loc EXCEPT !.num_harts = NHarts]
  PROVE  Typed' /\ At(q)'
<1> DEFINE z == NHarts
<1>0. loc \in LocSet
  BY DEF Typed, LocType, LocSet
<1>1. z = NHarts /\ z \in Nat
  BY <1>0, Sizes, Clamped DEF LocSet, At, KnownOfHost, KnownOfModule, Module, Control, Info, Unknown
<1>2. loc' = [loc EXCEPT !.num_harts = z]
  OBVIOUS
<1> HIDE DEF z
<1>3. loc' \in LocSet /\ loc'.num_harts = z
  BY <1>0, <1>1, <1>2 DEF LocSet
<1>4. /\ loc'.running = loc.running /\ loc'.current_hart = loc.current_hart /\ loc'.max_hart = loc.max_hart 
      /\ loc'.xlen = loc.xlen /\ loc'.data_base = loc.data_base /\ loc'.dmcontrol = loc.dmcontrol
           /\ loc'.dmstatus = loc.dmstatus /\ loc'.hartinfo = loc.hartinfo /\ loc'.abstractcs = loc.abstractcs
  BY <1>0, <1>2 DEF LocSet
<1>5. q.mode = p.mode /\ q.sel = Unknown /\ q.ctl = Unknown /\ q.cur = Unknown /\ q.busy = p.busy
      /\ q.err = p.err /\ q.know = (p.know \ {"probe"}) \cup {"harts"}
  BY <1>1 DEF Ctl, Add
<1>6. KnownOfModule(q)'
  BY <1>1, <1>4, <1>5 DEF At, KnownOfModule, dvars
<1>7. KnownOfHost(q)'
  BY <1>1, <1>3, <1>4, <1>5 DEF At, KnownOfHost
<1> QED BY <1>1, <1>3, <1>5, <1>6, <1>7, TypedStill, AtStill

LEMMA AssignedSize ==
  ASSUME Typed, NEW p \in Ctl, NEW q \in Ctl, At(p), UNCHANGED dvars, p.err = {0}, "command" \in p.know,
         q = [p EXCEPT !.err = {0}, !.know = (@ \ {"cmderr"}) \cup {"xlen", "command"}],
           loc' = [loc EXCEPT !.xlen = XLEN]
  PROVE  Typed' /\ At(q)'
<1> DEFINE z == XLEN
<1>0. loc \in LocSet
  BY DEF Typed, LocType, LocSet
<1>1. z = XLEN /\ z \in Int
  BY DebugModuleAssumption
<1>2. loc' = [loc EXCEPT !.xlen = z]
  OBVIOUS
<1> HIDE DEF z
<1>3. loc' \in LocSet /\ loc'.xlen = z
  BY <1>0, <1>1, <1>2 DEF LocSet
<1>4. /\ loc'.running = loc.running /\ loc'.current_hart = loc.current_hart /\ loc'.num_harts = loc.num_harts
           /\ loc'.max_hart = loc.max_hart 
      /\ loc'.data_base = loc.data_base /\ loc'.dmcontrol = loc.dmcontrol /\ loc'.dmstatus = loc.dmstatus
           /\ loc'.hartinfo = loc.hartinfo /\ loc'.abstractcs = loc.abstractcs
  BY <1>0, <1>2 DEF LocSet
<1>5. q.mode = p.mode /\ q.sel = p.sel /\ q.ctl = p.ctl /\ q.cur = p.cur /\ q.busy = p.busy /\ q.err = {0}
      /\ q.know = (p.know \ {"cmderr"}) \cup {"xlen", "command"}
  BY <1>1 DEF Ctl, Add
<1>6. KnownOfModule(q)'
  BY <1>1, <1>4, <1>5 DEF At, KnownOfModule, dvars
<1>7. KnownOfHost(q)'
  BY <1>1, <1>3, <1>4, <1>5 DEF At, KnownOfHost
<1> QED BY <1>1, <1>3, <1>5, <1>6, <1>7, TypedStill, AtStill

\* The host can go on to r.
Ahead(r) == \E p \in Ctl : At(p) /\ Legal(p) /\ Plan(p, todo, r)

LEMMA ByRest == ASSUME NEW q \in Ctl, NEW r, At(q)', Legal(q), Plan(q, Rest, r), todo' = Rest PROVE Ahead(r)'
BY DEF Ahead, Legal

LEMMA BySteps == ASSUME NEW p \in Ctl, NEW q \in Ctl, NEW r, NEW steps, At(p)', Legal(p), Plan(p, steps, q),
                        Plan(q, Rest, r), todo' = steps \o Rest
                 PROVE  Ahead(r)'
<1> DEFINE t == Rest
<1>1. Plan(q, t, r) /\ todo' = steps \o t
  OBVIOUS
<1> HIDE DEF t
<1>2. Plan(p, steps \o t, r)
  BY <1>1, PlanJoin
<1> QED BY <1>1, <1>2 DEF Ahead, Legal

LEMMA ComputedVariable ==
  ASSUME Typed, NEW p \in Ctl, NEW q \in Ctl, NEW r, At(p), Plan(q, Rest, r), Legal(p), Legal(q), Compute,
         Computes(p, Now, q),
         Now.do \in {"hartsel", "current_hart", "data", "keep", "recall", "memcpy", "data_base", "max_hart",
           "running"}
  PROVE  Typed' /\ Ahead(r)'
<1> DEFINE v == Now.val
<1>0. UNCHANGED dvars /\ loc \in LocSet
  BY DEF Compute, Typed, LocType, LocSet
<1>1. CASE Now.do = "hartsel"
  <2>1. loc' = [loc EXCEPT !["dmcontrol"] = [loc.dmcontrol EXCEPT !.hartsel = v]] /\ todo' = Rest
    BY <1>1 DEF Compute, Assign
  <2>2. v \in Nat /\ p.ctl # Unknown /\ q = [p EXCEPT !.ctl = v]
    BY <1>1 DEF Computes
  <2>3. Typed' /\ At(q)'
    BY <1>0, <2>1, <2>2, AssignedControl
  <2> QED BY <2>1, <2>3, ByRest
<1>2. CASE Now.do = "current_hart"
  <2>1. loc' = [loc EXCEPT !["current_hart"] = v] /\ todo' = Rest
    BY <1>2 DEF Compute, Assign
  <2>2. v \in Nat /\ q = [p EXCEPT !.cur = v]
    BY <1>2 DEF Computes
  <2>3. Typed' /\ At(q)'
    BY <1>0, <2>1, <2>2, AssignedHart
  <2> QED BY <2>1, <2>3, ByRest
<1>3. CASE Now.do = "data"
  <2>1. loc' = [loc EXCEPT !["data"] = v] /\ todo' = Rest
    BY <1>3 DEF Compute, Assign
  <2>2. v \in Val /\ q = p
    BY <1>3 DEF Computes
  <2>3. Typed' /\ At(q)'
    BY <1>0, <2>1, <2>2, AssignedData
  <2> QED BY <2>1, <2>3, ByRest
<1>4. CASE Now.do = "keep"
  <2>1. loc' = [loc EXCEPT ![v] = loc.data] /\ todo' = Rest
    BY <1>4 DEF Compute, Assign
  <2>2. (v = "s0" \/ v = "s1") /\ q = p /\ loc.data \in Val
    BY <1>0, <1>4 DEF Computes, LocSet
  <2>3. CASE v = "s0"
    <3>1. loc' = [loc EXCEPT !.s0 = loc.data]
      BY <2>1, <2>3
    <3>2. Typed' /\ At(q)'
      BY <1>0, <3>1, <2>2, AssignedS0
    <3> QED BY <2>1, <3>2, ByRest
  <2>4. CASE v = "s1"
    <3>1. loc' = [loc EXCEPT !.s1 = loc.data]
      BY <2>1, <2>4
    <3>2. Typed' /\ At(q)'
      BY <1>0, <3>1, <2>2, AssignedS1
    <3> QED BY <2>1, <3>2, ByRest
  <2> QED BY <2>2, <2>3, <2>4
<1>5. CASE Now.do = "recall"
  <2>1. loc' = [loc EXCEPT !["data"] = loc[v]] /\ todo' = Rest
    BY <1>5 DEF Compute, Assign
  <2>2. (v = "s0" \/ v = "s1") /\ q = p /\ loc["s0"] \in Val /\ loc["s1"] \in Val
    BY <1>0, <1>5 DEF Computes, LocSet
  <2>3. loc[v] \in Val
    BY <2>2
  <2>4. Typed' /\ At(q)'
    BY <1>0, <2>1, <2>2, <2>3, AssignedData
  <2> QED BY <2>1, <2>4, ByRest
<1>6. CASE Now.do = "memcpy"
  <2>1. loc' = [loc EXCEPT !["dst"] = Append(loc.dst, loc.data)] /\ todo' = Rest
    BY <1>6 DEF Compute, Assign
  <2>2. q = p
    BY <1>6 DEF Computes
  <2>3. Append(loc.dst, loc.data) \in Seq(Val)
    <3>1. loc.dst \in Seq(Val) /\ loc.data \in Val
      BY <1>0 DEF LocSet
    <3> QED BY <3>1
  <2>4. Typed' /\ At(q)'
    BY <1>0, <2>1, <2>2, <2>3, AssignedDst
  <2> QED BY <2>1, <2>4, ByRest
<1>7. CASE Now.do = "data_base"
  <2>1. loc' = [loc EXCEPT !["data_base"] = loc.hartinfo.dataaddr] /\ todo' = Rest
    BY <1>7 DEF Compute, Assign
  <2>2. "info" \in p.know /\ q = Add(p, {"base"})
    BY <1>7 DEF Computes
  <2>3. Typed' /\ At(q)'
    BY <1>0, <2>1, <2>2, AssignedBase
  <2> QED BY <2>1, <2>3, ByRest
<1>8. CASE Now.do = "max_hart"
  <2>1. loc' = [loc EXCEPT !["max_hart"] = loc.dmcontrol.hartsel] /\ todo' = Rest
    BY <1>8 DEF Compute, Assign
  <2>2. p.ctl = HartselMax /\ q = Add(p, {"max"})
    BY <1>8 DEF Computes
  <2>3. Typed' /\ At(q)'
    BY <1>0, <2>1, <2>2, AssignedMax
  <2> QED BY <2>1, <2>3, ByRest
<1>9. CASE Now.do = "running"
  <2>1. loc' = [loc EXCEPT !["running"] = TRUE] /\ todo' = Rest
    BY <1>9 DEF Compute, Assign
  <2>2. q = Add(p, {"running"})
    BY <1>9 DEF Computes
  <2>3. Typed' /\ At(q)'
    BY <1>0, <2>1, <2>2, AssignedRunning
  <2> QED BY <2>1, <2>3, ByRest
<1> QED BY <1>1, <1>2, <1>3, <1>4, <1>5, <1>6, <1>7, <1>8, <1>9

LEMMA ComputedHarts ==
  ASSUME Typed, NEW p \in Ctl, NEW q \in Ctl, NEW r, At(p), Plan(q, Rest, r), Legal(p), Legal(q), Compute,
         Computes(p, Now, q),
         Now.do \in {"enumerate", "exists"}
  PROVE  Typed' /\ Ahead(r)'
<1> DEFINE h == Now.val
           n == [p EXCEPT !.sel = Unknown, !.ctl = Unknown, !.cur = Unknown,
             !.know = (@ \ {"probe"}) \cup {"harts"}]
<1>0. UNCHANGED dvars /\ loc \in LocSet
  BY DEF Compute, Typed, LocType, LocSet
<1>1. /\ h \in 0 .. NHarts /\ p.mode = "run" /\ p.sel # Unknown /\ {"active", "max"} \subseteq p.know
      /\ q = n
  <2>1. CASE Now.do = "enumerate"
    BY <2>1 DEF Computes
  <2>2. CASE Now.do = "exists"
    BY <2>2, Sizes DEF Computes, Unknown
  <2> QED BY <2>1, <2>2
<1>2. loc.max_hart = HartselMax
  BY <1>1 DEF At, KnownOfHost
<1>3. p = C("run", p.sel, p.ctl, p.cur, p.busy, p.err, p.know)
  BY <1>1, Rebuilt
<1>4. q = C("run", Unknown, Unknown, Unknown, p.busy, p.err, (p.know \ {"probe"}) \cup {"harts"})
  <2>1. /\ q.mode = "run" /\ q.sel = Unknown /\ q.ctl = Unknown /\ q.cur = Unknown /\ q.busy = p.busy
             /\ q.err = p.err
        /\ q.know = (p.know \ {"probe"}) \cup {"harts"}
    BY <1>1 DEF Ctl
  <2> QED BY <2>1, Rebuilt
\* The number of the harts is found ...
<1>a. ASSUME h = NHarts, loc' = [loc EXCEPT !["num_harts"] = h], todo' = Rest PROVE Typed' /\ Ahead(r)'
  <2>1. loc' = [loc EXCEPT !.num_harts = NHarts]
    BY <1>a
  <2>2. Typed' /\ At(q)'
    BY <1>0, <1>1, <2>1, AssignedHarts
  <2> QED BY <1>a, <2>2, ByRest
\* ... or another hart is tried.
<1>b. ASSUME NEW steps, Plan(p, steps, q), todo' = steps \o Rest, UNCHANGED loc PROVE Typed' /\ Ahead(r)'
  <2>1. Typed' /\ At(p)'
    BY <1>0, <1>b, AtSame, TypedStill
  <2> QED BY <1>b, <2>1, BySteps
<1>5. CASE Now.do = "enumerate"
  <2> DEFINE steps == select_hart(h) \o read(Reg("DMSTATUS"), "dmstatus") \o local("exists", h)
  <2>1. CASE h <= HartselMax
    <3>1. todo' = steps \o Rest /\ UNCHANGED loc
      BY <1>2, <1>5, <2>1 DEF Compute, Enumerate, Replace
    <3>2. Plan(C("run", p.sel, p.ctl, p.cur, p.busy, p.err, p.know), steps,
               C("run", Unknown, Unknown, Unknown, p.busy, p.err, (p.know \ {"probe"}) \cup {"harts"}))
      <4> DEFINE s == p.sel
                 c == p.ctl
                 u == p.cur
                 b == p.busy
                 e == p.err
                 k == p.know
      <4>1. C("run", s, c, u, b, e, k) \in Ctl /\ s # Unknown /\ {"active", "max"} \subseteq k
        BY <1>1, <1>3
      <4> HIDE DEF s, c, u, b, e, k
      <4>2. Plan(C("run", s, c, u, b, e, k), steps,
            C("run", Unknown, Unknown, Unknown, b, e, (k \ {"probe"}) \cup {"harts"}))
        BY <1>1, <2>1, <4>1, PlanNextNumber
      <4> QED BY <4>2 DEF s, c, u, b, e, k
    <3> HIDE DEF steps
    <3> QED BY <1>3, <1>4, <3>1, <3>2, <1>b
  <2>2. CASE ~ (h <= HartselMax)
    <3>1. h = NHarts
      BY <1>1, <2>2, DebugModuleAssumption
    <3>2. loc' = [loc EXCEPT !["num_harts"] = h] /\ todo' = Rest
      BY <1>2, <1>5, <2>2 DEF Compute, Enumerate, Assign
    <3> QED BY <3>1, <3>2, <1>a
  <2> QED BY <2>1, <2>2
<1>6. CASE Now.do = "exists"
  <2>0. p.sel = h /\ "probe" \in p.know
    BY <1>6 DEF Computes
  <2>1. loc.dmstatus.nonexistent <=> h \notin Harts
    BY <1>1, <2>0 DEF At, Module, KnownOfModule
  <2>2. CASE loc.dmstatus.nonexistent
    <3>1. h = NHarts
      BY <1>1, <2>1, <2>2, Sizes DEF Harts
    <3>2. loc' = [loc EXCEPT !["num_harts"] = h] /\ todo' = Rest
      BY <1>6, <2>2 DEF Compute, Assign
    <3> QED BY <3>1, <3>2, <1>a
  <2>3. CASE ~ loc.dmstatus.nonexistent
    <3> DEFINE i == h + 1
               steps == local("enumerate", i)
    <3>1. todo' = steps \o Rest /\ UNCHANGED loc
      BY <1>6, <2>3 DEF Compute, Replace
    <3>2. i \in 0 .. NHarts
      BY <1>1, <2>1, <2>3, Sizes DEF Harts
    <3> HIDE DEF i
    <3>3. Plan(C("run", p.sel, p.ctl, p.cur, p.busy, p.err, p.know), steps,
               C("run", Unknown, Unknown, Unknown, p.busy, p.err, (p.know \ {"probe"}) \cup {"harts"}))
      BY <1>1, <1>3, <3>2, PlanEnumerate
    <3> HIDE DEF steps
    <3> QED BY <1>3, <1>4, <3>1, <3>3, <1>b
  <2> QED BY <2>2, <2>3
<1> QED BY <1>5, <1>6

LEMMA ComputedSize ==
  ASSUME Typed, NEW p \in Ctl, NEW q \in Ctl, NEW r, At(p), Plan(q, Rest, r), Legal(p), Legal(q), Compute,
         Computes(p, Now, q), Now.do = "size"
  PROVE  Typed' /\ Ahead(r)'
<1> DEFINE n == Now.val
<1>0. UNCHANGED dvars /\ loc \in LocSet
  BY DEF Compute, Typed, LocType, LocSet
<1>1. /\ n \in Tried /\ p.mode = "halted" /\ ~ p.busy /\ "cmderr" \in p.know /\ "auto" \notin p.know
           /\ "running" \notin p.know
      /\ IF n = XLEN THEN p.err = {0} /\ "command" \in p.know ELSE p.err = {NOT_SUPPORTED}
      /\ q = [p EXCEPT !.err = {0}, !.know = (@ \ {"cmderr"}) \cup {"xlen", "command"}]
  BY DEF Computes
<1>2. CMDERR \in p.err
  BY <1>1 DEF At, Module, KnownOfModule, CMDERR
<1>3. CASE n = XLEN
  <2>1. CMDERR = 0
    BY <1>1, <1>2, <1>3
  <2>2. loc' = [loc EXCEPT !["xlen"] = n] /\ todo' = Rest
    BY <2>1 DEF Compute, Assign
  <2>3. loc' = [loc EXCEPT !.xlen = XLEN]
    BY <1>3, <2>2
  <2>4. Typed' /\ At(q)'
    BY <1>0, <1>1, <1>3, <2>3, AssignedSize
  <2> QED BY <2>2, <2>4, ByRest
<1>4. CASE n # XLEN
  <2> DEFINE m == n \div 2
             a == write(Reg("ABSTRACTCS"), "clear")
             steps == a \o TrySize(m)
  <2>1. CMDERR # 0
    BY <1>1, <1>2, <1>4 DEF NOT_SUPPORTED
  <2>2. todo' = steps \o Rest /\ UNCHANGED loc
    BY <2>1 DEF Compute, Replace
  <2>3. m \in Tried
    BY <1>1, <1>4, DebugModuleAssumption DEF Tried
  <2> HIDE DEF m
  <2> DEFINE s == p.sel
             c == p.ctl
             u == p.cur
             e == p.err
             k == p.know
             k1 == k \ {"cmderr"}
             k2 == k1 \ {"cmderr"}
  <2>4. p = C("halted", s, c, u, FALSE, e, k)
    <3>1. p.busy = FALSE
      BY <1>1 DEF Ctl
    <3> QED BY <1>1, <3>1, Rebuilt
  <2>5. q = C("halted", s, c, u, FALSE, {0}, k2 \cup {"xlen", "command"})
    <3>1. /\ q.mode = "halted" /\ q.sel = s /\ q.ctl = c /\ q.cur = u /\ q.busy = FALSE /\ q.err = {0}
          /\ q.know = k2 \cup {"xlen", "command"}
      BY <1>1 DEF Ctl
    <3> QED BY <3>1, Rebuilt
  <2>6. "auto" \notin k1 /\ "running" \notin k1
    BY <1>1
  <2> HIDE DEF s, c, u, e, k
  <2>7. Plan(p, a, C("halted", s, c, u, FALSE, {0}, k1))
    BY <2>4, PlanClear
  <2>8. C("halted", s, c, u, FALSE, {0}, k1) \in Ctl
    BY <2>7, PlanEnds
  <2> HIDE DEF a, k1
  <2>9. Plan(C("halted", s, c, u, FALSE, {0}, k1), TrySize(m), q)
    BY <2>3, <2>5, <2>6, <2>8, PlanTrySize
  <2>10. Plan(p, steps, q)
    BY <2>7, <2>9, PlanJoin
  <2>11. Typed' /\ At(p)'
    BY <1>0, <2>2, AtSame, TypedStill
  <2> HIDE DEF steps
  <2> QED BY <2>2, <2>10, <2>11, BySteps
<1> QED BY <1>3, <1>4

LEMMA ComputedCheck ==
  ASSUME Typed, NEW p \in Ctl, NEW q \in Ctl, NEW r, At(p), Plan(q, Rest, r), Legal(p), Legal(q), Compute,
         Computes(p, Now, q), Now.do = "check"
  PROVE  Typed' /\ Ahead(r)'
<1> DEFINE f == Forget(p, {"cmderr"})
<1>0. UNCHANGED dvars /\ loc \in LocSet
  BY DEF Compute, Typed, LocType, LocSet
<1>1. ~ p.busy /\ "cmderr" \in p.know /\ q = [f EXCEPT !.err = {0}]
  BY DEF Computes
<1>2. UNCHANGED loc /\ todo' = (IF CMDERR = 0 THEN <<>> ELSE die) \o Rest
  BY DEF Compute, Replace
<1>3. Typed' /\ At(p)'
  BY <1>0, <1>2, AtSame, TypedStill
<1>4. /\ q.mode = p.mode /\ q.sel = p.sel /\ q.ctl = p.ctl /\ q.cur = p.cur /\ q.busy = FALSE /\ q.err = {0}
      /\ q.know = p.know \ {"cmderr"} /\ p.busy = FALSE
  BY <1>1 DEF Ctl, Forget
<1>5. CASE CMDERR = 0
  <2>1. dm.cmderr = 0
    BY <1>1, <1>5 DEF At, KnownOfModule, CMDERR
  <2>2. UNCHANGED <<dm, harts, mem, ppc, own, loc>>
    BY <1>0, <1>2 DEF dvars
  <2>3. Module(q)'
    BY <1>4, <2>1, <2>2 DEF At, Module
  <2>4. Borrowed(q)' /\ OthersRun(q)'
    BY <1>4, <2>2 DEF At, Borrowed, OthersRun
  <2>5. KnownOfModule(q)' /\ KnownOfHost(q)'
    BY <1>4, <2>2 DEF At, KnownOfModule, KnownOfHost
  <2>6. At(q)'
    BY <2>3, <2>4, <2>5 DEF At
  <2>7. Plan(q, <<>>, q)
    BY PlanNone
  <2>8. todo' = <<>> \o Rest
    BY <1>2, <1>5
  <2> QED BY <1>3, <2>6, <2>7, <2>8, BySteps
<1>6. CASE CMDERR # 0
  <2> DEFINE s == p.sel
             c == p.ctl
             u == p.cur
             e == p.err
             k == p.know
             m == p.mode
  <2>1. p = C(m, s, c, u, FALSE, e, k)
    BY <1>4, Rebuilt
  <2>2. q = C(m, s, c, u, FALSE, {0}, k \ {"cmderr"})
    BY <1>4, Rebuilt
  <2> HIDE DEF m, s, c, u, e, k
  <2>3. Plan(p, die, q)
    BY <2>1, <2>2, PlanClear DEF die
  <2>4. todo' = die \o Rest
    BY <1>2, <1>6
  <2> QED BY <1>3, <2>3, <2>4, BySteps
<1> QED BY <1>5, <1>6

LEMMA ComputedWords ==
  ASSUME Typed, NEW p \in Ctl, NEW q \in Ctl, NEW r, At(p), Plan(q, Rest, r), Legal(p), Legal(q), Compute,
         Computes(p, Now, q),
         Now.do \in {"read_words", "auto_words"}
  PROVE  Typed' /\ Ahead(r)'
<1> DEFINE a == Now.val
<1>0. UNCHANGED dvars /\ loc \in LocSet
  BY DEF Compute, Typed, LocType, LocSet
<1>1. Halted(p) /\ q = Forget(p, {"cmderr"}) /\ UNCHANGED loc
  <2>1. CASE Now.do = "read_words"
    BY <2>1 DEF Computes, Compute, Replace
  <2>2. CASE Now.do = "auto_words"
    BY <2>2 DEF Computes, Compute, Replace
  <2> QED BY <2>1, <2>2
<1>2. Typed' /\ At(p)'
  BY <1>0, <1>1, AtSame, TypedStill
<1>3. At(q)'
  <2>1. At(q)
    BY <1>1, Forgotten
  <2> QED BY <1>0, <1>1, <2>1, AtSame
<1>4. loc.xlen = XLEN
  BY <1>1 DEF At, KnownOfHost, Halted
<1> DEFINE s == p.sel
           c == p.ctl
           u == p.cur
           k == p.know \ {"cmderr"}
<1>5. q = C("halted", s, c, u, FALSE, {0}, k)
  <2>1. p.mode = "halted" /\ p.busy = FALSE /\ p.err = {0}
    BY <1>1 DEF Halted, Ctl
  <2> QED BY <1>1, <2>1, Forgotten
<1>6. {"xlen", "command"} \subseteq k /\ "cmderr" \notin k
  BY <1>1 DEF Halted
<1>7. CASE Now.do = "read_words"
  <2>1. a \in Nat \X Nat /\ "auto" \notin p.know
    BY <1>7 DEF Computes
  <2>2. a[1] \in Nat /\ a[2] \in Nat /\ Steady(k)
    BY <1>6, <2>1 DEF Steady
  <2>3. todo' = ReadWords(a[1], a[2]) \o Rest
    BY <1>7 DEF Compute, Replace
  <2> HIDE DEF s, c, u, k
  <2>4. Plan(q, ReadWords(a[1], a[2]), q)
    BY <1>4, <1>5, <2>2, PlanNextReads
  <2> QED BY <1>2, <1>3, <2>3, <2>4, BySteps
<1>8. CASE Now.do = "auto_words"
  <2>1. a \in Seq(Val) /\ "auto" \in k
    BY <1>8 DEF Computes
  <2>2. {"auto", "command", "xlen"} \subseteq k
    BY <1>6, <2>1
  <2>3. todo' = NextWords(a) \o Rest
    BY <1>8 DEF Compute, Replace
  <2> HIDE DEF s, c, u, k
  <2>4. Plan(q, NextWords(a), q)
    BY <1>4, <1>5, <1>6, <2>1, <2>2, PlanNextWords
  <2> QED BY <1>2, <1>3, <2>3, <2>4, BySteps
<1> QED BY <1>7, <1>8

LEMMA ComputedReset ==
  ASSUME Typed, NEW p \in Ctl, NEW q \in Ctl, NEW r, At(p), Plan(q, Rest, r), Legal(p), Legal(q), Compute,
         Computes(p, Now, q),
         Now.do \in {"reset", "fence_i", "write_csr"}
  PROVE  Typed' /\ Ahead(r)'
<1> DEFINE h == Now.val
           f == Forget(p, {"cmderr"})
           s == p.sel
           c == p.ctl
           u == p.cur
           k == p.know
           k1 == k \ {"cmderr"}
<1>0. UNCHANGED dvars /\ loc \in LocSet
  BY DEF Compute, Typed, LocType, LocSet
<1>1. Quiet(p) /\ UNCHANGED loc
  <2>1. CASE Now.do = "reset"
    BY <2>1 DEF Computes, Compute, Replace
  <2>2. CASE Now.do = "fence_i"
    BY <2>2 DEF Computes, Compute, Replace
  <2>3. CASE Now.do = "write_csr"
    BY <2>3 DEF Computes, Compute, Replace
  <2> QED BY <2>1, <2>2, <2>3
<1>2. Typed' /\ At(p)'
  BY <1>0, <1>1, AtSame, TypedStill
<1>3. At(f)' /\ f \in Ctl /\ Legal(f)
  <2>1. At(f) /\ f \in Ctl /\ Legal(f)
    BY Forgotten, StillLegal
  <2> QED BY <1>0, <1>1, <2>1, AtSame
<1>4. /\ p = C("run", s, c, u, FALSE, {0}, k) /\ f = C("run", s, c, u, FALSE, {0}, k1)
      /\ Ready \subseteq k /\ "auto" \notin k /\ Ready \subseteq k1 /\ "auto" \notin k1 /\ s # Unknown
  <2>1. p.mode = "run" /\ p.busy = FALSE /\ p.err = {0} /\ Ready \subseteq k /\ "auto" \notin k /\ s # Unknown
    BY <1>1 DEF Quiet, Ctl
  <2>2. p = C("run", s, c, u, FALSE, {0}, k)
    BY <2>1, Rebuilt
  <2>3. f = C("run", s, c, u, FALSE, {0}, k1)
    BY <2>1, Forgotten
  <2> QED BY <2>1, <2>2, <2>3 DEF Ready
<1>5. loc.xlen = XLEN /\ loc.num_harts = NHarts /\ loc.running /\ loc.data_base \in Int
  BY <1>0, <1>1 DEF At, KnownOfHost, Quiet, Ready, LocSet
<1>6. CASE Now.do = "reset"
  <2>1. h \in 0 .. NHarts /\ q = [f EXCEPT !.sel = 0, !.ctl = 0, !.cur = 0, !.know = @ \cup {"probe"}]
    BY <1>6 DEF Computes
  <2>2. q = C("run", 0, 0, 0, FALSE, {0}, k1 \cup {"probe"})
    <3>1. /\ q.mode = "run" /\ q.sel = 0 /\ q.ctl = 0 /\ q.cur = 0 /\ q.busy = FALSE /\ q.err = {0}
          /\ q.know = k1 \cup {"probe"}
      <4>1. f.mode = "run" /\ f.busy = FALSE /\ f.err = {0} /\ f.know = k1
        <5> HIDE DEF f, s, c, u, k1
        <5> QED BY <1>4 DEF C
      <4> HIDE DEF f, k1
      <4> QED BY <1>3, <2>1, <4>1 DEF Ctl
    <3> QED BY <3>1, Rebuilt
  <2>3. CASE h < NHarts
    <3> DEFINE steps == select_hart(h) \o local("fence_i", 0) \o local("write_csr", 0) \o local("reset", h + 1)
    <3>1. todo' = steps \o Rest
      BY <1>5, <1>6, <2>3 DEF Compute, Replace, ResetHart
    <3>2. h \in Harts /\ h + 1 \in 0 .. NHarts
      BY <2>1, <2>3, Sizes DEF Harts
    <3> HIDE DEF h, f, s, c, u, k
    <3>3. Plan(p, steps, q)
      BY <1>4, <2>2, <3>2, PlanNextHart
    <3> HIDE DEF steps
    <3> QED BY <1>2, <3>1, <3>3, BySteps DEF h
  <2>4. CASE ~ (h < NHarts)
    <3> DEFINE steps == select_hart(0) \o read(Reg("DMSTATUS"), "dmstatus")
    <3>1. todo' = steps \o Rest
      BY <1>5, <1>6, <2>4 DEF Compute, Replace, ResetHart
    <3> HIDE DEF f, s, c, u, k1
    <3>3. Plan(f, steps, q)
      BY <1>3, <1>4, <2>2, PlanLastHart
    <3> HIDE DEF steps
    <3> QED BY <1>2, <1>3, <3>1, <3>3, BySteps
  <2> QED BY <2>3, <2>4
<1>7. CASE Now.do \in {"fence_i", "write_csr"}
  <2> DEFINE K == (k \cup {"active", "probe"}) \ {"cmderr"}
  <2>1. u \in Harts /\ q = [f EXCEPT !.sel = 0, !.know = @ \cup {"probe"}]
    BY <1>7 DEF Computes
  <2>2. q = C("run", 0, c, u, FALSE, {0}, K)
    <3>1. f.mode = "run" /\ f.busy = FALSE /\ f.err = {0} /\ f.know = k1 /\ f.ctl = c /\ f.cur = u
      <4> HIDE DEF f, s, c, u, k1
      <4> QED BY <1>4 DEF C
    <3>2. k1 \cup {"probe"} = K
      BY <1>4 DEF Ready
    <3> HIDE DEF f, k1, c, u, K
    <3>3. /\ q.mode = "run" /\ q.sel = 0 /\ q.ctl = c /\ q.cur = u /\ q.busy = FALSE /\ q.err = {0}
          /\ q.know = K
      BY <1>3, <2>1, <3>1, <3>2 DEF Ctl
    <3> QED BY <3>3, Rebuilt
  <2>3. u = loc.current_hart
    BY <2>1, Clamped DEF At, KnownOfHost, Unknown
  <2>4. CASE Now.do = "fence_i"
    <3>1. todo' = fence_i \o Rest
      BY <2>4 DEF Compute, Replace
    <3>a. K = (k \cup {"active", "probe"}) \ {"cmderr"} /\ C("run", s, c, u, FALSE, {0}, k) \in Ctl
      BY <1>4
    <3> HIDE DEF s, c, u, k, K
    <3>2. Plan(C("run", s, c, u, FALSE, {0}, k), fence_i, C("run", 0, c, u, FALSE, {0}, K))
      BY <3>a, <1>4, <1>5, <2>1, <2>3, PlanFence
    <3> QED BY <1>2, <1>4, <2>2, <3>1, <3>2, BySteps
  <2>5. CASE Now.do = "write_csr"
    <3> DEFINE w == "dpc"
               v == Long(Entry)
               o == "csrrw"
    <3>1. todo' = modify_csr(w, v, o) \o Rest
      BY <2>5 DEF Compute, Replace
    <3>2. w \in CsrName /\ v \in Val /\ o \in CsrOps
      BY Address, DebugModuleAssumption DEF CsrName, CsrOps
    <3>a. K = (k \cup {"active", "probe"}) \ {"cmderr"} /\ C("run", s, c, u, FALSE, {0}, k) \in Ctl
      BY <1>4
    <3> HIDE DEF s, c, u, k, w, v, o, K
    <3>3. Plan(C("run", s, c, u, FALSE, {0}, k), modify_csr(w, v, o), C("run", 0, c, u, FALSE, {0}, K))
      BY <3>a, <1>4, <1>5, <2>1, <2>3, <3>2, PlanModifyCsr
    <3> QED BY <1>2, <1>4, <2>2, <3>1, <3>3, BySteps
  <2> QED BY <1>7, <2>4, <2>5
<1> QED BY <1>6, <1>7

LEMMA Computed ==
  ASSUME Typed, NEW p \in Ctl, NEW q \in Ctl, NEW r, At(p), Plan(q, Rest, r), Legal(p), Leads(p, Now, q),
         Compute
  PROVE  Typed' /\ Ahead(r)'
<1>1. ~ IsRequest(Now)
  BY DEF Compute
<1>2. Computes(p, Now, q)
  BY <1>1 DEF Leads, IsRequest, Writes, WritesWord, Reads, Awaits
<1>3. Legal(q)
  BY StaysLegal
<1>4. \/ Now.do \in {"hartsel", "current_hart", "data", "keep", "recall", "memcpy", "data_base", "max_hart",
           "running"}
      \/ Now.do \in {"enumerate", "exists"} \/ Now.do = "size" \/ Now.do = "check"
      \/ Now.do \in {"read_words", "auto_words"} \/ Now.do \in {"reset", "fence_i", "write_csr"}
  BY <1>2 DEF Computes
<1> QED BY <1>2, <1>3, <1>4, ComputedVariable, ComputedHarts, ComputedSize, ComputedCheck, ComputedWords,
           ComputedReset

----------------------------------------------------------------------------
(* The invariant.                                                          *)

\* Between operations the host comes home.
Home(r) == Quiet(r) /\ r.cur = 0
Resting == ~ resp_wait /\ wire # "executed"

\* The host computes or calls, or its request is asked, carried out, or answered.
Thinking(r) == Hosting /\ ~ in_command /\ Resting /\ Ahead(r)
Pending(p, s, q) == \/ control = "target" /\ Resting /\ At(p) /\ Asking(s)
                    \/ control = "target" /\ resp_wait /\ wire = "executed" /\ Answered(p, s, q)
                    \/ Hosting /\ Resting /\ Answered(p, s, q)
Route(p, q, r) == Legal(p) /\ Plan(p, todo, r) /\ Leads(p, Now, q) /\ Plan(q, Rest, r)
Waiting(r) == /\ in_command /\ todo # <<>> /\ IsRequest(Now)
              /\ \E s : \E p \in Ctl, q \in Ctl : s = Now /\ Route(p, q, r) /\ Pending(p, s, q)
Flow(r) == Thinking(r) \/ Waiting(r)
FlowInv == Typed /\ \E r \in Ctl : Home(r) /\ Flow(r)

LEMMA HomeForm == ASSUME NEW s, NEW c, NEW u, NEW k, C("run", s, c, u, FALSE, {0}, k) \in Ctl, u = 0,
                         s # Unknown,
                         Ready \subseteq k, "auto" \notin k
                  PROVE  Home(C("run", s, c, u, FALSE, {0}, k))
BY DEF Home, Quiet, C

LEMMA SameAnswer == ASSUME NEW p, NEW q, NEW s, Answered(p, s, q), UNCHANGED <<dvars, loc, resp_buf>>
                    PROVE  Answered(p, s, q)'
<1>1. UNCHANGED <<dm, harts, mem, ppc, own, loc, resp_buf>>
  BY DEF dvars
<1>2. (At(p) => At(p)') /\ (At(q) => At(q)')
  BY AtSame
<1>3. Told(p, s) => Told(p, s)'
  BY <1>1 DEF Told
<1> QED BY <1>2, <1>3 DEF Answered

LEMMA TypedKept == ASSUME Typed, UNCHANGED <<dvars, loc>> PROVE Typed'
BY DEF Typed, DmType, HartType, LocType, dvars

LEMMA WordsOfValues == Values \subseteq Val
<1>1. Words = 1 \/ Words = 2
  BY Sizes
<1>2. CASE Words = 1
  <2>1. \A x \in Data : <<x>> \in [1 .. 1 -> Int]
    <3> TAKE x \in Data
    <3>1. x \in Int
      BY DtmAssumption
    <3> QED BY <3>1
  <2> QED BY <1>2, <2>1 DEF Values, Val
<1>3. CASE Words = 2
  <2>1. \A x \in Data, y \in Data : <<x, y>> \in [1 .. 2 -> Int]
    <3> TAKE x \in Data, y \in Data
    <3>1. x \in Int /\ y \in Int
      BY DtmAssumption
    <3> QED BY <3>1
  <2> QED BY <1>3, <2>1 DEF Values, Val
<1> QED BY <1>1, <1>2, <1>3

\* Whatever the host calls next, it will come home from it.
LEMMA Called ==
  ASSUME Typed, NEW r \in Ctl, Home(r), At(r), Legal(r), todo = <<>>, Call
  PROVE  Typed' /\ \E t \in Ctl : Home(t) /\ Ahead(t)'
<1> DEFINE s == r.sel
           c == r.ctl
           u == r.cur
           k == r.know
           K == (k \cup {"active", "probe"}) \ {"cmderr"}
           K0 == (k \ {"cmderr"}) \cup {"probe"}
           t == C("run", 0, c, u, FALSE, {0}, K)
           t0 == C("run", 0, 0, 0, FALSE, {0}, K0)
<1>0. UNCHANGED dvars /\ loc \in LocSet
  BY DEF Call, Typed, LocType, LocSet
<1>1. r = C("run", s, c, u, FALSE, {0}, k) /\ Ready \subseteq k /\ "auto" \notin k /\ u = 0 /\ s # Unknown
  BY RunForm DEF Home, Quiet
<1>2. C("run", s, c, u, FALSE, {0}, k) \in Ctl
  BY <1>1
<1>3. /\ u \in Harts /\ u = loc.current_hart /\ loc.running /\ loc.xlen = XLEN /\ loc.data_base \in Int
  <2>1. u \in Harts /\ u # Unknown
    BY <1>1, Sizes DEF Unknown
  <2> QED BY <1>0, <1>1, <2>1 DEF At, KnownOfHost, Ready, LocSet
<1>4. Ready \subseteq K /\ "auto" \notin K /\ Ready \subseteq K0 /\ "auto" \notin K0
  BY <1>1 DEF Ready
<1>5. K = (k \cup {"active", "probe"}) \ {"cmderr"} /\ K0 = (k \ {"cmderr"}) \cup {"probe"}
  OBVIOUS
<1> HIDE DEF s, c, u, k, K, K0
<1>6. 0 # Unknown
  BY DEF Unknown
<1>7. ASSUME t \in Ctl PROVE Home(t)
  BY <1>1, <1>4, <1>6, <1>7, HomeForm
<1>8. ASSUME t0 \in Ctl PROVE Home(t0)
  BY <1>4, <1>6, <1>8, HomeForm
<1>a. ASSUME NEW o, NEW steps, NEW x, Home(x), Begin(o, steps), Plan(r, steps, x)
      PROVE  Typed' /\ \E y \in Ctl : Home(y) /\ Ahead(y)'
  <2>1. loc' = [loc EXCEPT !.dst = <<>>] /\ todo' = steps
    BY <1>a DEF Begin
  <2>2. <<>> \in Seq(Val)
    OBVIOUS
  <2>3. Typed' /\ At(r)'
    BY <1>0, <2>1, <2>2, AssignedDst
  <2>4. x \in Ctl
    BY <1>a, PlanEnds
  <2>5. Ahead(x)'
    BY <1>a, <2>1, <2>3 DEF Ahead, Legal
  <2> QED BY <1>a, <2>3, <2>4, <2>5
<1>b. CASE CallPort
  <2>1. PICK a \in Starts, n \in 1 .. MaxWords :
          \/ \E o : Begin(o, read_chunk(a, n))
          \/ \E o : Begin(o, clear_chunk(a, n))
          \/ \E src \in [1 .. n -> Values] : \E o : Begin(o, write_chunk(a, src))
    BY <1>b DEF CallPort
  <2>2. a \in Int /\ n \in Nat /\ n > 0
    <3>1. PICK i \in 0 .. MemWords : a = Step * i
      BY DEF Starts
    <3>2. i \in Int /\ Step \in Int
      BY <3>1, Sizes, DebugModuleAssumption
    <3>3. Step * i \in Int
      <4> DEFINE m == Step
      <4>1. m \in Int
        BY <3>2
      <4> HIDE DEF m
      <4>2. m * i \in Int
        BY <3>2, <4>1
      <4> QED BY <4>2 DEF m
    <3> QED BY <3>1, <3>3, DtmAssumption
  <2>3. ASSUME NEW o, Begin(o, read_chunk(a, n)) PROVE Typed' /\ \E y \in Ctl : Home(y) /\ Ahead(y)'
    <3>1. Plan(r, read_chunk(a, n), t)
      BY <1>1, <1>2, <1>3, <1>5, <2>2, PlanReadChunk
    <3>2. Home(t)
      BY <1>7, <3>1, PlanEnds
    <3> HIDE DEF t
    <3> QED BY <1>a, <2>3, <3>1, <3>2
  <2>4. ASSUME NEW o, Begin(o, clear_chunk(a, n)) PROVE Typed' /\ \E y \in Ctl : Home(y) /\ Ahead(y)'
    <3>1. Plan(r, clear_chunk(a, n), t)
      BY <1>1, <1>2, <1>3, <1>5, <2>2, PlanClearChunk
    <3>2. Home(t)
      BY <1>7, <3>1, PlanEnds
    <3> HIDE DEF t
    <3> QED BY <1>a, <2>4, <3>1, <3>2
  <2>5. ASSUME NEW src \in [1 .. n -> Values], NEW o, Begin(o, write_chunk(a, src))
        PROVE  Typed' /\ \E y \in Ctl : Home(y) /\ Ahead(y)'
    <3>1. src \in Seq(Val) /\ src # <<>>
      <4>1. src \in [1 .. n -> Val]
        BY WordsOfValues
      <4>2. src \in Seq(Val) /\ Len(src) = n
        BY <2>2, <4>1
      <4> QED BY <2>2, <4>2
    <3>2. Plan(r, write_chunk(a, src), t)
      BY <1>1, <1>2, <1>3, <1>5, <2>2, <3>1, PlanWriteChunk
    <3>3. Home(t)
      BY <1>7, <3>2, PlanEnds
    <3> HIDE DEF t
    <3> QED BY <1>a, <2>5, <3>2, <3>3
  <2> QED BY <2>1, <2>3, <2>4, <2>5
<1>c. CASE CallCsr
  <2>1. PICK w \in Csrs, v \in Values, o \in CsrOps : \E d : Begin(d, modify_csr(w, v, o))
    BY <1>c DEF CallCsr, CsrOps
  <2>2. w \in CsrName /\ v \in Val
    BY DtmAssumption, WordsOfValues DEF CsrName
  <2>3. Plan(r, modify_csr(w, v, o), t)
    BY <1>1, <1>2, <1>3, <1>5, <2>2, PlanModifyCsr
  <2>4. Home(t)
    BY <1>7, <2>3, PlanEnds
  <2> HIDE DEF t
  <2> QED BY <1>a, <2>1, <2>3, <2>4
<1>d. CASE CallReset
  <2> DEFINE z == 0
  <2>1. PICK d : Begin(d, local("reset", z))
    BY <1>d DEF CallReset
  <2>2. z \in 0 .. NHarts
    BY Sizes
  <2> HIDE DEF z
  <2>3. Plan(r, local("reset", z), t0)
    BY <1>1, <1>2, <1>5, <2>2, PlanResetStep
  <2>4. Home(t0)
    BY <1>8, <2>3, PlanEnds
  <2> HIDE DEF t0
  <2> QED BY <1>a, <2>1, <2>3, <2>4
<1>e. CASE Idle
  <2> DEFINE st == StepOf("nop", Reg("none"), 0)
  <2>1. todo' = <<st>> /\ UNCHANGED loc
    BY <1>e DEF Idle, nop
  <2>2. Leads(r, st, r)
    BY DEF Leads, StepOf
  <2> HIDE DEF st
  <2>3. Plan(r, <<st>>, r)
    BY <2>2, PlanStep
  <2>4. Typed' /\ At(r)'
    BY <1>0, <2>1, AtSame, TypedStill
  <2>5. Ahead(r)'
    BY <2>1, <2>3, <2>4 DEF Ahead, Legal
  <2> QED BY <2>4, <2>5
<1> QED BY <1>b, <1>c, <1>d, <1>e DEF Call

LEMMA InitFlow == ASSUME Init PROVE FlowInv
<1> DEFINE p == C("run", 0, 0, 0, FALSE, {0}, {})
           k == {"active", "info", "base", "max", "harts", "probe", "xlen", "command", "running"}
           r == C("run", 0, Unknown, 0, FALSE, {0}, k)
<1>1. p \in Ctl /\ p.mode = "run" /\ p.sel = 0 /\ p.ctl = 0 /\ p.cur = 0 /\ p.busy = FALSE /\ p.err = {0}
      /\ p.know = {}
  BY DEF C, Ctl, Mode, Number, Fact
<1>2. loc = [running |-> FALSE, current_hart |-> 0, num_harts |-> 0, max_hart |-> 0, xlen |-> 0,
             data_base |-> 0, dmcontrol |-> DMACTIVE, dmstatus |-> DmStatus, hartinfo |-> NoInfo,
             abstractcs |-> AbstractCs, data |-> Long(0), dst |-> <<>>, s0 |-> Long(0), s1 |-> Long(0)]
  BY DEF Init
<1>0. DmInit
  BY DEF Init
<1>3. Typed
  <2>a. Long(0) \in Val /\ Long(1) \in Val /\ Long(2) \in Val
    BY Sizes
  <2>1. DmType
    <3> DEFINE i == Ins("ebreak", "x0", "x0", 0)
               w == [j \in 1 .. Words |-> 0]
    <3>1. NoCommand \in Command
      BY DEF NoCommand, Command, RegName
    <3>2. i \in Instruction /\ i.op # "bne"
      BY DEF Ins, Instruction, Kinds, RegName
    <3>3. w \in Val
      BY DEF Val
    <3>4. dm = [active |-> FALSE, hartsel |-> 0, haltreq |-> FALSE, busy |-> FALSE, cmderr |-> 0,
                command |-> NoCommand, data |-> w, auto |-> 0, prog |-> [j \in 1 .. RamWords |-> i]]
      BY <1>0 DEF DmInit
    <3> HIDE DEF i, w
    <3>5. \A j \in 1 .. RamWords : dm.prog[j] = i
      BY <3>4
    <3> QED BY <3>1, <3>2, <3>3, <3>4, <3>5 DEF DmType, Fits
  <2>2. HartType
    <3> DEFINE a == Long(0)
               b == Long(1)
               d == Long(2)
    <3>1. /\ harts = [h \in Harts |->
                         [halted |-> FALSE, resume |-> FALSE, ack |-> FALSE, pc |-> a,
                          reg |-> [s0 |-> b, s1 |-> d, x0 |-> a],
                            csr |-> [dpc |-> a, dscratch0 |-> a, mscratch |-> b]]]
          /\ mem = [x \in Addrs |-> a] /\ ppc = -1
          /\ own = [h \in Harts |-> [s0 |-> b, s1 |-> d]]
      BY <1>0 DEF DmInit
    <3>2. a \in Val /\ b \in Val /\ d \in Val
      BY <2>a
    <3> HIDE DEF a, b, d
    <3>3. [s0 |-> b, s1 |-> d, x0 |-> a] \in [RegName -> Val]
      BY <3>2 DEF RegName
    <3>4. [dpc |-> a, dscratch0 |-> a, mscratch |-> b] \in [CsrName -> Val]
      BY <3>2 DEF CsrName
    <3>5. harts \in [Harts -> Hart]
      BY <3>1, <3>2, <3>3, <3>4 DEF Hart
    <3>6. mem \in [Addrs -> Val] /\ own \in [Harts -> [s0 : Val, s1 : Val]]
      BY <3>1, <3>2
    <3>7. ppc \in -1 .. RamWords - 1
      BY <3>1, Sizes
    <3> QED BY <3>5, <3>6, <3>7 DEF HartType
  <2>3. LocType
    <3>1. DMACTIVE \in Control
      BY DEF DMACTIVE, Control
    <3>2. DmStatus \in Status
      BY <2>1, <2>2 DEF DmStatus, Status, Exists, Selected, DmType, HartType, Hart
    <3>3. AbstractCs \in Abstract
      BY <2>1, Sizes DEF AbstractCs, Abstract, DmType
    <3>4. NoInfo \in Info /\ <<>> \in Seq(Val)
      BY DEF NoInfo, Info
    <3> QED BY <1>2, <2>a, <3>1, <3>2, <3>3, <3>4 DEF LocType
  <2> QED BY <2>1, <2>2, <2>3 DEF Typed
<1>4. At(p)
  <2>1. /\ dm.hartsel = 0 /\ ~ dm.haltreq /\ dm.cmderr = 0 /\ ~ dm.busy /\ ppc = -1 /\ dm.auto = 0
        /\ \A h \in Harts : ~ harts[h].halted /\ ~ harts[h].resume
    BY <1>0 DEF DmInit
  <2>2. loc.dmcontrol = DMACTIVE /\ loc.current_hart = 0 /\ loc.running = FALSE
    BY <1>2
  <2>3. loc.dmcontrol = [DMACTIVE EXCEPT !.hartsel = 0]
    BY <2>2, Whole
  <2> HIDE DEF p
  <2>4. Module(p) /\ Borrowed(p) /\ OthersRun(p) /\ KnownOfModule(p)
    BY <1>1, <2>1 DEF Module, Borrowed, OthersRun, KnownOfModule
  <2>5. KnownOfHost(p)
    BY <1>1, <2>2, <2>3 DEF KnownOfHost
  <2> QED BY <2>4, <2>5 DEF At
<1>5. Plan(p, todo, r)
  <2>1. todo = Boot /\ ~ loc.running
    BY <1>2 DEF Init
  <2>2. Plan(p, Boot, r)
    BY <1>1, <2>1, PlanBoot
  <2> HIDE DEF p, r
  <2> QED BY <2>1, <2>2
<1>6. r \in Ctl
  BY <1>5, PlanEnds
<1>7. Home(r)
  <2>1. Ready \subseteq k /\ "auto" \notin k
    BY DEF Ready
  <2> HIDE DEF k
  <2>2. 0 # Unknown
    BY DEF Unknown
  <2> QED BY <1>6, <2>1, <2>2, HomeForm
<1>8. Legal(p)
  BY <1>1 DEF Legal, NOT_SUPPORTED
<1>9. Thinking(r)
  <2> HIDE DEF p, r
  <2> QED BY <1>1, <1>4, <1>5, <1>8 DEF Thinking, Ahead, Init, Hosting, Resting
<1> HIDE DEF r
<1> QED BY <1>3, <1>6, <1>7, <1>9 DEF FlowInv, Flow

LEMMA NextFlow == ASSUME FlowInv, [Next]_vars PROVE FlowInv'
<1>0. Typed
  BY DEF FlowInv
<1>1. PICK r \in Ctl : Home(r) /\ Flow(r)
  BY DEF FlowInv
<1> DEFINE G == \E t \in Ctl : Home(t) /\ Flow(t)'
<1>g. ASSUME Typed', G PROVE FlowInv'
  BY <1>g DEF FlowInv, Home, Quiet
\* The host goes on.
<1>2. CASE Thinking(r)
  <2>1. PICK p \in Ctl : At(p) /\ Legal(p) /\ Plan(p, todo, r)
    BY <1>2 DEF Thinking, Ahead
  <2>2. Hosting /\ ~ in_command /\ Resting
    BY <1>2 DEF Thinking
  <2>a. ASSUME NEW t \in Ctl, Home(t), Ahead(t)', UNCHANGED <<in_command, control, resp_wait, wire>> PROVE G
    BY <2>2, <2>a DEF Flow, Thinking, Hosting, Resting
  <2>b. ASSUME todo # <<>> PROVE \E q \in Ctl : Leads(p, Now, q) /\ Plan(q, Rest, r)
    BY <2>1, <2>b, PlanFirst DEF Now, Rest
  <2>3. CASE do_command
    <3>1. todo # <<>> /\ IsRequest(Now) /\ in_command' = TRUE /\ control' = "target"
      BY <2>3 DEF do_command
    <3>2. UNCHANGED <<dvars, todo, loc, resp_wait, wire>>
      BY <2>3 DEF do_command
    <3>3. PICK q \in Ctl : Leads(p, Now, q) /\ Plan(q, Rest, r)
      BY <2>b, <3>1
    <3> DEFINE s == Now
    <3>a. s' = s
      BY <3>2 DEF Now
    <3>b. Asking(Now)'
      BY <2>3 DEF do_command, Asking, IsRequest, Now, Word
    <3>c. PICK x : x = Now
      OBVIOUS
    <3>4. Asking(x)' /\ x = Now'
      BY <3>a, <3>b, <3>c DEF Asking, Word
    <3>5. Typed' /\ At(p)'
      BY <1>0, <2>1, <3>2, AtSame, TypedKept
    <3>6. Pending(p, x, q)'
      BY <2>2, <3>1, <3>2, <3>4, <3>5 DEF Pending, Resting
    <3>7. Route(p, q, r)'
      BY <2>1, <3>2, <3>3 DEF Route, Now, Rest, Legal
    <3>8. Waiting(r)'
      <4>1. IsRequest(Now)' /\ todo' # <<>> /\ in_command'
        BY <3>1, <3>2 DEF IsRequest, Now
      <4> QED BY <3>4, <3>6, <3>7, <4>1 DEF Waiting
    <3> QED BY <1>1, <1>g, <3>5, <3>8 DEF Flow
  <2>4. CASE Compute
    <3>1. todo # <<>> /\ UNCHANGED <<in_command, control, resp_wait, wire>>
      BY <2>4 DEF Compute
    <3>2. PICK q \in Ctl : Leads(p, Now, q) /\ Plan(q, Rest, r)
      BY <2>b, <3>1
    <3>3. Typed' /\ Ahead(r)'
      BY <1>0, <2>1, <2>4, <3>2, Computed
    <3> QED BY <1>1, <1>g, <2>a, <3>1, <3>3
  <2>5. CASE Call
    <3>1. todo = <<>> /\ UNCHANGED <<in_command, control, resp_wait, wire>>
      BY <2>5 DEF Call
    <3>2. p = r
      BY <2>1, <3>1, PlanFirst
    <3>3. Typed' /\ \E t \in Ctl : Home(t) /\ Ahead(t)'
      BY <1>0, <1>1, <2>1, <2>5, <3>1, <3>2, Called
    <3> QED BY <1>g, <2>a, <3>1, <3>3
  <2>6. CASE UNCHANGED vars
    <3>1. UNCHANGED <<dvars, loc, todo, in_command, control, resp_wait, wire>>
      BY <2>6 DEF vars, hvars
    <3>2. Typed' /\ At(p)'
      BY <1>0, <2>1, <3>1, AtSame, TypedKept
    <3>3. Ahead(r)'
      BY <2>1, <3>1, <3>2 DEF Ahead, Legal
    <3> QED BY <1>1, <1>g, <2>a, <3>1, <3>2, <3>3
  <2> QED BY <2>2, <2>3, <2>4, <2>5, <2>6
             DEF Next, HostStep, Receive, TargetStep, TickShow, TickAccept, TickRespond,
                                             ReturnResp, HardwareStep, ProgramStep, Targeting, Hosting
\* Its request is on its way.
<1>3. CASE Waiting(r)
  <2>0. PICK s : \E p \in Ctl, q \in Ctl : s = Now /\ Route(p, q, r) /\ Pending(p, s, q)
    BY <1>3 DEF Waiting
  <2>1. PICK p \in Ctl, q \in Ctl : s = Now /\ Route(p, q, r) /\ Pending(p, s, q)
    BY <2>0
  <2>2. Legal(p) /\ Plan(p, todo, r) /\ Leads(p, Now, q) /\ Plan(q, Rest, r) /\ Leads(p, s, q)
    BY <2>1 DEF Route
  <2>3. in_command /\ todo # <<>> /\ IsRequest(Now) /\ IsRequest(s)
    BY <1>3, <2>1 DEF Waiting
  <2>a. ASSUME UNCHANGED <<todo, in_command>>, Pending(p, s, q)' PROVE G
    <3>1. Route(p, q, r)'
      BY <2>2, <2>a DEF Route, Now, Rest, Legal
    <3>2. Waiting(r)'
      BY <2>1, <2>3, <2>a, <3>1 DEF Waiting, IsRequest, Now
    <3> QED BY <1>1, <3>2 DEF Flow
    <2>4. CASE Receive
    <3>1. Hosting /\ Answered(p, Now, q) /\ Resting
      BY <2>1, <2>4 DEF Receive, Hosting, Pending
    <3>2. Typed' /\ ((todo' = todo /\ At(p)') \/ (todo' = Rest /\ At(q)'))
      BY <1>0, <2>2, <2>3, <2>4, <3>1, Received
    <3>3. Legal(q)
      BY <2>2, StaysLegal
    <3>4. Ahead(r)'
      BY <2>2, <3>2, <3>3 DEF Ahead, Legal
    <3>5. Thinking(r)'
      BY <2>4, <3>1, <3>4 DEF Receive, Thinking, Hosting, Resting
    <3> QED BY <1>1, <1>g, <3>2, <3>5 DEF Flow
  <2>5. CASE TickShow
    <3>1. UNCHANGED <<dvars, loc, todo, in_command, control, req_buf, resp_wait, wire>> /\ control = "target"
          /\ ~ resp_wait
      BY <2>5 DEF TickShow, Targeting
    <3>2. At(p) /\ Asking(s) /\ Resting
      BY <2>1, <3>1 DEF Pending, Hosting
    <3>3. Typed' /\ At(p)'
      BY <1>0, <3>1, <3>2, AtSame, TypedKept
    <3>4. Asking(s)'
      BY <3>1, <3>2 DEF Asking, Word
    <3>5. Pending(p, s, q)'
      BY <3>1, <3>2, <3>3, <3>4 DEF Pending, Resting
    <3> QED BY <1>g, <2>a, <3>1, <3>3, <3>5
  <2>6. CASE TickAccept
    <3>1. UNCHANGED <<loc, todo, in_command, control>> /\ control = "target" /\ ~ resp_wait
      BY <2>6 DEF TickAccept, Targeting
    <3>2. At(p) /\ Asking(s)
      BY <2>1, <3>1 DEF Pending, Hosting
    <3>3. Typed' /\ Answered(p, s, q)'
      BY <1>0, <2>2, <2>3, <2>6, <3>1, <3>2, Accessed DEF TickAccept
    <3>4. Pending(p, s, q)'
      BY <2>6, <3>1, <3>3 DEF TickAccept, Pending
    <3> QED BY <1>g, <2>a, <3>1, <3>3, <3>4
  <2>7. CASE ReturnResp
    <3>1. UNCHANGED <<loc, todo, in_command, resp_wait, wire>> /\ control = "target" /\ wire = "call"
          /\ control' = "host"
      BY <2>7 DEF ReturnResp, ByTick
    <3>2. At(p) /\ Asking(s) /\ Resting
      BY <2>1, <3>1 DEF Pending, Hosting
    <3>3. Typed' /\ Answered(p, s, q)'
      BY <1>0, <2>2, <2>3, <2>7, <3>1, <3>2, Accessed DEF ReturnResp
    <3>4. Pending(p, s, q)'
      BY <3>1, <3>2, <3>3 DEF Pending, Hosting, Resting
    <3> QED BY <1>g, <2>a, <3>1, <3>3, <3>4
  <2>8. CASE TickRespond
    <3>1. /\ UNCHANGED <<dvars, loc, todo, in_command, resp_buf>> /\ control = "target" /\ wire = "executed"
          /\ ~ resp_wait' /\ wire' = "none" /\ control' = "host"
      BY <2>8 DEF TickRespond, Targeting
    <3>2. Answered(p, s, q)
      BY <2>1, <3>1 DEF Pending, Hosting, Resting
    <3>3. Typed' /\ Answered(p, s, q)'
      BY <1>0, <3>1, <3>2, SameAnswer, TypedKept
    <3>4. Pending(p, s, q)'
      BY <3>1, <3>3 DEF Pending, Hosting, Resting
    <3> QED BY <1>g, <2>a, <3>1, <3>3, <3>4
\* The harts and the module's hardware advance.
  <2>9. CASE HardwareStep \/ ProgramStep
    <3>1. UNCHANGED <<loc, todo, in_command, control, req_buf, resp_wait, wire, resp_buf>> /\ control = "target"
      BY <2>9 DEF HardwareStep, ProgramStep, hvars
    <3>2. Hardware \/ \E h \in Harts : Run(h)
      BY <2>9 DEF HardwareStep, ProgramStep
    <3>3. CASE At(p) /\ Asking(s) /\ Resting
      <4>1. Typed' /\ At(p)'
        BY <1>0, <3>1, <3>2, <3>3, HardwareKeeps
      <4>2. Asking(s)'
        BY <3>1, <3>3 DEF Asking, Word
      <4>3. Pending(p, s, q)'
        BY <3>1, <3>3, <4>1, <4>2 DEF Pending, Resting
      <4> QED BY <1>g, <2>a, <3>1, <4>1, <4>3
    <3>4. CASE resp_wait /\ wire = "executed" /\ Answered(p, s, q)
      <4>1. Typed' /\ Answered(p, s, q)'
        BY <1>0, <2>2, <3>1, <3>2, <3>4, AnswerKeeps
      <4>2. Pending(p, s, q)'
        BY <3>1, <3>4, <4>1 DEF Pending
      <4> QED BY <1>g, <2>a, <3>1, <4>1, <4>2
    <3> QED BY <2>1, <3>1, <3>3, <3>4 DEF Pending, Hosting
  <2>10. CASE UNCHANGED vars
    <3>1. UNCHANGED <<dvars, loc, todo, in_command, control, req_buf, resp_wait, wire, resp_buf>>
      BY <2>10 DEF vars, hvars
    <3>2. Typed' /\ (At(p) => At(p)') /\ (Answered(p, s, q) => Answered(p, s, q)')
      BY <1>0, <3>1, AtSame, SameAnswer, TypedKept
    <3>3. Asking(s) => Asking(s)'
      BY <3>1 DEF Asking, Word
    <3>4. Pending(p, s, q)'
      BY <2>1, <3>1, <3>2, <3>3 DEF Pending, Hosting, Resting
    <3> QED BY <1>g, <2>a, <3>1, <3>2, <3>4
  <2> QED BY <2>3, <2>4, <2>5, <2>6, <2>7, <2>8, <2>9, <2>10
             DEF Next, HostStep, TargetStep, do_command, Compute, Call
<1> QED BY <1>1, <1>2, <1>3 DEF Flow

\* LeftQuiet: between operations, also when one failed, the debug module is idle, without
\* an error and without autoexec, every hart runs, and the host knows the harts.
LEMMA FlowQuiet == FlowInv => LeftQuiet
<1> SUFFICES ASSUME FlowInv, Between
             PROVE  /\ dm.cmderr = 0 /\ dm.auto = 0 /\ ~ dm.busy /\ ~ dm.haltreq /\ dm.active
                    /\ \A h \in Harts : ~ harts[h].halted /\ ~ harts[h].resume
                    /\ loc.current_hart = 0 /\ loc.num_harts = NHarts /\ loc.xlen = XLEN
  BY DEF LeftQuiet
<1>1. PICK r \in Ctl : Home(r) /\ Flow(r)
  BY DEF FlowInv
<1>2. Hosting /\ todo = <<>>
  BY DEF Between
<1>3. Thinking(r)
  BY <1>1, <1>2 DEF Flow, Waiting
<1>4. At(r)
  BY <1>2, <1>3, PlanFirst DEF Thinking, Ahead
<1>5. /\ r.mode = "run" /\ ~ r.busy /\ r.err = {0} /\ Ready \subseteq r.know /\ "auto" \notin r.know
           /\ r.cur = 0
  BY <1>1 DEF Home, Quiet
<1>6. 0 # Unknown
  BY DEF Unknown
<1> QED BY <1>4, <1>5, <1>6 DEF At, Module, OthersRun, KnownOfModule, KnownOfHost, Ready

LEMMA FlowLegal == FlowInv => ErrorsAsked
<1> SUFFICES ASSUME FlowInv PROVE ErrorsAsked
  OBVIOUS
<1>1. PICK r \in Ctl : Home(r) /\ Flow(r)
  BY DEF FlowInv
<1>2. \E p \in Ctl : Legal(p) /\ At(p)
  <2>1. CASE Thinking(r)
    BY <2>1 DEF Thinking, Ahead
  <2>2. CASE Waiting(r)
    <3>a. PICK s : \E p \in Ctl, q \in Ctl : s = Now /\ Route(p, q, r) /\ Pending(p, s, q)
      BY <2>2 DEF Waiting
    <3>1. PICK p \in Ctl, q \in Ctl : s = Now /\ Route(p, q, r) /\ Pending(p, s, q)
      BY <3>a
    <3>2. Legal(p) /\ Legal(q)
      BY <3>1, StaysLegal DEF Route
    <3> QED BY <3>1, <3>2 DEF Pending, Answered
  <2> QED BY <1>1, <2>1, <2>2 DEF Flow
<1>3. PICK p \in Ctl : Legal(p) /\ At(p)
  BY <1>2
<1>4. dm.cmderr \in p.err /\ (loc.running <=> "running" \in p.know)
  BY <1>3 DEF At, Module, KnownOfHost
<1> QED BY <1>3, <1>4 DEF Legal, ErrorsAsked

\* Whatever the operations, the harts' programs and the timing of the target are, the host
\* keeps to the protocol: what it has still to do leads, from what is so now, back to
\* harts that all run and a quiet module, with no access for which the module is not ready.
THEOREM FlowKept == Spec => []FlowInv
<1>1. FlowInv /\ [Next]_vars => FlowInv'
  BY NextFlow
<1> QED BY InitFlow, <1>1, PTL DEF Spec

\* CommandsLegal: behind every operation, the module is quiet and the harts run (select_hart,
\* halt, resume, the clearing of errors and of autoexec); and once the boot is over, no command
\* fails but for an exception in the program buffer (RUN_AC_OR_DIE).
THEOREM CommandsStayLegal == Spec => []CommandsLegal
<1>1. FlowInv => CommandsLegal
  BY FlowQuiet, FlowLegal DEF CommandsLegal
<1> QED BY FlowKept, <1>1, PTL

=============================================================================
