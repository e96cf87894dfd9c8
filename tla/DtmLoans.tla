------------------------------ MODULE DtmLoans ------------------------------
(***************************************************************************)
(* The registers that the host of the debug transport borrows.  Next to    *)
(* the assertions of DtmProofs, on the course of an operation, a second    *)
(* list of assertions between the same steps says where the values are     *)
(* that the program of the selected hart left in s0 and s1: in the hart,   *)
(* on their way to the host, kept by the host, or on their way back.  What *)
(* the host has still to do leads home: to harts that have their own.      *)
(***************************************************************************)
EXTENDS DtmProofs

----------------------------------------------------------------------------
(* Assertions.                                                             *)

Both == {"s0", "s1"}
Own(h, r) == IF r = "s0" THEN own[h].s0 ELSE own[h].s1
Saved(r) == IF r = "s0" THEN loc.s0 ELSE loc.s1
Homed(h, R) == \A r \in R : harts[h].reg[r] = Own(h, r)

\* The kinds: "free", every hart has its own; "still", the selected hart is held, has its
\* own, and executes nothing that would change them; "load", a register is read into the
\* data registers; "loaded", it is there; "wild", both are kept by the host, and commands
\* may change them; "placed", one is on its way back to the data registers; "store", and
\* from there; "exchange", s0 is in dscratch0 for a while.
Lent(kind, reg, home, kept, n, prog) ==
  [kind |-> kind, reg |-> reg, home |-> home, kept |-> kept, n |-> n, prog |-> prog]
Free == Lent("free", "s0", {}, {}, 0, <<>>)
Still(kept, n, prog) == Lent("still", "s0", Both, kept, n, prog)
Load(r, kept) == Lent("load", r, Both, kept, 0, <<>>)
Loaded(r, kept, n) == Lent("loaded", r, Both, kept, n, <<>>)
Wild == Lent("wild", "s0", {}, Both, 0, <<>>)
Placed(r, home, n) == Lent("placed", r, home, Both, n, <<>>)
Store(r, home) == Lent("store", r, home, Both, 0, <<>>)
Exchange(prog) == Lent("exchange", "s0", {}, {}, 6, prog)

Fence == <<FENCE_I, EBREAK>>
Swap(o, w) == <<CSRRx("csrrw", "s0", "dscratch0", "s0"), LOAD("s0", "x0", DataAddr), CSRRx(o, "s0", w, "s0"),
                STORE("s0", "x0", DataAddr), CSRRx("csrrw", "s0", "dscratch0", "s0"), EBREAK>>
Swaps(prog) == \E o \in CsrOps : \E w \in {"dpc", "mscratch"} : prog = Swap(o, w)

\* A command that moves the register r, into it or out of it, and does no more.
Shifts(into, r) == /\ ppc = -1 /\ dm.command.transfer /\ dm.command.write = into
                  /\ ~ dm.command.postexec /\ dm.command.reg = r
Harmless(d) == \/ ppc = -1 /\ ~ dm.command.write /\ ~ dm.command.postexec
               \/ dm.command.write /\ dm.command.reg = "x0" /\ ppc <= 1 /\ d.n = 2 /\ d.prog = Fence
Exchanging(d, h) ==
  /\ Swaps(d.prog) /\ d.n = 6
  /\ harts[h].reg["s1"] = Own(h, "s1")
  /\ IF ppc \in 1 .. 4 THEN harts[h].csr["dscratch0"] = Own(h, "s0")
     ELSE harts[h].reg["s0"] = Own(h, "s0")
  /\ dm.busy => dm.command.write /\ dm.command.reg = "x0" /\ ppc <= 5
Held(h) == h \in Harts /\ harts[h].halted /\ ~ harts[h].resume
Has(d, h) ==
  /\ \A r \in d.kept : Saved(r) = Own(h, r)
  /\ d.kind \in {"still", "load", "loaded", "placed", "store"} => Homed(h, d.home)
  /\ d.kind \in {"still", "exchange"} => \A k \in 1 .. d.n : dm.prog[k] = d.prog[k]
  /\ d.kind = "still" /\ dm.busy => Harmless(d)
  /\ d.kind = "exchange" => Exchanging(d, h)
  /\ d.kind = "load" => IF dm.busy THEN Shifts(FALSE, d.reg) /\ harts[h].reg[d.reg] = Own(h, d.reg)
                         ELSE dm.data = Own(h, d.reg)
  /\ d.kind = "loaded" => ~ dm.busy /\ dm.data = Own(h, d.reg)
       /\ \A i \in 1 .. d.n : loc.data[i] = Own(h, d.reg)[i]
  /\ d.kind = "placed" => ~ dm.busy /\ loc.data = Own(h, d.reg)
       /\ \A i \in 1 .. d.n : dm.data[i] = Own(h, d.reg)[i]
  /\ d.kind = "store" => /\ d.reg \in Both /\ dm.data = Own(h, d.reg) /\ loc.data = dm.data
                         /\ IF dm.busy THEN Shifts(TRUE, d.reg) ELSE harts[h].reg[d.reg] = Own(h, d.reg)

\* The assertion d holds.
Where(d) ==
  /\ \A g \in Harts : harts[g].reg["x0"] = Long(0)
  /\ \A g \in Harts : g # dm.hartsel \/ d.kind = "free" => Homed(g, Both)
  /\ d.kind = "free" => ~ dm.busy
  /\ d.kind # "wild" => dm.auto = 0
  /\ d.kind # "free" => Held(dm.hartsel) /\ Has(d, dm.hartsel)

\* A step that leaves the assertion as it is.
Settled == {"hartsel", "current_hart", "data_base", "max_hart", "running", "enumerate", "exists", "reset",
            "fence_i", "write_csr"}
Ends == {"resumeack", "dmactive"}
Bare == {"data", "memcpy", "read_words", "auto_words"}
Passes(kind, s) ==
  \/ s.do \in {"nop", "check"} \/ (s.do = "write" /\ s.addr = Reg("ABSTRACTCS"))
  \/ kind \in {"free", "still", "wild"} /\ s.do = "read"
  \/ /\ kind = "free"
     /\ \/ s.do \in {"write", "write_word"} /\ s.addr = Reg("DMCONTROL")
        \/ s.do = "until" /\ s.val \in Ends
        \/ s.do \in Settled
  \/ /\ kind = "still"
     /\ \/ s.do = "write" /\ s.addr = Reg("DMCONTROL") /\ ~ s.val.resumereq
        \/ s.do = "write" /\ s.addr = Reg("COMMAND") /\ ~ s.val.write /\ ~ s.val.postexec
        \/ s.do = "write_word" /\ s.addr[1] = "DATA"
        \/ s.do = "until" /\ s.val = "idle"
        \/ s.do \in {"data", "current_hart", "size"}
  \/ /\ kind = "wild"
     /\ \/ s.do = "write" /\ s.addr[1] \in {"PROGBUF", "COMMAND", "ABSTRACTAUTO"}
        \/ s.do = "write_word" /\ s.addr[1] = "DATA"
        \/ s.do = "until" /\ s.val = "idle"
        \/ s.do \in Bare

Commanded(s, into, r) == /\ s.do = "write" /\ s.addr = Reg("COMMAND") /\ s.val.write = into
                         /\ ~ s.val.postexec /\ s.val.size = XLEN /\ s.val.reg = r
Executed(s) == s.do = "write" /\ s.addr = Reg("COMMAND") /\ s.val.write /\ s.val.reg = "x0"
IdleAt(s) == s.do = "until" /\ s.val = "idle"

\* A step leads from d to e.
Carries(d, s, e) ==
  \/ Passes(d.kind, s) /\ e = d
  \/ /\ d = Free /\ s.do = "until" /\ s.val = "allhalted"
     /\ \E prog : e = Still({}, 0, prog)
  \/ /\ s.do = "write" /\ s.addr = Reg("DMCONTROL") /\ s.val.resumereq
     /\ d.kind \in {"still", "placed"} /\ d.home = Both /\ e = Free
  \/ \E kept, n, prog :
       /\ d = Still(kept, n, prog)
       /\ \/ /\ s.do = "write" /\ s.addr = <<"PROGBUF", n>> /\ n \in Nat /\ prog[n + 1] = s.val
             /\ e = Still(kept, n + 1, prog)
          \/ Executed(s) /\ n = 2 /\ prog = Fence /\ e = d
          \/ Executed(s) /\ s.val.size = XLEN /\ n = 6 /\ Swaps(prog) /\ e = Exchange(prog)
          \/ s.do = "data" /\ kept = Both /\ e = Wild
          \/ \E r \in Both : Commanded(s, FALSE, r) /\ e = Load(r, kept)
  \/ \E prog : d = Exchange(prog) /\ IdleAt(s) /\ e = Still({}, 0, <<>>)
  \/ \E r \in Both : \E kept :
       \/ d = Load(r, kept) /\ IdleAt(s) /\ e = Loaded(r, kept, 0)
       \/ \E n \in Nat : /\ d = Loaded(r, kept, n) /\ s.do = "read" /\ s.addr = <<"DATA", n>>
                         /\ e = Loaded(r, kept, n + 1)
       \/ d = Loaded(r, kept, Words) /\ s.do = "keep" /\ s.val = r /\ e = Still(kept \cup {r}, 0, <<>>)
  \/ \E r \in Both :
       \/ d = Wild /\ s.do = "recall" /\ s.val = r /\ e = Placed(r, {}, 0)
       \/ \E x, home, n : /\ d = Placed(x, home, n) /\ s.do = "recall" /\ s.val = r
                          /\ e = Placed(r, home, 0)
       \/ \E home : \E n \in Nat : /\ d = Placed(r, home, n) /\ s.do = "write_word" /\ s.addr = <<"DATA", n>>
                                   /\ e = Placed(r, home, n + 1)
       \/ \E home : d = Placed(r, home, Words) /\ Commanded(s, TRUE, r) /\ e = Store(r, home)
       \/ \E home : d = Store(r, home) /\ IdleAt(s) /\ e = Placed(r, home \cup {r}, Words)

\* The steps lead from d to e, by way of assertions between them.
Trip(d, steps, e) ==
  \E S, as : /\ steps \in Seq(S)
             /\ as[1] = d /\ as[Len(steps) + 1] = e
             /\ \A i \in 1 .. Len(steps) : Carries(as[i], steps[i], as[i + 1])

LEMMA TripNone == ASSUME NEW p PROVE Trip(p, <<>>, p)
<1> DEFINE as == [i \in 1 .. 1 |-> p]
<1>1. as[1] = p /\ as[0 + 1] = p
  OBVIOUS
<1>2. <<>> \in Seq({}) /\ Len(<<>>) = 0
  OBVIOUS
<1> HIDE DEF as
<1>3. \A i \in 1 .. 0 : Carries(as[i], <<>>[i], as[i + 1])
  <2>1. 1 .. 0 = {}
    OBVIOUS
  <2> QED BY <2>1
<1> QED BY <1>1, <1>2, <1>3 DEF Trip

LEMMA TripStep == ASSUME NEW p, NEW q, NEW s, Carries(p, s, q) PROVE Trip(p, <<s>>, q)
<1> DEFINE as == [i \in 1 .. 2 |-> IF i = 1 THEN p ELSE q]
           ss == <<s>>
<1>1. as[1] = p /\ as[1 + 1] = q
  OBVIOUS
<1>2. ss \in Seq({s}) /\ Len(ss) = 1 /\ ss[1] = s
  OBVIOUS
<1> HIDE DEF as, ss
<1>3. \A i \in 1 .. 1 : Carries(as[i], ss[i], as[i + 1])
  <2> TAKE i \in 1 .. 1
  <2>0. i = 1
    OBVIOUS
  <2>1. as[i] = p /\ ss[i] = s /\ as[i + 1] = q
    BY <2>0, <1>1, <1>2
  <2> QED BY <2>1
<1>4. Trip(p, ss, q)
  <2>1. /\ as[1] = p /\ as[Len(ss) + 1] = q
        /\ \A i \in 1 .. Len(ss) : Carries(as[i], ss[i], as[i + 1])
    BY <1>1, <1>2, <1>3
  <2> QED BY <1>2, <2>1 DEF Trip
<1> QED BY <1>4 DEF ss

\* Trips in a row.
LEMMA TripJoin == ASSUME NEW p, NEW q, NEW r, NEW a, NEW b, Trip(p, a, q), Trip(q, b, r)
                  PROVE  Trip(p, a \o b, r)
<1> DEFINE m == Len(a)
           n == Len(b)
<1>1. PICK S, as : /\ a \in Seq(S)
                   /\ as[1] = p /\ as[m + 1] = q
                   /\ \A i \in 1 .. m : Carries(as[i], a[i], as[i + 1])
  BY DEF Trip
<1>2. PICK T, bs : /\ b \in Seq(T)
                   /\ bs[1] = q /\ bs[n + 1] = r
                   /\ \A i \in 1 .. n : Carries(bs[i], b[i], bs[i + 1])
  BY DEF Trip
<1> DEFINE U == S \cup T
           c == a \o b
           cs == [i \in 1 .. m + n + 1 |-> IF i <= m THEN as[i] ELSE bs[i - m]]
<1>3. m \in Nat /\ n \in Nat
  BY <1>1, <1>2
<1>4. a \in Seq(U) /\ b \in Seq(U)
  BY <1>1, <1>2
<1>5. c \in Seq(U) /\ Len(c) = m + n
  BY <1>4
<1>6. \A i \in 1 .. m + n : c[i] = IF i <= m THEN a[i] ELSE b[i - m]
  BY <1>4
<1> HIDE DEF m, n, U, c
<1>8. \A i \in 1 .. (m + n) + 1 : IF i <= m THEN i \in 1 .. m + 1 ELSE i - m \in 1 .. n + 1
  BY <1>3
<1>10. \A i \in 1 .. m + n + 1 : cs[i] = IF i <= m THEN as[i] ELSE bs[i - m]
  OBVIOUS
<1> HIDE DEF cs
<1>a. ASSUME NEW i \in 1 .. m + n + 1, NEW j \in Int, i = m + j, j > 0 PROVE cs[i] = bs[j]
  <2>1. ~ (i <= m) /\ i - m = j
    BY <1>3, <1>a
  <2> QED BY <2>1, <1>10
<1>11. cs[1] = p /\ cs[(m + n) + 1] = r
  <2>1. (m + n + 1) - m = n + 1 /\ (m + n) + 1 = m + n + 1 /\ m + n + 1 \in 1 .. m + n + 1
        /\ 1 \in 1 .. m + n + 1 /\ ~ (m + n + 1 <= m)
    BY <1>3
  <2>2. cs[m + n + 1] = bs[n + 1]
    <3>1. n + 1 \in Int /\ n + 1 > 0 /\ m + n + 1 = m + (n + 1)
      BY <1>3
    <3> QED BY <3>1, <2>1, <1>a
  <2>3. CASE m = 0
    <3>1. m + 1 = 1
      BY <2>3
    <3>2. cs[1] = bs[1]
      BY <3>1, <2>1, <1>a
    <3> QED BY <3>1, <3>2, <2>1, <2>2, <1>1, <1>2
  <2>4. CASE m # 0
    <3>0. 1 <= m /\ 1 \in 1 .. m + n + 1
      BY <2>4, <1>3
    <3>1. cs[1] = as[1]
      BY <1>10, <3>0, <1>3
    <3> QED BY <3>1, <2>1, <2>2, <1>1, <1>2
  <2> QED BY <2>3, <2>4
<1>12. ASSUME NEW i \in 1 .. m + n PROVE Carries(cs[i], c[i], cs[i + 1])
  <2>1. CASE i < m
    <3>0. i <= m /\ i + 1 <= m /\ i \in 1 .. m + n + 1 /\ i + 1 \in 1 .. m + n + 1 /\ i \in 1 .. m
      BY <2>1, <1>3
    <3>1. cs[i] = as[i] /\ cs[i + 1] = as[i + 1] /\ c[i] = a[i] /\ i \in 1 .. m
      BY <3>0, <1>3, <1>6, <1>10
    <3>2. Carries(as[i], a[i], as[i + 1])
      BY <3>1, <1>1
    <3> QED BY <3>1, <3>2
  <2>2. CASE i = m
    <3>0. i <= m /\ i \in 1 .. m + n + 1 /\ i \in 1 .. m
      BY <2>2, <1>3
    <3>1. cs[i] = as[i] /\ c[i] = a[i] /\ i \in 1 .. m
      BY <3>0, <1>3, <1>6, <1>10
    <3>2. (i + 1) - m = 1 /\ ~ (i + 1 <= m) /\ i + 1 \in 1 .. m + n + 1
      BY <2>2, <1>3
    <3>3. cs[i + 1] = bs[1]
      BY <3>2, <1>10
    <3>4. bs[1] = as[i + 1]
      BY <2>2, <1>1, <1>2
    <3>5. Carries(as[i], a[i], as[i + 1])
      BY <3>1, <1>1
    <3> QED BY <3>1, <3>3, <3>4, <3>5
  <2>3. CASE i > m
    <3> DEFINE j == i - m
    <3>1. j \in 1 .. n /\ (i + 1) - m = j + 1 /\ ~ (i <= m) /\ ~ (i + 1 <= m) /\ i + 1 \in 1 .. m + n + 1
          /\ i \in 1 .. m + n + 1
      BY <2>3, <1>3
    <3>2. cs[i] = bs[i - m] /\ cs[i + 1] = bs[(i + 1) - m] /\ c[i] = b[i - m]
      BY <3>1, <1>6, <1>10
    <3> HIDE DEF j
    <3>3. Carries(bs[j], b[j], bs[j + 1])
      BY <3>1, <1>2
    <3> QED BY <3>1, <3>2, <3>3 DEF j
  <2> QED BY <2>1, <2>2, <2>3, <1>3
<1>13. Trip(p, c, r)
  <2>1. /\ cs[1] = p /\ cs[Len(c) + 1] = r
        /\ \A i \in 1 .. Len(c) : Carries(cs[i], c[i], cs[i + 1])
    BY <1>5, <1>11, <1>12
  <2> QED BY <1>5, <2>1 DEF Trip
<1> QED BY <1>13 DEF c

\* What is known of a trip whose first step has not been done.
LEMMA TripFirst == ASSUME NEW p, NEW r, NEW steps, Trip(p, steps, r)
                   PROVE  /\ steps = <<>> => p = r
                          /\ steps # <<>> => \E q : Carries(p, Head(steps), q) /\ Trip(q, Tail(steps), r)
<1> DEFINE n == Len(steps)
           rest == Tail(steps)
<1>1. PICK S, as : /\ steps \in Seq(S)
                   /\ as[1] = p /\ as[n + 1] = r
                   /\ \A i \in 1 .. n : Carries(as[i], steps[i], as[i + 1])
  BY DEF Trip
<1>2. n \in Nat
  BY <1>1
<1>3. steps = <<>> => n = 0
  OBVIOUS
<1>4. steps # <<>> => /\ n >= 1 /\ Head(steps) = steps[1] /\ rest \in Seq(S) /\ Len(rest) = n - 1
                      /\ \A i \in 1 .. n - 1 : rest[i] = steps[i + 1]
  BY <1>1
<1> HIDE DEF n, rest
<1>5. steps = <<>> => p = r
  <2>2. n = 0 => as[1] = as[n + 1]
    OBVIOUS
  <2> QED BY <2>2, <1>1, <1>3
<1>6. ASSUME steps # <<>> PROVE \E q : Carries(p, Head(steps), q) /\ Trip(q, rest, r)
  <2> DEFINE bs == [i \in 1 .. (n - 1) + 1 |-> as[i + 1]]
  <2>2. \A i \in 1 .. n : bs[i] = as[i + 1]
    BY <1>2
  <2> HIDE DEF bs
  <2>3. 1 \in 1 .. n /\ n \in 1 .. n /\ (n - 1) + 1 = n
    BY <1>2, <1>4, <1>6
  <2>4. bs[1] = as[1 + 1] /\ bs[(n - 1) + 1] = r
    <3>1. bs[1] = as[1 + 1] /\ bs[n] = as[n + 1]
      BY <2>2, <2>3
    <3> QED BY <3>1, <2>3, <1>1
  <2>5. Carries(p, Head(steps), bs[1])
    <3>1. Carries(as[1], steps[1], as[1 + 1])
      BY <1>1, <2>3
    <3> QED BY <3>1, <2>4, <1>1, <1>4, <1>6
  <2>6. ASSUME NEW i \in 1 .. n - 1 PROVE Carries(bs[i], rest[i], bs[i + 1])
    <3>1. i \in 1 .. n /\ i + 1 \in 1 .. n
      BY <1>2
    <3>2. bs[i] = as[i + 1] /\ bs[i + 1] = as[(i + 1) + 1] /\ rest[i] = steps[i + 1]
      BY <3>1, <2>2, <1>4, <1>6
    <3>3. Carries(as[i + 1], steps[i + 1], as[(i + 1) + 1])
      BY <3>1, <1>1
    <3> QED BY <3>2, <3>3
  <2>7. Trip(bs[1], rest, r)
    <3>1. /\ bs[Len(rest) + 1] = r
          /\ \A i \in 1 .. Len(rest) : Carries(bs[i], rest[i], bs[i + 1])
      BY <2>4, <2>6, <1>4, <1>6
    <3> QED BY <3>1, <1>4, <1>6 DEF Trip
  <2> QED BY <2>5, <2>7
<1> QED BY <1>5, <1>6 DEF rest

\* A step that is done again and again.
LEMMA TripSame == ASSUME NEW p, NEW steps, NEW S, steps \in Seq(S),
                         \A i \in 1 .. Len(steps) : Carries(p, steps[i], p)
                  PROVE  Trip(p, steps, p)
<1> DEFINE n == Len(steps)
           as == [i \in 1 .. n + 1 |-> p]
<1>1. n \in Nat
  OBVIOUS
<1>2. \A i \in 1 .. n + 1 : as[i] = p
  OBVIOUS
<1> HIDE DEF n, as
<1>3. as[1] = p /\ as[n + 1] = p
  <2>1. 1 \in 1 .. n + 1 /\ n + 1 \in 1 .. n + 1
    BY <1>1
  <2> QED BY <2>1, <1>2
<1>4. \A i \in 1 .. n : Carries(as[i], steps[i], as[i + 1])
  <2> TAKE i \in 1 .. n
  <2>1. i \in 1 .. n + 1 /\ i + 1 \in 1 .. n + 1
    BY <1>1
  <2>2. Carries(p, steps[i], p)
    BY DEF n
  <2> QED BY <2>1, <2>2, <1>2
<1> QED BY <1>3, <1>4 DEF n, Trip

----------------------------------------------------------------------------
(* The hardware's steps, and the lent registers.                           *)

LEMMA WhereStill ==
  ASSUME NEW d, Where(d), UNCHANGED <<dm, ppc, own, loc>>,
         \A g \in Harts : harts'[g].reg = harts[g].reg
           /\ harts'[g].csr["dscratch0"] = harts[g].csr["dscratch0"],
         d.kind # "free" => harts'[dm.hartsel].halted /\ ~ harts'[dm.hartsel].resume
  PROVE  Where(d)'
<1>1. \A g \in Harts : \A R : Homed(g, R) => Homed(g, R)'
  BY DEF Homed, Own
<1>2. \A g \in Harts : Has(d, g) => Has(d, g)'
  BY <1>1 DEF Has, Own, Saved, Harmless, Exchanging, Shifts
<1> QED BY <1>1, <1>2 DEF Where, Held

\* A command moves a register.
LEMMA TransferCarries ==
  ASSUME Typed, NEW p \in Ctl, At(p), NEW d, Where(d), UNCHANGED loc, Transfer
  PROVE  Where(d)'
<1> DEFINE c == dm.command
<1>0. PICK h : h = dm.hartsel
  OBVIOUS
<1>1. d.kind # "free" /\ Held(h) /\ Has(d, h) /\ h \in Harts
  BY <1>0 DEF Where, Transfer, Held
<1>2. Typed' /\ SameRuns
  BY <1>0, <1>1, TransferKeeps
<1>3. /\ harts' = IF c.transfer /\ c.write
           /\ c.reg # "x0" THEN [harts EXCEPT ![h].reg[c.reg] = dm.data] ELSE harts
      /\ dm' = [dm EXCEPT !.data = IF c.transfer /\ ~ c.write THEN harts[h].reg[c.reg] ELSE @,
                          !.busy = c.postexec]
      /\ ppc' = IF c.postexec THEN 0 ELSE -1
      /\ dm.busy /\ ppc = -1 /\ UNCHANGED <<mem, own>>
  BY <1>0 DEF Transfer, Selected
<1>4. dm \in DmSet /\ c \in Command
  BY DEF Typed, DmType, DmSet
<1>5. /\ dm'.hartsel = h /\ dm'.auto = dm.auto /\ dm'.prog = dm.prog /\ dm'.command = c
      /\ dm'.busy = c.postexec
      /\ dm'.data = IF c.transfer /\ ~ c.write THEN harts[h].reg[c.reg] ELSE dm.data
  BY <1>0, <1>3, <1>4 DEF DmSet
<1>6. harts \in [Harts -> Hart] /\ harts[h].reg \in [RegName -> Val]
  BY <1>1 DEF Typed, HartType, Hart
<1>7. \A g \in Harts : g # h => harts'[g] = harts[g]
  BY <1>1, <1>3, <1>6
<1>8. /\ harts'[h].csr = harts[h].csr
      /\ ~ (c.transfer /\ c.write /\ c.reg # "x0") => harts'[h].reg = harts[h].reg
      /\ c.transfer /\ c.write /\ c.reg # "x0" => harts'[h].reg = [harts[h].reg EXCEPT ![c.reg] = dm.data]
  <2>1. harts[h] \in Hart
    BY <1>1, <1>6
  <2> QED BY <1>1, <1>3, <1>6, <2>1 DEF Hart
<1>9. harts'[h].reg["x0"] = harts[h].reg["x0"]
  BY <1>6, <1>8 DEF RegName
<1>10. Held(h)'
  BY <1>1, <1>2, <1>5 DEF Held, SameRuns
<1>11. Has(d, h)'
  <2>0. \A r : Own(h, r)' = Own(h, r) /\ Saved(r)' = Saved(r)
    BY <1>3 DEF Own, Saved
  <2>a. ASSUME harts'[h].reg = harts[h].reg PROVE \A R : Homed(h, R) => Homed(h, R)'
    BY <2>0, <2>a DEF Homed
  <2>1. CASE d.kind = "still"
    <3>1. Harmless(d) /\ Homed(h, d.home)
      BY <1>1, <1>3, <2>1 DEF Has
    <3>2. harts'[h].reg = harts[h].reg /\ (dm'.busy => Harmless(d)')
      BY <1>3, <1>5, <1>8, <3>1 DEF Harmless
    <3>3. Homed(h, d.home)'
      BY <2>a, <3>1, <3>2
    <3> QED BY <1>1, <1>5, <2>0, <2>1, <3>2, <3>3 DEF Has
  <2>2. CASE d.kind = "exchange"
    <3>1. Exchanging(d, h)
      BY <1>1, <2>2 DEF Has
    <3>2. harts'[h].reg = harts[h].reg
      BY <1>3, <1>8, <3>1 DEF Exchanging
    <3>3. Exchanging(d, h)'
      BY <1>3, <1>5, <1>8, <2>0, <3>1, <3>2 DEF Exchanging
    <3> QED BY <1>1, <1>5, <2>0, <2>2, <3>3 DEF Has
  <2>3. CASE d.kind = "load"
    <3>1. Shifts(FALSE, d.reg) /\ harts[h].reg[d.reg] = Own(h, d.reg) /\ Homed(h, d.home)
      BY <1>1, <1>3, <2>3 DEF Has
    <3>2. harts'[h].reg = harts[h].reg /\ ~ dm'.busy /\ dm'.data = Own(h, d.reg)
      BY <1>5, <1>8, <3>1 DEF Shifts
    <3>3. Homed(h, d.home)'
      BY <2>a, <3>1, <3>2
    <3> QED BY <1>1, <2>0, <2>3, <3>2, <3>3 DEF Has
  <2>4. CASE d.kind = "store"
    <3>1. Shifts(TRUE, d.reg) /\ dm.data = Own(h, d.reg) /\ Homed(h, d.home) /\ d.reg \in Both
          /\ loc.data = dm.data
      BY <1>1, <1>3, <2>4 DEF Has
    <3>2. /\ harts'[h].reg = [harts[h].reg EXCEPT ![d.reg] = dm.data] /\ ~ dm'.busy /\ dm'.data = dm.data
      BY <1>5, <1>8, <3>1 DEF Shifts, Both
    <3>3. harts'[h].reg[d.reg] = dm.data /\ \A r : r # d.reg => harts'[h].reg[r] = harts[h].reg[r]
      BY <1>6, <3>1, <3>2 DEF Both, RegName
    <3>4. Homed(h, d.home)'
      BY <2>0, <3>1, <3>3 DEF Homed
    <3> QED BY <1>1, <2>0, <2>4, <3>1, <3>2, <3>3, <3>4 DEF Has
  <2>5. CASE d.kind \in {"loaded", "placed"}
    BY <1>1, <1>3, <2>5 DEF Has
  <2>6. CASE d.kind \notin {"load", "loaded", "placed", "store", "still", "exchange"}
    BY <1>1, <2>0, <2>6 DEF Has
  <2> QED BY <2>1, <2>2, <2>3, <2>4, <2>5, <2>6
<1>12. \A g \in Harts : g # h => Homed(g, Both)'
  BY <1>0, <1>1, <1>3, <1>7 DEF Where, Homed, Own
<1> QED BY <1>0, <1>1, <1>5, <1>7, <1>9, <1>10, <1>11, <1>12 DEF Where
\* What a step of the program writes into the registers and the CSRs of the selected hart.
LEMMA RegPut ==
  ASSUME Typed, NEW h \in Harts, h = dm.hartsel, NEW r \in RegName, NEW v, SetReg(r, v)
  PROVE  /\ \A g \in Harts : g # h => harts'[g] = harts[g]
         /\ harts'[h].csr = harts[h].csr
         /\ \A x \in RegName : harts'[h].reg[x] = IF x = r /\ r # "x0" THEN v ELSE harts[h].reg[x]
<1>1. harts \in [Harts -> Hart] /\ harts[h] \in Hart /\ harts[h].reg \in [RegName -> Val]
  BY DEF Typed, HartType, Hart
<1>2. harts' = IF r = "x0" THEN harts ELSE [harts EXCEPT ![h].reg[r] = v]
  BY DEF SetReg, Selected
<1>3. CASE r = "x0"
  BY <1>2, <1>3
<1>4. CASE r # "x0"
  <2> DEFINE t == [harts[h].reg EXCEPT ![r] = v]
             u == [harts[h] EXCEPT !.reg = t]
  <2>1. harts' = [harts EXCEPT ![h] = u]
    BY <1>2, <1>4
  <2>2. \A x \in RegName : t[x] = IF x = r THEN v ELSE harts[h].reg[x]
    BY <1>1
  <2> HIDE DEF t
  <2>3. u.reg = t /\ u.csr = harts[h].csr
    BY <1>1 DEF Hart
  <2> HIDE DEF u
  <2>4. harts'[h] = u /\ \A g \in Harts : g # h => harts'[g] = harts[g]
    BY <1>1, <2>1
  <2> QED BY <1>4, <2>2, <2>3, <2>4
<1> QED BY <1>3, <1>4

\* The CSR c gets w, and the register r gets v.
SetCsr(r, c, v, w) ==
  \/ r = "x0" /\ harts' = [harts EXCEPT ![Selected].csr[c] = w]
  \/ r # "x0" /\ harts' = [[harts EXCEPT ![Selected].csr[c] = w] EXCEPT ![Selected].reg[r] = v]

LEMMA CsrPut ==
  ASSUME Typed, NEW h \in Harts, h = dm.hartsel, NEW r \in RegName, NEW c \in CsrName, NEW v, NEW w,
         SetCsr(r, c, v, w)
  PROVE  /\ \A g \in Harts : g # h => harts'[g] = harts[g]
         /\ \A x \in CsrName : harts'[h].csr[x] = IF x = c THEN w ELSE harts[h].csr[x]
         /\ \A x \in RegName : harts'[h].reg[x] = IF x = r /\ r # "x0" THEN v ELSE harts[h].reg[x]
<1> DEFINE t == [harts[h].csr EXCEPT ![c] = w]
           u == [harts[h] EXCEPT !.csr = t]
           h1 == [harts EXCEPT ![h] = u]
           t1 == [harts[h].reg EXCEPT ![r] = v]
           u1 == [u EXCEPT !.reg = t1]
<1>1. /\ harts \in [Harts -> Hart] /\ harts[h] \in Hart /\ harts[h].reg \in [RegName -> Val]
      /\ harts[h].csr \in [CsrName -> Val]
  BY DEF Typed, HartType, Hart
<1>2. \A x \in CsrName : t[x] = IF x = c THEN w ELSE harts[h].csr[x]
  BY <1>1
<1>3. h1 = [harts EXCEPT ![Selected].csr[c] = w]
  BY DEF Selected
<1> HIDE DEF t
<1>4. u.csr = t /\ u.reg = harts[h].reg
  BY <1>1 DEF Hart
<1>5. u1.csr = t /\ u1.reg = t1
  BY <1>1 DEF Hart
<1>6. \A x \in RegName : t1[x] = IF x = r THEN v ELSE harts[h].reg[x]
  BY <1>1
<1>7. h1[h] = u /\ DOMAIN h1 = Harts /\ \A g \in Harts : g # h => h1[g] = harts[g]
  BY <1>1
<1>c. \/ r = "x0" /\ harts' = [harts EXCEPT ![Selected].csr[c] = w]
      \/ r # "x0" /\ harts' = [[harts EXCEPT ![Selected].csr[c] = w] EXCEPT ![Selected].reg[r] = v]
  BY DEF SetCsr
<1>8. (r = "x0" /\ harts' = h1) \/ (r # "x0" /\ harts' = [h1 EXCEPT ![h] = u1])
  <2>1. CASE r = "x0"
    BY <1>3, <1>c, <2>1
  <2>2. CASE r # "x0"
    <3>1. harts' = [h1 EXCEPT ![h].reg[r] = v]
      BY <1>3, <1>c, <2>2 DEF Selected
    <3> HIDE DEF h1
    <3>2. [h1 EXCEPT ![h].reg[r] = v] = [h1 EXCEPT ![h] = [u EXCEPT !.reg = [u.reg EXCEPT ![r] = v]]]
      BY <1>7
    <3> QED BY <1>4, <2>2, <3>1, <3>2
  <2> QED BY <2>1, <2>2
<1> HIDE DEF h1, u1, u, t1, t
<1>9. r # "x0" => harts'[h] = u1 /\ \A g \in Harts : g # h => harts'[g] = harts[g]
  BY <1>7, <1>8
<1>10. r = "x0" => harts'[h] = u /\ \A g \in Harts : g # h => harts'[g] = harts[g]
  BY <1>7, <1>8
<1>11. \A g \in Harts : g # h => harts'[g] = harts[g]
  BY <1>9, <1>10
<1>12. \A x \in CsrName : harts'[h].csr[x] = IF x = c THEN w ELSE harts[h].csr[x]
  BY <1>2, <1>4, <1>5, <1>9, <1>10
<1>13. \A x \in RegName : harts'[h].reg[x] = IF x = r /\ r # "x0" THEN v ELSE harts[h].reg[x]
  BY <1>4, <1>5, <1>6, <1>9, <1>10
<1> QED BY <1>11, <1>12, <1>13

\* A program may change everything of the hart but x0, and nothing of another hart.
LEMMA ExecuteTouches ==
  ASSUME Typed, NEW h \in Harts, h = dm.hartsel, dm.busy, Execute
  PROVE  /\ \A g \in Harts : g # h => harts'[g] = harts[g]
         /\ harts'[h].reg["x0"] = harts[h].reg["x0"]
<1> DEFINE f == Fetch
           i == f.ins
<1>0. ppc \in 0 .. RamWords - 1
  BY Sizes DEF Execute, Typed, HartType
<1>1. i \in Instruction
  BY <1>0, Fetched DEF Fits
<1>2. i.rd \in RegName /\ i.op \in {"load", "store", "addi", "bne", "fence.i", "ebreak"} \cup CsrOps
      /\ (i.op \in CsrOps => i.imm \in CsrName) /\ "x0" \in RegName
  BY <1>1 DEF Instruction, Kinds, RegName, CsrOps
<1>a. ASSUME NEW v, SetReg(i.rd, v)
      PROVE  /\ \A g \in Harts : g # h => harts'[g] = harts[g]
             /\ harts'[h].reg["x0"] = harts[h].reg["x0"]
  <2> DEFINE r == i.rd
  <2>1. r \in RegName /\ SetReg(r, v)
    BY <1>2, <1>a
  <2> HIDE DEF r
  <2> QED BY <1>2, <2>1, RegPut
<1>b. ASSUME i.op \in CsrOps, NEW v, NEW w,
             SetCsr(i.rd, i.imm, v, w)
      PROVE  /\ \A g \in Harts : g # h => harts'[g] = harts[g]
             /\ harts'[h].reg["x0"] = harts[h].reg["x0"]
  <2> DEFINE r == i.rd
             c == i.imm
  <2>1. r \in RegName /\ c \in CsrName
    BY <1>2, <1>b
  <2>2. SetCsr(r, c, v, w)
    BY <1>b
  <2> HIDE DEF r, c
  <2>3. /\ \A g \in Harts : g # h => harts'[g] = harts[g]
        /\ \A x \in RegName : harts'[h].reg[x] = IF x = r /\ r # "x0" THEN v ELSE harts[h].reg[x]
    BY <2>1, <2>2, CsrPut
  <2> QED BY <1>2, <2>3
<1>3. CASE UNCHANGED harts
  BY <1>3
<1>4. CASE harts' # harts
  <2>1. ~ (Traps(f) \/ i.op = "ebreak" \/ ppc + 1 = RamWords)
    BY <1>4 DEF Execute
  <2> DEFINE v1 == IF Target(f) = DataAddr THEN dm.data ELSE mem[Target(f)]
             v2 == [f.src EXCEPT ![1] = @ + i.imm]
             old == harts[Selected].csr[i.imm]
             v3 == Combined(i.op, old, f.src)
  <2>2. \/ i.op = "load" /\ SetReg(i.rd, v1)
        \/ i.op = "addi" /\ SetReg(i.rd, v2)
        \/ i.op \in CsrOps /\ SetCsr(i.rd, i.imm, old, v3)
    BY <1>2, <1>4, <2>1 DEF Execute, CsrOps, SetCsr
  <2> HIDE DEF v1, v2, old, v3, f
  <2> QED BY <2>2, <1>a, <1>b
<1> QED BY <1>3, <1>4

\* What an instruction is, by its place in the program.
LEMMA SwapLines ==
  ASSUME NEW o, NEW w
  PROVE  /\ Swap(o, w)[1] = Ins("csrrw", "s0", "s0", "dscratch0")
              /\ Swap(o, w)[5] = Ins("csrrw", "s0", "s0", "dscratch0")
         /\ Swap(o, w)[2] = Ins("load", "s0", "x0", DataAddr)
         /\ Swap(o, w)[3] = Ins(o, "s0", "s0", w)
         /\ Swap(o, w)[4] = Ins("store", "s0", "x0", DataAddr)
         /\ Swap(o, w)[6] = Ins("ebreak", "x0", "x0", 0)
BY DEF Swap, CSRRx, LOAD, STORE, EBREAK

\* The exchange of s0 with dscratch0 is undone by the same instruction.
LEMMA ExchangeGoesOn ==
  ASSUME Typed, NEW h \in Harts, h = dm.hartsel, dm.busy, Execute, ppc <= 5,
         \A g \in Harts : harts[g].reg["x0"] = Long(0),
         NEW o \in CsrOps, NEW w \in {"dpc", "mscratch"}, \A k \in 1 .. 6 : dm.prog[k] = Swap(o, w)[k],
         NEW a, NEW b, harts[h].reg["s1"] = b,
         IF ppc \in 1 .. 4 THEN harts[h].csr["dscratch0"] = a ELSE harts[h].reg["s0"] = a
  PROVE  /\ harts'[h].reg["s1"] = b
         /\ IF ppc' \in 1 .. 4 THEN harts'[h].csr["dscratch0"] = a ELSE harts'[h].reg["s0"] = a
         /\ dm'.busy => ppc' <= 5
<1> DEFINE f == Fetch
           i == f.ins
           goal == /\ harts'[h].reg["s1"] = b
                   /\ IF ppc' \in 1 .. 4 THEN harts'[h].csr["dscratch0"] = a ELSE harts'[h].reg["s0"] = a
                   /\ dm'.busy => ppc' <= 5
<1>0. ppc \in 0 .. RamWords - 1 /\ ppc \in 0 .. 5 /\ RamWords >= 6 /\ RamWords \in Nat
  <2>1. RamWords >= 6 /\ RamWords \in Nat
    BY Sizes
  <2>2. ppc >= 0 /\ ppc \in -1 .. RamWords - 1
    BY DEF Execute, Typed, HartType
  <2> QED BY <2>1, <2>2
<1>1. /\ i = dm.prog[ppc + 1] /\ f.src = harts[h].reg[i.rs] /\ f.src \in Val
  BY <1>0, Fetched
<1>2. i = Swap(o, w)[ppc + 1]
  <2>1. ppc + 1 \in 1 .. 6
    BY <1>0
  <2> QED BY <1>1, <2>1
<1>3. \A r \in RegName : r \in {"s0", "s1", "x0"}
  BY DEF RegName
<1>4. harts[h].csr \in [CsrName -> Val] /\ "dscratch0" \in CsrName /\ w \in CsrName /\ w # "dscratch0"
      /\ "s0" \in RegName /\ "s1" \in RegName
  BY DEF Typed, HartType, Hart, CsrName, RegName
<1>5. harts[h].reg["x0"][1] = 0
  <2>1. Long(0)[1] = 0
    BY Sizes DEF Long
  <2> QED BY <2>1
<1>a. ASSUME NEW c \in CsrName, NEW x \in CsrOps, i = Ins(x, "s0", "s0", c), ppc < 5
      PROVE  /\ ppc' = ppc + 1 /\ dm' = dm
             /\ SetCsr("s0", c, harts[h].csr[c], Combined(x, harts[h].csr[c], harts[h].reg["s0"]))
  <2>1. i.op = x /\ i.rd = "s0" /\ i.rs = "s0" /\ i.imm = c
    BY <1>a DEF Ins
  <2>2. f.src = harts[h].reg["s0"]
    BY <1>1, <2>1
  <2>3. ~ Traps(f) /\ i.op # "ebreak" /\ ppc + 1 # RamWords /\ i.op # "bne"
    BY <1>0, <1>4, <1>a, <2>1 DEF Traps, Selected, CsrOps
  <2> QED BY <2>1, <2>2, <2>3 DEF Execute, SetCsr, Selected, CsrOps
<1>b. ASSUME i.op \in {"load", "store"}, i.rs = "x0", i.imm = DataAddr
      PROVE  Target(f) = DataAddr /\ ~ Traps(f)
  <2>1. Target(f) = DataAddr
    BY <1>1, <1>5, <1>b DEF Target, DataAddr
  <2> QED BY <1>b, <2>1 DEF Traps
<1>6. CASE ppc \in {0, 4}
  <2> DEFINE old == harts[h].csr["dscratch0"]
             new == Combined("csrrw", old, harts[h].reg["s0"])
  <2>1. i = Ins("csrrw", "s0", "s0", "dscratch0")
    BY <1>2, <1>6, SwapLines
  <2>2. ppc' = ppc + 1 /\ dm' = dm /\ SetCsr("s0", "dscratch0", old, new)
    BY <1>4, <1>6, <1>a, <2>1 DEF CsrOps
  <2>3. new = harts[h].reg["s0"]
    BY DEF Combined
  <2> HIDE DEF old, new
  <2>4. /\ harts'[h].csr["dscratch0"] = new /\ harts'[h].reg["s0"] = old
        /\ harts'[h].reg["s1"] = harts[h].reg["s1"]
    BY <1>4, <2>2, CsrPut
  <2> QED BY <1>6, <2>2, <2>3, <2>4 DEF old
<1>7. CASE ppc = 1
  <2> DEFINE v == IF Target(f) = DataAddr THEN dm.data ELSE mem[Target(f)]
  <2>1. i.op = "load" /\ i.rd = "s0" /\ i.rs = "x0" /\ i.imm = DataAddr
    <3>1. i = Ins("load", "s0", "x0", DataAddr)
      BY <1>2, <1>7, SwapLines
    <3> QED BY <3>1 DEF Ins
  <2>2. ~ Traps(f) /\ ppc + 1 # RamWords
    BY <1>0, <1>7, <1>b, <2>1
  <2>3. SetReg("s0", v) /\ ppc' = ppc + 1 /\ dm' = dm
    BY <2>1, <2>2 DEF Execute
  <2> HIDE DEF v
  <2>4. harts'[h].csr = harts[h].csr /\ harts'[h].reg["s1"] = harts[h].reg["s1"]
    BY <1>4, <2>3, RegPut
  <2> QED BY <1>7, <2>3, <2>4
<1>8. CASE ppc = 2
  <2> DEFINE old == harts[h].csr[w]
             new == Combined(o, old, harts[h].reg["s0"])
  <2>1. i = Ins(o, "s0", "s0", w)
    BY <1>2, <1>8, SwapLines
  <2>2. ppc' = ppc + 1 /\ dm' = dm /\ SetCsr("s0", w, old, new)
    BY <1>4, <1>8, <1>a, <2>1
  <2> HIDE DEF old, new
  <2>4. harts'[h].csr["dscratch0"] = harts[h].csr["dscratch0"] /\ harts'[h].reg["s1"] = harts[h].reg["s1"]
    BY <1>4, <2>2, CsrPut
  <2> QED BY <1>8, <2>2, <2>4
<1>9. CASE ppc = 3
  <2>1. i.op = "store" /\ i.rs = "x0" /\ i.imm = DataAddr
    <3>1. i = Ins("store", "s0", "x0", DataAddr)
      BY <1>2, <1>9, SwapLines
    <3> QED BY <3>1 DEF Ins
  <2>2. ~ Traps(f) /\ ppc + 1 # RamWords
    BY <1>0, <1>9, <1>b, <2>1
  <2>3. harts' = harts /\ ppc' = ppc + 1
    BY <2>1, <2>2 DEF Execute
  <2> QED BY <1>9, <2>3
<1>10. CASE ppc = 5
  <2>1. i.op = "ebreak"
    <3>1. i = Ins("ebreak", "x0", "x0", 0)
      BY <1>2, <1>10, SwapLines
    <3> QED BY <3>1 DEF Ins
  <2>2. harts' = harts /\ ppc' = -1
    BY <2>1 DEF Execute
  <2> QED BY <1>10, <2>2
<1> QED BY <1>0, <1>6, <1>7, <1>8, <1>9, <1>10

\* A program that executes keeps to the assertion.
LEMMA ExecuteCarries ==
  ASSUME Typed, NEW p \in Ctl, At(p), NEW d, Where(d), UNCHANGED loc, Execute
  PROVE  Where(d)'
<1>0. PICK h : h = dm.hartsel
  OBVIOUS
<1>1. ppc \in 0 .. RamWords - 1 /\ dm.busy /\ UNCHANGED own
  BY Sizes DEF Execute, Typed, HartType, At, Module
<1>2. d.kind # "free" /\ Held(h) /\ Has(d, h) /\ h \in Harts
  BY <1>0, <1>1 DEF Where, Held
<1>3. /\ Typed' /\ SameRuns /\ dm' = [dm EXCEPT !.busy = dm'.busy, !.cmderr = dm'.cmderr, !.data = dm'.data]
      /\ ~ dm'.busy => ppc' = -1
  BY <1>0, <1>1, <1>2, ExecuteKeeps
<1>4. dm \in DmSet
  BY DEF Typed, DmType, DmSet
<1>5. dm'.hartsel = h /\ dm'.auto = dm.auto /\ dm'.prog = dm.prog /\ dm'.command = dm.command
  BY <1>0, <1>3, <1>4 DEF DmSet
<1>6. /\ \A g \in Harts : g # h => harts'[g] = harts[g]
      /\ harts'[h].reg["x0"] = harts[h].reg["x0"]
  BY <1>0, <1>1, <1>2, ExecuteTouches
<1>7. Held(h)'
  BY <1>2, <1>3 DEF Held, SameRuns
<1>8. \A r : Own(h, r)' = Own(h, r) /\ Saved(r)' = Saved(r)
  BY <1>1 DEF Own, Saved
<1>9. Has(d, h)'
  <2>1. CASE d.kind = "still"
    <3>1. dm.command.write /\ dm.command.reg = "x0" /\ ppc <= 1 /\ d.n = 2 /\ d.prog = Fence
      BY <1>1, <1>2, <2>1 DEF Has, Harmless
    <3>2. dm.prog[1] = FENCE_I /\ dm.prog[2] = EBREAK
      <4>1. Fence[1] = FENCE_I /\ Fence[2] = EBREAK /\ 1 \in 1 .. 2 /\ 2 \in 1 .. 2
        BY DEF Fence
      <4> QED BY <1>2, <2>1, <3>1, <4>1 DEF Has
    <3>3. Fetch.ins = dm.prog[ppc + 1]
      BY <1>0, <1>1, <1>2, Fetched
    <3>4. CASE ppc = 0
      <4>1. Fetch.ins.op = "fence.i" /\ ~ Traps(Fetch) /\ ppc + 1 # RamWords
        BY <3>2, <3>3, <3>4, Sizes DEF FENCE_I, Ins, Traps
      <4>2. UNCHANGED harts /\ ppc' = 1
        BY <3>4, <4>1 DEF Execute
      <4>3. Harmless(d)'
        BY <1>5, <3>1, <4>2 DEF Harmless
      <4> QED BY <1>2, <1>5, <1>8, <2>1, <4>2, <4>3 DEF Has, Homed
    <3>5. CASE ppc = 1
      <4>1. Fetch.ins.op = "ebreak"
        BY <3>2, <3>3, <3>5 DEF EBREAK, Ins
      <4>2. UNCHANGED harts /\ ~ dm'.busy
        BY <1>4, <4>1 DEF Execute, DmSet
      <4> QED BY <1>2, <1>5, <1>8, <2>1, <4>2 DEF Has, Homed
    <3> QED BY <1>1, <3>1, <3>4, <3>5
  <2>2. CASE d.kind = "exchange"
    <3> DEFINE a == Own(h, "s0")
               b == Own(h, "s1")
    <3>1. Exchanging(d, h) /\ \A k \in 1 .. d.n : dm.prog[k] = d.prog[k]
      BY <1>2, <2>2 DEF Has
    <3>2. PICK o \in CsrOps : \E w \in {"dpc", "mscratch"} : d.prog = Swap(o, w)
      BY <3>1 DEF Exchanging, Swaps
    <3>3. PICK w \in {"dpc", "mscratch"} : d.prog = Swap(o, w)
      BY <3>2
    <3>4. \A k \in 1 .. 6 : dm.prog[k] = Swap(o, w)[k]
      BY <3>1, <3>3 DEF Exchanging
    <3>5. /\ harts[h].reg["s1"] = b
          /\ IF ppc \in 1 .. 4 THEN harts[h].csr["dscratch0"] = a ELSE harts[h].reg["s0"] = a
          /\ ppc <= 5 /\ dm.command.write /\ dm.command.reg = "x0"
      BY <1>1, <3>1 DEF Exchanging
    <3>6. \A g \in Harts : harts[g].reg["x0"] = Long(0)
      BY DEF Where
    <3> HIDE DEF a, b
    <3>7. /\ harts'[h].reg["s1"] = b
          /\ IF ppc' \in 1 .. 4 THEN harts'[h].csr["dscratch0"] = a ELSE harts'[h].reg["s0"] = a
          /\ dm'.busy => ppc' <= 5
      BY <1>0, <1>1, <1>2, <3>4, <3>5, <3>6, ExchangeGoesOn
    <3>8. Exchanging(d, h)'
      BY <1>5, <1>8, <3>1, <3>5, <3>7 DEF Exchanging, a, b
    <3> QED BY <1>2, <1>5, <1>8, <2>2, <3>8 DEF Has
  <2>3. CASE d.kind \in {"load", "store", "loaded", "placed"}
    BY <1>1, <1>2, <2>3 DEF Has, Shifts
  <2>4. CASE d.kind \notin {"load", "loaded", "placed", "store", "still", "exchange"}
    BY <1>2, <1>8, <2>4 DEF Has
  <2> QED BY <2>1, <2>2, <2>3, <2>4
<1>10. \A g \in Harts : g # h => Homed(g, Both)'
  BY <1>0, <1>1, <1>2, <1>6 DEF Where, Homed, Own
<1> QED BY <1>0, <1>2, <1>5, <1>6, <1>7, <1>9, <1>10 DEF Where

LEMMA RegKept == ASSUME harts \in [Harts -> Hart], NEW h \in Harts, Halt(h) \/ Resume(h)
                 PROVE  \A g \in Harts : /\ harts'[g].reg = harts[g].reg
                                         /\ harts'[g].csr["dscratch0"] = harts[g].csr["dscratch0"]
<1>1. CASE Halt(h)
  <2>1. harts' = [harts EXCEPT ![h].halted = TRUE, ![h].csr.dpc = harts[h].pc]
    BY <1>1 DEF Halt
  <2>2. /\ harts'[h].reg = harts[h].reg /\ harts'[h].csr["dscratch0"] = harts[h].csr["dscratch0"]
        /\ \A g \in Harts : g # h => harts'[g] = harts[g]
    BY <2>1, HaltSets
  <2> QED BY <2>2
<1>2. CASE Resume(h)
  <2>1. harts' = [harts EXCEPT ![h].resume = FALSE, ![h].ack = TRUE, ![h].halted = FALSE,
                               ![h].pc = harts[h].csr.dpc]
    BY <1>2 DEF Resume
  <2>2. /\ harts'[h].reg = harts[h].reg /\ harts'[h].csr = harts[h].csr
        /\ \A g \in Harts : g # h => harts'[g] = harts[g]
    BY <2>1, ResumeSets
  <2> QED BY <2>2
<1> QED BY <1>1, <1>2

\* The values that a held hart's program left stay the same.
Stays(d) == d.kind # "free" => dm'.hartsel = dm.hartsel /\ own'[dm.hartsel] = own[dm.hartsel]

LEMMA HardwareCarries ==
  ASSUME Typed, NEW p \in Ctl, At(p), NEW d, Where(d), UNCHANGED loc, Hardware \/ \E h \in Harts : Run(h)
  PROVE  Where(d)' /\ Stays(d)
<1>0. harts \in [Harts -> Hart] /\ own \in [Harts -> [s0 : Val, s1 : Val]] /\ dm \in DmSet
  BY DEF Typed, HartType, DmType, DmSet
<1>1. ASSUME NEW h \in Harts, Halt(h) \/ Resume(h) PROVE Where(d)' /\ Stays(d)
  <2>1. UNCHANGED <<dm, ppc, own>>
    BY <1>1 DEF Halt, Resume
  <2>2. \A g \in Harts : harts'[g].reg = harts[g].reg /\ harts'[g].csr["dscratch0"] = harts[g].csr["dscratch0"]
    BY <1>0, <1>1, RegKept
  <2>3. d.kind # "free" => harts'[dm.hartsel].halted /\ ~ harts'[dm.hartsel].resume
    <3>1. SUFFICES ASSUME d.kind # "free" PROVE harts'[dm.hartsel].halted /\ ~ harts'[dm.hartsel].resume
      OBVIOUS
    <3>2. Held(dm.hartsel)
      BY <3>1 DEF Where
    <3>3. h # dm.hartsel /\ Resume(h)
      BY <1>1, <3>2 DEF Held, Halt, Resume, Selected
    <3>4. harts'[dm.hartsel] = harts[dm.hartsel]
      BY <1>0, <3>2, <3>3, ResumeSets DEF Resume, Held
    <3> QED BY <3>2, <3>4 DEF Held
  <2> QED BY <2>1, <2>2, <2>3, WhereStill DEF Stays
<1>2. ASSUME NEW h \in Harts, Run(h) PROVE Where(d)' /\ Stays(d)
  <2>1. UNCHANGED <<dm, mem, ppc>> /\ ~ harts[h].halted
    BY <1>2 DEF Run
  <2>2. /\ SameRuns
        /\ harts'[h].reg.s0 = own'[h].s0 /\ harts'[h].reg.s1 = own'[h].s1
        /\ \A g \in Harts : g # h => harts'[g] = harts[g] /\ own'[g] = own[g]
    BY <1>0, <1>2, RunSets
  <2>3. Homed(h, Both)'
    BY <2>2 DEF Homed, Own, Both
  <2>4. harts'[h].reg["x0"] = harts[h].reg["x0"]
    <3> DEFINE r == harts[h].reg
               a == r.s1
               b == r.s0
    <3>1. harts' = [harts EXCEPT ![h].reg.s0 = a, ![h].reg.s1 = b]
      BY <1>2 DEF Run
    <3>2. harts[h] \in Hart
      BY <1>0
    <3> HIDE DEF r, a, b
    <3> QED BY <1>0, <3>1, <3>2 DEF Hart, RegName
  <2>5. d.kind # "free" => h # dm.hartsel
    BY <2>1 DEF Where, Held
  <2>6. \A g \in Harts : g # dm.hartsel \/ d.kind = "free" => Homed(g, Both)'
    <3> SUFFICES ASSUME NEW g \in Harts, g # dm.hartsel \/ d.kind = "free", g # h PROVE Homed(g, Both)'
      BY <2>3
    <3>1. Homed(g, Both)
      BY DEF Where
    <3>2. harts'[g] = harts[g] /\ own'[g] = own[g]
      BY <2>2
    <3> QED BY <3>1, <3>2 DEF Homed, Own
  <2>7. \A g \in Harts : harts'[g].reg["x0"] = Long(0)
    BY <2>2, <2>4 DEF Where
  <2>8. d.kind # "free" => Held(dm.hartsel)' /\ Has(d, dm.hartsel)'
    <3> SUFFICES ASSUME d.kind # "free" PROVE Held(dm.hartsel)' /\ Has(d, dm.hartsel)'
      OBVIOUS
    <3>1. PICK g : g = dm.hartsel
      OBVIOUS
    <3>2. Held(g) /\ Has(d, g) /\ g # h /\ g \in Harts
      BY <2>5, <3>1 DEF Where, Held
    <3>3. harts'[g] = harts[g] /\ own'[g] = own[g] /\ dm'.hartsel = g
      BY <2>1, <2>2, <3>1, <3>2
    <3>4. Held(g)' /\ Has(d, g)'
      BY <2>1, <3>2, <3>3 DEF Held, Has, Homed, Own, Saved, Harmless, Exchanging, Shifts
    <3> QED BY <3>3, <3>4
  <2>9. d.kind # "free" => own'[dm.hartsel] = own[dm.hartsel]
    BY <2>2, <2>5 DEF Where, Held
  <2> QED BY <2>1, <2>6, <2>7, <2>8, <2>9 DEF Where, Stays
<1>3. CASE Transfer
  <2>1. dm'.hartsel = dm.hartsel /\ UNCHANGED own
    BY <1>0, <1>3 DEF Transfer, DmSet
  <2> QED BY <1>3, <2>1, TransferCarries DEF Stays
<1>4. CASE Execute
  <2>1. d.kind # "free" => dm.busy /\ dm.hartsel \in Harts
    BY <1>4, Sizes DEF Execute, Typed, HartType, At, Module, Where, Held
  <2>2. d.kind # "free" => dm' = [dm EXCEPT !.busy = dm'.busy, !.cmderr = dm'.cmderr, !.data = dm'.data]
    BY <1>4, <2>1, ExecuteKeeps
  <2>3. d.kind # "free" => dm'.hartsel = dm.hartsel
    BY <1>0, <2>2 DEF DmSet
  <2> QED BY <1>4, <2>3, ExecuteCarries DEF Stays, Execute
<1> QED BY <1>1, <1>2, <1>3, <1>4 DEF Hardware

----------------------------------------------------------------------------
(* What a step does to an assertion, by its request.                       *)

OfControl(d, s, e) ==
  \/ d.kind = "free" /\ e = d
  \/ d.kind = "still" /\ e = d /\ s.do = "write" /\ ~ s.val.resumereq
  \/ s.do = "write" /\ s.val.resumereq /\ d.kind \in {"still", "placed"} /\ d.home = Both /\ e = Free
LEMMA ByControl ==
  ASSUME NEW d, NEW e, NEW s, Carries(d, s, e), s.do \in {"write", "write_word"}, s.addr = Reg("DMCONTROL")
  PROVE  OfControl(d, s, e)
<1>1. s.addr[1] = "DMCONTROL" /\ \A n : s.addr # <<"PROGBUF", n>> /\ s.addr # <<"DATA", n>>
  BY DEF Reg
<1>2. s.addr # Reg("COMMAND") /\ s.addr # Reg("ABSTRACTCS")
  BY DEF Reg
<1>3. /\ ~ IdleAt(s) /\ ~ Executed(s) /\ \A i, r : ~ Commanded(s, i, r)
      /\ s.do \notin {"until", "read", "nop", "check", "data", "keep", "recall"} \cup Settled \cup Bare
  BY <1>2 DEF IdleAt, Executed, Commanded, Settled, Bare
<1>4. Passes(d.kind, s)
        => \/ d.kind = "free"
           \/ d.kind = "still" /\ s.do = "write" /\ ~ s.val.resumereq
  BY <1>1, <1>2, <1>3 DEF Passes, Bare
<1> QED BY <1>1, <1>3, <1>4 DEF Carries, OfControl

OfCommand(d, s, e) ==
  \/ d.kind = "still" /\ e = d /\ ~ s.val.write /\ ~ s.val.postexec
  \/ d.kind = "wild" /\ e = d
  \/ \E kept, n, prog : /\ d = Still(kept, n, prog)
                        /\ \/ Executed(s) /\ n = 2 /\ prog = Fence /\ e = d
                           \/ Executed(s) /\ s.val.size = XLEN /\ n = 6 /\ Swaps(prog) /\ e = Exchange(prog)
                           \/ \E r \in Both : Commanded(s, FALSE, r) /\ e = Load(r, kept)
  \/ \E r \in Both : \E home : d = Placed(r, home, Words) /\ Commanded(s, TRUE, r) /\ e = Store(r, home)
LEMMA ByCommand ==
  ASSUME NEW d, NEW e, NEW s, Carries(d, s, e), s.do = "write", s.addr = Reg("COMMAND")
  PROVE  OfCommand(d, s, e)
<1>1. s.addr[1] = "COMMAND" /\ \A n : s.addr # <<"PROGBUF", n>> /\ s.addr # <<"DATA", n>>
  BY DEF Reg
<1>2. s.addr # Reg("DMCONTROL") /\ s.addr # Reg("ABSTRACTCS")
  BY DEF Reg
<1>3. /\ ~ IdleAt(s)
      /\ s.do \notin {"until", "read", "write_word", "nop", "check", "data", "keep",
           "recall"} \cup Settled \cup Bare
  BY DEF IdleAt, Settled, Bare
<1>4. Passes(d.kind, s)
        => \/ d.kind = "still" /\ ~ s.val.write /\ ~ s.val.postexec
           \/ d.kind = "wild"
  BY <1>1, <1>2, <1>3 DEF Passes, Bare
<1> QED BY <1>1, <1>2, <1>3, <1>4 DEF Carries, OfCommand

OfProgbuf(d, s, e, k) ==
  \/ d.kind = "wild" /\ e = d
  \/ \E kept, prog : d = Still(kept, k, prog) /\ prog[k + 1] = s.val /\ e = Still(kept, k + 1, prog)
LEMMA ByProgbuf ==
  ASSUME NEW d, NEW e, NEW s, Carries(d, s, e), s.do = "write", NEW k \in Nat, s.addr = <<"PROGBUF", k>>
  PROVE  OfProgbuf(d, s, e, k)
BY DEF Carries, Passes, Reg, IdleAt, Settled, Bare, Commanded, Executed, OfProgbuf

LEMMA ByClear ==
  ASSUME NEW d, NEW e, NEW s, Carries(d, s, e), s.do = "write", s.addr = Reg("ABSTRACTCS")
  PROVE  e = d
BY DEF Carries, Passes, Reg, IdleAt, Settled, Bare, Commanded, Executed

LEMMA ByAuto ==
  ASSUME NEW d, NEW e, NEW s, Carries(d, s, e), s.do = "write", s.addr = Reg("ABSTRACTAUTO")
  PROVE  d.kind = "wild" /\ e = d
BY DEF Carries, Passes, Reg, IdleAt, Settled, Bare, Commanded, Executed

OfData(d, e, k) ==
  \/ d.kind \in {"still", "wild"} /\ e = d
  \/ \E r \in Both : \E home : d = Placed(r, home, k) /\ e = Placed(r, home, k + 1)
LEMMA ByData ==
  ASSUME NEW d, NEW e, NEW s, Carries(d, s, e), s.do = "write_word", NEW k \in Nat, s.addr = <<"DATA", k>>
  PROVE  OfData(d, e, k)
BY DEF Carries, Passes, Reg, IdleAt, Settled, Bare, Commanded, Executed, OfData

OfRead(d, s, e) ==
  \/ d.kind \in {"free", "still", "wild"} /\ e = d
  \/ \E r \in Both : \E kept : \E n \in Nat :
       d = Loaded(r, kept, n) /\ s.addr = <<"DATA", n>> /\ e = Loaded(r, kept, n + 1)
LEMMA ByRead ==
  ASSUME NEW d, NEW e, NEW s, Carries(d, s, e), s.do = "read"
  PROVE  OfRead(d, s, e)
BY DEF Carries, Passes, Reg, IdleAt, Settled, Bare, Commanded, Executed, OfRead

OfUntil(d, s, e) ==
  \/ d.kind \in {"free", "still", "wild"} /\ e = d
  \/ d = Free /\ s.val = "allhalted" /\ \E prog : e = Still({}, 0, prog)
  \/ s.val = "idle" /\ \E prog : d = Exchange(prog) /\ e = Still({}, 0, <<>>)
  \/ s.val = "idle" /\ \E r \in Both : \E kept : d = Load(r, kept) /\ e = Loaded(r, kept, 0)
  \/ s.val = "idle" /\ \E r \in Both : \E home : d = Store(r, home) /\ e = Placed(r, home \cup {r}, Words)
LEMMA ByUntil ==
  ASSUME NEW d, NEW e, NEW s, Carries(d, s, e), s.do = "until"
  PROVE  OfUntil(d, s, e)
BY DEF Carries, Passes, Reg, IdleAt, Settled, Bare, Commanded, Executed, OfUntil

OfOther(d, s, e) ==
  \/ e = d /\ (s.do = "data" => d.kind \in {"still", "wild"}) /\ s.do \notin {"keep", "recall"}
  \/ s.do = "data" /\ \E kept, n, prog : d = Still(kept, n, prog) /\ kept = Both /\ e = Wild
  \/ s.do = "keep" /\ \E r \in Both : \E kept : /\ d = Loaded(r, kept, Words) /\ s.val = r
                                                /\ e = Still(kept \cup {r}, 0, <<>>)
  \/ s.do = "recall" /\ \E r \in Both : d = Wild /\ s.val = r /\ e = Placed(r, {}, 0)
  \/ s.do = "recall" /\ \E r \in Both : \E x, home, n : /\ d = Placed(x, home, n) /\ s.val = r
                                                      /\ e = Placed(r, home, 0)
LEMMA ByOther ==
  ASSUME NEW d, NEW e, NEW s, Carries(d, s, e), s.do \notin {"write", "write_word", "read", "until"}
  PROVE  OfOther(d, s, e)
BY DEF Carries, Passes, Reg, IdleAt, Settled, Bare, Commanded, Executed, OfOther

----------------------------------------------------------------------------
(* The module carries out a request.                                       *)

LEMMA ModuleStill ==
  ASSUME NEW d, Where(d), UNCHANGED <<harts, ppc, own, loc>>, dm'.hartsel = dm.hartsel, dm'.busy = dm.busy,
         dm'.auto = dm.auto, dm'.command = dm.command, dm'.data = dm.data, dm'.prog = dm.prog
  PROVE  Where(d)'
<1>1. \A g \in Harts : \A R : Homed(g, R) => Homed(g, R)'
  BY DEF Homed, Own
<1>2. \A g \in Harts : Has(d, g) => Has(d, g)'
  BY <1>1 DEF Has, Own, Saved, Harmless, Exchanging, Shifts
<1> QED BY <1>1, <1>2 DEF Where, Held

\* Of a hart whose registers the host has kept, nothing else matters.
LEMMA WildStill ==
  ASSUME NEW d, Where(d), d.kind = "wild", UNCHANGED <<harts, own>>, dm'.hartsel = dm.hartsel,
         loc'.s0 = loc.s0 /\ loc'.s1 = loc.s1
  PROVE  Where(d)'
<1>1. \A g \in Harts : \A R : Homed(g, R) => Homed(g, R)'
  BY DEF Homed, Own
<1>2. \A g \in Harts : Has(d, g) => Has(d, g)'
  BY DEF Has, Own, Saved
<1> QED BY <1>1, <1>2 DEF Where, Held

\* What a write of dmcontrol may do to an assertion.
Turns(d, v, e) ==
  \/ d.kind = "free" /\ e = d
  \/ d.kind = "still" /\ e = d /\ ~ v.resumereq
  \/ v.resumereq /\ d.kind \in {"still", "placed"} /\ d.home = Both /\ e = Free

LEMMA ControlCarries ==
  ASSUME Typed, NEW p \in Ctl, NEW q \in Ctl, At(p), NEW v, Controls(p, v, q), NEW d, NEW e, Where(d),
         Turns(d, v, e),
         dm' = [dm EXCEPT !.active = v.active, !.haltreq = v.haltreq, !.hartsel = Clamp(v.hartsel)],
         harts' = IF v.resumereq /\ v.hartsel \in Harts
                  THEN [harts EXCEPT ![v.hartsel].resume = TRUE, ![v.hartsel].ack = FALSE]
                  ELSE harts,
         UNCHANGED <<mem, ppc, own, loc>>
  PROVE  Where(e)'
<1>0. dm \in DmSet /\ harts \in [Harts -> Hart]
  BY DEF Typed, DmType, DmSet, HartType
<1>1. /\ dm'.hartsel = Clamp(v.hartsel) /\ dm'.busy = dm.busy /\ dm'.command = dm.command
      /\ dm'.data = dm.data /\ dm'.auto = dm.auto /\ dm'.prog = dm.prog
  BY <1>0 DEF DmSet
<1>2. \A g \in Harts : harts'[g].reg = harts[g].reg
  <2>1. CASE v.resumereq /\ v.hartsel \in Harts
    <3>1. \A g \in Harts : harts[g] \in Hart
      BY <1>0
    <3> QED BY <1>0, <2>1, <3>1 DEF Hart
  <2> QED BY <2>1
<1>3. \A g \in Harts : Homed(g, Both) => Homed(g, Both)'
  BY <1>2 DEF Homed, Own
<1>4. CASE d.kind = "free"
  <2>1. e = d
    BY <1>4 DEF Turns
  <2> QED BY <1>1, <1>2, <1>3, <1>4, <2>1 DEF Where
<1>5. CASE d.kind = "still" /\ e = d /\ ~ v.resumereq
  <2>1. Held(dm.hartsel)
    BY <1>5 DEF Where
  <2>2. p.mode # "run" /\ p.mode = "caught"
    BY <1>5, <2>1 DEF Controls, At, OthersRun, Held
  <2>3. v.hartsel = dm.hartsel
    BY <2>2 DEF Controls, At, Module, Borrowed, Harts, Unknown
  <2>4. dm'.hartsel = dm.hartsel /\ harts' = harts
    BY <1>1, <1>5, <2>1, <2>3, Clamped DEF Held
  <2> QED BY <1>1, <1>5, <2>4, ModuleStill
<1>6. CASE v.resumereq /\ d.kind \in {"still", "placed"} /\ d.home = Both /\ e = Free
  <2>1. ~ dm.busy
    BY <1>6 DEF Controls, At, Module
  <2>2. \A g \in Harts : Homed(g, Both)
    BY <1>6 DEF Where, Has
  <2>3. dm.auto = 0
    BY <1>6 DEF Where
  <2> QED BY <1>1, <1>2, <1>3, <1>6, <2>1, <2>2, <2>3 DEF Where, Free, Lent
<1> QED BY <1>4, <1>5, <1>6 DEF Turns

\* Two functions with the same values are the same.
LEMMA SameFunction == ASSUME NEW S, NEW T, NEW a \in [S -> T], NEW b \in [S -> T], \A i \in S : a[i] = b[i]
                      PROVE  a = b
  OBVIOUS

\* The register of the hart is in the data registers, once every word is.
LEMMA AllWords ==
  ASSUME Typed, NEW h \in Harts, NEW r \in Both, \A i \in 1 .. Words : dm.data[i] = Own(h, r)[i]
  PROVE  dm.data = Own(h, r)
<1> DEFINE a == dm.data
           b == Own(h, r)
           S == 1 .. Words
<1>1. a \in [S -> Int] /\ b \in [S -> Int]
  BY DEF Typed, DmType, HartType, Val, Own
<1>2. \A i \in S : a[i] = b[i]
  OBVIOUS
<1> HIDE DEF a, b, S
<1>3. a = b
  BY <1>1, <1>2, SameFunction
<1> QED BY <1>3 DEF a, b

LEMMA CommandCarries ==
  ASSUME Typed, NEW p \in Ctl, NEW q \in Ctl, At(p), NEW s, s.do = "write", s.addr = Reg("COMMAND"),
         Commands(p, s.val, q), NEW d, NEW e, Where(d), Carries(d, s, e),
         dm' = Started(dm, s.val), UNCHANGED <<harts, mem, ppc, own, loc>>
  PROVE  Where(e)'
<1> DEFINE c == s.val
<1>0. dm \in DmSet
  BY DEF Typed, DmType, DmSet
<1>1. ~ dm.busy /\ dm.cmderr = 0 /\ ppc = -1 /\ c.transfer /\ c \in Command
  BY DEF Commands, At, Module
<1>2. dm' \in {[dm EXCEPT !.cmderr = HALT_RESUME], [dm EXCEPT !.cmderr = NOT_SUPPORTED],
               [dm EXCEPT !.busy = TRUE, !.command = c]}
  BY <1>1 DEF Started
<1>3. /\ dm'.hartsel = dm.hartsel /\ dm'.auto = dm.auto /\ dm'.data = dm.data /\ dm'.prog = dm.prog
      /\ dm'.busy => dm'.command = c
  <2>1. CASE dm' = [dm EXCEPT !.cmderr = HALT_RESUME]
    BY <1>0, <1>1, <2>1 DEF DmSet
  <2>2. CASE dm' = [dm EXCEPT !.cmderr = NOT_SUPPORTED]
    BY <1>0, <1>1, <2>2 DEF DmSet
  <2>3. CASE dm' = [dm EXCEPT !.busy = TRUE, !.command = c]
    BY <1>0, <1>1, <2>3 DEF DmSet
  <2> QED BY <1>2, <2>1, <2>2, <2>3
<1>4. ASSUME c.size = XLEN, Held(dm.hartsel) PROVE dm'.busy
  BY <1>0, <1>1, <1>4 DEF Started, Exists, Selected, Held, DmSet
<1>5. PICK h : h = dm.hartsel
  OBVIOUS
<1>6. \A g \in Harts : \A R : Homed(g, R) => Homed(g, R)'
  BY DEF Homed, Own
<1>7. d.kind # "free" => Held(h) /\ Has(d, h) /\ Held(h)' /\ h \in Harts
  BY <1>5 DEF Where, Held
<1>8. \A r : Own(h, r)' = Own(h, r) /\ Saved(r)' = Saved(r)
  BY DEF Own, Saved
<1>a. ASSUME d.kind # "free", e.kind # "free", Has(e, h)', dm.auto = 0 PROVE Where(e)'
  BY <1>3, <1>5, <1>6, <1>7, <1>a DEF Where
<1>9. CASE d.kind = "still" /\ e = d /\ ~ c.write /\ ~ c.postexec
  <2>1. dm.auto = 0
    BY <1>9 DEF Where
  <2>2. dm'.busy => Harmless(d)'
    BY <1>1, <1>3, <1>9 DEF Harmless
  <2>3. Has(d, h)'
    BY <1>3, <1>6, <1>7, <1>8, <1>9, <2>2 DEF Has
  <2> QED BY <1>9, <1>a, <2>1, <2>3
<1>10. CASE d.kind = "wild" /\ e = d
  BY <1>3, <1>10, WildStill
<1>11. ASSUME NEW kept, NEW n, NEW prog, d = Still(kept, n, prog),
              \/ Executed(s) /\ n = 2 /\ prog = Fence /\ e = d
              \/ Executed(s) /\ s.val.size = XLEN /\ n = 6 /\ Swaps(prog) /\ e = Exchange(prog)
              \/ \E r \in Both : Commanded(s, FALSE, r) /\ e = Load(r, kept)
       PROVE  Where(e)'
  <2>1. d.kind = "still" /\ d.home = Both /\ d.kept = kept /\ d.n = n /\ d.prog = prog
    BY <1>11 DEF Still, Lent
  <2>2. /\ dm.auto = 0 /\ Homed(h, Both) /\ \A r \in kept : Saved(r) = Own(h, r)
        /\ \A k \in 1 .. n : dm.prog[k] = prog[k]
    BY <1>5, <1>7, <2>1 DEF Where, Has
  <2>3. CASE Executed(s) /\ n = 2 /\ prog = Fence /\ e = d
    <3>1. dm'.busy => Harmless(d)'
      BY <1>1, <1>3, <2>1, <2>3 DEF Harmless, Executed
    <3>2. Has(d, h)'
      BY <1>3, <1>6, <1>7, <1>8, <2>1, <3>1 DEF Has
    <3> QED BY <1>a, <2>1, <2>2, <2>3, <3>2
  <2>4. CASE Executed(s) /\ s.val.size = XLEN /\ n = 6 /\ Swaps(prog) /\ e = Exchange(prog)
    <3>1. e.kind = "exchange" /\ e.kept = {} /\ e.n = 6 /\ e.prog = prog
      BY <2>4 DEF Exchange, Lent
    <3>2. Exchanging(e, h)'
      BY <1>1, <1>3, <1>8, <2>2, <2>4, <3>1 DEF Exchanging, Homed, Both, Executed
    <3>3. Has(e, h)'
      BY <1>3, <2>2, <2>4, <3>1, <3>2 DEF Has
    <3> QED BY <1>a, <2>1, <2>2, <3>1, <3>3
  <2>5. ASSUME NEW r \in Both, Commanded(s, FALSE, r), e = Load(r, kept) PROVE Where(e)'
    <3>1. e.kind = "load" /\ e.reg = r /\ e.home = Both /\ e.kept = kept
      BY <2>5 DEF Load, Lent
    <3>2. dm'.busy
      BY <1>4, <1>5, <1>7, <2>1, <2>5 DEF Commanded
    <3>3. Shifts(FALSE, r)'
      BY <1>1, <1>3, <2>5, <3>2 DEF Shifts, Commanded
    <3>4. harts[h].reg[r] = Own(h, r)
      BY <2>2, <2>5 DEF Homed
    <3>5. Homed(h, Both)'
      BY <1>6, <1>7, <2>1, <2>2
    <3>6. Has(e, h)'
      BY <1>8, <2>2, <3>1, <3>2, <3>3, <3>4, <3>5 DEF Has
    <3> QED BY <1>a, <2>1, <2>2, <3>1, <3>6
  <2> QED BY <1>11, <2>3, <2>4, <2>5
<1>12. ASSUME NEW r \in Both, NEW home, d = Placed(r, home, Words), Commanded(s, TRUE, r), e = Store(r, home)
       PROVE  Where(e)'
  <2>1. /\ d.kind = "placed" /\ d.home = home /\ d.kept = Both /\ d.n = Words /\ d.reg = r
        /\ e.kind = "store" /\ e.home = home /\ e.kept = Both /\ e.reg = r
    BY <1>12 DEF Placed, Store, Lent
  <2>2. /\ dm.auto = 0 /\ Homed(h, home) /\ \A x \in Both : Saved(x) = Own(h, x)
        /\ loc.data = Own(h, r) /\ \A i \in 1 .. Words : dm.data[i] = Own(h, r)[i]
    BY <1>5, <1>7, <2>1 DEF Where, Has
  <2>3. dm'.busy
    BY <1>4, <1>5, <1>7, <1>12, <2>1 DEF Commanded
  <2>4. Shifts(TRUE, r)'
    BY <1>1, <1>3, <1>12, <2>3 DEF Shifts, Commanded
  <2>5. dm.data = Own(h, r)
    BY <1>7, <1>12, <2>1, <2>2, AllWords
  <2>6. Homed(h, home)'
    BY <1>6, <1>7, <2>1, <2>2
  <2>7. Has(e, h)'
    BY <1>3, <1>8, <1>12, <2>1, <2>2, <2>3, <2>4, <2>5, <2>6 DEF Has
  <2> QED BY <1>a, <2>1, <2>2, <2>7
<1>b. OfCommand(d, s, e)
  BY ByCommand
<1> QED BY <1>b, <1>9, <1>10, <1>11, <1>12 DEF OfCommand

LEMMA ProgbufCarries ==
  ASSUME Typed, NEW p \in Ctl, At(p), NEW s, s.do = "write", NEW k \in 1 .. RamWords,
         s.addr = <<"PROGBUF", k - 1>>,
         ~ p.busy, NEW d, NEW e, Where(d), Carries(d, s, e),
         dm' = [dm EXCEPT !.prog[k] = s.val], UNCHANGED <<harts, mem, ppc, own, loc>>
  PROVE  Where(e)'
<1> DEFINE t == [dm.prog EXCEPT ![k] = s.val]
<1>0. dm \in DmSet /\ ~ dm.busy
  BY DEF Typed, DmType, DmSet, At, Module
<1>1. k \in Int /\ k - 1 \in Nat /\ (k - 1) + 1 = k /\ \A j \in 1 .. k : j \in 1 .. RamWords
      /\ (j # k => j \in 1 .. k - 1)
  BY Sizes
<1>2. \A j \in 1 .. RamWords : t[j] = IF j = k THEN s.val ELSE dm.prog[j]
  BY <1>0 DEF DmSet
<1>3. dm' = [dm EXCEPT !.prog = t]
  OBVIOUS
<1> HIDE DEF t
<1>4. /\ dm'.hartsel = dm.hartsel /\ dm'.busy = dm.busy /\ dm'.auto = dm.auto /\ dm'.data = dm.data
      /\ dm'.prog = t
  BY <1>0, <1>3 DEF DmSet
<1>5. PICK m \in Nat : m = k - 1
  BY <1>1
<1>6. OfProgbuf(d, s, e, m)
  BY <1>5, ByProgbuf
<1>7. CASE d.kind = "wild" /\ e = d
  BY <1>4, <1>7, WildStill
<1>8. ASSUME NEW kept, NEW prog, d = Still(kept, m, prog), prog[m + 1] = s.val, e = Still(kept, m + 1, prog)
      PROVE  Where(e)'
  <2>1. /\ d.kind = "still" /\ d.home = Both /\ d.kept = kept /\ d.n = k - 1 /\ d.prog = prog
        /\ e.kind = "still" /\ e.home = Both /\ e.kept = kept /\ e.n = k /\ e.prog = prog
        /\ prog[k] = s.val
    BY <1>1, <1>5, <1>8 DEF Still, Lent
  <2>2. PICK h : h = dm.hartsel
    OBVIOUS
  <2>3. Held(h) /\ Has(d, h) /\ h \in Harts /\ dm.auto = 0
    BY <2>1, <2>2 DEF Where, Held
  <2>4. \A g \in Harts : Homed(g, Both) => Homed(g, Both)'
    BY DEF Homed, Own
  <2>5. \A j \in 1 .. k : dm'.prog[j] = prog[j]
    <3> TAKE j \in 1 .. k
    <3>1. j # k => dm.prog[j] = prog[j]
      BY <1>1, <2>1, <2>3 DEF Has
    <3> QED BY <1>1, <1>2, <1>4, <2>1, <3>1
  <2>6. \A r : Own(h, r)' = Own(h, r) /\ Saved(r)' = Saved(r)
    BY DEF Own, Saved
  <2>7. Has(e, h)'
    BY <1>0, <1>4, <2>1, <2>3, <2>4, <2>5, <2>6 DEF Has
  <2> QED BY <1>4, <2>1, <2>2, <2>3, <2>4, <2>7 DEF Where, Held
<1> QED BY <1>6, <1>7, <1>8 DEF OfProgbuf

LEMMA DataCarries ==
  ASSUME Typed, NEW p \in Ctl, At(p), NEW s, s.do = "write_word", NEW k \in 1 .. Words,
         s.addr = <<"DATA", k - 1>>,
         ~ p.busy, NEW d, NEW e, Where(d), Carries(d, s, e), NEW x, x = loc.data[k],
         dm' = LET c == [dm EXCEPT !.data[k] = x]
               IN  IF dm.auto = 1 /\ k - 1 = 0 THEN Started(c, c.command) ELSE c,
         UNCHANGED <<harts, mem, ppc, own, loc>>
  PROVE  Where(e)'
<1> DEFINE t == [dm.data EXCEPT ![k] = x]
           c == [dm EXCEPT !.data = t]
<1>0. dm \in DmSet /\ ~ dm.busy
  BY DEF Typed, DmType, DmSet, At, Module
<1>1. k \in Int /\ k - 1 \in Nat /\ (k - 1) + 1 = k /\ \A j \in 1 .. k : j \in 1 .. Words
      /\ (j # k => j \in 1 .. k - 1)
  BY Sizes
<1>2. \A j \in 1 .. Words : t[j] = IF j = k THEN x ELSE dm.data[j]
  BY <1>0 DEF DmSet, Val
<1>3. dm' = IF dm.auto = 1 /\ k - 1 = 0 THEN Started(c, c.command) ELSE c
  OBVIOUS
<1> HIDE DEF t
<1>4. /\ c.hartsel = dm.hartsel /\ c.busy = dm.busy /\ c.auto = dm.auto /\ c.data = t /\ c.prog = dm.prog
      /\ c.command = dm.command
  BY <1>0 DEF DmSet
<1>5. PICK m \in Nat : m = k - 1
  BY <1>1
<1>6. OfData(d, e, m)
  BY <1>5, ByData
<1>7. CASE d.kind = "wild" /\ e = d
  <2>1. Started(c, c.command).hartsel = dm.hartsel
    <3>1. c \in [active : BOOLEAN, hartsel : Nat, haltreq : BOOLEAN, busy : BOOLEAN, cmderr : Nat,
                 command : Command, data : {t}, auto : Int, prog : [1 .. RamWords -> Instruction]]
      BY <1>0 DEF DmSet
    <3> HIDE DEF c
    <3> QED BY <1>0, <1>4, <3>1 DEF Started
  <2>2. dm'.hartsel = dm.hartsel
    BY <1>3, <1>4, <2>1
  <2> QED BY <1>7, <2>2, WildStill
<1>8. ASSUME d.kind # "wild" PROVE dm' = c /\ dm.auto = 0
  BY <1>3, <1>8 DEF Where
<1>9. PICK h : h = dm.hartsel
  OBVIOUS
<1>a. \A g \in Harts : \A R : Homed(g, R) => Homed(g, R)'
  BY DEF Homed, Own
<1>b. \A r : Own(h, r)' = Own(h, r) /\ Saved(r)' = Saved(r)
  BY DEF Own, Saved
<1> HIDE DEF c
<1>10. CASE d.kind = "still" /\ e = d
  <2>1. Held(h) /\ Has(d, h) /\ h \in Harts
    BY <1>9, <1>10 DEF Where, Held
  <2>2. dm' = c /\ dm.auto = 0
    BY <1>8, <1>10
  <2>3. Has(d, h)'
    BY <1>0, <1>4, <1>10, <1>a, <1>b, <2>1, <2>2 DEF Has
  <2> QED BY <1>4, <1>9, <1>10, <1>a, <2>1, <2>2, <2>3 DEF Where, Held
<1>11. ASSUME NEW r \in Both, NEW home, d = Placed(r, home, m), e = Placed(r, home, m + 1) PROVE Where(e)'
  <2>1. /\ d.kind = "placed" /\ d.home = home /\ d.kept = Both /\ d.n = k - 1 /\ d.reg = r
        /\ e.kind = "placed" /\ e.home = home /\ e.kept = Both /\ e.n = k /\ e.reg = r
    BY <1>1, <1>5, <1>11 DEF Placed, Lent
  <2>2. Held(h) /\ Has(d, h) /\ h \in Harts
    BY <1>9, <2>1 DEF Where, Held
  <2>3. dm' = c /\ dm.auto = 0
    BY <1>8, <2>1
  <2>4. loc.data = Own(h, r) /\ \A j \in 1 .. k - 1 : dm.data[j] = Own(h, r)[j]
    BY <2>1, <2>2 DEF Has
  <2>5. \A j \in 1 .. k : dm'.data[j] = Own(h, r)[j]
    <3> TAKE j \in 1 .. k
    <3>1. j # k => dm.data[j] = Own(h, r)[j]
      BY <1>1, <2>4
    <3>2. dm'.data[j] = IF j = k THEN x ELSE dm.data[j]
      BY <1>1, <1>2, <1>4, <2>3
    <3> QED BY <2>4, <3>1, <3>2
  <2>6. Has(e, h)'
    BY <1>0, <1>4, <1>a, <1>b, <2>1, <2>2, <2>3, <2>4, <2>5 DEF Has
  <2> QED BY <1>4, <1>9, <1>a, <2>1, <2>2, <2>3, <2>6 DEF Where, Held
<1> QED BY <1>6, <1>7, <1>10, <1>11 DEF OfData

\* The module carries out a request that writes.
LEMMA WroteCarries ==
  ASSUME Typed, NEW p \in Ctl, NEW q \in Ctl, NEW s, At(p), Leads(p, s, q),
         s.do \in {"write", "write_word", "nop"},
         Asking(s), Access(req_buf), UNCHANGED loc, NEW d, NEW e, Where(d), Carries(d, s, e)
  PROVE  Where(e)'
<1>0. dm \in DmSet
  BY DEF Typed, DmType, DmSet
<1>1. CASE s.do = "write"
  <2> DEFINE v == s.val
             rest == harts' = IF s.addr[1] = "DMCONTROL" /\ v.resumereq /\ v.hartsel \in Harts
                              THEN [harts EXCEPT ![v.hartsel].resume = TRUE, ![v.hartsel].ack = FALSE]
                              ELSE harts
  <2>1. dm' = Written(s.addr, v) /\ rest /\ UNCHANGED <<mem, ppc, own>>
    BY <1>1 DEF Access, Asking
  <2>2. Writes(p, s, q)
    BY <1>1 DEF Leads, WritesWord, Reads, Awaits, Computes
  <2>3. CASE s.addr = Reg("DMCONTROL") /\ Controls(p, v, q)
    <3>1. /\ dm' = [dm EXCEPT !.active = v.active, !.haltreq = v.haltreq, !.hartsel = Clamp(v.hartsel)]
          /\ harts' = IF v.resumereq /\ v.hartsel \in Harts
                      THEN [harts EXCEPT ![v.hartsel].resume = TRUE, ![v.hartsel].ack = FALSE]
                      ELSE harts
      BY <2>1, <2>3 DEF Written, Clamp, Reg
    <3>2. OfControl(d, s, e)
      BY <1>1, <2>3, ByControl
    <3>3. Turns(d, v, e)
      BY <3>2 DEF OfControl, Turns
    <3> HIDE DEF v
    <3> QED BY <2>1, <2>3, <3>1, <3>3, ControlCarries
  <2>4. CASE s.addr = Reg("COMMAND") /\ Commands(p, v, q)
    <3>1. dm' = Started(dm, v) /\ harts' = harts
      BY <2>1, <2>4 DEF Written, Reg
    <3> QED BY <1>1, <2>1, <2>4, <3>1, CommandCarries
  <2>5. ASSUME NEW k \in 1 .. RamWords, s.addr = <<"PROGBUF", k - 1>>, ~ p.busy PROVE Where(e)'
    <3>1. ~ dm.busy /\ (k - 1) + 1 = k
      BY <2>5, Sizes DEF At, Module
    <3>2. dm' = [dm EXCEPT !.prog[k] = v] /\ harts' = harts
      BY <2>1, <2>5, <3>1 DEF Written
    <3> QED BY <1>1, <2>1, <2>5, <3>2, ProgbufCarries
  <2>6. CASE s.addr = Reg("ABSTRACTCS") /\ v = "clear"
    <3>1. dm' = [dm EXCEPT !.cmderr = 0] /\ harts' = harts
      BY <2>1, <2>6 DEF Written, Reg
    <3>2. /\ dm'.hartsel = dm.hartsel /\ dm'.busy = dm.busy /\ dm'.auto = dm.auto /\ dm'.command = dm.command
          /\ dm'.data = dm.data /\ dm'.prog = dm.prog
      BY <1>0, <3>1 DEF DmSet
    <3>3. e = d
      BY <1>1, <2>6, ByClear
    <3> QED BY <2>1, <3>1, <3>2, <3>3, ModuleStill
  <2>7. CASE s.addr = Reg("ABSTRACTAUTO")
    <3>1. dm' = [dm EXCEPT !.auto = v] /\ harts' = harts
      BY <2>1, <2>7 DEF Written, Reg
    <3>2. dm'.hartsel = dm.hartsel
      BY <1>0, <3>1 DEF DmSet
    <3>3. e = d /\ d.kind = "wild"
      BY <1>1, <2>7, ByAuto
    <3> QED BY <2>1, <3>1, <3>2, <3>3, WildStill
  <2>8. \/ s.addr = Reg("DMCONTROL") /\ Controls(p, v, q)
        \/ s.addr = Reg("COMMAND") /\ Commands(p, v, q)
        \/ \E k \in 1 .. RamWords : s.addr = <<"PROGBUF", k - 1>> /\ ~ p.busy
        \/ s.addr = Reg("ABSTRACTCS") /\ v = "clear"
        \/ s.addr = Reg("ABSTRACTAUTO")
    BY <2>2 DEF Writes
  <2> QED BY <2>3, <2>4, <2>5, <2>6, <2>7, <2>8
<1>2. CASE s.do = "write_word"
  <2> DEFINE v == Word(s.val)
             rest == harts' = IF s.addr[1] = "DMCONTROL" /\ v.resumereq /\ v.hartsel \in Harts
                              THEN [harts EXCEPT ![v.hartsel].resume = TRUE, ![v.hartsel].ack = FALSE]
                              ELSE harts
  <2>1. dm' = Written(s.addr, v) /\ rest /\ UNCHANGED <<mem, ppc, own>>
    BY <1>2 DEF Access, Asking
  <2>2. WritesWord(p, s, q)
    BY <1>2 DEF Leads, Writes, Reads, Awaits, Computes
  <2>3. CASE /\ s.addr = Reg("DMCONTROL") /\ s.val = <<"dmcontrol", 0>>
             /\ p.ctl # Unknown /\ p.mode = "run"
             /\ Controls(p, [DMACTIVE EXCEPT !.hartsel = p.ctl], q)
    <3>0. v = [DMACTIVE EXCEPT !.hartsel = p.ctl]
      BY <2>3 DEF At, KnownOfHost, Word
    <3>1. /\ dm' = [dm EXCEPT !.active = v.active, !.haltreq = v.haltreq, !.hartsel = Clamp(v.hartsel)]
          /\ harts' = IF v.resumereq /\ v.hartsel \in Harts
                      THEN [harts EXCEPT ![v.hartsel].resume = TRUE, ![v.hartsel].ack = FALSE]
                      ELSE harts
      BY <2>1, <2>3 DEF Written, Clamp, Reg
    <3>2. OfControl(d, s, e)
      BY <1>2, <2>3, ByControl
    <3>3. Turns(d, v, e)
      BY <1>2, <3>2 DEF OfControl, Turns
    <3>4. Controls(p, v, q)
      BY <2>3, <3>0
    <3> HIDE DEF v
    <3> QED BY <2>1, <3>1, <3>3, <3>4, ControlCarries
  <2>4. ASSUME NEW k \in 1 .. Words, s.addr = <<"DATA", k - 1>>, s.val = <<"data", k>>, ~ p.busy
        PROVE  Where(e)'
    <3>1. k \in Int /\ k # 0 /\ (k - 1) + 1 = k
      BY Sizes
    <3>2. v = loc.data[k]
      BY <2>4, <3>1 DEF Word
    <3>3. ~ dm.busy
      BY <2>4 DEF At, Module
    <3>4. harts' = harts /\ dm' = LET c == [dm EXCEPT !.data[k] = v]
                                 IN  IF dm.auto = 1 /\ k - 1 = 0 THEN Started(c, c.command) ELSE c
      BY <2>1, <2>4, <3>1, <3>3 DEF Written
    <3> HIDE DEF v
    <3> QED BY <1>2, <2>1, <2>4, <3>2, <3>4, DataCarries
  <2> QED BY <2>2, <2>3, <2>4 DEF WritesWord
<1>3. CASE s.do = "nop"
  <2>1. UNCHANGED <<dm, harts, mem, ppc, own, loc>>
    BY <1>3 DEF Access, Asking
  <2>2. OfOther(d, s, e)
    BY <1>3, ByOther
  <2>3. e = d
    BY <1>3, <2>2 DEF OfOther
  <2> QED BY <2>1, <2>3, ModuleStill
<1> QED BY <1>1, <1>2, <1>3

\* What the host keeps beside the lent registers does not matter.
LEMMA LocStill ==
  ASSUME NEW d, Where(d), UNCHANGED dvars, loc'.s0 = loc.s0 /\ loc'.s1 = loc.s1,
         loc'.data = loc.data \/ d.kind \in {"free", "still", "wild", "load", "exchange"}
  PROVE  Where(d)'
<1>0. UNCHANGED <<dm, harts, mem, ppc, own>>
  BY DEF dvars
<1>1. \A g \in Harts : \A R : Homed(g, R) => Homed(g, R)'
  BY <1>0 DEF Homed, Own
<1>2. \A g \in Harts : Has(d, g) => Has(d, g)'
  BY <1>0, <1>1 DEF Has, Own, Saved, Harmless, Exchanging, Shifts
<1> QED BY <1>0, <1>1, <1>2 DEF Where, Held

\* The response to a read has the word that is in the data registers.
Heard(d, s) == s.do = "read" /\ d.kind = "loaded" => \A k \in 1 .. Words : s.addr = <<"DATA", k - 1>>
  => resp_buf = dm.data[k]
Replied(d, s, e) == IF s.do \in {"read", "until"} THEN Where(d) /\ Heard(d, s) ELSE Where(e)

LEMMA AccessCarries ==
  ASSUME Typed, NEW p \in Ctl, NEW q \in Ctl, NEW s, At(p), Leads(p, s, q), IsRequest(s), Asking(s),
         Access(req_buf), resp_buf' = IF req_buf.op = 1 THEN Readout(req_buf.addr) ELSE resp_buf, UNCHANGED loc,
         NEW d, NEW e, Where(d), Carries(d, s, e)
  PROVE  Replied(d, s, e)'
<1>1. CASE s.do \in {"write", "write_word", "nop"}
  BY <1>1, WroteCarries DEF Replied
<1>2. CASE s.do \in {"read", "until"}
  <2>1. UNCHANGED <<dm, harts, mem, ppc, own, loc>> /\ resp_buf' = Readout(s.addr)
    BY <1>2 DEF Access, Asking
  <2>2. Where(d)'
    BY <2>1, ModuleStill
  <2>3. \A k \in 1 .. Words : s.addr = <<"DATA", k - 1>> => resp_buf' = dm.data[k]
    <3> TAKE k \in 1 .. Words
    <3>1. k \in Nat
      BY Sizes
    <3> QED BY <2>1, <3>1, Readouts
  <2> QED BY <1>2, <2>1, <2>2, <2>3 DEF Replied, Heard
<1> QED BY <1>1, <1>2 DEF IsRequest

LEMMA ReplyCarries ==
  ASSUME Typed, NEW p \in Ctl, NEW q \in Ctl, NEW s, Answered(p, s, q), NEW d, NEW e, Replied(d, s, e),
         UNCHANGED <<loc, resp_buf>>, Hardware \/ \E h \in Harts : Run(h)
  PROVE  Replied(d, s, e)'
<1>1. CASE s.do \notin {"read", "until"}
  <2>1. At(q) /\ Where(e)
    BY <1>1 DEF Answered, Replied
  <2>2. Where(e)'
    BY <2>1, HardwareCarries
  <2> QED BY <1>1, <2>2 DEF Replied
<1>2. CASE s.do \in {"read", "until"}
  <2>1. At(p) /\ Where(d) /\ Heard(d, s)
    BY <1>2 DEF Answered, Replied
  <2>2. Where(d)' /\ Stays(d)
    BY <2>1, HardwareCarries
  <2>3. d.kind = "loaded" => dm'.data = dm.data
    BY <2>1, <2>2 DEF Where, Has, Stays, Own
  <2>4. Heard(d, s)'
    BY <2>1, <2>3 DEF Heard
  <2> QED BY <1>2, <2>2, <2>4 DEF Replied
<1> QED BY <1>1, <1>2

\* The host takes the response.
LEMMA ReceivedCarries ==
  ASSUME Typed, NEW p \in Ctl, NEW q \in Ctl, Leads(p, Now, q), IsRequest(Now), Answered(p, Now, q), Receive,
         todo # Rest, NEW d, NEW e, Carries(d, Now, e), Replied(d, Now, e)
  PROVE  IF todo' = todo THEN At(p)' /\ Where(d)' ELSE todo' = Rest /\ At(q)' /\ Where(e)'
<1> DEFINE s == Now
<1>0. loc \in LocSet /\ UNCHANGED <<dm, harts, mem, ppc, own>> /\ UNCHANGED dvars
  BY DEF Typed, LocType, LocSet, Receive, dvars
<1>1. \/ todo' = todo /\ At(p)'
      \/ todo' = Rest /\ At(q)'
  BY Received
<1>2. CASE s.do \in {"write", "write_word", "nop"}
  <2>1. loc' = loc /\ todo' = Rest
    BY <1>2 DEF Receive
  <2>2. Where(e)
    BY <1>2 DEF Replied
  <2>3. Where(e)'
    BY <1>0, <2>1, <2>2, LocStill
  <2> QED BY <1>1, <2>1, <2>3
<1>3. CASE s.do = "read"
  <2>0. Reads(p, s, q) /\ todo' = Rest /\ Where(d) /\ Heard(d, s)
    BY <1>3 DEF Replied, Receive, Leads, Writes, WritesWord, Awaits, Computes
  <2>1. OfRead(d, s, e)
    BY <1>3, ByRead
  <2>2. loc'.s0 = loc.s0 /\ loc'.s1 = loc.s1
    <3>1. CASE s.addr[1] = "DATA"
      <4>1. loc' = [loc EXCEPT !.data[s.val[2]] = resp_buf]
        BY <1>3, <3>1, Zenon DEF Receive
      <4> QED BY <1>0, <4>1 DEF LocSet
    <3>2. CASE s.addr[1] # "DATA"
      <4>1. loc' = [loc EXCEPT ![s.val] = resp_buf]
        BY <1>3, <3>2, Zenon DEF Receive
      <4>2. s.val \in {"dmcontrol", "dmstatus", "abstractcs", "hartinfo"}
        BY <2>0, <3>2 DEF Reads
      <4> QED BY <1>0, <4>1, <4>2 DEF LocSet
    <3> QED BY <3>1, <3>2
  <2>3. CASE d.kind \in {"free", "still", "wild"} /\ e = d
    <3>1. Where(e)'
      BY <1>0, <2>0, <2>2, <2>3, LocStill
    <3> QED BY <1>1, <2>0, <3>1
  <2>4. ASSUME NEW r \in Both, NEW kept, NEW n \in Nat, d = Loaded(r, kept, n), s.addr = <<"DATA", n>>,
               e = Loaded(r, kept, n + 1)
        PROVE  Where(e)'
    <3>1. PICK k \in 1 .. Words : s.addr = <<"DATA", k - 1>> /\ s.val = <<"data", k>>
      BY <2>0, <2>4 DEF Reads, Reg
    <3>2. /\ n = k - 1 /\ n + 1 = k /\ k \in Int
          /\ \A j \in 1 .. k : j \in 1 .. Words /\ (j # k => j \in 1 .. k - 1)
      BY <2>4, <3>1, Sizes
    <3>3. /\ d.kind = "loaded" /\ d.home = Both /\ d.kept = kept /\ d.n = k - 1 /\ d.reg = r
          /\ e.kind = "loaded" /\ e.home = Both /\ e.kept = kept /\ e.n = k /\ e.reg = r
      BY <2>4, <3>2 DEF Loaded, Lent
    <3>4. resp_buf = dm.data[k]
      BY <1>3, <2>0, <3>1, <3>3 DEF Heard
    <3>5. loc' = [loc EXCEPT !.data[k] = resp_buf]
      <4>1. loc' = [loc EXCEPT !.data[s.val[2]] = resp_buf]
        <5>1. s.addr[1] = "DATA"
          BY <2>4
        <5> QED BY <1>3, <5>1, Zenon DEF Receive
      <4> QED BY <3>1, <4>1
    <3> DEFINE t == [loc.data EXCEPT ![k] = resp_buf]
    <3>6. loc' = [loc EXCEPT !.data = t]
      BY <3>5
    <3>7. \A j \in 1 .. Words : t[j] = IF j = k THEN resp_buf ELSE loc.data[j]
      BY <1>0 DEF LocSet, Val
    <3> HIDE DEF t
    <3>8. loc'.data = t
      BY <1>0, <3>6 DEF LocSet
    <3>9. PICK h : h = dm.hartsel
      OBVIOUS
    <3>10. Held(h) /\ Has(d, h) /\ h \in Harts /\ dm.auto = 0
      BY <2>0, <3>3, <3>9 DEF Where, Held
    <3>11. dm.data = Own(h, r) /\ \A j \in 1 .. k - 1 : loc.data[j] = Own(h, r)[j]
      BY <3>3, <3>10 DEF Has
    <3>12. \A j \in 1 .. k : loc'.data[j] = Own(h, r)[j]
      <4> TAKE j \in 1 .. k
      <4>1. j # k => loc.data[j] = Own(h, r)[j]
        BY <3>2, <3>11
      <4> QED BY <3>2, <3>4, <3>7, <3>8, <3>11, <4>1
    <3>13. \A g \in Harts : \A R : Homed(g, R) => Homed(g, R)'
      BY <1>0 DEF Homed, Own
    <3>14. \A x : Own(h, x)' = Own(h, x) /\ Saved(x)' = Saved(x)
      BY <1>0, <2>2 DEF Own, Saved
    <3>15. Has(e, h)'
      BY <1>0, <3>3, <3>10, <3>11, <3>12, <3>13, <3>14 DEF Has
    <3> QED BY <1>0, <2>0, <3>3, <3>9, <3>10, <3>13, <3>15 DEF Where, Held
  <2>5. Where(e)'
    BY <2>1, <2>3, <2>4, <1>0, <2>0, <2>2, LocStill DEF OfRead
  <2> QED BY <1>1, <2>0, <2>5
<1>4. CASE s.do = "until"
  <2>0. /\ Awaits(p, s, q) /\ Where(d) /\ OfUntil(d, s, e)
        /\ todo' = IF Holds(s.val, resp_buf) THEN Rest ELSE todo
    <3>1. OfUntil(d, s, e)
      BY <1>4, ByUntil
    <3> QED BY <1>4, <3>1 DEF Replied, Receive, Leads, Writes, WritesWord, Reads, Computes
  <2>1. loc'.s0 = loc.s0 /\ loc'.s1 = loc.s1 /\ loc'.data = loc.data
    <3>1. CASE s.addr[1] = "ABSTRACTCS"
      <4>1. loc' = [loc EXCEPT !.abstractcs = resp_buf]
        BY <1>4, <3>1, Zenon DEF Receive
      <4> QED BY <1>0, <4>1 DEF LocSet
    <3>2. CASE s.addr[1] # "ABSTRACTCS"
      <4>1. loc' = loc
        BY <1>4, <3>2, Zenon DEF Receive
      <4> QED BY <4>1
    <3> QED BY <3>1, <3>2
  <2>2. Where(d)'
    BY <1>0, <2>0, <2>1, LocStill
  <2>3. CASE todo' = todo
    BY <1>1, <2>2, <2>3
  <2>4. CASE todo' # todo
    <3>0. todo' = Rest /\ At(q)'
      BY <1>1, <2>4
    <3>a. PICK h : h = dm'.hartsel
      OBVIOUS
    <3>b. d.kind # "free" => Held(h)' /\ Has(d, h)' /\ h \in Harts /\ dm'.hartsel = h
      BY <2>2, <3>a DEF Where, Held
    <3>c. s.val = "idle" => ~ dm'.busy /\ ppc' = -1
      <4>1. s.val = "idle" => q = [Add(p, {"cmderr"}) EXCEPT !.busy = FALSE]
        BY <2>0 DEF Awaits
      <4>2. s.val = "idle" => q.busy = FALSE
        BY <4>1 DEF Ctl, Add
      <4> QED BY <3>0, <4>2 DEF At, Module
    <3>1. CASE d.kind \in {"free", "still", "wild"} /\ e = d
      BY <2>2, <2>4, <3>0, <3>1
    <3>2. ASSUME d = Free, s.val = "allhalted", NEW prog, e = Still({}, 0, prog) PROVE Where(e)'
      <4>1. q.mode = "caught" /\ q.sel = p.sel
        <5>1. q = [p EXCEPT !.mode = "caught"]
          BY <2>0, <3>2 DEF Awaits
        <5> QED BY <5>1 DEF Ctl
      <4>2. q.sel \in Harts /\ dm'.hartsel = q.sel /\ Held(q.sel)'
        BY <3>0, <4>1, Clamped DEF At, Module, Borrowed, Held, Unknown
      <4>3. d.kind = "free"
        BY <3>2 DEF Free, Lent
      <4>4. ~ dm'.busy /\ dm'.auto = 0 /\ \A g \in Harts : Homed(g, Both)'
        BY <2>2, <4>3 DEF Where
      <4>5. e.kind = "still" /\ e.kept = {} /\ e.n = 0 /\ e.home = Both /\ e.prog = prog
        BY <3>2 DEF Still, Lent
      <4>6. PICK g \in Harts : g = q.sel
        BY <4>2
      <4>7. Has(e, g)'
        BY <4>4, <4>5 DEF Has
      <4> QED BY <2>2, <4>2, <4>4, <4>5, <4>6, <4>7 DEF Where
    <3>3. ASSUME s.val = "idle", NEW prog, d = Exchange(prog), e = Still({}, 0, <<>>) PROVE Where(e)'
      <4>1. /\ d.kind = "exchange" /\ e.kind = "still" /\ e.kept = {} /\ e.n = 0 /\ e.home = Both
        BY <3>3 DEF Exchange, Still, Lent
      <4>2. harts'[h].reg["s1"] = Own(h, "s1")' /\ harts'[h].reg["s0"] = Own(h, "s0")'
        BY <3>3, <3>b, <3>c, <4>1 DEF Has, Exchanging
      <4>3. Homed(h, Both)'
        BY <4>2 DEF Homed, Both
      <4>4. Has(e, h)'
        <5>1. ~ dm'.busy /\ \A k : k \notin 1 .. 0
          BY <3>3, <3>c
        <5> QED BY <4>1, <4>3, <5>1 DEF Has
      <4> QED BY <2>2, <3>b, <4>1, <4>4 DEF Where
    <3>4. ASSUME s.val = "idle", NEW r \in Both, NEW kept, d = Load(r, kept), e = Loaded(r, kept, 0)
          PROVE Where(e)'
      <4>1. /\ d.kind = "load" /\ d.kept = kept /\ d.home = Both /\ d.reg = r
            /\ e.kind = "loaded" /\ e.kept = kept /\ e.n = 0 /\ e.home = Both /\ e.reg = r
        BY <3>4 DEF Load, Loaded, Lent
      <4>2. Has(e, h)'
        <5>1. ~ dm'.busy /\ \A k : k \notin 1 .. 0
          BY <3>4, <3>c
        <5>2. dm'.data = Own(h, r)' /\ Homed(h, Both)' /\ \A x \in kept : Saved(x)' = Own(h, x)'
          BY <3>b, <4>1, <5>1 DEF Has
        <5> QED BY <4>1, <5>1, <5>2 DEF Has
      <4> QED BY <2>2, <3>b, <4>1, <4>2 DEF Where
    <3>5. ASSUME s.val = "idle", NEW r \in Both, NEW home, d = Store(r, home),
                 e = Placed(r, home \cup {r}, Words)
          PROVE  Where(e)'
      <4>1. /\ d.kind = "store" /\ d.kept = Both /\ d.home = home /\ d.reg = r
            /\ e.kind = "placed" /\ e.kept = Both /\ e.n = Words /\ e.home = home \cup {r} /\ e.reg = r
        BY <3>5 DEF Store, Placed, Lent
      <4>2. /\ harts'[h].reg[r] = Own(h, r)' /\ Homed(h, home)'
            /\ dm'.data = Own(h, r)' /\ loc'.data = dm'.data
        BY <3>5, <3>b, <3>c, <4>1 DEF Has
      <4>3. Homed(h, home \cup {r})'
        BY <4>2 DEF Homed
      <4>4. Has(e, h)'
        BY <3>5, <3>b, <3>c, <4>1, <4>2, <4>3 DEF Has
      <4> QED BY <2>2, <3>b, <4>1, <4>4 DEF Where
    <3>6. Where(e)'
      BY <2>0, <3>1, <3>2, <3>3, <3>4, <3>5 DEF OfUntil
    <3> QED BY <2>4, <3>0, <3>6
  <2> QED BY <2>3, <2>4
<1> QED BY <1>2, <1>3, <1>4 DEF IsRequest
----------------------------------------------------------------------------
(* Trips of one step.                                                      *)

LEMMA KindsOf ==
  /\ Free.kind = "free" /\ Wild.kind = "wild"
  /\ \A kept, n, prog : Still(kept, n, prog).kind = "still" /\ Still(kept, n, prog).home = Both
  /\ \A r, home, n : Placed(r, home, n).kind = "placed" /\ Placed(r, home, n).home = home
BY DEF Free, Wild, Still, Placed, Lent

LEMMA TripPass == ASSUME NEW d, NEW w, NEW a, NEW v, Passes(d.kind, StepOf(w, a, v))
                  PROVE  Trip(d, <<StepOf(w, a, v)>>, d)
<1> DEFINE s == StepOf(w, a, v)
<1>1. Carries(d, s, d)
  BY DEF Carries
<1> HIDE DEF s
<1>2. Trip(d, <<s>>, d)
  BY <1>1, TripStep
<1> QED BY <1>2 DEF s

LEMMA PassRead == ASSUME NEW d, d.kind \in {"free", "still", "wild"}, NEW a, NEW x PROVE Trip(d, read(a, x), d)
BY TripPass DEF Passes, StepOf, read

LEMMA PassCheck == ASSUME NEW d PROVE Trip(d, local("check", 0), d)
BY TripPass DEF Passes, StepOf, local

LEMMA PassDie == ASSUME NEW d PROVE Trip(d, die, d)
BY TripPass DEF Passes, StepOf, die, write

LEMMA PassNop == ASSUME NEW d PROVE Trip(d, nop, d)
BY TripPass DEF Passes, StepOf, nop

LEMMA PassIdle == ASSUME NEW d, d.kind \in {"still", "wild"} PROVE Trip(d, until(Reg("ABSTRACTCS"), "idle"), d)
BY TripPass DEF Passes, StepOf, until

LEMMA PassData == ASSUME NEW d, d.kind \in {"still", "wild"}, NEW v PROVE Trip(d, local("data", v), d)
BY TripPass DEF Passes, StepOf, local, Bare

LEMMA PassWord == ASSUME NEW d, d.kind \in {"still", "wild"}, NEW n, NEW v, NEW i
                  PROVE  Trip(d, write_word(<<"DATA", n>>, v, i), d)
BY TripPass DEF Passes, StepOf, write_word

LEMMA FreeControl == ASSUME NEW v PROVE Trip(Free, write(Reg("DMCONTROL"), v), Free)
BY KindsOf, TripPass DEF Passes, StepOf, write

LEMMA FreeWord == ASSUME NEW v, NEW i PROVE Trip(Free, write_word(Reg("DMCONTROL"), v, i), Free)
BY KindsOf, TripPass DEF Passes, StepOf, write_word

LEMMA FreeUntil == ASSUME NEW a, NEW c \in Ends PROVE Trip(Free, until(a, c), Free)
BY KindsOf, TripPass DEF Passes, StepOf, until

LEMMA FreeLocal == ASSUME NEW w \in Settled, NEW v PROVE Trip(Free, local(w, v), Free)
BY KindsOf, TripPass DEF Passes, StepOf, local

LEMMA StillControl == ASSUME NEW d, d.kind = "still", NEW v, ~ v.resumereq
                      PROVE  Trip(d, write(Reg("DMCONTROL"), v), d)
BY TripPass DEF Passes, StepOf, write

LEMMA StillCommand == ASSUME NEW d, d.kind = "still", NEW c, ~ c.write, ~ c.postexec
                      PROVE  Trip(d, write(Reg("COMMAND"), c), d)
BY TripPass DEF Passes, StepOf, write

LEMMA StillLocal == ASSUME NEW d, d.kind = "still", NEW w \in {"data", "current_hart", "size"}, NEW v
                    PROVE  Trip(d, local(w, v), d)
BY TripPass DEF Passes, StepOf, local

LEMMA WildLocal == ASSUME NEW w \in Bare, NEW v PROVE Trip(Wild, local(w, v), Wild)
BY KindsOf, TripPass DEF Passes, StepOf, local

LEMMA WildWrite == ASSUME NEW w \in {"PROGBUF", "COMMAND", "ABSTRACTAUTO"}, NEW n, NEW v
                   PROVE  Trip(Wild, write(<<w, n>>, v), Wild)
BY KindsOf, TripPass DEF Passes, StepOf, write

\* The hart has halted; and it may resume.
LEMMA Caught == ASSUME NEW prog PROVE Trip(Free, until(Reg("DMSTATUS"), "allhalted"), Still({}, 0, prog))
<1> DEFINE s == StepOf("until", Reg("DMSTATUS"), "allhalted")
<1>1. Carries(Free, s, Still({}, 0, prog))
  BY DEF Carries, StepOf
<1> HIDE DEF s
<1>2. Trip(Free, <<s>>, Still({}, 0, prog))
  BY <1>1, TripStep
<1> QED BY <1>2 DEF s, until

LEMMA LetGo == ASSUME NEW d, d.kind \in {"still", "placed"}, d.home = Both, NEW v, v.resumereq
               PROVE  Trip(d, write(Reg("DMCONTROL"), v), Free)
<1> DEFINE s == StepOf("write", Reg("DMCONTROL"), v)
<1>1. Carries(d, s, Free)
  BY DEF Carries, StepOf
<1> HIDE DEF s
<1>2. Trip(d, <<s>>, Free)
  BY <1>1, TripStep
<1> QED BY <1>2 DEF s, write

\* The steps that take a register away from the hart and give it back.
LEMMA TakeAway == ASSUME NEW kept, NEW n, NEW prog, NEW r \in Both, NEW c, ~ c.write, ~ c.postexec,
                         c.size = XLEN, c.reg = r
                  PROVE  Trip(Still(kept, n, prog), write(Reg("COMMAND"), c), Load(r, kept))
<1> DEFINE s == StepOf("write", Reg("COMMAND"), c)
<1>1. Commanded(s, FALSE, r)
  BY DEF Commanded, StepOf
<1> HIDE DEF s
<1>2. Carries(Still(kept, n, prog), s, Load(r, kept))
  BY <1>1 DEF Carries
<1>3. Trip(Still(kept, n, prog), <<s>>, Load(r, kept))
  BY <1>2, TripStep
<1> QED BY <1>3 DEF s, write

LEMMA TakenAway == ASSUME NEW kept, NEW r \in Both
                   PROVE  Trip(Load(r, kept), until(Reg("ABSTRACTCS"), "idle"), Loaded(r, kept, 0))
<1> DEFINE s == StepOf("until", Reg("ABSTRACTCS"), "idle")
<1>1. IdleAt(s)
  BY DEF IdleAt, StepOf
<1> HIDE DEF s
<1>2. Carries(Load(r, kept), s, Loaded(r, kept, 0))
  BY <1>1 DEF Carries
<1>3. Trip(Load(r, kept), <<s>>, Loaded(r, kept, 0))
  BY <1>2, TripStep
<1> QED BY <1>3 DEF s, until

LEMMA Kept == ASSUME NEW kept, NEW r \in Both
              PROVE  Trip(Loaded(r, kept, Words), local("keep", r), Still(kept \cup {r}, 0, <<>>))
<1> DEFINE s == StepOf("keep", Reg("none"), r)
<1>1. s.do = "keep" /\ s.val = r
  BY DEF StepOf
<1> HIDE DEF s
<1>2. Carries(Loaded(r, kept, Words), s, Still(kept \cup {r}, 0, <<>>))
  BY <1>1 DEF Carries
<1>3. Trip(Loaded(r, kept, Words), <<s>>, Still(kept \cup {r}, 0, <<>>))
  BY <1>2, TripStep
<1> QED BY <1>3 DEF s, local

LEMMA BothKept == ASSUME NEW n, NEW prog, NEW v PROVE Trip(Still(Both, n, prog), local("data", v), Wild)
<1> DEFINE s == StepOf("data", Reg("none"), v)
<1>1. s.do = "data"
  BY DEF StepOf
<1> HIDE DEF s
<1>2. Carries(Still(Both, n, prog), s, Wild)
  BY <1>1 DEF Carries
<1>3. Trip(Still(Both, n, prog), <<s>>, Wild)
  BY <1>2, TripStep
<1> QED BY <1>3 DEF s, local

LEMMA RecallFirst == ASSUME NEW r \in Both PROVE Trip(Wild, local("recall", r), Placed(r, {}, 0))
<1> DEFINE s == StepOf("recall", Reg("none"), r)
<1>1. s.do = "recall" /\ s.val = r
  BY DEF StepOf
<1> HIDE DEF s
<1>2. Carries(Wild, s, Placed(r, {}, 0))
  BY <1>1 DEF Carries
<1>3. Trip(Wild, <<s>>, Placed(r, {}, 0))
  BY <1>2, TripStep
<1> QED BY <1>3 DEF s, local

LEMMA RecallNext == ASSUME NEW r \in Both, NEW x, NEW home, NEW n
                    PROVE  Trip(Placed(x, home, n), local("recall", r), Placed(r, home, 0))
<1> DEFINE s == StepOf("recall", Reg("none"), r)
<1>1. s.do = "recall" /\ s.val = r
  BY DEF StepOf
<1> HIDE DEF s
<1>2. Carries(Placed(x, home, n), s, Placed(r, home, 0))
  BY <1>1 DEF Carries
<1>3. Trip(Placed(x, home, n), <<s>>, Placed(r, home, 0))
  BY <1>2, TripStep
<1> QED BY <1>3 DEF s, local

LEMMA GiveTo == ASSUME NEW home, NEW r \in Both, NEW c, c.write, ~ c.postexec, c.size = XLEN, c.reg = r,
                       c.write = TRUE
                PROVE  Trip(Placed(r, home, Words), write(Reg("COMMAND"), c), Store(r, home))
<1> DEFINE s == StepOf("write", Reg("COMMAND"), c)
<1>1. Commanded(s, TRUE, r)
  BY DEF Commanded, StepOf
<1> HIDE DEF s
<1>2. Carries(Placed(r, home, Words), s, Store(r, home))
  BY <1>1 DEF Carries
<1>3. Trip(Placed(r, home, Words), <<s>>, Store(r, home))
  BY <1>2, TripStep
<1> QED BY <1>3 DEF s, write

LEMMA GivenTo == ASSUME NEW home, NEW r \in Both
                 PROVE  Trip(Store(r, home), until(Reg("ABSTRACTCS"), "idle"), Placed(r, home \cup {r}, Words))
<1> DEFINE s == StepOf("until", Reg("ABSTRACTCS"), "idle")
<1>1. IdleAt(s)
  BY DEF IdleAt, StepOf
<1> HIDE DEF s
<1>2. Carries(Store(r, home), s, Placed(r, home \cup {r}, Words))
  BY <1>1 DEF Carries
<1>3. Trip(Store(r, home), <<s>>, Placed(r, home \cup {r}, Words))
  BY <1>2, TripStep
<1> QED BY <1>3 DEF s, until

\* The programs that leave the registers as they were.
LEMMA FenceRuns == ASSUME NEW kept, NEW c, c.write, c.reg = "x0"
                   PROVE  Trip(Still(kept, 2, Fence), write(Reg("COMMAND"), c), Still(kept, 2, Fence))
<1> DEFINE s == StepOf("write", Reg("COMMAND"), c)
<1>1. Executed(s)
  BY DEF Executed, StepOf
<1> HIDE DEF s
<1>2. Carries(Still(kept, 2, Fence), s, Still(kept, 2, Fence))
  BY <1>1 DEF Carries
<1>3. Trip(Still(kept, 2, Fence), <<s>>, Still(kept, 2, Fence))
  BY <1>2, TripStep
<1> QED BY <1>3 DEF s, write

LEMMA SwapRuns == ASSUME NEW kept, NEW prog, Swaps(prog), NEW c, c.write, c.reg = "x0", c.size = XLEN
                  PROVE  Trip(Still(kept, 6, prog), write(Reg("COMMAND"), c), Exchange(prog))
<1> DEFINE s == StepOf("write", Reg("COMMAND"), c)
<1>1. Executed(s) /\ s.val.size = XLEN
  BY DEF Executed, StepOf
<1> HIDE DEF s
<1>2. Carries(Still(kept, 6, prog), s, Exchange(prog))
  BY <1>1 DEF Carries
<1>3. Trip(Still(kept, 6, prog), <<s>>, Exchange(prog))
  BY <1>2, TripStep
<1> QED BY <1>3 DEF s, write

LEMMA SwapEnds == ASSUME NEW prog
                  PROVE  Trip(Exchange(prog), until(Reg("ABSTRACTCS"), "idle"), Still({}, 0, <<>>))
<1> DEFINE s == StepOf("until", Reg("ABSTRACTCS"), "idle")
<1>1. IdleAt(s)
  BY DEF IdleAt, StepOf
<1> HIDE DEF s
<1>2. Carries(Exchange(prog), s, Still({}, 0, <<>>))
  BY <1>1 DEF Carries
<1>3. Trip(Exchange(prog), <<s>>, Still({}, 0, <<>>))
  BY <1>2, TripStep
<1> QED BY <1>3 DEF s, until

----------------------------------------------------------------------------
(* Trips of an operation.                                                  *)

LEMMA TripProgbuf ==
  ASSUME NEW kept, NEW prog, NEW S, prog \in Seq(S)
  PROVE  Trip(Still(kept, 0, prog), Progbuf(prog), Still(kept, Len(prog), prog))
<1> DEFINE n == Len(prog)
           F(i) == StepOf("write", <<"PROGBUF", i - 1>>, prog[i])
           T == {F(i) : i \in 1 .. n}
           steps == Progbuf(prog)
           as == [i \in 1 .. n + 1 |-> Still(kept, i - 1, prog)]
<1>1. n \in Nat /\ \A i \in 1 .. n : F(i) \in T
  <2>1. n \in Nat
    OBVIOUS
  <2> HIDE DEF n, F
  <2> QED BY <2>1
<1>2. steps = [i \in 1 .. n |-> F(i)]
  BY DEF Progbuf
<1>3. \A i \in 1 .. n : F(i).do = "write" /\ F(i).addr = <<"PROGBUF", i - 1>> /\ F(i).val = prog[i]
  BY DEF StepOf
<1> HIDE DEF n, F, T, steps
<1>4. steps \in Seq(T) /\ Len(steps) = n
  BY <1>1, <1>2
<1>5. \A i \in 1 .. n + 1 : as[i] = Still(kept, i - 1, prog)
  OBVIOUS
<1> HIDE DEF as
<1>6. as[1] = Still(kept, 0, prog) /\ as[n + 1] = Still(kept, n, prog)
  <2>1. 1 \in 1 .. n + 1 /\ n + 1 \in 1 .. n + 1 /\ 1 - 1 = 0 /\ (n + 1) - 1 = n
    BY <1>1
  <2> QED BY <1>5, <2>1
<1>7. ASSUME NEW i \in 1 .. n PROVE Carries(as[i], steps[i], as[i + 1])
  <2> DEFINE m == i - 1
             s == steps[i]
  <2>1. i \in 1 .. n + 1 /\ i + 1 \in 1 .. n + 1 /\ (i + 1) - 1 = m + 1 /\ m \in Nat /\ m + 1 = i
    BY <1>1
  <2>2. as[i] = Still(kept, m, prog) /\ as[i + 1] = Still(kept, m + 1, prog)
    BY <1>5, <2>1
  <2>3. s.do = "write" /\ s.addr = <<"PROGBUF", m>> /\ s.val = prog[m + 1]
    BY <1>2, <1>3, <2>1
  <2> HIDE DEF m, s
  <2>4. Carries(Still(kept, m, prog), s, Still(kept, m + 1, prog))
    BY <2>1, <2>3 DEF Carries
  <2> QED BY <2>2, <2>4 DEF s
<1>8. Trip(as[1], steps, as[n + 1])
  BY <1>4, <1>7 DEF Trip
<1> QED BY <1>6, <1>8 DEF steps, n

LEMMA TripRead ==
  ASSUME NEW kept, NEW r \in Both
  PROVE  Trip(Loaded(r, kept, 0), ReadData(Words), Loaded(r, kept, Words))
<1> DEFINE n == Words
           F(i) == StepOf("read", <<"DATA", i - 1>>, <<"data", i>>)
           T == {F(i) : i \in 1 .. n}
           steps == ReadData(n)
           as == [i \in 1 .. n + 1 |-> Loaded(r, kept, i - 1)]
<1>1. n \in Nat /\ \A i \in 1 .. n : F(i) \in T
  BY Sizes
<1>2. steps = [i \in 1 .. n |-> F(i)]
  BY DEF ReadData
<1>3. \A i \in 1 .. n : F(i).do = "read" /\ F(i).addr = <<"DATA", i - 1>>
  BY DEF StepOf
<1> HIDE DEF n, F, T, steps
<1>4. steps \in Seq(T) /\ Len(steps) = n
  BY <1>1, <1>2
<1>5. \A i \in 1 .. n + 1 : as[i] = Loaded(r, kept, i - 1)
  OBVIOUS
<1> HIDE DEF as
<1>6. as[1] = Loaded(r, kept, 0) /\ as[n + 1] = Loaded(r, kept, n)
  <2>1. 1 \in 1 .. n + 1 /\ n + 1 \in 1 .. n + 1 /\ 1 - 1 = 0 /\ (n + 1) - 1 = n
    BY <1>1
  <2> QED BY <1>5, <2>1
<1>7. ASSUME NEW i \in 1 .. n PROVE Carries(as[i], steps[i], as[i + 1])
  <2> DEFINE m == i - 1
             s == steps[i]
  <2>1. i \in 1 .. n + 1 /\ i + 1 \in 1 .. n + 1 /\ (i + 1) - 1 = m + 1 /\ m \in Nat /\ m + 1 = i
    BY <1>1
  <2>2. as[i] = Loaded(r, kept, m) /\ as[i + 1] = Loaded(r, kept, m + 1)
    BY <1>5, <2>1
  <2>3. s.do = "read" /\ s.addr = <<"DATA", m>>
    BY <1>2, <1>3, <2>1
  <2> HIDE DEF m, s
  <2>4. Carries(Loaded(r, kept, m), s, Loaded(r, kept, m + 1))
    BY <2>1, <2>3 DEF Carries
  <2> QED BY <2>2, <2>4 DEF s
<1>8. Trip(as[1], steps, as[n + 1])
  BY <1>4, <1>7 DEF Trip
<1> QED BY <1>6, <1>8 DEF steps, n

LEMMA TripPlace ==
  ASSUME NEW home, NEW r \in Both
  PROVE  Trip(Placed(r, home, 0), WriteData(Words), Placed(r, home, Words))
<1> DEFINE n == Words
           F(i) == StepOf("write_word", <<"DATA", i - 1>>, <<"data", i>>)
           T == {F(i) : i \in 1 .. n}
           steps == WriteData(n)
           as == [i \in 1 .. n + 1 |-> Placed(r, home, i - 1)]
<1>1. n \in Nat /\ \A i \in 1 .. n : F(i) \in T
  BY Sizes
<1>2. steps = [i \in 1 .. n |-> F(i)]
  BY DEF WriteData
<1>3. \A i \in 1 .. n : F(i).do = "write_word" /\ F(i).addr = <<"DATA", i - 1>>
  BY DEF StepOf
<1> HIDE DEF n, F, T, steps
<1>4. steps \in Seq(T) /\ Len(steps) = n
  BY <1>1, <1>2
<1>5. \A i \in 1 .. n + 1 : as[i] = Placed(r, home, i - 1)
  OBVIOUS
<1> HIDE DEF as
<1>6. as[1] = Placed(r, home, 0) /\ as[n + 1] = Placed(r, home, n)
  <2>1. 1 \in 1 .. n + 1 /\ n + 1 \in 1 .. n + 1 /\ 1 - 1 = 0 /\ (n + 1) - 1 = n
    BY <1>1
  <2> QED BY <1>5, <2>1
<1>7. ASSUME NEW i \in 1 .. n PROVE Carries(as[i], steps[i], as[i + 1])
  <2> DEFINE m == i - 1
             s == steps[i]
  <2>1. i \in 1 .. n + 1 /\ i + 1 \in 1 .. n + 1 /\ (i + 1) - 1 = m + 1 /\ m \in Nat /\ m + 1 = i
    BY <1>1
  <2>2. as[i] = Placed(r, home, m) /\ as[i + 1] = Placed(r, home, m + 1)
    BY <1>5, <2>1
  <2>3. s.do = "write_word" /\ s.addr = <<"DATA", m>>
    BY <1>2, <1>3, <2>1
  <2> HIDE DEF m, s
  <2>4. Carries(Placed(r, home, m), s, Placed(r, home, m + 1))
    BY <2>1, <2>3 DEF Carries
  <2> QED BY <2>2, <2>4 DEF s
<1>8. Trip(as[1], steps, as[n + 1])
  BY <1>4, <1>7 DEF Trip
<1> QED BY <1>6, <1>8 DEF steps, n

\* Rows of steps that an assertion passes.
LEMMA PassReads == ASSUME NEW d, d.kind \in {"still", "wild"}, NEW n \in Nat PROVE Trip(d, ReadData(n), d)
<1> DEFINE F(i) == StepOf("read", <<"DATA", i - 1>>, <<"data", i>>)
           T == {F(i) : i \in 1 .. n}
           steps == ReadData(n)
<1>1. \A i \in 1 .. n : F(i) \in T
  OBVIOUS
<1>2. steps = [i \in 1 .. n |-> F(i)]
  BY DEF ReadData
<1>3. \A i \in 1 .. n : Passes(d.kind, F(i))
  BY DEF Passes, StepOf
<1> HIDE DEF F, T, steps
<1>4. steps \in Seq(T) /\ Len(steps) = n
  BY <1>1, <1>2
<1>5. \A i \in 1 .. Len(steps) : Carries(d, steps[i], d)
  BY <1>2, <1>3, <1>4 DEF Carries
<1>6. Trip(d, steps, d)
  BY <1>4, <1>5, TripSame
<1> QED BY <1>6 DEF steps

LEMMA PassWords == ASSUME NEW d, d.kind \in {"still", "wild"}, NEW n \in Nat PROVE Trip(d, WriteData(n), d)
<1> DEFINE F(i) == StepOf("write_word", <<"DATA", i - 1>>, <<"data", i>>)
           T == {F(i) : i \in 1 .. n}
           steps == WriteData(n)
<1>1. \A i \in 1 .. n : F(i) \in T
  OBVIOUS
<1>2. steps = [i \in 1 .. n |-> F(i)]
  BY DEF WriteData
<1>3. \A i \in 1 .. n : Passes(d.kind, F(i))
  BY DEF Passes, StepOf
<1> HIDE DEF F, T, steps
<1>4. steps \in Seq(T) /\ Len(steps) = n
  BY <1>1, <1>2
<1>5. \A i \in 1 .. Len(steps) : Carries(d, steps[i], d)
  BY <1>2, <1>3, <1>4 DEF Carries
<1>6. Trip(d, steps, d)
  BY <1>4, <1>5, TripSame
<1> QED BY <1>6 DEF steps

LEMMA WildProgbuf == ASSUME NEW prog, NEW S, prog \in Seq(S) PROVE Trip(Wild, Progbuf(prog), Wild)
<1> DEFINE n == Len(prog)
           F(i) == StepOf("write", <<"PROGBUF", i - 1>>, prog[i])
           T == {F(i) : i \in 1 .. n}
           steps == Progbuf(prog)
<1>1. n \in Nat /\ \A i \in 1 .. n : F(i) \in T
  <2>1. n \in Nat
    OBVIOUS
  <2> HIDE DEF n, F
  <2> QED BY <2>1
<1>2. steps = [i \in 1 .. n |-> F(i)]
  BY DEF Progbuf
<1>3. \A i \in 1 .. n : Passes(Wild.kind, F(i))
  BY KindsOf DEF Passes, StepOf
<1> HIDE DEF n, F, T, steps
<1>4. steps \in Seq(T) /\ Len(steps) = n
  BY <1>1, <1>2
<1>5. \A i \in 1 .. Len(steps) : Carries(Wild, steps[i], Wild)
  BY <1>2, <1>3, <1>4 DEF Carries
<1>6. Trip(Wild, steps, Wild)
  BY <1>4, <1>5, TripSame
<1> QED BY <1>6 DEF steps

LEMMA NoProgbuf == Progbuf(<<>>) = <<>>
BY DEF Progbuf

LEMMA TripHalt ==
  ASSUME NEW h, NEW prog PROVE Trip(Free, halt(h), Still({}, 0, prog))
<1> DEFINE p0 == Free
           p1 == Free
           a1 == (IF loc.running THEN write(Reg("DMCONTROL"), DMACTIVE)
             \o read(Reg("DMSTATUS"), "dmstatus") ELSE <<>>)
           p2 == Free
           a2 == write(Reg("DMCONTROL"), [DMACTIVE EXCEPT !.haltreq = TRUE, !.hartsel = h])
           p3 == Still({}, 0, prog)
           a3 == until(Reg("DMSTATUS"), "allhalted")
           p4 == Still({}, 0, prog)
           a4 == write(Reg("DMCONTROL"), [DMACTIVE EXCEPT !.hartsel = h])
           p5 == Still({}, 0, prog)
           a5 == read(Reg("DMSTATUS"), "dmstatus")
           p6 == Still({}, 0, prog)
           a6 == local("current_hart", h)
<1>1. Trip(p0, a1, p1)
  <2> DEFINE b == write(Reg("DMCONTROL"), DMACTIVE)
             c == read(Reg("DMSTATUS"), "dmstatus")
  <2>1. Trip(Free, b, Free)
    BY FreeControl
  <2>2. Trip(Free, c, Free)
    BY PassRead, KindsOf
  <2>3. Trip(Free, <<>>, Free)
    BY TripNone
  <2> HIDE DEF b, c
  <2>4. Trip(Free, b \o c, Free)
    BY <2>1, <2>2, TripJoin
  <2> QED BY <2>3, <2>4 DEF b, c
<1>2. Trip(p1, a2, p2)
  BY FreeControl
<1>3. Trip(p2, a3, p3)
  BY Caught
<1>4. Trip(p3, a4, p4)
  <2> DEFINE v == [DMACTIVE EXCEPT !.hartsel = h]
  <2>1. ~ v.resumereq
    BY DEF DMACTIVE
  <2> HIDE DEF v
  <2>2. Trip(Still({}, 0, prog), write(Reg("DMCONTROL"), v), Still({}, 0, prog))
    BY <2>1, StillControl, KindsOf
  <2> QED BY <2>2 DEF v
<1>5. Trip(p4, a5, p5)
  BY PassRead, KindsOf
<1>6. Trip(p5, a6, p6)
  BY StillLocal, KindsOf
<1> HIDE DEF p0, p1, p2, p3, p4, p5, p6, a1, a2, a3, a4, a5, a6
<1>7. Trip(p0, a1 \o a2, p2)
  BY <1>1, <1>2, TripJoin
<1>8. Trip(p0, a1 \o a2 \o a3, p3)
  BY <1>7, <1>3, TripJoin
<1>9. Trip(p0, a1 \o a2 \o a3 \o a4, p4)
  BY <1>8, <1>4, TripJoin
<1>10. Trip(p0, a1 \o a2 \o a3 \o a4 \o a5, p5)
  BY <1>9, <1>5, TripJoin
<1>11. Trip(p0, a1 \o a2 \o a3 \o a4 \o a5 \o a6, p6)
  BY <1>10, <1>6, TripJoin
<1> QED BY <1>11 DEF p0, p6, a1, a2, a3, a4, a5, a6, halt

LEMMA TripResume ==
  ASSUME NEW h, NEW d, d.kind \in {"still", "placed"}, d.home = Both PROVE Trip(d, resume(h), Free)
<1> DEFINE p0 == d
           p1 == Free
           a1 == write(Reg("DMCONTROL"), [DMACTIVE EXCEPT !.resumereq = TRUE, !.hartsel = h])
           p2 == Free
           a2 == until(Reg("DMSTATUS"), "resumeack")
           p3 == Free
           a3 == write(Reg("DMCONTROL"), [DMACTIVE EXCEPT !.hartsel = h])
           p4 == Free
           a4 == read(Reg("DMSTATUS"), "dmstatus")
           p5 == Free
           a5 == local("current_hart", h)
           p6 == Free
           a6 == (IF loc.running THEN write(Reg("DMCONTROL"), DMACTIVE)
             \o read(Reg("DMSTATUS"), "dmstatus") ELSE <<>>)
<1>1. Trip(p0, a1, p1)
  <2> DEFINE v == [DMACTIVE EXCEPT !.resumereq = TRUE, !.hartsel = h]
  <2>1. v.resumereq
    BY DEF DMACTIVE
  <2> HIDE DEF v
  <2>2. Trip(d, write(Reg("DMCONTROL"), v), Free)
    BY <2>1, LetGo
  <2> QED BY <2>2 DEF v
<1>2. Trip(p1, a2, p2)
  BY FreeUntil DEF Ends
<1>3. Trip(p2, a3, p3)
  BY FreeControl
<1>4. Trip(p3, a4, p4)
  BY PassRead, KindsOf
<1>5. Trip(p4, a5, p5)
  BY FreeLocal DEF Settled
<1>6. Trip(p5, a6, p6)
  <2> DEFINE b == write(Reg("DMCONTROL"), DMACTIVE)
             c == read(Reg("DMSTATUS"), "dmstatus")
  <2>1. Trip(Free, b, Free)
    BY FreeControl
  <2>2. Trip(Free, c, Free)
    BY PassRead, KindsOf
  <2>3. Trip(Free, <<>>, Free)
    BY TripNone
  <2> HIDE DEF b, c
  <2>4. Trip(Free, b \o c, Free)
    BY <2>1, <2>2, TripJoin
  <2> QED BY <2>3, <2>4 DEF b, c
<1> HIDE DEF p0, p1, p2, p3, p4, p5, p6, a1, a2, a3, a4, a5, a6
<1>7. Trip(p0, a1 \o a2, p2)
  BY <1>1, <1>2, TripJoin
<1>8. Trip(p0, a1 \o a2 \o a3, p3)
  BY <1>7, <1>3, TripJoin
<1>9. Trip(p0, a1 \o a2 \o a3 \o a4, p4)
  BY <1>8, <1>4, TripJoin
<1>10. Trip(p0, a1 \o a2 \o a3 \o a4 \o a5, p5)
  BY <1>9, <1>5, TripJoin
<1>11. Trip(p0, a1 \o a2 \o a3 \o a4 \o a5 \o a6, p6)
  BY <1>10, <1>6, TripJoin
<1> QED BY <1>11 DEF p0, p6, a1, a2, a3, a4, a5, a6, resume

LEMMA TripSelect ==
  ASSUME NEW h PROVE Trip(Free, select_hart(h), Free)
<1> DEFINE p0 == Free
           p1 == Free
           a1 == read(Reg("DMCONTROL"), "dmcontrol")
           p2 == Free
           a2 == local("hartsel", h)
           p3 == Free
           a3 == write_word(Reg("DMCONTROL"), "dmcontrol", 0)
           p4 == Free
           a4 == local("current_hart", h)
<1>1. Trip(p0, a1, p1)
  BY PassRead, KindsOf
<1>2. Trip(p1, a2, p2)
  BY FreeLocal DEF Settled
<1>3. Trip(p2, a3, p3)
  BY FreeWord
<1>4. Trip(p3, a4, p4)
  BY FreeLocal DEF Settled
<1> HIDE DEF p0, p1, p2, p3, p4, a1, a2, a3, a4
<1>5. Trip(p0, a1 \o a2, p2)
  BY <1>1, <1>2, TripJoin
<1>6. Trip(p0, a1 \o a2 \o a3, p3)
  BY <1>5, <1>3, TripJoin
<1>7. Trip(p0, a1 \o a2 \o a3 \o a4, p4)
  BY <1>6, <1>4, TripJoin
<1> QED BY <1>7 DEF p0, p4, a1, a2, a3, a4, select_hart

LEMMA TripHarts ==
  Trip(Free, enumerate_harts, Free)
<1> DEFINE p0 == Free
           p1 == Free
           a1 == read(Reg("DMCONTROL"), "dmcontrol")
           p2 == Free
           a2 == local("hartsel", 1023)
           p3 == Free
           a3 == write_word(Reg("DMCONTROL"), "dmcontrol", 0)
           p4 == Free
           a4 == read(Reg("DMSTATUS"), "dmstatus")
           p5 == Free
           a5 == read(Reg("DMCONTROL"), "dmcontrol")
           p6 == Free
           a6 == local("max_hart", 0)
           p7 == Free
           a7 == local("enumerate", 0)
<1>1. Trip(p0, a1, p1)
  BY PassRead, KindsOf
<1>2. Trip(p1, a2, p2)
  BY FreeLocal DEF Settled
<1>3. Trip(p2, a3, p3)
  BY FreeWord
<1>4. Trip(p3, a4, p4)
  BY PassRead, KindsOf
<1>5. Trip(p4, a5, p5)
  BY PassRead, KindsOf
<1>6. Trip(p5, a6, p6)
  BY FreeLocal DEF Settled
<1>7. Trip(p6, a7, p7)
  BY FreeLocal DEF Settled
<1> HIDE DEF p0, p1, p2, p3, p4, p5, p6, p7, a1, a2, a3, a4, a5, a6, a7
<1>8. Trip(p0, a1 \o a2, p2)
  BY <1>1, <1>2, TripJoin
<1>9. Trip(p0, a1 \o a2 \o a3, p3)
  BY <1>8, <1>3, TripJoin
<1>10. Trip(p0, a1 \o a2 \o a3 \o a4, p4)
  BY <1>9, <1>4, TripJoin
<1>11. Trip(p0, a1 \o a2 \o a3 \o a4 \o a5, p5)
  BY <1>10, <1>5, TripJoin
<1>12. Trip(p0, a1 \o a2 \o a3 \o a4 \o a5 \o a6, p6)
  BY <1>11, <1>6, TripJoin
<1>13. Trip(p0, a1 \o a2 \o a3 \o a4 \o a5 \o a6 \o a7, p7)
  BY <1>12, <1>7, TripJoin
<1> QED BY <1>13 DEF p0, p7, a1, a2, a3, a4, a5, a6, a7, enumerate_harts

LEMMA TripLoad ==
  ASSUME NEW r \in Both, NEW kept, NEW m, NEW prog,
         NEW c, ~ c.write, c.transfer, ~ c.postexec, c.size = XLEN, c.reg = r
  PROVE  Trip(Still(kept, m, prog), RUN_AC_OR_DIE(c, <<>>, Words), Loaded(r, kept, Words))
<1> DEFINE p0 == Still(kept, m, prog)
           p1 == Still(kept, m, prog)
           a1 == Progbuf(<<>>)
           p2 == Still(kept, m, prog)
           a2 == (IF c.write /\ c.transfer THEN WriteData(Words) ELSE <<>>)
           p3 == Load(r, kept)
           a3 == write(Reg("COMMAND"), c)
           p4 == Loaded(r, kept, 0)
           a4 == until(Reg("ABSTRACTCS"), "idle")
           p5 == Loaded(r, kept, Words)
           a5 == (IF ~ c.write /\ c.transfer THEN ReadData(Words) ELSE <<>>)
           p6 == Loaded(r, kept, Words)
           a6 == local("check", 0)
<1>1. Trip(p0, a1, p1)
  BY NoProgbuf, TripNone
<1>2. Trip(p1, a2, p2)
  BY TripNone
<1>3. Trip(p2, a3, p3)
  BY TakeAway
<1>4. Trip(p3, a4, p4)
  BY TakenAway
<1>5. Trip(p4, a5, p5)
  BY TripRead
<1>6. Trip(p5, a6, p6)
  BY PassCheck
<1> HIDE DEF p0, p1, p2, p3, p4, p5, p6, a1, a2, a3, a4, a5, a6
<1>7. Trip(p0, a1 \o a2, p2)
  BY <1>1, <1>2, TripJoin
<1>8. Trip(p0, a1 \o a2 \o a3, p3)
  BY <1>7, <1>3, TripJoin
<1>9. Trip(p0, a1 \o a2 \o a3 \o a4, p4)
  BY <1>8, <1>4, TripJoin
<1>10. Trip(p0, a1 \o a2 \o a3 \o a4 \o a5, p5)
  BY <1>9, <1>5, TripJoin
<1>11. Trip(p0, a1 \o a2 \o a3 \o a4 \o a5 \o a6, p6)
  BY <1>10, <1>6, TripJoin
<1> QED BY <1>11 DEF p0, p6, a1, a2, a3, a4, a5, a6, RUN_AC_OR_DIE, run_abstract_command

LEMMA TripSave ==
  ASSUME NEW r \in Both, NEW kept, NEW m, NEW prog, loc.xlen = XLEN
  PROVE  Trip(Still(kept, m, prog), save_reg(r, r), Still(kept \cup {r}, 0, <<>>))
<1> DEFINE p0 == Still(kept, m, prog)
           p1 == Loaded(r, kept, Words)
           a1 == RUN_AC_OR_DIE(Ac({"TRANSFER"}, loc.xlen, r), <<>>, Words)
           p2 == Still(kept \cup {r}, 0, <<>>)
           a2 == local("keep", r)
<1>1. Trip(p0, a1, p1)
  <2> DEFINE c == Ac({"TRANSFER"}, loc.xlen, r)
  <2>1. ~ c.write /\ c.transfer /\ ~ c.postexec /\ c.size = XLEN /\ c.reg = r
    <3>1. c = Ac({"TRANSFER"}, loc.xlen, r)
      OBVIOUS
    <3> HIDE DEF c
    <3>2. ~ c.write /\ c.transfer /\ ~ c.postexec /\ c.size = loc.xlen /\ c.reg = r
      BY <3>1 DEF Ac
    <3> QED BY <3>2
  <2> HIDE DEF c
  <2>2. Trip(Still(kept, m, prog), RUN_AC_OR_DIE(c, <<>>, Words), Loaded(r, kept, Words))
    BY <2>1, TripLoad
  <2> QED BY <2>2 DEF c
<1>2. Trip(p1, a2, p2)
  BY Kept
<1> HIDE DEF p0, p1, p2, a1, a2
<1>3. Trip(p0, a1 \o a2, p2)
  BY <1>1, <1>2, TripJoin
<1> QED BY <1>3 DEF p0, p2, a1, a2, save_reg

LEMMA TripBorrow ==
  ASSUME NEW prog, loc.xlen = XLEN
  PROVE  Trip(Still({}, 0, prog), Borrow, Still(Both, 0, <<>>))
<1> DEFINE p0 == Still({}, 0, prog)
           p1 == Still({} \cup {"s0"}, 0, <<>>)
           a1 == save_reg("s0", "s0")
           p2 == Still(Both, 0, <<>>)
           a2 == save_reg("s1", "s1")
<1>1. Trip(p0, a1, p1)
  <2> DEFINE r == "s0"
             k == {}
             n == 0
  <2>1. r \in Both
    BY DEF Both
  <2> HIDE DEF r, k, n
  <2>2. Trip(Still(k, n, prog), save_reg(r, r), Still(k \cup {r}, 0, <<>>))
    BY <2>1, TripSave
  <2> QED BY <2>2 DEF r, k, n
<1>2. Trip(p1, a2, p2)
  <2> DEFINE r == "s1"
             k == {} \cup {"s0"}
             n == 0
             none == <<>>
  <2>1. r \in Both
    BY DEF Both
  <2>0. k \cup {r} = Both
    BY DEF Both
  <2> HIDE DEF r, k, n, none
  <2>2. Trip(Still(k, n, none), save_reg(r, r), Still(k \cup {r}, 0, <<>>))
    BY <2>1, TripSave
  <2> QED BY <2>0, <2>2 DEF r, k, n, none
<1> HIDE DEF p0, p1, p2, a1, a2
<1>3. Trip(p0, a1 \o a2, p2)
  BY <1>1, <1>2, TripJoin
<1> QED BY <1>3 DEF p0, p2, a1, a2, Borrow

LEMMA TripStore ==
  ASSUME NEW r \in Both, NEW home,
         NEW c, c.write = TRUE, c.transfer, ~ c.postexec, c.size = XLEN, c.reg = r
  PROVE  Trip(Placed(r, home, 0), RUN_AC_OR_DIE(c, <<>>, Words), Placed(r, home \cup {r}, Words))
<1> DEFINE p0 == Placed(r, home, 0)
           p1 == Placed(r, home, 0)
           a1 == Progbuf(<<>>)
           p2 == Placed(r, home, Words)
           a2 == (IF c.write /\ c.transfer THEN WriteData(Words) ELSE <<>>)
           p3 == Store(r, home)
           a3 == write(Reg("COMMAND"), c)
           p4 == Placed(r, home \cup {r}, Words)
           a4 == until(Reg("ABSTRACTCS"), "idle")
           p5 == Placed(r, home \cup {r}, Words)
           a5 == (IF ~ c.write /\ c.transfer THEN ReadData(Words) ELSE <<>>)
           p6 == Placed(r, home \cup {r}, Words)
           a6 == local("check", 0)
<1>1. Trip(p0, a1, p1)
  BY NoProgbuf, TripNone
<1>2. Trip(p1, a2, p2)
  BY TripPlace
<1>3. Trip(p2, a3, p3)
  BY GiveTo
<1>4. Trip(p3, a4, p4)
  BY GivenTo
<1>5. Trip(p4, a5, p5)
  BY TripNone
<1>6. Trip(p5, a6, p6)
  BY PassCheck
<1> HIDE DEF p0, p1, p2, p3, p4, p5, p6, a1, a2, a3, a4, a5, a6
<1>7. Trip(p0, a1 \o a2, p2)
  BY <1>1, <1>2, TripJoin
<1>8. Trip(p0, a1 \o a2 \o a3, p3)
  BY <1>7, <1>3, TripJoin
<1>9. Trip(p0, a1 \o a2 \o a3 \o a4, p4)
  BY <1>8, <1>4, TripJoin
<1>10. Trip(p0, a1 \o a2 \o a3 \o a4 \o a5, p5)
  BY <1>9, <1>5, TripJoin
<1>11. Trip(p0, a1 \o a2 \o a3 \o a4 \o a5 \o a6, p6)
  BY <1>10, <1>6, TripJoin
<1> QED BY <1>11 DEF p0, p6, a1, a2, a3, a4, a5, a6, RUN_AC_OR_DIE, run_abstract_command

LEMMA TripRestored ==
  ASSUME NEW r \in Both, NEW home, loc.xlen = XLEN
  PROVE  Trip(Placed(r, home, 0), RUN_AC_OR_DIE(Ac({"TRANSFER", "WRITE"}, loc.xlen, r), <<>>, Words),
              Placed(r, home \cup {r}, Words))
<1> DEFINE c == Ac({"TRANSFER", "WRITE"}, loc.xlen, r)
<1>1. c.write = TRUE /\ c.transfer /\ ~ c.postexec /\ c.size = XLEN /\ c.reg = r
  <2>1. c = Ac({"TRANSFER", "WRITE"}, loc.xlen, r)
    OBVIOUS
  <2> HIDE DEF c
  <2>2. c.write = TRUE /\ c.transfer /\ ~ c.postexec /\ c.size = loc.xlen /\ c.reg = r
    BY <2>1 DEF Ac
  <2> QED BY <2>2
<1> HIDE DEF c
<1>2. Trip(Placed(r, home, 0), RUN_AC_OR_DIE(c, <<>>, Words), Placed(r, home \cup {r}, Words))
  BY <1>1, TripStore
<1> QED BY <1>2 DEF c

LEMMA TripRestoreFirst ==
  ASSUME NEW r \in Both, loc.xlen = XLEN
  PROVE  Trip(Wild, restore_reg(r, r), Placed(r, {} \cup {r}, Words))
<1> DEFINE p0 == Wild
           p1 == Placed(r, {}, 0)
           a1 == local("recall", r)
           p2 == Placed(r, {} \cup {r}, Words)
           a2 == RUN_AC_OR_DIE(Ac({"TRANSFER", "WRITE"}, loc.xlen, r), <<>>, Words)
<1>1. Trip(p0, a1, p1)
  BY RecallFirst
<1>2. Trip(p1, a2, p2)
  <2> DEFINE home == {}
  <2> HIDE DEF home
  <2>1. Trip(Placed(r, home, 0), RUN_AC_OR_DIE(Ac({"TRANSFER", "WRITE"}, loc.xlen, r), <<>>, Words),
             Placed(r, home \cup {r}, Words))
    BY TripRestored
  <2> QED BY <2>1 DEF home
<1> HIDE DEF p0, p1, p2, a1, a2
<1>3. Trip(p0, a1 \o a2, p2)
  BY <1>1, <1>2, TripJoin
<1> QED BY <1>3 DEF p0, p2, a1, a2, restore_reg

LEMMA TripRestoreNext ==
  ASSUME NEW r \in Both, NEW x, NEW home, NEW n, loc.xlen = XLEN
  PROVE  Trip(Placed(x, home, n), restore_reg(r, r), Placed(r, home \cup {r}, Words))
<1> DEFINE p0 == Placed(x, home, n)
           p1 == Placed(r, home, 0)
           a1 == local("recall", r)
           p2 == Placed(r, home \cup {r}, Words)
           a2 == RUN_AC_OR_DIE(Ac({"TRANSFER", "WRITE"}, loc.xlen, r), <<>>, Words)
<1>1. Trip(p0, a1, p1)
  BY RecallNext
<1>2. Trip(p1, a2, p2)
  BY TripRestored
<1> HIDE DEF p0, p1, p2, a1, a2
<1>3. Trip(p0, a1 \o a2, p2)
  BY <1>1, <1>2, TripJoin
<1> QED BY <1>3 DEF p0, p2, a1, a2, restore_reg

LEMMA TripGiveBack ==
  ASSUME loc.xlen = XLEN
  PROVE  Trip(Wild, GiveBack, Placed("s1", Both, Words))
<1> DEFINE p0 == Wild
           p1 == Placed("s0", {} \cup {"s0"}, Words)
           a1 == restore_reg("s0", "s0")
           p2 == Placed("s1", Both, Words)
           a2 == restore_reg("s1", "s1")
<1>1. Trip(p0, a1, p1)
  <2> DEFINE r == "s0"
  <2>1. r \in Both
    BY DEF Both
  <2> HIDE DEF r
  <2>2. Trip(Wild, restore_reg(r, r), Placed(r, {} \cup {r}, Words))
    BY <2>1, TripRestoreFirst
  <2> QED BY <2>2 DEF r
<1>2. Trip(p1, a2, p2)
  <2> DEFINE r == "s1"
             x == "s0"
             k == {} \cup {"s0"}
             n == Words
  <2>1. r \in Both
    BY DEF Both
  <2>0. k \cup {r} = Both
    BY DEF Both
  <2> HIDE DEF r, k, x, n
  <2>2. Trip(Placed(x, k, n), restore_reg(r, r), Placed(r, k \cup {r}, Words))
    BY <2>1, TripRestoreNext
  <2> QED BY <2>0, <2>2 DEF r, k, x, n
<1> HIDE DEF p0, p1, p2, a1, a2
<1>3. Trip(p0, a1 \o a2, p2)
  BY <1>1, <1>2, TripJoin
<1> QED BY <1>3 DEF p0, p2, a1, a2, GiveBack

LEMMA WildRun ==
  ASSUME NEW c, NEW prog, NEW S, prog \in Seq(S), NEW n \in Nat
  PROVE  Trip(Wild, RUN_AC_OR_DIE(c, prog, n), Wild)
<1> DEFINE p0 == Wild
           p1 == Wild
           a1 == Progbuf(prog)
           p2 == Wild
           a2 == (IF c.write /\ c.transfer THEN WriteData(n) ELSE <<>>)
           p3 == Wild
           a3 == write(Reg("COMMAND"), c)
           p4 == Wild
           a4 == until(Reg("ABSTRACTCS"), "idle")
           p5 == Wild
           a5 == (IF ~ c.write /\ c.transfer THEN ReadData(n) ELSE <<>>)
           p6 == Wild
           a6 == local("check", 0)
<1>1. Trip(p0, a1, p1)
  BY WildProgbuf
<1>2. Trip(p1, a2, p2)
  BY PassWords, TripNone, KindsOf
<1>3. Trip(p2, a3, p3)
  BY WildWrite DEF Reg
<1>4. Trip(p3, a4, p4)
  BY PassIdle, KindsOf
<1>5. Trip(p4, a5, p5)
  BY PassReads, TripNone, KindsOf
<1>6. Trip(p5, a6, p6)
  BY PassCheck
<1> HIDE DEF p0, p1, p2, p3, p4, p5, p6, a1, a2, a3, a4, a5, a6
<1>7. Trip(p0, a1 \o a2, p2)
  BY <1>1, <1>2, TripJoin
<1>8. Trip(p0, a1 \o a2 \o a3, p3)
  BY <1>7, <1>3, TripJoin
<1>9. Trip(p0, a1 \o a2 \o a3 \o a4, p4)
  BY <1>8, <1>4, TripJoin
<1>10. Trip(p0, a1 \o a2 \o a3 \o a4 \o a5, p5)
  BY <1>9, <1>5, TripJoin
<1>11. Trip(p0, a1 \o a2 \o a3 \o a4 \o a5 \o a6, p6)
  BY <1>10, <1>6, TripJoin
<1> QED BY <1>11 DEF p0, p6, a1, a2, a3, a4, a5, a6, RUN_AC_OR_DIE, run_abstract_command

LEMMA WildRunWords == ASSUME NEW c PROVE Trip(Wild, RUN_AC_OR_DIE(c, <<>>, Words), Wild)
<1> DEFINE n == Words
           prog == <<>>
<1>1. n \in Nat /\ prog \in Seq({})
  BY Sizes
<1> HIDE DEF n, prog
<1>2. Trip(Wild, RUN_AC_OR_DIE(c, prog, n), Wild)
  BY <1>1, WildRun
<1> QED BY <1>2 DEF n, prog

LEMMA WildRunProgram == ASSUME NEW c, NEW prog, NEW S, prog \in Seq(S)
                        PROVE Trip(Wild, RUN_AC_OR_DIE(c, prog, Words), Wild)
<1> DEFINE n == Words
<1>1. n \in Nat
  BY Sizes
<1> HIDE DEF n
<1>2. Trip(Wild, RUN_AC_OR_DIE(c, prog, n), Wild)
  BY <1>1, WildRun
<1> QED BY <1>2 DEF n
----------------------------------------------------------------------------
(* The operations.                                                         *)

\* The steps of a read, one word after the other.
LEMMA TripReads == ASSUME NEW i, NEW n PROVE Trip(Wild, ReadWords(i, n), Wild)
<1> DEFINE c == Ac({"TRANSFER"} \cup (IF i < n THEN {"POSTEXEC"} ELSE {}), loc.xlen, "s1")
           a == RUN_AC_OR_DIE(c, <<>>, Words)
           b == local("memcpy", i)
           e == local("read_words", <<i + 1, n>>)
<1>1. ReadWords(i, n) = IF i > n THEN <<>> ELSE a \o b \o e
  BY DEF ReadWords
<1>2. Trip(Wild, <<>>, Wild)
  BY TripNone
<1>3. Trip(Wild, a, Wild)
  <2> HIDE DEF c
  <2> QED BY WildRunWords
<1>4. Trip(Wild, b, Wild)
  BY WildLocal DEF Bare
<1>5. Trip(Wild, e, Wild)
  <2> DEFINE v == <<i + 1, n>>
  <2> HIDE DEF v
  <2>1. Trip(Wild, local("read_words", v), Wild)
    BY WildLocal DEF Bare
  <2> QED BY <2>1 DEF v
<1> HIDE DEF c, a, b, e
<1>6. Trip(Wild, a \o b, Wild)
  BY <1>3, <1>4, TripJoin
<1>7. Trip(Wild, a \o b \o e, Wild)
  BY <1>5, <1>6, TripJoin
<1> QED BY <1>1, <1>2, <1>7

LEMMA TripAutoWord ==
  ASSUME NEW v PROVE Trip(Wild, AutoWord(v), Wild)
<1> DEFINE p0 == Wild
           p1 == Wild
           a1 == DataIs(v)
           p2 == Wild
           a2 == (IF loc.xlen = 64 THEN write_word(<<"DATA", 1>>, "data", 2) ELSE <<>>)
           p3 == Wild
           a3 == write_word(<<"DATA", 0>>, "data", 1)
           p4 == Wild
           a4 == until(Reg("ABSTRACTCS"), "idle")
           p5 == Wild
           a5 == local("check", 0)
<1>1. Trip(p0, a1, p1)
  BY PassData, KindsOf DEF DataIs
<1>2. Trip(p1, a2, p2)
  <2> DEFINE n == 1
             i == 2
             x == "data"
  <2> HIDE DEF n, i, x
  <2>1. Trip(Wild, write_word(<<"DATA", n>>, x, i), Wild)
    BY PassWord, KindsOf
  <2>2. Trip(Wild, <<>>, Wild)
    BY TripNone
  <2> QED BY <2>1, <2>2 DEF n, i, x
<1>3. Trip(p2, a3, p3)
  <2> DEFINE n == 0
             i == 1
             x == "data"
  <2> HIDE DEF n, i, x
  <2>1. Trip(Wild, write_word(<<"DATA", n>>, x, i), Wild)
    BY PassWord, KindsOf
  <2> QED BY <2>1 DEF n, i, x
<1>4. Trip(p3, a4, p4)
  BY PassIdle, KindsOf
<1>5. Trip(p4, a5, p5)
  BY PassCheck
<1> HIDE DEF p0, p1, p2, p3, p4, p5, a1, a2, a3, a4, a5
<1>6. Trip(p0, a1 \o a2, p2)
  BY <1>1, <1>2, TripJoin
<1>7. Trip(p0, a1 \o a2 \o a3, p3)
  BY <1>6, <1>3, TripJoin
<1>8. Trip(p0, a1 \o a2 \o a3 \o a4, p4)
  BY <1>7, <1>4, TripJoin
<1>9. Trip(p0, a1 \o a2 \o a3 \o a4 \o a5, p5)
  BY <1>8, <1>5, TripJoin
<1> QED BY <1>9 DEF p0, p5, a1, a2, a3, a4, a5, AutoWord

LEMMA TripNext == ASSUME NEW words PROVE Trip(Wild, NextWords(words), Wild)
<1> DEFINE a == AutoWord(Head(words))
           b == local("auto_words", Tail(words))
<1>1. NextWords(words) = IF words = <<>> THEN <<>> ELSE a \o b
  BY DEF NextWords
<1>2. Trip(Wild, <<>>, Wild)
  BY TripNone
<1>3. Trip(Wild, a, Wild)
  <2> DEFINE v == Head(words)
  <2> HIDE DEF v
  <2>1. Trip(Wild, AutoWord(v), Wild)
    BY TripAutoWord
  <2> QED BY <2>1 DEF v
<1>4. Trip(Wild, b, Wild)
  <2> DEFINE v == Tail(words)
  <2> HIDE DEF v
  <2>1. Trip(Wild, local("auto_words", v), Wild)
    BY WildLocal DEF Bare
  <2> QED BY <2>1 DEF v
<1> HIDE DEF a, b
<1>5. Trip(Wild, a \o b, Wild)
  BY <1>3, <1>4, TripJoin
<1> QED BY <1>1, <1>2, <1>5

LEMMA TripAuto == ASSUME NEW words PROVE Trip(Wild, AutoWords(words), Wild)
<1> DEFINE a == AutoOn
           b == local("auto_words", words)
           c == AutoOff
<1>1. AutoWords(words) = IF words = <<>> THEN <<>> ELSE a \o b \o c
  BY DEF AutoWords
<1>2. Trip(Wild, <<>>, Wild)
  BY TripNone
<1>3. Trip(Wild, a, Wild)
  <2> DEFINE v == 1
             n == 0
  <2> HIDE DEF v, n
  <2>1. Trip(Wild, write(<<"ABSTRACTAUTO", n>>, v), Wild)
    BY WildWrite
  <2> QED BY <2>1 DEF v, n, AutoOn, Reg
<1>4. Trip(Wild, b, Wild)
  BY WildLocal DEF Bare
<1>5. Trip(Wild, c, Wild)
  <2> DEFINE v == 0
             n == 0
  <2> HIDE DEF v, n
  <2>1. Trip(Wild, write(<<"ABSTRACTAUTO", n>>, v), Wild)
    BY WildWrite
  <2> QED BY <2>1 DEF v, n, AutoOff, Reg
<1> HIDE DEF a, b, c
<1>6. Trip(Wild, a \o b, Wild)
  BY <1>3, <1>4, TripJoin
<1>7. Trip(Wild, a \o b \o c, Wild)
  BY <1>5, <1>6, TripJoin
<1> QED BY <1>1, <1>2, <1>7

LEMMA ProgramOf == ASSUME NEW a, NEW b, NEW c PROVE <<a, b, c>> \in Seq({a, b, c})
OBVIOUS

LEMMA WildRunThree == ASSUME NEW c, NEW x, NEW y, NEW z
                      PROVE Trip(Wild, RUN_AC_OR_DIE(c, <<x, y, z>>, Words), Wild)
<1> DEFINE prog == <<x, y, z>>
           S == {x, y, z}
<1>1. prog \in Seq(S)
  BY ProgramOf
<1> HIDE DEF prog, S
<1>2. Trip(Wild, RUN_AC_OR_DIE(c, prog, Words), Wild)
  BY <1>1, WildRunProgram
<1> QED BY <1>2 DEF prog

LEMMA WildRunFour ==
  ASSUME NEW c, NEW x, NEW y, NEW z, NEW w PROVE Trip(Wild, RUN_AC_OR_DIE(c, <<x, y, z, w>>, Words), Wild)
<1> DEFINE prog == <<x, y, z, w>>
           S == {x, y, z, w}
<1>1. prog \in Seq(S)
  OBVIOUS
<1> HIDE DEF prog, S
<1>2. Trip(Wild, RUN_AC_OR_DIE(c, prog, Words), Wild)
  BY <1>1, WildRunProgram
<1> QED BY <1>2 DEF prog

LEMMA TripReadChunk ==
  ASSUME NEW taddr, NEW n, loc.xlen = XLEN PROVE Trip(Free, read_chunk(taddr, n), Free)
<1> DEFINE p0 == Free
           p1 == Still({}, 0, <<>>)
           a1 == halt(loc.current_hart)
           p2 == Still(Both, 0, <<>>)
           a2 == Borrow
           p3 == Wild
           a3 == DataIs(Long(taddr))
           p4 == Wild
           a4 == RUN_AC_OR_DIE(Ac({"TRANSFER", "WRITE", "POSTEXEC"}, loc.xlen, "s0"),
             <<LOAD("s1", "s0", 0), ADDI("s0", "s0", chunk_align), EBREAK>>, Words)
           p5 == Wild
           a5 == local("read_words", <<1, n>>)
           p6 == Placed("s1", Both, Words)
           a6 == GiveBack
           p7 == Free
           a7 == resume(loc.current_hart)
<1>1. Trip(p0, a1, p1)
  <2> DEFINE prog == <<>>
             h == loc.current_hart
  <2> HIDE DEF prog, h
  <2>1. Trip(Free, halt(h), Still({}, 0, prog))
    BY TripHalt
  <2> QED BY <2>1 DEF prog, h
<1>2. Trip(p1, a2, p2)
  <2> DEFINE prog == <<>>
  <2> HIDE DEF prog
  <2>1. Trip(Still({}, 0, prog), Borrow, Still(Both, 0, <<>>))
    BY TripBorrow
  <2> QED BY <2>1 DEF prog
<1>3. Trip(p2, a3, p3)
  <2> DEFINE v == Long(taddr)
             zero == 0
             none == <<>>
  <2> HIDE DEF v, zero, none
  <2>1. Trip(Still(Both, zero, none), local("data", v), Wild)
    BY BothKept
  <2> QED BY <2>1 DEF v, zero, none, DataIs
<1>4. Trip(p3, a4, p4)
  <2> DEFINE c == Ac({"TRANSFER", "WRITE", "POSTEXEC"}, loc.xlen, "s0")
             x == LOAD("s1", "s0", 0)
             y == ADDI("s0", "s0", chunk_align)
             z == EBREAK
  <2> HIDE DEF c, x, y, z
  <2>1. Trip(Wild, RUN_AC_OR_DIE(c, <<x, y, z>>, Words), Wild)
    BY WildRunThree
  <2> QED BY <2>1 DEF c, x, y, z
<1>5. Trip(p4, a5, p5)
  <2> DEFINE v == <<1, n>>
  <2> HIDE DEF v
  <2>1. Trip(Wild, local("read_words", v), Wild)
    BY WildLocal DEF Bare
  <2> QED BY <2>1 DEF v
<1>6. Trip(p5, a6, p6)
  BY TripGiveBack
<1>7. Trip(p6, a7, p7)
  <2> DEFINE h == loc.current_hart
  <2> HIDE DEF h
  <2>1. Trip(Placed("s1", Both, Words), resume(h), Free)
    BY TripResume, KindsOf
  <2> QED BY <2>1 DEF h
<1> HIDE DEF p0, p1, p2, p3, p4, p5, p6, p7, a1, a2, a3, a4, a5, a6, a7
<1>8. Trip(p0, a1 \o a2, p2)
  BY <1>1, <1>2, TripJoin
<1>9. Trip(p0, a1 \o a2 \o a3, p3)
  BY <1>8, <1>3, TripJoin
<1>10. Trip(p0, a1 \o a2 \o a3 \o a4, p4)
  BY <1>9, <1>4, TripJoin
<1>11. Trip(p0, a1 \o a2 \o a3 \o a4 \o a5, p5)
  BY <1>10, <1>5, TripJoin
<1>12. Trip(p0, a1 \o a2 \o a3 \o a4 \o a5 \o a6, p6)
  BY <1>11, <1>6, TripJoin
<1>13. Trip(p0, a1 \o a2 \o a3 \o a4 \o a5 \o a6 \o a7, p7)
  BY <1>12, <1>7, TripJoin
<1> QED BY <1>13 DEF p0, p7, a1, a2, a3, a4, a5, a6, a7, read_chunk

LEMMA TripStart ==
  ASSUME NEW taddr, NEW first PROVE Trip(Still(Both, 0, <<>>), StartWrite(taddr, first), Wild)
<1> DEFINE p0 == Still(Both, 0, <<>>)
           p1 == Wild
           a1 == DataIs(Long(taddr))
           p2 == Wild
           a2 == RUN_AC_OR_DIE(Ac({"TRANSFER", "WRITE"}, loc.xlen, "s0"),
             <<STORE("s1", "s0", 0), ADDI("s0", "s0", chunk_align), EBREAK>>, Words)
           p3 == Wild
           a3 == DataIs(first)
           p4 == Wild
           a4 == RUN_AC_OR_DIE(Ac({"TRANSFER", "WRITE", "POSTEXEC"}, loc.xlen, "s1"), <<>>, Words)
<1>1. Trip(p0, a1, p1)
  <2> DEFINE v == Long(taddr)
             zero == 0
             none == <<>>
  <2> HIDE DEF v, zero, none
  <2>1. Trip(Still(Both, zero, none), local("data", v), Wild)
    BY BothKept
  <2> QED BY <2>1 DEF v, zero, none, DataIs
<1>2. Trip(p1, a2, p2)
  <2> DEFINE c == Ac({"TRANSFER", "WRITE"}, loc.xlen, "s0")
             x == STORE("s1", "s0", 0)
             y == ADDI("s0", "s0", chunk_align)
             z == EBREAK
  <2> HIDE DEF c, x, y, z
  <2>1. Trip(Wild, RUN_AC_OR_DIE(c, <<x, y, z>>, Words), Wild)
    BY WildRunThree
  <2> QED BY <2>1 DEF c, x, y, z
<1>3. Trip(p2, a3, p3)
  <2> DEFINE v == first
  <2> HIDE DEF v
  <2>1. Trip(Wild, local("data", v), Wild)
    BY PassData, KindsOf
  <2> QED BY <2>1 DEF v, DataIs
<1>4. Trip(p3, a4, p4)
  <2> DEFINE c == Ac({"TRANSFER", "WRITE", "POSTEXEC"}, loc.xlen, "s1")
  <2> HIDE DEF c
  <2>1. Trip(Wild, RUN_AC_OR_DIE(c, <<>>, Words), Wild)
    BY WildRunWords
  <2> QED BY <2>1 DEF c
<1> HIDE DEF p0, p1, p2, p3, p4, a1, a2, a3, a4
<1>5. Trip(p0, a1 \o a2, p2)
  BY <1>1, <1>2, TripJoin
<1>6. Trip(p0, a1 \o a2 \o a3, p3)
  BY <1>5, <1>3, TripJoin
<1>7. Trip(p0, a1 \o a2 \o a3 \o a4, p4)
  BY <1>6, <1>4, TripJoin
<1> QED BY <1>7 DEF p0, p4, a1, a2, a3, a4, StartWrite

LEMMA TripWriteChunk ==
  ASSUME NEW taddr, NEW src, loc.xlen = XLEN PROVE Trip(Free, write_chunk(taddr, src), Free)
<1> DEFINE p0 == Free
           p1 == Still({}, 0, <<>>)
           a1 == halt(loc.current_hart)
           p2 == Still(Both, 0, <<>>)
           a2 == Borrow
           p3 == Wild
           a3 == StartWrite(taddr, src[1])
           p4 == Wild
           a4 == AutoWords(Tail(src))
           p5 == Placed("s1", Both, Words)
           a5 == GiveBack
           p6 == Free
           a6 == resume(loc.current_hart)
<1>1. Trip(p0, a1, p1)
  <2> DEFINE prog == <<>>
             h == loc.current_hart
  <2> HIDE DEF prog, h
  <2>1. Trip(Free, halt(h), Still({}, 0, prog))
    BY TripHalt
  <2> QED BY <2>1 DEF prog, h
<1>2. Trip(p1, a2, p2)
  <2> DEFINE prog == <<>>
  <2> HIDE DEF prog
  <2>1. Trip(Still({}, 0, prog), Borrow, Still(Both, 0, <<>>))
    BY TripBorrow
  <2> QED BY <2>1 DEF prog
<1>3. Trip(p2, a3, p3)
  <2> DEFINE v == src[1]
  <2> HIDE DEF v
  <2>1. Trip(Still(Both, 0, <<>>), StartWrite(taddr, v), Wild)
    BY TripStart
  <2> QED BY <2>1 DEF v
<1>4. Trip(p3, a4, p4)
  <2> DEFINE v == Tail(src)
  <2> HIDE DEF v
  <2>1. Trip(Wild, AutoWords(v), Wild)
    BY TripAuto
  <2> QED BY <2>1 DEF v
<1>5. Trip(p4, a5, p5)
  BY TripGiveBack
<1>6. Trip(p5, a6, p6)
  <2> DEFINE h == loc.current_hart
  <2> HIDE DEF h
  <2>1. Trip(Placed("s1", Both, Words), resume(h), Free)
    BY TripResume, KindsOf
  <2> QED BY <2>1 DEF h
<1> HIDE DEF p0, p1, p2, p3, p4, p5, p6, a1, a2, a3, a4, a5, a6
<1>7. Trip(p0, a1 \o a2, p2)
  BY <1>1, <1>2, TripJoin
<1>8. Trip(p0, a1 \o a2 \o a3, p3)
  BY <1>7, <1>3, TripJoin
<1>9. Trip(p0, a1 \o a2 \o a3 \o a4, p4)
  BY <1>8, <1>4, TripJoin
<1>10. Trip(p0, a1 \o a2 \o a3 \o a4 \o a5, p5)
  BY <1>9, <1>5, TripJoin
<1>11. Trip(p0, a1 \o a2 \o a3 \o a4 \o a5 \o a6, p6)
  BY <1>10, <1>6, TripJoin
<1> QED BY <1>11 DEF p0, p6, a1, a2, a3, a4, a5, a6, write_chunk

LEMMA TripClearChunk ==
  ASSUME NEW taddr, NEW n, loc.xlen = XLEN PROVE Trip(Free, clear_chunk(taddr, n), Free)
<1> DEFINE p0 == Free
           p1 == Still({}, 0, <<>>)
           a1 == halt(loc.current_hart)
           p2 == Still(Both, 0, <<>>)
           a2 == Borrow
           p3 == Wild
           a3 == DataIs(Long(taddr))
           p4 == Wild
           a4 == RUN_AC_OR_DIE(Ac({"TRANSFER", "WRITE"}, loc.xlen, "s0"), <<>>, Words)
           p5 == Wild
           a5 == DataIs(Long(taddr + n * chunk_align))
           p6 == Wild
           a6 == RUN_AC_OR_DIE(Ac({"TRANSFER", "WRITE", "POSTEXEC"}, loc.xlen, "s1"),
             <<STORE("x0", "s0", 0), ADDI("s0", "s0", chunk_align), BNE("s0", "s1", 0 * 4, 2 * 4), EBREAK>>,
               Words)
           p7 == Placed("s1", Both, Words)
           a7 == GiveBack
           p8 == Free
           a8 == resume(loc.current_hart)
<1>1. Trip(p0, a1, p1)
  <2> DEFINE prog == <<>>
             h == loc.current_hart
  <2> HIDE DEF prog, h
  <2>1. Trip(Free, halt(h), Still({}, 0, prog))
    BY TripHalt
  <2> QED BY <2>1 DEF prog, h
<1>2. Trip(p1, a2, p2)
  <2> DEFINE prog == <<>>
  <2> HIDE DEF prog
  <2>1. Trip(Still({}, 0, prog), Borrow, Still(Both, 0, <<>>))
    BY TripBorrow
  <2> QED BY <2>1 DEF prog
<1>3. Trip(p2, a3, p3)
  <2> DEFINE v == Long(taddr)
             zero == 0
             none == <<>>
  <2> HIDE DEF v, zero, none
  <2>1. Trip(Still(Both, zero, none), local("data", v), Wild)
    BY BothKept
  <2> QED BY <2>1 DEF v, zero, none, DataIs
<1>4. Trip(p3, a4, p4)
  <2> DEFINE c == Ac({"TRANSFER", "WRITE"}, loc.xlen, "s0")
  <2> HIDE DEF c
  <2>1. Trip(Wild, RUN_AC_OR_DIE(c, <<>>, Words), Wild)
    BY WildRunWords
  <2> QED BY <2>1 DEF c
<1>5. Trip(p4, a5, p5)
  <2> DEFINE v == Long(taddr + n * chunk_align)
  <2> HIDE DEF v
  <2>1. Trip(Wild, local("data", v), Wild)
    BY PassData, KindsOf
  <2> QED BY <2>1 DEF v, DataIs
<1>6. Trip(p5, a6, p6)
  <2> DEFINE c == Ac({"TRANSFER", "WRITE", "POSTEXEC"}, loc.xlen, "s1")
             x == STORE("x0", "s0", 0)
             y == ADDI("s0", "s0", chunk_align)
             z == BNE("s0", "s1", 0 * 4, 2 * 4)
             w == EBREAK
  <2> HIDE DEF c, x, y, z, w
  <2>1. Trip(Wild, RUN_AC_OR_DIE(c, <<x, y, z, w>>, Words), Wild)
    BY WildRunFour
  <2> QED BY <2>1 DEF c, x, y, z, w
<1>7. Trip(p6, a7, p7)
  BY TripGiveBack
<1>8. Trip(p7, a8, p8)
  <2> DEFINE h == loc.current_hart
  <2> HIDE DEF h
  <2>1. Trip(Placed("s1", Both, Words), resume(h), Free)
    BY TripResume, KindsOf
  <2> QED BY <2>1 DEF h
<1> HIDE DEF p0, p1, p2, p3, p4, p5, p6, p7, p8, a1, a2, a3, a4, a5, a6, a7, a8
<1>9. Trip(p0, a1 \o a2, p2)
  BY <1>1, <1>2, TripJoin
<1>10. Trip(p0, a1 \o a2 \o a3, p3)
  BY <1>9, <1>3, TripJoin
<1>11. Trip(p0, a1 \o a2 \o a3 \o a4, p4)
  BY <1>10, <1>4, TripJoin
<1>12. Trip(p0, a1 \o a2 \o a3 \o a4 \o a5, p5)
  BY <1>11, <1>5, TripJoin
<1>13. Trip(p0, a1 \o a2 \o a3 \o a4 \o a5 \o a6, p6)
  BY <1>12, <1>6, TripJoin
<1>14. Trip(p0, a1 \o a2 \o a3 \o a4 \o a5 \o a6 \o a7, p7)
  BY <1>13, <1>7, TripJoin
<1>15. Trip(p0, a1 \o a2 \o a3 \o a4 \o a5 \o a6 \o a7 \o a8, p8)
  BY <1>14, <1>8, TripJoin
<1> QED BY <1>15 DEF p0, p8, a1, a2, a3, a4, a5, a6, a7, a8, clear_chunk

\* The exchange of s0 with a CSR, and back.
LEMMA SwapIs == ASSUME NEW t \in CsrOps, NEW w \in {"dpc", "mscratch"}
                PROVE  /\ Swaps(Swap(t, w)) /\ Len(Swap(t, w)) = 6 /\ \E S : Swap(t, w) \in Seq(S)
<1>1. Swaps(Swap(t, w))
  BY DEF Swaps
<1>2. Len(Swap(t, w)) = 6
  BY DEF Swap
<1>3. \E S : Swap(t, w) \in Seq(S)
  <2> DEFINE a == CSRRx("csrrw", "s0", "dscratch0", "s0")
             b == LOAD("s0", "x0", DataAddr)
             c == CSRRx(t, "s0", w, "s0")
             d == STORE("s0", "x0", DataAddr)
             f == EBREAK
             S == {a, b, c, d, f}
  <2>1. Swap(t, w) = <<a, b, c, d, a, f>>
    BY DEF Swap
  <2>2. a \in S /\ b \in S /\ c \in S /\ d \in S /\ f \in S
    OBVIOUS
  <2> HIDE DEF a, b, c, d, f, S
  <2>3. <<a, b, c, d, a, f>> \in Seq(S)
    BY <2>2
  <2> QED BY <2>1, <2>3
<1> QED BY <1>1, <1>2, <1>3

LEMMA TripExchange ==
  ASSUME NEW prog, Swaps(prog), Len(prog) = 6, NEW S, prog \in Seq(S),
         NEW c, c.write, c.reg = "x0", c.size = XLEN
  PROVE  Trip(Still({}, 0, prog), RUN_AC_OR_DIE(c, prog, Words), Still({}, 0, <<>>))
<1> DEFINE p0 == Still({}, 0, prog)
           p1 == Still({}, 6, prog)
           a1 == Progbuf(prog)
           p2 == Still({}, 6, prog)
           a2 == (IF c.write /\ c.transfer THEN WriteData(Words) ELSE <<>>)
           p3 == Exchange(prog)
           a3 == write(Reg("COMMAND"), c)
           p4 == Still({}, 0, <<>>)
           a4 == until(Reg("ABSTRACTCS"), "idle")
           p5 == Still({}, 0, <<>>)
           a5 == (IF ~ c.write /\ c.transfer THEN ReadData(Words) ELSE <<>>)
           p6 == Still({}, 0, <<>>)
           a6 == local("check", 0)
<1>1. Trip(p0, a1, p1)
  <2> DEFINE k == {}
  <2> HIDE DEF k
  <2>1. Trip(Still(k, 0, prog), Progbuf(prog), Still(k, Len(prog), prog))
    BY TripProgbuf
  <2> QED BY <2>1 DEF k
<1>2. Trip(p1, a2, p2)
  <2> DEFINE d == Still({}, 6, prog)
             n == Words
  <2>1. d.kind = "still" /\ n \in Nat
    BY KindsOf, Sizes
  <2> HIDE DEF d, n
  <2>2. Trip(d, WriteData(n), d)
    BY <2>1, PassWords
  <2>3. Trip(d, <<>>, d)
    BY TripNone
  <2> QED BY <2>2, <2>3 DEF d, n
<1>3. Trip(p2, a3, p3)
  <2> DEFINE k == {}
  <2> HIDE DEF k
  <2>1. Trip(Still(k, 6, prog), write(Reg("COMMAND"), c), Exchange(prog))
    BY SwapRuns
  <2> QED BY <2>1 DEF k
<1>4. Trip(p3, a4, p4)
  BY SwapEnds
<1>5. Trip(p4, a5, p5)
  BY TripNone
<1>6. Trip(p5, a6, p6)
  BY PassCheck
<1> HIDE DEF p0, p1, p2, p3, p4, p5, p6, a1, a2, a3, a4, a5, a6
<1>7. Trip(p0, a1 \o a2, p2)
  BY <1>1, <1>2, TripJoin
<1>8. Trip(p0, a1 \o a2 \o a3, p3)
  BY <1>7, <1>3, TripJoin
<1>9. Trip(p0, a1 \o a2 \o a3 \o a4, p4)
  BY <1>8, <1>4, TripJoin
<1>10. Trip(p0, a1 \o a2 \o a3 \o a4 \o a5, p5)
  BY <1>9, <1>5, TripJoin
<1>11. Trip(p0, a1 \o a2 \o a3 \o a4 \o a5 \o a6, p6)
  BY <1>10, <1>6, TripJoin
<1> QED BY <1>11 DEF p0, p6, a1, a2, a3, a4, a5, a6, RUN_AC_OR_DIE, run_abstract_command

LEMMA TripModify ==
  ASSUME NEW w \in {"dpc", "mscratch"}, NEW v, NEW t \in CsrOps, loc.xlen = XLEN, loc.data_base = DataAddr
  PROVE  Trip(Free, modify_csr(w, v, t), Free)
<1> DEFINE p0 == Free
           p1 == Still({}, 0, Swap(t, w))
           a1 == halt(loc.current_hart)
           p2 == Still({}, 0, Swap(t, w))
           a2 == DataIs(v)
           p3 == Still({}, 0, <<>>)
           a3 == RUN_AC_OR_DIE(Ac({"POSTEXEC", "TRANSFER", "WRITE"}, loc.xlen, "x0"), Swap(t, w), Words)
           p4 == Still({}, 0, <<>>)
           a4 == ReadData(Words)
           p5 == Free
           a5 == resume(loc.current_hart)
<1>1. Trip(p0, a1, p1)
  <2> DEFINE prog == Swap(t, w)
             h == loc.current_hart
  <2> HIDE DEF prog, h
  <2>1. Trip(Free, halt(h), Still({}, 0, prog))
    BY TripHalt
  <2> QED BY <2>1 DEF prog, h
<1>2. Trip(p1, a2, p2)
  <2> DEFINE d == Still({}, 0, Swap(t, w))
  <2>1. d.kind = "still"
    BY KindsOf
  <2> HIDE DEF d
  <2>2. Trip(d, local("data", v), d)
    BY <2>1, PassData
  <2> QED BY <2>2 DEF d, DataIs
<1>3. Trip(p2, a3, p3)
  <2> DEFINE c == Ac({"POSTEXEC", "TRANSFER", "WRITE"}, loc.xlen, "x0")
             prog == Swap(t, w)
  <2>1. Swaps(prog) /\ Len(prog) = 6
    BY SwapIs
  <2>2. PICK S : prog \in Seq(S)
    BY SwapIs
  <2>3. c = Ac({"POSTEXEC", "TRANSFER", "WRITE"}, loc.xlen, "x0")
    OBVIOUS
  <2> HIDE DEF c, prog
  <2>4. c.write /\ c.reg = "x0" /\ c.size = XLEN
    BY <2>3 DEF Ac
  <2>5. Trip(Still({}, 0, prog), RUN_AC_OR_DIE(c, prog, Words), Still({}, 0, <<>>))
    BY <2>1, <2>2, <2>4, TripExchange
  <2> QED BY <2>5 DEF c, prog
<1>4. Trip(p3, a4, p4)
  <2> DEFINE d == Still({}, 0, <<>>)
             n == Words
  <2>1. d.kind = "still" /\ n \in Nat
    BY KindsOf, Sizes
  <2> HIDE DEF d, n
  <2>2. Trip(d, ReadData(n), d)
    BY <2>1, PassReads
  <2> QED BY <2>2 DEF d, n
<1>5. Trip(p4, a5, p5)
  <2> DEFINE d == Still({}, 0, <<>>)
             h == loc.current_hart
  <2>1. d.kind = "still" /\ d.home = Both
    BY KindsOf
  <2> HIDE DEF d, h
  <2>2. Trip(d, resume(h), Free)
    BY <2>1, TripResume
  <2> QED BY <2>2 DEF d, h
<1> HIDE DEF p0, p1, p2, p3, p4, p5, a1, a2, a3, a4, a5
<1>6. Trip(p0, a1 \o a2, p2)
  BY <1>1, <1>2, TripJoin
<1>7. Trip(p0, a1 \o a2 \o a3, p3)
  BY <1>6, <1>3, TripJoin
<1>8. Trip(p0, a1 \o a2 \o a3 \o a4, p4)
  BY <1>7, <1>4, TripJoin
<1>9. Trip(p0, a1 \o a2 \o a3 \o a4 \o a5, p5)
  BY <1>8, <1>5, TripJoin
<1> QED BY <1>9 DEF p0, p5, a1, a2, a3, a4, a5, Swap, modify_csr

LEMMA TripFenced ==
  ASSUME NEW c, c.write, c.reg = "x0"
  PROVE  Trip(Still({}, 0, Fence), RUN_AC_OR_DIE(c, Fence, 0), Still({}, 2, Fence))
<1> DEFINE p0 == Still({}, 0, Fence)
           p1 == Still({}, 2, Fence)
           a1 == Progbuf(Fence)
           p2 == Still({}, 2, Fence)
           a2 == (IF c.write /\ c.transfer THEN WriteData(0) ELSE <<>>)
           p3 == Still({}, 2, Fence)
           a3 == write(Reg("COMMAND"), c)
           p4 == Still({}, 2, Fence)
           a4 == until(Reg("ABSTRACTCS"), "idle")
           p5 == Still({}, 2, Fence)
           a5 == (IF ~ c.write /\ c.transfer THEN ReadData(0) ELSE <<>>)
           p6 == Still({}, 2, Fence)
           a6 == local("check", 0)
<1>1. Trip(p0, a1, p1)
  <2> DEFINE k == {}
             prog == Fence
             a == FENCE_I
             b == EBREAK
             S == {a, b}
  <2>0. prog = <<a, b>>
    BY DEF Fence
  <2>1. a \in S /\ b \in S
    OBVIOUS
  <2> HIDE DEF k, prog, a, b, S
  <2>2. prog \in Seq(S) /\ Len(prog) = 2
    BY <2>0, <2>1
  <2>3. Trip(Still(k, 0, prog), Progbuf(prog), Still(k, Len(prog), prog))
    BY <2>2, TripProgbuf
  <2> QED BY <2>2, <2>3 DEF k, prog
<1>2. Trip(p1, a2, p2)
  <2> DEFINE d == Still({}, 2, Fence)
             n == 0
  <2>1. d.kind = "still" /\ n \in Nat
    BY KindsOf
  <2> HIDE DEF d, n
  <2>2. Trip(d, WriteData(n), d)
    BY <2>1, PassWords
  <2>3. Trip(d, <<>>, d)
    BY TripNone
  <2> QED BY <2>2, <2>3 DEF d, n
<1>3. Trip(p2, a3, p3)
  <2> DEFINE k == {}
  <2> HIDE DEF k
  <2>1. Trip(Still(k, 2, Fence), write(Reg("COMMAND"), c), Still(k, 2, Fence))
    BY FenceRuns
  <2> QED BY <2>1 DEF k
<1>4. Trip(p3, a4, p4)
  BY PassIdle, KindsOf
<1>5. Trip(p4, a5, p5)
  BY TripNone
<1>6. Trip(p5, a6, p6)
  BY PassCheck
<1> HIDE DEF p0, p1, p2, p3, p4, p5, p6, a1, a2, a3, a4, a5, a6
<1>7. Trip(p0, a1 \o a2, p2)
  BY <1>1, <1>2, TripJoin
<1>8. Trip(p0, a1 \o a2 \o a3, p3)
  BY <1>7, <1>3, TripJoin
<1>9. Trip(p0, a1 \o a2 \o a3 \o a4, p4)
  BY <1>8, <1>4, TripJoin
<1>10. Trip(p0, a1 \o a2 \o a3 \o a4 \o a5, p5)
  BY <1>9, <1>5, TripJoin
<1>11. Trip(p0, a1 \o a2 \o a3 \o a4 \o a5 \o a6, p6)
  BY <1>10, <1>6, TripJoin
<1> QED BY <1>11 DEF p0, p6, a1, a2, a3, a4, a5, a6, RUN_AC_OR_DIE, run_abstract_command

LEMMA TripFence ==
  Trip(Free, fence_i, Free)
<1> DEFINE p0 == Free
           p1 == Still({}, 0, Fence)
           a1 == halt(loc.current_hart)
           p2 == Still({}, 2, Fence)
           a2 == RUN_AC_OR_DIE(Ac({"POSTEXEC", "TRANSFER", "WRITE"}, loc.xlen, "x0"), Fence, 0)
           p3 == Free
           a3 == resume(loc.current_hart)
<1>1. Trip(p0, a1, p1)
  <2> DEFINE prog == Fence
             h == loc.current_hart
  <2> HIDE DEF prog, h
  <2>1. Trip(Free, halt(h), Still({}, 0, prog))
    BY TripHalt
  <2> QED BY <2>1 DEF prog, h
<1>2. Trip(p1, a2, p2)
  <2> DEFINE c == Ac({"POSTEXEC", "TRANSFER", "WRITE"}, loc.xlen, "x0")
  <2>3. c = Ac({"POSTEXEC", "TRANSFER", "WRITE"}, loc.xlen, "x0")
    OBVIOUS
  <2> HIDE DEF c
  <2>4. c.write /\ c.reg = "x0"
    BY <2>3 DEF Ac
  <2>5. Trip(Still({}, 0, Fence), RUN_AC_OR_DIE(c, Fence, 0), Still({}, 2, Fence))
    BY <2>4, TripFenced
  <2> QED BY <2>5 DEF c
<1>3. Trip(p2, a3, p3)
  <2> DEFINE d == Still({}, 2, Fence)
             h == loc.current_hart
  <2>1. d.kind = "still" /\ d.home = Both
    BY KindsOf
  <2> HIDE DEF d, h
  <2>2. Trip(d, resume(h), Free)
    BY <2>1, TripResume
  <2> QED BY <2>2 DEF d, h
<1> HIDE DEF p0, p1, p2, p3, a1, a2, a3
<1>4. Trip(p0, a1 \o a2, p2)
  BY <1>1, <1>2, TripJoin
<1>5. Trip(p0, a1 \o a2 \o a3, p3)
  BY <1>4, <1>3, TripJoin
<1> QED BY <1>5 DEF p0, p3, a1, a2, a3, Fence, fence_i

LEMMA TripTry ==
  ASSUME NEW d, d.kind = "still", NEW n
  PROVE  Trip(d, TrySize(n), d)
<1> DEFINE p0 == d
           p1 == d
           a1 == run_abstract_command(Ac({"TRANSFER"}, n, "s0"), <<>>, 0)
           p2 == d
           a2 == local("size", n)
<1>1. Trip(p0, a1, p1)
  <2> DEFINE c == Ac({"TRANSFER"}, n, "s0")
             b0 == Progbuf(<<>>)
             b1 == IF c.write /\ c.transfer THEN WriteData(0) ELSE <<>>
             b2 == write(Reg("COMMAND"), c)
             b3 == until(Reg("ABSTRACTCS"), "idle")
             b4 == IF ~ c.write /\ c.transfer THEN ReadData(0) ELSE <<>>
  <2>0. c = Ac({"TRANSFER"}, n, "s0")
    OBVIOUS
  <2>1. run_abstract_command(c, <<>>, 0) = b0 \o b1 \o b2 \o b3 \o b4
    BY DEF run_abstract_command
  <2> HIDE DEF c
  <2>2. ~ c.write /\ ~ c.postexec
    BY <2>0 DEF Ac
  <2>3. Trip(d, b0, d)
    BY NoProgbuf, TripNone
  <2>4. Trip(d, b1, d)
    BY <2>2, TripNone
  <2>5. Trip(d, b2, d)
    BY <2>2, StillCommand
  <2>6. Trip(d, b3, d)
    BY PassIdle
  <2>7. Trip(d, b4, d)
    <3> DEFINE z == 0
    <3>1. z \in Nat
      OBVIOUS
    <3> HIDE DEF z
    <3>2. Trip(d, ReadData(z), d)
      BY <3>1, PassReads
    <3>3. Trip(d, <<>>, d)
      BY TripNone
    <3> QED BY <3>2, <3>3 DEF z
  <2> HIDE DEF b0, b1, b2, b3, b4
  <2>8. Trip(d, b0 \o b1, d)
    BY <2>3, <2>4, TripJoin
  <2>9. Trip(d, b0 \o b1 \o b2, d)
    BY <2>5, <2>8, TripJoin
  <2>10. Trip(d, b0 \o b1 \o b2 \o b3, d)
    BY <2>6, <2>9, TripJoin
  <2>11. Trip(d, b0 \o b1 \o b2 \o b3 \o b4, d)
    BY <2>7, <2>10, TripJoin
  <2> QED BY <2>1, <2>11 DEF c
<1>2. Trip(p1, a2, p2)
  BY StillLocal
<1> HIDE DEF p0, p1, p2, a1, a2
<1>3. Trip(p0, a1 \o a2, p2)
  BY <1>1, <1>2, TripJoin
<1> QED BY <1>3 DEF p0, p2, a1, a2, TrySize

LEMMA TripSmaller ==
  ASSUME NEW d, d.kind = "still", NEW n
  PROVE  Trip(d, write(Reg("ABSTRACTCS"), "clear") \o TrySize(n), d)
<1> DEFINE p0 == d
           p1 == d
           a1 == write(Reg("ABSTRACTCS"), "clear")
           p2 == d
           a2 == TrySize(n)
<1>1. Trip(p0, a1, p1)
  BY PassDie DEF die
<1>2. Trip(p1, a2, p2)
  BY TripTry
<1> HIDE DEF p0, p1, p2, a1, a2
<1>3. Trip(p0, a1 \o a2, p2)
  BY <1>1, <1>2, TripJoin
<1> QED BY <1>3 DEF p0, p2, a1, a2

LEMMA TripHartOf ==
  ASSUME NEW h
  PROVE  Trip(Free, select_hart(h) \o read(Reg("DMSTATUS"), "dmstatus") \o local("exists", h), Free)
<1> DEFINE p0 == Free
           p1 == Free
           a1 == select_hart(h)
           p2 == Free
           a2 == read(Reg("DMSTATUS"), "dmstatus")
           p3 == Free
           a3 == local("exists", h)
<1>1. Trip(p0, a1, p1)
  BY TripSelect
<1>2. Trip(p1, a2, p2)
  BY PassRead, KindsOf
<1>3. Trip(p2, a3, p3)
  BY FreeLocal DEF Settled
<1> HIDE DEF p0, p1, p2, p3, a1, a2, a3
<1>4. Trip(p0, a1 \o a2, p2)
  BY <1>1, <1>2, TripJoin
<1>5. Trip(p0, a1 \o a2 \o a3, p3)
  BY <1>4, <1>3, TripJoin
<1> QED BY <1>5 DEF p0, p3, a1, a2, a3

LEMMA TripResetNext ==
  ASSUME NEW h
  PROVE  Trip(Free, select_hart(h) \o local("fence_i", 0) \o local("write_csr", 0) \o local("reset", h + 1),
         Free)
<1> DEFINE p0 == Free
           p1 == Free
           a1 == select_hart(h)
           p2 == Free
           a2 == local("fence_i", 0)
           p3 == Free
           a3 == local("write_csr", 0)
           p4 == Free
           a4 == local("reset", h + 1)
<1>1. Trip(p0, a1, p1)
  BY TripSelect
<1>2. Trip(p1, a2, p2)
  BY FreeLocal DEF Settled
<1>3. Trip(p2, a3, p3)
  BY FreeLocal DEF Settled
<1>4. Trip(p3, a4, p4)
  BY FreeLocal DEF Settled
<1> HIDE DEF p0, p1, p2, p3, p4, a1, a2, a3, a4
<1>5. Trip(p0, a1 \o a2, p2)
  BY <1>1, <1>2, TripJoin
<1>6. Trip(p0, a1 \o a2 \o a3, p3)
  BY <1>5, <1>3, TripJoin
<1>7. Trip(p0, a1 \o a2 \o a3 \o a4, p4)
  BY <1>6, <1>4, TripJoin
<1> QED BY <1>7 DEF p0, p4, a1, a2, a3, a4

LEMMA TripResetLast ==
  Trip(Free, select_hart(0) \o read(Reg("DMSTATUS"), "dmstatus"), Free)
<1> DEFINE p0 == Free
           p1 == Free
           a1 == select_hart(0)
           p2 == Free
           a2 == read(Reg("DMSTATUS"), "dmstatus")
<1>1. Trip(p0, a1, p1)
  <2> DEFINE z == 0
  <2> HIDE DEF z
  <2>1. Trip(Free, select_hart(z), Free)
    BY TripSelect
  <2> QED BY <2>1 DEF z
<1>2. Trip(p1, a2, p2)
  BY PassRead, KindsOf
<1> HIDE DEF p0, p1, p2, a1, a2
<1>3. Trip(p0, a1 \o a2, p2)
  BY <1>1, <1>2, TripJoin
<1> QED BY <1>3 DEF p0, p2, a1, a2

LEMMA TripReset == ASSUME NEW h PROVE Trip(Free, ResetHart(h), Free)
BY TripResetNext, TripResetLast DEF ResetHart

LEMMA TripBoot ==
  Trip(Free, Boot, Free)
<1> DEFINE p0 == Free
           p1 == Free
           a1 == write(Reg("DMCONTROL"), DMACTIVE)
           p2 == Free
           a2 == until(Reg("DMCONTROL"), "dmactive")
           p3 == Free
           a3 == read(Reg("ABSTRACTCS"), "abstractcs")
           p4 == Free
           a4 == read(Reg("HARTINFO"), "hartinfo")
           p5 == Free
           a5 == local("data_base", 0)
           p6 == Free
           a6 == enumerate_harts
           p7 == Still({}, 0, <<>>)
           a7 == halt(0)
           p8 == Still({}, 0, <<>>)
           a8 == get_xlen
           p9 == Free
           a9 == resume(0)
           p10 == Free
           a10 == local("running", 0)
<1>1. Trip(p0, a1, p1)
  BY FreeControl
<1>2. Trip(p1, a2, p2)
  BY FreeUntil DEF Ends
<1>3. Trip(p2, a3, p3)
  BY PassRead, KindsOf
<1>4. Trip(p3, a4, p4)
  BY PassRead, KindsOf
<1>5. Trip(p4, a5, p5)
  BY FreeLocal DEF Settled
<1>6. Trip(p5, a6, p6)
  BY TripHarts
<1>7. Trip(p6, a7, p7)
  <2> DEFINE z == 0
             prog == <<>>
  <2> HIDE DEF z, prog
  <2>1. Trip(Free, halt(z), Still({}, 0, prog))
    BY TripHalt
  <2> QED BY <2>1 DEF z, prog
<1>8. Trip(p7, a8, p8)
  <2> DEFINE d == Still({}, 0, <<>>)
             n == 128
  <2>1. d.kind = "still"
    BY KindsOf
  <2> HIDE DEF d, n
  <2>2. Trip(d, TrySize(n), d)
    BY <2>1, TripTry
  <2> QED BY <2>2 DEF d, n, get_xlen
<1>9. Trip(p8, a9, p9)
  <2> DEFINE d == Still({}, 0, <<>>)
             z == 0
  <2>1. d.kind = "still" /\ d.home = Both
    BY KindsOf
  <2> HIDE DEF d, z
  <2>2. Trip(d, resume(z), Free)
    BY <2>1, TripResume
  <2> QED BY <2>2 DEF d, z
<1>10. Trip(p9, a10, p10)
  BY FreeLocal DEF Settled
<1> HIDE DEF p0, p1, p2, p3, p4, p5, p6, p7, p8, p9, p10, a1, a2, a3, a4, a5, a6, a7, a8, a9, a10
<1>11. Trip(p0, a1 \o a2, p2)
  BY <1>1, <1>2, TripJoin
<1>12. Trip(p0, a1 \o a2 \o a3, p3)
  BY <1>11, <1>3, TripJoin
<1>13. Trip(p0, a1 \o a2 \o a3 \o a4, p4)
  BY <1>12, <1>4, TripJoin
<1>14. Trip(p0, a1 \o a2 \o a3 \o a4 \o a5, p5)
  BY <1>13, <1>5, TripJoin
<1>15. Trip(p0, a1 \o a2 \o a3 \o a4 \o a5 \o a6, p6)
  BY <1>14, <1>6, TripJoin
<1>16. Trip(p0, a1 \o a2 \o a3 \o a4 \o a5 \o a6 \o a7, p7)
  BY <1>15, <1>7, TripJoin
<1>17. Trip(p0, a1 \o a2 \o a3 \o a4 \o a5 \o a6 \o a7 \o a8, p8)
  BY <1>16, <1>8, TripJoin
<1>18. Trip(p0, a1 \o a2 \o a3 \o a4 \o a5 \o a6 \o a7 \o a8 \o a9, p9)
  BY <1>17, <1>9, TripJoin
<1>19. Trip(p0, a1 \o a2 \o a3 \o a4 \o a5 \o a6 \o a7 \o a8 \o a9 \o a10, p10)
  BY <1>18, <1>10, TripJoin
<1> QED BY <1>19 DEF p0, p10, a1, a2, a3, a4, a5, a6, a7, a8, a9, a10, Boot

----------------------------------------------------------------------------
(* The host computes.                                                      *)

\* An assertion about nothing, or about what the host keeps, has one form.
Proper(d) == (d.kind = "free" => d = Free) /\ (d.kind = "wild" => d = Wild)
LEMMA StaysProper == ASSUME NEW d, NEW e, NEW s, Carries(d, s, e), Proper(d) PROVE Proper(e)
<1>1. /\ Proper(Free) /\ Proper(Wild)
      /\ \A kept, n, prog : Proper(Still(kept, n, prog))
      /\ \A prog : Proper(Exchange(prog))
      /\ \A r, x : Proper(Load(r, x)) /\ Proper(Store(r, x))
      /\ \A r, x, n : Proper(Loaded(r, x, n)) /\ Proper(Placed(r, x, n))
  BY DEF Proper, Free, Wild, Still, Exchange, Load, Store, Loaded, Placed, Lent
<1> QED BY <1>1 DEF Carries

\* The host is on its way back to a state in which every hart has its own.
Returning == \E d : Where(d) /\ Proper(d) /\ Trip(d, todo, Free)

LEMMA BackByRest == ASSUME NEW e, Where(e)', Proper(e), Trip(e, Rest, Free), todo' = Rest PROVE Returning'
BY DEF Returning, Proper

LEMMA BackBySteps == ASSUME NEW d, NEW steps, Where(d)', Proper(d), Trip(d, steps, d), Trip(d, Rest, Free),
                            todo' = steps \o Rest
                     PROVE  Returning'
<1> DEFINE t == Rest
<1>1. Trip(d, t, Free) /\ todo' = steps \o t
  OBVIOUS
<1> HIDE DEF t
<1>2. Trip(d, steps \o t, Free)
  BY <1>1, TripJoin
<1> QED BY <1>1, <1>2 DEF Returning, Proper

\* The kinds at which there are computations that stand for steps.
LEMMA KindFor ==
  ASSUME NEW d, NEW e, NEW s, Carries(d, s, e)
  PROVE  /\ s.do \in {"enumerate", "exists", "reset", "fence_i", "write_csr"} => d.kind = "free"
         /\ s.do \in {"read_words", "auto_words"} => d.kind = "wild"
         /\ s.do = "size" => d.kind = "still"
BY DEF Carries, Passes, Reg, IdleAt, Settled, Bare, Commanded, Executed

\* A variable that has nothing to do with the registers.
LEMMA OtherVariable ==
  ASSUME Typed, UNCHANGED dvars, NEW d, Where(d), NEW v,
         NEW x \in {"running", "current_hart", "num_harts", "max_hart", "xlen", "data_base", "dmcontrol",
           "dst"},
         loc' = [loc EXCEPT ![x] = v]
  PROVE  Where(d)'
<1>1. loc'.s0 = loc.s0 /\ loc'.s1 = loc.s1 /\ loc'.data = loc.data
  BY DEF Typed, LocType
<1> QED BY <1>1, LocStill

\* The data of a command.
LEMMA DataSet ==
  ASSUME Typed, UNCHANGED dvars, NEW d, NEW e, NEW s, Where(d), Carries(d, s, e), s.do = "data", NEW v,
         loc' = [loc EXCEPT !["data"] = v]
  PROVE  Where(e)'
<1>1. loc'.s0 = loc.s0 /\ loc'.s1 = loc.s1
  BY DEF Typed, LocType
<1>2. OfOther(d, s, e)
  BY ByOther
<1>3. CASE e = d /\ d.kind \in {"still", "wild"}
  BY <1>1, <1>3, LocStill
<1>4. ASSUME NEW kept, NEW n, NEW prog, d = Still(kept, n, prog), kept = Both, e = Wild PROVE Where(e)'
  <2>1. d.kind = "still" /\ d.kept = Both /\ e.kind = "wild" /\ e.kept = Both
    BY <1>4 DEF Still, Wild, Lent
  <2>2. Where(d)'
    BY <1>1, <2>1, LocStill
  <2>3. PICK h : h = dm'.hartsel
    OBVIOUS
  <2>4. Held(h)' /\ Has(d, h)'
    BY <2>1, <2>2, <2>3 DEF Where
  <2>5. Has(e, h)'
    BY <2>1, <2>4 DEF Has
  <2> QED BY <2>1, <2>2, <2>3, <2>4, <2>5 DEF Where
<1> QED BY <1>2, <1>3, <1>4 DEF OfOther

\* A register is kept.
LEMMA KeepSet ==
  ASSUME Typed, UNCHANGED dvars, NEW d, NEW e, NEW s, Where(d), Carries(d, s, e), s.do = "keep",
         loc' = [loc EXCEPT ![s.val] = loc.data]
  PROVE  Where(e)'
<1>0. UNCHANGED <<dm, harts, mem, ppc, own>> /\ loc \in LocSet
  BY DEF dvars, Typed, LocType, LocSet
<1>1. OfOther(d, s, e)
  BY ByOther
<1>2. PICK r \in Both : \E kept : /\ d = Loaded(r, kept, Words) /\ s.val = r
                                  /\ e = Still(kept \cup {r}, 0, <<>>)
  BY <1>1 DEF OfOther
<1>3. PICK kept : d = Loaded(r, kept, Words) /\ e = Still(kept \cup {r}, 0, <<>>)
  BY <1>2
<1>4. /\ d.kind = "loaded" /\ d.home = Both /\ d.kept = kept /\ d.n = Words /\ d.reg = r
      /\ e.kind = "still" /\ e.home = Both /\ e.kept = kept \cup {r} /\ e.n = 0
  BY <1>3 DEF Loaded, Still, Lent
<1>5. PICK h : h = dm.hartsel
  OBVIOUS
<1>6. Held(h) /\ Has(d, h) /\ h \in Harts /\ dm.auto = 0
  BY <1>4, <1>5 DEF Where, Held
<1>7. /\ ~ dm.busy /\ Homed(h, Both) /\ \A x \in kept : Saved(x) = Own(h, x)
      /\ \A i \in 1 .. Words : loc.data[i] = Own(h, r)[i]
  BY <1>4, <1>6 DEF Has
<1>8. loc.data = Own(h, r)
  <2> DEFINE a == loc.data
             b == Own(h, r)
             S == 1 .. Words
  <2>1. a \in [S -> Int] /\ b \in [S -> Int]
    BY <1>0, <1>6 DEF LocSet, Typed, HartType, Val, Own
  <2>2. \A i \in S : a[i] = b[i]
    BY <1>7
  <2> HIDE DEF a, b, S
  <2>3. a = b
    BY <2>1, <2>2, SameFunction
  <2> QED BY <2>3 DEF a, b
<1>9. /\ r = "s0" => loc'.s0 = loc.data /\ loc'.s1 = loc.s1
      /\ r = "s1" => loc'.s1 = loc.data /\ loc'.s0 = loc.s0
  <2>1. loc' = [loc EXCEPT ![r] = loc.data]
    BY <1>2
  <2> QED BY <1>0, <2>1 DEF LocSet
<1>10. \A x \in kept \cup {r} : Saved(x)' = Own(h, x)'
  BY <1>0, <1>2, <1>7, <1>8, <1>9 DEF Saved, Own, Both
<1>11. \A g \in Harts : \A R : Homed(g, R) => Homed(g, R)'
  BY <1>0 DEF Homed, Own
<1>12. Has(e, h)'
  <2>1. \A k : k \notin 1 .. 0
    OBVIOUS
  <2> QED BY <1>0, <1>4, <1>6, <1>7, <1>10, <1>11, <2>1 DEF Has
<1> QED BY <1>0, <1>4, <1>5, <1>6, <1>11, <1>12 DEF Where, Held

\* And on its way back.
LEMMA RecallSet ==
  ASSUME Typed, UNCHANGED dvars, NEW d, NEW e, NEW s, Where(d), Carries(d, s, e), s.do = "recall",
         ~ dm.busy, dm.auto = 0, loc' = [loc EXCEPT !["data"] = loc[s.val]]
  PROVE  Where(e)'
<1>0. UNCHANGED <<dm, harts, mem, ppc, own>> /\ loc \in LocSet
  BY DEF dvars, Typed, LocType, LocSet
<1>1. OfOther(d, s, e)
  BY ByOther
<1>2. PICK r \in Both : \/ d = Wild /\ s.val = r /\ e = Placed(r, {}, 0)
                        \/ \E x, home, n : d = Placed(x, home, n) /\ s.val = r /\ e = Placed(r, home, 0)
  BY <1>1 DEF OfOther
<1>3. PICK home : /\ e = Placed(r, home, 0) /\ s.val = r
                  /\ \/ d = Wild /\ home = {}
                     \/ \E x, n : d = Placed(x, home, n)
  BY <1>2
<1>4. /\ d.kind # "free" /\ d.kept = Both
      /\ e.kind = "placed" /\ e.home = home /\ e.kept = Both /\ e.n = 0 /\ e.reg = r
      /\ (d.kind = "placed" /\ d.home = home) \/ home = {}
  BY <1>3 DEF Wild, Placed, Lent
<1>5. PICK h : h = dm.hartsel
  OBVIOUS
<1>6. Held(h) /\ Has(d, h) /\ h \in Harts
  BY <1>4, <1>5 DEF Where, Held
<1>7. Homed(h, home) /\ \A x \in Both : Saved(x) = Own(h, x)
  BY <1>4, <1>6 DEF Has, Homed
<1>8. loc'.data = Own(h, r) /\ loc'.s0 = loc.s0 /\ loc'.s1 = loc.s1
  <2>1. loc[r] = Saved(r)
    BY DEF Saved, Both
  <2>2. loc[r] = Own(h, r)
    BY <1>2, <1>7, <2>1
  <2> QED BY <1>0, <1>3, <2>2 DEF LocSet
<1>9. \A x : Own(h, x)' = Own(h, x) /\ Saved(x)' = Saved(x)
  BY <1>0, <1>8 DEF Own, Saved
<1>11. \A g \in Harts : \A R : Homed(g, R) => Homed(g, R)'
  BY <1>0 DEF Homed, Own
<1>12. Has(e, h)'
  <2>1. \A k : k \notin 1 .. 0
    OBVIOUS
  <2>2. Homed(h, home)'
    BY <1>6, <1>7, <1>11
  <2> QED BY <1>0, <1>4, <1>6, <1>7, <1>8, <1>9, <2>1, <2>2 DEF Has
<1> QED BY <1>0, <1>4, <1>5, <1>6, <1>11, <1>12 DEF Where, Held
\* The host goes on to compute.
LEMMA ComputedBack ==
  ASSUME Typed, NEW p \in Ctl, NEW q \in Ctl, At(p), Computes(p, Now, q), Compute,
         NEW d, NEW e, Where(d), Proper(d), Carries(d, Now, e), Trip(e, Rest, Free)
  PROVE  Returning'
<1> DEFINE s == Now
           arg == Now.val
<1>0. UNCHANGED dvars /\ Proper(e)
  BY StaysProper DEF Compute
<1>a. s.do \notin {"data", "keep", "recall"} => e = d
  <2>1. s.do \notin {"write", "write_word", "read", "until"}
    BY DEF Compute, IsRequest
  <2>2. OfOther(d, s, e)
    BY <2>1, ByOther
  <2> QED BY <2>2 DEF OfOther
<1>b. ASSUME NEW x \in {"running", "current_hart", "num_harts", "max_hart", "xlen", "data_base", "dmcontrol",
             "dst"},
             NEW v, loc' = [loc EXCEPT ![x] = v], todo' = Rest, e = d
      PROVE  Returning'
  <2>1. Where(d)'
    BY <1>0, <1>b, OtherVariable
  <2> QED BY <1>0, <1>b, <2>1, BackByRest
<1>c. ASSUME NEW steps, Trip(d, steps, d), UNCHANGED loc, todo' = steps \o Rest, e = d
      PROVE  Returning'
  <2>1. Where(d)'
    BY <1>0, <1>c, LocStill
  <2> QED BY <1>c, <2>1, BackBySteps
<1>1. CASE s.do = "data"
  <2>1. loc' = [loc EXCEPT !["data"] = arg] /\ todo' = Rest
    BY <1>1 DEF Compute, Assign
  <2>2. Where(e)'
    BY <1>0, <1>1, <2>1, DataSet
  <2> QED BY <1>0, <2>1, <2>2, BackByRest
<1>2. CASE s.do = "keep"
  <2>1. loc' = [loc EXCEPT ![s.val] = loc.data] /\ todo' = Rest
    BY <1>2 DEF Compute, Assign
  <2>2. Where(e)'
    BY <1>0, <1>2, <2>1, KeepSet
  <2> QED BY <1>0, <2>1, <2>2, BackByRest
<1>3. CASE s.do = "recall"
  <2>1. loc' = [loc EXCEPT !["data"] = loc[s.val]] /\ todo' = Rest
    BY <1>3 DEF Compute, Assign
  <2>2. ~ dm.busy /\ dm.auto = 0
    BY <1>3 DEF Computes, At, Module, KnownOfModule
  <2>3. Where(e)'
    BY <1>0, <1>3, <2>1, <2>2, RecallSet
  <2> QED BY <1>0, <2>1, <2>3, BackByRest
<1>4. CASE s.do \in {"hartsel", "current_hart", "memcpy", "data_base", "max_hart", "running"}
  <2>1. CASE s.do = "hartsel"
    <3>1. loc' = [loc EXCEPT !["dmcontrol"] = [loc.dmcontrol EXCEPT !.hartsel = arg]] /\ todo' = Rest
      BY <2>1 DEF Compute, Assign
    <3> QED BY <1>a, <1>b, <2>1, <3>1
  <2>2. CASE s.do = "current_hart"
    <3>1. loc' = [loc EXCEPT !["current_hart"] = arg] /\ todo' = Rest
      BY <2>2 DEF Compute, Assign
    <3> QED BY <1>a, <1>b, <2>2, <3>1
  <2>3. CASE s.do = "memcpy"
    <3>1. loc' = [loc EXCEPT !["dst"] = Append(loc.dst, loc.data)] /\ todo' = Rest
      BY <2>3 DEF Compute, Assign
    <3> QED BY <1>a, <1>b, <2>3, <3>1
  <2>4. CASE s.do = "data_base"
    <3>1. loc' = [loc EXCEPT !["data_base"] = loc.hartinfo.dataaddr] /\ todo' = Rest
      BY <2>4 DEF Compute, Assign
    <3> QED BY <1>a, <1>b, <2>4, <3>1
  <2>5. CASE s.do = "max_hart"
    <3>1. loc' = [loc EXCEPT !["max_hart"] = loc.dmcontrol.hartsel] /\ todo' = Rest
      BY <2>5 DEF Compute, Assign
    <3> QED BY <1>a, <1>b, <2>5, <3>1
  <2>6. CASE s.do = "running"
    <3>1. loc' = [loc EXCEPT !["running"] = TRUE] /\ todo' = Rest
      BY <2>6 DEF Compute, Assign
    <3> QED BY <1>a, <1>b, <2>6, <3>1
  <2> QED BY <1>4, <2>1, <2>2, <2>3, <2>4, <2>5, <2>6
<1>5. CASE s.do \in {"enumerate", "exists"}
  <2>1. d = Free /\ e = d
    BY <1>5, <1>a, KindFor DEF Proper
  <2>2. CASE loc' = [loc EXCEPT !["num_harts"] = arg] /\ todo' = Rest
    BY <1>b, <2>1, <2>2
  <2>3. CASE UNCHANGED loc /\ todo' = (select_hart(arg) \o read(Reg("DMSTATUS"), "dmstatus")
             \o local("exists", arg)) \o Rest
    <3> DEFINE h == arg
    <3>1. h = arg
      OBVIOUS
    <3> HIDE DEF h
    <3> DEFINE steps == select_hart(h) \o read(Reg("DMSTATUS"), "dmstatus") \o local("exists", h)
    <3>2. Trip(Free, steps, Free)
      BY TripHartOf
    <3>3. todo' = steps \o Rest
      BY <2>3, <3>1
    <3> HIDE DEF steps
    <3> QED BY <1>c, <2>1, <2>3, <3>2, <3>3
  <2>4. CASE UNCHANGED loc /\ todo' = local("enumerate", arg + 1) \o Rest
    <3> DEFINE h == arg + 1
               steps == local("enumerate", h)
    <3>1. todo' = steps \o Rest
      BY <2>4
    <3> HIDE DEF h
    <3>2. Trip(Free, steps, Free)
      BY FreeLocal DEF Settled
    <3> HIDE DEF steps
    <3> QED BY <1>c, <2>1, <2>4, <3>1, <3>2
  <2>5. CASE s.do = "enumerate"
    <3>1. Enumerate(arg)
      BY <2>5 DEF Compute
    <3> QED BY <2>2, <2>3, <3>1 DEF Enumerate, Assign, Replace
  <2>6. CASE s.do = "exists"
    <3>1. CASE loc.dmstatus.nonexistent
      BY <2>2, <2>6, <3>1 DEF Compute, Assign
    <3>2. CASE ~ loc.dmstatus.nonexistent
      BY <2>4, <2>6, <3>2 DEF Compute, Replace
    <3> QED BY <3>1, <3>2
  <2> QED BY <1>5, <2>5, <2>6
<1>6. CASE s.do = "size"
  <2>1. d.kind = "still" /\ e = d
    BY <1>6, <1>a, KindFor
  <2>2. CASE CMDERR = 0
    <3>1. loc' = [loc EXCEPT !["xlen"] = arg] /\ todo' = Rest
      BY <1>6, <2>2 DEF Compute, Assign
    <3> QED BY <1>b, <2>1, <3>1
  <2>3. CASE CMDERR # 0
    <3> DEFINE n == arg \div 2
               steps == write(Reg("ABSTRACTCS"), "clear") \o TrySize(n)
    <3>1. todo' = steps \o Rest /\ UNCHANGED loc
      BY <1>6, <2>3 DEF Compute, Replace
    <3> HIDE DEF n
    <3>2. Trip(d, steps, d)
      BY <2>1, TripSmaller
    <3> HIDE DEF steps
    <3> QED BY <1>c, <2>1, <3>1, <3>2
  <2> QED BY <2>2, <2>3
<1>7. CASE s.do = "check"
  <2> DEFINE steps == IF CMDERR = 0 THEN <<>> ELSE die
  <2>1. todo' = steps \o Rest /\ UNCHANGED loc
    BY <1>7 DEF Compute, Replace
  <2>2. Trip(d, steps, d)
    BY TripNone, PassDie
  <2> HIDE DEF steps
  <2> QED BY <1>7, <1>a, <1>c, <2>1, <2>2
<1>8. CASE s.do \in {"read_words", "auto_words"}
  <2>1. d = Wild /\ e = d
    BY <1>8, <1>a, KindFor DEF Proper
  <2>2. CASE s.do = "read_words"
    <3> DEFINE i == arg[1]
               n == arg[2]
               steps == ReadWords(i, n)
    <3>1. todo' = steps \o Rest /\ UNCHANGED loc
      BY <2>2 DEF Compute, Replace
    <3> HIDE DEF i, n
    <3>2. Trip(d, steps, d)
      BY <2>1, TripReads
    <3> HIDE DEF steps
    <3> QED BY <1>c, <2>1, <3>1, <3>2
  <2>3. CASE s.do = "auto_words"
    <3> DEFINE w == arg
               steps == NextWords(w)
    <3>1. todo' = steps \o Rest /\ UNCHANGED loc
      BY <2>3 DEF Compute, Replace
    <3> HIDE DEF w
    <3>2. Trip(d, steps, d)
      BY <2>1, TripNext
    <3> HIDE DEF steps
    <3> QED BY <1>c, <2>1, <3>1, <3>2
  <2> QED BY <1>8, <2>2, <2>3
<1>9. CASE s.do \in {"reset", "fence_i", "write_csr"}
  <2>1. d = Free /\ e = d
    BY <1>9, <1>a, KindFor DEF Proper
  <2>2. CASE s.do = "reset"
    <3> DEFINE h == arg
               steps == ResetHart(h)
    <3>1. todo' = steps \o Rest /\ UNCHANGED loc
      BY <2>2 DEF Compute, Replace
    <3> HIDE DEF h
    <3>2. Trip(Free, steps, Free)
      BY TripReset
    <3> HIDE DEF steps
    <3> QED BY <1>c, <2>1, <3>1, <3>2
  <2>3. CASE s.do = "fence_i"
    <3> DEFINE steps == fence_i
    <3>1. todo' = steps \o Rest /\ UNCHANGED loc
      BY <2>3 DEF Compute, Replace
    <3>2. Trip(Free, steps, Free)
      BY TripFence
    <3> HIDE DEF steps
    <3> QED BY <1>c, <2>1, <3>1, <3>2
  <2>4. CASE s.do = "write_csr"
    <3> DEFINE w == "dpc"
               t == "csrrw"
               v == Long(Entry)
               steps == modify_csr(w, v, t)
    <3>1. todo' = steps \o Rest /\ UNCHANGED loc
      BY <2>4 DEF Compute, Replace
    <3>2. w \in {"dpc", "mscratch"} /\ t \in CsrOps
      BY DEF CsrOps
    <3>3. loc.xlen = XLEN /\ loc.data_base = DataAddr
      <4>1. Quiet(p)
        BY <2>4 DEF Computes
      <4>2. "xlen" \in p.know /\ "base" \in p.know
        BY <4>1 DEF Quiet, Ready
      <4> QED BY <4>2 DEF At, KnownOfHost
    <3> HIDE DEF w, t, v
    <3>4. Trip(Free, steps, Free)
      BY <3>2, <3>3, TripModify
    <3> HIDE DEF steps
    <3> QED BY <1>c, <2>1, <3>1, <3>4
  <2> QED BY <1>9, <2>2, <2>3, <2>4
<1> QED BY <1>1, <1>2, <1>3, <1>4, <1>5, <1>6, <1>7, <1>8, <1>9 DEF Computes

\* It calls for the next operation.
LEMMA CalledBack ==
  ASSUME Typed, NEW r \in Ctl, Home(r), At(r), Where(Free), Call
  PROVE  Returning'
<1>0. UNCHANGED dvars
  BY DEF Call
<1>1. loc.xlen = XLEN /\ loc.data_base = DataAddr
  <2>1. "xlen" \in r.know /\ "base" \in r.know
    BY DEF Home, Quiet, Ready
  <2> QED BY <2>1 DEF At, KnownOfHost
<1>2. Proper(Free)
  BY DEF Proper, Free, Wild, Lent
<1>a. ASSUME NEW o, NEW steps, Begin(o, steps), Trip(Free, steps, Free) PROVE Returning'
  <2>1. loc' = [loc EXCEPT !["dst"] = <<>>] /\ todo' = steps
    BY <1>a DEF Begin
  <2> DEFINE none == <<>>
  <2>2. loc' = [loc EXCEPT !["dst"] = none]
    BY <2>1
  <2> HIDE DEF none
  <2>3. Where(Free)'
    BY <1>0, <2>2, OtherVariable
  <2> QED BY <1>2, <1>a, <2>1, <2>3 DEF Returning, Proper
<1>b. CASE CallPort
  <2>1. PICK a \in Starts, n \in 1 .. MaxWords :
          \/ \E o : Begin(o, read_chunk(a, n))
          \/ \E o : Begin(o, clear_chunk(a, n))
          \/ \E src \in [1 .. n -> Values] : \E o : Begin(o, write_chunk(a, src))
    BY <1>b DEF CallPort
  <2>2. /\ Trip(Free, read_chunk(a, n), Free) /\ Trip(Free, clear_chunk(a, n), Free)
        /\ \A src : Trip(Free, write_chunk(a, src), Free)
    BY <1>1, TripReadChunk, TripClearChunk, TripWriteChunk
  <2> QED BY <1>a, <2>1, <2>2
<1>c. CASE CallCsr
  <2>1. PICK w \in Csrs, v \in Values, o \in CsrOps : \E x : Begin(x, modify_csr(w, v, o))
    BY <1>c DEF CallCsr, CsrOps
  <2>2. w \in {"dpc", "mscratch"}
    BY DtmAssumption
  <2>3. Trip(Free, modify_csr(w, v, o), Free)
    BY <1>1, <2>2, TripModify
  <2> QED BY <1>a, <2>1, <2>3
<1>d. CASE CallReset
  <2> DEFINE z == 0
  <2>1. PICK x : Begin(x, local("reset", z))
    BY <1>d DEF CallReset
  <2> HIDE DEF z
  <2>2. Trip(Free, local("reset", z), Free)
    BY FreeLocal DEF Settled
  <2> QED BY <1>a, <2>1, <2>2
<1>e. CASE Idle
  <2> DEFINE steps == nop
  <2>1. todo' = steps /\ UNCHANGED loc
    BY <1>e DEF Idle
  <2>2. Trip(Free, steps, Free)
    BY PassNop
  <2>3. Where(Free)'
    BY <1>0, <2>1, LocStill
  <2> HIDE DEF steps
  <2> QED BY <1>2, <2>1, <2>2, <2>3 DEF Returning, Proper
<1> QED BY <1>b, <1>c, <1>d, <1>e DEF Call
----------------------------------------------------------------------------
(* What is lent is given back.                                             *)

\* While a request is on its way, both the assertion before it and the one after it are
\* known, and how far it is says which of them holds.
Lending(d, s, e) == \/ control = "target" /\ Resting /\ Where(d)
                    \/ control = "target" /\ resp_wait /\ wire = "executed" /\ Replied(d, s, e)
                    \/ Hosting /\ Resting /\ Replied(d, s, e)
Passage(d, e) == Proper(d) /\ Trip(d, todo, Free) /\ Carries(d, Now, e) /\ Trip(e, Rest, Free)
Underway == \E s : \E d, e : s = Now /\ Passage(d, e) /\ Lending(d, s, e)
LentInv == IF in_command THEN Underway ELSE Returning

LEMMA Shorter == ASSUME NEW d, NEW e, Trip(d, todo, e), todo # <<>> PROVE todo # Rest
<1>1. PICK S : todo \in Seq(S)
  BY DEF Trip
<1>2. Len(Rest) = Len(todo) - 1 /\ Len(todo) \in Nat
  BY <1>1 DEF Rest
<1> QED BY <1>2

LEMMA SameReply == ASSUME NEW d, NEW e, NEW s, Replied(d, s, e), UNCHANGED <<dvars, loc, resp_buf>>
                   PROVE  Replied(d, s, e)'
<1>1. UNCHANGED <<dm, harts, mem, ppc, own>>
  BY DEF dvars
<1>2. (Where(d) => Where(d)') /\ (Where(e) => Where(e)')
  BY LocStill
<1>3. Heard(d, s) => Heard(d, s)'
  BY <1>1 DEF Heard
<1> QED BY <1>2, <1>3 DEF Replied

LEMMA InitLent == ASSUME Init PROVE LentInv
<1>1. DmInit /\ todo = Boot /\ ~ in_command
  BY DEF Init
<1>2. Where(Free)
  <2> DEFINE a == Long(0)
             b == Long(1)
             c == Long(2)
  <2>1. /\ harts = [h \in Harts |->
                       [halted |-> FALSE, resume |-> FALSE, ack |-> FALSE, pc |-> a,
                        reg |-> [s0 |-> b, s1 |-> c, x0 |-> a],
                        csr |-> [dpc |-> a, dscratch0 |-> a, mscratch |-> b]]]
        /\ own = [h \in Harts |-> [s0 |-> b, s1 |-> c]]
        /\ ~ dm.busy /\ dm.auto = 0
    BY <1>1 DEF DmInit
  <2> HIDE DEF a, b, c
  <2>2. \A g \in Harts : /\ harts[g].reg["x0"] = a /\ harts[g].reg["s0"] = b /\ harts[g].reg["s1"] = c
                         /\ own[g].s0 = b /\ own[g].s1 = c
    BY <2>1
  <2>3. \A g \in Harts : Homed(g, Both)
    BY <2>2 DEF Homed, Both, Own
  <2> QED BY <2>1, <2>2, <2>3 DEF Where, Free, Lent, a
<1>3. Proper(Free)
  BY DEF Proper, Free, Wild, Lent
<1>4. Trip(Free, todo, Free)
  BY <1>1, TripBoot
<1> QED BY <1>1, <1>2, <1>3, <1>4 DEF LentInv, Returning

LEMMA NextLent == ASSUME FlowInv, LentInv, [Next]_vars PROVE LentInv'
<1>0. Typed
  BY DEF FlowInv
<1>1. PICK r \in Ctl : Home(r) /\ Flow(r)
  BY DEF FlowInv
\* The host goes on.
<1>2. CASE ~ in_command
  <2>1. Hosting /\ Resting /\ Ahead(r)
    BY <1>1, <1>2 DEF Flow, Thinking, Waiting
  <2>2. PICK p \in Ctl : At(p) /\ Legal(p) /\ Plan(p, todo, r)
    BY <2>1 DEF Ahead
  <2>3. PICK d : Where(d) /\ Proper(d) /\ Trip(d, todo, Free)
    BY <1>2 DEF LentInv, Returning
  <2>4. CASE do_command
    <3>1. todo # <<>> /\ in_command' = TRUE /\ control' = "target"
      BY <2>4 DEF do_command
    <3>2. UNCHANGED <<dvars, todo, loc, resp_wait, wire>>
      BY <2>4 DEF do_command
    <3>3. PICK e : Carries(d, Now, e) /\ Trip(e, Rest, Free)
      BY <2>3, <3>1, TripFirst DEF Now, Rest
    <3>4. PICK x : x = Now
      OBVIOUS
    <3>5. x = Now' /\ Passage(d, e)'
      BY <2>3, <3>2, <3>3, <3>4 DEF Now, Rest, Passage, Proper
    <3>6. Where(d)'
      BY <2>3, <3>2, LocStill
    <3>7. Lending(d, x, e)'
      BY <2>1, <3>1, <3>2, <3>6 DEF Lending, Resting
    <3> QED BY <3>1, <3>5, <3>7 DEF LentInv, Underway
  <2>5. CASE Compute
    <3>1. todo # <<>> /\ in_command' = in_command /\ ~ IsRequest(Now)
      BY <2>5 DEF Compute
    <3>2. PICK q \in Ctl : Leads(p, Now, q) /\ Plan(q, Rest, r)
      BY <2>2, <3>1, PlanFirst DEF Now, Rest
    <3>3. Computes(p, Now, q)
      BY <3>1, <3>2 DEF Leads, IsRequest, Writes, WritesWord, Reads, Awaits
    <3>4. PICK e : Carries(d, Now, e) /\ Trip(e, Rest, Free)
      BY <2>3, <3>1, TripFirst DEF Now, Rest
    <3>5. Returning'
      BY <1>0, <2>2, <2>3, <2>5, <3>3, <3>4, ComputedBack
    <3> QED BY <1>2, <3>1, <3>5 DEF LentInv
  <2>6. CASE Call
    <3>1. todo = <<>> /\ in_command' = in_command
      BY <2>6 DEF Call
    <3>2. p = r /\ d = Free
      BY <2>2, <2>3, <3>1, PlanFirst, TripFirst
    <3>3. Returning'
      BY <1>0, <1>1, <2>2, <2>3, <2>6, <3>2, CalledBack
    <3> QED BY <1>2, <3>1, <3>3 DEF LentInv
  <2>7. CASE UNCHANGED vars
    <3>1. UNCHANGED <<dvars, loc, todo, in_command>>
      BY <2>7 DEF vars, hvars
    <3>2. Where(d)'
      BY <2>3, <3>1, LocStill
    <3> QED BY <1>2, <2>3, <3>1, <3>2 DEF LentInv, Returning, Proper
  <2> QED BY <1>2, <2>1, <2>4, <2>5, <2>6, <2>7
             DEF Next, HostStep, Receive, TargetStep, TickShow, TickAccept, TickRespond,
                 ReturnResp, HardwareStep, ProgramStep, Targeting, Hosting
\* Its request is on its way.
<1>3. CASE in_command
  <2>1. Waiting(r)
    BY <1>1, <1>3 DEF Flow, Thinking
  <2>2. PICK y : \E p \in Ctl, q \in Ctl : y = Now /\ Route(p, q, r) /\ Pending(p, y, q)
    BY <2>1 DEF Waiting
  <2>3. PICK p \in Ctl, q \in Ctl : y = Now /\ Route(p, q, r) /\ Pending(p, y, q)
    BY <2>2
  <2>4. PICK s : \E d, e : s = Now /\ Passage(d, e) /\ Lending(d, s, e)
    BY <1>3 DEF LentInv, Underway
  <2>5. PICK d, e : s = Now /\ Passage(d, e) /\ Lending(d, s, e)
    BY <2>4
  <2>6. /\ Leads(p, Now, q) /\ Leads(p, s, q) /\ Pending(p, s, q) /\ IsRequest(Now) /\ IsRequest(s)
             /\ todo # <<>>
    BY <2>1, <2>3, <2>5 DEF Waiting, Route
  <2>7. /\ Proper(d) /\ Trip(d, todo, Free) /\ Carries(d, Now, e) /\ Carries(d, s, e) /\ Trip(e, Rest, Free)
    BY <2>5 DEF Passage
  <2>a. ASSUME UNCHANGED <<todo, in_command>>, Lending(d, s, e)' PROVE LentInv'
    <3>1. Passage(d, e)' /\ s = Now'
      BY <2>5, <2>a DEF Passage, Now, Rest, Proper
    <3> QED BY <1>3, <2>a, <3>1 DEF LentInv, Underway
  <2>b. CASE Receive
    <3>1. Hosting /\ Answered(p, Now, q) /\ Replied(d, Now, e) /\ in_command' = FALSE
      BY <2>b, <2>5, <2>6 DEF Receive, Hosting, Pending, Lending
    <3>2. todo # Rest
      BY <2>6, <2>7, Shorter
    <3>3. IF todo' = todo THEN At(p)' /\ Where(d)' ELSE todo' = Rest /\ At(q)' /\ Where(e)'
      BY <1>0, <2>6, <2>7, <2>b, <3>1, <3>2, ReceivedCarries
    <3>4. Proper(e)
      BY <2>7, StaysProper
    <3>5. Returning'
      BY <2>7, <3>3, <3>4 DEF Returning, Proper
    <3> QED BY <3>1, <3>5 DEF LentInv
  <2>8. CASE TickShow
    <3>1. UNCHANGED <<dvars, loc, todo, in_command, control, resp_wait, wire>> /\ control = "target"
          /\ ~ resp_wait
      BY <2>8 DEF TickShow, Targeting
    <3>2. Where(d)
      BY <2>5, <3>1 DEF Lending, Hosting
    <3>3. Where(d)' /\ Resting
      BY <2>5, <3>1, <3>2, LocStill DEF Lending, Hosting
    <3>4. Lending(d, s, e)'
      BY <3>1, <3>3 DEF Lending, Resting
    <3> QED BY <2>a, <3>1, <3>4
  <2>9. CASE TickAccept
    <3>1. UNCHANGED <<loc, todo, in_command, control>> /\ control = "target" /\ ~ resp_wait
      BY <2>9 DEF TickAccept, Targeting
    <3>2. At(p) /\ Asking(s) /\ Where(d)
      BY <2>5, <2>6, <3>1 DEF Pending, Lending, Hosting
    <3>3. Replied(d, s, e)'
      BY <1>0, <2>6, <2>7, <2>9, <3>1, <3>2, AccessCarries DEF TickAccept
    <3>4. Lending(d, s, e)'
      BY <2>9, <3>1, <3>3 DEF TickAccept, Lending
    <3> QED BY <2>a, <3>1, <3>4
  <2>10. CASE ReturnResp
    <3>1. UNCHANGED <<loc, todo, in_command, resp_wait, wire>> /\ control = "target" /\ wire = "call"
          /\ control' = "host"
      BY <2>10 DEF ReturnResp, ByTick
    <3>2. At(p) /\ Asking(s) /\ Resting /\ Where(d)
      BY <2>5, <2>6, <3>1 DEF Pending, Lending, Hosting
    <3>3. Replied(d, s, e)'
      BY <1>0, <2>6, <2>7, <2>10, <3>1, <3>2, AccessCarries DEF ReturnResp
    <3>4. Lending(d, s, e)'
      BY <3>1, <3>2, <3>3 DEF Lending, Hosting, Resting
    <3> QED BY <2>a, <3>1, <3>4
  <2>11. CASE TickRespond
    <3>1. /\ UNCHANGED <<dvars, loc, todo, in_command, resp_buf>> /\ control = "target" /\ wire = "executed"
          /\ ~ resp_wait' /\ wire' = "none" /\ control' = "host"
      BY <2>11 DEF TickRespond, Targeting
    <3>2. Replied(d, s, e)
      BY <2>5, <3>1 DEF Lending, Hosting, Resting
    <3>3. Replied(d, s, e)'
      BY <3>1, <3>2, SameReply
    <3>4. Lending(d, s, e)'
      BY <3>1, <3>3 DEF Lending, Hosting, Resting
    <3> QED BY <2>a, <3>1, <3>4
\* The harts and the module's hardware advance.
  <2>12. CASE HardwareStep \/ ProgramStep
    <3>1. UNCHANGED <<loc, todo, in_command, control, req_buf, resp_wait, wire, resp_buf>> /\ control = "target"
      BY <2>12 DEF HardwareStep, ProgramStep, hvars
    <3>2. Hardware \/ \E h \in Harts : Run(h)
      BY <2>12 DEF HardwareStep, ProgramStep
    <3>3. CASE Resting
      <4>1. At(p) /\ Where(d)
        BY <2>5, <2>6, <3>1, <3>3 DEF Pending, Lending, Hosting, Resting
      <4>2. Where(d)'
        BY <1>0, <3>1, <3>2, <4>1, HardwareCarries
      <4>3. Lending(d, s, e)'
        BY <3>1, <3>3, <4>2 DEF Lending, Resting
      <4> QED BY <2>a, <3>1, <4>3
    <3>4. CASE ~ Resting
      <4>1. resp_wait /\ wire = "executed" /\ Answered(p, s, q) /\ Replied(d, s, e)
        BY <2>5, <2>6, <3>1, <3>4 DEF Pending, Lending, Hosting, Resting
      <4>2. Replied(d, s, e)'
        BY <1>0, <3>1, <3>2, <4>1, ReplyCarries
      <4>3. Lending(d, s, e)'
        BY <3>1, <4>1, <4>2 DEF Lending
      <4> QED BY <2>a, <3>1, <4>3
    <3> QED BY <3>3, <3>4
  <2>13. CASE UNCHANGED vars
    <3>1. UNCHANGED <<dvars, loc, todo, in_command, control, resp_wait, wire, resp_buf>>
      BY <2>13 DEF vars, hvars
    <3>2. (Where(d) => Where(d)') /\ (Replied(d, s, e) => Replied(d, s, e)')
      BY <3>1, LocStill, SameReply
    <3>3. Lending(d, s, e)'
      BY <2>5, <3>1, <3>2 DEF Lending, Hosting, Resting
    <3> QED BY <2>a, <3>1, <3>3
  <2> QED BY <1>3, <2>6, <2>b, <2>8, <2>9, <2>10, <2>11, <2>12, <2>13
             DEF Next, HostStep, TargetStep, do_command, Compute, Call
<1> QED BY <1>2, <1>3

\* A hart that is not halted has its own: it is not the selected one, or nothing is lent.
LEMMA LentRestored == LentInv => BorrowedRestored
<1> SUFFICES ASSUME LentInv, NEW h \in Harts, ~ harts[h].halted
             PROVE  harts[h].reg.s0 = own[h].s0 /\ harts[h].reg.s1 = own[h].s1
  BY DEF BorrowedRestored
<1>1. \A d : Where(d) => Homed(h, Both)
  BY DEF Where, Held
<1>2. Homed(h, Both)
  BY <1>1 DEF LentInv, Returning, Underway, Lending, Replied
<1> QED BY <1>2 DEF Homed, Both, Own

\* Whatever the operations, the harts' own programs and the timing of the target do, the
\* host's loans of s0 and s1 stay in order: every hart but the one that it holds has its
\* own, and the held one's are kept by the host or on their way.
THEOREM LoansKept == Spec => [](FlowInv /\ LentInv)
<1>1. Init => FlowInv /\ LentInv
  BY InitFlow, InitLent
<1>2. FlowInv /\ LentInv /\ [Next]_vars => (FlowInv /\ LentInv)'
  BY NextFlow, NextLent
<1> QED BY <1>1, <1>2, PTL DEF Spec

\* BorrowedRestored: whenever a hart runs its program, its s0 and s1 are the program's own:
\* save_reg and restore_reg of read_chunk, write_chunk and clear_chunk, and the exchanges
\* with dscratch0 of modify_csr, gave them back before the hart resumed, also when one of
\* the commands in between failed.  (The CSRs that modify_csr is called with exist.)
THEOREM RegistersGivenBack == Spec => []BorrowedRestored
BY LoansKept, LentRestored, PTL
=============================================================================
