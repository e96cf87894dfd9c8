------------------------------ MODULE TsiProofs ------------------------------
(***************************************************************************)
(* The serial stream implements the memory port, for every word width,     *)
(* chunk size and number of requests.  The words between host and adapter, *)
(* those of a command that the adapter has begun included, are a queue of  *)
(* whole commands; the inductive invariant names it (Queue), with what     *)
(* each command's data words say of the writes that have not landed.       *)
(***************************************************************************)
EXTENDS Tsi, TLAPS, SequenceTheorems

Posted == [addr : WordAddr, val : Word]

Typing ==
  /\ frame \in Seq(Int) /\ in_data \in Seq(Int)
  /\ out_data \in Seq(Word) /\ result \in Seq(Word)
  /\ issued \in Seq(Posted) /\ fetched \in Seq(Posted)
  /\ mem \in [WordAddr -> Word]
  /\ op # NoOp => op.len \in Nat \ {0} /\ op.addr \in Nat /\ op.addr + op.len <= MSIP
  /\ sending # NoOp => sending.len \in Nat \ {0} /\ sending.addr \in WordAddr

\* The words received, r, and those on their way, o, are the values fetched, f.
Sent(r, o, f) ==
  /\ Len(r) + Len(o) = Len(f)
  /\ \A i \in 1 .. Len(r) : r[i] = f[i].val
  /\ \A i \in 1 .. Len(o) : o[i] = f[Len(r) + i].val

\* They were fetched at the addresses of read p.
Asked(f, p) == \A i \in 1 .. Len(f) : f[i].addr = p.addr + i - 1

\* How far the read in progress is.
Serving ==
  /\ Sent(result, out_data, fetched)
  /\ op # NoOp => Asked(fetched, op) /\ Len(result) < op.len /\ Len(fetched) <= op.len
  /\ op = NoOp => out_data = <<>> /\ sending = NoOp
  /\ sending # NoOp => /\ issued = <<>> /\ op # NoOp /\ Len(fetched) < op.len
                       /\ sending = [addr |-> op.addr + Len(fetched), len |-> op.len - Len(fetched)]

Command == [cmd : {SAI_CMD_READ, SAI_CMD_WRITE}, addr : Nat, len : Nat \ {0}]
Data(c) == IF c.cmd = SAI_CMD_WRITE THEN c.len ELSE 0

\* Command c is in stream S after p words; its data words are the writes that follow write q of I.
Entry(S, I, c, p, q) ==
  /\ S[p + 1] = c.cmd
  /\ Number(S[p + 2], S[p + 3]) = c.addr
  /\ Number(S[p + 4], S[p + 5]) = c.len - 1
  /\ \A i \in 1 .. Data(c) : I[q + i] = [addr |-> c.addr + i - 1, val |-> S[p + 5 + i]]

\* Commands lo .. hi - 1 of K are in the stream, command j after P[j] words and Q[j] writes.
Numbering(K, P, Q, lo, hi) ==
  /\ K \in [Nat -> Command] /\ P \in [Nat -> Nat] /\ Q \in [Nat -> Nat]
  /\ lo \in Nat /\ hi \in Nat /\ lo <= hi
  /\ \A j \in lo .. hi - 1 : P[j + 1] = P[j] + 5 + Data(K[j]) /\ Q[j + 1] = Q[j] + Data(K[j])
  /\ \A j \in lo .. hi : P[j] <= P[hi] /\ Q[j] <= Q[hi]

\* The words between host and adapter, from the start of the command that the adapter is
\* receiving, are those of S from p to e.
Words(f, d, S, p, e) ==
  /\ S \in [Nat -> Int]
  /\ Len(f) + Len(d) = e - p
  /\ \A x \in 1 .. Len(f) : f[x] = S[p + x]
  /\ \A x \in 1 .. Len(d) : d[x] = S[p + Len(f) + x]

\* The writes that have not landed are those of I from q to e.
Writes(s, I, q, e) ==
  /\ Len(s) = e - q
  /\ \A x \in 1 .. Len(s) : s[x] = I[q + x]

\* The data words of the command being received that are in memory.
Landed == IF Len(frame) > 5 THEN Len(frame) - 5 ELSE 0

\* Only the last command can be a read, and then the host waits for it.
Reading(K, lo, hi) ==
  /\ \A j \in lo .. hi - 1 :
       K[j].cmd = SAI_CMD_READ => /\ j = hi - 1 /\ fetched = <<>> /\ sending = NoOp
                                  /\ op = [addr |-> K[j].addr, len |-> K[j].len]
  /\ sending # NoOp => lo = hi

Commands(S, I, K, P, Q, lo, hi) ==
  /\ Numbering(K, P, Q, lo, hi)
  /\ \A j \in lo .. hi - 1 : Entry(S, I, K[j], P[j], Q[j])

Queue(S, I, K, P, Q, lo, hi) ==
  /\ Commands(S, I, K, P, Q, lo, hi)
  /\ Words(frame, in_data, S, P[lo], P[hi])
  /\ Writes(issued, I, Q[lo] + Landed, Q[hi])
  /\ Len(frame) >= 5 => lo < hi /\ K[lo].cmd = SAI_CMD_WRITE /\ Len(frame) < 5 + K[lo].len
  /\ Reading(K, lo, hi)

Queued == \E S, I, K, P, Q, lo, hi : Queue(S, I, K, P, Q, lo, hi)

IInv == Typing /\ Serving /\ Queued

----------------------------------------------------------------------------
(* Words.                                                                  *)

\* The two words of a number give it back.
LEMMA ChunksNumber ==
  ASSUME NEW x \in Nat
  PROVE  Chunks(x) = <<x % Base, x \div Base>> /\ x % Base \in Int /\ x \div Base \in Int
         /\ Number(x % Base, x \div Base) = x
  <1>1. x = (x % Base) + Base * (x \div Base) /\ x % Base \in Int /\ x \div Base \in Int
      BY TsiAssumption
  <1>2. Base * (x \div Base) = (x \div Base) * Base
      BY <1>1, TsiAssumption
  <1> QED BY <1>1, <1>2 DEF Chunks, Number

LEMMA Memory == /\ MSIP \in Nat /\ MSIP \in WordAddr /\ MSIP > 0 /\ 1 \in Word /\ 0 \in Word
                /\ WordAddr = 0 .. MSIP
  <1>1. Base * Base \in Nat /\ Base * Base > 1
      BY TsiAssumption
  <1> QED BY <1>1, TsiAssumption DEF MSIP, WordAddr, Word


\* The adapter takes a word, the next of the command: the command goes on or is complete.
LEMMA TakingWord ==
  ASSUME Typing, NEW w, TakeWord(w), NEW S, NEW p \in Nat, NEW e \in Nat, Words(frame, in_data, S, p, e),
         NEW n, n = Len(frame)
  PROVE  /\ w \in Int /\ in_data' \in Seq(Int) /\ n \in Nat /\ n < e - p
         /\ w = S[p + n + 1] /\ \A x \in 1 .. n : frame[x] = S[p + x]
         /\ Len(in_data') = e - p - n - 1
         /\ frame' = Append(frame, w) =>
              /\ frame' \in Seq(Int) /\ Len(frame') = n + 1 /\ Words(frame', in_data', S, p, e)
         /\ frame' = <<>> => Words(frame', in_data', S, p + n + 1, e)
  <1>1. /\ frame \in Seq(Int) /\ in_data \in Seq(Int) /\ in_data # <<>> /\ w = Head(in_data)
        /\ in_data' = Tail(in_data) /\ n \in Nat /\ n = Len(frame)
      BY LenProperties DEF Typing, TakeWord
  <1>2. /\ w \in Int /\ in_data' \in Seq(Int) /\ Len(in_data') = Len(in_data) - 1
        /\ \A i \in 1 .. Len(in_data') : in_data'[i] = in_data[i + 1]
        /\ Len(in_data) \in Nat \ {0} /\ w = in_data[1]
      BY <1>1, HeadTailProperties, EmptySeq
  <1>3. /\ S \in [Nat -> Int]
        /\ n + Len(in_data) = e - p
        /\ \A x \in 1 .. n : frame[x] = S[p + x]
        /\ \A x \in 1 .. Len(in_data) : in_data[x] = S[p + n + x]
      BY DEF Words
  <1>4. w = S[p + n + 1] /\ n < e - p
      BY <1>1, <1>2, <1>3
  <1>8. Len(in_data') = e - p - n - 1
      BY <1>1, <1>2, <1>3
  <1>5. \A x \in 1 .. Len(in_data') : in_data'[x] = S[p + n + 1 + x]
    <2> SUFFICES ASSUME NEW x \in 1 .. Len(in_data') PROVE in_data'[x] = S[p + n + 1 + x]
        OBVIOUS
    <2>1. x + 1 \in 1 .. Len(in_data) /\ in_data'[x] = in_data[x + 1]
        BY <1>2
    <2>2. p + n + (x + 1) = p + n + 1 + x
        BY <1>1, <1>2
    <2> QED BY <1>3, <2>1, <2>2
  <1>6. ASSUME frame' = Append(frame, w)
        PROVE  frame' \in Seq(Int) /\ Len(frame') = n + 1 /\ Words(frame', in_data', S, p, e)
    <2>1. /\ frame' \in Seq(Int) /\ Len(frame') = n + 1
          /\ \A i \in 1 .. n : frame'[i] = frame[i]
          /\ frame'[n + 1] = w
        BY <1>1, <1>2, <1>6, AppendProperties
    <2>2. ASSUME NEW x \in 1 .. n + 1 PROVE frame'[x] = S[p + x]
      <3>1. CASE x \in 1 .. n
          BY <1>3, <2>1, <3>1
      <3>2. CASE x = n + 1
        <4>1. p + x = p + n + 1
            BY <1>1, <3>2
        <4> QED BY <1>4, <2>1, <3>2, <4>1
      <3> QED BY <1>1, <3>1, <3>2
    <2>4. Len(frame') = n + 1
        BY <2>1
    <2>5. \A x, y \in Int : x = n + 1 /\ y = e - p - n - 1 => x + y = e - p
        BY <1>1
    <2>6. n + 1 \in Int /\ e - p - n - 1 \in Int
        BY <1>1
    <2>3. Len(frame') + Len(in_data') = e - p
        BY <1>8, <2>4, <2>5, <2>6, Zenon
    <2>7. \A x \in 1 .. Len(in_data') : in_data'[x] = S[p + Len(frame') + x]
        BY <1>1, <1>5, <2>1
    <2> QED BY <1>3, <2>1, <2>2, <2>3, <2>7 DEF Words
  <1>7. ASSUME frame' = <<>> PROVE Words(frame', in_data', S, p + n + 1, e)
    <2>1. Len(frame') = 0
        BY <1>7
    <2>2. \A x \in 1 .. Len(in_data') : in_data'[x] = S[p + n + 1 + Len(frame') + x]
        BY <1>1, <1>5, <2>1
    <2>3. Len(frame') + Len(in_data') = e - (p + n + 1)
        BY <1>1, <1>8, <2>1
    <2> QED BY <1>3, <2>1, <2>2, <2>3 DEF Words
  <1> QED BY <1>1, <1>2, <1>3, <1>4, <1>6, <1>7, <1>8

LEMMA NextWord ==
  ASSUME Typing, NEW w, TakeWord(w), NEW S, NEW p \in Nat, NEW e, Words(frame, in_data, S, p, e)
  PROVE  w = S[p + Len(frame) + 1]
  <1>1. in_data \in Seq(Int) /\ in_data # <<>> /\ w = Head(in_data)
      BY DEF Typing, TakeWord
  <1>2. w = in_data[1] /\ 1 \in 1 .. Len(in_data)
      BY <1>1, HeadTailProperties, EmptySeq
  <1> QED BY <1>2 DEF Words

\* S as it is up to e, then the elements of s.
Then(S, e, s) == [x \in Nat |-> IF x \in e + 1 .. e + Len(s) THEN s[x - e] ELSE S[x]]

Follows(T, S, e, s) == /\ \A x \in 0 .. e : T[x] = S[x]
                       /\ \A i \in 1 .. Len(s) : T[e + i] = s[i]

\* The host queues words ws: the stream goes on with them.
LEMMA QueueingWords ==
  ASSUME Typing, NEW ws \in Seq(Int), in_data' = in_data \o ws, frame' = frame,
         NEW S, NEW p \in Nat, NEW e \in Nat, p <= e, Words(frame, in_data, S, p, e),
         NEW T, T = Then(S, e, ws)
  PROVE  /\ in_data' \in Seq(Int)
         /\ Words(frame', in_data', T, p, e + Len(ws))
         /\ Follows(T, S, e, ws)
  <1>1. /\ frame \in Seq(Int) /\ in_data \in Seq(Int) /\ Len(frame) \in Nat /\ Len(in_data) \in Nat
        /\ Len(ws) \in Nat
      BY LenProperties DEF Typing
  <1>2. /\ in_data' \in Seq(Int) /\ Len(in_data') = Len(in_data) + Len(ws)
        /\ \A i \in 1 .. Len(in_data) + Len(ws) :
             in_data'[i] = IF i <= Len(in_data) THEN in_data[i] ELSE ws[i - Len(in_data)]
      BY <1>1, ConcatProperties
  <1>3. /\ S \in [Nat -> Int]
        /\ Len(frame) + Len(in_data) = e - p
        /\ \A x \in 1 .. Len(frame) : frame[x] = S[p + x]
        /\ \A x \in 1 .. Len(in_data) : in_data[x] = S[p + Len(frame) + x]
      BY DEF Words
  <1>4. \A x \in Nat : T[x] = IF x \in e + 1 .. e + Len(ws) THEN ws[x - e] ELSE S[x]
      BY DEF Then
  <1>5. T \in [Nat -> Int]
    <2>1. \A x \in Nat : x \in e + 1 .. e + Len(ws) => x - e \in 1 .. Len(ws)
        BY <1>1
    <2>2. \A y \in 1 .. Len(ws) : ws[y] \in Int
        BY ElementOfSeq
    <2> QED BY <1>3, <2>1, <2>2 DEF Then
  <1>6. \A x \in 0 .. e : T[x] = S[x]
      BY <1>1, <1>4
  <1>7. \A i \in 1 .. Len(ws) : T[e + i] = ws[i]
    <2> SUFFICES ASSUME NEW i \in 1 .. Len(ws) PROVE T[e + i] = ws[i]
        OBVIOUS
    <2>1. e + i \in Nat /\ e + i \in e + 1 .. e + Len(ws) /\ (e + i) - e = i
        BY <1>1
    <2> QED BY <1>4, <2>1
  <1>11. e - p = Len(frame) + Len(in_data) /\ Len(in_data') = Len(in_data) + Len(ws)
      BY <1>2, <1>3
  <1>8. ASSUME NEW x \in 1 .. Len(frame) PROVE frame[x] = T[p + x]
    <2>1. p + x \in 0 .. e
        BY <1>1, <1>11
    <2> QED BY <1>3, <1>6, <2>1
  <1>9. \A x \in 1 .. Len(in_data') : in_data'[x] = T[p + Len(frame) + x]
    <2> SUFFICES ASSUME NEW x \in 1 .. Len(in_data') PROVE in_data'[x] = T[p + Len(frame) + x]
        OBVIOUS
    <2>1. CASE x <= Len(in_data)
      <3>1. p + Len(frame) + x \in 0 .. e
          BY <1>1, <1>11, <2>1
      <3>2. x \in 1 .. Len(in_data) /\ x \in 1 .. Len(in_data) + Len(ws)
          BY <1>1, <1>11, <2>1
      <3>3. in_data'[x] = in_data[x]
          BY <1>2, <3>2, <2>1
      <3>4. in_data[x] = S[p + Len(frame) + x]
          BY <1>3, <3>2
      <3> QED BY <1>6, <3>1, <3>3, <3>4
    <2>2. CASE x > Len(in_data)
      <3>1. /\ x - Len(in_data) \in 1 .. Len(ws) /\ x \in 1 .. Len(in_data) + Len(ws)
            /\ p + Len(frame) + x = e + (x - Len(in_data)) /\ ~ x <= Len(in_data)
          BY <1>1, <1>11, <2>2
      <3> QED BY <1>2, <1>7, <3>1
    <2> QED BY <1>1, <1>11, <2>1, <2>2
  <1>10. Words(frame', in_data', T, p, e + Len(ws))
    <2>1. frame' = frame
        OBVIOUS
    <2>2. Len(frame') + Len(in_data') = (e + Len(ws)) - p
        BY <1>1, <1>11, <2>1
    <2> QED BY <1>5, <1>8, <1>9, <2>1, <2>2 DEF Words
  <1>12. Follows(T, S, e, ws)
      BY <1>6, <1>7 DEF Follows
  <1> QED BY <1>2, <1>10, <1>12

\* The host posts writes ns: those not landed go on with them.
LEMMA PostingWrites ==
  ASSUME issued \in Seq(Posted), NEW ns \in Seq(Posted), issued' = issued \o ns,
         NEW I, NEW q \in Nat, NEW e \in Nat, q <= e, Writes(issued, I, q, e),
         NEW J, J = Then(I, e, ns)
  PROVE  /\ issued' \in Seq(Posted) /\ Len(issued') = Len(issued) + Len(ns)
         /\ \A i \in 1 .. Len(issued) : issued'[i] = issued[i]
         /\ Writes(issued', J, q, e + Len(ns))
         /\ Follows(J, I, e, ns)
  <1>1. Len(issued) \in Nat /\ Len(ns) \in Nat
      BY LenProperties
  <1>2. /\ issued' \in Seq(Posted) /\ Len(issued') = Len(issued) + Len(ns)
        /\ \A i \in 1 .. Len(issued) + Len(ns) :
             issued'[i] = IF i <= Len(issued) THEN issued[i] ELSE ns[i - Len(issued)]
      BY <1>1, ConcatProperties
  <1>3. /\ Len(issued) = e - q
        /\ \A x \in 1 .. Len(issued) : issued[x] = I[q + x]
      BY DEF Writes
  <1>4. \A x \in Nat : J[x] = IF x \in e + 1 .. e + Len(ns) THEN ns[x - e] ELSE I[x]
      BY DEF Then
  <1>5. \A x \in 0 .. e : J[x] = I[x]
      BY <1>1, <1>4
  <1>6. \A i \in 1 .. Len(ns) : J[e + i] = ns[i]
    <2> SUFFICES ASSUME NEW i \in 1 .. Len(ns) PROVE J[e + i] = ns[i]
        OBVIOUS
    <2>1. e + i \in Nat /\ e + i \in e + 1 .. e + Len(ns) /\ (e + i) - e = i
        BY <1>1
    <2> QED BY <1>4, <2>1
  <1>7. \A x \in 1 .. Len(issued') : issued'[x] = J[q + x]
    <2> SUFFICES ASSUME NEW x \in 1 .. Len(issued') PROVE issued'[x] = J[q + x]
        OBVIOUS
    <2>1. CASE x <= Len(issued)
      <3>1. q + x \in 0 .. e
          BY <1>1, <1>3, <2>1
      <3>2. x \in 1 .. Len(issued) /\ x \in 1 .. Len(issued) + Len(ns)
          BY <1>1, <1>2, <2>1
      <3>3. issued'[x] = issued[x]
          BY <1>2, <2>1, <3>2
      <3>4. issued[x] = I[q + x]
          BY <1>3, <3>2
      <3> QED BY <1>5, <3>1, <3>3, <3>4
    <2>2. CASE x > Len(issued)
      <3>1. /\ x - Len(issued) \in 1 .. Len(ns) /\ x \in 1 .. Len(issued) + Len(ns)
            /\ q + x = e + (x - Len(issued)) /\ ~ x <= Len(issued)
          BY <1>1, <1>2, <1>3, <2>2
      <3> QED BY <1>2, <1>6, <3>1
    <2> QED BY <1>1, <1>2, <2>1, <2>2
  <1>8. Writes(issued', J, q, e + Len(ns))
    <2>1. Len(issued') = (e + Len(ns)) - q
        BY <1>1, <1>2, <1>3
    <2> QED BY <1>7, <2>1 DEF Writes
  <1>9. Follows(J, I, e, ns)
      BY <1>5, <1>6 DEF Follows
  <1> QED BY <1>1, <1>2, <1>8, <1>9

----------------------------------------------------------------------------
(* The queue of commands.                                                  *)

\* The words of a command's header.
LEMMA HeaderIs ==
  ASSUME NEW c \in Command, NEW h, h = Header(c.cmd, c.addr, c.len)
  PROVE  /\ h \in Seq(Int) /\ Len(h) = 5 /\ h[1] = c.cmd
         /\ Number(h[2], h[3]) = c.addr /\ Number(h[4], h[5]) = c.len - 1
  <1>1. c.cmd \in Int /\ c.addr \in Nat /\ c.len - 1 \in Nat
      BY DEF Command, SAI_CMD_READ, SAI_CMD_WRITE
  <1>2. PICK a1 \in Int, a2 \in Int : Chunks(c.addr) = <<a1, a2>> /\ Number(a1, a2) = c.addr
      BY <1>1, ChunksNumber
  <1>3. PICK l1 \in Int, l2 \in Int : Chunks(c.len - 1) = <<l1, l2>> /\ Number(l1, l2) = c.len - 1
      BY <1>1, ChunksNumber
  <1>4. <<c.cmd>> \in Seq(Int) /\ <<a1, a2>> \in Seq(Int) /\ <<l1, l2>> \in Seq(Int)
      BY <1>1
  <1>5. PICK g : g = <<c.cmd>> \o <<a1, a2>>
      OBVIOUS
  <1>6. g \in Seq(Int) /\ Len(g) = 3 /\ g[1] = c.cmd /\ g[2] = a1 /\ g[3] = a2
      BY <1>4, <1>5, ConcatProperties
  <1>10. PICK k : k = <<l1, l2>>
      OBVIOUS
  <1>11. k \in Seq(Int) /\ Len(k) = 2 /\ k[1] = l1 /\ k[2] = l2
      BY <1>4, <1>10
  <1>7. h = g \o k
      BY <1>2, <1>3, <1>5, <1>10 DEF Header
  <1>8. h \in Seq(Int) /\ Len(h) = 5
    <2>1. g \o k \in Seq(Int) /\ Len(g \o k) = Len(g) + Len(k)
        BY <1>6, <1>11, ConcatProperties
    <2> QED BY <1>6, <1>7, <1>11, <2>1
  <1>9. h[1] = g[1] /\ h[2] = g[2] /\ h[3] = g[3] /\ h[4] = l1 /\ h[5] = l2
    <2>1. \A i \in 1 .. Len(g) + Len(k) : (g \o k)[i] = IF i <= Len(g) THEN g[i] ELSE k[i - Len(g)]
        BY <1>6, <1>11, ConcatProperties
    <2>4. Len(g) + Len(k) = 5 /\ Len(g) = 3
        BY <1>6, <1>11
    <2>2. \A i \in 1 .. 5 : h[i] = IF i <= 3 THEN g[i] ELSE k[i - 3]
        BY <1>7, <2>1, <2>4, Zenon
    <2>3. h[4] = k[4 - 3] /\ h[5] = k[5 - 3]
        BY <2>2
    <2> QED BY <1>11, <2>2, <2>3
  <1> QED BY <1>2, <1>3, <1>6, <1>8, <1>9

With(F, x, v) == [F EXCEPT ![x] = v]

\* A command behind the others, with the words and writes that it adds.
LEMMA Behind ==
  ASSUME NEW S, NEW I, NEW K, NEW P, NEW Q, NEW lo, NEW hi, Commands(S, I, K, P, Q, lo, hi),
         NEW c \in Command, NEW T, NEW J, NEW ws, NEW ns,
         Follows(T, S, P[hi], ws), Follows(J, I, Q[hi], ns), Entry(T, J, c, P[hi], Q[hi])
  PROVE  Commands(T, J, With(K, hi, c), With(P, hi + 1, P[hi] + 5 + Data(c)),
                  With(Q, hi + 1, Q[hi] + Data(c)), lo, hi + 1)
  <1>12. PICK K2, P2, Q2 : /\ K2 = With(K, hi, c)
                           /\ P2 = With(P, hi + 1, P[hi] + 5 + Data(c))
                           /\ Q2 = With(Q, hi + 1, Q[hi] + Data(c))
      OBVIOUS
  <1>13. Numbering(K, P, Q, lo, hi) /\ \A j \in lo .. hi - 1 : Entry(S, I, K[j], P[j], Q[j])
      BY DEF Commands
  <1>0. \A x \in 0 .. P[hi] : T[x] = S[x]
      BY DEF Follows
  <1>11. \A x \in 0 .. Q[hi] : J[x] = I[x]
      BY DEF Follows
  <1>1. \A d \in Command : Data(d) \in Nat
      BY DEF Data, Command
  <1>2. /\ K \in [Nat -> Command] /\ P \in [Nat -> Nat] /\ Q \in [Nat -> Nat]
        /\ lo \in Nat /\ hi \in Nat /\ lo <= hi
      BY <1>13 DEF Numbering
  <1>3. \A j \in lo .. hi - 1 : P[j + 1] = P[j] + 5 + Data(K[j]) /\ Q[j + 1] = Q[j] + Data(K[j])
      BY <1>13 DEF Numbering
  <1>4. \A j \in lo .. hi : P[j] <= P[hi] /\ Q[j] <= Q[hi]
      BY <1>13 DEF Numbering
  <1>5. /\ K2 \in [Nat -> Command] /\ P2 \in [Nat -> Nat] /\ Q2 \in [Nat -> Nat]
        /\ K2[hi] = c /\ P2[hi + 1] = P[hi] + 5 + Data(c) /\ Q2[hi + 1] = Q[hi] + Data(c)
      BY <1>1, <1>2, <1>12 DEF With
  <1>6. /\ \A j \in lo .. hi - 1 : K2[j] = K[j]
        /\ \A j \in lo .. hi : P2[j] = P[j] /\ Q2[j] = Q[j]
      BY <1>2, <1>12 DEF With
  <1>7. ASSUME NEW j \in lo .. (hi + 1) - 1
        PROVE  P2[j + 1] = P2[j] + 5 + Data(K2[j]) /\ Q2[j + 1] = Q2[j] + Data(K2[j])
    <2>1. CASE j = hi
        BY <1>2, <1>5, <1>6, <2>1
    <2>2. CASE j \in lo .. hi - 1
      <3>1. j + 1 \in lo .. hi /\ j \in lo .. hi
          BY <1>2, <2>2
      <3> QED BY <1>3, <1>6, <2>2, <3>1
    <2> QED BY <1>2, <2>1, <2>2
  <1>8. ASSUME NEW j \in lo .. hi + 1 PROVE P2[j] <= P2[hi + 1] /\ Q2[j] <= Q2[hi + 1]
    <2>1. CASE j = hi + 1
        BY <1>1, <1>2, <1>5, <2>1
    <2>2. CASE j \in lo .. hi
      <3>1. P[j] <= P[hi] /\ Q[j] <= Q[hi] /\ P2[j] = P[j] /\ Q2[j] = Q[j]
          BY <1>4, <1>6, <2>2
      <3>2. P[j] \in Nat /\ Q[j] \in Nat /\ P[hi] \in Nat /\ Q[hi] \in Nat /\ Data(c) \in Nat
          BY <1>1, <1>2, <2>2
      <3> QED BY <1>5, <3>1, <3>2
    <2> QED BY <1>2, <2>1, <2>2
  <1>9. Numbering(K2, P2, Q2, lo, hi + 1)
      BY <1>2, <1>5, <1>7, <1>8 DEF Numbering
  <1>10. ASSUME NEW j \in lo .. hi PROVE Entry(T, J, K2[j], P2[j], Q2[j])
    <2>1. CASE j = hi
        BY <1>2, <1>5, <1>6, <2>1
    <2>2. CASE j \in lo .. hi - 1
      <3>1. /\ j \in Nat /\ K[j] \in Command /\ P[j] \in Nat /\ Q[j] \in Nat
            /\ P[hi] \in Nat /\ Q[hi] \in Nat /\ Data(K[j]) \in Nat
            /\ j + 1 \in lo .. hi /\ j \in lo .. hi
          BY <1>1, <1>2, <2>2
      <3>2. P[j] + 5 + Data(K[j]) <= P[hi] /\ Q[j] + Data(K[j]) <= Q[hi]
          BY <1>3, <1>4, <2>2, <3>1
      <3>3. \A x \in 1 .. 5 + Data(K[j]) : T[P[j] + x] = S[P[j] + x]
          BY <1>0, <3>1, <3>2
      <3>4. \A x \in 1 .. Data(K[j]) : J[Q[j] + x] = I[Q[j] + x]
          BY <1>11, <3>1, <3>2
      <3>5. Entry(S, I, K[j], P[j], Q[j])
          BY <1>13, <2>2
      <3>6. /\ T[P[j] + 1] = S[P[j] + 1] /\ T[P[j] + 2] = S[P[j] + 2]
            /\ T[P[j] + 3] = S[P[j] + 3] /\ T[P[j] + 4] = S[P[j] + 4]
            /\ T[P[j] + 5] = S[P[j] + 5]
          BY <3>1, <3>3
      <3>7. \A x \in 1 .. Data(K[j]) : T[P[j] + 5 + x] = S[P[j] + 5 + x]
        <4> SUFFICES ASSUME NEW x \in 1 .. Data(K[j]) PROVE T[P[j] + 5 + x] = S[P[j] + 5 + x]
            OBVIOUS
        <4>1. 5 + x \in 1 .. 5 + Data(K[j]) /\ P[j] + 5 + x = P[j] + (5 + x)
            BY <3>1
        <4> QED BY <3>3, <4>1
      <3>8. Entry(T, J, K[j], P[j], Q[j])
          BY <3>4, <3>5, <3>6, <3>7 DEF Entry
      <3> QED BY <1>6, <2>2, <3>1, <3>8
    <2> QED BY <1>2, <2>1, <2>2
  <1>14. (hi + 1) - 1 = hi
      BY <1>2
  <1> QED BY <1>9, <1>10, <1>12, <1>14 DEF Commands

\* The host queues command c, with its data words ws, and posts writes ns.
Queueing(c, ws, ns) ==
  /\ ws \in Seq(Int) /\ Len(ws) = Data(c)
  /\ ns \in Seq(Posted) /\ Len(ns) = Data(c)
  /\ \A i \in 1 .. Data(c) : ns[i] = [addr |-> c.addr + i - 1, val |-> ws[i]]
  /\ in_data' = in_data \o Header(c.cmd, c.addr, c.len) \o ws
  /\ issued' = issued \o ns
  /\ frame' = frame /\ sending' = sending
  /\ c.cmd = SAI_CMD_READ => fetched' = <<>> /\ op' = [addr |-> c.addr, len |-> c.len]

\* A command is queued behind the others.
LEMMA Enqueue ==
  ASSUME Typing, op = NoOp, sending = NoOp, Queued,
         NEW c \in Command, NEW ws, NEW ns, Queueing(c, ws, ns)
  PROVE  /\ in_data' \in Seq(Int) /\ issued' \in Seq(Posted)
         /\ Len(issued') = Len(issued) + Data(c) /\ \A i \in 1 .. Len(issued) : issued'[i] = issued[i]
         /\ Queued'
  <1>0. PICK S, I, K, P, Q, lo, hi : Queue(S, I, K, P, Q, lo, hi)
      BY DEF Queued
  <1>26. ws \in Seq(Int) /\ Len(ws) = Data(c)
      BY DEF Queueing
  <1>27. ns \in Seq(Posted) /\ Len(ns) = Data(c)
      BY DEF Queueing
  <1>28. frame' = frame /\ sending' = sending
      BY DEF Queueing
  <1>1. PICK h : h = Header(c.cmd, c.addr, c.len)
      OBVIOUS
  <1>2. /\ h \in Seq(Int) /\ Len(h) = 5 /\ h[1] = c.cmd
        /\ Number(h[2], h[3]) = c.addr /\ Number(h[4], h[5]) = c.len - 1
      BY <1>1, HeaderIs
  <1>3. Data(c) \in Nat
      BY DEF Data, Command
  <1>4. PICK m : m = h \o ws
      OBVIOUS
  <1>5. m \in Seq(Int) /\ Len(m) = 5 + Data(c)
    <2>1. h \o ws \in Seq(Int) /\ Len(h \o ws) = Len(h) + Len(ws)
        BY <1>2, <1>26, ConcatProperties
    <2> QED BY <1>2, <1>3, <1>4, <1>26, <2>1
  <1>6. \A i \in 1 .. 5 + Data(c) : m[i] = IF i <= 5 THEN h[i] ELSE ws[i - 5]
    <2>1. \A i \in 1 .. Len(h) + Len(ws) : (h \o ws)[i] = IF i <= Len(h) THEN h[i] ELSE ws[i - Len(h)]
        BY <1>2, <1>26, ConcatProperties
    <2> QED BY <1>2, <1>4, <1>26, <2>1, Zenon
  <1>7. in_data' = in_data \o m
    <2>1. in_data \in Seq(Int) /\ in_data' = (in_data \o h) \o ws
        BY <1>1 DEF Typing, Queueing
    <2>2. PICK a \in Seq(Int) : a = in_data
        BY <2>1
    <2>3. (a \o h) \o ws = a \o (h \o ws)
      <3>1. h \in Seq(Int) /\ ws \in Seq(Int)
          BY <1>2, <1>26
      <3> QED BY <3>1, ConcatAssociative
    <2> QED BY <1>4, <2>1, <2>2, <2>3, Zenon
  <1>8. /\ Commands(S, I, K, P, Q, lo, hi)
        /\ Words(frame, in_data, S, P[lo], P[hi])
        /\ Writes(issued, I, Q[lo] + Landed, Q[hi])
        /\ Len(frame) >= 5 => lo < hi /\ K[lo].cmd = SAI_CMD_WRITE /\ Len(frame) < 5 + K[lo].len
        /\ Reading(K, lo, hi)
      BY <1>0 DEF Queue
  <1>9. /\ K \in [Nat -> Command] /\ P \in [Nat -> Nat] /\ Q \in [Nat -> Nat]
        /\ lo \in Nat /\ hi \in Nat /\ lo <= hi /\ P[lo] <= P[hi] /\ P[lo] \in Nat /\ P[hi] \in Nat
        /\ Q[lo] \in Nat /\ Q[hi] \in Nat
    <2>1. /\ K \in [Nat -> Command] /\ P \in [Nat -> Nat] /\ Q \in [Nat -> Nat]
          /\ lo \in Nat /\ hi \in Nat /\ lo <= hi
          /\ \A j \in lo .. hi : P[j] <= P[hi] /\ Q[j] <= Q[hi]
        BY <1>8 DEF Numbering, Commands
    <2>2. lo \in lo .. hi
        BY <2>1
    <2>3. P[lo] \in Nat /\ P[hi] \in Nat /\ Q[lo] \in Nat /\ Q[hi] \in Nat
        BY <2>1
    <2> QED BY <2>1, <2>2, <2>3
  <1>11. PICK T : T = Then(S, P[hi], m)
      OBVIOUS
  <1>10. /\ in_data' \in Seq(Int)
         /\ Words(frame', in_data', T, P[lo], P[hi] + Len(m))
         /\ Follows(T, S, P[hi], m)
    <2>1. PICK p \in Nat, e \in Nat : p = P[lo] /\ e = P[hi]
        BY <1>9
    <2>2. p <= e /\ Words(frame, in_data, S, p, e) /\ T = Then(S, e, m)
        BY <1>8, <1>9, <1>11, <2>1
    <2>3. in_data' \in Seq(Int)
        BY <1>5, <1>7, <1>28, <2>2, QueueingWords
    <2>4. Words(frame', in_data', T, p, e + Len(m))
        BY <1>5, <1>7, <1>28, <2>2, QueueingWords
    <2>5. Follows(T, S, e, m)
        BY <1>5, <1>7, <1>28, <2>2, QueueingWords
    <2> QED BY <2>1, <2>3, <2>4, <2>5
  <1>12. Landed \in Nat /\ Landed' = Landed /\ Q[lo] + Landed <= Q[hi]
    <2>1. Len(frame) \in Nat /\ issued \in Seq(Posted) /\ Len(issued) \in Nat
        BY LenProperties DEF Typing
    <2>2. Landed \in Nat /\ Landed' = Landed
        BY <1>28, <2>1 DEF Landed
    <2>3. Len(issued) = Q[hi] - (Q[lo] + Landed)
        BY <1>8 DEF Writes
    <2>4. Q[lo] \in Nat /\ Q[hi] \in Nat
        BY <1>9
    <2>5. \A x, y, z, n \in Int : n >= 0 /\ n = z - (x + y) => x + y <= z
        OBVIOUS
    <2>6. Q[lo] + Landed <= Q[hi]
        BY <2>1, <2>2, <2>3, <2>4, <2>5
    <2> QED BY <2>2, <2>6
  <1>13. PICK q \in Nat : q = Q[lo] + Landed
      BY <1>9, <1>12
  <1>15. PICK J : J = Then(I, Q[hi], ns)
      OBVIOUS
  <1>14. /\ issued' \in Seq(Posted) /\ Len(issued') = Len(issued) + Len(ns)
         /\ \A i \in 1 .. Len(issued) : issued'[i] = issued[i]
         /\ Writes(issued', J, q, Q[hi] + Len(ns))
         /\ Follows(J, I, Q[hi], ns)
    <2>1. issued \in Seq(Posted) /\ q <= Q[hi] /\ Writes(issued, I, q, Q[hi])
        BY <1>8, <1>12, <1>13 DEF Typing
    <2>2. issued' = issued \o ns
        BY DEF Queueing
    <2>3. PICK e \in Nat : e = Q[hi]
        BY <1>9
    <2>4. q <= e /\ Writes(issued, I, q, e) /\ J = Then(I, e, ns) /\ ns \in Seq(Posted)
        BY <1>15, <1>27, <2>1, <2>3
    <2>5. issued' \in Seq(Posted) /\ Len(issued') = Len(issued) + Len(ns)
        BY <2>1, <2>2, <2>4, PostingWrites
    <2>6. \A i \in 1 .. Len(issued) : issued'[i] = issued[i]
        BY <2>1, <2>2, <2>4, PostingWrites
    <2>7. Writes(issued', J, q, e + Len(ns))
        BY <2>1, <2>2, <2>4, PostingWrites
    <2>8. Follows(J, I, e, ns)
        BY <2>1, <2>2, <2>4, PostingWrites
    <2> QED BY <2>3, <2>5, <2>6, <2>7, <2>8
  <1>16. Entry(T, J, c, P[hi], Q[hi])
    <2>1. \A i \in 1 .. 5 : T[P[hi] + i] = h[i]
      <3> SUFFICES ASSUME NEW i \in 1 .. 5 PROVE T[P[hi] + i] = h[i]
          OBVIOUS
      <3>1. i \in 1 .. Len(m) /\ i \in 1 .. 5 + Data(c)
          BY <1>3, <1>5
      <3> QED BY <1>6, <1>10, <3>1 DEF Follows
    <2>2. ASSUME NEW i \in 1 .. Data(c) PROVE T[P[hi] + 5 + i] = ws[i]
      <3>1. /\ 5 + i \in 1 .. Len(m) /\ 5 + i \in 1 .. 5 + Data(c) /\ ~ 5 + i <= 5 /\ (5 + i) - 5 = i
            /\ P[hi] + 5 + i = P[hi] + (5 + i)
        <4>1. Len(m) = 5 + Data(c) /\ P[hi] \in Nat
            BY <1>5, <1>9
        <4>2. \A d, x \in Nat : \A y \in 1 .. d :
                 5 + y \in 1 .. 5 + d /\ ~ 5 + y <= 5 /\ (5 + y) - 5 = y /\ x + 5 + y = x + (5 + y)
            OBVIOUS
        <4> QED BY <1>3, <4>1, <4>2, Zenon
      <3>2. m[5 + i] = ws[(5 + i) - 5]
          BY <1>6, <3>1
      <3> QED BY <1>10, <3>1, <3>2 DEF Follows
    <2>3. ASSUME NEW i \in 1 .. Data(c)
          PROVE  J[Q[hi] + i] = [addr |-> c.addr + i - 1, val |-> T[P[hi] + 5 + i]]
      <3>1. J[Q[hi] + i] = ns[i]
          BY <1>14, <1>27 DEF Follows
      <3>2. ns[i] = [addr |-> c.addr + i - 1, val |-> ws[i]]
          BY DEF Queueing
      <3> QED BY <2>2, <3>1, <3>2
    <2>4. /\ T[P[hi] + 1] = h[1] /\ T[P[hi] + 2] = h[2] /\ T[P[hi] + 3] = h[3]
          /\ T[P[hi] + 4] = h[4] /\ T[P[hi] + 5] = h[5]
        BY <2>1
    <2> QED BY <1>2, <2>3, <2>4 DEF Entry
  <1>29. PICK K2, P2, Q2 : /\ K2 = With(K, hi, c)
                           /\ P2 = With(P, hi + 1, P[hi] + 5 + Data(c))
                           /\ Q2 = With(Q, hi + 1, Q[hi] + Data(c))
      OBVIOUS
  <1>17. Commands(T, J, K2, P2, Q2, lo, hi + 1)
      BY <1>8, <1>10, <1>14, <1>16, <1>29, Behind
  <1>30. /\ P2[hi + 1] = P[hi] + 5 + Data(c) /\ Q2[hi + 1] = Q[hi] + Data(c)
         /\ K2[hi] = c /\ \A j \in lo .. hi - 1 : K2[j] = K[j]
    <2>1. hi + 1 \in Nat
        BY <1>9
    <2> QED BY <1>9, <1>29, <2>1 DEF With
  <1>31. \A j \in lo .. hi : P2[j] = P[j] /\ Q2[j] = Q[j]
      BY <1>9, <1>29 DEF With
  <1>18. lo \in lo .. hi /\ (hi + 1) - 1 = hi
      BY <1>9
  <1>19. Words(frame', in_data', T, P2[lo], P2[hi + 1])
    <2>1. P[hi] + Len(m) = P2[hi + 1] /\ P[lo] = P2[lo]
      <3>1. P2[lo] = P[lo] /\ P2[hi + 1] = P[hi] + 5 + Data(c)
          BY <1>17, <1>30, <1>31, <1>18
      <3>2. Len(m) = 5 + Data(c) /\ P[hi] \in Nat
          BY <1>5, <1>9
      <3>3. \A x, y \in Nat : x + (5 + y) = x + 5 + y
          OBVIOUS
      <3> QED BY <1>3, <3>1, <3>2, <3>3, Zenon
    <2> QED BY <1>10, <2>1
  <1>20. Writes(issued', J, Q2[lo] + Landed', Q2[hi + 1])
    <2>1. Q[hi] + Len(ns) = Q2[hi + 1] /\ Q[lo] = Q2[lo]
        BY <1>17, <1>30, <1>31, <1>18, <1>27
    <2>2. q = Q2[lo] + Landed'
        BY <1>12, <1>13, <2>1
    <2> QED BY <1>14, <2>1, <2>2
  <1>21. \A j \in lo .. hi - 1 : K2[j] = K[j] /\ K[j].cmd # SAI_CMD_READ
    <2>0. SUFFICES ASSUME NEW j \in lo .. hi - 1, K[j].cmd = SAI_CMD_READ PROVE FALSE
        BY <1>17, <1>30, <1>31
    <2>1. op = [addr |-> K[j].addr, len |-> K[j].len]
        BY <1>8, <2>0 DEF Reading
    <2>2. K[j] \in Command
        BY <1>9
    <2> QED BY <2>1, <2>2 DEF Command, NoOp
  <1>22. Reading(K2, lo, hi + 1)'
    <2>1. sending' = NoOp
        BY <1>28
    <2>2. ASSUME NEW j \in lo .. (hi + 1) - 1, K2[j].cmd = SAI_CMD_READ
          PROVE  /\ j = (hi + 1) - 1 /\ fetched' = <<>> /\ sending' = NoOp
                 /\ op' = [addr |-> K2[j].addr, len |-> K2[j].len]
      <3>1. j = hi
        <4>1. lo \in Nat /\ hi \in Nat
            BY <1>9
        <4>2. j \in lo .. hi - 1 \/ j = hi
            BY <4>1
        <4>3. j \in lo .. hi - 1 => K2[j].cmd # SAI_CMD_READ
            BY <1>21
        <4> QED BY <2>2, <4>2, <4>3
      <3>2. K2[j] = c
          BY <1>17, <1>30, <1>31, <3>1
      <3>3. c.cmd = SAI_CMD_READ => fetched' = <<>> /\ op' = [addr |-> c.addr, len |-> c.len]
          BY DEF Queueing
      <3> QED BY <1>18, <2>1, <2>2, <3>1, <3>2, <3>3
    <2> QED BY <2>1, <2>2 DEF Reading
  <1>23. Len(frame') >= 5 => lo < hi + 1 /\ K2[lo].cmd = SAI_CMD_WRITE /\ Len(frame') < 5 + K2[lo].len
    <2>0. SUFFICES ASSUME Len(frame) >= 5
                  PROVE  lo < hi + 1 /\ K2[lo].cmd = SAI_CMD_WRITE /\ Len(frame) < 5 + K2[lo].len
        BY <1>28
    <2>1. lo < hi /\ K[lo].cmd = SAI_CMD_WRITE /\ Len(frame) < 5 + K[lo].len
        BY <1>8, <2>0
    <2>2. lo \in lo .. hi - 1
      <3>1. lo \in Nat /\ hi \in Nat
          BY <1>9
      <3> QED BY <2>1, <3>1
    <2>3. K2[lo] = K[lo]
        BY <1>21, <2>2
    <2>4. lo < hi + 1
        BY <1>9
    <2> QED BY <2>1, <2>3, <2>4
  <1>24. Queue(T, J, K2, P2, Q2, lo, hi + 1)'
      BY <1>17, <1>30, <1>31, <1>18, <1>19, <1>20, <1>22, <1>23 DEF Queue
  <1>25. Queued'
      BY <1>24 DEF Queued
  <1> QED BY <1>10, <1>14, <1>25, <1>27

----------------------------------------------------------------------------
(* Reads.                                                                  *)

LEMMA ServingExact == Typing /\ Serving => ReadExact
  <1> SUFFICES ASSUME Typing, Serving PROVE ReadExact
      OBVIOUS
  <1>1. /\ result \in Seq(Word) /\ out_data \in Seq(Word) /\ fetched \in Seq(Posted)
        /\ Len(result) \in Nat /\ Len(out_data) \in Nat /\ Len(fetched) \in Nat
      BY LenProperties DEF Typing
  <1>2. PICK s : s = result \o out_data
      OBVIOUS
  <1>3. PICK f : f = [i \in 1 .. Len(fetched) |-> fetched[i].val]
      OBVIOUS
  <1>4. /\ Len(result) + Len(out_data) = Len(fetched)
        /\ \A i \in 1 .. Len(result) : result[i] = fetched[i].val
        /\ \A i \in 1 .. Len(out_data) : out_data[i] = fetched[Len(result) + i].val
      BY DEF Serving, Sent
  <1>5. s \in Seq(Word) /\ Len(s) = Len(fetched)
    <2>1. result \o out_data \in Seq(Word) /\ Len(result \o out_data) = Len(result) + Len(out_data)
        BY <1>1, ConcatProperties
    <2> QED BY <1>2, <1>4, <2>1
  <1>6. f \in Seq(Word) /\ Len(f) = Len(fetched)
    <2>1. \A i \in 1 .. Len(fetched) : fetched[i].val \in Word
      <3> SUFFICES ASSUME NEW i \in 1 .. Len(fetched) PROVE fetched[i].val \in Word
          OBVIOUS
      <3>1. fetched[i] \in Posted
          BY <1>1, ElementOfSeq
      <3> QED BY <3>1 DEF Posted
    <2> QED BY <1>1, <1>3, <2>1
  <1>7. ASSUME NEW i \in 1 .. Len(s) PROVE s[i] = f[i]
    <2>1. \A j \in 1 .. Len(result) + Len(out_data) :
            s[j] = IF j <= Len(result) THEN result[j] ELSE out_data[j - Len(result)]
        BY <1>1, <1>2, ConcatProperties
    <2>2. i \in 1 .. Len(result) + Len(out_data) /\ f[i] = fetched[i].val
        BY <1>3, <1>4, <1>5
    <2>3. CASE i <= Len(result)
      <3>1. i \in 1 .. Len(result)
          BY <1>1, <2>2, <2>3
      <3> QED BY <1>4, <2>1, <2>2, <2>3, <3>1
    <2>4. CASE i > Len(result)
      <3>1. i - Len(result) \in 1 .. Len(out_data) /\ ~ i <= Len(result) /\ Len(result) + (i - Len(result)) = i
          BY <1>1, <2>2, <2>4
      <3>2. out_data[i - Len(result)] = fetched[Len(result) + (i - Len(result))].val
          BY <1>4, <3>1
      <3> QED BY <2>1, <2>2, <3>1, <3>2
    <2> QED BY <1>1, <2>2, <2>3, <2>4
  <1>8. s = f
      BY <1>5, <1>6, <1>7, SeqEqual
  <1> QED BY <1>2, <1>3, <1>8 DEF ReadExact, Serving, Asked

\* What the host receives is taken from what is on its way.
LEMMA Receiving ==
  ASSUME NEW r \in Seq(Word), NEW o \in Seq(Word), NEW f, NEW r2, NEW o2, Sent(r, o, f),
         o # <<>>, r2 = Append(r, Head(o)), o2 = Tail(o)
  PROVE  /\ r2 \in Seq(Word) /\ o2 \in Seq(Word) /\ Len(r2) = Len(r) + 1 /\ Len(o2) = Len(o) - 1
         /\ Sent(r2, o2, f)
  <1>1. /\ Len(r) \in Nat /\ Len(o) \in Nat \ {0} /\ Head(o) \in Word /\ o2 \in Seq(Word)
        /\ Len(o2) = Len(o) - 1 /\ Head(o) = o[1]
      BY LenProperties, HeadTailProperties, EmptySeq
  <1>2. \A i \in 1 .. Len(o2) : o2[i] = o[i + 1]
      BY <1>1, HeadTailProperties
  <1>3. r2 \in Seq(Word) /\ Len(r2) = Len(r) + 1
      BY <1>1, AppendProperties
  <1>4. (\A i \in 1 .. Len(r) : r2[i] = r[i]) /\ r2[Len(r) + 1] = o[1]
      BY <1>1, AppendProperties
  <1>5. /\ Len(r) + Len(o) = Len(f)
        /\ \A i \in 1 .. Len(r) : r[i] = f[i].val
        /\ \A i \in 1 .. Len(o) : o[i] = f[Len(r) + i].val
      BY DEF Sent
  <1>6. ASSUME NEW i \in 1 .. Len(r2) PROVE r2[i] = f[i].val
    <2>1. CASE i = Len(r) + 1
        BY <1>1, <1>4, <1>5, <2>1
    <2>2. CASE i \in 1 .. Len(r)
        BY <1>4, <1>5, <2>2
    <2> QED BY <1>1, <1>3, <2>1, <2>2
  <1>7. ASSUME NEW i \in 1 .. Len(o2) PROVE o2[i] = f[Len(r2) + i].val
    <2>1. i + 1 \in 1 .. Len(o) /\ Len(r) + (i + 1) = Len(r2) + i
        BY <1>1, <1>3
    <2> QED BY <1>2, <1>5, <2>1
  <1>8. Len(r2) + Len(o2) = Len(f)
      BY <1>1, <1>3, <1>5
  <1> QED BY <1>1, <1>3, <1>6, <1>7, <1>8 DEF Sent

\* What the adapter sends is what it fetches.
LEMMA Sending ==
  ASSUME NEW r \in Seq(Word), NEW o \in Seq(Word), NEW f \in Seq(Posted), Sent(r, o, f), NEW x \in Posted
  PROVE  Sent(r, Append(o, x.val), Append(f, x))
  <1> DEFINE o2 == Append(o, x.val)
             f2 == Append(f, x)
  <1>1. Len(r) \in Nat /\ Len(o) \in Nat /\ Len(f) \in Nat /\ x.val \in Word
      BY LenProperties DEF Posted
  <1>2. o2 \in Seq(Word) /\ Len(o2) = Len(o) + 1
      BY <1>1, AppendProperties
  <1>3. (\A i \in 1 .. Len(o) : o2[i] = o[i]) /\ o2[Len(o) + 1] = x.val
      BY <1>1, AppendProperties
  <1>4. f2 \in Seq(Posted) /\ Len(f2) = Len(f) + 1
      BY <1>1, AppendProperties
  <1>5. (\A i \in 1 .. Len(f) : f2[i] = f[i]) /\ f2[Len(f) + 1] = x
      BY <1>1, AppendProperties
  <1> HIDE DEF o2, f2
  <1>6. /\ Len(r) + Len(o) = Len(f)
        /\ \A i \in 1 .. Len(r) : r[i] = f[i].val
        /\ \A i \in 1 .. Len(o) : o[i] = f[Len(r) + i].val
      BY DEF Sent
  <1>12. Len(r) + Len(o) = Len(f)
      BY <1>6
  <1>13. \A a, b, n \in Nat : a + b = n => a + (b + 1) = n + 1
      OBVIOUS
  <1>7. ASSUME NEW i \in 1 .. Len(r) PROVE r[i] = f2[i].val
    <2>1. i \in 1 .. Len(f)
        BY <1>1, <1>6
    <2> QED BY <1>5, <1>6, <2>1
  <1>8. ASSUME NEW i \in 1 .. Len(o2) PROVE o2[i] = f2[Len(r) + i].val
    <2>1. CASE i = Len(o) + 1
      <3>1. Len(r) + i = Len(f) + 1
          BY <1>1, <1>12, <1>13, <2>1, Zenon
      <3> QED BY <1>3, <1>5, <2>1, <3>1
    <2>2. CASE i \in 1 .. Len(o)
      <3>1. Len(r) + i \in 1 .. Len(f)
          BY <1>1, <1>6, <2>2
      <3> QED BY <1>3, <1>5, <1>6, <2>2, <3>1
    <2>3. i \in 1 .. Len(o) \/ i = Len(o) + 1
        BY <1>1, <1>2
    <2> QED BY <2>1, <2>2, <2>3
  <1>9. Len(r) + Len(o2) = Len(f2)
    <2>1. Len(r) + (Len(o) + 1) = Len(f) + 1
        BY <1>1, <1>12, <1>13, Zenon
    <2> QED BY <1>2, <1>4, <2>1, Zenon
  <1> QED BY <1>7, <1>8, <1>9 DEF Sent, o2, f2

\* It fetches it at the next address.
LEMMA Fetching ==
  ASSUME NEW f \in Seq(Posted), NEW x \in Posted, NEW p, Asked(f, p), x.addr = p.addr + Len(f)
  PROVE  Append(f, x) \in Seq(Posted) /\ Len(Append(f, x)) = Len(f) + 1 /\ Asked(Append(f, x), p)
  <1> DEFINE f2 == Append(f, x)
  <1>1. Len(f) \in Nat
      BY LenProperties
  <1>2. f2 \in Seq(Posted) /\ Len(f2) = Len(f) + 1
      BY AppendProperties
  <1>3. (\A i \in 1 .. Len(f) : f2[i] = f[i]) /\ f2[Len(f) + 1] = x
      BY AppendProperties
  <1> HIDE DEF f2
  <1>4. ASSUME NEW i \in 1 .. Len(f2) PROVE f2[i].addr = p.addr + i - 1
    <2>1. CASE i = Len(f) + 1
      <3>1. p.addr + Len(f) = p.addr + i - 1
          BY <1>1, <2>1
      <3> QED BY <1>3, <2>1, <3>1
    <2>2. CASE i \in 1 .. Len(f)
        BY <1>3, <2>2 DEF Asked
    <2> QED BY <1>1, <1>2, <2>1, <2>2
  <1> QED BY <1>2, <1>4 DEF Asked, f2

----------------------------------------------------------------------------
(* The steps of the invariant.                                             *)

\* A step moves neither words nor writes; a read is in the queue only while it is not served.
LEMMA StillQueued ==
  ASSUME Queued, frame' = frame, in_data' = in_data, issued' = issued,
         \/ fetched' = fetched /\ sending' = sending /\ op' = op
         \/ sending # NoOp
         \/ fetched # <<>> /\ sending' = NoOp
  PROVE  Queued'
  <1>1. PICK S, I, K, P, Q, lo, hi : Queue(S, I, K, P, Q, lo, hi)
      BY DEF Queued
  <1>2. Landed' = Landed
      BY DEF Landed
  <1>3. Reading(K, lo, hi) /\ lo \in Nat
      BY <1>1 DEF Queue, Commands, Numbering
  <1>4. Reading(K, lo, hi)'
    <2>1. CASE fetched' = fetched /\ sending' = sending /\ op' = op
        BY <1>3, <2>1 DEF Reading
    <2>2. CASE sending # NoOp
        BY <1>3, <2>2 DEF Reading
    <2>3. CASE fetched # <<>> /\ sending' = NoOp
        BY <1>3, <2>3 DEF Reading
    <2> QED BY <2>1, <2>2, <2>3
  <1>5. Queue(S, I, K, P, Q, lo, hi)'
      BY <1>1, <1>2, <1>4 DEF Queue
  <1> QED BY <1>5 DEF Queued

\* The host gives control to the target.
LEMMA SwitchStep == IInv /\ SwitchToTarget => IInv'
  <1> SUFFICES ASSUME IInv, SwitchToTarget PROVE IInv'
      OBVIOUS
  <1>1. UNCHANGED <<hostVars, in_data, out_data, adapter, issued, fetched>>
      BY DEF SwitchToTarget
  <1>2. /\ frame' = frame /\ in_data' = in_data /\ issued' = issued /\ fetched' = fetched
        /\ sending' = sending /\ op' = op /\ out_data' = out_data /\ result' = result /\ mem' = mem
      BY <1>1 DEF hostVars, adapter
  <1>3. Typing'
      BY <1>2 DEF IInv, Typing
  <1>4. Serving'
      BY <1>2 DEF IInv, Serving
  <1>5. Queued'
      BY <1>2, StillQueued DEF IInv
  <1> QED BY <1>3, <1>4, <1>5 DEF IInv

\* A cycle of the core alone.
LEMMA CoreStep == IInv /\ TickCore => IInv' /\ [Port!Next]_<<mem, issued>>
  <1> SUFFICES ASSUME IInv, TickCore PROVE IInv' /\ [Port!Next]_<<mem, issued>>
      OBVIOUS
  <1>1. /\ UNCHANGED <<hostVars, in_data, out_data, frame, sending, issued, fetched>>
        /\ \/ UNCHANGED mem
           \/ \E a \in Programs, v \in Word : mem' = [mem EXCEPT ![a] = v]
      BY DEF TickCore
  <1>2. /\ frame' = frame /\ in_data' = in_data /\ issued' = issued /\ fetched' = fetched
        /\ sending' = sending /\ op' = op /\ out_data' = out_data /\ result' = result
      BY <1>1 DEF hostVars
  <1>3. mem' \in [WordAddr -> Word]
      BY <1>1 DEF IInv, Typing, Programs
  <1>4. Typing'
      BY <1>2, <1>3 DEF IInv, Typing
  <1>5. Serving'
      BY <1>2 DEF IInv, Serving
  <1>6. Queued'
      BY <1>2, StillQueued DEF IInv
  <1>7. [Port!Next]_<<mem, issued>>
    <2>1. CASE UNCHANGED mem
        BY <1>2, <2>1
    <2>2. CASE \E a \in Programs, v \in Word : mem' = [mem EXCEPT ![a] = v]
      <3>1. PICK a \in Programs, v \in Word : mem' = [mem EXCEPT ![a] = v]
          BY <2>2
      <3>2. a \in WordAddr /\ Port!Store(a, v)
          BY <1>2, <3>1 DEF Port!Store, Programs
      <3> QED BY <3>2 DEF Port!Next
    <2> QED BY <1>1, <2>1, <2>2
  <1> QED BY <1>4, <1>5, <1>6, <1>7 DEF IInv

\* The host receives a word; with the last, the read is over, and nothing of it is left.
LEMMA ReceiveStep == IInv /\ ReceiveWord => IInv' /\ UNCHANGED <<mem, issued>>
  <1> SUFFICES ASSUME IInv, ReceiveWord PROVE IInv' /\ UNCHANGED <<mem, issued>>
      OBVIOUS
  <1>1. /\ op # NoOp /\ out_data # <<>>
        /\ result' = Append(result, Head(out_data)) /\ out_data' = Tail(out_data)
        /\ op' = IF Len(result') = op.len THEN NoOp ELSE op
        /\ UNCHANGED <<current, phase, writes, in_data, adapter, issued, fetched>>
      BY DEF ReceiveWord, Waiting
  <1>2. /\ frame' = frame /\ in_data' = in_data /\ issued' = issued /\ fetched' = fetched
        /\ sending' = sending /\ mem' = mem
      BY <1>1 DEF adapter
  <1>3. /\ Asked(fetched, op) /\ Len(result) < op.len /\ Len(fetched) <= op.len
        /\ Sent(result, out_data, fetched)
        /\ sending # NoOp => /\ issued = <<>> /\ Len(fetched) < op.len
                             /\ sending = [addr |-> op.addr + Len(fetched), len |-> op.len - Len(fetched)]
      BY <1>1 DEF IInv, Serving
  <1>4. /\ op.len \in Nat \ {0} /\ op.addr \in Nat /\ op.addr + op.len <= MSIP
        /\ result \in Seq(Word) /\ out_data \in Seq(Word) /\ fetched \in Seq(Posted)
      BY <1>1 DEF IInv, Typing
  <1>5. /\ result' \in Seq(Word) /\ out_data' \in Seq(Word)
        /\ Len(result') = Len(result) + 1 /\ Sent(result', out_data', fetched)
      BY <1>1, <1>3, <1>4, Receiving
  <1>6. /\ Len(result) \in Nat /\ Len(fetched) \in Nat /\ Len(out_data') \in Nat
        /\ Len(result') + Len(out_data') = Len(fetched)
      BY <1>4, <1>5, LenProperties DEF Sent
  <1>7. Typing'
      BY <1>1, <1>2, <1>5 DEF IInv, Typing
  <1>8. ASSUME Len(result') = op.len
        PROVE  op' = NoOp /\ out_data' = <<>> /\ sending = NoOp /\ fetched # <<>>
    <2>1. Len(out_data') = 0 /\ Len(fetched) = op.len /\ Len(fetched) # 0
        BY <1>3, <1>4, <1>6, <1>8
    <2>2. out_data' = <<>> /\ fetched # <<>>
        BY <1>5, <2>1, EmptySeq
    <2>3. sending = NoOp
        BY <1>3, <1>4, <2>1
    <2> QED BY <1>1, <1>8, <2>2, <2>3
  <1>9. CASE Len(result') = op.len
    <2>1. Serving'
        BY <1>2, <1>5, <1>8, <1>9 DEF Serving
    <2>2. Queued'
        BY <1>2, <1>8, <1>9, StillQueued DEF IInv
    <2> QED BY <1>2, <1>7, <2>1, <2>2 DEF IInv
  <1>10. CASE Len(result') # op.len
    <2>1. op' = op /\ Len(result') < op.len
        BY <1>1, <1>3, <1>4, <1>5, <1>6, <1>10
    <2>2. Serving'
        BY <1>1, <1>2, <1>3, <1>5, <2>1 DEF Serving
    <2>3. Queued'
        BY <1>2, <2>1, StillQueued DEF IInv
    <2> QED BY <1>2, <1>7, <2>2, <2>3 DEF IInv
  <1> QED BY <1>9, <1>10

\* The adapter sends a word of a read.
LEMMA SendStep == IInv /\ TickSend => IInv' /\ UNCHANGED <<mem, issued>>
  <1> SUFFICES ASSUME IInv, TickSend PROVE IInv' /\ UNCHANGED <<mem, issued>>
      OBVIOUS
  <1>1. /\ sending # NoOp
        /\ out_data' = Append(out_data, mem[sending.addr])
        /\ fetched' = Append(fetched, [addr |-> sending.addr, val |-> mem[sending.addr]])
        /\ sending' = IF sending.len = 1 THEN NoOp
                      ELSE [addr |-> sending.addr + 1, len |-> sending.len - 1]
        /\ UNCHANGED <<hostVars, in_data, frame, mem, issued>>
      BY DEF TickSend
  <1>2. /\ frame' = frame /\ in_data' = in_data /\ issued' = issued /\ mem' = mem
        /\ op' = op /\ result' = result
      BY <1>1 DEF hostVars
  <1>3. /\ issued = <<>> /\ op # NoOp /\ Len(fetched) < op.len
        /\ sending = [addr |-> op.addr + Len(fetched), len |-> op.len - Len(fetched)]
        /\ Asked(fetched, op) /\ Len(result) < op.len
        /\ Sent(result, out_data, fetched)
      BY <1>1 DEF IInv, Serving
  <1>4. /\ op.len \in Nat \ {0} /\ op.addr \in Nat /\ op.addr + op.len <= MSIP
        /\ result \in Seq(Word) /\ out_data \in Seq(Word) /\ fetched \in Seq(Posted)
        /\ Len(fetched) \in Nat /\ mem \in [WordAddr -> Word] /\ sending.addr \in WordAddr
      BY <1>1, <1>3, LenProperties DEF IInv, Typing
  <1>5. PICK x : x = [addr |-> sending.addr, val |-> mem[sending.addr]]
      OBVIOUS
  <1>6. x \in Posted /\ x.val = mem[sending.addr] /\ x.addr = op.addr + Len(fetched)
      BY <1>3, <1>4, <1>5 DEF Posted
  <1>7. out_data' = Append(out_data, x.val) /\ fetched' = Append(fetched, x)
      BY <1>1, <1>5, <1>6
  <1>8. /\ out_data' \in Seq(Word) /\ fetched' \in Seq(Posted) /\ Len(fetched') = Len(fetched) + 1
        /\ Sent(result, out_data', fetched') /\ Asked(fetched', op)
    <2>1. out_data' \in Seq(Word)
        BY <1>4, <1>6, <1>7, AppendProperties DEF Posted
    <2>2. Sent(result, out_data', fetched')
        BY <1>3, <1>4, <1>6, <1>7, Sending
    <2>3. fetched' \in Seq(Posted) /\ Len(fetched') = Len(fetched) + 1 /\ Asked(fetched', op)
        BY <1>3, <1>4, <1>6, <1>7, Fetching
    <2> QED BY <2>1, <2>2, <2>3
  <1>9. sending' # NoOp =>
          /\ Len(fetched') < op.len
          /\ sending' = [addr |-> op.addr + Len(fetched'), len |-> op.len - Len(fetched')]
          /\ sending'.len \in Nat \ {0} /\ sending'.addr \in WordAddr
    <2> SUFFICES ASSUME sending' # NoOp
                 PROVE  /\ Len(fetched') < op.len
                        /\ sending' = [addr |-> op.addr + Len(fetched'), len |-> op.len - Len(fetched')]
                        /\ sending'.len \in Nat \ {0} /\ sending'.addr \in WordAddr
        OBVIOUS
    <2>1. PICK n \in Nat, a \in Nat, l \in Nat \ {0} : n = Len(fetched) /\ a = op.addr /\ l = op.len
        BY <1>4
    <2>2. sending = [addr |-> a + n, len |-> l - n] /\ n < l /\ a + l <= MSIP /\ Len(fetched') = n + 1
        BY <1>3, <1>4, <1>8, <2>1
    <2>3. sending.len # 1 /\ sending' = [addr |-> sending.addr + 1, len |-> sending.len - 1]
        BY <1>1
    <2>4. l - n # 1 /\ sending' = [addr |-> (a + n) + 1, len |-> (l - n) - 1]
        BY <2>2, <2>3
    <2>5. n + 1 < l /\ (a + n) + 1 = a + (n + 1) /\ (l - n) - 1 = l - (n + 1)
        BY <2>2, <2>4
    <2>6. (a + n) + 1 \in WordAddr /\ (l - n) - 1 \in Nat \ {0}
        BY <2>2, <2>5, Memory
    <2> QED BY <2>1, <2>2, <2>4, <2>5, <2>6
  <1>10. Typing'
      BY <1>2, <1>4, <1>8, <1>9 DEF IInv, Typing
  <1>11. Len(fetched') <= op.len
      BY <1>3, <1>4, <1>8
  <1>12. Serving'
      BY <1>2, <1>3, <1>8, <1>9, <1>11 DEF Serving
  <1>13. Queued'
      BY <1>1, <1>2, StillQueued DEF IInv
  <1> QED BY <1>2, <1>10, <1>12, <1>13 DEF IInv

\* The first command of the queue.
LEMMA First ==
  ASSUME NEW S, NEW I, NEW K, NEW P, NEW Q, NEW lo, NEW hi, Commands(S, I, K, P, Q, lo, hi), lo < hi
  PROVE  /\ K[lo] \in Command /\ Data(K[lo]) \in Nat /\ Entry(S, I, K[lo], P[lo], Q[lo])
         /\ P[lo + 1] = P[lo] + 5 + Data(K[lo]) /\ Q[lo + 1] = Q[lo] + Data(K[lo])
         /\ P[lo + 1] <= P[hi] /\ Q[lo + 1] <= Q[hi]
         /\ lo \in Nat /\ hi \in Nat /\ P[lo] \in Nat /\ P[hi] \in Nat /\ Q[lo] \in Nat /\ Q[hi] \in Nat
         /\ Commands(S, I, K, P, Q, lo + 1, hi)
  <1>1. /\ Numbering(K, P, Q, lo, hi)
        /\ \A j \in lo .. hi - 1 : Entry(S, I, K[j], P[j], Q[j])
      BY DEF Commands
  <1>2. /\ K \in [Nat -> Command] /\ P \in [Nat -> Nat] /\ Q \in [Nat -> Nat]
        /\ lo \in Nat /\ hi \in Nat
      BY <1>1 DEF Numbering
  <1>3. lo \in lo .. hi - 1 /\ lo + 1 \in lo .. hi /\ lo + 1 <= hi /\ lo + 1 \in Nat
      BY <1>2
  <1>4. P[lo + 1] = P[lo] + 5 + Data(K[lo]) /\ Q[lo + 1] = Q[lo] + Data(K[lo])
      BY <1>1, <1>3 DEF Numbering
  <1>5. P[lo + 1] <= P[hi] /\ Q[lo + 1] <= Q[hi]
      BY <1>1, <1>3 DEF Numbering
  <1>6. K[lo] \in Command /\ Data(K[lo]) \in Nat
      BY <1>2 DEF Data, Command
  <1>7. \A j \in lo + 1 .. hi - 1 : j \in lo .. hi - 1
      BY <1>2
  <1>8. \A j \in lo + 1 .. hi : j \in lo .. hi
      BY <1>2
  <1>9. Numbering(K, P, Q, lo + 1, hi)
      BY <1>1, <1>3, <1>7, <1>8 DEF Numbering
  <1>10. Commands(S, I, K, P, Q, lo + 1, hi)
      BY <1>1, <1>7, <1>9 DEF Commands
  <1>11. Entry(S, I, K[lo], P[lo], Q[lo])
      BY <1>1, <1>3
  <1>12. P[lo] \in Nat /\ P[hi] \in Nat /\ Q[lo] \in Nat /\ Q[hi] \in Nat
      BY <1>2
  <1> QED BY <1>2, <1>4, <1>5, <1>6, <1>10, <1>11, <1>12

\* The oldest write lands.
LEMMA Landing ==
  ASSUME NEW s \in Seq(Posted), NEW I, NEW q \in Nat, NEW e \in Nat, Writes(s, I, q, e), q < e
  PROVE  /\ s # <<>> /\ Head(s) = I[q + 1] /\ Tail(s) \in Seq(Posted)
         /\ Writes(Tail(s), I, q + 1, e)
  <1>1. /\ Len(s) = e - q
        /\ \A x \in 1 .. Len(s) : s[x] = I[q + x]
      BY DEF Writes
  <1>2. Len(s) \in Nat /\ Len(s) # 0
      BY <1>1
  <1>3. s # <<>>
      BY <1>2, EmptySeq
  <1>4. PICK u : u = Tail(s)
      OBVIOUS
  <1>5. u \in Seq(Posted) /\ Len(u) = Len(s) - 1 /\ Head(s) = s[1]
      BY <1>3, <1>4, HeadTailProperties
  <1>6. \A i \in 1 .. Len(u) : u[i] = s[i + 1]
      BY <1>3, <1>4, HeadTailProperties
  <1>7. ASSUME NEW x \in 1 .. Len(u) PROVE u[x] = I[q + 1 + x]
    <2>1. x + 1 \in 1 .. Len(s) /\ q + (x + 1) = q + 1 + x
        BY <1>2, <1>5
    <2> QED BY <1>1, <1>6, <2>1
  <1>8. Len(u) = e - (q + 1)
      BY <1>1, <1>5
  <1>9. Writes(u, I, q + 1, e)
      BY <1>7, <1>8 DEF Writes
  <1>10. Head(s) = I[q + 1]
      BY <1>1, <1>2, <1>5
  <1> QED BY <1>3, <1>4, <1>5, <1>9, <1>10

\* The adapter takes a word of a header; with the last word of a read's it starts to serve it.
LEMMA HeaderStep == IInv /\ TickHeader => IInv' /\ UNCHANGED <<mem, issued>>
  <1> SUFFICES ASSUME IInv, TickHeader PROVE IInv' /\ UNCHANGED <<mem, issued>>
      OBVIOUS
  <1>1. PICK w \in Word :
          /\ TakeWord(w)
          /\ IF Len(Append(frame, w)) = 5 /\ Append(frame, w)[1] = SAI_CMD_READ
             THEN /\ frame' = <<>>
                  /\ sending' = [addr |-> Number(Append(frame, w)[2], Append(frame, w)[3]),
                                 len |-> Number(Append(frame, w)[4], Append(frame, w)[5]) + 1]
             ELSE frame' = Append(frame, w) /\ UNCHANGED sending
      BY DEF TickHeader
  <1>2. Len(frame) < 5 /\ UNCHANGED <<hostVars, out_data, mem, issued, fetched>>
      BY DEF TickHeader
  <1>3. /\ issued' = issued /\ fetched' = fetched /\ mem' = mem
        /\ op' = op /\ result' = result /\ out_data' = out_data
      BY <1>2 DEF hostVars
  <1>4. sending = NoOp /\ in_data # <<>>
      BY <1>1 DEF TakeWord
  <1>5. PICK S, I, K, P, Q, lo, hi : Queue(S, I, K, P, Q, lo, hi)
      BY DEF IInv, Queued
  <1>6. /\ Commands(S, I, K, P, Q, lo, hi)
        /\ Words(frame, in_data, S, P[lo], P[hi])
        /\ Writes(issued, I, Q[lo] + Landed, Q[hi])
        /\ Reading(K, lo, hi)
      BY <1>5 DEF Queue
  <1>7. lo \in Nat /\ hi \in Nat /\ lo <= hi /\ P[lo] \in Nat /\ P[hi] \in Nat
      BY <1>6 DEF Commands, Numbering
  <1>8. PICK p \in Nat, e \in Nat, n \in Nat : p = P[lo] /\ e = P[hi] /\ n = Len(frame)
      BY <1>7, LenProperties DEF IInv, Typing
  <1>9. Typing /\ TakeWord(w) /\ Words(frame, in_data, S, p, e)
      BY <1>1, <1>6, <1>8 DEF IInv
  <1>10. /\ w \in Int /\ in_data' \in Seq(Int) /\ n \in Nat /\ n < e - p
         /\ w = S[p + n + 1] /\ \A x \in 1 .. n : frame[x] = S[p + x]
    <2>1. w \in Int /\ in_data' \in Seq(Int) /\ n < e - p
        BY <1>8, <1>9, TakingWord
    <2>2. w = S[p + n + 1]
        BY <1>8, <1>9, NextWord
    <2>3. \A x \in 1 .. n : frame[x] = S[p + x]
        BY <1>9, <1>8 DEF Words
    <2> QED BY <2>1, <2>2, <2>3
  <1>11. lo < hi
      BY <1>7, <1>8, <1>10
  <1>12. PICK c : c = K[lo]
      OBVIOUS
  <1>13. /\ c \in Command /\ Data(c) \in Nat /\ Entry(S, I, c, P[lo], Q[lo])
         /\ P[lo + 1] = P[lo] + 5 + Data(c) /\ Q[lo + 1] = Q[lo] + Data(c)
         /\ Q[lo] \in Nat /\ Q[hi] \in Nat
         /\ Commands(S, I, K, P, Q, lo + 1, hi)
      BY <1>6, <1>11, <1>12, First
  <1>14. Landed = 0 /\ n <= 4
      BY <1>2, <1>8, <1>10 DEF Landed
  <1>15. PICK f : f = Append(frame, w)
      OBVIOUS
  <1>16. f \in Seq(Int) /\ Len(f) = n + 1
      BY <1>8, <1>9, <1>10, <1>15, AppendProperties DEF Typing
  <1>17. (\A x \in 1 .. n : f[x] = frame[x]) /\ f[n + 1] = w
      BY <1>8, <1>9, <1>10, <1>15, AppendProperties DEF Typing
  <1>18. ASSUME NEW x \in 1 .. n + 1 PROVE f[x] = S[p + x]
    <2>1. CASE x \in 1 .. n
        BY <1>10, <1>17, <2>1
    <2>2. CASE x = n + 1
      <3>1. p + x = p + n + 1
          BY <1>10, <2>2
      <3> QED BY <1>10, <1>17, <2>2, <3>1
    <2> QED BY <1>10, <2>1, <2>2
  <1>19. /\ S[p + 1] = c.cmd
         /\ Number(S[p + 2], S[p + 3]) = c.addr
         /\ Number(S[p + 4], S[p + 5]) = c.len - 1
      BY <1>8, <1>13 DEF Entry
  <1>20. f[1] = c.cmd
      BY <1>10, <1>18, <1>19
  <1>21. CASE Len(f) = 5 /\ f[1] = SAI_CMD_READ
    <2>1. n = 4 /\ f[2] = S[p + 2] /\ f[3] = S[p + 3] /\ f[4] = S[p + 4] /\ f[5] = S[p + 5]
      <3>1. n = 4
        <4>1. n + 1 = 5
            BY <1>16, <1>21
        <4> QED BY <4>1
      <3>2. \A x \in 1 .. 5 : f[x] = S[p + x]
          BY <1>18, <3>1
      <3> QED BY <3>1, <3>2
    <2>2. frame' = <<>> /\ sending' = [addr |-> Number(f[2], f[3]), len |-> Number(f[4], f[5]) + 1]
        BY <1>1, <1>15, <1>21
    <2>3. c.addr \in Nat /\ c.len \in Nat \ {0} /\ c.cmd = SAI_CMD_READ
        BY <1>13, <1>20, <1>21 DEF Command
    <2>4. sending' = [addr |-> c.addr, len |-> c.len]
        BY <1>19, <2>1, <2>2, <2>3
    <2>5. lo = hi - 1 /\ fetched = <<>> /\ op = [addr |-> c.addr, len |-> c.len]
        BY <1>6, <1>7, <1>11, <1>12, <2>3 DEF Reading
    <2>6. lo + 1 = hi /\ Data(c) = 0
        BY <1>7, <2>3, <2>5 DEF Data, SAI_CMD_READ, SAI_CMD_WRITE
    <2>7. Words(frame', in_data', S, p + n + 1, e)
        BY <1>8, <1>9, <2>2, TakingWord
    <2>8. P[hi] = p + n + 1 /\ Q[hi] = Q[lo]
        BY <1>8, <1>13, <2>1, <2>6
    <2>9. Words(frame', in_data', S, P[hi], P[hi])
        BY <1>8, <2>7, <2>8
    <2>10. Len(frame') = 0
        BY <2>2
    <2>11. Writes(issued', I, Q[hi] + Landed', Q[hi])
      <3>1. Landed' = 0
          BY <2>10 DEF Landed
      <3>2. Q[lo] + Landed = Q[hi] + Landed'
          BY <1>13, <1>14, <2>8, <3>1
      <3> QED BY <1>3, <1>6, <3>2
    <2>12. Reading(K, hi, hi)'
      <3>1. \A j \in hi .. hi - 1 : FALSE
          BY <1>7
      <3> QED BY <3>1 DEF Reading
    <2>13. Queue(S, I, K, P, Q, hi, hi)'
        BY <1>13, <2>6, <2>9, <2>10, <2>11, <2>12 DEF Queue
    <2>14. Queued'
        BY <2>13 DEF Queued
    <2>15. op # NoOp /\ sending'.addr \in WordAddr /\ sending'.len \in Nat \ {0}
      <3>1. op.len # 0 /\ op.addr = c.addr /\ op.len = c.len
          BY <2>3, <2>5
      <3>2. op # NoOp
          BY <3>1 DEF NoOp
      <3>3. c.addr + c.len <= MSIP
          BY <1>9, <3>1, <3>2 DEF Typing
      <3> QED BY <2>3, <2>4, <3>2, <3>3, Memory
    <2>16. Typing'
      <3>1. frame' \in Seq(Int)
          BY <2>2, EmptySeq
      <3> QED BY <1>3, <1>9, <1>10, <2>15, <3>1 DEF Typing
    <2>17. issued = <<>>
      <3>1. Len(issued) = 0
          BY <1>6, <1>13, <1>14, <2>8 DEF Writes
      <3> QED BY <1>9, <3>1, EmptySeq DEF Typing
    <2>18. Len(fetched) = 0
        BY <2>5
    <2>19. sending' = [addr |-> op.addr + Len(fetched), len |-> op.len - Len(fetched)] /\ Len(fetched) < op.len
        BY <2>3, <2>4, <2>5, <2>18
    <2>20. Serving'
        BY <1>3, <2>15, <2>17, <2>19 DEF IInv, Serving
    <2> QED BY <1>3, <2>14, <2>16, <2>20 DEF IInv
  <1>22. CASE ~ (Len(f) = 5 /\ f[1] = SAI_CMD_READ)
    <2>1. frame' = Append(frame, w) /\ sending' = sending
        BY <1>1, <1>15, <1>22
    <2>2. frame' \in Seq(Int) /\ Len(frame') = n + 1
        BY <1>15, <1>16, <2>1
    <2>3. Words(frame', in_data', S, p, e)
        BY <1>8, <1>9, <2>1, TakingWord
    <2>4. Typing'
        BY <1>3, <1>9, <1>10, <2>1, <2>2 DEF Typing
    <2>5. Serving'
        BY <1>3, <2>1 DEF IInv, Serving
    <2>6. Landed' = Landed
      <3>1. Len(frame') <= 5 /\ ~ Len(frame') > 5
          BY <1>14, <2>2
      <3> QED BY <1>14, <3>1 DEF Landed
    <2>7. Len(frame') >= 5 => lo < hi /\ K[lo].cmd = SAI_CMD_WRITE /\ Len(frame') < 5 + K[lo].len
      <3> SUFFICES ASSUME Len(frame') >= 5 PROVE K[lo].cmd = SAI_CMD_WRITE /\ Len(frame') < 5 + K[lo].len
          BY <1>11
      <3>1. Len(frame') = 5 /\ Len(f) = 5
          BY <1>10, <1>14, <1>16, <2>2
      <3>2. c.cmd = SAI_CMD_WRITE /\ c.len \in Nat \ {0}
          BY <1>13, <1>20, <1>22, <3>1 DEF Command
      <3> QED BY <1>12, <3>1, <3>2
    <2>8. Reading(K, lo, hi)'
        BY <1>3, <1>6, <2>1 DEF Reading
    <2>9. Queue(S, I, K, P, Q, lo, hi)'
        BY <1>3, <1>6, <1>8, <2>3, <2>6, <2>7, <2>8 DEF Queue
    <2>10. Queued'
        BY <2>9 DEF Queued
    <2> QED BY <1>3, <2>4, <2>5, <2>10 DEF IInv
  <1> QED BY <1>21, <1>22

\* The adapter stores a word of data: the oldest write that the host posted lands.
LEMMA DataStep == IInv /\ TickData => IInv' /\ Port!Land
  <1> SUFFICES ASSUME IInv, TickData PROVE IInv' /\ Port!Land
      OBVIOUS
  <1>1. PICK w \in Word :
          /\ TakeWord(w)
          /\ mem' = [mem EXCEPT ![FrameAddr + Len(frame) - 5] = w]
          /\ frame' = IF Len(frame) - 4 = FrameLen THEN <<>> ELSE Append(frame, w)
      BY DEF TickData
  <1>2. Len(frame) >= 5 /\ issued' = Tail(issued) /\ UNCHANGED <<hostVars, out_data, sending, fetched>>
      BY DEF TickData
  <1>3. /\ sending' = sending /\ fetched' = fetched
        /\ op' = op /\ result' = result /\ out_data' = out_data
      BY <1>2 DEF hostVars
  <1>4. sending = NoOp
      BY <1>1 DEF TakeWord
  <1>5. PICK S, I, K, P, Q, lo, hi : Queue(S, I, K, P, Q, lo, hi)
      BY DEF IInv, Queued
  <1>6. /\ Commands(S, I, K, P, Q, lo, hi)
        /\ Words(frame, in_data, S, P[lo], P[hi])
        /\ Writes(issued, I, Q[lo] + Landed, Q[hi])
        /\ Reading(K, lo, hi)
        /\ lo < hi /\ K[lo].cmd = SAI_CMD_WRITE /\ Len(frame) < 5 + K[lo].len
      BY <1>2, <1>5 DEF Queue
  <1>7. PICK c : c = K[lo]
      OBVIOUS
  <1>8. /\ c \in Command /\ Data(c) \in Nat /\ Entry(S, I, c, P[lo], Q[lo])
        /\ P[lo + 1] = P[lo] + 5 + Data(c) /\ Q[lo + 1] = Q[lo] + Data(c)
        /\ Q[lo + 1] <= Q[hi]
        /\ lo \in Nat /\ hi \in Nat /\ P[lo] \in Nat /\ P[hi] \in Nat /\ Q[lo] \in Nat /\ Q[hi] \in Nat
        /\ Commands(S, I, K, P, Q, lo + 1, hi)
      BY <1>6, <1>7, First
  <1>9. PICK p \in Nat, e \in Nat, n \in Nat : p = P[lo] /\ e = P[hi] /\ n = Len(frame)
      BY <1>8, LenProperties DEF IInv, Typing
  <1>10. Typing /\ TakeWord(w) /\ Words(frame, in_data, S, p, e)
      BY <1>1, <1>6, <1>9 DEF IInv
  <1>11. w \in Int /\ in_data' \in Seq(Int)
      BY <1>9, <1>10, TakingWord
  <1>12. w = S[p + n + 1]
      BY <1>9, <1>10, NextWord
  <1>13. Data(c) = c.len /\ c.len \in Nat \ {0} /\ c.addr \in Nat
      BY <1>6, <1>7, <1>8 DEF Data, Command
  <1>14. PICK i \in 1 .. c.len : n = i + 4
    <2>1. n >= 5 /\ n < 5 + c.len
        BY <1>2, <1>6, <1>7, <1>9
    <2>2. n - 4 \in 1 .. c.len /\ n = (n - 4) + 4
        BY <1>13, <2>1
    <2> QED BY <2>2
  <1>15. i \in Nat /\ Landed = i - 1
      BY <1>9, <1>14 DEF Landed
  <1>16. FrameAddr = c.addr /\ FrameLen = c.len
    <2>1. \A x \in 1 .. 5 : frame[x] = S[p + x]
      <3>1. \A x \in 1 .. 5 : x \in 1 .. n
          BY <1>14
      <3> QED BY <1>9, <1>10, <3>1 DEF Words
    <2>2. /\ Number(S[p + 2], S[p + 3]) = c.addr
          /\ Number(S[p + 4], S[p + 5]) = c.len - 1
        BY <1>8, <1>9 DEF Entry
    <2>3. Number(frame[2], frame[3]) = c.addr /\ Number(frame[4], frame[5]) = c.len - 1
        BY <2>1, <2>2
    <2> QED BY <1>13, <2>3 DEF FrameAddr, FrameLen
  <1>17. I[Q[lo] + i] = [addr |-> c.addr + i - 1, val |-> w]
    <2>1. I[Q[lo] + i] = [addr |-> c.addr + i - 1, val |-> S[p + 5 + i]]
        BY <1>8, <1>9, <1>13, <1>14 DEF Entry
    <2>2. p + 5 + i = p + n + 1
        BY <1>14
    <2> QED BY <1>12, <2>1, <2>2
  <1>18. PICK q \in Nat, z \in Nat : q = Q[lo] + Landed /\ z = Q[hi]
      BY <1>8, <1>15
  <1>19. q < z /\ q + 1 = Q[lo] + i
      BY <1>8, <1>13, <1>14, <1>15, <1>18
  <1>20. Writes(issued, I, q, z) /\ issued \in Seq(Posted)
      BY <1>6, <1>10, <1>18 DEF Typing
  <1>21. issued # <<>> /\ Head(issued) = I[q + 1]
      BY <1>19, <1>20, Landing
  <1>22. issued' \in Seq(Posted) /\ Writes(issued', I, q + 1, z)
      BY <1>2, <1>19, <1>20, Landing
  <1>23. Port!Land
    <2>1. Head(issued) = [addr |-> c.addr + i - 1, val |-> w]
        BY <1>17, <1>19, <1>21
    <2>2. FrameAddr + Len(frame) - 5 = c.addr + i - 1
        BY <1>9, <1>13, <1>14, <1>16
    <2>4. Head(issued).addr = c.addr + i - 1 /\ Head(issued).val = w
        BY <2>1
    <2>3. mem' = [mem EXCEPT ![Head(issued).addr] = Head(issued).val]
        BY <1>1, <2>2, <2>4, Zenon
    <2> QED BY <1>2, <1>21, <2>3 DEF Port!Land
  <1>24. mem' \in [WordAddr -> Word]
      BY <1>1, <1>10 DEF Typing
  <1>25. Serving'
      BY <1>3, <1>4 DEF IInv, Serving
  <1>26. CASE i = c.len
    <2>1. frame' = <<>>
      <3>1. Len(frame) - 4 = FrameLen
          BY <1>9, <1>14, <1>16, <1>26
      <3> QED BY <1>1, <3>1
    <2>2. frame' \in Seq(Int) /\ Len(frame') = 0
        BY <2>1, EmptySeq
    <2>3. Words(frame', in_data', S, p + n + 1, e)
        BY <1>9, <1>10, <2>1, TakingWord
    <2>4. P[lo + 1] = p + n + 1
        BY <1>8, <1>9, <1>13, <1>14, <1>26
    <2>5. Landed' = 0
        BY <2>2 DEF Landed
    <2>6. Q[lo + 1] + Landed' = q + 1
        BY <1>8, <1>13, <1>19, <1>26, <2>5
    <2>7. Writes(issued', I, Q[lo + 1] + Landed', Q[hi])
        BY <1>18, <1>22, <2>6
    <2>8. Words(frame', in_data', S, P[lo + 1], P[hi])
        BY <1>9, <2>3, <2>4
    <2>9. Reading(K, lo + 1, hi)'
      <3>1. \A j \in lo + 1 .. hi - 1 : j \in lo .. hi - 1
          BY <1>8
      <3> QED BY <1>3, <1>4, <1>6, <3>1 DEF Reading
    <2>10. Queue(S, I, K, P, Q, lo + 1, hi)'
        BY <1>8, <2>2, <2>7, <2>8, <2>9 DEF Queue
    <2>11. Queued'
        BY <2>10 DEF Queued
    <2>12. Typing'
        BY <1>3, <1>10, <1>11, <1>22, <1>24, <2>2 DEF Typing
    <2> QED BY <1>23, <1>25, <2>11, <2>12 DEF IInv
  <1>27. CASE i # c.len
    <2>1. frame' = Append(frame, w)
      <3>1. Len(frame) - 4 # FrameLen
          BY <1>9, <1>14, <1>16, <1>27
      <3> QED BY <1>1, <3>1
    <2>2. frame' \in Seq(Int) /\ Len(frame') = n + 1
        BY <1>9, <1>10, <1>11, <2>1, AppendProperties DEF Typing
    <2>3. Words(frame', in_data', S, p, e)
        BY <1>9, <1>10, <2>1, TakingWord
    <2>4. Landed' = i
        BY <1>14, <2>2 DEF Landed
    <2>5. Writes(issued', I, Q[lo] + Landed', Q[hi])
        BY <1>18, <1>19, <1>22, <2>4
    <2>6. Len(frame') < 5 + c.len
        BY <1>13, <1>14, <1>27, <2>2
    <2>7. Reading(K, lo, hi)'
        BY <1>3, <1>6 DEF Reading
    <2>8. Queue(S, I, K, P, Q, lo, hi)'
        BY <1>6, <1>7, <1>9, <2>3, <2>5, <2>6, <2>7 DEF Queue
    <2>9. Queued'
        BY <2>8 DEF Queued
    <2>10. Typing'
        BY <1>3, <1>10, <1>11, <1>22, <1>24, <2>2 DEF Typing
    <2> QED BY <1>23, <1>25, <2>9, <2>10 DEF IInv
  <1> QED BY <1>26, <1>27

\* The host queues a command: what it posted before is as it was.
LEMMA PostStep ==
  ASSUME issued \in Seq(Posted), issued' \in Seq(Posted), Len(issued') > Len(issued),
         \A i \in 1 .. Len(issued) : issued'[i] = issued[i], UNCHANGED mem
  PROVE  Port!PostSome
  <1>1. Len(issued) \in Nat /\ Len(issued') \in Nat
      BY LenProperties
  <1>2. PICK s : s = SubSeq(issued', 1, Len(issued))
      OBVIOUS
  <1>3. s \in Seq(Posted) /\ Len(s) = Len(issued) /\ \A i \in 1 .. Len(issued) : s[i] = issued'[i]
    <2>1. \A i \in 1 .. Len(issued) : issued'[i] \in Posted
      <3>1. \A i \in 1 .. Len(issued) : i \in 1 .. Len(issued')
          BY <1>1
      <3> QED BY <3>1, ElementOfSeq
    <2>2. s \in Seq(Posted)
        BY <1>1, <1>2, <2>1, SubSeqProperties
    <2>3. Len(s) = Len(issued)
        BY <1>1, <1>2, <2>1, SubSeqProperties
    <2>4. \A i \in 1 .. Len(issued) : s[i] = issued'[i]
        BY <1>1, <1>2, <2>1, SubSeqProperties
    <2> QED BY <2>2, <2>3, <2>4
  <1>4. s = issued
      BY <1>3, SeqEqual
  <1>5. \A i \in Len(issued) + 1 .. Len(issued') : issued'[i] \in Posted
    <2>1. \A i \in Len(issued) + 1 .. Len(issued') : i \in 1 .. Len(issued')
        BY <1>1
    <2> QED BY <2>1, ElementOfSeq
  <1> QED BY <1>2, <1>4, <1>5 DEF Port!PostSome, Posted

\* write_chunk.
LEMMA ChunkStep ==
  ASSUME IInv, op = NoOp, NEW a \in Nat, NEW ws, ws # <<>>, ws \in Seq(Word),
         a + Len(ws) - 1 <= MSIP, WriteChunk(a, ws), result' = result
  PROVE  IInv' /\ Port!PostSome
  <1>1. /\ in_data' = in_data \o Header(SAI_CMD_WRITE, a, Len(ws)) \o ws
        /\ issued' = issued \o [i \in 1 .. Len(ws) |-> [addr |-> a + i - 1, val |-> ws[i]]]
        /\ op' = op /\ out_data' = out_data /\ fetched' = fetched
        /\ frame' = frame /\ sending' = sending /\ mem' = mem
      BY DEF WriteChunk, adapter
  <1>2. Len(ws) \in Nat \ {0}
      BY EmptySeq
  <1>3. PICK c : c = [cmd |-> SAI_CMD_WRITE, addr |-> a, len |-> Len(ws)]
      OBVIOUS
  <1>4. /\ c \in Command /\ Data(c) = Len(ws) /\ c.cmd = SAI_CMD_WRITE /\ c.cmd # SAI_CMD_READ
        /\ c.addr = a /\ c.len = Len(ws)
      BY <1>2, <1>3 DEF Command, Data, SAI_CMD_READ, SAI_CMD_WRITE
  <1>5. PICK ns : ns = [i \in 1 .. Len(ws) |-> [addr |-> a + i - 1, val |-> ws[i]]]
      OBVIOUS
  <1>6. ns \in Seq(Posted) /\ Len(ns) = Len(ws)
    <2>1. ASSUME NEW i \in 1 .. Len(ws) PROVE [addr |-> a + i - 1, val |-> ws[i]] \in Posted
      <3>1. a + i - 1 \in WordAddr
        <4>1. a + i - 1 \in Nat /\ a + i - 1 <= a + Len(ws) - 1
            BY <1>2
        <4> QED BY <1>2, <4>1, Memory
      <3>2. ws[i] \in Word
          BY ElementOfSeq
      <3> QED BY <3>1, <3>2 DEF Posted
    <2> QED BY <1>2, <1>5, <2>1
  <1>7. ws \in Seq(Int)
    <2>1. Word \subseteq Int
        BY TsiAssumption DEF Word
    <2> QED BY <2>1, SeqMonotonic
  <1>8. sending = NoOp /\ Typing /\ Serving /\ Queued
      BY DEF IInv, Serving
  <1>9. Queueing(c, ws, ns)
    <2>1. \A i \in 1 .. Data(c) : ns[i] = [addr |-> c.addr + i - 1, val |-> ws[i]]
        BY <1>4, <1>5
    <2>2. in_data' = in_data \o Header(c.cmd, c.addr, c.len) \o ws
        BY <1>1, <1>4, Zenon
    <2>3. issued' = issued \o ns
        BY <1>1, <1>5, Zenon
    <2> QED BY <1>1, <1>4, <1>6, <1>7, <2>1, <2>2, <2>3 DEF Queueing
  <1>10. in_data' \in Seq(Int) /\ issued' \in Seq(Posted) /\ Len(issued') = Len(issued) + Data(c) /\ Queued'
      BY <1>4, <1>8, <1>9, Enqueue
  <1>11. \A i \in 1 .. Len(issued) : issued'[i] = issued[i]
      BY <1>4, <1>8, <1>9, Enqueue
  <1>12. Typing'
      BY <1>1, <1>8, <1>10 DEF Typing
  <1>13. Serving'
      BY <1>1, <1>8 DEF Serving
  <1>14. Port!PostSome
    <2>1. issued \in Seq(Posted) /\ Len(issued) \in Nat
        BY <1>8, LenProperties DEF Typing
    <2>2. Len(issued') > Len(issued)
        BY <1>2, <1>4, <1>10, <2>1
    <2> QED BY <1>1, <1>10, <1>11, <2>1, <2>2, PostStep
  <1> QED BY <1>10, <1>12, <1>13, <1>14 DEF IInv

\* The host writes a chunk, or the interrupt register.
LEMMA WriteStep == IInv /\ (HostWrite \/ Reset) => IInv' /\ Port!PostSome
  <1> SUFFICES ASSUME IInv, HostWrite \/ Reset PROVE IInv' /\ Port!PostSome
      OBVIOUS
  <1>1. CASE HostWrite
    <2>1. PICK n \in 1 .. MaxLen, a \in Programs :
            a + n <= MSIP /\ \E ws \in [1 .. n -> Word] : WriteChunk(a, ws)
        BY <1>1 DEF HostWrite
    <2>6. PICK ws \in [1 .. n -> Word] : WriteChunk(a, ws)
        BY <2>1
    <2>2. op = NoOp /\ result' = result
        BY <1>1, <2>6 DEF HostWrite, Hosting, WriteChunk
    <2>3. n \in Nat \ {0} /\ a \in Nat
        BY TsiAssumption, Memory DEF Programs
    <2>4. ws \in Seq(Word) /\ Len(ws) = n
        BY <2>3
    <2>5. ws # <<>> /\ a + Len(ws) - 1 <= MSIP
        BY <2>1, <2>3, <2>4, Memory
    <2> QED BY <2>2, <2>3, <2>4, <2>5, <2>6, ChunkStep
  <1>2. CASE Reset
    <2>1. op = NoOp /\ result' = result /\ WriteChunk(MSIP, <<1>>)
        BY <1>2 DEF Reset, Hosting, WriteChunk
    <2>2. <<1>> \in Seq(Word) /\ Len(<<1>>) = 1 /\ <<1>> # <<>>
        BY Memory
    <2>3. MSIP \in Nat /\ MSIP + Len(<<1>>) - 1 <= MSIP
        BY <2>2, Memory
    <2> QED BY <2>1, <2>2, <2>3, ChunkStep
  <1> QED BY <1>1, <1>2

\* The host asks for words.
LEMMA AskStep == IInv /\ HostRead => IInv' /\ UNCHANGED <<mem, issued>>
  <1> SUFFICES ASSUME IInv, HostRead PROVE IInv' /\ UNCHANGED <<mem, issued>>
      OBVIOUS
  <1>1. PICK n \in 1 .. MaxLen, a \in Programs :
          /\ a + n <= MSIP
          /\ op' = [addr |-> a, len |-> n]
          /\ in_data' = in_data \o Header(SAI_CMD_READ, a, n)
      BY DEF HostRead
  <1>2. /\ op = NoOp /\ result' = <<>> /\ fetched' = <<>> /\ out_data' = out_data
        /\ frame' = frame /\ sending' = sending /\ mem' = mem /\ issued' = issued
      BY DEF HostRead, Hosting, adapter
  <1>3. n \in Nat \ {0} /\ a \in Nat
      BY TsiAssumption, Memory DEF Programs
  <1>4. PICK c : c = [cmd |-> SAI_CMD_READ, addr |-> a, len |-> n]
      OBVIOUS
  <1>5. /\ c \in Command /\ Data(c) = 0 /\ c.cmd = SAI_CMD_READ /\ c.addr = a /\ c.len = n
      BY <1>3, <1>4 DEF Command, Data, SAI_CMD_READ, SAI_CMD_WRITE
  <1>6. sending = NoOp /\ out_data = <<>> /\ Typing /\ Queued
      BY <1>2 DEF IInv, Serving
  <1>7. PICK h : h = Header(c.cmd, c.addr, c.len)
      OBVIOUS
  <1>8. h \in Seq(Int)
      BY <1>5, <1>7, HeaderIs
  <1>9. Queueing(c, <<>>, <<>>)
    <2>1. in_data' = in_data \o Header(c.cmd, c.addr, c.len) \o <<>>
      <3>1. PICK b : b = in_data \o h
          OBVIOUS
      <3>2. b \in Seq(Int)
          BY <1>6, <1>8, <3>1, ConcatProperties DEF Typing
      <3>3. b \o <<>> = b
          BY <3>2, ConcatEmptySeq
      <3>4. in_data' = b
          BY <1>1, <1>5, <1>7, <3>1, Zenon
      <3> QED BY <1>7, <3>1, <3>3, <3>4, Zenon
    <2>2. issued' = issued \o <<>>
      <3>1. issued \in Seq(Posted)
          BY <1>6 DEF Typing
      <3> QED BY <1>2, <3>1, ConcatEmptySeq
    <2>3. <<>> \in Seq(Int) /\ <<>> \in Seq(Posted) /\ Len(<<>>) = 0
        BY EmptySeq
    <2>4. \A i \in 1 .. Data(c) : FALSE
        BY <1>5
    <2>5. fetched' = <<>> /\ op' = [addr |-> c.addr, len |-> c.len]
        BY <1>1, <1>2, <1>5
    <2> QED BY <1>2, <1>5, <2>1, <2>2, <2>3, <2>4, <2>5 DEF Queueing
  <1>10. in_data' \in Seq(Int) /\ Queued'
      BY <1>2, <1>5, <1>6, <1>9, Enqueue
  <1>11. op'.len = n /\ op'.addr = a /\ op' # NoOp
      BY <1>1, <1>3 DEF NoOp
  <1>12. Typing'
    <2>1. result' \in Seq(Word) /\ fetched' \in Seq(Posted)
        BY <1>2, EmptySeq
    <2> QED BY <1>1, <1>2, <1>3, <1>6, <1>10, <1>11, <2>1 DEF Typing
  <1>13. Serving'
    <2>1. Len(result') = 0 /\ Len(out_data') = 0 /\ Len(fetched') = 0
        BY <1>2, <1>6
    <2>2. Sent(result', out_data', fetched') /\ Asked(fetched', op')
        BY <2>1 DEF Sent, Asked
    <2>3. sending' = NoOp
        BY <1>2, <1>6
    <2> QED BY <1>3, <1>11, <2>1, <2>2, <2>3 DEF Serving
  <1> QED BY <1>2, <1>10, <1>12, <1>13 DEF IInv

----------------------------------------------------------------------------
(* The theorems.                                                           *)

LEMMA InitHolds == Init => IInv
  <1> SUFFICES ASSUME Init PROVE IInv
      OBVIOUS
  <1>1. /\ op = NoOp /\ result = <<>> /\ in_data = <<>> /\ out_data = <<>> /\ frame = <<>>
        /\ sending = NoOp /\ mem = [a \in WordAddr |-> 0] /\ issued = <<>> /\ fetched = <<>>
      BY DEF Init
  <1>2. Typing
      BY <1>1, EmptySeq, Memory DEF Typing
  <1>3. Serving
      BY <1>1 DEF Serving, Sent
  <1>4. Queued
    <2>1. PICK c : c = [cmd |-> SAI_CMD_READ, addr |-> 0, len |-> 1]
        OBVIOUS
    <2>2. c \in Command
        BY <2>1 DEF Command
    <2>3. PICK K, P : K = [x \in Nat |-> c] /\ P = [x \in Nat |-> 0]
        OBVIOUS
    <2>4. K \in [Nat -> Command] /\ P \in [Nat -> Nat] /\ P \in [Nat -> Int] /\ P[0] = 0
        BY <2>2, <2>3
    <2>5. Commands(P, P, K, P, P, 0, 0)
        BY <2>4 DEF Commands, Numbering
    <2>6. Words(frame, in_data, P, P[0], P[0])
        BY <1>1, <2>4 DEF Words
    <2>7. Landed = 0
        BY <1>1 DEF Landed
    <2>8. Writes(issued, P, P[0] + Landed, P[0])
        BY <1>1, <2>4, <2>7 DEF Writes
    <2>9. Queue(P, P, K, P, P, 0, 0)
        BY <1>1, <2>5, <2>6, <2>8 DEF Queue, Reading
    <2> QED BY <2>9 DEF Queued
  <1> QED BY <1>2, <1>3, <1>4 DEF IInv

\* Every step keeps the invariant and is one of the memory port, or leaves it as it is.
LEMMA StepHolds == IInv /\ [Next]_vars => IInv' /\ [Port!Next]_<<mem, issued>>
  <1> SUFFICES ASSUME IInv, [Next]_vars PROVE IInv' /\ [Port!Next]_<<mem, issued>>
      OBVIOUS
  <1>1. CASE HostWrite \/ Reset
      BY <1>1, WriteStep DEF Port!Next
  <1>2. CASE HostRead
      BY <1>2, AskStep
  <1>3. CASE SwitchToTarget
    <2>1. UNCHANGED <<mem, issued>>
        BY <1>3 DEF SwitchToTarget, adapter
    <2> QED BY <1>3, <2>1, SwitchStep
  <1>4. CASE ReceiveWord
      BY <1>4, ReceiveStep
  <1>5. CASE TickHeader
      BY <1>5, HeaderStep
  <1>6. CASE TickData
      BY <1>6, DataStep DEF Port!Next
  <1>7. CASE TickSend
      BY <1>7, SendStep
  <1>8. CASE TickCore
      BY <1>8, CoreStep
  <1>9. CASE UNCHANGED vars
    <2>1. /\ frame' = frame /\ in_data' = in_data /\ issued' = issued /\ fetched' = fetched
          /\ sending' = sending /\ op' = op /\ out_data' = out_data /\ result' = result /\ mem' = mem
        BY <1>9 DEF vars, hostVars, adapter
    <2>2. Typing' /\ Serving'
        BY <2>1 DEF IInv, Typing, Serving
    <2>3. Queued'
        BY <2>1, StillQueued DEF IInv
    <2> QED BY <2>1, <2>2, <2>3 DEF IInv
  <1> QED BY <1>1, <1>2, <1>3, <1>4, <1>5, <1>6, <1>7, <1>8, <1>9 DEF Next, HostStep, TargetStep

\* The words of the stream are always whole commands, and a read in progress has what it
\* asked for so far.
THEOREM TsiInvariant == Spec => []IInv
  <1>1. IInv /\ [Next]_vars => IInv'
      BY StepHolds
  <1> QED BY InitHolds, <1>1, PTL DEF Spec

\* tsi_t is a memory port, for every word width, chunk size and sequence of requests: what
\* write_chunk is given lands in order at its addresses, and read_chunk returns what memory
\* holds there once every earlier write has landed.
THEOREM TsiImplementsPort == Spec => ImplementsPort
  <1>1. Init => Port!Init
      BY DEF Init, Port!Init
  <1>2. IInv /\ [Next]_vars => [Port!Next]_<<mem, issued>>
      BY StepHolds
  <1>3. IInv => ReadExact
      BY ServingExact DEF IInv
  <1>5. Spec => Port!Spec
      BY <1>1, <1>2, TsiInvariant, PTL DEF Spec, Port!Spec
  <1>6. Spec => [][ReadExact']_vars
      BY <1>3, TsiInvariant, PTL DEF Spec
  <1> QED BY <1>5, <1>6 DEF ImplementsPort

=============================================================================
