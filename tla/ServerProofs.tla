---------------------------- MODULE ServerProofs ----------------------------
(***************************************************************************)
(* The parts of the front-end server that keep state of their own, for     *)
(* memories, chunks, tables, kernels, files and words of any size: memif_t *)
(* (MemIf), the descriptor table (Fds) and the exit code (ExitCode) of the *)
(* syscall proxy.                                                          *)
(***************************************************************************)
EXTENDS MemIf, Fds, ExitCode, Powers

----------------------------------------------------------------------------
(* MemIf.  read and write move exactly the bytes they are asked for.  The  *)
(* inductive invariant says which bytes of the request are done at each    *)
(* point, and what the buffer of a read-modify-write holds next to it.     *)

PCs == {"idle", "head", "head2", "tail", "tail2", "body", "done"}

Typing == /\ pc \in PCs
          /\ req.kind \in {"read", "write"}
          /\ req.addr \in Nat /\ req.len \in Nat
          /\ req.addr + req.len <= Size
          /\ pos \in Nat
          /\ pc \notin {"body", "done", "idle"} => pos = 0
          /\ pc \in {"head2", "tail2"} => req.kind = "write"
          /\ pc = "done" => pos >= BodyLen
          /\ DOMAIN mem = Bytes /\ DOMAIN ref = Bytes
          /\ pc # "idle" => DOMAIN result = Wanted

\* Next to the request, the buffer holds what the write back should leave there.
BufferKept == /\ pc = "head2" => DOMAIN chunk = HeadChunk
              /\ pc = "tail2" => DOMAIN chunk = TailChunk
              /\ \A b \in (Bytes \cap Modifying) \ (Wanted \cup raced) : chunk[b] = ref[b]

\* The bytes of the request that have been moved.
Covered == {b \in Wanted : \/ b < Rest /\ pc \in {"tail", "tail2", "body", "done"}
                           \/ b >= Rest + BodyLen /\ pc \in {"body", "done"}
                           \/ b < Rest + pos /\ pc \in {"body", "done"}}

Moved == \A b \in Covered \ touched :
           IF req.kind = "write" THEN mem[b] = DataAt(b) ELSE result[b] = mem[b]

IInv == Typing /\ NothingElseChanged /\ BufferKept /\ Moved

----------------------------------------------------------------------------
\* The smaller of two numbers, as FiniteSetsExt computes it.
LEMMA MinOfTwo == \A x, y \in Int : Min({x, y}) = IF x <= y THEN x ELSE y
  <1> SUFFICES ASSUME NEW x \in Int, NEW y \in Int
               PROVE  Min({x, y}) = IF x <= y THEN x ELSE y
      OBVIOUS
  <1> QED BY DEF Min

\* A remainder is smaller than the divisor.
LEMMA Remainder == \A x \in Nat : x % Align \in 0 .. Align - 1
  BY MemIfAssumption

\* Head, body and tail make up the request, and head and tail fit their chunks.
LEMMA Geometry ==
  ASSUME req.addr \in Nat, req.len \in Nat
  PROVE  /\ HeadLen \in 0 .. req.len
         /\ TailLen \in 0 .. req.len - HeadLen /\ TailLen < Align
         /\ BodyLen \in Nat /\ BodyLen = req.len - HeadLen - TailLen
         /\ Rest = req.addr + HeadLen
         /\ Down(req.addr) \in Int /\ Down(req.addr) <= req.addr
         /\ req.addr + HeadLen <= Down(req.addr) + Align
  <1>1. req.addr % Align \in 0 .. Align - 1 /\ Align \in Nat
      BY Remainder, MemIfAssumption
  <1>2. /\ HeadLen \in 0 .. req.len
        /\ req.addr + HeadLen <= Down(req.addr) + Align
    <2>1. CASE req.len > 0 /\ req.addr % Align # 0
        BY <1>1, <2>1, MinOfTwo DEF HeadLen, Down
    <2>2. CASE ~ (req.len > 0 /\ req.addr % Align # 0)
        BY <1>1, <2>2 DEF HeadLen, Down
    <2> QED BY <2>1, <2>2
  <1>3. req.len - HeadLen \in Nat
      BY <1>2
  <1>4. TailLen \in 0 .. req.len - HeadLen /\ TailLen < Align
    <2> DEFINE n == req.len - HeadLen
    <2>1. n % Align \in 0 .. Align - 1 /\ n % Align <= n
        BY <1>3, Remainder, MemIfAssumption
    <2> QED BY <1>1, <1>3, <2>1 DEF TailLen
  <1> QED BY <1>1, <1>2, <1>3, <1>4 DEF BodyLen, Rest, Down

\* What a chunk of the body covers.
LEMMA BodyGeometry ==
  ASSUME Typing, pc = "body", pos < BodyLen
  PROVE  /\ BodyChunk \subseteq Wanted
         /\ BodyChunk \subseteq Span(Rest, BodyLen)
         /\ \A b \in Span(Rest, BodyLen) : b < Rest + pos + MaxChunk => b < Rest + pos \/ b \in BodyChunk
  <1> DEFINE m == Min({MaxChunk, BodyLen - pos})
  <1>1. /\ BodyLen \in Nat /\ Rest \in Nat /\ Rest >= req.addr
        /\ Rest + BodyLen <= req.addr + req.len
        /\ req.addr \in Nat /\ req.len \in Nat /\ pos \in Nat
      BY Geometry DEF Typing
  <1>2. m = IF MaxChunk <= BodyLen - pos THEN MaxChunk ELSE BodyLen - pos
      BY <1>1, MinOfTwo, MemIfAssumption
  <1>3. m \in Nat /\ pos + m <= BodyLen /\ MaxChunk \in Nat
      BY <1>1, <1>2, MemIfAssumption
  <1>4. BodyChunk = Rest + pos .. Rest + pos + m - 1
      BY DEF BodyChunk, Span
  <1> HIDE DEF m
  <1> QED BY <1>1, <1>2, <1>3, <1>4, MemIfAssumption DEF Span, Wanted

\* The geometry of a request is that of req alone.
LEMMA Frame ==
  ASSUME req' = req
  PROVE  /\ Wanted' = Wanted /\ Rest' = Rest /\ BodyLen' = BodyLen /\ HeadLen' = HeadLen
         /\ HeadChunk' = HeadChunk /\ TailChunk' = TailChunk
         /\ \A b : DataAt(b)' = DataAt(b)
  BY DEF Wanted, Rest, BodyLen, HeadLen, TailLen, HeadChunk, TailChunk, DataAt, Down, Span

----------------------------------------------------------------------------
LEMMA InitIInv == Init => IInv
  <1> SUFFICES ASSUME Init PROVE IInv
      OBVIOUS
  <1>1. Typing
      BY MemIfAssumption DEF Init, Typing, PCs, Bytes, Initial
  <1>2. NothingElseChanged /\ BufferKept /\ Moved
      BY DEF Init, NothingElseChanged, BufferKept, Modifying, Moved, Covered
  <1> QED BY <1>1, <1>2 DEF IInv

\* A new request: nothing is covered yet.
LEMMA BeginIInv == IInv /\ Begin => IInv'
  <1> SUFFICES ASSUME IInv, Begin PROVE IInv'
      OBVIOUS
  <1>1. pc' = "head" /\ pos' = 0 /\ UNCHANGED <<mem, ref, raced, chunk>>
      BY DEF Begin, Goto
  <1>2. PICK kind \in {"read", "write"}, a \in Bytes, n \in 0 .. MaxLen :
          /\ a + n <= Size
          /\ \E d \in (IF kind = "write" THEN Data(n) ELSE {Initial}) :
               req' = [kind |-> kind, addr |-> a, len |-> n, data |-> d]
          /\ result' = [b \in Span(a, n) |-> NoByte]
      BY DEF Begin
  <1>3. req'.kind = kind /\ req'.addr = a /\ req'.len = n
      BY <1>2
  <1>4. Typing'
      BY <1>1, <1>2, <1>3, MemIfAssumption DEF IInv, Typing, PCs, Bytes, Wanted
  <1>5. NothingElseChanged' /\ BufferKept' /\ Moved'
      BY <1>1 DEF IInv, NothingElseChanged, BufferKept, Modifying, Moved, Covered
  <1> QED BY <1>4, <1>5 DEF IInv

\* Steps that only skip a part, or leave the function.
LEMMA SkipIInv == IInv /\ (NoHead \/ NoTail \/ Finish \/ Again) => IInv'
  <1> SUFFICES ASSUME IInv, NoHead \/ NoTail \/ Finish \/ Again PROVE IInv'
      OBVIOUS
  <1>1. UNCHANGED <<req, chunk, pos, mem, result, ref, raced, touched>>
      BY DEF NoHead, NoTail, Finish, Again
  <1>2. /\ Wanted' = Wanted /\ Rest' = Rest /\ BodyLen' = BodyLen
        /\ \A b : DataAt(b)' = DataAt(b)
      BY <1>1, Frame
  <1>3. Typing'
      BY <1>1, <1>2 DEF IInv, Typing, PCs, Bytes, NoHead, NoTail, Finish, Again, Goto
  <1>4. NothingElseChanged' /\ BufferKept'
      BY <1>1 DEF IInv, NothingElseChanged, BufferKept, Modifying, NoHead, NoTail, Finish, Again, Goto
  <1>5. Covered' \subseteq Covered
    <2>1. /\ HeadLen \in 0 .. req.len
          /\ TailLen \in 0 .. req.len - HeadLen
          /\ BodyLen \in Nat /\ BodyLen = req.len - HeadLen - TailLen
          /\ Rest = req.addr + HeadLen
          /\ req.addr \in Nat /\ req.len \in Nat /\ pos \in Nat
        BY Geometry DEF IInv, Typing
    <2>2. CASE NoHead
        BY <1>1, <1>2, <2>1, <2>2 DEF NoHead, Goto, Covered, Wanted, Span
    <2>3. CASE NoTail
      <3>1. pc = "tail" /\ pc' = "body" /\ TailLen = 0 /\ pos = 0
          BY <2>3 DEF NoTail, Goto, IInv, Typing
      <3>2. \A b \in Wanted : b \in Int /\ b < Rest + BodyLen
          BY <2>1, <3>1 DEF Wanted, Span
      <3> QED BY <1>1, <1>2, <2>1, <3>1, <3>2 DEF Covered
    <2>4. CASE Finish \/ Again
        BY <1>1, <1>2, <2>4 DEF Finish, Again, Goto, Covered
    <2> QED BY <2>2, <2>3, <2>4
  <1>6. Moved'
      BY <1>1, <1>2, <1>5 DEF IInv, Moved
  <1> QED BY <1>3, <1>4, <1>6 DEF IInv

----------------------------------------------------------------------------
\* What a write does to memory, and to the history, keeps every byte right when
\* the bytes of the request that it writes are the host's, and the others what
\* they should be.
LEMMA WriteKeeps ==
  ASSUME NEW S, NEW f, IInv, WriteChunk(S, f), UNCHANGED <<req, touched>>,
         \A b \in S \cap Wanted : f[b] = DataAt(b),
         \A b \in (Bytes \cap S) \ (Wanted \cup raced) : f[b] = ref[b]
  PROVE  /\ NothingElseChanged'
         /\ DOMAIN mem' = Bytes /\ DOMAIN ref' = Bytes
         /\ \A b \in Bytes \cap S \cap Wanted : mem'[b] = DataAt(b)
         /\ \A b \in Bytes \ S : mem'[b] = mem[b]
  BY DEF IInv, NothingElseChanged, WriteChunk

\* The head and the tail are within their chunks, and they are what the step has
\* to move.
LEMMA Parts ==
  ASSUME Typing
  PROVE  /\ \A b \in Wanted : b < Rest => b \in HeadChunk
         /\ \A b \in Wanted : b >= Rest + BodyLen => b \in TailChunk
         /\ Wanted \subseteq Bytes /\ Wanted \subseteq Int
         /\ Rest \in Nat /\ BodyLen \in Nat
  <1>1. /\ HeadLen \in 0 .. req.len
        /\ TailLen \in 0 .. req.len - HeadLen /\ TailLen < Align
        /\ BodyLen \in Nat /\ BodyLen = req.len - HeadLen - TailLen
        /\ Rest = req.addr + HeadLen
        /\ Down(req.addr) \in Int /\ Down(req.addr) <= req.addr
        /\ req.addr + HeadLen <= Down(req.addr) + Align
        /\ req.addr \in Nat /\ req.len \in Nat /\ req.addr + req.len <= Size
        /\ Align \in Nat /\ Size \in Nat
      BY Geometry, MemIfAssumption DEF Typing
  <1> QED BY <1>1 DEF HeadChunk, TailChunk, Wanted, Span, Bytes

\* The first half of a read-modify-write, or a read of a part of a chunk.
LEMMA Read1IInv == IInv /\ (Head1 \/ Tail1) => IInv'
  <1> SUFFICES ASSUME IInv, Head1 \/ Tail1 PROVE IInv'
      OBVIOUS
  <1> DEFINE S == IF pc = "head" THEN HeadChunk ELSE TailChunk
  <1>1. /\ UNCHANGED <<req, pos, mem, ref, raced, touched>>
        /\ chunk' = [b \in S |-> mem[b]]
        /\ IF req.kind = "read" THEN Received(S) ELSE UNCHANGED result
        /\ \/ /\ pc = "head" /\ pc' = IF req.kind = "read" THEN "tail" ELSE "head2"
           \/ /\ pc = "tail" /\ pc' = IF req.kind = "read" THEN "body" ELSE "tail2"
      BY DEF Head1, Tail1, ReadChunk, Goto
  <1>2. /\ Wanted' = Wanted /\ Rest' = Rest /\ BodyLen' = BodyLen
        /\ HeadChunk' = HeadChunk /\ TailChunk' = TailChunk
        /\ \A b : DataAt(b)' = DataAt(b)
      BY <1>1, Frame
  <1>3. Typing'
      BY <1>1, <1>2 DEF IInv, Typing, PCs, Bytes, Received
  <1>4. NothingElseChanged'
      BY <1>1 DEF IInv, NothingElseChanged
  <1>5. /\ \A b \in Wanted : b < Rest => b \in HeadChunk
        /\ \A b \in Wanted : b >= Rest + BodyLen => b \in TailChunk
        /\ Wanted \subseteq Int /\ Rest \in Nat /\ BodyLen \in Nat /\ pos = 0
      BY <1>1, Parts DEF IInv, Typing
  <1>6. CASE req.kind = "read"
    <2>1. BufferKept'
        BY <1>1, <1>6 DEF BufferKept, Modifying
    <2>2. \A b \in Covered' : b \in Covered \/ b \in S
      <3>1. CASE pc = "head" /\ pc' = "tail"
          BY <1>1, <1>2, <1>5, <3>1 DEF Covered
      <3>2. CASE pc = "tail" /\ pc' = "body"
          BY <1>1, <1>2, <1>5, <3>2 DEF Covered
      <3> QED BY <1>1, <1>6, <3>1, <3>2
    <2>3. Covered' \subseteq Wanted /\ Covered \subseteq Wanted
        BY <1>2 DEF Covered
    <2>4. result' = [b \in Wanted |-> IF b \in S THEN mem[b] ELSE result[b]]
        BY <1>1, <1>6 DEF Received
    <2>5. Moved'
        BY <1>1, <1>6, <2>2, <2>3, <2>4 DEF IInv, Moved
    <2> QED BY <1>3, <1>4, <2>1, <2>5 DEF IInv
  <1>7. CASE req.kind # "read"
    <2>1. pc' \in {"head2", "tail2"} /\ (pc = "head") = (pc' = "head2")
        BY <1>1, <1>7
    <2>2. Modifying' = S /\ Modifying' \subseteq Int
        BY <1>1, <1>2, <2>1 DEF Modifying, HeadChunk, TailChunk, Span
    <2>3. BufferKept'
        BY <1>1, <1>2, <2>1, <2>2 DEF IInv, BufferKept, NothingElseChanged, Bytes
    <2>4. Covered' \subseteq Covered
        BY <1>1, <1>2, <2>1 DEF Covered
    <2>5. Moved'
        BY <1>1, <1>2, <2>4, <1>7 DEF IInv, Moved, Typing
    <2> QED BY <1>3, <1>4, <2>3, <2>5 DEF IInv
  <1> QED BY <1>6, <1>7

\* The second half, which writes the whole chunk back.
LEMMA Write2IInv == IInv /\ (Head2 \/ Tail2) => IInv'
  <1> SUFFICES ASSUME IInv, Head2 \/ Tail2 PROVE IInv'
      OBVIOUS
  <1> DEFINE S == IF pc = "head2" THEN HeadChunk ELSE TailChunk
  <1>1. /\ UNCHANGED <<req, pos, result, touched, chunk>>
        /\ WriteChunk(S, Modified)
        /\ \/ /\ pc = "head2" /\ pc' = "tail"
           \/ /\ pc = "tail2" /\ pc' = "body"
      BY DEF Head2, Tail2, Goto
  <1>2. /\ Wanted' = Wanted /\ Rest' = Rest /\ BodyLen' = BodyLen
        /\ \A b : DataAt(b)' = DataAt(b)
      BY <1>1, Frame
  <1>3. DOMAIN chunk = S /\ \A b \in (Bytes \cap S) \ (Wanted \cup raced) : chunk[b] = ref[b]
      BY <1>1 DEF IInv, BufferKept, Modifying
  <1>4. /\ \A b \in S \cap Wanted : Modified[b] = DataAt(b)
        /\ \A b \in (Bytes \cap S) \ (Wanted \cup raced) : Modified[b] = ref[b]
      BY <1>3 DEF Modified
  <1>5. /\ NothingElseChanged'
        /\ DOMAIN mem' = Bytes /\ DOMAIN ref' = Bytes
        /\ \A b \in Bytes \cap S \cap Wanted : mem'[b] = DataAt(b)
        /\ \A b \in Bytes \ S : mem'[b] = mem[b]
      BY <1>1, <1>4, WriteKeeps
  <1>6. /\ \A b \in Wanted : b < Rest => b \in HeadChunk
        /\ \A b \in Wanted : b >= Rest + BodyLen => b \in TailChunk
        /\ Wanted \subseteq Bytes
        /\ Wanted \subseteq Int /\ Rest \in Nat /\ BodyLen \in Nat /\ pos = 0
        /\ req.kind = "write"
      BY <1>1, Parts DEF IInv, Typing
  <1>7. Typing'
      BY <1>1, <1>2, <1>5 DEF IInv, Typing, PCs, Bytes
  <1>8. BufferKept'
      BY <1>1 DEF BufferKept, Modifying
  <1>9. \A b \in Covered' : b \in Wanted /\ (b \in Covered \/ b \in S)
    <2>1. CASE pc = "head2" /\ pc' = "tail"
        BY <1>1, <1>2, <1>6, <2>1 DEF Covered
    <2>2. CASE pc = "tail2" /\ pc' = "body"
        BY <1>1, <1>2, <1>6, <2>2 DEF Covered
    <2> QED BY <1>1, <2>1, <2>2
  <1>10. Moved'
      BY <1>1, <1>2, <1>5, <1>6, <1>9 DEF IInv, Moved
  <1> QED BY <1>5, <1>7, <1>8, <1>10 DEF IInv

\* One chunk of the aligned part.
LEMMA BodyIInv == IInv /\ (BodyRead \/ BodyWrite \/ BodyClear) => IInv'
  <1> SUFFICES ASSUME IInv, BodyRead \/ BodyWrite \/ BodyClear PROVE IInv'
      OBVIOUS
  <1>1. /\ pc = "body" /\ pos < BodyLen /\ pos' = pos + MaxChunk
        /\ UNCHANGED <<pc, req, touched, chunk>>
      BY DEF BodyRead, BodyWrite, BodyClear, Step
  <1>2. /\ Wanted' = Wanted /\ Rest' = Rest /\ BodyLen' = BodyLen
        /\ \A b : DataAt(b)' = DataAt(b)
      BY <1>1, Frame
  <1>3. /\ BodyChunk \subseteq Wanted
        /\ BodyChunk \subseteq Span(Rest, BodyLen)
        /\ \A b \in Span(Rest, BodyLen) : b < Rest + pos + MaxChunk => b < Rest + pos \/ b \in BodyChunk
      BY <1>1, BodyGeometry DEF IInv
  <1>4. /\ Wanted \subseteq Bytes /\ Wanted \subseteq Int
        /\ Rest \in Nat /\ BodyLen \in Nat /\ pos \in Nat /\ MaxChunk \in Nat
      BY Parts, MemIfAssumption DEF IInv, Typing
  <1>5. \A b \in Covered' : b \in Wanted /\ (b \in Covered \/ b \in BodyChunk)
      BY <1>1, <1>2, <1>3, <1>4 DEF Covered, Span
  <1>6. BufferKept'
      BY <1>1 DEF BufferKept, Modifying
  <1>7. CASE BodyRead
    <2>1. /\ req.kind = "read" /\ UNCHANGED <<mem, ref, raced>>
          /\ result' = [b \in Wanted |-> IF b \in BodyChunk THEN mem[b] ELSE result[b]]
        BY <1>7 DEF BodyRead, Received
    <2>2. Typing'
        BY <1>1, <1>2, <1>4, <2>1 DEF IInv, Typing, PCs, Bytes
    <2>3. NothingElseChanged' /\ Moved'
        BY <1>1, <1>5, <2>1 DEF IInv, NothingElseChanged, Moved
    <2> QED BY <1>6, <2>2, <2>3 DEF IInv
  <1>8. CASE BodyWrite \/ BodyClear
    <2>1. PICK f : /\ WriteChunk(BodyChunk, f)
                   /\ \A b \in BodyChunk : f[b] = DataAt(b)
        <3>1. CASE BodyWrite
            BY <3>1 DEF BodyWrite, FromData
        <3>2. CASE BodyClear
            BY <3>2, <1>3 DEF BodyClear, AllZero
        <3> QED BY <1>8, <3>1, <3>2
    <2>2. req.kind = "write" /\ UNCHANGED result
        BY <1>8 DEF BodyWrite, BodyClear
    <2>3. /\ NothingElseChanged'
          /\ DOMAIN mem' = Bytes /\ DOMAIN ref' = Bytes
          /\ \A b \in Bytes \cap BodyChunk \cap Wanted : mem'[b] = DataAt(b)
          /\ \A b \in Bytes \ BodyChunk : mem'[b] = mem[b]
        BY <1>1, <1>3, <2>1, WriteKeeps
    <2>4. Typing'
        BY <1>1, <1>2, <1>4, <2>2, <2>3 DEF IInv, Typing, PCs, Bytes
    <2>5. Moved'
        BY <1>1, <1>2, <1>4, <1>5, <2>2, <2>3 DEF IInv, Moved
    <2> QED BY <1>6, <2>3, <2>4, <2>5 DEF IInv
  <1> QED BY <1>7, <1>8

\* A store of the target is a byte that the host no longer answers for.
LEMMA StoreIInv == IInv /\ Store => IInv'
  <1> SUFFICES ASSUME IInv, Store PROVE IInv'
      OBVIOUS
  <1>1. PICK c \in Bytes :
          /\ mem' = [mem EXCEPT ![c] = StoreVal(stores)]
          /\ ref' = [ref EXCEPT ![c] = StoreVal(stores)]
          /\ raced' = IF c \in Modifying \ Wanted THEN raced \cup {c} ELSE raced \ {c}
          /\ touched' = touched \cup {c}
          /\ UNCHANGED <<pc, req, chunk, pos, result>>
      BY DEF Store
  <1>2. /\ Wanted' = Wanted /\ Rest' = Rest /\ BodyLen' = BodyLen
        /\ HeadChunk' = HeadChunk /\ TailChunk' = TailChunk
        /\ \A b : DataAt(b)' = DataAt(b)
      BY <1>1, Frame
  <1>3. Typing' /\ NothingElseChanged'
      BY <1>1, <1>2 DEF IInv, Typing, NothingElseChanged, Bytes
  <1>4. Modifying' = Modifying
      BY <1>1, <1>2 DEF Modifying
  <1>5. BufferKept'
      BY <1>1, <1>2, <1>4 DEF IInv, BufferKept, Typing
  <1>6. Covered' = Covered /\ Covered \subseteq Wanted
      BY <1>1, <1>2 DEF Covered
  <1>7. Moved'
      BY <1>1, <1>2, <1>6 DEF IInv, Moved, Typing
  <1> QED BY <1>3, <1>5, <1>7 DEF IInv

LEMMA Inductive == Spec => []IInv
  <1>1. IInv /\ [Next]_vars => IInv'
    <2> SUFFICES ASSUME IInv, [Next]_vars PROVE IInv'
        OBVIOUS
    <2>1. CASE UNCHANGED vars
      <3>1. /\ UNCHANGED <<pc, req, chunk, pos, mem, result, ref, raced, touched>>
          BY <2>1 DEF vars
      <3>2. /\ Wanted' = Wanted /\ Rest' = Rest /\ BodyLen' = BodyLen
            /\ HeadChunk' = HeadChunk /\ TailChunk' = TailChunk
            /\ \A b : DataAt(b)' = DataAt(b)
          BY <3>1, Frame
      <3> QED BY <3>1, <3>2 DEF IInv, Typing, Bytes, NothingElseChanged, BufferKept,
                                Modifying, Moved, Covered
    <2> QED BY <2>1, BeginIInv, SkipIInv, Read1IInv, Write2IInv, BodyIInv, StoreIInv
            DEF Next, Host
  <1> QED BY InitIInv, <1>1, PTL DEF Spec

\* A read or write changes no byte outside the request, for any alignment; only
\* what the target stores within a read-modify-write is at stake.
THEOREM OthersKept == Spec => []NothingElseChanged
  BY Inductive, PTL DEF IInv

\* A finished write has written all of its bytes.
THEOREM Written == Spec => []WriteComplete
  <1>1. IInv => WriteComplete
    <2> SUFFICES ASSUME IInv, pc = "done", req.kind = "write",
                        NEW b \in Wanted \ touched
                 PROVE  mem[b] = DataAt(b)
        BY DEF WriteComplete
    <2>1. b \in Covered
        BY Parts DEF IInv, Typing, Covered
    <2> QED BY <2>1 DEF IInv, Moved
  <1> QED BY Inductive, <1>1, PTL

\* A finished read has the bytes of its addresses.
THEOREM WasRead == Spec => []ReadComplete
  <1>1. IInv => ReadComplete
    <2> SUFFICES ASSUME IInv, pc = "done", req.kind = "read",
                        NEW b \in Wanted \ touched
                 PROVE  result[b] = mem[b]
        BY DEF ReadComplete
    <2>1. b \in Covered
        BY Parts DEF IInv, Typing, Covered
    <2> QED BY <2>1 DEF IInv, Moved
  <1> QED BY Inductive, <1>1, PTL

----------------------------------------------------------------------------
(* The calls of the transport.                                             *)

Multiple(n) == \E q \in Int : n = Align * q

\* A number that the code's masks let through is a multiple of the chunk ...
LEMMA MultipleIs == \A n \in Nat : n % Align = 0 <=> Multiple(n)
  <1>1. ASSUME NEW n \in Nat
        PROVE  n = Align * (n \div Align) + (n % Align) /\ n \div Align \in Int
      BY MemIfAssumption
  <1>2. ASSUME NEW n \in Nat, NEW q \in Int, n = Align * q PROVE n % Align = 0
      BY <1>2, MemIfAssumption
  <1>3. ASSUME NEW n \in Nat, n % Align = 0 PROVE Multiple(n)
    <2>1. PICK q \in Int : n = Align * q + (n % Align)
        BY <1>1
    <2>2. n = Align * q
        BY <2>1, <1>3, MemIfAssumption
    <2> QED BY <2>2 DEF Multiple
  <1> QED BY <1>2, <1>3 DEF Multiple

\* ... as is one that is rounded down.
LEMMA DownMultiple == \A n \in Nat : Multiple(Down(n)) /\ Down(n) \in Nat /\ Down(n) <= n
  <1> SUFFICES ASSUME NEW n \in Nat PROVE Multiple(Down(n)) /\ Down(n) \in Nat /\ Down(n) <= n
      OBVIOUS
  <1>1. n = Align * (n \div Align) + (n % Align) /\ n \div Align \in Int /\ n % Align \in Nat /\ n % Align <= n
      BY MemIfAssumption
  <1>2. PICK q \in Int, d \in Int : d = Align * q /\ n = d + (n % Align)
    <2>1. Align * (n \div Align) \in Int
        BY <1>1, MemIfAssumption
    <2> QED BY <1>1, <2>1
  <1>3. Down(n) = Align * q
      BY <1>1, <1>2 DEF Down
  <1> QED BY <1>1, <1>3 DEF Multiple, Down

\* Multiples are a chunk apart.
LEMMA NextMultiple ==
  ASSUME NEW m, NEW n, Multiple(m), Multiple(n), m < n
  PROVE  m + Align <= n
  <1>1. PICK p \in Int : m = Align * p
      BY DEF Multiple
  <1>2. PICK q \in Int : n = Align * q
      BY DEF Multiple
  <1>3. p < q
      BY <1>1, <1>2, MemIfAssumption
  <1>4. Align * (p + 1) <= Align * q
      BY <1>3, MemIfAssumption
  <1>5. Align * (p + 1) = m + Align
      BY <1>1, MemIfAssumption
  <1> QED BY <1>2, <1>4, <1>5

\* So are their sums and differences.
LEMMA SumMultiple ==
  ASSUME NEW m, NEW n, Multiple(m), Multiple(n)
  PROVE  Multiple(m + n) /\ Multiple(m - n) /\ m \in Int /\ n \in Int
  <1>1. PICK p \in Int : m = Align * p
      BY DEF Multiple
  <1>2. PICK q \in Int : n = Align * q
      BY DEF Multiple
  <1>3. m + n = Align * (p + q) /\ m - n = Align * (p - q)
      BY <1>1, <1>2, MemIfAssumption
  <1>4. p + q \in Int /\ p - q \in Int
      OBVIOUS
  <1>5. m \in Int /\ n \in Int
      BY <1>1, <1>2, MemIfAssumption
  <1> QED BY <1>3, <1>4, <1>5 DEF Multiple

\* The chunk, the largest transfer and memory are multiples of the chunk.
LEMMA Multiples == /\ Multiple(0) /\ Multiple(Align) /\ Multiple(MaxChunk) /\ Multiple(Size)
                   /\ Align <= MaxChunk
  <1>1. Multiple(MaxChunk) /\ Multiple(Size)
      BY MultipleIs, MemIfAssumption
  <1>2. 0 = Align * 0 /\ Align = Align * 1
      BY MemIfAssumption
  <1>3. Multiple(0) /\ Multiple(Align)
      BY <1>2 DEF Multiple
  <1>4. 0 + Align <= MaxChunk
      BY <1>1, <1>3, NextMultiple, MemIfAssumption
  <1> QED BY <1>1, <1>3, <1>4, MemIfAssumption

\* The body starts and ends at a chunk.
LEMMA BodyAligned ==
  ASSUME Typing
  PROVE  /\ Multiple(BodyLen)
         /\ BodyLen + TailLen > 0 => Multiple(Rest)
         /\ Rest \in Nat /\ BodyLen \in Nat /\ TailLen \in Nat
         /\ Rest + BodyLen + TailLen = req.addr + req.len
  <1>1. /\ HeadLen \in 0 .. req.len
        /\ TailLen \in 0 .. req.len - HeadLen
        /\ BodyLen \in Nat /\ BodyLen = req.len - HeadLen - TailLen
        /\ Rest = req.addr + HeadLen
        /\ req.addr \in Nat /\ req.len \in Nat
      BY Geometry DEF Typing
  <1>2. Multiple(BodyLen)
    <2>1. req.len - HeadLen \in Nat /\ BodyLen = Down(req.len - HeadLen)
        BY <1>1 DEF BodyLen, TailLen, Down
    <2> QED BY <2>1, DownMultiple
  <1>3. ASSUME BodyLen + TailLen > 0 PROVE Multiple(Rest)
    <2>1. CASE req.addr % Align = 0
      <3>1. HeadLen = 0 /\ Rest = req.addr
          BY <1>1, <2>1 DEF HeadLen
      <3> QED BY <1>1, <2>1, <3>1, MultipleIs
    <2>2. CASE req.addr % Align # 0
      <3>1. HeadLen < req.len /\ req.len > 0
          BY <1>1, <1>3
      <3>2. req.addr % Align \in 0 .. Align - 1 /\ Align \in Nat
          BY <1>1, Remainder, MemIfAssumption
      <3>3. HeadLen = Align - (req.addr % Align)
          BY <1>1, <2>2, <3>1, <3>2, MinOfTwo DEF HeadLen
      <3>4. Rest = Down(req.addr) + Align
          BY <1>1, <3>2, <3>3 DEF Down
      <3> QED BY <1>1, <3>4, DownMultiple, Multiples, SumMultiple
    <2> QED BY <2>1, <2>2
  <1> QED BY <1>1, <1>2, <1>3

\* A call is legal that asks for so many bytes from there.
LEMMA LegalCall ==
  ASSUME NEW a \in Nat, NEW n \in 1 .. MaxChunk, Multiple(a), Multiple(n), a + n <= Size, Called(Span(a, n))
  PROVE  CallsLegal'
  <1>1. Min(Span(a, n)) = a
    <2>1. a \in a .. a + n - 1 /\ \A b \in a .. a + n - 1 : a <= b
        OBVIOUS
    <2>2. ASSUME NEW b \in a .. a + n - 1, \A c \in a .. a + n - 1 : b <= c PROVE b = a
        BY <2>1, <2>2
    <2> QED BY <2>1, <2>2 DEF Min, Span
  <1>2. Cardinality(Span(a, n)) = n
    <2>1. a + n - 1 \in Int /\ ~ a > a + n - 1
        BY MemIfAssumption
    <2>2. Cardinality(a .. a + n - 1) = a + n - 1 - a + 1
        BY <2>1, FS_Interval
    <2> QED BY <2>2, MemIfAssumption DEF Span
  <1>3. call'.addr = a /\ call'.len = n
      BY <1>1, <1>2 DEF Called
  <1>4. a % Align = 0 /\ n % Align = 0
      BY MultipleIs, MemIfAssumption
  <1>5. Span(a, n) \subseteq Bytes
      BY MemIfAssumption DEF Span, Bytes
  <1> QED BY <1>3, <1>4, <1>5 DEF CallsLegal

\* The aligned part goes by whole transfers, and a head or a tail is written back only if there
\* is one.
CallsInv == /\ CallsLegal
            /\ Multiple(pos)
            /\ pc = "head2" => HeadLen > 0
            /\ pc = "tail2" => TailLen > 0

\* The head, the tail and each transfer of the body are legal calls.
LEMMA CallsStep == IInv /\ CallsInv /\ [Next]_vars => CallsInv'
  <1> SUFFICES ASSUME IInv, CallsInv, [Next]_vars PROVE CallsInv'
      OBVIOUS
  <1>1. Multiple(pos)'
    <2>1. pos' = pos \/ pos' = 0 \/ pos' = pos + MaxChunk
        BY DEF Next, Host, Begin, NoHead, Head1, Head2, NoTail, Tail1, Tail2, BodyRead, BodyWrite, BodyClear,
               Finish, Again, Store, Step, vars
    <2>2. Multiple(pos + MaxChunk)
        BY Multiples, SumMultiple DEF CallsInv
    <2>3. Multiple(pos')
        BY <2>1, <2>2, Multiples DEF CallsInv
    <2> QED BY <2>3 DEF Multiple
  <1>2. /\ Rest \in Nat /\ BodyLen \in Nat /\ TailLen \in Nat /\ pos \in Nat
        /\ Rest + BodyLen + TailLen = req.addr + req.len
        /\ req.addr + req.len <= Size /\ req.addr \in Nat /\ req.len \in Nat
        /\ Multiple(BodyLen) /\ (BodyLen + TailLen > 0 => Multiple(Rest))
      BY BodyAligned DEF IInv, Typing
  <1>3. Align \in 1 .. MaxChunk /\ Size \in Nat /\ MaxChunk \in Nat
      BY Multiples, MemIfAssumption
  <1>4. (pc' = "head2" => HeadLen' > 0) /\ (pc' = "tail2" => TailLen' > 0)
    <2>1. CASE UNCHANGED req
      <3>1. HeadLen' = HeadLen /\ TailLen' = TailLen
          BY <2>1 DEF HeadLen, TailLen
      <3>2. CASE pc' = pc
          BY <3>1, <3>2 DEF CallsInv
      <3>3. CASE Head1 \/ Tail1
          BY <3>1, <3>3 DEF Head1, Tail1, Goto
      <3>4. CASE pc' \notin {"head2", "tail2"}
          BY <3>4
      <3> QED BY <3>2, <3>3, <3>4 DEF Next, Host, Begin, NoHead, Head2, NoTail, Tail2, BodyRead, BodyWrite,
                                      BodyClear, Finish, Again, Store, Goto, vars
    <2>2. CASE Begin
        BY <2>2 DEF Begin, Goto
    <2> QED BY <2>1, <2>2 DEF Next, Host, NoHead, Head1, Head2, NoTail, Tail1, Tail2, BodyRead, BodyWrite,
                              BodyClear, Finish, Again, Store, vars
  <1>5. ASSUME Head1 \/ Head2 PROVE CallsLegal'
    <2>1. req.len > 0
      <3>1. HeadLen > 0
          BY <1>5 DEF Head1, Head2, Goto, CallsInv
      <3> QED BY <1>2, <3>1 DEF HeadLen
    <2>2. Down(req.addr) \in Nat /\ Multiple(Down(req.addr)) /\ Down(req.addr) < Size
        BY <1>2, <1>3, <2>1, DownMultiple
    <2>3. Down(req.addr) + Align <= Size
        BY <2>2, Multiples, NextMultiple
    <2>4. Called(Span(Down(req.addr), Align))
        BY <1>5 DEF Head1, Head2, ReadChunk, WriteChunk, HeadChunk
    <2> QED BY <1>3, <2>2, <2>3, <2>4, LegalCall, Multiples
  <1>6. ASSUME Tail1 \/ Tail2 PROVE CallsLegal'
    <2>1. TailLen > 0
        BY <1>6 DEF Tail1, Tail2, Goto, CallsInv
    <2>2. Multiple(Rest + BodyLen) /\ Rest + BodyLen \in Nat /\ Rest + BodyLen < Size
      <3>1. Multiple(Rest) /\ Multiple(BodyLen)
          BY <1>2, <2>1
      <3>2. Multiple(Rest + BodyLen)
          BY <3>1, SumMultiple
      <3> QED BY <1>2, <1>3, <2>1, <3>2
    <2>3. Rest + BodyLen + Align <= Size
        BY <2>2, Multiples, NextMultiple
    <2>4. Called(Span(Rest + BodyLen, Align))
        BY <1>6 DEF Tail1, Tail2, ReadChunk, WriteChunk, TailChunk
    <2> QED BY <1>3, <2>2, <2>3, <2>4, LegalCall, Multiples
  <1>7. ASSUME BodyRead \/ BodyWrite \/ BodyClear PROVE CallsLegal'
    <2> DEFINE m == IF MaxChunk <= BodyLen - pos THEN MaxChunk ELSE BodyLen - pos
    <2>1. pos < BodyLen
        BY <1>7 DEF BodyRead, BodyWrite, BodyClear, Step
    <2>2. Multiple(Rest + pos) /\ Rest + pos \in Nat
      <3>1. Multiple(Rest) /\ Multiple(pos)
          BY <1>2, <2>1 DEF CallsInv
      <3>2. Multiple(Rest + pos)
          BY <3>1, SumMultiple
      <3> QED BY <1>2, <3>2
    <2>3. Multiple(m) /\ m \in 1 .. MaxChunk /\ m <= BodyLen - pos
      <3>1. Multiple(BodyLen - pos)
          BY <1>2, SumMultiple DEF CallsInv
      <3>2. Multiple(m)
          BY <3>1, Multiples
      <3> QED BY <1>2, <1>3, <2>1, <3>2
    <2>4. Called(Span(Rest + pos, m))
      <3>1. Called(BodyChunk)
          BY <1>7 DEF BodyRead, BodyWrite, BodyClear, WriteChunk
      <3>2. m = Min({MaxChunk, BodyLen - pos})
          BY <1>2, <1>3, MinOfTwo
      <3> QED BY <3>1, <3>2 DEF BodyChunk
    <2> HIDE DEF m
    <2>5. Rest + pos + m <= Size
        BY <1>2, <1>3, <2>3
    <2> QED BY <2>2, <2>3, <2>4, <2>5, LegalCall
  <1>8. ASSUME UNCHANGED call PROVE CallsLegal'
      BY <1>8 DEF CallsInv, CallsLegal, Span, Bytes
  <1>9. CallsLegal'
      BY <1>5, <1>6, <1>7, <1>8 DEF Next, Host, Begin, NoHead, NoTail, Finish, Again, Store, vars
  <1> QED BY <1>1, <1>4, <1>9 DEF CallsInv

\* The transport is asked for aligned, whole, non-empty chunks within memory, whatever is read
\* or written (memif.cc: read, write; htif.cc: clear_chunk).
THEOREM TransportCalledLegally == Spec => []CallsLegal
  <1>1. Init => CallsInv
    <2> SUFFICES ASSUME Init PROVE CallsInv
        OBVIOUS
    <2>1. 0 % Align = 0 /\ Align % Align = 0
        BY MultipleIs, Multiples, MemIfAssumption
    <2>2. 0 + Align <= Size
        BY Multiples, NextMultiple, MemIfAssumption
    <2> QED BY <2>1, <2>2, Multiples, MemIfAssumption DEF Init, CallsInv, CallsLegal, Span, Bytes
  <1>2. CallsInv => CallsLegal
      BY DEF CallsInv
  <1> QED BY <1>1, <1>2, CallsStep, Inductive, PTL DEF Spec

----------------------------------------------------------------------------
(* Fds.  What makes the invariants inductive is Live: an entry that is not *)
(* dangling is one the target opened, and leads to its file.               *)

\* Entries in use belong to an open file of the target; free entries to nobody.
Live == /\ \A f \in DOMAIN fds \ dangling :
             fds[f] # -1 => /\ f \in DOMAIN view
                            /\ fds[f] \in DOMAIN open
                            /\ open[fds[f]] = view[f]
        /\ \A f \in DOMAIN view \cup dangling : fds[f] # -1

FdsInv == FdsTypeOK /\ NoAlias /\ NoLeak /\ Live

\* The constructor establishes the invariant.
LEMMA InitFds == FdsInit => FdsInv
  <1> SUFFICES ASSUME FdsInit PROVE FdsInv
      OBVIOUS
  <1>1. PICK h \in [{0, 1, 2} -> HostFds] :
          /\ h[0] < h[1] /\ h[1] < h[2]
          /\ fds = h
          /\ open = [g \in Own \cup {h[0], h[1], h[2]} |-> 0]
          /\ opens = 0
          /\ dangling = {} /\ duped = {}
          /\ view = [f \in {0, 1, 2} |-> 0]
      BY DEF FdsInit
  <1>2. {0, 1, 2} = 0 .. 3 - 1 /\ 3 \in 3 .. MaxFd
      BY FdsAssumption
  <1>3. h[0] \in Int /\ h[1] \in Int /\ h[2] \in Int
    <2>1. h[0] \in HostFds /\ h[1] \in HostFds /\ h[2] \in HostFds
        OBVIOUS
    <2>2. HostFds \subseteq Int
        BY FdsAssumption
    <2> QED BY <2>1, <2>2
  <1>4. FdsTypeOK
    <2>1. \E n \in 3 .. MaxFd : DOMAIN fds = 0 .. n - 1
        BY <1>1, <1>2
    <2>2. \A f \in DOMAIN fds : fds[f] \in HostFds \cup {-1}
        BY <1>1
    <2>3. Own \subseteq DOMAIN open /\ DOMAIN open \subseteq Own \cup HostFds
        BY <1>1 DEF Own
    <2>4. opens \in File /\ \A g \in DOMAIN open : open[g] \in File
        BY <1>1, FdsAssumption DEF File
    <2>5. dangling \subseteq DOMAIN fds /\ duped \subseteq HostFds /\ DOMAIN view \subseteq DOMAIN fds
        BY <1>1
    <2> QED BY <2>1, <2>2, <2>3, <2>4, <2>5 DEF FdsTypeOK
  <1>5. NoAlias /\ NoLeak /\ Live
      BY <1>1, <1>3, FdsAssumption DEF NoAlias, NoLeak, Live, Own
  <1> QED BY <1>4, <1>5 DEF FdsInv

\* openat: the new entry is the first free one, and the kernel's descriptor was
\* not open, so that only dangling entries can still lead to it.
LEMMA OpenKeeps == FdsInv /\ Open => FdsInv'
  <1> SUFFICES ASSUME FdsInv, Open PROVE FdsInv'
      OBVIOUS
  <1>1. PICK h \in HostFds, i \in Fd :
          /\ IsFree(h, 0) /\ IsAlloc(i)
          /\ opens' = opens + 1
          /\ open' = Update(open, h, opens')
          /\ fds' = Update(fds, i, h)
          /\ view' = Update(view, i, opens')
      BY DEF Open
  <1>2. PICK n \in 3 .. MaxFd : DOMAIN fds = 0 .. n - 1
      BY DEF FdsInv, FdsTypeOK
  <1>3. i <= n /\ (i = n \/ fds[i] = -1)
      BY <1>1, <1>2, FdsAssumption DEF IsAlloc, IsFreeEntry, Lookup, Fd
  <1>4. FdsTypeOK'
    <2>1. \E m \in 3 .. MaxFd : DOMAIN fds' = 0 .. m - 1
        <3>1. CASE i = n
            <4>1. DOMAIN fds' = 0 .. (n + 1) - 1 /\ n + 1 \in 3 .. MaxFd
                BY <1>1, <1>2, <3>1, FdsAssumption DEF Update, Fd
            <4> QED BY <4>1
        <3>2. CASE i # n
            BY <1>1, <1>2, <1>3, <3>2, FdsAssumption DEF Update, Fd
        <3> QED BY <3>1, <3>2
    <2>2. opens' \in File
        BY <1>1, FdsAssumption DEF FdsInv, FdsTypeOK, Open, File
    <2>3. /\ Own \subseteq DOMAIN open' /\ DOMAIN open' \subseteq Own \cup HostFds
          /\ \A g \in DOMAIN open' : open'[g] \in File
        BY <1>1, <2>2 DEF FdsInv, FdsTypeOK, Update
    <2>4. /\ \A f \in DOMAIN fds' : fds'[f] \in HostFds \cup {-1}
          /\ dangling' \subseteq DOMAIN fds' /\ duped' \subseteq HostFds
          /\ DOMAIN view' \subseteq DOMAIN fds'
        BY <1>1 DEF FdsInv, FdsTypeOK, Open, Update
    <2> QED BY <2>1, <2>2, <2>3, <2>4 DEF FdsTypeOK
  <1>5. \A f \in DOMAIN fds : fds[f] = h => f \in dangling
      BY <1>1, FdsAssumption DEF FdsInv, Live, IsFree
  <1>6. NoAlias'
      BY <1>1, <1>5, FdsAssumption DEF FdsInv, NoAlias, Open, Update
  <1>7. NoLeak'
    <2> SUFFICES ASSUME NEW g \in DOMAIN open', g \notin Own \cup duped
                 PROVE  \E f \in DOMAIN fds' : fds'[f] = g
        BY DEF NoLeak, Open
    <2>1. CASE g = h
        BY <1>1, <2>1 DEF Update
    <2>2. CASE g # h
        <3>1. g \in DOMAIN open /\ g # -1
            BY <1>1, <2>2, FdsAssumption DEF FdsInv, FdsTypeOK, Update, Own
        <3>2. PICK e \in DOMAIN fds : fds[e] = g
            BY <3>1 DEF FdsInv, NoLeak
        <3>3. e # i
            BY <1>2, <1>3, <3>1, <3>2
        <3> QED BY <1>1, <3>2, <3>3 DEF Update
    <2> QED BY <2>1, <2>2
  <1>8. Live'
      BY <1>1, <1>2, <1>3, <1>5, FdsAssumption DEF FdsInv, Live, Open, Update, IsFree, FdsTypeOK
  <1> QED BY <1>4, <1>6, <1>7, <1>8 DEF FdsInv

\* close: all the entries that shared the descriptor dangle, but for the one that
\* is freed.
LEMMA CloseKeeps == ASSUME NEW f \in 0 .. MaxFd, FdsInv, Close(f) PROVE FdsInv'
  <1>1. f \in DOMAIN fds /\ fds[f] \in HostFds /\ Lookup(f) = fds[f]
      BY FdsAssumption DEF FdsInv, FdsTypeOK, Close, IsOpen, Lookup, Own
  <1>2. FdsTypeOK'
      BY <1>1, FdsAssumption DEF FdsInv, FdsTypeOK, Close, Without, Sharing, Own
  <1>3. NoAlias'
      BY <1>1 DEF FdsInv, NoAlias, Close, Sharing, FdsTypeOK
  <1>4. NoLeak'
      BY <1>1 DEF FdsInv, NoLeak, Close, Without, FdsTypeOK
  <1>5. Live'
      BY <1>1, FdsAssumption DEF FdsInv, Live, Close, Without, Sharing, FdsTypeOK
  <1> QED BY <1>2, <1>3, <1>4, <1>5 DEF FdsInv

\* A late error leaves the entry, which dangles.
LEMMA CloseLateKeeps == ASSUME NEW f \in 0 .. MaxFd, FdsInv, CloseLate(f) PROVE FdsInv'
  <1>1. f \in DOMAIN fds /\ fds[f] \in HostFds /\ Lookup(f) = fds[f]
      BY FdsAssumption DEF FdsInv, FdsTypeOK, CloseLate, IsOpen, Lookup, Own
  <1>2. FdsTypeOK'
      BY <1>1, FdsAssumption DEF FdsInv, FdsTypeOK, CloseLate, Without, Sharing, Own
  <1>3. NoAlias' /\ NoLeak'
      BY <1>1 DEF FdsInv, NoAlias, NoLeak, CloseLate, Without, Sharing, FdsTypeOK
  <1>4. Live'
      BY <1>1, FdsAssumption DEF FdsInv, Live, CloseLate, Without, Sharing, FdsTypeOK
  <1> QED BY <1>2, <1>3, <1>4 DEF FdsInv

\* F_DUPFD opens a descriptor of the host, and changes no entry.
LEMMA DupKeeps == ASSUME NEW f \in 0 .. MaxFd, FdsInv, Dup(f) PROVE FdsInv'
  <1>1. PICK h \in HostFds \ DOMAIN open :
          /\ open' = Update(open, h, open[Lookup(f)])
          /\ duped' = duped \cup {h}
      BY DEF Dup, IsFree
  <1>2. FdsTypeOK'
      BY <1>1, FdsAssumption DEF FdsInv, FdsTypeOK, Dup, Update, IsOpen, Own
  <1>3. NoAlias' /\ NoLeak' /\ Live'
      BY <1>1 DEF FdsInv, NoAlias, NoLeak, Live, Dup, Update, FdsTypeOK
  <1> QED BY <1>2, <1>3 DEF FdsInv

LEMMA FdsKept == FdsSpec => []FdsInv
  <1>1. FdsInv /\ [FdsCall]_fdVars => FdsInv'
    <2> SUFFICES ASSUME FdsInv, [FdsCall]_fdVars PROVE FdsInv'
        OBVIOUS
    <2>1. CASE Open
        BY <2>1, OpenKeeps
    <2>2. ASSUME NEW f \in 0 .. MaxFd, Close(f) PROVE FdsInv'
        BY <2>2, CloseKeeps
    <2>3. ASSUME NEW f \in 0 .. MaxFd, CloseLate(f) PROVE FdsInv'
        BY <2>3, CloseLateKeeps
    <2>4. ASSUME NEW f \in 0 .. MaxFd, Dup(f) PROVE FdsInv'
        BY <2>4, DupKeeps
    <2>5. CASE UNCHANGED fdVars
        BY <2>5 DEF FdsInv, FdsTypeOK, NoAlias, NoLeak, Live, fdVars
    <2> QED BY <2>1, <2>2, <2>3, <2>4, <2>5 DEF FdsCall
  <1> QED BY InitFds, <1>1, PTL DEF FdsSpec

\* The table never has a hole, and its entries are descriptors of the host.
THEOREM TableCorrect == FdsSpec => []FdsTypeOK
  BY FdsKept, PTL DEF FdsInv

\* alloc() and dealloc() never let two live descriptors share one of the host.
THEOREM NoSharing == FdsSpec => []NoAlias
  BY FdsKept, PTL DEF FdsInv

\* No sequence of calls loses a descriptor of the host, except through F_DUPFD.
THEOREM NothingLeaks == FdsSpec => []NoLeak
  BY FdsKept, PTL DEF FdsInv

\* A descriptor names the file that was opened under it until it is closed.
THEOREM NamesKept == FdsSpec => []RightFile
  <1>1. FdsInv => RightFile
      BY DEF FdsInv, Live, RightFile, FdsTypeOK
  <1> QED BY FdsKept, <1>1, PTL

----------------------------------------------------------------------------
(* ExitCode.  The conversions on the way change a number by multiples of   *)
(* powers of 2 that are all above the bits the parent sees.                *)

\* The conversion to int changes a number by a multiple of 2^IntBits.
LEMMA ToIntIs ==
  ASSUME NEW n \in Nat
  PROVE  \E k \in Int : ToInt(n) = n + 2 ^ IntBits * k
  <1> DEFINE M == 2 ^ IntBits
             H == 2 ^ (IntBits - 1)
             q == n \div M
             r == n % M
  <1>1. M \in Nat \ {0} /\ H \in Nat
      BY PowerType, ExitCodeAssumption
  <1>2. ToInt(n) = IF r < H THEN r ELSE r - M
      BY DEF ToInt
  <1> HIDE DEF M, H
  <1>3. q \in Int /\ r \in Int /\ n = M * q + r
      BY <1>1, DivMod
  <1> HIDE DEF q, r
  <1>4. r = n + M * (-q) /\ r - M = n + M * (-q - 1)
      BY <1>1, <1>3
  <1>5. -q \in Int /\ -q - 1 \in Int
      BY <1>3
  <1> QED BY <1>2, <1>4, <1>5 DEF M

\* An odd number is not 0 as an int, and keeps its lowest bits but one.
LEMMA OddKept ==
  ASSUME NEW n \in Nat, n % 2 = 1
  PROVE  /\ ToInt(n) # 0
         /\ (ToInt(n) \div 2) % (2 ^ StatusBits) = (n \div 2) % (2 ^ StatusBits)
  <1> DEFINE S == 2 ^ StatusBits
             D == 2 ^ (IntBits - 1 - StatusBits)
             M == 2 ^ IntBits
  <1>1. PICK k \in Int : ToInt(n) = n + M * k
      BY ToIntIs
  <1>2. S \in Nat \ {0} /\ D \in Nat \ {0}
      BY PowerType, ExitCodeAssumption
  <1>3. M = 2 * (S * D)
    <2> DEFINE s == StatusBits
               d == IntBits - 1 - StatusBits
    <2>1. s \in Nat /\ d \in Nat /\ IntBits = (s + d) + 1
        BY ExitCodeAssumption
    <2> HIDE DEF s, d
    <2>2. 2 ^ ((s + d) + 1) = 2 * 2 ^ (s + d)
        BY <2>1, PowerStep
    <2>3. 2 ^ (s + d) = 2 ^ s * 2 ^ d
        BY <2>1, PowerSum
    <2> QED BY <2>1, <2>2, <2>3 DEF s, d
  <1> HIDE DEF S, D, M
  <1> DEFINE j == D * k
  <1>4. j \in Int /\ M * k = 2 * (S * j)
      BY <1>2, <1>3
  <1> HIDE DEF j
  <1> DEFINE i == S * j
  <1>5. i \in Int
      BY <1>2, <1>4
  <1> HIDE DEF i
  <1>6. ToInt(n) = n + 2 * i
      BY <1>1, <1>4 DEF i
  <1>7. ToInt(n) \div 2 = n \div 2 + i /\ ToInt(n) # 0
      BY <1>5, <1>6
  <1>8. (n \div 2 + S * j) % S = (n \div 2) % S
    <2> n \div 2 \in Int
        OBVIOUS
    <2> QED BY <1>2, <1>4, ModSum
  <1> QED BY <1>7, <1>8 DEF S, i

LEMMA ExitStep == ExitNext => StatusKept'
  <1> DEFINE S == 2 ^ StatusBits
  <1>1. S \in Nat \ {0}
      BY PowerType, ExitCodeAssumption
  <1>2. ASSUME SysExit PROVE StatusKept'
    <2>1. PICK c \in Unsigned(RegBits) : code' = c /\ exitcode' = ToInt(((2 * c) % (2 ^ RegBits)) + 1)
        BY <1>2 DEF SysExit
    <2> DEFINE H == 2 ^ (RegBits - 1)
               D == 2 ^ (RegBits - 1 - StatusBits)
               n == ((2 * c) % (2 ^ RegBits)) + 1
    <2>2. H \in Nat \ {0} /\ D \in Nat \ {0} /\ H = S * D /\ 2 ^ RegBits = 2 * H
      <3> DEFINE s == StatusBits
                 d == RegBits - 1 - StatusBits
      <3>1. s \in Nat /\ d \in Nat /\ RegBits - 1 = s + d /\ RegBits = (s + d) + 1
          BY ExitCodeAssumption
      <3> HIDE DEF s, d
      <3>2. 2 ^ ((s + d) + 1) = 2 * 2 ^ (s + d)
          BY <3>1, PowerStep
      <3>3. 2 ^ (s + d) = 2 ^ s * 2 ^ d
          BY <3>1, PowerSum
      <3>4. 2 ^ (s + d) \in Nat \ {0} /\ 2 ^ d \in Nat \ {0}
          BY <3>1, PowerType
      <3> QED BY <3>1, <3>2, <3>3, <3>4 DEF s, d
    <2>3. c \in Nat
      <3> 2 ^ RegBits \in Nat
          BY PowerType, ExitCodeAssumption
      <3> QED BY DEF Unsigned
    <2>4. n \in Nat /\ n % 2 = 1 /\ n \div 2 = c % H
      <3> DEFINE m == (2 * c) % (2 * H)
      <3>1. m \div 2 = c % H
        <4> (2 * c) \div 2 = c
            BY <2>3
        <4> 2 * c \in Int
            BY <2>3
        <4> HIDE DEF H
        <4> QED BY <2>2, DivMod2
      <3>2. m % 2 = 0
        <4> (2 * c) % 2 = 0 /\ 2 * c \in Int
            BY <2>3
        <4> HIDE DEF H
        <4> QED BY <2>2, ModMod
      <3>3. m \in Nat
          BY <2>2, <2>3
      <3>4. n = m + 1
          BY <2>2
      <3> HIDE DEF m, n, H
      <3> QED BY <3>1, <3>2, <3>3, <3>4
    <2> HIDE DEF n, H, D
    <2>5. (c % H) % S = c % S
      <3> HIDE DEF S
      <3>1. S \in Nat \ {0} /\ D \in Nat \ {0} /\ c \in Int
          BY <1>1, <2>2, <2>3
      <3>2. (c % (S * D)) % S = c % S
          BY <3>1, ModMod
      <3> QED BY <2>2, <3>2
    <2>6. ToInt(n) # 0 /\ (ToInt(n) \div 2) % S = (n \div 2) % S
        BY <2>4, OddKept
    <2> QED BY <2>1, <2>4, <2>5, <2>6 DEF StatusKept, Status, exit_code, n
  <1>3. ASSUME PassFail PROVE StatusKept'
    <2>1. PICK p \in Unsigned(PayloadBits) : p % 2 = 1 /\ code' = p \div 2 /\ exitcode' = ToInt(p)
        BY <1>3 DEF PassFail
    <2>2. p \in Nat
      <3> 2 ^ PayloadBits \in Nat
          BY PowerType, ExitCodeAssumption
      <3> QED BY DEF Unsigned
    <2> QED BY <2>1, <2>2, OddKept DEF StatusKept, Status, exit_code
  <1> QED BY <1>2, <1>3 DEF ExitNext

\* The parent of the host process sees the lowest bits of the target's exit code, for
\* registers, payloads, ints and statuses of any widths that are in the order of C's: no
\* code is taken for a run that goes on (sys_exit, handle_syscall, exit_code).
THEOREM ExitCodeKept == ExitSpec => []StatusKept
  <1>1. ExitInit => StatusKept
      BY DEF ExitInit, StatusKept
  <1>2. StatusKept /\ [ExitNext]_evars => StatusKept'
    <2>1. CASE UNCHANGED evars
        BY <2>1 DEF evars, StatusKept, Status, exit_code
    <2> QED BY <2>1, ExitStep
  <1> QED BY <1>1, <1>2, PTL DEF ExitSpec

=============================================================================
