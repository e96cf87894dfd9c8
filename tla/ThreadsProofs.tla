---------------------------- MODULE ThreadsProofs ----------------------------
(***************************************************************************)
(* The invariants of the three programs with threads, coroutines or        *)
(* processes of their own: the frame buffer (Rfb), the byte stream host    *)
(* (HtifPthread) and xspike (Xspike), for every value of their constants.  *)
(***************************************************************************)
EXTENDS Context, Rfb, HtifPthread, Xspike, TLAPS, SequenceTheorems

----------------------------------------------------------------------------
(* Context: for any number of contexts, the thread implementation of       *)
(* context_t hands control over without ever running two contexts or       *)
(* losing a wakeup, and implements Coroutine.                              *)

\* The mutex that thread t holds at its pc.
Holds(t, m) == \/ pc[t] \in {"i_clear", "i_create", "test", "wait", "unlock"} /\ m = t
               \/ pc[t] \in {"signal", "unlockdest"} /\ m = dest[t]

MutexInv == \A t, m \in Contexts : Holds(t, m) => mutex[m] = t

FlagInv == \A x \in Contexts :
             /\ pc[x] \in {"run", "i_lock", "i_clear", "unlock"} => flag[x] = 1
             /\ pc[x] \in {"none", "i_create", "set"} => flag[x] = 0

DestInv == \A x \in Contexts :
             /\ pc[x] \in Creating => /\ dest[x] \in Contexts
                                      /\ pc[dest[x]] = "none"
                                      /\ creator[dest[x]] = x
             /\ pc[x] \in Leaving \cup Waking => /\ dest[x] \in Contexts \ {x}
                                                 /\ pc[dest[x]] # "none"

CreatorInv == /\ pc[Main] # "none"
              /\ \A x \in Contexts \ {Main} :
                   pc[x] # "none" => creator[x] \in Contexts

WrapperInv == \A x \in Contexts :
                /\ x \in inWrapper => pc[x] \notin {"none", "run"} \cup Creating
                /\ x \in inWrapper /\ pc[x] \in Leaving => dest[x] = creator[x]

OneControl == \A x, y \in Contexts : Control(x) /\ Control(y) => x = y
SomeControl == \E x \in Contexts : Control(x)

IInv == /\ TypeOK
        /\ MutexInv
        /\ FlagInv
        /\ DestInv
        /\ CreatorInv
        /\ WrapperInv
        /\ OneControl
        /\ SomeControl
        /\ NoLostWakeup

----------------------------------------------------------------------------
USE DEF PCs, Creating, Leaving, Waking, Waiting, Goto, Acquire, Release

\* The invariant holds when only the first thread exists.
LEMMA InvInit == Init => IInv
<1> SUFFICES ASSUME Init PROVE IInv
  OBVIOUS
<1>1. TypeOK /\ MutexInv /\ FlagInv /\ DestInv /\ CreatorInv /\ WrapperInv
  BY ContextAssumption DEF Init, TypeOK, MutexInv, Holds, FlagInv, DestInv,
                           CreatorInv, WrapperInv
<1>2. OneControl /\ SomeControl /\ NoLostWakeup
  BY ContextAssumption DEF Init, OneControl, SomeControl, Control, Active,
                           NoLostWakeup
<1> QED BY <1>1, <1>2 DEF IInv

\* Every step of every thread keeps it.
LEMMA InvInductive == IInv /\ [Next]_vars => IInv'
<1> SUFFICES ASSUME IInv, [Next]_vars PROVE IInv'
  OBVIOUS
<1> USE ContextAssumption
    DEF IInv, TypeOK, MutexInv, Holds, FlagInv, DestInv, CreatorInv, WrapperInv,
        OneControl, SomeControl, Control, Active, NoLostWakeup
<1>1. ASSUME NEW x \in Contexts, NEW d \in Contexts, CallInit(x, d) PROVE IInv'
  BY <1>1 DEF CallInit
<1>2. ASSUME NEW x \in Contexts, InitLock(x) PROVE IInv'
  BY <1>2 DEF InitLock
<1>3. ASSUME NEW x \in Contexts, InitClear(x) PROVE IInv'
  BY <1>3 DEF InitClear
<1>4. ASSUME NEW x \in Contexts, InitCreate(x) PROVE IInv'
  BY <1>4 DEF InitCreate
<1>5. ASSUME NEW x \in Contexts, NEW d \in Contexts, CallSwitch(x, d) PROVE IInv'
  BY <1>5 DEF CallSwitch
<1>6. ASSUME NEW x \in Contexts, ClearFlag(x) PROVE IInv'
  BY <1>6 DEF ClearFlag
<1>7. ASSUME NEW x \in Contexts, SetFlag(x) PROVE IInv'
  BY <1>7 DEF SetFlag
<1>8. ASSUME NEW x \in Contexts, LockDest(x) PROVE IInv'
  BY <1>8 DEF LockDest
<1>9. ASSUME NEW x \in Contexts, Signal(x) PROVE IInv'
  BY <1>9 DEF Signal
<1>10. ASSUME NEW x \in Contexts, UnlockDest(x) PROVE IInv'
  BY <1>10 DEF UnlockDest
<1>11. ASSUME NEW x \in Contexts, LockSelf(x) PROVE IInv'
  BY <1>11 DEF LockSelf
<1>12. ASSUME NEW x \in Contexts, Test(x) PROVE IInv'
  BY <1>12 DEF Test
<1>13. ASSUME NEW x \in Contexts, CondWait(x) PROVE IInv'
  BY <1>13 DEF CondWait
<1>14. ASSUME NEW x \in Contexts, SpuriousWakeup(x) PROVE IInv'
  BY <1>14 DEF SpuriousWakeup
<1>15. ASSUME NEW x \in Contexts, Relock(x) PROVE IInv'
  BY <1>15 DEF Relock
<1>16. ASSUME NEW x \in Contexts, Return(x) PROVE IInv'
  BY <1>16 DEF Return
<1>17. CASE UNCHANGED vars
  BY <1>17 DEF vars
<1> QED
  BY <1>1, <1>2, <1>3, <1>4, <1>5, <1>6, <1>7, <1>8, <1>9, <1>10, <1>11, <1>12,
     <1>13, <1>14, <1>15, <1>16, <1>17 DEF Next, Call, Step

LEMMA Invariance == Spec => []IInv
<1> QED BY InvInit, InvInductive, PTL DEF Spec

\* The variables keep their types.
THEOREM TypeCorrect == Spec => []TypeOK
<1>1. IInv => TypeOK
  BY DEF IInv
<1> QED BY <1>1, Invariance, PTL

\* Two contexts never execute their own code at once: MutualExclusion, from the
\* uniqueness of control.
THEOREM OneRuns == Spec => []MutualExclusion
<1>1. IInv => MutualExclusion
  BY DEF IInv, OneControl, Control, MutualExclusion
<1> QED BY <1>1, Invariance, PTL

\* A sleeper that was given control has its signal ahead (NoLostWakeup): the
\* signaller must hold the mutex that the waiter holds until it sleeps.
THEOREM WakeupsKept == Spec => []NoLostWakeup
<1>1. IInv => NoLostWakeup
  BY DEF IInv
<1> QED BY <1>1, Invariance, PTL

----------------------------------------------------------------------------
(* The refinement.  Control passes in two steps only: the creation of a    *)
(* thread, and the store to the flag of the destination.                   *)

\* `Current' is the one context that has control.
LEMMA CurrentIs == ASSUME IInv, NEW x \in Contexts, Control(x)
                   PROVE  Current = x
<1>1. \A y \in Contexts : Control(y) => y = x
  BY DEF IInv, OneControl
<1> QED BY <1>1 DEF Current

LEMMA CurrentIsPrime == ASSUME IInv', NEW x \in Contexts, Control(x)'
                        PROVE  Current' = x
<1>1. \A y \in Contexts : Control(y)' => y = x
  BY DEF IInv, OneControl
<1> QED BY <1>1 DEF Current

\* A step that moves no one's control, creates nobody and hands nothing back is
\* a stutter.
LEMMA Stutter == ASSUME IInv, IInv', Created' = Created, Fresh' = Fresh,
                        \A y \in Contexts : Control(y) => Control(y)'
                 PROVE  UNCHANGED Abstract!cvars
<1>1. PICK c \in Contexts : Control(c)
  BY DEF IInv, SomeControl
<1>2. Current = c /\ Current' = c
  BY <1>1, CurrentIs, CurrentIsPrime
<1> QED BY <1>2 DEF Abstract!cvars

LEMMA RefInit == Init => Abstract!Init
<1> SUFFICES ASSUME Init PROVE Abstract!Init
  OBVIOUS
<1>1. Control(Main) /\ IInv
  BY InvInit, ContextAssumption DEF Init, Control, Active
<1>2. Current = Main
  BY <1>1, CurrentIs, ContextAssumption
<1>3. Created = [d \in Contexts |-> None] /\ Fresh = {}
  BY DEF Init, Created, Fresh
<1> QED BY <1>2, <1>3 DEF Abstract!Init

\* pthread_create is the abstract Create.
LEMMA RefCreate == ASSUME IInv, IInv', NEW x \in Contexts, InitCreate(x)
                   PROVE  Abstract!Next
<1> DEFINE d == dest[x]
<1>1. d \in Contexts /\ d # Main /\ pc[d] = "none" /\ creator[d] = x
  BY DEF InitCreate, IInv, DestInv, CreatorInv
<1>2. Current = x
  BY CurrentIs DEF InitCreate, Control, Active
<1>3. Current' = d
  BY <1>1, CurrentIsPrime DEF InitCreate, Control, Active, IInv, TypeOK
<1>4. Created[d] = None /\ Created' = [Created EXCEPT ![d] = x]
  <2>1. \A y \in Contexts : pc[y]' = "none" <=> pc[y] = "none" /\ y # d
    BY <1>1 DEF InitCreate, IInv, TypeOK
  <2>2. creator' = creator
    BY DEF InitCreate
  <2> QED BY <1>1, <2>1, <2>2 DEF Created
<1>5. x \notin Fresh /\ Fresh' = Fresh \cup {d}
  BY <1>1 DEF InitCreate, Fresh, IInv, TypeOK, WrapperInv
<1> QED
  BY <1>1, <1>2, <1>3, <1>4, <1>5
     DEF Abstract!Next, Abstract!Create, Abstract!Alive

\* The store to the destination's flag is the abstract HandBack, or Switch.
LEMMA RefSetFlag == ASSUME IInv, IInv', NEW x \in Contexts, SetFlag(x)
                    PROVE  Abstract!Next
<1> DEFINE d == dest[x]
<1>1. d \in Contexts /\ d # x /\ pc[d] # "none"
  BY DEF SetFlag, IInv, DestInv
<1>2. ~ Active(d)
  BY <1>1 DEF SetFlag, IInv, OneControl, Control, Active
<1>3. Current = x
  BY CurrentIs DEF SetFlag, Control, Active
<1>4. pc' [d] \in Waking \cup Waiting /\ flag' [d] = 1
  BY <1>1, <1>2 DEF SetFlag, IInv, TypeOK, Active
<1>5. Current' = d
  BY <1>1, <1>4, CurrentIsPrime DEF Control
<1>6. Created' = Created
  BY DEF SetFlag, Created, IInv, TypeOK
<1>7. Fresh' = Fresh \ {x}
  BY DEF SetFlag, Fresh, IInv, TypeOK
<1>8. CASE x \in inWrapper
  <2>1. x \in Fresh /\ Created[x] = d
    BY <1>8 DEF SetFlag, Fresh, Created, IInv, WrapperInv
  <2> QED
    BY <1>3, <1>5, <1>6, <1>7, <2>1 DEF Abstract!Next, Abstract!HandBack
<1>9. CASE x \notin inWrapper
  <2>1. x \notin Fresh
    BY <1>9 DEF Fresh
  <2>2. d = Main \/ Created[d] # None
    BY <1>1, ContextAssumption DEF Created, IInv, CreatorInv
  <2> QED
    BY <1>1, <1>3, <1>5, <1>6, <1>7, <2>1, <2>2
       DEF Abstract!Next, Abstract!Switch, Abstract!Alive
<1> QED BY <1>8, <1>9

LEMMA RefNext == IInv /\ IInv' /\ [Next]_vars => [Abstract!Next]_Abstract!cvars
<1> SUFFICES ASSUME IInv, IInv', [Next]_vars
             PROVE  Abstract!Next \/ UNCHANGED Abstract!cvars
  OBVIOUS
<1>1. ASSUME NEW x \in Contexts, NEW d \in Contexts, CallInit(x, d) PROVE UNCHANGED Abstract!cvars
  BY <1>1, Stutter DEF CallInit, Created, Fresh, Control, Active, IInv,
     TypeOK, FlagInv, WrapperInv
<1>2. ASSUME NEW x \in Contexts, InitLock(x) PROVE UNCHANGED Abstract!cvars
  BY <1>2, Stutter DEF InitLock, Created, Fresh, Control, Active, IInv,
     TypeOK, FlagInv, WrapperInv
<1>3. ASSUME NEW x \in Contexts, InitClear(x) PROVE UNCHANGED Abstract!cvars
  BY <1>3, Stutter DEF InitClear, Created, Fresh, Control, Active, IInv,
     TypeOK, FlagInv, WrapperInv
<1>4. ASSUME NEW x \in Contexts, NEW d \in Contexts, CallSwitch(x, d) PROVE UNCHANGED Abstract!cvars
  BY <1>4, Stutter DEF CallSwitch, Created, Fresh, Control, Active, IInv,
     TypeOK, FlagInv, WrapperInv
<1>5. ASSUME NEW x \in Contexts, ClearFlag(x) PROVE UNCHANGED Abstract!cvars
  BY <1>5, Stutter DEF ClearFlag, Created, Fresh, Control, Active, IInv,
     TypeOK, FlagInv, WrapperInv
<1>6. ASSUME NEW x \in Contexts, LockDest(x) PROVE UNCHANGED Abstract!cvars
  BY <1>6, Stutter DEF LockDest, Created, Fresh, Control, Active, IInv,
     TypeOK, FlagInv, WrapperInv
<1>7. ASSUME NEW x \in Contexts, Signal(x) PROVE UNCHANGED Abstract!cvars
  BY <1>7, Stutter DEF Signal, Created, Fresh, Control, Active, IInv,
     TypeOK, FlagInv, WrapperInv
<1>8. ASSUME NEW x \in Contexts, UnlockDest(x) PROVE UNCHANGED Abstract!cvars
  BY <1>8, Stutter DEF UnlockDest, Created, Fresh, Control, Active, IInv,
     TypeOK, FlagInv, WrapperInv
<1>9. ASSUME NEW x \in Contexts, LockSelf(x) PROVE UNCHANGED Abstract!cvars
  BY <1>9, Stutter DEF LockSelf, Created, Fresh, Control, Active, IInv,
     TypeOK, FlagInv, WrapperInv
<1>10. ASSUME NEW x \in Contexts, Test(x) PROVE UNCHANGED Abstract!cvars
  BY <1>10, Stutter DEF Test, Created, Fresh, Control, Active, IInv,
     TypeOK, FlagInv, WrapperInv
<1>11. ASSUME NEW x \in Contexts, CondWait(x) PROVE UNCHANGED Abstract!cvars
  BY <1>11, Stutter DEF CondWait, Created, Fresh, Control, Active, IInv,
     TypeOK, FlagInv, WrapperInv
<1>12. ASSUME NEW x \in Contexts, SpuriousWakeup(x) PROVE UNCHANGED Abstract!cvars
  BY <1>12, Stutter DEF SpuriousWakeup, Created, Fresh, Control, Active, IInv,
     TypeOK, FlagInv, WrapperInv
<1>13. ASSUME NEW x \in Contexts, Relock(x) PROVE UNCHANGED Abstract!cvars
  BY <1>13, Stutter DEF Relock, Created, Fresh, Control, Active, IInv,
     TypeOK, FlagInv, WrapperInv
<1>14. ASSUME NEW x \in Contexts, Return(x) PROVE UNCHANGED Abstract!cvars
  BY <1>14, Stutter DEF Return, Created, Fresh, Control, Active, IInv,
     TypeOK, FlagInv, WrapperInv
<1>15. CASE UNCHANGED vars
  BY <1>15, Stutter 
     DEF vars, Created, Fresh, Control, Active
<1> QED
  BY RefCreate, RefSetFlag, <1>1, <1>2, <1>3, <1>4, <1>5, <1>6, <1>7, <1>8, <1>9,
     <1>10, <1>11, <1>12, <1>13, <1>14, <1>15 DEF Next, Call, Step

\* The thread implementation implements coroutines (Implements).
THEOREM Refinement == Spec => Implements
<1> QED BY Invariance, RefInit, RefNext, PTL DEF Spec, Implements, Abstract!Spec

----------------------------------------------------------------------------
(* Rfb: a client of the frame buffer sees the greeting and then whole      *)
(* frames, for frames of any size.  What StreamInOrder rests on is who     *)
(* holds the lock at each place of the two threads, how much of the        *)
(* greeting was sent at each place of the device's thread, and which part  *)
(* of the two buffers is of one pass.                                      *)

\* The places of the device's thread, with the lock and without it.
Holding == {"listen", "accept", "version", "check", "auth", "clientinit", "serverinit", "greeted", "closing"}
Unlocked == {"none", "start", "wait", "loop", "serve", "encodings", "close"}

\* The lock is held where the places say so, there is a thread only once there is a frame, and
\* a connection only behind accept().
Locking == /\ tpc \in Holding \cup Unlocked
           /\ hpc \in {"loop", "swapped", "locked", "joining", "gone"}
           /\ lock = "thread" <=> tpc \in Holding
           /\ lock = "host" <=> hpc = "locked"
           /\ size = 0 => tpc = "none"
           /\ tpc \in {"none", "start", "listen", "accept"} => ~ afd

Frames == [1..size -> [pos : Nat, pass : Nat]]
Whole(f) == \E p \in Nat : \A j \in 1..size : f[j].pos = j /\ f[j].pass = p

\* The buffer being copied has this pass's chunks in front of read_pos; the other one is
\* whole when the host is about to send it.
Buffers == /\ size \in Nat /\ pass \in Nat /\ read_pos \in Nat
           /\ size = 0 => fb1 = <<>> /\ read_pos = 0
           /\ size # 0 => fb1 \in Frames /\ fb2 \in Frames /\ read_pos < size
           /\ \A j \in 1..read_pos : fb2[j].pos = j /\ fb2[j].pass = pass
           /\ hpc \in {"swapped", "locked"} => size # 0 /\ Whole(fb1)

\* A client was sent a part of the greeting, or all of it and a frame ...
Message == [kind : {"version", "auth", "serverinit"}] \cup [kind : {"update"}, frame : Frames]
Messages == /\ sent \in Seq(Message) /\ Len(sent) <= 4
            /\ \A i \in 1..Len(sent) : IF i <= 3 THEN sent[i] = [kind |-> Greeting[i]]
                                       ELSE size # 0 /\ sent[i].kind = "update" /\ Whole(sent[i].frame)

\* ... and how much of it, if the client is still there, the place of the thread tells.
Said(n) == Len(sent) <= n /\ (conn = "up" => Len(sent) = n)
Progress == /\ ~ afd => Len(sent) = 0
            /\ tpc = "version" => Said(0)
            /\ tpc \in {"check", "auth"} => Said(1)
            /\ tpc \in {"clientinit", "serverinit"} => Said(2)
            /\ tpc = "greeted" => Said(3)
            /\ tpc \in {"wait", "loop", "serve", "encodings", "close"} /\ conn = "up" => Len(sent) >= 3

RfbIInv == Locking /\ Buffers /\ Messages /\ Progress

----------------------------------------------------------------------------

LEMMA RfbInitIInv == RInit => RfbIInv
  <1> SUFFICES ASSUME RInit PROVE RfbIInv
      OBVIOUS
  <1>1. sent = <<>> /\ Len(sent) = 0 /\ sent \in Seq(Message)
      BY DEF RInit
  <1> QED BY <1>1 DEF RInit, RfbIInv, Locking, Holding, Unlocked, Buffers, Messages, Progress, Said

\* What was sent stays right as long as neither it nor the size changes.
LEMMA MessagesKept == Messages /\ UNCHANGED <<sent, size>> => Messages'
  <1> SUFFICES ASSUME Messages, UNCHANGED <<sent, size>> PROVE Messages'
      OBVIOUS
  <1>1. Message' = Message
      BY DEF Message, Frames
  <1>2. ASSUME NEW i \in 1..Len(sent), Whole(sent[i].frame) PROVE Whole(sent[i].frame)'
      BY <1>2 DEF Whole
  <1> QED BY <1>1, <1>2 DEF Messages

\* A configured frame is not empty.
LEMMA Configured == ASSUME Buffers, fb1 = <<>> PROVE size = 0
  <1>1. CASE size # 0
    <2>1. size \in Nat /\ fb1 \in Frames
        BY <1>1 DEF Buffers
    <2>2. DOMAIN fb1 = 1..size /\ 1 \in 1..size
        BY <1>1, <2>1 DEF Frames
    <2>3. DOMAIN fb1 = 1..0
        OBVIOUS
    <2> QED BY <2>2, <2>3
  <1> QED BY <1>1

LEMMA ConfigureIInv ==
  ASSUME RfbIInv, NEW n \in Sizes, NEW good \in BOOLEAN, handle_configure(n, good) PROVE RfbIInv'
  <1>1. CASE fb1 # <<>> \/ ~ good
    <2>1. UNCHANGED <<hostvars, wirevars, tpc, lock>>
        BY <1>1 DEF handle_configure, Throws
    <2>2. Messages'
        BY <2>1, MessagesKept DEF RfbIInv, hostvars, wirevars
    <2> QED BY <2>1, <2>2 DEF RfbIInv, hostvars, wirevars, Locking, Buffers, Whole, Frames, Progress, Said
  <1>2. CASE ~ (fb1 # <<>> \/ ~ good)
    <2>1. /\ size' = n /\ fb1' = [i \in 1..n |-> Unread] /\ fb2' = [i \in 1..n |-> Unread] /\ tpc' = "start"
          /\ hpc = "loop" /\ UNCHANGED <<hpc, read_pos, addr, memif, pass, wirevars, lock, status>>
        BY <1>2 DEF handle_configure
    <2>2. size = 0 /\ n \in Nat /\ n # 0
        BY <1>2, Configured, RfbAssumption DEF RfbIInv
    <2>3. tpc = "none" /\ ~ afd /\ Len(sent) = 0 /\ read_pos = 0
        BY <2>2 DEF RfbIInv, Locking, Progress, Buffers
    <2>4. sent = <<>>
        BY <2>3, EmptySeq DEF RfbIInv, Messages
    <2>5. Messages'
        BY <2>1, <2>4 DEF Messages, wirevars
    <2>6. fb1' \in Frames' /\ fb2' \in Frames'
        BY <2>1 DEF Frames, Unread
    <2>7. Buffers'
        BY <2>1, <2>2, <2>3, <2>6 DEF RfbIInv, Buffers
    <2>8. Locking' /\ Progress'
        BY <2>1, <2>2, <2>3 DEF RfbIInv, Locking, Holding, Unlocked, Progress, wirevars
    <2> QED BY <2>5, <2>7, <2>8 DEF RfbIInv
  <1> QED BY <1>1, <1>2

LEMMA Wraps == ASSUME NEW n \in Nat, NEW k \in Nat, k < n
               PROVE  (k + 1) % n = IF k + 1 = n THEN 0 ELSE k + 1
  OBVIOUS

\* One chunk more, and the buffers change places behind the last one.
LEMMA TickIInv == RfbIInv /\ tick => RfbIInv'
  <1> SUFFICES ASSUME RfbIInv, tick PROVE RfbIInv'
      OBVIOUS
  <1> DEFINE filled == [fb2 EXCEPT ![read_pos + 1] = Chunk(read_pos + 1)]
  <1>1. /\ hpc = "loop" /\ size # 0 /\ UNCHANGED <<size, sent, tpc, lock, afd, conn>>
        /\ read_pos' = (read_pos + 1) % size
        /\ IF read_pos' = 0 THEN fb1' = filled /\ fb2' = fb1 /\ pass' = (pass + 1) % 3 /\ hpc' = "swapped"
           ELSE fb2' = filled /\ UNCHANGED <<fb1, pass, hpc>>
      BY DEF tick, wirevars
  <1>2. /\ size \in Nat /\ read_pos \in Nat /\ read_pos < size /\ pass \in Nat
        /\ fb1 \in Frames /\ fb2 \in Frames
        /\ \A j \in 1..read_pos : fb2[j].pos = j /\ fb2[j].pass = pass
      BY <1>1 DEF RfbIInv, Buffers
  <1>3. read_pos' = IF read_pos + 1 = size THEN 0 ELSE read_pos + 1
      BY <1>1, <1>2, Wraps
  <1>4. filled \in Frames
      BY <1>2 DEF Frames, Chunk
  <1>5. \A j \in 1..read_pos + 1 : filled[j].pos = j /\ filled[j].pass = pass
    <2> SUFFICES ASSUME NEW j \in 1..read_pos + 1 PROVE filled[j].pos = j /\ filled[j].pass = pass
        OBVIOUS
    <2>1. CASE j = read_pos + 1
        BY <1>2, <2>1 DEF Frames, Chunk
    <2>2. CASE j # read_pos + 1
      <3>1. j \in 1..read_pos /\ filled[j] = fb2[j]
          BY <1>2, <2>2 DEF Frames
      <3> QED BY <1>2, <3>1
    <2> QED BY <2>1, <2>2
  <1> HIDE DEF filled
  <1>6. Frames' = Frames
      BY <1>1 DEF Frames
  <1>7. Buffers'
    <2>1. CASE read_pos + 1 = size
      <3>1. read_pos' = 0 /\ fb1' = filled /\ fb2' = fb1 /\ pass' = (pass + 1) % 3 /\ hpc' = "swapped"
          BY <1>1, <1>3, <2>1
      <3>2. \A j \in 1..size' : fb1'[j].pos = j /\ fb1'[j].pass = pass
          BY <1>1, <1>5, <2>1, <3>1
      <3>3. Whole(fb1)'
          BY <1>2, <3>2 DEF Whole
      <3>4. pass' \in Nat
          BY <1>2, <3>1
      <3> QED BY <1>1, <1>2, <1>4, <1>6, <3>1, <3>3, <3>4 DEF Buffers
    <2>2. CASE read_pos + 1 # size
      <3>1. read_pos' = read_pos + 1 /\ fb2' = filled /\ UNCHANGED <<fb1, pass, hpc>>
          BY <1>1, <1>2, <1>3, <2>2
      <3> QED BY <1>1, <1>2, <1>4, <1>5, <1>6, <2>2, <3>1 DEF Buffers
    <2> QED BY <2>1, <2>2
  <1>8. Messages'
      BY <1>1, MessagesKept DEF RfbIInv
  <1>9. hpc' \in {"loop", "swapped"}
      BY <1>1
  <1>10. Locking' /\ Progress'
      BY <1>1, <1>9 DEF RfbIInv, Locking, Progress, Said
  <1> QED BY <1>7, <1>8, <1>10 DEF RfbIInv

\* The other steps of the host that send nothing.
LEMMA QuietIInv ==
    /\ RfbIInv
    /\ Destroy \/ TryLock \/ \E a \in Addresses, aligned \in BOOLEAN : handle_set_address(a, aligned)
    => RfbIInv'
  <1> SUFFICES ASSUME RfbIInv,
                      Destroy \/ TryLock \/ \E a \in Addresses, aligned \in BOOLEAN : handle_set_address(a, aligned)
               PROVE  RfbIInv'
      OBVIOUS
  <1>1. UNCHANGED <<size, fb1, fb2, read_pos, pass, wirevars, tpc>>
      BY DEF Destroy, TryLock, handle_set_address, Throws, hostvars
  <1>2. /\ \/ hpc' \in {"gone", "joining"} /\ hpc = "loop" /\ UNCHANGED lock
           \/ UNCHANGED <<hpc, lock>>
           \/ hpc = "swapped" /\ hpc' = "locked" /\ lock = "free" /\ lock' = "host"
           \/ hpc = "swapped" /\ hpc' = "loop" /\ UNCHANGED lock
      BY DEF Destroy, TryLock, handle_set_address, Throws, hostvars
  <1>3. Locking'
      BY <1>1, <1>2 DEF RfbIInv, Locking, wirevars, Holding, Unlocked
  <1>4. Buffers'
      BY <1>1, <1>2 DEF RfbIInv, Buffers, Frames, Whole
  <1>5. Messages' /\ Progress'
      BY <1>1, MessagesKept DEF RfbIInv, Progress, Said, wirevars
  <1> QED BY <1>3, <1>4, <1>5 DEF RfbIInv

----------------------------------------------------------------------------
(* Sending.                                                                *)

\* The next word of the greeting, to a client who has the ones before it.
LEMMA Recorded ==
  ASSUME Messages, NEW n \in 1..3, Len(sent) = n - 1,
         sent' = Record([kind |-> Greeting[n]]), UNCHANGED size
  PROVE  Messages' /\ Len(sent') = n
  <1> DEFINE msg == [kind |-> Greeting[n]]
  <1>1. sent \in Seq(Message) /\ msg \in Message
      BY DEF Messages, Message, Greeting
  <1>2. sent' = Append(sent, msg)
      BY DEF Record
  <1>3. /\ sent' \in Seq(Message) /\ Len(sent') = n /\ sent'[n] = msg
        /\ \A i \in 1..n - 1 : sent'[i] = sent[i]
      BY <1>1, <1>2, AppendProperties
  <1>4. Message' = Message
      BY DEF Message, Frames
  <1>5. \A i \in 1..n : sent'[i] = [kind |-> Greeting[i]]
      BY <1>3 DEF Messages
  <1> QED BY <1>3, <1>4, <1>5 DEF Messages

LEMMA ThreeOrFour == ASSUME NEW n \in Nat, 3 <= n, n <= 4 PROVE n = 3 \/ n = 4
  OBVIOUS

LEMMA Appended ==
  ASSUME NEW S, NEW s \in Seq(S), NEW e \in S
  PROVE  /\ Append(s, e) \in Seq(S) /\ Len(Append(s, e)) = Len(s) + 1 /\ Append(s, e)[Len(s) + 1] = e
         /\ \A i \in 1..Len(s) : Append(s, e)[i] = s[i]
  BY AppendProperties

\* A frame, to a client who has all of the greeting.
LEMMA FrameRecorded ==
  ASSUME Messages, Buffers, hpc = "locked", Len(sent) >= 3,
         sent' = Record([kind |-> "update", frame |-> fb1]), UNCHANGED size
  PROVE  Messages' /\ Len(sent') = 4
  <1> DEFINE msg == [kind |-> "update", frame |-> fb1]
  <1>1. size # 0 /\ fb1 \in Frames /\ Whole(fb1)
      BY DEF Buffers
  <1>2. sent \in Seq(Message) /\ msg \in Message /\ Len(sent) \in {3, 4}
    <2>1. sent \in Seq(Message) /\ Len(sent) <= 4
        BY DEF Messages
    <2>2. Len(sent) \in Nat
        BY <2>1, LenProperties
    <2>3. msg \in Message
        BY <1>1 DEF Message
    <2>4. Len(sent) = 3 \/ Len(sent) = 4
        BY <2>1, <2>2, ThreeOrFour
    <2> HIDE DEF msg
    <2> QED BY <2>1, <2>3, <2>4
  <1>3. /\ sent' \in Seq(Message) /\ Len(sent') = 4 /\ sent'[4] = msg
        /\ \A i \in 1..3 : sent'[i] = sent[i]
    <2> HIDE DEF msg
    <2>1. CASE Len(sent) = 3
      <3>1. sent' = Append(sent, msg)
          BY <2>1 DEF Record, msg
      <3>2. /\ Append(sent, msg) \in Seq(Message)
            /\ Len(Append(sent, msg)) = 4
            /\ \A i \in 1..3 : Append(sent, msg)[i] = sent[i]
            /\ Append(sent, msg)[4] = msg
        <4>1. /\ Append(sent, msg) \in Seq(Message)
              /\ Len(Append(sent, msg)) = Len(sent) + 1
              /\ Append(sent, msg)[Len(sent) + 1] = msg
              /\ \A i \in 1..Len(sent) : Append(sent, msg)[i] = sent[i]
            BY <1>2, Appended
        <4>2. Len(sent) + 1 = 4
            BY <2>1
        <4> QED BY <2>1, <4>1, <4>2
      <3> QED BY <3>1, <3>2
    <2>2. CASE Len(sent) = 4
      <3>1. sent' = [sent EXCEPT ![4] = msg]
          BY <2>2 DEF Record, msg
      <3> QED BY <1>2, <2>2, <3>1, ExceptSeq
    <2> QED BY <1>2, <2>1, <2>2
  <1>4. Message' = Message /\ Whole(fb1) = (\E p \in Nat : \A j \in 1..size' : fb1[j].pos = j /\ fb1[j].pass = p)
      BY DEF Message, Frames, Whole
  <1>5. \A i \in 1..3 : sent'[i] = [kind |-> Greeting[i]]
      BY <1>2, <1>3 DEF Messages
  <1>6. sent'[4].kind = "update" /\ sent'[4].frame = fb1
      BY <1>3
  <1>7. Whole(sent[4].frame)'
      BY <1>1, <1>6 DEF Whole
  <1> HIDE DEF msg
  <1>8. \A i \in 1..Len(sent') : i \in 1..3 \/ i = 4
    <2>1. Len(sent') = 4
        BY <1>3
    <2>2. \A i \in 1..4 : i \in 1..3 \/ i = 4
        OBVIOUS
    <2> QED BY <2>1, <2>2
  <1> QED BY <1>1, <1>3, <1>4, <1>5, <1>6, <1>7, <1>8 DEF Messages

LEMMA UpdateIInv == RfbIInv /\ fb_update => RfbIInv'
  <1> SUFFICES ASSUME RfbIInv, fb_update PROVE RfbIInv'
      OBVIOUS
  <1>1. CASE WriteKills /\ Killed
    <2>1. UNCHANGED <<hostvars, wirevars, tpc, lock>>
        BY <1>1 DEF Killed
    <2>2. Messages'
        BY <2>1, MessagesKept DEF RfbIInv, hostvars, wirevars
    <2> QED BY <2>1, <2>2 DEF RfbIInv, hostvars, wirevars, Locking, Buffers, Whole, Frames, Progress, Said
  <1>2. CASE ~ (WriteKills /\ Killed)
    <2>1. /\ hpc = "locked" /\ hpc' = "loop" /\ lock' = "free"
          /\ WriteOk([kind |-> "update", frame |-> fb1]) \/ UNCHANGED sent
          /\ UNCHANGED <<size, fb1, fb2, read_pos, addr, memif, pass, afd, conn, input, tpc, status>>
        BY <1>2 DEF fb_update
    <2>2. lock = "host" /\ tpc \in Unlocked
        BY <2>1 DEF RfbIInv, Locking, Holding, Unlocked
    <2>3. Locking'
        BY <2>1, <2>2 DEF RfbIInv, Locking, Holding, Unlocked
    <2>4. Buffers'
        BY <2>1 DEF RfbIInv, Buffers, Frames, Whole
    <2>5. CASE UNCHANGED sent
      <3>1. Messages'
          BY <2>1, <2>5, MessagesKept DEF RfbIInv
      <3>2. Progress'
          BY <2>1, <2>5 DEF RfbIInv, Progress, Said
      <3> QED BY <2>3, <2>4, <3>1, <3>2 DEF RfbIInv
    <2>6. CASE ~ UNCHANGED sent
      <3>1. afd /\ conn = "up" /\ sent' = Record([kind |-> "update", frame |-> fb1])
          BY <2>1, <2>6 DEF WriteOk
      <3>2. tpc \in {"wait", "loop", "serve", "encodings", "close"} /\ Len(sent) >= 3
          BY <2>2, <3>1 DEF RfbIInv, Locking, Progress, Unlocked
      <3>3. Messages' /\ Len(sent') = 4
          BY <2>1, <3>1, <3>2, FrameRecorded DEF RfbIInv
      <3>4. Progress'
          BY <2>1, <3>1, <3>2, <3>3 DEF Progress
      <3> QED BY <2>3, <2>4, <3>3, <3>4 DEF RfbIInv
    <2> QED BY <2>5, <2>6
  <1> QED BY <1>1, <1>2

\* A step of the greeting, the n-th of three.
LEMMA GreetIInv ==
  ASSUME RfbIInv, NEW n \in 1..3, NEW from, NEW to, Greet(from, to, Greeting[n]),
         <<from, to, n>> \in {<<"version", "check", 1>>, <<"auth", "clientinit", 2>>, <<"serverinit", "greeted", 3>>}
  PROVE  RfbIInv'
  <1>1. CASE UNCHANGED <<hostvars, wirevars, tpc, lock>>
    <2>1. Messages'
        BY <1>1, MessagesKept DEF RfbIInv, hostvars, wirevars
    <2> QED BY <1>1, <2>1 DEF RfbIInv, hostvars, wirevars, Locking, Buffers, Whole, Frames, Progress, Said
  <1>2. CASE ~ UNCHANGED <<hostvars, wirevars, tpc, lock>>
    <2>1. /\ tpc = from /\ tpc' = to /\ WriteOk([kind |-> Greeting[n]])
          /\ UNCHANGED <<hostvars, afd, conn, input, lock, status>>
        BY <1>2 DEF Greet, Throws, Killed, Thread
    <2>2. afd /\ sent' = IF conn = "up" THEN Record([kind |-> Greeting[n]]) ELSE sent
        BY <2>1 DEF WriteOk
    <2>3. from \in Holding /\ to \in Holding /\ Said(n - 1)
        BY <2>1 DEF RfbIInv, Progress, Holding
    <2>4. Locking' /\ Buffers'
        BY <2>1, <2>2, <2>3 DEF RfbIInv, Locking, Holding, Unlocked, Buffers, Frames, Whole, hostvars
    <2>5. Messages' /\ Len(sent') <= n /\ (conn = "up" => Len(sent') = n)
      <3>1. CASE conn = "up"
        <4>1. Len(sent) = n - 1 /\ sent' = Record([kind |-> Greeting[n]]) /\ UNCHANGED size
            BY <2>1, <2>2, <2>3, <3>1 DEF Said, hostvars
        <4>2. Messages' /\ Len(sent') = n
            BY <4>1, Recorded DEF RfbIInv
        <4> QED BY <4>2
      <3>2. CASE conn # "up"
          BY <2>1, <2>2, <2>3, <3>2, MessagesKept, LenProperties DEF RfbIInv, Said, hostvars, Messages
      <3> QED BY <3>1, <3>2
    <2>6. Progress'
        BY <2>1, <2>2, <2>5 DEF Progress, Said
    <2> QED BY <2>4, <2>5, <2>6 DEF RfbIInv
  <1> QED BY <1>1, <1>2

----------------------------------------------------------------------------
(* The device's thread and the client.                                     *)

Silent == \/ Lock \/ Listen \/ CheckVersion \/ ReadInit \/ Unlock \/ AwaitMemif \/ TestMemif \/ Serve
          \/ set_encodings \/ LockToClose

\* The steps of the thread that send nothing and keep the connection.
LEMMA SilentIInv == RfbIInv /\ Silent => RfbIInv'
  <1> SUFFICES ASSUME RfbIInv, Silent PROVE RfbIInv'
      OBVIOUS
  <1>1. UNCHANGED <<hostvars, afd, conn, sent>>
      BY DEF Silent, Lock, Listen, CheckVersion, ReadInit, Unlock, AwaitMemif, TestMemif, Serve, set_encodings,
             LockToClose, Throws, wirevars
  <1>2. Messages' /\ Buffers'
      BY <1>1, MessagesKept DEF RfbIInv, Buffers, Frames, Whole, hostvars
  <1> DEFINE kept == UNCHANGED <<tpc, lock>>
             inside == tpc \in Holding /\ tpc' \in Holding /\ UNCHANGED lock
             outside == tpc \in Unlocked \ {"none", "start"} /\ tpc' \in Unlocked \ {"none", "start"} /\ UNCHANGED lock
  <1>3. \/ kept
        \/ tpc \in {"start", "close"} /\ tpc' \in {"listen", "closing"} /\ lock = "free" /\ lock' = "thread"
        \/ inside
        \/ tpc = "greeted" /\ tpc' = "wait" /\ lock' = "free"
        \/ outside
      BY DEF Silent, Lock, Listen, CheckVersion, ReadInit, Unlock, AwaitMemif, TestMemif, Serve, set_encodings,
             LockToClose, Throws, wirevars, Thread, Holding, Unlocked
  <1>4. /\ tpc' \in {"listen", "accept"} => tpc \in {"start", "listen", "accept"}
        /\ tpc' \notin {"none", "start"} \/ kept
      BY DEF Silent, Lock, Listen, CheckVersion, ReadInit, Unlock, AwaitMemif, TestMemif, Serve, set_encodings,
             LockToClose, Throws, wirevars, Thread
  <1>5. Locking'
      BY <1>1, <1>3, <1>4 DEF RfbIInv, Locking, Holding, Unlocked, hostvars
  <1>6. \/ kept
        \/ tpc' \in {"listen", "accept", "closing"}
        \/ <<tpc, tpc'>> \in {<<"check", "auth">>, <<"clientinit", "serverinit">>, <<"greeted", "wait">>}
        \/ /\ tpc \in {"wait", "loop", "serve", "encodings", "close"}
           /\ tpc' \in {"wait", "loop", "serve", "encodings", "close"}
      BY DEF Silent, Lock, Listen, CheckVersion, ReadInit, Unlock, AwaitMemif, TestMemif, Serve, set_encodings,
             LockToClose, Throws, wirevars, Thread
  <1>7. Len(sent) \in Nat
      BY LenProperties DEF RfbIInv, Messages
  <1>8. Progress'
      BY <1>1, <1>6, <1>7 DEF RfbIInv, Progress, Said
  <1> QED BY <1>2, <1>5, <1>8 DEF RfbIInv

\* A client comes, speaks, or goes; the connection is closed.
LEMMA ConnectionIInv ==
  ASSUME RfbIInv, Accept \/ Close \/ HangUp \/ (\E p \in Packets : Say(p)) \/ Ended \/ UNCHANGED rvars PROVE RfbIInv'
  <1>1. Buffers' /\ UNCHANGED size
      BY DEF Accept, Close, HangUp, Say, Ended, rvars, RfbIInv, Buffers, Frames, Whole, hostvars
  <1>2. CASE Accept \/ Close
    <2>1. sent' = <<>> /\ Len(sent') = 0 /\ UNCHANGED hostvars
        BY <1>2 DEF Accept, Close
    <2>2. Messages'
        BY <2>1 DEF Messages
    <2>3. Locking'
        BY <1>2, <2>1 DEF Accept, Close, Thread, RfbIInv, Locking, Holding, Unlocked, hostvars
    <2>4. Progress'
        BY <1>2, <2>1 DEF Accept, Close, Thread, Progress, Said
    <2> QED BY <1>1, <2>2, <2>3, <2>4 DEF RfbIInv
  <1>3. CASE ~ (Accept \/ Close)
    <2>1. UNCHANGED <<hostvars, tpc, lock, afd, sent>> /\ (conn' = conn \/ conn' = "hungup")
        BY <1>3 DEF HangUp, Say, Ended, rvars, wirevars
    <2>2. Messages'
        BY <1>1, <2>1, MessagesKept DEF RfbIInv
    <2>3. Locking' /\ Progress'
        BY <2>1 DEF RfbIInv, Locking, Progress, Said, hostvars
    <2> QED BY <1>1, <2>2, <2>3 DEF RfbIInv
  <1> QED BY <1>2, <1>3

LEMMA RfbNextIInv == RfbIInv /\ [RNext]_rvars => RfbIInv'
  <1> SUFFICES ASSUME RfbIInv, [RNext]_rvars PROVE RfbIInv'
      OBVIOUS
  <1>1. ASSUME NEW n \in Sizes, NEW good \in BOOLEAN, handle_configure(n, good) PROVE RfbIInv'
      BY <1>1, ConfigureIInv
  <1>2. CASE Destroy \/ TryLock \/ \E a \in Addresses, aligned \in BOOLEAN : handle_set_address(a, aligned)
      BY <1>2, QuietIInv
  <1>3. CASE tick
      BY <1>3, TickIInv
  <1>4. CASE fb_update
      BY <1>4, UpdateIInv
  <1>5. CASE Greet("version", "check", "version") \/ Greet("auth", "clientinit", "auth")
             \/ Greet("serverinit", "greeted", "serverinit")
    <2>1. Greeting[1] = "version" /\ Greeting[2] = "auth" /\ Greeting[3] = "serverinit"
        BY DEF Greeting
    <2> QED BY <1>5, <2>1, GreetIInv
  <1>6. CASE Silent
      BY <1>6, SilentIInv
  <1>7. CASE Accept \/ Close \/ HangUp \/ (\E p \in Packets : Say(p)) \/ Ended \/ UNCHANGED rvars
      BY <1>7, ConnectionIInv
  <1> QED BY <1>1, <1>2, <1>3, <1>4, <1>5, <1>6, <1>7 DEF RNext, Host, thread_main, Silent

\* What the invariant says of what was sent is StreamInOrder: a whole frame of one chunk or
\* more is not the buffer that was never filled.
LEMMA IInvStream == RfbIInv => StreamInOrder
  <1> SUFFICES ASSUME RfbIInv, NEW i \in 1..Len(sent)
               PROVE  IF i <= 3 THEN sent[i].kind = Greeting[i]
                      ELSE /\ sent[i].kind = "update"
                           /\ \A j \in 1..size : sent[i].frame[j].pos = j
                           /\ \A j, k \in 1..size : sent[i].frame[j].pass = sent[i].frame[k].pass
                           /\ sent[i].frame # [j \in 1..size |-> Unread]
      BY DEF StreamInOrder
  <1>1. CASE i <= 3
    <2>1. sent[i] = [kind |-> Greeting[i]]
        BY <1>1 DEF RfbIInv, Messages
    <2> QED BY <1>1, <2>1
  <1>2. CASE ~ (i <= 3)
    <2>1. size # 0 /\ sent[i].kind = "update" /\ Whole(sent[i].frame)
        BY <1>2 DEF RfbIInv, Messages
    <2>2. 1 \in 1..size
        BY <2>1 DEF RfbIInv, Buffers
    <2> DEFINE blank == [j \in 1..size |-> Unread]
    <2>3. blank[1].pos = 0
        BY <2>2 DEF Unread
    <2> HIDE DEF blank
    <2>4. PICK p \in Nat : \A j \in 1..size : sent[i].frame[j].pos = j /\ sent[i].frame[j].pass = p
        BY <2>1 DEF Whole
    <2>5. sent[i].frame[1].pos = 1
        BY <2>2, <2>4
    <2>6. sent[i].frame # blank
        BY <2>3, <2>5
    <2> QED BY <1>2, <2>1, <2>4, <2>6 DEF blank
  <1> QED BY <1>1, <1>2

\* Whatever the host, the client and the scheduler do, for frames of any number of chunks: a
\* client is sent the greeting in its order, and then only frames copied in one pass.
THEOREM StreamKept == RSpec => []StreamInOrder
  <1> QED BY RfbInitIInv, RfbNextIInv, IInvStream, PTL DEF RSpec

----------------------------------------------------------------------------
(* HtifPthread: the two byte queues lose, double and swap nothing, for     *)
(* queues and calls of any size.  BytesInOrder is inductive together with  *)
(* the types of the variables; the work is in the facts about sequences,   *)
(* of which each call uses one: Sent appends to a queue, Received takes    *)
(* from its front.                                                         *)

PTypeOK == /\ running \in Sides
           /\ want \in [Sides -> Nat]
           /\ th_data \in Seq(Nat) /\ ht_data \in Seq(Nat)
           /\ th_got \in Seq(Nat) /\ ht_got \in Seq(Nat)
           /\ th_sent \in Nat /\ ht_sent \in Nat

QueueIInv == PTypeOK /\ BytesInOrder

----------------------------------------------------------------------------
(* Sequences of numbered bytes.                                            *)

LEMMA ConcatAssociates ==
  ASSUME NEW q \in Seq(Nat), NEW r \in Seq(Nat), NEW s \in Seq(Nat)
  PROVE  (q \o r) \o s = q \o (r \o s)
  BY ConcatAssociative

LEMMA BytesType ==
  ASSUME NEW k \in Nat, NEW n \in Nat
  PROVE  /\ Bytes(k, n) \in Seq(Nat)
         /\ Len(Bytes(k, n)) = n
         /\ \A i \in 1..n : Bytes(k, n)[i] = k + i
  <1>1. \A i \in 1..n : k + i \in Nat
      OBVIOUS
  <1>2. Bytes(k, n) \in [1..n -> Nat]
      BY <1>1 DEF Bytes
  <1>3. Bytes(k, n) \in Seq(Nat)
      BY <1>2
  <1>4. Len(Bytes(k, n)) = n
      BY <1>2
  <1> QED BY <1>3, <1>4 DEF Bytes

\* Bytes that are sent later follow those that were sent before.
LEMMA BytesConcat ==
  ASSUME NEW k \in Nat, NEW n \in Nat
  PROVE  Bytes(0, k) \o Bytes(k, n) = Bytes(0, k + n)
  <1> DEFINE s == Bytes(0, k) \o Bytes(k, n)
             t == Bytes(0, k + n)
  <1>1. /\ Bytes(0, k) \in Seq(Nat) /\ Len(Bytes(0, k)) = k
        /\ \A i \in 1..k : Bytes(0, k)[i] = 0 + i
      BY BytesType
  <1>2. /\ Bytes(k, n) \in Seq(Nat) /\ Len(Bytes(k, n)) = n
        /\ \A i \in 1..n : Bytes(k, n)[i] = k + i
      BY BytesType
  <1>3. /\ t \in Seq(Nat) /\ Len(t) = k + n
        /\ \A i \in 1..k + n : t[i] = 0 + i
    <2> HIDE DEF t
    <2>1. k + n \in Nat
        OBVIOUS
    <2> QED BY <2>1, BytesType DEF t
  <1>4. /\ s \in Seq(Nat) /\ Len(s) = k + n
        /\ \A i \in 1..k + n : s[i] = IF i <= k THEN Bytes(0, k)[i] ELSE Bytes(k, n)[i - k]
    <2> DEFINE a == Bytes(0, k)
               b == Bytes(k, n)
    <2>1. a \in Seq(Nat) /\ b \in Seq(Nat) /\ Len(a) = k /\ Len(b) = n
        BY <1>1, <1>2
    <2> HIDE DEF a, b
    <2>2. /\ a \o b \in Seq(Nat)
          /\ Len(a \o b) = Len(a) + Len(b)
          /\ \A i \in 1..Len(a) + Len(b) : (a \o b)[i] = IF i <= Len(a) THEN a[i] ELSE b[i - Len(a)]
        BY <2>1, ConcatProperties
    <2> QED BY <2>1, <2>2 DEF a, b
  <1>5. \A i \in 1..k + n : s[i] = t[i]
    <2> SUFFICES ASSUME NEW i \in 1..k + n PROVE s[i] = 0 + i
        BY <1>3
    <2>1. CASE i <= k
        BY <1>1, <1>4, <2>1
    <2>2. CASE ~ (i <= k)
      <3>1. i - k \in 1..n
          BY <2>2
      <3> HIDE DEF s
      <3>2. s[i] = Bytes(k, n)[i - k]
          BY <1>4, <2>2
      <3>3. Bytes(k, n)[i - k] = k + (i - k)
          BY <1>2, <3>1
      <3> QED BY <3>2, <3>3
    <2> QED BY <2>1, <2>2
  <1> HIDE DEF s, t
  <1>6. s = t
      BY <1>3, <1>4, <1>5, SeqEqual
  <1> QED BY <1>6 DEF s, t

\* write() and send(): new bytes at the end of a queue.
LEMMA Sent ==
  ASSUME NEW got \in Seq(Nat), NEW data \in Seq(Nat), NEW m \in Nat, NEW n \in Nat,
         got \o data = Bytes(0, m)
  PROVE  /\ data \o Bytes(m, n) \in Seq(Nat)
         /\ got \o (data \o Bytes(m, n)) = Bytes(0, m + n)
  <1>1. Bytes(m, n) \in Seq(Nat)
      BY BytesType
  <1>2. data \o Bytes(m, n) \in Seq(Nat)
      BY <1>1, ConcatProperties
  <1>3. got \o (data \o Bytes(m, n)) = (got \o data) \o Bytes(m, n)
      BY <1>1, ConcatAssociates
  <1> QED BY <1>2, <1>3, BytesConcat

\* read() and recv_nonblocking(): the first n bytes of a queue are taken.
LEMMA Received ==
  ASSUME NEW got \in Seq(Nat), NEW data \in Seq(Nat), NEW n \in 0..Len(data)
  PROVE  /\ got \o SubSeq(data, 1, n) \in Seq(Nat)
         /\ SubSeq(data, n + 1, Len(data)) \in Seq(Nat)
         /\ (got \o SubSeq(data, 1, n)) \o SubSeq(data, n + 1, Len(data)) = got \o data
  <1> DEFINE front == SubSeq(data, 1, n)
             rest == SubSeq(data, n + 1, Len(data))
  <1>0. Len(data) \in Nat /\ \A i \in 1..Len(data) : data[i] \in Nat
      BY LenProperties, ElementOfSeq
  <1>1. front \in Seq(Nat)
      BY <1>0, SubSeqProperties
  <1>2. rest \in Seq(Nat)
      BY <1>0, SubSeqProperties
  <1>3. front \o rest = data
    <2>1. 1 \in 1..Len(data) + 1 /\ n \in 1 - 1..Len(data) /\ Len(data) \in n..Len(data)
        BY <1>0
    <2>2. front \o rest = SubSeq(data, 1, Len(data))
        BY <2>1, ConcatAdjacentSubSeq
    <2> QED BY <2>2, SubSeqFull
  <1> HIDE DEF front, rest
  <1>4. (got \o front) \o rest = got \o (front \o rest)
      BY <1>1, <1>2, ConcatAssociates
  <1>5. got \o front \in Seq(Nat)
      BY <1>1, ConcatProperties
  <1> QED BY <1>2, <1>3, <1>4, <1>5 DEF front, rest

----------------------------------------------------------------------------
(* The calls.                                                              *)

LEMMA QueueInitIInv == PInit => QueueIInv
  <1> SUFFICES ASSUME PInit PROVE QueueIInv
      OBVIOUS
  <1>1. PTypeOK
      BY DEF PInit, PTypeOK, Sides
  <1>2. Bytes(0, 0) = <<>>
      BY BytesType
  <1>3. <<>> \o <<>> = <<>>
      OBVIOUS
  <1> QED BY <1>1, <1>2, <1>3 DEF PInit, QueueIInv, BytesInOrder

LEMMA SendIInv == ASSUME QueueIInv, NEW n \in 1..MaxSize, write(n) \/ send(n) PROVE QueueIInv'
  <1>0. n \in Nat
      BY PthreadAssumption
  <1>1. CASE write(n)
    <2>1. ht_data' = ht_data \o Bytes(ht_sent, n) /\ ht_sent' = ht_sent + n
        BY <1>1 DEF write
    <2>2. /\ ht_data' \in Seq(Nat)
          /\ ht_got \o ht_data' = Bytes(0, ht_sent')
        BY <1>0, <2>1, Sent DEF QueueIInv, PTypeOK, BytesInOrder
    <2> QED BY <1>0, <1>1, <2>1, <2>2 DEF write, QueueIInv, PTypeOK, BytesInOrder
  <1>2. CASE send(n)
    <2>1. th_data' = th_data \o Bytes(th_sent, n) /\ th_sent' = th_sent + n
        BY <1>2 DEF send
    <2>2. /\ th_data' \in Seq(Nat)
          /\ th_got \o th_data' = Bytes(0, th_sent')
        BY <1>0, <2>1, Sent DEF QueueIInv, PTypeOK, BytesInOrder
    <2> QED BY <1>0, <1>2, <2>1, <2>2 DEF send, QueueIInv, PTypeOK, BytesInOrder
  <1> QED BY <1>1, <1>2

LEMMA AskIInv == ASSUME QueueIInv, NEW n \in 1..MaxSize, read(n) \/ recv(n) PROVE QueueIInv'
  <1>1. n \in Nat
      BY PthreadAssumption
  <1> QED BY <1>1 DEF read, recv, QueueIInv, PTypeOK, BytesInOrder, Sides

\* The host takes what is there, but no more than it asked for.
LEMMA ReadIInv == QueueIInv /\ ReadStep => QueueIInv'
  <1> SUFFICES ASSUME QueueIInv, ReadStep PROVE QueueIInv'
      OBVIOUS
  <1>1. CASE th_data = <<>>
      BY <1>1 DEF ReadStep, QueueIInv, PTypeOK, BytesInOrder, Sides
  <1>2. CASE th_data # <<>>
    <2> DEFINE s == Lesser(want["host"], Len(th_data))
    <2>1. s \in 0..Len(th_data)
        BY LenProperties DEF Lesser, QueueIInv, PTypeOK, Sides
    <2>2. /\ th_got' = th_got \o SubSeq(th_data, 1, s)
          /\ th_data' = SubSeq(th_data, s + 1, Len(th_data))
          /\ want' = [want EXCEPT !["host"] = 0]
          /\ UNCHANGED <<running, ht_data, th_sent, ht_sent, ht_got>>
        BY <1>2 DEF ReadStep, ReadReturns
    <2> HIDE DEF s
    <2>3. /\ th_got' \in Seq(Nat) /\ th_data' \in Seq(Nat)
          /\ th_got' \o th_data' = th_got \o th_data
        BY <2>1, <2>2, Received DEF QueueIInv, PTypeOK
    <2> QED BY <2>2, <2>3 DEF QueueIInv, PTypeOK, BytesInOrder, Sides
  <1> QED BY <1>1, <1>2

\* The target takes all that it asked for or nothing.
LEMMA RecvNonblocking ==
  ASSUME QueueIInv, NEW m \in Nat, recv_nonblocking(m)
  PROVE  /\ running' \in Sides
         /\ ht_data' \in Seq(Nat) /\ ht_got' \in Seq(Nat)
         /\ ht_got' \o ht_data' = ht_got \o ht_data
  <1>1. CASE Len(ht_data) < m
      BY <1>1 DEF recv_nonblocking, QueueIInv, PTypeOK, Sides
  <1>2. CASE ~ (Len(ht_data) < m)
    <2>1. m \in 0..Len(ht_data)
        BY <1>2, LenProperties DEF QueueIInv, PTypeOK
    <2>2. /\ ht_got' = ht_got \o SubSeq(ht_data, 1, m)
          /\ ht_data' = SubSeq(ht_data, m + 1, Len(ht_data))
          /\ UNCHANGED running
        BY <1>2 DEF recv_nonblocking
    <2> QED BY <2>1, <2>2, Received DEF QueueIInv, PTypeOK
  <1> QED BY <1>1, <1>2

LEMMA TryRecvIInv == ASSUME QueueIInv, NEW n \in 1..MaxSize, TryRecv(n) PROVE QueueIInv'
  <1>1. n \in Nat
      BY PthreadAssumption
  <1>2. recv_nonblocking(n)
      BY DEF TryRecv
  <1> QED BY <1>1, <1>2, RecvNonblocking DEF TryRecv, QueueIInv, PTypeOK, BytesInOrder

LEMMA RecvIInv == QueueIInv /\ RecvStep => QueueIInv'
  <1> SUFFICES ASSUME QueueIInv, RecvStep PROVE QueueIInv'
      OBVIOUS
  <1>1. want["target"] \in Nat
      BY DEF QueueIInv, PTypeOK, Sides
  <1>2. recv_nonblocking(want["target"])
      BY DEF RecvStep
  <1>3. want' \in [Sides -> Nat]
      BY DEF RecvStep, QueueIInv, PTypeOK, Sides
  <1> QED BY <1>1, <1>2, <1>3, RecvNonblocking DEF RecvStep, QueueIInv, PTypeOK, BytesInOrder

LEMMA QueueOthersIInv == QueueIInv /\ (thread_main_host \/ UNCHANGED pvars) => QueueIInv'
  BY DEF thread_main_host, QueueIInv, PTypeOK, BytesInOrder, Sides, pvars

\* Whatever the sizes of the calls and wherever control moves, the bytes that have arrived
\* and those on the way are the bytes that were sent, in their order.
THEOREM BytesKept == PSpec => []BytesInOrder
  <1>1. QueueIInv /\ [PNext]_pvars => QueueIInv'
    <2> SUFFICES ASSUME QueueIInv, [PNext]_pvars PROVE QueueIInv'
        OBVIOUS
    <2>1. ASSUME NEW n \in 1..MaxSize, write(n) \/ read(n) \/ send(n) \/ TryRecv(n) \/ recv(n)
          PROVE  QueueIInv'
        BY <2>1, SendIInv, AskIInv, TryRecvIInv
    <2>2. CASE ReadStep
        BY <2>2, ReadIInv
    <2>3. CASE RecvStep
        BY <2>3, RecvIInv
    <2>4. CASE thread_main_host \/ UNCHANGED pvars
        BY <2>4, QueueOthersIInv
    <2> QED BY <2>1, <2>2, <2>3, <2>4 DEF PNext
  <1>2. QueueIInv => BytesInOrder
      BY DEF QueueIInv
  <1> QED BY QueueInitIInv, <1>1, <1>2, PTL DEF PSpec

----------------------------------------------------------------------------
(* Xspike leaves no terminal and no spike behind, whatever statuses spike  *)
(* may end with.  XspikeCloses speaks of the end of main; what makes it    *)
(* inductive is which children there can be at each place before it.       *)

\* The xterm: there is none before fork_xterm, nobody has told it to go before spike is
\* started, and past read() the terminal is open unless it could not be opened.
XtermAt == /\ xpc = "fork_xterm" => xterm = "none" /\ tty = "none"
           /\ xpc \in {"read", "signal", "fork_spike"} => xterm # "signalled"
           /\ xpc \in {"signal", "fork_spike", "wait", "interrupted", "close_xterm"} => tty = "good"
           /\ xpc = "ended" /\ tty = "none" => xterm = "none"

\* spike: there is none before fork_spike, it has ended or was told to from the closing of
\* the terminal on, and only an interrupted wait tells it to.
SpikeAt == /\ xpc \in {"fork_xterm", "read", "signal", "fork_spike"} => spike = "none"
           /\ xpc \in {"close_xterm", "ended"} => spike \in {"none", "signalled", "gone"}
           /\ xpc = "interrupted" \/ spike = "signalled" => signal_exit
           /\ xpc \in {"close_xterm", "ended"} /\ spike = "gone" /\ wait_status \in Statuses /\ ~ signal_exit
                => ret = wait_status

XspikeIInv == XspikeCloses /\ XtermAt /\ SpikeAt

LEMMA XspikeInitIInv == XInit => XspikeIInv
  BY DEF XInit, XspikeIInv, XspikeCloses, XtermAt, SpikeAt

\* The statements of main() and of the two forks.
LEMMA ParentIInv ==
    XspikeIInv /\ (ForkXterm \/ ReadTty \/ SetHandler \/ ForkSpike \/ Wait \/ Interrupted \/ CloseXterm) => XspikeIInv'
  <1> SUFFICES ASSUME XspikeIInv,
                      ForkXterm \/ ReadTty \/ SetHandler \/ ForkSpike \/ Wait \/ Interrupted \/ CloseXterm
               PROVE  XspikeIInv'
      OBVIOUS
  <1> USE DEF XspikeIInv, XspikeCloses, XtermAt, SpikeAt
  <1>1. CASE ForkXterm
      BY <1>1 DEF ForkXterm
  <1>2. CASE ReadTty
      BY <1>2 DEF ReadTty
  <1>3. CASE SetHandler
      BY <1>3 DEF SetHandler
  <1>4. CASE ForkSpike
      BY <1>4 DEF ForkSpike
  <1>5. CASE Wait
      BY <1>5 DEF Wait
  <1>6. CASE Interrupted
      BY <1>6 DEF Interrupted
  <1>7. CASE CloseXterm
      BY <1>7 DEF CloseXterm, Terminated
  <1> QED BY <1>1, <1>2, <1>3, <1>4, <1>5, <1>6, <1>7

\* The children's steps and the user's interrupt.
LEMMA XspikeOthersIInv == XspikeIInv /\ (XtermChild \/ XtermSays \/ XtermEnds \/ SpikeChild \/ SpikeEnds \/ Sigint) => XspikeIInv'
  <1> SUFFICES ASSUME XspikeIInv, XtermChild \/ XtermSays \/ XtermEnds \/ SpikeChild \/ SpikeEnds \/ Sigint
               PROVE  XspikeIInv'
      OBVIOUS
  <1> USE DEF XspikeIInv, XspikeCloses, XtermAt, SpikeAt
  <1>1. CASE XtermChild
      BY <1>1 DEF XtermChild
  <1>2. CASE XtermSays
      BY <1>2 DEF XtermSays
  <1>3. CASE XtermEnds
      BY <1>3 DEF XtermEnds
  <1>4. CASE SpikeChild
      BY <1>4, XspikeAssumption DEF SpikeChild, Terminated, Failed1
  <1>5. CASE SpikeEnds
      BY <1>5 DEF SpikeEnds
  <1>6. CASE Sigint
      BY <1>6 DEF Sigint
  <1> QED BY <1>1, <1>2, <1>3, <1>4, <1>5, <1>6

\* When xspike ends, its terminal and spike have gone or were told to, and its status is
\* spike's, whatever failed and whenever the user interrupted it.
THEOREM XspikeLeavesNothing == XSpec => []XspikeCloses
  <1>1. XspikeIInv /\ [XNext]_xvars => XspikeIInv'
    <2>1. XspikeIInv /\ UNCHANGED xvars => XspikeIInv'
        BY DEF XspikeIInv, XspikeCloses, XtermAt, SpikeAt, xvars
    <2> QED BY <2>1, ParentIInv, XspikeOthersIInv DEF XNext
  <1>2. XspikeIInv => XspikeCloses
      BY DEF XspikeIInv
  <1> QED BY XspikeInitIInv, <1>1, <1>2, PTL DEF XSpec
=============================================================================
