------------------------------ MODULE Context ------------------------------
(***************************************************************************)
(* context_t built on POSIX threads (fesvr/context.cc without              *)
(* USE_UCONTEXT).  A context is a thread, a mutex, a condition variable    *)
(* and the volatile `flag' that says the thread may run.  One action is    *)
(* one access to shared memory or one pthread call; flag accesses are      *)
(* sequentially consistent.  pthread_cond_wait may return with no signal.  *)
(***************************************************************************)
EXTENDS Integers

CONSTANTS Contexts, Main, None

ASSUME ContextAssumption == /\ Main \in Contexts
                            /\ None \notin Contexts

VARIABLES pc,         \* pc[x]: where the thread of x is; "none" before init()
          flag,       \* flag[x] = 1: x may run
          mutex,      \* mutex[x]: the thread that holds x's mutex, or None
          creator,    \* creator[x]: the context that called x.init()
          dest,       \* dest[x]: `this' of the switch_to(), or of the init(),
                      \*   that x is executing
          inWrapper   \* contexts whose switch_to() call is the wrapper's

vars == <<pc, flag, mutex, creator, dest, inWrapper>>

\* Inside init(), before the new thread exists.
Creating == {"i_lock", "i_clear", "i_create"}
\* Inside switch_to(), before the store that passes control on.
Leaving  == {"clear", "set"}
\* Inside switch_to(), waking the thread that was given control.
Waking   == {"lock", "signal", "unlockdest"}
\* Inside switch_to() or init(), waiting for control.
Waiting  == {"lockself", "test", "wait", "asleep", "woken", "unlock"}
PCs      == {"none", "run"} \cup Creating \cup Leaving \cup Waking \cup Waiting

Init == /\ pc = [x \in Contexts |-> IF x = Main THEN "run" ELSE "none"]
        /\ flag = [x \in Contexts |-> IF x = Main THEN 1 ELSE 0]
        /\ mutex = [x \in Contexts |-> None]
        /\ creator = [x \in Contexts |-> None]
        /\ dest = [x \in Contexts |-> None]
        /\ inWrapper = {}

Goto(x, from, to) == pc[x] = from /\ pc' = [pc EXCEPT ![x] = to]
Acquire(x, m) == mutex[m] = None /\ mutex' = [mutex EXCEPT ![m] = x]
Release(m) == mutex' = [mutex EXCEPT ![m] = None]

----------------------------------------------------------------------------
(* x calls d.init(f, a): creator = current(), then assert(flag == 0).      *)
CallInit(x, d) == /\ pc[d] = "none"
                  /\ flag[d] = 0
                  /\ Goto(x, "run", "i_lock")
                  /\ creator' = [creator EXCEPT ![d] = x]
                  /\ dest' = [dest EXCEPT ![x] = d]
                  /\ UNCHANGED <<flag, mutex, inWrapper>>

InitLock(x) == /\ Goto(x, "i_lock", "i_clear")
               /\ Acquire(x, x)
               /\ UNCHANGED <<flag, creator, dest, inWrapper>>

InitClear(x) == /\ Goto(x, "i_clear", "i_create")
                /\ flag' = [flag EXCEPT ![x] = 0]
                /\ UNCHANGED <<mutex, creator, dest, inWrapper>>

\* pthread_create: the new thread starts in the wrapper, which calls
\* creator->switch_to() before anything else.
InitCreate(x) == /\ pc[x] = "i_create"
                 /\ pc' = [pc EXCEPT ![x] = "test", ![dest[x]] = "clear"]
                 /\ dest' = [dest EXCEPT ![dest[x]] = creator[dest[x]]]
                 /\ inWrapper' = inWrapper \cup {dest[x]}
                 /\ UNCHANGED <<flag, mutex, creator>>

----------------------------------------------------------------------------
(* x calls d.switch_to(): assert(this != cur), and d has been initialised. *)
CallSwitch(x, d) == /\ d # x
                    /\ pc[d] # "none"
                    /\ Goto(x, "run", "clear")
                    /\ dest' = [dest EXCEPT ![x] = d]
                    /\ UNCHANGED <<flag, mutex, creator, inWrapper>>

\* Mutant: the store is forgotten.
MutNoClear(x) == /\ Goto(x, "clear", "set")
                 /\ UNCHANGED <<flag, mutex, creator, dest, inWrapper>>

ClearFlag(x) == /\ Goto(x, "clear", "set")
                /\ flag' = [flag EXCEPT ![x] = 0]
                /\ UNCHANGED <<mutex, creator, dest, inWrapper>>

SetFlag(x) == /\ Goto(x, "set", "lock")
              /\ flag' = [flag EXCEPT ![dest[x]] = 1]
              /\ UNCHANGED <<mutex, creator, dest, inWrapper>>

\* Mutant: the signal is sent without holding the destination's mutex.
MutSignalUnlocked(x) == /\ Goto(x, "lock", "signal")
                        /\ UNCHANGED <<flag, mutex, creator, dest, inWrapper>>

LockDest(x) == /\ Goto(x, "lock", "signal")
               /\ Acquire(x, dest[x])
               /\ UNCHANGED <<flag, creator, dest, inWrapper>>

\* Mutant: the flag is set but nobody is woken.
MutNoSignal(x) == /\ Goto(x, "signal", "unlockdest")
                  /\ UNCHANGED <<flag, mutex, creator, dest, inWrapper>>

\* Only the thread of a context ever waits on its condition variable.
Signal(x) == /\ pc[x] = "signal"
             /\ pc' = [pc EXCEPT ![x] = "unlockdest",
                                 ![dest[x]] = IF @ = "asleep" THEN "woken" ELSE @]
             /\ UNCHANGED <<flag, mutex, creator, dest, inWrapper>>

UnlockDest(x) == /\ Goto(x, "unlockdest", "lockself")
                 /\ Release(dest[x])
                 /\ UNCHANGED <<flag, creator, dest, inWrapper>>

LockSelf(x) == /\ Goto(x, "lockself", "test")
               /\ Acquire(x, x)
               /\ UNCHANGED <<flag, creator, dest, inWrapper>>

----------------------------------------------------------------------------
(* while (!flag) pthread_cond_wait(&cond, &mutex), in both functions.      *)
Test(x) == /\ Goto(x, "test", IF flag[x] = 0 THEN "wait" ELSE "unlock")
           /\ UNCHANGED <<flag, mutex, creator, dest, inWrapper>>

CondWait(x) == /\ Goto(x, "wait", "asleep")
               /\ Release(x)
               /\ UNCHANGED <<flag, creator, dest, inWrapper>>

SpuriousWakeup(x) == /\ Goto(x, "asleep", "woken")
                     /\ UNCHANGED <<flag, mutex, creator, dest, inWrapper>>

\* Mutant: `if' for `while': a woken thread does not test the flag again.
MutIfForWhile(x) == /\ Goto(x, "woken", "unlock")
                    /\ Acquire(x, x)
                    /\ UNCHANGED <<flag, creator, dest, inWrapper>>

Relock(x) == /\ Goto(x, "woken", "test")
             /\ Acquire(x, x)
             /\ UNCHANGED <<flag, creator, dest, inWrapper>>

\* The call returns: to the caller's code, or from the wrapper to func().
Return(x) == /\ Goto(x, "unlock", "run")
             /\ Release(x)
             /\ inWrapper' = inWrapper \ {x}
             /\ UNCHANGED <<flag, creator, dest>>

----------------------------------------------------------------------------
\* What the program chooses to do, and what a thread does by itself.
Call(x) == \E d \in Contexts : CallInit(x, d) \/ CallSwitch(x, d)

Step(x) == \/ InitLock(x)  \/ InitClear(x)  \/ InitCreate(x)
           \/ ClearFlag(x) \/ SetFlag(x)    \/ LockDest(x)
           \/ Signal(x)    \/ UnlockDest(x) \/ LockSelf(x)
           \/ Test(x)      \/ CondWait(x)   \/ Relock(x)  \/ Return(x)

Next == \E x \in Contexts : Call(x) \/ Step(x) \/ SpuriousWakeup(x)

Spec == Init /\ [][Next]_vars

\* Threads are scheduled fairly, and a mutex that is free again and again is
\* acquired: only LockDest competes with a thread that may wake for ever.
Fairness == \A x \in Contexts : WF_vars(Step(x)) /\ SF_vars(LockDest(x))

LiveSpec == Spec /\ Fairness

----------------------------------------------------------------------------
\* Every variable has its type.
TypeOK == /\ pc \in [Contexts -> PCs]
          /\ flag \in [Contexts -> {0, 1}]
          /\ mutex \in [Contexts -> Contexts \cup {None}]
          /\ creator \in [Contexts -> Contexts \cup {None}]
          /\ dest \in [Contexts -> Contexts \cup {None}]
          /\ inWrapper \in SUBSET Contexts

\* Executing its own code, or the part of a call before control is passed on.
Active(x) == pc[x] \in {"run"} \cup Creating \cup Leaving

\* Executing, or entitled to: control was passed to x and it has yet to notice.
Control(x) == Active(x) \/ (pc[x] \in Waking \cup Waiting /\ flag[x] = 1)

\* At most one context executes code outside the hand-over protocol, so the
\* coroutines may share the host's data (in_data, out_data) without a lock.
MutualExclusion == \A x, y \in Contexts : Active(x) /\ Active(y) => x = y

\* A context that was given control and sleeps, or has decided to sleep, on its
\* condition variable has its signal still ahead: the store at line 90 is
\* outside the mutex, and the wakeup it announces is never lost.
NoLostWakeup ==
  \A x \in Contexts : flag[x] = 1 /\ pc[x] \in {"wait", "asleep"}
                        => \E y \in Contexts : /\ dest[y] = x
                                               /\ pc[y] \in {"lock", "signal"}

\* The threads, mutexes and flags implement coroutines: control moves as
\* Coroutine says, and never by a spurious wakeup or a late signal.
Current == CHOOSE x \in Contexts : Control(x)
Created == [d \in Contexts |-> IF pc[d] = "none" THEN None ELSE creator[d]]
Fresh == {d \in inWrapper : pc[d] \in Leaving}

Abstract == INSTANCE Coroutine WITH
  current <- Current, creator <- Created, fresh <- Fresh

Implements == Abstract!Spec

\* Whoever is given control gets to execute, though every other thread may wake
\* spuriously for ever and compete for the mutexes; and init(), which waits for the new
\* thread to switch back, returns to its caller.
ControlRuns == /\ \A x \in Contexts : Control(x) ~> Active(x)
               /\ \A x \in Contexts : (pc[x] = "i_lock") ~> (pc[x] = "run")
=============================================================================
