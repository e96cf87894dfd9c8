----------------------------- MODULE Coroutine -----------------------------
(***************************************************************************)
(* What context_t promises to its users (tsi.cc, dtm.cc, htif_pthread.cc): *)
(* cooperative coroutines.  Exactly one context has control, and control   *)
(* moves only by init() and switch_to().  This is also, step for step, the *)
(* ucontext build of context.cc (USE_UCONTEXT, the glibc build), in which  *)
(* swapcontext moves control in one step: `current' is the variable `cur'. *)
(***************************************************************************)
CONSTANTS Contexts,   \* the context_t objects
          Main,       \* the context of the thread that calls current() first
          None        \* the null pointer, not in Contexts

VARIABLES current,    \* the context that has control
          creator,    \* creator[d]: who called d.init(), None before that
          fresh       \* contexts whose wrapper has not handed control back yet

cvars == <<current, creator, fresh>>

Init == /\ current = Main
        /\ creator = [d \in Contexts |-> None]
        /\ fresh = {}

Alive(d) == d = Main \/ creator[d] # None

\* init(): control enters the wrapper of d, a context nobody has created ...
Create(d) == /\ ~ Alive(d)
             /\ current \notin fresh
             /\ creator' = [creator EXCEPT ![d] = current]
             /\ current' = d
             /\ fresh' = fresh \cup {d}

\* ... whose first statement gives control back to the creator.
HandBack == /\ current \in fresh
            /\ current' = creator[current]
            /\ fresh' = fresh \ {current}
            /\ UNCHANGED creator

\* switch_to(): assert(this != cur).
Switch(d) == /\ current \notin fresh
             /\ Alive(d)
             /\ d # current
             /\ current' = d
             /\ UNCHANGED <<creator, fresh>>

Next == \/ \E d \in Contexts : Create(d) \/ Switch(d)
        \/ HandBack

Spec == Init /\ [][Next]_cvars
=============================================================================
