----------------------------- MODULE MCThreads -----------------------------
(* Two hosts' threads and xspike's processes beside each other: a behaviour   *)
(* is one of the frame buffer, of the byte queues or of xspike.               *)
EXTENDS Rfb, HtifPthread, Xspike

VARIABLE part

mcvars == <<part, rvars, pvars, xvars>>

Init == part \in {"rfb", "pthread", "xspike"} /\ RInit /\ PInit /\ XInit

RfbNext == part = "rfb" /\ RNext /\ UNCHANGED <<part, pvars, xvars>>
PthreadNext == part = "pthread" /\ PNext /\ UNCHANGED <<part, rvars, xvars>>
XspikeNext == part = "xspike" /\ (XNext \/ (xpc \in {"ended", "died"} /\ UNCHANGED xvars)) /\ UNCHANGED <<part, rvars, pvars>>

Next == RfbNext \/ PthreadNext \/ XspikeNext

(* The host loop ticks its devices for ever and the kernel runs both threads. *)
HostStep == part = "rfb" /\ Host /\ UNCHANGED <<part, pvars, xvars>>
ThreadStep == part = "rfb" /\ thread_main /\ UNCHANGED <<part, pvars, xvars>>
Fairness == WF_mcvars(HostStep) /\ WF_mcvars(ThreadStep)

Spec == Init /\ [][Next]_mcvars /\ Fairness
=============================================================================
