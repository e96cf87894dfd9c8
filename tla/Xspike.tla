------------------------------- MODULE Xspike -------------------------------
(***************************************************************************)
(* xspike (spike_main/xspike.cc): a process that opens an xterm in a group *)
(* of its own, runs spike with the xterm as its console, and closes both   *)
(* when spike ends or the user interrupts it.  The two children, the user  *)
(* and the outcome of every system call are free; whether a signal         *)
(* interrupts waitpid is left to the C library.                            *)
(***************************************************************************)
EXTENDS Naturals

CONSTANT Statuses       \* exit statuses of spike

ASSUME XspikeAssumption == Statuses \subseteq 0..255

VARIABLES xpc,          \* where xspike is; "ended", or "died" of a signal
          xterm,        \* "none", "child", "running", "signalled", "gone"
          tty,          \* the line in the pipe: "none", "good", or "bad": no terminal can be opened
          spike,        \* "none", "child", "running", "signalled", "gone"
          wait_status,  \* what spike left: a status, or BySignal; before that NotYet
          signal_exit,
          ret           \* the status that xspike returns; -1 is 255

xvars == <<xpc, xterm, tty, spike, wait_status, signal_exit, ret>>

Failed1 == 255
BySignal == 256      \* not an exit status
NotYet == 257

XInit == /\ xpc = "fork_xterm" /\ xterm = "none" /\ tty = "none" /\ spike = "none"
         /\ wait_status = NotYet /\ signal_exit = FALSE /\ ret = Failed1

----------------------------------------------------------------------------
(* xspike.                                                                 *)

\* pipe or fork fails, or a child starts that is to become the xterm.
ForkXterm == /\ xpc = "fork_xterm"
             /\ \/ xpc' = "ended" /\ UNCHANGED xterm
                \/ xpc' = "read" /\ xterm' = "child"
             /\ UNCHANGED <<tty, spike, wait_status, signal_exit, ret>>

\* The name of the terminal is read and the terminal opened; if not, the xterm stays.
ReadTty == /\ xpc = "read" /\ tty # "none"
           /\ \/ tty = "good" /\ xpc' = "signal" /\ UNCHANGED tty
              \/ xpc' = "ended" /\ tty' = "bad"
           /\ UNCHANGED <<xterm, spike, wait_status, signal_exit, ret>>

SetHandler == xpc = "signal" /\ xpc' = "fork_spike" /\ UNCHANGED <<xterm, tty, spike, wait_status, signal_exit, ret>>

ForkSpike == /\ xpc = "fork_spike"
             /\ \/ xpc' = "close_xterm" /\ UNCHANGED spike
                \/ xpc' = "wait" /\ spike' = "child"
             /\ UNCHANGED <<xterm, tty, wait_status, signal_exit, ret>>

Wait == /\ xpc = "wait" /\ spike = "gone"
        /\ ret' = IF wait_status \in Statuses \cup {Failed1} THEN wait_status ELSE Failed1
        /\ xpc' = "close_xterm"
        /\ UNCHANGED <<xterm, tty, spike, wait_status, signal_exit>>

\* Mutant: after an interrupted wait spike is not ended.
MutInterrupted == /\ xpc = "interrupted" /\ signal_exit
                  /\ xpc' = "close_xterm"
                  /\ ret' = Failed1 /\ UNCHANGED <<spike, xterm, tty, wait_status, signal_exit>>

\* waitpid returned -1: kill(spike, SIGTERM).
Interrupted == /\ xpc = "interrupted" /\ signal_exit
               /\ spike' = IF spike = "gone" THEN "gone" ELSE "signalled"
               /\ xpc' = "close_xterm"
               /\ ret' = Failed1 /\ UNCHANGED <<xterm, tty, wait_status, signal_exit>>

Terminated == IF xterm = "gone" THEN "gone" ELSE "signalled"

CloseXterm == /\ xpc = "close_xterm" /\ xterm' = Terminated /\ xpc' = "ended"
              /\ UNCHANGED <<tty, spike, wait_status, signal_exit, ret>>

----------------------------------------------------------------------------
(* The children and the user.                                              *)

\* A child that cannot become an xterm returns from main; no one writes to the pipe then.
XtermChild == /\ xterm = "child" /\ xterm' \in {"running", "gone"}
              /\ UNCHANGED <<xpc, tty, spike, wait_status, signal_exit, ret>>
XtermSays == /\ xterm = "running" /\ tty = "none" /\ tty' \in {"good", "bad"}
             /\ UNCHANGED <<xpc, xterm, spike, wait_status, signal_exit, ret>>
XtermEnds == /\ xterm \in {"running", "signalled"} /\ xterm' = "gone"
             /\ UNCHANGED <<xpc, tty, spike, wait_status, signal_exit, ret>>

\* A child that cannot become spike returns -1 into main, which closes the xterm.
SpikeChild == /\ spike = "child"
              /\ \/ spike' = "running" /\ UNCHANGED <<xterm, wait_status>>
                 \/ spike' = "gone" /\ wait_status' = Failed1 /\ xterm' = Terminated
              /\ UNCHANGED <<xpc, tty, signal_exit, ret>>
SpikeEnds == /\ spike \in {"running", "signalled"} /\ spike' = "gone"
             /\ wait_status' \in Statuses \cup {BySignal}
             /\ UNCHANGED <<xpc, xterm, tty, signal_exit, ret>>

\* SIGINT: before there is a handler it ends xspike; afterwards it sets the flag, and
\* waitpid starts again or fails.
Sigint == /\ xpc \notin {"ended", "died"}
          /\ IF xpc \in {"fork_xterm", "read", "signal"}
             THEN xpc' = "died" /\ UNCHANGED signal_exit
             ELSE /\ signal_exit' = TRUE
                  /\ \/ UNCHANGED xpc
                     \/ xpc = "wait" /\ spike # "gone" /\ xpc' = "interrupted"
          /\ UNCHANGED <<xterm, tty, spike, wait_status, ret>>

XNext == \/ ForkXterm \/ ReadTty \/ SetHandler \/ ForkSpike \/ Wait \/ Interrupted \/ CloseXterm
         \/ XtermChild \/ XtermSays \/ XtermEnds \/ SpikeChild \/ SpikeEnds \/ Sigint

XSpec == XInit /\ [][XNext]_xvars

----------------------------------------------------------------------------
\* xspike leaves nothing behind: once it has ended and had opened an xterm, that and spike
\* have gone or were told to go; the console is not closed while spike runs on; and what
\* xspike returns is what spike returned, if it waited for it.
XspikeCloses ==
    /\ xpc = "ended" /\ tty = "good" => xterm \in {"signalled", "gone"} /\ spike \in {"none", "signalled", "gone"}
    /\ xterm = "signalled" => spike \in {"none", "signalled", "gone"}
    /\ xpc = "ended" /\ spike = "gone" /\ wait_status \in Statuses /\ ~ signal_exit => ret = wait_status
=============================================================================
