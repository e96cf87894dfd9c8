------------------------------ MODULE Commands ------------------------------
(***************************************************************************)
(* The commands a target program sends to the host through `tohost'        *)
(* (device.h, device.cc, syscall.cc).  A command's device, command number  *)
(* and payload are abstracted to its kind; its id tells commands apart.    *)
(***************************************************************************)
EXTENDS Integers, FiniteSets, Sequences

CONSTANTS Kinds,      \* the kinds of command the program uses
          MaxCmds,    \* bound: how many commands it sends
          Zero        \* the empty mailbox

\* exit:     syscall device, odd payload: the test's pass/fail
\* sysexit:  the proxied exit(code)
\* call:     any other proxied system call
\* sysread:  a proxied read() of the terminal
\* identify: command 255 of any device
\* getc, putc: the read and write commands of the terminal (bcd)
\* null:     an unregistered command, or device
AllKinds == {"exit", "sysexit", "call", "sysread", "identify", "getc", "putc", "null"}

ASSUME CommandsAssumption == /\ Kinds \subseteq AllKinds
                             /\ MaxCmds \in Nat
                             /\ Zero \notin [kind : AllKinds, id : Nat]

Id == 1 .. MaxCmds
Command == [kind : Kinds, id : Id]

\* Handlers that call cmd.respond(); the others never answer.
Answered == {"sysexit", "call", "sysread", "identify", "getc"}
\* Handlers that leave a result in target memory before they answer.
InMemory == {"sysexit", "call", "sysread", "identify"}
\* dispatch() reads the call's arguments from target memory.
Proxied == {"sysexit", "call", "sysread"}
\* Handlers that end the run.
Exits == {"exit", "sysexit"}

\* tohost >> 48: the device and command number, which the response repeats.
Channel(c) == CASE c.kind \in Proxied \cup {"exit"} -> "syscall"
                [] c.kind = "identify" -> "identify"
                [] c.kind = "getc" -> "bcd.read"
                [] OTHER -> "none"
=============================================================================
