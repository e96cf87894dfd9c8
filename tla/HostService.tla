---------------------------- MODULE HostService ----------------------------
(***************************************************************************)
(* What the front-end server promises to the program on the target.  The   *)
(* program puts a command in a mailbox and takes replies from another.     *)
(* Every command is accepted once, in order; a command whose handler       *)
(* answers gets at most one reply; replies on one channel (device, command *)
(* number) come in the order of their commands; a reply stays in the       *)
(* mailbox until the program takes it; nothing is accepted after an exit.  *)
(***************************************************************************)
EXTENDS Commands

VARIABLES request,    \* the command the host has not accepted yet, or Zero
          due,        \* accepted commands whose reply is still to come
          reply,      \* the command whose reply is in the mailbox, or Zero
          taken,      \* commands whose reply the program has taken
          over        \* the host accepts nothing more

svars == <<request, due, reply, taken, over>>

Init == /\ request = Zero
        /\ due = {}
        /\ reply = Zero
        /\ taken = {}
        /\ over = FALSE

\* Ids are given in order, so a new command is later than all the host knows of.
Issue(c) == /\ request = Zero
            /\ \A d \in due \cup taken : d.id < c.id
            /\ reply # Zero => reply.id < c.id
            /\ request' = c
            /\ UNCHANGED <<due, reply, taken, over>>

Accept == /\ request # Zero
          /\ ~ over
          /\ request' = Zero
          /\ due' = IF request.kind \in Answered THEN due \cup {request} ELSE due
          /\ over' = (request.kind \in Exits)
          /\ UNCHANGED <<reply, taken>>

Answer(c) == /\ c \in due
             /\ reply = Zero
             /\ \A d \in due : Channel(d) = Channel(c) => c.id <= d.id
             /\ reply' = c
             /\ due' = due \ {c}
             /\ UNCHANGED <<request, taken, over>>

Take == /\ reply # Zero
        /\ taken' = taken \cup {reply}
        /\ reply' = Zero
        /\ UNCHANGED <<request, due, over>>

Stop == /\ over' = TRUE
        /\ UNCHANGED <<request, due, reply, taken>>

Next == \/ \E c \in Command : Issue(c) \/ Answer(c)
        \/ Accept
        \/ Take
        \/ Stop

Spec == Init /\ [][Next]_svars
=============================================================================
