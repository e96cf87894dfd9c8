-------------------------------- MODULE Htif --------------------------------
(***************************************************************************)
(* The host side of HTIF (htif.cc, with device.cc, syscall.cc and term.cc) *)
(* and a program on the target that uses it.  One action of the host is    *)
(* one read of target memory, with what the host does up to the next.      *)
(* The target program is external: it issues a command when tohost is      *)
(* zero, keeps one call at a time in its argument buffer (magicmem), and   *)
(* takes replies from fromhost, as riscv-pk does.                          *)
(***************************************************************************)
EXTENDS Commands

CONSTANTS HasTohost,      \* the program has the tohost and fromhost symbols
          WithSignature,  \* --signature was given
          MaxChars,       \* bound: how many characters are typed
          Garbage         \* what memory holds before the program is loaded

VARIABLES hpc,        \* where the host is in run()
          mem,        \* the words of target memory that the two share
          posted,     \* writes of the host that have not landed (MemPort)
          cmd,        \* the command being handled, or the last one
          pending,    \* bcd's pending_reads
          replies,    \* fromhost_queue
          exitcode,   \* exitcode # 0
          signals,    \* 0, 1 (signal_exit), or 2: exit(-1) in the handler
          input,      \* characters typed and not yet read
          typed,      \* how many characters were typed
          next,       \* the id of the target's next command
          waiting,    \* the command that owns the target's argument buffer
          got         \* what the target received: a history

host == <<hpc, cmd, pending, replies, exitcode>>
target == <<next, waiting, got>>
terminal == <<input, typed>>
vars == <<host, mem, posted, signals, terminal, target>>

Chars == 0 .. MaxChars               \* 0: the reply carries no character
Reply == [cmd : Command, val : Chars]
Buffer == [id : Id, stage : {"args", "result"}, val : Chars]
Addr == {"text", "tohost", "fromhost", "magic", "msip"}
ValAt(a) == {Garbage} \cup CASE a \in {"text", "msip"} -> {"loaded"}
                             [] a = "tohost" -> Command \cup {Zero}
                             [] a = "fromhost" -> Reply \cup {Zero}
                             [] a = "magic" -> Buffer
Val == UNION {ValAt(a) : a \in Addr}

\* Memory that nobody has written is told apart from what is written there.
ASSUME HtifAssumption == /\ HasTohost \in BOOLEAN
                         /\ WithSignature \in BOOLEAN
                         /\ MaxChars \in Nat
                         /\ Zero \notin Reply
                         /\ Garbage \notin Command \cup Reply \cup Buffer \cup {Zero, "loaded"}

Port == INSTANCE MemPort

NoCmd == [kind |-> "null", id |-> 0]
Args(c) == [id |-> c.id, stage |-> "args", val |-> 0]
Result(c, v) == [id |-> c.id, stage |-> "result", val |-> v]

Init == /\ hpc = "start"
        /\ mem = [a \in Addr |-> Garbage]
        /\ posted = <<>>
        /\ cmd = NoCmd
        /\ pending = <<>>
        /\ replies = <<>>
        /\ exitcode = FALSE
        /\ signals = 0
        /\ input = <<>>
        /\ typed = 0
        /\ next = 1
        /\ waiting = Zero
        /\ got = <<>>

\* After exit(-1) nothing moves.
Alive == signals < 2
\* The core executes the program.
Running == Alive /\ mem["msip"] = "loaded"

Host(from, to) == hpc = from /\ hpc' = to

----------------------------------------------------------------------------
(* run().                                                                  *)

\* Mutant: the core is let run before the program is loaded.
MutStart == /\ Host("start", IF HasTohost THEN "test" ELSE "spin")
            /\ Port!Post(<<Port!Write("msip", "loaded"), Port!Write("text", "loaded"),
                           Port!Write("tohost", Zero), Port!Write("fromhost", Zero)>>)
            /\ UNCHANGED <<mem, cmd, pending, replies, exitcode, signals, terminal, target>>

\* start(): the program is loaded, then reset() lets the core run.  A program
\* without the two symbols is never listened to: while (true) idle().
Start == /\ Host("start", IF HasTohost THEN "test" ELSE "spin")
         /\ Port!Post(<<Port!Write("text", "loaded"), Port!Write("tohost", Zero),
                        Port!Write("fromhost", Zero), Port!Write("msip", "loaded")>>)
         /\ UNCHANGED <<mem, cmd, pending, replies, exitcode, signals, terminal, target>>

\* Mutant: the loop condition forgets exitcode.
MutTestSignal == /\ Host("test", IF signals > 0 THEN "stop" ELSE "poll")
                 /\ UNCHANGED <<mem, posted, cmd, pending, replies, exitcode, signals, terminal, target>>

Test == /\ Host("test", IF signals > 0 \/ exitcode THEN "stop" ELSE "poll")
        /\ UNCHANGED <<mem, posted, cmd, pending, replies, exitcode, signals, terminal, target>>

\* Mutant: the host waits for a command.
MutPollWaits == /\ Host("poll", "clear")
                /\ Port!ReadReady
                /\ mem["tohost"] # Zero
                /\ cmd' = mem["tohost"]
                /\ UNCHANGED <<mem, posted, pending, replies, exitcode, signals, terminal, target>>

\* mem.read_uint64(tohost_addr); idle() does nothing.
Poll == /\ Host("poll", IF mem["tohost"] = Zero THEN "tick" ELSE "clear")
        /\ Port!ReadReady
        /\ cmd' = IF mem["tohost"] = Zero THEN cmd ELSE mem["tohost"]
        /\ UNCHANGED <<mem, posted, pending, replies, exitcode, signals, terminal, target>>

\* Mutant: tohost is not cleared.
MutClear == /\ Host("clear", "handle")
            /\ UNCHANGED <<mem, posted, cmd, pending, replies, exitcode, signals, terminal, target>>

Clear == /\ Host("clear", "handle")
         /\ Port!Post(<<Port!Write("tohost", Zero)>>)
         /\ UNCHANGED <<mem, cmd, pending, replies, exitcode, signals, terminal, target>>

\* cmd.respond(): the reply is queued, to be sent when fromhost is free.
Respond(v) == replies' = Append(replies, [cmd |-> cmd, val |-> v])

\* device_list.handle_command(cmd), for the commands that end here.
HandleExit == /\ Host("handle", "tick")
              /\ cmd.kind = "exit"
              /\ exitcode' = TRUE
              /\ UNCHANGED <<mem, posted, cmd, pending, replies, signals, terminal, target>>

HandleSilent == /\ Host("handle", "tick")
                /\ cmd.kind \in {"putc", "null"}
                /\ UNCHANGED <<mem, posted, cmd, pending, replies, exitcode, signals, terminal, target>>

\* Mutant: pending_reads is a stack.
MutGetcStack == /\ Host("handle", "tick")
                /\ cmd.kind = "getc"
                /\ pending' = <<cmd>> \o pending
                /\ UNCHANGED <<mem, posted, cmd, replies, exitcode, signals, terminal, target>>

HandleGetc == /\ Host("handle", "tick")
              /\ cmd.kind = "getc"
              /\ pending' = Append(pending, cmd)
              /\ UNCHANGED <<mem, posted, cmd, replies, exitcode, signals, terminal, target>>

HandleIdentify == /\ Host("handle", "tick")
                  /\ cmd.kind = "identify"
                  /\ Port!Post(<<Port!Write("magic", Result(cmd, 0))>>)
                  /\ Respond(0)
                  /\ UNCHANGED <<mem, cmd, pending, exitcode, signals, terminal, target>>

\* dispatch() reads the arguments (the call in `magic' is always cmd's: see
\* ArgumentsKept) ...
Fetch == /\ Host("handle", "call")
         /\ cmd.kind \in Proxied
         /\ Port!ReadReady
         /\ UNCHANGED <<mem, posted, cmd, pending, replies, exitcode, signals, terminal, target>>

\* ... performs the call, writes the result, and the handler responds.
Return(v) == /\ Host("call", "tick")
             /\ Port!Post(<<Port!Write("magic", Result(cmd, v))>>)
             /\ Respond(v)

Call == /\ cmd.kind \in {"call", "sysexit"}
        /\ Return(0)
        /\ exitcode' = (exitcode \/ cmd.kind = "sysexit")
        /\ UNCHANGED <<mem, cmd, pending, signals, terminal, target>>

\* read() of the terminal blocks the host until something is typed.
CallRead == /\ cmd.kind = "sysread"
            /\ input # <<>>
            /\ Return(Head(input))
            /\ input' = Tail(input)
            /\ UNCHANGED <<mem, cmd, pending, exitcode, signals, typed, target>>

\* device_list.tick(): bcd answers one read, if it can without blocking.
CanGetc == pending # <<>> /\ input # <<>>

TickGetc == /\ Host("tick", "flush")
            /\ CanGetc
            /\ replies' = Append(replies, [cmd |-> Head(pending), val |-> Head(input)])
            /\ pending' = Tail(pending)
            /\ input' = Tail(input)
            /\ UNCHANGED <<mem, posted, cmd, exitcode, signals, typed, target>>

TickIdle == /\ Host("tick", "flush")
            /\ ~ CanGetc
            /\ UNCHANGED <<mem, posted, cmd, pending, replies, exitcode, signals, terminal, target>>

\* if (!fromhost_queue.empty() && !mem.read_uint64(fromhost_addr))
FlushNone == /\ Host("flush", "test")
             /\ replies = <<>>
             /\ UNCHANGED <<mem, posted, cmd, pending, replies, exitcode, signals, terminal, target>>

\* Mutant: the reply is dropped.
MutFlushDrop == /\ Host("flush", IF mem["fromhost"] = Zero THEN "send" ELSE "test")
                /\ replies # <<>>
                /\ Port!ReadReady
                /\ replies' = IF mem["fromhost"] = Zero THEN replies ELSE Tail(replies)
                /\ UNCHANGED <<mem, posted, cmd, pending, exitcode, signals, terminal, target>>

FlushRead == /\ Host("flush", IF mem["fromhost"] = Zero THEN "send" ELSE "test")
             /\ replies # <<>>
             /\ Port!ReadReady
             /\ UNCHANGED <<mem, posted, cmd, pending, replies, exitcode, signals, terminal, target>>

Send == /\ Host("send", "test")
        /\ Port!Post(<<Port!Write("fromhost", Head(replies))>>)
        /\ replies' = Tail(replies)
        /\ UNCHANGED <<mem, cmd, pending, exitcode, signals, terminal, target>>

\* stop() reads the signature from memory, if asked to.
Stop == /\ Host("stop", "stopped")
        /\ WithSignature => Port!ReadReady
        /\ UNCHANGED <<mem, posted, cmd, pending, replies, exitcode, signals, terminal, target>>

HostStep == \/ Start \/ Test \/ Poll \/ Clear
            \/ HandleExit \/ HandleSilent \/ HandleGetc \/ HandleIdentify
            \/ Fetch \/ Call \/ CallRead
            \/ TickGetc \/ TickIdle \/ FlushNone \/ FlushRead \/ Send \/ Stop

----------------------------------------------------------------------------
(* The environment.                                                        *)

Land == /\ Alive
        /\ Port!Land
        /\ UNCHANGED <<host, signals, terminal, target>>

Type == /\ Alive
        /\ typed < MaxChars
        /\ typed' = typed + 1
        /\ input' = Append(input, typed + 1)
        /\ UNCHANGED <<host, mem, posted, signals, target>>

\* handle_signal(): the first asks run() to end, the second ends the process.
Signal == /\ Alive /\ hpc # "stopped"
          /\ signals' = signals + 1
          /\ UNCHANGED <<host, mem, posted, terminal, target>>

\* The program writes a command, its arguments first.
Issue(k) == LET c == [kind |-> k, id |-> next] IN
            /\ Running
            /\ next <= MaxCmds
            /\ mem["tohost"] = Zero
            /\ k \in InMemory => waiting = Zero
            /\ mem' = [mem EXCEPT !["tohost"] = c,
                                  !["magic"] = IF k \in Proxied THEN Args(c) ELSE @]
            /\ next' = next + 1
            /\ waiting' = IF k \in InMemory THEN c ELSE waiting
            /\ UNCHANGED <<host, posted, signals, terminal, got>>

\* The program takes a reply, and reads the result of a call from its buffer.
Take == LET r == mem["fromhost"] IN
        /\ Running
        /\ r # Zero
        /\ mem' = [mem EXCEPT !["fromhost"] = Zero]
        /\ got' = Append(got, IF r.cmd.kind \in InMemory
                              THEN [cmd |-> r.cmd, val |-> mem["magic"].val] ELSE r)
        /\ waiting' = IF waiting = r.cmd THEN Zero ELSE waiting
        /\ UNCHANGED <<host, posted, signals, terminal, next>>

Next == \/ Alive /\ HostStep
        \/ Land
        \/ Type
        \/ Signal
        \/ \E k \in Kinds : Issue(k)
        \/ Take

Spec == Init /\ [][Next]_vars

\* The host thread and the memory port run, and the program waits for its
\* replies.  Nobody has to type, to signal or to issue another command.
LiveSpec == Spec /\ WF_vars(Alive /\ HostStep) /\ WF_vars(Land) /\ WF_vars(Take)

----------------------------------------------------------------------------
\* The core executes only a program that is loaded, with empty mailboxes: the
\* write of reset() lands after those of load_program().
BootOrder == Running => /\ mem["text"] = "loaded"
                        /\ mem["tohost"] # Garbage /\ mem["fromhost"] # Garbage

\* When a reply reaches fromhost, the host has let go of the command: its clearing
\* of tohost has landed (a program that reuses tohost after the reply loses
\* nothing), and the result of a call is in the program's buffer.
Held == mem["fromhost"]
ReplyMeansDone ==
  Running /\ Held # Zero =>
    /\ mem["tohost"] # Held.cmd
    /\ Held.cmd.kind \in InMemory => mem["magic"] = Result(Held.cmd, Held.val)

\* The call that dispatch() reads from the buffer is the command's own, though
\* the program runs and older results land between the command and the read.
ArgumentsKept ==
  hpc = "handle" /\ cmd.kind \in Proxied /\ Port!ReadReady => mem["magic"] = Args(cmd)

\* What goes through memory besides the mailboxes, the arguments and the result of a call,
\* belongs to the command at hand on both sides: no write of an earlier or a later command,
\* which are posted and taken by two parties, gets between.
CallDataKept == ReplyMeansDone /\ ArgumentsKept

\* Typed characters reach the program once each and in order, whether bcd or
\* the system call read them: none is lost in, or between, the queues.
Mailed == LET r == Port!Coming("fromhost") IN IF r \in {Zero, Garbage} THEN <<>> ELSE <<r>>
InFlight == got \o Mailed \o replies
Carries(i) == InFlight[i].val # 0
Consumed == typed - Len(input)

CharsOnce ==
  /\ input = [i \in 1 .. Len(input) |-> Consumed + i]
  /\ {InFlight[i].val : i \in {j \in 1 .. Len(InFlight) : Carries(j)}} = 1 .. Consumed
  /\ \A i, j \in 1 .. Len(InFlight) :
       i < j /\ Carries(i) /\ Carries(j) => InFlight[i].val < InFlight[j].val

----------------------------------------------------------------------------
\* Htif implements HostService: a command is accepted when the host posts the
\* clearing of tohost, and answered when it posts the reply.
Handling == hpc \in {"handle", "call"}

Request == IF Port!Coming("tohost") = Garbage THEN Zero ELSE Port!Coming("tohost")
Due == (IF Handling /\ cmd.kind \in Answered THEN {cmd} ELSE {})
         \cup {pending[i] : i \in 1 .. Len(pending)}
         \cup {replies[i].cmd : i \in 1 .. Len(replies)}
TheReply == IF Mailed = <<>> THEN Zero ELSE Mailed[1].cmd
Taken == {got[i].cmd : i \in 1 .. Len(got)}
Over == \/ exitcode
        \/ hpc \in {"stop", "stopped"} \/ ~ Alive
        \/ Handling /\ cmd.kind \in Exits

Service == INSTANCE HostService WITH
  request <- Request, due <- Due, reply <- TheReply, taken <- Taken, over <- Over

ImplementsService == Service!Spec

----------------------------------------------------------------------------
Ended == hpc = "stopped" \/ ~ Alive
OwedTo(i) == \/ next > i /\ Request # Zero /\ Request.id = i /\ Request.kind \in Answered
             \/ \E c \in Due : c.id = i

\* A read() of the terminal blocks the host until something is typed.
Blocked == hpc = "call" /\ cmd.kind = "sysread" /\ input = <<>>
Unread(i) == input = <<>> /\ \E j \in 1 .. Len(pending) : pending[j].id = i

\* A command that is owed a reply gets it, or the run ends; only a getc waits for
\* ever when nothing is typed, and everyone when the host is blocked in a read().
EveryCallAnswered ==
  \A i \in Id : []<>(~ OwedTo(i)) \/ <>Ended \/ <>[](Blocked \/ Unread(i))

\* An exit of the program, or SIGINT, ends run(), however many replies are still queued,
\* unless the host is blocked for ever (signal() restarts the interrupted read()).
ExitIssued == mem["tohost"] \in Command /\ mem["tohost"].kind \in Exits
RunEnds == <>(ExitIssued \/ signals > 0) => <>Ended \/ <>[]Blocked
=============================================================================
