-------------------------------- MODULE Rfb --------------------------------
(***************************************************************************)
(* rfb_t (fesvr/rfb.cc): a frame buffer in target memory, shown to one     *)
(* client at a time.  The host thread configures the device and, at every  *)
(* tick, copies one chunk of the target's frame; a second thread listens,  *)
(* greets the client, and reads what it says.  They share the descriptors, *)
(* memif and the buffers, under one lock that tick() only tries to take.   *)
(***************************************************************************)
EXTENDS Naturals, Sequences

CONSTANTS Sizes,        \* frames to configure, as a number of chunks of FB_ALIGN bytes
          Addresses     \* where the target puts its frame

ASSUME RfbAssumption == Sizes \subseteq Nat \ {0}

VARIABLES hpc,          \* the host thread: "loop", "swapped", "locked", "joining", "gone"
          size,         \* fb_bytes(), in chunks; 0 before the configuration
          fb1, fb2,     \* the finished frame and the one being copied: sequences of chunks
          read_pos, addr,
          memif,        \* memif # NULL
          tpc,          \* the device's thread
          lock,         \* "free", or who holds it: "host" or "thread"
          afd,          \* the descriptor of the connection is open
          conn,         \* the client at the other end: "none", "up", "hungup"
          input,        \* what the client has said and nobody has read
          sent,         \* what this client was sent: the greeting and the last update
          status,       \* "up", "aborted" by an exception nobody catches, "killed" by SIGPIPE
          pass          \* how often the frame was copied, modulo 3; no variable of the code

hostvars == <<hpc, size, fb1, fb2, read_pos, addr, memif, pass>>
wirevars == <<afd, conn, input, sent>>
rvars == <<hostvars, wirevars, tpc, lock, status>>

\* A chunk of a buffer: where in the frame it belongs and in which pass it was read.
Chunk(i) == [pos |-> i, pass |-> pass]
Unread == [pos |-> 0, pass |-> 3]

RInit == /\ hpc = "loop" /\ tpc = "none" /\ lock = "free" /\ status = "up"
         /\ size = 0 /\ fb1 = <<>> /\ fb2 = <<>> /\ read_pos = 0 /\ memif = FALSE
         /\ addr \in Addresses
         /\ afd = FALSE /\ conn = "none" /\ input = <<>> /\ sent = <<>>
         /\ pass = 0

----------------------------------------------------------------------------
(* write() and read() on the connection.  A write to a client that has hung *)
(* up is lost, or fails, or raises SIGPIPE, which nobody handles.           *)

Record(msg) == IF Len(sent) < 4 THEN Append(sent, msg) ELSE [sent EXCEPT ![4] = msg]

WriteOk(msg) == /\ afd
                /\ sent' = IF conn = "up" THEN Record(msg) ELSE sent
WriteFails == ~ afd \/ conn = "hungup"
WriteKills == afd /\ conn = "hungup"

\* What the next read() returns: a packet, or nothing at all once the client is gone.
Readable == input # <<>> \/ conn = "hungup"
Packet == IF input # <<>> THEN Head(input) ELSE "eof"
Consume == input' = IF input # <<>> THEN Tail(input) ELSE input
ReadFails == Packet = "oversized" \/ Packet = "eof"     \* or the connection was reset

Throws == status' = "aborted" /\ UNCHANGED <<hostvars, wirevars, tpc, lock>>
Killed == status' = "killed" /\ UNCHANGED <<hostvars, wirevars, tpc, lock>>

----------------------------------------------------------------------------
(* The host thread.                                                        *)

\* handle_configure: the frame is set before it is found wanting, but what is thrown ends the run.
handle_configure(n, good) ==
    /\ status = "up" /\ hpc = "loop"
    /\ IF fb1 # <<>> \/ ~ good
       THEN Throws
       ELSE /\ size' = n
            /\ fb1' = [i \in 1..n |-> Unread] /\ fb2' = [i \in 1..n |-> Unread]
            /\ tpc' = "start"                       \* pthread_create
            /\ UNCHANGED <<hpc, read_pos, addr, memif, pass, wirevars, lock, status>>

handle_set_address(a, aligned) ==
    /\ status = "up" /\ hpc = "loop"
    /\ IF ~ aligned THEN Throws
       ELSE /\ addr' = a /\ memif' = TRUE
            /\ UNCHANGED <<hpc, size, fb1, fb2, read_pos, pass, wirevars, tpc, lock, status>>

\* tick(): one chunk; after the last one the buffers change places.
tick == /\ status = "up" /\ hpc = "loop" /\ size # 0 /\ memif
        /\ read_pos' = (read_pos + 1) % size
        /\ LET filled == [fb2 EXCEPT ![read_pos + 1] = Chunk(read_pos + 1)]
           IN IF read_pos' = 0
              THEN fb1' = filled /\ fb2' = fb1 /\ pass' = (pass + 1) % 3 /\ hpc' = "swapped"
              ELSE fb2' = filled /\ UNCHANGED <<fb1, pass, hpc>>
        /\ UNCHANGED <<size, addr, memif, wirevars, tpc, lock, status>>

\* ... and the frame is sent if the lock is free, and otherwise never.
MutTryLock == /\ status = "up" /\ hpc = "swapped"
              /\ lock' = "host" /\ hpc' = "locked"
              /\ UNCHANGED <<size, fb1, fb2, read_pos, addr, memif, pass, wirevars, tpc, status>>

TryLock == /\ status = "up" /\ hpc = "swapped"
           /\ IF lock = "free" THEN lock' = "host" /\ hpc' = "locked"
                               ELSE hpc' = "loop" /\ UNCHANGED lock
           /\ UNCHANGED <<size, fb1, fb2, read_pos, addr, memif, pass, wirevars, tpc, status>>

\* fb_update(): whether the write succeeds is not asked.
fb_update == /\ status = "up" /\ hpc = "locked"
             /\ \/ /\ \/ WriteOk([kind |-> "update", frame |-> fb1])
                      \/ WriteFails /\ UNCHANGED sent
                   /\ hpc' = "loop" /\ lock' = "free"
                   /\ UNCHANGED <<size, fb1, fb2, read_pos, addr, memif, pass, afd, conn, input, tpc, status>>
                \/ WriteKills /\ Killed

\* ~rfb_t: the thread is told to stop, and joined if there is one.
Destroy == /\ status = "up" /\ hpc = "loop"
           /\ memif' = FALSE
           /\ hpc' = IF tpc = "none" THEN "gone" ELSE "joining"
           /\ UNCHANGED <<size, fb1, fb2, read_pos, addr, pass, wirevars, tpc, lock, status>>

----------------------------------------------------------------------------
(* The device's thread: thread_main().                                     *)

Thread(from, to) == status = "up" /\ tpc = from /\ tpc' = to

Lock == /\ Thread("start", "listen")
        /\ lock = "free" /\ lock' = "thread"
        /\ UNCHANGED <<hostvars, wirevars, status>>

\* socket, bind and listen: the port may be taken.
Listen == \/ /\ Thread("listen", "accept")
             /\ UNCHANGED <<hostvars, wirevars, lock, status>>
          \/ status = "up" /\ tpc = "listen" /\ Throws

\* A client connects; the lock is held all the while.
Accept == /\ Thread("accept", "version")
          /\ afd' = TRUE /\ conn' = "up" /\ input' = <<>> /\ sent' = <<>>
          /\ UNCHANGED <<hostvars, lock, status>>

\* A step of the greeting that writes: any failure is fatal.
Greet(from, to, kind) ==
    \/ /\ Thread(from, to) /\ WriteOk([kind |-> kind])
       /\ UNCHANGED <<hostvars, afd, conn, input, lock, status>>
    \/ status = "up" /\ tpc = from /\ WriteFails /\ Throws
    \/ status = "up" /\ tpc = from /\ WriteKills /\ Killed

\* read() != version; an early end of the connection is a bad version too.
CheckVersion == \/ /\ Thread("check", "auth") /\ Readable /\ Packet = "version" /\ Consume
                   /\ UNCHANGED <<hostvars, afd, conn, sent, lock, status>>
                \/ status = "up" /\ tpc = "check" /\ Readable /\ Packet # "version" /\ Throws

\* clientinit: whatever it is.
ReadInit == \/ /\ Thread("clientinit", "serverinit") /\ Readable /\ Packet # "oversized" /\ Consume
               /\ UNCHANGED <<hostvars, afd, conn, sent, lock, status>>
            \/ status = "up" /\ tpc = "clientinit" /\ Readable /\ ReadFails /\ Throws

MutUnlock == /\ Thread("greeted", "wait")
             /\ UNCHANGED <<hostvars, wirevars, lock, status>>

Unlock == /\ Thread("greeted", "wait")
          /\ lock' = "free"
          /\ UNCHANGED <<hostvars, wirevars, status>>

\* while (memif == NULL) sched_yield(); while (memif != NULL) ...
AwaitMemif == /\ Thread("wait", "loop") /\ memif
              /\ UNCHANGED <<hostvars, wirevars, lock, status>>
TestMemif == /\ Thread("loop", IF memif THEN "serve" ELSE "close")
             /\ UNCHANGED <<hostvars, wirevars, lock, status>>

\* One message of the client: too short ones end the session, unknown ones are ignored.
Serve == /\ status = "up" /\ tpc = "serve" /\ Readable
         /\ \/ /\ Packet # "oversized" /\ Consume
               /\ Packet # "badformat"
               /\ tpc' = CASE Packet \in {"short", "eof"} -> "close"
                           [] Packet = "encodings" -> "encodings"
                           [] OTHER -> "loop"
               /\ UNCHANGED <<hostvars, afd, conn, sent, lock, status>>
            \/ (ReadFails \/ Packet = "badformat") /\ Throws

\* set_encodings: reads until the list is complete.  A read that returns nothing adds nothing.
set_encodings == /\ status = "up" /\ tpc = "encodings" /\ Readable
                 /\ \/ /\ Packet # "oversized" /\ Consume
                       /\ tpc' = IF Packet \in {"eof", "short"} THEN "encodings" ELSE "loop"
                       /\ UNCHANGED <<hostvars, afd, conn, sent, lock, status>>
                    \/ ReadFails /\ Throws

LockToClose == /\ Thread("close", "closing")
               /\ lock = "free" /\ lock' = "thread"
               /\ UNCHANGED <<hostvars, wirevars, status>>

\* The descriptors are closed, the lock is dropped, and thread_main() calls itself.
Close == /\ Thread("closing", "start")
         /\ afd' = FALSE /\ conn' = "none" /\ input' = <<>> /\ sent' = <<>>
         /\ lock' = "free"
         /\ UNCHANGED <<hostvars, status>>

thread_main == \/ Lock \/ Listen
               \/ Greet("version", "check", "version") \/ CheckVersion
               \/ Greet("auth", "clientinit", "auth") \/ ReadInit
               \/ Greet("serverinit", "greeted", "serverinit") \/ Unlock
               \/ AwaitMemif \/ TestMemif \/ Serve \/ set_encodings
               \/ LockToClose \/ Close

----------------------------------------------------------------------------
(* The client, who says anything one packet at a time and may hang up.     *)

Packets == {"version", "format", "badformat", "encodings", "request", "short", "oversized"}

Say(p) == /\ status = "up" /\ conn = "up" /\ input = <<>>
          /\ input' = <<p>>
          /\ UNCHANGED <<hostvars, afd, conn, sent, tpc, lock, status>>

HangUp == /\ status = "up" /\ conn = "up"
          /\ conn' = "hungup"
          /\ UNCHANGED <<hostvars, afd, input, sent, tpc, lock, status>>

\* Once the process has ended, or hangs in the join, nothing more happens here.
Ended == (status # "up" \/ hpc \in {"joining", "gone"}) /\ UNCHANGED rvars

Host == tick \/ TryLock \/ fb_update

RNext == \/ \E n \in Sizes, good \in BOOLEAN : handle_configure(n, good)
         \/ \E a \in Addresses, aligned \in BOOLEAN : handle_set_address(a, aligned)
         \/ Destroy \/ Host
         \/ thread_main \/ Accept
         \/ \E p \in Packets : Say(p)
         \/ HangUp \/ Ended

RSpec == RInit /\ [][RNext]_rvars

----------------------------------------------------------------------------
\* What a client is sent is the greeting in its order and then updates, each of them a
\* frame whose chunks stand in their places and were all read in one and the same pass:
\* tick() writes to the connection only when the thread is not greeting, and it never
\* sends the buffer it is copying into (thread_main, tick, fb_update).
Greeting == <<"version", "auth", "serverinit">>
StreamInOrder ==
    \A i \in 1..Len(sent) :
        IF i <= 3 THEN sent[i].kind = Greeting[i]
        ELSE /\ sent[i].kind = "update"
             /\ \A j \in 1..size : sent[i].frame[j].pos = j
             /\ \A j, k \in 1..size : sent[i].frame[j].pass = sent[i].frame[k].pass
             /\ sent[i].frame # [j \in 1..size |-> Unread]

\* A client that was greeted and stays is sent a frame, as long as the host goes on: a
\* try of tick() that finds the lock taken is made up for by a later one.
Greeted == status = "up" /\ conn = "up" /\ Len(sent) = 3
FrameArrives == Greeted ~> Len(sent) = 4 \/ conn # "up" \/ status # "up" \/ hpc \notin {"loop", "swapped", "locked"}
                             \/ ~ memif
=============================================================================
