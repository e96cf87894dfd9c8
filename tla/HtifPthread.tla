---------------------------- MODULE HtifPthread ----------------------------
(***************************************************************************)
(* htif_pthread_t (fesvr/htif_pthread.cc): the host and the target as two  *)
(* coroutines joined by two queues of bytes.  Each side gives up control   *)
(* when it wants bytes that are not there yet.                             *)
(***************************************************************************)
EXTENDS Naturals, Sequences

CONSTANTS MaxBytes,     \* bytes sent in each direction, at most
          MaxSize       \* the largest buffer of a call

ASSUME PthreadAssumption == MaxBytes \in Nat /\ MaxSize \in Nat \ {0}

VARIABLES running,      \* which coroutine has control: "host" or "target"
          done,         \* run() of the host has returned
          want,         \* the size that each side waits for in read() or recv(), 0 if none
          th_data, ht_data,     \* bytes on the way to the host, and to the target
          th_sent, ht_sent,     \* bytes that were sent so far, by number
          th_got, ht_got        \* bytes that have arrived, in their order

pvars == <<running, done, want, th_data, ht_data, th_sent, ht_sent, th_got, ht_got>>

Sides == {"host", "target"}

\* The constructor: host.init starts thread_main at the first switch to it.
PInit == /\ running = "target" /\ done = FALSE
         /\ want = [s \in Sides |-> 0]
         /\ th_data = <<>> /\ ht_data = <<>> /\ th_sent = 0 /\ ht_sent = 0
         /\ th_got = <<>> /\ ht_got = <<>>

\* The bytes first + 1, ..., first + n.
Bytes(first, n) == [i \in 1..n |-> first + i]
Free(s) == running = s /\ want[s] = 0

----------------------------------------------------------------------------
(* The host's side: read() takes what is there, up to max_size.            *)

write(n) == /\ Free("host") /\ ~ done /\ ht_sent + n <= MaxBytes
            /\ ht_data' = ht_data \o Bytes(ht_sent, n) /\ ht_sent' = ht_sent + n
            /\ UNCHANGED <<running, done, want, th_data, th_sent, th_got, ht_got>>

read(max_size) == /\ Free("host") /\ ~ done
                  /\ want' = [want EXCEPT !["host"] = max_size]
                  /\ UNCHANGED <<running, done, th_data, ht_data, th_sent, ht_sent, th_got, ht_got>>

Lesser(a, b) == IF a < b THEN a ELSE b

MutReadReturns == /\ th_got' = th_got \o SubSeq(th_data, 1, Lesser(want["host"], Len(th_data)))
                  /\ want' = [want EXCEPT !["host"] = 0]
                  /\ UNCHANGED <<running, th_data>>

ReadReturns == LET s == Lesser(want["host"], Len(th_data))
               IN /\ th_got' = th_got \o SubSeq(th_data, 1, s)
                  /\ th_data' = SubSeq(th_data, s + 1, Len(th_data))
                  /\ want' = [want EXCEPT !["host"] = 0]
                  /\ UNCHANGED running

ReadStep == /\ running = "host" /\ want["host"] # 0
            /\ IF th_data = <<>> THEN running' = "target" /\ UNCHANGED <<want, th_data, th_got>>
               ELSE ReadReturns
            /\ UNCHANGED <<done, ht_data, th_sent, ht_sent, ht_got>>

\* thread_main: after run() the host only ever switches back.
thread_main_host == \/ /\ Free("host") /\ ~ done /\ done' = TRUE
                       /\ UNCHANGED <<running, want, th_data, ht_data, th_sent, ht_sent, th_got, ht_got>>
                    \/ /\ Free("host") /\ done /\ running' = "target"
                       /\ UNCHANGED <<done, want, th_data, ht_data, th_sent, ht_sent, th_got, ht_got>>

----------------------------------------------------------------------------
(* The target's side: recv() takes all it asked for or nothing.            *)

send(n) == /\ Free("target") /\ th_sent + n <= MaxBytes
           /\ th_data' = th_data \o Bytes(th_sent, n) /\ th_sent' = th_sent + n
           /\ UNCHANGED <<running, done, want, ht_data, ht_sent, th_got, ht_got>>

\* recv_nonblocking(): lets the host run and gives up, or takes size bytes.
recv_nonblocking(size) ==
    IF Len(ht_data) < size THEN running' = "host" /\ UNCHANGED <<ht_data, ht_got>>
    ELSE /\ ht_got' = ht_got \o SubSeq(ht_data, 1, size)
         /\ ht_data' = SubSeq(ht_data, size + 1, Len(ht_data))
         /\ UNCHANGED running

TryRecv(size) == /\ Free("target")
                 /\ recv_nonblocking(size)
                 /\ UNCHANGED <<done, want, th_data, th_sent, ht_sent, th_got>>

\* recv(): until recv_nonblocking succeeds.
recv(size) == /\ Free("target")
              /\ want' = [want EXCEPT !["target"] = size]
              /\ UNCHANGED <<running, done, th_data, ht_data, th_sent, ht_sent, th_got, ht_got>>

RecvStep == /\ running = "target" /\ want["target"] # 0
            /\ recv_nonblocking(want["target"])
            /\ want' = IF running' = "target" THEN [want EXCEPT !["target"] = 0] ELSE want
            /\ UNCHANGED <<done, th_data, th_sent, ht_sent, th_got>>

PNext == \/ \E n \in 1..MaxSize : write(n) \/ read(n) \/ send(n) \/ TryRecv(n) \/ recv(n)
         \/ ReadStep \/ thread_main_host \/ RecvStep

PSpec == PInit /\ [][PNext]_pvars

----------------------------------------------------------------------------
\* Each side receives the bytes that the other one sent, all of them, once and in order:
\* what has arrived followed by what is on its way is what was sent, whatever sizes the
\* calls ask for and wherever control moves (read, write, send, recv_nonblocking).
BytesInOrder == /\ th_got \o th_data = Bytes(0, th_sent)
                /\ ht_got \o ht_data = Bytes(0, ht_sent)
=============================================================================
