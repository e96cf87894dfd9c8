------------------------------ MODULE MemPort ------------------------------
(***************************************************************************)
(* The host's window on target memory (memif_t over a transport's          *)
(* read_chunk and write_chunk), as its users may rely on it: writes are    *)
(* posted and land in order, a read returns only once every earlier write  *)
(* has landed.  tsi_t implements it (module Tsi); a transport whose        *)
(* write_chunk is synchronous is the case where writes land at once.       *)
(***************************************************************************)
EXTENDS Naturals, Sequences

CONSTANTS Addr, Val

VARIABLES mem,        \* target memory
          posted      \* the host's writes that have not landed yet

Write(a, v) == [addr |-> a, val |-> v]

\* The host posts a sequence of writes.
Post(ws) == posted' = posted \o ws

\* The oldest posted write lands.
Land == /\ posted # <<>>
        /\ mem' = [mem EXCEPT ![Head(posted).addr] = Head(posted).val]
        /\ posted' = Tail(posted)

\* What address a of memory m holds once the writes ws have landed.
To(a, ws) == {i \in 1 .. Len(ws) : ws[i].addr = a}
After(m, ws, a) == IF To(a, ws) = {} THEN m[a]
                   ELSE ws[CHOOSE i \in To(a, ws) : \A j \in To(a, ws) : j <= i].val
Coming(a) == After(mem, posted, a)

\* A read of the host can return.
ReadReady == posted = <<>>

\* The target stores to its own memory, at any time.
Store(a, v) == /\ mem' = [mem EXCEPT ![a] = v]
               /\ UNCHANGED posted

Init == posted = <<>>

\* Some writes are posted, behind those already there.
PostSome == /\ Len(posted') > Len(posted)
            /\ SubSeq(posted', 1, Len(posted)) = posted
            /\ \A i \in Len(posted) + 1 .. Len(posted') :
                 posted'[i] \in [addr : Addr, val : Val]
            /\ UNCHANGED mem

Next == \/ PostSome
        \/ Land
        \/ \E a \in Addr, v \in Val : Store(a, v)

Spec == Init /\ [][Next]_<<mem, posted>>
=============================================================================
