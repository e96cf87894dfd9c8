----------------------------- MODULE HtifProofs -----------------------------
(***************************************************************************)
(* The host and the program on the target, for every number of commands,   *)
(* of characters and every mix of kinds.  The inductive invariant speaks   *)
(* of memory as it will be once the posted writes have landed              *)
(* (Port!Coming), which the landing of a write leaves alone; OneWriter     *)
(* says why a store of the program and a posted write never meet.          *)
(***************************************************************************)
EXTENDS Htif, TLAPS, SequenceTheorems

tohost == Port!Coming("tohost")
fromhost == Port!Coming("fromhost")
magic == Port!Coming("magic")

Bound(a) == \E i \in 1 .. Len(posted) : posted[i].addr = a

PCs == {"start", "test", "poll", "clear", "handle", "call", "tick", "flush", "send",
        "stop", "stopped", "spin"}

\* What the host writes, and where.
Sending == [addr : {"text", "msip"}, val : {"loaded"}] \cup [addr : {"tohost"}, val : {Zero}]
             \cup [addr : {"fromhost"}, val : Reply \cup {Zero}] \cup [addr : {"magic"}, val : Buffer]

Getc == {c \in Command : c.kind = "getc"}
Owner == {c \in Command : c.kind \in InMemory}
OwedReply == {r \in Reply : r.cmd.kind \in Answered}

Typing ==
  /\ hpc \in PCs
  /\ mem = [a \in Addr |-> mem[a]]
  /\ \A a \in Addr : mem[a] \in ValAt(a)
  /\ posted \in Seq(Sending)
  /\ cmd \in Command \cup {NoCmd}
  /\ pending \in Seq(Getc)
  /\ replies \in Seq(OwedReply)
  /\ got \in Seq(Reply)
  /\ input \in Seq(Chars)
  /\ typed \in 0 .. MaxChars
  /\ next \in Nat \ {0}
  /\ waiting \in Owner \cup {Zero}

\* The writes that are posted go to different addresses; the write that lets the core
\* run is the last one, and a host that waits for its writes has none.
PostedInOrder ==
  /\ \A i, j \in 1 .. Len(posted) : posted[i].addr = posted[j].addr => i = j
  /\ hpc \in {"start", "clear", "call", "send"} => posted = <<>>
  /\ hpc = "handle" => \A i \in 1 .. Len(posted) : posted[i].addr = "tohost"
  /\ \A i \in 1 .. Len(posted) : posted[i].addr = "msip" => i = Len(posted)

\* Before the core runs the host gets no further than its first read.
Booting ==
  IF mem["msip"] = "loaded"
  THEN /\ hpc # "start"
       /\ mem["text"] = "loaded" /\ mem["tohost"] # Garbage /\ mem["fromhost"] # Garbage
       /\ ~ Bound("msip")
       /\ Bound("fromhost") => Len(posted) = 1 /\ fromhost # Zero
  ELSE /\ hpc \in {"start", "test", "poll", "stop", "stopped", "spin"}
       /\ hpc = "start" => mem["tohost"] = Garbage /\ mem["fromhost"] = Garbage
       /\ hpc # "start" => /\ Bound("msip") /\ Port!Coming("text") = "loaded"
                           /\ tohost = Zero /\ fromhost = Zero
       /\ replies = <<>> /\ pending = <<>>
       /\ waiting = Zero /\ got = <<>>

\* A posted write goes to a word that the program leaves alone.
OneWriter ==
  /\ Bound("tohost") => mem["tohost"] # Zero
  /\ Bound("fromhost") /\ mem["msip"] = "loaded" => mem["fromhost"] = Zero
  /\ hpc = "send" => replies # <<>> /\ mem["fromhost"] = Zero
  /\ Bound("magic") => \E i \in 1 .. Len(replies) : replies[i].cmd.kind \in InMemory

\* Every command that is accepted and not answered yet, or whose reply is on its way,
\* is earlier than n.
AllBelow(n) ==
  /\ \A i \in 1 .. Len(pending) : pending[i].id < n
  /\ \A i \in 1 .. Len(replies) : replies[i].cmd.id < n
  /\ fromhost \in Reply => fromhost.cmd.id < n

\* The command in tohost is later than those, and the one at hand between them.
IdsInOrder ==
  /\ AllBelow(next) /\ \A i \in 1 .. Len(got) : got[i].cmd.id < next
  /\ Handling => cmd \in Command /\ cmd.id < next /\ AllBelow(cmd.id)
  /\ tohost \in Command => tohost.id < next /\ AllBelow(tohost.id)
  /\ Handling /\ tohost \in Command => cmd.id < tohost.id
  /\ hpc = "clear" => tohost \in Command /\ cmd = tohost
  /\ hpc = "call" => cmd.kind \in Proxied
  /\ mem["tohost"] \in Command /\ mem["fromhost"] \in Reply =>
       mem["fromhost"].cmd.id < mem["tohost"].id

\* One call at a time owns the buffer.
OneOwner ==
  /\ \A i \in 1 .. Len(replies) : replies[i].cmd.kind \in InMemory => replies[i].cmd = waiting
  /\ fromhost \in Reply /\ fromhost.cmd.kind \in InMemory =>
       /\ fromhost.cmd = waiting
       /\ \A i \in 1 .. Len(replies) : replies[i].cmd.kind \notin InMemory
  /\ Handling /\ cmd.kind \in InMemory => cmd = waiting
  /\ tohost \in Command /\ tohost.kind \in InMemory => tohost = waiting
  /\ \A i, j \in 1 .. Len(replies) :
       replies[i].cmd.kind \in InMemory /\ replies[j].cmd.kind \in InMemory => i = j

\* The buffer holds its arguments until the call is done, then its result.
BufferHeld ==
  /\ \A i \in 1 .. Len(replies) :
       replies[i].cmd.kind \in InMemory => magic = Result(replies[i].cmd, replies[i].val)
  /\ fromhost \in Reply /\ fromhost.cmd.kind \in InMemory => magic = Result(fromhost.cmd, fromhost.val)
  /\ tohost \in Command /\ tohost.kind \in Proxied => magic = Args(tohost)
  /\ Handling /\ cmd.kind \in Proxied => magic = Args(cmd)

IInv == Typing /\ PostedInOrder /\ Booting /\ OneWriter /\ IdsInOrder /\ OneOwner /\ BufferHeld

----------------------------------------------------------------------------
(* The memory port.                                                        *)

OnePerAddress(ws) == \A i, j \in 1 .. Len(ws) : ws[i].addr = ws[j].addr => i = j

\* What an address will hold is the value of the one write to it ...
LEMMA AfterWrite ==
  ASSUME NEW m, NEW ws \in Seq(Sending), OnePerAddress(ws), NEW i \in 1 .. Len(ws)
  PROVE  Port!After(m, ws, ws[i].addr) = ws[i].val
  <1>1. Port!To(ws[i].addr, ws) = {i}
      BY DEF Port!To, OnePerAddress
  <1>2. (CHOOSE k \in {i} : \A j \in {i} : j <= k) = i
      OBVIOUS
  <1> QED BY <1>1, <1>2 DEF Port!After

\* ... or what it holds now.
LEMMA AfterNone ==
  ASSUME NEW m, NEW ws, NEW a, \A i \in 1 .. Len(ws) : ws[i].addr # a
  PROVE  Port!After(m, ws, a) = m[a]
  BY DEF Port!After, Port!To

\* The landing of the oldest write changes nothing of what memory will be.
LEMMA Landing ==
  ASSUME posted \in Seq(Sending), OnePerAddress(posted), mem = [a \in Addr |-> mem[a]], Port!Land
  PROVE  /\ posted' \in Seq(Sending) /\ OnePerAddress(posted')
         /\ Len(posted) \in Nat \ {0} /\ Len(posted') = Len(posted) - 1
         /\ \A i \in 1 .. Len(posted') : posted'[i] = posted[i + 1]
         /\ posted[1] \in Sending /\ posted[1].addr \in Addr
         /\ mem' = [mem EXCEPT ![posted[1].addr] = posted[1].val]
         /\ \A a \in Addr : Port!Coming(a)' = Port!Coming(a)
  <1>1. posted # <<>> /\ posted' = Tail(posted)
        /\ mem' = [mem EXCEPT ![posted[1].addr] = posted[1].val]
    <2>1. Head(posted) = posted[1]
        BY DEF Port!Land
    <2> QED BY <2>1 DEF Port!Land
  <1>2. /\ posted' \in Seq(Sending) /\ Len(posted') = Len(posted) - 1
        /\ \A i \in 1 .. Len(posted') : posted'[i] = posted[i + 1]
        /\ Len(posted) \in Nat \ {0} /\ posted[1] \in Sending
      BY <1>1, HeadTailProperties, EmptySeq
  <1>3. OnePerAddress(posted')
      BY <1>2 DEF OnePerAddress
  <1>4. posted[1].addr \in Addr
      BY <1>2 DEF Sending, Addr
  <1>5. ASSUME NEW a \in Addr PROVE Port!Coming(a)' = Port!Coming(a)
    <2>1. CASE posted[1].addr = a
      <3>1. Port!Coming(a) = posted[1].val
        <4>1. 1 \in 1 .. Len(posted)
            BY <1>2
        <4> QED BY <2>1, <4>1, AfterWrite DEF Port!Coming
      <3>2. \A i \in 1 .. Len(posted') : posted'[i].addr # a
          BY <1>2, <2>1 DEF OnePerAddress
      <3>3. Port!Coming(a)' = mem'[a]
          BY <1>2, <1>3, <3>2, AfterNone DEF Port!Coming
      <3>4. mem'[a] = posted[1].val
          BY <1>1, <2>1
      <3> QED BY <3>1, <3>3, <3>4
    <2>2. CASE posted[1].addr # a
      <3>1. mem'[a] = mem[a]
          BY <1>1, <2>2
      <3>2. CASE \E i \in 1 .. Len(posted) : posted[i].addr = a
        <4>1. PICK i \in 2 .. Len(posted) : posted[i].addr = a
            BY <2>2, <3>2, <1>2
        <4>2. i - 1 \in 1 .. Len(posted') /\ posted'[i - 1] = posted[i] /\ i \in 1 .. Len(posted)
            BY <1>2, <4>1
        <4>3. Port!Coming(a) = posted[i].val
            BY <4>1, <4>2, AfterWrite DEF Port!Coming
        <4>4. Port!Coming(a)' = posted'[i - 1].val
          <5>1. posted'[i - 1].addr = a
              BY <4>1, <4>2
          <5> QED BY <1>2, <1>3, <4>2, <5>1, AfterWrite DEF Port!Coming
        <4> QED BY <4>2, <4>3, <4>4
      <3>3. CASE \A i \in 1 .. Len(posted) : posted[i].addr # a
        <4>1. \A i \in 1 .. Len(posted') : posted'[i].addr # a
            BY <1>2, <3>3
        <4> QED BY <1>2, <1>3, <3>1, <3>3, <4>1, AfterNone DEF Port!Coming
      <3> QED BY <3>2, <3>3
    <2> QED BY <2>1, <2>2
  <1> QED BY <1>1, <1>2, <1>3, <1>4, <1>5

\* A write to an address that has none pending.
LEMMA Posting ==
  ASSUME posted \in Seq(Sending), OnePerAddress(posted),
         NEW w \in Sending, ~ Bound(w.addr), Port!Post(<<w>>), UNCHANGED mem
  PROVE  /\ posted' \in Seq(Sending) /\ OnePerAddress(posted')
         /\ Len(posted) \in Nat /\ Len(posted') = Len(posted) + 1
         /\ \A i \in 1 .. Len(posted) : posted'[i] = posted[i]
         /\ posted'[Len(posted')] = w
         /\ \A a \in Addr : Port!Coming(a)' = IF a = w.addr THEN w.val ELSE Port!Coming(a)
  <1>1. posted' = posted \o <<w>> /\ <<w>> \in Seq(Sending) /\ Len(<<w>>) = 1 /\ <<w>>[1] = w
      BY DEF Port!Post
  <1>2. /\ posted' \in Seq(Sending) /\ Len(posted) \in Nat /\ Len(posted') = Len(posted) + 1
        /\ \A i \in 1 .. Len(posted) : posted'[i] = posted[i]
        /\ posted'[Len(posted')] = w
    <2>1. Len(posted) \in Nat
        BY LenProperties
    <2> QED BY <1>1, <2>1, ConcatProperties
  <1>3. OnePerAddress(posted')
      BY <1>2 DEF OnePerAddress, Bound
  <1>4. ASSUME NEW a \in Addr
        PROVE  Port!Coming(a)' = IF a = w.addr THEN w.val ELSE Port!Coming(a)
    <2>1. CASE a = w.addr
      <3>1. Len(posted') \in 1 .. Len(posted') /\ posted'[Len(posted')].addr = a
          BY <1>2, <2>1
      <3> QED BY <1>2, <1>3, <2>1, <3>1, AfterWrite DEF Port!Coming
    <2>2. CASE a # w.addr /\ Bound(a)
      <3>1. PICK i \in 1 .. Len(posted) : posted[i].addr = a
          BY <2>2 DEF Bound
      <3>2. i \in 1 .. Len(posted') /\ posted'[i].addr = a /\ posted'[i].val = posted[i].val
          BY <1>2, <3>1
      <3>3. Port!Coming(a)' = posted'[i].val
          BY <1>2, <1>3, <3>2, AfterWrite DEF Port!Coming
      <3>4. Port!Coming(a) = posted[i].val
          BY <3>1, AfterWrite DEF Port!Coming
      <3> QED BY <2>2, <3>2, <3>3, <3>4
    <2>3. CASE a # w.addr /\ ~ Bound(a)
      <3>1. \A i \in 1 .. Len(posted') : posted'[i].addr # a
          BY <1>2, <2>3 DEF Bound
      <3> QED BY <1>2, <1>3, <2>3, <3>1, AfterNone DEF Port!Coming, Bound
    <2> QED BY <2>1, <2>2, <2>3
  <1> QED BY <1>2, <1>3, <1>4
\* A store of the program shows where no write is posted.
LEMMA Storing ==
  ASSUME posted \in Seq(Sending), OnePerAddress(posted), UNCHANGED posted, NEW a
  PROVE  /\ Bound(a) => Port!Coming(a)' = Port!Coming(a)
         /\ ~ Bound(a) => Port!Coming(a)' = mem'[a] /\ Port!Coming(a) = mem[a]
  <1>1. /\ Port!Coming(a) = Port!After(mem, posted, a)
        /\ Port!Coming(a)' = Port!After(mem', posted, a)
      BY DEF Port!Coming, Port!After, Port!To
  <1>2. ASSUME Bound(a) PROVE Port!After(mem, posted, a) = Port!After(mem', posted, a)
    <2>1. PICK i \in 1 .. Len(posted) : posted[i].addr = a
        BY <1>2 DEF Bound
    <2>2. /\ Port!After(mem, posted, posted[i].addr) = posted[i].val
          /\ Port!After(mem', posted, posted[i].addr) = posted[i].val
        BY AfterWrite
    <2> QED BY <2>1, <2>2
  <1>3. ASSUME ~ Bound(a)
        PROVE  Port!After(mem, posted, a) = mem[a] /\ Port!After(mem', posted, a) = mem'[a]
      BY <1>3, AfterNone DEF Bound
  <1> QED BY <1>1, <1>2, <1>3

----------------------------------------------------------------------------
\* The marks of an empty mailbox and of unwritten memory are no messages.
LEMMA Distinct == /\ Zero \notin Command /\ Zero \notin Reply
                  /\ Garbage \notin Command /\ Garbage \notin Reply /\ Garbage \notin Buffer
                  /\ Garbage # Zero /\ Garbage # "loaded"
  <1>1. Command \subseteq [kind : AllKinds, id : Nat]
      BY CommandsAssumption DEF Command, Id
  <1> QED BY <1>1, CommandsAssumption, HtifAssumption

\* The inductive invariant holds at first ...
LEMMA InitIInv == Init => IInv
  <1> SUFFICES ASSUME Init PROVE IInv
      OBVIOUS
  <1>1. \A a \in Addr : Port!Coming(a) = Garbage
      BY DEF Init, Port!Coming, Port!After, Port!To
  <1>2. tohost = Garbage /\ fromhost = Garbage /\ Len(posted) = 0
      BY <1>1 DEF tohost, fromhost, Addr, Init
  <1>3. Typing
      BY HtifAssumption DEF Init, Typing, PCs, Addr, ValAt, NoCmd
  <1>4. PostedInOrder /\ OneWriter
      BY <1>2 DEF Init, PostedInOrder, OneWriter, Bound
  <1>5. Booting
      BY <1>2, Distinct DEF Init, Booting, Addr
  <1>6. IdsInOrder /\ OneOwner /\ BufferHeld
      BY <1>2, Distinct DEF Init, IdsInOrder, AllBelow, Handling, OneOwner, BufferHeld, Addr
  <1> QED BY <1>3, <1>4, <1>5, <1>6 DEF IInv

\* Steps of the host that post nothing and leave the queues alone, a character
\* that is typed, and a signal.
Idle == \/ Test \/ Poll \/ HandleExit \/ HandleSilent \/ Fetch \/ TickIdle \/ FlushNone
        \/ FlushRead \/ Stop \/ Type \/ Signal

\* None of them disturbs the invariant.
LEMMA IdleIInv == IInv /\ Idle => IInv' /\ UNCHANGED <<tohost, fromhost>>
  <1> SUFFICES ASSUME IInv, Idle PROVE IInv' /\ UNCHANGED <<tohost, fromhost>>
      OBVIOUS
  <1>1. UNCHANGED <<mem, posted, pending, replies, next, waiting, got>>
      BY DEF Idle, Test, Poll, HandleExit, HandleSilent, Fetch, TickIdle, FlushNone, FlushRead,
             Stop, Type, Signal, Host, host, target, terminal
  <1>2. /\ tohost' = tohost /\ fromhost' = fromhost /\ magic' = magic
        /\ \A a : Port!Coming(a)' = Port!Coming(a) /\ Bound(a)' = Bound(a)
      BY <1>1 DEF tohost, fromhost, magic, Bound, Port!Coming, Port!After, Port!To
  <1>3. /\ posted = <<>> => tohost = mem["tohost"]
        /\ posted = <<>> => \A a : ~ Bound(a)
      BY DEF tohost, Bound, Port!Coming, Port!After, Port!To
  <1>4. \/ hpc' = hpc /\ cmd' = cmd
        \/ hpc = "test" /\ hpc' \in {"stop", "poll"} /\ cmd' = cmd
        \/ hpc = "poll" /\ posted = <<>> /\ mem["tohost"] = Zero /\ hpc' = "tick" /\ cmd' = cmd
        \/ hpc = "poll" /\ posted = <<>> /\ mem["tohost"] # Zero /\ hpc' = "clear" /\ cmd' = mem["tohost"]
        \/ hpc = "handle" /\ hpc' = "tick" /\ cmd' = cmd
        \/ hpc = "handle" /\ posted = <<>> /\ cmd.kind \in Proxied /\ hpc' = "call" /\ cmd' = cmd
        \/ hpc = "tick" /\ hpc' = "flush" /\ cmd' = cmd
        \/ hpc = "flush" /\ hpc' = "test" /\ cmd' = cmd
        \/ /\ hpc = "flush" /\ posted = <<>> /\ replies # <<>> /\ mem["fromhost"] = Zero
           /\ hpc' = "send" /\ cmd' = cmd
        \/ hpc = "stop" /\ hpc' = "stopped" /\ cmd' = cmd
      BY DEF Idle, Test, Poll, HandleExit, HandleSilent, Fetch, TickIdle, FlushNone, FlushRead,
             Stop, Type, Signal, Host, host, target, terminal, Port!ReadReady
  <1>5. input' \in Seq(Chars) /\ typed' \in 0 .. MaxChars
    <2>1. CASE Type
      <3>1. typed' \in 0 .. MaxChars /\ typed + 1 \in Chars
          BY <2>1, HtifAssumption DEF Type, IInv, Typing, Chars
      <3> QED BY <2>1, <3>1, AppendProperties DEF Type, IInv, Typing
    <2>2. CASE ~ Type
        BY <2>2 DEF Idle, Test, Poll, HandleExit, HandleSilent, Fetch, TickIdle, FlushNone,
                    FlushRead, Stop, Signal, terminal, IInv, Typing
    <2> QED BY <2>1, <2>2
  <1>6. hpc' = "clear" => tohost \in Command /\ cmd' = tohost
    <2>1. CASE hpc = "clear"
        BY <1>4, <2>1 DEF IInv, IdsInOrder
    <2>2. CASE hpc = "poll" /\ posted = <<>>
        BY <1>3, <1>4, <2>2 DEF IInv, Typing, Booting, Addr, ValAt
    <2> QED BY <1>4, <2>1, <2>2
  <1>7. Typing'
      BY <1>1, <1>4, <1>5, <1>6 DEF IInv, Typing, PCs
  <1>8. PostedInOrder'
      BY <1>1, <1>4 DEF IInv, PostedInOrder
  <1>9. Booting'
      BY <1>1, <1>2, <1>3, <1>4 DEF IInv, Booting
  <1>10. OneWriter'
      BY <1>1, <1>2, <1>4 DEF IInv, OneWriter
  <1>11. \A n : AllBelow(n)' = AllBelow(n)
      BY <1>1, <1>2 DEF AllBelow
  <1>12. Handling' => Handling /\ cmd' = cmd
      BY <1>4 DEF Handling
  <1>13. IdsInOrder'
      BY <1>1, <1>2, <1>4, <1>6, <1>11, <1>12 DEF IInv, IdsInOrder
  <1>14. OneOwner' /\ BufferHeld'
      BY <1>1, <1>2, <1>12 DEF IInv, OneOwner, BufferHeld, Args, Result
  <1> QED BY <1>2, <1>7, <1>8, <1>9, <1>10, <1>13, <1>14 DEF IInv

\* The program is loaded and the core let run.
LEMMA StartIInv ==
  ASSUME IInv, Start
  PROVE  IInv' /\ tohost' = Zero /\ fromhost' = Zero /\ fromhost = Garbage /\ tohost = Garbage
  <1> DEFINE ws == <<Port!Write("text", "loaded"), Port!Write("tohost", Zero),
                     Port!Write("fromhost", Zero), Port!Write("msip", "loaded")>>
  <1>1. /\ hpc = "start" /\ hpc' \in {"test", "spin"}
        /\ UNCHANGED <<mem, cmd, pending, replies, next, waiting, got, input, typed>>
        /\ posted = <<>> /\ posted' = posted \o ws
      BY DEF Start, Host, target, terminal, Port!Post, IInv, PostedInOrder
  <1>2. /\ ws \in Seq(Sending) /\ Len(ws) = 4
        /\ ws[1].addr = "text" /\ ws[2].addr = "tohost" /\ ws[3].addr = "fromhost" /\ ws[4].addr = "msip"
        /\ ws[1].val = "loaded" /\ ws[2].val = Zero /\ ws[3].val = Zero /\ ws[4].val = "loaded"
    <2>1. \A a \in {"text", "msip"} : Port!Write(a, "loaded") \in Sending
        BY DEF Sending, Port!Write
    <2>2. \A a \in {"tohost", "fromhost"} : Port!Write(a, Zero) \in Sending
        BY DEF Sending, Port!Write
    <2> QED BY <2>1, <2>2 DEF Port!Write
  <1> HIDE DEF ws
  <1>3. posted' = ws
      BY <1>1, <1>2
  <1>4. OnePerAddress(ws)
      BY <1>2 DEF OnePerAddress
  <1>5. /\ Port!Coming("text")' = "loaded" /\ tohost' = Zero /\ fromhost' = Zero
        /\ Bound("msip")' /\ ~ Bound("magic")'
    <2>1. \A i \in 1 .. 4 : Port!After(mem', ws, ws[i].addr) = ws[i].val
        BY <1>2, <1>4, AfterWrite
    <2>2. Port!Coming("text")' = "loaded" /\ tohost' = Zero /\ fromhost' = Zero
        BY <1>2, <1>3, <2>1 DEF Port!Coming, tohost, fromhost
    <2>3. Bound("msip")'
      <3>1. 4 \in 1 .. Len(ws) /\ ws[4].addr = "msip"
          BY <1>2
      <3> QED BY <1>3, <3>1 DEF Bound
    <2>4. ASSUME NEW i \in 1 .. Len(ws) PROVE ws[i].addr # "magic"
      <3>1. i = 1 \/ i = 2 \/ i = 3 \/ i = 4
          BY <1>2
      <3> QED BY <1>2, <3>1
    <2> QED BY <1>3, <2>2, <2>3, <2>4 DEF Bound
  <1>6. mem["msip"] # "loaded"
      BY <1>1 DEF IInv, Booting
  <1>7. Typing'
      BY <1>1, <1>2, <1>3 DEF IInv, Typing, PCs
  <1>8. PostedInOrder'
    <2>1. ASSUME NEW i \in 1 .. Len(ws), ws[i].addr = "msip" PROVE i = Len(ws)
      <3>1. i = 1 \/ i = 2 \/ i = 3 \/ i = 4
          BY <1>2
      <3> QED BY <1>2, <2>1, <3>1
    <2> QED BY <1>1, <1>3, <1>4, <2>1 DEF PostedInOrder, OnePerAddress
  <1>9. Booting'
      BY <1>1, <1>5, <1>6 DEF IInv, Booting
  <1>10. mem["tohost"] = Garbage /\ mem["fromhost"] = Garbage
      BY <1>1, <1>6 DEF IInv, Booting
  <1>11. OneWriter'
      BY <1>1, <1>5, <1>6, <1>10, Distinct DEF OneWriter
  <1>12. ~ Handling' /\ replies = <<>> /\ pending = <<>>
      BY <1>1, <1>6 DEF Handling, IInv, Booting
  <1>13. IdsInOrder' /\ OneOwner' /\ BufferHeld'
    <2>1. Len(replies) = 0 /\ Len(pending) = 0 /\ Len(got) = 0
        BY <1>1, <1>6, <1>12 DEF IInv, Booting
    <2> QED BY <1>1, <1>5, <1>10, <1>12, <2>1, Distinct DEF IdsInOrder, AllBelow, OneOwner, BufferHeld
  <1>14. fromhost = Garbage /\ tohost = Garbage
      BY <1>1, <1>10, AfterNone DEF fromhost, tohost, Port!Coming
  <1> QED BY <1>5, <1>14, <1>7, <1>8, <1>9, <1>11, <1>13 DEF IInv

\* The oldest write lands.  Only here does a word change under a write of the host.
LEMMA LandIInv == IInv /\ Land => IInv' /\ UNCHANGED <<tohost, fromhost>>
  <1> SUFFICES ASSUME IInv, Land PROVE IInv' /\ UNCHANGED <<tohost, fromhost>>
      OBVIOUS
  <1>1. UNCHANGED <<hpc, cmd, pending, replies, next, waiting, got, input, typed>> /\ Port!Land
      BY DEF Land, host, target, terminal
  <1>2. /\ posted' \in Seq(Sending) /\ OnePerAddress(posted')
        /\ Len(posted) \in Nat \ {0} /\ Len(posted') = Len(posted) - 1
        /\ \A i \in 1 .. Len(posted') : posted'[i] = posted[i + 1]
        /\ posted[1] \in Sending /\ posted[1].addr \in Addr
        /\ mem' = [mem EXCEPT ![posted[1].addr] = posted[1].val]
        /\ \A a \in Addr : Port!Coming(a)' = Port!Coming(a)
      BY <1>1, Landing DEF IInv, Typing, PostedInOrder, OnePerAddress
  <1>3. /\ tohost' = tohost /\ fromhost' = fromhost /\ magic' = magic
        /\ Port!Coming("text")' = Port!Coming("text")
        /\ \A a : Bound(a)' => Bound(a)
        /\ \A a : a = posted[1].addr => ~ Bound(a)'
    <2>1. \A i \in 1 .. Len(posted') : i + 1 \in 1 .. Len(posted)
        BY <1>2
    <2>2. /\ tohost' = tohost /\ fromhost' = fromhost /\ magic' = magic
          /\ Port!Coming("text")' = Port!Coming("text")
        BY <1>2 DEF tohost, fromhost, magic, Addr
    <2>3. \A a : Bound(a)' => Bound(a)
        BY <1>2, <2>1 DEF Bound
    <2>4. \A i \in 1 .. Len(posted') : posted'[i].addr # posted[1].addr
        BY <1>2, <2>1 DEF IInv, PostedInOrder
    <2> QED BY <2>2, <2>3, <2>4 DEF Bound
  <1>4. \A a \in Addr : mem'[a] = IF a = posted[1].addr THEN posted[1].val ELSE mem[a]
      BY <1>2 DEF IInv, Typing
  <1>5. Typing'
    <2>1. mem' = [a \in Addr |-> mem'[a]]
        BY <1>2 DEF IInv, Typing
    <2>2. posted[1].val \in ValAt(posted[1].addr)
        BY <1>2 DEF Sending, ValAt
    <2>3. \A a \in Addr : mem'[a] \in ValAt(a)
        BY <1>4, <2>2 DEF IInv, Typing
    <2> QED BY <1>1, <1>2, <2>1, <2>3 DEF IInv, Typing
  <1>6. PostedInOrder'
      BY <1>1, <1>2 DEF IInv, PostedInOrder, OnePerAddress
  <1>7. Booting'
    <2>1. CASE mem["msip"] = "loaded"
      <3>1. posted[1].addr # "msip"
          BY <1>2, <2>1 DEF IInv, Booting, Bound
      <3>2. mem'["msip"] = "loaded" /\ mem'["text"] = "loaded"
          BY <1>2, <1>4, <2>1, <3>1 DEF IInv, Booting, Sending, Addr
      <3>3. mem'["tohost"] # Garbage /\ mem'["fromhost"] # Garbage
          BY <1>2, <1>4, <2>1, Distinct DEF IInv, Booting, Sending, Addr
      <3>4. ~ Bound("fromhost")' /\ ~ Bound("msip")'
          BY <1>2, <1>3, <2>1 DEF IInv, Booting, Bound
      <3> QED BY <1>1, <2>1, <3>2, <3>3, <3>4 DEF IInv, Booting
    <2>2. CASE mem["msip"] # "loaded" /\ posted[1].addr # "msip"
      <3>1. mem'["msip"] # "loaded"
          BY <1>4, <2>2 DEF Addr
      <3>2. hpc # "start"
          BY <1>2 DEF IInv, PostedInOrder
      <3>3. Bound("msip")'
        <4>1. PICK i \in 1 .. Len(posted) : posted[i].addr = "msip"
            BY <2>2, <3>2 DEF IInv, Booting, Bound
        <4>2. i - 1 \in 1 .. Len(posted') /\ posted'[i - 1].addr = "msip"
            BY <1>2, <2>2, <4>1
        <4> QED BY <4>2 DEF Bound
      <3> QED BY <1>1, <1>3, <2>2, <3>1, <3>2, <3>3 DEF IInv, Booting
    <2>3. CASE mem["msip"] # "loaded" /\ posted[1].addr = "msip"
      <3>1. hpc # "start"
          BY <1>2 DEF IInv, PostedInOrder
      <3>2. Len(posted) = 1
          BY <1>2, <2>3 DEF IInv, PostedInOrder
      <3>3. \A a : ~ Bound(a)'
          BY <1>2, <3>2 DEF Bound
      <3>4. \A a : Port!Coming(a)' = mem'[a]
          BY <3>3, AfterNone DEF Port!Coming, Bound
      <3>5. tohost = Zero /\ fromhost = Zero /\ Port!Coming("text") = "loaded"
          BY <2>3, <3>1 DEF IInv, Booting
      <3>6. mem'["text"] = "loaded" /\ mem'["tohost"] = Zero /\ mem'["fromhost"] = Zero
          BY <1>3, <3>4, <3>5 DEF tohost, fromhost
      <3>7. mem'["msip"] = "loaded"
          BY <1>2, <1>4, <2>3 DEF Sending, Addr
      <3> QED BY <1>1, <3>1, <3>3, <3>6, <3>7, Distinct DEF IInv, Booting
    <2> QED BY <2>1, <2>2, <2>3
  <1>8. mem'["msip"] = "loaded" => ~ Bound("fromhost")'
    <2>1. CASE posted[1].addr = "msip" \/ mem["msip"] = "loaded"
        BY <1>2, <1>3, <2>1 DEF IInv, PostedInOrder, Booting, Bound
    <2> QED BY <1>4, <2>1 DEF Addr
  <1>9. OneWriter'
    <2>1. Bound("tohost")' => mem'["tohost"] = mem["tohost"]
      <3>1. posted[1].addr = "tohost" => ~ Bound("tohost")'
          BY <1>3 DEF Bound
      <3> QED BY <1>4, <3>1 DEF Addr
    <2>2. hpc # "send"
        BY <1>2 DEF IInv, PostedInOrder
    <2> QED BY <1>1, <1>3, <1>8, <2>1, <2>2 DEF IInv, OneWriter
  <1>10. \A n : AllBelow(n)' = AllBelow(n)
      BY <1>1, <1>3 DEF AllBelow
  <1>11. mem'["tohost"] \in Command /\ mem'["fromhost"] \in Reply =>
           mem'["fromhost"].cmd.id < mem'["tohost"].id
    <2> SUFFICES ASSUME mem'["tohost"] \in Command, mem'["fromhost"] \in Reply
                 PROVE  mem'["fromhost"].cmd.id < mem'["tohost"].id
        OBVIOUS
    <2>1. posted[1].addr # "tohost"
        BY <1>2, <1>4, Distinct DEF Sending
    <2>2. mem'["tohost"] = mem["tohost"]
        BY <1>4, <2>1 DEF Addr
    <2>3. CASE posted[1].addr = "fromhost"
      <3>1. 1 \in 1 .. Len(posted) /\ OnePerAddress(posted) /\ posted \in Seq(Sending)
          BY <1>2 DEF IInv, Typing, PostedInOrder, OnePerAddress
      <3>2. mem'["fromhost"] = posted[1].val /\ fromhost = posted[1].val
          BY <1>4, <2>3, <3>1, AfterWrite DEF fromhost, Port!Coming, Addr
      <3>3. mem["msip"] = "loaded"
          BY <3>2, <1>2, Distinct DEF IInv, PostedInOrder, Booting
      <3>4. Len(posted) = 1
          BY <2>3, <3>1, <3>3 DEF IInv, Booting, Bound
      <3>5. tohost = mem["tohost"]
          BY <2>1, <3>4, AfterNone DEF tohost, Port!Coming
      <3> QED BY <2>2, <3>2, <3>5 DEF IInv, IdsInOrder, AllBelow
    <2>4. CASE posted[1].addr # "fromhost"
        BY <1>4, <2>2, <2>4 DEF IInv, IdsInOrder, Addr
    <2> QED BY <2>3, <2>4
  <1>12. IdsInOrder'
      BY <1>1, <1>3, <1>10, <1>11 DEF IInv, IdsInOrder, Handling
  <1>13. OneOwner' /\ BufferHeld'
      BY <1>1, <1>3 DEF IInv, OneOwner, BufferHeld, Handling, Args, Result
  <1> QED BY <1>3, <1>5, <1>6, <1>7, <1>9, <1>12, <1>13 DEF IInv

\* The host lets go of tohost.
LEMMA ClearIInv == IInv /\ Clear => IInv' /\ tohost' = Zero /\ tohost = cmd /\ UNCHANGED fromhost
  <1> SUFFICES ASSUME IInv, Clear PROVE IInv' /\ tohost' = Zero /\ tohost = cmd /\ UNCHANGED fromhost
      OBVIOUS
  <1> DEFINE w == Port!Write("tohost", Zero)
  <1>1. /\ hpc = "clear" /\ hpc' = "handle" /\ posted = <<>> /\ Port!Post(<<w>>)
        /\ UNCHANGED <<mem, cmd, pending, replies, next, waiting, got, input, typed>>
      BY DEF Clear, Host, target, terminal, IInv, PostedInOrder
  <1>2. w \in Sending /\ w.addr = "tohost" /\ w.val = Zero /\ Len(posted) = 0 /\ \A a : ~ Bound(a)
      BY <1>1 DEF Sending, Port!Write, Bound
  <1> HIDE DEF w
  <1>3. /\ posted' \in Seq(Sending) /\ OnePerAddress(posted') /\ Len(posted') = 1
        /\ posted'[1] = w
        /\ \A a \in Addr : Port!Coming(a)' = IF a = w.addr THEN w.val ELSE Port!Coming(a)
      BY <1>1, <1>2, Posting DEF IInv, Typing, PostedInOrder, OnePerAddress
  <1>4. tohost' = Zero /\ fromhost' = fromhost /\ magic' = magic
        /\ \A a : Bound(a)' => a = "tohost"
      BY <1>2, <1>3 DEF tohost, fromhost, magic, Addr, Bound
  <1>5. tohost = mem["tohost"] /\ tohost \in Command /\ cmd = tohost
      BY <1>1, <1>2, AfterNone DEF IInv, IdsInOrder, tohost, Port!Coming, Bound
  <1>6. Typing' /\ PostedInOrder'
      BY <1>1, <1>2, <1>3 DEF IInv, Typing, PCs, PostedInOrder, OnePerAddress
  <1>7. Booting'
      BY <1>1, <1>4 DEF IInv, Booting
  <1>8. OneWriter'
      BY <1>1, <1>4, <1>5, Distinct DEF IInv, OneWriter
  <1>9. \A n : AllBelow(n)' = AllBelow(n)
      BY <1>1, <1>4 DEF AllBelow
  <1>10. IdsInOrder'
      BY <1>1, <1>4, <1>5, <1>9, Distinct DEF IInv, IdsInOrder, Handling
  <1>11. OneOwner' /\ BufferHeld'
      BY <1>1, <1>4, <1>5, Distinct DEF IInv, OneOwner, BufferHeld, Handling, Args, Result
  <1> QED BY <1>4, <1>5, <1>6, <1>7, <1>8, <1>10, <1>11 DEF IInv

\* A getc joins the pending reads.
LEMMA GetcIInv == IInv /\ HandleGetc => IInv' /\ UNCHANGED <<tohost, fromhost>>
  <1> SUFFICES ASSUME IInv, HandleGetc PROVE IInv' /\ UNCHANGED <<tohost, fromhost>>
      OBVIOUS
  <1>1. /\ hpc = "handle" /\ hpc' = "tick" /\ cmd.kind = "getc" /\ pending' = Append(pending, cmd)
        /\ UNCHANGED <<mem, posted, cmd, replies, next, waiting, got, input, typed>>
      BY DEF HandleGetc, Host, target, terminal
  <1>2. /\ tohost' = tohost /\ fromhost' = fromhost /\ magic' = magic
        /\ \A a : Bound(a)' = Bound(a)
      BY <1>1 DEF tohost, fromhost, magic, Bound, Port!Coming, Port!After, Port!To
  <1>3. Handling /\ ~ Handling' /\ cmd \in Getc
      BY <1>1 DEF Handling, IInv, IdsInOrder, Getc
  <1>4. /\ pending' \in Seq(Getc) /\ Len(pending') = Len(pending) + 1 /\ Len(pending) \in Nat
        /\ \A i \in 1 .. Len(pending) : pending'[i] = pending[i]
        /\ pending'[Len(pending) + 1] = cmd
      BY <1>1, <1>3, AppendProperties, LenProperties DEF IInv, Typing
  <1>5. Typing' /\ PostedInOrder'
      BY <1>1, <1>4 DEF IInv, Typing, PCs, PostedInOrder
  <1>6. mem["msip"] = "loaded"
      BY <1>1 DEF IInv, Booting
  <1>7. Booting' /\ OneWriter'
      BY <1>1, <1>2, <1>6 DEF IInv, Booting, OneWriter
  <1>8. ASSUME NEW n, AllBelow(n), cmd.id < n PROVE AllBelow(n)'
      BY <1>1, <1>2, <1>4, <1>8 DEF AllBelow
  <1>9. IdsInOrder'
      BY <1>1, <1>2, <1>3, <1>8 DEF IInv, IdsInOrder
  <1>10. OneOwner' /\ BufferHeld'
      BY <1>1, <1>2, <1>3 DEF IInv, OneOwner, BufferHeld, Args, Result
  <1> QED BY <1>2, <1>5, <1>7, <1>9, <1>10 DEF IInv

\* bcd answers the oldest of them.
LEMMA TickGetcIInv == IInv /\ TickGetc => IInv' /\ UNCHANGED <<tohost, fromhost>>
  <1> SUFFICES ASSUME IInv, TickGetc PROVE IInv' /\ UNCHANGED <<tohost, fromhost>>
      OBVIOUS
  <1> DEFINE r == [cmd |-> Head(pending), val |-> Head(input)]
  <1>1. /\ hpc = "tick" /\ hpc' = "flush" /\ pending # <<>> /\ input # <<>>
        /\ replies' = Append(replies, r) /\ pending' = Tail(pending) /\ input' = Tail(input)
        /\ UNCHANGED <<mem, posted, cmd, next, waiting, got, typed>>
      BY DEF TickGetc, CanGetc, Host, target
  <1>2. /\ tohost' = tohost /\ fromhost' = fromhost /\ magic' = magic
        /\ \A a : Bound(a)' = Bound(a)
      BY <1>1 DEF tohost, fromhost, magic, Bound, Port!Coming, Port!After, Port!To
  <1>3. /\ pending \in Seq(Getc) /\ input \in Seq(Chars) /\ replies \in Seq(OwedReply)
      BY DEF IInv, Typing
  <1>4. /\ Head(pending) \in Getc /\ Head(pending) = pending[1] /\ 1 \in 1 .. Len(pending)
        /\ Tail(pending) \in Seq(Getc) /\ Len(Tail(pending)) = Len(pending) - 1
        /\ \A i \in 1 .. Len(Tail(pending)) : Tail(pending)[i] = pending[i + 1] /\ i + 1 \in 1 .. Len(pending)
      BY <1>1, <1>3, HeadTailProperties, EmptySeq
  <1>5. Head(input) \in Chars /\ Tail(input) \in Seq(Chars)
      BY <1>1, <1>3, HeadTailProperties
  <1>6. r \in OwedReply /\ r.cmd = Head(pending) /\ r.cmd.kind = "getc"
      BY <1>4, <1>5 DEF OwedReply, Reply, Getc, Answered
  <1> HIDE DEF r
  <1>7. /\ replies' \in Seq(OwedReply) /\ Len(replies') = Len(replies) + 1 /\ Len(replies) \in Nat
        /\ \A i \in 1 .. Len(replies) : replies'[i] = replies[i]
        /\ replies'[Len(replies) + 1] = r
      BY <1>1, <1>3, <1>6, AppendProperties, LenProperties
  <1>8. Typing' /\ PostedInOrder'
      BY <1>1, <1>4, <1>5, <1>7 DEF IInv, Typing, PCs, PostedInOrder
  <1>9. mem["msip"] = "loaded"
      BY <1>1 DEF IInv, Booting
  <1>10. Booting' /\ OneWriter'
      BY <1>1, <1>2, <1>7, <1>9 DEF IInv, Booting, OneWriter
  <1>11. ASSUME NEW n, AllBelow(n) PROVE AllBelow(n)'
    <2>1. \A i \in 1 .. Len(pending') : pending'[i].id < n
        BY <1>1, <1>4, <1>11 DEF AllBelow
    <2>2. \A i \in 1 .. Len(replies') : i \in 1 .. Len(replies) \/ i = Len(replies) + 1
        BY <1>7
    <2>3. r.cmd.id < n
        BY <1>4, <1>6, <1>11 DEF AllBelow
    <2>4. \A i \in 1 .. Len(replies') : replies'[i].cmd.id < n
        BY <1>7, <1>11, <2>2, <2>3 DEF AllBelow
    <2> QED BY <1>2, <1>11, <2>1, <2>4 DEF AllBelow
  <1>12. IdsInOrder'
      BY <1>1, <1>2, <1>11 DEF IInv, IdsInOrder, Handling
  <1>13. \A i \in 1 .. Len(replies') : replies'[i].cmd.kind \in InMemory =>
           i \in 1 .. Len(replies) /\ replies'[i] = replies[i]
      BY <1>6, <1>7 DEF InMemory
  <1>14. OneOwner' /\ BufferHeld'
      BY <1>1, <1>2, <1>13 DEF IInv, OneOwner, BufferHeld, Handling, Args, Result
  <1> QED BY <1>2, <1>8, <1>10, <1>12, <1>14 DEF IInv

\* A handler that is done answers in memory: its result goes to the buffer of its call
\* and its reply to the queue.
LEMMA RespondIInv ==
  ASSUME IInv, Handling, hpc' = "tick", cmd.kind \in InMemory, NEW v \in Chars,
         Port!Post(<<Port!Write("magic", Result(cmd, v))>>), Respond(v),
         input' \in Seq(Chars),
         UNCHANGED <<mem, cmd, pending, next, waiting, got, typed>>
  PROVE  IInv' /\ UNCHANGED <<tohost, fromhost>>
  <1> DEFINE w == Port!Write("magic", Result(cmd, v))
             r == [cmd |-> cmd, val |-> v]
  <1>1. /\ cmd \in Command /\ cmd = waiting /\ mem["msip"] = "loaded"
        /\ \A i \in 1 .. Len(posted) : posted[i].addr = "tohost"
      BY DEF IInv, IdsInOrder, OneOwner, Handling, Booting, PostedInOrder
  <1>2. w \in Sending /\ w.addr = "magic" /\ w.val = Result(cmd, v) /\ ~ Bound("magic")
    <2>1. Result(cmd, v) \in Buffer
        BY <1>1 DEF Result, Buffer, Command
    <2> QED BY <1>1, <2>1 DEF Sending, Port!Write, Bound
  <1>3. r \in OwedReply /\ r.cmd = cmd /\ r.val = v
      BY <1>1 DEF OwedReply, Reply, InMemory, Answered
  <1>4. replies' = Append(replies, r) /\ Port!Post(<<w>>)
      BY DEF Respond
  <1> HIDE DEF w, r
  <1>5. /\ posted' \in Seq(Sending) /\ OnePerAddress(posted')
        /\ Len(posted) \in Nat /\ Len(posted') = Len(posted) + 1
        /\ \A i \in 1 .. Len(posted) : posted'[i] = posted[i]
        /\ posted'[Len(posted')] = w
        /\ \A a \in Addr : Port!Coming(a)' = IF a = w.addr THEN w.val ELSE Port!Coming(a)
      BY <1>2, <1>4, Posting DEF IInv, Typing, PostedInOrder, OnePerAddress
  <1>6. /\ tohost' = tohost /\ fromhost' = fromhost /\ magic' = Result(cmd, v)
        /\ \A i \in 1 .. Len(posted') : posted'[i].addr \in {"tohost", "magic"}
        /\ Bound("tohost")' => Bound("tohost")
    <2>1. \A i \in 1 .. Len(posted') : i = Len(posted') \/ i \in 1 .. Len(posted)
        BY <1>5
    <2> QED BY <1>1, <1>2, <1>5, <2>1 DEF tohost, fromhost, magic, Addr, Bound
  <1>7. /\ replies' \in Seq(OwedReply) /\ Len(replies') = Len(replies) + 1 /\ Len(replies) \in Nat
        /\ \A i \in 1 .. Len(replies) : replies'[i] = replies[i]
        /\ replies'[Len(replies) + 1] = r
      BY <1>3, <1>4, AppendProperties, LenProperties DEF IInv, Typing
  <1>8. Typing'
      BY <1>5, <1>7 DEF IInv, Typing, PCs
  <1>9. PostedInOrder'
      BY <1>5, <1>6 DEF PostedInOrder, OnePerAddress
  <1>10. Booting'
      BY <1>1, <1>6 DEF IInv, Booting, Bound
  <1>11. OneWriter'
    <2>1. Len(replies) + 1 \in 1 .. Len(replies') /\ replies'[Len(replies) + 1].cmd.kind \in InMemory
        BY <1>3, <1>7
    <2>2. ~ Bound("fromhost")'
        BY <1>6 DEF Bound
    <2> QED BY <1>6, <2>1, <2>2 DEF IInv, OneWriter
  <1>12. ASSUME NEW n, AllBelow(n), cmd.id < n PROVE AllBelow(n)'
    <2>1. \A i \in 1 .. Len(replies') : i \in 1 .. Len(replies) \/ i = Len(replies) + 1
        BY <1>7
    <2>2. \A i \in 1 .. Len(replies') : replies'[i].cmd.id < n
        BY <1>3, <1>7, <1>12, <2>1 DEF AllBelow
    <2> QED BY <1>6, <1>12, <2>2 DEF AllBelow
  <1>13. AllBelow(cmd.id) /\ cmd.id \in Int /\ cmd.id < next
      BY <1>1 DEF IInv, IdsInOrder, Command, Id
  <1>14. IdsInOrder'
      BY <1>6, <1>12, <1>13 DEF IInv, IdsInOrder, Handling
  <1>15. \A i \in 1 .. Len(replies) : replies[i].cmd.kind \notin InMemory
      BY <1>1, <1>13 DEF IInv, OneOwner, AllBelow
  <1>16. fromhost \in Reply => fromhost.cmd.kind \notin InMemory
      BY <1>1, <1>13 DEF IInv, OneOwner, AllBelow
  <1>17. tohost \in Command => tohost.kind \notin InMemory
      BY <1>1, <1>13 DEF IInv, OneOwner, IdsInOrder
  <1>18. \A i \in 1 .. Len(replies') : replies'[i].cmd.kind \in InMemory =>
           i = Len(replies) + 1 /\ replies'[i] = r
      BY <1>7, <1>15
  <1>19. OneOwner'
      BY <1>1, <1>3, <1>6, <1>16, <1>17, <1>18 DEF OneOwner, Handling
  <1>20. BufferHeld'
      BY <1>3, <1>6, <1>16, <1>17, <1>18 DEF BufferHeld, Handling, Args, Result, Proxied, InMemory
  <1> QED BY <1>6, <1>8, <1>9, <1>10, <1>11, <1>14, <1>19, <1>20 DEF IInv

\* identify, and the proxied calls, answer that way.
LEMMA AnswerIInv == IInv /\ (HandleIdentify \/ Call \/ CallRead) => IInv' /\ UNCHANGED <<tohost, fromhost>>
  <1> SUFFICES ASSUME IInv, HandleIdentify \/ Call \/ CallRead PROVE IInv' /\ UNCHANGED <<tohost, fromhost>>
      OBVIOUS
  <1>1. 0 \in Chars /\ input \in Seq(Chars)
      BY HtifAssumption DEF IInv, Typing, Chars
  <1>2. CASE HandleIdentify
      BY <1>1, <1>2, RespondIInv DEF HandleIdentify, Host, Handling, InMemory, target, terminal
  <1>3. CASE Call
      BY <1>1, <1>3, RespondIInv DEF Call, Return, Host, Handling, InMemory, target, terminal
  <1>4. CASE CallRead
    <2>1. Head(input) \in Chars /\ input' \in Seq(Chars)
        BY <1>1, <1>4, HeadTailProperties DEF CallRead
    <2> QED BY <1>4, <2>1, RespondIInv DEF CallRead, Return, Host, Handling, InMemory, target
  <1> QED BY <1>2, <1>3, <1>4

\* The oldest reply goes to fromhost.
LEMMA SendIInv ==
  ASSUME IInv, Send
  PROVE  IInv' /\ fromhost = Zero /\ fromhost' = Head(replies) /\ UNCHANGED tohost
  <1> DEFINE r == Head(replies)
             w == Port!Write("fromhost", r)
  <1>1. /\ hpc = "send" /\ hpc' = "test" /\ posted = <<>> /\ replies # <<>>
        /\ mem["fromhost"] = Zero /\ Port!Post(<<w>>) /\ replies' = Tail(replies)
        /\ UNCHANGED <<mem, cmd, pending, next, waiting, got, input, typed>>
      BY DEF Send, Host, target, terminal, IInv, PostedInOrder, OneWriter
  <1>2. /\ replies \in Seq(OwedReply) /\ 1 \in 1 .. Len(replies) /\ r = replies[1] /\ r \in OwedReply
        /\ replies' \in Seq(OwedReply) /\ Len(replies') = Len(replies) - 1
        /\ \A i \in 1 .. Len(replies') : replies'[i] = replies[i + 1] /\ i + 1 \in 2 .. Len(replies)
      BY <1>1, HeadTailProperties, EmptySeq DEF IInv, Typing
  <1>3. w \in Sending /\ w.addr = "fromhost" /\ w.val = r /\ Len(posted) = 0 /\ \A a : ~ Bound(a)
      BY <1>1, <1>2 DEF Sending, Port!Write, Bound, OwedReply
  <1> HIDE DEF w, r
  <1>4. /\ posted' \in Seq(Sending) /\ OnePerAddress(posted') /\ Len(posted') = 1
        /\ posted'[1] = w
        /\ \A a \in Addr : Port!Coming(a)' = IF a = w.addr THEN w.val ELSE Port!Coming(a)
      BY <1>1, <1>3, Posting DEF IInv, Typing, PostedInOrder, OnePerAddress
  <1>5. fromhost' = r /\ tohost' = tohost /\ magic' = magic
        /\ \A a : Bound(a)' => a = "fromhost"
      BY <1>3, <1>4 DEF tohost, fromhost, magic, Addr, Bound
  <1>6. r \in Reply /\ r # Zero /\ mem["msip"] = "loaded"
      BY <1>1, <1>2, Distinct DEF OwedReply, IInv, Booting
  <1>7. Typing' /\ PostedInOrder'
      BY <1>1, <1>2, <1>3, <1>4 DEF IInv, Typing, PCs, PostedInOrder, OnePerAddress
  <1>8. Booting' /\ OneWriter'
      BY <1>1, <1>4, <1>5, <1>6 DEF IInv, Booting, OneWriter
  <1>9. ASSUME NEW n, AllBelow(n) PROVE AllBelow(n)'
      BY <1>1, <1>2, <1>5, <1>9 DEF AllBelow
  <1>10. IdsInOrder'
      BY <1>1, <1>5, <1>9 DEF IInv, IdsInOrder, Handling
  <1>11. OneOwner' /\ BufferHeld'
      BY <1>1, <1>2, <1>5, <1>6 DEF IInv, OneOwner, BufferHeld, Handling, Args, Result
  <1>12. fromhost = Zero /\ fromhost' = Head(replies)
      BY <1>1, <1>5, AfterNone DEF fromhost, Port!Coming, r
  <1> QED BY <1>5, <1>12, <1>7, <1>8, <1>10, <1>11 DEF IInv

----------------------------------------------------------------------------
\* The program issues a command: no posted write goes where it stores.
LEMMA IssueIInv ==
  ASSUME IInv, NEW k \in Kinds, Issue(k)
  PROVE  IInv' /\ tohost = Zero /\ tohost' = [kind |-> k, id |-> next] /\ UNCHANGED fromhost
  <1> DEFINE c == [kind |-> k, id |-> next]
  <1>1. /\ mem["msip"] = "loaded" /\ next <= MaxCmds /\ mem["tohost"] = Zero
        /\ c.kind \in InMemory => waiting = Zero
        /\ mem' = [mem EXCEPT !["tohost"] = c,
                              !["magic"] = IF k \in Proxied THEN Args(c) ELSE @]
        /\ next' = next + 1 /\ waiting' = IF c.kind \in InMemory THEN c ELSE waiting
        /\ UNCHANGED <<hpc, cmd, pending, replies, posted, got, input, typed>>
      BY DEF Issue, Running, host, terminal
  <1>2. c \in Command /\ c.id = next /\ c.kind = k /\ next \in Nat
      BY <1>1, CommandsAssumption DEF IInv, Typing, Command, Id
  <1> HIDE DEF c
  <1>3. \A a \in Addr : mem'[a] = CASE a = "tohost" -> c
                                    [] a = "magic" -> IF k \in Proxied THEN Args(c) ELSE mem["magic"]
                                    [] OTHER -> mem[a]
      BY <1>1 DEF IInv, Typing, Addr
  <1>4. \A a : Bound(a)' = Bound(a)
      BY <1>1 DEF Bound
  <1>5. ~ Bound("tohost") /\ (k \in Proxied => ~ Bound("magic"))
    <2>1. ASSUME Bound("magic") PROVE waiting # Zero
        BY <2>1, Distinct DEF IInv, Typing, OneWriter, OneOwner, OwedReply, Reply
    <2> QED BY <1>1, <1>2, <2>1 DEF IInv, OneWriter, Proxied, InMemory
  <1>6. ASSUME NEW a PROVE /\ Bound(a) => Port!Coming(a)' = Port!Coming(a)
                           /\ ~ Bound(a) => Port!Coming(a)' = mem'[a] /\ Port!Coming(a) = mem[a]
      BY <1>1, Storing DEF IInv, Typing, PostedInOrder, OnePerAddress
  <1>8. /\ tohost = Zero /\ tohost' = c /\ fromhost' = fromhost
        /\ magic' = IF k \in Proxied THEN Args(c) ELSE magic
      BY <1>1, <1>3, <1>5, <1>6 DEF tohost, fromhost, magic, Addr
  <1>9. Typing'
    <2>1. Args(c) \in Buffer
        BY <1>2, HtifAssumption DEF Args, Buffer, Command, Chars
    <2>2. mem' = [a \in Addr |-> mem'[a]]
        BY <1>1 DEF IInv, Typing
    <2>3. \A a \in Addr : mem'[a] \in ValAt(a)
        BY <1>2, <1>3, <2>1 DEF IInv, Typing, ValAt, Addr
    <2>4. waiting' \in Owner \cup {Zero} /\ next' \in Nat \ {0}
        BY <1>1, <1>2 DEF IInv, Typing, Owner
    <2> QED BY <1>1, <2>2, <2>3, <2>4 DEF IInv, Typing
  <1>10. PostedInOrder'
      BY <1>1 DEF IInv, PostedInOrder
  <1>11. Booting'
      BY <1>1, <1>2, <1>3, <1>4, <1>8, Distinct DEF IInv, Booting, Addr
  <1>12. OneWriter'
      BY <1>1, <1>3, <1>4, <1>5 DEF IInv, OneWriter, Addr
  <1>13. mem["fromhost"] \in Reply => mem["fromhost"].cmd.id < next
    <2>1. mem["fromhost"] \in Reply => ~ Bound("fromhost")
        BY <1>1, Distinct DEF IInv, OneWriter
    <2>2. mem["fromhost"] \in Reply => fromhost = mem["fromhost"]
        BY <1>6, <2>1 DEF fromhost
    <2> QED BY <2>2 DEF IInv, IdsInOrder, AllBelow
  <1>14. /\ \A i \in 1 .. Len(pending') : pending'[i].id < next
         /\ \A i \in 1 .. Len(replies') : replies'[i].cmd.id < next
         /\ fromhost' \in Reply => fromhost'.cmd.id < next
         /\ Handling => cmd.id < next
         /\ \A i \in 1 .. Len(got) : got[i].cmd.id < next
      BY <1>1, <1>8 DEF IInv, IdsInOrder, AllBelow
  <1>15. /\ \A i \in 1 .. Len(pending') : pending'[i].id \in Int
         /\ \A i \in 1 .. Len(replies') : replies'[i].cmd.id \in Int
         /\ fromhost' \in Reply => fromhost'.cmd.id \in Int
         /\ Handling => cmd.id \in Int
         /\ \A i \in 1 .. Len(got) : got[i].cmd.id \in Int
    <2>1. /\ \A i \in 1 .. Len(pending) : pending[i] \in Getc
          /\ \A i \in 1 .. Len(got) : got[i] \in Reply
        BY DEF IInv, Typing
    <2>2. \A i \in 1 .. Len(replies) : replies[i] \in OwedReply
        BY DEF IInv, Typing
    <2> QED BY <1>1, <2>1, <2>2 DEF Getc, OwedReply, Reply, Command, Id, IInv, IdsInOrder
  <1>16. AllBelow(next)'
      BY <1>1, <1>2, <1>14, <1>15 DEF AllBelow
  <1>17. AllBelow(tohost.id)'
      BY <1>2, <1>8, <1>14 DEF AllBelow
  <1>18. Handling => cmd.id < next' /\ AllBelow(cmd.id)'
    <2>1. Handling => AllBelow(cmd.id)
        BY DEF IInv, IdsInOrder
    <2> QED BY <1>1, <1>2, <1>8, <1>14, <1>15, <2>1 DEF AllBelow
  <1>19. IdsInOrder'
    <2>1. hpc # "clear"
        BY <1>8, Distinct DEF IInv, IdsInOrder
    <2>2. mem'["fromhost"] = mem["fromhost"] /\ mem'["tohost"] = c
        BY <1>3 DEF Addr
    <2>3. tohost'.id < next' /\ (Handling => cmd.id < tohost'.id)
        BY <1>1, <1>2, <1>8, <1>14
    <2>4. \A i \in 1 .. Len(got) : got[i].cmd.id < next'
        BY <1>1, <1>2, <1>14, <1>15
    <2>5. mem'["fromhost"] \in Reply => mem'["fromhost"].cmd.id < mem'["tohost"].id
        BY <1>2, <1>13, <2>2
    <2>6. Handling' = Handling /\ (Handling => cmd \in Command) /\ (hpc = "call" => cmd.kind \in Proxied)
        BY <1>1 DEF Handling, IInv, IdsInOrder
    <2> QED BY <1>1, <1>16, <1>17, <1>18, <2>1, <2>3, <2>4, <2>5, <2>6 DEF IdsInOrder
  <1>20. c.kind \in InMemory => /\ \A i \in 1 .. Len(replies) : replies[i].cmd.kind \notin InMemory
                                /\ fromhost \in Reply => fromhost.cmd.kind \notin InMemory
                                /\ Handling => cmd.kind \notin InMemory
    <2>1. \A i \in 1 .. Len(replies) : replies[i].cmd \in Command
        BY DEF IInv, Typing, OwedReply, Reply
    <2>2. fromhost \in Reply => fromhost.cmd \in Command
        BY DEF Reply
    <2> QED BY <1>1, <2>1, <2>2, Distinct DEF IInv, OneOwner, IdsInOrder
  <1>21. OneOwner'
      BY <1>1, <1>2, <1>8, <1>20 DEF IInv, OneOwner, Handling
  <1>22. BufferHeld'
      BY <1>1, <1>2, <1>8, <1>20 DEF IInv, BufferHeld, Handling, Proxied, InMemory, Args, Result
  <1> QED BY <1>8, <1>9, <1>10, <1>11, <1>12, <1>19, <1>21, <1>22 DEF IInv, c

\* The program takes a reply.
LEMMA TakeIInv ==
  ASSUME IInv, Take
  PROVE  /\ IInv' /\ fromhost \in Reply /\ fromhost' = Zero /\ UNCHANGED tohost
         /\ got' = Append(got, fromhost)
  <1> DEFINE r == mem["fromhost"]
             g == IF r.cmd.kind \in InMemory THEN [cmd |-> r.cmd, val |-> mem["magic"].val] ELSE r
  <1>1. /\ mem["msip"] = "loaded" /\ r # Zero
        /\ mem' = [mem EXCEPT !["fromhost"] = Zero]
        /\ got' = Append(got, g)
        /\ waiting' = IF waiting = r.cmd THEN Zero ELSE waiting
        /\ UNCHANGED <<hpc, cmd, pending, replies, posted, next, input, typed>>
      BY DEF Take, Running, host, terminal
  <1>2. r \in Reply /\ ~ Bound("fromhost")
      BY <1>1 DEF IInv, Typing, Booting, OneWriter, Addr, ValAt
  <1>3. \A a \in Addr : mem'[a] = IF a = "fromhost" THEN Zero ELSE mem[a]
      BY <1>1 DEF IInv, Typing, Addr
  <1>4. \A a : Bound(a)' = Bound(a)
      BY <1>1 DEF Bound
  <1>5. ASSUME NEW a PROVE /\ Bound(a) => Port!Coming(a)' = Port!Coming(a)
                           /\ ~ Bound(a) => Port!Coming(a)' = mem'[a] /\ Port!Coming(a) = mem[a]
      BY <1>1, Storing DEF IInv, Typing, PostedInOrder, OnePerAddress
  <1>6. fromhost = r
      BY <1>2, <1>5 DEF fromhost
  <1>7. fromhost' = Zero
      BY <1>2, <1>3, <1>5 DEF fromhost, Addr
  <1>8. tohost' = tohost /\ magic' = magic
      BY <1>3, <1>5 DEF tohost, magic, Addr
  <1> HIDE DEF g
  <1>9. r.cmd.kind \in InMemory => /\ \A i \in 1 .. Len(replies) : replies[i].cmd.kind \notin InMemory
                                   /\ waiting = r.cmd /\ ~ Bound("magic") /\ mem["magic"] = Result(r.cmd, r.val)
    <2> SUFFICES ASSUME r.cmd.kind \in InMemory
                 PROVE  /\ \A i \in 1 .. Len(replies) : replies[i].cmd.kind \notin InMemory
                        /\ waiting = r.cmd /\ ~ Bound("magic") /\ mem["magic"] = Result(r.cmd, r.val)
        OBVIOUS
    <2>1. /\ \A i \in 1 .. Len(replies) : replies[i].cmd.kind \notin InMemory
          /\ waiting = r.cmd /\ magic = Result(r.cmd, r.val)
        BY <1>2, <1>6 DEF IInv, OneOwner, BufferHeld
    <2>2. ~ Bound("magic")
        BY <2>1 DEF IInv, OneWriter
    <2>3. magic = mem["magic"]
        BY <2>2, AfterNone DEF magic, Port!Coming, Bound
    <2> QED BY <2>1, <2>2, <2>3
  <1>10. /\ g \in Reply /\ g.cmd = r.cmd
         /\ got' \in Seq(Reply) /\ Len(got') = Len(got) + 1 /\ Len(got) \in Nat
         /\ \A i \in 1 .. Len(got) : got'[i] = got[i]
         /\ got'[Len(got) + 1] = g
    <2>1. g \in Reply /\ g.cmd = r.cmd
      <3>1. CASE r.cmd.kind \in InMemory
          BY <1>2, <1>9, <3>1 DEF g, Reply, Result
      <3>2. CASE r.cmd.kind \notin InMemory
          BY <1>2, <3>2 DEF g
      <3> QED BY <3>1, <3>2
    <2> QED BY <1>1, <2>1, AppendProperties, LenProperties DEF IInv, Typing
  <1> HIDE DEF r
  <1>11. Typing'
    <2>1. \A a \in Addr : mem'[a] \in ValAt(a)
        BY <1>3 DEF IInv, Typing, ValAt, Addr
    <2>2. mem' = [a \in Addr |-> mem'[a]]
        BY <1>1 DEF IInv, Typing
    <2>3. waiting' \in Owner \cup {Zero}
        BY <1>1 DEF IInv, Typing
    <2> QED BY <1>1, <1>10, <2>1, <2>2, <2>3 DEF IInv, Typing
  <1>12. PostedInOrder'
      BY <1>1 DEF IInv, PostedInOrder
  <1>13. Booting'
      BY <1>1, <1>2, <1>3, <1>4, <1>8, Distinct DEF IInv, Booting, Addr
  <1>14. OneWriter'
      BY <1>1, <1>2, <1>3, <1>4 DEF IInv, OneWriter, Addr
  <1>15. ASSUME NEW n, AllBelow(n) PROVE AllBelow(n)'
      BY <1>1, <1>7, <1>15, Distinct DEF AllBelow
  <1>16. \A i \in 1 .. Len(got') : got'[i].cmd.id < next
    <2>1. \A i \in 1 .. Len(got') : i \in 1 .. Len(got) \/ i = Len(got) + 1
        BY <1>10
    <2>2. r.cmd.id < next
        BY <1>2, <1>6 DEF IInv, IdsInOrder, AllBelow
    <2> QED BY <1>10, <2>1, <2>2 DEF IInv, IdsInOrder
  <1>17. IdsInOrder'
    <2>1. mem'["fromhost"] \notin Reply
        BY <1>3, Distinct DEF Addr
    <2> QED BY <1>1, <1>8, <1>15, <1>16, <2>1 DEF IInv, IdsInOrder, Handling
  <1>18. r.cmd.kind \in InMemory => /\ Handling => cmd.kind \notin InMemory
                                    /\ tohost \in Command => tohost.kind \notin InMemory
    <2>1. r.cmd.id \in Int
        BY <1>2 DEF Reply, Command, Id
    <2>2. Handling => r.cmd.id < cmd.id
        BY <1>2, <1>6 DEF IInv, IdsInOrder, AllBelow
    <2>3. tohost \in Command => r.cmd.id < tohost.id
        BY <1>2, <1>6 DEF IInv, IdsInOrder, AllBelow
    <2> QED BY <1>9, <2>1, <2>2, <2>3 DEF IInv, OneOwner
  <1>19. r.cmd.kind \notin InMemory => waiting' = waiting
      BY <1>1, <1>2, Distinct DEF IInv, Typing, Owner, Reply
  <1>20. OneOwner'
    <2>1. CASE r.cmd.kind \in InMemory
      <3>1. /\ \A i \in 1 .. Len(replies') : replies'[i].cmd.kind \notin InMemory
            /\ Handling' => cmd'.kind \notin InMemory
            /\ tohost' \in Command => tohost'.kind \notin InMemory
        <4>1. \A i \in 1 .. Len(replies') : replies'[i].cmd.kind \notin InMemory
            BY <1>1, <1>9, <2>1
        <4>2. Handling' => cmd'.kind \notin InMemory
            BY <1>1, <1>18, <2>1 DEF Handling
        <4>3. tohost' \in Command => tohost'.kind \notin InMemory
            BY <1>8, <1>18, <2>1
        <4> QED BY <4>1, <4>2, <4>3
      <3> QED BY <1>7, <3>1, Distinct DEF OneOwner
    <2>2. CASE r.cmd.kind \notin InMemory
        BY <1>1, <1>7, <1>8, <1>19, <2>2, Distinct DEF IInv, OneOwner, Handling
    <2> QED BY <2>1, <2>2
  <1>21. BufferHeld'
      BY <1>1, <1>7, <1>8, Distinct DEF IInv, BufferHeld, Handling, Args, Result
  <1>22. got' = Append(got, fromhost)
    <2>1. CASE r.cmd.kind \in InMemory
        BY <1>1, <1>2, <1>6, <1>9, <2>1 DEF g, Reply, Result
    <2>2. CASE r.cmd.kind \notin InMemory
        BY <1>1, <1>6, <2>2 DEF g
    <2> QED BY <2>1, <2>2
  <1> QED BY <1>2, <1>6, <1>7, <1>8, <1>22, <1>11, <1>12, <1>13, <1>14, <1>17, <1>20, <1>21 DEF IInv

----------------------------------------------------------------------------
\* ... and every step keeps it.
LEMMA StepIInv == IInv /\ [Next]_vars => IInv'
  <1> SUFFICES ASSUME IInv, [Next]_vars PROVE IInv'
      OBVIOUS
  <1>1. CASE UNCHANGED vars
    <2>1. UNCHANGED <<hpc, mem, posted, cmd, pending, replies, exitcode, signals, input, typed, next, waiting, got>>
        BY <1>1 DEF vars, host, target, terminal
    <2>2. \A a : Port!Coming(a)' = Port!Coming(a) /\ Bound(a)' = Bound(a)
        BY <2>1 DEF Port!Coming, Port!After, Port!To, Bound
    <2>3. \A n : AllBelow(n)' = AllBelow(n)
        BY <2>1, <2>2 DEF AllBelow, fromhost
    <2> QED BY <2>1, <2>2, <2>3 DEF IInv, Typing, PostedInOrder, Booting, OneWriter, IdsInOrder, OneOwner,
                               BufferHeld, Handling, tohost, fromhost, magic, Args, Result
  <1>2. CASE Alive /\ HostStep
    <2>1. Idle \/ Start \/ Clear \/ HandleGetc \/ HandleIdentify \/ Call \/ CallRead \/ TickGetc \/ Send
        BY <1>2 DEF HostStep, Idle
    <2> QED BY <2>1, IdleIInv, StartIInv, ClearIInv, GetcIInv, AnswerIInv, TickGetcIInv, SendIInv
  <1>3. CASE Type \/ Signal
      BY <1>3, IdleIInv DEF Idle
  <1> QED BY <1>1, <1>2, <1>3, LandIInv, IssueIInv, TakeIInv DEF Next

\* The inductive invariant holds throughout.
THEOREM HtifInvariant == Spec => []IInv
  <1> QED BY InitIInv, StepIInv, PTL DEF Spec

\* For any number of commands: the core executes only a program that is loaded, with empty
\* mailboxes (htif.cc: start, load_program, reset).
THEOREM BootsInOrder == Spec => []BootOrder
  <1>1. IInv => BootOrder
      BY DEF IInv, Booting, BootOrder, Running
  <1> QED BY <1>1, HtifInvariant, PTL

\* For any number and mix of commands: a reply is only seen once its command is out of
\* tohost and its result in the buffer, and the arguments that dispatch() reads are those
\* of its command (htif.cc: run; syscall.cc: dispatch; device.cc: handle_identify).
THEOREM CallsKeepTheirData == Spec => []CallDataKept
  <1>1. IInv => ReplyMeansDone
    <2> SUFFICES ASSUME IInv, Running, Held # Zero
                 PROVE  /\ mem["tohost"] # Held.cmd
                        /\ Held.cmd.kind \in InMemory => mem["magic"] = Result(Held.cmd, Held.val)
        BY DEF ReplyMeansDone
    <2>1. Held \in Reply /\ ~ Bound("fromhost")
        BY DEF Held, Running, IInv, Typing, Booting, OneWriter, Addr, ValAt
    <2>2. fromhost = Held
        BY <2>1, AfterNone DEF fromhost, Port!Coming, Bound, Held
    <2>3. mem["tohost"] # Held.cmd
        BY <2>1 DEF Held, IInv, IdsInOrder, Reply, Command, Id
    <2>4. ASSUME Held.cmd.kind \in InMemory PROVE mem["magic"] = Result(Held.cmd, Held.val)
      <3>1. ~ Bound("magic") /\ magic = Result(Held.cmd, Held.val)
          BY <2>1, <2>2, <2>4 DEF IInv, OneOwner, OneWriter, BufferHeld
      <3> QED BY <3>1, AfterNone DEF magic, Port!Coming, Bound
    <2> QED BY <2>3, <2>4
  <1>2. IInv => ArgumentsKept
    <2> SUFFICES ASSUME IInv, hpc = "handle", cmd.kind \in Proxied, posted = <<>>
                 PROVE  mem["magic"] = Args(cmd)
        BY DEF ArgumentsKept, Port!ReadReady
    <2>1. magic = Args(cmd)
        BY DEF IInv, BufferHeld, Handling
    <2>2. magic = mem["magic"]
        BY AfterNone DEF magic, Port!Coming
    <2> QED BY <2>1, <2>2
  <1> QED BY <1>1, <1>2, HtifInvariant, PTL DEF CallDataKept

----------------------------------------------------------------------------
\* What the mailboxes will hold.
LEMMA MailTyped == IInv => /\ fromhost \in Reply \cup {Zero, Garbage}
                           /\ tohost \in Command \cup {Zero, Garbage}
  <1> SUFFICES ASSUME IInv, NEW a \in {"fromhost", "tohost"}
               PROVE  Port!Coming(a) \in ValAt(a)
      BY DEF fromhost, tohost, ValAt
  <1>1. CASE Bound(a)
    <2>1. PICK i \in 1 .. Len(posted) : posted[i].addr = a
        BY <1>1 DEF Bound
    <2>2. posted[i] \in Sending /\ posted \in Seq(Sending) /\ OnePerAddress(posted)
        BY DEF IInv, Typing, PostedInOrder, OnePerAddress
    <2>3. Port!Coming(a) = posted[i].val
        BY <2>1, <2>2, AfterWrite DEF Port!Coming
    <2> QED BY <2>1, <2>2, <2>3 DEF Sending, ValAt
  <1>2. CASE ~ Bound(a)
    <2>1. Port!Coming(a) = mem[a]
        BY <1>2, AfterNone DEF Port!Coming, Bound
    <2> QED BY <2>1 DEF IInv, Typing, Addr
  <1> QED BY <1>1, <1>2

\* Nothing in flight is lost, doubled or overtaken; only a reply that is made is added.
LEMMA InFlightKept ==
  ASSUME IInv, Next
  PROVE  /\ InFlight \in Seq(Reply)
         /\ \/ UNCHANGED <<InFlight, input, typed>>
            \/ InFlight' = InFlight /\ input' = Append(input, typed + 1) /\ typed' = typed + 1
            \/ /\ \E r \in Reply : r.val = 0 /\ InFlight' = Append(InFlight, r)
               /\ UNCHANGED <<input, typed>>
            \/ /\ \E r \in Reply : r.val = Head(input) /\ InFlight' = Append(InFlight, r)
               /\ input # <<>> /\ input' = Tail(input) /\ UNCHANGED typed
  <1>1. /\ got \in Seq(Reply) /\ replies \in Seq(Reply) /\ replies \in Seq(OwedReply)
        /\ fromhost \in Reply \cup {Zero, Garbage}
      BY SeqMonotonic, MailTyped DEF IInv, Typing, OwedReply
  <1>2. /\ fromhost \in Reply => Mailed = <<fromhost>> /\ Mailed \in Seq(Reply)
        /\ fromhost \in {Zero, Garbage} => Mailed = <<>> /\ Mailed \in Seq(Reply)
        /\ fromhost' \in Reply => Mailed' = <<fromhost'>>
        /\ fromhost' \in {Zero, Garbage} => Mailed' = <<>>
      BY <1>1, Distinct DEF Mailed, fromhost
  <1>3. Mailed \in Seq(Reply)
      BY <1>1, <1>2
  <1>4. got \o Mailed \in Seq(Reply) /\ InFlight \in Seq(Reply)
      BY <1>1, <1>3, ConcatProperties DEF InFlight
  <1>5. ASSUME UNCHANGED <<got, replies, fromhost>> PROVE InFlight' = InFlight
      BY <1>1, <1>2, <1>5 DEF InFlight
  <1>6. ASSUME UNCHANGED <<got, fromhost>>, NEW r \in Reply, replies' = Append(replies, r)
        PROVE  InFlight' = Append(InFlight, r)
    <2>1. Mailed' = Mailed
        BY <1>1, <1>2, <1>6
    <2>2. <<r>> \in Seq(Reply)
        OBVIOUS
    <2>3. replies' = replies \o <<r>> /\ Append(InFlight, r) = InFlight \o <<r>>
        BY <1>1, <1>4, <1>6, AppendIsConcat
    <2> QED BY <1>1, <1>4, <1>6, <2>1, <2>2, <2>3, ConcatAssociative DEF InFlight
  <1>7. CASE Start
      BY <1>1, <1>2, <1>7, StartIInv DEF Start, InFlight, terminal, target
  <1>8. CASE Send
    <2>1. replies # <<>> /\ replies' = Tail(replies) /\ UNCHANGED <<got, input, typed>>
        BY <1>8 DEF Send, terminal, target, IInv, OneWriter, Host
    <2>2. /\ fromhost = Zero /\ fromhost' = Head(replies) /\ Head(replies) \in Reply
          /\ Tail(replies) \in Seq(Reply)
        BY <1>1, <1>8, <2>1, SendIInv, HeadTailProperties
    <2>3. replies = <<Head(replies)>> \o Tail(replies)
        BY <1>1, <2>1
    <2>4. InFlight = got \o replies /\ InFlight' = (got \o <<Head(replies)>>) \o Tail(replies)
        BY <1>1, <1>2, <2>1, <2>2, ConcatEmptySeq DEF InFlight
    <2>5. <<Head(replies)>> \in Seq(Reply)
        BY <2>2
    <2>6. (got \o <<Head(replies)>>) \o Tail(replies) = got \o (<<Head(replies)>> \o Tail(replies))
        BY <1>1, <2>2, <2>5, ConcatAssociative
    <2>7. InFlight' = InFlight
        BY <2>3, <2>4, <2>6
    <2> QED BY <1>4, <2>1, <2>7
  <1>9. CASE Take
    <2>1. /\ fromhost \in Reply /\ fromhost' = Zero /\ got' = Append(got, fromhost)
          /\ UNCHANGED <<replies, input, typed>>
        BY <1>9, TakeIInv DEF Take, terminal, host
    <2>2. got' = got \o <<fromhost>> /\ got' \in Seq(Reply)
        BY <1>1, <2>1, AppendIsConcat, AppendProperties
    <2>3. InFlight = got' \o replies /\ InFlight' = got' \o replies
        BY <1>1, <1>2, <2>1, <2>2, ConcatEmptySeq DEF InFlight
    <2> QED BY <1>4, <2>1, <2>3
  <1>10. CASE HandleIdentify \/ Call \/ CallRead
    <2>1. UNCHANGED <<got, fromhost, typed>> /\ cmd \in Command
        BY <1>10, AnswerIInv DEF HandleIdentify, Call, CallRead, Return, Host, terminal, target, IInv, IdsInOrder, Handling
    <2>2. PICK v \in Chars : /\ replies' = Append(replies, [cmd |-> cmd, val |-> v])
                             /\ \/ v = 0 /\ UNCHANGED input
                                \/ v = Head(input) /\ input # <<>> /\ input' = Tail(input)
      <3>1. 0 \in Chars /\ (input # <<>> => Head(input) \in Chars)
          BY HtifAssumption, HeadTailProperties DEF Chars, IInv, Typing
      <3> QED BY <1>10, <3>1 DEF HandleIdentify, Call, CallRead, Return, Respond, terminal
    <2>3. [cmd |-> cmd, val |-> v] \in Reply
        BY <2>1 DEF Reply
    <2>4. InFlight' = Append(InFlight, [cmd |-> cmd, val |-> v])
        BY <1>6, <2>1, <2>2, <2>3
    <2> QED BY <1>4, <2>1, <2>2, <2>3, <2>4
  <1>11. CASE TickGetc
    <2>1. UNCHANGED <<got, fromhost, typed>> /\ input # <<>> /\ pending # <<>> /\ input' = Tail(input)
        BY <1>11, TickGetcIInv DEF TickGetc, CanGetc, target
    <2>2. replies' = Append(replies, [cmd |-> Head(pending), val |-> Head(input)])
        BY <1>11 DEF TickGetc
    <2>3. Head(pending) \in Command /\ Head(input) \in Chars
        BY <2>1, HeadTailProperties DEF IInv, Typing, Getc
    <2>4. [cmd |-> Head(pending), val |-> Head(input)] \in Reply
        BY <2>3 DEF Reply
    <2>5. InFlight' = Append(InFlight, [cmd |-> Head(pending), val |-> Head(input)])
        BY <1>6, <2>1, <2>2, <2>4
    <2> QED BY <1>4, <2>1, <2>4, <2>5
  <1>12. CASE Type
    <2>1. /\ UNCHANGED <<got, replies, fromhost>>
          /\ input' = Append(input, typed + 1) /\ typed' = typed + 1
        BY <1>12, IdleIInv DEF Idle, Type, host, target
    <2> QED BY <1>4, <1>5, <2>1
  <1>13. CASE \/ Test \/ Poll \/ HandleExit \/ HandleSilent \/ Fetch \/ TickIdle \/ FlushNone
              \/ FlushRead \/ Stop \/ Signal
    <2>1. UNCHANGED <<got, replies, fromhost, input, typed>>
        BY <1>13, IdleIInv DEF Idle, Test, Poll, HandleExit, HandleSilent, Fetch, TickIdle,
             FlushNone, FlushRead, Stop, Signal, terminal, target, host
    <2> QED BY <1>4, <1>5, <2>1
  <1>14. CASE Clear \/ HandleGetc \/ Land
    <2>1. UNCHANGED <<got, replies, fromhost, input, typed>>
        BY <1>14, ClearIInv, GetcIInv, LandIInv DEF Clear, HandleGetc, Land, terminal, target, host
    <2> QED BY <1>4, <1>5, <2>1
  <1>15. CASE \E k \in Kinds : Issue(k)
    <2>1. UNCHANGED <<got, replies, fromhost, input, typed>>
        BY <1>15, IssueIInv DEF Issue, terminal, host
    <2> QED BY <1>4, <1>5, <2>1
  <1> QED BY <1>7, <1>8, <1>9, <1>10, <1>11, <1>12, <1>13, <1>14, <1>15 DEF Next, HostStep

\* No more is waiting to be read than was typed.
CharsInv == CharsOnce /\ Consumed \in Nat

\* A reply that carries a character carries the next one.
LEMMA CharsStep == IInv /\ CharsInv /\ Next => CharsInv'
  <1> SUFFICES ASSUME IInv, CharsOnce, Consumed \in Nat, Next PROVE CharsOnce' /\ Consumed' \in Nat
      BY DEF CharsInv
  <1>1. /\ input \in Seq(Chars) /\ Len(input) \in Nat /\ typed \in Nat
        /\ \A i \in 1 .. Len(input) : input[i] = Consumed + i
        /\ Consumed = typed - Len(input)
      BY LenProperties DEF IInv, Typing, CharsOnce, Consumed
  <1>2. /\ InFlight \in Seq(Reply) /\ Len(InFlight) \in Nat
        /\ \A i \in 1 .. Len(InFlight) : Carries(i) => InFlight[i].val \in 1 .. Consumed
        /\ \A k \in 1 .. Consumed : \E i \in 1 .. Len(InFlight) : InFlight[i].val = k
    <2>1. InFlight \in Seq(Reply)
        BY InFlightKept
    <2> QED BY <1>1, <2>1, LenProperties DEF CharsOnce, Carries
  <1>3. CASE UNCHANGED <<InFlight, input, typed>>
      BY <1>3 DEF CharsOnce, Consumed, Carries
  <1>4. CASE InFlight' = InFlight /\ input' = Append(input, typed + 1) /\ typed' = typed + 1
    <2>1. /\ typed + 1 \in Nat /\ Len(input') = Len(input) + 1 /\ Len(input)' = Len(input) + 1
          /\ \A i \in 1 .. Len(input) : input'[i] = input[i]
          /\ input'[Len(input) + 1] = typed + 1
        BY <1>1, <1>4, AppendProperties
    <2>2. Consumed' = Consumed
        BY <1>1, <1>4, <2>1 DEF Consumed
    <2>3. \A i \in 1 .. Len(input') : input'[i] = Consumed + i
        BY <1>1, <1>4, <2>1
    <2>4. input' \in Seq(Chars)
        BY StepIInv DEF IInv, Typing
    <2>5. input' = [i \in 1 .. Len(input)' |-> Consumed' + i]
        BY <2>2, <2>3, <2>4, LenProperties
    <2> QED BY <1>4, <2>2, <2>5 DEF CharsOnce, Carries
  <1>5. ASSUME NEW r \in Reply, InFlight' = Append(InFlight, r)
        PROVE  /\ Len(InFlight') = Len(InFlight) + 1 /\ InFlight'[Len(InFlight) + 1] = r
               /\ \A i \in 1 .. Len(InFlight) : InFlight'[i] = InFlight[i]
      BY <1>2, <1>5, AppendProperties
  <1>6. CASE /\ \E r \in Reply : r.val = 0 /\ InFlight' = Append(InFlight, r)
             /\ UNCHANGED <<input, typed>>
    <2>1. PICK r \in Reply : r.val = 0 /\ InFlight' = Append(InFlight, r)
        BY <1>6
    <2>2. UNCHANGED Consumed
        BY <1>6 DEF Consumed
    <2>3. /\ Len(InFlight') = Len(InFlight) + 1
          /\ InFlight'[Len(InFlight) + 1].val = 0
          /\ \A i \in 1 .. Len(InFlight) : InFlight'[i].val = InFlight[i].val
        BY <1>5, <2>1
    <2>4. {j \in 1 .. Len(InFlight') : Carries(j)'} = {j \in 1 .. Len(InFlight) : Carries(j)}
        BY <1>2, <2>3 DEF Carries
    <2>5. {InFlight'[i].val : i \in {j \in 1 .. Len(InFlight') : Carries(j)'}} = 1 .. Consumed'
        BY <2>2, <2>3, <2>4 DEF CharsOnce
    <2>6. \A i, j \in 1 .. Len(InFlight') :
            i < j /\ Carries(i)' /\ Carries(j)' => InFlight'[i].val < InFlight'[j].val
      <3>1. ASSUME NEW i \in 1 .. Len(InFlight'), Carries(i)'
            PROVE  i \in 1 .. Len(InFlight) /\ Carries(i) /\ InFlight'[i].val = InFlight[i].val
          BY <2>3, <2>4, <3>1
      <3> QED BY <3>1 DEF CharsOnce
    <2> QED BY <1>6, <2>2, <2>5, <2>6 DEF CharsOnce
  <1>7. CASE /\ \E r \in Reply : r.val = Head(input) /\ InFlight' = Append(InFlight, r)
             /\ input # <<>> /\ input' = Tail(input) /\ UNCHANGED typed
    <2>1. PICK r \in Reply : r.val = Head(input) /\ InFlight' = Append(InFlight, r)
        BY <1>7
    <2>2. /\ Len(input) \in Nat \ {0} /\ r.val = Consumed + 1
          /\ Len(input') = Len(input) - 1 /\ Consumed' = Consumed + 1
          /\ \A i \in 1 .. Len(input') : input'[i] = Consumed' + i
        BY <1>1, <1>7, <2>1, HeadTailProperties DEF Consumed
    <2>3. input' = [i \in 1 .. Len(input)' |-> Consumed' + i]
      <3>1. input' \in Seq(Chars)
          BY StepIInv DEF IInv, Typing
      <3> QED BY <2>2, <3>1, LenProperties
    <2>4. /\ Len(InFlight') = Len(InFlight) + 1
          /\ InFlight'[Len(InFlight) + 1].val = Consumed + 1
          /\ \A i \in 1 .. Len(InFlight) : InFlight'[i].val = InFlight[i].val
        BY <1>5, <2>1, <2>2
    <2>5. \A i \in 1 .. Len(InFlight) : InFlight[i].val \in 0 .. Consumed
        BY <1>2 DEF Carries
    <2>6. ASSUME NEW i \in 1 .. Len(InFlight'), Carries(i)' PROVE InFlight'[i].val \in 1 .. Consumed'
      <3>1. CASE i = Len(InFlight) + 1
          BY <2>2, <2>4, <3>1
      <3>2. CASE i \in 1 .. Len(InFlight)
          BY <2>2, <2>4, <2>5, <2>6, <3>2 DEF Carries
      <3> QED BY <1>2, <2>4, <3>1, <3>2
    <2>7. ASSUME NEW k \in 1 .. Consumed'
          PROVE  \E i \in 1 .. Len(InFlight') : Carries(i)' /\ InFlight'[i].val = k
      <3>1. CASE k \in 1 .. Consumed
        <4>1. PICK i \in 1 .. Len(InFlight) : InFlight[i].val = k
            BY <1>2, <3>1
        <4>2. i \in 1 .. Len(InFlight') /\ InFlight'[i].val = k /\ k # 0
            BY <1>2, <2>4, <2>7, <4>1
        <4> QED BY <4>2 DEF Carries
      <3>2. CASE k = Consumed + 1
        <4>1. Len(InFlight) + 1 \in 1 .. Len(InFlight') /\ k # 0
            BY <1>2, <2>4, <2>7
        <4> QED BY <2>4, <3>2, <4>1 DEF Carries
      <3> QED BY <2>2, <2>5, <2>7, <3>1, <3>2
    <2>8. {InFlight'[i].val : i \in {j \in 1 .. Len(InFlight') : Carries(j)'}} = 1 .. Consumed'
        BY <2>6, <2>7
    <2>9. ASSUME NEW i \in 1 .. Len(InFlight'), NEW j \in 1 .. Len(InFlight'),
                 i < j, Carries(i)', Carries(j)'
          PROVE  InFlight'[i].val < InFlight'[j].val
      <3>1. i \in 1 .. Len(InFlight) /\ Carries(i)
          BY <1>2, <2>4, <2>9 DEF Carries
      <3>2. CASE j = Len(InFlight) + 1
        <4>1. InFlight'[j].val = Consumed + 1 /\ InFlight'[i].val \in 0 .. Consumed
            BY <2>4, <2>5, <3>1, <3>2
        <4> QED BY <4>1
      <3>3. CASE j \in 1 .. Len(InFlight)
        <4>1. Carries(j)
            BY <2>4, <2>9, <3>3 DEF Carries
        <4>2. InFlight[i].val < InFlight[j].val
            BY <2>9, <3>1, <3>3, <4>1 DEF CharsOnce
        <4> QED BY <2>4, <3>1, <3>3, <4>2
      <3> QED BY <1>2, <2>4, <3>2, <3>3
    <2>10. Consumed' \in Nat
        BY <2>2
    <2> QED BY <2>3, <2>8, <2>9, <2>10 DEF CharsOnce
  <1> QED BY <1>3, <1>4, <1>6, <1>7, InFlightKept

\* For any number of characters and commands: what is typed reaches the program once each
\* and in order (term.cc, device.cc: bcd_t; syscall.cc: sys_read; htif.cc: the queues).
THEOREM CharsReachOnce == Spec => []CharsOnce
  <1>1. Init => CharsInv
    <2> SUFFICES ASSUME Init PROVE CharsInv
        OBVIOUS
    <2>1. Mailed = <<>>
        BY DEF Init, Mailed, Port!Coming, Port!After, Port!To, Addr
    <2>2. InFlight = <<>> /\ Consumed = 0 /\ Len(InFlight) = 0
      <3>1. <<>> \o <<>> \o <<>> = <<>>
          OBVIOUS
      <3>2. got = <<>> /\ replies = <<>> /\ typed = 0 /\ Len(input) = 0
          BY DEF Init
      <3> QED BY <2>1, <3>1, <3>2 DEF InFlight, Consumed
    <2> QED BY <2>2 DEF CharsInv, CharsOnce, Init
  <1>2. IInv /\ CharsInv /\ [Next]_vars => CharsInv'
    <2>1. UNCHANGED vars => UNCHANGED <<input, typed, got, replies, mem, posted>>
        BY DEF vars, host, target, terminal
    <2>2. UNCHANGED vars => UNCHANGED InFlight
      <3>1. UNCHANGED vars => Port!Coming("fromhost")' = Port!Coming("fromhost")
          BY <2>1 DEF Port!Coming, Port!After, Port!To
      <3>2. UNCHANGED vars => UNCHANGED Mailed
          BY <3>1 DEF Mailed
      <3> QED BY <2>1, <3>2 DEF InFlight
    <2>3. CharsInv /\ UNCHANGED vars => CharsInv'
        BY <2>1, <2>2 DEF CharsInv, CharsOnce, Consumed, Carries
    <2> QED BY <2>3, CharsStep
  <1>3. CharsInv => CharsOnce
      BY DEF CharsInv
  <1> QED BY <1>1, <1>2, <1>3, HtifInvariant, PTL DEF Spec

----------------------------------------------------------------------------
(* Htif implements HostService.                                            *)

IsGetc(i) == replies[i].cmd.kind = "getc"

\* bcd answers its reads in the order of the commands.
GetcsInOrder ==
  /\ \A i, j \in 1 .. Len(pending) : i < j => pending[i].id < pending[j].id
  /\ \A i, j \in 1 .. Len(replies) :
       i < j /\ IsGetc(i) /\ IsGetc(j) => replies[i].cmd.id < replies[j].cmd.id
  /\ \A i \in 1 .. Len(replies), j \in 1 .. Len(pending) :
       IsGetc(i) => replies[i].cmd.id < pending[j].id

\* From its test of exitcode until the command is handled, the host has not been told to end.
Ending == /\ exitcode \in BOOLEAN
          /\ hpc \in {"poll", "clear", "handle", "call"} => ~ exitcode

RInv == IInv /\ GetcsInOrder /\ Ending

\* The steps that add to or take from the queues.
Queueing == HandleGetc \/ HandleIdentify \/ Call \/ CallRead \/ TickGetc \/ Send

\* No other step touches the queues.
LEMMA NotQueueing ==
  Next /\ ~ Queueing => UNCHANGED <<pending, replies>>
  BY DEF Next, Queueing, HostStep, Start, Test, Poll, Clear, HandleExit, HandleSilent, Fetch, TickIdle,
         FlushNone, FlushRead, Stop, Land, Type, Signal, Issue, Take, host

\* What each of them does to the queues.
LEMMA Queues ==
  ASSUME IInv
  PROVE  /\ Len(pending) \in Nat /\ Len(replies) \in Nat
         /\ HandleGetc =>
              /\ UNCHANGED replies /\ Len(pending') = Len(pending) + 1
              /\ pending'[Len(pending) + 1] = cmd
              /\ \A i \in 1 .. Len(pending) : pending'[i] = pending[i]
         /\ HandleIdentify \/ Call \/ CallRead =>
              /\ UNCHANGED pending /\ Len(replies') = Len(replies) + 1
              /\ replies'[Len(replies) + 1].cmd = cmd
              /\ \A i \in 1 .. Len(replies) : replies'[i] = replies[i]
         /\ TickGetc =>
              /\ 1 \in 1 .. Len(pending)
              /\ Len(replies') = Len(replies) + 1 /\ Len(pending') = Len(pending) - 1
              /\ replies'[Len(replies) + 1].cmd = pending[1]
              /\ \A i \in 1 .. Len(replies) : replies'[i] = replies[i]
              /\ \A i \in 1 .. Len(pending') : pending'[i] = pending[i + 1]
         /\ Send =>
              /\ 1 \in 1 .. Len(replies) /\ Head(replies) = replies[1]
              /\ UNCHANGED pending /\ Len(replies') = Len(replies) - 1
              /\ \A i \in 1 .. Len(replies') : replies'[i] = replies[i + 1]
  <1>1. /\ pending \in Seq(Getc) /\ replies \in Seq(OwedReply) /\ input \in Seq(Chars)
        /\ Len(pending) \in Nat /\ Len(replies) \in Nat
      BY LenProperties DEF IInv, Typing
  <1>2. HandleGetc => pending' = Append(pending, cmd) /\ UNCHANGED replies /\ cmd \in Getc
      BY DEF HandleGetc, Host, IInv, IdsInOrder, Handling, Getc
  <1>3. ASSUME HandleIdentify \/ Call \/ CallRead
        PROVE  \E v : replies' = Append(replies, [cmd |-> cmd, val |-> v]) /\ UNCHANGED pending
      BY <1>3 DEF HandleIdentify, Call, CallRead, Return, Respond
  <1>4. ASSUME NEW v
        PROVE  LET q == Append(replies, [cmd |-> cmd, val |-> v])
               IN  /\ Len(q) = Len(replies) + 1 /\ q[Len(replies) + 1].cmd = cmd
                   /\ \A i \in 1 .. Len(replies) : q[i] = replies[i]
    <2>1. replies \in Seq(OwedReply \cup {[cmd |-> cmd, val |-> v]})
        BY <1>1, SeqMonotonic
    <2> QED BY <2>1, AppendProperties
  <1>5. TickGetc => /\ pending # <<>> /\ pending' = Tail(pending) /\ Head(pending) = pending[1]
                    /\ replies' = Append(replies, [cmd |-> pending[1], val |-> Head(input)])
                    /\ [cmd |-> pending[1], val |-> Head(input)] \in OwedReply
    <2>1. ASSUME TickGetc PROVE pending # <<>> /\ input # <<>>
        BY <2>1 DEF TickGetc, CanGetc
    <2>2. ASSUME TickGetc
          PROVE  Head(pending) = pending[1] /\ Head(pending) \in Getc /\ Head(input) \in Chars
        BY <1>1, <2>1, <2>2, HeadTailProperties
    <2> QED BY <2>1, <2>2 DEF TickGetc, OwedReply, Reply, Getc, Answered
  <1>6. Send => replies # <<>> /\ replies' = Tail(replies) /\ UNCHANGED pending
      BY DEF Send, Host, IInv, OneWriter
  <1>7. HandleIdentify \/ Call \/ CallRead =>
          /\ UNCHANGED pending /\ Len(replies') = Len(replies) + 1
          /\ replies'[Len(replies) + 1].cmd = cmd
          /\ \A i \in 1 .. Len(replies) : replies'[i] = replies[i]
      BY <1>3, <1>4
  <1>8. HandleGetc => /\ UNCHANGED replies /\ Len(pending') = Len(pending) + 1
                      /\ pending'[Len(pending) + 1] = cmd
                      /\ \A i \in 1 .. Len(pending) : pending'[i] = pending[i]
      BY <1>1, <1>2, AppendProperties
  <1>9. ASSUME TickGetc
        PROVE  /\ 1 \in 1 .. Len(pending)
               /\ Len(replies') = Len(replies) + 1 /\ Len(pending') = Len(pending) - 1
               /\ replies'[Len(replies) + 1].cmd = pending[1]
               /\ \A i \in 1 .. Len(replies) : replies'[i] = replies[i]
               /\ \A i \in 1 .. Len(pending') : pending'[i] = pending[i + 1]
    <2>1. /\ 1 \in 1 .. Len(pending) /\ Len(pending') = Len(pending) - 1
          /\ \A i \in 1 .. Len(pending') : pending'[i] = pending[i + 1]
      <3>1. pending # <<>> /\ pending' = Tail(pending)
          BY <1>5, <1>9
      <3>2. Len(pending) # 0
          BY <1>1, <3>1, EmptySeq
      <3> QED BY <1>1, <3>1, <3>2, HeadTailProperties
    <2>2. PICK r \in OwedReply : r.cmd = pending[1] /\ replies' = Append(replies, r)
        BY <1>5, <1>9
    <2>3. /\ Len(replies') = Len(replies) + 1 /\ replies'[Len(replies) + 1] = r
          /\ \A i \in 1 .. Len(replies) : replies'[i] = replies[i]
        BY <1>1, <2>2, AppendProperties
    <2> QED BY <2>1, <2>2, <2>3
  <1>10. Send => /\ 1 \in 1 .. Len(replies) /\ Head(replies) = replies[1]
                 /\ UNCHANGED pending /\ Len(replies') = Len(replies) - 1
                 /\ \A i \in 1 .. Len(replies') : replies'[i] = replies[i + 1]
    <2> SUFFICES ASSUME Send
                 PROVE  /\ 1 \in 1 .. Len(replies) /\ Head(replies) = replies[1]
                        /\ UNCHANGED pending /\ Len(replies') = Len(replies) - 1
                        /\ \A i \in 1 .. Len(replies') : replies'[i] = replies[i + 1]
        OBVIOUS
    <2>1. replies # <<>> /\ replies' = Tail(replies) /\ UNCHANGED pending
        BY <1>6
    <2>2. 1 \in 1 .. Len(replies)
        BY <1>1, <2>1, EmptySeq
    <2>3. /\ Head(replies) = replies[1] /\ Len(replies') = Len(replies) - 1
          /\ \A i \in 1 .. Len(replies') : replies'[i] = replies[i + 1]
        BY <1>1, <2>1, HeadTailProperties
    <2> QED BY <2>1, <2>2, <2>3
  <1> QED BY <1>1, <1>7, <1>8, <1>9, <1>10

\* A new getc is later than every reply and every pending one; they move in order.
LEMMA GetcsStep == IInv /\ GetcsInOrder /\ Next => GetcsInOrder'
  <1> SUFFICES ASSUME IInv, GetcsInOrder, Next PROVE GetcsInOrder'
      OBVIOUS
  <1>1. Len(pending) \in Nat /\ Len(replies) \in Nat
      BY Queues
  <1>2. CASE ~ Queueing
      BY <1>2, NotQueueing DEF GetcsInOrder, IsGetc
  <1>3. CASE HandleGetc
    <2>1. /\ \A i \in 1 .. Len(pending) : pending[i].id < cmd.id
          /\ \A i \in 1 .. Len(replies) : replies[i].cmd.id < cmd.id
        BY <1>3 DEF HandleGetc, Host, IInv, IdsInOrder, Handling, AllBelow
    <2> QED BY <1>1, <1>3, <2>1, Queues DEF GetcsInOrder, IsGetc
  <1>4. CASE HandleIdentify \/ Call \/ CallRead
    <2>1. cmd.kind # "getc"
        BY <1>4 DEF HandleIdentify, Call, CallRead
    <2>2. /\ UNCHANGED pending
          /\ \A i \in 1 .. Len(replies') : IsGetc(i)' =>
                i \in 1 .. Len(replies) /\ replies'[i] = replies[i] /\ IsGetc(i)
        BY <1>1, <1>4, <2>1, Queues DEF IsGetc
    <2> QED BY <2>2 DEF GetcsInOrder
  <1>5. CASE TickGetc
    <2>1. \A i \in 1 .. Len(pending') : pending'[i] = pending[i + 1] /\ i + 1 \in 2 .. Len(pending)
        BY <1>1, <1>5, Queues
    <2>2. ASSUME NEW i \in 1 .. Len(pending'), NEW j \in 1 .. Len(pending'), i < j
          PROVE  pending'[i].id < pending'[j].id
      <3>1. i + 1 \in 1 .. Len(pending) /\ j + 1 \in 1 .. Len(pending) /\ i + 1 < j + 1
          BY <1>1, <2>1, <2>2
      <3> QED BY <2>1, <3>1 DEF GetcsInOrder
    <2>3. ASSUME NEW i \in 1 .. Len(replies'), NEW j \in 1 .. Len(replies'), i < j, IsGetc(i)', IsGetc(j)'
          PROVE  replies'[i].cmd.id < replies'[j].cmd.id
      <3>1. i \in 1 .. Len(replies) /\ replies'[i] = replies[i]
          BY <1>1, <1>5, <2>3, Queues
      <3>2. CASE j \in 1 .. Len(replies)
        <4>1. replies'[j] = replies[j]
            BY <1>5, <3>2, Queues
        <4> QED BY <2>3, <3>1, <3>2, <4>1 DEF GetcsInOrder, IsGetc
      <3>3. CASE j = Len(replies) + 1
        <4>1. replies'[j].cmd = pending[1] /\ 1 \in 1 .. Len(pending)
            BY <1>5, <3>3, Queues
        <4> QED BY <2>3, <3>1, <4>1 DEF GetcsInOrder, IsGetc
      <3> QED BY <1>1, <1>5, <3>2, <3>3, Queues
    <2>4. ASSUME NEW i \in 1 .. Len(replies'), NEW j \in 1 .. Len(pending'), IsGetc(i)'
          PROVE  replies'[i].cmd.id < pending'[j].id
        BY <1>1, <1>5, <2>1, <2>4, Queues DEF GetcsInOrder, IsGetc
    <2> QED BY <2>2, <2>3, <2>4 DEF GetcsInOrder
  <1>6. CASE Send
    <2>1. /\ UNCHANGED pending
          /\ \A i \in 1 .. Len(replies') : replies'[i] = replies[i + 1] /\ i + 1 \in 1 .. Len(replies)
        BY <1>1, <1>6, Queues
    <2>2. \A i \in 1 .. Len(replies') : IsGetc(i)' => IsGetc(i + 1)
        BY <2>1 DEF IsGetc
    <2>3. ASSUME NEW i \in 1 .. Len(replies'), NEW j \in 1 .. Len(replies'), i < j, IsGetc(i)', IsGetc(j)'
          PROVE  replies'[i].cmd.id < replies'[j].cmd.id
      <3>1. /\ i + 1 \in 1 .. Len(replies) /\ j + 1 \in 1 .. Len(replies) /\ i + 1 < j + 1
            /\ IsGetc(i + 1) /\ IsGetc(j + 1)
          BY <1>1, <2>1, <2>2, <2>3
      <3>2. replies[i + 1].cmd.id < replies[j + 1].cmd.id
          BY <3>1 DEF GetcsInOrder
      <3> QED BY <2>1, <3>2
    <2> QED BY <2>1, <2>2, <2>3 DEF GetcsInOrder
  <1> QED BY <1>2, <1>3, <1>4, <1>5, <1>6 DEF Queueing

\* Only a handler sets exitcode, and it leaves for the tick.
LEMMA EndingStep == IInv /\ Ending /\ Next => Ending'
  <1> SUFFICES ASSUME IInv, Ending, Next PROVE Ending'
      OBVIOUS
  <1>1. \/ exitcode' = exitcode
        \/ hpc' = "tick" /\ exitcode' = TRUE
        \/ hpc' = "tick" /\ exitcode' = (exitcode \/ cmd.kind = "sysexit")
      BY DEF Next, HostStep, Start, Test, Poll, Clear, HandleExit, HandleSilent, HandleGetc,
         HandleIdentify, Fetch, Call, CallRead, Return, TickGetc, TickIdle, FlushNone, FlushRead, Send, Stop,
         Land, Type, Signal, Issue, Take, Host, host
  <1>2. hpc' \in {"poll", "clear", "handle", "call"} =>
          \/ hpc \in {"poll", "clear", "handle", "call"}
          \/ ~ exitcode
    <2>1. CASE hpc' = hpc
        BY <2>1
    <2>2. CASE \/ Test \/ Poll \/ Clear \/ HandleExit \/ HandleSilent \/ HandleGetc \/ HandleIdentify
               \/ Fetch \/ Call \/ CallRead
        BY <2>2 DEF Test, Poll, Clear, HandleExit, HandleSilent, HandleGetc, HandleIdentify, Fetch, Call,
                    CallRead, Return, Host
    <2>3. CASE Start \/ TickGetc \/ TickIdle \/ FlushNone \/ FlushRead \/ Send \/ Stop
        BY <2>3 DEF Start, TickGetc, TickIdle, FlushNone, FlushRead, Send, Stop, Host
    <2>4. CASE Land \/ Type \/ Signal \/ (\E k \in Kinds : Issue(k)) \/ Take
        BY <2>4 DEF Land, Type, Signal, Issue, Take, host
    <2> QED BY <2>1, <2>2, <2>3, <2>4 DEF Next, HostStep
  <1>3. exitcode' \in BOOLEAN
      BY <1>1 DEF Ending
  <1>4. ASSUME hpc' \in {"poll", "clear", "handle", "call"} PROVE ~ exitcode'
    <2>1. exitcode' = exitcode /\ ~ exitcode
        BY <1>1, <1>2, <1>4 DEF Ending
    <2> QED BY <2>1
  <1> QED BY <1>3, <1>4 DEF Ending

----------------------------------------------------------------------------
\* The mailboxes as the program sees them.
Mailboxes == /\ Request = IF tohost \in Command THEN tohost ELSE Zero
             /\ TheReply = IF fromhost \in Reply THEN fromhost.cmd ELSE Zero

\* A mailbox that holds no message looks empty.
LEMMA MailboxesAre == IInv => Mailboxes
  <1> SUFFICES ASSUME IInv PROVE Mailboxes
      OBVIOUS
  <1>1. Request = IF tohost \in Command THEN tohost ELSE Zero
      BY MailTyped, Distinct DEF Request, tohost
  <1>2. TheReply = IF fromhost \in Reply THEN fromhost.cmd ELSE Zero
    <2>1. CASE fromhost \in Reply
      <3>1. Mailed = <<fromhost>> /\ Mailed # <<>>
          BY <2>1, Distinct DEF Mailed, fromhost
      <3> QED BY <2>1, <3>1 DEF TheReply
    <2>2. CASE fromhost \in {Zero, Garbage}
      <3>1. Mailed = <<>>
          BY <2>2 DEF Mailed, fromhost
      <3> QED BY <2>2, <3>1, Distinct DEF TheReply
    <2> QED BY <2>1, <2>2, MailTyped
  <1> QED BY <1>1, <1>2 DEF Mailboxes

\* A write that lands does not show.
LEMMA MailboxesStay ==
  ASSUME IInv, Next
  PROVE  /\ Mailboxes /\ Mailboxes' /\ Zero \notin Command /\ \A r \in Reply : r.cmd \in Command
         /\ UNCHANGED tohost => UNCHANGED Request
         /\ UNCHANGED fromhost => UNCHANGED TheReply
  <1>1. IInv'
      BY StepIInv
  <1>2. IInv' => Mailboxes'
      BY MailboxesAre, PTL
  <1> QED BY <1>1, <1>2, MailboxesAre, Distinct DEF Mailboxes, Reply

\* Handlers and devices move a command between what counts as due.
LEMMA MoveSim ==
  ASSUME RInv, Next,
         HandleExit \/ HandleSilent \/ HandleGetc \/ HandleIdentify \/ Call \/ CallRead \/ TickGetc
  PROVE  UNCHANGED Service!svars
  <1>1. UNCHANGED <<Request, TheReply>>
    <2>1. UNCHANGED <<tohost, fromhost>>
        BY IdleIInv, GetcIInv, AnswerIInv, TickGetcIInv DEF RInv, Idle
    <2> QED BY <2>1, MailboxesStay DEF RInv
  <1>2. UNCHANGED Taken
      BY DEF Taken, HandleExit, HandleSilent, HandleGetc, HandleIdentify, Call, CallRead, TickGetc, target
  <1>3. /\ (hpc \in {"handle", "call"} /\ hpc' = "tick") \/ (hpc = "tick" /\ hpc' = "flush")
        /\ UNCHANGED <<cmd, signals>>
      BY DEF HandleExit, HandleSilent, HandleGetc, HandleIdentify, Call, CallRead, Return, TickGetc, Host
  <1>4. UNCHANGED Over
    <2>1. CASE HandleExit \/ Call
      <3>1. hpc \in {"handle", "call"} /\ hpc' = "tick" /\ UNCHANGED <<cmd, signals>>
          BY <1>3, <2>1 DEF HandleExit, Call, Return, Host
      <3>2. exitcode = FALSE
          BY <3>1 DEF RInv, Ending
      <3>3. exitcode' <=> cmd.kind \in Exits
          BY <2>1, <3>2 DEF HandleExit, Call, Exits
      <3>4. Over' <=> Over
          BY <3>1, <3>2, <3>3 DEF Over, Handling, Alive
      <3> QED BY <3>4 DEF Over
    <2>2. CASE TickGetc
        BY <1>3, <2>2 DEF Over, Handling, Alive, TickGetc, Host
    <2>3. CASE HandleSilent \/ HandleGetc \/ HandleIdentify \/ CallRead
        BY <1>3, <2>3 DEF RInv, Ending, Over, Handling, Alive, HandleSilent, HandleGetc, HandleIdentify, CallRead,
                          Exits
    <2> QED BY <2>1, <2>2, <2>3
  <1>5. Len(pending) \in Nat /\ Len(replies) \in Nat
      BY Queues DEF RInv
  <1>6. UNCHANGED Due
    <2>1. CASE HandleExit \/ HandleSilent
        BY <1>3, <2>1 DEF Due, Handling, HandleExit, HandleSilent, Answered
    <2>2. CASE HandleGetc
      <3>1. /\ Handling /\ ~ Handling' /\ cmd.kind \in Answered
            /\ UNCHANGED replies /\ Len(pending') = Len(pending) + 1
            /\ pending'[Len(pending) + 1] = cmd
            /\ \A i \in 1 .. Len(pending) : pending'[i] = pending[i]
          BY <2>2, Queues DEF RInv, HandleGetc, Host, Handling, Answered
      <3>2. {pending'[i] : i \in 1 .. Len(pending')} = {pending[i] : i \in 1 .. Len(pending)} \cup {cmd}
          BY <1>5, <3>1
      <3> QED BY <3>1, <3>2 DEF Due
    <2>3. CASE HandleIdentify \/ Call \/ CallRead
      <3>1. /\ Handling /\ ~ Handling' /\ cmd.kind \in Answered
            /\ UNCHANGED pending /\ Len(replies') = Len(replies) + 1
            /\ replies'[Len(replies) + 1].cmd = cmd
            /\ \A i \in 1 .. Len(replies) : replies'[i] = replies[i]
          BY <2>3, Queues DEF RInv, HandleIdentify, Call, CallRead, Return, Host, Handling, Answered
      <3>2. {replies'[i].cmd : i \in 1 .. Len(replies')} = {replies[i].cmd : i \in 1 .. Len(replies)} \cup {cmd}
          BY <1>5, <3>1
      <3> QED BY <3>1, <3>2 DEF Due
    <2>4. CASE TickGetc
      <3>1. /\ ~ Handling /\ ~ Handling'
            /\ 1 \in 1 .. Len(pending)
            /\ Len(replies') = Len(replies) + 1 /\ Len(pending') = Len(pending) - 1
            /\ replies'[Len(replies) + 1].cmd = pending[1]
            /\ \A i \in 1 .. Len(replies) : replies'[i] = replies[i]
            /\ \A i \in 1 .. Len(pending') : pending'[i] = pending[i + 1]
          BY <2>4, Queues DEF RInv, TickGetc, Host, Handling
      <3>2. {replies'[i].cmd : i \in 1 .. Len(replies')}
              = {replies[i].cmd : i \in 1 .. Len(replies)} \cup {pending[1]}
          BY <1>5, <3>1
      <3>3. {pending[i] : i \in 1 .. Len(pending)} = {pending'[i] : i \in 1 .. Len(pending')} \cup {pending[1]}
        <4>1. \A i \in 1 .. Len(pending) : i = 1 \/ (i - 1 \in 1 .. Len(pending') /\ pending[i] = pending'[i - 1])
            BY <1>5, <3>1
        <4>2. \A i \in 1 .. Len(pending') : i + 1 \in 1 .. Len(pending)
            BY <1>5, <3>1
        <4>3. \A i \in 1 .. Len(pending) :
                pending[i] \in {pending'[j] : j \in 1 .. Len(pending')} \cup {pending[1]}
            BY <4>1
        <4>4. \A i \in 1 .. Len(pending') : pending'[i] \in {pending[j] : j \in 1 .. Len(pending)}
            BY <3>1, <4>2
        <4> QED BY <3>1, <4>3, <4>4
      <3> QED BY <3>1, <3>2, <3>3 DEF Due
    <2> QED BY <2>1, <2>2, <2>3, <2>4
  <1> QED BY <1>1, <1>2, <1>4, <1>6 DEF Service!svars

\* Accept.
LEMMA ClearSim ==
  ASSUME RInv, Next, Alive, Clear
  PROVE  Service!Accept
  <1>1. /\ hpc = "clear" /\ hpc' = "handle" /\ tohost = cmd /\ tohost \in Command /\ tohost' = Zero
        /\ UNCHANGED <<cmd, exitcode, signals, got, pending, replies, fromhost>>
      BY ClearIInv DEF Clear, Host, target, RInv, IInv, IdsInOrder
  <1>2. Request = cmd /\ Request # Zero /\ Request' = Zero /\ UNCHANGED TheReply
      BY <1>1, MailboxesStay DEF RInv, Mailboxes
  <1>3. Due' = IF cmd.kind \in Answered THEN Due \cup {cmd} ELSE Due
      BY <1>1 DEF Due, Handling
  <1>4. ~ Over /\ Over' = (cmd.kind \in Exits)
    <2>1. exitcode = FALSE /\ exitcode' = FALSE
        BY <1>1 DEF RInv, Ending
    <2>2. ~ Over
        BY <1>1, <2>1 DEF Over, Handling
    <2>3. Over' <=> cmd.kind \in Exits
        BY <1>1, <2>1 DEF Over, Alive, Handling
    <2>4. Over' \in BOOLEAN
        BY DEF Over
    <2> QED BY <2>2, <2>3, <2>4
  <1>5. UNCHANGED Taken
      BY <1>1 DEF Taken
  <1> QED BY <1>2, <1>3, <1>4, <1>5 DEF Service!Accept, Service!Answered, Answered, Service!Exits, Exits

\* Answer: the reply that is sent is the first of its channel, and there is no other to
\* its command.
LEMMA SendSim ==
  ASSUME RInv, Next, Send
  PROVE  \E c \in Command : Service!Answer(c)
  <1> DEFINE c == replies[1].cmd
  <1>1. /\ hpc = "send" /\ hpc' = "test" /\ fromhost = Zero /\ fromhost' = replies[1] /\ tohost' = tohost
        /\ UNCHANGED <<cmd, exitcode, signals, got, pending>>
        /\ Len(replies) \in Nat /\ 1 \in 1 .. Len(replies) /\ Len(replies') = Len(replies) - 1
        /\ \A i \in 1 .. Len(replies') : replies'[i] = replies[i + 1]
      BY SendIInv, Queues DEF Send, Host, target, RInv
  <1>2. /\ replies[1] \in Reply /\ c \in Command /\ c.kind \in Answered
        /\ \A i \in 1 .. Len(replies) : replies[i].cmd \in Command /\ replies[i].cmd.kind \in Answered
        /\ \A i \in 1 .. Len(pending) : pending[i] \in Command /\ pending[i].kind = "getc"
      BY <1>1 DEF RInv, IInv, Typing, OwedReply, Reply, Getc
  <1>3. TheReply = Zero /\ TheReply' = c /\ UNCHANGED Request
      BY <1>1, <1>2, MailboxesStay, Distinct DEF RInv, Mailboxes
  <1>4. UNCHANGED <<Taken, Over>>
      BY <1>1 DEF Taken, Over, Handling, Alive
  <1>5. Due = {pending[i] : i \in 1 .. Len(pending)} \cup {replies[i].cmd : i \in 1 .. Len(replies)}
      BY <1>1 DEF Due, Handling
  <1>6. Due' = {pending[i] : i \in 1 .. Len(pending)} \cup {replies[i].cmd : i \in 2 .. Len(replies)}
    <2>1. \A i \in 1 .. Len(replies') : i + 1 \in 2 .. Len(replies)
        BY <1>1
    <2>2. \A i \in 2 .. Len(replies) : i - 1 \in 1 .. Len(replies') /\ replies'[i - 1] = replies[i]
        BY <1>1
    <2>3. {replies'[i].cmd : i \in 1 .. Len(replies')} = {replies[i].cmd : i \in 2 .. Len(replies)}
        BY <1>1, <2>1, <2>2
    <2> QED BY <1>1, <2>3 DEF Due, Handling
  <1>7. ASSUME NEW d \in Due, Channel(d) = Channel(c)
        PROVE  \/ c.id < d.id
               \/ d = c /\ d = replies[1].cmd
    <2>1. CASE c.kind \in InMemory
      <3>1. d.kind = c.kind \/ d.kind \in InMemory
          BY <1>2, <1>5, <1>7, <2>1 DEF Channel, InMemory, Proxied, Answered
      <3>2. d.kind \in InMemory
          BY <2>1, <3>1
      <3>3. PICK i \in 1 .. Len(replies) : d = replies[i].cmd
          BY <1>2, <1>5, <3>2 DEF InMemory
      <3> QED BY <1>1, <2>1, <3>2, <3>3 DEF RInv, IInv, OneOwner
    <2>2. CASE c.kind = "getc"
      <3>1. d.kind = "getc"
          BY <1>2, <1>5, <1>7, <2>2 DEF Channel, Proxied, Answered
      <3>2. CASE \E i \in 1 .. Len(pending) : d = pending[i]
          BY <1>1, <2>2, <3>2 DEF RInv, GetcsInOrder, IsGetc
      <3>3. CASE \E i \in 1 .. Len(replies) : d = replies[i].cmd
        <4>1. PICK i \in 1 .. Len(replies) : d = replies[i].cmd
            BY <3>3
        <4>2. CASE i = 1
            BY <4>1, <4>2
        <4>3. CASE 1 < i
            BY <1>1, <2>2, <3>1, <4>1, <4>3 DEF RInv, GetcsInOrder, IsGetc
        <4> QED BY <1>1, <4>2, <4>3
      <3> QED BY <1>5, <3>2, <3>3
    <2> QED BY <1>2, <2>1, <2>2 DEF InMemory, Answered
  <1>8. c.id \in Int /\ \A d \in Due : Channel(d) = Channel(c) => c.id <= d.id
    <2>1. c.id \in Int /\ \A d \in Due : d.id \in Int
        BY <1>2, <1>5 DEF Command, Id
    <2> QED BY <1>7, <2>1
  <1>9. c \in Due /\ Due' = Due \ {c}
    <2>1. \A i \in 1 .. Len(pending) : pending[i] # c
        BY <1>1, <1>2 DEF RInv, GetcsInOrder, IsGetc, Command, Id
    <2>2. \A i \in 2 .. Len(replies) : replies[i].cmd # c
      <3> SUFFICES ASSUME NEW i \in 2 .. Len(replies), replies[i].cmd = c PROVE FALSE
          OBVIOUS
      <3>1. i \in 1 .. Len(replies) /\ 1 < i
          BY <1>1
      <3>2. CASE c.kind \in InMemory
          BY <1>1, <3>1, <3>2 DEF RInv, IInv, OneOwner
      <3>3. CASE c.kind = "getc"
          BY <1>1, <1>8, <3>1, <3>3 DEF RInv, GetcsInOrder, IsGetc
      <3> QED BY <1>2, <3>2, <3>3 DEF InMemory, Answered
    <2>3. \A i \in 1 .. Len(replies) : i = 1 \/ i \in 2 .. Len(replies)
        BY <1>1
    <2>4. \A i \in 2 .. Len(replies) : i \in 1 .. Len(replies)
        BY <1>1
    <2> QED BY <1>1, <1>5, <1>6, <2>1, <2>2, <2>3, <2>4
  <1> HIDE DEF c
  <1>10. Service!Answer(c)
      BY <1>3, <1>4, <1>8, <1>9 DEF Service!Answer, Service!Channel, Channel, Service!Proxied, Proxied
  <1> QED BY <1>2, <1>10

\* Issue: the command is later than all that the host knows of.
LEMMA IssueSim ==
  ASSUME RInv, Next, NEW k \in Kinds, Issue(k)
  PROVE  \E c \in Command : Service!Issue(c)
  <1> DEFINE c == [kind |-> k, id |-> next]
  <1>1. /\ next <= MaxCmds /\ tohost = Zero /\ tohost' = c /\ fromhost' = fromhost
        /\ UNCHANGED <<hpc, cmd, exitcode, signals, got, pending, replies>>
      BY IssueIInv DEF Issue, host, RInv
  <1>2. c \in Command /\ c.id = next
      BY <1>1, CommandsAssumption DEF Command, Id, RInv, IInv, Typing
  <1> HIDE DEF c
  <1>3. Request = Zero /\ Request' = c /\ UNCHANGED TheReply
      BY <1>1, <1>2, MailboxesStay DEF RInv, Mailboxes
  <1>4. UNCHANGED <<Due, Taken, Over>>
      BY <1>1 DEF Due, Taken, Over, Handling, Alive
  <1>5. \A d \in Due \cup Taken : d.id < c.id
      BY <1>2 DEF Due, Taken, RInv, IInv, IdsInOrder, AllBelow
  <1>6. TheReply # Zero => TheReply.id < c.id
      BY <1>2, MailboxesStay DEF RInv, IInv, IdsInOrder, AllBelow, Mailboxes
  <1> QED BY <1>2, <1>3, <1>4, <1>5, <1>6 DEF Service!Issue

\* Take: the program takes what the host sent.
LEMMA TakeSim ==
  ASSUME RInv, Next, Take
  PROVE  Service!Take
  <1>1. /\ fromhost \in Reply /\ fromhost' = Zero /\ got' = Append(got, fromhost) /\ tohost' = tohost
        /\ UNCHANGED <<hpc, cmd, exitcode, signals, pending, replies>>
      BY TakeIInv DEF Take, host, RInv
  <1>2. TheReply = fromhost.cmd /\ TheReply # Zero /\ TheReply' = Zero /\ UNCHANGED Request
      BY <1>1, MailboxesStay, Distinct DEF RInv, Mailboxes
  <1>3. UNCHANGED <<Due, Over>>
      BY <1>1 DEF Due, Over, Handling, Alive
  <1>4. Taken' = Taken \cup {fromhost.cmd}
    <2>1. /\ Len(got') = Len(got) + 1 /\ Len(got) \in Nat /\ got'[Len(got) + 1] = fromhost
          /\ \A i \in 1 .. Len(got) : got'[i] = got[i]
        BY <1>1, AppendProperties, LenProperties DEF RInv, IInv, Typing
    <2> QED BY <2>1 DEF Taken
  <1> QED BY <1>2, <1>3, <1>4 DEF Service!Take

\* The other steps of the host, and of the user, are Stop or nothing.
LEMMA QuietSim ==
  ASSUME RInv, Next, \/ Start \/ Test \/ Poll \/ Fetch \/ TickIdle \/ FlushNone \/ FlushRead \/ Stop
                     \/ Land \/ Type \/ Signal
  PROVE  Service!Stop \/ UNCHANGED Service!svars
  <1>1. UNCHANGED <<Request, TheReply>>
    <2>1. CASE Start
        BY <2>1, StartIInv, MailboxesStay, Distinct DEF RInv, Mailboxes
    <2>2. CASE ~ Start
      <3>1. UNCHANGED <<tohost, fromhost>>
          BY <2>2, IdleIInv, LandIInv DEF RInv, Idle
      <3> QED BY <3>1, MailboxesStay DEF RInv
    <2> QED BY <2>1, <2>2
  <1>2. UNCHANGED <<got, pending, replies, exitcode>>
      BY DEF Start, Test, Poll, Fetch, TickIdle, FlushNone, FlushRead, Stop, Land, Type, Signal, host, target
  <1>3. /\ Handling' <=> Handling
        /\ Handling => cmd' = cmd
      BY DEF Start, Test, Poll, Fetch, TickIdle, FlushNone, FlushRead, Stop, Land, Type, Signal, host, Host,
             Handling
  <1>4. UNCHANGED <<Due, Taken>>
      BY <1>2, <1>3 DEF Due, Taken
  <1>5. Over' = Over \/ Over' = TRUE
    <2>1. CASE Signal
        BY <1>2, <1>3, <2>1 DEF Signal, host, Over, Alive, Next
    <2>2. CASE ~ Signal
      <3>1. UNCHANGED signals
          BY <2>2 DEF Start, Test, Poll, Fetch, TickIdle, FlushNone, FlushRead, Stop, Land, Type
      <3>2. hpc \in {"stop", "stopped"} => hpc' \in {"stop", "stopped"}
          BY DEF Start, Test, Poll, Fetch, TickIdle, FlushNone, FlushRead, Stop, Land, Type, Signal, host, Host
      <3> QED BY <1>2, <1>3, <3>1, <3>2 DEF Over, Alive
    <2> QED BY <2>1, <2>2
  <1> QED BY <1>1, <1>4, <1>5 DEF Service!Stop, Service!svars

\* Each step of the host and of the program is one of the service, or none.
LEMMA Simulation == RInv /\ [Next]_vars => [Service!Next]_(Service!svars)
  <1> SUFFICES ASSUME RInv, [Next]_vars PROVE Service!Next \/ UNCHANGED Service!svars
      OBVIOUS
  <1>1. CASE UNCHANGED vars
    <2>1. UNCHANGED <<hpc, mem, posted, cmd, pending, replies, exitcode, signals, got>>
        BY <1>1 DEF vars, host, target
    <2>2. \A a : Port!Coming(a)' = Port!Coming(a)
        BY <2>1 DEF Port!Coming, Port!After, Port!To
    <2>3. UNCHANGED <<Mailed, Request>>
        BY <2>2 DEF Mailed, Request
    <2>4. UNCHANGED TheReply
        BY <2>3 DEF TheReply
    <2> QED BY <2>1, <2>3, <2>4 DEF Service!svars, Due, Taken, Over, Handling, Alive
  <1>2. CASE Next
    <2>1. CASE Clear /\ Alive
        BY <1>2, <2>1, ClearSim DEF Service!Next
    <2>2. CASE Send
        BY <1>2, <2>2, SendSim DEF Service!Next, Service!Command, Service!Id, Command, Id
    <2>3. CASE \E k \in Kinds : Issue(k)
        BY <1>2, <2>3, IssueSim DEF Service!Next, Service!Command, Service!Id, Command, Id
    <2>4. CASE Take
        BY <1>2, <2>4, TakeSim DEF Service!Next
    <2>5. CASE \/ HandleExit \/ HandleSilent \/ HandleGetc \/ HandleIdentify \/ Call \/ CallRead \/ TickGetc
        BY <1>2, <2>5, MoveSim
    <2>6. CASE \/ Start \/ Test \/ Poll \/ Fetch \/ TickIdle \/ FlushNone \/ FlushRead \/ Stop
               \/ Land \/ Type \/ Signal
        BY <1>2, <2>6, QuietSim DEF Service!Next
    <2> QED BY <1>2, <2>1, <2>2, <2>3, <2>4, <2>5, <2>6 DEF Next, HostStep
  <1> QED BY <1>1, <1>2

\* For any number and mix of commands, the host serves as it promises: every command is accepted
\* once and in order, answered at most once and in order on its channel, its reply stays in
\* fromhost until it is taken, and nothing is accepted after an exit (htif.cc: run;
\* device.cc; syscall.cc).
THEOREM HtifImplementsService == Spec => ImplementsService
  <1>1. Init => Service!Init
    <2> SUFFICES ASSUME Init PROVE Service!Init
        OBVIOUS
    <2>1. \A a \in Addr : Port!Coming(a) = Garbage
        BY DEF Init, Port!Coming, Port!After, Port!To
    <2>2. Request = Zero /\ TheReply = Zero
        BY <2>1 DEF Request, TheReply, Mailed, Addr
    <2>3. Due = {} /\ Taken = {}
        BY DEF Due, Taken, Init, Handling
    <2>4. Over = FALSE
        BY DEF Over, Init, Handling, Alive
    <2> QED BY <2>2, <2>3, <2>4 DEF Service!Init
  <1>2. Init => GetcsInOrder /\ Ending
    <2>1. Init => Len(pending) = 0 /\ Len(replies) = 0 /\ exitcode = FALSE /\ hpc = "start"
        BY DEF Init
    <2>2. Init => GetcsInOrder
        BY <2>1 DEF GetcsInOrder
    <2>3. Init => Ending
        BY <2>1 DEF Ending
    <2> QED BY <2>2, <2>3
  <1>3. IInv /\ GetcsInOrder /\ Ending /\ [Next]_vars => GetcsInOrder' /\ Ending'
    <2>1. CASE UNCHANGED vars
        BY <2>1 DEF vars, host, target, terminal, GetcsInOrder, IsGetc, Ending
    <2> QED BY <2>1, GetcsStep, EndingStep
  <1> QED BY <1>1, <1>2, <1>3, HtifInvariant, Simulation, PTL DEF Spec, RInv, ImplementsService, Service!Spec

=============================================================================
