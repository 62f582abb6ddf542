--------------------------- MODULE ChatViewProofs ---------------------------
(***************************************************************************)
(* For any page sizes, queue, number of messages and overlapping           *)
(* synchronizations: the list of an open chat has no gap behind its cursor,*)
(* shows nothing twice that the server sends once, and is complete after a *)
(* synchronization until something is lost.                                *)
(***************************************************************************)
EXTENDS ChatView, SequenceTheorems, TLAPS

-----------------------------------------------------------------------------
(* Pages *)

\* A page of the history ends where it was asked to and begins below.
LEMMA PageUpTo ==
  ASSUME NEW n \in 0 .. MaxMessages
  PROVE  /\ UpTo(n) \in Page /\ UpTo(n).to = n
         /\ UpTo(n).from \in 1 .. n + 1 /\ (n > 0 => UpTo(n).from <= n)
         /\ UpTo(n).more <=> UpTo(n).from > 1
  <1>1. Lower(n) \in 1 .. n + 1 /\ (n > 0 => Lower(n) <= n)
    BY ChatAssumption, DeliveryAssumption DEF Lower
  <1>2. Lower(n) \in 1 .. MaxMessages + 1
    BY <1>1, DeliveryAssumption
  <1>3. /\ UpTo(n) \in [from : 1 .. MaxMessages + 1, to : 0 .. MaxMessages, more : BOOLEAN]
        /\ UpTo(n).to = n /\ UpTo(n).from = Lower(n) /\ UpTo(n).more = (Lower(n) > 1)
    BY <1>2 DEF UpTo
  <1>4. QED
    BY <1>1, <1>3 DEF Page

LEMMA MinOfTwo ==
  ASSUME NEW a \in Nat, NEW b \in Nat
  PROVE  Min({a, b}) = IF a <= b THEN a ELSE b
  <1>1. CASE a <= b
    BY <1>1 DEF Min
  <1>2. CASE ~(a <= b)
    BY <1>2 DEF Min
  <1>3. QED
    BY <1>1, <1>2

\* A page of a synchronization begins after its cursor, and ends at the newest message
\* unless there are more.
LEMMA PageAfter ==
  ASSUME NEW c \in Messages, c <= stored, stored \in 0 .. MaxMessages
  PROVE  /\ After(c) \in Page /\ After(c).from = c + 1 /\ After(c).to \in c .. stored
         /\ After(c).more => After(c).to > c
         /\ ~After(c).more => After(c).to = stored
  <1>1. Min({c + SyncSize, stored}) = IF c + SyncSize <= stored THEN c + SyncSize ELSE stored
    BY MinOfTwo, ChatAssumption, DeliveryAssumption DEF Messages
  <1>2. After(c).from = c + 1 /\ (After(c).more <=> c + SyncSize < stored)
        /\ After(c).to = IF c + SyncSize <= stored THEN c + SyncSize ELSE stored
    BY <1>1 DEF After
  <1>3. After(c).from \in 1 .. MaxMessages + 1 /\ After(c).to \in c .. stored /\ After(c).to \in 0 .. MaxMessages
    BY <1>2, ChatAssumption, DeliveryAssumption DEF Messages
  <1>4. After(c) \in Page
    BY <1>2, <1>3 DEF After, Page
  <1>5. c \in Nat /\ SyncSize \in Nat \ {0} /\ stored \in Nat
    BY ChatAssumption, DeliveryAssumption DEF Messages
  <1>6. CASE c + SyncSize < stored
    BY <1>2, <1>3, <1>4, <1>5, <1>6
  <1>7. CASE ~(c + SyncSize < stored)
    <2>1. After(c).to = stored /\ ~After(c).more
      BY <1>2, <1>5, <1>7
    <2>2. QED
      BY <2>1, <1>2, <1>3, <1>4
  <1>8. QED
    BY <1>6, <1>7

-----------------------------------------------------------------------------
(* The queue *)

LEMMA Prefix ==
  ASSUME NEW S, NEW s \in Seq(S), NEW n \in 0 .. Len(s)
  PROVE  /\ SubSeq(s, 1, n) \in Seq(S) /\ Len(SubSeq(s, 1, n)) = n
         /\ DOMAIN SubSeq(s, 1, n) = 1 .. n
         /\ \A i \in 1 .. n : SubSeq(s, 1, n)[i] = s[i]
  <1>1. \A i \in 1 .. n : s[i] \in S
    BY ElementOfSeq
  <1>2. QED
    BY <1>1, SubSeqProperties, LenProperties

LEMMA Rest ==
  ASSUME NEW S, NEW s \in Seq(S), s # <<>>
  PROVE  /\ Head(s) \in S /\ Head(s) = s[1] /\ Len(s) \in Nat \ {0}
         /\ Tail(s) \in Seq(S) /\ Len(Tail(s)) = Len(s) - 1
         /\ DOMAIN s = 1 .. Len(s) /\ DOMAIN Tail(s) = 1 .. Len(s) - 1
         /\ \A i \in 1 .. Len(s) - 1 : Tail(s)[i] = s[i + 1]
  BY HeadTailProperties, LenProperties, EmptySeq

\* What is queued stays in its place, or the connection ends and a part of it does.
LEMMA Enqueued ==
  ASSUME queue \in Seq(Event), Len(queue) <= QueueMax, conn = "open",
         stored \in 0 .. MaxMessages, \A i \in DOMAIN queue : queue[i].message <= stored,
         NEW kind \in {"created", "ack"}, NEW m \in 1 .. stored, Enqueue(kind, m)
  PROVE  /\ queue' \in Seq(Event) /\ Len(queue') <= QueueMax
         /\ \A i \in DOMAIN queue' : queue'[i].message <= stored
         /\ conn' \in {"open", "dying"}
         /\ conn' = conn =>
              /\ \A i \in DOMAIN queue : i \in DOMAIN queue' /\ queue'[i] = queue[i]
              /\ \E i \in DOMAIN queue' : queue'[i] = [kind |-> kind, message |-> m]
  <1>1. CASE Len(queue) < QueueMax /\ queue' = Append(queue, [kind |-> kind, message |-> m]) /\ UNCHANGED conn
    <2>1. [kind |-> kind, message |-> m] \in Event
      BY DeliveryAssumption DEF Event, Messages
    <2>2. /\ queue' \in Seq(Event) /\ Len(queue') = Len(queue) + 1
          /\ DOMAIN queue = 1 .. Len(queue) /\ DOMAIN queue' = 1 .. Len(queue) + 1
          /\ \A i \in 1 .. Len(queue) : queue'[i] = queue[i]
          /\ queue'[Len(queue) + 1] = [kind |-> kind, message |-> m]
          /\ Len(queue) \in Nat
      BY <1>1, <2>1
    <2>3. \A i \in DOMAIN queue' : queue'[i].message <= stored
      <3>1. TAKE i \in DOMAIN queue'
      <3>2. CASE i \in 1 .. Len(queue)
        BY <3>2, <2>2
      <3>3. CASE i = Len(queue) + 1
        BY <3>3, <2>2, DeliveryAssumption
      <3>4. QED
        BY <3>2, <3>3, <2>2
    <2>4. QED
      BY <1>1, <2>2, <2>3, DeliveryAssumption
  <1>2. CASE Len(queue) = QueueMax /\ conn' = "dying" /\ \E n \in 0 .. QueueMax : queue' = SubSeq(queue, 1, n)
    <2>1. PICK n \in 0 .. Len(queue) : queue' = SubSeq(queue, 1, n)
      BY <1>2
    <2>2. /\ queue' \in Seq(Event) /\ Len(queue') = n /\ DOMAIN queue' = 1 .. n
          /\ \A i \in 1 .. n : queue'[i] = queue[i]
      BY <2>1, Prefix
    <2>3. DOMAIN queue = 1 .. Len(queue)
      BY LenProperties
    <2>4. QED
      BY <1>2, <2>2, <2>3, DeliveryAssumption
  <1>3. QED
    BY <1>1, <1>2 DEF Enqueue

-----------------------------------------------------------------------------
(* The steps of the delivery *)

\* What the view needs of the delivery in every state ...
Sound ==
  /\ DeliveryTypeOK
  /\ \A i \in DOMAIN queue : queue[i].message <= stored
  /\ \A i \in DOMAIN outbox : outbox[i] \in sent

\* ... of every step ...
Grows ==
  /\ stored <= stored'
  /\ \A m \in Messages : ownId'[m] = ownId[m] \/ (m \in stored + 1 .. stored' /\ ownId'[m] \in sent \cup {None})

\* ... and of one that loses nothing.
Keeps ==
  conn = "open" =>
    /\ conn' = "open"
    /\ \A m \in Messages : Coming(m) \/ m \in stored + 1 .. stored' => Coming(m)'

\* A message that commits is published later.
LEMMA Stored ==
  ASSUME DeliveryTypeOK, NEW id \in OwnIds \cup {None}, Store(id)
  PROVE  /\ stored' = stored + 1 /\ stored \in Nat /\ stored' \in 1 .. MaxMessages
         /\ ownId' \in [Messages -> OwnIds \cup {None}]
         /\ \A m \in Messages : ownId'[m] = IF m = stored' THEN id ELSE ownId[m]
         /\ due' = due \cup {stored'} /\ due' \subseteq 1 .. stored'
         /\ bus \in Seq(1 .. stored') /\ (handling \in 1 .. stored' \cup {None})
  <1>1. /\ stored' = stored + 1 /\ stored \in Nat /\ stored' \in 1 .. MaxMessages
        /\ 1 .. stored \subseteq 1 .. stored'
    BY DeliveryAssumption DEF DeliveryTypeOK, Store
  <1>2. bus \in Seq(1 .. stored')
    BY <1>1, SeqMonotonic DEF DeliveryTypeOK
  <1>3. due' = due \cup {stored'} /\ due' \subseteq 1 .. stored' /\ (handling \in 1 .. stored' \cup {None})
    BY <1>1 DEF DeliveryTypeOK, Store
  <1>4. /\ ownId' \in [Messages -> OwnIds \cup {None}]
        /\ \A m \in Messages : ownId'[m] = IF m = stored' THEN id ELSE ownId[m]
    BY <1>1 DEF DeliveryTypeOK, Store, Messages
  <1>5. QED
    BY <1>1, <1>2, <1>3, <1>4

\* As long as only more is due, all that was coming still is.
LEMMA StillComing ==
  ASSUME due \subseteq due', UNCHANGED <<bus, queue>>, NEW m, Coming(m)
  PROVE  Coming(m)'
  BY DEF Coming

LEMMA SoundCommit ==
  ASSUME Sound, UNCHANGED sent, Commit
  PROVE  Sound' /\ Grows /\ Keeps
  <1>1. Store(None) /\ UNCHANGED <<bus, conn, queue, outbox, handling, faults>>
    BY DEF Commit, wire
  <1>2. /\ stored' = stored + 1 /\ stored \in Nat /\ stored' \in 1 .. MaxMessages
        /\ ownId' \in [Messages -> OwnIds \cup {None}]
        /\ \A m \in Messages : ownId'[m] = IF m = stored' THEN None ELSE ownId[m]
        /\ due' = due \cup {stored'} /\ due' \subseteq 1 .. stored'
        /\ bus \in Seq(1 .. stored') /\ (handling \in 1 .. stored' \cup {None})
    BY <1>1, Stored DEF Sound
  <1>3. DeliveryTypeOK'
    BY <1>1, <1>2 DEF DeliveryTypeOK, Sound
  <1>4. \A i \in DOMAIN queue' : queue'[i].message <= stored'
    <2>1. TAKE i \in DOMAIN queue'
    <2>2. queue[i] \in Event /\ queue[i].message <= stored
      BY <1>1, LenProperties, ElementOfSeq DEF Sound, DeliveryTypeOK
    <2>3. QED
      BY <1>1, <1>2, <2>2, DeliveryAssumption DEF Event, Messages
  <1>5. Grows
    BY <1>2 DEF Grows
  <1>6. Keeps
    <2>1. \A m \in Messages : Coming(m) => Coming(m)'
      BY <1>1, <1>2, StillComing
    <2>2. \A m \in stored + 1 .. stored' : Coming(m)'
      BY <1>2 DEF Coming
    <2>3. QED
      BY <1>1, <2>1, <2>2 DEF Keeps
  <1>7. QED
    BY <1>1, <1>3, <1>4, <1>5, <1>6 DEF Sound

LEMMA SoundHandle ==
  ASSUME Sound, UNCHANGED sent, Handle
  PROVE  Sound' /\ Grows /\ Keeps
  <1>1. /\ conn = "open" /\ outbox # <<>> /\ outbox' = Tail(outbox)
        /\ UNCHANGED <<bus, conn, queue, faults>>
    BY DEF Handle
  <1>2. /\ Head(outbox) \in OwnIds /\ Head(outbox) \in sent /\ outbox' \in Seq(OwnIds)
        /\ \A i \in DOMAIN outbox' : outbox'[i] \in sent
    <2>1. outbox \in Seq(OwnIds)
      BY DEF Sound, DeliveryTypeOK
    <2>2. /\ Head(outbox) \in OwnIds /\ Head(outbox) = outbox[1] /\ Len(outbox) \in Nat \ {0}
          /\ outbox' \in Seq(OwnIds)
          /\ DOMAIN outbox = 1 .. Len(outbox) /\ DOMAIN outbox' = 1 .. Len(outbox) - 1
          /\ \A i \in 1 .. Len(outbox) - 1 : outbox'[i] = outbox[i + 1]
      BY <1>1, <2>1, Rest
    <2>3. \A i \in 1 .. Len(outbox) - 1 : i + 1 \in 1 .. Len(outbox)
      BY <2>2
    <2>4. QED
      BY <2>2, <2>3 DEF Sound
  <1>3. CASE Store(Head(outbox)) /\ handling' = stored'
    <2>1. /\ stored' = stored + 1 /\ stored \in Nat /\ stored' \in 1 .. MaxMessages
          /\ ownId' \in [Messages -> OwnIds \cup {None}]
          /\ \A m \in Messages : ownId'[m] = IF m = stored' THEN Head(outbox) ELSE ownId[m]
          /\ due' = due \cup {stored'} /\ due' \subseteq 1 .. stored'
          /\ bus \in Seq(1 .. stored')
      BY <1>2, <1>3, Stored DEF Sound
    <2>2. DeliveryTypeOK'
      BY <1>1, <1>2, <1>3, <2>1 DEF DeliveryTypeOK, Sound
    <2>3. \A i \in DOMAIN queue' : queue'[i].message <= stored'
      <3>1. TAKE i \in DOMAIN queue'
      <3>2. queue[i] \in Event /\ queue[i].message <= stored
        BY <1>1, LenProperties, ElementOfSeq DEF Sound, DeliveryTypeOK
      <3>3. QED
        BY <1>1, <2>1, <3>2, DeliveryAssumption DEF Event, Messages
    <2>4. Grows
      BY <1>2, <2>1 DEF Grows
    <2>5. Keeps
      <3>1. \A m \in Messages : Coming(m) => Coming(m)'
        BY <1>1, <2>1, StillComing
      <3>2. \A m \in stored + 1 .. stored' : Coming(m)'
        BY <2>1 DEF Coming
      <3>3. QED
        BY <1>1, <3>1, <3>2 DEF Keeps
    <2>6. QED
      BY <1>2, <2>2, <2>3, <2>4, <2>5 DEF Sound
  <1>4. CASE UNCHANGED <<log, due, handling>>
    <2>1. UNCHANGED <<stored, ownId, due, bus, conn, queue, handling, faults>>
      BY <1>1, <1>4 DEF log
    <2>2. Sound'
      BY <1>2, <2>1 DEF DeliveryTypeOK, Sound
    <2>3. Grows
      BY <2>1, DeliveryAssumption DEF Grows, Sound, DeliveryTypeOK
    <2>4. stored + 1 .. stored' = {}
      BY <2>1, DeliveryAssumption DEF Sound, DeliveryTypeOK
    <2>5. Keeps
      BY <1>1, <2>1, <2>4, StillComing DEF Keeps
    <2>6. QED
      BY <2>2, <2>3, <2>5
  <1>5. QED
    BY <1>3, <1>4 DEF Handle

\* A step that stores nothing.
LEMMA NothingStored ==
  ASSUME Sound, UNCHANGED log
  PROVE  Grows /\ UNCHANGED <<stored, ownId>> /\ stored + 1 .. stored' = {}
  BY DeliveryAssumption DEF log, Grows, Sound, DeliveryTypeOK

LEMMA SoundPublish ==
  ASSUME Sound, UNCHANGED sent, NEW d \in Messages, Publish(d)
  PROVE  Sound' /\ Grows /\ Keeps
  <1>1. /\ d \in due /\ due' = due \ {d} /\ bus' = Append(bus, d)
        /\ UNCHANGED <<log, conn, queue, outbox, handling, faults>>
    BY DEF Publish, wire
  <1>2. Grows /\ UNCHANGED <<stored, ownId>> /\ stored + 1 .. stored' = {}
    BY <1>1, NothingStored
  <1>3. bus \in Seq(1 .. stored) /\ d \in 1 .. stored
    BY <1>1 DEF Sound, DeliveryTypeOK
  <1>4. /\ bus' \in Seq(1 .. stored)
        /\ DOMAIN bus = 1 .. Len(bus) /\ DOMAIN bus' = 1 .. Len(bus) + 1 /\ Len(bus) \in Nat
        /\ bus'[Len(bus) + 1] = d /\ \A i \in 1 .. Len(bus) : bus'[i] = bus[i]
    BY <1>1, <1>3
  <1>5. Sound'
    BY <1>1, <1>2, <1>4 DEF Sound, DeliveryTypeOK
  <1>6. ASSUME NEW m \in Messages, Coming(m)
        PROVE  Coming(m)'
    <2>1. CASE m = d
      BY <1>4, <2>1 DEF Coming
    <2>2. CASE m # d /\ m \in due
      BY <1>1, <2>2 DEF Coming
    <2>3. CASE \E i \in DOMAIN bus : bus[i] = m
      BY <1>4, <2>3 DEF Coming
    <2>4. CASE \E i \in DOMAIN queue : queue[i] = [kind |-> "created", message |-> m]
      BY <1>1, <2>4 DEF Coming
    <2>5. QED
      BY <1>6, <2>1, <2>2, <2>3, <2>4 DEF Coming
  <1>7. Keeps
    BY <1>1, <1>2, <1>6 DEF Keeps
  <1>8. QED
    BY <1>2, <1>5, <1>7

LEMMA SoundRepeat ==
  ASSUME Sound, UNCHANGED sent, NEW d \in Messages, Repeat(d)
  PROVE  Sound' /\ Grows /\ Keeps
  <1>1. /\ d \in 1 .. stored /\ due' = due \cup {d} /\ faults' = faults + 1 /\ faults < MaxFaults
        /\ UNCHANGED <<log, bus, conn, queue, outbox, handling>>
    BY DEF Repeat, Fault, wire
  <1>2. Grows /\ UNCHANGED <<stored, ownId>> /\ stored + 1 .. stored' = {}
    BY <1>1, NothingStored
  <1>3. faults' \in 0 .. MaxFaults
    BY <1>1, DeliveryAssumption DEF Sound, DeliveryTypeOK
  <1>4. Sound'
    BY <1>1, <1>2, <1>3 DEF Sound, DeliveryTypeOK
  <1>5. Keeps
    BY <1>1, <1>2, StillComing DEF Keeps
  <1>6. QED
    BY <1>2, <1>4, <1>5

LEMMA SoundRegister ==
  ASSUME Sound, UNCHANGED sent, Register
  PROVE  Sound' /\ Grows /\ Keeps
  <1>1. conn = "dialing" /\ conn' = "open" /\ UNCHANGED <<log, due, bus, queue, outbox, handling, faults>>
    BY DEF Register
  <1>2. Grows /\ UNCHANGED <<stored, ownId>>
    BY <1>1, NothingStored
  <1>3. Sound'
    BY <1>1, <1>2 DEF Sound, DeliveryTypeOK
  <1>4. QED
    BY <1>1, <1>2, <1>3 DEF Keeps

LEMMA SoundHangup ==
  ASSUME Sound, UNCHANGED sent, Hangup
  PROVE  Sound' /\ Grows /\ Keeps
  <1>1. /\ conn = "dying" /\ conn' = "down" /\ outbox' = <<>> /\ handling' = None
        /\ UNCHANGED <<log, due, bus, queue, faults>>
    BY DEF Hangup
  <1>2. Grows /\ UNCHANGED <<stored, ownId>>
    BY <1>1, NothingStored
  <1>3. outbox' \in Seq(OwnIds) /\ DOMAIN outbox' = {}
    BY <1>1
  <1>4. Sound'
    BY <1>1, <1>2, <1>3 DEF Sound, DeliveryTypeOK
  <1>5. QED
    BY <1>1, <1>2, <1>4 DEF Keeps

LEMMA SoundDialFails ==
  ASSUME Sound, UNCHANGED sent, DialFails
  PROVE  Sound' /\ Grows
  <1>1. /\ conn' = "down" /\ outbox' = <<>> /\ UNCHANGED <<log, due, bus, queue, handling, faults>>
    BY DEF DialFails
  <1>2. Grows /\ UNCHANGED <<stored, ownId>>
    BY <1>1, NothingStored
  <1>3. outbox' \in Seq(OwnIds) /\ DOMAIN outbox' = {}
    BY <1>1
  <1>4. QED
    BY <1>1, <1>2, <1>3 DEF Sound, DeliveryTypeOK

LEMMA SoundPublishFails ==
  ASSUME Sound, UNCHANGED sent, NEW d \in Messages, PublishFails(d)
  PROVE  Sound' /\ Grows
  <1>1. /\ due' = due \ {d} /\ handling' \in {handling, None} /\ faults' = faults + 1 /\ faults < MaxFaults
        /\ UNCHANGED <<log, bus, conn, queue, outbox>>
    BY DEF PublishFails, Fault
  <1>2. Grows /\ UNCHANGED <<stored, ownId>>
    BY <1>1, NothingStored
  <1>3. faults' \in 0 .. MaxFaults
    BY <1>1, DeliveryAssumption DEF Sound, DeliveryTypeOK
  <1>4. (handling' \in 1 .. stored \cup {None}) /\ due' \subseteq 1 .. stored
    BY <1>1 DEF Sound, DeliveryTypeOK
  <1>5. QED
    BY <1>1, <1>2, <1>3, <1>4 DEF Sound, DeliveryTypeOK

LEMMA SoundLose ==
  ASSUME Sound, UNCHANGED sent, Lose
  PROVE  Sound' /\ Grows
  <1>1. /\ bus # <<>> /\ bus' = Tail(bus) /\ faults' = faults + 1 /\ faults < MaxFaults
        /\ UNCHANGED <<log, due, conn, queue, outbox, handling>>
    BY DEF Lose, Fault, wire
  <1>2. Grows /\ UNCHANGED <<stored, ownId>>
    BY <1>1, NothingStored
  <1>3. faults' \in 0 .. MaxFaults
    BY <1>1, DeliveryAssumption DEF Sound, DeliveryTypeOK
  <1>4. bus' \in Seq(1 .. stored)
    BY <1>1, Rest DEF Sound, DeliveryTypeOK
  <1>5. QED
    BY <1>1, <1>2, <1>3, <1>4 DEF Sound, DeliveryTypeOK

LEMMA SoundBreak ==
  ASSUME Sound, UNCHANGED sent, Break
  PROVE  Sound' /\ Grows
  <1>1. /\ conn' = "dying" /\ faults' = faults + 1 /\ faults < MaxFaults
        /\ outbox' = <<>> /\ handling' = None /\ UNCHANGED <<log, due, bus>>
    BY DEF Break, Fault
  <1>2. PICK n \in 0 .. Len(queue) : queue' = SubSeq(queue, 1, n)
    BY DEF Break
  <1>3. Grows /\ UNCHANGED <<stored, ownId>>
    BY <1>1, NothingStored
  <1>4. faults' \in 0 .. MaxFaults
    BY <1>1, DeliveryAssumption DEF Sound, DeliveryTypeOK
  <1>5. /\ queue \in Seq(Event) /\ Len(queue) \in Nat /\ DOMAIN queue = 1 .. Len(queue)
        /\ Len(queue) <= QueueMax
    BY LenProperties DEF Sound, DeliveryTypeOK
  <1>6. /\ queue' \in Seq(Event) /\ Len(queue') = n /\ DOMAIN queue' = 1 .. n
        /\ \A i \in 1 .. n : queue'[i] = queue[i]
    BY <1>2, <1>5, Prefix
  <1>7. Len(queue') <= QueueMax /\ \A i \in DOMAIN queue' : queue'[i].message <= stored
    BY <1>5, <1>6, DeliveryAssumption DEF Sound
  <1>8. outbox' \in Seq(OwnIds) /\ DOMAIN outbox' = {}
    BY <1>1
  <1>9. QED
    BY <1>1, <1>3, <1>4, <1>6, <1>7, <1>8 DEF Sound, DeliveryTypeOK

\* What is broadcast on an open connection is queued, unless the queue was full.
LEMMA SoundBroadcast ==
  ASSUME Sound, UNCHANGED sent, Broadcast
  PROVE  Sound' /\ Grows /\ (conn' = conn => Keeps)
  <1>1. /\ bus # <<>> /\ bus' = Tail(bus) /\ UNCHANGED <<log, due, outbox, handling, faults>>
    BY DEF Broadcast
  <1>2. Grows /\ UNCHANGED <<stored, ownId>> /\ stored + 1 .. stored' = {}
    BY <1>1, NothingStored
  <1>3. bus \in Seq(1 .. stored) /\ stored \in 0 .. MaxMessages
    BY DEF Sound, DeliveryTypeOK
  <1>4. /\ Head(bus) \in 1 .. stored /\ Head(bus) = bus[1] /\ Len(bus) \in Nat \ {0}
        /\ bus' \in Seq(1 .. stored)
        /\ DOMAIN bus = 1 .. Len(bus) /\ DOMAIN bus' = 1 .. Len(bus) - 1
        /\ \A i \in 1 .. Len(bus) - 1 : bus'[i] = bus[i + 1]
    BY <1>1, <1>3, Rest
  <1>5. CASE conn = "open"
    <2>1. Enqueue("created", Head(bus))
      BY <1>5 DEF Broadcast
    <2>2. /\ queue' \in Seq(Event) /\ Len(queue') <= QueueMax
          /\ \A i \in DOMAIN queue' : queue'[i].message <= stored
          /\ conn' \in {"open", "dying"}
          /\ conn' = conn =>
               /\ \A i \in DOMAIN queue : i \in DOMAIN queue' /\ queue'[i] = queue[i]
               /\ \E i \in DOMAIN queue' : queue'[i] = [kind |-> "created", message |-> Head(bus)]
      BY <1>4, <1>5, <2>1, Enqueued DEF Sound, DeliveryTypeOK
    <2>3. Sound'
      BY <1>1, <1>2, <1>4, <2>2 DEF Sound, DeliveryTypeOK
    <2>4. ASSUME conn' = conn, NEW m \in Messages, Coming(m)
          PROVE  Coming(m)'
      <3>1. CASE m \in due
        BY <1>1, <3>1 DEF Coming
      <3>2. CASE \E i \in DOMAIN bus : bus[i] = m
        <4>1. PICK i \in 1 .. Len(bus) : bus[i] = m
          BY <1>4, <3>2
        <4>2. CASE i = 1
          BY <1>4, <2>2, <2>4, <4>1, <4>2 DEF Coming
        <4>3. CASE i # 1
          <5>1. i - 1 \in 1 .. Len(bus) - 1 /\ bus'[i - 1] = bus[i]
            BY <1>4, <4>3
          <5>2. QED
            BY <1>4, <4>1, <5>1 DEF Coming
        <4>4. QED
          BY <4>2, <4>3
      <3>3. CASE \E i \in DOMAIN queue : queue[i] = [kind |-> "created", message |-> m]
        BY <2>2, <2>4, <3>3 DEF Coming
      <3>4. QED
        BY <2>4, <3>1, <3>2, <3>3 DEF Coming
    <2>5. conn' = conn => Keeps
      BY <1>2, <1>5, <2>4 DEF Keeps
    <2>6. QED
      BY <1>2, <2>3, <2>5
  <1>6. CASE conn # "open"
    <2>1. UNCHANGED <<conn, queue>>
      BY <1>6 DEF Broadcast
    <2>2. Sound'
      BY <1>1, <1>2, <1>4, <2>1 DEF Sound, DeliveryTypeOK
    <2>3. QED
      BY <1>2, <1>6, <2>2 DEF Keeps
  <1>7. QED
    BY <1>5, <1>6

LEMMA SoundAcknowledge ==
  ASSUME Sound, UNCHANGED sent, Acknowledge
  PROVE  Sound' /\ Grows /\ (conn' = conn => Keeps)
  <1>1. /\ conn = "open" /\ handling # None /\ Enqueue("ack", handling) /\ handling' = None
        /\ UNCHANGED <<log, due, bus, outbox, faults>>
    BY DEF Acknowledge
  <1>2. Grows /\ UNCHANGED <<stored, ownId>> /\ stored + 1 .. stored' = {}
    BY <1>1, NothingStored
  <1>3. handling \in 1 .. stored
    BY <1>1 DEF Sound, DeliveryTypeOK
  <1>4. /\ queue' \in Seq(Event) /\ Len(queue') <= QueueMax
        /\ \A i \in DOMAIN queue' : queue'[i].message <= stored
        /\ conn' \in {"open", "dying"}
        /\ conn' = conn => \A i \in DOMAIN queue : i \in DOMAIN queue' /\ queue'[i] = queue[i]
    BY <1>1, <1>3, Enqueued DEF Sound, DeliveryTypeOK
  <1>5. Sound'
    BY <1>1, <1>2, <1>4 DEF Sound, DeliveryTypeOK
  <1>6. conn' = conn => \A m \in Messages : Coming(m) => Coming(m)'
    BY <1>1, <1>4 DEF Coming
  <1>7. QED
    BY <1>1, <1>2, <1>5, <1>6 DEF Keeps

-----------------------------------------------------------------------------
(* The chat while the delivery goes on *)

LEMMA Floors == ASSUME IInv PROVE Floor \in Messages \cup {1} /\ (Floor = 1 \/ Floor <= stored)
  BY DeliveryAssumption DEF IInv, TypeOK, Pages, Floor, Messages

LEMMA IsSound == IInv => Sound
  <1>1. ASSUME IInv
        PROVE  Sound
    <2>1. \A i \in DOMAIN outbox : outbox[i] \in sent
      BY <1>1 DEF IInv, Copies
    <2>2. QED
      BY <1>1, <2>1 DEF IInv, TypeOK, Pages, Sound
  <1>2. QED
    BY <1>1

\* The list is untouched: it stays complete if nothing is lost, and is no longer known to be
\* otherwise.
LEMMA Delivered ==
  ASSUME IInv, Sound', Grows, UNCHANGED <<chat, page, lists, cursors, sync>>,
         Loss \/ (Keeps /\ UNCHANGED history)
  PROVE  IInv'
  <1>1. /\ UNCHANGED <<chat, page, view, doubled, optimistic, sent>>
        /\ UNCHANGED <<hasMore, nextCursor, older, syncCursor, sync>>
        /\ late' = late
    BY DEF lists, cursors, Loss, history
  <1>2. UNCHANGED Floor
    BY <1>1 DEF Floor
  <1>3. stored \in Nat /\ stored' \in Nat /\ stored <= stored' /\ stored' <= MaxMessages
    BY IsSound, DeliveryAssumption DEF Sound, DeliveryTypeOK, Grows
  <1>4. \/ tag' = [s \in Syncs |-> FALSE] /\ caught' = FALSE
        \/ tag' = tag /\ caught' = caught /\ Keeps
    BY DEF Loss, history
  <1>5. TypeOK'
    <2>1. view \subseteq 1 .. stored'
      BY <1>3 DEF IInv, TypeOK
    <2>2. tag' \in [Syncs -> BOOLEAN] /\ caught' \in BOOLEAN
      BY <1>4 DEF IInv, TypeOK
    <2>3. QED
      BY <1>1, <2>1, <2>2 DEF IInv, TypeOK, Sound
  <1>6. Pages'
    <2>1. chat' = "ready" \/ (~hasMore' /\ nextCursor' = None /\ syncCursor' = None /\ ~caught'
                              /\ \A s \in Syncs : sync'[s].step = "idle" /\ ~tag'[s])
      BY <1>1, <1>4 DEF IInv, Pages
    <2>2. chat' = "read" => page'.to <= stored' /\ page' = UpTo(page'.to)
      <3>1. chat = "read" => page.to <= stored /\ page = UpTo(page.to) /\ page.to \in Nat
        BY DeliveryAssumption DEF IInv, Pages, TypeOK, Page
      <3>2. QED
        BY <1>1, <1>3, <3>1
    <2>3. nextCursor' # None => nextCursor' <= stored'
      BY <1>1, <1>3, DeliveryAssumption DEF IInv, Pages, TypeOK, Messages
    <2>4. older' # None => hasMore' /\ older' = nextCursor'
      BY <1>1 DEF IInv, Pages
    <2>5. UNCHANGED UpTo(page.to)
      BY <1>1 DEF UpTo, Lower
    <2>6. QED
      BY <2>1, <2>2, <2>3, <2>4, <2>5 DEF Pages, Sound
  <1>7. \A c \in Floor .. stored : c \in Floor .. stored'
    BY <1>3, Floors DEF Messages
  <1>8. Cursors'
    <2>1. ASSUME NEW s \in Syncs
          PROVE  /\ sync[s].step # "idle" => /\ sync[s].cursor # None
                                              /\ sync[s].cursor \in Floor .. stored'
                                              /\ Floor .. sync[s].cursor \subseteq view
                 /\ sync[s].step = "read" =>
                      /\ sync[s].page.from = sync[s].cursor + 1 /\ sync[s].page.to <= stored'
                      /\ sync[s].page.more => sync[s].page.to > sync[s].cursor
      <3>1. sync[s].page.to \in Nat
        BY DeliveryAssumption DEF IInv, TypeOK, Page
      <3>2. QED
        BY <1>3, <1>7, <3>1 DEF IInv, Cursors, Filled
    <2>2. syncCursor # None => syncCursor \in Floor .. stored' /\ Floor .. syncCursor \subseteq view
      BY <1>7 DEF IInv, Cursors, Filled
    <2>3. QED
      BY <1>1, <1>2, <2>1, <2>2 DEF Cursors, Filled
  <1>9. Copies'
    <2>1. ASSUME NEW m \in Messages, ownId'[m] # None
          PROVE  /\ m <= stored' /\ ownId'[m] \in sent
                 /\ ownId'[m] \in optimistic => m >= Floor /\ m \notin view
      <3>1. CASE ownId'[m] = ownId[m]
        BY <1>3, <2>1, <3>1 DEF IInv, Copies, Messages
      <3>2. CASE m \in stored + 1 .. stored' /\ ownId'[m] \in sent \cup {None}
        <4>1. m > stored /\ m >= 1
          BY <1>3, <3>2
        <4>2. m \notin view
          <5>1. view \subseteq 1 .. stored
            BY DEF IInv, TypeOK
          <5>2. m \in Nat
            BY DEF Messages
          <5>3. m \notin 1 .. stored
            BY <1>3, <4>1, <5>2
          <5>4. QED
            BY <5>1, <5>3
        <4>3. m >= Floor
          BY <1>3, <4>1, Floors DEF Messages
        <4>4. QED
          BY <1>3, <2>1, <3>2, <4>2, <4>3
      <3>3. QED
        BY <3>1, <3>2 DEF Grows
    <2>2. doubled \subseteq late /\ \A m \in view : m < Floor => m \in late
      BY DEF IInv, Copies
    <2>3. QED
      BY <1>1, <1>2, <2>1, <2>2 DEF Copies, Sound
  <1>10. Covered'
    <2>1. CASE tag' = [s \in Syncs |-> FALSE] /\ caught' = FALSE
      BY <2>1 DEF Covered
    <2>2. CASE tag' = tag /\ caught' = caught /\ Keeps
      <3>1. ASSUME conn = "open", NEW m \in Nat \ {0}, m <= stored',
                   m <= stored => m \in view \/ Coming(m)
            PROVE  m \in view \/ Coming(m)'
        <4>1. m \in Messages
          BY <1>3, <3>1, DeliveryAssumption DEF Messages
        <4>2. CASE m <= stored
          BY <2>2, <3>1, <4>1, <4>2 DEF Keeps
        <4>3. CASE m > stored
          BY <1>3, <2>2, <3>1, <4>1, <4>3 DEF Keeps
        <4>4. QED
          BY <1>3, <4>2, <4>3
      <3>2. ASSUME caught
            PROVE  conn' = "open" /\ \A m \in Floor .. stored' : m \in view \/ Coming(m)'
        <4>1. conn = "open" /\ \A m \in Floor .. stored : m \in view \/ Coming(m)
          BY <3>2 DEF IInv, Covered
        <4>2. \A m \in Floor .. stored' : m \in Nat \ {0} /\ m <= stored' /\ m >= Floor
          BY <1>3, Floors DEF Messages
        <4>3. \A m \in Floor .. stored' : m <= stored => m \in Floor .. stored
          BY <1>3, <4>2, Floors DEF Messages
        <4>4. QED
          BY <2>2, <3>1, <4>1, <4>2, <4>3 DEF Keeps
      <3>3. ASSUME NEW s \in Syncs, tag[s]
            PROVE  /\ conn' = "open"
                   /\ sync[s].step = "read" /\ ~sync[s].page.more =>
                        \A m \in sync[s].page.to + 1 .. stored' : m \in view \/ Coming(m)'
        <4>1. /\ conn = "open"
              /\ sync[s].step = "read" /\ ~sync[s].page.more =>
                   \A m \in sync[s].page.to + 1 .. stored : m \in view \/ Coming(m)
          BY <3>3 DEF IInv, Covered
        <4>2. sync[s].page.to \in Nat
          BY DeliveryAssumption DEF IInv, TypeOK, Page
        <4>3. \A m \in sync[s].page.to + 1 .. stored' :
                m \in Nat \ {0} /\ m <= stored' /\ (m <= stored => m \in sync[s].page.to + 1 .. stored)
          BY <1>3, <4>2
        <4>4. QED
          BY <2>2, <3>1, <4>1, <4>3 DEF Keeps
      <3>4. QED
        BY <1>1, <1>2, <2>2, <3>2, <3>3 DEF Covered
    <2>3. QED
      BY <1>4, <2>1, <2>2
  <1>11. QED
    BY <1>5, <1>6, <1>8, <1>9, <1>10 DEF IInv

-----------------------------------------------------------------------------
(* The chat *)

LEMMA SameDelivery ==
  ASSUME UNCHANGED delivery
  PROVE  /\ UNCHANGED <<stored, ownId, due, bus, conn, queue, outbox, handling, faults>>
         /\ DeliveryTypeOK => DeliveryTypeOK'
         /\ \A m : Coming(m) => Coming(m)'
  BY DEF delivery, log, wire, DeliveryTypeOK, Coming

\* What the first page and the older ones are asked with leaves the list alone.
LEMMA SameList ==
  ASSUME IInv, UNCHANGED <<delivery, lists, hasMore, nextCursor, syncCursor, sync, history>>,
         TypeOK', Pages'
  PROVE  IInv'
  <1>1. /\ UNCHANGED <<stored, ownId, due, bus, conn, queue, outbox, view, doubled, optimistic, sent>>
        /\ UNCHANGED <<hasMore, nextCursor, syncCursor, sync, tag, caught, late>>
    BY SameDelivery DEF lists, history
  <1>2. UNCHANGED Floor
    BY <1>1 DEF Floor
  <1>3. Cursors'
    BY <1>1, <1>2 DEF IInv, Cursors, Filled
  <1>4. Copies'
    BY <1>1, <1>2 DEF IInv, Copies
  <1>5. Covered'
    BY <1>1, <1>2 DEF IInv, Covered, Coming
  <1>6. QED
    BY <1>3, <1>4, <1>5 DEF IInv

LEMMA InvOpen == ASSUME IInv, Open PROVE IInv'
  <1>1. /\ chat = "closed" /\ chat' = "loading"
        /\ UNCHANGED <<stored, ownId, due, bus, conn, queue, outbox, view, doubled, optimistic, sent, page, older>>
        /\ UNCHANGED <<hasMore, nextCursor, syncCursor, sync, tag, caught, late>>
    BY SameDelivery DEF Open, lists, cursors, history
  <1>2. TypeOK'
    BY <1>1, SameDelivery DEF Open, IInv, TypeOK
  <1>3. Pages'
    BY <1>1 DEF IInv, Pages
  <1>4. QED
    BY <1>1, <1>2, <1>3, SameList DEF Open, cursors

LEMMA InvRead == ASSUME IInv, Read PROVE IInv'
  <1>1. /\ chat = "loading" /\ chat' = "read" /\ page' = UpTo(stored)
        /\ UNCHANGED <<stored, ownId, due, bus, conn, queue, outbox, view, doubled, optimistic, sent, older>>
        /\ UNCHANGED <<hasMore, nextCursor, syncCursor, sync, tag, caught, late>>
    BY SameDelivery DEF Read, Newest, lists, cursors, history
  <1>2. stored \in 0 .. MaxMessages
    BY DEF IInv, TypeOK, DeliveryTypeOK
  <1>3. page' \in Page /\ page'.to = stored
    BY <1>1, <1>2, PageUpTo
  <1>4. TypeOK'
    BY <1>1, <1>3, SameDelivery DEF Read, IInv, TypeOK
  <1>5. UpTo(page.to)' = UpTo(stored)
    BY <1>1, <1>3 DEF UpTo, Lower
  <1>6. page'.to <= stored
    BY <1>2, <1>3, DeliveryAssumption
  <1>7. Pages'
    BY <1>1, <1>3, <1>5, <1>6 DEF IInv, Pages
  <1>8. QED
    BY <1>1, <1>4, <1>7, SameList DEF Read, cursors

LEMMA InvLoadFails == ASSUME IInv, LoadFails PROVE IInv'
  <1>1. /\ chat \in {"loading", "read"} /\ chat' = "failed" /\ page' = EmptyPage
        /\ UNCHANGED <<stored, ownId, due, bus, conn, queue, outbox, view, doubled, optimistic, sent, older>>
        /\ UNCHANGED <<hasMore, nextCursor, syncCursor, sync, tag, caught, late>>
    BY SameDelivery DEF LoadFails, lists, cursors, history
  <1>2. EmptyPage \in Page
    BY DeliveryAssumption DEF EmptyPage, Page
  <1>3. TypeOK'
    BY <1>1, <1>2, SameDelivery DEF LoadFails, IInv, TypeOK
  <1>4. Pages'
    BY <1>1 DEF IInv, Pages
  <1>5. QED
    BY <1>1, <1>3, <1>4, SameList DEF LoadFails, cursors

LEMMA InvAskOlder == ASSUME IInv, AskOlder PROVE IInv'
  <1>1. /\ hasMore /\ nextCursor # None /\ older' = nextCursor
        /\ UNCHANGED <<stored, ownId, due, bus, conn, queue, outbox, view, doubled, optimistic, sent, chat, page>>
        /\ UNCHANGED <<hasMore, nextCursor, syncCursor, sync, tag, caught, late>>
    BY SameDelivery DEF AskOlder, lists, history
  <1>2. TypeOK'
    BY <1>1, SameDelivery DEF AskOlder, IInv, TypeOK
  <1>3. UNCHANGED UpTo(page.to)
    BY <1>1 DEF UpTo, Lower
  <1>4. Pages'
    BY <1>1, <1>3 DEF IInv, Pages
  <1>5. QED
    BY <1>1, <1>2, <1>4, SameList DEF AskOlder

LEMMA InvOlderFails == ASSUME IInv, OlderFails PROVE IInv'
  <1>1. /\ older' = None
        /\ UNCHANGED <<stored, ownId, due, bus, conn, queue, outbox, view, doubled, optimistic, sent, chat, page>>
        /\ UNCHANGED <<hasMore, nextCursor, syncCursor, sync, tag, caught, late>>
    BY SameDelivery DEF OlderFails, lists, history
  <1>2. TypeOK'
    BY <1>1, SameDelivery DEF OlderFails, IInv, TypeOK
  <1>3. UNCHANGED UpTo(page.to)
    BY <1>1 DEF UpTo, Lower
  <1>4. Pages'
    BY <1>1, <1>3 DEF IInv, Pages
  <1>5. QED
    BY <1>1, <1>2, <1>4, SameList DEF OlderFails

\* The list begins with the page, and nothing else is asked for yet.
LEMMA InvLoaded == ASSUME IInv, Loaded PROVE IInv'
  <1>1. /\ chat = "read" /\ chat' = "ready" /\ page' = EmptyPage
        /\ view' = page.from .. page.to /\ doubled' = {} /\ optimistic' = {}
        /\ hasMore' = page.more /\ nextCursor' = IF page.more THEN page.from ELSE None
        /\ syncCursor' = IF page.from .. page.to # {} THEN page.to ELSE None
        /\ UNCHANGED <<stored, ownId, due, bus, conn, queue, outbox, sent, older, sync, tag, caught, late>>
    BY SameDelivery DEF Loaded, On, history
  <1>2. /\ page = UpTo(page.to) /\ page.to \in 0 .. stored /\ page.to \in 0 .. MaxMessages
        /\ stored \in 0 .. MaxMessages
    <2>1. page.to <= stored /\ page = UpTo(page.to)
      BY <1>1 DEF IInv, Pages
    <2>2. page.to \in 0 .. MaxMessages /\ stored \in 0 .. MaxMessages
      BY DEF IInv, TypeOK, Page, DeliveryTypeOK
    <2>3. QED
      BY <2>1, <2>2, DeliveryAssumption
  <1>3. /\ page.from \in 1 .. page.to + 1 /\ (page.to > 0 => page.from <= page.to)
        /\ page.more <=> page.from > 1
    BY <1>2, PageUpTo
  <1>4. /\ older = None /\ ~caught /\ \A s \in Syncs : sync[s].step = "idle" /\ ~tag[s]
    BY <1>1 DEF IInv, Pages
  <1>5. Floor' = page.from
    BY <1>1, <1>2, <1>3 DEF Floor
  <1>6. page.more => page.to > 0
    BY <1>2, <1>3
  <1>7. TypeOK'
    <2>1. view' \subseteq 1 .. stored
      BY <1>1, <1>2, <1>3, DeliveryAssumption
    <2>2. EmptyPage \in Page
      BY DeliveryAssumption DEF EmptyPage, Page
    <2>3. /\ nextCursor' \in Messages \cup {None} /\ (hasMore' => nextCursor' # None)
          /\ syncCursor' \in Messages \cup {None} /\ hasMore' \in BOOLEAN
      <3>1. page.more => page.from \in Messages /\ page.from # None
        BY <1>2, <1>3, <1>6, DeliveryAssumption DEF Messages
      <3>2. page.from .. page.to # {} => page.to \in Messages
        BY <1>2, <1>3, DeliveryAssumption DEF Messages
      <3>3. page.more \in BOOLEAN
        BY DEF IInv, TypeOK, Page
      <3>4. QED
        BY <1>1, <3>1, <3>2, <3>3
    <2>4. QED
      BY <1>1, <2>1, <2>2, <2>3, SameDelivery DEF Loaded, IInv, TypeOK
  <1>8. Pages'
    <2>1. page.more => page.from <= stored
      BY <1>2, <1>3, <1>6, DeliveryAssumption
    <2>2. QED
      BY <1>1, <1>4, <2>1 DEF IInv, Pages
  <1>9. Cursors'
    <2>1. page.from .. page.to # {} => page.to \in page.from .. stored
      BY <1>2, <1>3, DeliveryAssumption
    <2>2. QED
      BY <1>1, <1>4, <1>5, <2>1 DEF Cursors, Filled
  <1>10. Copies'
    <2>1. \A m \in view' : ~(m < Floor')
      BY <1>1, <1>2, <1>3, <1>5
    <2>2. \A m \in Messages : ownId'[m] # None => m <= stored' /\ ownId'[m] \in sent' /\ ownId'[m] \notin optimistic'
      BY <1>1 DEF IInv, Copies
    <2>3. \A i \in DOMAIN outbox' : outbox'[i] \in sent'
      BY <1>1 DEF IInv, Copies
    <2>4. QED
      BY <1>1, <2>1, <2>2, <2>3 DEF Copies
  <1>11. Covered'
    BY <1>1, <1>4 DEF Covered
  <1>12. QED
    BY <1>7, <1>8, <1>9, <1>10, <1>11 DEF IInv

\* The page fills what it uncovers; only what was in the list from before its beginning can
\* come twice.
LEMMA InvOlderLoaded == ASSUME IInv, OlderLoaded PROVE IInv'
  <1> DEFINE p == Before(older)
  <1>1. /\ older # None /\ older' = None
        /\ view' = view \cup (p.from .. p.to) /\ doubled' = doubled \cup (view \cap (p.from .. p.to))
        /\ hasMore' = p.more /\ nextCursor' = IF p.more THEN p.from ELSE nextCursor
        /\ UNCHANGED <<stored, ownId, due, bus, conn, queue, outbox, chat, page, optimistic, sent>>
        /\ UNCHANGED <<syncCursor, sync, tag, caught, late>>
    BY SameDelivery DEF OlderLoaded, On, history
  <1>2. /\ hasMore /\ older = nextCursor /\ nextCursor <= stored /\ chat = "ready"
        /\ nextCursor \in Messages /\ stored \in 0 .. MaxMessages /\ Floor = nextCursor
    BY <1>1 DEF IInv, Pages, TypeOK, DeliveryTypeOK, Floor
  <1>3. nextCursor - 1 \in 0 .. MaxMessages
    BY <1>2, DeliveryAssumption DEF Messages
  <1>4. /\ p \in Page /\ p.to = nextCursor - 1 /\ p.from \in 1 .. nextCursor
        /\ (nextCursor > 1 => p.from <= nextCursor - 1) /\ (p.more <=> p.from > 1)
    <2>1. p = UpTo(nextCursor - 1)
      BY <1>2 DEF Before
    <2>2. /\ p \in Page /\ p.to = nextCursor - 1 /\ p.from \in 1 .. (nextCursor - 1) + 1
          /\ (nextCursor - 1 > 0 => p.from <= nextCursor - 1) /\ (p.more <=> p.from > 1)
      BY <1>3, <2>1, PageUpTo
    <2>3. QED
      BY <1>2, <2>2 DEF Messages
  <1> HIDE DEF p
  <1>5. /\ Floor' = p.from /\ Floor' \in 1 .. nextCursor /\ nextCursor \in Nat \ {0} /\ stored \in Nat
        /\ p.from .. p.to = Floor' .. nextCursor - 1
    BY <1>1, <1>2, <1>4 DEF Floor, Messages
  <1>6. view' = view \cup (Floor' .. nextCursor - 1)
    BY <1>1, <1>5
  <1>7. TypeOK'
    <2>1. view' \subseteq 1 .. stored /\ doubled' \subseteq view'
      <3>1. view \subseteq 1 .. stored /\ doubled \subseteq view
        BY DEF IInv, TypeOK
      <3>2. Floor' .. nextCursor - 1 \subseteq 1 .. stored
        BY <1>2, <1>5
      <3>3. QED
        BY <1>1, <1>5, <1>6, <3>1, <3>2
    <2>2. /\ nextCursor' \in Messages /\ hasMore' \in BOOLEAN
      <3>1. p.from \in Messages
        BY <1>2, <1>4, DeliveryAssumption DEF Messages
      <3>2. p.more \in BOOLEAN
        BY <1>4 DEF Page
      <3>3. QED
        BY <1>1, <1>2, <3>1, <3>2
    <2>3. nextCursor' # None
      BY <2>2, DeliveryAssumption DEF Messages
    <2>4. QED
      BY <1>1, <2>1, <2>2, <2>3, SameDelivery DEF OlderLoaded, IInv, TypeOK
  <1>8. Pages'
    <2>1. nextCursor' <= stored
      BY <1>1, <1>2, <1>4, <1>5
    <2>2. UNCHANGED UpTo(page.to)
      BY <1>1 DEF UpTo, Lower
    <2>3. QED
      BY <1>1, <1>2, <2>1, <2>2 DEF IInv, Pages
  <1>9. ASSUME NEW c \in Nat, c \in Floor .. stored, Floor .. c \subseteq view
        PROVE  c \in Floor' .. stored /\ Floor' .. c \subseteq view'
    BY <1>2, <1>5, <1>6, <1>9
  <1>10. Cursors'
    <2>1. syncCursor # None => syncCursor \in Floor' .. stored /\ Floor' .. syncCursor \subseteq view'
      <3>1. syncCursor # None => syncCursor \in Floor .. stored /\ Floor .. syncCursor \subseteq view
        BY DEF IInv, Cursors, Filled
      <3>2. \A n \in Floor .. stored : n \in Nat
        BY <1>2, <1>5
      <3>3. QED
        BY <1>9, <3>1, <3>2
    <2>2. ASSUME NEW s \in Syncs, sync[s].step # "idle"
          PROVE  /\ sync[s].cursor # None
                 /\ sync[s].cursor \in Floor' .. stored /\ Floor' .. sync[s].cursor \subseteq view'
      <3>1. sync[s].cursor # None /\ sync[s].cursor \in Floor .. stored /\ Floor .. sync[s].cursor \subseteq view
        BY <2>2 DEF IInv, Cursors, Filled
      <3>2. \A n \in Floor .. stored : n \in Nat
        BY <1>2, <1>5
      <3>3. QED
        BY <1>9, <3>1, <3>2
    <2>3. \A s \in Syncs : sync[s].step = "read" =>
            /\ sync[s].page.from = sync[s].cursor + 1 /\ sync[s].page.to <= stored
            /\ sync[s].page.more => sync[s].page.to > sync[s].cursor
      BY DEF IInv, Cursors
    <2>4. QED
      BY <1>1, <2>1, <2>2, <2>3 DEF Cursors, Filled
  <1>11. Copies'
    <2>1. \A m \in view : m \in Nat
      BY DEF IInv, TypeOK
    <2>2. \A m \in view : m < nextCursor => m \in late
      BY <1>2 DEF IInv, Copies
    <2>3. doubled' \subseteq late
      <3>1. \A m \in Floor' .. nextCursor - 1 : m < nextCursor
        BY <1>5
      <3>2. view \cap (Floor' .. nextCursor - 1) \subseteq late
        BY <2>2, <3>1
      <3>3. doubled' = doubled \cup (view \cap (Floor' .. nextCursor - 1))
        BY <1>1, <1>5
      <3>4. QED
        BY <3>2, <3>3 DEF IInv, Copies
    <2>4. \A m \in view' : m < Floor' => m \in late
      BY <1>2, <1>5, <1>6, <2>1, <2>2
    <2>5. ASSUME NEW m \in Messages, ownId[m] # None
          PROVE  /\ m <= stored /\ ownId[m] \in sent
                 /\ ownId[m] \in optimistic => m >= Floor' /\ m \notin view'
      <3>1. /\ m <= stored /\ ownId[m] \in sent
            /\ ownId[m] \in optimistic => m >= nextCursor /\ m \notin view
        BY <1>2, <2>5 DEF IInv, Copies
      <3>2. m \in Nat
        BY DEF Messages
      <3>3. QED
        BY <1>2, <1>5, <1>6, <3>1, <3>2
    <2>6. QED
      BY <1>1, <2>3, <2>4, <2>5 DEF IInv, Copies
  <1>12. Covered'
    <2>1. \A m : Coming(m) => Coming(m)'
      BY SameDelivery DEF OlderLoaded
    <2>2. caught => \A m \in Floor' .. stored : m \in view' \/ Coming(m)'
      <3>1. \A m \in Floor' .. stored : m \in Floor' .. nextCursor - 1 \/ m \in Floor .. stored
        BY <1>2, <1>5
      <3>2. QED
        BY <1>6, <2>1, <3>1 DEF IInv, Covered
    <2>3. \A s \in Syncs : tag[s] /\ sync[s].step = "read" /\ ~sync[s].page.more =>
            \A m \in sync[s].page.to + 1 .. stored : m \in view' \/ Coming(m)'
      BY <1>6, <2>1 DEF IInv, Covered
    <2>4. QED
      BY <1>1, <2>2, <2>3 DEF IInv, Covered
  <1>13. QED
    BY <1>7, <1>8, <1>10, <1>11, <1>12 DEF IInv

\* No stored message has the id of one that has not been sent.
LEMMA InvSend == ASSUME IInv, NEW id \in OwnIds, Send(id) PROVE IInv'
  <1>1. /\ id \notin sent /\ sent' = sent \cup {id} /\ optimistic' = optimistic \cup {id}
        /\ outbox' \in {outbox, Append(outbox, id)}
        /\ UNCHANGED <<stored, ownId, due, bus, conn, queue, handling, faults>>
        /\ UNCHANGED <<chat, page, view, doubled, hasMore, nextCursor, older, syncCursor, sync>>
        /\ UNCHANGED <<tag, caught, late>>
    BY DEF Send, Submit, log, cursors, history
  <1>2. outbox \in Seq(OwnIds) /\ \A i \in DOMAIN outbox : outbox[i] \in sent
    BY IsSound DEF Sound, DeliveryTypeOK
  <1>3. outbox' \in Seq(OwnIds) /\ \A i \in DOMAIN outbox' : outbox'[i] \in sent'
    <2>1. CASE outbox' = outbox
      BY <1>1, <1>2, <2>1
    <2>2. CASE outbox' = Append(outbox, id)
      <3>1. /\ outbox' \in Seq(OwnIds) /\ Len(outbox) \in Nat
            /\ DOMAIN outbox = 1 .. Len(outbox) /\ DOMAIN outbox' = 1 .. Len(outbox) + 1
            /\ outbox'[Len(outbox) + 1] = id /\ \A i \in 1 .. Len(outbox) : outbox'[i] = outbox[i]
        BY <1>2, <2>2
      <3>2. \A i \in 1 .. Len(outbox) + 1 : i \in 1 .. Len(outbox) \/ i = Len(outbox) + 1
        BY <3>1
      <3>3. QED
        BY <1>1, <1>2, <3>1, <3>2
    <2>3. QED
      BY <1>1, <2>1, <2>2
  <1>4. UNCHANGED Floor
    BY <1>1 DEF Floor
  <1>5. TypeOK'
    <2>1. DeliveryTypeOK'
      BY <1>1, <1>3 DEF IInv, TypeOK, DeliveryTypeOK
    <2>2. optimistic' \subseteq sent' /\ sent' \subseteq OwnIds
      BY <1>1 DEF IInv, TypeOK
    <2>3. QED
      BY <1>1, <2>1, <2>2 DEF IInv, TypeOK
  <1>6. Pages'
    <2>1. UNCHANGED UpTo(page.to)
      BY <1>1 DEF UpTo, Lower
    <2>2. QED
      BY <1>1, <2>1 DEF IInv, Pages
  <1>7. Cursors'
    BY <1>1, <1>4 DEF IInv, Cursors, Filled
  <1>8. Copies'
    <2>1. ASSUME NEW m \in Messages, ownId[m] # None
          PROVE  /\ m <= stored /\ ownId[m] \in sent'
                 /\ ownId[m] \in optimistic' => m >= Floor /\ m \notin view
      BY <1>1, <2>1 DEF IInv, Copies
    <2>2. QED
      BY <1>1, <1>3, <1>4, <2>1 DEF IInv, Copies
  <1>9. Covered'
    BY <1>1, <1>4 DEF IInv, Covered, Coming
  <1>10. QED
    BY <1>5, <1>6, <1>7, <1>8, <1>9 DEF IInv

\* What was taken is no longer coming, and nothing else has changed.
LEMMA Taken ==
  ASSUME IInv, Take
  PROVE  /\ conn \in {"open", "dying"} /\ UNCHANGED <<stored, ownId, due, bus, conn, outbox, handling, faults>>
         /\ Head(queue) \in Event /\ Head(queue).message \in 1 .. stored
         /\ DeliveryTypeOK' /\ \A i \in DOMAIN queue' : queue'[i].message <= stored
         /\ \A m : Coming(m) => Coming(m)' \/ Head(queue) = [kind |-> "created", message |-> m]
  <1>1. /\ conn \in {"open", "dying"} /\ queue # <<>> /\ queue' = Tail(queue)
        /\ UNCHANGED <<stored, ownId, due, bus, conn, outbox, handling, faults>>
    BY DEF Take, log
  <1>2. /\ queue \in Seq(Event) /\ Len(queue) <= QueueMax /\ stored \in 0 .. MaxMessages
        /\ \A i \in DOMAIN queue : queue[i].message <= stored
    BY IsSound DEF Sound, DeliveryTypeOK
  <1>3. /\ Head(queue) \in Event /\ Head(queue) = queue[1] /\ Len(queue) \in Nat \ {0}
        /\ queue' \in Seq(Event) /\ Len(queue') = Len(queue) - 1
        /\ DOMAIN queue = 1 .. Len(queue) /\ DOMAIN queue' = 1 .. Len(queue) - 1
        /\ \A i \in 1 .. Len(queue) - 1 : queue'[i] = queue[i + 1]
    BY <1>1, <1>2, Rest
  <1>4. Head(queue).message \in 1 .. stored
    <2>1. Head(queue).message \in Messages
      BY <1>3 DEF Event
    <2>2. Head(queue).message <= stored
      BY <1>2, <1>3
    <2>3. QED
      BY <1>2, <2>1, <2>2 DEF Messages
  <1>5. \A i \in DOMAIN queue' : queue'[i].message <= stored
    <2>1. \A i \in 1 .. Len(queue) - 1 : i + 1 \in 1 .. Len(queue)
      BY <1>3
    <2>2. QED
      BY <1>2, <1>3, <2>1
  <1>6. DeliveryTypeOK'
    <2>1. Len(queue') <= QueueMax
      BY <1>2, <1>3, DeliveryAssumption
    <2>2. QED
      BY <1>1, <1>3, <2>1 DEF IInv, TypeOK, DeliveryTypeOK
  <1>7. ASSUME NEW m, Coming(m)
        PROVE  Coming(m)' \/ Head(queue) = [kind |-> "created", message |-> m]
    <2>1. CASE m \in due \/ \E i \in DOMAIN bus : bus[i] = m
      BY <1>1, <2>1 DEF Coming
    <2>2. CASE \E i \in DOMAIN queue : queue[i] = [kind |-> "created", message |-> m]
      <3>1. PICK i \in 1 .. Len(queue) : queue[i] = [kind |-> "created", message |-> m]
        BY <1>3, <2>2
      <3>2. CASE i = 1
        BY <1>3, <3>1, <3>2
      <3>3. CASE i # 1
        <4>1. i - 1 \in DOMAIN queue' /\ queue'[i - 1] = queue[i]
          BY <1>3, <3>3
        <4>2. QED
          BY <3>1, <4>1 DEF Coming
      <3>4. QED
        BY <3>2, <3>3
    <2>3. QED
      BY <1>7, <2>1, <2>2 DEF Coming
  <1>8. QED
    BY <1>1, <1>3, <1>4, <1>5, <1>6, <1>7

\* The list gains what an event brings, and no message it shows is waiting beside it.
LEMMA InvReceive == ASSUME IInv, Receive PROVE IInv'
  <1> DEFINE e == Head(queue)
  <1>1. Take /\ UNCHANGED <<chat, page, hasMore, nextCursor, older, sync, tag, caught>>
    BY DEF Receive
  <1>2. /\ conn \in {"open", "dying"} /\ UNCHANGED <<stored, ownId, due, bus, conn, outbox, handling, faults>>
        /\ e \in Event /\ e.message \in 1 .. stored
        /\ DeliveryTypeOK' /\ \A i \in DOMAIN queue' : queue'[i].message <= stored
        /\ \A m : Coming(m) => Coming(m)' \/ e = [kind |-> "created", message |-> m]
    BY <1>1, Taken
  <1>3. UNCHANGED Floor /\ Floor \in Nat
    BY <1>1, Floors DEF Floor, Messages
  <1>4. stored \in 0 .. MaxMessages /\ (chat # "ready" => Floor = 1 /\ ~caught /\ \A s \in Syncs : ~tag[s])
    BY DEF IInv, TypeOK, DeliveryTypeOK, Pages, Floor
  <1>5. /\ UNCHANGED <<sent, syncCursor>>
        /\ view' \in {view, view \cup {e.message}} /\ doubled' \in {{}, doubled}
        /\ optimistic' \subseteq optimistic /\ late' \subseteq Messages /\ late \subseteq late'
        /\ e.message \in view' /\ e.message \notin view /\ e.message < Floor => e.message \in late'
        /\ chat # "closed" /\ e.kind = "created" => e.message \in view'
        /\ e.message \in view' => ownId[e.message] \notin optimistic' \/ ownId[e.message] = None
                                  \/ e.message \in view
    <2>1. e.message \in Messages /\ late \subseteq Messages
      BY <1>2 DEF Event, IInv, TypeOK
    <2>2. CASE chat = "closed"
      BY <1>4, <2>1, <2>2 DEF Receive, lists
    <2>3. CASE chat # "closed" /\ e.kind = "created"
      <3>1. Created(e.message)
        BY <2>3 DEF Receive
      <3>2. /\ view' = view \cup {e.message} /\ doubled' = {} /\ UNCHANGED <<sent, syncCursor>>
            /\ optimistic' = optimistic \ OwnOf({e.message})
            /\ late' = IF chat = "ready" /\ e.message < Floor THEN late \cup {e.message} ELSE late
        BY <3>1 DEF Created, Merge
      <3>3. ownId[e.message] # None => ownId[e.message] \notin optimistic'
        BY <3>2 DEF OwnOf
      <3>4. e.message < Floor => e.message \in late'
        BY <1>2, <1>4, <3>2
      <3>5. QED
        BY <2>1, <3>2, <3>3, <3>4
    <2>4. CASE chat # "closed" /\ e.kind # "created"
      <3>1. Acked(e.message)
        BY <2>4 DEF Receive
      <3>2. CASE ownId[e.message] \in optimistic
        <4>1. /\ optimistic' = optimistic \ {ownId[e.message]} /\ view' = view \cup {e.message}
              /\ UNCHANGED <<doubled, sent, syncCursor, late>>
          BY <3>1, <3>2 DEF Acked
        <4>2. ownId[e.message] # None
          BY <3>2, DeliveryAssumption DEF IInv, TypeOK
        <4>3. e.message >= Floor
          BY <2>1, <3>2, <4>2 DEF IInv, Copies
        <4>4. ~(e.message < Floor)
          BY <1>2, <1>3, <1>4, <4>3
        <4>5. QED
          BY <2>1, <2>4, <4>1, <4>4
      <3>3. CASE ownId[e.message] \notin optimistic
        <4>1. UNCHANGED <<optimistic, view, doubled, sent, syncCursor, late>>
          BY <3>1, <3>3 DEF Acked
        <4>2. QED
          BY <2>1, <2>4, <4>1
      <3>4. QED
        BY <3>2, <3>3
    <2>5. QED
      BY <2>2, <2>3, <2>4
  <1> HIDE DEF e
  <1>6. TypeOK'
    <2>1. view' \subseteq 1 .. stored /\ doubled' \subseteq view' /\ optimistic' \subseteq sent
      BY <1>2, <1>5 DEF IInv, TypeOK
    <2>2. QED
      BY <1>1, <1>2, <1>5, <2>1 DEF IInv, TypeOK
  <1>7. Pages'
    <2>1. UNCHANGED UpTo(page.to)
      BY <1>1 DEF UpTo, Lower
    <2>2. QED
      BY <1>1, <1>2, <1>5, <2>1 DEF IInv, Pages
  <1>8. Cursors'
    <2>1. view \subseteq view'
      BY <1>5
    <2>2. syncCursor # None => syncCursor \in Floor .. stored /\ Floor .. syncCursor \subseteq view'
      BY <2>1 DEF IInv, Cursors, Filled
    <2>3. ASSUME NEW s \in Syncs
          PROVE  /\ sync[s].step # "idle" => /\ sync[s].cursor # None
                                              /\ sync[s].cursor \in Floor .. stored
                                              /\ Floor .. sync[s].cursor \subseteq view'
                 /\ sync[s].step = "read" =>
                      /\ sync[s].page.from = sync[s].cursor + 1 /\ sync[s].page.to <= stored
                      /\ sync[s].page.more => sync[s].page.to > sync[s].cursor
      BY <2>1 DEF IInv, Cursors, Filled
    <2>4. QED
      BY <1>1, <1>2, <1>3, <1>5, <2>2, <2>3 DEF Cursors, Filled
  <1>9. Copies'
    <2>1. doubled' \subseteq late'
      BY <1>5 DEF IInv, Copies
    <2>2. ASSUME NEW m \in view', m < Floor
          PROVE  m \in late'
      BY <1>5, <2>2 DEF IInv, Copies
    <2>3. ASSUME NEW m \in Messages, ownId[m] # None
          PROVE  /\ m <= stored /\ ownId[m] \in sent
                 /\ ownId[m] \in optimistic' => m >= Floor /\ m \notin view'
      BY <1>5, <2>3 DEF IInv, Copies
    <2>4. QED
      BY <1>2, <1>3, <1>5, <2>1, <2>2, <2>3 DEF IInv, Copies
  <1>10. Covered'
    <2>1. ASSUME chat = "ready", NEW m, m \in view \/ Coming(m)
          PROVE  m \in view' \/ Coming(m)'
      <3>1. CASE m \in view
        BY <1>5, <3>1
      <3>2. CASE Coming(m)
        <4>1. CASE e = [kind |-> "created", message |-> m]
          BY <1>5, <2>1, <4>1
        <4>2. QED
          BY <1>2, <3>2, <4>1
      <3>3. QED
        BY <2>1, <3>1, <3>2
    <2>2. caught => conn = "open" /\ \A m \in Floor .. stored : m \in view' \/ Coming(m)'
      BY <1>4, <2>1 DEF IInv, Covered
    <2>3. ASSUME NEW s \in Syncs, tag[s]
          PROVE  /\ conn = "open"
                 /\ sync[s].step = "read" /\ ~sync[s].page.more =>
                      \A m \in sync[s].page.to + 1 .. stored : m \in view' \/ Coming(m)'
      BY <1>4, <2>1, <2>3 DEF IInv, Covered
    <2>4. QED
      BY <1>1, <1>2, <1>3, <2>2, <2>3 DEF Covered
  <1>11. QED
    BY <1>6, <1>7, <1>8, <1>9, <1>10 DEF IInv

-----------------------------------------------------------------------------
(* Synchronization *)

\* What a step of synchronizations has to show when the list stays as it is.
LEMMA SameView ==
  ASSUME IInv, DeliveryTypeOK',
         UNCHANGED <<stored, ownId, due, bus, queue, outbox>>,
         UNCHANGED <<chat, page, lists, cursors, late>>,
         sync' \in [Syncs -> [step : {"idle", "asked", "read"}, cursor : Messages \cup {None}, page : Page]],
         tag' \in [Syncs -> BOOLEAN],
         \A s \in Syncs :
           /\ chat # "ready" => sync'[s].step = "idle" /\ ~tag'[s]
           /\ sync'[s].step # "idle" => sync'[s].cursor # None /\ Filled(sync'[s].cursor)
           /\ sync'[s].step = "read" =>
                /\ sync'[s].page.from = sync'[s].cursor + 1 /\ sync'[s].page.to <= stored
                /\ sync'[s].page.more => sync'[s].page.to > sync'[s].cursor
           /\ tag'[s] =>
                /\ conn' = "open"
                /\ sync'[s].step = "read" /\ ~sync'[s].page.more =>
                     \A m \in sync'[s].page.to + 1 .. stored : m \in view \/ Coming(m),
         UNCHANGED caught, caught => conn' = conn
  PROVE  IInv'
  <1>1. /\ UNCHANGED <<view, doubled, optimistic, sent, hasMore, nextCursor, older, syncCursor>>
        /\ UNCHANGED UpTo(page.to)
    BY DEF lists, cursors, UpTo, Lower
  <1>2. UNCHANGED Floor
    BY <1>1 DEF Floor
  <1>3. TypeOK'
    BY <1>1 DEF IInv, TypeOK
  <1>4. Pages'
    BY <1>1 DEF IInv, Pages
  <1>5. Cursors'
    BY <1>1, <1>2 DEF IInv, Cursors, Filled
  <1>6. Copies'
    BY <1>1, <1>2 DEF IInv, Copies
  <1>7. \A m : Coming(m) => Coming(m)'
    BY DEF Coming
  <1>8. Covered'
    BY <1>1, <1>2, <1>7 DEF IInv, Covered
  <1>9. QED
    BY <1>3, <1>4, <1>5, <1>6, <1>8 DEF IInv

\* A synchronization from a cursor.
LEMMA AskedFrom ==
  ASSUME NEW n
  PROVE  [NoSync EXCEPT !.step = "asked", !.cursor = n] = [step |-> "asked", cursor |-> n, page |-> EmptyPage]
  <1> DEFINE R == [NoSync EXCEPT !.step = "asked"]
  <1>1. R = [step |-> "asked", cursor |-> None, page |-> EmptyPage]
    BY DEF NoSync
  <1> HIDE DEF R
  <1>2. [R EXCEPT !.cursor = n] = [step |-> "asked", cursor |-> n, page |-> EmptyPage]
    BY <1>1
  <1>3. QED
    BY <1>2 DEF R

\* The cursor it starts from is one the list is filled up to.
LEMMA InvConnect == ASSUME IInv, Connect PROVE IInv'
  <1>1. /\ conn = "down" /\ conn' = "dialing"
        /\ UNCHANGED <<stored, ownId, due, bus, queue, outbox, handling, faults>>
        /\ UNCHANGED <<chat, page, lists, cursors, tag, caught, late>>
    BY DEF Connect, Dial, log, history
  <1>2. DeliveryTypeOK'
    BY <1>1 DEF IInv, TypeOK, DeliveryTypeOK
  <1>3. ~caught /\ \A s \in Syncs : ~tag[s]
    BY <1>1 DEF IInv, Covered
  <1>4. sync' = sync \/ \E s \in Syncs : chat # "closed" /\ syncCursor # None
          /\ sync' = [sync EXCEPT ![s] = [step |-> "asked", cursor |-> syncCursor, page |-> EmptyPage]]
    BY AskedFrom DEF Connect
  <1>5. EmptyPage \in Page
    BY DeliveryAssumption DEF EmptyPage, Page
  <1>6. \A s \in Syncs :
          \/ sync'[s] = sync[s]
          \/ /\ sync'[s] = [step |-> "asked", cursor |-> syncCursor, page |-> EmptyPage]
             /\ chat = "ready" /\ syncCursor # None
    <2>1. chat # "closed" /\ syncCursor # None => chat = "ready"
      BY DEF IInv, Pages
    <2>2. sync = [s \in Syncs |-> sync[s]]
      BY DEF IInv, TypeOK
    <2>3. CASE sync' = sync
      BY <2>3
    <2>4. CASE sync' # sync
      <3>1. PICK r \in Syncs : /\ chat # "closed" /\ syncCursor # None
              /\ sync' = [sync EXCEPT ![r] = [step |-> "asked", cursor |-> syncCursor, page |-> EmptyPage]]
        BY <1>4, <2>4
      <3>2. \A s \in Syncs : sync'[s] = IF s = r THEN [step |-> "asked", cursor |-> syncCursor, page |-> EmptyPage]
                                         ELSE sync[s]
        BY <2>2, <3>1
      <3>3. QED
        BY <2>1, <3>1, <3>2
    <2>5. QED
      BY <2>3, <2>4
  <1>7. sync' \in [Syncs -> [step : {"idle", "asked", "read"}, cursor : Messages \cup {None}, page : Page]]
    <2>1. [step |-> "asked", cursor |-> syncCursor, page |-> EmptyPage]
            \in [step : {"idle", "asked", "read"}, cursor : Messages \cup {None}, page : Page]
      BY <1>5 DEF IInv, TypeOK
    <2>2. QED
      BY <1>4, <2>1 DEF IInv, TypeOK
  <1>8. ASSUME NEW s \in Syncs
        PROVE  /\ chat # "ready" => sync'[s].step = "idle" /\ ~tag'[s]
               /\ sync'[s].step # "idle" => sync'[s].cursor # None /\ Filled(sync'[s].cursor)
               /\ sync'[s].step = "read" =>
                    /\ sync'[s].page.from = sync'[s].cursor + 1 /\ sync'[s].page.to <= stored
                    /\ sync'[s].page.more => sync'[s].page.to > sync'[s].cursor
               /\ ~tag'[s]
    <2>1. CASE sync'[s] = sync[s]
      BY <1>1, <1>3, <2>1 DEF IInv, Pages, Cursors
    <2>2. CASE /\ sync'[s] = [step |-> "asked", cursor |-> syncCursor, page |-> EmptyPage]
               /\ chat = "ready" /\ syncCursor # None
      BY <1>1, <1>3, <2>2 DEF IInv, Cursors
    <2>3. QED
      BY <1>6, <2>1, <2>2
  <1>9. tag' \in [Syncs -> BOOLEAN]
    BY <1>1 DEF IInv, TypeOK
  <1>10. QED
    BY <1>1, <1>2, <1>3, <1>7, <1>8, <1>9, SameView

\* A page that ends the conversation leaves nothing out.
LEMMA InvReadSync == ASSUME IInv, NEW r \in Syncs, ReadSync(r) PROVE IInv'
  <1>1. /\ sync[r].step = "asked"
        /\ sync' = [sync EXCEPT ![r].step = "read", ![r].page = After(sync[r].cursor)]
        /\ tag' = [tag EXCEPT ![r] = tag[r] \/ conn = "open"]
        /\ UNCHANGED <<stored, ownId, due, bus, conn, queue, outbox, handling, faults>>
        /\ UNCHANGED <<chat, page, lists, cursors, caught, late>>
    BY SameDelivery DEF ReadSync
  <1>2. DeliveryTypeOK'
    BY <1>1 DEF IInv, TypeOK, DeliveryTypeOK
  <1>3. /\ sync[r].cursor \in Messages /\ sync[r].cursor <= stored /\ stored \in 0 .. MaxMessages
        /\ sync[r].cursor # None /\ Filled(sync[r].cursor) /\ chat = "ready"
    <2>1. sync[r].cursor # None /\ Filled(sync[r].cursor) /\ chat = "ready"
      BY <1>1 DEF IInv, Cursors, Pages
    <2>2. sync[r].cursor \in Messages /\ stored \in 0 .. MaxMessages
      BY <2>1 DEF IInv, TypeOK, DeliveryTypeOK
    <2>3. QED
      BY <2>1, <2>2, Floors DEF Filled, Messages
  <1> DEFINE p == After(sync[r].cursor)
  <1>4. /\ p \in Page /\ p.from = sync[r].cursor + 1 /\ p.to \in sync[r].cursor .. stored
        /\ p.more => p.to > sync[r].cursor
        /\ ~p.more => p.to = stored
    BY <1>3, PageAfter
  <1> HIDE DEF p
  <1>5. /\ sync'[r].step = "read" /\ sync'[r].cursor = sync[r].cursor /\ sync'[r].page = p
        /\ \A s \in Syncs : s # r => sync'[s] = sync[s] /\ tag'[s] = tag[s]
        /\ tag'[r] => tag[r] \/ conn = "open"
    BY <1>1 DEF IInv, TypeOK, p
  <1>6. sync' \in [Syncs -> [step : {"idle", "asked", "read"}, cursor : Messages \cup {None}, page : Page]]
    <2>1. sync[r] \in [step : {"idle", "asked", "read"}, cursor : Messages \cup {None}, page : Page]
      BY DEF IInv, TypeOK
    <2>2. [sync[r] EXCEPT !.step = "read", !.page = p]
            \in [step : {"idle", "asked", "read"}, cursor : Messages \cup {None}, page : Page]
      BY <1>4, <2>1
    <2>3. sync' = [sync EXCEPT ![r] = [sync[r] EXCEPT !.step = "read", !.page = p]]
      BY <1>1 DEF IInv, TypeOK, p
    <2>4. QED
      BY <2>2, <2>3 DEF IInv, TypeOK
  <1>7. tag' \in [Syncs -> BOOLEAN]
    BY <1>1 DEF IInv, TypeOK
  <1>8. ASSUME NEW s \in Syncs
        PROVE  /\ chat # "ready" => sync'[s].step = "idle" /\ ~tag'[s]
               /\ sync'[s].step # "idle" => sync'[s].cursor # None /\ Filled(sync'[s].cursor)
               /\ sync'[s].step = "read" =>
                    /\ sync'[s].page.from = sync'[s].cursor + 1 /\ sync'[s].page.to <= stored
                    /\ sync'[s].page.more => sync'[s].page.to > sync'[s].cursor
               /\ tag'[s] =>
                    /\ conn' = "open"
                    /\ sync'[s].step = "read" /\ ~sync'[s].page.more =>
                         \A m \in sync'[s].page.to + 1 .. stored : m \in view \/ Coming(m)
    <2>1. CASE s # r
      BY <1>1, <1>5, <2>1 DEF IInv, Pages, Cursors, Covered
    <2>2. CASE s = r
      <3>1. p.to <= stored /\ (~p.more => p.to + 1 .. stored = {})
        BY <1>3, <1>4
      <3>2. tag[r] => conn = "open"
        BY DEF IInv, Covered
      <3>3. QED
        BY <1>1, <1>3, <1>4, <1>5, <2>2, <3>1, <3>2
    <2>3. QED
      BY <2>1, <2>2
  <1>9. QED
    BY <1>1, <1>2, <1>6, <1>7, <1>8, SameView

LEMMA InvSyncFails == ASSUME IInv, NEW r \in Syncs, SyncFails(r) PROVE IInv'
  <1>1. /\ sync' = [sync EXCEPT ![r] = NoSync] /\ tag' = [tag EXCEPT ![r] = FALSE]
        /\ UNCHANGED <<stored, ownId, due, bus, conn, queue, outbox, handling, faults>>
        /\ UNCHANGED <<chat, page, lists, cursors, caught, late>>
    BY SameDelivery DEF SyncFails
  <1>2. DeliveryTypeOK'
    BY <1>1 DEF IInv, TypeOK, DeliveryTypeOK
  <1>3. /\ NoSync.step = "idle"
        /\ NoSync \in [step : {"idle", "asked", "read"}, cursor : Messages \cup {None}, page : Page]
    BY DeliveryAssumption DEF NoSync, EmptyPage, Page
  <1>4. /\ sync' \in [Syncs -> [step : {"idle", "asked", "read"}, cursor : Messages \cup {None}, page : Page]]
        /\ tag' \in [Syncs -> BOOLEAN]
        /\ sync'[r] = NoSync /\ ~tag'[r] /\ \A s \in Syncs : s # r => sync'[s] = sync[s] /\ tag'[s] = tag[s]
    BY <1>1, <1>3 DEF IInv, TypeOK
  <1>5. ASSUME NEW s \in Syncs
        PROVE  /\ chat # "ready" => sync'[s].step = "idle" /\ ~tag'[s]
               /\ sync'[s].step # "idle" => sync'[s].cursor # None /\ Filled(sync'[s].cursor)
               /\ sync'[s].step = "read" =>
                    /\ sync'[s].page.from = sync'[s].cursor + 1 /\ sync'[s].page.to <= stored
                    /\ sync'[s].page.more => sync'[s].page.to > sync'[s].cursor
               /\ tag'[s] =>
                    /\ conn' = "open"
                    /\ sync'[s].step = "read" /\ ~sync'[s].page.more =>
                         \A m \in sync'[s].page.to + 1 .. stored : m \in view \/ Coming(m)
    <2>1. CASE s # r
      BY <1>1, <1>4, <2>1 DEF IInv, Pages, Cursors, Covered
    <2>2. CASE s = r
      BY <1>3, <1>4, <2>2
    <2>3. QED
      BY <2>1, <2>2
  <1>6. QED
    BY <1>1, <1>2, <1>4, <1>5, SameView

\* The page continues what the list is filled with, whatever came in between; the last one
\* completes it.
LEMMA InvMergeSync == ASSUME IInv, NEW r \in Syncs, MergeSync(r) PROVE IInv'
  <1> DEFINE p == sync[r].page
             c == sync[r].cursor
             S == p.from .. p.to
  <1>1. /\ sync[r].step = "read"
        /\ view' = view \cup S /\ doubled' = {} /\ optimistic' = optimistic \ OwnOf(S)
        /\ syncCursor' = IF S # {} THEN p.to ELSE syncCursor
        /\ sync' = [sync EXCEPT ![r] = IF p.more THEN [step |-> "asked", cursor |-> p.to, page |-> EmptyPage] ELSE NoSync]
        /\ caught' = (caught \/ (tag[r] /\ ~p.more))
        /\ tag' = [tag EXCEPT ![r] = tag[r] /\ p.more]
        /\ UNCHANGED <<stored, ownId, due, bus, conn, queue, outbox, handling, faults>>
        /\ UNCHANGED <<chat, page, sent, hasMore, nextCursor, older, late>>
    BY SameDelivery, AskedFrom DEF MergeSync, Merge, On
  <1>2. /\ chat = "ready" /\ c # None /\ c \in Floor .. stored /\ Floor .. c \subseteq view
        /\ p.from = c + 1 /\ p.to <= stored /\ (p.more => p.to > c)
    BY <1>1 DEF IInv, Pages, Cursors, Filled
  <1>3. /\ Floor \in Nat \ {0} /\ c \in Nat /\ stored \in 0 .. MaxMessages /\ p.to \in 0 .. MaxMessages
        /\ p.more \in BOOLEAN /\ p.to \in Nat /\ stored \in Nat
    <2>1. Floor \in Nat \ {0}
      BY Floors DEF Messages
    <2>2. stored \in 0 .. MaxMessages /\ p \in Page
      BY DEF IInv, TypeOK, DeliveryTypeOK
    <2>3. p.to \in 0 .. MaxMessages /\ p.more \in BOOLEAN
      BY <2>2 DEF Page
    <2>4. QED
      BY <1>2, <2>1, <2>2, <2>3, DeliveryAssumption
  <1> HIDE DEF p, c
  <1>4. S = c + 1 .. p.to /\ S \subseteq 1 .. stored
    BY <1>2, <1>3
  <1>5. UNCHANGED Floor /\ UNCHANGED UpTo(page.to)
    BY <1>1 DEF Floor, UpTo, Lower
  <1>6. S # {} => p.to \in Floor .. stored /\ Floor .. p.to \subseteq view'
    <2>1. S # {} => p.to > c
      <3>1. ~(p.to > c) => c + 1 .. p.to = {}
        BY <1>3
      <3>2. QED
        BY <1>4, <3>1
    <2>2. \A m \in Floor .. p.to : m \in Floor .. c \/ m \in c + 1 .. p.to
      BY <1>2, <1>3
    <2>3. QED
      BY <1>1, <1>2, <1>3, <1>4, <2>1, <2>2
  <1>7. p.more => S # {} /\ p.to \in Messages
    <2>1. p.more => p.to \in c + 1 .. p.to /\ p.to \in 1 .. MaxMessages
      BY <1>2, <1>3
    <2>2. QED
      BY <1>4, <2>1 DEF Messages
  <1>8. /\ p.more => sync'[r] = [step |-> "asked", cursor |-> p.to, page |-> EmptyPage]
        /\ ~p.more => sync'[r] = NoSync /\ ~tag'[r]
        /\ tag'[r] => tag[r]
        /\ \A s \in Syncs : s # r => sync'[s] = sync[s] /\ tag'[s] = tag[s]
    BY <1>1, <1>3 DEF IInv, TypeOK
  <1>9. TypeOK'
    <2>1. DeliveryTypeOK'
      BY <1>1 DEF IInv, TypeOK, DeliveryTypeOK
    <2>2. view' \subseteq 1 .. stored /\ doubled' \subseteq view' /\ optimistic' \subseteq sent
      BY <1>1, <1>4 DEF IInv, TypeOK
    <2>3. syncCursor' \in Messages \cup {None}
      <3>1. S # {} => p.to \in Messages
        BY <1>3, <1>4 DEF Messages
      <3>2. QED
        BY <1>1, <3>1 DEF IInv, TypeOK
    <2>4. EmptyPage \in Page
      BY DeliveryAssumption DEF EmptyPage, Page
    <2>5. /\ p.more => [step |-> "asked", cursor |-> p.to, page |-> EmptyPage]
                          \in [step : {"idle", "asked", "read"}, cursor : Messages \cup {None}, page : Page]
          /\ NoSync \in [step : {"idle", "asked", "read"}, cursor : Messages \cup {None}, page : Page]
      BY <1>7, <2>4 DEF NoSync
    <2>6. sync' \in [Syncs -> [step : {"idle", "asked", "read"}, cursor : Messages \cup {None}, page : Page]]
      BY <1>1, <1>3, <2>5 DEF IInv, TypeOK
    <2>7. tag' \in [Syncs -> BOOLEAN] /\ caught' \in BOOLEAN
      BY <1>1, <1>3 DEF IInv, TypeOK
    <2>8. QED
      BY <1>1, <2>1, <2>2, <2>3, <2>6, <2>7 DEF IInv, TypeOK
  <1>10. Pages'
    BY <1>1, <1>2, <1>5 DEF IInv, Pages
  <1>11. Cursors'
    <2>1. view \subseteq view'
      BY <1>1
    <2>2. syncCursor' # None => syncCursor' \in Floor .. stored /\ Floor .. syncCursor' \subseteq view'
      BY <1>1, <1>6, <2>1 DEF IInv, Cursors, Filled
    <2>3. ASSUME NEW s \in Syncs
          PROVE  /\ sync'[s].step # "idle" => /\ sync'[s].cursor # None
                                               /\ sync'[s].cursor \in Floor .. stored
                                               /\ Floor .. sync'[s].cursor \subseteq view'
                 /\ sync'[s].step = "read" =>
                      /\ sync'[s].page.from = sync'[s].cursor + 1 /\ sync'[s].page.to <= stored
                      /\ sync'[s].page.more => sync'[s].page.to > sync'[s].cursor
      <3>1. CASE s # r
        BY <1>8, <2>1, <3>1 DEF IInv, Cursors, Filled
      <3>2. CASE s = r /\ p.more
        <4>1. p.to # None
          BY <1>3, DeliveryAssumption
        <4>2. QED
          BY <1>6, <1>7, <1>8, <3>2, <4>1
      <3>3. CASE s = r /\ ~p.more
        BY <1>8, <3>3 DEF NoSync
      <3>4. QED
        BY <3>1, <3>2, <3>3
    <2>4. QED
      BY <1>1, <1>5, <2>2, <2>3 DEF Cursors, Filled
  <1>12. Copies'
    <2>1. \A m \in S : ~(m < Floor)
      BY <1>2, <1>3, <1>4
    <2>2. \A m \in view' : m < Floor => m \in late
      BY <1>1, <2>1 DEF IInv, Copies
    <2>3. ASSUME NEW m \in Messages, ownId[m] # None
          PROVE  /\ m <= stored /\ ownId[m] \in sent
                 /\ ownId[m] \in optimistic' => m >= Floor /\ m \notin view'
      <3>1. m \in S => ownId[m] \notin optimistic'
        BY <1>1, <2>3 DEF OwnOf
      <3>2. QED
        BY <1>1, <2>3, <3>1 DEF IInv, Copies
    <2>4. QED
      BY <1>1, <1>5, <2>2, <2>3 DEF IInv, Copies
  <1>13. Covered'
    <2>1. \A m : m \in view \/ Coming(m) => m \in view' \/ Coming(m)'
      BY <1>1 DEF Coming
    <2>2. ASSUME caught'
          PROVE  conn = "open" /\ \A m \in Floor .. stored : m \in view' \/ Coming(m)'
      <3>1. CASE caught
        BY <2>1, <3>1 DEF IInv, Covered
      <3>2. CASE tag[r] /\ ~p.more
        <4>1. conn = "open" /\ \A m \in p.to + 1 .. stored : m \in view \/ Coming(m)
          BY <1>1, <3>2 DEF IInv, Covered, p
        <4>2. \A m \in Floor .. stored : m \in Floor .. c \/ m \in S \/ m \in p.to + 1 .. stored
          BY <1>2, <1>3, <1>4
        <4>3. QED
          BY <1>1, <1>2, <2>1, <4>1, <4>2
      <3>3. QED
        BY <1>1, <2>2, <3>1, <3>2
    <2>3. ASSUME NEW s \in Syncs, tag'[s]
          PROVE  /\ conn = "open"
                 /\ sync'[s].step = "read" /\ ~sync'[s].page.more =>
                      \A m \in sync'[s].page.to + 1 .. stored : m \in view' \/ Coming(m)'
      <3>1. CASE s # r
        BY <1>8, <2>1, <2>3, <3>1 DEF IInv, Covered
      <3>2. CASE s = r
        <4>1. tag[r] /\ p.more
          BY <1>3, <1>8, <2>3, <3>2
        <4>2. sync'[r].step = "asked" /\ conn = "open"
          BY <1>8, <4>1 DEF IInv, Covered
        <4>3. QED
          BY <3>2, <4>2
      <3>3. QED
        BY <3>1, <3>2
    <2>4. QED
      BY <1>1, <1>5, <2>2, <2>3 DEF Covered
  <1>14. QED
    BY <1>9, <1>10, <1>11, <1>12, <1>13 DEF IInv

-----------------------------------------------------------------------------
(* The invariant *)

LEMMA InvInit == Init => IInv
  <1>1. ASSUME Init
        PROVE  IInv
    <2>1. /\ stored = 0 /\ ownId = [m \in Messages |-> None] /\ due = {} /\ bus = <<>>
          /\ conn = "open" /\ queue = <<>> /\ outbox = <<>> /\ handling = None /\ faults = 0
          /\ chat = "closed" /\ page = EmptyPage
          /\ view = {} /\ doubled = {} /\ optimistic = {} /\ sent = {}
          /\ hasMore = FALSE /\ nextCursor = None /\ older = None /\ syncCursor = None
          /\ sync = [s \in Syncs |-> NoSync]
          /\ tag = [s \in Syncs |-> FALSE] /\ caught = FALSE /\ late = {}
      BY <1>1 DEF Init, DeliveryInit
    <2>2. /\ EmptyPage \in Page
          /\ NoSync \in [step : {"idle", "asked", "read"}, cursor : Messages \cup {None}, page : Page]
          /\ NoSync.step = "idle"
      BY DeliveryAssumption DEF NoSync, EmptyPage, Page
    <2>3. DeliveryTypeOK
      <3>1. /\ bus \in Seq(1 .. stored) /\ queue \in Seq(Event) /\ Len(queue) = 0 /\ outbox \in Seq(OwnIds)
            /\ 0 <= QueueMax /\ stored \in 0 .. MaxMessages /\ faults \in 0 .. MaxFaults
        BY <2>1, DeliveryAssumption
      <3>2. QED
        BY <2>1, <3>1, DeliveryAssumption DEF DeliveryTypeOK
    <2>4. TypeOK
      BY <2>1, <2>2, <2>3 DEF TypeOK
    <2>5. DOMAIN queue = {} /\ DOMAIN outbox = {}
      BY <2>1
    <2>6. \A s \in Syncs : sync[s].step = "idle" /\ ~tag[s]
      BY <2>1, <2>2
    <2>7. Pages
      BY <2>1, <2>5, <2>6 DEF Pages
    <2>8. Cursors
      BY <2>1, <2>6 DEF Cursors
    <2>9. Copies
      BY <2>1, <2>5 DEF Copies
    <2>10. Covered
      BY <2>1, <2>6 DEF Covered
    <2>11. QED
      BY <2>4, <2>7, <2>8, <2>9, <2>10 DEF IInv
  <1>2. QED
    BY <1>1

LEMMA InvOutgoing == ASSUME IInv, Outgoing PROVE IInv'
  <1>1. UNCHANGED <<chat, page, lists, cursors, sync>> /\ UNCHANGED sent
    BY DEF Outgoing, lists
  <1>2. Sound' /\ Grows /\ (conn' = conn => Keeps)
    BY <1>1, IsSound, SoundBroadcast, SoundAcknowledge DEF Outgoing
  <1>3. CASE conn' # conn
    <2>1. Loss
      BY <1>3 DEF Outgoing
    <2>2. QED
      BY <1>1, <1>2, <2>1, Delivered
  <1>4. CASE conn' = conn
    <2>1. UNCHANGED history
      BY <1>4 DEF Outgoing
    <2>2. QED
      BY <1>1, <1>2, <1>4, <2>1, Delivered
  <1>5. QED
    BY <1>3, <1>4

LEMMA InvIncoming == ASSUME IInv, Incoming PROVE IInv'
  <1>1. UNCHANGED <<chat, page, lists, cursors, sync>> /\ UNCHANGED sent /\ UNCHANGED history
    BY DEF Incoming, app, lists
  <1>2. Sound' /\ Grows /\ Keeps
    BY <1>1, IsSound, SoundCommit, SoundHandle, SoundRegister, SoundHangup, SoundPublish, SoundRepeat
       DEF Incoming
  <1>3. QED
    BY <1>1, <1>2, Delivered

LEMMA InvTrouble == ASSUME IInv, Trouble PROVE IInv'
  <1>1. UNCHANGED <<chat, page, lists, cursors, sync>> /\ UNCHANGED sent /\ Loss
    BY DEF Trouble, lists
  <1>2. Sound' /\ Grows
    BY <1>1, IsSound, SoundBreak, SoundDialFails, SoundLose, SoundPublishFails DEF Trouble
  <1>3. QED
    BY <1>1, <1>2, Delivered

LEMMA InvStutter == ASSUME IInv, UNCHANGED vars PROVE IInv'
  <1>1. UNCHANGED <<delivery, lists, hasMore, nextCursor, syncCursor, sync, history>>
    BY DEF vars, app, cursors
  <1>2. UNCHANGED <<chat, page, older, view, doubled, optimistic, sent, tag, caught, late>>
    BY DEF vars, app, cursors, lists, history
  <1>3. TypeOK'
    BY <1>1, <1>2, SameDelivery DEF IInv, TypeOK
  <1>4. UNCHANGED UpTo(page.to)
    BY <1>2 DEF UpTo, Lower
  <1>5. Pages'
    BY <1>1, <1>2, <1>4, SameDelivery DEF IInv, Pages
  <1>6. QED
    BY <1>1, <1>3, <1>5, SameList

\* In every state the pages, the cursors, the copies and what is still coming agree (ChatCubit,
\* the hub's queue and what lies between).
THEOREM ViewInvariance == Spec => []IInv
  <1>1. IInv /\ [Next]_vars => IInv'
    <2>1. SUFFICES ASSUME IInv, [Next]_vars
                   PROVE  IInv'
      OBVIOUS
    <2>2. CASE Outgoing \/ Incoming \/ Trouble
      BY <2>1, <2>2, InvOutgoing, InvIncoming, InvTrouble
    <2>3. CASE Connect \/ Receive
      BY <2>1, <2>3, InvConnect, InvReceive
    <2>4. CASE Open \/ Read \/ Loaded \/ LoadFails
      BY <2>1, <2>4, InvOpen, InvRead, InvLoaded, InvLoadFails
    <2>5. CASE AskOlder \/ OlderLoaded \/ OlderFails
      BY <2>1, <2>5, InvAskOlder, InvOlderLoaded, InvOlderFails
    <2>6. CASE \E id \in OwnIds : Send(id)
      BY <2>1, <2>6, InvSend
    <2>7. CASE \E s \in Syncs : ReadSync(s) \/ MergeSync(s) \/ SyncFails(s)
      BY <2>1, <2>7, InvReadSync, InvMergeSync, InvSyncFails
    <2>8. CASE UNCHANGED vars
      BY <2>1, <2>8, InvStutter
    <2>9. QED
      BY <2>1, <2>2, <2>3, <2>4, <2>5, <2>6, <2>7, <2>8 DEF Next
  <1>2. QED
    BY <1>1, InvInit, PTL DEF Spec

-----------------------------------------------------------------------------
(* What the user sees *)

\* Behind its cursor the list has every message from where it begins, however the first page,
\* older ones, events and overlapping synchronizations met.
THEOREM NothingSkipped == Spec => []NoGap
  <1>1. IInv => NoGap
    BY DEF IInv, Cursors, Filled, NoGap
  <1>2. QED
    BY <1>1, ViewInvariance, PTL

\* Nothing is shown twice but what came as an event from before the list's beginning, and no
\* stored message stands beside its own optimistic copy.
THEOREM NothingTwice == Spec => []ShownOnce
  <1>1. ASSUME IInv
        PROVE  ShownOnce
    <2>1. doubled \subseteq late
      BY <1>1 DEF IInv, Copies
    <2>2. ASSUME NEW o \in OwnOf(view) \cap optimistic
          PROVE  FALSE
      <3>1. PICK m \in view : ownId[m] = o /\ o # None
        BY <2>2 DEF OwnOf
      <3>2. m \in Messages
        BY <1>1, DeliveryAssumption DEF IInv, TypeOK, DeliveryTypeOK, Messages
      <3>3. QED
        BY <1>1, <2>2, <3>1, <3>2 DEF IInv, Copies
    <2>3. QED
      BY <2>1, <2>2 DEF ShownOnce
  <1>2. QED
    BY <1>1, ViewInvariance, PTL

\* A quiet chat that has synchronized to the end while the hub knew its connection has every
\* message from where it begins, until something is lost.
THEOREM OnlineIsComplete == Spec => []CaughtUpOnline
  <1>1. ASSUME IInv, Quiet, caught
        PROVE  Floor .. stored \subseteq view
    <2>1. \A m : ~Coming(m)
      BY <1>1 DEF Quiet, Coming
    <2>2. QED
      BY <1>1, <2>1 DEF IInv, Covered
  <1>2. IInv => CaughtUpOnline
    BY <1>1 DEF CaughtUpOnline
  <1>3. QED
    BY <1>2, ViewInvariance, PTL
=============================================================================
