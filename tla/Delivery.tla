------------------------------ MODULE Delivery ------------------------------
(***************************************************************************)
(* How the messages of a conversation reach one app: the commit, the       *)
(* publish, Redis, the hub and the connection's bounded queue; and how the *)
(* app's own messages come in.  Messages are numbered as they commit.  The *)
(* other events of the connection (presence, typing, errors) are left out: *)
(* that they may fill the queue too is one of the reasons of Break.        *)
(***************************************************************************)
EXTENDS Naturals, Sequences, SequencesExt

CONSTANTS
  MaxMessages,  \* bound on the messages of the conversation
  OwnIds,       \* the client_message_ids the app uses
  QueueMax,     \* the capacity of a connection's queue
  MaxFaults,    \* bound on failed publishes, losses in Redis, repeated sends and breaks of the
                \* connection (not on full queues, nor on dials that fail)
  None          \* no value

ASSUME DeliveryAssumption ==
  /\ MaxMessages \in Nat /\ MaxFaults \in Nat /\ QueueMax \in Nat \ {0}
  /\ None \notin Nat \cup OwnIds

Messages == 1 .. MaxMessages

VARIABLES
  stored,    \* how many messages have committed
  ownId,     \* the client_message_id of each message the app sent
  due,       \* messages whose publish is still to come
  bus,       \* published and not yet broadcast
  conn,      \* the app's connection: "dialing" until the hub knows it, "dying" until the app knows
  queue,     \* events queued for it or on the wire
  outbox,    \* messages of the app on their way to the server
  handling,  \* the app's message that the reading loop is sending
  faults

log == <<stored, ownId>>
wire == <<conn, queue, outbox, handling>>
delivery == <<log, due, bus, wire, faults>>

Event == [kind : {"created", "ack"}, message : Messages]

DeliveryTypeOK ==
  /\ stored \in 0 .. MaxMessages
  /\ ownId \in [Messages -> OwnIds \cup {None}]
  /\ due \subseteq 1 .. stored
  /\ bus \in Seq(1 .. stored)
  /\ conn \in {"down", "dialing", "open", "dying"}
  /\ queue \in Seq(Event) /\ Len(queue) <= QueueMax
  /\ outbox \in Seq(OwnIds)
  /\ handling \in 1 .. stored \cup {None}
  /\ faults \in 0 .. MaxFaults

DeliveryInit ==
  /\ stored = 0 /\ ownId = [m \in Messages |-> None]
  /\ due = {} /\ bus = <<>>
  /\ conn = "open" /\ queue = <<>> /\ outbox = <<>> /\ handling = None
  /\ faults = 0

Fault == faults < MaxFaults /\ faults' = faults + 1

\* A message commits; its publish comes after.
Store(id) ==
  /\ stored < MaxMessages
  /\ stored' = stored + 1
  /\ ownId' = [ownId EXCEPT ![stored'] = id]
  /\ due' = due \cup {stored'}

\* Another member's, or the same user's from elsewhere.
Commit ==
  /\ Store(None)
  /\ UNCHANGED <<bus, wire, faults>>

Publish(m) ==
  /\ m \in due
  /\ due' = due \ {m} /\ bus' = Append(bus, m)
  /\ UNCHANGED <<log, wire, faults>>

\* The sender is told of an error and the message stays stored.
PublishFails(m) ==
  /\ m \in due /\ Fault
  /\ due' = due \ {m}
  /\ handling' = IF handling = m THEN None ELSE handling
  /\ UNCHANGED <<log, bus, conn, queue, outbox>>

\* A send is repeated: the stored message is published again.
Repeat(m) ==
  /\ m \in 1 .. stored /\ m \notin due /\ Fault
  /\ due' = due \cup {m}
  /\ UNCHANGED <<log, bus, wire>>

\* Redis drops an event while its subscriber reconnects.
Lose ==
  /\ bus # <<>> /\ Fault
  /\ bus' = Tail(bus)
  /\ UNCHANGED <<log, due, wire>>

\* Mutant of Enqueue: a full queue drops the event.
EnqueueOrDrop(kind, m) ==
  /\ queue' = IF Len(queue) < QueueMax THEN Append(queue, [kind |-> kind, message |-> m]) ELSE queue
  /\ UNCHANGED conn

\* A full queue ends the connection; a part of what is in it still gets through.
Enqueue(kind, m) ==
  \/ /\ Len(queue) < QueueMax
     /\ queue' = Append(queue, [kind |-> kind, message |-> m])
     /\ UNCHANGED conn
  \/ /\ Len(queue) = QueueMax
     /\ conn' = "dying"
     /\ \E n \in 0 .. QueueMax : queue' = SubSeq(queue, 1, n)

\* BroadcastMessage: only to a connection the hub knows.
Broadcast ==
  /\ bus # <<>>
  /\ bus' = Tail(bus)
  /\ IF conn = "open" THEN Enqueue("created", Head(bus)) ELSE UNCHANGED <<conn, queue>>
  /\ UNCHANGED <<log, due, outbox, handling, faults>>

Register ==
  /\ conn = "dialing" /\ conn' = "open"
  /\ UNCHANGED <<log, due, bus, queue, outbox, handling, faults>>

DialFails ==
  /\ conn = "dialing" /\ conn' = "down"
  /\ outbox' = <<>>
  /\ UNCHANGED <<log, due, bus, queue, handling, faults>>

\* The connection ends; a part of what was queued has got through.
Break ==
  /\ conn = "open" /\ conn' = "dying" /\ Fault
  /\ \E n \in 0 .. Len(queue) : queue' = SubSeq(queue, 1, n)
  /\ outbox' = <<>> /\ handling' = None
  /\ UNCHANGED <<log, due, bus>>

\* The reading loop takes the app's next message: it is stored, or refused.
Handle ==
  /\ conn = "open" /\ outbox # <<>> /\ handling = None
  /\ outbox' = Tail(outbox)
  /\ \/ Store(Head(outbox)) /\ handling' = stored'
     \/ UNCHANGED <<log, due, handling>>
  /\ UNCHANGED <<bus, conn, queue, faults>>

\* After the publish.
Acknowledge ==
  /\ conn = "open" /\ handling # None /\ handling \notin due
  /\ Enqueue("ack", handling)
  /\ handling' = None
  /\ UNCHANGED <<log, due, bus, outbox, faults>>

\* The app dials, and knows no more than that.
Dial ==
  /\ conn = "down" /\ conn' = "dialing"
  /\ UNCHANGED <<log, due, bus, queue, outbox, handling, faults>>

\* The app hears of the end after what was on the wire.
Hangup ==
  /\ conn = "dying" /\ queue = <<>> /\ conn' = "down"
  /\ outbox' = <<>> /\ handling' = None
  /\ UNCHANGED <<log, due, bus, queue, faults>>

\* The app hands a message to the socket; one that is not there loses it.
Submit(id) ==
  /\ outbox' = IF conn \in {"dialing", "open"} THEN Append(outbox, id) ELSE outbox
  /\ UNCHANGED <<log, due, bus, conn, queue, handling, faults>>

\* The app takes the next event.
Take ==
  /\ conn \in {"open", "dying"} /\ queue # <<>>
  /\ queue' = Tail(queue)
  /\ UNCHANGED <<log, due, bus, conn, outbox, handling, faults>>
=============================================================================
