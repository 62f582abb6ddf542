------------------------------ MODULE Presence ------------------------------
(***************************************************************************)
(* Whether a user is online: the sorted set of her connections in Redis,   *)
(* the announcements of its becoming non-empty and empty, and what a chat  *)
(* open at another user's client shows.  The changes of the set are        *)
(* atomic, but each announcement is published in a step of its own, the    *)
(* heartbeat's write overlaps the disconnection, and the observer reads a  *)
(* snapshot besides the events.                                            *)
(***************************************************************************)
EXTENDS Naturals, Sequences, SequencesExt

CONSTANTS
  Connections,  \* the user's connections, each with a fresh id and perhaps a process of its own
  MaxFaults     \* bound on the failures of Redis, of its callers and of timers

ASSUME PresenceAssumption == MaxFaults \in Nat

VARIABLES
  phase,    \* how far Client.Run has come for each connection
  beating,  \* the connections whose TouchPresence is under way
  entries,  \* the unexpired members of the sorted set
  pending,  \* announcements decided and not yet published, in the order of the decisions
  channel,  \* published events not yet delivered; Redis and the queues keep their order
  watch,    \* how far the observer's own connection has come
  seen,     \* the snapshot it has read and not yet queued
  shown,    \* peerOnline of the chat
  spoiled,  \* history: the mishaps since the last clean start
  faults    \* failures so far

conns == <<phase, beating, entries, pending>>
observer == <<watch, seen, shown>>
presenceVars == <<conns, channel, observer, spoiled, faults>>

Announcement == [conn : Connections, online : BOOLEAN]
ConnPhase == {"new", "announcing", "running", "leaving", "withdrawing", "closed"}
Mishap == {"crossed", "ghost", "lost", "leftover", "lapsed", "overtaken", "away", "reloaded"}

PresenceTypeOK ==
  /\ phase \in [Connections -> ConnPhase]
  /\ beating \subseteq Connections /\ entries \subseteq Connections
  /\ pending \in Seq(Announcement)
  /\ \A c \in Connections : phase[c] \in {"announcing", "withdrawing"}
                              <=> \E i \in DOMAIN pending : pending[i].conn = c
  /\ channel \in Seq(BOOLEAN)
  /\ watch \in {"away", "registered", "snapshot", "settled"}
  /\ seen \in BOOLEAN /\ shown \in BOOLEAN
  /\ spoiled \subseteq Mishap
  /\ faults \in 0 .. MaxFaults

PresenceInit ==
  /\ phase = [c \in Connections |-> "new"]
  /\ beating = {} /\ entries = {} /\ pending = <<>> /\ channel = <<>>
  /\ watch = "away" /\ seen = FALSE /\ shown = FALSE
  /\ spoiled = {} /\ faults = 0

Running == {c \in Connections : phase[c] = "running"}

\* A failure that was noticed only in a log.
Fault(mishap) == faults < MaxFaults /\ faults' = faults + 1 /\ spoiled' = spoiled \cup {mishap}
NoFault == UNCHANGED <<faults, spoiled>>

-----------------------------------------------------------------------------
(* The set of connections: one Redis transaction each *)

\* What the caller of the transaction does next: announce, or nothing.
Decide(c, announces, online, busy, idle) ==
  /\ phase' = [phase EXCEPT ![c] = IF announces THEN busy ELSE idle]
  /\ pending' = IF announces THEN Append(pending, [conn |-> c, online |-> online]) ELSE pending

\* The user had no connection, nor anything under way: earlier mishaps no longer matter.
CleanStart(c) ==
  /\ entries = {} /\ pending = <<>> /\ beating = {}
  /\ \A d \in Connections \ {c} : phase[d] \in {"new", "closed"}

\* Mutant of Connect: ZCARD after ZADD.
ConnectCountedAfter(c) ==
  /\ phase[c] = "new"
  /\ entries' = entries \cup {c}
  /\ Decide(c, entries' = {}, TRUE, "announcing", "running")
  /\ spoiled' = IF CleanStart(c) THEN {} ELSE spoiled
  /\ UNCHANGED <<beating, channel, observer, faults>>

\* ConnectPresence: expired entries go, the rest are counted, this one is added.
Connect(c) ==
  /\ phase[c] = "new"
  /\ entries' = entries \cup {c}
  /\ Decide(c, entries = {}, TRUE, "announcing", "running")
  /\ spoiled' = IF CleanStart(c) THEN {} ELSE spoiled
  /\ UNCHANGED <<beating, channel, observer, faults>>

\* It fails, executed or not; the connection runs all the same and announces nothing.
ConnectFails(c) ==
  /\ phase[c] = "new"
  /\ entries' \in {entries, entries \cup {c}}
  /\ phase' = [phase EXCEPT ![c] = "running"]
  /\ Fault("lost")
  /\ UNCHANGED <<beating, pending, channel, observer>>

\* The reading loop ends and the hub forgets the connection; a heartbeat may be under way.
Leave(c) ==
  /\ phase[c] = "running"
  /\ phase' = [phase EXCEPT ![c] = "leaving"]
  /\ NoFault /\ UNCHANGED <<beating, entries, pending, channel, observer>>

\* Mutant of Disconnect: DEL of the whole key.
DisconnectAll(c) ==
  /\ phase[c] = "leaving"
  /\ entries' = {}
  /\ Decide(c, entries' = {}, FALSE, "withdrawing", "closed")
  /\ NoFault /\ UNCHANGED <<beating, channel, observer>>

\* DisconnectPresence: this entry goes, the rest are counted.
Disconnect(c) ==
  /\ phase[c] = "leaving"
  /\ entries' = entries \ {c}
  /\ Decide(c, entries' = {}, FALSE, "withdrawing", "closed")
  /\ NoFault /\ UNCHANGED <<beating, channel, observer>>

DisconnectFails(c) ==
  /\ phase[c] = "leaving"
  /\ phase' = [phase EXCEPT ![c] = "closed"]
  /\ \/ entries' = entries /\ Fault("leftover")
     \/ entries' = entries \ {c} /\ Fault("lost")
  /\ UNCHANGED <<beating, pending, channel, observer>>

\* The heartbeat: TouchPresence is sent, and reaches Redis now or later.
Beat(c) ==
  /\ phase[c] = "running" /\ c \notin beating
  /\ beating' = beating \cup {c}
  /\ NoFault /\ UNCHANGED <<phase, entries, pending, channel, observer>>

\* After the connection's entry was removed this brings it back.
Touch(c) ==
  /\ c \in beating
  /\ beating' = beating \ {c}
  /\ entries' = entries \cup {c}
  /\ spoiled' = IF phase[c] \in {"withdrawing", "closed"} THEN spoiled \cup {"ghost"} ELSE spoiled
  /\ UNCHANGED <<phase, pending, channel, observer, faults>>

TouchFails(c) ==
  /\ c \in beating
  /\ beating' = beating \ {c}
  /\ NoFault /\ UNCHANGED <<phase, entries, pending, channel, observer>>

\* Sixty seconds without a heartbeat.
Expire(c) ==
  /\ c \in entries /\ phase[c] = "closed" /\ c \notin beating
  /\ entries' = entries \ {c}
  /\ NoFault /\ UNCHANGED <<phase, beating, pending, channel, observer>>

\* The same although the connection runs: its heartbeats failed or came late.
Lapse(c) ==
  /\ c \in entries /\ phase[c] = "running"
  /\ entries' = entries \ {c}
  /\ Fault("lapsed")
  /\ UNCHANGED <<phase, beating, pending, channel, observer>>

\* The connection's process dies; what it has not published stays unpublished.
Crash(c) ==
  /\ phase[c] \notin {"new", "closed"}
  /\ phase' = [phase EXCEPT ![c] = "closed"]
  /\ \/ /\ \A i \in DOMAIN pending : pending[i].conn # c
        /\ Fault("leftover") /\ UNCHANGED pending
     \/ /\ \E i \in DOMAIN pending : pending[i].conn = c /\ pending' = RemoveAt(pending, i)
        /\ Fault("lost")
  /\ UNCHANGED <<beating, entries, channel, observer>>

-----------------------------------------------------------------------------
(* publishPresence, and the events' way to the observer *)

\* The announcement at i, which others may have been decided before, leaves its caller.
Announced(i) ==
  /\ pending' = RemoveAt(pending, i)
  /\ phase' = [phase EXCEPT ![pending[i].conn] = IF @ = "announcing" THEN "running" ELSE "closed"]

Publish(i) ==
  /\ Announced(i)
  /\ channel' = Append(channel, pending[i].online)
  /\ spoiled' = IF i = 1 THEN spoiled ELSE spoiled \cup {"crossed"}
  /\ UNCHANGED <<beating, entries, observer, faults>>

\* The recipients cannot be read, Redis is away, or pub/sub loses the event.
PublishFails(i) ==
  /\ Announced(i)
  /\ Fault("lost")
  /\ UNCHANGED <<beating, entries, channel, observer>>

\* An event reaches the observer's queue, or nobody while she has no connection.
Deliver ==
  /\ channel # <<>>
  /\ channel' = Tail(channel)
  /\ shown' = IF watch = "away" THEN shown ELSE Head(channel)
  /\ spoiled' = spoiled \cup (IF watch = "away" /\ shown /\ ~Head(channel) THEN {"away"} ELSE {})
                        \cup (IF watch = "snapshot" /\ seen /\ ~Head(channel) THEN {"overtaken"} ELSE {})
  /\ UNCHANGED <<conns, watch, seen, faults>>

-----------------------------------------------------------------------------
(* The observer *)

Register ==
  /\ watch = "away" /\ watch' = "registered"
  /\ NoFault /\ UNCHANGED <<conns, channel, seen, shown>>

\* OnlinePeers: the user's entries are counted.
ReadSnapshot ==
  /\ watch = "registered" /\ watch' = "snapshot"
  /\ seen' = (entries # {})
  /\ NoFault /\ UNCHANGED <<conns, channel, shown>>

SnapshotFails ==
  /\ watch = "registered" /\ watch' = "settled"
  /\ Fault("lost")
  /\ UNCHANGED <<conns, channel, seen, shown>>

\* Mutant of QueueSnapshot: the snapshot overwrites.
QueueAnySnapshot ==
  /\ watch = "snapshot" /\ watch' = "settled"
  /\ shown' = seen /\ seen' = FALSE
  /\ NoFault /\ UNCHANGED <<conns, channel>>

\* Only peers who are online are queued.
QueueSnapshot ==
  /\ watch = "snapshot" /\ watch' = "settled"
  /\ shown' = (shown \/ seen) /\ seen' = FALSE
  /\ NoFault /\ UNCHANGED <<conns, channel>>

\* The observer's connection ends; the chat stays open and shows what it showed.
Drop ==
  /\ watch = "settled" /\ watch' = "away"
  /\ NoFault /\ UNCHANGED <<conns, channel, seen, shown>>

\* The chat is opened: a new ChatCubit's first state and those of its load have no peerOnline.
Load ==
  /\ watch = "settled"
  /\ shown /\ shown' = FALSE
  /\ spoiled' = spoiled \cup {"reloaded"}
  /\ UNCHANGED <<conns, channel, watch, seen, faults>>

PresenceNext ==
  \/ \E c \in Connections :
       \/ Connect(c) \/ ConnectFails(c) \/ Leave(c) \/ Disconnect(c) \/ DisconnectFails(c)
       \/ Beat(c) \/ Touch(c) \/ TouchFails(c) \/ Expire(c) \/ Lapse(c) \/ Crash(c)
  \/ \E i \in DOMAIN pending : Publish(i) \/ PublishFails(i)
  \/ Deliver
  \/ Register \/ ReadSnapshot \/ SnapshotFails \/ QueueSnapshot \/ Drop \/ Load

PresenceSpec == PresenceInit /\ [][PresenceNext]_presenceVars

-----------------------------------------------------------------------------
(* Properties *)

\* Nothing is under way, neither with the user's connections nor with the observer.
Quiet ==
  /\ \A c \in Connections : phase[c] \in {"new", "running", "closed"}
  /\ beating = {} /\ pending = <<>> /\ channel = <<>> /\ watch = "settled"

\* Unless one of the named mishaps has happened since the user's last clean start, the
\* observer sees the truth once everything has arrived, however many connections come
\* and go, and whenever the observer reads the snapshot.
ShowsTruth == Quiet /\ spoiled = {} => shown = (Running # {})

\* A dead connection left in the set, a heartbeat after the disconnection, a lost or
\* overtaken offline event: these can only show an absent user online.  Nobody who is
\* connected looks offline for them, as long as no entry came back without an event.
NeverHidden ==
  Quiet /\ spoiled \subseteq {"leftover", "away", "overtaken"} => (Running # {} => shown)

\* That a user is offline is decided only when all her other connections are over, but
\* for those whose entry failed to be made or lapsed.
OfflineIsLast ==
  [][\A c \in Connections : phase[c] = "leaving" /\ phase'[c] = "withdrawing" =>
       Running = {} \/ spoiled \cap {"lapsed", "lost"} # {}]_presenceVars

-----------------------------------------------------------------------------
(* The inductive invariant behind them *)

\* A connection has one announcement under way at most, and beats only once it is there.
OneEach ==
  /\ \A i, j \in DOMAIN pending : pending[i].conn = pending[j].conn => i = j
  /\ \A c \in beating : phase[c] # "new"

\* The connections whose entry should be in the set.
Live == {c \in Connections : phase[c] \in {"announcing", "running", "leaving"}}

\* It is there unless it failed to be made or lapsed, ...
Recorded == spoiled \cap {"lapsed", "lost"} = {} => Live \subseteq entries

\* ... and no other is unless something has gone wrong.
NothingLeft == spoiled = {} => entries \subseteq Live

\* The last event the observer has still to see, when one is under way.
UnderWay == pending # <<>> \/ channel # <<>>
LastNews == IF pending # <<>> THEN pending[Len(pending)].online ELSE channel[Len(channel)]

\* While the set is not empty, the news end with the user online; without news, the
\* observer shows it or has it in a snapshot still to be queued.
NewsOfComing ==
  spoiled \subseteq {"leftover", "away", "overtaken"} /\ entries # {} =>
    /\ UnderWay => LastNews
    /\ ~UnderWay => (watch = "settled" => shown) /\ (watch = "snapshot" => shown \/ seen)

\* While it is empty and nothing has gone wrong, they end with the user offline.
NewsOfGoing ==
  spoiled = {} /\ entries = {} =>
    /\ UnderWay => ~LastNews
    /\ ~UnderWay => ~shown /\ (watch = "snapshot" => ~seen)

PresenceInv == PresenceTypeOK /\ OneEach /\ Recorded /\ NothingLeft /\ NewsOfComing /\ NewsOfGoing
=============================================================================
