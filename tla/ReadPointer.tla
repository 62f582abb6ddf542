----------------------------- MODULE ReadPointer -----------------------------
(***************************************************************************)
(* MarkRead: how far each member has read a conversation.  A transaction   *)
(* at READ COMMITTED: the member count, the message, and one conditional   *)
(* UPDATE of the member's row.  The devices of one user mark different     *)
(* messages at the same time, messages appear out of order (MessageLog),   *)
(* and leaving and returning replaces the row.                             *)
(***************************************************************************)
EXTENDS MessageLog, FiniteSets

CONSTANTS
  Marks,    \* the requests
  UserOf,   \* who makes each
  MaxJoins  \* bound on how often a user leaves and returns

\* The users who read here; what the others do to their own rows changes nothing for them.
Readers == {UserOf[t] : t \in Marks}

ASSUME ReadAssumption == UserOf \in [Marks -> Users] /\ MaxJoins \in Nat /\ None \notin Message

VARIABLES
  roster,   \* the members of the conversation
  joins,    \* how often each user has returned: a row made anew is another row
  pointer,  \* last_read_message_id of each member's row (the message it names)
  pc,       \* the next statement of each request
  target,   \* the message it marks
  snap,     \* the messages its UPDATE's snapshot sees
  row,      \* the row it sees: the value of joins
  wrote,    \* it has updated the row and not committed
  answer

members == <<roster, joins, pointer>>
local == <<target, snap, row, wrote>>
readVars == <<now, log, members, pc, local, answer>>

Phase == {"idle", "member", "target", "scan", "update", "commit", "done"}

ReadTypeOK ==
  /\ now \in Time /\ log \subseteq Message
  /\ roster \subseteq Readers
  /\ joins \in [Readers -> 0 .. MaxJoins]
  /\ pointer \in [Readers -> Message \cup {None}]
  /\ pc \in [Marks -> Phase]
  /\ target \in [Marks -> Message \cup {None}]
  /\ snap \in [Marks -> SUBSET Message]
  /\ row \in [Marks -> 0 .. MaxJoins]
  /\ wrote \in [Marks -> BOOLEAN] /\ \A t \in Marks : wrote[t] => pc[t] = "commit"
  /\ answer \in [Marks -> {"none", "ok", "forbidden", "notfound", "error"}]

ReadInit ==
  /\ LogInit
  /\ roster = Readers
  /\ joins = [u \in Readers |-> 0]
  /\ pointer = [u \in Readers |-> None]
  /\ pc = [t \in Marks |-> "idle"]
  /\ target = [t \in Marks |-> None]
  /\ snap = [t \in Marks |-> {}]
  /\ row = [t \in Marks |-> 0]
  /\ wrote = [t \in Marks |-> FALSE]
  /\ answer = [t \in Marks |-> "none"]

GoTo(t, phase) == pc' = [pc EXCEPT ![t] = phase]

\* The request ends, and with it the transaction and all it knew.
Return(t) ==
  /\ GoTo(t, "done")
  /\ target' = [target EXCEPT ![t] = None]
  /\ snap' = [snap EXCEPT ![t] = {}]
  /\ row' = [row EXCEPT ![t] = 0]
  /\ wrote' = [wrote EXCEPT ![t] = FALSE]

\* An early return: the transaction is rolled back.
Refuse(t, how) ==
  /\ Return(t)
  /\ answer' = [answer EXCEPT ![t] = how]
  /\ UNCHANGED <<now, log, members>>

\* Mutant of MayMove: the pointer goes wherever the last request says.
MayMoveAnywhere(from, to, S) == TRUE

\* Mutant of MayMove: strictly forward, and from nowhere only with a message.
MayMoveBack(from, to, S) == from = None \/ (from \in S /\ ~Precedes(from, to))

\* last_read_message_id IS NULL OR EXISTS (an older or the same message, among those seen)
MayMove(from, to, S) == from = None \/ (from \in S /\ ~Precedes(to, from))

-----------------------------------------------------------------------------
(* One request *)

Submit(t) ==
  /\ pc[t] = "idle"
  /\ GoTo(t, "member")
  /\ UNCHANGED <<now, log, members, local, answer>>

CheckMember(t) ==
  /\ pc[t] = "member"
  /\ IF UserOf[t] \in roster THEN GoTo(t, "target") /\ UNCHANGED <<now, log, members, local, answer>>
                           ELSE Refuse(t, "forbidden")

\* The message asked for; an id that names none (or one of elsewhere) is not found.
FindTarget(t) ==
  /\ pc[t] = "target"
  /\ \/ /\ \E m \in log : target' = [target EXCEPT ![t] = m]
        /\ GoTo(t, "scan")
        /\ UNCHANGED <<now, log, members, snap, row, wrote, answer>>
     \/ Refuse(t, "notfound")

\* The UPDATE takes its snapshot; a row that does not qualify in it is left alone.
Scan(t) ==
  /\ pc[t] = "scan"
  /\ snap' = [snap EXCEPT ![t] = log]
  /\ row' = [row EXCEPT ![t] = joins[UserOf[t]]]
  /\ GoTo(t, IF UserOf[t] \in roster /\ MayMove(pointer[UserOf[t]], target[t], log)
               THEN "update" ELSE "commit")
  /\ UNCHANGED <<now, log, members, target, wrote, answer>>

Locked(u) == \E t \in Marks : wrote[t] /\ UserOf[t] = u

\* Mutant of Update: the condition judged in the snapshot is not judged again.
UpdateBlindly(t) ==
  /\ pc[t] = "update"
  /\ ~Locked(UserOf[t])
  /\ wrote' = [wrote EXCEPT ![t] = UserOf[t] \in roster /\ joins[UserOf[t]] = row[t]]
  /\ GoTo(t, "commit")
  /\ UNCHANGED <<now, log, members, target, snap, row, answer>>

\* It waits for the row's writer and judges the row as it is then, by the messages of
\* its snapshot; a row deleted since is skipped, one inserted since is not seen.
Update(t) ==
  /\ pc[t] = "update"
  /\ ~Locked(UserOf[t])
  /\ wrote' = [wrote EXCEPT ![t] = /\ UserOf[t] \in roster /\ joins[UserOf[t]] = row[t]
                                   /\ MayMove(pointer[UserOf[t]], target[t], snap[t])]
  /\ GoTo(t, "commit")
  /\ UNCHANGED <<now, log, members, target, snap, row, answer>>

\* COMMIT; reading the recipients, the publish and the answer may still fail.
Commit(t) ==
  /\ pc[t] = "commit"
  /\ pointer' = IF wrote[t] THEN [pointer EXCEPT ![UserOf[t]] = target[t]] ELSE pointer
  /\ \E result \in {"ok", "error"} : answer' = [answer EXCEPT ![t] = result]
  /\ Return(t)
  /\ UNCHANGED <<now, log, roster, joins>>

Abort(t) == pc[t] \notin {"idle", "done"} /\ Refuse(t, "error")

Statement(t) ==
  CheckMember(t) \/ FindTarget(t) \/ Scan(t) \/ Update(t) \/ Commit(t)

-----------------------------------------------------------------------------
(* Around it: messages appear (MessageStore), members come and go (GroupMembership) *)

Write == LogNext /\ UNCHANGED <<members, pc, local, answer>>

\* DELETE waits for the row's writer.
Leave(u) ==
  /\ u \in roster /\ ~Locked(u) /\ joins[u] < MaxJoins
  /\ roster' = roster \ {u}
  /\ pointer' = [pointer EXCEPT ![u] = None]
  /\ UNCHANGED <<now, log, joins, pc, local, answer>>

Join(u) ==
  /\ u \notin roster
  /\ roster' = roster \cup {u}
  /\ joins' = [joins EXCEPT ![u] = @ + 1]
  /\ UNCHANGED <<now, log, pointer, pc, local, answer>>

ReadNext ==
  \/ \E t \in Marks : Submit(t) \/ Statement(t) \/ Abort(t)
  \/ Write
  \/ \E u \in Readers : Leave(u) \/ Join(u)

ReadSpec == ReadInit /\ [][ReadNext]_readVars

-----------------------------------------------------------------------------
(* Properties *)

\* How many messages ListForUser counts as unread: by others, and of a later time.
Unread(u) == Cardinality({m \in log : m.sender # u /\ (pointer[u] = None \/ m.at > pointer[u].at)})

\* However the devices of a user overlap, the read pointer of a member's row only moves
\* forward in the order of messages.
NeverBack ==
  [][\A u \in Readers : u \in roster' /\ joins'[u] = joins[u] /\ pointer[u] # None =>
       pointer'[u] # None /\ ~Precedes(pointer'[u], pointer[u])]_readVars

\* A mark that is answered has counted: the pointer is at its message or later, unless
\* the row is not the one it saw, or the pointer has been at a message that appeared
\* after the snapshot its UPDATE was judged by.
MarkCounts ==
  [][\A t \in Marks : pc[t] = "commit" /\ answer'[t] = "ok" =>
       LET p == pointer'[UserOf[t]]
       IN \/ UserOf[t] \notin roster \/ joins[UserOf[t]] # row[t]
          \/ p # None /\ \E m \in {target[t]} \cup (log \ snap[t]) : ~Precedes(p, m)]_readVars

\* Reading never makes a conversation look less read.
UnreadShrinks ==
  [][\A u \in Readers : log' = log /\ u \in roster' /\ joins'[u] = joins[u] => Unread(u)' <= Unread(u)]_readVars

-----------------------------------------------------------------------------
(* The inductive invariant behind them *)

\* Pointers and marks name messages that are there; a row is never older than it was.
Grounded ==
  /\ \A u \in Readers : pointer[u] \in log \cup {None}
  /\ \A u \in Readers \ roster : joins[u] < MaxJoins
  /\ \A t \in Marks :
       /\ pc[t] \in {"scan", "update", "commit"} => target[t] \in log
       /\ row[t] <= joins[UserOf[t]]
       /\ answer[t] = "ok" => pc[t] = "done"

\* The row's writer holds it, and is still right to move its pointer.
WriterInv ==
  \A t \in Marks : wrote[t] =>
    /\ UserOf[t] \in roster /\ joins[UserOf[t]] = row[t]
    /\ pointer[UserOf[t]] # None => ~Precedes(target[t], pointer[UserOf[t]])
    /\ \A s \in Marks : wrote[s] /\ UserOf[s] = UserOf[t] => s = t

\* A mark that has not written has nothing to write to, or is outdone.
OutdoneInv ==
  \A t \in Marks : pc[t] = "commit" /\ ~wrote[t] =>
    LET p == pointer[UserOf[t]]
    IN \/ UserOf[t] \notin roster \/ joins[UserOf[t]] # row[t]
       \/ p # None /\ \E m \in {target[t]} \cup (log \ snap[t]) : ~Precedes(p, m)

ReadInv == ReadTypeOK /\ Grounded /\ WriterInv /\ OutdoneInv
=============================================================================
