-------------------------- MODULE GroupMembership --------------------------
(***************************************************************************)
(* Group conversations as the API stores them: every request is a          *)
(* PostgreSQL transaction at READ COMMITTED, one action per SQL statement, *)
(* and any number of transactions interleave between statements.  A        *)
(* transaction sees the committed rows and its own writes; COMMIT installs *)
(* them and frees the row locks, ROLLBACK only frees the locks.            *)
(*                                                                         *)
(* backend/internal/usecase/conversation/service.go checks the request,    *)
(* backend/internal/infrastructure/persistence/repository/conversation.go  *)
(* runs the transaction.  One transaction of another part is here for the  *)
(* locks it takes: MarkRead (repository/message.go) updates a row of       *)
(* conversation_members without locking the conversation first.            *)
(***************************************************************************)
EXTENDS GroupTypes

CONSTANTS
  Txs,      \* the transactions on groups that may be open at the same time
  Readers,  \* the members who mark conversations read meanwhile
  Reader,   \* the holder of a row that is being marked
  None      \* nobody, nothing

ASSUME NoneAssumption == None \notin Txs /\ None \notin Request
ASSUME ReaderAssumption == Reader \notin Txs \cup {None} /\ Readers \subseteq Ids

VARIABLES
  kind,      \* committed rows of conversations: id -> type
  members,   \* committed rows of conversation_members: conversation -> id -> role
  convLock,  \* FOR UPDATE locks on rows of conversations
  rowLock,   \* locks on rows of conversation_members
  pc,        \* the next statement of each transaction
  req,       \* the request it serves (the conversation id of a create once known)
  todo,      \* AddMembers: the refs its loop has not inserted yet
  actorRole, \* the role its code has read for the actor
  written    \* its uncommitted rows: id -> role, or "same" where it wrote none

vars == <<kind, members, convLock, rowLock, pc, req, todo, actorRole, written>>
committed == <<kind, members>>
locks == <<convLock, rowLock>>
local == <<req, todo, actorRole>>

Phase == {"idle", "lock", "actor", "target", "users", "conversation", "founders",
          "insert", "delete", "update", "demote", "promote", "commit"}

NoWrites == [u \in Ids |-> "same"]

TypeOK ==
  /\ kind \in [Convs -> Kind]
  /\ members \in [Convs -> [Ids -> Row]]
  /\ convLock \in [Convs -> Txs \cup {None}]
  /\ rowLock \in [Convs -> [Ids -> Txs \cup {Reader, None}]]
  /\ pc \in [Txs -> Phase]
  /\ req \in [Txs -> Requests \cup {None}]
  /\ todo \in [Txs -> SUBSET Ref]
  /\ actorRole \in [Txs -> Row]
  /\ written \in [Txs -> [Ids -> Row \cup {"same"}]]

Init ==
  /\ kind \in [Convs -> {"absent", "direct"}]
  /\ members \in [Convs -> [Ids -> {"member", "none"}]]
  /\ \A c \in Convs :
       IF kind[c] = "direct" THEN DirectRoster(members[c])
                             ELSE members[c] = [u \in Ids |-> "none"]
  /\ convLock = [c \in Convs |-> None]
  /\ rowLock = [c \in Convs |-> [u \in Ids |-> None]]
  /\ pc = [t \in Txs |-> "idle"]
  /\ req = [t \in Txs |-> None]
  /\ todo = [t \in Txs |-> {}]
  /\ actorRole = [t \in Txs |-> "none"]
  /\ written = [t \in Txs |-> NoWrites]

-----------------------------------------------------------------------------
(* Statements *)

conv(t) == req[t].conv
Target(t) == IdOf(req[t].target)

\* What a statement of transaction t sees in the row of id u.
View(t, u) == IF written[t][u] = "same" THEN members[conv(t)][u] ELSE written[t][u]

GoTo(t, phase) == pc' = [pc EXCEPT ![t] = phase]

\* The row lock a FOR UPDATE, UPDATE, DELETE or INSERT takes, once it is free.
LockRow(t, u) ==
  /\ rowLock[conv(t)][u] \in {None, t}
  /\ rowLock' = [rowLock EXCEPT ![conv(t)][u] = t]

Write(t, u, row) ==
  /\ LockRow(t, u)
  /\ written' = [written EXCEPT ![t][u] = row]

\* INSERT ... ON CONFLICT DO NOTHING: an existing row stays as it is.
InsertMember(t, u) ==
  IF View(t, u) = "none" THEN Write(t, u, "member")
                         ELSE UNCHANGED <<rowLock, written>>

\* UPDATE ... SET role: no row, no effect.
UpdateRole(t, u, role) ==
  IF View(t, u) # "none" THEN Write(t, u, role)
                         ELSE UNCHANGED <<rowLock, written>>

\* Mutant of Close: the conversation's lock outlives the transaction.
CloseLocked(t) ==
  /\ GoTo(t, "idle")
  /\ rowLock' = [c \in Convs |->
       [u \in Ids |-> IF rowLock[c][u] = t THEN None ELSE rowLock[c][u]]]
  /\ req' = [req EXCEPT ![t] = None]
  /\ todo' = [todo EXCEPT ![t] = {}]
  /\ actorRole' = [actorRole EXCEPT ![t] = "none"]
  /\ written' = [written EXCEPT ![t] = NoWrites]
  /\ UNCHANGED convLock

\* The end of a transaction: its locks are free, nothing of it is left.
Close(t) ==
  /\ GoTo(t, "idle")
  /\ convLock' = [c \in Convs |-> IF convLock[c] = t THEN None ELSE convLock[c]]
  /\ rowLock' = [c \in Convs |->
       [u \in Ids |-> IF rowLock[c][u] = t THEN None ELSE rowLock[c][u]]]
  /\ req' = [req EXCEPT ![t] = None]
  /\ todo' = [todo EXCEPT ![t] = {}]
  /\ actorRole' = [actorRole EXCEPT ![t] = "none"]
  /\ written' = [written EXCEPT ![t] = NoWrites]

Rollback(t) == Close(t) /\ UNCHANGED committed

-----------------------------------------------------------------------------
(* The requests *)

\* The service: validation, deduplication, then the repository's transaction.
Submit(t) ==
  /\ pc[t] = "idle"
  /\ \E r \in Requests :
       /\ Accepted(r)
       /\ req' = [req EXCEPT ![t] = r]
       /\ todo' = [todo EXCEPT ![t] = r.listed]
       /\ GoTo(t, IF r.op = "create" THEN "users" ELSE "lock")
  /\ UNCHANGED <<committed, locks, actorRole, written>>

\* Mutant of LockConversation: SELECT without FOR UPDATE.
ReadConversation(t) ==
  /\ pc[t] = "lock"
  /\ IF kind[conv(t)] = "group"
       THEN GoTo(t, "actor") /\ UNCHANGED <<committed, locks, local, written>>
       ELSE Rollback(t)

\* SELECT ... FROM conversations FOR UPDATE, then the type check.
LockConversation(t) ==
  /\ pc[t] = "lock"
  /\ convLock[conv(t)] = None
  /\ IF kind[conv(t)] = "group"
       THEN /\ convLock' = [convLock EXCEPT ![conv(t)] = t]
            /\ GoTo(t, "actor")
            /\ UNCHANGED <<committed, rowLock, local, written>>
       ELSE Rollback(t)

MayAct(t, role) ==
  \/ req[t].op = "add" /\ role \in {"owner", "admin"}
  \/ req[t].op = "remove" /\ role # "none"
  \/ req[t].op = "role" /\ role = "owner"
  \/ req[t].op = "transfer" /\ role = "owner" /\ ~SelfRequest(req[t])

\* AddMembers and RemoveMember read the actor's row FOR UPDATE, the others plainly.
ReadActor(t) ==
  /\ pc[t] = "actor"
  /\ LET actor == req[t].actor
         role == View(t, actor)
     IN /\ req[t].op \in {"add", "remove"} /\ role # "none"
             => rowLock[conv(t)][actor] \in {None, t}
        /\ IF MayAct(t, role)
             THEN /\ actorRole' = [actorRole EXCEPT ![t] = role]
                  /\ GoTo(t, IF req[t].op = "add" THEN "users" ELSE "target")
                  /\ IF req[t].op \in {"add", "remove"}
                       THEN LockRow(t, actor) ELSE UNCHANGED rowLock
                  /\ UNCHANGED <<committed, convLock, req, todo, written>>
             ELSE Rollback(t)

\* Mutant of Ranked: an admin outranks everyone but the owner.
RankedLoosely(t, role) == SelfRequest(req[t]) \/ actorRole[t] \in {"owner", "admin"}

Ranked(t, role) ==
  \/ SelfRequest(req[t])
  \/ actorRole[t] = "owner"
  \/ actorRole[t] = "admin" /\ role = "member"

MayTouch(t, role) ==
  \/ req[t].op = "remove" /\ role \notin {"none", "owner"} /\ Ranked(t, role)
  \/ req[t].op = "role" /\ role \notin {"none", "owner"}
  \/ req[t].op = "transfer" /\ role # "none"

FirstWrite == [remove |-> "delete", role |-> "update", transfer |-> "demote"]

\* RemoveMember reads the target FOR UPDATE, or reuses the actor when it is the same string.
ReadTarget(t) ==
  /\ pc[t] = "target"
  /\ LET removing == req[t].op = "remove"
         locking == removing /\ ~SelfRequest(req[t])
         role == IF removing /\ ~locking THEN actorRole[t] ELSE View(t, Target(t))
     IN /\ locking /\ role # "none" => rowLock[conv(t)][Target(t)] \in {None, t}
        /\ IF MayTouch(t, role)
             THEN /\ GoTo(t, FirstWrite[req[t].op])
                  /\ IF locking THEN LockRow(t, Target(t)) ELSE UNCHANGED rowLock
                  /\ UNCHANGED <<committed, convLock, local, written>>
             ELSE Rollback(t)

\* SELECT count( * ) FROM users: AddMembers counts the list, CreateGroup the creator too.
CountUsers(t) ==
  /\ pc[t] = "users"
  /\ LET creating == req[t].op = "create"
         listed == req[t].listed \cup (IF creating THEN {Spelled(req[t].actor)} ELSE {})
     IN IF AllRegistered(listed)
          THEN /\ GoTo(t, IF creating THEN "conversation" ELSE "insert")
               /\ UNCHANGED <<committed, locks, local, written>>
          ELSE Rollback(t)

\* INSERT INTO conversations: gen_random_uuid gives an id no other row has.
Creating(t, c) == pc[t] \in {"founders", "commit"} /\ req[t].op = "create" /\ conv(t) = c

InsertConversation(t) ==
  /\ pc[t] = "conversation"
  /\ \E c \in Convs :
       /\ kind[c] = "absent"
       /\ \A t2 \in Txs : ~Creating(t2, c)
       /\ req' = [req EXCEPT ![t].conv = c]
  /\ GoTo(t, "founders")
  /\ UNCHANGED <<committed, locks, todo, actorRole, written>>

\* One INSERT for the creator and every invited user.
InsertFounders(t) ==
  /\ pc[t] = "founders"
  /\ written' = [written EXCEPT ![t] = [u \in Ids |->
       IF u = req[t].actor THEN "owner"
       ELSE IF u \in Named(req[t].listed) THEN "member" ELSE "same"]]
  /\ GoTo(t, "commit")
  /\ UNCHANGED <<committed, locks, local>>

\* The loop of AddMembers, one INSERT per listed user.
InsertListed(t) ==
  /\ pc[t] = "insert"
  /\ \E ref \in todo[t] :
       /\ InsertMember(t, IdOf(ref))
       /\ todo' = [todo EXCEPT ![t] = @ \ {ref}]
       /\ GoTo(t, IF todo[t] = {ref} THEN "commit" ELSE "insert")
  /\ UNCHANGED <<committed, convLock, req, actorRole>>

\* DELETE FROM conversation_members; NotFound unless it removed a row.
DeleteTarget(t) ==
  /\ pc[t] = "delete"
  /\ IF View(t, Target(t)) = "none"
       THEN Rollback(t)
       ELSE /\ Write(t, Target(t), "none")
            /\ GoTo(t, "commit")
            /\ UNCHANGED <<committed, convLock, local>>

\* UpdateMemberRole: UPDATE ... SET role.
SetTargetRole(t) ==
  /\ pc[t] = "update"
  /\ UpdateRole(t, Target(t), req[t].role)
  /\ GoTo(t, "commit")
  /\ UNCHANGED <<committed, convLock, local>>

\* TransferOwnership: first the actor becomes admin ...
Demote(t) ==
  /\ pc[t] = "demote"
  /\ UpdateRole(t, req[t].actor, "admin")
  /\ GoTo(t, "promote")
  /\ UNCHANGED <<committed, convLock, local>>

\* Mutant of Promote: a role the enum does not have.
PromoteToUnknown(t) ==
  /\ pc[t] = "promote"
  /\ UpdateRole(t, Target(t), "superowner")
  /\ GoTo(t, "commit")
  /\ UNCHANGED <<committed, convLock, local>>

\* ... then the target becomes owner.
Promote(t) ==
  /\ pc[t] = "promote"
  /\ UpdateRole(t, Target(t), "owner")
  /\ GoTo(t, "commit")
  /\ UNCHANGED <<committed, convLock, local>>

Commit(t) ==
  /\ pc[t] = "commit"
  /\ kind' = [kind EXCEPT ![conv(t)] = "group"]
  /\ members' = [members EXCEPT ![conv(t)] = [u \in Ids |-> View(t, u)]]
  /\ Close(t)

\* The client hangs up (the request's context is cancelled), a statement fails,
\* or the process or its connection dies: PostgreSQL rolls the transaction back.
Abort(t) == pc[t] # "idle" /\ Rollback(t)

Statement(t) ==
  \/ LockConversation(t) \/ ReadActor(t) \/ ReadTarget(t) \/ CountUsers(t)
  \/ InsertConversation(t) \/ InsertFounders(t) \/ InsertListed(t)
  \/ DeleteTarget(t) \/ SetTargetRole(t) \/ Demote(t) \/ Promote(t) \/ Commit(t)

\* The UPDATE of MarkRead holds the row of the member who reads, and no other lock a
\* transaction on groups takes, until its COMMIT or ROLLBACK.  (What it writes there is
\* modelled in ReadPointer: no request on groups looks at it.)
MarkRead(c, u) ==
  /\ members[c][u] # "none"
  /\ rowLock[c][u] = None
  /\ rowLock' = [rowLock EXCEPT ![c][u] = Reader]
  /\ UNCHANGED <<committed, convLock, pc, local, written>>

MarkReadEnds(c, u) ==
  /\ rowLock[c][u] = Reader
  /\ rowLock' = [rowLock EXCEPT ![c][u] = None]
  /\ UNCHANGED <<committed, convLock, pc, local, written>>

Next ==
  \/ \E t \in Txs : Submit(t) \/ Statement(t) \/ Abort(t)
  \/ \E c \in Convs, u \in Readers : MarkRead(c, u) \/ MarkReadEnds(c, u)

Spec == Init /\ [][Next]_vars

\* A transaction keeps executing and a mark ends; PostgreSQL queues the waiters of a row
\* lock, so a statement whose row is free again and again gets it.
Fairness ==
  /\ \A t \in Txs : SF_vars(Statement(t))
  /\ \A c \in Convs, u \in Readers : WF_vars(MarkReadEnds(c, u))

FairSpec == Spec /\ Fairness

-----------------------------------------------------------------------------
(* Properties *)

Rules == INSTANCE GroupRules

\* Every group has exactly one owner at every commit, whatever transfers, removals,
\* role changes and additions overlap (repository/conversation.go, the owner checks).
OneOwner == \A c \in Convs : kind[c] = "group" => OneOwnerIn(members[c])

\* A commit is the indivisible operation its own request asked for, allowed by the
\* rows as they are at the commit and not as some statement read them earlier.
Linearizable ==
  [][\E t \in Txs : pc[t] = "commit" /\ Rules!Perform(req[t])]_committed

\* The transactions implement the one-step rules of GroupRules (proved, and no property of
\* a run: on the committed rows it says what Linearizable does).
Implements == Rules!Spec

\* A direct conversation keeps the two members it was created with: no request on
\* groups reaches it (the type checks of repository/conversation.go).
DirectFixed ==
  [][\A c \in Convs : kind[c] = "direct" =>
       kind'[c] = "direct" /\ members'[c] = members[c]]_committed

\* Transactions on groups never wait for one another at a row of conversation_members,
\* in whatever order each takes its rows: the conversation's lock orders them.  The only
\* one they wait for is MarkRead, which holds one row and asks for no second lock
\* (repository/message.go:57): no circle of waiters can close.
RowsUncontended ==
  \A t \in Txs : pc[t] \notin {"idle", "lock", "users", "conversation", "founders"} =>
    \A u \in Ids : rowLock[conv(t)][u] \in {None, Reader, t}

\* Every request on an existing conversation gets its answer: none waits for ever for the
\* conversation's row lock, nor for a member's row others keep marking as read.
\* (CreateGroup waits for nobody.)
Answered == \A t \in Txs : pc[t] = "lock" ~> pc[t] = "idle"

-----------------------------------------------------------------------------
(* The inductive invariant behind them: what a transaction's next statement *)
(* relies on, and why no other transaction can have changed it              *)

\* It has locked its conversation, an existing group.
Holds(t) == pc[t] \notin {"idle", "lock"} /\ req[t].op # "create"

\* Which requests reach which statement.
OnPath(t) ==
  LET op == req[t].op
  IN /\ pc[t] \in {"lock", "actor"} => op # "create"
     /\ pc[t] = "target" => op \in {"remove", "role", "transfer"}
     /\ pc[t] = "users" => op \in {"create", "add"}
     /\ pc[t] \in {"conversation", "founders"} => op = "create"
     /\ pc[t] = "insert" => op = "add"
     /\ pc[t] = "delete" => op = "remove"
     /\ pc[t] = "update" => op = "role"
     /\ pc[t] \in {"demote", "promote"} => op = "transfer"

\* The checks made so far still hold of the committed rows.
Checked(t) ==
  LET r == req[t]
      roster == members[r.conv]
  IN /\ pc[t] = "target" =>
          /\ actorRole[t] = roster[r.actor] /\ actorRole[t] # "none"
          /\ r.op \in {"role", "transfer"} => actorRole[t] = "owner"
          /\ r.op = "transfer" => ~SelfRequest(r)
     /\ pc[t] = "users" /\ r.op = "add" => roster[r.actor] \in {"owner", "admin"}
     /\ pc[t] \in {"conversation", "founders"} =>
          AllRegistered(r.listed \cup {Spelled(r.actor)})
     /\ pc[t] \in {"insert", "delete", "update", "demote", "promote", "commit"} =>
          Allowed(roster, r)

\* The rows written so far, and at the end the whole effect of the request.
Progress(t) ==
  LET r == req[t]
      roster == members[r.conv]
  IN /\ pc[t] = "insert" =>
          /\ todo[t] \subseteq r.listed
          /\ \A u \in Ids : written[t][u] =
               IF u \in Named(r.listed \ todo[t]) /\ roster[u] = "none" THEN "member" ELSE "same"
     /\ pc[t] = "promote" => written[t] = [NoWrites EXCEPT ![r.actor] = "admin"]
     /\ pc[t] = "commit" => \A u \in Ids : View(t, u) = After(roster, r)[u]
     /\ pc[t] \notin {"insert", "promote", "commit"} => written[t] = NoWrites

TxInv(t) ==
  /\ pc[t] = "idle" => written[t] = NoWrites
  /\ pc[t] # "idle" =>
       /\ req[t] \in Requests /\ Accepted(req[t])
       /\ OnPath(t)
       /\ Holds(t) => convLock[conv(t)] = t /\ kind[conv(t)] = "group"
       /\ Creating(t, conv(t)) => kind[conv(t)] = "absent"
       /\ pc[t] \in {"lock", "actor", "users"} /\ req[t].op = "add" => todo[t] = req[t].listed
       /\ Checked(t)
       /\ Progress(t)

IInv ==
  /\ TypeOK
  /\ OneOwner
  /\ \A c \in Convs : kind[c] = "absent" => members[c] = [u \in Ids |-> "none"]
  /\ \A t \in Txs : TxInv(t)
  /\ \A t, s \in Txs : t # s => ~(Creating(t, conv(t)) /\ Creating(s, conv(t)))

\* A conversation is locked by a transaction past its first statement, and the rows of its
\* members by nobody else but readers: what RowsUncontended follows from, together with IInv.
LockInv ==
  \A c \in Convs :
    /\ convLock[c] # None => Holds(convLock[c]) /\ conv(convLock[c]) = c
    /\ \A u \in Ids : rowLock[c][u] \in {None, Reader, convLock[c]}
=============================================================================
