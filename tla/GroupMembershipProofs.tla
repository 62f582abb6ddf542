----------------------- MODULE GroupMembershipProofs -----------------------
(***************************************************************************)
(* For any number of users, conversations and transactions: the invariant  *)
(* IInv is inductive, every commit is the indivisible operation its        *)
(* request asks for, and every group always has exactly one owner.         *)
(***************************************************************************)
EXTENDS GroupMembership, TLAPS

-----------------------------------------------------------------------------
(* Requests and rosters *)

\* The fields of a request have the types the actions rely on.
LEMMA RequestFields ==
  ASSUME NEW r \in Requests
  PROVE  /\ r \in Request
         /\ r.op \in Op /\ r.conv \in Convs /\ r.actor \in Users /\ r.actor \in Ids
         /\ r.target \in Ref /\ IdOf(r.target) \in Ids
         /\ r.listed \subseteq Ref /\ r.role \in {"admin", "member"}
  <1>1. r \in Request
    BY RequestsAssumption
  <1>2. /\ r.op \in Op /\ r.conv \in Convs /\ r.actor \in Users
        /\ r.target \in Ref /\ r.listed \subseteq Ref /\ r.role \in {"admin", "member"}
    BY <1>1 DEF Request
  <1>3. r.actor \in Ids
    BY <1>2, IdsAssumption
  <1>4. IdOf(r.target) \in Ids
    BY <1>2 DEF Ref, IdOf
  <1>5. QED
    BY <1>1, <1>2, <1>3, <1>4

\* Rosters are closed under the operations.
LEMMA AfterType ==
  ASSUME NEW r \in Requests, NEW roster \in [Ids -> Row]
  PROVE  After(roster, r) \in [Ids -> Row]
  <1>1. /\ r.op \in Op /\ r.actor \in Ids /\ IdOf(r.target) \in Ids
        /\ r.role \in {"admin", "member"}
    BY RequestFields
  <1>2. CASE r.op \in {"create", "add"}
    BY <1>1, <1>2 DEF After, Joined, Row, Role
  <1>3. CASE r.op \in {"remove", "role", "transfer"}
    BY <1>1, <1>3 DEF After, Row, Role
  <1>4. QED
    BY <1>1, <1>2, <1>3 DEF Op

\* An allowed operation on a group leaves exactly one owner.
LEMMA AfterOneOwner ==
  ASSUME NEW r \in Requests, NEW roster \in [Ids -> Row],
         r.op # "create", Allowed(roster, r), OneOwnerIn(roster)
  PROVE  OneOwnerIn(After(roster, r))
  <1>1. /\ r.op \in Op /\ r.actor \in Ids /\ IdOf(r.target) \in Ids
        /\ r.role \in {"admin", "member"}
    BY RequestFields
  <1>2. PICK o \in Ids : \A u \in Ids : roster[u] = "owner" <=> u = o
    BY DEF OneOwnerIn
  <1>3. CASE r.op = "add"
    <2>1. \A u \in Ids : After(roster, r)[u] = "owner" <=> u = o
      BY <1>2, <1>3 DEF After, Joined
    <2>2. QED
      BY <2>1 DEF OneOwnerIn
  <1>4. CASE r.op \in {"remove", "role"}
    <2>1. roster[IdOf(r.target)] \in {"admin", "member"}
      BY <1>4 DEF Allowed, Removable
    <2>2. \A u \in Ids : After(roster, r)[u] = "owner" <=> u = o
      BY <1>1, <1>2, <1>4, <2>1 DEF After
    <2>3. QED
      BY <2>2 DEF OneOwnerIn
  <1>5. CASE r.op = "transfer"
    <2>1. r.actor = o
      BY <1>1, <1>2, <1>5 DEF Allowed
    <2>2. \A u \in Ids : After(roster, r)[u] = "owner" <=> u = IdOf(r.target)
      BY <1>1, <1>2, <1>5, <2>1 DEF After
    <2>3. QED
      BY <1>1, <2>2 DEF OneOwnerIn
  <1>6. QED
    BY <1>1, <1>3, <1>4, <1>5 DEF Op

\* The roster a group is created with has one owner, the creator.
LEMMA CreateOneOwner ==
  ASSUME NEW r \in Requests, r.op = "create",
         NEW roster \in [Ids -> Row], roster = [u \in Ids |-> "none"]
  PROVE  OneOwnerIn(After(roster, r))
  <1>1. r.actor \in Ids
    BY RequestFields
  <1>2. \A u \in Ids : After(roster, r)[u] = "owner" <=> u = r.actor
    BY <1>1 DEF After, Joined
  <1>3. QED
    BY <1>1, <1>2 DEF OneOwnerIn

-----------------------------------------------------------------------------
(* One transaction *)

Step(t) == Submit(t) \/ Statement(t) \/ Abort(t)

\* A step of somebody who marks a conversation read.
ReaderStep(c, u) == MarkRead(c, u) \/ MarkReadEnds(c, u)

\* Every step is a transaction's or a reader's.
LEMMA Steps ==
  ASSUME Next
  PROVE  (\E t \in Txs : Step(t)) \/ (\E c \in Convs, u \in Ids : ReaderStep(c, u))
  BY ReaderAssumption DEF Next, Step, ReaderStep

\* A reader takes and frees its row and touches nothing else.
LEMMA ReaderTouches ==
  ASSUME NEW c, NEW u, ReaderStep(c, u)
  PROVE  UNCHANGED <<kind, members, convLock, pc, req, todo, actorRole, written>>
  BY DEF ReaderStep, MarkRead, MarkReadEnds, committed, local

\* Its row is the only one whose lock changes.
LEMMA ReaderLocks ==
  ASSUME TypeOK, NEW c \in Convs, NEW u \in Ids, ReaderStep(c, u)
  PROVE  /\ rowLock' \in [Convs -> [Ids -> Txs \cup {Reader, None}]]
         /\ \A d \in Convs, w \in Ids : rowLock'[d][w] \in {None, Reader, rowLock[d][w]}
  <1>1. rowLock \in [Convs -> [Ids -> Txs \cup {Reader, None}]]
    BY DEF TypeOK
  <1>2. PICK holder \in {Reader, None} : rowLock' = [rowLock EXCEPT ![c][u] = holder]
    BY DEF ReaderStep, MarkRead, MarkReadEnds
  <1>3. QED
    BY <1>1, <1>2

\* Types survive every step.
LEMMA StepType ==
  ASSUME IInv, NEW t \in Txs, Step(t)
  PROVE  TypeOK'
  <1> USE DEF TypeOK, GoTo
  <1>1. TypeOK
    BY DEF IInv
  <1>2. pc[t] # "idle" => /\ req[t] \in Requests /\ conv(t) \in Convs
                          /\ req[t].actor \in Ids /\ Target(t) \in Ids
                          /\ req[t].role \in Role /\ req[t].listed \in SUBSET Ref
    BY RequestFields DEF IInv, TxInv, conv, Target, Role
  <1>3. NoWrites \in [Ids -> Row \cup {"same"}]
    BY DEF NoWrites
  <1>4. ASSUME Close(t), kind' \in [Convs -> Kind], members' \in [Convs -> [Ids -> Row]]
        PROVE  TypeOK'
    BY <1>1, <1>3, <1>4 DEF Close, Phase, Row
  <1>5. ASSUME Rollback(t) PROVE TypeOK'
    BY <1>1, <1>4, <1>5 DEF Rollback, committed
  <1>6. \A u \in Ids : pc[t] # "idle" => View(t, u) \in Row
    BY <1>1, <1>2 DEF View
  <1>7. ASSUME NEW u, LockRow(t, u), pc[t] # "idle"
        PROVE  rowLock' \in [Convs -> [Ids -> Txs \cup {Reader, None}]]
    BY <1>1, <1>7 DEF LockRow
  <1>8. ASSUME NEW u, NEW row \in Row, Write(t, u, row), pc[t] # "idle"
        PROVE  /\ rowLock' \in [Convs -> [Ids -> Txs \cup {Reader, None}]]
               /\ written' \in [Txs -> [Ids -> Row \cup {"same"}]]
    BY <1>1, <1>7, <1>8 DEF Write
  <1>9. CASE Submit(t)
    <2>1. \A r \in Requests : r.listed \in SUBSET Ref
      BY RequestFields
    <2>2. QED
      BY <1>1, <1>9, <2>1 DEF Submit, committed, locks, Phase
  <1>10. CASE LockConversation(t)
    BY <1>1, <1>5, <1>10 DEF LockConversation, committed, local, Phase
  <1>11. CASE ReadActor(t)
    <2> DEFINE actor == req[t].actor
               role == View(t, actor)
    <2>1. CASE Rollback(t)
      BY <1>5, <2>1
    <2>2. CASE /\ actorRole' = [actorRole EXCEPT ![t] = role]
               /\ GoTo(t, IF req[t].op = "add" THEN "users" ELSE "target")
               /\ IF req[t].op \in {"add", "remove"} THEN LockRow(t, actor) ELSE UNCHANGED rowLock
               /\ UNCHANGED <<committed, convLock, req, todo, written>>
      <3>1. pc[t] # "idle" /\ actor \in Ids
        BY <1>2, <1>11 DEF ReadActor
      <3>2. role \in Row
        BY <1>6, <3>1
      <3>3. rowLock' \in [Convs -> [Ids -> Txs \cup {Reader, None}]]
        BY <1>1, <1>7, <2>2, <3>1
      <3>4. actorRole' \in [Txs -> Row] /\ pc' \in [Txs -> Phase]
        BY <1>1, <2>2, <3>2 DEF Phase
      <3>5. QED
        BY <1>1, <2>2, <3>3, <3>4 DEF committed
    <2>3. QED
      BY <1>11, <2>1, <2>2 DEF ReadActor
  <1>12. CASE ReadTarget(t)
    <2>1. req[t].op \in {"remove", "role", "transfer"} => FirstWrite[req[t].op] \in Phase
      BY DEF FirstWrite, Phase
    <2>2. QED
      BY <1>1, <1>2, <1>5, <1>7, <1>12, <2>1 DEF ReadTarget, MayTouch, committed, local
  <1>13. CASE CountUsers(t)
    BY <1>1, <1>5, <1>13 DEF CountUsers, committed, locks, local, Phase
  <1>14. CASE InsertConversation(t)
    <2>1. \A c \in Convs : req[t].op = "create" => [req[t] EXCEPT !.conv = c] \in Requests
      BY <1>2, <1>14, RequestsAssumption DEF InsertConversation
    <2>2. req[t].op = "create"
      BY <1>14 DEF IInv, TxInv, OnPath, InsertConversation
    <2>3. req' \in [Txs -> Requests \cup {None}]
      BY <1>1, <1>14, <2>1, <2>2 DEF InsertConversation
    <2>4. QED
      BY <1>1, <1>14, <2>3 DEF InsertConversation, committed, locks, Phase
  <1>15. CASE InsertFounders(t)
    BY <1>1, <1>15 DEF InsertFounders, committed, locks, local, Phase, Row, Role
  <1>16. CASE InsertListed(t)
    BY <1>1, <1>8, <1>16 DEF InsertListed, InsertMember, committed, Phase, Row, Role
  <1>17. CASE DeleteTarget(t)
    BY <1>1, <1>5, <1>8, <1>17 DEF DeleteTarget, committed, local, Phase, Row
  <1>18. CASE SetTargetRole(t)
    BY <1>1, <1>2, <1>8, <1>18 DEF SetTargetRole, UpdateRole, committed, local, Phase, Row
  <1>19. CASE Demote(t)
    BY <1>1, <1>8, <1>19 DEF Demote, UpdateRole, committed, local, Phase, Row, Role
  <1>20. CASE Promote(t)
    BY <1>1, <1>8, <1>20 DEF Promote, UpdateRole, committed, local, Phase, Row, Role
  <1>21. CASE Commit(t)
    BY <1>1, <1>2, <1>4, <1>6, <1>21 DEF Commit, Kind
  <1>22. CASE Abort(t)
    BY <1>5, <1>22 DEF Abort
  <1>23. QED
    BY <1>9, <1>10, <1>11, <1>12, <1>13, <1>14, <1>15, <1>16, <1>17, <1>18, <1>19,
       <1>20, <1>21, <1>22 DEF Step, Statement

\* What the invariant says of a transaction rests on its own variables, and, once it
\* holds its conversation or is creating it, on the committed rows of that one.
LEMMA Frame ==
  ASSUME NEW t \in Txs, TxInv(t),
         pc'[t] = pc[t], req'[t] = req[t], todo'[t] = todo[t],
         actorRole'[t] = actorRole[t], written'[t] = written[t],
         Holds(t) => convLock'[conv(t)] = t,
         Holds(t) \/ Creating(t, conv(t)) =>
           kind'[conv(t)] = kind[conv(t)] /\ members'[conv(t)] = members[conv(t)]
  PROVE  TxInv(t)'
  <1> USE DEF conv, Holds, Creating
  <1>1. CASE pc[t] = "idle"
    BY <1>1 DEF TxInv, NoWrites
  <1>2. CASE pc[t] # "idle"
    <2>1. OnPath(t) /\ OnPath(t)'
      BY <1>2 DEF TxInv, OnPath
    <2>2. Checked(t)'
      BY <1>2, <2>1 DEF TxInv, OnPath, Checked
    <2>3. pc[t] \in {"insert", "commit"} => members'[req[t].conv] = members[req[t].conv]
      BY <1>2, <2>1 DEF OnPath
    <2>4. \A u : pc[t] \in {"insert", "commit"} => View(t, u)' = View(t, u)
      BY <2>3 DEF View
    <2>5. pc[t] = "commit" => \A u \in Ids : View(t, u) = After(members[req[t].conv], req[t])[u]
      BY <1>2 DEF TxInv, Progress
    <2>6. (pc[t] = "commit" => \A u \in Ids : View(t, u) = After(members[req[t].conv], req[t])[u])'
      BY <2>3, <2>4, <2>5 DEF After, Joined
    <2>7. (pc[t] = "insert" =>
          /\ todo[t] \subseteq req[t].listed
          /\ \A u \in Ids : written[t][u] =
               IF u \in Named(req[t].listed \ todo[t]) /\ members[req[t].conv][u] = "none"
                 THEN "member" ELSE "same")'
      BY SMTT(20), <1>2, <2>3 DEF TxInv, Progress
    <2>8. Progress(t)'
      BY <1>2, <2>6, <2>7 DEF TxInv, Progress, NoWrites
    <2>9. QED
      BY <1>2, <2>1, <2>2, <2>8 DEF TxInv
  <1>3. QED
    BY <1>1, <1>2

\* A step of one transaction leaves the others alone: their conversations are not the
\* one it commits, and it frees no lock but its own.
LEMMA Others ==
  ASSUME IInv, NEW s \in Txs, Step(s), NEW t \in Txs, t # s
  PROVE  /\ TxInv(t)'
         /\ Creating(t, conv(t)) => kind'[conv(t)] = kind[conv(t)]
         /\ pc'[t] = pc[t] /\ req'[t] = req[t]
  <1>1. TypeOK /\ TxInv(t) /\ TxInv(s)
    BY DEF IInv
  <1>2. t # None /\ s # None
    BY NoneAssumption
  <1>3. /\ pc'[t] = pc[t] /\ req'[t] = req[t] /\ todo'[t] = todo[t]
        /\ actorRole'[t] = actorRole[t] /\ written'[t] = written[t]
    BY <1>1 DEF TypeOK, Step, Statement, Submit, LockConversation, ReadActor, ReadTarget,
       CountUsers, InsertConversation, InsertFounders, InsertListed, DeleteTarget,
       SetTargetRole, Demote, Promote, Commit, Abort, Rollback, Close, GoTo, Write,
       InsertMember, UpdateRole, local
  <1>4. Holds(t) => conv(t) \in Convs /\ convLock[conv(t)] = t /\ kind[conv(t)] = "group"
    BY <1>1, RequestFields DEF Holds, TxInv, conv
  <1>5. Holds(t) => convLock'[conv(t)] = t
    BY <1>1, <1>2, <1>4 DEF TypeOK, Step, Statement, Submit, LockConversation, ReadActor,
       ReadTarget, CountUsers, InsertConversation, InsertFounders, InsertListed,
       DeleteTarget, SetTargetRole, Demote, Promote, Commit, Abort, Rollback, Close, locks
  <1>6. Holds(t) \/ Creating(t, conv(t)) =>
          kind'[conv(t)] = kind[conv(t)] /\ members'[conv(t)] = members[conv(t)]
    <2>1. CASE ~Commit(s)
      BY <2>1 DEF Step, Statement, Submit, LockConversation, ReadActor, ReadTarget,
         CountUsers, InsertConversation, InsertFounders, InsertListed, DeleteTarget,
         SetTargetRole, Demote, Promote, Abort, Rollback, committed
    <2>2. CASE Commit(s)
      <3>1. /\ req[s] \in Requests /\ conv(s) \in Convs /\ req[s].op \in Op
            /\ Holds(s) => convLock[conv(s)] = s /\ kind[conv(s)] = "group"
            /\ Creating(s, conv(s)) => kind[conv(s)] = "absent"
            /\ Holds(s) \/ Creating(s, conv(s))
        BY <1>1, <2>2, RequestFields DEF Commit, TxInv, conv, Holds, Creating
      <3>2. Creating(t, conv(t)) => kind[conv(t)] = "absent"
        BY <1>1 DEF TxInv, Creating
      <3>3. ~(Creating(t, conv(t)) /\ Creating(s, conv(t)))
        BY DEF IInv
      <3>4. Holds(t) \/ Creating(t, conv(t)) => conv(t) # conv(s)
        BY <1>4, <3>1, <3>2, <3>3 DEF Creating
      <3>5. QED
        BY <1>1, <2>2, <3>4 DEF Commit, TypeOK
    <2>3. QED
      BY <2>1, <2>2
  <1>7. QED
    BY <1>1, <1>3, <1>5, <1>6, Frame

\* Each statement leaves behind what the next one relies on.
LEMMA OwnStep ==
  ASSUME IInv, NEW t \in Txs, Step(t)
  PROVE  TxInv(t)'
  <1> USE DEF conv, Holds, Creating, GoTo
  <1>1. TypeOK /\ TxInv(t)
    BY DEF IInv
  <1>2. pc[t] # "idle" => /\ req[t] \in Requests /\ conv(t) \in Convs
                          /\ req[t].actor \in Ids /\ Target(t) \in Ids
                          /\ req[t].listed \subseteq Ref /\ req[t].op \in Op
    BY <1>1, RequestFields DEF TxInv, Target
  <1>3. ASSUME Close(t) PROVE TxInv(t)'
    BY <1>1, <1>3 DEF Close, TxInv, TypeOK, NoWrites
  <1>4. ASSUME Rollback(t) PROVE TxInv(t)'
    BY <1>3, <1>4 DEF Rollback
  <1>5. pc[t] \notin {"insert", "promote", "commit"} =>
          written[t] = NoWrites /\ \A u \in Ids : View(t, u) = members[conv(t)][u]
    BY <1>1 DEF TxInv, Progress, View, NoWrites
  <1>6. CASE Submit(t)
    <2>1. PICK r \in Requests :
            /\ Accepted(r) /\ req' = [req EXCEPT ![t] = r]
            /\ todo' = [todo EXCEPT ![t] = r.listed]
            /\ pc' = [pc EXCEPT ![t] = IF r.op = "create" THEN "users" ELSE "lock"]
      BY <1>6 DEF Submit
    <2>2. /\ req'[t] = r /\ todo'[t] = r.listed /\ written'[t] = NoWrites
          /\ pc'[t] = IF r.op = "create" THEN "users" ELSE "lock"
      BY <1>1, <1>5, <1>6, <2>1 DEF TypeOK, Submit
    <2>3. OnPath(t)' /\ Checked(t)' /\ Progress(t)'
      BY <2>2 DEF OnPath, Checked, Progress, NoWrites
    <2>4. QED
      BY <2>1, <2>2, <2>3 DEF TxInv, Accepted
  <1>7. CASE LockConversation(t)
    <2>1. CASE Rollback(t)
      BY <1>4, <2>1
    <2>2. CASE ~Rollback(t)
      <3>1. /\ kind[conv(t)] = "group" /\ convLock' = [convLock EXCEPT ![conv(t)] = t]
            /\ pc'[t] = "actor" /\ UNCHANGED <<kind, members, req, todo, actorRole, written>>
        BY <1>1, <1>7, <2>2 DEF LockConversation, TypeOK, committed, local
      <3>2. OnPath(t)' /\ Checked(t)' /\ Progress(t)'
        BY <1>1, <1>5, <1>7, <3>1 DEF LockConversation, TxInv, OnPath, Checked, Progress, NoWrites
      <3>3. QED
        BY <1>1, <1>2, <1>7, <3>1, <3>2 DEF LockConversation, TxInv, TypeOK, Accepted
    <2>3. QED
      BY <2>1, <2>2
  <1>8. CASE ReadActor(t)
    <2>1. CASE Rollback(t)
      BY <1>4, <2>1
    <2>2. CASE ~Rollback(t)
      <3>1. /\ MayAct(t, members[conv(t)][req[t].actor])
            /\ actorRole'[t] = members[conv(t)][req[t].actor]
            /\ pc'[t] = IF req[t].op = "add" THEN "users" ELSE "target"
            /\ UNCHANGED <<kind, members, convLock, req, todo, written>>
        BY <1>1, <1>2, <1>5, <1>8, <2>2 DEF ReadActor, TypeOK, committed
      <3>2. OnPath(t)' /\ Progress(t)'
        BY <1>1, <1>2, <1>5, <1>8, <3>1 DEF ReadActor, TxInv, OnPath, Progress, NoWrites, Op
      <3>3. Checked(t)'
        BY <3>1 DEF Checked, MayAct, SelfRequest
      <3>4. QED
        BY <1>1, <1>8, <3>1, <3>2, <3>3 DEF ReadActor, TxInv, Accepted, OnPath
    <2>3. QED
      BY <2>1, <2>2
  <1>9. CASE ReadTarget(t)
    <2> DEFINE role == IF req[t].op = "remove" /\ SelfRequest(req[t])
                         THEN actorRole[t] ELSE View(t, Target(t))
    <2>1. CASE Rollback(t)
      BY <1>4, <2>1
    <2>2. CASE ~Rollback(t)
      <3>1. /\ MayTouch(t, role) /\ pc'[t] = FirstWrite[req[t].op]
            /\ UNCHANGED <<kind, members, convLock, req, todo, actorRole, written>>
        BY <1>1, <1>9, <2>2 DEF ReadTarget, TypeOK, committed, local
      <3>2. \/ req[t].op = "remove" /\ pc'[t] = "delete"
            \/ req[t].op = "role" /\ pc'[t] = "update"
            \/ req[t].op = "transfer" /\ pc'[t] = "demote"
        BY <3>1 DEF MayTouch, FirstWrite
      <3>3. role = members[conv(t)][Target(t)]
        BY <1>1, <1>2, <1>5, <1>9 DEF ReadTarget, TxInv, Checked, SelfRequest, Spelled, Target, IdOf
      <3>4. role \in Row
        BY <1>1, <1>2, <1>9, <3>3 DEF ReadTarget, TypeOK
      <3>5. Allowed(members[conv(t)], req[t])
        BY <1>1, <1>9, <3>1, <3>3, <3>4 DEF ReadTarget, TxInv, Checked, MayTouch, Ranked,
           Allowed, Removable, Target, Row, Role
      <3>6. OnPath(t)' /\ Checked(t)' /\ Progress(t)'
        BY <1>5, <1>9, <3>1, <3>2, <3>5 DEF ReadTarget, OnPath, Checked, Progress, NoWrites,
           Allowed, Removable, AllRegistered, SelfRequest
      <3>7. QED
        BY <1>1, <1>9, <3>1, <3>2, <3>6 DEF ReadTarget, TxInv, Accepted
    <2>3. QED
      BY <2>1, <2>2
  <1>10. CASE CountUsers(t)
    <2>1. CASE Rollback(t)
      BY <1>4, <2>1
    <2>2. CASE ~Rollback(t)
      <3>1. /\ AllRegistered(req[t].listed \cup
                 (IF req[t].op = "create" THEN {Spelled(req[t].actor)} ELSE {}))
            /\ pc'[t] = IF req[t].op = "create" THEN "conversation" ELSE "insert"
            /\ UNCHANGED <<kind, members, convLock, req, todo, actorRole, written>>
        BY <1>1, <1>10, <2>2 DEF CountUsers, TypeOK, committed, locks, local
      <3>2. req[t].op \in {"create", "add"}
        BY <1>1, <1>10 DEF CountUsers, TxInv, OnPath
      <3>3. OnPath(t)' /\ Checked(t)'
        <4>1. OnPath(t)'
          BY <3>1, <3>2 DEF OnPath
        <4>2. req[t].op = "add" => members[conv(t)][req[t].actor] \in {"owner", "admin"}
          BY <1>1, <1>10 DEF CountUsers, TxInv, Checked
        <4>3. CASE req[t].op = "create"
          BY <3>1, <4>1, <4>3 DEF Checked, AllRegistered
        <4>4. CASE req[t].op = "add"
          BY <3>1, <4>1, <4>2, <4>4 DEF Checked, Allowed, AllRegistered
        <4>5. QED
          BY <3>2, <4>3, <4>4
      <3>4. req[t].op = "add" => todo[t] = req[t].listed
        BY <1>1, <1>10 DEF CountUsers, TxInv
      <3>5. Progress(t)'
        BY <1>5, <1>10, <3>1, <3>2, <3>4 DEF CountUsers, Progress, NoWrites, Named
      <3>6. QED
        BY <1>1, <1>10, <3>1, <3>2, <3>3, <3>5 DEF CountUsers, TxInv, Accepted
    <2>3. QED
      BY <2>1, <2>2
  <1>11. CASE InsertConversation(t)
    <2>1. PICK c \in Convs :
            kind[c] = "absent" /\ req' = [req EXCEPT ![t].conv = c]
      BY <1>11 DEF InsertConversation
    <2>2. /\ req'[t] = [req[t] EXCEPT !.conv = c] /\ pc'[t] = "founders"
          /\ UNCHANGED <<kind, members, convLock, todo, actorRole, written>>
      BY <1>1, <1>11, <2>1 DEF InsertConversation, TypeOK, committed, locks
    <2>3. req[t].op = "create"
      BY <1>1, <1>11 DEF InsertConversation, TxInv, OnPath
    <2>4. /\ req'[t].op = "create" /\ req'[t].conv = c /\ req'[t].listed = req[t].listed
          /\ req'[t].actor = req[t].actor /\ req'[t] \in Requests
      <3>1. req[t] \in Request
        BY <1>2, <1>11, RequestsAssumption DEF InsertConversation
      <3>2. QED
        BY <1>2, <1>11, <2>2, <2>3, <3>1, RequestsAssumption DEF InsertConversation, Request
    <2>5. Accepted(req'[t])
      BY <1>1, <1>11, <2>3, <2>4 DEF InsertConversation, TxInv, Accepted
    <2>6. OnPath(t)' /\ Checked(t)' /\ Progress(t)'
      <3>1. OnPath(t)'
        BY <2>2, <2>4 DEF OnPath
      <3>2. AllRegistered(req[t].listed \cup {Spelled(req[t].actor)})
        BY <1>1, <1>11 DEF InsertConversation, TxInv, Checked
      <3>3. Checked(t)'
        BY <2>2, <2>4, <3>2 DEF Checked
      <3>4. written'[t] = NoWrites
        BY <1>5, <1>11, <2>2 DEF InsertConversation
      <3>5. Progress(t)'
        BY <2>2, <3>4 DEF Progress, NoWrites
      <3>6. QED
        BY <3>1, <3>3, <3>5
    <2>7. QED
      BY <1>11, <2>1, <2>2, <2>4, <2>5, <2>6 DEF TxInv, Accepted
  <1>12. CASE InsertFounders(t)
    <2>1. /\ written'[t] = [u \in Ids |->
                IF u = req[t].actor THEN "owner"
                ELSE IF u \in Named(req[t].listed) THEN "member" ELSE "same"]
          /\ pc'[t] = "commit"
          /\ UNCHANGED <<kind, members, convLock, req, todo, actorRole>>
      BY <1>1, <1>12 DEF InsertFounders, TypeOK, committed, locks, local
    <2>2. /\ req[t].op = "create" /\ kind[conv(t)] = "absent"
          /\ Allowed(members[conv(t)], req[t])
      BY <1>1, <1>12 DEF InsertFounders, TxInv, OnPath, Checked, Allowed
    <2>3. members[conv(t)] = [u \in Ids |-> "none"]
      BY <1>2, <1>12, <2>2 DEF InsertFounders, IInv
    <2>4. \A u \in Ids : View(t, u)' = After(members[conv(t)], req[t])[u]
      BY <1>2, <1>12, <2>1, <2>2, <2>3 DEF InsertFounders, View, After, Joined
    <2>5. (\A u \in Ids : View(t, u) = After(members[conv(t)], req[t])[u])'
      BY <2>1, <2>4 DEF After, Joined
    <2>6. OnPath(t)' /\ Progress(t)'
      <3>1. OnPath(t)'
        BY <2>1 DEF OnPath
      <3>2. QED
        BY <2>1, <2>5, <3>1 DEF Progress
    <2>7. Checked(t)'
      BY <2>1, <2>2 DEF Checked, Allowed, Removable, SelfRequest, AllRegistered
    <2>8. QED
      BY <1>1, <1>12, <2>1, <2>2, <2>6, <2>7 DEF InsertFounders, TxInv, Accepted
  <1>13. CASE InsertListed(t)
    <2> DEFINE roster == members[conv(t)]
               seen(S, u) == IF u \in Named(S) /\ roster[u] = "none" THEN "member" ELSE "same"
    <2>1. PICK ref \in todo[t] :
            /\ InsertMember(t, IdOf(ref))
            /\ todo' = [todo EXCEPT ![t] = @ \ {ref}]
            /\ pc' = [pc EXCEPT ![t] = IF todo[t] = {ref} THEN "commit" ELSE "insert"]
      BY <1>13 DEF InsertListed
    <2>2. /\ req[t].op = "add" /\ todo[t] \subseteq req[t].listed
          /\ \A u \in Ids : written[t][u] = seen(req[t].listed \ todo[t], u)
          /\ Allowed(roster, req[t])
      BY <1>1, <1>13 DEF InsertListed, TxInv, OnPath, Checked, Progress
    <2>3. /\ todo'[t] = todo[t] \ {ref}
          /\ pc'[t] = IF todo[t] = {ref} THEN "commit" ELSE "insert"
          /\ UNCHANGED <<kind, members, convLock, req, actorRole>>
      BY <1>1, <1>13, <2>1 DEF InsertListed, TypeOK, committed
    <2>4. IdOf(ref) \in Ids
      BY <1>2, <1>13, <2>1, <2>2 DEF InsertListed, Ref, IdOf
    <2>5. Named(req[t].listed \ todo'[t]) = Named(req[t].listed \ todo[t]) \cup {IdOf(ref)}
      BY <2>1, <2>2, <2>3 DEF Named
    <2>6. \A u \in Ids : roster[u] \in Row
      BY <1>1, <1>2, <1>13 DEF InsertListed, TypeOK
    <2>7. \A u \in Ids : written'[t][u] = seen(req[t].listed \ todo'[t], u)
      <3>1. CASE View(t, IdOf(ref)) = "none"
        <4>1. written'[t] = [written[t] EXCEPT ![IdOf(ref)] = "member"]
          BY <1>1, <2>1, <3>1 DEF InsertMember, Write, TypeOK
        <4>2. roster[IdOf(ref)] = "none"
          BY <2>2, <2>4, <3>1 DEF View
        <4>3. written[t] \in [Ids -> Row \cup {"same"}]
          BY <1>1 DEF TypeOK
        <4>4. QED
          BY <2>2, <2>4, <2>5, <4>1, <4>2, <4>3
      <3>2. CASE View(t, IdOf(ref)) # "none"
        <4>1. written'[t] = written[t]
          BY <2>1, <3>2 DEF InsertMember
        <4>2. roster[IdOf(ref)] = "none" => IdOf(ref) \in Named(req[t].listed \ todo[t])
          BY <2>2, <2>4, <3>2 DEF View
        <4>3. QED
          BY <2>2, <2>4, <2>5, <4>1, <4>2
      <3>3. QED
        BY <3>1, <3>2
    <2>8. pc'[t] = "commit" => \A u \in Ids : View(t, u)' = After(roster, req[t])[u]
      <3>1. pc'[t] = "commit" => req[t].listed \ todo'[t] = req[t].listed
        BY <2>3
      <3>2. QED
        BY <2>2, <2>3, <2>6, <2>7, <3>1 DEF View, After, Joined, Row, Role
    <2>9. (pc[t] = "commit" => \A u \in Ids : View(t, u) = After(members[req[t].conv], req[t])[u])'
      BY <2>3, <2>8 DEF After, Joined
    <2>10. OnPath(t)' /\ Progress(t)'
      <3>1. OnPath(t)'
        BY <2>2, <2>3 DEF OnPath
      <3>2. (/\ todo[t] \subseteq req[t].listed
             /\ \A u \in Ids : written[t][u] =
                  IF u \in Named(req[t].listed \ todo[t]) /\ members[req[t].conv][u] = "none"
                    THEN "member" ELSE "same")'
        BY <2>2, <2>3, <2>7
      <3>3. QED
        BY <2>3, <2>9, <3>1, <3>2 DEF Progress
    <2>11. Checked(t)'
      BY <2>2, <2>3 DEF Checked, Allowed, Removable, SelfRequest, AllRegistered
    <2>12. QED
      BY <1>1, <1>13, <2>2, <2>3, <2>10, <2>11 DEF InsertListed, TxInv, Accepted
  <1>14. ASSUME pc[t] \in {"delete", "update", "promote"}, pc'[t] = "commit",
                UNCHANGED <<kind, members, convLock, req, todo, actorRole>>,
                \A u \in Ids : View(t, u)' = After(members[conv(t)], req[t])[u]
         PROVE  TxInv(t)'
    <2>1. Allowed(members[conv(t)], req[t])
      BY <1>1, <1>14 DEF TxInv, Checked
    <2>2. (\A u \in Ids : View(t, u) = After(members[req[t].conv], req[t])[u])'
      BY <1>14 DEF After, Joined
    <2>3. Progress(t)'
      BY <1>14, <2>2 DEF Progress
    <2>4. Checked(t)'
      BY <1>14, <2>1 DEF Checked, Allowed, Removable, SelfRequest, AllRegistered
    <2>5. OnPath(t)'
      BY <1>14 DEF OnPath
    <2>6. QED
      BY <1>1, <1>14, <2>3, <2>4, <2>5 DEF TxInv, OnPath, Accepted
  <1>15. CASE DeleteTarget(t)
    <2>1. CASE Rollback(t)
      BY <1>4, <2>1
    <2>2. CASE ~Rollback(t)
      <3>1. /\ written'[t] = [NoWrites EXCEPT ![Target(t)] = "none"]
            /\ pc'[t] = "commit"
            /\ UNCHANGED <<kind, members, convLock, req, todo, actorRole>>
        BY SMTT(20), <1>1, <1>5, <1>15, <2>2 DEF DeleteTarget, Write, TypeOK, committed, local
      <3>2. req[t].op = "remove"
        BY <1>1, <1>15 DEF DeleteTarget, TxInv, OnPath
      <3>3. \A u \in Ids : View(t, u)' = After(members[conv(t)], req[t])[u]
        BY <1>1, <1>2, <1>15, <3>1, <3>2 DEF DeleteTarget, TypeOK, View, After, NoWrites, Target
      <3>4. QED
        BY <1>14, <1>15, <3>1, <3>3 DEF DeleteTarget
    <2>3. QED
      BY <2>1, <2>2
  <1>16. CASE SetTargetRole(t)
    <2>1. /\ req[t].op = "role" /\ Allowed(members[conv(t)], req[t])
          /\ members[conv(t)][Target(t)] # "none"
      BY <1>1, <1>16 DEF SetTargetRole, TxInv, OnPath, Checked, Allowed, Target
    <2>2. /\ written'[t] = [NoWrites EXCEPT ![Target(t)] = req[t].role]
          /\ pc'[t] = "commit"
          /\ UNCHANGED <<kind, members, convLock, req, todo, actorRole>>
      BY <1>1, <1>2, <1>5, <1>16, <2>1 DEF SetTargetRole, UpdateRole, Write, TypeOK, committed, local
    <2>3. req[t].role # "same"
      BY <1>2, <1>16, RequestFields DEF SetTargetRole
    <2>4. \A u \in Ids : View(t, u)' = After(members[conv(t)], req[t])[u]
      BY <1>1, <1>2, <1>16, <2>1, <2>2, <2>3 DEF SetTargetRole, TypeOK, View, After, NoWrites, Target
    <2>5. QED
      BY <1>14, <1>16, <2>2, <2>4 DEF SetTargetRole
  <1>17. CASE Demote(t)
    <2>1. /\ req[t].op = "transfer" /\ Allowed(members[conv(t)], req[t])
          /\ members[conv(t)][req[t].actor] # "none"
      BY <1>1, <1>17 DEF Demote, TxInv, OnPath, Checked, Allowed
    <2>2. /\ written'[t] = [NoWrites EXCEPT ![req[t].actor] = "admin"]
          /\ pc'[t] = "promote"
          /\ UNCHANGED <<kind, members, convLock, req, todo, actorRole>>
      <3>1. View(t, req[t].actor) # "none" /\ written[t] = NoWrites
        BY <1>2, <1>5, <1>17, <2>1 DEF Demote
      <3>2. /\ written' = [written EXCEPT ![t][req[t].actor] = "admin"]
            /\ pc' = [pc EXCEPT ![t] = "promote"]
            /\ UNCHANGED <<kind, members, convLock, req, todo, actorRole>>
        BY <1>17, <3>1 DEF Demote, UpdateRole, Write, committed, local
      <3>3. QED
        BY <1>1, <3>1, <3>2 DEF TypeOK
    <2>3. OnPath(t)' /\ Progress(t)'
      BY <2>1, <2>2 DEF OnPath, Progress, NoWrites
    <2>4. Checked(t)'
      BY <2>1, <2>2 DEF Checked, Allowed, Removable, SelfRequest, AllRegistered
    <2>5. QED
      BY <1>1, <1>17, <2>1, <2>2, <2>3, <2>4 DEF Demote, TxInv, Accepted
  <1>18. CASE Promote(t)
    <2>1. /\ req[t].op = "transfer" /\ Allowed(members[conv(t)], req[t])
          /\ members[conv(t)][Target(t)] # "none"
          /\ written[t] = [NoWrites EXCEPT ![req[t].actor] = "admin"]
      BY <1>1, <1>18 DEF Promote, TxInv, OnPath, Checked, Progress, Allowed, Target
    <2>2. View(t, Target(t)) # "none"
      BY <1>2, <1>18, <2>1 DEF Promote, View, NoWrites
    <2>3. /\ written'[t] = [written[t] EXCEPT ![Target(t)] = "owner"]
          /\ pc'[t] = "commit"
          /\ UNCHANGED <<kind, members, convLock, req, todo, actorRole>>
      BY <1>1, <1>18, <2>2 DEF Promote, UpdateRole, Write, TypeOK, committed, local
    <2>4. \A u \in Ids : View(t, u)' = After(members[conv(t)], req[t])[u]
      BY <1>1, <1>2, <1>18, <2>1, <2>3 DEF Promote, TypeOK, View, After, NoWrites, Target
    <2>5. QED
      BY <1>14, <1>18, <2>3, <2>4 DEF Promote
  <1>19. CASE Commit(t)
    BY <1>3, <1>19 DEF Commit
  <1>20. CASE Abort(t)
    BY <1>4, <1>20 DEF Abort
  <1>21. QED
    BY <1>6, <1>7, <1>8, <1>9, <1>10, <1>11, <1>12, <1>13, <1>15, <1>16, <1>17, <1>18,
       <1>19, <1>20 DEF Step, Statement

-----------------------------------------------------------------------------
(* The invariant *)

LEMMA InitIInv == Init => IInv
  <1> SUFFICES ASSUME Init PROVE IInv
    OBVIOUS
  <1>1. TypeOK
    BY NoneAssumption DEF Init, TypeOK, Kind, Phase, Row, Role, NoWrites
  <1>2. OneOwner
    BY DEF Init, OneOwner
  <1>3. \A c \in Convs : kind[c] = "absent" => members[c] = [u \in Ids |-> "none"]
    BY DEF Init
  <1>4. \A t \in Txs : pc[t] = "idle" /\ written[t] = NoWrites
    BY DEF Init
  <1>5. QED
    BY <1>1, <1>2, <1>3, <1>4 DEF IInv, TxInv, Creating

\* At a commit the request is allowed by the committed rows and installs its effect.
LEMMA CommitPerforms ==
  ASSUME IInv, NEW t \in Txs, Commit(t)
  PROVE  /\ req[t] \in Requests /\ Accepted(req[t]) /\ conv(t) \in Convs
         /\ kind[conv(t)] = IF req[t].op = "create" THEN "absent" ELSE "group"
         /\ Allowed(members[conv(t)], req[t])
         /\ kind' = [kind EXCEPT ![conv(t)] = "group"]
         /\ members' = [members EXCEPT ![conv(t)] = After(members[conv(t)], req[t])]
  <1>1. TypeOK /\ TxInv(t) /\ pc[t] = "commit"
    BY DEF IInv, Commit
  <1>2. /\ req[t] \in Requests /\ Accepted(req[t]) /\ conv(t) \in Convs
        /\ members[conv(t)] \in [Ids -> Row]
    BY <1>1, RequestFields DEF TxInv, TypeOK, conv
  <1>3. kind[conv(t)] = IF req[t].op = "create" THEN "absent" ELSE "group"
    BY <1>1 DEF TxInv, Holds, Creating
  <1>4. Allowed(members[conv(t)], req[t])
    BY <1>1 DEF TxInv, Checked, conv
  <1>5. [u \in Ids |-> View(t, u)] = After(members[conv(t)], req[t])
    <2>1. After(members[conv(t)], req[t]) \in [Ids -> Row]
      BY <1>2, AfterType
    <2>2. \A u \in Ids : View(t, u) = After(members[conv(t)], req[t])[u]
      BY <1>1 DEF TxInv, Progress, conv
    <2>3. QED
      BY <2>1, <2>2
  <1>6. QED
    BY <1>2, <1>3, <1>4, <1>5 DEF Commit

\* Only a commit changes the committed rows.
LEMMA OnlyCommit ==
  ASSUME NEW t \in Txs, Step(t), ~Commit(t)
  PROVE  UNCHANGED committed
  BY DEF Step, Statement, Submit, LockConversation, ReadActor, ReadTarget, CountUsers,
     InsertConversation, InsertFounders, InsertListed, DeleteTarget, SetTargetRole,
     Demote, Promote, Abort, Rollback, committed

\* A group keeps exactly one owner, an unused id keeps no rows.
LEMMA StepRows ==
  ASSUME IInv, NEW t \in Txs, Step(t)
  PROVE  /\ OneOwner'
         /\ (\A c \in Convs : kind[c] = "absent" => members[c] = [u \in Ids |-> "none"])'
  <1>1. /\ TypeOK /\ OneOwner
        /\ \A c \in Convs : kind[c] = "absent" => members[c] = [u \in Ids |-> "none"]
    BY DEF IInv
  <1>2. CASE ~Commit(t)
    BY <1>1, <1>2, OnlyCommit DEF OneOwner, OneOwnerIn, committed
  <1>3. CASE Commit(t)
    <2> DEFINE roster == members[conv(t)]
    <2>1. /\ req[t] \in Requests /\ conv(t) \in Convs
          /\ kind[conv(t)] = IF req[t].op = "create" THEN "absent" ELSE "group"
          /\ Allowed(roster, req[t])
          /\ kind' = [kind EXCEPT ![conv(t)] = "group"]
          /\ members' = [members EXCEPT ![conv(t)] = After(roster, req[t])]
      BY <1>3, CommitPerforms
    <2>2. roster \in [Ids -> Row]
      BY <1>1, <2>1 DEF TypeOK
    <2>3. OneOwnerIn(After(roster, req[t]))
      <3>1. CASE req[t].op = "create"
        BY <1>1, <2>1, <2>2, <3>1, CreateOneOwner
      <3>2. CASE req[t].op # "create"
        BY <1>1, <2>1, <2>2, <3>2, AfterOneOwner DEF OneOwner
      <3>3. QED
        BY <3>1, <3>2
    <2>4. \A c \in Convs : kind'[c] = "group" => OneOwnerIn(members'[c])
      BY <1>1, <2>1, <2>3 DEF OneOwner, TypeOK
    <2>5. QED
      BY <1>1, <2>1, <2>4 DEF OneOwner, OneOwnerIn, TypeOK
  <1>4. QED
    BY <1>2, <1>3

\* Two transactions never create the same conversation.
LEMMA StepCreating ==
  ASSUME IInv, NEW t \in Txs, Step(t)
  PROVE  (\A a, b \in Txs : a # b => ~(Creating(a, conv(a)) /\ Creating(b, conv(a))))'
  <1>1. TypeOK
    BY DEF IInv
  <1>2. \A s \in Txs : s # t => pc'[s] = pc[s] /\ req'[s] = req[s]
    BY Others
  <1>3. ASSUME NEW s \in Txs, s # t
        PROVE  ~(Creating(t, conv(t)) /\ Creating(s, conv(t)))'
    <2>1. CASE InsertConversation(t)
      <3>1. PICK c \in Convs : /\ \A t2 \in Txs : ~Creating(t2, c)
                               /\ req' = [req EXCEPT ![t].conv = c]
        BY <2>1 DEF InsertConversation
      <3>2. req[t] \in Request
        BY <2>1, RequestsAssumption DEF IInv, TxInv, InsertConversation
      <3>3. req'[t].conv = c
        BY <1>1, <3>1, <3>2 DEF TypeOK, Request
      <3>4. QED
        BY <1>2, <1>3, <3>1, <3>3 DEF Creating, conv
    <2>2. CASE InsertFounders(t)
      <3>1. Creating(t, conv(t)) /\ req'[t] = req[t]
        BY <2>2 DEF InsertFounders, IInv, TxInv, OnPath, Creating, local
      <3>2. QED
        BY <1>2, <1>3, <3>1 DEF IInv, Creating, conv
    <2>3. CASE ~InsertConversation(t) /\ ~InsertFounders(t)
      <3>1. pc'[t] # "founders"
        BY <1>1, <2>3 DEF Step, Statement, Submit, LockConversation, ReadActor, ReadTarget,
           CountUsers, InsertListed, DeleteTarget, SetTargetRole, Demote, Promote, Commit,
           Abort, Rollback, Close, GoTo, TypeOK, FirstWrite, MayTouch
      <3>2. pc'[t] = "commit" => req'[t].op # "create"
        <4>1. TxInv(t)
          BY DEF IInv
        <4>2. QED
          BY <1>1, <2>3, <4>1 DEF Step, Statement, Submit, LockConversation, ReadActor, ReadTarget,
             CountUsers, InsertListed, DeleteTarget, SetTargetRole, Demote, Promote, Commit,
             Abort, Rollback, Close, GoTo, TypeOK, FirstWrite, MayTouch, TxInv, OnPath, local
      <3>3. QED
        BY <3>1, <3>2 DEF Creating
    <2>4. QED
      BY <2>1, <2>2, <2>3
  <1>4. ASSUME NEW a \in Txs, NEW b \in Txs, a # b
        PROVE  ~(Creating(a, conv(a)) /\ Creating(b, conv(a)))'
    <2>1. CASE a = t
      BY <1>3, <1>4, <2>1
    <2>2. CASE b = t
      BY <1>3, <1>4, <2>2 DEF Creating
    <2>3. CASE a # t /\ b # t
      BY <1>2, <1>4, <2>3 DEF IInv, Creating, conv
    <2>4. QED
      BY <2>1, <2>2, <2>3
  <1>5. QED
    BY <1>4

LEMMA NextIInv == IInv /\ [Next]_vars => IInv'
  <1> SUFFICES ASSUME IInv, [Next]_vars PROVE IInv'
    OBVIOUS
  <1>1. CASE UNCHANGED vars
    <2>1. \A s \in Txs : TxInv(s)'
      BY <1>1, Frame DEF IInv, TxInv, Holds, Creating, vars
    <2>2. TypeOK' /\ OneOwner'
      BY <1>1 DEF vars, IInv, TypeOK, OneOwner, OneOwnerIn
    <2>3. QED
      BY <1>1, <2>1, <2>2 DEF vars, IInv, Creating, conv
  <1>2. ASSUME NEW t \in Txs, Step(t) PROVE IInv'
    <2>1. \A s \in Txs : TxInv(s)'
      BY <1>2, OwnStep, Others
    <2>2. QED
      BY <1>2, <2>1, StepType, StepRows, StepCreating DEF IInv
  <1>3. ASSUME NEW c \in Convs, NEW u \in Ids, ReaderStep(c, u) PROVE IInv'
    <2>1. UNCHANGED <<kind, members, convLock, pc, req, todo, actorRole, written>>
      BY <1>3, ReaderTouches
    <2>2. \A s \in Txs : TxInv(s)'
      BY <2>1, Frame DEF IInv, TxInv, Holds, Creating
    <2>3. rowLock' \in [Convs -> [Ids -> Txs \cup {Reader, None}]]
      BY <1>3, ReaderLocks DEF IInv
    <2>4. TypeOK' /\ OneOwner'
      BY <2>1, <2>3 DEF IInv, TypeOK, OneOwner, OneOwnerIn
    <2>5. QED
      BY <2>1, <2>2, <2>4 DEF IInv, Creating, conv
  <1>4. QED
    BY <1>1, <1>2, <1>3, Steps

\* The inductive invariant holds in every state of the overlapping transactions (conversation.go:82-303).
THEOREM Invariance == Spec => []IInv
  BY InitIInv, NextIInv, PTL DEF Spec

-----------------------------------------------------------------------------
(* What the API promises *)

\* Every committed row of groups, and every row a transaction holds, is well typed.
THEOREM TypeCorrect == Spec => []TypeOK
  BY Invariance, PTL DEF IInv

\* However requests overlap, every group has exactly one owner at every commit.
THEOREM OwnerUnique == Spec => []OneOwner
  BY Invariance, PTL DEF IInv

\* The rules GroupRules states are those the transactions are judged by.
LEMMA SameRules ==
  /\ \A r : Rules!Accepted(r) <=> Accepted(r)
  /\ \A roster, r : Rules!Allowed(roster, r) <=> Allowed(roster, r)
  /\ \A roster, r : Rules!After(roster, r) = After(roster, r)
  /\ \A roster : Rules!DirectRoster(roster) <=> DirectRoster(roster)
  <1>1. \A r : Rules!Accepted(r) <=> Accepted(r)
    BY DEF Rules!Accepted, Accepted, Rules!Spelled, Spelled
  <1>2. \A roster, r : Rules!Allowed(roster, r) <=> Allowed(roster, r)
    BY DEF Rules!Allowed, Allowed, Rules!Removable, Removable, Rules!SelfRequest, SelfRequest,
       Rules!AllRegistered, AllRegistered, Rules!Named, Named, Rules!IdOf, IdOf,
       Rules!Spelled, Spelled
  <1>3. \A roster, r : Rules!After(roster, r) = After(roster, r)
    BY DEF Rules!After, After, Rules!Joined, Joined, Rules!Named, Named, Rules!IdOf, IdOf
  <1>4. \A roster : Rules!DirectRoster(roster) <=> DirectRoster(roster)
    BY DEF Rules!DirectRoster, DirectRoster
  <1>5. QED
    BY <1>1, <1>2, <1>3, <1>4

\* Every commit is the indivisible operation its request asked for.
THEOREM Serializable == Spec => Linearizable
  <1>1. IInv /\ [Next]_vars =>
          [\E t \in Txs : pc[t] = "commit" /\ Rules!Perform(req[t])]_committed
    <2> SUFFICES ASSUME IInv, [Next]_vars, ~UNCHANGED committed
                 PROVE  \E t \in Txs : pc[t] = "commit" /\ Rules!Perform(req[t])
      OBVIOUS
    <2>1. PICK t \in Txs : Step(t)
      BY Steps, ReaderTouches DEF vars, committed
    <2>2. Commit(t)
      BY <2>1, OnlyCommit
    <2>3. pc[t] = "commit" /\ Rules!Perform(req[t])
      BY <2>2, CommitPerforms, SameRules DEF Commit, Rules!Perform, conv
    <2>4. QED
      BY <2>3
  <1>2. QED
    BY <1>1, Invariance, PTL DEF Spec, Linearizable

\* The transactions of the repository implement the one-step rules of GroupRules.
THEOREM Refinement == Spec => Implements
  <1>1. Init => Rules!Init
    BY SameRules DEF Init, Rules!Init
  <1>2. IInv /\ [Next]_vars => [Rules!Next]_(Rules!vars)
    <2> SUFFICES ASSUME IInv, [Next]_vars, ~UNCHANGED committed
                 PROVE  Rules!Next
      BY DEF committed, Rules!vars
    <2>1. PICK t \in Txs : Step(t)
      BY Steps, ReaderTouches DEF vars, committed
    <2>2. Commit(t)
      BY <2>1, OnlyCommit
    <2>3. req[t] \in Requests /\ Accepted(req[t]) /\ Rules!Perform(req[t])
      BY <2>2, CommitPerforms, SameRules DEF Rules!Perform, conv
    <2>4. QED
      BY <2>3, SameRules DEF Rules!Next
  <1>3. QED
    BY <1>1, <1>2, Invariance, PTL DEF Spec, Implements, Rules!Spec

\* No request on groups reaches a direct conversation.
THEOREM DirectUntouched == Spec => DirectFixed
  <1>1. IInv /\ [Next]_vars => [\A c \in Convs : kind[c] = "direct" =>
          kind'[c] = "direct" /\ members'[c] = members[c]]_committed
    <2> SUFFICES ASSUME IInv, [Next]_vars, ~UNCHANGED committed,
                        NEW c \in Convs, kind[c] = "direct"
                 PROVE  kind'[c] = "direct" /\ members'[c] = members[c]
      OBVIOUS
    <2>1. PICK t \in Txs : Step(t)
      BY Steps, ReaderTouches DEF vars, committed
    <2>2. Commit(t)
      BY <2>1, OnlyCommit
    <2>3. conv(t) # c
      BY <2>2, CommitPerforms
    <2>4. QED
      BY <2>2, <2>3, CommitPerforms DEF IInv, TypeOK
  <1>2. QED
    BY <1>1, Invariance, PTL DEF Spec, DirectFixed
-----------------------------------------------------------------------------
(* Transactions on groups never wait for one another at a member's row *)

\* A step that closes nothing and takes no conversation keeps the locks in order, if the
\* row it takes is of the conversation it holds.
LEMMA KeepsLocks ==
  ASSUME LockInv, NEW t \in Txs,
         convLock' = convLock,
         \A s \in Txs : s # t => pc'[s] = pc[s] /\ req'[s] = req[s],
         \A c \in Convs : convLock[c] \in Txs \cup {None},
         Holds(t) => Holds(t)' /\ conv(t)' = conv(t),
         \A c \in Convs, u \in Ids :
           rowLock'[c][u] = rowLock[c][u] \/ (rowLock'[c][u] = t /\ convLock[c] = t)
  PROVE  LockInv'
  <1>1. ASSUME NEW c \in Convs, convLock[c] # None
        PROVE  Holds(convLock[c])' /\ conv(convLock[c])' = c
    <2>1. convLock[c] \in Txs /\ Holds(convLock[c]) /\ conv(convLock[c]) = c
      BY <1>1 DEF LockInv
    <2>2. CASE convLock[c] = t
      BY <2>1, <2>2
    <2>3. CASE convLock[c] # t
      BY <2>1, <2>3 DEF Holds, conv
    <2>4. QED
      BY <2>2, <2>3
  <1>2. \A c \in Convs, u \in Ids : rowLock'[c][u] \in {None, Reader, convLock'[c]}
    BY DEF LockInv
  <1>3. QED
    BY <1>1, <1>2 DEF LockInv, Holds, conv

\* The end of a transaction frees its conversation and its rows together.
LEMMA CloseKeepsLocks ==
  ASSUME LockInv, TypeOK, NEW t \in Txs, Close(t)
  PROVE  LockInv'
  <1>1. t # None /\ t # Reader
    BY NoneAssumption, ReaderAssumption
  <1>2. ASSUME NEW c \in Convs, convLock'[c] # None
        PROVE  (Holds(convLock[c]) /\ conv(convLock[c]) = c)'
    <2>1. convLock[c] # t /\ convLock'[c] = convLock[c] /\ convLock[c] \in Txs
      BY <1>2 DEF Close, TypeOK
    <2>2. Holds(convLock[c]) /\ conv(convLock[c]) = c
      BY <1>2, <2>1 DEF LockInv
    <2>3. pc'[convLock[c]] = pc[convLock[c]] /\ req'[convLock[c]] = req[convLock[c]]
      BY <2>1 DEF Close, GoTo, TypeOK
    <2>4. QED
      BY <2>1, <2>2, <2>3 DEF Holds, conv
  <1>3. \A c \in Convs, u \in Ids : rowLock'[c][u] \in {None, Reader, convLock'[c]}
    BY <1>1 DEF LockInv, Close
  <1>4. QED
    BY <1>2, <1>3 DEF LockInv, Holds, conv

LEMMA StepLocks ==
  ASSUME IInv, LockInv, NEW t \in Txs, Step(t)
  PROVE  LockInv'
  <1>1. TypeOK /\ TxInv(t)
    BY DEF IInv
  <1>2. \A s \in Txs : s # t => pc'[s] = pc[s] /\ req'[s] = req[s]
    BY Others
  <1>3. \A c \in Convs : convLock[c] \in Txs \cup {None}
    BY <1>1 DEF TypeOK
  <1>4. Holds(t) => conv(t) \in Convs /\ convLock[conv(t)] = t
    BY <1>1, RequestFields DEF Holds, TxInv, conv
  <1>5. ASSUME NEW u, LockRow(t, u), Holds(t)
        PROVE  \A c \in Convs, w \in Ids :
                 rowLock'[c][w] = rowLock[c][w] \/ (rowLock'[c][w] = t /\ convLock[c] = t)
    BY <1>1, <1>4, <1>5 DEF LockRow, TypeOK
  <1>6. ASSUME convLock' = convLock, Holds(t) => Holds(t)' /\ conv(t)' = conv(t),
               \/ UNCHANGED rowLock
               \/ Holds(t) /\ \E u : LockRow(t, u)
        PROVE  LockInv'
    <2>1. \A c \in Convs, w \in Ids :
            rowLock'[c][w] = rowLock[c][w] \/ (rowLock'[c][w] = t /\ convLock[c] = t)
      BY <1>5, <1>6
    <2>2. QED
      BY <1>2, <1>3, <1>6, <2>1, KeepsLocks
  <1>7. ASSUME Rollback(t) PROVE LockInv'
    BY <1>1, <1>7, CloseKeepsLocks DEF Rollback
  <1>8. CASE Submit(t)
    BY <1>6, <1>8 DEF Submit, Holds, locks
  <1>9. CASE LockConversation(t)
    <2>1. CASE kind[conv(t)] = "group"
      <3>1. /\ pc[t] = "lock" /\ convLock[conv(t)] = None /\ UNCHANGED <<rowLock, req>>
            /\ convLock' = [convLock EXCEPT ![conv(t)] = t] /\ pc' = [pc EXCEPT ![t] = "actor"]
        BY <1>9, <2>1 DEF LockConversation, GoTo, local
      <3>2. conv(t) \in Convs /\ req[t].op # "create" /\ pc'[t] = "actor"
        BY <1>1, <3>1, RequestFields DEF TxInv, OnPath, conv, TypeOK
      <3>3. Holds(t)' /\ conv(t)' = conv(t)
        BY <3>1, <3>2 DEF Holds, conv
      <3>4. ASSUME NEW c \in Convs, c # conv(t), convLock[c] # None
            PROVE  convLock'[c] = convLock[c] /\ (Holds(convLock[c]) /\ conv(convLock[c]) = c)'
        <4>1. Holds(convLock[c]) /\ conv(convLock[c]) = c /\ convLock[c] \in Txs /\ convLock[c] # t
          BY <1>3, <3>1, <3>4 DEF LockInv, Holds
        <4>2. QED
          BY <1>2, <3>1, <3>4, <4>1 DEF Holds, conv
      <3>5. \A c \in Convs : convLock'[c] # None => (Holds(convLock[c]) /\ conv(convLock[c]) = c)'
        BY <1>1, <3>1, <3>3, <3>4 DEF TypeOK, Holds, conv
      <3>6. \A c \in Convs, u \in Ids : rowLock'[c][u] \in {None, Reader, convLock'[c]}
        BY <1>1, <3>1 DEF LockInv, TypeOK
      <3>7. QED
        BY <3>5, <3>6 DEF LockInv, Holds, conv
    <2>2. CASE kind[conv(t)] # "group"
      BY <1>7, <1>9, <2>2 DEF LockConversation
    <2>3. QED
      BY <2>1, <2>2
  <1>10. CASE Commit(t)
    BY <1>1, <1>10, CloseKeepsLocks DEF Commit
  <1>11. CASE Abort(t)
    BY <1>7, <1>11 DEF Abort
  <1>12. CASE ReadActor(t)
    <2>1. Holds(t)
      BY <1>1, <1>12 DEF ReadActor, TxInv, OnPath, Holds
    <2>2. CASE MayAct(t, View(t, req[t].actor))
      <3>1. pc'[t] \in {"users", "target"} /\ req' = req /\ convLock' = convLock
        BY <1>1, <1>12, <2>2 DEF ReadActor, GoTo, TypeOK
      <3>2. UNCHANGED rowLock \/ LockRow(t, req[t].actor)
        BY <1>12, <2>2 DEF ReadActor
      <3>3. QED
        BY <1>6, <2>1, <3>1, <3>2 DEF Holds, conv
    <2>3. CASE ~MayAct(t, View(t, req[t].actor))
      BY <1>7, <1>12, <2>3 DEF ReadActor
    <2>4. QED
      BY <2>2, <2>3
  <1>13. CASE ReadTarget(t)
    <2>1. Holds(t) /\ req[t].op \in {"remove", "role", "transfer"}
      BY <1>1, <1>13 DEF ReadTarget, TxInv, OnPath, Holds
    <2>2. CASE Rollback(t)
      BY <1>7, <2>2
    <2>3. CASE ~Rollback(t)
      <3>1. /\ GoTo(t, FirstWrite[req[t].op]) /\ req' = req /\ convLock' = convLock
            /\ UNCHANGED rowLock \/ LockRow(t, Target(t))
        BY <1>13, <2>3 DEF ReadTarget, local
      <3>2. pc'[t] \in {"delete", "update", "demote"}
        BY <1>1, <2>1, <3>1 DEF GoTo, TypeOK, FirstWrite
      <3>3. QED
        BY <1>6, <2>1, <3>1, <3>2 DEF Holds, conv
    <2>4. QED
      BY <2>2, <2>3
  <1>14. CASE CountUsers(t)
    <2>1. CASE Rollback(t)
      BY <1>7, <2>1
    <2>2. CASE ~Rollback(t)
      BY <1>1, <1>6, <1>14, <2>2 DEF CountUsers, GoTo, TypeOK, Holds, conv, locks, local
    <2>3. QED
      BY <2>1, <2>2
  <1>15. CASE InsertConversation(t)
    <2>1. ~Holds(t)
      BY <1>1, <1>15 DEF InsertConversation, TxInv, OnPath, Holds
    <2>2. QED
      BY <1>6, <1>15, <2>1 DEF InsertConversation, locks
  <1>16. CASE InsertFounders(t)
    <2>1. ~Holds(t)
      BY <1>1, <1>16 DEF InsertFounders, TxInv, OnPath, Holds
    <2>2. QED
      BY <1>6, <1>16, <2>1 DEF InsertFounders, locks
  <1>17. ASSUME pc[t] \in {"insert", "delete", "update", "demote", "promote"},
                pc'[t] \in {"insert", "promote", "commit"}, req' = req, convLock' = convLock,
                UNCHANGED rowLock \/ \E u : LockRow(t, u)
         PROVE  LockInv'
    <2>1. Holds(t) /\ Holds(t)' /\ conv(t)' = conv(t)
      BY <1>1, <1>17 DEF TxInv, OnPath, Holds, conv
    <2>2. QED
      BY <1>6, <1>17, <2>1
  <1>18. CASE InsertListed(t)
    <2>1. /\ pc[t] = "insert" /\ req' = req /\ convLock' = convLock
          /\ UNCHANGED rowLock \/ \E u : LockRow(t, u)
      BY <1>18 DEF InsertListed, InsertMember, Write
    <2>2. pc'[t] \in {"insert", "commit"}
      BY <1>1, <1>18 DEF InsertListed, GoTo, TypeOK
    <2>3. QED
      BY <1>17, <2>1, <2>2
  <1>19. CASE DeleteTarget(t)
    <2>1. CASE View(t, Target(t)) = "none"
      BY <1>7, <1>19, <2>1 DEF DeleteTarget
    <2>2. CASE View(t, Target(t)) # "none"
      <3>1. /\ pc[t] = "delete" /\ req' = req /\ convLock' = convLock /\ LockRow(t, Target(t))
        BY <1>19, <2>2 DEF DeleteTarget, Write, local
      <3>2. pc'[t] = "commit"
        BY <1>1, <1>19, <2>2 DEF DeleteTarget, GoTo, TypeOK
      <3>3. QED
        BY <1>17, <3>1, <3>2
    <2>3. QED
      BY <2>1, <2>2
  <1>20. CASE SetTargetRole(t) \/ Demote(t) \/ Promote(t)
    <2>1. /\ pc[t] \in {"update", "demote", "promote"} /\ req' = req /\ convLock' = convLock
          /\ UNCHANGED rowLock \/ \E u : LockRow(t, u)
      BY <1>20 DEF SetTargetRole, Demote, Promote, UpdateRole, Write, local
    <2>2. pc'[t] \in {"promote", "commit"}
      BY <1>1, <1>20 DEF SetTargetRole, Demote, Promote, GoTo, TypeOK
    <2>3. QED
      BY <1>17, <2>1, <2>2
  <1>21. QED
    BY <1>8, <1>9, <1>10, <1>11, <1>12, <1>13, <1>14, <1>15, <1>16, <1>18, <1>19, <1>20
       DEF Step, Statement

\* A transaction that works on the rows of an existing group has locked its conversation; one
\* that creates a conversation works on one that nobody else has locked.
LEMMA LocksSuffice == IInv /\ LockInv => RowsUncontended
  <1> SUFFICES ASSUME IInv, LockInv, NEW t \in Txs,
                      pc[t] \notin {"idle", "lock", "users", "conversation", "founders"}, NEW u \in Ids
               PROVE  rowLock[conv(t)][u] \in {None, Reader, t}
    BY DEF RowsUncontended
  <1>1. TypeOK /\ TxInv(t) /\ conv(t) \in Convs
    BY RequestFields DEF IInv, TxInv, conv
  <1>2. CASE Holds(t)
    BY <1>1, <1>2 DEF TxInv, LockInv
  <1>3. CASE ~Holds(t)
    <2>1. pc[t] = "commit" /\ req[t].op = "create"
      BY <1>1, <1>3 DEF Holds, TxInv, OnPath, TypeOK, Phase
    <2>2. kind[conv(t)] = "absent"
      BY <1>1, <2>1 DEF TxInv, Creating
    <2>3. ASSUME convLock[conv(t)] # None PROVE FALSE
      <3>1. /\ convLock[conv(t)] \in Txs /\ Holds(convLock[conv(t)])
            /\ conv(convLock[conv(t)]) = conv(t)
        BY <1>1, <2>3 DEF LockInv, TypeOK
      <3>2. kind[conv(convLock[conv(t)])] = "group"
        BY <3>1 DEF IInv, TxInv, Holds
      <3>3. QED
        BY <2>2, <3>1, <3>2
    <2>4. QED
      BY <1>1, <2>3 DEF LockInv
  <1>4. QED
    BY <1>2, <1>3

\* Beside MarkRead, which asks for no second lock, no transaction keeps a row of
\* conversation_members from a transaction on groups: they cannot deadlock over these rows.
THEOREM RowsDoNotDeadlock == Spec => []RowsUncontended
  <1>1. Init => LockInv
    BY DEF Init, LockInv
  <1>2. IInv /\ LockInv /\ [Next]_vars => LockInv'
    <2>1. IInv /\ LockInv /\ UNCHANGED vars => LockInv'
      BY DEF vars, LockInv, Holds, conv
    <2>2. ASSUME IInv, LockInv, NEW c \in Convs, NEW u \in Ids, ReaderStep(c, u)
          PROVE  LockInv'
      <3>1. \A d \in Convs, w \in Ids : rowLock'[d][w] \in {None, Reader, rowLock[d][w]}
        BY <2>2, ReaderLocks DEF IInv
      <3>2. UNCHANGED <<convLock, pc, req>>
        BY <2>2, ReaderTouches
      <3>3. QED
        BY <2>2, <3>1, <3>2 DEF LockInv, Holds, conv
    <2>3. QED
      BY <2>1, <2>2, StepLocks, Steps
  <1>3. QED
    BY <1>1, <1>2, LocksSuffice, Invariance, PTL DEF Spec

=============================================================================
