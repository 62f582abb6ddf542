----------------------- MODULE DirectConversationProofs -----------------------
(***************************************************************************)
(* For any users, conversations and requests: two users have at most one   *)
(* direct conversation when ids are spelled in one way, and an answer      *)
(* names one that both are members of, however ids are spelled.  And for   *)
(* any connections of one of the two: what the other is shown of whether   *)
(* she is online.                                                          *)
(***************************************************************************)
EXTENDS DirectConversation, Presence, SequenceTheorems, TLAPS

LEMMA PairNamed == ASSUME NEW a \in Asks PROVE Named(Key(a)) = Pair(a)
  BY DEF Named, Key, Pair, IdOf, Spelled

LEMMA Starts == Init => IInv
  <1> SUFFICES ASSUME Init PROVE IInv
    OBVIOUS
  <1>1. TypeOK
    <2>1. /\ key \in [Convs -> (SUBSET Ref) \cup {None}] /\ roster \in [Convs -> SUBSET Users]
          /\ joined \in [Txs -> SUBSET Users]
      BY DEF Init
    <2>2. /\ pc \in [Txs -> Phase] /\ asked \in [Txs -> Asks \cup {None}]
          /\ own \in [Txs -> Convs \cup {None}] /\ created \in [Txs -> BOOLEAN]
          /\ answer \in [Txs -> Answer \cup {None}]
      BY DEF Init, Phase
    <2>3. QED
      BY <2>1, <2>2 DEF TypeOK
  <1>2. Unique
    BY DEF Init, Unique
  <1>3. ASSUME NEW s \in Txs PROVE TxInv(s)
    BY DEF Init, TxInv, Inserting
  <1>4. ASSUME NEW s \in Txs, NEW r \in Txs PROVE Apart(s, r)
    BY DEF Init, Apart, Inserting
  <1>5. QED
    BY <1>1, <1>2, <1>3, <1>4 DEF IInv

LEMMA RollbackKeeps ==
  ASSUME IInv, NEW t \in Txs, Rollback(t), pc[t] \notin {"idle", "done"}
  PROVE  IInv'
  <1>1. TypeOK'
    BY DEF IInv, TypeOK, Rollback, GoTo, committed, Phase
  <1>2. Unique'
    BY DEF IInv, Unique, Rollback, committed
  <1>3. ASSUME NEW s \in Txs PROVE TxInv(s)'
    BY DEF IInv, TypeOK, TxInv, Inserting, Stored, Rollback, GoTo, committed
  <1>4. ASSUME NEW s \in Txs, NEW r \in Txs, s # r PROVE Apart(s, r)'
    BY <1>4 DEF IInv, TypeOK, Apart, Inserting, Rollback, GoTo, committed
  <1>5. QED
    BY <1>1, <1>2, <1>3, <1>4 DEF IInv

LEMMA SubmitKeeps ==
  ASSUME IInv, NEW t \in Txs, Submit(t)
  PROVE  IInv'
  <1>1. TypeOK'
    BY DEF IInv, TypeOK, Submit, GoTo, committed, Phase
  <1>2. Unique'
    BY DEF IInv, Unique, Submit, committed
  <1>3. ASSUME NEW s \in Txs PROVE TxInv(s)'
    BY DEF IInv, TypeOK, TxInv, Inserting, Stored, Submit, GoTo, committed
  <1>4. ASSUME NEW s \in Txs, NEW r \in Txs, s # r PROVE Apart(s, r)'
    BY <1>4 DEF IInv, TypeOK, Apart, Inserting, Submit, GoTo, committed, TxInv
  <1>5. QED
    BY <1>1, <1>2, <1>3, <1>4 DEF IInv

LEMMA InsertKeeps ==
  ASSUME IInv, NEW t \in Txs, InsertConversation(t)
  PROVE  IInv'
  <1>1. TypeOK'
    <2>1. UNCHANGED <<key, roster, asked, joined, answer>>
      BY DEF InsertConversation, committed
    <2>2. \E next \in {"select", "members"} : pc' = [pc EXCEPT ![t] = next]
      BY DEF InsertConversation, GoTo
    <2>3. own' = own \/ \E c \in Convs : own' = [own EXCEPT ![t] = c]
      BY DEF InsertConversation
    <2>4. created' = created \/ created' = [created EXCEPT ![t] = TRUE]
      BY DEF InsertConversation
    <2>5. pc' \in [Txs -> Phase]
      BY <2>2 DEF IInv, TypeOK, Phase
    <2>6. own' \in [Txs -> Convs \cup {None}] /\ created' \in [Txs -> BOOLEAN]
      BY <2>3, <2>4 DEF IInv, TypeOK
    <2>7. QED
      BY <2>1, <2>5, <2>6 DEF IInv, TypeOK
  <1>2. Unique'
    BY DEF IInv, Unique, InsertConversation, committed
  <1>3. ASSUME NEW s \in Txs PROVE TxInv(s)'
    BY NoneAssumption DEF IInv, TypeOK, TxInv, Inserting, Stored, InsertConversation, GoTo, committed
  <1>4. ASSUME NEW s \in Txs, NEW r \in Txs, s # r PROVE Apart(s, r)'
    <2>1. \A u \in Txs : Inserting(u) => key[own[u]] = None
      BY DEF IInv, TxInv
    <2>2. \A u \in Txs : Inserting(u) => Open(u)
      BY <2>1 DEF Inserting, Open
    <2>3. QED
      BY <1>4, <2>2, NoneAssumption DEF IInv, TypeOK, Apart, Inserting, InsertConversation, GoTo, committed, TxInv
  <1>5. QED
    BY <1>1, <1>2, <1>3, <1>4 DEF IInv

LEMMA MembersKeeps ==
  ASSUME IInv, NEW t \in Txs, InsertMembers(t)
  PROVE  IInv'
  <1>1. TypeOK'
    BY DEF IInv, TypeOK, TxInv, InsertMembers, GoTo, committed, Phase
  <1>2. Unique'
    BY DEF IInv, Unique, InsertMembers, committed
  <1>3. ASSUME NEW s \in Txs PROVE TxInv(s)'
    BY NoneAssumption DEF IInv, TypeOK, TxInv, Inserting, Stored, InsertMembers, GoTo, committed
  <1>4. ASSUME NEW s \in Txs, NEW r \in Txs, s # r PROVE Apart(s, r)'
    BY <1>4, NoneAssumption DEF IInv, TypeOK, Apart, Inserting, InsertMembers, GoTo, committed, TxInv
  <1>5. QED
    BY <1>1, <1>2, <1>3, <1>4 DEF IInv

LEMMA CommitKeeps ==
  ASSUME IInv, NEW t \in Txs, Commit(t)
  PROVE  IInv'
  <1>1. own[t] \in Convs /\ asked[t] \in Asks /\ Key(asked[t]) \in SUBSET Ref
    <2>1. pc[t] = "commit"
      BY DEF Commit
    <2>2. own[t] # None /\ asked[t] \in Asks
      BY <2>1 DEF IInv, TxInv
    <2>3. QED
      BY <2>2, AsksAssumption, IdsAssumption DEF IInv, TypeOK, Ask, Key, Spelled, Ref
  <1> DEFINE sent == [conv |-> own[t], created |-> created[t]]
  <1>2. sent \in Answer /\ answer' \in {answer, [answer EXCEPT ![t] = sent]}
    BY <1>1 DEF IInv, TypeOK, Commit, Answer
  <1>3. UNCHANGED <<asked, own, created, joined>> /\ pc' = [pc EXCEPT ![t] = "done"]
    BY DEF Commit, GoTo
  <1> HIDE DEF sent
  <1>4. CASE ~created[t]
    <2>1. UNCHANGED <<key, roster>> /\ key[own[t]] = Key(asked[t])
      BY <1>1, <1>4, NoneAssumption DEF Commit, IInv, TxInv
    <2>2. TypeOK' /\ Unique'
      BY <1>2, <1>3, <2>1 DEF IInv, TypeOK, Phase, Unique
    <2>3. ASSUME NEW s \in Txs PROVE TxInv(s)'
      BY <1>1, <1>2, <1>3, <1>4, <2>1, NoneAssumption DEF IInv, TypeOK, TxInv, Inserting, Stored, sent
    <2>4. ASSUME NEW s \in Txs, NEW r \in Txs, s # r PROVE Apart(s, r)'
      BY <1>3, <2>4 DEF IInv, TypeOK, Apart, Inserting
    <2>5. QED
      BY <2>2, <2>3, <2>4 DEF IInv
  <1>5. CASE created[t]
    <2>1. /\ key' = [key EXCEPT ![own[t]] = Key(asked[t])]
          /\ roster' = [roster EXCEPT ![own[t]] = Pair(asked[t])]
      BY <1>5 DEF Commit, IInv, TxInv
    <2>2. key[own[t]] = None /\ ~Stored(Key(asked[t])) /\ Pair(asked[t]) \subseteq Users
      BY <1>5 DEF Commit, IInv, TxInv, TypeOK, Inserting
    <2>3. TypeOK'
      BY <1>1, <1>2, <1>3, <2>1, <2>2 DEF IInv, TypeOK, Phase
    <2>4. Unique'
      BY <1>1, <2>1, <2>2, PairNamed DEF IInv, TypeOK, Unique, Stored
    <2>5. ASSUME NEW s \in Txs PROVE TxInv(s)'
      <3>1. CASE s = t
        BY <1>1, <1>2, <1>3, <1>5, <2>1, <3>1, NoneAssumption DEF IInv, TypeOK, TxInv, Inserting, sent
      <3>2. CASE s # t
        BY <1>1, <1>2, <1>3, <1>5, <2>1, <2>2, <3>2, NoneAssumption
           DEF IInv, TypeOK, TxInv, Apart, Inserting, Stored, Commit
      <3>3. QED
        BY <3>1, <3>2
    <2>6. ASSUME NEW s \in Txs, NEW r \in Txs, s # r PROVE Apart(s, r)'
      BY <1>3, <2>6 DEF IInv, TypeOK, Apart, Inserting
    <2>7. QED
      BY <2>3, <2>4, <2>5, <2>6 DEF IInv
  <1>6. QED
    BY <1>4, <1>5 DEF IInv, TypeOK

LEMMA SelectKeeps ==
  ASSUME IInv, NEW t \in Txs, SelectConversation(t)
  PROVE  IInv'
  <1>1. CASE Stored(Key(asked[t]))
    <2>1. TypeOK'
      BY <1>1 DEF IInv, TypeOK, SelectConversation, GoTo, committed, Phase
    <2>2. Unique'
      BY <1>1 DEF IInv, Unique, SelectConversation, committed
    <2>3. ASSUME NEW s \in Txs PROVE TxInv(s)'
      BY <1>1, NoneAssumption DEF IInv, TypeOK, TxInv, Inserting, Stored, SelectConversation, GoTo, committed
    <2>4. ASSUME NEW s \in Txs, NEW r \in Txs, s # r PROVE Apart(s, r)'
      BY <1>1, <2>4 DEF IInv, TypeOK, Apart, Inserting, SelectConversation, GoTo, committed, TxInv
    <2>5. QED
      BY <2>1, <2>2, <2>3, <2>4 DEF IInv
  <1>2. CASE ~Stored(Key(asked[t]))
    BY <1>2, RollbackKeeps DEF SelectConversation
  <1>3. QED
    BY <1>1, <1>2

LEMMA CountKeeps ==
  ASSUME IInv, NEW t \in Txs, CountUsers(t)
  PROVE  IInv'
  <1>1. CASE AllRegistered(Key(asked[t]))
    <2>1. TypeOK'
      BY <1>1 DEF IInv, TypeOK, CountUsers, GoTo, committed, Phase
    <2>2. Unique'
      BY <1>1 DEF IInv, Unique, CountUsers, committed
    <2>3. ASSUME NEW s \in Txs PROVE TxInv(s)'
      <3>1. pc[t] = "users" /\ asked[t] \in Asks /\ Pair(asked[t]) \subseteq Users
        BY <1>1, PairNamed DEF IInv, TxInv, CountUsers, AllRegistered
      <3>2. QED
        BY <1>1, <3>1 DEF IInv, TypeOK, TxInv, Inserting, Stored, CountUsers, GoTo, committed
    <2>4. ASSUME NEW s \in Txs, NEW r \in Txs, s # r PROVE Apart(s, r)'
      BY <1>1, <2>4 DEF IInv, TypeOK, Apart, Inserting, CountUsers, GoTo, committed, TxInv
    <2>5. QED
      BY <2>1, <2>2, <2>3, <2>4 DEF IInv
  <1>2. CASE ~AllRegistered(Key(asked[t]))
    BY <1>2, RollbackKeeps DEF CountUsers
  <1>3. QED
    BY <1>1, <1>2

-----------------------------------------------------------------------------

\* The invariant of the transactions, for any number of them and however ids are spelled.
THEOREM DirectInvariance == Spec => []IInv
  <1>1. ASSUME IInv, [Next]_vars PROVE IInv'
    <2>1. CASE UNCHANGED vars
      <3>1. TypeOK' /\ Unique'
        BY <1>1, <2>1 DEF vars, IInv, TypeOK, Unique
      <3>2. \A s \in Txs : TxInv(s)'
        BY <1>1, <2>1 DEF vars, IInv, TxInv, Inserting, Stored
      <3>3. \A s, t \in Txs : s # t => Apart(s, t)'
        BY <1>1, <2>1 DEF vars, IInv, Apart, Inserting
      <3>4. QED
        BY <3>1, <3>2, <3>3 DEF IInv
    <2>2. CASE \E t \in Txs : Submit(t) \/ Abort(t)
      BY <1>1, <2>2, SubmitKeeps, RollbackKeeps DEF Abort
    <2>3. CASE \E t \in Txs : Statement(t)
      BY <1>1, <2>3, CountKeeps, InsertKeeps, SelectKeeps, MembersKeeps, CommitKeeps DEF Statement
    <2>4. QED
      BY <1>1, <2>1, <2>2, <2>3 DEF Next
  <1>2. QED
    BY <1>1, Starts, PTL DEF Spec

\* Where ids are spelled in one way only, the members of a conversation make its key.
LEMMA KeyOfMembers ==
  ASSUME Spellings = {Canon}, NEW a \in Asks
  PROVE  Key(a) = {Spelled(u) : u \in Named(Key(a))}
  BY AsksAssumption DEF Ask, Key, Named, IdOf, Spelled, Ref

\* CreateDirect and the unique index on direct_key: no pair has two conversations, when the
\* ids that requests carry are spelled as the API spells them.
THEOREM NoDuplicates == ASSUME Spellings = {Canon} PROVE Spec => []OnePerPair
  <1>1. IInv => OnePerPair
    <2> SUFFICES ASSUME IInv, NEW c \in Convs, NEW d \in Convs,
                        key[c] # None, key[d] # None, roster[c] = roster[d]
                 PROVE  c = d
      BY DEF OnePerPair
    <2>1. /\ key[c] = {Spelled(u) : u \in roster[c]}
          /\ key[d] = {Spelled(u) : u \in roster[d]}
      BY KeyOfMembers DEF IInv, Unique
    <2>2. QED
      BY <2>1 DEF IInv, Unique
  <1>2. QED
    BY <1>1, DirectInvariance, PTL

\* The answer of CreateDirect names a conversation whose members are the two of them, and one
\* of the answers that name it at most says it was created.
THEOREM AnswersUsable == Spec => []AnswerUsable
  <1>1. IInv => AnswerUsable
    <2> SUFFICES ASSUME IInv, NEW t \in Txs, answer[t] # None
                 PROVE  /\ roster[answer[t].conv] = Pair(asked[t])
                        /\ \A s \in Txs : answer[s] # None /\ answer[s].conv = answer[t].conv =>
                             (answer[s].created /\ answer[t].created => s = t)
      BY DEF AnswerUsable
    <2>1. \A s \in Txs : answer[s] # None =>
            /\ pc[s] = "done" /\ own[s] \in Convs /\ asked[s] \in Asks
            /\ answer[s].conv = own[s] /\ answer[s].created = created[s]
      BY DEF IInv, TypeOK, TxInv
    <2>2. key[own[t]] = Key(asked[t]) /\ key[own[t]] # None
      BY <2>1, NoneAssumption DEF IInv, TxInv
    <2>3. roster[own[t]] = Pair(asked[t])
      BY <2>1, <2>2, PairNamed DEF IInv, Unique
    <2>4. QED
      BY <2>1, <2>3 DEF IInv, Apart
  <1>2. QED
    BY <1>1, DirectInvariance, PTL

-----------------------------------------------------------------------------
(* Presence *)

ConnStep(c) ==
  \/ Connect(c) \/ ConnectFails(c) \/ Leave(c) \/ Disconnect(c)
  \/ DisconnectFails(c) \/ Beat(c) \/ Touch(c) \/ TouchFails(c)
  \/ Expire(c) \/ Lapse(c) \/ Crash(c)
ObserverStep ==
  \/ Register \/ ReadSnapshot \/ SnapshotFails \/ QueueSnapshot
  \/ Drop \/ Load

\* Every step is one of a connection, of an announcement, of its delivery, or of the observer.
LEMMA PresenceSteps ==
  PresenceNext => \/ \E c \in Connections : ConnStep(c)
                  \/ \E i \in DOMAIN pending : Publish(i) \/ PublishFails(i)
                  \/ Deliver
                  \/ ObserverStep
  BY DEF PresenceNext, ConnStep, ObserverStep

\* A sequence without its i-th element.
LEMMA RemoveOne ==
  ASSUME NEW S, NEW s \in Seq(S), NEW i \in DOMAIN s
  PROVE  /\ RemoveAt(s, i) \in Seq(S) /\ Len(RemoveAt(s, i)) = Len(s) - 1
         /\ \A j \in 1 .. Len(s) - 1 : RemoveAt(s, i)[j] = IF j < i THEN s[j] ELSE s[j + 1]
  <1>1. i \in 1 .. Len(s) /\ Len(s) \in Nat /\ i \in Nat
    BY LenProperties
  <1> DEFINE front == SubSeq(s, 1, i - 1)
             rest == SubSeq(s, i + 1, Len(s))
  <1>2. front \in Seq(S) /\ Len(front) = i - 1 /\ \A j \in 1 .. i - 1 : front[j] = s[j]
    BY <1>1
  <1>3. rest \in Seq(S) /\ Len(rest) = Len(s) - i /\ \A j \in 1 .. Len(s) - i : rest[j] = s[i + j]
    BY <1>1
  <1>4. RemoveAt(s, i) = front \o rest
    BY DEF RemoveAt
  <1> HIDE DEF front, rest
  <1>5. /\ front \o rest \in Seq(S) /\ Len(front \o rest) = Len(s) - 1
        /\ \A j \in 1 .. Len(s) - 1 : (front \o rest)[j] = IF j <= i - 1 THEN front[j] ELSE rest[j - (i - 1)]
    <2>1. (i - 1) + (Len(s) - i) = Len(s) - 1
      BY <1>1
    <2>2. /\ front \o rest \in Seq(S) /\ Len(front \o rest) = Len(front) + Len(rest)
          /\ \A j \in 1 .. Len(front) + Len(rest) :
               (front \o rest)[j] = IF j <= Len(front) THEN front[j] ELSE rest[j - Len(front)]
      BY <1>2, <1>3, ConcatProperties
    <2>3. QED
      BY <1>2, <1>3, <2>1, <2>2
  <1>6. ASSUME NEW j \in 1 .. Len(s) - 1 PROVE (front \o rest)[j] = IF j < i THEN s[j] ELSE s[j + 1]
    <2>0. i \in Nat /\ j \in Nat /\ (front \o rest)[j] = IF j <= i - 1 THEN front[j] ELSE rest[j - (i - 1)]
      BY <1>1, <1>5
    <2>1. CASE j < i
      <3>1. j \in 1 .. i - 1
        BY <2>0, <2>1
      <3>2. QED
        BY <1>2, <2>0, <2>1, <3>1
    <2>2. CASE ~(j < i)
      <3>1. j - (i - 1) \in 1 .. Len(s) - i /\ i + (j - (i - 1)) = j + 1 /\ ~(j <= i - 1)
        BY <1>1, <2>0, <2>2
      <3>2. rest[j - (i - 1)] = s[j + 1]
        BY <1>3, <3>1
      <3>3. QED
        BY <2>0, <2>2, <3>1, <3>2
    <2>3. QED
      BY <2>1, <2>2
  <1>7. QED
    BY <1>4, <1>5, <1>6

\* A sequence with one more element.
LEMMA AppendOne ==
  ASSUME NEW S, NEW s \in Seq(S), NEW e \in S
  PROVE  /\ Append(s, e) \in Seq(S) /\ Len(Append(s, e)) = Len(s) + 1
         /\ Append(s, e)[Len(s) + 1] = e
         /\ \A j \in 1 .. Len(s) : Append(s, e)[j] = s[j]
  BY AppendProperties

\* Whose announcement is under way has one announcement under way.
Busy == {"announcing", "withdrawing"}
Queued ==
  /\ phase \in [Connections -> ConnPhase]
  /\ pending \in Seq(Announcement)
  /\ \A c \in Connections : phase[c] \in Busy <=> \E i \in DOMAIN pending : pending[i].conn = c
  /\ \A i, j \in DOMAIN pending : pending[i].conn = pending[j].conn => i = j

\* That is part of the invariant.
LEMMA QueuedNow == PresenceTypeOK /\ OneEach => Queued
  BY DEF Queued, Busy, PresenceTypeOK, OneEach

\* One more announcement keeps that.
LEMMA QueueOneMore ==
  ASSUME Queued, NEW c \in Connections, phase[c] \notin Busy, NEW on \in BOOLEAN, NEW busy \in Busy,
         phase' = [phase EXCEPT ![c] = busy], pending' = Append(pending, [conn |-> c, online |-> on])
  PROVE  Queued'
  <1> USE DEF Queued, Busy, ConnPhase
  <1>1. [conn |-> c, online |-> on] \in Announcement
    BY DEF Announcement
  <1>2. /\ pending' \in Seq(Announcement) /\ Len(pending') = Len(pending) + 1
        /\ pending'[Len(pending) + 1] = [conn |-> c, online |-> on]
        /\ \A j \in 1 .. Len(pending) : pending'[j] = pending[j]
    BY <1>1, AppendOne
  <1>3. /\ DOMAIN pending = 1 .. Len(pending) /\ DOMAIN pending' = 1 .. Len(pending) + 1 /\ Len(pending) \in Nat
    BY <1>2, LenProperties
  <1>4. \A j \in DOMAIN pending : pending[j].conn # c
    OBVIOUS
  <1>5. pending'[Len(pending) + 1].conn = c
    BY <1>2
  <1>6. \A d \in Connections : phase'[d] \in Busy <=> \E i \in DOMAIN pending' : pending'[i].conn = d
    <2>1. ASSUME NEW d \in Connections, d # c
          PROVE  (\E i \in DOMAIN pending' : pending'[i].conn = d) <=> \E i \in DOMAIN pending : pending[i].conn = d
      BY <1>2, <1>3, <1>5, <2>1
    <2>2. phase'[c] \in Busy /\ \E i \in DOMAIN pending' : pending'[i].conn = c
      BY <1>3, <1>5
    <2>3. QED
      BY <2>1, <2>2
  <1>7. \A i, j \in DOMAIN pending' : pending'[i].conn = pending'[j].conn => i = j
    BY <1>2, <1>3, <1>4, <1>5
  <1>8. QED
    BY <1>2, <1>6, <1>7

\* One announcement less, when its connection goes on.
LEMMA QueueOneLess ==
  ASSUME Queued, NEW i \in DOMAIN pending, NEW idle \in ConnPhase \ Busy,
         phase' = [phase EXCEPT ![pending[i].conn] = idle], pending' = RemoveAt(pending, i)
  PROVE  Queued'
  <1> USE DEF Queued, Busy
  <1>1. /\ pending' \in Seq(Announcement) /\ Len(pending') = Len(pending) - 1
        /\ \A j \in 1 .. Len(pending) - 1 : pending'[j] = IF j < i THEN pending[j] ELSE pending[j + 1]
    BY RemoveOne
  <1>2. /\ DOMAIN pending = 1 .. Len(pending) /\ DOMAIN pending' = 1 .. Len(pending) - 1 /\ Len(pending) \in Nat
        /\ i \in 1 .. Len(pending)
    BY <1>1, LenProperties
  <1>3. pending[i].conn \in Connections
    <2>1. pending[i] \in Announcement
      BY <1>2
    <2>2. QED
      BY <2>1 DEF Announcement
  <1>4. \A j \in DOMAIN pending : j # i => \E k \in DOMAIN pending' : pending'[k] = pending[j]
    <2> SUFFICES ASSUME NEW j \in DOMAIN pending, j # i PROVE \E k \in DOMAIN pending' : pending'[k] = pending[j]
      OBVIOUS
    <2>1. CASE j < i
      BY <1>1, <1>2, <2>1
    <2>2. CASE j > i
      <3>1. j - 1 \in 1 .. Len(pending) - 1 /\ ~(j - 1 < i) /\ (j - 1) + 1 = j
        BY <1>2, <2>2
      <3>2. pending'[j - 1] = pending[j]
        BY <1>1, <3>1
      <3>3. QED
        BY <1>2, <3>1, <3>2
    <2>3. QED
      BY <1>2, <2>1, <2>2
  <1>5. \A k \in DOMAIN pending' : \E j \in DOMAIN pending :
              j # i /\ pending'[k] = pending[j] /\ j = IF k < i THEN k ELSE k + 1
    <2> SUFFICES ASSUME NEW k \in 1 .. Len(pending) - 1
                 PROVE  \E j \in 1 .. Len(pending) :
                          j # i /\ pending'[k] = pending[j] /\ j = IF k < i THEN k ELSE k + 1
      BY <1>2
    <2>1. CASE k < i
      BY <1>1, <1>2, <2>1
    <2>2. CASE ~(k < i)
      <3>1. k + 1 \in 1 .. Len(pending) /\ k + 1 # i /\ pending'[k] = pending[k + 1]
        BY <1>1, <1>2, <2>2
      <3>2. QED
        BY <2>2, <3>1
    <2>3. QED
      BY <2>1, <2>2
  <1>6. \A d \in Connections : phase'[d] \in Busy <=> \E k \in DOMAIN pending' : pending'[k].conn = d
    <2>1. ASSUME NEW d \in Connections, d # pending[i].conn
          PROVE  (\E k \in DOMAIN pending' : pending'[k].conn = d) <=> \E j \in DOMAIN pending : pending[j].conn = d
      BY <1>4, <1>5, <2>1
    <2>2. phase'[pending[i].conn] \notin Busy /\ ~\E k \in DOMAIN pending' : pending'[k].conn = pending[i].conn
      BY <1>3, <1>5
    <2>3. QED
      BY <2>1, <2>2
  <1>7. \A j, k \in DOMAIN pending' : pending'[j].conn = pending'[k].conn => j = k
    <2> SUFFICES ASSUME NEW j \in DOMAIN pending', NEW k \in DOMAIN pending', pending'[j].conn = pending'[k].conn
                 PROVE  j = k
      OBVIOUS
    <2>1. PICK a \in DOMAIN pending : pending'[j] = pending[a] /\ a = IF j < i THEN j ELSE j + 1
      BY <1>5
    <2>2. PICK b \in DOMAIN pending : pending'[k] = pending[b] /\ b = IF k < i THEN k ELSE k + 1
      BY <1>5
    <2>3. a = b
      BY <2>1, <2>2
    <2>4. QED
      BY <1>2, <2>1, <2>2, <2>3
  <1>8. QED
    BY <1>1, <1>3, <1>6, <1>7

\* A connection that has nothing to announce goes on.
LEMMA QueueSame ==
  ASSUME Queued, NEW c \in Connections, phase[c] \notin Busy, NEW idle \in ConnPhase \ Busy,
         phase' = [phase EXCEPT ![c] = idle], pending' = pending
  PROVE  Queued'
  <1> USE DEF Queued, Busy
  <1>1. phase' \in [Connections -> ConnPhase]
    OBVIOUS
  <1>2. \A d \in Connections : phase'[d] \in Busy <=> phase[d] \in Busy
    OBVIOUS
  <1>3. QED
    BY <1>1, <1>2

\* The steps of a connection keep it: only a decision adds an announcement, only a crash
\* drops one.
LEMMA ConnQueued ==
  ASSUME PresenceTypeOK, OneEach, NEW c \in Connections, ConnStep(c)
  PROVE  Queued'
  <1>1. Queued
    BY QueuedNow
  <1>2. CASE Connect(c)
    <2>1. phase[c] \notin Busy
      BY <1>2 DEF Connect, Busy
    <2>2. CASE entries = {}
      BY <1>1, <1>2, <2>1, <2>2, QueueOneMore DEF Connect, Decide, Busy
    <2>3. CASE entries # {}
      BY <1>1, <1>2, <2>1, <2>3, QueueSame DEF Connect, Decide, Busy, ConnPhase
    <2>4. QED
      BY <2>2, <2>3
  <1>3. CASE Disconnect(c)
    <2>1. phase[c] \notin Busy
      BY <1>3 DEF Disconnect, Busy
    <2>2. CASE entries' = {}
      BY <1>1, <1>3, <2>1, <2>2, QueueOneMore DEF Disconnect, Decide, Busy
    <2>3. CASE entries' # {}
      BY <1>1, <1>3, <2>1, <2>3, QueueSame DEF Disconnect, Decide, Busy, ConnPhase
    <2>4. QED
      BY <2>2, <2>3
  <1>4. CASE Crash(c)
    <2>1. CASE \A i \in DOMAIN pending : pending[i].conn # c
      <3>1. phase[c] \notin Busy /\ pending' = pending
        BY <1>1, <1>4, <2>1 DEF Queued, Crash
      <3>2. QED
        BY <1>1, <1>4, <3>1, QueueSame DEF Crash, Busy, ConnPhase
    <2>2. ASSUME NEW i \in DOMAIN pending, pending[i].conn = c, pending' = RemoveAt(pending, i)
          PROVE  Queued'
      BY <1>1, <1>4, <2>2, QueueOneLess DEF Crash, Busy, ConnPhase
    <2>3. QED
      BY <1>4, <2>1, <2>2 DEF Crash
  <1>5. CASE ConnectFails(c) \/ Leave(c) \/ DisconnectFails(c)
    <2>1. PICK idle \in {"running", "leaving", "closed"} :
            phase' = [phase EXCEPT ![c] = idle] /\ pending' = pending /\ phase[c] \notin Busy
      BY <1>5 DEF ConnectFails, Leave, DisconnectFails, Busy
    <2>2. QED
      BY <1>1, <2>1, QueueSame DEF Busy, ConnPhase
  <1>6. CASE Beat(c) \/ Touch(c) \/ TouchFails(c) \/ Expire(c) \/ Lapse(c)
    <2>1. phase' = phase /\ pending' = pending
      BY <1>6 DEF Beat, Touch, TouchFails, Expire, Lapse
    <2>2. QED
      BY <1>1, <2>1 DEF Queued
  <1>7. QED
    BY <1>2, <1>3, <1>4, <1>5, <1>6 DEF ConnStep

\* A connection whose announcement has been made goes on.
LEMMA AnnouncedQueued ==
  ASSUME PresenceTypeOK, OneEach, NEW i \in DOMAIN pending, Announced(i)
  PROVE  /\ Queued'
         /\ pending[i].conn \in Connections /\ phase[pending[i].conn] \in Busy /\ pending[i].online \in BOOLEAN
  <1>1. Queued
    BY QueuedNow
  <1>2. pending[i] \in Announcement
    BY <1>1 DEF Queued
  <1>3. pending[i].conn \in Connections /\ pending[i].online \in BOOLEAN
    BY <1>2 DEF Announcement
  <1>4. phase[pending[i].conn] \in Busy
    BY <1>1, <1>3 DEF Queued
  <1>5. PICK idle \in {"running", "closed"} : phase' = [phase EXCEPT ![pending[i].conn] = idle]
    BY DEF Announced
  <1>6. pending' = RemoveAt(pending, i)
    BY DEF Announced
  <1>7. idle \in ConnPhase \ Busy
    BY DEF ConnPhase, Busy
  <1>8. QED
    BY <1>1, <1>3, <1>4, <1>5, <1>6, <1>7, QueueOneLess

\* Every step keeps it.
LEMMA PresenceQueued ==
  ASSUME PresenceTypeOK, OneEach, [PresenceNext]_presenceVars
  PROVE  Queued'
  <1>1. Queued
    BY QueuedNow
  <1>2. CASE ObserverStep \/ Deliver
    <2>1. UNCHANGED <<phase, pending>>
      BY <1>2 DEF ObserverStep, Register, ReadSnapshot, SnapshotFails, QueueSnapshot,
         Drop, Load, Deliver, conns
    <2>2. QED
      BY <1>1, <2>1 DEF Queued
  <1>3. CASE UNCHANGED presenceVars
    BY <1>1, <1>3 DEF Queued, presenceVars, conns
  <1>4. ASSUME NEW i \in DOMAIN pending, Publish(i) \/ PublishFails(i) PROVE Queued'
    BY <1>4, AnnouncedQueued DEF Publish, PublishFails
  <1>5. QED
    BY <1>2, <1>3, <1>4, ConnQueued, PresenceSteps

\* The rest of the types.
Plain ==
  /\ beating \subseteq Connections /\ entries \subseteq Connections
  /\ channel \in Seq(BOOLEAN)
  /\ watch \in {"away", "registered", "snapshot", "settled"}
  /\ seen \in BOOLEAN /\ shown \in BOOLEAN
  /\ spoiled \subseteq Mishap
  /\ faults \in 0 .. MaxFaults
  /\ \A c \in beating : phase[c] # "new"

\* They are part of the invariant.
LEMMA PlainNow ==
  ASSUME PresenceTypeOK, OneEach
  PROVE  Plain /\ phase \in [Connections -> ConnPhase]
  BY DEF Plain, PresenceTypeOK, OneEach

\* A failure is counted and named.
LEMMA FaultNamed ==
  ASSUME Plain, NEW mishap \in Mishap, Fault(mishap)
  PROVE  spoiled' \subseteq Mishap /\ faults' \in 0 .. MaxFaults
  BY PresenceAssumption DEF Plain, Fault

\* The steps of a connection keep them.
LEMMA ConnPlain ==
  ASSUME PresenceTypeOK, OneEach, NEW c \in Connections, ConnStep(c)
  PROVE  Plain'
  <1>0. Plain /\ phase \in [Connections -> ConnPhase]
    BY PlainNow
  <1> USE DEF Plain, observer, NoFault
  <1>1. CASE Connect(c)
    BY <1>0, <1>1 DEF Connect, Decide
  <1>2. CASE ConnectFails(c)
    BY <1>0, <1>2, FaultNamed DEF ConnectFails, Mishap
  <1>3. CASE Leave(c)
    BY <1>0, <1>3 DEF Leave
  <1>4. CASE Disconnect(c)
    BY <1>0, <1>4 DEF Disconnect, Decide
  <1>5. CASE DisconnectFails(c)
    BY <1>0, <1>5, FaultNamed DEF DisconnectFails, Mishap
  <1>6. CASE Beat(c)
    BY <1>0, <1>6 DEF Beat
  <1>7. CASE Touch(c)
    BY <1>0, <1>7 DEF Touch, Mishap
  <1>8. CASE TouchFails(c)
    BY <1>0, <1>8 DEF TouchFails
  <1>9. CASE Expire(c)
    BY <1>0, <1>9 DEF Expire
  <1>10. CASE Lapse(c)
    BY <1>0, <1>10, FaultNamed DEF Lapse, Mishap
  <1>11. CASE Crash(c)
    BY <1>0, <1>11, FaultNamed DEF Crash, Mishap
  <1>12. QED
    BY <1>1, <1>2, <1>3, <1>4, <1>5, <1>6, <1>7, <1>8, <1>9, <1>10, <1>11 DEF ConnStep

\* Every step keeps them.
LEMMA PresencePlain ==
  ASSUME PresenceTypeOK, OneEach, [PresenceNext]_presenceVars
  PROVE  Plain'
  <1>0. Plain /\ phase \in [Connections -> ConnPhase]
    BY PlainNow
  <1> USE DEF Plain, conns, observer, NoFault
  <1>1. ASSUME NEW i \in DOMAIN pending, Publish(i) \/ PublishFails(i) PROVE Plain'
    <2>1. Announced(i)
      BY <1>1 DEF Publish, PublishFails
    <2>2. pending[i].conn \in Connections /\ pending[i].online \in BOOLEAN
      BY <2>1, AnnouncedQueued
    <2>3. \A c \in beating : phase'[c] # "new"
      BY <1>0, <2>1, <2>2 DEF Announced
    <2>4. CASE Publish(i)
      <3>1. channel' \in Seq(BOOLEAN)
        BY <1>0, <2>2, <2>4, AppendOne DEF Publish
      <3>2. QED
        BY <1>0, <2>3, <2>4, <3>1 DEF Publish, Mishap
    <2>5. CASE PublishFails(i)
      BY <1>0, <2>3, <2>5, FaultNamed DEF PublishFails, Mishap
    <2>6. QED
      BY <1>1, <2>4, <2>5
  <1>2. CASE Deliver
    <2>1. channel' \in Seq(BOOLEAN) /\ Head(channel) \in BOOLEAN
      BY <1>0, <1>2, HeadTailProperties DEF Deliver
    <2>2. shown' \in BOOLEAN
      BY <1>0, <1>2, <2>1 DEF Deliver
    <2>3. spoiled' \subseteq Mishap
      BY <1>0, <1>2 DEF Deliver, Mishap
    <2>4. QED
      BY <1>0, <1>2, <2>1, <2>2, <2>3 DEF Deliver
  <1>3. CASE Register
    BY <1>0, <1>3 DEF Register
  <1>4. CASE ReadSnapshot
    BY <1>0, <1>4 DEF ReadSnapshot
  <1>5. CASE SnapshotFails
    BY <1>0, <1>5, FaultNamed DEF SnapshotFails, Mishap
  <1>6. CASE QueueSnapshot
    BY <1>0, <1>6 DEF QueueSnapshot
  <1>7. CASE Drop
    BY <1>0, <1>7 DEF Drop
  <1>8. CASE Load
    BY <1>0, <1>8 DEF Load, Mishap
  <1>9. CASE UNCHANGED presenceVars
    BY <1>0, <1>9 DEF presenceVars
  <1>10. QED
    BY <1>1, <1>2, <1>3, <1>4, <1>5, <1>6, <1>7, <1>8, <1>9, ConnPlain, PresenceSteps DEF ObserverStep

\* The state of Presence keeps its types.
LEMMA PresenceTypes ==
  ASSUME PresenceTypeOK, OneEach, [PresenceNext]_presenceVars
  PROVE  PresenceTypeOK' /\ OneEach'
  BY PresenceQueued, PresencePlain DEF Queued, Busy, Plain, PresenceTypeOK, OneEach

\* Entries and live connections: what each step of a connection does to both.
LEMMA ConnEntries ==
  ASSUME PresenceInv, NEW c \in Connections, ConnStep(c)
  PROVE  (Recorded /\ NothingLeft)'
  <1>0. /\ Plain /\ phase \in [Connections -> ConnPhase]
        /\ Recorded /\ NothingLeft
    BY PlainNow DEF PresenceInv
  <1> USE DEF Plain, NoFault, Fault, Recorded, NothingLeft, Live
  <1>1. CASE Connect(c)
    <2>1. entries' = entries \cup {c}
      BY <1>1 DEF Connect
    <2>2. PICK x \in {"announcing", "running"} : phase' = [phase EXCEPT ![c] = x]
      BY <1>1 DEF Connect, Decide
    <2>3. Live' = Live \cup {c}
      BY <1>0, <2>2
    <2>4. CASE CleanStart(c)
      <3>1. entries = {} /\ Live \subseteq {c}
        BY <2>4 DEF CleanStart
      <3>2. QED
        BY <2>1, <2>3, <3>1
    <2>5. CASE ~CleanStart(c)
      <3>1. spoiled' = spoiled
        BY <1>1, <2>5 DEF Connect
      <3>2. QED
        BY <1>0, <2>1, <2>3, <3>1
    <2>6. QED
      BY <2>4, <2>5
  <1>2. CASE ConnectFails(c)
    BY <1>0, <1>2 DEF ConnectFails
  <1>3. CASE Leave(c)
    BY <1>0, <1>3 DEF Leave
  <1>4. CASE Disconnect(c)
    BY <1>0, <1>4 DEF Disconnect, Decide
  <1>5. CASE DisconnectFails(c)
    BY <1>0, <1>5 DEF DisconnectFails
  <1>6. CASE Beat(c)
    BY <1>0, <1>6 DEF Beat
  <1>7. CASE Touch(c)
    BY <1>0, <1>7 DEF Touch, ConnPhase
  <1>8. CASE TouchFails(c)
    BY <1>0, <1>8 DEF TouchFails
  <1>9. CASE Expire(c)
    BY <1>0, <1>9 DEF Expire
  <1>10. CASE Lapse(c)
    BY <1>0, <1>10 DEF Lapse
  <1>11. CASE Crash(c)
    BY <1>0, <1>11 DEF Crash
  <1>12. QED
    BY <1>1, <1>2, <1>3, <1>4, <1>5, <1>6, <1>7, <1>8, <1>9, <1>10, <1>11 DEF ConnStep

\* Nothing else changes either.
LEMMA PresenceEntries ==
  ASSUME PresenceInv, [PresenceNext]_presenceVars
  PROVE  (Recorded /\ NothingLeft)'
  <1>0. /\ Plain /\ phase \in [Connections -> ConnPhase]
        /\ Recorded /\ NothingLeft
    BY PlainNow DEF PresenceInv
  <1> USE DEF Recorded, NothingLeft, Live
  <1>1. ASSUME NEW i \in DOMAIN pending, Publish(i) \/ PublishFails(i)
        PROVE  (Recorded /\ NothingLeft)'
    <2>1. Announced(i) /\ entries' = entries /\ spoiled \subseteq spoiled'
      BY <1>1 DEF Publish, PublishFails, Fault
    <2>2. Live' = Live
      BY <1>0, <2>1, AnnouncedQueued DEF Announced, PresenceInv, Busy
    <2>3. QED
      BY <1>0, <2>1, <2>2
  <1>2. CASE ObserverStep \/ Deliver \/ UNCHANGED presenceVars
    <2>1. UNCHANGED <<phase, entries>> /\ spoiled \subseteq spoiled'
      BY <1>2 DEF ObserverStep, Register, ReadSnapshot, SnapshotFails, QueueSnapshot,
         Drop, Load, Deliver, conns, presenceVars, Fault, NoFault
    <2>2. QED
      BY <1>0, <2>1
  <1>3. QED
    BY <1>1, <1>2, ConnEntries, PresenceSteps

-----------------------------------------------------------------------------
(* The news on their way to the observer *)

News == NewsOfComing /\ NewsOfGoing
Mild == {"leftover", "away", "overtaken"}

\* After a mishap that is not mild the news may say anything.
LEMMA NewsLost ==
  ASSUME ~(spoiled' \subseteq Mild)
  PROVE  News'
  BY DEF News, Mild, NewsOfComing, NewsOfGoing

\* Nothing new for the observer: whether the set is empty has not changed either.
LEMMA NewsStill ==
  ASSUME News, UNCHANGED <<pending, channel, watch, seen, shown>>,
         spoiled' \subseteq Mild /\ entries' # {} => spoiled \subseteq Mild /\ entries # {},
         spoiled' = {} /\ entries' = {} => spoiled = {} /\ entries = {}
  PROVE  News'
  <1>1. UnderWay' = UnderWay /\ LastNews' = LastNews
    BY DEF UnderWay, LastNews
  <1>2. NewsOfComing'
    BY <1>1 DEF News, Mild, NewsOfComing
  <1>3. NewsOfGoing'
    BY <1>1 DEF News, NewsOfGoing
  <1>4. QED
    BY <1>2, <1>3 DEF News

\* The set has become empty or not empty, and its announcement is the last of the news.
LEMMA NewsAnnounced ==
  ASSUME pending \in Seq(Announcement), NEW c \in Connections, NEW on \in BOOLEAN,
         pending' = Append(pending, [conn |-> c, online |-> on]), on <=> entries' # {}
  PROVE  News'
  <1>1. [conn |-> c, online |-> on] \in Announcement
    BY DEF Announcement
  <1>2. pending' \in Seq(Announcement) /\ Len(pending') = Len(pending) + 1 /\ Len(pending) \in Nat
    BY <1>1, AppendOne, LenProperties
  <1>3. pending'[Len(pending')].online = on
    BY <1>1, <1>2, AppendOne
  <1>4. pending' # <<>>
    BY <1>2
  <1>5. UnderWay' /\ (LastNews' <=> on)
    BY <1>3, <1>4 DEF UnderWay, LastNews
  <1>6. QED
    BY <1>5 DEF News, NewsOfComing, NewsOfGoing

\* The steps of a connection: whoever empties the set, or adds the first entry, has the last
\* word; the others change nothing that the observer should see.
LEMMA ConnNews ==
  ASSUME PresenceInv, NEW c \in Connections, ConnStep(c)
  PROVE  News'
  <1>0. /\ Plain /\ phase \in [Connections -> ConnPhase] /\ pending \in Seq(Announcement)
        /\ Recorded /\ NothingLeft /\ News
    BY PlainNow DEF PresenceInv, News, PresenceTypeOK
  <1> USE DEF NoFault, Fault, observer, Mild
  <1>1. CASE Connect(c)
    <2>1. CASE entries = {}
      <3>1. pending' = Append(pending, [conn |-> c, online |-> TRUE]) /\ entries' # {}
        BY <1>1, <2>1 DEF Connect, Decide
      <3>2. QED
        BY <1>0, <3>1, NewsAnnounced
    <2>2. CASE entries # {}
      <3>1. UNCHANGED <<pending, channel, watch, seen, shown, spoiled>> /\ entries' # {}
        BY <1>1, <2>2 DEF Connect, Decide, CleanStart
      <3>2. QED
        BY <1>0, <2>2, <3>1, NewsStill
    <2>3. QED
      BY <2>1, <2>2
  <1>2. CASE Disconnect(c)
    <2>1. CASE entries' = {}
      <3>1. pending' = Append(pending, [conn |-> c, online |-> FALSE])
        BY <1>2, <2>1 DEF Disconnect, Decide
      <3>2. QED
        BY <1>0, <2>1, <3>1, NewsAnnounced
    <2>2. CASE entries' # {}
      <3>1. UNCHANGED <<pending, channel, watch, seen, shown, spoiled>> /\ entries # {}
        BY <1>2, <2>2 DEF Disconnect, Decide
      <3>2. QED
        BY <1>0, <2>2, <3>1, NewsStill
    <2>3. QED
      BY <2>1, <2>2
  <1>3. CASE Leave(c) \/ Beat(c) \/ TouchFails(c)
    BY <1>0, <1>3, NewsStill DEF Leave, Beat, TouchFails
  <1>4. CASE Touch(c)
    <2>1. c \in Live \/ "ghost" \in spoiled'
      BY <1>0, <1>4 DEF Touch, Plain, Live, ConnPhase
    <2>2. CASE "ghost" \in spoiled'
      BY <2>2, NewsLost
    <2>3. CASE c \in Live
      <3>1. UNCHANGED <<pending, channel, watch, seen, shown>> /\ entries' # {} /\ spoiled \subseteq spoiled'
        BY <1>4 DEF Touch
      <3>2. spoiled' \subseteq Mild => entries # {}
        BY <1>0, <2>3, <3>1 DEF Recorded
      <3>3. QED
        BY <1>0, <3>1, <3>2, NewsStill
    <2>4. QED
      BY <2>1, <2>2, <2>3
  <1>5. CASE Expire(c)
    <2>1. UNCHANGED <<pending, channel, watch, seen, shown, spoiled>> /\ entries # {}
      BY <1>5 DEF Expire
    <2>2. spoiled # {}
      BY <1>0, <1>5 DEF Expire, NothingLeft, Live
    <2>3. QED
      BY <1>0, <2>1, <2>2, NewsStill
  <1>6. CASE ConnectFails(c) \/ Lapse(c)
    BY <1>6, NewsLost DEF ConnectFails, Lapse
  <1>7. CASE DisconnectFails(c)
    <2>1. CASE "lost" \in spoiled'
      BY <2>1, NewsLost
    <2>2. CASE "lost" \notin spoiled'
      <3>1. UNCHANGED <<pending, channel, watch, seen, shown, entries>> /\ spoiled' = spoiled \cup {"leftover"}
        BY <1>7, <2>2 DEF DisconnectFails
      <3>2. QED
        BY <1>0, <3>1, NewsStill
    <2>3. QED
      BY <2>1, <2>2
  <1>8. CASE Crash(c)
    <2>1. CASE "lost" \in spoiled'
      BY <2>1, NewsLost
    <2>2. CASE "lost" \notin spoiled'
      <3>1. UNCHANGED <<pending, channel, watch, seen, shown, entries>> /\ spoiled' = spoiled \cup {"leftover"}
        BY <1>8, <2>2 DEF Crash
      <3>2. QED
        BY <1>0, <3>1, NewsStill
    <2>3. QED
      BY <2>1, <2>2
  <1>9. QED
    BY <1>1, <1>2, <1>3, <1>4, <1>5, <1>6, <1>7, <1>8 DEF ConnStep

\* The last of the news stays the last.
LEMMA NewsMoved ==
  ASSUME News, UnderWay, UnderWay', LastNews' = LastNews,
         entries' = entries, spoiled \subseteq spoiled'
  PROVE  News'
  BY DEF News, NewsOfComing, NewsOfGoing

\* A publication hands an announcement over from one queue to the next; one that
\* overtakes others is a mishap.
LEMMA PublishNews ==
  ASSUME PresenceInv, NEW i \in DOMAIN pending, Publish(i) \/ PublishFails(i)
  PROVE  News'
  <1>0. Plain /\ pending \in Seq(Announcement) /\ News
    BY PlainNow DEF PresenceInv, News, PresenceTypeOK
  <1>1. CASE PublishFails(i)
    BY <1>1, NewsLost DEF PublishFails, Fault, Mild
  <1>2. CASE Publish(i) /\ i # 1
    BY <1>2, NewsLost DEF Publish, Mild
  <1>3. CASE Publish(1)
    <2>1. /\ 1 \in DOMAIN pending /\ DOMAIN pending = 1 .. Len(pending) /\ Len(pending) \in Nat
      BY <1>0, LenProperties
    <2>2. pending[1] \in Announcement
      BY <1>0, <2>1
    <2>3. pending[1].online \in BOOLEAN
      BY <2>2 DEF Announcement
    <2>4. /\ channel' \in Seq(BOOLEAN) /\ Len(channel') = Len(channel) + 1 /\ Len(channel) \in Nat
          /\ channel'[Len(channel')] = pending[1].online
      BY <1>0, <1>3, <2>3, AppendOne, LenProperties DEF Publish, Plain
    <2>5. /\ UnderWay /\ UnderWay'
          /\ entries' = entries /\ spoiled \subseteq spoiled'
      BY <1>3, <2>1, <2>4 DEF UnderWay, Publish
    <2>6. /\ pending' \in Seq(Announcement) /\ Len(pending') = Len(pending) - 1
          /\ \A j \in 1 .. Len(pending) - 1 : pending'[j] = IF j < 1 THEN pending[j] ELSE pending[j + 1]
      BY <1>0, <1>3, <2>1, RemoveOne DEF Publish, Announced
    <2>7. CASE Len(pending) = 1
      <3>1. pending' = <<>> /\ pending # <<>>
        BY <2>6, <2>7
      <3>2. QED
        BY <1>0, <2>4, <2>5, <2>7, <3>1, NewsMoved DEF LastNews
    <2>8. CASE Len(pending) # 1
      <3>1. /\ pending' # <<>> /\ pending # <<>>
            /\ Len(pending') \in 1 .. Len(pending) - 1 /\ Len(pending') + 1 = Len(pending)
        BY <2>1, <2>6, <2>8
      <3>2. pending'[Len(pending')] = pending[Len(pending)]
        BY <2>6, <3>1
      <3>3. QED
        BY <1>0, <2>5, <3>1, <3>2, NewsMoved DEF LastNews
    <2>9. QED
      BY <2>7, <2>8
  <1>4. QED
    BY <1>1, <1>2, <1>3

\* The last of the news becomes what the chat shows, unless nobody or a snapshot that is
\* out of date takes it.
LEMMA DeliverNews ==
  ASSUME PresenceInv, Deliver
  PROVE  News'
  <1>0. Plain /\ News
    BY PlainNow DEF PresenceInv, News
  <1>1. /\ Len(channel) \in Nat \ {0} /\ channel' \in Seq(BOOLEAN) /\ Len(channel') = Len(channel) - 1
        /\ Head(channel) = channel[1] /\ Head(channel) \in BOOLEAN
        /\ \A j \in 1 .. Len(channel) - 1 : channel'[j] = channel[j + 1]
    <2>1. channel \in Seq(BOOLEAN) /\ channel # <<>> /\ channel' = Tail(channel)
      BY <1>0 DEF Plain, Deliver
    <2>2. Len(channel) \in Nat \ {0} /\ Head(channel) = channel[1] /\ channel[1] \in BOOLEAN
      BY <2>1
    <2>3. QED
      BY <2>1, <2>2, HeadTailProperties
  <1>2. /\ UnderWay /\ UNCHANGED <<phase, entries, pending, watch, seen>> /\ spoiled \subseteq spoiled'
    BY DEF Deliver, UnderWay, conns
  <1>3. CASE pending # <<>>
    BY <1>0, <1>2, <1>3, NewsMoved DEF UnderWay, LastNews
  <1>4. CASE pending = <<>> /\ Len(channel) # 1
    <2>1. channel' # <<>> /\ Len(channel') \in 1 .. Len(channel) - 1 /\ Len(channel') + 1 = Len(channel)
      BY <1>1, <1>4
    <2>2. channel'[Len(channel')] = channel[Len(channel)]
      BY <1>1, <2>1
    <2>3. QED
      BY <1>0, <1>2, <1>4, <2>1, <2>2, NewsMoved DEF UnderWay, LastNews
  <1>5. CASE pending = <<>> /\ Len(channel) = 1
    <2>1. channel' = <<>>
      BY <1>1, <1>5, EmptySeq
    <2>2. ~UnderWay' /\ LastNews = Head(channel)
      BY <1>1, <1>2, <1>5, <2>1 DEF UnderWay, LastNews
    <2>3. NewsOfComing'
      <3> SUFFICES ASSUME spoiled' \subseteq Mild, entries' # {}
                   PROVE  (watch = "settled" => shown') /\ (watch = "snapshot" => shown' \/ seen)
        BY <1>2, <2>2 DEF NewsOfComing, Mild
      <3>1. Head(channel)
        BY <1>0, <1>2, <2>2 DEF News, NewsOfComing, Mild
      <3>2. QED
        BY <3>1 DEF Deliver
    <2>4. NewsOfGoing'
      <3> SUFFICES ASSUME spoiled' = {}, entries' = {}
                   PROVE  ~shown' /\ (watch = "snapshot" => ~seen)
        BY <1>2, <2>2 DEF NewsOfGoing
      <3>1. ~Head(channel)
        BY <1>0, <1>2, <2>2 DEF News, NewsOfGoing
      <3>2. QED
        BY <3>1 DEF Deliver
    <2>5. QED
      BY <2>3, <2>4 DEF News
  <1>6. QED
    BY <1>3, <1>4, <1>5

\* The snapshot tells the state of the set when it is read, and until it is queued the
\* news go on.
LEMMA ObserverNews ==
  ASSUME PresenceInv, ObserverStep
  PROVE  News'
  <1>0. Plain /\ News
    BY PlainNow DEF PresenceInv, News
  <1>1. CASE SnapshotFails \/ Load
    BY <1>1, NewsLost DEF SnapshotFails, Load, Fault, Mild
  <1>2. CASE Register \/ ReadSnapshot \/ QueueSnapshot \/ Drop
    <2>1. UNCHANGED <<entries, pending, channel, spoiled>>
      BY <1>2 DEF Register, ReadSnapshot, QueueSnapshot, Drop, NoFault,
         conns
    <2>2. UnderWay' = UnderWay /\ LastNews' = LastNews
      BY <2>1 DEF UnderWay, LastNews
    <2>3. CASE Register \/ Drop
      <3>1. shown' = shown /\ seen' = seen /\ watch' \notin {"settled", "snapshot"}
        BY <2>3 DEF Register, Drop
      <3>2. QED
        BY <1>0, <2>1, <2>2, <3>1 DEF News, NewsOfComing, NewsOfGoing
    <2>4. CASE ReadSnapshot
      <3>1. shown' = shown /\ (seen' <=> entries # {}) /\ watch' = "snapshot"
        BY <2>4 DEF ReadSnapshot
      <3>2. QED
        BY <1>0, <2>1, <2>2, <3>1 DEF News, NewsOfComing, NewsOfGoing
    <2>5. CASE QueueSnapshot
      <3>1. (shown' <=> shown \/ seen) /\ watch = "snapshot" /\ watch' = "settled"
        BY <2>5 DEF QueueSnapshot
      <3>2. QED
        BY <1>0, <2>1, <2>2, <3>1 DEF News, NewsOfComing, NewsOfGoing
    <2>6. QED
      BY <1>2, <2>3, <2>4, <2>5
  <1>3. QED
    BY <1>1, <1>2 DEF ObserverStep

-----------------------------------------------------------------------------
(* What the observer sees *)

\* In the initial state nobody is connected and the chat shows nobody.
LEMMA InitPresence ==
  ASSUME PresenceInit
  PROVE  PresenceInv
  <1>1. pending \in Seq(Announcement) /\ channel \in Seq(BOOLEAN) /\ DOMAIN pending = {}
    BY EmptySeq, LenProperties DEF PresenceInit
  <1>2. PresenceTypeOK /\ OneEach
    <2>1. phase \in [Connections -> ConnPhase] /\ \A c \in Connections : phase[c] = "new"
      BY DEF PresenceInit, ConnPhase
    <2>2. faults \in 0 .. MaxFaults
      BY PresenceAssumption DEF PresenceInit
    <2>3. QED
      BY <1>1, <2>1, <2>2 DEF PresenceInit, PresenceTypeOK, OneEach
  <1>3. Recorded /\ NothingLeft
    BY DEF PresenceInit, Recorded, NothingLeft, Live
  <1>4. NewsOfComing /\ NewsOfGoing
    BY DEF PresenceInit, NewsOfComing, NewsOfGoing, UnderWay
  <1>5. QED
    BY <1>2, <1>3, <1>4 DEF PresenceInv

\* Every step keeps the inductive invariant.
LEMMA NextPresence ==
  ASSUME PresenceInv, [PresenceNext]_presenceVars
  PROVE  PresenceInv'
  <1>0. PresenceTypeOK /\ OneEach
    BY DEF PresenceInv
  <1>1. News'
    <2>1. CASE UNCHANGED presenceVars
      <3>1. /\ UNCHANGED <<pending, channel, watch, seen, shown, entries, spoiled>>
        BY <2>1 DEF presenceVars, conns, observer
      <3>2. QED
        BY <3>1, NewsStill DEF News, PresenceInv
    <2>2. QED
      BY <2>1, ConnNews, PublishNews, DeliverNews, ObserverNews, PresenceSteps
  <1>2. QED
    BY <1>0, <1>1, PresenceTypes, PresenceEntries DEF News, PresenceInv

\* The inductive invariant holds in every state, however the connections, announcements and
\* heartbeats of a user (client.go:44-75) overlap.
THEOREM PresenceInvariance == PresenceSpec => []PresenceInv
  <1>1. PresenceInit => PresenceInv
    BY InitPresence
  <1>2. PresenceInv /\ [PresenceNext]_presenceVars => PresenceInv'
    BY NextPresence
  <1>3. QED
    BY <1>1, <1>2, PTL DEF PresenceSpec

\* Once everything has arrived, the connections that should have an entry are those that run.
LEMMA QuietNow ==
  ASSUME Quiet
  PROVE  ~UnderWay /\ watch = "settled" /\ Running = Live
  BY DEF Quiet, UnderWay, Running, Live

\* Unless a named mishap has happened, the observer sees the truth once everything has
\* arrived (message_bus.go:85-143, service.go:149-202).
THEOREM PresenceIsShown == PresenceSpec => []ShowsTruth
  <1>1. PresenceInv => ShowsTruth
    <2> SUFFICES ASSUME PresenceInv, Quiet, spoiled = {}
                 PROVE  shown <=> Running # {}
      BY PlainNow DEF ShowsTruth, PresenceInv, Plain
    <2>1. entries = Running
      BY QuietNow DEF PresenceInv, Recorded, NothingLeft
    <2>2. CASE entries = {}
      BY <2>1, <2>2, QuietNow DEF PresenceInv, NewsOfGoing
    <2>3. CASE entries # {}
      BY <2>1, <2>3, QuietNow DEF PresenceInv, NewsOfComing
    <2>4. QED
      BY <2>2, <2>3
  <1>2. QED
    BY <1>1, PresenceInvariance, PTL

\* What is left over, missed or overtaken never makes a connected user look offline: the
\* snapshot brings nobody but those online (service.go:174-193).
THEOREM NobodyIsHidden == PresenceSpec => []NeverHidden
  <1>1. PresenceInv => NeverHidden
    <2> SUFFICES ASSUME PresenceInv, Quiet, spoiled \subseteq Mild, Running # {}
                 PROVE  shown
      BY DEF NeverHidden, Mild
    <2>1. Running \subseteq entries
      BY QuietNow DEF PresenceInv, Recorded, Mild
    <2>2. QED
      BY <2>1, QuietNow DEF PresenceInv, NewsOfComing, Mild
  <1>2. QED
    BY <1>1, PresenceInvariance, PTL

\* A connection that comes to announce its end has just removed the last entry.
LEMMA WithdrawingStep ==
  ASSUME PresenceInv, [PresenceNext]_presenceVars, NEW c \in Connections,
         phase[c] = "leaving", phase'[c] = "withdrawing"
  PROVE  Disconnect(c) /\ entries' = {}
  <1>0. phase \in [Connections -> ConnPhase]
    BY PlainNow DEF PresenceInv
  <1>1. ASSUME NEW d \in Connections, ConnStep(d) PROVE Disconnect(c) /\ entries' = {}
    <2>1. d = c /\ Disconnect(d)
      BY <1>0, <1>1 DEF ConnStep, Connect, ConnectFails, Leave, Disconnect,
         DisconnectFails, Beat, Touch, TouchFails, Expire, Lapse,
         Crash, Decide
    <2>2. QED
      BY <1>0, <2>1 DEF Disconnect, Decide
  <1>2. ASSUME NEW i \in DOMAIN pending, Publish(i) \/ PublishFails(i) PROVE FALSE
    BY <1>0, <1>2 DEF Publish, PublishFails, Announced
  <1>3. CASE ObserverStep \/ Deliver \/ UNCHANGED presenceVars
    <2>1. phase' = phase
      BY <1>3 DEF ObserverStep, Register, ReadSnapshot, SnapshotFails, QueueSnapshot,
         Drop, Load, Deliver, conns, presenceVars
    <2>2. QED
      BY <2>1
  <1>4. QED
    BY <1>1, <1>2, <1>3, PresenceSteps

\* The last connection decides: DisconnectPresence counts what remains (message_bus.go:110-121).
THEOREM OfflineDecidedLast == PresenceSpec => OfflineIsLast
  <1> DEFINE P == \A c \in Connections : phase[c] = "leaving" /\ phase'[c] = "withdrawing" =>
                     Running = {} \/ spoiled \cap {"lapsed", "lost"} # {}
  <1>1. PresenceInv /\ [PresenceNext]_presenceVars => P
    <2> SUFFICES ASSUME PresenceInv, [PresenceNext]_presenceVars, NEW c \in Connections,
                        phase[c] = "leaving", phase'[c] = "withdrawing", spoiled \cap {"lapsed", "lost"} = {}
                 PROVE  Running = {}
      OBVIOUS
    <2>1. entries \subseteq {c}
      BY WithdrawingStep DEF Disconnect
    <2>2. Live \subseteq entries
      BY DEF PresenceInv, Recorded
    <2>3. Running \subseteq Live /\ c \notin Running
      BY DEF Running, Live
    <2>4. QED
      BY <2>1, <2>2, <2>3
  <1>2. QED
    BY <1>1, PresenceInvariance, PTL DEF PresenceSpec, OfflineIsLast
=============================================================================
