------------------------ MODULE ConversationListProofs ------------------------
(***************************************************************************)
(* For any number of channels, troubles, changes and requests: the app's   *)
(* client has one channel and dials it again after a second, and its list  *)
(* of conversations is as new as what it was told.  And for any devices    *)
(* and messages: the read pointer, from which the list counts what is      *)
(* unread, only moves on, as far as every mark that was answered.          *)
(***************************************************************************)
EXTENDS ConversationList, ReadPointer, FiniteSetTheorems, TLAPS

-----------------------------------------------------------------------------
(* The channel *)

LEMMA LinkStarts == LinkInit => LinkInv
  <1> SUFFICES ASSUME LinkInit PROVE LinkInv
    OBVIOUS
  <1>1. LinkTypes
    BY LinkAssumption DEF LinkInit, LinkTypes
  <1>2. OneDial
    BY LinkAssumption DEF LinkInit, OneDial, Live
  <1>3. QED
    BY <1>1, <1>2 DEF LinkInv

\* The client dials when no channel is live; a connect that throws makes none.
LEMMA ConnectKeeps ==
  ASSUME LinkInv, Connect, signed' \in BOOLEAN, ~crossed => signed' = TRUE /\ Live = {}
  PROVE  LinkInv'
  <1>1. LinkTypes'
    BY LinkAssumption DEF LinkInv, LinkTypes, Connect
  <1>2. ASSUME ~crossed' PROVE OneDial'
    BY <1>2, LinkAssumption DEF LinkInv, LinkTypes, OneDial, Live, Connect
  <1>3. QED
    BY <1>1, <1>2 DEF LinkInv

LEMMA SignInKeeps == LinkInv /\ SignIn => LinkInv'
  <1> SUFFICES ASSUME LinkInv, SignIn PROVE LinkInv'
    OBVIOUS
  <1>1. signed' = TRUE /\ (~crossed => Live = {})
    BY DEF SignIn, LinkInv, OneDial
  <1>2. QED
    BY <1>1, ConnectKeeps DEF SignIn

LEMMA DisconnectKeeps ==
  ASSUME LinkInv, NEW caller, Disconnect(caller), signed' \in BOOLEAN
  PROVE  LinkInv'
  BY LinkAssumption DEF LinkInv, LinkTypes, OneDial, Live, Disconnect, Shut

LEMMA DisconnectedKeeps ==
  ASSUME LinkInv, NEW d \in closing, Disconnected(d)
  PROVE  LinkInv'
  BY LinkAssumption DEF LinkInv, LinkTypes, OneDial, Live, Disconnected

LEMMA RetryKeeps == LinkInv /\ RetryFires => LinkInv'
  <1> SUFFICES ASSUME LinkInv, RetryFires PROVE LinkInv'
    OBVIOUS
  <1>1. CASE token = "none"
    BY <1>1, LinkAssumption DEF LinkInv, LinkTypes, OneDial, Live, RetryFires, account
  <1>2. CASE token # "none"
    <2>1. Connect
      BY <1>2 DEF RetryFires
    <2>2. signed' = signed /\ signed \in BOOLEAN /\ (~crossed => signed = TRUE /\ Live = {})
      BY DEF RetryFires, account, LinkInv, LinkTypes, OneDial
    <2>3. QED
      BY <2>1, <2>2, ConnectKeeps
  <1>3. QED
    BY <1>1, <1>2

LEMMA OpensKeeps ==
  ASSUME LinkInv, NEW c \in Slots, Opens(c)
  PROVE  LinkInv'
  BY LinkAssumption DEF LinkInv, LinkTypes, OneDial, Live, Opens, account

\* The dial or the channel that ends was the one the client names, or an older one.
LEMMA EndingKeeps ==
  ASSUME LinkInv, NEW c \in Slots, DialFails(c) \/ Ends(c)
  PROVE  LinkInv'
  <1>1. /\ c \in Live /\ Reconnect /\ channels' = [channels EXCEPT ![c] = "ended"]
        /\ UNCHANGED <<signed, current, closing, crossed>>
    BY DEF DialFails, Ends, Live, account
  <1>2. LinkTypes
    BY DEF LinkInv
  <1>3. LinkTypes'
    BY <1>1, <1>2 DEF LinkTypes, Reconnect
  <1>4. ASSUME ~crossed' PROVE OneDial'
    <2>1. OneDial /\ ~closed /\ c = current
      BY <1>1, <1>4 DEF LinkInv, OneDial
    <2>2. ~closed'
      BY <1>1, <2>1 DEF Reconnect
    <2>3. Live' = {}
      BY <1>1, <1>2, <2>1 DEF OneDial, Live, LinkTypes
    <2>4. QED
      BY <1>1, <2>1, <2>2, <2>3 DEF OneDial
  <1>5. QED
    BY <1>3, <1>4 DEF LinkInv

LEMMA AbortedFailsKeeps ==
  ASSUME LinkInv, NEW c \in Slots, AbortedFails(c)
  PROVE  LinkInv'
  BY LinkAssumption DEF LinkInv, LinkTypes, OneDial, Live, AbortedFails, account

LEMMA LinkKeeps == LinkInv /\ (SignIn \/ LinkStep \/ UNCHANGED link) => LinkInv'
  <1> SUFFICES ASSUME LinkInv, SignIn \/ LinkStep \/ UNCHANGED link PROVE LinkInv'
    OBVIOUS
  <1>1. CASE SignIn
    BY <1>1, SignInKeeps
  <1>2. CASE Logout \/ SessionExpired
    <2>1. (\E caller \in {"logout", "expired"} : Disconnect(caller)) /\ signed' \in BOOLEAN
      BY <1>2 DEF Logout, SessionExpired, account, LinkInv, LinkTypes
    <2>2. QED
      BY <2>1, DisconnectKeeps
  <1>3. CASE ClearTokens \/ TokenExpires \/ TokenRefreshed \/ UNCHANGED link
    BY <1>3 DEF ClearTokens, TokenExpires, TokenRefreshed, link, account, socket, LinkInv, LinkTypes,
       OneDial, Live
  <1>4. CASE RetryFires \/ \E d \in closing : Disconnected(d)
    BY <1>4, RetryKeeps, DisconnectedKeeps
  <1>5. CASE \E c \in Slots : Opens(c) \/ DialFails(c) \/ AbortedFails(c) \/ Ends(c)
    BY <1>5, OpensKeeps, EndingKeeps, AbortedFailsKeeps
  <1>6. QED
    BY <1>1, <1>2, <1>3, <1>4, <1>5 DEF LinkStep

\* The invariant of the connection holds in every state, however often it is lost (realtime_client.dart:25-70).
THEOREM LinkInvariance == Spec => []LinkInv
  <1>1. Init => LinkInv
    BY LinkStarts DEF Init
  <1>2. LinkInv /\ [Next]_vars => LinkInv'
    <2>1. [Next]_vars => SignIn \/ LinkStep \/ UNCHANGED link
      BY DEF Next, vars, Send, MarkRead, JoinOrLeave, Announce, Refresh, Answer, LoadFails, Receive,
         Show, Enter, Link
    <2>2. QED
      BY <2>1, LinkKeeps
  <1>3. QED
    BY <1>1, <1>2, PTL DEF Spec

\* One channel is live while the user is signed in, and none and no retry when it is not, but
\* for a channel that a late disconnect forgot (RealtimeClient.connect and disconnect).
THEOREM AtMostOneChannel == Spec => []OneChannel
  <1>1. LinkInv => OneChannel
    BY DEF LinkInv, OneDial, OneChannel, Live
  <1>2. QED
    BY <1>1, LinkInvariance, PTL

-----------------------------------------------------------------------------
(* The list *)

LEMMA ListStarts == Init => ListInv
  <1> SUFFICES ASSUME Init PROVE ListInv
    OBVIOUS
  <1>1. ListTypes
    <2>1. shown.at = 0 /\ version = 1 /\ asked = 0 /\ due = 0 /\ seen = 0 /\ overlap \in BOOLEAN
      BY DEF Init, Nothing
    <2>2. answers = {} /\ announcing = {} /\ events = {}
      BY DEF Init
    <2>3. /\ version \in Nat \ {0} /\ asked \in Nat /\ shown.at \in Nat /\ due \in Nat /\ seen \in Nat
          /\ due <= version /\ seen <= version /\ overlap \in BOOLEAN
      BY <2>1
    <2>4. /\ \A a \in answers : a.at \in 0 .. version
          /\ announcing \subseteq (1 .. version) \X {"send", "read"} /\ events \subseteq 1 .. version
      BY <2>2
    <2>5. QED
      BY <2>3, <2>4 DEF ListTypes
  <1>2. OnItsWay /\ Alone
    BY DEF Init, OnItsWay, Alone, Nothing
  <1>3. QED
    BY <1>1, <1>2 DEF ListInv

LEMMA ChangeKeeps == ListInv /\ (Send \/ MarkRead \/ JoinOrLeave) => ListInv'
  <1> SUFFICES ASSUME ListInv, Send \/ MarkRead \/ JoinOrLeave PROVE ListInv'
    OBVIOUS
  <1>1. /\ version \in Nat \ {0} /\ version' = version + 1
        /\ announcing' \subseteq announcing \cup {<<version', "send">>, <<version', "read">>}
    BY DEF Send, MarkRead, JoinOrLeave, Change, ListInv, ListTypes
  <1>2. announcing' \subseteq (1 .. version') \X {"send", "read"}
    BY <1>1 DEF ListInv, ListTypes
  <1>3. UNCHANGED <<page, events>>
    BY DEF Send, MarkRead, JoinOrLeave
  <1>4. QED
    BY <1>1, <1>2, <1>3 DEF ListInv, ListTypes, OnItsWay, Alone, page

LEMMA AnnounceKeeps ==
  ASSUME ListInv, NEW change \in announcing, Announce(change)
  PROVE  ListInv'
  BY DEF Announce, ListInv, ListTypes, OnItsWay, Alone, page

\* Whoever asks is told at least what is there already.
LEMMA AskKeeps ==
  ASSUME ListInv, NEW told \in 0 .. version, Ask(told), UNCHANGED <<version, announcing>>,
         events' \subseteq events
  PROVE  ListInv'
  <1>1. ListTypes'
    BY DEF ListInv, ListTypes, Ask, Busy
  <1>2. OnItsWay'
    BY DEF ListInv, ListTypes, OnItsWay, Ask
  <1>3. ASSUME ~overlap' PROVE shown'.at = seen' /\ asked' <= 1 /\ answers' = {}
    <2>1. ~Busy /\ (overlap => shown.at = seen)
      BY <1>3 DEF Ask
    <2>2. asked = 0 /\ answers = {}
      BY <2>1 DEF Busy, ListInv, ListTypes
    <2>3. QED
      BY <2>1, <2>2 DEF Ask, ListInv, Alone
  <1>4. QED
    BY <1>1, <1>2, <1>3 DEF ListInv, Alone

LEMMA AnswerKeeps == ListInv /\ Answer => ListInv'
  <1> SUFFICES ASSUME ListInv, Answer PROVE ListInv'
    OBVIOUS
  <1>1. List.at = version /\ List \in answers'
    BY DEF List, Answer
  <1>2. ListTypes'
    BY <1>1 DEF ListInv, ListTypes, Answer, server
  <1>3. OnItsWay'
    BY <1>1 DEF ListInv, ListTypes, OnItsWay, Answer
  <1>4. Alone'
    BY <1>1 DEF ListInv, ListTypes, Alone, Answer
  <1>5. QED
    BY <1>2, <1>3, <1>4 DEF ListInv

LEMMA ShowKeeps ==
  ASSUME ListInv, NEW a \in answers, Show(a)
  PROVE  ListInv'
  <1>1. ListTypes'
    <2>1. UNCHANGED <<version, announcing, events, asked, due, overlap>> /\ answers' \subseteq answers
      BY DEF Show, server
    <2>2. shown' = a /\ seen' \in {a.at, seen} /\ a.at \in Nat /\ a.at <= version
      BY DEF Show, ListInv, ListTypes
    <2>3. QED
      BY <2>1, <2>2 DEF ListInv, ListTypes
  <1>2. OnItsWay'
    BY DEF ListInv, ListTypes, OnItsWay, Show
  <1>3. Alone'
    BY DEF ListInv, ListTypes, Alone, Show
  <1>4. QED
    BY <1>1, <1>2, <1>3 DEF ListInv

LEMMA FailKeeps == ListInv /\ LoadFails => ListInv'
  BY DEF ListInv, ListTypes, OnItsWay, Alone, LoadFails, server

LEMMA EnterKeeps == ListInv /\ Enter => ListInv'
  <1> SUFFICES ASSUME ListInv, Enter PROVE ListInv'
    OBVIOUS
  <1>1. UNCHANGED <<version, announcing>> /\ events' = {} /\ version \in Nat
    BY DEF Enter, server, ListInv, ListTypes
  <1>2. CASE Ask(version)
    BY <1>1, <1>2, AskKeeps
  <1>3. CASE ~Ask(version)
    <2>1. /\ asked' = 1 /\ answers' = (IF Busy THEN {Nothing} ELSE {}) /\ shown' = Nothing
          /\ due' = version /\ seen' = 0 /\ overlap' = Busy
      BY <1>3 DEF Enter
    <2>2. Nothing.at = 0 /\ Busy \in BOOLEAN
      BY DEF Nothing, Busy
    <2>3. ListTypes'
      BY <1>1, <2>1, <2>2 DEF ListInv, ListTypes
    <2>4. OnItsWay' /\ Alone'
      BY <2>1, <2>2 DEF OnItsWay, Alone
    <2>5. QED
      BY <2>3, <2>4 DEF ListInv
  <1>4. QED
    BY <1>2, <1>3

\* The inductive invariant of the list holds in every state.
THEOREM ListInvariance == Spec => []ListInv
  <1>1. ASSUME ListInv, [Next]_vars PROVE ListInv'
    <2>1. CASE Send \/ MarkRead \/ JoinOrLeave \/ Answer \/ LoadFails \/ Enter
      BY <1>1, <2>1, ChangeKeeps, AnswerKeeps, FailKeeps, EnterKeeps
    <2>2. CASE (\E change \in announcing : Announce(change)) \/ \E a \in answers : Show(a)
      BY <1>1, <2>2, AnnounceKeeps, ShowKeeps
    <2>3. CASE Refresh \/ \E change \in events : Receive(change)
      <3>1. PICK told \in 0 .. version : Ask(told)
        <4>1. version \in 0 .. version /\ events \subseteq 0 .. version
          BY <1>1 DEF ListInv, ListTypes
        <4>2. CASE Refresh
          BY <4>1, <4>2 DEF Refresh
        <4>3. CASE \E change \in events : Receive(change)
          BY <4>1, <4>3 DEF Receive
        <4>4. QED
          BY <2>3, <4>2, <4>3
      <3>2. UNCHANGED <<version, announcing>> /\ events' \subseteq events
        BY <2>3 DEF Refresh, Receive, server
      <3>3. QED
        BY <1>1, <3>1, <3>2, AskKeeps
    <2>4. CASE Link \/ UNCHANGED vars
      BY <1>1, <2>4 DEF Link, vars, server, page, ListInv, ListTypes, OnItsWay, Alone
    <2>5. QED
      BY <1>1, <2>1, <2>2, <2>3, <2>4 DEF Next
  <1>2. QED
    BY <1>1, ListStarts, PTL DEF Spec

\* When no request is under way the list shown is as new as what the app was told of, unless
\* answers of several requests came together (ConversationsCubit.load).
THEOREM ListFollows == Spec => []ListTrue
  <1>1. ListInv => ListTrue
    BY DEF ListInv, ListTypes, OnItsWay, Alone, ListTrue, Busy
  <1>2. QED
    BY <1>1, ListInvariance, PTL

-----------------------------------------------------------------------------
(* The read pointers *)

\* The order in which the read pointer moves is total but for messages of one id.
LEMMA PointerOrder ==
  ASSUME NEW l \in Message, NEW m \in Message, NEW n \in Message
  PROVE  /\ ~Precedes(m, m)
         /\ Precedes(l, m) => ~Precedes(m, l)
         /\ ~Precedes(l, m) /\ ~Precedes(m, n) => ~Precedes(l, n)
         /\ ~Precedes(l, m) => m.at <= l.at
  <1>1. /\ l.at \in Nat /\ m.at \in Nat /\ n.at \in Nat
        /\ l.id \in Nat /\ m.id \in Nat /\ n.id \in Nat
    BY DEF Message, Time, MsgIds
  <1>2. QED
    BY <1>1 DEF Precedes

\* Every step of ReadPointer is one of a request, or one around it.
LEMMA ReadSteps ==
  ASSUME ReadNext
  PROVE  \/ \E t \in Marks : Submit(t) \/ CheckMember(t) \/ FindTarget(t) \/ Scan(t)
                           \/ Update(t) \/ Commit(t) \/ Abort(t)
         \/ Write
         \/ \E u \in Readers : Leave(u) \/ Join(u)
  BY DEF ReadNext, Statement

\* The log only grows, and only by messages.
LEMMA ReadLog ==
  ASSUME ReadTypeOK, Write
  PROVE  now' \in Time /\ log \subseteq log' /\ log' \subseteq Message
  BY DEF ReadTypeOK, Write, LogNext, Tick, Appear, Time

\* The state of ReadPointer keeps its types.
LEMMA ReadTypes ==
  ASSUME ReadInv, [ReadNext]_readVars
  PROVE  ReadTypeOK'
  <1> USE ReadAssumption DEF ReadInv, ReadTypeOK, members, local, GoTo,
              Phase, Return, Refuse, Readers
  <1>1. ASSUME NEW t \in Marks, Submit(t) PROVE ReadTypeOK'
    BY <1>1 DEF Submit
  <1>2. ASSUME NEW t \in Marks, CheckMember(t) PROVE ReadTypeOK'
    <2>1. CASE Refuse(t, "forbidden")
      BY <2>1
    <2>2. CASE UserOf[t] \in roster
      BY <1>2, <2>2 DEF CheckMember
    <2>3. QED
      BY <1>2, <2>1, <2>2 DEF CheckMember
  <1>3. ASSUME NEW t \in Marks, FindTarget(t) PROVE ReadTypeOK'
    <2>1. CASE Refuse(t, "notfound")
      BY <2>1
    <2>2. ASSUME NEW m \in log, target' = [target EXCEPT ![t] = m], ~Refuse(t, "notfound")
          PROVE  ReadTypeOK'
      BY <1>3, <2>2 DEF FindTarget
    <2>3. QED
      BY <1>3, <2>1, <2>2 DEF FindTarget
  <1>4. ASSUME NEW t \in Marks, Scan(t) PROVE ReadTypeOK'
    <2>1. PICK where \in {"update", "commit"} : pc' = [pc EXCEPT ![t] = where]
      BY <1>4 DEF Scan
    <2>2. QED
      BY <1>4, <2>1 DEF Scan
  <1>5. ASSUME NEW t \in Marks, Update(t) PROVE ReadTypeOK'
    <2>1. PICK b \in BOOLEAN : wrote' = [wrote EXCEPT ![t] = b]
      BY <1>5, Zenon DEF Update
    <2>2. QED
      BY <1>5, <2>1 DEF Update
  <1>6. ASSUME NEW t \in Marks, Commit(t) PROVE ReadTypeOK'
    BY <1>6 DEF Commit, Grounded
  <1>7. ASSUME NEW t \in Marks, Abort(t) PROVE ReadTypeOK'
    BY <1>7 DEF Abort
  <1>8. CASE Write
    BY <1>8, ReadLog DEF Write
  <1>9. ASSUME NEW u \in Readers, Leave(u) PROVE ReadTypeOK'
    BY <1>9 DEF Leave
  <1>10. ASSUME NEW u \in Readers, Join(u) PROVE ReadTypeOK'
    BY <1>10 DEF Join, Grounded
  <1>11. CASE UNCHANGED readVars
    BY <1>11 DEF readVars
  <1>12. QED
    BY <1>1, <1>2, <1>3, <1>4, <1>5, <1>6, <1>7, <1>8, <1>9, <1>10, <1>11, ReadSteps

\* Pointers and marks go on naming messages that are there, and rows only get newer.
LEMMA ReadGrounded ==
  ASSUME ReadInv, [ReadNext]_readVars
  PROVE  Grounded'
  <1> USE ReadAssumption DEF ReadInv, Grounded, ReadTypeOK, members, local,
              GoTo, Phase, Return, Refuse, Readers
  <1>1. ASSUME NEW t \in Marks, Submit(t) PROVE Grounded'
    BY <1>1 DEF Submit
  <1>2. ASSUME NEW t \in Marks, CheckMember(t) PROVE Grounded'
    BY <1>2 DEF CheckMember
  <1>3. ASSUME NEW t \in Marks, FindTarget(t) PROVE Grounded'
    BY <1>3 DEF FindTarget
  <1>4. ASSUME NEW t \in Marks, Scan(t) PROVE Grounded'
    BY <1>4 DEF Scan
  <1>5. ASSUME NEW t \in Marks, Update(t) PROVE Grounded'
    BY <1>5 DEF Update
  <1>6. ASSUME NEW t \in Marks, Commit(t) PROVE Grounded'
    BY <1>6 DEF Commit
  <1>7. ASSUME NEW t \in Marks, Abort(t) PROVE Grounded'
    BY <1>7 DEF Abort
  <1>8. CASE Write
    BY <1>8, ReadLog DEF Write
  <1>9. ASSUME NEW u \in Readers, Leave(u) PROVE Grounded'
    BY <1>9 DEF Leave
  <1>10. ASSUME NEW u \in Readers, Join(u) PROVE Grounded'
    BY <1>10 DEF Join
  <1>11. CASE UNCHANGED readVars
    BY <1>11 DEF readVars
  <1>12. QED
    BY <1>1, <1>2, <1>3, <1>4, <1>5, <1>6, <1>7, <1>8, <1>9, <1>10, <1>11, ReadSteps

\* The writer of a row is alone, and its message is not before the pointer.
LEMMA ReadWriters ==
  ASSUME ReadInv, [ReadNext]_readVars
  PROVE  WriterInv'
  <1> USE ReadAssumption DEF ReadInv, WriterInv, ReadTypeOK, members, local,
              GoTo, Phase, Return, Refuse, Readers
  <1>1. ASSUME NEW t \in Marks, Submit(t) PROVE WriterInv'
    BY <1>1 DEF Submit
  <1>2. ASSUME NEW t \in Marks, CheckMember(t) PROVE WriterInv'
    BY <1>2 DEF CheckMember
  <1>3. ASSUME NEW t \in Marks, FindTarget(t) PROVE WriterInv'
    BY <1>3 DEF FindTarget
  <1>4. ASSUME NEW t \in Marks, Scan(t) PROVE WriterInv'
    BY <1>4 DEF Scan
  <1>5. ASSUME NEW t \in Marks, Update(t) PROVE WriterInv'
    BY <1>5 DEF Update, Locked, MayMove
  <1>6. ASSUME NEW t \in Marks, Commit(t) PROVE WriterInv'
    BY <1>6 DEF Commit
  <1>7. ASSUME NEW t \in Marks, Abort(t) PROVE WriterInv'
    BY <1>7 DEF Abort
  <1>8. CASE Write
    BY <1>8, ReadLog DEF Write
  <1>9. ASSUME NEW u \in Readers, Leave(u) PROVE WriterInv'
    BY <1>9 DEF Leave, Locked
  <1>10. ASSUME NEW u \in Readers, Join(u) PROVE WriterInv'
    BY <1>10 DEF Join
  <1>11. CASE UNCHANGED readVars
    BY <1>11 DEF readVars
  <1>12. QED
    BY <1>1, <1>2, <1>3, <1>4, <1>5, <1>6, <1>7, <1>8, <1>9, <1>10, <1>11, ReadSteps

\* What a commit does to a read pointer: it goes to a message that is not before it.
LEMMA ReadMoves ==
  ASSUME ReadInv, NEW t \in Marks, Commit(t),
         NEW u \in Readers, pointer[u] # None
  PROVE  /\ pointer[u] \in Message /\ pointer'[u] \in Message
         /\ pointer'[u] # None /\ ~Precedes(pointer'[u], pointer[u])
  <1> USE DEF ReadInv, ReadTypeOK, Grounded
  <1>1. pointer[u] \in Message
    OBVIOUS
  <1>2. CASE wrote[t] /\ u = UserOf[t]
    <2>1. target[t] \in Message /\ ~Precedes(target[t], pointer[u])
      BY <1>2 DEF WriterInv
    <2>2. pointer'[u] = target[t]
      BY <1>2 DEF Commit
    <2>3. QED
      BY <1>1, <2>1, <2>2, ReadAssumption
  <1>3. CASE ~(wrote[t] /\ u = UserOf[t])
    <2>1. pointer'[u] = pointer[u]
      BY <1>3 DEF Commit
    <2>2. QED
      BY <1>1, <2>1, PointerOrder
  <1>4. QED
    BY <1>2, <1>3

\* What outdoes a mark stays: the pointer only moves on, the messages are not fewer.
LEMMA ReadOutdone ==
  ASSUME ReadInv, [ReadNext]_readVars
  PROVE  OutdoneInv'
  <1> USE ReadAssumption DEF ReadInv, OutdoneInv, ReadTypeOK, members, local,
              GoTo, Phase, Return, Refuse, Readers
  <1>1. ASSUME NEW t \in Marks, Submit(t) PROVE OutdoneInv'
    BY <1>1 DEF Submit
  <1>2. ASSUME NEW t \in Marks, CheckMember(t) PROVE OutdoneInv'
    BY <1>2 DEF CheckMember
  <1>3. ASSUME NEW t \in Marks, FindTarget(t) PROVE OutdoneInv'
    BY <1>3 DEF FindTarget
  <1>4. ASSUME NEW t \in Marks, Scan(t) PROVE OutdoneInv'
    BY <1>4, PointerOrder DEF Scan, MayMove, Grounded
  <1>5. ASSUME NEW t \in Marks, Update(t) PROVE OutdoneInv'
    BY <1>5, PointerOrder DEF Update, MayMove, Grounded
  <1>6. ASSUME NEW t \in Marks, Commit(t) PROVE OutdoneInv'
    <2> SUFFICES ASSUME NEW s \in Marks, pc'[s] = "commit", ~wrote'[s],
                        UserOf[s] \in roster', joins'[UserOf[s]] = row'[s]
                 PROVE  LET p == pointer'[UserOf[s]]
                        IN p # None /\ \E m \in {target'[s]} \cup (log' \ snap'[s]) : ~Precedes(p, m)
      BY Zenon
    <2>1. s # t /\ pc[s] = "commit" /\ ~wrote[s] /\ UNCHANGED <<target[s], snap[s], row[s], log, joins, roster>>
      BY <1>6 DEF Commit
    <2>2. PICK m \in {target[s]} \cup (log \ snap[s]) :
            pointer[UserOf[s]] # None /\ ~Precedes(pointer[UserOf[s]], m)
      BY <2>1
    <2>3. m \in Message
      BY <2>1 DEF Grounded
    <2>4. pointer'[UserOf[s]] # None /\ ~Precedes(pointer'[UserOf[s]], m)
      BY <1>6, <2>2, <2>3, ReadMoves, PointerOrder
    <2>5. QED
      BY <2>1, <2>4
  <1>7. ASSUME NEW t \in Marks, Abort(t) PROVE OutdoneInv'
    BY <1>7 DEF Abort
  <1>8. CASE Write
    BY <1>8, ReadLog DEF Write
  <1>9. ASSUME NEW u \in Readers, Leave(u) PROVE OutdoneInv'
    BY <1>9 DEF Leave
  <1>10. ASSUME NEW u \in Readers, Join(u) PROVE OutdoneInv'
    BY <1>10 DEF Join, Grounded
  <1>11. CASE UNCHANGED readVars
    BY <1>11 DEF readVars
  <1>12. QED
    BY <1>1, <1>2, <1>3, <1>4, <1>5, <1>6, <1>7, <1>8, <1>9, <1>10, <1>11, ReadSteps

\* In the initial state no request is under way and nothing has been read.
LEMMA InitRead ==
  ASSUME ReadInit
  PROVE  ReadInv
  BY ReadAssumption, LogAssumption DEF ReadInit, LogInit, ReadInv, ReadTypeOK, Grounded, WriterInv,
    OutdoneInv, Phase, Readers, Time

\* Every step keeps the inductive invariant.
LEMMA NextRead ==
  ASSUME ReadInv, [ReadNext]_readVars
  PROVE  ReadInv'
  BY ReadTypes, ReadGrounded, ReadWriters, ReadOutdone DEF ReadInv

\* The inductive invariant holds in every state, whoever marks what when: the statements of
\* MarkRead (message.go:43-67) are separate steps.
THEOREM ReadInvariance == ReadSpec => []ReadInv
  <1>1. ReadInit => ReadInv
    BY InitRead
  <1>2. ReadInv /\ [ReadNext]_readVars => ReadInv'
    BY NextRead
  <1>3. QED
    BY <1>1, <1>2, PTL DEF ReadSpec

-----------------------------------------------------------------------------
(* What the read pointer never does *)

\* While a member keeps its row, its pointer stays or moves on.
LEMMA PointerStep ==
  ASSUME ReadInv, [ReadNext]_readVars,
         NEW u \in Readers, u \in roster', joins'[u] = joins[u], pointer[u] # None
  PROVE  /\ pointer[u] \in Message /\ pointer'[u] \in Message
         /\ pointer'[u] # None /\ ~Precedes(pointer'[u], pointer[u])
  <1>1. pointer[u] \in Message /\ joins[u] \in Nat
    BY ReadAssumption DEF ReadInv, ReadTypeOK
  <1>2. CASE \E t \in Marks : Commit(t)
    BY <1>2, ReadMoves
  <1>3. CASE pointer'[u] = pointer[u]
    BY <1>1, <1>3, PointerOrder
  <1>4. (\E t \in Marks : Commit(t)) \/ pointer'[u] = pointer[u]
    <2> USE DEF members, local, Refuse, ReadInv, ReadTypeOK
    <2>1. ASSUME NEW t \in Marks, Submit(t) \/ CheckMember(t) \/ FindTarget(t)
                                  \/ Scan(t) \/ Update(t) \/ Abort(t)
          PROVE  pointer' = pointer
      BY <2>1 DEF Submit, CheckMember, FindTarget, Scan, Update, Abort
    <2>2. CASE Write
      BY <2>2 DEF Write
    <2>3. ASSUME NEW v \in Readers, Leave(v) PROVE pointer'[u] = pointer[u]
      BY <2>3 DEF Leave
    <2>4. ASSUME NEW v \in Readers, Join(v) PROVE pointer' = pointer
      BY <2>4 DEF Join
    <2>5. CASE UNCHANGED readVars
      BY <2>5 DEF readVars
    <2>6. QED
      BY <2>1, <2>2, <2>3, <2>4, <2>5, ReadSteps
  <1>5. QED
    BY <1>2, <1>3, <1>4

\* However many devices a user has, the pointer of a row never moves back: the UPDATE's
\* condition (message.go:60-64) is evaluated again on the row it waited for.
THEOREM PointerNeverBack == ReadSpec => NeverBack
  <1>1. ASSUME ReadInv, [ReadNext]_readVars
        PROVE  \A u \in Readers : u \in roster' /\ joins'[u] = joins[u] /\ pointer[u] # None =>
                 pointer'[u] # None /\ ~Precedes(pointer'[u], pointer[u])
    BY <1>1, PointerStep
  <1>2. QED
    BY <1>1, ReadInvariance, PTL DEF ReadSpec, NeverBack

\* A mark answered with success has moved the pointer to its message, or the pointer was
\* already as far on as that or as a message that the mark could not yet see
\* (service.go:130-143).
THEOREM AnsweredMarkCounts == ReadSpec => MarkCounts
  <1>1. ASSUME ReadInv, [ReadNext]_readVars, NEW t \in Marks, pc[t] = "commit", answer'[t] = "ok"
        PROVE  LET p == pointer'[UserOf[t]]
               IN \/ UserOf[t] \notin roster \/ joins[UserOf[t]] # row[t]
                  \/ p # None /\ \E m \in {target[t]} \cup (log \ snap[t]) : ~Precedes(p, m)
    <2> USE DEF ReadInv, ReadTypeOK, Grounded
    <2>1. Commit(t)
      <3> USE DEF members, local, Refuse
      <3>1. answer'[t] # answer[t]
        BY <1>1
      <3>2. ASSUME NEW s \in Marks, Submit(s) \/ CheckMember(s) \/ FindTarget(s)
                                    \/ Scan(s) \/ Update(s) \/ Abort(s)
            PROVE  FALSE
        BY <1>1, <3>1, <3>2 DEF Submit, CheckMember, FindTarget, Scan, Update,
           Abort
      <3>3. ~Write /\ ~UNCHANGED readVars
        BY <3>1 DEF Write, readVars
      <3>4. ASSUME NEW v \in Readers PROVE ~Leave(v) /\ ~Join(v)
        BY <3>1 DEF Leave, Join
      <3>5. PICK s \in Marks : Commit(s)
        BY <1>1, <3>2, <3>3, <3>4, ReadSteps
      <3>6. s = t
        BY <3>1, <3>5 DEF Commit
      <3>7. QED
        BY <3>5, <3>6
    <2>2. UserOf[t] \in Readers
      BY DEF Readers
    <2>3. CASE wrote[t]
      <3>1. pointer'[UserOf[t]] = target[t] /\ target[t] \in Message
        BY <1>1, <2>1, <2>2, <2>3 DEF Commit
      <3>2. target[t] # None /\ ~Precedes(target[t], target[t])
        BY <3>1, PointerOrder, ReadAssumption
      <3>3. QED
        BY <3>1, <3>2
    <2>4. CASE ~wrote[t]
      <3>1. pointer' = pointer
        BY <2>1, <2>4 DEF Commit
      <3>2. QED
        BY <1>1, <2>4, <3>1 DEF OutdoneInv
    <2>5. QED
      BY <2>3, <2>4
  <1>2. ASSUME ReadInv, [ReadNext]_readVars
        PROVE  \A t \in Marks : pc[t] = "commit" /\ answer'[t] = "ok" =>
                 LET p == pointer'[UserOf[t]]
                 IN \/ UserOf[t] \notin roster \/ joins[UserOf[t]] # row[t]
                    \/ p # None /\ \E m \in {target[t]} \cup (log \ snap[t]) : ~Precedes(p, m)
    BY <1>1, <1>2, Zenon
  <1>3. QED
    BY <1>2, ReadInvariance, PTL DEF ReadSpec, MarkCounts

\* The messages that are there are finitely many: they appear one by one.
LEMMA FiniteLog == ReadSpec => []IsFiniteSet(log)
  <1>1. ReadInit => IsFiniteSet(log)
    BY FS_EmptySet DEF ReadInit, LogInit
  <1>2. ASSUME IsFiniteSet(log), [ReadNext]_readVars PROVE IsFiniteSet(log)'
    <2> USE DEF members, local, Refuse
    <2>1. ASSUME NEW t \in Marks, Submit(t) \/ CheckMember(t) \/ FindTarget(t) \/ Scan(t)
                                  \/ Update(t) \/ Commit(t) \/ Abort(t)
          PROVE  log' = log
      BY <2>1 DEF Submit, CheckMember, FindTarget, Scan, Update, Commit,
         Abort
    <2>2. CASE Write
      <3>1. log' = log \/ \E m : log' = log \cup {m}
        BY <2>2 DEF Write, LogNext, Tick, Appear
      <3>2. QED
        BY <1>2, <3>1, FS_AddElement
    <2>3. ASSUME NEW u \in Readers, Leave(u) \/ Join(u) PROVE log' = log
      BY <2>3 DEF Leave, Join
    <2>4. CASE UNCHANGED readVars
      BY <2>4, <1>2 DEF readVars
    <2>5. QED
      BY <1>2, <2>1, <2>2, <2>3, <2>4, ReadSteps
  <1>3. QED
    BY <1>1, <1>2, PTL DEF ReadSpec

\* Marking messages read never makes more of them count as unread (conversation.go:332-339).
THEOREM UnreadNeverGrows == ReadSpec => UnreadShrinks
  <1>1. ASSUME ReadInv, IsFiniteSet(log), [ReadNext]_readVars, NEW u \in Readers,
               log' = log, u \in roster', joins'[u] = joins[u]
        PROVE  Unread(u)' <= Unread(u)
    <2> DEFINE Counted == {m \in log : m.sender # u /\ (pointer[u] = None \/ m.at > pointer[u].at)}
               Then == {m \in log : m.sender # u /\ (pointer'[u] = None \/ m.at > pointer'[u].at)}
    <2>1. Unread(u) = Cardinality(Counted) /\ Unread(u)' = Cardinality(Then)
      BY <1>1 DEF Unread
    <2>2. Then \subseteq Counted
      <3>1. CASE pointer[u] = None
        BY <3>1
      <3>2. CASE pointer[u] # None
        <4>1. /\ pointer[u] \in Message /\ pointer'[u] \in Message
              /\ pointer'[u] # None /\ pointer[u].at <= pointer'[u].at
          BY <1>1, <3>2, PointerStep, PointerOrder
        <4>2. \A m \in log : m.at \in Nat
          BY <1>1 DEF ReadInv, ReadTypeOK, Message, Time
        <4>3. pointer[u].at \in Nat /\ pointer'[u].at \in Nat
          BY <4>1 DEF Message, Time
        <4>4. QED
          BY <3>2, <4>1, <4>2, <4>3
      <3>3. QED
        BY <3>1, <3>2
    <2>3. IsFiniteSet(Counted)
      BY <1>1, FS_Subset
    <2>4. Cardinality(Then) <= Cardinality(Counted)
      BY <2>2, <2>3, FS_Subset
    <2>5. QED
      BY <2>1, <2>4
  <1>2. ASSUME ReadInv, IsFiniteSet(log), [ReadNext]_readVars
        PROVE  \A u \in Readers : log' = log /\ u \in roster' /\ joins'[u] = joins[u] =>
                 Unread(u)' <= Unread(u)
    BY <1>1, <1>2
  <1>3. QED
    BY <1>2, ReadInvariance, FiniteLog, PTL DEF ReadSpec, UnreadShrinks
=============================================================================
