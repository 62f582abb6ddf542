------------------------ MODULE MessageHistoryProofs ------------------------
(***************************************************************************)
(* For any clients, page size, messages and order of their appearance:     *)
(* pages backwards skip nothing and repeat nothing, and a synchronization  *)
(* brings what was there from the cursor it began at.                      *)
(***************************************************************************)
EXTENDS MessageHistory, FiniteSetTheorems, TLAPS

-----------------------------------------------------------------------------
(* The order of messages *)

\* No message precedes itself.
LEMMA PrecedesIrreflexive ==
  ASSUME NEW m \in Message
  PROVE  ~Precedes(m, m)
  BY DEF Precedes, Message, Time, MsgIds

\* The order is transitive.
LEMMA PrecedesTransitive ==
  ASSUME NEW l \in Message, NEW m \in Message, NEW n \in Message,
         Precedes(l, m), Precedes(m, n)
  PROVE  Precedes(l, n)
  <1>1. /\ l.at \in Nat /\ m.at \in Nat /\ n.at \in Nat
        /\ l.id \in Nat /\ m.id \in Nat /\ n.id \in Nat
    BY DEF Message, Time, MsgIds
  <1>2. QED
    BY <1>1 DEF Precedes

\* Messages with distinct ids are ordered one way or the other.
LEMMA PrecedesTotal ==
  ASSUME NEW m \in Message, NEW n \in Message, m.id # n.id
  PROVE  Precedes(m, n) \/ Precedes(n, m)
  <1>1. /\ m.at \in Nat /\ n.at \in Nat /\ m.id \in Nat /\ n.id \in Nat
    BY DEF Message, Time, MsgIds
  <1>2. QED
    BY <1>1 DEF Precedes

-----------------------------------------------------------------------------
(* Pages *)

\* A page that leaves something out is full, hence not empty.
LEMMA CutPageNotEmpty ==
  ASSUME NEW S, NEW P \in SUBSET S, PageSize(P, S), P # S
  PROVE  P # {}
  BY FS_EmptySet, HistoryAssumption DEF PageSize

\* A page is finite: the SELECT has a LIMIT.
LEMMA PageIsFinite ==
  ASSUME NEW S, NEW P \in SUBSET S, IsFiniteSet(S)
  PROVE  IsFiniteSet(P) /\ Cardinality(P) \in Nat
  BY FS_Subset, FS_CardinalityType

\* What a page of the newest leaves out precedes the cursor to go on from.
LEMMA CutOffIsOlder ==
  ASSUME NEW S, NEW P \in SUBSET S, Newest(P, S), NEW c, NextCursor(P, S, c), P # S,
         NEW m \in S \ P
  PROVE  Precedes(m, c)
  BY DEF Newest, NextCursor, IsFirst

\* Pages without a message in common add up.
LEMMA DisjointUnion ==
  ASSUME NEW S, NEW T, IsFiniteSet(S), IsFiniteSet(T), S \cap T = {}
  PROVE  Cardinality(S \cup T) = Cardinality(S) + Cardinality(T)
  <1>1. Cardinality(S \cup T) = Cardinality(S) + Cardinality(T) - Cardinality(S \cap T)
    BY FS_Union
  <1>2. Cardinality(S \cap T) = 0
    BY FS_EmptySet
  <1>3. Cardinality(S) \in Nat /\ Cardinality(T) \in Nat
    BY FS_CardinalityType
  <1>4. QED
    BY <1>1, <1>2, <1>3

\* The invariant starts true.
LEMMA InitIInv == Init => IInv
  <1> SUFFICES ASSUME Init PROVE IInv
    OBVIOUS
  <1> USE DEF Init, LogInit
  <1>1. TypeOK
    BY LogAssumption DEF TypeOK, Kind, Cursor, Time
  <1>2. Grounded
    BY FS_EmptySet DEF Grounded
  <1>3. WalkedToCursor /\ NothingSkipped /\ SyncedUpTo
    BY DEF WalkedToCursor, NothingSkipped, SyncedUpTo
  <1>4. NothingRepeated
    BY FS_EmptySet DEF NothingRepeated
  <1>5. QED
    BY <1>1, <1>2, <1>3, <1>4 DEF IInv

\* Steps that change neither the log nor what clients know keep the invariant when they
\* only start a request for a cursor the client has.
LEMMA QuietStep ==
  ASSUME IInv, TypeOK', UNCHANGED <<log, known, history>>,
         \A c \in Clients : pc'[c] # "idle" =>
           /\ kind'[c] = "older" => older[c] # None
           /\ kind'[c] = "sync" => sync[c] # None
  PROVE  IInv'
  <1> USE DEF known, history, IInv
  <1>1. Grounded'
    BY DEF Grounded
  <1>2. (WalkedToCursor /\ NothingSkipped /\ SyncedUpTo)'
    BY DEF WalkedToCursor, NothingSkipped, SyncedUpTo
  <1>3. NothingRepeated'
    BY DEF NothingRepeated
  <1>4. QED
    BY <1>1, <1>2, <1>3

\* Every step keeps the types.
LEMMA StepType ==
  ASSUME TypeOK, IsFiniteSet(log), [Next]_vars
  PROVE  TypeOK'
  <1> USE DEF TypeOK, request, known, history
  <1>1. ASSUME NEW c \in Clients, Request(c) PROVE TypeOK'
    BY <1>1 DEF Request
  <1>2. ASSUME NEW c \in Clients, CheckMember(c) PROVE TypeOK'
    BY <1>2 DEF CheckMember
  <1>3. ASSUME NEW c \in Clients, FirstPage(c) PROVE TypeOK'
    <2>1. PICK P \in SUBSET log :
            /\ \E m \in log \cup {None} : older' = [older EXCEPT ![c] = m]
            /\ \E m \in P \cup {None} :
                 sync' = [sync EXCEPT ![c] = m] /\ from' = [from EXCEPT ![c] = m]
            /\ walked' = [walked EXCEPT ![c] = P]
            /\ count' = [count EXCEPT ![c] = Cardinality(P)]
            /\ got' = [got EXCEPT ![c] = P]
      BY <1>3 DEF FirstPage
    <2>2. Cardinality(P) \in Nat
      BY PageIsFinite
    <2>3. QED
      BY <1>3, <2>1, <2>2 DEF FirstPage, Answered, Cursor
  <1>4. ASSUME NEW c \in Clients, OlderPage(c) PROVE TypeOK'
    <2>1. PICK P \in SUBSET log :
            /\ \E m \in log \cup {None} : older' = [older EXCEPT ![c] = m]
            /\ walked' = [walked EXCEPT ![c] = @ \cup P]
            /\ count' = [count EXCEPT ![c] = @ + Cardinality(P)]
            /\ got' = [got EXCEPT ![c] = @ \cup P]
      BY <1>4 DEF OlderPage
    <2>2. Cardinality(P) \in Nat
      BY PageIsFinite
    <2>3. QED
      BY <1>4, <2>1, <2>2 DEF OlderPage, Answered, Cursor
  <1>5. ASSUME NEW c \in Clients, SyncPage(c) PROVE TypeOK'
    <2>1. PICK P \in SUBSET log :
            /\ \E m \in P \cup {sync[c]} : sync' = [sync EXCEPT ![c] = m]
            /\ \E b \in BOOLEAN : more' = [more EXCEPT ![c] = b]
            /\ got' = [got EXCEPT ![c] = @ \cup P]
      BY <1>5 DEF SyncPage
    <2>2. QED
      BY <1>5, <2>1 DEF SyncPage, Answered, Cursor
  <1>6. CASE Write
    BY <1>6, LogAssumption DEF Write, LogNext, Tick, Appear, Time
  <1>7. ASSUME NEW u \in Users, Join(u) \/ Leave(u) PROVE TypeOK'
    BY <1>7 DEF Join, Leave
  <1>8. CASE UNCHANGED vars
    BY <1>8 DEF vars
  <1>9. QED
    BY <1>1, <1>2, <1>3, <1>4, <1>5, <1>6, <1>7, <1>8 DEF Next

\* A message that appears is known to nobody yet.
LEMMA WriteStep ==
  ASSUME IInv, TypeOK', Write
  PROVE  IInv'
  <1> USE DEF known, history, request, IInv
  <1>1. UNCHANGED <<request, known, history>>
    BY DEF Write
  <1>2. CASE Tick
    BY <1>1, <1>2, QuietStep DEF Tick, Grounded
  <1>3. ASSUME NEW m \in Message, Appear(m) PROVE IInv'
    <2>1. log' = log \cup {m} /\ \A n \in log : m.id # n.id
      BY <1>3 DEF Appear, Fresh
    <2>2. IsFiniteSet(log')
      BY <2>1, FS_AddElement DEF Grounded
    <2>3. \A k, n \in log' : k.id = n.id => k = n
      BY <2>1 DEF Grounded
    <2>4. Grounded'
      BY <1>1, <2>1, <2>2, <2>3 DEF Grounded
    <2>5. (WalkedToCursor /\ NothingSkipped /\ SyncedUpTo /\ NothingRepeated)'
      BY <1>1 DEF WalkedToCursor, NothingSkipped, SyncedUpTo, NothingRepeated
    <2>6. QED
      BY <2>4, <2>5
  <1>4. QED
    BY <1>2, <1>3 DEF Write, LogNext

\* The first page starts a walk that has everything down to its cursor, and a
\* synchronization of which nothing is missing yet.
LEMMA FirstPageStep ==
  ASSUME IInv, TypeOK', NEW c \in Clients, FirstPage(c)
  PROVE  IInv'
  <1> USE DEF IInv
  <1>1. PICK P \in SUBSET log, o \in log \cup {None}, m \in log \cup {None} :
          /\ m \in P \cup {None}
          /\ Newest(P, log) /\ NextCursor(P, log, o)
          /\ IF P = {} THEN m = None ELSE IsLast(m, P)
          /\ older' = [older EXCEPT ![c] = o]
          /\ sync' = [sync EXCEPT ![c] = m] /\ from' = [from EXCEPT ![c] = m]
          /\ walked' = [walked EXCEPT ![c] = P] /\ got' = [got EXCEPT ![c] = P]
          /\ count' = [count EXCEPT ![c] = Cardinality(P)]
    BY DEF FirstPage
  <1>2. /\ UNCHANGED log /\ pc' = [pc EXCEPT ![c] = "idle"] /\ UNCHANGED kind
        /\ more' = [more EXCEPT ![c] = FALSE]
        /\ opened' = [opened EXCEPT ![c] = log] /\ seen' = [seen EXCEPT ![c] = log]
    BY DEF FirstPage, Answered
  <1>3. Grounded'
    BY <1>1, <1>2 DEF Grounded, TypeOK
  <1>4. WalkedToCursor'
    <2>1. o # None => \A n \in P : ~Precedes(n, o)
      BY <1>1 DEF NextCursor, IsFirst
    <2>2. QED
      BY <1>1, <2>1 DEF WalkedToCursor, TypeOK
  <1>5. NothingSkipped'
    <2>1. ASSUME NEW n \in log, o = None \/ ~Precedes(n, o)
          PROVE  n \in P
      <3>1. CASE P = log
        BY <3>1
      <3>2. CASE P # log
        <4>1. o # None
          BY <1>1, <3>2, HistoryAssumption DEF NextCursor, IsFirst, TypeOK
        <4>2. QED
          BY <1>1, <2>1, <3>2, <4>1, CutOffIsOlder
      <3>3. QED
        BY <3>1, <3>2
    <2>2. QED
      BY <1>1, <1>2, <2>1 DEF NothingSkipped, TypeOK
  <1>6. NothingRepeated'
    BY <1>1 DEF NothingRepeated, TypeOK
  <1>7. SyncedUpTo'
    <2>1. ASSUME m # None, NEW n \in log, Precedes(m, n)
          PROVE  n \in P
      <3>1. SUFFICES ASSUME n \notin P PROVE FALSE
        OBVIOUS
      <3>2. m \in P /\ Precedes(n, m)
        BY <1>1, <2>1, <3>1 DEF Newest
      <3>3. m \in Message /\ n \in Message
        BY <3>2 DEF TypeOK
      <3>4. QED
        BY <2>1, <3>2, <3>3, PrecedesTransitive, PrecedesIrreflexive
    <2>2. QED
      BY <1>1, <1>2, <2>1 DEF SyncedUpTo, TypeOK
  <1>8. QED
    BY <1>3, <1>4, <1>5, <1>6, <1>7

\* The next page continues the walk where the cursor left it.
LEMMA OlderPageStep ==
  ASSUME IInv, TypeOK', NEW c \in Clients, OlderPage(c)
  PROVE  IInv'
  <1> USE DEF IInv
  <1> DEFINE S == {m \in log : Precedes(m, older[c])}
  <1>1. PICK P \in SUBSET S, o \in S \cup {None} :
          /\ Newest(P, S) /\ NextCursor(P, S, o)
          /\ older' = [older EXCEPT ![c] = o]
          /\ walked' = [walked EXCEPT ![c] = @ \cup P] /\ got' = [got EXCEPT ![c] = @ \cup P]
          /\ count' = [count EXCEPT ![c] = @ + Cardinality(P)]
    BY DEF OlderPage, Before
  <1>2. /\ UNCHANGED <<log, kind, sync, more, opened, from, seen>>
        /\ pc' = [pc EXCEPT ![c] = "idle"]
    BY DEF OlderPage, Answered, history
  <1>3. older[c] # None /\ older[c] \in Message
    BY DEF OlderPage, Answered, Grounded, TypeOK
  <1>4. Grounded'
    BY <1>1, <1>2 DEF Grounded, TypeOK
  <1>5. o # None => o \in P \/ P = S
    BY <1>1 DEF NextCursor, IsFirst
  <1>6. WalkedToCursor'
    <2>1. ASSUME o # None, NEW n \in walked[c] \cup P
          PROVE  ~Precedes(n, o)
      <3>1. o \in P /\ \A m \in P : ~Precedes(m, o)
        BY <1>1, <2>1 DEF NextCursor, IsFirst
      <3>2. CASE n \in walked[c]
        <4>1. ~Precedes(n, older[c]) /\ Precedes(o, older[c])
          BY <1>3, <3>1, <3>2 DEF WalkedToCursor
        <4>2. n \in Message /\ o \in Message
          BY <3>1, <3>2 DEF TypeOK
        <4>3. QED
          BY <1>3, <4>1, <4>2, PrecedesTransitive
      <3>3. QED
        BY <2>1, <3>1, <3>2
    <2>2. QED
      BY <1>1, <2>1 DEF WalkedToCursor, TypeOK
  <1>7. NothingSkipped'
    <2>1. ASSUME NEW n \in opened[c], o = None \/ ~Precedes(n, o)
          PROVE  n \in walked[c] \cup P
      <3>1. n \in log
        BY DEF Grounded
      <3>2. CASE ~Precedes(n, older[c])
        BY <3>2 DEF NothingSkipped
      <3>3. CASE n \in S /\ P = S
        BY <3>3
      <3>4. CASE n \in S /\ P # S
        <4>1. o # None
          BY <1>1, <3>4, HistoryAssumption DEF NextCursor, IsFirst, TypeOK
        <4>2. QED
          BY <1>1, <2>1, <3>4, <4>1, CutOffIsOlder
      <3>5. QED
        BY <3>1, <3>2, <3>3, <3>4
    <2>2. QED
      BY <1>1, <1>2, <2>1 DEF NothingSkipped, TypeOK
  <1>8. NothingRepeated'
    <2>1. walked[c] \cap P = {}
      BY <1>3 DEF WalkedToCursor
    <2>2. IsFiniteSet(walked[c]) /\ IsFiniteSet(P)
      BY FS_Subset DEF Grounded
    <2>3. Cardinality(walked[c] \cup P) = Cardinality(walked[c]) + Cardinality(P)
      BY <2>1, <2>2, DisjointUnion
    <2>4. QED
      BY <1>1, <2>3 DEF NothingRepeated, TypeOK
  <1>9. SyncedUpTo'
    BY <1>1, <1>2 DEF SyncedUpTo, TypeOK
  <1>10. QED
    BY <1>4, <1>6, <1>7, <1>8, <1>9

\* A page forwards continues the synchronization, or starts one at the cursor.
LEMMA SyncPageStep ==
  ASSUME IInv, TypeOK', NEW c \in Clients, SyncPage(c)
  PROVE  IInv'
  <1> USE DEF IInv
  <1> DEFINE S == {m \in log : Precedes(sync[c], m)}
  <1>0. PICK P \in SUBSET S :
          /\ Oldest(P, S)
          /\ \E m \in P \cup {sync[c]} :
               (P # {} => IsLast(m, P)) /\ sync' = [sync EXCEPT ![c] = m]
          /\ more' = [more EXCEPT ![c] = P # S]
          /\ got' = [got EXCEPT ![c] = @ \cup P]
    BY DEF SyncPage, After
  <1>1. PICK m \in P \cup {sync[c]} :
          (P # {} => IsLast(m, P)) /\ sync' = [sync EXCEPT ![c] = m]
    BY <1>0
  <1>2. /\ UNCHANGED <<log, kind, older, walked, count, opened>>
        /\ pc' = [pc EXCEPT ![c] = "idle"]
    BY DEF SyncPage, Answered
  <1>3. \/ more[c] /\ UNCHANGED <<from, seen>>
        \/ ~more[c] /\ from' = [from EXCEPT ![c] = sync[c]]
                    /\ seen' = [seen EXCEPT ![c] = log]
    BY DEF SyncPage
  <1>4. sync[c] # None /\ sync[c] \in log
    BY DEF SyncPage, Answered, Grounded
  <1>5. Grounded'
    BY <1>0, <1>1, <1>2, <1>3, <1>4 DEF Grounded, TypeOK
  <1>6. (WalkedToCursor /\ NothingSkipped /\ NothingRepeated)'
    BY <1>2 DEF WalkedToCursor, NothingSkipped, NothingRepeated
  <1>7. SyncedUpTo'
    <2>1. ASSUME NEW n \in S, P = S \/ ~Precedes(m, n)
          PROVE  n \in P
      <3>1. SUFFICES ASSUME n \notin P PROVE FALSE
        OBVIOUS
      <3>2. P # S /\ PageSize(P, S)
        BY <1>0, <3>1 DEF Oldest
      <3>3. P # {}
        BY <3>2, CutPageNotEmpty
      <3>4. m \in P /\ Precedes(m, n)
        BY <1>0, <1>1, <3>1, <3>3 DEF Oldest, IsLast
      <3>5. QED
        BY <2>1, <3>2, <3>4
    <2>2. ASSUME NEW n \in log, Precedes(from'[c], n), P = S \/ ~Precedes(m, n), n \in seen'[c]
          PROVE  n \in got[c] \cup P
      <3>1. CASE Precedes(sync[c], n)
        BY <2>1, <2>2, <3>1
      <3>2. CASE more[c] /\ ~Precedes(sync[c], n)
        BY <1>3, <1>4, <2>2, <3>2 DEF SyncedUpTo
      <3>3. CASE ~more[c]
        BY <1>3, <2>1, <2>2, <3>3 DEF TypeOK
      <3>4. QED
        BY <3>1, <3>2, <3>3
    <2>3. seen'[c] \subseteq log
      BY <1>3 DEF Grounded, TypeOK
    <2>4. ASSUME NEW d \in Clients, d # c, sync'[d] # None, NEW n \in seen'[d],
                 Precedes(from'[d], n), ~more'[d] \/ ~Precedes(sync'[d], n)
          PROVE  n \in got'[d]
      <3>1. /\ sync'[d] = sync[d] /\ more'[d] = more[d] /\ got'[d] = got[d]
            /\ from'[d] = from[d] /\ seen'[d] = seen[d]
        BY <1>0, <1>1, <1>3, <2>4 DEF TypeOK
      <3>2. QED
        BY <2>4, <3>1 DEF SyncedUpTo
    <2>5. ASSUME NEW n \in seen'[c],
                 Precedes(from'[c], n), ~more'[c] \/ ~Precedes(sync'[c], n)
          PROVE  n \in got'[c]
      <3>1. sync'[c] = m /\ more'[c] = (P # S) /\ got'[c] = got[c] \cup P
        BY <1>0, <1>1 DEF TypeOK
      <3>2. QED
        BY <2>2, <2>3, <2>5, <3>1
    <2>6. QED
      BY <2>4, <2>5 DEF SyncedUpTo
  <1>8. QED
    BY <1>5, <1>6, <1>7

-----------------------------------------------------------------------------
(* The theorems *)

\* The invariant is inductive.
LEMMA NextIInv == IInv /\ [Next]_vars => IInv'
  <1> SUFFICES ASSUME IInv, [Next]_vars PROVE IInv'
    OBVIOUS
  <1>1. TypeOK'
    BY StepType DEF IInv, Grounded
  <1>2. ASSUME NEW c \in Clients, Request(c) \/ CheckMember(c) PROVE IInv'
    <2>1. \A d \in Clients : pc'[d] # "idle" =>
            /\ kind'[d] = "older" => older[d] # None
            /\ kind'[d] = "sync" => sync[d] # None
      BY <1>2 DEF IInv, TypeOK, Grounded, Request, CheckMember
    <2>2. QED
      BY <1>1, <1>2, <2>1, QuietStep DEF Request, CheckMember
  <1>3. ASSUME NEW c \in Clients, FirstPage(c) \/ OlderPage(c) \/ SyncPage(c) PROVE IInv'
    BY <1>1, <1>3, FirstPageStep, OlderPageStep, SyncPageStep
  <1>4. CASE Write
    BY <1>1, <1>4, WriteStep
  <1>5. ASSUME UNCHANGED <<log, request, known, history>> PROVE IInv'
    BY <1>1, <1>5, QuietStep DEF request, IInv, Grounded
  <1>6. QED
    BY <1>2, <1>3, <1>4, <1>5 DEF Next, Join, Leave, vars

\* What every page read relies on is true whenever it is read.
THEOREM HistoryInvariance == Spec => []IInv
  BY InitIInv, NextIInv, PTL DEF Spec

\* Variables keep their types, for any clients, page size and messages.
THEOREM HistoryTypes == Spec => []TypeOK
  BY HistoryInvariance, PTL DEF IInv

\* Paging backwards misses nothing that was there at the first page.
THEOREM WalkSkipsNothing == Spec => []NothingSkipped
  BY HistoryInvariance, PTL DEF IInv

\* Paging backwards brings no message twice.
THEOREM WalkRepeatsNothing == Spec => []NothingRepeated
  BY HistoryInvariance, PTL DEF IInv

\* A synchronization brings everything that was there from its cursor on.
THEOREM SyncBringsRange == Spec => []SyncedUpTo
  BY HistoryInvariance, PTL DEF IInv
=============================================================================
