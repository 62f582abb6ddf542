-------------------------- MODULE AppSessionProofs --------------------------
(***************************************************************************)
(* For any number of tokens, calls, requests and faults: what refreshes    *)
(* and logouts that overlap do to the tokens of a login, and what the app  *)
(* holds of them.                                                          *)
(***************************************************************************)
EXTENDS AppSession, FiniteSetTheorems, SequenceTheorems, TLAPS

USE DEF Caller, Mishap

-----------------------------------------------------------------------------
(* The server *)

LEMMA FiniteTokens == ASSUME NEW S \in SUBSET Token PROVE IsFiniteSet(S) /\ Cardinality(S) \in Nat
  <1>1. IsFiniteSet(Token)
    BY TokenAssumption, FS_Interval DEF Token
  <1>2. QED
    BY <1>1, FS_Subset, FS_CardinalityType

LEMMA FreshIsNew ==
  ASSUME InOrder
  PROVE  Fresh \in Nat /\ Fresh \notin Issued /\ Issued \cup {Fresh} = 1 .. Fresh
  <1>1. Issued \in SUBSET Token
    BY DEF Issued
  <1>2. Cardinality(Issued) \in Nat
    BY <1>1, FiniteTokens
  <1>3. QED
    BY <1>2 DEF InOrder, Fresh

LEMMA StaysInOrder ==
  ASSUME InOrder, Issued' = Issued \/ (Fresh \in Token /\ Issued' = Issued \cup {Fresh})
  PROVE  InOrder'
  <1>1. CASE Issued' = Issued
    BY <1>1 DEF InOrder
  <1>2. CASE Fresh \in Token /\ Issued' = Issued \cup {Fresh}
    <2>1. IsFiniteSet(Issued) /\ Cardinality(Issued) \in Nat
      BY FiniteTokens DEF Issued
    <2>2. Cardinality(Issued \cup {Fresh}) = Fresh
      BY <2>1, FreshIsNew, FS_AddElement DEF Fresh
    <2>3. QED
      BY <1>2, <2>2, FreshIsNew DEF InOrder
  <1>3. QED
    BY <1>1, <1>2

\* A call that changes no rows: it arrives, finds, waits for the row or is refused.
LEMMA NoRowsKeep ==
  ASSUME ServerInv, NEW c \in Call, UNCHANGED <<row, root, granted>>,
         Find(c) \/ Revoke(c) \/ Refuse(c)
  PROVE  ServerInv'
  <1> USE DEF Find, Revoke, Refuse, GoTo
  <1>1. UNCHANGED <<row, root, granted, kind, asked>>
    BY DEF rows
  <1>2. ServerTypeOK'
    BY <1>1 DEF ServerInv, ServerTypeOK
  <1>3. Issued' = Issued
    BY <1>1 DEF Issued
  <1>4. InOrder' /\ Lineage'
    BY <1>1, <1>3 DEF ServerInv, InOrder, Lineage
  <1>5. \E p \in {"update", "commit", "refused"} : pc' = [pc EXCEPT ![c] = p]
    OBVIOUS
  <1>6. ASSUME NEW d \in Call PROVE CallInv(d)'
    BY <1>1, <1>3 DEF ServerInv, ServerTypeOK, CallInv, Locked, Open, Ended
  <1>7. LogoutFinal'
    BY <1>1, <1>5 DEF ServerInv, ServerTypeOK, LogoutFinal, Descendants
  <1>8. QED
    BY <1>2, <1>4, <1>6, <1>7 DEF ServerInv

LEMMA RotateKeeps ==
  ASSUME ServerInv, NEW c \in Call, Rotate(c)
  PROVE  ServerInv'
  <1>1. /\ Fresh \in Token /\ Fresh \notin Issued /\ asked[c] \in Issued /\ row[asked[c]] = "active"
        /\ kind[c] = "refresh" /\ root[asked[c]] \in Issued /\ pc[c] = "commit"
    BY FreshIsNew, TokenAssumption DEF ServerInv, Rotate, CallInv, Lineage, Issued, Token
  <1>2. /\ row' = [row EXCEPT ![asked[c]] = "revoked", ![Fresh] = "active"]
        /\ root' = [root EXCEPT ![Fresh] = root[asked[c]]]
        /\ granted' = [granted EXCEPT ![c] = Fresh]
        /\ pc' = [pc EXCEPT ![c] = "ok"]
        /\ UNCHANGED <<kind, asked>>
    BY DEF Rotate, GoTo
  <1>3. ServerTypeOK'
    <2>1. \A t \in Token : root'[t] = None <=> row'[t] = "none"
      BY <1>1, <1>2, TokenAssumption DEF ServerInv, ServerTypeOK, Token, Issued
    <2>2. QED
      BY <1>1, <1>2, <2>1 DEF ServerInv, ServerTypeOK, Issued
  <1>4. Issued' = Issued \cup {Fresh}
    BY <1>1, <1>2 DEF ServerInv, ServerTypeOK, Issued
  <1>5. InOrder'
    BY <1>1, <1>4, StaysInOrder DEF ServerInv
  <1>6. Lineage'
    BY <1>1, <1>2, <1>4 DEF ServerInv, ServerTypeOK, Lineage, Issued
  <1>7. ASSUME NEW d \in Call PROVE CallInv(d)'
    <2>1. Fresh # None /\ (\A e \in Call : granted[e] # Fresh)
      BY <1>1, TokenAssumption DEF ServerInv, CallInv, Token
    <2>2. /\ granted'[c] = Fresh /\ pc'[c] = "ok"
          /\ \A e \in Call \ {c} : granted'[e] = granted[e] /\ pc'[e] = pc[e]
      BY <1>2 DEF ServerInv, ServerTypeOK
    <2>3. \A e \in Call \ {c} : pc[e] = "commit" => row'[asked[e]] = "active"
      <3> SUFFICES ASSUME NEW e \in Call \ {c}, pc[e] = "commit" PROVE row'[asked[e]] = "active"
        OBVIOUS
      <3>1. asked[e] # asked[c] /\ row[asked[e]] = "active" /\ asked[e] \in Issued
        <4>1. CallInv(e) /\ CallInv(c)
          BY DEF ServerInv
        <4>2. pc[c] = "commit"
          BY <1>1
        <4>3. QED
          BY <4>1, <4>2 DEF CallInv
      <3>2. QED
        <4>1. asked[e] \in DOMAIN row /\ asked[e] # Fresh
          BY <1>1, <3>1 DEF ServerInv, ServerTypeOK, Issued
        <4>2. QED
          BY <1>2, <3>1, <4>1
    <2>4. CASE d = c
      BY <1>1, <1>2, <1>4, <2>1, <2>2, <2>4 DEF ServerInv, CallInv
    <2>5. CASE d # c
      <3>1. CallInv(d)
        BY DEF ServerInv
      <3>2. /\ granted'[d] = granted[d] /\ pc'[d] = pc[d] /\ UNCHANGED <<kind, asked>>
            /\ pc[d] = "commit" => row'[asked[d]] = "active"
        BY <1>2, <2>2, <2>3, <2>5
      <3>3. ASSUME NEW e \in Call \ {d}
            PROVE  /\ pc'[d] = "commit" /\ pc'[e] = "commit" => asked[d] # asked[e]
                   /\ granted'[d] # None => granted'[d] # granted'[e]
        BY <2>1, <2>2, <3>1, <3>2 DEF CallInv
      <3>4. QED
        BY <1>4, <3>1, <3>2, <3>3 DEF CallInv
    <2>6. QED
      BY <2>4, <2>5
  <1>8. LogoutFinal'
    BY <1>1, <1>2 DEF ServerInv, ServerTypeOK, LogoutFinal, Descendants, CallInv, Lineage, Issued
  <1>9. QED
    BY <1>3, <1>5, <1>6, <1>7, <1>8 DEF ServerInv

LEMMA InsertKeeps ==
  ASSUME ServerInv, NEW c \in Call, Insert(c)
  PROVE  ServerInv'
  <1>1. Fresh \in Token /\ Fresh \notin Issued /\ kind[c] = "login" /\ pc[c] = "insert"
    BY FreshIsNew DEF ServerInv, Insert, CallInv
  <1>2. /\ row' = [row EXCEPT ![Fresh] = "active"]
        /\ root' = [root EXCEPT ![Fresh] = Fresh]
        /\ granted' = [granted EXCEPT ![c] = Fresh]
        /\ pc' = [pc EXCEPT ![c] = "ok"]
        /\ UNCHANGED <<kind, asked>>
    BY DEF Insert, GoTo
  <1>3. ServerTypeOK'
    <2>1. \A t \in Token : root'[t] = None <=> row'[t] = "none"
      BY <1>1, <1>2, TokenAssumption DEF ServerInv, ServerTypeOK, Token, Issued
    <2>2. QED
      BY <1>1, <1>2, <2>1 DEF ServerInv, ServerTypeOK, Issued
  <1>4. Issued' = Issued \cup {Fresh}
    BY <1>1, <1>2 DEF ServerInv, ServerTypeOK, Issued
  <1>5. InOrder'
    BY <1>1, <1>4, StaysInOrder DEF ServerInv
  <1>6. Lineage'
    BY <1>1, <1>2, <1>4 DEF ServerInv, ServerTypeOK, Lineage, Issued
  <1>7. ASSUME NEW d \in Call PROVE CallInv(d)'
    <2>1. Fresh # None /\ (\A e \in Call : granted[e] # Fresh)
      BY <1>1, TokenAssumption DEF ServerInv, CallInv, Token
    <2>2. /\ granted'[c] = Fresh /\ pc'[c] = "ok"
          /\ \A e \in Call \ {c} : granted'[e] = granted[e] /\ pc'[e] = pc[e]
      BY <1>2 DEF ServerInv, ServerTypeOK
    <2>3. \A e \in Call \ {c} : pc[e] = "commit" => row'[asked[e]] = "active"
      BY <1>1, <1>2 DEF ServerInv, ServerTypeOK, CallInv, Issued
    <2>4. CASE d = c
      BY <1>1, <1>2, <1>4, <2>1, <2>2, <2>4 DEF ServerInv, CallInv
    <2>5. CASE d # c
      BY <1>1, <1>2, <1>4, <2>1, <2>2, <2>3, <2>5 DEF ServerInv, CallInv
    <2>6. QED
      BY <2>4, <2>5
  <1>8. LogoutFinal'
    BY <1>1, <1>2 DEF ServerInv, ServerTypeOK, LogoutFinal, Descendants, CallInv, Lineage, Issued
  <1>9. QED
    BY <1>3, <1>5, <1>6, <1>7, <1>8 DEF ServerInv

LEMMA RevokeOnlyKeeps ==
  ASSUME ServerInv, NEW c \in Call, RevokeOnly(c)
  PROVE  ServerInv'
  <1>1. asked[c] \in Issued /\ kind[c] = "logout" /\ pc[c] = "revoke" /\ ~Locked(asked[c])
    BY DEF ServerInv, RevokeOnly, CallInv
  <1>2. UNCHANGED <<root, kind, asked, granted>>
    BY DEF RevokeOnly
  <1>3. CASE row[asked[c]] = "active"
    <2>1. row' = [row EXCEPT ![asked[c]] = "revoked"] /\ pc' = [pc EXCEPT ![c] = "ok"]
      BY <1>3 DEF RevokeOnly, GoTo
    <2>2. ServerTypeOK'
      BY <1>1, <1>2, <1>3, <2>1 DEF ServerInv, ServerTypeOK, Issued
    <2>3. Issued' = Issued
      BY <1>1, <2>1 DEF ServerInv, ServerTypeOK, Issued
    <2>4. InOrder' /\ Lineage'
      <3>1. InOrder'
        BY <2>3, StaysInOrder DEF ServerInv
      <3>2. Lineage'
        BY <1>1, <1>2, <2>1, <2>3 DEF ServerInv, ServerTypeOK, Lineage, Issued
      <3>3. QED
        BY <3>1, <3>2
    <2>5. ASSUME NEW d \in Call PROVE CallInv(d)'
      BY <1>1, <1>2, <2>1, <2>3 DEF ServerInv, ServerTypeOK, CallInv, Issued, Locked
    <2>6. LogoutFinal'
      BY <1>1, <1>2, <1>3, <2>1 DEF ServerInv, ServerTypeOK, LogoutFinal, Descendants, Lineage, Issued
    <2>7. QED
      BY <2>2, <2>4, <2>5, <2>6 DEF ServerInv
  <1>4. CASE row[asked[c]] # "active"
    <2>1. row' = row /\ pc' = [pc EXCEPT ![c] = "refused"]
      BY <1>4 DEF RevokeOnly, GoTo
    <2>2. ServerTypeOK' /\ Issued' = Issued
      BY <1>2, <2>1 DEF ServerInv, ServerTypeOK, Issued
    <2>3. InOrder' /\ Lineage'
      BY <1>2, <2>1, <2>2 DEF ServerInv, InOrder, Lineage
    <2>4. ASSUME NEW d \in Call PROVE CallInv(d)'
      BY <1>1, <1>2, <2>1, <2>2 DEF ServerInv, ServerTypeOK, CallInv
    <2>5. LogoutFinal'
      BY <1>2, <2>1 DEF ServerInv, ServerTypeOK, LogoutFinal, Descendants
    <2>6. QED
      BY <2>2, <2>3, <2>4, <2>5 DEF ServerInv
  <1>5. QED
    BY <1>3, <1>4

LEMMA ServerKeeps ==
  ASSUME ServerInv, NEW c \in Call, Statement(c) \/ Refuse(c)
  PROVE  ServerInv'
  BY NoRowsKeep, RotateKeeps, InsertKeeps, RevokeOnlyKeeps
  DEF Statement, Find, Revoke, Refuse, rows

LEMMA ArriveKeeps ==
  ASSUME ServerInv, NEW c \in Call, NEW what \in {"login", "refresh", "logout"}, NEW t, Arrive(c, what, t),
         IF what = "login" THEN t = None ELSE t \in Issued
  PROVE  ServerInv'
  <1>1. /\ pc[c] = "idle" /\ UNCHANGED <<row, root, granted>>
        /\ kind' = [kind EXCEPT ![c] = what] /\ asked' = [asked EXCEPT ![c] = t]
        /\ pc' = [pc EXCEPT ![c] = FirstStatement[what]]
    BY DEF Arrive, rows
  <1>2. /\ what = "login" => FirstStatement[what] = "insert"
        /\ what = "refresh" => FirstStatement[what] = "find"
        /\ what = "logout" => FirstStatement[what] = "revoke"
    BY DEF FirstStatement
  <1>3. t \in Issued \cup {None} /\ Issued \subseteq Token
    BY DEF Issued
  <1>4. ServerTypeOK' /\ Issued' = Issued
    BY <1>1, <1>2, <1>3 DEF ServerInv, ServerTypeOK, Issued
  <1>5. InOrder' /\ Lineage'
    BY <1>1, <1>4 DEF ServerInv, InOrder, Lineage
  <1>6. None \notin Issued
    BY TokenAssumption DEF Issued, Token
  <1>7. ASSUME NEW d \in Call PROVE CallInv(d)'
    BY <1>1, <1>2, <1>3, <1>4, <1>6 DEF ServerInv, ServerTypeOK, CallInv
  <1>8. LogoutFinal'
    BY <1>1, <1>2 DEF ServerInv, ServerTypeOK, LogoutFinal, Descendants
  <1>9. QED
    BY <1>4, <1>5, <1>7, <1>8 DEF ServerInv
-----------------------------------------------------------------------------
(* The app's storage *)

LEMMA SessionNamed == ASSUME NEW t PROVE /\ Session(t).access = t /\ Session(t).refresh = t /\ Session(t).user = t
                                         /\ NoTokens = Session(None)
  BY DEF Session, NoTokens, Keys

LEMMA SessionTyped == ASSUME NEW t \in Token \cup {None} PROVE Session(t) \in Tokens
  BY DEF Session, Tokens

\* A step that leaves the storage and its writes alone, and forgets no failed write.
LEMMA StoreUntouched ==
  ASSUME StoreInv, UNCHANGED store, Issued \subseteq Issued', "unstored" \in mishaps => "unstored" \in mishaps'
  PROVE  StoreInv'
  BY DEF StoreInv, store, Genuine, WillBe

\* A step that learns of a failed write.
LEMMA StoreMarked ==
  ASSUME StoreInv, UNCHANGED <<held, disk, writes>>, Issued' = Issued, "unstored" \in mishaps'
  PROVE  StoreInv'
  BY DEF StoreInv, Genuine

LEMMA KeepWrites ==
  ASSUME NEW t \in Token \cup {None}, NEW who \in Caller, TypeOK, Keep(who, Session(t))
  PROVE  /\ held' = Session(t) /\ disk' = disk
         /\ writes' \in Seq(StorageWrite)
         /\ Len(writes') = Len(writes) + 3
         /\ \A i \in 1 .. Len(writes) : writes'[i] = writes[i]
         /\ writes'[Len(writes) + 1] = <<"access", t, who>>
         /\ writes'[Len(writes) + 2] = <<"refresh", t, who>>
         /\ writes'[Len(writes) + 3] = <<"user", t, who>>
  <1> DEFINE more == << <<"access", t, who>>, <<"refresh", t, who>>, <<"user", t, who>> >>
  <1>1. held' = Session(t) /\ disk' = disk /\ writes' = writes \o more
    BY SessionNamed DEF Keep
  <1>2. writes \in Seq(StorageWrite)
    BY DEF TypeOK
  <1>3. more \in Seq(StorageWrite) /\ Len(more) = 3
        /\ more[1] = <<"access", t, who>> /\ more[2] = <<"refresh", t, who>> /\ more[3] = <<"user", t, who>>
    BY DEF Keys, StorageWrite
  <1> HIDE DEF more
  <1>4. /\ writes \o more \in Seq(StorageWrite) /\ Len(writes \o more) = Len(writes) + 3
        /\ \A i \in 1 .. Len(writes) : (writes \o more)[i] = writes[i]
        /\ \A i \in 1 .. 3 : (writes \o more)[Len(writes) + i] = more[i]
    <2>1. Len(writes) \in Nat
      BY <1>2
    <2>2. /\ writes \o more \in Seq(StorageWrite) /\ Len(writes \o more) = Len(writes) + 3
          /\ \A i \in 1 .. Len(writes) + 3 :
               (writes \o more)[i] = IF i <= Len(writes) THEN writes[i] ELSE more[i - Len(writes)]
      <3>1. /\ writes \o more \in Seq(StorageWrite) /\ Len(writes \o more) = Len(writes) + Len(more)
            /\ \A i \in 1 .. Len(writes) + Len(more) :
                 (writes \o more)[i] = IF i <= Len(writes) THEN writes[i] ELSE more[i - Len(writes)]
        BY <1>2, <1>3, ConcatProperties
      <3>2. Len(more) = 3
        BY <1>3
      <3>3. QED
        BY <3>1, <3>2
    <2>3. ASSUME NEW i \in 1 .. 3 PROVE (writes \o more)[Len(writes) + i] = more[i]
      <3>1. Len(writes) + i \in 1 .. Len(writes) + 3 /\ ~(Len(writes) + i <= Len(writes))
            /\ Len(writes) + i - Len(writes) = i
        BY <2>1
      <3>2. QED
        BY <2>2, <3>1
    <2>4. QED
      BY <2>1, <2>2, <2>3
  <1>5. QED
    BY <1>1, <1>3, <1>4

\* The positions after save or clear has begun its three writes.
LEMMA KeepPlaces ==
  ASSUME NEW t \in Token \cup {None}, NEW who \in Caller, TypeOK, Keep(who, Session(t))
  PROVE  /\ DOMAIN writes = 1 .. Len(writes) /\ DOMAIN writes' = 1 .. Len(writes) + 3 /\ Len(writes) \in Nat
         /\ \A i \in DOMAIN writes' : i \in DOMAIN writes \/ i \in {Len(writes) + 1, Len(writes) + 2, Len(writes) + 3}
  <1>1. Len(writes') = Len(writes) + 3 /\ writes' \in Seq(StorageWrite)
    BY KeepWrites
  <1>2. QED
    BY <1>1 DEF TypeOK

\* The writes under way are then the caller's or were under way before.
LEMMA KeepOwners ==
  ASSUME NEW t \in Token \cup {None}, NEW who \in Caller, TypeOK, Keep(who, Session(t))
  PROVE  \A i \in DOMAIN writes' : writes'[i][3] = who \/ (i \in DOMAIN writes /\ writes'[i] = writes[i])
  <1> SUFFICES ASSUME NEW i \in DOMAIN writes'
               PROVE  writes'[i][3] = who \/ (i \in DOMAIN writes /\ writes'[i] = writes[i])
    OBVIOUS
  <1>1. CASE i \in DOMAIN writes
    BY <1>1, KeepWrites, KeepPlaces
  <1>2. CASE i \in {Len(writes) + 1, Len(writes) + 2, Len(writes) + 3}
    BY <1>2, KeepWrites
  <1>3. QED
    BY <1>1, <1>2, KeepPlaces

\* Whatever became of earlier writes, the storage will be what is kept now.
LEMMA KeepKeeps ==
  ASSUME StoreInv, TypeOK, NEW t \in Issued \cup {None}, NEW who \in Caller, Keep(who, Session(t)), Issued' = Issued
  PROVE  StoreInv'
  <1>1. t \in Token \cup {None}
    BY DEF Issued
  <1>2. /\ DOMAIN writes = 1 .. Len(writes) /\ DOMAIN writes' = 1 .. Len(writes) + 3 /\ Len(writes) \in Nat
        /\ \A i \in DOMAIN writes' : i \in DOMAIN writes \/ i \in {Len(writes) + 1, Len(writes) + 2, Len(writes) + 3}
    BY <1>1, KeepPlaces
  <1>3. Genuine'
    <2>1. held'.refresh \in Issued \cup {None}
      BY <1>1, KeepWrites, SessionNamed
    <2>2. ASSUME NEW i \in DOMAIN writes', writes'[i][1] = "refresh" PROVE writes'[i][2] \in Issued \cup {None}
      <3>1. CASE i \in DOMAIN writes
        BY <1>1, <1>2, <2>2, <3>1, KeepWrites DEF StoreInv, Genuine
      <3>2. CASE i \in {Len(writes) + 1, Len(writes) + 2, Len(writes) + 3}
        BY <1>1, <3>2, KeepWrites
      <3>3. QED
        BY <1>2, <3>1, <3>2
    <2>3. QED
      BY <1>1, <2>1, <2>2, KeepWrites DEF StoreInv, Genuine
  <1>4. ASSUME NEW k \in Keys PROVE WillBe(k)'
    <2>1. held'[k] = t
      BY <1>1, KeepWrites DEF Session
    <2>2. ASSUME NEW n \in 1 .. 3, writes'[Len(writes) + n] = <<k, t, who>>,
                 \A j \in 1 .. 3 : j > n => writes'[Len(writes) + j][1] # k
          PROVE  WillBe(k)'
      <3>1. Len(writes) + n \in DOMAIN writes'
        BY <1>2
      <3>2. ASSUME NEW j \in DOMAIN writes', j > Len(writes) + n PROVE writes'[j][1] # k
        <4>1. j - Len(writes) \in 1 .. 3 /\ j - Len(writes) > n /\ j = Len(writes) + (j - Len(writes))
          BY <1>2, <3>2
        <4>2. QED
          BY <2>2, <4>1
      <3>3. writes'[Len(writes) + n][1] = k /\ writes'[Len(writes) + n][2] = t
        BY <2>2
      <3>4. QED
        BY <2>1, <3>1, <3>2, <3>3 DEF WillBe
    <2>3. CASE k = "access"
      <3>1. \A j \in 1 .. 3 : j > 1 => j = 2 \/ j = 3
        OBVIOUS
      <3>2. QED
        BY <1>1, <2>2, <2>3, <3>1, KeepWrites
    <2>4. CASE k = "refresh"
      <3>1. \A j \in 1 .. 3 : j > 2 => j = 3
        OBVIOUS
      <3>2. QED
        BY <1>1, <2>2, <2>4, <3>1, KeepWrites
    <2>5. CASE k = "user"
      <3>1. \A j \in 1 .. 3 : ~(j > 3)
        OBVIOUS
      <3>2. QED
        BY <1>1, <2>2, <2>5, <3>1, KeepWrites
    <2>6. QED
      BY <2>3, <2>4, <2>5 DEF Keys
  <1>5. QED
    BY <1>3, <1>4 DEF StoreInv

\* The write that ends, well or with an error, is the first.
LEMMA FirstWrite ==
  ASSUME TypeOK, writes # <<>>, writes' = Tail(writes)
  PROVE  /\ Head(writes) = writes[1] /\ writes[1] \in StorageWrite /\ writes' \in Seq(StorageWrite)
         /\ Len(writes) \in Nat /\ Len(writes) >= 1
         /\ DOMAIN writes = 1 .. Len(writes) /\ DOMAIN writes' = 1 .. Len(writes) - 1
         /\ \A i \in DOMAIN writes' : i + 1 \in DOMAIN writes /\ writes'[i] = writes[i + 1]
  <1>1. writes \in Seq(StorageWrite)
    BY DEF TypeOK
  <1>2. QED
    BY <1>1

LEMMA WriteStores ==
  ASSUME StoreInv, TypeOK, Write
  PROVE  StoreInv'
  <1> DEFINE key == writes[1][1]
             value == writes[1][2]
  <1>1. /\ Head(writes) = writes[1] /\ writes[1] \in StorageWrite /\ Len(writes) \in Nat /\ Len(writes) >= 1
        /\ DOMAIN writes = 1 .. Len(writes) /\ DOMAIN writes' = 1 .. Len(writes) - 1
        /\ \A i \in DOMAIN writes' : i + 1 \in DOMAIN writes /\ writes'[i] = writes[i + 1]
    BY FirstWrite DEF Write
  <1>2. disk' = [disk EXCEPT ![key] = value] /\ UNCHANGED <<held, failed, mishaps, row, root>>
    BY <1>1 DEF Write, server, rows
  <1>3. key \in Keys /\ value \in Token \cup {None}
    BY <1>1 DEF StorageWrite
  <1>4. disk \in [Keys -> Token \cup {None}]
    BY DEF TypeOK, Tokens
  <1>5. Issued' = Issued
    BY <1>2 DEF Issued
  <1> HIDE DEF key, value
  <1>6. Genuine'
    <2>1. disk'["refresh"] \in Issued \cup {None}
      <3>1. key = "refresh" => value \in Issued \cup {None}
        BY <1>1 DEF StoreInv, Genuine, key, value
      <3>2. QED
        BY <1>2, <1>3, <1>4, <3>1 DEF StoreInv, Genuine, Keys
    <2>2. \A i \in DOMAIN writes' : writes'[i][1] = "refresh" => writes'[i][2] \in Issued \cup {None}
      BY <1>1 DEF StoreInv, Genuine
    <2>3. QED
      BY <1>2, <1>5, <2>1, <2>2 DEF StoreInv, Genuine
  <1>7. ASSUME NEW k \in Keys, WillBe(k) PROVE WillBe(k)'
    <2>1. CASE disk[k] = held[k] /\ \A i \in DOMAIN writes : writes[i][1] # k
      <3>1. key # k
        BY <1>1, <2>1 DEF key
      <3>2. disk'[k] = held'[k]
        BY <1>2, <1>3, <1>4, <2>1, <3>1
      <3>3. \A i \in DOMAIN writes' : writes'[i][1] # k
        BY <1>1, <2>1
      <3>4. QED
        BY <3>2, <3>3 DEF WillBe
    <2>2. ASSUME NEW i \in DOMAIN writes, writes[i][1] = k, writes[i][2] = held[k],
                 \A j \in DOMAIN writes : j > i => writes[j][1] # k
          PROVE  WillBe(k)'
      <3>1. CASE i = 1
        <4>1. key = k /\ value = held[k]
          BY <2>2, <3>1 DEF key, value
        <4>2. disk'[k] = held'[k]
          BY <1>2, <1>3, <1>4, <4>1
        <4>3. \A j \in DOMAIN writes' : writes'[j][1] # k
          BY <1>1, <2>2, <3>1
        <4>4. QED
          BY <4>2, <4>3 DEF WillBe
      <3>2. CASE i # 1
        <4>1. i - 1 \in DOMAIN writes' /\ writes'[i - 1][1] = k /\ writes'[i - 1][2] = held'[k]
          BY <1>1, <1>2, <2>2, <3>2
        <4>2. \A j \in DOMAIN writes' : j > i - 1 => writes'[j][1] # k
          BY <1>1, <2>2
        <4>3. QED
          BY <4>1, <4>2 DEF WillBe
      <3>3. QED
        BY <3>1, <3>2
    <2>3. QED
      BY <1>7, <2>1, <2>2 DEF WillBe
  <1>8. QED
    BY <1>2, <1>6, <1>7 DEF StoreInv

-----------------------------------------------------------------------------
(* The steps of the app *)

LEMMA ServerUntouched ==
  ASSUME ServerInv, UNCHANGED server
  PROVE  ServerInv' /\ Issued' = Issued /\ UNCHANGED <<row, root, kind, asked, pc, granted>>
  <1>1. UNCHANGED <<row, root, kind, asked, pc, granted>>
    BY DEF server, rows, calls
  <1>2. Issued' = Issued
    BY <1>1 DEF Issued
  <1>3. ServerTypeOK' /\ InOrder' /\ Lineage' /\ LogoutFinal'
    BY <1>1, <1>2 DEF ServerInv, ServerTypeOK, InOrder, Lineage, LogoutFinal, Descendants
  <1>4. ASSUME NEW c \in Call PROVE CallInv(c)'
    BY <1>1, <1>2 DEF ServerInv, CallInv
  <1>5. QED
    BY <1>1, <1>2, <1>3, <1>4 DEF ServerInv

LEMMA SendKeeps ==
  ASSUME AppInv, NEW r \in Requests, Send(r)
  PROVE  AppInv'
  <1> USE DEF Send
  <1>1. TypeOK'
    <2>1. held.access \in Token \cup {None}
      BY DEF AppInv, TypeOK, Tokens, Keys
    <2>2. used' \in [Requests -> Token \cup {None}] /\ phase' \in [Requests -> {"idle", "sent", "unauthorized", "failed", "done"}]
      BY <2>1 DEF AppInv, TypeOK
    <2>3. QED
      BY <2>2 DEF AppInv, TypeOK, ServerTypeOK, server, rows, calls, store, interceptor
  <1>2. ServerInv' /\ Issued' = Issued /\ UNCHANGED <<row, root, kind, asked, pc, granted>>
    BY ServerUntouched DEF AppInv
  <1>3. StoreInv'
    BY <1>2, StoreUntouched DEF AppInv
  <1>4. Waiting'
    BY <1>2, AppAssumption DEF AppInv, TypeOK, Waiting, store, api, interceptor
  <1>5. OnItsWay'
    BY <1>2 DEF AppInv, TypeOK, OnItsWay, store
  <1>6. Holds'
    BY <1>2 DEF AppInv, TypeOK, Holds, InUse, Replaced, Open, Ended, store, interceptor
  <1>7. QED
    BY <1>1, <1>2, <1>3, <1>4, <1>5, <1>6 DEF AppInv

LEMMA ExpireKeeps ==
  ASSUME AppInv, NEW t \in Token, Expire(t)
  PROVE  AppInv'
  <1> USE DEF Expire
  <1>1. TypeOK'
    BY DEF AppInv, TypeOK, ServerInv, ServerTypeOK, server, rows, calls, store, api, interceptor
  <1>2. ServerInv' /\ Issued' = Issued /\ UNCHANGED <<row, root, kind, asked, pc, granted>>
    BY ServerUntouched DEF AppInv
  <1>3. StoreInv'
    BY <1>2, StoreUntouched DEF AppInv
  <1>4. Waiting'
    BY <1>2, AppAssumption DEF AppInv, TypeOK, Waiting, store, api, interceptor
  <1>5. OnItsWay'
    BY <1>2 DEF AppInv, TypeOK, OnItsWay, store
  <1>6. Holds'
    BY <1>2 DEF AppInv, TypeOK, Holds, InUse, Replaced, Open, Ended, store, interceptor
  <1>7. QED
    BY <1>1, <1>2, <1>3, <1>4, <1>5, <1>6 DEF AppInv

LEMMA AnswerKeeps ==
  ASSUME AppInv, NEW r \in Requests, Answer(r)
  PROVE  AppInv'
  <1> USE DEF Answer
  <1>1. TypeOK'
    BY DEF AppInv, TypeOK, ServerInv, ServerTypeOK, server, rows, calls, store, api, interceptor
  <1>2. ServerInv' /\ Issued' = Issued /\ UNCHANGED <<row, root, kind, asked, pc, granted>>
    BY ServerUntouched DEF AppInv
  <1>3. StoreInv'
    BY <1>2, StoreUntouched DEF AppInv
  <1>4. Waiting'
    <2>1. busy = r => stage \notin {"refreshing", "saving", "clearing", "stuck"}
      BY DEF AppInv, Waiting
    <2>2. QED
      BY <1>2, <2>1, AppAssumption DEF AppInv, TypeOK, Waiting, store, api, interceptor
  <1>5. OnItsWay'
    BY <1>2 DEF AppInv, TypeOK, OnItsWay, store
  <1>6. Holds'
    <2>1. busy = r => stage \notin {"refreshing", "clearing", "stuck"}
      BY DEF AppInv, Waiting
    <2>2. \A st \in {"refreshing", "clearing", "stuck"} : stage' = st <=> stage = st
      BY <2>1
    <2>3. QED
      BY <1>2, <2>2 DEF AppInv, Holds, InUse, Replaced, Open, Ended, store
  <1>7. QED
    BY <1>1, <1>2, <1>3, <1>4, <1>5, <1>6 DEF AppInv

LEMMA FailKeeps ==
  ASSUME AppInv, NEW r \in Requests, Fail(r)
  PROVE  AppInv'
  <1> USE DEF Fail
  <1>1. TypeOK'
    <2>1. queue' \in Seq(Requests \cup {"login", "logout"})
      BY DEF AppInv, TypeOK
    <2>2. phase' \in [Requests -> {"idle", "sent", "unauthorized", "failed", "done"}]
      BY DEF AppInv, TypeOK
    <2>3. QED
      BY <2>1, <2>2 DEF AppInv, TypeOK, ServerTypeOK, server, rows, calls, store
  <1>2. ServerInv' /\ Issued' = Issued /\ UNCHANGED <<row, root, kind, asked, pc, granted>>
    BY ServerUntouched DEF AppInv
  <1>3. StoreInv'
    BY <1>2, StoreUntouched DEF AppInv
  <1>4. Waiting'
    BY <1>2, AppAssumption DEF AppInv, TypeOK, Waiting, store, api, interceptor
  <1>5. OnItsWay'
    BY <1>2 DEF AppInv, TypeOK, OnItsWay, store
  <1>6. Holds'
    BY <1>2 DEF AppInv, TypeOK, Holds, InUse, Replaced, Open, Ended, store, interceptor
  <1>7. QED
    BY <1>1, <1>2, <1>3, <1>4, <1>5, <1>6 DEF AppInv

LEMMA SignedInKeeps ==
  ASSUME AppInv, SignedIn
  PROVE  AppInv'
  <1> USE DEF SignedIn
  <1>1. TypeOK'
    BY DEF AppInv, TypeOK, ServerInv, ServerTypeOK, server, rows, calls, store, api, interceptor
  <1>2. ServerInv' /\ Issued' = Issued /\ UNCHANGED <<row, root, kind, asked, pc, granted>>
    BY ServerUntouched DEF AppInv
  <1>3. StoreInv'
    BY <1>2, StoreUntouched DEF AppInv
  <1>4. Waiting'
    BY <1>2, AppAssumption DEF AppInv, TypeOK, Waiting, Stored, AllEnded, store, api, interceptor
  <1>5. OnItsWay'
    BY <1>2 DEF AppInv, TypeOK, OnItsWay, store
  <1>6. Holds'
    BY <1>2 DEF AppInv, TypeOK, Holds, InUse, Replaced, Open, Ended, store, interceptor
  <1>7. QED
    BY <1>1, <1>2, <1>3, <1>4, <1>5, <1>6 DEF AppInv

LEMMA SignedOutKeeps ==
  ASSUME AppInv, SignedOut
  PROVE  AppInv'
  <1> USE DEF SignedOut
  <1>1. TypeOK'
    BY DEF AppInv, TypeOK, ServerInv, ServerTypeOK, server, rows, calls, store, api, interceptor
  <1>2. ServerInv' /\ Issued' = Issued /\ UNCHANGED <<row, root, kind, asked, pc, granted>>
    BY ServerUntouched DEF AppInv
  <1>3. StoreInv'
    BY <1>2, StoreUntouched DEF AppInv
  <1>4. Waiting'
    BY <1>2, AppAssumption DEF AppInv, TypeOK, Waiting, Stored, AllEnded, store, api, interceptor
  <1>5. OnItsWay'
    BY <1>2 DEF AppInv, TypeOK, OnItsWay, store
  <1>6. Holds'
    BY <1>2 DEF AppInv, TypeOK, Holds, InUse, Replaced, Open, Ended, store, interceptor
  <1>7. QED
    BY <1>1, <1>2, <1>3, <1>4, <1>5, <1>6 DEF AppInv

LEMMA ExpelKeeps ==
  ASSUME AppInv, Expel
  PROVE  AppInv'
  <1> USE DEF Expel
  <1>1. TypeOK'
    BY DEF AppInv, TypeOK, ServerInv, ServerTypeOK, server, rows, calls, store, api, interceptor
  <1>2. ServerInv' /\ Issued' = Issued /\ UNCHANGED <<row, root, kind, asked, pc, granted>>
    BY ServerUntouched DEF AppInv
  <1>3. StoreInv'
    BY <1>2, StoreUntouched DEF AppInv
  <1>4. Waiting'
    BY <1>2, AppAssumption DEF AppInv, TypeOK, Waiting, Stored, AllEnded, store, api, interceptor
  <1>5. OnItsWay'
    BY <1>2 DEF AppInv, TypeOK, OnItsWay, store
  <1>6. Holds'
    BY <1>2 DEF AppInv, TypeOK, Holds, InUse, Replaced, Open, Ended, store, interceptor
  <1>7. QED
    BY <1>1, <1>2, <1>3, <1>4, <1>5, <1>6 DEF AppInv

LEMMA RetryKeeps ==
  ASSUME AppInv, Retry
  PROVE  AppInv'
  <1> USE DEF Retry
  <1>1. TypeOK'
    <2>1. held.access \in Token \cup {None}
      BY DEF AppInv, TypeOK, Tokens, Keys
    <2>2. used' \in [Requests -> Token \cup {None}] /\ phase' \in [Requests -> {"idle", "sent", "unauthorized", "failed", "done"}]
      BY <2>1 DEF AppInv, TypeOK
    <2>3. QED
      BY <2>2 DEF AppInv, TypeOK, ServerTypeOK, server, rows, calls, store, interceptor
  <1>2. ServerInv' /\ Issued' = Issued /\ UNCHANGED <<row, root, kind, asked, pc, granted>>
    BY ServerUntouched DEF AppInv
  <1>3. StoreInv'
    BY <1>2, StoreUntouched DEF AppInv
  <1>4. Waiting'
    BY <1>2, AppAssumption DEF AppInv, TypeOK, Waiting, Stored, AllEnded, store, api, interceptor
  <1>5. OnItsWay'
    BY <1>2 DEF AppInv, TypeOK, OnItsWay, store
  <1>6. Holds'
    BY <1>2 DEF AppInv, TypeOK, Holds, InUse, Replaced, Open, Ended, store, interceptor
  <1>7. QED
    BY <1>1, <1>2, <1>3, <1>4, <1>5, <1>6 DEF AppInv

LEMMA PassKeeps ==
  ASSUME AppInv, Pass
  PROVE  AppInv'
  <1> USE DEF Pass, Free, PassesOn
  <1>1. TypeOK'
    <2>1. queue' \in Seq(Requests \cup {"login", "logout"})
      BY DEF AppInv, TypeOK
    <2>2. phase' \in [Requests -> {"idle", "sent", "unauthorized", "failed", "done"}]
      BY DEF AppInv, TypeOK
    <2>3. ServerTypeOK'
      BY DEF AppInv, TypeOK, ServerTypeOK, server, rows, calls
    <2>4. QED
      BY <2>1, <2>2, <2>3 DEF AppInv, TypeOK, store
  <1>2. ServerInv' /\ Issued' = Issued /\ UNCHANGED <<row, root, kind, asked, pc, granted>>
    BY ServerUntouched DEF AppInv
  <1>3. StoreInv'
    BY <1>2, StoreUntouched DEF AppInv
  <1>4. Waiting'
    BY <1>2, AppAssumption DEF AppInv, TypeOK, Waiting, store, api, interceptor
  <1>5. OnItsWay'
    BY <1>2 DEF AppInv, TypeOK, OnItsWay, store
  <1>6. Holds'
    <2>1. queue # <<>> /\ Head(queue) = queue[1] /\ 1 \in DOMAIN queue
      BY DEF AppInv, TypeOK
    <2>2. \/ signing' = signing /\ ui' = ui
          \/ signing = "logout" /\ signing' = "disconnect" /\ ui' = ui
          \/ signing = "login" /\ signing' = "none" /\ ui' = "out"
      BY <2>1 DEF AppInv, TypeOK, Waiting
    <2>3. UNCHANGED <<held, stage, waits, mishaps>>
      BY DEF store
    <2>4. QED
      BY <1>2, <2>2, <2>3 DEF AppInv, Holds, InUse, Replaced, Open, Ended
  <1>7. QED
    BY <1>1, <1>2, <1>3, <1>4, <1>5, <1>6 DEF AppInv

LEMMA RefreshedKeeps ==
  ASSUME AppInv, Refreshed
  PROVE  AppInv'
  <1> DEFINE c == waits["interceptor"]
             t == granted[c]
  <1>1. c \in Call /\ pc[c] = "ok" /\ waits' = [waits EXCEPT !["interceptor"] = None] /\ kind[c] = "refresh"
    BY DEF AppInv, TypeOK, Refreshed, Told, Waiting
  <1>2. t \in Issued /\ row[t] = "active" /\ t # None /\ \A d \in Call : asked[d] # t
    <2>1. CallInv(c) /\ c # None
      BY <1>1, TokenAssumption DEF AppInv, ServerInv, Call
    <2>2. t # None /\ t \in Issued
      BY <1>1, <2>1 DEF CallInv
    <2>3. QED
      BY <2>1, <2>2 DEF AppInv, TypeOK, OnItsWay
  <1>3. ServerInv' /\ Issued' = Issued /\ UNCHANGED <<row, root, kind, asked, pc, granted>>
    BY ServerUntouched DEF AppInv, Refreshed
  <1>4. /\ stage = "refreshing" /\ stage' = "saving" /\ UNCHANGED <<stale, ui, phase, queue, busy, signing>>
        /\ used' = [used EXCEPT ![busy] = t] /\ Keep("interceptor", Session(t)) /\ failed' = failed
        /\ mishaps' = mishaps \cup (IF Replaced THEN {"resurrected"} ELSE {}) /\ faults' \in 0 .. MaxFaults
    BY DEF Refreshed, Told, AppInv, TypeOK
  <1> HIDE DEF c, t
  <1>5. t \in Token \cup {None} /\ held' = Session(t) /\ held'.refresh = t /\ disk' = disk
        /\ writes' \in Seq(StorageWrite) /\ Session(t) \in Tokens
    BY <1>2, <1>4, KeepWrites, SessionNamed, SessionTyped DEF AppInv, Issued
  <1>6. TypeOK'
    <2>1. waits' \in [Caller -> Call \cup {None}] /\ used' \in [Requests -> Token \cup {None}]
      BY <1>1, <1>4, <1>5 DEF AppInv, TypeOK
    <2>2. mishaps' \subseteq Mishap /\ (busy' = None <=> stage' = "idle")
      BY <1>4 DEF AppInv, TypeOK
    <2>3. ServerTypeOK'
      BY <1>3 DEF ServerInv
    <2>4. QED
      BY <1>4, <1>5, <2>1, <2>2, <2>3 DEF AppInv, TypeOK
  <1>7. StoreInv'
    BY <1>2, <1>3, <1>4, KeepKeeps DEF AppInv
  <1>8. Waiting'
    <2>1. \A i \in DOMAIN writes' : writes'[i][3] = "interceptor" \/ (i \in DOMAIN writes /\ writes'[i] = writes[i])
      BY <1>4, <1>5, KeepOwners DEF AppInv
    <2>2. QED
      BY <1>1, <1>3, <1>4, <2>1 DEF AppInv, TypeOK, Waiting
  <1>9. OnItsWay'
    <2>1. waits["user"] # None => waits["user"] # c /\ waits["user"] \in Call
      BY <1>1 DEF AppInv, TypeOK, Waiting
    <2>2. CallInv(c)
      BY <1>1 DEF AppInv, ServerInv
    <2>3. waits["user"] # None => granted[waits["user"]] # t
      BY <1>2, <2>1, <2>2 DEF CallInv, t
    <2>4. QED
      BY <1>1, <1>3, <1>5, <2>3 DEF AppInv, TypeOK, OnItsWay
  <1>10. Holds'
    <2>1. ~Replaced => held.refresh = asked[c] /\ asked[c] # None
      <3>1. CallInv(c)
        BY <1>1 DEF AppInv, ServerInv
      <3>2. QED
        BY <1>1, <3>1 DEF CallInv, Replaced, c
    <2>2. ui = "in" => signing # "login" \/ mishaps \cap {"killed", "unstored"} # {}
      BY DEF AppInv, Holds
    <2>3. CASE Replaced
      BY <1>2, <1>3, <1>4, <1>5, <2>2, <2>3 DEF Holds
    <2>4. CASE ~Replaced
      BY <1>2, <1>3, <1>4, <1>5, <2>1, <2>2, <2>4 DEF AppInv, Holds
    <2>5. QED
      BY <2>3, <2>4
  <1>11. QED
    BY <1>3, <1>6, <1>7, <1>8, <1>9, <1>10 DEF AppInv

LEMMA LoggedInKeeps ==
  ASSUME AppInv, LoggedIn
  PROVE  AppInv'
  <1> DEFINE c == waits["user"]
             t == granted[c]
  <1>1. c \in Call /\ pc[c] = "ok" /\ waits' = [waits EXCEPT !["user"] = None] /\ kind[c] = "login"
    BY DEF AppInv, TypeOK, LoggedIn, Told, Waiting
  <1>2. t \in Issued /\ row[t] = "active" /\ t # None /\ \A d \in Call : asked[d] # t
    <2>1. CallInv(c) /\ c # None
      BY <1>1, TokenAssumption DEF AppInv, ServerInv, Call
    <2>2. t # None /\ t \in Issued
      BY <1>1, <2>1 DEF CallInv
    <2>3. QED
      BY <2>1, <2>2 DEF AppInv, TypeOK, OnItsWay
  <1>3. ServerInv' /\ Issued' = Issued /\ UNCHANGED <<row, root, kind, asked, pc, granted>>
    BY ServerUntouched DEF AppInv, LoggedIn
  <1>4. /\ signing = "login" /\ signing' = "saving" /\ UNCHANGED <<stale, ui, phase, used, queue, busy, stage>>
        /\ Keep("user", Session(t)) /\ failed' = failed /\ mishaps' \subseteq Mishap /\ faults' \in 0 .. MaxFaults
    BY DEF LoggedIn, Told, AppInv, TypeOK, api, interceptor
  <1> HIDE DEF c, t
  <1>5. t \in Token \cup {None} /\ held' = Session(t) /\ held'.refresh = t /\ disk' = disk
        /\ writes' \in Seq(StorageWrite) /\ Session(t) \in Tokens
    BY <1>2, <1>4, KeepWrites, SessionNamed, SessionTyped DEF AppInv, Issued
  <1>6. TypeOK'
    <2>1. waits' \in [Caller -> Call \cup {None}]
      BY <1>1 DEF AppInv, TypeOK
    <2>2. ServerTypeOK'
      BY <1>3 DEF ServerInv
    <2>3. QED
      BY <1>4, <1>5, <2>1, <2>2 DEF AppInv, TypeOK
  <1>7. StoreInv'
    BY <1>2, <1>3, <1>4, KeepKeeps DEF AppInv
  <1>8. Waiting'
    <2>1. \A i \in DOMAIN queue : queue[i] \notin {"login", "logout"}
      BY <1>1, TokenAssumption DEF AppInv, Waiting, c, Call
    <2>2. \A i \in DOMAIN writes' : writes'[i][3] = "user" \/ (i \in DOMAIN writes /\ writes'[i] = writes[i])
      BY <1>4, <1>5, KeepOwners DEF AppInv
    <2>3. QED
      BY <1>1, <1>3, <1>4, <2>1, <2>2 DEF AppInv, TypeOK, Waiting
  <1>9. OnItsWay'
    <2>1. waits["interceptor"] # None => waits["interceptor"] # c /\ waits["interceptor"] \in Call
      BY <1>1 DEF AppInv, TypeOK, Waiting
    <2>2. CallInv(c)
      BY <1>1 DEF AppInv, ServerInv
    <2>3. waits["interceptor"] # None => granted[waits["interceptor"]] # t
      BY <1>2, <2>1, <2>2 DEF CallInv, t
    <2>4. QED
      BY <1>1, <1>3, <1>5, <2>3 DEF AppInv, TypeOK, OnItsWay
  <1>10. Holds'
    BY <1>2, <1>3, <1>4, <1>5 DEF Holds
  <1>11. QED
    BY <1>3, <1>6, <1>7, <1>8, <1>9, <1>10 DEF AppInv

\* The catch of the interceptor, whatever made it run: the refresh or the storage.
LEMMA CatchKeeps ==
  ASSUME AppInv, NEW ours \in BOOLEAN, Catch(ours), stage \in {"refreshing", "saving"},
         waits' = [waits EXCEPT !["interceptor"] = None], faults' \in 0 .. MaxFaults, failed' \subseteq failed
  PROVE  AppInv'
  <1>1. ServerInv' /\ Issued' = Issued /\ UNCHANGED <<row, root, kind, asked, pc, granted>>
    BY ServerUntouched DEF AppInv, Catch
  <1>2. held' = NoTokens /\ held'.refresh = None /\ disk' = disk /\ NoTokens \in Tokens /\ NoTokens = Session(None)
        /\ writes' \in Seq(StorageWrite) /\ Keep("interceptor", Session(None))
    BY KeepWrites, SessionNamed, SessionTyped DEF AppInv, Catch
  <1>3. /\ stage' = "clearing" /\ UNCHANGED <<stale, ui, phase, used, queue, busy, signing>>
        /\ mishaps' = mishaps \cup (IF held.refresh # None /\ (~ours \/ signing = "saving") THEN {"expelled"} ELSE {})
    BY DEF Catch, api
  <1>4. TypeOK'
    <2>1. waits' \in [Caller -> Call \cup {None}] /\ failed' \subseteq Caller
      BY DEF AppInv, TypeOK
    <2>2. mishaps' \subseteq Mishap /\ (busy' = None <=> stage' = "idle")
      BY <1>3 DEF AppInv, TypeOK
    <2>3. ServerTypeOK'
      BY <1>1 DEF ServerInv
    <2>4. QED
      BY <1>2, <1>3, <2>1, <2>2, <2>3 DEF AppInv, TypeOK
  <1>5. StoreInv'
    BY <1>1, <1>2, KeepKeeps DEF AppInv
  <1>6. Waiting'
    <2>1. \A i \in DOMAIN writes' : writes'[i][3] = "interceptor" \/ (i \in DOMAIN writes /\ writes'[i] = writes[i])
      BY <1>2, KeepOwners DEF AppInv
    <2>2. QED
      BY <1>1, <1>3, <2>1 DEF AppInv, TypeOK, Waiting
  <1>7. OnItsWay'
    BY <1>1, <1>2, <1>3 DEF AppInv, TypeOK, OnItsWay
  <1>8. Holds'
    BY <1>1, <1>2, <1>3 DEF AppInv, Holds
  <1>9. QED
    BY <1>1, <1>4, <1>5, <1>6, <1>7, <1>8 DEF AppInv

LEMMA RefreshFailsKeeps ==
  ASSUME AppInv, RefreshFails
  PROVE  AppInv'
  <1>1. faults' \in 0 .. MaxFaults
    BY AppAssumption DEF RefreshFails, Told, AppInv, TypeOK
  <1>2. waits' = [waits EXCEPT !["interceptor"] = None] /\ stage = "refreshing" /\ failed' = failed /\ Catch(~Replaced)
    BY DEF RefreshFails, Told
  <1>3. QED
    BY <1>1, <1>2, CatchKeeps

LEMMA SaveFailsKeeps ==
  ASSUME AppInv, SaveFails
  PROVE  AppInv'
  <1>1. /\ stage = "saving" /\ waits["interceptor"] = None /\ waits' = waits
        /\ faults' \in 0 .. MaxFaults /\ failed' \subseteq failed /\ Catch(held.refresh = used[busy])
    BY DEF SaveFails, AppInv, TypeOK, Waiting
  <1>2. waits' = [waits EXCEPT !["interceptor"] = None]
    BY <1>1 DEF AppInv, TypeOK
  <1>3. QED
    BY <1>1, <1>2, CatchKeeps

\* A write that failed is known to nobody yet.
LEMMA WriteFailsKeeps ==
  ASSUME AppInv, WriteFails
  PROVE  AppInv'
  <1>1. ServerInv' /\ Issued' = Issued /\ UNCHANGED <<row, root, kind, asked, pc, granted>>
    BY ServerUntouched DEF AppInv, WriteFails
  <1>2. /\ UNCHANGED <<held, disk, stale, ui, phase, used, queue, busy, stage, signing, waits, mishaps>>
        /\ faults' \in 0 .. MaxFaults
    BY AppAssumption DEF WriteFails, AppInv, TypeOK, api, interceptor
  <1>3. /\ Head(writes) = writes[1] /\ writes[1] \in StorageWrite /\ writes' \in Seq(StorageWrite)
        /\ 1 \in DOMAIN writes
        /\ \A i \in DOMAIN writes' : i + 1 \in DOMAIN writes /\ writes'[i] = writes[i + 1]
    BY FirstWrite DEF WriteFails, AppInv
  <1>4. failed' = failed \cup {writes[1][3]} /\ writes[1][3] \in Caller
    BY <1>3 DEF WriteFails, StorageWrite
  <1>5. TypeOK'
    BY <1>1, <1>2, <1>3, <1>4 DEF AppInv, TypeOK, ServerInv
  <1>6. StoreInv'
    BY <1>1, <1>2, <1>3, <1>4 DEF AppInv, StoreInv, Genuine
  <1>7. Waiting'
    BY <1>1, <1>2, <1>3, <1>4 DEF AppInv, Waiting
  <1>8. OnItsWay'
    BY <1>1, <1>2 DEF AppInv, OnItsWay
  <1>9. Holds'
    BY <1>1, <1>2 DEF AppInv, Holds, InUse, Replaced, Open, Ended
  <1>10. QED
    BY <1>1, <1>5, <1>6, <1>7, <1>8, <1>9 DEF AppInv

\* A failure the caller learns of, and what it shows then.
LEMMA FailureKeeps ==
  ASSUME AppInv, SignInFails \/ SignOutFails \/ ClearFails
  PROVE  AppInv'
  <1>1. /\ UNCHANGED <<server, held, disk, writes, stale, phase, used, queue, busy, waits, faults>>
        /\ mishaps' = mishaps \cup {"unstored"} /\ failed' \subseteq failed /\ ui' \in {"out", ui}
    BY DEF SignInFails, SignOutFails, ClearFails, api, interceptor
  <1>2. \/ /\ signing \in {"saving", "clearing"} /\ signing' = "none" /\ stage' = stage
           /\ AllEnded("user") /\ failed' = failed \ {"user"}
        \/ /\ stage = "clearing" /\ stage' = "stuck" /\ signing' = signing
           /\ AllEnded("interceptor") /\ failed' = failed \ {"interceptor"}
    BY DEF SignInFails, SignOutFails, ClearFails, Unstored, interceptor
  <1>3. ServerInv' /\ Issued' = Issued /\ UNCHANGED <<row, root, kind, asked, pc, granted>>
    BY <1>1, ServerUntouched DEF AppInv
  <1>4. TypeOK'
    <2>1. mishaps' \subseteq Mishap /\ failed' \subseteq Caller /\ ui' \in {"out", "loading", "in"}
      BY <1>1 DEF AppInv, TypeOK
    <2>2. signing' \in {"none", "login", "saving", "logout", "disconnect", "clearing"}
          /\ stage' \in {"idle", "refreshing", "saving", "retrying", "clearing", "stuck"}
          /\ (busy' = None <=> stage' = "idle")
      BY <1>1, <1>2 DEF AppInv, TypeOK
    <2>3. QED
      BY <1>1, <1>3, <2>1, <2>2 DEF AppInv, TypeOK, ServerInv
  <1>5. StoreInv'
    BY <1>1, <1>3, StoreMarked DEF AppInv
  <1>6. Waiting'
    BY <1>1, <1>2, <1>3 DEF AppInv, Waiting, AllEnded
  <1>7. OnItsWay'
    BY <1>1, <1>3 DEF AppInv, OnItsWay
  <1>8. Holds'
    BY <1>1 DEF Holds
  <1>9. QED
    BY <1>3, <1>4, <1>5, <1>6, <1>7, <1>8 DEF AppInv

LEMMA SilenceKeeps ==
  ASSUME AppInv, Silence
  PROVE  AppInv'
  <1>1. ServerInv' /\ Issued' = Issued /\ UNCHANGED <<row, root, kind, asked, pc, granted>>
    BY ServerUntouched DEF AppInv, Silence
  <1>2. store' = store
    BY DEF Silence
  <1>3. /\ waits' = [waits EXCEPT !["interceptor"] = None] /\ faults' \in 0 .. MaxFaults
        /\ stage = "refreshing" /\ stage' = "stuck"
        /\ UNCHANGED <<held, disk, writes, failed, stale, ui, phase, used, queue, busy, signing, mishaps>>
    BY AppAssumption DEF Silence, AppInv, TypeOK, store, api
  <1>4. TypeOK'
    <2>1. waits' \in [Caller -> Call \cup {None}] /\ (busy' = None <=> stage' = "idle")
      BY <1>3 DEF AppInv, TypeOK
    <2>2. QED
      BY <1>1, <1>3, <2>1 DEF AppInv, TypeOK, ServerInv
  <1>5. StoreInv'
    BY <1>1, <1>2, <1>3, StoreUntouched DEF AppInv
  <1>6. Waiting'
    BY <1>1, <1>3 DEF AppInv, TypeOK, Waiting
  <1>7. OnItsWay'
    BY <1>1, <1>3 DEF AppInv, TypeOK, OnItsWay
  <1>8. Holds'
    BY <1>1, <1>3 DEF AppInv, Holds, InUse, Open, Ended
  <1>9. QED
    BY <1>1, <1>4, <1>5, <1>6, <1>7, <1>8 DEF AppInv

LEMMA ClearKeeps ==
  ASSUME AppInv, Clear
  PROVE  AppInv'
  <1>1. ServerInv' /\ Issued' = Issued /\ UNCHANGED <<row, root, kind, asked, pc, granted>>
    BY ServerUntouched DEF AppInv, Clear
  <1>2. held' = NoTokens /\ held'.refresh = None /\ disk' = disk /\ NoTokens \in Tokens /\ NoTokens = Session(None)
        /\ writes' \in Seq(StorageWrite) /\ Keep("user", Session(None))
    BY KeepWrites, SessionNamed, SessionTyped DEF AppInv, Clear
  <1>3. /\ signing = "disconnect" /\ signing' = "clearing"
        /\ UNCHANGED <<failed, stale, ui, phase, used, queue, busy, stage, waits, faults>>
        /\ mishaps' \subseteq mishaps
    BY DEF Clear, api, interceptor
  <1>4. TypeOK'
    BY <1>1, <1>2, <1>3 DEF AppInv, TypeOK, ServerInv
  <1>5. StoreInv'
    BY <1>1, <1>2, KeepKeeps DEF AppInv
  <1>6. Waiting'
    <2>1. \A i \in DOMAIN writes' : writes'[i][3] = "user" \/ (i \in DOMAIN writes /\ writes'[i] = writes[i])
      BY <1>2, KeepOwners DEF AppInv
    <2>2. QED
      BY <1>1, <1>3, <2>1 DEF AppInv, TypeOK, Waiting
  <1>7. OnItsWay'
    BY <1>1, <1>2, <1>3 DEF AppInv, TypeOK, OnItsWay
  <1>8. Holds'
    BY <1>2, <1>3 DEF Holds
  <1>9. QED
    BY <1>1, <1>4, <1>5, <1>6, <1>7, <1>8 DEF AppInv

LEMMA LoggedOutKeeps ==
  ASSUME AppInv, LoggedOut
  PROVE  AppInv'
  <1>1. ServerInv' /\ Issued' = Issued /\ UNCHANGED <<row, root, kind, asked, pc, granted>>
    BY ServerUntouched DEF AppInv, LoggedOut
  <1>2. store' = store
    BY DEF LoggedOut
  <1>3. /\ waits' = [waits EXCEPT !["user"] = None] /\ waits["user"] # None /\ faults' \in 0 .. MaxFaults
        /\ signing = "logout" /\ signing' = "disconnect"
        /\ UNCHANGED <<held, disk, writes, failed, stale, ui, phase, used, queue, busy, stage, mishaps>>
    BY DEF LoggedOut, Told, AppInv, TypeOK, store, api, interceptor
  <1>4. TypeOK'
    <2>1. waits' \in [Caller -> Call \cup {None}]
      BY <1>3 DEF AppInv, TypeOK
    <2>2. QED
      BY <1>1, <1>3, <2>1 DEF AppInv, TypeOK, ServerInv
  <1>5. StoreInv'
    BY <1>1, <1>2, <1>3, StoreUntouched DEF AppInv
  <1>6. Waiting'
    BY <1>1, <1>3 DEF AppInv, TypeOK, Waiting
  <1>7. OnItsWay'
    BY <1>1, <1>3 DEF AppInv, TypeOK, OnItsWay
  <1>8. Holds'
    BY <1>1, <1>3 DEF AppInv, TypeOK, Holds, InUse, Replaced, Open, Ended
  <1>9. QED
    BY <1>1, <1>4, <1>5, <1>6, <1>7, <1>8 DEF AppInv

LEMMA SigningFailsKeeps ==
  ASSUME AppInv, SigningFails
  PROVE  AppInv'
  <1>1. ServerInv' /\ Issued' = Issued /\ UNCHANGED <<row, root, kind, asked, pc, granted>>
    BY ServerUntouched DEF AppInv, SigningFails
  <1>2. store' = store
    BY DEF SigningFails
  <1>3. /\ waits' = [waits EXCEPT !["user"] = None] /\ waits["user"] # None /\ faults' \in 0 .. MaxFaults
        /\ signing \in {"login", "logout"} /\ queue' = Append(queue, signing)
        /\ UNCHANGED <<held, disk, writes, failed, stale, ui, phase, used, busy, stage, signing, mishaps>>
    BY AppAssumption DEF SigningFails, Told, AppInv, TypeOK, store, api
  <1>4. TypeOK'
    <2>1. waits' \in [Caller -> Call \cup {None}] /\ queue' \in Seq(Requests \cup {"login", "logout"})
      BY <1>3 DEF AppInv, TypeOK
    <2>2. QED
      BY <1>1, <1>3, <2>1 DEF AppInv, TypeOK, ServerInv
  <1>5. StoreInv'
    BY <1>1, <1>2, <1>3, StoreUntouched DEF AppInv
  <1>6. Waiting'
    <2>1. /\ Len(queue) \in Nat /\ DOMAIN queue = 1 .. Len(queue) /\ DOMAIN queue' = 1 .. Len(queue) + 1
          /\ queue'[Len(queue) + 1] = signing /\ \A i \in DOMAIN queue : queue'[i] = queue[i]
      BY <1>3 DEF AppInv, TypeOK
    <2>2. \A i \in DOMAIN queue : queue'[i] \notin {"login", "logout"}
      BY <1>3, <2>1 DEF AppInv, Waiting
    <2>3. \A i \in DOMAIN queue' : queue'[i] \in {"login", "logout"} => i = Len(queue) + 1
      BY <2>1, <2>2
    <2>4. \A i \in DOMAIN queue' : queue'[i] \in {"login", "logout"} =>
            /\ queue'[i] = signing' /\ waits'["user"] = None
            /\ \A j \in DOMAIN queue' : queue'[j] \in {"login", "logout"} => j = i
      BY <1>3, <2>1, <2>3 DEF AppInv, TypeOK
    <2>5. QED
      BY <1>1, <1>3, <2>4 DEF AppInv, TypeOK, Waiting
  <1>7. OnItsWay'
    BY <1>1, <1>3 DEF AppInv, TypeOK, OnItsWay
  <1>8. Holds'
    BY <1>1, <1>3 DEF AppInv, TypeOK, Holds, InUse, Replaced, Open, Ended
  <1>9. QED
    BY <1>1, <1>4, <1>5, <1>6, <1>7, <1>8 DEF AppInv

LEMMA WriteKeeps ==
  ASSUME AppInv, Write
  PROVE  AppInv'
  <1>1. ServerInv' /\ Issued' = Issued /\ UNCHANGED <<row, root, kind, asked, pc, granted>>
    BY ServerUntouched DEF AppInv, Write
  <1>2. UNCHANGED <<held, failed, stale, ui, phase, used, queue, busy, stage, signing, waits, mishaps, faults>>
    BY DEF Write, api, interceptor
  <1>3. /\ Head(writes) = writes[1] /\ writes[1] \in StorageWrite /\ writes' \in Seq(StorageWrite)
        /\ \A i \in DOMAIN writes' : i + 1 \in DOMAIN writes /\ writes'[i] = writes[i + 1]
    BY FirstWrite DEF Write, AppInv
  <1>4. TypeOK'
    <2>1. writes' \in Seq(StorageWrite)
      BY <1>3
    <2>2. disk' \in Tokens
      BY <1>3 DEF Write, AppInv, TypeOK, Tokens, StorageWrite
    <2>3. QED
      BY <1>1, <1>2, <2>1, <2>2 DEF AppInv, TypeOK, ServerInv
  <1>5. StoreInv'
    BY WriteStores DEF AppInv
  <1>6. Waiting'
    BY <1>1, <1>2, <1>3 DEF AppInv, Waiting
  <1>7. OnItsWay'
    BY <1>1, <1>2 DEF AppInv, OnItsWay
  <1>8. Holds'
    BY <1>1, <1>2 DEF AppInv, Holds, InUse, Replaced, Open, Ended
  <1>9. QED
    BY <1>1, <1>4, <1>5, <1>6, <1>7, <1>8 DEF AppInv

LEMMA RestartKeeps ==
  ASSUME AppInv, Restart
  PROVE  AppInv'
  <1>1. ServerInv' /\ Issued' = Issued /\ UNCHANGED <<row, root, kind, asked, pc, granted>>
    BY ServerUntouched DEF AppInv, Restart
  <1>2. /\ held' = disk /\ writes' = <<>> /\ queue' = <<>> /\ busy' = None /\ stage' = "idle" /\ signing' = "none"
        /\ ui' \in {"out", "in"} /\ waits' = [w \in Caller |-> None]
        /\ failed' = {} /\ mishaps' \in {mishaps, mishaps \cup {"killed"}} /\ faults' \in 0 .. MaxFaults
        /\ phase' \in [Requests -> {"idle", "done"}] /\ UNCHANGED <<disk, stale, used>>
    BY AppAssumption DEF Restart, AppInv, TypeOK
  <1>4. TypeOK'
    <2>1. writes' \in Seq(StorageWrite) /\ queue' \in Seq(Requests \cup {"login", "logout"})
      BY <1>2
    <2>2. phase' \in [Requests -> {"idle", "sent", "unauthorized", "failed", "done"}]
      BY <1>2
    <2>3. waits' \in [Caller -> Call \cup {None}]
      BY <1>2
    <2>4. mishaps' \subseteq Mishap
      BY <1>2 DEF AppInv, TypeOK
    <2>5. ServerTypeOK'
      BY <1>1 DEF ServerInv
    <2>6. QED
      BY <1>2, <2>1, <2>2, <2>3, <2>4, <2>5 DEF AppInv, TypeOK
  <1>5. StoreInv'
    BY <1>1, <1>2 DEF AppInv, StoreInv, Genuine, WillBe
  <1>6. Waiting'
    BY <1>1, <1>2 DEF Waiting
  <1>7. OnItsWay'
    BY <1>2 DEF OnItsWay
  <1>8. Holds'
    <2>1. CASE ~Settled
      BY <2>1 DEF Restart, Holds
    <2>2. CASE Settled
      <3>1. mishaps' = mishaps
        BY <2>2 DEF Restart
      <3> SUFFICES ASSUME mishaps \cap {"killed", "unstored"} = {} PROVE Holds'
        BY <3>1 DEF Holds
      <3>2. failed = {} /\ writes = <<>> /\ signing = "none" /\ ~InUse
        BY <2>2 DEF AppInv, TypeOK, Waiting, Settled, InUse
      <3>3. disk = held
        <4>1. \A k \in Keys : disk[k] = held[k]
          BY <3>2 DEF AppInv, StoreInv, WillBe
        <4>2. QED
          BY <4>1 DEF AppInv, TypeOK, Tokens
      <3>4. held = Session(held.refresh) /\ held.access = held.refresh /\ held.user = held.refresh
        BY SessionNamed DEF AppInv, Holds
      <3>5. ui' = IF held.refresh = None THEN "out" ELSE "in"
        BY <3>3, <3>4 DEF Restart
      <3>6. QED
        BY <1>1, <1>2, <3>1, <3>2, <3>3, <3>4, <3>5 DEF AppInv, Holds, Open, Ended
    <2>3. QED
      BY <2>1, <2>2
  <1>9. QED
    BY <1>1, <1>4, <1>5, <1>6, <1>7, <1>8 DEF AppInv

\* The caller's new call was idle, so nothing is granted by it and nobody waits for it.
LEMMA Asking ==
  ASSUME AppInv, NEW what \in {"login", "refresh", "logout"}, NEW t, NEW c \in Call, Arrive(c, what, t),
         IF what = "login" THEN t = None ELSE t \in Issued
  PROVE  /\ ServerInv' /\ Issued' = Issued /\ UNCHANGED <<row, root, granted>>
         /\ granted[c] = None /\ (\A w \in DOMAIN waits : waits[w] # c)
         /\ kind' = [kind EXCEPT ![c] = what] /\ asked' = [asked EXCEPT ![c] = t]
         /\ \A d \in Call \ {c} : pc'[d] = pc[d]
  <1>1. /\ pc[c] = "idle" /\ UNCHANGED <<row, root, granted>>
        /\ kind' = [kind EXCEPT ![c] = what] /\ asked' = [asked EXCEPT ![c] = t]
        /\ \A d \in Call \ {c} : pc'[d] = pc[d]
    BY DEF Arrive, rows, AppInv, ServerInv, ServerTypeOK
  <1>2. ServerInv'
    BY ArriveKeeps DEF AppInv
  <1>3. granted[c] = None /\ kind[c] = "none"
    BY <1>1 DEF AppInv, ServerInv, CallInv
  <1>4. \A w \in DOMAIN waits : waits[w] # c
    BY <1>3, TokenAssumption DEF AppInv, TypeOK, Waiting, Call
  <1>5. Issued' = Issued
    BY <1>1 DEF Issued
  <1>6. QED
    BY <1>1, <1>2, <1>3, <1>4, <1>5

\* What is on its way to the app is not what the app asks with.
LEMMA StillOnItsWay ==
  ASSUME AppInv, NEW who \in DOMAIN waits, NEW c \in Call, NEW t, t = None \/ t = held.refresh,
         granted[c] = None, UNCHANGED <<row, granted, held>>,
         waits' = [waits EXCEPT ![who] = c], asked' = [asked EXCEPT ![c] = t]
  PROVE  OnItsWay'
  <1>1. asked \in [Call -> Token \cup {None}] /\ waits \in [Caller -> Call \cup {None}]
    BY DEF AppInv, TypeOK, ServerTypeOK
  <1> SUFFICES ASSUME NEW w \in DOMAIN waits, waits'[w] # None, granted[waits'[w]] # None
               PROVE  /\ row[granted[waits'[w]]] = "active" /\ granted[waits'[w]] # held.refresh
                      /\ \A d \in Call : asked'[d] # granted[waits'[w]]
    BY <1>1 DEF OnItsWay
  <1>2. waits'[w] = waits[w]
    BY <1>1
  <1>3. /\ row[granted[waits[w]]] = "active" /\ granted[waits[w]] # held.refresh /\ granted[waits[w]] # None
        /\ \A d \in Call : asked[d] # granted[waits[w]]
    BY <1>2 DEF AppInv, OnItsWay
  <1>4. QED
    BY <1>1, <1>2, <1>3

LEMMA RefreshKeeps ==
  ASSUME AppInv, Refresh
  PROVE  AppInv'
  <1>1. PICK c \in Call : Arrive(c, "refresh", held.refresh) /\ waits' = [waits EXCEPT !["interceptor"] = c]
    BY DEF Refresh, Ask
  <1>2. /\ queue # <<>> /\ queue' = Tail(queue) /\ busy' = Head(queue) /\ stage' = "refreshing" /\ stage = "idle"
        /\ Head(queue) \in Requests /\ phase[Head(queue)] = "unauthorized" /\ held.refresh # None
        /\ UNCHANGED <<held, disk, writes, failed, stale, ui, phase, used, signing, mishaps, faults>>
    BY DEF Refresh, Free, PassesOn, store, api
  <1>3. held.refresh \in Issued /\ None \notin Requests /\ None \notin Call
    BY <1>2, AppAssumption, TokenAssumption DEF AppInv, StoreInv, Genuine, Call
  <1>4. /\ ServerInv' /\ Issued' = Issued /\ UNCHANGED <<row, root, granted>>
        /\ granted[c] = None /\ (\A w \in DOMAIN waits : waits[w] # c)
        /\ kind' = [kind EXCEPT ![c] = "refresh"] /\ asked' = [asked EXCEPT ![c] = held.refresh]
        /\ \A d \in Call \ {c} : pc'[d] = pc[d]
    BY <1>1, <1>3, Asking
  <1>5. TypeOK'
    <2>1. waits' \in [Caller -> Call \cup {None}]
      BY <1>1 DEF AppInv, TypeOK
    <2>2. queue' \in Seq(Requests \cup {"login", "logout"})
      BY <1>2 DEF AppInv, TypeOK
    <2>3. busy' \in Requests \cup {None} /\ (busy' = None <=> stage' = "idle")
      BY <1>2, <1>3
    <2>4. QED
      BY <1>2, <1>4, <2>1, <2>2, <2>3 DEF AppInv, TypeOK, ServerInv
  <1>6. StoreInv'
    BY <1>2, <1>4, StoreUntouched DEF AppInv, store
  <1>7. Waiting'
    <2>1. waits'["interceptor"] = c /\ waits'["user"] = waits["user"] /\ waits["user"] # c
      BY <1>1, <1>4 DEF AppInv, TypeOK
    <2>2. kind'[c] = "refresh" /\ (waits["user"] # None => kind'[waits["user"]] = kind[waits["user"]])
      BY <1>4, <2>1 DEF AppInv, TypeOK, ServerTypeOK
    <2>3. /\ DOMAIN queue = 1 .. Len(queue) /\ DOMAIN queue' = 1 .. Len(queue) - 1 /\ Len(queue) \in Nat
          /\ \A i \in DOMAIN queue' : queue'[i] = queue[i + 1]
      BY <1>2 DEF AppInv, TypeOK
    <2>4. \A i \in DOMAIN queue' : queue'[i] \in {"login", "logout"} =>
            /\ queue'[i] = signing /\ waits["user"] = None
            /\ \A j \in DOMAIN queue' : queue'[j] \in {"login", "logout"} => j = i
      <3> SUFFICES ASSUME NEW i \in DOMAIN queue', queue'[i] \in {"login", "logout"}
                   PROVE  /\ queue'[i] = signing /\ waits["user"] = None
                          /\ \A j \in DOMAIN queue' : queue'[j] \in {"login", "logout"} => j = i
        OBVIOUS
      <3>1. i + 1 \in DOMAIN queue /\ queue[i + 1] = queue'[i]
        BY <2>3
      <3>2. /\ queue[i + 1] = signing /\ waits["user"] = None
            /\ \A j \in DOMAIN queue : queue[j] \in {"login", "logout"} => j = i + 1
        BY <3>1 DEF AppInv, Waiting
      <3>3. \A j \in DOMAIN queue' : queue'[j] \in {"login", "logout"} => j = i
        BY <2>3, <3>2
      <3>4. QED
        BY <3>1, <3>2, <3>3
    <2>5. QED
      BY <1>2, <1>3, <2>1, <2>2, <2>4 DEF AppInv, Waiting
  <1>8. OnItsWay'
    BY <1>1, <1>2, <1>4, StillOnItsWay DEF AppInv, TypeOK
  <1>9. Holds'
    <2>1. waits'["interceptor"] = c /\ asked'[c] = held.refresh
      BY <1>1, <1>4 DEF AppInv, TypeOK, ServerInv, ServerTypeOK
    <2>2. InUse'
      BY <1>2, <2>1 DEF InUse, Replaced
    <2>3. QED
      BY <1>2, <1>4, <2>2 DEF AppInv, Holds
  <1>10. QED
    BY <1>4, <1>5, <1>6, <1>7, <1>8, <1>9 DEF AppInv

LEMMA LoginKeeps ==
  ASSUME AppInv, Login
  PROVE  AppInv'
  <1>1. PICK c \in Call : Arrive(c, "login", None) /\ waits' = [waits EXCEPT !["user"] = c]
    BY DEF Login, Ask
  <1>2. /\ ui = "out" /\ ui' = "loading" /\ signing = "none" /\ signing' = "login"
        /\ UNCHANGED <<held, disk, writes, failed, stale, phase, used, queue, busy, stage, mishaps, faults>>
    BY DEF Login, store, api, interceptor
  <1>3. None \notin Call
    BY TokenAssumption DEF Call
  <1>4. /\ ServerInv' /\ Issued' = Issued /\ UNCHANGED <<row, root, granted>>
        /\ granted[c] = None /\ (\A w \in DOMAIN waits : waits[w] # c)
        /\ kind' = [kind EXCEPT ![c] = "login"] /\ asked' = [asked EXCEPT ![c] = None]
        /\ \A d \in Call \ {c} : pc'[d] = pc[d]
    BY <1>1, Asking
  <1>5. TypeOK'
    <2>1. waits' \in [Caller -> Call \cup {None}]
      BY <1>1 DEF AppInv, TypeOK
    <2>2. QED
      BY <1>2, <1>4, <2>1 DEF AppInv, TypeOK, ServerInv
  <1>6. StoreInv'
    BY <1>2, <1>4, StoreUntouched DEF AppInv, store
  <1>7. Waiting'
    <2>1. waits'["user"] = c /\ waits'["interceptor"] = waits["interceptor"] /\ waits["interceptor"] # c
      BY <1>1, <1>4 DEF AppInv, TypeOK
    <2>2. kind'[c] = "login" /\ (waits["interceptor"] # None => kind'[waits["interceptor"]] = kind[waits["interceptor"]])
      BY <1>4, <2>1 DEF AppInv, TypeOK, ServerTypeOK
    <2>3. \A i \in DOMAIN queue : queue[i] \notin {"login", "logout"}
      BY <1>2 DEF AppInv, Waiting
    <2>4. QED
      BY <1>2, <1>3, <2>1, <2>2, <2>3 DEF AppInv, Waiting
  <1>8. OnItsWay'
    BY <1>1, <1>2, <1>4, StillOnItsWay DEF AppInv, TypeOK
  <1>9. Holds'
    <2>1. waits'["interceptor"] = waits["interceptor"] /\ (waits["interceptor"] # None => waits["interceptor"] # c /\ waits["interceptor"] \in Call)
      BY <1>1, <1>4 DEF AppInv, TypeOK
    <2>2. InUse => InUse'
      BY <1>2, <1>4, <2>1 DEF AppInv, TypeOK, ServerTypeOK, Waiting, InUse, Replaced
    <2>3. \A d \in Call : asked'[d] # None => asked'[d] = asked[d] /\ pc'[d] = pc[d]
      BY <1>4 DEF AppInv, TypeOK, ServerTypeOK
    <2>4. QED
      BY <1>2, <1>4, <2>2, <2>3 DEF AppInv, Holds, Open, Ended
  <1>10. QED
    BY <1>4, <1>5, <1>6, <1>7, <1>8, <1>9 DEF AppInv

LEMMA LogoutKeeps ==
  ASSUME AppInv, Logout
  PROVE  AppInv'
  <1>1. /\ ui = "in" /\ signing = "none" /\ UNCHANGED <<held, disk, writes, failed, stale, ui, phase, used, queue, busy, stage, mishaps, faults>>
    BY DEF Logout, store, api, interceptor
  <1>2. \A i \in DOMAIN queue : queue[i] \notin {"login", "logout"}
    BY <1>1 DEF AppInv, Waiting
  <1>3. CASE held.refresh = None
    <2>1. signing' = "disconnect" /\ UNCHANGED <<server, waits>>
      BY <1>3 DEF Logout
    <2>2. ServerInv' /\ Issued' = Issued /\ UNCHANGED <<row, root, kind, asked, pc, granted>>
      BY <2>1, ServerUntouched DEF AppInv
    <2>3. TypeOK'
      BY <1>1, <2>1, <2>2 DEF AppInv, TypeOK, ServerInv
    <2>4. StoreInv'
      BY <1>1, <2>2, StoreUntouched DEF AppInv, store
    <2>5. Waiting'
      BY <1>1, <1>2, <2>1, <2>2 DEF AppInv, Waiting
    <2>6. OnItsWay'
      BY <1>1, <2>1, <2>2 DEF AppInv, OnItsWay
    <2>7. Holds'
      BY <1>1, <1>3, <2>1, <2>2 DEF AppInv, Holds
    <2>8. QED
      BY <2>2, <2>3, <2>4, <2>5, <2>6, <2>7 DEF AppInv
  <1>4. CASE held.refresh # None
    <2>1. PICK c \in Call : Arrive(c, "logout", held.refresh) /\ waits' = [waits EXCEPT !["user"] = c]
      BY <1>4 DEF Logout, Ask
    <2>2. signing' = "logout"
      BY <1>4 DEF Logout
    <2>3. held.refresh \in Issued /\ None \notin Call
      BY <1>4, TokenAssumption DEF AppInv, StoreInv, Genuine, Call
    <2>4. /\ ServerInv' /\ Issued' = Issued /\ UNCHANGED <<row, root, granted>>
          /\ granted[c] = None /\ (\A w \in DOMAIN waits : waits[w] # c)
          /\ kind' = [kind EXCEPT ![c] = "logout"] /\ asked' = [asked EXCEPT ![c] = held.refresh]
          /\ \A d \in Call \ {c} : pc'[d] = pc[d]
      BY <2>1, <2>3, Asking
    <2>5. TypeOK'
      <3>1. waits' \in [Caller -> Call \cup {None}]
        BY <2>1 DEF AppInv, TypeOK
      <3>2. QED
        BY <1>1, <2>2, <2>4, <3>1 DEF AppInv, TypeOK, ServerInv
    <2>6. StoreInv'
      BY <1>1, <2>4, StoreUntouched DEF AppInv, store
    <2>7. Waiting'
      <3>1. waits'["user"] = c /\ waits'["interceptor"] = waits["interceptor"] /\ waits["interceptor"] # c
        BY <2>1, <2>4 DEF AppInv, TypeOK
      <3>2. kind'[c] = "logout" /\ (waits["interceptor"] # None => kind'[waits["interceptor"]] = kind[waits["interceptor"]])
        BY <2>4, <3>1 DEF AppInv, TypeOK, ServerTypeOK
      <3>3. QED
        BY <1>1, <1>2, <2>2, <2>3, <3>1, <3>2 DEF AppInv, Waiting
    <2>8. OnItsWay'
      BY <1>1, <2>1, <2>4, StillOnItsWay DEF AppInv, TypeOK
    <2>9. Holds'
      <3>1. InUse'
        BY <2>2 DEF InUse
      <3>2. QED
        BY <1>1, <1>4, <2>2, <2>4, <3>1 DEF AppInv, Holds
    <2>10. QED
      BY <2>4, <2>5, <2>6, <2>7, <2>8, <2>9 DEF AppInv
  <1>5. QED
    BY <1>3, <1>4

\* A statement of the server touches the token it was asked with, and may make a new one.
LEMMA ServerStep ==
  ASSUME ServerInv, NEW c \in Call, Statement(c) \/ Refuse(c)
  PROVE  /\ Open(c) /\ UNCHANGED <<kind, asked>> /\ Issued \subseteq Issued'
         /\ \A t \in Issued : row'[t] = row[t] \/ t = asked[c]
         /\ \A d \in Call \ {c} : pc'[d] = pc[d] /\ granted'[d] = granted[d]
         /\ \/ granted'[c] = granted[c]
            \/ granted'[c] \notin Issued \cup {None} /\ row'[granted'[c]] = "active"
  <1> USE DEF ServerInv, ServerTypeOK, Issued, rows, GoTo, Open, Ended
  <1>1. CASE Find(c) \/ Revoke(c) \/ Refuse(c)
    BY <1>1 DEF Find, Revoke, Refuse
  <1>2. CASE RevokeOnly(c)
    <2>1. asked[c] \in Token
      BY <1>2, RevokeOnlyKeeps DEF RevokeOnly, CallInv
    <2>2. QED
      BY <1>2, <2>1 DEF RevokeOnly
  <1>3. CASE Rotate(c) \/ Insert(c)
    <2>1. Fresh \in Token /\ Fresh \notin Issued \cup {None}
      <3>1. Fresh \in Token
        BY <1>3 DEF Rotate, Insert
      <3>2. QED
        BY <3>1, FreshIsNew, TokenAssumption DEF Token
    <2>2. CASE Rotate(c)
      <3>1. asked[c] \in Issued
        BY <2>2, TokenAssumption DEF Rotate, CallInv, Token
      <3>2. /\ row' = [row EXCEPT ![asked[c]] = "revoked", ![Fresh] = "active"] /\ UNCHANGED <<kind, asked>>
            /\ granted' = [granted EXCEPT ![c] = Fresh] /\ pc[c] = "commit" /\ pc' = [pc EXCEPT ![c] = "ok"]
        BY <2>2 DEF Rotate
      <3>3. QED
        BY <2>1, <3>1, <3>2
    <2>3. CASE Insert(c)
      <3>1. /\ row' = [row EXCEPT ![Fresh] = "active"] /\ UNCHANGED <<kind, asked>>
            /\ granted' = [granted EXCEPT ![c] = Fresh] /\ pc[c] = "insert" /\ pc' = [pc EXCEPT ![c] = "ok"]
        BY <2>3 DEF Insert
      <3>2. QED
        BY <2>1, <3>1
    <2>4. QED
      BY <1>3, <2>2, <2>3
  <1>4. QED
    BY <1>1, <1>2, <1>3 DEF Statement

LEMMA ServeKeeps ==
  ASSUME AppInv, Serve \/ ServerFails
  PROVE  AppInv'
  <1>1. PICK c \in Call : Statement(c) \/ Refuse(c)
    BY DEF Serve, ServerFails
  <1>2. UNCHANGED <<held, disk, writes, failed, stale, ui, phase, used, queue, busy, stage, signing, waits, mishaps, faults>>
    BY DEF Serve, ServerFails, app, store, api, interceptor
  <1>3. ServerInv'
    BY <1>1, ServerKeeps DEF AppInv
  <1>4. /\ Open(c) /\ UNCHANGED <<kind, asked>> /\ Issued \subseteq Issued'
        /\ \A t \in Issued : row'[t] = row[t] \/ t = asked[c]
        /\ \A d \in Call \ {c} : pc'[d] = pc[d] /\ granted'[d] = granted[d]
        /\ \/ granted'[c] = granted[c]
           \/ granted'[c] \notin Issued \cup {None} /\ row'[granted'[c]] = "active"
    BY <1>1, ServerStep DEF AppInv
  <1>5. TypeOK'
    BY <1>2, <1>3 DEF AppInv, TypeOK, ServerInv
  <1>6. StoreInv'
    BY <1>2, <1>4, StoreUntouched DEF AppInv, store
  <1>7. Waiting'
    BY <1>2, <1>4 DEF AppInv, Waiting
  <1>8. OnItsWay'
    <2> SUFFICES ASSUME NEW w \in DOMAIN waits, waits[w] # None, granted'[waits[w]] # None
                 PROVE  /\ row'[granted'[waits[w]]] = "active" /\ granted'[waits[w]] # held.refresh
                        /\ \A d \in Call : asked[d] # granted'[waits[w]]
      BY <1>2, <1>4 DEF OnItsWay
    <2>1. waits[w] \in Call /\ held.refresh \in Issued \cup {None} /\ \A d \in Call : asked[d] \in Issued \cup {None}
      BY DEF AppInv, TypeOK, StoreInv, Genuine, ServerInv, CallInv
    <2>2. CASE granted'[waits[w]] = granted[waits[w]]
      <3>1. /\ row[granted[waits[w]]] = "active" /\ granted[waits[w]] # held.refresh
            /\ \A d \in Call : asked[d] # granted[waits[w]]
        BY <2>2 DEF AppInv, OnItsWay
      <3>2. granted[waits[w]] \in Issued
        BY <2>1, <2>2 DEF AppInv, ServerInv, CallInv
      <3>3. QED
        BY <1>4, <2>2, <3>1, <3>2
    <2>3. CASE granted'[waits[w]] # granted[waits[w]]
      <3>1. waits[w] = c
        BY <1>4, <2>1, <2>3
      <3>2. QED
        BY <1>4, <2>1, <2>3, <3>1
    <2>4. QED
      BY <2>2, <2>3
  <1>9. Holds'
    <2>1. InUse' = InUse
      BY <1>2, <1>4 DEF InUse, Replaced
    <2>2. \A d \in Call : Open(d)' => Open(d)
      BY <1>4 DEF Open, Ended
    <2>3. ASSUME mishaps \cap {"killed", "unstored"} = {}, held.refresh # None, row'[held.refresh] # "active"
          PROVE  InUse
      <3>1. held.refresh \in Issued
        BY <2>3 DEF AppInv, StoreInv, Genuine
      <3>2. CASE row'[held.refresh] = row[held.refresh]
        BY <2>3, <3>2 DEF AppInv, Holds
      <3>3. CASE held.refresh = asked[c]
        BY <1>4, <2>3, <3>3 DEF AppInv, Holds
      <3>4. QED
        BY <1>4, <3>1, <3>2, <3>3
    <2>4. QED
      BY <1>2, <1>4, <2>1, <2>2, <2>3 DEF AppInv, Holds
  <1>10. QED
    BY <1>3, <1>5, <1>6, <1>7, <1>8, <1>9 DEF AppInv

-----------------------------------------------------------------------------
(* The theorems *)

LEMMA Starts == Init => AppInv
  <1> SUFFICES ASSUME Init PROVE AppInv
    OBVIOUS
  <1>1. /\ row = [t \in Token |-> "none"] /\ root = [t \in Token |-> None]
        /\ kind = [c \in Call |-> "none"] /\ asked = [c \in Call |-> None]
        /\ pc = [c \in Call |-> "idle"] /\ granted = [c \in Call |-> None]
    BY DEF Init, ServerInit
  <1>2. Issued = {}
    BY <1>1 DEF Issued
  <1>3. ServerInv
    <2>1. ServerTypeOK
      BY <1>1 DEF ServerTypeOK
    <2>2. InOrder
      BY <1>2, FS_EmptySet DEF InOrder
    <2>3. Lineage /\ LogoutFinal
      BY <1>1, <1>2 DEF Lineage, LogoutFinal
    <2>4. ASSUME NEW c \in Call PROVE CallInv(c)
      BY <1>1 DEF CallInv
    <2>5. QED
      BY <2>1, <2>2, <2>3, <2>4 DEF ServerInv
  <1>4. /\ held = NoTokens /\ disk = NoTokens /\ writes = <<>> /\ failed = {} /\ stale = {} /\ ui = "out"
        /\ phase = [r \in Requests |-> "idle"] /\ used = [r \in Requests |-> None]
        /\ queue = <<>> /\ busy = None /\ stage = "idle" /\ signing = "none"
        /\ waits = [w \in Caller |-> None] /\ mishaps = {} /\ faults = 0
    BY DEF Init
  <1>5. NoTokens \in Tokens /\ NoTokens.refresh = None /\ NoTokens = Session(None)
    BY SessionNamed, SessionTyped
  <1>6. TypeOK
    <2>1. writes \in Seq(StorageWrite) /\ queue \in Seq(Requests \cup {"login", "logout"})
      BY <1>4
    <2>2. /\ phase \in [Requests -> {"idle", "sent", "unauthorized", "failed", "done"}]
          /\ used \in [Requests -> Token \cup {None}] /\ waits \in [Caller -> Call \cup {None}]
      BY <1>4
    <2>3. faults \in 0 .. MaxFaults
      BY <1>4, AppAssumption
    <2>4. QED
      BY <1>3, <1>4, <1>5, <2>1, <2>2, <2>3 DEF TypeOK, ServerInv
  <1>7. StoreInv
    BY <1>4, <1>5 DEF StoreInv, Genuine, WillBe
  <1>8. Waiting /\ OnItsWay
    BY <1>4 DEF Waiting, OnItsWay
  <1>9. Holds
    BY <1>1, <1>4, <1>5 DEF Holds, Open
  <1>10. QED
    BY <1>3, <1>6, <1>7, <1>8, <1>9 DEF AppInv

LEMMA Untouched == ASSUME AppInv, UNCHANGED vars PROVE AppInv'
  <1>1. /\ UNCHANGED <<server, store>>
        /\ UNCHANGED <<stale, ui, phase, used, queue, busy, stage, signing, waits, mishaps, faults, held, disk, writes, failed>>
    BY DEF vars, app, store, api, interceptor
  <1>2. ServerInv' /\ Issued' = Issued /\ UNCHANGED <<row, root, kind, asked, pc, granted>>
    BY <1>1, ServerUntouched DEF AppInv
  <1>3. TypeOK' /\ Waiting' /\ OnItsWay'
    BY <1>1, <1>2 DEF AppInv, TypeOK, ServerInv, Waiting, OnItsWay
  <1>4. StoreInv'
    BY <1>1, <1>2, StoreUntouched DEF AppInv
  <1>5. Holds'
    BY <1>1, <1>2 DEF AppInv, Holds, InUse, Replaced, Open, Ended
  <1>6. QED
    BY <1>2, <1>3, <1>4, <1>5 DEF AppInv

\* AppInv is inductive: no step of the app, of its storage, of the network or of the server
\* breaks it.
LEMMA Keeps == ASSUME AppInv, [Next]_vars PROVE AppInv'
  <1>1. CASE AppStep
    BY <1>1, WriteKeeps, PassKeeps, RefreshKeeps, RefreshedKeeps, RetryKeeps, RefreshFailsKeeps, SaveFailsKeeps,
       ExpelKeeps, LoggedInKeeps, SignedInKeeps, LoggedOutKeeps, SigningFailsKeeps, ClearKeeps, SignedOutKeeps,
       FailureKeeps
    DEF AppStep
  <1>2. CASE Network
    BY <1>2, AnswerKeeps, FailKeeps DEF Network
  <1>3. CASE Serve \/ ServerFails
    BY <1>3, ServeKeeps
  <1>4. CASE (\E r \in Requests : Send(r)) \/ (\E t \in Token : Expire(t))
    BY <1>4, SendKeeps, ExpireKeeps
  <1>5. CASE Login \/ Logout \/ Restart \/ WriteFails \/ Silence
    BY <1>5, LoginKeeps, LogoutKeeps, RestartKeeps, WriteFailsKeeps, SilenceKeeps
  <1>6. CASE UNCHANGED vars
    BY <1>6, Untouched
  <1>7. QED
    BY <1>1, <1>2, <1>3, <1>4, <1>5, <1>6 DEF Next

\* The inductive invariant of the app and the auth service, of which TypeOK is a part.
THEOREM SessionInvariance == Spec => []AppInv
  <1>1. Init => AppInv
    BY Starts
  <1>2. AppInv /\ [Next]_vars => AppInv'
    BY Keeps
  <1>3. QED
    BY <1>1, <1>2, PTL DEF Spec

\* Rotating and revoking overlap in any way: a login has at most one token that works
\* (RotateRefreshToken, RevokeRefreshToken).
THEOREM LoginHasOneToken == Spec => []OneActive
  <1>1. ASSUME AppInv, NEW t \in Token
        PROVE  Cardinality({d \in Descendants(t) : row[d] = "active"}) <= 1
    <2> DEFINE A == {d \in Descendants(t) : row[d] = "active"}
    <2>1. \A d, e \in A : d = e
      BY <1>1 DEF AppInv, ServerInv, Lineage, Descendants, Issued
    <2> HIDE DEF A
    <2>2. CASE A = {}
      BY <2>2, FS_EmptySet DEF A
    <2>3. CASE A # {}
      <3>1. PICK d : A = {d}
        BY <2>1, <2>3
      <3>2. Cardinality(A) = 1
        BY <3>1, FS_Singleton
      <3>3. QED
        BY <3>2 DEF A
    <2>4. QED
      BY <2>2, <2>3
  <1>2. AppInv => OneActive
    BY <1>1 DEF OneActive
  <1>3. QED
    BY <1>2, SessionInvariance, PTL

\* A logout that was answered ends the login, whatever refreshes of it were under way.
THEOREM LogoutEndsTheLogin == Spec => []LogoutFinal
  <1>1. AppInv => LogoutFinal
    BY DEF AppInv, ServerInv
  <1>2. QED
    BY <1>1, SessionInvariance, PTL

\* At rest, and with no failure unheeded, the storage is what the memory is.
LEMMA StoredAtRest ==
  ASSUME AppInv, Settled, "unstored" \notin mishaps
  PROVE  held = disk
  <1>1. failed = {} /\ writes = <<>>
    BY DEF AppInv, TypeOK, Waiting, Settled
  <1>2. \A k \in Keys : held[k] = disk[k]
    BY <1>1 DEF AppInv, StoreInv, WillBe
  <1>3. QED
    BY <1>2 DEF AppInv, TypeOK, Tokens

\* An app that is signed in and at rest holds a token the server takes, and has stored it,
\* unless it was killed or its storage failed amid a change of the tokens, or a refresh of an
\* earlier session failed in it (AuthCubit, TokenStore and the interceptor of ApiClient).
THEOREM SignedInCanRefresh == Spec => []HeldIsUsable
  <1>1. ASSUME AppInv, Settled, ui = "in", mishaps \cap {"killed", "unstored", "expelled"} = {}
        PROVE  held = disk /\ held.refresh # None /\ row[held.refresh] = "active"
    <2>1. held = disk
      BY <1>1, StoredAtRest
    <2>2. held.refresh # None
      BY <1>1 DEF AppInv, Holds, Settled
    <2>3. ~InUse
      BY <1>1 DEF InUse, Settled
    <2>4. QED
      BY <1>1, <2>1, <2>2, <2>3 DEF AppInv, Holds
  <1>2. AppInv => HeldIsUsable
    BY <1>1 DEF HeldIsUsable
  <1>3. QED
    BY <1>2, SessionInvariance, PTL

\* An app that is signed out and at rest has no token left, in memory or stored, with the
\* same exceptions, or when a refresh begun before it signed out brought new tokens after.
THEOREM SignedOutHasNone == Spec => []SignedOutForgets
  <1>1. ASSUME AppInv, Settled, ui = "out", mishaps \cap {"killed", "unstored", "resurrected", "expelled"} = {}
        PROVE  held = NoTokens /\ disk = NoTokens
    <2>1. held.refresh = None /\ held = Session(held.refresh)
      BY <1>1 DEF AppInv, Holds, Settled
    <2>2. held = NoTokens
      BY <2>1, SessionNamed
    <2>3. held = disk
      BY <1>1, StoredAtRest
    <2>4. QED
      BY <2>2, <2>3
  <1>2. AppInv => SignedOutForgets
    BY <1>1 DEF SignedOutForgets
  <1>3. QED
    BY <1>2, SessionInvariance, PTL
=============================================================================
