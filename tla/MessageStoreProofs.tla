------------------------- MODULE MessageStoreProofs -------------------------
(***************************************************************************)
(* For any users, requests, uploads and bounds: what the answers to sends  *)
(* that overlap, repeat, fail and abort say is what is stored, and readers *)
(* see the log that MessageLog promises.                                   *)
(***************************************************************************)
EXTENDS MessageStore, TLAPS

-----------------------------------------------------------------------------
(* Reading the attachment of a message *)

LEMMA SameAttachments ==
  ASSUME NEW id, UNCHANGED attached
  PROVE  UploadOf(id)' = UploadOf(id)
  BY DEF UploadOf

LEMMA HasUpload ==
  ASSUME NEW id, NEW u \in Uploads, attached[u] = id,
         \A v \in Uploads : attached[v] = id => v = u
  PROVE  UploadOf(id) = u
  BY DEF UploadOf

LEMMA HasNone ==
  ASSUME NEW id, \A v \in Uploads : attached[v] # id
  PROVE  UploadOf(id) = None
  BY DEF UploadOf

\* The same after a step.
LEMMA WillHaveUpload ==
  ASSUME NEW id, NEW u \in Uploads, attached'[u] = id,
         \A v \in Uploads : attached'[v] = id => v = u
  PROVE  UploadOf(id)' = u
  BY DEF UploadOf

LEMMA WillHaveNone ==
  ASSUME NEW id, \A v \in Uploads : attached'[v] # id
  PROVE  UploadOf(id)' = None
  BY DEF UploadOf

-----------------------------------------------------------------------------
(* Steps of a request before its commit change nothing that is committed *)

LEMMA ApartBothWays == ASSUME NEW s, NEW t, Apart(s, t) PROVE Apart(t, s)
  BY DEF Apart, SameKey

\* All of s but the request t.
Frame(t) == \A s \in Txs \ {t} :
  /\ pc'[s] = pc[s] /\ ask'[s] = ask[s] /\ row'[s] = row[s] /\ isNew'[s] = isNew[s]
  /\ claimed'[s] = claimed[s] /\ answer'[s] = answer[s] /\ stored'[s] = stored[s]

LEMMA OthersKeep ==
  ASSUME TypeOK, NEW t, NEW s \in Txs \ {t}, Frame(t), UNCHANGED store, now <= now', now' \in Time, TxInv(s)
  PROVE  TxInv(s)'
  <1>1. UNCHANGED <<rows, attached, status>>
    BY DEF store
  <1>2. /\ pc'[s] = pc[s] /\ ask'[s] = ask[s] /\ row'[s] = row[s] /\ isNew'[s] = isNew[s]
        /\ claimed'[s] = claimed[s] /\ answer'[s] = answer[s] /\ stored'[s] = stored[s]
    BY DEF Frame
  <1>3. NewInv(s)'
    <2>1. Inserted(s) /\ row[s] \in Row => row[s].at \in Nat
      BY DEF Row, Time
    <2>2. now \in Nat /\ now' \in Nat
      BY DEF TypeOK, Time
    <2>3. QED
      BY <1>1, <1>2, <2>1, <2>2 DEF TxInv, NewInv, Inserted, SameKey
  <1>4. FoundInv(s)'
    BY <1>1, <1>2 DEF TxInv, FoundInv, Keyed, SameKey, Repeats, UploadOf
  <1>5. ClaimInv(s)'
    BY <1>1, <1>2 DEF TxInv, ClaimInv, Inserted
  <1>6. AnswerInv(s)'
    BY <1>1, <1>2 DEF TxInv, AnswerInv, SameKey, Repeats, UploadOf
  <1>7. QED
    BY <1>2, <1>3, <1>4, <1>5, <1>6 DEF TxInv

LEMMA LocalStep ==
  ASSUME IInv, NEW t \in Txs, Frame(t), UNCHANGED store, now <= now', TypeOK', TxInv(t)',
         \A s \in Txs \ {t} : Apart(s, t)'
  PROVE  IInv'
  <1>1. UNCHANGED <<rows, attached, status>>
    BY DEF store
  <1>2. Keys' /\ Images'
    BY <1>1 DEF IInv, Keys, Images, UploadsSettled, SameKey
  <1>3. \A r \in rows' : r.at <= now'
    <2>1. \A r \in rows : r.at \in Nat /\ r.at <= now
      BY DEF IInv, TypeOK, Row, Time
    <2>2. QED
      BY <1>1, <2>1 DEF IInv, TypeOK, Time
  <1>4. ASSUME NEW s \in Txs PROVE TxInv(s)'
    BY OthersKeep DEF IInv, TypeOK
  <1>5. ASSUME NEW s \in Txs, NEW r \in Txs, s # r PROVE Apart(s, r)'
    <2>1. CASE r = t
      BY <1>5, <2>1
    <2>2. CASE s = t
      <3>1. Apart(r, s)'
        BY <1>5, <2>2
      <3>2. QED
        BY <3>1 DEF Apart, SameKey
    <2>3. CASE r # t /\ s # t
      BY <1>5, <2>3 DEF IInv, Frame, Apart, Inserted, SameKey
    <2>4. QED
      BY <2>1, <2>2, <2>3
  <1>6. QED
    BY <1>2, <1>3, <1>4, <1>5 DEF IInv

\* A request that has inserted or claimed nothing more is apart from the others as before.
LEMMA ApartAsBefore ==
  ASSUME IInv, NEW t \in Txs, Frame(t),
         Inserted(t)' => Inserted(t) /\ row'[t] = row[t] /\ ask'[t] = ask[t],
         claimed'[t] # {} => claimed[t] # {} /\ ask'[t] = ask[t]
  PROVE  \A s \in Txs \ {t} : Apart(s, t)'
  BY DEF IInv, Frame, Apart, Inserted, SameKey

LEMMA RefuseKeeps ==
  ASSUME IInv, NEW t \in Txs, NEW how \in {"forbidden", "notfound", "conflict", "unverified", "error"}, Refuse(t, how),
         pc[t] \notin {"idle", "done"},
         how = "conflict" /\ stored[t] # None => ~(\A a \in Asks : a.conv = Canon)
  PROVE  IInv'
  <1>1. /\ pc' = [pc EXCEPT ![t] = "done"] /\ row' = [row EXCEPT ![t] = None]
        /\ isNew' = [isNew EXCEPT ![t] = FALSE] /\ claimed' = [claimed EXCEPT ![t] = {}]
        /\ answer' = [answer EXCEPT ![t] = how]
        /\ UNCHANGED <<now, roster, expired, rows, attached, status, ask, stored>>
    BY DEF Refuse, GoTo, world, store
  <1>2. TypeOK'
    BY <1>1 DEF IInv, TypeOK, Phase, Result
  <1>3. Frame(t)
    BY <1>1 DEF IInv, TypeOK, Frame
  <1>4. /\ pc'[t] = "done" /\ isNew'[t] = FALSE /\ claimed'[t] = {} /\ answer'[t] = how
        /\ ask'[t] = ask[t] /\ stored'[t] = stored[t]
    BY <1>1 DEF IInv, TypeOK
  <1>5. TxInv(t)'
    <2>1. NewInv(t)' /\ FoundInv(t)' /\ ClaimInv(t)'
      BY <1>4 DEF NewInv, FoundInv, ClaimInv, Inserted
    <2>2. AnswerInv(t)'
      <3>1. AnswerInv(t)
        BY DEF IInv, TxInv
      <3>2. Repeats(stored[t], ask[t])' <=> Repeats(stored[t], ask[t])
        BY <1>1, <1>4 DEF Repeats, SameKey, UploadOf
      <3>3. isNew[t] => stored[t] = None
        BY <3>1 DEF AnswerInv
      <3>4. QED
        BY <1>1, <1>4, <3>1, <3>2, <3>3 DEF AnswerInv
    <2>3. QED
      BY <1>4, <2>1, <2>2 DEF IInv, TxInv
  <1>6. \A s \in Txs \ {t} : Apart(s, t)'
    BY <1>3, <1>4, ApartAsBefore DEF Inserted
  <1>7. QED
    BY <1>1, <1>2, <1>3, <1>5, <1>6, LocalStep DEF IInv, TypeOK, Time, store

\* A request that only goes on to its next statement.
LEMMA GoesOn ==
  ASSUME IInv, NEW t \in Txs, NEW p \in Phase, GoTo(t, p), UNCHANGED <<world, store, local>>, p # "idle", pc[t] # "idle",
         answer[t] # "none" => p = "done", NewInv(t)', FoundInv(t)', ClaimInv(t)',
         Inserted(t)' => Inserted(t)
  PROVE  IInv'
  <1>1. pc' = [pc EXCEPT ![t] = p]
        /\ UNCHANGED <<now, roster, expired, rows, attached, status, ask, row, isNew, claimed, answer, stored>>
    BY DEF GoTo, world, store, local
  <1>2. TypeOK' /\ Frame(t)
    BY <1>1 DEF IInv, TypeOK, Frame
  <1>3. AnswerInv(t)'
    <2>1. pc'[t] = p
      BY <1>1 DEF IInv, TypeOK
    <2>2. AnswerInv(t)
      BY DEF IInv, TxInv
    <2>3. QED
      BY <1>1, <2>1, <2>2 DEF AnswerInv, Repeats, SameKey, UploadOf
  <1>4. TxInv(t)'
    BY <1>1, <1>3 DEF IInv, TypeOK, TxInv
  <1>5. \A s \in Txs \ {t} : Apart(s, t)'
    BY <1>1, <1>2, ApartAsBefore
  <1>6. QED
    BY <1>1, <1>2, <1>4, <1>5, LocalStep DEF IInv, TypeOK, Time, store

-----------------------------------------------------------------------------
(* One lemma per statement *)

LEMMA SubmitKeeps ==
  ASSUME IInv, NEW t \in Txs, Submit(t)
  PROVE  IInv'
  <1>1. PICK a \in Asks :
          /\ ask' = [ask EXCEPT ![t] = a]
          /\ stored' = [stored EXCEPT ![t] =
               IF \E r \in rows : Repeats(r, a) THEN CHOOSE r \in rows : Repeats(r, a) ELSE None]
          /\ pc' = [pc EXCEPT ![t] = IF a.upload = None THEN "member" ELSE "resolve"]
    BY DEF Submit, GoTo
  <1>2. pc[t] = "idle" /\ UNCHANGED <<now, roster, expired, rows, attached, status, row, isNew, claimed, answer>>
    BY DEF Submit, world, store
  <1>3. stored'[t] # None => stored'[t] \in rows /\ Repeats(stored'[t], a)
    BY <1>1 DEF IInv, TypeOK
  <1>4. TypeOK'
    <2>1. stored' \in [Txs -> Row \cup {None}]
      <3>1. stored'[t] \in Row \cup {None}
        BY <1>3 DEF IInv, TypeOK
      <3>2. QED
        BY <1>1, <3>1 DEF IInv, TypeOK
    <2>2. ask' \in [Txs -> Asks \cup {None}] /\ pc' \in [Txs -> Phase]
      BY <1>1 DEF IInv, TypeOK, Phase
    <2>3. QED
      BY <1>2, <2>1, <2>2 DEF IInv, TypeOK
  <1>5. Frame(t)
    BY <1>1, <1>2 DEF IInv, TypeOK, Frame
  <1>6. /\ pc'[t] \in {"member", "resolve"} /\ (pc'[t] = "resolve" => a.upload # None) /\ ask'[t] = a
        /\ isNew'[t] = FALSE /\ claimed'[t] = {} /\ answer'[t] = "none"
    <2>1. ~isNew[t] /\ claimed[t] = {} /\ answer[t] = "none"
      BY <1>2 DEF IInv, TxInv, NewInv, ClaimInv, AnswerInv, Inserted
    <2>2. QED
      BY <1>1, <1>2, <2>1 DEF IInv, TypeOK
  <1>7. TxInv(t)'
    <2>1. NewInv(t)' /\ FoundInv(t)' /\ ClaimInv(t)'
      BY <1>6 DEF NewInv, FoundInv, ClaimInv, Inserted
    <2>2. AnswerInv(t)'
      BY <1>2, <1>3, <1>6 DEF AnswerInv, Repeats, SameKey, UploadOf
    <2>3. QED
      BY <1>6, <2>1, <2>2 DEF TxInv
  <1>8. \A s \in Txs \ {t} : Apart(s, t)'
    BY <1>5, <1>6, ApartAsBefore DEF Inserted
  <1>9. QED
    BY <1>2, <1>4, <1>5, <1>7, <1>8, LocalStep DEF IInv, TypeOK, Time, store

LEMMA ResolveKeeps ==
  ASSUME IInv, NEW t \in Txs, Resolve(t)
  PROVE  IInv'
  <1> DEFINE u == ask[t].upload
  <1>1. pc[t] = "resolve" /\ u \in Uploads /\ answer[t] = "none" /\ ~isNew[t] /\ claimed[t] = {}
    BY StoreAssumption DEF Resolve, IInv, TxInv, ClaimInv, NewInv, AnswerInv, Inserted, Ask
  <1>2. CASE Refuse(t, "notfound") \/ Refuse(t, "unverified")
    BY <1>1, <1>2, RefuseKeeps
  <1>3. CASE Refuse(t, "conflict") /\ status[u] = "pending"
    <2>1. attached[u] = None
      BY <1>1, <1>3 DEF IInv, Images, UploadsSettled
    <2>2. stored[t] = None
      <3> SUFFICES ASSUME stored[t] # None PROVE FALSE
        OBVIOUS
      <3>1. UploadOf(stored[t].id) = u /\ stored[t].id \in MsgIds
        BY DEF IInv, TypeOK, TxInv, AnswerInv, Repeats, Row
      <3>2. attached[u] = stored[t].id
        BY <1>1, <3>1, LogAssumption DEF UploadOf
      <3>3. QED
        BY <2>1, <3>1, <3>2, StoreAssumption DEF MsgIds
    <2>3. QED
      BY <1>1, <1>3, <2>2, RefuseKeeps
  <1>4. CASE GoTo(t, "member") /\ UNCHANGED <<world, store, local>>
    <2>1. pc'[t] = "member" /\ isNew'[t] = FALSE /\ claimed'[t] = {}
      BY <1>1, <1>4 DEF GoTo, local, IInv, TypeOK
    <2>2. NewInv(t)' /\ FoundInv(t)' /\ ClaimInv(t)' /\ ~Inserted(t)'
      BY <2>1 DEF NewInv, FoundInv, ClaimInv, Inserted
    <2>3. QED
      BY <1>1, <1>4, <2>2, GoesOn DEF Phase
  <1>5. QED
    BY <1>2, <1>3, <1>4 DEF Resolve

LEMMA CheckMemberKeeps ==
  ASSUME IInv, NEW t \in Txs, CheckMember(t)
  PROVE  IInv'
  <1>1. pc[t] = "member" /\ answer[t] = "none" /\ ~isNew[t] /\ claimed[t] = {}
    BY DEF CheckMember, IInv, TxInv, ClaimInv, NewInv, AnswerInv, Inserted
  <1>2. CASE Refuse(t, "forbidden")
    BY <1>1, <1>2, RefuseKeeps
  <1>3. CASE GoTo(t, "insert") /\ UNCHANGED <<world, store, local>>
    <2>1. pc'[t] = "insert" /\ isNew'[t] = FALSE /\ claimed'[t] = {}
      BY <1>1, <1>3 DEF GoTo, local, IInv, TypeOK
    <2>2. NewInv(t)' /\ FoundInv(t)' /\ ClaimInv(t)' /\ ~Inserted(t)'
      BY <2>1 DEF NewInv, FoundInv, ClaimInv, Inserted
    <2>3. QED
      BY <1>1, <1>3, <2>2, GoesOn DEF Phase
  <1>4. QED
    BY <1>2, <1>3 DEF CheckMember

LEMMA InsertKeeps ==
  ASSUME IInv, NEW t \in Txs, Insert(t)
  PROVE  IInv'
  <1>1. /\ pc[t] = "insert" /\ answer[t] = "none" /\ ~isNew[t] /\ claimed[t] = {} /\ ask[t] \in Asks
        /\ \A s \in Txs : Inserted(s) => ~SameKey(ask[s], ask[t])
    BY DEF Insert, KeyFree, IInv, TxInv, ClaimInv, NewInv, AnswerInv, Inserted
  <1>2. CASE Keyed(ask[t]) # {}
    <2>1. GoTo(t, "reload") /\ UNCHANGED <<world, store, local>>
      BY <1>2 DEF Insert, world, local
    <2>2. pc'[t] = "reload" /\ isNew'[t] = FALSE /\ claimed'[t] = {}
      BY <1>1, <2>1 DEF GoTo, local, IInv, TypeOK
    <2>3. NewInv(t)' /\ FoundInv(t)' /\ ClaimInv(t)' /\ ~Inserted(t)'
      BY <2>2 DEF NewInv, FoundInv, ClaimInv, Inserted
    <2>4. QED
      BY <1>1, <2>1, <2>3, GoesOn DEF Phase
  <1>3. CASE Keyed(ask[t]) = {}
    <2>1. PICK id \in MsgIds :
            /\ \A r \in rows : r.id # id
            /\ \A s \in Txs : Inserted(s) => row[s].id # id
            /\ now' \in now .. MaxTime
            /\ row' = [row EXCEPT ![t] = [id |-> id, sender |-> ask[t].sender, cid |-> ask[t].cid,
                                         text |-> ask[t].text, at |-> now']]
      BY <1>3 DEF Insert, KeyFree
    <2>2. /\ isNew' = [isNew EXCEPT ![t] = TRUE]
          /\ pc' = [pc EXCEPT ![t] = IF ask[t].upload = None THEN "touch" ELSE "claim"]
          /\ UNCHANGED <<roster, expired, rows, attached, status, ask, claimed, answer, stored>>
      BY <1>3 DEF Insert, GoTo, store
    <2>3. now \in Nat /\ now' \in Time /\ now <= now'
      BY <2>1 DEF IInv, TypeOK, Time
    <2> DEFINE new == [id |-> id, sender |-> ask[t].sender, cid |-> ask[t].cid, text |-> ask[t].text, at |-> now']
    <2>4. new \in Row /\ new.id = id /\ new.at = now' /\ new.text = ask[t].text /\ SameKey(new, ask[t])
      <3>1. ask[t].sender \in Users /\ ask[t].cid \in ClientIds /\ ask[t].text \in Texts
        BY <1>1, StoreAssumption DEF Ask
      <3>2. QED
        BY <2>3, <3>1 DEF Row, SameKey
    <2> HIDE DEF new
    <2>5. row' = [row EXCEPT ![t] = new]
      BY <2>1 DEF new
    <2>6. TypeOK'
      <3>1. row' \in [Txs -> Row \cup {None}]
        BY <2>4, <2>5 DEF IInv, TypeOK
      <3>2. pc' \in [Txs -> Phase] /\ isNew' \in [Txs -> BOOLEAN]
        BY <2>2 DEF IInv, TypeOK, Phase
      <3>3. QED
        BY <2>2, <2>3, <3>1, <3>2 DEF IInv, TypeOK
    <2>7. Frame(t)
      BY <2>2, <2>5 DEF IInv, TypeOK, Frame
    <2>8. /\ pc'[t] = (IF ask[t].upload = None THEN "touch" ELSE "claim") /\ isNew'[t] = TRUE /\ row'[t] = new
          /\ ask'[t] = ask[t] /\ claimed'[t] = {} /\ answer'[t] = "none" /\ stored'[t] = stored[t] /\ Inserted(t)'
      BY <1>1, <2>2, <2>5 DEF IInv, TypeOK, Inserted
    <2>9. stored[t] = None
      BY <1>3 DEF IInv, TxInv, AnswerInv, Repeats, Keyed
    <2>10. TxInv(t)'
      <3>1. \A r \in rows' : r.id # new.id /\ ~SameKey(r, ask[t])
        BY <1>3, <2>1, <2>2, <2>4 DEF Keyed
      <3>2. new.at <= now'
        BY <2>3, <2>4 DEF Time
      <3>3. NewInv(t)'
        BY <2>4, <2>8, <3>1, <3>2 DEF NewInv, SameKey
      <3>4. FoundInv(t)' /\ ClaimInv(t)' /\ AnswerInv(t)'
        BY <2>8, <2>9 DEF FoundInv, ClaimInv, AnswerInv
      <3>5. QED
        BY <1>1, <2>8, <3>3, <3>4 DEF TxInv
    <2>11. ASSUME NEW s \in Txs \ {t} PROVE Apart(s, t)'
      <3>1. /\ pc'[s] = pc[s] /\ row'[s] = row[s] /\ isNew'[s] = isNew[s] /\ ask'[s] = ask[s]
        BY <2>7 DEF Frame
      <3>2. Inserted(s)' => row[s].id # new.id /\ ~SameKey(ask[s], ask[t])
        BY <1>1, <2>1, <2>4, <3>1 DEF Inserted
      <3>3. QED
        BY <2>8, <3>1, <3>2 DEF Apart, SameKey
    <2>12. QED
      BY <2>2, <2>3, <2>6, <2>7, <2>10, <2>11, LocalStep DEF store
  <1>4. QED
    BY <1>2, <1>3

\* The message stored under a key is the only one under it.
LEMMA OneUnderKey ==
  ASSUME IInv, NEW t \in Txs, stored[t] # None, NEW r \in Keyed(ask[t])
  PROVE  r = stored[t]
  BY DEF IInv, Keys, Keyed, TxInv, AnswerInv, Repeats, SameKey

LEMMA ReloadKeeps ==
  ASSUME IInv, NEW t \in Txs, Reload(t)
  PROVE  IInv'
  <1>1. pc[t] = "reload" /\ answer[t] = "none" /\ ~isNew[t] /\ claimed[t] = {} /\ ask[t] \in Asks
    BY DEF Reload, IInv, TxInv, ClaimInv, NewInv, AnswerInv, Inserted
  <1>2. PICK r \in Keyed(ask[t]) :
          IF ask[t].conv = Canon /\ r.text = ask[t].text
            THEN /\ row' = [row EXCEPT ![t] = r]
                 /\ GoTo(t, "compare")
                 /\ UNCHANGED <<world, store, ask, isNew, claimed, answer, stored>>
            ELSE Refuse(t, "conflict")
    BY DEF Reload
  <1>3. CASE ~(ask[t].conv = Canon /\ r.text = ask[t].text)
    <2>1. stored[t] # None => r.text = ask[t].text
      BY OneUnderKey DEF IInv, TxInv, AnswerInv, Repeats
    <2>2. QED
      BY <1>1, <1>2, <1>3, <2>1, RefuseKeeps
  <1>4. CASE ask[t].conv = Canon /\ r.text = ask[t].text
    <2>1. /\ row' = [row EXCEPT ![t] = r] /\ pc' = [pc EXCEPT ![t] = "compare"]
          /\ UNCHANGED <<now, roster, expired, rows, attached, status, ask, isNew, claimed, answer, stored>>
      BY <1>2, <1>4 DEF GoTo, world, store
    <2>2. r \in rows /\ r \in Row
      BY DEF Keyed, IInv, TypeOK
    <2>3. TypeOK' /\ Frame(t)
      BY <2>1, <2>2 DEF IInv, TypeOK, Frame, Phase
    <2>4. pc'[t] = "compare" /\ row'[t] = r /\ isNew'[t] = FALSE /\ claimed'[t] = {} /\ answer'[t] = "none"
          /\ ~Inserted(t)'
      BY <1>1, <2>1 DEF IInv, TypeOK, Inserted
    <2>5. NewInv(t)' /\ FoundInv(t)' /\ ClaimInv(t)'
      BY <1>4, <2>1, <2>4 DEF NewInv, FoundInv, ClaimInv, Keyed, SameKey
    <2>6. AnswerInv(t)'
      <3>1. AnswerInv(t)
        BY DEF IInv, TxInv
      <3>2. Repeats(stored[t], ask[t])' <=> Repeats(stored[t], ask[t])
        BY <2>1 DEF Repeats, SameKey, UploadOf
      <3>3. QED
        BY <2>1, <2>4, <3>1, <3>2 DEF AnswerInv
    <2>7. TxInv(t)'
      BY <1>1, <2>1, <2>5, <2>6 DEF TxInv
    <2>8. \A s \in Txs \ {t} : Apart(s, t)'
      BY <2>3, <2>4, ApartAsBefore
    <2>9. QED
      BY <2>1, <2>3, <2>7, <2>8, LocalStep DEF IInv, TypeOK, Time, store
  <1>5. QED
    BY <1>3, <1>4

LEMMA CompareKeeps ==
  ASSUME IInv, NEW t \in Txs, Compare(t)
  PROVE  IInv'
  <1>1. /\ pc[t] = "compare" /\ answer[t] = "none" /\ ~isNew[t] /\ claimed[t] = {}
        /\ row[t] \in Keyed(ask[t]) /\ row[t].text = ask[t].text
    BY DEF Compare, IInv, TxInv, ClaimInv, NewInv, FoundInv, AnswerInv, Inserted
  <1>2. CASE UploadOf(row[t].id) # ask[t].upload
    <2>1. Refuse(t, "conflict")
      BY <1>2 DEF Compare
    <2>2. stored[t] # None => UploadOf(row[t].id) = ask[t].upload
      BY <1>1, OneUnderKey DEF IInv, TxInv, AnswerInv, Repeats
    <2>3. QED
      BY <1>1, <1>2, <2>1, <2>2, RefuseKeeps
  <1>3. CASE UploadOf(row[t].id) = ask[t].upload
    <2>1. GoTo(t, "recipients") /\ UNCHANGED <<world, store, local>>
      BY <1>3 DEF Compare
    <2>2. /\ pc'[t] = "recipients" /\ isNew'[t] = FALSE /\ claimed'[t] = {} /\ ~Inserted(t)'
          /\ UNCHANGED <<rows, attached, ask, row>>
      BY <1>1, <2>1 DEF GoTo, local, store, IInv, TypeOK, Inserted
    <2>3. NewInv(t)' /\ ClaimInv(t)'
      BY <2>2 DEF NewInv, ClaimInv
    <2>4. Repeats(row[t], ask[t])
      BY <1>1, <1>3 DEF Repeats, Keyed
    <2>5. FoundInv(t)'
      BY <1>1, <2>2, <2>4 DEF FoundInv, Keyed, Repeats, SameKey, UploadOf
    <2>6. QED
      BY <1>1, <2>1, <2>2, <2>3, <2>5, GoesOn DEF Phase
  <1>4. QED
    BY <1>2, <1>3

\* A request that has written to its upload, and goes on.
LEMMA Claims ==
  ASSUME IInv, NEW t \in Txs, NEW p \in {"attach", "touch"}, NEW what \in SUBSET {"status", "attachment"},
         GoTo(t, p), claimed' = [claimed EXCEPT ![t] = what],
         UNCHANGED <<world, store, ask, row, isNew, answer, stored>>,
         pc[t] \in {"claim", "attach"}, ClaimInv(t)',
         \A s \in Txs \ {t} : claimed[s] # {} => ask[s].upload # ask[t].upload
  PROVE  IInv'
  <1>1. /\ pc' = [pc EXCEPT ![t] = p]
        /\ UNCHANGED <<now, roster, expired, rows, attached, status, ask, row, isNew, answer, stored>>
    BY DEF GoTo, world, store
  <1>2. TypeOK' /\ Frame(t)
    BY <1>1 DEF IInv, TypeOK, Frame, Phase
  <1>3. /\ pc'[t] = p /\ isNew[t] /\ answer[t] = "none" /\ Inserted(t) /\ Inserted(t)' /\ ask[t] \in Asks
    BY <1>1 DEF IInv, TypeOK, TxInv, NewInv, AnswerInv, Inserted
  <1>4. NewInv(t)'
    BY <1>1, <1>3 DEF IInv, TxInv, NewInv, SameKey
  <1>5. FoundInv(t)'
    BY <1>1, <1>3 DEF FoundInv
  <1>6. AnswerInv(t)'
    BY <1>1, <1>3 DEF IInv, TxInv, AnswerInv
  <1>7. TxInv(t)'
    BY <1>1, <1>3, <1>4, <1>5, <1>6 DEF TxInv
  <1>8. ASSUME NEW s \in Txs \ {t} PROVE Apart(s, t)'
    <2>1. Apart(s, t)
      BY DEF IInv
    <2>2. Inserted(s)' = Inserted(s) /\ claimed'[s] = claimed[s]
      BY <1>2 DEF Frame, Inserted
    <2>3. QED
      BY <1>1, <1>3, <2>1, <2>2 DEF Apart, SameKey
  <1>9. QED
    BY <1>1, <1>2, <1>7, <1>8, LocalStep DEF IInv, TypeOK, Time, store

LEMMA ClaimKeeps ==
  ASSUME IInv, NEW t \in Txs, Claim(t)
  PROVE  IInv'
  <1>1. pc[t] = "claim" /\ isNew[t] /\ ask[t].upload # None /\ answer[t] = "none" /\ stored[t] = None
    BY DEF Claim, UploadFree, IInv, TxInv, ClaimInv, NewInv, AnswerInv
  <1>2. CASE Refuse(t, "conflict")
    BY <1>1, <1>2, RefuseKeeps
  <1>3. CASE ~Refuse(t, "conflict")
    <2>1. /\ claimed' = [claimed EXCEPT ![t] = {"status"}] /\ GoTo(t, "attach")
          /\ UNCHANGED <<world, store, ask, row, isNew, answer, stored>>
          /\ Owner[ask[t].upload] = ask[t].sender
          /\ \A s \in Txs : claimed[s] # {} => ask[s].upload # ask[t].upload
      BY <1>3 DEF Claim, UploadFree
    <2>2. pc'[t] = "attach" /\ claimed'[t] = {"status"} /\ Inserted(t)' /\ ask'[t] = ask[t]
      BY <1>1, <2>1 DEF GoTo, IInv, TypeOK, Inserted
    <2>3. ClaimInv(t)'
      BY <1>1, <2>1, <2>2 DEF ClaimInv
    <2>4. QED
      BY <1>1, <2>1, <2>3, Claims
  <1>4. QED
    BY <1>2, <1>3

LEMMA AttachKeeps ==
  ASSUME IInv, NEW t \in Txs, Attach(t)
  PROVE  IInv'
  <1>1. /\ pc[t] = "attach" /\ isNew[t] /\ ask[t].upload # None /\ answer[t] = "none" /\ stored[t] = None
        /\ claimed[t] = {"status"} /\ Owner[ask[t].upload] = ask[t].sender
    BY DEF Attach, IInv, TxInv, ClaimInv, NewInv, AnswerInv
  <1>2. CASE Refuse(t, "conflict")
    BY <1>1, <1>2, RefuseKeeps
  <1>3. CASE ~Refuse(t, "conflict")
    <2>1. /\ claimed' = [claimed EXCEPT ![t] = {"status", "attachment"}] /\ GoTo(t, "touch")
          /\ UNCHANGED <<world, store, ask, row, isNew, answer, stored>>
          /\ attached[ask[t].upload] = None
      <3>1. claimed[t] \cup {"attachment"} = {"status", "attachment"}
        BY <1>1
      <3>2. QED
        BY <1>3, <3>1 DEF Attach
    <2>2. /\ pc'[t] = "touch" /\ claimed'[t] = {"status", "attachment"} /\ Inserted(t)'
          /\ ask'[t] = ask[t] /\ attached' = attached
      BY <1>1, <2>1 DEF GoTo, store, IInv, TypeOK, Inserted
    <2>3. ClaimInv(t)'
      BY <1>1, <2>1, <2>2 DEF ClaimInv
    <2>4. \A s \in Txs \ {t} : claimed[s] # {} => ask[s].upload # ask[t].upload
      BY <1>1 DEF IInv, Apart
    <2>5. QED
      BY <1>1, <2>1, <2>3, <2>4, Claims
  <1>4. QED
    BY <1>2, <1>3

LEMMA TouchKeeps ==
  ASSUME IInv, NEW t \in Txs, Touch(t) \/ Recipients(t)
  PROVE  IInv'
  <1>1. PICK p \in {"recipients", "commit"} :
          /\ GoTo(t, p) /\ UNCHANGED <<world, store, local>>
          /\ pc[t] = (IF p = "commit" THEN "recipients" ELSE "touch")
    BY DEF Touch, Recipients
  <1>2. /\ pc'[t] = p /\ UNCHANGED <<now, rows, attached, ask, row, isNew, claimed, answer, stored>>
    BY <1>1 DEF GoTo, world, store, local, IInv, TypeOK
  <1>3. answer[t] = "none" /\ TxInv(t) /\ Inserted(t)' = Inserted(t)
    BY <1>1, <1>2 DEF IInv, TxInv, AnswerInv, Inserted
  <1>4. NewInv(t)'
    BY <1>1, <1>2, <1>3 DEF TxInv, NewInv, SameKey
  <1>5. FoundInv(t)'
    BY <1>1, <1>2, <1>3 DEF TxInv, NewInv, FoundInv, Keyed, Repeats, SameKey, UploadOf
  <1>6. ClaimInv(t)'
    BY <1>1, <1>2, <1>3 DEF TxInv, ClaimInv
  <1>7. QED
    BY <1>1, <1>3, <1>4, <1>5, <1>6, GoesOn DEF Phase

LEMMA AbortKeeps == ASSUME IInv, NEW t \in Txs, Abort(t) PROVE IInv'
  BY RefuseKeeps DEF Abort

LEMMA AroundKeeps ==
  ASSUME IInv, (\E u \in Uploads : Expire(u)) \/ (\E u \in Users : Leave(u)) \/ UNCHANGED vars
  PROVE  IInv'
  <1>1. UNCHANGED <<now, store, pc, local>> /\ roster' \subseteq Users /\ expired' \subseteq Uploads
    BY DEF Expire, Leave, vars, world, IInv, TypeOK
  <1>2. UNCHANGED <<now, rows, attached, status, pc, ask, row, isNew, claimed, answer, stored>>
    BY <1>1 DEF store, local
  <1>3. TypeOK'
    BY <1>1, <1>2 DEF IInv, TypeOK
  <1>4. Keys' /\ Images' /\ \A r \in rows' : r.at <= now'
    BY <1>2 DEF IInv, Keys, Images, UploadsSettled, SameKey
  <1>5. ASSUME NEW t \in Txs PROVE TxInv(t)'
    <2>1. TxInv(t)
      BY DEF IInv
    <2>2. NewInv(t)' /\ ClaimInv(t)'
      BY <1>2, <2>1 DEF TxInv, NewInv, ClaimInv, Inserted, SameKey
    <2>3. FoundInv(t)' /\ AnswerInv(t)'
      BY <1>2, <2>1 DEF TxInv, FoundInv, AnswerInv, Keyed, Repeats, SameKey, UploadOf
    <2>4. QED
      BY <1>2, <2>1, <2>2, <2>3 DEF TxInv
  <1>6. ASSUME NEW s \in Txs, NEW t \in Txs, s # t PROVE Apart(s, t)'
    BY <1>2, <1>6 DEF IInv, Apart, Inserted, SameKey
  <1>7. QED
    BY <1>3, <1>4, <1>5, <1>6 DEF IInv

-----------------------------------------------------------------------------
(* The commit *)

LEMMA CommitOfNew ==
  ASSUME IInv, NEW t \in Txs, Commit(t), isNew[t]
  PROVE  /\ Inserted(t) /\ TxInv(t) /\ row[t].id \in MsgIds /\ rows' = rows \cup {row[t]}
         /\ ask[t] \in Ask /\ (ask[t].upload # None => Owner[ask[t].upload] = ask[t].sender /\ attached[ask[t].upload] = None)
         /\ \A u \in Uploads : attached'[u] = IF u = ask[t].upload THEN row[t].id ELSE attached[u]
         /\ \A u \in Uploads : status'[u] = IF u = ask[t].upload THEN "uploaded" ELSE status[u]
  <1>1. pc[t] = "commit" /\ Inserted(t) /\ TxInv(t)
    BY DEF IInv, Commit, Inserted
  <1>2. row[t] \in Row /\ ask[t] \in Ask
    BY <1>1, StoreAssumption DEF TxInv, NewInv
  <1>3. /\ ask[t].upload # None =>
             claimed[t] = {"status", "attachment"} /\ Owner[ask[t].upload] = ask[t].sender /\ attached[ask[t].upload] = None
        /\ ask[t].upload = None => claimed[t] = {}
    BY <1>1 DEF TxInv, ClaimInv
  <1>4. \A u \in Uploads : u = ask[t].upload => "status" \in claimed[t] /\ "attachment" \in claimed[t]
    BY <1>3, LogAssumption
  <1>5. QED
    BY <1>1, <1>2, <1>3, <1>4 DEF Commit, Row

LEMMA CommitOfFound ==
  ASSUME IInv, NEW t \in Txs, Commit(t), ~isNew[t]
  PROVE  UNCHANGED <<rows, attached, status>>
  <1>1. claimed[t] = {}
    BY DEF IInv, TxInv, ClaimInv, Inserted
  <1>2. UNCHANGED rows
    BY DEF Commit
  <1>3. status' = [u \in Uploads |-> status[u]] /\ attached' = [u \in Uploads |-> attached[u]]
    BY <1>1 DEF Commit
  <1>4. QED
    BY <1>2, <1>3 DEF IInv, TypeOK

\* The new message is read with its own image, and the others with theirs.
LEMMA CommitAttaches ==
  ASSUME IInv, NEW t \in Txs, Commit(t), isNew[t]
  PROVE  /\ UploadOf(row[t].id)' = ask[t].upload
         /\ \A r \in rows : UploadOf(r.id)' = UploadOf(r.id)
  <1>1. /\ row[t].id \in MsgIds /\ ask[t] \in Ask /\ row' = row
        /\ ask[t].upload # None => attached[ask[t].upload] = None
        /\ \A u \in Uploads : attached'[u] = IF u = ask[t].upload THEN row[t].id ELSE attached[u]
        /\ \A r \in rows : r.id # row[t].id /\ r.id \in MsgIds
    <2>1. /\ Inserted(t) /\ TxInv(t) /\ row[t].id \in MsgIds /\ ask[t] \in Ask
          /\ ask[t].upload # None => attached[ask[t].upload] = None
          /\ \A u \in Uploads : attached'[u] = IF u = ask[t].upload THEN row[t].id ELSE attached[u]
      BY CommitOfNew
    <2>2. \A r \in rows : r.id # row[t].id
      BY <2>1 DEF TxInv, NewInv
    <2>3. \A r \in rows : r.id \in MsgIds
      BY DEF IInv, TypeOK, Row
    <2>4. row' = row
      BY DEF Commit
    <2>5. QED
      BY <2>1, <2>2, <2>3, <2>4
  <1>2. None \notin MsgIds /\ None \notin Uploads
    BY StoreAssumption, LogAssumption DEF MsgIds
  <1>3. \A u \in Uploads : attached[u] # row[t].id
    BY <1>1, <1>2 DEF IInv, Images
  <1>4. UploadOf(row[t].id)' = ask[t].upload
    <2>1. CASE ask[t].upload = None
      <3>1. \A u \in Uploads : attached'[u] # row'[t].id
        BY <1>1, <1>2, <1>3, <2>1
      <3>2. QED
        BY <2>1, <3>1 DEF UploadOf
    <2>2. CASE ask[t].upload # None
      <3>1. ask[t].upload \in Uploads /\ \A u \in Uploads : attached'[u] = row'[t].id <=> u = ask[t].upload
        BY <1>1, <1>2, <1>3, <2>2 DEF Ask
      <3>2. QED
        BY <3>1 DEF UploadOf
    <2>3. QED
      BY <2>1, <2>2
  <1>5. ASSUME NEW r \in rows PROVE UploadOf(r.id)' = UploadOf(r.id)
    <2>1. \A u \in Uploads : attached'[u] = r.id <=> attached[u] = r.id
      BY <1>1, <1>2
    <2>2. CASE \A u \in Uploads : attached[u] # r.id
      BY <2>1, <2>2, HasNone, WillHaveNone
    <2>3. ASSUME NEW u \in Uploads, attached[u] = r.id PROVE UploadOf(r.id)' = UploadOf(r.id)
      <3>1. \A v \in Uploads : attached[v] = r.id => v = u
        BY <1>1, <1>2, <2>3 DEF IInv, Images
      <3>2. UploadOf(r.id) = u
        BY <2>3, <3>1, HasUpload
      <3>3. UploadOf(r.id)' = u
        BY <2>1, <2>3, <3>1, WillHaveUpload
      <3>4. QED
        BY <3>2, <3>3
    <2>4. QED
      BY <2>2, <2>3
  <1>6. QED
    BY <1>4, <1>5

LEMMA CommitKeeps ==
  ASSUME IInv, NEW t \in Txs, Commit(t)
  PROVE  IInv'
  <1>1. /\ pc[t] = "commit" /\ pc' = [pc EXCEPT ![t] = "done"] /\ claimed' = [claimed EXCEPT ![t] = {}]
        /\ UNCHANGED <<now, roster, expired, ask, row, isNew, stored>> /\ TxInv(t)
    BY DEF Commit, GoTo, world, IInv
  <1>2. PICK result \in {"ok", "error"} : answer' = [answer EXCEPT ![t] = result]
    BY DEF Commit
  <1>3. pc'[t] = "done" /\ claimed'[t] = {} /\ answer'[t] = result /\ ~Inserted(t)'
    BY <1>1, <1>2 DEF IInv, TypeOK, Inserted
  <1>4. Frame(t)
    BY <1>1, <1>2 DEF IInv, TypeOK, Frame
  <1>5. CASE ~isNew[t]
    <2>1. UNCHANGED <<rows, attached, status>>
      BY <1>5, CommitOfFound
    <2>2. TypeOK'
      BY <1>1, <1>2, <2>1 DEF IInv, TypeOK, Phase, Result
    <2>3. NewInv(t)' /\ FoundInv(t)' /\ ClaimInv(t)'
      BY <1>3 DEF NewInv, FoundInv, ClaimInv
    <2>4. AnswerInv(t)'
      BY <1>1, <1>3, <1>5, <2>1 DEF TxInv, FoundInv, AnswerInv, Keyed, Repeats, SameKey, UploadOf
    <2>5. TxInv(t)'
      BY <1>1, <2>3, <2>4 DEF TxInv
    <2>6. \A s \in Txs \ {t} : Apart(s, t)'
      BY <1>3, <1>4, ApartAsBefore
    <2>7. QED
      BY <1>1, <1>4, <2>1, <2>2, <2>5, <2>6, LocalStep DEF IInv, TypeOK, Time, store
  <1>6. CASE isNew[t]
    <2>1. /\ Inserted(t) /\ row[t].id \in MsgIds /\ rows' = rows \cup {row[t]} /\ ask[t] \in Ask
          /\ ask[t].upload # None => Owner[ask[t].upload] = ask[t].sender /\ attached[ask[t].upload] = None
          /\ \A u \in Uploads : attached'[u] = IF u = ask[t].upload THEN row[t].id ELSE attached[u]
          /\ \A u \in Uploads : status'[u] = IF u = ask[t].upload THEN "uploaded" ELSE status[u]
      BY <1>6, CommitOfNew
    <2>2. /\ row[t] \in Row /\ SameKey(row[t], ask[t]) /\ row[t].text = ask[t].text /\ row[t].at <= now
          /\ \A r \in rows : r.id # row[t].id /\ ~SameKey(r, ask[t])
      BY <1>1, <2>1 DEF TxInv, NewInv
    <2>3. UploadOf(row[t].id)' = ask[t].upload /\ \A r \in rows : UploadOf(r.id)' = UploadOf(r.id)
      BY <1>6, CommitAttaches
    <2>4. None \notin MsgIds /\ None \notin Uploads
      BY StoreAssumption, LogAssumption DEF MsgIds
    <2>5. TypeOK'
      <3>1. attached' \in [Uploads -> MsgIds \cup {None}]
        <4>1. attached' = [u \in Uploads |-> attached'[u]]
          BY DEF Commit
        <4>2. QED
          BY <2>1, <4>1 DEF IInv, TypeOK
      <3>2. status' \in [Uploads -> {"pending", "uploaded"}]
        <4>1. status' = [u \in Uploads |-> status'[u]]
          BY DEF Commit
        <4>2. QED
          BY <2>1, <4>1 DEF IInv, TypeOK
      <3>3. QED
        BY <1>1, <1>2, <2>1, <2>2, <3>1, <3>2 DEF IInv, TypeOK, Phase, Result
    <2>6. Keys'
      BY <2>1, <2>2 DEF IInv, Keys, SameKey
    <2>7. Images'
      <3>1. UploadsSettled'
        BY <2>1, <2>4 DEF IInv, Images, UploadsSettled
      <3>2. \A u \in Uploads : attached'[u] # None => \E r \in rows' : r.id = attached'[u] /\ r.sender = Owner[u]
        BY <2>1, <2>2, <2>4 DEF IInv, Images, SameKey
      <3>3. \A u \in Uploads : attached[u] # row[t].id
        BY <2>1, <2>2, <2>4 DEF IInv, Images
      <3>4. \A u, v \in Uploads : attached'[u] # None /\ attached'[u] = attached'[v] => u = v
        BY <2>1, <3>3 DEF IInv, Images
      <3>5. QED
        BY <3>1, <3>2, <3>4 DEF Images
    <2>8. \A r \in rows' : r.at <= now'
      BY <1>1, <2>1, <2>2 DEF IInv
    <2>10. TxInv(t)'
      <3>1. NewInv(t)' /\ FoundInv(t)' /\ ClaimInv(t)'
        BY <1>1, <1>3 DEF NewInv, FoundInv, ClaimInv
      <3>2. stored[t] = None
        BY <1>1, <1>6 DEF TxInv, AnswerInv
      <3>3. row[t] \in rows' /\ Repeats(row[t], ask[t])'
        BY <1>1, <2>1, <2>2, <2>3 DEF Repeats, SameKey, UploadOf
      <3>4. QED
        BY <1>1, <1>3, <3>1, <3>2, <3>3 DEF TxInv, AnswerInv
    <2>11. ASSUME NEW s \in Txs \ {t} PROVE TxInv(s)' /\ Apart(s, t)'
      <3>1. TxInv(s) /\ Apart(s, t)
        BY DEF IInv
      <3>2. /\ pc'[s] = pc[s] /\ ask'[s] = ask[s] /\ row'[s] = row[s] /\ isNew'[s] = isNew[s]
            /\ claimed'[s] = claimed[s] /\ answer'[s] = answer[s] /\ stored'[s] = stored[s]
            /\ Inserted(s)' = Inserted(s)
        BY <1>4 DEF Frame, Inserted
      <3>3. NewInv(s)'
        <4>1. Inserted(s) => row[s].id # row[t].id /\ ~SameKey(row[t], ask[s])
          BY <2>1, <2>2, <3>1 DEF Apart, SameKey
        <4>2. QED
          BY <1>1, <2>1, <3>1, <3>2, <4>1 DEF TxInv, NewInv, SameKey
      <3>5. FoundInv(s)'
        <4>1. ~isNew[s] /\ pc[s] \in {"compare", "recipients", "commit"} => row[s] \in rows /\ SameKey(row[s], ask[s])
          BY <3>1 DEF TxInv, FoundInv, Keyed
        <4>2. ~isNew[s] /\ pc[s] \in {"recipients", "commit"} => Repeats(row[s], ask[s])'
          BY <1>1, <2>3, <3>1, <3>2, <4>1 DEF TxInv, FoundInv, Repeats, SameKey
        <4>3. QED
          BY <1>1, <2>1, <3>1, <3>2, <4>1, <4>2 DEF TxInv, FoundInv, Keyed, SameKey
      <3>6. ClaimInv(s)'
        <4>1. "attachment" \in claimed[s] => attached'[ask[s].upload] = None
          <5>1. "attachment" \in claimed[s] => ask[s].upload \in Uploads /\ attached[ask[s].upload] = None
            BY <3>1, StoreAssumption DEF TxInv, ClaimInv, Inserted, Ask
          <5>2. "attachment" \in claimed[s] => ask[s].upload # ask[t].upload
            <6>1. ask[t].upload # None => claimed[t] # {}
              BY <1>1, <2>1 DEF TxInv, ClaimInv
            <6>2. QED
              BY <2>4, <3>1, <5>1, <6>1 DEF Apart
          <5>3. QED
            BY <2>1, <5>1, <5>2
        <4>2. QED
          BY <3>1, <3>2, <4>1 DEF TxInv, ClaimInv
      <3>7. AnswerInv(s)'
        <4>1. answer[s] = "ok" => Repeats(row[s], ask[s])'
          BY <1>1, <2>3, <3>1, <3>2 DEF TxInv, AnswerInv, Repeats, SameKey
        <4>2. stored[s] # None => Repeats(stored[s], ask[s])'
          BY <1>1, <2>3, <3>1, <3>2 DEF TxInv, AnswerInv, Repeats, SameKey
        <4>3. QED
          BY <2>1, <3>1, <3>2, <4>1, <4>2 DEF TxInv, AnswerInv
      <3>8. TxInv(s)'
        BY <3>1, <3>2, <3>3, <3>5, <3>6, <3>7 DEF TxInv
      <3>9. QED
        BY <1>3, <3>8 DEF Apart
    <2>12. ASSUME NEW s \in Txs, NEW r \in Txs, s # r PROVE Apart(s, r)'
      <3>1. CASE s = t \/ r = t
        BY <1>3, <3>1 DEF Apart
      <3>2. CASE s # t /\ r # t
        BY <1>4, <2>12, <3>2 DEF IInv, Frame, Apart, Inserted, SameKey
      <3>3. QED
        BY <3>1, <3>2
    <2>13. QED
      BY <2>5, <2>6, <2>7, <2>8, <2>10, <2>11, <2>12 DEF IInv
  <1>7. QED
    BY <1>5, <1>6

-----------------------------------------------------------------------------
(* The theorems *)

LEMMA Starts == Init => IInv
  <1> SUFFICES ASSUME Init PROVE IInv
    OBVIOUS
  <1>1. TypeOK
    <2>1. /\ now \in Time /\ roster \subseteq Users /\ rows \subseteq Row /\ expired \subseteq Uploads
          /\ attached \in [Uploads -> MsgIds \cup {None}] /\ status \in [Uploads -> {"pending", "uploaded"}]
      BY LogAssumption DEF Init, Time
    <2>2. /\ pc \in [Txs -> Phase] /\ ask \in [Txs -> Asks \cup {None}] /\ row \in [Txs -> Row \cup {None}]
          /\ isNew \in [Txs -> BOOLEAN]
      BY DEF Init, Phase
    <2>3. /\ claimed \in [Txs -> SUBSET {"status", "attachment"}] /\ answer \in [Txs -> Result]
          /\ stored \in [Txs -> Row \cup {None}]
      BY DEF Init, Result
    <2>4. QED
      BY <2>1, <2>2, <2>3 DEF TypeOK
  <1>2. Keys /\ Images /\ \A r \in rows : r.at <= now
    BY DEF Init, Keys, Images, UploadsSettled
  <1>3. ASSUME NEW t \in Txs
        PROVE  pc[t] = "idle" /\ isNew[t] = FALSE /\ claimed[t] = {} /\ answer[t] = "none" /\ stored[t] = None
    BY DEF Init
  <1>4. ASSUME NEW t \in Txs PROVE TxInv(t)
    BY <1>3 DEF TxInv, NewInv, FoundInv, ClaimInv, AnswerInv, Inserted
  <1>5. ASSUME NEW s \in Txs, NEW t \in Txs PROVE Apart(s, t)
    BY <1>3 DEF Apart, Inserted
  <1>6. QED
    BY <1>1, <1>2, <1>4, <1>5 DEF IInv

LEMMA Keeps == ASSUME IInv, [Next]_vars PROVE IInv'
  <1>1. ASSUME NEW t \in Txs, Submit(t) \/ Statement(t) \/ Abort(t) PROVE IInv'
    BY <1>1, SubmitKeeps, ResolveKeeps, CheckMemberKeeps, InsertKeeps, ReloadKeeps, CompareKeeps, ClaimKeeps,
       AttachKeeps, TouchKeeps, CommitKeeps, AbortKeeps DEF Statement
  <1>2. QED
    BY <1>1, AroundKeeps DEF Next

\* The inductive invariant of sending, of which TypeOK is a part.
THEOREM StoreInvariance == Spec => []IInv
  BY Starts, Keeps, PTL DEF Spec

\* What is answered is stored, and all answers to one client_message_id name one message
\* (repository CreateMessage, however sends of one key overlap).
THEOREM AnswersAreStored == Spec => []AnswersStored
  <1>1. ASSUME IInv, NEW t \in Txs, answer[t] = "ok"
        PROVE  /\ row[t] \in rows /\ Repeats(row[t], ask[t])
               /\ \A s \in Txs : answer[s] = "ok" /\ SameKey(ask[s], ask[t]) => row[s] = row[t]
    <2>1. \A s \in Txs : answer[s] = "ok" => row[s] \in rows /\ Repeats(row[s], ask[s])
      BY <1>1 DEF IInv, TxInv, AnswerInv
    <2>2. QED
      BY <1>1, <2>1 DEF IInv, Keys, Repeats, SameKey
  <1>2. IInv => AnswersStored
    BY <1>1 DEF AnswersStored
  <1>3. QED
    BY <1>2, StoreInvariance, PTL

\* The retry of a stored message is not called a conflict with another request, whatever
\* else may refuse it: for clients that write the conversation's id as PostgreSQL does, which
\* Reload compares as text.
THEOREM RetriesAreAccepted ==
  ASSUME \A a \in Asks : a.conv = Canon
  PROVE  Spec => []RetryAccepted
  <1>1. IInv => RetryAccepted
    BY DEF IInv, TxInv, AnswerInv, RetryAccepted
  <1>2. QED
    BY <1>1, StoreInvariance, PTL

\* An upload is marked uploaded exactly when a message carries it (the UPDATE of
\* media_uploads and the INSERT into message_attachments commit together).
THEOREM UploadsAreSettled == Spec => []UploadsSettled
  <1>1. IInv => UploadsSettled
    BY DEF IInv, Images
  <1>2. QED
    BY <1>1, StoreInvariance, PTL

-----------------------------------------------------------------------------
(* The refinement *)

\* A commit makes one message appear; no other step changes what readers see.
LEMMA CommitAppears ==
  ASSUME IInv, NEW t \in Txs, Commit(t)
  PROVE  [Log!LogNext]_(Log!logVars)
  <1>1. CASE ~isNew[t]
    <2>1. UNCHANGED <<now, rows, attached>>
      BY <1>1, CommitOfFound DEF Commit, world
    <2>2. QED
      BY <2>1 DEF Log!logVars, Visible, Whole, UploadOf
  <1>2. CASE isNew[t]
    <2> DEFINE m == [id |-> row[t].id, sender |-> row[t].sender, cid |-> row[t].cid, text |-> row[t].text,
                     upload |-> ask[t].upload, at |-> row[t].at]
    <2>1. /\ Inserted(t) /\ TxInv(t) /\ rows' = rows \cup {row[t]} /\ ask[t] \in Ask
          /\ ask[t].upload # None => Owner[ask[t].upload] = ask[t].sender /\ attached[ask[t].upload] = None
      BY <1>2, CommitOfNew
    <2>2. /\ row[t] \in Row /\ SameKey(row[t], ask[t]) /\ row[t].at <= now
          /\ \A r \in rows : r.id # row[t].id /\ ~SameKey(r, ask[t])
      BY <2>1 DEF TxInv, NewInv
    <2>3. UNCHANGED <<now, row>>
      BY DEF Commit, world
    <2>4. UploadOf(row[t].id)' = ask[t].upload /\ \A r \in rows : UploadOf(r.id)' = UploadOf(r.id)
      BY <1>2, CommitAttaches
    <2>5. Visible' = Visible \cup {m}
      <3>1. Whole(row[t])' = m
        BY <2>3, <2>4 DEF Whole
      <3>2. \A r \in rows : Whole(r)' = Whole(r)
        BY <2>4 DEF Whole
      <3>3. Visible' = {Whole(r)' : r \in rows \cup {row'[t]}}
        BY <2>1, <2>3 DEF Visible
      <3>4. QED
        BY <2>3, <3>1, <3>2, <3>3 DEF Visible
    <2>6. m \in Log!Message
      BY <2>1, <2>2 DEF Row, Ask, MsgIds, Time, Log!Message, Log!MsgIds, Log!Time
    <2>7. Log!Fresh(m)
      <3>1. ASSUME NEW r \in rows
            PROVE  /\ m.id # r.id /\ <<m.sender, m.cid>> # <<r.sender, r.cid>>
                   /\ m.upload # None => m.upload # UploadOf(r.id)
        <4>1. m.id # r.id /\ <<m.sender, m.cid>> # <<r.sender, r.cid>>
          BY <2>2 DEF SameKey
        <4>2. ASSUME ask[t].upload # None, ask[t].upload = UploadOf(r.id) PROVE FALSE
          <5>1. attached[ask[t].upload] = r.id
            BY <4>2 DEF UploadOf
          <5>2. r.id \in MsgIds
            BY DEF IInv, TypeOK, Row
          <5>3. QED
            BY <2>1, <4>2, <5>1, <5>2, StoreAssumption DEF MsgIds
        <4>3. QED
          BY <4>1, <4>2
      <3>2. m.upload # None => Owner[m.upload] = m.sender
        BY <2>1, <2>2 DEF SameKey
      <3>3. QED
        BY <3>1, <3>2 DEF Log!Fresh, Visible, Whole
    <2>8. m.at <= now
      BY <2>2
    <2> HIDE DEF m
    <2>9. QED
      BY <2>3, <2>5, <2>6, <2>7, <2>8 DEF Log!LogNext, Log!Appear
  <1>3. QED
    BY <1>1, <1>2

LEMMA OthersUnseen ==
  ASSUME IInv, UNCHANGED <<rows, attached>>, now' = now \/ (now' \in Time /\ now <= now')
  PROVE  [Log!LogNext]_(Log!logVars)
  <1>1. UNCHANGED Visible
    BY DEF Visible, Whole, UploadOf
  <1>2. now \in Nat /\ (now' = now \/ now' \in now + 1 .. MaxTime)
    BY LogAssumption DEF IInv, TypeOK, Time
  <1>3. QED
    BY <1>1, <1>2 DEF Log!LogNext, Log!Tick, Log!logVars

\* Step by step the store does what MessageLog promises: messages appear whole and one at
\* a time, under a key and with an image of their own, and never change or go.
THEOREM StoreImplementsLog == Spec => ImplementsLog
  <1>1. Init => Log!LogInit
    BY DEF Init, Log!LogInit, Visible
  <1>2. IInv /\ [Next]_vars => [Log!LogNext]_(Log!logVars)
    <2> SUFFICES ASSUME IInv, [Next]_vars PROVE [Log!LogNext]_(Log!logVars)
      OBVIOUS
    <2>1. CASE \E t \in Txs : Commit(t)
      BY <2>1, CommitAppears
    <2>2. CASE \E t \in Txs : Insert(t)
      <3>1. UNCHANGED <<rows, attached>>
        BY <2>2 DEF Insert, store
      <3>2. now' = now \/ (now' \in Time /\ now <= now')
        BY <2>2 DEF Insert, IInv, TypeOK, Time
      <3>3. QED
        BY <3>1, <3>2, OthersUnseen
    <2>3. CASE \E t \in Txs : Submit(t) \/ Resolve(t) \/ CheckMember(t) \/ Reload(t) \/ Compare(t) \/ Claim(t)
                              \/ Attach(t) \/ Touch(t) \/ Recipients(t) \/ Abort(t)
      <3>1. UNCHANGED <<world, store>>
        BY <2>3 DEF Submit, Resolve, CheckMember, Reload, Compare, Claim, Attach, Touch, Recipients, Abort, Refuse
      <3>2. QED
        BY <3>1, OthersUnseen DEF world, store
    <2>4. CASE (\E u \in Uploads : Expire(u)) \/ (\E u \in Users : Leave(u)) \/ UNCHANGED vars
      <3>1. UNCHANGED <<now, store>>
        BY <2>4 DEF Expire, Leave, vars, world
      <3>2. QED
        BY <3>1, OthersUnseen DEF store
    <2>5. QED
      BY <2>1, <2>2, <2>3, <2>4 DEF Next, Statement
  <1>3. QED
    BY <1>1, <1>2, StoreInvariance, PTL DEF Spec, ImplementsLog, Log!LogSpec

-----------------------------------------------------------------------------
(* What sends wait for *)

\* The message whose key was taken is there to be read again.
StillThere == \A t \in Txs : pc[t] = "reload" => Keyed(ask[t]) # {}

\* Messages stay, and a request keeps its key.
LEMMA RowsStay ==
  ASSUME IInv, [Next]_vars
  PROVE  rows \subseteq rows' /\ \A t \in Txs : pc[t] = "idle" \/ ask'[t] = ask[t]
  <1> USE DEF world, store, local, Refuse
  <1>1. ASSUME NEW s \in Txs, Submit(s)
        PROVE  rows' = rows /\ \A t \in Txs : pc[t] = "idle" \/ ask'[t] = ask[t]
    BY <1>1 DEF Submit, IInv, TypeOK
  <1>2. ASSUME NEW s \in Txs, Commit(s) PROVE rows \subseteq rows' /\ ask' = ask
    BY <1>2 DEF Commit
  <1>3. ASSUME NEW s \in Txs, \/ Resolve(s) \/ CheckMember(s) \/ Insert(s) \/ Reload(s) \/ Compare(s) \/ Claim(s)
                              \/ Attach(s) \/ Touch(s) \/ Recipients(s) \/ Abort(s)
        PROVE  rows' = rows /\ ask' = ask
    BY <1>3 DEF Resolve, CheckMember, Insert, Reload, Compare, Claim, Attach, Touch, Recipients, Abort
  <1>4. CASE (\E u \in Uploads : Expire(u)) \/ (\E u \in Users : Leave(u)) \/ UNCHANGED vars
    BY <1>4 DEF Expire, Leave, vars
  <1>5. QED
    BY <1>1, <1>2, <1>3, <1>4 DEF Next, Statement

\* A request comes to read the message again only after it has found its key taken.
LEMMA ReloadStep ==
  ASSUME IInv, [Next]_vars, NEW t \in Txs, pc'[t] = "reload"
  PROVE  pc[t] = "reload" \/ (pc[t] = "insert" /\ Keyed(ask[t]) # {})
  <1>0. pc \in [Txs -> Phase]
    BY DEF IInv, TypeOK
  <1> USE DEF GoTo, Refuse
  <1>1. ASSUME NEW s \in Txs, Submit(s) PROVE pc[t] = "reload"
    BY <1>0, <1>1 DEF Submit
  <1>2. ASSUME NEW s \in Txs, Insert(s) PROVE pc[t] = "reload" \/ (pc[t] = "insert" /\ Keyed(ask[t]) # {})
    BY <1>0, <1>2 DEF Insert
  <1>3. ASSUME NEW s \in Txs, Resolve(s) \/ CheckMember(s) \/ Compare(s) \/ Claim(s) \/ Attach(s)
        PROVE  pc[t] = "reload"
    BY <1>0, <1>3 DEF Resolve, CheckMember, Compare, Claim, Attach
  <1>4. ASSUME NEW s \in Txs, Reload(s) \/ Touch(s) \/ Recipients(s) \/ Commit(s) \/ Abort(s)
        PROVE  pc[t] = "reload"
    BY <1>0, <1>4 DEF Reload, Touch, Recipients, Commit, Abort
  <1>5. CASE (\E u \in Uploads : Expire(u)) \/ (\E u \in Users : Leave(u)) \/ UNCHANGED vars
    BY <1>5 DEF Expire, Leave, vars
  <1>6. QED
    BY <1>1, <1>2, <1>3, <1>4, <1>5 DEF Next, Statement

\* Hence it finds one.
LEMMA StaysThere ==
  ASSUME IInv, StillThere, [Next]_vars
  PROVE  StillThere'
  <1> SUFFICES ASSUME NEW t \in Txs, pc'[t] = "reload" PROVE Keyed(ask[t])' # {}
    BY DEF StillThere
  <1>1. pc[t] # "idle" /\ Keyed(ask[t]) # {}
    BY ReloadStep DEF StillThere
  <1>2. rows \subseteq rows' /\ ask'[t] = ask[t]
    BY <1>1, RowsStay
  <1>3. QED
    BY <1>1, <1>2 DEF Keyed, SameKey

\* The locks have an order: a send takes its key, then its upload, then the conversation's
\* row, and waits only for one that holds what it waits for (message.go:181-225).  So the
\* send that is furthest waits for nobody, however many sends are under way.
LEMMA FurthestGoesOn ==
  ASSUME IInv, StillThere, NEW t \in Txs, UnderWay(t)
  PROVE  \E s \in Txs : UnderWay(s) /\ ~Waits(s)
  <1>1. CASE \E s \in Txs : pc[s] \in {"attach", "recipients", "commit"}
    BY <1>1 DEF UnderWay, Waits
  <1>2. CASE (\A s \in Txs : pc[s] \notin {"attach", "recipients", "commit"}) /\ \E s \in Txs : pc[s] = "touch"
    <2>1. \A s \in Txs : ConversationFree(s)
      BY <1>2 DEF ConversationFree
    <2>2. QED
      BY <1>2, <2>1 DEF UnderWay, Waits
  <1>3. CASE (\A s \in Txs : pc[s] \notin {"attach", "recipients", "commit", "touch"}) /\ \E s \in Txs : pc[s] = "claim"
    <2>1. \A s \in Txs : claimed[s] = {}
      BY <1>3 DEF IInv, TxInv, ClaimInv, Inserted
    <2>2. QED
      BY <1>3, <2>1 DEF UnderWay, Waits, UploadFree
  <1>4. CASE \A s \in Txs : pc[s] \notin {"attach", "recipients", "commit", "touch", "claim"}
    <2>1. KeyFree(t)
      BY <1>4 DEF KeyFree, Inserted
    <2>2. QED
      BY <1>4, <2>1 DEF UnderWay, Waits, StillThere
  <1>5. QED
    BY <1>1, <1>2, <1>3, <1>4

\* However many sends overlap, their waits close no circle: while one is under way, one
\* waits for nobody.
THEOREM SomeSendGoesOn == Spec => []NoCircle
  <1>1. Init => StillThere
    BY DEF Init, StillThere
  <1>2. IInv /\ StillThere /\ [Next]_vars => StillThere'
    BY StaysThere
  <1>3. IInv /\ StillThere => NoCircle
    BY FurthestGoesOn DEF NoCircle
  <1>4. QED
    BY <1>1, <1>2, <1>3, StoreInvariance, PTL DEF Spec
=============================================================================
