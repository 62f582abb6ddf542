---------------------------- MODULE MessageStore ----------------------------
(***************************************************************************)
(* Sending a message: the service resolves an image, then the repository   *)
(* runs one transaction at READ COMMITTED, one action per SQL statement.   *)
(* A request is sent once; what a client calls a retry is another request  *)
(* with the same client_message_id.  Requests of one conversation          *)
(* interleave; the conversation id a request carries matters only as text. *)
(***************************************************************************)
EXTENDS LogTypes

CONSTANTS
  Txs,        \* the requests
  Asks,       \* what they may ask
  Spellings,  \* ways to write the conversation's uuid
  Canon       \* the way PostgreSQL writes it

Ask == [sender : Users, cid : ClientIds, text : Texts, upload : Uploads \cup {None},
        conv : Spellings]

ASSUME StoreAssumption ==
  /\ Canon \in Spellings
  /\ Asks \subseteq Ask
  /\ None \notin Nat

VARIABLES
  now,       \* the clock of the API servers
  roster,    \* the members of the conversation
  rows,      \* committed rows of messages, without their attachment
  attached,  \* committed rows of message_attachments: upload -> message id, or None
  status,    \* committed status of each upload
  expired,   \* the uploads whose expires_at has passed
  pc,        \* the next statement of each request
  ask,       \* what it asks
  row,       \* the message it has inserted or found
  isNew,     \* result.Created: it has inserted it
  claimed,   \* its uncommitted writes to media_uploads and message_attachments
  answer,    \* "ok": the client was sent row's message; or how it was refused
  stored     \* history: the message its client had stored under this key at Submit

world == <<now, roster, expired>>
store == <<rows, attached, status>>
local == <<ask, row, isNew, claimed, answer, stored>>
vars == <<world, store, pc, local>>

Row == [id : MsgIds, sender : Users, cid : ClientIds, text : Texts, at : Time]
Phase == {"idle", "resolve", "member", "insert", "reload", "compare", "claim", "attach",
          "touch", "recipients", "commit", "done"}
\* "unverified" is answered as a conflict too: named apart, it is not one of two requests.
Result == {"none", "ok", "forbidden", "notfound", "conflict", "unverified", "error"}

\* The reader's view: a message with its attachment (message_attachments joined by id).
UploadOf(id) == IF \E u \in Uploads : attached[u] = id
                  THEN CHOOSE u \in Uploads : attached[u] = id ELSE None
Whole(r) == [id |-> r.id, sender |-> r.sender, cid |-> r.cid, text |-> r.text,
             upload |-> UploadOf(r.id), at |-> r.at]
Visible == {Whole(r) : r \in rows}

TypeOK ==
  /\ now \in Time
  /\ roster \subseteq Users
  /\ rows \subseteq Row
  /\ attached \in [Uploads -> MsgIds \cup {None}]
  /\ status \in [Uploads -> {"pending", "uploaded"}]
  /\ expired \subseteq Uploads
  /\ pc \in [Txs -> Phase]
  /\ ask \in [Txs -> Asks \cup {None}]
  /\ row \in [Txs -> Row \cup {None}]
  /\ isNew \in [Txs -> BOOLEAN]
  /\ claimed \in [Txs -> SUBSET {"status", "attachment"}]
  /\ answer \in [Txs -> Result]
  /\ stored \in [Txs -> Row \cup {None}]

Init ==
  /\ now = 0
  /\ roster = Users
  /\ rows = {}
  /\ attached = [u \in Uploads |-> None]
  /\ status = [u \in Uploads |-> "pending"]
  /\ expired = {}
  /\ pc = [t \in Txs |-> "idle"]
  /\ ask = [t \in Txs |-> None]
  /\ row = [t \in Txs |-> None]
  /\ isNew = [t \in Txs |-> FALSE]
  /\ claimed = [t \in Txs |-> {}]
  /\ answer = [t \in Txs |-> "none"]
  /\ stored = [t \in Txs |-> None]

GoTo(t, phase) == pc' = [pc EXCEPT ![t] = phase]

\* The request ends without effect and answers with the error.
Refuse(t, how) ==
  /\ GoTo(t, "done")
  /\ row' = [row EXCEPT ![t] = None]
  /\ isNew' = [isNew EXCEPT ![t] = FALSE]
  /\ claimed' = [claimed EXCEPT ![t] = {}]
  /\ answer' = [answer EXCEPT ![t] = how]
  /\ UNCHANGED <<world, store, ask, stored>>

SameKey(r, a) == r.sender = a.sender /\ r.cid = a.cid
Keyed(a) == {r \in rows : SameKey(r, a)}

\* What the request repeats: same text, same image, already committed.
Repeats(r, a) == SameKey(r, a) /\ r.text = a.text /\ UploadOf(r.id) = a.upload

-----------------------------------------------------------------------------
(* The request *)

Submit(t) ==
  /\ pc[t] = "idle"
  /\ \E a \in Asks :
       /\ ask' = [ask EXCEPT ![t] = a]
       /\ stored' = [stored EXCEPT ![t] =
            IF \E r \in rows : Repeats(r, a) THEN CHOOSE r \in rows : Repeats(r, a) ELSE None]
       /\ GoTo(t, IF a.upload = None THEN "member" ELSE "resolve")
  /\ UNCHANGED <<world, store, row, isNew, claimed, answer>>

\* media.ResolveImage: the upload is the sender's, and not pending past its expiry; then
\* VerifyObject asks the storage for the object.  Whatever makes that fail, an object that is
\* missing or another than announced, or a storage that does not answer, refuses the request
\* before anyone looks for a stored message.
Resolve(t) ==
  /\ pc[t] = "resolve"
  /\ LET u == ask[t].upload
         late == status[u] = "pending" /\ u \in expired
     IN \/ Owner[u] # ask[t].sender /\ Refuse(t, "notfound")
        \/ Owner[u] = ask[t].sender /\ late /\ Refuse(t, "conflict")
        \/ Owner[u] = ask[t].sender /\ ~late /\ Refuse(t, "unverified")
        \/ /\ Owner[u] = ask[t].sender /\ ~late
           /\ GoTo(t, "member")
           /\ UNCHANGED <<world, store, local>>

CheckMember(t) ==
  /\ pc[t] = "member"
  /\ IF ask[t].sender \in roster THEN GoTo(t, "insert") /\ UNCHANGED <<world, store, local>>
                                 ELSE Refuse(t, "forbidden")

Inserted(t) == isNew[t] /\ pc[t] \in {"claim", "attach", "touch", "recipients", "commit"}

\* What a statement waits for: no open transaction has inserted its key, ...
KeyFree(t) == \A s \in Txs : Inserted(s) => ~SameKey(ask[s], ask[t])

\* ... claimed its upload, ...
UploadFree(t) == \A s \in Txs : claimed[s] # {} => ask[s].upload # ask[t].upload

\* Mutant of ConversationFree: the conversation's row has been share-locked since the insert.
ConversationShared(t) == \A s \in Txs \ {t} : ~Inserted(s)

\* ... or updated the conversation's row.
ConversationFree(t) == \A s \in Txs : isNew[s] => pc[s] \notin {"recipients", "commit"}

\* Mutant of Insert: outside the transaction, readers see the message before its image.
InsertOutside(t) ==
  /\ pc[t] = "insert"
  /\ Keyed(ask[t]) = {}
  /\ \E id \in MsgIds :
       /\ \A r \in rows : r.id # id
       /\ row' = [row EXCEPT ![t] = [id |-> id, sender |-> ask[t].sender,
                    cid |-> ask[t].cid, text |-> ask[t].text, at |-> now]]
       /\ rows' = rows \cup {row'[t]}
  /\ isNew' = [isNew EXCEPT ![t] = TRUE]
  /\ GoTo(t, IF ask[t].upload = None THEN "touch" ELSE "claim")
  /\ UNCHANGED <<world, attached, status, ask, claimed, answer, stored>>

\* INSERT ... ON CONFLICT (sender_id, client_message_id) DO NOTHING: an open
\* transaction that has inserted the key is waited for.  GORM reads the clock here, and
\* only here: that it moves on until the next insert is part of the step.
Insert(t) ==
  /\ pc[t] = "insert"
  /\ KeyFree(t)
  /\ IF Keyed(ask[t]) # {}
       THEN GoTo(t, "reload") /\ UNCHANGED <<now, row, isNew>>
       ELSE /\ \E id \in MsgIds :
                 /\ \A r \in rows : r.id # id
                 /\ \A s \in Txs : Inserted(s) => row[s].id # id
                 /\ now' \in now .. MaxTime
                 /\ row' = [row EXCEPT ![t] =
                      [id |-> id, sender |-> ask[t].sender, cid |-> ask[t].cid,
                       text |-> ask[t].text, at |-> now']]
            /\ isNew' = [isNew EXCEPT ![t] = TRUE]
            /\ GoTo(t, IF ask[t].upload = None THEN "touch" ELSE "claim")
  /\ UNCHANGED <<roster, expired, store, ask, claimed, answer, stored>>

\* Mutant of Reload: the key alone makes it a retry.
ReloadUnchecked(t) ==
  /\ pc[t] = "reload"
  /\ \E r \in Keyed(ask[t]) : row' = [row EXCEPT ![t] = r]
  /\ GoTo(t, "compare")
  /\ UNCHANGED <<world, store, ask, isNew, claimed, answer, stored>>

\* The row that was there: same conversation, compared as text, same type and text?
Reload(t) ==
  /\ pc[t] = "reload"
  /\ \E r \in Keyed(ask[t]) :
       IF ask[t].conv = Canon /\ r.text = ask[t].text
         THEN /\ row' = [row EXCEPT ![t] = r]
              /\ GoTo(t, "compare")
              /\ UNCHANGED <<world, store, ask, isNew, claimed, answer, stored>>
         ELSE Refuse(t, "conflict")

\* compareStoredAttachment: the same image, or none on both sides.
Compare(t) ==
  /\ pc[t] = "compare"
  /\ IF UploadOf(row[t].id) = ask[t].upload
       THEN GoTo(t, "recipients") /\ UNCHANGED <<world, store, local>>
       ELSE Refuse(t, "conflict")

\* Mutant of Claim: the upload stays pending.
ClaimNothing(t) ==
  /\ pc[t] = "claim"
  /\ GoTo(t, "attach")
  /\ UNCHANGED <<world, store, local>>

\* UPDATE media_uploads SET status = 'uploaded': locks the upload's row.
Claim(t) ==
  /\ pc[t] = "claim"
  /\ UploadFree(t)
  /\ IF Owner[ask[t].upload] = ask[t].sender
       THEN /\ claimed' = [claimed EXCEPT ![t] = {"status"}]
            /\ GoTo(t, "attach")
            /\ UNCHANGED <<world, store, ask, row, isNew, answer, stored>>
       ELSE Refuse(t, "conflict")

\* INSERT INTO message_attachments: upload_id is unique.
Attach(t) ==
  /\ pc[t] = "attach"
  /\ IF attached[ask[t].upload] = None
       THEN /\ claimed' = [claimed EXCEPT ![t] = @ \cup {"attachment"}]
            /\ GoTo(t, "touch")
            /\ UNCHANGED <<world, store, ask, row, isNew, answer, stored>>
       ELSE Refuse(t, "conflict")

\* UPDATE conversations SET updated_at: locks the conversation's row until the end.
Touch(t) ==
  /\ pc[t] = "touch"
  /\ ConversationFree(t)
  /\ GoTo(t, "recipients")
  /\ UNCHANGED <<world, store, local>>

\* SELECT user_id FROM conversation_members: the recipients of the event.
Recipients(t) ==
  /\ pc[t] = "recipients"
  /\ GoTo(t, "commit")
  /\ UNCHANGED <<world, store, local>>

\* COMMIT; the answer may still be lost, or the publish that follows may fail.
Commit(t) ==
  /\ pc[t] = "commit"
  /\ rows' = IF isNew[t] THEN rows \cup {row[t]} ELSE rows
  /\ status' = [u \in Uploads |->
       IF u = ask[t].upload /\ "status" \in claimed[t] THEN "uploaded" ELSE status[u]]
  /\ attached' = [u \in Uploads |->
       IF u = ask[t].upload /\ "attachment" \in claimed[t] THEN row[t].id ELSE attached[u]]
  /\ claimed' = [claimed EXCEPT ![t] = {}]
  /\ \E result \in {"ok", "error"} : answer' = [answer EXCEPT ![t] = result]
  /\ GoTo(t, "done")
  /\ UNCHANGED <<world, ask, row, isNew, stored>>

\* A cancelled context, a failed statement or a crash before COMMIT.
Abort(t) == pc[t] \notin {"idle", "done"} /\ Refuse(t, "error")

Statement(t) ==
  \/ Resolve(t) \/ CheckMember(t) \/ Insert(t) \/ Reload(t) \/ Compare(t) \/ Claim(t)
  \/ Attach(t) \/ Touch(t) \/ Recipients(t) \/ Commit(t)

-----------------------------------------------------------------------------
(* Around it: expiring uploads, members leaving (GroupMembership) *)

Expire(u) ==
  /\ u \notin expired
  /\ expired' = expired \cup {u}
  /\ UNCHANGED <<now, roster, store, pc, local>>

Leave(u) ==
  /\ u \in roster
  /\ roster' = roster \ {u}
  /\ UNCHANGED <<now, store, expired, pc, local>>

Next ==
  \/ \E t \in Txs : Submit(t) \/ Statement(t) \/ Abort(t)
  \/ \E u \in Uploads : Expire(u)
  \/ \E u \in Users : Leave(u)

Spec == Init /\ [][Next]_vars

-----------------------------------------------------------------------------
(* Properties *)

Log == INSTANCE MessageLog WITH log <- Visible

\* Readers see the promised log: whole messages, one per client_message_id and per
\* upload, none changed or lost, whatever sends overlap, repeat, fail or abort.
ImplementsLog == Log!LogSpec

\* All answers to one client_message_id of one sender name one message, and it is
\* committed with the text and image each of them asked for.
AnswersStored ==
  \A t \in Txs : answer[t] = "ok" =>
    /\ row[t] \in rows /\ Repeats(row[t], ask[t])
    /\ \A s \in Txs : answer[s] = "ok" /\ SameKey(ask[s], ask[t]) => row[s] = row[t]

\* The retry of a stored message is never called a conflict with another request, not even
\* after its image's upload has expired (usecase/message/service.go:87: retrying must be able
\* to deliver).  It may still be refused as one when the storage does not confirm the object
\* ("unverified", media/service.go:111).
RetryAccepted == \A t \in Txs : stored[t] # None => answer[t] # "conflict"

\* An image is marked uploaded exactly when a message carries it; an aborted send
\* leaves a pending upload that can be sent again.
UploadsSettled == \A u \in Uploads : status[u] = "uploaded" <=> attached[u] # None

UnderWay(t) == pc[t] \notin {"idle", "done"}

\* Sends wait for one another at a key, at an upload and at the conversation's row; the
\* waits never close a circle: while a send is under way, some send can go on.
Unblocked == (\E t \in Txs : UnderWay(t)) => \E t \in Txs : ENABLED Statement(t)

\* The same said of what the statements wait for: some send under way waits for no other,
\* and finds the message it was told is there.
Waits(t) ==
  \/ pc[t] = "insert" /\ ~KeyFree(t)
  \/ pc[t] = "claim" /\ ~UploadFree(t)
  \/ pc[t] = "touch" /\ ~ConversationFree(t)
  \/ pc[t] = "reload" /\ Keyed(ask[t]) = {}

NoCircle == (\E t \in Txs : UnderWay(t)) => \E t \in Txs : UnderWay(t) /\ ~Waits(t)

-----------------------------------------------------------------------------
(* The inductive invariant behind all of them but the last *)

Keys == \A q, r \in rows : q.id = r.id \/ SameKey(q, r) => q = r

\* An image hangs at one message, its owner's, and a message has at most one.
Images ==
  /\ UploadsSettled
  /\ \A u \in Uploads : attached[u] # None => \E r \in rows : r.id = attached[u] /\ r.sender = Owner[u]
  /\ \A u, v \in Uploads : attached[u] # None /\ attached[u] = attached[v] => u = v

\* The message a request has inserted is what it asks, and its keys are still free.
NewInv(t) ==
  /\ isNew[t] => pc[t] \in {"claim", "attach", "touch", "recipients", "commit", "done"}
  /\ pc[t] \in {"claim", "attach", "touch"} => isNew[t]
  /\ Inserted(t) =>
       /\ row[t] \in Row /\ SameKey(row[t], ask[t]) /\ row[t].text = ask[t].text /\ row[t].at <= now
       /\ \A r \in rows : r.id # row[t].id /\ ~SameKey(r, ask[t])

\* The message it has found instead repeats it, as far as it has been compared.
FoundInv(t) ==
  /\ ~isNew[t] /\ pc[t] \in {"compare", "recipients", "commit"} =>
       row[t] \in Keyed(ask[t]) /\ row[t].text = ask[t].text
  /\ ~isNew[t] /\ pc[t] \in {"recipients", "commit"} => Repeats(row[t], ask[t])

\* What it has written about its upload, which is its sender's and still free.
ClaimInv(t) ==
  /\ pc[t] \in {"resolve", "claim", "attach"} => ask[t].upload # None
  /\ pc[t] = "attach" => claimed[t] = {"status"}
  /\ Inserted(t) /\ pc[t] \notin {"claim", "attach"} /\ ask[t].upload # None =>
       claimed[t] = {"status", "attachment"}
  /\ claimed[t] # {} =>
       /\ Inserted(t) /\ pc[t] # "claim" /\ ask[t].upload # None
       /\ Owner[ask[t].upload] = ask[t].sender
  /\ "attachment" \in claimed[t] => pc[t] # "attach" /\ attached[ask[t].upload] = None

\* What it has answered; and a message stored when it was sent stays the one it repeats.
AnswerInv(t) ==
  /\ answer[t] # "none" => pc[t] = "done"
  /\ answer[t] = "ok" => row[t] \in rows /\ Repeats(row[t], ask[t])
  /\ stored[t] # None =>
       /\ pc[t] # "idle" /\ ~isNew[t] /\ stored[t] \in rows /\ Repeats(stored[t], ask[t])
       /\ (\A a \in Asks : a.conv = Canon) => answer[t] # "conflict"

TxInv(t) ==
  /\ pc[t] # "idle" => ask[t] \in Asks
  /\ NewInv(t) /\ FoundInv(t) /\ ClaimInv(t) /\ AnswerInv(t)

\* Open requests keep out of each other's way.
Apart(s, t) ==
  /\ Inserted(s) /\ Inserted(t) => row[s].id # row[t].id /\ ~SameKey(ask[s], ask[t])
  /\ claimed[s] # {} /\ claimed[t] # {} => ask[s].upload # ask[t].upload

IInv ==
  /\ TypeOK /\ Keys /\ Images /\ (\A r \in rows : r.at <= now)
  /\ (\A t \in Txs : TxInv(t)) /\ (\A s, t \in Txs : s # t => Apart(s, t))
=============================================================================
