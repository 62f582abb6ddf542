------------------------------ MODULE LogTypes ------------------------------
(***************************************************************************)
(* Messages of one conversation and their order.                           *)
(***************************************************************************)
EXTENDS Naturals

CONSTANTS
  Users,      \* the users
  ClientIds,  \* the client_message_ids of their requests
  Texts,      \* what tells two messages apart: type and text
  Uploads,    \* the media uploads
  Owner,      \* the user who created each upload
  MaxTime,    \* bound on the clock
  MaxId,      \* bound on the message ids (random uuids: any unused one comes next)
  None        \* no value

ASSUME LogAssumption ==
  /\ Owner \in [Uploads -> Users]
  /\ MaxTime \in Nat /\ MaxId \in Nat
  /\ None \notin Uploads

Time == 0 .. MaxTime
MsgIds == 1 .. MaxId

Message == [id : MsgIds, sender : Users, cid : ClientIds, text : Texts,
            upload : Uploads \cup {None}, at : Time]

\* ORDER BY created_at, id
Precedes(m, n) == m.at < n.at \/ (m.at = n.at /\ m.id < n.id)
=============================================================================
