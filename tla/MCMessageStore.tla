--------------------------- MODULE MCMessageStore ---------------------------
(***************************************************************************)
(* Alice owns the uploads.  Her sends repeat a key with the same and with  *)
(* other contents and use one upload under two keys; Bob uses her upload   *)
(* and the same client_message_id as she does.                             *)
(***************************************************************************)
EXTENDS MessageStore, TLC

CONSTANTS
  alice, bob, k1, k2, x, y, p1,
  Used     \* the spellings the two send

MCOwner == [u \in Uploads |-> alice]

Send(sender, cid, text, upload) ==
  {[sender |-> sender, cid |-> cid, text |-> text, upload |-> upload, conv |-> s] : s \in Used}

MCAsks ==
  Send(alice, k1, x, None) \cup Send(alice, k1, y, None) \cup Send(alice, k1, x, p1)
    \cup Send(alice, k2, x, p1) \cup Send(bob, k1, x, p1)

Symmetry == Permutations(Txs)
=============================================================================
