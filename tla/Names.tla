------------------------------- MODULE Names -------------------------------
(***************************************************************************)
(* Users and how requests name them.  The API's own responses and its      *)
(* access tokens carry the canonical text of a uuid; a client may send any *)
(* text uuid.Parse and the uuid columns take (capitals, for one), and Go   *)
(* compares the texts where PostgreSQL compares the ids.                   *)
(***************************************************************************)

CONSTANTS
  Ids,        \* the uuids a request may name
  Users,      \* the ids that have an account (rows of users)
  Spellings,  \* the ways a client may write one and the same uuid
  Canon       \* the spelling PostgreSQL and the access token use

ASSUME IdsAssumption == Users \subseteq Ids /\ Canon \in Spellings

Ref == Ids \X Spellings
IdOf(ref) == ref[1]
Spelled(u) == <<u, Canon>>

Named(refs) == {IdOf(ref) : ref \in refs}

(***************************************************************************)
(* SELECT count( * ) FROM users WHERE id IN refs equals the length of the  *)
(* list: every id has an account and none is listed under two spellings.   *)
(***************************************************************************)
AllRegistered(refs) ==
  /\ Named(refs) \subseteq Users
  /\ \A a, b \in refs : IdOf(a) = IdOf(b) => a = b
=============================================================================
