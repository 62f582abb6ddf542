------------------------- MODULE MCGroupMembership -------------------------
(***************************************************************************)
(* Requests worth checking: every actor, every target under both           *)
(* spellings, lists of at most MaxListed references. (A list with one user *)
(* under two spellings fails the count of users as an unknown id does.)    *)
(***************************************************************************)
EXTENDS GroupMembership, Naturals, FiniteSets

CONSTANT MaxListed

\* Fields an operation does not read have one fixed value.
Ask(op, c, actor, target, listed, role) ==
  [op |-> op, conv |-> c, actor |-> actor, target |-> target, listed |-> listed, role |-> role]

Lists == {refs \in SUBSET Ref : Cardinality(refs) \in 1..MaxListed}

MCRequests ==
  UNION {{Ask("create", c, a, Spelled(a), refs, "member"), Ask("add", c, a, Spelled(a), refs, "member")}
           : c \in Convs, a \in Users, refs \in Lists}
  \cup UNION {{Ask("remove", c, a, ref, {}, "member"), Ask("transfer", c, a, ref, {}, "member"),
               Ask("role", c, a, ref, {}, "member"), Ask("role", c, a, ref, {}, "admin")}
           : c \in Convs, a \in Users, ref \in Ref}

MCIds == Users
=============================================================================
