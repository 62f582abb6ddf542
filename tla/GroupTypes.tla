----------------------------- MODULE GroupTypes -----------------------------
(***************************************************************************)
(* The data of group conversations: what a row of conversation_members     *)
(* holds, and the five requests that write such rows (POST                 *)
(* /conversations/groups, POST and DELETE .../members, PATCH .../role and  *)
(* POST .../ownership): who may make them and what they come to.           *)
(***************************************************************************)
EXTENDS Names

CONSTANTS
  Convs,      \* the ids conversations may get
  Requests    \* the requests clients send

Role == {"owner", "admin", "member"}
Row == Role \cup {"none"}          \* "none": no row for this user
Kind == {"absent", "direct", "group"}
Op == {"create", "add", "remove", "role", "transfer"}

(***************************************************************************)
(* One record for every operation: target and role are read by the         *)
(* operations on one member, listed by the operations on several, and      *)
(* conv of a "create" request is the id the database generates for it.     *)
(***************************************************************************)
Request == [op : Op, conv : Convs, actor : Users, target : Ref,
            listed : SUBSET Ref, role : {"admin", "member"}]

(***************************************************************************)
(* The database may give the conversation of a "create" request any id.    *)
(***************************************************************************)
ASSUME RequestsAssumption ==
  /\ Requests \subseteq Request
  /\ \A r \in Requests : r.op = "create" =>
       \A c \in Convs : [r EXCEPT !.conv = c] \in Requests

(***************************************************************************)
(* What the service accepts before it opens a transaction.  CreateGroup    *)
(* has already dropped the creator's own id from the list.                 *)
(***************************************************************************)
Accepted(r) ==
  /\ r.op \in {"create", "add"} => r.listed # {}
  /\ r.op = "create" => Spelled(r.actor) \notin r.listed

SelfRequest(r) == r.target = Spelled(r.actor)

(***************************************************************************)
(* The ranking of RemoveMember: anyone but the owner may leave, an owner   *)
(* removes anyone else, an admin removes members only.                     *)
(***************************************************************************)
Removable(roster, r) ==
  LET actor == roster[r.actor]
      target == roster[IdOf(r.target)]
  IN /\ target \in {"admin", "member"}
     /\ \/ SelfRequest(r)
        \/ actor = "owner"
        \/ actor = "admin" /\ target = "member"

Allowed(roster, r) ==
  LET actor == roster[r.actor]
      target == roster[IdOf(r.target)]
  IN \/ r.op = "create" /\ AllRegistered(r.listed \cup {Spelled(r.actor)})
     \/ r.op = "add" /\ actor \in {"owner", "admin"} /\ AllRegistered(r.listed)
     \/ r.op = "remove" /\ actor # "none" /\ Removable(roster, r)
     \/ r.op = "role" /\ actor = "owner" /\ target \in {"admin", "member"}
     \/ r.op = "transfer" /\ actor = "owner" /\ target # "none" /\ ~SelfRequest(r)

Joined(roster, refs) ==
  [u \in Ids |-> IF u \in Named(refs) /\ roster[u] = "none" THEN "member" ELSE roster[u]]

After(roster, r) ==
  LET target == IdOf(r.target)
  IN IF r.op = "create" THEN Joined([roster EXCEPT ![r.actor] = "owner"], r.listed)
     ELSE IF r.op = "add" THEN Joined(roster, r.listed)
     ELSE IF r.op = "remove" THEN [roster EXCEPT ![target] = "none"]
     ELSE IF r.op = "role" THEN [roster EXCEPT ![target] = r.role]
     ELSE [roster EXCEPT ![r.actor] = "admin", ![target] = "owner"]

\* The members of a direct conversation, as CreateDirect stores them.
DirectRoster(roster) ==
  \E a, b \in Users : /\ a # b
                      /\ roster = [u \in Ids |-> IF u \in {a, b} THEN "member" ELSE "none"]

OneOwnerIn(roster) == \E o \in Ids : \A u \in Ids : roster[u] = "owner" <=> u = o
=============================================================================
