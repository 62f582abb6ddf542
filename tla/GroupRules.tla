----------------------------- MODULE GroupRules -----------------------------
(***************************************************************************)
(* What the group endpoints promise, one indivisible step per request:     *)
(* who may do it and what it leaves behind (Allowed and After of module    *)
(* GroupTypes, judged and applied in the same state).                      *)
(***************************************************************************)
EXTENDS GroupTypes

VARIABLES
  kind,     \* what each conversation is
  members   \* its roster: the role of every id, or "none"

vars == <<kind, members>>

\* Direct conversations come from CreateDirect (module DirectConversation).
Init ==
  /\ kind \in [Convs -> {"absent", "direct"}]
  /\ members \in [Convs -> [Ids -> {"member", "none"}]]
  /\ \A c \in Convs :
       IF kind[c] = "direct" THEN DirectRoster(members[c])
                             ELSE members[c] = [u \in Ids |-> "none"]

Perform(r) ==
  /\ kind[r.conv] = IF r.op = "create" THEN "absent" ELSE "group"
  /\ Allowed(members[r.conv], r)
  /\ kind' = [kind EXCEPT ![r.conv] = "group"]
  /\ members' = [members EXCEPT ![r.conv] = After(@, r)]

Next == \E r \in Requests : Accepted(r) /\ Perform(r)

Spec == Init /\ [][Next]_vars

-----------------------------------------------------------------------------

\* Every group has exactly one owner.
OneOwner == \A c \in Convs : kind[c] = "group" => OneOwnerIn(members[c])
=============================================================================
