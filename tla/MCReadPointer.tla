--------------------------- MODULE MCReadPointer ---------------------------
(* Three devices of one user and three messages, the fewest for a mark that   *)
(* lost to a message it has not seen to see the pointer move on from there.  *)
EXTENDS ReadPointer, TLC

CONSTANTS ann, ben, cay, d1, d2, d3

MCUserOf == d1 :> ann @@ d2 :> ann @@ d3 :> ann
MCOwner == <<>>
MCTexts == {"hi"}
Symmetry == Permutations({ben, cay}) \cup Permutations({d1, d2, d3})
=============================================================================
