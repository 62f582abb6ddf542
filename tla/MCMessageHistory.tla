-------------------------- MODULE MCMessageHistory --------------------------
(* One client is enough: clients share nothing but the log.  The log is any, *)
(* filled in any order of times, so the writers' own steps are not needed.   *)
EXTENDS MessageHistory, TLC

CONSTANTS ann, k1, k2, k3, k4, app

MCUserOf == app :> ann
MCOwner == <<>>
MCTexts == {"hi"}
Symmetry == Permutations({k1, k2, k3, k4})
=============================================================================
