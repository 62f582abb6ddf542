------------------------ MODULE MCDirectConversation ------------------------
(***************************************************************************)
(* Two users ask for one another, one of them also for a third user, for   *)
(* herself and for somebody who has no account.                            *)
(***************************************************************************)
EXTENDS DirectConversation

CONSTANTS ann, ben, cas, nobody

MCAsks ==
  [creator : {ann}, target : {ben, cas, ann, nobody} \X Spellings]
    \cup [creator : {ben}, target : {ann} \X Spellings]
=============================================================================
