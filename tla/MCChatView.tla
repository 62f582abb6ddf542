----------------------------- MODULE MCChatView -----------------------------
EXTENDS ChatView, TLC
\* Three messages and pages of one: the first page, one before it and one after it.
Symmetry == Permutations(Syncs)
=============================================================================
