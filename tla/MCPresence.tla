----------------------------- MODULE MCPresence -----------------------------
EXTENDS Presence, TLC
\* Three connections: one that leaves, one that comes, and one that overlaps both.
Symmetry == Permutations(Connections)
=============================================================================
