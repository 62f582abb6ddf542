----------------------------- MODULE MCServerLife -----------------------------
EXTENDS ServerLife, TLC
=============================================================================
