---------------------------- MODULE MCServer -----------------------------
EXTENDS Server, TLC

Symmetry == Permutations(Handshakes) \cup Permutations(Sessions)
==========================================================================
