--------------------------- MODULE MCRegistry ----------------------------
EXTENDS Registry, TLC

\* Bound: at most one command comes with a --generation.
MCInit ==
    /\ Init
    /\ \A c, o \in Commands : job[c].override # 0 /\ job[o].override # 0 => c = o

MCSpec == MCInit /\ [][Next]_vars

Symmetry == Permutations(Commands) \cup Permutations(Sandboxes)
==========================================================================
