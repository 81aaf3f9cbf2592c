----------------------------- MODULE MCMyServer -----------------------------
EXTENDS MyServerProps, TLC
Symmetry == Permutations(Fds) \cup Permutations(Conns)
=============================================================================
