---------------------------- MODULE MCProcServer ----------------------------
EXTENDS ProcServerProps, TLC

\* The clients that do not wait may also send control characters.
MixedRequests == TRUE :> {"good", "bad"} @@ FALSE :> {"good", "ctrl", "bad"}

\* Only clients that wait.
WaitingRequests == TRUE :> {"good", "bad"}

Symmetry == Permutations(Conns)
=============================================================================
