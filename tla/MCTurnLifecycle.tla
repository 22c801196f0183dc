--------------------------- MODULE MCTurnLifecycle ---------------------------
EXTENDS TurnLifecycle, TLC

\* The requests are interchangeable, and so are the row ids (safety only).
Symmetry == Permutations(Msg) \cup Permutations(Stream)
=============================================================================
