----------------------------- MODULE MCTaskLease -----------------------------
EXTENDS TaskLease, TLC

\* Messages are interchangeable (safety only).
Symmetry == Permutations(Task)
=============================================================================
