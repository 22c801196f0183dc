---------------------------- MODULE MCScheduleRuns ----------------------------
EXTENDS ScheduleRuns, TLC

\* What is explored together: a PATCH that has read and not yet written, and
\* one worker whose messages come once; or all of the rest.
Apart ==
    edit.status # "none" =>
        /\ doubled = {}
        /\ Cardinality({w \in Worker : worker[w] # Idle}) <= 1

\* Rows and workers are interchangeable (safety only).
Symmetry == Permutations(Run) \cup Permutations(Worker)
=============================================================================
