---------------------------- MODULE MCDeviceBroker ----------------------------
EXTENDS DeviceBroker, TLC

\* Calls, sessions, processes and tickets are interchangeable (safety only).
Symmetry ==
    Permutations(Call) \cup Permutations(Session) \cup Permutations(Proc)
        \cup Permutations(Ticket)
=============================================================================
