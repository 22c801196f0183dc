----------------------------- MODULE MCToolCalls -----------------------------
EXTENDS ToolCalls

\* Which hazards are at liberty in a behaviour, chosen at the start.  In
\* "messages" the model answers with batches: what becomes of their messages
\* when calls are denied, left pending or skipped, and when a run is resumed,
\* while the process lives and the log's writes succeed; a call that fails
\* answers like one that does not, so only an approved one may.  In "log" there
\* is one call at a time, always with the same id, and with failing writes,
\* tools that raise, a dying process, a message row that goes, and rows that
\* age.  The rest is shared.
VARIABLE cast

mcvars == <<vars, cast>>

Same == CHOOSE c \in Call : TRUE

MCInit == Init /\ cast \in {"messages", "log"}

MCNext ==
    /\ Next
    /\ cast = "messages" =>
         /\ turn' # "gone" /\ loop'.pc # "dead"
         /\ \A c \in Call : ~attempt'[c].late
         /\ \A i \in DOMAIN loop'.todo : loop'.todo[i].tool # "broken"
         /\ loop.pc = "propose" =>
              loop'.proposed = (attempt'[Current.id] # attempt[Current.id])
         /\ loop.pc = "run" => loop.acting \/ loop'.pc = "executed"
         /\ loop.pc = "executed" => lost' = lost
         /\ loop.pc = "failed" => attempt'[Current.id].status # "proposed"
    /\ cast = "log" =>
         /\ \A i \in DOMAIN loop'.todo : loop'.todo[i].id = Same
         /\ ~loop'.full /\ ~loop'.recovered
    /\ UNCHANGED cast

\* With the fairness of FairSpec.
MCSpec == MCInit /\ [][MCNext]_mcvars /\ Fairness
=============================================================================
