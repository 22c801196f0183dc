--------------------------- MODULE MCStreamJournal ---------------------------
EXTENDS StreamJournal, TLC

\* What is explored together: clients that reconnect to one stream of full
\* length, or a stream and the one that resumes it, shorter and with nobody
\* reconnecting.
Apart ==
    (\E w \in Writer \ {First} : stream[w] # IdleStream) =>
        /\ \A r \in Reader : client[r].pc = "off"
        /\ \A w \in Writer : stream[w].no <= MaxEmits

\* Reconnecting clients are interchangeable (safety only).
Symmetry == Permutations(Reader)
=============================================================================
