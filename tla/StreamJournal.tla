---------------------------- MODULE StreamJournal ----------------------------
(***************************************************************************)
(* The journal of one chat message and its replay.  The streams of the     *)
(* message (the first one, and the continuation that resumes it after a    *)
(* pause) number the events they send, buffer them in a                    *)
(* BatchedJournalWriter, commit them to message_events and publish the     *)
(* committed ones to the message's channel.  A client whose POST stream    *)
(* broke off reconnects with the last id it saw: the reader subscribes,    *)
(* reads the journal past the cursor, then follows the channel; when the   *)
(* channel is silent a watchdog looks at the message row.                  *)
(*                                                                         *)
(* An event is a name for its payload: who sent it, as its how-manieth,    *)
(* and whether it closes the stream.  The id event that goes out right     *)
(* before `end` is left out.                                               *)
(***************************************************************************)
EXTENDS Integers, Sequences, FiniteSetsExt

CONSTANTS
    Writer,      \* streams of the message
    First,       \* the one that is not a continuation
    Reader,      \* reconnecting clients
    MaxEmits,    \* bound: events of a stream before its terminal one
    BatchSize,   \* DEFAULT_BATCH_SIZE
    Blips,       \* may a database call fail?
    Drops,       \* may Redis lose a publish or refuse a subscription?
    Aborts       \* may a stream be killed, aborted or truncated away?

ASSUME ConstantsAssumption ==
    /\ First \in Writer
    /\ MaxEmits \in Nat \ {0}
    /\ BatchSize \in Nat \ {0}
    /\ {Blips, Drops, Aborts} \subseteq BOOLEAN

VARIABLES
    row,       \* the message row: its status
    paused,    \* is there a continuation to claim?
    journal,   \* message_events: sequence number -> event
    stream,    \* the writers
    client     \* the readers

vars == <<row, paused, journal, stream, client>>

-----------------------------------------------------------------------------
\* Types

Event == [by: Writer, no: 1..(MaxEmits + 1), ends: {"no", "end", "error"}]

Frame == [at: Nat, event: Event]

\* `next` is the sequence number to allocate, `base` the first one allocated,
\* `work` the batch in hand; `single` tells record_event from the writer.
StreamState ==
    [pc: {"idle", "ready", "publish", "row", "retry", "publishRow", "dead"},
     stage: {"streaming", "pausing", "finished", "failed", "aborted", "closed"},
     base: Nat, next: Nat, no: 0..(MaxEmits + 1),
     buffer: Seq(Frame), work: Seq(Frame), at: Nat,
     single: BOOLEAN, latched: BOOLEAN, errored: BOOLEAN,
     age: {"fresh", "due", "late"}]     \* of the last flush, in batch intervals

ClientState ==
    [pc: {"off", "subscribed", "live", "closed"},
     of: Writer, seen: Seq(Event), max: Nat, inbox: Seq(Frame),
     by: {"nothing", "journal", "watchdog", "fault"},
     verdict: {"no", "end", "error"}]   \* the terminal event it got first

TypeOK ==
    /\ row \in {"open", "complete", "failed", "gone"}
    /\ paused \in BOOLEAN
    /\ DOMAIN journal \subseteq Nat
    /\ \A n \in DOMAIN journal : journal[n] \in Event
    /\ stream \in [Writer -> StreamState]
    /\ client \in [Reader -> ClientState]

IdleStream ==
    [pc |-> "idle", stage |-> "streaming", base |-> 0, next |-> 0, no |-> 0,
     buffer |-> <<>>, work |-> <<>>, at |-> 0, single |-> FALSE,
     latched |-> FALSE, errored |-> FALSE, age |-> "fresh"]

IdleClient == [pc |-> "off", of |-> First, seen |-> <<>>, max |-> 0,
               inbox |-> <<>>, by |-> "nothing", verdict |-> "no"]

Init ==
    /\ row = "open"
    /\ paused = FALSE
    /\ journal = <<>>
    /\ stream = [w \in Writer |->
                   IF w = First THEN [IdleStream EXCEPT !.pc = "ready"]
                   ELSE IdleStream]
    /\ client = [r \in Reader |-> IdleClient]

-----------------------------------------------------------------------------
\* The journal

Latest == Max(DOMAIN journal \cup {-1})

Inserted(frames) ==
    LET new == {frames[i].at : i \in DOMAIN frames}
        EventAt(n) == frames[CHOOSE i \in DOMAIN frames : frames[i].at = n].event
    IN [n \in DOMAIN journal \cup new |->
          IF n \in DOMAIN journal THEN journal[n] ELSE EventAt(n)]

Collides(frames) == \E i \in DOMAIN frames : frames[i].at \in DOMAIN journal

\* Mutant: the rows of the batch that do not collide stay in.
BulkRecordedPartly(frames) == Inserted(frames)

\* One INSERT for the batch: a collision on any row aborts all of it.
BulkRecorded(frames) == IF Collides(frames) THEN journal ELSE Inserted(frames)

\* One stream's state after an event was handed to its writer.
Appended(w, ends) ==
    LET s == stream[w] IN
    [s EXCEPT !.next = @ + 1, !.no = @ + 1,
              !.buffer = IF s.latched THEN @
                         ELSE Append(@, [at |-> s.next,
                                         event |-> [by |-> w, no |-> s.no + 1,
                                                    ends |-> ends]])]

\* BatchedJournalWriter.flush: the bulk INSERT and what follows from it.  The
\* buffer is cleared whatever the outcome.
Flush(w, s) ==
    LET batch == s.buffer
        clear == [s EXCEPT !.buffer = <<>>, !.age = "fresh"]
        Become(t) == stream' = [stream EXCEPT ![w] = t]
    IN \/ /\ batch = <<>>
          /\ Become(clear)
          /\ UNCHANGED journal
       \/ /\ batch # <<>>
          /\ row = "gone"
          /\ Become([clear EXCEPT !.latched = TRUE])
          /\ UNCHANGED journal
       \/ /\ batch # <<>>
          /\ row # "gone"
          /\ journal' = BulkRecorded(batch)
          /\ Become([clear EXCEPT !.work = batch,
                                  !.pc = IF Collides(batch) THEN "row" ELSE "publish"])
       \/ /\ Blips
          /\ batch # <<>>
          /\ Become(clear)
          /\ UNCHANGED journal

\* record: the flush triggers are looked at here and nowhere else.
Record(w, s) ==
    IF s.latched \/ (Len(s.buffer) < BatchSize /\ s.age = "fresh")
    THEN stream' = [stream EXCEPT ![w] = s] /\ UNCHANGED journal
    ELSE Flush(w, s)

-----------------------------------------------------------------------------
\* The streams

Ready(w, stages) == stream[w].pc = "ready" /\ stream[w].stage \in stages

Emit(w) ==
    /\ Ready(w, {"streaming"})
    /\ stream[w].no < MaxEmits
    /\ Record(w, Appended(w, "no"))
    /\ UNCHANGED <<row, paused, client>>

\* The agent reports an error and may go on; the event type is terminal.
AgentError(w) ==
    /\ Ready(w, {"streaming"})
    /\ stream[w].no < MaxEmits
    /\ Record(w, [Appended(w, "error") EXCEPT !.errored = TRUE])
    /\ UNCHANGED <<row, paused, client>>

\* The tool pause: its state is saved, then its event goes out.
Pause(w) ==
    /\ Ready(w, {"streaming"})
    /\ w = First
    /\ row = "open"
    /\ stream[w].no < MaxEmits
    /\ paused' = TRUE
    /\ Record(w, [Appended(w, "no") EXCEPT !.stage = "pausing"])
    /\ UNCHANGED <<row, client>>

\* The client resumes: the continuation's numbers go on from the journal's.
Resume(w) ==
    /\ stream[w].pc = "idle"
    /\ paused
    /\ paused' = FALSE
    /\ \E seed \in {Latest} \cup (IF Blips THEN {-1} ELSE {}) :
         stream' = [stream EXCEPT ![w] = [IdleStream EXCEPT
                       !.pc = "ready", !.base = seed + 1, !.next = seed + 1]]
    /\ UNCHANGED <<row, journal, client>>

\* finalize_message; an error with no output fails the row.
Finish(w) ==
    /\ Ready(w, {"streaming"})
    /\ \E verdict \in {"complete"} \cup (IF stream[w].errored THEN {"failed"} ELSE {}) :
         row' = IF row = "open" THEN verdict ELSE row
    /\ stream' = [stream EXCEPT ![w].stage = "finished"]
    /\ UNCHANGED <<paused, journal, client>>

\* The handler of any other exception.
Fail(w) ==
    /\ Ready(w, {"streaming", "pausing", "finished"})
    /\ row' = IF row = "open" THEN "failed" ELSE row
    /\ stream' = [stream EXCEPT ![w].stage = "failed"]
    /\ UNCHANGED <<paused, journal, client>>

\* The terminal event goes out and the writer is closed.
Close(w) ==
    /\ Ready(w, {"pausing", "finished", "failed"})
    /\ Flush(w, [Appended(w, IF stream[w].stage = "failed" THEN "error" ELSE "end")
                   EXCEPT !.stage = "closed"])
    /\ UNCHANGED <<row, paused, client>>

\* GeneratorExit: the buffer is drained before the row is looked at.
Abort(w) ==
    /\ Aborts
    /\ Ready(w, {"streaming", "pausing", "finished"})
    /\ Flush(w, [stream[w] EXCEPT !.stage = "aborted"])
    /\ UNCHANGED <<row, paused, client>>

\* Mutant: the event is named after the row's status.
AbortVerdictStatus(status, answered) == IF answered THEN "complete" ELSE "failed"

\* Mutant: an aborted stream always journals `end`.
AbortVerdictEnd(status, answered) == "end"

\* `end` only if the answer is in the row, be it by an earlier finalize.
AbortVerdict(status, answered) ==
    IF answered /\ status \in {"open", "complete"} THEN "end" ELSE "error"

\* The terminal event of an aborted stream goes out by record_event.
AbortEnds(w) ==
    /\ Ready(w, {"aborted"})
    /\ \E answered \in BOOLEAN :
         LET s == stream[w]
             ends == AbortVerdict(row, answered)
         IN /\ row' = IF row # "open" THEN row
                      ELSE IF answered THEN "complete" ELSE "failed"
            /\ stream' = [stream EXCEPT ![w] =
                 [s EXCEPT !.stage = "closed", !.pc = "row", !.single = TRUE,
                           !.no = @ + 1, !.next = @ + 1,
                           !.work = <<[at |-> s.next,
                                       event |-> [by |-> w, no |-> s.no + 1,
                                                  ends |-> ends]]>>]]
    /\ UNCHANGED <<paused, journal, client>>

\* StreamSuperseded: the row was truncated away.
Superseded(w) ==
    /\ Ready(w, {"streaming"})
    /\ row = "gone"
    /\ Flush(w, [stream[w] EXCEPT !.stage = "closed"])
    /\ UNCHANGED <<row, paused, client>>

\* How many events the POST stream of w has sent, its terminal one apart.
SentSoFar(w) ==
    stream[w].no - (IF \/ stream[w].pc \notin {"ready", "dead"}
                       \/ stream[w].stage = "closed"
                    THEN 1 ELSE 0)

\* The process is there: the row has its heartbeat.
Alive(w) ==
    /\ stream[w].pc \notin {"idle", "dead"}
    /\ ~(stream[w].pc = "ready" /\ stream[w].stage = "closed")

\* The process dies: what it buffered is lost.
Crash(w) ==
    /\ Aborts
    /\ Alive(w)
    /\ stream' = [stream EXCEPT ![w].pc = "dead", ![w].no = SentSoFar(w),
                                ![w].stage = "aborted",
                                ![w].buffer = <<>>, ![w].work = <<>>]
    /\ UNCHANGED <<row, paused, journal, client>>

-----------------------------------------------------------------------------
\* The writers' commits and publishes

\* Topic.publish: to the readers subscribed at this moment.
Published(frame) ==
    \/ client' = [r \in Reader |->
                    IF client[r].pc \in {"subscribed", "live"}
                    THEN [client[r] EXCEPT !.inbox = Append(@, frame)]
                    ELSE client[r]]
    \/ Drops /\ UNCHANGED client

\* The first event of the batch is done with.
Popped(s, pc) == [s EXCEPT !.work = Tail(@), !.single = FALSE,
                          !.pc = IF Len(s.work) > 1 THEN pc ELSE "ready"]

Publish(w) ==
    /\ stream[w].pc = "publish"
    /\ Published(Head(stream[w].work))
    /\ stream' = [stream EXCEPT ![w] = Popped(@, "publish")]
    /\ UNCHANGED <<row, paused, journal>>

\* An event that could not be written: record_event publishes it all the same.
Unwritten(s) == IF s.single THEN [s EXCEPT !.pc = "publishRow"] ELSE Popped(s, "row")

\* The INSERT of one event, at its own number or, the second time, at `at`.
InsertRow(w) ==
    LET s == stream[w]
        at == IF s.pc = "retry" THEN s.at ELSE Head(s.work).at
    IN /\ s.pc \in {"row", "retry"}
       /\ \/ /\ row # "gone"
             /\ at \notin DOMAIN journal
             /\ journal' = Inserted(<<[at |-> at, event |-> Head(s.work).event]>>)
             /\ stream' = [stream EXCEPT ![w].pc = "publishRow", ![w].at = at]
          \/ /\ row # "gone"
             /\ s.pc = "row"
             /\ at \in DOMAIN journal
             /\ stream' = [stream EXCEPT ![w].pc = "retry", ![w].at = Latest + 1]
             /\ UNCHANGED journal
          \/ /\ \/ row = "gone"
                \/ s.pc = "retry" /\ at \in DOMAIN journal
                \/ Blips
             /\ stream' = [stream EXCEPT ![w] = Unwritten([s EXCEPT !.at = at])]
             /\ UNCHANGED journal
       /\ UNCHANGED <<row, paused, client>>

PublishRow(w) ==
    LET s == stream[w] IN
    /\ s.pc = "publishRow"
    /\ Published([at |-> s.at, event |-> Head(s.work).event])
    /\ stream' = [stream EXCEPT ![w] = Popped(@, "row")]
    /\ UNCHANGED <<row, paused, journal>>

\* A batch interval passes.  The last age is for an event that has been in the
\* buffer for a whole interval.
IntervalPasses(w) ==
    /\ stream[w].pc = "ready"
    /\ stream[w].stage # "closed"
    /\ stream[w].age = "fresh" \/ (stream[w].age = "due" /\ stream[w].buffer # <<>>)
    /\ stream' = [stream EXCEPT ![w].age = IF @ = "fresh" THEN "due" ELSE "late"]
    /\ UNCHANGED <<row, paused, journal, client>>

-----------------------------------------------------------------------------
\* The row, as other parts of the system change it.  A write to the row that
\* fails is TurnLifecycle's matter.

\* truncate_after: message_events goes with the row.
DeleteRow ==
    /\ Aborts
    /\ row # "gone"
    /\ row' = "gone"
    /\ journal' = <<>>
    /\ UNCHANGED <<paused, stream, client>>

\* The reconciler fails a row whose producer is gone.
ReconcileRow ==
    /\ row = "open"
    /\ ~paused
    /\ \A w \in Writer : ~Alive(w)
    /\ row' = "failed"
    /\ UNCHANGED <<paused, journal, stream, client>>

-----------------------------------------------------------------------------
\* The reconnecting clients

\* Bound: a POST stream that brought an error is not reconnected.
Connect(r) ==
    /\ client[r].pc = "off"
    /\ \E w \in Writer : \E n \in 1..SentSoFar(w) :
         /\ stream[w].pc # "idle"
         /\ ~stream[w].errored
         /\ client' = [client EXCEPT ![r] =
              [IdleClient EXCEPT
                 !.pc = "subscribed", !.of = w, !.max = stream[w].base + n - 1,
                 !.seen = [i \in 1..n |-> [by |-> w, no |-> i, ends |-> "no"]]]]
    /\ UNCHANGED <<row, paused, journal, stream>>

Closed(c, by, verdict) ==
    [c EXCEPT !.pc = "closed", !.by = by, !.verdict = verdict, !.inbox = <<>>]

\* The journal past the cursor, in the order of its numbers.
Backlog(cursor) ==
    LET later == {n \in DOMAIN journal : n > cursor}
        Rank(n) == Cardinality({m \in later : m <= n})
    IN [i \in 1..Cardinality(later) |-> CHOOSE n \in later : Rank(n) = i]

IsTerminal(event) == event.ends # "no"

\* read_snapshot_lines: the client is shown all of the backlog, and the stream
\* is closed if that holds a terminal event.
Replayed(c) ==
    LET backlog == Backlog(c.max)
        events == [i \in DOMAIN backlog |-> journal[backlog[i]]]
        terminal == {i \in DOMAIN events : IsTerminal(events[i])}
        shown == [c EXCEPT !.pc = "live", !.seen = @ \o events,
                           !.max = IF backlog = <<>> THEN @ ELSE backlog[Len(backlog)]]
    IN IF terminal = {} THEN shown
       ELSE Closed(shown, "journal", events[Min(terminal)].ends)

\* The SUBSCRIBE was acknowledged.
Snapshot(r) ==
    /\ client[r].pc = "subscribed"
    /\ client' = [client EXCEPT ![r] = Replayed(@)]
    /\ UNCHANGED <<row, paused, journal, stream>>

\* Without Redis there is the backlog and no more.
SnapshotOnly(r) ==
    /\ Drops
    /\ client[r].pc = "subscribed"
    /\ LET c == Replayed(client[r]) IN
       client' = [client EXCEPT ![r] =
         IF c.pc = "closed" THEN c ELSE Closed(c, "fault", "no")]
    /\ UNCHANGED <<row, paused, journal, stream>>

\* The snapshot failed, or the live tail broke off.
Break(r) ==
    /\ \/ Blips /\ client[r].pc = "subscribed"
       \/ Drops /\ client[r].pc = "live"
    /\ client' = [client EXCEPT ![r] = Closed(@, "fault", "no")]
    /\ UNCHANGED <<row, paused, journal, stream>>

\* Mutant: the live tail has no dedup floor.
FreshAlways(c, frame) == TRUE

\* The snapshot covers the numbers up to the floor.
Fresh(c, frame) == frame.at > c.max

Deliver(r) ==
    LET c == client[r]
        frame == Head(c.inbox)
        shown == [c EXCEPT !.inbox = Tail(@), !.max = frame.at,
                           !.seen = Append(@, frame.event)]
    IN /\ c.pc = "live"
       /\ c.inbox # <<>>
       /\ client' = [client EXCEPT ![r] =
            IF ~Fresh(c, frame) THEN [c EXCEPT !.inbox = Tail(@)]
            ELSE IF IsTerminal(frame.event)
                 THEN Closed(shown, "journal", frame.event.ends) ELSE shown]
       /\ UNCHANGED <<row, paused, journal, stream>>

\* Mutant: only a missing heartbeat counts.
ProducerSilent == row = "open" /\ \A w \in Writer : ~Alive(w)

\* _check_producer_liveness: settled, deleted, or without a heartbeat.
ProducerGone == row # "open" \/ \A w \in Writer : ~Alive(w)

\* An idle tick of a live reader.
Watchdog(r) ==
    /\ client[r].pc = "live"
    /\ client[r].inbox = <<>>
    /\ ProducerGone
    /\ client' = [client EXCEPT ![r] =
         Closed(@, "watchdog", IF row = "complete" THEN "end" ELSE "error")]
    /\ UNCHANGED <<row, paused, journal, stream>>

-----------------------------------------------------------------------------

StreamStep(w) ==
    \/ Emit(w) \/ AgentError(w) \/ Pause(w) \/ Resume(w) \/ Finish(w) \/ Fail(w)
    \/ Close(w) \/ Abort(w) \/ AbortEnds(w) \/ Superseded(w) \/ Crash(w)
    \/ Publish(w) \/ InsertRow(w) \/ PublishRow(w) \/ IntervalPasses(w)

ClientStep(r) ==
    Connect(r) \/ Snapshot(r) \/ SnapshotOnly(r) \/ Break(r) \/ Deliver(r) \/ Watchdog(r)

Next == \/ \E w \in Writer : StreamStep(w)
        \/ \E r \in Reader : ClientStep(r)
        \/ DeleteRow \/ ReconcileRow

Spec == Init /\ [][Next]_vars

\* Threads go on: a writer's own I/O, an accepted connection.  A stream may
\* still hang in its agent for ever.
Fairness ==
    /\ \A w \in Writer : WF_vars(Publish(w)) /\ WF_vars(InsertRow(w))
                         /\ WF_vars(PublishRow(w))
    /\ \A r \in Reader : WF_vars(Snapshot(r) \/ Deliver(r) \/ Watchdog(r))

FairSpec == Spec /\ Fairness

-----------------------------------------------------------------------------
\* Properties

Reconnected(r) == client[r].pc # "off"

\* Only the first stream of the message has emitted.
NotResumed == \A w \in Writer \ {First} : stream[w] = IdleStream

\* Until a turn is resumed, a client that lost its POST stream sees its events
\* in order, none twice and none left out: subscribing before the snapshot,
\* publishing after the commit and the dedup floor together see to it, while
\* writes and publications get through (Blips, Drops).  With a second stream
\* the numbers may be taken twice, and the pause's end closes the client
\* (ResumeEndsWithOwn).
ReplayIsExact ==
    NotResumed =>
        \A r \in Reader : Reconnected(r) /\ row # "gone"
            => \A i \in DOMAIN client[r].seen : client[r].seen[i].no = i

\* Nobody is told `end` by a message whose answer was not saved, unless it was
\* the pause of a stream that waits to be resumed or was.
EndIsTrue ==
    \A r \in Reader : client[r].verdict = "end"
        => \/ row \in {"complete", "gone"}
           \/ paused \/ \E w \in Writer \ {First} : stream[w] # IdleStream

\* Two streams of a message may race for numbers: still the journal holds each
\* stream's events in the order they were sent, none of them twice.
EmissionOrder ==
    \A m, n \in DOMAIN journal :
        m < n /\ journal[m].by = journal[n].by => journal[m].no < journal[n].no

\* A reconnected client is let go when the turn is over, whatever was lost of
\* its terminal event: the commit, the publish or the process that sends it.
ReaderReleased ==
    LET over == row # "open" \/ \A w \in Writer : ~Alive(w)
    IN \A r \in Reader : client[r].pc \in {"subscribed", "live"} /\ over
                             ~> client[r].pc = "closed" \/ ~over

\* An event is in the journal a batch interval after it was sent.
JournalLagBounded == \A w \in Writer : stream[w].age # "late"

\* A client that is told `end` of a complete answer has all of the answer.
EndIsWhole ==
    \A r \in Reader : client[r].verdict = "end" /\ row = "complete"
        => \A n \in 1..SentSoFar(First) : \E i \in DOMAIN client[r].seen :
              client[r].seen[i].no = n

\* A client of the resumed stream is told `end` by that stream.
ResumeEndsWithOwn ==
    \A r \in Reader : client[r].by = "journal" /\ client[r].of # First
        => client[r].seen[Len(client[r].seen)].by = client[r].of
=============================================================================
