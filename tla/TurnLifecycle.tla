---------------------------- MODULE TurnLifecycle ----------------------------
(***************************************************************************)
(* The durable life of one chat turn.                                      *)
(*                                                                         *)
(* A turn is a row of conversation_messages, reserved before the model is  *)
(* called and brought to a terminal status by whichever of these reaches   *)
(* it first: the stream that produces the answer, a later stream that      *)
(* resumes it after a tool pause, the reconciler (30 s beat), the          *)
(* continuation janitor (60 s beat), or a retry that deletes it.           *)
(*                                                                         *)
(* One conversation of one user.  Each database transaction is one action; *)
(* whatever the code does in two transactions is two actions.  Time is     *)
(* kept as the answers to the comparisons the SQL makes: whether the       *)
(* heartbeat is older than 5 minutes, the continuation past its TTL, the   *)
(* claim older than the 600 s grace, the last tool call within 15 minutes. *)
(***************************************************************************)
EXTENDS Naturals, FiniteSets, FiniteSetsExt

CONSTANTS
    Msg,          \* ids of conversation_messages rows, each used once
    Stream,       \* requests: each runs complete_stream at most once
    NoMsg,        \* "no message"
    MaxAttempts,  \* MAX_MESSAGE_RECONCILE_ATTEMPTS
    MaxCalls,     \* bound: journalled tool calls of one stream
    Blips,        \* may heartbeat writes of a live stream fail for 5 minutes?
    SlowResume    \* may a resume outlive its claim's grace or its state's TTL?

ASSUME ConstantsAssumption ==
    /\ NoMsg \notin Msg
    /\ IsFiniteSet(Msg)
    /\ MaxAttempts \in Nat \ {0}
    /\ MaxCalls \in Nat
    /\ Blips \in BOOLEAN
    /\ SlowResume \in BOOLEAN

VARIABLES
    row,          \* conversation_messages
    tombstones,   \* superseded_messages
    pts,          \* the conversation's row of pending_tool_state
    stream,       \* the requests' local state
    retiring      \* messages the janitor still has to fail, after its commit

vars == <<row, tombstones, pts, stream, retiring>>

-----------------------------------------------------------------------------
\* Types

Open     == {"pending", "streaming"}
Terminal == {"complete", "failed"}
Gone     == {"unused", "deleted"}

\* Why a row is failed: message_metadata's error and resume_retryable.
Cause == {"none", "stream", "disconnect", "retryable", "reconciler", "expired"}

Row == [status: Open \cup Terminal \cup Gone,
        position: Nat,
        cause: Cause,
        cleared: BOOLEAN,    \* reconciler_cleared_approval
        fresh: BOOLEAN,      \* created or heartbeaten within 5 minutes
        seen: BOOLEAN,       \* last_reconcile_seen_heartbeat is the current one
        attempts: Nat,       \* reconcile_attempts
        toolRecent: BOOLEAN] \* a live tool_call_attempts row within 15 minutes

PendingState == [status: {"none", "pending", "resuming"},
                 msg: Msg \cup {NoMsg},   \* agent_config.reserved_message_id
                 expired: BOOLEAN,        \* expires_at has passed
                 overdue: BOOLEAN]        \* resumed_at older than the grace

Outcome == {"none", "updated", "already_complete", "already_failed", "not_found"}

StreamState == [pc: {"idle", "setup", "running", "pausing", "failing", "finished",
                     "done"},
                msg: Msg \cup {NoMsg},
                resumes: BOOLEAN,     \* _continuation is set
                ticking: BOOLEAN,     \* the heartbeat thread runs
                cancelled: BOOLEAN,   \* stream_cancelled is set
                output: BOOLEAN,      \* response_full is not empty
                calls: 0..MaxCalls,   \* tool calls journalled
                released: BOOLEAN,    \* claim_released
                outcome: Outcome]     \* of finalize_message(status="complete")

TypeOK ==
    /\ row \in [Msg -> Row]
    /\ tombstones \subseteq Msg
    /\ pts \in PendingState
    /\ stream \in [Stream -> StreamState]
    /\ retiring \subseteq Msg
    /\ (pts.status = "none") <=> (pts.msg = NoMsg)
    /\ \A s \in Stream : (stream[s].pc = "idle") <=> (stream[s].msg = NoMsg)

-----------------------------------------------------------------------------
\* Initial state

NoRow == [status |-> "unused", position |-> 0, cause |-> "none",
          cleared |-> FALSE, fresh |-> FALSE, seen |-> FALSE,
          attempts |-> 0, toolRecent |-> FALSE]

NoState == [status |-> "none", msg |-> NoMsg, expired |-> FALSE,
            overdue |-> FALSE]

IdleStream == [pc |-> "idle", msg |-> NoMsg, resumes |-> FALSE,
               ticking |-> FALSE, cancelled |-> FALSE, output |-> FALSE,
               calls |-> 0, released |-> FALSE, outcome |-> "none"]

Init ==
    /\ row = [m \in Msg |-> NoRow]
    /\ tombstones = {}
    /\ pts = NoState
    /\ stream = [s \in Stream |-> IdleStream]
    /\ retiring = {}

-----------------------------------------------------------------------------
\* conversation_messages: the writes

Stored == {m \in Msg : row[m].status \notin Gone}

\* Mutants of MayFinalize: a reclaim that ignores the revoked approval, and a
\* write without the only_if_non_terminal gate.
MayFinalizeRevoked(r, status) ==
    \/ r.status \in Open
    \/ status = "complete" /\ r.status = "failed"
       /\ r.cause \in {"reconciler", "retryable"}

MayFinalizeAlways(r, status) == r.status \notin Gone

\* The WHERE clause of update_message_by_id as finalize_message calls it:
\* open rows, and for a successful finalize the two reclaim holes.
MayFinalize(r, status) ==
    \/ r.status \in Open
    \/ /\ status = "complete"
       /\ r.status = "failed"
       /\ \/ r.cause = "reconciler" /\ ~r.cleared
          \/ r.cause = "retryable"

FinalizeOutcome(r, status) ==
    CASE MayFinalize(r, status)   -> "updated"
      [] r.status = "complete"    -> "already_complete"
      [] r.status = "failed"      -> "already_failed"
      [] OTHER                    -> "not_found"

\* A row that leaves the open statuses.  The liveness bookkeeping is read of
\* open rows only, so it is not kept for the others.
Settled(r, status, cause) ==
    [r EXCEPT !.status = status, !.cause = cause, !.fresh = FALSE,
              !.seen = FALSE, !.attempts = 0, !.toolRecent = FALSE]

\* The row after finalize_message: success strips the recorded error.
Finalized(r, status, cause) ==
    IF MayFinalize(r, status)
    THEN Settled(r, status, IF status = "complete" THEN "none" ELSE cause)
    ELSE r

\* Mutant: the stamp does not count streaming rows as in flight.
StampedPendingOnly(r) ==
    IF r.status = "pending" THEN [r EXCEPT !.fresh = TRUE, !.seen = FALSE] ELSE r

\* heartbeat_message: stamps open rows only.
Stamped(r) ==
    IF r.status \in Open THEN [r EXCEPT !.fresh = TRUE, !.seen = FALSE] ELSE r

\* update_message_status(streaming): flips open rows only.
Streaming(r) ==
    IF r.status \in Open THEN [r EXCEPT !.status = "streaming"] ELSE r

\* reserve_message: the position after the rows that are kept.
NextPosition(keep) ==
    IF keep = {} THEN 0 ELSE Max({row[m].position : m \in keep}) + 1

\* Mutant: the placeholder is reserved before the history is truncated.
NewRowBeforeCut(keep) == [NoRow EXCEPT !.status = "pending", !.fresh = TRUE,
                                       !.position = NextPosition(Stored)]

NewRow(keep) == [NoRow EXCEPT !.status = "pending", !.fresh = TRUE,
                              !.position = NextPosition(keep)]

-----------------------------------------------------------------------------
\* A request that starts a turn

\* Its local state dies with the request; which turn it worked on, whether it
\* released a claim, and what became of its answer, is kept for the properties.
Ended(s) == [IdleStream EXCEPT !.pc = "done", !.msg = stream[s].msg,
                               !.resumes = stream[s].resumes,
                               !.released = stream[s].released,
                               !.outcome = stream[s].outcome]

\* truncate_after: the rows from index on, and the tombstones they leave.
CutFrom(index) == {k \in Stored : row[k].position >= index}

\* Mutant: only rows that a stream may still be writing leave a tombstone.
EntombedOpen(cut) == tombstones \cup {k \in cut : row[k].status \in Open}

Entombed(cut) == tombstones \cup cut

\* save_user_question in one transaction: a retry or an edit truncates from
\* its index on, leaving tombstones; then the placeholder is reserved.  An
\* index past the last row truncates nothing: the plain follow-up question.
StartTurn(s, m, index) ==
    LET cut == CutFrom(index) IN
    /\ stream[s].pc = "idle"
    /\ row[m].status = "unused"
    /\ row' = [k \in Msg |->
                 IF k = m THEN NewRow(Stored \ cut)
                 ELSE IF k \in cut THEN [NoRow EXCEPT !.status = "deleted"]
                 ELSE row[k]]
    /\ tombstones' = Entombed(cut)
    /\ stream' = [stream EXCEPT ![s].pc = "running", ![s].msg = m,
                                ![s].ticking = TRUE]
    /\ UNCHANGED <<pts, retiring>>

\* Mutant: the state is loaded whatever its status, then marked.
ClaimAnyState(s) ==
    /\ stream[s].pc = "idle"
    /\ ~pts.expired
    /\ pts' = [pts EXCEPT !.status = "resuming", !.overdue = FALSE]
    /\ stream' = [stream EXCEPT ![s].pc = "setup", ![s].msg = pts.msg,
                                ![s].resumes = TRUE]
    /\ UNCHANGED <<row, tombstones, retiring>>

\* Mutant: the claim does not check that it is the first.
ClaimTwice(s) == pts.status # "none" /\ ClaimAnyState(s)

\* claim_state: one live pending continuation becomes resuming.
ClaimResume(s) ==
    /\ stream[s].pc = "idle"
    /\ pts.status = "pending"
    /\ ~pts.expired
    /\ pts' = [pts EXCEPT !.status = "resuming", !.overdue = FALSE]
    /\ stream' = [stream EXCEPT ![s].pc = "setup", ![s].msg = pts.msg,
                                ![s].resumes = TRUE]
    /\ UNCHANGED <<row, tombstones, retiring>>

\* The agent could not be rebuilt, or the usage check refused the request:
\* the route answers an error and nobody gives the claim back.
ResumeRefused(s) ==
    /\ stream[s].pc = "setup"
    /\ stream' = [stream EXCEPT ![s] = Ended(s)]
    /\ UNCHANGED <<row, tombstones, pts, retiring>>

\* complete_stream on a continuation: the seed heartbeat and the ticker.
BeginResume(s) ==
    /\ stream[s].pc = "setup"
    /\ row' = [row EXCEPT ![stream[s].msg] = Stamped(@)]
    /\ stream' = [stream EXCEPT ![s].pc = "running", ![s].ticking = TRUE]
    /\ UNCHANGED <<tombstones, pts, retiring>>

-----------------------------------------------------------------------------
\* A running stream

\* _mark_streaming_once on the first answer chunk.
FirstChunk(s) ==
    /\ stream[s].pc = "running"
    /\ ~stream[s].output
    /\ row' = [row EXCEPT ![stream[s].msg] = Stamped(Streaming(@))]
    /\ stream' = [stream EXCEPT ![s].output = TRUE]
    /\ UNCHANGED <<tombstones, pts, retiring>>

\* A server-side tool call is journalled against the message, which exempts
\* an open row from the sweep; a failed insert (no such row) is swallowed.
JournalToolCall(s) ==
    /\ stream[s].pc = "running"
    /\ stream[s].calls < MaxCalls
    /\ row' = [row EXCEPT ![stream[s].msg].toolRecent =
                              row[stream[s].msg].status \in Open]
    /\ stream' = [stream EXCEPT ![s].calls = @ + 1]
    /\ UNCHANGED <<tombstones, pts, retiring>>

\* One iteration of the heartbeat thread: STAMPED, TERMINAL or MISSING.
Tick(s) ==
    LET m == stream[s].msg IN
    /\ stream[s].ticking
    /\ row' = [row EXCEPT ![m] = Stamped(@)]
    /\ stream' = [stream EXCEPT ![s].ticking = row[m].status \in Open,
                                ![s].cancelled = @ \/ row[m].status \in Gone]
    /\ UNCHANGED <<tombstones, pts, retiring>>

\* STREAM_HEARTBEAT_MAX_SECONDS: a hung stream stops being vouched for.
TickerCeiling(s) ==
    /\ stream[s].ticking
    /\ stream' = [stream EXCEPT ![s].ticking = FALSE]
    /\ UNCHANGED <<row, tombstones, pts, retiring>>

\* The emit loop notices the cancel flag: nothing is written, and the claim
\* of a resume stays as it is.
Superseded(s) ==
    /\ stream[s].pc = "running"
    /\ stream[s].cancelled
    /\ stream' = [stream EXCEPT ![s] = Ended(s)]
    /\ UNCHANGED <<row, tombstones, pts, retiring>>

\* A tool needs approval or runs on the client: save_state upserts the
\* continuation, whoever's it was.  From here on it can be claimed, while the
\* paused stream has its tail to send.
Pause(s) ==
    /\ stream[s].pc = "running"
    /\ pts' = [status |-> "pending", msg |-> stream[s].msg,
               expired |-> FALSE, overdue |-> FALSE]
    /\ stream' = [stream EXCEPT ![s].pc = "pausing", ![s].calls = 0]
    /\ UNCHANGED <<row, tombstones, retiring>>

\* save_state failed: logged, and the stream goes on as if it had paused.
PauseUnsaved(s) ==
    /\ stream[s].pc = "running"
    /\ stream' = [stream EXCEPT ![s].pc = "pausing", ![s].calls = 0]
    /\ UNCHANGED <<row, tombstones, pts, retiring>>

\* The tail is out: the pause event, the id and the end are yielded and the
\* journal is closed.  The row stays open.  A client that goes away earlier
\* leads to Abort; nothing else in the tail raises, publishing and journalling
\* swallow their errors.
EndPause(s) ==
    /\ stream[s].pc = "pausing"
    /\ stream' = [stream EXCEPT ![s] = Ended(s)]
    /\ UNCHANGED <<row, tombstones, pts, retiring>>

-----------------------------------------------------------------------------
\* The four ways out of complete_stream

\* The generator is exhausted.  A stream that only produced an error
\* finalizes failed, any other complete; a resume has its state to drop.
Finish(s, status) ==
    LET m == stream[s].msg IN
    /\ stream[s].pc = "running"
    /\ status = "failed" => ~stream[s].output
    /\ row' = [row EXCEPT ![m] = Finalized(@, status, "stream")]
    /\ stream' = [stream EXCEPT ![s] =
                    [(IF @.resumes THEN [@ EXCEPT !.pc = "finished"]
                                   ELSE Ended(s))
                     EXCEPT !.outcome = IF status = "complete"
                                        THEN FinalizeOutcome(row[m], status)
                                        ELSE "none"]]
    /\ UNCHANGED <<tombstones, pts, retiring>>

\* delete_state: by conversation and user, whatever the row now is.
DropState(s) ==
    /\ stream[s].pc = "finished"
    /\ pts' = NoState
    /\ stream' = [stream EXCEPT ![s] = Ended(s)]
    /\ UNCHANGED <<row, tombstones, retiring>>

\* GeneratorExit, also in the tail of a pause, when a resume may be at work
\* already: partial output is kept as a complete answer; otherwise, or when
\* that did not land, the row is failed.  The continuation is left alone.
\* (After Finish it would find the row settled and change nothing.)
Abort(s) ==
    LET m == stream[s].msg
        o == FinalizeOutcome(row[m], "complete")
    IN
    /\ stream[s].pc \in {"running", "pausing"}
    /\ row' = [row EXCEPT ![m] =
                 IF stream[s].output /\ o \in {"updated", "already_complete"}
                 THEN Finalized(@, "complete", "none")
                 ELSE Finalized(@, "failed", "disconnect")]
    /\ stream' = [stream EXCEPT ![s] = [Ended(s) EXCEPT
                    !.outcome = IF stream[s].output THEN o ELSE "none"]]
    /\ UNCHANGED <<tombstones, pts, retiring>>

\* An exception: a resume first hands its claim back (release_claim) ...
Fail(s) ==
    LET release == stream[s].resumes /\ pts.status = "resuming" IN
    /\ stream[s].pc = "running"
    /\ pts' = IF release
              THEN [pts EXCEPT !.status = "pending", !.expired = FALSE,
                               !.overdue = FALSE]
              ELSE pts
    /\ stream' = [stream EXCEPT ![s].pc = "failing", ![s].released = release]
    /\ UNCHANGED <<row, tombstones, retiring>>

\* ... and in a second transaction fails the row, retryable if it did.
FailRow(s) ==
    /\ stream[s].pc = "failing"
    /\ row' = [row EXCEPT ![stream[s].msg] =
                 Finalized(@, "failed",
                           IF stream[s].released THEN "retryable" ELSE "stream")]
    /\ stream' = [stream EXCEPT ![s] = Ended(s)]
    /\ UNCHANGED <<tombstones, pts, retiring>>

\* The worker dies: SIGKILL, OOM, recycle.  The ticker dies with it.
Crash(s) ==
    /\ stream[s].pc \notin {"idle", "done"}
    /\ stream' = [stream EXCEPT ![s] = Ended(s)]
    /\ UNCHANGED <<row, tombstones, pts, retiring>>

-----------------------------------------------------------------------------
\* The reconciler

StateLive ==
    \/ pts.status = "pending" /\ ~pts.expired
    \/ pts.status = "resuming" /\ ~pts.overdue

\* find_and_lock_stuck_messages
Stuck(m) ==
    /\ row[m].status \in Open
    /\ ~row[m].fresh
    /\ ~StateLive
    /\ ~row[m].toolRecent

\* Mutant: every tick counts as the first.
AttemptsReset(r) == 1

\* increment_message_reconcile_attempts: consecutive ticks without a stamp.
Attempts(r) == IF r.seen THEN r.attempts + 1 ELSE 1

\* One stuck row in one tick of the message sweep.  At the last attempt the
\* row fails and the conversation's continuation, if there is one, goes with
\* it; the row then remembers that an approval was revoked.
Reconcile(m) ==
    LET n == Attempts(row[m])
        fatal == n >= MaxAttempts
    IN
    /\ Stuck(m)
    /\ row' = [row EXCEPT ![m] =
                 IF fatal
                 THEN [Settled(@, "failed", "reconciler")
                         EXCEPT !.cleared = pts.status # "none"]
                 ELSE [@ EXCEPT !.attempts = n, !.seen = TRUE]]
    /\ pts' = IF fatal THEN NoState ELSE pts
    /\ UNCHANGED <<tombstones, stream, retiring>>

-----------------------------------------------------------------------------
\* The continuation janitor

\* Mutant: no revert, and only pending states are cleaned up.
SweepPendingOnly ==
    /\ pts.status = "pending"
    /\ pts.expired
    /\ retiring' = retiring \cup {pts.msg}
    /\ pts' = NoState
    /\ UNCHANGED <<row, tombstones, stream>>

\* cleanup_pending_tool_state, its transaction: revert_stale_resuming, then
\* cleanup_expired, which deletes resuming rows as well as pending ones.
JanitorSweep ==
    \/ /\ pts.status = "resuming"
       /\ pts.overdue
       /\ pts' = [pts EXCEPT !.status = "pending", !.expired = FALSE,
                             !.overdue = FALSE]
       /\ UNCHANGED <<row, tombstones, stream, retiring>>
    \/ /\ pts.status # "none"
       /\ pts.expired
       /\ ~pts.overdue
       /\ retiring' = retiring \cup {pts.msg}
       /\ pts' = NoState
       /\ UNCHANGED <<row, tombstones, stream>>

\* After the commit: finalize_message(failed) for each deleted state.
JanitorRetire(m) ==
    /\ m \in retiring
    /\ row' = [row EXCEPT ![m] = Finalized(@, "failed", "expired")]
    /\ retiring' = retiring \ {m}
    /\ UNCHANGED <<tombstones, pts, stream>>

\* The beat worker dies after the commit (the task is not redelivered).
JanitorCrash ==
    /\ retiring # {}
    /\ retiring' = {}
    /\ UNCHANGED <<row, tombstones, pts, stream>>

-----------------------------------------------------------------------------
\* The passing of time

Vouched(m) == \E s \in Stream : stream[s].ticking /\ stream[s].msg = m

\* Requests that took the claim and have not handed it on: a resume that saves
\* its next pause offers the turn to another.
Resuming == {s \in Stream : /\ stream[s].resumes
                            /\ stream[s].pc \in {"setup", "running", "finished"}}

HeartbeatAges(m) ==
    /\ row[m].status \in Open
    /\ row[m].fresh
    /\ Vouched(m) => Blips
    /\ row' = [row EXCEPT ![m].fresh = FALSE]
    /\ UNCHANGED <<tombstones, pts, stream, retiring>>

ToolCallAges(m) ==
    /\ row[m].toolRecent
    /\ row' = [row EXCEPT ![m].toolRecent = FALSE]
    /\ UNCHANGED <<tombstones, pts, stream, retiring>>

ClaimAges ==
    /\ pts.status = "resuming"
    /\ ~pts.overdue
    /\ Resuming # {} => SlowResume
    /\ pts' = [pts EXCEPT !.overdue = TRUE]
    /\ UNCHANGED <<row, tombstones, stream, retiring>>

StateExpires ==
    /\ pts.status # "none"
    /\ ~pts.expired
    /\ Resuming # {} => SlowResume
    /\ pts' = [pts EXCEPT !.expired = TRUE]
    /\ UNCHANGED <<row, tombstones, stream, retiring>>

-----------------------------------------------------------------------------

StreamStep(s) ==
    \/ \E m \in Msg, index \in 0..Cardinality(Msg) : StartTurn(s, m, index)
    \/ ClaimResume(s) \/ ResumeRefused(s) \/ BeginResume(s)
    \/ FirstChunk(s) \/ JournalToolCall(s) \/ Tick(s) \/ TickerCeiling(s)
    \/ Superseded(s) \/ Pause(s) \/ PauseUnsaved(s) \/ EndPause(s)
    \/ \E status \in Terminal : Finish(s, status)
    \/ DropState(s) \/ Abort(s) \/ Fail(s) \/ FailRow(s) \/ Crash(s)

Housekeeping ==
    \/ \E m \in Msg : Reconcile(m) \/ JanitorRetire(m)
    \/ JanitorSweep \/ JanitorCrash

Time ==
    \/ \E m \in Msg : HeartbeatAges(m) \/ ToolCallAges(m)
    \/ ClaimAges \/ StateExpires

Next == (\E s \in Stream : StreamStep(s)) \/ Housekeeping \/ Time

\* The beat runs and time passes; the heartbeat thread has its ceiling.  A
\* stream owes nothing: it may hang, or crash, at any step.
Fairness ==
    /\ \A m \in Msg : /\ WF_vars(Reconcile(m))
                      /\ WF_vars(JanitorRetire(m))
                      /\ WF_vars(HeartbeatAges(m))
                      /\ WF_vars(ToolCallAges(m))
    /\ WF_vars(JanitorSweep) /\ WF_vars(ClaimAges) /\ WF_vars(StateExpires)
    /\ \A s \in Stream : WF_vars(TickerCeiling(s))

Spec == Init /\ [][Next]_vars
FairSpec == Spec /\ Fairness

-----------------------------------------------------------------------------
\* Properties

\* The stored turns of the conversation sit at positions 0, 1, 2, ... with no
\* gap and no two at one position, however retries cut the history.
PositionsContiguous ==
    /\ {row[m].position : m \in Stored} = 0..(Cardinality(Stored) - 1)
    /\ \A m, k \in Stored : row[m].position = row[k].position => m = k

\* A row whose approval prompt the reconciler revoked never shows an answer,
\* although reconciler failures are otherwise open to a late answer.
RevokedStaysFailed ==
    \A m \in Msg : row[m].cleared => row[m].status = "failed"

\* A finished stream that finds its row gone was replaced by a retry: the
\* orphaned-answer alert (answer_persist_failed) is never raised.
NoOrphanedAnswer ==
    \A s \in Stream :
        stream[s].outcome = "not_found" => stream[s].msg \in tombstones

\* Of all the streams and resumes that ever worked on a turn, at most one has
\* its answer stored, and then the row is complete until a retry drops it.
OneAnswerLands ==
    \A s \in Stream : stream[s].outcome = "updated" =>
        /\ row[stream[s].msg].status \in {"complete", "deleted"}
        /\ \A t \in Stream :
              stream[t].outcome = "updated" /\ stream[t].msg = stream[s].msg
                  => t = s

\* Without database blips the reconciler never fails the row of a stream
\* whose heartbeat thread runs, whatever became of its continuation state.
ReconcilerSparesLiving ==
    [][\A m \in Msg : row'[m].cause = "reconciler" /\ Vouched(m)
                          => row[m].cause = "reconciler"]_vars

\* release_claim goes by conversation: a failing resume of another turn may
\* have released the claim on m.
ForeignReleased(m) == \E u \in Stream : stream[u].released /\ stream[u].msg # m

\* One request at a time has the claim on a paused turn and goes on with it,
\* whatever pauses, failures, releases and crashes came before, as long as no
\* resume outlasts the grace (SlowResume, see RevertsOnlyAbandoned) and the
\* claim was not released by the resume of another turn (see ReleasesOwnClaim
\* and SoleResumer).  It says nothing of the stream that saved the pause: that
\* one may still be in its tail, and settle the row (Abort), while the resume
\* is at work.
OneResumer ==
    \A s, t \in Resuming :
        stream[s].msg = stream[t].msg /\ s # t => ForeignReleased(stream[s].msg)

\* "Another request already owns a continuation claim" refuses the second of
\* two resumes of a turn, always.
SoleResumer == \A s, t \in Resuming : stream[s].msg = stream[t].msg => s = t

\* The janitor gives back abandoned claims only: a live resume keeps its own.
RevertsOnlyAbandoned ==
    [][\A s \in Resuming :
          /\ pts.status = "resuming" /\ pts.msg = stream[s].msg
          /\ stream'[s] = stream[s]
          => pts'.status # "pending"]_vars

\* release_claim undoes the claim of the request that took it, and no other.
ReleasesOwnClaim ==
    [][\A s \in Stream : stream'[s].released /\ ~stream[s].released
                            => pts.msg = stream[s].msg]_vars

\* "Tool continuation expired before resume" is said of turns nobody resumed.
ExpiresOnlyUnresumed ==
    [][\A m \in Msg : row'[m].cause = "expired" /\ row[m].cause # "expired"
                         => \A s \in Resuming : stream[s].msg # m]_vars

\* A continuation that can be claimed leads to a row that takes its answer: a
\* failed row whose state is offered is failed retryably.
ClaimableTurnTakesAnswer ==
    pts.status = "pending" /\ ~pts.expired /\ row[pts.msg].status = "failed"
        => MayFinalize(row[pts.msg], "complete")

\* The abstract view of the rows.
TurnPhase(r) ==
    CASE r.status = "unused"              -> "absent"
      [] r.status \in Open                -> "open"
      [] r.status = "complete"            -> "answered"
      [] r.status = "failed" /\ r.cleared -> "revoked"
      [] r.status = "failed"              -> "failed"
      [] OTHER                            -> "dropped"

Promise == INSTANCE TurnPromise WITH turn <- [m \in Msg |-> TurnPhase(row[m])]

\* The rows keep the promise: safety, and every reserved turn gets settled.
KeepsPromise == Promise!Spec

\* A claim does not strand the user: the continuation is claimable again, or
\* gone, in the end, even when the resuming worker died.
ClaimsReturn == pts.status = "resuming" ~> pts.status # "resuming"
=============================================================================
