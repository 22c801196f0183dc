------------------------- MODULE TurnLifecycleProofs -------------------------
(***************************************************************************)
(* Proofs about TurnLifecycle for any number of turns and requests.        *)
(*                                                                         *)
(* Every step but StartTurn changes at most one row, by a RowStep, and at  *)
(* most one request, by a RequestStep: StepShape says so, one step per     *)
(* action, and the theorems are then arguments about RowStep, RequestStep  *)
(* and StartTurn alone.                                                    *)
(***************************************************************************)
EXTENDS TurnLifecycle, FiniteSetTheorems, TLAPS

USE DEF Open, Terminal, Gone

\* What one write may do to a row: touch it without settling it, settle an
\* open row, or bring the answer to a failed row that was not revoked.
RowStep(r, q) ==
    /\ q.position = r.position
    /\ \/ /\ q.status = r.status \/ {q.status, r.status} \subseteq Open
          /\ q.cleared = r.cleared
          /\ q.cause = r.cause
       \/ /\ r.status \in Open
          /\ q.status \in Terminal
          /\ q.cleared => q.status = "failed" /\ q.cause = "reconciler"
       \/ /\ r.status = "failed"
          /\ ~r.cleared
          /\ q.status = "complete"
          /\ ~q.cleared

\* What one step may do to a request: it keeps its turn, or takes the
\* continuation's; its outcome changes only by finalizing that turn's row.
RequestStep(s, x) ==
    /\ x.pc # "idle"
    /\ x.msg = stream[s].msg \/ x.msg = pts.msg
    /\ stream[s].pc # "idle" => x.msg = stream[s].msg
    /\ x.msg \in Msg
    /\ \/ x.outcome \in {"none", stream[s].outcome}
       \/ /\ x.outcome = FinalizeOutcome(row[x.msg], "complete")
          /\ x.outcome = "updated" => row'[x.msg].status = "complete"

Positions == {row[m].position : m \in Stored}

Layout ==
    /\ \E n \in Nat : Positions = 0..(n - 1)
    /\ \A m, k \in Stored : row[m].position = row[k].position => m = k

RevokedByReconciler ==
    \A m \in Msg : row[m].cleared =>
        row[m].status = "failed" /\ row[m].cause = "reconciler"

\* A request that has not started has done nothing.
IdleIsIdle == \A s \in Stream : stream[s].pc = "idle" => stream[s] = IdleStream

\* The inductive invariant behind TypeOK, PositionsContiguous and
\* RevokedStaysFailed: the position of a new row is a natural number because
\* the stored positions are an initial segment of Nat.
RowInv == TypeOK /\ IdleIsIdle /\ Layout /\ RevokedByReconciler

-----------------------------------------------------------------------------
\* The row writes

\* A write of status, cause and answer to conversation_messages leaves a row,
\* at its position and with its truncation mark.
LEMMA SettledTyped ==
    ASSUME NEW r \in Row, NEW status \in Terminal, NEW cause \in Cause
    PROVE  /\ Settled(r, status, cause) \in Row
           /\ Settled(r, status, cause).status = status
           /\ Settled(r, status, cause).cause = cause
           /\ Settled(r, status, cause).cleared = r.cleared
           /\ Settled(r, status, cause).position = r.position
  BY DEF Row, Settled

\* What finalize_message, the heartbeat and the streaming mark may do to a
\* row: nothing a step of the Shape below excludes.
LEMMA RowWrites ==
    ASSUME NEW r \in Row, r.cleared => r.status = "failed" /\ r.cause = "reconciler",
           NEW status \in Terminal, NEW cause \in Cause
    PROVE  /\ Stamped(r) \in Row /\ RowStep(r, Stamped(r))
           /\ Streaming(r) \in Row /\ RowStep(r, Streaming(r))
           /\ Finalized(r, status, cause) \in Row
           /\ RowStep(r, Finalized(r, status, cause))
           /\ FinalizeOutcome(r, status) \in Outcome
<1>1. Stamped(r) \in Row /\ RowStep(r, Stamped(r))
  BY DEF Row, Stamped, RowStep
<1>2. Streaming(r) \in Row /\ RowStep(r, Streaming(r))
  BY DEF Row, Streaming, RowStep
<1>3. Finalized(r, status, cause) \in Row
  <2> DEFINE c == IF status = "complete" THEN "none" ELSE cause
  <2>1. c \in Cause
    BY DEF Cause
  <2> QED BY <2>1, SettledTyped DEF Finalized
<1>4. RowStep(r, Finalized(r, status, cause))
  <2> DEFINE c == IF status = "complete" THEN "none" ELSE cause
  <2>1. c \in Cause
    BY DEF Cause
  <2>2. CASE MayFinalize(r, status)
    <3>1. /\ Finalized(r, status, cause) = Settled(r, status, c)
          /\ Settled(r, status, c).status = status
          /\ Settled(r, status, c).cleared = r.cleared
          /\ Settled(r, status, c).position = r.position
      <4>1. Finalized(r, status, cause) = Settled(r, status, c)
        BY <2>2 DEF Finalized
      <4>2. /\ Settled(r, status, c).status = status
            /\ Settled(r, status, c).cleared = r.cleared
            /\ Settled(r, status, c).position = r.position
        BY SMTT(30) DEF Settled, Row
      <4> QED BY <4>1, <4>2
    <3>2. \/ r.status \in Open
          \/ r.status = "failed" /\ ~r.cleared /\ status = "complete"
      BY <2>2 DEF MayFinalize
    <3>3. r.cleared \in BOOLEAN
      BY DEF Row
    <3> QED BY <3>1, <3>2, <3>3 DEF RowStep
  <2>3. CASE ~MayFinalize(r, status)
    BY <2>3 DEF Finalized, RowStep
  <2> QED BY <2>2, <2>3
<1>5. FinalizeOutcome(r, status) \in Outcome
  BY DEF Outcome, FinalizeOutcome
<1> QED BY <1>1, <1>2, <1>3, <1>4, <1>5

\* A successful finalize that reports "updated" leaves the row complete.
LEMMA UpdatedMeansComplete ==
    ASSUME NEW r \in Row, NEW cause,
           FinalizeOutcome(r, "complete") = "updated"
    PROVE  Finalized(r, "complete", cause).status = "complete"
  BY DEF Row, FinalizeOutcome, Finalized, Settled

\* A request's record stays one when it ends.
LEMMA EndedTyped ==
    ASSUME TypeOK, NEW s \in Stream, stream[s].pc # "idle"
    PROVE  /\ Ended(s) \in StreamState
           /\ Ended(s).pc = "done"
           /\ Ended(s).msg = stream[s].msg
           /\ Ended(s).msg \in Msg
           /\ Ended(s).outcome = stream[s].outcome
<1>1. stream[s] \in StreamState /\ stream[s].msg \in Msg
  BY ConstantsAssumption DEF TypeOK, StreamState
<1>2. IdleStream \in StreamState
  BY ConstantsAssumption DEF IdleStream, StreamState, Outcome
<1> QED BY <1>1, <1>2 DEF Ended, StreamState

-----------------------------------------------------------------------------
\* The shape of the steps

RowsMove == \/ row' = row
            \/ \E m \in Msg, q \in Row :
                  RowStep(row[m], q) /\ row' = [row EXCEPT ![m] = q]

RequestsMove == \/ stream' = stream
                \/ \E s \in Stream, x \in StreamState :
                      RequestStep(s, x) /\ stream' = [stream EXCEPT ![s] = x]

StateMoves == /\ pts' \in PendingState
              /\ (pts'.status = "none") <=> (pts'.msg = NoMsg)
              /\ \/ pts'.msg \in {NoMsg, pts.msg}
                 \/ \E s \in Stream : /\ stream[s].pc # "idle"
                                      /\ pts'.msg = stream[s].msg

Shape == RowsMove /\ RequestsMove /\ StateMoves

\* Every step of a request's thread except StartTurn writes rows, the request
\* and the continuation as the Shape says.
LEMMA RequestStepShape ==
    ASSUME RowInv, NEW s \in Stream, StreamStep(s),
           ~ \E m \in Msg, index \in 0..Cardinality(Msg) : StartTurn(s, m, index)
    PROVE  Shape
<1> USE ConstantsAssumption
<1> DEFINE m == stream[s].msg
<1>0. /\ stream \in [Stream -> StreamState]
      /\ stream[s] \in StreamState
      /\ stream[s].pc # "idle" => m \in Msg
      /\ row \in [Msg -> Row]
      /\ pts \in PendingState
  BY DEF RowInv, TypeOK, StreamState
<1>k. UNCHANGED pts => StateMoves
  BY DEF RowInv, TypeOK, StateMoves
<1>w. ASSUME stream[s].pc # "idle"
      PROVE  /\ row[m] \in Row
             /\ row[m].cleared => row[m].status = "failed" /\ row[m].cause = "reconciler"
  BY <1>0, <1>w DEF RowInv, RevokedByReconciler
<1>e. ASSUME stream[s].pc # "idle", stream' = [stream EXCEPT ![s] = Ended(s)]
      PROVE  RequestsMove
  <2>1. Ended(s) \in StreamState /\ RequestStep(s, Ended(s))
    BY <1>e, EndedTyped DEF RequestStep, RowInv
  <2> QED BY <2>1, <1>e DEF RequestsMove
<1>1. CASE ClaimResume(s)
  <2> DEFINE x == [stream[s] EXCEPT !.pc = "setup", !.msg = pts.msg, !.resumes = TRUE]
  <2>1. x \in StreamState /\ RequestStep(s, x)
    BY <1>1, <1>0 DEF ClaimResume, RowInv, TypeOK, StreamState, PendingState, RequestStep
  <2>2. stream' = [stream EXCEPT ![s] = x]
    BY <1>1, <1>0 DEF ClaimResume
  <2>3. StateMoves
    BY <1>1, <1>0 DEF ClaimResume, StateMoves, RowInv, TypeOK, PendingState
  <2> QED BY <1>1, <2>1, <2>2, <2>3 DEF ClaimResume, Shape, RowsMove, RequestsMove
<1>2. CASE ResumeRefused(s) \/ Superseded(s) \/ EndPause(s) \/ Crash(s)
  BY <1>2, <1>e, <1>k DEF ResumeRefused, Superseded, EndPause, Crash, Shape, RowsMove
<1>3. CASE BeginResume(s)
  <2>1. stream[s].pc # "idle"
    BY <1>3 DEF BeginResume
  <2> DEFINE x == [stream[s] EXCEPT !.pc = "running", !.ticking = TRUE]
  <2>2. x \in StreamState /\ RequestStep(s, x)
    BY <1>0, <2>1 DEF StreamState, RequestStep
  <2>3. stream' = [stream EXCEPT ![s] = x]
    BY <1>3, <1>0 DEF BeginResume
  <2>4. RowsMove
    BY <1>3, <1>0, <1>w, <2>1, RowWrites DEF BeginResume, RowsMove, Cause
  <2> QED BY <1>3, <1>k, <2>2, <2>3, <2>4 DEF BeginResume, Shape, RequestsMove
<1>4. CASE FirstChunk(s)
  <2>1. stream[s].pc # "idle"
    BY <1>4 DEF FirstChunk
  <2> DEFINE x == [stream[s] EXCEPT !.output = TRUE]
             q == Stamped(Streaming(row[m]))
  <2>2. x \in StreamState /\ RequestStep(s, x)
    BY <1>0, <2>1 DEF StreamState, RequestStep
  <2>3. stream' = [stream EXCEPT ![s] = x]
    BY <1>4, <1>0 DEF FirstChunk
  <2>4. q \in Row /\ RowStep(row[m], q)
    BY <1>w, <2>1 DEF Row, Stamped, Streaming, RowStep
  <2>5. RowsMove
    BY <1>4, <1>0, <2>1, <2>4 DEF FirstChunk, RowsMove
  <2> QED BY <1>4, <1>k, <2>2, <2>3, <2>5 DEF FirstChunk, Shape, RequestsMove
<1>5. CASE JournalToolCall(s)
  <2>1. stream[s].pc # "idle"
    BY <1>5 DEF JournalToolCall
  <2> DEFINE x == [stream[s] EXCEPT !.calls = @ + 1]
             q == [row[m] EXCEPT !.toolRecent = row[m].status \in Open]
  <2>2. x \in StreamState /\ RequestStep(s, x)
    BY <1>0, <1>5, <2>1 DEF JournalToolCall, StreamState, RequestStep
  <2>3. stream' = [stream EXCEPT ![s] = x]
    BY <1>5, <1>0 DEF JournalToolCall
  <2>4. q \in Row /\ RowStep(row[m], q)
    <3>1. (row[m].status \in Open) \in BOOLEAN
      OBVIOUS
    <3>2. ASSUME NEW b \in BOOLEAN
          PROVE  LET z == [row[m] EXCEPT !.toolRecent = b] IN z \in Row /\ RowStep(row[m], z)
      BY <1>w, <2>1 DEF Row, RowStep
    <3> QED BY <3>1, <3>2
  <2>5. row' = [row EXCEPT ![m] = q]
    BY <1>5, <1>0 DEF JournalToolCall
  <2> QED BY <1>5, <1>k, <1>0, <2>1, <2>2, <2>3, <2>4, <2>5
          DEF JournalToolCall, Shape, RequestsMove, RowsMove
<1>t. stream[s].ticking => stream[s].pc # "idle"
  BY DEF RowInv, IdleIsIdle, IdleStream
<1>6. CASE Tick(s)
  <2>1. stream[s].pc # "idle"
    BY <1>6, <1>t DEF Tick
  <2> DEFINE x == [stream[s] EXCEPT !.ticking = row[m].status \in Open,
                                    !.cancelled = @ \/ row[m].status \in Gone]
  <2>2. x \in StreamState /\ RequestStep(s, x)
    <3>1. ASSUME NEW b \in BOOLEAN, NEW c \in BOOLEAN
          PROVE  LET z == [stream[s] EXCEPT !.ticking = b, !.cancelled = c]
                 IN  z \in StreamState /\ RequestStep(s, z)
      BY <1>0, <2>1 DEF StreamState, RequestStep
    <3>2. /\ (row[m].status \in Open) \in BOOLEAN
          /\ (stream[s].cancelled \/ row[m].status \in Gone) \in BOOLEAN
      OBVIOUS
    <3> QED BY <3>1, <3>2
  <2>3. stream' = [stream EXCEPT ![s] = x]
    BY <1>6, <1>0 DEF Tick
  <2>4. RowsMove
    BY <1>6, <1>0, <1>w, <2>1, RowWrites DEF Tick, RowsMove, Cause
  <2> QED BY <1>6, <1>k, <2>2, <2>3, <2>4 DEF Tick, Shape, RequestsMove
<1>7. CASE TickerCeiling(s)
  <2>1. stream[s].pc # "idle"
    BY <1>7, <1>t DEF TickerCeiling
  <2> DEFINE x == [stream[s] EXCEPT !.ticking = FALSE]
  <2>2. x \in StreamState /\ RequestStep(s, x)
    BY <1>0, <2>1 DEF StreamState, RequestStep
  <2>3. stream' = [stream EXCEPT ![s] = x]
    BY <1>7, <1>0 DEF TickerCeiling
  <2> QED BY <1>7, <1>k, <2>2, <2>3 DEF TickerCeiling, Shape, RowsMove, RequestsMove
<1>8. CASE Pause(s) \/ PauseUnsaved(s)
  <2>1. stream[s].pc # "idle" /\ m \in Msg
    BY <1>8, <1>0 DEF Pause, PauseUnsaved
  <2> DEFINE x == [stream[s] EXCEPT !.pc = "pausing", !.calls = 0]
  <2>2. x \in StreamState /\ RequestStep(s, x)
    <3>1. 0 \in 0..MaxCalls
      OBVIOUS
    <3>2. ASSUME NEW c \in 0..MaxCalls
          PROVE  LET z == [stream[s] EXCEPT !.pc = "pausing", !.calls = c]
                 IN  z \in StreamState /\ RequestStep(s, z)
      BY <1>0, <2>1 DEF StreamState, RequestStep
    <3> QED BY <3>1, <3>2
  <2>3. stream' = [stream EXCEPT ![s] = x]
    BY <1>8, <1>0 DEF Pause, PauseUnsaved
  <2>4. RequestsMove
    BY <2>2, <2>3 DEF RequestsMove
  <2>5. StateMoves
    <3>1. CASE Pause(s)
      BY <3>1, <2>1 DEF Pause, StateMoves, PendingState
    <3>2. CASE PauseUnsaved(s)
      BY <3>2, <1>k DEF PauseUnsaved
    <3> QED BY <1>8, <3>1, <3>2
  <2> QED BY <1>8, <2>4, <2>5 DEF Pause, PauseUnsaved, Shape, RowsMove
<1>9. ASSUME NEW status \in Terminal, Finish(s, status) PROVE Shape
  <2>1. stream[s].pc # "idle"
    BY <1>9 DEF Finish
  <2> DEFINE y == IF stream[s].resumes
                  THEN [stream[s] EXCEPT !.pc = "finished"] ELSE Ended(s)
             o == IF status = "complete"
                  THEN FinalizeOutcome(row[m], status) ELSE "none"
             x == [y EXCEPT !.outcome = o]
             q == Finalized(row[m], status, "stream")
  <2>2. /\ y \in StreamState
        /\ y.pc # "idle"
        /\ y.msg = m
    <3>1. CASE stream[s].resumes
      BY <3>1, <1>0 DEF StreamState
    <3>2. CASE ~stream[s].resumes
      BY <3>2, <2>1, EndedTyped DEF RowInv
    <3> QED BY <3>1, <3>2
  <2>3. q \in Row /\ RowStep(row[m], q) /\ o \in Outcome
    BY <1>w, <2>1, RowWrites DEF Cause, Outcome
  <2>4. row' = [row EXCEPT ![m] = q] /\ row'[m] = q
    BY <1>9, <1>0, <2>1 DEF Finish
  <2>5. stream' = [stream EXCEPT ![s] = x]
    BY <1>9, <1>0 DEF Finish
  <2>6. x \in StreamState /\ x.pc # "idle" /\ x.msg = m /\ x.outcome = o
    BY <2>2, <2>3 DEF StreamState
  <2>7. o = "updated" => row'[m].status = "complete"
    <3>1. SUFFICES ASSUME o = "updated" PROVE q.status = "complete"
      BY <2>4
    <3> QED BY <3>1, <1>w, <2>1, UpdatedMeansComplete
  <2>8. RequestStep(s, x)
    BY <2>1, <2>6, <2>7, <1>0 DEF RequestStep
  <2> QED BY <1>9, <1>k, <1>0, <2>1, <2>3, <2>4, <2>5, <2>6, <2>8, ZenonT(30)
          DEF Finish, Shape, RowsMove, RequestsMove
<1>10. CASE DropState(s)
  <2>1. StateMoves
    BY <1>10 DEF DropState, StateMoves, PendingState, NoState
  <2> QED BY <1>10, <1>e, <2>1 DEF DropState, Shape, RowsMove
<1>11. CASE Abort(s)
  <2>1. stream[s].pc # "idle"
    BY <1>11 DEF Abort
  <2> DEFINE o == FinalizeOutcome(row[m], "complete")
             won == stream[s].output /\ o \in {"updated", "already_complete"}
             q == IF won THEN Finalized(row[m], "complete", "none")
                         ELSE Finalized(row[m], "failed", "disconnect")
             u == IF stream[s].output THEN o ELSE "none"
             x == [Ended(s) EXCEPT !.outcome = u]
  <2>2. q \in Row /\ RowStep(row[m], q) /\ u \in Outcome
    BY <1>w, <2>1, RowWrites DEF Cause, Outcome
  <2>3. row' = [row EXCEPT ![m] = q] /\ row'[m] = q
    BY <1>11, <1>0, <2>1 DEF Abort
  <2>4. stream' = [stream EXCEPT ![s] = x]
    BY <1>11, <1>0 DEF Abort
  <2>5. x \in StreamState /\ x.pc # "idle" /\ x.msg = m /\ x.outcome = u
    BY <2>1, <2>2, EndedTyped DEF StreamState, RowInv
  <2>6. u = "updated" => row'[m].status = "complete"
    BY <2>3, <1>w, <2>1, UpdatedMeansComplete
  <2>7. RequestStep(s, x)
    BY <2>1, <2>5, <2>6, <1>0 DEF RequestStep
  <2> QED BY <1>11, <1>k, <1>0, <2>1, <2>2, <2>3, <2>4, <2>5, <2>7, ZenonT(30)
          DEF Abort, Shape, RowsMove, RequestsMove
<1>12. CASE Fail(s)
  <2>1. stream[s].pc # "idle"
    BY <1>12 DEF Fail
  <2> DEFINE release == stream[s].resumes /\ pts.status = "resuming"
             x == [stream[s] EXCEPT !.pc = "failing", !.released = release]
  <2>2. x \in StreamState /\ RequestStep(s, x)
    <3>1. ASSUME NEW b \in BOOLEAN
          PROVE  LET z == [stream[s] EXCEPT !.pc = "failing", !.released = b]
                 IN  z \in StreamState /\ RequestStep(s, z)
      BY <1>0, <2>1 DEF StreamState, RequestStep
    <3>2. release \in BOOLEAN
      BY <1>0 DEF StreamState
    <3> QED BY <3>1, <3>2
  <2>3. stream' = [stream EXCEPT ![s] = x]
    BY <1>12, <1>0 DEF Fail
  <2>4. StateMoves
    BY <1>12, <1>0 DEF Fail, StateMoves, PendingState, RowInv, TypeOK
  <2> QED BY <1>12, <2>2, <2>3, <2>4 DEF Fail, Shape, RowsMove, RequestsMove
<1>13. CASE FailRow(s)
  <2>1. stream[s].pc # "idle"
    BY <1>13 DEF FailRow
  <2> DEFINE c == IF stream[s].released THEN "retryable" ELSE "stream"
  <2>2. c \in Cause
    BY DEF Cause
  <2>3. RowsMove
    BY <1>13, <1>0, <1>w, <2>1, <2>2, RowWrites DEF FailRow, RowsMove
  <2> QED BY <1>13, <1>e, <1>k, <2>1, <2>3 DEF FailRow, Shape
<1> QED BY <1>1, <1>2, <1>3, <1>4, <1>5, <1>6, <1>7, <1>8, <1>9, <1>10, <1>11,
           <1>12, <1>13 DEF StreamStep

\* So do the sweeps of the reconciler and the janitor, the heartbeats that
\* grow old, and the deadlines that pass.
LEMMA BackgroundShape ==
    ASSUME RowInv, Housekeeping \/ Time
    PROVE  Shape
<1> USE ConstantsAssumption
<1>0. /\ row \in [Msg -> Row]
      /\ pts \in PendingState
      /\ retiring \subseteq Msg
  BY DEF RowInv, TypeOK
<1>k. UNCHANGED pts => StateMoves
  BY DEF RowInv, TypeOK, StateMoves
<1>n. pts' = NoState => StateMoves
  BY DEF NoState, StateMoves, PendingState
<1>q. UNCHANGED stream => RequestsMove
  BY DEF RequestsMove
<1>1. ASSUME NEW m \in Msg, Reconcile(m) PROVE Shape
  <2> DEFINE n == Attempts(row[m])
             fatal == n >= MaxAttempts
             c == pts.status # "none"
             q == IF fatal THEN [Settled(row[m], "failed", "reconciler")
                                   EXCEPT !.cleared = c]
                  ELSE [row[m] EXCEPT !.attempts = n, !.seen = TRUE]
  <2>1. row[m] \in Row /\ row[m].status \in Open /\ n \in Nat
    BY <1>0, <1>1 DEF Reconcile, Stuck, Attempts, Row
  <2>2. q \in Row /\ RowStep(row[m], q)
    <3>1. CASE fatal
      <4> DEFINE z == Settled(row[m], "failed", "reconciler")
      <4>1. /\ z \in Row
            /\ z.status = "failed" /\ z.cause = "reconciler"
            /\ z.position = row[m].position
        BY <2>1, SettledTyped DEF Cause
      <4>2. ASSUME NEW b \in BOOLEAN
            PROVE  LET y == [z EXCEPT !.cleared = b]
                   IN  y \in Row /\ RowStep(row[m], y)
        <5> HIDE DEF z
        <5> QED BY <2>1, <4>1 DEF Row, RowStep
      <4> QED BY <3>1, <4>2
    <3>2. CASE ~fatal
      BY <2>1, <3>2 DEF Row, RowStep
    <3> QED BY <3>1, <3>2
  <2>3. RowsMove
    BY <1>1, <1>0, <2>2 DEF Reconcile, RowsMove
  <2>4. StateMoves
    BY <1>1, <1>k, <1>n DEF Reconcile
  <2> QED BY <1>1, <1>q, <2>3, <2>4 DEF Reconcile, Shape
<1>2. ASSUME NEW m \in Msg, JanitorRetire(m) PROVE Shape
  <2>1. row[m].cleared => row[m].status = "failed" /\ row[m].cause = "reconciler"
    BY DEF RowInv, RevokedByReconciler
  <2>2. RowsMove
    BY <1>2, <1>0, <2>1, RowWrites DEF JanitorRetire, RowsMove, Cause
  <2> QED BY <1>2, <1>k, <1>q, <2>2 DEF JanitorRetire, Shape
<1>3. CASE JanitorSweep
  <2>1. StateMoves
    <3>1. \/ /\ pts.status = "resuming"
             /\ pts' = [pts EXCEPT !.status = "pending", !.expired = FALSE,
                                   !.overdue = FALSE]
          \/ pts' = NoState
      BY <1>3 DEF JanitorSweep
    <3>2. CASE pts' = NoState
      BY <3>2, <1>n
    <3>3. CASE pts' # NoState
      BY <3>1, <3>3, <1>0 DEF StateMoves, PendingState, RowInv, TypeOK
    <3> QED BY <3>2, <3>3
  <2> QED BY <1>3, <1>q, <2>1 DEF JanitorSweep, Shape, RowsMove
<1>4. CASE JanitorCrash
  BY <1>4, <1>k, <1>q DEF JanitorCrash, Shape, RowsMove
<1>5. ASSUME NEW m \in Msg, HeartbeatAges(m) \/ ToolCallAges(m) PROVE Shape
  <2>1. ASSUME NEW f \in {[row[m] EXCEPT !.fresh = FALSE],
                          [row[m] EXCEPT !.toolRecent = FALSE]}
        PROVE  f \in Row /\ RowStep(row[m], f)
    BY <1>0, <2>1, ZenonT(60) DEF Row, RowStep
  <2>2. \/ row' = [row EXCEPT ![m] = [row[m] EXCEPT !.fresh = FALSE]]
        \/ row' = [row EXCEPT ![m] = [row[m] EXCEPT !.toolRecent = FALSE]]
    BY <1>5, <1>0 DEF HeartbeatAges, ToolCallAges
  <2>3. RowsMove
    BY <2>1, <2>2 DEF RowsMove
  <2> QED BY <1>5, <1>k, <1>q, <2>3 DEF HeartbeatAges, ToolCallAges, Shape
<1>6. CASE ClaimAges \/ StateExpires
  <2>1. StateMoves
    BY <1>6, <1>0 DEF ClaimAges, StateExpires, StateMoves, PendingState, RowInv, TypeOK
  <2> QED BY <1>6, <1>q, <2>1 DEF ClaimAges, StateExpires, Shape, RowsMove
<1> QED BY <1>1, <1>2, <1>3, <1>4, <1>5, <1>6 DEF Housekeeping, Time

\* Some request opens its turn.
Starts == \E s \in Stream, m \in Msg, index \in 0..Cardinality(Msg) :
              StartTurn(s, m, index)

\* Every step of the system is a StartTurn (save_user_question), has the
\* Shape, or stutters.
LEMMA StepShape ==
    ASSUME RowInv, [Next]_vars
    PROVE  Starts \/ Shape
<1>1. CASE UNCHANGED vars
  BY <1>1 DEF vars, Shape, RowsMove, RequestsMove, StateMoves, RowInv, TypeOK
<1>2. ASSUME NEW s \in Stream, StreamStep(s) PROVE Starts \/ Shape
  BY <1>2, RequestStepShape DEF Starts
<1> QED BY <1>1, <1>2, BackgroundShape DEF Next

-----------------------------------------------------------------------------
\* The layout of the stored rows

\* A step with the shape stores and deletes nothing and moves no row.
LEMMA ShapeKeepsLayout ==
    ASSUME RowInv, Shape
    PROVE  /\ row' \in [Msg -> Row]
           /\ \A m \in Msg : /\ row'[m].position = row[m].position
                             /\ RowStep(row[m], row'[m])
           /\ Stored' = Stored
           /\ Layout'
<1>1. row \in [Msg -> Row]
  BY DEF RowInv, TypeOK
<1>2. row' \in [Msg -> Row] /\ \A m \in Msg : RowStep(row[m], row'[m])
  BY <1>1 DEF Shape, RowsMove, RowStep
<1>3. \A m \in Msg : row'[m].position = row[m].position
  BY <1>2 DEF RowStep
<1>4. Stored' = Stored
  BY <1>1, <1>2 DEF Stored, RowStep, Row
<1>5. Positions' = Positions
  BY <1>3, <1>4 DEF Positions, Stored
<1> QED BY <1>2, <1>3, <1>4, <1>5 DEF Layout, Stored, RowInv

\* What a truncation keeps is an initial segment, and the new row follows it.
LEMMA NextPositionFollows ==
    ASSUME RowInv, NEW index \in Nat
    PROVE  \E n \in Nat :
              /\ {row[m].position : m \in Stored \ CutFrom(index)} = 0..(n - 1)
              /\ NextPosition(Stored \ CutFrom(index)) = n
<1>1. PICK n \in Nat : Positions = 0..(n - 1)
  BY DEF RowInv, Layout
<1> DEFINE keep == Stored \ CutFrom(index)
           P == {row[m].position : m \in keep}
           k == IF index < n THEN index ELSE n
<1>2. k \in Nat /\ P = 0..(k - 1)
  <2>1. P = {p \in Positions : p < index}
    <3>1. \A m \in Stored : row[m].position \in Nat
      BY DEF RowInv, TypeOK, Stored, Row
    <3>2. keep = {m \in Stored : row[m].position < index}
      BY <3>1 DEF CutFrom
    <3> QED BY <3>2 DEF Positions
  <2> QED BY <1>1, <2>1
<1>3. NextPosition(keep) = k
  <2>1. CASE keep = {}
    <3>1. P = {}
      BY <2>1
    <3>2. k = 0
      BY <3>1, <1>2
    <3> QED BY <2>1, <3>2 DEF NextPosition
  <2>2. CASE keep # {}
    <3>1. P # {}
      BY <2>2
    <3>2. k - 1 \in P /\ \A p \in P : p \in Int /\ k - 1 >= p
      BY <1>2, <3>1
    <3>3. Max(P) = k - 1
      BY <3>2, <1>2 DEF Max
    <3> QED BY <2>2, <3>3, <1>2 DEF NextPosition
  <2> QED BY <2>1, <2>2
<1> QED BY <1>2, <1>3

\* A turn is started in an unused row and by an idle request; the new row
\* takes the first free position.
LEMMA StartTurnShape ==
    ASSUME RowInv, NEW s \in Stream, NEW m \in Msg,
           NEW index \in 0..Cardinality(Msg), StartTurn(s, m, index)
    PROVE  /\ row' \in [Msg -> Row]
           /\ row[m].status = "unused" /\ row'[m].status = "pending"
           /\ ~row'[m].cleared
           /\ \A k \in Msg \ {m} :
                 \/ row'[k] = row[k]
                 \/ /\ row'[k].status = "deleted" /\ ~row'[k].cleared
                    /\ row[k].status \notin Gone
                    /\ k \in tombstones'
           /\ tombstones \subseteq tombstones'
           /\ Layout'
<1> DEFINE cut == CutFrom(index)
           keep == Stored \ cut
<1>1. index \in Nat
  BY ConstantsAssumption, FS_CardinalityType
<1>2. PICK n \in Nat : /\ {row[k].position : k \in keep} = 0..(n - 1)
                       /\ NextPosition(keep) = n
  BY <1>1, NextPositionFollows
<1> DEFINE new == NewRow(keep)
<1>3. new \in Row /\ new.status = "pending" /\ new.position = n /\ ~new.cleared
  BY <1>2 DEF NewRow, NoRow, Row, Cause
<1> HIDE DEF new
<1> DEFINE gone == [NoRow EXCEPT !.status = "deleted"]
<1>4. gone \in Row /\ gone.status = "deleted" /\ ~gone.cleared
  BY DEF NoRow, Row, Cause
<1> HIDE DEF gone
<1>5. /\ row \in [Msg -> Row]
      /\ row' = [k \in Msg |-> IF k = m THEN new
                               ELSE IF k \in cut THEN gone ELSE row[k]]
      /\ row[m].status = "unused"
      /\ tombstones' = tombstones \cup cut
  BY DEF StartTurn, RowInv, TypeOK, new, gone, Entombed
<1>6. row' \in [Msg -> Row]
  BY <1>3, <1>4, <1>5
<1>7. cut \subseteq Stored /\ Stored \subseteq Msg /\ m \notin Stored
  BY <1>5 DEF CutFrom, Stored
<1>8. /\ row'[m] = new
      /\ \A k \in cut : row'[k] = gone
      /\ \A k \in Msg : k # m /\ k \notin cut => row'[k] = row[k]
  BY <1>5, <1>7
<1>9. Stored' = keep \cup {m}
  BY <1>3, <1>4, <1>7, <1>8 DEF Stored
<1>10. Positions' = 0..n
  <2>1. Positions' = {row[k].position : k \in keep} \cup {n}
    BY <1>3, <1>7, <1>8, <1>9 DEF Positions
  <2> QED BY <2>1, <1>2
<1>11. \A k, l \in Stored' : row'[k].position = row'[l].position => k = l
  <2>1. \A k \in keep : row'[k].position = row[k].position /\ row[k].position \in 0..(n - 1)
    BY <1>2, <1>7, <1>8
  <2>2. row'[m].position = n
    BY <1>3, <1>8
  <2>3. \A k, l \in keep : row[k].position = row[l].position => k = l
    BY DEF RowInv, Layout
  <2> QED BY <1>9, <2>1, <2>2, <2>3
<1>12. Layout'
  <2>1. n + 1 \in Nat /\ 0..n = 0..((n + 1) - 1)
    BY <1>2
  <2> QED BY <1>10, <1>11, <2>1 DEF Layout
<1>13. \A k \in Msg \ {m} :
          \/ row'[k] = row[k]
          \/ /\ row'[k].status = "deleted" /\ ~row'[k].cleared
             /\ row[k].status \notin Gone
             /\ k \in tombstones'
  BY <1>4, <1>5, <1>7, <1>8 DEF Stored
<1> QED BY <1>3, <1>5, <1>6, <1>8, <1>12, <1>13

-----------------------------------------------------------------------------
\* The inductive invariant of the rows

\* A new conversation has no rows, which is an initial segment.
LEMMA RowInvInit == Init => RowInv
<1> SUFFICES ASSUME Init PROVE RowInv
  OBVIOUS
<1> USE ConstantsAssumption DEF Init
<1>1. NoRow \in Row
  BY DEF NoRow, Row, Cause
<1>2. IdleStream \in StreamState
  BY DEF IdleStream, StreamState, Outcome
<1>3. NoState \in PendingState
  BY DEF NoState, PendingState
<1>4. TypeOK
  BY <1>1, <1>2, <1>3 DEF TypeOK, NoState, IdleStream
<1>5. Stored = {}
  BY DEF Stored, NoRow
<1>6. Layout
  <2>1. Positions = 0..(0 - 1)
    BY <1>5 DEF Positions
  <2> QED BY <2>1, <1>5 DEF Layout
<1>7. RevokedByReconciler /\ IdleIsIdle
  BY DEF RevokedByReconciler, IdleIsIdle, NoRow
<1> QED BY <1>4, <1>6, <1>7 DEF RowInv

\* Every handler keeps the rows well-formed and contiguous: StartTurn
\* truncates and appends in one transaction, the others keep positions.
LEMMA RowInvStep == RowInv /\ [Next]_vars => RowInv'
<1> SUFFICES ASSUME RowInv, [Next]_vars PROVE RowInv'
  OBVIOUS
<1> USE ConstantsAssumption
<1>0. /\ row \in [Msg -> Row]
      /\ stream \in [Stream -> StreamState]
      /\ pts \in PendingState
      /\ tombstones \subseteq Msg
      /\ retiring \subseteq Msg
      /\ \A s \in Stream : (stream[s].pc = "idle") <=> (stream[s].msg = NoMsg)
      /\ (pts.status = "none") <=> (pts.msg = NoMsg)
  BY DEF RowInv, TypeOK
<1>1. tombstones' \subseteq Msg /\ retiring' \subseteq Msg
  <2>1. \A m \in Msg : retiring \ {m} \subseteq Msg
    BY <1>0
  <2>2. pts.status # "none" => retiring \cup {pts.msg} \subseteq Msg
    BY <1>0 DEF PendingState
  <2>3. \A index : CutFrom(index) \subseteq Msg
    BY DEF CutFrom, Stored
  <2>4. ASSUME NEW s \in Stream, StreamStep(s)
        PROVE  retiring' = retiring /\ tombstones' \subseteq Msg
    BY <1>0, <2>3, <2>4 DEF StreamStep, StartTurn, Entombed, ClaimResume,
       ResumeRefused, BeginResume, FirstChunk, JournalToolCall, Tick,
       TickerCeiling, Superseded, Pause, PauseUnsaved, EndPause, Finish, DropState,
       Abort, Fail, FailRow, Crash
  <2>5. CASE Housekeeping
    BY <1>0, <2>1, <2>2, <2>5 DEF Housekeeping, Reconcile, JanitorRetire,
       JanitorSweep, JanitorCrash
  <2>6. CASE Time \/ UNCHANGED vars
    BY <1>0, <2>6 DEF Time, HeartbeatAges, ToolCallAges, ClaimAges, StateExpires, vars
  <2> QED BY <1>0, <2>4, <2>5, <2>6 DEF Next
<1>2. CASE Shape
  <2>1. /\ row' \in [Msg -> Row] /\ Layout'
        /\ \A m \in Msg : RowStep(row[m], row'[m])
    BY <1>2, ShapeKeepsLayout
  <2>2. RevokedByReconciler'
    BY <2>1, <1>0 DEF RowInv, RevokedByReconciler, RowStep, Row
  <2>3. /\ stream' \in [Stream -> StreamState]
        /\ \A s \in Stream : (stream'[s].pc = "idle") <=> (stream'[s].msg = NoMsg)
        /\ IdleIsIdle'
    BY <1>0, <1>2 DEF Shape, RequestsMove, RequestStep, IdleIsIdle, RowInv
  <2>4. pts' \in PendingState /\ ((pts'.status = "none") <=> (pts'.msg = NoMsg))
    BY <1>2 DEF Shape, StateMoves
  <2> QED BY <1>1, <2>1, <2>2, <2>3, <2>4 DEF RowInv, TypeOK
<1>3. ASSUME NEW s \in Stream, NEW m \in Msg, NEW index \in 0..Cardinality(Msg),
             StartTurn(s, m, index)
      PROVE  RowInv'
  <2>1. /\ row' \in [Msg -> Row] /\ Layout' /\ ~row'[m].cleared
        /\ \A k \in Msg \ {m} : row'[k] = row[k] \/ ~row'[k].cleared
    BY <1>3, StartTurnShape
  <2>2. RevokedByReconciler'
    BY <2>1 DEF RowInv, RevokedByReconciler
  <2> DEFINE x == [stream[s] EXCEPT !.pc = "running", !.msg = m, !.ticking = TRUE]
  <2>3. x \in StreamState /\ x.pc # "idle" /\ x.msg = m
    BY <1>0, ZenonT(60) DEF StreamState
  <2>4. stream' = [stream EXCEPT ![s] = x]
    BY <1>0, <1>3 DEF StartTurn
  <2>5. /\ stream' \in [Stream -> StreamState]
        /\ \A t \in Stream : (stream'[t].pc = "idle") <=> (stream'[t].msg = NoMsg)
        /\ IdleIsIdle'
    BY <1>0, <2>3, <2>4 DEF IdleIsIdle, RowInv
  <2>6. pts' = pts
    BY <1>3 DEF StartTurn
  <2> QED BY <1>0, <1>1, <2>1, <2>2, <2>5, <2>6 DEF RowInv, TypeOK
<1> QED BY <1>2, <1>3, StepShape DEF Starts

\* The rows of a conversation keep their types, their positions 0, 1, 2, ...
\* and the cause of every revocation, in every reachable state.
THEOREM RowsInvariant == Spec => []RowInv
  BY RowInvInit, RowInvStep, PTL DEF Spec

\* Rows, requests and the continuation are well-typed in every state: the
\* position of a placeholder is always a natural number.
THEOREM TypeCorrect == Spec => []TypeOK
  BY RowsInvariant, PTL DEF RowInv

\* However retries and edits cut the history, the stored turns sit at
\* positions 0, 1, 2, ... (truncate_after and reserve_message).
THEOREM PositionsStayContiguous == Spec => []PositionsContiguous
<1>1. RowInv => PositionsContiguous
  <2> SUFFICES ASSUME RowInv PROVE PositionsContiguous
    OBVIOUS
  <2>1. PICK n \in Nat : Positions = 0..(n - 1)
    BY DEF RowInv, Layout
  <2>2. \A m, k \in Stored : row[m].position = row[k].position => m = k
    BY DEF RowInv, Layout
  <2> DEFINE at == [m \in Stored |-> row[m].position]
  <2>3. at \in Bijection(Stored, 0..(n - 1))
    BY <2>1, <2>2 DEF Positions, Bijection, Injection, Surjection, IsInjective
  <2>4. ExistsBijection(Stored, 0..(n - 1))
    BY <2>3 DEF ExistsBijection
  <2>5. IsFiniteSet(Stored)
    BY ConstantsAssumption, FS_Subset DEF Stored
  <2>6. Cardinality(0..(n - 1)) = n
    BY <2>1, FS_Interval
  <2>7. Cardinality(Stored) = n
    BY <2>4, <2>5, <2>6, FS_Bijection
  <2> QED BY <2>1, <2>2, <2>7 DEF PositionsContiguous, Positions
<1> QED BY <1>1, RowsInvariant, PTL

\* The reclaim of reconciler-failed rows never brings an answer to a turn
\* whose approval prompt was revoked (update_message_by_id).
THEOREM RevokedStayFailed == Spec => []RevokedStaysFailed
<1>1. RowInv => RevokedStaysFailed
  BY DEF RowInv, RevokedByReconciler, RevokedStaysFailed
<1> QED BY <1>1, RowsInvariant, PTL

-----------------------------------------------------------------------------
\* Answers: one per turn, and none of them orphaned

\* Rows that a request or the continuation refers to were reserved, and a
\* deleted row left its tombstone.
References ==
    /\ \A m \in Msg : row[m].status = "deleted" => m \in tombstones
    /\ \A s \in Stream : stream[s].pc # "idle" =>
          row[stream[s].msg].status # "unused"
    /\ pts.msg # NoMsg => row[pts.msg].status # "unused"

AnswerInv == RowInv /\ References /\ NoOrphanedAnswer /\ OneAnswerLands

\* Before the first request no answer is anywhere.
LEMMA AnswerInvInit == Init => AnswerInv
<1> SUFFICES ASSUME Init PROVE AnswerInv
  OBVIOUS
<1>1. RowInv
  BY RowInvInit
<1>2. References /\ NoOrphanedAnswer /\ OneAnswerLands
  BY DEF Init, NoRow, NoState, IdleStream, References, NoOrphanedAnswer, OneAnswerLands
<1> QED BY <1>1, <1>2 DEF AnswerInv

\* No step but StartTurn reserves or deletes a row or leaves a tombstone.
LEMMA ShapeKeepsRows ==
    ASSUME AnswerInv, Shape
    PROVE  \A m \in Msg : /\ (row'[m].status = "unused") <=> (row[m].status = "unused")
                          /\ (row'[m].status = "deleted") <=> (row[m].status = "deleted")
                          /\ row[m].status = "complete" => row'[m].status = "complete"
<1>1. /\ row \in [Msg -> Row] /\ row' \in [Msg -> Row]
      /\ \A m \in Msg : RowStep(row[m], row'[m])
  BY ShapeKeepsLayout DEF AnswerInv, RowInv, TypeOK
<1>2. ASSUME NEW r \in Row, NEW q \in Row, RowStep(r, q)
      PROVE  /\ (q.status = "unused") <=> (r.status = "unused")
             /\ (q.status = "deleted") <=> (r.status = "deleted")
             /\ r.status = "complete" => q.status = "complete"
  BY <1>2 DEF RowStep, Row
<1> QED BY <1>1, <1>2

\* A step that only updates rows keeps the books on answers: an answer lands
\* by an update that the row's status admits.
LEMMA AnswerInvShape ==
    ASSUME AnswerInv, Shape, RowInv', tombstones \subseteq tombstones'
    PROVE  AnswerInv'
<1>0. /\ row \in [Msg -> Row] /\ stream \in [Stream -> StreamState]
      /\ pts \in PendingState
      /\ \A s \in Stream : stream[s].pc # "idle" => stream[s].msg \in Msg
      /\ \A s \in Stream : stream[s].pc = "idle" => stream[s].outcome = "none"
      /\ NoMsg \notin Msg
  BY ConstantsAssumption
     DEF AnswerInv, RowInv, TypeOK, StreamState, IdleIsIdle, IdleStream
<1>1. \A m \in Msg : /\ (row'[m].status = "unused") <=> (row[m].status = "unused")
                     /\ (row'[m].status = "deleted") <=> (row[m].status = "deleted")
                     /\ row[m].status = "complete" => row'[m].status = "complete"
  BY ShapeKeepsRows
<1>p. pts'.msg # NoMsg => pts'.msg \in Msg /\ row'[pts'.msg].status # "unused"
  <2>1. SUFFICES ASSUME pts'.msg # NoMsg
                 PROVE  pts'.msg \in Msg /\ row'[pts'.msg].status # "unused"
    OBVIOUS
  <2>2. pts'.msg \in Msg
    BY <2>1 DEF Shape, StateMoves, PendingState
  <2>3. row[pts'.msg].status # "unused"
    BY <2>1 DEF Shape, StateMoves, AnswerInv, References
  <2> QED BY <2>2, <2>3, <1>1
<1>r. \A m \in Msg : row'[m].status = "deleted" => m \in tombstones'
  BY <1>1 DEF AnswerInv, References
<1>2. CASE stream' = stream
  <2>1. References'
    <3>1. \A s \in Stream : stream'[s].pc # "idle" => row'[stream'[s].msg].status # "unused"
      BY <1>0, <1>1, <1>2 DEF AnswerInv, References
    <3> QED BY <3>1, <1>p, <1>r DEF References
  <2>2. NoOrphanedAnswer' /\ OneAnswerLands'
    BY <1>0, <1>1, <1>2 DEF AnswerInv, NoOrphanedAnswer, OneAnswerLands
  <2> QED BY <2>1, <2>2 DEF AnswerInv
<1>3. ASSUME NEW s \in Stream, NEW x \in StreamState, RequestStep(s, x),
             stream' = [stream EXCEPT ![s] = x]
      PROVE  AnswerInv'
  <2>1. /\ stream'[s] = x
        /\ \A t \in Stream \ {s} : stream'[t] = stream[t]
    BY <1>0, <1>3
  <2>2. x.msg \in Msg /\ row[x.msg].status # "unused"
    <3>1. /\ x.msg \in Msg
          /\ x.msg = pts.msg \/ (stream[s].pc # "idle" /\ x.msg = stream[s].msg)
      BY <1>0, <1>3 DEF RequestStep, AnswerInv, RowInv, TypeOK
    <3> QED BY <3>1, <1>0 DEF AnswerInv, References
  <2>3. References'
    <3>1. row'[x.msg].status # "unused"
      BY <2>2, <1>1
    <3>2. \A t \in Stream \ {s} : stream'[t].pc # "idle" => row'[stream'[t].msg].status # "unused"
      BY <1>0, <1>1, <2>1 DEF AnswerInv, References
    <3> QED BY <3>1, <3>2, <2>1, <1>p, <1>r DEF References
  <2>4. x.outcome = "not_found" => x.msg \in tombstones'
    <3>1. CASE x.outcome \in {"none", stream[s].outcome}
      BY <3>1, <1>0, <1>3 DEF RequestStep, AnswerInv, NoOrphanedAnswer
    <3>2. CASE x.outcome = FinalizeOutcome(row[x.msg], "complete")
      <4>1. row[x.msg] \in Row
        BY <1>0, <2>2
      <4>2. x.outcome = "not_found" => row[x.msg].status = "deleted"
        BY <3>2, <2>2, <4>1 DEF FinalizeOutcome, MayFinalize, Row
      <4> QED BY <4>2, <2>2 DEF AnswerInv, References
    <3> QED BY <3>1, <3>2, <1>3 DEF RequestStep
  <2>5. NoOrphanedAnswer'
    BY <2>1, <2>4 DEF AnswerInv, NoOrphanedAnswer
  <2>6. CASE x.outcome = "updated" /\ x.outcome # stream[s].outcome
    <3>1. /\ x.outcome = FinalizeOutcome(row[x.msg], "complete")
          /\ row'[x.msg].status = "complete"
      BY <1>3, <2>6 DEF RequestStep
    <3>2. MayFinalize(row[x.msg], "complete")
      BY <3>1, <2>6 DEF FinalizeOutcome
    <3>3. row[x.msg].status \notin {"complete", "deleted"}
      BY <3>2 DEF MayFinalize
    <3>4. \A t \in Stream : stream[t].outcome = "updated" => stream[t].msg # x.msg
      BY <3>3 DEF AnswerInv, OneAnswerLands
    <3>5. OneAnswerLands'
      BY <3>1, <3>4, <2>1, <1>0, <1>1 DEF AnswerInv, OneAnswerLands
    <3> QED BY <3>5, <2>3, <2>5 DEF AnswerInv
  <2>7. CASE x.outcome # "updated" \/ x.outcome = stream[s].outcome
    <3>1. x.outcome = "updated" => stream[s].outcome = "updated" /\ x.msg = stream[s].msg
      BY <1>0, <1>3, <2>7 DEF RequestStep
    <3>2. OneAnswerLands'
      BY <3>1, <2>1, <1>0, <1>1 DEF AnswerInv, OneAnswerLands
    <3> QED BY <3>2, <2>3, <2>5 DEF AnswerInv
  <2> QED BY <2>6, <2>7
<1> QED BY <1>2, <1>3 DEF Shape, RequestsMove

\* A StartTurn truncates rows and leaves a tombstone for each
\* (truncate_after), so a late finalize knows what replaced it.
LEMMA AnswerInvStart ==
    ASSUME AnswerInv, NEW s \in Stream, NEW m \in Msg,
           NEW index \in 0..Cardinality(Msg), StartTurn(s, m, index), RowInv'
    PROVE  AnswerInv'
<1>0. /\ row \in [Msg -> Row] /\ stream \in [Stream -> StreamState]
      /\ pts \in PendingState
      /\ \A t \in Stream : stream[t].pc # "idle" => stream[t].msg \in Msg
      /\ \A t \in Stream : stream[t].pc = "idle" => stream[t].outcome = "none"
      /\ NoMsg \notin Msg
  BY ConstantsAssumption
     DEF AnswerInv, RowInv, TypeOK, StreamState, IdleIsIdle, IdleStream
<1>1. /\ row[m].status = "unused" /\ row'[m].status = "pending"
      /\ \A k \in Msg \ {m} :
             \/ row'[k] = row[k]
             \/ row'[k].status = "deleted" /\ k \in tombstones'
      /\ tombstones \subseteq tombstones'
  BY StartTurnShape DEF AnswerInv
<1>2. /\ stream[s].pc = "idle"
      /\ stream'[s].pc = "running" /\ stream'[s].msg = m
      /\ stream'[s].outcome = "none"
      /\ \A t \in Stream \ {s} : stream'[t] = stream[t]
      /\ pts' = pts
  BY <1>0 DEF StartTurn, StreamState
<1>3. References'
  <2>1. \A k \in Msg : row'[k].status = "deleted" => k \in tombstones'
    BY <1>1 DEF AnswerInv, References
  <2>2. \A k \in Msg : row[k].status # "unused" => row'[k].status # "unused"
    BY <1>1
  <2> QED BY <2>1, <2>2, <1>0, <1>1, <1>2 DEF AnswerInv, References, PendingState
<1>4. NoOrphanedAnswer'
  BY <1>1, <1>2 DEF AnswerInv, NoOrphanedAnswer
<1>5. OneAnswerLands'
  <2>1. \A t \in Stream : stream'[t].outcome = "updated" =>
           t # s /\ stream'[t] = stream[t] /\ stream[t].msg \in Msg /\ stream[t].msg # m
    BY <1>0, <1>1, <1>2 DEF AnswerInv, OneAnswerLands
  <2> QED BY <2>1, <1>1 DEF AnswerInv, OneAnswerLands
<1> QED BY <1>3, <1>4, <1>5 DEF AnswerInv

\* superseded_messages only grows while requests run.
LEMMA TombstonesStay ==
    ASSUME [Next]_vars
    PROVE  tombstones \subseteq tombstones'
<1>1. ASSUME NEW s \in Stream, StreamStep(s) PROVE tombstones \subseteq tombstones'
  BY <1>1 DEF StreamStep, StartTurn, Entombed, ClaimResume,
     ResumeRefused, BeginResume, FirstChunk, JournalToolCall, Tick,
     TickerCeiling, Superseded, Pause, PauseUnsaved, EndPause, Finish, DropState,
     Abort, Fail, FailRow, Crash
<1> QED BY <1>1 DEF Next, Housekeeping, Reconcile, JanitorRetire, JanitorSweep,
        JanitorCrash, Time, HeartbeatAges, ToolCallAges, ClaimAges, StateExpires, vars

\* Every step of the system keeps the books on answers.
LEMMA AnswerInvStep == AnswerInv /\ [Next]_vars => AnswerInv'
<1> SUFFICES ASSUME AnswerInv, [Next]_vars PROVE AnswerInv'
  OBVIOUS
<1>1. RowInv'
  BY RowInvStep DEF AnswerInv
<1>2. Starts \/ Shape
  BY StepShape DEF AnswerInv
<1> QED BY <1>1, <1>2, AnswerInvStart, AnswerInvShape, TombstonesStay DEF Starts

\* The answers invariant, with the references between requests, rows and the
\* continuation it needs, holds in every reachable state.
THEOREM AnswersInvariant == Spec => []AnswerInv
  BY AnswerInvInit, AnswerInvStep, PTL DEF Spec

\* A stream whose finalize finds no row was replaced by a retry, which left a
\* tombstone: the lost-answer alert is never raised for another reason.
THEOREM NoAnswerOrphaned == Spec => []NoOrphanedAnswer
  BY AnswersInvariant, PTL DEF AnswerInv

\* Of all the requests that work on a turn, originals and resumes, at most one
\* has its answer stored, and nothing but a retry takes it away again.
THEOREM AtMostOneAnswerLands == Spec => []OneAnswerLands
  BY AnswersInvariant, PTL DEF AnswerInv

-----------------------------------------------------------------------------
\* The rows implement the safety part of TurnPromise

\* A conversation with no rows maps to TurnPromise's initial state.
LEMMA PromiseInit == Init => Promise!Init
  BY DEF Init, NoRow, TurnPhase, Promise!Init

\* An update of rows maps to a TurnPromise step or a stutter: finalize, fail,
\* reclaim.
LEMMA PromiseShape ==
    ASSUME RowInv, Shape
    PROVE  [Promise!Next]_([m \in Msg |-> TurnPhase(row[m])])
<1>0. row \in [Msg -> Row]
  BY DEF RowInv, TypeOK
<1> DEFINE turn == [m \in Msg |-> TurnPhase(row[m])]
<1>1. CASE row' = row
  BY <1>1
<1>2. ASSUME NEW m \in Msg, NEW q \in Row, RowStep(row[m], q),
             row' = [row EXCEPT ![m] = q]
      PROVE  [Promise!Next]_turn
  <2>1. turn' = [turn EXCEPT ![m] = TurnPhase(q)]
    BY <1>0, <1>2
  <2>2. row[m] \in Row /\ (row[m].cleared => row[m].status = "failed")
    BY <1>0 DEF RowInv, RevokedByReconciler
  <2>3. \/ TurnPhase(q) = TurnPhase(row[m])
        \/ TurnPhase(row[m]) = "open" /\ TurnPhase(q) \in {"answered", "failed", "revoked"}
        \/ TurnPhase(row[m]) = "failed" /\ TurnPhase(q) = "answered"
    BY <1>2, <2>2 DEF RowStep, TurnPhase, Row
  <2>4. CASE TurnPhase(q) = TurnPhase(row[m])
    BY <2>1, <2>4
  <2>5. CASE TurnPhase(row[m]) = "open" /\ TurnPhase(q) \in {"answered", "failed", "revoked"}
    <3>1. Promise!Settle(m)
      BY <2>1, <2>5 DEF Promise!Settle
    <3> QED BY <3>1 DEF Promise!Next
  <2>6. CASE TurnPhase(row[m]) = "failed" /\ TurnPhase(q) = "answered"
    <3>1. Promise!Reclaim(m)
      BY <2>1, <2>6 DEF Promise!Reclaim
    <3> QED BY <3>1 DEF Promise!Next
  <2> QED BY <2>3, <2>4, <2>5, <2>6
<1> QED BY <1>1, <1>2 DEF Shape, RowsMove

\* save_user_question maps to TurnPromise's drop-and-open step.
LEMMA PromiseStart ==
    ASSUME RowInv, NEW s \in Stream, NEW m \in Msg,
           NEW index \in 0..Cardinality(Msg), StartTurn(s, m, index)
    PROVE  Promise!Next
<1> DEFINE turn == [k \in Msg |-> TurnPhase(row[k])]
           cut == {k \in Msg \ {m} : row'[k] # row[k]}
<1>0. row \in [Msg -> Row] /\ row' \in [Msg -> Row]
  BY StartTurnShape DEF RowInv, TypeOK
<1>1. /\ row[m].status = "unused" /\ row'[m].status = "pending"
      /\ \A k \in cut : /\ row'[k].status = "deleted"
                        /\ row[k].status \notin Gone
  BY StartTurnShape
<1>2. cut \in SUBSET Promise!Kept
  BY <1>0, <1>1 DEF Promise!Kept, TurnPhase, Row
<1>3. turn[m] = "absent" /\ turn'[m] = "open"
  BY <1>1 DEF TurnPhase
<1>4. \A k \in Msg \ {m} : turn'[k] = IF k \in cut THEN "dropped" ELSE turn[k]
  BY <1>1 DEF TurnPhase
<1>5. Promise!Reserve(m, cut)
  BY <1>3, <1>4 DEF Promise!Reserve
<1> QED BY <1>2, <1>5 DEF Promise!Next

\* Every write to conversation_messages is a step TurnPromise allows: an
\* answer is final, a revoked turn stays failed, a dropped turn stays dropped.
THEOREM ImplementsPromise == Spec => Promise!Safety
<1>1. RowInv /\ [Next]_vars => [Promise!Next]_([m \in Msg |-> TurnPhase(row[m])])
  BY StepShape, PromiseShape, PromiseStart DEF Starts
<1> QED BY <1>1, PromiseInit, RowsInvariant, PTL DEF Spec, Promise!Safety

-----------------------------------------------------------------------------
\* The reconciler and the heartbeat

\* Without blips, the row of a request whose heartbeat thread runs is fresh
\* for as long as it is open.
LivingFresh ==
    \A s \in Stream :
        stream[s].ticking /\ row[stream[s].msg].status \in Open
            => row[stream[s].msg].fresh

\* A step that lets no open row go stale, and starts no heartbeat thread but
\* for a row that is fresh.
StaysFresh ==
    /\ \A m \in Msg : row'[m].status \in Open =>
          row[m].status \in Open /\ (row[m].fresh => row'[m].fresh)
    /\ \A s \in Stream : stream'[s].ticking =>
          /\ stream'[s].msg = stream[s].msg
          /\ \/ stream[s].ticking
             \/ row'[stream'[s].msg].status \in Open => row'[stream'[s].msg].fresh

\* No write but the reconciler's records its cause.
NoNewReconciled ==
    \A m \in Msg : row'[m].cause = "reconciler" => row[m].cause = "reconciler"

\* heartbeat_message_state and update_message_status leave an open row
\* freshly stamped and its cause alone.
LEMMA StampFresh ==
    ASSUME NEW r \in Row
    PROVE  /\ \A q \in {Stamped(r), Streaming(r), Stamped(Streaming(r))} :
                /\ q.status \in Open => r.status \in Open /\ (r.fresh => q.fresh)
                /\ q.cause = "reconciler" => r.cause = "reconciler"
           /\ Stamped(r).status \in Open => Stamped(r).fresh
  BY DEF Row, Stamped, Streaming

\* finalize_message never records the reconciler as a cause: that is the
\* reconciler's own write.
LEMMA FinalizeFresh ==
    ASSUME NEW r \in Row, NEW status \in Terminal, NEW cause \in Cause \ {"reconciler"}
    PROVE  LET q == Finalized(r, status, cause) IN
           /\ q.status \in Open => r.status \in Open /\ (r.fresh => q.fresh)
           /\ q.cause = "reconciler" => r.cause = "reconciler"
<1> DEFINE c == IF status = "complete" THEN "none" ELSE cause
<1>1. c \in Cause /\ c # "reconciler"
  BY DEF Cause
<1>2. /\ Settled(r, status, c).status = status
      /\ Settled(r, status, c).cause = c
  BY SMTT(30) DEF Settled, Row
<1> QED BY <1>1, <1>2 DEF Finalized

\* No step of a request's thread makes the row of a running request stale.
LEMMA RequestFresh ==
    ASSUME RowInv, NEW s \in Stream, StreamStep(s),
           ~ \E m \in Msg, index \in 0..Cardinality(Msg) : StartTurn(s, m, index)
    PROVE  StaysFresh /\ NoNewReconciled
<1> DEFINE m == stream[s].msg
<1>0. /\ stream \in [Stream -> StreamState]
      /\ row \in [Msg -> Row]
      /\ stream[s].pc # "idle" => m \in Msg
      /\ stream[s].ticking => stream[s].pc # "idle"
      /\ stream[s].pc = "idle" => ~stream[s].ticking
  BY ConstantsAssumption DEF RowInv, TypeOK, StreamState, IdleIsIdle, IdleStream
<1>e. ~Ended(s).ticking
  BY DEF Ended, IdleStream
<1>f. ASSUME stream[s].pc # "idle",
             NEW q, row' = [row EXCEPT ![m] = q],
             q.status \in Open => row[m].status \in Open /\ (row[m].fresh => q.fresh),
             q.cause = "reconciler" => row[m].cause = "reconciler"
      PROVE  /\ \A k \in Msg : row'[k].status \in Open =>
                   row[k].status \in Open /\ (row[k].fresh => row'[k].fresh)
             /\ NoNewReconciled
  BY <1>0, <1>f DEF NoNewReconciled
<1>1. CASE ClaimResume(s)
  BY <1>0, <1>1 DEF ClaimResume, StaysFresh, NoNewReconciled
<1>2. CASE ResumeRefused(s) \/ Superseded(s) \/ EndPause(s)
           \/ DropState(s) \/ Crash(s)
  BY <1>0, <1>2, <1>e DEF ResumeRefused, Superseded, EndPause, DropState,
     Crash, StaysFresh, NoNewReconciled
<1>3. CASE BeginResume(s)
  <2>1. stream[s].pc # "idle" /\ row' = [row EXCEPT ![m] = Stamped(row[m])]
    BY <1>0, <1>3 DEF BeginResume
  <2>2. /\ \A k \in Msg : row'[k].status \in Open =>
              row[k].status \in Open /\ (row[k].fresh => row'[k].fresh)
        /\ NoNewReconciled
        /\ row'[m].status \in Open => row'[m].fresh
    BY <1>0, <1>f, <2>1, StampFresh
  <2> QED BY <1>0, <1>3, <2>2 DEF BeginResume, StaysFresh
<1>4. CASE FirstChunk(s)
  <2>1. stream[s].pc # "idle" /\ row' = [row EXCEPT ![m] = Stamped(Streaming(row[m]))]
    BY <1>0, <1>4 DEF FirstChunk
  <2>2. /\ \A k \in Msg : row'[k].status \in Open =>
              row[k].status \in Open /\ (row[k].fresh => row'[k].fresh)
        /\ NoNewReconciled
    BY <1>0, <1>f, <2>1, StampFresh
  <2> QED BY <1>0, <1>4, <2>2 DEF FirstChunk, StaysFresh
<1>5. CASE JournalToolCall(s)
  <2> DEFINE q == [row[m] EXCEPT !.toolRecent = row[m].status \in Open]
  <2>1. stream[s].pc # "idle" /\ row' = [row EXCEPT ![m] = q]
    BY <1>0, <1>5 DEF JournalToolCall
  <2>2. q.status = row[m].status /\ q.fresh = row[m].fresh /\ q.cause = row[m].cause
    BY <1>0, <2>1 DEF Row
  <2>3. /\ \A k \in Msg : row'[k].status \in Open =>
              row[k].status \in Open /\ (row[k].fresh => row'[k].fresh)
        /\ NoNewReconciled
    BY <1>f, <2>1, <2>2
  <2> QED BY <1>0, <1>5, <2>3 DEF JournalToolCall, StaysFresh
<1>6. CASE Tick(s)
  <2>1. stream[s].pc # "idle" /\ row' = [row EXCEPT ![m] = Stamped(row[m])]
    BY <1>0, <1>6 DEF Tick
  <2>2. /\ \A k \in Msg : row'[k].status \in Open =>
              row[k].status \in Open /\ (row[k].fresh => row'[k].fresh)
        /\ NoNewReconciled
    BY <1>0, <1>f, <2>1, StampFresh
  <2>3. /\ stream'[s].msg = m
        /\ \A t \in Stream \ {s} : stream'[t] = stream[t]
    BY <1>0, <1>6 DEF Tick
  <2>4. stream[s].ticking
    BY <1>6 DEF Tick
  <2> QED BY <2>2, <2>3, <2>4 DEF StaysFresh
<1>7. CASE TickerCeiling(s) \/ Pause(s) \/ PauseUnsaved(s) \/ Fail(s)
  <2>1. row' = row
    BY <1>7 DEF TickerCeiling, Pause, PauseUnsaved, Fail
  <2>2. /\ stream'[s].msg = m
        /\ stream'[s].ticking => stream[s].ticking
        /\ \A t \in Stream \ {s} : stream'[t] = stream[t]
    BY <1>0, <1>7 DEF TickerCeiling, Pause, PauseUnsaved, Fail, StreamState
  <2> QED BY <2>1, <2>2 DEF StaysFresh, NoNewReconciled
<1>8. ASSUME NEW status \in Terminal, Finish(s, status) PROVE StaysFresh /\ NoNewReconciled
  <2>1. /\ stream[s].pc # "idle"
        /\ row' = [row EXCEPT ![m] = Finalized(row[m], status, "stream")]
    BY <1>0, <1>8 DEF Finish
  <2>2. /\ \A k \in Msg : row'[k].status \in Open =>
              row[k].status \in Open /\ (row[k].fresh => row'[k].fresh)
        /\ NoNewReconciled
    BY <1>0, <1>f, <2>1, FinalizeFresh DEF Cause
  <2>3. stream'[s].ticking => stream[s].ticking /\ stream'[s].msg = m
    <3>1. stream'[s].msg = m /\ stream'[s].ticking \in {stream[s].ticking, FALSE}
      <4>1. CASE stream[s].resumes
        BY <4>1, <1>0, <1>8 DEF Finish
      <4>2. CASE ~stream[s].resumes
        BY <4>2, <1>0, <1>8 DEF Finish, Ended, IdleStream
      <4> QED BY <4>1, <4>2
    <3> QED BY <3>1
  <2>4. \A t \in Stream \ {s} : stream'[t] = stream[t]
    BY <1>0, <1>8 DEF Finish
  <2> QED BY <2>2, <2>3, <2>4 DEF StaysFresh
<1>9. CASE Abort(s)
  <2> DEFINE q == IF /\ stream[s].output
                     /\ FinalizeOutcome(row[m], "complete") \in {"updated", "already_complete"}
                  THEN Finalized(row[m], "complete", "none")
                  ELSE Finalized(row[m], "failed", "disconnect")
  <2>1. stream[s].pc # "idle" /\ row' = [row EXCEPT ![m] = q]
    BY <1>0, <1>9 DEF Abort
  <2> HIDE DEF q
  <2>q. /\ q.status \in Open => row[m].status \in Open /\ (row[m].fresh => q.fresh)
        /\ q.cause = "reconciler" => row[m].cause = "reconciler"
    <3>1. \/ q = Finalized(row[m], "complete", "none")
          \/ q = Finalized(row[m], "failed", "disconnect")
      BY DEF q
    <3>2. row[m] \in Row
      BY <1>0, <2>1
    <3> QED BY <3>1, <3>2, FinalizeFresh DEF Cause
  <2>2. /\ \A k \in Msg : row'[k].status \in Open =>
              row[k].status \in Open /\ (row[k].fresh => row'[k].fresh)
        /\ NoNewReconciled
    BY <1>f, <2>1, <2>q
  <2>3. ~stream'[s].ticking /\ \A t \in Stream \ {s} : stream'[t] = stream[t]
    BY <1>0, <1>9 DEF Abort, Ended, IdleStream
  <2> QED BY <2>2, <2>3 DEF StaysFresh
<1>10. CASE FailRow(s)
  <2> DEFINE c == IF stream[s].released THEN "retryable" ELSE "stream"
             q == Finalized(row[m], "failed", c)
  <2>c. c \in Cause \ {"reconciler"}
    BY DEF Cause
  <2>1. stream[s].pc # "idle" /\ row' = [row EXCEPT ![m] = q]
    BY <1>0, <1>10 DEF FailRow
  <2>q. /\ q.status \in Open => row[m].status \in Open /\ (row[m].fresh => q.fresh)
        /\ q.cause = "reconciler" => row[m].cause = "reconciler"
    <3>2. row[m] \in Row
      BY <1>0, <2>1
    <3> HIDE DEF c
    <3> QED BY <2>c, <3>2, FinalizeFresh
  <2>2. /\ \A k \in Msg : row'[k].status \in Open =>
              row[k].status \in Open /\ (row[k].fresh => row'[k].fresh)
        /\ NoNewReconciled
    BY <1>f, <2>1, <2>q
  <2>3. ~stream'[s].ticking /\ \A t \in Stream \ {s} : stream'[t] = stream[t]
    BY <1>0, <1>10, <1>e DEF FailRow
  <2> QED BY <1>0, <1>10, <1>e, <2>2, <2>3 DEF FailRow, StaysFresh
<1> QED BY <1>1, <1>2, <1>3, <1>4, <1>5, <1>6, <1>7, <1>8, <1>9, <1>10 DEF StreamStep

\* StaysFresh carries LivingFresh over a step.
LEMMA FreshCarries ==
    ASSUME RowInv, LivingFresh, StaysFresh, RequestsMove
    PROVE  LivingFresh'
<1> SUFFICES ASSUME NEW s \in Stream, stream'[s].ticking,
                    row'[stream'[s].msg].status \in Open
             PROVE  row'[stream'[s].msg].fresh
  BY DEF LivingFresh
<1>1. /\ stream'[s].msg = stream[s].msg
      /\ \/ stream[s].ticking
         \/ row'[stream'[s].msg].status \in Open => row'[stream'[s].msg].fresh
  BY DEF StaysFresh
<1>2. CASE stream[s].ticking
  <2>1. stream[s].msg \in Msg
    BY <1>2, ConstantsAssumption
       DEF RowInv, TypeOK, IdleIsIdle, IdleStream, StreamState
  <2> QED BY <1>1, <1>2, <2>1 DEF StaysFresh, LivingFresh
<1> QED BY <1>1, <1>2

\* The reconciler leaves fresh rows alone, and without blips the row of a
\* request whose thread runs does not age.
LEMMA SparesStep ==
    ASSUME ~Blips, RowInv, LivingFresh, [Next]_vars
    PROVE  /\ LivingFresh'
           /\ \A m \in Msg : row'[m].cause = "reconciler" /\ Vouched(m)
                              => row[m].cause = "reconciler"
<1> USE ConstantsAssumption
<1>0. /\ stream \in [Stream -> StreamState]
      /\ row \in [Msg -> Row]
  BY DEF RowInv, TypeOK
<1>v. \A m \in Msg : Vouched(m) /\ row[m].status \in Open => row[m].fresh
  BY DEF LivingFresh, Vouched
<1>k. StaysFresh /\ NoNewReconciled /\ RequestsMove
        => /\ LivingFresh'
           /\ \A m \in Msg : row'[m].cause = "reconciler" /\ Vouched(m)
                              => row[m].cause = "reconciler"
  BY FreshCarries DEF NoNewReconciled
<1>u. UNCHANGED stream => RequestsMove
  BY DEF RequestsMove
<1>1. ASSUME NEW s \in Stream, StreamStep(s),
             ~ \E m \in Msg, index \in 0..Cardinality(Msg) : StartTurn(s, m, index)
      PROVE  /\ LivingFresh'
             /\ \A m \in Msg : row'[m].cause = "reconciler" /\ Vouched(m)
                                => row[m].cause = "reconciler"
  BY <1>k, <1>1, RequestFresh, RequestStepShape DEF Shape
<1>2. ASSUME NEW s \in Stream, NEW m \in Msg, NEW index \in 0..Cardinality(Msg),
             StartTurn(s, m, index)
      PROVE  /\ LivingFresh'
             /\ \A k \in Msg : row'[k].cause = "reconciler" /\ Vouched(k)
                                => row[k].cause = "reconciler"
  <2>1. /\ row'[m].status = "pending" /\ row'[m].fresh /\ row'[m].cause = "none"
        /\ \A k \in Msg \ {m} : \/ row'[k] = row[k]
                                \/ row'[k].status = "deleted" /\ row'[k].cause = "none"
    <3>1. \A keep : /\ NewRow(keep).status = "pending" /\ NewRow(keep).fresh
                    /\ NewRow(keep).cause = "none"
      BY DEF NewRow, NoRow
    <3> QED BY <1>2, <3>1 DEF StartTurn, NoRow
  <2>2. /\ stream'[s].msg = m
        /\ \A t \in Stream \ {s} : stream'[t] = stream[t]
    BY <1>0, <1>2 DEF StartTurn
  <2>3. \A t \in Stream : stream[t].ticking => stream[t].msg \in Msg
    BY DEF RowInv, TypeOK, IdleIsIdle, IdleStream, StreamState
  <2>4. LivingFresh'
    BY <2>1, <2>2, <2>3 DEF LivingFresh
  <2> QED BY <2>1, <2>4
<1>3. ASSUME NEW m \in Msg, Reconcile(m)
      PROVE  /\ LivingFresh'
             /\ \A k \in Msg : row'[k].cause = "reconciler" /\ Vouched(k)
                                => row[k].cause = "reconciler"
  <2>1. /\ row[m].status \in Open /\ ~row[m].fresh
        /\ \A k \in Msg \ {m} : row'[k] = row[k]
        /\ UNCHANGED stream
        /\ row'[m].status \in Open => row'[m].fresh = row[m].fresh
    BY <1>0, <1>3 DEF Reconcile, Stuck, Settled, Row
  <2>2. ~Vouched(m)
    BY <1>v, <2>1
  <2>3. StaysFresh
    BY <2>1 DEF StaysFresh
  <2>4. LivingFresh'
    BY <2>1, <2>3, <1>u, FreshCarries
  <2> QED BY <2>1, <2>2, <2>4
<1>4. ASSUME NEW m \in Msg, JanitorRetire(m) PROVE StaysFresh /\ NoNewReconciled
  BY <1>0, <1>4, FinalizeFresh DEF JanitorRetire, StaysFresh, NoNewReconciled, Cause
<1>5. CASE JanitorSweep \/ JanitorCrash \/ ClaimAges \/ StateExpires \/ UNCHANGED vars
  <2>1. UNCHANGED <<row, stream>>
    BY <1>5 DEF JanitorSweep, JanitorCrash, ClaimAges, StateExpires, vars
  <2>2. StaysFresh /\ NoNewReconciled
    BY <2>1 DEF StaysFresh, NoNewReconciled
  <2> QED BY <1>k, <1>u, <2>1, <2>2
<1>6. ASSUME NEW m \in Msg, HeartbeatAges(m)
      PROVE  /\ LivingFresh'
             /\ \A k \in Msg : row'[k].cause = "reconciler" /\ Vouched(k)
                                => row[k].cause = "reconciler"
  <2>1. /\ ~Vouched(m)
        /\ \A k \in Msg \ {m} : row'[k] = row[k]
        /\ row'[m].cause = row[m].cause
        /\ UNCHANGED stream
    BY <1>0, <1>6 DEF HeartbeatAges, Row
  <2>2. \A t \in Stream : stream[t].ticking => stream[t].msg \in Msg \ {m}
    BY <2>1 DEF Vouched, RowInv, TypeOK, IdleIsIdle, IdleStream, StreamState
  <2>3. LivingFresh'
    BY <2>1, <2>2 DEF LivingFresh
  <2> QED BY <2>1, <2>3
<1>7. ASSUME NEW m \in Msg, ToolCallAges(m) PROVE StaysFresh /\ NoNewReconciled
  BY <1>0, <1>7 DEF ToolCallAges, StaysFresh, NoNewReconciled, Row
<1>8. CASE Housekeeping
  <2>1. ASSUME NEW m \in Msg, JanitorRetire(m) PROVE UNCHANGED stream
    BY <2>1 DEF JanitorRetire
  <2> QED BY <1>8, <1>3, <1>4, <1>5, <1>k, <1>u, <2>1 DEF Housekeeping
<1>9. CASE Time
  <2>1. ASSUME NEW m \in Msg, ToolCallAges(m) PROVE UNCHANGED stream
    BY <2>1 DEF ToolCallAges
  <2> QED BY <1>9, <1>5, <1>6, <1>7, <1>k, <1>u, <2>1 DEF Time
<1> QED BY <1>1, <1>2, <1>5, <1>8, <1>9 DEF Next

\* As long as heartbeat writes get through, the reconciler never fails the row
\* of a request whose heartbeat thread runs, whether or not the continuation
\* it resumes is still there (find_and_lock_stuck_messages, _tick).
THEOREM LivingAreSpared == ~Blips => (Spec => ReconcilerSparesLiving)
<1> SUFFICES ASSUME ~Blips PROVE Spec => ReconcilerSparesLiving
  OBVIOUS
<1>1. Init => LivingFresh
  BY DEF Init, LivingFresh, IdleStream
<1>2. RowInv /\ LivingFresh /\ [Next]_vars => LivingFresh'
  BY SparesStep
<1>3. RowInv /\ LivingFresh /\ [Next]_vars
        => [\A m \in Msg : row'[m].cause = "reconciler" /\ Vouched(m)
                              => row[m].cause = "reconciler"]_vars
  BY SparesStep
<1> QED BY <1>1, <1>2, <1>3, RowsInvariant, PTL DEF Spec, ReconcilerSparesLiving

-----------------------------------------------------------------------------
\* One resume at a time

\* The requests that produce the answer of their turn: an original or a resume
\* that has not ended, failed, or saved a pause.  One that has saved its pause
\* offers nothing any more; in its tail it may settle the row, which concerns
\* AnswerInv and not the claim.
Working == {s \in Stream : stream[s].pc \in {"setup", "running", "finished"}}

\* Of the requests of one turn at most one is at work in this sense, and while
\* the turn's continuation is stored that one holds the claim on it.
SoleWorker(m) ==
    /\ \A s, t \in Working : stream[s].msg = m /\ stream[t].msg = m => s = t
    /\ pts.msg = m => \A s \in Working :
          stream[s].msg = m => stream[s].resumes /\ pts.status # "pending"

\* A claim is released on the way out only, and a live resume's is not overdue.
ReleasedIsLeaving ==
    \A s \in Stream : stream[s].released => stream[s].pc \in {"failing", "done"}

ClaimInTime == Resuming # {} => ~pts.overdue

\* The inductive invariant behind OneResumer.  It speaks of originals too: a
\* second request at work on the turn could pause, and so offer the turn again.
ClaimInv ==
    /\ ClaimInTime
    /\ ReleasedIsLeaving
    /\ \A m \in Msg : ForeignReleased(m) \/ SoleWorker(m)

\* Nobody works on a turn of a new conversation.
LEMMA ClaimInvInit == Init => ClaimInv
<1> SUFFICES ASSUME Init PROVE ClaimInv
  OBVIOUS
<1>1. \A s \in Stream : stream[s] = IdleStream
  BY DEF Init
<1>2. Resuming = {} /\ Working = {} /\ ReleasedIsLeaving
  BY <1>1 DEF Resuming, Working, IdleStream, ReleasedIsLeaving
<1> QED BY <1>2 DEF ClaimInv, ClaimInTime, SoleWorker

\* A request that goes on, ends, or pauses without saving, and releases no
\* claim: it takes no turn and no claim, and the continuation stays or goes.
GoesOn(s, x) ==
    /\ stream' = [stream EXCEPT ![s] = x]
    /\ x.msg = stream[s].msg
    /\ x.resumes = stream[s].resumes
    /\ x.released = stream[s].released
    /\ \/ x.pc = "done"
       \/ x.pc = stream[s].pc
       \/ x.pc = "pausing" /\ stream[s].pc = "running"
       \/ {x.pc, stream[s].pc} \subseteq {"setup", "running", "finished"}
    /\ pts' = pts \/ pts' = NoState

LEMMA ClaimInvGoesOn ==
    ASSUME RowInv, ClaimInv, NEW s \in Stream, NEW x, GoesOn(s, x)
    PROVE  ClaimInv'
<1>0. stream \in [Stream -> StreamState] /\ NoMsg \notin Msg
  BY ConstantsAssumption DEF RowInv, TypeOK
<1>1. /\ stream'[s] = x
      /\ \A t \in Stream \ {s} : stream'[t] = stream[t]
  BY <1>0 DEF GoesOn
<1>2. \A t \in Stream : /\ stream'[t].msg = stream[t].msg
                        /\ stream'[t].resumes = stream[t].resumes
                        /\ stream'[t].released = stream[t].released
  BY <1>1 DEF GoesOn
<1>3. Working' \subseteq Working /\ Resuming' \subseteq Resuming
  BY <1>1, <1>2 DEF Working, Resuming, GoesOn
<1>4. ClaimInTime'
  BY <1>3 DEF ClaimInTime, ClaimInv, GoesOn, NoState
<1>5. ReleasedIsLeaving'
  BY <1>1, <1>2 DEF ReleasedIsLeaving, ClaimInv, GoesOn
<1>6. ASSUME NEW m \in Msg, ~ForeignReleased(m)' PROVE SoleWorker(m)'
  <2>1. SoleWorker(m)
    BY <1>2, <1>6 DEF ForeignReleased, ClaimInv
  <2>2. \A t \in Working' : t \in Stream /\ t \in Working
    BY <1>3 DEF Working
  <2>3. pts'.msg = m => pts' = pts
    BY <1>0 DEF GoesOn, NoState
  <2> QED BY <2>1, <2>2, <2>3, <1>2 DEF SoleWorker
<1> QED BY <1>4, <1>5, <1>6 DEF ClaimInv

\* Most steps of a request only go on with its turn.
LEMMA MostGoOn ==
    ASSUME RowInv, NEW s \in Stream,
           \/ ResumeRefused(s) \/ BeginResume(s) \/ FirstChunk(s)
           \/ JournalToolCall(s) \/ Tick(s) \/ TickerCeiling(s)
           \/ Superseded(s) \/ PauseUnsaved(s) \/ EndPause(s)
           \/ DropState(s) \/ Abort(s) \/ FailRow(s) \/ Crash(s)
           \/ \E status \in Terminal : Finish(s, status)
    PROVE  \E x : GoesOn(s, x)
<1>0. stream \in [Stream -> StreamState] /\ stream[s] \in StreamState
  BY DEF RowInv, TypeOK
<1>1. /\ Ended(s).pc = "done"
      /\ Ended(s).msg = stream[s].msg
      /\ Ended(s).resumes = stream[s].resumes
      /\ Ended(s).released = stream[s].released
  BY DEF Ended, IdleStream
<1>2. CASE \/ ResumeRefused(s) \/ Superseded(s) \/ EndPause(s)
           \/ DropState(s) \/ FailRow(s) \/ Crash(s)
  <2>1. GoesOn(s, Ended(s))
    BY <1>1, <1>2 DEF GoesOn, ResumeRefused, Superseded, EndPause,
       DropState, FailRow, Crash
  <2> QED BY <2>1
<1>3. CASE BeginResume(s)
  <2> DEFINE x == [stream[s] EXCEPT !.pc = "running", !.ticking = TRUE]
  <2>1. x.pc = "running" /\ x.msg = stream[s].msg
        /\ x.resumes = stream[s].resumes /\ x.released = stream[s].released
    BY <1>0 DEF StreamState
  <2>2. stream' = [stream EXCEPT ![s] = x]
    BY <1>0, <1>3 DEF BeginResume
  <2> HIDE DEF x
  <2> QED BY <2>1, <2>2, <1>3 DEF BeginResume, GoesOn
<1>4. CASE FirstChunk(s)
  <2> DEFINE x == [stream[s] EXCEPT !.output = TRUE]
  <2>1. x.pc = stream[s].pc /\ x.msg = stream[s].msg
        /\ x.resumes = stream[s].resumes /\ x.released = stream[s].released
    BY <1>0 DEF StreamState
  <2>2. stream' = [stream EXCEPT ![s] = x]
    BY <1>0, <1>4 DEF FirstChunk
  <2> HIDE DEF x
  <2> QED BY <2>1, <2>2, <1>4 DEF FirstChunk, GoesOn
<1>7. CASE JournalToolCall(s)
  <2> DEFINE x == [stream[s] EXCEPT !.calls = @ + 1]
  <2>1. x.pc = stream[s].pc /\ x.msg = stream[s].msg
        /\ x.resumes = stream[s].resumes /\ x.released = stream[s].released
    BY <1>0 DEF StreamState
  <2>2. stream' = [stream EXCEPT ![s] = x]
    BY <1>0, <1>7 DEF JournalToolCall
  <2> HIDE DEF x
  <2> QED BY <2>1, <2>2, <1>7 DEF JournalToolCall, GoesOn
<1>8. CASE Tick(s)
  <2> DEFINE x == [stream[s] EXCEPT
                     !.ticking = row[stream[s].msg].status \in Open,
                     !.cancelled = @ \/ row[stream[s].msg].status \in Gone]
  <2>1. x.pc = stream[s].pc /\ x.msg = stream[s].msg
        /\ x.resumes = stream[s].resumes /\ x.released = stream[s].released
    BY <1>0 DEF StreamState
  <2>2. stream' = [stream EXCEPT ![s] = x]
    BY <1>0, <1>8 DEF Tick
  <2> HIDE DEF x
  <2> QED BY <2>1, <2>2, <1>8 DEF Tick, GoesOn
<1>9. CASE TickerCeiling(s)
  <2> DEFINE x == [stream[s] EXCEPT !.ticking = FALSE]
  <2>1. x.pc = stream[s].pc /\ x.msg = stream[s].msg
        /\ x.resumes = stream[s].resumes /\ x.released = stream[s].released
    BY <1>0 DEF StreamState
  <2>2. stream' = [stream EXCEPT ![s] = x]
    BY <1>0, <1>9 DEF TickerCeiling
  <2> HIDE DEF x
  <2> QED BY <2>1, <2>2, <1>9 DEF TickerCeiling, GoesOn
<1>10. CASE PauseUnsaved(s)
  <2> DEFINE x == [stream[s] EXCEPT !.pc = "pausing", !.calls = 0]
  <2>1. x.pc = "pausing" /\ x.msg = stream[s].msg
        /\ x.resumes = stream[s].resumes /\ x.released = stream[s].released
    BY <1>0 DEF StreamState
  <2>2. stream' = [stream EXCEPT ![s] = x] /\ stream[s].pc = "running"
    BY <1>0, <1>10 DEF PauseUnsaved
  <2> HIDE DEF x
  <2> QED BY <2>1, <2>2, <1>10 DEF PauseUnsaved, GoesOn
<1>5. CASE Abort(s)
  <2> DEFINE u == IF stream[s].output THEN FinalizeOutcome(row[stream[s].msg], "complete")
                  ELSE "none"
             x == [Ended(s) EXCEPT !.outcome = u]
  <2>1. stream' = [stream EXCEPT ![s] = x]
    BY <1>5 DEF Abort
  <2> HIDE DEF u
  <2>2. x.pc = "done" /\ x.msg = stream[s].msg
        /\ x.resumes = stream[s].resumes /\ x.released = stream[s].released
    BY DEF Ended, IdleStream
  <2> HIDE DEF x
  <2> QED BY <2>1, <2>2, <1>5 DEF Abort, GoesOn
<1>6. ASSUME NEW status \in Terminal, Finish(s, status)
      PROVE  \E x : GoesOn(s, x)
  <2> DEFINE y == IF stream[s].resumes
                  THEN [stream[s] EXCEPT !.pc = "finished"] ELSE Ended(s)
             o == IF status = "complete"
                  THEN FinalizeOutcome(row[stream[s].msg], status) ELSE "none"
             x == [y EXCEPT !.outcome = o]
  <2>1. stream' = [stream EXCEPT ![s] = x] /\ stream[s].pc = "running"
    BY <1>6, <1>0 DEF Finish
  <2> HIDE DEF o
  <2>2. /\ x.pc \in {"finished", "done"} /\ x.msg = stream[s].msg
        /\ x.resumes = stream[s].resumes /\ x.released = stream[s].released
    <3>1. CASE stream[s].resumes
      <4>1. x = [stream[s] EXCEPT !.pc = "finished", !.outcome = o]
        BY <3>1
      <4> QED BY <4>1, <1>0 DEF StreamState
    <3>2. CASE ~stream[s].resumes
      <4>1. x = [Ended(s) EXCEPT !.outcome = o]
        BY <3>2
      <4> QED BY <4>1 DEF Ended, IdleStream
    <3> QED BY <3>1, <3>2
  <2> HIDE DEF x
  <2> QED BY <2>1, <2>2, <1>6 DEF Finish, GoesOn
<1> QED BY <1>2, <1>3, <1>4, <1>5, <1>6, <1>7, <1>8, <1>9, <1>10

\* A new turn has an unused id: nobody works on it, and no continuation is its.
LEMMA ClaimInvStart ==
    ASSUME AnswerInv, ClaimInv, NEW s \in Stream, NEW m \in Msg,
           NEW index \in 0..Cardinality(Msg), StartTurn(s, m, index)
    PROVE  ClaimInv'
<1>0. /\ stream \in [Stream -> StreamState] /\ stream[s] = IdleStream
      /\ stream[s] \in StreamState
      /\ m # NoMsg
  BY ConstantsAssumption DEF StartTurn, AnswerInv, RowInv, TypeOK, IdleIsIdle
<1>1. /\ pts' = pts
      /\ stream'[s].pc = "running" /\ stream'[s].msg = m
      /\ ~stream'[s].resumes /\ ~stream'[s].released
      /\ \A t \in Stream \ {s} : stream'[t] = stream[t]
  BY <1>0 DEF StartTurn, IdleStream
<1>2. /\ pts.msg # m
      /\ \A t \in Stream : stream[t].msg # m
  <2>1. row[m].status = "unused"
    BY DEF StartTurn
  <2>2. \A t \in Stream : stream[t].pc = "idle" => stream[t].msg = NoMsg
    BY DEF AnswerInv, RowInv, TypeOK
  <2> QED BY <2>1, <2>2, <1>0 DEF AnswerInv, References
<1>3. Resuming' = Resuming
  BY <1>0, <1>1 DEF Resuming, IdleStream
<1>4. \A t \in Working' : t = s \/ (t \in Working /\ stream'[t] = stream[t])
  BY <1>1 DEF Working
<1>5. ~stream[s].released
  BY <1>0 DEF IdleStream
<1>6. ReleasedIsLeaving' /\ ClaimInTime'
  BY <1>1, <1>3 DEF ReleasedIsLeaving, ClaimInTime, ClaimInv
<1>7. ASSUME NEW k \in Msg, ~ForeignReleased(k)' PROVE SoleWorker(k)'
  <2>1. SoleWorker(k)
    BY <1>1, <1>5, <1>7 DEF ForeignReleased, ClaimInv
  <2>2. \A t \in Working' : stream'[t].msg = k => (k = m /\ t = s) \/ (k # m /\ t \in Working /\ stream'[t] = stream[t])
    BY <1>1, <1>2, <1>4 DEF Working
  <2> QED BY <2>1, <2>2, <1>1, <1>2 DEF SoleWorker
<1> QED BY <1>6, <1>7 DEF ClaimInv

\* claim_state: nobody worked on the turn, and the claim starts in time.
LEMMA ClaimInvClaim ==
    ASSUME RowInv, ClaimInv, NEW s \in Stream, ClaimResume(s)
    PROVE  ClaimInv'
<1>0. /\ stream \in [Stream -> StreamState] /\ stream[s] = IdleStream
      /\ stream[s] \in StreamState
      /\ pts \in PendingState
  BY DEF ClaimResume, RowInv, TypeOK, IdleIsIdle
<1>1. /\ pts.status = "pending"
      /\ pts'.status = "resuming" /\ pts'.msg = pts.msg /\ ~pts'.overdue
      /\ stream'[s].pc = "setup" /\ stream'[s].msg = pts.msg
      /\ stream'[s].resumes /\ ~stream'[s].released
      /\ \A t \in Stream \ {s} : stream'[t] = stream[t]
  BY <1>0 DEF ClaimResume, IdleStream, PendingState
<1>2. ~stream[s].released
  BY <1>0 DEF IdleStream
<1>3. \A t \in Working' : t = s \/ (t \in Working /\ stream'[t] = stream[t])
  BY <1>1 DEF Working
<1>4. ReleasedIsLeaving' /\ ClaimInTime'
  BY <1>1 DEF ReleasedIsLeaving, ClaimInTime, ClaimInv
<1>5. ASSUME NEW k \in Msg, ~ForeignReleased(k)' PROVE SoleWorker(k)'
  <2>1. SoleWorker(k)
    BY <1>1, <1>2, <1>5 DEF ForeignReleased, ClaimInv
  <2>2. CASE k = pts.msg
    <3>1. \A t \in Working : stream[t].msg # k
      BY <2>1, <2>2, <1>1 DEF SoleWorker
    <3>2. \A t \in Working' : stream'[t].msg = k => t = s
      BY <3>1, <1>3
    <3> QED BY <3>2, <1>1 DEF SoleWorker
  <2>3. CASE k # pts.msg
    <3>1. \A t \in Working' : stream'[t].msg = k => t \in Working /\ stream'[t] = stream[t]
      BY <2>3, <1>1, <1>3
    <3> QED BY <2>1, <2>3, <3>1, <1>1 DEF SoleWorker
  <2> QED BY <2>2, <2>3
<1> QED BY <1>4, <1>5 DEF ClaimInv

\* save_state: the request that pauses was the one at work on its turn, and
\* leaves it to whoever claims it.
LEMMA ClaimInvPause ==
    ASSUME RowInv, ClaimInv, NEW s \in Stream, Pause(s)
    PROVE  ClaimInv'
<1>0. stream \in [Stream -> StreamState] /\ stream[s] \in StreamState
  BY DEF RowInv, TypeOK
<1>1. /\ s \in Working
      /\ pts'.status = "pending" /\ pts'.msg = stream[s].msg /\ ~pts'.overdue
      /\ stream'[s].pc = "pausing" /\ stream'[s].msg = stream[s].msg
      /\ stream'[s].released = stream[s].released
      /\ \A t \in Stream \ {s} : stream'[t] = stream[t]
  <2> DEFINE x == [stream[s] EXCEPT !.pc = "pausing", !.calls = 0]
  <2>1. /\ x.pc = "pausing" /\ x.msg = stream[s].msg
        /\ x.released = stream[s].released
    BY <1>0 DEF StreamState
  <2>2. stream' = [stream EXCEPT ![s] = x] /\ stream[s].pc = "running"
    BY <1>0 DEF Pause
  <2> HIDE DEF x
  <2> QED BY <1>0, <2>1, <2>2 DEF Pause, Working
<1>2. \A t \in Working' : t # s /\ t \in Working /\ stream'[t] = stream[t]
  BY <1>1 DEF Working
<1>3. ReleasedIsLeaving' /\ ClaimInTime'
  <2>1. ~stream[s].released
    BY <1>1 DEF ReleasedIsLeaving, ClaimInv, Working
  <2> QED BY <2>1, <1>1 DEF ReleasedIsLeaving, ClaimInTime, ClaimInv
<1>4. ASSUME NEW k \in Msg, ~ForeignReleased(k)' PROVE SoleWorker(k)'
  <2>1. SoleWorker(k)
    BY <1>1, <1>4 DEF ForeignReleased, ClaimInv
  <2>2. k = stream[s].msg => \A t \in Working' : stream'[t].msg # k
    BY <2>1, <1>1, <1>2 DEF SoleWorker
  <2> QED BY <2>1, <2>2, <1>1, <1>2 DEF SoleWorker
<1> QED BY <1>3, <1>4 DEF ClaimInv

\* release_claim: a resume offers its own turn again, which nobody else works
\* on, or it counts as a foreign release of the turn it offers.
LEMMA ClaimInvFail ==
    ASSUME RowInv, ClaimInv, NEW s \in Stream, Fail(s)
    PROVE  ClaimInv'
<1> DEFINE release == stream[s].resumes /\ pts.status = "resuming"
<1>0. stream \in [Stream -> StreamState] /\ stream[s] \in StreamState
      /\ pts \in PendingState
  BY DEF RowInv, TypeOK
<1>1. /\ s \in Working
      /\ stream'[s].pc = "failing" /\ stream'[s].msg = stream[s].msg
      /\ stream'[s].released = release
      /\ \A t \in Stream \ {s} : stream'[t] = stream[t]
  <2>1. ASSUME NEW b
        PROVE  LET z == [stream[s] EXCEPT !.pc = "failing", !.released = b]
               IN  z.pc = "failing" /\ z.msg = stream[s].msg /\ z.released = b
    BY <1>0 DEF StreamState
  <2>2. stream' = [stream EXCEPT ![s] =
                     [stream[s] EXCEPT !.pc = "failing", !.released = release]]
    BY <1>0 DEF Fail
  <2>3. stream[s].pc = "running"
    BY DEF Fail
  <2> HIDE DEF release
  <2> QED BY <1>0, <2>1, <2>2, <2>3 DEF Working
<1>2. /\ pts'.msg = pts.msg
      /\ ~release => pts' = pts
      /\ release => ~pts'.overdue
  BY <1>0 DEF Fail, PendingState
<1>3. ~stream[s].released
  BY <1>1 DEF ReleasedIsLeaving, ClaimInv, Working
<1>4. \A t \in Working' : t # s /\ t \in Working /\ stream'[t] = stream[t]
  BY <1>1 DEF Working
<1>5. \A t \in Resuming' : t \in Resuming
  BY <1>1 DEF Resuming
<1>6. ReleasedIsLeaving' /\ ClaimInTime'
  BY <1>1, <1>2, <1>5 DEF ReleasedIsLeaving, ClaimInTime, ClaimInv
<1>7. ASSUME NEW k \in Msg, ~ForeignReleased(k)' PROVE SoleWorker(k)'
  <2>1. SoleWorker(k)
    BY <1>1, <1>3, <1>7 DEF ForeignReleased, ClaimInv
  <2>2. CASE release /\ pts.msg = k
    <3>1. stream[s].msg = k
      BY <2>2, <1>1, <1>7 DEF ForeignReleased
    <3>2. \A t \in Working' : stream'[t].msg # k
      BY <2>1, <3>1, <1>1, <1>4 DEF SoleWorker
    <3> QED BY <3>2 DEF SoleWorker
  <2>3. CASE ~(release /\ pts.msg = k)
    <3>1. pts'.msg = k => pts' = pts
      BY <2>3, <1>2
    <3> QED BY <2>1, <3>1, <1>4 DEF SoleWorker
  <2> QED BY <2>2, <2>3
<1> QED BY <1>6, <1>7 DEF ClaimInv

\* The beats and time: a claim that is reverted is overdue, so nobody resumes.
LEMMA ClaimInvBackground ==
    ASSUME ~SlowResume, RowInv, ClaimInv, Housekeeping \/ Time \/ UNCHANGED vars
    PROVE  ClaimInv'
<1>0. stream' = stream /\ pts \in PendingState /\ NoMsg \notin Msg
  BY ConstantsAssumption
     DEF RowInv, TypeOK, Housekeeping, Time, Reconcile, JanitorRetire,
     JanitorSweep, JanitorCrash, HeartbeatAges, ToolCallAges, ClaimAges,
     StateExpires, vars
<1>1. \/ pts' = pts \/ pts' = NoState
      \/ /\ pts.status = "resuming" /\ pts.overdue
         /\ pts'.msg = pts.msg /\ ~pts'.overdue
      \/ /\ Resuming = {}
         /\ pts'.status = pts.status /\ pts'.msg = pts.msg
      \/ /\ pts'.status = pts.status /\ pts'.msg = pts.msg
         /\ pts'.overdue = pts.overdue
  <2>1. CASE ClaimAges
    BY <2>1, <1>0 DEF ClaimAges, PendingState
  <2>2. CASE StateExpires
    BY <2>2, <1>0 DEF StateExpires, PendingState
  <2>3. CASE JanitorSweep
    BY <2>3, <1>0 DEF JanitorSweep, PendingState
  <2> QED BY <2>1, <2>2, <2>3 DEF Housekeeping, Time, Reconcile, JanitorRetire,
          JanitorCrash, HeartbeatAges, ToolCallAges, vars
<1>2. /\ Working' = Working /\ Resuming' = Resuming
      /\ \A m \in Msg : ForeignReleased(m)' <=> ForeignReleased(m)
  BY <1>0 DEF Working, Resuming, ForeignReleased
<1>3. ClaimInTime' /\ ReleasedIsLeaving'
  BY <1>0, <1>1, <1>2 DEF ClaimInTime, ReleasedIsLeaving, ClaimInv, NoState
<1>4. ASSUME NEW m \in Msg, SoleWorker(m) PROVE SoleWorker(m)'
  <2>1. CASE pts'.msg # m
    BY <2>1, <1>0, <1>2, <1>4 DEF SoleWorker
  <2>2. CASE pts'.msg = m /\ pts.status = "resuming" /\ pts.overdue /\ pts.msg = m
    <3>1. Resuming = {}
      BY <2>2 DEF ClaimInv, ClaimInTime
    <3>2. \A s \in Working : stream[s].msg # m
      BY <2>2, <3>1, <1>4 DEF SoleWorker, Working, Resuming
    <3> QED BY <3>2, <1>0, <1>2 DEF SoleWorker
  <2>3. CASE pts'.msg = m /\ pts.msg = m /\ pts'.status = pts.status
    BY <2>3, <1>0, <1>2, <1>4 DEF SoleWorker
  <2> QED BY <2>1, <2>2, <2>3, <1>0, <1>1 DEF NoState
<1> QED BY <1>2, <1>3, <1>4 DEF ClaimInv

\* Every step keeps the work on a turn in one hand, while resumes are in time.
LEMMA ClaimInvStep ==
    ASSUME ~SlowResume, AnswerInv, ClaimInv, [Next]_vars
    PROVE  ClaimInv'
<1>1. ASSUME NEW s \in Stream, StreamStep(s) PROVE ClaimInv'
  <2>1. CASE \E m \in Msg, index \in 0..Cardinality(Msg) : StartTurn(s, m, index)
    BY <2>1, ClaimInvStart
  <2>2. CASE ClaimResume(s) \/ Pause(s) \/ Fail(s)
    BY <2>2, ClaimInvClaim, ClaimInvPause, ClaimInvFail DEF AnswerInv
  <2>3. CASE \E x : GoesOn(s, x)
    BY <2>3, ClaimInvGoesOn DEF AnswerInv
  <2> QED BY <1>1, <2>1, <2>2, <2>3, MostGoOn DEF StreamStep, AnswerInv
<1> QED BY <1>1, ClaimInvBackground DEF Next, AnswerInv

\* While no resume outlasts the grace of its claim: at most one request that
\* has not saved its pause is at work on a turn, and none while the turn can be
\* claimed, unless the resume of another turn has released its claim.
THEOREM ClaimsAlways ==
    ASSUME ~SlowResume
    PROVE  Spec => []ClaimInv
<1>1. AnswerInv /\ ClaimInv /\ [Next]_vars => (AnswerInv /\ ClaimInv)'
  BY AnswerInvStep, ClaimInvStep
<1> QED BY <1>1, AnswerInvInit, ClaimInvInit, PTL DEF Spec

\* The second of two clients that answer the same pause is refused, in any
\* order of pauses, failures, releases, reverts and crashes, and whatever the
\* stream that paused still does in its tail; the one way around it is
\* release_claim, which goes by conversation and not by claim.
THEOREM ResumedByOne ==
    ASSUME ~SlowResume
    PROVE  Spec => []OneResumer
<1>1. RowInv /\ ClaimInv => OneResumer
  <2> SUFFICES ASSUME RowInv, ClaimInv,
                      NEW s \in Resuming, NEW t \in Resuming,
                      stream[s].msg = stream[t].msg, s # t,
                      ~ForeignReleased(stream[s].msg)
               PROVE  FALSE
    BY DEF OneResumer
  <2>1. s \in Working /\ t \in Working
    BY DEF Resuming, Working
  <2>2. stream[s].msg \in Msg
    BY <2>1 DEF RowInv, TypeOK, StreamState, Working
  <2> QED BY <2>1, <2>2 DEF ClaimInv, SoleWorker
<1> QED BY <1>1, ClaimsAlways, RowsInvariant, PTL
=============================================================================
