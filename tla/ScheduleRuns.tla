----------------------------- MODULE ScheduleRuns -----------------------------
(***************************************************************************)
(* One schedule and its runs.  The dispatcher, on a 30 s beat, locks the   *)
(* schedules that are due, records a run for the tick and moves            *)
(* next_run_at in one transaction, and enqueues the run's task after the   *)
(* commit.  A Celery worker loads run and schedule, marks the run running, *)
(* runs the agent, writes the outcome and, for a one-time schedule, adds   *)
(* the answer to its conversation.  The user runs, pauses, resumes, edits, *)
(* cancels or deletes the schedule meanwhile, and the reconciler fails     *)
(* runs that nobody has started (sweep Q7) or ended (Q6).                  *)
(*                                                                         *)
(* `now` counts minutes or so: the cron expression fires at the multiples  *)
(* of Period, and a tick counts as missed Grace after its time.  The 15    *)
(* minutes after which a run is stuck are the flag `late` of its row.      *)
(***************************************************************************)
EXTENDS Integers, FiniteSets

CONSTANTS
    Run,               \* rows of schedule_runs the schedule may get
    Worker,            \* Celery workers
    Kinds,             \* trigger types to start from
    EndTimes,          \* values of end_at a user may give; Never: none
    Period,            \* time between two ticks of the cron expression
    Grace,             \* SCHEDULE_MISFIRE_GRACE
    AutopauseFailures, \* SCHEDULE_AUTOPAUSE_FAILURES
    MaxTime,           \* bound: the clock
    MaxDoubled         \* bound: runs whose message is delivered twice

Never == 0             \* NULL in a time column: the first tick is at Period

ASSUME ConstantsAssumption ==
    /\ Kinds \subseteq {"once", "recurring"}
    /\ EndTimes \subseteq Nat
    /\ {Period, AutopauseFailures} \subseteq Nat \ {0}
    /\ {Grace, MaxTime, MaxDoubled} \subseteq Nat

VARIABLES
    now,       \* the clock
    schedule,  \* the row of schedules
    run,       \* schedule_runs
    queue,     \* runs whose message waits for a worker
    worker,    \* the Celery workers
    edit,      \* a PATCH between its SELECT and its UPDATE
    starts,    \* how often the body of a run started (history)
    answers,   \* turns a run added to the conversation
    doubled    \* runs whose message the broker delivered twice (history)

vars == <<now, schedule, run, queue, worker, edit, starts, answers, doubled>>

-----------------------------------------------------------------------------
\* Types

Time == 0..(MaxTime + Period)

Active == {"pending", "running"}

Terminal == {"success", "failed", "timeout", "skipped"}

Row == [status: {"none", "deleted"} \cup Active \cup Terminal,
        source: {"cron", "manual"}, due: Time \cup {Never}, late: BOOLEAN]

Idle == [pc |-> "idle"]

\* What a worker keeps of the schedule it loaded, and never reads again; for
\* a manual run the status does not matter.
Task == [pc: {"loaded", "running", "append"}, run: Run,
         saw: {"active", "paused", "completed", "cancelled", "any"}]

TypeOK ==
    /\ now \in 0..MaxTime
    /\ schedule \in
         [kind: {"once", "recurring"},
          status: {"active", "paused", "completed", "cancelled", "deleted"},
          next: Time \cup {Never}, end: EndTimes, failures: 0..AutopauseFailures]
    /\ run \in [Run -> Row]
    /\ queue \in SUBSET Run
    /\ worker \in [Worker -> Task \cup {Idle}]
    /\ edit \in [status: {"none", "active", "paused"}, next: Time \cup {Never}]
    /\ starts \in [Run -> Nat]
    /\ answers \in [Run -> Nat]
    /\ doubled \in SUBSET Run

-----------------------------------------------------------------------------
\* Helpers

\* Mutant: the anchor itself counts as one more tick.
NextTickOff(t) == (t \div Period + 2) * Period

\* The first tick after t, whatever the schedule's end.
NextTick(t) == (t \div Period + 1) * Period

\* Never when the end has passed.
ComputeNext(after) ==
    IF schedule.end # Never /\ NextTick(after) > schedule.end
    THEN Never
    ELSE NextTick(after)

Recurring == schedule.kind = "recurring"

HasActiveRun == \E r \in Run : run[r].status \in Active

\* The rows after an insert; a row of the same time is left alone.
Recorded(status, source, due) ==
    IF due # Never /\ \E r \in Run : run[r].due = due
    THEN {run}
    ELSE {[run EXCEPT ![r] = [status |-> status, source |-> source,
                              due |-> due, late |-> FALSE]] :
              r \in {r \in Run : run[r].status = "none"}}

\* The row of r after an UPDATE without a guard; a deleted row stays deleted.
Settled(r, status) ==
    IF run[r].status = "deleted" THEN run
    ELSE [run EXCEPT ![r].status = status, ![r].late = FALSE]

Bumped(s) ==
    [s EXCEPT !.failures = IF @ < AutopauseFailures THEN @ + 1 ELSE @]

Gone == schedule.status = "deleted"

Holding(r) == \E w \in Worker : worker[w] # Idle /\ worker[w].run = r

Init ==
    /\ now = 0
    /\ \E k \in Kinds, e \in EndTimes :
         /\ k = "once" => e = Never
         /\ k = "recurring" /\ e # Never => NextTick(0) <= e
         /\ schedule = [kind |-> k, status |-> "active", next |-> NextTick(0),
                        end |-> e, failures |-> 0]
    /\ run = [r \in Run |-> [status |-> "none", source |-> "cron",
                             due |-> Never, late |-> FALSE]]
    /\ queue = {}
    /\ worker = [w \in Worker |-> Idle]
    /\ edit = [status |-> "none", next |-> Never]
    /\ starts = [r \in Run |-> 0]
    /\ answers = [r \in Run |-> 0]
    /\ doubled = {}

-----------------------------------------------------------------------------
\* The dispatcher: one transaction under the lock of the schedule

Due ==
    /\ schedule.status = "active"
    /\ schedule.next # Never /\ schedule.next <= now
    /\ schedule.end # Never => schedule.next <= schedule.end

Missed == Recurring /\ Grace > 0 /\ now - schedule.next > Grace

\* A recurring schedule without a next tick is completed.
Advanced(next) ==
    [schedule EXCEPT !.next = next,
                     !.status = IF next = Never /\ Recurring THEN "completed" ELSE @]

\* The task is sent after the commit, which nobody can tell from the moment
\* of the commit; or it is not, when the broker refuses it or the process
\* dies in between.
Enqueued ==
    \/ queue' = queue \cup {r \in Run : run'[r] # run[r]}
    \/ UNCHANGED queue

\* The dispatcher was down for longer than the grace.
SkipMissed ==
    /\ Due /\ Missed
    /\ run' \in Recorded("skipped", "cron", schedule.next)
    /\ schedule' = Advanced(ComputeNext(now))
    /\ UNCHANGED <<now, queue, worker, edit, starts, answers, doubled>>

\* Mutant: a recurring schedule is treated like a one-time one.
SkipOverlapStops ==
    /\ Due /\ ~Missed /\ HasActiveRun
    /\ run' \in Recorded("skipped", "cron", schedule.next)
    /\ schedule' = [schedule EXCEPT !.next = Never]
    /\ UNCHANGED <<now, queue, worker, edit, starts, answers, doubled>>

\* The previous run is still active; here the status stays as it is.
SkipOverlap ==
    /\ Due /\ ~Missed /\ HasActiveRun
    /\ run' \in Recorded("skipped", "cron", schedule.next)
    /\ schedule' = [schedule EXCEPT
         !.next = IF Recurring THEN ComputeNext(schedule.next) ELSE Never]
    /\ UNCHANGED <<now, queue, worker, edit, starts, answers, doubled>>

\* A run for the tick, unless the tick has one already.
Fire ==
    /\ Due /\ ~Missed /\ ~HasActiveRun
    /\ run' \in Recorded("pending", "cron", schedule.next)
    /\ Enqueued
    /\ schedule' =
         Advanced(IF Recurring THEN ComputeNext(schedule.next) ELSE Never)
    /\ UNCHANGED <<now, worker, edit, starts, answers, doubled>>

Dispatch == SkipMissed \/ SkipOverlap \/ Fire

-----------------------------------------------------------------------------
\* The user

\* Mutant: Run now does not look for a run in flight.
RunNowAlways ==
    /\ ~Gone /\ schedule.status # "cancelled"
    /\ run' \in Recorded("pending", "manual", Never)
    /\ Enqueued
    /\ UNCHANGED <<now, schedule, worker, edit, starts, answers, doubled>>

\* Run now, under the lock of the schedule; the run's time is this instant.
RunNow ==
    /\ ~Gone /\ schedule.status # "cancelled"
    /\ ~HasActiveRun
    /\ run' \in Recorded("pending", "manual", Never)
    /\ Enqueued
    /\ UNCHANGED <<now, schedule, worker, edit, starts, answers, doubled>>

\* PATCH reads the row without a lock and decides.
EditReads(status, next) ==
    /\ edit.status = "none"
    /\ schedule.status \in {"active", "paused"}
    /\ edit' = [status |-> status, next |-> next]
    /\ UNCHANGED <<now, schedule, run, queue, worker, starts, answers, doubled>>

Pause == EditReads("paused", Never)

\* A recurring schedule goes on at the next tick, also past its end.
ResumeRecurring == Recurring /\ EditReads("active", NextTick(now))

\* A one-time schedule needs a time to come.
ResumeOnce ==
    /\ ~Recurring
    /\ \E t \in (now + 1)..MaxTime : EditReads("active", t)

\* ... and writes what it decided.
EditWrites ==
    /\ edit.status # "none"
    /\ schedule' = IF Gone THEN schedule
                   ELSE [schedule EXCEPT
                           !.status = edit.status, !.next = edit.next,
                           !.failures = IF edit.status = "active" THEN 0 ELSE @]
    /\ edit' = [status |-> "none", next |-> Never]
    /\ UNCHANGED <<now, run, queue, worker, starts, answers, doubled>>

\* PUT may set or clear end_at, which leaves the next tick alone, and the cron
\* expression or time zone of a recurring schedule, which computes it anew,
\* past the end or not; the status is not looked at.
Put ==
    /\ ~Gone
    /\ \E end \in EndTimes,
          next \in {schedule.next} \cup IF Recurring THEN {NextTick(now)} ELSE {} :
         schedule' = [schedule EXCEPT !.end = end, !.next = next]
    /\ UNCHANGED <<now, run, queue, worker, edit, starts, answers, doubled>>

\* The scheduler tool of a chat.
Cancel ==
    /\ schedule.status \in {"active", "paused"}
    /\ schedule' = [schedule EXCEPT !.status = "cancelled", !.next = Never]
    /\ UNCHANGED <<now, run, queue, worker, edit, starts, answers, doubled>>

\* The schedule, or its agent, is deleted; the runs go with it.
Delete ==
    /\ ~Gone
    /\ schedule' = [schedule EXCEPT !.status = "deleted", !.next = Never]
    /\ run' = [r \in Run |-> IF run[r].status = "none" THEN run[r]
                             ELSE [run[r] EXCEPT !.status = "deleted", !.late = FALSE]]
    /\ UNCHANGED <<now, queue, worker, edit, starts, answers, doubled>>

-----------------------------------------------------------------------------
\* The worker

\* Run and schedule are read once.  A run that is not pending is left alone.
Load(w, r) ==
    /\ worker[w] = Idle /\ r \in queue
    /\ queue' = queue \ {r}
    /\ worker' = [worker EXCEPT ![w] =
         IF run[r].status = "pending"
         THEN [pc |-> "loaded", run |-> r,
               saw |-> IF run[r].source = "cron" THEN schedule.status ELSE "any"]
         ELSE Idle]
    /\ UNCHANGED <<now, schedule, run, edit, starts, answers, doubled>>

Refused(task) == task.saw \in {"cancelled", "completed"}

\* The schedule was over when it was read: the run is skipped.
Refuse(w) ==
    /\ worker[w].pc = "loaded" /\ Refused(worker[w])
    /\ run' = Settled(worker[w].run, "skipped")
    /\ worker' = [worker EXCEPT ![w] = Idle]
    /\ UNCHANGED <<now, schedule, queue, edit, starts, answers, doubled>>

\* Mutant: mark_running without its guard on the status.
BeginAlways(w) ==
    LET r == worker[w].run IN
    /\ worker[w].pc = "loaded" /\ ~Refused(worker[w])
    /\ run' = [run EXCEPT ![r].status = "running", ![r].late = FALSE]
    /\ worker' = [worker EXCEPT ![w].pc = "running"]
    /\ starts' = [starts EXCEPT ![r] = @ + 1]
    /\ UNCHANGED <<now, schedule, queue, edit, answers, doubled>>

\* mark_running; who finds the run no longer pending stops.
Begin(w) ==
    LET r == worker[w].run IN
    /\ worker[w].pc = "loaded" /\ ~Refused(worker[w])
    /\ IF run[r].status = "pending"
       THEN /\ run' = [run EXCEPT ![r].status = "running", ![r].late = FALSE]
            /\ worker' = [worker EXCEPT ![w].pc = "running"]
            /\ starts' = [starts EXCEPT ![r] = @ + 1]
       ELSE /\ worker' = [worker EXCEPT ![w] = Idle]
            /\ UNCHANGED <<run, starts>>
    /\ UNCHANGED <<now, schedule, queue, edit, answers, doubled>>

\* The schedule after a run: count or forget failures, pause after too many,
\* complete a one-time schedule.
AfterRun(status, task) ==
    LET counted == IF status = "success" THEN [schedule EXCEPT !.failures = 0]
                   ELSE Bumped(schedule)
        paused == /\ status # "success" /\ Recurring
                  /\ counted.failures >= AutopauseFailures
                  /\ counted.status = "active"
        over == ~Recurring /\ task.saw = "active"
    IN  [counted EXCEPT
           !.status = IF paused THEN "paused" ELSE IF over THEN "completed" ELSE @,
           !.next = IF paused \/ over THEN Never ELSE @]

\* Mutant: the turn is added whatever the outcome.
FinishAppends(w, status) ==
    LET task == worker[w] IN
    /\ task.pc = "running"
    /\ run' = Settled(task.run, status)
    /\ schedule' = IF Gone THEN schedule ELSE AfterRun(status, task)
    /\ worker' = [worker EXCEPT ![w] =
         IF ~Recurring THEN [task EXCEPT !.pc = "append"] ELSE Idle]
    /\ UNCHANGED <<now, queue, edit, starts, answers, doubled>>

\* The outcome is written whatever has become of the row.  A timeout the
\* worker notices itself counts as a failure here.
Finish(w, status) ==
    LET task == worker[w] IN
    /\ task.pc = "running"
    /\ run' = Settled(task.run, status)
    /\ schedule' = IF Gone THEN schedule ELSE AfterRun(status, task)
    /\ worker' = [worker EXCEPT ![w] =
         IF ~Recurring /\ status = "success"
         THEN [task EXCEPT !.pc = "append"] ELSE Idle]
    /\ UNCHANGED <<now, queue, edit, starts, answers, doubled>>

\* The answer joins the conversation in a transaction of its own; a failure
\* there is swallowed.
Append(w) ==
    /\ worker[w].pc = "append"
    /\ \/ answers' = [answers EXCEPT ![worker[w].run] = @ + 1]
       \/ UNCHANGED answers
    /\ worker' = [worker EXCEPT ![w] = Idle]
    /\ UNCHANGED <<now, schedule, run, queue, edit, starts, doubled>>

\* The database fails, or the time limit strikes: the task ends with an
\* error, which acknowledges its message and is not retried.
Raise(w) ==
    /\ worker[w] # Idle
    /\ worker' = [worker EXCEPT ![w] = Idle]
    /\ UNCHANGED <<now, schedule, run, queue, edit, starts, answers, doubled>>

\* The worker dies: acks_late and reject_on_worker_lost put the message back.
Crash(w) ==
    /\ worker[w] # Idle
    /\ queue' = queue \cup {worker[w].run}
    /\ worker' = [worker EXCEPT ![w] = Idle]
    /\ UNCHANGED <<now, schedule, run, edit, starts, answers, doubled>>

\* The broker's visibility timeout passes while a worker has the message.
Redeliver(r) ==
    /\ Holding(r) /\ r \notin queue
    /\ Cardinality(doubled \cup {r}) <= MaxDoubled
    /\ queue' = queue \cup {r}
    /\ doubled' = doubled \cup {r}
    /\ UNCHANGED <<now, schedule, run, worker, edit, starts, answers>>

-----------------------------------------------------------------------------
\* Time and the reconciler

\* A request does not take as long as a unit of time.
Tick ==
    /\ now < MaxTime /\ edit.status = "none"
    /\ now' = now + 1
    /\ UNCHANGED <<schedule, run, queue, worker, edit, starts, answers, doubled>>

\* Mutant: the age that counts as stuck is shorter than a run may take.
RunAgesSoon(r) ==
    /\ run[r].status \in Active /\ ~run[r].late
    /\ run' = [run EXCEPT ![r].late = TRUE]
    /\ UNCHANGED <<now, schedule, queue, worker, edit, starts, answers, doubled>>

\* Fifteen minutes; the hard limit of the task is eleven.
RunAges(r) ==
    /\ run[r].status \in Active /\ ~run[r].late
    /\ run[r].status = "running" =>
         ~\E w \in Worker : worker[w] # Idle /\ worker[w].pc = "running"
                              /\ worker[w].run = r
    /\ run' = [run EXCEPT ![r].late = TRUE]
    /\ UNCHANGED <<now, schedule, queue, worker, edit, starts, answers, doubled>>

\* Mutant: only recurring schedules are looked at.
FlippedNever(s) == s

\* A one-time schedule is completed with its run, whichever run it was.
Flipped(s) ==
    IF s.kind = "once" /\ s.status \notin {"completed", "cancelled"}
    THEN [s EXCEPT !.status = "completed", !.next = Never]
    ELSE s

FailStuckRunning(r) ==
    /\ run[r].status = "running" /\ run[r].late
    /\ run' = Settled(r, "timeout")
    /\ schedule' = Flipped(Bumped(schedule))
    /\ UNCHANGED <<now, queue, worker, edit, starts, answers, doubled>>

\* Mutant: the sweep looks for runs whose message is still there.
FailStuckQueued(r) ==
    /\ run[r].status = "pending" /\ run[r].late /\ r \in queue
    /\ run' = Settled(r, "failed")
    /\ schedule' = Flipped(Bumped(schedule))
    /\ UNCHANGED <<now, queue, worker, edit, starts, answers, doubled>>

FailStuckPending(r) ==
    /\ run[r].status = "pending" /\ run[r].late
    /\ run' = Settled(r, "failed")
    /\ schedule' = Flipped(Bumped(schedule))
    /\ UNCHANGED <<now, queue, worker, edit, starts, answers, doubled>>

-----------------------------------------------------------------------------
Edits == Pause \/ ResumeRecurring \/ ResumeOnce \/ EditWrites \/ Put
           \/ Cancel \/ Delete

Work(w) == Refuse(w) \/ Begin(w) \/ Append(w)
             \/ \E s \in {"success", "failed"} : Finish(w, s)

Next ==
    \/ Tick
    \/ Dispatch
    \/ RunNow
    \/ Edits
    \/ \E r \in Run :
         \/ Redeliver(r) \/ RunAges(r)
         \/ FailStuckRunning(r) \/ FailStuckPending(r)
         \/ \E w \in Worker : Load(w, r)
    \/ \E w \in Worker : Work(w) \/ Raise(w) \/ Crash(w)

\* The beats come back every 30 s, time passes, and the time limits of the
\* task end it.  Nothing else is owed: not the broker, not the user.
Fairness ==
    /\ WF_vars(Dispatch)
    /\ WF_vars(EditWrites)
    /\ \A r \in Run : /\ WF_vars(RunAges(r))
                      /\ WF_vars(FailStuckRunning(r))
                      /\ WF_vars(FailStuckPending(r))
    /\ \A w \in Worker : WF_vars(Work(w) \/ Raise(w) \/ Crash(w))

Spec == Init /\ [][Next]_vars

FairSpec == Spec /\ Fairness

-----------------------------------------------------------------------------
\* Properties

\* The overlap guard and the lock of Run now leave a schedule at most one run
\* that waits or runs.
OneActiveRun ==
    \A r1, r2 \in Run :
        run[r1].status \in Active /\ run[r2].status \in Active => r1 = r2

\* A tick is answered by one start of the agent at most, whatever is edited,
\* redelivered or crashes: blind retries would double its side effects.
EachTickRunsOnce ==
    \A r1, r2 \in Run :
        /\ starts[r1] <= 1
        /\ starts[r1] > 0 /\ starts[r2] > 0 /\ run[r1].due = run[r2].due
             => r1 = r2 \/ run[r1].due = Never

\* The outcome of a run that started is final: the reconciler does not time
\* out a worker that is alive, and a worker does not overwrite the
\* reconciler.  (Unless the broker delivered the message twice.)
OutcomeStands ==
    [][\A r \in Run \ doubled' :
         run[r].status \in Terminal /\ starts[r] > 0
           => run'[r].status \in {run[r].status, "deleted"}]_vars

\* The conversation gets one answer of a run at most, and only of one that
\* is shown to have succeeded.
AnswersAreSuccesses ==
    \A r \in Run : answers[r] > 0 =>
        /\ answers[r] = 1
        /\ r \notin doubled => run[r].status \in {"success", "deleted"}

\* A recurring schedule is on, and no tick will come.
Stalled == Recurring /\ schedule.status = "active" /\ schedule.next = Never

\* Through edits, missed ticks, failures and sweeps a recurring schedule gets
\* into a state where it is active and has nothing to fire in one way only:
\* the last tick before its end finds a run at work.  (That the end may then
\* be cleared, and the schedule be stuck, shows NullIsPastEnd.)
KeepsFiring ==
    [][~Stalled /\ Stalled' =>
         /\ HasActiveRun
         /\ schedule.end # Never /\ NextTick(schedule.next) > schedule.end]_vars

\* A run does not wait or run for ever, though its message may be lost and
\* its worker die: an active run would hold back every later tick.
RunsSettle ==
    \A r \in Run : run[r].status \in Active ~> run[r].status \notin Active

\* A one-time schedule none of whose ticks was skipped does not read "active"
\* for ever with next_run_at cleared.  (OverlapIsFlipped shows the skipped
\* ones.  A PUT may also leave an end before the time it is set for, which then
\* stands and is never due.)
OnceSettles ==
    []<>~(/\ schedule.kind = "once" /\ schedule.status = "active"
          /\ schedule.next = Never
          /\ \A r \in Run : run[r].status # "skipped")

-----------------------------------------------------------------------------
\* What comments say, and is not so

\* _compute_next: a recurring schedule has no next tick "when past end_at".
\* Not so: a PUT that clears the end does not compute one.
NullIsPastEnd == Stalled => schedule.end # Never

\* The dispatcher, of a one-time schedule whose time was skipped: "the
\* in-flight run will terminal-flip the schedule when it finishes".  Not so
\* when that run was a manual one.
OverlapIsFlipped ==
    (/\ schedule.kind = "once" /\ schedule.status = "active"
     /\ schedule.next = Never
     /\ \E r \in Run : run[r].status = "skipped")
    => HasActiveRun
=============================================================================
