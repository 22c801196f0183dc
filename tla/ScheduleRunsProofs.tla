-------------------------- MODULE ScheduleRunsProofs --------------------------
(***************************************************************************)
(* Proofs about ScheduleRuns for any runs, workers, times and limits.      *)
(***************************************************************************)
EXTENDS ScheduleRuns, TLAPS

\* A row that was never inserted has left no trace.
FreshRows ==
    \A r \in Run : run[r].status = "none" =>
        /\ run[r].due = Never
        /\ starts[r] = 0
        /\ r \notin queue /\ r \notin doubled
        /\ \A w \in Worker : worker[w] # Idle => worker[w].run # r

\* The runs of a deleted schedule are deleted with it.
GoneRows == Gone => \A r \in Run : run[r].status \in {"none", "deleted"}

\* A tick has one row.
TicksHaveOneRow ==
    \A r1, r2 \in Run :
        run[r1].due = run[r2].due /\ run[r1].due # Never => r1 = r2

\* mark_running lets one worker through: a run that started is not pending
\* again, and one worker at most is past the guard.
StartedOnce ==
    \A r \in Run : /\ starts[r] \in {0, 1}
                   /\ starts[r] = 1 => run[r].status # "pending"

Past(w) == worker[w].pc \in {"running", "append"}

OnePast ==
    \A w \in Worker : Past(w) =>
        /\ starts[worker[w].run] = 1
        /\ answers[worker[w].run] = 0
        /\ \A v \in Worker : Past(v) /\ worker[v].run = worker[w].run => v = w

\* The message of a run is in one place unless the broker doubled it: in the
\* queue, with one worker, or gone.
OneMessage ==
    \A w \in Worker : worker[w] # Idle /\ worker[w].run \notin doubled =>
        /\ worker[w].run \notin queue
        /\ \A v \in Worker :
             worker[v] # Idle /\ worker[v].run = worker[w].run => v = w

\* So what a worker holds tells how its row may read.
LoadedRows ==
    \A w \in Worker : worker[w].pc = "loaded" /\ worker[w].run \notin doubled =>
        starts[worker[w].run] = 0

RunningRows ==
    \A w \in Worker : worker[w].pc = "running" /\ worker[w].run \notin doubled =>
        /\ run[worker[w].run].status \in {"running", "deleted"}
        /\ ~run[worker[w].run].late

AppendRows ==
    \A w \in Worker : worker[w].pc = "append" /\ worker[w].run \notin doubled =>
        run[worker[w].run].status \in {"success", "deleted"}

\* An answer is of a run that started.
AnswersStarted ==
    \A r \in Run : answers[r] > 0 => starts[r] = 1 /\ answers[r] = 1

\* What a PATCH is about to write.
EditsGoOn == edit.status = "active" => edit.next # Never

\* The inductive invariants.
RowInv == TypeOK /\ GoneRows /\ FreshRows /\ TicksHaveOneRow /\ StartedOnce

MessageInv == OneMessage /\ LoadedRows /\ RunningRows /\ AppendRows

AnswerInv == OnePast /\ AnswersStarted /\ AnswersAreSuccesses

IInv == RowInv /\ MessageInv /\ AnswerInv /\ OneActiveRun /\ EditsGoOn

-----------------------------------------------------------------------------
\* Time

\* The next tick comes after the time it is computed from, one period after
\* it at most.
LEMMA NextTickBounds ==
    ASSUME NEW t \in Nat
    PROVE  /\ NextTick(t) \in Nat
           /\ t < NextTick(t)
           /\ NextTick(t) <= t + Period
  <1> DEFINE q == t \div Period
  <1>1. Period \in Nat /\ Period > 0 BY ConstantsAssumption
  <1>2. q \in Nat /\ t = Period * q + (t % Period) /\ t % Period \in 0..(Period - 1)
    BY <1>1
  <1>3. NextTick(t) = Period * q + Period BY <1>1, <1>2 DEF NextTick
  <1>4. Period * q \in Nat BY <1>1, <1>2
  <1> HIDE DEF q
  <1> QED BY <1>1, <1>2, <1>3, <1>4

LEMMA ComputeNextBounds ==
    ASSUME NEW t \in 0..MaxTime
    PROVE  /\ NextTick(t) \in Time
           /\ NextTick(t) # Never
           /\ ComputeNext(t) \in Time \cup {Never}
  <1>1. t \in Nat /\ t <= MaxTime BY ConstantsAssumption
  <1> QED BY <1>1, NextTickBounds, ConstantsAssumption
          DEF Time, Never, ComputeNext

-----------------------------------------------------------------------------
\* Types

\* The rows after an insert: one fresh row is taken, or none.
LEMMA RecordedRows ==
    ASSUME TypeOK, NEW status \in Active \cup Terminal,
           NEW source \in {"cron", "manual"}, NEW due \in Time \cup {Never},
           NEW new \in Recorded(status, source, due)
    PROVE  /\ new \in [Run -> Row]
           /\ \A q \in Run : new[q] # run[q] =>
                /\ run[q].status = "none"
                /\ new[q].status = status /\ ~new[q].late /\ new[q].due = due
                /\ due # Never => \A p \in Run : run[p].due # due
           /\ \A p, q \in Run : new[p] # run[p] /\ new[q] # run[q] => p = q
  <1> DEFINE row == [status |-> status, source |-> source, due |-> due, late |-> FALSE]
  <1>1. run \in [Run -> Row] /\ row \in Row BY DEF TypeOK, Row
  <1>2. /\ row.status = status /\ row.late = FALSE /\ row.due = due
    OBVIOUS
  <1>3. \/ new = run
        \/ \E r \in Run :
             /\ run[r].status = "none"
             /\ due # Never => \A q \in Run : run[q].due # due
             /\ new = [run EXCEPT ![r] = row]
    BY DEF Recorded
  <1> HIDE DEF row
  <1> QED BY <1>1, <1>2, <1>3

\* An UPDATE of one row.
LEMMA SettledRows ==
    ASSUME TypeOK, NEW r \in Run, NEW status \in Terminal
    PROVE  /\ Settled(r, status) \in [Run -> Row]
           /\ \A q \in Run \ {r} : Settled(r, status)[q] = run[q]
           /\ Settled(r, status)[r].status \in {status, "deleted"}
           /\ Settled(r, status)[r].due = run[r].due
           /\ run[r].status = "deleted" => Settled(r, status)[r] = run[r]
           /\ run[r].status # "deleted" => ~Settled(r, status)[r].late
  <1> DEFINE row == [run[r] EXCEPT !.status = status, !.late = FALSE]
  <1>1. run \in [Run -> Row] /\ run[r] \in Row BY DEF TypeOK
  <1>2. row \in Row /\ row.status = status /\ row.due = run[r].due /\ row.late = FALSE
    BY <1>1 DEF Row
  <1>3. Settled(r, status) = IF run[r].status = "deleted" THEN run
                             ELSE [run EXCEPT ![r] = row]
    BY <1>1 DEF Settled
  <1> HIDE DEF row
  <1> QED BY <1>1, <1>2, <1>3

\* Deletion marks every row there is.
LEMMA DeletedRows ==
    ASSUME TypeOK, Delete
    PROVE  /\ run' \in [Run -> Row]
           /\ \A q \in Run : /\ run'[q].due = run[q].due
                             /\ run[q].status = "none" => run'[q] = run[q]
                             /\ run[q].status # "none" =>
                                  run'[q].status = "deleted" /\ ~run'[q].late
  BY ZenonT(40) DEF TypeOK, Delete, Row

\* Every step leaves rows.
LEMMA RunsTyped ==
    ASSUME TypeOK, [Next]_vars
    PROVE  run' \in [Run -> Row]
  <1>1. run \in [Run -> Row] /\ schedule.next \in Time \cup {Never} BY DEF TypeOK
  <1>2. CASE UNCHANGED run BY <1>1, <1>2
  <1>3. CASE SkipMissed \/ SkipOverlap
    BY <1>1, <1>3, RecordedRows DEF SkipMissed, SkipOverlap, Terminal
  <1>4. CASE Fire BY <1>1, <1>4, RecordedRows DEF Fire, Active
  <1>5. CASE RunNow BY <1>5, RecordedRows DEF RunNow, Active
  <1>6. CASE Delete BY <1>6, DeletedRows
  <1>7. ASSUME NEW r \in Run,
               RunAges(r) \/ FailStuckRunning(r) \/ FailStuckPending(r)
        PROVE  run' \in [Run -> Row]
    <2>1. CASE RunAges(r) BY <1>1, <2>1 DEF RunAges, Row
    <2>2. CASE FailStuckRunning(r) \/ FailStuckPending(r)
      BY <2>2, SettledRows DEF FailStuckRunning, FailStuckPending, Terminal
    <2> QED BY <1>7, <2>1, <2>2
  <1>8. ASSUME NEW w \in Worker, Work(w)
        PROVE  run' \in [Run -> Row]
    <2>1. worker[w].pc # "idle" => worker[w].run \in Run BY DEF TypeOK, Task, Idle
    <2>2. CASE Refuse(w) BY <2>1, <2>2, SettledRows DEF Refuse, Terminal
    <2>3. CASE Begin(w) BY <1>1, <2>1, <2>3 DEF Begin, Row, Active
    <2>4. CASE Append(w) BY <1>2, <2>4 DEF Append
    <2>5. ASSUME NEW s \in {"success", "failed"}, Finish(w, s)
          PROVE  run' \in [Run -> Row]
      BY <2>1, <2>5, SettledRows DEF Finish, Terminal
    <2> QED BY <1>8, <2>2, <2>3, <2>4, <2>5 DEF Work
  <1> QED
    BY <1>2, <1>3, <1>4, <1>5, <1>6, <1>7, <1>8
    DEF Next, vars, Dispatch, Edits, Tick, Pause, ResumeRecurring, ResumeOnce,
        EditReads, EditWrites, Put, Cancel, Redeliver, Load, Raise, Crash

\* A worker that is not idle has a task.
LEMMA Held ==
    ASSUME TypeOK, NEW w \in Worker
    PROVE  /\ worker[w] # Idle <=> worker[w] \in Task
           /\ worker[w] # Idle <=> worker[w].pc \in {"loaded", "running", "append"}
           /\ worker[w] # Idle => worker[w].run \in Run
           /\ worker[w] = Idle => worker[w].pc = "idle"
  BY DEF TypeOK, Task, Idle

\* What a step does to the workers.
LEMMA WorkerSteps ==
    ASSUME TypeOK, GoneRows, [Next]_vars
    PROVE  /\ worker' \in [Worker -> Task \cup {Idle}]
           /\ \/ UNCHANGED worker
              \/ \E w \in Worker :
                   /\ \A v \in Worker \ {w} : worker'[v] = worker[v]
                   /\ \/ worker'[w] = Idle
                      \/ /\ worker[w] = Idle
                         /\ worker'[w].pc = "loaded"
                         /\ \E r \in Run : /\ Load(w, r) /\ worker'[w].run = r
                                           /\ run[r].status = "pending"
                      \/ /\ worker[w].pc = "loaded" /\ worker'[w].pc = "running"
                         /\ worker'[w].run = worker[w].run
                         /\ Begin(w) /\ run[worker[w].run].status = "pending"
                      \/ /\ worker[w].pc = "running" /\ worker'[w].pc = "append"
                         /\ worker'[w].run = worker[w].run
                         /\ Finish(w, "success")
  <1>1. worker \in [Worker -> Task \cup {Idle}] BY DEF TypeOK
  <1>2. ASSUME NEW w \in Worker, NEW t \in Task \cup {Idle},
               worker' = [worker EXCEPT ![w] = t]
        PROVE  /\ worker' \in [Worker -> Task \cup {Idle}]
               /\ worker'[w] = t /\ \A v \in Worker \ {w} : worker'[v] = worker[v]
    BY <1>1, <1>2
  <1>3. CASE UNCHANGED worker BY <1>1, <1>3
  <1>4. CASE \E w \in Worker : worker' = [worker EXCEPT ![w] = Idle] BY <1>2, <1>4
  <1>5. ASSUME NEW w \in Worker, NEW r \in Run, Load(w, r), run[r].status = "pending"
        PROVE  \E t \in Task : /\ worker' = [worker EXCEPT ![w] = t]
                               /\ t.pc = "loaded" /\ t.run = r /\ worker[w] = Idle
    <2> DEFINE t == [pc |-> "loaded", run |-> r,
                     saw |-> IF run[r].source = "cron" THEN schedule.status ELSE "any"]
    <2>1. schedule.status \in {"active", "paused", "completed", "cancelled"}
      BY <1>5 DEF TypeOK, GoneRows, Gone
    <2>2. t \in Task /\ t.pc = "loaded" /\ t.run = r BY <2>1 DEF Task
    <2>3. worker' = [worker EXCEPT ![w] = t] /\ worker[w] = Idle BY <1>5 DEF Load
    <2> HIDE DEF t
    <2> QED BY <2>2, <2>3
  <1>6. ASSUME NEW w \in Worker, NEW pc \in {"running", "append"},
               worker[w] \in Task, worker' = [worker EXCEPT ![w] = [@ EXCEPT !.pc = pc]]
        PROVE  \E t \in Task : /\ worker' = [worker EXCEPT ![w] = t]
                               /\ t.pc = pc /\ t.run = worker[w].run
    <2> DEFINE t == [worker[w] EXCEPT !.pc = pc]
    <2>1. t \in Task /\ t.pc = pc /\ t.run = worker[w].run BY <1>6 DEF Task
    <2>2. worker' = [worker EXCEPT ![w] = t] BY <1>1, <1>6
    <2> HIDE DEF t
    <2> QED BY <2>1, <2>2
  <1>7. ASSUME NEW w \in Worker, NEW r \in Run, Load(w, r)
        PROVE  \/ \E v \in Worker : worker' = [worker EXCEPT ![v] = Idle]
               \/ run[r].status = "pending"
    BY <1>7 DEF Load
  <1>8. ASSUME NEW w \in Worker, Begin(w)
        PROVE  \/ worker' = [worker EXCEPT ![w] = Idle]
               \/ /\ worker' = [worker EXCEPT ![w] = [@ EXCEPT !.pc = "running"]]
                  /\ worker[w] \in Task /\ worker[w].pc = "loaded"
                  /\ run[worker[w].run].status = "pending"
    BY <1>8, Held DEF Begin
  <1>9. ASSUME NEW w \in Worker, NEW s \in {"success", "failed"}, Finish(w, s)
        PROVE  \/ worker' = [worker EXCEPT ![w] = Idle]
               \/ /\ worker' = [worker EXCEPT ![w] = [@ EXCEPT !.pc = "append"]]
                  /\ worker[w] \in Task /\ worker[w].pc = "running"
                  /\ s = "success"
    BY <1>9, Held DEF Finish
  <1>10. ASSUME NEW w \in Worker, Work(w)
         PROVE  \/ worker' = [worker EXCEPT ![w] = Idle]
                \/ Begin(w) \/ Finish(w, "success") \/ Finish(w, "failed")
    BY <1>10 DEF Work, Refuse, Append
  <1>11. \/ UNCHANGED worker
         \/ \E w \in Worker : worker' = [worker EXCEPT ![w] = Idle]
         \/ \E w \in Worker : Begin(w) \/ Finish(w, "success") \/ Finish(w, "failed")
         \/ \E r \in Run : \E w \in Worker : Load(w, r)
    BY <1>10
    DEF Next, vars, Dispatch, SkipMissed, SkipOverlap, Fire, RunNow, Edits, Tick,
        Pause, ResumeRecurring, ResumeOnce, EditReads, EditWrites, Put,
        Cancel, Delete, Redeliver, RunAges, FailStuckRunning, FailStuckPending,
        Raise, Crash
  <1>12. CASE \E w \in Worker : Begin(w) BY <1>2, <1>4, <1>6, <1>8, <1>12
  <1>13. CASE \E w \in Worker : Finish(w, "success") \/ Finish(w, "failed")
    BY <1>2, <1>4, <1>6, <1>9, <1>13
  <1>14. CASE \E r \in Run : \E w \in Worker : Load(w, r)
    BY <1>2, <1>4, <1>5, <1>7, <1>14
  <1> QED BY <1>3, <1>4, <1>11, <1>12, <1>13, <1>14

\* The rows of schedules.
ScheduleRow ==
    [kind: {"once", "recurring"},
     status: {"active", "paused", "completed", "cancelled", "deleted"},
     next: Time \cup {Never}, end: EndTimes, failures: 0..AutopauseFailures]

\* What becomes of a schedule with its runs is a schedule.
LEMMA BumpedTyped ==
    ASSUME NEW s \in ScheduleRow
    PROVE  /\ Bumped(s) \in ScheduleRow
           /\ Flipped(s) \in ScheduleRow
           /\ Flipped(Bumped(s)) \in ScheduleRow
  <1>1. ASSUME NEW f \in Nat, f <= AutopauseFailures
        PROVE  (IF f < AutopauseFailures THEN f + 1 ELSE f) \in 0..AutopauseFailures
    BY <1>1, ConstantsAssumption
  <1>2. s.failures \in Nat /\ s.failures <= AutopauseFailures
    BY ConstantsAssumption DEF ScheduleRow
  <1> DEFINE f == IF s.failures < AutopauseFailures THEN s.failures + 1 ELSE s.failures
  <1>3. f \in 0..AutopauseFailures BY <1>1, <1>2
  <1>4. Bumped(s) = [s EXCEPT !.failures = f] BY DEF Bumped
  <1> HIDE DEF f
  <1>5. Bumped(s) \in ScheduleRow BY <1>3, <1>4 DEF ScheduleRow
  <1>6. \A t \in ScheduleRow : Flipped(t) \in ScheduleRow BY DEF Flipped, ScheduleRow
  <1> QED BY <1>5, <1>6

LEMMA AfterRunTyped ==
    ASSUME TypeOK, NEW status, NEW task
    PROVE  AfterRun(status, task) \in ScheduleRow
  <1> DEFINE counted == IF status = "success" THEN [schedule EXCEPT !.failures = 0]
                        ELSE Bumped(schedule)
             paused == /\ status # "success" /\ Recurring
                       /\ counted.failures >= AutopauseFailures
                       /\ counted.status = "active"
             over == ~Recurring /\ task.saw = "active"
  <1>1. schedule \in ScheduleRow BY DEF TypeOK, ScheduleRow
  <1>2. counted \in ScheduleRow
    BY <1>1, BumpedTyped, ConstantsAssumption DEF ScheduleRow
  <1>3. AfterRun(status, task) =
          [counted EXCEPT
             !.status = IF paused THEN "paused" ELSE IF over THEN "completed" ELSE @,
             !.next = IF paused \/ over THEN Never ELSE @]
    BY DEF AfterRun
  <1> HIDE DEF counted, paused, over
  <1> QED BY <1>2, <1>3 DEF ScheduleRow

\* Every step leaves a schedule.
LEMMA ScheduleTyped ==
    ASSUME TypeOK, [Next]_vars
    PROVE  schedule' \in ScheduleRow
  <1>1. schedule \in ScheduleRow /\ now \in 0..MaxTime BY DEF TypeOK, ScheduleRow
  <1>2. ASSUME NEW next \in Time \cup {Never}, schedule' = Advanced(next)
        PROVE  schedule' \in ScheduleRow
    BY <1>1, <1>2 DEF Advanced, ScheduleRow
  <1>3. Due => schedule.next \in 0..MaxTime
    BY <1>1, ConstantsAssumption DEF Due, TypeOK, Time, Never
  <1>4. CASE UNCHANGED schedule BY <1>1, <1>4
  <1>5. CASE SkipMissed BY <1>1, <1>2, <1>5, ComputeNextBounds DEF SkipMissed
  <1>6. CASE SkipOverlap
    BY <1>1, <1>3, <1>6, ComputeNextBounds DEF SkipOverlap, ScheduleRow
  <1>7. CASE Fire
    <2> DEFINE next == IF Recurring THEN ComputeNext(schedule.next) ELSE Never
    <2>1. next \in Time \cup {Never} BY <1>3, <1>7, ComputeNextBounds DEF Fire
    <2>2. schedule' = Advanced(next) BY <1>7 DEF Fire
    <2> HIDE DEF next
    <2> QED BY <1>2, <2>1, <2>2
  <1>8. CASE EditWrites
    <2>1. CASE Gone BY <1>1, <1>8, <2>1 DEF EditWrites
    <2>2. CASE ~Gone
      <3> DEFINE f == IF edit.status = "active" THEN 0 ELSE schedule.failures
      <3>1. /\ edit.status \in {"active", "paused"}
            /\ edit.next \in Time \cup {Never}
        BY <1>8 DEF EditWrites, TypeOK
      <3>2. f \in 0..AutopauseFailures BY <1>1, ConstantsAssumption DEF ScheduleRow
      <3>3. schedule' = [schedule EXCEPT !.status = edit.status, !.next = edit.next,
                                         !.failures = f]
        BY <1>8, <2>2 DEF EditWrites
      <3> HIDE DEF f
      <3> QED BY <1>1, <3>1, <3>2, <3>3 DEF ScheduleRow
    <2> QED BY <2>1, <2>2
  <1>9. CASE Put
    BY <1>1, <1>9, ComputeNextBounds DEF Put, ScheduleRow
  <1>10. CASE Cancel \/ Delete BY <1>1, <1>10 DEF Cancel, Delete, ScheduleRow
  <1>11. ASSUME NEW r \in Run, FailStuckRunning(r) \/ FailStuckPending(r)
         PROVE  schedule' \in ScheduleRow
    BY <1>1, <1>11, BumpedTyped DEF FailStuckRunning, FailStuckPending
  <1>12. ASSUME NEW w \in Worker, Work(w)
         PROVE  schedule' \in ScheduleRow
    BY <1>1, <1>12, AfterRunTyped DEF Work, Refuse, Begin, Append, Finish
  <1> QED
    BY <1>4, <1>5, <1>6, <1>7, <1>8, <1>9, <1>10, <1>11, <1>12
    DEF Next, vars, Dispatch, RunNow, Edits, Tick, Pause, ResumeRecurring,
        ResumeOnce, EditReads, Redeliver, RunAges, Load, Raise, Crash

\* What the rest of the state is after a step.
LEMMA RestTyped ==
    ASSUME TypeOK, [Next]_vars
    PROVE  /\ now' \in 0..MaxTime
           /\ queue' \in SUBSET Run
           /\ edit' \in [status: {"none", "active", "paused"}, next: Time \cup {Never}]
           /\ starts' \in [Run -> Nat]
           /\ answers' \in [Run -> Nat]
           /\ doubled' \in SUBSET Run
  <1>1. now' \in 0..MaxTime
    <2>1. UNCHANGED now \/ (now < MaxTime /\ now' = now + 1)
      BY DEF Next, vars, Dispatch, SkipMissed, SkipOverlap, Fire, RunNow, Edits, Tick,
          Pause, ResumeRecurring, ResumeOnce, EditReads, EditWrites, Put,
          Cancel, Delete, Redeliver, RunAges, FailStuckRunning, FailStuckPending,
          Load, Work, Refuse, Begin, Append, Finish, Raise, Crash
    <2> QED BY <2>1, ConstantsAssumption DEF TypeOK
  <1>2. \A w \in Worker : worker[w] # Idle => worker[w].run \in Run BY Held
  <1>3. queue' \in SUBSET Run
    <2>1. \/ UNCHANGED queue
          \/ queue' = queue \cup {r \in Run : run'[r] # run[r]}
          \/ \E r \in Run : queue' = queue \ {r} \/ queue' = queue \cup {r}
          \/ \E w \in Worker : worker[w] # Idle /\ queue' = queue \cup {worker[w].run}
      BY DEF Next, vars, Dispatch, SkipMissed, SkipOverlap, Fire, Enqueued, RunNow, Edits, Tick,
          Pause, ResumeRecurring, ResumeOnce, EditReads, EditWrites, Put,
          Cancel, Delete, Redeliver, RunAges, FailStuckRunning, FailStuckPending,
          Load, Work, Refuse, Begin, Append, Finish, Raise, Crash
    <2> QED BY <1>2, <2>1 DEF TypeOK
  <1>4. edit' \in [status: {"none", "active", "paused"}, next: Time \cup {Never}]
    <2>0. edit \in [status: {"none", "active", "paused"}, next: Time \cup {Never}]
      BY DEF TypeOK
    <2>1. NextTick(now) \in Time \cup {Never} BY ComputeNextBounds DEF TypeOK
    <2>2. \A t \in (now + 1)..MaxTime : t \in Time \cup {Never}
      BY ConstantsAssumption DEF TypeOK, Time
    <2>3. CASE UNCHANGED edit BY <2>0, <2>3
    <2>4. CASE Pause BY <2>4 DEF Pause, EditReads
    <2>5. CASE ResumeRecurring BY <2>1, <2>5 DEF ResumeRecurring, EditReads
    <2>6. CASE ResumeOnce BY <2>2, <2>6 DEF ResumeOnce, EditReads
    <2>7. CASE EditWrites BY <2>7 DEF EditWrites
    <2> QED
      BY <2>3, <2>4, <2>5, <2>6, <2>7
      DEF Next, vars, Dispatch, SkipMissed, SkipOverlap, Fire, RunNow, Edits, Tick,
          Put, Cancel, Delete, Redeliver, RunAges, FailStuckRunning,
          FailStuckPending, Load, Work, Refuse, Begin, Append, Finish, Raise, Crash
  <1>5. starts' \in [Run -> Nat] /\ answers' \in [Run -> Nat]
    <2>1. \/ UNCHANGED starts
          \/ \E r : starts' = [starts EXCEPT ![r] = @ + 1]
      BY DEF Next, vars, Dispatch, SkipMissed, SkipOverlap, Fire, RunNow, Edits, Tick,
          Pause, ResumeRecurring, ResumeOnce, EditReads, EditWrites, Put,
          Cancel, Delete, Redeliver, RunAges, FailStuckRunning, FailStuckPending,
          Load, Work, Refuse, Begin, Append, Finish, Raise, Crash
    <2>2. \/ UNCHANGED answers
          \/ \E r : answers' = [answers EXCEPT ![r] = @ + 1]
      BY DEF Next, vars, Dispatch, SkipMissed, SkipOverlap, Fire, RunNow, Edits, Tick,
          Pause, ResumeRecurring, ResumeOnce, EditReads, EditWrites, Put,
          Cancel, Delete, Redeliver, RunAges, FailStuckRunning, FailStuckPending,
          Load, Work, Refuse, Begin, Append, Finish, Raise, Crash
    <2> QED BY <2>1, <2>2 DEF TypeOK
  <1>6. doubled' \in SUBSET Run
    BY DEF TypeOK, Next, vars, Dispatch, SkipMissed, SkipOverlap, Fire, RunNow, Edits,
        Tick, Pause, ResumeRecurring, ResumeOnce, EditReads, EditWrites, Put,
        Cancel, Delete, Redeliver, RunAges, FailStuckRunning, FailStuckPending, Load,
        Work, Refuse, Begin, Append, Finish, Raise, Crash
  <1> QED BY <1>1, <1>3, <1>4, <1>5, <1>6

\* What a step may do to a row: take a fresh one, delete, age, start or settle.
Inserted(q) ==
    /\ run[q].status = "none" /\ run'[q].status \in {"pending", "skipped"}
    /\ ~run'[q].late /\ ~Gone
    /\ run'[q].due # Never => \A p \in Run : run[p].due # run'[q].due
    /\ \A p \in Run : run'[p] # run[p] => p = q
    /\ run'[q].status = "pending" => ~HasActiveRun
    /\ UNCHANGED <<worker, starts, answers, doubled>>

Removed(q) == /\ Delete /\ run[q].status # "none"
              /\ run'[q].status = "deleted" /\ ~run'[q].late
              /\ run'[q].due = run[q].due

Aged(q) == /\ RunAges(q) /\ run'[q].status = run[q].status /\ run'[q].due = run[q].due

Begun(q) == /\ \E w \in Worker : Begin(w) /\ worker[w].run = q /\ worker[w] # Idle
            /\ run[q].status = "pending" /\ run'[q].status = "running"
            /\ ~run'[q].late /\ run'[q].due = run[q].due

Ended(q) == /\ \E w \in Worker :
                 /\ worker[w] # Idle /\ worker[w].run = q
                 /\ \/ Refuse(w) /\ run'[q].status = "skipped"
                    \/ \E s \in {"success", "failed"} : Finish(w, s) /\ run'[q].status = s
            /\ run[q].status # "deleted" /\ ~run'[q].late
            /\ run'[q].due = run[q].due

GivenUp(q) == /\ FailStuckRunning(q) \/ FailStuckPending(q)
              /\ run'[q].status \in {"timeout", "failed"} /\ ~run'[q].late
              /\ run'[q].due = run[q].due

LEMMA RowSteps ==
    ASSUME TypeOK, [Next]_vars, NEW q \in Run, run'[q] # run[q]
    PROVE  \/ Inserted(q) \/ Removed(q) \/ Aged(q)
           \/ Begun(q) \/ Ended(q) \/ GivenUp(q)
  <1>1. run \in [Run -> Row] /\ schedule.next \in Time \cup {Never} BY DEF TypeOK
  <1>2. CASE SkipMissed \/ SkipOverlap
    <2>1. /\ run' \in Recorded("skipped", "cron", schedule.next)
          /\ ~Gone /\ UNCHANGED <<worker, starts, answers, doubled>>
      BY <1>2 DEF SkipMissed, SkipOverlap, Due, Gone
    <2>2. "skipped" \in Active \cup Terminal /\ "cron" \in {"cron", "manual"}
      BY DEF Terminal
    <2> QED BY <1>1, <2>1, <2>2, RecordedRows DEF Inserted
  <1>3. CASE Fire
    <2>1. /\ run' \in Recorded("pending", "cron", schedule.next)
          /\ ~Gone /\ ~HasActiveRun /\ UNCHANGED <<worker, starts, answers, doubled>>
      BY <1>3 DEF Fire, Due, Gone
    <2>2. "pending" \in Active \cup Terminal /\ "cron" \in {"cron", "manual"}
      BY DEF Active
    <2> QED BY <1>1, <2>1, <2>2, RecordedRows DEF Inserted
  <1>4. CASE RunNow
    <2>1. /\ run' \in Recorded("pending", "manual", Never)
          /\ ~Gone /\ ~HasActiveRun /\ UNCHANGED <<worker, starts, answers, doubled>>
      BY <1>4 DEF RunNow
    <2>2. "pending" \in Active \cup Terminal /\ "manual" \in {"cron", "manual"}
      BY DEF Active
    <2> QED BY <1>1, <2>1, <2>2, RecordedRows DEF Inserted
  <1>5. CASE Delete BY <1>5, DeletedRows DEF Removed
  <1>6. ASSUME NEW r \in Run, RunAges(r) PROVE Aged(q)
    <2>1. /\ run[r].status \in Active
          /\ run' = [run EXCEPT ![r] = [@ EXCEPT !.late = TRUE]]
      BY <1>6 DEF RunAges
    <2>2. /\ \A p \in Run \ {r} : run'[p] = run[p]
          /\ run'[r].status = run[r].status /\ run'[r].due = run[r].due
      BY <1>1, <2>1 DEF Row
    <2> QED BY <1>6, <2>2 DEF Aged
  <1>7. ASSUME NEW r \in Run, FailStuckRunning(r) \/ FailStuckPending(r)
        PROVE  GivenUp(q)
    <2>1. /\ run[r].status # "deleted"
          /\ run' = Settled(r, "timeout") \/ run' = Settled(r, "failed")
      BY <1>7 DEF FailStuckRunning, FailStuckPending
    <2>2. {"timeout", "failed"} \subseteq Terminal BY DEF Terminal
    <2>3. r = q BY <2>1, <2>2, SettledRows
    <2>4. run'[q].status \in {"timeout", "failed", "deleted"}
      BY <2>1, <2>2, <2>3, SettledRows
    <2>5. run'[q].status # "deleted"
      BY <1>1, <2>1, <2>3 DEF Settled, Row
    <2> QED BY <1>7, <2>1, <2>2, <2>3, <2>4, <2>5, SettledRows DEF GivenUp
  <1>8. ASSUME NEW w \in Worker, Begin(w) PROVE Begun(q)
    <2>1. worker[w] # Idle /\ worker[w].run \in Run BY <1>8, Held DEF Begin
    <2>2. /\ run[worker[w].run].status = "pending"
          /\ run' = [run EXCEPT ![worker[w].run].status = "running",
                                ![worker[w].run].late = FALSE]
      BY <1>1, <1>8 DEF Begin
    <2>3. /\ \A p \in Run \ {worker[w].run} : run'[p] = run[p]
          /\ run'[worker[w].run].status = "running" /\ ~run'[worker[w].run].late
          /\ run'[worker[w].run].due = run[worker[w].run].due
      BY <1>1, <2>1, <2>2 DEF Row
    <2>4. worker[w].run = q BY <2>3
    <2>5. \E v \in Worker : Begin(v) /\ worker[v].run = q /\ worker[v] # Idle
      BY <1>8, <2>1, <2>4
    <2> QED BY <2>2, <2>3, <2>4, <2>5 DEF Begun
  <1>9. ASSUME NEW w \in Worker, NEW status \in {"skipped", "success", "failed"},
               \/ Refuse(w) /\ status = "skipped"
               \/ status # "skipped" /\ Finish(w, status)
        PROVE  Ended(q)
    <2>1. worker[w] # Idle /\ worker[w].run \in Run BY <1>9, Held DEF Refuse, Finish
    <2>2. run' = Settled(worker[w].run, status) /\ status \in Terminal
      BY <1>9 DEF Refuse, Finish, Terminal
    <2>3. worker[w].run = q BY <2>1, <2>2, SettledRows
    <2>4. run[q].status # "deleted" BY <2>2, <2>3, SettledRows
    <2>5. run'[q].status = status BY <1>1, <2>2, <2>3, <2>4 DEF Settled, Row
    <2>6. ~run'[q].late /\ run'[q].due = run[q].due
      BY <2>1, <2>2, <2>3, <2>4, SettledRows
    <2>7. \/ Refuse(w) /\ run'[q].status = "skipped"
          \/ \E s \in {"success", "failed"} : Finish(w, s) /\ run'[q].status = s
      BY <1>9, <2>5
    <2> QED BY <2>1, <2>3, <2>4, <2>6, <2>7 DEF Ended
  <1> QED
    BY <1>2, <1>3, <1>4, <1>5, <1>6, <1>7, <1>8, <1>9
    DEF Next, vars, Dispatch, Edits, Tick, Pause, ResumeRecurring, ResumeOnce,
        EditReads, EditWrites, Put, Cancel, Redeliver, Load, Work, Append,
        Raise, Crash

\* What a step may do to the counts and to the messages.
LEMMA CountSteps ==
    ASSUME TypeOK, [Next]_vars
    PROVE  /\ \/ UNCHANGED starts
              \/ \E w \in Worker :
                   /\ Begin(w) /\ worker[w] # Idle
                   /\ run[worker[w].run].status = "pending"
                   /\ starts' = [starts EXCEPT ![worker[w].run] = @ + 1]
                   /\ UNCHANGED <<answers, queue, doubled>>
           /\ \/ UNCHANGED answers
              \/ \E w \in Worker :
                   /\ Append(w) /\ worker[w] # Idle
                   /\ answers' = [answers EXCEPT ![worker[w].run] = @ + 1]
                   /\ UNCHANGED <<starts, run, queue, doubled>>
  <1>1. \/ UNCHANGED <<starts, answers>>
        \/ \E w \in Worker : Begin(w) \/ Append(w)
    BY DEF Next, vars, Dispatch, SkipMissed, SkipOverlap, Fire, RunNow, Edits, Tick,
           Pause, ResumeRecurring, ResumeOnce, EditReads, EditWrites, Put,
           Cancel, Delete, Redeliver, RunAges, FailStuckRunning, FailStuckPending,
           Load, Work, Refuse, Finish, Raise, Crash
  <1>2. ASSUME NEW w \in Worker, Begin(w)
        PROVE  /\ UNCHANGED <<answers, queue, doubled>>
               /\ \/ UNCHANGED starts
                  \/ /\ worker[w] # Idle /\ run[worker[w].run].status = "pending"
                     /\ starts' = [starts EXCEPT ![worker[w].run] = @ + 1]
    BY <1>2, Held DEF Begin
  <1>3. ASSUME NEW w \in Worker, Append(w)
        PROVE  /\ UNCHANGED <<starts, run, queue, doubled>>
               /\ worker[w] # Idle
               /\ \/ UNCHANGED answers
                  \/ answers' = [answers EXCEPT ![worker[w].run] = @ + 1]
    BY <1>3, Held DEF Append
  <1> QED BY <1>1, <1>2, <1>3

LEMMA MessageSteps ==
    ASSUME TypeOK, [Next]_vars
    PROVE  /\ doubled \subseteq doubled'
           /\ \A r \in doubled' : r \in doubled \/ Holding(r)
           /\ \A r \in queue' :
                \/ r \in queue
                \/ r \in doubled'
                \/ run[r].status = "none" /\ run'[r].status # "none"
                     /\ UNCHANGED worker
                \/ \E w \in Worker : /\ worker[w] # Idle /\ worker[w].run = r
                                     /\ worker' = [worker EXCEPT ![w] = Idle]
  <1>1. /\ doubled \subseteq doubled'
        /\ \A r \in doubled' : r \in doubled \/ Holding(r)
    <2>1. \/ UNCHANGED doubled
          \/ \E r \in Run : Holding(r) /\ doubled' = doubled \cup {r}
      BY DEF Next, vars, Dispatch, SkipMissed, SkipOverlap, Fire, RunNow, Edits, Tick,
             Pause, ResumeRecurring, ResumeOnce, EditReads, EditWrites, Put,
             Cancel, Delete, Redeliver, RunAges, FailStuckRunning, FailStuckPending,
             Load, Work, Refuse, Begin, Append, Finish, Raise, Crash
    <2> QED BY <2>1
  <1>2. CASE queue' \subseteq queue BY <1>1, <1>2
  <1>3. CASE Fire \/ RunNow
    <2>1. UNCHANGED worker /\ (Enqueued) BY <1>3 DEF Fire, RunNow
    <2>2. \A r \in Run : run'[r] # run[r] =>
            run[r].status = "none" /\ run'[r].status # "none"
      <3>1. \E s \in Time \cup {Never}, o \in {"cron", "manual"} :
              run' \in Recorded("pending", o, s)
        BY <1>3 DEF Fire, RunNow, TypeOK
      <3>2. "pending" \in Active \cup Terminal BY DEF Active
      <3> QED BY <3>1, <3>2, RecordedRows
    <2> QED BY <1>1, <2>1, <2>2 DEF Enqueued
  <1>4. CASE \E r \in Run : Redeliver(r)
    <2>1. \A r \in queue' : r \in queue \/ r \in doubled' BY <1>4 DEF Redeliver
    <2> QED BY <1>1, <2>1
  <1>5. CASE \E w \in Worker : Crash(w)
    <2>1. \A r \in queue' :
            \/ r \in queue
            \/ \E w \in Worker : /\ worker[w] # Idle /\ worker[w].run = r
                                 /\ worker' = [worker EXCEPT ![w] = Idle]
      BY <1>5 DEF Crash
    <2> QED BY <1>1, <2>1
  <1>6. \/ queue' \subseteq queue
        \/ Fire \/ RunNow
        \/ \E r \in Run : Redeliver(r)
        \/ \E w \in Worker : Crash(w)
    BY DEF Next, vars, Dispatch, SkipMissed, SkipOverlap, Edits, Tick,
           Pause, ResumeRecurring, ResumeOnce, EditReads, EditWrites, Put,
           Cancel, Delete, RunAges, FailStuckRunning, FailStuckPending,
           Load, Work, Refuse, Begin, Append, Finish, Raise
  <1> QED BY <1>1, <1>2, <1>3, <1>4, <1>5, <1>6

-----------------------------------------------------------------------------
\* The rows

\* The runs of a deleted schedule stay deleted, and no run joins them.
LEMMA GoneRowsStep ==
    ASSUME TypeOK, GoneRows, FreshRows, [Next]_vars
    PROVE  GoneRows'
  <1>1. CASE Delete BY <1>1, DeletedRows DEF GoneRows
  <1>2. CASE ~Delete /\ Gone
    <2>1. \A q \in Run : run'[q] = run[q] \/ run'[q].status \in {"none", "deleted"}
      <3> SUFFICES ASSUME NEW q \in Run, run'[q] # run[q] PROVE FALSE OBVIOUS
      <3>1. run[q].status \in {"none", "deleted"} BY <1>2 DEF GoneRows
      <3> QED
        BY <1>2, <3>1, RowSteps
        DEF Inserted, Removed, Aged, RunAges, Begun, Ended, GivenUp, Active,
            FailStuckRunning, FailStuckPending, FreshRows
    <2> QED BY <1>2, <2>1 DEF GoneRows
  <1>3. CASE ~Delete /\ ~Gone
    <2>1. schedule \in ScheduleRow /\ schedule.status # "deleted"
      BY <1>3 DEF TypeOK, ScheduleRow, Gone
    <2>2. \A t \in ScheduleRow : t.status # "deleted" =>
            /\ Bumped(t).status # "deleted" /\ Flipped(t).status # "deleted"
      BY DEF Bumped, Flipped, ScheduleRow
    <2>3. schedule'.status # "deleted"
      <3>1. CASE UNCHANGED schedule BY <2>1, <3>1
      <3>2. CASE \/ SkipMissed \/ SkipOverlap \/ Fire \/ EditWrites \/ Put
                \/ Cancel
        BY <2>1, <3>2
        DEF SkipMissed, SkipOverlap, Fire, Advanced, EditWrites, Put, Cancel,
            ScheduleRow, TypeOK
      <3>3. ASSUME NEW r \in Run, FailStuckRunning(r) \/ FailStuckPending(r)
            PROVE  schedule'.status # "deleted"
        BY <2>1, <2>2, <3>3, BumpedTyped DEF FailStuckRunning, FailStuckPending
      <3>4. ASSUME NEW w \in Worker, NEW s \in {"success", "failed"}, Finish(w, s)
            PROVE  schedule'.status # "deleted"
        BY <2>1, <2>2, <3>4, BumpedTyped DEF Finish, AfterRun, ScheduleRow
      <3> QED
        BY <1>3, <3>1, <3>2, <3>3, <3>4
        DEF Next, vars, Dispatch, RunNow, Edits, Tick, Pause, ResumeRecurring,
            ResumeOnce, EditReads, Redeliver, RunAges, Load, Work, Refuse, Begin,
            Append, Raise, Crash
    <2> QED BY <2>3 DEF GoneRows, Gone
  <1> QED BY <1>1, <1>2, <1>3

\* A fresh row has nothing yet; a row does not become fresh again.
LEMMA FreshRowsStep ==
    ASSUME TypeOK, GoneRows, FreshRows, [Next]_vars
    PROVE  FreshRows'
  <1> SUFFICES ASSUME NEW r \in Run, run'[r].status = "none"
               PROVE  /\ run'[r].due = Never
                      /\ starts'[r] = 0
                      /\ r \notin queue' /\ r \notin doubled'
                      /\ \A w \in Worker : worker'[w] # Idle => worker'[w].run # r
    BY DEF FreshRows
  <1>1. run'[r] = run[r]
    BY RowSteps DEF Inserted, Removed, Aged, RunAges, Begun, Ended, GivenUp, Active
  <1>2. /\ run[r].status = "none" /\ run[r].due = Never /\ starts[r] = 0
        /\ r \notin queue /\ r \notin doubled
        /\ \A w \in Worker : worker[w] # Idle => worker[w].run # r
    BY <1>1 DEF FreshRows
  <1>3. starts'[r] = 0 BY <1>2, CountSteps DEF TypeOK
  <1>4. r \notin doubled' BY <1>2, MessageSteps DEF Holding
  <1>5. r \notin queue' BY <1>1, <1>2, <1>4, MessageSteps
  <1>6. \A w \in Worker : worker'[w] # Idle => worker'[w].run # r
    BY <1>2, WorkerSteps, Held
  <1> QED BY <1>1, <1>2, <1>3, <1>4, <1>5, <1>6

\* An insert leaves the row of the same time alone.
LEMMA TicksHaveOneRowStep ==
    ASSUME TypeOK, TicksHaveOneRow, [Next]_vars
    PROVE  TicksHaveOneRow'
  <1>1. \A q \in Run :
          \/ run'[q].due = run[q].due
          \/ Inserted(q)
    BY RowSteps DEF Removed, Aged, Begun, Ended, GivenUp
  <1> SUFFICES ASSUME NEW r1 \in Run, NEW r2 \in Run, r1 # r2,
                      run'[r1].due = run'[r2].due, run'[r1].due # Never
               PROVE  FALSE
    BY DEF TicksHaveOneRow
  <1>2. CASE run'[r1].due = run[r1].due /\ run'[r2].due = run[r2].due
    BY <1>2 DEF TicksHaveOneRow
  <1>3. CASE Inserted(r1) /\ run'[r2] = run[r2] BY <1>3 DEF Inserted
  <1>4. CASE Inserted(r2) /\ run'[r1] = run[r1] BY <1>4 DEF Inserted
  <1>5. \A q \in Run : run'[q].due # run[q].due =>
          Inserted(q) /\ \A p \in Run \ {q} : run'[p] = run[p]
    BY <1>1 DEF Inserted
  <1> QED BY <1>2, <1>3, <1>4, <1>5

\* mark_running takes a pending row only, and a run that started is not
\* pending again.
LEMMA StartedOnceStep ==
    ASSUME TypeOK, FreshRows, StartedOnce, [Next]_vars
    PROVE  StartedOnce'
  <1> SUFFICES ASSUME NEW r \in Run
               PROVE  /\ starts'[r] \in {0, 1}
                      /\ starts'[r] = 1 => run'[r].status # "pending"
    BY DEF StartedOnce
  <1>1. run'[r].status = "pending" => run[r].status \in {"none", "pending"}
    BY RowSteps DEF Inserted, Removed, Aged, Begun, Ended, GivenUp
  <1>2. CASE starts'[r] = starts[r]
    <2>1. run[r].status = "none" => starts[r] = 0 BY DEF FreshRows
    <2> QED BY <1>1, <1>2, <2>1 DEF StartedOnce
  <1>3. CASE starts'[r] # starts[r]
    <2>1. PICK w \in Worker : /\ Begin(w) /\ worker[w] # Idle
                              /\ run[worker[w].run].status = "pending"
                              /\ starts' = [starts EXCEPT ![worker[w].run] = @ + 1]
      BY <1>3, CountSteps
    <2>2. worker[w].run = r /\ starts'[r] = starts[r] + 1
      BY <1>3, <2>1, Held DEF TypeOK
    <2>3. starts[r] = 0 BY <2>1, <2>2 DEF StartedOnce
    <2>4. run'[r].status = "running"
      BY <2>1, <2>2 DEF Begin, TypeOK, Row
    <2> QED BY <2>2, <2>3, <2>4
  <1> QED BY <1>2, <1>3

\* A run is recorded as pending only when no other waits or runs.
LEMMA OneActiveRunStep ==
    ASSUME TypeOK, OneActiveRun, [Next]_vars
    PROVE  OneActiveRun'
  <1>1. \A q \in Run : run'[q].status \in Active =>
          \/ run[q].status \in Active
          \/ Inserted(q) /\ ~HasActiveRun /\ \A p \in Run \ {q} : run'[p] = run[p]
    BY RowSteps DEF Inserted, Removed, Aged, Begun, Ended, GivenUp, Active
  <1> QED BY <1>1 DEF OneActiveRun, HasActiveRun

-----------------------------------------------------------------------------
\* The messages and the workers

\* The message of a run stays in one place, unless the broker doubles it.
LEMMA OneMessageStep ==
    ASSUME TypeOK, GoneRows, FreshRows, OneMessage, [Next]_vars
    PROVE  OneMessage'
  <1> SUFFICES ASSUME NEW w \in Worker, worker'[w] # Idle, worker'[w].run \notin doubled'
               PROVE  /\ worker'[w].run \notin queue'
                      /\ \A v \in Worker :
                           worker'[v] # Idle /\ worker'[v].run = worker'[w].run => v = w
    BY DEF OneMessage
  <1> DEFINE r == worker'[w].run
  <1>1. r \notin doubled BY MessageSteps
  <1>2. CASE \A v \in Worker : worker'[v] # Idle =>
               worker[v] # Idle /\ worker'[v].run = worker[v].run
    <2>1. worker[w] # Idle /\ worker[w].run = r BY <1>2
    <2>2. \A v \in Worker : worker[v] # Idle /\ worker[v].run = r => v = w
      BY <1>1, <2>1 DEF OneMessage
    <2>3. r \notin queue' \/ r \in queue
      <3>1. run[r].status # "none" BY <2>1, Held DEF FreshRows
      <3>2. ASSUME NEW u \in Worker, worker[u] # Idle, worker[u].run = r,
                   worker' = [worker EXCEPT ![u] = Idle]
            PROVE  FALSE
        BY <2>2, <3>2 DEF TypeOK
      <3> QED BY <3>1, <3>2, MessageSteps
    <2> QED BY <1>1, <1>2, <2>1, <2>2, <2>3 DEF OneMessage
  <1>3. ASSUME NEW u \in Worker, NEW q \in Run, Load(u, q), worker[u] = Idle,
               worker'[u].run = q,
               \A v \in Worker \ {u} : worker'[v] = worker[v]
        PROVE  /\ r \notin queue'
               /\ \A v \in Worker : worker'[v] # Idle /\ worker'[v].run = r => v = w
    <2>1. q \in queue /\ queue' = queue \ {q} /\ doubled' = doubled BY <1>3 DEF Load
    <2>2. \A v \in Worker : worker[v] # Idle /\ worker[v].run \notin doubled
            => worker[v].run # q
      BY <2>1 DEF OneMessage
    <2> QED BY <1>1, <1>3, <2>1, <2>2 DEF OneMessage
  <1> QED BY <1>2, <1>3, WorkerSteps, Held

\* What made a worker what it is now.
LEMMA WorkerChange ==
    ASSUME TypeOK, GoneRows, [Next]_vars, NEW w \in Worker,
           worker'[w] # worker[w], worker'[w] # Idle
    PROVE  /\ \A v \in Worker \ {w} : worker'[v] = worker[v]
           /\ \/ /\ worker[w] = Idle /\ worker'[w].pc = "loaded"
                 /\ \E r \in Run : /\ Load(w, r) /\ worker'[w].run = r
                                   /\ run[r].status = "pending"
              \/ /\ worker[w].pc = "loaded" /\ worker'[w].pc = "running"
                 /\ worker'[w].run = worker[w].run
                 /\ Begin(w) /\ run[worker[w].run].status = "pending"
              \/ /\ worker[w].pc = "running" /\ worker'[w].pc = "append"
                 /\ worker'[w].run = worker[w].run
                 /\ Finish(w, "success")
  BY WorkerSteps

\* A worker that gets past mark_running is running.
LEMMA BeginMoves ==
    ASSUME TypeOK, NEW w \in Worker, Begin(w), run[worker[w].run].status = "pending"
    PROVE  worker'[w].pc = "running"
  BY Held DEF Begin, TypeOK, Task

\* A run that a worker has only loaded did not start, unless its message was
\* delivered twice.
LEMMA LoadedRowsStep ==
    ASSUME RowInv, OneMessage, LoadedRows, [Next]_vars
    PROVE  LoadedRows'
  <1> USE DEF RowInv
  <1> SUFFICES ASSUME NEW w \in Worker, worker'[w].pc = "loaded",
                      worker'[w].run \notin doubled'
               PROVE  starts'[worker'[w].run] = 0
    BY DEF LoadedRows
  <1> DEFINE r == worker'[w].run
  <1>1. r \notin doubled BY MessageSteps
  <1>2. CASE worker[w].pc = "loaded" /\ worker[w].run = r
    <2>1. starts[r] = 0 /\ r \in Run /\ worker[w] # Idle
      BY <1>1, <1>2, Held DEF LoadedRows
    <2>2. ASSUME NEW v \in Worker, Begin(v), worker[v] # Idle,
                 run[worker[v].run].status = "pending", worker[v].run = r
          PROVE  FALSE
      <3>1. v = w BY <1>1, <1>2, <2>1, <2>2 DEF OneMessage
      <3> QED BY <2>2, <3>1, BeginMoves
    <2> QED BY <2>1, <2>2, CountSteps DEF TypeOK
  <1>3. CASE ~(worker[w].pc = "loaded" /\ worker[w].run = r)
    <2>1. PICK q \in Run : Load(w, q) /\ r = q /\ run[q].status = "pending"
      BY <1>3, WorkerChange, Held DEF Idle
    <2>2. starts[r] = 0 /\ starts' = starts BY <2>1 DEF Load, StartedOnce
    <2> QED BY <2>2
  <1> QED BY <1>2, <1>3

\* Neither the reconciler nor another worker touches the row of a run while a
\* worker has it in hand.
LEMMA RunningRowsStep ==
    ASSUME RowInv, OneMessage, RunningRows, [Next]_vars
    PROVE  RunningRows'
  <1> USE DEF RowInv
  <1> SUFFICES ASSUME NEW w \in Worker, worker'[w].pc = "running",
                      worker'[w].run \notin doubled'
               PROVE  /\ run'[worker'[w].run].status \in {"running", "deleted"}
                      /\ ~run'[worker'[w].run].late
    BY DEF RunningRows
  <1> DEFINE r == worker'[w].run
  <1>1. r \notin doubled BY MessageSteps
  <1>2. CASE worker[w].pc = "running" /\ worker[w].run = r
    <2>1. /\ run[r].status \in {"running", "deleted"} /\ ~run[r].late
          /\ r \in Run /\ worker[w] # Idle
      BY <1>1, <1>2, Held DEF RunningRows
    <2>2. ~Aged(r) BY <1>2, <2>1 DEF Aged, RunAges, Active
    <2>3. ~GivenUp(r)
      BY <2>1 DEF GivenUp, FailStuckRunning, FailStuckPending
    <2>4. ~Ended(r)
      <3> SUFFICES ASSUME Ended(r) PROVE FALSE OBVIOUS
      <3>1. PICK v \in Worker :
              /\ worker[v] # Idle /\ worker[v].run = r
              /\ Refuse(v) \/ \E s \in {"success", "failed"} : Finish(v, s)
        BY DEF Ended
      <3>2. v = w BY <1>1, <1>2, <2>1, <3>1 DEF OneMessage
      <3>3. worker'[w].pc # "running"
        BY <1>2, <3>1, <3>2 DEF Refuse, Finish, TypeOK, Idle, Task
      <3> QED BY <3>3
    <2> QED BY <2>1, <2>2, <2>3, <2>4, RowSteps DEF Inserted, Removed, Begun
  <1>3. CASE ~(worker[w].pc = "running" /\ worker[w].run = r)
    <2>1. Begin(w) /\ worker[w].run = r /\ run[r].status = "pending" /\ r \in Run
      BY <1>3, WorkerChange, Held DEF Idle
    <2>2. run'[r].status = "running" /\ ~run'[r].late
      BY <2>1 DEF Begin, TypeOK, Row
    <2> QED BY <2>2
  <1> QED BY <1>2, <1>3

\* ... nor while it adds the answer.
LEMMA AppendRowsStep ==
    ASSUME RowInv, OneMessage, AppendRows, [Next]_vars
    PROVE  AppendRows'
  <1> USE DEF RowInv
  <1> SUFFICES ASSUME NEW w \in Worker, worker'[w].pc = "append",
                      worker'[w].run \notin doubled'
               PROVE  run'[worker'[w].run].status \in {"success", "deleted"}
    BY DEF AppendRows
  <1> DEFINE r == worker'[w].run
  <1>1. r \notin doubled BY MessageSteps
  <1>2. CASE worker[w].pc = "append" /\ worker[w].run = r
    <2>1. /\ run[r].status \in {"success", "deleted"}
          /\ r \in Run /\ worker[w] # Idle
      BY <1>1, <1>2, Held DEF AppendRows
    <2>2. ~Ended(r)
      <3> SUFFICES ASSUME Ended(r) PROVE FALSE OBVIOUS
      <3>1. PICK v \in Worker :
              /\ worker[v] # Idle /\ worker[v].run = r
              /\ worker[v].pc \in {"loaded", "running"}
        BY DEF Ended, Refuse, Finish
      <3>2. v = w BY <1>1, <1>2, <2>1, <3>1 DEF OneMessage
      <3> QED BY <1>2, <3>1, <3>2
    <2> QED
      BY <2>1, <2>2, RowSteps
      DEF Inserted, Removed, Aged, Begun, GivenUp, FailStuckRunning, FailStuckPending
  <1>3. CASE ~(worker[w].pc = "append" /\ worker[w].run = r)
    <2>1. Finish(w, "success") /\ worker[w].run = r /\ r \in Run
      BY <1>3, WorkerChange, Held DEF Idle
    <2>2. run' = Settled(r, "success") BY <2>1 DEF Finish
    <2> QED BY <2>1, <2>2, SettledRows DEF Terminal
  <1> QED BY <1>2, <1>3

\* One worker at most gets past mark_running with a run.
LEMMA OnePastStep ==
    ASSUME RowInv, OnePast, AnswersStarted, [Next]_vars
    PROVE  OnePast'
  <1> USE DEF RowInv
  <1> SUFFICES ASSUME NEW w \in Worker, Past(w)'
               PROVE  /\ starts'[worker'[w].run] = 1
                      /\ answers'[worker'[w].run] = 0
                      /\ \A v \in Worker : Past(v)' /\ worker'[v].run = worker'[w].run
                                             => v = w
    BY DEF OnePast
  <1> DEFINE r == worker'[w].run
  <1>1. CASE \A v \in Worker : Past(v)' => Past(v) /\ worker'[v].run = worker[v].run
    <2>1. /\ starts[r] = 1 /\ answers[r] = 0 /\ r \in Run
          /\ \A v \in Worker : Past(v) /\ worker[v].run = r => v = w
      BY <1>1, Held DEF OnePast, Past
    <2>2. starts'[r] = 1
      BY <2>1, CountSteps, Held DEF TypeOK, StartedOnce
    <2>3. answers'[r] = 0
      <3>1. ASSUME NEW v \in Worker, Append(v), worker[v].run = r
            PROVE  FALSE
        <4>1. v = w /\ worker[v].pc = "append" BY <2>1, <3>1 DEF Append, Past
        <4> QED BY <3>1, <4>1 DEF Append, Past, TypeOK, Idle
      <3> QED BY <2>1, <3>1, CountSteps, Held DEF TypeOK
    <2> QED BY <1>1, <2>1, <2>2, <2>3
  <1>2. ASSUME NEW u \in Worker, Begin(u), run[worker[u].run].status = "pending",
               worker[u].pc = "loaded", worker'[u].run = worker[u].run,
               \A v \in Worker \ {u} : worker'[v] = worker[v]
        PROVE  /\ starts'[r] = 1 /\ answers'[r] = 0
               /\ \A v \in Worker : Past(v)' /\ worker'[v].run = r => v = w
    <2> DEFINE q == worker[u].run
    <2>1. q \in Run /\ starts[q] = 0 BY <1>2, Held DEF StartedOnce
    <2>2. /\ starts' = [starts EXCEPT ![q] = @ + 1] /\ UNCHANGED answers
      BY <1>2 DEF Begin
    <2>3. \A v \in Worker \ {u} : Past(v)' => Past(v) /\ worker'[v].run # q
      BY <1>2, <2>1 DEF Past, OnePast
    <2>4. starts'[q] = 1 /\ answers'[q] = 0
      BY <2>1, <2>2 DEF TypeOK, AnswersStarted
    <2>5. CASE w = u BY <1>2, <2>3, <2>4, <2>5
    <2>6. CASE w # u
      <3>1. Past(w) /\ worker[w].run = r /\ r # q BY <1>2, <2>3, <2>6
      <3>2. /\ starts[r] = 1 /\ answers[r] = 0
            /\ \A v \in Worker : Past(v) /\ worker[v].run = r => v = w
        BY <3>1 DEF OnePast
      <3>3. r \in Run BY <3>1, Held DEF Past
      <3> QED BY <1>2, <2>2, <2>3, <3>1, <3>2, <3>3 DEF TypeOK
    <2> QED BY <2>5, <2>6
  <1>3. ASSUME NEW u \in Worker, Past(u)', ~(Past(u) /\ worker'[u].run = worker[u].run)
        PROVE  /\ Begin(u) /\ run[worker[u].run].status = "pending"
               /\ worker[u].pc = "loaded" /\ worker'[u].run = worker[u].run
               /\ \A v \in Worker \ {u} : worker'[v] = worker[v]
    <2>1. worker'[u] # worker[u] /\ worker'[u] # Idle BY <1>3 DEF Past, Idle
    <2> QED BY <1>3, <2>1, WorkerChange DEF Past
  <1> QED BY <1>1, <1>2, <1>3

\* The answer is added once.
LEMMA AnswersStartedStep ==
    ASSUME RowInv, OnePast, AnswersStarted, [Next]_vars
    PROVE  AnswersStarted'
  <1> USE DEF RowInv
  <1> SUFFICES ASSUME NEW r \in Run, answers'[r] > 0
               PROVE  starts'[r] = 1 /\ answers'[r] = 1
    BY DEF AnswersStarted
  <1>1. CASE answers'[r] = answers[r]
    <2>1. starts[r] = 1 /\ answers[r] = 1 BY <1>1 DEF AnswersStarted
    <2> QED BY <1>1, <2>1, CountSteps, Held DEF StartedOnce, TypeOK
  <1>2. CASE answers'[r] # answers[r]
    <2>1. PICK w \in Worker : /\ Append(w) /\ worker[w] # Idle
                              /\ answers' = [answers EXCEPT ![worker[w].run] = @ + 1]
                              /\ UNCHANGED starts
      BY <1>2, CountSteps
    <2>2. worker[w].run = r BY <1>2, <2>1, Held DEF TypeOK
    <2>3. starts[r] = 1 /\ answers[r] = 0 BY <2>1, <2>2 DEF Append, OnePast, Past
    <2> QED BY <2>1, <2>2, <2>3 DEF TypeOK
  <1> QED BY <1>1, <1>2

\* An answer is of a run that reads "success" from then on.
LEMMA AnswersAreSuccessesStep ==
    ASSUME RowInv, MessageInv, AnswerInv, [Next]_vars
    PROVE  AnswersAreSuccesses'
  <1> USE DEF RowInv, MessageInv, AnswerInv
  <1> SUFFICES ASSUME NEW r \in Run, answers'[r] > 0, r \notin doubled'
               PROVE  run'[r].status \in {"success", "deleted"}
    BY AnswersStartedStep DEF AnswersAreSuccesses, AnswersStarted
  <1>1. r \notin doubled BY MessageSteps
  <1>2. CASE answers[r] > 0
    <2>1. run[r].status \in {"success", "deleted"} /\ starts[r] = 1
      BY <1>1, <1>2 DEF AnswersAreSuccesses, AnswersStarted
    <2>2. ~Ended(r)
      <3> SUFFICES ASSUME Ended(r) PROVE FALSE OBVIOUS
      <3>1. PICK v \in Worker : /\ worker[v] # Idle /\ worker[v].run = r
                                /\ worker[v].pc \in {"loaded", "running"}
        BY DEF Ended, Refuse, Finish
      <3>2. worker[v].pc # "loaded" BY <1>1, <2>1, <3>1 DEF LoadedRows
      <3>3. worker[v].pc # "running" BY <1>2, <3>1 DEF OnePast, Past
      <3> QED BY <3>1, <3>2, <3>3
    <2> QED
      BY <2>1, <2>2, RowSteps
      DEF Inserted, Removed, Aged, Begun, GivenUp, FailStuckRunning, FailStuckPending
  <1>3. CASE ~(answers[r] > 0)
    <2>1. PICK w \in Worker : /\ Append(w) /\ worker[w] # Idle
                              /\ answers' = [answers EXCEPT ![worker[w].run] = @ + 1]
                              /\ UNCHANGED run
      BY <1>3, CountSteps
    <2>2. worker[w].run = r BY <1>3, <2>1, Held DEF TypeOK
    <2> QED BY <1>1, <2>1, <2>2 DEF Append, AppendRows
  <1> QED BY <1>2, <1>3

-----------------------------------------------------------------------------
\* The schedule

\* A PATCH that resumes has a next tick.
LEMMA EditsGoOnStep ==
    ASSUME TypeOK, EditsGoOn, [Next]_vars
    PROVE  EditsGoOn'
  <1>1. now \in 0..MaxTime BY DEF TypeOK
  <1>2. CASE UNCHANGED edit BY <1>2 DEF EditsGoOn
  <1>3. CASE Pause \/ EditWrites BY <1>3 DEF Pause, EditReads, EditWrites, EditsGoOn
  <1>4. CASE ResumeRecurring
    BY <1>1, <1>4, ComputeNextBounds DEF ResumeRecurring, EditReads, EditsGoOn
  <1>5. CASE ResumeOnce
    <2>1. \A t \in (now + 1)..MaxTime : t # Never
      BY <1>1, ConstantsAssumption DEF Never
    <2> QED BY <1>5, <2>1 DEF ResumeOnce, EditReads, EditsGoOn
  <1> QED
    BY <1>2, <1>3, <1>4, <1>5
    DEF Next, vars, Dispatch, SkipMissed, SkipOverlap, Fire, RunNow, Edits, Tick,
        Put, Cancel, Delete, Redeliver, RunAges, FailStuckRunning,
        FailStuckPending, Load, Work, Refuse, Begin, Append, Finish, Raise, Crash

\* Only an overlap takes the next tick of a recurring schedule that stays on.
LEMMA StalledStep ==
    ASSUME TypeOK, EditsGoOn, [Next]_vars, ~Stalled, Stalled'
    PROVE  SkipOverlap
  <1> DEFINE Dead(s) == s.kind = "recurring" /\ s.status = "active" /\ s.next = Never
  <1>1. schedule \in ScheduleRow /\ ~Dead(schedule) /\ Dead(schedule')
    BY DEF TypeOK, ScheduleRow, Stalled, Recurring
  <1>2. ~UNCHANGED schedule BY <1>1
  <1>3. ASSUME NEW next, schedule' = Advanced(next)
        PROVE  FALSE
    BY <1>1, <1>3 DEF Advanced, Recurring, ScheduleRow
  <1>4. ~SkipMissed /\ ~Fire BY <1>3 DEF SkipMissed, Fire
  <1>5. ~EditWrites
    <2> SUFFICES ASSUME EditWrites PROVE FALSE OBVIOUS
    <2>1. ~Gone BY <1>1 DEF EditWrites
    <2>2. schedule'.status = edit.status /\ schedule'.next = edit.next
      BY <1>1, <2>1 DEF EditWrites, ScheduleRow
    <2> QED BY <1>1, <2>2 DEF EditsGoOn
  <1>6. ~Put
    <2> SUFFICES ASSUME Put PROVE FALSE OBVIOUS
    <2>1. NextTick(now) # Never BY ComputeNextBounds DEF TypeOK
    <2>2. PICK end \in EndTimes, next \in {schedule.next, NextTick(now)} :
            schedule' = [schedule EXCEPT !.end = end, !.next = next]
      BY DEF Put
    <2> QED BY <1>1, <2>1, <2>2 DEF ScheduleRow
  <1>7. ~Cancel /\ ~Delete BY <1>1 DEF Cancel, Delete, ScheduleRow
  <1>8. ASSUME NEW r \in Run, FailStuckRunning(r) \/ FailStuckPending(r)
        PROVE  FALSE
    <2>1. schedule' = Flipped(Bumped(schedule))
      BY <1>8 DEF FailStuckRunning, FailStuckPending
    <2>2. Bumped(schedule) \in ScheduleRow /\ ~Dead(Bumped(schedule))
      BY <1>1, BumpedTyped DEF Bumped, ScheduleRow
    <2> HIDE DEF Dead
    <2>3. ASSUME NEW s \in ScheduleRow, ~Dead(s) PROVE ~Dead(Flipped(s))
      BY <2>3 DEF Flipped, Dead, ScheduleRow
    <2> QED BY <1>1, <2>1, <2>2, <2>3
  <1>9. ASSUME NEW w \in Worker, NEW s \in {"success", "failed"}, Finish(w, s)
        PROVE  FALSE
    <2>1. ~Gone BY <1>1, <1>9 DEF Finish
    <2> DEFINE counted == IF s = "success" THEN [schedule EXCEPT !.failures = 0]
                          ELSE Bumped(schedule)
               paused == /\ s # "success" /\ Recurring
                         /\ counted.failures >= AutopauseFailures
                         /\ counted.status = "active"
               over == ~Recurring /\ worker[w].saw = "active"
    <2>2. schedule' =
            [counted EXCEPT
               !.status = IF paused THEN "paused" ELSE IF over THEN "completed" ELSE @,
               !.next = IF paused \/ over THEN Never ELSE @]
      BY <1>9, <2>1 DEF Finish, AfterRun
    <2>3. /\ counted \in ScheduleRow /\ ~Dead(counted)
          /\ counted.kind = schedule.kind
      BY <1>1, BumpedTyped, ConstantsAssumption DEF Bumped, ScheduleRow
    <2> HIDE DEF counted
    <2> QED BY <1>1, <2>2, <2>3 DEF ScheduleRow, Recurring
  <1> QED
    BY <1>2, <1>4, <1>5, <1>6, <1>7, <1>8, <1>9
    DEF Next, vars, Dispatch, RunNow, Edits, Tick, Pause, ResumeRecurring,
        ResumeOnce, EditReads, Redeliver, RunAges, Load, Work, Refuse, Begin,
        Append, Raise, Crash

-----------------------------------------------------------------------------
\* The invariant

\* A schedule is created active, due at a tick, and nothing has run.
LEMMA InitIInv == Init => IInv
  <1> SUFFICES ASSUME Init PROVE IInv OBVIOUS
  <1>1. NextTick(0) \in Time /\ NextTick(0) # Never
    <2>1. 0 \in Nat /\ Period \in Nat /\ MaxTime \in Nat BY ConstantsAssumption
    <2>2. /\ NextTick(0) \in Nat
          /\ 0 < NextTick(0)
          /\ NextTick(0) <= 0 + Period
      BY <2>1, NextTickBounds
    <2> QED BY <2>1, <2>2 DEF Time, Never
  <1>2. TypeOK
    <2>1. now \in 0..MaxTime BY ConstantsAssumption DEF Init
    <2>2. PICK k \in Kinds, e \in EndTimes :
            schedule = [kind |-> k, status |-> "active", next |-> NextTick(0),
                        end |-> e, failures |-> 0]
      BY DEF Init
    <2>3. schedule \in ScheduleRow
      BY <1>1, <2>2, ConstantsAssumption DEF ScheduleRow
    <2>4. run \in [Run -> Row] BY DEF Init, Row
    <2>5. worker \in [Worker -> Task \cup {Idle}] BY DEF Init
    <2>6. edit \in [status: {"none", "active", "paused"}, next: Time \cup {Never}]
      BY DEF Init
    <2>7. /\ starts \in [Run -> Nat] /\ answers \in [Run -> Nat]
          /\ queue \in SUBSET Run /\ doubled \in SUBSET Run
      BY DEF Init
    <2> QED BY <2>1, <2>3, <2>4, <2>5, <2>6, <2>7 DEF TypeOK, ScheduleRow
  <1>3. RowInv
    BY <1>2 DEF Init, RowInv, GoneRows, Gone, FreshRows, TicksHaveOneRow, StartedOnce
  <1>4. MessageInv
    BY DEF Init, MessageInv, OneMessage, LoadedRows, RunningRows, AppendRows, Idle
  <1>5. AnswerInv
    BY DEF Init, AnswerInv, OnePast, Past, AnswersStarted, AnswersAreSuccesses, Idle
  <1>6. OneActiveRun BY DEF Init, OneActiveRun, Active
  <1>7. EditsGoOn BY DEF Init, EditsGoOn
  <1> QED BY <1>3, <1>4, <1>5, <1>6, <1>7 DEF IInv

\* Every step keeps it.
LEMMA NextIInv == IInv /\ [Next]_vars => IInv'
  <1> SUFFICES ASSUME IInv, [Next]_vars PROVE IInv' OBVIOUS
  <1>0. RowInv /\ MessageInv /\ AnswerInv /\ OneActiveRun /\ EditsGoOn
    BY DEF IInv
  <1>1. TypeOK /\ GoneRows /\ FreshRows /\ TicksHaveOneRow /\ StartedOnce
    BY <1>0 DEF RowInv
  <1>2. TypeOK'
    <2>1. schedule' \in ScheduleRow BY <1>1, ScheduleTyped
    <2>2. run' \in [Run -> Row] BY <1>1, RunsTyped
    <2>3. worker' \in [Worker -> Task \cup {Idle}] BY <1>1, WorkerSteps
    <2> QED BY <1>1, <2>1, <2>2, <2>3, RestTyped DEF TypeOK, ScheduleRow
  <1>3. RowInv'
    BY <1>1, <1>2, GoneRowsStep, FreshRowsStep, TicksHaveOneRowStep, StartedOnceStep
    DEF RowInv
  <1>4. MessageInv'
    BY <1>0, <1>1, OneMessageStep, LoadedRowsStep, RunningRowsStep, AppendRowsStep
    DEF MessageInv
  <1>5. AnswerInv'
    BY <1>0, OnePastStep, AnswersStartedStep, AnswersAreSuccessesStep DEF AnswerInv
  <1> QED
    BY <1>0, <1>1, <1>3, <1>4, <1>5, OneActiveRunStep, EditsGoOnStep
    DEF IInv

\* The rows, the messages and the answers of a schedule keep their invariants
\* through ticks, edits, cancellations, redeliveries, crashes and sweeps.
THEOREM Inductive == Spec => []IInv
  BY InitIInv, NextIInv, PTL DEF Spec

-----------------------------------------------------------------------------
\* Theorems

\* Every variable keeps its type.
THEOREM ScheduleTypes == Spec => []TypeOK
  <1>1. IInv => TypeOK BY DEF IInv, RowInv
  <1> QED BY <1>1, Inductive, PTL

\* Dispatcher, Run now and reconciler together leave a schedule at most one
\* run that waits or runs.
THEOREM RunsDoNotOverlap == Spec => []OneActiveRun
  <1>1. IInv => OneActiveRun BY DEF IInv
  <1> QED BY <1>1, Inductive, PTL

\* However often messages are delivered and workers die, a tick starts the
\* agent once at most.
THEOREM TicksStartOnce == Spec => []EachTickRunsOnce
  <1>1. IInv => EachTickRunsOnce
    BY DEF IInv, RowInv, StartedOnce, TicksHaveOneRow, EachTickRunsOnce
  <1> QED BY <1>1, Inductive, PTL

\* The conversation of a one-time schedule gets one answer of a run at most,
\* and only of a run that reads "success".
THEOREM AnswersAreReal == Spec => []AnswersAreSuccesses
  <1>1. IInv => AnswersAreSuccesses BY DEF IInv, AnswerInv
  <1> QED BY <1>1, Inductive, PTL

\* A recurring schedule that is on loses its next tick only when the last one
\* before its end finds a run at work, through PATCH and PUT, ticks, failures,
\* sweeps and crashes.
THEOREM RecurringGoesOn == Spec => KeepsFiring
  <1>1. IInv /\ [Next]_vars =>
          [~Stalled /\ Stalled' =>
             /\ HasActiveRun
             /\ schedule.end # Never /\ NextTick(schedule.next) > schedule.end]_vars
    <2> SUFFICES ASSUME IInv, [Next]_vars, ~Stalled, Stalled'
                 PROVE  /\ HasActiveRun
                        /\ schedule.end # Never
                        /\ NextTick(schedule.next) > schedule.end
      OBVIOUS
    <2>1. TypeOK /\ EditsGoOn BY DEF IInv, RowInv
    <2>2. SkipOverlap BY <2>1, StalledStep
    <2>3. schedule.next \in 0..MaxTime
      BY <2>1, <2>2, ConstantsAssumption DEF SkipOverlap, Due, TypeOK, Time, Never
    <2>4. NextTick(schedule.next) # Never BY <2>3, ComputeNextBounds
    <2>5. ComputeNext(schedule.next) = Never
      BY <2>1, <2>2 DEF SkipOverlap, Stalled, Recurring, TypeOK
    <2> QED BY <2>2, <2>4, <2>5 DEF SkipOverlap, ComputeNext
  <1> QED BY <1>1, Inductive, PTL DEF Spec, KeepsFiring

\* The outcome of a run stands, unless its message was delivered twice.
THEOREM OutcomesStand == Spec => OutcomeStands
  <1>1. IInv /\ [Next]_vars =>
          [\A r \in Run \ doubled' :
             run[r].status \in Terminal /\ starts[r] > 0
               => run'[r].status \in {run[r].status, "deleted"}]_vars
    <2> SUFFICES ASSUME IInv, [Next]_vars, NEW r \in Run \ doubled',
                        run[r].status \in Terminal, starts[r] > 0,
                        run'[r].status # run[r].status, run'[r].status # "deleted"
                 PROVE  FALSE
      OBVIOUS
    <2>1. /\ TypeOK /\ StartedOnce /\ LoadedRows /\ RunningRows
      BY DEF IInv, RowInv, MessageInv
    <2>2. starts[r] = 1 /\ r \notin doubled
      BY <2>1, MessageSteps DEF StartedOnce
    <2>3. Ended(r)
      BY <2>1, RowSteps
      DEF Inserted, Removed, Aged, Begun, GivenUp, FailStuckRunning, FailStuckPending,
          Terminal
    <2>4. PICK w \in Worker : /\ worker[w] # Idle /\ worker[w].run = r
                              /\ worker[w].pc \in {"loaded", "running"}
      BY <2>3 DEF Ended, Refuse, Finish
    <2>5. worker[w].pc # "loaded" BY <2>2, <2>4, <2>1 DEF LoadedRows
    <2>6. worker[w].pc # "running" BY <2>1, <2>2, <2>4 DEF RunningRows, Terminal
    <2> QED BY <2>4, <2>5, <2>6
  <1> QED BY <1>1, Inductive, PTL DEF Spec, OutcomeStands
===============================================================================
