------------------------------ MODULE TaskLease ------------------------------
(***************************************************************************)
(* One idempotency key of task_dedup and the Celery messages that carry    *)
(* it.  An HTTP entry may claim the key before it enqueues; the task       *)
(* wrapper with_idempotency returns the cached result of a completed key,  *)
(* takes a lease on any other, defers to a lease that another worker       *)
(* holds, and gives the key up for poisoned after MaxAttempts leases.      *)
(*                                                                         *)
(* The lease is 60 s and the heartbeat refreshes it every 30 s; Q5 of the  *)
(* reconciler waits 60 s more.  Times are kept as these three ages.  The   *)
(* attempt count saturates at MaxAttempts + 1: it is only compared with    *)
(* MaxAttempts.                                                            *)
(***************************************************************************)
EXTENDS Naturals

CONSTANTS
    Task,           \* Celery messages, redelivered copies included
    NoTask,
    MaxAttempts,    \* MAX_TASK_ATTEMPTS
    MaxRetries,     \* max_retries of DURABLE_TASK
    LeaseRetryMax,  \* LEASE_RETRY_MAX
    Claims,         \* does the entry claim the key before it enqueues?
    Refusals,       \* may an upload be refused after its claim?
    Blips,          \* may single database writes of the wrapper fail?
    Ageing          \* may the 24 h TTL pass?

ASSUME ConstantsAssumption ==
    /\ NoTask \notin Task
    /\ MaxAttempts \in Nat \ {0}
    /\ MaxRetries \in Nat
    /\ LeaseRetryMax \in Nat
    /\ MaxRetries <= LeaseRetryMax
    /\ {Claims, Refusals, Blips, Ageing} \subseteq BOOLEAN

VARIABLES
    dedup,   \* the key's row of task_dedup
    task,    \* the messages
    starts   \* how often the body started since the row was claimed or made

vars == <<dedup, task, starts>>

-----------------------------------------------------------------------------
\* Types

Dedup == [status: {"absent", "pending", "completed", "failed"},
          attempts: 0..(MaxAttempts + 1),
          owner: Task \cup {NoTask},      \* NoTask also when the owner died
          lease: {"none", "live", "lapsed", "overdue"},
          old: BOOLEAN,                   \* created_at is past the TTL
          result: Task \cup {NoTask}]     \* whose result is recorded

Message == [pc: {"unsent", "posted", "queued", "entered", "running",
                 "poisoned", "ended"},
            retries: 0..LeaseRetryMax]

TypeOK ==
    /\ dedup \in Dedup
    /\ task \in [Task -> Message]
    /\ starts \in 0..(MaxAttempts + 1)
    /\ (dedup.result # NoTask) <=> (dedup.status = "completed")
    /\ dedup.lease = "none" => dedup.owner = NoTask

Absent == [status |-> "absent", attempts |-> 0, owner |-> NoTask,
           lease |-> "none", old |-> FALSE, result |-> NoTask]

Init ==
    /\ dedup = Absent
    /\ task = [t \in Task |-> [pc |-> "unsent", retries |-> 0]]
    /\ starts = 0

-----------------------------------------------------------------------------
\* The row

Capped(n) == IF n > MaxAttempts THEN MaxAttempts + 1 ELSE n

\* The conflict predicate of claim_task.
Reclaimable == dedup.status \in {"absent", "failed"} \/ dedup.old

\* Mutant: the previous result stays in the replaced row.
ReclaimedWithResult == [dedup EXCEPT !.status = "pending", !.attempts = 0,
                                     !.old = FALSE]

\* claim_task: the row is replaced, its lease columns are not.
Reclaimed == [dedup EXCEPT !.status = "pending", !.attempts = 0,
                           !.old = FALSE, !.result = NoTask]

\* Mutant: a lease is taken whether or not another worker holds it.
LeasableAlways == dedup.status # "completed"

\* The WHERE clause of try_claim_lease.
Leasable == dedup.status # "completed" /\ dedup.lease # "live"

\* Mutant: taking over an abandoned lease does not count as an attempt.
LeasedUncounted(t) ==
    [dedup EXCEPT !.status = IF @ = "absent" THEN "pending" ELSE @,
                  !.attempts = IF dedup.status = "absent" THEN 1 ELSE @,
                  !.owner = t, !.lease = "live"]

\* try_claim_lease, when it returns a row: the status stays what it was.
Leased(t) ==
    [dedup EXCEPT !.status = IF @ = "absent" THEN "pending" ELSE @,
                  !.attempts = Capped(@ + 1),
                  !.owner = t, !.lease = "live"]

\* Mutant: the terminal write has no status = 'pending' condition.
FinalizedAlways(status, result) ==
    IF dedup.status = "absent" THEN dedup
    ELSE [dedup EXCEPT !.status = status, !.result = result,
                       !.owner = NoTask, !.lease = "none"]

\* finalize_task: whoever calls it, a pending row becomes terminal.
Finalized(status, result) ==
    IF dedup.status # "pending" THEN dedup
    ELSE [dedup EXCEPT !.status = status, !.result = result,
                       !.owner = NoTask, !.lease = "none"]

\* release_lease: for the owner of a pending row only.
Released(t) ==
    IF dedup.status = "pending" /\ dedup.owner = t
    THEN [dedup EXCEPT !.owner = NoTask, !.lease = "none"] ELSE dedup

\* Owner ids are per execution: a lease t leaves behind is nobody's.
Without(row, t) == [row EXCEPT !.owner = IF @ = t THEN NoTask ELSE @]

\* find_stuck_idempotency_pending
Abandoned == /\ dedup.status = "pending"
             /\ dedup.lease = "overdue"
             /\ dedup.attempts >= MaxAttempts

-----------------------------------------------------------------------------
\* The HTTP entry

Goes(t, pc) == task' = [task EXCEPT ![t].pc = pc]

\* _claim_task_or_get_cached: the loser answers from the row.
HttpClaim(t) ==
    /\ Claims
    /\ task[t].pc = "unsent"
    /\ IF Reclaimable
       THEN dedup' = Reclaimed /\ starts' = 0 /\ Goes(t, "posted")
       ELSE UNCHANGED <<dedup, starts>> /\ Goes(t, "ended")

Enqueue(t) ==
    /\ task[t].pc = "posted"
    /\ Goes(t, "queued")
    /\ UNCHANGED <<dedup, starts>>

\* Staging or the broker failed: _release_claim deletes a pending row.
EnqueueFails(t) ==
    /\ Refusals
    /\ task[t].pc = "posted"
    /\ dedup' = IF dedup.status = "pending" THEN Absent ELSE dedup
    /\ Goes(t, "ended")
    /\ UNCHANGED starts

\* The web process dies between the claim and the enqueue.
HttpCrash(t) ==
    /\ task[t].pc = "posted"
    /\ Goes(t, "ended")
    /\ UNCHANGED <<dedup, starts>>

\* A task enqueued under a key nobody claims: reingest, wiki, graph, seeds.
Dispatch(t) ==
    /\ ~Claims
    /\ task[t].pc = "unsent"
    /\ Goes(t, "queued")
    /\ UNCHANGED <<dedup, starts>>

\* The broker's visibility timeout delivers an unacknowledged message again.
Redeliver(t, u) ==
    /\ task[t].pc \in {"queued", "entered", "running", "poisoned"}
    /\ task[u].pc = "unsent"
    /\ task' = [task EXCEPT ![u] = [pc |-> "queued", retries |-> task[t].retries]]
    /\ UNCHANGED <<dedup, starts>>

-----------------------------------------------------------------------------
\* with_idempotency

\* A write of the wrapper is best-effort: it may be lost when there are blips.
Saved == IF Blips THEN BOOLEAN ELSE {TRUE}

\* _lookup_completed: the cached result ends the task.
Lookup(t) ==
    /\ task[t].pc = "queued"
    /\ Goes(t, IF dedup.status = "completed" /\ ~dedup.old
               THEN "ended" ELSE "entered")
    /\ UNCHANGED <<dedup, starts>>

\* The lease is ours: run the body, or trip the poison guard.
ClaimLease(t) ==
    /\ task[t].pc = "entered"
    /\ Leasable
    /\ dedup' = Leased(t)
    /\ IF dedup'.attempts > MaxAttempts
       THEN Goes(t, "poisoned") /\ UNCHANGED starts
       ELSE /\ Goes(t, "running")
            /\ starts' = IF dedup.status = "absent" THEN 1 ELSE Capped(starts + 1)

\* The claim failed on the database: the body runs without a lease.
ClaimUnleased(t) ==
    /\ Blips
    /\ task[t].pc = "entered"
    /\ Goes(t, "running")
    /\ starts' = Capped(starts + 1)
    /\ UNCHANGED dedup

\* No lease: retry in LEASE_TTL_SECONDS, at most LeaseRetryMax times.
Defer(t) ==
    /\ task[t].pc = "entered"
    /\ ~Leasable
    /\ task' = [task EXCEPT ![t] =
                  IF @.retries < LeaseRetryMax
                  THEN [pc |-> "queued", retries |-> @.retries + 1]
                  ELSE [@ EXCEPT !.pc = "ended"]]
    /\ UNCHANGED <<dedup, starts>>

\* _lease_heartbeat_loop, refresh_lease: no-op once the lease is lost.
Heartbeat(t) ==
    /\ task[t].pc = "running"
    /\ dedup.owner = t
    /\ dedup.status = "pending"
    /\ dedup' = [dedup EXCEPT !.lease = "live"]
    /\ UNCHANGED <<task, starts>>

Finish(t, saved) ==
    /\ task[t].pc = "running"
    /\ dedup' = Without(IF saved THEN Finalized("completed", t) ELSE dedup, t)
    /\ Goes(t, "ended")
    /\ UNCHANGED starts

\* The body raised: release the lease; autoretry, unless the error is one of
\* dont_autoretry_for or the retries, deferrals included, are used up.
Raise(t, again, saved) ==
    /\ task[t].pc = "running"
    /\ again => task[t].retries < MaxRetries
    /\ dedup' = Without(IF saved THEN Released(t) ELSE dedup, t)
    /\ task' = [task EXCEPT ![t] =
                  IF again THEN [pc |-> "queued", retries |-> @.retries + 1]
                  ELSE [@ EXCEPT !.pc = "ended"]]
    /\ UNCHANGED starts

\* The poison guard's terminal write.
Poison(t, saved) ==
    /\ task[t].pc = "poisoned"
    /\ dedup' = Without(IF saved THEN Finalized("failed", NoTask) ELSE dedup, t)
    /\ Goes(t, "ended")
    /\ UNCHANGED starts

\* The worker is killed: acks_late puts the message back in the queue.
Crash(t) ==
    /\ task[t].pc \in {"entered", "running", "poisoned"}
    /\ dedup' = Without(dedup, t)
    /\ Goes(t, "queued")
    /\ UNCHANGED starts

-----------------------------------------------------------------------------
\* Time, the reconciler, the hourly cleanup

\* The lease is refreshed by its owner's heartbeat.
Heartbeating == /\ dedup.status = "pending"
                /\ dedup.owner # NoTask
                /\ task[dedup.owner].pc = "running"

\* The poison guard's write follows its claim at once.
Poisoning == dedup.owner # NoTask /\ task[dedup.owner].pc = "poisoned"

LeaseAges ==
    /\ dedup.lease \in {"live", "lapsed"}
    /\ Heartbeating \/ Poisoning => Blips
    /\ dedup' = [dedup EXCEPT !.lease = IF @ = "live" THEN "lapsed" ELSE "overdue"]
    /\ UNCHANGED <<task, starts>>

\* Q5
Reconcile ==
    /\ Abandoned
    /\ dedup' = [dedup EXCEPT !.status = "failed", !.result = NoTask,
                              !.owner = NoTask, !.lease = "none"]
    /\ UNCHANGED <<task, starts>>

TtlPasses ==
    /\ Ageing
    /\ dedup.status # "absent"
    /\ ~dedup.old
    /\ dedup' = [dedup EXCEPT !.old = TRUE]
    /\ UNCHANGED <<task, starts>>

\* cleanup_expired: rows past the TTL, whatever their status and lease.
CleanupExpired ==
    /\ dedup.old
    /\ dedup' = Absent
    /\ UNCHANGED <<task, starts>>

TaskStep(t) ==
    \/ HttpClaim(t) \/ Enqueue(t) \/ EnqueueFails(t) \/ HttpCrash(t)
    \/ Dispatch(t) \/ \E u \in Task : Redeliver(t, u)
    \/ Lookup(t) \/ ClaimLease(t) \/ ClaimUnleased(t) \/ Defer(t) \/ Heartbeat(t)
    \/ \E saved \in Saved :
          \/ Finish(t, saved) \/ Poison(t, saved)
          \/ \E again \in BOOLEAN : Raise(t, again, saved)
    \/ Crash(t)

Next == (\E t \in Task : TaskStep(t))
        \/ LeaseAges \/ Reconcile \/ TtlPasses \/ CleanupExpired

Spec == Init /\ [][Next]_vars

\* The queue and the beat go on, and a body returns, raises or dies.  It may
\* die every time; only the wrapper's own short steps are not always cut off.
Fairness ==
    /\ \A t \in Task :
          /\ WF_vars(Enqueue(t) \/ HttpCrash(t)) /\ WF_vars(Lookup(t))
          /\ SF_vars(ClaimLease(t) \/ Defer(t))
          /\ SF_vars(Poison(t, TRUE))
          /\ WF_vars(Finish(t, TRUE) \/ Raise(t, FALSE, TRUE) \/ Crash(t))
    /\ WF_vars(LeaseAges) /\ WF_vars(Reconcile)

FairSpec == Spec /\ Fairness

-----------------------------------------------------------------------------
\* Properties

\* The keys of reingest, wiki and graph, which no HTTP entry claims, while
\* database writes get through and no row is as old as its TTL.
Unclaimed == ~Claims /\ ~Blips /\ ~Ageing

\* The body of an unclaimed key runs in one worker at a time, through crashes,
\* broker redeliveries, retries and deferrals.  Nothing of the kind holds of a
\* key that an entry claims: a refused upload deletes a lease in use, and the
\* guard of an old message fails a new claim (RefusalSparesRunning, PoisonFailsOwn).
OneRunner ==
    Unclaimed =>
        \A t, u \in Task : task[t].pc = "running" /\ task[u].pc = "running" => t = u

\* A key whose body keeps killing its worker is started MaxAttempts times at
\* most before somebody claims it afresh.
BoundedStarts == starts <= MaxAttempts

\* The recorded result of a completed key stands until its TTL: a worker that
\* lost its lease and finishes late does not overwrite it.
FirstResultStands ==
    [][dedup.status = "completed" /\ ~dedup.old
         => /\ dedup'.status = "completed"
            /\ dedup'.result = dedup.result]_vars

\* Every enqueued message comes to an end, even if its body dies every time.
CrashLoopEnds == \A t \in Task : task[t].pc = "queued" ~> task[t].pc = "ended"

Active(t) == task[t].pc \in {"posted", "queued", "entered", "running", "poisoned"}

\* A key that stays pending has a message that will still be tried, or is one
\* that Q5 will fail: otherwise it blocks same-key retries for 24 h.
PendingIsBacked ==
    dedup.status = "pending" /\ ~dedup.old
        => \/ \E t \in Task : Active(t)
           \/ dedup.lease # "none" /\ dedup.attempts >= MaxAttempts

\* A message is given up undone only because, ten minutes on, a different
\* worker still holds a live lease.
GivesUpOnlyToLease ==
    [][\A t \in Task : task[t].pc = "entered" /\ task'[t].pc = "ended"
                          => dedup.lease = "live"]_vars

\* An upload that fails after its claim drops its own claim, not the lease of
\* a worker that runs under the key.
RefusalSparesRunning ==
    [][\A t \in Task : task[t].pc = "posted" /\ task'[t].pc = "ended"
                            /\ Heartbeating => dedup' = dedup]_vars

\* The poison guard fails the attempts it has counted, not a later claim.
PoisonFailsOwn ==
    [][\A t \in Task : /\ task[t].pc = "poisoned" /\ task'[t].pc = "ended"
                       /\ dedup.status = "pending" /\ dedup'.status = "failed"
                       => dedup.attempts > MaxAttempts]_vars

\* The hourly cleanup of stale rows takes no lease from a running worker.
CleanupSparesRunning ==
    [][dedup.old /\ dedup' = Absent => ~Heartbeating]_vars
=============================================================================
