---------------------------- MODULE TaskLeaseProofs ----------------------------
(***************************************************************************)
(* Proofs about TaskLease for any set of messages and any limits.          *)
(***************************************************************************)
EXTENDS TaskLease, TLAPS

\* The attempts column bounds the starts of the body since the row was made
\* or claimed, so the poison guard bounds them by MaxAttempts.
StartsCounted ==
    /\ starts <= MaxAttempts
    /\ dedup.status # "absent" => starts <= dedup.attempts

\* While a message runs, or is about to be given up for poisoned, its lease is
\* in force and in its name; the body runs on a pending row only.
HoldsLease ==
    \A t \in Task :
        /\ task[t].pc \in {"running", "poisoned"}
             => dedup.owner = t /\ dedup.lease = "live"
        /\ task[t].pc = "running" => dedup.status = "pending"
        /\ task[t].pc = "poisoned" => dedup.attempts > MaxAttempts

\* A failed row has used up its attempts: the next lease trips the guard.
FailedIsExhausted == dedup.status = "failed" => dedup.attempts >= MaxAttempts

\* Without claims at the entry no message waits between claim and enqueue.
NonePosted == \A t \in Task : task[t].pc # "posted"

\* The inductive invariant behind OneRunner.
LeaseInv == TypeOK /\ HoldsLease /\ FailedIsExhausted /\ NonePosted /\ ~dedup.old

-----------------------------------------------------------------------------
\* Types

\* The row that try_claim_lease leaves is a row.
LEMMA LeasedTyped ==
    ASSUME TypeOK, NEW t \in Task, Leasable
    PROVE  /\ Leased(t) \in Dedup
           /\ Leased(t).result = dedup.result
           /\ Leased(t).status = IF dedup.status = "absent" THEN "pending"
                                 ELSE dedup.status
           /\ Leased(t).owner = t
           /\ Leased(t).lease = "live"
           /\ Leased(t).old = dedup.old
           /\ Leased(t).attempts = IF dedup.attempts >= MaxAttempts
                                   THEN MaxAttempts + 1 ELSE dedup.attempts + 1
  <1> DEFINE n == Capped(dedup.attempts + 1)
             st == IF dedup.status = "absent" THEN "pending" ELSE dedup.status
  <1>1. dedup \in Dedup BY DEF TypeOK
  <1>2. dedup.attempts \in 0..(MaxAttempts + 1) BY <1>1 DEF Dedup
  <1>3. /\ n \in 0..(MaxAttempts + 1)
        /\ n = IF dedup.attempts >= MaxAttempts
               THEN MaxAttempts + 1 ELSE dedup.attempts + 1
    BY <1>2, ConstantsAssumption DEF Capped
  <1>4. st \in {"absent", "pending", "completed", "failed"} BY <1>1 DEF Dedup
  <1>5. Leased(t) = [dedup EXCEPT !.status = st, !.attempts = n,
                                  !.owner = t, !.lease = "live"]
    BY DEF Leased
  <1> HIDE DEF n, st
  <1>6. /\ Leased(t) \in Dedup
        /\ Leased(t).result = dedup.result
        /\ Leased(t).status = st
        /\ Leased(t).owner = t
        /\ Leased(t).lease = "live"
        /\ Leased(t).old = dedup.old
        /\ Leased(t).attempts = n
    BY <1>1, <1>3, <1>4, <1>5 DEF Dedup
  <1> QED BY <1>3, <1>6 DEF st

\* Every step leaves a message a message.
LEMMA MessagesTyped ==
    ASSUME TypeOK, [Next]_vars
    PROVE  task' \in [Task -> Message]
  <1> USE ConstantsAssumption DEF TypeOK, Message, Goes
  <1>1. CASE UNCHANGED vars BY <1>1 DEF vars
  <1>2. CASE LeaseAges \/ Reconcile \/ TtlPasses \/ CleanupExpired
    BY <1>2 DEF LeaseAges, Reconcile, TtlPasses, CleanupExpired
  <1>3. ASSUME NEW t \in Task, TaskStep(t) PROVE task' \in [Task -> Message]
    <2>1. CASE \/ HttpClaim(t) \/ Enqueue(t) \/ EnqueueFails(t) \/ HttpCrash(t)
               \/ Dispatch(t)
      BY <2>1 DEF HttpClaim, Enqueue, EnqueueFails, HttpCrash, Dispatch
    <2>2. CASE \E u \in Task : Redeliver(t, u) BY <2>2 DEF Redeliver
    <2>3. CASE \/ Lookup(t) \/ ClaimLease(t) \/ ClaimUnleased(t) \/ Heartbeat(t)
               \/ Crash(t)
      BY <2>3 DEF Lookup, ClaimLease, ClaimUnleased, Heartbeat, Crash
    <2>4. CASE Defer(t) BY <2>4 DEF Defer
    <2>5. ASSUME NEW saved \in Saved, Finish(t, saved) \/ Poison(t, saved)
          PROVE  task' \in [Task -> Message]
      BY <2>5 DEF Finish, Poison
    <2>6. ASSUME NEW saved \in Saved, NEW again \in BOOLEAN, Raise(t, again, saved)
          PROVE  task' \in [Task -> Message]
      BY <2>6 DEF Raise
    <2> QED BY <1>3, <2>1, <2>2, <2>3, <2>4, <2>5, <2>6 DEF TaskStep
  <1> QED BY <1>1, <1>2, <1>3 DEF Next

\* What TypeOK says of the row.
RowOK(r) == /\ r \in Dedup
            /\ (r.result # NoTask) <=> (r.status = "completed")
            /\ r.lease = "none" => r.owner = NoTask

\* A row that a dead or finished worker leaves is as well-formed as before.
LEMMA WithoutTyped ==
    ASSUME NEW r, RowOK(r), NEW t \in Task
    PROVE  /\ RowOK(Without(r, t))
           /\ Without(r, t).status = r.status
           /\ Without(r, t).attempts = r.attempts
           /\ Without(r, t).lease = r.lease
           /\ Without(r, t).old = r.old
           /\ Without(r, t).owner = IF r.owner = t THEN NoTask ELSE r.owner
  BY DEF RowOK, Dedup, Without

\* finalize_task leaves a well-formed row: with the caller's result when it
\* completed a pending one, with the one it had otherwise.
LEMMA FinalizedTyped ==
    ASSUME RowOK(dedup), NEW t \in Task
    PROVE  /\ RowOK(Finalized("completed", t))
           /\ RowOK(Finalized("failed", NoTask))
           /\ Finalized("completed", t).attempts = dedup.attempts
           /\ Finalized("failed", NoTask).attempts = dedup.attempts
  BY ConstantsAssumption DEF RowOK, Dedup, Finalized

\* release_lease leaves a well-formed row.
LEMMA ReleasedTyped ==
    ASSUME RowOK(dedup), NEW t \in Task
    PROVE  /\ RowOK(Released(t))
           /\ Released(t).attempts = dedup.attempts
           /\ Released(t).status = dedup.status
           /\ Released(t).old = dedup.old
  BY ConstantsAssumption DEF RowOK, Dedup, Released

\* Every step leaves the row well-formed.
LEMMA RowTyped ==
    ASSUME TypeOK, [Next]_vars
    PROVE  RowOK(dedup')
  <1>0. RowOK(dedup) BY DEF TypeOK, RowOK
  <1>a. RowOK(Absent) BY ConstantsAssumption DEF RowOK, Absent, Dedup
  <1>1. CASE UNCHANGED vars BY <1>0, <1>1 DEF vars
  <1>2. CASE LeaseAges
    BY <1>0, <1>2 DEF LeaseAges, RowOK, Dedup
  <1>3. CASE Reconcile
    BY <1>0, <1>3, ConstantsAssumption DEF Reconcile, Abandoned, RowOK, Dedup
  <1>4. CASE TtlPasses
    BY <1>0, <1>4 DEF TtlPasses, RowOK, Dedup
  <1>5. CASE CleanupExpired BY <1>a, <1>5 DEF CleanupExpired
  <1>6. ASSUME NEW t \in Task, TaskStep(t) PROVE RowOK(dedup')
    <2>1. CASE HttpClaim(t)
      <3>1. RowOK(Reclaimed)
        <4>1. 0 \in 0..(MaxAttempts + 1) BY ConstantsAssumption
        <4>2. Reclaimed \in Dedup BY <1>0, <4>1 DEF Reclaimed, RowOK, Dedup
        <4>3. /\ Reclaimed.status = "pending"
              /\ Reclaimed.result = NoTask
              /\ Reclaimed.lease = dedup.lease
              /\ Reclaimed.owner = dedup.owner
          BY <1>0 DEF Reclaimed, RowOK, Dedup
        <4> QED BY <1>0, <4>2, <4>3 DEF RowOK
      <3> QED BY <1>0, <2>1, <3>1 DEF HttpClaim
    <2>2. CASE EnqueueFails(t) BY <1>0, <1>a, <2>2 DEF EnqueueFails
    <2>3. CASE \/ Enqueue(t) \/ HttpCrash(t) \/ Dispatch(t) \/ Lookup(t)
               \/ ClaimUnleased(t) \/ Defer(t)
      BY <1>0, <2>3 DEF Enqueue, HttpCrash, Dispatch, Lookup, ClaimUnleased, Defer
    <2>4. CASE \E u \in Task : Redeliver(t, u) BY <1>0, <2>4 DEF Redeliver
    <2>5. CASE ClaimLease(t)
      <3>1. Leasable /\ dedup' = Leased(t) BY <2>5 DEF ClaimLease
      <3>2. Leased(t).status = "completed" <=> dedup.status = "completed"
        BY <3>1, LeasedTyped
      <3> QED BY <1>0, <3>1, <3>2, LeasedTyped DEF RowOK
    <2>6. CASE Heartbeat(t)
      BY <1>0, <2>6, ConstantsAssumption DEF Heartbeat, RowOK, Dedup
    <2>7. ASSUME NEW saved \in Saved, Finish(t, saved) \/ Poison(t, saved)
          PROVE  RowOK(dedup')
      BY <1>0, <2>7, FinalizedTyped, WithoutTyped DEF Finish, Poison
    <2>8. ASSUME NEW saved \in Saved, NEW again \in BOOLEAN, Raise(t, again, saved)
          PROVE  RowOK(dedup')
      BY <1>0, <2>8, ReleasedTyped, WithoutTyped DEF Raise
    <2>9. CASE Crash(t) BY <1>0, <2>9, WithoutTyped DEF Crash
    <2> QED BY <1>6, <2>1, <2>2, <2>3, <2>4, <2>5, <2>6, <2>7, <2>8, <2>9 DEF TaskStep
  <1> QED BY <1>1, <1>2, <1>3, <1>4, <1>5, <1>6 DEF Next

\* Every step leaves the count of starts in range.
LEMMA StartsTyped ==
    ASSUME TypeOK, [Next]_vars
    PROVE  starts' \in 0..(MaxAttempts + 1)
  <1> USE ConstantsAssumption DEF TypeOK, Capped
  <1>1. CASE UNCHANGED vars BY <1>1 DEF vars
  <1>2. CASE LeaseAges \/ Reconcile \/ TtlPasses \/ CleanupExpired
    BY <1>2 DEF LeaseAges, Reconcile, TtlPasses, CleanupExpired
  <1>3. ASSUME NEW t \in Task, TaskStep(t) PROVE starts' \in 0..(MaxAttempts + 1)
    <2>1. CASE \/ HttpClaim(t) \/ Enqueue(t) \/ EnqueueFails(t) \/ HttpCrash(t)
               \/ Dispatch(t) \/ Lookup(t) \/ Defer(t) \/ Heartbeat(t) \/ Crash(t)
      BY <2>1 DEF HttpClaim, Enqueue, EnqueueFails, HttpCrash, Dispatch, Lookup,
                  Defer, Heartbeat, Crash
    <2>2. CASE \E u \in Task : Redeliver(t, u) BY <2>2 DEF Redeliver
    <2>3. CASE ClaimLease(t) \/ ClaimUnleased(t)
      BY <2>3 DEF ClaimLease, ClaimUnleased
    <2>4. ASSUME NEW saved \in Saved,
                 \/ Finish(t, saved) \/ Poison(t, saved)
                 \/ \E again \in BOOLEAN : Raise(t, again, saved)
          PROVE  starts' = starts
      BY <2>4 DEF Finish, Poison, Raise
    <2> QED BY <1>3, <2>1, <2>2, <2>3, <2>4 DEF TaskStep
  <1> QED BY <1>1, <1>2, <1>3 DEF Next

\* The key has not been used yet.
LEMMA TypeInit == Init => TypeOK
  BY ConstantsAssumption DEF Init, TypeOK, Absent, Dedup, Message

\* Every step of a wrapper, an entry or a sweep leaves the key's row and
\* messages well-formed.
LEMMA TypeStep == TypeOK /\ [Next]_vars => TypeOK'
  BY MessagesTyped, RowTyped, StartsTyped DEF TypeOK, RowOK

\* The row of task_dedup, its lease and the messages stay well-formed: only a
\* completed row has a result, only a leased one an owner.
THEOREM TypeCorrect == Spec => []TypeOK
  BY TypeInit, TypeStep, PTL DEF Spec

-----------------------------------------------------------------------------
\* Starts

\* The attempts column keeps bounding the starts when no claim write is lost:
\* claim_task and a deleted row restart both counts, try_claim_lease adds to
\* both, or trips the guard.
LEMMA StartsStep ==
    ASSUME ~Blips, TypeOK, StartsCounted, [Next]_vars
    PROVE  StartsCounted'
  <1> USE ConstantsAssumption
  <1>0. RowOK(dedup) /\ dedup.attempts \in Nat /\ starts \in Nat
    BY DEF TypeOK, RowOK, Dedup
  <1>1. CASE UNCHANGED vars BY <1>1 DEF vars, StartsCounted
  <1>2. CASE LeaseAges \/ Reconcile \/ TtlPasses \/ CleanupExpired
    <2>1. starts' = starts BY <1>2 DEF LeaseAges, Reconcile, TtlPasses, CleanupExpired
    <2>2. CASE CleanupExpired
      <3>1. dedup'.status = "absent" BY <2>2 DEF CleanupExpired, Absent
      <3> QED BY <2>1, <3>1 DEF StartsCounted
    <2>3. CASE LeaseAges \/ Reconcile \/ TtlPasses
      <3>1. dedup'.attempts = dedup.attempts
        BY <2>3, <1>0 DEF LeaseAges, Reconcile, TtlPasses, RowOK, Dedup
      <3>2. dedup.status # "absent"
              \/ dedup'.status = dedup.status
        BY <2>3, <1>0 DEF LeaseAges, Reconcile, Abandoned, TtlPasses, RowOK, Dedup
      <3> QED BY <2>1, <3>1, <3>2 DEF StartsCounted
    <2> QED BY <1>2, <2>2, <2>3
  <1>3. ASSUME NEW t \in Task, TaskStep(t) PROVE StartsCounted'
    <2>1. CASE HttpClaim(t)
      <3>1. CASE Reclaimable
        <4>1. starts' = 0 /\ dedup' = Reclaimed BY <2>1, <3>1 DEF HttpClaim
        <4>2. Reclaimed.attempts = 0 BY <1>0 DEF Reclaimed, RowOK, Dedup
        <4> QED BY <4>1, <4>2 DEF StartsCounted
      <3>2. CASE ~Reclaimable BY <2>1, <3>2 DEF HttpClaim, StartsCounted
      <3> QED BY <3>1, <3>2
    <2>2. CASE EnqueueFails(t) BY <2>2 DEF EnqueueFails, Absent, StartsCounted
    <2>3. CASE \/ Enqueue(t) \/ HttpCrash(t) \/ Dispatch(t) \/ Lookup(t) \/ Defer(t)
      BY <2>3 DEF Enqueue, HttpCrash, Dispatch, Lookup, Defer, StartsCounted
    <2>4. CASE \E u \in Task : Redeliver(t, u)
      BY <2>4 DEF Redeliver, StartsCounted
    <2>5. CASE ClaimLease(t)
      <3>1. /\ Leasable
            /\ dedup' = Leased(t)
            /\ IF Leased(t).attempts > MaxAttempts THEN UNCHANGED starts
               ELSE starts' = IF dedup.status = "absent" THEN 1
                              ELSE Capped(starts + 1)
        BY <2>5 DEF ClaimLease
      <3>2. Leased(t).attempts = IF dedup.attempts >= MaxAttempts
                                 THEN MaxAttempts + 1 ELSE dedup.attempts + 1
        BY <3>1, LeasedTyped
      <3>3. CASE dedup.attempts >= MaxAttempts
        BY <1>0, <3>1, <3>2, <3>3 DEF StartsCounted
      <3>4. CASE dedup.attempts < MaxAttempts
        BY <1>0, <3>1, <3>2, <3>4 DEF StartsCounted, Capped
      <3> QED BY <1>0, <3>3, <3>4
    <2>6. CASE ClaimUnleased(t) BY <2>6 DEF ClaimUnleased
    <2>7. CASE Heartbeat(t)
      BY <1>0, <2>7 DEF Heartbeat, StartsCounted, RowOK, Dedup
    <2>8. ASSUME NEW saved \in Saved,
                 \/ Finish(t, saved) \/ Poison(t, saved)
                 \/ \E again \in BOOLEAN : Raise(t, again, saved)
          PROVE  StartsCounted'
      <3>1. /\ starts' = starts
            /\ \E r \in {dedup, Finalized("completed", t),
                         Finalized("failed", NoTask), Released(t)} :
                  dedup' = Without(r, t)
        BY <2>8 DEF Finish, Poison, Raise
      <3>2. PICK r \in {dedup, Finalized("completed", t),
                        Finalized("failed", NoTask), Released(t)} :
              dedup' = Without(r, t)
        BY <3>1
      <3>3. RowOK(r) /\ r.attempts = dedup.attempts
        BY <1>0, FinalizedTyped, ReleasedTyped
      <3>4. r.status # "absent" => dedup.status # "absent"
        BY <1>0, ReleasedTyped DEF Finalized
      <3>5. dedup'.attempts = dedup.attempts /\ dedup'.status = r.status
        BY <3>2, <3>3, WithoutTyped
      <3> QED BY <3>1, <3>4, <3>5 DEF StartsCounted
    <2>9. CASE Crash(t)
      <3>1. starts' = starts /\ dedup' = Without(dedup, t) BY <2>9 DEF Crash
      <3> QED BY <1>0, <3>1, WithoutTyped DEF StartsCounted
    <2> QED BY <1>3, <2>1, <2>2, <2>3, <2>4, <2>5, <2>6, <2>7, <2>8, <2>9 DEF TaskStep
  <1> QED BY <1>1, <1>2, <1>3 DEF Next

\* The poison guard works for any number of workers, redeliveries and HTTP
\* claims: as long as no lease claim is lost on the database, try_claim_lease
\* counts every start, and a body is started at most MaxAttempts times per
\* claim of its key.
THEOREM StartsAreBounded == ~Blips => (Spec => []BoundedStarts)
  <1> SUFFICES ASSUME ~Blips PROVE Spec => []BoundedStarts
    OBVIOUS
  <1>1. Init => StartsCounted
    BY ConstantsAssumption DEF Init, StartsCounted, Absent
  <1>2. StartsCounted => BoundedStarts BY DEF StartsCounted, BoundedStarts
  <1>3. TypeOK /\ StartsCounted /\ [Next]_vars => StartsCounted'
    BY StartsStep
  <1> QED BY <1>1, <1>2, <1>3, TypeCorrect, PTL DEF Spec

-----------------------------------------------------------------------------
\* Results

\* finalize_task writes over pending rows only, claim_task over failed or
\* stale ones, and the other writes leave status and result alone: the result
\* of a completed key stands, whichever worker finishes late.
THEOREM ResultsStand == Spec => FirstResultStands
  <1> DEFINE Stands == dedup.status = "completed" /\ ~dedup.old
                         => /\ dedup'.status = "completed"
                            /\ dedup'.result = dedup.result
  <1>1. TypeOK /\ [Next]_vars => [Stands]_vars
    <2> SUFFICES ASSUME TypeOK, Next, dedup.status = "completed", ~dedup.old
                 PROVE  /\ dedup'.status = "completed"
                        /\ dedup'.result = dedup.result
      OBVIOUS
    <2>0. RowOK(dedup) BY DEF TypeOK, RowOK
    <2>1. CASE LeaseAges \/ Reconcile \/ TtlPasses \/ CleanupExpired
      BY <2>0, <2>1 DEF LeaseAges, Reconcile, Abandoned, TtlPasses, CleanupExpired,
                        RowOK, Dedup
    <2>2. ASSUME NEW t \in Task, TaskStep(t)
          PROVE  dedup' = dedup \/ dedup' = Without(dedup, t)
      <3>1. CASE \/ HttpClaim(t) \/ Enqueue(t) \/ EnqueueFails(t) \/ HttpCrash(t)
                 \/ Dispatch(t) \/ Lookup(t) \/ ClaimLease(t) \/ ClaimUnleased(t)
                 \/ Defer(t) \/ Heartbeat(t) \/ Crash(t)
        BY <3>1 DEF HttpClaim, Reclaimable, Enqueue, EnqueueFails, HttpCrash,
                    Dispatch, Lookup, ClaimLease, Leasable, ClaimUnleased, Defer,
                    Heartbeat, Crash
      <3>2. CASE \E u \in Task : Redeliver(t, u) BY <3>2 DEF Redeliver
      <3>3. ASSUME NEW saved \in Saved,
                   \/ Finish(t, saved) \/ Poison(t, saved)
                   \/ \E again \in BOOLEAN : Raise(t, again, saved)
            PROVE  dedup' = Without(dedup, t)
        BY <3>3 DEF Finish, Poison, Raise, Finalized, Released
      <3> QED BY <2>2, <3>1, <3>2, <3>3 DEF TaskStep
    <2>3. ASSUME NEW t \in Task
          PROVE  /\ Without(dedup, t).status = dedup.status
                 /\ Without(dedup, t).result = dedup.result
      BY <2>0 DEF Without, RowOK, Dedup
    <2> QED BY <2>1, <2>2, <2>3 DEF Next
  <1> QED BY <1>1, TypeCorrect, PTL DEF Spec, FirstResultStands
-----------------------------------------------------------------------------
\* One runner

\* A lease in force is taken from nobody, so whoever holds one keeps it until
\* its own terminal write: a step of one message leaves the lease, the status
\* and the attempts of another's row alone.
LEMMA LeaseStep ==
    ASSUME Unclaimed, LeaseInv, [Next]_vars
    PROVE  HoldsLease' /\ FailedIsExhausted' /\ NonePosted' /\ ~dedup'.old
  <1> USE ConstantsAssumption DEF NonePosted
  <1> DEFINE Holder(u) == task[u].pc \in {"running", "poisoned"}
  <1>0. /\ RowOK(dedup) /\ dedup \in Dedup /\ ~dedup.old
        /\ dedup.attempts \in Nat
        /\ HoldsLease /\ FailedIsExhausted /\ NonePosted
        /\ task \in [Task -> Message]
        /\ ~Claims /\ ~Blips /\ ~Ageing
    BY DEF LeaseInv, TypeOK, RowOK, Dedup, Unclaimed
  <1>1. CASE UNCHANGED vars
    BY <1>0, <1>1 DEF vars, HoldsLease, FailedIsExhausted
  <1>2. CASE LeaseAges
    <2>1. \A u \in Task : ~Holder(u)
      BY <1>0, <1>2 DEF LeaseAges, Heartbeating, Poisoning, HoldsLease
    <2>2. /\ dedup'.status = dedup.status /\ dedup'.old = dedup.old
          /\ dedup'.attempts = dedup.attempts /\ task' = task
      BY <1>0, <1>2 DEF LeaseAges, Dedup
    <2> QED BY <1>0, <2>1, <2>2 DEF HoldsLease, FailedIsExhausted
  <1>3. CASE Reconcile
    <2>1. \A u \in Task : ~Holder(u)
      BY <1>0, <1>3 DEF Reconcile, Abandoned, HoldsLease
    <2>2. /\ dedup'.old = dedup.old /\ dedup'.attempts = dedup.attempts
          /\ task' = task /\ dedup.attempts >= MaxAttempts
      BY <1>0, <1>3 DEF Reconcile, Abandoned, Dedup
    <2> QED BY <1>0, <2>1, <2>2 DEF HoldsLease, FailedIsExhausted
  <1>4. CASE TtlPasses \/ CleanupExpired
    BY <1>0, <1>4 DEF TtlPasses, CleanupExpired
  <1>5. ASSUME NEW t \in Task, TaskStep(t)
        PROVE  HoldsLease' /\ FailedIsExhausted' /\ NonePosted' /\ ~dedup'.old
    <2>1. CASE HttpClaim(t) \/ Enqueue(t) \/ EnqueueFails(t) \/ HttpCrash(t)
               \/ ClaimUnleased(t)
      BY <1>0, <2>1 DEF HttpClaim, Enqueue, EnqueueFails, HttpCrash, ClaimUnleased
    <2>2. ASSUME NEW w \in Task, NEW m \in Message,
                 m.pc \notin {"running", "poisoned", "posted"},
                 task' = [task EXCEPT ![w] = m], dedup' = dedup
          PROVE  HoldsLease' /\ FailedIsExhausted' /\ NonePosted' /\ ~dedup'.old
      BY <1>0, <2>2 DEF HoldsLease, FailedIsExhausted
    <2>3. CASE Dispatch(t) \/ Lookup(t) \/ Defer(t)
      <3>1. task' \in [Task -> Message]
        BY MessagesTyped DEF LeaseInv
      <3>2. /\ task' = [task EXCEPT ![t] = task'[t]] /\ dedup' = dedup
            /\ task'[t].pc \notin {"running", "poisoned", "posted"}
        BY <1>0, <2>3 DEF Dispatch, Lookup, Defer, Goes, Message
      <3> QED BY <2>2, <3>1, <3>2
    <2>4. CASE \E u \in Task : Redeliver(t, u)
      <3>1. PICK u \in Task : Redeliver(t, u) BY <2>4
      <3> DEFINE m == [pc |-> "queued", retries |-> task[t].retries]
      <3>2. m \in Message BY <1>0 DEF Message
      <3> QED BY <2>2, <3>1, <3>2 DEF Redeliver
    <2>5. CASE ClaimLease(t)
      <3>1. /\ Leasable /\ dedup' = Leased(t)
            /\ task' = [task EXCEPT ![t].pc = IF Leased(t).attempts > MaxAttempts
                                              THEN "poisoned" ELSE "running"]
        BY <2>5 DEF ClaimLease, Goes
      <3>2. \A u \in Task : ~Holder(u) BY <1>0, <3>1 DEF HoldsLease, Leasable
      <3>3. /\ task'[t].pc = IF Leased(t).attempts > MaxAttempts
                             THEN "poisoned" ELSE "running"
            /\ \A u \in Task \ {t} : task'[u] = task[u]
        BY <1>0, <3>1 DEF Message
      <3>4. /\ dedup'.owner = t /\ dedup'.lease = "live" /\ ~dedup'.old
            /\ dedup'.status = IF dedup.status = "absent" THEN "pending"
                               ELSE dedup.status
            /\ dedup'.attempts = IF dedup.attempts >= MaxAttempts
                                 THEN MaxAttempts + 1 ELSE dedup.attempts + 1
        BY <1>0, <3>1, LeasedTyped DEF LeaseInv
      <3>5. FailedIsExhausted' /\ (dedup'.status = "failed"
                                     => dedup'.attempts > MaxAttempts)
        BY <1>0, <3>4 DEF FailedIsExhausted
      <3>6. dedup'.status \in {"pending", "failed"}
        BY <1>0, <3>1, <3>4 DEF Leasable, Dedup
      <3>7. HoldsLease' BY <3>1, <3>2, <3>3, <3>4, <3>5, <3>6 DEF HoldsLease
      <3> QED BY <1>0, <3>3, <3>4, <3>5, <3>7
    <2>6. CASE Heartbeat(t)
      <3>1. /\ task' = task /\ dedup'.status = dedup.status
            /\ dedup'.attempts = dedup.attempts /\ dedup'.owner = dedup.owner
            /\ dedup'.lease = "live" /\ dedup'.old = dedup.old
        BY <1>0, <2>6 DEF Heartbeat, Dedup
      <3> QED BY <1>0, <3>1 DEF HoldsLease, FailedIsExhausted
    \* The message that ends or dies held the lease, or another one still does.
    <2>7. ASSUME \/ dedup.owner = t \/ dedup.lease # "live" \/ dedup' = dedup,
                 task'[t].pc \in {"queued", "ended"},
                 \A u \in Task \ {t} : task'[u] = task[u],
                 dedup'.status = "failed" => dedup'.attempts >= MaxAttempts,
                 ~dedup'.old
          PROVE  HoldsLease' /\ FailedIsExhausted' /\ NonePosted' /\ ~dedup'.old
      <3>1. HoldsLease'
        <4> SUFFICES ASSUME NEW u \in Task, u # t, Holder(u)
                     PROVE  dedup' = dedup
          BY <1>0, <2>7 DEF HoldsLease
        <4> QED BY <1>0, <2>7 DEF HoldsLease
      <3> QED BY <1>0, <2>7, <3>1 DEF FailedIsExhausted
    <2>8. ASSUME NEW saved \in Saved,
                 \/ Finish(t, saved) \/ Poison(t, saved)
                 \/ \E again \in BOOLEAN : Raise(t, again, saved)
          PROVE  HoldsLease' /\ FailedIsExhausted' /\ NonePosted' /\ ~dedup'.old
      <3>1. /\ Holder(t)
            /\ task'[t].pc \in {"queued", "ended"}
            /\ \A u \in Task \ {t} : task'[u] = task[u]
        <4>1. CASE Finish(t, saved) \/ Poison(t, saved)
          BY <1>0, <4>1 DEF Finish, Poison, Goes, Message
        <4>2. ASSUME NEW again \in BOOLEAN, Raise(t, again, saved)
              PROVE  /\ Holder(t)
                     /\ task'[t].pc \in {"queued", "ended"}
                     /\ \A u \in Task \ {t} : task'[u] = task[u]
          <5>1. task[t].pc = "running" BY <4>2 DEF Raise
          <5>2. PICK m \in {[pc |-> "queued", retries |-> task[t].retries + 1],
                            [task[t] EXCEPT !.pc = "ended"]} :
                  task' = [task EXCEPT ![t] = m]
            BY <4>2 DEF Raise
          <5>3. m.pc \in {"queued", "ended"} BY <1>0 DEF Message
          <5> QED BY <1>0, <5>1, <5>2, <5>3
        <4> QED BY <2>8, <4>1, <4>2
      <3>2. PICK r : /\ dedup' = Without(r, t)
                     /\ \/ r \in {dedup, Finalized("completed", t), Released(t)}
                        \/ /\ r = Finalized("failed", NoTask)
                           /\ task[t].pc = "poisoned"
        BY <2>8 DEF Finish, Poison, Raise
      <3>3. /\ RowOK(r) /\ r.attempts = dedup.attempts /\ r.old = dedup.old
            /\ r.status = "failed" => r.status = dedup.status
                                      \/ task[t].pc = "poisoned"
        <4>1. CASE r \in {dedup, Released(t)}
          BY <1>0, <4>1, ReleasedTyped
        <4>2. CASE r = Finalized("completed", t)
          <5>1. /\ r.old = dedup.old
                /\ r.status \in {"completed", dedup.status}
            BY <1>0, <4>2 DEF Finalized, Dedup
          <5> QED BY <1>0, <4>2, <5>1, FinalizedTyped
        <4>3. CASE r = Finalized("failed", NoTask) /\ task[t].pc = "poisoned"
          <5>1. r.old = dedup.old BY <1>0, <4>3 DEF Finalized, Dedup
          <5> QED BY <1>0, <4>3, <5>1, FinalizedTyped
        <4> QED BY <3>2, <4>1, <4>2, <4>3
      <3>4. dedup'.status = r.status /\ dedup'.attempts = r.attempts
            /\ dedup'.old = r.old
        BY <3>2, <3>3, WithoutTyped
      <3>5. dedup'.status = "failed" => dedup'.attempts >= MaxAttempts
        BY <1>0, <3>3, <3>4 DEF FailedIsExhausted, HoldsLease
      <3> QED BY <1>0, <2>7, <3>1, <3>3, <3>4, <3>5 DEF HoldsLease
    <2>9. CASE Crash(t)
      <3>1. /\ task'[t].pc = "queued" /\ dedup' = Without(dedup, t)
            /\ \A u \in Task \ {t} : task'[u] = task[u]
        BY <1>0, <2>9 DEF Crash, Goes, Message
      <3>2. dedup.owner = t \/ dedup' = dedup
        BY <1>0, <3>1 DEF Without, Dedup
      <3> QED BY <1>0, <2>7, <3>1, <3>2, WithoutTyped DEF FailedIsExhausted
    <2> QED BY <1>5, <2>1, <2>3, <2>4, <2>5, <2>6, <2>8, <2>9 DEF TaskStep
  <1> QED BY <1>1, <1>2, <1>3, <1>4, <1>5 DEF Next

\* Reingest, wiki and graph tasks, whose keys no HTTP entry claims: while
\* heartbeats reach the database, a key's body runs in one worker at a time,
\* for any number of messages, redeliveries, crashes and retries.
THEOREM OneRunnerHolds == Spec => []OneRunner
  <1>1. CASE Unclaimed
    <2>1. Init => LeaseInv
      BY TypeInit DEF Init, LeaseInv, HoldsLease, FailedIsExhausted, NonePosted, Absent
    <2>2. LeaseInv /\ [Next]_vars => LeaseInv' BY <1>1, LeaseStep, TypeStep DEF LeaseInv
    <2>3. LeaseInv => OneRunner BY DEF LeaseInv, HoldsLease, OneRunner
    <2> QED BY <2>1, <2>2, <2>3, PTL DEF Spec
  <1>2. CASE ~Unclaimed
    <2>1. OneRunner BY <1>2 DEF OneRunner
    <2> QED BY <2>1, PTL
  <1> QED BY <1>1, <1>2
=============================================================================
