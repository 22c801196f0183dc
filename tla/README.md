# Formal models of DocsGPT's durable machinery

DocsGPT answers questions over documents, runs tools, ingests sources and runs
scheduled agents. Most of its 100 000 lines of Python convert formats or call
remote services. What is hard in it, and what this directory models, is the
layer that keeps work correct while processes die, clients disconnect, Celery
redelivers and several requests touch one row: chat turns and their tool
continuations, idempotent background tasks, the replayable event stream of an
answer, the broker of remote devices, schedules and their runs, the tool loop
with its log of attempts, and the resumable index of a source.

Every definition is translated from the code; `PROJECT.json` names the lines
for each (`map`), and lists what can go wrong (`hazards`) with the properties that
would catch it. Where the code and its own comments disagree, a configuration
beside the listed runs shows it; section 3 has the table.

## 1. Inventory

Paths are relative to `src/application/`.

| Part | State | Operations | What is hard |
|---|---|---|---|
| **Chat turn** `api/answer/routes/base.py`, `conversation_service.py`, `repositories/conversations.py`, sweep Q1 in `reconciliation.py` | row of `conversation_messages`: position, status, heartbeat, metadata flags | reserve (with truncation on retry), stream, heartbeat thread, finalize, abort, fail, reconcile | five writers of one row: stream, resume, reconciler, janitor, retry; a failure that may be replaced by an answer |
| **Tool continuation** `continuation_service.py`, `repositories/pending_tool_state.py`, `cleanup_pending_tool_state` | one row per conversation and user: `pending`/`resuming`, TTL, `resumed_at` | save, claim, release, revert, expire, delete | claims that outlive their holder, and holders that outlive their claim |
| **Idempotent tasks** `api/user/idempotency.py`, `repositories/idempotency.py`, sweep Q5, `sources/upload.py` | row of `task_dedup`: status, lease, attempts, result, age | HTTP claim, lease, heartbeat, finalize, release, poison, defer, clean-up | redelivery, killed workers, three predicates over one row |
| **Stream journal** `streaming/*` | `message_events`, a buffer per stream, a Redis channel | record, flush (bulk, then row by row), publish, snapshot, tail, watchdog | exactly-once over commit + publish + reconnect |
| **Remote devices** `devices/broker.py`, `tools/remote_device.py`, `api/devices/session.py` | Redis hash, list, stream and ticket; local session maps; audit row | dispatch, drain, clean up; poll, session, pop; output, denial | five actors on one invocation, each Redis command on its own |
| **Schedules** `api/user/scheduler_dispatcher.py`, `scheduler_worker.py`, `schedules/routes.py`, sweeps Q6/Q7 | `schedules`, `schedule_runs`, the queue | tick, run now, run, PATCH, PUT, cancel, delete, autopause, fail stuck runs | dedup by `(schedule, time)`, unlocked edits, unconditional terminal writes |
| **Tool loop and executor** `llm/handlers/base.py`, `agents/tool_executor.py`, `agents/base.py`, sweeps Q2/Q3 | the messages of the run, `tool_call_attempts` | batch, execute, deny, pause, resume, compress, skip; propose, mark, fail, confirm | a history the provider takes; a crash between a side effect and its record |
| **Ingest** `worker.py`, `parser/embedding_pipeline.py`, `ingest_chunk_progress.py`, `sources/routes.py`, sweep Q4 | checkpoint row, stored index, source row | load, open, embed, record, save, check, retry, sync, reingest, stall | resuming at the right chunk of the right attempt; a FAISS index older than its checkpoint |
| **User events** `events/publisher.py`, `api/events/routes.py` | one Redis stream and channel per user | publish, replay, tail | replay against live delivery |
| **v1 idempotency** `api/v1/idempotency.py` | `task_dedup` again | claim or replay, finalize, release | stale claims of dead requests |
| **Sandbox manager** `sandbox/manager.py` | pool of sandboxes | acquire, evict, reap | bound on the pool, locks per session |
| **Pairing** `api/devices/pairing.py` | Redis codes | start, redeem | redeemed once |

The rest (LLM providers, agents, workflow engine, retrieval, parsers,
connectors, guardrails, OIDC/SCIM, teams, CRUD routes, usage limits, frontend)
is listed with the reason it is left out in `PROJECT.json`.

How they interact: `complete_stream` drives a turn, saves and deletes its
continuation, journals its events and runs tools, the remote device among them.
The 30 s reconciler reads the turn, its continuation and its tool attempts in
one query, and sweeps `task_dedup`, ingests and schedule runs. The 60 s janitor
reverts and expires continuations, then fails their turns. The reconnecting
client reads the journal and, when that is silent, the turn's row. These
composite effects are why turn and continuation are one module, and why
`StreamJournal` has the row's status as a variable.

What makes each part correct:

* turn: every reserved turn is settled; one answer at most is stored, and it is
  final; living streams are not failed; positions have no gaps;
* continuation: one request at a time resumes a turn; claims come back;
* tasks: one worker at a time, for keys that no entry claims; a bounded number of starts; results stand;
* journal: each event once and in order; a client is let go, and told the truth;
* broker: no false timeout, no truncated output, no dead command sent; the tool
  call ends;
* schedules: one run at a time, a tick starts the agent once, an outcome is final,
  an active schedule is not left without a time to fire, every run ends;
* tool loop: every declared call is answered in its place; an effect is in the log;
  settled attempts stay, open ones get settled;
* ingest: a run that is done left the whole of its text; a part never looks ready,
  and nothing looks in progress for ever.

## 2. Modules

| Module | Models |
|---|---|
| `TurnPromise` | abstract: what is promised about turns (absent, open, answered, failed, revoked, dropped) |
| `TurnLifecycle` | turn + continuation + streams + reconciler + janitor of one conversation; implements `TurnPromise` |
| `TurnLifecycleProofs` | its proofs |
| `TaskLease` | one key of `task_dedup` with its messages and workers |
| `TaskLeaseProofs` | its proofs |
| `StreamJournal` | the journal of one message, its streams and reconnecting clients |
| `StreamJournalProofs` | its types and the order of the journal |
| `StreamReplayProofs` | what its clients see and are told |
| `DeviceBroker` | one device, its tool calls and its sessions |
| `DeviceBrokerProofs` | its proofs |
| `ScheduleRuns` | one schedule, its runs, their messages and workers, the user and the sweeps |
| `ScheduleRunsProofs` | its proofs |
| `ToolCalls` | the tool loop of one run with its pauses and resumes, and the attempt log |
| `ToolCallsProofs` | its proofs |
| `IngestIndex` | the index of one source, the runs that build it, and what the user is shown |
| `IngestIndexProofs` | its proofs |
| `MC*` | instances for TLC: symmetry sets, constraints and casts (section 3) |

Conventions. One database transaction, or one Redis command, is one action;
two transactions are two actions with everybody else in between. Time is not a
clock: each comparison the SQL makes with `now()` is a flag or an age that an
action of its own moves (`HeartbeatAges`, `ClaimAges`, `StateExpires`,
`LeaseAges`, `Deadline`). Where the code relates two spans (a 30 s heartbeat
against a 60 s lease) the ageing action is guarded so that a live heartbeat is
not overtaken, and the constant `Blips` removes that guard. Payloads are names.
A definition that begins "Mutant:" is a variant of the next one with a
plausible bug; it is used only to see that the property it names can fail.

### TurnLifecycle

`row[m]` is the message row: `status`, `position`, `cause` of a failure,
`cleared` (`reconciler_cleared_approval`), `fresh` (heartbeat within 5 minutes),
`seen` and `attempts` (the reconciler's counter and the heartbeat it last saw),
`toolRecent` (a live tool attempt within 15 minutes). `pts` is the conversation's
`pending_tool_state` row. `stream[s]` is one request in `complete_stream`.
`tombstones` is `superseded_messages`, where a truncation leaves the ids it
deleted; `retiring` is what the janitor still has to fail after its commit.

| Code | Action |
|---|---|
| `save_user_question`, `reserve_message`, `truncate_after` | `StartTurn` (with `NewRow`, `NextPosition`, `Entombed`) |
| `_mark_streaming_once`, `_tick` | `FirstChunk`, `Tick`, `TickerCeiling` |
| pause branch | `Pause` or `PauseUnsaved`, then the tail, `EndPause` |
| `claim_state`, `resume_from_tool_actions` | `ClaimResume`, `ResumeRefused`, `BeginResume` |
| normal end | `Finish`, then `DropState` |
| `GeneratorExit` (also in the tail of a pause), cancelled by a truncation | `Abort`, `Superseded` |
| exception | `Fail`, then `FailRow` |
| `update_message_by_id`'s gate and outcome | `MayFinalize`, `FinalizeOutcome`, `Finalized` |
| sweep Q1 | `Reconcile` (with `Stuck`, `Attempts`) |
| `cleanup_pending_tool_state` | `JanitorSweep`, then `JanitorRetire`; `JanitorCrash` in between |

The state the journal, the title thread or the token counters keep is left out;
so are conversations other than one. A stream may crash at any point.

### TaskLease

`dedup` is the row of the key, `task[t]` a Celery message and the worker that has
it, `starts` how often the body started since the row was claimed. `Lookup`,
`ClaimLease`, `ClaimUnleased`, `Defer`, `Poison`, `Finish`, `Raise` and `Crash` follow
`with_idempotency`; `HttpClaim`, `Enqueue`, `EnqueueFails` and `Dispatch` follow the
HTTP entries; `Reconcile` is Q5 and `CleanupExpired` the hourly beat. Keys that an entry claims
(upload, webhook) and keys it does not (reingest, wiki, graph) are the two values
of `Claims`.

### StreamJournal

`stream[w]` has the numbering, buffer and exit path of one `complete_stream`;
`journal` maps sequence numbers to events (natural numbers without a bound; what
bounds them in a run is `MaxEmits`); `client[r]` is one
`build_message_event_stream_async`: its backlog, floor, channel and cursor. A
continuation numbers its events from the journal's high-water mark (`Resume`);
when the paused stream has not yet closed, both race, and `BulkRecorded` and
`InsertRow` follow the collision path. `Close`, `Abort` and `Fail` each have their
own order of finalize and last flush. The process may `Crash`; a retry may delete
the row.

### DeviceBroker

`call[i]` is the tool's thread (`dispatch_invocation`, `_collect_result`,
`drain_output`, `cleanup_invocation`), one Redis command per action. `cli[i]` is
the device: external, it may post for what it has received at any time or never.
`session[s]` is one SSE request from `validate_ticket` to `close_session`;
`registry[p]` the two maps of a process. `session[s].up` says whether the socket
is still there; the generator learns it at its next yield.

### ScheduleRuns

`now` counts minutes or so; the cron expression fires at the multiples of `Period`.
`schedule` is the row of `schedules` (`next` is `next_run_at`, `Never` its NULL),
`run[r]` a row of `schedule_runs` with its time `due` and the flag `late` of the 15
minutes, `queue` the runs whose message waits, `worker[w]` what a worker keeps of
the rows it loaded. `edit` is a PATCH between its SELECT and its UPDATE.

| Code | Action |
|---|---|
| `dispatch_due_runs` | `Dispatch` = `SkipMissed`, `SkipOverlap`, `Fire` (with `Advanced`, `Enqueued`) |
| `POST .../run` | `RunNow` |
| `PATCH` | `Pause`, `ResumeRecurring`, `ResumeOnce`, then `EditWrites` |
| `PUT` of a cron, a time zone, an end | `Put` |
| the scheduler tool's cancel; deletion | `Cancel`, `Delete` |
| `execute_scheduled_run_body` | `Load`, then `Refuse` or `Begin`, `Finish` (with `AfterRun`), `Append` |
| an exception or the time limit; a killed worker; the visibility timeout | `Raise`, `Crash`, `Redeliver` |
| sweeps Q6 and Q7 | `FailStuckRunning`, `FailStuckPending` (with `Bumped`, `Flipped`) |

The dispatcher commits before it sends: `Fire` either enqueues or does not. The
tool calls, tokens and output of a run are left out, as are quotas, other
schedules, and `chat_id` conversations other than the schedule's own.

### ToolCalls

`loop` is the generator stack of one run: what remains of the batch (`todo`), what
waits for the client (`pending`), the batch's assistant message (`batch`), the round,
and `pc`, which is the place between two steps another actor can see. `history` is
`messages`, of which only the role and the call ids are kept; `saved` what a pause
stored; `attempt[c]` the row of `tool_call_attempts`. A run is a chat or headless.

| Code | Action |
|---|---|
| `handle_tool_calls`, `_declare_call`, the cap | `CallsTools`, `Start`, `AnswerCall`, `NextRequest` |
| the empty answer's second chance | `Recover` |
| compression and truncation in mid-batch | `Compress`, `Skip` |
| `check_pause`, the pause of `handle_streaming` | `LeavePending`, `Pause` |
| `gen_continuation` | `Resume`, `Settle`, `Continue` |
| `ToolExecutor.execute`, `_record_proposed`, `_mark_executed`, `_mark_failed` | `Propose`, `Run`, `MarkExecuted`, `MarkFailed` |
| `confirm_executed_tool_calls` in the finalize | `Answer` (with `Finalized`) |
| sweeps Q2 and Q3 | `FailProposed`, `FailExecuted` |

`Fail`, `Crash`, `Revert`, `FailRow` and `Truncate` are what the turn's other actors
do, cut down from `TurnLifecycle` to what the loop and the log can see of it.

Left out: the text of results, artifacts and sources; `_enforce_context_window`,
which may drop whole old exchanges; the non-streaming handler, which does not look
at `context_limit_reached`. What a client posts is taken to be well formed. An id
used again in a later round shares its row, and a headless run's key is the bare
id, as in the code. `_iteration` starts at 0 again on a resume. A resume that is
tried again may run an approved tool twice: the code allows it and no property
forbids it.

### IngestIndex

`row` is the one row of `ingest_chunk_progress` (`run` is its `attempt_id`, `late`
stands for the 30 minutes of sweep Q4), `index` the set of stored chunks, each
named by the run that found it, `work[r]` where a run stands, `memory[r]` the FAISS
index it has built. `First` is the upload, with its retries; the others are syncs.
`files` is the source's `directory_structure` (the places of a file's chunks),
`reingest` a message for the worker of a reingest.

| Code | Action |
|---|---|
| download, parse, chunk | `LoadFails` |
| `_init_progress_and_resume_index`, `init_progress` | `Start`, `StartBlind` (with `InitProgress`) |
| `embed_and_store_documents`, before the loop | `OpenExternal`, `SeedFaiss`, `LoadFaiss`, `OpenFails` |
| the loop | `Embed`, `Record`, `ChunkFails` |
| after the loop | `Save`, `Abort`, `SaveFails`, `Check`, `Finish`, `FinishFails` |
| Celery's retry or the sync's return | `Raised` |
| a killed worker | `Crash` |
| sync | `Sync` |
| reingest: the route; its worker | `Reingest`; `ReingestIdle`, `ReingestEdits` (with `Found`) |
| heartbeat thread; sweep Q4 | `Beat`; `RowAges`, `Stall` |
| `_ingest_status_case` | `Shown` |

A retry is taken to find the same chunks in the same order, and one worker at a time
to run a task. For uploads, whose keys are claimed, the second is an assumption:
`OneRunner` is about other keys, and `LeasePoison` and `LeaseRefusal` show how a
claimed one can be run twice. The worker of a reingest is one step: from its first
edit on no safety property speaks of the source's runs, so that none depends on how
its edits interleave with others. Stored chunks are a set: a chunk
embedded twice (a crash between `Embed` and `Record` on an external store) is not
told from one embedded once. `spoiled` collects the runs that one of the
disturbances has met for which the code is known to fail (next section); the
properties speak of the others.

## 3. Runs

Bounds are constants of the `.cfg` files. All runs set `CHECK_DEADLOCK FALSE`: a
system whose requests are all answered, and whose bounded supply of requests is
used up, stops.

| Run | Instance | Shows |
|---|---|---|
| `turn_safety` | 2 turns, 3 streams, 2 sweeps to fail; no tool calls, no blips, resumes within the grace | types, positions, revoked turns, no orphaned answer, one answer, one resumer, the reconciler spares the living |
| `turn_liveness` | 2 turns, 2 streams, 1 tool call, slow resumes, no blips, fairness | `TurnPromise` implemented, claims return |
| `lease_claimed` | 3 messages, 1 retry, claims, refusals, ageing, lost writes | types, results stand |
| `lease_unclaimed` | 2 messages, the code's limits (5, 3, 10), fairness | one runner of an unclaimed key, a crash loop ends |
| `journal_replay` | one stream of 3 events in batches of 2 with 2 clients, or two shorter streams that race | exact replay, true `end`, order of emission; replay of messages that were not resumed |
| `journal_liveness` | 1 stream, 1 client, everything may be lost | clients are let go |
| `broker_calls` | 2 calls, 1 session, 1 chunk | no false timeout, whole output, dead commands stay in |
| `broker_liveness` | 1 call, 2 sessions, 1 ticket, faults, crashes, fairness | one live session, found by the maps; the tool call ends |
| `schedule_safety` | 2 runs, 2 workers, ticks at 2 and 4, either kind, an end at 4 set and cleared, 1 double delivery | no overlap, one start per tick, final outcomes, true answers, how a schedule comes to have nothing to fire |
| `schedule_liveness` | 2 runs, 1 worker, an end at 1 set and cleared, fairness | every run ends; a one-time schedule is not active for ever |
| `tool_calls` | 2 call ids, batches of 2, 2 rounds, 1 resume, chat and headless, fairness of the sweeps | paired history, effects in the log, settled rows stay, open ones get settled |
| `ingest_index` | 1 upload with 1 retry and 2 deliveries, 1 sync, 2 chunks, both stores and loaders, all faults, reingests, fairness | whole index, a part never looks ready, nothing in progress for ever |

Why these bounds are enough to be interesting: two turns are needed for a retry
that cuts one of them and three streams for a paused turn, its resume and a retry
that overtakes it. A tool call in the safety run (992,675 states, with one attempt of
the reconciler) and blips in the liveness run without one (219,821) pass as well. The
exception of `OneResumer`, the claim released by the resume of another turn, takes five
streams, which `TurnTwoResumers` has and the proof includes. Two messages give a holder and a successor, three also a deferred one;
`lease_unclaimed` runs with the real limits, since the interplay of the 5
attempts, 3 retries and 10 deferrals is the question. Batches of two with three
events leave a buffered tail behind a flushed batch. Two sessions give a
replaced one and its replacement, of which one may hold the ticket and the other a
made-up id.

A tick, a manual run and an edit between them need two rows and two ticks; an end
at the second tick gives the last one. Two call ids give a batch of two, and a second
round that uses one again. Two chunks give a first, recorded at once by FAISS, and a
last; two runs a checkpoint of another task. Larger instances of the ingest pass as
well: two retries (754,786 states), and three runs over an external store with
remote text, no retries and the faults `init`, `crash` and `overlap` (6.9 million).

Some hazards are not explored together, since that would take hours. The two safety
runs `journal_replay` and `schedule_safety` have a state constraint `Apart`: once a
continuation runs nobody reconnects and streams are shorter; while a PATCH has read
and not written, one worker is at work and messages come once. (`schedule_safety`
passes with one more unit of time as well: 2,332,038 states.) `MCToolCalls`, which also checks
a liveness property, has instead a variable `cast`, chosen in the initial state: the
messages of batches while the log works, or the log of one call after the other
while everything about it fails. The proofs have neither.

Symmetry is used for safety only. Blips and slow resumes are switched off where a
run's property assumes it and named in the property's comment.

Properties are stated at hazards. What they except is what the runs of the next
section show. `TypeOK` apart, each takes several steps of
several actors to break, and for each a mutant of a mapped definition breaks it.

### Where the code and its comments disagree

Each of these configurations states what a comment or docstring says, and TLC finds
it false of the code. They lie beside the listed runs and are run by hand, as
`tlc -config X.cfg M` with `M` the `MC` module of their part (`JournalLag` and
`JournalResume` with `StreamJournal`, `ToolAbandoned` with `ToolCalls`).

| Configuration | Property | Code | What happens |
|---|---|---|---|
| `TurnAbortedResume` | `ClaimableTurnTakesAnswer` | `base.py:1372` | a stream aborted in the tail of its pause, or an aborted resume, leaves a turn that is offered for a resume, but whose row takes no answer |
| `LeaseStranded` | `PendingIsBacked` | `idempotency.py:120` | after Celery's last retry the row stays pending for 24 h |
| `JournalTail` | `EndIsWhole` | `event_replay.py:156` | a client is told `end` before the tail is in the journal |
| `TurnLongResume` | `RevertsOnlyAbandoned` | `pending_tool_state.py:246` | a live resume of more than 600 s loses its claim, which the module calls "abandoned" |
| `TurnForeignRelease` | `ReleasesOwnClaim` | `pending_tool_state.py:212` | a failing resume releases the claim of another turn's resume; the docstring speaks of "the process that TOOK the claim" |
| `TurnTwoResumers` | `SoleResumer` | `pending_tool_state.py:220` | as a consequence two requests resume one turn, although the second should learn that "another request already owns a continuation claim" (`continuation_service.py:35`) |
| `TurnExpiredClaim` | `ExpiresOnlyUnresumed` | `pending_tool_state.py:268` | a running resume is failed as "expired before resume" |
| `LeaseStaleResult` | `GivesUpOnlyToLease` | `repositories/idempotency.py:204` | a day-old result makes new messages give up, as if "a different worker holds a live lease" |
| `LeaseCleanup` | `CleanupSparesRunning` | `repositories/idempotency.py:327` | the "pure housekeeping" deletes a lease in use |
| `LeaseRefusal` | `RefusalSparesRunning` | `upload.py:150` | a refused upload deletes a lease in use |
| `LeasePoison` | `PoisonFailsOwn` | `idempotency.py:105` | the guard of an old message fails a new claim |
| `JournalLag` | `JournalLagBounded` | `message_journal.py:292` | events wait in the buffer as long as the agent is silent, not "≤100ms" |
| `JournalResume` | `ResumeEndsWithOwn` | `async_event_replay.py:136` | the pause's `end` closes the resumed stream's client |
| `BrokerClosed` | `ClosedTakesNothing` | `broker.py:187` | a replaced session takes a command with it, although queued ones "are picked up by the next session" |
| `BrokerExit` | `ExitClosesOwn` | `broker.py:136` | an old session's exit closes its replacement |
| `BrokerAudit` | `AuditShowsOutcome` | `remote_device.py:192` | a quick denial leaves its audit row "dispatched" |
| `ToolAbandoned` | `AbandonedHadNoEffect` | `reconciliation.py:178` | a proposed call of a dead stream is failed since "no side effect was committed", also when the tool had run |
| `IngestBlind` | `DoneIsWhole` | `embedding_pipeline.py:82` | after a blip in `init_progress` a retry goes on from a checkpoint whose chunks are gone, and a part is "cached as complete" |
| `IngestFaiss` | `DoneIsWhole` | `embedding_pipeline.py:230` | the chunks of a killed run were never saved; they do not "survive into the new save" |
| `IngestOverlap` | `DoneIsWhole` | `embedding_pipeline.py:82` | two syncs at work together empty and fill one index |
| `IngestLostFile` | `ReingestRemovesDeleted` | `worker.py:290` | a file that a reingest fails to read is passed over and taken for a deleted one: its chunks are removed, and the source looks ready |
| `ScheduleIdle` | `NullIsPastEnd` | `scheduler_dispatcher.py:49` | the last tick before `end_at` is skipped for an active run, and a `PUT` then clears the end without computing a tick: active, no end, no `next_run_at`, which `_compute_next` keeps for schedules "past end_at" |
| `ScheduleIdle` | `OverlapIsFlipped` | `scheduler_dispatcher.py:133` | the run that holds up a one-time schedule "will terminal-flip" it "when it finishes"; a manual run does not (`scheduler_worker.py:385`), and the schedule stays active without a time |
| `IngestShown` | `PartialIsNeverReady` | `sources/routes.py:447` | a reingest, meant "to recover a stalled embed", drops the row, and the part that is left looks ready |
| `IngestShown` | `DoneIsReady` | `sources.py:114` | a remote ingest has no heartbeat: a slow one is called stalled, and is shown as failed after it has completed |

Two configurations check two properties each; `tlc -continue` shows both violated. With
a file upload, which has a heartbeat (`Loaders = {"file"}`), `DoneIsReady` holds, also
with crashes.

Also met while modelling, without a run of their own:

* Schedules. When the last tick before `end_at` is claimed, the schedule becomes
  `completed` at once, and the worker, which refuses runs of completed schedules,
  skips that run. A worker decides on the copy it loaded, so a
  one-time schedule that was cancelled or set anew meanwhile still ends `completed`.
  A message delivered twice may overwrite an outcome with `skipped`. Sweeps Q6 and Q7
  count a failure but never pause the schedule. The limit of 50 schedules is looked
  at in one transaction and used in another; a `token_usage` row that cannot be
  written is only logged.
* Ingest. A reingest of a remote source fails at once: its `file_path` is NULL, which
  `is_directory` does not take. On FAISS, a
  first upload that is killed has a checkpoint and no stored index; every retry
  that resumes fails to load it, until the retries are used up.

One more divergence needs no run: `idempotency.py:26` calls ten deferrals of
60 s "≈ 5 min".

## 4. Fairness

* Turn: the two Celery beats (`Reconcile`, `JanitorSweep`, `JanitorRetire`) and the
  passing of time are weakly fair, and a heartbeat thread gives up at its
  ceiling. Streams owe nothing: they may hang or die. This is what the beat
  schedule gives, and it is enough for `KeepsPromise` and `ClaimsReturn`.
* Task: Celery delivers what is queued; a worker that runs a body returns, raises
  or dies; the lease ages; Q5 runs. Taking or deferring to a lease is strongly
  fair, because it is disabled and enabled again as other workers come and go,
  and each retry is a fresh delivery by the broker.
* Journal: a stream's own flush goes on once begun; a client's coroutine runs. The
  stream itself may stop.
* Broker: the tool's thread runs and its deadline comes. Nothing is asked of the
  device, the session or Redis.
* Schedules: the beat's tick and sweeps come back, time passes for a row that waits
  or runs, a request that began writes, and a worker goes on, raises or dies, as its
  time limits see to. The broker owes nothing: a message may be lost.
* Tools: only time and the sweeps. The process, the model, the tool and the client
  may stop anywhere.
* Ingest: every call of a run returns or raises, time passes, Q4 comes back. Nobody
  has to start a queued run, or to retry.

## 5. Proofs

TLAPS checks the theorems for every value of the constants that satisfies each
module's `ConstantsAssumption` (bounds are natural numbers or positive, model
values are distinct from the special ones; `TaskLease` needs
`MaxRetries <= LeaseRetryMax`). A theorem that needs more, as that no database or
Redis command fails, says so in its own `ASSUME` or premise.

**TurnLifecycleProofs.** Four layers. The second rests on the first, the third and
the fourth on both.

1. `RowInv` = `TypeOK`, `IdleIsIdle` (a request that has not started has done
   nothing), `Layout` (the stored positions are `0..n-1`, pairwise distinct) and
   `RevokedByReconciler`. `TypeOK` alone is not inductive: a new row's position is
   a natural number only because the stored ones are an initial segment, and a
   truncation preserves that only because it cuts from a position upwards.
   `PositionsContiguous` then follows by counting. `RevokedByReconciler` records
   that a cleared row is failed by the reconciler, which is what the reclaim
   hole of `update_message_by_id` excludes. The actions are reduced to a few
   shapes of row write (`Shape`), so that each conjunct is shown once for each
   shape. Gives `TypeCorrect`, `PositionsStayContiguous`, `RevokedStayFailed`.
2. `AnswerInv` adds `References` (what a request or the continuation refers to was
   reserved; a deleted row left its tombstone) to `NoOrphanedAnswer` and
   `OneAnswerLands`. `References` is what makes the second step of the argument
   work: a finalize that finds nothing must be looking at a deleted row, not at
   one never made. Gives `NoAnswerOrphaned` and `AtMostOneAnswerLands`.
3. `ClaimInv`, for resumes that end within the grace (`~SlowResume`): of the requests
   of one turn, originals and resumes, at most one is at work, and while the turn's
   continuation is stored that one holds the claim (`SoleWorker`). At work is a
   request in its loop or finalizing, not one in the tail of its pause: that one has
   offered the turn, and if it is aborted it settles the row beside the resume, which
   is what `AnswerInv` is about. A live claim is
   not overdue (`ClaimInTime`); who released a claim is on the way out. `OneResumer`
   alone is not inductive: an original still at work could pause and offer the turn
   again, and of a pending continuation nobody may be at work. The step that resists
   is `Fail`: `release_claim` goes by conversation, so the resume of one turn can
   release the claim on another. `SoleWorker` is therefore claimed of the turns for
   which that has not happened (`ForeignReleased`), and so is `OneResumer`; that the
   exception is real shows `TurnTwoResumers`. Gives `ClaimsAlways` and `ResumedByOne`.
4. `LivingFresh` (without blips, the open row of a ticking request is fresh) gives
   `LivingAreSpared`; and `ImplementsPromise` shows that each step of
   `TurnLifecycle` is a step of `TurnPromise` or a stutter under `TurnPhase`, with
   `AnswerInv` to exclude the states where it would not be.

**TaskLeaseProofs.** `TypeCorrect`; `StartsAreBounded` from `StartsCounted` (the
attempts column bounds the starts since the row was made or claimed);
`ResultsStand`, an action property; and `OneRunnerHolds` from `LeaseInv`, for keys
that no entry claims and rows younger than their TTL (`Unclaimed`): a message that runs, or is
about to be given up, holds a live lease in its own name (`HoldsLease`), and a
failed row has used up its attempts (`FailedIsExhausted`), so that nobody starts
the body on it. The theorem has these conditions because `LeaseCleanup`,
`LeaseRefusal` and `LeasePoison` show what happens without them. `StartsAreBounded`
assumes that no write of a lease is lost (`~Blips`): a body that runs without a
lease is not counted.

**ScheduleRunsProofs.** `IInv` has three layers. `RowInv`: an unused row is fresh,
a deleted schedule has no rows, every tick has one row (`TicksHaveOneRow`, the unique
index), and a row that still waits has not started (`StartedOnce`). `MessageInv`: a
run whose message came once is in one place, the queue or one worker, and what that
worker believes of the row still holds (`LoadedRows`, `RunningRows`, `AppendRows`).
`AnswerInv`: one worker at most is past `mark_running` for a run (`OnePast`), and who
answers has started. `OneActiveRun` needs only the rows: each insert is guarded by
the lock. The actions are reduced to the few things that can happen to one row
(`RowSteps`: inserted, removed, aged, begun, ended, given up), so that each conjunct
is shown once for each. `KeepsFiring` is about steps: of those that could leave a
recurring schedule active without a next tick, a PATCH carries one (`EditsGoOn`), a PUT
computes one or leaves it alone, the dispatcher completes the schedule at its end, and
what remains is the last tick that is skipped (`StalledStep`). `OutcomesStand` follows
from `RunningRows` and `AppendRows`.

**ToolCallsProofs.** `IInv` is `TypeOK`, `BelowCap`, `HasCall` (at the steps of a call
there is one), `Owners`, `ProposedIsOwn` (who believes to have proposed a row finds
it proposed by itself, or settled by the reconciler) and `EffectsAreLogged`. Type
correctness is not free: that `round` stays at or below the cap needs `BelowCap`.
`RoundsCapped` follows from it, and is only a theorem, since no plausible bug but
the removal of the cap breaks it. `RowSteps` says what may happen to one attempt.

`MessagesInv` is about the messages, for any length of history and batch. When a
request may be sent they are whole (`AskedIsWhole`); at work on a batch they are whole
too, since `_declare_call` grows the assistant message with each answer, and the calls
still to come are others than those declared (`BatchIsOpen`); at work on a resume they
are the saved messages, the declaration of what was pending, and the answers so far,
in its order (`ResumeIsOpen`); and what a pause saves is whole, with distinct pending
ids (`SavedIsWhole`). Where an answer belongs is said by its place: the answer to the
`k`-th call of the assistant message at `i` is the message at `i + k`. That turns an
induction over the history into a statement about positions (`WholeTo`), which an
append extends by one. `RequestsArePaired` is `HistoryIsPaired` without a further hypothesis: resumes,
compression in mid-batch, denials and the cap are included.

**StreamJournalProofs.** `Typed` is `TypeOK` and what the types need: a writer that
has committed has work left, one that is not ready has no buffer, an ended one neither
(`ShapeOf`), and the journal's numbers have a bound. Gives `TypeCorrect`. `OrderInv`,
while no database call fails (`~Blips`), says that the journal is `0..K-1` without a
gap, and of each stream that what it still has to commit is numbered consecutively up
to its counter (`Numbered`) and starts at or before `K` (`InSync`): a bulk commit
that does not collide therefore lands exactly at the end (`InsertedAtTip`), and one
that does is rewritten at the end, row by row. Every commit appends frames of one
stream that are younger than all of that stream's in the journal (`Behind`), which is
`EmissionOrder` (`JournalInOrder`): any number of streams may race.

**StreamReplayProofs.** `OneLine`: of a message that was not resumed and whose row is
still there, everything is a stretch of one line of events. The journal is its first
`K` events, the writer's buffer the rest (`Carries`), every inbox a stretch that ends
where publishing has got to, and begins at or before the client's cursor (`Follows`).
So an event is in a client's snapshot, in its inbox, or still to be published to it,
and an overlap is what the dedup floor drops. A terminal event lies after the cursor
of every client that still listens (`Told`), and an `end` in the line means that the
answer was saved or the turn paused (`Honest`). Gives `ReplayExact` and `EndTrue`. The
hypotheses are those of the run `journal_replay`: no database call fails and Redis
loses nothing (`~Blips`, `~Drops`; with either an event may never be shown, and the
client is let go by the watchdog). `ReplayExact` is about messages that were not
resumed (`NotResumed`): of a resumed one the journal is two lines, and
`JournalResume` shows what a client may then see. `EndTrue` needs no such premise.

**IngestIndexProofs.** Chunks of a run are initial segments (`Part(r, n)`). `IInv` is
`TypeOK`, `InRange`, `RowIsLatest` (the row is that of the run that began last, or
there is none), `Alone` (an undisturbed latest run works alone) and
`LatestIsSound`: of an undisturbed latest run, the row is never ahead of the work
(`RowBehind`), what is stored includes what the row counts (`Kept`), a run that
resumes finds what it relies on (`Resumed`), and what it has built is exactly the
chunks up to where it stands (`Built`). `DoneIsComplete` and `PartialIsSeen` follow.
The proof shows why the order embed, record, save before the error is raised
matters: each conjunct breaks when two of these steps change places. A reingest that
finds all files leaves the index alone; one that does not disturbs the run.

**DeviceBrokerProofs.** `Base` is the types with `StreamInv`, inductive together: the
stream of an invocation is the device's output and then its verdict (`StreamOf`), the
mark follows the verdict (`VerdictOf`), and until it has a result the tool has read
output only (`CursorOf`); without the last the count of chunks has no bound, so types
alone are not inductive. `OneLiveSession` is inductive on top of the types: the proof
has work to do in `Register` and `Leave` only, and shows why a session must be looked
up by its id and the process's latest cleared only if it is that one. `Delivery` says
that an envelope is queued once or held by one generator, and that nothing of it has
reached the device then; `LREM` and `RPUSH` keep that by lemmas about sequences
(`UnqueuedCuts`, `AppendPlaces`). `Reports`, for runs in which no Redis command fails
(`~Faults`; the types, `OneLiveSession` and the run `broker_liveness` are about
failing ones too), adds that the last sweep follows the verdict's mark or the deadline, that a
mark in time stays until the reap, and that a reaped call's hash is gone unless the
device has its envelope. From it: `BrokerTimeoutIsTrue`, `BrokerOutputIsWhole` (the
verdict is the last of the stream, `TookVerdict`; with a mark the sweep has something
to read, `VerdictUnread`) and `BrokerReapedStayIn`. The crash of a tool call and any
order of the device's requests are included.

**Model-checked only.** All liveness (`KeepsPromise`'s fairness part, `ClaimsReturn`,
`CrashLoopEnds`, `ReaderReleased`, `ToolEnds`, `RunsSettle`, `OnceSettles`,
`AttemptsSettle`, `ProcessingEnds`), which is out of the prover's reach. Every
invariant and safety property of a listed run has a theorem.

Smallest and largest numbers of a set (the high-water mark, the next row of a
snapshot) are taken from the well-foundedness of `<` on `Nat` and not by induction,
whose library theorems the provers cannot instantiate.

## 6. Not modelled, and the plan

Of the inventory's rows four are left, each a small module of its own:

1. the user event stream: the per-user backlog and channel. It is the journal's
   problem without numbering by the writer; one abstract exactly-once replay would
   be implemented by both;
2. `v1` idempotency and the webhook key, both over `task_dedup`: `TaskLease` with
   another claim;
3. the sandbox pool;
4. pairing codes.

Parts of modelled components that are left out: the conversation list, title and
compression of a turn; the audit and approval texts of a remote device; in the
ingest, the synchronisation of connectors file by file, and the upload and removal of
single files of a source (`manage_source_files`), which end in the same reingest.

Further theorems worth having: what a client that stays connected over a resume sees
(the second line of the journal after the first); `ClaimInv` without `~SlowResume`,
with the overdue claims excepted one by one; the fairness-free part of `CrashLoopEnds`,
that a message is delivered a bounded number of times.

Not to be modelled: most of the 107 000 lines are providers, parsers, retrieval,
connectors, CRUD routes, authorization predicates, migrations and the frontend:
conversions, one statement each, or remote calls. Their state machines, where they
have any, are the ones above; `PROJECT.json` gives the reason for each.
