------------------------------ MODULE ToolCalls ------------------------------
(***************************************************************************)
(* The tool loop of one agent run and the log of its calls.  The model     *)
(* answers a request with a batch of tool calls; each is executed, denied, *)
(* or left pending for the client, in which case the run pauses and a      *)
(* later request resumes it.  The messages of a batch are built so that    *)
(* every call the next request declares is answered in it.  Beside that,   *)
(* each execution is journalled in tool_call_attempts: proposed before the *)
(* tool runs, executed after it, confirmed when the turn's message is      *)
(* finalized; the reconciler fails what stays behind (sweeps Q2 and Q3).   *)
(*                                                                         *)
(* A run is of a chat, with a message row, or headless: a scheduled run or *)
(* a webhook, without one.  In a chat the key of an attempt has the        *)
(* message's id in it; headless keys are the model's bare call ids, which  *)
(* another user's run may have used too.                                   *)
(***************************************************************************)
EXTENDS Integers, Sequences, FiniteSets

CONSTANTS
    Call,           \* call ids; the model uses them again in later rounds
    Modes,          \* "chat", "headless": the kinds of run to look at
    MaxIterations,  \* MAX_TOOL_ITERATIONS
    MaxBatch,       \* bound: parallel calls
    MaxResumes,     \* bound: requests that resume the run
    Blips           \* may a write to the log fail?

ASSUME ConstantsAssumption ==
    /\ Modes \subseteq {"chat", "headless"}
    /\ {MaxIterations, MaxBatch} \subseteq Nat \ {0}
    /\ MaxResumes \in Nat
    /\ Blips \in BOOLEAN

VARIABLES
    mode,      \* what kind of run this is
    loop,      \* where the run stands
    history,   \* the messages since the prompt
    saved,     \* pending_tool_state: what a resume starts from
    turn,      \* the message row
    attempt,   \* tool_call_attempts
    ran,       \* how often the tool of a call had its effect (history)
    lost       \* calls whose effect could not be written down (history)

vars == <<mode, loop, history, saved, turn, attempt, ran, lost>>

-----------------------------------------------------------------------------
\* Types

\* "asks" needs the client or its approval, "broken" is a call that cannot be
\* resolved; the last three are what a client says of a pending call.
Todo == [id: Call, tool: {"plain", "asks", "broken", "approved", "denied", "result"}]

Message == [role: {"user", "assistant", "tool"}, calls: Seq(Call)]

TypeOK ==
    /\ mode \in {"chat", "headless"}
    /\ loop \in [pc: {"asked", "call", "propose", "run", "executed", "failed",
                      "answer", "raise", "paused", "over", "dead"},
                 round: 0..MaxIterations, offered: BOOLEAN,
                 full: BOOLEAN,         \* context_limit_reached
                 recovered: BOOLEAN, todo: Seq(Todo), pending: Seq(Call),
                 batch: Nat,            \* where its message is in history
                 acting: BOOLEAN,       \* on what the client said of a pause
                 proposed: BOOLEAN, resumes: 0..MaxResumes]
    /\ history \in Seq(Message)
    /\ saved \in [history: Seq(Message), pending: Seq(Call)]
    /\ turn \in {"open", "complete", "failed", "retryable", "gone"}
    /\ attempt \in [Call -> [status: {"none", "proposed", "executed", "confirmed", "failed"},
                             owner: {"own", "other"}, late: BOOLEAN]]
    /\ ran \in [Call -> Nat]
    /\ lost \in SUBSET Call

-----------------------------------------------------------------------------
\* Helpers

Chat == mode = "chat"

Current == Head(loop.todo)

Resumed == loop.resumes > 0

Assistant(calls) == [role |-> "assistant", calls |-> calls]

Answered(c) == [role |-> "tool", calls |-> <<c>>]

User == [role |-> "user", calls |-> <<>>]

\* _declare_call: the batch has one assistant message, made on first use.
Declared(msgs, batch, c) ==
    IF batch = 0
    THEN [history |-> Append(msgs, Assistant(<<c>>)), batch |-> Len(msgs) + 1]
    ELSE [history |-> [msgs EXCEPT ![batch].calls = Append(@, c)], batch |-> batch]

\* The next call, or what follows the last one, is at pc "call".
Done(l) == [l EXCEPT !.pc = "call", !.todo = Tail(@)]

\* Rows that a write on behalf of this run can see.
Journalled(c) == attempt[c].status # "none"

Writable == ~Chat \/ turn # "gone"

Logged(c, status) ==
    [attempt EXCEPT ![c] = [@ EXCEPT !.status = status, !.late = FALSE]]

\* A run without a message has nothing that would confirm the call later.
Executed == IF Chat THEN "executed" ELSE "confirmed"

Init ==
    /\ mode \in Modes
    /\ loop = [pc |-> "asked", round |-> 0, offered |-> TRUE, full |-> FALSE,
               recovered |-> FALSE, todo |-> <<>>, pending |-> <<>>,
               batch |-> 0, acting |-> FALSE, proposed |-> FALSE, resumes |-> 0]
    /\ history = <<User>>
    /\ saved = [history |-> <<>>, pending |-> <<>>]
    /\ turn = "open"
    /\ \E others \in SUBSET (IF Chat THEN {} ELSE Call) :
         attempt = [c \in Call |->
                      IF c \in others
                      THEN [status |-> "proposed", owner |-> "other", late |-> FALSE]
                      ELSE [status |-> "none", owner |-> "own", late |-> FALSE]]
    /\ ran = [c \in Call |-> 0]
    /\ lost = {}

-----------------------------------------------------------------------------
\* The model's answers

\* Mutant: the cap is not looked at.
NeverAtCap(round) == FALSE

AtCap(round) == round >= MaxIterations

\* A batch of calls; without tools on offer there are none.
CallsTools ==
    /\ loop.pc = "asked" /\ loop.offered
    /\ \E n \in 1..MaxBatch : \E batch \in [1..n -> [id: Call, tool: {"plain", "asks", "broken"}]] :
         /\ \A i, j \in 1..n : batch[i].id = batch[j].id => i = j
         /\ loop' = [loop EXCEPT !.pc = "call", !.todo = batch,
                                 !.pending = <<>>, !.batch = 0]
    /\ UNCHANGED <<mode, history, saved, turn, attempt, ran, lost>>

\* Thoughts and nothing else: the request is sent again, once.
Recover ==
    /\ loop.pc = "asked" /\ ~loop.recovered
    /\ loop' = [loop EXCEPT !.recovered = TRUE,
                            !.offered = ~AtCap(loop.round) /\ ~loop.full]
    /\ UNCHANGED <<mode, history, saved, turn, attempt, ran, lost>>

\* update_message_by_id and, with it, confirm_executed_tool_calls.
Finalized(status) ==
    IF Chat /\ (turn = "open" \/ (turn = "retryable" /\ status = "complete"))
    THEN /\ turn' = status
         /\ attempt' = [c \in Call |->
              IF attempt[c].status = "executed"
              THEN [attempt[c] EXCEPT !.status = "confirmed", !.late = FALSE]
              ELSE attempt[c]]
    ELSE UNCHANGED <<turn, attempt>>

\* An answer ends the run.
Answer ==
    /\ loop.pc = "asked"
    /\ Finalized("complete")
    /\ loop' = [loop EXCEPT !.pc = "over"]
    /\ UNCHANGED <<mode, history, saved, ran, lost>>

\* The provider refuses, the context does not fit, or an approved tool of a
\* resume raised: the stream fails.  A resume gives its claim back.
Fail ==
    /\ loop.pc \in {"asked", "raise"}
    /\ Finalized(IF Resumed THEN "retryable" ELSE "failed")
    /\ loop' = [loop EXCEPT !.pc = IF Resumed THEN "paused" ELSE "over"]
    /\ UNCHANGED <<mode, history, saved, ran, lost>>

-----------------------------------------------------------------------------
\* handle_tool_calls, one call after the other

Looking == loop.pc = "call" /\ loop.todo # <<>>

FromModel == Looking /\ ~loop.acting

\* Mutant: the calls that are left go on to the old batch message.
CompressInPlace ==
    /\ FromModel /\ history # <<User>>
    /\ history' = <<User>>
    /\ loop' = [loop EXCEPT !.full = FALSE]
    /\ UNCHANGED <<mode, saved, turn, attempt, ran, lost>>

\* The context is full before this call: the messages are replaced by a
\* summary, which has no tool messages; the batch message is gone with them.
Compress ==
    /\ FromModel /\ history # <<User>>
    /\ history' = <<User>>
    /\ loop' = [loop EXCEPT !.full = FALSE, !.batch = 0]
    /\ UNCHANGED <<mode, saved, turn, attempt, ran, lost>>

\* ... or compression is off or failed: the calls that are left are skipped.
Skip ==
    /\ FromModel
    /\ loop' = [loop EXCEPT !.full = TRUE, !.todo = <<>>]
    /\ UNCHANGED <<mode, history, saved, turn, attempt, ran, lost>>

\* check_pause in a chat: the client has to do something first.
LeavePending ==
    /\ FromModel /\ Current.tool = "asks" /\ Chat
    /\ loop' = [Done(loop) EXCEPT !.pending = Append(@, Current.id)]
    /\ UNCHANGED <<mode, history, saved, turn, attempt, ran, lost>>

\* Everything else is journalled first: also what is denied because nobody is
\* there to ask, and what cannot be resolved.
Start ==
    /\ Looking
    /\ \/ Current.tool \in {"plain", "broken", "approved"}
       \/ (Current.tool = "asks" /\ ~Chat)
    /\ loop' = [loop EXCEPT !.pc = "propose"]
    /\ UNCHANGED <<mode, history, saved, turn, attempt, ran, lost>>

-----------------------------------------------------------------------------
\* ToolExecutor.execute

Runs(tool) == tool \in {"plain", "approved"}

\* _record_proposed: TRUE only for a row of this call's own.
Propose ==
    LET c == Current.id IN
    /\ loop.pc = "propose"
    /\ \/ /\ Writable /\ ~Journalled(c)
          /\ attempt' = Logged(c, "proposed")
          /\ loop' = [loop EXCEPT !.proposed = TRUE,
                        !.pc = IF Runs(Current.tool) THEN "run" ELSE "failed"]
       \/ /\ ~Writable \/ Journalled(c) \/ Blips
          /\ loop' = [loop EXCEPT !.proposed = FALSE,
                        !.pc = IF Runs(Current.tool) THEN "run" ELSE "answer"]
          /\ UNCHANGED attempt
    /\ UNCHANGED <<mode, history, saved, turn, ran, lost>>

\* What becomes of an exception: the loop answers the call with its text, a
\* resume lets it through.
Raised == IF loop.acting THEN "raise" ELSE "answer"

\* The tool runs.  It may raise, before its effect or after it, or turn out
\* not to have such an action, which leaves the row as it is.
Run ==
    LET c == Current.id
        Happens == ran' = [ran EXCEPT ![c] = IF @ < 2 THEN @ + 1 ELSE @]
    IN /\ loop.pc = "run"
       /\ \/ Happens /\ loop' = [loop EXCEPT !.pc = "executed"] /\ UNCHANGED lost
          \/ /\ \/ Happens /\ lost' = IF loop.proposed THEN lost ELSE lost \cup {c}
                \/ UNCHANGED <<ran, lost>>
             /\ loop' = [loop EXCEPT !.pc = IF loop.proposed THEN "failed" ELSE Raised]
          \/ loop' = [loop EXCEPT !.pc = Raised] /\ UNCHANGED <<ran, lost>>
       /\ UNCHANGED <<mode, history, saved, turn, attempt>>

\* Mutant: a lost proposed row is not made up for.
MarkUpdates(c) ==
    IF attempt[c].status = "proposed" /\ loop.proposed THEN Logged(c, Executed) ELSE attempt

\* Mutant: the guard on the status is missing.
MarkAlways(c) == Logged(c, Executed)

\* mark_executed, else upsert_executed: a row of one's own that is still
\* proposed, or a new one.
Mark(c) ==
    IF \/ attempt[c].status = "proposed" /\ attempt[c].owner = "own"
       \/ ~Journalled(c)
    THEN Logged(c, Executed)
    ELSE attempt

\* Errors are swallowed.
MarkExecuted ==
    LET c == Current.id IN
    /\ loop.pc = "executed"
    /\ \/ Writable /\ attempt' = Mark(c) /\ UNCHANGED lost
       \/ (~Writable \/ Blips) /\ lost' = lost \cup {c} /\ UNCHANGED attempt
    /\ loop' = [loop EXCEPT !.pc = "answer"]
    /\ UNCHANGED <<mode, history, saved, turn, ran>>

\* mark_failed, after an exception or at once for a call that does not run.
MarkFailed ==
    LET c == Current.id IN
    /\ loop.pc = "failed"
    /\ \/ attempt' = IF attempt[c].status = "proposed" THEN Logged(c, "failed") ELSE attempt
       \/ Blips /\ UNCHANGED attempt
    /\ loop' = [loop EXCEPT !.pc = IF Runs(Current.tool) THEN Raised ELSE "answer"]
    /\ UNCHANGED <<mode, history, saved, turn, ran, lost>>

\* The call joins the batch's message and its result follows.  On a resume
\* the calls are declared already.
AnswerCall ==
    LET c == Current.id
        said == IF loop.acting
                THEN [history |-> history, batch |-> loop.batch]
                ELSE Declared(history, loop.batch, c)
    IN /\ loop.pc = "answer"
       /\ history' = Append(said.history, Answered(c))
       /\ loop' = [Done(loop) EXCEPT !.batch = said.batch]
       /\ UNCHANGED <<mode, saved, turn, attempt, ran, lost>>

-----------------------------------------------------------------------------
\* After the last call, and after a pause

AllDone == loop.pc = "call" /\ loop.todo = <<>>

\* At the cap, or with the context full, the model is told to come to an end
\* and is offered no tools.
NextRequest ==
    LET round == loop.round + 1
        last == AtCap(round) \/ loop.full
    IN /\ AllDone /\ ~loop.acting /\ loop.pending = <<>>
       /\ history' = IF last THEN Append(history, User) ELSE history
       /\ loop' = [loop EXCEPT !.pc = "asked", !.round = round, !.offered = ~last]
       /\ UNCHANGED <<mode, saved, turn, attempt, ran, lost>>

Pause ==
    /\ AllDone /\ ~loop.acting /\ loop.pending # <<>>
    /\ saved' = [history |-> history, pending |-> loop.pending]
    /\ loop' = [loop EXCEPT !.pc = "paused"]
    /\ UNCHANGED <<mode, history, turn, attempt, ran, lost>>

\* gen_continuation: a new agent starts from the saved messages and declares
\* what is pending.  What the client says nothing of is denied.
Resume ==
    /\ loop.pc = "paused" /\ loop.resumes < MaxResumes
    /\ history' = Append(saved.history, Assistant(saved.pending))
    /\ \E said \in [DOMAIN saved.pending -> {"approved", "denied", "result"}] :
         loop' = [pc |-> "call", round |-> 0, offered |-> TRUE, full |-> FALSE,
                  recovered |-> FALSE, pending |-> <<>>, batch |-> 0,
                  acting |-> TRUE, proposed |-> FALSE,
                  resumes |-> loop.resumes + 1,
                  todo |-> [i \in DOMAIN said |->
                              [id |-> saved.pending[i], tool |-> said[i]]]]
    /\ UNCHANGED <<mode, saved, turn, attempt, ran, lost>>

\* A denial or a result of the client's.
Settle ==
    /\ Looking /\ Current.tool \in {"denied", "result"}
    /\ history' = Append(history, Answered(Current.id))
    /\ loop' = Done(loop)
    /\ UNCHANGED <<mode, saved, turn, attempt, ran, lost>>

\* The first request of a resume.
Continue ==
    /\ AllDone /\ loop.acting
    /\ loop' = [loop EXCEPT !.pc = "asked", !.acting = FALSE]
    /\ UNCHANGED <<mode, history, saved, turn, attempt, ran, lost>>

-----------------------------------------------------------------------------
\* The process, the message row, the reconciler

\* The process dies; what it holds in memory goes with it.
Crash ==
    /\ loop.pc \notin {"paused", "over", "dead"}
    /\ loop' = [loop EXCEPT !.pc = "dead"]
    /\ lost' = IF loop.pc = "executed" THEN lost \cup {Current.id} ELSE lost
    /\ UNCHANGED <<mode, history, saved, turn, attempt, ran>>

\* The janitor gives the claim of a dead resume back.
Revert ==
    /\ loop.pc = "dead" /\ Resumed
    /\ loop' = [loop EXCEPT !.pc = "paused"]
    /\ UNCHANGED <<mode, history, saved, turn, attempt, ran, lost>>

\* The reconciler fails the row of a dead process.
FailRow ==
    /\ loop.pc = "dead" /\ Chat /\ turn = "open"
    /\ turn' = "retryable"
    /\ UNCHANGED <<mode, loop, history, saved, attempt, ran, lost>>

\* The user goes back before this turn; its attempts stay, without it.
Truncate ==
    /\ Chat /\ turn # "gone"
    /\ turn' = "gone"
    /\ UNCHANGED <<mode, loop, history, saved, attempt, ran, lost>>

Open(c) == attempt[c].status \in {"proposed", "executed"}

\* Five minutes pass since the row was made, or fifteen since it was executed;
\* the tool may run as long.
AttemptAges(c) ==
    /\ Open(c) /\ ~attempt[c].late
    /\ attempt' = [attempt EXCEPT ![c].late = TRUE]
    /\ UNCHANGED <<mode, loop, history, saved, turn, ran, lost>>

FailProposed(c) ==
    /\ attempt[c].status = "proposed" /\ attempt[c].late
    /\ attempt' = Logged(c, "failed")
    /\ UNCHANGED <<mode, loop, history, saved, turn, ran, lost>>

\* Mutant: only rows whose message is still there are looked at.
FailExecutedKept(c) ==
    /\ turn # "gone"
    /\ attempt[c].status = "executed" /\ attempt[c].late
    /\ attempt' = Logged(c, "failed")
    /\ UNCHANGED <<mode, loop, history, saved, turn, ran, lost>>

FailExecuted(c) ==
    /\ attempt[c].status = "executed" /\ attempt[c].late
    /\ attempt' = Logged(c, "failed")
    /\ UNCHANGED <<mode, loop, history, saved, turn, ran, lost>>

-----------------------------------------------------------------------------
Loop == CallsTools \/ Recover \/ Answer \/ Fail \/ Compress \/ Skip
          \/ LeavePending \/ Start \/ Propose \/ Run \/ MarkExecuted
          \/ MarkFailed \/ AnswerCall \/ NextRequest \/ Pause \/ Resume
          \/ Settle \/ Continue

Sweep(c) == FailProposed(c) \/ FailExecuted(c)

Next == \/ Loop \/ Crash \/ Revert \/ FailRow \/ Truncate
        \/ \E c \in Call : AttemptAges(c) \/ Sweep(c)

\* Time passes and the reconciler's beat comes back.
Fairness == \A c \in Call : WF_vars(AttemptAges(c)) /\ WF_vars(Sweep(c))

Spec == Init /\ [][Next]_vars

FairSpec == Spec /\ Fairness

-----------------------------------------------------------------------------
\* Properties

\* Every request has, right after a message that declares calls, one answer to
\* each of them, and no other answers: a provider refuses anything else, and
\* the turn would be lost.  Denials, errors, a compression in the middle of a
\* batch, pauses and resumes all keep to it.
HistoryIsPaired ==
    LET Size(i) == Len(history[i].calls)
        Answers(i) == {history[i + k].calls[1] : k \in 1..Size(i)}
    IN loop.pc = "asked" =>
         /\ \A i \in DOMAIN history : history[i].role = "assistant" =>
              /\ i + Size(i) <= Len(history)
              /\ \A k \in 1..Size(i) : history[i + k].role = "tool"
              /\ \A k \in 1..Size(i) : history[i].calls[k] \in Answers(i)
              /\ Cardinality(Answers(i)) = Size(i)
         /\ \A i \in DOMAIN history : history[i].role = "tool" =>
              \E j \in 1..(i - 1) : /\ history[j].role = "assistant"
                                    /\ i <= j + Size(j)

\* One request executes a bounded number of batches, however it is sent
\* again: what the model says at the cap is not taken for calls.
RoundsCapped == loop.todo # <<>> => loop.round < MaxIterations

\* A tool that had its effect and returned is in the log, also when its proposal
\* could not be written.  Excepted (lost) are a call whose second write failed as
\* well or was cut off by a crash, and one whose proposal failed and that raised:
\* of that nothing more is written.
EffectsAreLogged ==
    \A c \in Call : ran[c] > 0 /\ c \notin lost
                      /\ ~(loop.pc = "executed" /\ Current.id = c)
        => Journalled(c)

\* A settled row is final, also for a call whose id is used again or whose
\* tool comes back after the reconciler gave it up; and another user's row,
\* which happens to have the same key, is only the reconciler's to change.
OthersAndSettledStay ==
    [][\A c \in Call :
         \/ attempt[c].status \in {"confirmed", "failed"}
         \/ attempt[c].owner = "other" /\ ~attempt[c].late
         => attempt'[c].status = attempt[c].status]_vars

\* No attempt stays open: finalize confirms it or the reconciler fails it.
AttemptsSettle == \A c \in Call : Open(c) ~> ~Open(c)

\* The reconciler says of a proposed call of an abandoned stream that "no side
\* effect was committed".
AbandonedHadNoEffect ==
    [][\A c \in Call :
         loop.pc = "dead" /\ attempt[c].status = "proposed"
           /\ attempt'[c].status = "failed"
         => ran[c] = 0]_vars
=============================================================================
