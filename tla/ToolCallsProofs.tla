---------------------------- MODULE ToolCallsProofs ----------------------------
(***************************************************************************)
(* Proofs about ToolCalls for any call ids, rounds, batches and resumes.   *)
(***************************************************************************)
EXTENDS ToolCalls, FiniteSetTheorems, SequenceTheorems, TLAPS

\* The parts of the type invariant that have several fields.
LoopState ==
    [pc: {"asked", "call", "propose", "run", "executed", "failed",
          "answer", "raise", "paused", "over", "dead"},
     round: 0..MaxIterations, offered: BOOLEAN, full: BOOLEAN,
     recovered: BOOLEAN, todo: Seq(Todo), pending: Seq(Call), batch: Nat,
     acting: BOOLEAN, proposed: BOOLEAN, resumes: 0..MaxResumes]

Attempt == [status: {"none", "proposed", "executed", "confirmed", "failed"},
            owner: {"own", "other"}, late: BOOLEAN]

\* The places between two requests, where calls are executed.
Executing == loop.pc \in {"call", "propose", "run", "executed", "failed",
                          "answer", "raise"}

\* Tools are offered, and calls executed, below the cap only.
BelowCap == loop.offered \/ Executing \/ loop.todo # <<>> => loop.round < MaxIterations

\* In the middle of execute there is a call at hand.
HasCall == loop.pc \in {"propose", "run", "executed", "failed", "answer"}
             => loop.todo # <<>>

\* What another user's run may have put in the log is in a headless run's way.
Owners == \A c \in Call :
    /\ attempt[c].status = "none" => attempt[c].owner = "own"
    /\ Chat => attempt[c].owner = "own"

\* A call that was proposed has a row of its own, and only such a row is
\* marked failed by the run.
ProposedIsOwn ==
    /\ loop.pc = "failed" => loop.proposed
    /\ loop.pc \in {"run", "executed", "failed"} /\ loop.proposed
         => Journalled(Current.id) /\ attempt[Current.id].owner = "own"

\* The inductive invariant.
IInv == /\ TypeOK /\ BelowCap /\ HasCall
        /\ Owners /\ ProposedIsOwn /\ EffectsAreLogged

-----------------------------------------------------------------------------
\* Types

LEMMA TypeOKSplit ==
    TypeOK <=> /\ mode \in {"chat", "headless"}
               /\ loop \in LoopState
               /\ history \in Seq(Message)
               /\ saved \in [history: Seq(Message), pending: Seq(Call)]
               /\ turn \in {"open", "complete", "failed", "retryable", "gone"}
               /\ attempt \in [Call -> Attempt]
               /\ ran \in [Call -> Nat]
               /\ lost \in SUBSET Call
  BY DEF TypeOK, LoopState, Attempt

\* The call at hand.
LEMMA CurrentTyped ==
    ASSUME TypeOK, HasCall,
           Looking \/ loop.pc \in {"propose", "run", "executed", "failed", "answer"}
    PROVE  /\ Current \in Todo /\ Current.id \in Call
           /\ Tail(loop.todo) \in Seq(Todo)
           /\ loop.todo # <<>>
  <1>1. loop.todo \in Seq(Todo) /\ loop.todo # <<>>
    BY DEF TypeOK, HasCall, Looking
  <1>2. /\ Head(loop.todo) \in Todo /\ Tail(loop.todo) \in Seq(Todo)
    BY <1>1, HeadTailProperties, Zenon
  <1>3. \A t \in Todo : t.id \in Call BY DEF Todo
  <1> QED BY <1>1, <1>2, <1>3 DEF Current

\* The messages after a call has joined its batch.
LEMMA DeclaredTyped ==
    ASSUME NEW msgs \in Seq(Message), NEW batch \in Nat, NEW c \in Call
    PROVE  /\ Declared(msgs, batch, c).history \in Seq(Message)
           /\ Declared(msgs, batch, c).batch \in Nat
  <1>1. CASE batch = 0
    <2>1. Assistant(<<c>>) \in Message BY DEF Assistant, Message
    <2>2. Append(msgs, Assistant(<<c>>)) \in Seq(Message)
      BY <2>1, AppendProperties
    <2>3. Len(msgs) + 1 \in Nat BY LenProperties
    <2> QED BY <1>1, <2>2, <2>3 DEF Declared
  <1>2. CASE batch # 0
    <2> DEFINE new == [msgs EXCEPT ![batch].calls = Append(@, c)]
    <2>1. Declared(msgs, batch, c).history = new /\ Declared(msgs, batch, c).batch = batch
      BY <1>2 DEF Declared
    <2>2. CASE batch \in 1..Len(msgs)
      <3> DEFINE m == [msgs[batch] EXCEPT !.calls = Append(@, c)]
      <3>1. msgs[batch] \in Message BY <2>2, ElementOfSeq
      <3>2. Append(msgs[batch].calls, c) \in Seq(Call)
        BY <3>1, AppendProperties DEF Message
      <3>3. m \in Message BY <3>1, <3>2 DEF Message
      <3>4. new = [msgs EXCEPT ![batch] = m] OBVIOUS
      <3> HIDE DEF m
      <3>5. [msgs EXCEPT ![batch] = m] \in Seq(Message)
        BY <2>2, <3>3, ExceptSeq, Zenon
      <3> QED BY <2>1, <3>4, <3>5
    <2>3. CASE batch \notin 1..Len(msgs)
      <3>1. DOMAIN msgs = 1..Len(msgs) BY LenProperties
      <3>2. new = msgs BY <2>3, <3>1, IsASeq
      <3> QED BY <2>1, <3>2
    <2> QED BY <2>2, <2>3
  <1> QED BY <1>1, <1>2

\* The loop goes on to the next call.
LEMMA DoneTyped ==
    ASSUME NEW l \in LoopState, Tail(l.todo) \in Seq(Todo)
    PROVE  /\ Done(l) \in LoopState
           /\ \A n \in Nat : [Done(l) EXCEPT !.batch = n] \in LoopState
           /\ \A p \in Seq(Call) : [Done(l) EXCEPT !.pending = p] \in LoopState
           /\ Done(l).todo = Tail(l.todo) /\ Done(l).pc = "call"
           /\ Done(l).round = l.round /\ Done(l).offered = l.offered
  BY DEF Done, LoopState

\* Every step of the loop leaves a state of the loop.
LEMMA LoopTyped ==
    ASSUME TypeOK, BelowCap, HasCall, [Next]_vars
    PROVE  loop' \in LoopState
  <1>1. /\ loop \in LoopState /\ history \in Seq(Message)
        /\ saved.pending \in Seq(Call)
    BY TypeOKSplit
  <1>2. /\ <<>> \in Seq(Todo) /\ <<>> \in Seq(Call) /\ 0 \in Nat
        /\ MaxIterations \in Nat /\ 0 \in 0..MaxIterations
    BY ConstantsAssumption, EmptySeq
  <1>3. CASE UNCHANGED loop BY <1>1, <1>3
  <1>4. CASE CallsTools
    <2>1. PICK n \in 1..MaxBatch :
            \E batch \in [1..n -> [id: Call, tool: {"plain", "asks", "broken"}]] :
              loop' = [loop EXCEPT !.pc = "call", !.todo = batch,
                                   !.pending = <<>>, !.batch = 0]
      BY <1>4 DEF CallsTools
    <2>2. PICK batch \in [1..n -> [id: Call, tool: {"plain", "asks", "broken"}]] :
            loop' = [loop EXCEPT !.pc = "call", !.todo = batch,
                                 !.pending = <<>>, !.batch = 0]
      BY <2>1
    <2>3. \A t \in [id: Call, tool: {"plain", "asks", "broken"}] : t \in Todo
      BY DEF Todo
    <2>4. batch \in [1..n -> Todo] /\ n \in Nat
      BY <2>3, ConstantsAssumption
    <2>5. batch \in Seq(Todo) BY <2>4, SeqDef
    <2> QED BY <1>1, <1>2, <2>2, <2>5 DEF LoopState
  <1>5. CASE Recover BY <1>1, <1>5 DEF Recover, LoopState, AtCap
  <1>6. CASE Answer \/ Fail BY <1>1, <1>6, ZenonT(40) DEF Answer, Fail, LoopState
  <1>7. CASE Compress \/ Skip
    BY <1>1, <1>2, <1>7, ZenonT(40) DEF Compress, Skip, LoopState
  <1>8. CASE LeavePending
    <2>1. Current.id \in Call /\ Tail(loop.todo) \in Seq(Todo)
      BY <1>8, CurrentTyped DEF LeavePending, FromModel
    <2>2. loop.pending \in Seq(Call) BY <1>1 DEF LoopState
    <2>3. Append(loop.pending, Current.id) \in Seq(Call)
      BY <2>1, <2>2, AppendProperties
    <2>4. loop' = [Done(loop) EXCEPT !.pending = Append(loop.pending, Current.id)]
      BY <1>1, <1>8 DEF LeavePending, Done, LoopState
    <2> QED BY <1>1, <2>1, <2>3, <2>4, DoneTyped
  <1>9. CASE Start BY <1>1, <1>9 DEF Start, LoopState
  <1>10. CASE Propose BY <1>1, <1>10, ZenonT(40) DEF Propose, LoopState
  <1>11. CASE Run BY <1>1, <1>11, ZenonT(40) DEF Run, Raised, LoopState
  <1>12. CASE MarkExecuted BY <1>1, <1>12 DEF MarkExecuted, LoopState
  <1>13. CASE MarkFailed BY <1>1, <1>13 DEF MarkFailed, Raised, LoopState
  <1>14. CASE AnswerCall
    <2> DEFINE said == IF loop.acting
                       THEN [history |-> history, batch |-> loop.batch]
                       ELSE Declared(history, loop.batch, Current.id)
    <2>1. Current.id \in Call /\ Tail(loop.todo) \in Seq(Todo)
      BY <1>14, CurrentTyped DEF AnswerCall
    <2>2. said.batch \in Nat BY <1>1, <2>1, DeclaredTyped DEF LoopState
    <2>3. loop' = [Done(loop) EXCEPT !.batch = said.batch] BY <1>14 DEF AnswerCall
    <2> HIDE DEF said
    <2> QED BY <1>1, <2>1, <2>2, <2>3, DoneTyped
  <1>15. CASE NextRequest
    <2>1. loop.round \in 0..MaxIterations /\ loop.round < MaxIterations
      BY <1>1, <1>15 DEF NextRequest, AllDone, BelowCap, Executing, LoopState
    <2>2. loop.round + 1 \in 0..MaxIterations BY <1>2, <2>1
    <2>3. \E b \in BOOLEAN : loop' = [loop EXCEPT !.pc = "asked", !.round = loop.round + 1,
                                                  !.offered = b]
      BY <1>1, <1>15 DEF NextRequest, AtCap, LoopState
    <2> QED BY <1>1, <2>2, <2>3, ZenonT(40) DEF LoopState
  <1>16. CASE Pause BY <1>1, <1>16 DEF Pause, LoopState
  <1>17. CASE Resume
    <2>1. PICK said \in [DOMAIN saved.pending -> {"approved", "denied", "result"}] :
            loop' = [pc |-> "call", round |-> 0, offered |-> TRUE, full |-> FALSE,
                     recovered |-> FALSE, pending |-> <<>>, batch |-> 0,
                     acting |-> TRUE, proposed |-> FALSE,
                     resumes |-> loop.resumes + 1,
                     todo |-> [i \in DOMAIN said |->
                                 [id |-> saved.pending[i], tool |-> said[i]]]]
      BY <1>17 DEF Resume
    <2> DEFINE t == [i \in DOMAIN said |-> [id |-> saved.pending[i], tool |-> said[i]]]
    <2>2. DOMAIN said = 1..Len(saved.pending) /\ Len(saved.pending) \in Nat
      BY <1>1, LenProperties
    <2>3. \A i \in 1..Len(saved.pending) : saved.pending[i] \in Call
      BY <1>1, ElementOfSeq
    <2>4. \A i \in DOMAIN said : [id |-> saved.pending[i], tool |-> said[i]] \in Todo
      BY <2>2, <2>3 DEF Todo
    <2>5. t \in [1..Len(saved.pending) -> Todo] BY <2>2, <2>4
    <2>6. t \in Seq(Todo) BY <2>2, <2>5, SeqDef
    <2>7. loop.resumes + 1 \in 0..MaxResumes
      BY <1>1, <1>17, ConstantsAssumption, SMTT(30) DEF Resume, LoopState
    <2> HIDE DEF t
    <2> QED BY <1>2, <2>1, <2>6, <2>7 DEF LoopState, t
  <1>18. CASE Settle
    <2>1. Tail(loop.todo) \in Seq(Todo) BY <1>18, CurrentTyped DEF Settle
    <2> QED BY <1>1, <1>18, <2>1, DoneTyped DEF Settle
  <1>19. CASE Continue \/ Crash \/ Revert
    BY <1>1, <1>19, ZenonT(40) DEF Continue, Crash, Revert, LoopState
  <1> QED
    BY <1>3, <1>4, <1>5, <1>6, <1>7, <1>8, <1>9, <1>10, <1>11, <1>12, <1>13, <1>14,
       <1>15, <1>16, <1>17, <1>18, <1>19
    DEF Next, Loop, vars, FailRow, Truncate, AttemptAges, Sweep, FailProposed,
        FailExecuted

\* ... and messages.
LEMMA HistoryTyped ==
    ASSUME TypeOK, HasCall, [Next]_vars
    PROVE  /\ history' \in Seq(Message)
           /\ saved' \in [history: Seq(Message), pending: Seq(Call)]
  <1>1. /\ history \in Seq(Message) /\ loop \in LoopState
        /\ saved \in [history: Seq(Message), pending: Seq(Call)]
    BY TypeOKSplit
  <1>2. /\ User \in Message
        /\ \A c \in Call : Answered(c) \in Message
        /\ \A p \in Seq(Call) : Assistant(p) \in Message
    BY EmptySeq DEF User, Answered, Assistant, Message
  <1>3. \A h \in Seq(Message), m \in Message : Append(h, m) \in Seq(Message)
    BY AppendProperties
  <1>4. saved' \in [history: Seq(Message), pending: Seq(Call)]
    <2>1. saved' = saved \/ saved' = [history |-> history, pending |-> loop.pending]
      BY DEF Next, Loop, vars, CallsTools, Recover, Answer, Fail, Compress, Skip,
             LeavePending, Start, Propose, Run, MarkExecuted, MarkFailed, AnswerCall,
             NextRequest, Pause, Resume, Settle, Continue, Crash, Revert, FailRow,
             Truncate, AttemptAges, Sweep, FailProposed, FailExecuted
    <2> QED BY <1>1, <2>1 DEF LoopState
  <1>5. CASE UNCHANGED history BY <1>1, <1>4, <1>5
  <1>6. CASE Compress
    <2>1. <<User>> \in Seq(Message) BY <1>2
    <2> QED BY <1>4, <1>6, <2>1 DEF Compress
  <1>7. CASE AnswerCall
    <2> DEFINE said == IF loop.acting
                       THEN [history |-> history, batch |-> loop.batch]
                       ELSE Declared(history, loop.batch, Current.id)
    <2>1. Current.id \in Call BY <1>7, CurrentTyped DEF AnswerCall
    <2>2. said.history \in Seq(Message) BY <1>1, <2>1, DeclaredTyped DEF LoopState
    <2>3. history' = Append(said.history, Answered(Current.id)) BY <1>7 DEF AnswerCall
    <2> HIDE DEF said
    <2> QED BY <1>2, <1>3, <1>4, <2>1, <2>2, <2>3
  <1>8. CASE NextRequest BY <1>1, <1>2, <1>3, <1>8 DEF NextRequest
  <1>9. CASE Resume BY <1>1, <1>2, <1>3, <1>9 DEF Resume
  <1>10. CASE Settle
    <2>1. Current.id \in Call BY <1>10, CurrentTyped DEF Settle
    <2> QED BY <1>1, <1>2, <1>3, <1>10, <2>1 DEF Settle
  <1>11. \/ UNCHANGED history
         \/ Compress \/ AnswerCall \/ NextRequest \/ Resume \/ Settle
    BY DEF Next, Loop, vars, CallsTools, Recover, Answer, Fail, Skip, LeavePending,
           Start, Propose, Run, MarkExecuted, MarkFailed, Pause, Continue, Crash,
           Revert, FailRow, Truncate, AttemptAges, Sweep, FailProposed, FailExecuted
  <1> QED BY <1>4, <1>5, <1>6, <1>7, <1>8, <1>9, <1>10, <1>11

\* ... and the log, the row and the counts.
LEMMA AttemptsTyped ==
    ASSUME TypeOK, HasCall, [Next]_vars
    PROVE  attempt' \in [Call -> Attempt]
  <1>1. attempt \in [Call -> Attempt] BY TypeOKSplit
  <1>2. ASSUME NEW c \in Call, NEW status \in {"proposed", "executed", "confirmed", "failed"}
        PROVE  Logged(c, status) \in [Call -> Attempt]
    BY <1>1 DEF Logged, Attempt
  <1>3. ASSUME NEW status, Finalized(status) PROVE attempt' \in [Call -> Attempt]
    <2>1. \/ attempt' = attempt
          \/ attempt' = [c \in Call |->
                IF attempt[c].status = "executed"
                THEN [attempt[c] EXCEPT !.status = "confirmed", !.late = FALSE]
                ELSE attempt[c]]
      BY <1>3 DEF Finalized
    <2>2. ASSUME NEW c \in Call
          PROVE  [attempt[c] EXCEPT !.status = "confirmed", !.late = FALSE] \in Attempt
      <3>1. attempt[c] \in Attempt BY <1>1
      <3> QED BY <3>1 DEF Attempt
    <2> QED BY <1>1, <2>1, <2>2
  <1>4. CASE UNCHANGED attempt BY <1>1, <1>4
  <1>5. CASE Answer BY <1>3, <1>5 DEF Answer
  <1>6. CASE Fail BY <1>3, <1>6 DEF Fail
  <1>7. CASE Propose \/ MarkExecuted \/ MarkFailed
    <2>1. Current.id \in Call
      BY <1>7, CurrentTyped DEF Propose, MarkExecuted, MarkFailed
    <2>2. \/ attempt' = attempt
          \/ \E status \in {"proposed", "executed", "confirmed", "failed"} :
               attempt' = Logged(Current.id, status)
      BY <1>7 DEF Propose, MarkExecuted, MarkFailed, Mark, Executed
    <2> QED BY <1>1, <1>2, <2>1, <2>2
  <1>8. ASSUME NEW c \in Call, AttemptAges(c) \/ FailProposed(c) \/ FailExecuted(c)
        PROVE  attempt' \in [Call -> Attempt]
    <2>1. CASE AttemptAges(c)
      <3>1. attempt[c] \in Attempt BY <1>1
      <3>2. [attempt[c] EXCEPT !.late = TRUE] \in Attempt BY <3>1 DEF Attempt
      <3>3. attempt' = [attempt EXCEPT ![c] = [attempt[c] EXCEPT !.late = TRUE]]
        BY <2>1 DEF AttemptAges
      <3> QED BY <1>1, <3>2, <3>3
    <2>2. CASE FailProposed(c) \/ FailExecuted(c)
      BY <1>2, <2>2 DEF FailProposed, FailExecuted
    <2> QED BY <1>8, <2>1, <2>2
  <1> QED
    BY <1>4, <1>5, <1>6, <1>7, <1>8
    DEF Next, Loop, vars, CallsTools, Recover, Compress, Skip, LeavePending, Start,
        Run, AnswerCall, NextRequest, Pause, Resume, Settle, Continue, Crash,
        Revert, FailRow, Truncate, Sweep

LEMMA CountsTyped ==
    ASSUME TypeOK, HasCall, [Next]_vars
    PROVE  /\ mode' \in {"chat", "headless"}
           /\ turn' \in {"open", "complete", "failed", "retryable", "gone"}
           /\ ran' \in [Call -> Nat]
           /\ lost' \in SUBSET Call
  <1>1. mode' \in {"chat", "headless"} /\ mode' = mode
    BY DEF TypeOK, Next, Loop, vars, CallsTools, Recover, Answer, Fail, Compress, Skip,
           LeavePending, Start, Propose, Run, MarkExecuted, MarkFailed, AnswerCall,
           NextRequest, Pause, Resume, Settle, Continue, Crash, Revert, FailRow,
           Truncate, AttemptAges, Sweep, FailProposed, FailExecuted
  <1>2. turn' \in {"open", "complete", "failed", "retryable", "gone"}
    <2>1. \/ UNCHANGED turn
          \/ turn' \in {"open", "complete", "failed", "retryable", "gone"}
      BY DEF Next, Loop, vars, CallsTools, Recover, Answer, Fail, Finalized, Compress,
             Skip, LeavePending, Start, Propose, Run, MarkExecuted, MarkFailed,
             AnswerCall, NextRequest, Pause, Resume, Settle, Continue, Crash, Revert,
             FailRow, Truncate, AttemptAges, Sweep, FailProposed, FailExecuted
    <2> QED BY <2>1 DEF TypeOK
  <1>3. CASE Run \/ MarkExecuted \/ Crash
    <2>1. loop.pc \in {"run", "executed"} => Current.id \in Call BY CurrentTyped
    <2>2. \/ ran' = ran
          \/ /\ loop.pc = "run"
             /\ \E n \in {ran[Current.id], ran[Current.id] + 1} :
                  ran' = [ran EXCEPT ![Current.id] = n]
      BY <1>3 DEF Run, MarkExecuted, Crash
    <2>3. \/ lost' = lost
          \/ /\ loop.pc \in {"run", "executed"}
             /\ lost' = lost \cup {Current.id}
      BY <1>3 DEF Run, MarkExecuted, Crash
    <2>4. ran' \in [Call -> Nat] BY <2>1, <2>2, SMTT(30) DEF TypeOK
    <2>5. lost' \in SUBSET Call BY <2>1, <2>3 DEF TypeOK
    <2> QED BY <1>1, <1>2, <2>4, <2>5
  <1>4. CASE UNCHANGED <<ran, lost>> BY <1>1, <1>2, <1>4 DEF TypeOK
  <1> QED
    BY <1>3, <1>4
    DEF Next, Loop, vars, CallsTools, Recover, Answer, Fail, Compress, Skip,
        LeavePending, Start, Propose, MarkFailed, AnswerCall, NextRequest, Pause,
        Resume, Settle, Continue, Revert, FailRow, Truncate, AttemptAges, Sweep,
        FailProposed, FailExecuted

LEMMA TypeOKStep ==
    ASSUME TypeOK, BelowCap, HasCall, [Next]_vars
    PROVE  TypeOK'
  <1>1. LoopState' = LoopState BY DEF LoopState
  <1> QED
    BY LoopTyped, HistoryTyped, AttemptsTyped, CountsTyped
    DEF TypeOK, LoopState, Attempt

-----------------------------------------------------------------------------
\* The rounds

\* A request below the cap stays below it while it executes calls; at the cap
\* it is offered nothing.
LEMMA BelowCapStep ==
    ASSUME TypeOK, BelowCap, HasCall, [Next]_vars
    PROVE  BelowCap'
  <1>1. loop \in LoopState /\ MaxIterations > 0 /\ MaxIterations \in Nat
    BY TypeOKSplit, ConstantsAssumption
  <1>2. CASE UNCHANGED loop BY <1>2 DEF BelowCap, Executing
  <1>3. CASE CallsTools
    BY <1>1, <1>3 DEF CallsTools, BelowCap, Executing, LoopState
  <1>4. CASE Recover
    BY <1>1, <1>4 DEF Recover, BelowCap, Executing, LoopState, AtCap
  <1>5. CASE NextRequest
    <2>1. loop.todo = <<>> /\ loop.round \in Nat
      BY <1>1, <1>5 DEF NextRequest, AllDone, LoopState
    <2>2. /\ loop'.todo = <<>> /\ loop'.pc = "asked" /\ loop'.round = loop.round + 1
          /\ loop'.offered => ~AtCap(loop.round + 1)
      BY <1>1, <1>5, <2>1 DEF NextRequest, LoopState
    <2> QED BY <1>1, <2>1, <2>2 DEF BelowCap, Executing, AtCap
  <1>6. CASE Resume
    <2>1. loop'.round = 0 BY <1>6 DEF Resume
    <2> QED BY <1>1, <2>1 DEF BelowCap
  <1>7. CASE LeavePending \/ AnswerCall \/ Settle
    <2>1. Executing BY <1>7 DEF LeavePending, AnswerCall, Settle, FromModel, Looking, Executing
    <2>2. loop'.round = loop.round
      BY <1>1, <1>7 DEF LeavePending, AnswerCall, Settle, Done, LoopState
    <2> QED BY <2>1, <2>2 DEF BelowCap
  <1>8. CASE \/ Answer \/ Fail \/ Compress \/ Skip \/ Start \/ Propose \/ Run
             \/ MarkExecuted \/ MarkFailed \/ Pause \/ Continue \/ Crash \/ Revert
    <2>1. /\ loop'.round = loop.round
          /\ loop'.offered => loop.offered
          /\ loop'.todo # <<>> => loop.todo # <<>>
          /\ Executing' => Executing
      BY <1>1, <1>8, ZenonT(40)
      DEF Answer, Fail, Compress, Skip, Start, Propose, Run, MarkExecuted, MarkFailed,
          Pause, Continue, Crash, Revert, Raised, Executing, LoopState, FromModel,
          Looking, AllDone
    <2> QED BY <2>1 DEF BelowCap
  <1> QED
    BY <1>2, <1>3, <1>4, <1>5, <1>6, <1>7, <1>8
    DEF Next, Loop, vars, FailRow, Truncate, AttemptAges, Sweep, FailProposed,
        FailExecuted

\* execute works on the call at hand until it is answered.
LEMMA HasCallStep ==
    ASSUME TypeOK, HasCall, [Next]_vars
    PROVE  HasCall'
  <1>1. loop \in LoopState BY TypeOKSplit
  <1>2. CASE UNCHANGED loop BY <1>2 DEF HasCall
  <1>3. CASE Start BY <1>1, <1>3 DEF Start, Looking, HasCall, LoopState
  <1>4. CASE Propose \/ Run \/ MarkExecuted \/ MarkFailed
    BY <1>1, <1>4
    DEF Propose, Run, MarkExecuted, MarkFailed, Raised, HasCall, LoopState
  <1>5. CASE \/ CallsTools \/ Recover \/ Answer \/ Fail \/ Compress \/ Skip
             \/ LeavePending \/ AnswerCall \/ NextRequest \/ Pause \/ Resume
             \/ Settle \/ Continue \/ Crash \/ Revert
    <2>1. CASE CallsTools \/ Recover \/ Answer \/ Fail \/ Compress \/ Skip
      BY <1>1, <2>1, ZenonT(40)
      DEF CallsTools, Recover, Answer, Fail, Compress, Skip, HasCall, LoopState,
          FromModel, Looking
    <2>2. CASE LeavePending \/ AnswerCall \/ Settle
      <3>1. loop'.pc = "call"
        BY <1>1, <2>2 DEF LeavePending, AnswerCall, Settle, Done, LoopState
      <3> QED BY <3>1 DEF HasCall
    <2>3. CASE \/ NextRequest \/ Pause \/ Resume \/ Continue \/ Crash \/ Revert
      <3>1. CASE Resume BY <3>1 DEF Resume, HasCall
      <3>2. CASE NextRequest
        <4>1. loop'.pc = "asked" BY <1>1, <3>2 DEF NextRequest, LoopState
        <4> QED BY <4>1 DEF HasCall
      <3>3. CASE Pause \/ Continue \/ Crash \/ Revert
        <4>1. loop'.pc \in {"asked", "paused", "dead"}
          BY <1>1, <3>3 DEF Pause, Continue, Crash, Revert, LoopState
        <4> QED BY <4>1 DEF HasCall
      <3> QED BY <2>3, <3>1, <3>2, <3>3
    <2> QED BY <1>5, <2>1, <2>2, <2>3
  <1> QED
    BY <1>2, <1>3, <1>4, <1>5
    DEF Next, Loop, vars, FailRow, Truncate, AttemptAges, Sweep, FailProposed,
        FailExecuted

-----------------------------------------------------------------------------
\* The log

LEMMA LoggedAt ==
    ASSUME TypeOK, NEW k \in Call, NEW status, NEW c \in Call
    PROVE  /\ c # k => Logged(k, status)[c] = attempt[c]
           /\ c = k => /\ Logged(k, status)[c].status = status
                       /\ Logged(k, status)[c].owner = attempt[c].owner
  <1>1. attempt \in [Call -> Attempt] BY TypeOKSplit
  <1>2. Logged(k, status)
          = [attempt EXCEPT ![k] = [attempt[k] EXCEPT !.status = status, !.late = FALSE]]
    BY DEF Logged
  <1>3. attempt[k] \in Attempt BY <1>1
  <1>4. /\ [attempt[k] EXCEPT !.status = status, !.late = FALSE].status = status
        /\ [attempt[k] EXCEPT !.status = status, !.late = FALSE].owner = attempt[k].owner
    BY <1>3 DEF Attempt
  <1> QED BY <1>1, <1>2, <1>4

\* How a row may change: it is made, or it was open and is this run's own or
\* late, or it ages.
RowStep(c) ==
    \/ attempt'[c] = attempt[c]
    \/ /\ attempt'[c].owner = attempt[c].owner
       /\ attempt'[c].status # "none"
       /\ \/ attempt[c].status = "none"
          \/ /\ attempt[c].status \in {"proposed", "executed"}
             /\ \/ attempt[c].owner = "own" \/ attempt[c].late
                \/ attempt'[c].status = attempt[c].status

LEMMA RowSteps ==
    ASSUME TypeOK, HasCall, Owners, ProposedIsOwn, [Next]_vars, NEW c \in Call
    PROVE  RowStep(c)
  <1>1. attempt \in [Call -> Attempt] /\ attempt[c] \in Attempt BY TypeOKSplit
  <1>2. CASE UNCHANGED attempt BY <1>2 DEF RowStep
  <1>3. ASSUME NEW status, Finalized(status) PROVE RowStep(c)
    <2>1. CASE attempt[c].status = "executed"
      <3> DEFINE r == [attempt[c] EXCEPT !.status = "confirmed", !.late = FALSE]
      <3>1. r.owner = attempt[c].owner /\ r.status = "confirmed" BY <1>1 DEF Attempt
      <3>2. UNCHANGED attempt \/ (Chat /\ attempt'[c] = r)
        BY <1>3, <2>1 DEF Finalized
      <3>3. Chat => attempt[c].owner = "own" BY DEF Owners
      <3> HIDE DEF r
      <3> QED BY <1>2, <2>1, <3>1, <3>2, <3>3 DEF RowStep
    <2>2. CASE attempt[c].status # "executed"
      <3>1. attempt'[c] = attempt[c] BY <1>3, <2>2 DEF Finalized
      <3> QED BY <3>1 DEF RowStep
    <2> QED BY <2>1, <2>2
  <1>4. CASE Answer BY <1>3, <1>4 DEF Answer
  <1>5. CASE Fail BY <1>3, <1>5 DEF Fail
  <1>6. CASE Propose
    <2>1. Current.id \in Call BY <1>6, CurrentTyped DEF Propose
    <2>2. \/ UNCHANGED attempt
          \/ /\ attempt[Current.id].status = "none"
             /\ attempt' = Logged(Current.id, "proposed")
      BY <1>6 DEF Propose, Journalled
    <2> QED BY <1>2, <2>1, <2>2, LoggedAt DEF RowStep
  <1>7. CASE MarkExecuted
    <2>1. Current.id \in Call BY <1>7, CurrentTyped DEF MarkExecuted
    <2>2. \/ UNCHANGED attempt
          \/ /\ \/ attempt[Current.id].status = "none"
                \/ /\ attempt[Current.id].status = "proposed"
                   /\ attempt[Current.id].owner = "own"
             /\ attempt' = Logged(Current.id, Executed)
      BY <1>7 DEF MarkExecuted, Mark, Journalled
    <2>3. Executed # "none" BY DEF Executed
    <2> QED BY <1>2, <2>1, <2>2, <2>3, LoggedAt DEF RowStep
  <1>8. CASE MarkFailed
    <2>1. Current.id \in Call BY <1>8, CurrentTyped DEF MarkFailed
    <2>2. \/ UNCHANGED attempt
          \/ /\ attempt[Current.id].status = "proposed"
             /\ attempt[Current.id].owner = "own"
             /\ attempt' = Logged(Current.id, "failed")
      BY <1>8 DEF MarkFailed, ProposedIsOwn
    <2> QED BY <1>2, <2>1, <2>2, LoggedAt DEF RowStep
  <1>9. ASSUME NEW k \in Call, AttemptAges(k) PROVE RowStep(c)
    <2>1. attempt[k].status \in {"proposed", "executed"}
      BY <1>9 DEF AttemptAges, Open
    <2>2. attempt' = [attempt EXCEPT ![k] = [attempt[k] EXCEPT !.late = TRUE]]
      BY <1>9 DEF AttemptAges
    <2>3. attempt[k] \in Attempt BY <1>1
    <2>4. /\ [attempt[k] EXCEPT !.late = TRUE].status = attempt[k].status
          /\ [attempt[k] EXCEPT !.late = TRUE].owner = attempt[k].owner
      BY <2>3 DEF Attempt
    <2>5. c # k => attempt'[c] = attempt[c] BY <1>1, <2>2
    <2>6. c = k => /\ attempt'[c].status = attempt[c].status
                   /\ attempt'[c].owner = attempt[c].owner
      BY <1>1, <2>2, <2>4
    <2> QED BY <2>1, <2>5, <2>6 DEF RowStep
  <1>10. ASSUME NEW k \in Call, FailProposed(k) \/ FailExecuted(k) PROVE RowStep(c)
    <2>1. /\ attempt[k].status \in {"proposed", "executed"} /\ attempt[k].late
          /\ attempt' = Logged(k, "failed")
      BY <1>10 DEF FailProposed, FailExecuted
    <2> QED BY <2>1, LoggedAt DEF RowStep
  <1> QED
    BY <1>2, <1>4, <1>5, <1>6, <1>7, <1>8, <1>9, <1>10
    DEF Next, Loop, vars, CallsTools, Recover, Compress, Skip, LeavePending, Start,
        Run, AnswerCall, NextRequest, Pause, Resume, Settle, Continue, Crash,
        Revert, FailRow, Truncate, Sweep

LEMMA OwnersStep ==
    ASSUME TypeOK, HasCall, Owners, ProposedIsOwn, [Next]_vars
    PROVE  Owners'
  <1>1. mode' = mode
    BY DEF Next, Loop, vars, CallsTools, Recover, Answer, Fail, Compress, Skip,
           LeavePending, Start, Propose, Run, MarkExecuted, MarkFailed, AnswerCall,
           NextRequest, Pause, Resume, Settle, Continue, Crash, Revert, FailRow,
           Truncate, AttemptAges, Sweep, FailProposed, FailExecuted
  <1>2. \A c \in Call : RowStep(c) BY RowSteps
  <1> QED BY <1>1, <1>2 DEF Owners, RowStep, Chat

LEMMA ProposedIsOwnStep ==
    ASSUME TypeOK, HasCall, Owners, ProposedIsOwn, [Next]_vars
    PROVE  ProposedIsOwn'
  <1>1. loop \in LoopState BY TypeOKSplit
  <1>2. \A c \in Call : RowStep(c) BY RowSteps
  <1>3. CASE Propose
    <2>1. Current.id \in Call BY <1>3, CurrentTyped DEF Propose
    <2>2. CASE Journalled(Current.id) \/ loop'.proposed = FALSE
      <3>1. loop'.proposed = FALSE /\ loop'.pc # "failed"
        BY <1>1, <1>3, <2>2 DEF Propose, LoopState
      <3> QED BY <3>1 DEF ProposedIsOwn
    <2>3. CASE ~Journalled(Current.id) /\ loop'.proposed # FALSE
      <3>1. /\ attempt' = Logged(Current.id, "proposed")
            /\ loop'.proposed = TRUE /\ loop'.todo = loop.todo
        BY <1>1, <1>3, <2>3 DEF Propose, LoopState
      <3>2. Current' = Current BY <3>1 DEF Current
      <3>3. attempt[Current.id].owner = "own" BY <2>1, <2>3 DEF Owners, Journalled
      <3>4. /\ attempt'[Current.id].status = "proposed"
            /\ attempt'[Current.id].owner = "own"
        BY <2>1, <3>1, <3>3, LoggedAt
      <3> QED BY <3>1, <3>2, <3>4 DEF ProposedIsOwn, Journalled
    <2> QED BY <2>2, <2>3
  <1>4. CASE Run
    <2>1. /\ loop'.todo = loop.todo /\ loop'.proposed = loop.proposed
          /\ attempt' = attempt /\ loop.pc = "run"
          /\ loop'.pc = "failed" => loop.proposed
      BY <1>1, <1>4 DEF Run, Raised, LoopState
    <2>2. Current' = Current BY <2>1 DEF Current
    <2> QED BY <2>1, <2>2 DEF ProposedIsOwn, Journalled
  <1>5. CASE UNCHANGED loop
    <2>1. Current' = Current BY <1>5 DEF Current
    <2>2. loop.pc \in {"run", "executed", "failed"} => Current.id \in Call
      BY CurrentTyped
    <2> QED BY <1>2, <1>5, <2>1, <2>2 DEF ProposedIsOwn, RowStep, Journalled
  <1>6. CASE CallsTools \/ Recover \/ Answer \/ Fail \/ Compress \/ Skip \/ Start
    <2>1. loop'.pc \notin {"run", "executed", "failed"}
      BY <1>1, <1>6
      DEF CallsTools, Recover, Answer, Fail, Compress, Skip, Start, LoopState,
          FromModel, Looking
    <2> QED BY <2>1 DEF ProposedIsOwn
  <1>7. CASE LeavePending \/ AnswerCall \/ Settle
    <2>1. loop'.pc = "call"
      BY <1>1, <1>7 DEF LeavePending, AnswerCall, Settle, Done, LoopState
    <2> QED BY <2>1 DEF ProposedIsOwn
  <1>8. CASE NextRequest
    <2>1. loop'.pc = "asked" BY <1>1, <1>8 DEF NextRequest, LoopState
    <2> QED BY <2>1 DEF ProposedIsOwn
  <1>9. CASE Resume
    <2>1. loop'.pc = "call" BY <1>9 DEF Resume
    <2> QED BY <2>1 DEF ProposedIsOwn
  <1>10. CASE MarkExecuted \/ MarkFailed \/ Pause \/ Continue \/ Crash \/ Revert
    <2>1. loop'.pc \in {"answer", "raise", "asked", "paused", "dead"}
      BY <1>1, <1>10
      DEF MarkExecuted, MarkFailed, Raised, Pause, Continue, Crash, Revert, LoopState
    <2> QED BY <2>1 DEF ProposedIsOwn
  <1> QED
    BY <1>3, <1>4, <1>5, <1>6, <1>7, <1>8, <1>9, <1>10
    DEF Next, Loop, vars, FailRow, Truncate, AttemptAges, Sweep, FailProposed,
        FailExecuted

\* The effect of a tool is in a row, or in the executor's hands, or lost to a
\* write that failed or a process that died.
LEMMA EffectsStep ==
    ASSUME TypeOK, HasCall, Owners, ProposedIsOwn, EffectsAreLogged, [Next]_vars
    PROVE  EffectsAreLogged'
  <1> SUFFICES ASSUME NEW c \in Call, ran'[c] > 0, c \notin lost',
                      ~(loop'.pc = "executed" /\ Current'.id = c)
               PROVE  Journalled(c)'
    BY DEF EffectsAreLogged
  <1>1. /\ loop \in LoopState /\ ran \in [Call -> Nat] /\ lost \in SUBSET Call
        /\ attempt \in [Call -> Attempt]
    BY TypeOKSplit
  <1>2. ASSUME Journalled(c) PROVE Journalled(c)'
    BY <1>2, RowSteps DEF RowStep, Journalled
  <1>3. CASE Run
    <2>1. /\ Current.id \in Call /\ loop.pc = "run"
      BY <1>3, CurrentTyped DEF Run
    <2>2. CASE ran[c] > 0
      <3>1. c \notin lost BY <1>1, <1>3, <2>1 DEF Run
      <3> QED BY <1>2, <2>1, <2>2, <3>1 DEF EffectsAreLogged
    <2>3. CASE ~(ran[c] > 0)
      <3>1. ran' # ran BY <1>1, <2>3
      <3>2. ran' = [ran EXCEPT ![Current.id] = IF @ < 2 THEN @ + 1 ELSE @]
        BY <1>3, <3>1 DEF Run
      <3>3. c = Current.id BY <1>1, <2>1, <2>3, <3>2
      <3>4. loop'.todo = loop.todo /\ Current' = Current
        BY <1>1, <1>3 DEF Run, Raised, LoopState, Current
      <3>5. loop'.pc # "executed" BY <3>3, <3>4
      <3>6. lost' = (IF loop.proposed THEN lost ELSE lost \cup {Current.id})
        BY <1>1, <1>3, <3>1, <3>5 DEF Run, LoopState
      <3>7. loop.proposed BY <3>3, <3>6
      <3> QED BY <1>2, <2>1, <3>3, <3>7 DEF ProposedIsOwn
    <2> QED BY <2>2, <2>3
  <1>4. CASE MarkExecuted
    <2>1. Current.id \in Call /\ ran' = ran
      BY <1>4, CurrentTyped DEF MarkExecuted
    <2>2. CASE c = Current.id
      <3>1. attempt' = Mark(c) BY <1>4, <2>2 DEF MarkExecuted
      <3>2. CASE Mark(c) = attempt
        <4>1. Journalled(c) \/ attempt = Logged(c, Executed)
          BY <3>2 DEF Mark
        <4>2. Logged(c, Executed)[c].status = Executed BY LoggedAt
        <4> QED BY <1>2, <4>1, <4>2 DEF Journalled, Executed
      <3>3. CASE Mark(c) = Logged(c, Executed)
        <4>1. attempt'[c].status = Executed BY <3>1, <3>3, LoggedAt
        <4> QED BY <4>1 DEF Journalled, Executed
      <3> QED BY <3>2, <3>3 DEF Mark
    <2>3. CASE c # Current.id
      <3>1. c \notin lost BY <1>4 DEF MarkExecuted
      <3> QED BY <1>2, <2>1, <2>3, <3>1 DEF EffectsAreLogged
    <2> QED BY <2>2, <2>3
  <1>5. CASE Crash
    <2>1. /\ ran' = ran /\ c \notin lost
          /\ ~(loop.pc = "executed" /\ Current.id = c)
      BY <1>5 DEF Crash
    <2> QED BY <1>2, <2>1 DEF EffectsAreLogged
  <1>6. CASE UNCHANGED <<loop, ran, lost>>
    <2>1. Current' = Current BY <1>6 DEF Current
    <2> QED BY <1>2, <1>6, <2>1 DEF EffectsAreLogged
  <1>7. CASE loop.pc # "executed" /\ UNCHANGED <<ran, lost>>
    BY <1>2, <1>7 DEF EffectsAreLogged
  <1> QED
    BY <1>3, <1>4, <1>5, <1>6, <1>7
    DEF Next, Loop, vars, CallsTools, Recover, Answer, Fail, Compress, Skip,
        LeavePending, Start, Propose, MarkFailed, AnswerCall, NextRequest, Pause,
        Resume, Settle, Continue, Revert, FailRow, Truncate, AttemptAges, Sweep,
        FailProposed, FailExecuted, FromModel, Looking, AllDone

-----------------------------------------------------------------------------
\* The invariant

LEMMA InitIInv == ASSUME Init PROVE IInv
  <1>1. /\ MaxIterations \in Nat /\ MaxIterations > 0 /\ MaxResumes \in Nat
        /\ mode \in {"chat", "headless"}
    BY ConstantsAssumption DEF Init
  <1>2. loop = [pc |-> "asked", round |-> 0, offered |-> TRUE, full |-> FALSE,
                recovered |-> FALSE, todo |-> <<>>, pending |-> <<>>,
                batch |-> 0, acting |-> FALSE, proposed |-> FALSE, resumes |-> 0]
    BY DEF Init
  <1>3. /\ <<>> \in Seq(Todo) /\ <<>> \in Seq(Call) /\ <<>> \in Seq(Message)
        /\ 0 \in 0..MaxIterations /\ 0 \in 0..MaxResumes
    BY <1>1, EmptySeq
  <1>4. loop \in LoopState BY <1>2, <1>3 DEF LoopState
  <1>5. history \in Seq(Message)
    <2>1. User \in Message BY EmptySeq DEF User, Message
    <2> QED BY <2>1 DEF Init
  <1>6. saved \in [history: Seq(Message), pending: Seq(Call)] BY <1>3 DEF Init
  <1>7. PICK others \in SUBSET (IF Chat THEN {} ELSE Call) :
          attempt = [c \in Call |->
                      IF c \in others
                      THEN [status |-> "proposed", owner |-> "other", late |-> FALSE]
                      ELSE [status |-> "none", owner |-> "own", late |-> FALSE]]
    BY DEF Init
  <1>8. attempt \in [Call -> Attempt] BY <1>7 DEF Attempt
  <1>9. Owners BY <1>7 DEF Owners
  <1>10. ran \in [Call -> Nat] /\ lost \in SUBSET Call /\ turn = "open"
    BY DEF Init
  <1>11. TypeOK
    BY <1>1, <1>4, <1>5, <1>6, <1>8, <1>10, TypeOKSplit
  <1>12. BelowCap /\ HasCall /\ ProposedIsOwn
    BY <1>1, <1>2 DEF BelowCap, HasCall, ProposedIsOwn
  <1>13. EffectsAreLogged BY DEF Init, EffectsAreLogged
  <1> QED BY <1>9, <1>11, <1>12, <1>13 DEF IInv

LEMMA NextIInv == ASSUME IInv, [Next]_vars PROVE IInv'
  BY TypeOKStep, BelowCapStep, HasCallStep, OwnersStep, ProposedIsOwnStep, EffectsStep
  DEF IInv

\* What every step keeps.
THEOREM Inductive == Spec => []IInv
  BY InitIInv, NextIInv, PTL DEF Spec

\* The loop's state, the messages and the log keep their shape.
THEOREM CallTypes == Spec => []TypeOK
  <1>1. IInv => TypeOK BY DEF IInv
  <1> QED BY Inductive, <1>1, PTL

\* No request executes a batch beyond MAX_TOOL_ITERATIONS.
THEOREM LoopIsBounded == Spec => []RoundsCapped
  <1>1. IInv => RoundsCapped BY DEF IInv, BelowCap, RoundsCapped
  <1> QED BY Inductive, <1>1, PTL

\* What a tool has done is in the log, save what no write could record.
THEOREM EffectsInTheLog == Spec => []EffectsAreLogged
  <1>1. IInv => EffectsAreLogged BY DEF IInv
  <1> QED BY Inductive, <1>1, PTL

\* Settled rows are final, and another run's open row is left alone until it
\* is late.
THEOREM RowsStay == Spec => OthersAndSettledStay
  <1>1. ASSUME IInv, [Next]_vars
        PROVE  \A c \in Call :
                 \/ attempt[c].status \in {"confirmed", "failed"}
                 \/ attempt[c].owner = "other" /\ ~attempt[c].late
                 => attempt'[c].status = attempt[c].status
    <2>1. TAKE c \in Call
    <2>2. RowStep(c) BY <1>1, RowSteps DEF IInv
    <2>3. attempt[c].status = "none" => attempt[c].owner = "own"
      BY <1>1 DEF IInv, Owners
    <2> QED BY <2>2, <2>3 DEF RowStep
  <1> QED BY Inductive, <1>1, PTL DEF Spec, OthersAndSettledStay

-----------------------------------------------------------------------------
\* The messages

Distinct(q) == \A i, j \in 1..Len(q) : q[i] = q[j] => i = j

\* The first n messages of h, taken by themselves: the answers to the calls of
\* an assistant message follow it one by one, and there are no others.
WholeTo(h, n) ==
    /\ \A i \in 1..n : h[i].role = "assistant" =>
         /\ i + Len(h[i].calls) <= n
         /\ \A k \in 1..Len(h[i].calls) : h[i + k] = Answered(h[i].calls[k])
         /\ Distinct(h[i].calls)
    /\ \A i \in 1..n : h[i].role = "tool" =>
         \E j \in 1..(i - 1) : h[j].role = "assistant" /\ i <= j + Len(h[j].calls)

Whole(h) == WholeTo(h, Len(h))

LEMMA WholeSame ==
    ASSUME NEW g, NEW h, NEW n \in Nat, \A i \in 1..n : h[i] = g[i] /\ g[i] \in Message,
           WholeTo(g, n)
    PROVE  WholeTo(h, n)
  <1>1. ASSUME NEW i \in 1..n, h[i].role = "assistant"
        PROVE  /\ i + Len(h[i].calls) <= n
               /\ \A k \in 1..Len(h[i].calls) : h[i + k] = Answered(h[i].calls[k])
               /\ Distinct(h[i].calls)
    <2>1. /\ i + Len(g[i].calls) <= n /\ Distinct(g[i].calls) /\ Len(g[i].calls) \in Nat
          /\ \A k \in 1..Len(g[i].calls) : g[i + k] = Answered(g[i].calls[k])
      BY <1>1 DEF WholeTo, Message
    <2> DEFINE L == Len(g[i].calls)
    <2>2. \A k \in 1..L : i + k \in 1..n
      <3> HIDE DEF L
      <3>1. L \in Nat /\ i + L <= n
        BY <2>1 DEF L
      <3> QED
        BY <3>1
    <2> QED
      BY <2>1, <2>2
  <1>2. ASSUME NEW i \in 1..n, h[i].role = "tool"
        PROVE  \E j \in 1..(i - 1) : h[j].role = "assistant" /\ i <= j + Len(h[j].calls)
    <2>1. PICK j \in 1..(i - 1) : g[j].role = "assistant" /\ i <= j + Len(g[j].calls)
      BY <1>2 DEF WholeTo
    <2>2. j \in 1..n
      OBVIOUS
    <2> QED
      BY <2>1, <2>2
  <1> QED
    BY <1>1, <1>2 DEF WholeTo

\* What comes before an assistant message is whole by itself.
LEMMA WholeCut ==
    ASSUME NEW h, NEW n \in Nat, \A i \in 1..n : h[i] \in Message,
           WholeTo(h, n), NEW b \in 1..n, h[b].role = "assistant"
    PROVE  WholeTo(h, b - 1)
  <1>1. \A i \in 1..(b - 1) : i \in 1..n
    OBVIOUS
  <1>2. ASSUME NEW i \in 1..(b - 1), h[i].role = "assistant"
        PROVE  i + Len(h[i].calls) <= b - 1
    <2> DEFINE L == Len(h[i].calls)
    <2>1. L \in Nat
      BY <1>1 DEF Message
    <2>2. \A k \in 1..L : h[i + k].role = "tool"
      <3>1. \A k \in 1..L : h[i + k] = Answered(h[i].calls[k])
        BY <1>1, <1>2 DEF WholeTo
      <3>2. \A c : Answered(c).role = "tool"
        BY DEF Answered
      <3> HIDE DEF L
      <3> QED
        BY <3>1, <3>2
    <2>3. \A k \in 1..L : i + k # b
      BY <2>2
    <2> HIDE DEF L
    <2>4. ~(b - i \in 1..L)
      <3>1. b - i \in 1..L => i + (b - i) # b
        BY <2>3
      <3>2. i + (b - i) = b
        OBVIOUS
      <3> QED
        BY <3>1, <3>2
    <2>5. i + L <= b - 1
      BY <2>1, <2>4
    <2> QED
      BY <2>5 DEF L
  <1> QED
    BY <1>1, <1>2 DEF WholeTo

LEMMA WholeUser ==
    ASSUME NEW h, NEW n \in Nat, \A i \in 1..n : h[i] \in Message,
           WholeTo(h, n), h[n + 1].role = "user"
    PROVE  WholeTo(h, n + 1)
  <1>1. \A i \in 1..(n + 1) : i = n + 1 \/ i \in 1..n
    OBVIOUS
  <1>2. ASSUME NEW i \in 1..n, h[i].role = "assistant"
        PROVE  i + Len(h[i].calls) <= n + 1
    <2> DEFINE L == Len(h[i].calls)
    <2>1. L \in Nat /\ i + L <= n
      BY <1>2 DEF Message, WholeTo
    <2> HIDE DEF L
    <2>2. i + L <= n + 1
      BY <2>1
    <2> QED
      BY <2>2 DEF L
  <1> QED
    BY <1>1, <1>2 DEF WholeTo

\* A batch that is answered.
LEMMA WholeBatch ==
    ASSUME NEW h, NEW b \in Nat \ {0}, NEW C \in Seq(Call),
           \A i \in 1..(b - 1) : h[i] \in Message,
           WholeTo(h, b - 1), h[b] = Assistant(C), Distinct(C),
           \A k \in 1..Len(C) : h[b + k] = Answered(C[k])
    PROVE  WholeTo(h, b + Len(C))
  <1> DEFINE L == Len(C)
             n == b + L
  <1>1. L \in Nat
    OBVIOUS
  <1>2. h[b].role = "assistant" /\ h[b].calls = C
    BY DEF Assistant
  <1>3. \A k \in 1..L : h[b + k].role = "tool"
    <2>1. \A c : Answered(c).role = "tool"
      BY DEF Answered
    <2> QED
      BY <2>1
  <1> HIDE DEF L
  <1>4. \A i \in 1..n : i = b \/ i \in 1..(b - 1) \/ i - b \in 1..L
    BY <1>1
  <1>5. \A i \in 1..n : i - b \in 1..L => h[i].role = "tool" /\ b \in 1..(i - 1) /\ i <= b + L
    <2> SUFFICES ASSUME NEW i \in 1..n, i - b \in 1..L
                 PROVE  h[i].role = "tool" /\ b \in 1..(i - 1) /\ i <= b + L
      OBVIOUS
    <2>1. b + (i - b) = i
      BY <1>1
    <2>2. h[b + (i - b)].role = "tool"
      BY <1>3
    <2>3. b \in 1..(i - 1) /\ i <= b + L
      BY <1>1
    <2> QED
      BY <2>1, <2>2, <2>3
  <1>6. ASSUME NEW i \in 1..n, h[i].role = "assistant"
        PROVE  /\ i + Len(h[i].calls) <= n
               /\ \A k \in 1..Len(h[i].calls) : h[i + k] = Answered(h[i].calls[k])
               /\ Distinct(h[i].calls)
    <2>1. CASE i = b
      BY <1>1, <1>2, <2>1 DEF L
    <2>2. CASE i \in 1..(b - 1)
      <3>1. /\ i + Len(h[i].calls) <= b - 1 /\ Distinct(h[i].calls)
            /\ \A k \in 1..Len(h[i].calls) : h[i + k] = Answered(h[i].calls[k])
            /\ Len(h[i].calls) \in Nat
        BY <1>6, <2>2 DEF WholeTo, Message
      <3> DEFINE M == Len(h[i].calls)
      <3>2. M \in Nat /\ i + M <= b - 1
        BY <3>1
      <3> HIDE DEF M
      <3>3. i + M <= n
        BY <1>1, <2>2, <3>2
      <3> QED
        BY <3>1, <3>3 DEF M
    <2> QED
      BY <1>4, <1>5, <1>6, <2>1, <2>2
  <1>7. ASSUME NEW i \in 1..n, h[i].role = "tool"
        PROVE  \E j \in 1..(i - 1) : h[j].role = "assistant" /\ i <= j + Len(h[j].calls)
    <2>1. CASE i \in 1..(b - 1)
      BY <1>7, <2>1 DEF WholeTo
    <2>2. CASE i - b \in 1..L
      BY <1>2, <1>5, <2>2 DEF L
    <2> QED
      BY <1>2, <1>4, <1>7, <2>1, <2>2
  <1> QED
    BY <1>6, <1>7 DEF WholeTo, L

\* The invariant about the messages.  A request goes out with all answered; at
\* work on a batch of the model's the last message declares what was answered
\* of it, and the calls left are others; at work on a resume the messages are
\* the saved ones, the declaration of what was pending, and its answers so far.
AtWork == loop.pc \in {"call", "propose", "run", "executed", "failed", "answer"}

AskedIsWhole == loop.pc = "asked" => ~loop.acting /\ Whole(history)

Apart(todo, q) == \A i \in 1..Len(todo), j \in 1..Len(q) : todo[i].id # q[j]

Fresh(todo) ==
    /\ \A i, j \in 1..Len(todo) : todo[i].id = todo[j].id => i = j
    /\ \A i \in 1..Len(todo) : todo[i].tool \notin {"denied", "result"}

OpenBatch(h, b, todo) ==
    b # 0 => /\ b \in 1..Len(h)
             /\ h[b].role = "assistant"
             /\ b + Len(h[b].calls) = Len(h)
             /\ Apart(todo, h[b].calls)

BatchIsOpen ==
    AtWork /\ ~loop.acting =>
        /\ Whole(history)
        /\ Fresh(loop.todo)
        /\ Distinct(loop.pending) /\ Apart(loop.todo, loop.pending)
        /\ OpenBatch(history, loop.batch, loop.todo)

\* What a resume makes of the messages it starts from, with m answers.
Continued(h, g, C, m) ==
    /\ Len(h) = Len(g) + 1 + m
    /\ \A i \in 1..Len(g) : h[i] = g[i]
    /\ h[Len(g) + 1] = Assistant(C)
    /\ \A k \in 1..m : h[Len(g) + 1 + k] = Answered(C[k])

ResumeIsOpen ==
    AtWork /\ loop.acting =>
        \E m \in Nat :
            /\ m + Len(loop.todo) = Len(saved.pending)
            /\ Continued(history, saved.history, saved.pending, m)
            /\ \A n \in 1..Len(loop.todo) : loop.todo[n].id = saved.pending[m + n]

SavedIsWhole == Whole(saved.history) /\ Distinct(saved.pending)

MessagesInv == AskedIsWhole /\ BatchIsOpen /\ ResumeIsOpen /\ SavedIsWhole

LEMMA InitMessages == ASSUME Init PROVE MessagesInv
  <1>1. history = <<User>> /\ Len(history) = 1 /\ history[1].role = "user"
    BY DEF Init, User
  <1>2. Whole(history)
    BY <1>1 DEF Whole, WholeTo
  <1>3. Len(saved.history) = 0 /\ Len(saved.pending) = 0
    BY DEF Init
  <1>4. SavedIsWhole
    BY <1>3 DEF SavedIsWhole, Whole, WholeTo, Distinct
  <1>5. loop.pc = "asked" /\ ~loop.acting
    BY DEF Init
  <1> QED
    BY <1>2, <1>4, <1>5 DEF MessagesInv, AskedIsWhole, BatchIsOpen, ResumeIsOpen, AtWork

\* The first call of a batch.
LEMMA FirstDeclared ==
    ASSUME NEW h \in Seq(Message), Whole(h), NEW c \in Call,
           NEW rest \in Seq(Todo), \A i \in 1..Len(rest) : rest[i].id # c
    PROVE  LET said == Declared(h, 0, c)
               after == Append(said.history, Answered(c))
           IN Whole(after) /\ OpenBatch(after, said.batch, rest)
  <1> DEFINE said == Declared(h, 0, c)
             C == <<c>>
             g == Append(h, Assistant(C))
             after == Append(g, Answered(c))
             b == Len(h) + 1
  <1>1. said.history = g /\ said.batch = b
    BY DEF Declared
  <1>2. /\ C \in Seq(Call) /\ Len(C) = 1 /\ C[1] = c
        /\ Assistant(C) \in Message /\ Answered(c) \in Message
    BY DEF Assistant, Answered, Message
  <1>3. g \in Seq(Message) /\ Len(g) = b /\ g[b] = Assistant(C)
        /\ \A i \in 1..Len(h) : g[i] = h[i]
    BY <1>2, AppendProperties
  <1> HIDE DEF g, C
  <1>4. after \in Seq(Message) /\ Len(after) = b + 1 /\ after[b + 1] = Answered(c)
        /\ \A i \in 1..b : after[i] = g[i]
    BY <1>2, <1>3, AppendProperties
  <1>5. b \in Nat \ {0} /\ b - 1 = Len(h) /\ \A i \in 1..Len(h) : i \in 1..b /\ h[i] \in Message
    OBVIOUS
  <1> HIDE DEF after
  <1>6. after[b] = Assistant(C) /\ \A i \in 1..(b - 1) : after[i] = h[i]
    BY <1>3, <1>4, <1>5
  <1>7. WholeTo(after, b - 1)
    BY <1>5, <1>6, WholeSame DEF Whole
  <1>8. Distinct(C) /\ \A k \in 1..Len(C) : after[b + k] = Answered(C[k])
    BY <1>2, <1>4 DEF Distinct
  <1>9. WholeTo(after, b + Len(C))
    BY <1>2, <1>5, <1>6, <1>7, <1>8, WholeBatch
  <1>10. Whole(after)
    BY <1>2, <1>4, <1>9 DEF Whole
  <1>11. after[b].role = "assistant" /\ after[b].calls = C
    BY <1>6 DEF Assistant
  <1>12. OpenBatch(after, b, rest)
    <2>1. \A j \in 1..1 : j = 1
      OBVIOUS
    <2>2. Apart(rest, C)
      BY <1>2, <2>1 DEF Apart
    <2>3. b \in 1..(b + 1)
      OBVIOUS
    <2> HIDE DEF b
    <2> QED
      BY <1>2, <1>4, <1>11, <2>2, <2>3 DEF OpenBatch
  <1> QED
    BY <1>1, <1>10, <1>12 DEF after

\* Any other.
LEMMA NextDeclared ==
    ASSUME NEW h \in Seq(Message), Whole(h), NEW c \in Call,
           NEW rest \in Seq(Todo), \A i \in 1..Len(rest) : rest[i].id # c,
           NEW b \in Nat \ {0}, OpenBatch(h, b, rest),
           \A j \in 1..Len(h[b].calls) : h[b].calls[j] # c
    PROVE  LET said == Declared(h, b, c)
               after == Append(said.history, Answered(c))
           IN Whole(after) /\ OpenBatch(after, said.batch, rest)
  <1> DEFINE said == Declared(h, b, c)
             B == h[b].calls
             C == Append(B, c)
             g == [h EXCEPT ![b].calls = Append(@, c)]
             after == Append(g, Answered(c))
             n == Len(h)
             L == Len(B)
  <1>1. said.history = g /\ said.batch = b
    BY DEF Declared
  <1>2. /\ b \in 1..n /\ h[b].role = "assistant" /\ b + L = n /\ Apart(rest, B)
        /\ n \in Nat
    BY DEF OpenBatch
  <1>3. /\ h[b] \in Message /\ B \in Seq(Call) /\ h[b] = Assistant(B) /\ L \in Nat
        /\ \A i \in 1..n : h[i] \in Message
    <2>1. h[b] \in Message /\ \A i \in 1..n : h[i] \in Message
      BY <1>2
    <2> DEFINE m == h[b]
    <2>2. m \in Message /\ m.role = "assistant"
      BY <1>2, <2>1
    <2> HIDE DEF m
    <2>3. m.calls \in Seq(Call) /\ m = Assistant(m.calls)
      BY <2>2 DEF Message, Assistant
    <2> QED
      BY <2>1, <2>3 DEF m
  <1>4. /\ C \in Seq(Call) /\ Len(C) = L + 1 /\ C[L + 1] = c /\ \A i \in 1..L : C[i] = B[i]
    BY <1>3, AppendProperties
  <1>5. Answered(c) \in Message
    BY DEF Answered, Message
  <1>6. /\ g \in Seq(Message) /\ Len(g) = n /\ g[b] = Assistant(C)
        /\ \A i \in 1..n : i # b => g[i] = h[i]
    <2> HIDE DEF C
    <2>1. g = [h EXCEPT ![b] = [h[b] EXCEPT !.calls = C]]
      BY DEF C
    <2>2. [h[b] EXCEPT !.calls = C] = Assistant(C) /\ Assistant(C) \in Message
      <3> DEFINE m == h[b]
      <3>1. m = Assistant(B)
        BY <1>3
      <3> HIDE DEF m, B
      <3>2. [m EXCEPT !.calls = C] = Assistant(C) /\ Assistant(C) \in Message
        BY <1>4, <3>1 DEF Assistant, Message
      <3> QED
        BY <3>2 DEF m
    <2>3. g = [h EXCEPT ![b] = Assistant(C)]
      BY <2>1, <2>2
    <2> HIDE DEF g
    <2> QED
      BY <1>2, <2>2, <2>3, ExceptSeq
  <1> HIDE DEF g, C
  <1>7. /\ after \in Seq(Message) /\ Len(after) = n + 1 /\ after[n + 1] = Answered(c)
        /\ \A i \in 1..n : after[i] = g[i]
    BY <1>5, <1>6, AppendProperties
  <1> HIDE DEF after
  <1>8. WholeTo(h, b - 1)
    BY <1>2, <1>3, WholeCut DEF Whole
  <1>9. \A i \in 1..(b - 1) : i \in 1..n /\ i # b
    BY <1>2
  <1>10. \A i \in 1..(b - 1) : after[i] = h[i] /\ h[i] \in Message /\ after[i] \in Message
    BY <1>3, <1>6, <1>7, <1>9
  <1>11. b - 1 \in Nat
    OBVIOUS
  <1>12. WholeTo(after, b - 1)
    BY <1>8, <1>10, <1>11, WholeSame
  <1>13. after[b] = Assistant(C)
    BY <1>2, <1>6, <1>7
  <1>14. Distinct(B) /\ \A k \in 1..L : h[b + k] = Answered(B[k])
    BY <1>2 DEF Whole, WholeTo
  <1> HIDE DEF n, L, B
  <1>15. \A k \in 1..L : b + k \in 1..n /\ b + k # b
    BY <1>2, <1>3
  <1>16. \A k \in 1..(L + 1) : k = L + 1 \/ k \in 1..L
    BY <1>3
  <1>17. b + (L + 1) = n + 1
    BY <1>2, <1>3
  <1>18. \A k \in 1..Len(C) : after[b + k] = Answered(C[k])
    <2>1. \A k \in 1..L : after[b + k] = Answered(C[k])
      BY <1>4, <1>6, <1>7, <1>14, <1>15
    <2> QED
      BY <1>4, <1>7, <1>16, <1>17, <2>1
  <1>19. Distinct(C)
    <2>1. \A i, j \in 1..L : B[i] = B[j] => i = j
      BY <1>14 DEF Distinct, L
    <2>2. \A j \in 1..L : B[j] # c
      BY DEF L, B
    <2> QED
      BY <1>4, <1>16, <2>1, <2>2 DEF Distinct
  <1>20. Whole(after)
    <2>1. WholeTo(after, b + Len(C))
      BY <1>4, <1>10, <1>12, <1>13, <1>18, <1>19, WholeBatch
    <2> QED
      BY <1>4, <1>7, <1>17, <2>1 DEF Whole
  <1>21. after[b].role = "assistant" /\ after[b].calls = C
    BY <1>13 DEF Assistant
  <1>22. Apart(rest, C)
    BY <1>2, <1>4, <1>16 DEF Apart, L
  <1>23. OpenBatch(after, b, rest)
    <2>1. b \in 1..(n + 1)
      BY <1>2
    <2> QED
      BY <1>4, <1>7, <1>17, <1>21, <1>22, <2>1 DEF OpenBatch
  <1> QED
    BY <1>1, <1>20, <1>23 DEF after

\* The calls that are left after the one at hand.
LEMMA TailFresh ==
    ASSUME NEW todo \in Seq(Todo), todo # <<>>, Fresh(todo)
    PROVE  /\ Fresh(Tail(todo))
           /\ \A i \in 1..Len(Tail(todo)) : Tail(todo)[i].id # Head(todo).id
           /\ \A q : Apart(todo, q) => /\ Apart(Tail(todo), q)
                                       /\ \A j \in 1..Len(q) : q[j] # Head(todo).id
  <1> DEFINE rest == Tail(todo)
             L == Len(todo)
  <1>1. /\ L \in Nat /\ L >= 1 /\ Len(rest) = L - 1 /\ Head(todo) = todo[1]
        /\ \A i \in 1..(L - 1) : rest[i] = todo[i + 1]
    BY HeadTailProperties, EmptySeq
  <1> HIDE DEF rest, L
  <1>2. /\ \A i \in 1..(L - 1) : i + 1 \in 1..L /\ i + 1 # 1
        /\ \A i, j \in 1..(L - 1) : i + 1 = j + 1 => i = j
        /\ 1 \in 1..L
    BY <1>1
  <1>3. /\ \A i, j \in 1..L : todo[i].id = todo[j].id => i = j
        /\ \A i \in 1..L : todo[i].tool \notin {"denied", "result"}
    BY DEF Fresh, L
  <1>4. Fresh(rest)
    <2>1. ASSUME NEW i \in 1..(L - 1), NEW j \in 1..(L - 1), rest[i].id = rest[j].id
          PROVE  i = j
      <3>1. rest[i] = todo[i + 1] /\ rest[j] = todo[j + 1]
        BY <1>1
      <3>2. i + 1 \in 1..L /\ j + 1 \in 1..L
        BY <1>2
      <3>3. i + 1 = j + 1
        BY <1>3, <2>1, <3>1, <3>2
      <3> QED
        BY <3>3
    <2>2. \A i \in 1..(L - 1) : rest[i].tool \notin {"denied", "result"}
      BY <1>1, <1>2, <1>3
    <2> QED
      BY <1>1, <2>1, <2>2 DEF Fresh
  <1>5. \A i \in 1..(L - 1) : rest[i].id # Head(todo).id
    BY <1>1, <1>2, <1>3
  <1>6. ASSUME NEW q, Apart(todo, q)
        PROVE  Apart(rest, q) /\ \A j \in 1..Len(q) : q[j] # Head(todo).id
    <2>1. \A i \in 1..L, j \in 1..Len(q) : todo[i].id # q[j]
      BY <1>6 DEF Apart, L
    <2> QED
      BY <1>1, <1>2, <2>1 DEF Apart
  <1> QED
    BY <1>1, <1>4, <1>5, <1>6 DEF rest

\* A call that is left pending.
LEMMA PendingFresh ==
    ASSUME NEW q \in Seq(Call), Distinct(q), NEW rest, NEW c \in Call,
           Apart(rest, q), \A i \in 1..Len(rest) : rest[i].id # c,
           \A j \in 1..Len(q) : q[j] # c
    PROVE  Distinct(Append(q, c)) /\ Apart(rest, Append(q, c))
  <1> DEFINE L == Len(q)
             p == Append(q, c)
  <1>1. L \in Nat /\ Len(p) = L + 1 /\ p[L + 1] = c /\ \A i \in 1..L : p[i] = q[i]
    BY AppendProperties
  <1>2. \A i, j \in 1..L : q[i] = q[j] => i = j
    BY DEF Distinct
  <1>3. \A i \in 1..Len(rest), j \in 1..L : rest[i].id # q[j]
    BY DEF Apart
  <1> HIDE DEF p
  <1>4. \A i \in 1..L : q[i] # c
    OBVIOUS
  <1> HIDE DEF L
  <1>5. \A i \in 1..(L + 1) : i = L + 1 \/ i \in 1..L
    BY <1>1
  <1>6. Distinct(p)
    BY <1>1, <1>2, <1>4, <1>5 DEF Distinct
  <1>7. Apart(rest, p)
    BY <1>1, <1>3, <1>5 DEF Apart
  <1> QED
    BY <1>6, <1>7 DEF p

\* A step that leaves the messages and the calls alone.
LEMMA QuietMessages ==
    ASSUME MessagesInv, UNCHANGED <<history, saved>>,
           loop'.pc = "asked" => loop.pc = "asked", AtWork' => AtWork,
           loop'.pc = "asked" \/ AtWork' =>
             /\ loop'.todo = loop.todo /\ loop'.pending = loop.pending
             /\ loop'.batch = loop.batch /\ loop'.acting = loop.acting
    PROVE  MessagesInv'
  <1>1. AskedIsWhole'
    BY DEF MessagesInv, AskedIsWhole, Whole
  <1>2. BatchIsOpen'
    BY DEF MessagesInv, BatchIsOpen, Whole, OpenBatch
  <1>3. ResumeIsOpen'
    BY DEF MessagesInv, ResumeIsOpen, Continued
  <1>4. SavedIsWhole'
    BY DEF MessagesInv, SavedIsWhole, Whole
  <1> QED
    BY <1>1, <1>2, <1>3, <1>4 DEF MessagesInv

LEMMA BatchMessages ==
    ASSUME TypeOK, HasCall, MessagesInv, CallsTools \/ Compress \/ Skip \/ LeavePending
    PROVE  MessagesInv'
  <1>1. /\ loop \in LoopState /\ history \in Seq(Message) /\ loop.todo \in Seq(Todo)
        /\ loop.pending \in Seq(Call)
    BY TypeOKSplit DEF LoopState
  <1>2. SUFFICES loop'.pc = "call" /\ ~loop'.acting /\ saved' = saved /\ BatchIsOpen'
    BY DEF MessagesInv, AskedIsWhole, ResumeIsOpen, SavedIsWhole
  <1>3. Len(<<>>) = 0 /\ \A q : Apart(<<>>, q) /\ Apart(q, <<>>)
    BY DEF Apart
  <1>4. Fresh(<<>>) /\ Distinct(<<>>)
    BY <1>3 DEF Fresh, Distinct
  <1>5. CASE CallsTools
    <2>1. PICK n \in 1..MaxBatch :
            \E batch \in [1..n -> [id: Call, tool: {"plain", "asks", "broken"}]] :
              /\ \A i, j \in 1..n : batch[i].id = batch[j].id => i = j
              /\ loop' = [loop EXCEPT !.pc = "call", !.todo = batch,
                                      !.pending = <<>>, !.batch = 0]
      BY <1>5 DEF CallsTools
    <2>2. PICK batch \in [1..n -> [id: Call, tool: {"plain", "asks", "broken"}]] :
              /\ \A i, j \in 1..n : batch[i].id = batch[j].id => i = j
              /\ loop' = [loop EXCEPT !.pc = "call", !.todo = batch,
                                      !.pending = <<>>, !.batch = 0]
      BY <2>1
    <2>3. /\ loop'.pc = "call" /\ loop'.todo = batch /\ loop'.pending = <<>>
          /\ loop'.batch = 0 /\ loop'.acting = loop.acting
      BY <1>1, <2>2 DEF LoopState
    <2>4. loop.pc = "asked" /\ history' = history /\ saved' = saved
      BY <1>5 DEF CallsTools
    <2>5. ~loop.acting /\ Whole(history)
      BY <2>4 DEF MessagesInv, AskedIsWhole
    <2>6. n \in Nat /\ Len(batch) = n
      <3>1. n \in Nat
        BY ConstantsAssumption
      <3>2. batch \in Seq(Todo)
        <4>1. \A t \in [id: Call, tool: {"plain", "asks", "broken"}] : t \in Todo
          BY DEF Todo
        <4>2. batch \in [1..n -> Todo]
          BY <4>1
        <4> QED
          BY <3>1, <4>2, SeqDef
      <3> QED
        BY <3>1, <3>2, LenProperties
    <2>7. \A i \in 1..n : batch[i].tool \notin {"denied", "result"}
      OBVIOUS
    <2>8. Fresh(batch)
      BY <2>2, <2>6, <2>7 DEF Fresh
    <2> QED
      BY <1>3, <1>4, <2>3, <2>4, <2>5, <2>8 DEF BatchIsOpen, OpenBatch
  <1>6. CASE Compress
    <2>1. /\ loop'.pc = loop.pc /\ loop'.todo = loop.todo /\ loop'.pending = loop.pending
          /\ loop'.batch = 0 /\ loop'.acting = loop.acting
      BY <1>1, <1>6 DEF Compress, LoopState
    <2>2. loop.pc = "call" /\ ~loop.acting /\ saved' = saved /\ history' = <<User>>
      BY <1>6 DEF Compress, FromModel, Looking
    <2>3. Len(history') = 1 /\ history'[1].role = "user"
      BY <2>2 DEF User
    <2>4. Whole(history')
      BY <2>3 DEF Whole, WholeTo
    <2>5. Fresh(loop.todo) /\ Distinct(loop.pending) /\ Apart(loop.todo, loop.pending)
      BY <2>2 DEF MessagesInv, BatchIsOpen, AtWork
    <2> QED
      BY <2>1, <2>2, <2>4, <2>5 DEF BatchIsOpen, OpenBatch
  <1>7. CASE Skip
    <2>1. /\ loop'.pc = loop.pc /\ loop'.todo = <<>> /\ loop'.pending = loop.pending
          /\ loop'.batch = loop.batch /\ loop'.acting = loop.acting
      BY <1>1, <1>7 DEF Skip, LoopState
    <2>2. loop.pc = "call" /\ ~loop.acting /\ saved' = saved /\ history' = history
      BY <1>7 DEF Skip, FromModel, Looking
    <2>3. /\ Whole(history) /\ Distinct(loop.pending)
          /\ OpenBatch(history, loop.batch, loop.todo)
      BY <2>2 DEF MessagesInv, BatchIsOpen, AtWork
    <2>4. OpenBatch(history, loop.batch, <<>>)
      BY <1>3, <2>3 DEF OpenBatch
    <2> QED
      BY <1>3, <1>4, <2>1, <2>2, <2>3, <2>4 DEF BatchIsOpen
  <1>8. CASE LeavePending
    <2>1. Current.id \in Call /\ Tail(loop.todo) \in Seq(Todo) /\ loop.todo # <<>>
      BY <1>8, CurrentTyped DEF LeavePending, FromModel
    <2>2. loop.pc = "call" /\ ~loop.acting /\ saved' = saved /\ history' = history
      BY <1>8 DEF LeavePending, FromModel, Looking
    <2>3. /\ loop'.pc = "call" /\ loop'.todo = Tail(loop.todo)
          /\ loop'.pending = Append(loop.pending, Current.id)
          /\ loop'.batch = loop.batch /\ loop'.acting = loop.acting
      <3> DEFINE d == Done(loop)
                 rest == Tail(loop.todo)
      <3>1. d = [loop EXCEPT !.pc = "call", !.todo = rest]
        BY DEF Done
      <3> HIDE DEF rest
      <3>2. d \in [pc: {"call"}, todo: {rest}, round: {loop.round}, offered: {loop.offered},
                   full: {loop.full}, recovered: {loop.recovered}, pending: {loop.pending},
                   batch: {loop.batch}, acting: {loop.acting}, proposed: {loop.proposed},
                   resumes: {loop.resumes}]
        BY <1>1, <3>1 DEF LoopState
      <3>3. loop' = [d EXCEPT !.pending = Append(@, Current.id)]
        BY <1>8 DEF LeavePending
      <3> HIDE DEF d
      <3> QED
        BY <3>2, <3>3 DEF rest
    <2>4. /\ Whole(history) /\ Fresh(loop.todo) /\ Distinct(loop.pending)
          /\ Apart(loop.todo, loop.pending) /\ OpenBatch(history, loop.batch, loop.todo)
      BY <2>2 DEF MessagesInv, BatchIsOpen, AtWork
    <2> DEFINE rest == Tail(loop.todo)
               c == Current.id
    <2>5. /\ Fresh(rest) /\ \A i \in 1..Len(rest) : rest[i].id # c
          /\ \A q : Apart(loop.todo, q) => Apart(rest, q) /\ \A j \in 1..Len(q) : q[j] # c
      BY <1>1, <2>1, <2>4, TailFresh DEF Current
    <2> HIDE DEF rest, c
    <2>6. Distinct(Append(loop.pending, c)) /\ Apart(rest, Append(loop.pending, c))
      <3>1. c \in Call
        BY <2>1 DEF c
      <3>2. Apart(rest, loop.pending) /\ \A j \in 1..Len(loop.pending) : loop.pending[j] # c
        BY <2>4, <2>5
      <3> QED
        BY <1>1, <2>4, <2>5, <3>1, <3>2, PendingFresh
    <2>7. OpenBatch(history, loop.batch, rest)
      BY <2>4, <2>5 DEF OpenBatch
    <2> QED
      BY <2>2, <2>3, <2>4, <2>5, <2>6, <2>7 DEF BatchIsOpen, rest, c
  <1> QED
    BY <1>5, <1>6, <1>7, <1>8

\* What answering the call at hand makes of the loop.
LEMMA DoneIs ==
    ASSUME NEW l \in LoopState, NEW b
    PROVE  LET t == [Done(l) EXCEPT !.batch = b] IN
           /\ t.pc = "call" /\ t.todo = Tail(l.todo) /\ t.pending = l.pending
           /\ t.batch = b /\ t.acting = l.acting
  <1> DEFINE d == Done(l)
             rest == Tail(l.todo)
  <1>1. d = [l EXCEPT !.pc = "call", !.todo = rest]
    BY DEF Done
  <1> HIDE DEF rest
  <1>2. d \in [pc: {"call"}, todo: {rest}, round: {l.round}, offered: {l.offered},
               full: {l.full}, recovered: {l.recovered}, pending: {l.pending},
               batch: {l.batch}, acting: {l.acting}, proposed: {l.proposed},
               resumes: {l.resumes}]
    BY <1>1 DEF LoopState
  <1> HIDE DEF d
  <1> DEFINE t == [d EXCEPT !.batch = b]
  <1>3. /\ t.pc = "call" /\ t.todo = rest /\ t.pending = l.pending
        /\ t.batch = b /\ t.acting = l.acting
    BY <1>2
  <1> QED
    BY <1>3 DEF d, rest

\* An answer of a resume: a denial, a result, or that of an approved call.
LEMMA NextContinued ==
    ASSUME TypeOK, MessagesInv, AtWork, loop.acting, loop.todo # <<>>,
           history' = Append(history, Answered(Current.id)), saved' = saved,
           loop'.pc = "call", loop'.todo = Tail(loop.todo), loop'.acting
    PROVE  MessagesInv'
  <1>1. /\ loop.todo \in Seq(Todo) /\ history \in Seq(Message)
        /\ saved.history \in Seq(Message) /\ saved.pending \in Seq(Call)
    BY TypeOKSplit DEF LoopState
  <1>2. SUFFICES ResumeIsOpen'
    BY DEF MessagesInv, AskedIsWhole, BatchIsOpen, SavedIsWhole, Whole
  <1> DEFINE g == saved.history
             C == saved.pending
             todo == loop.todo
             rest == Tail(todo)
             L == Len(todo)
             n == Len(g) + 1
             c == Current.id
  <1>3. PICK m \in Nat : /\ m + L = Len(C)
                         /\ Continued(history, g, C, m)
                         /\ \A k \in 1..L : todo[k].id = C[m + k]
    BY DEF MessagesInv, ResumeIsOpen
  <1>4. /\ L \in Nat /\ L >= 1 /\ Len(rest) = L - 1 /\ Current = todo[1]
        /\ \A i \in 1..(L - 1) : rest[i] = todo[i + 1]
    BY <1>1, HeadTailProperties, EmptySeq DEF Current
  <1>5. n \in Nat /\ n >= 1
    BY <1>1
  <1>6. /\ Len(history) = n + m
        /\ \A i \in 1..Len(g) : history[i] = g[i]
        /\ history[n] = Assistant(C)
        /\ \A k \in 1..m : history[n + k] = Answered(C[k])
    BY <1>3 DEF Continued
  <1>7. c = C[m + 1]
    BY <1>3, <1>4
  <1>8. /\ Len(history') = n + m + 1 /\ history'[n + m + 1] = Answered(C[m + 1])
        /\ \A i \in 1..(n + m) : history'[i] = history[i]
    <2>1. Answered(c) \in Message
      <3>1. c \in Call
        <4>1. todo[1] \in Todo
          BY <1>1, <1>4
        <4> QED
          BY <1>4, <4>1 DEF Todo
      <3> QED
        BY <3>1 DEF Answered, Message
    <2> DEFINE x == Answered(c)
               h == Append(history, x)
    <2>2. history' = h
      OBVIOUS
    <2> HIDE DEF x
    <2>3. /\ Len(h) = Len(history) + 1 /\ h[Len(history) + 1] = x
          /\ \A i \in 1..Len(history) : h[i] = history[i]
      BY <1>1, <2>1, AppendProperties DEF x
    <2>4. Len(history) = n + m
      BY <1>6
    <2> HIDE DEF h
    <2>5. x = Answered(C[m + 1])
      BY <1>7 DEF x
    <2> QED
      BY <2>2, <2>3, <2>4, <2>5
  <1>9. Len(g) = n - 1
    BY <1>1
  <1> HIDE DEF g, C, L, n, todo, rest, c
  <1>10. /\ \A i \in 1..(n - 1) : i \in 1..(n + m)
         /\ n \in 1..(n + m) /\ \A k \in 1..m : n + k \in 1..(n + m)
         /\ \A k \in 1..(m + 1) : k = m + 1 \/ k \in 1..m
         /\ n + m + 1 = n + (m + 1) /\ m + 1 \in Nat
    BY <1>5
  <1>11. Continued(history', g, C, m + 1)
    <2>1. \A i \in 1..Len(g) : history'[i] = g[i]
      BY <1>6, <1>8, <1>9, <1>10
    <2>2. history'[n] = Assistant(C)
      BY <1>6, <1>8, <1>10
    <2>3. \A k \in 1..(m + 1) : history'[n + k] = Answered(C[k])
      BY <1>6, <1>8, <1>10
    <2>4. Len(history') = n + (m + 1)
      BY <1>8, <1>10
    <2> QED
      BY <2>1, <2>2, <2>3, <2>4 DEF Continued, n
  <1>12. \A k \in 1..(L - 1) : rest[k].id = C[m + 1 + k]
    <2> SUFFICES ASSUME NEW k \in 1..(L - 1) PROVE rest[k].id = C[m + 1 + k]
      OBVIOUS
    <2>1. k + 1 \in 1..L /\ m + (k + 1) = m + 1 + k
      BY <1>4
    <2> QED
      BY <1>3, <1>4, <2>1
  <1>13. m + 1 + (L - 1) = Len(C)
    <2>1. m + L = Len(C)
      BY <1>3
    <2>2. m + 1 + (L - 1) = m + L
      BY <1>4
    <2> QED
      BY <2>1, <2>2
  <1> QED
    BY <1>4, <1>10, <1>11, <1>12, <1>13, ZenonT(40) DEF ResumeIsOpen, g, C, rest, todo

\* The answer to the call at hand.
LEMMA AnswerMessages ==
    ASSUME TypeOK, HasCall, MessagesInv, AnswerCall \/ Settle
    PROVE  MessagesInv'
  <1>1. /\ loop \in LoopState /\ history \in Seq(Message) /\ loop.todo \in Seq(Todo)
        /\ loop.batch \in Nat
    BY TypeOKSplit DEF LoopState
  <1>2. Current.id \in Call /\ Tail(loop.todo) \in Seq(Todo) /\ loop.todo # <<>>
    BY CurrentTyped DEF AnswerCall, Settle
  <1>3. AtWork /\ saved' = saved
    BY DEF AnswerCall, Settle, Looking, AtWork
  <1>4. Done(loop) = [Done(loop) EXCEPT !.batch = loop.batch]
    BY <1>1 DEF Done, LoopState
  <1>5. CASE loop.acting
    <2>1. /\ loop' = [Done(loop) EXCEPT !.batch = loop.batch]
          /\ history' = Append(history, Answered(Current.id))
      BY <1>4, <1>5 DEF AnswerCall, Settle
    <2>2. loop'.pc = "call" /\ loop'.todo = Tail(loop.todo) /\ loop'.acting = loop.acting
      BY <1>1, <2>1, DoneIs
    <2> QED
      BY <1>2, <1>3, <1>5, <2>1, <2>2, NextContinued
  <1>6. CASE ~loop.acting
    <2> DEFINE c == Current.id
               said == Declared(history, loop.batch, c)
               after == Append(said.history, Answered(c))
               rest == Tail(loop.todo)
               todo == loop.todo
    <2>1. /\ Whole(history) /\ Fresh(todo) /\ Distinct(loop.pending)
          /\ Apart(todo, loop.pending) /\ OpenBatch(history, loop.batch, todo)
      BY <1>3, <1>6 DEF MessagesInv, BatchIsOpen
    <2>2. ~Settle
      <3>1. Len(todo) \in Nat /\ Len(todo) >= 1 /\ Current = todo[1]
        BY <1>1, <1>2, HeadTailProperties, EmptySeq DEF Current
      <3>2. Current.tool \notin {"denied", "result"}
        BY <2>1, <3>1 DEF Fresh
      <3> QED
        BY <3>2 DEF Settle
    <2>3. history' = after /\ loop' = [Done(loop) EXCEPT !.batch = said.batch]
      BY <1>6, <2>2 DEF AnswerCall
    <2>4. /\ Fresh(rest) /\ \A i \in 1..Len(rest) : rest[i].id # c
          /\ \A q : Apart(todo, q) => Apart(rest, q) /\ \A j \in 1..Len(q) : q[j] # c
      BY <1>1, <1>2, <2>1, TailFresh DEF Current
    <2> HIDE DEF rest, c, todo
    <2>5. c \in Call /\ rest \in Seq(Todo)
      BY <1>2 DEF c, rest
    <2>6. Whole(after) /\ OpenBatch(after, said.batch, rest)
      <3>1. CASE loop.batch = 0
        BY <1>1, <2>1, <2>4, <2>5, <3>1, FirstDeclared
      <3>2. CASE loop.batch # 0
        <4>1. loop.batch \in Nat \ {0}
          BY <1>1, <3>2
        <4>2. Apart(todo, history[loop.batch].calls)
          BY <2>1, <3>2 DEF OpenBatch
        <4>3. /\ OpenBatch(history, loop.batch, rest)
              /\ \A j \in 1..Len(history[loop.batch].calls) : history[loop.batch].calls[j] # c
          BY <2>1, <2>4, <4>2 DEF OpenBatch
        <4> QED
          BY <1>1, <2>1, <2>4, <2>5, <4>1, <4>3, NextDeclared
      <3> QED
        BY <3>1, <3>2
    <2> HIDE DEF said, after
    <2>7. /\ loop'.pc = "call" /\ loop'.todo = rest /\ loop'.pending = loop.pending
          /\ loop'.batch = said.batch /\ loop'.acting = loop.acting
      BY <1>1, <2>3, DoneIs DEF rest
    <2>8. Apart(rest, loop.pending)
      BY <2>1, <2>4
    <2>9. BatchIsOpen'
      BY <2>1, <2>3, <2>4, <2>6, <2>7, <2>8 DEF BatchIsOpen
    <2>10. /\ AskedIsWhole' /\ ResumeIsOpen' /\ SavedIsWhole'
      BY <1>3, <1>6, <2>7 DEF MessagesInv, AskedIsWhole, ResumeIsOpen, SavedIsWhole
    <2> QED
      BY <2>9, <2>10 DEF MessagesInv
  <1> QED
    BY <1>5, <1>6

\* All calls of a batch or of a resume are answered: the next request.
LEMMA RequestMessages ==
    ASSUME TypeOK, MessagesInv, NextRequest \/ Continue
    PROVE  MessagesInv'
  <1>1. /\ loop \in LoopState /\ history \in Seq(Message)
        /\ saved.history \in Seq(Message) /\ saved.pending \in Seq(Call)
    BY TypeOKSplit
  <1>2. loop.pc = "call" /\ loop.todo = <<>> /\ saved' = saved /\ AtWork
    BY DEF NextRequest, Continue, AllDone, AtWork
  <1>3. loop'.pc = "asked" /\ loop'.acting = FALSE
    <2>1. CASE NextRequest
      <3> DEFINE last == AtCap(loop.round + 1) \/ loop.full
                 round == loop.round + 1
                 offered == ~last
      <3>1. loop' = [loop EXCEPT !.pc = "asked", !.round = round, !.offered = offered]
        BY <2>1 DEF NextRequest
      <3>2. loop.acting = FALSE
        BY <1>1, <2>1 DEF NextRequest, LoopState
      <3> HIDE DEF offered, round
      <3> QED
        BY <1>1, <3>1, <3>2 DEF LoopState
    <2>2. CASE Continue
      BY <1>1, <2>2 DEF Continue, LoopState
    <2> QED
      BY <2>1, <2>2
  <1>4. SUFFICES Whole(history')
    BY <1>2, <1>3
    DEF MessagesInv, AskedIsWhole, BatchIsOpen, ResumeIsOpen, SavedIsWhole, AtWork
  <1>5. CASE NextRequest
    <2>1. Whole(history)
      BY <1>2, <1>5 DEF NextRequest, MessagesInv, BatchIsOpen
    <2>2. history' = history \/ history' = Append(history, User)
      BY <1>5 DEF NextRequest
    <2>3. CASE history' = Append(history, User)
      <3> DEFINE n == Len(history)
      <3>1. User \in Message /\ User.role = "user"
        <4>1. <<>> \in Seq(Call)
          OBVIOUS
        <4> QED
          BY <4>1 DEF User, Message
      <3>2. /\ Len(history') = n + 1 /\ history'[n + 1] = User /\ n \in Nat
            /\ \A i \in 1..n : history'[i] = history[i]
        BY <1>1, <2>3, <3>1, AppendProperties
      <3>3. \A i \in 1..n : history[i] \in Message
        BY <1>1
      <3> HIDE DEF n
      <3>4. WholeTo(history, n)
        BY <2>1 DEF Whole, n
      <3>5. WholeTo(history', n)
        BY <3>2, <3>3, <3>4, WholeSame
      <3>6. history'[n + 1].role = "user" /\ \A i \in 1..n : history'[i] \in Message
        BY <3>1, <3>2, <3>3
      <3>7. WholeTo(history', n + 1)
        BY <3>2, <3>5, <3>6, WholeUser
      <3> QED
        BY <3>2, <3>7 DEF Whole
    <2> QED
      BY <2>1, <2>2, <2>3
  <1>6. CASE Continue
    <2> DEFINE g == saved.history
               C == saved.pending
               b == Len(g) + 1
    <2>1. loop.acting /\ history' = history /\ Len(loop.todo) = 0
      BY <1>2, <1>6 DEF Continue
    <2>2. PICK m \in Nat : /\ m + Len(loop.todo) = Len(C)
                           /\ Continued(history, g, C, m)
      BY <1>2, <2>1 DEF MessagesInv, ResumeIsOpen
    <2>3. m = Len(C)
      BY <1>1, <2>1, <2>2
    <2>4. /\ Len(history) = b + m
          /\ \A i \in 1..Len(g) : history[i] = g[i]
          /\ history[b] = Assistant(C)
          /\ \A k \in 1..m : history[b + k] = Answered(C[k])
      BY <2>2 DEF Continued
    <2>5. /\ Len(g) \in Nat /\ b - 1 = Len(g) /\ b \in Nat \ {0}
          /\ \A i \in 1..Len(g) : g[i] \in Message
      BY <1>1
    <2>6. Distinct(C) /\ WholeTo(g, Len(g))
      BY DEF MessagesInv, SavedIsWhole, Whole
    <2>7. C \in Seq(Call)
      BY <1>1
    <2> HIDE DEF g, C, b
    <2>8. WholeTo(history, b - 1)
      BY <2>4, <2>5, <2>6, WholeSame
    <2>9. \A i \in 1..(b - 1) : history[i] \in Message
      BY <2>4, <2>5
    <2>10. WholeTo(history, b + Len(C))
      BY <2>3, <2>4, <2>5, <2>6, <2>7, <2>8, <2>9, WholeBatch
    <2> QED
      BY <2>1, <2>3, <2>4, <2>10 DEF Whole
  <1> QED
    BY <1>5, <1>6

\* A pause saves what a resume starts from.
LEMMA PauseMessages ==
    ASSUME TypeOK, MessagesInv, Pause
    PROVE  MessagesInv'
  <1>1. /\ loop \in LoopState /\ loop.pc = "call" /\ ~loop.acting
        /\ saved' = [history |-> history, pending |-> loop.pending]
        /\ loop' = [loop EXCEPT !.pc = "paused"]
    BY TypeOKSplit DEF Pause, AllDone
  <1>2. loop'.pc = "paused"
    BY <1>1 DEF LoopState
  <1>3. Whole(history) /\ Distinct(loop.pending)
    BY <1>1 DEF MessagesInv, BatchIsOpen, AtWork
  <1>4. SavedIsWhole'
    BY <1>1, <1>3 DEF SavedIsWhole, Whole
  <1> QED
    BY <1>2, <1>4 DEF MessagesInv, AskedIsWhole, BatchIsOpen, ResumeIsOpen, AtWork

LEMMA ResumeMessages ==
    ASSUME TypeOK, MessagesInv, Resume
    PROVE  MessagesInv'
  <1> DEFINE g == saved.history
             C == saved.pending
             n == Len(g) + 1
  <1>1. g \in Seq(Message) /\ C \in Seq(Call) /\ DOMAIN C = 1..Len(C) /\ Len(C) \in Nat
    BY TypeOKSplit
  <1>2. PICK said \in [DOMAIN C -> {"approved", "denied", "result"}] :
          loop' = [pc |-> "call", round |-> 0, offered |-> TRUE, full |-> FALSE,
                   recovered |-> FALSE, pending |-> <<>>, batch |-> 0,
                   acting |-> TRUE, proposed |-> FALSE,
                   resumes |-> loop.resumes + 1,
                   todo |-> [i \in DOMAIN said |-> [id |-> C[i], tool |-> said[i]]]]
    BY DEF Resume
  <1>3. history' = Append(g, Assistant(C)) /\ saved' = saved
    BY DEF Resume
  <1> DEFINE todo == [i \in 1..Len(C) |-> [id |-> C[i], tool |-> said[i]]]
  <1>4. loop'.pc = "call" /\ loop'.acting = TRUE /\ loop'.todo = todo
    BY <1>1, <1>2
  <1>5. Len(todo) = Len(C) /\ \A k \in 1..Len(C) : todo[k].id = C[k]
    <2>1. \A i \in 1..Len(C) : [id |-> C[i], tool |-> said[i]] \in Todo
      <3>1. \A i \in 1..Len(C) : C[i] \in Call /\ said[i] \in {"approved", "denied", "result"}
        BY <1>1
      <3> QED
        BY <3>1 DEF Todo
    <2>2. todo \in [1..Len(C) -> Todo]
      BY <2>1
    <2>3. todo \in Seq(Todo)
      BY <1>1, <2>2, SeqDef
    <2>4. DOMAIN todo = 1..Len(C)
      OBVIOUS
    <2>5. \A k \in 1..Len(C) : todo[k].id = C[k]
      OBVIOUS
    <2> HIDE DEF todo
    <2> QED
      BY <1>1, <2>3, <2>4, <2>5, LenProperties
  <1> HIDE DEF todo
  <1>6. Assistant(C) \in Message
    BY <1>1 DEF Assistant, Message
  <1>7. /\ Len(history') = n /\ history'[n] = Assistant(C)
        /\ \A i \in 1..Len(g) : history'[i] = g[i] /\ n \in Nat
    BY <1>1, <1>3, <1>6, AppendProperties
  <1>8. Continued(history', g, C, 0)
    <2>1. n + 0 = n /\ 1..0 = {}
      BY <1>1
    <2> QED
      BY <1>7, <2>1 DEF Continued
  <1>9. \A k \in 1..Len(C) : 0 + k = k
    OBVIOUS
  <1>10. 0 \in Nat /\ 0 + Len(C) = Len(C)
    BY <1>1
  <1>11. \E m \in Nat :
           /\ m + Len(todo) = Len(C)
           /\ Continued(history', g, C, m)
           /\ \A k \in 1..Len(todo) : todo[k].id = C[m + k]
    BY <1>5, <1>8, <1>9, <1>10
  <1>12. ResumeIsOpen'
    BY <1>3, <1>4, <1>11 DEF ResumeIsOpen
  <1> QED
    BY <1>3, <1>4, <1>12 DEF MessagesInv, AskedIsWhole, BatchIsOpen, SavedIsWhole

LEMMA MessagesStep ==
    ASSUME TypeOK, HasCall, MessagesInv, [Next]_vars
    PROVE  MessagesInv'
  <1>1. loop \in LoopState
    BY TypeOKSplit
  <1>2. CASE UNCHANGED <<history, saved, loop>>
    <2>1. AtWork' = AtWork
      BY <1>2 DEF AtWork
    <2> QED
      BY <1>2, <2>1, QuietMessages
  <1>3. CASE Recover \/ Start \/ Propose \/ Run \/ MarkExecuted \/ MarkFailed
    <2>1. /\ UNCHANGED <<history, saved>>
          /\ loop.pc = "asked" \/ AtWork
          /\ loop'.pc = "asked" => loop.pc = "asked"
          /\ AtWork' => AtWork
          /\ loop'.todo = loop.todo /\ loop'.pending = loop.pending
          /\ loop'.batch = loop.batch /\ loop'.acting = loop.acting
      <3>1. CASE Recover
        BY <1>1, <3>1 DEF Recover, LoopState, AtWork
      <3>2. CASE Start
        BY <1>1, <3>2 DEF Start, Looking, LoopState, AtWork
      <3>3. CASE Propose
        BY <1>1, <3>3 DEF Propose, LoopState, AtWork
      <3>4. CASE Run
        BY <1>1, <3>4 DEF Run, Raised, LoopState, AtWork
      <3>5. CASE MarkExecuted
        BY <1>1, <3>5 DEF MarkExecuted, LoopState, AtWork
      <3>6. CASE MarkFailed
        BY <1>1, <3>6 DEF MarkFailed, Raised, LoopState, AtWork
      <3> QED
        BY <1>3, <3>1, <3>2, <3>3, <3>4, <3>5, <3>6
    <2> QED
      BY <2>1, QuietMessages
  <1>4. CASE Answer \/ Fail \/ Crash \/ Revert
    <2>1. UNCHANGED <<history, saved>> /\ loop'.pc \in {"over", "paused", "dead"}
      BY <1>1, <1>4 DEF Answer, Fail, Crash, Revert, LoopState
    <2>2. loop'.pc # "asked" /\ ~AtWork'
      BY <2>1 DEF AtWork
    <2> QED
      BY <2>1, <2>2, QuietMessages
  <1> QED
    BY <1>2, <1>3, <1>4, BatchMessages, AnswerMessages, RequestMessages, PauseMessages,
       ResumeMessages
    DEF Next, Loop, vars, FailRow, Truncate, AttemptAges, Sweep, FailProposed, FailExecuted

\* At any moment of the loop the messages are whole up to the batch at hand, and
\* what the run pauses with and resumes from is whole too.
THEOREM MessagesAlways == Spec => []MessagesInv
  <1>1. Init => MessagesInv
    BY InitMessages
  <1>2. IInv /\ MessagesInv /\ [Next]_vars => MessagesInv'
    BY MessagesStep DEF IInv
  <1> QED
    BY <1>1, <1>2, Inductive, PTL DEF Spec

\* There are as many answers to a batch as it has calls.
LEMMA AnswersCounted ==
    ASSUME NEW C \in Seq(Call), Distinct(C)
    PROVE  Cardinality({C[k] : k \in 1..Len(C)}) = Len(C)
  <1> DEFINE n == Len(C)
             T == {C[k] : k \in 1..n}
             f == [k \in 1..n |-> C[k]]
  <1>1. n \in Nat
    OBVIOUS
  <1>2. f \in Bijection(1..n, T)
    BY DEF Bijection, Injection, Surjection, Distinct, IsInjective
  <1> HIDE DEF f, T
  <1>3. ExistsBijection(1..n, T)
    BY <1>2 DEF ExistsBijection
  <1> QED
    BY <1>1, <1>3, FS_CountingElements DEF T

\* Whenever a request is sent, each assistant message of it is followed by one
\* answer to each call it declares, and there are no other answers (handle_tool_
\* calls, _declare_call and gen_continuation, with compression, denials, pauses
\* and resumes in any order).
THEOREM RequestsArePaired == Spec => []HistoryIsPaired
  <1>1. ASSUME IInv, MessagesInv PROVE HistoryIsPaired
    <2> DEFINE Size(i) == Len(history[i].calls)
               Answers(i) == {history[i + k].calls[1] : k \in 1..Size(i)}
    <2>1. history \in Seq(Message) /\ DOMAIN history = 1..Len(history)
      BY <1>1, TypeOKSplit DEF IInv
    <2> SUFFICES ASSUME loop.pc = "asked"
                 PROVE
         /\ \A i \in DOMAIN history : history[i].role = "assistant" =>
              /\ i + Size(i) <= Len(history)
              /\ \A k \in 1..Size(i) : history[i + k].role = "tool"
              /\ \A k \in 1..Size(i) : history[i].calls[k] \in Answers(i)
              /\ Cardinality(Answers(i)) = Size(i)
         /\ \A i \in DOMAIN history : history[i].role = "tool" =>
              \E j \in 1..(i - 1) : /\ history[j].role = "assistant"
                                    /\ i <= j + Size(j)
      BY DEF HistoryIsPaired
    <2>2. WholeTo(history, Len(history))
      BY <1>1 DEF MessagesInv, AskedIsWhole, Whole
    <2>3. ASSUME NEW i \in 1..Len(history), history[i].role = "assistant"
          PROVE  /\ i + Size(i) <= Len(history)
                 /\ \A k \in 1..Size(i) : history[i + k].role = "tool"
                 /\ \A k \in 1..Size(i) : history[i].calls[k] \in Answers(i)
                 /\ Cardinality(Answers(i)) = Size(i)
      <3> DEFINE C == history[i].calls
      <3>1. /\ i + Size(i) <= Len(history) /\ Distinct(C)
            /\ \A k \in 1..Size(i) : history[i + k] = Answered(C[k])
        BY <2>2, <2>3 DEF WholeTo
      <3>2. \A c : Answered(c).role = "tool" /\ Answered(c).calls[1] = c
        BY DEF Answered
      <3>3. \A k \in 1..Size(i) : history[i + k].role = "tool" /\ history[i + k].calls[1] = C[k]
        BY <3>1, <3>2
      <3>4. Answers(i) = {C[k] : k \in 1..Len(C)}
        BY <3>3
      <3>5. C \in Seq(Call)
        <4>1. history[i] \in Message
          BY <2>1
        <4> QED
          BY <4>1 DEF Message
      <3>6. Cardinality(Answers(i)) = Len(C)
        BY <3>1, <3>4, <3>5, AnswersCounted
      <3>7. \A k \in 1..Size(i) : C[k] \in Answers(i)
        BY <3>4
      <3> QED
        BY <3>1, <3>3, <3>6, <3>7
    <2> QED
      BY <2>1, <2>2, <2>3 DEF WholeTo
  <1> QED
    BY <1>1, Inductive, MessagesAlways, PTL
=============================================================================
