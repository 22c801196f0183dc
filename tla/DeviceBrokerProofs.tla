-------------------------- MODULE DeviceBrokerProofs --------------------------
(***************************************************************************)
(* Proofs about DeviceBroker for any calls, sessions, processes, tickets   *)
(* and chunks.                                                             *)
(***************************************************************************)
EXTENDS DeviceBroker, SequenceTheorems, TLAPS

\* The maps of a process, of any session ids.
Maps == UNION {[D -> Session] : D \in SUBSET (Ticket \cup Session)}

Registry == [latest: Session \cup {None}, ids: Maps]

Tickets == [now: Ticket \cup {None}, issued: SUBSET Ticket]

\* The type invariant with the fields of ticket and registry.
Typed ==
    /\ call \in [Call -> CallState]
    /\ cli \in [Call -> DeviceState]
    /\ hash \in [Call -> {"absent", "open"} \cup Verdict]
    /\ out \in [Call -> Seq(Chunk)]
    /\ queue \in Seq(Call)
    /\ ticket \in Tickets
    /\ ticket.now \in ticket.issued \cup {None}
    /\ session \in [Session -> SessionState]
    /\ registry \in [Proc -> Registry]
    /\ audit \in [Call -> {"none", "dispatched", "settled"}]

\* The stream of an invocation, as long as the tool reads it: the device's
\* output, then its verdict.
StreamOf(i) ==
    call[i].pc # "done" =>
        /\ Len(out[i]) = cli[i].posted + (IF cli[i].verdict = "none" THEN 0 ELSE 1)
        /\ \A k \in 1..cli[i].posted : out[i][k] = "output"
        /\ cli[i].verdict # "none" => out[i][cli[i].posted + 1] = cli[i].verdict

\* The device posts its verdict before it is marked.
VerdictOf(i) ==
    /\ cli[i].pc \in {"away", "working"} => cli[i].verdict = "none"
    /\ cli[i].pc \in {"mark", "report"} => cli[i].verdict # "none"
    /\ hash[i] \in Verdict => cli[i].verdict # "none"

\* Until it has a result, the tool has read output only.
CursorOf(i) ==
    call[i].pc \in {"idle", "hashed", "queued", "drain", "empty", "tail", "consult"} =>
        /\ call[i].got = call[i].cursor
        /\ call[i].cursor <= cli[i].posted
        /\ call[i].result \in {"none", "undispatched"}

StreamInv == \A i \in Call : StreamOf(i) /\ VerdictOf(i) /\ CursorOf(i)

-----------------------------------------------------------------------------
\* Types

LEMMA TypedIsTypeOK == ASSUME Typed PROVE TypeOK
  <1>1. \A p \in Proc : DOMAIN registry[p].ids \subseteq Ticket \cup Session
    BY DEF Typed, Registry, Maps
  <1> QED
    BY <1>1 DEF Typed, TypeOK, Registry, Tickets

\* What LREM leaves of the queue.
Cut(q, at) ==
    /\ q \in Seq(Call)
    /\ Len(q) = Len(queue) - 1
    /\ \A n \in 1..Len(q) : q[n] = IF n < at THEN queue[n] ELSE queue[n + 1]

LEMMA UnqueuedCuts ==
    ASSUME queue \in Seq(Call), NEW i \in Call
    PROVE  \/ Unqueued(i) = queue /\ \A n \in DOMAIN queue : queue[n] # i
           \/ \E at \in DOMAIN queue : queue[at] = i /\ Cut(Unqueued(i), at)
  <1> DEFINE at == CHOOSE n \in DOMAIN queue : queue[n] = i
             left == SubSeq(queue, 1, at - 1)
             right == SubSeq(queue, at + 1, Len(queue))
  <1>1. CASE \A n \in DOMAIN queue : queue[n] # i
    BY <1>1 DEF Unqueued
  <1>2. CASE \E n \in DOMAIN queue : queue[n] = i
    <2>1. at \in 1..Len(queue) /\ queue[at] = i
      BY <1>2
    <2>2. Unqueued(i) = left \o right
      BY <1>2 DEF Unqueued
    <2> HIDE DEF at
    <2>3. /\ left \in Seq(Call) /\ Len(left) = at - 1
          /\ \A n \in 1..(at - 1) : left[n] = queue[n]
      BY <2>1
    <2>4. /\ right \in Seq(Call) /\ Len(right) = Len(queue) - at
          /\ \A n \in 1..(Len(queue) - at) : right[n] = queue[at + n]
      BY <2>1
    <2> HIDE DEF left, right
    <2>5. /\ left \o right \in Seq(Call)
          /\ Len(left \o right) = Len(queue) - 1
          /\ \A n \in 1..(Len(queue) - 1) :
               (left \o right)[n] = IF n < at THEN queue[n] ELSE queue[n + 1]
      <3>1. /\ left \o right \in Seq(Call)
            /\ Len(left \o right) = Len(left) + Len(right)
            /\ \A n \in 1..(Len(left) + Len(right)) : (left \o right)[n] =
                 IF n <= Len(left) THEN left[n] ELSE right[n - Len(left)]
        BY <2>3, <2>4, ConcatProperties
      <3>2. ASSUME NEW n \in 1..(Len(queue) - 1)
            PROVE  (left \o right)[n] = IF n < at THEN queue[n] ELSE queue[n + 1]
        <4>1. CASE n < at
          BY <4>1, <3>1, <2>1, <2>3, <2>4
        <4>2. CASE ~(n < at)
          <5>1. n - Len(left) \in 1..(Len(queue) - at) /\ at + (n - Len(left)) = n + 1
            BY <4>2, <2>1, <2>3
          <5>2. right[n - Len(left)] = queue[n + 1]
            <6> DEFINE k == n - Len(left)
            <6>1. k \in 1..(Len(queue) - at) /\ at + k = n + 1
              BY <5>1
            <6> HIDE DEF k
            <6>2. right[k] = queue[at + k]
              BY <6>1, <2>4
            <6> QED
              BY <6>1, <6>2 DEF k
          <5>3. n \in 1..(Len(left) + Len(right)) /\ ~(n <= Len(left))
            BY <4>2, <2>1, <2>3, <2>4
          <5>4. (left \o right)[n] = right[n - Len(left)]
            BY <5>3, <3>1
          <5> QED
            BY <4>2, <5>2, <5>4
        <4> QED
          BY <4>1, <4>2
      <3> QED
        BY <3>1, <3>2, <2>1, <2>3, <2>4
    <2>6. Cut(Unqueued(i), at)
      BY <2>2, <2>5 DEF Cut
    <2> QED
      BY <2>1, <2>6
  <1> QED
    BY <1>1, <1>2

LEMMA UnqueuedTyped ==
    ASSUME queue \in Seq(Call), NEW i \in Call PROVE Unqueued(i) \in Seq(Call)
  BY UnqueuedCuts DEF Cut

\* A map without an id, and with one.
LEMMA WithoutMap ==
    ASSUME NEW ids \in Maps, NEW id PROVE Without(ids, id) \in Maps
  <1> DEFINE D == DOMAIN ids \ {id}
  <1>1. PICK E \in SUBSET (Ticket \cup Session) : ids \in [E -> Session]
    BY DEF Maps
  <1>2. D \in SUBSET (Ticket \cup Session) /\ Without(ids, id) \in [D -> Session]
    BY <1>1 DEF Without
  <1> QED
    BY <1>2 DEF Maps

LEMMA WithMap ==
    ASSUME NEW ids \in Maps, NEW id \in Ticket \cup Session, NEW s \in Session
    PROVE  [x \in DOMAIN ids \cup {id} |-> IF x = id THEN s ELSE ids[x]] \in Maps
  <1> DEFINE D == DOMAIN ids \cup {id}
             new == [x \in D |-> IF x = id THEN s ELSE ids[x]]
  <1>1. PICK E \in SUBSET (Ticket \cup Session) : ids \in [E -> Session]
    BY DEF Maps
  <1>2. D \in SUBSET (Ticket \cup Session) /\ new \in [D -> Session]
    BY <1>1
  <1> QED
    BY <1>2 DEF Maps

-----------------------------------------------------------------------------
\* Who writes what

ToolStep(i) == CallStep(i) \/ Deadline(i) \/ CrashCall(i) \/ HashExpires(i)

LEMMA ToolFrame ==
    ASSUME NEW i, ToolStep(i) PROVE UNCHANGED <<cli, ticket, session, registry>>
  BY DEF ToolStep, CallStep, Deadline, CrashCall, HashExpires, WriteHash, Enqueue,
         DispatchFails, RecordDispatch, Read, ReadNothing, IsOver, StopDraining,
         Consult, Reap, Unqueue, ReapFails, redis

LEMMA DeviceFrame ==
    ASSUME NEW i, DeviceStep(i) PROVE UNCHANGED <<call, queue, ticket, session, registry>>
  BY DEF DeviceStep, PostOutput, PostVerdict, PostRefused, Mark, MarkFails,
         RecordResult, redis

LEMMA SessionFrame ==
    ASSUME NEW s, SessionStep(s) PROVE UNCHANGED <<call, hash, out, audit>>
  BY DEF SessionStep, Validate, ReadTicket, Register, Wait, Pop, PopNothing, Check,
         Yield, Disconnect, Stop, Leave, redis

LEMMA TicketFrame ==
    ASSUME (\E t \in Ticket : Poll(t)) \/ TicketExpires
    PROVE  UNCHANGED <<call, cli, hash, out, queue, session, registry, audit>>
  BY DEF Poll, TicketExpires

\* The steps of Next, by who takes them.
LEMMA Steps ==
    ASSUME [Next]_vars
    PROVE  \/ \E i \in Call : ToolStep(i)
           \/ \E i \in Call : DeviceStep(i)
           \/ \E s \in Session : SessionStep(s)
           \/ (\E t \in Ticket : Poll(t)) \/ TicketExpires
           \/ UNCHANGED vars
  BY DEF Next, ToolStep

-----------------------------------------------------------------------------
\* Types of an invocation

LEMMA MovesTyped ==
    ASSUME Typed, NEW i \in Call,
           NEW pc \in {"idle", "hashed", "queued", "drain", "empty", "tail", "consult",
                       "reap", "unqueue", "done", "dead"}
    PROVE  [call EXCEPT ![i].pc = pc] \in [Call -> CallState]
  <1>1. call \in [Call -> CallState]
    BY DEF Typed
  <1> QED
    BY <1>1 DEF CallState

LEMMA RowTyped ==
    ASSUME Typed, NEW i \in Call, NEW c \in CallState
    PROVE  [call EXCEPT ![i] = c] \in [Call -> CallState]
  <1>1. call \in [Call -> CallState]
    BY DEF Typed
  <1> QED
    BY <1>1

LEMMA EndedRow ==
    ASSUME NEW c \in CallState, NEW pc \in {"reap", "queued"},
           NEW result \in Verdict \cup {"timeout", "undispatched"}
    PROVE  [c EXCEPT !.pc = pc, !.result = result] \in CallState
  BY DEF CallState

LEMMA CursorRow ==
    ASSUME NEW c \in CallState PROVE [c EXCEPT !.cursor = @ + 1] \in CallState
  BY DEF CallState

LEMMA GotRow ==
    ASSUME NEW c \in CallState, c.got + 1 \in 0..MaxChunks,
           NEW pc \in {"consult", c.pc}
    PROVE  [c EXCEPT !.got = @ + 1, !.pc = pc] \in CallState
  BY DEF CallState

LEMMA ReadTyped ==
    ASSUME Typed, StreamInv, NEW i \in Call, Read(i)
    PROVE  call' \in [Call -> CallState]
  <1> DEFINE c == call[i]
             chunk == out[i][c.cursor + 1]
             read == [c EXCEPT !.cursor = @ + 1]
  <1>1. /\ out[i] \in Seq(Chunk) /\ c \in CallState /\ cli[i] \in DeviceState
        /\ c.cursor + 1 \in 1..Len(out[i])
    BY DEF Typed, Read, Unread, CallState
  <1>2. /\ c.pc \in {"drain", "tail"} /\ c.pc # "done"
        /\ call' = [call EXCEPT ![i] =
             IF chunk \in Verdict
             THEN [read EXCEPT !.pc = "reap", !.result = chunk]
             ELSE [read EXCEPT !.got = @ + 1, !.pc = IF read.due THEN "consult" ELSE @]]
    BY <1>1 DEF Read, CursorMoved, CallState
  <1>3. read \in CallState /\ read.got = c.got
    BY <1>1, CursorRow DEF CallState
  <1>4. chunk \notin Verdict => c.got + 1 \in 0..MaxChunks
    <2>1. SUFFICES ASSUME chunk \notin Verdict PROVE c.got + 1 \in 0..MaxChunks
      OBVIOUS
    <2>2. c.got = c.cursor /\ c.cursor + 1 <= cli[i].posted
      BY <1>1, <1>2, <2>1 DEF StreamInv, StreamOf, CursorOf, DeviceState, CallState
    <2> QED
      BY <1>1, <2>2, ConstantsAssumption DEF DeviceState, CallState
  <1> HIDE DEF c, chunk, read
  <1>5. CASE chunk \in Verdict
    <2>1. [read EXCEPT !.pc = "reap", !.result = chunk] \in CallState
      BY <1>3, <1>5, EndedRow
    <2> QED
      BY <1>2, <1>5, <2>1, RowTyped
  <1>6. CASE chunk \notin Verdict
    <2>1. [read EXCEPT !.got = @ + 1, !.pc = IF read.due THEN "consult" ELSE @] \in CallState
      BY <1>3, <1>4, <1>6, GotRow
    <2> QED
      BY <1>2, <1>6, <2>1, RowTyped
  <1> QED
    BY <1>5, <1>6

LEMMA CallTyped ==
    ASSUME Typed, StreamInv, NEW i \in Call, ToolStep(i)
    PROVE  call' \in [Call -> CallState]
  <1>0. call \in [Call -> CallState]
    BY DEF Typed
  <1>1. CASE WriteHash(i) \/ Enqueue(i) \/ ReadNothing(i) \/ StopDraining(i)
               \/ Reap(i) \/ Unqueue(i) \/ ReapFails(i) \/ CrashCall(i)
    <2>1. \E pc \in {"hashed", "queued", "empty", "consult", "unqueue", "done", "dead"} :
            Moves(i, pc)
      BY <1>1 DEF WriteHash, Enqueue, ReadNothing, StopDraining, Reap, Unqueue,
           ReapFails, CrashCall
    <2>2. PICK pc \in {"hashed", "queued", "empty", "consult", "unqueue", "done", "dead"} :
            Moves(i, pc)
      BY <2>1
    <2>3. call' = [call EXCEPT ![i].pc = pc]
      BY <2>2 DEF Moves
    <2> QED
      BY <2>3, MovesTyped
  <1>2. CASE RecordDispatch(i)
    BY <1>2, MovesTyped DEF RecordDispatch, Moves
  <1>3. CASE IsOver(i)
    BY <1>3, MovesTyped DEF IsOver, AfterEmpty, Moves
  <1>4. CASE DispatchFails(i)
    <2>1. call' = [call EXCEPT ![i] =
                     [call[i] EXCEPT !.pc = "queued", !.result = "undispatched"]]
      BY <1>0, <1>4 DEF DispatchFails
    <2>2. call[i] \in CallState
      BY <1>0
    <2> QED
      BY <2>1, <2>2, EndedRow, RowTyped
  <1>5. CASE Read(i)
    BY <1>5, ReadTyped
  <1>6. CASE Consult(i)
    <2>1. PICK result \in Verdict \cup {"timeout"} :
            call' = [call EXCEPT ![i].pc = "reap", ![i].result = result]
      BY <1>6 DEF Consult, Consulted
    <2>2. call' = [call EXCEPT ![i] = [call[i] EXCEPT !.pc = "reap", !.result = result]]
      BY <1>0, <2>1
    <2>3. call[i] \in CallState
      BY <1>0
    <2> QED
      BY <2>2, <2>3, EndedRow, RowTyped
  <1>7. CASE Deadline(i)
    BY <1>0, <1>7, ZenonT(40) DEF Deadline, CallState
  <1>8. CASE HashExpires(i)
    BY <1>0, <1>8 DEF HashExpires
  <1> QED
    BY <1>1, <1>2, <1>3, <1>4, <1>5, <1>6, <1>7, <1>8 DEF ToolStep, CallStep

LEMMA ToolTyped ==
    ASSUME Typed, NEW i \in Call, ToolStep(i)
    PROVE  /\ hash' \in [Call -> {"absent", "open"} \cup Verdict]
           /\ out' \in [Call -> Seq(Chunk)]
           /\ queue' \in Seq(Call)
           /\ audit' \in [Call -> {"none", "dispatched", "settled"}]
  <1>0. /\ hash \in [Call -> {"absent", "open"} \cup Verdict]
        /\ out \in [Call -> Seq(Chunk)] /\ queue \in Seq(Call)
        /\ audit \in [Call -> {"none", "dispatched", "settled"}]
    BY DEF Typed
  <1>1. CASE WriteHash(i) \/ Reap(i) \/ HashExpires(i)
    <2>1. /\ hash' \in {[hash EXCEPT ![i] = "open"], [hash EXCEPT ![i] = "absent"]}
          /\ UNCHANGED <<out, queue, audit>>
      BY <1>1 DEF WriteHash, Reap, HashExpires
    <2> QED
      BY <1>0, <2>1
  <1>2. CASE Enqueue(i) \/ DispatchFails(i)
    <2>1. /\ queue' \in {queue, Append(queue, i)}
          /\ hash' \in {hash, [hash EXCEPT ![i] = "absent"]}
          /\ UNCHANGED <<out, audit>>
      BY <1>2 DEF Enqueue, DispatchFails
    <2>2. queue' \in Seq(Call)
      <3>1. Append(queue, i) \in Seq(Call)
        BY <1>0
      <3> QED
        BY <1>0, <2>1, <3>1
    <2>3. hash' \in [Call -> {"absent", "open"} \cup Verdict]
      BY <1>0, <2>1
    <2> QED
      BY <1>0, <2>1, <2>2, <2>3
  <1>3. CASE Unqueue(i)
    BY <1>0, <1>3, UnqueuedTyped DEF Unqueue
  <1>4. CASE RecordDispatch(i)
    <2>1. audit' \in {audit, [audit EXCEPT ![i] = "dispatched"]}
            /\ UNCHANGED <<hash, out, queue>>
      BY <1>4 DEF RecordDispatch, redis
    <2> QED
      BY <1>0, <2>1
  <1>5. CASE Read(i) \/ ReadNothing(i) \/ IsOver(i) \/ StopDraining(i) \/ Consult(i)
               \/ ReapFails(i) \/ Deadline(i) \/ CrashCall(i)
    BY <1>0, <1>5 DEF Read, ReadNothing, IsOver, StopDraining, Consult, ReapFails, Deadline,
         CrashCall, redis
  <1> QED
    BY <1>1, <1>2, <1>3, <1>4, <1>5 DEF ToolStep, CallStep

LEMMA DeviceTyped ==
    ASSUME Typed, StreamInv, NEW i \in Call, DeviceStep(i)
    PROVE  /\ cli' \in [Call -> DeviceState]
           /\ hash' \in [Call -> {"absent", "open"} \cup Verdict]
           /\ out' \in [Call -> Seq(Chunk)]
           /\ audit' \in [Call -> {"none", "dispatched", "settled"}]
  <1>0. /\ hash \in [Call -> {"absent", "open"} \cup Verdict]
        /\ out \in [Call -> Seq(Chunk)]
        /\ audit \in [Call -> {"none", "dispatched", "settled"}]
    BY DEF Typed
  <1>1. cli \in [Call -> DeviceState] /\ call \in [Call -> CallState] /\ MaxChunks \in Nat
    BY ConstantsAssumption DEF Typed
  <1>2. CASE PostOutput(i)
    <2>1. cli[i].posted + 1 \in 0..MaxChunks /\ cli[i] \in DeviceState
            /\ cli' = [cli EXCEPT ![i].posted = @ + 1]
      BY <1>1, <1>2 DEF PostOutput, DeviceState
    <2>2. [cli[i] EXCEPT !.posted = @ + 1] \in DeviceState
      BY <2>1 DEF DeviceState
    <2>3. cli' \in [Call -> DeviceState]
      BY <1>1, <2>1, <2>2
    <2>4. out' \in [Call -> Seq(Chunk)]
      BY <1>0, <1>2 DEF PostOutput, Chunk
    <2> QED
      BY <1>0, <1>2, <2>3, <2>4 DEF PostOutput
  <1>3. CASE PostVerdict(i)
    <2>1. PICK verdict \in Verdict :
            /\ out' = [out EXCEPT ![i] = Append(@, verdict)]
            /\ cli' = [cli EXCEPT ![i].pc = "mark", ![i].verdict = verdict]
      BY <1>3 DEF PostVerdict
    <2>2. cli' \in [Call -> DeviceState]
      BY <1>1, <2>1, ZenonT(40) DEF DeviceState
    <2>3. out' \in [Call -> Seq(Chunk)]
      BY <1>0, <2>1 DEF Chunk
    <2> QED
      BY <1>0, <1>3, <2>2, <2>3 DEF PostVerdict
  <1>4. CASE PostRefused(i) \/ MarkFails(i)
    <2>1. /\ cli' \in {[cli EXCEPT ![i].pc = "finished"], [cli EXCEPT ![i].pc = "report"]}
          /\ UNCHANGED <<hash, out, audit>>
      BY <1>4 DEF PostRefused, MarkFails, redis
    <2>2. cli' \in [Call -> DeviceState]
      BY <1>1, <2>1 DEF DeviceState
    <2> QED
      BY <1>0, <2>1, <2>2
  <1>5. CASE Mark(i)
    <2>1. call[i].due \in BOOLEAN
      BY <1>1 DEF CallState
    <2>2. cli' \in [Call -> DeviceState]
      <3>1. [cli[i] EXCEPT !.pc = "report", !.early = ~call[i].due] \in DeviceState
        BY <1>1, <2>1 DEF DeviceState
      <3>2. cli' = [cli EXCEPT ![i] = [cli[i] EXCEPT !.pc = "report", !.early = ~call[i].due]]
        BY <1>1, <1>5 DEF Mark
      <3> QED
        BY <1>1, <3>1, <3>2
    <2>3. cli[i].verdict \in Verdict
      BY <1>1, <1>5 DEF Mark, At, DeviceState, StreamInv, VerdictOf
    <2>4. hash' = [hash EXCEPT ![i] = cli[i].verdict] /\ UNCHANGED <<out, audit>>
      BY <1>5 DEF Mark
    <2> QED
      BY <1>0, <2>2, <2>3, <2>4
  <1>6. CASE RecordResult(i)
    <2>1. cli' \in [Call -> DeviceState]
      BY <1>1, <1>6 DEF RecordResult, DeviceState
    <2>2. /\ audit' \in {audit, [audit EXCEPT ![i] = IF @ = "none" THEN @ ELSE "settled"]}
          /\ UNCHANGED <<hash, out>>
      BY <1>6 DEF RecordResult, redis
    <2> QED
      BY <1>0, <2>1, <2>2
  <1> QED
    BY <1>2, <1>3, <1>4, <1>5, <1>6 DEF DeviceStep

\* The rows of the session table that the handlers write.
LEMMA SessionRows ==
    ASSUME NEW c \in SessionState,
           NEW pc \in {"off", "validated", "read", "loop", "popping", "holding", "yielding",
                       "leaving", "ended"},
           NEW id \in Ticket \cup Session, NEW holds \in Call \cup {None}
    PROVE  /\ [c EXCEPT !.pc = pc] \in SessionState
           /\ [c EXCEPT !.pc = pc, !.id = id] \in SessionState
           /\ [c EXCEPT !.pc = pc, !.holds = holds] \in SessionState
           /\ [c EXCEPT !.closed = TRUE] \in SessionState
           /\ [c EXCEPT !.up = FALSE] \in SessionState
           /\ c.id \in Ticket \cup Session /\ c.proc \in Proc
           /\ c.holds \in Call \cup {None}
  BY ZenonT(40) DEF SessionState

LEMMA SessionTyped ==
    ASSUME Typed, NEW s \in Session, SessionStep(s)
    PROVE  /\ session' \in [Session -> SessionState]
           /\ registry' \in [Proc -> Registry]
           /\ queue' \in Seq(Call)
           /\ cli' \in [Call -> DeviceState]
           /\ ticket' \in Tickets /\ ticket'.now \in ticket'.issued \cup {None}
  <1>0. /\ session \in [Session -> SessionState] /\ registry \in [Proc -> Registry]
        /\ queue \in Seq(Call) /\ cli \in [Call -> DeviceState]
        /\ ticket \in Tickets /\ ticket.now \in ticket.issued \cup {None}
    BY DEF Typed
  <1>1. CASE Validate(s) \/ Wait(s) \/ PopNothing(s) \/ Stop(s)
    <2>1. PICK pc \in {"validated", "leaving", "popping", "loop"} :
            session' = [session EXCEPT ![s].pc = pc]
      BY <1>1 DEF Validate, Wait, PopNothing, Stop, Goes
    <2>2. [session[s] EXCEPT !.pc = pc] \in SessionState
      BY <1>0, SessionRows
    <2>3. session' \in [Session -> SessionState]
      BY <1>0, <2>1, <2>2
    <2> QED
      BY <1>0, <1>1, <2>3 DEF Validate, Wait, PopNothing, Stop, redis
  <1>2. CASE ReadTicket(s)
    <2> DEFINE id == IF ticket.now # None THEN ticket.now ELSE s
    <2>1. id \in Ticket \cup Session
      BY <1>0 DEF Tickets
    <2>2. session' = [session EXCEPT ![s].pc = "read", ![s].id = id]
      BY <1>2 DEF ReadTicket
    <2> HIDE DEF id
    <2>3. [session[s] EXCEPT !.pc = "read", !.id = id] \in SessionState
      BY <1>0, <2>1, SessionRows
    <2>4. session' \in [Session -> SessionState]
      BY <1>0, <2>2, <2>3
    <2> QED
      BY <1>0, <1>2, <2>4 DEF ReadTicket, redis
  <1>3. CASE Register(s)
    <2> DEFINE p == session[s].proc
               id == session[s].id
               prior == registry[p].latest
               others == IF prior = None THEN registry[p].ids
                         ELSE Without(registry[p].ids, session[prior].id)
               ids == [x \in DOMAIN others \cup {id} |-> IF x = id THEN s ELSE others[x]]
    <2>1. p \in Proc /\ id \in Ticket \cup Session /\ registry[p].ids \in Maps
      BY <1>0, SessionRows DEF Registry
    <2>2. /\ ticket' \in {ticket, [ticket EXCEPT !.now = None]}
          /\ registry' = [registry EXCEPT ![p] = [latest |-> s, ids |-> ids]]
          /\ session' = Replaced(s, prior)
          /\ UNCHANGED <<cli, queue>>
      BY <1>3 DEF Register
    <2>3. others \in Maps
      BY <2>1, WithoutMap
    <2>4. ids \in Maps
      <3> HIDE DEF others
      <3> QED
        BY <2>1, <2>3, WithMap
    <2> HIDE DEF ids
    <2>5. registry' \in [Proc -> Registry]
      <3>1. [latest |-> s, ids |-> ids] \in Registry
        BY <2>4 DEF Registry
      <3> QED
        BY <1>0, <2>2, <3>1
    <2>6. session' \in [Session -> SessionState]
      <3>1. \A x \in Session : /\ [session[x] EXCEPT !.pc = "loop"] \in SessionState
                               /\ [session[x] EXCEPT !.closed = TRUE] \in SessionState
        BY <1>0, SessionRows
      <3> QED
        BY <1>0, <2>2, <3>1 DEF Replaced
    <2>7. ticket' \in Tickets /\ ticket'.now \in ticket'.issued \cup {None}
      BY <1>0, <2>2 DEF Tickets
    <2> QED
      BY <1>0, <2>2, <2>5, <2>6, <2>7
  <1>4. CASE Pop(s)
    <2>1. /\ queue # <<>> /\ queue' = Tail(queue)
          /\ session' = [session EXCEPT ![s].pc = "holding", ![s].holds = Head(queue)]
          /\ UNCHANGED <<cli, ticket, registry>>
      BY <1>4 DEF Pop
    <2>2. Head(queue) \in Call /\ Tail(queue) \in Seq(Call)
      BY <1>0, <2>1
    <2>3. [session[s] EXCEPT !.pc = "holding", !.holds = Head(queue)] \in SessionState
      BY <1>0, <2>2, SessionRows
    <2>4. session' \in [Session -> SessionState]
      BY <1>0, <2>1, <2>3
    <2> QED
      BY <1>0, <2>1, <2>2, <2>4
  <1>5. CASE Check(s) \/ Yield(s)
    <2>1. \E pc \in {"yielding", "loop", "leaving"}, h \in {session[s].holds, None} :
            session' = [session EXCEPT ![s].pc = pc, ![s].holds = h]
      <3>1. CASE Check(s)
        <4>1. CASE Goes(s, "yielding")
          <5>1. session' = [session EXCEPT ![s].pc = "yielding", ![s].holds = session[s].holds]
            BY <1>0, <4>1 DEF Goes, SessionState
          <5> QED
            BY <5>1
        <4> QED
          BY <3>1, <4>1 DEF Check
      <3>2. CASE Yield(s)
        BY <3>2 DEF Yield
      <3> QED
        BY <1>5, <3>1, <3>2
    <2>2. PICK pc \in {"yielding", "loop", "leaving"}, h \in {session[s].holds, None} :
            session' = [session EXCEPT ![s].pc = pc, ![s].holds = h]
      BY <2>1
    <2>3. [session[s] EXCEPT !.pc = pc, !.holds = h] \in SessionState
      <3>1. session[s] \in SessionState /\ h \in Call \cup {None}
        BY <1>0, SessionRows
      <3> QED
        BY <3>1, SessionRows
    <2>4. session' \in [Session -> SessionState]
      BY <1>0, <2>2, <2>3
    <2>5. cli' = cli \/ \E i : cli' = [cli EXCEPT ![i].pc = "working"]
      BY <1>5 DEF Check, Yield
    <2>6. cli' \in [Call -> DeviceState]
      <3>1. \A d \in DeviceState : [d EXCEPT !.pc = "working"] \in DeviceState
        BY DEF DeviceState
      <3> QED
        BY <1>0, <2>5, <3>1
    <2> QED
      BY <1>0, <1>5, <2>4, <2>6 DEF Check, Yield, redis
  <1>6. CASE Disconnect(s)
    <2>1. [session[s] EXCEPT !.up = FALSE] \in SessionState
      BY <1>0, SessionRows
    <2>2. session' \in [Session -> SessionState]
      BY <1>0, <1>6, <2>1 DEF Disconnect
    <2> QED
      BY <1>0, <1>6, <2>2 DEF Disconnect, redis
  <1>7. CASE Leave(s)
    <2> DEFINE p == session[s].proc
               id == session[s].id
               found == IF id \in DOMAIN registry[p].ids THEN registry[p].ids[id]
                        ELSE None
    <2>1. /\ registry' = [registry EXCEPT
                ![p].ids = Without(@, id),
                ![p].latest = IF @ = found THEN None ELSE @]
          /\ session' = [x \in Session |->
               IF x = s THEN [session[x] EXCEPT !.pc = "ended"]
               ELSE IF x = found THEN [session[x] EXCEPT !.closed = TRUE]
               ELSE session[x]]
      BY <1>7 DEF Leave
    <2>2. p \in Proc /\ registry[p] \in Registry
      BY <1>0, SessionRows
    <2>3. Without(registry[p].ids, id) \in Maps
      BY <2>2, WithoutMap DEF Registry
    <2> HIDE DEF p, id, found
    <2>4. registry' \in [Proc -> Registry]
      <3> DEFINE new == [registry[p] EXCEPT !.ids = Without(@, id),
                                            !.latest = IF @ = found THEN None ELSE @]
      <3>1. registry' = [registry EXCEPT ![p] = new]
        BY <1>0, <2>1, <2>2
      <3>2. new \in Registry
        BY <2>2, <2>3 DEF Registry
      <3> QED
        BY <1>0, <3>1, <3>2
    <2>5. \A x \in Session : /\ [session[x] EXCEPT !.pc = "ended"] \in SessionState
                             /\ [session[x] EXCEPT !.closed = TRUE] \in SessionState
      BY <1>0, SessionRows
    <2>6. session' \in [Session -> SessionState]
      BY <1>0, <2>1, <2>5
    <2> QED
      BY <1>0, <1>7, <2>4, <2>6 DEF Leave, redis
  <1> QED
    BY <1>1, <1>2, <1>3, <1>4, <1>5, <1>6, <1>7 DEF SessionStep

LEMMA TicketTyped ==
    ASSUME Typed, (\E t \in Ticket : Poll(t)) \/ TicketExpires
    PROVE  ticket' \in Tickets /\ ticket'.now \in ticket'.issued \cup {None}
  <1>0. ticket \in Tickets
    BY DEF Typed
  <1>1. CASE \E t \in Ticket : Poll(t)
    BY <1>0, <1>1 DEF Tickets, Poll
  <1>2. CASE TicketExpires
    BY <1>0, <1>2 DEF Tickets, TicketExpires
  <1> QED
    BY <1>1, <1>2

LEMMA TypedInit == ASSUME Init PROVE Typed
  <1>1. call \in [Call -> CallState] /\ cli \in [Call -> DeviceState]
    BY ConstantsAssumption DEF Init, CallState, DeviceState
  <1>2. /\ hash \in [Call -> {"absent", "open"} \cup Verdict]
        /\ out \in [Call -> Seq(Chunk)] /\ queue \in Seq(Call)
        /\ audit \in [Call -> {"none", "dispatched", "settled"}]
    BY DEF Init
  <1>3. session \in [Session -> SessionState]
    <2>1. \A s \in Session, p \in Proc :
            [pc |-> "off", id |-> s, proc |-> p, closed |-> FALSE, up |-> TRUE,
             holds |-> None] \in SessionState
      BY DEF SessionState
    <2> QED
      BY <2>1 DEF Init
  <1>4. ticket \in Tickets /\ ticket.now \in ticket.issued \cup {None}
    BY DEF Init, Tickets
  <1>5. registry \in [Proc -> Registry]
    <2>1. << >> \in [{} -> Session] /\ {} \in SUBSET (Ticket \cup Session)
      OBVIOUS
    <2>2. << >> \in Maps
      BY <2>1 DEF Maps
    <2> QED
      BY <2>2 DEF Init, Registry
  <1> QED
    BY <1>1, <1>2, <1>3, <1>4, <1>5 DEF Typed

\* Every step keeps the types, where the streams are as they should be.
LEMMA TypedStep ==
    ASSUME Typed, StreamInv, [Next]_vars PROVE Typed'
  <1>1. CASE \E i \in Call : ToolStep(i)
    <2>1. PICK i \in Call : ToolStep(i)
      BY <1>1
    <2> QED
      BY <2>1, CallTyped, ToolTyped, ToolFrame DEF Typed
  <1>2. CASE \E i \in Call : DeviceStep(i)
    <2>1. PICK i \in Call : DeviceStep(i)
      BY <1>2
    <2> QED
      BY <2>1, DeviceTyped, DeviceFrame DEF Typed
  <1>3. CASE \E s \in Session : SessionStep(s)
    <2>1. PICK s \in Session : SessionStep(s)
      BY <1>3
    <2> QED
      BY <2>1, SessionTyped, SessionFrame DEF Typed
  <1>4. CASE (\E t \in Ticket : Poll(t)) \/ TicketExpires
    BY <1>4, TicketTyped, TicketFrame DEF Typed
  <1>5. CASE UNCHANGED vars
    BY <1>5 DEF Typed, vars, redis
  <1> QED
    BY <1>1, <1>2, <1>3, <1>4, <1>5, Steps

-----------------------------------------------------------------------------
\* What a step does to an invocation

\* Nothing but the program counter of a tool call moves.
Kept(i) ==
    /\ call'[i].due = call[i].due /\ call'[i].cursor = call[i].cursor
    /\ call'[i].got = call[i].got /\ call'[i].result = call[i].result

Goto(i, pc) == call'[i].pc = pc /\ Kept(i)

Same(i) ==
    /\ call'[i] = call[i] /\ cli'[i] = cli[i] /\ hash'[i] = hash[i] /\ out'[i] = out[i]

\* A chunk of output is taken, or the verdict.
Took(i) ==
    LET chunk == out[i][call[i].cursor + 1] IN
    /\ call[i].pc \in {"drain", "tail"} /\ Unread(i)
    /\ call'[i].due = call[i].due /\ call'[i].cursor = call[i].cursor + 1
    /\ \/ /\ chunk \in Verdict /\ call'[i].pc = "reap" /\ call'[i].result = chunk
          /\ call'[i].got = call[i].got
       \/ /\ chunk \notin Verdict /\ call'[i].result = call[i].result
          /\ call'[i].pc = IF call[i].due THEN "consult" ELSE call[i].pc
          /\ call'[i].got = call[i].got + 1

\* The steps of a tool call, on its own row.
ToolMove(i) ==
    \/ In(i, "idle") /\ Goto(i, "hashed") /\ hash'[i] = "open" /\ out'[i] = out[i]
    \/ In(i, "hashed") /\ Goto(i, "queued") /\ hash'[i] = hash[i] /\ out'[i] = out[i]
    \/ /\ Faults /\ call[i].pc \in {"idle", "hashed"} /\ call'[i].pc = "queued"
       /\ call'[i].cursor = call[i].cursor /\ call'[i].got = call[i].got
       /\ call'[i].due = call[i].due /\ call'[i].result = "undispatched"
       /\ hash'[i] \in {hash[i], "absent"} /\ out'[i] = out[i]
    \/ /\ In(i, "queued") /\ Goto(i, IF call[i].result = "none" THEN "drain" ELSE "done")
       /\ hash'[i] = hash[i] /\ out'[i] = out[i]
    \/ Took(i) /\ hash'[i] = hash[i] /\ out'[i] = out[i]
    \/ /\ In(i, "drain") /\ Goto(i, "empty")
       /\ hash'[i] = hash[i] /\ out'[i] = out[i]
    \/ In(i, "empty") /\ Goto(i, AfterEmpty(i)) /\ hash'[i] = hash[i] /\ out'[i] = out[i]
    \/ /\ \/ In(i, "tail") /\ ~Unread(i)
          \/ Faults /\ call[i].pc \in {"drain", "tail"}
       /\ Goto(i, "consult") /\ hash'[i] = hash[i] /\ out'[i] = out[i]
    \/ /\ In(i, "consult") /\ call'[i].pc = "reap"
       /\ call'[i].cursor = call[i].cursor /\ call'[i].got = call[i].got
       /\ call'[i].due = call[i].due
       /\ \/ call'[i].result = Consulted(i)
          \/ Faults /\ call'[i].result = "timeout"
       /\ hash'[i] = hash[i] /\ out'[i] = out[i]
    \/ In(i, "reap") /\ Goto(i, "unqueue") /\ hash'[i] = "absent" /\ out'[i] = out[i]
    \/ In(i, "unqueue") /\ Goto(i, "done") /\ hash'[i] = hash[i]
    \/ /\ Faults /\ call[i].pc \in {"reap", "unqueue"} /\ Goto(i, "done")
       /\ hash'[i] = hash[i] /\ out'[i] = out[i]
    \/ /\ call[i].pc \in {"drain", "empty", "tail"} /\ call'[i].pc = call[i].pc
       /\ ~call[i].due /\ call'[i].due /\ call'[i].cursor = call[i].cursor
       /\ call'[i].got = call[i].got /\ call'[i].result = call[i].result
       /\ hash'[i] = hash[i] /\ out'[i] = out[i]
    \/ /\ call[i].pc \notin {"idle", "done", "dead"} /\ Goto(i, "dead")
       /\ hash'[i] = hash[i] /\ out'[i] = out[i]
    \/ /\ call[i].pc \in {"done", "dead"} /\ Goto(i, call[i].pc)
       /\ hash'[i] = "absent" /\ out'[i] = out[i]

LEMMA MovesGoto ==
    ASSUME Typed, NEW i \in Call, NEW pc, Moves(i, pc) PROVE Goto(i, pc)
  <1>1. call \in [Call -> CallState]
    BY DEF Typed
  <1> QED
    BY <1>1 DEF Moves, Goto, Kept, CallState

LEMMA ToolMoves ==
    ASSUME Typed, NEW i \in Call, ToolStep(i) PROVE ToolMove(i)
  <1>0. /\ call \in [Call -> CallState] /\ hash \in [Call -> {"absent", "open"} \cup Verdict]
        /\ out \in [Call -> Seq(Chunk)]
    BY DEF Typed
  <1>1. CASE WriteHash(i)
    BY <1>0, <1>1, MovesGoto DEF WriteHash, ToolMove
  <1>2. CASE Enqueue(i)
    BY <1>2, MovesGoto DEF Enqueue, ToolMove
  <1>3. CASE DispatchFails(i)
    BY <1>0, <1>3 DEF DispatchFails, ToolMove, CallState
  <1>4. CASE RecordDispatch(i)
    BY <1>4, MovesGoto DEF RecordDispatch, ToolMove, redis
  <1>5. CASE Read(i)
    <2>1. Took(i) /\ UNCHANGED <<hash, out>>
      BY <1>0, <1>5 DEF Read, Took, CursorMoved, redis, CallState
    <2> QED
      BY <2>1 DEF ToolMove
  <1>6. CASE ReadNothing(i)
    BY <1>6, MovesGoto DEF ReadNothing, ToolMove, redis
  <1>7. CASE IsOver(i)
    BY <1>7, MovesGoto DEF IsOver, ToolMove, redis
  <1>8. CASE StopDraining(i)
    BY <1>8, MovesGoto DEF StopDraining, ToolMove, redis
  <1>9. CASE Consult(i)
    <2>1. PICK result \in {Consulted(i)} \cup (IF Faults THEN {"timeout"} ELSE {}) :
            call' = [call EXCEPT ![i].pc = "reap", ![i].result = result]
      BY <1>9 DEF Consult
    <2>3. result = Consulted(i) \/ (Faults /\ result = "timeout")
      OBVIOUS
    <2>2. /\ call'[i].pc = "reap" /\ call'[i].result = result
          /\ call'[i].cursor = call[i].cursor /\ call'[i].got = call[i].got
          /\ call'[i].due = call[i].due
      BY <1>0, <2>1 DEF CallState
    <2> QED
      BY <1>9, <2>3, <2>2 DEF Consult, ToolMove, redis
  <1>10. CASE Reap(i)
    BY <1>0, <1>10, MovesGoto DEF Reap, ToolMove
  <1>11. CASE Unqueue(i)
    BY <1>11, MovesGoto DEF Unqueue, ToolMove
  <1>12. CASE ReapFails(i)
    BY <1>12, MovesGoto DEF ReapFails, ToolMove, redis
  <1>13. CASE Deadline(i)
    BY <1>0, <1>13 DEF Deadline, ToolMove, redis, CallState
  <1>14. CASE CrashCall(i)
    BY <1>14, MovesGoto DEF CrashCall, ToolMove, redis
  <1>15. CASE HashExpires(i)
    BY <1>0, <1>15 DEF HashExpires, ToolMove, Goto, Kept
  <1> QED
    BY <1>1, <1>2, <1>3, <1>4, <1>5, <1>6, <1>7, <1>8, <1>9, <1>10, <1>11, <1>12,
       <1>13, <1>14, <1>15 DEF ToolStep, CallStep

\* The other invocations are left as they are.
LEMMA ToolOthers ==
    ASSUME Typed, NEW i \in Call, ToolStep(i), NEW j \in Call, j # i PROVE Same(j)
  <1>0. /\ call \in [Call -> CallState] /\ hash \in [Call -> {"absent", "open"} \cup Verdict]
        /\ out \in [Call -> Seq(Chunk)]
    BY DEF Typed
  <1>1. cli'[j] = cli[j]
    BY ToolFrame
  <1>2. call'[j] = call[j]
    BY <1>0 DEF ToolStep, CallStep, WriteHash, Enqueue, DispatchFails, RecordDispatch, Read,
         ReadNothing, IsOver, StopDraining, Consult, Reap, Unqueue, ReapFails, Deadline,
         CrashCall, HashExpires, Moves
  <1>3. hash'[j] = hash[j]
    BY <1>0 DEF ToolStep, CallStep, WriteHash, Enqueue, DispatchFails, RecordDispatch, Read,
         ReadNothing, IsOver, StopDraining, Consult, Reap, Unqueue, ReapFails, Deadline,
         CrashCall, HashExpires, redis
  <1>4. out'[j] = out[j]
    BY <1>0 DEF ToolStep, CallStep, WriteHash, Enqueue, DispatchFails, RecordDispatch, Read,
         ReadNothing, IsOver, StopDraining, Consult, Reap, Unqueue, ReapFails, Deadline,
         CrashCall, HashExpires, redis
  <1> QED
    BY <1>1, <1>2, <1>3, <1>4 DEF Same

\* The device's requests, on the row of their invocation.
DeviceMove(i) ==
    \/ /\ At(i, "working") /\ hash[i] # "absent" /\ cli'[i].pc = "working"
       /\ cli'[i].posted = cli[i].posted + 1 /\ out'[i] = Append(out[i], "output")
       /\ cli'[i].verdict = cli[i].verdict /\ cli'[i].early = cli[i].early
       /\ hash'[i] = hash[i]
    \/ \E verdict \in Verdict :
         /\ At(i, "working") /\ hash[i] # "absent" /\ cli'[i].pc = "mark"
         /\ cli'[i].posted = cli[i].posted /\ out'[i] = Append(out[i], verdict)
         /\ cli'[i].verdict = verdict /\ cli'[i].early = cli[i].early
         /\ hash'[i] = hash[i]
    \/ /\ At(i, "mark") /\ hash'[i] = cli[i].verdict /\ cli'[i].pc = "report"
       /\ cli'[i].early = ~call[i].due /\ cli'[i].posted = cli[i].posted
       /\ cli'[i].verdict = cli[i].verdict /\ out'[i] = out[i]
    \/ /\ \/ At(i, "working") /\ cli'[i].pc = "finished"
          \/ At(i, "mark") /\ cli'[i].pc = "report"
          \/ At(i, "report") /\ cli'[i].pc = "finished"
       /\ cli'[i].posted = cli[i].posted /\ cli'[i].verdict = cli[i].verdict
       /\ cli'[i].early = cli[i].early /\ hash'[i] = hash[i] /\ out'[i] = out[i]

LEMMA DeviceMoves ==
    ASSUME Typed, NEW i \in Call, DeviceStep(i)
    PROVE  DeviceMove(i) /\ \A j \in Call \ {i} : Same(j)
  <1>0. /\ cli \in [Call -> DeviceState] /\ hash \in [Call -> {"absent", "open"} \cup Verdict]
        /\ out \in [Call -> Seq(Chunk)]
    BY DEF Typed
  <1>1. DeviceMove(i)
    <2>1. CASE PostOutput(i)
      BY <1>0, <2>1 DEF PostOutput, DeviceMove, DeviceState, At
    <2>2. CASE PostVerdict(i)
      BY <1>0, <2>2 DEF PostVerdict, DeviceMove, DeviceState, At
    <2>3. CASE PostRefused(i)
      BY <1>0, <2>3 DEF PostRefused, DeviceMove, DeviceState, At, redis
    <2>4. CASE Mark(i)
      BY <1>0, <2>4 DEF Mark, DeviceMove, DeviceState, At
    <2>5. CASE MarkFails(i)
      BY <1>0, <2>5 DEF MarkFails, DeviceMove, DeviceState, At, redis
    <2>6. CASE RecordResult(i)
      BY <1>0, <2>6 DEF RecordResult, DeviceMove, DeviceState, At, redis
    <2> QED
      BY <2>1, <2>2, <2>3, <2>4, <2>5, <2>6 DEF DeviceStep
  <1>2. ASSUME NEW j \in Call \ {i} PROVE Same(j)
    BY <1>0, DeviceFrame DEF Same, DeviceStep, PostOutput, PostVerdict, PostRefused, Mark,
         MarkFails, RecordResult, redis
  <1> QED
    BY <1>1, <1>2

\* A session delivers an envelope, or changes no invocation.
Delivered(i) ==
    /\ At(i, "away") /\ cli'[i].pc = "working"
    /\ cli'[i].posted = cli[i].posted /\ cli'[i].verdict = cli[i].verdict
    /\ cli'[i].early = cli[i].early

LEMMA SessionMoves ==
    ASSUME Typed, NEW s \in Session, SessionStep(s), NEW i \in Call
    PROVE  \/ cli'[i] = cli[i]
           \/ Delivered(i) /\ Is(s, "yielding") /\ session[s].holds = i
  <1>0. cli \in [Call -> DeviceState]
    BY DEF Typed
  <1>1. CASE Yield(s)
    BY <1>0, <1>1 DEF Yield, Delivered, At, DeviceState
  <1>2. CASE ~Yield(s)
    <2>1. cli' = cli
      BY <1>2 DEF SessionStep, Validate, ReadTicket, Register, Wait, Pop, PopNothing, Check,
           Disconnect, Stop, Leave, redis
    <2> QED
      BY <2>1
  <1> QED
    BY <1>1, <1>2

\* Any step, on the row of one invocation.
LEMMA RowMoves ==
    ASSUME Typed, [Next]_vars, NEW i \in Call
    PROVE  \/ ToolMove(i) /\ cli'[i] = cli[i] /\ UNCHANGED session
           \/ DeviceMove(i) /\ call'[i] = call[i] /\ UNCHANGED <<session, queue>>
           \/ /\ Delivered(i) /\ call'[i] = call[i] /\ hash'[i] = hash[i] /\ out'[i] = out[i]
              /\ \E s \in Session : /\ SessionStep(s) /\ Is(s, "yielding")
                                    /\ session[s].holds = i
           \/ Same(i)
  <1>1. CASE \E j \in Call : ToolStep(j)
    <2>1. PICK j \in Call : ToolStep(j)
      BY <1>1
    <2> QED
      BY <2>1, ToolMoves, ToolOthers, ToolFrame
  <1>2. CASE \E j \in Call : DeviceStep(j)
    <2>1. PICK j \in Call : DeviceStep(j)
      BY <1>2
    <2>2. UNCHANGED <<call, session, queue>>
      BY <2>1, DeviceFrame
    <2> QED
      BY <2>1, <2>2, DeviceMoves
  <1>3. CASE \E s \in Session : SessionStep(s)
    <2>1. PICK s \in Session : SessionStep(s)
      BY <1>3
    <2>2. call'[i] = call[i] /\ hash'[i] = hash[i] /\ out'[i] = out[i]
      BY <2>1, SessionFrame
    <2> QED
      BY <2>1, <2>2, SessionMoves DEF Same
  <1>4. CASE (\E t \in Ticket : Poll(t)) \/ TicketExpires
    BY <1>4, TicketFrame DEF Same
  <1>5. CASE UNCHANGED vars
    BY <1>5 DEF Same, vars, redis
  <1> QED
    BY <1>1, <1>2, <1>3, <1>4, <1>5, Steps

\* What is known of a row's fields.
LEMMA RowTypes ==
    ASSUME Typed, NEW i \in Call
    PROVE  /\ call[i].pc \in {"idle", "hashed", "queued", "drain", "empty", "tail", "consult",
                             "reap", "unqueue", "done", "dead"}
           /\ call[i].due \in BOOLEAN /\ call[i].cursor \in Nat /\ call[i].got \in Nat
           /\ call[i].result \in Verdict \cup {"none", "timeout", "undispatched"}
           /\ cli[i].pc \in {"away", "working", "mark", "report", "finished"}
           /\ cli[i].posted \in Nat /\ cli[i].verdict \in Verdict \cup {"none"}
           /\ cli[i].early \in BOOLEAN
           /\ hash[i] \in {"absent", "open"} \cup Verdict /\ out[i] \in Seq(Chunk)
  <1>1. call[i] \in CallState /\ cli[i] \in DeviceState /\ out[i] \in Seq(Chunk)
        /\ hash[i] \in {"absent", "open"} \cup Verdict
    BY DEF Typed
  <1> QED
    BY <1>1, ConstantsAssumption DEF CallState, DeviceState

-----------------------------------------------------------------------------
\* The stream, its verdict and its reader

LEMMA StreamInit == ASSUME Init PROVE StreamInv
  <1>1. SUFFICES ASSUME NEW i \in Call PROVE StreamOf(i) /\ VerdictOf(i) /\ CursorOf(i)
    BY DEF StreamInv
  <1>2. /\ call[i].pc = "idle" /\ call[i].got = 0 /\ call[i].cursor = 0
        /\ call[i].result = "none" /\ cli[i].pc = "away" /\ cli[i].posted = 0
        /\ cli[i].verdict = "none" /\ hash[i] = "absent" /\ out[i] = << >>
    BY DEF Init
  <1> QED
    BY <1>2 DEF StreamOf, VerdictOf, CursorOf, Verdict

LEMMA ToolStream ==
    ASSUME Typed, NEW i \in Call, StreamOf(i), VerdictOf(i), CursorOf(i), ToolMove(i),
           cli'[i] = cli[i]
    PROVE  StreamOf(i)' /\ VerdictOf(i)' /\ CursorOf(i)'
  <1>0. USE RowTypes
  <1>1. StreamOf(i)'
    <2>1. \/ call'[i].pc = "done"
          \/ out'[i] = out[i] /\ call[i].pc # "done"
          \/ out'[i] = out[i] /\ call'[i].pc = call[i].pc
      BY DEF ToolMove, Goto, Took, In
    <2> QED
      BY <2>1 DEF StreamOf
  <1>2. VerdictOf(i)'
    <2>1. hash'[i] \in {hash[i], "open", "absent"}
      BY DEF ToolMove, Goto, Took
    <2> QED
      BY <2>1 DEF VerdictOf, Verdict
  <1>3. CursorOf(i)'
    <2>1. CASE Took(i)
      <3> DEFINE chunk == out[i][call[i].cursor + 1]
      <3>1. CASE chunk \in Verdict
        BY <2>1, <3>1 DEF Took, CursorOf
      <3>2. CASE chunk \notin Verdict
        <4>1. call[i].cursor + 1 <= Len(out[i])
          BY <2>1 DEF Took, Unread
        <4>2. call[i].cursor + 1 <= cli[i].posted
          <5>1. call[i].cursor <= cli[i].posted
            BY <2>1 DEF Took, CursorOf
          <5>2. call[i].cursor # cli[i].posted
            <6>1. SUFFICES ASSUME call[i].cursor = cli[i].posted PROVE FALSE
              OBVIOUS
            <6>2. Len(out[i]) = cli[i].posted + (IF cli[i].verdict = "none" THEN 0 ELSE 1)
              BY <2>1 DEF Took, StreamOf
            <6>3. cli[i].verdict # "none"
              BY <4>1, <6>1, <6>2
            <6>4. chunk = cli[i].verdict
              BY <2>1, <6>1, <6>3 DEF Took, StreamOf
            <6> QED
              BY <3>2, <6>3, <6>4
          <5> QED
            BY <5>1, <5>2
        <4> QED
          BY <2>1, <3>2, <4>2 DEF Took, CursorOf
      <3> QED
        BY <3>1, <3>2
    <2>2. CASE ~Took(i)
      BY <2>2 DEF ToolMove, Goto, Kept, CursorOf, In, AfterEmpty
    <2> QED
      BY <2>1, <2>2
  <1> QED
    BY <1>1, <1>2, <1>3

LEMMA DeviceStream ==
    ASSUME Typed, NEW i \in Call, StreamOf(i), VerdictOf(i), CursorOf(i), DeviceMove(i),
           call'[i] = call[i]
    PROVE  StreamOf(i)' /\ VerdictOf(i)' /\ CursorOf(i)'
  <1>0. USE RowTypes
  <1>1. CASE At(i, "working") /\ out'[i] = Append(out[i], "output")
             /\ cli'[i].pc = "working" /\ cli'[i].posted = cli[i].posted + 1
             /\ cli'[i].verdict = cli[i].verdict /\ hash'[i] = hash[i]
    <2>1. cli[i].verdict = "none"
      BY <1>1 DEF VerdictOf, At
    <2>2. StreamOf(i)'
      BY <1>1, <2>1 DEF StreamOf, Chunk
    <2> QED
      BY <1>1, <2>1, <2>2 DEF VerdictOf, CursorOf
  <1>2. ASSUME NEW verdict \in Verdict,
               At(i, "working") /\ out'[i] = Append(out[i], verdict)
               /\ cli'[i].pc = "mark" /\ cli'[i].posted = cli[i].posted
               /\ cli'[i].verdict = verdict /\ hash'[i] = hash[i]
        PROVE  StreamOf(i)' /\ VerdictOf(i)' /\ CursorOf(i)'
    <2>1. cli[i].verdict = "none"
      BY <1>2 DEF VerdictOf, At
    <2>2. StreamOf(i)'
      BY <1>2, <2>1 DEF StreamOf, Chunk, Verdict
    <2> QED
      BY <1>2, <2>1, <2>2 DEF VerdictOf, CursorOf, Verdict
  <1>3. CASE cli[i].pc # "away" /\ cli'[i].pc \in {"report", "finished"}
             /\ cli'[i].posted = cli[i].posted /\ cli'[i].verdict = cli[i].verdict
             /\ out'[i] = out[i]
             /\ (hash'[i] = hash[i] \/ (At(i, "mark") /\ hash'[i] = cli[i].verdict))
             /\ (cli'[i].pc = "report" => At(i, "mark"))
    BY <1>3 DEF StreamOf, VerdictOf, CursorOf, At
  <1> QED
    BY <1>1, <1>2, <1>3 DEF DeviceMove, At

\* The stream holds the output, then the verdict, under every step.
LEMMA StreamStep == ASSUME Typed, StreamInv, [Next]_vars PROVE StreamInv'
  <1>1. SUFFICES ASSUME NEW i \in Call
                 PROVE  StreamOf(i)' /\ VerdictOf(i)' /\ CursorOf(i)'
    BY DEF StreamInv
  <1>2. StreamOf(i) /\ VerdictOf(i) /\ CursorOf(i)
    BY DEF StreamInv
  <1>3. CASE ToolMove(i) /\ cli'[i] = cli[i]
    BY <1>2, <1>3, ToolStream
  <1>4. CASE DeviceMove(i) /\ call'[i] = call[i]
    BY <1>2, <1>4, DeviceStream
  <1>5. CASE Delivered(i) /\ call'[i] = call[i] /\ hash'[i] = hash[i] /\ out'[i] = out[i]
    BY <1>2, <1>5 DEF Delivered, At, StreamOf, VerdictOf, CursorOf
  <1>6. CASE Same(i)
    BY <1>2, <1>6 DEF Same, StreamOf, VerdictOf, CursorOf
  <1> QED
    BY <1>3, <1>4, <1>5, <1>6, RowMoves

Base == Typed /\ StreamInv

LEMMA BaseAlways == Spec => []Base
  <1>1. Init => Base
    BY TypedInit, StreamInit DEF Base
  <1>2. Base /\ [Next]_vars => Base'
    BY TypedStep, StreamStep DEF Base
  <1> QED
    BY <1>1, <1>2, PTL DEF Spec

\* The state has its types; in particular the tool never counts more output
\* than the device can post.
THEOREM BrokerTypes == Spec => []TypeOK
  <1>1. Base => TypeOK
    BY TypedIsTypeOK DEF Base
  <1> QED
    BY <1>1, BaseAlways, PTL

-----------------------------------------------------------------------------
\* One live session

Live(s) == session[s].pc \in {"loop", "popping", "holding", "yielding"} /\ ~session[s].closed

\* The maps of its process lead to it.
Found(s) ==
    LET r == registry[session[s].proc] IN
    /\ r.latest = s
    /\ session[s].id \in DOMAIN r.ids
    /\ r.ids[session[s].id] = s

\* A live session stays where it was found.
LEMMA StaysFound ==
    ASSUME NEW s \in Session, Live(s) => Found(s), UNCHANGED registry,
           Live(s)' => /\ Live(s) /\ session'[s].id = session[s].id
                       /\ session'[s].proc = session[s].proc
    PROVE  Live(s)' => Found(s)'
  BY DEF Found

\* A session that takes its place is in the loop; every other keeps its step,
\* and all keep their names and processes.
LEMMA ReplacedKeeps ==
    ASSUME session \in [Session -> SessionState],
           NEW s \in Session, NEW prior, NEW x \in Session
    PROVE  /\ Replaced(s, prior)[x].pc = IF x = s THEN "loop" ELSE session[x].pc
           /\ Replaced(s, prior)[x].id = session[x].id
           /\ Replaced(s, prior)[x].proc = session[x].proc
  <1> DEFINE c == session[x]
  <1>1. c \in SessionState
    OBVIOUS
  <1>2. Replaced(s, prior)[x] = IF x = s THEN [c EXCEPT !.pc = "loop"]
                                ELSE IF x = prior THEN [c EXCEPT !.closed = TRUE] ELSE c
    BY DEF Replaced
  <1> HIDE DEF c
  <1>3. /\ [c EXCEPT !.pc = "loop"].pc = "loop"
        /\ [c EXCEPT !.pc = "loop"].id = c.id /\ [c EXCEPT !.pc = "loop"].proc = c.proc
        /\ [c EXCEPT !.closed = TRUE].pc = c.pc
        /\ [c EXCEPT !.closed = TRUE].id = c.id /\ [c EXCEPT !.closed = TRUE].proc = c.proc
    BY <1>1 DEF SessionState
  <1> QED
    BY <1>2, <1>3 DEF c

LEMMA RegisterFound ==
    ASSUME Typed, NEW s \in Session, Register(s), NEW x \in Session, Live(x) => Found(x)
    PROVE  Live(x)' => Found(x)'
  <1> DEFINE p == session[s].proc
             id == session[s].id
             prior == registry[p].latest
             others == IF prior = None THEN registry[p].ids
                       ELSE Without(registry[p].ids, session[prior].id)
             ids == [y \in DOMAIN others \cup {id} |-> IF y = id THEN s ELSE others[y]]
  <1>1. /\ session \in [Session -> SessionState] /\ registry \in [Proc -> Registry]
        /\ p \in Proc
    BY SessionRows DEF Typed
  <1>2. /\ registry' = [registry EXCEPT ![p] = [latest |-> s, ids |-> ids]]
        /\ session' = Replaced(s, prior) /\ Is(s, "read")
    BY DEF Register
  <1>3. CASE x = s
    <2>1. session'[s].id = id /\ session'[s].proc = p
      BY <1>1, <1>2, <1>3, ReplacedKeeps
    <2>2. registry'[p].latest = s /\ registry'[p].ids = ids
      BY <1>1, <1>2
    <2>3. id \in DOMAIN ids /\ ids[id] = s
      OBVIOUS
    <2> HIDE DEF ids, id, p
    <2> QED
      BY <1>3, <2>1, <2>2, <2>3 DEF Found
  <1>4. CASE x # s /\ session[x].proc = p
    <2>1. SUFFICES ASSUME Live(x)' PROVE FALSE
      OBVIOUS
    <2>2. x # prior
      BY <1>1, <1>2, <1>4, <2>1 DEF Replaced, Live, SessionState
    <2>3. session'[x] = session[x]
      BY <1>2, <1>4, <2>2 DEF Replaced
    <2>4. Live(x)
      BY <2>1, <2>3 DEF Live
    <2> QED
      BY <1>4, <2>2, <2>4 DEF Found
  <1>5. CASE x # s /\ session[x].proc # p
    <2>1. /\ session'[x].pc = session[x].pc /\ session'[x].id = session[x].id
          /\ session'[x].proc = session[x].proc
          /\ session'[x].closed = session[x].closed \/ session'[x].closed = TRUE
      <3>1. session'[x] \in {session[x], [session[x] EXCEPT !.closed = TRUE]}
        BY <1>2, <1>5 DEF Replaced
      <3>2. session[x] \in SessionState
        BY <1>1
      <3> QED
        BY <3>1, <3>2 DEF SessionState
    <2>2. registry'[session[x].proc] = registry[session[x].proc]
      BY <1>1, <1>2, <1>5, SessionRows
    <2> QED
      BY <2>1, <2>2 DEF Live, Found
  <1> QED
    BY <1>3, <1>4, <1>5

LEMMA LeaveFound ==
    ASSUME Typed, NEW s \in Session, Leave(s), NEW x \in Session, Live(x) => Found(x)
    PROVE  Live(x)' => Found(x)'
  <1> DEFINE p == session[s].proc
             id == session[s].id
             found == IF id \in DOMAIN registry[p].ids THEN registry[p].ids[id] ELSE None
  <1>1. /\ session \in [Session -> SessionState] /\ registry \in [Proc -> Registry]
        /\ p \in Proc
    BY SessionRows DEF Typed
  <1>2. /\ registry' = [registry EXCEPT ![p].ids = Without(@, id),
                                       ![p].latest = IF @ = found THEN None ELSE @]
        /\ session' = [y \in Session |->
             IF y = s THEN [session[y] EXCEPT !.pc = "ended"]
             ELSE IF y = found THEN [session[y] EXCEPT !.closed = TRUE]
             ELSE session[y]]
    BY DEF Leave
  <1>3. SUFFICES ASSUME Live(x)' PROVE Found(x)'
    OBVIOUS
  <1>4. x # s /\ x # found
    <2>1. x # s
      BY <1>1, <1>2, <1>3 DEF Live, SessionState
    <2>2. x # found
      BY <1>1, <1>2, <1>3, <2>1 DEF Live, SessionState
    <2> QED
      BY <2>1, <2>2
  <1>5. session'[x] = session[x] /\ Live(x) /\ Found(x)
    <2>1. session'[x] = session[x]
      BY <1>2, <1>4
    <2> QED
      BY <1>3, <2>1 DEF Live
  <1>6. CASE session[x].proc = p
    <2>1. session[x].id # id
      BY <1>4, <1>5, <1>6 DEF Found
    <2>2. /\ registry'[p].latest = registry[p].latest
          /\ registry'[p].ids = Without(registry[p].ids, id)
      <3>1. registry[p].latest # found
        BY <1>4, <1>5, <1>6 DEF Found
      <3> HIDE DEF found, id, p
      <3> QED
        BY <1>1, <1>2, <3>1 DEF Registry
    <2>3. /\ session[x].id \in DOMAIN Without(registry[p].ids, id)
          /\ Without(registry[p].ids, id)[session[x].id] = x
      BY <1>5, <1>6, <2>1 DEF Without, Found
    <2> QED
      BY <1>5, <1>6, <2>2, <2>3 DEF Found
  <1>7. CASE session[x].proc # p
    <2>1. registry'[session[x].proc] = registry[session[x].proc]
      BY <1>1, <1>2, <1>7, SessionRows
    <2> QED
      BY <1>5, <2>1 DEF Found
  <1> QED
    BY <1>6, <1>7

LEMMA OneLiveStep ==
    ASSUME Typed, OneLiveSession, [Next]_vars PROVE OneLiveSession'
  <1>1. SUFFICES ASSUME NEW x \in Session PROVE Live(x)' => Found(x)'
    BY DEF OneLiveSession, Live, Found
  <1>2. Live(x) => Found(x)
    BY DEF OneLiveSession, Live, Found
  <1>3. CASE \E s \in Session : SessionStep(s)
    <2>1. PICK s \in Session : SessionStep(s)
      BY <1>3
    <2>2. CASE Register(s)
      BY <1>2, <2>2, RegisterFound
    <2>3. CASE Leave(s)
      BY <1>2, <2>3, LeaveFound
    <2>4. CASE ~Register(s) /\ ~Leave(s)
      <3>0. session \in [Session -> SessionState]
        BY DEF Typed
      <3>1. UNCHANGED registry
        BY <2>1, <2>4 DEF SessionStep, Validate, ReadTicket, Wait, Pop, PopNothing, Check,
             Yield, Disconnect, Stop
      <3>2. Live(x)' => /\ Live(x) /\ session'[x].id = session[x].id
                        /\ session'[x].proc = session[x].proc
        <4>1. CASE x # s
          <5>1. session'[x] = session[x]
            BY <2>1, <2>4, <3>0, <4>1 DEF SessionStep, Validate, ReadTicket, Wait, Pop,
                 PopNothing, Check, Yield, Disconnect, Stop, Goes
          <5> QED
            BY <5>1 DEF Live
        <4>2. CASE x = s
          <5>0. session[s] \in SessionState
            BY <3>0
          <5>1. CASE Validate(s) \/ ReadTicket(s)
            BY <3>0, <4>2, <5>0, <5>1 DEF Validate, ReadTicket, Goes, Live, SessionState
          <5>2. CASE Wait(s) \/ PopNothing(s) \/ Stop(s)
            BY <3>0, <4>2, <5>0, <5>2 DEF Wait, PopNothing, Stop, Goes, Is, Live, SessionState
          <5>3. CASE Pop(s) \/ Check(s) \/ Yield(s)
            BY <3>0, <4>2, <5>0, <5>3 DEF Pop, Check, Yield, Goes, Is, Live, SessionState
          <5>4. CASE Disconnect(s)
            BY <3>0, <4>2, <5>0, <5>4 DEF Disconnect, Live, SessionState
          <5> QED
            BY <2>1, <2>4, <5>1, <5>2, <5>3, <5>4 DEF SessionStep
        <4> QED
          BY <4>1, <4>2
      <3> QED
        BY <1>2, <3>1, <3>2, StaysFound
    <2> QED
      BY <2>2, <2>3, <2>4
  <1>4. CASE UNCHANGED <<session, registry>>
    BY <1>2, <1>4 DEF Live, Found
  <1>5. CASE \E i \in Call : ToolStep(i)
    BY <1>4, <1>5, ToolFrame
  <1>6. CASE \E i \in Call : DeviceStep(i)
    BY <1>4, <1>6, DeviceFrame
  <1>7. CASE (\E t \in Ticket : Poll(t)) \/ TicketExpires
    BY <1>4, <1>7, TicketFrame
  <1>8. CASE UNCHANGED vars
    BY <1>4, <1>8 DEF vars
  <1> QED
    BY <1>3, <1>5, <1>6, <1>7, <1>8, Steps

\* However many sessions come, replace each other and go, in however many
\* processes: register_session closes the one it replaces, so that a process
\* has at most one that is not closed, and close_session finds that one.
THEOREM BrokerOneLiveSession == Spec => []OneLiveSession
  <1>1. Init => OneLiveSession
    <2>1. SUFFICES ASSUME Init, NEW s \in Session PROVE session[s].pc = "off"
      BY DEF OneLiveSession
    <2> QED
      BY <2>1 DEF Init
  <1>2. Base /\ OneLiveSession /\ [Next]_vars => OneLiveSession'
    BY OneLiveStep DEF Base
  <1> QED
    BY <1>1, <1>2, BaseAlways, PTL DEF Spec

-----------------------------------------------------------------------------
\* Delivery: an envelope is in one place

Held(i) == \E s \in Session : session[s].holds = i

Queued(i) == \E n \in DOMAIN queue : queue[n] = i

\* A generator holds an envelope between its BLPOP and its yield.
Holding ==
    \A s \in Session : session[s].pc \in {"holding", "yielding"} <=> session[s].holds # None

\* An envelope is queued once, or held by one session.
OncePlaced ==
    /\ \A m, n \in DOMAIN queue : queue[m] = queue[n] => m = n
    /\ \A s, x \in Session :
         session[s].holds # None /\ session[s].holds = session[x].holds => s = x
    /\ \A s \in Session, n \in DOMAIN queue : session[s].holds # queue[n]

\* A call that was not queued is nowhere; an envelope that is somewhere was not
\* delivered.
Undelivered(i) ==
    /\ call[i].pc \in {"idle", "hashed"} => At(i, "away") /\ ~Queued(i) /\ ~Held(i)
    /\ (Queued(i) \/ Held(i)) => At(i, "away")

Delivery == Holding /\ OncePlaced /\ \A i \in Call : Undelivered(i)

LEMMA DeliveryInit == ASSUME Init PROVE Delivery
  <1>1. \A s \in Session : session[s].pc = "off" /\ session[s].holds = None
    BY DEF Init
  <1>2. queue = << >> /\ \A i \in Call : At(i, "away")
    BY DEF Init, At
  <1>3. Holding
    BY <1>1 DEF Holding
  <1>4. OncePlaced
    BY <1>1, <1>2 DEF OncePlaced
  <1>5. \A i \in Call : ~Queued(i) /\ ~Held(i)
    <2>1. \A i \in Call : ~Queued(i)
      <3>1. DOMAIN queue = {}
        BY <1>2
      <3> QED
        BY <3>1 DEF Queued
    <2>2. \A i \in Call : ~Held(i)
      BY <1>1, ConstantsAssumption DEF Held
    <2> QED
      BY <2>1, <2>2
  <1> QED
    BY <1>2, <1>3, <1>4, <1>5 DEF Delivery, Undelivered

\* What a tool call does to the queue.
LEMMA QueueMoves ==
    ASSUME NEW i \in Call, ToolStep(i)
    PROVE  \/ queue' = queue
           \/ In(i, "hashed") /\ queue' = Append(queue, i)
           \/ queue' = Unqueued(i)
  BY DEF ToolStep, CallStep, Deadline, CrashCall, HashExpires, WriteHash, Enqueue,
         DispatchFails, RecordDispatch, Read, ReadNothing, IsOver, StopDraining,
         Consult, Reap, Unqueue, ReapFails, redis, In

LEMMA UnqueuedPlaces ==
    ASSUME Typed, OncePlaced, NEW i \in Call, queue' = Unqueued(i), UNCHANGED session
    PROVE  OncePlaced' /\ \A j \in Call : Queued(j)' => Queued(j)
  <1>0. queue \in Seq(Call)
    BY DEF Typed
  <1>1. CASE queue' = queue
    BY <1>1 DEF OncePlaced, Queued
  <1>2. CASE queue' # queue
    <2>1. PICK at \in DOMAIN queue : queue[at] = i /\ Cut(queue', at)
      BY <1>0, <1>2, UnqueuedCuts
    <2>2. /\ queue' \in Seq(Call) /\ Len(queue') = Len(queue) - 1
          /\ \A n \in 1..Len(queue') :
               queue'[n] = IF n < at THEN queue[n] ELSE queue[n + 1]
      BY <2>1 DEF Cut
    <2> DEFINE From(n) == IF n < at THEN n ELSE n + 1
    <2>3. \A n \in DOMAIN queue' : From(n) \in DOMAIN queue /\ queue'[n] = queue[From(n)]
      BY <1>0, <2>1, <2>2
    <2>4. \A m, n \in DOMAIN queue' : From(m) = From(n) => m = n
      BY <1>0, <2>1, <2>2
    <2> HIDE DEF From
    <2>5. OncePlaced'
      BY <2>3, <2>4 DEF OncePlaced
    <2> QED
      BY <2>3, <2>5 DEF Queued
  <1> QED
    BY <1>1, <1>2

LEMMA AppendPlaces ==
    ASSUME Typed, OncePlaced, NEW i \in Call, ~Queued(i), ~Held(i),
           queue' = Append(queue, i), UNCHANGED session
    PROVE  OncePlaced' /\ \A j \in Call \ {i} : Queued(j)' => Queued(j)
  <1>0. queue \in Seq(Call)
    BY DEF Typed
  <1>1. /\ DOMAIN queue' = 1..(Len(queue) + 1) /\ queue'[Len(queue) + 1] = i
        /\ \A n \in 1..Len(queue) : queue'[n] = queue[n]
        /\ DOMAIN queue = 1..Len(queue) /\ Len(queue) \in Nat
    BY <1>0
  <1>2. \A n \in DOMAIN queue : queue[n] # i
    BY DEF Queued
  <1>3. \A n \in DOMAIN queue' : n \in DOMAIN queue \/ n = Len(queue) + 1
    BY <1>1
  <1>4. \A m, n \in DOMAIN queue' : queue'[m] = queue'[n] => m = n
    BY <1>1, <1>2, <1>3 DEF OncePlaced
  <1>5. \A s \in Session, n \in DOMAIN queue' : session'[s].holds # queue'[n]
    BY <1>1, <1>3 DEF OncePlaced, Held
  <1>6. OncePlaced'
    BY <1>4, <1>5 DEF OncePlaced
  <1> QED
    BY <1>1, <1>3, <1>6 DEF Queued

LEMMA ToolDelivery ==
    ASSUME Typed, Delivery, NEW i \in Call, ToolStep(i) PROVE Delivery'
  <1>1. UNCHANGED <<cli, session>>
    BY ToolFrame
  <1>2. Holding'
    BY <1>1 DEF Delivery, Holding
  <1>3. \A j \in Call : Held(j)' <=> Held(j)
    BY <1>1 DEF Held
  <1>4. \A j \in Call : call'[j].pc \in {"idle", "hashed"} =>
          /\ call[j].pc \in {"idle", "hashed"}
          /\ j = i => In(i, "idle")
    <2>1. SUFFICES ASSUME NEW j \in Call, call'[j].pc \in {"idle", "hashed"}
                   PROVE  call[j].pc \in {"idle", "hashed"} /\ (j = i => In(i, "idle"))
      OBVIOUS
    <2>2. CASE j = i
      BY <2>1, <2>2, ToolMoves, RowTypes DEF ToolMove, Goto, Took, In, AfterEmpty
    <2>3. CASE j # i
      BY <2>1, <2>3, ToolOthers DEF Same
    <2> QED
      BY <2>2, <2>3
  <1>5. /\ OncePlaced'
        /\ \A j \in Call : Queued(j)' => Queued(j) \/ (j = i /\ In(i, "hashed"))
    <2>1. CASE queue' = queue
      BY <1>1, <2>1 DEF Delivery, OncePlaced, Queued
    <2>2. CASE In(i, "hashed") /\ queue' = Append(queue, i)
      BY <1>1, <2>2, AppendPlaces DEF Delivery, Undelivered, In
    <2>3. CASE queue' = Unqueued(i)
      BY <1>1, <2>3, UnqueuedPlaces DEF Delivery
    <2> QED
      BY <2>1, <2>2, <2>3, QueueMoves
  <1>6. ASSUME NEW j \in Call PROVE Undelivered(j)'
    BY <1>1, <1>3, <1>4, <1>5 DEF Delivery, Undelivered, At, In
  <1> QED
    BY <1>2, <1>5, <1>6 DEF Delivery

LEMMA DeviceDelivery ==
    ASSUME Typed, Delivery, NEW i \in Call, DeviceStep(i) PROVE Delivery'
  <1>1. UNCHANGED <<call, queue, session>>
    BY DeviceFrame
  <1>2. Holding' /\ OncePlaced' /\ \A j \in Call : Queued(j)' = Queued(j) /\ Held(j)' = Held(j)
    BY <1>1 DEF Delivery, Holding, OncePlaced, Queued, Held
  <1>3. DeviceMove(i) /\ \A j \in Call \ {i} : Same(j)
    BY DeviceMoves
  <1>4. ~At(i, "away")
    BY <1>3 DEF DeviceMove, At
  <1>5. ASSUME NEW j \in Call PROVE Undelivered(j)'
    <2>1. CASE j = i
      BY <1>1, <1>2, <1>4, <2>1 DEF Delivery, Undelivered
    <2>2. CASE j # i
      BY <1>1, <1>2, <1>3, <2>2 DEF Delivery, Undelivered, At, Same
    <2> QED
      BY <2>1, <2>2
  <1> QED
    BY <1>2, <1>5 DEF Delivery

\* The places of the envelopes, where a session step moves none.
LEMMA PlacesSame ==
    ASSUME Typed, OncePlaced, queue' = queue,
           \A x \in Session : session'[x].holds \in {session[x].holds, None}
    PROVE  OncePlaced' /\ \A j \in Call : Queued(j)' = Queued(j)
  <1>1. ASSUME NEW x \in Session, NEW y \in Session,
               session'[x].holds # None, session'[x].holds = session'[y].holds
        PROVE  x = y
    BY <1>1 DEF OncePlaced
  <1>2. ASSUME NEW x \in Session, NEW n \in DOMAIN queue
        PROVE  session'[x].holds # queue[n]
    <2>1. queue[n] \in Call
      BY DEF Typed
    <2> QED
      BY <2>1, ConstantsAssumption DEF OncePlaced
  <1> QED
    BY <1>1, <1>2 DEF OncePlaced, Queued

LEMMA PopDelivery ==
    ASSUME Typed, Delivery, NEW s \in Session, Pop(s) PROVE Delivery'
  <1>0. queue \in Seq(Call) /\ session \in [Session -> SessionState]
    BY DEF Typed
  <1>1. /\ Is(s, "popping") /\ queue # << >> /\ queue' = Tail(queue)
        /\ UNCHANGED <<call, cli>>
    BY DEF Pop
  <1>2. /\ session'[s].pc = "holding" /\ session'[s].holds = Head(queue)
        /\ \A x \in Session \ {s} : session'[x] = session[x]
    BY <1>0 DEF Pop, SessionState
  <1>3. /\ DOMAIN queue' = 1..(Len(queue) - 1) /\ DOMAIN queue = 1..Len(queue)
        /\ Len(queue) \in Nat /\ Len(queue) >= 1
        /\ \A n \in DOMAIN queue' : n + 1 \in DOMAIN queue /\ queue'[n] = queue[n + 1]
        /\ 1 \in DOMAIN queue /\ Head(queue) = queue[1] /\ Head(queue) \in Call
    BY <1>0, <1>1
  <1>4. Head(queue) # None /\ session[s].holds = None
    BY <1>1, <1>3, ConstantsAssumption DEF Delivery, Holding, Is
  <1>5. Holding'
    BY <1>2, <1>4 DEF Delivery, Holding
  <1>6. \A m, n \in DOMAIN queue' : queue'[m] = queue'[n] => m = n
    <2>1. SUFFICES ASSUME NEW m \in DOMAIN queue', NEW n \in DOMAIN queue',
                          queue'[m] = queue'[n]
                   PROVE  m = n
      OBVIOUS
    <2>2. m + 1 = n + 1
      BY <1>3, <2>1 DEF Delivery, OncePlaced
    <2> QED
      BY <1>3, <2>2
  <1>7. \A x, y \in Session :
          session'[x].holds # None /\ session'[x].holds = session'[y].holds => x = y
    BY <1>2, <1>3 DEF Delivery, OncePlaced
  <1>8. \A x \in Session, n \in DOMAIN queue' : session'[x].holds # queue'[n]
    <2>1. SUFFICES ASSUME NEW x \in Session, NEW n \in DOMAIN queue'
                   PROVE  session'[x].holds # queue[n + 1]
      BY <1>3
    <2>2. CASE x = s
      <3>1. n + 1 # 1 /\ n + 1 \in DOMAIN queue
        BY <1>3
      <3>2. queue[n + 1] # queue[1]
        BY <1>3, <3>1 DEF Delivery, OncePlaced
      <3> QED
        BY <1>2, <1>3, <2>2, <3>2
    <2>3. CASE x # s
      BY <1>2, <1>3, <2>3 DEF Delivery, OncePlaced
    <2> QED
      BY <2>2, <2>3
  <1>9. OncePlaced'
    BY <1>6, <1>7, <1>8 DEF OncePlaced
  <1>10. \A j \in Call : (Queued(j) \/ Held(j))' => Queued(j) \/ Held(j)
    <2>1. \A j \in Call : Queued(j)' => Queued(j)
      BY <1>3 DEF Queued
    <2>2. \A j \in Call : Held(j)' => Queued(j) \/ Held(j)
      BY <1>2, <1>3 DEF Queued, Held
    <2> QED
      BY <2>1, <2>2
  <1>11. \A j \in Call : Undelivered(j)'
    BY <1>1, <1>10 DEF Delivery, Undelivered, At
  <1> QED
    BY <1>5, <1>9, <1>11 DEF Delivery

\* Check and Yield keep an envelope or let it go; the other steps leave it.
LEMMA LetsGo ==
    ASSUME Typed, Holding, NEW s \in Session, SessionStep(s), ~Pop(s)
    PROVE  /\ queue' = queue /\ Holding'
           /\ \A x \in Session : session'[x].holds \in {session[x].holds, None}
           /\ Yield(s) => session'[s].holds = None
  <1>0. session \in [Session -> SessionState]
    BY DEF Typed
  <1>1. queue' = queue
    BY DEF SessionStep, Validate, ReadTicket, Register, Wait, PopNothing, Check, Yield,
         Disconnect, Stop, Leave, redis
  <1> SUFFICES ASSUME NEW x \in Session
               PROVE  /\ session'[x].holds \in {session[x].holds, None}
                      /\ session'[x].pc \in {"holding", "yielding"} <=> session'[x].holds # None
                      /\ Yield(s) /\ x = s => session'[x].holds = None
    BY <1>1 DEF Holding
  <1>2. session[x] \in SessionState
    BY <1>0
  <1>3. session[x].pc \in {"holding", "yielding"} <=> session[x].holds # None
    BY DEF Holding
  <1>4. CASE Validate(s) \/ ReadTicket(s) \/ Wait(s) \/ PopNothing(s) \/ Stop(s)
    BY <1>0, <1>2, <1>3, <1>4 DEF Validate, ReadTicket, Wait, PopNothing, Stop, Goes, Is,
         SessionState, Yield
  <1>5. CASE Register(s)
    BY <1>0, <1>2, <1>3, <1>5 DEF Register, Replaced, Is, SessionState, Yield
  <1>6. CASE Check(s)
    BY <1>0, <1>2, <1>3, <1>6 DEF Check, Goes, Is, SessionState, Yield
  <1>7. CASE Yield(s)
    BY <1>0, <1>2, <1>3, <1>7 DEF Yield, Is, SessionState
  <1>8. CASE Disconnect(s)
    BY <1>0, <1>2, <1>3, <1>8 DEF Disconnect, SessionState, Yield
  <1>9. CASE Leave(s)
    BY <1>0, <1>2, <1>3, <1>9 DEF Leave, Is, SessionState, Yield
  <1> QED
    BY <1>4, <1>5, <1>6, <1>7, <1>8, <1>9 DEF SessionStep

LEMMA SessionDelivery ==
    ASSUME Typed, Delivery, NEW s \in Session, SessionStep(s), ~Pop(s) PROVE Delivery'
  <1>1. /\ queue' = queue /\ Holding' /\ call' = call
        /\ \A x \in Session : session'[x].holds \in {session[x].holds, None}
        /\ Yield(s) => session'[s].holds = None
    BY LetsGo, SessionFrame DEF Delivery
  <1>2. OncePlaced' /\ \A j \in Call : Queued(j)' = Queued(j)
    BY <1>1, PlacesSame DEF Delivery
  <1>3. \A j \in Call : Held(j)' => Held(j)
    BY <1>1, ConstantsAssumption DEF Held
  <1>4. ASSUME NEW j \in Call PROVE Undelivered(j)'
    <2>1. CASE cli'[j] = cli[j]
      BY <1>1, <1>2, <1>3, <2>1 DEF Delivery, Undelivered, At
    <2>2. CASE cli'[j] # cli[j]
      <3>1. Yield(s) /\ Is(s, "yielding") /\ session[s].holds = j
        <4>1. Is(s, "yielding") /\ session[s].holds = j
          BY <2>2, SessionMoves
        <4>2. Yield(s)
          BY <2>2 DEF SessionStep, Validate, ReadTicket, Register, Wait, Pop, PopNothing,
               Check, Disconnect, Stop, Leave, redis
        <4> QED
          BY <4>1, <4>2
      <3>2. Held(j) /\ ~Queued(j) /\ \A x \in Session : session[x].holds = j => x = s
        BY <3>1, ConstantsAssumption DEF Delivery, OncePlaced, Held, Queued
      <3>3. ~Held(j)'
        BY <1>1, <3>1, <3>2, ConstantsAssumption DEF Held
      <3> QED
        BY <1>1, <1>2, <3>2, <3>3 DEF Delivery, Undelivered
    <2> QED
      BY <2>1, <2>2
  <1> QED
    BY <1>1, <1>2, <1>4 DEF Delivery

LEMMA DeliveryStep ==
    ASSUME Typed, Delivery, [Next]_vars PROVE Delivery'
  <1>1. CASE \E i \in Call : ToolStep(i)
    BY <1>1, ToolDelivery
  <1>2. CASE \E i \in Call : DeviceStep(i)
    BY <1>2, DeviceDelivery
  <1>3. CASE \E s \in Session : SessionStep(s)
    BY <1>3, PopDelivery, SessionDelivery
  <1>4. CASE UNCHANGED <<call, cli, queue, session>>
    BY <1>4 DEF Delivery, Holding, OncePlaced, Undelivered, At, Queued, Held
  <1>5. CASE (\E t \in Ticket : Poll(t)) \/ TicketExpires
    BY <1>4, <1>5, TicketFrame
  <1>6. CASE UNCHANGED vars
    BY <1>4, <1>6 DEF vars, redis
  <1> QED
    BY <1>1, <1>2, <1>3, <1>5, <1>6, Steps

Placed == Base /\ Delivery

LEMMA PlacedAlways == Spec => []Placed
  <1>1. Init => Delivery
    BY DeliveryInit
  <1>2. Base /\ Delivery /\ [Next]_vars => Delivery'
    BY DeliveryStep DEF Base
  <1> QED
    BY <1>1, <1>2, BaseAlways, PTL DEF Spec, Placed

-----------------------------------------------------------------------------
\* What the tool reports, where no command to Redis fails

\* An invocation that was reaped before anything of it reached the device is
\* gone.
Reaped(i) ==
    /\ call[i].result # "undispatched"
    /\ call[i].pc \in {"unqueue", "done"} /\ At(i, "away") => hash[i] = "absent"

\* The last sweep follows the verdict or the deadline, and with the stream read
\* to its end there is no verdict but one past the deadline.
Swept(i) ==
    /\ In(i, "tail") /\ ~call[i].due => hash[i] \in Verdict
    /\ In(i, "consult") => call[i].due

\* A verdict that was marked in time stays until the tool has its result.
Marked(i) ==
    /\ At(i, "away") => ~cli[i].early
    /\ cli[i].early /\ call[i].pc \in {"queued", "drain", "empty", "tail", "consult", "reap"}
         => hash[i] \in Verdict

\* The results that were reached.
Reached(i) ==
    /\ call[i].result \in Verdict \cup {"timeout"}
         => call[i].pc \in {"reap", "unqueue", "done", "dead"}
    /\ call[i].result = "timeout" => call[i].due /\ ~cli[i].early
    /\ call[i].result \in Verdict =>
         /\ cli[i].pc \notin {"away", "working"}
         /\ ~call[i].due => call[i].got = cli[i].posted

Reports == ~Faults => \A i \in Call : Reaped(i) /\ Swept(i) /\ Marked(i) /\ Reached(i)

LEMMA ReportsInit == ASSUME Init PROVE Reports
  <1>1. ASSUME NEW i \in Call
        PROVE  /\ call[i].pc = "idle" /\ call[i].result = "none" /\ ~cli[i].early
    BY <1>1 DEF Init
  <1> QED
    BY <1>1 DEF Reports, Reaped, Swept, Marked, Reached, In, Verdict

\* A chunk that is a verdict is the last of the stream.
LEMMA TookVerdict ==
    ASSUME Typed, NEW i \in Call, StreamOf(i), CursorOf(i), Took(i),
           out[i][call[i].cursor + 1] \in Verdict
    PROVE  call[i].got = cli[i].posted /\ cli[i].verdict # "none"
  <1>0. USE RowTypes
  <1>1. call[i].got = call[i].cursor /\ call[i].cursor <= cli[i].posted
    BY DEF Took, CursorOf
  <1>2. /\ call[i].cursor + 1 <= Len(out[i]) /\ call[i].pc # "done"
    BY DEF Took, Unread
  <1>3. ~(call[i].cursor < cli[i].posted)
    <2>1. SUFFICES ASSUME call[i].cursor < cli[i].posted PROVE FALSE
      OBVIOUS
    <2>2. call[i].cursor + 1 \in 1..cli[i].posted
      BY <2>1
    <2>3. out[i][call[i].cursor + 1] = "output"
      BY <1>2, <2>2 DEF StreamOf
    <2> QED
      BY <2>3 DEF Verdict
  <1>4. call[i].cursor = cli[i].posted
    BY <1>1, <1>3
  <1>5. cli[i].verdict # "none"
    BY <1>2, <1>4 DEF StreamOf
  <1> QED
    BY <1>1, <1>4, <1>5

\* With a verdict posted and none read, the stream is not at its end.
LEMMA VerdictUnread ==
    ASSUME Typed, NEW i \in Call, StreamOf(i), CursorOf(i), In(i, "tail"),
           cli[i].verdict # "none"
    PROVE  Unread(i)
  <1>1. call[i].cursor <= cli[i].posted /\ Len(out[i]) = cli[i].posted + 1
    BY DEF In, StreamOf, CursorOf
  <1> QED
    BY <1>1, RowTypes DEF Unread

LEMMA ToolReports ==
    ASSUME Typed, ~Faults, NEW i \in Call, StreamOf(i), VerdictOf(i), CursorOf(i),
           Undelivered(i), Reaped(i), Swept(i), Marked(i), Reached(i),
           ToolMove(i), cli'[i] = cli[i]
    PROVE  Reaped(i)' /\ Swept(i)' /\ Marked(i)' /\ Reached(i)'
  <1>0. USE RowTypes
  <1>1. CASE Took(i) /\ hash'[i] = hash[i]
    <2> DEFINE chunk == out[i][call[i].cursor + 1]
    <2>1. CASE chunk \in Verdict
      <3>1. /\ call'[i].pc = "reap" /\ call'[i].result = chunk /\ call'[i].got = cli[i].posted
            /\ cli[i].verdict # "none" /\ call'[i].due = call[i].due
            /\ call[i].pc \in {"drain", "tail"}
        BY <1>1, <2>1, TookVerdict DEF Took
      <3>2. chunk # "undispatched" /\ chunk # "timeout"
        BY <2>1 DEF Verdict
      <3> HIDE DEF chunk
      <3> QED
        BY <1>1, <2>1, <3>1, <3>2 DEF VerdictOf, Reaped, Swept, Marked, Reached, In, At
    <2>2. CASE chunk \notin Verdict
      <3>1. /\ call[i].pc \in {"drain", "tail"} /\ call'[i].result = call[i].result
            /\ call'[i].pc = IF call[i].due THEN "consult" ELSE call[i].pc
            /\ call'[i].due = call[i].due
        BY <1>1, <2>2 DEF Took
      <3> QED
        BY <1>1, <3>1 DEF Reaped, Swept, Marked, Reached, In, At
    <2> QED
      BY <2>1, <2>2
  <1>2. CASE In(i, "consult") /\ call'[i].pc = "reap" /\ call'[i].due = call[i].due
             /\ call'[i].result = Consulted(i) /\ hash'[i] = hash[i]
    <2>1. call[i].due
      BY <1>2 DEF Swept
    <2> QED
      BY <1>2, <2>1 DEF Consulted, VerdictOf, Verdict, Reaped, Swept, Marked, Reached, In, At
  <1>3. CASE In(i, "tail") /\ ~Unread(i) /\ Goto(i, "consult") /\ hash'[i] = hash[i]
    <2>1. call[i].due
      BY <1>3, VerdictUnread DEF Swept, VerdictOf
    <2> QED
      BY <1>3, <2>1 DEF Goto, Kept, Reaped, Swept, Marked, Reached, In, At
  <1>4. CASE In(i, "empty") /\ Goto(i, AfterEmpty(i)) /\ hash'[i] = hash[i]
    BY <1>4 DEF AfterEmpty, Goto, Kept, Reaped, Swept, Marked, Reached, In, At
  <1>5. CASE \/ In(i, "idle") /\ Goto(i, "hashed")
             \/ In(i, "hashed") /\ Goto(i, "queued") /\ hash'[i] = hash[i]
    <2>1. At(i, "away") /\ ~cli[i].early
      BY <1>5 DEF Undelivered, Marked, In
    <2> QED
      BY <1>5, <2>1 DEF Goto, Kept, Reaped, Swept, Marked, Reached, In, At
  <1>6. CASE /\ In(i, "queued") /\ Goto(i, IF call[i].result = "none" THEN "drain" ELSE "done")
             /\ hash'[i] = hash[i]
    <2>1. call[i].result = "none"
      BY <1>6 DEF CursorOf, Reaped, In
    <2> QED
      BY <1>6, <2>1 DEF Goto, Kept, Reaped, Swept, Marked, Reached, In, At
  <1>7. CASE \/ In(i, "drain") /\ Goto(i, "empty") /\ hash'[i] = hash[i]
             \/ In(i, "reap") /\ Goto(i, "unqueue") /\ hash'[i] = "absent"
             \/ In(i, "unqueue") /\ Goto(i, "done") /\ hash'[i] = hash[i]
    BY <1>7 DEF Goto, Kept, Reaped, Swept, Marked, Reached, In, At
  <1>8. CASE /\ call[i].pc \in {"drain", "empty", "tail"} /\ call'[i].pc = call[i].pc
             /\ call'[i].due /\ call'[i].result = call[i].result /\ hash'[i] = hash[i]
    BY <1>8 DEF Reaped, Swept, Marked, Reached, In, At
  <1>9. CASE Goto(i, "dead") /\ hash'[i] = hash[i] /\ call[i].pc \notin {"idle", "done", "dead"}
    BY <1>9 DEF Goto, Kept, Reaped, Swept, Marked, Reached, In, At
  <1>10. CASE call[i].pc \in {"done", "dead"} /\ Goto(i, call[i].pc) /\ hash'[i] = "absent"
    BY <1>10 DEF Goto, Kept, Reaped, Swept, Marked, Reached, In, At
  <1> QED
    BY <1>1, <1>2, <1>3, <1>4, <1>5, <1>6, <1>7, <1>8, <1>9, <1>10 DEF ToolMove

LEMMA DeviceReports ==
    ASSUME Typed, ~Faults, NEW i \in Call, VerdictOf(i),
           Reaped(i), Swept(i), Marked(i), Reached(i), DeviceMove(i), call'[i] = call[i]
    PROVE  Reaped(i)' /\ Swept(i)' /\ Marked(i)' /\ Reached(i)'
  <1>0. USE RowTypes
  <1>1. CASE At(i, "working") /\ hash'[i] = hash[i] /\ cli'[i].early = cli[i].early
             /\ cli'[i].pc # "away"
    BY <1>1 DEF Reaped, Swept, Marked, Reached, In, At
  <1>2. CASE At(i, "mark") /\ hash'[i] = cli[i].verdict /\ cli'[i].pc = "report"
             /\ cli'[i].early = ~call[i].due /\ cli'[i].posted = cli[i].posted
    <2>1. cli[i].verdict \in Verdict
      BY <1>2 DEF VerdictOf, At
    <2> QED
      BY <1>2, <2>1 DEF Reaped, Swept, Marked, Reached, In, At
  <1>3. CASE cli[i].pc \in {"mark", "report"} /\ cli'[i].pc \in {"report", "finished"}
             /\ hash'[i] = hash[i] /\ cli'[i].early = cli[i].early
             /\ cli'[i].posted = cli[i].posted
    BY <1>3 DEF Reaped, Swept, Marked, Reached, In, At
  <1> QED
    BY <1>1, <1>2, <1>3 DEF DeviceMove, At

LEMMA ReportsStep ==
    ASSUME Placed, Reports, [Next]_vars PROVE Reports'
  <1>1. SUFFICES ASSUME ~Faults, NEW i \in Call
                 PROVE  Reaped(i)' /\ Swept(i)' /\ Marked(i)' /\ Reached(i)'
    BY DEF Reports
  <1>2. /\ Typed /\ StreamOf(i) /\ VerdictOf(i) /\ CursorOf(i) /\ Undelivered(i)
        /\ Reaped(i) /\ Swept(i) /\ Marked(i) /\ Reached(i)
    BY <1>1 DEF Placed, Base, StreamInv, Delivery, Reports
  <1>3. CASE ToolMove(i) /\ cli'[i] = cli[i]
    BY <1>1, <1>2, <1>3, ToolReports
  <1>4. CASE DeviceMove(i) /\ call'[i] = call[i]
    BY <1>1, <1>2, <1>4, DeviceReports
  <1>5. CASE Delivered(i) /\ call'[i] = call[i] /\ hash'[i] = hash[i]
    BY <1>2, <1>5 DEF Delivered, At, In, Reaped, Swept, Marked, Reached
  <1>6. CASE Same(i)
    BY <1>2, <1>6 DEF Same, At, In, Reaped, Swept, Marked, Reached
  <1> QED
    BY <1>2, <1>3, <1>4, <1>5, <1>6, RowMoves

LEMMA ReportsAlways == Spec => []Reports
  <1>1. Init => Reports
    BY ReportsInit
  <1>2. Placed /\ Reports /\ [Next]_vars => Reports'
    BY ReportsStep
  <1> QED
    BY <1>1, <1>2, PlacedAlways, PTL DEF Spec

\* Where no command to Redis fails, a tool call reports "did not respond" only
\* of a device whose verdict was not recorded by the call's deadline: the hash
\* says so, from the mark to the reap.
THEOREM BrokerTimeoutIsTrue == ASSUME ~Faults PROVE Spec => []TimeoutIsTrue
  <1>1. Reports => TimeoutIsTrue
    BY DEF Reports, Reached, TimeoutIsTrue
  <1> QED
    BY <1>1, ReportsAlways, PTL

\* Where no command to Redis fails, a verdict within the deadline comes with
\* all the output before it, for any number of chunks: the verdict is the end
\* of the stream, and a call that sees only its mark sweeps once more.
THEOREM BrokerOutputIsWhole == ASSUME ~Faults PROVE Spec => []OutputIsWhole
  <1>1. Reports => OutputIsWhole
    BY DEF Reports, Reached, OutputIsWhole
  <1> QED
    BY <1>1, ReportsAlways, PTL

\* Only next_command's look at the hash lets an envelope out.
LEMMA ChecksOut ==
    ASSUME Typed, [Next]_vars, NEW s \in Session, Is(s, "holding"),
           session[s].pc' = "yielding"
    PROVE  GoesOut(session[s].holds)
  <1>0. session \in [Session -> SessionState]
    BY DEF Typed
  <1>1. session' # session
    BY DEF Is
  <1>2. PICK x \in Session : SessionStep(x)
    BY <1>1, Steps, ToolFrame, DeviceFrame, TicketFrame DEF vars
  <1>3. session[s] \in SessionState
    BY <1>0
  <1>4. x = s \/ Register(x) \/ Leave(x)
    BY <1>0, <1>1, <1>2 DEF SessionStep, Validate, ReadTicket, Wait, Pop, PopNothing, Check,
         Yield, Disconnect, Stop, Goes, Is
  <1>5. ~Register(x)
    <2>1. SUFFICES ASSUME Register(x) PROVE FALSE
      OBVIOUS
    <2>2. \E prior : session' = Replaced(x, prior)
      BY <2>1 DEF Register
    <2>3. session[s].pc = "holding" /\ session'[s].pc \in {"loop", session[s].pc}
      BY <1>0, <2>2, ReplacedKeeps DEF Is
    <2> QED
      BY <2>3
  <1>6. ~Leave(x)
    BY <1>0, <1>3 DEF Leave, Is, SessionState
  <1>7. Check(s) \/ Disconnect(s)
    BY <1>2, <1>4, <1>5, <1>6 DEF SessionStep, Validate, ReadTicket, Wait, Pop, PopNothing,
         Yield, Stop, Is
  <1>8. ~Disconnect(s)
    BY <1>0, <1>3 DEF Disconnect, Is, SessionState
  <1> QED
    BY <1>0, <1>3, <1>7, <1>8 DEF Check, Is, SessionState

\* Where no command to Redis fails, an envelope that is looked up after its
\* invocation was reaped does not go out: a mark, which makes the hash anew,
\* comes only after the one delivery.
THEOREM BrokerReapedStayIn == ASSUME ~Faults PROVE Spec => ReapedStayIn
  <1>1. Placed /\ Reports /\ [Next]_vars =>
          [\A s \in Session : Is(s, "holding") /\ session[s].pc' = "yielding"
             => call[session[s].holds].pc \notin {"unqueue", "done"}]_vars
    <2>1. SUFFICES ASSUME Placed, Reports, [Next]_vars, NEW s \in Session,
                          Is(s, "holding"), session[s].pc' = "yielding",
                          call[session[s].holds].pc \in {"unqueue", "done"}
                   PROVE  FALSE
      OBVIOUS
    <2>2. session[s].holds \in Call
      <3>1. session[s] \in SessionState /\ session[s].holds # None
        BY <2>1 DEF Placed, Base, Typed, Delivery, Holding, Is
      <3> QED
        BY <3>1, SessionRows
    <2>3. At(session[s].holds, "away")
      BY <2>1, <2>2 DEF Placed, Delivery, Undelivered, Held
    <2>4. hash[session[s].holds] = "absent"
      BY <2>1, <2>2, <2>3 DEF Reports, Reaped
    <2>5. GoesOut(session[s].holds)
      BY <2>1, ChecksOut DEF Placed, Base
    <2> QED
      BY <2>4, <2>5 DEF GoesOut
  <1> QED
    BY <1>1, PlacedAlways, ReportsAlways, PTL DEF Spec, ReapedStayIn

=============================================================================
