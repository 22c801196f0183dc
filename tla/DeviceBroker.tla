----------------------------- MODULE DeviceBroker -----------------------------
(***************************************************************************)
(* The broker of one remote device.  A tool call, in any process, writes   *)
(* an invocation's hash, queues its envelope and drains its output stream  *)
(* until a control chunk or its deadline; then it reaps the three.  The    *)
(* device polls for a ticket and opens an SSE session with it; the         *)
(* session's generator pops envelopes and yields them to the socket.  The  *)
(* device posts output, and a control chunk or a denial; each request      *)
(* appends to the stream first and marks the hash after.  All of it meets  *)
(* in Redis, one command at a time; only the session maps are per process. *)
(*                                                                         *)
(* The device itself is external: it may post for what it received, at any *)
(* time or never, one request after the other.                             *)
(***************************************************************************)
EXTENDS Integers, Sequences

CONSTANTS
    Call,        \* tool calls: invocations
    Session,     \* SSE requests of the device
    Proc,        \* web processes
    Ticket,      \* poll tickets
    None,
    MaxChunks,   \* bound: output chunks of an invocation
    Faults,      \* may a Redis command or an audit write fail?
    Crashes      \* may the process of a tool call die?

ASSUME ConstantsAssumption ==
    /\ None \notin Call \cup Session \cup Ticket
    /\ Session \cap Ticket = {}
    /\ MaxChunks \in Nat
    /\ {Faults, Crashes} \subseteq BOOLEAN

VARIABLES
    call,      \* the tool's side of each invocation
    cli,       \* the device's side, and the request it is in
    hash,      \* dev:inv
    out,       \* dev:out
    queue,     \* dev:cmd
    ticket,    \* dev:ticket, and the tickets issued so far
    session,   \* the SSE generators
    registry,  \* _sessions_by_device and _sessions_by_id of each process
    audit      \* device_audit_log

redis == <<hash, out, queue, ticket>>
vars == <<call, cli, redis, session, registry, audit>>

-----------------------------------------------------------------------------
\* Types

Verdict == {"exit", "denied"}

Chunk == Verdict \cup {"output"}

\* `cursor` is the last stream entry read, `got` the output chunks among them.
CallState ==
    [pc: {"idle", "hashed", "queued", "drain", "empty", "tail", "consult", "reap",
          "unqueue", "done", "dead"},
     due: BOOLEAN, cursor: Nat, got: 0..MaxChunks,
     result: Verdict \cup {"none", "timeout", "undispatched"}]

\* `early` is history: the verdict was marked before the tool's deadline.
DeviceState ==
    [pc: {"away", "working", "mark", "report", "finished"},
     posted: 0..MaxChunks, verdict: Verdict \cup {"none"}, early: BOOLEAN]

SessionState ==
    [pc: {"off", "validated", "read", "loop", "popping", "holding", "yielding",
          "leaving", "ended"},
     id: Ticket \cup Session, proc: Proc, closed: BOOLEAN, up: BOOLEAN,
     holds: Call \cup {None}]

TypeOK ==
    /\ call \in [Call -> CallState]
    /\ cli \in [Call -> DeviceState]
    /\ hash \in [Call -> {"absent", "open"} \cup Verdict]
    /\ out \in [Call -> Seq(Chunk)]
    /\ queue \in Seq(Call)
    /\ ticket.now \in ticket.issued \cup {None}
    /\ ticket.issued \subseteq Ticket
    /\ session \in [Session -> SessionState]
    /\ \A p \in Proc : /\ registry[p].latest \in Session \cup {None}
                       /\ DOMAIN registry[p].ids \subseteq Ticket \cup Session
    /\ audit \in [Call -> {"none", "dispatched", "settled"}]

Init ==
    /\ call = [i \in Call |-> [pc |-> "idle", due |-> FALSE, cursor |-> 0,
                               got |-> 0, result |-> "none"]]
    /\ cli = [i \in Call |-> [pc |-> "away", posted |-> 0, verdict |-> "none",
                              early |-> FALSE]]
    /\ hash = [i \in Call |-> "absent"]
    /\ out = [i \in Call |-> <<>>]
    /\ queue = <<>>
    /\ ticket = [now |-> None, issued |-> {}]
    /\ session \in [Session -> {[pc |-> "off", id |-> s, proc |-> p,
                                 closed |-> FALSE, up |-> TRUE, holds |-> None] :
                                s \in Session, p \in Proc}]
    /\ \A s \in Session : session[s].id = s
    /\ registry = [p \in Proc |-> [latest |-> None, ids |-> <<>>]]
    /\ audit = [i \in Call |-> "none"]

-----------------------------------------------------------------------------
\* The tool call: dispatch_invocation, _collect_result, drain_output

In(i, pc) == call[i].pc = pc

Moves(i, pc) == call' = [call EXCEPT ![i].pc = pc]

WriteHash(i) ==
    /\ In(i, "idle")
    /\ hash' = [hash EXCEPT ![i] = "open"]
    /\ Moves(i, "hashed")
    /\ UNCHANGED <<cli, out, queue, ticket, session, registry, audit>>

Enqueue(i) ==
    /\ In(i, "hashed")
    /\ queue' = Append(queue, i)
    /\ Moves(i, "queued")
    /\ UNCHANGED <<cli, hash, out, ticket, session, registry, audit>>

\* The dispatch failed partway through, perhaps after the RPUSH; deleting the
\* hash is best-effort.
DispatchFails(i) ==
    /\ Faults
    /\ call[i].pc \in {"idle", "hashed"}
    /\ queue' \in {queue} \cup (IF In(i, "hashed") THEN {Append(queue, i)} ELSE {})
    /\ hash' \in {hash, [hash EXCEPT ![i] = "absent"]}
    /\ call' = [call EXCEPT ![i].pc = "queued", ![i].result = "undispatched"]
    /\ UNCHANGED <<cli, out, ticket, session, registry, audit>>

\* record_dispatch comes after the RPUSH; it is best-effort.
RecordDispatch(i) ==
    /\ In(i, "queued")
    /\ \/ audit' = [audit EXCEPT ![i] = "dispatched"]
       \/ Faults /\ UNCHANGED audit
    /\ Moves(i, IF call[i].result = "none" THEN "drain" ELSE "done")
    /\ UNCHANGED <<cli, redis, session, registry>>

\* XREAD from last_id, at first from 0-0, finds something.
Unread(i) == call[i].cursor < Len(out[i])

\* Mutant: last_id stays where it is.
CursorForgotten(i) == call[i].cursor

CursorMoved(i) == call[i].cursor + 1

\* A chunk is taken.  After a control chunk, or past the deadline, it is the
\* last one.
Read(i) ==
    LET chunk == out[i][call[i].cursor + 1]
        read == [call[i] EXCEPT !.cursor = CursorMoved(i)]
    IN /\ call[i].pc \in {"drain", "tail"}
       /\ Unread(i)
       /\ call' = [call EXCEPT ![i] =
            IF chunk \in Verdict
            THEN [read EXCEPT !.pc = "reap", !.result = chunk]
            ELSE [read EXCEPT !.got = @ + 1,
                              !.pc = IF read.due THEN "consult" ELSE @]]
       /\ UNCHANGED <<cli, redis, session, registry, audit>>

ReadNothing(i) ==
    /\ In(i, "drain")
    /\ ~Unread(i)
    /\ Moves(i, "empty")
    /\ UNCHANGED <<cli, redis, session, registry, audit>>

\* Mutant: completion ends the drain, the deadline does not.
AfterEmptyCompleted(i) == IF hash[i] \in Verdict THEN "tail" ELSE "drain"

\* Mutant: no last sweep.
AfterEmptyNoSweep(i) ==
    IF hash[i] \in Verdict \/ call[i].due THEN "consult" ELSE "drain"

\* Once completed or past the deadline, one last sweep of the stream.
AfterEmpty(i) == IF hash[i] \in Verdict \/ call[i].due THEN "tail" ELSE "drain"

IsOver(i) ==
    /\ In(i, "empty")
    /\ Moves(i, AfterEmpty(i))
    /\ UNCHANGED <<cli, redis, session, registry, audit>>

\* The sweep finds nothing more, or Redis fails.
StopDraining(i) ==
    /\ \/ In(i, "tail") /\ ~Unread(i)
       \/ Faults /\ call[i].pc \in {"drain", "tail"}
    /\ Moves(i, "consult")
    /\ UNCHANGED <<cli, redis, session, registry, audit>>

\* Mutant: what the hash says is not looked at.
ConsultedNot(i) == "timeout"

\* get_invocation, when no control chunk was seen.
Consulted(i) == IF hash[i] \in Verdict THEN hash[i] ELSE "timeout"

Consult(i) ==
    /\ In(i, "consult")
    /\ \E result \in {Consulted(i)} \cup (IF Faults THEN {"timeout"} ELSE {}) :
         call' = [call EXCEPT ![i].pc = "reap", ![i].result = result]
    /\ UNCHANGED <<cli, redis, session, registry, audit>>

\* cleanup_invocation: the hash goes first.
Reap(i) ==
    /\ In(i, "reap")
    /\ hash' = [hash EXCEPT ![i] = "absent"]
    /\ Moves(i, "unqueue")
    /\ UNCHANGED <<cli, out, queue, ticket, session, registry, audit>>

\* The list without an envelope, which is in it once if at all.
Unqueued(i) ==
    LET at == CHOOSE n \in DOMAIN queue : queue[n] = i
    IN IF \A n \in DOMAIN queue : queue[n] # i THEN queue
       ELSE SubSeq(queue, 1, at - 1) \o SubSeq(queue, at + 1, Len(queue))

Unqueue(i) ==
    /\ In(i, "unqueue")
    /\ out' = [out EXCEPT ![i] = <<>>]
    /\ queue' = Unqueued(i)
    /\ Moves(i, "done")
    /\ UNCHANGED <<cli, hash, ticket, session, registry, audit>>

\* cleanup_invocation gives up where Redis fails.
ReapFails(i) ==
    /\ Faults
    /\ call[i].pc \in {"reap", "unqueue"}
    /\ Moves(i, "done")
    /\ UNCHANGED <<cli, redis, session, registry, audit>>

Deadline(i) ==
    /\ call[i].pc \in {"drain", "empty", "tail"}
    /\ ~call[i].due
    /\ call' = [call EXCEPT ![i].due = TRUE]
    /\ UNCHANGED <<cli, redis, session, registry, audit>>

CrashCall(i) ==
    /\ Crashes
    /\ call[i].pc \notin {"idle", "done", "dead"}
    /\ Moves(i, "dead")
    /\ UNCHANGED <<cli, redis, session, registry, audit>>

\* The hash's TTL outlasts every tool call, not a dead one.
HashExpires(i) ==
    /\ call[i].pc \in {"done", "dead"}
    /\ hash[i] # "absent"
    /\ hash' = [hash EXCEPT ![i] = "absent"]
    /\ UNCHANGED <<call, cli, out, queue, ticket, session, registry, audit>>

-----------------------------------------------------------------------------
\* The device's requests: ack_invocation, submit_output

At(i, pc) == cli[i].pc = pc

\* An output chunk; an unknown invocation is a 404.
PostOutput(i) ==
    /\ At(i, "working")
    /\ cli[i].posted < MaxChunks
    /\ hash[i] # "absent"
    /\ out' = [out EXCEPT ![i] = Append(@, "output")]
    /\ cli' = [cli EXCEPT ![i].posted = @ + 1]
    /\ UNCHANGED <<call, hash, queue, ticket, session, registry, audit>>

\* The control chunk, or that of a denial: XADD first.
PostVerdict(i) ==
    /\ At(i, "working")
    /\ hash[i] # "absent"
    /\ \E verdict \in Verdict :
         /\ out' = [out EXCEPT ![i] = Append(@, verdict)]
         /\ cli' = [cli EXCEPT ![i].pc = "mark", ![i].verdict = verdict]
    /\ UNCHANGED <<call, hash, queue, ticket, session, registry, audit>>

PostRefused(i) ==
    /\ At(i, "working")
    /\ hash[i] = "absent"
    /\ cli' = [cli EXCEPT ![i].pc = "finished"]
    /\ UNCHANGED <<call, redis, session, registry, audit>>

\* HSET completed: it makes the hash anew if that was reaped meanwhile.
Mark(i) ==
    /\ At(i, "mark")
    /\ hash' = [hash EXCEPT ![i] = cli[i].verdict]
    /\ cli' = [cli EXCEPT ![i].pc = "report", ![i].early = ~call[i].due]
    /\ UNCHANGED <<call, out, queue, ticket, session, registry, audit>>

MarkFails(i) ==
    /\ Faults
    /\ At(i, "mark")
    /\ cli' = [cli EXCEPT ![i].pc = "report"]
    /\ UNCHANGED <<call, redis, session, registry, audit>>

\* record_result updates the row of record_dispatch.
RecordResult(i) ==
    /\ At(i, "report")
    /\ \/ audit' = [audit EXCEPT ![i] = IF @ = "none" THEN @ ELSE "settled"]
       \/ Faults /\ UNCHANGED audit
    /\ cli' = [cli EXCEPT ![i].pc = "finished"]
    /\ UNCHANGED <<call, redis, session, registry>>

-----------------------------------------------------------------------------
\* Tickets and sessions: poll, session_events, register_session, next_command

\* claim_ticket: an unexpired ticket is handed out again.
Poll(t) ==
    /\ queue # <<>>
    /\ ticket.now = None
    /\ t \notin ticket.issued
    /\ ticket' = [now |-> t, issued |-> ticket.issued \cup {t}]
    /\ UNCHANGED <<call, cli, hash, out, queue, session, registry, audit>>

TicketExpires ==
    /\ ticket.now # None
    /\ ticket' = [ticket EXCEPT !.now = None]
    /\ UNCHANGED <<call, cli, hash, out, queue, session, registry, audit>>

Is(s, pc) == session[s].pc = pc

Goes(s, pc) == session' = [session EXCEPT ![s].pc = pc]

\* validate_ticket; other tickets are a 410.
Validate(s) ==
    /\ Is(s, "off")
    /\ ticket.now # None
    /\ Goes(s, "validated")
    /\ UNCHANGED <<call, cli, redis, registry, audit>>

\* register_session reads the ticket once more, and makes up an id if it is
\* gone.
ReadTicket(s) ==
    /\ Is(s, "validated")
    /\ session' = [session EXCEPT ![s].pc = "read",
                     ![s].id = IF ticket.now # None THEN ticket.now ELSE s]
    /\ UNCHANGED <<call, cli, redis, registry, audit>>

Without(ids, id) == [x \in DOMAIN ids \ {id} |-> ids[x]]

\* Mutant: the session that is replaced is not told.
ReplacedSilently(s, prior) == [session EXCEPT ![s].pc = "loop"]

Replaced(s, prior) ==
    [x \in Session |-> IF x = s THEN [session[x] EXCEPT !.pc = "loop"]
                       ELSE IF x = prior THEN [session[x] EXCEPT !.closed = TRUE]
                       ELSE session[x]]

\* The ticket is deleted, then the session takes its place in the maps.
Register(s) ==
    LET p == session[s].proc
        id == session[s].id
        prior == registry[p].latest
        others == IF prior = None THEN registry[p].ids
                  ELSE Without(registry[p].ids, session[prior].id)
    IN /\ Is(s, "read")
       /\ ticket' = IF id = s THEN ticket ELSE [ticket EXCEPT !.now = None]
       /\ registry' = [registry EXCEPT ![p] =
            [latest |-> s,
             ids |-> [x \in DOMAIN others \cup {id} |->
                        IF x = id THEN s ELSE others[x]]]]
       /\ session' = Replaced(s, prior)
       /\ UNCHANGED <<call, cli, hash, out, queue, audit>>

\* The generator looks at its closed flag, then waits in BLPOP.
Wait(s) ==
    /\ Is(s, "loop")
    /\ Goes(s, IF session[s].closed THEN "leaving" ELSE "popping")
    /\ UNCHANGED <<call, cli, redis, registry, audit>>

Pop(s) ==
    /\ Is(s, "popping")
    /\ queue # <<>>
    /\ queue' = Tail(queue)
    /\ session' = [session EXCEPT ![s].pc = "holding", ![s].holds = Head(queue)]
    /\ UNCHANGED <<call, cli, hash, out, ticket, registry, audit>>

\* BLPOP timed out or failed.
PopNothing(s) ==
    /\ Is(s, "popping")
    /\ queue = <<>> \/ Faults
    /\ Goes(s, "loop")
    /\ UNCHANGED <<call, cli, redis, registry, audit>>

\* Mutant: a popped envelope goes out as it is.
GoesOutUnchecked(i) == TRUE

\* next_command drops an envelope whose invocation was reaped.
GoesOut(i) == hash[i] # "absent"

Check(s) ==
    /\ Is(s, "holding")
    /\ \/ /\ GoesOut(session[s].holds)
          /\ Goes(s, "yielding")
       \/ /\ ~GoesOut(session[s].holds) \/ Faults
          /\ session' = [session EXCEPT ![s].pc = "loop", ![s].holds = None]
    /\ UNCHANGED <<call, cli, redis, registry, audit>>

\* The socket takes the event, or turns out to be gone.
Yield(s) ==
    LET i == session[s].holds IN
    /\ Is(s, "yielding")
    /\ cli' = IF session[s].up /\ cli[i].pc = "away"
              THEN [cli EXCEPT ![i].pc = "working"] ELSE cli
    /\ session' = [session EXCEPT ![s].pc = IF session[s].up THEN "loop" ELSE "leaving",
                                  ![s].holds = None]
    /\ UNCHANGED <<call, redis, registry, audit>>

\* The socket breaks; the generator notices at its next yield.
Disconnect(s) ==
    /\ session[s].up
    /\ session[s].pc \in {"loop", "popping", "holding", "yielding"}
    /\ session' = [session EXCEPT ![s].up = FALSE]
    /\ UNCHANGED <<call, cli, redis, registry, audit>>

\* A heartbeat fails, the session idled out, or the server shuts down.
Stop(s) ==
    /\ Is(s, "loop")
    /\ Goes(s, "leaving")
    /\ UNCHANGED <<call, cli, redis, registry, audit>>

\* close_session, by id.
Leave(s) ==
    LET p == session[s].proc
        id == session[s].id
        found == IF id \in DOMAIN registry[p].ids THEN registry[p].ids[id] ELSE None
    IN /\ Is(s, "leaving")
       /\ registry' = [registry EXCEPT
            ![p].ids = Without(@, id),
            ![p].latest = IF @ = found THEN None ELSE @]
       /\ session' = [x \in Session |->
            IF x = s THEN [session[x] EXCEPT !.pc = "ended"]
            ELSE IF x = found THEN [session[x] EXCEPT !.closed = TRUE]
            ELSE session[x]]
       /\ UNCHANGED <<call, cli, redis, audit>>

-----------------------------------------------------------------------------

CallStep(i) ==
    \/ WriteHash(i) \/ Enqueue(i) \/ DispatchFails(i) \/ RecordDispatch(i)
    \/ Read(i) \/ ReadNothing(i) \/ IsOver(i) \/ StopDraining(i) \/ Consult(i)
    \/ Reap(i) \/ Unqueue(i) \/ ReapFails(i)

DeviceStep(i) ==
    \/ PostOutput(i) \/ PostVerdict(i) \/ PostRefused(i) \/ Mark(i)
    \/ MarkFails(i) \/ RecordResult(i)

SessionStep(s) ==
    \/ Validate(s) \/ ReadTicket(s) \/ Register(s) \/ Wait(s) \/ Pop(s)
    \/ PopNothing(s) \/ Check(s) \/ Yield(s) \/ Disconnect(s) \/ Stop(s) \/ Leave(s)

Next ==
    \/ \E i \in Call : CallStep(i) \/ Deadline(i) \/ CrashCall(i) \/ HashExpires(i)
    \/ \E i \in Call : DeviceStep(i)
    \/ \E s \in Session : SessionStep(s)
    \/ \E t \in Ticket : Poll(t)
    \/ TicketExpires

Spec == Init /\ [][Next]_vars

\* A tool call's thread runs, and its deadline comes.  Nothing is asked of the
\* device.
Fairness == \A i \in Call : WF_vars(CallStep(i)) /\ WF_vars(Deadline(i))

FairSpec == Spec /\ Fairness

-----------------------------------------------------------------------------
\* Properties

\* A device whose exit or denial was recorded before the tool's deadline is
\* not reported as "did not respond".
TimeoutIsTrue ==
    \A i \in Call : call[i].result = "timeout" => ~cli[i].early

\* A verdict the tool has before its deadline came with everything the device
\* posted before it, however late the drain began and however the device's
\* last requests fell between two reads.
OutputIsWhole ==
    \A i \in Call : call[i].result \in Verdict /\ ~call[i].due
        => call[i].got = cli[i].posted

\* A command that the tool has already given up on does not go out to the
\* device any more, if its session had not yet looked at the hash.
ReapedStayIn ==
    [][\A s \in Session : Is(s, "holding") /\ session[s].pc' = "yielding"
         => call[session[s].holds].pc \notin {"unqueue", "done"}]_vars

\* However sessions come, replace each other and go: a process has one session
\* that is not closed, and close_session can find it.
OneLiveSession ==
    \A s \in Session :
        /\ session[s].pc \in {"loop", "popping", "holding", "yielding"}
        /\ ~session[s].closed
        => LET r == registry[session[s].proc] IN
           /\ r.latest = s
           /\ session[s].id \in DOMAIN r.ids
           /\ r.ids[session[s].id] = s

\* A tool call does not hang on a device that never answers, nor on a broker
\* that fails.
ToolEnds ==
    \A i \in Call : call[i].pc = "hashed" ~> call[i].pc \in {"done", "dead"}

\* A session that was closed takes nothing from the queue: commands queued
\* after that are for the next session.
ClosedTakesNothing ==
    [][\A s \in Session : session[s].holds = None /\ session[s].holds' # None
         => ~session[s].closed]_vars

\* Only its own exit, or its replacement, closes a session.
ExitClosesOwn ==
    [][\A s, x \in Session :
         Is(x, "leaving") /\ session[x].pc' = "ended" /\ s # x
           => session[s].closed' = session[s].closed]_vars

\* Once the dispatch is recorded and the device's last request is answered, the
\* audit row shows that the command was denied.
AuditShowsOutcome ==
    \A i \in Call : At(i, "finished") /\ cli[i].verdict = "denied"
                    /\ audit[i] # "none"
        => audit[i] = "settled"
=============================================================================
