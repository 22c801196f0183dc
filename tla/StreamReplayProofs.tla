-------------------------- MODULE StreamReplayProofs --------------------------
(***************************************************************************)
(* What the reconnected clients of one stream see.  As long as no database *)
(* call fails and Redis loses nothing, the events the stream has sent form *)
(* one line: the journal is its beginning, the writer's buffer the rest,   *)
(* and every client's inbox a stretch of it.                               *)
(***************************************************************************)
EXTENDS StreamJournalProofs

Sole == stream[First]

Regime == NotResumed /\ row # "gone"

\* How much of the journal was published.
Handled(s, K) ==
    IF s.pc = "publish" THEN K - Len(s.work)
    ELSE IF s.pc = "publishRow" THEN K - 1
    ELSE K

\* The stream has sent the first M events of the line, K of them are in the
\* journal and the rest is with its writer.
Carries(s, j, K, M, line) ==
    /\ K <= M
    /\ DOMAIN j = 0..(K - 1)
    /\ \A n \in 0..(K - 1) : j[n] = line[n]
    /\ \A n \in 0..(M - 1) : line[n].no = n + 1
    /\ s.pc \notin {"idle", "retry"} /\ s.base = 0
    /\ s.pc = "dead" => M = K
    /\ s.pc # "dead" =>
         /\ s.next = M /\ s.no = M /\ Len(Pending(s)) = M - K
         /\ \A i \in 1..(M - K) : /\ Pending(s)[i].at = K + i - 1
                                  /\ Pending(s)[i].event = line[K + i - 1]
    /\ s.pc = "publish" =>
         /\ Len(s.work) <= K
         /\ \A i \in 1..Len(s.work) : /\ s.work[i].at = K - Len(s.work) + i - 1
                                      /\ s.work[i].event = line[K - Len(s.work) + i - 1]
    /\ s.pc = "row" => Len(s.work) = 1
    /\ s.pc = "publishRow" => /\ K > 0 /\ s.at = K - 1 /\ Len(s.work) = 1
                              /\ s.work[1].event = line[K - 1]

\* An inbox holds the events of the line from p on.
Stretch(q, p, line) ==
    \A i \in 1..Len(q) : q[i].at = p + i - 1 /\ q[i].event = line[p + i - 1]

\* A client was shown the line up to its cursor, and what it waits for is on
\* its way: nothing between its cursor and what is to be published is left out.
Follows(c, s, K, line) ==
    /\ \A i \in DOMAIN c.seen : c.seen[i].no = i
    /\ c.pc \in {"subscribed", "live"} =>
         /\ Len(c.seen) = c.max + 1
         /\ \E p \in Nat :
              /\ p + Len(c.inbox) <= K
              /\ Stretch(c.inbox, p, line)
              /\ c.pc = "live" => p <= c.max + 1
              /\ s.pc # "dead" => p + Len(c.inbox) = Handled(s, K)

\* A step never makes a stream idle, and is no other stream's.
LEMMA FlushWakes ==
    ASSUME Typed, NEW w \in Writer, NEW u \in StreamState, u.pc = "ready", Flush(w, u)
    PROVE  stream'[w].pc # "idle" /\ \A v \in Writer \ {w} : stream'[v] = stream[v]
  <1> DEFINE clear == [u EXCEPT !.buffer = <<>>, !.age = "fresh"]
             latch == [clear EXCEPT !.latched = TRUE]
             with(pc) == [clear EXCEPT !.work = u.buffer, !.pc = pc]
  <1>1. /\ clear.pc = "ready" /\ latch.pc = "ready"
        /\ with("row").pc = "row" /\ with("publish").pc = "publish"
    BY DEF StreamState
  <1>2. \E t \in {clear, latch, with("row"), with("publish")} : Becomes(w, t)
    BY DEF Flush, Becomes
  <1> HIDE DEF clear, latch, with
  <1> QED
    BY <1>1, <1>2 DEF Becomes, Typed, TypeOK

LEMMA StepWakes ==
    ASSUME Typed, NEW w \in Writer, StreamStep(w)
    PROVE  stream'[w].pc # "idle" /\ \A v \in Writer \ {w} : stream'[v] = stream[v]
  <1> DEFINE s == stream[w]
  <1>1. s \in StreamState /\ stream \in [Writer -> StreamState]
    BY DEF Typed, TypeOK
  <1>2. ASSUME NEW t, Becomes(w, t), t.pc # "idle"
        PROVE  stream'[w].pc # "idle" /\ \A v \in Writer \ {w} : stream'[v] = stream[v]
    BY <1>1, <1>2 DEF Becomes
  <1>3. CASE Write(w)
    <2>1. PICK u \in StreamState : /\ u.pc = "ready"
                                   /\ Flush(w, u) \/ Becomes(w, u)
      BY <1>3, WriteIs DEF Unflushed
    <2> QED
      BY <1>2, <2>1, FlushWakes
  <1>4. CASE Publish(w) \/ PublishRow(w)
    <2>1. PICK pc \in {"publish", "row"} : Becomes(w, Popped(s, pc))
      BY <1>4 DEF Publish, PublishRow, Becomes
    <2>2. Popped(s, pc).pc # "idle"
      BY <1>1, PoppedIs
    <2> QED
      BY <1>2, <2>1, <2>2
  <1>5. CASE InsertRow(w)
    <2>1. PICK at \in Nat : \E t \in {[s EXCEPT !.pc = "publishRow", !.at = at],
                           [s EXCEPT !.pc = "retry", !.at = Latest + 1],
                           Unwritten([s EXCEPT !.at = at])} : Becomes(w, t)
      <3> DEFINE at == IF s.pc = "retry" THEN s.at ELSE Head(s.work).at
      <3>1. s.work \in Seq(Frame) /\ s.work # <<>> /\ s.at \in Nat
        BY <1>5, StreamIs DEF StreamTyped, StreamState, ShapeOf, Busy, InsertRow
      <3>2. Head(s.work) \in Frame
        BY <3>1
      <3>3. at \in Nat
        BY <3>1, <3>2 DEF Frame
      <3>4. \E t \in {[s EXCEPT !.pc = "publishRow", !.at = at],
                      [s EXCEPT !.pc = "retry", !.at = Latest + 1],
                      Unwritten([s EXCEPT !.at = at])} : Becomes(w, t)
        BY <1>5 DEF InsertRow, Becomes
      <3> QED
        BY <3>3, <3>4
    <2> DEFINE tried == [s EXCEPT !.at = at]
    <2>2. tried \in StreamState
      BY <1>1, StreamFields
    <2>3. /\ [s EXCEPT !.pc = "publishRow", !.at = at].pc = "publishRow"
          /\ [s EXCEPT !.pc = "retry", !.at = Latest + 1].pc = "retry"
          /\ [tried EXCEPT !.pc = "publishRow"].pc = "publishRow"
      BY <1>1, <2>2 DEF StreamState
    <2>4. Popped(tried, "row").pc # "idle"
      <3> HIDE DEF tried
      <3> QED
        BY <2>2, PoppedIs
    <2>5. Unwritten(tried).pc # "idle"
      BY <2>3, <2>4 DEF Unwritten
    <2> QED
      BY <1>2, <2>1, <2>3, <2>5
  <1>6. CASE Finish(w) \/ Fail(w) \/ IntervalPasses(w)
    <2>1. PICK t : /\ Becomes(w, t)
                   /\ \/ \E v \in {"finished", "failed"} : t = [s EXCEPT !.stage = v]
                      \/ \E v \in {"due", "late"} : t = [s EXCEPT !.age = v]
      BY <1>1, <1>6 DEF Finish, Fail, IntervalPasses, Becomes
    <2>2. s.pc = "ready"
      BY <1>6 DEF Finish, Fail, IntervalPasses, Ready
    <2>3. t.pc = s.pc
      BY <1>1, <2>1 DEF StreamState
    <2> QED
      BY <1>2, <2>1, <2>2, <2>3
  <1>7. CASE Resume(w)
    <2>1. PICK n : Becomes(w, [IdleStream EXCEPT !.pc = "ready", !.base = n, !.next = n])
      BY <1>7 DEF Resume, Becomes
    <2>2. [IdleStream EXCEPT !.pc = "ready", !.base = n, !.next = n].pc = "ready"
      BY DEF IdleStream
    <2> QED
      BY <1>2, <2>1, <2>2
  <1>8. CASE AbortEnds(w)
    <2>1. PICK ends : Becomes(w, [s EXCEPT !.stage = "closed", !.pc = "row", !.single = TRUE,
                                           !.no = @ + 1, !.next = @ + 1,
                                           !.work = <<EventFrame(w, ends)>>])
      BY <1>8 DEF AbortEnds, Becomes, EventFrame
    <2>2. [s EXCEPT !.stage = "closed", !.pc = "row", !.single = TRUE, !.no = @ + 1,
                    !.next = @ + 1, !.work = <<EventFrame(w, ends)>>].pc = "row"
      BY <1>1 DEF StreamState
    <2> QED
      BY <1>2, <2>1, <2>2
  <1>9. CASE Crash(w)
    <2>1. PICK n : Becomes(w, [s EXCEPT !.pc = "dead", !.no = n, !.stage = "aborted",
                                        !.buffer = <<>>, !.work = <<>>])
      BY <1>9 DEF Crash, Becomes
    <2>2. [s EXCEPT !.pc = "dead", !.no = n, !.stage = "aborted",
                    !.buffer = <<>>, !.work = <<>>].pc = "dead"
      BY <1>1 DEF StreamState
    <2> QED
      BY <1>2, <2>1, <2>2
  <1> QED
    BY <1>3, <1>4, <1>5, <1>6, <1>7, <1>8, <1>9 DEF StreamStep, Write

\* A message that was resumed stays so.
LEMMA RegimeIsOld ==
    ASSUME Typed, [Next]_vars, Regime' PROVE Regime
  <1>1. row # "gone"
    BY GoneStays DEF Regime
  <1>2. ASSUME NEW v \in Writer \ {First}, stream[v] # IdleStream PROVE FALSE
    <2>1. stream[v].pc # "idle"
      BY <1>2, StreamIs DEF StreamTyped, ShapeOf
    <2>2. stream'[v] = IdleStream /\ IdleStream.pc = "idle"
      BY DEF Regime, NotResumed, IdleStream
    <2>3. ASSUME NEW w \in Writer, StreamStep(w) PROVE FALSE
      BY <2>1, <2>2, <2>3, StepWakes
    <2>4. stream' # stream
      BY <1>2, <2>2
    <2>5. ASSUME NEW r \in Reader, ClientStep(r) PROVE FALSE
      BY <2>4, <2>5, ClientStepIs
    <2> QED
      BY <2>3, <2>4, <2>5 DEF Next, DeleteRow, ReconcileRow, vars
  <1> QED
    BY <1>1, <1>2 DEF Regime, NotResumed

\* In the regime only the first stream moves.
LEMMA OnlyFirst ==
    ASSUME Typed, NEW w \in Writer, StreamStep(w), Regime' PROVE w = First
  <1>1. IdleStream.pc = "idle"
    BY DEF IdleStream
  <1> QED
    BY <1>1, StepWakes DEF Regime, NotResumed

\* A client follows on when the journal grows by what is not published yet.
LEMMA FollowsOn ==
    ASSUME NEW c \in ClientState, NEW s, NEW t, NEW K \in Nat, NEW J \in Nat, K <= J,
           NEW line, NEW onward, \A n \in 0..(K - 1) : onward[n] = line[n],
           t.pc # "dead" => s.pc # "dead" /\ Handled(t, J) = Handled(s, K),
           Follows(c, s, K, line)
    PROVE  Follows(c, t, J, onward)
  <1> DEFINE q == c.inbox
  <1>1. q \in Seq(Frame) /\ Len(q) \in Nat /\ c.max \in Nat
    BY DEF ClientState
  <1>2. \A i \in DOMAIN c.seen : c.seen[i].no = i
    BY DEF Follows
  <1>3. ASSUME c.pc \in {"subscribed", "live"}
        PROVE  /\ Len(c.seen) = c.max + 1
               /\ \E p \in Nat : /\ p + Len(q) <= J
                                 /\ Stretch(q, p, onward)
                                 /\ c.pc = "live" => p <= c.max + 1
                                 /\ t.pc # "dead" => p + Len(q) = Handled(t, J)
    <2>1. PICK p \in Nat : /\ p + Len(q) <= K
                           /\ Stretch(q, p, line)
                           /\ c.pc = "live" => p <= c.max + 1
                           /\ s.pc # "dead" => p + Len(q) = Handled(s, K)
      BY <1>3 DEF Follows
    <2>2. p + Len(q) <= J
      BY <1>1, <2>1
    <2>3. Stretch(q, p, onward)
      <3> SUFFICES ASSUME NEW i \in 1..Len(q)
                   PROVE  q[i].at = p + i - 1 /\ q[i].event = onward[p + i - 1]
        BY DEF Stretch
      <3>1. p + i - 1 \in 0..(K - 1)
        BY <1>1, <2>1
      <3> QED
        BY <2>1, <3>1 DEF Stretch
    <2>4. Len(c.seen) = c.max + 1
      BY <1>3 DEF Follows
    <2> QED
      BY <2>1, <2>2, <2>3, <2>4
  <1> QED
    BY <1>2, <1>3 DEF Follows

\* What the writer holds of the line past K.
Held(q, K, N, line) ==
    /\ Len(q) = N - K
    /\ \A i \in 1..(N - K) : q[i].at = K + i - 1 /\ q[i].event = line[K + i - 1]

\* The line with what First sends next.
Sending(M, line, ends) == [line EXCEPT ![M] = [by |-> First, no |-> M + 1, ends |-> ends]]

\* The line goes on by an event or stays.
Onward(u, M, N, line, onward) ==
    \/ \E ends \in {"no", "end", "error"} :
         N = M + 1 /\ onward = Sending(M, line, ends) /\ Sends(First, u, ends)
    \/ N = M /\ onward = line /\ u.stage = "aborted" /\ u.errored = Sole.errored

LEMMA HandedHeld ==
    ASSUME Typed, Sole.pc = "ready", ~Sole.latched, NEW u \in StreamState,
           NEW K \in Nat, NEW M \in Nat, NEW line \in [Nat -> Event], K <= M,
           Sole.next = M, Sole.no = M, Held(Sole.buffer, K, M, line), M <= MaxEmits,
           NEW ends \in {"no", "end", "error"}, Handed(First, u, ends)
    PROVE  /\ u.next = M + 1 /\ u.no = M + 1
           /\ Held(u.buffer, K, M + 1, Sending(M, line, ends))
           /\ Sending(M, line, ends) \in [Nat -> Event]
           /\ \A n \in Nat \ {M} : Sending(M, line, ends)[n] = line[n]
           /\ Sending(M, line, ends)[M].no = M + 1
           /\ Sending(M, line, ends)[M].ends = ends
  <1> DEFINE s == stream[First]
             b == s.buffer
             f == EventFrame(First, ends)
             q == Append(b, f)
             e == [by |-> First, no |-> M + 1, ends |-> ends]
             onward == Sending(M, line, ends)
  <1>1. First \in Writer /\ MaxEmits \in Nat
    BY ConstantsAssumption
  <1>2. b \in Seq(Frame) /\ Len(b) \in Nat /\ Len(b) = M - K
    BY <1>1, StreamNumbers DEF Held, Sole
  <1>3. e \in Event
    BY <1>1 DEF Event
  <1>4. f = [at |-> M, event |-> e]
    BY DEF EventFrame, Sole
  <1> HIDE DEF e
  <1>5. /\ onward \in [Nat -> Event] /\ onward[M] = e
        /\ \A n \in Nat \ {M} : onward[n] = line[n]
    BY <1>3 DEF Sending, e
  <1>6. f \in Frame /\ f.at = M /\ f.event = e
    BY <1>3, <1>4 DEF Frame
  <1>7. u.next = M + 1 /\ u.no = M + 1 /\ u.buffer = q
    BY DEF Handed, Sole
  <1> HIDE DEF f
  <1>8. /\ Len(q) = Len(b) + 1
        /\ \A i \in 1..Len(b) : q[i] = b[i]
        /\ q[Len(b) + 1] = f
    <2> HIDE DEF b
    <2> QED
      BY <1>2, <1>6, AppendProperties
  <1> HIDE DEF q, onward
  <1>9. ASSUME NEW i \in 1..(M + 1 - K)
        PROVE  q[i].at = K + i - 1 /\ q[i].event = onward[K + i - 1]
    <2>1. CASE i = M - K + 1
      <3>1. K + i - 1 = M /\ q[i] = f
        BY <1>2, <1>8, <2>1
      <3> QED
        BY <1>5, <1>6, <3>1
    <2>2. CASE i # M - K + 1
      <3>1. i \in 1..(M - K) /\ K + i - 1 \in Nat \ {M}
        BY <2>2
      <3>2. q[i] = b[i] /\ b[i].at = K + i - 1 /\ b[i].event = line[K + i - 1]
        BY <1>2, <1>8, <3>1 DEF Held, Sole
      <3> QED
        BY <1>5, <3>1, <3>2
    <2> QED
      BY <2>1, <2>2
  <1>10. Len(q) = M + 1 - K
    BY <1>2, <1>8
  <1>11. e.no = M + 1 /\ e.ends = ends
    BY DEF e
  <1> QED
    BY <1>5, <1>7, <1>9, <1>10, <1>11 DEF Held, onward

LEMMA WriteCarries ==
    ASSUME Typed, OrderInv, ~Blips, row # "gone", Write(First),
           NEW K \in Nat, NEW M \in Nat, NEW line \in [Nat -> Event],
           Carries(Sole, journal, K, M, line)
    PROVE  /\ client' = client
           /\ \E J, N \in Nat : \E onward \in [Nat -> Event] :
                /\ Carries(stream'[First], journal', J, N, onward)
                /\ \A c \in ClientState :
                     Follows(c, Sole, K, line) => Follows(c, stream'[First], J, onward)
                /\ stream'[First].pc # "dead"
                /\ Onward(stream'[First], M, N, line, onward)
  <1> DEFINE s == stream[First]
             t == stream'[First]
  <1>0. First \in Writer
    BY ConstantsAssumption
  <1>1. /\ s.pc = "ready" /\ s.stage \notin {"aborted", "closed"} /\ client' = client
        /\ s \in StreamState /\ s.no <= MaxEmits /\ stream \in [Writer -> StreamState]
    BY <1>0, WriteIs, StreamIs DEF StreamTyped, ShapeOf, Typed, TypeOK
  <1>2. ~s.latched /\ Numbered(s.buffer, First, s)
    BY <1>0, <1>1 DEF OrderInv, SyncedAt, InSync, Pending
  <1>3. PICK u \in StreamState :
          /\ Unflushed(u) /\ Keeps(s, u)
          /\ \/ Flush(First, u)
             \/ Becomes(First, u) /\ UNCHANGED journal
          /\ \/ \E ends \in {"no", "end", "error"} : Handed(First, u, ends) /\ Sends(First, u, ends)
             \/ Drains(First, u)
    BY <1>0, WriteIs
  <1>4. /\ K <= M /\ DOMAIN journal = 0..(K - 1) /\ s.base = 0
        /\ \A n \in 0..(K - 1) : journal[n] = line[n]
        /\ \A n \in 0..(M - 1) : line[n].no = n + 1
        /\ s.next = M /\ s.no = M /\ Held(s.buffer, K, M, line)
    BY <1>1 DEF Carries, Sole, Held, Pending
  <1>5. PICK N \in Nat : \E onward \in [Nat -> Event] :
          /\ M <= N /\ u.next = N /\ u.no = N /\ Held(u.buffer, K, N, onward)
          /\ \A n \in 0..(M - 1) : onward[n] = line[n]
          /\ \A n \in 0..(N - 1) : onward[n].no = n + 1
          /\ Onward(u, M, N, line, onward)
    <2>1. CASE Drains(First, u)
      BY <1>4, <2>1 DEF Drains, Onward, Sole
    <2>2. CASE \E ends \in {"no", "end", "error"} : Handed(First, u, ends) /\ Sends(First, u, ends)
      <3>1. PICK ends \in {"no", "end", "error"} : Handed(First, u, ends) /\ Sends(First, u, ends)
        BY <2>2
      <3> DEFINE onward == Sending(M, line, ends)
      <3>2. /\ u.next = M + 1 /\ u.no = M + 1 /\ Held(u.buffer, K, M + 1, onward)
            /\ onward \in [Nat -> Event] /\ \A n \in Nat \ {M} : onward[n] = line[n]
            /\ onward[M].no = M + 1
        BY <1>1, <1>2, <1>4, <3>1, HandedHeld DEF Sole
      <3> HIDE DEF onward
      <3>3. /\ \A n \in 0..(M - 1) : onward[n] = line[n]
            /\ \A n \in 0..M : onward[n].no = n + 1
        <4>1. \A n \in 0..(M - 1) : n \in Nat \ {M} /\ onward[n] = line[n] /\ line[n].no = n + 1
          BY <1>4, <3>2
        <4>2. \A n \in 0..M : n = M \/ n \in 0..(M - 1)
          OBVIOUS
        <4> HIDE DEF s
        <4> QED
          BY <3>2, <4>1, <4>2
      <3>4. M + 1 \in Nat /\ M <= M + 1 /\ (M + 1) - 1 = M
        OBVIOUS
      <3>5. Onward(u, M, M + 1, line, onward)
        BY <3>1 DEF Onward, onward
      <3> QED
        BY <3>2, <3>3, <3>4, <3>5
    <2> QED
      BY <1>3, <2>1, <2>2
  <1>6. PICK onward \in [Nat -> Event] :
          /\ M <= N /\ u.next = N /\ u.no = N /\ Held(u.buffer, K, N, onward)
          /\ \A n \in 0..(M - 1) : onward[n] = line[n]
          /\ \A n \in 0..(N - 1) : onward[n].no = n + 1
          /\ Onward(u, M, N, line, onward)
    BY <1>5
  <1>7. /\ u.buffer \in Seq(Frame) /\ Len(u.buffer) = N - K /\ K <= N /\ u.pc = "ready"
        /\ \A n \in 0..(K - 1) : onward[n] = line[n] /\ journal[n] = onward[n]
        /\ Handled(s, K) = K /\ u.base = 0
    BY <1>1, <1>3, <1>4, <1>6, SMTT(30) DEF Held, Handled, StreamState, Unflushed, Keeps
  <1>8. SUFFICES ASSUME TRUE
        PROVE  \E J \in Nat :
                 /\ Carries(t, journal', J, N, onward)
                 /\ K <= J /\ Handled(t, J) = K /\ t.pc # "dead"
                 /\ Onward(t, M, N, line, onward)
    <2>1. PICK J \in Nat : /\ Carries(t, journal', J, N, onward)
                           /\ K <= J /\ Handled(t, J) = K /\ t.pc # "dead"
                           /\ Onward(t, M, N, line, onward)
      BY <1>8
    <2>2. ASSUME NEW c \in ClientState, Follows(c, s, K, line) PROVE Follows(c, t, J, onward)
      <3> HIDE DEF s, t
      <3> QED
        BY <1>1, <1>7, <2>1, <2>2, FollowsOn
    <2> QED
      BY <1>1, <2>1, <2>2 DEF Sole
  <1>9. CASE Becomes(First, u) /\ UNCHANGED journal
    <2>1. t = u
      BY <1>0, <1>1, <1>9 DEF Becomes
    <2>2. Pending(u) = u.buffer /\ Handled(u, K) = K
      BY <1>7 DEF Pending, Handled
    <2> HIDE DEF t
    <2>3. Carries(t, journal', K, N, onward)
      BY <1>4, <1>6, <1>7, <1>9, <2>1, <2>2 DEF Carries, Held
    <2> QED
      BY <1>6, <1>7, <2>1, <2>2, <2>3
  <1>10. CASE Flush(First, u)
    <2>1. Numbered(u.buffer, First, u)
      BY <1>0, <1>1, <1>2, <1>3, HandedNumbered
    <2>2. u.next - Len(u.buffer) = K /\ Dense(K)
      BY <1>4, <1>6, <1>7 DEF Dense
    <2>3. ~(u.buffer # <<>> /\ Collides(u.buffer))
      <3>1. SUFFICES ASSUME NEW i \in DOMAIN u.buffer, u.buffer[i].at \in DOMAIN journal
                     PROVE  FALSE
        BY DEF Collides
      <3>2. i \in 1..(N - K)
        BY <1>7, <3>1
      <3>3. u.buffer[i].at = K + i - 1
        BY <1>6, <3>2 DEF Held
      <3> QED
        BY <1>4, <3>1, <3>2, <3>3
    <2>4. PICK x \in StreamState :
            /\ Becomes(First, x) /\ Keeps(u, x)
            /\ x.next = u.next /\ x.no = u.no /\ x.stage = u.stage /\ x.errored = u.errored
            /\ x.buffer = <<>>
            /\ \/ u.buffer = <<>> /\ journal' = journal /\ x.pc = "ready"
               \/ Grows(K, u.buffer) /\ x.pc = "publish" /\ x.work = u.buffer
      <3>1. u.next - Len(u.buffer) <= K
        BY <2>2
      <3> QED
        BY <1>0, <1>3, <1>10, <2>1, <2>2, <2>3, <3>1, FlushIs
    <2>5. t = x
      BY <1>0, <1>1, <2>4 DEF Becomes
    <2> HIDE DEF t
    <2>6. Onward(t, M, N, line, onward)
      BY <1>6, <2>4, <2>5 DEF Onward, Sends
    <2>7. CASE u.buffer = <<>> /\ journal' = journal /\ x.pc = "ready"
      <3>1. Pending(t) = <<>> /\ Handled(t, K) = K /\ N = K
        BY <1>7, <2>4, <2>5, <2>7 DEF Pending, Handled
      <3>2. Carries(t, journal', K, N, onward)
        BY <1>4, <1>6, <1>7, <2>4, <2>5, <2>7, <3>1 DEF Carries, Held, Keeps
      <3> QED
        BY <1>7, <2>4, <2>5, <2>6, <2>7, <3>1, <3>2
    <2>8. CASE Grows(K, u.buffer) /\ x.pc = "publish" /\ x.work = u.buffer
      <3>1. /\ Pending(t) = <<>> /\ t.pc = "publish" /\ Len(t.work) = N - K
            /\ t.next = N /\ t.no = N /\ t.base = 0
        BY <1>6, <1>7, <2>4, <2>5, <2>8 DEF Pending, Keeps
      <3>2. Handled(t, N) = K
        BY <3>1 DEF Handled
      <3>3. DOMAIN journal' = 0..(N - 1)
        BY <1>7, <2>8 DEF Grows
      <3>4. ASSUME NEW n \in 0..(N - 1) PROVE journal'[n] = onward[n]
        <4>1. CASE n \in 0..(K - 1)
          BY <1>7, <2>8, <4>1 DEF Grows
        <4>2. CASE n \notin 0..(K - 1)
          <5> DEFINE i == n - K + 1
          <5>1. i \in 1..(N - K) /\ K + i - 1 = n
            BY <4>2
          <5> HIDE DEF i
          <5>2. journal'[K + i - 1] = u.buffer[i].event
            BY <1>7, <2>8, <5>1 DEF Grows
          <5>3. u.buffer[i].event = onward[K + i - 1]
            BY <1>6, <5>1 DEF Held
          <5> QED
            BY <5>1, <5>2, <5>3
        <4> QED
          BY <4>1, <4>2
      <3>5. ASSUME NEW i \in 1..Len(t.work)
            PROVE  /\ t.work[i].at = N - Len(t.work) + i - 1
                   /\ t.work[i].event = onward[N - Len(t.work) + i - 1]
        <4>1. N - Len(t.work) + i - 1 = K + i - 1 /\ i \in 1..(N - K) /\ t.work = u.buffer
          BY <2>4, <2>5, <2>8, <3>1
        <4> QED
          BY <1>6, <4>1 DEF Held
      <3>6. Carries(t, journal', N, N, onward)
        <4>1. N - N = 0 /\ Len(<<>>) = 0 /\ Len(t.work) <= N /\ N <= N
          BY <1>7, <3>1
        <4> QED
          BY <1>6, <3>1, <3>3, <3>4, <3>5, <4>1 DEF Carries
      <3> QED
        BY <1>7, <2>6, <3>1, <3>2, <3>6
    <2> QED
      BY <2>4, <2>7, <2>8
  <1> QED
    BY <1>3, <1>9, <1>10

\* The event that is published is the next one of every inbox.
LEMMA FollowsNext ==
    ASSUME NEW c \in ClientState, NEW s, NEW t, NEW K \in Nat, NEW line, NEW h \in Nat,
           s.pc # "dead", Handled(s, K) = h, Handled(t, K) = h + 1, h + 1 <= K,
           NEW f \in Frame, f.at = h, f.event = line[h],
           Follows(c, s, K, line)
    PROVE  Follows([c EXCEPT !.inbox = Append(@, f)], t, K, line)
  <1> DEFINE q == c.inbox
             more == Append(q, f)
             d == [c EXCEPT !.inbox = more]
  <1>1. q \in Seq(Frame) /\ Len(q) \in Nat
    BY DEF ClientState
  <1>2. Len(more) = Len(q) + 1 /\ more[Len(q) + 1] = f /\ \A i \in 1..Len(q) : more[i] = q[i]
    <2> HIDE DEF q
    <2> QED
      BY <1>1, AppendProperties
  <1>3. d.pc = c.pc /\ d.seen = c.seen /\ d.max = c.max /\ d.inbox = more
    <2> HIDE DEF more
    <2> QED
      BY DEF ClientState
  <1>4. [c EXCEPT !.inbox = Append(@, f)] = d
    OBVIOUS
  <1> HIDE DEF d, more
  <1>5. ASSUME c.pc \in {"subscribed", "live"}
        PROVE  /\ Len(c.seen) = c.max + 1
               /\ \E p \in Nat : /\ p + Len(more) <= K
                                 /\ Stretch(more, p, line)
                                 /\ c.pc = "live" => p <= c.max + 1
                                 /\ p + Len(more) = h + 1
    <2>1. PICK p \in Nat : /\ Stretch(q, p, line)
                           /\ c.pc = "live" => p <= c.max + 1
                           /\ p + Len(q) = h
      BY <1>5 DEF Follows
    <2>2. p + Len(more) = h + 1
      BY <1>1, <1>2, <2>1
    <2>3. Stretch(more, p, line)
      <3> SUFFICES ASSUME NEW i \in 1..Len(more)
                   PROVE  more[i].at = p + i - 1 /\ more[i].event = line[p + i - 1]
        BY DEF Stretch
      <3>1. CASE i = Len(q) + 1
        <4>1. p + i - 1 = h
          BY <1>1, <2>1, <3>1
        <4> QED
          BY <1>2, <3>1, <4>1
      <3>2. CASE i # Len(q) + 1
        <4>1. i \in 1..Len(q)
          BY <1>1, <1>2, <3>2
        <4> QED
          BY <1>2, <2>1, <4>1 DEF Stretch
      <3> QED
        BY <3>1, <3>2
    <2>4. Len(c.seen) = c.max + 1
      BY <1>5 DEF Follows
    <2> QED
      BY <2>1, <2>2, <2>3, <2>4
  <1>6. \A i \in DOMAIN c.seen : c.seen[i].no = i
    BY DEF Follows
  <1>7. Follows(d, t, K, line)
    BY <1>3, <1>5, <1>6 DEF Follows
  <1> QED
    BY <1>4, <1>7

\* Of the clients a publish changes the inboxes alone.
SameCursors ==
    \A r \in Reader : /\ client'[r].pc = client[r].pc
                      /\ client'[r].max = client[r].max
                      /\ client'[r].verdict = client[r].verdict

LEMMA PublishCarries ==
    ASSUME Typed, ~Drops, Publish(First) \/ PublishRow(First),
           NEW K \in Nat, NEW M \in Nat, NEW line \in [Nat -> Event],
           Carries(Sole, journal, K, M, line),
           \A r \in Reader : Follows(client[r], Sole, K, line)
    PROVE  /\ Carries(stream'[First], journal', K, M, line)
           /\ \A r \in Reader : Follows(client'[r], stream'[First], K, line)
           /\ SameCursors
           /\ stream'[First].pc # "dead"
           /\ stream'[First].stage = Sole.stage /\ stream'[First].errored = Sole.errored
  <1> DEFINE s == stream[First]
             t == stream'[First]
             q == s.work
             h == Handled(s, K)
             f == IF s.pc = "publish" THEN Head(q) ELSE [at |-> s.at, event |-> Head(q).event]
  <1>0. First \in Writer
    BY ConstantsAssumption
  <1>1. /\ s \in StreamState /\ s.pc \in {"publish", "publishRow"} /\ q # <<>>
        /\ s.buffer = <<>> /\ journal' = journal
        /\ stream \in [Writer -> StreamState] /\ client \in [Reader -> ClientState]
    BY <1>0, StreamIs DEF StreamTyped, ShapeOf, Busy, Publish, PublishRow, Typed, TypeOK
  <1>2. q \in Seq(Frame) /\ Len(q) \in Nat /\ s.at \in Nat
    BY <1>0, StreamNumbers
  <1>3. /\ Len(q) >= 1 /\ Head(q) = q[1] /\ Head(q) \in Frame
        /\ Tail(q) \in Seq(Frame) /\ Len(Tail(q)) = Len(q) - 1
        /\ \A i \in 1..(Len(q) - 1) : Tail(q)[i] = q[i + 1]
    BY <1>1, <1>2
  <1>4. /\ K <= M /\ s.base = 0 /\ s.next = M /\ s.no = M
        /\ DOMAIN journal = 0..(K - 1)
        /\ \A n \in 0..(K - 1) : journal[n] = line[n]
        /\ \A n \in 0..(M - 1) : line[n].no = n + 1
        /\ Len(Pending(s)) = M - K
        /\ s.pc = "publish" =>
             /\ Len(q) <= K
             /\ \A i \in 1..Len(q) : /\ q[i].at = K - Len(q) + i - 1
                                     /\ q[i].event = line[K - Len(q) + i - 1]
        /\ s.pc = "publishRow" => /\ K > 0 /\ s.at = K - 1 /\ Len(q) = 1
                                  /\ q[1].event = line[K - 1]
    BY <1>1 DEF Carries, Sole
  <1>5. /\ h \in Nat /\ h + 1 <= K /\ f \in Frame /\ f.at = h /\ f.event = line[h]
    <2>1. CASE s.pc = "publish"
      <3>1. h = K - Len(q) /\ f = Head(q)
        BY <2>1 DEF Handled
      <3>2. 1 \in 1..Len(q) /\ K - Len(q) + 1 - 1 = K - Len(q)
        BY <1>2, <1>3
      <3>3. q[1].at = K - Len(q) + 1 - 1 /\ q[1].event = line[K - Len(q) + 1 - 1]
        BY <1>4, <2>1, <3>2
      <3> QED
        BY <1>2, <1>3, <1>4, <2>1, <3>1, <3>2, <3>3
    <2>2. CASE s.pc = "publishRow"
      <3>1. h = K - 1 /\ f = [at |-> s.at, event |-> Head(q).event]
        BY <2>2 DEF Handled
      <3>2. f \in Frame
        BY <1>2, <1>3, <3>1 DEF Frame
      <3> QED
        BY <1>3, <1>4, <2>2, <3>1, <3>2
    <2> QED
      BY <1>1, <2>1, <2>2
  <1>6. /\ t.pc = (IF Len(q) > 1 THEN (IF s.pc = "publish" THEN "publish" ELSE "row") ELSE "ready")
        /\ t.work = Tail(q) /\ t.buffer = <<>>
        /\ t.next = M /\ t.no = M /\ t.base = 0 /\ t.stage = s.stage /\ t.errored = s.errored
    <2>1. PICK pc \in {"publish", "row"} :
            t = Popped(s, pc) /\ (s.pc = "publish" <=> pc = "publish")
      BY <1>0, <1>1 DEF Publish, PublishRow
    <2> HIDE DEF t
    <2> QED
      BY <1>1, <1>4, <2>1, PoppedIs DEF Keeps
  <1> HIDE DEF t, s, q
  <1>7. /\ t.pc # "dead" /\ t.pc # "row" /\ t.pc # "publishRow" /\ t.pc \notin {"idle", "retry"}
        /\ t.pc = "publish" => s.pc = "publish" /\ Len(q) > 1
        /\ Pending(t) = <<>> /\ M = K
    <2>1. Pending(s) = <<>>
      <3>1. ASSUME s.pc = "publishRow" PROVE Tail(q) = <<>>
        <4>1. Len(q) = 1
          BY <1>4, <3>1
        <4>2. ~(Len(q) > 1)
          BY <4>1
        <4> QED
          BY <1>1, <1>2, <4>2, TailOfOne
      <3> QED
        BY <1>1, <3>1 DEF Pending, q
    <2>2. M = K
      BY <1>4, <2>1
    <2>3. Len(q) > 1 => s.pc = "publish"
      <3>1. s.pc = "publishRow" => Len(q) = 1
        BY <1>4
      <3>2. Len(q) > 1 => Len(q) # 1
        <4>1. \A x \in Nat : x > 1 => x # 1
          OBVIOUS
        <4>2. Len(q) \in Nat
          BY <1>2
        <4> QED
          BY <4>1, <4>2
      <3>3. s.pc \in {"publish", "publishRow"}
        BY <1>1
      <3> QED
        BY <3>1, <3>2, <3>3
    <2>4. /\ t.pc \in {"publish", "ready"}
          /\ t.pc = "publish" => s.pc = "publish" /\ Len(q) > 1
      <3>1. CASE Len(q) > 1
        BY <1>6, <2>3, <3>1
      <3>2. CASE ~(Len(q) > 1)
        BY <1>6, <3>2
      <3> QED
        BY <3>1, <3>2
    <2>5. Pending(t) = <<>>
      BY <1>6, <2>4 DEF Pending
    <2> QED
      BY <2>2, <2>4, <2>5
  <1>8. Handled(t, K) = h + 1
    <2>1. CASE t.pc = "publish"
      <3>1. h = K - Len(q) /\ Handled(t, K) = K - Len(Tail(q))
        BY <1>6, <1>7, <2>1 DEF Handled, q
      <3>2. \A l \in Nat : K - (l - 1) = (K - l) + 1
        OBVIOUS
      <3> QED
        BY <1>2, <1>3, <3>1, <3>2
    <2>2. CASE t.pc # "publish"
      <3>1. Handled(t, K) = K
        BY <1>7, <2>2 DEF Handled
      <3>2. Len(q) = 1
        BY <1>1, <1>2, <1>3, <1>4, <1>6, <2>2
      <3>3. h = K - 1
        BY <1>1, <3>2 DEF Handled, q
      <3> QED
        BY <3>1, <3>3
    <2> QED
      BY <2>1, <2>2
  <1>9. Carries(t, journal', K, M, line)
    <2>1. ASSUME t.pc = "publish", NEW i \in 1..Len(t.work)
          PROVE  /\ t.work[i].at = K - Len(t.work) + i - 1
                 /\ t.work[i].event = line[K - Len(t.work) + i - 1]
      <3>1. i + 1 \in 1..Len(q) /\ t.work[i] = q[i + 1] /\ Len(t.work) = Len(q) - 1
        BY <1>2, <1>3, <1>6
      <3>2. K - Len(t.work) + i - 1 = K - Len(q) + (i + 1) - 1
        <4> DEFINE l == Len(q)
                   m == Len(t.work)
        <4>1. l \in Nat /\ m = l - 1 /\ i \in Int
          BY <1>2, <3>1
        <4> HIDE DEF l, m
        <4>2. K - m + i - 1 = K - l + (i + 1) - 1
          BY <4>1
        <4> QED
          BY <4>2 DEF l, m
      <3>3. s.pc = "publish"
        BY <1>7, <2>1
      <3>4. /\ q[i + 1].at = K - Len(q) + (i + 1) - 1
            /\ q[i + 1].event = line[K - Len(q) + (i + 1) - 1]
        BY <1>4, <3>1, <3>3
      <3> QED
        BY <3>1, <3>2, <3>4
    <2>2. t.pc = "publish" => Len(t.work) <= K
      BY <1>2, <1>3, <1>4, <1>6, <1>7
    <2>3. Len(<<>>) = M - K /\ M - K = 0
      BY <1>7
    <2> QED
      BY <1>1, <1>4, <1>6, <1>7, <2>1, <2>2, <2>3 DEF Carries
  <1> HIDE DEF f, h
  <1>10. client' = [r \in Reader |->
                      IF client[r].pc \in {"subscribed", "live"}
                      THEN [client[r] EXCEPT !.inbox = Append(@, f)] ELSE client[r]]
    BY <1>1 DEF Publish, PublishRow, Published, f, s, q
  <1>11. ASSUME NEW r \in Reader
         PROVE  /\ Follows(client'[r], t, K, line)
                /\ client'[r].pc = client[r].pc /\ client'[r].max = client[r].max
                /\ client'[r].verdict = client[r].verdict
    <2> DEFINE c == client[r]
    <2>1. c \in ClientState /\ Follows(c, s, K, line)
      BY <1>1 DEF Sole, s
    <2>2. CASE c.pc \in {"subscribed", "live"}
      <3> DEFINE d == [c EXCEPT !.inbox = Append(@, f)]
      <3>1. client'[r] = d
        BY <1>10, <2>2
      <3>2. Follows(d, t, K, line)
        <4>1. s.pc # "dead" /\ Handled(s, K) = h
          BY <1>1 DEF h
        <4> HIDE DEF c, s
        <4> QED
          BY <1>5, <1>8, <2>1, <4>1, FollowsNext
      <3>3. d.pc = c.pc /\ d.max = c.max /\ d.verdict = c.verdict
        <4> HIDE DEF c
        <4> QED
          BY <2>1 DEF ClientState
      <3> QED
        BY <3>1, <3>2, <3>3
    <2>3. CASE c.pc \notin {"subscribed", "live"}
      <3>1. client'[r] = c
        BY <1>10, <2>3
      <3> QED
        BY <2>1, <2>3, <3>1 DEF Follows
    <2> QED
      BY <2>2, <2>3
  <1> QED
    BY <1>6, <1>7, <1>9, <1>11 DEF SameCursors, t, Sole, s

\* The event of an aborted stream is written at the end of the journal.
LEMMA InsertCarries ==
    ASSUME Typed, OrderInv, ~Blips, row # "gone", InsertRow(First),
           NEW K \in Nat, NEW M \in Nat, NEW line \in [Nat -> Event],
           Carries(Sole, journal, K, M, line)
    PROVE  /\ client' = client
           /\ Carries(stream'[First], journal', K + 1, M, line)
           /\ \A c \in ClientState :
                Follows(c, Sole, K, line) => Follows(c, stream'[First], K + 1, line)
           /\ stream'[First].pc # "dead"
           /\ stream'[First].stage = Sole.stage /\ stream'[First].errored = Sole.errored
  <1> DEFINE s == stream[First]
             t == stream'[First]
             q == s.work
             at == IF s.pc = "retry" THEN s.at ELSE Head(q).at
             f == [at |-> at, event |-> Head(q).event]
  <1>0. First \in Writer
    BY ConstantsAssumption
  <1>1. /\ s \in StreamState /\ s.pc = "row" /\ q # <<>> /\ s.buffer = <<>>
    BY <1>0, StreamIs DEF StreamTyped, ShapeOf, Busy, InsertRow, Carries, Sole
  <1>2. q \in Seq(Frame) /\ Len(q) \in Nat
    BY <1>0, StreamNumbers
  <1>3. /\ K <= M /\ s.base = 0 /\ s.next = M /\ s.no = M
        /\ DOMAIN journal = 0..(K - 1)
        /\ \A n \in 0..(K - 1) : journal[n] = line[n]
        /\ \A n \in 0..(M - 1) : line[n].no = n + 1
    BY <1>1 DEF Carries, Sole
  <1>4. Len(q) = 1 /\ Pending(s) = q
    BY <1>1 DEF Carries, Sole, Pending
  <1>5. M = K + 1
    <2>1. Len(Pending(s)) = M - K
      BY <1>1 DEF Carries, Sole
    <2>2. M - K = 1
      BY <1>4, <2>1
    <2> QED
      BY <2>2
  <1>6. q[1].at = K /\ q[1].event = line[K]
    <2>1. /\ q[1].at = K + 1 - 1 /\ q[1].event = line[K + 1 - 1]
      <3>1. 1 \in 1..(M - K)
        BY <1>5
      <3>2. \A i \in 1..(M - K) : /\ Pending(s)[i].at = K + i - 1
                                  /\ Pending(s)[i].event = line[K + i - 1]
        BY <1>1 DEF Carries, Sole
      <3> QED
        BY <1>4, <3>1, <3>2
    <2> QED
      BY <2>1
  <1>7. Head(q) = q[1] /\ at = K /\ f.at = K /\ f.event = line[K] /\ line[K] \in Event
    BY <1>1, <1>2, <1>6
  <1>8. at \notin DOMAIN journal
    BY <1>3, <1>7
  <1>9. /\ client' = client /\ journal' = Inserted(<<f>>)
        /\ t.pc = "publishRow" /\ t.at = at /\ t.work = q /\ t.buffer = <<>>
        /\ t.next = M /\ t.no = M /\ t.base = 0 /\ t.stage = s.stage /\ t.errored = s.errored
    BY <1>0, <1>1, <1>3, <1>8, InsertIs DEF Keeps
  <1> HIDE DEF at, t
  <1>10. Grows(K, <<f>>)
    <2>1. Dense(K) /\ JournalTyped
      BY <1>0, <1>3, StreamIs DEF Dense
    <2> QED
      BY <1>7, <1>8, <1>9, <2>1, OneAtTip
  <1>11. Len(<<f>>) = 1 /\ <<f>>[1] = f /\ K + 1 - 1 = K
    OBVIOUS
  <1> HIDE DEF f
  <1>12. DOMAIN journal' = 0..K /\ \A n \in 0..K : journal'[n] = line[n]
    <2>1. /\ DOMAIN journal' = 0..(K + 1 - 1)
          /\ \A n \in 0..(K - 1) : journal'[n] = journal[n]
          /\ journal'[K + 1 - 1] = f.event
      BY <1>10, <1>11 DEF Grows
    <2>2. \A n \in 0..K : n = K \/ n \in 0..(K - 1)
      OBVIOUS
    <2>3. journal'[K] = line[K] /\ DOMAIN journal' = 0..K
      BY <1>7, <1>11, <2>1
    <2>4. \A n \in 0..(K - 1) : journal'[n] = line[n]
      BY <1>3, <2>1
    <2> QED
      BY <2>2, <2>3, <2>4
  <1>13. Pending(t) = <<>>
    <2>1. ~(Len(q) > 1)
      BY <1>4
    <2>2. Tail(q) = <<>>
      BY <1>1, <1>2, <2>1, TailOfOne
    <2> QED
      BY <1>9, <2>2 DEF Pending
  <1>14. Carries(t, journal', K + 1, M, line)
    <2>1. Len(<<>>) = M - (K + 1) /\ M - (K + 1) = 0 /\ K + 1 > 0 /\ K + 1 <= M
      BY <1>5
    <2>2. t.work[1].event = line[K + 1 - 1] /\ t.at = K + 1 - 1 /\ Len(t.work) = 1
      BY <1>4, <1>6, <1>7, <1>9, <1>11
    <2>3. /\ t.next = M /\ t.no = M /\ t.base = 0 /\ t.pc = "publishRow"
          /\ K + 1 - 1 = K /\ \A n \in 0..(M - 1) : line[n].no = n + 1
      BY <1>3, <1>9
    <2> HIDE DEF s, q
    <2>4. \A i \in 1..(M - (K + 1)) : FALSE
      BY <2>1
    <2> DEFINE N == K + 1
    <2>5. /\ N <= M /\ M - N = 0 /\ N > 0 /\ N - 1 = K
          /\ DOMAIN journal' = 0..(N - 1)
          /\ \A n \in 0..(N - 1) : journal'[n] = line[n]
      BY <1>12, <2>1, <2>3
    <2>6. Len(Pending(t)) = M - N
      BY <1>13, <2>1
    <2>7. \A i \in 1..(M - N) : /\ Pending(t)[i].at = N + i - 1
                               /\ Pending(t)[i].event = line[N + i - 1]
      BY <2>4
    <2>8. t.at = N - 1 /\ t.work[1].event = line[N - 1]
      BY <2>2
    <2> HIDE DEF N
    <2>9. Carries(t, journal', N, M, line)
      BY <2>2, <2>3, <2>5, <2>6, <2>7, <2>8 DEF Carries
    <2> QED
      BY <2>9 DEF N
  <1>15. Handled(t, K + 1) = K /\ Handled(s, K) = K
    BY <1>1, <1>9 DEF Handled
  <1>16. ASSUME NEW c \in ClientState, Follows(c, s, K, line) PROVE Follows(c, t, K + 1, line)
    <2>1. K + 1 \in Nat /\ K <= K + 1 /\ s.pc # "dead"
      BY <1>1
    <2> HIDE DEF s
    <2> QED
      BY <1>15, <1>16, <2>1, FollowsOn
  <1> QED
    BY <1>9, <1>14, <1>16 DEF t, Sole

\* The numbers and the stage of the stream stay or the stage is settled.
LEMMA SettleCarries ==
    ASSUME Typed, Finish(First) \/ Fail(First) \/ IntervalPasses(First),
           NEW K \in Nat, NEW M \in Nat, NEW line \in [Nat -> Event],
           Carries(Sole, journal, K, M, line)
    PROVE  /\ client' = client
           /\ Carries(stream'[First], journal', K, M, line)
           /\ \A c \in ClientState :
                Follows(c, Sole, K, line) => Follows(c, stream'[First], K, line)
           /\ stream'[First].errored = Sole.errored /\ stream'[First].pc = "ready"
           /\ stream'[First].stage =
                IF Finish(First) THEN "finished" ELSE IF Fail(First) THEN "failed" ELSE Sole.stage
  <1> DEFINE s == stream[First]
             t == stream'[First]
  <1>0. First \in Writer /\ s \in StreamState /\ stream \in [Writer -> StreamState]
    BY ConstantsAssumption DEF Typed, TypeOK
  <1>1. s.pc = "ready" /\ client' = client /\ journal' = journal
    BY DEF Finish, Fail, IntervalPasses, Ready
  <1>2. \E v \in {"due", "late"} :
          t = IF Finish(First) THEN [s EXCEPT !.stage = "finished"]
              ELSE IF Fail(First) THEN [s EXCEPT !.stage = "failed"]
              ELSE [s EXCEPT !.age = v]
    <2>1. CASE Finish(First)
      BY <1>0, <2>1 DEF Finish
    <2>2. CASE Fail(First) /\ ~Finish(First)
      BY <1>0, <2>2 DEF Fail
    <2>3. CASE ~Fail(First) /\ ~Finish(First)
      BY <1>0, <2>3 DEF IntervalPasses
    <2> QED
      BY <2>1, <2>2, <2>3
  <1> HIDE DEF t
  <1>3. /\ t.pc = s.pc /\ t.next = s.next /\ t.no = s.no /\ t.buffer = s.buffer
        /\ t.work = s.work /\ t.at = s.at /\ t.base = s.base /\ t.errored = s.errored
        /\ t.stage = IF Finish(First) THEN "finished" ELSE IF Fail(First) THEN "failed" ELSE s.stage
    <2> HIDE DEF s
    <2> QED
      BY <1>0, <1>2 DEF StreamState
  <1>4. Pending(t) = Pending(s) /\ Handled(t, K) = Handled(s, K)
    BY <1>3 DEF Pending, Handled
  <1> HIDE DEF s
  <1>5. Carries(t, journal', K, M, line)
    <2>1. Carries(s, journal, K, M, line)
      BY DEF Sole, s
    <2> QED
      BY <1>1, <1>3, <1>4, <2>1 DEF Carries
  <1>6. ASSUME NEW c \in ClientState, Follows(c, s, K, line) PROVE Follows(c, t, K, line)
    BY <1>1, <1>4, <1>6, FollowsOn
  <1> QED
    BY <1>1, <1>3, <1>5, <1>6 DEF t, s, Sole

LEMMA AbortEndsCarries ==
    ASSUME Typed, AbortEnds(First), row # "gone",
           NEW K \in Nat, NEW M \in Nat, NEW line \in [Nat -> Event],
           Carries(Sole, journal, K, M, line)
    PROVE  /\ client' = client
           /\ \E ends \in {"end", "error"} :
                LET onward == Sending(M, line, ends) IN
                /\ onward \in [Nat -> Event]
                /\ Carries(stream'[First], journal', K, M + 1, onward)
                /\ \A c \in ClientState :
                     Follows(c, Sole, K, line) => Follows(c, stream'[First], K, onward)
                /\ ends = "end" => row' = "complete"
           /\ row \in {"complete", "failed"} => row' = row
           /\ stream'[First].errored = Sole.errored
           /\ stream'[First].pc = "row" /\ stream'[First].stage = "closed"
  <1> DEFINE s == stream[First]
             t == stream'[First]
  <1>0. First \in Writer /\ s \in StreamState /\ ShapeOf(s) /\ stream \in [Writer -> StreamState]
    BY ConstantsAssumption, StreamIs DEF StreamTyped, Typed, TypeOK
  <1>1. /\ s.pc = "ready" /\ s.stage = "aborted" /\ s.buffer = <<>> /\ client' = client
        /\ journal' = journal
        /\ row \in {"complete", "failed"} => row' = row
    BY <1>0 DEF AbortEnds, Ready, ShapeOf
  <1>2. /\ K <= M /\ s.base = 0 /\ s.next = M /\ s.no = M /\ Pending(s) = <<>>
        /\ DOMAIN journal = 0..(K - 1)
        /\ \A n \in 0..(K - 1) : journal[n] = line[n]
        /\ \A n \in 0..(M - 1) : line[n].no = n + 1
        /\ Len(Pending(s)) = M - K
    BY <1>1 DEF Carries, Sole, Pending
  <1>3. M = K
    BY <1>2
  <1>4. PICK ends \in {"end", "error"} :
          /\ ends = "end" => row' = "complete"
          /\ t = [s EXCEPT !.stage = "closed", !.pc = "row", !.single = TRUE,
                           !.no = @ + 1, !.next = @ + 1, !.work = <<EventFrame(First, ends)>>]
    <2>1. PICK answered \in BOOLEAN :
            /\ row' = IF row # "open" THEN row ELSE IF answered THEN "complete" ELSE "failed"
            /\ t = [s EXCEPT !.stage = "closed", !.pc = "row", !.single = TRUE,
                      !.no = @ + 1, !.next = @ + 1,
                      !.work = <<EventFrame(First, AbortVerdict(row, answered))>>]
      BY <1>0 DEF AbortEnds, EventFrame
    <2>2. /\ AbortVerdict(row, answered) \in {"end", "error"}
          /\ AbortVerdict(row, answered) = "end" => row' = "complete"
      BY <2>1 DEF AbortVerdict
    <2> QED
      BY <2>1, <2>2
  <1> DEFINE f == EventFrame(First, ends)
             e == [by |-> First, no |-> M + 1, ends |-> ends]
             onward == Sending(M, line, ends)
  <1>5. f = [at |-> M, event |-> e] /\ f.at = M /\ f.event = e
    BY <1>2 DEF EventFrame
  <1>6. e \in Event
    <2>1. s.no <= MaxEmits /\ MaxEmits \in Nat
      BY <1>0, <1>2, ConstantsAssumption, <1>1 DEF ShapeOf
    <2> QED
      BY <1>0, <1>2, <2>1 DEF Event
  <1>61. e.no = M + 1
    OBVIOUS
  <1> HIDE DEF f, e, t
  <1>7. /\ t.pc = "row" /\ t.next = M + 1 /\ t.no = M + 1 /\ t.work = <<f>> /\ t.base = 0
        /\ t.stage = "closed" /\ t.errored = s.errored
    <2>1. t = [s EXCEPT !.stage = "closed", !.pc = "row", !.single = TRUE,
                        !.no = s.no + 1, !.next = s.next + 1, !.work = <<f>>]
      BY <1>4 DEF f
    <2> HIDE DEF s
    <2> QED
      BY <1>0, <1>2, <2>1 DEF StreamState
  <1>8. /\ onward \in [Nat -> Event] /\ onward[M] = e
        /\ \A n \in Nat \ {M} : onward[n] = line[n]
    BY <1>6 DEF Sending, e
  <1> HIDE DEF onward
  <1>9. Pending(t) = <<f>> /\ Len(<<f>>) = 1 /\ <<f>>[1] = f /\ Handled(t, K) = K /\ Handled(s, K) = K
    BY <1>1, <1>7 DEF Pending, Handled
  <1>10. \A n \in 0..(M - 1) : onward[n] = line[n]
    BY <1>8
  <1>11. \A n \in 0..M : onward[n].no = n + 1
    <2>1. \A n \in 0..(M - 1) : onward[n].no = n + 1
      BY <1>2, <1>10
    <2>2. \A n \in 0..M : n = M \/ n \in 0..(M - 1)
      OBVIOUS
    <2> QED
      BY <1>61, <1>8, <2>1, <2>2
  <1>12. Carries(t, journal', K, M + 1, onward)
    <2>1. /\ M + 1 - 1 = M /\ (M + 1) - K = 1 /\ K + 1 - 1 = M /\ K <= M + 1
          /\ 1..((M + 1) - K) = {1}
      BY <1>3
    <2>2. <<f>>[1].at = K + 1 - 1 /\ <<f>>[1].event = onward[K + 1 - 1]
      BY <1>5, <1>8, <1>9, <2>1
    <2>3. \A n \in 0..(K - 1) : journal'[n] = onward[n]
      BY <1>1, <1>2, <1>3, <1>10
    <2> QED
      BY <1>1, <1>2, <1>7, <1>9, <1>11, <2>1, <2>2, <2>3 DEF Carries
  <1>13. ASSUME NEW c \in ClientState, Follows(c, s, K, line) PROVE Follows(c, t, K, onward)
    <2>1. K <= K /\ s.pc # "dead" /\ \A n \in 0..(K - 1) : onward[n] = line[n]
      BY <1>1, <1>3, <1>10
    <2> HIDE DEF s
    <2> QED
      BY <1>9, <1>13, <2>1, FollowsOn
  <1> QED
    BY <1>1, <1>4, <1>7, <1>8, <1>12, <1>13 DEF t, onward, Sole

LEMMA CrashCarries ==
    ASSUME Typed, Crash(First),
           NEW K \in Nat, NEW M \in Nat, NEW line \in [Nat -> Event],
           Carries(Sole, journal, K, M, line)
    PROVE  /\ client' = client
           /\ Carries(stream'[First], journal', K, K, line)
           /\ \A c \in ClientState :
                Follows(c, Sole, K, line) => Follows(c, stream'[First], K, line)
           /\ stream'[First].errored = Sole.errored /\ stream'[First].pc = "dead"
           /\ stream'[First].stage = "aborted" /\ stream'[First].no = SentSoFar(First)
  <1> DEFINE s == stream[First]
             t == stream'[First]
             n0 == SentSoFar(First)
  <1>0. First \in Writer /\ s \in StreamState /\ stream \in [Writer -> StreamState]
    BY ConstantsAssumption DEF Typed, TypeOK
  <1>1. client' = client /\ journal' = journal
    BY DEF Crash
  <1>2. t = [s EXCEPT !.pc = "dead", !.no = n0, !.stage = "aborted",
                      !.buffer = <<>>, !.work = <<>>]
    BY <1>0 DEF Crash
  <1> HIDE DEF t, n0
  <1>3. /\ t.pc = "dead" /\ t.no = n0 /\ t.stage = "aborted"
        /\ t.errored = s.errored /\ t.base = s.base
    <2> HIDE DEF s
    <2> QED
      BY <1>0, <1>2 DEF StreamState
  <1>4. /\ s.base = 0 /\ DOMAIN journal = 0..(K - 1) /\ K <= M
        /\ \A n \in 0..(K - 1) : journal[n] = line[n]
        /\ \A n \in 0..(M - 1) : line[n].no = n + 1
    BY DEF Carries, Sole
  <1>5. Carries(t, journal', K, K, line)
    <2>1. K <= K /\ \A n \in 0..(K - 1) : n \in 0..(M - 1)
      BY <1>4
    <2> QED
      BY <1>1, <1>3, <1>4, <2>1 DEF Carries
  <1>6. ASSUME NEW c \in ClientState, Follows(c, s, K, line) PROVE Follows(c, t, K, line)
    <2> HIDE DEF s
    <2> QED
      BY <1>3, <1>6, FollowsOn
  <1> QED
    BY <1>1, <1>3, <1>5, <1>6 DEF t, n0, Sole

-----------------------------------------------------------------------------
\* The clients

LEMMA ReconnectingIs ==
    ASSUME NEW w \in Writer, NEW n
    PROVE  LET c == Reconnecting(w, n) IN
           /\ c.pc = "subscribed" /\ c.inbox = <<>> /\ c.verdict = "no"
           /\ c.max = stream[w].base + n - 1
           /\ c.seen = [i \in 1..n |-> [by |-> w, no |-> i, ends |-> "no"]]
  <1> DEFINE seen == [i \in 1..n |-> [by |-> w, no |-> i, ends |-> "no"]]
             max == stream[w].base + n - 1
  <1>1. Reconnecting(w, n) = [IdleClient EXCEPT !.pc = "subscribed", !.of = w,
                                                !.max = max, !.seen = seen]
    BY DEF Reconnecting
  <1> HIDE DEF seen, max
  <1>2. LET c == Reconnecting(w, n) IN
        /\ c.pc = "subscribed" /\ c.inbox = <<>> /\ c.verdict = "no"
        /\ c.max = max /\ c.seen = seen
    BY <1>1 DEF IdleClient
  <1> QED
    BY <1>2 DEF seen, max

LEMMA ConnectFollows ==
    ASSUME Typed, NEW n \in 1..SentSoFar(First),
           NEW K \in Nat, NEW M \in Nat, NEW line \in [Nat -> Event],
           Carries(Sole, journal, K, M, line)
    PROVE  Follows(Reconnecting(First, n), Sole, K, line)
  <1> DEFINE s == stream[First]
             c == Reconnecting(First, n)
             seen == [i \in 1..n |-> [by |-> First, no |-> i, ends |-> "no"]]
  <1>0. First \in Writer /\ s.base = 0
    BY ConstantsAssumption DEF Carries, Sole
  <1>1. s.no \in Nat /\ s.work \in Seq(Frame) /\ Len(s.work) \in Nat
    BY <1>0, StreamNumbers
  <1>2. n \in Nat /\ n >= 1
    BY <1>1 DEF SentSoFar
  <1>3. c.pc = "subscribed" /\ c.inbox = <<>> /\ c.max = n - 1 /\ c.seen = seen
    <2>1. s.base + n - 1 = n - 1
      BY <1>0, <1>2
    <2> QED
      BY <1>0, <2>1, ReconnectingIs
  <1>4. /\ DOMAIN seen = 1..n /\ Len(seen) = n
        /\ \A i \in 1..n : seen[i].no = i
    BY <1>2
  <1> DEFINE p == IF s.pc = "dead" THEN 0 ELSE Handled(s, K)
  <1>5. p \in Nat /\ p <= K /\ (s.pc # "dead" => p = Handled(s, K))
    <2>1. s.pc = "publish" => Len(s.work) <= K
      BY DEF Carries, Sole
    <2>2. s.pc = "publishRow" => K > 0
      BY DEF Carries, Sole
    <2> QED
      BY <1>1, <2>1, <2>2 DEF Handled
  <1> HIDE DEF c, seen, p
  <1>6. p + Len(c.inbox) = p /\ Stretch(c.inbox, p, line)
    <2>1. Len(c.inbox) = 0
      BY <1>3
    <2> QED
      BY <1>5, <2>1 DEF Stretch
  <1>7. Len(c.seen) = c.max + 1
    BY <1>2, <1>3, <1>4
  <1>8. Follows(c, s, K, line)
    BY <1>3, <1>4, <1>5, <1>6, <1>7 DEF Follows
  <1> QED
    BY <1>8 DEF c, Sole

LEMMA ClosedIs ==
    ASSUME NEW c \in ClientState, NEW by, NEW verdict
    PROVE  LET d == Closed(c, by, verdict) IN
           d.pc = "closed" /\ d.verdict = verdict /\ d.seen = c.seen
  BY DEF Closed, ClientState

\* The snapshot of a journal without gaps: what is past the cursor is shown;
\* its first terminal event, if there is one, closes the stream.
LEMMA ReplayedIs ==
    ASSUME Typed, NEW c \in ClientState, NEW K \in Nat, Dense(K)
    PROVE  LET d == Replayed(c)
               L == IF c.max < K THEN K - 1 - c.max ELSE 0
           IN /\ Len(d.seen) = Len(c.seen) + L /\ d.seen \in Seq(Event)
              /\ \A i \in 1..Len(c.seen) : d.seen[i] = c.seen[i]
              /\ \A i \in 1..L : d.seen[Len(c.seen) + i] = journal[c.max + i]
              /\ \/ /\ d.pc = "live" /\ d.max = c.max + L /\ d.inbox = c.inbox
                    /\ d.verdict = c.verdict
                    /\ \A i \in 1..L : ~IsTerminal(journal[c.max + i])
                 \/ /\ d.pc = "closed"
                    /\ \E i \in 1..L :
                         /\ d.verdict = journal[c.max + i].ends
                         /\ \A k \in 1..L : IsTerminal(journal[c.max + k]) => i <= k
  <1> DEFINE L == IF c.max < K THEN K - 1 - c.max ELSE 0
             backlog == Backlog(c.max)
             events == [i \in DOMAIN backlog |-> journal[backlog[i]]]
             terminal == {i \in DOMAIN events : IsTerminal(events[i])}
             top == IF backlog = <<>> THEN c.max ELSE backlog[Len(backlog)]
             seen == c.seen \o events
             shown == [c EXCEPT !.pc = "live", !.seen = seen, !.max = top]
             verdict == events[Min(terminal)].ends
  <1>1. c.max \in Nat /\ c.seen \in Seq(Event) /\ L \in Nat
    BY DEF ClientState
  <1>2. Replayed(c) = IF terminal = {} THEN shown ELSE Closed(shown, "journal", verdict)
    BY DEF Replayed
  <1>3. /\ backlog \in Seq(Nat) /\ Len(backlog) = L /\ DOMAIN backlog = 1..L
        /\ \A i \in 1..L : backlog[i] = c.max + i
    <2>1. /\ Len(Backlog(c.max)) = L /\ Backlog(c.max) \in Seq(Nat)
          /\ \A i \in 1..Len(Backlog(c.max)) : Backlog(c.max)[i] = c.max + i
      BY <1>1, BacklogOfDense
    <2> QED
      BY <2>1
  <1> HIDE DEF backlog
  <1>4. /\ DOMAIN events = 1..L /\ \A i \in 1..L : events[i] = journal[c.max + i]
    BY <1>3
  <1>5. events \in Seq(Event) /\ Len(events) = L
    <2>1. \A i \in 1..L : c.max + i \in DOMAIN journal
      BY <1>1 DEF Dense
    <2>2. \A i \in 1..L : events[i] \in Event
      BY <1>4, <2>1 DEF Typed, TypeOK
    <2>3. \A i \in 1..L : journal[backlog[i]] \in Event
      BY <1>3, <1>4, <2>2
    <2>4. events \in [1..L -> Event]
      BY <1>3, <2>3
    <2> HIDE DEF events
    <2>5. events \in Seq(Event)
      BY <1>1, <2>4, SeqDef
    <2> QED
      BY <1>1, <1>4, <2>5
  <1> HIDE DEF events, L
  <1>6. /\ seen \in Seq(Event) /\ Len(seen) = Len(c.seen) + L
        /\ \A i \in 1..Len(c.seen) : seen[i] = c.seen[i]
        /\ \A i \in 1..L : seen[Len(c.seen) + i] = journal[c.max + i]
    <2>1. /\ seen \in Seq(Event) /\ Len(seen) = Len(c.seen) + Len(events)
          /\ \A i \in 1..(Len(c.seen) + Len(events)) :
               seen[i] = IF i <= Len(c.seen) THEN c.seen[i] ELSE events[i - Len(c.seen)]
      BY <1>1, <1>5, ConcatProperties
    <2>2. Len(c.seen) \in Nat
      BY <1>1
    <2>3. ASSUME NEW i \in 1..Len(c.seen) PROVE seen[i] = c.seen[i]
      BY <1>1, <1>5, <2>1, <2>2
    <2>4. ASSUME NEW i \in 1..L PROVE seen[Len(c.seen) + i] = events[i]
      <3>1. /\ Len(c.seen) + i \in 1..(Len(c.seen) + Len(events))
            /\ ~(Len(c.seen) + i <= Len(c.seen)) /\ Len(c.seen) + i - Len(c.seen) = i
        BY <1>1, <1>5, <2>2
      <3> QED
        BY <2>1, <3>1
    <2> QED
      BY <1>4, <1>5, <2>1, <2>3, <2>4
  <1> HIDE DEF seen
  <1>7. top = c.max + L
    <2>1. CASE backlog = <<>>
      <3>1. L = 0
        BY <1>3, <2>1
      <3> QED
        BY <1>1, <2>1, <3>1
    <2>2. CASE backlog # <<>>
      <3>1. L # 0
        BY <1>3, <2>2
      <3>2. L \in 1..L
        BY <1>1, <3>1
      <3> QED
        BY <1>3, <2>2, <3>2
    <2> QED
      BY <2>1, <2>2
  <1> HIDE DEF top
  <1>8. /\ shown.pc = "live" /\ shown.seen = seen /\ shown.max = top
        /\ shown.inbox = c.inbox /\ shown.verdict = c.verdict
        /\ Closed(shown, "journal", verdict).pc = "closed"
        /\ Closed(shown, "journal", verdict).seen = seen
        /\ Closed(shown, "journal", verdict).verdict = verdict
    <2> HIDE DEF verdict
    <2> QED
      BY DEF ClientState, Closed
  <1>9. CASE terminal = {}
    <2>1. Replayed(c) = shown
      BY <1>2, <1>9
    <2>2. \A i \in 1..L : ~IsTerminal(journal[c.max + i])
      BY <1>4, <1>9
    <2> HIDE DEF shown
    <2> QED
      BY <1>6, <1>7, <1>8, <2>1, <2>2 DEF L
  <1>10. CASE terminal # {}
    <2> DEFINE d == Closed(shown, "journal", verdict)
               i == Min(terminal)
    <2>1. Replayed(c) = d
      BY <1>2, <1>10
    <2>2. i \in terminal /\ \A k \in terminal : i <= k
      <3>1. terminal \in SUBSET Nat
        BY <1>1, <1>4
      <3> HIDE DEF terminal
      <3> QED
        BY <1>10, <3>1, MinIs
    <2> HIDE DEF i
    <2>3. i \in 1..L /\ verdict = journal[c.max + i].ends
      BY <1>4, <2>2 DEF i
    <2>4. \A k \in 1..L : IsTerminal(journal[c.max + k]) => i <= k
      BY <1>4, <2>2
    <2>5. d.pc = "closed" /\ d.seen = seen /\ d.verdict = verdict
      BY <1>8
    <2> HIDE DEF d, verdict
    <2> QED
      BY <1>6, <2>1, <2>3, <2>4, <2>5 DEF L
  <1> QED
    BY <1>9, <1>10

LEMMA SnapshotFollows ==
    ASSUME Typed, NEW c \in ClientState, c.pc = "subscribed", NEW s,
           NEW K \in Nat, NEW M \in Nat, NEW line \in [Nat -> Event],
           Carries(s, journal, K, M, line), Follows(c, s, K, line)
    PROVE  Follows(Replayed(c), s, K, line)
  <1> DEFINE d == Replayed(c)
             L == IF c.max < K THEN K - 1 - c.max ELSE 0
  <1>1. /\ Dense(K) /\ K <= M
        /\ \A n \in 0..(K - 1) : journal[n] = line[n]
        /\ \A n \in 0..(M - 1) : line[n].no = n + 1
    BY DEF Carries, Dense
  <1>2. c.max \in Nat /\ c.seen \in Seq(Event) /\ c.inbox \in Seq(Frame) /\ L \in Nat
    BY DEF ClientState
  <1>3. /\ Len(d.seen) = Len(c.seen) + L /\ d.seen \in Seq(Event)
        /\ \A i \in 1..Len(c.seen) : d.seen[i] = c.seen[i]
        /\ \A i \in 1..L : d.seen[Len(c.seen) + i] = journal[c.max + i]
        /\ \/ d.pc = "live" /\ d.max = c.max + L /\ d.inbox = c.inbox
           \/ d.pc = "closed"
    BY <1>1, ReplayedIs
  <1>4. /\ Len(c.seen) = c.max + 1 /\ \A i \in DOMAIN c.seen : c.seen[i].no = i
    BY DEF Follows
  <1>5. PICK p \in Nat : /\ p + Len(c.inbox) <= K
                         /\ Stretch(c.inbox, p, line)
                         /\ s.pc # "dead" => p + Len(c.inbox) = Handled(s, K)
    BY DEF Follows
  <1>6. (L # 0 => c.max + 1 + L = K) /\ (L = 0 => K <= c.max + 1)
    <2> DEFINE m == c.max
    <2>1. m \in Nat
      BY <1>2
    <2>2. L = IF m < K THEN K - 1 - m ELSE 0
      OBVIOUS
    <2> HIDE DEF m, L
    <2>3. (L # 0 => m + 1 + L = K) /\ (L = 0 => K <= m + 1)
      BY <2>1, <2>2
    <2> QED
      BY <2>3 DEF m
  <1> HIDE DEF d, L
  <1>7. ASSUME NEW i \in DOMAIN d.seen PROVE d.seen[i].no = i
    <2>1. i \in 1..(c.max + 1 + L) /\ DOMAIN c.seen = 1..(c.max + 1)
      <3>1. DOMAIN d.seen = 1..Len(d.seen) /\ DOMAIN c.seen = 1..Len(c.seen)
        BY <1>2, <1>3
      <3>2. Len(d.seen) = c.max + 1 + L /\ Len(c.seen) = c.max + 1
        BY <1>3, <1>4
      <3> QED
        BY <3>1, <3>2
    <2>2. CASE i \in 1..(c.max + 1)
      BY <1>3, <1>4, <2>1, <2>2
    <2>3. CASE i \notin 1..(c.max + 1)
      <3> DEFINE k == i - (c.max + 1)
                 n == c.max + k
      <3>1. k \in 1..L /\ (c.max + 1) + k = i /\ L # 0 /\ n + 1 = i /\ n \in 0..(K - 1)
        <4>1. i \in Int /\ i > c.max + 1 /\ i <= c.max + 1 + L
          BY <1>2, <2>1, <2>3
        <4>2. L # 0 /\ c.max + 1 + L = K
          <5>1. L # 0
            <6>1. \A m, x \in Int : m > x /\ m <= x + 0 => FALSE
              OBVIOUS
            <6>2. c.max + 1 \in Int
              BY <1>2
            <6> QED
              BY <4>1, <6>1, <6>2
          <5> QED
            BY <1>6, <5>1
        <4>3. \A m, l \in Nat : \A j \in Int :
                l # 0 /\ m + 1 + l = K /\ j > m + 1 /\ j <= m + 1 + l
                  => /\ j - (m + 1) \in 1..l /\ (m + 1) + (j - (m + 1)) = j
                     /\ m + (j - (m + 1)) + 1 = j /\ m + (j - (m + 1)) \in 0..(K - 1)
          OBVIOUS
        <4> QED
          BY <1>2, <4>1, <4>2, <4>3, ZenonT(40)
      <3>2. n \in 0..(M - 1)
        BY <1>1, <3>1
      <3> HIDE DEF k
      <3>3. d.seen[i] = journal[n]
        BY <1>3, <1>4, <3>1
      <3> HIDE DEF n
      <3> QED
        BY <1>1, <3>1, <3>2, <3>3
    <2> QED
      BY <2>2, <2>3
  <1>8. ASSUME d.pc = "live"
        PROVE  /\ Len(d.seen) = d.max + 1
               /\ p + Len(d.inbox) <= K /\ Stretch(d.inbox, p, line)
               /\ p <= d.max + 1
               /\ s.pc # "dead" => p + Len(d.inbox) = Handled(s, K)
    <2>1. d.max = c.max + L /\ d.inbox = c.inbox
      BY <1>3, <1>8
    <2>2. Len(d.seen) = d.max + 1
      BY <1>2, <1>3, <1>4, <2>1
    <2>3. p <= K
      <3>1. Len(c.inbox) \in Nat
        BY <1>2
      <3> QED
        BY <1>5, <3>1
    <2>4. p <= d.max + 1
      <3>1. CASE L = 0
        BY <1>2, <1>6, <2>1, <2>3, <3>1
      <3>2. CASE L # 0
        BY <1>2, <1>6, <2>1, <2>3, <3>2
      <3> QED
        BY <3>1, <3>2
    <2> QED
      BY <1>5, <2>1, <2>2, <2>4
  <1>9. Follows(d, s, K, line)
    BY <1>3, <1>7, <1>8 DEF Follows
  <1> QED
    BY <1>9 DEF d

\* The frame a live client takes next is at most one past its cursor.
LEMMA HeadFollows ==
    ASSUME NEW c \in ClientState, c.pc = "live", c.inbox # <<>>, NEW s,
           NEW K \in Nat, NEW line, Follows(c, s, K, line)
    PROVE  LET f == Head(c.inbox) IN
           /\ f.at \in 0..(K - 1) /\ f.event = line[f.at] /\ f.at <= c.max + 1
           /\ Len(c.seen) = c.max + 1
           /\ \E p \in Nat :
                /\ p + Len(Tail(c.inbox)) <= K /\ p = f.at + 1
                /\ Stretch(Tail(c.inbox), p, line)
                /\ s.pc # "dead" => p + Len(Tail(c.inbox)) = Handled(s, K)
  <1> DEFINE q == c.inbox
             rest == Tail(q)
             f == Head(q)
  <1>1. q \in Seq(Frame) /\ q # <<>>
    BY DEF ClientState
  <1>2. PICK p \in Nat : /\ p + Len(q) <= K
                         /\ Stretch(q, p, line)
                         /\ p <= c.max + 1
                         /\ s.pc # "dead" => p + Len(q) = Handled(s, K)
    BY DEF Follows
  <1>3. Len(c.seen) = c.max + 1
    BY DEF Follows
  <1> HIDE DEF q
  <1>4. /\ Len(q) \in Nat /\ Len(q) >= 1 /\ f = q[1] /\ Len(rest) = Len(q) - 1
        /\ \A i \in 1..(Len(q) - 1) : rest[i] = q[i + 1]
    BY <1>1
  <1> HIDE DEF rest
  <1>5. f.at = p /\ f.event = line[p]
    <2>1. 1 \in 1..Len(q) /\ p + 1 - 1 = p
      BY <1>4
    <2>2. q[1].at = p + 1 - 1 /\ q[1].event = line[p + 1 - 1]
      BY <1>2, <2>1 DEF Stretch
    <2> QED
      BY <1>4, <2>1, <2>2
  <1>6. (p + 1) + Len(rest) = p + Len(q) /\ p \in 0..(K - 1)
    <2>1. \A l \in Nat : (p + 1) + (l - 1) = p + l
      OBVIOUS
    <2>2. (p + 1) + Len(rest) = p + Len(q)
      BY <1>4, <2>1
    <2>3. p < K
      BY <1>2, <1>4
    <2> QED
      BY <2>2, <2>3
  <1>7. Stretch(rest, p + 1, line)
    <2> SUFFICES ASSUME NEW i \in 1..Len(rest)
                 PROVE  rest[i].at = (p + 1) + i - 1 /\ rest[i].event = line[(p + 1) + i - 1]
      BY DEF Stretch
    <2>1. i + 1 \in 1..Len(q) /\ rest[i] = q[i + 1] /\ p + (i + 1) - 1 = (p + 1) + i - 1
      BY <1>4
    <2>2. q[i + 1].at = p + (i + 1) - 1 /\ q[i + 1].event = line[p + (i + 1) - 1]
      BY <1>2, <2>1 DEF Stretch
    <2> QED
      BY <2>1, <2>2
  <1>8. \E r \in Nat : /\ r + Len(rest) <= K /\ r = f.at + 1
                       /\ Stretch(rest, r, line)
                       /\ s.pc # "dead" => r + Len(rest) = Handled(s, K)
    <2>1. p + 1 \in Nat
      OBVIOUS
    <2> QED
      BY <1>2, <1>5, <1>6, <1>7, <2>1
  <1> QED
    BY <1>2, <1>3, <1>5, <1>6, <1>8 DEF q, rest

\* What taking the head of its inbox makes of a live client.
Delivered(c, s, K, line) ==
    LET f == Head(c.inbox)
        skipped == [c EXCEPT !.inbox = Tail(@)]
    IN /\ ~Fresh(c, f) => /\ skipped.pc = "live" /\ skipped.max = c.max
                          /\ skipped.verdict = c.verdict
                          /\ Follows(skipped, s, K, line)
       /\ Fresh(c, f) =>
            /\ f.at = c.max + 1 /\ f.at \in 0..(K - 1) /\ f.event = line[f.at]
            /\ Shown(c).pc = "live" /\ Shown(c).max = f.at /\ Shown(c).verdict = c.verdict
            /\ Follows(Shown(c), s, K, line)
            /\ \A by, verdict : /\ Follows(Closed(Shown(c), by, verdict), s, K, line)
                                /\ Closed(Shown(c), by, verdict).pc = "closed"
                                /\ Closed(Shown(c), by, verdict).verdict = verdict

LEMMA DeliverFollows ==
    ASSUME NEW c \in ClientState, c.pc = "live", c.inbox # <<>>, NEW s,
           NEW K \in Nat, NEW M \in Nat, K <= M, NEW line \in [Nat -> Event],
           \A n \in 0..(M - 1) : line[n].no = n + 1, Follows(c, s, K, line)
    PROVE  Delivered(c, s, K, line)
  <1> DEFINE f == Head(c.inbox)
             rest == Tail(c.inbox)
  <1>1. /\ f.at \in 0..(K - 1) /\ f.event = line[f.at] /\ f.at <= c.max + 1
        /\ Len(c.seen) = c.max + 1
    BY HeadFollows
  <1>2. PICK p \in Nat : /\ p + Len(rest) <= K /\ p = f.at + 1 /\ Stretch(rest, p, line)
                         /\ s.pc # "dead" => p + Len(rest) = Handled(s, K)
    BY HeadFollows, ZenonT(40)
  <1>3. /\ c.max \in Nat /\ c.seen \in Seq(Event) /\ c.inbox \in Seq(Frame)
        /\ \A i \in DOMAIN c.seen : c.seen[i].no = i
    BY DEF ClientState, Follows
  <1>4. line[f.at].no = f.at + 1 /\ line[f.at] \in Event
    BY <1>1
  <1> DEFINE seen == Append(c.seen, f.event)
  <1> HIDE DEF f, rest
  <1>5. CASE ~Fresh(c, f)
    <2> DEFINE d == [c EXCEPT !.inbox = rest]
    <2>1. /\ d.pc = "live" /\ d.seen = c.seen /\ d.max = c.max /\ d.inbox = rest
          /\ d.verdict = c.verdict
      BY DEF ClientState
    <2> HIDE DEF d
    <2>2. p <= d.max + 1
      BY <1>1, <1>2, <1>3, <1>5, <2>1, SMTT(30) DEF Fresh
    <2>3. Follows(d, s, K, line)
      BY <1>1, <1>2, <1>3, <2>1, <2>2 DEF Follows
    <2>4. [c EXCEPT !.inbox = Tail(@)] = d
      BY DEF d, rest
    <2> QED
      BY <1>5, <2>1, <2>3, <2>4 DEF f, Delivered
  <1>6. CASE Fresh(c, f)
    <2>1. f.at = c.max + 1
      BY <1>1, <1>3, <1>6 DEF Fresh
    <2>2. /\ Len(seen) = c.max + 2 /\ DOMAIN seen = 1..(c.max + 2)
          /\ seen[c.max + 2] = line[f.at] /\ \A i \in 1..(c.max + 1) : seen[i] = c.seen[i]
      <3>1. f.event \in Event
        BY <1>1, <1>4
      <3>2. c.max + 2 = Len(c.seen) + 1
        BY <1>1, <1>3
      <3> QED
        BY <1>1, <1>3, <3>1, <3>2, AppendProperties
    <2> HIDE DEF seen
    <2>3. \A i \in DOMAIN seen : seen[i].no = i
      <3>1. \A i \in 1..(c.max + 2) : i = c.max + 2 \/ i \in 1..(c.max + 1)
        BY <1>3
      <3>2. \A i \in 1..(c.max + 1) : c.seen[i].no = i
        BY <1>1, <1>3
      <3>3. line[f.at].no = c.max + 2
        BY <1>3, <1>4, <2>1
      <3> QED
        BY <2>2, <3>1, <3>2, <3>3
    <2> DEFINE d == [c EXCEPT !.inbox = rest, !.max = f.at, !.seen = seen]
    <2>4. /\ d.pc = "live" /\ d.seen = seen /\ d.max = f.at /\ d.inbox = rest
          /\ d.verdict = c.verdict
      BY DEF ClientState
    <2>5. Shown(c) = d
      BY DEF Shown, rest, f, seen
    <2>51. \A by, verdict : /\ Closed(d, by, verdict).pc = "closed"
                            /\ Closed(d, by, verdict).verdict = verdict
                            /\ Closed(d, by, verdict).seen = seen
      BY DEF ClientState, Closed
    <2> HIDE DEF d
    <2>6. Len(d.seen) = d.max + 1 /\ p <= d.max + 1
      BY <1>2, <1>3, <2>1, <2>2, <2>4, SMTT(30)
    <2>7. Follows(d, s, K, line)
      BY <1>2, <2>3, <2>4, <2>6 DEF Follows
    <2>8. \A by, verdict : Follows(Closed(d, by, verdict), s, K, line)
      BY <2>3, <2>51 DEF Follows
    <2> QED
      BY <1>1, <1>6, <2>1, <2>4, <2>5, <2>51, <2>7, <2>8 DEF f, Delivered
  <1> QED
    BY <1>5, <1>6

-----------------------------------------------------------------------------
\* The terminal events

\* What `end` promises: the answer is in the row, or the stream paused.
Saved(status, resumable) == status = "complete" \/ resumable

\* How many events the POST stream has sent, its terminal one apart.
SentBy(s) ==
    s.no - (IF s.pc \notin {"ready", "dead"} \/ s.stage = "closed" THEN 1 ELSE 0)

FailedBefore(n, line) == \E m \in 0..(n - 1) : line[m].ends = "error"

\* What the stage of a stream says of the row, and the events it has sent of
\* the stage: `end` stands for a saved answer or comes after an error.
Honest(s, status, resumable, M, line) ==
    /\ s.pc # "dead" =>
         /\ s.stage = "streaming" => status = "open"
         /\ s.stage = "pausing" => resumable
         /\ s.stage = "finished" => status = "complete" \/ s.errored
         /\ s.errored => FailedBefore(M, line)
    /\ \A n \in 0..(M - 1) :
         line[n].ends = "end" => Saved(status, resumable) \/ FailedBefore(n, line)
    /\ ~s.errored => \A n \in 0..(M - 1) : IsTerminal(line[n]) => n >= SentBy(s)
    /\ s.pc # "dead" /\ ~s.errored /\ s.stage # "closed" =>
         \A n \in 0..(M - 1) : ~IsTerminal(line[n])

\* A client that still listens was not shown a terminal event.
Told(c, s, status, resumable, M, line) ==
    /\ c.verdict = "end" => Saved(status, resumable)
    /\ c.pc \in {"subscribed", "live"} =>
         /\ \A n \in 0..(M - 1) : IsTerminal(line[n]) => n > c.max
         /\ s.pc # "dead" => c.max < M

\* A write sends the next event honestly, and after every client's cursor.
LEMMA WriteHonest ==
    ASSUME NEW s, s = Sole, s.pc = "ready", s.stage \notin {"aborted", "closed"},
           NEW t, t.pc # "dead", NEW K \in Nat, NEW M \in Nat, NEW N \in Nat,
           NEW line \in [Nat -> Event], NEW onward \in [Nat -> Event],
           Onward(t, M, N, line, onward), t.no = N,
           row' = row, paused' \in {paused, TRUE},
           Honest(s, row, paused, M, line)
    PROVE  /\ Honest(t, row', paused', N, onward)
           /\ \A c \in ClientState : Told(c, s, row, paused, M, line)
                                       => Told(c, t, row', paused', N, onward)
  <1>1. Saved(row, paused) => Saved(row', paused')
    BY DEF Saved
  <1>2. ~s.errored => \A n \in 0..(M - 1) : ~IsTerminal(line[n])
    BY DEF Honest
  <1>3. CASE N = M /\ onward = line /\ t.stage = "aborted" /\ t.errored = s.errored
    BY <1>1, <1>2, <1>3 DEF Honest, Told
  <1>4. ASSUME NEW ends \in {"no", "end", "error"}, N = M + 1, onward = Sending(M, line, ends),
               Sends(First, t, ends)
        PROVE  /\ Honest(t, row', paused', N, onward)
               /\ \A c \in ClientState : Told(c, s, row, paused, M, line)
                                           => Told(c, t, row', paused', N, onward)
    <2>1. /\ onward[M].ends = ends /\ \A n \in 0..(M - 1) : onward[n] = line[n]
          /\ \A n \in 0..(N - 1) : n = M \/ n \in 0..(M - 1)
          /\ M \in 0..(N - 1) /\ \A n \in 0..(M - 1) : n \in 0..(N - 1)
      <3>1. \A n \in 0..(M - 1) : n \in Nat /\ n # M
        OBVIOUS
      <3>2. onward[M].ends = ends /\ \A n \in 0..(M - 1) : onward[n] = line[n]
        BY <1>4, <3>1 DEF Sending
      <3>3. N - 1 = M
        BY <1>4
      <3>4. \A n \in 0..M : n = M \/ n \in 0..(M - 1)
        OBVIOUS
      <3>5. M \in 0..M /\ \A n \in 0..(M - 1) : n \in 0..M
        OBVIOUS
      <3> QED
        BY <3>2, <3>3, <3>4, <3>5
    <2>2. \A n \in 0..M : FailedBefore(n, line) => FailedBefore(n, onward)
      <3> SUFFICES ASSUME NEW n \in 0..M, NEW m \in 0..(n - 1), line[m].ends = "error"
                   PROVE  FailedBefore(n, onward)
        BY DEF FailedBefore
      <3>1. m \in 0..(M - 1)
        OBVIOUS
      <3> QED
        BY <2>1, <3>1 DEF FailedBefore
    <2>3. M \in 0..M /\ \A n \in 0..(M - 1) : n \in 0..M
      OBVIOUS
    <2>4. ends = "error" \/ FailedBefore(M, line) => FailedBefore(N, onward)
      <3>1. CASE ends = "error"
        BY <2>1, <3>1 DEF FailedBefore
      <3>2. CASE FailedBefore(M, line)
        BY <2>1, <3>2 DEF FailedBefore
      <3> QED
        BY <3>1, <3>2
    <2>5. /\ s.stage = "streaming" => row = "open"
          /\ s.stage = "pausing" => paused
          /\ s.stage = "finished" => row = "complete" \/ s.errored
          /\ s.errored => FailedBefore(M, line)
          /\ \A n \in 0..(M - 1) :
               line[n].ends = "end" => Saved(row, paused) \/ FailedBefore(n, line)
      BY DEF Honest
    <2>6. \/ /\ s.stage = "streaming" /\ ends = "no" /\ t.errored = s.errored
             /\ t.stage = "streaming" \/ (t.stage = "pausing" /\ paused')
          \/ s.stage = "streaming" /\ ends = "error" /\ t.errored /\ t.stage = "streaming"
          \/ /\ s.stage \in {"pausing", "finished", "failed"}
             /\ t.stage = "closed"
             /\ t.errored = s.errored
             /\ ends = IF s.stage = "failed" THEN "error" ELSE "end"
      BY <1>4 DEF Sends, Sole
    <2>7. ends = "end" => Saved(row', paused') \/ FailedBefore(M, line)
      BY <2>5, <2>6 DEF Saved
    <2>8. \A n \in 0..(N - 1) :
            onward[n].ends = "end" => Saved(row', paused') \/ FailedBefore(n, onward)
      <3> SUFFICES ASSUME NEW n \in 0..(N - 1), onward[n].ends = "end"
                   PROVE  Saved(row', paused') \/ FailedBefore(n, onward)
        OBVIOUS
      <3>1. CASE n = M
        BY <2>1, <2>2, <2>3, <2>7, <3>1
      <3>2. CASE n \in 0..(M - 1)
        BY <1>1, <2>1, <2>2, <2>3, <2>5, <3>2
      <3> QED
        BY <2>1, <3>1, <3>2
    <2>9. /\ t.stage = "streaming" => row' = "open"
          /\ t.stage = "pausing" => paused'
          /\ t.stage # "finished"
          /\ t.errored => FailedBefore(N, onward)
      BY <2>4, <2>5, <2>6
    <2>10. ~t.errored /\ t.stage # "closed" => \A n \in 0..(N - 1) : ~IsTerminal(onward[n])
      BY <1>2, <2>1, <2>6 DEF IsTerminal
    <2>11. ~t.errored => \A n \in 0..(N - 1) : IsTerminal(onward[n]) => n >= SentBy(t)
      <3>1. CASE t.stage # "closed"
        BY <2>10, <3>1
      <3>2. CASE t.stage = "closed"
        <4>1. SentBy(t) = M
          <5>1. SentBy(t) = N - 1
            BY <3>2 DEF SentBy
          <5> QED
            BY <1>4, <5>1
        <4>2. ~t.errored => \A n \in 0..(M - 1) : ~IsTerminal(onward[n])
          BY <1>2, <2>1, <2>6, <3>2
        <4> QED
          BY <2>1, <4>1, <4>2
      <3> QED
        BY <3>1, <3>2
    <2>12. Honest(t, row', paused', N, onward)
      BY <2>8, <2>9, <2>10, <2>11 DEF Honest
    <2>13. ASSUME NEW c \in ClientState, Told(c, s, row, paused, M, line)
           PROVE  Told(c, t, row', paused', N, onward)
      <3>1. c.verdict = "end" => Saved(row', paused')
        BY <1>1, <2>13 DEF Told
      <3>2. ASSUME c.pc \in {"subscribed", "live"}
            PROVE  c.max < N /\ \A n \in 0..(N - 1) : IsTerminal(onward[n]) => n > c.max
        <4>1. c.max < M /\ c.max \in Nat
          BY <2>13, <3>2 DEF Told, ClientState
        <4>2. \A n \in 0..(M - 1) : IsTerminal(onward[n]) => n > c.max
          BY <2>1, <2>13, <3>2 DEF Told
        <4>3. c.max < N
          BY <1>4, <4>1
        <4> QED
          BY <2>1, <4>1, <4>2, <4>3
      <3> QED
        BY <3>1, <3>2 DEF Told
    <2> QED
      BY <2>12, <2>13
  <1> QED
    BY <1>3, <1>4 DEF Onward

\* A step that sends nothing and settles nothing.
LEMMA HonestSame ==
    ASSUME NEW s, NEW t, s.pc # "dead", t.pc # "dead", t.stage = s.stage,
           t.errored = s.errored, NEW M \in Nat, s.no = M, t.no = M, NEW line,
           NEW status, NEW resumable, Honest(s, status, resumable, M, line)
    PROVE  /\ Honest(t, status, resumable, M, line)
           /\ \A c : Told(c, s, status, resumable, M, line)
                       => Told(c, t, status, resumable, M, line)
  <1>1. s.stage = "closed" => SentBy(t) = M - 1 /\ SentBy(s) = M - 1
    BY DEF SentBy
  <1>2. ~t.errored => \A n \in 0..(M - 1) : IsTerminal(line[n]) => n >= SentBy(t)
    <2>1. CASE s.stage = "closed"
      BY <1>1, <2>1 DEF Honest
    <2>2. CASE s.stage # "closed"
      BY <2>2 DEF Honest
    <2> QED
      BY <2>1, <2>2
  <1> QED
    BY <1>2 DEF Honest, Told

\* A stream whose stage is settled.
LEMMA SettleHonest ==
    ASSUME Typed, Finish(First) \/ Fail(First) \/ IntervalPasses(First),
           NEW s, s = Sole, NEW t, s.pc # "dead", t.pc # "dead", t.errored = s.errored,
           t.stage = IF Finish(First) THEN "finished"
                     ELSE IF Fail(First) THEN "failed" ELSE s.stage,
           NEW M \in Nat, s.no = M, t.no = M, NEW line,
           Honest(s, row, paused, M, line)
    PROVE  /\ Honest(t, row', paused', M, line)
           /\ \A c : Told(c, s, row, paused, M, line)
                       => Told(c, t, row', paused', M, line)
  <1>1. CASE ~Finish(First) /\ ~Fail(First)
    <2>1. row' = row /\ paused' = paused /\ t.stage = s.stage
      BY <1>1 DEF IntervalPasses
    <2> QED
      BY <2>1, HonestSame
  <1>2. CASE Finish(First) \/ Fail(First)
    <2>1. /\ paused' = paused /\ (row # "open" => row' = row)
          /\ s.stage \notin {"aborted", "closed"}
      BY <1>2 DEF Finish, Fail, Ready, Sole
    <2>2. Finish(First) => s.stage = "streaming"
      BY DEF Finish, Ready, Sole
    <2>3. Saved(row, paused) => Saved(row', paused')
      BY <2>1 DEF Saved
    <2>4. ~s.errored => \A n \in 0..(M - 1) : ~IsTerminal(line[n])
      BY <2>1 DEF Honest
    <2>5. Finish(First) => row' = "complete" \/ s.errored
      <3>1. Finish(First) => row = "open"
        BY <2>2 DEF Honest
      <3> QED
        BY <3>1 DEF Finish, Sole
    <2>6. t.stage \in {"finished", "failed"} /\ (t.stage = "finished" => Finish(First))
      BY <1>2
    <2> QED
      BY <2>3, <2>4, <2>5, <2>6 DEF Honest, Told
  <1> QED
    BY <1>1, <1>2

\* The terminal event of an aborted stream tells what became of the row.
LEMMA AbortEndsHonest ==
    ASSUME NEW s, s = Sole, s.pc = "ready", s.stage = "aborted",
           NEW t, t.pc = "row", t.stage = "closed", t.errored = s.errored,
           NEW M \in Nat, t.no = M + 1, NEW line \in [Nat -> Event],
           NEW ends \in {"end", "error"}, ends = "end" => row' = "complete",
           row = "complete" => row' = row, paused' = paused,
           Honest(s, row, paused, M, line)
    PROVE  LET onward == Sending(M, line, ends) IN
           /\ Honest(t, row', paused', M + 1, onward)
           /\ \A c \in ClientState : Told(c, s, row, paused, M, line)
                                       => Told(c, t, row', paused', M + 1, onward)
  <1> DEFINE onward == Sending(M, line, ends)
  <1>1. Saved(row, paused) => Saved(row', paused')
    BY DEF Saved
  <1>2. onward[M].ends = ends /\ \A n \in 0..(M - 1) : onward[n] = line[n]
    <2>1. \A n \in 0..(M - 1) : n \in Nat /\ n # M
      OBVIOUS
    <2> QED
      BY <2>1 DEF Sending
  <1> HIDE DEF onward
  <1>3. /\ (M + 1) - 1 = M /\ \A n \in 0..M : n = M \/ n \in 0..(M - 1)
        /\ M \in 0..M /\ \A n \in 0..(M - 1) : n \in 0..M
    OBVIOUS
  <1>4. \A n \in 0..M : FailedBefore(n, line) => FailedBefore(n, onward)
    <2> SUFFICES ASSUME NEW n \in 0..M, NEW m \in 0..(n - 1), line[m].ends = "error"
                 PROVE  FailedBefore(n, onward)
      BY DEF FailedBefore
    <2>1. m \in 0..(M - 1)
      OBVIOUS
    <2> QED
      BY <1>2, <2>1 DEF FailedBefore
  <1>5. t.errored => FailedBefore(M + 1, onward)
    <2>1. t.errored => FailedBefore(M, onward)
      BY <1>3, <1>4 DEF Honest
    <2>2. FailedBefore(M, onward) => FailedBefore(M + 1, onward)
      BY DEF FailedBefore
    <2> QED
      BY <2>1, <2>2
  <1>6. \A n \in 0..M : onward[n].ends = "end" => Saved(row', paused') \/ FailedBefore(n, onward)
    <2> SUFFICES ASSUME NEW n \in 0..M, onward[n].ends = "end"
                 PROVE  Saved(row', paused') \/ FailedBefore(n, onward)
      OBVIOUS
    <2>1. CASE n = M
      BY <1>2, <2>1 DEF Saved
    <2>2. CASE n \in 0..(M - 1)
      <3>1. Saved(row, paused) \/ FailedBefore(n, line)
        BY <1>2, <2>2 DEF Honest
      <3> QED
        BY <1>1, <1>4, <3>1
    <2> QED
      BY <1>3, <2>1, <2>2
  <1>7. ~t.errored => \A n \in 0..M : IsTerminal(onward[n]) => n >= SentBy(t)
    <2>1. SentBy(t) = M
      <3>1. SentBy(t) = (M + 1) - 1
        BY DEF SentBy
      <3> QED
        BY <1>3, <3>1
    <2>2. ~t.errored => \A n \in 0..(M - 1) : ~IsTerminal(onward[n])
      BY <1>2 DEF Honest
    <2> QED
      BY <1>3, <2>1, <2>2
  <1>8. Honest(t, row', paused', M + 1, onward)
    BY <1>3, <1>5, <1>6, <1>7 DEF Honest
  <1>9. ASSUME NEW c \in ClientState, Told(c, s, row, paused, M, line)
        PROVE  Told(c, t, row', paused', M + 1, onward)
    <2>1. c.verdict = "end" => Saved(row', paused')
      BY <1>1, <1>9 DEF Told
    <2>2. ASSUME c.pc \in {"subscribed", "live"}
          PROVE  c.max < M + 1 /\ \A n \in 0..M : IsTerminal(onward[n]) => n > c.max
      <3>1. c.max < M /\ c.max \in Nat
        BY <1>9, <2>2 DEF Told, ClientState
      <3>2. \A n \in 0..(M - 1) : IsTerminal(onward[n]) => n > c.max
        BY <1>2, <1>9, <2>2 DEF Told
      <3> QED
        BY <1>3, <3>1, <3>2
    <2> QED
      BY <1>3, <2>1, <2>2 DEF Told
  <1> QED
    BY <1>8, <1>9 DEF onward

\* What a stream that dies had buffered is no part of the line any more.
LEMMA CrashHonest ==
    ASSUME NEW s, NEW t, t.pc = "dead", t.errored = s.errored,
           t.no = SentBy(s), t.stage # "closed", SentBy(s) \in Int, NEW K \in Nat, NEW M \in Nat, K <= M,
           NEW line, NEW status, NEW resumable, Honest(s, status, resumable, M, line)
    PROVE  /\ Honest(t, status, resumable, K, line)
           /\ \A c : Told(c, s, status, resumable, M, line)
                       => Told(c, t, status, resumable, K, line)
  <1>1. \A n \in 0..(K - 1) : n \in 0..(M - 1)
    OBVIOUS
  <1>2. SentBy(t) = SentBy(s)
    <2>1. SentBy(t) = SentBy(s) - 0
      BY DEF SentBy
    <2> QED
      BY <2>1
  <1>3. \A n \in 0..(K - 1) : ~t.errored /\ IsTerminal(line[n]) => n >= SentBy(s)
    BY <1>1 DEF Honest
  <1> QED
    BY <1>1, <1>2, <1>3 DEF Honest, Told

\* The reconciler fails the row of a stream that is over.
LEMMA ReconcileHonest ==
    ASSUME ReconcileRow, NEW s, s = Sole, s.pc # "idle", NEW M, NEW line,
           Honest(s, row, paused, M, line), First \in Writer
    PROVE  /\ Honest(s, row', paused', M, line)
           /\ \A c : Told(c, s, row, paused, M, line) => Told(c, s, row', paused', M, line)
  <1>1. s.pc # "dead" => s.stage = "closed"
    BY DEF ReconcileRow, Alive, Sole
  <1>2. Saved(row', paused') = Saved(row, paused)
    BY DEF ReconcileRow, Saved
  <1> QED
    BY <1>1, <1>2 DEF Honest, Told

\* The clients' steps.
LEMMA ConnectTold ==
    ASSUME Typed, ~Sole.errored, NEW n \in 1..SentSoFar(First),
           NEW K \in Nat, NEW M \in Nat, NEW line \in [Nat -> Event],
           Carries(Sole, journal, K, M, line), Honest(Sole, row, paused, M, line)
    PROVE  Told(Reconnecting(First, n), Sole, row, paused, M, line)
  <1> DEFINE s == Sole
             c == Reconnecting(First, n)
  <1>1. /\ s.no \in Nat /\ s.base = 0 /\ (s.pc # "dead" => s.no = M)
        /\ SentBy(s) = SentSoFar(First)
    <2>1. First \in Writer
      BY ConstantsAssumption
    <2>2. s \in StreamState
      BY <2>1, StreamIs DEF StreamTyped, Sole
    <2>3. s.no \in Nat
      BY <2>2, ConstantsAssumption DEF StreamState
    <2>4. SentBy(s) = SentSoFar(First)
      BY DEF SentBy, SentSoFar, Sole
    <2> QED
      BY <2>3, <2>4 DEF Carries
  <1>2. c.max = n - 1 /\ c.verdict = "no"
    <2>1. c.max = stream[First].base + n - 1 /\ c.verdict = "no"
      BY ReconnectingIs, ConstantsAssumption
    <2>2. 0 + n - 1 = n - 1
      OBVIOUS
    <2> QED
      BY <1>1, <2>1, <2>2 DEF Sole
  <1>3. n \in Nat /\ n >= 1 /\ n <= SentBy(s)
    BY <1>1 DEF SentBy
  <1>4. \A m \in 0..(M - 1) : IsTerminal(line[m]) => m >= SentBy(s)
    BY DEF Honest
  <1>5. SentBy(s) \in Int /\ SentBy(s) <= s.no
    BY <1>1 DEF SentBy
  <1> HIDE DEF s, c
  <1>6. \A m \in 0..(M - 1) : IsTerminal(line[m]) => m > c.max
    <2>1. \A m \in 0..(M - 1) : m >= SentBy(s) => m > n - 1
      BY <1>3, <1>5
    <2> QED
      BY <1>2, <1>4, <2>1
  <1>7. s.pc # "dead" => c.max < M
    <2>1. n - 1 < s.no
      BY <1>1, <1>3, <1>5
    <2> QED
      BY <1>1, <1>2, <2>1
  <1> QED
    BY <1>2, <1>6, <1>7 DEF Told, s, c

\* The verdict of a terminal event no earlier error precedes past the cursor.
LEMMA VerdictTold ==
    ASSUME NEW c \in ClientState, c.pc \in {"subscribed", "live"}, NEW s,
           NEW status, NEW resumable, NEW M \in Nat, NEW line,
           Honest(s, status, resumable, M, line), Told(c, s, status, resumable, M, line),
           NEW n \in 0..(M - 1), line[n].ends = "end",
           \A m \in 0..(n - 1) : IsTerminal(line[m]) => m <= c.max
    PROVE  Saved(status, resumable)
  <1>1. SUFFICES ASSUME FailedBefore(n, line) PROVE FALSE
    BY DEF Honest
  <1>2. PICK m \in 0..(n - 1) : line[m].ends = "error"
    BY <1>1 DEF FailedBefore
  <1>3. m \in 0..(M - 1) /\ IsTerminal(line[m])
    BY <1>2 DEF IsTerminal
  <1>4. m > c.max /\ c.max \in Nat
    BY <1>3 DEF Told, ClientState
  <1>5. m <= c.max
    BY <1>3
  <1> QED
    BY <1>4, <1>5

LEMMA SnapshotTold ==
    ASSUME Typed, NEW c \in ClientState, c.pc = "subscribed", NEW s,
           NEW K \in Nat, NEW M \in Nat, NEW line \in [Nat -> Event],
           Carries(s, journal, K, M, line), Honest(s, row, paused, M, line),
           Told(c, s, row, paused, M, line)
    PROVE  Told(Replayed(c), s, row, paused, M, line)
  <1> DEFINE d == Replayed(c)
             x == c.max
             L == IF x < K THEN K - 1 - x ELSE 0
  <1>1. /\ K <= M /\ Dense(K) /\ \A n \in 0..(K - 1) : journal[n] = line[n]
        /\ x \in Nat
    BY DEF Carries, Dense, ClientState
  <1>2. /\ L \in Nat /\ \A i \in 1..L : x + i \in 0..(K - 1) /\ x + i \in 0..(M - 1)
        /\ \A m \in Nat : m <= x \/ m > x + L \/ \E i \in 1..L : m = x + i
        /\ x + L >= x
    <2>1. CASE x < K
      <3>1. L = K - 1 - x /\ L \in Nat
        BY <1>1, <2>1
      <3>2. \A i \in 1..(K - 1 - x) : x + i \in 0..(K - 1) /\ x + i \in 0..(M - 1)
        BY <1>1, <2>1
      <3>3. ASSUME NEW m \in Nat, ~(m <= x), ~(m > x + L) PROVE \E i \in 1..L : m = x + i
        <4>1. m - x \in 1..L /\ m = x + (m - x)
          BY <1>1, <3>1, <3>3
        <4> QED
          BY <4>1
      <3> HIDE DEF L
      <3> QED
        BY <1>1, <3>1, <3>2, <3>3
    <2>2. CASE ~(x < K)
      BY <1>1, <2>2
    <2> QED
      BY <2>1, <2>2
  <1>3. \/ /\ d.pc = "live" /\ d.max = x + L
           /\ d.verdict = c.verdict
           /\ \A i \in 1..L : ~IsTerminal(journal[x + i])
        \/ /\ d.pc = "closed"
           /\ \E i \in 1..L :
                /\ d.verdict = journal[x + i].ends
                /\ \A k \in 1..L : IsTerminal(journal[x + k]) => i <= k
    BY <1>1, ReplayedIs
  <1> HIDE DEF d, L
  <1>4. \A n \in 0..(M - 1) : IsTerminal(line[n]) => n > x
    BY DEF Told
  <1>5. CASE /\ d.pc = "live" /\ d.max = x + L
             /\ d.verdict = c.verdict
             /\ \A i \in 1..L : ~IsTerminal(journal[x + i])
    <2>1. \A n \in 0..(M - 1) : IsTerminal(line[n]) => n > d.max
      <3> SUFFICES ASSUME NEW n \in 0..(M - 1), IsTerminal(line[n]) PROVE n > x + L
        BY <1>5
      <3>1. n > x
        BY <1>4
      <3>2. \A i \in 1..L : n # x + i
        BY <1>1, <1>2, <1>5
      <3>3. ~(n <= x)
        BY <1>1, <3>1
      <3> QED
        BY <1>2, <3>2, <3>3
    <2>2. s.pc # "dead" => d.max < M
      <3>1. s.pc # "dead" => x < M
        BY DEF Told
      <3>2. x < M => x + L < M
        BY <1>1, <1>2 DEF L
      <3> QED
        BY <1>5, <3>1, <3>2
    <2>3. c.verdict = "end" => Saved(row, paused)
      BY DEF Told
    <2> QED
      BY <1>5, <2>1, <2>2, <2>3 DEF Told, d
  <1>6. CASE /\ d.pc = "closed"
             /\ \E i \in 1..L :
                /\ d.verdict = journal[x + i].ends
                /\ \A k \in 1..L : IsTerminal(journal[x + k]) => i <= k
    <2>1. PICK i \in 1..L : /\ d.verdict = journal[x + i].ends
                            /\ \A k \in 1..L : IsTerminal(journal[x + k]) => i <= k
      BY <1>6
    <2> DEFINE n == x + i
    <2>2. n \in 0..(M - 1) /\ n \in 0..(K - 1) /\ n \in Nat
      BY <1>2
    <2>3. d.verdict = line[n].ends
      BY <1>1, <2>1, <2>2
    <2>4. \A m \in 0..(n - 1) : IsTerminal(line[m]) => m <= x
      <3> SUFFICES ASSUME NEW m \in 0..(n - 1), IsTerminal(line[m]), ~(m <= x) PROVE FALSE
        OBVIOUS
      <3>1. m \in Nat /\ m < n /\ m \in 0..(K - 1) /\ n <= x + L
        BY <1>1, <1>2, <2>2
      <3>2. PICK k \in 1..L : m = x + k
        <4>1. ~(m > x + L)
          BY <1>1, <1>2, <2>2, <3>1
        <4> QED
          BY <1>2, <3>1, <4>1
      <3>3. i <= k
        BY <1>1, <2>1, <3>1, <3>2
      <3> QED
        BY <1>1, <3>1, <3>2, <3>3
    <2> HIDE DEF n
    <2>5. d.verdict = "end" => Saved(row, paused)
      BY <2>2, <2>3, <2>4, VerdictTold
    <2> QED
      BY <1>6, <2>5 DEF Told, d
  <1> QED
    BY <1>3, <1>5, <1>6

LEMMA DeliverTold ==
    ASSUME NEW c \in ClientState, c.pc = "live", c.inbox # <<>>, NEW s,
           NEW K \in Nat, NEW M \in Nat, K <= M, NEW line \in [Nat -> Event],
           NEW status, NEW resumable, \A n \in 0..(M - 1) : line[n].no = n + 1,
           Follows(c, s, K, line), Honest(s, status, resumable, M, line),
           Told(c, s, status, resumable, M, line)
    PROVE  LET f == Head(c.inbox) IN
           /\ ~Fresh(c, f) => Told([c EXCEPT !.inbox = Tail(@)], s, status, resumable, M, line)
           /\ Fresh(c, f) /\ ~IsTerminal(f.event) => Told(Shown(c), s, status, resumable, M, line)
           /\ Fresh(c, f) =>
                \A by : Told(Closed(Shown(c), by, f.event.ends), s, status, resumable, M, line)
  <1> DEFINE f == Head(c.inbox)
             skipped == [c EXCEPT !.inbox = Tail(@)]
             shown == Shown(c)
             x == c.max
  <1>1. /\ ~Fresh(c, f) => skipped.max = x /\ skipped.verdict = c.verdict
        /\ Fresh(c, f) =>
             /\ f.at = x + 1 /\ f.at \in 0..(K - 1) /\ f.event = line[f.at]
             /\ shown.max = f.at /\ shown.verdict = c.verdict
             /\ \A by, verdict : /\ Closed(shown, by, verdict).pc = "closed"
                                 /\ Closed(shown, by, verdict).verdict = verdict
    <2>1. Delivered(c, s, K, line)
      BY DeliverFollows
    <2> QED
      BY <2>1 DEF Delivered
  <1>2. x \in Nat /\ \A n \in 0..(M - 1) : IsTerminal(line[n]) => n > x
    BY DEF Told, ClientState
  <1>3. c.verdict = "end" => Saved(status, resumable)
    BY DEF Told
  <1>4. s.pc # "dead" => x < M
    BY DEF Told
  <1> HIDE DEF f, skipped, shown, x
  <1>5. ASSUME ~Fresh(c, f) PROVE Told(skipped, s, status, resumable, M, line)
    <2>1. skipped.max = x /\ skipped.verdict = c.verdict
      BY <1>1, <1>5
    <2> QED
      BY <1>2, <1>3, <1>4, <2>1 DEF Told
  <1>6. ASSUME Fresh(c, f), ~IsTerminal(f.event)
        PROVE  Told(shown, s, status, resumable, M, line)
    <2>1. \A n \in 0..(M - 1) : IsTerminal(line[n]) => n # f.at
      BY <1>1, <1>6
    <2>2. \A n \in 0..(M - 1) : n > x /\ n # x + 1 => n > x + 1
      BY <1>2
    <2>3. \A n \in 0..(M - 1) : IsTerminal(line[n]) => n > shown.max
      BY <1>1, <1>2, <1>6, <2>1, <2>2
    <2>4. shown.max < M
      BY <1>1, <1>6
    <2> QED
      BY <1>1, <1>3, <1>6, <2>3, <2>4 DEF Told
  <1>7. ASSUME Fresh(c, f), NEW by
        PROVE  Told(Closed(shown, by, f.event.ends), s, status, resumable, M, line)
    <2> DEFINE d == Closed(shown, by, f.event.ends)
    <2>1. d.pc = "closed" /\ d.verdict = line[f.at].ends
      BY <1>1, <1>7
    <2>2. f.at \in 0..(M - 1)
      BY <1>1, <1>7
    <2>3. \A m \in 0..(f.at - 1) : IsTerminal(line[m]) => m <= c.max
      <3>1. \A m \in 0..(f.at - 1) : m <= x
        BY <1>1, <1>2, <1>7
      <3> QED
        BY <3>1 DEF x
    <2> HIDE DEF d
    <2>4. d.verdict = "end" => Saved(status, resumable)
      BY <2>1, <2>2, <2>3, VerdictTold
    <2> QED
      BY <2>1, <2>4 DEF Told, d
  <1> QED
    BY <1>5, <1>6, <1>7 DEF f, skipped, shown

-----------------------------------------------------------------------------
\* The invariant

\* One line for the journal, its stream and all the clients of the message.
LineInv(K, M, line) ==
    /\ Carries(Sole, journal, K, M, line)
    /\ Honest(Sole, row, paused, M, line)
    /\ \A r \in Reader : /\ Follows(client[r], Sole, K, line)
                         /\ Told(client[r], Sole, row, paused, M, line)

OneLine == Regime => \E K, M \in Nat : \E line \in [Nat -> Event] : LineInv(K, M, line)

LEMMA ClientKeepsLine ==
    ASSUME Typed, ~Blips, ~Drops, NotResumed, NEW r \in Reader, ClientStep(r),
           NEW K \in Nat, NEW M \in Nat, NEW line \in [Nat -> Event], LineInv(K, M, line)
    PROVE  LineInv(K, M, line)'
  <1> DEFINE c == client[r]
  <1>1. /\ client \in [Reader -> ClientState] /\ c \in ClientState
        /\ UNCHANGED <<row, paused, journal, stream>>
    BY ClientStepIs DEF Typed, TypeOK
  <1>2. /\ Carries(Sole, journal, K, M, line) /\ Honest(Sole, row, paused, M, line)
        /\ Follows(c, Sole, K, line) /\ Told(c, Sole, row, paused, M, line)
        /\ K <= M /\ \A n \in 0..(M - 1) : line[n].no = n + 1
    BY DEF LineInv, Carries
  <1>3. ASSUME NEW t, Turns(r, t), Follows(t, Sole, K, line),
               Told(t, Sole, row, paused, M, line)
        PROVE  LineInv(K, M, line)'
    <2>1. \A q \in Reader : client'[q] = IF q = r THEN t ELSE client[q]
      BY <1>1, <1>3 DEF Turns
    <2>2. Sole' = Sole /\ row' = row /\ paused' = paused /\ journal' = journal
      BY <1>1 DEF Sole
    <2>3. \A q \in Reader : /\ Follows(client'[q], Sole, K, line)
                            /\ Told(client'[q], Sole, row, paused, M, line)
      BY <1>3, <2>1 DEF LineInv
    <2> QED
      BY <1>2, <2>2, <2>3 DEF LineInv
  <1>4. CASE \E w \in Writer : \E n \in 1..SentSoFar(w) :
               /\ stream[w].pc # "idle" /\ ~stream[w].errored /\ Turns(r, Reconnecting(w, n))
    <2>1. PICK w \in Writer : \E n \in 1..SentSoFar(w) :
            stream[w].pc # "idle" /\ ~stream[w].errored /\ Turns(r, Reconnecting(w, n))
      BY <1>4
    <2>2. w = First
      BY <2>1 DEF NotResumed, IdleStream
    <2>3. PICK n \in 1..SentSoFar(First) : ~Sole.errored /\ Turns(r, Reconnecting(First, n))
      BY <2>1, <2>2 DEF Sole
    <2>4. /\ Follows(Reconnecting(First, n), Sole, K, line)
          /\ Told(Reconnecting(First, n), Sole, row, paused, M, line)
      BY <1>2, <2>3, ConnectFollows, ConnectTold
    <2> QED
      BY <1>3, <2>3, <2>4
  <1>5. CASE c.pc = "subscribed" /\ Turns(r, Replayed(c))
    <2>1. Follows(Replayed(c), Sole, K, line) /\ Told(Replayed(c), Sole, row, paused, M, line)
      BY <1>1, <1>2, <1>5, SnapshotFollows, SnapshotTold
    <2> QED
      BY <1>3, <1>5, <2>1
  <1>6. CASE /\ c.pc = "live" /\ c.inbox # <<>>
             /\ \/ /\ ~Fresh(c, Head(c.inbox))
                   /\ Turns(r, [c EXCEPT !.inbox = Tail(@)])
                \/ /\ Fresh(c, Head(c.inbox))
                   /\ \/ /\ IsTerminal(Head(c.inbox).event)
                         /\ Turns(r, Closed(Shown(c), "journal", Head(c.inbox).event.ends))
                      \/ /\ ~IsTerminal(Head(c.inbox).event)
                         /\ Turns(r, Shown(c))
    <2> DEFINE f == Head(c.inbox)
               skipped == [c EXCEPT !.inbox = Tail(@)]
               shut == Closed(Shown(c), "journal", f.event.ends)
    <2>0. /\ ~Fresh(c, f) => Told(skipped, Sole, row, paused, M, line)
          /\ Fresh(c, f) /\ ~IsTerminal(f.event) => Told(Shown(c), Sole, row, paused, M, line)
          /\ Fresh(c, f) =>
               \A by : Told(Closed(Shown(c), by, f.event.ends), Sole, row, paused, M, line)
      BY <1>1, <1>2, <1>6, DeliverTold
    <2>1. /\ ~Fresh(c, f) => Follows(skipped, Sole, K, line)
          /\ Fresh(c, f) => /\ Follows(Shown(c), Sole, K, line)
                            /\ Follows(shut, Sole, K, line)
      <3>1. Delivered(c, Sole, K, line)
        BY <1>1, <1>2, <1>6, DeliverFollows
      <3> QED
        BY <3>1 DEF Delivered
    <2>2. CASE ~Fresh(c, f) /\ Turns(r, skipped)
      <3>1. Follows(skipped, Sole, K, line) /\ Told(skipped, Sole, row, paused, M, line)
        BY <2>0, <2>1, <2>2
      <3> HIDE DEF skipped
      <3> QED
        BY <1>3, <2>2, <3>1
    <2>3. CASE Fresh(c, f) /\ Turns(r, shut)
      <3>1. Follows(shut, Sole, K, line) /\ Told(shut, Sole, row, paused, M, line)
        BY <2>0, <2>1, <2>3
      <3> HIDE DEF shut
      <3> QED
        BY <1>3, <2>3, <3>1
    <2>4. CASE Fresh(c, f) /\ ~IsTerminal(f.event) /\ Turns(r, Shown(c))
      BY <1>3, <2>0, <2>1, <2>4
    <2> QED
      BY <1>6, <2>2, <2>3, <2>4
  <1>7. CASE \E verdict \in {"end", "error"} :
               /\ c.pc = "live"
               /\ verdict = "end" => row = "complete"
               /\ Turns(r, Closed(c, "watchdog", verdict))
    <2>1. PICK verdict \in {"end", "error"} :
               /\ verdict = "end" => row = "complete"
               /\ Turns(r, Closed(c, "watchdog", verdict))
      BY <1>7
    <2> DEFINE d == Closed(c, "watchdog", verdict)
    <2>2. d.pc = "closed" /\ d.verdict = verdict /\ d.seen = c.seen
      BY <1>1, ClosedIs
    <2> HIDE DEF d
    <2>3. Follows(d, Sole, K, line)
      BY <1>2, <2>2 DEF Follows
    <2>4. Told(d, Sole, row, paused, M, line)
      BY <2>1, <2>2 DEF Told, Saved
    <2> QED
      BY <1>3, <2>1, <2>3, <2>4 DEF d
  <1> QED
    BY <1>4, <1>5, <1>6, <1>7, ClientStepIs

LEMMA StreamKeepsLine ==
    ASSUME Typed, OrderInv, ~Blips, ~Drops, Regime, StreamStep(First),
           NEW K \in Nat, NEW M \in Nat, NEW line \in [Nat -> Event], LineInv(K, M, line)
    PROVE  \E J, N \in Nat : \E onward \in [Nat -> Event] : LineInv(J, N, onward)'
  <1> DEFINE s == Sole
             t == stream'[First]
  <1>1. /\ Carries(s, journal, K, M, line) /\ Honest(s, row, paused, M, line)
        /\ \A r \in Reader : /\ Follows(client[r], s, K, line)
                             /\ Told(client[r], s, row, paused, M, line)
        /\ K <= M /\ s.pc \notin {"idle", "retry"} /\ (s.pc # "dead" => s.no = M)
    BY DEF LineInv, Carries
  <1>2. /\ First \in Writer /\ row # "gone"
        /\ \A r \in Reader : client[r] \in ClientState
        /\ s.no \in Nat
    BY ConstantsAssumption DEF Typed, TypeOK, StreamState, Regime, Sole
  <1>3. ASSUME NEW J \in Nat, NEW N \in Nat, NEW onward \in [Nat -> Event],
               Carries(t, journal', J, N, onward), Honest(t, row', paused', N, onward),
               \A r \in Reader : /\ Follows(client'[r], t, J, onward)
                                 /\ Told(client'[r], t, row', paused', N, onward)
        PROVE  \E J_1, N_1 \in Nat : \E on \in [Nat -> Event] : LineInv(J_1, N_1, on)'
    <2>1. LineInv(J, N, onward)'
      BY <1>3 DEF LineInv, Sole
    <2> QED
      BY <2>1
  <1>4. CASE Write(First)
    <2>1. /\ client' = client
          /\ \E J, N \in Nat : \E onward \in [Nat -> Event] :
                 /\ Carries(t, journal', J, N, onward)
                 /\ \A c \in ClientState : Follows(c, s, K, line) => Follows(c, t, J, onward)
                 /\ t.pc # "dead"
                 /\ Onward(t, M, N, line, onward)
      BY <1>1, <1>2, <1>4, WriteCarries
    <2>2. PICK J \in Nat, N \in Nat, onward \in [Nat -> Event] :
                 /\ Carries(t, journal', J, N, onward)
                 /\ \A c \in ClientState : Follows(c, s, K, line) => Follows(c, t, J, onward)
                 /\ t.pc # "dead"
                 /\ Onward(t, M, N, line, onward)
      BY <2>1
    <2>3. /\ s.pc = "ready" /\ s.stage \notin {"aborted", "closed"}
          /\ row' = row /\ paused' \in {paused, TRUE}
      BY <1>2, <1>4, WriteIs DEF Sole
    <2>4. t.no = N
      BY <2>2 DEF Carries
    <2> HIDE DEF t
    <2>5. /\ Honest(t, row', paused', N, onward)
          /\ \A c \in ClientState : Told(c, s, row, paused, M, line)
                                       => Told(c, t, row', paused', N, onward)
      BY <1>1, <2>2, <2>3, <2>4, WriteHonest
    <2>6. \A r \in Reader : /\ Follows(client'[r], t, J, onward)
                            /\ Told(client'[r], t, row', paused', N, onward)
      BY <1>1, <1>2, <2>1, <2>2, <2>5
    <2> QED
      BY <1>3, <2>2, <2>5, <2>6
  <1>5. ASSUME NEW J \in Nat, Carries(t, journal', J, M, line), s.pc # "dead", t.pc # "dead",
               t.stage = s.stage, t.errored = s.errored, row' = row, paused' = paused,
               \A r \in Reader : Follows(client'[r], t, J, line), SameCursors
        PROVE  \E J_1, N_1 \in Nat : \E on \in [Nat -> Event] : LineInv(J_1, N_1, on)'
    <2>1. t.no = M /\ s.no = M
      BY <1>1, <1>5 DEF Carries
    <2> HIDE DEF s, t
    <2>2. /\ Honest(t, row, paused, M, line)
          /\ \A c : Told(c, s, row, paused, M, line) => Told(c, t, row, paused, M, line)
      BY <1>1, <1>5, <2>1, HonestSame
    <2>3. \A r \in Reader : Told(client'[r], t, row, paused, M, line)
      BY <1>1, <1>5, <2>2 DEF SameCursors, Told
    <2> QED
      BY <1>3, <1>5, <2>2, <2>3
  <1>6. CASE Publish(First) \/ PublishRow(First)
    <2>1. row' = row /\ paused' = paused /\ s.pc # "dead"
      BY <1>6 DEF Publish, PublishRow, Sole
    <2>2. /\ Carries(t, journal', K, M, line)
          /\ \A r \in Reader : Follows(client'[r], t, K, line)
          /\ SameCursors /\ t.pc # "dead"
          /\ t.stage = s.stage /\ t.errored = s.errored
      BY <1>1, <1>6, PublishCarries
    <2> QED
      BY <1>5, <2>1, <2>2
  <1>7. CASE InsertRow(First)
    <2>1. row' = row /\ paused' = paused /\ s.pc # "dead"
      BY <1>7 DEF InsertRow, Sole
    <2>2. /\ client' = client
          /\ Carries(t, journal', K + 1, M, line)
          /\ \A c \in ClientState : Follows(c, s, K, line) => Follows(c, t, K + 1, line)
          /\ t.pc # "dead" /\ t.stage = s.stage /\ t.errored = s.errored
      BY <1>1, <1>2, <1>7, InsertCarries
    <2>3. \A r \in Reader : Follows(client'[r], t, K + 1, line)
      BY <1>1, <1>2, <2>2
    <2>4. SameCursors /\ K + 1 \in Nat
      BY <2>2 DEF SameCursors
    <2> QED
      BY <1>5, <2>1, <2>2, <2>3, <2>4
  <1>8. CASE Finish(First) \/ Fail(First) \/ IntervalPasses(First)
    <2>1. /\ client' = client
          /\ Carries(t, journal', K, M, line)
          /\ \A c \in ClientState : Follows(c, s, K, line) => Follows(c, t, K, line)
          /\ t.errored = s.errored /\ t.pc = "ready"
          /\ t.stage = IF Finish(First) THEN "finished"
                       ELSE IF Fail(First) THEN "failed" ELSE s.stage
      BY <1>1, <1>8, SettleCarries
    <2>2. s.pc # "dead"
      BY <1>8 DEF Finish, Fail, IntervalPasses, Ready, Sole
    <2>3. t.no = M /\ s.no = M
      BY <1>1, <2>1, <2>2 DEF Carries
    <2> HIDE DEF t
    <2>4. /\ Honest(t, row', paused', M, line)
          /\ \A c : Told(c, s, row, paused, M, line) => Told(c, t, row', paused', M, line)
      BY <1>1, <1>8, <2>1, <2>2, <2>3, SettleHonest
    <2>5. \A r \in Reader : /\ Follows(client'[r], t, K, line)
                            /\ Told(client'[r], t, row', paused', M, line)
      BY <1>1, <1>2, <2>1, <2>4
    <2> QED
      BY <1>3, <2>1, <2>4, <2>5
  <1>9. CASE AbortEnds(First)
    <2>1. /\ client' = client
          /\ \E ends \in {"end", "error"} :
                LET onward == Sending(M, line, ends) IN
                /\ onward \in [Nat -> Event]
                /\ Carries(t, journal', K, M + 1, onward)
                /\ \A c \in ClientState : Follows(c, s, K, line) => Follows(c, t, K, onward)
                /\ ends = "end" => row' = "complete"
          /\ row \in {"complete", "failed"} => row' = row
          /\ t.errored = s.errored /\ t.pc = "row" /\ t.stage = "closed"
      BY <1>1, <1>2, <1>9, AbortEndsCarries
    <2>2. PICK ends \in {"end", "error"} :
                /\ Sending(M, line, ends) \in [Nat -> Event]
                /\ Carries(t, journal', K, M + 1, Sending(M, line, ends))
                /\ \A c \in ClientState :
                     Follows(c, s, K, line) => Follows(c, t, K, Sending(M, line, ends))
                /\ ends = "end" => row' = "complete"
      BY <2>1
    <2>3. s.pc = "ready" /\ s.stage = "aborted" /\ paused' = paused
      BY <1>9 DEF AbortEnds, Ready, Sole
    <2>4. t.no = M + 1
      BY <2>1, <2>2 DEF Carries
    <2> HIDE DEF t
    <2>5. /\ Honest(t, row', paused', M + 1, Sending(M, line, ends))
          /\ \A c \in ClientState : Told(c, s, row, paused, M, line)
                => Told(c, t, row', paused', M + 1, Sending(M, line, ends))
      BY <1>1, <2>1, <2>2, <2>3, <2>4, AbortEndsHonest
    <2>6. \A r \in Reader :
            /\ Follows(client'[r], t, K, Sending(M, line, ends))
            /\ Told(client'[r], t, row', paused', M + 1, Sending(M, line, ends))
      BY <1>1, <1>2, <2>1, <2>2, <2>5
    <2>7. M + 1 \in Nat
      OBVIOUS
    <2> QED
      BY <1>3, <2>2, <2>5, <2>6, <2>7
  <1>10. CASE Crash(First)
    <2>1. /\ client' = client
          /\ Carries(t, journal', K, K, line)
          /\ \A c \in ClientState : Follows(c, s, K, line) => Follows(c, t, K, line)
          /\ t.errored = s.errored /\ t.pc = "dead"
          /\ t.stage = "aborted" /\ t.no = SentSoFar(First)
      BY <1>1, <1>10, CrashCarries
    <2>2. /\ t.no = SentBy(s) /\ SentBy(s) \in Int /\ row' = row /\ paused' = paused
      <3>1. SentSoFar(First) = SentBy(s)
        BY DEF SentBy, SentSoFar, Sole
      <3>2. SentBy(s) \in Int
        BY <1>2 DEF SentBy
      <3>3. row' = row /\ paused' = paused
        BY <1>10 DEF Crash
      <3> QED
        BY <2>1, <3>1, <3>2, <3>3
    <2>3. t.stage # "closed"
      BY <2>1
    <2> HIDE DEF t, s
    <2>4. /\ Honest(t, row, paused, K, line)
          /\ \A c : Told(c, s, row, paused, M, line) => Told(c, t, row, paused, K, line)
      BY <1>1, <2>1, <2>2, <2>3, CrashHonest
    <2>5. \A r \in Reader : /\ Follows(client'[r], t, K, line)
                            /\ Told(client'[r], t, row, paused, K, line)
      BY <1>1, <1>2, <2>1, <2>4
    <2> QED
      BY <1>3, <2>1, <2>2, <2>4, <2>5
  <1>11. CASE Resume(First)
    BY <1>1, <1>11 DEF Resume, Sole
  <1> QED
    BY <1>4, <1>6, <1>7, <1>8, <1>9, <1>10, <1>11 DEF StreamStep, Write

LEMMA InitOneLine == Init => OneLine
  <1> SUFFICES ASSUME Init, Regime
               PROVE  \E K, M \in Nat : \E line \in [Nat -> Event] : LineInv(K, M, line)
    BY DEF OneLine
  <1>1. First \in Writer /\ MaxEmits \in Nat
    BY ConstantsAssumption
  <1> DEFINE e == [by |-> First, no |-> 1, ends |-> "no"]
             line == [n \in Nat |-> e]
  <1>2. line \in [Nat -> Event]
    <2>1. 1 \in 1..(MaxEmits + 1)
      BY <1>1
    <2>2. e \in Event
      BY <1>1, <2>1 DEF Event
    <2> HIDE DEF e
    <2> QED
      BY <2>2
  <1>3. Sole = [IdleStream EXCEPT !.pc = "ready"]
    BY <1>1 DEF Init, Sole
  <1>4. /\ Sole.pc = "ready" /\ Sole.stage = "streaming" /\ Sole.base = 0 /\ Sole.next = 0
        /\ Sole.no = 0 /\ Sole.buffer = <<>> /\ Sole.errored = FALSE
    BY <1>3 DEF IdleStream
  <1>5. journal = <<>> /\ row = "open" /\ \A r \in Reader : client[r] = IdleClient
    BY DEF Init
  <1> HIDE DEF line
  <1>6. 0..(0 - 1) = {} /\ 1..(0 - 0) = {}
    OBVIOUS
  <1>7. Carries(Sole, journal, 0, 0, line)
    <2>1. DOMAIN journal = {}
      BY <1>5
    <2>2. Pending(Sole) = <<>> /\ Len(<<>>) = 0 - 0
      BY <1>4 DEF Pending
    <2> HIDE DEF Sole
    <2> QED
      BY <1>4, <1>6, <2>1, <2>2 DEF Carries
  <1>8. Honest(Sole, row, paused, 0, line)
    BY <1>4, <1>5, <1>6 DEF Honest
  <1>9. \A r \in Reader : /\ Follows(client[r], Sole, 0, line)
                          /\ Told(client[r], Sole, row, paused, 0, line)
    BY <1>5 DEF Follows, Told, IdleClient
  <1>10. 0 \in Nat
    OBVIOUS
  <1> QED
    BY <1>2, <1>7, <1>8, <1>9, <1>10 DEF LineInv

LEMMA NextOneLine ==
    ASSUME ~Blips, ~Drops PROVE Typed /\ OrderInv /\ OneLine /\ [Next]_vars => OneLine'
  <1> SUFFICES ASSUME Typed, OrderInv, OneLine, [Next]_vars, Regime'
               PROVE  \E J, N \in Nat : \E onward \in [Nat -> Event] : LineInv(J, N, onward)'
    BY DEF OneLine
  <1>1. Regime
    BY RegimeIsOld
  <1>2. PICK K \in Nat, M \in Nat, line \in [Nat -> Event] : LineInv(K, M, line)
    BY <1>1 DEF OneLine
  <1>3. CASE \E w \in Writer : StreamStep(w)
    <2>1. PICK w \in Writer : StreamStep(w)
      BY <1>3
    <2>2. StreamStep(First)
      BY <2>1, OnlyFirst
    <2> QED
      BY <1>1, <1>2, <2>2, StreamKeepsLine
  <1>4. CASE \E r \in Reader : ClientStep(r)
    BY <1>1, <1>2, <1>4, ClientKeepsLine DEF Regime
  <1>5. CASE DeleteRow
    BY <1>5 DEF DeleteRow, Regime
  <1>6. CASE ReconcileRow
    <2>1. UNCHANGED <<paused, journal, stream, client>> /\ Sole' = Sole
      BY <1>6 DEF ReconcileRow, Sole
    <2>2. Sole.pc # "idle" /\ First \in Writer
      BY <1>2, ConstantsAssumption DEF LineInv, Carries
    <2>3. /\ Honest(Sole, row', paused', M, line)
          /\ \A c : Told(c, Sole, row, paused, M, line) => Told(c, Sole, row', paused', M, line)
      BY <1>2, <1>6, <2>2, ReconcileHonest DEF LineInv
    <2>4. LineInv(K, M, line)'
      BY <1>2, <2>1, <2>3 DEF LineInv
    <2> QED
      BY <2>4
  <1>7. CASE UNCHANGED vars
    <2>1. LineInv(K, M, line)'
      BY <1>2, <1>7 DEF LineInv, Sole, vars
    <2> QED
      BY <2>1
  <1> QED
    BY <1>3, <1>4, <1>5, <1>6, <1>7 DEF Next

\* While no database call fails and Redis loses nothing, what a message that
\* was not resumed has journalled, buffered, published and shown is one line.
THEOREM OneLineAlways == ASSUME ~Blips, ~Drops PROVE Spec => []OneLine
  <1>1. Init => OneLine
    BY InitOneLine
  <1>2. Typed /\ OrderInv /\ OneLine /\ [Next]_vars => OneLine'
    BY NextOneLine
  <1>3. Spec => []Typed
    BY TypeAlways
  <1>4. Spec => []OrderInv
    BY OrderAlways
  <1> QED
    BY <1>1, <1>2, <1>3, <1>4, PTL DEF Spec

\* A reconnected client of a message that was not resumed is shown each of its
\* events once, in order and without a gap (BatchedJournalWriter, the snapshot
\* and the dedup floor of build_message_event_stream together).
THEOREM ReplayExact == ASSUME ~Blips, ~Drops PROVE Spec => []ReplayIsExact
  <1>1. OneLine => ReplayIsExact
    <2> SUFFICES ASSUME OneLine, NotResumed, NEW r \in Reader, row # "gone",
                        NEW i \in DOMAIN client[r].seen
                 PROVE  client[r].seen[i].no = i
      BY DEF ReplayIsExact
    <2>1. PICK K \in Nat, M \in Nat, line \in [Nat -> Event] : LineInv(K, M, line)
      BY DEF OneLine, Regime
    <2> QED
      BY <2>1 DEF LineInv, Follows
  <1> QED
    BY <1>1, OneLineAlways, PTL

\* No client is told `end` of a message whose answer was not saved, unless it
\* was the pause of a stream that waits to be resumed or was resumed.
THEOREM EndTrue == ASSUME ~Blips, ~Drops PROVE Spec => []EndIsTrue
  <1>1. OneLine => EndIsTrue
    <2> SUFFICES ASSUME OneLine, NEW r \in Reader, client[r].verdict = "end", Regime
                 PROVE  row \in {"complete", "gone"} \/ paused
      BY DEF EndIsTrue, Regime, NotResumed
    <2>1. PICK K \in Nat, M \in Nat, line \in [Nat -> Event] : LineInv(K, M, line)
      BY DEF OneLine
    <2> QED
      BY <2>1 DEF LineInv, Told, Saved
  <1> QED
    BY <1>1, OneLineAlways, PTL
=============================================================================
