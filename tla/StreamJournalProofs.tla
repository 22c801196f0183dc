------------------------- MODULE StreamJournalProofs -------------------------
(***************************************************************************)
(* Proofs about StreamJournal for any writers, readers, numbers of events  *)
(* and batch sizes.                                                        *)
(***************************************************************************)
EXTENDS StreamJournal, FiniteSetTheorems, SequenceTheorems, WellFoundedInduction, TLAPS

\* A writer's thread has committed or tried to, and has not published yet.
Busy == {"publish", "row", "retry", "publishRow"}

\* What the types leave open of one stream.
ShapeOf(s) ==
    /\ s.pc = "idle" => s = IdleStream
    /\ s.pc \in Busy => s.work # <<>>
    /\ s.pc # "ready" => s.buffer = <<>>
    /\ s.stage \in {"aborted", "closed"} => s.buffer = <<>>
    /\ s.pc # "dead" /\ s.stage # "closed" => s.no <= MaxEmits
    /\ s.no = 0 => s.buffer = <<>> /\ s.work = <<>>

Bounded == \E b \in Nat : DOMAIN journal \subseteq 0..b

Shape == Bounded /\ \A w \in Writer : ShapeOf(stream[w])

Typed == TypeOK /\ Shape

-----------------------------------------------------------------------------
\* Smallest and largest numbers

LEMMA LeastExists ==
    ASSUME NEW T \in SUBSET Nat, T # {} PROVE \E x \in T : \A y \in T : x <= y
  <1> DEFINE Less == {ss \in Nat \X Nat : ss[1] < ss[2]}
  <1>1. IsWellFoundedOn(Less, Nat)
    BY NatLessThanWellFounded DEF OpToRel
  <1>2. PICK x \in T : \A y \in T : ~(<<y, x>> \in Less)
    <2> HIDE DEF Less
    <2> QED
      BY <1>1, WFMin
  <1>3. \A y \in T : ~(y < x)
    BY <1>2
  <1> QED
    BY <1>3

LEMMA MinIs ==
    ASSUME NEW T \in SUBSET Nat, T # {} PROVE Min(T) \in T /\ \A y \in T : Min(T) <= y
  BY LeastExists DEF Min

LEMMA GreatestExists ==
    ASSUME NEW T \in SUBSET Nat, T # {}, NEW b \in Nat, \A y \in T : y <= b
    PROVE  \E x \in T : \A y \in T : y <= x
  <1> DEFINE U == {n \in Nat : \A y \in T : y <= n}
  <1>1. b \in U /\ U \in SUBSET Nat
    OBVIOUS
  <1>2. PICK x \in U : \A n \in U : x <= n
    BY <1>1, LeastExists
  <1>3. x \in T
    <2>1. SUFFICES ASSUME x \notin T PROVE FALSE
      OBVIOUS
    <2>2. \A y \in T : y < x
      BY <2>1, <1>2
    <2>3. PICK y \in T : y < x
      BY <2>2
    <2>4. x - 1 \in Nat /\ \A z \in T : z <= x - 1
      BY <2>2, <2>3
    <2> QED
      BY <2>4, <1>2
  <1> QED
    BY <1>2, <1>3

\* Latest is the greatest number in the journal, or -1.
LEMMA LatestIs ==
    ASSUME Bounded
    PROVE  Latest \in DOMAIN journal \cup {-1} /\ \A n \in DOMAIN journal : n <= Latest
  <1>1. PICK b \in Nat : DOMAIN journal \subseteq 0..b
    BY DEF Bounded
  <1>2. \E x \in DOMAIN journal \cup {-1} : \A y \in DOMAIN journal \cup {-1} : x >= y
    <2>1. CASE DOMAIN journal = {}
      BY <2>1
    <2>2. CASE DOMAIN journal # {}
      <3> DEFINE D == DOMAIN journal
      <3>1. D \in SUBSET Nat /\ D # {} /\ \A y \in D : y <= b
        BY <1>1, <2>2
      <3> HIDE DEF D
      <3>2. PICK x \in D : \A y \in D : y <= x
        BY <3>1, GreatestExists
      <3>3. \A y \in D \cup {-1} : x >= y
        BY <3>1, <3>2
      <3> QED
        BY <3>2, <3>3 DEF D
    <2> QED
      BY <2>1, <2>2
  <1>3. /\ Latest \in DOMAIN journal \cup {-1}
        /\ \A y \in DOMAIN journal \cup {-1} : Latest >= y
    BY <1>2 DEF Latest, Max
  <1> QED
    BY <1>1, <1>3

LEMMA NextNumberTyped == ASSUME Bounded PROVE Latest + 1 \in Nat
  BY LatestIs DEF Bounded

-----------------------------------------------------------------------------
\* The backlog

\* In a finite set of numbers there is one of every rank.
LEMMA RankExists ==
    ASSUME NEW b \in Nat, NEW T \in SUBSET (0..b), NEW i \in 1..Cardinality(T)
    PROVE  \E n \in T : Cardinality({m \in T : m <= n}) = i
  <1> DEFINE Below(n) == {m \in T : m <= n}
             R(n) == Cardinality(Below(n))
             U == {n \in Nat : R(n) >= i}
  <1>1. IsFiniteSet(T) /\ Cardinality(T) \in Nat
    <2>1. IsFiniteSet(0..b)
      BY FS_Interval
    <2> QED
      BY <2>1, FS_Subset, FS_CardinalityType
  <1>2. \A n \in Nat : IsFiniteSet(Below(n)) /\ R(n) \in Nat
    BY <1>1, FS_Subset, FS_CardinalityType
  <1>3. b \in U
    <2>1. \A m \in T : m <= b
      OBVIOUS
    <2>2. Below(b) = T
      BY <2>1
    <2> QED
      BY <2>2, <1>1
  <1>4. PICK x \in U : \A n \in U : x <= n
    BY <1>3, LeastExists
  <1>5. CASE x = 0
    <2>1. Below(0) = {} \/ (Below(0) = {0} /\ 0 \in T)
      <3>1. \A m \in T : m <= 0 => m = 0
        OBVIOUS
      <3>2. CASE 0 \in T
        BY <3>1, <3>2
      <3>3. CASE 0 \notin T
        BY <3>1, <3>3
      <3> QED
        BY <3>2, <3>3
    <2>2. R(0) >= i /\ i \in Nat /\ i >= 1
      BY <1>1, <1>4, <1>5
    <2>3. CASE Below(0) = {}
      <3>1. R(0) = 0
        BY <2>3, FS_EmptySet
      <3> QED
        BY <3>1, <2>2
    <2>4. CASE Below(0) = {0} /\ 0 \in T
      <3>1. R(0) = 1
        BY <2>4, FS_Singleton
      <3>2. R(0) = i
        BY <3>1, <2>2
      <3> QED
        BY <3>2, <2>4
    <2> QED
      BY <2>1, <2>3, <2>4
  <1>6. CASE x # 0
    <2>0. x \in Nat /\ x # 0
      BY <1>4, <1>6
    <2>1. x - 1 \in Nat /\ x - 1 \notin U
      <3> HIDE DEF U
      <3>1. x - 1 \in Nat /\ ~(x <= x - 1)
        BY <2>0
      <3> QED
        BY <3>1, <1>4
    <2>2. R(x - 1) < i /\ R(x - 1) \in Nat /\ R(x) >= i /\ R(x) \in Nat
      <3>1. R(x - 1) \in Nat /\ R(x) \in Nat /\ i \in Nat
        <4>1. i \in Nat
          BY <1>1
        <4>2. R(x) \in Nat
          BY <2>0, <1>2
        <4>3. R(x - 1) \in Nat
          BY <2>1, <1>2
        <4> QED
          BY <4>1, <4>2, <4>3
      <3>2. ~(R(x - 1) >= i) /\ R(x) >= i
        BY <2>1, <1>4
      <3> HIDE DEF R
      <3> QED
        BY <3>1, <3>2
    <2>3. \A m \in T : m <= x <=> m <= x - 1 \/ m = x
      BY <2>1
    <2>4. CASE x \notin T
      <3>1. Below(x) = Below(x - 1)
        BY <2>3, <2>4
      <3>2. R(x) = R(x - 1)
        BY <3>1
      <3> HIDE DEF R
      <3> QED
        BY <3>2, <2>2, <1>1
    <2>5. CASE x \in T
      <3>1. Below(x) = Below(x - 1) \cup {x}
        BY <2>3, <2>5
      <3>2. x \notin Below(x - 1)
        BY <2>1
      <3>3. R(x) = R(x - 1) + 1
        <4> HIDE DEF Below
        <4> QED
          BY <3>1, <3>2, <2>1, <1>2, FS_AddElement
      <3>4. R(x) = i
        <4> HIDE DEF R
        <4> QED
          BY <3>3, <2>2, <1>1
      <3> QED
        BY <3>4, <2>5
    <2> QED
      BY <2>4, <2>5
  <1> QED
    BY <1>5, <1>6

\* The numbers past the cursor.
Later(cursor) == {n \in DOMAIN journal : n > cursor}

LEMMA BacklogTyped ==
    ASSUME Bounded, NEW cursor
    PROVE  /\ Backlog(cursor) \in Seq(DOMAIN journal)
           /\ \A i \in DOMAIN Backlog(cursor) : Backlog(cursor)[i] \in Later(cursor)
  <1> DEFINE T == Later(cursor)
             At(i) == CHOOSE n \in T : Cardinality({m \in T : m <= n}) = i
  <1>1. PICK b \in Nat : T \in SUBSET (0..b) /\ T \subseteq DOMAIN journal
    BY DEF Bounded, Later
  <1>2. Cardinality(T) \in Nat
    <2> HIDE DEF T
    <2>1. IsFiniteSet(0..b)
      BY FS_Interval
    <2> QED
      BY <2>1, <1>1, FS_Subset, FS_CardinalityType
  <1>3. Backlog(cursor) = [i \in 1..Cardinality(T) |-> At(i)]
    BY DEF Backlog, Later
  <1>4. \A i \in 1..Cardinality(T) : At(i) \in T
    BY <1>1, RankExists
  <1> HIDE DEF T, At
  <1>5. DOMAIN Backlog(cursor) = 1..Cardinality(T)
    BY <1>3
  <1>6. \A i \in 1..Cardinality(T) : Backlog(cursor)[i] \in T
    BY <1>3, <1>4
  <1>7. Backlog(cursor) \in Seq(DOMAIN journal)
    <2>1. \A i \in 1..Cardinality(T) : Backlog(cursor)[i] \in DOMAIN journal
      BY <1>1, <1>6
    <2>2. \A i \in 1..Cardinality(T) : At(i) \in DOMAIN journal
      BY <1>1, <1>4
    <2>3. [i \in 1..Cardinality(T) |-> At(i)] \in [1..Cardinality(T) -> DOMAIN journal]
      BY <2>2
    <2>4. [i \in 1..Cardinality(T) |-> At(i)] \in Seq(DOMAIN journal)
      BY <2>3, <1>2, SeqDef
    <2> QED
      BY <2>4, <1>3
  <1> QED
    BY <1>5, <1>6, <1>7 DEF T

\* The numbers of the journal are 0..(K-1).
Dense(K) == DOMAIN journal = 0..(K - 1)

LEMMA BacklogOfDense ==
    ASSUME NEW K \in Nat, Dense(K), NEW cursor \in Nat
    PROVE  /\ Len(Backlog(cursor)) = IF cursor < K THEN K - 1 - cursor ELSE 0
           /\ \A i \in 1..Len(Backlog(cursor)) : Backlog(cursor)[i] = cursor + i
           /\ Backlog(cursor) \in Seq(Nat)
  <1> DEFINE T == Later(cursor)
             At(i) == CHOOSE n \in T : Cardinality({m \in T : m <= n}) = i
             L == IF cursor < K THEN K - 1 - cursor ELSE 0
  <1>1. T = (cursor + 1)..(K - 1)
    BY DEF Dense, Later
  <1>2. Cardinality(T) = L /\ L \in Nat
    <2>1. cursor + 1 \in Int /\ K - 1 \in Int
      OBVIOUS
    <2>2. Cardinality((cursor + 1)..(K - 1)) =
            IF cursor + 1 > K - 1 THEN 0 ELSE (K - 1) - (cursor + 1) + 1
      BY <2>1, FS_Interval
    <2> HIDE DEF T
    <2> QED
      BY <2>2, <1>1
  <1>3. Backlog(cursor) = [i \in 1..L |-> At(i)]
    BY <1>2 DEF Backlog, Later
  <1>4. ASSUME NEW i \in 1..L PROVE At(i) = cursor + i
    <2>1. \A n \in T : {m \in T : m <= n} = (cursor + 1)..n
      BY <1>1
    <2>2. \A n \in T : Cardinality({m \in T : m <= n}) = n - cursor
      <3>1. TAKE n \in T
      <3>2. n \in Int /\ ~(cursor + 1 > n)
        BY <1>1
      <3>3. Cardinality((cursor + 1)..n) = n - cursor
        BY <3>2, FS_Interval
      <3> QED
        BY <2>1, <3>3
    <2>3. cursor + i \in T
      BY <1>1
    <2> HIDE DEF T
    <2>4. \A n \in T : Cardinality({m \in T : m <= n}) = i <=> n = cursor + i
      <3>1. \A n \in T : n \in Int
        BY <1>1
      <3> QED
        BY <2>2, <3>1
    <2> QED
      BY <2>3, <2>4
  <1> HIDE DEF T, At, L
  <1>5. Backlog(cursor) = [i \in 1..L |-> cursor + i]
    BY <1>3, <1>4
  <1>6. L = IF cursor < K THEN K - 1 - cursor ELSE 0
    BY DEF L
  <1>7. [i \in 1..L |-> cursor + i] \in Seq(Nat)
    BY <1>2
  <1> QED
    BY <1>2, <1>5, <1>6, <1>7

-----------------------------------------------------------------------------
\* Types

LEMMA FiniteIsBounded ==
    ASSUME NEW T \in SUBSET Nat, IsFiniteSet(T) PROVE \E b \in Nat : \A y \in T : y <= b
  <1> DEFINE Peak(U) == \E b \in Nat : \A y \in U : y <= b
             Bad == {U \in FiniteSubsetsOf(Nat) : ~Peak(U)}
  <1>1. SUFFICES ASSUME Bad # {} PROVE FALSE
    <2>1. T \in FiniteSubsetsOf(Nat)
      BY DEF FiniteSubsetsOf
    <2> QED
      BY <2>1
  <1>2. PICK U \in Bad : \A V \in Bad : ~(<<V, U>> \in StrictSubsetOrdering(Nat))
    <2> HIDE DEF Bad
    <2>1. Bad \subseteq FiniteSubsetsOf(Nat)
      BY DEF Bad
    <2> QED
      BY <1>1, <2>1, FS_StrictSubsetOrderingWellFounded, WFMin
  <1>3. U \in SUBSET Nat /\ IsFiniteSet(U) /\ ~Peak(U)
    BY <1>2 DEF FiniteSubsetsOf
  <1>4. PICK x \in U : TRUE
    <2>1. Peak({})
      OBVIOUS
    <2> QED
      BY <1>3, <2>1
  <1> DEFINE V == U \ {x}
  <1>5. V \in FiniteSubsetsOf(Nat) /\ <<V, U>> \in StrictSubsetOrdering(Nat)
    BY <1>3, <1>4, FS_RemoveElement DEF FiniteSubsetsOf, StrictSubsetOrdering
  <1>6. PICK b \in Nat : \A y \in V : y <= b
    BY <1>2, <1>5
  <1>7. x \in Nat
    BY <1>3, <1>4
  <1>8. \A y \in U : y \in Nat /\ (y = x \/ y <= b)
    BY <1>3, <1>6
  <1>9. Peak(U)
    <2>1. CASE x <= b
      BY <1>8, <2>1
    <2>2. CASE ~(x <= b)
      <3>1. \A y \in U : y <= x
        BY <1>7, <1>8, <2>2
      <3> QED
        BY <1>7, <3>1
    <2> QED
      BY <2>1, <2>2
  <1> QED
    BY <1>3, <1>9

JournalTyped ==
    /\ DOMAIN journal \subseteq Nat
    /\ \A n \in DOMAIN journal : journal[n] \in Event
    /\ Bounded

\* The numbers of a batch.
Numbers(frames) == {frames[i].at : i \in DOMAIN frames}

LEMMA InsertedIs ==
    ASSUME JournalTyped, NEW frames \in Seq(Frame)
    PROVE  /\ DOMAIN Inserted(frames) = DOMAIN journal \cup Numbers(frames)
           /\ \A n \in DOMAIN journal : Inserted(frames)[n] = journal[n]
           /\ \A n \in Numbers(frames) \ DOMAIN journal :
                \E i \in DOMAIN frames : frames[i].at = n /\ Inserted(frames)[n] = frames[i].event
  BY DEF Inserted, Numbers

LEMMA InsertedTyped ==
    ASSUME JournalTyped, NEW frames \in Seq(Frame), journal' = Inserted(frames)
    PROVE  JournalTyped'
  <1>1. \A i \in DOMAIN frames : frames[i] \in Frame
    OBVIOUS
  <1>2. \A i \in DOMAIN frames : frames[i].at \in Nat /\ frames[i].event \in Event
    BY <1>1 DEF Frame
  <1>3. Numbers(frames) \in SUBSET Nat
    BY <1>2 DEF Numbers
  <1>4. IsFiniteSet(Numbers(frames))
    <2> DEFINE f == [i \in 1..Len(frames) |-> frames[i].at]
    <2>1. f \in Surjection(1..Len(frames), Numbers(frames))
      BY DEF Surjection, Numbers
    <2>2. IsFiniteSet(1..Len(frames))
      BY FS_Interval
    <2> QED
      BY <2>1, <2>2, FS_Surjection
  <1>5. PICK b \in Nat : \A y \in Numbers(frames) : y <= b
    BY <1>3, <1>4, FiniteIsBounded
  <1>6. PICK d \in Nat : DOMAIN journal \subseteq 0..d
    BY DEF JournalTyped, Bounded
  <1>7. DOMAIN journal' \subseteq 0..(b + d)
    <2>1. \A n \in DOMAIN journal : n \in 0..(b + d)
      BY <1>6
    <2>2. \A n \in Numbers(frames) : n \in 0..(b + d)
      BY <1>3, <1>5
    <2> QED
      BY <2>1, <2>2, InsertedIs
  <1>8. b + d \in Nat
    OBVIOUS
  <1>9. \A n \in DOMAIN journal' : journal'[n] \in Event
    <2>1. /\ DOMAIN journal' = DOMAIN journal \cup Numbers(frames)
          /\ \A n \in DOMAIN journal : journal'[n] = journal[n]
          /\ \A n \in Numbers(frames) \ DOMAIN journal :
               \E i \in DOMAIN frames : journal'[n] = frames[i].event
      BY InsertedIs
    <2> QED
      BY <2>1, <1>2 DEF JournalTyped
  <1> QED
    BY <1>7, <1>8, <1>9 DEF JournalTyped, Bounded

\* Every field may be set to a value of its type.
LEMMA StreamFields ==
    ASSUME NEW s \in StreamState
    PROVE  /\ \A v \in {"idle", "ready", "dead"} \cup Busy : [s EXCEPT !.pc = v] \in StreamState
           /\ \A v \in {"streaming", "pausing", "finished", "failed", "aborted", "closed"} :
                [s EXCEPT !.stage = v] \in StreamState
           /\ \A v \in Nat : /\ [s EXCEPT !.base = v] \in StreamState
                            /\ [s EXCEPT !.next = v] \in StreamState
                            /\ [s EXCEPT !.at = v] \in StreamState
           /\ \A v \in 0..(MaxEmits + 1) : [s EXCEPT !.no = v] \in StreamState
           /\ \A v \in Seq(Frame) : /\ [s EXCEPT !.buffer = v] \in StreamState
                                   /\ [s EXCEPT !.work = v] \in StreamState
           /\ \A v \in BOOLEAN : /\ [s EXCEPT !.single = v] \in StreamState
                                /\ [s EXCEPT !.latched = v] \in StreamState
                                /\ [s EXCEPT !.errored = v] \in StreamState
           /\ \A v \in {"fresh", "due", "late"} : [s EXCEPT !.age = v] \in StreamState
  BY ZenonT(40) DEF StreamState, Busy

LEMMA IdleStreamTyped == IdleStream \in StreamState
  <1>1. <<>> \in Seq(Frame) /\ 0 \in 0..(MaxEmits + 1)
    BY ConstantsAssumption
  <1> QED
    BY <1>1 DEF IdleStream, StreamState

\* One stream becomes t.
Becomes(w, t) == stream' = [stream EXCEPT ![w] = t]

StreamTyped(s) == s \in StreamState /\ ShapeOf(s)

\* A writer before a flush: its buffer may hold the last event.
Unflushed(s) ==
    /\ s \in StreamState
    /\ s.pc = "ready"
    /\ s.stage # "closed" => s.no <= MaxEmits
    /\ s.no = 0 => s.buffer = <<>> /\ s.work = <<>>

LEMMA FlushTyped ==
    ASSUME Typed, JournalTyped, NEW w \in Writer, NEW s, Unflushed(s), Flush(w, s)
    PROVE  JournalTyped' /\ \E t : StreamTyped(t) /\ Becomes(w, t)
  <1> DEFINE clear == [s EXCEPT !.buffer = <<>>, !.age = "fresh"]
             full == [clear EXCEPT !.work = s.buffer,
                        !.pc = IF Collides(s.buffer) THEN "row" ELSE "publish"]
             latch == [clear EXCEPT !.latched = TRUE]
  <1>1. clear \in StreamState /\ latch \in StreamState /\ full \in StreamState
    <2>1. s \in StreamState /\ s.buffer \in Seq(Frame) /\ <<>> \in Seq(Frame)
      BY DEF Unflushed, StreamState
    <2>2. clear \in StreamState
      BY <2>1, StreamFields
    <2>3. latch \in StreamState
      <3> HIDE DEF clear
      <3> QED
        BY <2>2, StreamFields
    <2>4. full \in StreamState
      <3> HIDE DEF clear
      <3> QED
        BY <2>1, <2>2, StreamFields DEF Busy
    <2> QED
      BY <2>2, <2>3, <2>4
  <1>2. ShapeOf(clear) /\ ShapeOf(latch)
    BY DEF Unflushed, StreamState, ShapeOf, IdleStream, Busy
  <1>3. s.buffer # <<>> => ShapeOf(full)
    BY DEF Unflushed, StreamState, ShapeOf, Busy
  <1>4. s.buffer \in Seq(Frame)
    BY DEF Unflushed, StreamState
  <1>5. \/ journal' = journal
        \/ journal' = Inserted(s.buffer)
    BY DEF Flush, BulkRecorded
  <1>6. JournalTyped'
    BY <1>4, <1>5, InsertedTyped DEF JournalTyped, Bounded
  <1>7. \/ Becomes(w, clear)
        \/ Becomes(w, latch)
        \/ s.buffer # <<>> /\ Becomes(w, full)
    BY DEF Flush, Becomes
  <1> QED
    BY <1>1, <1>2, <1>3, <1>6, <1>7 DEF StreamTyped

LEMMA AppendedTyped ==
    ASSUME Typed, NEW w \in Writer, stream[w].pc = "ready", stream[w].stage # "closed",
           NEW ends \in {"no", "end", "error"}
    PROVE  /\ Appended(w, ends) \in StreamState
           /\ Appended(w, ends).pc = "ready"
           /\ Appended(w, ends).no = stream[w].no + 1
           /\ Appended(w, ends).stage = stream[w].stage
  <1> DEFINE s == stream[w]
             frame == [at |-> s.next, event |-> [by |-> w, no |-> s.no + 1, ends |-> ends]]
             buffer == IF s.latched THEN s.buffer ELSE Append(s.buffer, frame)
  <1>1. s \in StreamState /\ s.no <= MaxEmits /\ MaxEmits \in Nat
    BY ConstantsAssumption DEF Typed, TypeOK, Shape, ShapeOf
  <1>2. frame \in Frame
    BY <1>1 DEF StreamState, Frame, Event
  <1>3. Append(s.buffer, frame) \in Seq(Frame) /\ s.buffer \in Seq(Frame)
    BY <1>1, <1>2 DEF StreamState
  <1>4. Appended(w, ends) =
          [s EXCEPT !.next = s.next + 1, !.no = s.no + 1,
                    !.buffer = buffer]
    BY DEF Appended
  <1>5. s.next + 1 \in Nat /\ s.no + 1 \in 0..(MaxEmits + 1)
    BY <1>1, SMTT(30) DEF StreamState
  <1>6. buffer \in Seq(Frame)
    BY <1>3
  <1> HIDE DEF buffer
  <1>7. Appended(w, ends) \in StreamState
    <2> HIDE DEF s
    <2>1. [s EXCEPT !.next = s.next + 1] \in StreamState
      BY <1>1, <1>5, StreamFields
    <2> DEFINE t == [s EXCEPT !.next = s.next + 1, !.no = s.no + 1]
    <2>2. t \in StreamState
      BY <2>1, <1>5, StreamFields
    <2>3. Appended(w, ends) = [t EXCEPT !.buffer = buffer]
      BY <1>4
    <2> HIDE DEF t
    <2>4. [t EXCEPT !.buffer = buffer] \in StreamState
      BY <2>2, <1>6, StreamFields
    <2> QED
      BY <2>3, <2>4
  <1>8. /\ Appended(w, ends).pc = s.pc
        /\ Appended(w, ends).no = s.no + 1
        /\ Appended(w, ends).stage = s.stage
    BY <1>1, <1>4 DEF StreamState
  <1> QED
    BY <1>7, <1>8

LEMMA StreamIs ==
    ASSUME Typed, NEW w \in Writer
    PROVE  StreamTyped(stream[w]) /\ JournalTyped
  BY DEF Typed, TypeOK, Shape, StreamTyped, JournalTyped

EventFrame(w, ends) ==
    [at |-> stream[w].next, event |-> [by |-> w, no |-> stream[w].no + 1, ends |-> ends]]

\* Fields that no step but Resume sets.
Keeps(s, t) == t.base = s.base /\ t.latched = s.latched

\* The stream w was handed one more event and is u, before any flush.
Handed(w, u, ends) ==
    LET s == stream[w] IN
    /\ u.next = s.next + 1
    /\ u.no = s.no + 1
    /\ u.buffer = IF s.latched THEN s.buffer ELSE Append(s.buffer, EventFrame(w, ends))

\* Which events are sent in which stage.
Sends(w, u, ends) ==
    LET s == stream[w] IN
    \/ /\ s.stage = "streaming" /\ ends = "no" /\ u.errored = s.errored
       /\ u.stage = "streaming" \/ (u.stage = "pausing" /\ paused')
    \/ s.stage = "streaming" /\ ends = "error" /\ u.errored /\ u.stage = "streaming"
    \/ /\ s.stage \in {"pausing", "finished", "failed"}
       /\ u.stage = "closed"
       /\ u.errored = s.errored
       /\ ends = IF s.stage = "failed" THEN "error" ELSE "end"

\* Nothing was sent: the writer is drained.
Drains(w, u) ==
    LET s == stream[w] IN
    /\ u.next = s.next /\ u.no = s.no /\ u.buffer = s.buffer /\ u.errored = s.errored
    /\ u.stage \in {"aborted", "closed"}
    /\ u.stage = "closed" => row = "gone"

Write(w) == Emit(w) \/ AgentError(w) \/ Pause(w) \/ Close(w) \/ Abort(w) \/ Superseded(w)

LEMMA AppendedIs ==
    ASSUME Typed, NEW w \in Writer, stream[w].pc = "ready", stream[w].stage # "closed",
           NEW ends \in {"no", "end", "error"}
    PROVE  /\ Handed(w, Appended(w, ends), ends)
           /\ Keeps(stream[w], Appended(w, ends))
           /\ Appended(w, ends).errored = stream[w].errored
           /\ Appended(w, ends).work = stream[w].work
  <1> DEFINE s == stream[w]
             buffer == IF s.latched THEN s.buffer ELSE Append(s.buffer, EventFrame(w, ends))
  <1>1. s \in StreamState
    BY StreamIs DEF StreamTyped
  <1>2. Appended(w, ends) =
          [s EXCEPT !.next = s.next + 1, !.no = s.no + 1, !.buffer = buffer]
    BY DEF Appended, EventFrame
  <1> HIDE DEF buffer
  <1>3. /\ Appended(w, ends).next = s.next + 1 /\ Appended(w, ends).no = s.no + 1
        /\ Appended(w, ends).buffer = buffer /\ Appended(w, ends).errored = s.errored
        /\ Appended(w, ends).work = s.work
        /\ Appended(w, ends).base = s.base /\ Appended(w, ends).latched = s.latched
    <2> HIDE DEF s
    <2> QED
      BY <1>1, <1>2 DEF StreamState
  <1> QED
    BY <1>3 DEF Handed, Keeps, buffer

\* A write: what is handed over, then held in the buffer or flushed.
LEMMA WriteIs ==
    ASSUME Typed, NEW w \in Writer, Write(w)
    PROVE  /\ stream[w].pc = "ready"
           /\ stream[w].stage \notin {"aborted", "closed"}
           /\ row' = row /\ client' = client /\ paused' \in {paused, TRUE}
           /\ \E u \in StreamState :
                /\ Unflushed(u) /\ Keeps(stream[w], u)
                /\ \/ Flush(w, u)
                   \/ /\ Becomes(w, u) /\ UNCHANGED journal
                      /\ u.stage \notin {"aborted", "closed"}
                /\ \/ \E ends \in {"no", "end", "error"} : Handed(w, u, ends) /\ Sends(w, u, ends)
                   \/ Drains(w, u)
  <1> DEFINE s == stream[w]
  <1>0. /\ s.pc = "ready" /\ s.stage \notin {"aborted", "closed"}
        /\ row' = row /\ client' = client /\ paused' \in {paused, TRUE}
    BY DEF Write, Emit, AgentError, Pause, Close, Abort, Superseded, Ready
  <1>1. /\ s \in StreamState /\ ShapeOf(s)
        /\ s.no \in Nat /\ MaxEmits \in Nat
    BY StreamIs, ConstantsAssumption DEF StreamTyped, StreamState
  <1>2. \A e : Record(w, e) => Flush(w, e) \/ (Becomes(w, e) /\ UNCHANGED journal)
    BY DEF Record, Becomes
  <1> DEFINE Out(u) == /\ Unflushed(u) /\ Keeps(s, u)
                       /\ \/ Flush(w, u)
                          \/ /\ Becomes(w, u) /\ UNCHANGED journal
                             /\ u.stage \notin {"aborted", "closed"}
  <1>3. CASE Emit(w)
    <2> DEFINE a == Appended(w, "no")
    <2>1. a \in StreamState /\ a.pc = "ready" /\ a.no = s.no + 1 /\ a.stage = "streaming"
      BY <1>3, AppendedTyped DEF Emit, Ready
    <2>2. Handed(w, a, "no") /\ Keeps(s, a) /\ a.errored = s.errored
      BY <1>0, AppendedIs
    <2>3. Unflushed(a)
      BY <1>1, <1>3, <2>1 DEF Emit, Unflushed
    <2>4. Out(a)
      BY <1>2, <1>3, <2>1, <2>2, <2>3 DEF Emit
    <2>5. Sends(w, a, "no")
      BY <1>3, <2>1, <2>2 DEF Emit, Ready, Sends
    <2> QED
      BY <1>0, <2>1, <2>2, <2>4, <2>5
  <1>4. CASE AgentError(w)
    <2> DEFINE a == Appended(w, "error")
               e == [a EXCEPT !.errored = TRUE]
    <2>1. a \in StreamState /\ a.pc = "ready" /\ a.no = s.no + 1 /\ a.stage = "streaming"
      BY <1>4, AppendedTyped DEF AgentError, Ready
    <2>2. Handed(w, a, "error") /\ Keeps(s, a)
      BY <1>0, AppendedIs
    <2>3. e \in StreamState
      <3> HIDE DEF a
      <3> QED
        BY <2>1, StreamFields
    <2>4. /\ e.pc = "ready" /\ e.no = a.no /\ e.stage = "streaming" /\ e.errored
          /\ e.next = a.next /\ e.buffer = a.buffer /\ e.base = a.base /\ e.latched = a.latched
      <3> HIDE DEF a, s
      <3> QED
        BY <2>1 DEF StreamState
    <2>5. Unflushed(e)
      BY <1>1, <1>4, <2>1, <2>3, <2>4 DEF AgentError, Unflushed
    <2>6. Record(w, e)
      BY <1>4 DEF AgentError
    <2>7. s.stage = "streaming"
      BY <1>4 DEF AgentError, Ready
    <2> HIDE DEF e, a
    <2>8. Handed(w, e, "error") /\ Sends(w, e, "error") /\ Keeps(s, e)
      BY <2>2, <2>4, <2>7 DEF Handed, Sends, Keeps
    <2> QED
      BY <1>0, <1>2, <2>3, <2>4, <2>5, <2>6, <2>8
  <1>5. CASE Pause(w)
    <2> DEFINE a == Appended(w, "no")
               e == [a EXCEPT !.stage = "pausing"]
    <2>1. a \in StreamState /\ a.pc = "ready" /\ a.no = s.no + 1
      BY <1>5, AppendedTyped DEF Pause, Ready
    <2>2. Handed(w, a, "no") /\ Keeps(s, a) /\ a.errored = s.errored
      BY <1>0, AppendedIs
    <2>3. e \in StreamState
      <3> HIDE DEF a
      <3> QED
        BY <2>1, StreamFields
    <2>4. /\ e.pc = "ready" /\ e.no = a.no /\ e.stage = "pausing" /\ e.errored = a.errored
          /\ e.next = a.next /\ e.buffer = a.buffer /\ e.base = a.base /\ e.latched = a.latched
      <3> HIDE DEF a, s
      <3> QED
        BY <2>1 DEF StreamState
    <2>5. Unflushed(e)
      BY <1>1, <1>5, <2>1, <2>3, <2>4 DEF Pause, Unflushed
    <2>6. Record(w, e) /\ s.stage = "streaming" /\ paused'
      BY <1>5 DEF Pause, Ready
    <2> HIDE DEF e, a
    <2>7. Handed(w, e, "no") /\ Sends(w, e, "no") /\ Keeps(s, e)
      BY <2>2, <2>4, <2>6 DEF Handed, Sends, Keeps
    <2> QED
      BY <1>0, <1>2, <2>3, <2>4, <2>5, <2>6, <2>7
  <1>6. CASE Close(w)
    <2> DEFINE ends == IF s.stage = "failed" THEN "error" ELSE "end"
               a == Appended(w, ends)
               e == [a EXCEPT !.stage = "closed"]
    <2>1. a \in StreamState /\ a.pc = "ready" /\ a.no = s.no + 1
      BY <1>6, AppendedTyped DEF Close, Ready
    <2>2. Handed(w, a, ends) /\ Keeps(s, a) /\ a.errored = s.errored
      BY <1>0, AppendedIs
    <2>3. e \in StreamState
      <3> HIDE DEF a
      <3> QED
        BY <2>1, StreamFields
    <2>4. /\ e.pc = "ready" /\ e.no = a.no /\ e.stage = "closed" /\ e.errored = a.errored
          /\ e.next = a.next /\ e.buffer = a.buffer /\ e.base = a.base /\ e.latched = a.latched
      <3> HIDE DEF a, s
      <3> QED
        BY <2>1 DEF StreamState
    <2>5. Unflushed(e)
      BY <1>1, <2>1, <2>3, <2>4 DEF Unflushed
    <2>6. Flush(w, e) /\ s.stage \in {"pausing", "finished", "failed"}
      BY <1>6 DEF Close, Ready
    <2> HIDE DEF e, a
    <2>7. Handed(w, e, ends) /\ Sends(w, e, ends) /\ Keeps(s, e)
      BY <2>2, <2>4, <2>6 DEF Handed, Sends, Keeps
    <2> QED
      BY <1>0, <2>3, <2>5, <2>6, <2>7
  <1>7. CASE Abort(w) \/ Superseded(w)
    <2>1. PICK v \in {"aborted", "closed"} :
            /\ Flush(w, [s EXCEPT !.stage = v])
            /\ v = "closed" => row = "gone"
      BY <1>7 DEF Abort, Superseded
    <2> DEFINE e == [s EXCEPT !.stage = v]
    <2>2. e \in StreamState
      <3> HIDE DEF s
      <3> QED
        BY <1>1, StreamFields
    <2>3. /\ e.pc = s.pc /\ e.no = s.no /\ e.stage = v /\ e.errored = s.errored
          /\ e.next = s.next /\ e.buffer = s.buffer /\ e.base = s.base /\ e.latched = s.latched
          /\ e.work = s.work
      <3> HIDE DEF s
      <3> QED
        BY <1>1 DEF StreamState
    <2>4. Unflushed(e)
      BY <1>0, <1>1, <2>2, <2>3 DEF Unflushed, ShapeOf
    <2> HIDE DEF e
    <2>5. Drains(w, e) /\ Keeps(s, e)
      BY <2>1, <2>3 DEF Drains, Keeps
    <2> QED
      BY <1>0, <2>1, <2>2, <2>4, <2>5 DEF e
  <1> QED
    BY <1>3, <1>4, <1>5, <1>6, <1>7 DEF Write

LEMMA WriteTyped ==
    ASSUME Typed, NEW w \in Writer, Write(w)
    PROVE  JournalTyped' /\ \E t : StreamTyped(t) /\ Becomes(w, t)
  <1>1. PICK u : /\ Unflushed(u)
                 /\ \/ Flush(w, u)
                    \/ /\ Becomes(w, u) /\ UNCHANGED journal
                       /\ u.stage \notin {"aborted", "closed"}
    BY WriteIs
  <1>2. JournalTyped
    BY StreamIs
  <1>3. CASE Flush(w, u)
    BY <1>1, <1>2, <1>3, FlushTyped
  <1>4. CASE Becomes(w, u) /\ UNCHANGED journal /\ u.stage \notin {"aborted", "closed"}
    BY <1>1, <1>2, <1>4 DEF StreamTyped, Unflushed, ShapeOf, StreamState, Busy, JournalTyped, Bounded
  <1> QED
    BY <1>1, <1>3, <1>4

LEMMA LongTail ==
    ASSUME NEW S, NEW q \in Seq(S), Len(q) > 1 PROVE Tail(q) # <<>>
  <1> DEFINE rest == Tail(q)
  <1>1. rest \in Seq(S) /\ Len(rest) = Len(q) - 1 /\ Len(q) \in Nat
    BY q # <<>>
  <1> HIDE DEF rest
  <1>2. Len(rest) # 0
    BY <1>1
  <1>3. rest # <<>>
    BY <1>1, <1>2
  <1> QED
    BY <1>3 DEF rest

\* What is left of a batch when its first event is done with.
LEMMA PoppedTyped ==
    ASSUME NEW s \in StreamState, s.work # <<>>, s.buffer = <<>>, NEW pc \in {"publish", "row"},
           s.stage # "closed" => s.no <= MaxEmits, s.no # 0
    PROVE  StreamTyped(Popped(s, pc))
  <1> DEFINE end == IF Len(s.work) > 1 THEN pc ELSE "ready"
             one == [s EXCEPT !.work = Tail(s.work)]
             two == [one EXCEPT !.single = FALSE]
             t == [two EXCEPT !.pc = end]
  <1>1. s.work \in Seq(Frame) /\ Tail(s.work) \in Seq(Frame)
    BY DEF StreamState
  <1>2. Len(s.work) > 1 => Tail(s.work) # <<>>
    BY <1>1, LongTail
  <1>3. one \in StreamState
    BY <1>1, StreamFields
  <1>4. two \in StreamState
    <2> HIDE DEF one
    <2> QED
      BY <1>3, StreamFields
  <1>5. end \in {"ready"} \cup Busy
    BY DEF Busy
  <1>6. t \in StreamState
    <2> HIDE DEF two, end
    <2> QED
      BY <1>4, <1>5, StreamFields
  <1>7. Popped(s, pc) = t
    BY DEF Popped
  <1>8. /\ t.pc = end /\ t.work = Tail(s.work) /\ t.buffer = <<>>
        /\ t.no = s.no /\ t.stage = s.stage
    <2> HIDE DEF end
    <2> QED
      BY DEF StreamState
  <1>9. ShapeOf(t)
    <2> HIDE DEF t
    <2> QED
      BY <1>2, <1>8 DEF ShapeOf, Busy
  <1> QED
    BY <1>6, <1>7, <1>9 DEF StreamTyped

LEMMA CommitTyped ==
    ASSUME Typed, NEW w \in Writer, Publish(w) \/ InsertRow(w) \/ PublishRow(w)
    PROVE  JournalTyped' /\ \E t : StreamTyped(t) /\ Becomes(w, t)
  <1> DEFINE s == stream[w]
  <1>1. s \in StreamState /\ ShapeOf(s) /\ JournalTyped /\ s.pc \in Busy
    BY StreamIs DEF StreamTyped, Publish, InsertRow, PublishRow, Busy
  <1>2. /\ s.work # <<>> /\ s.buffer = <<>> /\ s.no # 0
        /\ s.stage # "closed" => s.no <= MaxEmits
    BY <1>1 DEF ShapeOf, Busy
  <1>3. /\ s.work \in Seq(Frame) /\ Head(s.work) \in Frame
        /\ Head(s.work).at \in Nat /\ Head(s.work).event \in Event /\ s.at \in Nat
    <2>1. s.work \in Seq(Frame) /\ s.at \in Nat
      BY <1>1 DEF StreamState
    <2>2. Head(s.work) \in Frame
      BY <1>2, <2>1
    <2> QED
      BY <2>1, <2>2 DEF Frame
  <1> HIDE DEF s
  <1>4. CASE Publish(w)
    BY <1>1, <1>2, <1>4, PoppedTyped DEF Publish, Becomes, JournalTyped, Bounded, s
  <1>5. CASE PublishRow(w)
    BY <1>1, <1>2, <1>5, PoppedTyped DEF PublishRow, Becomes, JournalTyped, Bounded, s
  <1>6. CASE InsertRow(w)
    <2> DEFINE at == IF s.pc = "retry" THEN s.at ELSE Head(s.work).at
               frames == <<[at |-> at, event |-> Head(s.work).event]>>
               written == [s EXCEPT !.pc = "publishRow", !.at = at]
               again == [s EXCEPT !.pc = "retry", !.at = Latest + 1]
               tried == [s EXCEPT !.at = at]
               direct == [tried EXCEPT !.pc = "publishRow"]
    <2>1. at \in Nat /\ frames \in Seq(Frame)
      BY <1>3 DEF Frame
    <2>2. Latest + 1 \in Nat
      BY <1>1, NextNumberTyped DEF JournalTyped
    <2>3. \/ journal' = Inserted(frames) /\ Becomes(w, written)
          \/ journal' = journal /\ Becomes(w, again)
          \/ journal' = journal /\ Becomes(w, direct)
          \/ journal' = journal /\ Becomes(w, Popped(tried, "row"))
      <3>1. Unwritten(tried) = direct \/ Unwritten(tried) = Popped(tried, "row")
        BY DEF Unwritten
      <3>2. \/ /\ journal' = Inserted(frames)
               /\ stream' = [stream EXCEPT ![w].pc = "publishRow", ![w].at = at]
            \/ /\ journal' = journal
               /\ stream' = [stream EXCEPT ![w].pc = "retry", ![w].at = Latest + 1]
            \/ /\ journal' = journal
               /\ stream' = [stream EXCEPT ![w] = Unwritten(tried)]
        BY <1>6 DEF InsertRow, s
      <3> QED
        BY <3>1, <3>2 DEF Becomes, s
    <2> HIDE DEF at
    <2>4. tried \in StreamState
      BY <1>1, <2>1, StreamFields
    <2>5. tried.work = s.work /\ tried.buffer = <<>> /\ tried.no = s.no /\ tried.stage = s.stage
      BY <1>1, <1>2 DEF StreamState
    <2>6. written \in StreamState /\ direct \in StreamState /\ again \in StreamState
      <3>1. direct \in StreamState
        <4> HIDE DEF tried
        <4> QED
          BY <2>4, StreamFields DEF Busy
      <3>2. written \in StreamState
        BY <1>1, <2>1, StreamFields DEF Busy
      <3>3. again \in StreamState
        BY <1>1, <2>2, StreamFields DEF Busy
      <3> QED
        BY <3>1, <3>2, <3>3
    <2>7. ShapeOf(written) /\ ShapeOf(direct) /\ ShapeOf(again)
      BY <1>1, <1>2 DEF ShapeOf, StreamState, Busy
    <2>8. StreamTyped(Popped(tried, "row"))
      <3> HIDE DEF tried
      <3> QED
        BY <1>2, <2>4, <2>5, PoppedTyped
    <2>9. JournalTyped'
      <3>1. CASE journal' = Inserted(frames)
        BY <3>1, <2>1, <1>1, InsertedTyped
      <3>2. CASE journal' = journal
        BY <3>2, <1>1 DEF JournalTyped, Bounded
      <3> QED
        BY <2>3, <3>1, <3>2
    <2> HIDE DEF written, direct, again, tried, frames
    <2> QED
      BY <2>3, <2>6, <2>7, <2>8, <2>9 DEF StreamTyped
  <1> QED
    BY <1>4, <1>5, <1>6

LEMMA OtherTyped ==
    ASSUME Typed, NEW w \in Writer,
           \/ Resume(w) \/ Finish(w) \/ Fail(w) \/ AbortEnds(w) \/ Crash(w) \/ IntervalPasses(w)
    PROVE  JournalTyped' /\ \E t : StreamTyped(t) /\ Becomes(w, t)
  <1> DEFINE s == stream[w]
  <1>1. s \in StreamState /\ ShapeOf(s) /\ JournalTyped
    BY StreamIs DEF StreamTyped
  <1>2. JournalTyped'
    BY <1>1 DEF JournalTyped, Bounded, Resume, Finish, Fail, AbortEnds, Crash, IntervalPasses
  <1>3. CASE Finish(w) \/ Fail(w)
    <2>1. PICK v \in {"finished", "failed"} : Becomes(w, [s EXCEPT !.stage = v])
      BY <1>3 DEF Finish, Fail, Becomes
    <2>2. s.stage # "closed" /\ s.pc = "ready"
      BY <1>3 DEF Finish, Fail, Ready
    <2>3. [s EXCEPT !.stage = v] \in StreamState
      <3> HIDE DEF s
      <3> QED
        BY <1>1, StreamFields
    <2>4. ShapeOf([s EXCEPT !.stage = v])
      <3> HIDE DEF s
      <3> QED
        BY <1>1, <2>2 DEF ShapeOf, StreamState, Busy
    <2> QED
      BY <1>2, <2>1, <2>3, <2>4 DEF StreamTyped
  <1>4. CASE IntervalPasses(w)
    <2>1. PICK v \in {"due", "late"} : Becomes(w, [s EXCEPT !.age = v])
      BY <1>4 DEF IntervalPasses, Becomes
    <2>2. s.pc = "ready"
      BY <1>4 DEF IntervalPasses
    <2>3. [s EXCEPT !.age = v] \in StreamState
      <3> HIDE DEF s
      <3> QED
        BY <1>1, StreamFields
    <2>4. ShapeOf([s EXCEPT !.age = v])
      <3> HIDE DEF s
      <3> QED
        BY <1>1, <2>2 DEF ShapeOf, StreamState, Busy
    <2> QED
      BY <1>2, <2>1, <2>3, <2>4 DEF StreamTyped
  <1>5. CASE Resume(w)
    <2>1. PICK n \in Nat : Becomes(w, [IdleStream EXCEPT !.pc = "ready", !.base = n, !.next = n])
      <3>1. Latest + 1 \in Nat /\ -1 + 1 \in Nat
        BY <1>1, NextNumberTyped DEF JournalTyped
      <3>2. PICK seed \in {Latest} \cup (IF Blips THEN {-1} ELSE {}) :
              stream' = [stream EXCEPT ![w] = [IdleStream EXCEPT
                 !.pc = "ready", !.base = seed + 1, !.next = seed + 1]]
        BY <1>5 DEF Resume
      <3> QED
        BY <3>1, <3>2 DEF Becomes
    <2> DEFINE a == [IdleStream EXCEPT !.pc = "ready"]
               b == [a EXCEPT !.base = n]
    <2>2. [IdleStream EXCEPT !.pc = "ready", !.base = n, !.next = n] \in StreamState
      <3>1. a \in StreamState
        BY IdleStreamTyped, StreamFields
      <3> HIDE DEF a
      <3>2. b \in StreamState
        BY <3>1, StreamFields
      <3>3. [b EXCEPT !.next = n] \in StreamState
        <4> HIDE DEF b
        <4> QED
          BY <3>2, StreamFields
      <3> QED
        BY <3>3 DEF a
    <2>3. ShapeOf([IdleStream EXCEPT !.pc = "ready", !.base = n, !.next = n])
      BY ConstantsAssumption DEF ShapeOf, IdleStream, Busy
    <2> QED
      BY <1>2, <2>1, <2>2, <2>3 DEF StreamTyped
  <1>6. CASE AbortEnds(w)
    <2>1. PICK answered \in BOOLEAN :
            Becomes(w, [s EXCEPT !.stage = "closed", !.pc = "row", !.single = TRUE,
                                 !.no = @ + 1, !.next = @ + 1,
                                 !.work = <<[at |-> s.next,
                                   event |-> [by |-> w, no |-> s.no + 1,
                                              ends |-> AbortVerdict(row, answered)]]>>])
      BY <1>6 DEF AbortEnds, Becomes
    <2>2. s.pc = "ready" /\ s.stage = "aborted" /\ s.no <= MaxEmits /\ s.buffer = <<>>
      BY <1>1, <1>6 DEF AbortEnds, Ready, ShapeOf
    <2>3. AbortVerdict(row, answered) \in {"end", "error"}
      BY DEF AbortVerdict
    <2>4. s.no + 1 \in 1..(MaxEmits + 1) /\ s.next \in Nat /\ s.next + 1 \in Nat /\ s.no \in Nat
      BY <1>1, <2>2, ConstantsAssumption, SMTT(30) DEF StreamState
    <2> DEFINE frame == [at |-> s.next, event |-> [by |-> w, no |-> s.no + 1,
                                                   ends |-> AbortVerdict(row, answered)]]
               a == [s EXCEPT !.stage = "closed"]
               b == [a EXCEPT !.pc = "row"]
               c == [b EXCEPT !.single = TRUE]
               d == [c EXCEPT !.no = s.no + 1]
               e == [d EXCEPT !.next = s.next + 1]
               t == [e EXCEPT !.work = <<frame>>]
    <2>5. frame \in Frame
      BY <2>3, <2>4 DEF Frame, Event
    <2>6. <<frame>> \in Seq(Frame)
      <3> HIDE DEF frame
      <3> QED
        BY <2>5
    <2>7. Becomes(w, t)
      BY <1>1, <2>1 DEF StreamState
    <2> HIDE DEF frame
    <2>8. t \in StreamState
      <3> HIDE DEF s
      <3>1. a \in StreamState
        BY <1>1, StreamFields
      <3> HIDE DEF a
      <3>2. b \in StreamState
        BY <3>1, StreamFields DEF Busy
      <3> HIDE DEF b
      <3>3. c \in StreamState
        BY <3>2, StreamFields
      <3> HIDE DEF c
      <3>4. d \in StreamState
        <4>1. s.no + 1 \in 0..(MaxEmits + 1)
          BY <2>4
        <4> QED
          BY <3>3, <4>1, StreamFields
      <3> HIDE DEF d
      <3>5. e \in StreamState
        BY <3>4, <2>4, StreamFields
      <3> HIDE DEF e
      <3> QED
        BY <3>5, <2>6, StreamFields
    <2>9. ShapeOf(t)
      <3>1. /\ t.pc = "row" /\ t.stage = "closed" /\ t.work = <<frame>> /\ t.buffer = <<>>
            /\ t.no = s.no + 1
        BY <1>1, <2>2 DEF StreamState
      <3> HIDE DEF t, s
      <3> QED
        BY <3>1, <2>4 DEF ShapeOf, Busy
    <2> HIDE DEF t
    <2> QED
      BY <1>2, <2>7, <2>8, <2>9 DEF StreamTyped
  <1>7. CASE Crash(w)
    <2> DEFINE a == [s EXCEPT !.pc = "dead"]
               b == [a EXCEPT !.no = SentSoFar(w)]
               c == [b EXCEPT !.stage = "aborted"]
               d == [c EXCEPT !.buffer = <<>>]
               t == [d EXCEPT !.work = <<>>]
    <2>1. Becomes(w, t)
      BY <1>7 DEF Crash, Becomes
    <2>2. SentSoFar(w) \in 0..(MaxEmits + 1)
      <3>1. s.no \in 0..(MaxEmits + 1) /\ MaxEmits \in Nat
        BY <1>1, ConstantsAssumption DEF StreamState
      <3>2. s.pc \in Busy => s.no # 0
        BY <1>1 DEF ShapeOf
      <3>3. s.pc # "ready" => s.pc \in Busy
        BY <1>1, <1>7 DEF Crash, Alive, Busy, StreamState
      <3>4. s.pc = "ready" => s.stage # "closed"
        BY <1>7 DEF Crash, Alive
      <3> QED
        BY <3>1, <3>2, <3>3, <3>4 DEF SentSoFar
    <2>3. t \in StreamState
      <3> HIDE DEF s
      <3>1. a \in StreamState
        BY <1>1, StreamFields
      <3> HIDE DEF a
      <3>2. b \in StreamState
        BY <3>1, <2>2, StreamFields
      <3> HIDE DEF b
      <3>3. c \in StreamState
        BY <3>2, StreamFields
      <3> HIDE DEF c
      <3>4. <<>> \in Seq(Frame)
        OBVIOUS
      <3>5. d \in StreamState
        BY <3>3, <3>4, StreamFields
      <3> HIDE DEF d
      <3> QED
        BY <3>4, <3>5, StreamFields
    <2>4. t.pc = "dead" /\ t.buffer = <<>> /\ t.work = <<>>
      BY <1>1 DEF StreamState
    <2>5. ShapeOf(t)
      <3> HIDE DEF t
      <3> QED
        BY <2>4 DEF ShapeOf, Busy
    <2> HIDE DEF t
    <2> QED
      BY <1>2, <2>1, <2>3, <2>5 DEF StreamTyped
  <1> QED
    BY <1>3, <1>4, <1>5, <1>6, <1>7

LEMMA StreamStepTyped ==
    ASSUME Typed, NEW w \in Writer, StreamStep(w)
    PROVE  /\ JournalTyped'
           /\ stream' \in [Writer -> StreamState]
           /\ \A v \in Writer : ShapeOf(stream'[v])
  <1>1. JournalTyped' /\ \E t : StreamTyped(t) /\ Becomes(w, t)
    BY WriteTyped, CommitTyped, OtherTyped DEF StreamStep, Write
  <1>2. PICK t : StreamTyped(t) /\ Becomes(w, t)
    BY <1>1
  <1>3. stream \in [Writer -> StreamState] /\ \A v \in Writer : ShapeOf(stream[v])
    BY DEF Typed, TypeOK, Shape
  <1> QED
    BY <1>1, <1>2, <1>3 DEF StreamTyped, Becomes

\* The scalars and the clients, as far as a stream's step changes them.
LEMMA ClientFields ==
    ASSUME NEW c \in ClientState
    PROVE  /\ \A v \in {"off", "subscribed", "live", "closed"} : [c EXCEPT !.pc = v] \in ClientState
           /\ \A v \in Writer : [c EXCEPT !.of = v] \in ClientState
           /\ \A v \in Seq(Event) : [c EXCEPT !.seen = v] \in ClientState
           /\ \A v \in Nat : [c EXCEPT !.max = v] \in ClientState
           /\ \A v \in Seq(Frame) : [c EXCEPT !.inbox = v] \in ClientState
           /\ \A v \in {"nothing", "journal", "watchdog", "fault"} : [c EXCEPT !.by = v] \in ClientState
           /\ \A v \in {"no", "end", "error"} : [c EXCEPT !.verdict = v] \in ClientState
  BY DEF ClientState

LEMMA PublishedTyped ==
    ASSUME client \in [Reader -> ClientState], NEW frame \in Frame, Published(frame)
    PROVE  client' \in [Reader -> ClientState]
  <1>1. ASSUME NEW r \in Reader PROVE [client[r] EXCEPT !.inbox = Append(@, frame)] \in ClientState
    <2> DEFINE c == client[r]
    <2>1. c \in ClientState /\ c.inbox \in Seq(Frame)
      BY DEF ClientState
    <2>2. Append(c.inbox, frame) \in Seq(Frame)
      BY <2>1
    <2> HIDE DEF c
    <2>3. [c EXCEPT !.inbox = Append(c.inbox, frame)] \in ClientState
      BY <2>1, <2>2, ClientFields
    <2> QED
      BY <2>3 DEF c
  <1> QED
    BY <1>1 DEF Published

LEMMA StreamStepScalars ==
    ASSUME Typed, NEW w \in Writer, StreamStep(w)
    PROVE  /\ row' \in {"open", "complete", "failed", "gone"}
           /\ paused' \in BOOLEAN
           /\ client' \in [Reader -> ClientState]
  <1>1. /\ row \in {"open", "complete", "failed", "gone"} /\ paused \in BOOLEAN
        /\ client \in [Reader -> ClientState]
    BY DEF Typed, TypeOK
  <1>2. row' \in {"open", "complete", "failed", "gone"}
    BY <1>1 DEF StreamStep, Emit, AgentError, Pause, Resume, Finish, Fail, Close, Abort, AbortEnds,
                Superseded, Crash, Publish, InsertRow, PublishRow, IntervalPasses
  <1>3. paused' \in BOOLEAN
    BY <1>1 DEF StreamStep, Emit, AgentError, Pause, Resume, Finish, Fail, Close, Abort, AbortEnds,
                Superseded, Crash, Publish, InsertRow, PublishRow, IntervalPasses
  <1>4. CASE ~(Publish(w) \/ PublishRow(w))
    <2>1. client' = client
      BY <1>4 DEF StreamStep, Emit, AgentError, Pause, Resume, Finish, Fail, Close, Abort, AbortEnds,
                  Superseded, Crash, InsertRow, IntervalPasses
    <2> QED
      BY <1>1, <1>2, <1>3, <2>1
  <1>5. CASE Publish(w) \/ PublishRow(w)
    <2> DEFINE s == stream[w]
    <2>1. s \in StreamState /\ s.work # <<>>
      BY <1>5, StreamIs DEF StreamTyped, ShapeOf, Busy, Publish, PublishRow
    <2>2. s.work \in Seq(Frame) /\ s.at \in Nat
      BY <2>1 DEF StreamState
    <2>3. Head(s.work) \in Frame
      BY <2>1, <2>2
    <2>4. [at |-> s.at, event |-> Head(s.work).event] \in Frame
      BY <2>2, <2>3 DEF Frame
    <2>5. Published(Head(s.work)) \/ Published([at |-> s.at, event |-> Head(s.work).event])
      BY <1>5 DEF Publish, PublishRow
    <2> QED
      BY <1>1, <1>2, <1>3, <2>3, <2>4, <2>5, PublishedTyped
  <1> QED
    BY <1>4, <1>5

-----------------------------------------------------------------------------
\* What a client is shown

LEMMA ClosedTyped ==
    ASSUME NEW c \in ClientState, NEW by \in {"nothing", "journal", "watchdog", "fault"},
           NEW verdict \in {"no", "end", "error"}
    PROVE  Closed(c, by, verdict) \in ClientState
  <1> DEFINE x == [c EXCEPT !.pc = "closed"]
             y == [x EXCEPT !.by = by]
             z == [y EXCEPT !.verdict = verdict]
             t == [z EXCEPT !.inbox = <<>>]
  <1>1. x \in ClientState
    BY ClientFields
  <1>2. Closed(c, by, verdict) = t
    BY DEF Closed
  <1> HIDE DEF x
  <1>3. y \in ClientState
    BY <1>1, ClientFields
  <1> HIDE DEF y
  <1>4. z \in ClientState
    BY <1>3, ClientFields
  <1>5. <<>> \in Seq(Frame)
    OBVIOUS
  <1> HIDE DEF z
  <1> QED
    BY <1>2, <1>4, <1>5, ClientFields

LEMMA ReplayedTyped ==
    ASSUME JournalTyped, NEW c \in ClientState
    PROVE  Replayed(c) \in ClientState
  <1> DEFINE backlog == Backlog(c.max)
             events == [i \in DOMAIN backlog |-> journal[backlog[i]]]
             terminal == {i \in DOMAIN events : IsTerminal(events[i])}
             top == IF backlog = <<>> THEN c.max ELSE backlog[Len(backlog)]
             shown == [c EXCEPT !.pc = "live", !.seen = @ \o events, !.max = top]
             verdict == events[Min(terminal)].ends
  <1>1. /\ backlog \in Seq(DOMAIN journal) /\ c.max \in Nat /\ c.seen \in Seq(Event)
        /\ \A n \in DOMAIN journal : n \in Nat /\ journal[n] \in Event
    BY BacklogTyped DEF JournalTyped, ClientState
  <1> HIDE DEF backlog
  <1>2. events \in Seq(Event) /\ DOMAIN events = DOMAIN backlog
    <2>1. \A i \in DOMAIN backlog : journal[backlog[i]] \in Event
      BY <1>1
    <2>2. DOMAIN backlog = 1..Len(backlog) /\ Len(backlog) \in Nat
      BY <1>1
    <2>3. events \in [1..Len(backlog) -> Event]
      BY <2>1, <2>2
    <2> QED
      BY <2>2, <2>3, SeqDef
  <1>3. top \in Nat
    BY <1>1
  <1>4. c.seen \o events \in Seq(Event)
    <2> HIDE DEF events
    <2> QED
      BY <1>1, <1>2, ConcatProperties
  <1> HIDE DEF events, top
  <1>5. shown \in ClientState
    <2> DEFINE a == [c EXCEPT !.pc = "live"]
               b == [a EXCEPT !.seen = c.seen \o events]
               d == [b EXCEPT !.max = top]
    <2>1. a \in ClientState
      BY ClientFields
    <2>2. shown = d
      BY DEF ClientState
    <2> HIDE DEF a
    <2>3. b \in ClientState
      BY <2>1, <1>4, ClientFields
    <2> HIDE DEF b
    <2>4. d \in ClientState
      BY <2>3, <1>3, ClientFields
    <2> QED
      BY <2>2, <2>4
  <1>6. Replayed(c) = IF terminal = {} THEN shown ELSE Closed(shown, "journal", verdict)
    BY DEF Replayed, events, backlog, top
  <1>7. terminal # {} => verdict \in {"no", "end", "error"}
    <2>1. SUFFICES ASSUME terminal # {} PROVE verdict \in {"no", "end", "error"}
      OBVIOUS
    <2>2. terminal \in SUBSET Nat /\ terminal \subseteq DOMAIN events
      BY <1>2
    <2>3. Min(terminal) \in DOMAIN events
      <3> HIDE DEF terminal
      <3> QED
        BY <2>1, <2>2, MinIs
    <2>4. events[Min(terminal)] \in Event
      <3> HIDE DEF terminal
      <3> QED
        BY <1>2, <2>3
    <2> QED
      BY <2>4 DEF Event
  <1> HIDE DEF shown, terminal, verdict
  <1> QED
    BY <1>5, <1>6, <1>7, ClosedTyped

\* A client that reconnects after the n-th event of w.
Reconnecting(w, n) ==
    [IdleClient EXCEPT
       !.pc = "subscribed", !.of = w, !.max = stream[w].base + n - 1,
       !.seen = [i \in 1..n |-> [by |-> w, no |-> i, ends |-> "no"]]]

\* The frame at the head of an inbox, shown.
Shown(c) ==
    [c EXCEPT !.inbox = Tail(@), !.max = Head(c.inbox).at,
              !.seen = Append(@, Head(c.inbox).event)]

LEMMA ReconnectingTyped ==
    ASSUME Typed, NEW w \in Writer, NEW n \in 1..SentSoFar(w)
    PROVE  Reconnecting(w, n) \in ClientState
  <1> DEFINE seen == [i \in 1..n |-> [by |-> w, no |-> i, ends |-> "no"]]
             max == stream[w].base + n - 1
  <1>1. stream[w] \in StreamState
    BY DEF Typed, TypeOK
  <1>2. stream[w].no \in Nat /\ stream[w].no <= MaxEmits + 1 /\ stream[w].base \in Nat
        /\ MaxEmits \in Nat
    BY <1>1, ConstantsAssumption DEF StreamState
  <1>3. n \in Nat /\ 1 <= n /\ n <= MaxEmits + 1
    BY <1>2 DEF SentSoFar
  <1>4. max \in Nat
    BY <1>2, <1>3
  <1>5. seen \in Seq(Event)
    <2>1. \A i \in 1..n : [by |-> w, no |-> i, ends |-> "no"] \in Event
      BY <1>2, <1>3 DEF Event
    <2>2. seen \in [1..n -> Event]
      BY <2>1
    <2> QED
      BY <1>3, <2>2, SeqDef
  <1> HIDE DEF seen, max
  <1>6. IdleClient \in ClientState
    <2>1. <<>> \in Seq(Event) /\ <<>> \in Seq(Frame) /\ First \in Writer
      BY ConstantsAssumption
    <2> QED
      BY <2>1 DEF IdleClient, ClientState
  <1> DEFINE a == [IdleClient EXCEPT !.pc = "subscribed"]
             b == [a EXCEPT !.of = w]
             c == [b EXCEPT !.max = max]
             d == [c EXCEPT !.seen = seen]
  <1>7. Reconnecting(w, n) = d
    BY DEF Reconnecting, max, seen
  <1>8. a \in ClientState
    BY <1>6, ClientFields
  <1> HIDE DEF a
  <1>9. b \in ClientState
    BY <1>8, ClientFields
  <1> HIDE DEF b
  <1>10. c \in ClientState
    BY <1>4, <1>9, ClientFields
  <1> HIDE DEF c
  <1> QED
    BY <1>5, <1>7, <1>10, ClientFields

LEMMA ShownTyped ==
    ASSUME NEW c \in ClientState, c.inbox # <<>>
    PROVE  /\ Shown(c) \in ClientState
           /\ [c EXCEPT !.inbox = Tail(@)] \in ClientState
           /\ Head(c.inbox).event.ends \in {"no", "end", "error"}
  <1> DEFINE q == c.inbox
             f == Head(q)
             rest == Tail(q)
             seen == Append(c.seen, f.event)
  <1>1. q \in Seq(Frame) /\ c.seen \in Seq(Event)
    BY DEF ClientState
  <1>2. f \in Frame /\ rest \in Seq(Frame)
    BY <1>1
  <1>3. f.at \in Nat /\ f.event \in Event
    BY <1>2 DEF Frame
  <1>4. seen \in Seq(Event)
    BY <1>1, <1>3
  <1> HIDE DEF seen, rest
  <1> DEFINE x == [c EXCEPT !.inbox = rest]
             y == [x EXCEPT !.max = f.at]
             z == [y EXCEPT !.seen = seen]
  <1>5. [c EXCEPT !.inbox = Tail(@)] = x /\ Shown(c) = z
    BY DEF Shown, rest, seen
  <1>6. x \in ClientState
    BY <1>2, ClientFields
  <1>7. f.event.ends \in {"no", "end", "error"}
    BY <1>3 DEF Event
  <1> HIDE DEF x, f
  <1>8. y \in ClientState
    BY <1>3, <1>6, ClientFields
  <1> HIDE DEF y
  <1>9. z \in ClientState
    BY <1>4, <1>8, ClientFields
  <1> QED
    BY <1>5, <1>6, <1>7, <1>9 DEF f

\* What a client's step makes of it.
Turns(r, t) == client' = [client EXCEPT ![r] = t]

LEMMA ClientStepIs ==
    ASSUME NEW r \in Reader, ClientStep(r)
    PROVE  /\ UNCHANGED <<row, paused, journal, stream>>
           /\ \/ /\ client[r].pc = "off"
                 /\ \E w \in Writer : \E n \in 1..SentSoFar(w) :
                      /\ stream[w].pc # "idle"
                      /\ ~stream[w].errored
                      /\ Turns(r, Reconnecting(w, n))
              \/ client[r].pc = "subscribed" /\ Turns(r, Replayed(client[r]))
              \/ client[r].pc = "subscribed" /\ Drops
                 /\ Turns(r, Closed(Replayed(client[r]), "fault", "no"))
              \/ (Blips \/ Drops) /\ Turns(r, Closed(client[r], "fault", "no"))
              \/ /\ client[r].pc = "live"
                 /\ client[r].inbox # <<>>
                 /\ \/ /\ ~Fresh(client[r], Head(client[r].inbox))
                       /\ Turns(r, [client[r] EXCEPT !.inbox = Tail(@)])
                    \/ /\ Fresh(client[r], Head(client[r].inbox))
                       /\ \/ /\ IsTerminal(Head(client[r].inbox).event)
                             /\ Turns(r, Closed(Shown(client[r]), "journal",
                                                Head(client[r].inbox).event.ends))
                          \/ /\ ~IsTerminal(Head(client[r].inbox).event)
                             /\ Turns(r, Shown(client[r]))
              \/ \E verdict \in {"end", "error"} :
                    /\ client[r].pc = "live"
                    /\ verdict = "end" => row = "complete"
                    /\ Turns(r, Closed(client[r], "watchdog", verdict))
  <1>1. CASE Connect(r)
    BY <1>1 DEF Connect, Turns, Reconnecting
  <1>2. CASE Snapshot(r)
    BY <1>2 DEF Snapshot, Turns
  <1>3. CASE SnapshotOnly(r)
    <2>1. CASE Replayed(client[r]).pc = "closed"
      BY <1>3, <2>1 DEF SnapshotOnly, Turns
    <2>2. CASE Replayed(client[r]).pc # "closed"
      BY <1>3, <2>2 DEF SnapshotOnly, Turns
    <2> QED
      BY <2>1, <2>2
  <1>4. CASE Break(r)
    BY <1>4 DEF Break, Turns
  <1>5. CASE Deliver(r)
    BY <1>5 DEF Deliver, Turns, Shown
  <1>6. CASE Watchdog(r)
    BY <1>6 DEF Watchdog, Turns
  <1> QED
    BY <1>1, <1>2, <1>3, <1>4, <1>5, <1>6 DEF ClientStep

LEMMA ClientStepTyped ==
    ASSUME Typed, NEW r \in Reader, ClientStep(r)
    PROVE  client' \in [Reader -> ClientState]
  <1> DEFINE c == client[r]
  <1>1. c \in ClientState /\ client \in [Reader -> ClientState]
    BY DEF Typed, TypeOK
  <1>2. JournalTyped
    BY DEF Typed, TypeOK, Shape, JournalTyped
  <1>3. Replayed(c) \in ClientState
    BY <1>1, <1>2, ReplayedTyped
  <1>4. Closed(Replayed(c), "fault", "no") \in ClientState
    BY <1>3, ClosedTyped
  <1>5. c.inbox # <<>> => /\ Shown(c) \in ClientState
                          /\ [c EXCEPT !.inbox = Tail(@)] \in ClientState
                          /\ Closed(Shown(c), "journal", Head(c.inbox).event.ends) \in ClientState
    BY <1>1, ShownTyped, ClosedTyped
  <1>6. /\ Closed(c, "fault", "no") \in ClientState
        /\ \A verdict \in {"end", "error"} : Closed(c, "watchdog", verdict) \in ClientState
    BY <1>1, ClosedTyped
  <1>7. \A t \in ClientState : Turns(r, t) => client' \in [Reader -> ClientState]
    BY <1>1 DEF Turns
  <1> QED
    BY <1>3, <1>4, <1>5, <1>6, <1>7, ClientStepIs, ReconnectingTyped

-----------------------------------------------------------------------------
LEMMA InitTyped == Init => Typed
  <1> SUFFICES ASSUME Init PROVE Typed
    OBVIOUS
  <1>1. \A w \in Writer : stream[w] = IdleStream \/ stream[w] = [IdleStream EXCEPT !.pc = "ready"]
    BY DEF Init
  <1>2. [IdleStream EXCEPT !.pc = "ready"] \in StreamState
    BY IdleStreamTyped, StreamFields
  <1>3. stream \in [Writer -> StreamState]
    BY <1>1, <1>2, IdleStreamTyped DEF Init
  <1>4. IdleClient \in ClientState
    <2>1. <<>> \in Seq(Event) /\ <<>> \in Seq(Frame) /\ First \in Writer
      BY ConstantsAssumption
    <2> QED
      BY <2>1 DEF IdleClient, ClientState
  <1>5. client \in [Reader -> ClientState]
    BY <1>4 DEF Init
  <1>6. DOMAIN journal = {}
    BY DEF Init
  <1>7. \A w \in Writer : ShapeOf(stream[w])
    BY <1>1, ConstantsAssumption DEF ShapeOf, IdleStream, Busy
  <1>8. Bounded
    BY <1>6 DEF Bounded
  <1> QED
    BY <1>3, <1>5, <1>6, <1>7, <1>8 DEF Init, Typed, TypeOK, Shape

LEMMA NextTyped == Typed /\ [Next]_vars => Typed'
  <1> SUFFICES ASSUME Typed, [Next]_vars PROVE Typed'
    OBVIOUS
  <1>1. CASE UNCHANGED vars
    BY <1>1 DEF vars, Typed, TypeOK, Shape, Bounded
  <1>2. ASSUME NEW w \in Writer, StreamStep(w) PROVE Typed'
    BY <1>2, StreamStepTyped, StreamStepScalars DEF Typed, TypeOK, Shape, JournalTyped
  <1>3. ASSUME NEW r \in Reader, ClientStep(r) PROVE Typed'
    <2>1. UNCHANGED <<row, paused, journal, stream>>
      BY <1>3, ClientStepIs
    <2> QED
      BY <1>3, <2>1, ClientStepTyped DEF Typed, TypeOK, Shape, Bounded
  <1>4. CASE DeleteRow \/ ReconcileRow
    <2>1. journal' = <<>> \/ journal' = journal
      BY <1>4 DEF DeleteRow, ReconcileRow
    <2>2. DOMAIN journal' \subseteq DOMAIN journal /\ \A n \in DOMAIN journal' : journal'[n] = journal[n]
      BY <2>1
    <2> QED
      BY <1>4, <2>2 DEF DeleteRow, ReconcileRow, Typed, TypeOK, Shape, Bounded
  <1> QED
    BY <1>1, <1>2, <1>3, <1>4 DEF Next

\* Every reachable state has its types and the shape the types leave open: a
\* stream that has ended or aborted has nothing in its buffer.
THEOREM TypeAlways == Spec => []Typed
  BY InitTyped, NextTyped, PTL DEF Spec

\* The journal holds events under numbers, and every stream and client stays
\* in the states the code gives it.
THEOREM TypeCorrect == Spec => []TypeOK
  <1>1. Typed => TypeOK
    BY DEF Typed
  <1> QED
    BY <1>1, TypeAlways, PTL


-----------------------------------------------------------------------------
\* The order of the journal

\* The frames a stream may still commit.
Pending(s) ==
    IF s.pc = "ready" THEN s.buffer
    ELSE IF s.pc \in {"row", "retry"} THEN s.work
    ELSE IF s.pc = "publishRow" THEN Tail(s.work)
    ELSE <<>>

\* Frames numbered up to where the counters of the stream are.
Numbered(q, w, s) ==
    \A i \in DOMAIN q : /\ q[i].at = s.next - Len(q) + i - 1
                        /\ q[i].event.no = s.no - Len(q) + i
                        /\ q[i].event.by = w

\* The next number a stream commits is at most the journal's, so that it can
\* only be inserted at the journal's end.
InSync(s, w, K) ==
    s.pc \notin {"idle", "dead"} =>
        /\ Numbered(Pending(s), w, s)
        /\ s.next - Len(Pending(s)) <= K
        /\ s.pc = "retry" => s.at <= K /\ s.next - Len(s.work) < K

\* What a stream has in the journal comes before what it may still commit.
Behind(s, w) ==
    s.pc # "dead" =>
        \A n \in DOMAIN journal :
            journal[n].by = w => journal[n].no <= s.no - Len(Pending(s))

SyncedAt(K) ==
    Dense(K) /\ \A w \in Writer : InSync(stream[w], w, K) /\ Behind(stream[w], w)

OrderInv ==
    /\ row = "gone" => journal = <<>>
    /\ \A w \in Writer : stream[w].latched => row = "gone"
    /\ row # "gone" => EmissionOrder /\ \E K \in Nat : SyncedAt(K)

\* q is committed at the end of the journal.
Grows(K, q) ==
    /\ DOMAIN journal' = 0..(K + Len(q) - 1)
    /\ \A n \in 0..(K - 1) : journal'[n] = journal[n]
    /\ \A i \in 1..Len(q) : journal'[K + i - 1] = q[i].event

LEMMA InsertedAtTip ==
    ASSUME JournalTyped, NEW K \in Nat, Dense(K), NEW q \in Seq(Frame), q # <<>>,
           NEW a \in Int, \A i \in DOMAIN q : q[i].at = a + i - 1,
           a <= K, ~Collides(q), journal' = Inserted(q)
    PROVE  a = K /\ Grows(K, q)
  <1>1. Len(q) \in Nat /\ Len(q) >= 1 /\ DOMAIN q = 1..Len(q)
    OBVIOUS
  <1>2. a \in Nat
    <2>1. 1 \in DOMAIN q /\ q[1] \in Frame
      BY <1>1
    <2> QED
      BY <2>1 DEF Frame
  <1>3. a = K
    <2>1. a \notin DOMAIN journal
      BY <1>1 DEF Collides
    <2> QED
      BY <1>2, <2>1 DEF Dense
  <1>4. Numbers(q) = K..(K + Len(q) - 1)
    <2>1. \A i \in 1..Len(q) : q[i].at = K + i - 1
      BY <1>1, <1>3
    <2>2. ASSUME NEW n \in K..(K + Len(q) - 1) PROVE n \in Numbers(q)
      <3>1. n - K + 1 \in 1..Len(q) /\ K + (n - K + 1) - 1 = n
        BY <1>1
      <3> QED
        BY <1>1, <2>1, <3>1 DEF Numbers
    <2>3. ASSUME NEW n \in Numbers(q) PROVE n \in K..(K + Len(q) - 1)
      BY <1>1, <2>1, <2>3 DEF Numbers
    <2> QED
      BY <2>2, <2>3
  <1>5. /\ DOMAIN journal' = DOMAIN journal \cup Numbers(q)
        /\ \A n \in DOMAIN journal : journal'[n] = journal[n]
        /\ \A n \in Numbers(q) \ DOMAIN journal :
             \E i \in DOMAIN q : q[i].at = n /\ journal'[n] = q[i].event
    BY InsertedIs
  <1>6. DOMAIN journal' = 0..(K + Len(q) - 1)
    BY <1>1, <1>4, <1>5 DEF Dense
  <1>7. ASSUME NEW i \in 1..Len(q) PROVE journal'[K + i - 1] = q[i].event
    <2>1. K + i - 1 \in Numbers(q) \ DOMAIN journal
      BY <1>1, <1>4 DEF Dense
    <2>2. PICK j \in DOMAIN q : q[j].at = K + i - 1 /\ journal'[K + i - 1] = q[j].event
      BY <1>5, <2>1
    <2>3. j = i
      BY <1>1, <1>3, <2>2
    <2> QED
      BY <2>2, <2>3
  <1> QED
    BY <1>3, <1>5, <1>6, <1>7 DEF Grows, Dense

\* One event, at the end of the journal or not at all.
LEMMA OneAtTip ==
    ASSUME JournalTyped, NEW K \in Nat, Dense(K), NEW at \in Nat, at <= K,
           at \notin DOMAIN journal, NEW event \in Event,
           journal' = Inserted(<<[at |-> at, event |-> event]>>)
    PROVE  at = K /\ Grows(K, <<[at |-> at, event |-> event]>>)
  <1> DEFINE q == <<[at |-> at, event |-> event]>>
  <1>1. q \in Seq(Frame) /\ q # <<>>
    BY DEF Frame
  <1>2. \A i \in DOMAIN q : q[i].at = at + i - 1
    OBVIOUS
  <1>3. ~Collides(q)
    BY DEF Collides
  <1> HIDE DEF q
  <1>4. at \in Int /\ journal' = Inserted(q)
    BY DEF q
  <1>5. at = K /\ Grows(K, q)
    BY <1>1, <1>2, <1>3, <1>4, InsertedAtTip
  <1> QED
    BY <1>5 DEF q

LEMMA StreamNumbers ==
    ASSUME Typed, NEW w \in Writer
    PROVE  LET s == stream[w] IN
           /\ s.next \in Nat /\ s.no \in Nat /\ s.at \in Nat /\ s.base \in Nat
           /\ s.buffer \in Seq(Frame) /\ Len(s.buffer) \in Nat
           /\ s.work \in Seq(Frame) /\ Len(s.work) \in Nat
           /\ Pending(s) \in Seq(Frame) /\ Len(Pending(s)) \in Nat
  <1> DEFINE s == stream[w]
             p == Pending(s)
  <1>1. s \in StreamState /\ ShapeOf(s)
    BY StreamIs DEF StreamTyped
  <1>2. /\ s.work \in Seq(Frame) /\ s.buffer \in Seq(Frame)
        /\ s.next \in Nat /\ s.at \in Nat /\ s.no \in Nat /\ s.base \in Nat
    BY <1>1 DEF StreamState
  <1>3. s.pc = "publishRow" => Tail(s.work) \in Seq(Frame)
    BY <1>1, <1>2 DEF ShapeOf, Busy
  <1>4. p \in Seq(Frame)
    BY <1>2, <1>3 DEF Pending
  <1> QED
    BY <1>2, <1>4

\* A commit of w keeps the journal in order and the other streams in sync.
LEMMA GrowthKeepsOrder ==
    ASSUME Typed, NEW K \in Nat, SyncedAt(K), EmissionOrder,
           NEW w \in Writer, NEW lo \in Int, NEW q \in Seq(Frame), Grows(K, q),
           \A i \in 1..Len(q) : q[i].event.by = w /\ q[i].event.no = lo + i,
           q # <<>> => \A n \in DOMAIN journal : journal[n].by = w => journal[n].no <= lo,
           \A v \in Writer \ {w} : stream'[v] = stream[v],
           NEW J \in Nat, J = K + Len(q),
           InSync(stream'[w], w, J), Behind(stream[w], w)', row' # "gone"
    PROVE  EmissionOrder' /\ SyncedAt(J)'
  <1>1. Len(q) \in Nat /\ DOMAIN journal = 0..(K - 1) /\ DOMAIN journal' = 0..(J - 1)
    BY DEF SyncedAt, Dense, Grows
  <1>2. \A n \in DOMAIN journal : journal[n].no \in Int /\ journal'[n] = journal[n]
    <2>1. \A n \in DOMAIN journal : journal[n].no \in Int
      BY ConstantsAssumption DEF Typed, TypeOK, Event
    <2> QED
      BY <1>1, <2>1 DEF Grows
  <1>3. ASSUME NEW n \in DOMAIN journal', n \notin DOMAIN journal
        PROVE  /\ n - K + 1 \in 1..Len(q)
               /\ journal'[n].by = w /\ journal'[n].no = lo + (n - K + 1)
    <2> DEFINE i == n - K + 1
    <2>1. i \in 1..Len(q) /\ K + i - 1 = n /\ n \in Int
      BY <1>1, <1>3
    <2> HIDE DEF i
    <2>2. journal'[K + i - 1] = q[i].event
      BY <2>1 DEF Grows
    <2>3. journal'[n].by = w /\ journal'[n].no = lo + i
      BY <2>1, <2>2
    <2> QED
      BY <2>1, <2>3 DEF i
  <1>4. EmissionOrder'
    <2> SUFFICES ASSUME NEW m \in DOMAIN journal', NEW n \in DOMAIN journal',
                        m < n, journal'[m].by = journal'[n].by
                 PROVE  journal'[m].no < journal'[n].no
      BY DEF EmissionOrder
    <2>1. m \in Int /\ n \in Int /\ (n \in DOMAIN journal => m \in DOMAIN journal)
      BY <1>1
    <2>2. CASE n \in DOMAIN journal
      BY <1>2, <2>1, <2>2 DEF EmissionOrder
    <2>3. CASE n \notin DOMAIN journal /\ m \in DOMAIN journal
      <3>1. journal'[n].by = w /\ journal'[n].no = lo + (n - K + 1) /\ n - K + 1 \in 1..Len(q)
        BY <1>3, <2>3
      <3>2. journal[m].by = w /\ q # <<>>
        BY <1>2, <2>3, <3>1
      <3>3. journal[m].no <= lo /\ journal[m].no \in Int /\ journal'[m] = journal[m]
        BY <1>2, <2>3, <3>2
      <3> QED
        BY <1>1, <2>1, <3>1, <3>3, SMTT(30)
    <2>4. CASE n \notin DOMAIN journal /\ m \notin DOMAIN journal
      BY <1>3, <2>1, <2>4, SMTT(30)
    <2> QED
      BY <2>2, <2>3, <2>4
  <1>5. ASSUME NEW v \in Writer \ {w} PROVE InSync(stream'[v], v, J) /\ Behind(stream[v], v)'
    <2>1. InSync(stream[v], v, K) /\ Behind(stream[v], v) /\ stream'[v] = stream[v]
      BY DEF SyncedAt
    <2> DEFINE s == stream[v]
               p == Pending(s)
    <2>2. s.next \in Int /\ Len(p) \in Int /\ s.at \in Int /\ Len(s.work) \in Int
      BY StreamNumbers
    <2> HIDE DEF p
    <2>3. InSync(s, v, J)
      <3> HIDE DEF s
      <3>1. \A x \in Int : x <= K => x <= J
        BY <1>1
      <3>2. \A x \in Int : x < K => x < J
        BY <1>1
      <3>3. s.pc \notin {"idle", "dead"} =>
              /\ Numbered(p, v, s) /\ s.next - Len(p) <= K
              /\ s.pc = "retry" => s.at <= K /\ s.next - Len(s.work) < K
        BY <2>1 DEF InSync, s, p
      <3>4. s.next - Len(p) \in Int /\ s.next - Len(s.work) \in Int
        BY <2>2
      <3> QED
        BY <2>2, <3>1, <3>2, <3>3, <3>4 DEF InSync, p
    <2>4. Behind(stream[v], v)'
      <3>1. SUFFICES ASSUME s.pc # "dead", NEW n \in DOMAIN journal', journal'[n].by = v
                     PROVE  journal'[n].no <= s.no - Len(p)
        BY <2>1 DEF Behind, p
      <3>2. n \in DOMAIN journal
        BY <1>3, <3>1
      <3> QED
        BY <1>2, <2>1, <3>1, <3>2 DEF Behind, p
    <2> QED
      BY <2>1, <2>3, <2>4
  <1> QED
    BY <1>1, <1>4, <1>5 DEF SyncedAt, Dense

\* What was handed over is numbered on.
LEMMA HandedNumbered ==
    ASSUME Typed, NEW w \in Writer, stream[w].pc = "ready", ~stream[w].latched,
           Numbered(stream[w].buffer, w, stream[w]), NEW u \in StreamState,
           Drains(w, u) \/ \E ends \in {"no", "end", "error"} : Handed(w, u, ends)
    PROVE  /\ Numbered(u.buffer, w, u)
           /\ u.buffer \in Seq(Frame)
           /\ u.next - Len(u.buffer) = stream[w].next - Len(stream[w].buffer)
           /\ u.no - Len(u.buffer) = stream[w].no - Len(stream[w].buffer)
  <1> DEFINE s == stream[w]
             b == s.buffer
  <1>1. s.next \in Nat /\ s.no \in Nat /\ b \in Seq(Frame) /\ Len(b) \in Nat
    BY StreamNumbers
  <1>2. CASE Drains(w, u)
    BY <1>1, <1>2 DEF Drains, Numbered
  <1>3. ASSUME NEW ends \in {"no", "end", "error"}, Handed(w, u, ends)
        PROVE  /\ Numbered(u.buffer, w, u)
               /\ u.buffer \in Seq(Frame)
               /\ u.next - Len(u.buffer) = s.next - Len(b)
               /\ u.no - Len(u.buffer) = s.no - Len(b)
    <2> DEFINE f == EventFrame(w, ends)
               q == Append(b, f)
    <2>1. u.no = s.no + 1 /\ u.next = s.next + 1 /\ u.buffer = q
      BY <1>3 DEF Handed
    <2>2. f.at = s.next /\ f.event.no = s.no + 1 /\ f.event.by = w
      BY DEF EventFrame
    <2> HIDE DEF f
    <2>3. /\ Len(q) = Len(b) + 1
          /\ \A i \in 1..Len(b) : q[i] = b[i]
          /\ q[Len(b) + 1] = f
          /\ DOMAIN q = 1..Len(q)
      <3> DEFINE T == Frame \cup {f}
      <3>1. b \in Seq(T) /\ f \in T
        BY <1>1, SeqMonotonic
      <3> HIDE DEF T, b
      <3> QED
        BY <3>1, AppendProperties
    <2> DEFINE L == Len(b)
    <2>4. L \in Nat /\ Len(q) = L + 1 /\ s.next \in Nat /\ s.no \in Nat
      BY <1>1, <2>3
    <2>5. Numbered(b, w, s)
      OBVIOUS
    <2> HIDE DEF q, b, s
    <2>6. u.next - Len(q) = s.next - L /\ u.no - Len(q) = s.no - L
      <3> HIDE DEF L
      <3>1. \A x, y \in Int : (x + 1) - (y + 1) = x - y
        OBVIOUS
      <3>2. u.next - Len(q) = (s.next + 1) - (L + 1)
        BY <2>1, <2>4
      <3>3. u.no - Len(q) = (s.no + 1) - (L + 1)
        BY <2>1, <2>4
      <3>4. s.next \in Int /\ s.no \in Int /\ L \in Int
        BY <2>4
      <3> QED
        BY <3>1, <3>2, <3>3, <3>4
    <2>7. ASSUME NEW i \in DOMAIN q
          PROVE  /\ q[i].at = u.next - Len(q) + i - 1
                 /\ q[i].event.no = u.no - Len(q) + i
                 /\ q[i].event.by = w
      <3>1. CASE i = L + 1
        <4>1. q[i] = f
          BY <2>3, <3>1
        <4>2. u.next - Len(q) + i - 1 = s.next /\ u.no - Len(q) + i = s.no + 1
          BY <2>4, <2>6, <3>1
        <4> QED
          BY <2>2, <4>1, <4>2
      <3>2. CASE i # L + 1
        <4>1. i \in 1..L /\ i \in DOMAIN b
          BY <1>1, <2>3, <2>4, <3>2
        <4>2. /\ b[i].at = s.next - Len(b) + i - 1
              /\ b[i].event.no = s.no - Len(b) + i
              /\ b[i].event.by = w
          BY <2>5, <4>1 DEF Numbered
        <4>3. q[i] = b[i]
          BY <2>3, <4>1
        <4> QED
          BY <2>6, <4>2, <4>3
      <3> QED
        BY <3>1, <3>2
    <2>8. u.buffer \in Seq(Frame)
      BY DEF StreamState
    <2> QED
      BY <2>1, <2>6, <2>7, <2>8 DEF Numbered
  <1> QED
    BY <1>2, <1>3 DEF b

\* What a flush that does not fail makes of the stream and of the journal.
LEMMA FlushIs ==
    ASSUME Typed, ~Blips, row # "gone", NEW w \in Writer,
           NEW u \in StreamState, Unflushed(u), Flush(w, u),
           NEW K \in Nat, Dense(K), Numbered(u.buffer, w, u), u.next - Len(u.buffer) <= K
    PROVE  \E t \in StreamState :
             /\ Becomes(w, t) /\ Keeps(u, t)
             /\ t.next = u.next /\ t.no = u.no /\ t.stage = u.stage /\ t.errored = u.errored
             /\ t.buffer = <<>>
             /\ \/ /\ u.buffer = <<>> /\ journal' = journal
                   /\ t.pc = "ready"
                \/ /\ u.buffer # <<>> /\ u.next - Len(u.buffer) = K /\ Grows(K, u.buffer)
                   /\ t.pc = "publish" /\ t.work = u.buffer
                \/ /\ u.buffer # <<>> /\ Collides(u.buffer) /\ journal' = journal
                   /\ t.pc = "row" /\ t.work = u.buffer
  <1> DEFINE batch == u.buffer
             clear == [u EXCEPT !.buffer = <<>>, !.age = "fresh"]
             with(pc) == [clear EXCEPT !.work = batch, !.pc = pc]
  <1>1. /\ batch \in Seq(Frame) /\ <<>> \in Seq(Frame) /\ u.pc = "ready"
        /\ u.next \in Nat /\ Len(batch) \in Nat
    BY DEF StreamState, Unflushed
  <1>2. clear \in StreamState
    BY <1>1, StreamFields
  <1>3. /\ Keeps(u, clear) /\ clear.next = u.next /\ clear.no = u.no /\ clear.stage = u.stage
        /\ clear.errored = u.errored /\ clear.buffer = <<>> /\ clear.pc = "ready"
    BY <1>1 DEF StreamState, Keeps
  <1>4. \A pc \in {"row", "publish"} : with(pc) \in StreamState
    <2> HIDE DEF clear
    <2> QED
      BY <1>1, <1>2, StreamFields DEF Busy
  <1>5. \A pc \in {"row", "publish"} :
          LET t == with(pc) IN
          /\ Keeps(u, t) /\ t.next = u.next /\ t.no = u.no /\ t.stage = u.stage
          /\ t.errored = u.errored /\ t.buffer = <<>> /\ t.pc = pc /\ t.work = batch
    <2> HIDE DEF clear
    <2> QED
      BY <1>2, <1>3 DEF StreamState, Keeps
  <1>6. \/ batch = <<>> /\ Becomes(w, clear) /\ journal' = journal
        \/ batch # <<>> /\ Collides(batch) /\ Becomes(w, with("row")) /\ journal' = journal
        \/ batch # <<>> /\ ~Collides(batch) /\ Becomes(w, with("publish")) /\ journal' = Inserted(batch)
    BY DEF Flush, BulkRecorded, Becomes
  <1>7. ASSUME batch # <<>>, ~Collides(batch), journal' = Inserted(batch)
        PROVE  u.next - Len(batch) = K /\ Grows(K, batch)
    <2> DEFINE a == u.next - Len(batch)
    <2>1. a \in Int /\ \A i \in DOMAIN batch : batch[i].at = a + i - 1
      BY <1>1 DEF Numbered
    <2> HIDE DEF a, batch
    <2>2. a <= K
      BY DEF a, batch
    <2>3. a = K /\ Grows(K, batch)
      BY <1>1, <1>7, <2>1, <2>2, StreamIs, InsertedAtTip
    <2> QED
      BY <2>3 DEF a, batch
  <1> HIDE DEF clear, with
  <1> QED
    BY <1>2, <1>3, <1>4, <1>5, <1>6, <1>7


\* A step of w that commits nothing.
LEMMA QuietKeepsOrder ==
    ASSUME Typed, OrderInv, row # "gone", row' # "gone", journal' = journal,
           NEW K \in Nat, SyncedAt(K), NEW w \in Writer, NEW t, Becomes(w, t),
           ~t.latched, InSync(t, w, K), Behind(t, w)
    PROVE  OrderInv'
  <1>1. /\ \A v \in Writer : ~stream'[v].latched
        /\ stream'[w] = t /\ \A v \in Writer \ {w} : stream'[v] = stream[v]
    BY DEF Becomes, Typed, TypeOK, OrderInv
  <1>2. SyncedAt(K)'
    BY <1>1 DEF SyncedAt, Dense, InSync, Behind
  <1> QED
    BY <1>1, <1>2 DEF OrderInv, EmissionOrder

LEMMA WriteKeepsOrder ==
    ASSUME Typed, OrderInv, ~Blips, row # "gone", NEW w \in Writer, Write(w)
    PROVE  OrderInv'
  <1> DEFINE s == stream[w]
             lo == s.no - Len(s.buffer)
  <1>1. PICK K \in Nat : SyncedAt(K)
    BY DEF OrderInv
  <1>2. EmissionOrder /\ Dense(K) /\ ~s.latched /\ \A v \in Writer : ~stream[v].latched
    BY <1>1 DEF OrderInv, SyncedAt
  <1>3. s.pc = "ready" /\ row' = row
    BY WriteIs
  <1>4. PICK u \in StreamState :
          /\ Unflushed(u) /\ Keeps(s, u)
          /\ \/ Flush(w, u)
             \/ Becomes(w, u) /\ UNCHANGED journal
          /\ Drains(w, u) \/ \E ends \in {"no", "end", "error"} : Handed(w, u, ends)
    BY WriteIs
  <1>5. /\ s.next \in Nat /\ s.no \in Nat /\ s.buffer \in Seq(Frame) /\ Len(s.buffer) \in Nat
        /\ \A v \in Writer : stream[v] \in StreamState
    BY StreamNumbers, StreamIs DEF StreamTyped
  <1>6. /\ Numbered(s.buffer, w, s) /\ s.next - Len(s.buffer) <= K
        /\ \A n \in DOMAIN journal : journal[n].by = w => journal[n].no <= lo
    BY <1>1, <1>3 DEF SyncedAt, InSync, Behind, Pending
  <1>7. /\ Numbered(u.buffer, w, u) /\ u.buffer \in Seq(Frame)
        /\ u.next - Len(u.buffer) = s.next - Len(s.buffer)
        /\ u.no - Len(u.buffer) = lo
    BY <1>2, <1>3, <1>4, <1>6, HandedNumbered
  <1> HIDE DEF lo
  <1>8. u.pc = "ready" /\ u.next \in Nat /\ u.no \in Nat /\ Len(u.buffer) \in Nat /\ lo \in Int
    BY <1>4, <1>5, <1>7, SMTT(30) DEF Unflushed, StreamState, lo
  <1>9. \A i \in 1..Len(u.buffer) : u.buffer[i].event.by = w /\ u.buffer[i].event.no = lo + i
    <2> TAKE i \in 1..Len(u.buffer)
    <2>1. i \in DOMAIN u.buffer
      BY <1>7
    <2>2. u.buffer[i].event.by = w /\ u.buffer[i].event.no = u.no - Len(u.buffer) + i
      BY <1>7, <2>1 DEF Numbered
    <2> QED
      BY <1>7, <2>2
  <1>10. ASSUME NEW t \in StreamState, Becomes(w, t), t.latched = s.latched
         PROVE  /\ \A v \in Writer : ~stream'[v].latched
                /\ stream'[w] = t /\ \A v \in Writer \ {w} : stream'[v] = stream[v]
    BY <1>2, <1>10 DEF Becomes, Typed, TypeOK
  <1>11. CASE journal' = journal
    <2> SUFFICES ASSUME NEW t \in StreamState, Becomes(w, t), t.latched = s.latched,
                        t.pc \in {"ready", "row"}, Pending(t) = u.buffer,
                        t.next = u.next, t.no = u.no
                 PROVE  OrderInv'
      <3>1. CASE Becomes(w, u)
        BY <1>4, <1>8, <3>1 DEF Keeps, Pending
      <3>2. CASE Flush(w, u)
        <4>1. PICK t \in StreamState :
                /\ Becomes(w, t) /\ Keeps(u, t) /\ t.next = u.next /\ t.no = u.no /\ t.buffer = <<>>
                /\ \/ u.buffer = <<>> /\ t.pc = "ready"
                   \/ u.buffer # <<>> /\ Grows(K, u.buffer)
                   \/ t.pc = "row" /\ t.work = u.buffer
          BY <1>2, <1>4, <1>6, <1>7, <3>2, FlushIs
        <4>2. ~(u.buffer # <<>> /\ Grows(K, u.buffer))
          <5>1. SUFFICES ASSUME u.buffer # <<>>, Grows(K, u.buffer) PROVE FALSE
            OBVIOUS
          <5>2. Len(u.buffer) # 0
            BY <1>7, <5>1
          <5>3. DOMAIN journal' = 0..(K + Len(u.buffer) - 1) /\ DOMAIN journal = 0..(K - 1)
            BY <1>2, <5>1 DEF Grows, Dense
          <5>4. K \in DOMAIN journal' /\ K \notin DOMAIN journal
            BY <1>8, <5>2, <5>3
          <5> QED
            BY <1>11, <5>4
        <4> QED
          BY <1>4, <4>1, <4>2 DEF Keeps, Pending
      <3> QED
        BY <1>4, <3>1, <3>2
    <2>1. InSync(t, w, K)
      BY <1>6, <1>7 DEF InSync, Numbered
    <2>2. Behind(t, w)
      BY <1>6, <1>7 DEF Behind
    <2> QED
      BY <1>1, <1>2, <1>3, <1>11, <2>1, <2>2, QuietKeepsOrder
  <1>12. CASE journal' # journal
    <2>1. PICK t \in StreamState :
            /\ Becomes(w, t) /\ Keeps(u, t) /\ t.next = u.next /\ t.no = u.no
            /\ u.buffer # <<>> /\ u.next - Len(u.buffer) = K /\ Grows(K, u.buffer)
            /\ t.pc = "publish"
      BY <1>2, <1>4, <1>6, <1>7, <1>12, FlushIs
    <2>2. /\ \A v \in Writer : ~stream'[v].latched
          /\ stream'[w] = t /\ \A v \in Writer \ {w} : stream'[v] = stream[v]
      BY <1>4, <1>10, <2>1 DEF Keeps
    <2> DEFINE J == K + Len(u.buffer)
    <2>3. J \in Nat /\ t.next = J /\ Pending(t) = <<>>
      BY <1>8, <2>1 DEF Pending
    <2>4. InSync(stream'[w], w, J)
      BY <2>1, <2>2, <2>3 DEF InSync, Numbered
    <2>5. Behind(stream[w], w)'
      <3>1. SUFFICES ASSUME NEW n \in DOMAIN journal', journal'[n].by = w
                     PROVE  journal'[n].no <= t.no
        <4>1. t.no \in Nat /\ t.no - Len(Pending(t)) = t.no
          BY <1>8, <2>1, <2>3
        <4> QED
          BY <2>2, <4>1 DEF Behind
      <3>2. t.no = lo + Len(u.buffer)
        BY <1>7, <1>8, <2>1
      <3>3. n \in 0..(K + Len(u.buffer) - 1)
        BY <2>1 DEF Grows
      <3>4. CASE n \in 0..(K - 1)
        <4>1. journal'[n] = journal[n] /\ n \in DOMAIN journal
          BY <1>2, <2>1, <3>4 DEF Grows, Dense
        <4>2. journal[n].no <= lo /\ journal[n].no \in Int
          BY <1>6, <3>1, <4>1, ConstantsAssumption DEF Typed, TypeOK, Event
        <4> QED
          BY <1>8, <3>2, <4>1, <4>2
      <3>5. CASE n \notin 0..(K - 1)
        <4> DEFINE i == n - K + 1
        <4>1. i \in 1..Len(u.buffer) /\ K + i - 1 = n
          BY <1>8, <3>3, <3>5
        <4> HIDE DEF i
        <4>2. journal'[K + i - 1] = u.buffer[i].event
          BY <2>1, <4>1 DEF Grows
        <4> QED
          BY <1>8, <1>9, <3>2, <4>1, <4>2
      <3> QED
        BY <3>4, <3>5
    <2> HIDE DEF J
    <2>6. EmissionOrder' /\ SyncedAt(J)'
      BY <1>1, <1>2, <1>3, <1>6, <1>7, <1>8, <1>9, <2>1, <2>2, <2>3, <2>4, <2>5, GrowthKeepsOrder DEF J
    <2> QED
      BY <1>3, <2>2, <2>3, <2>6 DEF OrderInv
  <1> QED
    BY <1>11, <1>12

\* The rest of a numbered sequence is numbered.
LEMMA TailNumbered ==
    ASSUME NEW q \in Seq(Frame), q # <<>>, NEW w, NEW s, Numbered(q, w, s),
           s.next \in Nat, s.no \in Nat
    PROVE  /\ Numbered(Tail(q), w, s)
           /\ Len(Tail(q)) = Len(q) - 1 /\ Len(q) \in Nat /\ Len(q) >= 1
           /\ Head(q) \in Frame
           /\ Head(q).at = s.next - Len(q)
           /\ Head(q).event.no = s.no - Len(q) + 1
           /\ Head(q).event.by = w
  <1> DEFINE rest == Tail(q)
  <1>1. /\ Len(rest) = Len(q) - 1 /\ Len(q) \in Nat /\ Len(q) >= 1 /\ DOMAIN rest = 1..Len(rest)
        /\ \A i \in 1..Len(rest) : rest[i] = q[i + 1]
        /\ Head(q) = q[1] /\ Head(q) \in Frame /\ DOMAIN q = 1..Len(q)
    OBVIOUS
  <1> HIDE DEF rest
  <1>2. ASSUME NEW i \in DOMAIN rest
        PROVE  /\ rest[i].at = s.next - Len(rest) + i - 1
               /\ rest[i].event.no = s.no - Len(rest) + i
               /\ rest[i].event.by = w
    <2>1. i + 1 \in DOMAIN q /\ rest[i] = q[i + 1] /\ i \in Int
      BY <1>1
    <2>2. /\ q[i + 1].at = s.next - Len(q) + (i + 1) - 1
          /\ q[i + 1].event.no = s.no - Len(q) + (i + 1)
          /\ q[i + 1].event.by = w
      BY <2>1 DEF Numbered
    <2>3. \A x, l, j \in Int : x - (l - 1) + j - 1 = x - l + (j + 1) - 1
      OBVIOUS
    <2>4. \A x, l, j \in Int : x - (l - 1) + j = x - l + (j + 1)
      OBVIOUS
    <2>5. Len(rest) = Len(q) - 1 /\ Len(q) \in Int /\ i \in Int /\ s.next \in Int /\ s.no \in Int
      BY <1>1, <2>1
    <2>6. s.next - Len(rest) + i - 1 = s.next - Len(q) + (i + 1) - 1
      BY <2>3, <2>5, SMTT(30)
    <2>7. s.no - Len(rest) + i = s.no - Len(q) + (i + 1)
      <3> DEFINE x == s.no
                 l == Len(q)
      <3>1. x \in Int /\ l \in Int /\ i \in Int
        BY <2>5
      <3> HIDE DEF x, l
      <3>2. x - (l - 1) + i = x - l + (i + 1)
        BY <2>4, <3>1
      <3> QED
        BY <2>5, <3>2 DEF x, l
    <2> QED
      BY <2>1, <2>2, <2>6, <2>7
  <1>3. 1 \in DOMAIN q
    BY <1>1
  <1>4. q[1].at = s.next - Len(q) + 1 - 1 /\ q[1].event.no = s.no - Len(q) + 1 /\ q[1].event.by = w
    BY <1>3 DEF Numbered
  <1> QED
    BY <1>1, <1>2, <1>4 DEF Numbered, rest

LEMMA PoppedIs ==
    ASSUME NEW s \in StreamState, NEW pc \in {"publish", "row"}
    PROVE  LET t == Popped(s, pc) IN
           /\ t.pc = IF Len(s.work) > 1 THEN pc ELSE "ready"
           /\ t.work = Tail(s.work) /\ t.buffer = s.buffer
           /\ t.next = s.next /\ t.no = s.no /\ t.stage = s.stage /\ t.errored = s.errored
           /\ Keeps(s, t)
  <1> DEFINE end == IF Len(s.work) > 1 THEN pc ELSE "ready"
  <1>1. Popped(s, pc) = [s EXCEPT !.work = Tail(s.work), !.single = FALSE, !.pc = end]
    BY DEF Popped
  <1> HIDE DEF end
  <1>2. LET t == Popped(s, pc) IN
        /\ t.pc = end
        /\ t.work = Tail(s.work) /\ t.buffer = s.buffer
        /\ t.next = s.next /\ t.no = s.no /\ t.stage = s.stage /\ t.errored = s.errored
        /\ Keeps(s, t)
    BY <1>1 DEF StreamState, Keeps
  <1> QED
    BY <1>2 DEF end

\* What may come of an INSERT that does not fail: it is at the end of the
\* journal; the number was taken; the second number was taken too.
LEMMA InsertIs ==
    ASSUME Typed, ~Blips, row # "gone", NEW w \in Writer, InsertRow(w)
    PROVE  LET s == stream[w]
               at == IF s.pc = "retry" THEN s.at ELSE Head(s.work).at
               t == stream'[w]
           IN /\ s.pc \in {"row", "retry"} /\ row' = row /\ paused' = paused /\ client' = client
              /\ Becomes(w, t)
              /\ t.next = s.next /\ t.no = s.no /\ t.stage = s.stage /\ t.errored = s.errored
              /\ t.buffer = s.buffer /\ Keeps(s, t)
              /\ \/ /\ at \notin DOMAIN journal
                    /\ journal' = Inserted(<<[at |-> at, event |-> Head(s.work).event]>>)
                    /\ t.pc = "publishRow" /\ t.at = at /\ t.work = s.work
                 \/ /\ s.pc = "row" /\ at \in DOMAIN journal /\ journal' = journal
                    /\ t.pc = "retry" /\ t.at = Latest + 1 /\ t.work = s.work
                 \/ /\ s.pc = "retry" /\ at \in DOMAIN journal /\ journal' = journal
                    /\ \/ t.pc = "publishRow" /\ t.work = s.work
                       \/ /\ t.pc = IF Len(s.work) > 1 THEN "row" ELSE "ready"
                          /\ t.work = Tail(s.work)
  <1> DEFINE s == stream[w]
             at == IF s.pc = "retry" THEN s.at ELSE Head(s.work).at
             t == stream'[w]
             written == [s EXCEPT !.pc = "publishRow", !.at = at]
             again == [s EXCEPT !.pc = "retry", !.at = Latest + 1]
             tried == [s EXCEPT !.at = at]
             direct == [tried EXCEPT !.pc = "publishRow"]
  <1>1. s \in StreamState /\ ShapeOf(s) /\ stream \in [Writer -> StreamState]
    BY StreamIs DEF StreamTyped, Typed, TypeOK
  <1>2. s.pc \in {"row", "retry"} /\ row' = row /\ paused' = paused /\ client' = client
    BY DEF InsertRow
  <1>3. \/ /\ at \notin DOMAIN journal /\ t = written
           /\ journal' = Inserted(<<[at |-> at, event |-> Head(s.work).event]>>)
        \/ /\ s.pc = "row" /\ at \in DOMAIN journal /\ journal' = journal /\ t = again
        \/ /\ s.pc = "retry" /\ at \in DOMAIN journal /\ journal' = journal
           /\ t = direct \/ t = Popped(tried, "row")
    <2>1. Unwritten(tried) = direct \/ Unwritten(tried) = Popped(tried, "row")
      BY DEF Unwritten
    <2> QED
      BY <1>1, <1>2, <2>1 DEF InsertRow
  <1>4. Becomes(w, t)
    BY <1>1, <1>3 DEF InsertRow, Becomes
  <1> HIDE DEF at, t
  <1>5. at \in Nat
    <2>1. s.work \in Seq(Frame) /\ s.work # <<>> /\ s.at \in Nat
      BY <1>1, <1>2 DEF StreamState, ShapeOf, Busy
    <2>2. Head(s.work) \in Frame
      BY <2>1
    <2> QED
      BY <2>1, <2>2 DEF at, Frame
  <1>6. tried \in StreamState
    <2> HIDE DEF s
    <2> QED
      BY <1>1, <1>5, StreamFields
  <1>7. /\ tried.next = s.next /\ tried.no = s.no /\ tried.stage = s.stage
        /\ tried.errored = s.errored /\ tried.buffer = s.buffer /\ Keeps(s, tried)
        /\ tried.work = s.work
    <2> HIDE DEF s
    <2> QED
      BY <1>1 DEF StreamState, Keeps
  <1>8. \A x \in {written, again, direct} :
          /\ x.next = s.next /\ x.no = s.no /\ x.stage = s.stage /\ x.errored = s.errored
          /\ x.buffer = s.buffer /\ Keeps(s, x) /\ x.work = s.work
    <2> HIDE DEF s
    <2> QED
      BY <1>1, ZenonT(40) DEF StreamState, Keeps
  <1>9. /\ written.pc = "publishRow" /\ written.at = at
        /\ again.pc = "retry" /\ again.at = Latest + 1
        /\ direct.pc = "publishRow"
    <2> HIDE DEF s
    <2> QED
      BY <1>1 DEF StreamState
  <1>10. LET x == Popped(tried, "row") IN
         /\ x.next = s.next /\ x.no = s.no /\ x.stage = s.stage /\ x.errored = s.errored
         /\ x.buffer = s.buffer /\ Keeps(s, x) /\ x.work = Tail(s.work)
         /\ x.pc = IF Len(s.work) > 1 THEN "row" ELSE "ready"
    <2> HIDE DEF tried
    <2> QED
      BY <1>6, <1>7, PoppedIs DEF Keeps
  <1> HIDE DEF written, again, tried, direct, s
  <1>11. /\ t.next = s.next /\ t.no = s.no /\ t.stage = s.stage /\ t.errored = s.errored
         /\ t.buffer = s.buffer /\ Keeps(s, t)
    BY <1>3, <1>8, <1>10
  <1>12. \/ /\ at \notin DOMAIN journal
            /\ journal' = Inserted(<<[at |-> at, event |-> Head(s.work).event]>>)
            /\ t.pc = "publishRow" /\ t.at = at /\ t.work = s.work
         \/ /\ s.pc = "row" /\ at \in DOMAIN journal /\ journal' = journal
            /\ t.pc = "retry" /\ t.at = Latest + 1 /\ t.work = s.work
         \/ /\ s.pc = "retry" /\ at \in DOMAIN journal /\ journal' = journal
            /\ \/ t.pc = "publishRow" /\ t.work = s.work
               \/ /\ t.pc = IF Len(s.work) > 1 THEN "row" ELSE "ready"
                  /\ t.work = Tail(s.work)
    BY <1>3, <1>8, <1>9, <1>10
  <1> QED
    BY <1>2, <1>4, <1>11, <1>12 DEF at, t, s

\* What is left to commit once the first event of the batch is done with.
LEMMA TailOfOne ==
    ASSUME NEW q \in Seq(Frame), q # <<>>, ~(Len(q) > 1) PROVE Tail(q) = <<>>
  <1> DEFINE rest == Tail(q)
  <1>1. rest \in Seq(Frame) /\ Len(rest) = Len(q) - 1 /\ Len(q) \in Nat /\ Len(q) >= 1
    OBVIOUS
  <1> HIDE DEF rest
  <1>2. Len(rest) = 0
    BY <1>1
  <1>3. rest = <<>>
    BY <1>1, <1>2
  <1> QED
    BY <1>3 DEF rest

LEMMA CommitKeepsOrder ==
    ASSUME Typed, OrderInv, ~Blips, row # "gone", NEW w \in Writer,
           Publish(w) \/ InsertRow(w) \/ PublishRow(w)
    PROVE  OrderInv'
  <1> DEFINE s == stream[w]
             q == s.work
             lo == s.no - Len(q)
  <1>1. PICK K \in Nat : SyncedAt(K)
    BY DEF OrderInv
  <1>2. EmissionOrder /\ Dense(K) /\ ~s.latched /\ InSync(s, w, K) /\ Behind(s, w)
    BY <1>1 DEF OrderInv, SyncedAt
  <1>3. s \in StreamState /\ s.pc \in Busy
    BY StreamIs DEF StreamTyped, Publish, InsertRow, PublishRow, Busy
  <1>4. q # <<>> /\ s.buffer = <<>> /\ ShapeOf(s) /\ stream \in [Writer -> StreamState]
    BY <1>3, StreamIs DEF StreamTyped, ShapeOf, Busy, Typed, TypeOK
  <1>5. s.next \in Nat /\ s.no \in Nat /\ q \in Seq(Frame) /\ Len(q) \in Nat /\ s.at \in Nat
    BY StreamNumbers
  <1>6. CASE Publish(w)
    <2> DEFINE t == Popped(s, "publish")
    <2>1. Becomes(w, t) /\ journal' = journal /\ row' = row /\ s.pc = "publish"
      BY <1>6 DEF Publish, Becomes
    <2>2. /\ t.pc \in {"publish", "ready"} /\ t.buffer = <<>>
          /\ t.next = s.next /\ t.no = s.no /\ t.latched = s.latched
      BY <1>3, <1>4, PoppedIs DEF Keeps
    <2> HIDE DEF t
    <2>3. Pending(t) = <<>> /\ Pending(s) = <<>>
      BY <2>1, <2>2 DEF Pending
    <2>4. InSync(t, w, K)
      BY <1>2, <2>1, <2>2, <2>3 DEF InSync, Numbered
    <2>5. Behind(t, w)
      BY <1>2, <2>1, <2>2, <2>3 DEF Behind
    <2> QED
      BY <1>1, <1>2, <2>1, <2>2, <2>4, <2>5, QuietKeepsOrder
  <1>7. CASE PublishRow(w)
    <2> DEFINE t == Popped(s, "row")
    <2>1. Becomes(w, t) /\ journal' = journal /\ row' = row /\ s.pc = "publishRow"
      BY <1>7 DEF PublishRow, Becomes
    <2>2. /\ t.pc = IF Len(q) > 1 THEN "row" ELSE "ready"
          /\ t.buffer = <<>> /\ t.work = Tail(q)
          /\ t.next = s.next /\ t.no = s.no /\ t.latched = s.latched
      BY <1>3, <1>4, PoppedIs DEF Keeps
    <2> HIDE DEF t
    <2>3. Pending(t) = Pending(s)
      BY <1>4, <1>5, <2>1, <2>2, TailOfOne DEF Pending
    <2>4. InSync(t, w, K)
      BY <1>2, <2>1, <2>2, <2>3 DEF InSync, Numbered
    <2>5. Behind(t, w)
      BY <1>2, <2>1, <2>2, <2>3 DEF Behind
    <2> QED
      BY <1>1, <1>2, <2>1, <2>2, <2>4, <2>5, QuietKeepsOrder
  <1>8. CASE InsertRow(w)
    <2> DEFINE at == IF s.pc = "retry" THEN s.at ELSE Head(q).at
               t == stream'[w]
    <2>1. /\ s.pc \in {"row", "retry"} /\ row' = row /\ Becomes(w, t)
          /\ t.next = s.next /\ t.no = s.no /\ t.buffer = <<>> /\ t.latched = s.latched
          /\ \/ /\ at \notin DOMAIN journal
                /\ journal' = Inserted(<<[at |-> at, event |-> Head(q).event]>>)
                /\ t.pc = "publishRow" /\ t.work = q
             \/ /\ s.pc = "row" /\ at \in DOMAIN journal /\ journal' = journal
                /\ t.pc = "retry" /\ t.at = Latest + 1 /\ t.work = q
             \/ /\ s.pc = "retry" /\ at \in DOMAIN journal /\ journal' = journal
                /\ \/ t.pc = "publishRow" /\ t.work = q
                   \/ t.pc = (IF Len(q) > 1 THEN "row" ELSE "ready") /\ t.work = Tail(q)
      BY <1>4, <1>8, InsertIs DEF Keeps
    <2>2. /\ Numbered(q, w, s) /\ s.next - Len(q) <= K
          /\ s.pc = "retry" => s.at <= K /\ s.next - Len(q) < K
          /\ \A n \in DOMAIN journal : journal[n].by = w => journal[n].no <= lo
      BY <1>2, <2>1 DEF InSync, Behind, Pending
    <2>3. /\ Numbered(Tail(q), w, s) /\ Len(Tail(q)) = Len(q) - 1 /\ Len(q) >= 1
          /\ Head(q) \in Frame /\ Head(q).at = s.next - Len(q)
          /\ Head(q).event.no = lo + 1 /\ Head(q).event.by = w
      <3>1. Numbered(q, w, s) /\ q \in Seq(Frame) /\ q # <<>> /\ s.next \in Nat /\ s.no \in Nat
        BY <1>4, <1>5, <2>2
      <3> HIDE DEF q, s
      <3>2. /\ Numbered(Tail(q), w, s) /\ Len(Tail(q)) = Len(q) - 1 /\ Len(q) >= 1
            /\ Head(q) \in Frame /\ Head(q).at = s.next - Len(q)
            /\ Head(q).event.no = s.no - Len(q) + 1 /\ Head(q).event.by = w
        <4> HIDE DEF lo
        <4> QED
          BY <3>1, TailNumbered
      <3> QED
        BY <3>2
    <2>4. at \in Nat /\ at <= K /\ Head(q).event \in Event
      BY <1>5, <2>2, <2>3 DEF Frame
    <2>5. s.no - Len(Tail(q)) = lo + 1 /\ s.next - Len(Tail(q)) = s.next - Len(q) + 1 /\ lo \in Int
      <3> DEFINE l == Len(q)
                 m == Len(Tail(q))
                 x == s.no
                 y == s.next
      <3>1. x \in Nat /\ y \in Nat /\ l \in Nat /\ m = l - 1
        BY <1>5, <2>3
      <3> HIDE DEF l, m, x, y
      <3>2. x - m = x - l + 1 /\ y - m = y - l + 1 /\ x - l \in Int
        BY <3>1
      <3> QED
        BY <3>2 DEF l, m, x, y
    <2>6. \A n \in DOMAIN journal : journal[n].no \in Int
      BY ConstantsAssumption DEF Typed, TypeOK, Event
    <2> HIDE DEF at, t, lo
    <2>7. \A v \in Writer : v # w => stream'[v] = stream[v]
      BY <2>1 DEF Becomes
    <2>8. ASSUME Pending(t) = Tail(q), t.pc # "retry", NEW J \in Nat, s.next - Len(q) < J
          PROVE  InSync(t, w, J)
      <3>1. Numbered(Tail(q), w, t)
        BY <2>1, <2>3 DEF Numbered
      <3>2. t.next - Len(Tail(q)) <= J
        BY <1>5, <2>1, <2>5, <2>8
      <3> QED
        BY <2>8, <3>1, <3>2 DEF InSync
    <2>9. CASE at \notin DOMAIN journal
      <3> DEFINE f == [at |-> at, event |-> Head(q).event]
                 J == K + 1
      <3>1. journal' = Inserted(<<f>>) /\ t.pc = "publishRow" /\ t.work = q
        BY <2>1, <2>9
      <3>2. at = K /\ Grows(K, <<f>>)
        BY <1>2, <2>4, <2>9, <3>1, StreamIs, OneAtTip
      <3>3. <<f>> \in Seq(Frame) /\ f.event.by = w /\ f.event.no = lo + 1
        BY <2>3, <2>4 DEF Frame
      <3> HIDE DEF f
      <3>4. Len(<<f>>) = 1 /\ <<f>>[1] = f /\ J \in Nat /\ Pending(t) = Tail(q)
        BY <3>1 DEF Pending
      <3>5. InSync(t, w, J)
        <4>1. s.next - Len(q) < J
          BY <1>5, <2>2
        <4> QED
          BY <2>8, <3>1, <3>4, <4>1
      <3>6. Behind(stream[w], w)'
        <4> SUFFICES ASSUME NEW n \in DOMAIN journal', journal'[n].by = w
                     PROVE  journal'[n].no <= lo + 1
          BY <2>1, <2>5, <3>4 DEF Behind, t
        <4>1. n \in 0..K
          BY <3>2, <3>4 DEF Grows
        <4>2. CASE n = K
          <5>1. journal'[K + 1 - 1] = <<f>>[1].event
            BY <3>2, <3>4 DEF Grows
          <5> QED
            BY <2>5, <3>3, <3>4, <4>2, <5>1
        <4>3. CASE n # K
          <5>1. n \in DOMAIN journal /\ journal'[n] = journal[n]
            BY <1>2, <3>2, <4>1, <4>3 DEF Grows, Dense
          <5> QED
            BY <2>2, <2>5, <2>6, <5>1
        <4> QED
          BY <4>2, <4>3
      <3>7. EmissionOrder' /\ SyncedAt(J)'
        <4>1. \A i \in 1..Len(<<f>>) : <<f>>[i].event.by = w /\ <<f>>[i].event.no = lo + i
          BY <3>3, <3>4
        <4>2. J = K + Len(<<f>>) /\ row' # "gone"
          BY <2>1, <3>4
        <4>3. InSync(stream'[w], w, J)
          BY <3>5 DEF t
        <4> HIDE DEF J
        <4> QED
          BY <1>1, <1>2, <2>2, <2>5, <2>7, <3>2, <3>3, <3>4, <3>6, <4>1, <4>2, <4>3, GrowthKeepsOrder
      <3>8. \A v \in Writer : ~stream'[v].latched
        BY <1>2, <2>1, <2>7 DEF OrderInv, t
      <3> QED
        BY <2>1, <3>4, <3>7, <3>8 DEF OrderInv
    <2>10. CASE at \in DOMAIN journal
      <3>1. ~t.latched /\ journal' = journal
        BY <1>2, <2>1, <2>10
      <3>2. CASE t.pc = "retry"
        <4>1. s.pc = "row" /\ t.at = Latest + 1 /\ t.work = q
          BY <2>1, <2>10, <3>2
        <4>2. at = s.next - Len(q) /\ at < K
          BY <1>2, <2>3, <2>10, <4>1 DEF Dense, at
        <4>3. Latest + 1 = K
          <5>1. Latest \in DOMAIN journal /\ \A n \in DOMAIN journal : n <= Latest
            <6>1. Bounded /\ DOMAIN journal \subseteq Nat
              BY DEF Typed, TypeOK, Shape
            <6>2. Latest \in DOMAIN journal \cup {-1} /\ \A n \in DOMAIN journal : n <= Latest
              BY <6>1, LatestIs
            <6>3. at <= Latest /\ at \in Nat
              BY <2>4, <2>10, <6>2
            <6>4. Latest # -1
              BY <6>3
            <6> QED
              BY <6>2, <6>4
          <5> QED
            BY <1>2, <4>2, <5>1 DEF Dense
        <4>4. Pending(t) = q /\ Numbered(q, w, t)
          BY <2>1, <2>2, <3>2, <4>1 DEF Pending, Numbered
        <4>5. InSync(t, w, K)
          BY <2>1, <2>2, <4>1, <4>2, <4>3, <4>4 DEF InSync
        <4>6. Behind(t, w)
          BY <2>1, <2>2, <4>4 DEF Behind, lo
        <4> QED
          BY <1>1, <2>1, <3>1, <4>5, <4>6, QuietKeepsOrder
      <3>3. CASE t.pc # "retry"
        <4>1. s.pc = "retry" /\ Pending(t) = Tail(q)
          BY <1>4, <1>5, <2>1, <2>10, <3>3, TailOfOne DEF Pending
        <4>2. InSync(t, w, K)
          BY <2>2, <2>8, <3>3, <4>1
        <4>3. Behind(t, w)
          BY <2>1, <2>2, <2>5, <2>6, <4>1 DEF Behind
        <4> QED
          BY <1>1, <2>1, <3>1, <4>2, <4>3, QuietKeepsOrder
      <3> QED
        BY <3>2, <3>3
    <2> QED
      BY <2>9, <2>10
  <1> QED
    BY <1>6, <1>7, <1>8

LEMMA LatestOfDense ==
    ASSUME Typed, NEW K \in Nat, Dense(K) PROVE Latest + 1 = K
  <1>1. Bounded /\ DOMAIN journal = 0..(K - 1)
    BY DEF Typed, Shape, Dense
  <1>2. Latest \in DOMAIN journal \cup {-1} /\ \A n \in DOMAIN journal : n <= Latest
    BY <1>1, LatestIs
  <1>3. K # 0 => K - 1 \in DOMAIN journal
    BY <1>1
  <1> QED
    BY <1>1, <1>2, <1>3

LEMMA OtherKeepsOrder ==
    ASSUME Typed, OrderInv, ~Blips, row # "gone", NEW w \in Writer,
           Resume(w) \/ Finish(w) \/ Fail(w) \/ AbortEnds(w) \/ Crash(w) \/ IntervalPasses(w)
    PROVE  OrderInv'
  <1> DEFINE s == stream[w]
  <1>1. PICK K \in Nat : SyncedAt(K)
    BY DEF OrderInv
  <1>2. Dense(K) /\ ~s.latched /\ InSync(s, w, K) /\ Behind(s, w)
    BY <1>1 DEF OrderInv, SyncedAt
  <1>3. s \in StreamState /\ ShapeOf(s)
    BY StreamIs DEF StreamTyped
  <1>4. s.next \in Nat /\ s.no \in Nat
    BY StreamNumbers
  <1>5. journal' = journal /\ row' # "gone"
    BY DEF Resume, Finish, Fail, AbortEnds, Crash, IntervalPasses
  <1>6. CASE Resume(w)
    <2> DEFINE t == [IdleStream EXCEPT !.pc = "ready", !.base = K, !.next = K]
    <2>1. Becomes(w, t) /\ s.pc = "idle"
      <3>1. Latest + 1 = K
        BY <1>2, LatestOfDense
      <3> QED
        BY <1>6, <3>1 DEF Resume, Becomes
    <2>2. /\ t.pc = "ready" /\ t.next = K /\ t.no = 0 /\ t.buffer = <<>> /\ ~t.latched
          /\ s.no = 0
      BY <1>3, <2>1 DEF ShapeOf, IdleStream
    <2> HIDE DEF t
    <2>3. Pending(t) = <<>> /\ Pending(s) = <<>>
      BY <2>1, <2>2 DEF Pending
    <2>4. InSync(t, w, K)
      BY <2>2, <2>3 DEF InSync, Numbered
    <2>5. Behind(t, w)
      BY <1>2, <2>1, <2>2, <2>3 DEF Behind
    <2> QED
      BY <1>1, <1>5, <2>1, <2>2, <2>4, <2>5, QuietKeepsOrder
  <1>7. CASE Finish(w) \/ Fail(w) \/ IntervalPasses(w)
    <2>1. PICK t : /\ Becomes(w, t)
                   /\ \/ \E v \in {"finished", "failed"} : t = [s EXCEPT !.stage = v]
                      \/ \E v \in {"due", "late"} : t = [s EXCEPT !.age = v]
      BY <1>3, <1>7 DEF Finish, Fail, IntervalPasses, Becomes
    <2> HIDE DEF s
    <2>2. /\ t.pc = s.pc /\ t.next = s.next /\ t.no = s.no /\ t.buffer = s.buffer
          /\ t.work = s.work /\ t.latched = s.latched /\ t.at = s.at
      BY <1>3, <2>1 DEF StreamState
    <2>3. Pending(t) = Pending(s)
      BY <2>2 DEF Pending
    <2>4. InSync(t, w, K)
      BY <1>2, <2>2, <2>3 DEF InSync, Numbered
    <2>5. Behind(t, w)
      BY <1>2, <2>2, <2>3 DEF Behind
    <2> QED
      BY <1>1, <1>2, <1>5, <2>1, <2>2, <2>4, <2>5, QuietKeepsOrder
  <1>8. CASE AbortEnds(w)
    <2>1. PICK ends : Becomes(w, [s EXCEPT !.stage = "closed", !.pc = "row", !.single = TRUE,
                                           !.no = @ + 1, !.next = @ + 1,
                                           !.work = <<EventFrame(w, ends)>>])
      BY <1>8 DEF AbortEnds, Becomes, EventFrame
    <2> DEFINE f == EventFrame(w, ends)
               t == [s EXCEPT !.stage = "closed", !.pc = "row", !.single = TRUE,
                              !.no = @ + 1, !.next = @ + 1, !.work = <<f>>]
    <2>2. f.at = s.next /\ f.event.no = s.no + 1 /\ f.event.by = w
      BY DEF EventFrame
    <2>3. s.pc = "ready" /\ s.buffer = <<>> /\ Pending(s) = <<>>
      BY <1>3, <1>8 DEF AbortEnds, Ready, ShapeOf, Pending
    <2> HIDE DEF f
    <2>4. /\ t.pc = "row" /\ t.next = s.next + 1 /\ t.no = s.no + 1 /\ t.work = <<f>>
          /\ t.latched = s.latched
      <3> HIDE DEF s
      <3> QED
        BY <1>3 DEF StreamState
    <2>5. Becomes(w, t)
      BY <2>1 DEF f
    <2> HIDE DEF t
    <2>6. /\ Pending(t) = <<f>> /\ Len(<<f>>) = 1 /\ DOMAIN <<f>> = {1} /\ <<f>>[1] = f
      BY <2>4 DEF Pending
    <2>7. /\ t.next - 1 = s.next /\ t.no - 1 = s.no /\ t.next - 1 + 1 - 1 = s.next
          /\ t.no - 1 + 1 = s.no + 1
      BY <1>4, <2>4
    <2>8. Numbered(<<f>>, w, t)
      BY <2>2, <2>6, <2>7 DEF Numbered
    <2>9. s.next <= K /\ \A n \in DOMAIN journal : journal[n].by = w => journal[n].no <= s.no
      BY <1>2, <1>4, <2>3 DEF InSync, Behind
    <2>10. InSync(t, w, K)
      BY <2>4, <2>6, <2>7, <2>8, <2>9 DEF InSync
    <2>11. Behind(t, w)
      BY <2>6, <2>7, <2>9 DEF Behind
    <2> QED
      BY <1>1, <1>2, <1>5, <2>4, <2>5, <2>10, <2>11, QuietKeepsOrder
  <1>9. CASE Crash(w)
    <2>1. PICK n : Becomes(w, [s EXCEPT !.pc = "dead", !.no = n, !.stage = "aborted",
                                        !.buffer = <<>>, !.work = <<>>])
      BY <1>9 DEF Crash, Becomes
    <2> DEFINE t == [s EXCEPT !.pc = "dead", !.no = n, !.stage = "aborted",
                              !.buffer = <<>>, !.work = <<>>]
    <2>2. t.pc = "dead" /\ t.latched = s.latched
      BY <1>3 DEF StreamState
    <2>3. InSync(t, w, K) /\ Behind(t, w)
      BY <2>2 DEF InSync, Behind
    <2> QED
      BY <1>1, <1>2, <1>5, <2>1, <2>2, <2>3, QuietKeepsOrder
  <1> QED
    BY <1>6, <1>7, <1>8, <1>9

\* A row that was truncated away stays away, and its journal with it.
LEMMA GoneStays == row = "gone" /\ [Next]_vars => row' = "gone" /\ journal' = journal
  <1> SUFFICES ASSUME row = "gone", Next PROVE row' = "gone" /\ journal' = journal
    BY DEF vars
  <1>1. \A w, s : Flush(w, s) => journal' = journal
    BY DEF Flush
  <1>2. \A w, s : Record(w, s) => journal' = journal
    BY <1>1 DEF Record
  <1>3. ASSUME NEW w \in Writer, StreamStep(w) PROVE row' = "gone" /\ journal' = journal
    <2>1. CASE Emit(w) \/ AgentError(w) \/ Pause(w) \/ Close(w) \/ Abort(w) \/ Superseded(w)
      BY <1>1, <1>2, <2>1 DEF Emit, AgentError, Pause, Close, Abort, Superseded
    <2>2. CASE Resume(w) \/ Finish(w) \/ Fail(w) \/ AbortEnds(w) \/ Crash(w) \/ IntervalPasses(w)
      BY <2>2 DEF Resume, Finish, Fail, AbortEnds, Crash, IntervalPasses
    <2>3. CASE Publish(w) \/ InsertRow(w) \/ PublishRow(w)
      BY <2>3 DEF Publish, InsertRow, PublishRow
    <2> QED
      BY <1>3, <2>1, <2>2, <2>3 DEF StreamStep
  <1>4. ASSUME NEW r \in Reader, ClientStep(r) PROVE row' = "gone" /\ journal' = journal
    BY <1>4 DEF ClientStep, Connect, Snapshot, SnapshotOnly, Break, Deliver, Watchdog
  <1>5. ~DeleteRow /\ ~ReconcileRow
    BY DEF DeleteRow, ReconcileRow
  <1> QED
    BY <1>3, <1>4, <1>5 DEF Next

LEMMA InitOrder == Init => OrderInv
  <1> SUFFICES ASSUME Init PROVE OrderInv
    OBVIOUS
  <1>1. /\ row = "open" /\ journal = <<>>
        /\ \A w \in Writer : \/ stream[w] = [IdleStream EXCEPT !.pc = "ready"]
                             \/ stream[w] = IdleStream
    BY DEF Init
  <1>2. Dense(0) /\ EmissionOrder
    BY <1>1 DEF Dense, EmissionOrder
  <1>3. ASSUME NEW w \in Writer
        PROVE  ~stream[w].latched /\ InSync(stream[w], w, 0) /\ Behind(stream[w], w)
    <2> DEFINE s == stream[w]
    <2>1. /\ s.pc \in {"ready", "idle"} /\ s.next = 0 /\ s.buffer = <<>> /\ ~s.latched
      BY <1>1 DEF IdleStream
    <2>2. Pending(s) = <<>>
      BY <2>1 DEF Pending
    <2> HIDE DEF s
    <2>3. InSync(s, w, 0) /\ Behind(s, w)
      BY <1>1, <2>1, <2>2 DEF InSync, Numbered, Behind
    <2> QED
      BY <2>1, <2>3 DEF s
  <1> QED
    BY <1>1, <1>2, <1>3 DEF OrderInv, SyncedAt

LEMMA NextOrder ==
    ASSUME ~Blips PROVE Typed /\ OrderInv /\ [Next]_vars => OrderInv'
  <1> SUFFICES ASSUME Typed, OrderInv, [Next]_vars PROVE OrderInv'
    OBVIOUS
  <1>1. CASE row = "gone"
    BY <1>1, GoneStays DEF OrderInv
  <1>2. CASE row # "gone" /\ UNCHANGED <<journal, stream>> /\ row' # "gone"
    BY <1>2 DEF OrderInv, EmissionOrder, SyncedAt, Dense, InSync, Behind
  <1>3. CASE DeleteRow
    BY <1>3 DEF DeleteRow, OrderInv
  <1>4. ASSUME row # "gone", NEW w \in Writer, StreamStep(w) PROVE OrderInv'
    BY <1>4, WriteKeepsOrder, CommitKeepsOrder, OtherKeepsOrder DEF StreamStep, Write
  <1>5. ASSUME row # "gone", NEW r \in Reader, ClientStep(r) PROVE OrderInv'
    BY <1>2, <1>5 DEF ClientStep, Connect, Snapshot, SnapshotOnly, Break, Deliver, Watchdog
  <1>6. ASSUME row # "gone", ReconcileRow \/ UNCHANGED vars PROVE OrderInv'
    BY <1>2, <1>6 DEF ReconcileRow, vars
  <1> QED
    BY <1>1, <1>3, <1>4, <1>5, <1>6 DEF Next

\* While no database call fails the journal has no gaps, and every stream's next
\* number is at most the one after the journal's last (record_event's retry and
\* the bulk commit insert at its end only).
THEOREM OrderAlways == ASSUME ~Blips PROVE Spec => []OrderInv
  BY InitOrder, NextOrder, TypeAlways, PTL DEF Spec

\* As long as no database call fails, the streams of a message put their events
\* into the journal in the order they were sent and none twice, although a
\* batch that collides is written again row by row, under new numbers.
THEOREM JournalInOrder == ASSUME ~Blips PROVE Spec => []EmissionOrder
  <1>1. Typed /\ OrderInv => EmissionOrder
    <2>1. ASSUME journal = <<>> PROVE EmissionOrder
      BY <2>1 DEF EmissionOrder
    <2> QED
      BY <2>1 DEF OrderInv
  <1> QED
    BY <1>1, OrderAlways, TypeAlways, PTL
=============================================================================
