--------------------------- MODULE IngestIndexProofs ---------------------------
(***************************************************************************)
(* Proofs about IngestIndex for any number of runs, chunks, retries and    *)
(* deliveries and any faults.                                              *)
(***************************************************************************)
EXTENDS IngestIndex, TLAPS

-----------------------------------------------------------------------------
\* The inductive invariant

\* The first n chunks of what r found.
Part(r, n) == {r} \X (0..(n - 1))

Undisturbed == latest # NoRun /\ latest \notin spoiled

\* The checkpoint is of a run that has begun; if nothing has disturbed that
\* run it is the last that began, and no other run's checkpoint is in its way.
RowIsLatest ==
    /\ row.run # NoRun => work[row.run].pc # "none"
    /\ row.run # NoRun /\ row.run \notin spoiled => row.run = latest
    /\ Undisturbed => row.run \in {latest, NoRun}

\* Nobody works beside an undisturbed run.
Alone == Undisturbed => Busy \subseteq {latest}

\* The checkpoint is not ahead of the run.
RowBehind(r) ==
    row.run = r /\ work[r].pc \in Working => row.embedded <= work[r].at

\* What the checkpoint counts is stored, and nothing of another run with it,
\* except while FAISS is being built in memory.
Kept(r) ==
    /\ ~Faiss \/ work[r].pc \notin {"embed", "record", "abort"}
    /\ row.run = r /\ row.embedded > 0
    => Part(r, row.embedded) \subseteq index /\ index \subseteq Chunks(r)

\* A resumed run finds what it leaves out.
Resumed(r) ==
    work[r].pc = "open" /\ work[r].at > 0
    => Part(r, work[r].at) \subseteq index /\ index \subseteq Chunks(r)

\* What a run builds has all that it has passed, and nothing else.
Built(r) ==
    /\ work[r].pc \in {"embed", "record", "abort", "check", "finish"}
       => Part(r, work[r].at) \subseteq Stored(r) /\ Stored(r) \subseteq Chunks(r)
    /\ work[r].pc = "record"
       => work[r].at < Size /\ <<r, work[r].at>> \in Stored(r)
    /\ work[r].pc \in {"check", "finish"}
       => work[r].at = Size /\ index = Stored(r)
    /\ work[r].pc = "done" => index = Chunks(r)

Sound(r) == RowBehind(r) /\ Kept(r) /\ Resumed(r) /\ Built(r)

LatestIsSound == \A r \in Run : r = latest /\ r \notin spoiled => Sound(r)

\* A chunk that has been embedded is one of the source's.
InRange == \A r \in Run : work[r].pc = "record" => work[r].at < Size

IInv == TypeOK /\ InRange /\ RowIsLatest /\ Alone /\ LatestIsSound

-----------------------------------------------------------------------------
\* Chunks

USE DEF Place

LEMMA PartZero == ASSUME NEW r PROVE Part(r, 0) = {}
  BY DEF Part

LEMMA PartWhole == ASSUME NEW r PROVE Part(r, Size) = Chunks(r)
  BY DEF Part, Chunks

LEMMA PartGrows == ASSUME NEW r, NEW n \in Nat
                   PROVE Part(r, n + 1) = Part(r, n) \cup {<<r, n>>}
  <1>1. 0..((n + 1) - 1) = (0..(n - 1)) \cup {n} OBVIOUS
  <1> QED BY <1>1 DEF Part

LEMMA PartMono == ASSUME NEW r, NEW m \in Nat, NEW n \in Nat, m <= n
                  PROVE Part(r, m) \subseteq Part(r, n)
  <1>1. 0..(m - 1) \subseteq 0..(n - 1) OBVIOUS
  <1> QED BY <1>1 DEF Part

LEMMA ChunkOfRun == ASSUME NEW r \in Run, NEW n \in Nat, n < Size
                    PROVE <<r, n>> \in Chunks(r) /\ <<r, n>> \in Chunk
  BY ConstantsAssumption DEF Chunks, Chunk

-----------------------------------------------------------------------------
\* Type correctness

WorkState == [pc: {"none", "queued", "done", "failed"} \cup Working,
              at: 0..Size, tries: 0..MaxRetries, starts: 1..MaxStarts]

RowState == [run: Run \cup {NoRun}, embedded: 0..Size,
             status: {"active", "stalled"}, late: BOOLEAN]

LEMMA MovedType ==
  ASSUME TypeOK, NEW r \in Run,
         NEW pc \in {"none", "queued", "done", "failed"} \cup Working
  PROVE  /\ Moved(r, pc) \in [Run -> WorkState]
         /\ \A v \in Run : v # r => Moved(r, pc)[v] = work[v]
         /\ Moved(r, pc)[r].pc = pc /\ Moved(r, pc)[r].at = work[r].at
  <1>1. work \in [Run -> WorkState] BY DEF TypeOK, WorkState
  <1>2. Moved(r, pc) = [work EXCEPT ![r].pc = pc] BY DEF Moved
  <1> QED BY <1>1, <1>2 DEF WorkState

LEMMA RaisedType ==
  ASSUME TypeOK, NEW r \in Run
  PROVE  /\ Raised(r) \in [Run -> WorkState]
         /\ \A v \in Run : v # r => Raised(r)[v] = work[v]
         /\ Raised(r)[r].pc \in {"queued", "failed"}
         /\ Raised(r)[r].at = work[r].at
  <1>1. work \in [Run -> WorkState] BY DEF TypeOK, WorkState
  <1>2. CASE r = First /\ work[r].tries < MaxRetries
    <2>1. Raised(r) = [work EXCEPT ![r].pc = "queued", ![r].tries = @ + 1]
      BY <1>2 DEF Raised
    <2>2. work[r].tries + 1 \in 0..MaxRetries
      BY <1>1, <1>2, ConstantsAssumption DEF WorkState
    <2> QED BY <1>1, <2>1, <2>2 DEF WorkState
  <1>3. CASE ~(r = First /\ work[r].tries < MaxRetries)
    <2>1. Raised(r) = [work EXCEPT ![r].pc = "failed"] BY <1>3 DEF Raised
    <2> QED BY <1>1, <2>1 DEF WorkState
  <1> QED BY <1>2, <1>3

LEMMA PlacedType ==
  ASSUME TypeOK, NEW r \in Run, NEW pc \in Working, NEW n \in 0..Size,
         work' = [work EXCEPT ![r].pc = pc, ![r].at = n]
  PROVE  /\ work' \in [Run -> WorkState]
         /\ \A v \in Run : v # r => work'[v] = work[v]
         /\ work'[r].pc = pc /\ work'[r].at = n
  <1>1. work \in [Run -> WorkState] BY DEF TypeOK, WorkState
  <1>2. pc \in {"none", "queued", "done", "failed"} \cup Working OBVIOUS
  <1> QED BY <1>1, <1>2 DEF WorkState

LEMMA RecordedType ==
  ASSUME TypeOK, NEW n \in 0..Size, NEW new \in Recorded(n)
  PROVE  /\ new \in RowState
         /\ new.run = row.run
         /\ new.embedded \in {row.embedded, n}
  BY DEF TypeOK, RowState, Recorded
LEMMA TypesOf ==
  ASSUME TypeOK
  PROVE  /\ setup.store \in {"external", "faiss"} /\ row \in RowState
         /\ work \in [Run -> WorkState] /\ memory \in [Run -> SUBSET Chunk]
         /\ index \in SUBSET Chunk /\ Size \in Nat /\ Size > 0 /\ Size \in 0..Size
         /\ \A r \in Run : /\ work[r].at \in 0..Size /\ memory[r] \in SUBSET Chunk
                           /\ Stored(r) \in SUBSET Chunk
  BY ConstantsAssumption DEF TypeOK, RowState, WorkState, Stored

LEMMA InitTypeOK == ASSUME Init PROVE TypeOK
  <1>1. setup \in [store: {"external", "faiss"}, loader: {"file", "remote"}]
    BY ConstantsAssumption DEF Init
  <1>2. 0 \in 0..Size /\ 0 \in 0..MaxRetries /\ 1 \in 1..MaxStarts
    BY ConstantsAssumption
  <1>3. row \in RowState BY <1>2 DEF Init, NoRow, RowState
  <1>4. work \in [Run -> WorkState] BY <1>2 DEF Init, WorkState
  <1> QED BY <1>1, <1>3, <1>4 DEF Init, TypeOK, RowState, WorkState

LEMMA TypeOKStep == ASSUME TypeOK, InRange, [Next]_vars PROVE TypeOK'
  <1> USE DEF TypeOK, RowState, WorkState, sourceVars
  <1>0. /\ Size \in Nat \ {0} /\ MaxRetries \in Nat /\ MaxStarts \in Nat \ {0}
        /\ 0 \in 0..Size /\ 1 \in 0..Size /\ Size \in 0..Size
    BY ConstantsAssumption
  <1>1. ASSUME NEW r \in Run, LoadFails(r) PROVE TypeOK'
    BY <1>1, MovedType, RaisedType DEF LoadFails
  <1>2. ASSUME NEW r \in Run, Start(r) PROVE TypeOK'
    <2>1. row' \in RowState
      BY <1>0, <1>2 DEF Start, InitProgress
    <2>2. work' \in [Run -> WorkState]
      <3>1. row'.embedded \in 0..Size /\ "open" \in Working BY <2>1 DEF Working
      <3>2. work' = [work EXCEPT ![r].pc = "open", ![r].at = row'.embedded]
        BY <1>2 DEF Start
      <3> HIDE DEF TypeOK, WorkState
      <3> QED BY <3>1, <3>2, PlacedType
    <2>3. latest' \in Run \cup {NoRun} /\ spoiled' \in SUBSET Run
      BY <1>2 DEF Start, Crowd, Busy
    <2> QED BY <1>2, <2>1, <2>2, <2>3 DEF Start
  <1>3. ASSUME NEW r \in Run, StartBlind(r) PROVE TypeOK'
    <2>1. work' \in [Run -> WorkState]
      <3>1. work' = [work EXCEPT ![r].pc = "open", ![r].at = 0]
        BY <1>3 DEF StartBlind
      <3>2. "open" \in Working BY DEF Working
      <3> HIDE DEF TypeOK, WorkState
      <3> QED BY <1>0, <3>1, <3>2, PlacedType
    <2>2. latest' \in Run \cup {NoRun} /\ spoiled' \in SUBSET Run
      BY <1>3 DEF StartBlind, Begun
    <2> QED BY <1>3, <2>1, <2>2 DEF StartBlind
  <1>4. ASSUME NEW r \in Run, Work(r) PROVE TypeOK'
    <2>1. CASE OpenExternal(r)
      BY <2>1, MovedType DEF OpenExternal, Working
    <2>2. CASE SeedFaiss(r)
      <3>1. {<<r, 0>>} \in SUBSET Chunk BY <1>0 DEF Chunk
      <3>2. row' \in RowState BY <1>0, <2>2, RecordedType DEF SeedFaiss
      <3>3. work' \in [Run -> WorkState]
        <4>1. work' = [work EXCEPT ![r].pc = "embed", ![r].at = 1]
          BY <2>2 DEF SeedFaiss
        <4>2. "embed" \in Working BY DEF Working
        <4> HIDE DEF TypeOK, WorkState
        <4> QED BY <1>0, <4>1, <4>2, PlacedType
      <3> QED BY <2>2, <3>1, <3>2, <3>3 DEF SeedFaiss
    <2>3. CASE LoadFaiss(r)
      BY <2>3, MovedType DEF LoadFaiss, Working
    <2>4. CASE OpenFails(r)
      BY <2>4, RaisedType DEF OpenFails
    <2>5. CASE Embed(r)
      <3>1. <<r, work[r].at>> \in Chunk BY <2>5, ChunkOfRun DEF Embed
      <3>2. work' \in [Run -> WorkState] BY <2>5, MovedType DEF Embed, Working
      <3>3. index' \in SUBSET Chunk /\ memory' \in [Run -> SUBSET Chunk]
        <4>1. memory[r] \cup {<<r, work[r].at>>} \in SUBSET Chunk BY <3>1
        <4>2. index \cup {<<r, work[r].at>>} \in SUBSET Chunk BY <3>1
        <4> QED BY <2>5, <4>1, <4>2 DEF Embed
      <3> QED BY <2>5, <3>2, <3>3 DEF Embed
    <2>6. CASE ChunkFails(r)
      BY <2>6, MovedType DEF ChunkFails, Working
    <2>7. CASE Record(r)
      <3>1. work[r].at + 1 \in 0..Size BY <1>0, <2>7 DEF InRange, Record, At
      <3>2. row' \in RowState BY <2>7, <3>1, RecordedType DEF Record
      <3>3. work' \in [Run -> WorkState]
        <4>1. work' = [work EXCEPT ![r].pc = "embed", ![r].at = work[r].at + 1]
          BY <2>7 DEF Record
        <4>2. "embed" \in Working BY DEF Working
        <4> HIDE DEF TypeOK, WorkState
        <4> QED BY <3>1, <4>1, <4>2, PlacedType
      <3> QED BY <2>7, <3>2, <3>3 DEF Record
    <2>8. CASE Save(r)
      BY <2>8, MovedType, TypesOf DEF Save, Working
    <2>9. CASE Abort(r)
      BY <2>9, RaisedType, TypesOf DEF Abort
    <2>10. CASE SaveFails(r)
      BY <2>10, RaisedType DEF SaveFails
    <2>11. CASE Check(r)
      <3>1. work' = Raised(r) \/ work' = Moved(r, "finish") BY <2>11 DEF Check
      <3>2. work' \in [Run -> WorkState]
        <4>1. "finish" \in Working BY DEF Working
        <4> HIDE DEF TypeOK, WorkState
        <4> QED BY <3>1, <4>1, RaisedType, MovedType
      <3> QED BY <2>11, <3>2 DEF Check
    <2>12. CASE Finish(r)
      BY <2>12, MovedType, TypesOf DEF Finish
    <2>13. CASE FinishFails(r)
      BY <2>13, RaisedType DEF FinishFails
    <2> QED BY <1>4, <2>1, <2>2, <2>3, <2>4, <2>5, <2>6, <2>7, <2>8, <2>9,
               <2>10, <2>11, <2>12, <2>13 DEF Work
  <1>5. ASSUME NEW r \in Run, Crash(r) PROVE TypeOK'
    <2>1. work' \in [Run -> WorkState]
      <3>1. CASE /\ work[r].starts < MaxStarts
                 /\ work' = [work EXCEPT ![r].pc = "queued", ![r].starts = @ + 1]
        BY <1>0, <3>1
      <3>2. CASE work' = Moved(r, "failed") BY <3>2, MovedType
      <3> QED BY <1>5, <3>1, <3>2 DEF Crash
    <2>2. spoiled' \in SUBSET Run BY <1>5 DEF Crash
    <2> QED BY <1>5, <2>1, <2>2 DEF Crash
  <1>6. ASSUME NEW r \in Run, Sync(r) PROVE TypeOK'
    BY <1>6, MovedType DEF Sync
  <1>7. ASSUME NEW r \in Run, Beat(r) PROVE TypeOK'
    BY <1>7 DEF Beat
  <1>8. CASE Reingest
    <2>1. row' \in RowState
      <3>1. NoRow \in RowState BY <1>0 DEF NoRow
      <3>2. row' = NoRow \/ row' = row BY <1>8 DEF Reingest
      <3> QED BY <3>1, <3>2
    <2>2. reingest' \in BOOLEAN BY <1>8 DEF Reingest
    <2> QED BY <1>8, <2>1, <2>2 DEF Reingest
  <1>9. CASE RowAges BY <1>9 DEF RowAges
  <1>10. CASE Stall BY <1>10 DEF Stall
  <1>11. CASE UNCHANGED vars BY <1>11 DEF vars
  <1>12. CASE ReingestIdle BY <1>12 DEF ReingestIdle
  <1>13. CASE ReingestEdits
    <2>1. PICK found \in SUBSET Place :
            /\ \E gone \in SUBSET (files \ found), back \in SUBSET (found \ files) :
                 index' = (index \ (Run \X gone)) \cup ({First} \X back)
            /\ files' \in {files, found}
      <3>1. Found \subseteq SUBSET Place BY DEF Found
      <3> QED BY <1>13, <3>1 DEF ReingestEdits
    <2>2. PICK gone \in SUBSET (files \ found), back \in SUBSET (found \ files) :
            index' = (index \ (Run \X gone)) \cup ({First} \X back)
      BY <2>1
    <2>3. {First} \X back \in SUBSET Chunk
      BY <2>2, ConstantsAssumption DEF Chunk
    <2>4. index' \in SUBSET Chunk /\ files' \in SUBSET Place BY <2>1, <2>2, <2>3
    <2> QED BY <1>13, <2>4 DEF ReingestEdits
  <1> QED BY <1>1, <1>2, <1>3, <1>4, <1>5, <1>6, <1>7, <1>8, <1>9, <1>10, <1>11,
          <1>12, <1>13 DEF Next
-----------------------------------------------------------------------------
\* What each step does to the runs

\* A run at work goes on, raises, or takes its place in the text.
GoesOn(r) == \/ work' = Moved(r, "embed")
             \/ work' = Moved(r, "record") /\ work[r].at < Size
             \/ work' = Moved(r, "abort")
             \/ work' = Moved(r, "check")
             \/ work' = Moved(r, "finish")
             \/ work' = Moved(r, "done")

Places(r) == \E n \in 0..Size : work' = [work EXCEPT ![r].pc = "embed", ![r].at = n]

LEMMA WorkMoves ==
  ASSUME TypeOK, InRange, NEW r \in Run, Work(r)
  PROVE  /\ r \in Busy
         /\ GoesOn(r) \/ work' = Raised(r) \/ Places(r)
  <1> USE DEF At, Busy, Working
  <1>1. CASE OpenExternal(r) BY <1>1 DEF OpenExternal, GoesOn
  <1>2. CASE SeedFaiss(r)
    <2>1. 1 \in 0..Size BY ConstantsAssumption
    <2> QED BY <1>2, <2>1 DEF SeedFaiss, Places
  <1>3. CASE LoadFaiss(r) BY <1>3 DEF LoadFaiss, GoesOn
  <1>4. CASE OpenFails(r) BY <1>4 DEF OpenFails
  <1>5. CASE Embed(r) BY <1>5 DEF Embed, GoesOn
  <1>6. CASE ChunkFails(r) BY <1>6 DEF ChunkFails, GoesOn
  <1>7. CASE Record(r)
    <2>1. work[r].at + 1 \in 0..Size
      BY <1>7, ConstantsAssumption, TypesOf DEF Record, InRange
    <2>2. work' = [work EXCEPT ![r].pc = "embed", ![r].at = work[r].at + 1]
      BY <1>7 DEF Record
    <2> QED BY <1>7, <2>1, <2>2 DEF Record, Places
  <1>8. CASE Save(r) BY <1>8 DEF Save, Embedded, GoesOn
  <1>9. CASE Abort(r) BY <1>9 DEF Abort
  <1>10. CASE SaveFails(r) BY <1>10 DEF SaveFails, Embedded
  <1>11. CASE Check(r) BY <1>11 DEF Check, GoesOn
  <1>12. CASE Finish(r) BY <1>12 DEF Finish, GoesOn
  <1>13. CASE FinishFails(r) BY <1>13 DEF FinishFails
  <1> QED BY <1>1, <1>2, <1>3, <1>4, <1>5, <1>6, <1>7, <1>8, <1>9, <1>10,
             <1>11, <1>12, <1>13 DEF Work

\* Only r moves.
LEMMA MovesOnly ==
  ASSUME TypeOK, InRange, NEW r \in Run, Work(r)
  PROVE  /\ \A v \in Run : v # r => work'[v] = work[v]
         /\ work'[r].pc = "record" => work'[r].at < Size
         /\ work'[r].pc # "none"
  <1>1. CASE GoesOn(r)
    <2>1. \A pc \in Working \cup {"done"} :
            /\ Moved(r, pc)[r].pc = pc /\ Moved(r, pc)[r].at = work[r].at
            /\ \A v \in Run : v # r => Moved(r, pc)[v] = work[v]
      <3>1. Working \cup {"done"} \subseteq
              {"none", "queued", "done", "failed"} \cup Working
        OBVIOUS
      <3> QED BY <3>1, MovedType
    <2>2. {"embed", "record", "abort", "check", "finish"} \subseteq Working
      BY DEF Working
    <2> QED BY <1>1, <2>1, <2>2 DEF GoesOn
  <1>2. CASE work' = Raised(r) BY <1>2, RaisedType
  <1>3. CASE Places(r)
    <2>1. PICK n \in 0..Size : work' = [work EXCEPT ![r].pc = "embed", ![r].at = n]
      BY <1>3 DEF Places
    <2>2. "embed" \in Working BY DEF Working
    <2>3. /\ \A v \in Run : v # r => work'[v] = work[v]
          /\ work'[r].pc = "embed"
      BY <2>1, <2>2, PlacedType
    <2> QED BY <2>3
  <1> QED BY <1>1, <1>2, <1>3, WorkMoves

LEMMA CrashMoves ==
  ASSUME TypeOK, NEW r \in Run, Crash(r)
  PROVE  /\ work' \in [Run -> WorkState]
         /\ \A v \in Run : v # r => work'[v] = work[v]
         /\ work'[r].pc \in {"queued", "failed"}
         /\ work'[r].at = work[r].at
  <1>1. work \in [Run -> WorkState] BY TypesOf
  <1>2. CASE /\ work[r].starts < MaxStarts
             /\ work' = [work EXCEPT ![r].pc = "queued", ![r].starts = @ + 1]
    BY <1>1, <1>2, ConstantsAssumption DEF WorkState
  <1>3. CASE work' = Moved(r, "failed")
    BY <1>3, MovedType
  <1> QED BY <1>2, <1>3 DEF Crash

LEMMA StartMoves ==
  ASSUME TypeOK, NEW r \in Run, Start(r) \/ StartBlind(r)
  PROVE  /\ \A v \in Run : v # r => work'[v] = work[v]
         /\ work'[r].pc = "open"
         /\ Start(r) => work'[r].at = row'.embedded
  <1>1. work \in [Run -> WorkState] BY TypesOf
  <1>2. CASE Start(r) BY <1>1, <1>2 DEF Start, WorkState
  <1>3. CASE StartBlind(r) /\ ~Start(r) BY <1>1, <1>3 DEF StartBlind, WorkState
  <1> QED BY <1>2, <1>3

LEMMA InRangeStep == ASSUME TypeOK, InRange, [Next]_vars PROVE InRange'
  <1>1. ASSUME NEW r \in Run, LoadFails(r) PROVE InRange'
    <2>1. CASE work' = Raised(r) BY <2>1, RaisedType DEF InRange
    <2>2. CASE work' = Moved(r, "failed")
      BY <2>2, MovedType DEF InRange
    <2> QED BY <1>1, <2>1, <2>2 DEF LoadFails
  <1>2. ASSUME NEW r \in Run, Start(r) \/ StartBlind(r) PROVE InRange'
    BY <1>2, StartMoves DEF InRange
  <1>3. ASSUME NEW r \in Run, Work(r) PROVE InRange'
    BY <1>3, MovesOnly DEF InRange
  <1>4. ASSUME NEW r \in Run, Crash(r) PROVE InRange'
    BY <1>4, CrashMoves DEF InRange
  <1>5. ASSUME NEW r \in Run, Sync(r) PROVE InRange'
    <2>1. work' = Moved(r, "queued") BY <1>5 DEF Sync
    <2> QED BY <2>1, MovedType DEF InRange
  <1>6. ASSUME UNCHANGED work PROVE InRange' BY <1>6 DEF InRange
  <1> QED BY <1>1, <1>2, <1>3, <1>4, <1>5, <1>6
          DEF Next, Beat, Reingest, ReingestIdle, ReingestEdits, RowAges, Stall, vars
-----------------------------------------------------------------------------
\* Whose the checkpoint is, and who is at work

LEMMA WorkKeeps ==
  ASSUME TypeOK, InRange, NEW r \in Run, Work(r)
  PROVE  /\ latest' = latest /\ setup' = setup
         /\ spoiled \subseteq spoiled'
         /\ row'.run = row.run
  <1>1. CASE SeedFaiss(r)
    <2>1. 1 \in 0..Size BY ConstantsAssumption
    <2> QED BY <1>1, <2>1, RecordedType DEF SeedFaiss
  <1>2. CASE Record(r)
    <2>1. work[r].at + 1 \in 0..Size
      BY <1>2, ConstantsAssumption, TypesOf DEF Record, InRange, At
    <2> QED BY <1>2, <2>1, RecordedType DEF Record
  <1>3. CASE ~SeedFaiss(r) /\ ~Record(r)
    BY <1>3 DEF Work, OpenExternal, LoadFaiss, OpenFails, Embed, ChunkFails,
                Save, Abort, SaveFails, Check, Finish, FinishFails
  <1> QED BY <1>1, <1>2, <1>3

LEMMA RowIsLatestStep ==
  ASSUME TypeOK, InRange, RowIsLatest, [Next]_vars PROVE RowIsLatest'
  <1>1. ASSUME NEW r \in Run, LoadFails(r) PROVE RowIsLatest'
    <2>1. \A v \in Run : work'[v].pc = "none" => work[v].pc = "none"
      BY <1>1, RaisedType, MovedType DEF LoadFails
    <2> QED BY <1>1, <2>1 DEF LoadFails, RowIsLatest, Undisturbed, TypeOK
  <1>2. ASSUME NEW r \in Run, Start(r) PROVE RowIsLatest'
    BY <1>2, StartMoves DEF Start, InitProgress, RowIsLatest, Undisturbed
  <1>3. ASSUME NEW r \in Run, StartBlind(r) PROVE RowIsLatest'
    <2>1. \A v \in Run : work'[v].pc = "none" => work[v].pc = "none"
      BY <1>3, StartMoves
    <2>2. r \in spoiled' /\ latest' = r BY <1>3 DEF StartBlind, Begun, At
    <2>3. row.run # NoRun => row.run \in spoiled'
      BY <1>3 DEF StartBlind, Begun, RowIsLatest, TypeOK
    <2> QED BY <1>3, <2>1, <2>2, <2>3
            DEF StartBlind, RowIsLatest, Undisturbed, TypeOK
  <1>4. ASSUME NEW r \in Run, Work(r) PROVE RowIsLatest'
    <2>1. \A v \in Run : work'[v].pc = "none" => work[v].pc = "none"
      BY <1>4, MovesOnly
    <2> QED BY <1>4, <2>1, WorkKeeps DEF RowIsLatest, Undisturbed, TypeOK
  <1>5. ASSUME NEW r \in Run, Crash(r) PROVE RowIsLatest'
    <2>1. \A v \in Run : work'[v].pc = "none" => work[v].pc = "none"
      BY <1>5, CrashMoves
    <2>2. row' = row /\ latest' = latest /\ spoiled \subseteq spoiled'
      BY <1>5 DEF Crash
    <2> QED BY <2>1, <2>2 DEF RowIsLatest, Undisturbed, TypeOK
  <1>6. ASSUME NEW r \in Run, Sync(r) PROVE RowIsLatest'
    <2>1. work' = Moved(r, "queued") BY <1>6 DEF Sync
    <2>2. \A v \in Run : work'[v].pc = "none" => work[v].pc = "none"
      BY <2>1, MovedType
    <2> QED BY <1>6, <2>2 DEF Sync, RowIsLatest, Undisturbed, TypeOK
  <1>7. ASSUME NEW r \in Run, Beat(r) PROVE RowIsLatest'
    BY <1>7 DEF Beat, RowIsLatest, Undisturbed, TypeOK
  <1>8. CASE Reingest
    BY <1>8 DEF Reingest, NoRow, RowIsLatest, Undisturbed
  <1>11. CASE ReingestIdle
    BY <1>11 DEF ReingestIdle, RowIsLatest, Undisturbed
  <1>12. CASE ReingestEdits
    BY <1>12 DEF ReingestEdits, RowIsLatest, Undisturbed, TypeOK
  <1>9. CASE RowAges \/ Stall
    BY <1>9 DEF RowAges, Stall, RowIsLatest, Undisturbed, TypeOK
  <1>10. CASE UNCHANGED vars
    BY <1>10 DEF vars, RowIsLatest, Undisturbed
  <1> QED BY <1>1, <1>2, <1>3, <1>4, <1>5, <1>6, <1>7, <1>8, <1>9, <1>10,
          <1>11, <1>12 DEF Next

LEMMA AloneStep ==
  ASSUME TypeOK, InRange, Alone, [Next]_vars PROVE Alone'
  <1>1. ASSUME NEW r \in Run, LoadFails(r) PROVE Alone'
    <2>1. /\ work'[r].pc \in {"queued", "failed"}
          /\ \A v \in Run : v # r => work'[v] = work[v]
      BY <1>1, RaisedType, MovedType DEF LoadFails
    <2>2. Busy' \subseteq Busy BY <2>1 DEF Busy, Working
    <2> QED BY <1>1, <2>2 DEF LoadFails, Alone, Undisturbed
  <1>2. ASSUME NEW r \in Run, Start(r) PROVE Alone'
    <2>1. CASE Busy = {}
      <3>1. Busy' \subseteq {r} BY <1>2, <2>1, StartMoves DEF Busy
      <3> QED BY <1>2, <3>1 DEF Start, Alone
    <2>2. CASE Busy # {}
      BY <1>2, <2>2 DEF Start, Crowd, Alone, Undisturbed
    <2> QED BY <2>1, <2>2
  <1>3. ASSUME NEW r \in Run, StartBlind(r) PROVE Alone'
    BY <1>3 DEF StartBlind, Begun, At, Alone, Undisturbed
  <1>4. ASSUME NEW r \in Run, Work(r) PROVE Alone'
    <2>1. Busy' \subseteq Busy BY <1>4, MovesOnly, WorkMoves DEF Busy
    <2> QED BY <1>4, <2>1, WorkKeeps DEF Alone, Undisturbed
  <1>5. ASSUME NEW r \in Run, Crash(r) PROVE Alone'
    <2>1. Busy' \subseteq Busy BY <1>5, CrashMoves DEF Busy, Working
    <2>2. latest' = latest /\ spoiled \subseteq spoiled' BY <1>5 DEF Crash
    <2> QED BY <2>1, <2>2 DEF Alone, Undisturbed
  <1>6. ASSUME NEW r \in Run, Sync(r) PROVE Alone'
    <2>1. work' = Moved(r, "queued") BY <1>6 DEF Sync
    <2>2. work'[r].pc = "queued" /\ \A v \in Run : v # r => work'[v] = work[v]
      BY <2>1, MovedType
    <2>3. Busy' \subseteq Busy BY <2>2 DEF Busy, Working
    <2> QED BY <1>6, <2>3 DEF Sync, Alone, Undisturbed
  <1>7. ASSUME UNCHANGED <<work, latest, spoiled>> PROVE Alone'
    BY <1>7 DEF Alone, Undisturbed, Busy
  <1>8. CASE ReingestEdits BY <1>8 DEF ReingestEdits, Alone, Undisturbed, TypeOK
  <1> QED BY <1>1, <1>2, <1>3, <1>4, <1>5, <1>6, <1>7, <1>8
          DEF Next, Beat, Reingest, ReingestIdle, RowAges, Stall, vars
-----------------------------------------------------------------------------
\* What the run that began last has done

LEMMA SoundFrame ==
  ASSUME NEW r \in Run, Sound(r), work'[r] = work[r],
         row'.run = row.run, row'.embedded = row.embedded,
         index' = index, memory' = memory, setup' = setup
  PROVE  Sound(r)'
  BY DEF Sound, RowBehind, Kept, Resumed, Built, Stored, Faiss

\* A run that goes back to the queue, or gives up, with its index stored.
LEMMA SoundIdle ==
  ASSUME NEW r \in Run, Kept(r), work'[r].pc \in {"queued", "failed"},
         ~Faiss \/ work[r].pc \notin {"embed", "record", "abort"},
         row' = row, index' = index, setup' = setup
  PROVE  Sound(r)'
  <1>1. work'[r].pc \notin Working BY DEF Working
  <1> QED BY <1>1 DEF Sound, RowBehind, Kept, Resumed, Built, Faiss

LEMMA SoundStart ==
  ASSUME IInv, NEW r \in Run, Start(r), r \notin spoiled' PROVE Sound(r)'
  <1>1. /\ row'.run = r
        /\ row'.embedded = IF row.run = r THEN row.embedded ELSE 0
        /\ work[r].pc = "queued" /\ index' = index /\ setup' = setup
        /\ r \notin spoiled
    BY DEF Start, InitProgress, At
  <1>2. work'[r].pc = "open" /\ work'[r].at = row'.embedded
    BY StartMoves DEF IInv
  <1>3. RowBehind(r)' BY <1>1, <1>2, TypesOf DEF RowBehind, IInv, RowState
  <1>4. row'.embedded > 0
          => Part(r, row'.embedded) \subseteq index /\ index \subseteq Chunks(r)
    <2>1. CASE row.run = r
      <3>1. r # NoRun BY ConstantsAssumption
      <3>2. r = latest BY <1>1, <2>1, <3>1 DEF IInv, RowIsLatest
      <3>3. Kept(r) BY <1>1, <3>2 DEF IInv, LatestIsSound, Sound
      <3> QED BY <1>1, <2>1, <3>3 DEF Kept
    <2>2. CASE row.run # r BY <1>1, <2>2
    <2> QED BY <2>1, <2>2
  <1>5. Kept(r)' BY <1>1, <1>4 DEF Kept, Chunks, Part
  <1>6. Resumed(r)' BY <1>1, <1>2, <1>4 DEF Resumed, Chunks, Part
  <1>7. Built(r)' BY <1>2 DEF Built
  <1> QED BY <1>3, <1>5, <1>6, <1>7 DEF Sound

\* At the end of the text, and where a run stops for a chunk, what it built
\* covers the checkpoint.
LEMMA StoredCovers ==
  ASSUME TypeOK, NEW r \in Run, Sound(r),
         work[r].pc \in {"embed", "abort", "check", "finish"}, row.run = r
  PROVE  /\ Part(r, row.embedded) \subseteq Stored(r)
         /\ Stored(r) \subseteq Chunks(r)
  <1>1. row.embedded \in Nat /\ work[r].at \in Nat
    BY TypesOf DEF RowState
  <1>2. row.embedded <= work[r].at BY DEF Sound, RowBehind, Working
  <1>3. Part(r, work[r].at) \subseteq Stored(r) /\ Stored(r) \subseteq Chunks(r)
    BY DEF Sound, Built
  <1> QED BY <1>1, <1>2, <1>3, PartMono
LEMMA SoundOpen ==
  ASSUME TypeOK, NEW r \in Run, Sound(r),
         OpenExternal(r) \/ SeedFaiss(r) \/ LoadFaiss(r) \/ OpenFails(r)
  PROVE  Sound(r)'
  <1> USE DEF Chunks, Part
  <1>1. /\ work[r].at \in Nat /\ row.embedded \in Nat /\ Size \in Nat /\ Size > 0
        /\ work[r].pc = "open" /\ setup' = setup
    BY TypesOf
    DEF RowState, OpenExternal, SeedFaiss, LoadFaiss, OpenFails, At
  <1>2. CASE OpenExternal(r)
    <2>1. work'[r].pc = "embed" /\ work'[r].at = work[r].at /\ row' = row /\ ~Faiss
      BY <1>2, MovedType DEF OpenExternal, Working
    <2>2. CASE work[r].at = 0
      <3>1. index' = {} BY <1>2, <2>2 DEF OpenExternal, Fresh
      <3>2. row.run = r => row.embedded = 0
        BY <1>1, <2>2 DEF Sound, RowBehind, Working
      <3>3. Built(r)' BY <1>1, <2>1, <2>2, <3>1 DEF Built, Stored, Faiss
      <3> QED BY <2>1, <2>2, <3>2, <3>3, <1>1
              DEF Sound, RowBehind, Kept, Resumed
    <2>3. CASE work[r].at > 0
      <3>1. index' = index BY <1>2, <2>3 DEF OpenExternal, Fresh
      <3>2. Part(r, work[r].at) \subseteq index /\ index \subseteq Chunks(r)
        BY <1>1, <2>3 DEF Sound, Resumed
      <3>3. Built(r)' BY <1>1, <2>1, <3>1, <3>2 DEF Built, Stored, Faiss
      <3> QED BY <1>1, <2>1, <3>1, <3>3
              DEF Sound, RowBehind, Kept, Resumed, Faiss, Working
    <2> QED BY <1>1, <2>2, <2>3
  <1>3. CASE SeedFaiss(r)
    <2>1. 1 \in 0..Size BY <1>1
    <2>2. work' = [work EXCEPT ![r].pc = "embed", ![r].at = 1] /\ Faiss
      BY <1>3 DEF SeedFaiss
    <2>3. work'[r].pc = "embed" /\ work'[r].at = 1
      BY <2>1, <2>2, PlacedType DEF Working
    <2>4. memory'[r] = {<<r, 0>>} BY <1>3, TypesOf DEF SeedFaiss
    <2>5. row'.run = r => row'.embedded <= 1
      <3>1. work[r].at = 0 BY <1>3 DEF SeedFaiss, Fresh
      <3>2. row.run = r => row.embedded = 0
        BY <1>1, <3>1 DEF Sound, RowBehind, Working
      <3>3. row'.run = row.run /\ row'.embedded \in {row.embedded, 1}
        BY <1>3, <2>1, RecordedType DEF SeedFaiss
      <3> QED BY <1>1, <3>2, <3>3
    <2>6. Built(r)'
      <3>1. Faiss' BY <1>1, <2>2 DEF Faiss
      <3>2. Part(r, 1) = {<<r, 0>>} OBVIOUS
      <3>3. {<<r, 0>>} \subseteq Chunks(r) BY <1>1
      <3>4. Stored(r)' = {<<r, 0>>} BY <2>4, <3>1 DEF Stored
      <3> QED BY <2>3, <3>2, <3>3, <3>4 DEF Built
    <2> QED BY <1>1, <2>2, <2>3, <2>5, <2>6
            DEF Sound, RowBehind, Kept, Resumed, Faiss
  <1>4. CASE LoadFaiss(r)
    <2>1. work'[r].pc = "embed" /\ work'[r].at = work[r].at /\ row' = row /\ Faiss
      BY <1>4, MovedType DEF LoadFaiss, Working
    <2>2. memory'[r] = index BY <1>4, TypesOf DEF LoadFaiss
    <2>3. Part(r, work[r].at) \subseteq index /\ index \subseteq Chunks(r)
      BY <1>1, <1>4 DEF Sound, Resumed, LoadFaiss, Fresh
    <2> QED BY <1>1, <2>1, <2>2, <2>3
            DEF Sound, RowBehind, Kept, Resumed, Built, Stored, Faiss, Working
  <1>5. CASE OpenFails(r)
    BY <1>1, <1>5, RaisedType, SoundIdle DEF OpenFails, Sound
  <1> QED BY <1>2, <1>3, <1>4, <1>5

LEMMA SoundEmbed ==
  ASSUME TypeOK, NEW r \in Run, Sound(r),
         Embed(r) \/ ChunkFails(r) \/ Record(r)
  PROVE  Sound(r)'
  <1>1. /\ work[r].at \in Nat /\ row.embedded \in Nat /\ Size \in Nat
        /\ setup' = setup
    BY TypesOf DEF RowState, Embed, ChunkFails, Record
  <1>2. CASE Embed(r)
    <2> DEFINE chunk == <<r, work[r].at>>
    <2>1. /\ work[r].pc = "embed" /\ work[r].at < Size /\ row' = row
          /\ work'[r].pc = "record" /\ work'[r].at = work[r].at
      BY <1>2, MovedType DEF Embed, At, Working
    <2>2. chunk \in Chunks(r) BY <1>1, <2>1, ChunkOfRun
    <2>3. Stored(r)' = Stored(r) \cup {chunk}
      <3>1. CASE Faiss BY <1>2, <3>1, TypesOf DEF Embed, Stored, Faiss
      <3>2. CASE ~Faiss BY <1>2, <3>2 DEF Embed, Stored, Faiss
      <3> QED BY <3>1, <3>2
    <2>4. Built(r)'
      BY <1>1, <2>1, <2>2, <2>3 DEF Sound, Built, Part, Chunks
    <2>5. Kept(r)'
      <3>1. CASE Faiss BY <1>1, <2>1, <3>1 DEF Kept, Faiss
      <3>2. CASE ~Faiss
        <4>1. index' = index \cup {chunk} BY <1>2, <3>2 DEF Embed
        <4> QED BY <1>1, <2>1, <2>2, <3>2, <4>1
                DEF Sound, Kept, Faiss, Part, Chunks
      <3> QED BY <3>1, <3>2
    <2> QED BY <2>1, <2>4, <2>5 DEF Sound, RowBehind, Resumed, Working
  <1>3. CASE ChunkFails(r)
    <2>1. /\ work[r].pc = "embed" /\ row' = row
          /\ work'[r].pc = "abort" /\ work'[r].at = work[r].at
          /\ index' = index /\ memory' = memory
      BY <1>3, MovedType DEF ChunkFails, At, Working
    <2> QED BY <1>1, <2>1
            DEF Sound, RowBehind, Kept, Resumed, Built, Stored, Faiss, Working,
                Part, Chunks
  <1>4. CASE Record(r)
    <2>1. /\ work[r].pc = "record" /\ index' = index /\ memory' = memory
          /\ work' = [work EXCEPT ![r].pc = "embed", ![r].at = work[r].at + 1]
          /\ row' \in Recorded(work[r].at + 1)
      BY <1>4 DEF Record, At
    <2>2. work[r].at < Size BY <2>1 DEF Sound, Built
    <2>3. work[r].at + 1 \in 0..Size BY <1>1, <2>2
    <2>4. work'[r].pc = "embed" /\ work'[r].at = work[r].at + 1
      BY <2>1, <2>3, PlacedType DEF Working
    <2>5. row'.run = row.run /\ row'.embedded \in {row.embedded, work[r].at + 1}
      BY <2>1, <2>3, RecordedType
    <2>6. Part(r, work[r].at + 1) = Part(r, work[r].at) \cup {<<r, work[r].at>>}
      BY <1>1, PartGrows
    <2>7. Part(r, work[r].at + 1) \subseteq Stored(r) /\ Stored(r) \subseteq Chunks(r)
      BY <2>1, <2>6 DEF Sound, Built
    <2>8. Built(r)'
      BY <1>1, <2>1, <2>4, <2>7 DEF Built, Stored, Faiss, Part, Chunks
    <2>9. RowBehind(r)'
      BY <1>1, <2>1, <2>4, <2>5 DEF Sound, RowBehind, Working
    <2>10. Kept(r)'
      <3>1. CASE Faiss BY <1>1, <2>4, <3>1 DEF Kept, Faiss
      <3>2. CASE ~Faiss
        <4>1. Stored(r) = index BY <3>2 DEF Stored
        <4>2. row'.embedded = row.embedded \/ row'.embedded = work[r].at + 1
          BY <2>5
        <4> QED BY <1>1, <2>1, <2>5, <2>7, <3>2, <4>1, <4>2
                DEF Sound, Kept, Faiss, Part, Chunks
      <3> QED BY <3>1, <3>2
    <2> QED BY <2>4, <2>8, <2>9, <2>10 DEF Sound, Resumed
  <1> QED BY <1>2, <1>3, <1>4
LEMMA SoundEnd ==
  ASSUME TypeOK, NEW r \in Run, r \notin spoiled', Sound(r),
         Save(r) \/ Abort(r) \/ SaveFails(r) \/ Check(r) \/ Finish(r) \/ FinishFails(r)
  PROVE  Sound(r)'
  <1>1. /\ work[r].at \in 0..Size /\ row.embedded \in Nat /\ Size \in Nat
        /\ setup' = setup /\ row' = row /\ memory' = memory
    BY TypesOf
    DEF RowState, Save, Abort, SaveFails, Check, Finish, FinishFails
  <1>2. ~SaveFails(r) BY DEF SaveFails
  <1>3. CASE Save(r)
    <2>1. /\ work[r].pc = "embed" /\ work[r].at = Size /\ index' = Stored(r)
          /\ work' = Moved(r, "check")
      BY <1>1, <1>3 DEF Save, Embedded, At
    <2>2. work'[r].pc = "check" /\ work'[r].at = Size
      BY <2>1, MovedType DEF Working
    <2>3. Stored(r)' = Stored(r) BY <1>1, <2>1 DEF Stored, Faiss
    <2>4. Built(r)'
      BY <2>1, <2>2, <2>3 DEF Sound, Built, Part, Chunks
    <2>5. Kept(r)'
      BY <1>1, <2>1, StoredCovers DEF Kept, Part, Chunks
    <2> QED BY <1>1, <2>1, <2>2, <2>4, <2>5
            DEF Sound, RowBehind, Resumed, Working
  <1>4. CASE Abort(r)
    <2>1. work[r].pc = "abort" /\ index' = Stored(r) /\ work' = Raised(r)
      BY <1>4 DEF Abort, At
    <2>2. work'[r].pc \in {"queued", "failed"} BY <2>1, RaisedType
    <2>3. Kept(r)'
      BY <1>1, <2>1, StoredCovers DEF Kept, Part, Chunks
    <2> QED BY <2>2, <2>3 DEF Sound, RowBehind, Resumed, Built, Working
  <1>5. CASE Check(r)
    <2>1. work[r].pc = "check" /\ index' = index BY <1>5 DEF Check, At
    <2>2. CASE work' = Raised(r)
      BY <1>1, <2>1, <2>2, RaisedType, SoundIdle DEF Sound
    <2>3. CASE work' = Moved(r, "finish")
      <3>1. work'[r].pc = "finish" /\ work'[r].at = work[r].at
        BY <2>3, MovedType DEF Working
      <3> QED BY <1>1, <2>1, <3>1
              DEF Sound, RowBehind, Kept, Resumed, Built, Stored, Faiss, Working,
                  Part, Chunks
    <2> QED BY <1>5, <2>2, <2>3 DEF Check
  <1>6. CASE Finish(r)
    <2>1. /\ work[r].pc = "finish" /\ index' = Stored(r)
          /\ work' = Moved(r, "done")
      BY <1>6 DEF Finish, At
    <2>2. work'[r].pc = "done" BY <2>1, MovedType
    <2>3. index = Stored(r) /\ work[r].at = Size /\ Part(r, Size) \subseteq Stored(r)
          /\ Stored(r) \subseteq Chunks(r)
      BY <2>1 DEF Sound, Built
    <2>4. index' = Chunks(r) BY <2>1, <2>3, PartWhole
    <2>5. Built(r)' BY <2>2, <2>4 DEF Built, Chunks
    <2>6. Kept(r)' BY <1>1, <2>1, <2>3 DEF Sound, Kept, Part, Chunks
    <2> QED BY <2>2, <2>5, <2>6 DEF Sound, RowBehind, Resumed, Working
  <1>7. CASE FinishFails(r)
    BY <1>1, <1>7, RaisedType, SoundIdle DEF FinishFails, At, Sound
  <1> QED BY <1>2, <1>3, <1>4, <1>5, <1>6, <1>7

LEMMA SoundStep ==
  ASSUME IInv, [Next]_vars PROVE LatestIsSound'
  <1> USE DEF IInv
  <1> SUFFICES ASSUME NEW r \in Run, r = latest', r \notin spoiled'
               PROVE  Sound(r)'
    BY DEF LatestIsSound
  <1>0. r # NoRun BY ConstantsAssumption
  <1>1. ASSUME r = latest, r \notin spoiled PROVE Sound(r)
    BY <1>1 DEF LatestIsSound
  <1>2. ASSUME NEW v \in Run, LoadFails(v) PROVE Sound(r)'
    <2>1. /\ latest' = latest /\ spoiled' = spoiled /\ row' = row
          /\ index' = index /\ memory' = memory /\ setup' = setup
          /\ work[v].pc = "queued"
      BY <1>2 DEF LoadFails, At
    <2>2. Sound(r) BY <1>1, <2>1
    <2>3. /\ work'[v].pc \in {"queued", "failed"}
          /\ \A u \in Run : u # v => work'[u] = work[u]
      BY <1>2, RaisedType, MovedType DEF LoadFails
    <2>4. CASE v = r BY <2>1, <2>2, <2>3, <2>4, SoundIdle DEF Sound
    <2>5. CASE v # r BY <2>1, <2>2, <2>3, <2>5, SoundFrame
    <2> QED BY <2>4, <2>5
  <1>3. ASSUME NEW v \in Run, Start(v) PROVE Sound(r)'
    BY <1>3, SoundStart DEF Start
  <1>4. ASSUME NEW v \in Run, StartBlind(v) PROVE Sound(r)'
    BY <1>4 DEF StartBlind, Begun, At
  <1>5. ASSUME NEW v \in Run, Work(v) PROVE Sound(r)'
    <2>1. r = latest /\ r \notin spoiled BY <1>5, WorkKeeps
    <2>2. v = r BY <1>0, <1>5, <2>1, WorkMoves DEF Alone, Undisturbed
    <2>3. Sound(r) BY <1>1, <2>1
    <2> QED BY <1>5, <2>2, <2>3, SoundOpen, SoundEmbed, SoundEnd DEF Work
  <1>6. ASSUME NEW v \in Run, Crash(v) PROVE Sound(r)'
    <2>1. /\ latest' = latest /\ row' = row /\ index' = index
          /\ memory' = memory /\ setup' = setup
          /\ spoiled' = IF Faiss THEN spoiled \cup {v} ELSE spoiled
      BY <1>6 DEF Crash
    <2>2. Sound(r) BY <1>1, <2>1
    <2>3. CASE v = r
      <3>1. ~Faiss BY <2>1, <2>3
      <3> QED BY <1>6, <2>1, <2>2, <2>3, <3>1, CrashMoves, SoundIdle DEF Sound
    <2>4. CASE v # r BY <1>6, <2>1, <2>2, <2>4, CrashMoves, SoundFrame
    <2> QED BY <2>3, <2>4
  <1>7. ASSUME NEW v \in Run, Sync(v) PROVE Sound(r)'
    <2>1. /\ latest' = latest /\ spoiled' = spoiled /\ row' = row
          /\ index' = index /\ memory' = memory /\ setup' = setup
          /\ work[v].pc = "none" /\ work' = Moved(v, "queued")
      BY <1>7 DEF Sync, At
    <2>2. Sound(r) BY <1>1, <2>1
    <2>3. work'[v].pc = "queued" /\ \A u \in Run : u # v => work'[u] = work[u]
      BY <2>1, MovedType
    <2>4. CASE v = r BY <2>1, <2>2, <2>3, <2>4, SoundIdle DEF Sound
    <2>5. CASE v # r BY <2>1, <2>2, <2>3, <2>5, SoundFrame
    <2> QED BY <2>4, <2>5
  <1>8. CASE Reingest
    <2>1. /\ latest' = latest /\ spoiled' = spoiled /\ work' = work
          /\ index' = index /\ memory' = memory /\ setup' = setup
          /\ row' = row \/ row'.run = NoRun
      BY <1>8 DEF Reingest, NoRow
    <2>2. Sound(r) BY <1>1, <2>1
    <2>3. CASE row' = row BY <2>1, <2>2, <2>3, SoundFrame
    <2>4. CASE row'.run = NoRun
      BY <1>0, <2>1, <2>2, <2>4
      DEF Sound, RowBehind, Kept, Resumed, Built, Stored, Faiss
    <2> QED BY <2>1, <2>3, <2>4
  <1>9. ASSUME UNCHANGED <<work, latest, spoiled, index, memory, setup>>,
               row'.run = row.run, row'.embedded = row.embedded
        PROVE  Sound(r)'
    BY <1>1, <1>9, SoundFrame
  <1>10. ASSUME RowAges \/ Stall \/ \E v \in Run : Beat(v)
         PROVE  /\ UNCHANGED <<work, latest, spoiled, index, memory, setup>>
                /\ row'.run = row.run /\ row'.embedded = row.embedded
    <2>1. row \in RowState BY TypesOf
    <2> QED BY <1>10, <2>1 DEF RowAges, Stall, Beat, RowState
  <1>12. CASE ReingestIdle BY <1>9, <1>12 DEF ReingestIdle
  <1>13. CASE ReingestEdits BY <1>13 DEF ReingestEdits
  <1>11. CASE UNCHANGED vars BY <1>9, <1>11 DEF vars
  <1> QED BY <1>2, <1>3, <1>4, <1>5, <1>6, <1>7, <1>8, <1>9, <1>10, <1>11,
          <1>12, <1>13 DEF Next

-----------------------------------------------------------------------------
\* Theorems

LEMMA InitIInv == ASSUME Init PROVE IInv
  <1>1. InRange /\ RowIsLatest /\ Alone
    BY ConstantsAssumption
    DEF Init, NoRow, InRange, RowIsLatest, Alone, Undisturbed
  <1>2. LatestIsSound BY ConstantsAssumption DEF Init, LatestIsSound
  <1> QED BY <1>1, <1>2, InitTypeOK DEF IInv

LEMMA NextIInv == ASSUME IInv, [Next]_vars PROVE IInv'
  BY TypeOKStep, InRangeStep, RowIsLatestStep, AloneStep, SoundStep DEF IInv

\* The invariant is inductive.
THEOREM Inductive == Spec => []IInv
  BY InitIInv, NextIInv, PTL DEF Spec

\* Type correctness, for any number of runs and chunks.
THEOREM IngestTypes == Spec => []TypeOK
  <1>1. IInv => TypeOK BY DEF IInv
  <1> QED BY <1>1, Inductive, PTL

\* An undisturbed run that is done has stored its text and nothing else,
\* whatever failed and however often it was tried (embedding_pipeline.py).
THEOREM DoneIsComplete == Spec => []SourceIsWhole
  <1>1. IInv => SourceIsWhole
    <2> SUFFICES ASSUME IInv, latest # NoRun, work[latest].pc = "done",
                        latest \notin spoiled
                 PROVE  index = Chunks(latest)
      BY DEF SourceIsWhole
    <2>1. latest \in Run BY DEF IInv, TypeOK
    <2>2. Sound(latest) BY <2>1 DEF IInv, LatestIsSound
    <2> QED BY <2>2 DEF Sound, Built
  <1> QED BY <1>1, Inductive, PTL

\* An undisturbed run that stopped half-way does not leave the source looking
\* ready while there is a row (sources.py, _ingest_status_case).
THEOREM PartialIsSeen == Spec => []PartialIsShown
  <1>1. IInv => PartialIsShown
    <2> SUFFICES ASSUME IInv, latest # NoRun, latest \notin spoiled,
                        work[latest].pc \in {"queued", "failed"},
                        row.run # NoRun, index # Chunks(latest), Shown = "ready"
                 PROVE  FALSE
      BY DEF PartialIsShown
    <2>1. latest \in Run BY DEF IInv, TypeOK
    <2>2. Kept(latest) BY <2>1 DEF IInv, LatestIsSound, Sound
    <2>3. row.run = latest BY DEF IInv, RowIsLatest, Undisturbed
    <2>4. row.embedded \in 0..Size /\ Size \in Nat /\ Size > 0
      BY ConstantsAssumption DEF IInv, TypeOK
    <2>5. row.embedded = Size BY <2>4 DEF Shown
    <2>6. Part(latest, Size) \subseteq index /\ index \subseteq Chunks(latest)
      BY <2>2, <2>3, <2>4, <2>5 DEF Kept
    <2> QED BY <2>1, <2>6, PartWhole
  <1> QED BY <1>1, Inductive, PTL
===============================================================================
