------------------------------ MODULE IngestIndex ------------------------------
(***************************************************************************)
(* The index of one source and the runs that build it: the upload, then    *)
(* any number of syncs.  A run embeds the source chunk after chunk and     *)
(* notes in ingest_chunk_progress how far it has come, so that a retry of  *)
(* the same task goes on from there and a new task starts again with an    *)
(* empty index.  An external store (pgvector, qdrant, ...) has each chunk  *)
(* at once; FAISS is built in memory and saved at the end.  The reconciler *)
(* calls a row stalled that nobody has touched for a while (sweep Q4); the *)
(* list of sources shows the user what the row says.  A reingest compares  *)
(* the files of an upload with those that the source lists, and edits the  *)
(* index in place.                                                         *)
(*                                                                         *)
(* It is assumed that one worker at a time runs a task, and that a retry   *)
(* finds the same chunks.  A sync has no lease and no retries, but its     *)
(* message comes back when its worker dies.                                *)
(***************************************************************************)
EXTENDS Integers

CONSTANTS
    Run,         \* tasks that ingest the source
    First,       \* the upload; the other runs are syncs
    NoRun,       \* no row, no run
    Stores,      \* "external", "faiss": the stores to look at
    Loaders,     \* "file", "remote": where the upload's text comes from
    Size,        \* chunks of the source
    MaxRetries,  \* max_retries
    MaxStarts,   \* bound: deliveries of one message
    Faults       \* what may go wrong beside a chunk that cannot be embedded

ASSUME ConstantsAssumption ==
    /\ First \in Run /\ NoRun \notin Run
    /\ Stores \subseteq {"external", "faiss"}
    /\ Loaders \subseteq {"file", "remote"}
    /\ {Size, MaxStarts} \subseteq Nat \ {0}
    /\ MaxRetries \in Nat
    /\ Faults \subseteq {"init", "record", "lookup", "save", "crash", "overlap",
                   "storage"}

VARIABLES
    setup,    \* the store and the loader
    source,   \* is there a row in sources?
    files,    \* the files it lists, as the places of their chunks
    reingest, \* does a reingest wait for its worker?
    row,      \* the row of ingest_chunk_progress
    index,    \* the chunks that are stored
    work,     \* where each run stands
    memory,   \* the FAISS index a run has built
    latest,   \* the run that began last (history)
    spoiled   \* runs that a fault or another run has disturbed (history)

sourceVars == <<source, files, reingest>>

vars == <<setup, sourceVars, row, index, work, memory, latest, spoiled>>

-----------------------------------------------------------------------------
\* Types

\* Who made a chunk matters: a sync finds another text.
Place == 0..(Size - 1)

Chunk == Run \X Place

Working == {"open", "embed", "record", "abort", "check", "finish"}

TypeOK ==
    /\ setup \in [store: {"external", "faiss"}, loader: {"file", "remote"}]
    /\ source \in BOOLEAN /\ files \in SUBSET Place /\ reingest \in BOOLEAN
    /\ row \in [run: Run \cup {NoRun}, embedded: 0..Size,
                status: {"active", "stalled"}, late: BOOLEAN]
    /\ index \in SUBSET Chunk
    /\ work \in [Run -> [pc: {"none", "queued", "done", "failed"} \cup Working,
                         at: 0..Size, tries: 0..MaxRetries, starts: 1..MaxStarts]]
    /\ memory \in [Run -> SUBSET Chunk]
    /\ latest \in Run \cup {NoRun}
    /\ spoiled \in SUBSET Run

-----------------------------------------------------------------------------
\* Helpers

Faiss == setup.store = "faiss"

Chunks(r) == {r} \X Place

Busy == {r \in Run : work[r].pc \in Working}

Begun == {r \in Run : work[r].pc # "none"}

NoRow == [run |-> NoRun, embedded |-> 0, status |-> "active", late |-> FALSE]

\* Mutant: the checkpoint of any task counts, as it did before attempt_id.
InitProgressKept(r) ==
    [run |-> r, embedded |-> row.embedded, status |-> "active", late |-> FALSE]

\* init_progress: the checkpoint of another task does not count.
InitProgress(r) ==
    [run |-> r, embedded |-> IF row.run = r THEN row.embedded ELSE 0,
     status |-> "active", late |-> FALSE]

\* record_chunk, for whatever row there is; a row that is not there, or an
\* error, goes unnoticed.  last_index is embedded - 1 at all times.
Recorded(n) ==
    IF row.run = NoRun THEN {row}
    ELSE {[row EXCEPT !.embedded = n, !.late = FALSE]}
           \cup IF "record" \in Faults THEN {row} ELSE {}

\* An exception: Celery runs the upload again, a sync only returns.
Raised(r) ==
    IF r = First /\ work[r].tries < MaxRetries
    THEN [work EXCEPT ![r].pc = "queued", ![r].tries = @ + 1]
    ELSE [work EXCEPT ![r].pc = "failed"]

At(r, pc) == work[r].pc = pc

Moved(r, pc) == [work EXCEPT ![r].pc = pc]

Init ==
    /\ setup \in [store: Stores, loader: Loaders]
    /\ source = FALSE /\ files = {} /\ reingest = FALSE
    /\ row = NoRow
    /\ index = {}
    /\ work = [r \in Run |-> [pc |-> IF r = First THEN "queued" ELSE "none",
                              at |-> 0, tries |-> 0, starts |-> 1]]
    /\ memory = [r \in Run |-> {}]
    /\ latest = NoRun
    /\ spoiled = {}

-----------------------------------------------------------------------------
\* The worker

\* What comes before the chunks are known may fail: download, parser, chunker.
\* A text that cannot be parsed is not tried again.
LoadFails(r) ==
    /\ At(r, "queued")
    /\ work' \in {Raised(r), Moved(r, "failed")}
    /\ UNCHANGED <<setup, sourceVars, row, index, memory, latest, spoiled>>

\* Runs that are at work together disturb each other.
Crowd(r) == IF Busy = {} THEN {} ELSE Busy \cup {r}

\* _init_progress_and_resume_index ...
Start(r) ==
    /\ At(r, "queued")
    /\ "overlap" \in Faults \/ Busy = {}
    /\ row' = InitProgress(r)
    /\ work' = [work EXCEPT ![r].pc = "open", ![r].at = row'.embedded]
    /\ latest' = r
    /\ spoiled' = spoiled \cup Crowd(r)
    /\ UNCHANGED <<setup, sourceVars, index, memory>>

\* ... which begins at the first chunk when the database does not answer, and
\* leaves the row as it is: no run that knows the row can rely on it.
StartBlind(r) ==
    /\ At(r, "queued") /\ "init" \in Faults
    /\ "overlap" \in Faults \/ Busy = {}
    /\ work' = [work EXCEPT ![r].pc = "open", ![r].at = 0]
    /\ latest' = r
    /\ spoiled' = spoiled \cup Begun
    /\ UNCHANGED <<setup, sourceVars, row, index, memory>>

Fresh(r) == work[r].at = 0

\* A fresh run empties an external store; a resumed one goes on with it.
OpenExternal(r) ==
    /\ At(r, "open") /\ ~Faiss
    /\ index' = IF Fresh(r) THEN {} ELSE index
    /\ work' = Moved(r, "embed")
    /\ UNCHANGED <<setup, sourceVars, row, memory, latest, spoiled>>

\* FAISS is made with the first chunk, which is recorded at once ...
SeedFaiss(r) ==
    /\ At(r, "open") /\ Faiss /\ Fresh(r)
    /\ memory' = [memory EXCEPT ![r] = {<<r, 0>>}]
    /\ row' \in Recorded(1)
    /\ work' = [work EXCEPT ![r].pc = "embed", ![r].at = 1]
    /\ UNCHANGED <<setup, sourceVars, index, latest, spoiled>>

\* ... or read from what is stored, if there is anything.
LoadFaiss(r) ==
    /\ At(r, "open") /\ Faiss /\ ~Fresh(r) /\ index # {}
    /\ memory' = [memory EXCEPT ![r] = index]
    /\ work' = Moved(r, "embed")
    /\ UNCHANGED <<setup, sourceVars, row, index, latest, spoiled>>

\* The store cannot be reached, emptied, made or read.
OpenFails(r) ==
    /\ At(r, "open")
    /\ work' = Raised(r)
    /\ UNCHANGED <<setup, sourceVars, row, index, memory, latest, spoiled>>

\* add_texts.
Embed(r) ==
    LET chunk == <<r, work[r].at>> IN
    /\ At(r, "embed") /\ work[r].at < Size
    /\ IF Faiss
       THEN memory' = [memory EXCEPT ![r] = @ \cup {chunk}] /\ UNCHANGED index
       ELSE index' = index \cup {chunk} /\ UNCHANGED memory
    /\ work' = Moved(r, "record")
    /\ UNCHANGED <<setup, sourceVars, row, latest, spoiled>>

\* Mutant: the chunk that failed is counted.
ChunkFailsCounted(r) ==
    /\ At(r, "embed") /\ work[r].at < Size
    /\ row' \in Recorded(work[r].at + 1)
    /\ work' = Moved(r, "abort")
    /\ UNCHANGED <<setup, sourceVars, index, memory, latest, spoiled>>

\* The chunk fails three times over; the loop ends.
ChunkFails(r) ==
    /\ At(r, "embed") /\ work[r].at < Size
    /\ work' = Moved(r, "abort")
    /\ UNCHANGED <<setup, sourceVars, row, index, memory, latest, spoiled>>

\* _record_progress.
Record(r) ==
    /\ At(r, "record")
    /\ row' \in Recorded(work[r].at + 1)
    /\ work' = [work EXCEPT ![r].pc = "embed", ![r].at = @ + 1]
    /\ UNCHANGED <<setup, sourceVars, index, memory, latest, spoiled>>

Embedded(r) == At(r, "embed") /\ work[r].at >= Size

\* save_local; an external store has nothing to save.
Stored(r) == IF Faiss THEN memory[r] ELSE index

Save(r) ==
    /\ Embedded(r)
    /\ index' = Stored(r)
    /\ work' = Moved(r, "check")
    /\ UNCHANGED <<setup, sourceVars, row, memory, latest, spoiled>>

\* What did embed is saved before the error is raised.
Abort(r) ==
    /\ At(r, "abort")
    /\ index' = Stored(r)
    /\ work' = Raised(r)
    /\ UNCHANGED <<setup, sourceVars, row, memory, latest, spoiled>>

\* The index cannot be saved: the checkpoint is ahead of it.
SaveFails(r) ==
    /\ Embedded(r) \/ At(r, "abort")
    /\ Faiss /\ "save" \in Faults
    /\ work' = Raised(r)
    /\ spoiled' = spoiled \cup {r}
    /\ UNCHANGED <<setup, sourceVars, row, index, memory, latest>>

\* assert_index_complete; without a row, or without an answer, it passes.
Check(r) ==
    /\ At(r, "check")
    /\ \/ /\ row.run = NoRun \/ row.embedded >= Size \/ "lookup" \in Faults
          /\ work' = Moved(r, "finish")
       \/ /\ row.run # NoRun /\ row.embedded < Size
          /\ work' = Raised(r)
    /\ UNCHANGED <<setup, sourceVars, row, index, memory, latest, spoiled>>

\* upload_index.
Finish(r) ==
    /\ At(r, "finish")
    /\ source' = TRUE /\ files' = Place
    /\ index' = Stored(r)
    /\ work' = Moved(r, "done")
    /\ UNCHANGED <<setup, reingest, row, memory, latest, spoiled>>

FinishFails(r) ==
    /\ At(r, "finish")
    /\ work' = Raised(r)
    /\ UNCHANGED <<setup, sourceVars, row, index, memory, latest, spoiled>>

\* The worker dies, also after its work and before the acknowledgement.  The
\* message comes back: for an upload until the poison guard stops it, for a
\* sync unless schedule_syncs, which acknowledges first, has made it.
Crash(r) ==
    /\ work[r].pc \in Working \cup {"done"} /\ "crash" \in Faults
    /\ \/ /\ work[r].starts < MaxStarts
          /\ work' = [work EXCEPT ![r].pc = "queued", ![r].starts = @ + 1]
       \/ /\ work[r].starts = MaxStarts \/ r # First
          /\ work[r].pc # "done"
          /\ work' = Moved(r, "failed")
    /\ spoiled' = IF Faiss THEN spoiled \cup {r} ELSE spoiled
    /\ UNCHANGED <<setup, sourceVars, row, index, memory, latest>>

-----------------------------------------------------------------------------
\* The user, time, the reconciler

\* A sync, by hand or by the beat: another task each time.
Sync(r) ==
    /\ source /\ setup.loader = "remote"
    /\ At(r, "none")
    /\ work' = Moved(r, "queued")
    /\ UNCHANGED <<setup, sourceVars, row, index, memory, latest, spoiled>>

\* The route that runs a source's ingestion again drops the row and calls for
\* a worker; either may fail, and repeated calls make one task.
Reingest ==
    /\ source
    /\ row' \in {NoRow, row}
    /\ reingest' \in {TRUE, reingest}
    /\ UNCHANGED <<setup, source, files, index, work, memory, latest, spoiled>>

\* Its worker changes nothing when the files are those that are listed, or
\* when it fails, as it does on a remote source, which has no path.  The
\* message may come again.
ReingestIdle ==
    /\ reingest
    /\ reingest' \in BOOLEAN
    /\ UNCHANGED <<setup, source, files, row, index, work, memory, latest, spoiled>>

\* _download_source_files_to_dir passes over a file that it cannot read.
Found == IF "storage" \in Faults THEN SUBSET Place ELSE {Place}

\* A file that is not found counts as removed: its chunks are deleted, to be
\* embedded again when a later reingest finds it.  What cannot be deleted,
\* embedded or listed is only logged.
ReingestEdits ==
    /\ reingest /\ setup.loader = "file"
    /\ \E found \in Found \ {files} :
         /\ \E gone \in SUBSET (files \ found), back \in SUBSET (found \ files) :
              index' = (index \ (Run \X gone)) \cup ({First} \X back)
         /\ files' \in {files, found}
    /\ reingest' \in BOOLEAN
    /\ spoiled' = Run
    /\ UNCHANGED <<setup, source, row, work, memory, latest>>

\* Mutant: the thread goes on after the run has failed.
BeatingOn(r) ==
    r = First /\ setup.loader = "file" /\ work[r].pc \notin {"none", "done"}

\* Only ingest_worker has a heartbeat, while it embeds.
Beating(r) ==
    /\ r = First /\ setup.loader = "file"
    /\ work[r].pc \in {"open", "embed", "record", "abort"}

Beat(r) ==
    /\ Beating(r) /\ row.run # NoRun /\ row.late
    /\ row' = [row EXCEPT !.late = FALSE]
    /\ UNCHANGED <<setup, sourceVars, index, work, memory, latest, spoiled>>

\* Thirty minutes without a sign of life.
RowAges ==
    /\ row.run # NoRun /\ ~row.late
    /\ \A r \in Run : ~Beating(r)
    /\ row' = [row EXCEPT !.late = TRUE]
    /\ UNCHANGED <<setup, sourceVars, index, work, memory, latest, spoiled>>

\* Sweep Q4.
Stall ==
    /\ row.run # NoRun /\ row.late
    /\ row.status = "active" /\ row.embedded < Size
    /\ row' = [row EXCEPT !.status = "stalled"]
    /\ UNCHANGED <<setup, sourceVars, index, work, memory, latest, spoiled>>

-----------------------------------------------------------------------------
Work(r) == \/ OpenExternal(r) \/ SeedFaiss(r) \/ LoadFaiss(r) \/ OpenFails(r)
           \/ Embed(r) \/ ChunkFails(r) \/ Record(r) \/ Save(r) \/ Abort(r)
           \/ SaveFails(r) \/ Check(r) \/ Finish(r) \/ FinishFails(r)

Next == \/ \E r \in Run : \/ LoadFails(r) \/ Start(r) \/ StartBlind(r) \/ Work(r)
                          \/ Crash(r) \/ Sync(r) \/ Beat(r)
        \/ Reingest \/ ReingestIdle \/ ReingestEdits \/ RowAges \/ Stall

\* Every call of a run returns or raises; time passes; the beat comes back.
Fairness == /\ \A r \in Run : WF_vars(Work(r))
            /\ WF_vars(RowAges) /\ WF_vars(Stall)

Spec == Init /\ [][Next]_vars

FairSpec == Spec /\ Fairness

-----------------------------------------------------------------------------
\* Properties

\* _ingest_status_case: what the list of sources shows.
Shown == IF row.run = NoRun THEN "ready"
         ELSE IF row.status = "stalled" THEN "failed"
         ELSE IF row.embedded < Size THEN "processing"
         ELSE "ready"

\* When the run that began last is done, the index has every chunk it found
\* and none of an earlier run's, whatever failed, was lost or came again on
\* the way; unless the run was disturbed: by a blip of init_progress, a kill or
\* a failed save on FAISS, a run beside it, or a reingest that did not find a
\* file (spoiled; the configurations at the end of the module show these).
SourceIsWhole ==
    latest # NoRun /\ work[latest].pc = "done" /\ latest \notin spoiled
        => index = Chunks(latest)

\* A run that leaves a part of the index behind does not leave the source
\* looking ready, as long as there is a row.
PartialIsShown ==
    latest # NoRun /\ work[latest].pc \in {"queued", "failed"}
      /\ latest \notin spoiled /\ row.run # NoRun /\ index # Chunks(latest)
        => Shown # "ready"

\* No source is shown in progress for ever: the run comes to its end or the
\* reconciler calls it stalled.
ProcessingEnds == Shown = "processing" ~> Shown # "processing"

\* embedding_pipeline.py on its fallback to chunk 0: "partial runs don't get
\* cached as complete".
DoneIsWhole ==
    latest # NoRun /\ work[latest].pc = "done" => index = Chunks(latest)

\* worker.py on the reingest: "Removing chunks from deleted files"; nobody
\* deletes one here.
ReingestRemovesDeleted == [][reingest /\ ~reingest' => index \subseteq index']_vars

\* sources/routes.py on the reingest route: "e.g. to recover a stalled embed".
PartialIsNeverReady ==
    latest # NoRun /\ work[latest].pc = "failed" /\ index # Chunks(latest)
        => Shown # "ready"

\* sources.py on the status it derives: nothing "or the embed completed".
DoneIsReady ==
    latest # NoRun /\ work[latest].pc = "done" => Shown # "failed"
================================================================================
