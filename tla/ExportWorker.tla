---------------------------- MODULE ExportWorker ----------------------------
(***************************************************************************)
(* The export worker: one iteration of run_once (worker/runner.py) from the *)
(* reclaim of stale jobs to the transaction that ends the job, one action   *)
(* per database transaction or per file it writes, and the shell loop of    *)
(* scripts/start.sh that runs the iterations one after the other.          *)
(***************************************************************************)
EXTENDS ExportJobs

CONSTANTS
    Workers,      \* worker processes that may be alive at once
    FirstWorker,  \* the one the first start.sh runs
    MaxChunks,    \* bound: text chunks of a document
    MaxMishaps    \* bound: processes that die in mid-iteration, loops restarted

ASSUME ExportWorkerAssumption ==
    /\ FirstWorker \in Workers
    /\ MaxChunks \in Nat
    /\ MaxMishaps \in Nat

VARIABLES
    docs,     \* document id -> its owner, NoUser when there is no such row
    jobs,     \* job id -> row, NoRow when there is no such row
    disk,     \* export directories <<user, job>> that hold rendered audio
    worker,   \* worker -> what the process remembers
    loop,     \* the shell loop: the worker it runs and its readiness file
    mishaps   \* deaths and restarts so far

workerVars == <<docs, jobs, disk, worker, loop, mishaps>>

Stages == {"stopped", "reclaim", "claim", "load", "prepare", "check", "synth",
           "progress", "combine", "finish"}

WorkerState == [pc      : Stages,
                job     : JobIds \cup {0},
                loaded  : JobRow,
                todo    : 0 .. MaxChunks,
                outcome : Terminal]

\* Between two iterations the process holds nothing: "reclaim" is the next
\* run_once, "stopped" a process that nothing runs any more.
Resting(pc) == [pc |-> pc, job |-> 0, loaded |-> NoRow, todo |-> 0,
                outcome |-> "failed"]

InitWorker ==
    /\ docs = [d \in DocIds |-> NoUser]
    /\ jobs = [j \in JobIds |-> NoRow]
    /\ disk = {}
    /\ worker = [w \in Workers |->
                   Resting(IF w = FirstWorker THEN "reclaim" ELSE "stopped")]
    /\ loop = [current |-> FirstWorker, ready |-> FALSE]
    /\ mishaps = 0

Exists(j) == jobs[j].status # "absent"
JobRowIds == {j \in JobIds : Exists(j)}
RowOf(w)  == jobs[worker[w].job]

\* Only queued and processing jobs count: one that is being canceled does not.
ActiveJobsOf(u) ==
    {j \in JobIds : jobs[j].user = u /\ jobs[j].status \in Cancellable}

JobsOf(d) == {j \in JobIds : jobs[j].doc = d}

\* Only the artifacts a row records are removed, and only below the row's own
\* export directory.
RecordedDirs(d) ==
    {<<jobs[j].user, j>> : j \in {k \in JobsOf(d) :
        /\ jobs[k].artifact # NoArtifact
        /\ jobs[k].artifact.user = jobs[k].user}}

\* The loop touches the readiness file after an iteration that returned and
\* removes it after one that raised or died.  A process whose loop was killed
\* is not run again.
EndIteration(w, returned) ==
    IF w = loop.current
      THEN /\ worker' = [worker EXCEPT ![w] = Resting("reclaim")]
           /\ loop' = [loop EXCEPT !.ready = returned]
      ELSE /\ worker' = [worker EXCEPT ![w] = Resting("stopped")]
           /\ UNCHANGED loop

GoTo(w, pc) ==
    /\ worker' = [worker EXCEPT ![w].pc = pc]
    /\ UNCHANGED loop

Conclude(w, outcome) ==
    /\ worker' = [worker EXCEPT ![w].pc = "finish", ![w].outcome = outcome]
    /\ UNCHANGED loop

Heartbeat(w) ==
    jobs' = [jobs EXCEPT ![worker[w].job] = HeartbeatRow(@)]

ReclaimStaleJobs(w) ==
    /\ worker[w].pc = "reclaim"
    /\ jobs' = [j \in JobIds |-> IF IsStale(jobs[j]) THEN ReclaimedRow(jobs[j])
                                                     ELSE jobs[j]]
    /\ GoTo(w, "claim")
    /\ UNCHANGED <<docs, disk, mishaps>>

IsNextQueued(j) ==
    /\ jobs[j].status = "queued"
    /\ \A k \in JobIds : jobs[k].status = "queued" => j <= k

ClaimNextQueuedJob(w) ==
    /\ worker[w].pc = "claim"
    /\ \E j \in JobIds :
         /\ IsNextQueued(j)
         /\ jobs' = [jobs EXCEPT ![j] = ClaimedRow(@)]
         /\ worker' = [worker EXCEPT ![w].pc = "load", ![w].job = j]
    /\ UNCHANGED <<docs, disk, loop, mishaps>>

FindNothingToClaim(w) ==
    /\ worker[w].pc = "claim"
    /\ \A j \in JobIds : jobs[j].status # "queued"
    /\ EndIteration(w, TRUE)
    /\ UNCHANGED <<docs, jobs, disk, mishaps>>

\* process_export_job keeps the row it loads here until its last transaction.
LoadJob(w) ==
    /\ worker[w].pc = "load"
    /\ IF RowOf(w).status = "absent"
         THEN EndIteration(w, TRUE)
         ELSE /\ worker' = [worker EXCEPT ![w].pc = "prepare",
                                          ![w].loaded = RowOf(w)]
              /\ UNCHANGED loop
    /\ UNCHANGED <<docs, jobs, disk, mishaps>>

\* No chunk to render (the document is gone or has no text) and a voice that
\* was deleted or lost its sample both end the export as failed.
PrepareExport(w) ==
    /\ worker[w].pc = "prepare"
    /\ \E chunks \in 0 .. MaxChunks :
         /\ chunks > 0 => docs[worker[w].loaded.doc] # NoUser
         /\ IF chunks = 0
              THEN Conclude(w, "failed")
              ELSE /\ worker' = [worker EXCEPT ![w].pc = "check",
                                               ![w].todo = chunks]
                   /\ UNCHANGED loop
    /\ UNCHANGED <<docs, jobs, disk, mishaps>>

RaiseIfCancelRequested(w) ==
    /\ worker[w].pc = "check"
    /\ IF RowOf(w).status \in {"absent", "cancel_requested"}
         THEN Conclude(w, "canceled") /\ UNCHANGED jobs
         ELSE Heartbeat(w) /\ GoTo(w, "synth")
    /\ UNCHANGED <<docs, disk, mishaps>>

SynthesizeChunk(w) ==
    /\ worker[w].pc = "synth"
    /\ GoTo(w, "progress") \/ Conclude(w, "failed")
    /\ UNCHANGED <<docs, jobs, disk, mishaps>>

\* Mutant: the loop over the chunks does not end with the last one.
StageAfterChunkEndless(w, left) == {"check"}

\* After the last chunk of a section, or of the document when the chapters
\* are not split, the audio of its chunks is combined.
StageAfterChunk(w, left) ==
    IF left = 0 THEN {"combine"}
    ELSE IF worker[w].loaded.split THEN {"check", "combine"} ELSE {"check"}

\* Mutant: the progress is written without looking for a cancellation.
UpdateJobProgressUnchecked(w) ==
    /\ worker[w].pc = "progress"
    /\ IF RowOf(w).status = "absent" THEN UNCHANGED jobs ELSE Heartbeat(w)
    /\ \E stage \in StageAfterChunk(w, worker[w].todo - 1) :
         worker' = [worker EXCEPT ![w].pc = stage, ![w].todo = @ - 1]
    /\ UNCHANGED <<docs, disk, loop, mishaps>>

UpdateJobProgress(w) ==
    /\ worker[w].pc = "progress"
    /\ IF RowOf(w).status = "cancel_requested"
         THEN Conclude(w, "canceled") /\ UNCHANGED jobs
         ELSE /\ IF RowOf(w).status = "absent" THEN UNCHANGED jobs
                                               ELSE Heartbeat(w)
              /\ \E stage \in StageAfterChunk(w, worker[w].todo - 1) :
                   worker' = [worker EXCEPT ![w].pc = stage,
                                            ![w].todo = @ - 1]
              /\ UNCHANGED loop
    /\ UNCHANGED <<docs, disk, mishaps>>

ExportDir(w) == <<worker[w].loaded.user, worker[w].job>>

\* The quota, a missing chunk file or unequal formats make it raise; the
\* temporary file is then removed and no output is left by this call.
WriteCombinedWav(w) ==
    /\ worker[w].pc = "combine"
    /\ \/ /\ disk' = disk \cup {ExportDir(w)}
          /\ IF worker[w].todo = 0 THEN Conclude(w, "completed")
                                   ELSE GoTo(w, "check")
       \/ Conclude(w, "failed") /\ UNCHANGED disk
    /\ UNCHANGED <<docs, jobs, mishaps>>

FinalRow(w) ==
    LET lost == /\ worker[w].outcome = "completed"
                /\ ~worker[w].loaded.split
                /\ ExportDir(w) \notin disk
    IN  OutcomeRow(worker[w].loaded,
                   IF lost THEN "failed" ELSE worker[w].outcome)

\* The last transaction looks at no status: it writes over whatever the row
\* has become since it was loaded.  A row that is gone makes the UPDATE fail.
FinishExport(w) ==
    /\ worker[w].pc = "finish"
    /\ IF RowOf(w).status = "absent"
         THEN EndIteration(w, FinalRow(w) = worker[w].loaded) /\ UNCHANGED jobs
         ELSE /\ jobs' = [jobs EXCEPT ![worker[w].job] =
                            OrmFlush(@, worker[w].loaded, FinalRow(w))]
              /\ EndIteration(w, TRUE)
    /\ UNCHANGED <<docs, disk, mishaps>>

\* The process is killed, or the machine restarts: files and rows stay.
WorkerDies(w) ==
    /\ worker[w].pc \notin {"stopped", "reclaim"}
    /\ mishaps < MaxMishaps
    /\ mishaps' = mishaps + 1
    /\ EndIteration(w, FALSE)
    /\ UNCHANGED <<docs, jobs, disk>>

\* start.sh finds no readiness file, kills the shell loop and starts another.
\* The python process the loop was waiting for is not killed with it.
RestartWorkerLoop(w) ==
    /\ ~loop.ready
    /\ worker[w].pc = "stopped"
    /\ mishaps < MaxMishaps
    /\ mishaps' = mishaps + 1
    /\ LET old == loop.current
           orphan == IF worker[old].pc = "reclaim" THEN Resting("stopped")
                                                   ELSE worker[old]
       IN  worker' = [worker EXCEPT ![old] = orphan, ![w] = Resting("reclaim")]
    /\ loop' = [current |-> w, ready |-> FALSE]
    /\ UNCHANGED <<docs, jobs, disk>>

\* The steps of an export between claiming the job and its last transaction.
ExportStep(w) ==
    \/ LoadJob(w)
    \/ PrepareExport(w)
    \/ RaiseIfCancelRequested(w)
    \/ SynthesizeChunk(w)
    \/ UpdateJobProgress(w)
    \/ WriteCombinedWav(w)
    \/ FinishExport(w)

-----------------------------------------------------------------------------

\* A new document, by upload, inbox scan, catalog, library scan or share.
ImportDocument(u) ==
    /\ \E d \in DocIds :
         /\ IsNextId(d, {e \in DocIds : docs[e] # NoUser})
         /\ docs' = [docs EXCEPT ![d] = u]
    /\ UNCHANGED <<jobs, disk, worker, loop, mishaps>>

\* worker_stale_job_minutes pass since the row's last heartbeat.
HeartbeatExpires(j) ==
    /\ jobs[j].status \in StaleReclaimable
    /\ jobs[j].fresh
    /\ jobs' = [jobs EXCEPT ![j].fresh = FALSE]
    /\ UNCHANGED <<docs, disk, worker, loop, mishaps>>
=============================================================================
