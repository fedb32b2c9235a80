----------------------------- MODULE ExportQueue -----------------------------
(***************************************************************************)
(* The export queue as a whole: the requests of services/jobs.py and        *)
(* services/documents.py that change it, the passing of time, and the       *)
(* worker.  Every request is one step here; module ExportRaces splits them. *)
(***************************************************************************)
EXTENDS ExportWorker

EnqueueExportJob(u, d, split) ==
    /\ Cardinality(ActiveJobsOf(u)) < MaxActiveExports
    /\ docs[d] = u
    /\ \E j \in JobIds :
         /\ IsNextId(j, JobRowIds)
         /\ jobs' = [jobs EXCEPT ![j] = QueuedRow(u, d, split)]
    /\ UNCHANGED <<docs, disk, worker, loop, mishaps>>

CancelJob(j) ==
    /\ jobs[j].status \in Cancellable
    /\ jobs' = [jobs EXCEPT ![j] = CancelledRow(@)]
    /\ UNCHANGED <<docs, disk, worker, loop, mishaps>>

\* Mutant: the failed row itself is queued again.
RetryJobInPlace(j) ==
    /\ jobs[j].status \in Retryable
    /\ jobs' = [jobs EXCEPT ![j] = RetriedRow(@)]
    /\ UNCHANGED <<docs, disk, worker, loop, mishaps>>

\* A retry is a new job; neither its document nor the user's limit is looked
\* at again.
RetryJob(j) ==
    /\ jobs[j].status \in Retryable
    /\ \E k \in JobIds :
         /\ IsNextId(k, JobRowIds)
         /\ jobs' = [jobs EXCEPT ![k] = RetriedRow(jobs[j])]
    /\ UNCHANGED <<docs, disk, worker, loop, mishaps>>

\* Mutant: a queued job neither keeps its document nor goes with it.
DeleteDocumentOfQueued(d) ==
    /\ docs[d] # NoUser
    /\ \A j \in JobsOf(d) : jobs[j].status \notin StaleReclaimable
    /\ docs' = [docs EXCEPT ![d] = NoUser]
    /\ jobs' = [j \in JobIds |-> IF j \in JobsOf(d) /\ jobs[j].status \in Terminal
                                  THEN NoRow ELSE jobs[j]]
    /\ disk' = disk \ RecordedDirs(d)
    /\ UNCHANGED <<worker, loop, mishaps>>

DeleteDocument(d) ==
    /\ docs[d] # NoUser
    /\ \A j \in JobsOf(d) : jobs[j].status \notin ActiveExport
    /\ docs' = [docs EXCEPT ![d] = NoUser]
    /\ jobs' = [j \in JobIds |-> IF j \in JobsOf(d) THEN NoRow ELSE jobs[j]]
    /\ disk' = disk \ RecordedDirs(d)
    /\ UNCHANGED <<worker, loop, mishaps>>

WorkerStep(w) ==
    \/ ReclaimStaleJobs(w)
    \/ ClaimNextQueuedJob(w)
    \/ FindNothingToClaim(w)
    \/ ExportStep(w)

Next ==
    \/ \E u \in Users : ImportDocument(u)
    \/ \E u \in Users, d \in DocIds, split \in BOOLEAN :
         EnqueueExportJob(u, d, split)
    \/ \E j \in JobIds : CancelJob(j)
    \/ \E j \in JobIds : RetryJob(j)
    \/ \E d \in DocIds : DeleteDocument(d)
    \/ \E j \in JobIds : HeartbeatExpires(j)
    \/ \E w \in Workers : WorkerStep(w)
    \/ \E w \in Workers : WorkerDies(w)
    \/ \E w \in Workers : RestartWorkerLoop(w)

\* A process that is scheduled takes its next step, and time passes.  Nothing
\* obliges a client to send a request or a process to die.
Fairness ==
    /\ \A w \in Workers : WF_workerVars(WorkerStep(w))
    /\ \A j \in JobIds : WF_workerVars(HeartbeatExpires(j))

Spec     == InitWorker /\ [][Next]_workerVars
FairSpec == Spec /\ Fairness

-----------------------------------------------------------------------------

\* The types of the tables, the files and the processes' memory.
TypeOK ==
    /\ docs \in [DocIds -> Users \cup {NoUser}]
    /\ jobs \in [JobIds -> JobRow]
    /\ disk \in SUBSET (Users \X JobIds)
    /\ worker \in [Workers -> WorkerState]
    /\ loop \in [current : Workers, ready : BOOLEAN]
    /\ mishaps \in 0 .. MaxMishaps

\* The stages in which a worker works on the row it claimed.
Exporting(w) == worker[w].pc \notin {"stopped", "reclaim", "claim"}

\* With one worker, a row that ended says truthfully how: completed rows, and
\* only they, record audio, which is on disk, of the job's own document; only
\* failed rows carry a failure.  The row is written by a transaction that looks
\* at no status (process_export_job) over what cancel, reclaim, deletion and
\* the reuse of ids may have made of it since it was loaded.
RowsTellTheTruth ==
    \A j \in JobIds : LET r == jobs[j] IN
        /\ r.status = "failed" <=> r.failure # "none"
        /\ r.artifact # NoArtifact <=> r.status = "completed"
        /\ r.status = "completed" =>
             /\ r.artifact = [user |-> r.user, doc |-> r.doc]
             /\ <<r.user, j>> \in disk

\* With one worker, the row it is exporting stays its own until its last
\* transaction: not reclaimed however slow a chunk is, not deleted with its
\* document, not replaced by a later job that was given the same id.
WorkerKeepsItsRow ==
    \A w \in Workers : Exporting(w) =>
        /\ RowOf(w).status \in StaleReclaimable
        /\ worker[w].pc # "load" =>
             /\ RowOf(w).user = worker[w].loaded.user
             /\ RowOf(w).doc = worker[w].loaded.doc

\* A job that may still be exported has its document: delete_document refuses
\* while an export is active, and retry_job, which does not look for the
\* document, retries only rows that vanish with it.
ActiveExportsHaveTheirDocument ==
    \A j \in JobIds : jobs[j].status \in ActiveExport =>
        /\ jobs[j].doc \in DocIds
        /\ docs[jobs[j].doc] = jobs[j].user

\* What GET /api/jobs serves: audio is offered only while its file is there.
ClientView ==
    [j \in JobIds |->
        [status |-> jobs[j].status,
         doc    |-> jobs[j].doc,
         audio  |-> IF jobs[j].status = "completed"
                       /\ <<jobs[j].artifact.user, j>> \in disk
                      THEN jobs[j].artifact.doc ELSE 0]]

Lifecycle == INSTANCE JobLifecycle WITH job <- ClientView

\* With one worker, a client sees every job go through the life JobLifecycle
\* describes: no status is skipped or taken back, a finished job stays
\* finished until its document is deleted, completed means downloadable.
ImplementsLifecycle == Lifecycle!Spec

\* Every job ends, also when its worker died (reclaim_stale_jobs) or was
\* replaced, whatever the clients submit, cancel, retry or delete meanwhile.
EveryJobSettles ==
    \A j \in JobIds :
        jobs[j].status \in ActiveExport ~> jobs[j].status \notin ActiveExport

\* A job whose cancellation is requested before its last chunk was reported
\* ends canceled or failed and is never offered as completed, although nothing
\* looks at the request while a chunk is rendered or a chapter is written.
CancelInTime(j) ==
    /\ jobs[j].status = "cancel_requested"
    /\ \E w \in Workers :
         /\ worker[w].job = j
         /\ worker[w].pc \in {"load", "prepare", "check", "synth", "progress"}

CancelInTimeIsHonoured ==
    \A j \in JobIds : CancelInTime(j) ~> jobs[j].status \in Retryable
=============================================================================
