----------------------------- MODULE ExportRaces -----------------------------
(***************************************************************************)
(* The export queue with every handler split where SQLite lets others in.   *)
(* db.session_scope opens a transaction at the first write of a handler and *)
(* not before, so what a handler read may be out of date when it writes.    *)
(* Requests run in a thread pool, the worker in a process of its own.  Its  *)
(* loop is not restarted here: ExportQueue shows what two workers do.      *)
(***************************************************************************)
EXTENDS ExportWorker

CONSTANTS
    Clients,   \* request threads
    Splits     \* bound: what a submission may say about splitting chapters

ASSUME ExportRacesAssumption == Splits \subseteq BOOLEAN

VARIABLES
    request,  \* client -> what its handler has read and is about to write
    view      \* worker -> the rows its queue query returned

racesVars == <<docs, jobs, disk, worker, loop, mishaps, request, view>>

Idle == [op |-> "idle", id |-> 0, row |-> NoRow, dirs |-> {}, rows |-> {}]

NoRows == [j \in JobIds |-> NoRow]

Request == [op   : {"idle", "insert", "cancel", "delete", "unlink"},
            id   : JobIds \cup DocIds \cup {0},
            row  : JobRow,
            rows : SUBSET JobIds,
            dirs : SUBSET (Users \X JobIds)]

Init ==
    /\ InitWorker
    /\ request = [c \in Clients |-> Idle]
    /\ view = [w \in Workers |-> NoRows]

Begin(c, r) ==
    /\ request[c] = Idle
    /\ request' = [request EXCEPT ![c] = r]
    /\ UNCHANGED <<docs, jobs, disk, worker, loop, mishaps, view>>

Respond(c) == request' = [request EXCEPT ![c] = Idle]

ReadForEnqueue(c, u, d, split) ==
    /\ Cardinality(ActiveJobsOf(u)) < MaxActiveExports
    /\ docs[d] = u
    /\ Begin(c, [Idle EXCEPT !.op = "insert", !.row = QueuedRow(u, d, split)])

ReadForRetry(c, j) ==
    /\ jobs[j].status \in Retryable
    /\ Begin(c, [Idle EXCEPT !.op = "insert", !.row = RetriedRow(jobs[j])])

InsertJob(c) ==
    /\ request[c].op = "insert"
    /\ \E j \in JobIds :
         /\ IsNextId(j, JobRowIds)
         /\ jobs' = [jobs EXCEPT ![j] = request[c].row]
    /\ Respond(c)
    /\ UNCHANGED <<docs, disk, worker, loop, mishaps, view>>

ReadForCancel(c, j) ==
    /\ jobs[j].status \in Cancellable
    /\ Begin(c, [Idle EXCEPT !.op = "cancel", !.id = j, !.row = jobs[j]])

\* The UPDATE of a row that is gone fails and the handler rolls back.
WriteCancel(c) ==
    /\ request[c].op = "cancel"
    /\ LET j == request[c].id
           seen == request[c].row
       IN  jobs' = IF Exists(j)
                     THEN [jobs EXCEPT ![j] =
                             OrmFlush(@, seen, CancelledRow(seen))]
                     ELSE jobs
    /\ Respond(c)
    /\ UNCHANGED <<docs, disk, worker, loop, mishaps, view>>

ReadForDelete(c, d) ==
    /\ docs[d] # NoUser
    /\ \A j \in JobsOf(d) : jobs[j].status \notin ActiveExport
    /\ Begin(c, [Idle EXCEPT !.op = "delete", !.id = d, !.rows = JobsOf(d),
                             !.dirs = RecordedDirs(d)])

\* Rows are deleted by primary key, whatever they hold by now.
WriteDelete(c) ==
    /\ request[c].op = "delete"
    /\ docs' = [docs EXCEPT ![request[c].id] = NoUser]
    /\ jobs' = [j \in JobIds |-> IF j \in request[c].rows THEN NoRow
                                                          ELSE jobs[j]]
    /\ request' = [request EXCEPT ![c].op = "unlink"]
    /\ UNCHANGED <<disk, worker, loop, mishaps, view>>

RemoveDocumentFiles(c) ==
    /\ request[c].op = "unlink"
    /\ disk' = disk \ request[c].dirs
    /\ Respond(c)
    /\ UNCHANGED <<docs, jobs, worker, loop, mishaps, view>>

ClientStep(c) ==
    \/ InsertJob(c)
    \/ WriteCancel(c)
    \/ WriteDelete(c)
    \/ RemoveDocumentFiles(c)

-----------------------------------------------------------------------------

Unseen(w) == view' = [view EXCEPT ![w] = NoRows]

\* The stale rows a worker is about to end.
StaleInView(w) == {j \in JobIds : IsStale(view[w][j])}

ReadStaleJobs(w) ==
    /\ worker[w].pc = "reclaim"
    /\ view[w] = NoRows
    /\ \E j \in JobIds : IsStale(jobs[j])
    /\ view' = [view EXCEPT ![w] = jobs]
    /\ UNCHANGED <<docs, jobs, disk, worker, loop, mishaps, request>>

\* One UPDATE that finds its row gone rolls all of them back, and the
\* iteration ends there.
WriteStaleJobs(w) ==
    /\ worker[w].pc = "reclaim"
    /\ StaleInView(w) # {}
    /\ IF \A j \in StaleInView(w) : Exists(j)
         THEN /\ jobs' = [j \in JobIds |->
                            IF j \in StaleInView(w)
                              THEN OrmFlush(jobs[j], view[w][j],
                                            ReclaimedRow(view[w][j]))
                              ELSE jobs[j]]
              /\ GoTo(w, "claim")
         ELSE EndIteration(w, FALSE) /\ UNCHANGED jobs
    /\ Unseen(w)
    /\ UNCHANGED <<docs, disk, mishaps, request>>

FindNothingStale(w) ==
    /\ worker[w].pc = "reclaim"
    /\ StaleInView(w) = {}
    /\ \A j \in JobIds : ~IsStale(jobs[j])
    /\ GoTo(w, "claim")
    /\ UNCHANGED <<docs, jobs, disk, mishaps, request, view>>

ReadNextQueuedJob(w) ==
    /\ worker[w].pc = "claim"
    /\ worker[w].job = 0
    /\ \E j \in JobIds :
         /\ IsNextQueued(j)
         /\ worker' = [worker EXCEPT ![w].job = j, ![w].loaded = jobs[j]]
    /\ UNCHANGED <<docs, jobs, disk, loop, mishaps, request, view>>

WriteClaim(w) ==
    /\ worker[w].pc = "claim"
    /\ worker[w].job # 0
    /\ LET seen == worker[w].loaded
       IN  IF Exists(worker[w].job)
             THEN /\ jobs' = [jobs EXCEPT ![worker[w].job] =
                                OrmFlush(@, seen, ClaimedRow(seen))]
                  /\ GoTo(w, "load")
             ELSE EndIteration(w, FALSE) /\ UNCHANGED jobs
    /\ UNCHANGED <<docs, disk, mishaps, request, view>>

FindNoQueuedJob(w) ==
    /\ worker[w].job = 0
    /\ FindNothingToClaim(w)
    /\ UNCHANGED <<request, view>>

RaceWorkerStep(w) ==
    \/ ReadStaleJobs(w)
    \/ WriteStaleJobs(w)
    \/ FindNothingStale(w)
    \/ ReadNextQueuedJob(w)
    \/ WriteClaim(w)
    \/ FindNoQueuedJob(w)
    \/ ExportStep(w) /\ UNCHANGED <<request, view>>

Next ==
    \/ \E u \in Users : ImportDocument(u) /\ UNCHANGED <<request, view>>
    \/ \E c \in Clients, u \in Users, d \in DocIds, split \in Splits :
         ReadForEnqueue(c, u, d, split)
    \/ \E c \in Clients, j \in JobIds : ReadForRetry(c, j)
    \/ \E c \in Clients, j \in JobIds : ReadForCancel(c, j)
    \/ \E c \in Clients, d \in DocIds : ReadForDelete(c, d)
    \/ \E c \in Clients : ClientStep(c)
    \/ \E j \in JobIds : HeartbeatExpires(j) /\ UNCHANGED <<request, view>>
    \/ \E w \in Workers : RaceWorkerStep(w)
    \/ \E w \in Workers : WorkerDies(w) /\ Unseen(w) /\ UNCHANGED request

Fairness ==
    /\ \A c \in Clients : WF_racesVars(ClientStep(c))
    /\ \A w \in Workers : WF_racesVars(RaceWorkerStep(w))
    /\ \A j \in JobIds :
         WF_racesVars(HeartbeatExpires(j) /\ UNCHANGED <<request, view>>)

Spec     == Init /\ [][Next]_racesVars
FairSpec == Spec /\ Fairness

-----------------------------------------------------------------------------

\* The types of the rows and of what the split handlers remember.
TypeOK ==
    /\ docs \in [DocIds -> Users \cup {NoUser}]
    /\ jobs \in [JobIds -> JobRow]
    /\ disk \in SUBSET (Users \X JobIds)
    /\ worker \in [Workers -> WorkerState]
    /\ loop \in [current : Workers, ready : BOOLEAN]
    /\ mishaps \in 0 .. MaxMishaps
    /\ request \in [Clients -> Request]
    /\ view \in [Workers -> [JobIds -> JobRow]]

\* Whatever the requests interleave with, one worker leaves rows a client can
\* make sense of: completed has audio and no failure, failed says why, and no
\* row has both a failure and audio.  The status alone is not to be trusted
\* (see CompletedJobsAreNotCanceled), the columns beside it are.
RowsStayReadable ==
    \A j \in JobIds : LET r == jobs[j] IN
        /\ r.status = "completed" => r.artifact # NoArtifact
        /\ r.status = "failed" => r.failure # "none"
        /\ r.failure # "none" => r.artifact = NoArtifact

\* Every job ends although requests and worker overwrite each other's status:
\* a job that a late cancellation reopens has no worker left, so that its
\* heartbeat runs out and reclaim_stale_jobs ends it a second time.
EveryJobSettles ==
    \A j \in JobIds :
        jobs[j].status \in ActiveExport ~> jobs[j].status \notin ActiveExport
=============================================================================
