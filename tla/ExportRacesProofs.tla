-------------------------- MODULE ExportRacesProofs --------------------------
(***************************************************************************)
(* Theorems about ExportRaces, where the requests and the worker write what *)
(* they computed from rows that may have changed since they read them, for  *)
(* every number of request threads and every value of the bounds.          *)
(***************************************************************************)
EXTENDS ExportRaces, ExportWorkerProofs

(***************************************************************************)
(* Types.  A document may be deleted under a job that is being submitted,   *)
(* so a row need not have its document, but it still names one.            *)
(***************************************************************************)

\* What a handler is about to write: a queued row of some document, or the
\* cancellation of a row that it found cancellable.
GoodRequest(r) ==
    /\ r.op = "insert" => r.row.status = "queued" /\ NamesItsDocument(r.row)
    /\ r.op = "cancel" => r.id \in JobIds /\ r.row.status \in Cancellable

RacesTypeInv ==
    /\ WorkerTypeInv
    /\ request \in [Clients -> Request]
    /\ view \in [Workers -> [JobIds -> JobRow]]
    /\ \A c \in Clients : GoodRequest(request[c])
    /\ \A j \in JobIds : ~Exists(j) => jobs[j].doc = 0

\* The values the handlers and the view start from are typed.
LEMMA IdleType == Idle \in Request /\ NoRows \in [JobIds -> JobRow]
BY NoRowType DEF Idle, Request, NoRows

\* The initial state satisfies RacesTypeInv.
LEMMA InitRacesTypeInv == Init => RacesTypeInv
<1> SUFFICES ASSUME Init PROVE RacesTypeInv OBVIOUS
<1>1. WorkerTypeInv
  BY InitWorkerTypeInv DEF Init
<1>2. /\ request \in [Clients -> Request]
      /\ view \in [Workers -> [JobIds -> JobRow]]
  BY IdleType DEF Init
<1>3. \A c \in Clients : GoodRequest(request[c])
  BY DEF Init, GoodRequest, Idle
<1>4. \A j \in JobIds : ~Exists(j) => jobs[j].doc = 0
  BY DEF Init, InitWorker, NoRow
<1> QED BY <1>1, <1>2, <1>3, <1>4 DEF RacesTypeInv

\* RacesTypeInv is kept by a step whose rows keep their job and whose worker
\* and memories stay typed.
LEMMA RacesStep ==
    ASSUME RacesTypeInv, RowsKeepTheirJob,
           WorkerTypeOK', \A w \in Workers : GoodMemory(worker[w])',
           request' \in [Clients -> Request],
           \A c \in Clients : GoodRequest(request[c])',
           view' \in [Workers -> [JobIds -> JobRow]]
    PROVE  RacesTypeInv'
<1>1. \A j \in JobIds : NamesItsDocument(jobs[j])'
  BY NamesStep DEF RacesTypeInv
<1>2. \A j \in JobIds : (~Exists(j) => jobs[j].doc = 0)'
  BY DEF RacesTypeInv, RowsKeepTheirJob, SameJob, Exists
<1> QED BY <1>1, <1>2 DEF RacesTypeInv, WorkerTypeInv

\* A handler that has read its row is at work on a good request.
LEMMA BeginStep ==
    ASSUME RacesTypeInv, NEW c \in Clients, NEW r \in Request, GoodRequest(r),
           Begin(c, r)
    PROVE  RacesTypeInv'
<1>1. /\ UNCHANGED <<docs, jobs, disk, worker, loop, mishaps, view>>
      /\ request' = [request EXCEPT ![c] = r]
  BY DEF Begin
<1>2. /\ request' \in [Clients -> Request]
      /\ \A d \in Clients : GoodRequest(request[d])'
  BY <1>1 DEF RacesTypeInv, GoodRequest
<1>3. RowsKeepTheirJob /\ view' \in [Workers -> [JobIds -> JobRow]]
  BY <1>1 DEF RacesTypeInv, RowsKeepTheirJob
<1>4. WorkerTypeOK' /\ \A w \in Workers : GoodMemory(worker[w])'
  BY <1>1 DEF RacesTypeInv, WorkerTypeInv, WorkerTypeOK, GoodMemory
<1> QED BY <1>2, <1>3, <1>4, RacesStep

\* Reading what a request decides on keeps RacesTypeInv.
LEMMA ReadsKeepRacesTypeInv ==
    ASSUME RacesTypeInv, NEW c \in Clients,
           \/ \E u \in Users, d \in DocIds, split \in Splits :
                ReadForEnqueue(c, u, d, split)
           \/ \E j \in JobIds : ReadForRetry(c, j)
           \/ \E j \in JobIds : ReadForCancel(c, j)
           \/ \E d \in DocIds : ReadForDelete(c, d)
    PROVE  RacesTypeInv'
<1>0. jobs \in [JobIds -> JobRow] /\ \A j \in JobIds : NamesItsDocument(jobs[j])
  BY DEF RacesTypeInv, WorkerTypeInv, WorkerTypeOK
<1>1. ASSUME NEW u \in Users, NEW d \in DocIds, NEW split \in Splits,
             ReadForEnqueue(c, u, d, split)
      PROVE  RacesTypeInv'
  <2> DEFINE row == QueuedRow(u, d, split)
             r == [Idle EXCEPT !.op = "insert", !.row = row]
  <2>1. row \in JobRow
    BY QueuedRowType, ExportRacesAssumption
  <2>2. row.status = "queued" /\ NamesItsDocument(row)
    BY DEF QueuedRow, NamesItsDocument
  <2>3. Begin(c, r)
    BY <1>1 DEF ReadForEnqueue
  <2> HIDE DEF row
  <2>4. r \in Request /\ GoodRequest(r)
    BY <2>1, <2>2 DEF Request, GoodRequest, Idle
  <2> QED BY <2>3, <2>4, BeginStep
<1>2. ASSUME NEW j \in JobIds, ReadForRetry(c, j) PROVE RacesTypeInv'
  <2> DEFINE row == RetriedRow(jobs[j])
             r == [Idle EXCEPT !.op = "insert", !.row = row]
  <2>1. row \in JobRow
    BY <1>0, QueuedRowType DEF RetriedRow, JobRow
  <2>2. row.status = "queued" /\ NamesItsDocument(row)
    BY <1>0, <1>2
       DEF RetriedRow, QueuedRow, NamesItsDocument, ReadForRetry, Retryable
  <2>3. Begin(c, r)
    BY <1>2 DEF ReadForRetry
  <2> HIDE DEF row
  <2>4. r \in Request /\ GoodRequest(r)
    BY <2>1, <2>2 DEF Request, GoodRequest, Idle
  <2> QED BY <2>3, <2>4, BeginStep
<1>3. ASSUME NEW j \in JobIds, ReadForCancel(c, j) PROVE RacesTypeInv'
  <2> DEFINE row == jobs[j]
             r == [Idle EXCEPT !.op = "cancel", !.id = j, !.row = row]
  <2>1. row \in JobRow /\ row.status \in Cancellable
    BY <1>0, <1>3 DEF ReadForCancel
  <2>2. Begin(c, r)
    BY <1>3 DEF ReadForCancel
  <2> HIDE DEF row
  <2>3. r \in Request /\ GoodRequest(r)
    BY <2>1 DEF Request, GoodRequest, Idle
  <2> QED BY <2>2, <2>3, BeginStep
<1>4. ASSUME NEW d \in DocIds, ReadForDelete(c, d) PROVE RacesTypeInv'
  <2> DEFINE dirs == RecordedDirs(d)
             rows == JobsOf(d)
             r == [Idle EXCEPT !.op = "delete", !.id = d, !.rows = rows,
                               !.dirs = dirs]
  <2>1. \A j \in JobsOf(d) : j \in JobIds /\ jobs[j].user \in Users
    BY <1>0, d \in 1 .. MaxDocs, ExportJobsAssumption
       DEF JobsOf, NamesItsDocument, RacesTypeInv, Exists, DocIds
  <2>2. rows \in SUBSET JobIds /\ dirs \in SUBSET (Users \X JobIds)
    BY <2>1 DEF RecordedDirs, JobsOf
  <2>3. Begin(c, r)
    BY <1>4 DEF ReadForDelete
  <2> HIDE DEF rows, dirs
  <2>4. r \in Request /\ GoodRequest(r)
    BY <2>2, NoRowType DEF Request, GoodRequest, Idle
  <2> QED BY <2>3, <2>4, BeginStep
<1> QED BY <1>1, <1>2, <1>3, <1>4


\* A step of the tables that leaves worker, loop and view alone.
LEMMA TablesStep ==
    ASSUME RacesTypeInv, RowsKeepTheirJob,
           UNCHANGED <<worker, loop, mishaps, view>>,
           docs' \in [DocIds -> Users \cup {NoUser}],
           jobs' \in [JobIds -> JobRow],
           disk' \in SUBSET (Users \X JobIds),
           NEW c \in Clients, NEW r \in Request, GoodRequest(r),
           request' \in {request, [request EXCEPT ![c] = r]}
    PROVE  RacesTypeInv'
<1>1. WorkerTypeOK' /\ \A w \in Workers : GoodMemory(worker[w])'
  BY DEF RacesTypeInv, WorkerTypeInv, WorkerTypeOK, GoodMemory
<1>2. /\ request' \in [Clients -> Request]
      /\ \A d \in Clients : GoodRequest(request[d])'
  BY DEF RacesTypeInv, GoodRequest
<1>3. view' \in [Workers -> [JobIds -> JobRow]]
  BY DEF RacesTypeInv
<1> QED BY <1>1, <1>2, <1>3, RacesStep

\* An UPDATE computed from an old row keeps the job of the row it writes to.
LEMMA UpdateKeepsJob ==
    ASSUME RacesTypeInv, NEW j \in JobIds, Exists(j), NEW seen \in JobRow,
           NEW new \in JobRow, new.status # "absent",
           jobs' = [jobs EXCEPT ![j] = OrmFlush(jobs[j], seen, new)]
    PROVE  RowsKeepTheirJob /\ jobs' \in [JobIds -> JobRow]
<1>1. jobs \in [JobIds -> JobRow]
  BY DEF RacesTypeInv, WorkerTypeInv, WorkerTypeOK
<1>2. /\ SameJob(OrmFlush(jobs[j], seen, new), jobs[j])
      /\ OrmFlush(jobs[j], seen, new) \in JobRow
  BY <1>1, OrmFlushRow
<1> QED BY <1>1, <1>2 DEF RowsKeepTheirJob, Exists

\* The second halves of the requests keep RacesTypeInv.
LEMMA WritesKeepRacesTypeInv ==
    ASSUME RacesTypeInv, NEW c \in Clients, ClientStep(c)
    PROVE  RacesTypeInv'
<1>0. /\ docs \in [DocIds -> Users \cup {NoUser}]
      /\ jobs \in [JobIds -> JobRow]
      /\ disk \in SUBSET (Users \X JobIds)
      /\ request[c] \in Request
      /\ GoodRequest(request[c])
      /\ request \in [Clients -> Request]
      /\ \A j \in JobIds : NamesItsDocument(jobs[j])
  BY DEF RacesTypeInv, WorkerTypeInv, WorkerTypeOK
<1>i. Idle \in Request /\ GoodRequest(Idle)
  BY IdleType DEF Idle, GoodRequest
<1>1. CASE InsertJob(c)
  <2> DEFINE row == request[c].row
  <2>1. PICK j \in JobIds : jobs' = [jobs EXCEPT ![j] = row]
    BY <1>1 DEF InsertJob
  <2>2. row \in JobRow /\ row.status = "queued" /\ NamesItsDocument(row)
    BY <1>0, <1>1 DEF InsertJob, GoodRequest, Request
  <2>3. request' = [request EXCEPT ![c] = Idle]
    BY <1>1 DEF InsertJob, Respond
  <2>4. UNCHANGED <<docs, disk, worker, loop, mishaps, view>>
    BY <1>1 DEF InsertJob
  <2> HIDE DEF row
  <2>5. jobs' \in [JobIds -> JobRow]
    BY <1>0, <2>1, <2>2
  <2>6. \A k \in JobIds : NamesItsDocument(jobs[k])'
    BY <1>0, <2>1, <2>2 DEF NamesItsDocument
  <2>7. \A k \in JobIds : (~Exists(k) => jobs[k].doc = 0)'
    BY <1>0, <2>1, <2>2 DEF RacesTypeInv, Exists
  <2>8. /\ request' \in [Clients -> Request]
        /\ \A d \in Clients : GoodRequest(request[d])'
    BY <1>0, <1>i, <2>3 DEF RacesTypeInv, GoodRequest
  <2>9. WorkerTypeOK' /\ \A w \in Workers : GoodMemory(worker[w])'
    BY <2>4, <2>5 DEF RacesTypeInv, WorkerTypeInv, WorkerTypeOK, GoodMemory
  <2>10. view' \in [Workers -> [JobIds -> JobRow]]
    BY <2>4 DEF RacesTypeInv
  <2> QED BY <2>6, <2>7, <2>8, <2>9, <2>10 DEF RacesTypeInv, WorkerTypeInv
<1>2. CASE WriteCancel(c)
  <2> DEFINE j == request[c].id
             seen == request[c].row
             new == CancelledRow(seen)
  <2>1. j \in JobIds /\ seen \in JobRow /\ seen.status \in Cancellable
    BY <1>0, <1>2 DEF WriteCancel, GoodRequest, Request
  <2>2. new \in JobRow /\ new.status # "absent"
    BY <2>1, RowOperations DEF SameJob, Cancellable
  <2>3. /\ jobs' = IF Exists(j)
                     THEN [jobs EXCEPT ![j] = OrmFlush(jobs[j], seen, new)]
                     ELSE jobs
        /\ request' = [request EXCEPT ![c] = Idle]
        /\ UNCHANGED <<docs, disk, worker, loop, mishaps, view>>
    BY <1>2 DEF WriteCancel, Respond
  <2> HIDE DEF j, seen, new
  <2>4. RowsKeepTheirJob /\ jobs' \in [JobIds -> JobRow]
    <3>1. CASE Exists(j)
      BY <2>1, <2>2, <2>3, <3>1, UpdateKeepsJob
    <3>2. CASE ~Exists(j)
      BY <1>0, <2>3, <3>2 DEF RowsKeepTheirJob
    <3> QED BY <3>1, <3>2
  <2> QED BY <1>0, <1>i, <2>3, <2>4, TablesStep
<1>3. CASE WriteDelete(c)
  <2> DEFINE r == [request[c] EXCEPT !.op = "unlink"]
  <2>1. /\ docs' = [docs EXCEPT ![request[c].id] = NoUser]
        /\ jobs' = [j \in JobIds |-> IF j \in request[c].rows THEN NoRow
                                                              ELSE jobs[j]]
        /\ UNCHANGED <<disk, worker, loop, mishaps, view>>
    BY <1>3 DEF WriteDelete
  <2>2. request' = [request EXCEPT ![c] = r]
    BY <1>0, <1>3 DEF WriteDelete, Request
  <2>3. r \in Request /\ GoodRequest(r)
    BY <1>0 DEF Request, GoodRequest
  <2> HIDE DEF r
  <2>4. jobs' \in [JobIds -> JobRow]
    BY <1>0, <2>1, NoRowType
  <2>5. \A k \in JobIds : NamesItsDocument(jobs[k])'
    BY <1>0, <2>1 DEF NamesItsDocument, NoRow
  <2>6. \A k \in JobIds : (~Exists(k) => jobs[k].doc = 0)'
    BY <1>0, <2>1 DEF RacesTypeInv, Exists, NoRow
  <2>7. /\ request' \in [Clients -> Request]
        /\ \A d \in Clients : GoodRequest(request[d])'
    BY <1>0, <2>2, <2>3 DEF RacesTypeInv, GoodRequest
  <2>8. WorkerTypeOK' /\ \A w \in Workers : GoodMemory(worker[w])'
    BY <1>0, <2>1, <2>4
       DEF RacesTypeInv, WorkerTypeInv, WorkerTypeOK, GoodMemory
  <2>9. view' \in [Workers -> [JobIds -> JobRow]]
    BY <2>1 DEF RacesTypeInv
  <2> QED BY <2>5, <2>6, <2>7, <2>8, <2>9 DEF RacesTypeInv, WorkerTypeInv
<1>4. CASE RemoveDocumentFiles(c)
  <2>1. /\ disk' = disk \ request[c].dirs
        /\ request' = [request EXCEPT ![c] = Idle]
        /\ UNCHANGED <<docs, jobs, worker, loop, mishaps, view>>
    BY <1>4 DEF RemoveDocumentFiles, Respond
  <2>2. RowsKeepTheirJob
    BY <2>1 DEF RowsKeepTheirJob
  <2> QED BY <1>0, <1>i, <2>1, <2>2, TablesStep
<1> QED BY <1>1, <1>2, <1>3, <1>4 DEF ClientStep

\* Time and new documents keep RacesTypeInv.
LEMMA OutsideKeepsRacesTypeInv ==
    ASSUME RacesTypeInv, UNCHANGED <<request, view>>,
           \/ \E u \in Users : ImportDocument(u)
           \/ \E j \in JobIds : HeartbeatExpires(j)
    PROVE  RacesTypeInv'
<1>0. /\ docs \in [DocIds -> Users \cup {NoUser}]
      /\ jobs \in [JobIds -> JobRow]
      /\ disk \in SUBSET (Users \X JobIds)
  BY DEF RacesTypeInv, WorkerTypeInv, WorkerTypeOK
<1>1. /\ request' \in [Clients -> Request]
      /\ \A d \in Clients : GoodRequest(request[d])'
      /\ view' \in [Workers -> [JobIds -> JobRow]]
  BY DEF RacesTypeInv, GoodRequest
<1>2. ASSUME NEW u \in Users, ImportDocument(u) PROVE RacesTypeInv'
  <2>1. /\ docs' \in [DocIds -> Users \cup {NoUser}]
        /\ UNCHANGED <<jobs, disk, worker, loop, mishaps>>
    BY <1>0, <1>2 DEF ImportDocument
  <2>2. WorkerTypeOK' /\ \A w \in Workers : GoodMemory(worker[w])'
    BY <2>1 DEF RacesTypeInv, WorkerTypeInv, WorkerTypeOK, GoodMemory
  <2> QED BY <1>1, <2>1, <2>2, RacesStep DEF RowsKeepTheirJob
<1>3. ASSUME NEW j \in JobIds, HeartbeatExpires(j) PROVE RacesTypeInv'
  <2> DEFINE row == [jobs[j] EXCEPT !.fresh = FALSE]
  <2>1. SameJob(row, jobs[j])
    BY <1>0, RowOperations
  <2>2. /\ jobs' = [jobs EXCEPT ![j] = row]
        /\ jobs[j].status # "absent"
        /\ UNCHANGED <<docs, disk, worker, loop, mishaps>>
    BY <1>3 DEF HeartbeatExpires, StaleReclaimable
  <2> HIDE DEF row
  <2>3. jobs' \in [JobIds -> JobRow] /\ RowsKeepTheirJob
    BY <1>0, <2>1, <2>2 DEF SameJob, RowsKeepTheirJob
  <2>4. WorkerTypeOK' /\ \A w \in Workers : GoodMemory(worker[w])'
    BY <2>2, <2>3 DEF RacesTypeInv, WorkerTypeInv, WorkerTypeOK, GoodMemory
  <2> QED BY <1>1, <2>3, <2>4, RacesStep
<1> QED BY <1>2, <1>3

\* The worker's own steps keep RacesTypeInv.
LEMMA WorkerKeepsRacesTypeInv ==
    ASSUME RacesTypeInv, NEW w \in Workers,
           \/ RaceWorkerStep(w)
           \/ WorkerDies(w) /\ Unseen(w) /\ UNCHANGED request
    PROVE  RacesTypeInv'
<1> USE ExportWorkerAssumption
<1>0. /\ WorkerTypeInv
      /\ jobs \in [JobIds -> JobRow]
      /\ worker \in [Workers -> WorkerState]
      /\ worker[w] \in WorkerState
      /\ GoodMemory(worker[w])
      /\ view \in [Workers -> [JobIds -> JobRow]]
  BY DEF RacesTypeInv, WorkerTypeInv, WorkerTypeOK
<1>1. ASSUME UNCHANGED request
      PROVE  /\ request' \in [Clients -> Request]
             /\ \A c \in Clients : GoodRequest(request[c])'
  BY <1>1 DEF RacesTypeInv, GoodRequest
<1>2. ASSUME UNCHANGED view \/ Unseen(w) \/ view' = [view EXCEPT ![w] = jobs]
      PROVE  view' \in [Workers -> [JobIds -> JobRow]]
  BY <1>0, <1>2, IdleType DEF Unseen
<1>3. ASSUME UNCHANGED jobs PROVE RowsKeepTheirJob
  BY <1>3 DEF RowsKeepTheirJob
<1>4. ASSUME NEW m \in WorkerState, GoodMemory(m), UNCHANGED <<loop, mishaps>>,
             worker' = [worker EXCEPT ![w] = m], UNCHANGED <<docs, disk>>,
             jobs' \in [JobIds -> JobRow]
      PROVE  WorkerTypeOK' /\ \A v \in Workers : GoodMemory(worker[v])'
  BY <1>0, <1>4, MemoryStep DEF WorkerTypeInv, WorkerTypeOK
<1>5. ASSUME NEW b \in BOOLEAN, EndIteration(w, b), UNCHANGED <<docs, jobs, disk>>,
             mishaps' \in 0 .. MaxMishaps
      PROVE  WorkerTypeOK' /\ \A v \in Workers : GoodMemory(worker[v])'
  BY <1>0, <1>5, EndIterationStep DEF WorkerTypeInv, WorkerTypeOK
<1>m. mishaps \in 0 .. MaxMishaps
  BY DEF RacesTypeInv, WorkerTypeInv, WorkerTypeOK
<1> DEFINE claiming == [worker[w] EXCEPT !.pc = "claim"]
<1>c. claiming \in WorkerState /\ GoodMemory(claiming)
  BY <1>0 DEF WorkerState, Stages, GoodMemory
<1>6. CASE ReadStaleJobs(w)
  <2>1. WorkerTypeOK' /\ \A v \in Workers : GoodMemory(worker[v])'
    BY <1>0, <1>6 DEF ReadStaleJobs, WorkerTypeInv, WorkerTypeOK, GoodMemory
  <2> QED BY <1>1, <1>2, <1>3, <1>6, <2>1, RacesStep DEF ReadStaleJobs
<1>7. CASE WriteStaleJobs(w)
  <2>1. UNCHANGED <<docs, disk, mishaps, request>> /\ Unseen(w)
    BY <1>7 DEF WriteStaleJobs
  <2>2. CASE \A j \in StaleInView(w) : Exists(j)
    <3>1. /\ jobs' = [j \in JobIds |->
                        IF j \in StaleInView(w)
                          THEN OrmFlush(jobs[j], view[w][j],
                                        ReclaimedRow(view[w][j]))
                          ELSE jobs[j]]
          /\ GoTo(w, "claim")
      BY <1>7, <2>2 DEF WriteStaleJobs
    <3>2. ASSUME NEW j \in StaleInView(w)
          PROVE  /\ SameJob(OrmFlush(jobs[j], view[w][j],
                                     ReclaimedRow(view[w][j])), jobs[j])
                 /\ OrmFlush(jobs[j], view[w][j], ReclaimedRow(view[w][j]))
                      \in JobRow
                 /\ jobs[j].status # "absent"
      <4> DEFINE new == ReclaimedRow(view[w][j])
      <4>1. /\ j \in JobIds
            /\ view[w][j] \in JobRow
            /\ view[w][j].status # "absent"
            /\ jobs[j].status # "absent"
            /\ jobs[j] \in JobRow
        BY <1>0, <2>2, <3>2 DEF StaleInView, IsStale, StaleReclaimable, Exists
      <4>2. new \in JobRow /\ new.status # "absent"
        BY <4>1, RowOperations DEF SameJob
      <4> QED BY <4>1, <4>2, OrmFlushRow
    <3>3. jobs' \in [JobIds -> JobRow] /\ RowsKeepTheirJob
      BY <1>0, <3>1, <3>2 DEF RowsKeepTheirJob
    <3>4. WorkerTypeOK' /\ \A v \in Workers : GoodMemory(worker[v])'
      BY <1>4, <1>c, <2>1, <3>1, <3>3 DEF GoTo
    <3> QED BY <1>1, <1>2, <2>1, <3>3, <3>4, RacesStep
  <2>3. CASE ~(\A j \in StaleInView(w) : Exists(j))
    <3>1. EndIteration(w, FALSE) /\ UNCHANGED jobs
      BY <1>7, <2>3 DEF WriteStaleJobs
    <3>2. WorkerTypeOK' /\ \A v \in Workers : GoodMemory(worker[v])'
      BY <1>5, <1>m, <2>1, <3>1
    <3> QED BY <1>1, <1>2, <1>3, <2>1, <3>1, <3>2, RacesStep
  <2> QED BY <2>2, <2>3
<1>8. CASE FindNothingStale(w)
  <2>1. /\ GoTo(w, "claim")
        /\ UNCHANGED <<docs, jobs, disk, mishaps, request, view>>
    BY <1>8 DEF FindNothingStale
  <2>2. WorkerTypeOK' /\ \A v \in Workers : GoodMemory(worker[v])'
    BY <1>0, <1>4, <1>c, <2>1 DEF GoTo
  <2> QED BY <1>1, <1>2, <1>3, <2>1, <2>2, RacesStep
<1>9. CASE ReadNextQueuedJob(w)
  <2>1. PICK j \in JobIds :
          worker' = [worker EXCEPT ![w].job = j, ![w].loaded = jobs[j]]
    BY <1>9 DEF ReadNextQueuedJob
  <2>2. worker[w].pc = "claim"
    BY <1>9 DEF ReadNextQueuedJob
  <2>3. UNCHANGED <<docs, jobs, disk, loop, mishaps, request, view>>
    BY <1>9 DEF ReadNextQueuedJob
  <2> DEFINE m == [worker[w] EXCEPT !.job = j, !.loaded = jobs[j]]
  <2>4. m \in WorkerState /\ GoodMemory(m)
    BY <1>0, <2>2 DEF WorkerState, GoodMemory
  <2>5. worker' = [worker EXCEPT ![w] = m]
    BY <1>0, <2>1 DEF WorkerState
  <2> HIDE DEF m
  <2>6. WorkerTypeOK' /\ \A v \in Workers : GoodMemory(worker[v])'
    BY <1>0, <1>4, <2>3, <2>4, <2>5
  <2> QED BY <1>1, <1>2, <1>3, <2>3, <2>6, RacesStep
<1>10. CASE WriteClaim(w)
  <2> DEFINE j == worker[w].job
             seen == worker[w].loaded
  <2>1. j \in JobIds /\ seen \in JobRow
    BY <1>0, <1>10 DEF WriteClaim, WorkerState
  <2>2. UNCHANGED <<docs, disk, mishaps, request, view>>
    BY <1>10 DEF WriteClaim
  <2>3. CASE Exists(j)
    <3> DEFINE m == [worker[w] EXCEPT !.pc = "load"]
               new == ClaimedRow(seen)
    <3>1. /\ jobs' = [jobs EXCEPT ![j] = OrmFlush(jobs[j], seen, new)]
          /\ GoTo(w, "load")
      BY <1>10, <2>3 DEF WriteClaim
    <3>2. new \in JobRow /\ new.status # "absent"
      BY <2>1 DEF ClaimedRow, JobRow, ActiveExport
    <3>3. m \in WorkerState /\ GoodMemory(m)
      BY <1>0, <2>1 DEF WorkerState, Stages, GoodMemory
    <3>4. RowsKeepTheirJob /\ jobs' \in [JobIds -> JobRow]
      <4> HIDE DEF new, seen, j
      <4> QED BY <2>1, <2>3, <3>1, <3>2, UpdateKeepsJob
    <3>5. WorkerTypeOK' /\ \A v \in Workers : GoodMemory(worker[v])'
      BY <1>4, <2>2, <3>1, <3>3, <3>4 DEF GoTo
    <3> QED BY <1>1, <1>2, <2>2, <3>4, <3>5, RacesStep
  <2>4. CASE ~Exists(j)
    <3>1. EndIteration(w, FALSE) /\ UNCHANGED jobs
      BY <1>10, <2>4 DEF WriteClaim
    <3>2. WorkerTypeOK' /\ \A v \in Workers : GoodMemory(worker[v])'
      BY <1>5, <1>m, <2>2, <3>1
    <3> QED BY <1>1, <1>2, <1>3, <2>2, <3>1, <3>2, RacesStep
  <2> QED BY <2>3, <2>4
<1>11. CASE FindNoQueuedJob(w)
  <2>1. /\ EndIteration(w, TRUE)
        /\ UNCHANGED <<docs, jobs, disk, mishaps, request, view>>
    BY <1>11 DEF FindNoQueuedJob, FindNothingToClaim
  <2>2. WorkerTypeOK' /\ \A v \in Workers : GoodMemory(worker[v])'
    BY <1>5, <1>m, <2>1
  <2> QED BY <1>1, <1>2, <1>3, <2>1, <2>2, RacesStep
<1>12. CASE ExportStep(w) /\ UNCHANGED <<request, view>>
  <2>1. WorkerTypeInv' /\ RowsKeepTheirJob
    BY <1>0, <1>12, ExportKeepsWorkerTypeInv
  <2>2. UNCHANGED request /\ UNCHANGED view
    BY <1>12
  <2>3. WorkerTypeOK' /\ \A v \in Workers : GoodMemory(worker[v])'
    BY <2>1 DEF WorkerTypeInv
  <2> QED BY <1>1, <1>2, <2>1, <2>2, <2>3, RacesStep
<1>13. CASE WorkerDies(w) /\ Unseen(w) /\ UNCHANGED request
  <2>1. EndIteration(w, FALSE) /\ UNCHANGED <<docs, jobs, disk>>
    BY <1>13 DEF WorkerDies
  <2>2. mishaps' \in 0 .. MaxMishaps
    BY <1>m, <1>13 DEF WorkerDies
  <2>3. WorkerTypeOK' /\ \A v \in Workers : GoodMemory(worker[v])'
    BY <1>5, <2>1, <2>2
  <2> QED BY <1>1, <1>2, <1>3, <1>13, <2>1, <2>3, RacesStep
<1> QED BY <1>6, <1>7, <1>8, <1>9, <1>10, <1>11, <1>12, <1>13
        DEF RaceWorkerStep

\* RacesTypeInv is inductive.
LEMMA NextRacesTypeInv == RacesTypeInv /\ [Next]_racesVars => RacesTypeInv'
<1> SUFFICES ASSUME RacesTypeInv, [Next]_racesVars PROVE RacesTypeInv'
  OBVIOUS
<1>1. CASE UNCHANGED racesVars
  BY <1>1 DEF racesVars, RacesTypeInv, WorkerTypeInv, WorkerTypeOK, GoodMemory,
              NamesItsDocument, GoodRequest, Exists
<1>2. ASSUME NEW w \in Workers,
             \/ RaceWorkerStep(w)
             \/ WorkerDies(w) /\ Unseen(w) /\ UNCHANGED request
      PROVE  RacesTypeInv'
  BY <1>2, WorkerKeepsRacesTypeInv
<1>3. CASE \/ \E u \in Users : ImportDocument(u) /\ UNCHANGED <<request, view>>
           \/ \E j \in JobIds : HeartbeatExpires(j)
                                 /\ UNCHANGED <<request, view>>
  BY <1>3, OutsideKeepsRacesTypeInv
<1>4. CASE \E c \in Clients : ClientStep(c)
  BY <1>4, WritesKeepRacesTypeInv
<1>5. ASSUME NEW c \in Clients,
             \/ \E u \in Users, d \in DocIds, split \in Splits :
                  ReadForEnqueue(c, u, d, split)
             \/ \E j \in JobIds : ReadForRetry(c, j)
             \/ \E j \in JobIds : ReadForCancel(c, j)
             \/ \E d \in DocIds : ReadForDelete(c, d)
      PROVE  RacesTypeInv'
  BY <1>5, ReadsKeepRacesTypeInv
<1> QED BY <1>1, <1>2, <1>3, <1>4, <1>5 DEF Next

\* TypeOK of the split handlers, for any number of request threads, workers,
\* documents and jobs.
THEOREM RacesTypes == Spec => []TypeOK
<1>1. RacesTypeInv => TypeOK
  BY DEF RacesTypeInv, WorkerTypeInv, WorkerTypeOK, TypeOK
<1> QED BY <1>1, InitRacesTypeInv, NextRacesTypeInv, PTL DEF Spec

-----------------------------------------------------------------------------

(***************************************************************************)
(* RowsStayReadable is not inductive.  It holds because what a handler or   *)
(* the worker computes from an old row reaches the columns "failure" and    *)
(* "artifact" only while they are still empty, or while nobody has written  *)
(* them since: one worker alone writes them, and never a second time before *)
(* it has reclaimed or finished what it read.                              *)
(***************************************************************************)

Clean(r)   == r.failure = "none" /\ r.artifact = NoArtifact
Unended(r) == r.status \notin {"completed", "failed"}

ReadableRow(r) ==
    /\ r.status = "completed" => r.artifact # NoArtifact
    /\ r.status = "failed" => r.failure # "none"
    /\ r.failure # "none" => r.artifact = NoArtifact
    /\ r.status \in {"absent", "queued", "processing"} => Clean(r)

\* A row that the worker is about to reclaim has not been ended meanwhile, and
\* its failure and audio are those the worker saw, or none.
StillStale(seen, stored) ==
    IsStale(seen) =>
        /\ ReadableRow(seen)
        /\ Unended(stored)
        /\ \/ Clean(stored)
           \/ stored.failure = seen.failure /\ stored.artifact = seen.artifact

\* What one worker holds: nothing unless it is the first, and then a row that
\* nobody has ended.
SoleWriter(w) ==
    /\ w # FirstWorker => worker[w] = Resting("stopped")
    /\ worker[w].job # 0 => Clean(RowOf(w)) /\ Unended(RowOf(w))
    /\ Clean(worker[w].loaded) /\ Unended(worker[w].loaded)
    /\ worker[w].pc = "claim" /\ worker[w].job # 0 =>
         worker[w].loaded.status = "queued"
    /\ worker[w].pc \in {"reclaim", "stopped"} => worker[w].job = 0
    /\ worker[w].pc # "reclaim" => view[w] = NoRows
    /\ view[w] # NoRows => \E j \in JobIds : IsStale(view[w][j])
    /\ \A j \in JobIds : StillStale(view[w][j], jobs[j])

ReadableInv ==
    /\ RacesTypeInv
    /\ loop.current = FirstWorker
    /\ \A j \in JobIds : ReadableRow(jobs[j])
    /\ \A w \in Workers : SoleWriter(w)
    /\ \A c \in Clients : request[c].op = "insert" => Clean(request[c].row)

\* Rows that nobody has worked on are readable.
LEMMA FreshRows ==
    /\ Clean(NoRow) /\ Unended(NoRow) /\ ReadableRow(NoRow)
    /\ \A u, d, s : Clean(QueuedRow(u, d, s)) /\ QueuedRow(u, d, s).status = "queued"
    /\ \A r : r.status = "queued" /\ Clean(r) => ReadableRow(r) /\ Unended(r)
BY DEF Clean, Unended, ReadableRow, NoRow, QueuedRow

\* A worker that holds nothing and has seen nothing is harmless.
LEMMA RestingIsHarmless ==
    ASSUME NEW w \in Workers, NEW pc \in {"reclaim", "stopped"},
           worker[w] = Resting(pc), view[w] = NoRows,
           w # FirstWorker => pc = "stopped"
    PROVE  SoleWriter(w)
<1>1. \A j \in JobIds : ~IsStale(view[w][j])
  BY DEF NoRows, NoRow, IsStale, StaleReclaimable
<1>2. /\ worker[w].job = 0
      /\ worker[w].loaded = NoRow
      /\ worker[w].pc = pc
  BY DEF Resting
<1> QED BY <1>1, <1>2, FreshRows DEF SoleWriter, StillStale

\* The initial state satisfies ReadableInv.
LEMMA InitReadableInv == Init => ReadableInv
<1> SUFFICES ASSUME Init PROVE ReadableInv OBVIOUS
<1>1. RacesTypeInv /\ loop.current = FirstWorker
  BY InitRacesTypeInv DEF Init, InitWorker
<1>2. \A j \in JobIds : ReadableRow(jobs[j])
  BY FreshRows DEF Init, InitWorker
<1>3. ASSUME NEW w \in Workers PROVE SoleWriter(w)
  <2>1. /\ worker[w] = Resting(IF w = FirstWorker THEN "reclaim" ELSE "stopped")
        /\ view[w] = NoRows
    BY DEF Init, InitWorker
  <2> QED BY <2>1, RestingIsHarmless
<1>4. \A c \in Clients : request[c].op # "insert"
  BY DEF Init, Idle
<1> QED BY <1>1, <1>2, <1>3, <1>4 DEF ReadableInv

\* What others may make of a row: it is not ended, and its failure and audio
\* are kept or gone.
MayBecome(old, new) ==
    \/ new = old
    \/ /\ ReadableRow(new)
       /\ Unended(new)
       /\ \/ Clean(new)
          \/ new.failure = old.failure /\ new.artifact = old.artifact

\* Steps of others leave the worker its rows.
LEMMA OthersLeaveReadable ==
    ASSUME ReadableInv, RacesTypeInv', UNCHANGED <<worker, loop, view>>,
           \A j \in JobIds : MayBecome(jobs[j], jobs'[j]),
           \A c \in Clients : (request[c].op = "insert" => Clean(request[c].row))'
    PROVE  ReadableInv'
<1>1. \A j \in JobIds : ReadableRow(jobs[j])'
  BY DEF ReadableInv, MayBecome, ReadableRow, Clean
<1>2. ASSUME NEW w \in Workers PROVE SoleWriter(w)'
  <2>1. SoleWriter(w) /\ worker[w] \in WorkerState
    BY DEF ReadableInv, RacesTypeInv, WorkerTypeInv, WorkerTypeOK
  <2>2. (worker[w].job # 0 => Clean(RowOf(w)) /\ Unended(RowOf(w)))'
    BY <2>1 DEF SoleWriter, RowOf, WorkerState, MayBecome, Clean
  <2>3. \A j \in JobIds : StillStale(view[w][j], jobs[j])'
    BY <2>1 DEF SoleWriter, StillStale, MayBecome, Clean
  <2> QED BY <2>1, <2>2, <2>3 DEF SoleWriter, Clean, Unended
<1> QED BY <1>1, <1>2 DEF ReadableInv

\* The requests' halves, time and new documents keep ReadableInv.
LEMMA RequestsKeepReadable ==
    ASSUME ReadableInv, RacesTypeInv', NEW c \in Clients,
           \/ \E u \in Users, d \in DocIds, split \in Splits :
                ReadForEnqueue(c, u, d, split)
           \/ \E j \in JobIds : ReadForRetry(c, j)
           \/ \E j \in JobIds : ReadForCancel(c, j)
           \/ \E d \in DocIds : ReadForDelete(c, d)
           \/ ClientStep(c)
    PROVE  ReadableInv'
<1>0. /\ jobs \in [JobIds -> JobRow]
      /\ request \in [Clients -> Request]
      /\ request[c] \in Request
      /\ GoodRequest(request[c])
  BY DEF ReadableInv, RacesTypeInv, WorkerTypeInv, WorkerTypeOK
<1>1. ASSUME NEW r, r.op = "insert" => Clean(r.row),
             request' = [request EXCEPT ![c] = r]
      PROVE  \A d \in Clients :
               (request[d].op = "insert" => Clean(request[d].row))'
  BY <1>0, <1>1 DEF ReadableInv, Clean
<1>2. ASSUME NEW r, r.op = "insert" => Clean(r.row), Begin(c, r)
      PROVE  ReadableInv'
  <2>1. /\ UNCHANGED <<jobs, worker, loop, view>>
        /\ request' = [request EXCEPT ![c] = r]
    BY <1>2 DEF Begin
  <2> QED BY <1>1, <1>2, <2>1, OthersLeaveReadable DEF MayBecome
<1>3. ASSUME Respond(c)
      PROVE  \A d \in Clients :
               (request[d].op = "insert" => Clean(request[d].row))'
  BY <1>1, <1>3 DEF Respond, Idle
<1>4. ASSUME NEW u \in Users, NEW d \in DocIds, NEW split \in Splits,
             ReadForEnqueue(c, u, d, split)
      PROVE  ReadableInv'
  <2> DEFINE row == QueuedRow(u, d, split)
             r == [Idle EXCEPT !.op = "insert", !.row = row]
  <2>1. Begin(c, r) /\ Clean(row) BY <1>4, FreshRows DEF ReadForEnqueue
  <2> HIDE DEF row
  <2>2. r.row = row BY DEF Idle
  <2> QED BY <1>2, <2>1, <2>2
<1>5. ASSUME NEW j \in JobIds, ReadForRetry(c, j) PROVE ReadableInv'
  <2> DEFINE row == RetriedRow(jobs[j])
             r == [Idle EXCEPT !.op = "insert", !.row = row]
  <2>1. Begin(c, r) /\ Clean(row)
    BY <1>5, FreshRows DEF ReadForRetry, RetriedRow
  <2> HIDE DEF row
  <2>2. r.row = row BY DEF Idle
  <2> QED BY <1>2, <2>1, <2>2
<1>6. ASSUME NEW j \in JobIds, ReadForCancel(c, j) PROVE ReadableInv'
  BY <1>2, <1>6 DEF ReadForCancel, Idle
<1>7. ASSUME NEW d \in DocIds, ReadForDelete(c, d) PROVE ReadableInv'
  <2> DEFINE rows == JobsOf(d)
             dirs == RecordedDirs(d)
             r == [Idle EXCEPT !.op = "delete", !.id = d, !.rows = rows,
                               !.dirs = dirs]
  <2>1. Begin(c, r) BY <1>7 DEF ReadForDelete
  <2> HIDE DEF rows, dirs
  <2>2. r.op = "delete" BY DEF Idle
  <2> QED BY <1>2, <2>1, <2>2
<1>8. CASE InsertJob(c)
  <2> DEFINE row == request[c].row
  <2>1. PICK j \in JobIds : jobs' = [jobs EXCEPT ![j] = row]
    BY <1>8 DEF InsertJob
  <2>2. Respond(c) /\ UNCHANGED <<worker, loop, view>>
    BY <1>8 DEF InsertJob
  <2>3. row.status = "queued" /\ Clean(row)
    BY <1>0, <1>8 DEF InsertJob, GoodRequest, ReadableInv
  <2> HIDE DEF row
  <2>4. \A k \in JobIds : MayBecome(jobs[k], jobs'[k])
    BY <1>0, <2>1, <2>3, FreshRows DEF MayBecome
  <2> QED BY <1>3, <2>2, <2>4, OthersLeaveReadable
<1>9. CASE WriteCancel(c)
  <2> DEFINE j == request[c].id
             seen == request[c].row
             new == CancelledRow(seen)
  <2>1. j \in JobIds /\ seen \in JobRow /\ seen.status \in Cancellable
    BY <1>0, <1>9 DEF WriteCancel, GoodRequest, Request
  <2>2. /\ new.status \in {"canceled", "cancel_requested"}
        /\ new.status # seen.status
        /\ new.failure = seen.failure
        /\ new.artifact = seen.artifact
    BY <2>1 DEF CancelledRow, Cancellable, JobRow
  <2>3. /\ jobs' = IF Exists(j)
                     THEN [jobs EXCEPT ![j] = OrmFlush(jobs[j], seen, new)]
                     ELSE jobs
        /\ Respond(c)
        /\ UNCHANGED <<worker, loop, view>>
    BY <1>9 DEF WriteCancel
  <2>4. ReadableRow(jobs[j])
    BY <2>1 DEF ReadableInv
  <2>i. jobs[j] \in JobRow
    BY <1>0, <2>1
  <2> HIDE DEF j, seen, new
  <2>5. /\ OrmFlush(jobs[j], seen, new).status = new.status
        /\ OrmFlush(jobs[j], seen, new).failure = jobs[j].failure
        /\ OrmFlush(jobs[j], seen, new).artifact = jobs[j].artifact
    BY <2>2, <2>i DEF OrmFlush, Flushed, JobRow
  <2>6. \A k \in JobIds : MayBecome(jobs[k], jobs'[k])
    BY <1>0, <2>1, <2>2, <2>3, <2>4, <2>5
       DEF MayBecome, ReadableRow, Unended, Clean
  <2> QED BY <1>3, <2>3, <2>6, OthersLeaveReadable
<1>10. CASE WriteDelete(c)
  <2> DEFINE r == [request[c] EXCEPT !.op = "unlink"]
  <2>1. /\ jobs' = [j \in JobIds |-> IF j \in request[c].rows THEN NoRow
                                                              ELSE jobs[j]]
        /\ UNCHANGED <<worker, loop, view>>
    BY <1>10 DEF WriteDelete
  <2>2. request' = [request EXCEPT ![c] = r]
    BY <1>0, <1>10 DEF WriteDelete, Request
  <2>3. r.op = "unlink"
    BY <1>0 DEF Request
  <2> HIDE DEF r
  <2>4. \A k \in JobIds : MayBecome(jobs[k], jobs'[k])
    BY <2>1, FreshRows DEF MayBecome
  <2> QED BY <1>1, <2>1, <2>2, <2>3, <2>4, OthersLeaveReadable
<1>11. CASE RemoveDocumentFiles(c)
  <2>1. UNCHANGED <<jobs, worker, loop, view>> /\ Respond(c)
    BY <1>11 DEF RemoveDocumentFiles
  <2> QED BY <1>3, <2>1, OthersLeaveReadable DEF MayBecome
<1> QED BY <1>4, <1>5, <1>6, <1>7, <1>8, <1>9, <1>10, <1>11 DEF ClientStep

\* New documents and the passing of time keep ReadableInv.
LEMMA OutsideKeepsReadable ==
    ASSUME ReadableInv, RacesTypeInv', UNCHANGED <<request, view>>,
           \/ \E u \in Users : ImportDocument(u)
           \/ \E j \in JobIds : HeartbeatExpires(j)
    PROVE  ReadableInv'
<1>0. jobs \in [JobIds -> JobRow]
  BY DEF ReadableInv, RacesTypeInv, WorkerTypeInv, WorkerTypeOK
<1>1. \A c \in Clients : (request[c].op = "insert" => Clean(request[c].row))'
  BY DEF ReadableInv, Clean
<1>2. ASSUME NEW u \in Users, ImportDocument(u) PROVE ReadableInv'
  BY <1>1, <1>2, OthersLeaveReadable DEF ImportDocument, MayBecome
<1>3. ASSUME NEW j \in JobIds, HeartbeatExpires(j) PROVE ReadableInv'
  <2>1. /\ jobs' = [jobs EXCEPT ![j].fresh = FALSE]
        /\ jobs[j].status \in StaleReclaimable
        /\ UNCHANGED <<worker, loop>>
    BY <1>3 DEF HeartbeatExpires
  <2>2. \A k \in JobIds : MayBecome(jobs[k], jobs'[k])
    BY <1>0, <2>1
       DEF ReadableInv, MayBecome, ReadableRow, Unended, Clean, JobRow,
           StaleReclaimable
  <2> QED BY <1>1, <2>1, <2>2, OthersLeaveReadable
<1> QED BY <1>2, <1>3

\* A worker that is not the first has stopped, and has seen nothing.
LEMMA OnlyTheFirstWorks ==
    ASSUME ReadableInv, NEW w \in Workers, worker[w].pc # "stopped"
    PROVE  w = FirstWorker
BY DEF ReadableInv, SoleWriter, Resting

\* A step of the first worker keeps ReadableInv when it keeps the rows readable
\* and leaves that worker a sole writer.
LEMMA FirstWorkerStep ==
    ASSUME ReadableInv, RacesTypeInv', NEW w \in Workers, w = FirstWorker,
           \A v \in Workers \ {w} : worker'[v] = worker[v] /\ view'[v] = view[v],
           loop'.current = loop.current, UNCHANGED request,
           \A j \in JobIds : ReadableRow(jobs[j])',
           SoleWriter(w)'
    PROVE  ReadableInv'
<1>1. ASSUME NEW v \in Workers, v # w PROVE SoleWriter(v)'
  <2>1. worker[v] = Resting("stopped") /\ view[v] = NoRows
    BY <1>1 DEF ReadableInv, SoleWriter, Resting
  <2>2. worker'[v] = Resting("stopped") /\ view'[v] = NoRows
    BY <1>1, <2>1
  <2>3. /\ worker'[v].job = 0
        /\ worker'[v].loaded = NoRow
        /\ worker'[v].pc = "stopped"
    BY <2>2 DEF Resting
  <2>4. \A j \in JobIds : StillStale(view[v][j], jobs[j])'
    BY <2>2 DEF StillStale, IsStale, StaleReclaimable, NoRows, NoRow
  <2> QED BY <2>2, <2>3, <2>4, FreshRows DEF SoleWriter, Clean, Unended
<1>2. \A v \in Workers : SoleWriter(v)'
  BY <1>1
<1>3. loop'.current = FirstWorker
  BY DEF ReadableInv
<1>4. \A c \in Clients : (request[c].op = "insert" => Clean(request[c].row))'
  BY DEF ReadableInv, Clean
<1> QED BY <1>2, <1>3, <1>4 DEF ReadableInv

\* The end of an iteration leaves nothing in the first worker's hands.
LEMMA EndIsHarmless ==
    ASSUME ReadableInv, NEW w \in Workers, worker[w].pc # "stopped",
           NEW b \in BOOLEAN, EndIteration(w, b), view'[w] = NoRows
    PROVE  /\ SoleWriter(w)'
           /\ \A v \in Workers \ {w} : worker'[v] = worker[v]
           /\ loop'.current = loop.current
<1>1. w = FirstWorker /\ loop.current = FirstWorker
  BY OnlyTheFirstWorks DEF ReadableInv
<1>2. /\ worker \in [Workers -> WorkerState]
      /\ loop \in [current : Workers, ready : BOOLEAN]
  BY DEF ReadableInv, RacesTypeInv, WorkerTypeInv, WorkerTypeOK
<1>3. /\ worker' = [worker EXCEPT ![w] = Resting("reclaim")]
      /\ loop' = [loop EXCEPT !.ready = b]
  BY <1>1 DEF EndIteration
<1>4. worker'[w] = Resting("reclaim")
  BY <1>2, <1>3
<1>5. /\ worker'[w].job = 0
      /\ worker'[w].loaded = NoRow
      /\ worker'[w].pc = "reclaim"
  BY <1>4 DEF Resting
<1>6. \A j \in JobIds : StillStale(view[w][j], jobs[j])'
  BY DEF StillStale, IsStale, StaleReclaimable, NoRows, NoRow
<1>7. SoleWriter(w)'
  BY <1>1, <1>5, <1>6, FreshRows DEF SoleWriter, Clean, Unended
<1> QED BY <1>2, <1>3, <1>7

\* Reclaiming what was seen makes readable rows, ended or not: the failure is
\* written, and the audio taken away, unless there was none.
LEMMA ReclaimedReads ==
    ASSUME NEW seen \in JobRow, NEW stored \in JobRow, IsStale(seen),
           StillStale(seen, stored)
    PROVE  ReadableRow(OrmFlush(stored, seen, ReclaimedRow(seen)))
<1> DEFINE new == ReclaimedRow(seen)
           out == OrmFlush(stored, seen, new)
<1>1. /\ new.status = IF seen.status = "cancel_requested" THEN "canceled"
                                                          ELSE "failed"
      /\ new.failure = IF seen.status = "cancel_requested" THEN "none"
                                                           ELSE "stale"
      /\ new.artifact = NoArtifact
      /\ new.status # seen.status
  BY DEF ReclaimedRow, JobRow, IsStale, StaleReclaimable
<1>2. seen.status = "processing" => Clean(seen)
  BY DEF StillStale, ReadableRow
<1>3. \/ Clean(stored)
      \/ stored.failure = seen.failure /\ stored.artifact = seen.artifact
  BY DEF StillStale
<1> SUFFICES ReadableRow(out) OBVIOUS
<1> HIDE DEF new
<1>4. /\ out.status = new.status
      /\ out.failure = Flushed(stored.failure, seen.failure, new.failure)
      /\ out.artifact = Flushed(stored.artifact, seen.artifact, new.artifact)
  BY <1>1 DEF OrmFlush, Flushed, JobRow
<1> HIDE DEF out
<1>5. out.artifact = NoArtifact
  BY <1>1, <1>3, <1>4 DEF Flushed, Clean
<1>6. CASE seen.status = "cancel_requested"
  <2>1. out.failure = "none"
    BY <1>1, <1>3, <1>4, <1>6 DEF Flushed, Clean
  <2> QED BY <1>1, <1>4, <1>5, <1>6, <2>1 DEF ReadableRow, Clean
<1>7. CASE seen.status = "processing"
  <2>1. out.failure = "stale"
    BY <1>1, <1>2, <1>4, <1>7 DEF Flushed, Clean
  <2> QED BY <1>1, <1>4, <1>5, <1>7, <2>1 DEF ReadableRow
<1> QED BY <1>6, <1>7 DEF IsStale, StaleReclaimable

\* The last transaction of an export makes a readable row of one that nobody has
\* ended since it was loaded.
LEMMA FinishedReads ==
    ASSUME NEW loaded \in JobRow, NEW stored \in JobRow, NEW o \in Terminal,
           Clean(loaded), Unended(loaded), loaded.doc # 0,
           Clean(stored), Unended(stored)
    PROVE  ReadableRow(OrmFlush(stored, loaded, OutcomeRow(loaded, o)))
<1> DEFINE new == OutcomeRow(loaded, o)
           out == OrmFlush(stored, loaded, new)
<1> SUFFICES ReadableRow(out) OBVIOUS
<1>1. /\ new.status = o
      /\ new.failure = IF o = "failed" THEN "error" ELSE "none"
      /\ new.artifact = IF o = "completed"
                          THEN [user |-> loaded.user, doc |-> loaded.doc]
                          ELSE NoArtifact
  BY DEF OutcomeRow, JobRow
<1>2. [user |-> loaded.user, doc |-> loaded.doc] # NoArtifact
  BY DEF NoArtifact
<1> HIDE DEF new
<1>3. /\ out.status = Flushed(stored.status, loaded.status, new.status)
      /\ out.failure = Flushed(stored.failure, loaded.failure, new.failure)
      /\ out.artifact = Flushed(stored.artifact, loaded.artifact, new.artifact)
  BY DEF OrmFlush, JobRow
<1> HIDE DEF out
<1>4. CASE o = "completed"
  <2>1. out.status = "completed"
    BY <1>1, <1>3, <1>4 DEF Flushed, Unended
  <2>2. out.failure = "none"
    BY <1>1, <1>3, <1>4 DEF Flushed, Clean
  <2>3. out.artifact # NoArtifact
    BY <1>1, <1>2, <1>3, <1>4 DEF Flushed, Clean
  <2> QED BY <2>1, <2>2, <2>3 DEF ReadableRow
<1>5. CASE o = "failed"
  <2>1. out.status = "failed"
    BY <1>1, <1>3, <1>5 DEF Flushed, Unended
  <2>2. out.failure = "error"
    BY <1>1, <1>3, <1>5 DEF Flushed, Clean
  <2>3. out.artifact = NoArtifact
    BY <1>1, <1>3, <1>5 DEF Flushed, Clean
  <2> QED BY <2>1, <2>2, <2>3 DEF ReadableRow
<1>6. CASE o = "canceled"
  <2>1. out.status \notin {"completed", "failed"}
    BY <1>1, <1>3, <1>6 DEF Flushed, Unended
  <2>2. Clean(out)
    BY <1>1, <1>3, <1>6 DEF Flushed, Clean
  <2> QED BY <2>1, <2>2 DEF ReadableRow, Clean
<1> QED BY <1>4, <1>5, <1>6 DEF Terminal

\* The steps of an export keep ReadableInv: only the last of them writes more
\* than the heartbeat.
LEMMA ExportKeepsReadable ==
    ASSUME ReadableInv, RacesTypeInv', NEW w \in Workers, ExportStep(w),
           UNCHANGED <<request, view>>
    PROVE  ReadableInv'
<1>0. /\ jobs \in [JobIds -> JobRow]
      /\ worker \in [Workers -> WorkerState]
      /\ worker[w] \in WorkerState
      /\ GoodMemory(worker[w])
      /\ worker[w].job \in JobIds
      /\ worker[w].loaded \in JobRow
      /\ worker' \in [Workers -> WorkerState]
  <2>1. worker[w].pc \notin {"stopped", "reclaim", "claim"}
    BY DEF ExportStep, LoadJob, PrepareExport, RaiseIfCancelRequested,
           SynthesizeChunk, UpdateJobProgress, WriteCombinedWav, FinishExport
  <2> QED BY <2>1 DEF ReadableInv, RacesTypeInv, WorkerTypeInv, WorkerTypeOK,
                      WorkerState, GoodMemory
<1>1. /\ worker[w].pc \notin {"stopped", "reclaim", "claim"}
      /\ w = FirstWorker
      /\ view[w] = NoRows
      /\ Clean(RowOf(w)) /\ Unended(RowOf(w))
      /\ Clean(worker[w].loaded) /\ Unended(worker[w].loaded)
  <2>1. worker[w].pc \notin {"stopped", "reclaim", "claim"}
    BY DEF ExportStep, LoadJob, PrepareExport, RaiseIfCancelRequested,
           SynthesizeChunk, UpdateJobProgress, WriteCombinedWav, FinishExport
  <2> QED BY <1>0, <2>1, OnlyTheFirstWorks DEF ReadableInv, SoleWriter, JobIds
<1>2. ASSUME UNCHANGED jobs \/ Heartbeat(w)
      PROVE  /\ \A j \in JobIds : ReadableRow(jobs[j])'
             /\ Clean(jobs'[worker[w].job]) /\ Unended(jobs'[worker[w].job])
  BY <1>0, <1>1, <1>2 DEF Heartbeat, HeartbeatRow, ReadableInv, ReadableRow,
                          Clean, Unended, RowOf, JobRow
<1>3. ASSUME NEW b \in BOOLEAN, EndIteration(w, b),
             \A j \in JobIds : ReadableRow(jobs[j])'
      PROVE  ReadableInv'
  BY <1>1, <1>3, EndIsHarmless, FirstWorkerStep
<1>4. ASSUME UNCHANGED jobs \/ Heartbeat(w), UNCHANGED loop,
             \A v \in Workers \ {w} : worker'[v] = worker[v],
             worker'[w].pc \notin {"stopped", "reclaim", "claim"},
             worker'[w].job = worker[w].job,
             worker'[w].loaded \in {worker[w].loaded, RowOf(w)}
      PROVE  ReadableInv'
  <2>1. \A j \in JobIds : StillStale(view[w][j], jobs[j])'
    BY <1>1 DEF StillStale, IsStale, StaleReclaimable, NoRows, NoRow
  <2>2. SoleWriter(w)'
    BY <1>1, <1>2, <1>4, <2>1 DEF SoleWriter, RowOf, Clean, Unended
  <2> QED BY <1>1, <1>2, <1>4, <2>2, FirstWorkerStep
<1>5. CASE LoadJob(w)
  <2>1. CASE RowOf(w).status = "absent"
    BY <1>2, <1>3, <1>5, <2>1 DEF LoadJob
  <2>2. CASE RowOf(w).status # "absent"
    BY <1>0, <1>4, <1>5, <2>2 DEF LoadJob, WorkerState
  <2> QED BY <2>1, <2>2
<1>6. ASSUME NEW o \in Terminal, Conclude(w, o), UNCHANGED jobs
      PROVE  ReadableInv'
  BY <1>0, <1>4, <1>6 DEF Conclude, WorkerState
<1>7. ASSUME NEW pc \in Stages \ {"stopped", "reclaim", "claim"}, GoTo(w, pc),
             UNCHANGED jobs \/ Heartbeat(w)
      PROVE  ReadableInv'
  BY <1>0, <1>4, <1>7 DEF GoTo, WorkerState
<1>8. CASE PrepareExport(w)
  <2>1. PICK chunks \in 0 .. MaxChunks :
          IF chunks = 0
            THEN Conclude(w, "failed")
            ELSE /\ worker' = [worker EXCEPT ![w].pc = "check",
                                             ![w].todo = chunks]
                 /\ UNCHANGED loop
    BY <1>8 DEF PrepareExport
  <2>2. UNCHANGED jobs
    BY <1>8 DEF PrepareExport
  <2>3. CASE chunks = 0
    BY <1>6, <2>1, <2>2, <2>3 DEF Terminal
  <2>4. CASE chunks # 0
    BY <1>0, <1>4, <2>1, <2>2, <2>4 DEF WorkerState
  <2> QED BY <2>3, <2>4
<1>9. CASE RaiseIfCancelRequested(w)
  BY <1>6, <1>7, <1>9 DEF RaiseIfCancelRequested, Terminal, Stages
<1>10. CASE SynthesizeChunk(w)
  BY <1>6, <1>7, <1>10 DEF SynthesizeChunk, Terminal, Stages
<1>11. CASE UpdateJobProgress(w)
  <2>1. CASE RowOf(w).status = "cancel_requested"
    BY <1>6, <1>11, <2>1 DEF UpdateJobProgress, Terminal
  <2>2. CASE RowOf(w).status # "cancel_requested"
    <3>1. PICK stage \in {"check", "combine"} :
            /\ worker' = [worker EXCEPT ![w].pc = stage,
                                        ![w].todo = worker[w].todo - 1]
            /\ UNCHANGED loop
      BY <1>11, <2>2 DEF UpdateJobProgress, StageAfterChunk
    <3>2. UNCHANGED jobs \/ Heartbeat(w)
      BY <1>11, <2>2 DEF UpdateJobProgress
    <3> QED BY <1>0, <1>4, <3>1, <3>2 DEF WorkerState
  <2> QED BY <2>1, <2>2
<1>12. CASE WriteCombinedWav(w)
  BY <1>6, <1>7, <1>12 DEF WriteCombinedWav, Terminal, Stages
<1>13. CASE FinishExport(w)
  <2>1. PICK b \in BOOLEAN : EndIteration(w, b)
    BY <1>13 DEF FinishExport
  <2>2. CASE RowOf(w).status = "absent"
    BY <1>2, <1>3, <1>13, <2>1, <2>2 DEF FinishExport
  <2>3. CASE RowOf(w).status # "absent"
    <3>1. PICK o \in Terminal : FinalRow(w) = OutcomeRow(worker[w].loaded, o)
      BY <1>0 DEF FinalRow, WorkerState, Terminal
    <3>2. RowOf(w) \in JobRow /\ worker[w].loaded.doc # 0
      BY <1>0, <1>13 DEF FinishExport, RowOf, GoodMemory, DocIds
    <3> DEFINE out == OrmFlush(RowOf(w), worker[w].loaded, FinalRow(w))
    <3>3. ReadableRow(out)
      BY <1>0, <1>1, <3>1, <3>2, FinishedReads
    <3>4. jobs' = [jobs EXCEPT ![worker[w].job] = out]
      BY <1>13, <2>3 DEF FinishExport, RowOf
    <3> HIDE DEF out
    <3>5. \A j \in JobIds : ReadableRow(jobs'[j])
      BY <1>0, <3>3, <3>4 DEF ReadableInv
    <3> QED BY <1>3, <2>1, <3>5
  <2> QED BY <2>2, <2>3
<1> QED BY <1>5, <1>8, <1>9, <1>10, <1>11, <1>12, <1>13 DEF ExportStep

\* The worker's steps keep ReadableInv.
LEMMA WorkerKeepsReadable ==
    ASSUME ReadableInv, RacesTypeInv', NEW w \in Workers,
           \/ RaceWorkerStep(w)
           \/ WorkerDies(w) /\ Unseen(w) /\ UNCHANGED request
    PROVE  ReadableInv'
<1>0. /\ jobs \in [JobIds -> JobRow]
      /\ worker \in [Workers -> WorkerState]
      /\ worker[w] \in WorkerState
      /\ GoodMemory(worker[w])
      /\ view \in [Workers -> [JobIds -> JobRow]]
      /\ worker[w].job \in JobIds \cup {0}
      /\ worker[w].loaded \in JobRow
  BY DEF ReadableInv, RacesTypeInv, WorkerTypeInv, WorkerTypeOK, WorkerState
<1>1. SoleWriter(w) /\ \A j \in JobIds : ReadableRow(jobs[j])
  BY DEF ReadableInv
<1>2. 0 \notin JobIds
  BY DEF JobIds
<1>3. ASSUME worker[w].pc # "stopped", NEW b \in BOOLEAN, EndIteration(w, b),
             view'[w] = NoRows, UNCHANGED request,
             \A v \in Workers \ {w} : view'[v] = view[v],
             \A j \in JobIds : ReadableRow(jobs[j])'
      PROVE  ReadableInv'
  BY <1>3, EndIsHarmless, OnlyTheFirstWorks, FirstWorkerStep
<1>4. ASSUME worker[w].pc # "stopped", UNCHANGED <<loop, request>>,
             NEW m \in WorkerState, worker' = [worker EXCEPT ![w] = m],
             m.pc \notin {"stopped", "reclaim"},
             m.job # 0 => Clean(jobs'[m.job]) /\ Unended(jobs'[m.job]),
             Clean(m.loaded), Unended(m.loaded),
             m.pc = "claim" /\ m.job # 0 => m.loaded.status = "queued",
             view'[w] = NoRows,
             \A v \in Workers \ {w} : view'[v] = view[v],
             \A j \in JobIds : ReadableRow(jobs[j])'
      PROVE  ReadableInv'
  <2>1. worker'[w] = m
    BY <1>0, <1>4
  <2>2. \A v \in Workers \ {w} : worker'[v] = worker[v]
    BY <1>0, <1>4
  <2>3. \A j \in JobIds : StillStale(view[w][j], jobs[j])'
    BY <1>4 DEF StillStale, IsStale, StaleReclaimable, NoRows, NoRow
  <2>4. w = FirstWorker
    BY <1>4, OnlyTheFirstWorks
  <2>5. SoleWriter(w)'
    BY <1>4, <2>1, <2>3, <2>4 DEF SoleWriter, RowOf, Clean, Unended
  <2>6. loop'.current = loop.current
    BY <1>4
  <2> QED BY <1>4, <2>2, <2>4, <2>5, <2>6, FirstWorkerStep
<1>5. ASSUME UNCHANGED jobs PROVE \A j \in JobIds : ReadableRow(jobs[j])'
  BY <1>1, <1>5 DEF ReadableRow, Clean
<1>v. ASSUME Unseen(w)
      PROVE view'[w] = NoRows /\ \A v \in Workers \ {w} : view'[v] = view[v]
  BY <1>0, <1>v DEF Unseen
<1>6. CASE ReadStaleJobs(w)
  <2>1. /\ worker[w].pc = "reclaim"
        /\ view' = [view EXCEPT ![w] = jobs]
        /\ \E j \in JobIds : IsStale(jobs[j])
        /\ UNCHANGED <<jobs, worker, loop, request>>
    BY <1>6 DEF ReadStaleJobs
  <2>2. view'[w] = jobs /\ \A v \in Workers \ {w} : view'[v] = view[v]
    BY <1>0, <2>1
  <2>3. \A j \in JobIds : StillStale(view[w][j], jobs[j])'
    BY <1>1, <2>1, <2>2 DEF StillStale, IsStale, StaleReclaimable, Unended
  <2>4. \E j \in JobIds : IsStale(view[w][j])'
    BY <2>1, <2>2 DEF IsStale
  <2>5. SoleWriter(w)'
    BY <1>1, <2>1, <2>3, <2>4 DEF SoleWriter, RowOf, Clean, Unended
  <2>6. w = FirstWorker
    BY <2>1, OnlyTheFirstWorks
  <2> QED BY <1>5, <2>1, <2>2, <2>5, <2>6, FirstWorkerStep
<1>7. CASE WriteStaleJobs(w)
  <2>1. UNCHANGED request /\ Unseen(w) /\ worker[w].pc = "reclaim"
    BY <1>7 DEF WriteStaleJobs
  <2>2. CASE \A j \in StaleInView(w) : Exists(j)
    <3> DEFINE m == [worker[w] EXCEPT !.pc = "claim"]
    <3>1. /\ jobs' = [j \in JobIds |->
                        IF j \in StaleInView(w)
                          THEN OrmFlush(jobs[j], view[w][j],
                                        ReclaimedRow(view[w][j]))
                          ELSE jobs[j]]
          /\ worker' = [worker EXCEPT ![w] = m]
          /\ UNCHANGED loop
      BY <1>0, <1>7, <2>2 DEF WriteStaleJobs, GoTo, WorkerState
    <3>2. ASSUME NEW j \in JobIds PROVE ReadableRow(jobs'[j])
      <4>1. CASE j \in StaleInView(w)
        <5>1. /\ IsStale(view[w][j])
              /\ view[w][j] \in JobRow
              /\ jobs[j] \in JobRow
              /\ StillStale(view[w][j], jobs[j])
          BY <1>0, <1>1, <4>1 DEF StaleInView, SoleWriter
        <5> QED BY <3>1, <4>1, <5>1, ReclaimedReads
      <4>2. CASE j \notin StaleInView(w)
        BY <1>1, <3>1, <4>2
      <4> QED BY <4>1, <4>2
    <3>3. /\ m \in WorkerState
          /\ m.pc = "claim"
          /\ m.job = 0
          /\ m.loaded = worker[w].loaded
      BY <1>0, <1>1, <2>1 DEF WorkerState, Stages, SoleWriter
    <3> HIDE DEF m
    <3>4. Clean(m.loaded) /\ Unended(m.loaded)
      BY <1>1, <3>3 DEF SoleWriter
    <3> QED BY <1>4, <1>v, <2>1, <3>1, <3>2, <3>3, <3>4
  <2>3. CASE ~(\A j \in StaleInView(w) : Exists(j))
    <3>1. EndIteration(w, FALSE) /\ UNCHANGED jobs
      BY <1>7, <2>3 DEF WriteStaleJobs
    <3> QED BY <1>3, <1>5, <1>v, <2>1, <3>1
  <2> QED BY <2>2, <2>3
<1>8. CASE FindNothingStale(w)
  <2> DEFINE m == [worker[w] EXCEPT !.pc = "claim"]
  <2>1. /\ worker[w].pc = "reclaim"
        /\ \A j \in JobIds : ~IsStale(view[w][j])
        /\ UNCHANGED <<jobs, loop, request, view>>
    BY <1>8 DEF FindNothingStale, GoTo, StaleInView
  <2>2. worker' = [worker EXCEPT ![w] = m]
    BY <1>0, <1>8 DEF FindNothingStale, GoTo, WorkerState
  <2>3. /\ m \in WorkerState
        /\ m.pc = "claim"
        /\ m.job = 0
        /\ m.loaded = worker[w].loaded
    BY <1>0, <1>1, <2>1 DEF WorkerState, Stages, SoleWriter
  <2> HIDE DEF m
  <2>4. Clean(m.loaded) /\ Unended(m.loaded)
    BY <1>1, <2>3 DEF SoleWriter
  <2>5. view[w] = NoRows
    BY <1>1, <2>1 DEF SoleWriter
  <2> QED BY <1>4, <1>5, <2>1, <2>2, <2>3, <2>4, <2>5
<1>9. CASE ReadNextQueuedJob(w)
  <2>1. /\ worker[w].pc = "claim"
        /\ UNCHANGED <<jobs, loop, request, view>>
    BY <1>9 DEF ReadNextQueuedJob
  <2>2. PICK j \in JobIds :
          /\ jobs[j].status = "queued"
          /\ worker' = [worker EXCEPT ![w].job = j, ![w].loaded = jobs[j]]
    BY <1>9 DEF ReadNextQueuedJob, IsNextQueued
  <2> DEFINE m == [worker[w] EXCEPT !.job = j, !.loaded = jobs[j]]
  <2>3. worker' = [worker EXCEPT ![w] = m]
    BY <1>0, <2>2 DEF WorkerState
  <2>4. /\ m \in WorkerState
        /\ m.pc = "claim"
        /\ m.job = j
        /\ m.loaded = jobs[j]
    BY <1>0, <2>1 DEF WorkerState, Stages
  <2> HIDE DEF m
  <2>5. Clean(jobs[j]) /\ Unended(jobs[j])
    BY <1>1, <2>2 DEF ReadableRow, Unended
  <2>6. view[w] = NoRows
    BY <1>1, <2>1 DEF SoleWriter
  <2> QED BY <1>4, <1>5, <2>1, <2>2, <2>3, <2>4, <2>5, <2>6
<1>10. CASE WriteClaim(w)
  <2> DEFINE j == worker[w].job
             seen == worker[w].loaded
             new == ClaimedRow(seen)
             m == [worker[w] EXCEPT !.pc = "load"]
  <2>1. /\ worker[w].pc = "claim"
        /\ j # 0
        /\ UNCHANGED <<request, view>>
    BY <1>10 DEF WriteClaim
  <2>2. /\ j \in JobIds
        /\ seen.status = "queued"
        /\ Clean(seen) /\ Unended(seen)
        /\ Clean(jobs[j])
        /\ view[w] = NoRows
    BY <1>0, <1>1, <2>1 DEF SoleWriter, RowOf
  <2>3. CASE Exists(j)
    <3>1. /\ jobs' = [jobs EXCEPT ![j] = OrmFlush(jobs[j], seen, new)]
          /\ UNCHANGED loop
      BY <1>10, <2>3 DEF WriteClaim, GoTo
    <3>2. worker' = [worker EXCEPT ![w] = m]
      BY <1>0, <1>10, <2>3 DEF WriteClaim, GoTo, WorkerState
    <3>3. /\ m \in WorkerState
          /\ m.pc = "load"
          /\ m.job = j
          /\ m.loaded = seen
      BY <1>0 DEF WorkerState, Stages
    <3>4. /\ new.status = "processing"
          /\ new.failure = seen.failure
          /\ new.artifact = seen.artifact
      BY <1>0 DEF ClaimedRow, JobRow
    <3> DEFINE out == OrmFlush(jobs[j], seen, new)
    <3> HIDE DEF m, new
    <3>5. /\ out.status = "processing"
          /\ out.failure = jobs[j].failure
          /\ out.artifact = jobs[j].artifact
      BY <1>0, <2>2, <3>4 DEF OrmFlush, Flushed, JobRow
    <3> HIDE DEF out
    <3>6. ReadableRow(out) /\ Clean(out) /\ Unended(out)
      BY <2>2, <3>5 DEF ReadableRow, Clean, Unended
    <3>7. /\ \A k \in JobIds : ReadableRow(jobs'[k])
          /\ jobs'[j] = out
      BY <1>0, <1>1, <2>2, <3>1, <3>6 DEF out
    <3> QED BY <1>4, <2>1, <2>2, <3>1, <3>2, <3>3, <3>6, <3>7
  <2>4. CASE ~Exists(j)
    <3>1. EndIteration(w, FALSE) /\ UNCHANGED jobs
      BY <1>10, <2>4 DEF WriteClaim
    <3> QED BY <1>3, <1>5, <2>1, <2>2, <3>1
  <2> QED BY <2>3, <2>4
<1>11. CASE FindNoQueuedJob(w)
  <2>1. /\ EndIteration(w, TRUE)
        /\ worker[w].pc = "claim"
        /\ UNCHANGED <<jobs, request, view>>
    BY <1>11 DEF FindNoQueuedJob, FindNothingToClaim
  <2>2. view[w] = NoRows
    BY <1>1, <2>1 DEF SoleWriter
  <2> QED BY <1>3, <1>5, <2>1, <2>2
<1>12. CASE ExportStep(w) /\ UNCHANGED <<request, view>>
  BY <1>12, ExportKeepsReadable
<1>13. CASE WorkerDies(w) /\ Unseen(w) /\ UNCHANGED request
  <2>1. /\ EndIteration(w, FALSE)
        /\ worker[w].pc # "stopped"
        /\ UNCHANGED jobs
    BY <1>13 DEF WorkerDies
  <2> QED BY <1>3, <1>5, <1>v, <1>13, <2>1
<1> QED BY <1>6, <1>7, <1>8, <1>9, <1>10, <1>11, <1>12, <1>13
        DEF RaceWorkerStep

\* ReadableInv is inductive.
LEMMA NextReadableInv == ReadableInv /\ [Next]_racesVars => ReadableInv'
<1> SUFFICES ASSUME ReadableInv, [Next]_racesVars PROVE ReadableInv'
  OBVIOUS
<1>0. RacesTypeInv'
  BY NextRacesTypeInv DEF ReadableInv
<1>1. CASE UNCHANGED racesVars
  <2>1. UNCHANGED <<worker, loop, view, jobs, request>>
    BY <1>1 DEF racesVars
  <2>2. \A c \in Clients : (request[c].op = "insert" => Clean(request[c].row))'
    BY <2>1 DEF ReadableInv, Clean
  <2> QED BY <1>0, <2>1, <2>2, OthersLeaveReadable DEF MayBecome
<1>2. ASSUME NEW w \in Workers,
             \/ RaceWorkerStep(w)
             \/ WorkerDies(w) /\ Unseen(w) /\ UNCHANGED request
      PROVE  ReadableInv'
  BY <1>0, <1>2, WorkerKeepsReadable
<1>3. CASE \/ \E u \in Users : ImportDocument(u) /\ UNCHANGED <<request, view>>
           \/ \E j \in JobIds : HeartbeatExpires(j)
                                 /\ UNCHANGED <<request, view>>
  BY <1>0, <1>3, OutsideKeepsReadable
<1>4. ASSUME NEW c \in Clients,
             \/ \E u \in Users, d \in DocIds, split \in Splits :
                  ReadForEnqueue(c, u, d, split)
             \/ \E j \in JobIds : ReadForRetry(c, j)
             \/ \E j \in JobIds : ReadForCancel(c, j)
             \/ \E d \in DocIds : ReadForDelete(c, d)
             \/ ClientStep(c)
      PROVE  ReadableInv'
  BY <1>0, <1>4, RequestsKeepReadable
<1> QED BY <1>1, <1>2, <1>3, <1>4 DEF Next

\* RowsStayReadable for every number of request threads, documents and jobs and
\* any number of deaths of the worker.
THEOREM RacingRowsStayReadable == Spec => []RowsStayReadable
<1>1. ReadableInv => RowsStayReadable
  BY DEF ReadableInv, ReadableRow, RowsStayReadable
<1> QED BY <1>1, InitReadableInv, NextReadableInv, PTL DEF Spec
=============================================================================
