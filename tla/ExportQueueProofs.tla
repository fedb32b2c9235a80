-------------------------- MODULE ExportQueueProofs --------------------------
(***************************************************************************)
(* Theorems about ExportQueue for every set of users and workers and every  *)
(* value of the bounds.                                                    *)
(***************************************************************************)
EXTENDS ExportQueue, ExportWorkerProofs

(***************************************************************************)
(* TypeOK is not inductive: it needs WorkerTypeInv of ExportWorkerProofs,   *)
(* which every step of an export keeps.  That each row's document is there, *)
(* ended rows included, is inductive with it, for any number of workers.   *)
(***************************************************************************)

RowHasItsDocument(r) ==
    r.status # "absent" =>
        r.user \in Users /\ r.doc \in DocIds /\ docs[r.doc] = r.user

TypeInv ==
    /\ TypeOK
    /\ \A w \in Workers : GoodMemory(worker[w])
    /\ \A j \in JobIds : RowHasItsDocument(jobs[j])

\* TypeInv says of the worker all that its own steps need.
LEMMA TypeInvOfWorker == TypeInv => WorkerTypeInv
BY DEF TypeInv, TypeOK, WorkerTypeInv, WorkerTypeOK, RowHasItsDocument,
       NamesItsDocument

\* The initial tables, processes and files satisfy TypeInv.
LEMMA InitTypeInv == InitWorker => TypeInv
<1> SUFFICES ASSUME InitWorker PROVE TypeInv OBVIOUS
<1>1. TypeOK
  BY NoRowType, RestingType, ExportWorkerAssumption DEF InitWorker, TypeOK
<1>2. \A w \in Workers : GoodMemory(worker[w])
  BY RestingType DEF InitWorker
<1>3. \A j \in JobIds : RowHasItsDocument(jobs[j])
  BY DEF InitWorker, RowHasItsDocument, NoRow
<1> QED BY <1>1, <1>2, <1>3 DEF TypeInv

\* A step that leaves the documents alone and changes rows of existing jobs
\* only, without changing whose they are, keeps every row's document.
LEMMA RowsStep ==
    ASSUME TypeInv, UNCHANGED docs, RowsKeepTheirJob
    PROVE  \A j \in JobIds : RowHasItsDocument(jobs[j])'
BY DEF TypeInv, RowHasItsDocument, RowsKeepTheirJob, SameJob

\* The requests keep TypeInv: ids are new, a retried job has the document of
\* the row it copies, a deleted document takes all of its rows with it.
LEMMA RequestsKeepTypeInv ==
    ASSUME TypeInv,
           \/ \E u \in Users : ImportDocument(u)
           \/ \E u \in Users, d \in DocIds, split \in BOOLEAN :
                EnqueueExportJob(u, d, split)
           \/ \E j \in JobIds : CancelJob(j)
           \/ \E j \in JobIds : RetryJob(j)
           \/ \E d \in DocIds : DeleteDocument(d)
           \/ \E j \in JobIds : HeartbeatExpires(j)
    PROVE  TypeInv'
<1> USE ExportJobsAssumption
<1>1. ASSUME NEW u \in Users, ImportDocument(u) PROVE TypeInv'
  <2>1. TypeOK'
    BY <1>1 DEF ImportDocument, TypeInv, TypeOK
  <2>2. \A w \in Workers : GoodMemory(worker[w])'
    BY <1>1 DEF ImportDocument, TypeInv, GoodMemory
  <2>3. PICK d \in DocIds : /\ IsNextId(d, {e \in DocIds : docs[e] # NoUser})
                            /\ docs' = [docs EXCEPT ![d] = u]
    BY <1>1 DEF ImportDocument
  <2>4. docs[d] = NoUser
    BY <2>3 DEF IsNextId, DocIds
  <2>5. \A j \in JobIds : RowHasItsDocument(jobs[j])'
    BY <1>1, <2>3, <2>4 DEF ImportDocument, TypeInv, TypeOK, RowHasItsDocument
  <2> QED BY <2>1, <2>2, <2>5 DEF TypeInv
<1>2. ASSUME NEW u \in Users, NEW d \in DocIds, NEW split \in BOOLEAN,
             EnqueueExportJob(u, d, split)
      PROVE  TypeInv'
  <2>1. PICK j \in JobIds : jobs' = [jobs EXCEPT ![j] = QueuedRow(u, d, split)]
    BY <1>2 DEF EnqueueExportJob
  <2>2. QueuedRow(u, d, split) \in JobRow
    BY QueuedRowType
  <2>3. TypeOK'
    BY <1>2, <2>1, <2>2 DEF EnqueueExportJob, TypeInv, TypeOK
  <2>4. \A w \in Workers : GoodMemory(worker[w])'
    BY <1>2 DEF EnqueueExportJob, TypeInv, GoodMemory
  <2>5. \A k \in JobIds : RowHasItsDocument(jobs[k])'
    BY <1>2, <2>1
       DEF EnqueueExportJob, TypeInv, TypeOK, RowHasItsDocument, QueuedRow
  <2> QED BY <2>3, <2>4, <2>5 DEF TypeInv
<1>3. ASSUME NEW j \in JobIds, CancelJob(j) PROVE TypeInv'
  <2>1. SameJob(CancelledRow(jobs[j]), jobs[j])
    BY RowOperations DEF TypeInv, TypeOK
  <2>2. TypeOK'
    BY <1>3, <2>1 DEF CancelJob, TypeInv, TypeOK, SameJob
  <2>3. \A w \in Workers : GoodMemory(worker[w])'
    BY <1>3 DEF CancelJob, TypeInv, GoodMemory
  <2>4. \A k \in JobIds : RowHasItsDocument(jobs[k])'
    BY <1>3, <2>1 DEF CancelJob, TypeInv, TypeOK, RowHasItsDocument, SameJob,
                      Cancellable
  <2> QED BY <2>2, <2>3, <2>4 DEF TypeInv
<1>4. ASSUME NEW j \in JobIds, RetryJob(j) PROVE TypeInv'
  <2>1. PICK k \in JobIds : jobs' = [jobs EXCEPT ![k] = RetriedRow(jobs[j])]
    BY <1>4 DEF RetryJob
  <2>2. jobs[j] \in JobRow /\ RowHasItsDocument(jobs[j])
    BY DEF TypeInv, TypeOK
  <2>3. RetriedRow(jobs[j]) \in JobRow
    BY <2>2, QueuedRowType DEF RetriedRow, JobRow
  <2>4. /\ RetriedRow(jobs[j]).user = jobs[j].user
        /\ RetriedRow(jobs[j]).doc = jobs[j].doc
    BY DEF RetriedRow, QueuedRow
  <2>5. TypeOK'
    BY <1>4, <2>1, <2>3 DEF RetryJob, TypeInv, TypeOK
  <2>6. \A w \in Workers : GoodMemory(worker[w])'
    BY <1>4 DEF RetryJob, TypeInv, GoodMemory
  <2>7. jobs[j].status # "absent"
    BY <1>4 DEF RetryJob, Retryable
  <2>8. \A i \in JobIds : RowHasItsDocument(jobs[i])'
    BY <1>4, <2>1, <2>2, <2>4, <2>7
       DEF RetryJob, TypeInv, TypeOK, RowHasItsDocument
  <2> QED BY <2>5, <2>6, <2>8 DEF TypeInv
<1>5. ASSUME NEW d \in DocIds, DeleteDocument(d) PROVE TypeInv'
  <2>1. TypeOK'
    BY <1>5, NoRowType DEF DeleteDocument, TypeInv, TypeOK
  <2>2. \A w \in Workers : GoodMemory(worker[w])'
    BY <1>5 DEF DeleteDocument, TypeInv, GoodMemory
  <2>3. \A j \in JobIds : RowHasItsDocument(jobs[j])'
    BY <1>5 DEF DeleteDocument, JobsOf, TypeInv, TypeOK, RowHasItsDocument,
                NoRow
  <2> QED BY <2>1, <2>2, <2>3 DEF TypeInv
<1>6. ASSUME NEW j \in JobIds, HeartbeatExpires(j) PROVE TypeInv'
  <2>1. SameJob([jobs[j] EXCEPT !.fresh = FALSE], jobs[j])
    BY RowOperations DEF TypeInv, TypeOK
  <2>2. jobs' = [jobs EXCEPT ![j] = [jobs[j] EXCEPT !.fresh = FALSE]]
    BY <1>6 DEF HeartbeatExpires
  <2>3. TypeOK'
    BY <1>6, <2>1, <2>2 DEF HeartbeatExpires, TypeInv, TypeOK, SameJob
  <2>4. \A w \in Workers : GoodMemory(worker[w])'
    BY <1>6 DEF HeartbeatExpires, TypeInv, GoodMemory
  <2>5. \A k \in JobIds : RowHasItsDocument(jobs[k])'
    BY <1>6, <2>1, <2>2 DEF HeartbeatExpires, TypeInv, TypeOK,
                            RowHasItsDocument, SameJob, StaleReclaimable
  <2> QED BY <2>3, <2>4, <2>5 DEF TypeInv
<1> QED BY <1>1, <1>2, <1>3, <1>4, <1>5, <1>6

\* The reclaim, the claim and the supervision of the loop keep TypeInv.
LEMMA LoopKeepsTypeInv ==
    ASSUME TypeInv, NEW w \in Workers,
           \/ ReclaimStaleJobs(w)
           \/ ClaimNextQueuedJob(w)
           \/ FindNothingToClaim(w)
           \/ WorkerDies(w)
           \/ RestartWorkerLoop(w)
    PROVE  TypeInv'
<1> USE ExportWorkerAssumption, TypeInvOfWorker
<1>1. CASE ReclaimStaleJobs(w)
  <2>1. \A j \in JobIds : SameJob(ReclaimedRow(jobs[j]), jobs[j])
    BY RowOperations DEF TypeInv, TypeOK
  <2>2. /\ jobs' \in [JobIds -> JobRow]
        /\ RowsKeepTheirJob
    BY <1>1, <2>1 DEF ReclaimStaleJobs, TypeInv, TypeOK, SameJob, IsStale,
                      StaleReclaimable, RowsKeepTheirJob
  <2>3. \A j \in JobIds : RowHasItsDocument(jobs[j])'
    BY <1>1, <2>2, RowsStep DEF ReclaimStaleJobs
  <2> DEFINE m == [worker[w] EXCEPT !.pc = "claim"]
  <2>4. m \in WorkerState /\ GoodMemory(m)
    BY DEF TypeInv, TypeOK, WorkerState, Stages, GoodMemory
  <2>5. /\ worker' \in [Workers -> WorkerState]
        /\ \A v \in Workers : GoodMemory(worker[v])'
    BY <1>1, <2>4, MemoryStep DEF ReclaimStaleJobs, GoTo
  <2> QED BY <1>1, <2>2, <2>3, <2>5
          DEF ReclaimStaleJobs, GoTo, TypeInv, TypeOK
<1>2. CASE ClaimNextQueuedJob(w)
  <2>1. PICK j \in JobIds :
          /\ jobs[j].status = "queued"
          /\ jobs' = [jobs EXCEPT ![j] = ClaimedRow(jobs[j])]
          /\ worker' = [worker EXCEPT ![w].pc = "load", ![w].job = j]
    BY <1>2 DEF ClaimNextQueuedJob, IsNextQueued
  <2>2. SameJob(ClaimedRow(jobs[j]), jobs[j])
    BY RowOperations DEF TypeInv, TypeOK
  <2>3. /\ jobs' \in [JobIds -> JobRow]
        /\ RowsKeepTheirJob
    BY <2>1, <2>2 DEF TypeInv, TypeOK, SameJob, RowsKeepTheirJob
  <2>4. \A k \in JobIds : RowHasItsDocument(jobs[k])'
    BY <1>2, <2>3, RowsStep DEF ClaimNextQueuedJob
  <2> DEFINE m == [worker[w] EXCEPT !.pc = "load", !.job = j]
  <2>5. m \in WorkerState /\ GoodMemory(m)
    BY DEF TypeInv, TypeOK, WorkerState, Stages, GoodMemory
  <2>6. worker' = [worker EXCEPT ![w] = m]
    BY <2>1 DEF TypeInv, TypeOK, WorkerState
  <2>7. /\ worker' \in [Workers -> WorkerState]
        /\ \A v \in Workers : GoodMemory(worker[v])'
    BY <2>5, <2>6, MemoryStep
  <2> QED BY <1>2, <2>3, <2>4, <2>7 DEF ClaimNextQueuedJob, TypeInv, TypeOK
<1>3. CASE FindNothingToClaim(w)
  <2>1. \A j \in JobIds : RowHasItsDocument(jobs[j])'
    BY <1>3 DEF FindNothingToClaim, TypeInv, RowHasItsDocument
  <2> QED BY <1>3, <2>1, EndIterationStep
          DEF FindNothingToClaim, TypeInv, TypeOK
<1>4. CASE WorkerDies(w)
  <2>1. \A j \in JobIds : RowHasItsDocument(jobs[j])'
    BY <1>4 DEF WorkerDies, TypeInv, RowHasItsDocument
  <2>2. mishaps' \in 0 .. MaxMishaps
    BY <1>4 DEF WorkerDies, TypeInv, TypeOK
  <2> QED BY <1>4, <2>1, <2>2, EndIterationStep
          DEF WorkerDies, TypeInv, TypeOK
<1>5. CASE RestartWorkerLoop(w)
  <2>1. \A j \in JobIds : RowHasItsDocument(jobs[j])'
    BY <1>5 DEF RestartWorkerLoop, TypeInv, RowHasItsDocument
  <2>2. mishaps' \in 0 .. MaxMishaps
    BY <1>5 DEF RestartWorkerLoop, TypeInv, TypeOK
  <2>3. loop.current \in Workers
    BY DEF TypeInv, TypeOK
  <2>4. PICK m \in {worker[loop.current], Resting("stopped")} :
          worker' = [worker EXCEPT ![loop.current] = m,
                                   ![w] = Resting("reclaim")]
    BY <1>5 DEF RestartWorkerLoop
  <2>5. m \in WorkerState /\ GoodMemory(m)
    BY <2>3, RestingType DEF TypeInv, TypeOK
  <2>6. /\ worker' \in [Workers -> WorkerState]
        /\ \A v \in Workers : GoodMemory(worker[v])'
    BY <2>3, <2>4, <2>5, RestingType DEF TypeInv, TypeOK, GoodMemory
  <2> QED BY <1>5, <2>1, <2>2, <2>6 DEF RestartWorkerLoop, TypeInv, TypeOK
<1> QED BY <1>1, <1>2, <1>3, <1>4, <1>5

\* The steps of an export keep TypeInv.
LEMMA ExportKeepsTypeInv ==
    ASSUME TypeInv, NEW w \in Workers, ExportStep(w)
    PROVE  TypeInv'
<1>1. WorkerTypeInv' /\ RowsKeepTheirJob /\ UNCHANGED docs
  BY TypeInvOfWorker, ExportKeepsWorkerTypeInv
<1>2. \A j \in JobIds : RowHasItsDocument(jobs[j])'
  BY <1>1, RowsStep
<1> QED BY <1>1, <1>2 DEF TypeInv, TypeOK, WorkerTypeInv, WorkerTypeOK

\* TypeInv is inductive.
LEMMA NextTypeInv == TypeInv /\ [Next]_workerVars => TypeInv'
<1> SUFFICES ASSUME TypeInv, [Next]_workerVars PROVE TypeInv' OBVIOUS
<1>1. CASE UNCHANGED workerVars
  BY <1>1 DEF workerVars, TypeInv, TypeOK, GoodMemory, RowHasItsDocument
<1>2. CASE \E w \in Workers : WorkerStep(w) \/ WorkerDies(w)
                               \/ RestartWorkerLoop(w)
  BY <1>2, LoopKeepsTypeInv, ExportKeepsTypeInv DEF WorkerStep
<1> QED BY <1>1, <1>2, RequestsKeepTypeInv DEF Next

\* TypeOK for any number of users, documents, jobs, workers and mishaps.
THEOREM TypeCorrect == Spec => []TypeOK
<1>1. TypeInv => TypeOK BY DEF TypeInv
<1> QED BY <1>1, InitTypeInv, NextTypeInv, PTL DEF Spec

\* However many workers overwrite each other, a job that may still be exported
\* has its document, and so has every row of the table.
THEOREM DocumentsOutliveTheirExports == Spec => []ActiveExportsHaveTheirDocument
<1>1. TypeInv => ActiveExportsHaveTheirDocument
  BY DEF TypeInv, RowHasItsDocument, ActiveExportsHaveTheirDocument,
         ActiveExport
<1> QED BY <1>1, InitTypeInv, NextTypeInv, PTL DEF Spec


(***************************************************************************)
(* Cancellations.  A process that looks at the row once more, or is about  *)
(* to write that the export failed or was canceled, completes it no more.  *)
(***************************************************************************)
CannotComplete(m, j) ==
    m.job = j => \/ m.pc \in {"load", "prepare", "check", "synth", "progress"}
                 \/ m.pc = "finish" /\ m.outcome # "completed"

Canceling(j) == /\ jobs[j].status = "cancel_requested"
                /\ \A w \in Workers : CannotComplete(worker[w], j)

\* A process that rests has no job.
LEMMA RestingCompletesNothing ==
    ASSUME NEW j \in JobIds, NEW pc
    PROVE  CannotComplete(Resting(pc), j)
BY ExportJobsAssumption DEF CannotComplete, Resting, JobIds

\* A step of one process leaves the others as they are.
LEMMA OneProcessStep ==
    ASSUME TypeInv, NEW j \in JobIds, Canceling(j), NEW w \in Workers, NEW m,
           worker' = [worker EXCEPT ![w] = m], CannotComplete(m, j)
    PROVE  \A v \in Workers : CannotComplete(worker'[v], j)
BY DEF Canceling, TypeInv, TypeOK

\* The end of an iteration leaves its process at rest.
LEMMA EndOfIteration ==
    ASSUME TypeInv, NEW j \in JobIds, Canceling(j), NEW w \in Workers, NEW b, EndIteration(w, b)
    PROVE  \A v \in Workers : CannotComplete(worker'[v], j)
<1>1. PICK pc : worker' = [worker EXCEPT ![w] = Resting(pc)]
  BY DEF EndIteration
<1> QED BY <1>1, RestingCompletesNothing, OneProcessStep

\* What the requests and the passing of time do to a job that is being canceled.
LEMMA RequestsHonourCancel ==
    ASSUME TypeInv, NEW j \in JobIds, Canceling(j),
           \/ \E u \in Users : ImportDocument(u)
           \/ \E u \in Users, d \in DocIds, split \in BOOLEAN : EnqueueExportJob(u, d, split)
           \/ \E k \in JobIds : CancelJob(k)
           \/ \E k \in JobIds : RetryJob(k)
           \/ \E d \in DocIds : DeleteDocument(d)
           \/ \E k \in JobIds : HeartbeatExpires(k)
    PROVE  Canceling(j)'
<1>1. jobs[j] \in JobRow /\ jobs \in [JobIds -> JobRow] /\ jobs[j].status = "cancel_requested"
  BY DEF TypeInv, TypeOK, Canceling
<1>2. worker' = worker
  BY DEF ImportDocument, EnqueueExportJob, CancelJob, RetryJob, DeleteDocument, HeartbeatExpires
<1>3. j \in JobRowIds /\ \A k : IsNextId(k, JobRowIds) => k # j
  BY <1>1 DEF JobRowIds, Exists, IsNextId, JobIds
<1>4. jobs'[j].status = "cancel_requested"
  <2>1. ASSUME NEW u \in Users, ImportDocument(u) PROVE jobs'[j].status = "cancel_requested"
    BY <1>1, <2>1 DEF ImportDocument
  <2>2. ASSUME NEW u \in Users, NEW d \in DocIds, NEW split \in BOOLEAN, EnqueueExportJob(u, d, split)
        PROVE  jobs'[j].status = "cancel_requested"
    BY <1>1, <1>3, <2>2 DEF EnqueueExportJob
  <2>3. ASSUME NEW k \in JobIds, CancelJob(k) PROVE jobs'[j].status = "cancel_requested"
    BY <1>1, <2>3 DEF CancelJob, Cancellable
  <2>4. ASSUME NEW k \in JobIds, RetryJob(k) PROVE jobs'[j].status = "cancel_requested"
    BY <1>1, <1>3, <2>4 DEF RetryJob
  <2>5. ASSUME NEW d \in DocIds, DeleteDocument(d) PROVE jobs'[j].status = "cancel_requested"
    <3>1. j \notin JobsOf(d)
      BY <1>1, <2>5 DEF DeleteDocument, ActiveExport
    <3> QED BY <1>1, <2>5, <3>1 DEF DeleteDocument
  <2>6. ASSUME NEW k \in JobIds, HeartbeatExpires(k) PROVE jobs'[j].status = "cancel_requested"
    BY <1>1, <2>6 DEF HeartbeatExpires, JobRow
  <2> QED BY <2>1, <2>2, <2>3, <2>4, <2>5, <2>6
<1> QED BY <1>2, <1>4 DEF Canceling

\* The end of an export writes that it failed or was canceled, or nothing.
LEMMA FinishHonoursCancel ==
    ASSUME TypeInv, NEW j \in JobIds, Canceling(j), NEW w \in Workers, FinishExport(w)
    PROVE  jobs'[j].status \in Retryable \/ Canceling(j)'
<1>1. /\ jobs[j] \in JobRow /\ jobs \in [JobIds -> JobRow] /\ jobs[j].status = "cancel_requested"
      /\ worker[w] \in WorkerState
  BY DEF TypeInv, TypeOK, Canceling
<1>2. \A v \in Workers : CannotComplete(worker'[v], j)
  BY EndOfIteration DEF FinishExport
<1>3. CASE worker[w].job # j
  <2>1. jobs'[j] = jobs[j]
    BY <1>1, <1>3 DEF FinishExport
  <2> QED BY <1>1, <1>2, <2>1 DEF Canceling
<1>4. CASE worker[w].job = j
  <2>1. worker[w].outcome \in {"failed", "canceled"}
    BY <1>1, <1>4 DEF FinishExport, Canceling, CannotComplete, WorkerState, Terminal
  <2>2. FinalRow(w) = OutcomeRow(worker[w].loaded, worker[w].outcome)
    BY <2>1 DEF FinalRow
  <2>3. FinalRow(w).status = worker[w].outcome /\ worker[w].loaded \in JobRow
    BY <1>1, <2>1, <2>2, OutcomeRowType DEF WorkerState, Terminal
  <2>4. jobs'[j] = OrmFlush(jobs[j], worker[w].loaded, FinalRow(w))
    BY <1>1, <1>4 DEF FinishExport, RowOf
  <2>5. jobs'[j].status = Flushed(jobs[j].status, worker[w].loaded.status, FinalRow(w).status)
    BY <1>1, <2>4 DEF OrmFlush, JobRow
  <2>6. jobs'[j].status \in {"cancel_requested", "failed", "canceled"}
    BY <1>1, <2>1, <2>3, <2>5 DEF Flushed
  <2> QED BY <1>2, <2>6 DEF Canceling, Retryable
<1> QED BY <1>3, <1>4

\* The steps of a process, whoever's job it has.
LEMMA WorkersHonourCancel ==
    ASSUME TypeInv, NEW j \in JobIds, Canceling(j), NEW w \in Workers,
           WorkerStep(w) \/ WorkerDies(w) \/ RestartWorkerLoop(w)
    PROVE  jobs'[j].status \in Retryable \/ Canceling(j)'
<1>1. /\ jobs[j] \in JobRow /\ jobs \in [JobIds -> JobRow] /\ jobs[j].status = "cancel_requested"
      /\ worker \in [Workers -> WorkerState] /\ worker[w] \in WorkerState
      /\ CannotComplete(worker[w], j)
  BY DEF TypeInv, TypeOK, Canceling
<1>2. ASSUME NEW m, worker' = [worker EXCEPT ![w] = m], CannotComplete(m, j),
             jobs'[j].status = "cancel_requested"
      PROVE  Canceling(j)'
  BY <1>2, OneProcessStep DEF Canceling
<1>3. ASSUME NEW pc \in {"load", "prepare", "check", "synth", "progress"}, GoTo(w, pc),
             jobs'[j].status = "cancel_requested"
      PROVE  Canceling(j)'
  BY <1>1, <1>2, <1>3 DEF GoTo, CannotComplete, WorkerState
<1>4. ASSUME NEW outcome \in {"failed", "canceled"}, Conclude(w, outcome), jobs'[j].status = "cancel_requested"
      PROVE  Canceling(j)'
  BY <1>1, <1>2, <1>4 DEF Conclude, CannotComplete, WorkerState
<1>5. ASSUME ReclaimStaleJobs(w) PROVE jobs'[j].status \in Retryable \/ Canceling(j)'
  <2>1. worker[w].job # j
    BY <1>1, <1>5 DEF ReclaimStaleJobs, CannotComplete
  <2>2. \A v \in Workers : CannotComplete(worker'[v], j)
    <3>1. worker' = [worker EXCEPT ![w] = [worker[w] EXCEPT !.pc = "claim"]]
      BY <1>5 DEF ReclaimStaleJobs, GoTo
    <3>2. CannotComplete([worker[w] EXCEPT !.pc = "claim"], j)
      BY <1>1, <2>1 DEF CannotComplete, WorkerState
    <3> QED BY <3>1, <3>2, OneProcessStep
  <2>3. jobs'[j] = ReclaimedRow(jobs[j]) \/ jobs'[j] = jobs[j]
    BY <1>5 DEF ReclaimStaleJobs
  <2>4. ReclaimedRow(jobs[j]).status = "canceled"
    BY <1>1 DEF ReclaimedRow, JobRow
  <2> QED BY <1>1, <2>2, <2>3, <2>4 DEF Canceling, Retryable
<1>6. ASSUME ClaimNextQueuedJob(w) PROVE Canceling(j)'
  <2>1. PICK k \in JobIds : /\ jobs[k].status = "queued" /\ jobs' = [jobs EXCEPT ![k] = ClaimedRow(@)]
                            /\ worker' = [worker EXCEPT ![w] = [[worker[w] EXCEPT !.pc = "load"] EXCEPT !.job = k]]
    BY <1>1, <1>6 DEF ClaimNextQueuedJob, IsNextQueued
  <2>2. k # j /\ jobs'[j] = jobs[j]
    BY <1>1, <2>1
  <2>3. CannotComplete([[worker[w] EXCEPT !.pc = "load"] EXCEPT !.job = k], j)
    BY <1>1, <2>2 DEF CannotComplete, WorkerState
  <2> QED BY <1>1, <1>2, <2>1, <2>2, <2>3
<1>7. ASSUME \E b : EndIteration(w, b), jobs' = jobs PROVE Canceling(j)'
  <2>1. \A v \in Workers : CannotComplete(worker'[v], j)
    BY <1>7, EndOfIteration
  <2> QED BY <1>1, <1>7, <2>1 DEF Canceling
<1>8. ASSUME FindNothingToClaim(w) \/ WorkerDies(w) PROVE Canceling(j)'
  BY <1>7, <1>8 DEF FindNothingToClaim, WorkerDies
<1>9. ASSUME LoadJob(w) PROVE Canceling(j)'
  <2>1. CASE RowOf(w).status = "absent"
    BY <1>7, <1>9, <2>1 DEF LoadJob
  <2>2. CASE RowOf(w).status # "absent"
    <3> DEFINE m == [[worker[w] EXCEPT !.pc = "prepare"] EXCEPT !.loaded = RowOf(w)]
    <3>1. worker' = [worker EXCEPT ![w] = m] /\ jobs' = jobs
      BY <1>1, <1>9, <2>2 DEF LoadJob
    <3>2. CannotComplete(m, j)
      BY <1>1 DEF CannotComplete, WorkerState
    <3> QED BY <1>1, <1>2, <3>1, <3>2
  <2> QED BY <2>1, <2>2
<1>10. ASSUME PrepareExport(w) PROVE Canceling(j)'
  <2>1. CASE Conclude(w, "failed")
    BY <1>1, <1>4, <1>10, <2>1 DEF PrepareExport
  <2>2. CASE ~Conclude(w, "failed")
    <3>1. PICK chunks \in 0 .. MaxChunks :
             worker' = [worker EXCEPT ![w] = [[worker[w] EXCEPT !.pc = "check"] EXCEPT !.todo = chunks]]
      BY <1>1, <1>10, <2>2 DEF PrepareExport
    <3>2. CannotComplete([[worker[w] EXCEPT !.pc = "check"] EXCEPT !.todo = chunks], j)
      BY <1>1 DEF CannotComplete, WorkerState
    <3>3. jobs' = jobs
      BY <1>10 DEF PrepareExport
    <3> QED BY <1>1, <1>2, <3>1, <3>2, <3>3
  <2> QED BY <2>1, <2>2
<1>11. ASSUME RaiseIfCancelRequested(w) PROVE Canceling(j)'
  <2>1. CASE RowOf(w).status \in {"absent", "cancel_requested"}
    BY <1>1, <1>4, <1>11, <2>1 DEF RaiseIfCancelRequested
  <2>2. CASE RowOf(w).status \notin {"absent", "cancel_requested"}
    <3>1. Heartbeat(w) /\ GoTo(w, "synth") /\ worker[w].job # j
      BY <1>1, <1>11, <2>2 DEF RaiseIfCancelRequested, RowOf
    <3>2. jobs'[j] = jobs[j]
      BY <1>1, <3>1 DEF Heartbeat
    <3> QED BY <1>1, <1>3, <3>1, <3>2
  <2> QED BY <2>1, <2>2
<1>12. ASSUME SynthesizeChunk(w) PROVE Canceling(j)'
  BY <1>1, <1>3, <1>4, <1>12 DEF SynthesizeChunk
<1>13. ASSUME UpdateJobProgress(w) PROVE Canceling(j)'
  <2>1. CASE RowOf(w).status = "cancel_requested"
    BY <1>1, <1>4, <1>13, <2>1 DEF UpdateJobProgress
  <2>2. CASE RowOf(w).status # "cancel_requested"
    <3>1. worker[w].job # j
      BY <1>1, <2>2 DEF RowOf
    <3>2. jobs'[j] = jobs[j]
      BY <1>1, <1>13, <2>2, <3>1 DEF UpdateJobProgress, Heartbeat
    <3>3. PICK stage, left : worker' = [worker EXCEPT ![w] = [[worker[w] EXCEPT !.pc = stage] EXCEPT !.todo = left]]
      <4>1. PICK stage : worker' = [worker EXCEPT ![w].pc = stage, ![w].todo = @ - 1]
        BY <1>13, <2>2 DEF UpdateJobProgress
      <4> DEFINE left == worker[w].todo - 1
      <4>2. worker' = [worker EXCEPT ![w] = [[worker[w] EXCEPT !.pc = stage] EXCEPT !.todo = left]]
        BY <1>1, <4>1 DEF WorkerState
      <4> QED BY <4>2
    <3>4. CannotComplete([[worker[w] EXCEPT !.pc = stage] EXCEPT !.todo = left], j)
      BY <1>1, <3>1 DEF CannotComplete, WorkerState
    <3> QED BY <1>1, <1>2, <3>2, <3>3, <3>4
  <2> QED BY <2>1, <2>2
<1>14. ASSUME WriteCombinedWav(w) PROVE Canceling(j)'
  <2>1. worker[w].job # j
    BY <1>1, <1>14 DEF WriteCombinedWav, CannotComplete
  <2>2. PICK m : worker' = [worker EXCEPT ![w] = m] /\ m.job = worker[w].job
    <3>1. ASSUME NEW outcome, Conclude(w, outcome)
          PROVE  \E m : worker' = [worker EXCEPT ![w] = m] /\ m.job = worker[w].job
      <4> DEFINE m == [[worker[w] EXCEPT !.pc = "finish"] EXCEPT !.outcome = outcome]
      <4>1. worker' = [worker EXCEPT ![w] = m] /\ m.job = worker[w].job
        BY <1>1, <3>1 DEF Conclude, WorkerState
      <4> QED BY <4>1
    <3>2. ASSUME GoTo(w, "check")
          PROVE  \E m : worker' = [worker EXCEPT ![w] = m] /\ m.job = worker[w].job
      <4> DEFINE m == [worker[w] EXCEPT !.pc = "check"]
      <4>1. worker' = [worker EXCEPT ![w] = m] /\ m.job = worker[w].job
        BY <1>1, <3>2 DEF GoTo, WorkerState
      <4> QED BY <4>1
    <3> QED BY <1>14, <3>1, <3>2 DEF WriteCombinedWav
  <2>3. CannotComplete(m, j) /\ jobs' = jobs
    BY <1>14, <2>1, <2>2 DEF WriteCombinedWav, CannotComplete
  <2> QED BY <1>1, <1>2, <2>2, <2>3
<1>15. ASSUME RestartWorkerLoop(w) PROVE Canceling(j)'
  <2>1. jobs' = jobs /\ loop.current \in Workers
    BY <1>15 DEF RestartWorkerLoop, TypeInv, TypeOK
  <2> DEFINE old == loop.current
             orphan == IF worker[old].pc = "reclaim" THEN Resting("stopped") ELSE worker[old]
  <2>2. worker' = [worker EXCEPT ![old] = orphan, ![w] = Resting("reclaim")]
    BY <1>15 DEF RestartWorkerLoop
  <2>3. CannotComplete(orphan, j) /\ CannotComplete(Resting("reclaim"), j)
    BY <2>1, RestingCompletesNothing DEF Canceling
  <2> HIDE DEF orphan, old
  <2>4. \A v \in Workers : CannotComplete(worker'[v], j)
    BY <1>1, <2>2, <2>3 DEF Canceling
  <2> QED BY <1>1, <2>1, <2>4 DEF Canceling
<1> QED BY <1>5, <1>6, <1>8, <1>9, <1>10, <1>11, <1>12, <1>13, <1>14, <1>15, FinishHonoursCancel
        DEF WorkerStep, ExportStep

\* A job of which a cancellation was requested before the last look at it ends
\* canceled or failed and in no other way, for any number of workers and
\* deaths (_raise_if_job_cancel_requested, _update_job_progress): the part of
\* CancelInTimeIsHonoured that needs no fairness.
CancelingEndsUncompleted ==
    [][\A j \in JobIds : Canceling(j) => jobs'[j].status \in Retryable \/ Canceling(j)']_workerVars

THEOREM CancellationsAreNotOverrun == Spec => CancelingEndsUncompleted
<1>1. TypeInv /\ [Next]_workerVars =>
        [\A j \in JobIds : Canceling(j) => jobs'[j].status \in Retryable \/ Canceling(j)']_workerVars
  <2> SUFFICES ASSUME TypeInv, Next, NEW j \in JobIds, Canceling(j)
               PROVE  jobs'[j].status \in Retryable \/ Canceling(j)'
    OBVIOUS
  <2> QED BY RequestsHonourCancel, WorkersHonourCancel DEF Next
<1> QED BY <1>1, InitTypeInv, NextTypeInv, PTL DEF Spec, CancelingEndsUncompleted
=============================================================================
