------------------------ MODULE ExportOneWorkerProofs ------------------------
(***************************************************************************)
(* What ExportQueue guarantees when a single worker process runs at a time, *)
(* as scripts/start.sh intends.  MCExportQueue shows that the guarantee ends *)
(* with the second process.                                                *)
(***************************************************************************)
EXTENDS ExportQueueProofs

SingleWorker == \A v, w \in Workers : v = w

\* One row's part of RowsTellTheTruth; a row that does not exist names no
\* document.
RowTruth(r, j) ==
    /\ r.status = "absent" => r.doc = 0
    /\ r.status = "failed" <=> r.failure # "none"
    /\ r.artifact # NoArtifact <=> r.status = "completed"
    /\ r.status = "completed" =>
         /\ r.artifact = [user |-> r.user, doc |-> r.doc]
         /\ <<r.user, j>> \in disk

AllRowsTrue == \A j \in JobIds : RowTruth(jobs[j], j)

(***************************************************************************)
(* RowsTellTheTruth is not inductive: FinishExport writes what the worker   *)
(* computed from the row it loaded long ago.  It stays true because that    *)
(* row is still the worker's: same job, same columns but for the status and *)
(* the heartbeat, and not ended by anyone else.                            *)
(***************************************************************************)
HoldsItsRow(w) ==
    Exporting(w) =>
        /\ RowOf(w).status \in StaleReclaimable
        /\ worker[w].pc # "load" =>
             /\ worker[w].loaded.status \in StaleReclaimable
             /\ RowOf(w).user = worker[w].loaded.user
             /\ RowOf(w).doc = worker[w].loaded.doc
             /\ RowOf(w).failure = worker[w].loaded.failure
             /\ RowOf(w).artifact = worker[w].loaded.artifact
        /\ worker[w].pc = "finish" /\ worker[w].outcome = "completed" =>
             ExportDir(w) \in disk
        /\ worker[w].pc = "finish" /\ worker[w].outcome = "canceled" =>
             RowOf(w).status = "cancel_requested"

OneWorkerInv ==
    /\ TypeInv
    /\ AllRowsTrue
    /\ \A w \in Workers : HoldsItsRow(w)

\* The operations on rows keep RowTruth where their handlers apply them.
LEMMA RowOperationsTruth ==
    ASSUME NEW r \in JobRow, NEW j, RowTruth(r, j)
    PROVE  /\ r.status = "queued" => RowTruth(ClaimedRow(r), j)
           /\ r.status \in Cancellable => RowTruth(CancelledRow(r), j)
           /\ r.status \in StaleReclaimable => RowTruth(ReclaimedRow(r), j)
           /\ RowTruth(HeartbeatRow(r), j)
           /\ RowTruth([r EXCEPT !.fresh = FALSE], j)
<1>1. r.status = "queued" => RowTruth(ClaimedRow(r), j)
  BY DEF RowTruth, ClaimedRow, JobRow
<1>2. r.status \in Cancellable => RowTruth(CancelledRow(r), j)
  BY DEF RowTruth, CancelledRow, Cancellable, JobRow
<1>3. r.status \in StaleReclaimable => RowTruth(ReclaimedRow(r), j)
  BY DEF RowTruth, ReclaimedRow, StaleReclaimable, JobRow
<1>4. RowTruth(HeartbeatRow(r), j) /\ RowTruth([r EXCEPT !.fresh = FALSE], j)
  BY DEF RowTruth, HeartbeatRow, JobRow
<1> QED BY <1>1, <1>2, <1>3, <1>4

\* New rows and missing rows are true wherever the disk stands.
LEMMA NewRowTruth ==
    ASSUME NEW u, NEW d, NEW s, NEW j
    PROVE  RowTruth(QueuedRow(u, d, s), j) /\ RowTruth(NoRow, j)
BY DEF RowTruth, QueuedRow, NoRow

\* The initial state has no rows and no export under way.
LEMMA InitOneWorkerInv == InitWorker => OneWorkerInv
<1> SUFFICES ASSUME InitWorker PROVE OneWorkerInv OBVIOUS
<1>1. AllRowsTrue
  BY NewRowTruth DEF InitWorker, AllRowsTrue
<1>2. \A w \in Workers : HoldsItsRow(w)
  BY DEF InitWorker, HoldsItsRow, Exporting, Resting
<1> QED BY <1>1, <1>2, InitTypeInv DEF OneWorkerInv

\* A step that does not touch processes and files, nor the rows being
\* exported except for their status and heartbeat, leaves them with the worker.
LEMMA OthersStep ==
    ASSUME OneWorkerInv, UNCHANGED <<worker, disk>>,
           \A w \in Workers : Exporting(w) =>
             /\ RowOf(w)'.status \in {RowOf(w).status, "cancel_requested"}
             /\ RowOf(w)'.user = RowOf(w).user
             /\ RowOf(w)'.doc = RowOf(w).doc
             /\ RowOf(w)'.failure = RowOf(w).failure
             /\ RowOf(w)'.artifact = RowOf(w).artifact
    PROVE  \A w \in Workers : HoldsItsRow(w)'
BY DEF OneWorkerInv, HoldsItsRow, Exporting, ExportDir, StaleReclaimable

\* Queueing a new row under a new id disturbs no other row.
LEMMA InsertStep ==
    ASSUME OneWorkerInv, UNCHANGED <<worker, disk>>, NEW j \in JobIds,
           IsNextId(j, JobRowIds), NEW u, NEW d, NEW s,
           jobs' = [jobs EXCEPT ![j] = QueuedRow(u, d, s)]
    PROVE  AllRowsTrue' /\ \A w \in Workers : HoldsItsRow(w)'
<1>1. jobs[j].status = "absent"
  BY DEF IsNextId, JobRowIds, Exists, JobIds
<1>2. AllRowsTrue'
  BY DEF OneWorkerInv, AllRowsTrue, RowTruth, QueuedRow, TypeInv, TypeOK
<1>3. \A w \in Workers : Exporting(w) =>
        /\ worker[w].job # j
        /\ RowOf(w)' = RowOf(w)
        /\ RowOf(w).status \in StaleReclaimable
  BY <1>1 DEF OneWorkerInv, HoldsItsRow, RowOf, StaleReclaimable, TypeInv,
              TypeOK
<1> QED BY <1>2, <1>3, OthersStep

\* The requests leave the row of a running export alone, but for its status
\* and its heartbeat, and its file too.
LEMMA RequestsKeepOneWorkerInv ==
    ASSUME OneWorkerInv,
           \/ \E u \in Users : ImportDocument(u)
           \/ \E u \in Users, d \in DocIds, split \in BOOLEAN :
                EnqueueExportJob(u, d, split)
           \/ \E j \in JobIds : CancelJob(j)
           \/ \E j \in JobIds : RetryJob(j)
           \/ \E d \in DocIds : DeleteDocument(d)
           \/ \E j \in JobIds : HeartbeatExpires(j)
    PROVE  AllRowsTrue' /\ \A w \in Workers : HoldsItsRow(w)'
<1> USE DEF OneWorkerInv
<1>0. /\ jobs \in [JobIds -> JobRow]
      /\ \A w \in Workers : Exporting(w) =>
           /\ worker[w].job \in JobIds
           /\ RowOf(w).status \in StaleReclaimable
  BY DEF TypeInv, TypeOK, GoodMemory, Exporting, HoldsItsRow
<1>1. CASE \E u \in Users : ImportDocument(u)
  BY <1>1 DEF ImportDocument, AllRowsTrue, RowTruth, HoldsItsRow, Exporting, RowOf,
              ExportDir
<1>2. CASE \E u \in Users, d \in DocIds, split \in BOOLEAN :
             EnqueueExportJob(u, d, split)
  BY <1>2, InsertStep DEF EnqueueExportJob
<1>3. ASSUME NEW j \in JobIds, CancelJob(j)
      PROVE  AllRowsTrue' /\ \A w \in Workers : HoldsItsRow(w)'
  <2>1. /\ jobs' = [jobs EXCEPT ![j] = CancelledRow(jobs[j])]
        /\ jobs[j].status \in Cancellable
        /\ UNCHANGED <<worker, disk>>
    BY <1>3 DEF CancelJob
  <2>2. SameJob(CancelledRow(jobs[j]), jobs[j])
    BY <1>0, RowOperations
  <2>3. RowTruth(CancelledRow(jobs[j]), j)
    BY <1>0, <2>1, RowOperationsTruth DEF AllRowsTrue
  <2>4. AllRowsTrue'
    BY <1>0, <2>1, <2>3 DEF AllRowsTrue, RowTruth
  <2>5. jobs[j].status \in StaleReclaimable =>
          /\ CancelledRow(jobs[j]).status = "cancel_requested"
          /\ CancelledRow(jobs[j]).failure = jobs[j].failure
          /\ CancelledRow(jobs[j]).artifact = jobs[j].artifact
    BY <1>0 DEF CancelledRow, StaleReclaimable, JobRow
  <2>6. \A w \in Workers : Exporting(w) =>
          /\ RowOf(w)'.status \in {RowOf(w).status, "cancel_requested"}
          /\ RowOf(w)'.user = RowOf(w).user
          /\ RowOf(w)'.doc = RowOf(w).doc
          /\ RowOf(w)'.failure = RowOf(w).failure
          /\ RowOf(w)'.artifact = RowOf(w).artifact
    BY <1>0, <2>1, <2>2, <2>5 DEF RowOf, SameJob, StaleReclaimable
  <2> QED BY <2>1, <2>4, <2>6, OthersStep
<1>4. ASSUME NEW j \in JobIds, RetryJob(j)
      PROVE  AllRowsTrue' /\ \A w \in Workers : HoldsItsRow(w)'
  <2>1. PICK k \in JobIds :
          /\ IsNextId(k, JobRowIds)
          /\ jobs' = [jobs EXCEPT ![k] = QueuedRow(jobs[j].user, jobs[j].doc,
                                                   jobs[j].split)]
    BY <1>4 DEF RetryJob, RetriedRow
  <2>2. UNCHANGED <<worker, disk>>
    BY <1>4 DEF RetryJob
  <2> QED BY <2>1, <2>2, InsertStep
<1>5. ASSUME NEW d \in DocIds, DeleteDocument(d)
      PROVE  AllRowsTrue' /\ \A w \in Workers : HoldsItsRow(w)'
  <2>1. \A j \in JobIds : /\ j \in JobsOf(d) => jobs'[j] = NoRow
                          /\ j \notin JobsOf(d) => jobs'[j] = jobs[j]
    BY <1>5 DEF DeleteDocument
  <2>2. \A j \in JobIds, u \in Users \cup {NoUser} :
          j \notin JobsOf(d) /\ <<u, j>> \in disk => <<u, j>> \in disk'
    BY <1>5 DEF DeleteDocument, RecordedDirs
  <2>3. AllRowsTrue'
    BY <1>0, <2>1, <2>2 DEF AllRowsTrue, RowTruth, NoRow, JobRow
  <2>4. \A w \in Workers : Exporting(w) => worker[w].job \notin JobsOf(d)
    BY <1>0, <1>5
       DEF DeleteDocument, RowOf, StaleReclaimable, ActiveExport
  <2>5. \A w \in Workers : HoldsItsRow(w)'
    <3> SUFFICES ASSUME NEW w \in Workers, Exporting(w)'
                 PROVE  HoldsItsRow(w)'
      BY DEF HoldsItsRow
    <3>1. UNCHANGED worker /\ Exporting(w)
      BY <1>5 DEF DeleteDocument, Exporting
    <3>2. RowOf(w)' = RowOf(w)
      BY <1>0, <2>1, <2>4, <3>1 DEF RowOf
    <3>3. worker[w].pc = "finish" => worker[w].loaded.user \in Users
      BY DEF TypeInv, GoodMemory
    <3>4. worker[w].pc = "finish" /\ worker[w].outcome = "completed" =>
            ExportDir(w) \in disk'
      BY <1>0, <2>2, <2>4, <3>1, <3>3 DEF HoldsItsRow, ExportDir
    <3> QED BY <3>1, <3>2, <3>4 DEF HoldsItsRow, Exporting, ExportDir
  <2> QED BY <2>3, <2>5
<1>6. ASSUME NEW j \in JobIds, HeartbeatExpires(j)
      PROVE  AllRowsTrue' /\ \A w \in Workers : HoldsItsRow(w)'
  <2> DEFINE r == [jobs[j] EXCEPT !.fresh = FALSE]
  <2>1. jobs' = [jobs EXCEPT ![j] = r] /\ UNCHANGED <<worker, disk>>
    BY <1>6 DEF HeartbeatExpires
  <2>2. /\ r.user = jobs[j].user /\ r.doc = jobs[j].doc
        /\ r.status = jobs[j].status
        /\ r.failure = jobs[j].failure /\ r.artifact = jobs[j].artifact
    BY <1>0 DEF JobRow
  <2>3. RowTruth(r, j)
    BY <1>0, RowOperationsTruth DEF AllRowsTrue
  <2>4. AllRowsTrue'
    BY <1>0, <2>1, <2>3 DEF AllRowsTrue, RowTruth
  <2>5. \A w \in Workers : Exporting(w) =>
          /\ RowOf(w)'.status \in {RowOf(w).status, "cancel_requested"}
          /\ RowOf(w)'.user = RowOf(w).user
          /\ RowOf(w)'.doc = RowOf(w).doc
          /\ RowOf(w)'.failure = RowOf(w).failure
          /\ RowOf(w)'.artifact = RowOf(w).artifact
    BY <1>0, <2>1, <2>2 DEF RowOf
  <2> QED BY <2>1, <2>4, <2>5, OthersStep
<1> QED BY <1>1, <1>2, <1>3, <1>4, <1>5, <1>6

\* A true row written over another leaves all rows true.
LEMMA OneRowStep ==
    ASSUME OneWorkerInv, UNCHANGED disk, NEW j \in JobIds, NEW r,
           RowTruth(r, j), jobs' = [jobs EXCEPT ![j] = r]
    PROVE  AllRowsTrue'
BY DEF OneWorkerInv, AllRowsTrue, RowTruth, TypeInv, TypeOK

\* A process that ends its iteration holds no row.
LEMMA EndHoldsNothing ==
    ASSUME OneWorkerInv, NEW w \in Workers, NEW b \in BOOLEAN,
           EndIteration(w, b)
    PROVE  HoldsItsRow(w)'
BY DEF OneWorkerInv, TypeInv, TypeOK, EndIteration, Resting, HoldsItsRow,
       Exporting

\* Reclaim and claim happen between two exports: with a single worker, no
\* export is reclaimed or claimed twice while it runs.
LEMMA LoopKeepsOneWorkerInv ==
    ASSUME SingleWorker, OneWorkerInv, NEW w \in Workers,
           \/ ReclaimStaleJobs(w)
           \/ ClaimNextQueuedJob(w)
           \/ FindNothingToClaim(w)
           \/ WorkerDies(w)
           \/ RestartWorkerLoop(w)
    PROVE  AllRowsTrue' /\ HoldsItsRow(w)'
<1>0. jobs \in [JobIds -> JobRow] /\ worker \in [Workers -> WorkerState]
  BY DEF OneWorkerInv, TypeInv, TypeOK
<1>1. CASE ReclaimStaleJobs(w)
  <2>1. \A j \in JobIds :
          IsStale(jobs[j]) => RowTruth(ReclaimedRow(jobs[j]), j)
    BY <1>0, RowOperationsTruth DEF OneWorkerInv, AllRowsTrue, IsStale
  <2>2. AllRowsTrue'
    BY <1>1, <2>1
       DEF ReclaimStaleJobs, OneWorkerInv, AllRowsTrue, RowTruth
  <2>3. HoldsItsRow(w)'
    BY <1>0, <1>1 DEF ReclaimStaleJobs, GoTo, HoldsItsRow, Exporting
  <2> QED BY <2>2, <2>3
<1>2. CASE ClaimNextQueuedJob(w)
  <2>1. PICK j \in JobIds :
          /\ jobs[j].status = "queued"
          /\ jobs' = [jobs EXCEPT ![j] = ClaimedRow(jobs[j])]
          /\ worker' = [worker EXCEPT ![w].pc = "load", ![w].job = j]
    BY <1>2 DEF ClaimNextQueuedJob, IsNextQueued
  <2>2. RowTruth(ClaimedRow(jobs[j]), j)
    BY <1>0, <2>1, RowOperationsTruth DEF OneWorkerInv, AllRowsTrue
  <2>3. AllRowsTrue'
    BY <1>2, <2>1, <2>2, OneRowStep DEF ClaimNextQueuedJob
  <2>4. /\ worker'[w].pc = "load"
        /\ worker'[w].job = j
        /\ jobs'[j].status = "processing"
    BY <1>0, <2>1 DEF ClaimedRow, JobRow, WorkerState
  <2>5. HoldsItsRow(w)'
    BY <2>4 DEF HoldsItsRow, RowOf, StaleReclaimable
  <2> QED BY <2>3, <2>5
<1>3. CASE FindNothingToClaim(w)
  <2>1. AllRowsTrue'
    BY <1>3 DEF FindNothingToClaim, OneWorkerInv, AllRowsTrue, RowTruth
  <2> QED BY <1>3, <2>1, EndHoldsNothing DEF FindNothingToClaim
<1>4. CASE WorkerDies(w)
  <2>1. AllRowsTrue'
    BY <1>4 DEF WorkerDies, OneWorkerInv, AllRowsTrue, RowTruth
  <2> QED BY <1>4, <2>1, EndHoldsNothing DEF WorkerDies
<1>5. CASE RestartWorkerLoop(w)
  <2>1. AllRowsTrue'
    BY <1>5 DEF RestartWorkerLoop, OneWorkerInv, AllRowsTrue, RowTruth
  <2>2. PICK m : worker' = [worker EXCEPT ![loop.current] = m,
                                          ![w] = Resting("reclaim")]
    BY <1>5 DEF RestartWorkerLoop
  <2>3. worker'[w].pc = "reclaim"
    BY <1>0, <2>2 DEF Resting
  <2>4. HoldsItsRow(w)'
    BY <2>3 DEF HoldsItsRow, Exporting
  <2> QED BY <2>1, <2>4
<1> QED BY <1>1, <1>2, <1>3, <1>4, <1>5

\* A step within an export that leaves the row what the worker expects it to
\* be lets the worker keep it.
LEMMA StageStep ==
    ASSUME OneWorkerInv, NEW w \in Workers,
           worker[w].pc \in {"prepare", "check", "synth", "progress", "combine"},
           worker'[w].job = worker[w].job,
           worker'[w].loaded = worker[w].loaded,
           worker'[w].pc # "load",
           /\ RowOf(w)'.status = RowOf(w).status
           /\ RowOf(w)'.user = RowOf(w).user
           /\ RowOf(w)'.doc = RowOf(w).doc
           /\ RowOf(w)'.failure = RowOf(w).failure
           /\ RowOf(w)'.artifact = RowOf(w).artifact,
           worker'[w].pc = "finish" /\ worker'[w].outcome = "completed" =>
             ExportDir(w) \in disk',
           worker'[w].pc = "finish" /\ worker'[w].outcome = "canceled" =>
             RowOf(w).status = "cancel_requested"
    PROVE  HoldsItsRow(w)'
BY DEF OneWorkerInv, HoldsItsRow, Exporting, ExportDir

\* The row of an export that is about to end becomes what the export decided:
\* nobody wrote to its columns but for a cancellation to its status, which is
\* overwritten.
LEMMA FinishedRow ==
    ASSUME OneWorkerInv, NEW w \in Workers, worker[w].pc = "finish"
    PROVE  LET r == OrmFlush(RowOf(w), worker[w].loaded, FinalRow(w)) IN
             /\ RowTruth(r, worker[w].job)
             /\ r.doc = RowOf(w).doc
             /\ r.status \in Terminal
             /\ r.status = "canceled" => RowOf(w).status = "cancel_requested"
<1> DEFINE row == RowOf(w)
           loaded == worker[w].loaded
           final == FinalRow(w)
           r == OrmFlush(row, loaded, final)
<1>1. /\ worker[w] \in WorkerState
      /\ worker[w].job \in JobIds
      /\ loaded.user \in Users
      /\ loaded.doc \in DocIds
  BY DEF OneWorkerInv, TypeInv, TypeOK, GoodMemory
<1>2. loaded \in JobRow /\ row \in JobRow
  BY <1>1 DEF WorkerState, RowOf, OneWorkerInv, TypeInv, TypeOK
<1>3. /\ loaded.status \in StaleReclaimable
      /\ row.status \in StaleReclaimable
      /\ row.user = loaded.user
      /\ row.doc = loaded.doc
      /\ row.failure = loaded.failure
      /\ row.artifact = loaded.artifact
      /\ worker[w].outcome = "completed" => ExportDir(w) \in disk
      /\ worker[w].outcome = "canceled" => row.status = "cancel_requested"
  BY DEF OneWorkerInv, HoldsItsRow, Exporting
<1>4. final = OutcomeRow(loaded, worker[w].outcome)
  BY <1>3 DEF FinalRow
<1> DEFINE o == worker[w].outcome
<1>5. o \in Terminal BY <1>1 DEF WorkerState
<1>6. /\ final.status = o
      /\ final.failure = IF o = "failed" THEN "error" ELSE "none"
      /\ final.artifact = IF o = "completed"
                            THEN [user |-> loaded.user, doc |-> loaded.doc]
                            ELSE NoArtifact
  BY <1>2, <1>4 DEF OutcomeRow, JobRow
<1>7. /\ r.status = Flushed(row.status, loaded.status, final.status)
      /\ r.failure = Flushed(row.failure, loaded.failure, final.failure)
      /\ r.artifact = Flushed(row.artifact, loaded.artifact, final.artifact)
      /\ r.user = row.user
      /\ r.doc = row.doc
  BY <1>2 DEF OrmFlush, JobRow
<1> HIDE DEF r, final, row, loaded, o
<1>8. o # loaded.status
  BY <1>3, <1>5 DEF Terminal, StaleReclaimable
<1>9. r.status = o /\ r.failure = final.failure /\ r.artifact = final.artifact
  BY <1>3, <1>6, <1>7, <1>8 DEF Flushed
<1>10. o = "completed" => final.artifact # NoArtifact
  BY <1>1, <1>6, ExportJobsAssumption DEF NoArtifact, loaded
<1>11. o = "completed" => <<r.user, worker[w].job>> \in disk
  BY <1>3, <1>7 DEF ExportDir, o, loaded
<1>12. RowTruth(r, worker[w].job)
  BY <1>3, <1>5, <1>6, <1>7, <1>9, <1>10, <1>11 DEF RowTruth, Terminal
<1> QED BY <1>3, <1>5, <1>7, <1>9, <1>12 DEF r, final, row, loaded, o

\* The steps of an export keep the row, and leave it true at the end.
LEMMA ExportKeepsOneWorkerInv ==
    ASSUME OneWorkerInv, NEW w \in Workers, ExportStep(w)
    PROVE  AllRowsTrue' /\ HoldsItsRow(w)'
<1>0. /\ jobs \in [JobIds -> JobRow]
      /\ worker \in [Workers -> WorkerState]
      /\ worker[w] \in WorkerState
      /\ worker[w].job \in JobIds
      /\ RowOf(w) \in JobRow
      /\ RowOf(w).status \in StaleReclaimable
      /\ RowTruth(RowOf(w), worker[w].job)
  <2>1. Exporting(w)
    BY DEF ExportStep, LoadJob, PrepareExport, RaiseIfCancelRequested,
           SynthesizeChunk, UpdateJobProgress, WriteCombinedWav, FinishExport,
           Exporting
  <2>2. worker[w].job \in JobIds /\ RowOf(w).status \in StaleReclaimable
    BY <2>1 DEF OneWorkerInv, TypeInv, GoodMemory, HoldsItsRow, Exporting
  <2> QED BY <2>2 DEF OneWorkerInv, TypeInv, TypeOK, AllRowsTrue, RowOf
<1>1. RowOf(w).status # "absent"
  BY <1>0 DEF StaleReclaimable
<1>2. ASSUME UNCHANGED <<jobs, disk>> PROVE AllRowsTrue'
  BY <1>2 DEF OneWorkerInv, AllRowsTrue, RowTruth
<1>3. ASSUME NEW o, Conclude(w, o)
      PROVE  /\ worker'[w].pc = "finish"
             /\ worker'[w].outcome = o
             /\ worker'[w].job = worker[w].job
             /\ worker'[w].loaded = worker[w].loaded
  BY <1>0, <1>3 DEF Conclude, WorkerState
<1>4. ASSUME NEW pc, GoTo(w, pc)
      PROVE  /\ worker'[w].pc = pc
             /\ worker'[w].job = worker[w].job
             /\ worker'[w].loaded = worker[w].loaded
  BY <1>0, <1>4 DEF GoTo, WorkerState
<1>5. ASSUME Heartbeat(w), UNCHANGED disk, worker'[w].job = worker[w].job
      PROVE  /\ AllRowsTrue'
             /\ RowOf(w)'.status = RowOf(w).status
             /\ RowOf(w)'.user = RowOf(w).user
             /\ RowOf(w)'.doc = RowOf(w).doc
             /\ RowOf(w)'.failure = RowOf(w).failure
             /\ RowOf(w)'.artifact = RowOf(w).artifact
  <2> DEFINE r == HeartbeatRow(RowOf(w))
  <2>1. jobs' = [jobs EXCEPT ![worker[w].job] = r]
    BY <1>5 DEF Heartbeat, RowOf
  <2>2. RowOf(w)' = r
    BY <1>0, <1>5, <2>1 DEF RowOf
  <2>3. AllRowsTrue'
    BY <1>0, <1>5, <2>1, RowOperationsTruth, OneRowStep
  <2> QED BY <1>0, <2>2, <2>3 DEF HeartbeatRow, JobRow
<1>6. CASE LoadJob(w)
  <2>1. /\ worker'[w].pc = "prepare"
        /\ worker'[w].job = worker[w].job
        /\ worker'[w].loaded = RowOf(w)
        /\ RowOf(w)' = RowOf(w)
    BY <1>0, <1>1, <1>6 DEF LoadJob, WorkerState, RowOf
  <2>2. HoldsItsRow(w)'
    BY <1>0, <2>1 DEF HoldsItsRow
  <2> QED BY <1>2, <1>6, <2>2 DEF LoadJob
<1>7. CASE PrepareExport(w)
  <2>1. /\ worker'[w].pc \in {"check", "finish"}
        /\ worker'[w].pc = "finish" => worker'[w].outcome = "failed"
        /\ worker'[w].job = worker[w].job
        /\ worker'[w].loaded = worker[w].loaded
    BY <1>0, <1>3, <1>7 DEF PrepareExport, WorkerState
  <2>2. RowOf(w)' = RowOf(w)
    BY <1>7, <2>1 DEF PrepareExport, RowOf
  <2>3. HoldsItsRow(w)'
    BY <1>7, <2>1, <2>2, StageStep DEF PrepareExport
  <2> QED BY <1>2, <1>7, <2>3 DEF PrepareExport
<1>8. CASE RaiseIfCancelRequested(w)
  <2>1. CASE RowOf(w).status = "cancel_requested"
    <3>1. Conclude(w, "canceled") /\ UNCHANGED <<jobs, disk>>
      BY <1>8, <2>1 DEF RaiseIfCancelRequested
    <3>2. RowOf(w)' = RowOf(w)
      BY <1>3, <3>1 DEF RowOf
    <3>3. HoldsItsRow(w)'
      BY <1>3, <1>8, <2>1, <3>1, <3>2, StageStep DEF RaiseIfCancelRequested
    <3> QED BY <1>2, <3>1, <3>3
  <2>2. CASE RowOf(w).status # "cancel_requested"
    <3>1. Heartbeat(w) /\ GoTo(w, "synth") /\ UNCHANGED disk
      BY <1>1, <1>8, <2>2 DEF RaiseIfCancelRequested
    <3>2. HoldsItsRow(w)'
      BY <1>4, <1>5, <1>8, <3>1, StageStep DEF RaiseIfCancelRequested
    <3> QED BY <1>4, <1>5, <3>1, <3>2
  <2> QED BY <2>1, <2>2
<1>9. CASE SynthesizeChunk(w)
  <2>1. /\ worker'[w].pc \in {"progress", "finish"}
        /\ worker'[w].pc = "finish" => worker'[w].outcome = "failed"
        /\ worker'[w].job = worker[w].job
        /\ worker'[w].loaded = worker[w].loaded
    BY <1>3, <1>4, <1>9 DEF SynthesizeChunk
  <2>2. RowOf(w)' = RowOf(w)
    BY <1>9, <2>1 DEF SynthesizeChunk, RowOf
  <2>3. HoldsItsRow(w)'
    BY <1>9, <2>1, <2>2, StageStep DEF SynthesizeChunk
  <2> QED BY <1>2, <1>9, <2>3 DEF SynthesizeChunk
<1>10. CASE UpdateJobProgress(w)
  <2>1. CASE RowOf(w).status = "cancel_requested"
    <3>1. Conclude(w, "canceled") /\ UNCHANGED <<jobs, disk>>
      BY <1>10, <2>1 DEF UpdateJobProgress
    <3>2. RowOf(w)' = RowOf(w)
      BY <1>3, <3>1 DEF RowOf
    <3>3. HoldsItsRow(w)'
      BY <1>3, <1>10, <2>1, <3>1, <3>2, StageStep DEF UpdateJobProgress
    <3> QED BY <1>2, <3>1, <3>3
  <2>2. CASE RowOf(w).status # "cancel_requested"
    <3>1. PICK stage \in {"check", "combine"} :
            worker' = [worker EXCEPT ![w].pc = stage,
                                     ![w].todo = worker[w].todo - 1]
      BY <1>10, <2>2 DEF UpdateJobProgress, StageAfterChunk
    <3>2. Heartbeat(w) /\ UNCHANGED disk
      BY <1>1, <1>10, <2>2 DEF UpdateJobProgress
    <3>3. /\ worker'[w].pc = stage
          /\ worker'[w].job = worker[w].job
          /\ worker'[w].loaded = worker[w].loaded
      BY <1>0, <3>1 DEF WorkerState
    <3>4. HoldsItsRow(w)'
      BY <1>5, <1>10, <3>2, <3>3, StageStep DEF UpdateJobProgress
    <3> QED BY <1>5, <3>2, <3>3, <3>4
  <2> QED BY <2>1, <2>2
<1>11. CASE WriteCombinedWav(w)
  <2>1. /\ worker'[w].pc \in {"check", "finish"}
        /\ worker'[w].pc = "finish" =>
             worker'[w].outcome \in {"completed", "failed"}
        /\ worker'[w].pc = "finish" /\ worker'[w].outcome = "completed" =>
             ExportDir(w) \in disk'
        /\ worker'[w].job = worker[w].job
        /\ worker'[w].loaded = worker[w].loaded
    BY <1>3, <1>4, <1>11 DEF WriteCombinedWav
  <2>2. RowOf(w)' = RowOf(w)
    BY <1>11, <2>1 DEF WriteCombinedWav, RowOf
  <2>3. HoldsItsRow(w)'
    BY <1>11, <2>1, <2>2, StageStep DEF WriteCombinedWav
  <2>4. UNCHANGED jobs /\ disk \subseteq disk'
    BY <1>11 DEF WriteCombinedWav
  <2>5. AllRowsTrue'
    BY <2>4 DEF OneWorkerInv, AllRowsTrue, RowTruth
  <2> QED BY <2>3, <2>5
<1>12. CASE FinishExport(w)
  <2> DEFINE r == OrmFlush(RowOf(w), worker[w].loaded, FinalRow(w))
  <2>1. /\ jobs' = [jobs EXCEPT ![worker[w].job] = r]
        /\ EndIteration(w, TRUE)
        /\ UNCHANGED disk
    BY <1>1, <1>12 DEF FinishExport, RowOf
  <2>2. RowTruth(r, worker[w].job)
    BY <1>12, FinishedRow DEF FinishExport
  <2>3. AllRowsTrue'
    BY <1>0, <2>1, <2>2, OneRowStep
  <2> QED BY <2>1, <2>3, EndHoldsNothing
<1> QED BY <1>6, <1>7, <1>8, <1>9, <1>10, <1>11, <1>12 DEF ExportStep

\* OneWorkerInv is inductive when there is one worker.
LEMMA NextOneWorkerInv ==
    ASSUME SingleWorker, OneWorkerInv, [Next]_workerVars
    PROVE  OneWorkerInv'
<1>1. TypeInv'
  BY NextTypeInv DEF OneWorkerInv
<1>2. CASE UNCHANGED workerVars
  <2>1. AllRowsTrue'
    BY <1>2 DEF workerVars, OneWorkerInv, AllRowsTrue, RowTruth
  <2>2. \A w \in Workers : HoldsItsRow(w)'
    BY <1>2 DEF workerVars, OneWorkerInv, HoldsItsRow, Exporting, RowOf,
                ExportDir
  <2> QED BY <1>1, <2>1, <2>2 DEF OneWorkerInv
<1>3. ASSUME NEW w \in Workers,
             WorkerStep(w) \/ WorkerDies(w) \/ RestartWorkerLoop(w)
      PROVE  OneWorkerInv'
  <2>1. AllRowsTrue' /\ HoldsItsRow(w)'
    BY <1>3, LoopKeepsOneWorkerInv, ExportKeepsOneWorkerInv DEF WorkerStep
  <2>2. \A v \in Workers : HoldsItsRow(v)'
    BY <2>1 DEF SingleWorker
  <2> QED BY <1>1, <2>1, <2>2 DEF OneWorkerInv
<1> QED BY <1>1, <1>2, <1>3, RequestsKeepOneWorkerInv DEF Next, OneWorkerInv

\* With one worker, the columns of every row that ended agree with each other
\* and with the files, for any number of users, documents, jobs and deaths.
THEOREM RowsAreTruthful == SingleWorker => (Spec => []RowsTellTheTruth)
<1> SUFFICES ASSUME SingleWorker PROVE Spec => []RowsTellTheTruth
  OBVIOUS
<1>1. OneWorkerInv /\ [Next]_workerVars => OneWorkerInv'
  BY NextOneWorkerInv
<1>2. OneWorkerInv => RowsTellTheTruth
  BY DEF OneWorkerInv, AllRowsTrue, RowTruth, RowsTellTheTruth
<1> QED BY <1>1, <1>2, InitOneWorkerInv, PTL DEF Spec

\* With one worker, nobody ends, deletes or replaces the row it is exporting.
THEOREM ExportsKeepTheirRow == SingleWorker => (Spec => []WorkerKeepsItsRow)
<1> SUFFICES ASSUME SingleWorker PROVE Spec => []WorkerKeepsItsRow
  OBVIOUS
<1>1. OneWorkerInv /\ [Next]_workerVars => OneWorkerInv'
  BY NextOneWorkerInv
<1>2. OneWorkerInv => WorkerKeepsItsRow
  BY DEF OneWorkerInv, HoldsItsRow, WorkerKeepsItsRow
<1> QED BY <1>1, <1>2, InitOneWorkerInv, PTL DEF Spec

-----------------------------------------------------------------------------

(***************************************************************************)
(* With one worker, ExportQueue implements JobLifecycle: what a client that *)
(* polls /api/jobs can rely on, for every number of users, documents, jobs, *)
(* chunks and deaths of the worker.                                        *)
(***************************************************************************)

\* What the client sees of a row that is true.
ViewOf(r) == [status |-> r.status, doc |-> r.doc,
              audio  |-> IF r.status = "completed" THEN r.doc ELSE 0]

\* One row's life in one step, before looking at its audio.
RowLives(old, new) ==
    \/ new.status = old.status /\ new.doc = old.doc
    \/ old.status = "absent" /\ new.status = "queued"
    \/ <<old.status, new.status>> \in Lifecycle!Moves /\ new.doc = old.doc
    \/ old.status \in Terminal /\ new.status = "absent"

RowsLive == \A j \in JobIds : RowLives(jobs[j], jobs'[j])

\* The audio offered is that of the row's own document, when rows are true.
LEMMA ViewOfTrueRows ==
    ASSUME OneWorkerInv
    PROVE  ClientView = [j \in JobIds |-> ViewOf(jobs[j])]
<1>1. ASSUME NEW j \in JobIds PROVE ClientView[j] = ViewOf(jobs[j])
  <2>1. RowTruth(jobs[j], j)
    BY DEF OneWorkerInv, AllRowsTrue
  <2>2. jobs[j].status = "completed" =>
          /\ jobs[j].artifact = [user |-> jobs[j].user, doc |-> jobs[j].doc]
          /\ <<jobs[j].user, j>> \in disk
    BY <2>1, Zenon DEF RowTruth
  <2> QED BY <2>2 DEF ClientView, ViewOf
<1> QED BY <1>1 DEF ClientView

\* Rows that live make a step of JobLifecycle, or none.
LEMMA RowsLiveInLifecycle ==
    ASSUME OneWorkerInv, OneWorkerInv', RowsLive
    PROVE  [Lifecycle!Next]_ClientView
<1>1. /\ ClientView = [j \in JobIds |-> ViewOf(jobs[j])]
      /\ ClientView' = [j \in JobIds |-> ViewOf(jobs'[j])]
  <2>1. ClientView = [j \in JobIds |-> ViewOf(jobs[j])]
    BY ViewOfTrueRows
  <2>2. ClientView' = [j \in JobIds |-> ViewOf(jobs'[j])]
    <3>1. ASSUME NEW j \in JobIds PROVE ClientView'[j] = ViewOf(jobs'[j])
      <4>1. RowTruth(jobs[j], j)'
        BY DEF OneWorkerInv, AllRowsTrue
      <4>2. jobs'[j].status = "completed" =>
              /\ jobs'[j].artifact
                   = [user |-> jobs'[j].user, doc |-> jobs'[j].doc]
              /\ <<jobs'[j].user, j>> \in disk'
        BY <4>1, Zenon DEF RowTruth
      <4> QED BY <4>2 DEF ClientView, ViewOf
    <3> QED BY <3>1 DEF ClientView
  <2> QED BY <2>1, <2>2
<1>2. \A j \in JobIds : /\ jobs[j] \in JobRow
                        /\ jobs'[j] \in JobRow
                        /\ jobs[j].status = "absent" => jobs[j].doc = 0
                        /\ jobs'[j].status = "absent" => jobs'[j].doc = 0
  BY DEF OneWorkerInv, AllRowsTrue, RowTruth, TypeInv, TypeOK
<1>3. ClientView' \in [JobIds -> Lifecycle!View]
  <2>1. ASSUME NEW j \in JobIds PROVE ViewOf(jobs'[j]) \in Lifecycle!View
    BY <1>2 DEF ViewOf, Lifecycle!View, Lifecycle!Status, Lifecycle!NoDoc,
                JobRow, ActiveExport, Terminal
  <2> QED BY <1>1, <2>1
<1>4. ASSUME NEW j \in JobIds
      PROVE  \/ ClientView'[j] = ClientView[j]
             \/ Lifecycle!Submitted(ClientView[j], ClientView'[j])
             \/ Lifecycle!Moved(ClientView[j], ClientView'[j])
             \/ Lifecycle!Discarded(ClientView[j], ClientView'[j])
  <2> DEFINE old == jobs[j]
             new == jobs'[j]
  <2>0. ClientView[j] = ViewOf(old) /\ ClientView'[j] = ViewOf(new)
    BY <1>1
  <2>1. CASE new.status = old.status /\ new.doc = old.doc
    BY <2>0, <2>1 DEF ViewOf
  <2>2. CASE old.status = "absent" /\ new.status = "queued"
    BY <1>2, <2>0, <2>2
       DEF ViewOf, Lifecycle!Submitted, Lifecycle!NoJob, Lifecycle!NoDoc
  <2>3. CASE <<old.status, new.status>> \in Lifecycle!Moves /\ new.doc = old.doc
    BY <2>0, <2>3 DEF ViewOf, Lifecycle!Moved, Lifecycle!NoDoc
  <2>4. CASE old.status \in Terminal /\ new.status = "absent"
    BY <1>2, <2>0, <2>4
       DEF ViewOf, Lifecycle!Discarded, Lifecycle!NoJob, Lifecycle!NoDoc,
           Terminal
  <2> QED BY <2>1, <2>2, <2>3, <2>4 DEF RowsLive, RowLives
<1> QED BY <1>3, <1>4 DEF Lifecycle!Next

\* One row that lives is enough when the others stay.
LEMMA OneRowLives ==
    ASSUME OneWorkerInv, NEW k \in JobIds, NEW r, RowLives(jobs[k], r),
           jobs' = [jobs EXCEPT ![k] = r]
    PROVE  RowsLive
BY DEF OneWorkerInv, TypeInv, TypeOK, RowsLive, RowLives

\* The requests let rows live.
LEMMA RequestsLetRowsLive ==
    ASSUME OneWorkerInv,
           \/ \E u \in Users : ImportDocument(u)
           \/ \E u \in Users, d \in DocIds, split \in BOOLEAN :
                EnqueueExportJob(u, d, split)
           \/ \E j \in JobIds : CancelJob(j)
           \/ \E j \in JobIds : RetryJob(j)
           \/ \E d \in DocIds : DeleteDocument(d)
           \/ \E j \in JobIds : HeartbeatExpires(j)
    PROVE  RowsLive
<1>0. jobs \in [JobIds -> JobRow]
  BY DEF OneWorkerInv, TypeInv, TypeOK
<1>1. CASE \E u \in Users : ImportDocument(u)
  BY <1>1 DEF ImportDocument, RowsLive, RowLives
<1>2. ASSUME NEW j \in JobIds, IsNextId(j, JobRowIds), NEW u, NEW d, NEW s,
             jobs' = [jobs EXCEPT ![j] = QueuedRow(u, d, s)]
      PROVE  RowsLive
  <2>1. jobs[j].status = "absent"
    BY <1>2 DEF IsNextId, JobRowIds, Exists, JobIds
  <2>2. RowLives(jobs[j], QueuedRow(u, d, s))
    BY <2>1 DEF RowLives, QueuedRow
  <2> QED BY <1>2, <2>2, OneRowLives
<1>3. CASE \E u \in Users, d \in DocIds, split \in BOOLEAN :
             EnqueueExportJob(u, d, split)
  BY <1>2, <1>3 DEF EnqueueExportJob
<1>4. ASSUME NEW j \in JobIds, CancelJob(j) PROVE RowsLive
  <2>1. RowLives(jobs[j], CancelledRow(jobs[j]))
    BY <1>0, <1>4 DEF CancelJob, RowLives, CancelledRow, Cancellable, JobRow,
                      Lifecycle!Moves
  <2> QED BY <1>4, <2>1, OneRowLives DEF CancelJob
<1>5. ASSUME NEW j \in JobIds, RetryJob(j) PROVE RowsLive
  <2>1. PICK k \in JobIds :
          /\ IsNextId(k, JobRowIds)
          /\ jobs' = [jobs EXCEPT ![k] = QueuedRow(jobs[j].user, jobs[j].doc,
                                                   jobs[j].split)]
    BY <1>5 DEF RetryJob, RetriedRow
  <2> QED BY <1>2, <2>1
<1>6. ASSUME NEW d \in DocIds, DeleteDocument(d) PROVE RowsLive
  <2>1. ASSUME NEW j \in JobIds PROVE RowLives(jobs[j], jobs'[j])
    <3>1. CASE j \in JobsOf(d)
      <4>0. RowTruth(jobs[j], j)
        BY DEF OneWorkerInv, AllRowsTrue
      <4>1. jobs[j].status # "absent"
        BY <1>0, <3>1, <4>0 DEF JobsOf, RowTruth, JobRow, DocIds
      <4>2. jobs[j].status \in Terminal
        BY <1>0, <1>6, <3>1, <4>1 DEF DeleteDocument, JobRow
      <4>3. jobs'[j].status = "absent"
        BY <1>6, <3>1 DEF DeleteDocument, NoRow
      <4> QED BY <4>2, <4>3 DEF RowLives
    <3>2. CASE j \notin JobsOf(d)
      BY <1>6, <3>2 DEF DeleteDocument, RowLives
    <3> QED BY <3>1, <3>2
  <2> QED BY <2>1 DEF RowsLive
<1>7. ASSUME NEW j \in JobIds, HeartbeatExpires(j) PROVE RowsLive
  <2> DEFINE r == [jobs[j] EXCEPT !.fresh = FALSE]
  <2>1. jobs' = [jobs EXCEPT ![j] = r]
    BY <1>7 DEF HeartbeatExpires
  <2>2. RowLives(jobs[j], r)
    BY <1>0 DEF RowLives, JobRow
  <2> QED BY <2>1, <2>2, OneRowLives
<1> QED BY <1>1, <1>3, <1>4, <1>5, <1>6, <1>7

\* The worker lets rows live: in particular it never ends as canceled an
\* export whose cancellation nobody requested.
LEMMA WorkerLetsRowsLive ==
    ASSUME OneWorkerInv, NEW w \in Workers,
           WorkerStep(w) \/ WorkerDies(w) \/ RestartWorkerLoop(w)
    PROVE  RowsLive
<1>0. jobs \in [JobIds -> JobRow]
  BY DEF OneWorkerInv, TypeInv, TypeOK
<1>1. CASE UNCHANGED jobs
  BY <1>1 DEF RowsLive, RowLives
<1>2. CASE ReclaimStaleJobs(w)
  <2>1. ASSUME NEW j \in JobIds PROVE RowLives(jobs[j], jobs'[j])
    <3>1. CASE IsStale(jobs[j])
      <4>1. jobs'[j] = ReclaimedRow(jobs[j])
        BY <1>2, <3>1 DEF ReclaimStaleJobs
      <4>2. /\ jobs[j] \in JobRow
            /\ jobs[j].status \in {"processing", "cancel_requested"}
        BY <1>0, <3>1 DEF IsStale, StaleReclaimable
      <4>3. /\ jobs'[j].doc = jobs[j].doc
            /\ jobs'[j].status = IF jobs[j].status = "cancel_requested"
                                   THEN "canceled" ELSE "failed"
        BY <4>1, <4>2 DEF ReclaimedRow, JobRow
      <4> QED BY <4>2, <4>3 DEF RowLives, Lifecycle!Moves
    <3>2. CASE ~IsStale(jobs[j])
      BY <1>2, <3>2 DEF ReclaimStaleJobs, RowLives
    <3> QED BY <3>1, <3>2
  <2> QED BY <2>1 DEF RowsLive
<1>3. CASE ClaimNextQueuedJob(w)
  <2>1. PICK j \in JobIds :
          /\ jobs[j].status = "queued"
          /\ jobs' = [jobs EXCEPT ![j] = ClaimedRow(jobs[j])]
    BY <1>3 DEF ClaimNextQueuedJob, IsNextQueued
  <2>2. RowLives(jobs[j], ClaimedRow(jobs[j]))
    BY <1>0, <2>1 DEF RowLives, ClaimedRow, JobRow, Lifecycle!Moves
  <2> QED BY <2>1, <2>2, OneRowLives
<1>4. CASE Heartbeat(w) /\ worker[w].job \in JobIds
  <2>1. RowLives(RowOf(w), HeartbeatRow(RowOf(w)))
    BY <1>0, <1>4 DEF RowLives, HeartbeatRow, RowOf, JobRow
  <2> QED BY <1>4, <2>1, OneRowLives DEF Heartbeat, RowOf
<1>5. CASE FinishExport(w) /\ RowOf(w).status # "absent"
  <2> DEFINE r == OrmFlush(RowOf(w), worker[w].loaded, FinalRow(w))
  <2>1. jobs' = [jobs EXCEPT ![worker[w].job] = r]
    BY <1>5 DEF FinishExport, RowOf
  <2>2. /\ worker[w].pc = "finish"
        /\ worker[w].job \in JobIds
        /\ RowOf(w).status \in StaleReclaimable
    BY <1>5 DEF FinishExport, OneWorkerInv, TypeInv, GoodMemory, HoldsItsRow,
                Exporting
  <2>3. /\ r.doc = RowOf(w).doc
        /\ r.status \in Terminal
        /\ r.status = "canceled" => RowOf(w).status = "cancel_requested"
    BY <2>2, FinishedRow
  <2> HIDE DEF r
  <2>4. RowLives(RowOf(w), r)
    BY <2>2, <2>3 DEF RowLives, StaleReclaimable, Terminal, Lifecycle!Moves
  <2> QED BY <2>1, <2>2, <2>4, OneRowLives DEF RowOf
<1>6. CASE FinishExport(w) /\ RowOf(w).status = "absent"
  BY <1>1, <1>6 DEF FinishExport
<1>7. CASE RaiseIfCancelRequested(w) \/ UpdateJobProgress(w)
  <2>1. worker[w].job \in JobIds
    BY <1>7 DEF RaiseIfCancelRequested, UpdateJobProgress, OneWorkerInv,
                TypeInv, GoodMemory
  <2>2. Heartbeat(w) \/ UNCHANGED jobs
    BY <1>7 DEF RaiseIfCancelRequested, UpdateJobProgress
  <2> QED BY <1>1, <1>4, <2>1, <2>2
<1>8. CASE FindNothingToClaim(w) \/ LoadJob(w) \/ PrepareExport(w)
           \/ SynthesizeChunk(w) \/ WriteCombinedWav(w) \/ WorkerDies(w)
           \/ RestartWorkerLoop(w)
  BY <1>1, <1>8 DEF FindNothingToClaim, LoadJob, PrepareExport,
                    SynthesizeChunk, WriteCombinedWav, WorkerDies,
                    RestartWorkerLoop
<1> QED BY <1>2, <1>3, <1>5, <1>6, <1>7, <1>8 DEF WorkerStep, ExportStep

\* Before the first request a client sees no job.
LEMMA InitLifecycle == InitWorker => Lifecycle!Init
BY DEF InitWorker, ClientView, NoRow, Lifecycle!Init, Lifecycle!NoJob,
       Lifecycle!NoDoc

\* With one worker, every behaviour of the queue is one of JobLifecycle: no
\* crash, retry, deletion, late cancellation or reuse of an id makes a client
\* see a status skipped or taken back, or audio of another document.
THEOREM QueueImplementsLifecycle == SingleWorker => (Spec => ImplementsLifecycle)
<1> SUFFICES ASSUME SingleWorker PROVE Spec => ImplementsLifecycle
  OBVIOUS
<1>1. OneWorkerInv /\ [Next]_workerVars => OneWorkerInv'
  BY NextOneWorkerInv
<1>2. ASSUME OneWorkerInv, OneWorkerInv', [Next]_workerVars
      PROVE  [Lifecycle!Next]_ClientView
  <2>1. CASE UNCHANGED workerVars
    BY <2>1 DEF workerVars, ClientView
  <2>2. CASE Next
    <3>1. RowsLive
      BY <1>2, <2>2, RequestsLetRowsLive, WorkerLetsRowsLive DEF Next
    <3> QED BY <1>2, <3>1, RowsLiveInLifecycle
  <2> QED BY <1>2, <2>1, <2>2
<1> QED BY <1>1, <1>2, InitOneWorkerInv, InitLifecycle, PTL
        DEF Spec, ImplementsLifecycle, Lifecycle!Spec

(***************************************************************************)
(* Cancellations.  With one worker, a request that comes in time, as       *)
(* CancelInTimeIsHonoured means it, is one of those that are not overrun.  *)
(***************************************************************************)
LEMMA InTimeIsCanceling ==
    ASSUME SingleWorker, NEW j \in JobIds, CancelInTime(j)
    PROVE  Canceling(j)
BY DEF SingleWorker, CancelInTime, Canceling, CannotComplete
=============================================================================
