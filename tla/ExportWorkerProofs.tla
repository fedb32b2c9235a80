-------------------------- MODULE ExportWorkerProofs --------------------------
(***************************************************************************)
(* Lemmas about the rows and about the steps of an export that hold whether *)
(* the requests are one step each (ExportQueue) or two (ExportRaces).      *)
(***************************************************************************)
EXTENDS ExportWorker, TLAPS

(***************************************************************************)
(* What the row operations of ExportJobs return.                           *)
(***************************************************************************)

\* QueuedRow, of enqueue_export_job and retry_job, is a row.
LEMMA QueuedRowType ==
    ASSUME NEW u \in Users \cup {NoUser}, NEW d \in DocIds \cup {0},
           NEW s \in BOOLEAN
    PROVE  QueuedRow(u, d, s) \in JobRow
BY DEF QueuedRow, JobRow, ActiveExport, Terminal, NoArtifact, Artifact

\* What an operation may not change of a row.
SameJob(new, r) ==
    /\ new \in JobRow
    /\ new.user = r.user
    /\ new.doc = r.doc
    /\ new.split = r.split
    /\ new.status = "absent" => r.status = "absent"

\* Claiming, cancelling, reclaiming, a heartbeat and its expiry make a row of a
\* row and leave its user, its document and its export mode alone.
LEMMA RowOperations ==
    ASSUME NEW r \in JobRow
    PROVE  /\ SameJob(ClaimedRow(r), r)
           /\ SameJob(CancelledRow(r), r)
           /\ SameJob(ReclaimedRow(r), r)
           /\ SameJob(HeartbeatRow(r), r)
           /\ SameJob([r EXCEPT !.fresh = FALSE], r)
<1>1. SameJob(ClaimedRow(r), r)
  BY DEF SameJob, ClaimedRow, JobRow, ActiveExport
<1>2. SameJob(CancelledRow(r), r)
  BY DEF SameJob, CancelledRow, JobRow, ActiveExport, Terminal
<1>3. SameJob(ReclaimedRow(r), r)
  BY DEF SameJob, ReclaimedRow, JobRow, Terminal, NoArtifact, Artifact
<1>4. SameJob(HeartbeatRow(r), r) /\ SameJob([r EXCEPT !.fresh = FALSE], r)
  BY DEF SameJob, HeartbeatRow, JobRow
<1> QED BY <1>1, <1>2, <1>3, <1>4

\* The row that stands for no row is typed like one.
LEMMA NoRowType == NoRow \in JobRow
BY DEF NoRow, JobRow, NoArtifact, Artifact

\* The row of the worker's last transaction is a row of the same job.
LEMMA OutcomeRowType ==
    ASSUME NEW r \in JobRow, NEW o \in Terminal
    PROVE  /\ OutcomeRow(r, o) \in JobRow
           /\ OutcomeRow(r, o).status = o
<1> DEFINE audio == IF o = "completed" THEN [user |-> r.user, doc |-> r.doc] ELSE NoArtifact
           detail == IF o = "failed" THEN "error" ELSE "none"
<1>1. audio \in Artifact
  BY DEF JobRow, NoArtifact, Artifact
<1>2. detail \in {"none", "stale", "error"} /\ o \in ActiveExport \cup Terminal \cup {"absent"}
  OBVIOUS
<1>3. OutcomeRow(r, o) = [r EXCEPT !.status = o, !.failure = detail, !.artifact = audio]
  BY DEF OutcomeRow
<1> HIDE DEF audio, detail
<1> QED BY <1>1, <1>2, <1>3 DEF JobRow

\* A column is what it was or what the handler computed.
LEMMA FlushedColumn ==
    ASSUME NEW stored, NEW loaded, NEW new
    PROVE  Flushed(stored, loaded, new) \in {stored, new}
BY DEF Flushed

\* An UPDATE of the changed columns makes a row of the stored row and does not
\* change whose job it is; the status is one of the two.
LEMMA OrmFlushRow ==
    ASSUME NEW row \in JobRow, NEW loaded \in JobRow, NEW new \in JobRow
    PROVE  /\ SameJob(OrmFlush(row, loaded, new), row)
               \/ new.status = "absent"
           /\ OrmFlush(row, loaded, new) \in JobRow
           /\ OrmFlush(row, loaded, new).status \in {row.status, new.status}
<1> DEFINE st == Flushed(row.status, loaded.status, new.status)
           fr == Flushed(row.fresh, loaded.fresh, new.fresh)
           fa == Flushed(row.failure, loaded.failure, new.failure)
           ar == Flushed(row.artifact, loaded.artifact, new.artifact)
           out == [row EXCEPT !.status = st, !.fresh = fr, !.failure = fa,
                              !.artifact = ar]
<1>1. st \in {row.status, new.status} BY FlushedColumn
<1>2. fr \in {row.fresh, new.fresh} BY FlushedColumn
<1>3. fa \in {row.failure, new.failure} BY FlushedColumn
<1>4. ar \in {row.artifact, new.artifact} BY FlushedColumn
<1>5. OrmFlush(row, loaded, new) = out BY DEF OrmFlush
<1> HIDE DEF st, fr, fa, ar
<1>6. out \in JobRow BY <1>1, <1>2, <1>3, <1>4 DEF JobRow
<1>7. /\ out.user = row.user
      /\ out.doc = row.doc
      /\ out.split = row.split
      /\ out.status = st
  BY DEF JobRow
<1> QED BY <1>1, <1>5, <1>6, <1>7 DEF SameJob

-----------------------------------------------------------------------------

(***************************************************************************)
(* That a worker writes below a user's directory and never counts its       *)
(* chunks below zero rests on what it holds at each stage, and that in turn *)
(* on every row, ended ones included, naming a user and a document.  This   *)
(* holds for any number of workers.                                        *)
(***************************************************************************)

GoodMemory(m) ==
    /\ m.pc \notin {"stopped", "reclaim", "claim"} => m.job \in JobIds
    /\ m.pc \in {"prepare", "check", "synth", "progress", "combine", "finish"}
         => m.loaded.user \in Users /\ m.loaded.doc \in DocIds
    /\ m.pc \in {"check", "synth", "progress"} => m.todo # 0

NamesItsDocument(r) ==
    r.status # "absent" => r.user \in Users /\ r.doc \in DocIds

WorkerTypeOK ==
    /\ docs \in [DocIds -> Users \cup {NoUser}]
    /\ jobs \in [JobIds -> JobRow]
    /\ disk \in SUBSET (Users \X JobIds)
    /\ worker \in [Workers -> WorkerState]
    /\ loop \in [current : Workers, ready : BOOLEAN]
    /\ mishaps \in 0 .. MaxMishaps

WorkerTypeInv ==
    /\ WorkerTypeOK
    /\ \A w \in Workers : GoodMemory(worker[w])
    /\ \A j \in JobIds : NamesItsDocument(jobs[j])

\* The only rows that change are existing ones, and whose they are does not.
RowsKeepTheirJob ==
    \A j \in JobIds : \/ jobs'[j] = jobs[j]
                      \/ /\ SameJob(jobs'[j], jobs[j])
                         /\ jobs[j].status # "absent"

\* What a process holds between two iterations is typed.
LEMMA RestingType ==
    ASSUME NEW pc \in {"reclaim", "stopped"}
    PROVE  Resting(pc) \in WorkerState /\ GoodMemory(Resting(pc))
BY NoRowType, ExportWorkerAssumption
   DEF Resting, WorkerState, GoodMemory, Stages, Terminal

\* The initial tables, processes and files satisfy WorkerTypeInv.
LEMMA InitWorkerTypeInv == InitWorker => WorkerTypeInv
<1> SUFFICES ASSUME InitWorker PROVE WorkerTypeInv OBVIOUS
<1>1. WorkerTypeOK
  BY NoRowType, RestingType, ExportWorkerAssumption
     DEF InitWorker, WorkerTypeOK
<1>2. \A w \in Workers : GoodMemory(worker[w])
  BY RestingType DEF InitWorker
<1>3. \A j \in JobIds : NamesItsDocument(jobs[j])
  BY DEF InitWorker, NamesItsDocument, NoRow
<1> QED BY <1>1, <1>2, <1>3 DEF WorkerTypeInv

\* Rows that keep their job keep naming its document.
LEMMA NamesStep ==
    ASSUME WorkerTypeInv, RowsKeepTheirJob
    PROVE  \A j \in JobIds : NamesItsDocument(jobs[j])'
BY DEF WorkerTypeInv, RowsKeepTheirJob, NamesItsDocument, SameJob

\* A step that gives one process a good memory keeps all memories good.
LEMMA MemoryStep ==
    ASSUME WorkerTypeInv, NEW w \in Workers, NEW m \in WorkerState,
           GoodMemory(m), worker' = [worker EXCEPT ![w] = m]
    PROVE  /\ worker' \in [Workers -> WorkerState]
           /\ \A v \in Workers : GoodMemory(worker[v])'
BY DEF WorkerTypeInv, WorkerTypeOK, GoodMemory

\* The end of an iteration keeps memory and loop typed.
LEMMA EndIterationStep ==
    ASSUME WorkerTypeInv, NEW w \in Workers, NEW b \in BOOLEAN,
           EndIteration(w, b)
    PROVE  /\ worker' \in [Workers -> WorkerState]
           /\ \A v \in Workers : GoodMemory(worker[v])'
           /\ loop' \in [current : Workers, ready : BOOLEAN]
<1>1. loop' \in [current : Workers, ready : BOOLEAN]
  BY DEF EndIteration, WorkerTypeInv, WorkerTypeOK
<1>2. PICK pc \in {"reclaim", "stopped"} :
        worker' = [worker EXCEPT ![w] = Resting(pc)]
  BY DEF EndIteration
<1> QED BY <1>1, <1>2, RestingType, MemoryStep

\* The steps of an export keep WorkerTypeInv, every row's job and the documents.
LEMMA ExportKeepsWorkerTypeInv ==
    ASSUME WorkerTypeInv, NEW w \in Workers, ExportStep(w)
    PROVE  WorkerTypeInv' /\ RowsKeepTheirJob /\ UNCHANGED docs
<1> USE ExportWorkerAssumption
<1> DEFINE Typed == /\ worker' \in [Workers -> WorkerState]
                    /\ \A v \in Workers : GoodMemory(worker[v])'
                    /\ loop' \in [current : Workers, ready : BOOLEAN]
           Tabled == /\ jobs' \in [JobIds -> JobRow]
                     /\ RowsKeepTheirJob
<1> SUFFICES /\ Typed
             /\ Tabled
             /\ disk' \in SUBSET (Users \X JobIds)
             /\ UNCHANGED <<docs, mishaps>>
  BY NamesStep DEF WorkerTypeInv, WorkerTypeOK
<1>1. worker[w] \in WorkerState /\ GoodMemory(worker[w])
  BY DEF WorkerTypeInv, WorkerTypeOK
<1>2. ASSUME NEW m \in WorkerState, GoodMemory(m), UNCHANGED loop,
             worker' = [worker EXCEPT ![w] = m]
      PROVE  Typed
  BY <1>2, MemoryStep DEF WorkerTypeInv, WorkerTypeOK
<1>3. ASSUME UNCHANGED <<docs, jobs>> PROVE Tabled
  BY <1>3 DEF WorkerTypeInv, WorkerTypeOK, RowsKeepTheirJob
<1>4. ASSUME worker[w].job \in JobIds, RowOf(w).status # "absent",
             UNCHANGED docs,
             NEW r \in JobRow, SameJob(r, RowOf(w)),
             jobs' = [jobs EXCEPT ![worker[w].job] = r]
      PROVE  Tabled
  BY <1>4 DEF RowOf, WorkerTypeInv, WorkerTypeOK, RowsKeepTheirJob, SameJob
<1>5. ASSUME NEW o \in Terminal, Conclude(w, o), worker[w].job \in JobIds,
             worker[w].loaded.user \in Users, worker[w].loaded.doc \in DocIds
      PROVE  Typed
  <2> DEFINE m == [worker[w] EXCEPT !.pc = "finish", !.outcome = o]
  <2>1. m \in WorkerState /\ GoodMemory(m)
    BY <1>1, <1>5 DEF WorkerState, Stages, GoodMemory
  <2>2. worker' = [worker EXCEPT ![w] = m]
    BY <1>1, <1>5 DEF Conclude, WorkerTypeInv, WorkerTypeOK, WorkerState
  <2> QED BY <1>2, <1>5, <2>1, <2>2 DEF Conclude
<1>6. CASE LoadJob(w)
  <2>1. CASE RowOf(w).status = "absent"
    <3>1. EndIteration(w, TRUE) BY <1>6, <2>1 DEF LoadJob
    <3>2. Typed BY <3>1, EndIterationStep
    <3> QED BY <1>3, <1>6, <3>2 DEF LoadJob, WorkerTypeInv, WorkerTypeOK
  <2>2. CASE RowOf(w).status # "absent"
    <3> DEFINE m == [worker[w] EXCEPT !.pc = "prepare", !.loaded = RowOf(w)]
    <3>1. worker[w].job \in JobIds
      BY <1>1, <1>6 DEF LoadJob, GoodMemory
    <3>2. RowOf(w) \in JobRow /\ NamesItsDocument(RowOf(w))
      BY <3>1 DEF RowOf, WorkerTypeInv, WorkerTypeOK
    <3>3. m \in WorkerState /\ GoodMemory(m)
      BY <1>1, <2>2, <3>1, <3>2
         DEF WorkerState, Stages, GoodMemory, NamesItsDocument
    <3>4. worker' = [worker EXCEPT ![w] = m] /\ UNCHANGED loop
      BY <1>1, <1>6, <2>2 DEF LoadJob, WorkerTypeInv, WorkerTypeOK, WorkerState
    <3>5. Typed BY <1>2, <3>3, <3>4
    <3> QED BY <1>3, <1>6, <3>5 DEF LoadJob, WorkerTypeInv, WorkerTypeOK
  <2> QED BY <2>1, <2>2
<1>7. CASE PrepareExport(w)
  <2>1. PICK chunks \in 0 .. MaxChunks :
          IF chunks = 0
            THEN Conclude(w, "failed")
            ELSE /\ worker' = [worker EXCEPT ![w].pc = "check",
                                             ![w].todo = chunks]
                 /\ UNCHANGED loop
    BY <1>7 DEF PrepareExport
  <2>2. /\ worker[w].job \in JobIds
        /\ worker[w].loaded.user \in Users
        /\ worker[w].loaded.doc \in DocIds
    BY <1>1, <1>7 DEF PrepareExport, GoodMemory
  <2>3. Typed
    <3>1. CASE chunks = 0
      BY <1>5, <2>1, <2>2, <3>1 DEF Terminal
    <3>2. CASE chunks # 0
      <4> DEFINE m == [worker[w] EXCEPT !.pc = "check", !.todo = chunks]
      <4>1. m \in WorkerState /\ GoodMemory(m)
        BY <1>1, <2>2, <3>2 DEF WorkerState, Stages, GoodMemory
      <4>2. worker' = [worker EXCEPT ![w] = m] /\ UNCHANGED loop
        BY <1>1, <2>1, <3>2 DEF WorkerTypeInv, WorkerTypeOK, WorkerState
      <4> QED BY <1>2, <4>1, <4>2
    <3> QED BY <3>1, <3>2
  <2> QED BY <1>3, <1>7, <2>3 DEF PrepareExport, WorkerTypeInv, WorkerTypeOK
<1>8. CASE RaiseIfCancelRequested(w)
  <2>1. /\ worker[w].job \in JobIds
        /\ worker[w].loaded.user \in Users
        /\ worker[w].loaded.doc \in DocIds
        /\ worker[w].todo # 0
    BY <1>1, <1>8 DEF RaiseIfCancelRequested, GoodMemory
  <2>2. CASE RowOf(w).status \in {"absent", "cancel_requested"}
    <3>1. Conclude(w, "canceled") /\ UNCHANGED <<docs, jobs>>
      BY <1>8, <2>2 DEF RaiseIfCancelRequested
    <3>2. Typed BY <1>5, <2>1, <3>1 DEF Terminal
    <3> QED BY <1>3, <1>8, <3>1, <3>2
            DEF RaiseIfCancelRequested, WorkerTypeInv, WorkerTypeOK
  <2>3. CASE RowOf(w).status \notin {"absent", "cancel_requested"}
    <3> DEFINE m == [worker[w] EXCEPT !.pc = "synth"]
    <3>1. Heartbeat(w) /\ GoTo(w, "synth") /\ UNCHANGED docs
      BY <1>8, <2>3 DEF RaiseIfCancelRequested
    <3>2. m \in WorkerState /\ GoodMemory(m)
      BY <1>1, <2>1 DEF WorkerState, Stages, GoodMemory
    <3>3. Typed BY <1>2, <3>1, <3>2 DEF GoTo
    <3>4. SameJob(HeartbeatRow(RowOf(w)), RowOf(w))
      BY <2>1, RowOperations DEF RowOf, WorkerTypeInv, WorkerTypeOK
    <3>5. jobs' = [jobs EXCEPT ![worker[w].job] = HeartbeatRow(RowOf(w))]
      BY <3>1 DEF Heartbeat, RowOf
    <3>6. Tabled BY <1>4, <2>1, <2>3, <3>1, <3>4, <3>5 DEF SameJob
    <3> QED BY <1>8, <3>3, <3>6 DEF RaiseIfCancelRequested, WorkerTypeInv, WorkerTypeOK
  <2> QED BY <2>2, <2>3
<1>9. CASE SynthesizeChunk(w)
  <2>1. /\ worker[w].job \in JobIds
        /\ worker[w].loaded.user \in Users
        /\ worker[w].loaded.doc \in DocIds
        /\ worker[w].todo # 0
    BY <1>1, <1>9 DEF SynthesizeChunk, GoodMemory
  <2> DEFINE m == [worker[w] EXCEPT !.pc = "progress"]
  <2>2. m \in WorkerState /\ GoodMemory(m)
    BY <1>1, <2>1 DEF WorkerState, Stages, GoodMemory
  <2>3. GoTo(w, "progress") => Typed
    BY <1>2, <2>2 DEF GoTo
  <2>4. Conclude(w, "failed") => Typed
    BY <1>5, <2>1 DEF Terminal
  <2> QED BY <1>3, <1>9, <2>3, <2>4 DEF SynthesizeChunk, WorkerTypeInv, WorkerTypeOK
<1>10. CASE UpdateJobProgress(w)
  <2>1. /\ worker[w].job \in JobIds
        /\ worker[w].loaded.user \in Users
        /\ worker[w].loaded.doc \in DocIds
        /\ worker[w].todo # 0
    BY <1>1, <1>10 DEF UpdateJobProgress, GoodMemory
  <2>2. CASE RowOf(w).status = "cancel_requested"
    <3>1. Conclude(w, "canceled") /\ UNCHANGED <<docs, jobs>>
      BY <1>10, <2>2 DEF UpdateJobProgress
    <3>2. Typed BY <1>5, <2>1, <3>1 DEF Terminal
    <3> QED BY <1>3, <1>10, <3>1, <3>2 DEF UpdateJobProgress, WorkerTypeInv, WorkerTypeOK
  <2>3. CASE RowOf(w).status # "cancel_requested"
    <3>1. PICK stage \in StageAfterChunk(w, worker[w].todo - 1) :
            /\ worker' = [worker EXCEPT ![w].pc = stage,
                                        ![w].todo = worker[w].todo - 1]
            /\ UNCHANGED loop
      BY <1>10, <2>3 DEF UpdateJobProgress
    <3> DEFINE m == [worker[w] EXCEPT !.pc = stage,
                                      !.todo = worker[w].todo - 1]
    <3>2. /\ worker[w].todo \in 0 .. MaxChunks
          /\ worker[w].todo - 1 \in 0 .. MaxChunks
      BY <1>1, <2>1 DEF WorkerState
    <3>3. /\ stage \in {"check", "combine"}
          /\ stage = "check" => worker[w].todo - 1 # 0
      BY <3>1 DEF StageAfterChunk
    <3>4. m \in WorkerState /\ GoodMemory(m)
      BY <1>1, <2>1, <3>2, <3>3 DEF WorkerState, Stages, GoodMemory
    <3>5. worker' = [worker EXCEPT ![w] = m]
      BY <1>1, <3>1 DEF WorkerTypeInv, WorkerTypeOK, WorkerState
    <3>6. Typed BY <1>2, <3>1, <3>4, <3>5
    <3>7. Tabled
      <4>1. CASE RowOf(w).status = "absent"
        BY <1>3, <1>10, <2>3, <4>1 DEF UpdateJobProgress
      <4>2. CASE RowOf(w).status # "absent"
        <5>1. SameJob(HeartbeatRow(RowOf(w)), RowOf(w))
          BY <2>1, RowOperations DEF RowOf, WorkerTypeInv, WorkerTypeOK
        <5>2. jobs' = [jobs EXCEPT ![worker[w].job] = HeartbeatRow(RowOf(w))]
          BY <1>10, <2>3, <4>2 DEF UpdateJobProgress, Heartbeat, RowOf
        <5>3. UNCHANGED docs
          BY <1>10 DEF UpdateJobProgress
        <5> QED BY <1>4, <2>1, <4>2, <5>1, <5>2, <5>3 DEF SameJob
      <4> QED BY <4>1, <4>2
    <3> QED BY <1>10, <3>6, <3>7 DEF UpdateJobProgress, WorkerTypeInv, WorkerTypeOK
  <2> QED BY <2>2, <2>3
<1>11. CASE WriteCombinedWav(w)
  <2>1. /\ worker[w].job \in JobIds
        /\ worker[w].loaded.user \in Users
        /\ worker[w].loaded.doc \in DocIds
    BY <1>1, <1>11 DEF WriteCombinedWav, GoodMemory
  <2>2. disk' \in SUBSET (Users \X JobIds)
    BY <1>11, <2>1 DEF WriteCombinedWav, ExportDir, WorkerTypeInv, WorkerTypeOK
  <2>3. Typed
    <3>1. CASE Conclude(w, "completed") \/ Conclude(w, "failed")
      BY <1>5, <2>1, <3>1 DEF Terminal
    <3>2. CASE worker[w].todo # 0 /\ GoTo(w, "check")
      <4> DEFINE m == [worker[w] EXCEPT !.pc = "check"]
      <4>1. m \in WorkerState /\ GoodMemory(m)
        BY <1>1, <2>1, <3>2 DEF WorkerState, Stages, GoodMemory
      <4> QED BY <1>2, <3>2, <4>1 DEF GoTo
    <3> QED BY <1>11, <3>1, <3>2 DEF WriteCombinedWav
  <2> QED BY <1>3, <1>11, <2>2, <2>3 DEF WriteCombinedWav, WorkerTypeInv, WorkerTypeOK
<1>12. CASE FinishExport(w)
  <2>1. worker[w].job \in JobIds
    BY <1>1, <1>12 DEF FinishExport, GoodMemory
  <2>2. Typed
    <3>1. PICK b \in BOOLEAN : EndIteration(w, b)
      BY <1>12 DEF FinishExport
    <3> QED BY <3>1, EndIterationStep
  <2>3. Tabled
    <3>1. CASE RowOf(w).status = "absent"
      BY <1>3, <1>12, <3>1 DEF FinishExport
    <3>2. CASE RowOf(w).status # "absent"
      <4>1. RowOf(w) \in JobRow /\ worker[w].loaded \in JobRow
        BY <1>1, <2>1 DEF RowOf, WorkerTypeInv, WorkerTypeOK, WorkerState
      <4>2. FinalRow(w) \in JobRow /\ FinalRow(w).status # "absent"
        <5>1. PICK o \in Terminal : FinalRow(w) = OutcomeRow(worker[w].loaded, o)
          BY <1>1 DEF FinalRow, WorkerState, Terminal
        <5> QED BY <4>1, <5>1, OutcomeRowType DEF Terminal
      <4>3. SameJob(OrmFlush(RowOf(w), worker[w].loaded, FinalRow(w)), RowOf(w))
        BY <4>1, <4>2, OrmFlushRow
      <4>4. jobs' = [jobs EXCEPT ![worker[w].job] =
                       OrmFlush(RowOf(w), worker[w].loaded, FinalRow(w))]
        BY <1>12, <3>2 DEF FinishExport, RowOf
      <4>5. UNCHANGED docs BY <1>12 DEF FinishExport
      <4> QED BY <1>4, <2>1, <3>2, <4>3, <4>4, <4>5 DEF SameJob
    <3> QED BY <3>1, <3>2
  <2> QED BY <1>12, <2>2, <2>3 DEF FinishExport, WorkerTypeInv, WorkerTypeOK
<1> QED BY <1>6, <1>7, <1>8, <1>9, <1>10, <1>11, <1>12 DEF ExportStep

=============================================================================
