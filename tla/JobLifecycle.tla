---------------------------- MODULE JobLifecycle ----------------------------
(***************************************************************************)
(* What the export queue promises to a client that polls /api/jobs: the     *)
(* life of each job, the document it was asked for and the audio offered    *)
(* for download.  No worker, no heartbeat, no file appears here.           *)
(***************************************************************************)
CONSTANTS JobIds, DocIds

VARIABLE job   \* job id -> what the client sees of it

NoDoc == 0

Status == {"absent", "queued", "processing", "cancel_requested",
           "completed", "failed", "canceled"}

\* "audio" is the document whose rendering is offered, NoDoc when none is.
View == [status : Status, doc : DocIds \cup {NoDoc}, audio : DocIds \cup {NoDoc}]

NoJob == [status |-> "absent", doc |-> NoDoc, audio |-> NoDoc]

Submitted(before, after) ==
    /\ before = NoJob
    /\ after.status = "queued"
    /\ after.audio = NoDoc

Discarded(before, after) ==
    /\ before.status \in {"completed", "failed", "canceled"}
    /\ after = NoJob

\* A cancellation may come too late: an export that was already being written
\* out still completes.
Moves == {<<"queued", "processing">>, <<"queued", "canceled">>,
          <<"processing", "cancel_requested">>,
          <<"processing", "completed">>, <<"processing", "failed">>,
          <<"cancel_requested", "canceled">>,
          <<"cancel_requested", "completed">>,
          <<"cancel_requested", "failed">>}

Moved(before, after) ==
    /\ <<before.status, after.status>> \in Moves
    /\ after.doc = before.doc
    /\ after.audio = IF after.status = "completed" THEN after.doc ELSE NoDoc

\* Reclaiming and deleting a document change several jobs in one step.
Next ==
    /\ job' \in [JobIds -> View]
    /\ \A j \in JobIds :
         \/ job'[j] = job[j]
         \/ Submitted(job[j], job'[j])
         \/ Moved(job[j], job'[j])
         \/ Discarded(job[j], job'[j])

Init == job = [j \in JobIds |-> NoJob]

Spec == Init /\ [][Next]_job
=============================================================================
