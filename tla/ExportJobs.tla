----------------------------- MODULE ExportJobs -----------------------------
(***************************************************************************)
(* The rows of the table "jobs" and what each operation of                 *)
(* services/jobs.py and worker/jobs.py makes of one row.  A row keeps the   *)
(* columns the export queue decides on; names, voices, percentages and      *)
(* messages are left out.                                                  *)
(***************************************************************************)
EXTENDS Naturals, FiniteSets

CONSTANTS
    Users,             \* the accounts that own documents and jobs
    NoUser,            \* the owner of a row that does not exist
    MaxDocs,           \* bound: document ids 1..MaxDocs
    MaxJobs,           \* bound: job ids 1..MaxJobs
    MaxActiveExports   \* settings.user_max_active_export_jobs

ASSUME ExportJobsAssumption ==
    /\ NoUser \notin Users
    /\ MaxDocs \in Nat
    /\ MaxJobs \in Nat
    /\ MaxActiveExports \in Nat

DocIds == 1 .. MaxDocs
JobIds == 1 .. MaxJobs

Retryable        == {"failed", "canceled"}
\* Mutants of the three sets of statuses that guard the handlers.
CancellableOnceFailed       == {"queued", "processing", "failed"}
ReclaimableWhileProcessing  == {"processing"}
ActiveUnlessCancelRequested == {"queued", "processing"}

Cancellable      == {"queued", "processing"}
StaleReclaimable == {"processing", "cancel_requested"}
ActiveExport     == {"queued", "processing", "cancel_requested"}
Terminal         == {"completed", "failed", "canceled"}

\* An artifact names the export directory it lies in (by its user; the job is
\* the row's own id) and the document whose text was rendered into it.
Artifact   == [user : Users \cup {NoUser}, doc : DocIds \cup {0}]
NoArtifact == [user |-> NoUser, doc |-> 0]

\* "fresh" says that heartbeat_at lies within worker_stale_job_minutes; a
\* heartbeat that was never written is not fresh.
JobRow == [status   : ActiveExport \cup Terminal \cup {"absent"},
           user     : Users \cup {NoUser},
           doc      : DocIds \cup {0},
           split    : BOOLEAN,
           fresh    : BOOLEAN,
           failure  : {"none", "stale", "error"},
           artifact : Artifact]

NoRow == [status |-> "absent", user |-> NoUser, doc |-> 0, split |-> FALSE,
          fresh |-> FALSE, failure |-> "none", artifact |-> NoArtifact]

QueuedRow(u, d, s) ==
    [status |-> "queued", user |-> u, doc |-> d, split |-> s,
     fresh |-> FALSE, failure |-> "none", artifact |-> NoArtifact]

ClaimedRow(r) == [r EXCEPT !.status = "processing", !.fresh = TRUE]

CancelledRow(r) ==
    [r EXCEPT !.status = IF r.status = "queued" THEN "canceled"
                                                ELSE "cancel_requested"]

RetriedRow(r) == QueuedRow(r.user, r.doc, r.split)

\* Only the worker's last heartbeat decides: nobody asks whether it is alive.
IsStale(r) == r.status \in StaleReclaimable /\ ~r.fresh

ReclaimedRow(r) ==
    [r EXCEPT !.status   = IF r.status = "cancel_requested" THEN "canceled"
                                                            ELSE "failed",
              !.failure  = IF r.status = "cancel_requested" THEN "none"
                                                            ELSE "stale",
              !.artifact = NoArtifact]

HeartbeatRow(r) == [r EXCEPT !.fresh = TRUE]

\* Mutant: a failed export does not say why.
OutcomeRowWithoutDetail(r, outcome) ==
    [r EXCEPT !.status   = outcome,
              !.artifact = IF outcome = "completed"
                             THEN [user |-> r.user, doc |-> r.doc]
                             ELSE NoArtifact]

\* The row the worker's last transaction leaves, by the outcome of the export.
OutcomeRow(r, outcome) ==
    [r EXCEPT !.status   = outcome,
              !.failure  = IF outcome = "failed" THEN "error" ELSE "none",
              !.artifact = IF outcome = "completed"
                             THEN [user |-> r.user, doc |-> r.doc]
                             ELSE NoArtifact]

(***************************************************************************)
(* SQLAlchemy writes the columns whose value differs from the one it        *)
(* loaded, so an UPDATE computed from an old snapshot keeps what others     *)
(* wrote to the other columns since.                                       *)
(***************************************************************************)
Flushed(stored, loaded, new) == IF new = loaded THEN stored ELSE new

OrmFlush(row, loaded, new) ==
    [row EXCEPT
        !.status   = Flushed(row.status, loaded.status, new.status),
        !.fresh    = Flushed(row.fresh, loaded.fresh, new.fresh),
        !.failure  = Flushed(row.failure, loaded.failure, new.failure),
        !.artifact = Flushed(row.artifact, loaded.artifact, new.artifact)]

(***************************************************************************)
(* An INTEGER PRIMARY KEY of SQLite is one more than the largest in use, so *)
(* the id of a deleted last row is given out again.                        *)
(***************************************************************************)
IsNextId(id, ids) ==
    /\ \A k \in ids : k < id
    /\ id = 1 \/ id - 1 \in ids
=============================================================================
