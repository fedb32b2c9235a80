---------------------------- MODULE MCExportQueue ----------------------------
(***************************************************************************)
(* ExportQueue for TLC: the instances, and two statements about the queue   *)
(* that the repository makes and the code does not keep.                   *)
(***************************************************************************)
EXTENDS ExportQueue

CONSTANTS u1, w1, w2

OneUser    == {u1}
OneWorker  == {w1}
TwoWorkers == {w1, w2}

\* No user has more active exports than the configured limit
\* (docs/configuration.md: "The application also limits [...] active export
\* jobs").  retry_job queues a job without counting.
ActiveExportsWithinLimit ==
    \A u \in Users : Cardinality(ActiveJobsOf(u)) <= MaxActiveExports

\* A completed job carries no failure (tests/test_worker_runner.py asserts it
\* of every completed export).  An export that was reclaimed while it was still
\* running completes with the failure of the reclaim.
CompletedHasNoFailure ==
    \A j \in JobIds : jobs[j].status = "completed" => jobs[j].failure = "none"
=============================================================================
