---------------------------- MODULE MCExportRaces ----------------------------
(***************************************************************************)
(* ExportRaces for TLC: the instances, and what cancel_job says of jobs that *)
(* have ended.                                                             *)
(***************************************************************************)
EXTENDS ExportRaces

CONSTANTS u1, w1, c1, c2

OneUser    == {u1}
OneWorker  == {w1}
OneClient  == {c1}
TwoClients == {c1, c2}
WholeBook  == {FALSE}

\* A job that has completed is not canceled: cancel_job refuses with "cannot
\* be canceled from status 'completed'".  It decides on the status it read.
CompletedJobsAreNotCanceled ==
    [][\A j \in JobIds : jobs[j].status = "completed" =>
          jobs'[j].status \notin {"cancel_requested", "canceled"}]_racesVars
=============================================================================
