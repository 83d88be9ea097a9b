------------------------------ MODULE JobsTable ------------------------------
(***************************************************************************)
(* One row of the PostgreSQL jobs table and the row-level effect of every  *)
(* statement that internal/store/store.go sends.  A row is a record; each  *)
(* UPDATE is an operator from the row it finds to the row it leaves.       *)
(*                                                                         *)
(* Data is abstracted to what the job lifecycle tells apart.  "none" is    *)
(* SQL NULL.  http_status and duration_ms are written exactly when result  *)
(* is, so `result' stands for the three columns: "full" is the result of   *)
(* a scrape that returned no error, "partial" the status-and-duration stub *)
(* kept from a failed one.  `completedAt' says whether completed_at is     *)
(* set.  created_at, updated_at, url, extract and options never change     *)
(* what a later statement does and are left out.                           *)
(***************************************************************************)
EXTENDS Integers

\* The JobStatus constants; "absent" is an id for which no row exists.
Terminal  == {"completed", "failed"}
RowStatus == {"queued", "processing"} \cup Terminal
Status    == RowStatus \cup {"absent"}

ResultVal == {"none", "partial", "full"}
ErrorVal  == {"none", "cancelled", "failure"}

Row == [status : Status, result : ResultVal, error : ErrorVal,
        retries : {0, 1}, completedAt : BOOLEAN]

NoRow == [status |-> "absent", result |-> "none", error |-> "none",
          retries |-> 0, completedAt |-> FALSE]

\* CreateJob: INSERT with status "queued", every other column at its default.
InsertRow == [NoRow EXCEPT !.status = "queued"]

\* Mutants: a claim by id alone, and one that takes over a stuck job.
ClaimableById(row)  == row.status # "absent"
ClaimableStuck(row) == row.status \in {"queued", "processing"}

\* ClaimJob: the UPDATE applies only WHERE status = 'queued'.
Claimable(row) == row.status = "queued"
ClaimRow(row)  == [row EXCEPT !.status = "processing"]

\* Mutants: a cancellation of running jobs, and one of any job.
CancellableUnfinished(row) == row.status \in {"queued", "processing"}
CancellableAny(row)        == row.status # "absent"

\* CancelJob: the UPDATE applies only WHERE status = 'queued'; it sets
\* status and error_msg and leaves completed_at alone.
Cancellable(row) == row.status = "queued"
CancelRow(row)   == [row EXCEPT !.status = "failed", !.error = "cancelled"]

\* CASE WHEN $n IS NOT NULL THEN $n ELSE column END
Coalesce(new, old) == IF new # "none" THEN new ELSE old

\* Mutant: completed_at only for a completed job.
UpdateRowStampsSuccess(row, status, result, error, retriesUsed) ==
    [status      |-> status,
     result      |-> Coalesce(result, row.result),
     error       |-> Coalesce(error, row.error),
     retries     |-> IF status \in Terminal THEN retriesUsed ELSE row.retries,
     completedAt |-> row.completedAt \/ status = "completed"]

\* UpdateJob: unconditional on the status it finds; only non-NULL arguments
\* overwrite a column.  retries_used and completed_at are passed only with a
\* terminal status.
UpdateRow(row, status, result, error, retriesUsed) ==
    [status      |-> status,
     result      |-> Coalesce(result, row.result),
     error       |-> Coalesce(error, row.error),
     retries     |-> IF status \in Terminal THEN retriesUsed ELSE row.retries,
     completedAt |-> row.completedAt \/ status \in Terminal]

-----------------------------------------------------------------------------
(***************************************************************************)
(* What a row answers.  jobToResponse shows the result only of a completed *)
(* job and the error only of a failed one.                                 *)
(***************************************************************************)
PollReply(row) ==
    [status  |-> row.status,
     results |-> IF row.status = "completed" THEN row.result ELSE "none",
     error   |-> IF row.status = "failed" THEN row.error ELSE "none"]

=============================================================================
