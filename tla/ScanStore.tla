----------------------------- MODULE ScanStore -----------------------------
(***************************************************************************)
(* The PostgreSQL rows of one scan, and the statements of                  *)
(* src/orchestrator/db/db.go that read and write them.  No statement runs  *)
(* in a transaction with another: each operator below is one atomic step   *)
(* and a handler is a sequence of them.                                    *)
(***************************************************************************)
EXTENDS Integers

CONSTANT Job           \* the identities of the rows of the jobs table

VARIABLES
  scan,       \* the scan's row: status and the three progress columns
  job,        \* the rows of the jobs table; "absent" before the INSERT
  failures    \* the rows of failure_log: which job, after how many attempts

storeVars == <<scan, job, failures>>

ScanStatus == {"pending", "running", "completed", "failed", "cancelled"}

(* JobRunning is declared in models.go and written by nobody.              *)
JobStatus == {"absent", "queued", "retrying", "completed", "failed"}
Terminal == {"completed", "failed"}

ScanRow == [status : ScanStatus, total : Nat, completed : Nat, failed : Nat]
JobRow == [status : JobStatus, attempt : Nat]
FailureRow == [job : Job, attempts : Nat]

StoreTypeOK ==
  /\ scan \in ScanRow
  /\ job \in [Job -> JobRow]
  /\ failures \in SUBSET FailureRow

(* CreateScan's INSERT leaves status and progress to the column defaults.  *)
StoreInit ==
  /\ scan = [status |-> "pending", total |-> 0, completed |-> 0, failed |-> 0]
  /\ job = [j \in Job |-> [status |-> "absent", attempt |-> 0]]
  /\ failures = {}
-----------------------------------------------------------------------------
UpdateScanStatus(status) == scan' = [scan EXCEPT !.status = status]

UpdateScanProgress(total, completed, failed) ==
  scan' = [scan EXCEPT !.total = total, !.completed = completed, !.failed = failed]

(* One INSERT per job; nobody can know a row's id before the loop ends.    *)
CreateJobs(new) ==
  job' = [j \in Job |-> IF j \in new THEN [status |-> "queued", attempt |-> 1]
                                     ELSE job[j]]

UpdateJobStatus(j, status) == job' = [job EXCEPT ![j].status = status]

(* A defective IncrementJobAttempt that writes a status no reader expects. *)
IncrementJobAttemptRuns(j) ==
  job' = [job EXCEPT ![j] = [status |-> "running", attempt |-> @.attempt + 1]]

(* A defective IncrementJobAttempt that only changes the status.           *)
IncrementJobAttemptForgets(j) == job' = [job EXCEPT ![j].status = "retrying"]

IncrementJobAttempt(j) ==
  job' = [job EXCEPT ![j] = [status |-> "retrying", attempt |-> @.attempt + 1]]

CreateFailureLog(j, attempts) ==
  failures' = failures \cup {[job |-> j, attempts |-> attempts]}
=============================================================================
