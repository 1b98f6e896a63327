--------------------------- MODULE ScanLifecycle ---------------------------
(***************************************************************************)
(* One scan, from the requests that start it to the report of its last     *)
(* job.  The processes are                                                 *)
(*                                                                         *)
(*   start requests    POST /scans/{id}/start: the handler StartScan with  *)
(*                     the scheduler's BuildPlan, and the goroutine that   *)
(*                     dispatches the plan;                                *)
(*   cancel requests   POST /scans/{id}/cancel;                            *)
(*   the retry sweep   the scheduler's ticker;                             *)
(*   workers           the polling loop of src/worker/main.go;             *)
(*   callbacks         WorkerCallback with the scheduler's HandleRetry,    *)
(*                     one handler per POST /internal/results.             *)
(*                                                                         *)
(* They share the PostgreSQL rows (ScanStore) and the Redis keys           *)
(* (JobQueue), and hold no common lock: every statement and every command  *)
(* is a step of its own, and a pc names the step its process takes next.   *)
(***************************************************************************)
EXTENDS Integers, Sequences, FiniteSets

CONSTANTS
  Start,        \* the start requests that will be made
  Task,         \* the module x target pairs of the scan's configuration
  Cancel,       \* the cancel requests that will be made
  Worker,       \* the worker processes
  Call,         \* slots for callback handlers: a bound on concurrent ones
  MaxAttempts,  \* scans.max_retries, copied to jobs.max_attempts
  Faults,       \* the kinds of fault that may strike
  MaxFaults     \* how many faults may strike: a bound of the model

FaultKind == {
  "db",            \* a PostgreSQL statement fails
  "redis",         \* a Redis command fails
  "client",        \* the user's connection drops: its request context ends
  "deadline",      \* the two minutes of the dispatch goroutine run out
  "post",          \* a worker's POST does not reach the orchestrator
  "timeout",       \* a worker's POST is received and its answer is not
  "worker",        \* a worker process stops; its container is restarted
  "panic",         \* a viewer of the scan leaves in the middle of a broadcast
  "orchestrator",  \* the orchestrator stops; its container is restarted
  "lapse"}         \* a start outlasts the five minutes of the scan's key

ASSUME ConstantsAssumption ==
  /\ IsFiniteSet(Task)
  /\ Task # {}
  /\ MaxAttempts \in Nat \ {0}   \* CreateScan turns a value <= 0 into 3
  /\ Faults \subseteq FaultKind
  /\ MaxFaults \in Nat

(* BuildPlan inserts new rows for every start: a job is a task of a start. *)
Job == Start \X Task

VARIABLES
  scan, job, failures,           \* see ScanStore
  queue, retry, active, lock,    \* see JobQueue
  start,    \* start[s]: next step of the request, and the jobs its loop has left
  cancel,   \* cancel[c]: next step of the request
  worker,   \* worker[w]: next step, the payload it took, the outcome it reports
  call,     \* call[c]: next step of the handler and its local variables
  faults,   \* how many faults have struck, lapses aside
  struck,   \* which kinds of fault have: a history variable the properties use
  lapsed    \* how often the scan's key lapsed under a start: another one

db == <<scan, job, failures>>
redis == <<queue, retry, active, lock>>
faultVars == <<faults, struck, lapsed>>
vars == <<scan, job, failures, queue, retry, active, lock,
          start, cancel, worker, call, faults, struck, lapsed>>

DB == INSTANCE ScanStore
Redis == INSTANCE JobQueue

Outcome == {"completed", "failed"}

StartPC == {"new", "lock", "plan", "unlock", "mark", "progress", "enqueue",
            "count", "fail", "release", "done", "rejected"}
CancelPC == {"new", "write", "done"}
DecidingPC == {"outcome", "log", "increment", "requeue", "fail"}
CountingPC == {"decr", "read", "write"}
ClosingPC == {"finish", "reply"}

Polling == [pc |-> "polling"]
Free == [pc |-> "free"]

StartState == [pc : StartPC, left : SUBSET Task]

(* A worker with a job: what it runs, what it will report, and whether the *)
(* report is posted for the first or the second time.                      *)
BusyState ==
  [pc : {"running", "posting", "waiting"}, job : Job, attempt : Nat,
   outcome : Outcome, posts : {1, 2}]
WorkerState == {Polling} \cup BusyState

(* A handler's local variables that are still to be used, and whether its  *)
(* worker is attached: still waits for its answer.  A handler first deals  *)
(* with the outcome, where attempt is HandleRetry's job.Attempt; then with *)
(* the counters, where remaining is what DECR returned and the rest is the *)
(* scan's row as it was read; then it closes.                              *)
DecidingState ==
  [pc : DecidingPC, worker : Worker, attached : BOOLEAN,
   job : Job, status : Outcome, attempt : Nat]
CountingState ==
  [pc : CountingPC, worker : Worker, attached : BOOLEAN,
   status : Outcome, remaining : Int, completed : Nat, failed : Nat, total : Nat]
ClosingState == [pc : ClosingPC, worker : Worker, attached : BOOLEAN]
CallState == {Free} \cup DecidingState \cup CountingState \cup ClosingState

TypeOK ==
  /\ DB!StoreTypeOK
  /\ Redis!QueueTypeOK
  /\ start \in [Start -> StartState]
  /\ cancel \in [Cancel -> CancelPC]
  /\ worker \in [Worker -> WorkerState]
  /\ call \in [Call -> CallState]
  /\ faults \in 0..MaxFaults
  /\ struck \in SUBSET Faults
  /\ lapsed \in 0..MaxFaults

Init ==
  /\ DB!StoreInit
  /\ Redis!QueueInit
  /\ start = [s \in Start |-> [pc |-> "new", left |-> {}]]
  /\ cancel = [c \in Cancel |-> "new"]
  /\ worker = [w \in Worker |-> Polling]
  /\ call = [c \in Call |-> Free]
  /\ faults = 0
  /\ struck = {}
  /\ lapsed = 0

Strike(kind) ==
  /\ kind \in Faults
  /\ faults + lapsed < MaxFaults
  /\ faults' = faults + 1
  /\ struck' = struck \cup {kind}
  /\ UNCHANGED lapsed
-----------------------------------------------------------------------------
(* Start requests.                                                         *)

Goto(s, pc) == start' = [start EXCEPT ![s].pc = pc]
GotoWith(s, pc, left) == start' = [start EXCEPT ![s] = [pc |-> pc, left |-> left]]

(* The status is read once, before the lock is taken.                      *)
StartRead(s) ==
  /\ start[s].pc = "new"
  /\ \/ /\ Goto(s, IF scan.status \in {"running", "completed"} THEN "rejected" ELSE "lock")
        /\ UNCHANGED faultVars
     \/ /\ Strike("db")
        /\ Goto(s, "rejected")
  /\ UNCHANGED <<db, redis, cancel, worker, call>>

StartLock(s) ==
  /\ start[s].pc = "lock"
  /\ Redis!SetScanLock
  /\ Goto(s, "plan")
  /\ UNCHANGED <<db, queue, retry, active, cancel, worker, call, faultVars>>

(* SETNX finds the key, or fails: both are a 409.                          *)
StartLockRefused(s) ==
  /\ start[s].pc = "lock"
  /\ \/ lock /\ UNCHANGED faultVars
     \/ Strike("redis")
  /\ Goto(s, "rejected")
  /\ UNCHANGED <<db, redis, cancel, worker, call>>

BuildPlan(s) ==
  /\ start[s].pc = "plan"
  /\ DB!CreateJobs({s} \X Task)
  /\ Goto(s, "mark")
  /\ UNCHANGED <<scan, failures, redis, cancel, worker, call, faultVars>>

(* An INSERT fails: the rows before it stay, and the lock is released.     *)
BuildPlanFails(s) ==
  /\ start[s].pc = "plan"
  /\ Strike("db")
  /\ \E made \in (SUBSET Task) \ {Task} : DB!CreateJobs({s} \X made)
  /\ Goto(s, "unlock")
  /\ UNCHANGED <<scan, failures, redis, cancel, worker, call>>

(* The error of ReleaseScanLock is ignored.                                *)
StartUnlock(s) ==
  /\ start[s].pc = "unlock"
  /\ \/ /\ Redis!ReleaseScanLock
        /\ UNCHANGED faultVars
     \/ /\ Strike("redis")
        /\ UNCHANGED lock
  /\ Goto(s, "rejected")
  /\ UNCHANGED <<db, queue, retry, active, cancel, worker, call>>

StartMark(s) ==
  /\ start[s].pc = "mark"
  /\ DB!UpdateScanStatus("running")
  /\ Goto(s, "progress")
  /\ UNCHANGED <<job, failures, redis, cancel, worker, call, faultVars>>

(* The handler returns a 500 and keeps the lock until it expires.          *)
StartMarkFails(s) ==
  /\ start[s].pc = "mark"
  /\ Strike("db")
  /\ Goto(s, "rejected")
  /\ UNCHANGED <<db, redis, cancel, worker, call>>

(* UpdateScanProgress(total, 0, 0); its failure is only logged.  Then the  *)
(* dispatch goroutine is started and the request is answered.              *)
StartProgress(s) ==
  /\ start[s].pc = "progress"
  /\ \/ /\ DB!UpdateScanProgress(Cardinality(Task), 0, 0)
        /\ UNCHANGED faultVars
     \/ /\ Strike("db")
        /\ UNCHANGED scan
  /\ GotoWith(s, "enqueue", Task)
  /\ UNCHANGED <<job, failures, redis, cancel, worker, call>>

(* The user's connection drops: every later call on the request's context  *)
(* fails, the release of the lock included.  Past "mark" only a warning is *)
(* left, and the goroutine has a context of its own.  BuildPlan's loop may *)
(* have inserted some of its rows.                                         *)
StartClientGone(s) ==
  /\ start[s].pc \in {"lock", "plan", "unlock", "mark", "progress"}
  /\ Strike("client")
  /\ IF start[s].pc = "progress" THEN GotoWith(s, "enqueue", Task)
                                 ELSE Goto(s, "rejected")
  /\ IF start[s].pc = "plan"
     THEN \E made \in (SUBSET Task) \ {Task} : DB!CreateJobs({s} \X made)
     ELSE UNCHANGED job
  /\ UNCHANGED <<scan, failures, redis, cancel, worker, call>>

(* EnqueueJobs: one LPUSH of the pipeline.                                 *)
DispatchEnqueue(s) ==
  /\ start[s].pc = "enqueue"
  /\ \E t \in start[s].left :
       LET left == start[s].left \ {t} IN
       /\ Redis!EnqueueJob([job |-> <<s, t>>, attempt |-> 1])
       /\ IF left = {} THEN GotoWith(s, "count", Task)
                       ELSE GotoWith(s, "enqueue", left)
  /\ UNCHANGED <<db, retry, active, lock, cancel, worker, call, faultVars>>

(* The pipeline fails after some of its commands ran.                      *)
DispatchFails(s) ==
  /\ start[s].pc = "enqueue"
  /\ Strike("redis")
  /\ GotoWith(s, "fail", {})
  /\ UNCHANGED <<db, redis, cancel, worker, call>>

DispatchMarkFailed(s) ==
  /\ start[s].pc = "fail"
  /\ \/ /\ DB!UpdateScanStatus("failed")
        /\ UNCHANGED faultVars
     \/ /\ Strike("db")
        /\ UNCHANGED scan
  /\ Goto(s, "release")
  /\ UNCHANGED <<job, failures, redis, cancel, worker, call>>

(* One INCR per job, after all of them are in the queue; a failed one is   *)
(* only logged.                                                            *)
DispatchCount(s) ==
  /\ start[s].pc = "count"
  /\ \/ /\ Redis!IncrActiveScanJobs
        /\ UNCHANGED faultVars
     \/ /\ Strike("redis")
        /\ UNCHANGED active
  /\ \E t \in start[s].left :
       LET left == start[s].left \ {t} IN
       GotoWith(s, IF left = {} THEN "release" ELSE "count", left)
  /\ UNCHANGED <<db, queue, retry, lock, cancel, worker, call>>

(* The goroutine's deferred ReleaseScanLock, whose error is ignored.       *)
DispatchRelease(s) ==
  /\ start[s].pc = "release"
  /\ \/ /\ Redis!ReleaseScanLock
        /\ UNCHANGED faultVars
     \/ /\ Strike("redis")
        /\ UNCHANGED lock
  /\ Goto(s, "done")
  /\ UNCHANGED <<db, queue, retry, active, cancel, worker, call>>

(* The goroutine's context ends: what it has left to do fails, and that    *)
(* includes marking the scan failed and releasing the lock.                *)
DispatchDeadline(s) ==
  /\ start[s].pc \in {"enqueue", "count", "fail", "release"}
  /\ Strike("deadline")
  /\ GotoWith(s, "done", {})
  /\ UNCHANGED <<db, redis, cancel, worker, call>>

(* Where a start request takes the lock for its own.                       *)
InSection(s) ==
  start[s].pc \in {"plan", "unlock", "mark", "progress", "enqueue", "count",
                   "fail", "release"}

(* The key's five minutes run out, whatever runs: BuildPlan's loop of      *)
(* INSERTs is on a context without a deadline, so a slow one outlasts the  *)
(* key.  It lapses then: a second start may take it, and the first gives   *)
(* up a key that is no longer its own, since DEL names no owner.           *)
LockExpires ==
  /\ lock
  /\ Redis!ReleaseScanLock
  /\ IF \E s \in Start : InSection(s)
     THEN /\ "lapse" \in Faults
          /\ faults + lapsed < MaxFaults
          /\ lapsed' = lapsed + 1
     ELSE UNCHANGED lapsed
  /\ UNCHANGED <<db, queue, retry, active, start, cancel, worker, call, faults, struck>>
-----------------------------------------------------------------------------
(* Cancel requests.                                                        *)

CancelRead(c) ==
  /\ cancel[c] = "new"
  /\ cancel' = [cancel EXCEPT ![c] = IF scan.status = "running" THEN "write" ELSE "done"]
  /\ UNCHANGED <<db, redis, start, worker, call, faultVars>>

CancelWrite(c) ==
  /\ cancel[c] = "write"
  /\ \/ /\ DB!UpdateScanStatus("cancelled")
        /\ UNCHANGED faultVars
     \/ /\ Strike("db")
        /\ UNCHANGED scan
  /\ cancel' = [cancel EXCEPT ![c] = "done"]
  /\ UNCHANGED <<job, failures, redis, start, worker, call>>

(* The retry sweep.                                                        *)
RetrySweep ==
  /\ \E p \in retry : Redis!ProcessRetry(p)
  /\ UNCHANGED <<db, active, lock, start, cancel, worker, call, faultVars>>

(* The pipeline of a due payload loses its LPUSH after the ZREM ran.       *)
RetrySweepFails ==
  /\ Strike("redis")
  /\ \E p \in retry : retry' = retry \ {p}
  /\ UNCHANGED <<db, queue, active, lock, start, cancel, worker, call>>
-----------------------------------------------------------------------------
(* Workers.                                                                *)

WorkerPop(w) ==
  /\ worker[w].pc = "polling"
  /\ Redis!PopJob
  /\ worker' = [worker EXCEPT ![w] =
       [pc |-> "running", job |-> Head(queue).job, attempt |-> Head(queue).attempt,
        outcome |-> "completed", posts |-> 1]]
  /\ UNCHANGED <<db, retry, active, lock, start, cancel, call, faultVars>>

(* executeJob: the module returns findings, or an error.                   *)
WorkerExecute(w) ==
  /\ worker[w].pc = "running"
  /\ \E outcome \in Outcome :
       worker' = [worker EXCEPT ![w].pc = "posting", ![w].outcome = outcome]
  /\ UNCHANGED <<db, redis, start, cancel, call, faultVars>>

(* The POST arrives and a handler starts.                                  *)
WorkerPost(w) ==
  /\ worker[w].pc = "posting"
  /\ \E c \in Call :
       /\ call[c] = Free
       /\ call' = [call EXCEPT ![c] =
            [pc |-> "outcome", worker |-> w, attached |-> TRUE,
             job |-> worker[w].job, status |-> worker[w].outcome, attempt |-> 0]]
  /\ worker' = [worker EXCEPT ![w].pc = "waiting"]
  /\ UNCHANGED <<db, redis, start, cancel, faultVars>>

(* A defective worker that takes the next job after one failed POST.       *)
AfterFailedPostGivesUp(state) == Polling

(* What a worker does about a POST that returned an error: it posts once   *)
(* more, as a failure; after that it takes the next job.                   *)
AfterFailedPost(state) ==
  IF state.posts = 1
  THEN [state EXCEPT !.pc = "posting", !.outcome = "failed", !.posts = 2]
  ELSE Polling

WorkerPostLost(w) ==
  /\ worker[w].pc = "posting"
  /\ Strike("post")
  /\ worker' = [worker EXCEPT ![w] = AfterFailedPost(@)]
  /\ UNCHANGED <<db, redis, start, cancel, call>>

(* The handlers of `lost` workers lose their client: net/http ends their   *)
(* request context.                                                        *)
Detach(lost) ==
  call' = [c \in Call |->
             IF call[c] # Free /\ call[c].worker \in lost
             THEN [call[c] EXCEPT !.attached = FALSE]
             ELSE call[c]]

WorkerPostTimeout(w) ==
  /\ worker[w].pc = "waiting"
  /\ Strike("timeout")
  /\ worker' = [worker EXCEPT ![w] = AfterFailedPost(@)]
  /\ Detach({w})
  /\ UNCHANGED <<db, redis, start, cancel>>

(* SIGTERM or a crash: a job in hand is neither reported nor re-queued,    *)
(* since the posts use the context that the signal ends.                   *)
WorkerStop(w) ==
  /\ worker[w].pc # "polling"
  /\ Strike("worker")
  /\ worker' = [worker EXCEPT ![w] = Polling]
  /\ Detach({w})
  /\ UNCHANGED <<db, redis, start, cancel>>
-----------------------------------------------------------------------------
(* Callback handlers.                                                      *)

At(c, pc) == call[c].pc = pc
Move(c, pc) == call' = [call EXCEPT ![c].pc = pc]

(* HandleRetry returned false.                                             *)
MoveToFail(c) == call' = [call EXCEPT ![c].pc = "fail", ![c].attempt = 0]

(* The outcome is dealt with; the counter is next.                         *)
MoveToCounting(c) ==
  call' = [call EXCEPT ![c] =
    [pc |-> "decr", worker |-> @.worker, attached |-> @.attached, status |-> @.status,
     remaining |-> 0, completed |-> 0, failed |-> 0, total |-> 0]]

(* A defective callback that waits for exactly zero active jobs.           *)
MoveToClosingAtZero(c) ==
  call' = [call EXCEPT ![c] =
    [pc |-> IF @.remaining = 0 THEN "finish" ELSE "reply",
     worker |-> @.worker, attached |-> @.attached]]

(* "If no more active jobs, mark scan as complete"; then the answer.       *)
MoveToClosing(c) ==
  call' = [call EXCEPT ![c] =
    [pc |-> IF @.remaining <= 0 THEN "finish" ELSE "reply",
     worker |-> @.worker, attached |-> @.attached]]

CallCompleted(c) ==
  /\ At(c, "outcome")
  /\ call[c].status = "completed"
  /\ \/ /\ DB!UpdateJobStatus(call[c].job, "completed")
        /\ UNCHANGED faultVars
     \/ /\ Strike("db")
        /\ UNCHANGED job
  /\ MoveToCounting(c)
  /\ UNCHANGED <<scan, failures, redis, start, cancel, worker>>

(* Off by one, either way.                                                 *)
ExhaustedEarly(row) == row.attempt + 1 >= MaxAttempts
ExhaustedLate(row) == row.attempt > MaxAttempts

(* The attempts of the job are used up.                                    *)
Exhausted(row) == row.attempt >= MaxAttempts

(* HandleRetry: GetJob, and the comparison that decides.                   *)
CallGetJob(c) ==
  /\ At(c, "outcome")
  /\ call[c].status = "failed"
  /\ LET row == job[call[c].job] IN
       call' = [call EXCEPT
                  ![c].pc = IF Exhausted(row) THEN "log" ELSE "increment",
                  ![c].attempt = row.attempt]
  /\ UNCHANGED <<db, redis, start, cancel, worker, faultVars>>

(* GetJob or IncrementJobAttempt fails: the job is not retried.            *)
CallRetryFails(c) ==
  /\ \/ At(c, "outcome") /\ call[c].status = "failed"
     \/ At(c, "increment")
  /\ Strike("db")
  /\ MoveToFail(c)
  /\ UNCHANGED <<db, redis, start, cancel, worker>>

CallLogFailure(c) ==
  /\ At(c, "log")
  /\ \/ /\ DB!CreateFailureLog(call[c].job, call[c].attempt)
        /\ UNCHANGED faultVars
     \/ /\ Strike("db")
        /\ UNCHANGED failures
  /\ MoveToFail(c)
  /\ UNCHANGED <<scan, job, redis, start, cancel, worker>>

CallIncrement(c) ==
  /\ At(c, "increment")
  /\ DB!IncrementJobAttempt(call[c].job)
  /\ Move(c, "requeue")
  /\ UNCHANGED <<scan, failures, redis, start, cancel, worker, faultVars>>

(* A defective callback that marks a job failed although it was requeued.  *)
CallRequeueThenFail(c) ==
  /\ At(c, "requeue")
  /\ Redis!EnqueueRetry([job |-> call[c].job, attempt |-> call[c].attempt + 1])
  /\ MoveToFail(c)
  /\ UNCHANGED <<db, queue, active, lock, start, cancel, worker, faultVars>>

(* The payload's attempt is the one read before the increment, plus one.   *)
CallRequeue(c) ==
  /\ At(c, "requeue")
  /\ Redis!EnqueueRetry([job |-> call[c].job, attempt |-> call[c].attempt + 1])
  /\ MoveToCounting(c)
  /\ UNCHANGED <<db, queue, active, lock, start, cancel, worker, faultVars>>

CallRequeueFails(c) ==
  /\ At(c, "requeue")
  /\ Strike("redis")
  /\ MoveToFail(c)
  /\ UNCHANGED <<db, redis, start, cancel, worker>>

CallFailed(c) ==
  /\ At(c, "fail")
  /\ \/ /\ DB!UpdateJobStatus(call[c].job, "failed")
        /\ UNCHANGED faultVars
     \/ /\ Strike("db")
        /\ UNCHANGED job
  /\ MoveToCounting(c)
  /\ UNCHANGED <<scan, failures, redis, start, cancel, worker>>

(* Every report decrements, a retried one too.  When DECR fails the client *)
(* library returns 0 with the error, and the handler goes on with the 0.   *)
CallDecr(c) ==
  /\ At(c, "decr")
  /\ \/ /\ Redis!DecrActiveScanJobs
        /\ call' = [call EXCEPT ![c].pc = "read", ![c].remaining = active - 1]
        /\ UNCHANGED faultVars
     \/ /\ Strike("redis")
        /\ call' = [call EXCEPT ![c].pc = "read", ![c].remaining = 0]
        /\ UNCHANGED active
  /\ UNCHANGED <<db, queue, retry, lock, start, cancel, worker>>

CallReadScan(c) ==
  /\ At(c, "read")
  /\ call' = [call EXCEPT ![c].pc = "write", ![c].total = scan.total,
                          ![c].completed = scan.completed, ![c].failed = scan.failed]
  /\ UNCHANGED <<db, redis, start, cancel, worker, faultVars>>

(* GetScan's error is dropped: no progress is written.                     *)
CallReadScanFails(c) ==
  /\ At(c, "read")
  /\ Strike("db")
  /\ MoveToClosing(c)
  /\ UNCHANGED <<db, redis, start, cancel, worker>>

(* A defective callback that counts every report as a completed job.       *)
CountedAlways(status, column) == IF column = "completed" THEN 1 ELSE 0

(* What a report adds to a progress column.                                *)
Counted(status, column) == IF status = column THEN 1 ELSE 0

(* All three columns are written from the row as it was read.              *)
CallWriteProgress(c) ==
  /\ At(c, "write")
  /\ \/ /\ DB!UpdateScanProgress(call[c].total,
              call[c].completed + Counted(call[c].status, "completed"),
              call[c].failed + Counted(call[c].status, "failed"))
        /\ UNCHANGED faultVars
     \/ /\ Strike("db")
        /\ UNCHANGED scan
  /\ MoveToClosing(c)
  /\ UNCHANGED <<job, failures, redis, start, cancel, worker>>

(* Whatever the scan's status is now.                                      *)
CallFinish(c) ==
  /\ At(c, "finish")
  /\ \/ /\ DB!UpdateScanStatus("completed")
        /\ UNCHANGED faultVars
     \/ /\ Strike("db")
        /\ UNCHANGED scan
  /\ Move(c, "reply")
  /\ UNCHANGED <<job, failures, redis, start, cancel, worker>>

(* The 200, to a worker that may have stopped waiting.                     *)
CallReply(c) ==
  /\ At(c, "reply")
  /\ call' = [call EXCEPT ![c] = Free]
  /\ worker' = IF call[c].attached THEN [worker EXCEPT ![call[c].worker] = Polling]
                                   ELSE worker
  /\ UNCHANGED <<db, redis, start, cancel, faultVars>>

(* A handler without a client notices: all it has left to do fails, and    *)
(* each failure is logged or ignored.                                      *)
CallAbort(c) ==
  /\ call[c] # Free
  /\ ~call[c].attached
  /\ call' = [call EXCEPT ![c] = Free]
  /\ UNCHANGED <<db, redis, start, cancel, worker, faultVars>>

(* One of the broadcasts panics (see Hub): of a finding, of the progress   *)
(* or of the end.  The Recoverer ends the handler and answers 500, which   *)
(* the worker takes for an undelivered POST.                               *)
CallPanics(c) ==
  /\ call[c].pc \in {"decr", "finish", "reply"}
  /\ Strike("panic")
  /\ call' = [call EXCEPT ![c] = Free]
  /\ worker' = [w \in Worker |->
                  IF call[c].attached /\ call[c].worker = w /\ worker[w].pc = "waiting"
                  THEN AfterFailedPost(worker[w]) ELSE worker[w]]
  /\ UNCHANGED <<db, redis, start, cancel>>

(* The orchestrator stops and is restarted.  Its handlers and goroutines   *)
(* are gone, one that was inserting its plan after any number of rows;     *)
(* PostgreSQL and Redis keep what they have, and a worker that waited for  *)
(* an answer sees its connection reset.                                    *)
OrchestratorRestart ==
  /\ Strike("orchestrator")
  /\ \E made \in SUBSET {j \in Job : start[j[1]].pc = "plan"} : DB!CreateJobs(made)
  /\ start' = [s \in Start |->
                 IF start[s].pc \in {"new", "done", "rejected"} THEN start[s]
                 ELSE [pc |-> "rejected", left |-> {}]]
  /\ cancel' = [c \in Cancel |-> IF cancel[c] = "write" THEN "done" ELSE cancel[c]]
  /\ call' = [c \in Call |-> Free]
  /\ worker' = [w \in Worker |->
                  IF worker[w].pc = "waiting" THEN AfterFailedPost(worker[w])
                                              ELSE worker[w]]
  /\ UNCHANGED <<scan, failures, redis>>
-----------------------------------------------------------------------------
StartStep(s) ==
  \/ StartRead(s) \/ StartLock(s) \/ StartLockRefused(s)
  \/ BuildPlan(s) \/ BuildPlanFails(s) \/ StartUnlock(s)
  \/ StartMark(s) \/ StartMarkFails(s) \/ StartProgress(s) \/ StartClientGone(s)

DispatchStep(s) ==
  \/ DispatchEnqueue(s) \/ DispatchFails(s) \/ DispatchMarkFailed(s)
  \/ DispatchCount(s) \/ DispatchRelease(s) \/ DispatchDeadline(s)

CancelStep(c) == CancelRead(c) \/ CancelWrite(c)

WorkerStep(w) ==
  \/ WorkerPop(w) \/ WorkerExecute(w) \/ WorkerPost(w)
  \/ WorkerPostLost(w) \/ WorkerPostTimeout(w) \/ WorkerStop(w)

CallStep(c) ==
  \/ CallCompleted(c) \/ CallGetJob(c) \/ CallRetryFails(c) \/ CallLogFailure(c)
  \/ CallIncrement(c) \/ CallRequeue(c) \/ CallRequeueFails(c) \/ CallFailed(c)
  \/ CallDecr(c) \/ CallReadScan(c) \/ CallReadScanFails(c) \/ CallWriteProgress(c)
  \/ CallFinish(c) \/ CallReply(c) \/ CallAbort(c) \/ CallPanics(c)

(* Every request has been dealt with and every process waits for work: the *)
(* one state in which the system may come to rest.                         *)
AtRest ==
  /\ \A s \in Start : start[s].pc \in {"done", "rejected"}
  /\ \A c \in Cancel : cancel[c] = "done"
  /\ \A w \in Worker : worker[w] = Polling
  /\ \A c \in Call : call[c] = Free
  /\ queue = <<>> /\ retry = {} /\ ~lock

Rest == AtRest /\ UNCHANGED vars

Next ==
  \/ \E s \in Start : StartStep(s)
  \/ \E s \in Start : DispatchStep(s)
  \/ \E c \in Cancel : CancelStep(c)
  \/ \E w \in Worker : WorkerStep(w)
  \/ \E c \in Call : CallStep(c)
  \/ LockExpires
  \/ RetrySweep
  \/ RetrySweepFails
  \/ OrchestratorRestart
  \/ Rest

Spec == Init /\ [][Next]_vars
=============================================================================
