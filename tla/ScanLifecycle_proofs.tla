------------------------ MODULE ScanLifecycle_proofs ------------------------
(***************************************************************************)
(* Type correctness of ScanLifecycle for every value of its constants:     *)
(* first what each statement, command and pc change does to the types,     *)
(* then one lemma per process, with one case per action and one step per   *)
(* variable that the action changes.  Then the two safety invariants that  *)
(* hold under every fault: starts exclude each other but for keys that     *)
(* lapse, and no job is attempted more often than it may.                  *)
(***************************************************************************)
EXTENDS ScanProperties, FiniteSetTheorems, TLAPS

(* Cardinality(Task) is the job count of a plan.                           *)
LEMMA TaskCount == Cardinality(Task) \in Nat
  BY FS_CardinalityType, ConstantsAssumption DEF ConstantsAssumption

(* A change of status keeps the scan's row in its type.                    *)
LEMMA ScanStatusType ==
  ASSUME scan \in DB!ScanRow, NEW status \in DB!ScanStatus, DB!UpdateScanStatus(status)
  PROVE  scan' \in DB!ScanRow
  BY DEF DB!UpdateScanStatus, DB!ScanRow

(* So does a write of the three progress columns.                          *)
LEMMA ScanProgressType ==
  ASSUME scan \in DB!ScanRow, NEW total \in Nat, NEW completed \in Nat,
         NEW failed \in Nat, DB!UpdateScanProgress(total, completed, failed)
  PROVE  scan' \in DB!ScanRow
  BY DEF DB!UpdateScanProgress, DB!ScanRow

(* The INSERTs of BuildPlan keep the rows of the jobs table in their type. *)
LEMMA CreateJobsType ==
  ASSUME job \in [Job -> DB!JobRow], NEW new, DB!CreateJobs(new)
  PROVE  job' \in [Job -> DB!JobRow]
  BY DEF DB!CreateJobs, DB!JobRow, DB!JobStatus

(* So does a change of one job's status.                                   *)
LEMMA JobStatusType ==
  ASSUME job \in [Job -> DB!JobRow], NEW j \in Job, NEW status \in DB!JobStatus,
         DB!UpdateJobStatus(j, status)
  PROVE  job' \in [Job -> DB!JobRow]
  BY DEF DB!UpdateJobStatus, DB!JobRow

(* And the increment of its attempt.                                       *)
LEMMA JobAttemptType ==
  ASSUME job \in [Job -> DB!JobRow], NEW j \in Job, DB!IncrementJobAttempt(j)
  PROVE  job' \in [Job -> DB!JobRow]
  BY DEF DB!IncrementJobAttempt, DB!JobRow, DB!JobStatus

(* A new row of failure_log is of its type.                                *)
LEMMA FailureLogType ==
  ASSUME failures \in SUBSET DB!FailureRow, NEW j \in Job, NEW n \in Nat,
         DB!CreateFailureLog(j, n)
  PROVE  failures' \in SUBSET DB!FailureRow
  BY DEF DB!CreateFailureLog, DB!FailureRow

(* LPUSH of a payload keeps the job queue a sequence of payloads.          *)
LEMMA EnqueueType ==
  ASSUME queue \in Seq(Redis!Payload), NEW p \in Redis!Payload, Redis!EnqueueJob(p)
  PROVE  queue' \in Seq(Redis!Payload)
  BY DEF Redis!EnqueueJob

(* BRPOP takes a payload and leaves such a sequence.                       *)
LEMMA PopType ==
  ASSUME queue \in Seq(Redis!Payload), Redis!PopJob
  PROVE  queue' \in Seq(Redis!Payload) /\ Head(queue) \in Redis!Payload
  BY DEF Redis!PopJob

(* ZADD of a payload keeps the sorted set a set of payloads.               *)
LEMMA EnqueueRetryType ==
  ASSUME retry \in SUBSET Redis!Payload, NEW p \in Redis!Payload, Redis!EnqueueRetry(p)
  PROVE  retry' \in SUBSET Redis!Payload
  BY DEF Redis!EnqueueRetry

(* A start request that goes to another pc keeps its type.                 *)
LEMMA GotoType ==
  ASSUME start \in [Start -> StartState], NEW s \in Start, NEW pc \in StartPC, Goto(s, pc)
  PROVE  start' \in [Start -> StartState]
  BY DEF Goto, StartState

(* So does one that also sets what its loop has left.                      *)
LEMMA GotoWithType ==
  ASSUME start \in [Start -> StartState], NEW s \in Start, NEW pc \in StartPC,
         NEW left \in SUBSET Task, GotoWith(s, pc, left)
  PROVE  start' \in [Start -> StartState]
  BY DEF GotoWith, StartState

(* A fault is counted within its bound.                                    *)
LEMMA StrikeType ==
  ASSUME faults \in 0..MaxFaults, struck \in SUBSET Faults, lapsed \in 0..MaxFaults, NEW kind,
         Strike(kind) \/ UNCHANGED faultVars
  PROVE  faults' \in 0..MaxFaults /\ struck' \in SUBSET Faults /\ lapsed' \in 0..MaxFaults
  BY ConstantsAssumption DEF ConstantsAssumption, Strike, faultVars

(* What the pc of a handler says about its local variables.                *)
LEMMA CallShape ==
  ASSUME NEW state \in CallState
  PROVE  /\ state.pc \in DecidingPC => state \in DecidingState
         /\ state.pc \in CountingPC => state \in CountingState
         /\ state.pc \in ClosingPC => state \in ClosingState
         /\ state # Free => state.pc \in DecidingPC \cup CountingPC \cup ClosingPC
         /\ state # Free => state.worker \in Worker /\ state.attached \in BOOLEAN
  BY DEF CallState, Free, DecidingState, CountingState, ClosingState,
         DecidingPC, CountingPC, ClosingPC

(* A worker that does not poll has a job in hand.                          *)
LEMMA WorkerShape ==
  ASSUME NEW state \in WorkerState, state.pc # "polling"
  PROVE  state \in BusyState
  BY DEF WorkerState, Polling, BusyState

(* One handler is given a state of a handler.                              *)
LEMMA CallSetType ==
  ASSUME call \in [Call -> CallState], NEW c \in Call, NEW state \in CallState,
         call' = [call EXCEPT ![c] = state]
  PROVE  call' \in [Call -> CallState]
  OBVIOUS

(* HandleRetry's refusal takes a deciding handler to a deciding one.       *)
LEMMA MoveToFailType ==
  ASSUME call \in [Call -> CallState], NEW c \in Call,
         call[c].pc \in DecidingPC, MoveToFail(c)
  PROVE  call' \in [Call -> CallState]
  <1>1. call[c] \in DecidingState
    BY CallShape
  <1>2. [call[c] EXCEPT !.pc = "fail", !.attempt = 0] \in DecidingState
    BY <1>1 DEF DecidingState, DecidingPC
  <1>3. call' = [call EXCEPT ![c] = [call[c] EXCEPT !.pc = "fail", !.attempt = 0]]
    BY DEF MoveToFail
  <1> QED
    BY <1>2, <1>3 DEF CallState

(* A handler that dealt with the outcome goes on to count.                 *)
LEMMA MoveToCountingType ==
  ASSUME call \in [Call -> CallState], NEW c \in Call,
         call[c].pc \in DecidingPC, MoveToCounting(c)
  PROVE  call' \in [Call -> CallState]
  <1>1. call[c] \in DecidingState
    BY CallShape
  <1> DEFINE state ==
        [pc |-> "decr", worker |-> call[c].worker, attached |-> call[c].attached,
         status |-> call[c].status, remaining |-> 0,
         completed |-> 0, failed |-> 0, total |-> 0]
  <1>2. state \in CountingState
    BY <1>1 DEF DecidingState, CountingState, CountingPC
  <1>3. call' = [call EXCEPT ![c] = state]
    BY DEF MoveToCounting
  <1> HIDE DEF state
  <1> QED
    BY <1>2, <1>3 DEF CallState

(* A handler that counted goes on to close.                                *)
LEMMA MoveToClosingType ==
  ASSUME call \in [Call -> CallState], NEW c \in Call,
         call[c].pc \in CountingPC, MoveToClosing(c)
  PROVE  call' \in [Call -> CallState]
  <1>1. call[c] \in CountingState
    BY CallShape
  <1> DEFINE state ==
        [pc |-> IF call[c].remaining <= 0 THEN "finish" ELSE "reply",
         worker |-> call[c].worker, attached |-> call[c].attached]
  <1>2. state \in ClosingState
    BY <1>1 DEF CountingState, ClosingState, ClosingPC
  <1>3. call' = [call EXCEPT ![c] = state]
    BY DEF MoveToClosing
  <1> HIDE DEF state
  <1> QED
    BY <1>2, <1>3 DEF CallState

(* A handler that loses its client keeps everything else.                  *)
LEMMA DetachType ==
  ASSUME call \in [Call -> CallState], NEW lost, Detach(lost)
  PROVE  call' \in [Call -> CallState]
  <1>1. ASSUME NEW state \in CallState, state # Free
        PROVE  [state EXCEPT !.attached = FALSE] \in CallState
    BY <1>1 DEF CallState, DecidingState, CountingState, ClosingState
  <1> QED
    BY <1>1 DEF Detach

(* A worker whose POST failed is busy still, or polls.                     *)
LEMMA FailedPostType ==
  ASSUME NEW state \in WorkerState, state.pc # "polling"
  PROVE  AfterFailedPost(state) \in WorkerState
  <1>1. state \in BusyState
    BY WorkerShape
  <1> QED
    BY <1>1 DEF AfterFailedPost, WorkerState, BusyState, Outcome

(* The handler of a start request.                                         *)
LEMMA StartStepType ==
  ASSUME TypeOK, NEW s \in Start, StartStep(s)
  PROVE  TypeOK'
  <1> USE DEF TypeOK, DB!StoreTypeOK, Redis!QueueTypeOK
  <1>1. CASE StartRead(s)
    <2>1. start' \in [Start -> StartState]
      BY <1>1, GotoType DEF StartRead, StartPC
    <2>2. faults' \in 0..MaxFaults /\ struck' \in SUBSET Faults /\ lapsed' \in 0..MaxFaults
      BY <1>1, StrikeType DEF StartRead
    <2>3. UNCHANGED <<scan, job, failures, queue, retry, active, lock, cancel, worker, call>>
      BY <1>1 DEF StartRead, db, redis
    <2> QED
      BY <2>1, <2>2, <2>3
  <1>2. CASE StartLock(s)
    <2>1. start' \in [Start -> StartState]
      BY <1>2, GotoType DEF StartLock, StartPC
    <2>2. lock' \in BOOLEAN
      BY <1>2 DEF StartLock, Redis!SetScanLock
    <2>3. UNCHANGED <<scan, job, failures, queue, retry, active, cancel, worker, call,
                      faults, struck, lapsed>>
      BY <1>2 DEF StartLock, db, faultVars
    <2> QED
      BY <2>1, <2>2, <2>3
  <1>3. CASE StartLockRefused(s)
    <2>1. start' \in [Start -> StartState]
      BY <1>3, GotoType DEF StartLockRefused, StartPC
    <2>2. faults' \in 0..MaxFaults /\ struck' \in SUBSET Faults /\ lapsed' \in 0..MaxFaults
      BY <1>3, StrikeType DEF StartLockRefused
    <2>3. UNCHANGED <<scan, job, failures, queue, retry, active, lock, cancel, worker, call>>
      BY <1>3 DEF StartLockRefused, db, redis
    <2> QED
      BY <2>1, <2>2, <2>3
  <1>4. CASE BuildPlan(s)
    <2>1. start' \in [Start -> StartState]
      BY <1>4, GotoType DEF BuildPlan, StartPC
    <2>2. job' \in [Job -> DB!JobRow]
      BY <1>4, CreateJobsType DEF BuildPlan
    <2>3. UNCHANGED <<scan, failures, queue, retry, active, lock, cancel, worker, call,
                      faults, struck, lapsed>>
      BY <1>4 DEF BuildPlan, redis, faultVars
    <2> QED
      BY <2>1, <2>2, <2>3
  <1>5. CASE BuildPlanFails(s)
    <2>1. start' \in [Start -> StartState]
      BY <1>5, GotoType DEF BuildPlanFails, StartPC
    <2>2. job' \in [Job -> DB!JobRow]
      BY <1>5, CreateJobsType DEF BuildPlanFails
    <2>3. faults' \in 0..MaxFaults /\ struck' \in SUBSET Faults /\ lapsed' \in 0..MaxFaults
      BY <1>5, StrikeType DEF BuildPlanFails
    <2>4. UNCHANGED <<scan, failures, queue, retry, active, lock, cancel, worker, call>>
      BY <1>5 DEF BuildPlanFails, redis
    <2> QED
      BY <2>1, <2>2, <2>3, <2>4
  <1>6. CASE StartUnlock(s)
    <2>1. start' \in [Start -> StartState]
      BY <1>6, GotoType DEF StartUnlock, StartPC
    <2>2. lock' \in BOOLEAN
      BY <1>6 DEF StartUnlock, Redis!ReleaseScanLock
    <2>3. faults' \in 0..MaxFaults /\ struck' \in SUBSET Faults /\ lapsed' \in 0..MaxFaults
      BY <1>6, StrikeType DEF StartUnlock
    <2>4. UNCHANGED <<scan, job, failures, queue, retry, active, cancel, worker, call>>
      BY <1>6 DEF StartUnlock, db
    <2> QED
      BY <2>1, <2>2, <2>3, <2>4
  <1>7. CASE StartMark(s)
    <2>1. start' \in [Start -> StartState]
      BY <1>7, GotoType DEF StartMark, StartPC
    <2>2. scan' \in DB!ScanRow
      BY <1>7, ScanStatusType DEF StartMark, DB!ScanStatus
    <2>3. UNCHANGED <<job, failures, queue, retry, active, lock, cancel, worker, call,
                      faults, struck, lapsed>>
      BY <1>7 DEF StartMark, redis, faultVars
    <2> QED
      BY <2>1, <2>2, <2>3
  <1>8. CASE StartMarkFails(s)
    <2>1. start' \in [Start -> StartState]
      BY <1>8, GotoType DEF StartMarkFails, StartPC
    <2>2. faults' \in 0..MaxFaults /\ struck' \in SUBSET Faults /\ lapsed' \in 0..MaxFaults
      BY <1>8, StrikeType DEF StartMarkFails
    <2>3. UNCHANGED <<scan, job, failures, queue, retry, active, lock, cancel, worker, call>>
      BY <1>8 DEF StartMarkFails, db, redis
    <2> QED
      BY <2>1, <2>2, <2>3
  <1>9. CASE StartProgress(s)
    <2>1. start' \in [Start -> StartState]
      BY <1>9, GotoWithType DEF StartProgress, StartPC
    <2>2. scan' \in DB!ScanRow
      BY <1>9, ScanProgressType, TaskCount DEF StartProgress
    <2>3. faults' \in 0..MaxFaults /\ struck' \in SUBSET Faults /\ lapsed' \in 0..MaxFaults
      BY <1>9, StrikeType DEF StartProgress
    <2>4. UNCHANGED <<job, failures, queue, retry, active, lock, cancel, worker, call>>
      BY <1>9 DEF StartProgress, redis
    <2> QED
      BY <2>1, <2>2, <2>3, <2>4
  <1>10. CASE StartClientGone(s)
    <2>1. start' \in [Start -> StartState]
      BY <1>10, GotoType, GotoWithType DEF StartClientGone, StartPC
    <2>2. job' \in [Job -> DB!JobRow]
      BY <1>10, CreateJobsType DEF StartClientGone
    <2>3. faults' \in 0..MaxFaults /\ struck' \in SUBSET Faults /\ lapsed' \in 0..MaxFaults
      BY <1>10, StrikeType DEF StartClientGone
    <2>4. UNCHANGED <<scan, failures, queue, retry, active, lock, cancel, worker, call>>
      BY <1>10 DEF StartClientGone, redis
    <2> QED
      BY <2>1, <2>2, <2>3, <2>4
  <1> QED
    BY <1>1, <1>2, <1>3, <1>4, <1>5, <1>6, <1>7, <1>8, <1>9, <1>10 DEF StartStep

(* The dispatch goroutine.                                                 *)
LEMMA DispatchStepType ==
  ASSUME TypeOK, NEW s \in Start, DispatchStep(s)
  PROVE  TypeOK'
  <1> USE DEF TypeOK, DB!StoreTypeOK, Redis!QueueTypeOK
  <1>1. CASE DispatchEnqueue(s)
    <2>1. PICK t \in start[s].left :
            /\ Redis!EnqueueJob([job |-> <<s, t>>, attempt |-> 1])
            /\ \/ GotoWith(s, "count", Task)
               \/ GotoWith(s, "enqueue", start[s].left \ {t})
      BY <1>1 DEF DispatchEnqueue
    <2>2. start[s].left \in SUBSET Task
      BY DEF StartState
    <2>3. [job |-> <<s, t>>, attempt |-> 1] \in Redis!Payload
      BY <2>1, <2>2 DEF Redis!Payload, Job
    <2>4. start' \in [Start -> StartState]
      BY <2>1, <2>2, GotoWithType DEF StartPC
    <2>5. queue' \in Seq(Redis!Payload)
      BY <2>1, <2>3, EnqueueType
    <2>6. UNCHANGED <<scan, job, failures, retry, active, lock, cancel, worker, call,
                      faults, struck, lapsed>>
      BY <1>1 DEF DispatchEnqueue, db, faultVars
    <2> QED
      BY <2>4, <2>5, <2>6
  <1>2. CASE DispatchFails(s)
    <2>1. start' \in [Start -> StartState]
      BY <1>2, GotoWithType DEF DispatchFails, StartPC
    <2>2. faults' \in 0..MaxFaults /\ struck' \in SUBSET Faults /\ lapsed' \in 0..MaxFaults
      BY <1>2, StrikeType DEF DispatchFails
    <2>3. UNCHANGED <<scan, job, failures, queue, retry, active, lock, cancel, worker, call>>
      BY <1>2 DEF DispatchFails, db, redis
    <2> QED
      BY <2>1, <2>2, <2>3
  <1>3. CASE DispatchMarkFailed(s)
    <2>1. start' \in [Start -> StartState]
      BY <1>3, GotoType DEF DispatchMarkFailed, StartPC
    <2>2. scan' \in DB!ScanRow
      BY <1>3, ScanStatusType DEF DispatchMarkFailed, DB!ScanStatus
    <2>3. faults' \in 0..MaxFaults /\ struck' \in SUBSET Faults /\ lapsed' \in 0..MaxFaults
      BY <1>3, StrikeType DEF DispatchMarkFailed
    <2>4. UNCHANGED <<job, failures, queue, retry, active, lock, cancel, worker, call>>
      BY <1>3 DEF DispatchMarkFailed, redis
    <2> QED
      BY <2>1, <2>2, <2>3, <2>4
  <1>4. CASE DispatchCount(s)
    <2>1. start' \in [Start -> StartState]
      <3>1. PICK t \in start[s].left :
              \/ GotoWith(s, "release", start[s].left \ {t})
              \/ GotoWith(s, "count", start[s].left \ {t})
        BY <1>4 DEF DispatchCount
      <3>2. start[s].left \in SUBSET Task
        BY DEF StartState
      <3> QED
        BY <3>1, <3>2, GotoWithType DEF StartPC
    <2>2. active' \in Int
      BY <1>4 DEF DispatchCount, Redis!IncrActiveScanJobs
    <2>3. faults' \in 0..MaxFaults /\ struck' \in SUBSET Faults /\ lapsed' \in 0..MaxFaults
      BY <1>4, StrikeType DEF DispatchCount
    <2>4. UNCHANGED <<scan, job, failures, queue, retry, lock, cancel, worker, call>>
      BY <1>4 DEF DispatchCount, db
    <2> QED
      BY <2>1, <2>2, <2>3, <2>4
  <1>5. CASE DispatchRelease(s)
    <2>1. start' \in [Start -> StartState]
      BY <1>5, GotoType DEF DispatchRelease, StartPC
    <2>2. lock' \in BOOLEAN
      BY <1>5 DEF DispatchRelease, Redis!ReleaseScanLock
    <2>3. faults' \in 0..MaxFaults /\ struck' \in SUBSET Faults /\ lapsed' \in 0..MaxFaults
      BY <1>5, StrikeType DEF DispatchRelease
    <2>4. UNCHANGED <<scan, job, failures, queue, retry, active, cancel, worker, call>>
      BY <1>5 DEF DispatchRelease, db
    <2> QED
      BY <2>1, <2>2, <2>3, <2>4
  <1>6. CASE DispatchDeadline(s)
    <2>1. start' \in [Start -> StartState]
      BY <1>6, GotoWithType DEF DispatchDeadline, StartPC
    <2>2. faults' \in 0..MaxFaults /\ struck' \in SUBSET Faults /\ lapsed' \in 0..MaxFaults
      BY <1>6, StrikeType DEF DispatchDeadline
    <2>3. UNCHANGED <<scan, job, failures, queue, retry, active, lock, cancel, worker, call>>
      BY <1>6 DEF DispatchDeadline, db, redis
    <2> QED
      BY <2>1, <2>2, <2>3
  <1> QED
    BY <1>1, <1>2, <1>3, <1>4, <1>5, <1>6 DEF DispatchStep

(* The handler of a cancel request.                                        *)
LEMMA CancelStepType ==
  ASSUME TypeOK, NEW c \in Cancel, CancelStep(c)
  PROVE  TypeOK'
  <1> USE DEF TypeOK, DB!StoreTypeOK, Redis!QueueTypeOK
  <1>1. CASE CancelRead(c)
    <2>1. cancel' \in [Cancel -> CancelPC]
      BY <1>1 DEF CancelRead, CancelPC
    <2>2. UNCHANGED <<scan, job, failures, queue, retry, active, lock, start, worker, call,
                      faults, struck, lapsed>>
      BY <1>1 DEF CancelRead, db, redis, faultVars
    <2> QED
      BY <2>1, <2>2
  <1>2. CASE CancelWrite(c)
    <2>1. cancel' \in [Cancel -> CancelPC]
      BY <1>2 DEF CancelWrite, CancelPC
    <2>2. scan' \in DB!ScanRow
      BY <1>2, ScanStatusType DEF CancelWrite, DB!ScanStatus
    <2>3. faults' \in 0..MaxFaults /\ struck' \in SUBSET Faults /\ lapsed' \in 0..MaxFaults
      BY <1>2, StrikeType DEF CancelWrite
    <2>4. UNCHANGED <<job, failures, queue, retry, active, lock, start, worker, call>>
      BY <1>2 DEF CancelWrite, redis
    <2> QED
      BY <2>1, <2>2, <2>3, <2>4
  <1> QED
    BY <1>1, <1>2 DEF CancelStep

(* A worker.                                                               *)
LEMMA WorkerStepType ==
  ASSUME TypeOK, NEW w \in Worker, WorkerStep(w)
  PROVE  TypeOK'
  <1> USE DEF TypeOK, DB!StoreTypeOK, Redis!QueueTypeOK
  <1>1. CASE WorkerPop(w)
    <2>1. queue' \in Seq(Redis!Payload)
      BY <1>1, PopType DEF WorkerPop
    <2>2. worker' \in [Worker -> WorkerState]
      <3>1. [pc |-> "running", job |-> Head(queue).job, attempt |-> Head(queue).attempt,
             outcome |-> "completed", posts |-> 1] \in BusyState
        BY <1>1, PopType DEF WorkerPop, BusyState, Outcome, Redis!Payload
      <3> QED
        BY <1>1, <3>1 DEF WorkerPop, WorkerState
    <2>3. UNCHANGED <<scan, job, failures, retry, active, lock, start, cancel, call,
                      faults, struck, lapsed>>
      BY <1>1 DEF WorkerPop, db, faultVars
    <2> QED
      BY <2>1, <2>2, <2>3
  <1>2. CASE WorkerExecute(w)
    <2>1. worker' \in [Worker -> WorkerState]
      <3>1. worker[w] \in BusyState
        BY <1>2, WorkerShape DEF WorkerExecute
      <3>2. PICK outcome \in Outcome :
              worker' = [worker EXCEPT ![w].pc = "posting", ![w].outcome = outcome]
        BY <1>2 DEF WorkerExecute
      <3>3. [worker[w] EXCEPT !.pc = "posting", !.outcome = outcome] \in BusyState
        BY <3>1 DEF BusyState
      <3> QED
        BY <3>2, <3>3 DEF WorkerState
    <2>2. UNCHANGED <<scan, job, failures, queue, retry, active, lock, start, cancel, call,
                      faults, struck, lapsed>>
      BY <1>2 DEF WorkerExecute, db, redis, faultVars
    <2> QED
      BY <2>1, <2>2
  <1>3. CASE WorkerPost(w)
    <2>1. worker' \in [Worker -> WorkerState]
      <3>1. worker[w] \in BusyState
        BY <1>3, WorkerShape DEF WorkerPost
      <3>2. [worker[w] EXCEPT !.pc = "waiting"] \in BusyState
        BY <3>1 DEF BusyState
      <3> QED
        BY <1>3, <3>2 DEF WorkerPost, WorkerState
    <2>2. call' \in [Call -> CallState]
      <3>1. worker[w] \in BusyState
        BY <1>3, WorkerShape DEF WorkerPost
      <3>2. [pc |-> "outcome", worker |-> w, attached |-> TRUE, job |-> worker[w].job,
             status |-> worker[w].outcome, attempt |-> 0] \in DecidingState
        BY <3>1 DEF BusyState, DecidingState, DecidingPC
      <3> QED
        BY <1>3, <3>2, CallSetType DEF WorkerPost, CallState
    <2>3. UNCHANGED <<scan, job, failures, queue, retry, active, lock, start, cancel,
                      faults, struck, lapsed>>
      BY <1>3 DEF WorkerPost, db, redis, faultVars
    <2> QED
      BY <2>1, <2>2, <2>3
  <1>4. CASE WorkerPostLost(w)
    <2>1. worker' \in [Worker -> WorkerState]
      BY <1>4, FailedPostType DEF WorkerPostLost
    <2>2. faults' \in 0..MaxFaults /\ struck' \in SUBSET Faults /\ lapsed' \in 0..MaxFaults
      BY <1>4, StrikeType DEF WorkerPostLost
    <2>3. UNCHANGED <<scan, job, failures, queue, retry, active, lock, start, cancel, call>>
      BY <1>4 DEF WorkerPostLost, db, redis
    <2> QED
      BY <2>1, <2>2, <2>3
  <1>5. CASE WorkerPostTimeout(w)
    <2>1. worker' \in [Worker -> WorkerState]
      BY <1>5, FailedPostType DEF WorkerPostTimeout
    <2>2. call' \in [Call -> CallState]
      BY <1>5, DetachType DEF WorkerPostTimeout
    <2>3. faults' \in 0..MaxFaults /\ struck' \in SUBSET Faults /\ lapsed' \in 0..MaxFaults
      BY <1>5, StrikeType DEF WorkerPostTimeout
    <2>4. UNCHANGED <<scan, job, failures, queue, retry, active, lock, start, cancel>>
      BY <1>5 DEF WorkerPostTimeout, db, redis
    <2> QED
      BY <2>1, <2>2, <2>3, <2>4
  <1>6. CASE WorkerStop(w)
    <2>1. worker' \in [Worker -> WorkerState]
      BY <1>6 DEF WorkerStop, WorkerState
    <2>2. call' \in [Call -> CallState]
      BY <1>6, DetachType DEF WorkerStop
    <2>3. faults' \in 0..MaxFaults /\ struck' \in SUBSET Faults /\ lapsed' \in 0..MaxFaults
      BY <1>6, StrikeType DEF WorkerStop
    <2>4. UNCHANGED <<scan, job, failures, queue, retry, active, lock, start, cancel>>
      BY <1>6 DEF WorkerStop, db, redis
    <2> QED
      BY <2>1, <2>2, <2>3, <2>4
  <1> QED
    BY <1>1, <1>2, <1>3, <1>4, <1>5, <1>6 DEF WorkerStep

(* A callback handler.                                                     *)
LEMMA CallStepType ==
  ASSUME TypeOK, NEW c \in Call, CallStep(c)
  PROVE  TypeOK'
  <1> USE DEF TypeOK, DB!StoreTypeOK, Redis!QueueTypeOK
  <1>1. CASE CallCompleted(c)
    <2>1. call[c].pc \in DecidingPC /\ call[c] \in DecidingState
      BY <1>1, CallShape DEF CallCompleted, At, DecidingPC
    <2>2. job' \in [Job -> DB!JobRow]
      BY <1>1, <2>1, JobStatusType DEF CallCompleted, DecidingState, DB!JobStatus
    <2>3. call' \in [Call -> CallState]
      BY <1>1, <2>1, MoveToCountingType DEF CallCompleted
    <2>4. faults' \in 0..MaxFaults /\ struck' \in SUBSET Faults /\ lapsed' \in 0..MaxFaults
      BY <1>1, StrikeType DEF CallCompleted
    <2>5. UNCHANGED <<scan, failures, queue, retry, active, lock, start, cancel, worker>>
      BY <1>1 DEF CallCompleted, redis
    <2> QED
      BY <2>2, <2>3, <2>4, <2>5
  <1>2. CASE CallGetJob(c)
    <2>1. call[c].pc \in DecidingPC /\ call[c] \in DecidingState
      BY <1>2, CallShape DEF CallGetJob, At, DecidingPC
    <2>2. call' \in [Call -> CallState]
      <3> DEFINE row == job[call[c].job]
                 state == [call[c] EXCEPT
                   !.pc = IF Exhausted(row) THEN "log" ELSE "increment",
                   !.attempt = row.attempt]
      <3>1. row.attempt \in Nat
        BY <2>1 DEF DecidingState, DB!JobRow
      <3>2. state \in DecidingState
        BY <2>1, <3>1 DEF DecidingState, DecidingPC
      <3>3. call' = [call EXCEPT ![c] = state]
        BY <1>2 DEF CallGetJob
      <3> HIDE DEF state
      <3> QED
        BY <3>2, <3>3 DEF CallState
    <2>3. UNCHANGED <<scan, job, failures, queue, retry, active, lock, start, cancel,
                      worker, faults, struck, lapsed>>
      BY <1>2 DEF CallGetJob, db, redis, faultVars
    <2> QED
      BY <2>2, <2>3
  <1>3. CASE CallRetryFails(c)
    <2>1. call[c].pc \in DecidingPC /\ call[c] \in DecidingState
      BY <1>3, CallShape DEF CallRetryFails, At, DecidingPC
    <2>2. call' \in [Call -> CallState]
      BY <1>3, <2>1, MoveToFailType DEF CallRetryFails
    <2>3. faults' \in 0..MaxFaults /\ struck' \in SUBSET Faults /\ lapsed' \in 0..MaxFaults
      BY <1>3, StrikeType DEF CallRetryFails
    <2>4. UNCHANGED <<scan, job, failures, queue, retry, active, lock, start, cancel, worker>>
      BY <1>3 DEF CallRetryFails, db, redis
    <2> QED
      BY <2>2, <2>3, <2>4
  <1>4. CASE CallLogFailure(c)
    <2>1. call[c].pc \in DecidingPC /\ call[c] \in DecidingState
      BY <1>4, CallShape DEF CallLogFailure, At, DecidingPC
    <2>2. failures' \in SUBSET DB!FailureRow
      BY <1>4, <2>1, FailureLogType DEF CallLogFailure, DecidingState
    <2>3. call' \in [Call -> CallState]
      BY <1>4, <2>1, MoveToFailType DEF CallLogFailure
    <2>4. faults' \in 0..MaxFaults /\ struck' \in SUBSET Faults /\ lapsed' \in 0..MaxFaults
      BY <1>4, StrikeType DEF CallLogFailure
    <2>5. UNCHANGED <<scan, job, queue, retry, active, lock, start, cancel, worker>>
      BY <1>4 DEF CallLogFailure, redis
    <2> QED
      BY <2>2, <2>3, <2>4, <2>5
  <1>5. CASE CallIncrement(c)
    <2>1. call[c].pc \in DecidingPC /\ call[c] \in DecidingState
      BY <1>5, CallShape DEF CallIncrement, At, DecidingPC
    <2>2. job' \in [Job -> DB!JobRow]
      BY <1>5, <2>1, JobAttemptType DEF CallIncrement, DecidingState
    <2>3. call' \in [Call -> CallState]
      <3>1. [call[c] EXCEPT !.pc = "requeue"] \in DecidingState
        BY <2>1 DEF DecidingState, DecidingPC
      <3>2. call' = [call EXCEPT ![c] = [call[c] EXCEPT !.pc = "requeue"]]
        BY <1>5 DEF CallIncrement, Move
      <3> QED
        BY <3>1, <3>2 DEF CallState
    <2>4. UNCHANGED <<scan, failures, queue, retry, active, lock, start, cancel, worker,
                      faults, struck, lapsed>>
      BY <1>5 DEF CallIncrement, redis, faultVars
    <2> QED
      BY <2>2, <2>3, <2>4
  <1>6. CASE CallRequeue(c)
    <2>1. call[c].pc \in DecidingPC /\ call[c] \in DecidingState
      BY <1>6, CallShape DEF CallRequeue, At, DecidingPC
    <2>2. retry' \in SUBSET Redis!Payload
      BY <1>6, <2>1, EnqueueRetryType DEF CallRequeue, DecidingState, Redis!Payload
    <2>3. call' \in [Call -> CallState]
      BY <1>6, <2>1, MoveToCountingType DEF CallRequeue
    <2>4. UNCHANGED <<scan, job, failures, queue, active, lock, start, cancel, worker,
                      faults, struck, lapsed>>
      BY <1>6 DEF CallRequeue, db, faultVars
    <2> QED
      BY <2>2, <2>3, <2>4
  <1>7. CASE CallRequeueFails(c)
    <2>1. call[c].pc \in DecidingPC /\ call[c] \in DecidingState
      BY <1>7, CallShape DEF CallRequeueFails, At, DecidingPC
    <2>2. call' \in [Call -> CallState]
      BY <1>7, <2>1, MoveToFailType DEF CallRequeueFails
    <2>3. faults' \in 0..MaxFaults /\ struck' \in SUBSET Faults /\ lapsed' \in 0..MaxFaults
      BY <1>7, StrikeType DEF CallRequeueFails
    <2>4. UNCHANGED <<scan, job, failures, queue, retry, active, lock, start, cancel, worker>>
      BY <1>7 DEF CallRequeueFails, db, redis
    <2> QED
      BY <2>2, <2>3, <2>4
  <1>8. CASE CallFailed(c)
    <2>1. call[c].pc \in DecidingPC /\ call[c] \in DecidingState
      BY <1>8, CallShape DEF CallFailed, At, DecidingPC
    <2>2. job' \in [Job -> DB!JobRow]
      BY <1>8, <2>1, JobStatusType DEF CallFailed, DecidingState, DB!JobStatus
    <2>3. call' \in [Call -> CallState]
      BY <1>8, <2>1, MoveToCountingType DEF CallFailed
    <2>4. faults' \in 0..MaxFaults /\ struck' \in SUBSET Faults /\ lapsed' \in 0..MaxFaults
      BY <1>8, StrikeType DEF CallFailed
    <2>5. UNCHANGED <<scan, failures, queue, retry, active, lock, start, cancel, worker>>
      BY <1>8 DEF CallFailed, redis
    <2> QED
      BY <2>2, <2>3, <2>4, <2>5
  <1>9. CASE CallDecr(c)
    <2>1. call[c].pc \in CountingPC /\ call[c] \in CountingState
      BY <1>9, CallShape DEF CallDecr, At, CountingPC
    <2>2. active' \in Int
      BY <1>9 DEF CallDecr, Redis!DecrActiveScanJobs
    <2>3. call' \in [Call -> CallState]
      <3> DEFINE state(n) == [call[c] EXCEPT !.pc = "read", !.remaining = n]
      <3>1. \A n \in Int : state(n) \in CountingState
        BY <2>1 DEF CountingState, CountingPC
      <3>2. \/ call' = [call EXCEPT ![c] = state(active - 1)]
            \/ call' = [call EXCEPT ![c] = state(0)]
        BY <1>9 DEF CallDecr
      <3>3. active - 1 \in Int /\ 0 \in Int
        OBVIOUS
      <3> HIDE DEF state
      <3> QED
        BY <3>1, <3>2, <3>3 DEF CallState
    <2>4. faults' \in 0..MaxFaults /\ struck' \in SUBSET Faults /\ lapsed' \in 0..MaxFaults
      BY <1>9, StrikeType DEF CallDecr
    <2>5. UNCHANGED <<scan, job, failures, queue, retry, lock, start, cancel, worker>>
      BY <1>9 DEF CallDecr, db
    <2> QED
      BY <2>2, <2>3, <2>4, <2>5
  <1>10. CASE CallReadScan(c)
    <2>1. call[c].pc \in CountingPC /\ call[c] \in CountingState
      BY <1>10, CallShape DEF CallReadScan, At, CountingPC
    <2>2. call' \in [Call -> CallState]
      <3> DEFINE state == [call[c] EXCEPT !.pc = "write", !.total = scan.total,
                             !.completed = scan.completed, !.failed = scan.failed]
      <3>1. state \in CountingState
        BY <2>1 DEF CountingState, CountingPC, DB!ScanRow
      <3>2. call' = [call EXCEPT ![c] = state]
        BY <1>10 DEF CallReadScan
      <3> HIDE DEF state
      <3> QED
        BY <3>1, <3>2 DEF CallState
    <2>3. UNCHANGED <<scan, job, failures, queue, retry, active, lock, start, cancel,
                      worker, faults, struck, lapsed>>
      BY <1>10 DEF CallReadScan, db, redis, faultVars
    <2> QED
      BY <2>2, <2>3
  <1>11. CASE CallReadScanFails(c)
    <2>1. call[c].pc \in CountingPC /\ call[c] \in CountingState
      BY <1>11, CallShape DEF CallReadScanFails, At, CountingPC
    <2>2. call' \in [Call -> CallState]
      BY <1>11, <2>1, MoveToClosingType DEF CallReadScanFails
    <2>3. faults' \in 0..MaxFaults /\ struck' \in SUBSET Faults /\ lapsed' \in 0..MaxFaults
      BY <1>11, StrikeType DEF CallReadScanFails
    <2>4. UNCHANGED <<scan, job, failures, queue, retry, active, lock, start, cancel, worker>>
      BY <1>11 DEF CallReadScanFails, db, redis
    <2> QED
      BY <2>2, <2>3, <2>4
  <1>12. CASE CallWriteProgress(c)
    <2>1. call[c].pc \in CountingPC /\ call[c] \in CountingState
      BY <1>12, CallShape DEF CallWriteProgress, At, CountingPC
    <2>2. scan' \in DB!ScanRow
      BY <1>12, <2>1, ScanProgressType
         DEF CallWriteProgress, CountingState, Counted
    <2>3. call' \in [Call -> CallState]
      BY <1>12, <2>1, MoveToClosingType DEF CallWriteProgress
    <2>4. faults' \in 0..MaxFaults /\ struck' \in SUBSET Faults /\ lapsed' \in 0..MaxFaults
      BY <1>12, StrikeType DEF CallWriteProgress
    <2>5. UNCHANGED <<job, failures, queue, retry, active, lock, start, cancel, worker>>
      BY <1>12 DEF CallWriteProgress, redis
    <2> QED
      BY <2>2, <2>3, <2>4, <2>5
  <1>13. CASE CallFinish(c)
    <2>1. scan' \in DB!ScanRow
      BY <1>13, ScanStatusType DEF CallFinish, DB!ScanStatus
    <2>2. call' \in [Call -> CallState]
      <3>1. call[c] \in ClosingState
        BY <1>13, CallShape DEF CallFinish, At, ClosingPC
      <3>2. [call[c] EXCEPT !.pc = "reply"] \in ClosingState
        BY <3>1 DEF ClosingState, ClosingPC
      <3>3. call' = [call EXCEPT ![c] = [call[c] EXCEPT !.pc = "reply"]]
        BY <1>13 DEF CallFinish, Move
      <3> QED
        BY <3>2, <3>3 DEF CallState
    <2>3. faults' \in 0..MaxFaults /\ struck' \in SUBSET Faults /\ lapsed' \in 0..MaxFaults
      BY <1>13, StrikeType DEF CallFinish
    <2>4. UNCHANGED <<job, failures, queue, retry, active, lock, start, cancel, worker>>
      BY <1>13 DEF CallFinish, redis
    <2> QED
      BY <2>1, <2>2, <2>3, <2>4
  <1>14. CASE CallReply(c)
    <2>1. worker' \in [Worker -> WorkerState]
      BY <1>14 DEF CallReply, WorkerState
    <2>2. call' \in [Call -> CallState]
      BY <1>14 DEF CallReply, CallState
    <2>3. UNCHANGED <<scan, job, failures, queue, retry, active, lock, start, cancel,
                      faults, struck, lapsed>>
      BY <1>14 DEF CallReply, db, redis, faultVars
    <2> QED
      BY <2>1, <2>2, <2>3
  <1>15. CASE CallAbort(c)
    <2>1. call' \in [Call -> CallState]
      BY <1>15 DEF CallAbort, CallState
    <2>2. UNCHANGED <<scan, job, failures, queue, retry, active, lock, start, cancel,
                      worker, faults, struck, lapsed>>
      BY <1>15 DEF CallAbort, db, redis, faultVars
    <2> QED
      BY <2>1, <2>2
  <1>16. CASE CallPanics(c)
    <2>1. worker' \in [Worker -> WorkerState]
      BY <1>16, FailedPostType DEF CallPanics
    <2>2. call' \in [Call -> CallState]
      BY <1>16 DEF CallPanics, CallState
    <2>3. faults' \in 0..MaxFaults /\ struck' \in SUBSET Faults /\ lapsed' \in 0..MaxFaults
      BY <1>16, StrikeType DEF CallPanics
    <2>4. UNCHANGED <<scan, job, failures, queue, retry, active, lock, start, cancel>>
      BY <1>16 DEF CallPanics, db, redis
    <2> QED
      BY <2>1, <2>2, <2>3, <2>4
  <1> QED
    BY <1>1, <1>2, <1>3, <1>4, <1>5, <1>6, <1>7, <1>8, <1>9, <1>10, <1>11, <1>12, <1>13,
       <1>14, <1>15, <1>16 DEF CallStep

(* The retry sweep moves a payload from one queue to the other.            *)
LEMMA SweepType ==
  ASSUME TypeOK, RetrySweep
  PROVE  TypeOK'
  <1> USE DEF TypeOK, DB!StoreTypeOK, Redis!QueueTypeOK
  <1>1. PICK p \in retry : Redis!ProcessRetry(p)
    BY DEF RetrySweep
  <1>2. retry' \in SUBSET Redis!Payload /\ queue' \in Seq(Redis!Payload)
    BY <1>1, EnqueueType DEF Redis!ProcessRetry
  <1>3. UNCHANGED <<scan, job, failures, active, lock, start, cancel, worker, call, faults,
                    struck, lapsed>>
    BY DEF RetrySweep, db, faultVars
  <1> QED
    BY <1>2, <1>3

(* A sweep that fails midway only takes it out.                            *)
LEMMA SweepFailsType ==
  ASSUME TypeOK, RetrySweepFails
  PROVE  TypeOK'
  <1> USE DEF TypeOK, DB!StoreTypeOK, Redis!QueueTypeOK
  <1>1. retry' \in SUBSET Redis!Payload
    BY DEF RetrySweepFails
  <1>2. faults' \in 0..MaxFaults /\ struck' \in SUBSET Faults /\ lapsed' \in 0..MaxFaults
    BY StrikeType DEF RetrySweepFails
  <1>3. UNCHANGED <<scan, job, failures, queue, active, lock, start, cancel, worker, call>>
    BY DEF RetrySweepFails, db
  <1> QED
    BY <1>1, <1>2, <1>3

(* A restart leaves requests ended, handlers free and workers in their types.*)
LEMMA RestartType ==
  ASSUME TypeOK, OrchestratorRestart
  PROVE  TypeOK'
  <1> USE DEF TypeOK, DB!StoreTypeOK, Redis!QueueTypeOK
  <1>1. start' \in [Start -> StartState]
    BY DEF OrchestratorRestart, StartState, StartPC
  <1>2. cancel' \in [Cancel -> CancelPC]
    BY DEF OrchestratorRestart, CancelPC
  <1>3. worker' \in [Worker -> WorkerState]
    BY FailedPostType DEF OrchestratorRestart
  <1>4. call' \in [Call -> CallState]
    BY DEF OrchestratorRestart, CallState
  <1>5. faults' \in 0..MaxFaults /\ struck' \in SUBSET Faults /\ lapsed' \in 0..MaxFaults
    BY StrikeType DEF OrchestratorRestart
  <1>6. job' \in [Job -> DB!JobRow]
    BY CreateJobsType DEF OrchestratorRestart
  <1>7. UNCHANGED <<scan, failures, queue, retry, active, lock>>
    BY DEF OrchestratorRestart, redis
  <1> QED
    BY <1>1, <1>2, <1>3, <1>4, <1>5, <1>6, <1>7

(* Every initial state is well typed.                                      *)
LEMMA TypeInit ==
  ASSUME Init
  PROVE  TypeOK
  <1>1. DB!StoreTypeOK
    BY DEF Init, DB!StoreInit, DB!StoreTypeOK, DB!ScanRow, DB!JobRow, DB!ScanStatus, DB!JobStatus
  <1>2. Redis!QueueTypeOK
    <2>1. queue = <<>> /\ retry = {} /\ active = 0 /\ lock = FALSE
      BY DEF Init, Redis!QueueInit
    <2>2. queue \in Seq(Redis!Payload)
      BY <2>1
    <2>3. retry \in SUBSET Redis!Payload
      BY <2>1
    <2>4. active \in Int
      BY <2>1
    <2>5. lock \in BOOLEAN
      BY <2>1
    <2> QED
      BY <2>2, <2>3, <2>4, <2>5 DEF Redis!QueueTypeOK
  <1>3. start \in [Start -> StartState] /\ cancel \in [Cancel -> CancelPC]
    BY DEF Init, StartState, StartPC, CancelPC
  <1>4. worker \in [Worker -> WorkerState] /\ call \in [Call -> CallState]
    BY DEF Init, WorkerState, CallState
  <1>5. faults \in 0..MaxFaults /\ struck \in SUBSET Faults /\ lapsed \in 0..MaxFaults
    BY ConstantsAssumption DEF Init, ConstantsAssumption
  <1> QED
    BY <1>1, <1>2, <1>3, <1>4, <1>5 DEF TypeOK

(* Every step keeps the state well typed.                                  *)
LEMMA TypeStep ==
  ASSUME TypeOK, [Next]_vars
  PROVE  TypeOK'
  <1>1. CASE \E s \in Start : StartStep(s)
    BY <1>1, StartStepType
  <1>2. CASE \E s \in Start : DispatchStep(s)
    BY <1>2, DispatchStepType
  <1>3. CASE \E c \in Cancel : CancelStep(c)
    BY <1>3, CancelStepType
  <1>4. CASE \E w \in Worker : WorkerStep(w)
    BY <1>4, WorkerStepType
  <1>5. CASE \E c \in Call : CallStep(c)
    BY <1>5, CallStepType
  <1>6. CASE LockExpires
    <2>1. lock' \in BOOLEAN
      BY <1>6 DEF LockExpires, Redis!ReleaseScanLock
    <2>2. lapsed' \in 0..MaxFaults
      BY <1>6, ConstantsAssumption DEF LockExpires, TypeOK, ConstantsAssumption
    <2>3. UNCHANGED <<scan, job, failures, queue, retry, active, start, cancel, worker, call,
                      faults, struck>>
      BY <1>6 DEF LockExpires, db
    <2> QED
      BY <2>1, <2>2, <2>3 DEF TypeOK, DB!StoreTypeOK, Redis!QueueTypeOK
  <1>7. CASE RetrySweep
    BY <1>7, SweepType
  <1>8. CASE RetrySweepFails
    BY <1>8, SweepFailsType
  <1>9. CASE OrchestratorRestart
    BY <1>9, RestartType
  <1>10. CASE UNCHANGED vars
    BY <1>10 DEF vars, TypeOK, DB!StoreTypeOK, Redis!QueueTypeOK
  <1> QED
    BY <1>1, <1>2, <1>3, <1>4, <1>5, <1>6, <1>7, <1>8, <1>9, <1>10 DEF Next, Rest

(* The state of the store, the queues, the requests, the workers and the   *)
(* callback handlers stays within its types, whatever strikes.             *)
THEOREM TypeCorrect == Spec => []TypeOK
  <1>1. Init => TypeOK
    BY TypeInit
  <1>2. TypeOK /\ [Next]_vars => TypeOK'
    BY TypeStep
  <1> QED
    BY <1>1, <1>2, PTL DEF Spec

-----------------------------------------------------------------------------

(* The inductive invariant behind StartExclusive: every start in its       *)
(* section answers to the key in Redis or to one of the keys that lapsed.  *)
(* While nobody has the key, SETNX lets in one more; and a start that ends *)
(* its section leaves one place, whoever's key its DEL removed.            *)
LockInv ==
  /\ IsFiniteSet(Section)
  /\ Cardinality(Section) <= lapsed + 1
  /\ ~lock => Cardinality(Section) <= lapsed

(* No start enters its section, and the key stays.                         *)
LEMMA SectionKept ==
  ASSUME LockInv, lapsed \in Nat, UNCHANGED <<lock, lapsed>>, Section' \subseteq Section
  PROVE  LockInv'
  <1>1. IsFiniteSet(Section') /\ Cardinality(Section') <= Cardinality(Section)
    BY FS_Subset DEF LockInv
  <1>2. Cardinality(Section) \in Nat /\ Cardinality(Section') \in Nat
    BY <1>1, FS_CardinalityType DEF LockInv
  <1> QED
    BY <1>1, <1>2 DEF LockInv

(* A start leaves its section, and the key is there or not.                *)
LEMMA SectionLeft ==
  ASSUME LockInv, lapsed \in Nat, UNCHANGED lapsed,
         NEW s \in Section, Section' \subseteq Section \ {s}
  PROVE  LockInv'
  <1>1. IsFiniteSet(Section \ {s}) /\ Cardinality(Section \ {s}) = Cardinality(Section) - 1
    BY FS_RemoveElement DEF LockInv
  <1>2. IsFiniteSet(Section') /\ Cardinality(Section') <= Cardinality(Section \ {s})
    BY <1>1, FS_Subset
  <1>3. Cardinality(Section) \in Nat /\ Cardinality(Section') \in Nat
    BY <1>2, FS_CardinalityType DEF LockInv
  <1> QED
    BY <1>1, <1>2, <1>3 DEF LockInv

(* A start takes the key that nobody has and enters its section.           *)
LEMMA SectionEntered ==
  ASSUME LockInv, lapsed \in Nat, UNCHANGED lapsed, ~lock, lock',
         NEW s, Section' \subseteq Section \cup {s}
  PROVE  LockInv'
  <1>1. /\ IsFiniteSet(Section \cup {s})
        /\ \/ Cardinality(Section \cup {s}) = Cardinality(Section)
           \/ Cardinality(Section \cup {s}) = Cardinality(Section) + 1
    BY FS_AddElement DEF LockInv
  <1>2. IsFiniteSet(Section') /\ Cardinality(Section') <= Cardinality(Section \cup {s})
    BY <1>1, FS_Subset
  <1>3. Cardinality(Section) \in Nat /\ Cardinality(Section') \in Nat
    BY <1>2, FS_CardinalityType DEF LockInv
  <1> QED
    BY <1>1, <1>2, <1>3 DEF LockInv

(* The key expires: under a start it is one that lapsed, and else there    *)
(* was no start to protect.                                                *)
LEMMA SectionLapses ==
  ASSUME LockInv, lapsed \in Nat, LockExpires
  PROVE  LockInv'
  <1>1. Section' = Section
    BY DEF LockExpires, Section, InSection
  <1>2. Cardinality(Section) \in Nat
    BY FS_CardinalityType DEF LockInv
  <1>3. CASE Section = {}
    <2>1. Cardinality(Section) = 0
      BY <1>3, FS_EmptySet
    <2>2. lapsed' = lapsed \/ lapsed' = lapsed + 1
      BY DEF LockExpires
    <2>3. 0 <= lapsed' /\ 0 <= lapsed' + 1
      BY <2>2
    <2>4. IsFiniteSet(Section') /\ Cardinality(Section') = 0
      BY <1>1, <2>1 DEF LockInv
    <2> QED
      BY <2>3, <2>4 DEF LockInv
  <1>4. CASE Section # {}
    <2>1. lapsed' = lapsed + 1
      BY <1>4 DEF LockExpires, Section
    <2> QED
      BY <1>1, <1>2, <2>1 DEF LockInv
  <1> QED
    BY <1>3, <1>4

(* A request that goes on within its section, or outside of it, and one    *)
(* that leaves it.                                                         *)
LEMMA OneStartMoves ==
  ASSUME NEW s \in Start, \A t \in Start \ {s} : start'[t] = start[t]
  PROVE  /\ (InSection(s)' => InSection(s)) => Section' \subseteq Section
         /\ InSection(s) /\ ~InSection(s)' => s \in Section /\ Section' \subseteq Section \ {s}
         /\ Section' \subseteq Section \cup {s}
  BY DEF Section, InSection

(* Goto changes the pc of one request.                                     *)
LEMMA GotoPC ==
  ASSUME start \in [Start -> StartState], NEW s \in Start, NEW pc \in StartPC,
         Goto(s, pc)
  PROVE  start'[s].pc = pc /\ \A t \in Start \ {s} : start'[t] = start[t]
  BY DEF Goto, StartState

(* GotoWith changes the pc of one request, and what its loop has left.     *)
LEMMA GotoWithPC ==
  ASSUME start \in [Start -> StartState], NEW s \in Start, NEW pc, NEW left,
         GotoWith(s, pc, left)
  PROVE  start'[s].pc = pc /\ \A t \in Start \ {s} : start'[t] = start[t]
  BY DEF GotoWith, StartState

(* A step keeps the count of lapses unless the key expires.                *)
LEMMA StrikeLapsesNot ==
  ASSUME NEW kind, Strike(kind) \/ UNCHANGED faultVars
  PROVE  UNCHANGED lapsed
  BY DEF Strike, faultVars

(* The request's own steps.                                                *)
LEMMA StartStepLock ==
  ASSUME TypeOK, LockInv, NEW s \in Start, StartStep(s)
  PROVE  LockInv'
  <1>1. lapsed \in Nat
    BY DEF TypeOK
  <1>2. UNCHANGED lapsed
    BY StrikeLapsesNot
       DEF StartStep, StartRead, StartLock, StartLockRefused, BuildPlan, BuildPlanFails,
           StartUnlock, StartMark, StartMarkFails, StartProgress, StartClientGone
  <1>3. CASE StartLock(s)
    BY <1>1, <1>2, <1>3, GotoPC, OneStartMoves, SectionEntered
       DEF StartLock, Redis!SetScanLock, TypeOK, StartPC
  <1>4. CASE StartUnlock(s)
    <2>1. InSection(s) /\ ~InSection(s)'
      BY <1>4, GotoPC DEF StartUnlock, TypeOK, StartPC, InSection
    <2> QED
      BY <1>1, <1>2, <1>4, <2>1, GotoPC, OneStartMoves, SectionLeft
         DEF StartUnlock, TypeOK, StartPC
  <1>5. ASSUME \/ StartRead(s) \/ StartLockRefused(s) \/ BuildPlan(s) \/ BuildPlanFails(s)
               \/ StartMark(s) \/ StartMarkFails(s) \/ StartProgress(s) \/ StartClientGone(s)
        PROVE  /\ InSection(s)' => InSection(s)
               /\ \A t \in Start \ {s} : start'[t] = start[t]
               /\ UNCHANGED lock
    BY <1>5, GotoPC, GotoWithPC
       DEF StartRead, StartLockRefused, BuildPlan, BuildPlanFails, StartMark, StartMarkFails,
           StartProgress, StartClientGone, TypeOK, StartPC, InSection, redis
  <1> QED
    BY <1>1, <1>2, <1>3, <1>4, <1>5, OneStartMoves, SectionKept DEF StartStep

(* The steps of its dispatch goroutine.                                    *)
LEMMA DispatchStepLock ==
  ASSUME TypeOK, LockInv, NEW s \in Start, DispatchStep(s)
  PROVE  LockInv'
  <1>1. lapsed \in Nat
    BY DEF TypeOK
  <1>2. UNCHANGED lapsed
    BY StrikeLapsesNot
       DEF DispatchStep, DispatchEnqueue, DispatchFails, DispatchMarkFailed, DispatchCount,
           DispatchRelease, DispatchDeadline
  <1>3. CASE DispatchRelease(s)
    <2>1. InSection(s) /\ ~InSection(s)'
      BY <1>3, GotoPC DEF DispatchRelease, TypeOK, StartPC, InSection
    <2> QED
      BY <1>1, <1>2, <1>3, <2>1, GotoPC, OneStartMoves, SectionLeft
         DEF DispatchRelease, TypeOK, StartPC
  <1>4. ASSUME \/ DispatchEnqueue(s) \/ DispatchFails(s) \/ DispatchMarkFailed(s)
               \/ DispatchCount(s) \/ DispatchDeadline(s)
        PROVE  /\ InSection(s)' => InSection(s)
               /\ \A t \in Start \ {s} : start'[t] = start[t]
               /\ UNCHANGED lock
    BY <1>4, GotoPC, GotoWithPC
       DEF DispatchEnqueue, DispatchFails, DispatchMarkFailed, DispatchCount, DispatchDeadline,
           TypeOK, StartPC, InSection, redis
  <1> QED
    BY <1>1, <1>2, <1>3, <1>4, OneStartMoves, SectionKept DEF DispatchStep

(* Nothing else enters a section or takes the key.                         *)
LEMMA LockStep ==
  ASSUME TypeOK, LockInv, [Next]_vars
  PROVE  LockInv'
  <1>1. lapsed \in Nat
    BY DEF TypeOK
  <1>2. CASE \E s \in Start : StartStep(s)
    BY <1>2, StartStepLock
  <1>3. CASE \E s \in Start : DispatchStep(s)
    BY <1>3, DispatchStepLock
  <1>4. CASE LockExpires
    BY <1>1, <1>4, SectionLapses
  <1>5. CASE UNCHANGED <<start, lock, lapsed>>
    BY <1>1, <1>5, SectionKept DEF Section, InSection
  <1>6. CASE OrchestratorRestart
    <2>1. Section' \subseteq Section
      BY <1>6 DEF OrchestratorRestart, Section, InSection
    <2> QED
      BY <1>1, <1>6, <2>1, StrikeLapsesNot, SectionKept DEF OrchestratorRestart, redis
  <1>7. ASSUME NEW c \in Cancel, CancelStep(c)
        PROVE  UNCHANGED <<start, lock, lapsed>>
    BY <1>7, StrikeLapsesNot DEF CancelStep, CancelRead, CancelWrite, redis
  <1>8. ASSUME NEW w \in Worker, WorkerStep(w)
        PROVE  UNCHANGED <<start, lock, lapsed>>
    BY <1>8, StrikeLapsesNot
       DEF WorkerStep, WorkerPop, WorkerExecute, WorkerPost, WorkerPostLost,
           WorkerPostTimeout, WorkerStop, redis
  <1>9. ASSUME NEW c \in Call, CallStep(c)
        PROVE  UNCHANGED <<start, lock, lapsed>>
    BY <1>9, StrikeLapsesNot
       DEF CallStep, CallCompleted, CallGetJob, CallRetryFails, CallLogFailure,
           CallIncrement, CallRequeue, CallRequeueFails, CallFailed, CallDecr,
           CallReadScan, CallReadScanFails, CallWriteProgress, CallFinish,
           CallReply, CallAbort, CallPanics, redis
  <1>10. CASE RetrySweep \/ RetrySweepFails \/ UNCHANGED vars
    BY <1>5, <1>10, StrikeLapsesNot DEF RetrySweep, RetrySweepFails, vars
  <1> QED
    BY <1>2, <1>3, <1>4, <1>5, <1>6, <1>7, <1>8, <1>9, <1>10 DEF Next, Rest

(* What the lock of scans.go:118 guarantees, for any number of requests    *)
(* and under every fault: the starts between taking the scan's lock and    *)
(* giving it up are at most one more than the keys that lapsed under a     *)
(* start, and one fewer than that while the key is free, whichever start's *)
(* key each release removed.                                               *)
THEOREM StartsExclude == Spec => []StartExclusive
  <1>1. Init => LockInv
    <2>1. ASSUME Init PROVE Section = {} /\ lapsed = 0
      BY <2>1 DEF Init, Section, InSection
    <2> QED
      BY <2>1, FS_EmptySet DEF LockInv
  <1>2. TypeOK /\ LockInv /\ [Next]_vars => LockInv'
    BY LockStep
  <1>3. LockInv => StartExclusive
    BY DEF LockInv, StartExclusive
  <1> QED
    BY <1>1, <1>2, <1>3, TypeCorrect, PTL DEF Spec
-----------------------------------------------------------------------------
(* The inductive invariant behind AttemptsBounded: between the comparison  *)
(* of HandleRetry and the ZADD the handler holds an attempt below the      *)
(* maximum.  It does not mention the jobs' rows, which other handlers      *)
(* increment in between and beyond the maximum.                            *)
HandlersBounded ==
  \A c \in Call : call[c].pc \in {"increment", "requeue"} => call[c].attempt < MaxAttempts

AttemptInv == AttemptsBounded /\ HandlersBounded

(* Payloads of an attempt that may be run.                                 *)
BoundedPayload == {p \in Redis!Payload : p.attempt \in 1..MaxAttempts}

(* A first attempt is within the maximum.                                  *)
LEMMA FirstAttempt == 1 \in 1..MaxAttempts
  BY ConstantsAssumption DEF ConstantsAssumption

(* LPUSH of a bounded payload leaves a queue of bounded ones.              *)
LEMMA QueueBounded ==
  ASSUME queue \in Seq(Redis!Payload), AttemptsBounded,
         NEW p \in BoundedPayload, Redis!EnqueueJob(p)
  PROVE  \A i \in DOMAIN queue' : queue'[i].attempt \in 1..MaxAttempts
  BY DEF Redis!EnqueueJob, AttemptsBounded, BoundedPayload

(* BRPOP takes a bounded payload and leaves a queue of such.               *)
LEMMA PopBounded ==
  ASSUME queue \in Seq(Redis!Payload), AttemptsBounded, Redis!PopJob
  PROVE  /\ Head(queue) \in BoundedPayload
         /\ \A i \in DOMAIN queue' : queue'[i].attempt \in 1..MaxAttempts
  BY DEF Redis!PopJob, AttemptsBounded, BoundedPayload

(* A lost client does not change what its handler is about to do.          *)
LEMMA DetachBounded ==
  ASSUME call \in [Call -> CallState], HandlersBounded, NEW lost, Detach(lost)
  PROVE  HandlersBounded'
  <1> SUFFICES ASSUME NEW c \in Call, call'[c].pc \in {"increment", "requeue"}
               PROVE  call'[c].attempt < MaxAttempts
    BY DEF HandlersBounded
  <1>1. CASE call'[c] = call[c]
    BY <1>1 DEF HandlersBounded
  <1>2. CASE call'[c] = [call[c] EXCEPT !.attached = FALSE] /\ call[c] # Free
    <2>1. call[c].pc \in {"increment", "requeue"}
      BY <1>2, CallShape DEF CallState, DecidingState, CountingState, ClosingState
    <2>2. call[c] \in DecidingState
      BY <2>1, CallShape DEF DecidingPC
    <2> QED
      BY <1>2, <2>1, <2>2 DEF HandlersBounded, DecidingState
  <1> QED
    BY <1>1, <1>2 DEF Detach

(* A start request touches the queue when it dispatches, and nothing else  *)
(* that carries an attempt.                                                *)
LEMMA DispatchStepAttempt ==
  ASSUME TypeOK, AttemptInv, NEW s \in Start, DispatchStep(s)
  PROVE  AttemptInv'
  <1>1. CASE DispatchEnqueue(s)
    <2>1. PICK t \in start[s].left : Redis!EnqueueJob([job |-> <<s, t>>, attempt |-> 1])
      BY <1>1 DEF DispatchEnqueue
    <2>2. start[s].left \subseteq Task
      BY DEF TypeOK, StartState
    <2>3. [job |-> <<s, t>>, attempt |-> 1] \in BoundedPayload
      BY <2>1, <2>2, FirstAttempt DEF BoundedPayload, Redis!Payload, Job
    <2>4. \A i \in DOMAIN queue' : queue'[i].attempt \in 1..MaxAttempts
      BY <2>1, <2>3, QueueBounded DEF AttemptInv, TypeOK, Redis!QueueTypeOK
    <2>5. UNCHANGED <<retry, worker, call>>
      BY <1>1 DEF DispatchEnqueue
    <2> QED
      BY <2>4, <2>5 DEF AttemptInv, AttemptsBounded, HandlersBounded
  <1>2. CASE \/ DispatchFails(s) \/ DispatchMarkFailed(s) \/ DispatchCount(s)
             \/ DispatchRelease(s) \/ DispatchDeadline(s)
    <2>1. UNCHANGED <<queue, retry, worker, call>>
      BY <1>2 DEF DispatchFails, DispatchMarkFailed, DispatchCount, DispatchRelease,
                  DispatchDeadline, redis
    <2> QED
      BY <2>1 DEF AttemptInv, AttemptsBounded, HandlersBounded
  <1> QED
    BY <1>1, <1>2 DEF DispatchStep

(* A worker keeps the attempt of the payload that it took.                 *)
LEMMA WorkerStepAttempt ==
  ASSUME TypeOK, AttemptInv, NEW w \in Worker, WorkerStep(w)
  PROVE  AttemptInv'
  <1> DEFINE Bounded(state) == state # Polling => state.attempt \in 1..MaxAttempts
  <1>1. \A v \in Worker : Bounded(worker[v])
    BY DEF AttemptInv, AttemptsBounded
  <1>2. CASE WorkerPop(w)
    <2>1. Redis!PopJob
      BY <1>2 DEF WorkerPop
    <2>2. /\ Head(queue) \in BoundedPayload
          /\ \A i \in DOMAIN queue' : queue'[i].attempt \in 1..MaxAttempts
      BY <2>1, PopBounded DEF AttemptInv, TypeOK, Redis!QueueTypeOK
    <2>3. \A v \in Worker : Bounded(worker'[v])
      BY <1>1, <1>2, <2>2 DEF WorkerPop, BoundedPayload, TypeOK
    <2>4. UNCHANGED <<retry, call>>
      BY <1>2 DEF WorkerPop
    <2> QED
      BY <2>2, <2>3, <2>4 DEF AttemptInv, AttemptsBounded, HandlersBounded
  <1>3. CASE WorkerExecute(w)
    <2>1. worker[w] \in BusyState
      BY <1>3 DEF WorkerExecute, TypeOK, WorkerState, Polling
    <2>2. \A v \in Worker : Bounded(worker'[v])
      BY <1>1, <1>3, <2>1 DEF WorkerExecute, TypeOK, BusyState, Polling
    <2> QED
      BY <1>3, <2>2 DEF WorkerExecute, AttemptInv, AttemptsBounded, HandlersBounded, redis
  <1>4. CASE WorkerPost(w)
    <2>1. worker[w] \in BusyState
      BY <1>4 DEF WorkerPost, TypeOK, WorkerState, Polling
    <2>2. \A v \in Worker : Bounded(worker'[v])
      BY <1>1, <1>4, <2>1 DEF WorkerPost, TypeOK, BusyState, Polling
    <2>3. HandlersBounded'
      BY <1>4 DEF WorkerPost, AttemptInv, HandlersBounded, TypeOK
    <2> QED
      BY <1>4, <2>2, <2>3 DEF WorkerPost, AttemptInv, AttemptsBounded, redis
  <1>5. CASE WorkerPostLost(w) \/ WorkerPostTimeout(w) \/ WorkerStop(w)
    <2>1. worker[w] \in BusyState
      BY <1>5 DEF WorkerPostLost, WorkerPostTimeout, WorkerStop, TypeOK, WorkerState, Polling
    <2>2. Bounded(AfterFailedPost(worker[w]))
      BY <1>1, <2>1 DEF AfterFailedPost, BusyState, Polling
    <2>3. \A v \in Worker : Bounded(worker'[v])
      BY <1>1, <1>5, <2>2 DEF WorkerPostLost, WorkerPostTimeout, WorkerStop, TypeOK
    <2>4. HandlersBounded'
      BY <1>5, DetachBounded DEF WorkerPostLost, WorkerPostTimeout, WorkerStop,
                                 AttemptInv, TypeOK, HandlersBounded
    <2> QED
      BY <1>5, <2>3, <2>4 DEF WorkerPostLost, WorkerPostTimeout, WorkerStop,
                              AttemptInv, AttemptsBounded, redis
  <1> QED
    BY <1>2, <1>3, <1>4, <1>5 DEF WorkerStep

(* A handler re-queues the attempt it compared with the maximum, plus one. *)
LEMMA CallStepAttempt ==
  ASSUME TypeOK, AttemptInv, NEW c \in Call, CallStep(c)
  PROVE  AttemptInv'
  <1> USE DEF AttemptInv
  <1>1. CASE CallGetJob(c)
    <2>1. call[c] \in DecidingState
      BY <1>1, CallShape DEF CallGetJob, At, DecidingPC, TypeOK
    <2>2. job[call[c].job].attempt \in Nat
      BY <2>1 DEF DecidingState, TypeOK, DB!StoreTypeOK, DB!JobRow
    <2>3. call'[c].pc = "increment" => call'[c].attempt < MaxAttempts
      BY <1>1, <2>1, <2>2, ConstantsAssumption
         DEF CallGetJob, Exhausted, DecidingState, TypeOK, ConstantsAssumption
    <2>4. call'[c].pc # "requeue" /\ \A d \in Call \ {c} : call'[d] = call[d]
      BY <1>1, <2>1 DEF CallGetJob, DecidingState, TypeOK
    <2>5. UNCHANGED <<queue, retry, worker>>
      BY <1>1 DEF CallGetJob, redis
    <2> QED
      BY <2>3, <2>4, <2>5 DEF AttemptsBounded, HandlersBounded
  <1>2. CASE CallIncrement(c)
    <2>1. call[c] \in DecidingState /\ call[c].pc = "increment"
      BY <1>2, CallShape DEF CallIncrement, At, DecidingPC, TypeOK
    <2>2. call'[c].attempt = call[c].attempt /\ \A d \in Call \ {c} : call'[d] = call[d]
      BY <1>2, <2>1 DEF CallIncrement, Move, DecidingState, TypeOK
    <2>3. UNCHANGED <<queue, retry, worker>>
      BY <1>2 DEF CallIncrement, redis
    <2> QED
      BY <2>1, <2>2, <2>3 DEF AttemptsBounded, HandlersBounded
  <1>3. CASE CallRequeue(c)
    <2>1. call[c] \in DecidingState /\ call[c].pc = "requeue"
      BY <1>3, CallShape DEF CallRequeue, At, DecidingPC, TypeOK
    <2>2. call[c].attempt + 1 \in 1..MaxAttempts
      BY <2>1, ConstantsAssumption DEF HandlersBounded, DecidingState, ConstantsAssumption
    <2>3. \A p \in retry' : p.attempt \in 1..MaxAttempts
      BY <1>3, <2>2 DEF CallRequeue, Redis!EnqueueRetry, AttemptsBounded
    <2>4. HandlersBounded'
      BY <1>3 DEF CallRequeue, MoveToCounting, HandlersBounded, TypeOK
    <2>5. UNCHANGED <<queue, worker>>
      BY <1>3 DEF CallRequeue
    <2> QED
      BY <2>3, <2>4, <2>5 DEF AttemptsBounded
  <1>4. CASE CallReply(c)
    <2>1. HandlersBounded'
      BY <1>4 DEF CallReply, Free, HandlersBounded, TypeOK
    <2>2. \A w \in Worker : worker'[w] \in {worker[w], Polling}
      BY <1>4 DEF CallReply, TypeOK
    <2>3. UNCHANGED <<queue, retry>>
      BY <1>4 DEF CallReply, redis
    <2> QED
      BY <2>1, <2>2, <2>3 DEF AttemptsBounded
  <1>5. ASSUME UNCHANGED <<queue, retry, worker>>,
               call'[c].pc \notin {"increment", "requeue"},
               \A d \in Call \ {c} : call'[d] = call[d]
        PROVE  AttemptInv'
    BY <1>5 DEF AttemptsBounded, HandlersBounded
  <1>6. CASE CallCompleted(c) \/ CallFailed(c)
    BY <1>5, <1>6 DEF CallCompleted, CallFailed, MoveToCounting, redis, TypeOK
  <1>7. CASE CallRetryFails(c) \/ CallLogFailure(c) \/ CallRequeueFails(c)
    <2>1. call[c] \in DecidingState /\ MoveToFail(c)
      BY <1>7, CallShape DEF CallRetryFails, CallLogFailure, CallRequeueFails, At,
                             DecidingPC, TypeOK
    <2> QED
      BY <1>5, <1>7, <2>1 DEF CallRetryFails, CallLogFailure, CallRequeueFails,
                              MoveToFail, DecidingState, redis, TypeOK
  <1>8. CASE CallDecr(c) \/ CallReadScan(c)
    <2>1. call[c] \in CountingState
      BY <1>8, CallShape DEF CallDecr, CallReadScan, At, CountingPC, TypeOK
    <2> QED
      BY <1>5, <1>8, <2>1 DEF CallDecr, CallReadScan, CountingState, redis, TypeOK
  <1>9. CASE CallReadScanFails(c) \/ CallWriteProgress(c)
    BY <1>5, <1>9 DEF CallReadScanFails, CallWriteProgress, MoveToClosing, redis, TypeOK
  <1>10. CASE CallFinish(c)
    <2>1. call[c] \in ClosingState
      BY <1>10, CallShape DEF CallFinish, At, ClosingPC, TypeOK
    <2> QED
      BY <1>5, <1>10, <2>1 DEF CallFinish, Move, ClosingState, redis, TypeOK
  <1>11. CASE CallAbort(c)
    BY <1>5, <1>11 DEF CallAbort, Free, redis, TypeOK
  <1>12. CASE CallPanics(c)
    <2>1. \A w \in Worker : worker[w].pc = "waiting" => worker[w] \in BusyState
      BY DEF TypeOK, WorkerState, Polling
    <2>2. \A state \in BusyState :
            AfterFailedPost(state) # Polling => AfterFailedPost(state).attempt = state.attempt
      BY DEF AfterFailedPost, BusyState
    <2>3. \A w \in Worker : worker'[w] # Polling =>
            worker[w] # Polling /\ worker'[w].attempt = worker[w].attempt
      BY <1>12, <2>1, <2>2 DEF CallPanics, Polling
    <2>4. HandlersBounded'
      BY <1>12 DEF CallPanics, Free, HandlersBounded, TypeOK
    <2>5. UNCHANGED <<queue, retry>>
      BY <1>12 DEF CallPanics, redis
    <2> QED
      BY <2>3, <2>4, <2>5 DEF AttemptsBounded
  <1> QED
    BY <1>1, <1>2, <1>3, <1>4, <1>6, <1>7, <1>8, <1>9, <1>10, <1>11, <1>12 DEF CallStep

(* No step brings an attempt beyond the maximum into a queue or a worker.  *)
LEMMA AttemptStep ==
  ASSUME TypeOK, AttemptInv, [Next]_vars
  PROVE  AttemptInv'
  <1> USE DEF AttemptInv
  <1>1. CASE \E s \in Start : StartStep(s)
    BY <1>1 DEF StartStep, StartRead, StartLock, StartLockRefused, BuildPlan,
                BuildPlanFails, StartUnlock, StartMark, StartMarkFails, StartProgress,
                StartClientGone, redis, AttemptsBounded, HandlersBounded
  <1>2. CASE \E s \in Start : DispatchStep(s)
    BY <1>2, DispatchStepAttempt
  <1>3. CASE \E c \in Cancel : CancelStep(c)
    BY <1>3 DEF CancelStep, CancelRead, CancelWrite, redis, AttemptsBounded, HandlersBounded
  <1>4. CASE \E w \in Worker : WorkerStep(w)
    BY <1>4, WorkerStepAttempt
  <1>5. CASE \E c \in Call : CallStep(c)
    BY <1>5, CallStepAttempt
  <1>6. CASE RetrySweep
    <2>1. PICK p \in retry : Redis!ProcessRetry(p)
      BY <1>6 DEF RetrySweep
    <2>2. p \in BoundedPayload
      BY DEF AttemptsBounded, BoundedPayload, TypeOK, Redis!QueueTypeOK
    <2>3. \A i \in DOMAIN queue' : queue'[i].attempt \in 1..MaxAttempts
      BY <2>1, <2>2, QueueBounded DEF Redis!ProcessRetry, TypeOK, Redis!QueueTypeOK
    <2>4. retry' \subseteq retry
      BY <2>1 DEF Redis!ProcessRetry
    <2>5. UNCHANGED <<worker, call>>
      BY <1>6 DEF RetrySweep
    <2> QED
      BY <2>3, <2>4, <2>5 DEF AttemptsBounded, HandlersBounded
  <1>7. CASE RetrySweepFails
    BY <1>7 DEF RetrySweepFails, AttemptsBounded, HandlersBounded
  <1>8. CASE OrchestratorRestart
    <2>1. \A w \in Worker : worker'[w] # Polling => worker'[w].attempt = worker[w].attempt
      <3>1. \A w \in Worker : worker[w].pc = "waiting" => worker[w] \in BusyState
        BY DEF TypeOK, WorkerState, Polling
      <3>2. \A state \in BusyState :
              AfterFailedPost(state) # Polling => AfterFailedPost(state).attempt = state.attempt
        BY DEF AfterFailedPost, BusyState
      <3> QED
        BY <1>8, <3>1, <3>2 DEF OrchestratorRestart
    <2>2. \A w \in Worker : worker[w] = Polling => worker'[w] = Polling
      BY <1>8 DEF OrchestratorRestart, Polling, TypeOK
    <2>3. HandlersBounded'
      BY <1>8 DEF OrchestratorRestart, Free, HandlersBounded
    <2>4. UNCHANGED <<queue, retry>>
      BY <1>8 DEF OrchestratorRestart, redis
    <2> QED
      BY <2>1, <2>2, <2>3, <2>4 DEF AttemptsBounded
  <1>9. CASE LockExpires \/ UNCHANGED vars
    BY <1>9 DEF LockExpires, vars, AttemptsBounded, HandlersBounded
  <1> QED
    BY <1>1, <1>2, <1>3, <1>4, <1>5, <1>6, <1>7, <1>8, <1>9 DEF Next, Rest

(* The invariant holds throughout.                                         *)
LEMMA AttemptsHold == Spec => []AttemptInv
  <1>1. Init => AttemptInv
    BY DEF Init, Redis!QueueInit, Free, AttemptInv, AttemptsBounded, HandlersBounded
  <1>2. TypeOK /\ AttemptInv /\ [Next]_vars => AttemptInv'
    BY AttemptStep
  <1> QED
    BY <1>1, <1>2, TypeCorrect, PTL DEF Spec

(* No job is run beyond the scan's max_retries: every payload in a Redis   *)
(* queue or with a worker stands for an attempt within the maximum, under  *)
(* every fault and with any number of handlers that retry the same job at  *)
(* once, even when they bring the attempt column above the maximum.        *)
THEOREM AttemptsStayBounded == Spec => []AttemptsBounded
  <1>1. AttemptInv => AttemptsBounded
    BY DEF AttemptInv
  <1> QED
    BY <1>1, AttemptsHold, PTL
=============================================================================
