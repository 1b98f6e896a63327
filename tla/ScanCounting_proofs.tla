------------------------- MODULE ScanCounting_proofs -------------------------
(***************************************************************************)
(* What the scan's counters count, and that a scan is ended, for every     *)
(* value of the constants.                                                 *)
(***************************************************************************)
EXTENDS ScanJobs_proofs

(* A set gets, or loses, one member.                                       *)
LEMMA OneMore ==
  ASSUME NEW S, IsFiniteSet(S), NEW x
  PROVE  /\ IsFiniteSet(S \cup {x}) /\ Cardinality(S) \in Nat
         /\ Cardinality(S \cup {x}) = Cardinality(S) + IF x \in S THEN 0 ELSE 1
  BY FS_AddElement, FS_CardinalityType

LEMMA OneLess ==
  ASSUME NEW S, IsFiniteSet(S), NEW x
  PROVE  /\ IsFiniteSet(S \ {x}) /\ Cardinality(S) \in Nat
         /\ Cardinality(S \ {x}) = Cardinality(S) - IF x \in S THEN 1 ELSE 0
  BY FS_RemoveElement, FS_CardinalityType

LEMMA NoMore ==
  ASSUME NEW S, IsFiniteSet(S), NEW T, T \subseteq S
  PROVE  /\ IsFiniteSet(T) /\ Cardinality(S) \in Nat /\ Cardinality(T) \in Nat
         /\ Cardinality(T) <= Cardinality(S)
  BY FS_Subset, FS_CardinalityType
-----------------------------------------------------------------------------
(* Under every fault, what anybody has is a job whose row is there, and a  *)
(* row that is there is at its first attempt at least.                     *)
Planning == {"mark", "progress", "enqueue", "count", "fail", "release", "done"}

PlanInv ==
  \A j \in Job :
    /\ job[j].status # "absent" => job[j].attempt >= 1
    /\ ~Untouched(j) \/ start[j[1]].pc \in Planning => job[j].status # "absent"

(* Only its dispatch touches a job that nobody has.                        *)
LEMMA TouchStep ==
  ASSUME TypeOK, NEW j \in Job, Untouched(j), ~ToPush(j), [Next]_vars
  PROVE  Untouched(j)'
  <1>1. ASSUME queue' = queue, retry' \subseteq retry,
               \A w \in Worker : worker'[w] # Polling =>
                 worker[w] # Polling /\ worker'[w].job = worker[w].job,
               \A c \in Call : call'[c].pc \in DecidingPC =>
                 call[c].pc \in DecidingPC /\ call'[c].job = call[c].job
        PROVE  Untouched(j)'
    BY <1>1 DEF Untouched, Queued, Retrying, Deciding
  <1>2. CASE \/ \E s \in Start : StartStep(s)
             \/ \E c \in Cancel : CancelStep(c)
             \/ LockExpires \/ RetrySweepFails \/ UNCHANGED vars
    <2>1. UNCHANGED <<queue, worker, call>> /\ retry' \subseteq retry
      BY <1>2 DEF StartStep, StartRead, StartLock, StartLockRefused, BuildPlan, BuildPlanFails,
         StartUnlock, StartMark, StartMarkFails, StartProgress, StartClientGone,
         CancelStep, CancelRead, CancelWrite, LockExpires, RetrySweepFails, vars, redis
    <2> QED
      BY <1>1, <2>1
  <1>3. ASSUME NEW s \in Start, DispatchStep(s)
        PROVE  Untouched(j)'
    <2>1. CASE DispatchEnqueue(s)
      <3>1. PICK t \in start[s].left : Redis!EnqueueJob([job |-> <<s, t>>, attempt |-> 1])
        BY <2>1 DEF DispatchEnqueue
      <3>2. t \in Task /\ j # <<s, t>>
        BY <2>1 DEF TypeOK, StartState, DispatchEnqueue, ToPush
      <3>3. PICK p \in Redis!Payload : p.job = <<s, t>> /\ Redis!EnqueueJob(p)
        BY <3>1, <3>2 DEF Redis!Payload, Job
      <3>4. Queued(j)' = Queued(j)
        BY <3>2, <3>3, Pushed DEF TypeOK, Redis!QueueTypeOK
      <3> QED
        BY <2>1, <3>4 DEF DispatchEnqueue, Untouched, Retrying, Deciding
    <2>2. CASE ~DispatchEnqueue(s)
      <3>1. UNCHANGED <<queue, retry, worker, call>>
        BY <1>3, <2>2 DEF DispatchStep, DispatchFails, DispatchMarkFailed, DispatchCount,
           DispatchRelease, DispatchDeadline, redis
      <3> QED
        BY <1>1, <3>1
    <2> QED
      BY <2>1, <2>2
  <1>4. CASE RetrySweep
    <2>1. PICK p \in retry : Redis!ProcessRetry(p)
      BY <1>4 DEF RetrySweep
    <2>2. p \in Redis!Payload /\ Redis!EnqueueJob(p) /\ retry' = retry \ {p}
      BY <2>1 DEF Redis!ProcessRetry, TypeOK, Redis!QueueTypeOK
    <2>3. Queued(j)' = Queued(j)
      BY <2>2, Pushed DEF TypeOK, Redis!QueueTypeOK, Untouched, Retrying
    <2> QED
      BY <1>4, <2>2, <2>3 DEF RetrySweep, Untouched, Retrying, Deciding
  <1>5. ASSUME NEW w \in Worker, WorkerStep(w)
        PROVE  Untouched(j)'
    <2>1. CASE WorkerPop(w)
      <3>1. queue \in Seq(Redis!Payload) /\ UNCHANGED <<retry, call>>
        BY <2>1 DEF WorkerPop, TypeOK, Redis!QueueTypeOK
      <3>2. /\ 1 \in DOMAIN queue /\ Head(queue) = queue[1]
            /\ \A i \in DOMAIN queue' : i + 1 \in DOMAIN queue /\ queue'[i] = queue[i + 1]
        BY <2>1, <3>1, Popped DEF WorkerPop
      <3>3. /\ worker'[w].job = queue[1].job
            /\ \A v \in Worker : v # w => worker'[v] = worker[v]
        BY <2>1, <3>2 DEF WorkerPop, TypeOK
      <3>4. queue[1].job # j /\ Queued(j)' = {}
        BY <3>2 DEF Untouched, Queued
      <3> QED
        BY <3>1, <3>3, <3>4 DEF Untouched, Retrying, Deciding
    <2>2. CASE WorkerPost(w)
      <3>1. worker[w] \in BusyState
        BY <2>2, WorkerShape DEF WorkerPost, TypeOK
      <3>2. /\ worker[w] \in BusyState /\ worker[w] # Polling
            /\ worker' = [worker EXCEPT ![w].pc = "waiting"]
            /\ \E c \in Call : call' = [call EXCEPT ![c] =
                 [pc |-> "outcome", worker |-> w, attached |-> TRUE,
                  job |-> worker[w].job, status |-> worker[w].outcome, attempt |-> 0]]
            /\ UNCHANGED <<queue, retry>>
        <4>1. worker[w].pc = "posting" /\ worker[w] # Polling
          BY <2>2 DEF WorkerPost, Polling
        <4>2. UNCHANGED <<queue, retry>>
          BY <2>2 DEF WorkerPost, redis
        <4> QED
          BY <2>2, <3>1, <4>1, <4>2 DEF WorkerPost
      <3>3. worker[w].job # j
        BY <3>2 DEF Untouched
      <3>4. Deciding(j)' = {}
        BY <3>2, <3>3 DEF Untouched, Deciding, TypeOK
      <3>5. \A v \in Worker : worker'[v] # Polling => worker'[v].job # j
        BY <3>2, <3>3 DEF Untouched, TypeOK, BusyState
      <3> QED
        BY <3>2, <3>4, <3>5 DEF Untouched, Queued, Retrying
    <2>3. CASE WorkerExecute(w) \/ WorkerPostLost(w) \/ WorkerPostTimeout(w) \/ WorkerStop(w)
      <3>1. worker[w] \in BusyState /\ UNCHANGED <<queue, retry>>
        BY <2>3, WorkerShape DEF WorkerExecute, WorkerPostLost, WorkerPostTimeout, WorkerStop,
           TypeOK, redis
      <3>2. worker'[w] # Polling => worker'[w].job = worker[w].job
        <4>1. CASE WorkerExecute(w)
          BY <3>1, <4>1 DEF WorkerExecute, TypeOK, BusyState
        <4>2. CASE WorkerPostLost(w) \/ WorkerPostTimeout(w)
          BY <3>1, <4>2, FailedPostKeeps DEF WorkerPostLost, WorkerPostTimeout, TypeOK
        <4>3. CASE WorkerStop(w)
          BY <4>3 DEF WorkerStop, TypeOK
        <4> QED
          BY <2>3, <4>1, <4>2, <4>3
      <3>3. worker[w] # Polling /\ \A v \in Worker : v # w => worker'[v] = worker[v]
        BY <2>3, <3>1 DEF WorkerExecute, WorkerPostLost, WorkerPostTimeout, WorkerStop,
           TypeOK, BusyState, Polling
      <3>4. call' = call \/ Detach({w})
        BY <2>3 DEF WorkerExecute, WorkerPostLost, WorkerPostTimeout, WorkerStop
      <3> QED
        BY <1>1, <3>1, <3>2, <3>3, <3>4, DetachKeeps
    <2> QED
      BY <1>5, <2>1, <2>2, <2>3 DEF WorkerStep
  <1>6. ASSUME NEW c \in Call, CallStep(c)
        PROVE  Untouched(j)'
    <2>1. CASE CallReply(c) \/ CallAbort(c) \/ CallPanics(c)
      <3>1. /\ UNCHANGED <<queue, retry>>
            /\ \A v \in Worker : worker'[v] # Polling =>
                 worker[v] # Polling /\ worker'[v].job = worker[v].job
        BY <2>1, FailedPostKeeps DEF CallReply, CallAbort, CallPanics, redis, TypeOK
      <3>2. \A d \in Call : call'[d] = call[d] \/ call'[d] = Free
        BY <2>1 DEF CallReply, CallAbort, CallPanics, TypeOK
      <3> QED
        BY <1>1, <3>1, <3>2 DEF Free, DecidingPC
    <2>2. CASE CallRequeue(c)
      <3>1. /\ c \in Deciding(call[c].job) /\ MoveToCounting(c)
            /\ retry' = retry \cup {[job |-> call[c].job, attempt |-> call[c].attempt + 1]}
            /\ UNCHANGED <<queue, worker>>
        BY <2>2 DEF CallRequeue, At, Deciding, DecidingPC, Redis!EnqueueRetry
      <3>2. call[c].job # j
        BY <3>1 DEF Untouched
      <3>3. Retrying(j)' = Retrying(j)
        BY <3>1, <3>2 DEF Retrying
      <3>4. Deciding(j)' = {}
        BY <3>1, HandlerMoves DEF Untouched, Deciding, DecidingPC
      <3> QED
        BY <3>1, <3>3, <3>4 DEF Untouched, Queued
    <2>3. CASE GoesOn(c) /\ UNCHANGED worker /\ ~CallRequeue(c)
      <3>1. UNCHANGED <<queue, retry>>
        BY <1>6, <2>1, <2>3 DEF CallStep, CallCompleted, CallGetJob, CallRetryFails,
           CallLogFailure, CallIncrement, CallRequeueFails, CallFailed, CallDecr,
           CallReadScan, CallReadScanFails, CallWriteProgress, CallFinish, CallReply,
           CallAbort, CallPanics, redis
      <3>2. \A d \in Call : call'[d].pc \in DecidingPC =>
              call[d].pc \in DecidingPC /\ call'[d].job = call[d].job
        BY <2>3 DEF GoesOn
      <3> QED
        BY <1>1, <2>3, <3>1, <3>2
    <2> QED
      BY <1>6, <2>1, <2>2, <2>3, HandlerGoesOn
  <1>7. CASE OrchestratorRestart
    <2>1. \A v \in Worker : worker'[v] # Polling =>
            worker[v] # Polling /\ worker'[v].job = worker[v].job
      BY <1>7, FailedPostKeeps DEF OrchestratorRestart, TypeOK
    <2> QED
      BY <1>1, <1>7, <2>1 DEF OrchestratorRestart, Free, DecidingPC, redis
  <1> QED
    BY <1>2, <1>3, <1>4, <1>5, <1>6, <1>7 DEF Next, Rest

(* A start gets there by inserting all rows of its plan.                   *)
LEMMA PlanningStep ==
  ASSUME TypeOK, NEW s \in Start, start'[s].pc \in Planning, [Next]_vars
  PROVE  start[s].pc \in Planning \/ DB!CreateJobs({s} \X Task)
  <1> USE DEF Planning
  <1>1. CASE start'[s] = start[s]
    BY <1>1
  <1>2. ASSUME NEW t \in Start, StartStep(t) \/ DispatchStep(t), t # s
        PROVE  start'[s] = start[s]
    BY <1>2 DEF StartStep, StartRead, StartLock, StartLockRefused, BuildPlan, BuildPlanFails,
       StartUnlock, StartMark, StartMarkFails, StartProgress, StartClientGone,
       DispatchStep, DispatchEnqueue, DispatchFails, DispatchMarkFailed, DispatchCount,
       DispatchRelease, DispatchDeadline, TypeOK, Goto, GotoWith
  <1>3. CASE StartStep(s) \/ DispatchStep(s)
    <2>1. CASE BuildPlan(s)
      BY <2>1 DEF BuildPlan
    <2>2. CASE StartRead(s) \/ StartLock(s) \/ StartLockRefused(s) \/ BuildPlanFails(s) \/ StartUnlock(s)
      <3>1. \E pc \in {"rejected", "lock", "plan", "unlock"} : Goto(s, pc)
        BY <2>2 DEF StartRead, StartLock, StartLockRefused, BuildPlanFails, StartUnlock
      <3> QED
        BY <3>1, GotoPC DEF TypeOK, StartPC
    <2>3. CASE StartClientGone(s)
      <3>1. start[s].pc # "progress" => start'[s].pc = "rejected"
        BY <2>3, GotoPC DEF StartClientGone, TypeOK, StartPC
      <3> QED
        BY <3>1
    <2> QED
      BY <1>3, <2>1, <2>2, <2>3 DEF StartStep, StartMark, StartMarkFails, StartProgress,
         DispatchStep, DispatchEnqueue, DispatchFails, DispatchMarkFailed, DispatchCount,
         DispatchRelease, DispatchDeadline
  <1>4. CASE OrchestratorRestart
    BY <1>4 DEF OrchestratorRestart
  <1>5. CASE \/ \E c \in Cancel : CancelStep(c)
             \/ \E w \in Worker : WorkerStep(w)
             \/ \E c \in Call : CallStep(c)
             \/ LockExpires \/ RetrySweep \/ RetrySweepFails \/ UNCHANGED vars
    <2>1. start' = start
      BY <1>5 DEF CancelStep, CancelRead, CancelWrite, WorkerStep, WorkerPop,
         WorkerExecute, WorkerPost, WorkerPostLost, WorkerPostTimeout, WorkerStop,
         CallStep, CallCompleted, CallGetJob, CallRetryFails, CallLogFailure, CallIncrement,
         CallRequeue, CallRequeueFails, CallFailed, CallDecr, CallReadScan, CallReadScanFails,
         CallWriteProgress, CallFinish, CallReply, CallAbort, CallPanics,
         LockExpires, RetrySweep, RetrySweepFails, vars
    <2> QED
      BY <1>1, <2>1
  <1> QED
    BY <1>1, <1>2, <1>3, <1>4, <1>5 DEF Next, Rest

LEMMA PlanStep ==
  ASSUME TypeOK, AttemptInv, JobInv, PlanInv, [Next]_vars
  PROVE  PlanInv'
  <1> SUFFICES ASSUME NEW j \in Job
               PROVE  /\ job'[j].status # "absent" => job'[j].attempt >= 1
                      /\ ~Untouched(j)' \/ start'[j[1]].pc \in Planning =>
                           job'[j].status # "absent"
    BY DEF PlanInv
  <1>1. RowsStep
    BY RowsMove
  <1>2. job \in [Job -> DB!JobRow] /\ job[j].attempt \in Nat /\ j[1] \in Start
    BY DEF TypeOK, DB!StoreTypeOK, DB!JobRow, Job
  <1>3. ASSUME NEW k \in Job, Deciding(k) # {}
        PROVE  job[k].status # "absent"
    BY <1>3 DEF PlanInv, Untouched
  <1>4. \/ job'[j] = job[j]
        \/ job'[j] = [status |-> "queued", attempt |-> 1]
        \/ /\ job[j].status # "absent" /\ job'[j].status # "absent"
           /\ job'[j].attempt \in {job[j].attempt, job[j].attempt + 1}
    <2>1. CASE UNCHANGED job
      BY <2>1
    <2>2. CASE Planned
      BY <2>2 DEF Planned, DB!CreateJobs
    <2>3. ASSUME NEW k \in Job, Settled(k)
          PROVE  \/ job'[j] = job[j]
                 \/ /\ job[j].status # "absent" /\ job'[j].status # "absent"
                    /\ job'[j].attempt = job[j].attempt
      BY <1>2, <1>3, <2>3 DEF Settled, DB!UpdateJobStatus, Outcome, DB!JobRow
    <2>4. ASSUME NEW k \in Job, Retried(k)
          PROVE  \/ job'[j] = job[j]
                 \/ /\ job[j].status # "absent" /\ job'[j].status # "absent"
                    /\ job'[j].attempt = job[j].attempt + 1
      BY <1>2, <1>3, <2>4 DEF Retried, DB!IncrementJobAttempt, DB!JobRow
    <2> QED
      BY <1>1, <2>1, <2>2, <2>3, <2>4 DEF RowsStep
  <1>5. job'[j].status # "absent" => job'[j].attempt >= 1
    BY <1>2, <1>4 DEF PlanInv
  <1>6. job[j].status # "absent" => job'[j].status # "absent"
    BY <1>4
  <1>7. CASE ~Untouched(j)'
    <2>1. ~Untouched(j) \/ ToPush(j)
      BY <1>7, TouchStep
    <2>2. ToPush(j) => job[j].status # "absent"
      BY DEF JobInv, Fresh, FreshRow
    <2> QED
      BY <1>5, <1>6, <2>1, <2>2 DEF PlanInv
  <1>8. CASE start'[j[1]].pc \in Planning
    <2>1. start[j[1]].pc \in Planning \/ DB!CreateJobs({j[1]} \X Task)
      BY <1>2, <1>8, PlanningStep
    <2>2. j \in {j[1]} \X Task
      BY DEF Job
    <2>3. DB!CreateJobs({j[1]} \X Task) => job'[j].status # "absent"
      BY <2>2 DEF DB!CreateJobs
    <2> QED
      BY <1>5, <1>6, <2>1, <2>3 DEF PlanInv
  <1> QED
    BY <1>5, <1>7, <1>8

LEMMA PlanHolds == Spec => []PlanInv
  <1>1. ASSUME Init
        PROVE  PlanInv
    <2>1. \A j \in Job : job[j].status = "absent" /\ j[1] \in Start /\ start[j[1]].pc = "new"
      BY <1>1 DEF Init, DB!StoreInit, Job
    <2>2. \A j \in Job : Untouched(j)
      BY <1>1 DEF Init, Redis!QueueInit, Untouched, Queued, Retrying, Deciding, Free, DecidingPC
    <2> QED
      BY <2>1, <2>2 DEF PlanInv, Planning
  <1> QED
    BY <1>1, PlanStep, JobsHold, AttemptsHold, TypeCorrect, PTL DEF Spec
-----------------------------------------------------------------------------
(* What a step does to the sets that are counted.                          *)
OpenAt(j, a) == j \in Job /\ a \in 1..MaxAttempts /\ job[j].attempt = a /\ Unsettled(j)

(* The rows of a plan are inserted: nothing to count yet.                  *)
LEMMA PlannedSets ==
  ASSUME TypeOK, Planned
  PROVE  UNCHANGED <<Recorded, FailedAttempts, CompletedJobs>>
  <1>1. PICK new \in SUBSET Job :
          DB!CreateJobs(new) /\ \A j \in new : job[j] = [status |-> "absent", attempt |-> 0]
    BY DEF Planned
  <1>2. \A p \in Attempts : p[1] \in Job /\ p[2] \in Nat /\ p[2] >= 1
    BY ConstantsAssumption DEF Attempts, ConstantsAssumption
  <1>3. \A j \in Job : job'[j] = IF j \in new THEN [status |-> "queued", attempt |-> 1] ELSE job[j]
    BY <1>1 DEF DB!CreateJobs
  <1>4. \A p \in Attempts : p \in Recorded' <=> p \in Recorded
    BY <1>1, <1>2, <1>3 DEF Recorded, DB!Terminal
  <1>5. \A p \in Attempts : p \in FailedAttempts' <=> p \in FailedAttempts
    BY <1>1, <1>2, <1>3 DEF FailedAttempts
  <1>6. \A j \in Job : j \in CompletedJobs' <=> j \in CompletedJobs
    BY <1>1, <1>3 DEF CompletedJobs
  <1> QED
    BY <1>4, <1>5, <1>6 DEF Recorded, FailedAttempts, CompletedJobs

(* An open job gets its outcome.                                           *)
LEMMA SettledSets ==
  ASSUME TypeOK, NEW j0, NEW a, OpenAt(j0, a), NEW outcome \in Outcome,
         DB!UpdateJobStatus(j0, outcome)
  PROVE  /\ <<j0, a>> \notin Recorded /\ Recorded' = Recorded \cup {<<j0, a>>}
         /\ outcome = "completed" =>
              /\ FailedAttempts' = FailedAttempts
              /\ j0 \notin CompletedJobs /\ CompletedJobs' = CompletedJobs \cup {j0}
         /\ outcome = "failed" =>
              /\ CompletedJobs' = CompletedJobs
              /\ <<j0, a>> \notin FailedAttempts
              /\ FailedAttempts' = FailedAttempts \cup {<<j0, a>>}
  <1>1. /\ j0 \in Job /\ a \in Nat /\ <<j0, a>> \in Attempts
        /\ job[j0].attempt = a /\ job[j0].status \in {"queued", "retrying"}
    BY ConstantsAssumption DEF OpenAt, Attempts, Unsettled, ConstantsAssumption
  <1>2. /\ \A j \in Job : j # j0 => job'[j] = job[j]
        /\ job'[j0].attempt = a /\ job'[j0].status = outcome
    BY <1>1 DEF DB!UpdateJobStatus, TypeOK, DB!StoreTypeOK, DB!JobRow
  <1>3. \A p \in Attempts : p[1] \in Job /\ p = <<p[1], p[2]>> /\ p[2] \in Nat
    BY ConstantsAssumption DEF Attempts, ConstantsAssumption
  <1>4. <<j0, a>> \notin Recorded /\ <<j0, a>> \notin FailedAttempts /\ j0 \notin CompletedJobs
    BY <1>1 DEF Recorded, FailedAttempts, CompletedJobs, DB!Terminal
  <1>5. \A p \in Attempts : p \in Recorded' <=> (p \in Recorded \/ p = <<j0, a>>)
    BY <1>1, <1>2, <1>3 DEF Recorded, DB!Terminal, Outcome
  <1>6. \A p \in Attempts :
          p \in FailedAttempts' <=> (p \in FailedAttempts \/ (outcome = "failed" /\ p = <<j0, a>>))
    BY <1>1, <1>2, <1>3 DEF FailedAttempts, Outcome
  <1>7. \A j \in Job :
          j \in CompletedJobs' <=> (j \in CompletedJobs \/ (outcome = "completed" /\ j = j0))
    BY <1>1, <1>2 DEF CompletedJobs, Outcome
  <1>8. Recorded' = Recorded \cup {<<j0, a>>}
    BY <1>1, <1>5 DEF Recorded
  <1>9. FailedAttempts' = IF outcome = "failed" THEN FailedAttempts \cup {<<j0, a>>}
                                                ELSE FailedAttempts
    BY <1>1, <1>6 DEF FailedAttempts
  <1>10. CompletedJobs' = IF outcome = "completed" THEN CompletedJobs \cup {j0} ELSE CompletedJobs
    BY <1>1, <1>7 DEF CompletedJobs
  <1> QED
    BY <1>4, <1>8, <1>9, <1>10

(* An open job goes to its next attempt.                                   *)
LEMMA RetriedSets ==
  ASSUME TypeOK, NEW j0, NEW a, OpenAt(j0, a), DB!IncrementJobAttempt(j0)
  PROVE  /\ <<j0, a>> \notin Recorded /\ Recorded' = Recorded \cup {<<j0, a>>}
         /\ <<j0, a>> \notin FailedAttempts /\ FailedAttempts' = FailedAttempts \cup {<<j0, a>>}
         /\ CompletedJobs' = CompletedJobs
  <1>1. /\ j0 \in Job /\ a \in Nat /\ <<j0, a>> \in Attempts
        /\ job[j0].attempt = a /\ job[j0].status \in {"queued", "retrying"}
    BY ConstantsAssumption DEF OpenAt, Attempts, Unsettled, ConstantsAssumption
  <1>2. /\ \A j \in Job : j # j0 => job'[j] = job[j]
        /\ job'[j0].attempt = a + 1 /\ job'[j0].status = "retrying"
    BY <1>1 DEF DB!IncrementJobAttempt, TypeOK, DB!StoreTypeOK
  <1>3. \A p \in Attempts : p[1] \in Job /\ p = <<p[1], p[2]>> /\ p[2] \in Nat
    BY ConstantsAssumption DEF Attempts, ConstantsAssumption
  <1>4. <<j0, a>> \notin Recorded /\ <<j0, a>> \notin FailedAttempts
    BY <1>1 DEF Recorded, FailedAttempts, DB!Terminal
  <1>5. \A p \in Attempts : p \in Recorded' <=> (p \in Recorded \/ p = <<j0, a>>)
    BY <1>1, <1>2, <1>3 DEF Recorded, DB!Terminal
  <1>6. \A p \in Attempts : p \in FailedAttempts' <=> (p \in FailedAttempts \/ p = <<j0, a>>)
    BY <1>1, <1>2, <1>3 DEF FailedAttempts
  <1>7. \A j \in Job : j \in CompletedJobs' <=> j \in CompletedJobs
    BY <1>1, <1>2 DEF CompletedJobs
  <1>8. Recorded' = Recorded \cup {<<j0, a>>}
    BY <1>1, <1>5 DEF Recorded
  <1>9. FailedAttempts' = FailedAttempts \cup {<<j0, a>>}
    BY <1>1, <1>6 DEF FailedAttempts
  <1>10. CompletedJobs' = CompletedJobs
    BY <1>7 DEF CompletedJobs
  <1> QED
    BY <1>4, <1>8, <1>9, <1>10

(* What a step does to the jobs whose INCR has run: one more, by an INCR.  *)
LEMMA IncrementedSets ==
  ASSUME TypeOK, FailInv, [Next]_vars, struck' \subseteq {"post", "client", "panic"}
  PROVE  \/ Incremented' = Incremented /\ ~\E s \in Start : DispatchCount(s)
         \/ /\ \E s \in Start : DispatchCount(s)
            /\ \E j \in Job \ Incremented : Incremented' = Incremented \cup {j}
            /\ active' = active + 1
  <1> DEFINE By(t, st) == {u \in Task : \/ st.pc = "count" /\ u \notin st.left
                                        \/ st.pc \in {"release", "done"}}
  <1>1. \A j \in Job : /\ j[1] \in Start /\ j[2] \in Task /\ j = <<j[1], j[2]>>
                       /\ j \in Incremented <=> j[2] \in By(j[1], start[j[1]])
                       /\ j \in Incremented' <=> j[2] \in By(j[1], start'[j[1]])
    BY DEF Job, Incremented
  <1>2. Incremented \subseteq Job /\ Incremented' \subseteq Job
    BY DEF Incremented
  <1>3. ASSUME NEW s \in Start, \A t \in Start \ {s} : start'[t] = start[t],
               By(s, start'[s]) = By(s, start[s])
        PROVE  Incremented' = Incremented
    <2>1. \A j \in Job : j \in Incremented' <=> j \in Incremented
      BY <1>1, <1>3
    <2> QED
      BY <1>2, <2>1
  <1>4. ASSUME NEW kind, Strike(kind)
        PROVE  struck \subseteq struck' /\ kind \in {"post", "client", "panic"}
    BY <1>4 DEF Strike
  <1>5. ASSUME NEW s \in Start, StartStep(s)
        PROVE  Incremented' = Incremented
    <2>1. /\ start[s].pc \in {"new", "lock", "plan", "unlock", "mark", "progress"}
          /\ start'[s].pc \notin {"count", "release", "done"}
      BY <1>5, GotoPC, GotoWithPC
         DEF StartStep, StartRead, StartLock, StartLockRefused, BuildPlan, BuildPlanFails,
             StartUnlock, StartMark, StartMarkFails, StartProgress, StartClientGone,
             TypeOK, StartPC
    <2>2. \A t \in Start \ {s} : start'[t] = start[t]
      BY <1>5, GotoPC, GotoWithPC
         DEF StartStep, StartRead, StartLock, StartLockRefused, BuildPlan, BuildPlanFails,
             StartUnlock, StartMark, StartMarkFails, StartProgress, StartClientGone,
             TypeOK, StartPC
    <2> QED
      BY <1>3, <2>1, <2>2
  <1>6. ASSUME NEW s \in Start, DispatchEnqueue(s)
        PROVE  Incremented' = Incremented
    <2>1. /\ start[s].pc = "enqueue"
          /\ start'[s].pc = "enqueue" \/ start'[s] = [pc |-> "count", left |-> Task]
          /\ \A t \in Start \ {s} : start'[t] = start[t]
      BY <1>6 DEF DispatchEnqueue, GotoWith, TypeOK
    <2> QED
      BY <1>3, <2>1
  <1>7. ASSUME NEW s \in Start, DispatchCount(s)
        PROVE  /\ \E j \in Job \ Incremented : Incremented' = Incremented \cup {j}
               /\ active' = active + 1
    <2>1. active' = active + 1
      BY <1>4, <1>7 DEF DispatchCount, Redis!IncrActiveScanJobs
    <2>2. PICK t \in start[s].left :
            GotoWith(s, IF start[s].left \ {t} = {} THEN "release" ELSE "count",
                     start[s].left \ {t})
      BY <1>7 DEF DispatchCount
    <2>3. /\ start[s].pc = "count" /\ t \in Task /\ start[s].left \subseteq Task
          /\ start'[s] = [pc |-> IF start[s].left \ {t} = {} THEN "release" ELSE "count",
                          left |-> start[s].left \ {t}]
          /\ \A u \in Start \ {s} : start'[u] = start[u]
      BY <1>7, <2>2 DEF DispatchCount, GotoWith, TypeOK, StartState
    <2>4. By(s, start'[s]) = By(s, start[s]) \cup {t} /\ t \notin By(s, start[s])
      BY <2>3
    <2>5. <<s, t>> \in Job
      BY <2>3 DEF Job
    <2>6. \A j \in Job : j \in Incremented' <=> (j \in Incremented \/ j = <<s, t>>)
      BY <1>1, <2>3, <2>4
    <2>7. <<s, t>> \notin Incremented
      BY <1>1, <2>4, <2>5
    <2>8. Incremented' = Incremented \cup {<<s, t>>}
      BY <1>2, <2>5, <2>6
    <2> QED
      BY <2>1, <2>5, <2>7, <2>8
  <1>8. ASSUME NEW s \in Start, DispatchRelease(s)
        PROVE  Incremented' = Incremented
    <2>1. /\ start[s].pc = "release" /\ start'[s].pc = "done"
          /\ \A t \in Start \ {s} : start'[t] = start[t]
      BY <1>8, GotoPC DEF DispatchRelease, TypeOK, StartPC
    <2> QED
      BY <1>3, <2>1
  <1>9. ASSUME NEW s \in Start
        PROVE  ~DispatchFails(s) /\ ~DispatchMarkFailed(s) /\ ~DispatchDeadline(s)
    <2>1. ~DispatchFails(s) /\ ~DispatchDeadline(s)
      BY <1>4 DEF DispatchFails, DispatchDeadline
    <2>2. ASSUME DispatchMarkFailed(s)
          PROVE  FALSE
      <3>1. "redis" \in struck /\ struck \subseteq struck'
        BY <1>4, <2>2 DEF DispatchMarkFailed, FailInv, faultVars
      <3> QED
        BY <3>1
    <2> QED
      BY <2>1, <2>2
  <1>10. start' = start => Incremented' = Incremented
    BY DEF Incremented
  <1>11. ASSUME \/ \E c \in Cancel : CancelStep(c)
                \/ \E w \in Worker : WorkerStep(w)
                \/ \E c \in Call : CallStep(c)
                \/ LockExpires \/ RetrySweep \/ RetrySweepFails \/ UNCHANGED vars
         PROVE  start' = start
    BY <1>11 DEF CancelStep, CancelRead, CancelWrite, WorkerStep, WorkerPop,
       WorkerExecute, WorkerPost, WorkerPostLost, WorkerPostTimeout, WorkerStop,
       CallStep, CallCompleted, CallGetJob, CallRetryFails, CallLogFailure, CallIncrement,
       CallRequeue, CallRequeueFails, CallFailed, CallDecr, CallReadScan, CallReadScanFails,
       CallWriteProgress, CallFinish, CallReply, CallAbort, CallPanics,
       LockExpires, RetrySweep, RetrySweepFails, vars
  <1>12. ~OrchestratorRestart
    BY <1>4 DEF OrchestratorRestart
  <1>13. start' = start => ~\E s \in Start : DispatchCount(s)
    <2>1. ASSUME start' = start, NEW s \in Start, DispatchCount(s)
          PROVE  FALSE
      BY <1>7, <1>10, <2>1
    <2> QED
      BY <2>1
  <1>14. ASSUME Incremented' = Incremented, NEW s \in Start, DispatchCount(s)
         PROVE  FALSE
    BY <1>7, <1>14
  <1>15. CASE \E s \in Start : StartStep(s) \/ DispatchStep(s)
    BY <1>5, <1>6, <1>7, <1>8, <1>9, <1>14, <1>15 DEF DispatchStep
  <1>16. start' = start \/ \E s \in Start : StartStep(s) \/ DispatchStep(s)
    BY <1>11, <1>12 DEF Next, Rest
  <1> QED
    BY <1>10, <1>13, <1>15, <1>16

(* What a step of one handler does to those that have yet to DECR.         *)
LEMMA PendingSets ==
  ASSUME NEW c \in Call, \A d \in Call : d # c => call'[d] = call[d]
  PROVE  Pending' = IF call'[c].pc \in {"requeue", "decr"} THEN Pending \cup {c}
                                                           ELSE Pending \ {c}
  BY DEF Pending
-----------------------------------------------------------------------------
(* The active counter: the account is an invariant together with the       *)
(* finiteness of what it counts, since starts and handlers may be many.    *)
CountInv ==
  struck \subseteq {"post", "client"} =>
    /\ IsFiniteSet(Incremented) /\ IsFiniteSet(Recorded) /\ IsFiniteSet(Pending)
    /\ active = Cardinality(Incremented) - Cardinality(Recorded) + Cardinality(Pending)

(* A handler decides about a job that is open, at an attempt that the scan *)
(* allows.                                                                 *)
LEMMA DecidedIsOpen ==
  ASSUME TypeOK, JobInv, PlanInv, NoDoubledReport, NEW c \in Call, call[c].pc \in DecidingPC
  PROVE  OpenAt(call[c].job, job[call[c].job].attempt)
  <1>1. PICK j \in Job : j = call[c].job /\ c \in Deciding(j)
    BY HandlerMoves DEF Deciding, DecidingState
  <1>2. Unsettled(j) /\ job[j].attempt <= MaxAttempts
    BY <1>1 DEF JobInv, Kept, Held
  <1>3. job[j].attempt \in Nat /\ job[j].attempt >= 1
    BY <1>1 DEF PlanInv, Untouched, TypeOK, DB!StoreTypeOK, DB!JobRow
  <1>4. MaxAttempts \in Nat
    BY ConstantsAssumption DEF ConstantsAssumption
  <1> QED
    BY <1>1, <1>2, <1>3, <1>4 DEF OpenAt

(* A report that reaches the row: one more is recorded, one more has yet   *)
(* to DECR.                                                                *)
LEMMA ReportCounts ==
  ASSUME TypeOK, CountInv, struck \subseteq {"post", "client"}, NEW c \in Call,
         c \notin Pending, Pending' = Pending \cup {c},
         NEW p, p \notin Recorded, Recorded' = Recorded \cup {p},
         Incremented' = Incremented, active' = active
  PROVE  CountInv'
  <1>1. active \in Int
    BY DEF TypeOK, Redis!QueueTypeOK
  <1>2. /\ IsFiniteSet(Pending) /\ IsFiniteSet(Recorded) /\ IsFiniteSet(Incremented)
        /\ active = Cardinality(Incremented) - Cardinality(Recorded) + Cardinality(Pending)
    BY DEF CountInv
  <1>3. /\ IsFiniteSet(Pending') /\ Cardinality(Pending) \in Nat
        /\ Cardinality(Pending') = Cardinality(Pending) + 1
    BY <1>2, OneMore
  <1>4. /\ IsFiniteSet(Recorded') /\ Cardinality(Recorded) \in Nat
        /\ Cardinality(Recorded') = Cardinality(Recorded) + 1
    BY <1>2, OneMore
  <1>5. Cardinality(Incremented) \in Nat
    BY <1>2, FS_CardinalityType
  <1> QED
    BY <1>1, <1>2, <1>3, <1>4, <1>5 DEF CountInv

LEMMA CountStep ==
  ASSUME TypeOK, JobInv, AttendInv, FailInv, PlanInv, AttemptInv, CountInv, [Next]_vars
  PROVE  CountInv'
  <1> SUFFICES ASSUME struck' \subseteq {"post", "client"}
               PROVE  CountInv'
    BY DEF CountInv
  <1>1. ASSUME NEW kind, Strike(kind)
        PROVE  kind \in {"post", "client"} /\ struck \subseteq struck'
    BY <1>1 DEF Strike
  <1>2. struck \subseteq struck' /\ struck \subseteq {"post", "client"} /\ NoDoubledReport
    <2>1. struck \subseteq struck'
      BY <1>1, FaultsOnly DEF faultVars
    <2> QED
      BY <2>1 DEF NoDoubledReport
  <1>3. /\ active \in Int
        /\ IsFiniteSet(Pending) /\ IsFiniteSet(Recorded) /\ IsFiniteSet(Incremented)
        /\ active = Cardinality(Incremented) - Cardinality(Recorded) + Cardinality(Pending)
        /\ Cardinality(Incremented) \in Nat /\ Cardinality(Recorded) \in Nat
        /\ Cardinality(Pending) \in Nat
    BY <1>2, FS_CardinalityType DEF CountInv, TypeOK, Redis!QueueTypeOK
  <1>4. CASE /\ Recorded' = Recorded /\ Pending' = Pending
             /\ Incremented' = Incremented /\ active' = active
    BY <1>2, <1>4 DEF CountInv
  <1>5. UNCHANGED job \/ Planned => Recorded' = Recorded
    BY PlannedSets DEF Recorded
  <1>6. CASE \E s \in Start : DispatchCount(s)
    <2>1. PICK s \in Start : DispatchCount(s)
      BY <1>6
    <2>2. UNCHANGED <<job, call>>
      BY <2>1 DEF DispatchCount, db
    <2>3. PICK j \in Job \ Incremented : Incremented' = Incremented \cup {j} /\ active' = active + 1
      BY <1>6, IncrementedSets
    <2>4. IsFiniteSet(Incremented') /\ Cardinality(Incremented') = Cardinality(Incremented) + 1
      BY <1>3, <2>3, OneMore
    <2>5. Pending' = Pending /\ Recorded' = Recorded
      BY <1>5, <2>2 DEF Pending
    <2> QED
      BY <1>3, <2>3, <2>4, <2>5 DEF CountInv
  <1>7. ASSUME ~\E s \in Start : DispatchCount(s)
        PROVE  Incremented' = Incremented
    BY <1>7, IncrementedSets
  <1>8. CASE \E c \in Call : CallStep(c)
    <2>1. PICK c \in Call : CallStep(c)
      BY <1>8
    <2>2. ~CallAbort(c)
      BY <1>2 DEF CallAbort, AttendInv, Attended
    <2>3. start' = start
      BY <2>1 DEF CallStep, CallCompleted, CallGetJob, CallRetryFails, CallLogFailure,
         CallIncrement, CallRequeue, CallRequeueFails, CallFailed, CallDecr, CallReadScan,
         CallReadScanFails, CallWriteProgress, CallFinish, CallReply, CallAbort, CallPanics
    <2>4. Incremented' = Incremented
      BY <2>3 DEF Incremented
    <2>5. call[c].pc \in DecidingPC => OpenAt(call[c].job, job[call[c].job].attempt)
      BY <1>2, DecidedIsOpen
    <2>6. call \in [Call -> CallState] /\ (call[c].pc \in DecidingPC => call[c] \in DecidingState)
      BY HandlerMoves DEF TypeOK
    <2>7. CASE CallCompleted(c) \/ CallFailed(c)
      <3>1. PICK outcome \in Outcome : DB!UpdateJobStatus(call[c].job, outcome)
        BY <1>1, <2>7 DEF CallCompleted, CallFailed, Outcome
      <3>2. /\ MoveToCounting(c) /\ call[c].pc \in DecidingPC
            /\ call[c].pc \notin {"requeue", "decr"} /\ active' = active
        BY <2>7 DEF CallCompleted, CallFailed, At, DecidingPC, redis
      <3>3. c \notin Pending /\ Pending' = Pending \cup {c}
        BY <3>2, HandlerMoves, PendingSets DEF Pending
      <3>4. PICK p : p \notin Recorded /\ Recorded' = Recorded \cup {p}
        BY <2>5, <3>1, <3>2, SettledSets
      <3> QED
        BY <1>2, <2>4, <3>2, <3>3, <3>4, ReportCounts
    <2>8. CASE CallIncrement(c)
      <3>1. /\ call[c].pc = "increment" /\ call'[c].pc = "requeue" /\ active' = active
            /\ \A d \in Call : d # c => call'[d] = call[d]
        BY <2>6, <2>8 DEF CallIncrement, At, Move, DecidingPC, DecidingState, redis
      <3>2. c \notin Pending /\ Pending' = Pending \cup {c}
        BY <3>1, PendingSets DEF Pending
      <3>3. PICK p : p \notin Recorded /\ Recorded' = Recorded \cup {p}
        BY <2>5, <2>8, <3>1, RetriedSets DEF CallIncrement, DecidingPC
      <3> QED
        BY <1>2, <2>4, <3>1, <3>2, <3>3, ReportCounts
    <2>9. CASE CallRequeue(c)
      <3>1. /\ MoveToCounting(c) /\ call[c].pc = "requeue" /\ UNCHANGED <<job, active>>
        BY <2>9 DEF CallRequeue, At, db
      <3>2. Pending' = Pending
        BY <3>1, HandlerMoves, PendingSets DEF Pending
      <3> QED
        BY <1>4, <1>5, <2>4, <3>1, <3>2
    <2>10. CASE CallDecr(c)
      <3>1. /\ call[c].pc = "decr" /\ active' = active - 1 /\ job' = job
            /\ call' = [call EXCEPT ![c].pc = "read", ![c].remaining = active - 1]
        BY <1>1, <2>10 DEF CallDecr, At, db, Redis!DecrActiveScanJobs
      <3>2. call[c] \in CountingState
        BY <2>6, <3>1, CallShape DEF CountingPC
      <3>3. call'[c].pc = "read" /\ \A d \in Call : d # c => call'[d] = call[d]
        BY <2>6, <3>1, <3>2 DEF CountingState
      <3>4. c \in Pending /\ Pending' = Pending \ {c}
        BY <3>1, <3>3, PendingSets DEF Pending
      <3>5. IsFiniteSet(Pending') /\ Cardinality(Pending') = Cardinality(Pending) - 1
        BY <1>3, <3>4, OneLess
      <3> QED
        BY <1>3, <1>5, <2>4, <3>1, <3>5 DEF CountInv
    <2>11. CASE \/ CallGetJob(c) \/ CallLogFailure(c) \/ CallReadScan(c)
                \/ CallWriteProgress(c) \/ CallFinish(c) \/ CallReply(c)
      <3>1. UNCHANGED <<job, active>>
        BY <2>11 DEF CallGetJob, CallLogFailure, CallReadScan, CallWriteProgress,
           CallFinish, CallReply, db, redis
      <3>2. /\ \A d \in Call : d # c => call'[d] = call[d]
            /\ call[c].pc \notin {"requeue", "decr"} /\ call'[c].pc \notin {"requeue", "decr"}
        <4>1. CASE CallGetJob(c)
          BY <2>6, <4>1 DEF CallGetJob, At, DecidingPC, DecidingState
        <4>2. CASE CallLogFailure(c)
          BY <4>2, HandlerMoves DEF CallLogFailure, At, DecidingPC
        <4>3. CASE CallReadScan(c)
          <5>1. call[c] \in CountingState
            BY <2>6, <4>3, CallShape DEF CallReadScan, At, CountingPC
          <5> QED
            BY <2>6, <4>3, <5>1 DEF CallReadScan, At, CountingState
        <4>4. CASE CallWriteProgress(c)
          BY <4>4, HandlerMoves DEF CallWriteProgress, At
        <4>5. CASE CallFinish(c)
          <5>1. call[c] \in ClosingState
            BY <2>6, <4>5, CallShape DEF CallFinish, At, ClosingPC
          <5> QED
            BY <2>6, <4>5, <5>1 DEF CallFinish, At, Move, ClosingState
        <4>6. CASE CallReply(c)
          BY <2>6, <4>6 DEF CallReply, At, Free
        <4> QED
          BY <2>11, <4>1, <4>2, <4>3, <4>4, <4>5, <4>6
      <3>3. Pending' = Pending
        BY <3>2, PendingSets DEF Pending
      <3> QED
        BY <1>4, <1>5, <2>4, <3>1, <3>3
    <2> QED
      BY <1>1, <2>1, <2>2, <2>7, <2>8, <2>9, <2>10, <2>11
         DEF CallStep, CallRetryFails, CallRequeueFails, CallReadScanFails, CallPanics
  <1>9. CASE \/ \E s \in Start : StartStep(s) \/ (DispatchStep(s) /\ ~DispatchCount(s))
             \/ \E c \in Cancel : CancelStep(c)
             \/ LockExpires \/ RetrySweep \/ RetrySweepFails \/ UNCHANGED vars
    <2>1. UNCHANGED <<active, call>>
      BY <1>9 DEF StartStep, StartRead, StartLock, StartLockRefused, BuildPlan, BuildPlanFails,
         StartUnlock, StartMark, StartMarkFails, StartProgress, StartClientGone,
         DispatchStep, DispatchEnqueue, DispatchFails, DispatchMarkFailed, DispatchRelease,
         DispatchDeadline, CancelStep, CancelRead, CancelWrite,
         LockExpires, RetrySweep, RetrySweepFails, vars, redis
    <2>2. Incremented' = Incremented
      <3>1. CASE Incremented' # Incremented
        <4>1. active' = active + 1
          BY <3>1, IncrementedSets
        <4> QED
          BY <1>3, <2>1, <4>1
      <3> QED
        BY <3>1
    <2>3. CASE \E c \in Call : CallStep(c)
      BY <1>8, <2>3
    <2>4. CASE UNCHANGED job \/ Planned
      BY <1>4, <1>5, <2>1, <2>2, <2>4 DEF Pending
    <2> QED
      BY <2>3, <2>4, RowsPlanned
  <1>10. CASE \E w \in Worker : WorkerStep(w)
    <2>1. PICK w \in Worker : WorkerStep(w)
      BY <1>10
    <2>2. UNCHANGED <<job, start, active>>
      BY <2>1 DEF WorkerStep, WorkerPop, WorkerExecute, WorkerPost, WorkerPostLost,
         WorkerPostTimeout, WorkerStop, db, redis
    <2>3. call' = call \/ \E c \in Call : /\ call[c] = Free /\ call'[c].pc = "outcome"
                                          /\ \A d \in Call : d # c => call'[d] = call[d]
      BY <1>1, <2>1 DEF WorkerStep, WorkerPop, WorkerExecute, WorkerPost, WorkerPostLost,
         WorkerPostTimeout, WorkerStop, TypeOK
    <2>4. Pending' = Pending
      BY <2>3, PendingSets DEF Pending, Free
    <2> QED
      BY <1>4, <1>5, <2>2, <2>4 DEF Incremented
  <1>11. ~OrchestratorRestart
    BY <1>1 DEF OrchestratorRestart
  <1> QED
    BY <1>6, <1>8, <1>9, <1>10, <1>11 DEF Next, Rest

(* What the active counter counts, for any number of starts, workers and   *)
(* handlers: the INCRs that have run, less the attempts that are recorded, *)
(* plus those of them whose DECR is still to come.                         *)
THEOREM CounterIsAccount == Spec => []CounterAccounts
  <1>1. ASSUME Init
        PROVE  CountInv
    <2>1. Incremented = {} /\ Pending = {}
      BY <1>1 DEF Init, Incremented, Pending, Free, Job
    <2>2. Recorded = {}
      <3>1. \A p \in Attempts : p[1] \in Job /\ p[2] \in Nat /\ p[2] >= 1
        BY ConstantsAssumption DEF Attempts, ConstantsAssumption
      <3> QED
        BY <1>1, <3>1 DEF Init, DB!StoreInit, Recorded, DB!Terminal
    <2>3. active = 0
      BY <1>1 DEF Init, Redis!QueueInit
    <2> QED
      BY <2>1, <2>2, <2>3, FS_EmptySet DEF CountInv
  <1>2. Init => FailInv
    BY DEF Init, FailInv
  <1>3. CountInv => CounterAccounts
    BY DEF CountInv, CounterAccounts
  <1> QED
    BY <1>1, <1>2, <1>3, CountStep, FailStep, JobsHold, AttemptsHold, AttendHolds, PlanHolds,
       TypeCorrect, PTL DEF Spec
-----------------------------------------------------------------------------
(* The progress columns.  Handlers that have recorded their outcome, and   *)
(* have yet to write the progress, are what a column may lag behind.       *)
Writers == {c \in Call : call[c].pc \in CountingPC /\ call[c].status = "completed"}
Fallers ==
  {c \in Call : call[c].pc \in CountingPC \cup {"requeue"} /\ call[c].status = "failed"}

PostgresUp == struck \subseteq {"post", "client", "worker", "deadline", "redis"}

(* Handlers that overwrite each other's counts write from what they have   *)
(* read, so what they have read is in the account too.                     *)
ProgInv ==
  PostgresUp =>
    /\ IsFiniteSet(Writers) /\ IsFiniteSet(Fallers)
    /\ IsFiniteSet(CompletedJobs) /\ IsFiniteSet(FailedAttempts)
    /\ scan.completed + Cardinality(Writers) <= Cardinality(CompletedJobs)
    /\ scan.failed + Cardinality(Fallers) <= Cardinality(FailedAttempts)
    /\ \A c \in Call : call[c].pc = "write" =>
         /\ call[c].completed + Cardinality(Writers) <= Cardinality(CompletedJobs)
         /\ call[c].failed + Cardinality(Fallers) <= Cardinality(FailedAttempts)

(* Only a failed report gets past the outcome without recording it.        *)
StatusInv ==
  \A c \in Call : call[c].pc \in DecidingPC \ {"outcome"} => call[c].status = "failed"

LEMMA StatusStep ==
  ASSUME TypeOK, StatusInv, [Next]_vars
  PROVE  StatusInv'
  <1>1. ASSUME \A c \in Call : call'[c].pc \in DecidingPC \ {"outcome"} =>
                 /\ call[c].pc \in DecidingPC /\ call'[c].status = call[c].status
                 /\ call[c].pc = "outcome" => call[c].status = "failed"
        PROVE  StatusInv'
    BY <1>1 DEF StatusInv
  <1>2. CASE \E c \in Call : CallStep(c)
    <2>1. PICK c \in Call : CallStep(c)
      BY <1>2
    <2>2. call \in [Call -> CallState] /\ (call[c].pc \in DecidingPC => call[c] \in DecidingState)
      BY HandlerMoves DEF TypeOK
    <2>3. ASSUME \A d \in Call : d # c => call'[d] = call[d],
                 call'[c].pc \in DecidingPC \ {"outcome"} =>
                 /\ call[c].pc \in DecidingPC /\ call'[c].status = call[c].status
                 /\ call[c].pc = "outcome" => call[c].status = "failed"
          PROVE  StatusInv'
      BY <1>1, <2>3 DEF StatusInv
    <2>4. CASE CallGetJob(c) \/ CallRetryFails(c) \/ CallLogFailure(c) \/ CallRequeueFails(c)
      <3>1. /\ call[c].pc \in DecidingPC /\ call[c] \in DecidingState
            /\ call[c].pc = "outcome" => call[c].status = "failed"
        BY <2>2, <2>4 DEF CallGetJob, CallRetryFails, CallLogFailure, CallRequeueFails, At,
           DecidingPC
      <3>2. call'[c].status = call[c].status /\ \A d \in Call : d # c => call'[d] = call[d]
        BY <2>2, <2>4, <3>1 DEF CallGetJob, CallRetryFails, CallLogFailure, CallRequeueFails,
           MoveToFail, DecidingState
      <3> QED
        BY <2>3, <3>1, <3>2
    <2>5. CASE CallIncrement(c)
      BY <2>2, <2>3, <2>5 DEF CallIncrement, At, Move, DecidingPC, DecidingState
    <2>6. CASE CallCompleted(c) \/ CallRequeue(c) \/ CallFailed(c)
      BY <2>3, <2>6, HandlerMoves DEF CallCompleted, CallRequeue, CallFailed, DecidingPC
    <2>7. CASE \/ CallDecr(c) \/ CallReadScan(c) \/ CallReadScanFails(c)
               \/ CallWriteProgress(c) \/ CallFinish(c)
      BY <2>3, <2>7, CountingStays
    <2>8. CASE CallReply(c) \/ CallAbort(c) \/ CallPanics(c)
      BY <2>2, <2>3, <2>8 DEF CallReply, CallAbort, CallPanics, Free, DecidingPC
    <2> QED
      BY <2>1, <2>4, <2>5, <2>6, <2>7, <2>8 DEF CallStep
  <1>3. CASE \E w \in Worker : WorkerStep(w)
    <2>1. PICK w \in Worker : WorkerStep(w)
      BY <1>3
    <2>2. CASE WorkerPost(w)
      BY <1>1, <2>2 DEF WorkerPost, TypeOK, StatusInv
    <2>3. CASE Detach({w})
      <3>1. \A c \in Call : call'[c].pc \in DecidingPC =>
              call[c].pc = call'[c].pc /\ call'[c].status = call[c].status
        <4>1. ASSUME NEW c \in Call, call'[c].pc \in DecidingPC
              PROVE  call[c].pc = call'[c].pc /\ call'[c].status = call[c].status
          <5>1. call[c].pc = call'[c].pc /\ call[c] \in DecidingState
            BY <2>3, <4>1, DetachKeeps, HandlerMoves
          <5> QED
            BY <2>3, <4>1, <5>1 DEF Detach, DecidingState
        <4> QED
          BY <4>1
      <3> QED
        BY <3>1 DEF StatusInv
    <2> QED
      BY <2>1, <2>2, <2>3 DEF WorkerStep, WorkerPop, WorkerExecute, WorkerPostLost,
         WorkerPostTimeout, WorkerStop, StatusInv
  <1>4. CASE OrchestratorRestart
    BY <1>1, <1>4 DEF OrchestratorRestart, Free, DecidingPC
  <1>5. CASE \/ \E s \in Start : StartStep(s) \/ DispatchStep(s)
             \/ \E c \in Cancel : CancelStep(c)
             \/ LockExpires \/ RetrySweep \/ RetrySweepFails \/ UNCHANGED vars
    BY <1>5 DEF StartStep, StartRead, StartLock, StartLockRefused, BuildPlan, BuildPlanFails,
       StartUnlock, StartMark, StartMarkFails, StartProgress, StartClientGone,
       DispatchStep, DispatchEnqueue, DispatchFails, DispatchMarkFailed, DispatchCount,
       DispatchRelease, DispatchDeadline, CancelStep, CancelRead, CancelWrite,
       LockExpires, RetrySweep, RetrySweepFails, vars, StatusInv
  <1> QED
    BY <1>2, <1>3, <1>4, <1>5 DEF Next, Rest

(* What a step of one handler does to the handlers that are counted.       *)
LEMMA WriterSets ==
  ASSUME NEW c \in Call, \A d \in Call : d # c => call'[d] = call[d]
  PROVE  /\ Writers' = IF call'[c].pc \in CountingPC /\ call'[c].status = "completed"
                       THEN Writers \cup {c} ELSE Writers \ {c}
         /\ Fallers' = IF call'[c].pc \in CountingPC \cup {"requeue"} /\ call'[c].status = "failed"
                       THEN Fallers \cup {c} ELSE Fallers \ {c}
  BY DEF Writers, Fallers

(* Steps that record nothing and write nothing new.                        *)
LEMMA ProgressKeeps ==
  ASSUME TypeOK, ProgInv, PostgresUp,
         Writers' \subseteq Writers, Fallers' \subseteq Fallers,
         UNCHANGED <<CompletedJobs, FailedAttempts>>,
         \/ scan'.completed = scan.completed /\ scan'.failed = scan.failed
         \/ scan'.completed = 0 /\ scan'.failed = 0,
         \A c \in Call : call'[c].pc = "write" =>
           \/ /\ call[c].pc = "write"
              /\ call'[c].completed = call[c].completed /\ call'[c].failed = call[c].failed
           \/ call'[c].completed = scan.completed /\ call'[c].failed = scan.failed
  PROVE  ProgInv'
  <1>1. /\ scan.completed \in Nat /\ scan.failed \in Nat
        /\ \A c \in Call : call[c].pc = "write" =>
             call[c].completed \in Nat /\ call[c].failed \in Nat
    BY CallShape DEF TypeOK, DB!StoreTypeOK, DB!ScanRow, CountingState, CountingPC
  <1>2. /\ IsFiniteSet(Writers') /\ Cardinality(Writers) \in Nat /\ Cardinality(Writers') \in Nat
        /\ Cardinality(Writers') <= Cardinality(Writers)
    BY NoMore DEF ProgInv
  <1>3. /\ IsFiniteSet(Fallers') /\ Cardinality(Fallers) \in Nat /\ Cardinality(Fallers') \in Nat
        /\ Cardinality(Fallers') <= Cardinality(Fallers)
    BY NoMore DEF ProgInv
  <1>4. Cardinality(CompletedJobs) \in Nat /\ Cardinality(FailedAttempts) \in Nat
    BY FS_CardinalityType DEF ProgInv
  <1> QED
    BY <1>1, <1>2, <1>3, <1>4 DEF ProgInv

(* A completed report, or a failed one, gets into the row of its job.      *)
LEMMA CompletedCounts ==
  ASSUME TypeOK, ProgInv, PostgresUp, NEW c \in Call, c \notin Writers,
         Writers' = Writers \cup {c}, Fallers' \subseteq Fallers,
         NEW j, j \notin CompletedJobs, CompletedJobs' = CompletedJobs \cup {j},
         FailedAttempts' = FailedAttempts, scan' = scan,
         \A d \in Call : call'[d].pc = "write" => call'[d] = call[d]
  PROVE  ProgInv'
  <1>1. /\ scan.completed \in Nat /\ scan.failed \in Nat
        /\ \A d \in Call : call[d].pc = "write" =>
             call[d].completed \in Nat /\ call[d].failed \in Nat
    BY CallShape DEF TypeOK, DB!StoreTypeOK, DB!ScanRow, CountingState, CountingPC
  <1>2. /\ IsFiniteSet(Writers') /\ Cardinality(Writers) \in Nat
        /\ Cardinality(Writers') = Cardinality(Writers) + 1
    BY OneMore DEF ProgInv
  <1>3. /\ IsFiniteSet(CompletedJobs') /\ Cardinality(CompletedJobs) \in Nat
        /\ Cardinality(CompletedJobs') = Cardinality(CompletedJobs) + 1
    BY OneMore DEF ProgInv
  <1>4. /\ IsFiniteSet(Fallers') /\ Cardinality(Fallers) \in Nat /\ Cardinality(Fallers') \in Nat
        /\ Cardinality(Fallers') <= Cardinality(Fallers)
    BY NoMore DEF ProgInv
  <1>5. Cardinality(FailedAttempts) \in Nat /\ IsFiniteSet(FailedAttempts)
    BY FS_CardinalityType DEF ProgInv
  <1>6. /\ scan.completed + Cardinality(Writers') <= Cardinality(CompletedJobs')
        /\ scan.failed + Cardinality(Fallers') <= Cardinality(FailedAttempts')
    BY <1>1, <1>2, <1>3, <1>4, <1>5 DEF ProgInv
  <1>7. ASSUME NEW d \in Call, call[d].pc = "write"
        PROVE  /\ call[d].completed + Cardinality(Writers') <= Cardinality(CompletedJobs')
               /\ call[d].failed + Cardinality(Fallers') <= Cardinality(FailedAttempts')
    BY <1>1, <1>2, <1>3, <1>4, <1>5, <1>7 DEF ProgInv
  <1> QED
    BY <1>2, <1>3, <1>4, <1>5, <1>6, <1>7 DEF ProgInv

LEMMA FailedCounts ==
  ASSUME TypeOK, ProgInv, PostgresUp, NEW c \in Call, c \notin Fallers,
         Fallers' = Fallers \cup {c}, Writers' \subseteq Writers,
         NEW p, p \notin FailedAttempts, FailedAttempts' = FailedAttempts \cup {p},
         CompletedJobs' = CompletedJobs, scan' = scan,
         \A d \in Call : call'[d].pc = "write" => call'[d] = call[d]
  PROVE  ProgInv'
  <1>1. /\ scan.completed \in Nat /\ scan.failed \in Nat
        /\ \A d \in Call : call[d].pc = "write" =>
             call[d].completed \in Nat /\ call[d].failed \in Nat
    BY CallShape DEF TypeOK, DB!StoreTypeOK, DB!ScanRow, CountingState, CountingPC
  <1>2. /\ IsFiniteSet(Fallers') /\ Cardinality(Fallers) \in Nat
        /\ Cardinality(Fallers') = Cardinality(Fallers) + 1
    BY OneMore DEF ProgInv
  <1>3. /\ IsFiniteSet(FailedAttempts') /\ Cardinality(FailedAttempts) \in Nat
        /\ Cardinality(FailedAttempts') = Cardinality(FailedAttempts) + 1
    BY OneMore DEF ProgInv
  <1>4. /\ IsFiniteSet(Writers') /\ Cardinality(Writers) \in Nat /\ Cardinality(Writers') \in Nat
        /\ Cardinality(Writers') <= Cardinality(Writers)
    BY NoMore DEF ProgInv
  <1>5. Cardinality(CompletedJobs) \in Nat /\ IsFiniteSet(CompletedJobs)
    BY FS_CardinalityType DEF ProgInv
  <1>6. /\ scan.completed + Cardinality(Writers') <= Cardinality(CompletedJobs')
        /\ scan.failed + Cardinality(Fallers') <= Cardinality(FailedAttempts')
    BY <1>1, <1>2, <1>3, <1>4, <1>5 DEF ProgInv
  <1>7. ASSUME NEW d \in Call, call[d].pc = "write"
        PROVE  /\ call[d].completed + Cardinality(Writers') <= Cardinality(CompletedJobs')
               /\ call[d].failed + Cardinality(Fallers') <= Cardinality(FailedAttempts')
    BY <1>1, <1>2, <1>3, <1>4, <1>5, <1>7 DEF ProgInv
  <1> QED
    BY <1>2, <1>3, <1>4, <1>5, <1>6, <1>7 DEF ProgInv

(* A handler writes what it has read, plus its own report, and is out.     *)
LEMMA WrittenCounts ==
  ASSUME TypeOK, ProgInv, PostgresUp, NEW c \in Call, call[c].pc = "write",
         Writers' = Writers \ {c}, Fallers' = Fallers \ {c},
         UNCHANGED <<CompletedJobs, FailedAttempts>>,
         scan'.completed = call[c].completed + Counted(call[c].status, "completed"),
         scan'.failed = call[c].failed + Counted(call[c].status, "failed"),
         \A d \in Call : call'[d].pc = "write" => call[d].pc = "write" /\ call'[d] = call[d]
  PROVE  ProgInv'
  <1>1. /\ \A d \in Call : call[d].pc = "write" =>
             call[d].completed \in Nat /\ call[d].failed \in Nat
        /\ call[c].status \in Outcome
    BY CallShape DEF TypeOK, CountingState, CountingPC
  <1>2. /\ IsFiniteSet(Writers') /\ Cardinality(Writers) \in Nat
        /\ Cardinality(Writers') = Cardinality(Writers) - IF c \in Writers THEN 1 ELSE 0
    BY OneLess DEF ProgInv
  <1>3. /\ IsFiniteSet(Fallers') /\ Cardinality(Fallers) \in Nat
        /\ Cardinality(Fallers') = Cardinality(Fallers) - IF c \in Fallers THEN 1 ELSE 0
    BY OneLess DEF ProgInv
  <1>4. Cardinality(CompletedJobs) \in Nat /\ Cardinality(FailedAttempts) \in Nat
    BY FS_CardinalityType DEF ProgInv
  <1>5. /\ c \in Writers <=> call[c].status = "completed"
        /\ c \in Fallers <=> call[c].status = "failed"
    BY DEF Writers, Fallers, CountingPC
  <1>6. /\ Counted(call[c].status, "completed") = IF c \in Writers THEN 1 ELSE 0
        /\ Counted(call[c].status, "failed") = IF c \in Fallers THEN 1 ELSE 0
    BY <1>5 DEF Counted
  <1>7. /\ scan'.completed + Cardinality(Writers') <= Cardinality(CompletedJobs)
        /\ scan'.failed + Cardinality(Fallers') <= Cardinality(FailedAttempts)
    BY <1>1, <1>2, <1>3, <1>4, <1>6 DEF ProgInv
  <1>8. ASSUME NEW d \in Call, call[d].pc = "write"
        PROVE  /\ call[d].completed + Cardinality(Writers') <= Cardinality(CompletedJobs)
               /\ call[d].failed + Cardinality(Fallers') <= Cardinality(FailedAttempts)
    BY <1>1, <1>2, <1>3, <1>4, <1>8 DEF ProgInv
  <1> QED
    BY <1>2, <1>3, <1>7, <1>8 DEF ProgInv

LEMMA ProgStep ==
  ASSUME TypeOK, JobInv, PlanInv, AttemptInv, StatusInv, ProgInv, [Next]_vars
  PROVE  ProgInv'
  <1> SUFFICES ASSUME PostgresUp'
               PROVE  ProgInv'
    BY DEF ProgInv
  <1>1. ASSUME NEW kind, Strike(kind)
        PROVE  /\ kind \in {"post", "client", "worker", "deadline", "redis"}
               /\ struck \subseteq struck'
    BY <1>1 DEF Strike, PostgresUp
  <1>2. PostgresUp /\ NoDoubledReport
    <2>1. struck \subseteq struck'
      BY <1>1, FaultsOnly DEF faultVars
    <2> QED
      BY <2>1 DEF NoDoubledReport, PostgresUp
  <1>3. call \in [Call -> CallState] /\ scan \in DB!ScanRow
    BY DEF TypeOK, DB!StoreTypeOK
  <1>4. UNCHANGED job \/ Planned => UNCHANGED <<CompletedJobs, FailedAttempts>>
    BY PlannedSets DEF CompletedJobs, FailedAttempts
  <1>5. ASSUME call' = call, UNCHANGED job \/ Planned,
               \/ scan'.completed = scan.completed /\ scan'.failed = scan.failed
               \/ scan'.completed = 0 /\ scan'.failed = 0
        PROVE  ProgInv'
    BY <1>2, <1>4, <1>5, ProgressKeeps DEF Writers, Fallers
  <1>6. CASE \E c \in Call : CallStep(c)
    <2>1. PICK c \in Call : CallStep(c)
      BY <1>6
    <2>2. call[c].pc \in DecidingPC =>
            call[c] \in DecidingState /\ OpenAt(call[c].job, job[call[c].job].attempt)
      BY <1>2, DecidedIsOpen, HandlerMoves
    <2>3. call[c].pc \in CountingPC => call[c] \in CountingState
      BY <1>3, CallShape
    <2>4. CASE CallCompleted(c)
      <3>1. /\ MoveToCounting(c) /\ call[c].pc = "outcome" /\ call[c].status = "completed"
            /\ DB!UpdateJobStatus(call[c].job, "completed") /\ scan' = scan
        BY <1>1, <2>4 DEF CallCompleted, At
      <3>2. /\ call'[c].pc = "decr" /\ call'[c].status = "completed"
            /\ \A d \in Call : d # c => call'[d] = call[d]
        BY <1>3, <3>1 DEF MoveToCounting
      <3>3. c \notin Writers /\ Writers' = Writers \cup {c} /\ Fallers' \subseteq Fallers
        BY <3>1, <3>2, WriterSets DEF Writers, CountingPC
      <3>4. /\ call[c].job \notin CompletedJobs /\ FailedAttempts' = FailedAttempts
            /\ CompletedJobs' = CompletedJobs \cup {call[c].job}
        BY <2>2, <3>1, SettledSets DEF Outcome, DecidingPC
      <3> QED
        BY <1>2, <3>1, <3>2, <3>3, <3>4, CompletedCounts
    <2>5. CASE CallFailed(c)
      <3>1. /\ MoveToCounting(c) /\ call[c].pc = "fail" /\ call[c].status = "failed"
            /\ DB!UpdateJobStatus(call[c].job, "failed") /\ scan' = scan
        BY <1>1, <2>5 DEF CallFailed, At, StatusInv, DecidingPC
      <3>2. /\ call'[c].pc = "decr" /\ call'[c].status = "failed"
            /\ \A d \in Call : d # c => call'[d] = call[d]
        BY <1>3, <3>1 DEF MoveToCounting
      <3>3. c \notin Fallers /\ Fallers' = Fallers \cup {c} /\ Writers' \subseteq Writers
        BY <3>1, <3>2, WriterSets DEF Fallers, CountingPC
      <3>4. PICK p : /\ p \notin FailedAttempts /\ CompletedJobs' = CompletedJobs
                     /\ FailedAttempts' = FailedAttempts \cup {p}
        BY <2>2, <3>1, SettledSets DEF Outcome, DecidingPC
      <3> QED
        BY <1>2, <3>1, <3>2, <3>3, <3>4, FailedCounts
    <2>6. CASE CallIncrement(c)
      <3>1. /\ call[c].pc = "increment" /\ call[c].status = "failed" /\ scan' = scan
            /\ DB!IncrementJobAttempt(call[c].job) /\ call[c] \in DecidingState
            /\ call' = [call EXCEPT ![c].pc = "requeue"]
        BY <2>2, <2>6 DEF CallIncrement, At, StatusInv, DecidingPC, Move
      <3>2. /\ call'[c].pc = "requeue" /\ call'[c].status = "failed"
            /\ \A d \in Call : d # c => call'[d] = call[d]
        BY <1>3, <3>1 DEF DecidingState
      <3>3. c \notin Fallers /\ Fallers' = Fallers \cup {c} /\ Writers' \subseteq Writers
        BY <3>1, <3>2, WriterSets DEF Fallers, CountingPC
      <3>4. PICK p : /\ p \notin FailedAttempts /\ CompletedJobs' = CompletedJobs
                     /\ FailedAttempts' = FailedAttempts \cup {p}
        BY <2>2, <3>1, RetriedSets DEF DecidingPC
      <3> QED
        BY <1>2, <3>1, <3>2, <3>3, <3>4, FailedCounts
    <2>7. ASSUME UNCHANGED <<scan, job>>, \A d \in Call : d # c => call'[d] = call[d],
                 c \notin Writers => c \notin Writers', c \notin Fallers => c \notin Fallers',
                 call'[c].pc = "write" => call'[c].completed = scan.completed
                                          /\ call'[c].failed = scan.failed
          PROVE  ProgInv'
      <3>1. Writers' \subseteq Writers /\ Fallers' \subseteq Fallers
        BY <2>7, WriterSets
      <3> QED
        BY <1>2, <1>4, <2>7, <3>1, ProgressKeeps
    <2>8. CASE CallRequeue(c)
      <3>1. /\ MoveToCounting(c) /\ call[c].pc = "requeue" /\ UNCHANGED <<scan, job>>
            /\ call[c].status = "failed"
        BY <2>8 DEF CallRequeue, At, db, StatusInv, DecidingPC
      <3>2. /\ call'[c].pc = "decr" /\ call'[c].status = "failed"
            /\ \A d \in Call : d # c => call'[d] = call[d]
        BY <1>3, <3>1 DEF MoveToCounting
      <3> QED
        BY <2>7, <3>1, <3>2 DEF Writers, Fallers
    <2>9. CASE CallGetJob(c) \/ CallLogFailure(c) \/ CallRequeueFails(c) \/ CallRetryFails(c)
      <3>1. UNCHANGED <<scan, job>> /\ call[c] \in DecidingState
        BY <2>2, <2>9 DEF CallGetJob, CallLogFailure, CallRequeueFails, CallRetryFails, db, At,
           DecidingPC
      <3>2. /\ call'[c].pc \in {"log", "increment", "fail"}
            /\ \A d \in Call : d # c => call'[d] = call[d]
        BY <1>3, <2>9, <3>1 DEF CallGetJob, CallLogFailure, CallRequeueFails, CallRetryFails,
           MoveToFail, DecidingState
      <3> QED
        BY <2>7, <3>1, <3>2 DEF Writers, Fallers, CountingPC
    <2>10. CASE CallDecr(c) \/ CallReadScan(c)
      <3>1. /\ UNCHANGED <<scan, job>> /\ call[c] \in CountingState
            /\ call[c].pc \in CountingPC
        BY <2>3, <2>10 DEF CallDecr, CallReadScan, db, At, CountingPC
      <3>2. /\ \A d \in Call : d # c => call'[d] = call[d]
            /\ call'[c].pc \in {"read", "write"} /\ call'[c].status = call[c].status
            /\ call'[c].pc = "write" => /\ call'[c].completed = scan.completed
                                        /\ call'[c].failed = scan.failed
        BY <1>3, <2>10, <3>1 DEF CallDecr, CallReadScan, CountingState
      <3> QED
        BY <2>7, <3>1, <3>2 DEF Writers, Fallers
    <2>11. CASE CallWriteProgress(c)
      <3>1. /\ call[c].pc = "write" /\ MoveToClosing(c) /\ job' = job
            /\ DB!UpdateScanProgress(call[c].total,
                 call[c].completed + Counted(call[c].status, "completed"),
                 call[c].failed + Counted(call[c].status, "failed"))
        BY <1>1, <2>11 DEF CallWriteProgress, At
      <3>2. /\ scan'.completed = call[c].completed + Counted(call[c].status, "completed")
            /\ scan'.failed = call[c].failed + Counted(call[c].status, "failed")
        BY <1>3, <3>1 DEF DB!UpdateScanProgress, DB!ScanRow
      <3>3. /\ \A d \in Call : d # c => call'[d] = call[d]
            /\ call'[c].pc \in {"finish", "reply"}
        BY <3>1, HandlerMoves
      <3>4. Writers' = Writers \ {c} /\ Fallers' = Fallers \ {c}
        BY <3>3, WriterSets DEF CountingPC
      <3> QED
        BY <1>2, <1>4, <3>1, <3>2, <3>3, <3>4, WrittenCounts
    <2>12. CASE CallFinish(c)
      <3>1. /\ call[c].pc = "finish" /\ job' = job
            /\ call' = [call EXCEPT ![c].pc = "reply"] /\ DB!UpdateScanStatus("completed")
        BY <1>1, <2>12 DEF CallFinish, At, Move
      <3>2. call[c] \in ClosingState
        BY <1>3, <3>1, CallShape DEF ClosingPC
      <3>3. /\ \A d \in Call : d # c => call'[d] = call[d]
            /\ call'[c].pc = "reply"
        BY <1>3, <3>1, <3>2 DEF ClosingState
      <3>4. Writers' \subseteq Writers /\ Fallers' \subseteq Fallers
        BY <3>3, WriterSets DEF CountingPC
      <3>5. scan'.completed = scan.completed /\ scan'.failed = scan.failed
        BY <1>3, <3>1 DEF DB!UpdateScanStatus, DB!ScanRow
      <3> QED
        BY <1>2, <1>4, <3>1, <3>3, <3>4, <3>5, ProgressKeeps
    <2>13. CASE CallReply(c) \/ CallAbort(c)
      <3>1. UNCHANGED <<scan, job>> /\ call'[c] = Free /\ \A d \in Call : d # c => call'[d] = call[d]
        BY <1>3, <2>13 DEF CallReply, CallAbort, db
      <3> QED
        BY <2>7, <3>1 DEF Writers, Fallers, Free, CountingPC
    <2> QED
      BY <1>1, <2>1, <2>4, <2>5, <2>6, <2>8, <2>9, <2>10, <2>11, <2>12, <2>13
         DEF CallStep, CallReadScanFails, CallPanics
  <1>7. CASE \E s \in Start : StartStep(s) \/ DispatchStep(s)
    <2>1. PICK s \in Start : StartStep(s) \/ DispatchStep(s)
      BY <1>7
    <2>2. call' = call
      BY <2>1 DEF StartStep, StartRead, StartLock, StartLockRefused, BuildPlan, BuildPlanFails,
         StartUnlock, StartMark, StartMarkFails, StartProgress, StartClientGone,
         DispatchStep, DispatchEnqueue, DispatchFails, DispatchMarkFailed, DispatchCount,
         DispatchRelease, DispatchDeadline
    <2>3. \/ scan' = scan
          \/ \E status : DB!UpdateScanStatus(status)
          \/ DB!UpdateScanProgress(Cardinality(Task), 0, 0)
      BY <2>1 DEF StartStep, StartRead, StartLock, StartLockRefused, BuildPlan, BuildPlanFails,
         StartUnlock, StartMark, StartMarkFails, StartProgress, StartClientGone,
         DispatchStep, DispatchEnqueue, DispatchFails, DispatchMarkFailed, DispatchCount,
         DispatchRelease, DispatchDeadline, db
    <2>4. \/ scan'.completed = scan.completed /\ scan'.failed = scan.failed
          \/ scan'.completed = 0 /\ scan'.failed = 0
      BY <1>3, <2>3 DEF DB!UpdateScanStatus, DB!UpdateScanProgress, DB!ScanRow
    <2>5. CASE \E c \in Call : CallStep(c)
      BY <1>6, <2>5
    <2> QED
      BY <1>5, <2>2, <2>4, <2>5, RowsPlanned
  <1>8. CASE \E w \in Worker : WorkerStep(w)
    <2>1. PICK w \in Worker : WorkerStep(w)
      BY <1>8
    <2>2. UNCHANGED <<job, scan>>
      BY <2>1 DEF WorkerStep, WorkerPop, WorkerExecute, WorkerPost, WorkerPostLost,
         WorkerPostTimeout, WorkerStop, db
    <2>3. \A c \in Call :
            \/ call'[c] = call[c]
            \/ call'[c].pc = "outcome"
            \/ call[c] # Free /\ call'[c] = [call[c] EXCEPT !.attached = FALSE]
      <3>1. CASE WorkerPost(w)
        BY <1>3, <3>1 DEF WorkerPost
      <3>2. CASE Detach({w})
        BY <3>2 DEF Detach
      <3> QED
        BY <2>1, <3>1, <3>2 DEF WorkerStep, WorkerPop, WorkerExecute, WorkerPostLost,
           WorkerPostTimeout, WorkerStop
    <2>4. ASSUME NEW c \in Call, call[c] # Free, call'[c] = [call[c] EXCEPT !.attached = FALSE]
          PROVE  /\ call'[c].pc = call[c].pc
                 /\ call[c].pc # "reply" /\ call[c].pc # "finish" => call'[c].status = call[c].status
                 /\ call[c].pc = "write" => /\ call'[c].completed = call[c].completed
                                            /\ call'[c].failed = call[c].failed
      BY <1>3, <2>4 DEF CallState, DecidingState, CountingState, ClosingState, DecidingPC,
         CountingPC, ClosingPC
    <2>5. Writers' \subseteq Writers /\ Fallers' \subseteq Fallers
      BY <2>3, <2>4 DEF Writers, Fallers, CountingPC
    <2>6. \A c \in Call : call'[c].pc = "write" =>
            /\ call[c].pc = "write"
            /\ call'[c].completed = call[c].completed /\ call'[c].failed = call[c].failed
      BY <2>3, <2>4
    <2> QED
      BY <1>2, <1>4, <2>2, <2>5, <2>6, ProgressKeeps
  <1>9. CASE \/ \E c \in Cancel : CancelStep(c)
             \/ LockExpires \/ RetrySweep \/ RetrySweepFails \/ UNCHANGED vars
    <2>1. /\ UNCHANGED <<call, job>>
          /\ scan' = scan \/ \E status : DB!UpdateScanStatus(status)
      BY <1>9 DEF CancelStep, CancelRead, CancelWrite, LockExpires, RetrySweep,
         RetrySweepFails, vars, db
    <2>2. scan'.completed = scan.completed /\ scan'.failed = scan.failed
      BY <1>3, <2>1 DEF DB!UpdateScanStatus, DB!ScanRow
    <2> QED
      BY <1>5, <2>1, <2>2
  <1>10. ~OrchestratorRestart
    BY <1>1 DEF OrchestratorRestart
  <1> QED
    BY <1>6, <1>7, <1>8, <1>9, <1>10 DEF Next, Rest

(* The progress that is shown never exceeds what happened.                 *)
THEOREM ProgressIsHonest == Spec => []ProgressHonest
  <1>1. ASSUME Init
        PROVE  ProgInv /\ StatusInv
    <2>1. Writers = {} /\ Fallers = {} /\ \A c \in Call : call[c].pc = "free"
      BY <1>1 DEF Init, Writers, Fallers, Free, CountingPC
    <2>2. CompletedJobs = {}
      BY <1>1 DEF Init, DB!StoreInit, CompletedJobs
    <2>3. FailedAttempts = {}
      <3>1. \A p \in Attempts : p[1] \in Job /\ p[2] \in Nat /\ p[2] >= 1
        BY ConstantsAssumption DEF Attempts, ConstantsAssumption
      <3> QED
        BY <1>1, <3>1 DEF Init, DB!StoreInit, FailedAttempts
    <2>4. scan.completed = 0 /\ scan.failed = 0
      BY <1>1 DEF Init, DB!StoreInit
    <2> QED
      BY <2>1, <2>2, <2>3, <2>4, FS_EmptySet DEF ProgInv, StatusInv, DecidingPC
  <1>2. TypeOK /\ ProgInv => ProgressHonest
    <2> SUFFICES ASSUME TypeOK, ProgInv, PostgresUp
                 PROVE  /\ scan.completed <= Cardinality(CompletedJobs)
                        /\ scan.failed <= Cardinality(FailedAttempts)
      BY DEF ProgressHonest, PostgresUp
    <2>1. /\ Cardinality(Writers) \in Nat /\ Cardinality(Fallers) \in Nat
          /\ Cardinality(CompletedJobs) \in Nat /\ Cardinality(FailedAttempts) \in Nat
      BY FS_CardinalityType DEF ProgInv
    <2>2. scan.completed \in Nat /\ scan.failed \in Nat
      BY DEF TypeOK, DB!StoreTypeOK, DB!ScanRow
    <2> QED
      BY <2>1, <2>2 DEF ProgInv
  <1> QED
    BY <1>1, <1>2, ProgStep, StatusStep, JobsHold, AttemptsHold, PlanHolds, TypeCorrect, PTL
       DEF Spec
-----------------------------------------------------------------------------
(* A scan that has come to rest is ended.                                  *)

(* The jobs of which an outcome has reached the row.                       *)
Reported == {j \in Job : job[j].attempt > 1 \/ job[j].status \in DB!Terminal}

(* A panic makes a worker report once more what is reported already: from  *)
(* then until that report is decided, one DECR more than jobs is to come.  *)
Undecided == DecidingPC \ {"requeue"}
Reposts(w) ==
  /\ worker[w] # Polling /\ worker[w].posts = 2
  /\ \/ worker[w].pc = "posting"
     \/ \E c \in Call : call[c].pc \in Undecided /\ call[c].worker = w
Again == "panic" \in struck /\ \E w \in Worker : Reposts(w)

(* A handler that will end the scan, and what keeps a running scan busy.   *)
Ending(c) ==
  \/ call[c].pc \in {"read", "write"} /\ call[c].remaining <= 0
  \/ call[c].pc = "finish"
Busy ==
  \/ \E s \in Start : start[s].pc \in {"progress", "enqueue"}
  \/ \E j \in Job : Dispatched(j) /\ j \notin Reported
  \/ Pending # {}
  \/ Again
  \/ \E c \in Call : Ending(c)

(* What is reported twice is reported, and so is what a handler past its   *)
(* outcome has.                                                            *)
Repeated ==
  "panic" \in struck =>
    \A w \in Worker : worker[w] # Polling /\ worker[w].posts = 2 => worker[w].job \in Reported
Past ==
  \A c \in Call : call[c] # Free /\ call[c].pc \notin Undecided =>
    worker[call[c].worker].job \in Reported

(* Retries only take the counter down: it never exceeds the INCRs of the   *)
(* jobs still to be reported, but for DECRs that are on their way.         *)
AtMost ==
  /\ IsFiniteSet(Incremented) /\ IsFiniteSet(Reported) /\ IsFiniteSet(Pending)
  /\ active + Cardinality(Reported)
       <= Cardinality(Incremented) + Cardinality(Pending) + IF Again THEN 1 ELSE 0

EndInv ==
  Mild => Repeated /\ Past /\ AtMost /\ (scan.status = "running" => Busy)

(* Nothing strikes before the first fault.                                 *)
StruckInv == faults = 0 => struck = {}

LEMMA StruckStep ==
  ASSUME TypeOK, StruckInv, [Next]_vars
  PROVE  StruckInv'
  BY FaultsOnly DEF StruckInv, Strike, faultVars, TypeOK

LEMMA FirstFault ==
  ASSUME TypeOK, StruckInv, Mild', NEW kind, Strike(kind)
  PROVE  /\ kind \in {"post", "client", "panic"} /\ faults = 0
         /\ struck = {} /\ struck' = {kind}
  <1>1. faults \in Nat
    BY ConstantsAssumption DEF ConstantsAssumption, TypeOK
  <1> QED
    BY <1>1 DEF Mild, Strike, StruckInv

LEMMA StaysMild ==
  ASSUME TypeOK, StruckInv, Mild', [Next]_vars
  PROVE  /\ Mild
         /\ \/ UNCHANGED <<faults, struck>>
            \/ \E kind \in {"post", "client", "panic"} :
                 Strike(kind) /\ faults = 0 /\ struck = {} /\ struck' = {kind}
  <1>1. CASE UNCHANGED <<faults, struck>>
    BY <1>1 DEF Mild
  <1>2. ASSUME NEW kind \in Faults, Strike(kind)
        PROVE  /\ kind \in {"post", "client", "panic"} /\ faults = 0
               /\ struck = {} /\ struck' = {kind}
    BY <1>2, FirstFault
  <1>3. (\E kind \in Faults : Strike(kind)) => Mild
    BY <1>2 DEF Mild
  <1> QED
    BY <1>1, <1>2, <1>3, FaultsOnly

(* What a step does to the reported jobs.                                  *)
LEMMA ReportedSets ==
  ASSUME TypeOK, PlanInv
  PROVE  /\ UNCHANGED job \/ Planned => Reported' = Reported
         /\ \A j \in Job : /\ Deciding(j) # {}
                           /\ \/ \E outcome \in Outcome : DB!UpdateJobStatus(j, outcome)
                              \/ DB!IncrementJobAttempt(j)
                           => Reported' = Reported \cup {j}
  <1>1. ASSUME Planned
        PROVE  Reported' = Reported
    <2>1. PICK new \in SUBSET Job :
            DB!CreateJobs(new) /\ \A j \in new : job[j] = [status |-> "absent", attempt |-> 0]
      BY <1>1 DEF Planned
    <2>2. \A j \in Job : j \in Reported' <=> j \in Reported
      BY <2>1 DEF Reported, DB!CreateJobs, DB!Terminal
    <2> QED
      BY <2>2 DEF Reported
  <1>2. ASSUME NEW j \in Job, Deciding(j) # {},
               \/ \E outcome \in Outcome : DB!UpdateJobStatus(j, outcome)
               \/ DB!IncrementJobAttempt(j)
        PROVE  Reported' = Reported \cup {j}
    <2>1. job[j].attempt \in Nat /\ job[j].attempt >= 1
      BY <1>2 DEF PlanInv, Untouched, TypeOK, DB!StoreTypeOK, DB!JobRow
    <2>2. /\ \A k \in Job : k # j => job'[k] = job[k]
          /\ job'[j].status \in DB!Terminal \/ job'[j].attempt = job[j].attempt + 1
      BY <1>2 DEF DB!UpdateJobStatus, DB!IncrementJobAttempt, Outcome, DB!Terminal,
         TypeOK, DB!StoreTypeOK, DB!JobRow
    <2>3. \A k \in Job : k \in Reported' <=> (k \in Reported \/ k = j)
      BY <2>1, <2>2 DEF Reported
    <2> QED
      BY <2>3 DEF Reported
  <1>3. UNCHANGED job => Reported' = Reported
    BY DEF Reported
  <1> QED
    BY <1>1, <1>2, <1>3

(* Steps after which the account is what it was.                           *)
LEMMA EndKeeps ==
  ASSUME EndInv, Mild,
         Reported' = Reported, Incremented' = Incremented, Pending' = Pending,
         active' = active, active \in Int, Again => Again', Repeated', Past',
         scan'.status = "running" => Busy'
  PROVE  EndInv'
  <1>1. AtMost
    BY DEF EndInv
  <1>2. /\ Cardinality(Reported) \in Nat /\ Cardinality(Incremented) \in Nat
        /\ Cardinality(Pending) \in Nat
    BY <1>1, FS_CardinalityType DEF AtMost
  <1>3. AtMost'
    BY <1>1, <1>2 DEF AtMost
  <1> QED
    BY <1>3 DEF EndInv

(* Where neither workers nor handlers nor rows change, what is past or     *)
(* repeated does not either.                                               *)
LEMMA SameReports ==
  ASSUME EndInv, Mild, UNCHANGED <<worker, call>>, Reported' = Reported,
         struck' = struck \/ (struck = {} /\ "panic" \notin struck')
  PROVE  Repeated' /\ Past' /\ Pending' = Pending /\ (Again => Again')
  BY DEF EndInv, Repeated, Past, Pending, Again, Reposts

(* A start request.                                                        *)
LEMMA StartEnds ==
  ASSUME TypeOK, StruckInv, EndInv, Mild, Mild', NEW s \in Start, StartStep(s),
         Reported' = Reported, Incremented' = Incremented
  PROVE  EndInv'
  <1>1. UNCHANGED <<active, worker, call>> /\ active \in Int
    BY DEF StartStep, StartRead, StartLock, StartLockRefused, BuildPlan, BuildPlanFails,
       StartUnlock, StartMark, StartMarkFails, StartProgress, StartClientGone, redis,
       TypeOK, Redis!QueueTypeOK
  <1>2. UNCHANGED faultVars \/ Strike("db") \/ Strike("redis") \/ Strike("client")
    BY DEF StartStep, StartRead, StartLock, StartLockRefused, BuildPlan, BuildPlanFails,
       StartUnlock, StartMark, StartMarkFails, StartProgress, StartClientGone
  <1>3. struck' = struck \/ (struck = {} /\ "panic" \notin struck')
    BY <1>2, FirstFault DEF faultVars
  <1>4. /\ start[s].pc \in Early
        /\ start[s].pc = "progress" => start'[s].pc = "enqueue"
    BY DEF StartStep, StartRead, StartLock, StartLockRefused, BuildPlan, BuildPlanFails,
       StartUnlock, StartMark, StartMarkFails, StartProgress, StartClientGone, GotoWith,
       TypeOK, Early
  <1>5. \A t \in Start \ {s} : start'[t] = start[t]
    BY GotoPC, GotoWithPC
       DEF StartStep, StartRead, StartLock, StartLockRefused, BuildPlan, BuildPlanFails,
           StartUnlock, StartMark, StartMarkFails, StartProgress, StartClientGone,
           TypeOK, StartPC
  <1>6. scan'.status = scan.status \/ start'[s].pc = "progress"
    <2>1. CASE StartMark(s)
      BY <2>1, GotoPC DEF StartMark, TypeOK, StartPC
    <2>2. CASE StartProgress(s)
      BY <2>2 DEF StartProgress, DB!UpdateScanProgress, TypeOK, DB!StoreTypeOK, DB!ScanRow
    <2> QED
      BY <2>1, <2>2 DEF StartStep, StartRead, StartLock, StartLockRefused, BuildPlan,
         BuildPlanFails, StartUnlock, StartMarkFails, StartClientGone, db
  <1>7. Repeated' /\ Past' /\ Pending' = Pending /\ (Again => Again')
    BY <1>1, <1>3, SameReports
  <1>8. ASSUME Busy
        PROVE  Busy'
    <2>1. CASE \E t \in Start : start[t].pc \in {"progress", "enqueue"}
      BY <1>4, <1>5, <2>1 DEF Busy, Early
    <2>2. CASE \E j \in Job : Dispatched(j) /\ j \notin Reported
      <3>1. \A j \in Job : Dispatched(j) => j[1] \in Start \ {s}
        BY <1>4 DEF Dispatched, Early, Job
      <3> QED
        BY <1>5, <2>2, <3>1 DEF Busy, Dispatched
    <2>3. CASE Pending # {} \/ Again \/ \E c \in Call : Ending(c)
      BY <1>1, <1>7, <2>3 DEF Busy, Ending
    <2> QED
      BY <1>8, <2>1, <2>2, <2>3 DEF Busy
  <1>9. scan'.status = "running" => Busy'
    BY <1>6, <1>8 DEF EndInv, Busy
  <1> QED
    BY <1>1, <1>7, <1>9, EndKeeps

(* The dispatch of a plan.                                                 *)
LEMMA DispatchEnds ==
  ASSUME TypeOK, JobInv, FailInv, StruckInv, EndInv, Mild, Mild', NEW s \in Start,
         DispatchStep(s), [Next]_vars, Reported' = Reported
  PROVE  EndInv'
  <1>1. ~DispatchFails(s) /\ ~DispatchMarkFailed(s) /\ ~DispatchDeadline(s)
    BY FirstFault DEF DispatchFails, DispatchMarkFailed, DispatchDeadline, FailInv, Mild
  <1>2. UNCHANGED <<scan, job, worker, call>>
    BY <1>1 DEF DispatchStep, DispatchEnqueue, DispatchCount, DispatchRelease, db
  <1>3. struck' = struck
    BY <1>1, FirstFault DEF DispatchStep, DispatchEnqueue, DispatchCount, DispatchRelease,
       faultVars
  <1>4. Repeated' /\ Past' /\ Pending' = Pending /\ (Again => Again')
    BY <1>2, <1>3, SameReports
  <1>5. active \in Int /\ struck' \subseteq {"post", "client", "panic"}
    BY DEF TypeOK, Redis!QueueTypeOK, Mild
  <1>6. CASE DispatchEnqueue(s)
    <2>1. PICK t \in start[s].left :
            IF start[s].left \ {t} = {} THEN GotoWith(s, "count", Task)
                  ELSE GotoWith(s, "enqueue", start[s].left \ {t})
      BY <1>6 DEF DispatchEnqueue
    <2>2. start[s].pc = "enqueue" /\ t \in Task /\ start'[s].pc \in {"enqueue", "count"}
      BY <1>6, <2>1, GotoWithPC DEF DispatchEnqueue, TypeOK, StartState
    <2>3. PICK j \in Job : j = <<s, t>>
      BY <2>2 DEF Job
    <2>4. Dispatched(j)' /\ ToPush(j)
      BY <2>2, <2>3 DEF Dispatched, ToPush
    <2>5. j \notin Reported
      BY <2>4 DEF JobInv, Fresh, FreshRow, Reported, DB!Terminal
    <2>6. Busy'
      BY <2>4, <2>5 DEF Busy
    <2>7. Incremented' = Incremented /\ active' = active
      <3>1. active' = active
        BY <1>6 DEF DispatchEnqueue
      <3> QED
        BY <1>5, <3>1, IncrementedSets
    <2> QED
      BY <1>4, <1>5, <2>6, <2>7, EndKeeps
  <1>7. ASSUME start[s].pc \in {"count", "release"}, start'[s].pc \in {"count", "release", "done"},
               \A t \in Start \ {s} : start'[t] = start[t]
        PROVE  Busy => Busy'
    <2>1. \A j \in Job : Dispatched(j) => Dispatched(j)'
      BY <1>7 DEF Dispatched, Job
    <2>2. \A t \in Start : start[t].pc \in {"progress", "enqueue"} => start'[t] = start[t]
      BY <1>7
    <2> QED
      BY <1>2, <1>4, <2>1, <2>2 DEF Busy, Ending
  <1>8. CASE DispatchCount(s)
    <2>1. /\ start[s].pc = "count" /\ start'[s].pc \in {"count", "release"}
          /\ \A t \in Start \ {s} : start'[t] = start[t]
      BY <1>8, GotoWithPC DEF DispatchCount, TypeOK
    <2>2. scan'.status = "running" => Busy'
      BY <1>2, <1>7, <2>1 DEF EndInv
    <2>3. PICK j \in Job \ Incremented :
            Incremented' = Incremented \cup {j} /\ active' = active + 1
      BY <1>5, <1>8, IncrementedSets
    <2>4. AtMost
      BY DEF EndInv
    <2>5. /\ IsFiniteSet(Incremented') /\ Cardinality(Incremented) \in Nat
          /\ Cardinality(Incremented') = Cardinality(Incremented) + 1
      BY <2>3, <2>4, OneMore DEF AtMost
    <2>6. Cardinality(Reported) \in Nat /\ Cardinality(Pending) \in Nat
      BY <2>4, FS_CardinalityType DEF AtMost
    <2>7. AtMost'
      BY <1>4, <1>5, <2>3, <2>4, <2>5, <2>6 DEF AtMost
    <2> QED
      BY <1>4, <2>2, <2>7 DEF EndInv
  <1>9. CASE DispatchRelease(s)
    <2>1. /\ start[s].pc = "release" /\ start'[s].pc = "done" /\ active' = active
          /\ \A t \in Start \ {s} : start'[t] = start[t]
      BY <1>9, GotoPC DEF DispatchRelease, TypeOK, StartPC
    <2>2. scan'.status = "running" => Busy'
      BY <1>2, <1>7, <2>1 DEF EndInv
    <2>3. Incremented' = Incremented
      BY <1>5, <2>1, IncrementedSets
    <2> QED
      BY <1>4, <1>5, <2>1, <2>2, <2>3, EndKeeps
  <1> QED
    BY <1>1, <1>6, <1>8, <1>9 DEF DispatchStep

(* A worker.                                                               *)
LEMMA WorkerEnds ==
  ASSUME TypeOK, AttendInv, StruckInv, EndInv, Mild, Mild', NEW w \in Worker, WorkerStep(w)
  PROVE  EndInv'
  <1>1. UNCHANGED <<scan, job, start, active>> /\ active \in Int
    BY DEF WorkerStep, WorkerPop, WorkerExecute, WorkerPost, WorkerPostLost,
       WorkerPostTimeout, WorkerStop, db, redis, TypeOK, Redis!QueueTypeOK
  <1>2. Incremented' = Incremented /\ Reported' = Reported
    BY <1>1 DEF Incremented, Reported
  <1>3. ~WorkerPostTimeout(w) /\ ~WorkerStop(w)
    BY FirstFault DEF WorkerPostTimeout, WorkerStop
  <1>4. \A c \in Call : call[c] # Free =>
          /\ call[c].worker \in Worker /\ worker[call[c].worker].pc = "waiting"
          /\ \A d \in Call : call[d] # Free /\ call[d].worker = call[c].worker => d = c
    BY CallShape DEF AttendInv, Attended, Mild, TypeOK
  <1>5. ASSUME Pending' = Pending, Again => Again', Repeated', Past', \A c \in Call : Ending(c) => Ending(c)'
        PROVE  EndInv'
    <2>1. Busy => Busy'
      BY <1>1, <1>2, <1>5 DEF Busy, Dispatched
    <2> QED
      BY <1>1, <1>2, <1>5, <2>1, EndKeeps DEF EndInv
  <1>6. CASE WorkerPop(w) \/ WorkerExecute(w) \/ WorkerPostLost(w)
    <2>1. /\ worker[w].pc # "waiting" /\ call' = call
          /\ \A v \in Worker : v # w => worker'[v] = worker[v]
      BY <1>6 DEF WorkerPop, WorkerExecute, WorkerPostLost, TypeOK
    <2>2. Pending' = Pending /\ \A c \in Call : Ending(c) => Ending(c)'
      BY <2>1 DEF Pending, Ending
    <2>3. Past'
      BY <1>2, <1>4, <2>1 DEF Past, EndInv
    <2>4. CASE WorkerPostLost(w)
      <3>1. struck = {} /\ "panic" \notin struck'
        BY <2>4, FirstFault DEF WorkerPostLost
      <3> QED
        BY <1>5, <2>2, <2>3, <3>1 DEF Again, Repeated
    <2>5. CASE WorkerPop(w)
      <3>1. /\ struck' = struck /\ worker[w] = Polling /\ worker'[w].posts = 1
        <4>1. worker[w] \in WorkerState /\ worker[w].pc = "polling"
          BY <2>5 DEF WorkerPop, TypeOK
        <4>2. worker[w] = Polling
          BY <4>1 DEF WorkerState, BusyState
        <4> QED
          BY <2>5, <4>2 DEF WorkerPop, TypeOK, faultVars
      <3>2. Repeated'
        BY <1>2, <2>1, <3>1 DEF EndInv, Repeated
      <3>3. Again => Again'
        BY <2>1, <3>1 DEF Again, Reposts
      <3> QED
        BY <1>5, <2>2, <2>3, <3>2, <3>3
    <2>6. CASE WorkerExecute(w)
      <3>1. worker[w] \in BusyState /\ worker[w] # Polling /\ struck' = struck
        BY <2>6, WorkerShape DEF WorkerExecute, TypeOK, Polling, faultVars
      <3>2. /\ worker'[w].pc = "posting" /\ worker'[w].posts = worker[w].posts
            /\ worker'[w].job = worker[w].job
        BY <2>6, <3>1 DEF WorkerExecute, TypeOK, BusyState
      <3>3. Repeated'
        BY <1>2, <2>1, <3>1, <3>2 DEF EndInv, Repeated
      <3>4. Again => Again'
        BY <2>1, <3>1, <3>2 DEF Again, Reposts, Polling
      <3> QED
        BY <1>5, <2>2, <2>3, <3>3, <3>4
    <2> QED
      BY <1>6, <2>4, <2>5, <2>6
  <1>7. CASE WorkerPost(w)
    <2>1. PICK c \in Call :
            /\ call[c] = Free
            /\ call' = [call EXCEPT ![c] =
                 [pc |-> "outcome", worker |-> w, attached |-> TRUE,
                  job |-> worker[w].job, status |-> worker[w].outcome, attempt |-> 0]]
      BY <1>7 DEF WorkerPost
    <2>2. worker[w] \in BusyState /\ worker[w].pc = "posting" /\ struck' = struck
      BY <1>7, WorkerShape DEF WorkerPost, TypeOK, faultVars
    <2>3. /\ worker[w] # Polling /\ worker'[w] # Polling /\ worker'[w].pc = "waiting"
          /\ worker'[w].posts = worker[w].posts /\ worker'[w].job = worker[w].job
          /\ \A v \in Worker : v # w => worker'[v] = worker[v]
      BY <1>7, <2>2 DEF WorkerPost, TypeOK, BusyState, Polling
    <2>4. /\ \A d \in Call : d # c => call'[d] = call[d]
          /\ call'[c].pc = "outcome" /\ call'[c].worker = w /\ call[c].pc = "free"
      BY <2>1 DEF TypeOK, Free
    <2>5. Pending' = Pending /\ \A d \in Call : Ending(d) => Ending(d)'
      BY <2>4 DEF Pending, Ending
    <2>6. Repeated'
      BY <1>2, <2>2, <2>3 DEF EndInv, Repeated
    <2>7. Past'
      <3>1. ASSUME NEW d \in Call, call'[d] # Free, call'[d].pc \notin Undecided
            PROVE  worker'[call'[d].worker].job \in Reported'
        <4>1. d # c /\ call'[d] = call[d] /\ call[d].worker # w /\ call[d].worker \in Worker
          BY <1>4, <2>2, <2>4, <3>1 DEF Undecided, DecidingPC
        <4> QED
          BY <1>2, <2>3, <3>1, <4>1 DEF EndInv, Past
      <3> QED
        BY <3>1 DEF Past
    <2>8. Again => Again'
      <3>1. Reposts(w) => Reposts(w)'
        BY <2>2, <2>3, <2>4 DEF Reposts, Undecided, DecidingPC
      <3>2. \A v \in Worker : v # w /\ Reposts(v) => Reposts(v)'
        BY <2>3, <2>4 DEF Reposts, Undecided, DecidingPC
      <3> QED
        BY <2>2, <3>1, <3>2 DEF Again
    <2> QED
      BY <1>5, <2>5, <2>6, <2>7, <2>8
  <1> QED
    BY <1>3, <1>6, <1>7 DEF WorkerStep

(* A report is decided.  If it was its worker's second one after a panic,  *)
(* its job was reported before.                                            *)
LEMMA DecidedEnds ==
  ASSUME TypeOK, AttendInv, EndInv, Mild, Mild', NEW c \in Call,
         call[c].pc \in Undecided, call'[c].pc \in {"requeue", "decr"},
         call'[c].worker = call[c].worker, \A d \in Call : d # c => call'[d] = call[d],
         Reported' = Reported \cup {call[c].job}, Incremented' = Incremented,
         UNCHANGED <<worker, active>>, struck' = struck
  PROVE  EndInv'
  <1>1. /\ call[c] # Free /\ worker[call[c].worker].job = call[c].job
        /\ call[c].worker \in Worker /\ worker[call[c].worker].pc = "waiting"
        /\ \A d \in Call : call[d] # Free /\ call[d].worker = call[c].worker => d = c
    <2>1. call[c] # Free /\ call[c].pc \in DecidingPC /\ call[c].worker \in Worker
      BY CallShape DEF Undecided, DecidingPC, Free, TypeOK
    <2> QED
      BY <2>1 DEF AttendInv, Attended, Mild
  <1>2. c \notin Pending /\ Pending' = Pending \cup {c}
    BY PendingSets DEF Pending, Undecided, DecidingPC
  <1>3. AtMost /\ Repeated /\ Past
    BY DEF EndInv
  <1>4. /\ IsFiniteSet(Pending') /\ Cardinality(Pending) \in Nat
        /\ Cardinality(Pending') = Cardinality(Pending) + 1
    BY <1>2, <1>3, OneMore DEF AtMost
  <1>5. /\ IsFiniteSet(Reported') /\ Cardinality(Reported) \in Nat
        /\ Cardinality(Reported') = Cardinality(Reported) + IF call[c].job \in Reported THEN 0 ELSE 1
    BY <1>3, OneMore DEF AtMost
  <1>6. call[c].job \in Reported \/ (Again => Again')
    <2>1. ASSUME Again, call[c].job \notin Reported
          PROVE  Again'
      <3>1. PICK v \in Worker : Reposts(v) /\ "panic" \in struck
        BY <2>1 DEF Again
      <3>2. v # call[c].worker
        BY <1>1, <1>3, <2>1, <3>1 DEF Repeated, Reposts
      <3>3. Reposts(v)'
        BY <3>1, <3>2 DEF Reposts
      <3> QED
        BY <3>1, <3>3 DEF Again
    <2> QED
      BY <2>1
  <1>7. active \in Int /\ Cardinality(Incremented) \in Nat
    BY <1>3, FS_CardinalityType DEF AtMost, TypeOK, Redis!QueueTypeOK
  <1>8. AtMost'
    <2>1. active' + Cardinality(Reported')
            <= Cardinality(Incremented') + Cardinality(Pending') + IF Again' THEN 1 ELSE 0
      BY <1>3, <1>4, <1>5, <1>6, <1>7 DEF AtMost
    <2> QED
      BY <1>3, <1>4, <1>5, <2>1 DEF AtMost
  <1>9. Repeated'
    BY <1>3 DEF Repeated
  <1>10. Past'
    <2>1. ASSUME NEW d \in Call, call'[d] # Free, call'[d].pc \notin Undecided
          PROVE  worker'[call'[d].worker].job \in Reported'
      BY <1>1, <1>3, <2>1 DEF Past
    <2> QED
      BY <2>1 DEF Past
  <1>11. Busy'
    BY <1>2 DEF Busy
  <1> QED
    BY <1>8, <1>9, <1>10, <1>11 DEF EndInv

(* The DECR of a report: at or below zero its handler will end the scan,   *)
(* and above zero some job is still to be reported.                        *)
LEMMA DecrEnds ==
  ASSUME TypeOK, EndInv, Mild, Mild', NEW c \in Call, CallDecr(c), struck' = struck,
         Reported' = Reported, Incremented' = Incremented, active' = active - 1
  PROVE  EndInv'
  <1>1. /\ call[c].pc = "decr" /\ UNCHANGED <<scan, start, worker>> /\ active \in Int
        /\ \/ call' = [call EXCEPT ![c].pc = "read", ![c].remaining = active - 1]
           \/ call' = [call EXCEPT ![c].pc = "read", ![c].remaining = 0]
    BY DEF CallDecr, At, db, TypeOK, Redis!QueueTypeOK
  <1>2. call[c] \in CountingState
    BY <1>1, CallShape DEF CountingPC, TypeOK
  <1>3. /\ call'[c].pc = "read" /\ call'[c].remaining \in {active - 1, 0}
        /\ call'[c].worker = call[c].worker /\ call[c] # Free
        /\ \A d \in Call : d # c => call'[d] = call[d]
    BY <1>1, <1>2 DEF CountingState, TypeOK, Free, CountingPC
  <1>4. c \in Pending /\ Pending' = Pending \ {c}
    BY <1>1, <1>3, PendingSets DEF Pending
  <1>5. AtMost /\ Repeated /\ Past
    BY DEF EndInv
  <1>6. /\ IsFiniteSet(Pending') /\ Cardinality(Pending) \in Nat
        /\ Cardinality(Pending') = Cardinality(Pending) - 1
    BY <1>4, <1>5, OneLess DEF AtMost
  <1>7. Cardinality(Reported) \in Nat /\ Cardinality(Incremented) \in Nat
    BY <1>5, FS_CardinalityType DEF AtMost
  <1>8. Again => Again'
    <2>1. \A v \in Worker : Reposts(v) => Reposts(v)'
      BY <1>1, <1>3 DEF Reposts, Undecided, DecidingPC
    <2> QED
      BY <2>1 DEF Again
  <1>9. AtMost'
    BY <1>1, <1>5, <1>6, <1>7, <1>8 DEF AtMost
  <1>10. Repeated'
    BY <1>1, <1>5 DEF Repeated
  <1>11. Past'
    BY <1>1, <1>3, <1>5 DEF Past, Undecided, DecidingPC
  <1>12. Busy'
    <2>1. CASE active' <= 0
      BY <1>1, <1>3, <2>1 DEF Busy, Ending
    <2>2. CASE Pending' # {} \/ Again'
      BY <2>2 DEF Busy
    <2>3. CASE active' >= 1 /\ Pending' = {} /\ ~Again'
      <3>1. Cardinality(Pending') = 0
        BY <2>3, FS_EmptySet
      <3>2. Cardinality(Reported) < Cardinality(Incremented)
        BY <1>1, <1>7, <1>9, <2>3, <3>1 DEF AtMost
      <3>3. ~(Incremented \subseteq Reported)
        BY <1>5, <1>7, <3>2, FS_Subset DEF AtMost
      <3>4. PICK j \in Job : j \in Incremented /\ j \notin Reported
        BY <3>3 DEF Incremented
      <3>5. Dispatched(j)'
        BY <1>1, <3>4 DEF Incremented, Dispatched
      <3> QED
        BY <3>4, <3>5 DEF Busy
    <2> QED
      BY <1>1, <2>1, <2>2, <2>3
  <1> QED
    BY <1>9, <1>10, <1>11, <1>12 DEF EndInv

(* A broadcast panics: the job is reported, and its worker reports again.  *)
LEMMA PanicEnds ==
  ASSUME TypeOK, AttendInv, StruckInv, EndInv, Mild, Mild', NEW c \in Call, CallPanics(c),
         Reported' = Reported, Incremented' = Incremented
  PROVE  EndInv'
  <1>1. /\ call[c].pc \in {"decr", "finish", "reply"} /\ Strike("panic")
        /\ call' = [call EXCEPT ![c] = Free] /\ UNCHANGED <<start, active>> /\ active \in Int
        /\ worker' = [w \in Worker |->
             IF call[c].attached /\ call[c].worker = w /\ worker[w].pc = "waiting"
             THEN AfterFailedPost(worker[w]) ELSE worker[w]]
    BY DEF CallPanics, redis, TypeOK, Redis!QueueTypeOK
  <1>2. faults = 0 /\ struck = {} /\ struck' = {"panic"}
    BY <1>1, FirstFault
  <1>3. /\ call[c] # Free /\ call[c].worker \in Worker /\ call[c].attached
        /\ worker[call[c].worker].pc = "waiting"
        /\ \A d \in Call : call[d] # Free /\ call[d].worker = call[c].worker => d = c
    <2>1. call[c] # Free /\ call[c].worker \in Worker
      BY <1>1, CallShape DEF Free, TypeOK
    <2> QED
      BY <2>1 DEF AttendInv, Attended, Mild
  <1>4. PICK w \in Worker : w = call[c].worker
    BY <1>3
  <1>5. AtMost /\ Repeated /\ Past /\ ~Again
    BY <1>2 DEF EndInv, Again
  <1>6. worker[w] \in BusyState /\ worker[w] # Polling /\ worker[w].posts = 1
    BY <1>2, <1>3, <1>4, WorkerShape DEF AttendInv, TypeOK, Polling
  <1>7. worker[w].job \in Reported
    BY <1>1, <1>3, <1>4, <1>5 DEF Past, Undecided, DecidingPC
  <1>8. /\ worker'[w].pc = "posting" /\ worker'[w].posts = 2 /\ worker'[w] # Polling
        /\ worker'[w].job = worker[w].job
        /\ \A v \in Worker : v # w => worker'[v] = worker[v]
    BY <1>1, <1>3, <1>4, <1>6 DEF AfterFailedPost, BusyState, Polling
  <1>9. /\ \A d \in Call : d # c => call'[d] = call[d]
        /\ call'[c] = Free /\ call'[c].pc = "free"
    BY <1>1 DEF TypeOK, Free
  <1>10. Repeated'
    <2>1. \A v \in Worker : v # w /\ worker'[v] # Polling => worker'[v].posts = 1
      BY <1>2, <1>8 DEF AttendInv
    <2> QED
      BY <1>7, <1>8, <2>1 DEF Repeated
  <1>11. Past'
    <2>1. ASSUME NEW d \in Call, call'[d] # Free, call'[d].pc \notin Undecided
          PROVE  worker'[call'[d].worker].job \in Reported'
      <3>1. d # c /\ call'[d] = call[d] /\ call[d].worker # w /\ call[d].worker \in Worker
        BY <1>3, <1>4, <1>9, <2>1, CallShape DEF TypeOK
      <3> QED
        BY <1>5, <1>8, <2>1, <3>1 DEF Past
    <2> QED
      BY <2>1 DEF Past
  <1>12. Again'
    BY <1>2, <1>8 DEF Again, Reposts
  <1>13. Pending' = Pending \ {c}
    BY <1>9, PendingSets
  <1>14. /\ IsFiniteSet(Pending') /\ Cardinality(Pending) \in Nat /\ Cardinality(Pending') \in Nat
         /\ Cardinality(Pending) <= Cardinality(Pending') + 1
    <2>1. /\ IsFiniteSet(Pending') /\ Cardinality(Pending) \in Nat
          /\ Cardinality(Pending') = Cardinality(Pending) - IF c \in Pending THEN 1 ELSE 0
      BY <1>5, <1>13, OneLess DEF AtMost
    <2>2. Cardinality(Pending') \in Nat
      BY <2>1, FS_CardinalityType
    <2> QED
      BY <2>1, <2>2
  <1>15. Cardinality(Reported) \in Nat /\ Cardinality(Incremented) \in Nat
    BY <1>5, FS_CardinalityType DEF AtMost
  <1>16. AtMost'
    BY <1>1, <1>5, <1>12, <1>14, <1>15 DEF AtMost
  <1> QED
    BY <1>10, <1>11, <1>12, <1>16 DEF EndInv, Busy

LEMMA CallEnds ==
  ASSUME TypeOK, JobInv, PlanInv, AttemptInv, AttendInv, StruckInv, FailInv, EndInv,
         Mild, Mild', [Next]_vars, NEW c \in Call, CallStep(c)
  PROVE  EndInv'
  <1>1. ASSUME NEW kind, Strike(kind), kind \in {"db", "redis"}
        PROVE  FALSE
    BY <1>1, FirstFault
  <1>2. start' = start /\ active \in Int
    BY DEF CallStep, CallCompleted, CallGetJob, CallRetryFails, CallLogFailure,
       CallIncrement, CallRequeue, CallRequeueFails, CallFailed, CallDecr, CallReadScan,
       CallReadScanFails, CallWriteProgress, CallFinish, CallReply, CallAbort, CallPanics,
       TypeOK, Redis!QueueTypeOK
  <1>3. Incremented' = Incremented
    BY <1>2 DEF Incremented
  <1>4. call[c] # Free =>
          /\ call[c].worker \in Worker /\ worker[call[c].worker].pc = "waiting" /\ call[c].attached
          /\ \A d \in Call : call[d] # Free /\ call[d].worker = call[c].worker => d = c
    BY CallShape DEF AttendInv, Attended, Mild, TypeOK
  <1>5. ~CallAbort(c)
    BY <1>4 DEF CallAbort
  <1>6. call \in [Call -> CallState]
    BY DEF TypeOK
  <1>7. call[c].pc \in DecidingPC => call[c].job \in Job /\ Deciding(call[c].job) # {}
    BY HandlerMoves DEF Deciding, DecidingState
  <1>8. CASE CallCompleted(c) \/ CallFailed(c) \/ CallIncrement(c)
    <2>1. /\ call[c].pc \in Undecided /\ call[c].pc \in DecidingPC
          /\ UNCHANGED <<worker, active>> /\ struck' = struck
          /\ \/ \E outcome \in Outcome : DB!UpdateJobStatus(call[c].job, outcome)
             \/ DB!IncrementJobAttempt(call[c].job)
      BY <1>1, <1>8 DEF CallCompleted, CallFailed, CallIncrement, At, Undecided, DecidingPC,
         redis, faultVars, Outcome
    <2>2. Reported' = Reported \cup {call[c].job}
      BY <1>7, <2>1, ReportedSets
    <2>3. /\ call'[c].pc \in {"requeue", "decr"} /\ call'[c].worker = call[c].worker
          /\ \A d \in Call : d # c => call'[d] = call[d]
      <3>1. CASE CallIncrement(c)
        BY <1>6, <2>1, <3>1, HandlerMoves DEF CallIncrement, Move, DecidingState
      <3>2. CASE MoveToCounting(c)
        BY <1>6, <3>2 DEF MoveToCounting
      <3> QED
        BY <1>8, <3>1, <3>2 DEF CallCompleted, CallFailed
    <2> QED
      BY <1>3, <2>1, <2>2, <2>3, DecidedEnds
  <1>9. ASSUME job' = job
        PROVE  Reported' = Reported
    BY <1>9 DEF Reported
  <1>10. CASE CallDecr(c)
    BY <1>1, <1>3, <1>9, <1>10, DecrEnds DEF CallDecr, db, faultVars, Redis!DecrActiveScanJobs
  <1>11. CASE CallPanics(c)
    BY <1>3, <1>9, <1>11, PanicEnds DEF CallPanics, db
  <1>12. CASE CallReply(c)
    <2>1. /\ call[c].pc = "reply" /\ call[c] # Free /\ UNCHANGED <<scan, job, active>>
          /\ call' = [call EXCEPT ![c] = Free] /\ struck' = struck
          /\ worker' = [worker EXCEPT ![call[c].worker] = Polling]
      BY <1>4, <1>12 DEF CallReply, At, db, redis, Free, faultVars
    <2>2. /\ \A d \in Call : d # c => call'[d] = call[d]
          /\ call'[c] = Free /\ call'[c].pc = "free"
          /\ worker'[call[c].worker] = Polling
          /\ \A v \in Worker : v # call[c].worker => worker'[v] = worker[v]
      BY <1>4, <1>6, <2>1 DEF Free, TypeOK
    <2>3. Pending' = Pending
      BY <2>1, <2>2, PendingSets DEF Pending
    <2>4. Repeated'
      BY <1>9, <2>1, <2>2 DEF EndInv, Repeated
    <2>5. Past'
      <3>1. ASSUME NEW d \in Call, call'[d] # Free, call'[d].pc \notin Undecided
            PROVE  worker'[call'[d].worker].job \in Reported'
        <4>1. d # c /\ call'[d] = call[d] /\ call[d].worker # call[c].worker /\ call[d].worker \in Worker
          BY <1>4, <1>6, <2>1, <2>2, <3>1, CallShape
        <4> QED
          BY <1>9, <2>1, <2>2, <3>1, <4>1 DEF EndInv, Past
      <3> QED
        BY <3>1 DEF Past
    <2>6. Again => Again'
      <3>1. ~Reposts(call[c].worker)
        <4>1. \A d \in Call : call[d].pc \in Undecided => call[d] # Free /\ d # c
          BY <2>1 DEF Undecided, DecidingPC, Free
        <4> QED
          BY <1>4, <2>1, <4>1 DEF Reposts
      <3>2. \A v \in Worker : v # call[c].worker /\ Reposts(v) => Reposts(v)'
        BY <2>1, <2>2 DEF Reposts, Undecided, DecidingPC
      <3> QED
        BY <2>1, <3>1, <3>2 DEF Again
    <2>7. Busy => Busy'
      <3>1. \A d \in Call : Ending(d) => Ending(d)'
        BY <2>1, <2>2 DEF Ending
      <3> QED
        BY <1>2, <1>9, <2>1, <2>3, <2>6, <3>1 DEF Busy, Dispatched
    <2> QED
      BY <1>2, <1>3, <1>9, <2>1, <2>3, <2>4, <2>5, <2>6, <2>7, EndKeeps DEF EndInv
  <1>13. ASSUME UNCHANGED <<job, active, worker, struck>>, call[c] # Free, call'[c] # Free,
                call'[c].worker = call[c].worker, \A d \in Call : d # c => call'[d] = call[d],
                call[c].pc \in Undecided <=> call'[c].pc \in Undecided,
                call[c].pc \in {"requeue", "decr"} <=> call'[c].pc \in {"requeue", "decr"},
                \/ scan'.status = scan.status /\ (Ending(c) => Ending(c)')
                \/ scan'.status # "running"
         PROVE  EndInv'
    <2>1. Pending' = Pending
      BY <1>13, PendingSets DEF Pending
    <2>2. Repeated'
      BY <1>9, <1>13 DEF EndInv, Repeated
    <2>3. Past'
      BY <1>9, <1>13 DEF EndInv, Past
    <2>4. Again => Again'
      <3>1. \A v \in Worker : Reposts(v) => Reposts(v)'
        BY <1>13 DEF Reposts
      <3> QED
        BY <1>13, <3>1 DEF Again
    <2>5. scan'.status = "running" => (Busy => Busy')
      <3>1. scan'.status = "running" => \A d \in Call : Ending(d) => Ending(d)'
        BY <1>13 DEF Ending
      <3> QED
        BY <1>2, <1>9, <1>13, <2>1, <2>4, <3>1 DEF Busy, Dispatched
    <2> QED
      BY <1>2, <1>3, <1>9, <1>13, <2>1, <2>2, <2>3, <2>4, <2>5, EndKeeps DEF EndInv
  <1>14. CASE CallGetJob(c) \/ CallLogFailure(c)
    <2>1. /\ call[c].pc \in {"outcome", "log"} /\ UNCHANGED <<scan, job, active, worker, struck>>
          /\ call[c] \in DecidingState
      BY <1>1, <1>14, HandlerMoves DEF CallGetJob, CallLogFailure, At, db, redis, faultVars, DecidingPC
    <2>2. /\ call'[c].pc \in {"log", "increment", "fail"} /\ call'[c].worker = call[c].worker
          /\ \A d \in Call : d # c => call'[d] = call[d]
      BY <1>6, <1>14, <2>1 DEF CallGetJob, CallLogFailure, MoveToFail, DecidingState
    <2> QED
      BY <1>13, <2>1, <2>2 DEF Undecided, DecidingPC, Ending, Free
  <1>15. CASE CallRequeue(c)
    <2>1. /\ call[c].pc = "requeue" /\ UNCHANGED <<scan, job, active, worker, struck>>
          /\ MoveToCounting(c)
      BY <1>15 DEF CallRequeue, At, db, faultVars
    <2>2. /\ call'[c].pc = "decr" /\ call'[c].worker = call[c].worker
          /\ \A d \in Call : d # c => call'[d] = call[d]
      BY <1>6, <2>1 DEF MoveToCounting
    <2> QED
      BY <1>13, <2>1, <2>2 DEF Undecided, DecidingPC, Ending, Free
  <1>16. CASE CallReadScan(c)
    <2>1. /\ call[c].pc = "read" /\ UNCHANGED <<scan, job, active, worker, struck>>
          /\ call[c] \in CountingState
      BY <1>6, <1>16, CallShape DEF CallReadScan, At, db, redis, faultVars, CountingPC
    <2>2. /\ call'[c].pc = "write" /\ call'[c].worker = call[c].worker
          /\ call'[c].remaining = call[c].remaining
          /\ \A d \in Call : d # c => call'[d] = call[d]
      BY <1>6, <1>16, <2>1 DEF CallReadScan, CountingState
    <2> QED
      BY <1>13, <2>1, <2>2 DEF Undecided, DecidingPC, Ending, Free
  <1>17. CASE CallWriteProgress(c)
    <2>1. /\ call[c].pc = "write" /\ UNCHANGED <<job, active, worker, struck>>
          /\ MoveToClosing(c) /\ scan'.status = scan.status
      BY <1>1, <1>17 DEF CallWriteProgress, At, db, redis, faultVars, DB!UpdateScanProgress,
         TypeOK, DB!StoreTypeOK, DB!ScanRow
    <2>2. /\ call'[c].pc = IF call[c].remaining <= 0 THEN "finish" ELSE "reply"
          /\ call'[c].worker = call[c].worker
          /\ \A d \in Call : d # c => call'[d] = call[d]
      BY <1>6, <2>1 DEF MoveToClosing
    <2> QED
      BY <1>13, <2>1, <2>2 DEF Undecided, DecidingPC, Ending, Free
  <1>18. CASE CallFinish(c)
    <2>1. /\ call[c].pc = "finish" /\ UNCHANGED <<job, active, worker, struck>>
          /\ call' = [call EXCEPT ![c].pc = "reply"] /\ scan'.status = "completed"
          /\ call[c] \in ClosingState
      BY <1>1, <1>6, <1>18, CallShape DEF CallFinish, At, Move, redis, faultVars,
         DB!UpdateScanStatus, TypeOK, DB!StoreTypeOK, DB!ScanRow, ClosingPC
    <2>2. /\ call'[c].pc = "reply" /\ call'[c].worker = call[c].worker
          /\ \A d \in Call : d # c => call'[d] = call[d]
      BY <1>6, <2>1 DEF ClosingState
    <2> QED
      BY <1>13, <2>1, <2>2 DEF Undecided, DecidingPC, Free
  <1> QED
    BY <1>1, <1>5, <1>8, <1>10, <1>11, <1>12, <1>14, <1>15, <1>16, <1>17, <1>18
       DEF CallStep, CallRetryFails, CallRequeueFails, CallReadScanFails

LEMMA EndStep ==
  ASSUME TypeOK, JobInv, PlanInv, AttemptInv, AttendInv, StruckInv, FailInv, EndInv, [Next]_vars
  PROVE  EndInv'
  <1> SUFFICES ASSUME Mild'
               PROVE  EndInv'
    BY DEF EndInv
  <1>1. Mild /\ (struck' = struck \/ struck = {})
    BY StaysMild DEF faultVars
  <1>2. CASE \E c \in Call : CallStep(c)
    BY <1>1, <1>2, CallEnds
  <1>3. CASE ~\E c \in Call : CallStep(c)
    <2>1. Reported' = Reported
      BY <1>3, RowsPlanned, ReportedSets
    <2>2. CASE \E s \in Start : StartStep(s)
      <3>1. PICK s \in Start : StartStep(s)
        BY <2>2
      <3>2. active' = active /\ active \in Int
        BY <3>1 DEF StartStep, StartRead, StartLock, StartLockRefused, BuildPlan, BuildPlanFails,
           StartUnlock, StartMark, StartMarkFails, StartProgress, StartClientGone, redis,
           TypeOK, Redis!QueueTypeOK
      <3>3. Incremented' = Incremented
        BY <3>2, IncrementedSets DEF Mild
      <3> QED
        BY <1>1, <2>1, <3>1, <3>3, StartEnds
    <2>3. CASE \E s \in Start : DispatchStep(s)
      BY <1>1, <2>1, <2>3, DispatchEnds
    <2>4. CASE \E w \in Worker : WorkerStep(w)
      BY <1>1, <2>4, WorkerEnds
    <2>5. CASE \/ \E c \in Cancel : CancelStep(c)
               \/ LockExpires \/ RetrySweep \/ RetrySweepFails \/ UNCHANGED vars
      <3>1. /\ UNCHANGED <<start, worker, call, active>> /\ active \in Int
            /\ scan' = scan \/ scan'.status = "cancelled"
            /\ UNCHANGED <<faults, struck>> \/ Strike("db") \/ Strike("redis")
        BY <2>5 DEF CancelStep, CancelRead, CancelWrite, LockExpires, RetrySweep,
           RetrySweepFails, vars, db, redis, faultVars, DB!UpdateScanStatus, TypeOK,
           DB!StoreTypeOK, DB!ScanRow, Redis!QueueTypeOK
      <3>2. struck' = struck
        BY <3>1, FirstFault
      <3>3. Repeated' /\ Past' /\ Pending' = Pending /\ (Again => Again')
        BY <1>1, <2>1, <3>1, <3>2, SameReports
      <3>4. Incremented' = Incremented
        BY <3>1 DEF Incremented
      <3>5. scan'.status = "running" => Busy'
        BY <1>1, <2>1, <3>1, <3>3 DEF EndInv, Busy, Dispatched, Ending
      <3> QED
        BY <1>1, <2>1, <3>1, <3>3, <3>4, <3>5, EndKeeps
    <2>6. ~OrchestratorRestart
      BY FirstFault DEF OrchestratorRestart
    <2> QED
      BY <1>3, <2>2, <2>3, <2>4, <2>5, <2>6 DEF Next, Rest
  <1> QED
    BY <1>2, <1>3

(* A scan at rest is not left running, whatever the order in which the     *)
(* last handlers, retries and dispatches came, and in spite of one         *)
(* undelivered POST, one user who left or one broadcast that panicked.     *)
THEOREM RestedScansEnd == Spec => []RestedScanEnded
  <1>1. ASSUME Init
        PROVE  EndInv /\ StruckInv /\ FailInv
    <2>1. /\ Incremented = {} /\ Pending = {} /\ active = 0 /\ scan.status = "pending"
          /\ \A c \in Call : call[c] = Free
          /\ struck = {}
      BY <1>1 DEF Init, DB!StoreInit, Redis!QueueInit, Incremented, Pending, Free, Job
    <2>2. Reported = {}
      BY <1>1 DEF Init, DB!StoreInit, Reported, DB!Terminal
    <2>3. Cardinality({}) = 0 /\ IsFiniteSet({})
      BY FS_EmptySet
    <2>4. AtMost
      BY <2>1, <2>2, <2>3 DEF AtMost
    <2>5. FailInv
      BY <1>1 DEF Init, FailInv
    <2> QED
      BY <2>1, <2>4, <2>5 DEF EndInv, Repeated, Past, StruckInv
  <1>2. TypeOK /\ PlanInv /\ EndInv /\ NoJobLost => RestedScanEnded
    <2> SUFFICES ASSUME TypeOK, PlanInv, EndInv, NoJobLost, Mild, AtRest, scan.status = "running"
                 PROVE  FALSE
      BY DEF RestedScanEnded
    <2>1. /\ \A w \in Worker : worker[w] = Polling
          /\ \A c \in Call : call[c] = Free /\ call[c].pc = "free"
          /\ \A s \in Start : start[s].pc \in {"done", "rejected"}
          /\ queue = <<>> /\ retry = {}
      BY DEF AtRest, Free
    <2>2. ~Again /\ Pending = {} /\ \A c \in Call : ~Ending(c)
      BY <2>1 DEF Again, Reposts, Pending, Ending
    <2>3. ASSUME NEW j \in Job, Dispatched(j), j \notin Reported
          PROVE  FALSE
      <3>1. ~Held(j) /\ ~ToPush(j)
        BY <2>1 DEF Held, ToPush, Queued, Retrying, InHand, Deciding, Polling, DecidingPC, Job
      <3>2. job[j].status # "absent"
        BY <2>3 DEF Dispatched, PlanInv, Planning
      <3>3. Unsettled(j)
        BY <2>3, <3>2 DEF Reported, Unsettled, DB!Terminal, TypeOK, DB!StoreTypeOK,
           DB!JobRow, DB!JobStatus
      <3> QED
        BY <2>3, <3>1, <3>3 DEF NoJobLost
    <2> QED
      BY <2>1, <2>2, <2>3 DEF EndInv, Busy
  <1> QED
    BY <1>1, <1>2, EndStep, StruckStep, FailStep, NoJobsLost, JobsHold, AttemptsHold,
       AttendHolds, PlanHolds, TypeCorrect, PTL DEF Spec
=============================================================================
