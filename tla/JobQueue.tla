------------------------------ MODULE JobQueue ------------------------------
(***************************************************************************)
(* The Redis keys that carry one scan's work, and the commands of          *)
(* src/orchestrator/queue/queue.go that touch them.  Redis executes one    *)
(* command at a time, so every operator below is one atomic step; a        *)
(* go-redis Pipeline is no transaction, so a pipeline of several commands  *)
(* is several steps, taken by the module that calls them.                  *)
(*                                                                         *)
(* A payload is what a worker needs to run a job: the job's row and the    *)
(* attempt it stands for.  Target, module and credentials are functions of *)
(* the job and are left out.                                               *)
(***************************************************************************)
EXTENDS Integers, Sequences

CONSTANT Job           \* the identities of the rows of the jobs table

VARIABLES
  queue,    \* harbore:jobs:queue, oldest payload first (LPUSH / BRPOP is FIFO)
  retry,    \* harbore:jobs:retry, a sorted set: equal payloads are one member
  active,   \* harbore:scan:active:<id>, created by the first INCR or DECR
  lock      \* harbore:scan:lock:<id> exists

queueVars == <<queue, retry, active, lock>>

Payload == [job : Job, attempt : Nat]

QueueTypeOK ==
  /\ queue \in Seq(Payload)
  /\ retry \in SUBSET Payload
  /\ active \in Int
  /\ lock \in BOOLEAN

QueueInit ==
  /\ queue = <<>>
  /\ retry = {}
  /\ active = 0
  /\ lock = FALSE
-----------------------------------------------------------------------------
(* One LPUSH: of EnqueueJob, of EnqueueJobs' pipeline, or of a retry.      *)
EnqueueJob(p) == queue' = Append(queue, p)

(* The worker's BRPOP of the oldest payload.                               *)
PopJob ==
  /\ queue # <<>>
  /\ queue' = Tail(queue)

(* A defective EnqueueRetry that forgets the payload.                      *)
EnqueueRetryForgets(p) == retry' = retry

(* ZADD: a member that is already there is only rescored.                  *)
EnqueueRetry(p) == retry' = retry \cup {p}

(* A defective sweep that pushes the payload and does not take it out of   *)
(* the sorted set.                                                         *)
ProcessRetryKeeps(p) ==
  /\ p \in retry
  /\ UNCHANGED retry
  /\ EnqueueJob(p)

(* ZREM and LPUSH of one due payload by the sweep.  Delays are not         *)
(* modelled: any payload may be due.  Nobody else reads the sorted set, so *)
(* the two commands of the pipeline are taken together.                    *)
ProcessRetry(p) ==
  /\ p \in retry
  /\ retry' = retry \ {p}
  /\ EnqueueJob(p)

IncrActiveScanJobs == active' = active + 1

(* A defective DecrActiveScanJobs that stops at zero.                      *)
DecrActiveScanJobsClamped == active' = IF active > 0 THEN active - 1 ELSE 0

DecrActiveScanJobs == active' = active - 1

(* A defective SetScanLock: SET where SETNX is meant.                      *)
SetScanLockAlways == lock' = TRUE

(* SETNX that succeeds.                                                    *)
SetScanLock ==
  /\ ~lock
  /\ lock' = TRUE

(* DEL, whoever holds the lock.                                            *)
ReleaseScanLock == lock' = FALSE
=============================================================================
