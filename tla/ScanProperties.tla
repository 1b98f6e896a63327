--------------------------- MODULE ScanProperties ---------------------------
(***************************************************************************)
(* What a scan's lifecycle promises, stated over ScanLifecycle.  Each      *)
(* property says which faults it survives; the runs give Faults its value. *)
(***************************************************************************)
EXTENDS ScanLifecycle

CONSTANT
  Unending   \* jobs whose run need not end: pci's handshake with a mute host

ASSUME UnendingAssumption == Unending \subseteq Job

(* Where a copy of a job's payload can be: still to be pushed, in one of   *)
(* the two Redis queues, with a worker, or in a handler that has not yet   *)
(* recorded the outcome it was given.                                      *)
ToPush(j) == start[j[1]].pc = "enqueue" /\ j[2] \in start[j[1]].left
Queued(j) == {i \in DOMAIN queue : queue[i].job = j}
Retrying(j) == {p \in retry : p.job = j}
InHand(j) == {w \in Worker : worker[w].pc \in {"running", "posting"} /\ worker[w].job = j}
Deciding(j) ==
  {c \in Call : call[c].pc \in DecidingPC /\ call[c].job = j}

Copies(j) ==
  (IF ToPush(j) THEN 1 ELSE 0) + Cardinality(Queued(j)) + Cardinality(Retrying(j))
  + Cardinality(InHand(j)) + Cardinality(Deciding(j))

Held(j) ==
  Queued(j) # {} \/ Retrying(j) # {} \/ InHand(j) # {} \/ Deciding(j) # {}

(* A job whose start got as far as pushing its plan.                       *)
Dispatched(j) == start[j[1]].pc \in {"enqueue", "count", "release", "done"}

Unsettled(j) == job[j].status \in {"queued", "retrying"}

(* The first report of a POST that timed out, or that a restart or a panic *)
(* cut off, may have been acted on when the second one arrives: these      *)
(* kinds of fault can make one execution count twice.                      *)
NoDoubledReport == struck \cap {"timeout", "orchestrator", "panic"} = {}

(* At most one fault has struck: a client that left, a POST that was not   *)
(* delivered, or a broadcast that panicked.                                *)
Mild == struck \subseteq {"post", "client", "panic"} /\ faults <= 1
-----------------------------------------------------------------------------
(* A job is in at most one place: neither a retry, the sweep, an           *)
(* undelivered POST nor a restart of the scan makes two copies of one      *)
(* job's work.                                                             *)
HeldOnce == NoDoubledReport => \A j \in Job : Copies(j) <= 1

(* After at most one fault, of these kinds, no dispatched job that is      *)
(* still queued or retrying is without a copy of its work somewhere: the   *)
(* way from queue to worker to handler to retry queue loses nothing.       *)
NoJobLost ==
  Mild => \A j \in Job : Dispatched(j) /\ Unsettled(j) => Held(j) \/ ToPush(j)

(* Whatever carries a job carries the attempt its row is at, so no attempt *)
(* is run twice and no job is run more often than its row counts.          *)
AttemptCurrent ==
  NoDoubledReport =>
    /\ \A i \in DOMAIN queue : queue[i].attempt = job[queue[i].job].attempt
    /\ \A p \in retry : p.attempt = job[p.job].attempt
    /\ \A w \in Worker : worker[w].pc \in {"running", "posting"} =>
         worker[w].attempt = job[worker[w].job].attempt

(* Under every fault: no payload stands for an attempt beyond the scan's   *)
(* max_retries, in any queue or worker, even when reports are doubled and  *)
(* the attempt column of the row overshoots.                               *)
AttemptsBounded ==
  /\ \A i \in DOMAIN queue : queue[i].attempt \in 1..MaxAttempts
  /\ \A p \in retry : p.attempt \in 1..MaxAttempts
  /\ \A w \in Worker : worker[w] # Polling => worker[w].attempt \in 1..MaxAttempts

(* The rows of the jobs table, read as the abstract jobs of JobSpec: queued *)
(* and retrying are both open.                                             *)
Jobs == INSTANCE JobSpec WITH
  phase <- [j \in Job |->
              CASE job[j].status = "absent" -> "unplanned"
                [] job[j].status \in {"queued", "retrying"} -> "open"
                [] OTHER -> job[j].status],
  tries <- [j \in Job |-> job[j].attempt],
  Served <- IF Cardinality(Unending) < Cardinality(Worker) THEN Job \ Unending ELSE {}

(* The orchestrator, with its queues, workers and concurrent handlers,     *)
(* implements JobSpec: a job is retried only while it is open and below    *)
(* its maximum, and its outcome, once recorded, is final.  (For the kinds  *)
(* of fault that cannot double a report.)                                  *)
JobsImplemented == Jobs!Spec

(* The recorded outcome of a job is final: no late report, retry or        *)
(* restart of the scan changes the row of a completed or failed job.       *)
OutcomeFinal ==
  [][\A j \in Job : NoDoubledReport /\ job[j].status \in DB!Terminal
       => job'[j] = job[j]]_vars

(* Unless a store fails, a job is given up only after its last attempt,    *)
(* and the failure log then has it with that number of attempts.           *)
GivenUpLast ==
  struck \subseteq {"post", "client", "worker", "deadline"} =>
    \A j \in Job : job[j].status = "failed" =>
      /\ job[j].attempt = MaxAttempts
      /\ [job |-> j, attempts |-> MaxAttempts] \in failures

(* What the counters are about: the jobs whose INCR has run; the attempts  *)
(* whose outcome, or whose failure, the job's row has; and the handlers    *)
(* that have put it there and have yet to DECR.                            *)
Attempts == Job \X (1..MaxAttempts)
Incremented ==
  {j \in Job : \/ start[j[1]].pc = "count" /\ j[2] \notin start[j[1]].left
               \/ start[j[1]].pc \in {"release", "done"}}
Recorded ==
  {p \in Attempts : \/ p[2] < job[p[1]].attempt
                    \/ p[2] = job[p[1]].attempt /\ job[p[1]].status \in DB!Terminal}
FailedAttempts ==
  {p \in Attempts : \/ p[2] < job[p[1]].attempt
                    \/ p[2] = job[p[1]].attempt /\ job[p[1]].status = "failed"}
CompletedJobs == {j \in Job : job[j].status = "completed"}
Pending == {c \in Call : call[c].pc \in {"requeue", "decr"}}

(* What the active counter counts: jobs whose INCR has run, less reports   *)
(* whose outcome is in the job's row, plus those among them that have yet  *)
(* to DECR.  A retried attempt is such a report, and the retry that        *)
(* follows it is never counted: the counter runs below the number of       *)
(* outstanding jobs by the number of retries made.                         *)
CounterAccounts ==
  struck \subseteq {"post", "client"} =>
    active = Cardinality(Incremented) - Cardinality(Recorded) + Cardinality(Pending)

(* The progress shown never exceeds what happened: handlers that overwrite *)
(* each other's counts, and a restart's reset, lose reports and never      *)
(* invent one.                                                             *)
ProgressHonest ==
  struck \subseteq {"post", "client", "worker", "deadline", "redis"} =>
    /\ scan.completed <= Cardinality(CompletedJobs)
    /\ scan.failed <= Cardinality(FailedAttempts)

(* The starts that go by the lock at this moment.                          *)
Section == {s \in Start : InSection(s)}

(* Under every fault: the starts between taking the lock and giving it up  *)
(* are one, and one more for each time the key lapsed under a start.  When *)
(* the key is free, for another start to take, they are one fewer: a       *)
(* release that deletes another start's key lets in nobody beyond.         *)
StartExclusive ==
  /\ Cardinality(Section) <= lapsed + 1
  /\ ~lock => Cardinality(Section) <= lapsed

(* When all requests are served and the queues have drained, the scan is   *)
(* not left running: retries take the counter below zero and a slow        *)
(* dispatch raises it late, and still some last report sees it at or below *)
(* zero and ends the scan.  One undelivered POST, or one broadcast that    *)
(* panics before the scan is ended, changes nothing of that: the worker    *)
(* reports once more, and the job it has done is retried.                  *)
RestedScanEnded == Mild => (AtRest => scan.status # "running")
-----------------------------------------------------------------------------
(* A worker whose run may never end: pci's handshake looks at no context   *)
(* and has no limit of its own, so a host that stays mute holds it up.     *)
HeldUp(w) == worker[w].pc = "running" /\ worker[w].job \in Unending

(* Fairness: every process of the program goes on, but for a worker that   *)
(* is held up; users, faults and the expiry of keys are left to chance.    *)
Fairness ==
  /\ \A s \in Start : WF_vars(DispatchStep(s))
  /\ \A s \in Start : WF_vars(start[s].pc # "new" /\ StartStep(s))
  /\ WF_vars(RetrySweep)
  /\ \A w \in Worker : WF_vars(~HeldUp(w) /\ WorkerStep(w))
  /\ \A c \in Call : WF_vars(CallStep(c))

FairSpec == Spec /\ Fairness

(* A started scan does not stay running for ever, unless a worker is held  *)
(* up for ever.                                                            *)
RunningScanEnds ==
  <>[](scan.status = "running") => \E w \in Worker : <>[]HeldUp(w)

(* And it implements JobSpec with its fairness: every planned job is       *)
(* retried until it has an outcome.  The jobs whose runs may not end are   *)
(* not served, and while they are fewer than the workers, the others are.  *)
JobsServed == Jobs!FairSpec
-----------------------------------------------------------------------------
(* What comments of the source say and the code does not do.               *)

(* findings.go:169 "If no more active jobs, mark scan as complete".        *)
CompletedMeansNoActiveJob ==
  scan.status = "completed" => \A j \in Job : ~(Dispatched(j) /\ Unsettled(j))

(* scans.go:117 "Acquire lock to prevent double-start".                    *)
NoDoubleStart ==
  [][lapsed = 0 => \A s \in Start :
       StartLock(s) => scan.status \notin {"running", "completed"}]_vars

(* scans.go:227 "CancelScan stops a running scan."                         *)
CancelledStaysCancelled ==
  [][scan.status = "cancelled" => scan'.status # "completed"]_vars
=============================================================================
