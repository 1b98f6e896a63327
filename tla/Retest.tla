------------------------------- MODULE Retest -------------------------------
(***************************************************************************)
(* A retest: RetestScan runs the jobs of a scan once more, the reports of  *)
(* its jobs are stored finding by finding (WorkerCallback, CreateFinding), *)
(* and the page that waits for its end has the two scans compared          *)
(* (ReconcileRetest).  src/orchestrator/api/handlers/scans.go, findings.go *)
(* and src/frontend/src/pages/ScanDetail.tsx.  ScanLifecycle is about the  *)
(* jobs and counters of any scan; this is about what is found.             *)
(***************************************************************************)
EXTENDS Integers, FiniteSets

CONSTANTS
  Key,         \* findings, as their module, title and endpoint tell them apart
  Job,         \* the jobs of the scan
  JobOf,       \* the job that can find a finding
  Guarded,     \* the findings that only credentials lead to
  MaxRuns,     \* how often a job is run: max_retries of the scan
  Call,        \* reports that can be handled at a time
  Tick,        \* ticks of the page's timer that can be under way at a time
  MaxFaults    \* bound: how many things go wrong

ASSUME RetestAssumption ==
  /\ JobOf \in [Key -> Job] /\ Guarded \subseteq Key
  /\ IsFiniteSet(Job)
  /\ MaxRuns \in Nat \ {0} /\ MaxFaults \in Nat

Run == Job \X (1..MaxRuns)
NoKey == "none"

VARIABLES
  weak,      \* what the host still suffers from
  stored,    \* how many rows the retest scan has for a finding
  verdict,   \* the status of the parent's findings
  scan,      \* the retest scan's status; "none" before there is one
  active,    \* its counter of active jobs
  counted,   \* how many of its increments of that counter the dispatch is past
  work,      \* the runs of jobs: pc and what was found
  call,      \* the reports being handled
  page,      \* what the page shows of the retest, and whether its timer is set
  tick,      \* its ticks
  faults,    \* what has gone wrong so far
  blind,     \* a finding may have been missed; a history variable
  missed     \* the findings a handler failed to store; a history variable

retestVars ==
  <<weak, stored, verdict, scan, active, counted, work, call, page, tick, faults, blind, missed>>

FreeCall == [pc |-> "free", run |-> <<>>, todo |-> {}, key |-> NoKey, attached |-> FALSE]
IdleTick == [pc |-> "idle", present |-> {}, left |-> {}]

RetestInit ==
  /\ weak \in SUBSET Key
  /\ stored = [k \in Key |-> 0]
  /\ verdict = [k \in Key |-> "open"]
  /\ scan = "none"
  /\ active = 0
  /\ counted = 0
  /\ work = [r \in Run |-> [pc |-> "none", found |-> {}]]
  /\ call = [c \in Call |-> FreeCall]
  /\ page = [phase |-> "none", timer |-> FALSE]
  /\ tick = [t \in Tick |-> IdleTick]
  /\ faults = 0
  /\ blind = FALSE
  /\ missed = {}

Fault == faults < MaxFaults /\ faults' = faults + 1

---------------------------------------------------------------------------
(* The retest scan                                                         *)

(* RetestScan creates the scan and plans it as StartScan does; a goroutine *)
(* queues the jobs and then raises the counter, once for each of them.     *)
(* The page polls from the answer on.                                      *)
RetestScan ==
  /\ page.phase = "none" /\ scan = "none"
  /\ scan' = "running"
  /\ work' = [r \in Run |-> IF r[2] = 1 THEN [work[r] EXCEPT !.pc = "queued"] ELSE work[r]]
  /\ page' = [phase |-> "running", timer |-> TRUE]
  /\ UNCHANGED <<weak, stored, verdict, active, counted, call, tick, faults, blind, missed>>

(* One of its statements fails: the page forgets about the retest.         *)
RetestScanFails ==
  /\ page.phase = "none" /\ scan = "none"
  /\ Fault
  /\ scan' \in {"none", "pending", "running"}
  /\ UNCHANGED <<weak, stored, verdict, active, counted, work, call, page, tick, blind, missed>>

(* One INCR per job, each a command of its own: reports are handled before *)
(* and between them.  A failed one is only logged, and so are those left   *)
(* when the goroutine's two minutes are over.                              *)
DispatchCounts ==
  /\ page.phase # "none" /\ counted < Cardinality(Job)
  /\ \/ active' = active + 1 /\ counted' = counted + 1 /\ UNCHANGED faults
     \/ Fault /\ counted' \in {counted + 1, Cardinality(Job)} /\ UNCHANGED active
  /\ UNCHANGED <<weak, stored, verdict, scan, work, call, page, tick, blind, missed>>

(* The pipeline fails, and some of the jobs are not in the queue.          *)
DispatchFails ==
  /\ page.phase # "none" /\ counted = 0 /\ Job # {}
  /\ Fault
  /\ scan' = "failed"
  /\ counted' = Cardinality(Job)
  /\ \E lost \in SUBSET {r \in Run : r[2] = 1 /\ work[r].pc = "queued"} :
       /\ work' = [r \in Run |-> IF r \in lost THEN [work[r] EXCEPT !.pc = "done"] ELSE work[r]]
       /\ blind' = (blind \/ lost # {})
  /\ UNCHANGED <<weak, stored, verdict, active, call, page, tick, missed>>

---------------------------------------------------------------------------
(* The workers                                                             *)

(* A retry comes from the job's row, which has no credentials.             *)
Findable(r) == {k \in weak : JobOf[k] = r[1] /\ (r[2] > 1 => k \notin Guarded)}

ExecuteJob(r) ==
  /\ work[r].pc = "queued"
  /\ work' = [work EXCEPT ![r] = [pc |-> "post", found |-> Findable(r)]]
  /\ UNCHANGED <<weak, stored, verdict, scan, active, counted, call, page, tick, faults, blind,
                 missed>>

(* Requests without an answer: the job completes all the same.             *)
ExecuteJobUnanswered(r) ==
  /\ work[r].pc = "queued"
  /\ Fault
  /\ \E f \in SUBSET Findable(r) : work' = [work EXCEPT ![r] = [pc |-> "post", found |-> f]]
  /\ blind' = TRUE
  /\ UNCHANGED <<weak, stored, verdict, scan, active, counted, call, page, tick, missed>>

(* The worker stops, with the job in hand.                                 *)
WorkerStops(r) ==
  /\ work[r].pc \in {"queued", "post"}
  /\ Fault
  /\ work' = [work EXCEPT ![r].pc = "done"]
  /\ blind' = TRUE
  /\ UNCHANGED <<weak, stored, verdict, scan, active, counted, call, page, tick, missed>>

(* The report, or the same findings once more as those of a failed job;    *)
(* which of the free handlers takes it is all the same.                    *)
PostResults(r) ==
  /\ work[r].pc \in {"post", "repost"}
  /\ \E c \in Call : call[c].pc = "free"
  /\ call' = [call EXCEPT ![CHOOSE c \in Call : call[c].pc = "free"] =
       [pc |-> IF work[r].pc = "repost" THEN "retry" ELSE "store", run |-> r,
        todo |-> work[r].found, key |-> NoKey, attached |-> TRUE]]
  /\ work' = [work EXCEPT ![r].pc = IF @ = "post" THEN "posted" ELSE "reposted"]
  /\ UNCHANGED <<weak, stored, verdict, scan, active, counted, page, tick, faults, blind, missed>>

(* A report that does not arrive, or whose answer is late: the worker      *)
(* posts it once more and then forgets about it.  The handler it has left  *)
(* loses its context.                                                      *)
PostLost(r) ==
  /\ work[r].pc \in {"post", "posted", "repost", "reposted"}
  /\ Fault
  /\ work' = [work EXCEPT ![r].pc = IF @ \in {"post", "posted"} THEN "repost" ELSE "done"]
  /\ call' = [c \in Call |-> IF call[c].pc # "free" /\ call[c].run = r
                             THEN [call[c] EXCEPT !.attached = FALSE] ELSE call[c]]
  /\ blind' = (blind \/ work[r].pc = "repost")
  /\ UNCHANGED <<weak, stored, verdict, scan, active, counted, page, tick, missed>>

---------------------------------------------------------------------------
(* WorkerCallback                                                          *)

(* HandleRetry: another run, as long as there are attempts and no          *)
(* statement fails; the findings are stored in any case.                   *)
HandleRetry(c) ==
  LET r == call[c].run  next == <<r[1], r[2] + 1>> IN
  /\ call[c].pc = "retry"
  /\ \/ /\ work' = IF r[2] < MaxRuns THEN [work EXCEPT ![next].pc = "queued"] ELSE work
        /\ UNCHANGED faults
     \/ Fault /\ UNCHANGED work
  /\ call' = [call EXCEPT ![c].pc = "store"]
  /\ UNCHANGED <<weak, stored, verdict, scan, active, counted, page, tick, blind, missed>>

(* CreateFinding looks whether there is a row already ...                  *)
FindingExists(c) ==
  /\ call[c].pc = "store"
  /\ \E k \in call[c].todo :
       \/ stored[k] > 0 /\ call' = [call EXCEPT ![c].todo = @ \ {k}]
       \/ stored[k] = 0 /\ call' = [call EXCEPT ![c].pc = "insert", ![c].key = k]
  /\ UNCHANGED <<weak, stored, verdict, scan, active, counted, work, page, tick, faults, blind,
                 missed>>

(* Mutant: an error is taken for a row.                                    *)
FindingExistsFailsDrops(c) ==
  /\ call[c].pc = "store"
  /\ Fault
  /\ \E k \in call[c].todo : call' = [call EXCEPT ![c].todo = @ \ {k}]
  /\ UNCHANGED <<weak, stored, verdict, scan, active, counted, work, page, tick, blind, missed>>

(* ... takes an error for no ...                                           *)
FindingExistsFails(c) ==
  /\ call[c].pc = "store"
  /\ Fault
  /\ \E k \in call[c].todo : call' = [call EXCEPT ![c].pc = "insert", ![c].key = k]
  /\ UNCHANGED <<weak, stored, verdict, scan, active, counted, work, page, tick, blind, missed>>

Stored(c) == [call EXCEPT ![c].pc = "store", ![c].todo = @ \ {call[c].key}, ![c].key = NoKey]

(* ... and inserts one.                                                    *)
InsertFinding(c) ==
  /\ call[c].pc = "insert"
  /\ stored' = [stored EXCEPT ![call[c].key] = @ + 1]
  /\ call' = Stored(c)
  /\ UNCHANGED <<weak, verdict, scan, active, counted, work, page, tick, faults, blind, missed>>

InsertFindingFails(c) ==
  /\ call[c].pc = "insert"
  /\ Fault
  /\ call' = Stored(c)
  /\ blind' = TRUE
  /\ missed' = missed \cup {call[c].key}
  /\ UNCHANGED <<weak, stored, verdict, scan, active, counted, work, page, tick>>

(* Mutant: the counter is decremented before the findings are stored.      *)
DecrReadyEarly(c) == call[c].pc = "store"

DecrReady(c) == call[c].pc = "store" /\ call[c].todo = {}

(* A run whose findings may not be stored yet.                             *)
Outstanding(r) ==
  \/ work[r].pc \in {"queued", "post", "repost"}
  \/ \E c \in Call : call[c].pc \in {"retry", "store", "insert"} /\ call[c].run = r

(* A counter that cannot be reached counts as zero.                        *)
DecrActiveScanJobs(c) ==
  /\ DecrReady(c)
  /\ \E remaining \in {active - 1, 0} :
       /\ \/ remaining = active - 1 /\ active' = remaining /\ UNCHANGED faults
          \/ remaining = 0 /\ Fault /\ UNCHANGED active
       /\ call' = [call EXCEPT ![c].pc = IF remaining <= 0 THEN "finish" ELSE "reply"]
       /\ blind' = (blind \/ (remaining <= 0 /\ \E r \in Run \ {call[c].run} : Outstanding(r)))
  /\ UNCHANGED <<weak, stored, verdict, scan, counted, work, page, tick, missed>>

MarkCompleted(c) ==
  /\ call[c].pc = "finish"
  /\ scan' = "completed"
  /\ call' = [call EXCEPT ![c].pc = "reply"]
  /\ UNCHANGED <<weak, stored, verdict, active, counted, work, page, tick, faults, blind, missed>>

MarkCompletedFails(c) ==
  /\ call[c].pc = "finish"
  /\ Fault
  /\ call' = [call EXCEPT ![c].pc = "reply"]
  /\ UNCHANGED <<weak, stored, verdict, scan, active, counted, work, page, tick, blind, missed>>

Reply(c) ==
  /\ call[c].pc = "reply"
  /\ work' = IF call[c].attached THEN [work EXCEPT ![call[c].run].pc = "done"] ELSE work
  /\ call' = [call EXCEPT ![c] = FreeCall]
  /\ UNCHANGED <<weak, stored, verdict, scan, active, counted, page, tick, faults, blind, missed>>

(* Without its context every further statement of a handler fails.         *)
CallAbort(c) ==
  /\ call[c].pc # "free" /\ ~call[c].attached
  /\ call' = [call EXCEPT ![c] = FreeCall]
  /\ missed' = missed \cup call[c].todo
  /\ blind' = (blind \/ call[c].todo # {})
  /\ UNCHANGED <<weak, stored, verdict, scan, active, counted, work, page, tick, faults>>

---------------------------------------------------------------------------
(* The page, and ReconcileRetest                                           *)

Others == <<weak, stored, scan, active, counted, work, call, missed>>
Go(t, pc) == tick' = [tick EXCEPT ![t].pc = pc]

(* Every four seconds, whether the tick before has come to an end or not,  *)
(* the page asks for the scan; an answer that it is running changes        *)
(* nothing, and neither does an error.                                     *)
TimerTicks(t) ==
  /\ page.timer /\ tick[t].pc = "idle"
  /\ t = CHOOSE u \in Tick : tick[u].pc = "idle"
  /\ scan \in {"completed", "failed"}
  /\ Go(t, scan)
  /\ UNCHANGED <<Others, verdict, page, faults, blind>>

(* Mutant: nothing follows.                                                *)
TickSeesCompletedForgets(t) ==
  /\ tick[t].pc = "completed"
  /\ Go(t, "idle")
  /\ page' = [page EXCEPT !.timer = FALSE]
  /\ UNCHANGED <<Others, verdict, faults, blind>>

(* The answer: the timer is cleared first of all.                          *)
TickSeesCompleted(t) ==
  /\ tick[t].pc = "completed"
  /\ Go(t, "list")
  /\ page' = [page EXCEPT !.timer = FALSE]
  /\ UNCHANGED <<Others, verdict, faults, blind>>

TickSeesFailed(t) ==
  /\ tick[t].pc = "failed"
  /\ Go(t, "idle")
  /\ page' = [phase |-> "none", timer |-> FALSE]
  /\ UNCHANGED <<Others, verdict, faults, blind>>

ReconcileFails(t) ==
  /\ tick[t].pc = "list"
  /\ Fault
  /\ Go(t, "idle")
  /\ UNCHANGED <<Others, verdict, page, blind>>

Present == {k \in Key : stored[k] > 0}

ListRetestFindings(t) ==
  /\ tick[t].pc = "list"
  /\ tick' = [tick EXCEPT ![t] = [pc |-> "mark", present |-> Present, left |-> Key]]
  /\ UNCHANGED <<Others, verdict, page, faults, blind>>

(* The errors of both lists are ignored: nothing to mark, or nothing found.*)
ListFindingsFails(t) ==
  /\ tick[t].pc = "list"
  /\ Fault
  /\ \E left \in {{}, Key} :
       tick' = [tick EXCEPT ![t] = [pc |-> "mark", present |-> {}, left |-> left]]
  /\ blind' = TRUE
  /\ UNCHANGED <<Others, verdict, page>>

(* So is that of a statement.                                              *)
SetFindingStatus(t) ==
  /\ tick[t].pc = "mark"
  /\ \E k \in tick[t].left :
       /\ tick' = [tick EXCEPT ![t].left = @ \ {k}]
       /\ \/ /\ verdict' = [verdict EXCEPT ![k] = IF k \in tick[t].present THEN "open" ELSE "fixed"]
             /\ UNCHANGED faults
          \/ Fault /\ UNCHANGED verdict
  /\ UNCHANGED <<Others, page, blind>>

Reconciled(t) ==
  /\ tick[t].pc = "mark" /\ tick[t].left = {}
  /\ tick' = [tick EXCEPT ![t] = IdleTick]
  /\ page' = [page EXCEPT !.phase = "done"]
  /\ UNCHANGED <<Others, verdict, faults, blind>>

(* The answer is lost: with the timer gone, the page waits for ever.       *)
ReconciledLost(t) ==
  /\ tick[t].pc = "mark" /\ tick[t].left = {}
  /\ Fault
  /\ tick' = [tick EXCEPT ![t] = IdleTick]
  /\ UNCHANGED <<Others, verdict, page, blind>>

---------------------------------------------------------------------------

RetestWork(r) ==
  ExecuteJob(r) \/ ExecuteJobUnanswered(r) \/ WorkerStops(r) \/ PostResults(r) \/ PostLost(r)

RetestCall(c) ==
  \/ HandleRetry(c) \/ FindingExists(c) \/ FindingExistsFails(c)
  \/ InsertFinding(c) \/ InsertFindingFails(c) \/ DecrActiveScanJobs(c)
  \/ MarkCompleted(c) \/ MarkCompletedFails(c) \/ Reply(c) \/ CallAbort(c)

Poll(t) ==
  \/ TickSeesCompleted(t) \/ TickSeesFailed(t) \/ ListRetestFindings(t)
  \/ SetFindingStatus(t) \/ Reconciled(t)

RetestNext ==
  \/ RetestScan \/ RetestScanFails \/ DispatchCounts \/ DispatchFails
  \/ \E r \in Run : RetestWork(r)
  \/ \E c \in Call : RetestCall(c)
  \/ \E t \in Tick :
       TimerTicks(t) \/ Poll(t) \/ ReconcileFails(t) \/ ListFindingsFails(t) \/ ReconciledLost(t)

(* The browser's timer fires and its requests end, one way or the other.   *)
RetestFairness == \A t \in Tick : WF_retestVars(TimerTicks(t)) /\ WF_retestVars(Poll(t))

RetestSpec == RetestInit /\ [][RetestNext]_retestVars /\ RetestFairness

---------------------------------------------------------------------------
(* Properties                                                              *)

(* "marks each parent finding fixed (absent in retest) or still-open       *)
(* (present)", scans.go:385: what is marked fixed is gone from the host,   *)
(* whatever reports and ticks overlap, are lost or repeated, unless a      *)
(* request of the retest had no answer, a finding could not be stored or   *)
(* listed, or the scan was marked completed with findings outstanding.     *)
FixedIsGone == ~blind => \A k \in Key : verdict[k] = "fixed" => k \notin weak

(* Two handlers that store the same findings at a time, and lookups that   *)
(* fail, lose none: what a handler is done with has a row, unless its own  *)
(* statement failed.  (They may store one twice.)                          *)
HandledStored ==
  \A c \in Call :
    call[c].pc \in {"store", "finish", "reply"} =>
      \A k \in (work[call[c].run].found \ call[c].todo) \ missed : stored[k] > 0

(* A page that waits for a retest that is completed shows the result of    *)
(* the comparison, unless a request of its own fails once it has stopped   *)
(* its timer.                                                              *)
Stuck ==
  /\ page.phase = "running" /\ ~page.timer /\ faults > 0
  /\ \A t \in Tick : tick[t].pc = "idle"

RetestConcludes ==
  scan = "completed" /\ page.timer ~> page.phase # "running" \/ Stuck
=============================================================================
