--------------------------- MODULE ScanJobs_proofs ---------------------------
(***************************************************************************)
(* Where the work of a job is, for every value of the constants: it is in  *)
(* one place at a time, it carries the attempt of the job's row, and so a  *)
(* job is retried and settled as JobSpec says.                             *)
(***************************************************************************)
EXTENDS ScanLifecycle_proofs

Early == {"new", "lock", "plan", "unlock", "mark", "progress"}

(* The job is still to be pushed for the first time.                       *)
Waits(j) == start[j[1]].pc \in Early \/ ToPush(j)

(* No payload of the job is anywhere.                                      *)
Untouched(j) ==
  /\ Queued(j) = {} /\ Retrying(j) = {} /\ Deciding(j) = {}
  /\ \A w \in Worker : worker[w] # Polling => worker[w].job # j

(* The row of a job that waits, under every fault.                         *)
FreshRow(j) ==
  /\ start[j[1]].pc \in {"new", "lock", "plan"} =>
       job[j] = [status |-> "absent", attempt |-> 0]
  /\ start[j[1]].pc \in {"mark", "progress"} \/ ToPush(j) =>
       job[j] = [status |-> "queued", attempt |-> 1]

Fresh == \A j \in Job : (Waits(j) => Untouched(j)) /\ FreshRow(j)

Single(S) == \A x, y \in S : x = y

(* One place at most has the job, once.                                    *)
Exclusive(j) ==
  /\ Single(Queued(j)) /\ Single(Retrying(j)) /\ Single(InHand(j)) /\ Single(Deciding(j))
  /\ Queued(j) # {} => Retrying(j) = {} /\ InHand(j) = {} /\ Deciding(j) = {}
  /\ Retrying(j) # {} => InHand(j) = {} /\ Deciding(j) = {}
  /\ InHand(j) # {} => Deciding(j) = {}

(* Who has it knows the attempt of its row; HandleRetry knows the one that *)
(* it has read, until and after it has incremented the row's.              *)
Current(j) ==
  /\ \A i \in Queued(j) : queue[i].attempt = job[j].attempt
  /\ \A p \in Retrying(j) : p.attempt = job[j].attempt
  /\ \A w \in InHand(j) : worker[w].attempt = job[j].attempt
  /\ \A c \in Deciding(j) :
       /\ call[c].pc \in {"log", "increment"} => call[c].attempt = job[j].attempt
       /\ call[c].pc = "requeue" => call[c].attempt + 1 = job[j].attempt

(* The inductive invariant, job by job.                                    *)
Kept(j) ==
  /\ Exclusive(j)
  /\ Current(j)
  /\ Held(j) => Unsettled(j)
  /\ job[j].attempt <= MaxAttempts

JobInv == Fresh /\ (NoDoubledReport => \A j \in Job : Kept(j))
-----------------------------------------------------------------------------
(* What a step does to the places.                                         *)

(* The starts go on, and those that have planned their jobs have all of    *)
(* them in `new`, the rows that the step inserts.                          *)
StartsGoOn(new) ==
  \A s \in Start :
    /\ start'[s].pc \in Early => start[s].pc \in Early
    /\ start'[s].pc \in {"new", "lock", "plan"} =>
         start[s].pc \in {"new", "lock", "plan"} /\ \A j \in new : j[1] # s
    /\ start'[s].pc \in {"mark", "progress"} =>
         \/ start[s].pc \in {"mark", "progress"}
         \/ start[s].pc = "plan" /\ {s} \X Task \subseteq new
    /\ start'[s].pc = "enqueue" =>
         \/ start[s].pc = "enqueue" /\ start'[s].left \subseteq start[s].left
         \/ start[s].pc = "progress"

(* No worker has work it did not have, nor other work.                     *)
WorkersKeep ==
  /\ \A w \in Worker : worker'[w] # Polling =>
       /\ worker[w] # Polling
       /\ worker'[w].job = worker[w].job /\ worker'[w].attempt = worker[w].attempt
  /\ NoDoubledReport' => \A w \in Worker : worker'[w].pc \in {"running", "posting"} =>
       worker[w].pc \in {"running", "posting"}

(* No handler decides about a job it did not have; one may have read the   *)
(* attempt of its row, or have turned to fail.                             *)
HandlersKeep ==
  \A c \in Call : call'[c].pc \in DecidingPC =>
    /\ call[c].pc \in DecidingPC /\ call'[c].job = call[c].job
    /\ \/ call'[c].pc = call[c].pc /\ call'[c].attempt = call[c].attempt
       \/ call'[c].pc \in {"log", "increment"} /\ call'[c].attempt = job[call[c].job].attempt
       \/ call'[c].pc = "fail"

(* Steps that hand no payload to anybody, and may insert the rows of a     *)
(* plan.                                                                   *)
LEMMA NothingNew ==
  ASSUME TypeOK, JobInv, NEW new, \A j \in new : j \in Job /\ start[j[1]].pc = "plan",
         \A j \in Job : job'[j] = IF j \in new THEN [status |-> "queued", attempt |-> 1]
                                               ELSE job[j],
         queue' = queue, retry' \subseteq retry, struck \subseteq struck',
         StartsGoOn(new), WorkersKeep, HandlersKeep
  PROVE  JobInv'
  <1>1. \A j \in Job : /\ j[1] \in Start /\ j[2] \in Task
                       /\ Queued(j)' = Queued(j) /\ Retrying(j)' \subseteq Retrying(j)
                       /\ Deciding(j)' \subseteq Deciding(j)
    BY DEF Job, Queued, Retrying, Deciding, HandlersKeep
  <1>2. \A j \in Job : Untouched(j) => Untouched(j)'
    BY <1>1 DEF Untouched, WorkersKeep
  <1>3. \A j \in Job : Waits(j)' => Waits(j)
    BY <1>1 DEF StartsGoOn, Waits, ToPush, Early, TypeOK, StartState
  <1>4. Fresh'
    <2> SUFFICES ASSUME NEW j \in Job
                 PROVE  (Waits(j) => Untouched(j))' /\ FreshRow(j)'
      BY DEF Fresh
    <2>1. (Waits(j) => Untouched(j))'
      BY <1>2, <1>3 DEF JobInv, Fresh
    <2>2. (start[j[1]].pc \in {"new", "lock", "plan"} =>
             job[j] = [status |-> "absent", attempt |-> 0])'
      BY <1>1 DEF StartsGoOn, JobInv, Fresh, FreshRow
    <2>3. (start[j[1]].pc \in {"mark", "progress"} \/ ToPush(j) =>
             job[j] = [status |-> "queued", attempt |-> 1])'
      <3>1. ASSUME (start[j[1]].pc \in {"mark", "progress"} \/ ToPush(j))'
            PROVE  \/ start[j[1]].pc \in {"mark", "progress"} \/ ToPush(j)
                   \/ start[j[1]].pc = "plan" /\ {j[1]} \X Task \subseteq new
        BY <1>1, <3>1 DEF StartsGoOn, ToPush
      <3>2. j \in {j[1]} \X Task
        BY <1>1 DEF Job
      <3> QED
        BY <3>1, <3>2 DEF JobInv, Fresh, FreshRow
    <2> QED
      BY <2>1, <2>2, <2>3 DEF FreshRow
  <1>5. ASSUME NoDoubledReport', NEW j \in Job
        PROVE  Kept(j)'
    <2>1. NoDoubledReport /\ Kept(j)
      BY <1>5 DEF NoDoubledReport, JobInv
    <2>2. InHand(j)' \subseteq InHand(j)
      BY <1>5 DEF InHand, WorkersKeep, Polling
    <2>3. CASE j \in new
      <3>1. Untouched(j)
        BY <2>3 DEF JobInv, Fresh, Waits, Early
      <3>2. ~Held(j)'
        BY <1>1, <2>2, <3>1 DEF Untouched, Held, InHand, Polling
      <3> QED
        BY <2>3, <3>2, ConstantsAssumption
           DEF Kept, Held, Exclusive, Current, Single, ConstantsAssumption
    <2>4. CASE j \notin new
      <3>1. job'[j] = job[j]
        BY <2>4
      <3>2. Exclusive(j)'
        BY <1>1, <2>1, <2>2 DEF Kept, Exclusive, Single
      <3>3. Current(j)'
        <4>1. \A w \in InHand(j)' : w \in InHand(j) /\ worker'[w].attempt = worker[w].attempt
          BY <2>2 DEF WorkersKeep, InHand, Polling
        <4>2. \A c \in Deciding(j)' :
                /\ call'[c].pc \in {"log", "increment"} => call'[c].attempt = job[j].attempt
                /\ call'[c].pc = "requeue" => call'[c].attempt + 1 = job[j].attempt
          BY <2>1 DEF Kept, Current, HandlersKeep, Deciding
        <4> QED
          BY <1>1, <2>1, <3>1, <4>1, <4>2 DEF Kept, Current
      <3> QED
        BY <1>1, <2>1, <2>2, <3>1, <3>2, <3>3 DEF Kept, Held, Unsettled
    <2> QED
      BY <2>3, <2>4
  <1> QED
    BY <1>4, <1>5 DEF JobInv

(* The same without a plan.                                                *)
LEMMA NothingPlanned ==
  ASSUME TypeOK, JobInv, job' = job, queue' = queue, retry' \subseteq retry,
         struck \subseteq struck', StartsGoOn({}), WorkersKeep, HandlersKeep
  PROVE  JobInv'
  <1>1. \A j \in {} : j \in Job /\ start[j[1]].pc = "plan"
    OBVIOUS
  <1>2. \A j \in Job : job'[j] = IF j \in {} THEN [status |-> "queued", attempt |-> 1] ELSE job[j]
    OBVIOUS
  <1> QED
    BY <1>1, <1>2, NothingNew

(* A fault is added to those that struck.                                  *)
LEMMA StrikeGrows ==
  ASSUME NEW kind, Strike(kind) \/ UNCHANGED faultVars
  PROVE  struck \subseteq struck'
  BY DEF Strike, faultVars

(* Who does not move goes on.                                              *)
LEMMA StayingKeep ==
  /\ start' = start => StartsGoOn({})
  /\ worker' = worker => WorkersKeep
  /\ call' = call => HandlersKeep
  BY DEF StartsGoOn, WorkersKeep, HandlersKeep

(* One start goes on alone.                                                *)
LEMMA OneStartGoesOn ==
  ASSUME TypeOK, NEW s \in Start, NEW new, \A j \in new : j[1] = s,
         \A t \in Start \ {s} : start'[t] = start[t],
         start'[s].pc \in Early => start[s].pc \in Early,
         start'[s].pc \in {"new", "lock", "plan"} =>
           start[s].pc \in {"new", "lock", "plan"} /\ new = {},
         start'[s].pc \in {"mark", "progress"} =>
           \/ start[s].pc \in {"mark", "progress"}
           \/ start[s].pc = "plan" /\ {s} \X Task \subseteq new,
         start'[s].pc = "enqueue" =>
           \/ start[s].pc = "enqueue" /\ start'[s].left \subseteq start[s].left
           \/ start[s].pc = "progress"
  PROVE  StartsGoOn(new)
  <1> SUFFICES ASSUME NEW t \in Start, t # s
               PROVE  /\ start'[t] = start[t]
                      /\ \A j \in new : j[1] # t
    BY DEF StartsGoOn
  <1> QED
    OBVIOUS

(* The handler of a start request.                                         *)
LEMMA StartStepJobs ==
  ASSUME TypeOK, JobInv, NEW s \in Start, StartStep(s)
  PROVE  JobInv'
  <1>1. ASSUME NEW new, \A j \in new : j \in Job /\ j[1] = s, new # {} => start[s].pc = "plan",
               DB!CreateJobs(new), UNCHANGED <<redis, cancel, worker, call>>,
               StartsGoOn(new), struck \subseteq struck'
        PROVE  JobInv'
    BY <1>1, NothingNew, StayingKeep DEF DB!CreateJobs, redis
  <1>2. ASSUME job' = job, UNCHANGED <<queue, retry, worker, call>>, StartsGoOn({}),
               struck \subseteq struck'
        PROVE  JobInv'
    BY <1>2, NothingPlanned, StayingKeep
  <1>3. CASE StartRead(s)
    <2>1. start'[s].pc \in {"rejected", "lock"} /\ \A t \in Start \ {s} : start'[t] = start[t]
      BY <1>3, GotoPC DEF StartRead, TypeOK, StartPC
    <2> QED
      BY <1>2, <1>3, <2>1, OneStartGoesOn, StrikeGrows DEF StartRead, Early, db, redis
  <1>4. CASE StartLock(s)
    <2>1. start'[s].pc = "plan" /\ start[s].pc = "lock" /\ \A t \in Start \ {s} : start'[t] = start[t]
      BY <1>4, GotoPC DEF StartLock, TypeOK, StartPC
    <2> QED
      BY <1>2, <1>4, <2>1, OneStartGoesOn DEF StartLock, Early, db, faultVars
  <1>5. CASE StartLockRefused(s)
    <2>1. start'[s].pc = "rejected" /\ \A t \in Start \ {s} : start'[t] = start[t]
      BY <1>5, GotoPC DEF StartLockRefused, TypeOK, StartPC
    <2> QED
      BY <1>2, <1>5, <2>1, OneStartGoesOn, StrikeGrows DEF StartLockRefused, Early, db, redis
  <1>6. CASE BuildPlan(s)
    <2>1. /\ start'[s].pc = "mark" /\ start[s].pc = "plan"
          /\ \A t \in Start \ {s} : start'[t] = start[t]
      BY <1>6, GotoPC DEF BuildPlan, TypeOK, StartPC
    <2>2. \A j \in {s} \X Task : j \in Job /\ j[1] = s
      BY DEF Job
    <2>3. StartsGoOn({s} \X Task)
      BY <2>1, <2>2, OneStartGoesOn DEF Early
    <2> QED
      BY <1>1, <1>6, <2>1, <2>2, <2>3 DEF BuildPlan, faultVars
  <1>7. ASSUME start[s].pc = "plan", start'[s].pc \in {"unlock", "rejected"},
               \A t \in Start \ {s} : start'[t] = start[t], struck \subseteq struck',
               NEW made \in (SUBSET Task) \ {Task}, DB!CreateJobs({s} \X made),
               UNCHANGED <<redis, cancel, worker, call>>
        PROVE  JobInv'
    <2>1. \A j \in {s} \X made : j \in Job /\ j[1] = s
      BY DEF Job
    <2>2. StartsGoOn({s} \X made)
      BY <1>7, <2>1, OneStartGoesOn DEF Early
    <2> QED
      BY <1>1, <1>7, <2>1, <2>2
  <1>8. CASE BuildPlanFails(s)
    <2>1. start'[s].pc = "unlock" /\ \A t \in Start \ {s} : start'[t] = start[t]
      BY <1>8, GotoPC DEF BuildPlanFails, TypeOK, StartPC
    <2> QED
      BY <1>7, <1>8, <2>1, StrikeGrows DEF BuildPlanFails
  <1>9. CASE StartUnlock(s)
    <2>1. start'[s].pc = "rejected" /\ \A t \in Start \ {s} : start'[t] = start[t]
      BY <1>9, GotoPC DEF StartUnlock, TypeOK, StartPC
    <2> QED
      BY <1>2, <1>9, <2>1, OneStartGoesOn, StrikeGrows DEF StartUnlock, Early, db
  <1>10. CASE StartMark(s)
    <2>1. /\ start'[s].pc = "progress" /\ start[s].pc = "mark"
          /\ \A t \in Start \ {s} : start'[t] = start[t]
      BY <1>10, GotoPC DEF StartMark, TypeOK, StartPC
    <2> QED
      BY <1>2, <1>10, <2>1, OneStartGoesOn DEF StartMark, Early, redis, faultVars
  <1>11. CASE StartMarkFails(s)
    <2>1. start'[s].pc = "rejected" /\ \A t \in Start \ {s} : start'[t] = start[t]
      BY <1>11, GotoPC DEF StartMarkFails, TypeOK, StartPC
    <2> QED
      BY <1>2, <1>11, <2>1, OneStartGoesOn, StrikeGrows DEF StartMarkFails, Early, db, redis
  <1>12. CASE StartProgress(s)
    <2>1. /\ start'[s].pc = "enqueue" /\ start[s].pc = "progress"
          /\ \A t \in Start \ {s} : start'[t] = start[t]
      BY <1>12, GotoWithPC DEF StartProgress, TypeOK, StartPC
    <2> QED
      BY <1>2, <1>12, <2>1, OneStartGoesOn, StrikeGrows DEF StartProgress, Early, redis
  <1>13. CASE StartClientGone(s)
    <2>1. CASE start[s].pc = "plan"
      <3>1. start'[s].pc = "rejected" /\ \A t \in Start \ {s} : start'[t] = start[t]
        BY <1>13, <2>1, GotoPC DEF StartClientGone, TypeOK, StartPC
      <3> QED
        BY <1>7, <1>13, <2>1, <3>1, StrikeGrows DEF StartClientGone
    <2>2. CASE start[s].pc # "plan"
      <3>1. /\ start'[s].pc = IF start[s].pc = "progress" THEN "enqueue" ELSE "rejected"
            /\ \A t \in Start \ {s} : start'[t] = start[t]
        BY <1>13, <2>2, GotoPC, GotoWithPC DEF StartClientGone, TypeOK, StartPC
      <3> QED
        BY <1>2, <1>13, <2>2, <3>1, OneStartGoesOn, StrikeGrows
           DEF StartClientGone, Early, redis
    <2> QED
      BY <2>1, <2>2
  <1> QED
    BY <1>3, <1>4, <1>5, <1>6, <1>8, <1>9, <1>10, <1>11, <1>12, <1>13 DEF StartStep

(* What LPUSH and BRPOP do to the places in the queue.                     *)
LEMMA Pushed ==
  ASSUME queue \in Seq(Redis!Payload), NEW p \in Redis!Payload, Redis!EnqueueJob(p)
  PROVE  /\ Len(queue) \in Nat /\ DOMAIN queue = 1..Len(queue)
         /\ queue'[Len(queue) + 1] = p
         /\ \A i \in DOMAIN queue : queue'[i] = queue[i]
         /\ \A j : Queued(j)' = IF j = p.job THEN Queued(j) \cup {Len(queue) + 1}
                                             ELSE Queued(j)
  <1>1. /\ Len(queue) \in Nat /\ DOMAIN queue = 1..Len(queue)
        /\ DOMAIN queue' = 1..(Len(queue) + 1)
        /\ queue'[Len(queue) + 1] = p
        /\ \A i \in DOMAIN queue : queue'[i] = queue[i]
    BY DEF Redis!EnqueueJob
  <1> QED
    BY <1>1 DEF Queued

LEMMA Popped ==
  ASSUME queue \in Seq(Redis!Payload), Redis!PopJob
  PROVE  /\ 1 \in DOMAIN queue /\ Head(queue) = queue[1]
         /\ \A i \in DOMAIN queue' : /\ i \in Nat \ {0} /\ i + 1 \in DOMAIN queue
                                     /\ queue'[i] = queue[i + 1]
  BY DEF Redis!PopJob
(* Starts that go on keep what Fresh says of the jobs they have not pushed *)
(* as long as nobody else comes by one of these.                           *)
LEMMA StillFresh ==
  ASSUME TypeOK, JobInv, StartsGoOn({}),
         \A j \in Job : Waits(j)' => job'[j] = job[j] /\ Untouched(j)'
  PROVE  Fresh'
  <1> SUFFICES ASSUME NEW j \in Job
               PROVE  (Waits(j) => Untouched(j))' /\ FreshRow(j)'
    BY DEF Fresh
  <1>1. j[1] \in Start /\ j[2] \in Task
    BY DEF Job
  <1>2. FreshRow(j)
    BY DEF JobInv, Fresh
  <1>3. ASSUME start'[j[1]].pc \in {"new", "lock", "plan"}
        PROVE  job'[j] = [status |-> "absent", attempt |-> 0]
    <2>1. start[j[1]].pc \in {"new", "lock", "plan"}
      BY <1>1, <1>3 DEF StartsGoOn
    <2>2. job'[j] = job[j]
      BY <1>3 DEF Waits, Early
    <2> QED
      BY <1>2, <2>1, <2>2 DEF FreshRow
  <1>4. ASSUME (start[j[1]].pc \in {"mark", "progress"} \/ ToPush(j))'
        PROVE  job'[j] = [status |-> "queued", attempt |-> 1]
    <2>1. start[j[1]].pc \in {"mark", "progress"} \/ ToPush(j)
      <3>1. <<j[1], j[2]>> \in {j[1]} \X Task
        BY <1>1
      <3> QED
        BY <1>1, <1>4, <3>1 DEF StartsGoOn, ToPush
    <2>2. job'[j] = job[j]
      BY <1>4 DEF Waits, Early
    <2> QED
      BY <1>2, <2>1, <2>2 DEF FreshRow
  <1> QED
    BY <1>3, <1>4 DEF FreshRow

(* LPUSH by the dispatch or by the sweep, of a job that is nowhere else.   *)
LEMMA PushKeeps ==
  ASSUME TypeOK, JobInv, NEW p \in Redis!Payload, Redis!EnqueueJob(p), retry' \subseteq retry,
         UNCHANGED <<job, worker, call, struck>>, StartsGoOn({}), ~Waits(p.job)',
         NoDoubledReport =>
           /\ Queued(p.job) = {} /\ Retrying(p.job)' = {}
           /\ InHand(p.job) = {} /\ Deciding(p.job) = {}
           /\ Unsettled(p.job) /\ p.attempt = job[p.job].attempt
  PROVE  JobInv'
  <1>1. /\ queue'[Len(queue) + 1] = p
        /\ \A i \in DOMAIN queue : queue'[i] = queue[i]
        /\ \A j : Queued(j)' = IF j = p.job THEN Queued(j) \cup {Len(queue) + 1} ELSE Queued(j)
    BY Pushed DEF TypeOK, Redis!QueueTypeOK
  <1>2. \A j \in Job : /\ Retrying(j)' \subseteq Retrying(j)
                       /\ InHand(j)' = InHand(j) /\ Deciding(j)' = Deciding(j)
    BY DEF Retrying, InHand, Deciding
  <1>3. Fresh'
    <2>1. ASSUME NEW j \in Job, Waits(j)'
          PROVE  Untouched(j)'
      <3>1. Waits(j) /\ j # p.job
        BY <2>1 DEF Job, StartsGoOn, Waits, ToPush, Early
      <3>2. Untouched(j)
        BY <3>1 DEF JobInv, Fresh
      <3> QED
        BY <1>1, <1>2, <3>1, <3>2 DEF Untouched
    <2> QED
      BY <2>1, StillFresh
  <1>4. ASSUME NoDoubledReport', NEW j \in Job
        PROVE  Kept(j)'
    <2>1. NoDoubledReport /\ Kept(j)
      BY <1>4 DEF NoDoubledReport, JobInv
    <2>2. CASE j = p.job
      BY <1>1, <1>2, <2>1, <2>2 DEF Kept, Exclusive, Single, Current, Held, Unsettled
    <2>3. CASE j # p.job
      <3>1. Queued(j)' = Queued(j) /\ Queued(j) \subseteq DOMAIN queue
        BY <1>1, <2>3 DEF Queued
      <3>2. Exclusive(j)' /\ (Held(j) => Unsettled(j))'
        BY <1>2, <2>1, <3>1 DEF Kept, Exclusive, Single, Held, Unsettled
      <3>3. Current(j)'
        BY <1>1, <1>2, <2>1, <3>1 DEF Kept, Current
      <3> QED
        BY <2>1, <3>2, <3>3 DEF Kept
    <2> QED
      BY <2>2, <2>3
  <1> QED
    BY <1>3, <1>4 DEF JobInv

(* The dispatch goroutine.                                                 *)
LEMMA DispatchStepJobs ==
  ASSUME TypeOK, JobInv, NEW s \in Start, DispatchStep(s)
  PROVE  JobInv'
  <1>1. CASE DispatchEnqueue(s)
    <2>1. PICK t \in start[s].left :
            /\ Redis!EnqueueJob([job |-> <<s, t>>, attempt |-> 1])
            /\ \/ GotoWith(s, "count", Task)
               \/ GotoWith(s, "enqueue", start[s].left \ {t})
      BY <1>1 DEF DispatchEnqueue
    <2> DEFINE j == <<s, t>>
               p == [job |-> j, attempt |-> 1]
    <2>2. j \in Job /\ p \in Redis!Payload /\ start[s].left \subseteq Task
      BY <2>1 DEF TypeOK, StartState, Redis!Payload, Job
    <2>3. start[s].pc = "enqueue" /\ \A q \in Start \ {s} : start'[q] = start[q]
      BY <1>1, <2>1, GotoWithPC DEF DispatchEnqueue, TypeOK
    <2>4. \/ start'[s] = [pc |-> "count", left |-> Task]
          \/ start'[s] = [pc |-> "enqueue", left |-> start[s].left \ {t}]
      <3>1. start \in [Start -> StartState]
        BY DEF TypeOK
      <3>2. CASE GotoWith(s, "count", Task)
        BY <3>1, <3>2 DEF GotoWith
      <3>3. CASE GotoWith(s, "enqueue", start[s].left \ {t})
        BY <3>1, <3>3 DEF GotoWith
      <3> QED
        BY <2>1, <3>2, <3>3
    <2>5. StartsGoOn({})
      BY <2>3, <2>4, OneStartGoesOn DEF Early
    <2>6. ToPush(j) /\ ~Waits(j)'
      BY <2>3, <2>4 DEF ToPush, Waits, Early
    <2>7. Untouched(j) /\ job[j] = [status |-> "queued", attempt |-> 1]
      BY <2>2, <2>6 DEF JobInv, Fresh, FreshRow, Waits
    <2>8. InHand(j) = {}
      BY <2>7 DEF InHand, Untouched, Polling
    <2>9. UNCHANGED <<job, retry, worker, call, struck>> /\ Redis!EnqueueJob(p)
      BY <1>1, <2>1 DEF DispatchEnqueue, db, faultVars
    <2>10. p.job = j /\ p.attempt = 1
      OBVIOUS
    <2> HIDE DEF j, p
    <2>11. Retrying(j)' = {}
      BY <2>7, <2>9 DEF Untouched, Retrying
    <2> QED
      BY <2>2, <2>5, <2>6, <2>7, <2>8, <2>9, <2>10, <2>11, PushKeeps DEF Untouched, Unsettled
  <1>2. CASE \/ DispatchFails(s) \/ DispatchMarkFailed(s) \/ DispatchCount(s)
             \/ DispatchRelease(s) \/ DispatchDeadline(s)
    <2>1. UNCHANGED <<job, queue, retry, worker, call>> /\ struck \subseteq struck'
      BY <1>2, StrikeGrows DEF DispatchFails, DispatchMarkFailed, DispatchCount,
           DispatchRelease, DispatchDeadline, db, redis
    <2>2. /\ start'[s].pc \in {"fail", "count", "release", "done"}
          /\ \A t \in Start \ {s} : start'[t] = start[t]
      <3>1. CASE DispatchFails(s) \/ DispatchDeadline(s)
        BY <3>1, GotoWithPC DEF DispatchFails, DispatchDeadline, TypeOK
      <3>2. CASE DispatchMarkFailed(s) \/ DispatchRelease(s)
        BY <3>2, GotoPC DEF DispatchMarkFailed, DispatchRelease, TypeOK, StartPC
      <3>3. CASE DispatchCount(s)
        BY <3>3, GotoWithPC DEF DispatchCount, TypeOK
      <3> QED
        BY <1>2, <3>1, <3>2, <3>3
    <2>3. StartsGoOn({})
      BY <2>2, OneStartGoesOn DEF Early
    <2> QED
      BY <2>1, <2>3, NothingPlanned, StayingKeep
  <1> QED
    BY <1>1, <1>2 DEF DispatchStep

(* The retry sweep.                                                        *)
LEMMA SweepJobs ==
  ASSUME TypeOK, JobInv, RetrySweep
  PROVE  JobInv'
  <1>1. PICK p \in retry : Redis!ProcessRetry(p)
    BY DEF RetrySweep
  <1>2. p \in Redis!Payload /\ Redis!EnqueueJob(p) /\ retry' = retry \ {p}
    BY <1>1 DEF Redis!ProcessRetry, TypeOK, Redis!QueueTypeOK
  <1>3. UNCHANGED <<job, worker, call, struck, start>>
    BY DEF RetrySweep, db, faultVars
  <1>4. p.job \in Job /\ p \in Retrying(p.job)
    BY <1>1, <1>2 DEF Retrying, Redis!Payload
  <1>5. ~Waits(p.job)'
    BY <1>3, <1>4 DEF JobInv, Fresh, Untouched, Waits, ToPush
  <1>6. NoDoubledReport =>
          /\ Queued(p.job) = {} /\ Retrying(p.job)' = {}
          /\ InHand(p.job) = {} /\ Deciding(p.job) = {}
          /\ Unsettled(p.job) /\ p.attempt = job[p.job].attempt
    BY <1>2, <1>4 DEF JobInv, Kept, Exclusive, Single, Current, Held, Retrying
  <1> QED
    BY <1>2, <1>3, <1>5, <1>6, PushKeeps, StayingKeep
(* Steps that move the payload of one job, which somebody has, and leave   *)
(* the other jobs alone.                                                   *)
LEMMA OneJobMoves ==
  ASSUME TypeOK, JobInv, NEW j0 \in Job, ~Untouched(j0),
         UNCHANGED <<start, queue>>, struck \subseteq struck',
         \A j \in Job \ {j0} : job'[j] = job[j],
         \A p \in retry' : p \in retry \/ p.job = j0,
         \A w \in Worker : worker'[w] = worker[w] \/ worker'[w].job = j0,
         \A c \in Call : call'[c].pc \in DecidingPC => call'[c] = call[c] \/ call'[c].job = j0,
         NoDoubledReport => Kept(j0)'
  PROVE  JobInv'
  <1>1. ASSUME NEW j \in Job \ {j0}
        PROVE  /\ Queued(j)' = Queued(j) /\ Retrying(j)' \subseteq Retrying(j)
               /\ \A w \in Worker : worker'[w] # Polling /\ worker'[w].job = j =>
                    worker'[w] = worker[w]
               /\ \A w \in InHand(j)' : w \in InHand(j) /\ worker'[w] = worker[w]
               /\ \A c \in Deciding(j)' : c \in Deciding(j) /\ call'[c] = call[c]
    BY <1>1 DEF Queued, Retrying, InHand, Deciding
  <1>2. \A j \in Job : Waits(j)' => Waits(j) /\ Untouched(j) /\ j # j0
    BY DEF JobInv, Fresh, Waits, ToPush
  <1>3. Fresh'
    <2>1. ASSUME NEW j \in Job, Waits(j)'
          PROVE  job'[j] = job[j] /\ Untouched(j)'
      <3>1. Untouched(j) /\ j \in Job \ {j0}
        BY <1>2, <2>1
      <3>2. \A w \in Worker : worker'[w] # Polling => worker'[w].job # j
        BY <1>1, <3>1 DEF Untouched
      <3> QED
        BY <1>1, <3>1, <3>2 DEF Untouched
    <2> QED
      BY <2>1, StillFresh, StayingKeep
  <1>4. ASSUME NoDoubledReport', NEW j \in Job \ {j0}
        PROVE  Kept(j)'
    <2>1. NoDoubledReport /\ Kept(j) /\ job'[j] = job[j]
      BY <1>4 DEF NoDoubledReport, JobInv
    <2>2. Exclusive(j)' /\ (Held(j)' => Held(j))
      BY <1>1, <2>1 DEF Kept, Exclusive, Single, Held
    <2>3. Current(j)'
      BY <1>1, <2>1 DEF Kept, Current
    <2> QED
      BY <2>1, <2>2, <2>3 DEF Kept, Unsettled
  <1>5. NoDoubledReport' => NoDoubledReport
    BY DEF NoDoubledReport
  <1> QED
    BY <1>3, <1>4, <1>5 DEF JobInv

(* A worker whose POST failed has the job that it had, or none.            *)
LEMMA FailedPostKeeps ==
  ASSUME NEW state \in WorkerState, state.pc # "polling", AfterFailedPost(state) # Polling
  PROVE  /\ state # Polling /\ AfterFailedPost(state).job = state.job
         /\ AfterFailedPost(state).attempt = state.attempt
  BY WorkerShape DEF AfterFailedPost, BusyState, Polling

(* A handler that loses its client goes on as before.                      *)
LEMMA DetachKeeps ==
  ASSUME TypeOK, NEW lost, Detach(lost), NEW c \in Call, call'[c].pc \in DecidingPC
  PROVE  /\ call[c].pc = call'[c].pc /\ call'[c].job = call[c].job
         /\ call'[c].attempt = call[c].attempt
  <1>1. CASE call'[c] = call[c]
    BY <1>1
  <1>2. CASE call'[c] = [call[c] EXCEPT !.attached = FALSE] /\ call[c] # Free
    <2>1. call[c].pc \in DecidingPC
      BY <1>2, CallShape DEF TypeOK, CallState, DecidingState, CountingState, ClosingState
    <2>2. call[c] \in DecidingState
      BY <2>1, CallShape DEF TypeOK
    <2> QED
      BY <1>2, <2>2 DEF DecidingState
  <1> QED
    BY <1>1, <1>2 DEF Detach

(* A worker.                                                               *)
LEMMA WorkerStepJobs ==
  ASSUME TypeOK, JobInv, NEW w \in Worker, WorkerStep(w)
  PROVE  JobInv'
  <1>1. CASE WorkerPop(w)
    <2>1. /\ 1 \in DOMAIN queue
          /\ \A i \in DOMAIN queue' : /\ i \in Nat \ {0} /\ i + 1 \in DOMAIN queue
                                      /\ queue'[i] = queue[i + 1]
          /\ queue[1] \in Redis!Payload
          /\ worker[w] = Polling
          /\ worker' = [worker EXCEPT ![w] =
               [pc |-> "running", job |-> queue[1].job, attempt |-> queue[1].attempt,
                outcome |-> "completed", posts |-> 1]]
      <3>1. queue \in Seq(Redis!Payload)
        BY DEF TypeOK, Redis!QueueTypeOK
      <3>2. worker[w] = Polling
        BY <1>1 DEF WorkerPop, TypeOK, WorkerState, BusyState, Polling
      <3> QED
        BY <1>1, <3>1, <3>2, Popped DEF WorkerPop
    <2>2. UNCHANGED <<job, retry, call, start, struck>>
      BY <1>1 DEF WorkerPop, db, faultVars
    <2>3. PICK j0 \in Job :
            /\ 1 \in Queued(j0) /\ worker'[w] # Polling /\ worker'[w].pc = "running"
            /\ worker'[w].job = j0 /\ worker'[w].attempt = queue[1].attempt
      BY <2>1 DEF Queued, Redis!Payload, TypeOK, Polling
    <2>4. \A v \in Worker : v # w => worker'[v] = worker[v]
      BY <2>1
    <2>5. \A j \in Job : /\ Retrying(j)' = Retrying(j) /\ Deciding(j)' = Deciding(j)
                         /\ \A i \in Queued(j)' : /\ i \in Nat \ {0} /\ i + 1 \in Queued(j)
                                                  /\ queue'[i] = queue[i + 1]
      BY <2>1, <2>2 DEF Retrying, Deciding, Queued
    <2>6. \A j \in Job \ {j0} : InHand(j)' = InHand(j)
      BY <2>1, <2>3, <2>4 DEF InHand, Polling
    <2>7. Fresh'
      <3>1. ASSUME NEW j \in Job, Waits(j)'
            PROVE  Untouched(j)'
        <4>1. Untouched(j)
          BY <2>2, <3>1 DEF JobInv, Fresh, Waits, ToPush
        <4>2. j # j0
          BY <2>3, <4>1 DEF Untouched
        <4> QED
          BY <2>3, <2>4, <2>5, <4>1, <4>2 DEF Untouched
      <3> QED
        BY <2>2, <3>1, StillFresh, StayingKeep
    <2>8. ASSUME NoDoubledReport', NEW j \in Job \ {j0}
          PROVE  Kept(j)'
      <3>1. NoDoubledReport /\ Kept(j)
        BY <2>2, <2>8 DEF NoDoubledReport, JobInv
      <3>2. Single(Queued(j))'
        BY <2>5, <3>1 DEF Kept, Exclusive, Single
      <3>3. Exclusive(j)' /\ (Held(j)' => Held(j))
        BY <2>5, <2>6, <3>1, <3>2 DEF Kept, Exclusive, Single, Held
      <3>4. Current(j)'
        <4>1. \A v \in InHand(j) : worker'[v].attempt = worker[v].attempt
          BY <2>1, <2>4 DEF InHand, Polling
        <4> QED
          BY <2>2, <2>5, <2>6, <3>1, <4>1 DEF Kept, Current
      <3> QED
        BY <2>2, <3>1, <3>3, <3>4 DEF Kept, Unsettled
    <2>9. ASSUME NoDoubledReport'
          PROVE  Kept(j0)'
      <3>1. NoDoubledReport /\ Kept(j0)
        BY <2>2, <2>3, <2>9 DEF NoDoubledReport, JobInv
      <3>2. Queued(j0)' = {}
        BY <2>3, <2>5, <3>1 DEF Kept, Exclusive, Single
      <3>3. /\ Retrying(j0)' = {} /\ Deciding(j0)' = {}
            /\ \A v \in InHand(j0)' : v = w
        BY <2>3, <2>4, <2>5, <3>1 DEF Kept, Exclusive, InHand
      <3>4. worker'[w].attempt = job[j0].attempt
        BY <2>3, <3>1 DEF Kept, Current
      <3>5. Unsettled(j0)
        BY <2>3, <3>1 DEF Kept, Held
      <3> QED
        BY <2>2, <3>1, <3>2, <3>3, <3>4, <3>5 DEF Kept, Exclusive, Single, Current, Held, Unsettled
    <2> QED
      BY <2>7, <2>8, <2>9 DEF JobInv
  <1>2. CASE WorkerPost(w)
    <2>1. PICK c \in Call :
            /\ call[c] = Free
            /\ call' = [call EXCEPT ![c] =
                 [pc |-> "outcome", worker |-> w, attached |-> TRUE,
                  job |-> worker[w].job, status |-> worker[w].outcome, attempt |-> 0]]
      BY <1>2 DEF WorkerPost
    <2>2. /\ worker[w].pc = "posting" /\ worker[w] \in BusyState
          /\ worker' = [worker EXCEPT ![w].pc = "waiting"]
          /\ UNCHANGED <<job, queue, retry, start, struck>>
      BY <1>2, WorkerShape DEF WorkerPost, TypeOK, db, redis, faultVars
    <2>3. PICK j0 \in Job : j0 = worker[w].job /\ w \in InHand(j0) /\ worker[w] # Polling
      BY <2>2 DEF BusyState, InHand, Polling
    <2>4. /\ worker'[w].job = j0 /\ worker'[w].pc = "waiting"
          /\ \A v \in Worker : v # w => worker'[v] = worker[v]
      BY <2>2, <2>3 DEF TypeOK, BusyState
    <2>5. /\ call'[c].job = j0 /\ call'[c].pc = "outcome"
          /\ \A d \in Call : d # c => call'[d] = call[d]
      BY <2>1, <2>3 DEF TypeOK
    <2>6. NoDoubledReport => Kept(j0)'
      <3> SUFFICES ASSUME NoDoubledReport PROVE Kept(j0)'
        OBVIOUS
      <3>1. Kept(j0)
        BY <2>3 DEF JobInv
      <3>2. Queued(j0)' = {} /\ Retrying(j0)' = {} /\ InHand(j0)' = {}
        BY <2>2, <2>3, <2>4, <3>1 DEF Kept, Exclusive, Single, Queued, Retrying, InHand
      <3>3. \A d \in Deciding(j0)' : d = c
        BY <2>3, <2>5, <3>1 DEF Kept, Exclusive, Deciding
      <3>4. Unsettled(j0)
        BY <2>3, <3>1 DEF Kept, Held
      <3> QED
        BY <2>2, <2>5, <3>1, <3>2, <3>3, <3>4
           DEF Kept, Exclusive, Single, Current, Held, Unsettled
    <2>7. ~Untouched(j0)
      BY <2>3 DEF Untouched
    <2> QED
      BY <2>2, <2>3, <2>4, <2>5, <2>6, <2>7, OneJobMoves
  <1>3. CASE WorkerExecute(w)
    <2>1. WorkersKeep
      BY <1>3, WorkerShape DEF WorkerExecute, WorkersKeep, TypeOK, BusyState, Polling
    <2> QED
      BY <1>3, <2>1, NothingPlanned, StayingKeep DEF WorkerExecute, db, redis, faultVars
  <1>4. CASE WorkerPostLost(w)
    <2>1. WorkersKeep
      BY <1>4, FailedPostKeeps DEF WorkerPostLost, WorkersKeep, TypeOK
    <2> QED
      BY <1>4, <2>1, NothingPlanned, StayingKeep, StrikeGrows DEF WorkerPostLost, db, redis
  <1>5. ASSUME NEW lost, Detach(lost)
        PROVE  HandlersKeep
    BY <1>5, DetachKeeps DEF HandlersKeep
  <1>6. CASE WorkerPostTimeout(w)
    <2>1. "timeout" \in struck'
      BY <1>6 DEF WorkerPostTimeout, Strike
    <2>2. WorkersKeep
      BY <1>6, <2>1, FailedPostKeeps DEF WorkerPostTimeout, WorkersKeep, TypeOK, NoDoubledReport
    <2> QED
      BY <1>5, <1>6, <2>2, NothingPlanned, StayingKeep, StrikeGrows
         DEF WorkerPostTimeout, db, redis
  <1>7. CASE WorkerStop(w)
    <2>1. WorkersKeep
      BY <1>7 DEF WorkerStop, WorkersKeep, TypeOK, Polling
    <2> QED
      BY <1>5, <1>7, <2>1, NothingPlanned, StayingKeep, StrikeGrows DEF WorkerStop, db, redis
  <1> QED
    BY <1>1, <1>2, <1>3, <1>4, <1>6, <1>7 DEF WorkerStep

(* What the moves of a handler do to its pc and its job.                   *)
LEMMA HandlerMoves ==
  ASSUME TypeOK, NEW c \in Call
  PROVE  /\ call[c].pc \in DecidingPC => call[c] \in DecidingState
         /\ MoveToCounting(c) \/ MoveToFail(c) \/ MoveToClosing(c) =>
              \A d \in Call : d # c => call'[d] = call[d]
         /\ MoveToCounting(c) => call'[c].pc = "decr"
         /\ MoveToClosing(c) => call'[c].pc \in {"finish", "reply"}
         /\ call[c].pc \in DecidingPC /\ MoveToFail(c) =>
              call'[c].pc = "fail" /\ call'[c].job = call[c].job
  <1>1. call[c].pc \in DecidingPC => call[c] \in DecidingState
    BY CallShape DEF TypeOK
  <1> QED
    BY <1>1 DEF TypeOK, MoveToCounting, MoveToClosing, MoveToFail, DecidingState

(* A handler that had one job's outcome, alone, has recorded it or given   *)
(* up doing so.                                                            *)
LEMMA OutcomeLeft ==
  ASSUME TypeOK, JobInv, NEW c \in Call, call[c].pc \in DecidingPC,
         NEW status, DB!UpdateJobStatus(call[c].job, status) \/ UNCHANGED job,
         MoveToCounting(c), UNCHANGED <<redis, start, worker>>, struck \subseteq struck'
  PROVE  JobInv'
  <1>1. PICK j0 \in Job : j0 = call[c].job /\ c \in Deciding(j0)
    BY HandlerMoves DEF Deciding, DecidingState
  <1>2. /\ \A j \in Job \ {j0} : job'[j] = job[j]
        /\ job'[j0].attempt = job[j0].attempt
    BY <1>1 DEF DB!UpdateJobStatus, TypeOK, DB!StoreTypeOK, DB!JobRow
  <1>3. ASSUME NoDoubledReport
        PROVE  Kept(j0)'
    <2>1. Kept(j0)
      BY <1>1, <1>3 DEF JobInv
    <2>2. Queued(j0)' = {} /\ Retrying(j0)' = {} /\ InHand(j0)' = {}
      BY <1>1, <2>1 DEF Kept, Exclusive, Queued, Retrying, InHand, redis
    <2>3. Deciding(j0)' = {}
      BY <1>1, <2>1, HandlerMoves DEF Kept, Exclusive, Single, Deciding, DecidingPC
    <2> QED
      BY <1>2, <2>1, <2>2, <2>3 DEF Kept, Exclusive, Single, Current, Held
  <1>4. \A d \in Call : call'[d].pc \in DecidingPC => call'[d] = call[d]
    BY HandlerMoves DEF DecidingPC
  <1>5. ~Untouched(j0)
    BY <1>1 DEF Untouched
  <1> QED
    BY <1>1, <1>2, <1>3, <1>4, <1>5, OneJobMoves DEF redis

(* A handler that is past its outcome does not come back to it.            *)
LEMMA CountingStays ==
  ASSUME TypeOK, NEW c \in Call,
         \/ CallDecr(c) \/ CallReadScan(c) \/ CallReadScanFails(c)
         \/ CallWriteProgress(c) \/ CallFinish(c)
  PROVE  call'[c].pc \notin DecidingPC /\ \A d \in Call : d # c => call'[d] = call[d]
  <1>1. CASE CallReadScanFails(c) \/ CallWriteProgress(c)
    BY <1>1, HandlerMoves DEF CallReadScanFails, CallWriteProgress, DecidingPC
  <1>2. CASE CallDecr(c)
    <2>1. call[c] \in CountingState
      BY <1>2, CallShape DEF CallDecr, At, TypeOK, CountingPC
    <2> QED
      BY <1>2, <2>1 DEF CallDecr, TypeOK, DecidingPC, CountingState
  <1>3. CASE CallReadScan(c)
    <2>1. call[c] \in CountingState
      BY <1>3, CallShape DEF CallReadScan, At, TypeOK, CountingPC
    <2> QED
      BY <1>3, <2>1 DEF CallReadScan, TypeOK, DecidingPC, CountingState
  <1>4. CASE CallFinish(c)
    <2>1. call[c] \in ClosingState
      BY <1>4, CallShape DEF CallFinish, At, TypeOK, ClosingPC
    <2> QED
      BY <1>4, <2>1 DEF CallFinish, Move, TypeOK, DecidingPC, ClosingState
  <1> QED
    BY <1>1, <1>2, <1>3, <1>4

(* A callback handler.                                                     *)
LEMMA CallStepJobs ==
  ASSUME TypeOK, AttemptInv, JobInv, NEW c \in Call, CallStep(c)
  PROVE  JobInv'
  <1>1. CASE CallCompleted(c) \/ CallFailed(c)
    BY <1>1, OutcomeLeft, StrikeGrows DEF CallCompleted, CallFailed, At, DecidingPC
  <1>2. ASSUME \A d \in Call : d # c => call'[d] = call[d],
               call'[c].pc \in DecidingPC =>
                 /\ call[c].pc \in DecidingPC /\ call'[c].job = call[c].job
                 /\ \/ /\ call'[c].pc \in {"log", "increment"}
                       /\ call'[c].attempt = job[call[c].job].attempt
                    \/ call'[c].pc = "fail"
        PROVE  HandlersKeep
    BY <1>2 DEF HandlersKeep
  <1>3. CASE CallGetJob(c)
    <2>1. HandlersKeep
      BY <1>2, <1>3, HandlerMoves DEF CallGetJob, At, TypeOK, DecidingPC, DecidingState
    <2> QED
      BY <1>3, <2>1, NothingPlanned, StayingKeep DEF CallGetJob, db, redis, faultVars
  <1>4. CASE CallRetryFails(c) \/ CallLogFailure(c) \/ CallRequeueFails(c)
    <2>1. /\ UNCHANGED <<job, redis, start, worker>> /\ MoveToFail(c)
          /\ call[c].pc \in DecidingPC /\ struck \subseteq struck'
      BY <1>4, StrikeGrows DEF CallRetryFails, CallLogFailure, CallRequeueFails, At,
           db, DecidingPC
    <2>2. HandlersKeep
      BY <1>2, <2>1, HandlerMoves
    <2> QED
      BY <2>1, <2>2, NothingPlanned, StayingKeep DEF redis
  <1>5. CASE CallIncrement(c)
    <2>1. PICK j0 \in Job : j0 = call[c].job /\ c \in Deciding(j0)
      BY <1>5, HandlerMoves DEF CallIncrement, At, Deciding, DecidingPC, DecidingState
    <2>2. /\ job' = [job EXCEPT ![j0] = [status |-> "retrying", attempt |-> @.attempt + 1]]
          /\ call[c].pc = "increment" /\ UNCHANGED <<redis, start, worker, struck>>
      BY <1>5, <2>1 DEF CallIncrement, At, DB!IncrementJobAttempt, faultVars
    <2>3. /\ call'[c].pc = "requeue" /\ call'[c].job = j0
          /\ call'[c].attempt = call[c].attempt
          /\ \A d \in Call : d # c => call'[d] = call[d]
      BY <1>5, <2>1, HandlerMoves DEF CallIncrement, At, Move, DecidingPC, DecidingState, TypeOK
    <2>4. /\ job'[j0] = [status |-> "retrying", attempt |-> job[j0].attempt + 1]
          /\ \A j \in Job \ {j0} : job'[j] = job[j]
      BY <2>2 DEF TypeOK, DB!StoreTypeOK
    <2>5. ASSUME NoDoubledReport
          PROVE  Kept(j0)'
      <3>1. Kept(j0)
        BY <2>5 DEF JobInv
      <3>2. Queued(j0)' = {} /\ Retrying(j0)' = {} /\ InHand(j0)' = {}
        BY <2>1, <2>2, <3>1 DEF Kept, Exclusive, Queued, Retrying, InHand, redis
      <3>3. \A d \in Deciding(j0)' : d = c
        BY <2>1, <2>3, <3>1 DEF Kept, Exclusive, Single, Deciding
      <3>4. call[c].attempt = job[j0].attempt /\ job[j0].attempt < MaxAttempts
        BY <2>1, <2>2, <3>1 DEF Kept, Current, AttemptInv, HandlersBounded
      <3>5. job[j0].attempt + 1 <= MaxAttempts
        BY <3>4, ConstantsAssumption DEF TypeOK, DB!StoreTypeOK, DB!JobRow, ConstantsAssumption
      <3> QED
        BY <2>3, <2>4, <3>2, <3>3, <3>4, <3>5
           DEF Kept, Exclusive, Single, Current, Held, Unsettled
    <2>6. ~Untouched(j0)
      BY <2>1 DEF Untouched
    <2> QED
      BY <2>2, <2>3, <2>4, <2>5, <2>6, OneJobMoves DEF redis
  <1>6. CASE CallRequeue(c)
    <2>1. PICK j0 \in Job : j0 = call[c].job /\ c \in Deciding(j0)
      BY <1>6, HandlerMoves DEF CallRequeue, At, Deciding, DecidingPC, DecidingState
    <2>2. PICK p : p = [job |-> j0, attempt |-> call[c].attempt + 1] /\ retry' = retry \cup {p}
      BY <1>6, <2>1 DEF CallRequeue, Redis!EnqueueRetry
    <2>3. /\ MoveToCounting(c) /\ call[c].pc = "requeue"
          /\ UNCHANGED <<job, queue, start, worker, struck>>
      BY <1>6 DEF CallRequeue, At, db, faultVars
    <2>4. \A d \in Call : call'[d].pc \in DecidingPC => d # c /\ call'[d] = call[d]
      BY <2>3, HandlerMoves DEF DecidingPC
    <2>5. ASSUME NoDoubledReport
          PROVE  Kept(j0)'
      <3>1. Kept(j0)
        BY <2>5 DEF JobInv
      <3>2. Queued(j0)' = {} /\ InHand(j0)' = {} /\ Retrying(j0)' = {p}
        BY <2>1, <2>2, <2>3, <3>1 DEF Kept, Exclusive, Queued, Retrying, InHand
      <3>3. Deciding(j0)' = {}
        BY <2>1, <2>4, <3>1 DEF Kept, Exclusive, Single, Deciding
      <3>4. p.attempt = job[j0].attempt /\ Unsettled(j0)
        BY <2>1, <2>2, <2>3, <3>1 DEF Kept, Current, Held
      <3> QED
        BY <2>3, <3>1, <3>2, <3>3, <3>4
           DEF Kept, Exclusive, Single, Current, Held, Unsettled
    <2>6. ~Untouched(j0)
      BY <2>1 DEF Untouched
    <2> QED
      BY <2>2, <2>3, <2>4, <2>5, <2>6, OneJobMoves
  <1>7. CASE CallDecr(c) \/ CallReadScan(c) \/ CallReadScanFails(c) \/ CallWriteProgress(c)
             \/ CallFinish(c)
    <2>1. UNCHANGED <<job, queue, retry, start, worker>> /\ struck \subseteq struck'
      BY <1>7, StrikeGrows DEF CallDecr, CallReadScan, CallReadScanFails, CallWriteProgress,
           CallFinish, db, redis, faultVars
    <2>2. call'[c].pc \notin DecidingPC /\ \A d \in Call : d # c => call'[d] = call[d]
      BY <1>7, CountingStays
    <2>3. HandlersKeep
      BY <1>2, <2>2
    <2> QED
      BY <2>1, <2>3, NothingPlanned, StayingKeep
  <1>8. ASSUME call' = [call EXCEPT ![c] = Free], UNCHANGED <<db, redis, start>>, WorkersKeep,
               struck \subseteq struck'
        PROVE  JobInv'
    <2>1. HandlersKeep
      BY <1>8 DEF HandlersKeep, TypeOK, Free, DecidingPC
    <2> QED
      BY <1>8, <2>1, NothingPlanned, StayingKeep DEF db, redis
  <1>9. CASE CallReply(c)
    <2>1. WorkersKeep
      BY <1>9 DEF CallReply, WorkersKeep, TypeOK, Polling
    <2> QED
      BY <1>8, <1>9, <2>1 DEF CallReply, faultVars
  <1>10. CASE CallAbort(c)
    BY <1>8, <1>10, StayingKeep DEF CallAbort, faultVars
  <1>11. CASE CallPanics(c)
    <2>1. "panic" \in struck'
      BY <1>11 DEF CallPanics, Strike
    <2>2. WorkersKeep
      BY <1>11, <2>1, FailedPostKeeps DEF CallPanics, WorkersKeep, TypeOK, NoDoubledReport
    <2> QED
      BY <1>8, <1>11, <2>2, StrikeGrows DEF CallPanics
  <1> QED
    BY <1>1, <1>3, <1>4, <1>5, <1>6, <1>7, <1>9, <1>10, <1>11 DEF CallStep

(* The steps of the model without a process, and the invariant's step.     *)
LEMMA JobStep ==
  ASSUME TypeOK, AttemptInv, JobInv, [Next]_vars
  PROVE  JobInv'
  <1>1. CASE \E s \in Start : StartStep(s)
    BY <1>1, StartStepJobs
  <1>2. CASE \E s \in Start : DispatchStep(s)
    BY <1>2, DispatchStepJobs
  <1>3. CASE \E c \in Cancel : CancelStep(c)
    <2>1. UNCHANGED <<job, redis, start, worker, call>> /\ struck \subseteq struck'
      BY <1>3, StrikeGrows DEF CancelStep, CancelRead, CancelWrite, db, faultVars
    <2> QED
      BY <2>1, NothingPlanned, StayingKeep DEF redis
  <1>4. CASE \E w \in Worker : WorkerStep(w)
    BY <1>4, WorkerStepJobs
  <1>5. CASE \E c \in Call : CallStep(c)
    BY <1>5, CallStepJobs
  <1>6. CASE RetrySweep
    BY <1>6, SweepJobs
  <1>7. CASE RetrySweepFails
    BY <1>7, NothingPlanned, StayingKeep, StrikeGrows DEF RetrySweepFails, db
  <1>8. CASE OrchestratorRestart
    <2>1. PICK made \in SUBSET {j \in Job : start[j[1]].pc = "plan"} : DB!CreateJobs(made)
      BY <1>8 DEF OrchestratorRestart
    <2>2. "orchestrator" \in struck' /\ struck \subseteq struck'
      BY <1>8 DEF OrchestratorRestart, Strike
    <2>3. StartsGoOn(made)
      BY <1>8, <2>1 DEF OrchestratorRestart, StartsGoOn, Early
    <2>4. WorkersKeep
      <3>1. NoDoubledReport' = FALSE
        BY <2>2 DEF NoDoubledReport
      <3> QED
        BY <1>8, <3>1, FailedPostKeeps DEF OrchestratorRestart, WorkersKeep, TypeOK
    <2>5. HandlersKeep
      BY <1>8 DEF OrchestratorRestart, HandlersKeep, Free, DecidingPC
    <2> QED
      BY <1>8, <2>1, <2>2, <2>3, <2>4, <2>5, NothingNew
         DEF OrchestratorRestart, DB!CreateJobs, redis
  <1>9. CASE LockExpires \/ UNCHANGED vars
    <2>1. UNCHANGED <<job, queue, retry, start, worker, call, struck>>
      BY <1>9 DEF LockExpires, vars, db, faultVars
    <2> QED
      BY <2>1, NothingPlanned, StayingKeep
  <1> QED
    BY <1>1, <1>2, <1>3, <1>4, <1>5, <1>6, <1>7, <1>8, <1>9 DEF Next, Rest

(* At the start nothing is anywhere.                                       *)
LEMMA JobStart ==
  ASSUME Init
  PROVE  JobInv
  <1>1. \A j : /\ Queued(j) = {} /\ Retrying(j) = {} /\ InHand(j) = {} /\ Deciding(j) = {}
               /\ \A w \in Worker : worker[w] = Polling
    BY DEF Init, Redis!QueueInit, Queued, Retrying, InHand, Deciding, Polling, Free, DecidingPC
  <1>2. \A j \in Job : j[1] \in Start /\ start[j[1]].pc = "new"
    BY DEF Init, Job
  <1>3. \A j \in Job : job[j] = [status |-> "absent", attempt |-> 0]
    BY DEF Init, DB!StoreInit
  <1>4. Fresh
    BY <1>1, <1>2, <1>3 DEF Fresh, FreshRow, Untouched, ToPush
  <1>5. \A j \in Job : Kept(j)
    BY <1>1, <1>3, ConstantsAssumption
       DEF Kept, Exclusive, Single, Current, Held, ConstantsAssumption
  <1> QED
    BY <1>4, <1>5 DEF JobInv

LEMMA JobsHold == Spec => []JobInv
  BY JobStart, JobStep, TypeCorrect, AttemptsHold, PTL DEF Spec

(* A set with one member at most has a cardinality of at most one.         *)
LEMMA SingleCount ==
  ASSUME NEW S, Single(S)
  PROVE  /\ S = {} => Cardinality(S) = 0
         /\ S # {} => Cardinality(S) = 1
  <1>1. ASSUME NEW x \in S
        PROVE  Cardinality(S) = 1
    <2>1. S = {x}
      BY DEF Single
    <2> QED
      BY <2>1, FS_Singleton
  <1> QED
    BY <1>1, FS_EmptySet

(* What the places say about the number of copies.                         *)
LEMMA CopyCount ==
  ASSUME JobInv, NoDoubledReport, NEW j \in Job
  PROVE  /\ Copies(j) \in {0, 1}
         /\ Held(j) \/ ToPush(j) => Copies(j) = 1
  <1>1. Exclusive(j) /\ (ToPush(j) => Untouched(j))
    BY DEF JobInv, Fresh, Kept, Waits
  <1>2. ToPush(j) => InHand(j) = {}
    BY <1>1 DEF Untouched, InHand, Polling
  <1>3. ToPush(j) => ~Held(j)
    BY <1>1, <1>2 DEF Untouched, Held
  <1> QED
    BY <1>1, <1>3, SingleCount DEF Exclusive, Copies, Held

(* At any time a job's work is in at most one place: still to be pushed,   *)
(* in one of the two queues, with a worker, or with a handler that has yet *)
(* to record its outcome; as long as no fault has doubled a report.        *)
THEOREM JobsHeldOnce == Spec => []HeldOnce
  <1>1. JobInv => HeldOnce
    BY CopyCount DEF HeldOnce
  <1> QED
    BY <1>1, JobsHold, PTL

(* Whatever carries a job carries the attempt that its row is at.          *)
THEOREM AttemptsCurrent == Spec => []AttemptCurrent
  <1>1. ASSUME TypeOK, JobInv, NoDoubledReport
        PROVE  AttemptCurrent
    <2>1. \A j \in Job : Current(j)
      BY <1>1 DEF JobInv, Kept
    <2>2. \A i \in DOMAIN queue : queue[i].job \in Job /\ i \in Queued(queue[i].job)
      <3>1. \A i \in DOMAIN queue : queue[i] \in Redis!Payload
        BY <1>1 DEF TypeOK, Redis!QueueTypeOK
      <3> QED
        BY <3>1 DEF Redis!Payload, Queued
    <2>3. \A p \in retry : p.job \in Job /\ p \in Retrying(p.job)
      BY <1>1 DEF TypeOK, Redis!QueueTypeOK, Redis!Payload, Retrying
    <2>4. \A w \in Worker : worker[w].pc \in {"running", "posting"} =>
            worker[w].job \in Job /\ w \in InHand(worker[w].job)
      BY <1>1, WorkerShape DEF TypeOK, BusyState, InHand
    <2> QED
      BY <2>1, <2>2, <2>3, <2>4 DEF Current, AttemptCurrent
  <1>2. TypeOK /\ JobInv => AttemptCurrent
    BY <1>1 DEF AttemptCurrent
  <1> QED
    BY <1>2, JobsHold, TypeCorrect, PTL
-----------------------------------------------------------------------------
(* What a step does to the rows of the jobs table.                         *)
Planned == \E new \in SUBSET Job :
  DB!CreateJobs(new) /\ \A j \in new : job[j] = [status |-> "absent", attempt |-> 0]

Settled(j) == \E outcome \in Outcome :
  /\ DB!UpdateJobStatus(j, outcome)
  /\ Deciding(j) # {}
  /\ NoDoubledReport => Unsettled(j)

Retried(j) ==
  /\ DB!IncrementJobAttempt(j)
  /\ Deciding(j) # {}
  /\ NoDoubledReport => Unsettled(j) /\ job[j].attempt < MaxAttempts

RowsStep == UNCHANGED job \/ Planned \/ \E j \in Job : Settled(j) \/ Retried(j)

(* Who is no handler inserts the rows of a plan, if anything.              *)
LEMMA RowsPlanned ==
  ASSUME TypeOK, JobInv, [Next]_vars, ~\E c \in Call : CallStep(c)
  PROVE  UNCHANGED job \/ Planned
  <1>1. ASSUME NEW new, DB!CreateJobs(new), \A j \in new : j \in Job /\ start[j[1]].pc = "plan"
        PROVE  Planned
    <2>1. new \in SUBSET Job
      BY <1>1
    <2> QED
      BY <1>1, <2>1 DEF Planned, JobInv, Fresh, FreshRow
  <1>2. CASE \E s \in Start : StartStep(s)
    <2>1. PICK s \in Start : StartStep(s)
      BY <1>2
    <2>2. \A made \in SUBSET Task : \A j \in {s} \X made : j \in Job /\ j[1] = s
      BY DEF Job
    <2>3. CASE BuildPlan(s)
      BY <1>1, <2>2, <2>3 DEF BuildPlan
    <2>4. CASE BuildPlanFails(s)
      BY <1>1, <2>2, <2>4 DEF BuildPlanFails
    <2>5. CASE StartClientGone(s)
      BY <1>1, <2>2, <2>5 DEF StartClientGone
    <2> QED
      BY <2>1, <2>3, <2>4, <2>5 DEF StartStep, StartRead, StartLock, StartLockRefused,
         StartUnlock, StartMark, StartMarkFails, StartProgress, db
  <1>3. CASE OrchestratorRestart
    BY <1>1, <1>3 DEF OrchestratorRestart
  <1>4. CASE \/ \E s \in Start : DispatchStep(s)
             \/ \E c \in Cancel : CancelStep(c)
             \/ \E w \in Worker : WorkerStep(w)
             \/ LockExpires \/ RetrySweep \/ RetrySweepFails \/ UNCHANGED vars
    BY <1>4 DEF DispatchStep, DispatchEnqueue, DispatchFails, DispatchMarkFailed,
       DispatchCount, DispatchRelease, DispatchDeadline, CancelStep, CancelRead, CancelWrite,
       WorkerStep, WorkerPop, WorkerExecute, WorkerPost, WorkerPostLost, WorkerPostTimeout,
       WorkerStop, LockExpires, RetrySweep, RetrySweepFails, vars, db
  <1> QED
    BY <1>2, <1>3, <1>4 DEF Next, Rest

LEMMA RowsMove ==
  ASSUME TypeOK, AttemptInv, JobInv, [Next]_vars
  PROVE  RowsStep
  <1>1. CASE \E c \in Call : CallStep(c)
    <2>1. PICK c \in Call : CallStep(c)
      BY <1>1
    <2>2. call[c].pc \in DecidingPC => call[c].job \in Job /\ c \in Deciding(call[c].job)
      BY HandlerMoves DEF Deciding, DecidingState
    <2>3. NoDoubledReport /\ call[c].pc \in DecidingPC =>
            Unsettled(call[c].job) /\ Current(call[c].job)
      BY <2>2 DEF JobInv, Kept, Held
    <2>4. CASE CallCompleted(c) \/ CallFailed(c)
      BY <2>2, <2>3, <2>4 DEF CallCompleted, CallFailed, At, DecidingPC, Outcome,
         RowsStep, Settled
    <2>5. CASE CallIncrement(c)
      BY <2>2, <2>3, <2>5 DEF CallIncrement, At, DecidingPC, RowsStep, Retried, Current,
         AttemptInv, HandlersBounded
    <2> QED
      BY <2>1, <2>4, <2>5 DEF CallStep, CallGetJob, CallRetryFails, CallLogFailure,
         CallRequeue, CallRequeueFails, CallDecr, CallReadScan, CallReadScanFails,
         CallWriteProgress, CallFinish, CallReply, CallAbort, CallPanics, db, RowsStep
  <1> QED
    BY <1>1, RowsPlanned DEF RowsStep

(* The recorded outcome of a job is final as long as no fault has doubled  *)
(* a report.                                                               *)
THEOREM OutcomesFinal == Spec => OutcomeFinal
  <1>1. ASSUME TypeOK, RowsStep, NEW j \in Job, NoDoubledReport, job[j].status \in DB!Terminal
        PROVE  job'[j] = job[j]
    BY <1>1 DEF RowsStep, Planned, Settled, Retried, DB!CreateJobs, DB!UpdateJobStatus,
       DB!IncrementJobAttempt, DB!Terminal, Unsettled, TypeOK, DB!StoreTypeOK
  <1>2. TypeOK /\ AttemptInv /\ JobInv /\ [Next]_vars =>
          [\A j \in Job : NoDoubledReport /\ job[j].status \in DB!Terminal
             => job'[j] = job[j]]_vars
    BY <1>1, RowsMove
  <1> QED
    BY <1>2, JobsHold, AttemptsHold, TypeCorrect, PTL DEF Spec, OutcomeFinal

(* The orchestrator implements JobSpec, for any number of starts, workers, *)
(* concurrent handlers and faults of the kinds that cannot double a        *)
(* report: every statement that changes a job's row is a step that JobSpec *)
(* allows, and every other step changes nothing that JobSpec sees.         *)
THEOREM JobSpecImplemented ==
  ASSUME Faults \cap {"timeout", "orchestrator", "panic"} = {}
  PROVE  Spec => JobsImplemented
  <1> DEFINE phase == [j \in Job |-> CASE job[j].status = "absent" -> "unplanned"
                                       [] job[j].status \in {"queued", "retrying"} -> "open"
                                       [] OTHER -> job[j].status]
             tries == [j \in Job |-> job[j].attempt]
  <1>1. Init => Jobs!Init
    BY DEF Init, DB!StoreInit, Jobs!Init
  <1>2. ASSUME TypeOK, RowsStep
        PROVE  [Jobs!Next]_<<phase, tries>>
    <2>1. NoDoubledReport
      BY <1>2 DEF TypeOK, NoDoubledReport
    <2>2. job \in [Job -> DB!JobRow]
      BY <1>2 DEF TypeOK, DB!StoreTypeOK
    <2>3. CASE UNCHANGED job
      BY <2>3
    <2>4. CASE Planned
      <3>1. PICK new \in SUBSET Job : /\ DB!CreateJobs(new)
                                      /\ \A j \in new : job[j] = [status |-> "absent", attempt |-> 0]
        BY <2>4 DEF Planned
      <3>2. CASE new = {}
        <4>1. \A j \in Job : job'[j] = job[j]
          BY <3>1, <3>2 DEF DB!CreateJobs
        <4> QED
          BY <4>1
      <3>3. CASE new # {}
        <4>1. /\ phase' = [j \in Job |-> IF j \in new THEN "open" ELSE phase[j]]
              /\ tries' = [j \in Job |-> IF j \in new THEN 1 ELSE tries[j]]
              /\ \A j \in new : phase[j] = "unplanned"
          BY <3>1 DEF DB!CreateJobs
        <4> HIDE DEF phase, tries
        <4>2. Jobs!Plan(new)
          BY <3>3, <4>1 DEF Jobs!Plan, phase, tries
        <4> QED
          BY <4>2 DEF Jobs!Next
      <3> QED
        BY <3>2, <3>3
    <2>5. ASSUME NEW j \in Job, Settled(j)
          PROVE  Jobs!Next
      <3>1. PICK outcome \in Outcome : DB!UpdateJobStatus(j, outcome) /\ Unsettled(j)
        BY <2>1, <2>5 DEF Settled
      <3>2. Jobs!Settle(j, outcome)
        BY <2>2, <3>1 DEF Jobs!Settle, DB!UpdateJobStatus, Unsettled, DB!JobRow, Outcome
      <3> QED
        BY <3>2 DEF Jobs!Next, Jobs!JobStep, Outcome
    <2>6. ASSUME NEW j \in Job, Retried(j)
          PROVE  Jobs!Next
      <3>1. DB!IncrementJobAttempt(j) /\ Unsettled(j) /\ job[j].attempt < MaxAttempts
        BY <2>1, <2>6 DEF Retried
      <3>2. Jobs!Retry(j)
        BY <2>2, <3>1 DEF Jobs!Retry, DB!IncrementJobAttempt, Unsettled, DB!JobRow
      <3> QED
        BY <3>2 DEF Jobs!Next, Jobs!JobStep
    <2> QED
      BY <1>2, <2>3, <2>4, <2>5, <2>6 DEF RowsStep
  <1>3. TypeOK /\ AttemptInv /\ JobInv /\ [Next]_vars => [Jobs!Next]_Jobs!jobVars
    BY <1>2, RowsMove DEF Jobs!jobVars
  <1> QED
    BY <1>1, <1>3, JobsHold, AttemptsHold, TypeCorrect, PTL DEF Spec, JobsImplemented, Jobs!Spec
-----------------------------------------------------------------------------
(* The inductive invariant behind GivenUpLast: a handler that is about to  *)
(* fail its job has logged the failure of the last attempt, and one that   *)
(* is about to log it has that attempt.                                    *)
StoresUp == struck \subseteq {"post", "client", "worker", "deadline"}

Spent(j) ==
  /\ job[j].attempt = MaxAttempts
  /\ [job |-> j, attempts |-> MaxAttempts] \in failures

GivenInv ==
  StoresUp => \A j \in Job :
    /\ job[j].status = "failed" => Spent(j)
    /\ \A c \in Deciding(j) : /\ call[c].pc = "fail" => Spent(j)
                              /\ call[c].pc = "log" => call[c].attempt = MaxAttempts

(* What is enough for that to be kept.                                     *)
LEMMA GivenKeeps ==
  ASSUME GivenInv, struck \subseteq struck', failures \subseteq failures',
         \A j \in Job : \/ job'[j] = job[j]
                        \/ Spent(j)'
                        \/ job'[j].status # "failed" /\ \A c \in Deciding(j)' : call'[c].pc # "fail",
         \A j \in Job : \A c \in Deciding(j)' :
           /\ call'[c].pc = "fail" => \/ c \in Deciding(j) /\ call[c].pc = "fail"
                                      \/ Spent(j)'
           /\ call'[c].pc = "log" => \/ /\ c \in Deciding(j) /\ call[c].pc = "log"
                                        /\ call'[c].attempt = call[c].attempt
                                     \/ call'[c].attempt = MaxAttempts
  PROVE  GivenInv'
  <1> SUFFICES ASSUME StoresUp', NEW j \in Job
               PROVE  /\ job'[j].status = "failed" => Spent(j)'
                      /\ \A c \in Deciding(j)' :
                           /\ call'[c].pc = "fail" => Spent(j)'
                           /\ call'[c].pc = "log" => call'[c].attempt = MaxAttempts
    BY DEF GivenInv
  <1>1. StoresUp
    BY DEF StoresUp
  <1>2. job'[j] = job[j] /\ Spent(j) => Spent(j)'
    BY DEF Spent
  <1> QED
    BY <1>1, <1>2 DEF GivenInv

LEMMA GivenStep ==
  ASSUME TypeOK, AttemptInv, JobInv, GivenInv, [Next]_vars
  PROVE  GivenInv'
  <1> SUFFICES ASSUME StoresUp'
               PROVE  GivenInv'
    BY DEF GivenInv
  <1>1. MaxAttempts \in Nat
    BY ConstantsAssumption DEF ConstantsAssumption
  <1>2. ASSUME NEW kind, Strike(kind), kind \in {"db", "redis", "orchestrator", "panic"}
        PROVE  FALSE
    BY <1>2 DEF Strike, StoresUp
  <1>3. ASSUME failures' = failures, struck \subseteq struck', NEW new,
               \A j \in new : j \in Job /\ start[j[1]].pc = "plan",
               \A j \in Job : job'[j] = IF j \in new THEN [status |-> "queued", attempt |-> 1]
                                                     ELSE job[j],
               \A c \in Call : call'[c].pc \in {"fail", "log"} =>
                 /\ call'[c].pc = call[c].pc /\ call'[c].job = call[c].job
                 /\ call'[c].attempt = call[c].attempt
        PROVE  GivenInv'
    <2>1. \A j \in Job : \A c \in Deciding(j)' : call'[c].pc \in {"fail", "log"} =>
            c \in Deciding(j) /\ call'[c].pc = call[c].pc /\ call'[c].attempt = call[c].attempt
      BY <1>3 DEF Deciding
    <2>2. \A j \in new : Deciding(j) = {}
      BY <1>3 DEF JobInv, Fresh, Waits, Untouched, Early
    <2> QED
      BY <1>3, <2>1, <2>2, GivenKeeps
  <1>4. ASSUME UNCHANGED <<job, failures>>, struck \subseteq struck',
               \A c \in Call : call'[c].pc \in {"fail", "log"} =>
                 /\ call'[c].pc = call[c].pc /\ call'[c].job = call[c].job
                 /\ call'[c].attempt = call[c].attempt
        PROVE  GivenInv'
    <2>1. \A j \in Job : \A c \in Deciding(j)' : call'[c].pc \in {"fail", "log"} =>
            c \in Deciding(j) /\ call'[c].pc = call[c].pc /\ call'[c].attempt = call[c].attempt
      BY <1>4 DEF Deciding
    <2> QED
      BY <1>4, <2>1, GivenKeeps
  <1>5. CASE \E s \in Start : StartStep(s)
    <2>1. PICK s \in Start : StartStep(s)
      BY <1>5
    <2>2. \A made \in SUBSET Task : \A j \in {s} \X made : j \in Job /\ j[1] = s
      BY DEF Job
    <2>3. CASE BuildPlan(s)
      BY <1>3, <2>2, <2>3 DEF BuildPlan, DB!CreateJobs, faultVars
    <2>4. CASE StartClientGone(s)
      <3>1. struck \subseteq struck' /\ UNCHANGED <<failures, call>>
        BY <2>4, StrikeGrows DEF StartClientGone
      <3>2. CASE start[s].pc = "plan"
        <4>1. PICK made \in SUBSET Task : DB!CreateJobs({s} \X made)
          BY <2>4, <3>2 DEF StartClientGone
        <4> QED
          BY <1>3, <2>2, <3>1, <3>2, <4>1 DEF DB!CreateJobs
      <3>3. CASE start[s].pc # "plan"
        BY <1>4, <2>4, <3>1, <3>3 DEF StartClientGone
      <3> QED
        BY <3>2, <3>3
    <2> QED
      BY <1>2, <1>4, <2>1, <2>3, <2>4, StrikeGrows DEF StartStep, BuildPlanFails, StartRead,
         StartLock, StartLockRefused, StartUnlock, StartMark, StartMarkFails, StartProgress, db,
         faultVars
  <1>6. CASE \/ \E s \in Start : DispatchStep(s)
             \/ \E c \in Cancel : CancelStep(c)
             \/ LockExpires \/ RetrySweep \/ RetrySweepFails \/ OrchestratorRestart
             \/ UNCHANGED vars
    <2>1. (UNCHANGED <<job, failures, call>> /\ struck \subseteq struck') \/ OrchestratorRestart
      BY <1>6, StrikeGrows DEF DispatchStep, DispatchEnqueue, DispatchFails,
         DispatchMarkFailed, DispatchCount, DispatchRelease, DispatchDeadline, CancelStep,
         CancelRead, CancelWrite, LockExpires, RetrySweep, RetrySweepFails, vars, db, faultVars
    <2> QED
      BY <1>2, <1>4, <2>1 DEF OrchestratorRestart
  <1>7. CASE \E w \in Worker : WorkerStep(w)
    <2>1. PICK w \in Worker : WorkerStep(w)
      BY <1>7
    <2>2. CASE WorkerPost(w)
      <3>1. \A c \in Call : call'[c] = call[c] \/ call'[c].pc = "outcome"
        BY <2>2 DEF WorkerPost, TypeOK
      <3> QED
        BY <1>4, <2>2, <3>1 DEF WorkerPost, db, faultVars
    <2>3. CASE WorkerPostTimeout(w) \/ WorkerStop(w)
      <3>1. UNCHANGED <<job, failures>> /\ struck \subseteq struck' /\ Detach({w})
        BY <2>3, StrikeGrows DEF WorkerPostTimeout, WorkerStop, db
      <3> QED
        BY <1>4, <3>1, DetachKeeps DEF DecidingPC
    <2> QED
      BY <1>4, <2>1, <2>2, <2>3, StrikeGrows
         DEF WorkerStep, WorkerPop, WorkerExecute, WorkerPostLost, db, faultVars
  <1>8. ASSUME NEW c \in Call, CallStep(c)
        PROVE  GivenInv'
    <2> DEFINE j0 == call[c].job
    <2>1. call[c].pc \in DecidingPC => call[c] \in DecidingState /\ j0 \in Job /\ c \in Deciding(j0)
      BY HandlerMoves DEF Deciding, DecidingState
    <2>2. StoresUp /\ NoDoubledReport
      BY <1>8, StrikeGrows DEF StoresUp, NoDoubledReport, CallStep, CallCompleted, CallGetJob,
         CallRetryFails, CallLogFailure, CallIncrement, CallRequeue, CallRequeueFails, CallFailed,
         CallDecr, CallReadScan, CallReadScanFails, CallWriteProgress, CallFinish, CallReply,
         CallAbort, CallPanics, faultVars
    <2>3. call[c].pc \in DecidingPC => Kept(j0) /\ \A d \in Deciding(j0) : d = c
      BY <2>1, <2>2 DEF JobInv, Kept, Exclusive, Single
    <2>4. CASE CallGetJob(c)
      <3>1. /\ call[c].pc = "outcome" /\ UNCHANGED <<job, failures, struck>>
            /\ \A d \in Call : d # c => call'[d] = call[d]
            /\ call'[c].attempt = job[j0].attempt /\ call'[c].job = j0
            /\ call'[c].pc = IF Exhausted(job[j0]) THEN "log" ELSE "increment"
        BY <2>1, <2>4 DEF CallGetJob, At, TypeOK, DecidingPC, DecidingState, db, faultVars
      <3>2. Exhausted(job[j0]) => job[j0].attempt = MaxAttempts
        <4>1. job[j0].attempt \in Nat
          BY <2>1, <3>1 DEF TypeOK, DB!StoreTypeOK, DB!JobRow, DecidingPC
        <4>2. job[j0].attempt <= MaxAttempts
          BY <2>3, <3>1 DEF Kept, DecidingPC
        <4> QED
          BY <1>1, <4>1, <4>2 DEF Exhausted
      <3>3. \A j \in Job : \A d \in Deciding(j)' : call'[d].pc \in {"fail", "log"} =>
               \/ /\ d \in Deciding(j) /\ call'[d] = call[d]
               \/ call'[d].pc = "log" /\ call'[d].attempt = MaxAttempts
        BY <3>1, <3>2 DEF Deciding
      <3> QED
        BY <3>1, <3>3, GivenKeeps
    <2>5. CASE CallLogFailure(c)
      <3>1. /\ call[c].pc = "log" /\ UNCHANGED <<job, struck>> /\ MoveToFail(c)
            /\ failures' = failures \cup {[job |-> j0, attempts |-> call[c].attempt]}
        BY <1>2, <2>5 DEF CallLogFailure, At, DB!CreateFailureLog, faultVars
      <3>2. call[c].attempt = MaxAttempts /\ job[j0].attempt = MaxAttempts
        BY <2>1, <2>2, <2>3, <3>1 DEF GivenInv, Kept, Current, DecidingPC
      <3>3. \A j \in Job : j = j0 => Spent(j)'
        BY <3>1, <3>2 DEF Spent
      <3>4. \A j \in Job : \A d \in Deciding(j)' :
              \/ d \in Deciding(j) /\ call'[d] = call[d]
              \/ j = j0 /\ call'[d].pc = "fail"
        BY <2>1, <3>1, HandlerMoves DEF Deciding, DecidingPC
      <3> QED
        BY <3>1, <3>3, <3>4, GivenKeeps
    <2>6. CASE CallIncrement(c)
      <3>1. /\ call[c].pc = "increment" /\ UNCHANGED <<failures, struck>>
            /\ call'[c].pc = "requeue"
            /\ \A d \in Call : d # c => call'[d] = call[d]
            /\ \A j \in Job : j # j0 => job'[j] = job[j]
            /\ \A j \in Job : j = j0 => job'[j].status = "retrying"
        BY <2>1, <2>6 DEF CallIncrement, At, Move, DB!IncrementJobAttempt, TypeOK,
           DB!StoreTypeOK, DecidingPC, DecidingState, faultVars
      <3>2. \A j \in Job : \A d \in Deciding(j)' : call'[d].pc \in {"fail", "log"} =>
               d \in Deciding(j) /\ call'[d] = call[d] /\ j # j0
        BY <2>3, <3>1 DEF Deciding, DecidingPC
      <3> QED
        BY <3>1, <3>2, GivenKeeps
    <2>7. CASE CallCompleted(c) \/ CallFailed(c)
      <3>1. /\ MoveToCounting(c) /\ UNCHANGED <<failures, struck>>
            /\ \A j \in Job : j # j0 => job'[j] = job[j]
            /\ \/ call[c].pc = "outcome" /\ \A j \in Job : j = j0 => job'[j].status = "completed"
               \/ call[c].pc = "fail" /\ \A j \in Job : j = j0 => job'[j].attempt = job[j].attempt
        BY <1>2, <2>1, <2>7 DEF CallCompleted, CallFailed, At, DB!UpdateJobStatus, TypeOK,
           DB!StoreTypeOK, DB!JobRow, DecidingPC, faultVars
      <3>2. call[c].pc = "fail" => \A j \in Job : j = j0 => Spent(j)'
        BY <2>1, <2>2, <3>1 DEF GivenInv, Spent, DecidingPC
      <3>3. \A j \in Job : \A d \in Deciding(j)' : d \in Deciding(j) /\ call'[d] = call[d] /\ j # j0
        BY <2>3, <3>1, HandlerMoves DEF Deciding, DecidingPC
      <3> QED
        BY <3>1, <3>2, <3>3, GivenKeeps
    <2>8. CASE CallRequeue(c)
      <3>1. MoveToCounting(c) /\ UNCHANGED <<job, failures, struck>>
        BY <2>8 DEF CallRequeue, db, faultVars
      <3> QED
        BY <1>4, <3>1, HandlerMoves
    <2>9. CASE CallDecr(c) \/ CallReadScan(c) \/ CallReadScanFails(c) \/ CallWriteProgress(c)
               \/ CallFinish(c)
      <3>1. UNCHANGED <<job, failures>> /\ struck \subseteq struck'
        BY <2>9, StrikeGrows DEF CallDecr, CallReadScan, CallReadScanFails, CallWriteProgress,
             CallFinish, db, faultVars
      <3> QED
        BY <1>4, <2>9, <3>1, CountingStays DEF DecidingPC
    <2>10. CASE CallReply(c) \/ CallAbort(c)
      <3>1. call' = [call EXCEPT ![c] = Free] /\ UNCHANGED <<job, failures, struck>>
        BY <2>10 DEF CallReply, CallAbort, db, faultVars
      <3> QED
        BY <1>4, <3>1 DEF TypeOK, Free
    <2> QED
      BY <1>2, <1>8, <2>4, <2>5, <2>6, <2>7, <2>8, <2>9, <2>10
         DEF CallStep, CallRetryFails, CallRequeueFails, CallPanics
  <1> QED
    BY <1>5, <1>6, <1>7, <1>8 DEF Next, Rest

(* Unless a store fails, a job is given up only after its last attempt,    *)
(* and the failure log has it: for any number of handlers, workers and     *)
(* restarts of the scan, undelivered POSTs and stopped workers.            *)
THEOREM GivenUpAtLast == Spec => []GivenUpLast
  <1>1. Init => GivenInv
    BY DEF Init, DB!StoreInit, Free, DecidingPC, Deciding, GivenInv
  <1>2. TypeOK /\ AttemptInv /\ JobInv /\ GivenInv /\ [Next]_vars => GivenInv'
    BY GivenStep
  <1>3. GivenInv => GivenUpLast
    BY DEF GivenInv, GivenUpLast, StoresUp, Spent
  <1> QED
    BY <1>1, <1>2, <1>3, JobsHold, AttemptsHold, TypeCorrect, PTL DEF Spec
-----------------------------------------------------------------------------
(* A handler that neither answers nor ends keeps its worker, and the job   *)
(* while it still has it.                                                  *)
GoesOn(c) ==
  /\ call[c] # Free /\ call'[c] # Free
  /\ call'[c].worker = call[c].worker /\ call'[c].attached = call[c].attached
  /\ call'[c].pc \in DecidingPC => call[c].pc \in DecidingPC /\ call'[c].job = call[c].job
  /\ \A d \in Call : d # c => call'[d] = call[d]

LEMMA HandlerGoesOn ==
  ASSUME TypeOK, NEW c \in Call, CallStep(c), ~CallReply(c), ~CallAbort(c), ~CallPanics(c)
  PROVE  GoesOn(c) /\ UNCHANGED <<start, worker>>
  <1>1. UNCHANGED <<start, worker>>
    BY DEF CallStep, CallCompleted, CallGetJob, CallRetryFails, CallLogFailure, CallIncrement,
       CallRequeue, CallRequeueFails, CallFailed, CallDecr, CallReadScan, CallReadScanFails,
       CallWriteProgress, CallFinish
  <1>2. /\ call[c].pc \in DecidingPC => call[c] \in DecidingState
        /\ call[c].pc \in CountingPC => call[c] \in CountingState
        /\ call[c].pc \in ClosingPC => call[c] \in ClosingState
    BY CallShape DEF TypeOK
  <1>3. call = [d \in Call |-> call[d]]
    BY DEF TypeOK
  <1> DEFINE Going == /\ call[c].pc # "free" /\ call'[c].pc # "free"
                      /\ call'[c].worker = call[c].worker
                      /\ call'[c].attached = call[c].attached
                      /\ call'[c].pc \in DecidingPC =>
                           call[c].pc \in DecidingPC /\ call'[c].job = call[c].job
                      /\ \A d \in Call : d # c => call'[d] = call[d]
  <1>4. ASSUME call[c].pc \in DecidingPC /\ MoveToCounting(c)
        PROVE  Going
    BY <1>3, <1>4 DEF MoveToCounting, DecidingPC
  <1>5. ASSUME call[c].pc \in DecidingPC /\ MoveToFail(c)
        PROVE  Going
    BY <1>2, <1>3, <1>5 DEF MoveToFail, DecidingState, DecidingPC
  <1>6. ASSUME call[c].pc \in CountingPC /\ MoveToClosing(c)
        PROVE  Going
    BY <1>3, <1>6 DEF MoveToClosing, CountingPC, DecidingPC
  <1>7. ASSUME CallGetJob(c)
        PROVE  Going
    BY <1>2, <1>3, <1>7 DEF CallGetJob, At, DecidingState, DecidingPC
  <1>8. ASSUME CallIncrement(c)
        PROVE  Going
    BY <1>2, <1>3, <1>8 DEF CallIncrement, Move, At, DecidingState, DecidingPC
  <1>9. ASSUME CallDecr(c) \/ CallReadScan(c)
        PROVE  Going
    <2>1. call[c] \in CountingState
      BY <1>2, <1>9 DEF CallDecr, CallReadScan, At, CountingPC
    <2> QED
      BY <1>3, <1>9, <2>1 DEF CallDecr, CallReadScan, At, CountingState, CountingPC, DecidingPC
  <1>10. ASSUME CallFinish(c)
        PROVE  Going
    BY <1>2, <1>3, <1>10 DEF CallFinish, Move, At, ClosingState, ClosingPC, DecidingPC
  <1>11. Going
    BY <1>4, <1>5, <1>6, <1>7, <1>8, <1>9, <1>10
       DEF CallStep, CallCompleted, CallRetryFails, CallLogFailure, CallRequeue,
           CallRequeueFails, CallFailed, CallReadScanFails, CallWriteProgress, At,
           DecidingPC, CountingPC
  <1> QED
    BY <1>1, <1>11 DEF Free, GoesOn

(* A step is a fault of one kind, or none.                                 *)
LEMMA FaultsOnly ==
  ASSUME [Next]_vars
  PROVE  UNCHANGED <<faults, struck>> \/ \E kind \in Faults : Strike(kind)
  <1> USE DEF Strike, faultVars
  <1>1. CASE \E s \in Start : StartStep(s) \/ DispatchStep(s)
    BY <1>1 DEF StartStep, StartRead, StartLock, StartLockRefused, BuildPlan, BuildPlanFails,
       StartUnlock, StartMark, StartMarkFails, StartProgress, StartClientGone,
       DispatchStep, DispatchEnqueue, DispatchFails, DispatchMarkFailed, DispatchCount,
       DispatchRelease, DispatchDeadline
  <1>2. CASE \E w \in Worker : WorkerStep(w)
    BY <1>2 DEF WorkerStep, WorkerPop, WorkerExecute, WorkerPost, WorkerPostLost,
       WorkerPostTimeout, WorkerStop
  <1>3. CASE \E c \in Call : CallStep(c)
    BY <1>3 DEF CallStep, CallCompleted, CallGetJob, CallRetryFails, CallLogFailure,
       CallIncrement, CallRequeue, CallRequeueFails, CallFailed, CallDecr, CallReadScan,
       CallReadScanFails, CallWriteProgress, CallFinish, CallReply, CallAbort, CallPanics
  <1>4. CASE \/ \E c \in Cancel : CancelStep(c)
             \/ LockExpires \/ RetrySweep \/ RetrySweepFails \/ OrchestratorRestart
             \/ UNCHANGED vars
    BY <1>4 DEF CancelStep, CancelRead, CancelWrite, LockExpires, RetrySweep,
       RetrySweepFails, OrchestratorRestart, vars
  <1> QED
    BY <1>1, <1>2, <1>3, <1>4 DEF Next, Rest

(* While no worker has stopped, and none has given up waiting or seen the  *)
(* orchestrator stop, a handler has a worker of its own that waits for its *)
(* answer; and a worker posts for the second time only after a fault.      *)
Attended ==
  struck \subseteq {"post", "client", "panic"} =>
    \A c \in Call : call[c] # Free =>
      /\ call[c].attached /\ worker[call[c].worker].pc = "waiting"
      /\ call[c].pc \in DecidingPC => call[c].job = worker[call[c].worker].job
      /\ \A d \in Call : call[d] # Free /\ call[d].worker = call[c].worker => d = c

AttendInv ==
  /\ faults = 0 => \A w \in Worker : worker[w] # Polling => worker[w].posts = 1
  /\ Attended

LEMMA AttendStep ==
  ASSUME TypeOK, AttendInv, [Next]_vars
  PROVE  AttendInv'
  <1>1. \A c \in Call : call[c] # Free => call[c].worker \in Worker
    BY CallShape DEF TypeOK
  <1>2. ASSUME NEW kind, Strike(kind)
        PROVE  faults' # 0 /\ kind \in struck' /\ struck \subseteq struck'
    BY <1>2 DEF Strike, TypeOK
  <1>3. CASE UNCHANGED <<worker, call>> /\ struck \subseteq struck' /\ (faults' = 0 => faults = 0)
    BY <1>3 DEF AttendInv, Attended
  <1>4. CASE \/ \E s \in Start : StartStep(s) \/ DispatchStep(s)
             \/ \E c \in Cancel : CancelStep(c)
             \/ LockExpires \/ RetrySweep \/ RetrySweepFails \/ UNCHANGED vars
    <2>1. UNCHANGED <<worker, call>>
      BY <1>4 DEF StartStep, StartRead, StartLock, StartLockRefused, BuildPlan, BuildPlanFails,
         StartUnlock, StartMark, StartMarkFails, StartProgress, StartClientGone,
         DispatchStep, DispatchEnqueue, DispatchFails, DispatchMarkFailed, DispatchCount,
         DispatchRelease, DispatchDeadline, CancelStep, CancelRead, CancelWrite,
         LockExpires, RetrySweep, RetrySweepFails, vars
    <2> QED
      BY <1>2, <1>3, <2>1, FaultsOnly DEF faultVars
  <1>5. CASE OrchestratorRestart
    BY <1>2, <1>5 DEF OrchestratorRestart, AttendInv, Attended
  <1>6. ASSUME NEW w \in Worker, WorkerStep(w)
        PROVE  AttendInv'
    <2>1. CASE WorkerPop(w) \/ WorkerExecute(w) \/ WorkerPostLost(w)
      <3>1. /\ worker[w].pc # "waiting" /\ call' = call /\ struck \subseteq struck'
            /\ \A v \in Worker : v # w => worker'[v] = worker[v]
        BY <1>2, <2>1 DEF WorkerPop, WorkerExecute, WorkerPostLost, faultVars, TypeOK
      <3>2. Attended'
        BY <1>1, <3>1 DEF AttendInv, Attended
      <3>3. faults' = 0 => faults = 0 /\ (worker'[w] # Polling => worker'[w].posts = 1)
        <4>1. CASE WorkerPop(w)
          BY <4>1 DEF WorkerPop, TypeOK, faultVars
        <4>2. CASE WorkerExecute(w)
          BY <4>2, WorkerShape DEF WorkerExecute, TypeOK, faultVars, AttendInv, BusyState, Polling
        <4> QED
          BY <1>2, <2>1, <4>1, <4>2 DEF WorkerPostLost
      <3> QED
        BY <3>1, <3>2, <3>3 DEF AttendInv
    <2>2. CASE WorkerPost(w)
      <3>1. PICK c \in Call :
              /\ call[c] = Free
              /\ call' = [call EXCEPT ![c] =
                   [pc |-> "outcome", worker |-> w, attached |-> TRUE,
                    job |-> worker[w].job, status |-> worker[w].outcome, attempt |-> 0]]
        BY <2>2 DEF WorkerPost
      <3>2. /\ worker[w] \in BusyState /\ worker[w].pc = "posting"
            /\ worker' = [worker EXCEPT ![w].pc = "waiting"] /\ UNCHANGED faultVars
        BY <2>2, WorkerShape DEF WorkerPost, TypeOK
      <3>3. /\ worker'[w].pc = "waiting" /\ worker'[w].job = worker[w].job
            /\ worker'[w].posts = worker[w].posts /\ worker[w] # Polling
            /\ \A v \in Worker : v # w => worker'[v] = worker[v]
        BY <3>2 DEF TypeOK, BusyState, Polling
      <3>4. /\ \A d \in Call : d # c => call'[d] = call[d]
            /\ call'[c].worker = w /\ call'[c].attached /\ call'[c].job = worker[w].job
        BY <3>1 DEF TypeOK
      <3>5. Attended'
        <4> SUFFICES ASSUME struck \subseteq {"post", "client", "panic"}
                     PROVE  Attended'
          BY <3>2 DEF Attended, faultVars
        <4>1. \A d \in Call : d # c /\ call'[d] # Free => call[d] # Free /\ call[d].worker # w
          BY <1>1, <3>2, <3>4 DEF AttendInv, Attended
        <4> QED
          BY <1>1, <3>3, <3>4, <4>1 DEF AttendInv, Attended
      <3> QED
        BY <3>2, <3>3, <3>5 DEF AttendInv, faultVars
    <2>3. CASE WorkerPostTimeout(w) \/ WorkerStop(w)
      BY <1>2, <2>3 DEF WorkerPostTimeout, WorkerStop, AttendInv, Attended
    <2> QED
      BY <1>6, <2>1, <2>2, <2>3 DEF WorkerStep
  <1>7. ASSUME NEW c \in Call, CallStep(c)
        PROVE  AttendInv'
    <2>1. struck \subseteq struck' /\ (faults' = 0 => faults = 0)
      BY <1>2, FaultsOnly DEF faultVars
    <2>2. CASE CallReply(c) \/ CallAbort(c) \/ CallPanics(c)
      <3>1. call[c] # Free /\ call' = [call EXCEPT ![c] = Free]
        BY <2>2 DEF CallReply, CallAbort, CallPanics, At, Free
      <3>2. \A v \in Worker : v # call[c].worker => worker'[v] = worker[v]
        BY <2>2, <3>1 DEF CallReply, CallAbort, CallPanics, TypeOK
      <3>3. /\ \A d \in Call : d # c => call'[d] = call[d]
            /\ call'[c] = Free
        BY <3>1 DEF TypeOK
      <3>4. Attended'
        BY <1>1, <2>1, <3>1, <3>2, <3>3 DEF AttendInv, Attended
      <3>5. faults' = 0 => \A v \in Worker : worker'[v] = Polling \/ worker'[v] = worker[v]
        BY <1>2, <2>2 DEF CallReply, CallAbort, CallPanics, TypeOK
      <3> QED
        BY <2>1, <3>4, <3>5 DEF AttendInv
    <2>3. CASE GoesOn(c) /\ UNCHANGED worker
      <3>1. \A d \in Call : call'[d] # Free =>
              /\ call[d] # Free /\ call'[d].worker = call[d].worker
              /\ call'[d].attached = call[d].attached
              /\ call'[d].pc \in DecidingPC => call[d].pc \in DecidingPC /\ call'[d].job = call[d].job
        BY <2>3 DEF GoesOn
      <3> QED
        BY <2>1, <2>3, <3>1 DEF AttendInv, Attended
    <2> QED
      BY <1>7, <2>2, <2>3, HandlerGoesOn
  <1> QED
    BY <1>4, <1>5, <1>6, <1>7 DEF Next, Rest

LEMMA AttendHolds == Spec => []AttendInv
  <1>1. Init => AttendInv
    BY DEF Init, AttendInv, Attended, Free
  <1> QED
    BY <1>1, AttendStep, TypeCorrect, PTL DEF Spec

(* As long as a job is left, the dispatch goes on.                         *)
LEMMA OneLeft ==
  ASSUME TypeOK, NEW s \in Start, NEW t \in start[s].left, NEW u \in start[s].left \ {t},
         IF start[s].left \ {t} = {} THEN GotoWith(s, "count", Task)
                                    ELSE GotoWith(s, "enqueue", start[s].left \ {t})
  PROVE  start'[s] = [pc |-> "enqueue", left |-> start[s].left \ {t}]
  BY DEF TypeOK, GotoWith

(* A dispatch fails only when Redis does.                                  *)
FailInv == \A s \in Start : start[s].pc = "fail" => "redis" \in struck

LEMMA FailStep ==
  ASSUME TypeOK, FailInv, [Next]_vars
  PROVE  FailInv'
  <1>1. ASSUME struck \subseteq struck',
               \A s \in Start : start'[s].pc = "fail" => start[s].pc = "fail" \/ "redis" \in struck'
        PROVE  FailInv'
    BY <1>1 DEF FailInv
  <1>2. CASE \E s \in Start : StartStep(s)
    <2>1. PICK s \in Start : StartStep(s)
      BY <1>2
    <2>2. struck \subseteq struck' /\ start'[s].pc # "fail"
      BY <2>1, StrikeGrows, GotoPC, GotoWithPC
         DEF StartStep, StartRead, StartLock, StartLockRefused, BuildPlan, BuildPlanFails,
             StartUnlock, StartMark, StartMarkFails, StartProgress, StartClientGone,
             TypeOK, StartPC, faultVars
    <2>3. \A t \in Start \ {s} : start'[t] = start[t]
      BY <2>1, GotoPC, GotoWithPC
         DEF StartStep, StartRead, StartLock, StartLockRefused, BuildPlan, BuildPlanFails,
             StartUnlock, StartMark, StartMarkFails, StartProgress, StartClientGone,
             TypeOK, StartPC
    <2> QED
      BY <1>1, <2>2, <2>3
  <1>3. CASE \E s \in Start : DispatchStep(s)
    <2>1. PICK s \in Start : DispatchStep(s)
      BY <1>3
    <2>2. struck \subseteq struck' /\ (start'[s].pc = "fail" => "redis" \in struck')
      <3>1. CASE DispatchFails(s)
        BY <3>1, StrikeGrows DEF DispatchFails, Strike
      <3>2. CASE DispatchEnqueue(s) \/ DispatchCount(s) \/ DispatchDeadline(s)
        <4>1. start'[s].pc # "fail"
          <5>1. \E pc \in {"enqueue", "count", "release", "done"} : \E left : GotoWith(s, pc, left)
            BY <3>2 DEF DispatchEnqueue, DispatchCount, DispatchDeadline
          <5> QED
            BY <5>1, GotoWithPC DEF TypeOK
        <4> QED
          BY <3>2, <4>1, StrikeGrows DEF DispatchEnqueue, DispatchCount, DispatchDeadline, faultVars
      <3>3. CASE DispatchMarkFailed(s) \/ DispatchRelease(s)
        <4>1. start'[s].pc # "fail"
          BY <3>3, GotoPC DEF DispatchMarkFailed, DispatchRelease, TypeOK, StartPC
        <4> QED
          BY <3>3, <4>1, StrikeGrows DEF DispatchMarkFailed, DispatchRelease
      <3> QED
        BY <2>1, <3>1, <3>2, <3>3 DEF DispatchStep
    <2>3. \A t \in Start \ {s} : start'[t] = start[t]
      BY <2>1, GotoPC, GotoWithPC
         DEF DispatchStep, DispatchEnqueue, DispatchFails, DispatchMarkFailed, DispatchCount,
             DispatchRelease, DispatchDeadline, TypeOK, StartPC
    <2> QED
      BY <1>1, <2>2, <2>3
  <1>4. CASE OrchestratorRestart
    <2>1. \A s \in Start : start'[s].pc # "fail"
      BY <1>4 DEF OrchestratorRestart
    <2> QED
      BY <1>1, <1>4, <2>1, StrikeGrows DEF OrchestratorRestart
  <1>5. CASE \/ \E c \in Cancel : CancelStep(c)
             \/ \E w \in Worker : WorkerStep(w)
             \/ \E c \in Call : CallStep(c)
             \/ LockExpires \/ RetrySweep \/ RetrySweepFails \/ UNCHANGED vars
    <2>1. struck \subseteq struck' /\ start' = start
      BY <1>5, StrikeGrows DEF CancelStep, CancelRead, CancelWrite, WorkerStep, WorkerPop,
         WorkerExecute, WorkerPost, WorkerPostLost, WorkerPostTimeout, WorkerStop,
         CallStep, CallCompleted, CallGetJob, CallRetryFails, CallLogFailure, CallIncrement,
         CallRequeue, CallRequeueFails, CallFailed, CallDecr, CallReadScan, CallReadScanFails,
         CallWriteProgress, CallFinish, CallReply, CallAbort, CallPanics,
         LockExpires, RetrySweep, RetrySweepFails, vars, faultVars
    <2> QED
      BY <1>1, <2>1
  <1> QED
    BY <1>2, <1>3, <1>4, <1>5 DEF Next, Rest

(* NoJobLost is inductive beside the two: nobody lets go of a job that is  *)
(* not settled without passing it on, and a second payload of the same job *)
(* does not harm.                                                          *)
LEMMA LostStep ==
  ASSUME TypeOK, AttendInv, FailInv, NoJobLost, [Next]_vars
  PROVE  NoJobLost'
  <1> SUFFICES ASSUME Mild', NEW j \in Job, Dispatched(j)', Unsettled(j)'
               PROVE  (Held(j) \/ ToPush(j))'
    BY DEF NoJobLost
  <1>1. ASSUME NEW kind, Strike(kind)
        PROVE  faults = 0 /\ kind \in {"post", "client", "panic"}
    BY <1>1 DEF Strike, Mild, TypeOK
  <1>2. ASSUME Mild, Dispatched(j), Unsettled(j),
               Held(j) => Held(j)', ToPush(j) => (ToPush(j) \/ Held(j))'
        PROVE  (Held(j) \/ ToPush(j))'
    BY <1>2 DEF NoJobLost
  <1>3. struck \subseteq struck' /\ Mild
    <2>1. UNCHANGED <<faults, struck>> \/ \E kind \in Faults : Strike(kind)
      BY FaultsOnly
    <2>2. faults \in Nat
      BY ConstantsAssumption DEF TypeOK, ConstantsAssumption
    <2>3. CASE UNCHANGED <<faults, struck>>
      BY <2>3 DEF Mild
    <2>4. ASSUME NEW kind \in Faults, Strike(kind)
          PROVE  struck \subseteq struck' /\ Mild
      BY <2>2, <2>4 DEF Strike, Mild
    <2> QED
      BY <2>1, <2>3, <2>4
  <1>4. j[1] \in Start /\ j[2] \in Task
    BY DEF Job
  <1>5. CASE \E s \in Start : StartStep(s)
    <2>1. PICK s \in Start : StartStep(s)
      BY <1>5
    <2>2. UNCHANGED <<queue, retry, worker, call>>
      BY <2>1 DEF StartStep, StartRead, StartLock, StartLockRefused, BuildPlan, BuildPlanFails,
         StartUnlock, StartMark, StartMarkFails, StartProgress, StartClientGone, redis
    <2>3. Held(j)' <=> Held(j)
      BY <2>2 DEF Held, Queued, Retrying, InHand, Deciding
    <2>4. CASE start[s].pc = "progress" /\ j[1] = s
      <3>1. start'[s] = [pc |-> "enqueue", left |-> Task]
        BY <2>1, <2>4 DEF StartStep, StartRead, StartLock, StartLockRefused, BuildPlan,
           BuildPlanFails, StartUnlock, StartMark, StartMarkFails, StartProgress,
           StartClientGone, GotoWith, TypeOK
      <3> QED
        BY <1>4, <2>4, <3>1 DEF ToPush
    <2>5. CASE start[s].pc # "progress" /\ j[1] = s
      <3>1. start'[s].pc \notin {"enqueue", "count", "release", "done"}
        BY <2>1, <2>5, GotoPC DEF StartStep, StartRead, StartLock, StartLockRefused, BuildPlan,
           BuildPlanFails, StartUnlock, StartMark, StartMarkFails, StartProgress,
           StartClientGone, TypeOK, StartPC
      <3> QED
        BY <2>5, <3>1 DEF Dispatched
    <2>6. CASE j[1] # s
      <3>1. start'[j[1]] = start[j[1]]
        BY <1>4, <2>1, <2>6, GotoPC, GotoWithPC
           DEF StartStep, StartRead, StartLock, StartLockRefused, BuildPlan,
               BuildPlanFails, StartUnlock, StartMark, StartMarkFails, StartProgress,
               StartClientGone, TypeOK, StartPC
      <3>2. job'[j] = job[j]
        <4>1. job' = job \/ \E made \in SUBSET Task : DB!CreateJobs({s} \X made)
          BY <2>1 DEF StartStep, StartRead, StartLock, StartLockRefused, BuildPlan,
             BuildPlanFails, StartUnlock, StartMark, StartMarkFails, StartProgress,
             StartClientGone, db
        <4> QED
          BY <2>6, <4>1 DEF DB!CreateJobs
      <3> QED
        BY <1>2, <1>3, <2>3, <3>1, <3>2 DEF Dispatched, Unsettled, ToPush
    <2> QED
      BY <2>4, <2>5, <2>6
  <1>6. CASE \E s \in Start : DispatchStep(s)
    <2>1. PICK s \in Start : DispatchStep(s)
      BY <1>6
    <2>2. UNCHANGED <<job, retry, worker, call>>
      BY <2>1 DEF DispatchStep, DispatchEnqueue, DispatchFails, DispatchMarkFailed,
         DispatchCount, DispatchRelease, DispatchDeadline, db, redis
    <2>3. CASE DispatchEnqueue(s)
      <3>1. PICK t \in start[s].left :
              /\ Redis!EnqueueJob([job |-> <<s, t>>, attempt |-> 1])
              /\ IF start[s].left \ {t} = {} THEN GotoWith(s, "count", Task)
                    ELSE GotoWith(s, "enqueue", start[s].left \ {t})
        BY <2>3 DEF DispatchEnqueue
      <3>2. t \in Task
        BY DEF TypeOK, StartState
      <3>3. PICK p \in Redis!Payload : p.job = <<s, t>> /\ Redis!EnqueueJob(p)
        BY <3>1, <3>2 DEF Redis!Payload, Job
      <3>4. /\ Queued(j) \subseteq Queued(j)'
            /\ j = <<s, t>> => Queued(j)' # {}
        BY <3>3, Pushed DEF TypeOK, Redis!QueueTypeOK
      <3>5. Held(j) => Held(j)'
        BY <2>2, <3>4 DEF Held, Retrying, InHand, Deciding
      <3>6. start[s].pc = "enqueue" /\ start \in [Start -> StartState]
        BY <2>3 DEF DispatchEnqueue, TypeOK
      <3>7. ASSUME ToPush(j)
            PROVE  (ToPush(j) \/ Held(j))'
        <4>1. CASE j = <<s, t>>
          BY <3>4, <4>1 DEF Held
        <4>2. CASE j[1] = s /\ j # <<s, t>>
          <5>1. j[2] \in start[s].left \ {t}
            BY <3>7, <4>2 DEF ToPush, Job
          <5>2. start'[s] = [pc |-> "enqueue", left |-> start[s].left \ {t}]
            BY <3>1, <5>1, OneLeft
          <5> QED
            BY <4>2, <5>1, <5>2 DEF ToPush
        <4>3. CASE j[1] # s
          <5>1. start'[j[1]] = start[j[1]]
            BY <1>4, <3>1, <3>6, <4>3, GotoWithPC
          <5> QED
            BY <3>7, <5>1 DEF ToPush
        <4> QED
          BY <4>1, <4>2, <4>3
      <3>8. Dispatched(j)
        BY <1>4, <3>1, <3>6, GotoWithPC DEF Dispatched
      <3> QED
        BY <1>2, <1>3, <2>2, <3>5, <3>7, <3>8 DEF Unsettled
    <2>4. CASE DispatchMarkFailed(s) \/ DispatchCount(s) \/ DispatchRelease(s)
      <3>1. ~DispatchMarkFailed(s)
        BY <1>3 DEF FailInv, DispatchMarkFailed, Mild
      <3>2. /\ start[s].pc \in {"count", "release"}
            /\ \A t \in Start \ {s} : start'[t] = start[t]
        <4>1. CASE DispatchCount(s)
          BY <4>1, GotoWithPC DEF DispatchCount, TypeOK
        <4>2. CASE DispatchRelease(s)
          BY <4>2, GotoPC DEF DispatchRelease, TypeOK, StartPC
        <4> QED
          BY <2>4, <3>1, <4>1, <4>2
      <3>3. Dispatched(j) /\ (ToPush(j) => ToPush(j)')
        BY <1>4, <3>2 DEF Dispatched, ToPush
      <3>4. queue' = queue
        BY <2>4, <3>1 DEF DispatchCount, DispatchRelease
      <3>5. Held(j)' <=> Held(j)
        BY <2>2, <3>4 DEF Held, Queued, Retrying, InHand, Deciding
      <3> QED
        BY <1>2, <1>3, <2>2, <3>3, <3>5 DEF Unsettled
    <2> QED
      BY <1>1, <2>1, <2>3, <2>4 DEF DispatchStep, DispatchFails, DispatchDeadline
  <1>7. ASSUME UNCHANGED <<job, start>>, Held(j) => Held(j)'
        PROVE  (Held(j) \/ ToPush(j))'
    BY <1>2, <1>3, <1>7 DEF Dispatched, Unsettled, ToPush
  <1>8. CASE \/ \E c \in Cancel : CancelStep(c)
             \/ LockExpires \/ RetrySweepFails \/ OrchestratorRestart \/ UNCHANGED vars
    <2>1. UNCHANGED <<job, start, queue, retry, worker, call>>
      BY <1>1, <1>8 DEF CancelStep, CancelRead, CancelWrite, LockExpires, RetrySweepFails,
         OrchestratorRestart, vars, db, redis
    <2> QED
      BY <1>7, <2>1 DEF Held, Queued, Retrying, InHand, Deciding
  <1>9. CASE RetrySweep
    <2>1. PICK p \in retry : Redis!ProcessRetry(p)
      BY <1>9 DEF RetrySweep
    <2>2. p \in Redis!Payload /\ Redis!EnqueueJob(p) /\ retry' = retry \ {p}
      BY <2>1 DEF Redis!ProcessRetry, TypeOK, Redis!QueueTypeOK
    <2>3. Queued(j) \subseteq Queued(j)' /\ (j = p.job => Queued(j)' # {})
      BY <2>2, Pushed DEF TypeOK, Redis!QueueTypeOK
    <2>4. j # p.job => Retrying(j)' = Retrying(j)
      BY <2>2 DEF Retrying
    <2>5. UNCHANGED <<job, start, worker, call>>
      BY <1>9 DEF RetrySweep, db
    <2> QED
      BY <1>7, <2>3, <2>4, <2>5 DEF Held, InHand, Deciding
  <1>10. ASSUME NEW w \in Worker, WorkerStep(w)
         PROVE  (Held(j) \/ ToPush(j))'
    <2>1. UNCHANGED <<job, start, retry>>
      BY <1>10 DEF WorkerStep, WorkerPop, WorkerExecute, WorkerPost, WorkerPostLost,
         WorkerPostTimeout, WorkerStop, db, redis
    <2>2. CASE WorkerPop(w)
      <3>1. worker[w].pc = "polling" /\ queue \in Seq(Redis!Payload) /\ call' = call
        BY <2>2 DEF WorkerPop, TypeOK, Redis!QueueTypeOK
      <3>2. /\ Head(queue) = queue[1] /\ DOMAIN queue \subseteq Nat \ {0}
            /\ \A i \in DOMAIN queue : i # 1 =>
                 i - 1 \in DOMAIN queue' /\ queue'[i - 1] = queue[i]
        BY <2>2, <3>1 DEF WorkerPop, Redis!PopJob
      <3>3. /\ worker'[w].pc = "running" /\ worker'[w].job = Head(queue).job
            /\ \A v \in Worker : v # w => worker'[v] = worker[v]
        BY <2>2 DEF WorkerPop, TypeOK
      <3>4. InHand(j) \subseteq InHand(j)' /\ Deciding(j)' = Deciding(j)
        BY <3>1, <3>3 DEF InHand, Deciding
      <3>5. Queued(j) # {} => Queued(j)' # {} \/ InHand(j)' # {}
        BY <3>2, <3>3 DEF Queued, InHand
      <3> QED
        BY <1>7, <2>1, <3>4, <3>5 DEF Held, Retrying
    <2>3. CASE WorkerPost(w)
      <3>1. PICK c \in Call :
              /\ call[c] = Free
              /\ call' = [call EXCEPT ![c] =
                   [pc |-> "outcome", worker |-> w, attached |-> TRUE,
                    job |-> worker[w].job, status |-> worker[w].outcome, attempt |-> 0]]
        BY <2>3 DEF WorkerPost
      <3>2. \A v \in Worker : v # w => worker'[v] = worker[v]
        BY <2>3 DEF WorkerPost, TypeOK
      <3>3. /\ Deciding(j) \subseteq Deciding(j)'
            /\ worker[w].job = j => c \in Deciding(j)'
        BY <3>1 DEF TypeOK, Deciding, Free, DecidingPC
      <3>4. worker[w].job # j => InHand(j) \subseteq InHand(j)'
        BY <3>2 DEF InHand
      <3>5. queue' = queue
        BY <2>3 DEF WorkerPost, redis
      <3> QED
        BY <1>7, <2>1, <3>3, <3>4, <3>5 DEF Held, Queued, Retrying
    <2>4. CASE WorkerExecute(w) \/ WorkerPostLost(w)
      <3>1. UNCHANGED <<queue, call>> /\ worker[w] \in BusyState
        BY <2>4, WorkerShape DEF WorkerExecute, WorkerPostLost, redis, TypeOK
      <3>2. worker'[w].pc \in {"running", "posting"} /\ worker'[w].job = worker[w].job
        <4>1. CASE WorkerExecute(w)
          BY <3>1, <4>1 DEF WorkerExecute, TypeOK, BusyState
        <4>2. CASE WorkerPostLost(w)
          <5>1. worker[w].posts = 1
            BY <1>1, <3>1, <4>2 DEF WorkerPostLost, AttendInv, BusyState, Polling
          <5> QED
            BY <3>1, <4>2, <5>1 DEF WorkerPostLost, AfterFailedPost, TypeOK, BusyState
        <4> QED
          BY <2>4, <4>1, <4>2
      <3>3. \A v \in Worker : v # w => worker'[v] = worker[v]
        BY <2>4 DEF WorkerExecute, WorkerPostLost, TypeOK
      <3>4. InHand(j) \subseteq InHand(j)'
        BY <3>2, <3>3 DEF InHand
      <3> QED
        BY <1>7, <2>1, <3>1, <3>4 DEF Held, Queued, Retrying, Deciding
    <2> QED
      BY <1>1, <1>10, <2>2, <2>3, <2>4 DEF WorkerStep, WorkerPostTimeout, WorkerStop
  <1>11. ASSUME NEW c \in Call, CallStep(c)
         PROVE  (Held(j) \/ ToPush(j))'
    <2>1. start' = start /\ queue' = queue
      BY <1>11 DEF CallStep, CallCompleted, CallGetJob, CallRetryFails, CallLogFailure,
         CallIncrement, CallRequeue, CallRequeueFails, CallFailed, CallDecr, CallReadScan,
         CallReadScanFails, CallWriteProgress, CallFinish, CallReply, CallAbort, CallPanics, redis
    <2>2. call[c].pc \in DecidingPC => call[c] \in DecidingState
      BY HandlerMoves
    <2>3. CASE CallCompleted(c) \/ CallFailed(c)
      <3>1. /\ call[c].pc \in DecidingPC /\ MoveToCounting(c) /\ UNCHANGED <<worker, retry>>
            /\ \E outcome \in Outcome : DB!UpdateJobStatus(call[c].job, outcome)
        BY <1>1, <2>3 DEF CallCompleted, CallFailed, At, DecidingPC, Outcome, redis
      <3>2. j # call[c].job /\ job'[j] = job[j]
        BY <3>1 DEF DB!UpdateJobStatus, Outcome, Unsettled, TypeOK, DB!StoreTypeOK, DB!JobRow
      <3>3. Deciding(j) \subseteq Deciding(j)'
        BY <3>1, <3>2, HandlerMoves DEF Deciding
      <3>4. Held(j) => Held(j)'
        BY <2>1, <3>1, <3>3 DEF Held, Queued, Retrying, InHand
      <3> QED
        BY <1>2, <1>3, <2>1, <3>2, <3>4 DEF Dispatched, Unsettled, ToPush
    <2>4. CASE CallIncrement(c)
      <3>1. /\ call[c].pc \in DecidingPC /\ UNCHANGED <<worker, retry>>
            /\ call'[c].pc = "requeue" /\ call'[c].job = call[c].job
            /\ \A d \in Call : d # c => call'[d] = call[d]
            /\ j # call[c].job => job'[j] = job[j]
        BY <2>2, <2>4 DEF CallIncrement, At, Move, DecidingPC, DecidingState, TypeOK, redis,
           DB!IncrementJobAttempt, DB!StoreTypeOK
      <3>2. /\ Deciding(j) \subseteq Deciding(j)'
            /\ j = call[c].job => c \in Deciding(j)'
        BY <3>1 DEF Deciding, DecidingPC
      <3>3. Held(j) => Held(j)'
        BY <2>1, <3>1, <3>2 DEF Held, Queued, Retrying, InHand
      <3> QED
        BY <1>2, <1>3, <2>1, <3>1, <3>2, <3>3 DEF Dispatched, Unsettled, ToPush, Held
    <2>5. CASE CallRequeue(c)
      <3>1. /\ call[c].pc \in DecidingPC /\ MoveToCounting(c) /\ UNCHANGED <<job, worker>>
            /\ retry' = retry \cup {[job |-> call[c].job, attempt |-> call[c].attempt + 1]}
        BY <2>5 DEF CallRequeue, At, DecidingPC, Redis!EnqueueRetry, db
      <3>2. /\ Retrying(j) \subseteq Retrying(j)'
            /\ j = call[c].job => Retrying(j)' # {}
        <4>1. [job |-> call[c].job, attempt |-> call[c].attempt + 1].job = call[c].job
          OBVIOUS
        <4> QED
          BY <3>1, <4>1 DEF Retrying
      <3>3. j # call[c].job => Deciding(j) \subseteq Deciding(j)'
        BY <3>1, HandlerMoves DEF Deciding
      <3> QED
        BY <1>7, <2>1, <3>1, <3>2, <3>3 DEF Held, Queued, InHand
    <2>6. CASE CallGetJob(c) \/ CallLogFailure(c)
      <3>1. UNCHANGED <<job, worker, retry>> /\ call[c].pc \in DecidingPC
        BY <1>1, <2>6 DEF CallGetJob, CallLogFailure, At, DecidingPC, db, redis
      <3>2. /\ call'[c].pc \in DecidingPC /\ call'[c].job = call[c].job
            /\ \A d \in Call : d # c => call'[d] = call[d]
        <4>1. CASE CallGetJob(c)
          BY <2>2, <3>1, <4>1 DEF CallGetJob, TypeOK, DecidingPC, DecidingState
        <4>2. CASE CallLogFailure(c)
          BY <3>1, <4>2, HandlerMoves DEF CallLogFailure, DecidingPC
        <4> QED
          BY <2>6, <4>1, <4>2
      <3>3. Deciding(j) \subseteq Deciding(j)'
        BY <3>2 DEF Deciding
      <3> QED
        BY <1>7, <2>1, <3>1, <3>3 DEF Held, Queued, Retrying, InHand
    <2>7. CASE CallDecr(c) \/ CallReadScan(c) \/ CallReadScanFails(c) \/ CallWriteProgress(c)
               \/ CallFinish(c)
      <3>1. /\ call[c].pc \notin DecidingPC /\ UNCHANGED <<job, worker, retry>>
            /\ \A d \in Call : d # c => call'[d] = call[d]
        BY <2>7, CountingStays DEF CallDecr, CallReadScan, CallReadScanFails,
           CallWriteProgress, CallFinish, At, DecidingPC, db, redis
      <3>2. Deciding(j) \subseteq Deciding(j)'
        BY <3>1 DEF Deciding
      <3> QED
        BY <1>7, <2>1, <3>1, <3>2 DEF Held, Queued, Retrying, InHand
    <2>8. CASE CallReply(c) \/ CallPanics(c)
      <3>1. /\ call[c].pc \in {"decr", "finish", "reply"} /\ UNCHANGED <<job, retry>>
            /\ call' = [call EXCEPT ![c] = Free]
        BY <2>8 DEF CallReply, CallPanics, At, db, redis
      <3>2. call[c] # Free /\ worker[call[c].worker].pc = "waiting"
        BY <1>3, <3>1 DEF Mild, AttendInv, Attended, Free
      <3>3. \A v \in Worker : worker[v].pc # "waiting" => worker'[v] = worker[v]
        BY <2>8, <3>2 DEF CallReply, CallPanics, TypeOK
      <3>4. InHand(j) \subseteq InHand(j)'
        BY <3>3 DEF InHand
      <3>5. Deciding(j) \subseteq Deciding(j)'
        BY <3>1 DEF Deciding, DecidingPC, TypeOK
      <3> QED
        BY <1>7, <2>1, <3>1, <3>4, <3>5 DEF Held, Queued, Retrying
    <2>9. ~CallAbort(c)
      BY <1>3 DEF CallAbort, Mild, AttendInv, Attended
    <2> QED
      BY <1>1, <1>11, <2>3, <2>4, <2>5, <2>6, <2>7, <2>8, <2>9
         DEF CallStep, CallRetryFails, CallRequeueFails
  <1> QED
    BY <1>5, <1>6, <1>8, <1>9, <1>10, <1>11 DEF Next, Rest

(* The way from queue to worker to handler to retry queue loses no job, in *)
(* spite of an undelivered POST or of a broadcast that panicked.           *)
THEOREM NoJobsLost == Spec => []NoJobLost
  <1>1. Init => FailInv
    BY DEF Init, FailInv
  <1>2. Init => NoJobLost
    BY DEF Init, NoJobLost, Dispatched, Job
  <1> QED
    BY <1>1, <1>2, FailStep, LostStep, AttendHolds, TypeCorrect, PTL DEF Spec
=============================================================================
