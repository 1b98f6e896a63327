---------------------------- MODULE Retest_proofs ----------------------------
(***************************************************************************)
(* FixedIsGone for any findings, jobs, attempts, concurrent reports, ticks *)
(* and faults.  What carries it, as long as nothing has been missed: a job *)
(* that has reported has its findings stored or a handler that is storing  *)
(* them, so the report that ends the scan with no other one outstanding    *)
(* ends it with everything stored; and a comparison reads the list after   *)
(* the scan has ended.                                                     *)
(***************************************************************************)
EXTENDS Retest, TLAPS

Storing == {"retry", "store", "insert"}
Reported == {"posted", "reposted", "done"}

WorkState == [pc : {"none", "queued", "post", "repost"} \cup Reported, found : SUBSET Key]
CallState ==
  [pc : {"free", "finish", "reply"} \cup Storing, run : Run \cup {<<>>}, todo : SUBSET Key,
   key : Key \cup {NoKey}, attached : BOOLEAN]
TickState == [pc : {"idle", "completed", "failed", "list", "mark"}, present : SUBSET Key,
              left : SUBSET Key]

(* The types that matter here; a handler has a run, and has emptied its    *)
(* list when it leaves the storing of findings.                            *)
Shapes ==
  /\ weak \subseteq Key
  /\ stored \in [Key -> Nat]
  /\ verdict \in [Key -> {"open", "fixed"}]
  /\ work \in [Run -> WorkState]
  /\ call \in [Call -> CallState]
  /\ tick \in [Tick -> TickState]
  /\ blind \in BOOLEAN
  /\ \A c \in Call : call[c].pc # "free" => call[c].run \in Run
  /\ \A c \in Call : call[c].pc \in {"finish", "reply"} => call[c].todo = {}

(* The first attempts of all jobs are queued at a time, before anything is *)
(* reported.                                                               *)
Begun ==
  /\ \A r \in Run : work[r].pc # "none" => \A j \in Job : work[<<j, 1>>].pc # "none"
  /\ \A c \in Call : call[c].pc # "free" => work[call[c].run].pc # "none"

AllStored == \A k \in weak : stored[k] > 0

Found ==
  \A r \in Run : work[r].pc \in {"post", "posted", "repost"} => work[r].found = Findable(r)

Held ==
  \A c \in Call : call[c].pc # "free" =>
    \A k \in Findable(call[c].run) : k \in call[c].todo \/ stored[k] > 0

Delivered ==
  \A r \in Run : work[r].pc \in Reported =>
    \/ \A k \in Findable(r) : stored[k] > 0
    \/ \E c \in Call : call[c].pc \in Storing /\ call[c].run = r

EndsStored ==
  /\ \A c \in Call : call[c].pc = "finish" => AllStored
  /\ scan = "completed" => AllStored
  /\ \A t \in Tick : tick[t].pc \in {"completed", "list"} => AllStored
  /\ \A t \in Tick : tick[t].pc = "mark" => weak \subseteq tick[t].present

FixedGone == \A k \in Key : verdict[k] = "fixed" => k \notin weak

NothingMissed == Found /\ Held /\ Delivered /\ EndsStored /\ FixedGone

RetestInv == Shapes /\ Begun /\ (~blind => NothingMissed)

---------------------------------------------------------------------------
(* Initially nothing is fixed, queued or reported.                         *)
LEMMA InvInit ==
  ASSUME RetestInit
  PROVE  RetestInv
  <1>1. Shapes
    BY DEF RetestInit, Shapes, WorkState, CallState, TickState, FreeCall, IdleTick, NoKey
  <1>2. Begun
    BY DEF RetestInit, Begun, FreeCall
  <1>3. Found /\ Held /\ Delivered
    BY DEF RetestInit, Found, Held, Delivered, FreeCall, Reported
  <1>4. EndsStored /\ FixedGone
    BY DEF RetestInit, EndsStored, FixedGone, FreeCall, IdleTick
  <1> QED
    BY <1>1, <1>2, <1>3, <1>4 DEF RetestInv, NothingMissed

(* A step that leaves rows, jobs and handlers alone only has to keep what  *)
(* is about the scan's end and the page.                                   *)
LEMMA PageFrame ==
  ASSUME RetestInv, UNCHANGED <<weak, stored, work, call>>, blind => blind',
         tick' \in [Tick -> TickState], blind' \in BOOLEAN,
         verdict' \in [Key -> {"open", "fixed"}],
         ~blind' => EndsStored' /\ FixedGone'
  PROVE  RetestInv'
  <1>1. Shapes' /\ Begun'
    BY DEF RetestInv, Shapes, Begun
  <1>2. ~blind /\ ~blind' => Found' /\ Held' /\ Delivered'
    BY DEF RetestInv, NothingMissed, Found, Held, Delivered, Findable
  <1> QED
    BY <1>1, <1>2 DEF RetestInv, NothingMissed

(* The page's timer and requests, and ReconcileRetest.                     *)
LEMMA PageStep ==
  ASSUME RetestInv, NEW t \in Tick,
         \/ TimerTicks(t) \/ Poll(t) \/ ReconcileFails(t) \/ ListFindingsFails(t)
         \/ ReconciledLost(t)
  PROVE  RetestInv'
  <1> USE DEF Others, Go, IdleTick
  <1>1. /\ tick \in [Tick -> TickState] /\ verdict \in [Key -> {"open", "fixed"}]
        /\ blind \in BOOLEAN /\ weak \subseteq Key
    BY DEF RetestInv, Shapes
  <1>2. ~blind => EndsStored /\ FixedGone
    BY DEF RetestInv, NothingMissed
  <1>3. CASE TimerTicks(t)
    <2>1. tick' \in [Tick -> TickState]
      BY <1>1, <1>3 DEF TimerTicks, TickState
    <2>2. ~blind' => EndsStored' /\ FixedGone'
      BY <1>1, <1>2, <1>3 DEF TimerTicks, TickState, EndsStored, AllStored, FixedGone
    <2> QED
      BY <1>1, <1>3, <2>1, <2>2, PageFrame DEF TimerTicks
  <1>4. CASE TickSeesCompleted(t)
    <2>1. tick' \in [Tick -> TickState]
      BY <1>1, <1>4 DEF TickSeesCompleted, TickState
    <2>2. ~blind' => EndsStored' /\ FixedGone'
      BY <1>1, <1>2, <1>4 DEF TickSeesCompleted, TickState, EndsStored, AllStored, FixedGone
    <2> QED
      BY <1>1, <1>4, <2>1, <2>2, PageFrame DEF TickSeesCompleted
  <1>5. CASE TickSeesFailed(t) \/ ReconcileFails(t)
    <2>1. tick' \in [Tick -> TickState]
      BY <1>1, <1>5 DEF TickSeesFailed, ReconcileFails, TickState
    <2>2. ~blind' => EndsStored' /\ FixedGone'
      BY <1>1, <1>2, <1>5
         DEF TickSeesFailed, ReconcileFails, TickState, EndsStored, AllStored, FixedGone
    <2> QED
      BY <1>1, <1>5, <2>1, <2>2, PageFrame DEF TickSeesFailed, ReconcileFails
  <1>6. CASE ListRetestFindings(t)
    <2>1. tick' \in [Tick -> TickState]
      BY <1>1, <1>6 DEF ListRetestFindings, TickState, Present
    <2>2. ~blind => weak \subseteq Present
      BY <1>1, <1>2, <1>6 DEF ListRetestFindings, EndsStored, AllStored, Present
    <2>3. ~blind' => EndsStored' /\ FixedGone'
      BY <1>1, <1>2, <1>6, <2>2
         DEF ListRetestFindings, TickState, EndsStored, AllStored, FixedGone
    <2> QED
      BY <1>1, <1>6, <2>1, <2>3, PageFrame DEF ListRetestFindings
  <1>7. CASE ListFindingsFails(t)
    <2>1. tick' \in [Tick -> TickState]
      BY <1>1, <1>7 DEF ListFindingsFails, TickState
    <2> QED
      BY <1>1, <1>7, <2>1, PageFrame DEF ListFindingsFails
  <1>8. CASE SetFindingStatus(t)
    <2>1. PICK k \in tick[t].left :
            /\ tick' = [tick EXCEPT ![t].left = @ \ {k}]
            /\ \/ verdict' = [verdict EXCEPT ![k] = IF k \in tick[t].present THEN "open"
                                                   ELSE "fixed"]
               \/ verdict' = verdict
      BY <1>8 DEF SetFindingStatus
    <2>2. tick' \in [Tick -> TickState]
      BY <1>1, <2>1 DEF TickState
    <2>3. verdict' \in [Key -> {"open", "fixed"}]
      BY <1>1, <2>1
    <2>4. ~blind => EndsStored'
      BY <1>1, <1>2, <1>8, <2>1 DEF SetFindingStatus, TickState, EndsStored, AllStored
    <2>5. ~blind => FixedGone'
      BY <1>1, <1>2, <1>8, <2>1 DEF SetFindingStatus, TickState, EndsStored, FixedGone
    <2> QED
      BY <1>1, <1>8, <2>2, <2>3, <2>4, <2>5, PageFrame DEF SetFindingStatus
  <1>9. CASE Reconciled(t) \/ ReconciledLost(t)
    <2>1. tick' \in [Tick -> TickState]
      BY <1>1, <1>9 DEF Reconciled, ReconciledLost, TickState
    <2>2. ~blind' => EndsStored' /\ FixedGone'
      BY <1>1, <1>2, <1>9
         DEF Reconciled, ReconciledLost, TickState, EndsStored, AllStored, FixedGone
    <2> QED
      BY <1>1, <1>9, <2>1, <2>2, PageFrame DEF Reconciled, ReconciledLost
  <1> QED
    BY <1>3, <1>4, <1>5, <1>6, <1>7, <1>8, <1>9 DEF Poll

(* What RetestScan and its dispatch do to the scan's status and counter.   *)
LEMMA ScanStep ==
  ASSUME RetestInv, RetestScanFails \/ DispatchCounts
  PROVE  RetestInv'
  <1>1. tick \in [Tick -> TickState] /\ verdict \in [Key -> {"open", "fixed"}] /\ blind \in BOOLEAN
    BY DEF RetestInv, Shapes
  <1>2. ~blind => EndsStored' /\ FixedGone'
    BY DEF RetestInv, NothingMissed, EndsStored, FixedGone, AllStored, RetestScanFails,
           DispatchCounts
  <1> QED
    BY <1>1, <1>2, PageFrame DEF RetestScanFails, DispatchCounts

(* A pipeline that fails drops runs that nobody has taken yet.             *)
LEMMA DispatchDrops ==
  ASSUME RetestInv, DispatchFails
  PROVE  /\ work' \in [Run -> WorkState]
         /\ \A r \in Run : /\ work'[r].found = work[r].found
                           /\ \/ work'[r] = work[r]
                              \/ work[r].pc = "queued" /\ work'[r].pc = "done"
         /\ work' = work \/ blind'
  <1>1. work \in [Run -> WorkState]
    BY DEF RetestInv, Shapes
  <1>2. PICK lost \in SUBSET {r \in Run : r[2] = 1 /\ work[r].pc = "queued"} :
          /\ work' = [r \in Run |-> IF r \in lost THEN [work[r] EXCEPT !.pc = "done"] ELSE work[r]]
          /\ blind' = (blind \/ lost # {})
    BY DEF DispatchFails
  <1>3. \A r \in Run : [work[r] EXCEPT !.pc = "done"] \in WorkState
    BY <1>1 DEF WorkState, Reported
  <1>4. work' \in [Run -> WorkState]
    BY <1>1, <1>2, <1>3
  <1>5. ASSUME NEW r \in Run
        PROVE  /\ work'[r].found = work[r].found
               /\ \/ work'[r] = work[r]
                  \/ work[r].pc = "queued" /\ work'[r].pc = "done"
    BY <1>1, <1>2 DEF WorkState
  <1>6. work' = work \/ blind'
    BY <1>1, <1>2
  <1> QED
    BY <1>4, <1>5, <1>6

(* So it keeps the invariant: what it drops counts as missed.              *)
LEMMA DispatchFailsStep ==
  ASSUME RetestInv, DispatchFails
  PROVE  RetestInv'
  <1>1. /\ UNCHANGED <<weak, stored, verdict, call, tick>> /\ scan' = "failed"
        /\ blind' \in BOOLEAN /\ (blind => blind')
    BY DEF DispatchFails, RetestInv, Shapes
  <1>2. Shapes'
    BY <1>1, DispatchDrops DEF RetestInv, Shapes
  <1>3. \A r \in Run : work[r].pc # "none" <=> work'[r].pc # "none"
    BY DispatchDrops
  <1>4. \A j \in Job : <<j, 1>> \in Run
    BY RetestAssumption DEF RetestAssumption, Run
  <1>5. Begun'
    BY <1>1, <1>3, <1>4 DEF RetestInv, Shapes, Begun
  <1>6. ASSUME ~blind'
        PROVE  NothingMissed'
    <2>1. NothingMissed /\ work' = work
      BY <1>1, <1>6, DispatchDrops DEF RetestInv
    <2>2. Found' /\ Held' /\ Delivered'
      BY <1>1, <2>1 DEF NothingMissed, Found, Held, Delivered, Findable
    <2>3. EndsStored' /\ FixedGone'
      BY <1>1, <2>1 DEF NothingMissed, EndsStored, FixedGone, AllStored
    <2> QED
      BY <2>2, <2>3 DEF NothingMissed
  <1> QED
    BY <1>2, <1>5, <1>6 DEF RetestInv
---------------------------------------------------------------------------
(* A step of a worker changes one run and leaves the handlers with theirs. *)
LEMMA RunShapes ==
  ASSUME RetestInv, NEW r \in Run, NEW state \in WorkState, state.pc # "none",
         work[r].pc # "none", work' = [work EXCEPT ![r] = state],
         UNCHANGED <<weak, stored, verdict, call, tick>>, blind' \in BOOLEAN
  PROVE  Shapes' /\ Begun'
  <1>1. Shapes'
    BY DEF RetestInv, Shapes
  <1>2. \A q \in Run : work[q].pc # "none" <=> work'[q].pc # "none"
    BY DEF RetestInv, Shapes
  <1>3. \A j \in Job : <<j, 1>> \in Run
    BY RetestAssumption DEF RetestAssumption, Run
  <1>4. \A c \in Call : call[c].pc # "free" => call[c].run \in Run
    BY DEF RetestInv, Shapes
  <1> QED
    BY <1>1, <1>2, <1>3, <1>4 DEF RetestInv, Begun

(* RetestScan queues the first attempts.                                   *)
LEMMA QueueStep ==
  ASSUME RetestInv, RetestScan
  PROVE  RetestInv'
  <1>1. work' = [r \in Run |-> IF r[2] = 1 THEN [work[r] EXCEPT !.pc = "queued"] ELSE work[r]]
    BY DEF RetestScan
  <1>2. work \in [Run -> WorkState] /\ Begun
    BY DEF RetestInv, Shapes
  <1>3. \A j \in Job : <<j, 1>> \in Run
    BY RetestAssumption DEF RetestAssumption, Run
  <1>4. \A r \in Run : work'[r] \in WorkState /\ (work[r].pc # "none" => work'[r].pc # "none")
    BY <1>1, <1>2 DEF WorkState
  <1>5. Shapes'
    BY <1>1, <1>4 DEF RetestInv, Shapes, RetestScan
  <1>6. Begun'
    <2>1. \A j \in Job : work'[<<j, 1>>].pc # "none"
      BY <1>1, <1>2, <1>3 DEF WorkState
    <2>2. \A c \in Call : call[c].pc # "free" => work'[call[c].run].pc # "none"
      BY <1>2, <1>4 DEF Begun, RetestInv, Shapes
    <2> QED
      BY <2>1, <2>2 DEF Begun, RetestScan
  <1>7. ~blind => NothingMissed'
    <2>1. \A r \in Run : work'[r].pc \in {"post", "repost"} \cup Reported => work'[r] = work[r]
      BY <1>1, <1>2 DEF WorkState, Reported
    <2>2. ~blind => Found' /\ Delivered' /\ Held'
      BY <2>1, <1>2 DEF RetestInv, NothingMissed, Found, Delivered, Held, Findable, RetestScan,
                        WorkState, Reported
    <2>3. ~blind => EndsStored' /\ FixedGone'
      BY DEF RetestInv, NothingMissed, EndsStored, FixedGone, AllStored, RetestScan
    <2> QED
      BY <2>2, <2>3 DEF NothingMissed
  <1> QED
    BY <1>5, <1>6, <1>7 DEF RetestInv, RetestScan

(* What the workers do.                                                    *)
LEMMA RunStep ==
  ASSUME RetestInv, NEW r \in Run, ExecuteJob(r) \/ ExecuteJobUnanswered(r) \/ WorkerStops(r)
  PROVE  RetestInv'
  <1>1. work \in [Run -> WorkState] /\ weak \subseteq Key /\ blind \in BOOLEAN
    BY DEF RetestInv, Shapes
  <1>2. CASE ExecuteJob(r)
    <2> DEFINE state == [pc |-> "post", found |-> Findable(r)]
    <2>1. state \in WorkState
      BY <1>1 DEF WorkState, Findable
    <2>2. Shapes' /\ Begun'
      BY <1>1, <1>2, <2>1, RunShapes DEF ExecuteJob
    <2>3. \A q \in Run : work'[q] = IF q = r THEN state ELSE work[q]
      BY <1>1, <1>2 DEF ExecuteJob
    <2>4. ~blind => Found' /\ Held' /\ Delivered'
      BY <1>2, <2>3 DEF RetestInv, NothingMissed, Found, Held, Delivered, Findable, ExecuteJob,
                        Reported
    <2>5. ~blind => EndsStored' /\ FixedGone'
      BY <1>2 DEF RetestInv, NothingMissed, EndsStored, FixedGone, AllStored, ExecuteJob
    <2> QED
      BY <1>2, <2>2, <2>4, <2>5 DEF RetestInv, NothingMissed, ExecuteJob
  <1>3. CASE ExecuteJobUnanswered(r)
    <2>1. PICK f \in SUBSET Findable(r) : work' = [work EXCEPT ![r] = [pc |-> "post", found |-> f]]
      BY <1>3 DEF ExecuteJobUnanswered
    <2>2. [pc |-> "post", found |-> f] \in WorkState
      BY <1>1 DEF WorkState, Findable
    <2>3. Shapes' /\ Begun' /\ blind'
      BY <1>1, <1>3, <2>1, <2>2, RunShapes DEF ExecuteJobUnanswered
    <2> QED
      BY <2>3 DEF RetestInv
  <1>4. CASE WorkerStops(r)
    <2> DEFINE state == [work[r] EXCEPT !.pc = "done"]
    <2>1. state \in WorkState /\ state.pc # "none" /\ work' = [work EXCEPT ![r] = state]
      BY <1>1, <1>4 DEF WorkerStops, WorkState, Reported
    <2>2. Shapes' /\ Begun' /\ blind'
      BY <1>4, <2>1, RunShapes DEF WorkerStops
    <2> QED
      BY <2>2 DEF RetestInv
  <1> QED
    BY <1>2, <1>3, <1>4

(* A report starts a handler, which has all that was found.                *)
LEMMA PostStep ==
  ASSUME RetestInv, NEW r \in Run, PostResults(r)
  PROVE  RetestInv'
  <1>1. /\ work \in [Run -> WorkState] /\ call \in [Call -> CallState] /\ blind \in BOOLEAN
        /\ Begun
    BY DEF RetestInv, Shapes
  <1> DEFINE c == CHOOSE d \in Call : call[d].pc = "free"
             new == [pc |-> IF work[r].pc = "repost" THEN "retry" ELSE "store", run |-> r,
                     todo |-> work[r].found, key |-> NoKey, attached |-> TRUE]
             pc == IF work[r].pc = "post" THEN "posted" ELSE "reposted"
  <1>2. c \in Call /\ call[c].pc = "free"
    BY DEF PostResults
  <1>3. call' = [call EXCEPT ![c] = new]
    BY DEF PostResults
  <1>4. work' = [work EXCEPT ![r].pc = pc]
    BY <1>1 DEF PostResults
  <1>5. work[r].pc \in {"post", "repost"} /\ UNCHANGED <<weak, stored, verdict, scan, tick, blind>>
    BY DEF PostResults
  <1> HIDE DEF c
  <1>6. \A d \in Call : call'[d] = IF d = c THEN new ELSE call[d]
    BY <1>1, <1>2, <1>3
  <1>7. \A q \in Run : /\ work'[q].found = work[q].found
                      /\ work'[q].pc = IF q = r THEN pc ELSE work[q].pc
    BY <1>1, <1>4 DEF WorkState
  <1>8. new \in CallState
    BY <1>1 DEF CallState, WorkState, Storing
  <1>9. Shapes'
    <2>1. call' \in [Call -> CallState] /\ work' \in [Run -> WorkState]
      BY <1>1, <1>3, <1>4, <1>8 DEF WorkState, Reported
    <2> QED
      BY <1>5, <1>6, <2>1 DEF RetestInv, Shapes
  <1>10. Begun'
    <2>1. \A j \in Job : <<j, 1>> \in Run
      BY RetestAssumption DEF RetestAssumption, Run
    <2>2. \A d \in Call : call[d].pc # "free" => call[d].run \in Run
      BY DEF RetestInv, Shapes
    <2> QED
      BY <1>1, <1>2, <1>5, <1>6, <1>7, <2>1, <2>2 DEF Begun
  <1>11. ASSUME ~blind
         PROVE  NothingMissed'
    <2>1. NothingMissed
      BY <1>11 DEF RetestInv
    <2>2. Found'
      BY <1>5, <1>7, <2>1 DEF NothingMissed, Found, Findable
    <2>3. Held'
      BY <1>2, <1>5, <1>6, <2>1 DEF NothingMissed, Held, Found, Findable
    <2>4. Delivered'
      <3>1. \A q \in Run \ {r} : work'[q].pc = work[q].pc
        BY <1>7
      <3>2. new.pc \in Storing /\ new.run = r
        BY DEF Storing
      <3>3. \A d \in Call : call[d].pc \in Storing => d # c
        BY <1>2 DEF Storing
      <3> QED
        BY <1>2, <1>5, <1>6, <2>1, <3>1, <3>2, <3>3 DEF NothingMissed, Delivered, Findable
    <2>5. EndsStored' /\ FixedGone'
      BY <1>5, <1>6, <2>1 DEF NothingMissed, EndsStored, FixedGone, AllStored
    <2> QED
      BY <2>2, <2>3, <2>4, <2>5 DEF NothingMissed
  <1> QED
    BY <1>5, <1>9, <1>10, <1>11 DEF RetestInv

(* One that is lost leaves its handlers, if there are any, to themselves.  *)
LEMMA LostStep ==
  ASSUME RetestInv, NEW r \in Run, PostLost(r)
  PROVE  RetestInv'
  <1>1. /\ work \in [Run -> WorkState] /\ call \in [Call -> CallState] /\ blind \in BOOLEAN
        /\ Begun
    BY DEF RetestInv, Shapes
  <1> DEFINE pc == IF work[r].pc \in {"post", "posted"} THEN "repost" ELSE "done"
  <1>2. work' = [work EXCEPT ![r].pc = pc]
    BY <1>1 DEF PostLost
  <1>3. \A q \in Run : /\ work'[q].found = work[q].found
                      /\ work'[q].pc = IF q = r THEN pc ELSE work[q].pc
    BY <1>1, <1>2 DEF WorkState
  <1>4. \A d \in Call : /\ call'[d] \in CallState
                       /\ call'[d].pc = call[d].pc /\ call'[d].run = call[d].run
                       /\ call'[d].todo = call[d].todo
    BY <1>1 DEF PostLost, CallState
  <1>5. /\ UNCHANGED <<weak, stored, verdict, scan, tick>>
        /\ blind' = (blind \/ work[r].pc = "repost")
        /\ work[r].pc \in {"post", "posted", "repost", "reposted"}
    BY DEF PostLost
  <1>6. Shapes'
    <2>1. call' \in [Call -> CallState] /\ work' \in [Run -> WorkState]
      BY <1>1, <1>2, <1>4 DEF PostLost, WorkState, Reported
    <2> QED
      BY <1>4, <1>5, <2>1 DEF RetestInv, Shapes
  <1>7. Begun'
    <2>1. \A j \in Job : <<j, 1>> \in Run
      BY RetestAssumption DEF RetestAssumption, Run
    <2>2. \A d \in Call : call[d].pc # "free" => call[d].run \in Run
      BY DEF RetestInv, Shapes
    <2> QED
      BY <1>1, <1>3, <1>4, <1>5, <2>1, <2>2 DEF Begun
  <1>8. ASSUME ~blind'
        PROVE  NothingMissed'
    <2>1. NothingMissed
      BY <1>5, <1>8 DEF RetestInv
    <2>2. Held'
      BY <1>4, <1>5, <2>1 DEF NothingMissed, Held, Findable
    <2>3. Delivered'
      <3>1. ~(work[r].pc = "repost")
        BY <1>5, <1>8
      <3>2. \A q \in Run : work'[q].pc \in Reported => work[q].pc \in Reported
        BY <1>3, <1>5, <3>1 DEF Reported
      <3> QED
        BY <1>4, <1>5, <2>1, <3>2 DEF NothingMissed, Delivered, Findable
    <2>4. EndsStored' /\ FixedGone'
      BY <1>4, <1>5, <2>1 DEF NothingMissed, EndsStored, FixedGone, AllStored
    <2>5. Found'
      BY <1>3, <1>5, <1>8, <2>1 DEF NothingMissed, Found, Findable
    <2> QED
      BY <2>2, <2>3, <2>4, <2>5 DEF NothingMissed
  <1> QED
    BY <1>6, <1>7, <1>8 DEF RetestInv

---------------------------------------------------------------------------
(* A step of a handler that leaves the workers, the scan and the page      *)
(* alone: it keeps what the handler still has to store.                    *)
LEMMA CallFrame ==
  ASSUME RetestInv, NEW c \in Call, NEW new \in CallState,
         call[c].pc # "free", call' = [call EXCEPT ![c] = new], new.run = call[c].run,
         new.pc \in Storing \/ new.todo = {}, new.pc # "free",
         UNCHANGED <<weak, verdict, scan, work, tick>>,
         stored' \in [Key -> Nat], \A k \in Key : stored[k] > 0 => stored'[k] > 0,
         blind' \in BOOLEAN, blind => blind',
         ~blind' => /\ \A k \in call[c].todo : k \in weak => k \in new.todo \/ stored'[k] > 0
                    /\ new.pc = "finish" => AllStored'
  PROVE  RetestInv'
  <1>1. /\ call \in [Call -> CallState] /\ weak \subseteq Key /\ Begun
        /\ call[c].run \in Run
    BY DEF RetestInv, Shapes
  <1>2. \A d \in Call : call'[d] = IF d = c THEN new ELSE call[d]
    BY <1>1
  <1>3. Shapes'
    <2>1. call' \in [Call -> CallState]
      BY <1>1
    <2>2. \A d \in Call : call'[d].pc # "free" => call'[d].run \in Run
      BY <1>1, <1>2 DEF RetestInv, Shapes
    <2>3. \A d \in Call : call'[d].pc \in {"finish", "reply"} => call'[d].todo = {}
      BY <1>2 DEF RetestInv, Shapes, Storing
    <2> QED
      BY <2>1, <2>2, <2>3 DEF RetestInv, Shapes
  <1>4. Begun'
    BY <1>1, <1>2 DEF Begun
  <1>5. ASSUME ~blind'
        PROVE  NothingMissed'
    <2>1. NothingMissed
      BY <1>5 DEF RetestInv
    <2>2. \A k \in weak : stored[k] > 0 => stored'[k] > 0
      BY <1>1
    <2>3. \A k \in Findable(call[c].run) : k \in new.todo \/ stored'[k] > 0
      BY <1>5, <2>1, <2>2 DEF NothingMissed, Held, Findable
    <2>4. Found' /\ FixedGone'
      BY <2>1 DEF NothingMissed, Found, Findable, FixedGone
    <2>5. Held'
      BY <1>2, <2>1, <2>2, <2>3 DEF NothingMissed, Held, Findable
    <2>6. Delivered'
      <3> SUFFICES ASSUME NEW r \in Run, work[r].pc \in Reported,
                          ~(\A k \in Findable(r) : stored'[k] > 0)
                   PROVE  \E d \in Call : call'[d].pc \in Storing /\ call'[d].run = r
        BY DEF Delivered, Findable
      <3>1. PICK d \in Call : call[d].pc \in Storing /\ call[d].run = r
        BY <2>1, <2>2 DEF NothingMissed, Delivered, Findable
      <3>2. CASE d # c
        BY <1>2, <3>1, <3>2
      <3>3. CASE d = c
        <4>1. new.todo # {}
          BY <2>3, <3>1, <3>3
        <4> QED
          BY <1>2, <3>1, <3>3, <4>1
      <3> QED
        BY <3>2, <3>3
    <2>7. EndsStored'
      BY <1>2, <1>5, <2>1, <2>2 DEF NothingMissed, EndsStored, AllStored
    <2> QED
      BY <2>4, <2>5, <2>6, <2>7 DEF NothingMissed
  <1> QED
    BY <1>3, <1>4, <1>5 DEF RetestInv

(* Looking a finding up and inserting it.                                  *)
LEMMA StoreStep ==
  ASSUME RetestInv, NEW c \in Call,
         \/ FindingExists(c) \/ FindingExistsFails(c) \/ InsertFinding(c) \/ InsertFindingFails(c)
         \/ MarkCompletedFails(c)
  PROVE  RetestInv'
  <1>1. /\ call \in [Call -> CallState] /\ stored \in [Key -> Nat] /\ weak \subseteq Key
        /\ blind \in BOOLEAN
    BY DEF RetestInv, Shapes
  <1>2. call[c] \in CallState
    BY <1>1
  <1>3. CASE FindingExists(c) \/ FindingExistsFails(c)
    <2>1. PICK k \in call[c].todo :
            \/ stored[k] > 0 /\ call' = [call EXCEPT ![c].todo = @ \ {k}]
            \/ call' = [call EXCEPT ![c].pc = "insert", ![c].key = k]
      BY <1>3 DEF FindingExists, FindingExistsFails
    <2> DEFINE less == [call[c] EXCEPT !.todo = call[c].todo \ {k}]
               pick == [call[c] EXCEPT !.pc = "insert", !.key = k]
    <2>2. /\ call[c].pc = "store"
          /\ UNCHANGED <<weak, stored, verdict, scan, work, tick, blind>>
      BY <1>3 DEF FindingExists, FindingExistsFails
    <2>3. CASE stored[k] > 0 /\ call' = [call EXCEPT ![c] = less]
      <3>1. /\ less \in CallState /\ less.run = call[c].run /\ less.pc = "store"
            /\ less.todo = call[c].todo \ {k}
        BY <1>2, <2>2 DEF CallState
      <3> QED
        BY <1>1, <2>2, <2>3, <3>1, CallFrame DEF Storing
    <2>4. CASE call' = [call EXCEPT ![c] = pick]
      <3>1. /\ pick \in CallState /\ pick.run = call[c].run /\ pick.pc = "insert"
            /\ pick.todo = call[c].todo
        BY <1>2, <2>2 DEF CallState, Storing
      <3> QED
        BY <1>1, <2>2, <2>4, <3>1, CallFrame DEF Storing
    <2>5. \/ stored[k] > 0 /\ call' = [call EXCEPT ![c] = less]
          \/ call' = [call EXCEPT ![c] = pick]
      BY <1>1, <2>1
    <2> QED
      BY <2>3, <2>4, <2>5
  <1>4. CASE InsertFinding(c) \/ InsertFindingFails(c)
    <2> DEFINE new == [call[c] EXCEPT !.pc = "store", !.todo = @ \ {call[c].key}, !.key = NoKey]
    <2>1. call[c].pc = "insert" /\ call' = [call EXCEPT ![c] = new]
      BY <1>1, <1>4 DEF InsertFinding, InsertFindingFails, Stored
    <2>2. /\ new \in CallState /\ new.run = call[c].run /\ new.pc = "store"
          /\ new.todo = call[c].todo \ {call[c].key}
      BY <1>2 DEF CallState, Storing
    <2>3. /\ stored' \in [Key -> Nat]
          /\ \A k \in Key : stored[k] > 0 => stored'[k] > 0
          /\ ~blind' => \A k \in Key : k = call[c].key => stored'[k] > 0
      BY <1>1, <1>4 DEF InsertFinding, InsertFindingFails
    <2>4. UNCHANGED <<weak, verdict, scan, work, tick>> /\ blind' \in BOOLEAN /\ (blind => blind')
      BY <1>1, <1>4 DEF InsertFinding, InsertFindingFails
    <2> HIDE DEF new
    <2> QED
      BY <1>1, <2>1, <2>2, <2>3, <2>4, CallFrame DEF Storing
  <1>5. CASE MarkCompletedFails(c)
    <2> DEFINE new == [call[c] EXCEPT !.pc = "reply"]
    <2>1. call[c].pc = "finish" /\ call' = [call EXCEPT ![c] = new]
      BY <1>1, <1>5 DEF MarkCompletedFails
    <2>2. /\ new \in CallState /\ new.run = call[c].run /\ new.pc = "reply"
          /\ new.todo = call[c].todo /\ call[c].todo = {}
      BY <1>2, <2>1 DEF CallState, RetestInv, Shapes
    <2> HIDE DEF new
    <2> QED
      BY <1>1, <1>5, <2>1, <2>2, CallFrame DEF MarkCompletedFails
  <1> QED
    BY <1>3, <1>4, <1>5

(* The report that ends the scan.  With no other one outstanding, every    *)
(* job's first attempt has reported and left its findings in the table.    *)
LEMMA DecrStep ==
  ASSUME RetestInv, NEW c \in Call, DecrActiveScanJobs(c)
  PROVE  RetestInv'
  <1>1. /\ call \in [Call -> CallState] /\ stored \in [Key -> Nat] /\ weak \subseteq Key
        /\ work \in [Run -> WorkState] /\ blind \in BOOLEAN /\ Begun /\ call[c].pc = "store"
        /\ call[c].todo = {}
    BY DEF RetestInv, Shapes, DecrActiveScanJobs, DecrReady
  <1>2. PICK remaining \in {active - 1, 0} :
          /\ call' = [call EXCEPT ![c].pc = IF remaining <= 0 THEN "finish" ELSE "reply"]
          /\ blind' = (blind \/ (remaining <= 0 /\ \E r \in Run \ {call[c].run} : Outstanding(r)))
    BY DEF DecrActiveScanJobs
  <1>3. UNCHANGED <<weak, stored, verdict, scan, work, tick>>
    BY DEF DecrActiveScanJobs
  <1> DEFINE new == [call[c] EXCEPT !.pc = IF remaining <= 0 THEN "finish" ELSE "reply"]
  <1>4. call[c] \in CallState
    BY <1>1
  <1>5. /\ new \in CallState /\ new.run = call[c].run /\ new.pc \in {"finish", "reply"}
        /\ new.todo = {} /\ (new.pc = "finish" => remaining <= 0)
    BY <1>1, <1>4 DEF CallState
  <1>6. call' = [call EXCEPT ![c] = new]
    BY <1>1, <1>2
  <1>7. ASSUME ~blind', remaining <= 0, NEW k \in weak
        PROVE  stored[k] > 0
    <2>1. NothingMissed /\ \A r \in Run \ {call[c].run} : ~Outstanding(r)
      BY <1>2, <1>7 DEF RetestInv
    <2> DEFINE r == <<JobOf[k], 1>>
    <2>2. r \in Run /\ k \in Findable(r) /\ JobOf[k] \in Job
      BY <1>1, <1>7, RetestAssumption DEF RetestAssumption, Run, Findable
    <2>3. call[c].run \in Run
      BY <1>1 DEF RetestInv, Shapes
    <2>4. work[r].pc # "none"
      BY <1>1, <2>2, <2>3 DEF Begun
    <2> HIDE DEF r
    <2>5. CASE r = call[c].run
      BY <1>1, <2>1, <2>2, <2>5 DEF NothingMissed, Held
    <2>6. CASE r # call[c].run
      <3>1. ~Outstanding(r)
        BY <2>1, <2>2, <2>6
      <3>2. work[r].pc \in Reported
        BY <1>1, <2>2, <2>4, <3>1 DEF Outstanding, WorkState
      <3> QED
        BY <2>1, <2>2, <3>1, <3>2 DEF NothingMissed, Delivered, Outstanding, Storing
    <2> QED
      BY <2>5, <2>6
  <1>8. ~blind' => (new.pc = "finish" => AllStored')
    BY <1>3, <1>5, <1>7 DEF AllStored
  <1>9. blind' \in BOOLEAN /\ (blind => blind')
    BY <1>1, <1>2
  <1> HIDE DEF new
  <1> QED
    BY <1>1, <1>3, <1>5, <1>6, <1>8, <1>9, CallFrame

(* A failed job's next attempt is queued; its findings are still to store. *)
LEMMA RetryStep ==
  ASSUME RetestInv, NEW c \in Call, HandleRetry(c)
  PROVE  RetestInv'
  <1>1. /\ call \in [Call -> CallState] /\ work \in [Run -> WorkState] /\ Begun
        /\ call[c].run \in Run /\ call[c].pc = "retry"
    BY DEF RetestInv, Shapes, HandleRetry
  <1> DEFINE next == <<call[c].run[1], call[c].run[2] + 1>>
  <1>2. /\ call' = [call EXCEPT ![c].pc = "store"]
        /\ UNCHANGED <<weak, stored, verdict, scan, tick, blind>>
    BY DEF HandleRetry
  <1>3. \/ call[c].run[2] < MaxRuns /\ work' = [work EXCEPT ![next].pc = "queued"]
        \/ work' = work
    BY DEF HandleRetry
  <1>4. call[c].run[2] < MaxRuns => next \in Run
    BY <1>1, RetestAssumption DEF RetestAssumption, Run
  <1> HIDE DEF next
  <1>5. work' \in [Run -> WorkState]
    BY <1>1, <1>3, <1>4 DEF WorkState
  <1>6. \A r \in Run : work'[r] # work[r] => work'[r].pc = "queued"
    BY <1>1, <1>3, <1>4 DEF WorkState
  <1>7. \A d \in Call : /\ call'[d] \in CallState /\ call'[d].run = call[d].run
                       /\ call'[d].todo = call[d].todo
                       /\ call'[d].pc = IF d = c THEN "store" ELSE call[d].pc
    BY <1>1, <1>2 DEF CallState, Storing
  <1>8. Shapes'
    <2>1. call' \in [Call -> CallState]
      BY <1>1, <1>2, <1>7
    <2>2. \A d \in Call : call'[d].pc # "free" => call'[d].run \in Run
      BY <1>1, <1>7 DEF RetestInv, Shapes
    <2>3. \A d \in Call : call'[d].pc \in {"finish", "reply"} => call'[d].todo = {}
      BY <1>7 DEF RetestInv, Shapes
    <2> QED
      BY <1>2, <1>5, <2>1, <2>2, <2>3 DEF RetestInv, Shapes
  <1>9. Begun'
    <2>1. \A j \in Job : <<j, 1>> \in Run
      BY RetestAssumption DEF RetestAssumption, Run
    <2>2. \A j \in Job : work[<<j, 1>>].pc # "none"
      BY <1>1 DEF Begun
    <2>3. \A r \in Run : work[r].pc # "none" => work'[r].pc # "none"
      BY <1>6
    <2>4. \A d \in Call : call[d].pc # "free" => call[d].run \in Run
      BY DEF RetestInv, Shapes
    <2> QED
      BY <1>1, <1>7, <2>1, <2>2, <2>3, <2>4 DEF Begun
  <1>10. ASSUME ~blind
         PROVE  NothingMissed'
    <2>1. NothingMissed
      BY <1>10 DEF RetestInv
    <2>2. Found'
      BY <1>2, <1>6, <2>1 DEF NothingMissed, Found, Findable
    <2>3. Held'
      BY <1>1, <1>2, <1>7, <2>1 DEF NothingMissed, Held, Findable
    <2>4. Delivered'
      <3>1. \A r \in Run : work'[r].pc \in Reported => work[r].pc \in Reported
        BY <1>6 DEF Reported
      <3>2. \A d \in Call : call[d].pc \in Storing => call'[d].pc \in Storing
        BY <1>7 DEF Storing
      <3> QED
        BY <1>2, <1>7, <2>1, <3>1, <3>2 DEF NothingMissed, Delivered, Findable
    <2>5. EndsStored' /\ FixedGone'
      BY <1>2, <1>7, <2>1 DEF NothingMissed, EndsStored, FixedGone, AllStored
    <2> QED
      BY <2>2, <2>3, <2>4, <2>5 DEF NothingMissed
  <1> QED
    BY <1>2, <1>8, <1>9, <1>10 DEF RetestInv

(* A handler ends: it has stored its findings, or something is missed.     *)
LEMMA EndStep ==
  ASSUME RetestInv, NEW c \in Call, Reply(c) \/ CallAbort(c)
  PROVE  RetestInv'
  <1>1. /\ call \in [Call -> CallState] /\ work \in [Run -> WorkState] /\ Begun
        /\ call[c].run \in Run /\ call[c].pc # "free" /\ weak \subseteq Key
        /\ blind \in BOOLEAN
    BY DEF RetestInv, Shapes, Reply, CallAbort
  <1>2. call' = [call EXCEPT ![c] = FreeCall] /\ UNCHANGED <<weak, stored, verdict, scan, tick>>
    BY DEF Reply, CallAbort
  <1>3. \A d \in Call : call'[d] = IF d = c THEN FreeCall ELSE call[d]
    BY <1>1, <1>2
  <1>4. \/ call[c].todo = {} /\ blind' = blind
        \/ blind'
    BY DEF Reply, CallAbort, RetestInv, Shapes
  <1>5. \/ work' = work
        \/ work' = [work EXCEPT ![call[c].run].pc = "done"]
    BY DEF Reply, CallAbort
  <1>6. /\ work' \in [Run -> WorkState]
        /\ \A r \in Run : /\ work'[r] = work[r] \/ (work'[r].pc = "done" /\ r = call[c].run)
                          /\ work[r].pc # "none" => work'[r].pc # "none"
                          /\ work'[r].pc # "none" => work[r].pc # "none"
    <2>1. work[call[c].run].pc # "none"
      BY <1>1 DEF Begun
    <2> QED
      BY <1>1, <1>5, <2>1 DEF WorkState, Reported
  <1>7. Shapes'
    <2>1. FreeCall \in CallState /\ FreeCall.pc = "free"
      BY DEF FreeCall, CallState
    <2>2. call' \in [Call -> CallState]
      BY <1>1, <1>2, <2>1
    <2>3. blind' \in BOOLEAN
      BY <1>1 DEF Reply, CallAbort
    <2>4. \A d \in Call : call'[d].pc # "free" => call'[d].run \in Run
      BY <1>3, <2>1 DEF RetestInv, Shapes
    <2>5. \A d \in Call : call'[d].pc \in {"finish", "reply"} => call'[d].todo = {}
      BY <1>3, <2>1 DEF RetestInv, Shapes
    <2> QED
      BY <1>2, <1>6, <2>2, <2>3, <2>4, <2>5 DEF RetestInv, Shapes
  <1>8. Begun'
    <2>1. \A j \in Job : <<j, 1>> \in Run
      BY RetestAssumption DEF RetestAssumption, Run
    <2>2. \A d \in Call : call[d].pc # "free" => call[d].run \in Run
      BY DEF RetestInv, Shapes
    <2> QED
      BY <1>1, <1>3, <1>6, <2>1, <2>2 DEF Begun, FreeCall
  <1>9. ASSUME ~blind'
        PROVE  NothingMissed'
    <2>1. NothingMissed /\ call[c].todo = {}
      BY <1>4, <1>9 DEF RetestInv
    <2>2. \A k \in Findable(call[c].run) : stored[k] > 0
      BY <1>1, <2>1 DEF NothingMissed, Held
    <2>3. Found'
      BY <1>2, <1>6, <2>1 DEF NothingMissed, Found, Findable
    <2>4. Held'
      BY <1>2, <1>3, <2>1 DEF NothingMissed, Held, Findable, FreeCall
    <2>5. Delivered'
      <3> SUFFICES ASSUME NEW r \in Run, work'[r].pc \in Reported, r # call[c].run
                   PROVE  \/ \A k \in Findable(r) : stored[k] > 0
                          \/ \E d \in Call : call'[d].pc \in Storing /\ call'[d].run = r
        BY <1>2, <2>2 DEF Delivered, Findable
      <3>1. work[r].pc \in Reported
        BY <1>6
      <3>2. CASE \A k \in Findable(r) : stored[k] > 0
        BY <3>2
      <3>3. CASE \E d \in Call : call[d].pc \in Storing /\ call[d].run = r
        BY <1>3, <3>3
      <3> QED
        BY <2>1, <3>1, <3>2, <3>3 DEF NothingMissed, Delivered
    <2>6. EndsStored' /\ FixedGone'
      BY <1>2, <1>3, <2>1 DEF NothingMissed, EndsStored, FixedGone, AllStored, FreeCall
    <2> QED
      BY <2>3, <2>4, <2>5, <2>6 DEF NothingMissed
  <1> QED
    BY <1>7, <1>8, <1>9 DEF RetestInv

(* The scan is completed: by a report that has found everything stored.    *)
LEMMA CompleteStep ==
  ASSUME RetestInv, NEW c \in Call, MarkCompleted(c)
  PROVE  RetestInv'
  <1>1. /\ call \in [Call -> CallState] /\ call[c].pc = "finish" /\ call[c].run \in Run
        /\ call[c].todo = {} /\ Begun
    BY DEF RetestInv, Shapes, MarkCompleted
  <1>2. /\ call' = [call EXCEPT ![c].pc = "reply"] /\ scan' = "completed"
        /\ UNCHANGED <<weak, stored, verdict, work, tick, blind>>
    BY DEF MarkCompleted
  <1>3. \A d \in Call : /\ call'[d] \in CallState /\ call'[d].run = call[d].run
                       /\ call'[d].todo = call[d].todo
                       /\ call'[d].pc = IF d = c THEN "reply" ELSE call[d].pc
    BY <1>1, <1>2 DEF CallState
  <1>4. Shapes' /\ Begun'
    <2>1. call' \in [Call -> CallState]
      BY <1>1, <1>2, <1>3
    <2>2. \A d \in Call : call'[d].pc # "free" => call'[d].run \in Run
      BY <1>1, <1>3 DEF RetestInv, Shapes
    <2>3. \A d \in Call : call'[d].pc \in {"finish", "reply"} => call'[d].todo = {}
      BY <1>1, <1>3 DEF RetestInv, Shapes
    <2> QED
      BY <1>1, <1>2, <1>3, <2>1, <2>2, <2>3 DEF RetestInv, Shapes, Begun
  <1>5. ASSUME ~blind
        PROVE  NothingMissed'
    <2>1. NothingMissed /\ AllStored
      BY <1>1, <1>5 DEF RetestInv, NothingMissed, EndsStored
    <2>2. Found' /\ Held' /\ FixedGone'
      BY <1>1, <1>2, <1>3, <2>1 DEF NothingMissed, Found, Held, FixedGone, Findable
    <2>3. Delivered'
      BY <1>1, <1>2, <2>1 DEF NothingMissed, Delivered, AllStored, Findable
    <2>4. EndsStored'
      BY <1>2, <1>3, <2>1 DEF NothingMissed, EndsStored, AllStored
    <2> QED
      BY <2>2, <2>3, <2>4 DEF NothingMissed
  <1> QED
    BY <1>2, <1>4, <1>5 DEF RetestInv

---------------------------------------------------------------------------
(* Every step keeps the invariant.                                         *)
LEMMA RetestInvStep ==
  ASSUME RetestInv, [RetestNext]_retestVars
  PROVE  RetestInv'
  <1>1. CASE RetestScan \/ RetestScanFails \/ DispatchCounts \/ DispatchFails
    BY <1>1, QueueStep, ScanStep, DispatchFailsStep
  <1>2. ASSUME NEW r \in Run, RetestWork(r)
        PROVE  RetestInv'
    BY <1>2, RunStep, PostStep, LostStep DEF RetestWork
  <1>3. ASSUME NEW c \in Call, RetestCall(c)
        PROVE  RetestInv'
    BY <1>3, RetryStep, StoreStep, DecrStep, CompleteStep, EndStep DEF RetestCall
  <1>4. ASSUME NEW t \in Tick,
               \/ TimerTicks(t) \/ Poll(t) \/ ReconcileFails(t) \/ ListFindingsFails(t)
               \/ ReconciledLost(t)
        PROVE  RetestInv'
    BY <1>4, PageStep
  <1>5. CASE UNCHANGED retestVars
    <2>1. tick \in [Tick -> TickState] /\ blind \in BOOLEAN
          /\ verdict \in [Key -> {"open", "fixed"}]
      BY DEF RetestInv, Shapes
    <2>2. ~blind => EndsStored' /\ FixedGone'
      BY <1>5 DEF RetestInv, NothingMissed, EndsStored, FixedGone, AllStored, retestVars
    <2> QED
      BY <1>5, <2>1, <2>2, PageFrame DEF retestVars
  <1> QED
    BY <1>1, <1>2, <1>3, <1>4, <1>5 DEF RetestNext

(* What the comparison marks fixed is gone from the host, for any number   *)
(* of findings, jobs, attempts, concurrent reports, ticks and faults:      *)
(* ReconcileRetest, as long as nothing of the retest was missed.           *)
THEOREM FixedStaysGone == RetestSpec => []FixedIsGone
  <1>1. RetestInv => FixedIsGone
    BY DEF RetestInv, NothingMissed, FixedGone, FixedIsGone
  <1> QED
    BY InvInit, RetestInvStep, <1>1, PTL DEF RetestSpec

-----------------------------------------------------------------------------
(***************************************************************************)
(* HandledStored for any findings, jobs, attempts, reports and faults.     *)
(* What a handler has to store is what its run has found, so that must not *)
(* change under it: a run begins once.  It does, because a retry is queued *)
(* by the one report of the attempt before that says it has failed.        *)
(***************************************************************************)

RetryOf(r) == <<r[1], r[2] + 1>>

(* The report that may queue the next attempt is still to be handled.      *)
Unretried(r) ==
  \/ work[r].pc \notin {"reposted", "done"}
  \/ \E c \in Call : call[c].pc = "retry" /\ call[c].run = r

Onward == \A r \in Run : RetryOf(r) \in Run /\ Unretried(r) => work[RetryOf(r)].pc = "none"

(* A run has been posted before it is handled, and is retried by one       *)
(* handler at most.                                                        *)
Handlers ==
  \A c \in Call : call[c].pc # "free" =>
    /\ work[call[c].run].pc \in Reported \cup {"repost"}
    /\ call[c].pc = "retry" =>
         /\ work[call[c].run].pc \in {"reposted", "done"}
         /\ \A d \in Call : call[d].pc = "retry" /\ call[d].run = call[c].run => c = d

HandlersStore ==
  \A c \in Call : call[c].pc # "free" =>
    \A k \in work[call[c].run].found : k \in call[c].todo \/ stored[k] > 0 \/ k \in missed

Unbegun == scan = "none" => \A r \in Run : work[r].pc = "none"

StoredInv == RetestInv /\ Onward /\ Handlers /\ HandlersStore /\ Unbegun

---------------------------------------------------------------------------
(* Initially nothing has been run.                                         *)
LEMMA StoredInvInit ==
  ASSUME RetestInit
  PROVE  StoredInv
  <1>1. RetestInv
    BY InvInit
  <1>2. Onward /\ Handlers /\ HandlersStore /\ Unbegun
    BY DEF RetestInit, Onward, Handlers, HandlersStore, Unbegun, FreeCall
  <1> QED
    BY <1>1, <1>2 DEF StoredInv

(* The steps of the page, and those of the scan but its start.             *)
LEMMA QuietStep ==
  ASSUME StoredInv, RetestInv', UNCHANGED <<stored, work, call, missed>>,
         scan' = "none" => scan = "none"
  PROVE  StoredInv'
  BY DEF StoredInv, Onward, Unretried, Handlers, HandlersStore, Unbegun

(* RetestScan finds that nothing has been run.                             *)
LEMMA BeginStored ==
  ASSUME StoredInv, RetestInv', RetestScan
  PROVE  StoredInv'
  <1>1. /\ scan = "none" /\ scan' = "running" /\ call' = call
        /\ work' = [r \in Run |-> IF r[2] = 1 THEN [work[r] EXCEPT !.pc = "queued"] ELSE work[r]]
    BY DEF RetestScan
  <1>2. \A r \in Run : work[r].pc = "none"
    BY <1>1 DEF StoredInv, Unbegun
  <1>3. \A c \in Call : call[c].pc = "free"
    BY <1>2 DEF StoredInv, RetestInv, Begun, Shapes
  <1>4. \A r \in Run : RetryOf(r) \in Run => work'[RetryOf(r)].pc = "none"
    <2> SUFFICES ASSUME NEW r \in Run, RetryOf(r) \in Run
                 PROVE  work'[RetryOf(r)].pc = "none"
      OBVIOUS
    <2>1. RetryOf(r)[2] # 1
      BY RetestAssumption DEF RetestAssumption, Run, RetryOf
    <2> QED
      BY <1>1, <1>2, <2>1
  <1> QED
    BY <1>1, <1>3, <1>4 DEF StoredInv, Onward, Handlers, HandlersStore, Unbegun

(* A run that the dispatch drops has no handler and no next run.           *)
LEMMA DropStored ==
  ASSUME StoredInv, RetestInv', DispatchFails
  PROVE  StoredInv'
  <1>1. /\ UNCHANGED <<stored, call, missed>> /\ scan' = "failed" /\ RetestInv
        /\ \A c \in Call : call[c].pc # "free" => call[c].run \in Run
    BY DEF StoredInv, DispatchFails, RetestInv, Shapes
  <1>2. \A r \in Run : /\ work'[r].found = work[r].found
                       /\ \/ work'[r] = work[r]
                          \/ work[r].pc = "queued" /\ work'[r].pc = "done"
    BY <1>1, DispatchDrops
  <1>3. Onward'
    <2> SUFFICES ASSUME NEW q \in Run, RetryOf(q) \in Run, Unretried(q)'
                 PROVE  work'[RetryOf(q)].pc = "none"
      BY DEF Onward
    <2>1. Unretried(q)
      BY <1>1, <1>2 DEF Unretried
    <2>2. work[RetryOf(q)].pc = "none"
      BY <2>1 DEF StoredInv, Onward
    <2> QED
      BY <1>2, <2>2
  <1>4. Handlers'
    BY <1>1, <1>2 DEF StoredInv, Handlers, Reported
  <1>5. HandlersStore'
    BY <1>1, <1>2 DEF StoredInv, HandlersStore
  <1>6. Unbegun'
    BY <1>1 DEF Unbegun
  <1> QED
    BY <1>3, <1>4, <1>5, <1>6 DEF StoredInv

(* No run is its own next one.                                             *)
LEMMA NextRun ==
  ASSUME NEW r \in Run
  PROVE  RetryOf(r) # r /\ \A q \in Run : RetryOf(q) = RetryOf(r) => q = r
  BY RetestAssumption DEF RetestAssumption, Run, RetryOf

(* The steps of a worker before it posts: no handler has its run yet.      *)
LEMMA RunStored ==
  ASSUME StoredInv, RetestInv', NEW r \in Run,
         ExecuteJob(r) \/ ExecuteJobUnanswered(r) \/ WorkerStops(r)
  PROVE  StoredInv'
  <1>1. work \in [Run -> WorkState] /\ \A c \in Call : call[c].pc # "free" => call[c].run \in Run
    BY DEF StoredInv, RetestInv, Shapes
  <1>2. /\ work[r].pc \in {"queued", "post"} /\ UNCHANGED <<stored, call, missed, scan>>
        /\ \E state : work' = [work EXCEPT ![r] = state]
    BY DEF ExecuteJob, ExecuteJobUnanswered, WorkerStops
  <1>3. \A q \in Run : q # r => work'[q] = work[q]
    BY <1>1, <1>2
  <1>4. \A c \in Call : call[c].pc # "free" => call[c].run # r
    BY <1>2 DEF StoredInv, Handlers, Reported
  <1>5. Onward'
    <2> SUFFICES ASSUME NEW q \in Run, RetryOf(q) \in Run, Unretried(q)'
                 PROVE  work'[RetryOf(q)].pc = "none"
      BY DEF Onward
    <2>1. Unretried(q)
      BY <1>2, <1>3 DEF Unretried
    <2>2. work[RetryOf(q)].pc = "none"
      BY <2>1 DEF StoredInv, Onward
    <2> QED
      BY <1>2, <1>3, <2>2
  <1>6. Handlers' /\ HandlersStore'
    BY <1>1, <1>2, <1>3, <1>4 DEF StoredInv, Handlers, HandlersStore
  <1>7. Unbegun'
    BY <1>2 DEF StoredInv, Unbegun
  <1> QED
    BY <1>5, <1>6, <1>7 DEF StoredInv

(* A new handler has all that was found; it is the first to retry its run. *)
LEMMA PostStored ==
  ASSUME StoredInv, RetestInv', NEW r \in Run, PostResults(r)
  PROVE  StoredInv'
  <1>1. /\ work \in [Run -> WorkState] /\ call \in [Call -> CallState]
        /\ \A d \in Call : call[d].pc # "free" => call[d].run \in Run
    BY DEF StoredInv, RetestInv, Shapes
  <1> DEFINE c == CHOOSE d \in Call : call[d].pc = "free"
             new == [pc |-> IF work[r].pc = "repost" THEN "retry" ELSE "store", run |-> r,
                     todo |-> work[r].found, key |-> NoKey, attached |-> TRUE]
             pc == IF work[r].pc = "post" THEN "posted" ELSE "reposted"
  <1>2. /\ c \in Call /\ call[c].pc = "free" /\ call' = [call EXCEPT ![c] = new]
        /\ work[r].pc \in {"post", "repost"} /\ UNCHANGED <<stored, scan, missed>>
    BY DEF PostResults
  <1>3. work' = [work EXCEPT ![r].pc = pc]
    BY <1>1 DEF PostResults
  <1> HIDE DEF c
  <1>4. \A d \in Call : call'[d] = IF d = c THEN new ELSE call[d]
    BY <1>1, <1>2
  <1>5. \A q \in Run : /\ work'[q].found = work[q].found
                       /\ work'[q].pc = IF q = r THEN pc ELSE work[q].pc
    BY <1>1, <1>3 DEF WorkState
  <1>6. \A d \in Call : call[d].pc = "retry" => call[d].run # r
    BY <1>2 DEF StoredInv, Handlers
  <1>7. Onward'
    <2> SUFFICES ASSUME NEW q \in Run, RetryOf(q) \in Run, Unretried(q)'
                 PROVE  work'[RetryOf(q)].pc = "none"
      BY DEF Onward
    <2>1. Unretried(q)
      BY <1>2, <1>4, <1>5 DEF Unretried
    <2>2. work[RetryOf(q)].pc = "none"
      BY <2>1 DEF StoredInv, Onward
    <2> QED
      BY <1>2, <1>5, <2>2
  <1>8. Handlers'
    <2> SUFFICES ASSUME NEW d \in Call, call'[d].pc # "free"
                 PROVE  /\ work'[call'[d].run].pc \in Reported \cup {"repost"}
                        /\ call'[d].pc = "retry" =>
                             /\ work'[call'[d].run].pc \in {"reposted", "done"}
                             /\ \A e \in Call :
                                  call'[e].pc = "retry" /\ call'[e].run = call'[d].run => d = e
      BY DEF Handlers
    <2>1. CASE d = c
      BY <1>2, <1>4, <1>5, <1>6, <2>1 DEF Reported
    <2>2. CASE d # c
      <3>1. /\ call'[d] = call[d] /\ call[d].pc # "free" /\ call[d].run \in Run
        BY <1>1, <1>4, <2>2
      <3>2. /\ work[call[d].run].pc \in Reported \cup {"repost"}
            /\ call[d].pc = "retry" =>
                 /\ work[call[d].run].pc \in {"reposted", "done"}
                 /\ \A e \in Call : call[e].pc = "retry" /\ call[e].run = call[d].run => d = e
        BY <3>1 DEF StoredInv, Handlers
      <3> QED
        BY <1>2, <1>4, <1>5, <1>6, <3>1, <3>2 DEF Reported
    <2> QED
      BY <2>1, <2>2
  <1>9. HandlersStore'
    BY <1>1, <1>2, <1>4, <1>5 DEF StoredInv, HandlersStore
  <1>10. Unbegun'
    BY <1>2 DEF StoredInv, Unbegun
  <1> QED
    BY <1>7, <1>8, <1>9, <1>10 DEF StoredInv

(* One that is lost changes how far its run is, and no handler's list.     *)
LEMMA LostStored ==
  ASSUME StoredInv, RetestInv', NEW r \in Run, PostLost(r)
  PROVE  StoredInv'
  <1>1. /\ work \in [Run -> WorkState] /\ call \in [Call -> CallState]
        /\ \A d \in Call : call[d].pc # "free" => call[d].run \in Run
    BY DEF StoredInv, RetestInv, Shapes
  <1> DEFINE pc == IF work[r].pc \in {"post", "posted"} THEN "repost" ELSE "done"
  <1>2. /\ work[r].pc \in {"post", "posted", "repost", "reposted"}
        /\ UNCHANGED <<stored, scan, missed>>
        /\ call' = [c \in Call |-> IF call[c].pc # "free" /\ call[c].run = r
                                   THEN [call[c] EXCEPT !.attached = FALSE] ELSE call[c]]
    BY DEF PostLost
  <1>3. work' = [work EXCEPT ![r].pc = pc]
    BY <1>1 DEF PostLost
  <1>4. \A d \in Call : /\ call'[d].pc = call[d].pc /\ call'[d].run = call[d].run
                        /\ call'[d].todo = call[d].todo
    BY <1>1, <1>2 DEF CallState
  <1>5. \A q \in Run : /\ work'[q].found = work[q].found
                       /\ work'[q].pc = IF q = r THEN pc ELSE work[q].pc
    BY <1>1, <1>3 DEF WorkState
  <1>6. Onward'
    <2> SUFFICES ASSUME NEW q \in Run, RetryOf(q) \in Run, Unretried(q)'
                 PROVE  work'[RetryOf(q)].pc = "none"
      BY DEF Onward
    <2>1. Unretried(q)
      BY <1>2, <1>4, <1>5 DEF Unretried
    <2>2. work[RetryOf(q)].pc = "none"
      BY <2>1 DEF StoredInv, Onward
    <2> QED
      BY <1>2, <1>5, <2>2
  <1>7. Handlers'
    BY <1>1, <1>2, <1>4, <1>5 DEF StoredInv, Handlers, Reported
  <1>8. HandlersStore'
    BY <1>1, <1>2, <1>4, <1>5 DEF StoredInv, HandlersStore
  <1>9. Unbegun'
    BY <1>2 DEF StoredInv, Unbegun
  <1> QED
    BY <1>6, <1>7, <1>8, <1>9 DEF StoredInv

(* The one handler of a failed run queues the next, which nobody has.      *)
LEMMA RetryStored ==
  ASSUME StoredInv, RetestInv', NEW c \in Call, HandleRetry(c)
  PROVE  StoredInv'
  <1> DEFINE r == call[c].run
  <1>1. /\ work \in [Run -> WorkState] /\ call \in [Call -> CallState]
        /\ r \in Run /\ call[c].pc = "retry"
        /\ \A d \in Call : call[d].pc # "free" => call[d].run \in Run
    BY DEF StoredInv, RetestInv, Shapes, HandleRetry
  <1>2. /\ call' = [call EXCEPT ![c].pc = "store"] /\ UNCHANGED <<stored, scan, missed>>
        /\ \/ r[2] < MaxRuns /\ work' = [work EXCEPT ![RetryOf(r)].pc = "queued"]
           \/ work' = work
    BY DEF HandleRetry, RetryOf
  <1>3. \A d \in Call : /\ call'[d].run = call[d].run /\ call'[d].todo = call[d].todo
                        /\ call'[d].pc = IF d = c THEN "store" ELSE call[d].pc
    BY <1>1, <1>2 DEF CallState
  <1>4. /\ work[r].pc \in {"reposted", "done"}
        /\ \A d \in Call : call[d].pc = "retry" /\ call[d].run = r => c = d
    BY <1>1 DEF StoredInv, Handlers
  <1>5. r[2] < MaxRuns => RetryOf(r) \in Run /\ work[RetryOf(r)].pc = "none"
    <2>1. r[2] < MaxRuns => RetryOf(r) \in Run
      BY <1>1, RetestAssumption DEF RetestAssumption, Run, RetryOf
    <2> QED
      BY <1>1, <2>1 DEF StoredInv, Onward, Unretried
  <1>6. RetryOf(r) # r /\ \A q \in Run : RetryOf(q) = RetryOf(r) => q = r
    BY <1>1, NextRun
  <1> HIDE DEF r
  <1>7. \A q \in Run : /\ work'[q].found = work[q].found
                       /\ work'[q].pc = work[q].pc \/ (q = RetryOf(r) /\ work[q].pc = "none")
    BY <1>1, <1>2, <1>5 DEF WorkState
  <1>8. Onward'
    <2> SUFFICES ASSUME NEW q \in Run, RetryOf(q) \in Run, Unretried(q)'
                 PROVE  work'[RetryOf(q)].pc = "none"
      BY DEF Onward
    <2>1. Unretried(q)
      BY <1>3, <1>7 DEF Unretried
    <2>2. work[RetryOf(q)].pc = "none"
      BY <2>1 DEF StoredInv, Onward
    <2>3. q # r
      <3>1. work'[r].pc = work[r].pc
        BY <1>1, <1>6, <1>7
      <3>2. \A d \in Call : ~(call'[d].pc = "retry" /\ call'[d].run = r)
        BY <1>3, <1>4
      <3> QED
        BY <1>4, <3>1, <3>2 DEF Unretried
    <2>4. RetryOf(q) # RetryOf(r)
      BY <1>6, <2>3
    <2> QED
      BY <1>7, <2>2, <2>4
  <1>9. Handlers'
    <2>1. \A d \in Call : call[d].pc # "free" => work'[call[d].run].pc = work[call[d].run].pc
      BY <1>1, <1>7 DEF StoredInv, Handlers, Reported
    <2> QED
      BY <1>1, <1>3, <2>1 DEF StoredInv, Handlers
  <1>10. HandlersStore'
    <2> SUFFICES ASSUME NEW d \in Call, call'[d].pc # "free", NEW k \in work'[call'[d].run].found
                 PROVE  k \in call'[d].todo \/ stored'[k] > 0 \/ k \in missed'
      BY DEF HandlersStore
    <2>1. call[d].pc # "free" /\ call[d].run = call'[d].run
      BY <1>1, <1>3
    <2>2. call[d].run \in Run
      BY <1>1, <2>1
    <2>3. k \in work[call[d].run].found
      <3>1. work'[call[d].run].found = work[call[d].run].found
        BY <1>7, <2>2
      <3>2. work'[call'[d].run].found = work'[call[d].run].found
        BY <2>1
      <3> QED
        BY <3>1, <3>2
    <2>4. k \in call[d].todo \/ stored[k] > 0 \/ k \in missed
      BY <2>1, <2>3 DEF StoredInv, HandlersStore
    <2> QED
      BY <1>2, <1>3, <2>4
  <1>11. Unbegun'
    <2>1. work[r].pc # "none"
      BY <1>4
    <2> QED
      BY <1>1, <1>2, <2>1 DEF StoredInv, Unbegun
  <1> QED
    BY <1>8, <1>9, <1>10, <1>11 DEF StoredInv

(* The other steps of a handler.  It may end, and its worker be told; what *)
(* it takes off its list is stored, or missed.                             *)
LEMMA HandlerFrame ==
  ASSUME StoredInv, RetestInv', NEW c \in Call, call[c].pc # "free",
         \A d \in Call : d # c => call'[d] = call[d],
         call'[c].pc = "free" \/
           /\ call'[c].pc # "retry" /\ call'[c].run = call[c].run
           /\ \A k \in call[c].todo \ call'[c].todo : stored'[k] > 0 \/ k \in missed',
         work' = work \/ work' = [work EXCEPT ![call[c].run].pc = "done"],
         \A k \in Key : stored[k] > 0 => stored'[k] > 0,
         missed \subseteq missed', scan' = "none" => scan = "none"
  PROVE  StoredInv'
  <1>1. /\ work \in [Run -> WorkState] /\ call[c].run \in Run
        /\ \A d \in Call : call[d].pc # "free" => call[d].run \in Run
    BY DEF StoredInv, RetestInv, Shapes
  <1>2. work[call[c].run].pc # "none"
    BY DEF StoredInv, Handlers, Reported
  <1>3. \A q \in Run : /\ work'[q].found = work[q].found
                       /\ work'[q].pc = work[q].pc
                           \/ (work'[q].pc = "done" /\ work[q].pc # "none")
    BY <1>1, <1>2 DEF WorkState
  <1>4. \A d \in Call : call'[d].pc # "free" =>
          /\ call[d].pc # "free" /\ call'[d].run = call[d].run
          /\ call'[d].pc = "retry" => call[d].pc = "retry"
    OBVIOUS
  <1>5. Onward'
    <2> SUFFICES ASSUME NEW q \in Run, RetryOf(q) \in Run, Unretried(q)'
                 PROVE  work'[RetryOf(q)].pc = "none"
      BY DEF Onward
    <2>1. Unretried(q)
      BY <1>3, <1>4 DEF Unretried
    <2>2. work[RetryOf(q)].pc = "none"
      BY <2>1 DEF StoredInv, Onward
    <2> QED
      BY <1>3, <2>2
  <1>6. Handlers'
    BY <1>1, <1>3, <1>4 DEF StoredInv, Handlers, Reported
  <1>7. HandlersStore'
    <2> SUFFICES ASSUME NEW d \in Call, call'[d].pc # "free", NEW k \in work'[call'[d].run].found
                 PROVE  k \in call'[d].todo \/ stored'[k] > 0 \/ k \in missed'
      BY DEF HandlersStore
    <2>1. call[d].run \in Run /\ k \in work[call[d].run].found /\ k \in Key
      BY <1>1, <1>3, <1>4 DEF WorkState
    <2>2. k \in call[d].todo \/ stored[k] > 0 \/ k \in missed
      BY <1>4, <2>1 DEF StoredInv, HandlersStore
    <2> QED
      BY <2>1, <2>2
  <1>8. Unbegun'
    BY <1>1, <1>2, <1>3 DEF StoredInv, Unbegun
  <1> QED
    BY <1>5, <1>6, <1>7, <1>8 DEF StoredInv

(* Each of those steps is one of these.                                    *)
LEMMA CallStored ==
  ASSUME StoredInv, RetestInv', NEW c \in Call,
         \/ FindingExists(c) \/ FindingExistsFails(c) \/ InsertFinding(c) \/ InsertFindingFails(c)
         \/ DecrActiveScanJobs(c) \/ MarkCompleted(c) \/ MarkCompletedFails(c)
         \/ Reply(c) \/ CallAbort(c)
  PROVE  StoredInv'
  <1>1. /\ call \in [Call -> CallState] /\ stored \in [Key -> Nat] /\ call[c] \in CallState
    BY DEF StoredInv, RetestInv, Shapes
  <1>2. CASE FindingExists(c) \/ FindingExistsFails(c)
    <2>1. PICK k \in call[c].todo :
            \/ stored[k] > 0 /\ call' = [call EXCEPT ![c].todo = @ \ {k}]
            \/ call' = [call EXCEPT ![c].pc = "insert", ![c].key = k]
      BY <1>2 DEF FindingExists, FindingExistsFails
    <2>2. call[c].pc = "store" /\ UNCHANGED <<stored, work, missed, scan>>
      BY <1>2 DEF FindingExists, FindingExistsFails
    <2>3. \A d \in Call : d # c => call'[d] = call[d]
      BY <1>1, <2>1
    <2>4. /\ call'[c].pc \in {"store", "insert"} /\ call'[c].run = call[c].run
          /\ \A q \in call[c].todo \ call'[c].todo : stored'[q] > 0
      BY <1>1, <2>1, <2>2 DEF CallState
    <2> QED
      BY <2>2, <2>3, <2>4, HandlerFrame
  <1>3. CASE InsertFinding(c) \/ InsertFindingFails(c)
    <2>1. /\ call[c].pc = "insert" /\ UNCHANGED <<work, scan>>
          /\ call' = [call EXCEPT ![c].pc = "store", ![c].todo = @ \ {call[c].key},
                                  ![c].key = NoKey]
      BY <1>3 DEF InsertFinding, InsertFindingFails, Stored
    <2>2. /\ missed \subseteq missed' /\ \A k \in Key : stored[k] > 0 => stored'[k] > 0
          /\ \A k \in Key : k = call[c].key => stored'[k] > 0 \/ k \in missed'
      BY <1>1, <1>3 DEF InsertFinding, InsertFindingFails
    <2>3. /\ \A d \in Call : d # c => call'[d] = call[d]
          /\ call'[c].pc = "store" /\ call'[c].run = call[c].run
          /\ call'[c].todo = call[c].todo \ {call[c].key} /\ call[c].todo \subseteq Key
      BY <1>1, <2>1 DEF CallState
    <2> QED
      BY <2>1, <2>2, <2>3, HandlerFrame
  <1>4. CASE DecrActiveScanJobs(c) \/ MarkCompleted(c) \/ MarkCompletedFails(c)
    <2>1. PICK pc \in {"finish", "reply"} : call' = [call EXCEPT ![c].pc = pc]
      BY <1>4 DEF DecrActiveScanJobs, MarkCompleted, MarkCompletedFails
    <2>2. /\ call[c].pc # "free" /\ UNCHANGED <<stored, work, missed>>
          /\ scan' = "none" => scan = "none"
      BY <1>4 DEF DecrActiveScanJobs, DecrReady, MarkCompleted, MarkCompletedFails
    <2>3. /\ \A d \in Call : d # c => call'[d] = call[d]
          /\ call'[c].pc = pc /\ call'[c].run = call[c].run /\ call'[c].todo = call[c].todo
      BY <1>1, <2>1 DEF CallState
    <2> QED
      BY <2>1, <2>2, <2>3, HandlerFrame
  <1>5. CASE Reply(c) \/ CallAbort(c)
    <2>1. /\ call[c].pc # "free" /\ call' = [call EXCEPT ![c] = FreeCall]
          /\ UNCHANGED <<stored, scan>> /\ missed \subseteq missed'
          /\ work' = work \/ work' = [work EXCEPT ![call[c].run].pc = "done"]
      BY <1>5 DEF Reply, CallAbort
    <2>2. call'[c].pc = "free" /\ \A d \in Call : d # c => call'[d] = call[d]
      BY <1>1, <2>1 DEF FreeCall
    <2> QED
      BY <2>1, <2>2, HandlerFrame
  <1> QED
    BY <1>2, <1>3, <1>4, <1>5

---------------------------------------------------------------------------
(* Every step keeps the invariant.                                         *)
LEMMA StoredInvStep ==
  ASSUME StoredInv, [RetestNext]_retestVars
  PROVE  StoredInv'
  <1>1. RetestInv'
    BY RetestInvStep DEF StoredInv
  <1>2. CASE RetestScan
    BY <1>1, <1>2, BeginStored
  <1>3. CASE RetestScanFails \/ DispatchCounts
    <2>1. UNCHANGED <<stored, work, call, missed>> /\ (scan' = "none" => scan = "none")
      BY <1>3 DEF RetestScanFails, DispatchCounts
    <2> QED
      BY <1>1, <2>1, QuietStep
  <1>4. ASSUME NEW r \in Run, RetestWork(r)
        PROVE  StoredInv'
    BY <1>1, <1>4, RunStored, PostStored, LostStored DEF RetestWork
  <1>5. ASSUME NEW c \in Call, RetestCall(c)
        PROVE  StoredInv'
    BY <1>1, <1>5, RetryStored, CallStored DEF RetestCall
  <1>6. ASSUME NEW t \in Tick,
               \/ TimerTicks(t) \/ Poll(t) \/ ReconcileFails(t) \/ ListFindingsFails(t)
               \/ ReconciledLost(t)
        PROVE  StoredInv'
    <2>1. UNCHANGED <<stored, work, call, missed, scan>>
      BY <1>6 DEF TimerTicks, Poll, TickSeesCompleted, TickSeesFailed, ListRetestFindings,
                  SetFindingStatus, Reconciled, ReconcileFails, ListFindingsFails,
                  ReconciledLost, Others
    <2> QED
      BY <1>1, <2>1, QuietStep
  <1>7. CASE UNCHANGED retestVars
    <2>1. UNCHANGED <<stored, work, call, missed, scan>>
      BY <1>7 DEF retestVars
    <2> QED
      BY <1>1, <2>1, QuietStep
  <1>8. CASE DispatchFails
    BY <1>1, <1>8, DropStored
  <1> QED
    BY <1>2, <1>3, <1>4, <1>5, <1>6, <1>7, <1>8 DEF RetestNext

(* What a handler is done with has a row, unless its own statement failed: *)
(* for any number of reports that store the same findings at a time, of    *)
(* attempts and of lookups that fail (db.go:324).                          *)
THEOREM HandledIsStored == RetestSpec => []HandledStored
  <1>1. StoredInv => HandledStored
    BY DEF StoredInv, HandlersStore, HandledStored
  <1> QED
    BY <1>1, StoredInvInit, StoredInvStep, PTL DEF RetestSpec
=============================================================================
