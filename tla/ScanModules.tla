---------------------------- MODULE ScanModules ----------------------------
(***************************************************************************)
(* A worker that runs jobs, src/worker/main.go (executeJob) over the       *)
(* checks of Checks: the target's scheme is settled, the module runs under *)
(* the job's context, and its findings or its error are the result.  The   *)
(* host that is scanned answers, refuses or stays mute, and changes its    *)
(* mind; the context ends whenever the module's time is over or the worker *)
(* is told to stop.  A job follows a job; how results are delivered is the *)
(* matter of ScanLifecycle.                                                *)
(***************************************************************************)
EXTENDS Checks, Targets, FiniteSets

CONSTANTS
  Typed,      \* the targets users type
  Bearer,     \* the tokens jobs have: "" for none, "HS256" and "RS256" for JWTs
  Ingested,   \* whether jobs come from the orchestrator, with targets normalised
  MaxTested   \* the answers testSpecEndpoints is content with: 20 in the code

ASSUME ScanModulesAssumption ==
  /\ Typed \subseteq Target /\ Typed # {}
  /\ Bearer \subseteq {"", "opaque", "HS256", "RS256"}
  /\ Ingested \in BOOLEAN
  /\ MaxTested \in Nat \ {0}

VARIABLES
  typed,   \* what the user typed
  job,     \* the job: module, target, bearer, nuclei
  run,     \* where executeJob is; a check's loop, its request and its locals
  found,   \* the findings of the check that runs or has just run
  host,    \* what the host does with a request
  serves,  \* the schemes it serves
  over,    \* the job's context has ended
  late,    \* seconds spent on lost requests since then
  steady   \* host and context have been fine until the checks; a history variable

vars == <<typed, job, run, found, host, serves, over, late, steady>>

Ended == {"idle", "completed", "failed", "crashed"}
Probing == {"head", "get", "altHead", "altGet"}

At(pc) == [pc |-> pc, check |-> 1, step |-> 1, req |-> 1, inner |-> 0, tested |-> 0,
           told |-> FALSE, heard |-> FALSE]

NoJob == [module |-> "unknown", target |-> CHOOSE t \in Typed : TRUE, bearer |-> "",
          nuclei |-> FALSE]

Init ==
  /\ job = NoJob /\ typed = NoJob.target
  /\ run = At("idle")
  /\ found = {}
  /\ host = "answers" /\ serves = {}
  /\ over = FALSE /\ late = 0 /\ steady = TRUE

---------------------------------------------------------------------------
(* The job and its target                                                  *)

(* The target a job is queued with, if the orchestrator built the job.     *)
QueuedTarget(t) == IF Ingested THEN NormalizeTarget(t) ELSE t

(* A job from the queue.                                                   *)
TakeJob ==
  /\ run.pc = "idle"
  /\ \E m \in Modules \cup {"unknown"}, t \in Typed, b \in Bearer, n \in BOOLEAN :
       /\ n => m = "vuln"
       /\ typed' = t
       /\ job' = [module |-> m, target |-> QueuedTarget(t), bearer |-> b, nuclei |-> n]
  /\ serves' \in SUBSET {"http", "https"}
  /\ run' = At("taken")
  /\ steady' = (host = "answers")
  /\ UNCHANGED <<found, host, over, late>>

UnknownModule ==
  /\ run.pc = "taken"
  /\ job.module = "unknown"
  /\ run' = At("failed")
  /\ UNCHANGED <<typed, job, found, host, serves, over, late, steady>>

(* Only a target without a scheme is probed, and only as an http(s) URL.   *)
Settle ==
  /\ run.pc = "taken"
  /\ job.module # "unknown"
  /\ job' = [job EXCEPT !.target = WorkerNormalizeTarget(@)]
  /\ run' = At(IF HasScheme(job.target) \/ job.target.form \in {"blank", "malformed"}
               THEN "settled" ELSE "head")
  /\ UNCHANGED <<typed, found, host, serves, over, late, steady>>

Serving(scheme) == job.target.form = "url" /\ host = "answers" /\ scheme \in serves

Other(scheme) == IF scheme = "https" THEN "http" ELSE "https"
ProbedScheme ==
  IF run.pc \in {"head", "get"} THEN job.target.scheme ELSE Other(job.target.scheme)

(* Mutant: the fallback is probed and then not used.                       *)
ProbeAnsweredUnused ==
  /\ run.pc \in Probing
  /\ Serving(ProbedScheme) /\ ~over
  /\ run' = At("settled")
  /\ UNCHANGED <<typed, job, found, host, serves, over, late, steady>>

ProbeAnswered ==
  /\ run.pc \in Probing
  /\ Serving(ProbedScheme) /\ ~over
  /\ job' = [job EXCEPT !.target.scheme = ProbedScheme]
  /\ run' = At("settled")
  /\ UNCHANGED <<typed, found, host, serves, over, late, steady>>

(* HEAD and GET share five seconds, which a mute host uses up; some        *)
(* servers reject HEAD.                                                    *)
ProbeLost ==
  /\ run.pc \in Probing
  /\ Serving(ProbedScheme) /\ ~over => run.pc \in {"head", "altHead"}
  /\ run' = At(CASE run.pc = "head" -> IF host = "mute" THEN "altHead" ELSE "get"
                 [] run.pc = "get" -> "altHead"
                 [] run.pc = "altHead" -> IF host = "mute" THEN "settled" ELSE "altGet"
                 [] run.pc = "altGet" -> "settled")
  /\ UNCHANGED <<typed, job, found, host, serves, over, late, steady>>

(* asset and cert want a host first; no other module ever returns an error.*)
BeginModule ==
  /\ run.pc = "settled"
  /\ run' = At(IF job.target.form = "malformed" /\ job.module \in {"asset", "cert"}
               THEN "failed" ELSE "check")
  /\ UNCHANGED <<typed, job, found, host, serves, over, late, steady>>

---------------------------------------------------------------------------
(* The module                                                              *)

(* The next check, which starts with no findings of its own.               *)
NextCheck ==
  /\ run.pc = "check"
  /\ found' = {}
  /\ steady' = TRUE
  /\ run' = IF run.check > Len(Checks(job)) THEN At("completed")
            ELSE IF Checks(job)[run.check] = <<>> THEN [run EXCEPT !.check = @ + 1]
            ELSE [At("step") EXCEPT !.check = run.check]
  /\ UNCHANGED <<typed, job, host, serves, over, late>>

Outer == Checks(job)[run.check][run.step]
Step == IF run.inner > 0 THEN Outer.inner[1] ELSE Outer

Built ==
  CASE Step.via \in {"parse", "target"} -> job.target.form # "malformed"
    [] Step.via = "base" -> job.target.form \in {"url", "har"}
    [] OTHER -> TRUE

(* Nobody answers once the context has ended, but to who does not ask it.  *)
Answerable ==
  /\ Step.bound /\ Step.via \notin {"job", "parse"} => ~over
  /\ CASE Step.via \in {"target", "base"} -> Serving(job.target.scheme)
       [] Step.via = "http" -> Serving("http")
       [] Step.via = "tls" -> Serving("https")
       [] Step.via = "ports" -> job.target.form = "url" /\ host = "answers"
       [] Step.via = "dns" -> job.target.form \in {"url", "har"}
       [] OTHER -> TRUE

(* A request without a limit waits for a host as long as it is mute.       *)
Losable ==
  CASE Step.via \in {"job", "parse"} -> FALSE
    [] Step.via \in {"dns", "tool"} -> TRUE
    [] OTHER -> ~Answerable /\ ~(Step.secs = 0 /\ host = "mute" /\ job.target.form = "url")

(* Where the loop is after a request: how is "next", "stop" (the loop) or  *)
(* "return" (from the check).  An inner loop ends with its last request or *)
(* when it has tested enough, and the outer one goes on.                   *)
InnerGoesOn(tested) == run.inner > 0 /\ run.inner < Step.n /\ tested < MaxTested
LoopEndsLate(how) == how = "stop" \/ run.req = Outer.n + 1    \* mutant: an off-by-one
LoopEnds(how) == how = "stop" \/ run.req = Outer.n

After(how, tested, told, heard) ==
  LET here == [At("step") EXCEPT !.check = run.check, !.step = run.step] IN
  IF InnerGoesOn(tested) THEN [run EXCEPT !.inner = @ + 1, !.tested = tested]
  ELSE IF how = "return" \/ (LoopEnds(how) /\ run.step = Len(Checks(job)[run.check]))
  THEN [At("check") EXCEPT !.check = run.check + 1]
  ELSE IF LoopEnds(how) THEN [here EXCEPT !.step = @ + 1]
  ELSE [here EXCEPT !.req = run.req + 1, !.told = told, !.heard = heard]

(* What a finding is told by: a tool reports of a host that is down, too.  *)
Basis ==
  CASE Step.via = "job" -> "job"
    [] Step.via = "tool" /\ ~(job.target.form = "url" /\ host = "answers") -> "nothing"
    [] OTHER -> "answer"

Finding(title, basis) == IF title = "" THEN {} ELSE {[title |-> title, basis |-> basis]}

(* What a loop adds when it ends without the answer it waits for.          *)
Absence(how, told, heard) ==
  IF told \/ ~LoopEnds(how) THEN {}
  ELSE Finding(Step.absent, IF heard THEN "answer" ELSE "nothing")

(* The nil request that a check then uses: nothing recovers the panic.     *)
Panic ==
  /\ run.pc = "step"
  /\ ~Built /\ Step.unbuilt = "panic"
  /\ run' = At("crashed")
  /\ found' = {}
  /\ UNCHANGED <<typed, job, host, serves, over, late, steady>>

Unbuilt ==
  /\ run.pc = "step"
  /\ ~Built /\ Step.unbuilt # "panic"
  /\ found' = found \cup Absence(Step.unbuilt, run.told, run.heard)
  /\ run' = After(Step.unbuilt, run.tested, run.told, run.heard)
  /\ UNCHANGED <<typed, job, host, serves, over, late, steady>>

(* An answer that tells nothing.                                           *)
Answered ==
  /\ run.pc = "step"
  /\ Built /\ Answerable /\ ~Step.sure
  /\ LET heard == Step.absent # "" IN
     /\ found' = found \cup Absence("next", run.told, heard)
     /\ run' = After("next", run.tested + 1, run.told, heard)
  /\ UNCHANGED <<typed, job, host, serves, over, late, steady>>

(* An answer that adds a finding, or leads to the requests within.         *)
Told ==
  /\ run.pc = "step"
  /\ Built /\ Answerable
  /\ Step.title # "" \/ Step.absent # "" \/ Step.inner # <<>>
  /\ LET telling == Step.absent # "" IN
     /\ found' = found \cup Finding(Step.title, Basis)
     /\ run' = IF Step.inner # <<>> /\ Step.inner[1].n > 0 THEN [run EXCEPT !.inner = 1]
               ELSE After(Step.hit, run.tested + 1, telling, telling)
  /\ UNCHANGED <<typed, job, host, serves, over, late, steady>>

(* A request without an answer: refused, timed out, or ended by the        *)
(* context.  One that the context does not end takes its time.             *)
Lost ==
  /\ run.pc = "step"
  /\ Built /\ Losable
  /\ \E title \in Step.failed :
       found' = found \cup Finding(title, "failure")
                      \cup Absence(Step.lost, run.told, run.heard)
  /\ late' = IF over /\ ~Step.bound /\ host = "mute" THEN late + Step.secs ELSE late
  /\ run' = After(Step.lost, run.tested, run.told, run.heard)
  /\ UNCHANGED <<typed, job, host, serves, over, steady>>

---------------------------------------------------------------------------
(* The surroundings                                                        *)

(* The result has been posted, or the worker that a panic has ended is     *)
(* restarted (docker-compose.yml): another job may come.                   *)
WaitAgain ==
  /\ run.pc \in Ended \ {"idle"}
  /\ job' = NoJob /\ typed' = NoJob.target
  /\ run' = At("idle")
  /\ found' = {}
  /\ serves' = {}
  /\ over' = FALSE /\ late' = 0 /\ steady' = TRUE
  /\ UNCHANGED host

(* moduleTimeout has passed, or the worker has been told to stop.          *)
Deadline ==
  /\ run.pc \notin Ended /\ ~over
  /\ over' = TRUE
  /\ steady' = (steady /\ run.pc \in {"check", "step"})
  /\ UNCHANGED <<typed, job, run, found, host, serves, late>>

HostChanges ==
  /\ run.pc \notin Ended
  /\ host' \in {"answers", "refuses", "mute"} \ {host}
  /\ steady' = (steady /\ run.pc \in {"check", "step"})
  /\ UNCHANGED <<typed, job, run, found, serves, over, late>>

(* The seconds go by for a request that neither the context nor a limit of *)
(* its own ends, as long as the host stays mute: more than any check with  *)
(* a limit takes.                                                          *)
Grace == 35
HangsOn ==
  /\ run.pc = "step"
  /\ Built /\ ~Step.bound /\ Step.secs = 0
  /\ over /\ host = "mute" /\ job.target.form = "url"
  /\ late <= Grace
  /\ late' = Grace + 1
  /\ UNCHANGED <<typed, job, run, found, host, serves, over, steady>>

---------------------------------------------------------------------------

WorkerStep ==
  \/ UnknownModule \/ Settle \/ ProbeAnswered \/ ProbeLost \/ BeginModule \/ NextCheck
  \/ Panic \/ Unbuilt \/ Answered \/ Told \/ Lost

Next == TakeJob \/ WaitAgain \/ WorkerStep \/ Deadline \/ HostChanges \/ HangsOn

(* The worker's goroutine runs on; nothing makes the host answer.          *)
Spec == Init /\ [][Next]_vars /\ WF_vars(WorkerStep)

---------------------------------------------------------------------------
(* Properties                                                              *)

(* The types of the state.                                                 *)
TypeOK ==
  /\ typed \in Typed
  /\ job \in [module : Modules \cup {"unknown"}, target : Target, bearer : Bearer \cup {""},
              nuclei : BOOLEAN]
  /\ run.pc \in Ended \cup Probing \cup {"taken", "settled", "check", "step"}
  /\ run.pc = "step" =>
       /\ run.check \in DOMAIN Checks(job) /\ run.step \in DOMAIN Checks(job)[run.check]
       /\ run.req \in 1..Outer.n /\ run.inner \in 0..SpecEndpoints + 1
       /\ run.tested \in 0..MaxTested
       /\ run.told \in BOOLEAN /\ run.heard \in BOOLEAN
  /\ \A f \in found : f.basis \in {"job", "answer", "failure", "nothing"}
  /\ host \in {"answers", "refuses", "mute"} /\ serves \subseteq {"http", "https"}
  /\ over \in BOOLEAN /\ late \in Nat /\ steady \in BOOLEAN

(* Whatever the order of answers, losses and deadline, a finding rests on  *)
(* an answer or on the job.  Four do not: that a name did not resolve and  *)
(* that a certificate is not valid, of which cert.go:47 takes any error    *)
(* for a proof whose text holds the word; that there is no rate limiting   *)
(* and that the network scan is complete, which vuln.go:461 and            *)
(* asset.go:246 also report of a host that never answered.                 *)
FindingsRest ==
  \A f \in found :
    /\ f.basis = "nothing" => f.title \in {"no rate limiting", "network scan"}
    /\ f.basis = "failure" => f.title \in {"resolution failed", "certificate error"}

(* The checks that do not look at the job's context, the handshakes of     *)
(* cert and the ports of asset, outlive it by no more than Grace seconds;  *)
(* only pci, whose handshake has no limit (pci.go:122), takes longer.      *)
LateBounded == late > Grace => job.module = "pci"

(* A host cannot make a job fail or the worker crash, whatever it does and *)
(* whenever: only a target without a usable host can, or no such module.   *)
OnlyTargetEndsRun ==
  /\ run.pc = "failed" =>
       \/ job.module = "unknown"
       \/ job.target.form = "malformed" /\ job.module \in {"asset", "cert"}
  /\ run.pc = "crashed" =>
       \/ job.target.form = "malformed" /\ job.module \in {"vuln", "crawler", "fuzzer"}
       \/ job.target.form = "blank" /\ job.module = "vuln"

(* For a target typed without a scheme the modules run with one that the   *)
(* host serves, if it serves any: "we also probe reachability and fall     *)
(* back to http for http-only hosts", main.go:174.                         *)
GuessCorrected ==
  /\ run.pc = "check" /\ run.check = 1
  /\ steady /\ typed.form = "url" /\ ~HasScheme(typed) /\ serves # {}
  => job.target.scheme \in serves

(* "Per-job timeout", main.go:169: every job that is taken ends, but for   *)
(* the pci job whose handshake has no limit and meets a mute host          *)
(* (pci.go:122).                                                           *)
Hung == run.pc = "step" /\ job.module = "pci" /\ Step.secs = 0 /\ host = "mute"
RunsEnd == run.pc = "taken" ~> run.pc \in Ended \/ Hung
=============================================================================
