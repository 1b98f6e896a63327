------------------------------- MODULE JobSpec -------------------------------
(***************************************************************************)
(* What the orchestrator promises about jobs, without queues, workers,     *)
(* handlers or counters: a planned job is tried at most MaxAttempts times  *)
(* and then, or before, gets one outcome that stays.                       *)
(***************************************************************************)
EXTENDS Integers

CONSTANTS
  Job,          \* the identities of the rows of the jobs table
  MaxAttempts,  \* how often a job may be tried
  Served        \* the jobs whose runs all end

VARIABLES
  phase,        \* phase[j]: unplanned, open, or its outcome
  tries         \* tries[j]: the attempt the job is at

jobVars == <<phase, tries>>

Phase == {"unplanned", "open", "completed", "failed"}

Init ==
  /\ phase = [j \in Job |-> "unplanned"]
  /\ tries = [j \in Job |-> 0]

(* A start plans some jobs, each for a first attempt.                      *)
Plan(new) ==
  /\ new # {}
  /\ \A j \in new : phase[j] = "unplanned"
  /\ phase' = [j \in Job |-> IF j \in new THEN "open" ELSE phase[j]]
  /\ tries' = [j \in Job |-> IF j \in new THEN 1 ELSE tries[j]]

(* A failed attempt is followed by another while there are some left.      *)
Retry(j) ==
  /\ phase[j] = "open"
  /\ tries[j] < MaxAttempts
  /\ tries' = [tries EXCEPT ![j] = @ + 1]
  /\ UNCHANGED phase

Settle(j, outcome) ==
  /\ phase[j] = "open"
  /\ phase' = [phase EXCEPT ![j] = outcome]
  /\ UNCHANGED tries

JobStep(j) == Retry(j) \/ \E outcome \in {"completed", "failed"} : Settle(j, outcome)

Next == (\E new \in SUBSET Job : Plan(new)) \/ (\E j \in Job : JobStep(j))

Spec == Init /\ [][Next]_jobVars

(* Every planned job among them is served until it has its outcome.        *)
FairSpec == Spec /\ \A j \in Served : WF_jobVars(JobStep(j))
=============================================================================
