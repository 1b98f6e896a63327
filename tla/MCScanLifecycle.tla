-------------------------- MODULE MCScanLifecycle --------------------------
(* Small instances of ScanLifecycle for TLC.                               *)
EXTENDS ScanProperties, TLC

(* Tasks, workers, handler slots and requests are interchangeable.         *)
Symmetry ==
  Permutations(Start) \cup Permutations(Task) \cup Permutations(Cancel)
  \cup Permutations(Worker) \cup Permutations(Call)

(* The host is mute for good while pci runs for one of the starts (which   *)
(* of them is all the same, and no run with this job uses Symmetry).       *)
OneJob == {CHOOSE j \in Job : TRUE}
=============================================================================
