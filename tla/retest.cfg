SPECIFICATION RetestSpec
CONSTANTS
  Key = {"finding"}
  Job = {j1, j2}
  JobOf <- FirstJob
  Guarded = {"finding"}
  MaxRuns = 2
  Call = {c1, c2}
  Tick = {t1, t2}
  MaxFaults = 1
INVARIANTS FixedIsGone HandledStored
PROPERTIES RetestConcludes
CHECK_DEADLOCK FALSE
