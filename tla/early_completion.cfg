SPECIFICATION Spec
CONSTANTS
  Start = {s1}
  Task = {t1, t2}
  Cancel = {}
  Worker = {w1}
  Call = {h1}
  MaxAttempts = 2
  Faults = {}
  MaxFaults = 0
  Unending = {}
INVARIANT
  CompletedMeansNoActiveJob
