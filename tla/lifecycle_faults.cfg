SPECIFICATION Spec
CONSTANTS
  Start = {s1, s2}
  Task = {t1}
  Cancel = {}
  Worker = {w1}
  Call = {h1, h2}
  MaxAttempts = 2
  Faults = {"db", "redis", "client", "deadline", "post", "timeout", "worker", "panic", "orchestrator", "lapse"}
  MaxFaults = 1
  Unending = {}
SYMMETRY Symmetry
INVARIANTS
  AttemptsBounded
  StartExclusive
  HeldOnce
  NoJobLost
  CounterAccounts
  ProgressHonest
  RestedScanEnded
PROPERTIES
  OutcomeFinal
