SPECIFICATION Spec
CONSTANTS
  Start = {s1}
  Task = {t1, t2}
  Cancel = {}
  Worker = {w1, w2}
  Call = {h1, h2}
  MaxAttempts = 2
  Faults = {"post", "worker", "redis"}
  MaxFaults = 1
  Unending = {}
SYMMETRY Symmetry
INVARIANTS
  TypeOK
  HeldOnce
  NoJobLost
  AttemptCurrent
  GivenUpLast
  CounterAccounts
  ProgressHonest
  RestedScanEnded
PROPERTIES
  JobsImplemented
