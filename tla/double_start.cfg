SPECIFICATION Spec
CONSTANTS
  Start = {s1, s2}
  Task = {t1}
  Cancel = {}
  Worker = {w1}
  Call = {h1}
  MaxAttempts = 2
  Faults = {}
  MaxFaults = 0
  Unending = {}
PROPERTY
  NoDoubleStart
