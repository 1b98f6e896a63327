SPECIFICATION FairSpec
CONSTANTS
  Start = {s1, s2}
  Task = {t1}
  Cancel = {c1}
  Worker = {w1, w2}
  Call = {h1}
  MaxAttempts = 2
  Faults = {"post"}
  MaxFaults = 1
  Unending <- OneJob
PROPERTIES
  RunningScanEnds
  JobsServed
