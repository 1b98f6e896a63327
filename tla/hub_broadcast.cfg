SPECIFICATION Spec
CONSTANTS
  Client = {c1, c2}
  Handler = {h1}
  Goroutine = {}
  Capacity = 1
  MaxCasts = 1
PROPERTY
  BroadcastReachesAll
