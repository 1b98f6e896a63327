SPECIFICATION FairSpec
CONSTANTS
  Client = {c1, c2}
  Handler = {h1}
  Goroutine = {g1}
  Capacity = 1
  MaxCasts = 2
INVARIANTS
  TypeOK
  MembersOpen
  InCallOrder
PROPERTIES
  NoneSkipped
  LeaversForgotten
