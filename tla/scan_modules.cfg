SPECIFICATION Spec
CONSTANTS
  QueryParams = 1
  SpecEndpoints = 3
  Typed <- AllTyped
  Bearer = {"", "RS256"}
  Ingested = FALSE
  MaxTested = 2
INVARIANTS TypeOK FindingsRest LateBounded OnlyTargetEndsRun GuessCorrected
PROPERTIES RunsEnd
