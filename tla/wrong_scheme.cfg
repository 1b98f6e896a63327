SPECIFICATION Spec
CONSTANTS
  QueryParams = 1
  SpecEndpoints = 3
  Typed <- AllTyped
  Bearer = {"", "RS256"}
  Ingested = TRUE
  MaxTested = 2
INVARIANTS GuessCorrected
