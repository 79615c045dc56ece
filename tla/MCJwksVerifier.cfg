SPECIFICATION Spec
CONSTANTS
  r1 = r1
  r2 = r2
  Requests = {r1, r2}
  Tokens <- MCTokens
  Documents <- MCDocuments
  Issuer = "issuer"
  ExpectedAZP = "client"
  ClockSkew = 1
  CacheTTL = 1
  HTTPWait = 1
  None = None
  MaxTime = 3
  MaxRotations = 2
SYMMETRY RequestSymmetry
INVARIANTS
  KeysAreTimely
PROPERTIES
  RollbackNeedsOverlap
  RefusedForAReason
