SPECIFICATION Spec
CONSTANTS
  c1 = c1
  c2 = c2
  h1 = h1
  h2 = h2
  s1 = s1
  s2 = s2
  l1 = l1
  l2 = l2
  Missing = Missing
  Replicas <- TwoReplicas
  Handlers <- TwoHandlers
  Specs <- TwoSpecs
  DefaultSpec = s1
  Limits <- TwoLimits
  DefaultLimits = l1
  MaxUpdates = 2
  MaxFaults = 1
  MaxRestarts = 1
SYMMETRY ActorSymmetry
INVARIANT ScheduleInStep
INVARIANT DefaultsOnlyAtFirstStart
PROPERTY RollbackNeedsRace
CHECK_DEADLOCK FALSE
