SPECIFICATION FairSpec
CONSTANTS
  c1 = c1
  c2 = c2
  h1 = h1
  h2 = h2
  s1 = s1
  s2 = s2
  l1 = l1
  l2 = l2
  Missing = Missing
  Replicas <- TwoReplicas
  Handlers <- TwoHandlers
  Specs <- TwoSpecs
  DefaultSpec = s1
  Limits <- OneLimit
  DefaultLimits = l1
  MaxUpdates = 2
  MaxFaults = 1
  MaxRestarts = 0
PROPERTY SchedulesConverge
CHECK_DEADLOCK FALSE
