SPECIFICATION FairSpec
CONSTANTS
  c1 = c1
  c2 = c2
  dev = dev
  NoHolder = NoHolder
  Replicas <- MCLocal
  Local <- MCLocal
  MaxElections = 0
  MaxCrashes = 0
PROPERTY LeaderStartsCron
CHECK_DEADLOCK FALSE
