SPECIFICATION FairSpec
CONSTANTS
  c1 = c1
  c2 = c2
  dev = dev
  NoHolder = NoHolder
  Replicas <- MCReplicas
  Local <- MCLocal
  MaxElections = 2
  MaxCrashes = 1
INVARIANT RoleFollowsElection
PROPERTY SettlesOnOneProducer
CHECK_DEADLOCK FALSE
