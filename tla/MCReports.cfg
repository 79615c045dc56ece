SPECIFICATION FairSpec
CONSTANTS
  g1 = g1
  g2 = g2
  c1 = c1
  c2 = c2
  Replicas = {c1, c2}
  Groups = {g1, g2}
  Refused <- MCRefused
  BatchSize = 2
  RowsPerBatch = 1
  None = None
  MaxScrapes = 2
  MaxFaults = 1
INVARIANTS
  TypeOK
  ReadsAreComplete
  NewestOfItsReplica
  EventsFollowReports
  GrowsOnlyByFailure
PROPERTY ImplementsStore
PROPERTY BatchesAreSaved
CHECK_DEADLOCK FALSE
