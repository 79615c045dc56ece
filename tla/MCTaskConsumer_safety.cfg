SPECIFICATION Spec
CONSTANTS
  t1 = t1
  t2 = t2
  t3 = t3
  c1 = c1
  c2 = c2
  Tasks <- TwoTasks
  Replicas <- TwoReplicas
  Electable <- NoReplica
  Producers <- OneReplica
  RowsPerBatch = 1
  Retention = 0
  MaxClock = 1
  MaxFaults = 1
  Workers = 1
  Silent <- NoTask
  TasksPerRequest = 2
  BatchSize = 2
  MaxOutages = 1
SYMMETRY TaskSymmetry
INVARIANT TypeOK
INVARIANT ClaimExclusive
INVARIANT RunningIsAccounted
INVARIANT CompleteIsAccounted
INVARIANT SavesBounded
INVARIANT LossHasCause
 
PROPERTY StatusLifecycle
PROPERTY ImplementsScrapeOnce
CHECK_DEADLOCK FALSE
