SPECIFICATION FairSpec
CONSTANTS
  t1 = t1
  t2 = t2
  t3 = t3
  c1 = c1
  c2 = c2
  Tasks <- ThreeTasks
  Replicas <- OneReplica
  Electable <- NoReplica
  Producers <- OneReplica
  RowsPerBatch = 3
  Retention = 0
  MaxClock = 0
  MaxFaults = 0
  Workers = 1
  Silent <- NoTask
  TasksPerRequest = 2
  BatchSize = 4
  MaxOutages = 0
PROPERTY SubmitReturns
CHECK_DEADLOCK FALSE
