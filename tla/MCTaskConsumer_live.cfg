SPECIFICATION FairSpec
CONSTANTS
  t1 = t1
  t2 = t2
  t3 = t3
  c1 = c1
  c2 = c2
  Tasks <- ThreeTasks
  Replicas <- OneReplica
  Electable <- OneReplica
  Producers <- OneReplica
  RowsPerBatch = 3
  Retention = 0
  MaxClock = 0
  MaxFaults = 1
  Workers = 1
  Silent <- OneTask
  TasksPerRequest = 2
  BatchSize = 2
  MaxOutages = 1
PROPERTY EveryTaskSettles
PROPERTY StopCompletes
CHECK_DEADLOCK FALSE
