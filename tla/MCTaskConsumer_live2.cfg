SPECIFICATION FairSpec
CONSTANTS
  t1 = t1
  t2 = t2
  t3 = t3
  c1 = c1
  c2 = c2
  Tasks <- TwoTasks
  Replicas <- TwoReplicas
  Electable <- TwoReplicas
  Producers <- OneReplica
  RowsPerBatch = 2
  Retention = 0
  MaxClock = 0
  MaxFaults = 0
  Workers = 2
  Silent <- OneTask
  TasksPerRequest = 2
  BatchSize = 3
  MaxOutages = 0
PROPERTY EveryTaskSettles
CHECK_DEADLOCK FALSE
