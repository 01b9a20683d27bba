SPECIFICATION FairSpec
CONSTANTS
  d1 = d1
  r1 = r1
  r2 = r2
  t1 = t1
  t2 = t2
  Docs = {d1}
  Requests = {r1, r2}
  Tasks = {t1, t2}
  Concurrency = 2
  MaxRetry = 1
  SparseEnabled = TRUE
  MaxFaults = 1
  NoChunks = NoChunks
  NoDoc = NoDoc
PROPERTIES
  TasksSettle
  EventuallyReady
