\* One connection, one job: a Dispatch whose connection is gone waits on.
CONSTANTS
  c1 = c1
  c2 = c2
  j1 = j1
  j2 = j2
  db1 = db1
  db2 = db2
  n1 = n1
  t1 = t1
  t2 = t2
  r1 = r1
  r2 = r2
  Conns = {c1}
  Jobs = {j1}
  Resets = {}
  Databases = {db1}
  Names = {n1}
  NodeTypes = {t1}
  ConnDb <- SameConnDb
  HelloName <- SameHelloName
  HelloTypes <- OneTypeHello
  JobDb <- SameJobDb
  JobRunner <- SameJobRunner
  JobType <- SameJobType
  ResetDb <- SameResetDb
  OriginalToken = OriginalToken
  NoConn = NoConn
  NoJob = NoJob
  SendCap = 1
  MaxJobs = 1
SPECIFICATION Spec
INVARIANTS
  InFlightJobsFailOnDrop
CHECK_DEADLOCK FALSE
