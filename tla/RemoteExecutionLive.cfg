\* One connection with a send channel of one and two jobs, or one job and a
\* token reset: what the fairness of the hub guarantees.
CONSTANTS
  c1 = c1
  c2 = c2
  j1 = j1
  j2 = j2
  db1 = db1
  db2 = db2
  n1 = n1
  t1 = t1
  t2 = t2
  Conns = {c1}
  Jobs = {j1, j2}
  r1 = r1
  r2 = r2
  Resets = {r1}
  Databases = {db1}
  Names = {n1}
  NodeTypes = {t1}
  ConnDb <- SameConnDb
  HelloName <- SameHelloName
  HelloTypes <- OneTypeHello
  JobDb <- SameJobDb
  JobRunner <- SameJobRunner
  JobType <- SameJobType
  ResetDb <- SameResetDb
  OriginalToken = OriginalToken
  NoConn = NoConn
  NoJob = NoJob
  SendCap = 1
  MaxJobs = 1
SPECIFICATION FairSpec
CONSTRAINT ResetOrJob
INVARIANTS
  TypeOK
PROPERTIES
  DropFailsJobs
  DispatchReturns
  CollectedConnsLeave
CHECK_DEADLOCK FALSE
