\* Two connections of the same runner name, a job they support, a job they do
\* not, and a token reset: every interleaving of dispatch, results, drops,
\* write failures and runner crashes.
CONSTANTS
  c1 = c1
  c2 = c2
  j1 = j1
  j2 = j2
  db1 = db1
  db2 = db2
  n1 = n1
  t1 = t1
  t2 = t2
  r1 = r1
  r2 = r2
  Conns = {c1, c2}
  Jobs = {j1, j2}
  Resets = {r1}
  Databases = {db1}
  Names = {n1}
  NodeTypes = {t1, t2}
  ConnDb <- SameConnDb
  HelloName <- SameHelloName
  HelloTypes <- OneTypeHello
  JobDb <- SameJobDb
  JobRunner <- SameJobRunner
  JobType <- TwoTypesJob
  ResetDb <- SameResetDb
  OriginalToken = OriginalToken
  NoConn = NoConn
  NoJob = NoJob
  SendCap = 1
  MaxJobs = 1
SPECIFICATION Spec
SYMMETRY Symmetric
CONSTRAINT ResetOrJob
INVARIANTS
  SingleAnswer
  NoLostAnswer
  OutcomeTellsExecution
  DropFailsOnlyItsJobs
PROPERTIES
  ImplementsRemoteCall
CHECK_DEADLOCK FALSE
