\* Two ticks of one day and a daily schedule: the second comes before the run of
\* the first has ended.
CONSTANTS
  db1 = db1
  w1 = w1
  w2 = w2
  e1 = e1
  e2 = e2
  e3 = e3
  e4 = e4
  e5 = e5
  h1 = h1
  k1 = k1
  k2 = k2
  m1 = m1
  Databases = {db1}
  Workflows = {w2}
  DbOf <- OneDb
  Interval <- NoInterval
  DailyAt <- DailyAtOne
  NoDaily = NoDaily
  Retention <- KeepAll
  NoRetention = NoRetention
  Day = 4
  Events = {k1, k2}
  Kind <- KindOf
  EventDb <- EventsOneDb
  Wanted <- WantedBy
  Source <- SourceOf
  TickTime <- TimeOf
  Manuals = {}
  ManualOf <- OfW2
  EventCap = 1
  JobCap = 1
  MaxCrashes = 0
  NoEvent = NoEvent
  NoWorkflow = NoWorkflow
  NoRun = NoRun
SPECIFICATION Spec
INVARIANTS
  OncePerDay
CHECK_DEADLOCK FALSE
