\* One workflow that its own row changes trigger again: five events, channels
\* of one, one kill; what the fairness of the workers guarantees.
CONSTANTS
  db1 = db1
  w1 = w1
  w2 = w2
  e1 = e1
  e2 = e2
  e3 = e3
  e4 = e4
  e5 = e5
  h1 = h1
  k1 = k1
  k2 = k2
  m1 = m1
  Databases = {db1}
  Workflows = {w1}
  DbOf <- OneDb
  Interval <- NoInterval
  DailyAt <- NoDailyAt
  NoDaily = NoDaily
  Retention <- KeepAll
  NoRetention = NoRetention
  Day = 4
  Events = {e1, e2, e3, e4, e5}
  Kind <- KindOf
  EventDb <- EventsOneDb
  Wanted <- WantedBy
  Source <- SourceOf
  TickTime <- TimeNextDay
  Manuals = {}
  ManualOf <- OfW1
  EventCap = 1
  JobCap = 1
  MaxCrashes = 1
  NoEvent = NoEvent
  NoWorkflow = NoWorkflow
  NoRun = NoRun
SPECIFICATION FairSpec
CONSTRAINT InOrder
PROPERTIES
  EventsHandled
  RunsEnd
  MatchedEventsStart
CHECK_DEADLOCK FALSE
