\* A workflow triggered by row changes, its own included, and one by a webhook or
\* by ticks: one disabling, departure, manual run or kill on the way.
CONSTANTS
  db1 = db1
  w1 = w1
  w2 = w2
  e1 = e1
  e2 = e2
  e3 = e3
  e4 = e4
  e5 = e5
  h1 = h1
  k1 = k1
  k2 = k2
  m1 = m1
  Databases = {db1}
  Workflows = {w1, w2}
  DbOf <- OneDb
  Interval <- IntervalNine
  DailyAt <- DailyAtOne
  NoDaily = NoDaily
  Retention <- KeepOneDay
  NoRetention = NoRetention
  Day = 4
  Events = {e1, e2, h1, k1, k2}
  Kind <- KindOf
  EventDb <- EventsOneDb
  Wanted <- WantedBy
  Source <- SourceOf
  TickTime <- TimeNextDay
  Manuals = {m1}
  ManualOf <- OfW2
  EventCap = 1
  JobCap = 2
  MaxCrashes = 1
  NoEvent = NoEvent
  NoWorkflow = NoWorkflow
  NoRun = NoRun
SPECIFICATION Spec
CONSTRAINTS OneDisturbance ThreeEvents HookOrTicks
INVARIANTS
  TypeOK
PROPERTIES
  DeliversInOrder
  DisabledEnds
CHECK_DEADLOCK FALSE
