\* Three changes in two managed paths, a channel of two, one shutdown or kill.
CONSTANTS
  c1 = c1
  c2 = c2
  c3 = c3
  Changes = {c1, c2, c3}
  Start = Start
  Paths <- TwoPaths
  PathOf <- PathOfThree
  Creating = {c3}
  Cap = 2
  MaxEnds = 1
SPECIFICATION FairSpec
INVARIANTS
  TypeOK
  IdleMeansPushed
  IdleMayStop
  NothingWaitsSilently
PROPERTIES
  CommitHoldsItsChanges
  AnnouncedReachesRemote
CHECK_DEADLOCK FALSE
