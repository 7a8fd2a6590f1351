\* Two requests at a time with up to two events each.
SPECIFICATION FairSpec
CONSTANTS
  Producers = {p1, p2}
  MaxEvents = 2
INVARIANTS
  NothingLostOrReordered
  StopDrains
PROPERTIES
  LoggedReachesFile
CHECK_DEADLOCK FALSE
