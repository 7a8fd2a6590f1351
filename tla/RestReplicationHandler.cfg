\* Two shards, two handlers at a time, three messages; the default page is one
\* message, the largest two, and clients ask for 0 and for 3.
SPECIFICATION FairSpec
CONSTANTS
  Shards = {s1, s2}
  Requests = {r1, r2}
  MaxMessages = 3
  Counts = {0, 3}
  DefaultCount = 1
  CountCeiling = 2
INVARIANTS
  DeliveredOnceInOrder
  AppliedWasDelivered
PROPERTIES
  HasMoreIsRight
  RewindNeedsStaleRead
  EveryMessageDelivered
CHECK_DEADLOCK FALSE
