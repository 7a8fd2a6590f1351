\* Two requests at a time, two backups, a crash.
SPECIFICATION FairSpec
CONSTANTS
  Clients = {c1, c2}
  Ids = {1, 2}
  Files = {f1}
  MaxSeq = 0
  MaxCrashes = 1
INVARIANTS
  ShownWasCheckpointed
  CreatedStays
  ListsAllCreated
  RemovedStaysRemoved
PROPERTIES
  RequestsReturn
