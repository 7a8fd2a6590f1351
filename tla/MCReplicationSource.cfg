\* Four WAL entries, batches of two.
SPECIFICATION FairSpec
CONSTANTS
  s0 = s0
  s1 = s1
  Callers <- MCShards
  Wal <- MCWal
  BatchSize = 2
INVARIANTS
  TakenOnceInOrder
  ShippedBeforeExit
  NumbersGrow
PROPERTIES
  EveryEntryShipped
CHECK_DEADLOCK FALSE
