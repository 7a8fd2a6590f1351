\* Two threads, up to two partitions, writes of sizes 1, 2 and 3 of which at
\* most two fit in the budget.
SPECIFICATION FairSpec
CONSTANTS
  small = small
  big = big
  bigger = bigger
  Threads = {t1, t2}
  Tasks = {1, 2}
  Writes <- MCWrites
  EntrySize <- MCEntrySize
  Budget = 4
  BackgroundMode = TRUE
INVARIANTS
  PublishedIsFilled
  MemoryAccounted
  NoTaskOutlivesFill
PROPERTIES
  FillReturns
CHECK_DEADLOCK FALSE
