\* One thread, one partition, every write fits in the budget.
SPECIFICATION Spec
CONSTANTS
  small = small
  big = big
  bigger = bigger
  Threads = {t1}
  Tasks = {1}
  Writes <- MCWrites
  EntrySize <- MCEntrySize
  Budget = 6
  BackgroundMode = TRUE
INVARIANTS
  BufferedIsPublished
CHECK_DEADLOCK FALSE
