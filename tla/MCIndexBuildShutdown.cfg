\* Two threads, up to two partitions, no writes (not in background mode).
SPECIFICATION FairSpec
CONSTANTS
  small = small
  big = big
  bigger = bigger
  Threads = {t1, t2}
  Tasks = {1, 2}
  Writes <- MCWrites
  EntrySize <- MCEntrySize
  Budget = 4
  BackgroundMode = FALSE
PROPERTIES
  ShutdownReturns
CHECK_DEADLOCK FALSE
