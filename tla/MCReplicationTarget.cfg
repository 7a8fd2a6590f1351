\* Messages 1..2 of a shard with one worker and of a shard with two; the
\* process crashes twice.
SPECIFICATION Spec
CONSTANTS
  own = own
  shared = shared
  w1 = w1
  w2 = w2
  NoFile = NoFile
  Partial = Partial
  Shards <- MCShards
  Workers <- MCWorkers
  Own <- MCOwn
  MaxSeq = 2
  MaxCrashes = 2
INVARIANTS
  CheckpointBehindDatabase
PROPERTIES
  CheckpointedIsNotReplayed
  AppliedOncePerRun
  TrackerNeverRewinds
