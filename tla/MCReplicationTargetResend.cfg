\* One worker, one shard, two messages; the network may deliver them in any
\* order and again.
SPECIFICATION Spec
CONSTANTS
  own = own
  shared = shared
  w1 = w1
  w2 = w2
  NoFile = NoFile
  Partial = Partial
  Shards <- MCShards
  Workers <- MCWorkers
  Own <- MCOwn
  MaxSeq = 2
  MaxCrashes = 0
PROPERTIES
  RejectedWasApplied
