\* A replicated shard and a satellite, messages 0..3 of each, single calls and
\* batches of two, two failing writes.
SPECIFICATION RetransmittingSpec
CONSTANTS
  Shards = {s1, sat}
  Satellites = {sat}
  MaxSeq = 3
  MaxBatch = 2
  MaxFailures = 2
INVARIANTS
  InOrderExactlyOnce
  AckedIsKept
  BufferedWaitsForGap
PROPERTIES
  ImplementsOrderedLog
  EveryShardCatchesUp
