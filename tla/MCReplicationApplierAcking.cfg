\* Two shards, a source that does not repeat acknowledged messages, one
\* failing write.  The system stops once everything is acknowledged.
SPECIFICATION AckingSpec
CONSTANTS
  Shards = {s1, s2}
  Satellites = {}
  MaxSeq = 2
  MaxBatch = 1
  MaxFailures = 1
PROPERTIES
  AckedIsEventuallyApplied
CHECK_DEADLOCK FALSE
