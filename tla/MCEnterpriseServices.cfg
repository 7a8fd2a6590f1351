\* Bounds: two uploads at once; counters of the encryption that
\* overflow, and pieces that begin and end inside a block; bytes of two values.
SPECIFICATION Spec
CONSTANTS
  Calls = {c1, c2}
  Requests = {r1, r2}
  Docs <- MCDocs
  SegmentOf <- MCSegmentOf
  MaxScore = 1
  MaxByte = 2
  MaxKeyLength = 2
  MaxPartitions = 3
  CounterDigits = 2
  BlockSize = 2
  IntLimit = 3
  FileSize = 6
  MaxStarts = 2
  Clients = {k1, k2}
  Width = 2
  MaxPayload = 1
  MaxConnects = 2
  MaxMessages = 2
  Base = 2
  Names <- MCNames
  RuleChoices <- MCRuleChoices
  KeptDigits = 1
  MaxLength = 3
  MaxConfigs = 4
  GraphCollections <- MCGraphCollections
  GraphKeys <- MCGraphKeys
  Attributes <- MCAttributes
  Hash <- MCHash
  MaxVertices = 2
  MaxEdges = 2
  MaxSteps = 2
INVARIANTS
  ReturnedCleanly
  TimeoutHasReason
  RequestsIsolated
  TopKIsExact
  EveryKeyCovered
  ReadsBack
  TransportIsSound
  MaskedAsDeclared
  TraversalStaysLocal
PROPERTIES
  UploadReturns
CHECK_DEADLOCK FALSE
