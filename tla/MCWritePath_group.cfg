SPECIFICATION WriteSpec
CONSTANTS
  NULL = NULL
  Compactors = {}
  Closer = closer
  CloseAllowed = TRUE
  IOFails = TRUE
  L0Trigger = 2
  L0Stop = 2
  MaxTables = 5
  MaxBacklog = 0
  MaxManual = 0
  MaxPieces = 0
  k1 = k1
  k2 = k2
  Keys = {k1, k2}
  Writers = {w1, w2, w3}
  Readers = {r1}
  Batches <- SinglesAndPairs
  Syncs = {TRUE, FALSE}
  Forced = {w3}
  LogFails = TRUE
  MemLimit = 2
  SmallBatch = 1
  GroupLimit = 3
  L0Slowdown = 1
  MaxCalls = 1
  MaxGets = 1
INVARIANTS NobodySleepsForEver SyncedDurableUnlessFailed SequenceNumbersUnique RefsMatchHolders
PROPERTIES ImmIsImmutable ImplementsBackground ImplementsKVStore
SYMMETRY Symmetry
CONSTRAINT ReadsWithPlainWrites
