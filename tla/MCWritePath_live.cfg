SPECIFICATION WriteFairSpec
CONSTANTS
  NULL = NULL
  Compactors = {c1}
  Closer = closer
  CloseAllowed = FALSE
  IOFails = TRUE
  L0Trigger = 1
  L0Stop = 1
  MaxTables = 4
  MaxBacklog = 0
  MaxManual = 1
  MaxPieces = 0
  k1 = k1
  k2 = k2
  Keys = {k1, k2}
  Writers = {w1, w2, w3}
  Readers = {}
  Batches <- Singles
  Syncs = {FALSE}
  Forced = {w3}
  LogFails = TRUE
  MemLimit = 1
  SmallBatch = 2
  GroupLimit = 3
  L0Slowdown = 1
  MaxCalls = 1
  MaxGets = 0
PROPERTY WritersReturn
