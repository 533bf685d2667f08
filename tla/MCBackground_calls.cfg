SPECIFICATION BgFairSpec
CONSTANTS
  NULL = NULL
  Compactors = {c1, c2}
  Closer = closer
  CloseAllowed = TRUE
  IOFails = TRUE
  L0Trigger = 2
  L0Stop = 3
  MaxTables = 4
  MaxBacklog = 1
  MaxManual = 1
  MaxPieces = 1
INVARIANTS WorkIsScheduled WaitersWillBeNotified LogsCoverUnflushed RequestLivesUnlessError ClosedIsQuiet
PROPERTIES CallsComplete
