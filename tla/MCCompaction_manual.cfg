\* Manual compactions with memtables flushed in between.
SPECIFICATION Spec
CONSTANTS
    NumKeys = 3
    NumLevels = 4
    MaxMemCompactLevel = 2
    MaxSequenceNumber = 10
    MaxSeq = 5
    Workloads <- Gaps
INVARIANT LevelsDisjoint
