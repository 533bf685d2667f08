\* Three workloads: snapshots, split deletions, manual compactions of split versions.
SPECIFICATION Spec
CONSTANTS
    NumKeys = 3
    NumLevels = 3
    MaxMemCompactLevel = 1
    MaxSequenceNumber = 10
    MaxSeq = 4
    Workloads <- Mixed
INVARIANTS NewerAbove ReadsCorrect LevelsDisjoint
