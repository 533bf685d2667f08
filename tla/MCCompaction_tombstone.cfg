\* Deletes, a snapshot and outputs of several files together.
SPECIFICATION Spec
CONSTANTS
    NumKeys = 2
    NumLevels = 3
    MaxMemCompactLevel = 1
    MaxSequenceNumber = 10
    MaxSeq = 4
    Workloads <- Tombstones
INVARIANT DeletionsStay
