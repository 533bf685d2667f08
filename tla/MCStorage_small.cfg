\* Log blocks of 5 bytes with headers of 2, three records, two cuts; tables over
\* eight keys under ten options; a file with a buffer of 2 bytes; a cache shard that is
\* often full and one of capacity 0.
SPECIFICATION StorageSpec
CONSTANTS
    BlockSize = 5
    HeaderSize = 2
    Lengths = {0, 1, 2, 7}
    MaxRecords = 3
    MaxCuts = 2
    MaxFragments = 4
    MaxByte = 3
    kMaxSequenceNumber = 9
    UserKeys <- MCUserKeys
    Numbers = {1, 2}
    TableOptions <- MCOptions
    kFilterBase = 8
    kBlockTrailerSize = 2
    bits_per_key = 30
    kProbes = 2
    BloomHash <- MCHash
    kWritableFileBufferSize = 2
    MaxAppended = 6
    MaxCreated = 1
    Keys = {k1, k2, k3}
    Charges = {1, 2}
    Capacities = {0, 2}
    MaxInserts = 4
    MaxHandles = 2
SYMMETRY Symmetry
INVARIANTS ReadsBack DamageContained LookupsExact BlocksReadBack IndexSeparates FileInOrder EntriesAccounted
