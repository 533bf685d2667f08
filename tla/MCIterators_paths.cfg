\* Every order of three insertions with every height under an iterator of the
\* skip list; every path of a DB iterator over small databases with a block that
\* cannot be read, a damaged entry, deletions, and a write while it moves.
SPECIFICATION IteratorsSpec
CONSTANTS
    Keys = {1, 2, 3}
    kMaxHeight = 3
    Readers = {r1}
    UserKeys = {1, 2, 3}
    Databases <- MCDatabases
    LastSequence = 4
    MaxInserts = 1
INVARIANTS LinksSound SearchesExact PositionDocumented
PROPERTIES ImplementsCursor
