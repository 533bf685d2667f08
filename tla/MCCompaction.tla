---------------------------- MODULE MCCompaction ----------------------------
(***************************************************************************)
(* TLC instances of Compaction.                                            *)
(***************************************************************************)
EXTENDS Compaction

\* Puts, deletes and a snapshot; every output fits in one file.
Snapshots ==
    [keys |-> 2, writes |-> 3, deletes |-> TRUE, snapshots |-> 1, manual |-> FALSE, splits |-> FALSE]

\* Puts and deletes, outputs of any number of files, no snapshot.
Deletions ==
    [keys |-> 3, writes |-> 4, deletes |-> TRUE, snapshots |-> 0, manual |-> FALSE, splits |-> TRUE]

\* Versions of one key kept for a snapshot and split between files, and
\* manual compactions of them.
Boundaries ==
    [keys |-> 2, writes |-> 4, deletes |-> FALSE, snapshots |-> 1, manual |-> TRUE, splits |-> TRUE]

\* Deletes, a snapshot and outputs of several files together.
SplitDeletions ==
    [keys |-> 2, writes |-> 4, deletes |-> TRUE, snapshots |-> 1, manual |-> FALSE, splits |-> TRUE]

\* Manual compactions with memtables flushed in between.
Ranges ==
    [keys |-> 3, writes |-> 5, deletes |-> FALSE, snapshots |-> 0, manual |-> TRUE, splits |-> FALSE]

Mixed == {Snapshots, Deletions, Boundaries}
Tombstones == {SplitDeletions}
Gaps == {Ranges}
=============================================================================
