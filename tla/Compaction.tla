----------------------------- MODULE Compaction -----------------------------
(***************************************************************************)
(* What the background thread does to the data: memtable flushes,          *)
(* compactions and trivial moves over the levels of the current version    *)
(* (kv/db/db_impl.cpp, version_set.cpp), interleaved with writes and with  *)
(* snapshots being taken and released.                                     *)
(*                                                                         *)
(* A compaction chooses its inputs and its smallest snapshot under the     *)
(* mutex, merges with the mutex released, and installs its result later;   *)
(* memtables are flushed in between.  Only the background thread changes   *)
(* the version, so a flush (level choice and install) is one step.         *)
(***************************************************************************)
EXTENDS Levels

CONSTANTS
    MaxSeq,      \* bound: number of writes under any workload
    Workloads    \* what clients may do; one is chosen at the start:
                 \*   keys       the keys written are 1..keys
                 \*   writes     bound: number of writes
                 \*   deletes    whether keys are deleted
                 \*   snapshots  bound: snapshots held at once
                 \*   manual     whether CompactRange is called
                 \*   splits     whether outputs outgrow MaxOutputFileSize

ASSUME CompactionAssumption ==
    /\ MaxSeq \in Nat /\ MaxSeq < MaxSequenceNumber
    /\ Workloads \subseteq [keys : 1..NumKeys, writes : 1..MaxSeq, deletes : BOOLEAN,
                            snapshots : Nat, manual : BOOLEAN, splits : BOOLEAN]

VARIABLES
    mem_, imm_,       \* the memtables: sets of entries, {} when there is none
    levels,           \* current_->files_
    last_sequence_,
    snapshots_,       \* sequence numbers of the snapshots held
    compaction,       \* the running compaction, in a set: at most one
    history,          \* all entries ever written
    workload          \* never changes

vars == <<mem_, imm_, levels, last_sequence_, snapshots_, compaction, history, workload>>

Entries == [key : Keys, seq : 1..MaxSeq, del : BOOLEAN]

Init ==
    /\ mem_ = {} /\ imm_ = {} /\ levels = [l \in Level |-> {}]
    /\ last_sequence_ = 0 /\ snapshots_ = {} /\ compaction = {} /\ history = {}
    /\ workload \in Workloads
-----------------------------------------------------------------------------
(***************************************************************************)
(* Clients                                                                 *)
(***************************************************************************)
\* DBImpl::Write of one Put or Delete.
Write(k, d) ==
    /\ last_sequence_ < workload.writes /\ k <= workload.keys /\ (d => workload.deletes)
    /\ LET e == [key |-> k, seq |-> last_sequence_ + 1, del |-> d]
       IN  mem_' = mem_ \cup {e} /\ history' = history \cup {e}
    /\ last_sequence_' = last_sequence_ + 1
    /\ UNCHANGED <<imm_, levels, snapshots_, compaction, workload>>

\* MakeRoomForWrite: a full memtable becomes the immutable one.
SwitchMemTable ==
    /\ imm_ = {} /\ mem_ # {}
    /\ imm_' = mem_ /\ mem_' = {}
    /\ UNCHANGED <<levels, last_sequence_, snapshots_, compaction, history, workload>>

\* The list of snapshots, as the set of their sequence numbers.
GetSnapshot ==
    /\ Cardinality(snapshots_) < workload.snapshots
    /\ snapshots_' = snapshots_ \cup {last_sequence_}
    /\ UNCHANGED <<mem_, imm_, levels, last_sequence_, compaction, history, workload>>

ReleaseSnapshot(s) ==
    /\ s \in snapshots_
    /\ snapshots_' = snapshots_ \ {s}
    /\ UNCHANGED <<mem_, imm_, levels, last_sequence_, compaction, history, workload>>

\* DBImpl::Get: memtable, immutable memtable, version.
Get(k, s) == FirstMatch(<<mem_, imm_>> \o VersionRuns(levels, k, s), k, s)

\* DBIter over NewInternalIterator, standing at key k: the newest entry that
\* the merge of all runs has at sequence s.
Scan(k, s) == FirstMatch(<<mem_ \cup imm_ \cup UNION UNION {levels[l] : l \in Level}>>, k, s)
-----------------------------------------------------------------------------
(***************************************************************************)
(* The background thread                                                   *)
(***************************************************************************)
\* CompactMemTable, called when idle or from within DoCompactionWork.
CompactMemTable ==
    /\ imm_ # {}
    /\ \E l \in PickLevels(levels, Smallest(imm_).key, Largest(imm_).key) :
           levels' = [levels EXCEPT ![l] = @ \cup {imm_}]
    /\ imm_' = {}
    /\ UNCHANGED <<mem_, last_sequence_, snapshots_, compaction, history, workload>>

\* The grandparent files of the inputs.
Grandparents(l, in) ==
    IF l + 2 >= NumLevels THEN {}
    ELSE LET all == in[1] \cup in[2]
         IN  GetOverlappingInputs(levels, l + 2, Range0(all), Range1(all))

\* Variant of SmallestSnapshot that ignores the snapshots held.
SmallestSnapshot_Ignored ==
    last_sequence_

\* The entries a compaction started now may not hide from anybody.
SmallestSnapshot ==
    IF snapshots_ = {} THEN last_sequence_ ELSE Min(snapshots_)

\* DoCompactionWork begins; input_version_ is the current version.
BeginWork(l, in) ==
    /\ compaction' = {[level |-> l, in0 |-> in[1], in1 |-> in[2],
                       input_version |-> levels, smallest_snapshot |-> SmallestSnapshot]}
    /\ UNCHANGED <<mem_, imm_, levels, last_sequence_, snapshots_, history, workload>>

\* A single file without overlap in the next level goes down as it is.
TrivialMove(l, f) ==
    /\ levels' = [levels EXCEPT ![l] = @ \ {f}, ![l + 1] = @ \cup {f}]
    /\ UNCHANGED <<mem_, imm_, last_sequence_, snapshots_, compaction, history, workload>>

\* BackgroundCompaction of file f of level l (size or seek compaction).  The
\* byte limit on grandparents is abstracted: with none, it is not reached.
AutomaticCompaction(l, f) ==
    /\ compaction = {} /\ imm_ = {}
    /\ \E in \in SetupOtherInputs(levels, l, PickInputs(levels, l, f)) :
       LET single == Cardinality(in[1]) = 1 /\ in[2] = {}
       IN  \/ single /\ \E g \in in[1] : TrivialMove(l, g)
           \/ (single => Grandparents(l, in) # {}) /\ BeginWork(l, in)

\* BackgroundCompaction for a CompactRange request; never a trivial move.
ManualCompaction(l, b, e) ==
    /\ workload.manual /\ compaction = {} /\ imm_ = {}
    /\ GetOverlappingInputs(levels, l, b, e) # {}
    /\ \E S \in RangeInputs(levels, l, b, e) :
           \E in \in SetupOtherInputs(levels, l, S) : BeginWork(l, in)

\* Whether no level below the output level can hold the key.
IsBaseLevelForKey(c, k) ==
    \A l \in (c.level + 2)..(NumLevels - 1) :
        \A f \in c.input_version[l] : ~Meets(f, k, k)

\* The entries DoCompactionWork does not drop: (A) not hidden by a newer
\* entry at or below the smallest snapshot, and not an obsolete deletion.
Kept(c) ==
    LET in == UNION (c.in0 \cup c.in1)
    IN  {e \in in :
            /\ \A n \in in : n.key = e.key /\ n.seq > e.seq => n.seq > c.smallest_snapshot
            /\ ~(e.del /\ e.seq <= c.smallest_snapshot /\ IsBaseLevelForKey(c, e.key))}

\* The ways to cut a run of entries into output files: before each of the
\* entries in cuts.
Outputs(kept, cuts) ==
    LET file(e) == {x \in cuts : ~Before(e, x)}
    IN  {{e \in kept : file(e) = file(d)} : d \in kept}

\* The merge is done: FinishCompactionOutputFile, InstallCompactionResults.
InstallCompactionResults(c) ==
    /\ c \in compaction
    /\ LET kept == Kept(c)
           later == {e \in kept : \E d \in kept : Before(d, e)}
       IN  \E cuts \in IF workload.splits THEN SUBSET later ELSE {{}} :
               levels' = [levels EXCEPT ![c.level] = @ \ c.in0,
                                        ![c.level + 1] = (@ \ c.in1) \cup Outputs(kept, cuts)]
    /\ compaction' = {}
    /\ UNCHANGED <<mem_, imm_, last_sequence_, snapshots_, history, workload>>

\* The workload is over and all data is in the last level.
Idle ==
    /\ last_sequence_ = workload.writes /\ mem_ = {} /\ imm_ = {} /\ compaction = {}
    /\ \A l \in 0..(NumLevels - 2) : levels[l] = {}
    /\ UNCHANGED vars
-----------------------------------------------------------------------------
Next ==
    \/ \E k \in Keys, d \in BOOLEAN : Write(k, d)
    \/ SwitchMemTable
    \/ GetSnapshot
    \/ \E s \in snapshots_ : ReleaseSnapshot(s)
    \/ CompactMemTable
    \/ \E l \in 0..(NumLevels - 2) :
           \/ \E f \in levels[l] : AutomaticCompaction(l, f)
           \/ \E b, e \in Keys : b <= e /\ ManualCompaction(l, b, e)
    \/ \E c \in compaction : InstallCompactionResults(c)
    \/ Idle

Spec == Init /\ [][Next]_vars
-----------------------------------------------------------------------------
(***************************************************************************)
(* Properties                                                              *)
(***************************************************************************)
\* The files of a level above 0 do not overlap: the order Builder::SaveTo and
\* MaybeAddFile assert, on which the binary search of FindFile relies, holds
\* whatever is flushed while a compaction is merging.
LevelsDisjoint ==
    \A l \in 1..(NumLevels - 1) : \A f, g \in levels[l] :
        f # g => Before(Largest(f), Smallest(g)) \/ Before(Largest(g), Smallest(f))

\* Version::Get stops at the first level that knows a key: so of one key,
\* everything in a level is newer than everything in deeper levels, and what
\* the memtables hold is newer than any file.
NewerAbove ==
    LET run(i) == CASE i = -2 -> mem_ [] i = -1 -> imm_ [] OTHER -> UNION levels[i]
    IN  \A i, j \in -2..(NumLevels - 1) : i < j =>
            \A a \in run(i), b \in run(j) : a.key = b.key => a.seq > b.seq

\* What a reader at sequence s must see of key k: the last write at or before
\* s, 0 if that is a deletion or there is none.
Expected(k, s) == FirstMatch(<<history>>, k, s)

\* Get at the current sequence and at every snapshot held returns what was
\* written last at that point, however the data was flushed and compacted
\* since: no write is lost, none reappears, and no snapshot changes.  So does
\* an iterator, which merges all runs instead of searching level by level.
ReadsCorrect ==
    \A k \in Keys, s \in snapshots_ \cup {last_sequence_} :
        Get(k, s) = Expected(k, s) /\ Scan(k, s) = Expected(k, s)

\* A deletion dropped by a compaction was obsolete: no deleted key has a value
\* again (the comment at the drop rule of DoCompactionWork).
DeletionsStay ==
    \A k \in Keys : Expected(k, last_sequence_) = 0 => Get(k, last_sequence_) = 0
=============================================================================
