------------------------------- MODULE Levels -------------------------------
(***************************************************************************)
(* The pure part of Version and VersionSet (kv/db/version_set.cpp): files, *)
(* levels, the search of a key in a version, and the choice of the inputs  *)
(* of a compaction.                                                        *)
(*                                                                         *)
(* A table file is the set of its entries [key, seq, del]; del marks a     *)
(* deletion.  Files of level 0 come from flushes only, so the order of     *)
(* their file numbers is the order of their sequence numbers.              *)
(***************************************************************************)
EXTENDS Integers, FiniteSets, Sequences, FiniteSetsExt, SequencesExt

CONSTANTS
    NumKeys,               \* user keys are 1..NumKeys
    NumLevels,             \* config::kNumLevels
    MaxMemCompactLevel,    \* config::kMaxMemCompactLevel
    MaxSequenceNumber      \* kMaxSequenceNumber: above every sequence number in use

ASSUME LevelsAssumption ==
    /\ NumKeys \in Nat \ {0} /\ NumLevels \in Nat /\ MaxMemCompactLevel \in Nat
    /\ MaxMemCompactLevel < NumLevels - 1 /\ MaxSequenceNumber \in Nat

Keys == 1..NumKeys
Level == 0..(NumLevels - 1)

\* InternalKeyComparator: by user key, newest first.
Before(a, b) == a.key < b.key \/ (a.key = b.key /\ a.seq > b.seq)

Smallest(f) == CHOOSE a \in f : \A b \in f \ {a} : Before(a, b)
Largest(f) == CHOOSE a \in f : \A b \in f \ {a} : Before(b, a)
Newest(f) == Max({e.seq : e \in f})

\* The user-key ranges of a file and [b, e] meet.
Meets(f, b, e) == Largest(f).key >= b /\ Smallest(f).key <= e

\* The order of a level's files: BySmallestKey, or NewestFirst.
BySmallestKey(f, g) == Before(Smallest(f), Smallest(g))
NewestFirst(f, g) == Newest(f) > Newest(g)
-----------------------------------------------------------------------------
(***************************************************************************)
(* Reading a version                                                       *)
(***************************************************************************)
\* The first index whose largest key is at or after the key: binary search.
FindFile(files, k) ==
    LET search[l \in 0..Len(files), r \in 0..Len(files)] ==
            LET mid == (l + r) \div 2
            IN  IF l >= r THEN r
                ELSE IF Before(Largest(files[mid + 1]), k)
                THEN search[mid + 1, r] ELSE search[l, mid]
    IN  search[0, Len(files)] + 1

\* The files of level l in which Version::Get looks for user key k at
\* sequence s, in order.
ForEachOverlapping(v, l, k, s) ==
    IF l = 0
    THEN SetToSortSeq({f \in v[0] : Meets(f, k, k)}, NewestFirst)
    ELSE LET files == SetToSortSeq(v[l], BySmallestKey)
             i == FindFile(files, [key |-> k, seq |-> s])
         IN  IF i <= Len(files) /\ k >= Smallest(files[i]).key THEN <<files[i]>> ELSE <<>>

\* What a sorted run (a file, a memtable) has for key k at sequence s: an
\* entry at most.
Match(f, k, s) ==
    LET seen == {e \in f : e.key = k /\ e.seq <= s}
    IN  {e \in seen : \A x \in seen : x.seq <= e.seq}

\* The value of the first of some runs that knows the key: the sequence
\* number of the entry, or 0 for a deletion and for no entry.
FirstMatch(runs, k, s) ==
    LET hits == SelectSeq(runs, LAMBDA f : Match(f, k, s) # {})
        hit == CHOOSE e \in Match(hits[1], k, s) : TRUE
    IN  IF hits = <<>> \/ hit.del THEN 0 ELSE hit.seq

\* Version::Get: level 0, then the other levels in order.
VersionRuns(v, k, s) == FlattenSeq([i \in 1..NumLevels |-> ForEachOverlapping(v, i - 1, k, s)])
-----------------------------------------------------------------------------
(***************************************************************************)
(* Choosing files                                                          *)
(***************************************************************************)
\* SomeFileOverlapsRange: all files of level 0, binary search elsewhere.
OverlapInLevel(v, l, b, e) ==
    IF l = 0 THEN \E f \in v[0] : Meets(f, b, e)
    ELSE LET files == SetToSortSeq(v[l], BySmallestKey)
             i == FindFile(files, [key |-> b, seq |-> MaxSequenceNumber])
         IN  i <= Len(files) /\ Smallest(files[i]).key <= e

\* Variant of PickLevels that does not look at the level it descends to.
PickLevels_Blind(v, b, e) ==
    {p \in 0..MaxMemCompactLevel : p > 0 => ~OverlapInLevel(v, 0, b, e)}

\* The levels PickLevelForMemTableOutput may choose for a file with range
\* [b, e]: it descends while the next level has no overlap, and may stop
\* early where there is data two levels down (the byte limit is abstracted).
PickLevels(v, b, e) ==
    {p \in 0..MaxMemCompactLevel :
        /\ p > 0 => ~OverlapInLevel(v, 0, b, e)
        /\ \A l \in 1..p : ~OverlapInLevel(v, l, b, e)
        /\ \/ p = MaxMemCompactLevel
           \/ p = 0 /\ OverlapInLevel(v, 0, b, e)
           \/ OverlapInLevel(v, p + 1, b, e)
           \/ p + 2 < NumLevels /\ \E f \in v[p + 2] : Meets(f, b, e)}

\* The user-key range of a set of files (GetRange).
Range0(S) == Min({Smallest(f).key : f \in S})
Range1(S) == Max({Largest(f).key : f \in S})

\* The files of a level that overlap [b, e]; in level 0 the range grows with
\* every file that is added.
GetOverlappingInputs(v, l, b, e) ==
    LET hits(r) == {f \in v[l] : Meets(f, r[1], r[2])}
        grown[n \in 0..Cardinality(v[l])] ==
            IF n = 0 \/ l > 0 THEN <<b, e>>
            ELSE LET r == grown[n - 1]
                 IN  IF hits(r) = {} THEN r
                     ELSE <<Min({r[1], Range0(hits(r))}), Max({r[2], Range1(hits(r))})>>
    IN  hits(grown[Cardinality(v[l])])

\* Variant of AddBoundaryInputs that adds nothing.
AddBoundaryInputs_None(files, S) == S

\* Adds to S the files of its level that go on with the user key S ends with.
AddBoundaryInputs(files, S) ==
    LET last(T) == Largest(UNION T)
        next(T) == {f \in files : /\ Before(last(T), Smallest(f))
                                  /\ Smallest(f).key = last(T).key}
        added[n \in 0..Cardinality(files)] ==
            IF n = 0 THEN S
            ELSE LET T == added[n - 1]
                 IN  IF next(T) = {} THEN T
                     ELSE T \cup {CHOOSE f \in next(T) :
                                     \A g \in next(T) \ {f} : BySmallestKey(f, g)}
    IN  IF S = {} THEN S ELSE added[Cardinality(files)]

\* SetupOtherInputs: the inputs <<of level l, of level l + 1>> for a choice S
\* in level l; a larger choice may be within the byte limit or not.
SetupOtherInputs(v, l, S) ==
    LET in0 == AddBoundaryInputs(v[l], S)
        in1 == GetOverlappingInputs(v, l + 1, Range0(in0), Range1(in0))
        all == in0 \cup in1
        expanded0 == AddBoundaryInputs(v[l],
                        GetOverlappingInputs(v, l, Range0(all), Range1(all)))
        expanded1 == GetOverlappingInputs(v, l + 1, Range0(expanded0), Range1(expanded0))
    IN  {<<in0, in1>>} \cup
        {in \in {<<expanded0, expanded1>>} :
            /\ in1 # {}
            /\ Cardinality(in[1]) > Cardinality(in0) /\ Cardinality(in[2]) = Cardinality(in1)}

\* PickCompaction: a file of the level (after the compaction pointer, or out
\* of seeks); in level 0 with all files it overlaps.
PickInputs(v, l, f) ==
    IF l = 0 THEN GetOverlappingInputs(v, 0, Smallest(f).key, Largest(f).key) ELSE {f}

\* VersionSet::CompactRange: the files in the range, in a level above 0 cut
\* off after some file where the byte limit is reached.
RangeInputs(v, l, b, e) ==
    LET all == GetOverlappingInputs(v, l, b, e)
    IN  IF l = 0 THEN {all}
        ELSE {{f \in all : ~BySmallestKey(g, f)} : g \in all}
=============================================================================
