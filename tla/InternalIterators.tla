------------------------- MODULE InternalIterators -------------------------
(***************************************************************************)
(* The iterators a DBIter is built on: TwoLevelIterator over the blocks of *)
(* a table or the files of a level, and MergingIterator over those and the *)
(* memtable.  Operators only: what each operation of an iterator leaves.   *)
(*                                                                         *)
(* An entry is [key, seq, type], in the order of InternalKeyComparator: by *)
(* user key, the newest first.  An iterator stands on an entry or on None. *)
(***************************************************************************)
EXTENDS Integers, Sequences, FiniteSets

None == [key |-> 0, seq |-> 0, type |-> "none"]

Less(a, b) == a.key < b.key \/ (a.key = b.key /\ a.seq > b.seq)
AtMost(a, b) == Less(a, b) \/ (a.key = b.key /\ a.seq = b.seq)

\* Positions in a sorted set of entries: a memtable, or a data block.
First(S) == IF S = {} THEN None ELSE CHOOSE e \in S : \A o \in S : AtMost(e, o)
Last(S) == IF S = {} THEN None ELSE CHOOSE e \in S : \A o \in S : AtMost(o, e)
AtOrAfter(S, t) == First({e \in S : AtMost(t, e)})
After(S, t) == First({e \in S : Less(t, e)})
Before(S, t) == Last({e \in S : Less(e, t)})
-----------------------------------------------------------------------------
(***************************************************************************)
(* TwoLevelIterator.  A table is a sequence of blocks [entries, sep, ok]:  *)
(* sep is the block's key in the index, no entry is after it, and a block  *)
(* that is not ok reads as an iterator over nothing with an error status.  *)
(* A level is a table whose blocks are its files.  State: index and data   *)
(* number the blocks index_iter_ and data_iter_ are on (0: none), pos is   *)
(* where data_iter_ stands, and status_ is FALSE once an error was saved.  *)
(***************************************************************************)
NewIterator == [index |-> 0, data |-> 0, pos |-> None, status_ |-> TRUE]

Entries(t, b) == IF b # 0 /\ t[b].ok THEN t[b].entries ELSE {}

SetDataIterator(t, i, b) ==
    [i EXCEPT !.status_ = @ /\ (i.data # 0 => t[i.data].ok), !.data = b, !.pos = None]

InitDataBlock(t, i) ==
    IF i.data # 0 /\ i.data = i.index THEN i ELSE SetDataIterator(t, i, i.index)

RECURSIVE SkipEmptyDataBlocksForward(_, _)
SkipEmptyDataBlocksForward(t, i) ==
    CASE i.pos # None -> i
      [] i.pos = None /\ i.index = 0 -> SetDataIterator(t, i, 0)
      [] OTHER ->
            LET n == InitDataBlock(t, [i EXCEPT !.index = (@ + 1) % (Len(t) + 1)])
            IN  SkipEmptyDataBlocksForward(t, [n EXCEPT !.pos = First(Entries(t, n.data))])

\* Variant of SkipEmptyDataBlocksBackward that enters a block at its start.
RECURSIVE SkipEmptyDataBlocksBackward_AtFirst(_, _)
SkipEmptyDataBlocksBackward_AtFirst(t, i) ==
    CASE i.pos # None -> i
      [] i.pos = None /\ i.index = 0 -> SetDataIterator(t, i, 0)
      [] OTHER ->
            LET n == InitDataBlock(t, [i EXCEPT !.index = @ - 1])
            IN  SkipEmptyDataBlocksBackward_AtFirst(t, [n EXCEPT !.pos = First(Entries(t, n.data))])

RECURSIVE SkipEmptyDataBlocksBackward(_, _)
SkipEmptyDataBlocksBackward(t, i) ==
    CASE i.pos # None -> i
      [] i.pos = None /\ i.index = 0 -> SetDataIterator(t, i, 0)
      [] OTHER ->
            LET n == InitDataBlock(t, [i EXCEPT !.index = @ - 1])
            IN  SkipEmptyDataBlocksBackward(t, [n EXCEPT !.pos = Last(Entries(t, n.data))])

\* FindFile, and the search of an index block: the first block that can hold
\* an entry from target on.
IndexSeek(t, target) ==
    LET from == {b \in DOMAIN t : AtMost(target, t[b].sep)}
    IN  IF from = {} THEN 0 ELSE CHOOSE b \in from : \A c \in from : b <= c

TableSeek(t, i, target) ==
    LET n == InitDataBlock(t, [i EXCEPT !.index = IndexSeek(t, target)])
    IN  SkipEmptyDataBlocksForward(t, [n EXCEPT !.pos = AtOrAfter(Entries(t, n.data), target)])

TableSeekToFirst(t, i) ==
    LET n == InitDataBlock(t, [i EXCEPT !.index = IF t = <<>> THEN 0 ELSE 1])
    IN  SkipEmptyDataBlocksForward(t, [n EXCEPT !.pos = First(Entries(t, n.data))])

TableSeekToLast(t, i) ==
    LET n == InitDataBlock(t, [i EXCEPT !.index = Len(t)])
    IN  SkipEmptyDataBlocksBackward(t, [n EXCEPT !.pos = Last(Entries(t, n.data))])

TableNext(t, i) ==
    SkipEmptyDataBlocksForward(t, [i EXCEPT !.pos = After(Entries(t, i.data), i.pos)])

TablePrev(t, i) ==
    SkipEmptyDataBlocksBackward(t, [i EXCEPT !.pos = Before(Entries(t, i.data), i.pos)])

TableStatus(t, i) == i.status_ /\ (i.data # 0 => t[i.data].ok)
-----------------------------------------------------------------------------
(***************************************************************************)
(* MergingIterator.  Child 0 is the iterator of the memtable, child n that *)
(* of the n-th table.  State: the children, current_ (-1: none) and        *)
(* direction_.  Writers go on inserting, so an operation is given the      *)
(* memtable as its first operation on that child finds it (mem) and as a   *)
(* second one does (later).                                                *)
(***************************************************************************)
NewMerging(tables) ==
    [child |-> [n \in 0..Len(tables) |-> NewIterator], current_ |-> -1, direction_ |-> "kForward"]

MergedKey(m) == IF m.current_ = -1 THEN None ELSE m.child[m.current_].pos

ChildSeek(tables, n, i, target, mem) ==
    IF n = 0 THEN [i EXCEPT !.pos = AtOrAfter(mem, target)] ELSE TableSeek(tables[n], i, target)
ChildSeekToFirst(tables, n, i, mem) ==
    IF n = 0 THEN [i EXCEPT !.pos = First(mem)] ELSE TableSeekToFirst(tables[n], i)
ChildSeekToLast(tables, n, i, mem) ==
    IF n = 0 THEN [i EXCEPT !.pos = Last(mem)] ELSE TableSeekToLast(tables[n], i)
ChildNext(tables, n, i, mem) ==
    IF n = 0 THEN [i EXCEPT !.pos = After(mem, @)] ELSE TableNext(tables[n], i)
ChildPrev(tables, n, i, mem) ==
    IF n = 0 THEN [i EXCEPT !.pos = Before(mem, @)] ELSE TablePrev(tables[n], i)

\* Sequence numbers are unique, so the smallest and the largest are too.
FindSmallest(m) ==
    LET valid == {n \in DOMAIN m.child : m.child[n].pos # None}
    IN  [m EXCEPT !.direction_ = "kForward",
                  !.current_ = IF valid = {} THEN -1
                               ELSE CHOOSE n \in valid : \A o \in valid : AtMost(m.child[n].pos, m.child[o].pos)]
FindLargest(m) ==
    LET valid == {n \in DOMAIN m.child : m.child[n].pos # None}
    IN  [m EXCEPT !.direction_ = "kReverse",
                  !.current_ = IF valid = {} THEN -1
                               ELSE CHOOSE n \in valid : \A o \in valid : AtMost(m.child[o].pos, m.child[n].pos)]

MergingSeek(tables, m, target, mem) ==
    FindSmallest([m EXCEPT !.child = [n \in DOMAIN @ |-> ChildSeek(tables, n, @[n], target, mem)]])
MergingSeekToFirst(tables, m, mem) ==
    FindSmallest([m EXCEPT !.child = [n \in DOMAIN @ |-> ChildSeekToFirst(tables, n, @[n], mem)]])
MergingSeekToLast(tables, m, mem) ==
    FindLargest([m EXCEPT !.child = [n \in DOMAIN @ |-> ChildSeekToLast(tables, n, @[n], mem)]])

\* Variant of MergingNext that moves current_ only, whatever the direction was.
MergingNext_NoSwitch(tables, m, mem, later) ==
    FindSmallest([m EXCEPT !.child[m.current_] = ChildNext(tables, m.current_, @, later)])

\* When the direction changes the other children are positioned first.
MergingNext(tables, m, mem, later) ==
    LET key == MergedKey(m)
        Ahead(n, i) == LET s == ChildSeek(tables, n, i, key, mem)
                       IN  IF s.pos = key THEN ChildNext(tables, n, s, later) ELSE s
    IN  FindSmallest([m EXCEPT !.child = [n \in DOMAIN @ |->
            CASE n = m.current_ -> ChildNext(tables, n, @[n], later)
              [] n # m.current_ /\ m.direction_ # "kForward" -> Ahead(n, @[n])
              [] OTHER -> @[n]]])

MergingPrev(tables, m, mem, later) ==
    LET key == MergedKey(m)
        Behind(n, i) == LET s == ChildSeek(tables, n, i, key, mem)
                        IN  IF s.pos # None THEN ChildPrev(tables, n, s, later)
                            ELSE ChildSeekToLast(tables, n, s, later)
    IN  FindLargest([m EXCEPT !.child = [n \in DOMAIN @ |->
            CASE n = m.current_ -> ChildPrev(tables, n, @[n], later)
              [] n # m.current_ /\ m.direction_ # "kReverse" -> Behind(n, @[n])
              [] OTHER -> @[n]]])

MergingStatus(tables, m) == \A n \in DOMAIN tables : TableStatus(tables[n], m.child[n])
=============================================================================
