------------------------------- MODULE Block -------------------------------
(***************************************************************************)
(* A block of a table file (kv/table/block_builder.cpp, block.cpp): sorted *)
(* keys with prefix compression and restart points, as BlockBuilder writes *)
(* it and Block::Iter reads it, and the comparators that order the keys    *)
(* (kv/util/comparator.cpp, kv/db/dbformat.cpp).  Operators only.          *)
(*                                                                         *)
(* An internal key is its bytes: those of the user key, then the sequence  *)
(* number as one more.  An offset in a block counts entries; the size of a *)
(* block counts bytes, one for the lengths of an entry and none for its    *)
(* value.                                                                  *)
(***************************************************************************)
EXTENDS Integers, Sequences, FiniteSets

CONSTANTS
    MaxByte,               \* 0xff
    kMaxSequenceNumber

ExtractUserKey(k) == SubSeq(k, 1, Len(k) - 1)
Tag(k) == k[Len(k)]
-----------------------------------------------------------------------------
(***************************************************************************)
(* Comparators                                                             *)
(***************************************************************************)
Shorter(a, b) == IF Len(a) < Len(b) THEN Len(a) ELSE Len(b)

\* How many bytes two keys have in common at the start.
Shared(a, b) ==
    CHOOSE n \in 0..Shorter(a, b) :
        /\ \A i \in 1..n : a[i] = b[i]
        /\ n < Shorter(a, b) => a[n + 1] # b[n + 1]

BytewiseLess(a, b) ==
    LET n == Shared(a, b)
    IN  IF n < Shorter(a, b) THEN a[n + 1] < b[n + 1] ELSE Len(a) < Len(b)

Compare(a, b) ==
    LET ua == ExtractUserKey(a)
        ub == ExtractUserKey(b)
    IN  IF ua # ub THEN IF BytewiseLess(ua, ub) THEN -1 ELSE 1
        ELSE IF Tag(a) > Tag(b) THEN -1 ELSE IF Tag(a) < Tag(b) THEN 1 ELSE 0

BytewiseSeparator(start, limit) ==
    LET n == Shared(start, limit)
    IN  IF n < Shorter(start, limit) /\ start[n + 1] < MaxByte /\ start[n + 1] + 1 < limit[n + 1]
        THEN Append(SubSeq(start, 1, n), start[n + 1] + 1)
        ELSE start

BytewiseSuccessor(key) ==
    LET low == {i \in DOMAIN key : key[i] # MaxByte}
    IN  IF low = {} THEN key
        ELSE LET i == CHOOSE i \in low : \A j \in low : i <= j
             IN  Append(SubSeq(key, 1, i - 1), key[i] + 1)

\* A user key that became shorter and greater is taken, with the number that
\* sorts before all others.
Shortened(key, tmp) ==
    IF Len(tmp) < Len(ExtractUserKey(key)) /\ BytewiseLess(ExtractUserKey(key), tmp)
    THEN Append(tmp, kMaxSequenceNumber)
    ELSE key

\* Variant of FindShortestSeparator that does not look at the limit.
FindShortestSeparator_NoLimit(start, limit) ==
    Shortened(start, BytewiseSuccessor(ExtractUserKey(start)))

FindShortestSeparator(start, limit) ==
    Shortened(start, BytewiseSeparator(ExtractUserKey(start), ExtractUserKey(limit)))
FindShortSuccessor(key) == Shortened(key, BytewiseSuccessor(ExtractUserKey(key)))
-----------------------------------------------------------------------------
(***************************************************************************)
(* BlockBuilder                                                            *)
(***************************************************************************)
EmptyBlock == [buffer |-> <<>>, bytes |-> 0, restarts_ |-> <<0>>, counter_ |-> 0, last_key_ |-> <<>>]

CurrentSizeEstimate(b) == b.bytes + Len(b.restarts_) + 1

BlockAdd(b, block_restart_interval, key, value) ==
    LET restart == b.counter_ >= block_restart_interval
        shared == IF restart THEN 0 ELSE Shared(b.last_key_, key)
        delta == SubSeq(key, shared + 1, Len(key))
    IN  [buffer |-> Append(b.buffer, [shared |-> shared, delta |-> delta, value |-> value]),
         bytes |-> b.bytes + 1 + Len(delta),
         restarts_ |-> IF restart THEN Append(b.restarts_, Len(b.buffer)) ELSE b.restarts_,
         counter_ |-> IF restart THEN 1 ELSE b.counter_ + 1,
         last_key_ |-> SubSeq(b.last_key_, 1, shared) \o delta]

\* What Finish leaves in the file.
BlockFinish(b) == [buffer |-> b.buffer, restarts_ |-> b.restarts_]
-----------------------------------------------------------------------------
(***************************************************************************)
(* Block::Iter: current_ and restart_index_ as in the code, next for       *)
(* NextEntryOffset, and status_.                                           *)
(***************************************************************************)
BlockEnd(c) == Len(c.buffer)
GetRestartPoint(c, i) == c.restarts_[i + 1]
Valid(c, it) == it.current_ < BlockEnd(c)

SeekToRestartPoint(c, it, i) ==
    [it EXCEPT !.key_ = <<>>, !.restart_index_ = i, !.next = GetRestartPoint(c, i)]

Invalidate(c, it) == [it EXCEPT !.current_ = BlockEnd(c), !.restart_index_ = Len(c.restarts_)]
CorruptionError(c, it) == [Invalidate(c, it) EXCEPT !.status_ = FALSE, !.key_ = <<>>]

NewBlockIterator(c) ==
    [current_ |-> BlockEnd(c), restart_index_ |-> Len(c.restarts_), key_ |-> <<>>, next |-> 0, status_ |-> TRUE]

ParseNextKey(c, it) ==
    LET at == it.next
        e == c.buffer[at + 1]
        behind == {i \in (it.restart_index_ + 1)..(Len(c.restarts_) - 1) : GetRestartPoint(c, i) < at}
    IN  IF at >= BlockEnd(c) THEN Invalidate(c, it)
        ELSE IF Len(it.key_) < e.shared THEN CorruptionError(c, it)
        ELSE [it EXCEPT !.current_ = at, !.next = at + 1,
                        !.key_ = SubSeq(@, 1, e.shared) \o e.delta,
                        !.restart_index_ = @ + Cardinality(behind)]

\* Parse until the end of the current entry reaches limit.
RECURSIVE ParseTo(_, _, _)
ParseTo(c, it, limit) ==
    LET n == ParseNextKey(c, it)
    IN  IF Valid(c, n) /\ n.next < limit THEN ParseTo(c, n, limit) ELSE n

RECURSIVE ParseUpTo(_, _, _)
ParseUpTo(c, it, target) ==
    LET n == ParseNextKey(c, it)
    IN  IF Valid(c, n) /\ Compare(n.key_, target) < 0 THEN ParseUpTo(c, n, target) ELSE n

\* The last restart point with a key below target; the key there is whole.
RECURSIVE Bisect(_, _, _, _)
Bisect(c, target, left, right) ==
    LET mid == (left + right + 1) \div 2
        e == c.buffer[GetRestartPoint(c, mid) + 1]
    IN  IF left >= right THEN left
        ELSE IF e.shared # 0 THEN -1
        ELSE IF Compare(e.delta, target) < 0 THEN Bisect(c, target, mid, right)
        ELSE Bisect(c, target, left, mid - 1)

BlockSeek(c, it, target) ==
    LET left == Bisect(c, target, 0, Len(c.restarts_) - 1)
    IN  IF left = -1 THEN CorruptionError(c, it)
        ELSE ParseUpTo(c, SeekToRestartPoint(c, it, left), target)

BlockSeekToFirst(c, it) == ParseNextKey(c, SeekToRestartPoint(c, it, 0))
BlockSeekToLast(c, it) == ParseTo(c, SeekToRestartPoint(c, it, Len(c.restarts_) - 1), BlockEnd(c))

\* Variant of BlockPrev that stops an entry too early.
BlockPrev_Early(c, it) ==
    LET before == {i \in 0..it.restart_index_ : GetRestartPoint(c, i) < it.current_}
    IN  IF before = {} THEN Invalidate(c, it)
        ELSE ParseTo(c, SeekToRestartPoint(c, it, CHOOSE i \in before : \A j \in before : j <= i), it.current_ - 1)

BlockPrev(c, it) ==
    LET before == {i \in 0..it.restart_index_ : GetRestartPoint(c, i) < it.current_}
    IN  IF before = {} THEN Invalidate(c, it)
        ELSE ParseTo(c, SeekToRestartPoint(c, it, CHOOSE i \in before : \A j \in before : j <= i), it.current_)
=============================================================================
