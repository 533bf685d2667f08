---------------------------- MODULE MCIterators -----------------------------
(***************************************************************************)
(* TLC instance of SkipList and DBIter.  They share no state: a behaviour  *)
(* is one of the skip list or one of an iterator.                          *)
(***************************************************************************)
EXTENDS SkipList, DBIter

VARIABLE part                  \* which of them moves; the other has one initial state

IteratorsInit ==
    /\ SkipListInit /\ DBIterInit
    /\ \/ part = "iterator"
       \/ LET d == CHOOSE d \in Databases : TRUE
          IN  part = "list" /\ mem = d.mem /\ tables = d.tables /\ sequence_ = d.sequence_
IteratorsNext ==
    \/ part = "list" /\ SkipListNext /\ UNCHANGED <<vars, part>>
    \/ part = "iterator" /\ DBIterNext /\ UNCHANGED <<listVars, part>>
IteratorsSpec == IteratorsInit /\ [][IteratorsNext]_<<listVars, vars, part>>
-----------------------------------------------------------------------------
E(k, s, t) == [key |-> k, seq |-> s, type |-> t]
V(k, s) == E(k, s, "kTypeValue")
D(k, s) == E(k, s, "kTypeDeletion")

\* Four writes to three keys, puts and deletions; the first may be damaged.
Writes == {<<a, b, c, d>> :
    a \in {V(1, 1), E(2, 1, "corrupted")}, b \in {V(2, 2), V(3, 2)}, c \in {V(1, 3), D(2, 3), D(3, 3)},
    d \in {V(2, 4), D(3, 4)}}

\* A table of the entries in S with a block for each key in some order-keeping
\* way: a separator may lie beyond the block's last entry.
Block(S, sep, ok) == [entries |-> S, sep |-> sep, ok |-> ok]
Table(S, cut, ok) ==
    LET low == {e \in S : e.key <= cut}
        high == S \ low
        one == IF low = {} THEN <<>> ELSE <<Block(low, E(cut, 0, "none"), ok)>>
        two == IF high = {} THEN <<>> ELSE <<Block(high, Last(high), TRUE)>>
    IN  one \o two

\* The oldest writes are in a deeper table, the next may be in another, the last is in mem.
MCDatabases ==
    {[mem |-> {w[4]},
      tables |-> <<Table({w[i] : i \in (p + 1)..3}, 3, TRUE), Table({w[i] : i \in 1..p}, cut, ok)>>,
      sequence_ |-> s] :
        w \in Writes, p \in 2..3, cut \in {1, 2}, ok \in BOOLEAN, s \in {3, 4}}
=============================================================================
