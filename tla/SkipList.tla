------------------------------ MODULE SkipList ------------------------------
(***************************************************************************)
(* The list behind a memtable (kv/db/skiplist.h): one thread inserts, with *)
(* the writers' queue keeping others out, while readers search and iterate *)
(* without a lock.  A step of a reader is one load of a link; a step of    *)
(* the writer is one store that readers can see.                           *)
(*                                                                         *)
(* Links are stored with release and loaded with acquire, and a node is    *)
(* reached only through a link, so a reader that reaches a node sees what  *)
(* was stored before it was linked there: the steps interleave.  Only      *)
(* max_height_ is relaxed: a reader may load any value it ever had.        *)
(***************************************************************************)
EXTENDS Integers, FiniteSets, FiniteSetsExt

CONSTANTS
    Keys,          \* keys inserted, positive numbers
    kMaxHeight,
    Readers        \* threads with an iterator

ASSUME SkipListAssumption ==
    /\ Keys \subseteq Nat \ {0} /\ IsFiniteSet(Keys) /\ Keys # {}
    /\ kMaxHeight \in Nat \ {0}

head_ == 0                 \* a node is named by its key
nullptr == Max(Keys) + 1   \* sorts after all keys
junk == -1                 \* a link that was never stored
Nodes == Keys \cup {head_}
Levels == 0..(kMaxHeight - 1)

VARIABLES
    next_,         \* of each node, for each level
    max_height_,
    heights,       \* the values max_height_ ever had
    inserted,      \* keys whose Insert returned
    insert,        \* the Insert under way, or Idle
    node_,         \* the position of each iterator
    search,        \* the operation of each iterator that is under way, or Idle
    found          \* the last operation of each iterator, for the properties

listVars == <<next_, max_height_, heights, inserted, insert, node_, search, found>>
list == <<next_, max_height_, heights, inserted, insert>>

Idle == [pc |-> "idle"]

SkipListInit ==
    /\ next_ = [n \in Nodes |-> [l \in Levels |-> IF n = head_ THEN nullptr ELSE junk]]
    /\ max_height_ = 1 /\ heights = {1} /\ inserted = {} /\ insert = Idle
    /\ node_ = [r \in Readers |-> nullptr] /\ search = [r \in Readers |-> Idle]
    /\ found = [r \in Readers |-> Idle]

KeyIsAfterNode(key, n) == n # nullptr /\ n < key
-----------------------------------------------------------------------------
(***************************************************************************)
(* The writer                                                              *)
(***************************************************************************)
\* The loop of FindGreaterOrEqual along one level: from each node, the last one
\* before the key.  Only this thread stores links, so the walk is one step.
Walk(key, level) ==
    LET last[n \in Nodes] ==
            IF next_[n][level] \in Nodes /\ KeyIsAfterNode(key, next_[n][level]) THEN last[next_[n][level]] ELSE n
    IN  last

\* prev[] of FindGreaterOrEqual, from the highest level down.
FindPrev(key) ==
    LET prev[l \in Levels] ==
            IF l >= max_height_ THEN head_
            ELSE Walk(key, l)[IF l = max_height_ - 1 THEN head_ ELSE prev[l + 1]]
    IN  prev

\* Insert up to its loop: the search, RandomHeight, the store of max_height_
\* and NewNode, whose links are junk.
Insert(key, height) ==
    /\ insert = Idle /\ key \notin inserted
    /\ max_height_' = IF height > max_height_ THEN height ELSE max_height_
    /\ heights' = heights \cup {max_height_'}
    /\ insert' = [pc |-> "link", key |-> key, height |-> height, level |-> 0, prev |-> FindPrev(key)]
    /\ UNCHANGED <<next_, inserted, node_, search, found>>

\* Variant of Link that leaves the link to be set later.
Link_Late ==
    /\ insert.pc = "link"
    /\ insert' = [insert EXCEPT !.pc = "publish"]
    /\ UNCHANGED <<next_, max_height_, heights, inserted, node_, search, found>>

\* x->NoBarrier_SetNext(i, prev[i]->NoBarrier_Next(i))
Link ==
    /\ insert.pc = "link"
    /\ next_' = [next_ EXCEPT ![insert.key][insert.level] = next_[insert.prev[insert.level]][insert.level]]
    /\ insert' = [insert EXCEPT !.pc = "publish"]
    /\ UNCHANGED <<max_height_, heights, inserted, node_, search, found>>

\* prev[i]->SetNext(i, x), and on to the next level.
Publish ==
    /\ insert.pc = "publish"
    /\ next_' = [next_ EXCEPT ![insert.prev[insert.level]][insert.level] = insert.key]
    /\ IF insert.level + 1 < insert.height
       THEN insert' = [insert EXCEPT !.pc = "link", !.level = @ + 1] /\ UNCHANGED inserted
       ELSE insert' = Idle /\ inserted' = inserted \cup {insert.key}
    /\ UNCHANGED <<max_height_, heights, node_, search, found>>
-----------------------------------------------------------------------------
(***************************************************************************)
(* Readers                                                                 *)
(***************************************************************************)
\* A search starts at head_ on the highest level the reader knows of.
Begin(r, pc, key) ==
    /\ search[r] = Idle
    /\ \E h \in heights :
        search' = [search EXCEPT ![r] =
            [pc |-> pc, key |-> key, x |-> head_, level |-> h - 1, seen |-> inserted]]
    /\ found' = [found EXCEPT ![r] = Idle]
    /\ UNCHANGED <<list, node_>>

IterSeek(r, key) == Begin(r, "FindGreaterOrEqual", key)
IterPrev(r) == node_[r] # nullptr /\ Begin(r, "FindLessThan", node_[r])
IterSeekToLast(r) == Begin(r, "FindLast", nullptr)

\* The operation ends at node n; it was for the first key from bound up, or
\* for the last key below it.
End(r, n, up, bound, seen) ==
    /\ node_' = [node_ EXCEPT ![r] = n]
    /\ search' = [search EXCEPT ![r] = Idle]
    /\ found' = [found EXCEPT ![r] = [pc |-> "done", up |-> up, bound |-> bound, seen |-> seen]]
    /\ UNCHANGED list

\* One load: to the right, down, or to the end of the search.
Right(r, n) == search' = [search EXCEPT ![r].x = n] /\ UNCHANGED <<list, node_, found>>
Down(r) ==
    /\ search[r].level > 0
    /\ search' = [search EXCEPT ![r].level = @ - 1]
    /\ UNCHANGED <<list, node_, found>>

FindGreaterOrEqual(r) ==
    /\ search[r].pc = "FindGreaterOrEqual"
    /\ LET s == search[r]
           n == next_[s.x][s.level]
       IN  IF KeyIsAfterNode(s.key, n) THEN Right(r, n)
           ELSE Down(r) \/ (s.level = 0 /\ End(r, n, TRUE, s.key, s.seen))

\* FindLessThan and FindLast return the node they stand on, Prev and
\* SeekToLast turn head_ into no position.
AsPosition(n) == IF n = head_ THEN nullptr ELSE n

FindLessThan(r) ==
    /\ search[r].pc = "FindLessThan"
    /\ LET s == search[r]
           n == next_[s.x][s.level]
       IN  IF n # nullptr /\ n < s.key THEN Right(r, n)
           ELSE Down(r) \/ (s.level = 0 /\ End(r, AsPosition(s.x), FALSE, s.key, s.seen))

\* Variant of FindLast that stays on the level where it starts.
FindLast_OneLevel(r) ==
    /\ search[r].pc = "FindLast"
    /\ LET s == search[r]
           n == next_[s.x][s.level]
       IN  IF n # nullptr THEN Right(r, n)
           ELSE End(r, AsPosition(s.x), FALSE, nullptr, s.seen)

FindLast(r) ==
    /\ search[r].pc = "FindLast"
    /\ LET s == search[r]
           n == next_[s.x][s.level]
       IN  IF n # nullptr THEN Right(r, n)
           ELSE Down(r) \/ (s.level = 0 /\ End(r, AsPosition(s.x), FALSE, nullptr, s.seen))

\* Next and SeekToFirst are one load each.
IterNext(r) ==
    /\ search[r] = Idle /\ node_[r] # nullptr
    /\ End(r, next_[node_[r]][0], TRUE, node_[r] + 1, inserted)

IterSeekToFirst(r) ==
    /\ search[r] = Idle
    /\ End(r, next_[head_][0], TRUE, head_, inserted)

SkipListNext ==
    \/ \E key \in Keys, height \in 1..kMaxHeight : Insert(key, height)
    \/ Link \/ Publish
    \/ \E r \in Readers :
        \/ \E key \in Keys : IterSeek(r, key)
        \/ IterPrev(r) \/ IterSeekToLast(r) \/ IterNext(r) \/ IterSeekToFirst(r)
        \/ FindGreaterOrEqual(r) \/ FindLessThan(r) \/ FindLast(r)

SkipListSpec == SkipListInit /\ [][SkipListNext]_listVars
-----------------------------------------------------------------------------
(***************************************************************************)
(* Properties                                                              *)
(***************************************************************************)
\* The nodes on a level: those its links lead to, the new node's own excepted
\* as long as it is not linked there itself.
Unlinked(n, l) == insert # Idle /\ n = insert.key /\ l >= insert.level
OnLevel(l) == {n \in Keys : \E m \in Nodes : next_[m][l] = n /\ ~Unlinked(m, l)}

\* The links are sound at every moment of an insertion: each level is in
\* order and links the nodes of the level below or fewer (a node is linked
\* from the bottom up), and the link a reader loads next was stored.
LinksSound ==
    /\ \A l \in Levels :
        /\ \A n \in OnLevel(l) \cup {head_} :
            /\ next_[n][l] > n
            /\ next_[n][l] = Min({m \in OnLevel(l) : m > n} \cup {nullptr})
        /\ l > 0 => OnLevel(l) \subseteq OnLevel(l - 1)
    /\ \A r \in Readers : search[r] # Idle => next_[search[r].x][search[r].level] # junk

\* What an iterator ends on is the answer for a set of keys that has all those
\* whose Insert returned before the operation began: Seek and Next skip none of
\* them, Prev and SeekToLast neither, and no position is outside the list.
SearchesExact ==
    \A r \in Readers : found[r] # Idle =>
        LET f == found[r]
            n == node_[r]
        IN  /\ n # nullptr => n \in OnLevel(0) /\ (IF f.up THEN n >= f.bound ELSE n < f.bound)
            /\ \A k \in f.seen :
                IF f.up THEN k >= f.bound => n <= k
                ELSE k < f.bound => n # nullptr /\ n >= k
=============================================================================
