--------------------------- MODULE SkipListProofs ---------------------------
(***************************************************************************)
(* The links of SkipList and what its readers find, for every set of keys, *)
(* any height and any number of readers.                                   *)
(***************************************************************************)
EXTENDS SkipList, FiniteSetTheorems, NaturalsInduction, WellFoundedInduction, TLAPS

\* Zenon proves the leaves; those with arithmetic or records name SMT.  Each
\* has a second try with a longer limit, for a slow machine.
USE Zenon, ZenonT(40), SMTT(40)

-----------------------------------------------------------------------------
(***************************************************************************)
(* Induction over numbers and finite sets.                                 *)
(***************************************************************************)
\* Every set of natural numbers that is not empty has a least element.
LEMMA Least ==
    ASSUME NEW S, S \subseteq Nat, S # {}
    PROVE  \E n \in S : \A m \in S : n <= m
<1> DEFINE R == {ss \in Nat \X Nat : ss[1] < ss[2]}
<1>1. IsWellFoundedOn(R, Nat)
  BY NatLessThanWellFounded DEF OpToRel
<1>2. PICK n \in S : \A m \in S : ~ (<<m, n>> \in R)
  BY <1>1, WFMin
<1>3. ASSUME NEW m \in S PROVE n <= m
  <2>1. m \in Nat /\ n \in Nat
    OBVIOUS
  <2>2. <<m, n>> \in Nat \X Nat /\ <<m, n>> \notin R
    BY <1>2, <2>1
  <2>3. ~ (m < n)
    BY <2>2
  <2> QED
    BY SMT, SMTT(40), <2>1, <2>3
<1> QED
  BY <1>3

\* A set that has 0 and with a number its successor has every number.
LEMMA Induction ==
    ASSUME NEW S, 0 \in S, \A n \in Nat : n \in S => n + 1 \in S
    PROVE  \A n \in Nat : n \in S
<1> SUFFICES ASSUME Nat \ S # {} PROVE FALSE
  OBVIOUS
<1>1. PICK n \in Nat \ S : \A m \in Nat \ S : n <= m
  BY Least, Nat \ S \subseteq Nat
<1>2. n - 1 \in Nat
  BY SMT, SMTT(40), <1>1
<1>3. n - 1 \in S
  BY SMT, SMTT(40), <1>1, <1>2
<1> QED
  BY SMT, SMTT(40), <1>1, <1>2, <1>3

\* A finite set of numbers that is not empty has a greatest element.
LEMMA Greatest ==
    ASSUME NEW S, S \subseteq Nat, IsFiniteSet(S), S # {}
    PROVE  \E n \in S : \A m \in S : m <= n
<1> DEFINE P(T) == T \subseteq Nat /\ IsFiniteSet(T) /\ T # {}
           Q(T) == \E n \in T : \A m \in T : m <= n
           D == {n \in Nat : \A T : P(T) /\ Cardinality(T) = n => Q(T)}
<1>1. 0 \in D
  <2>1. ASSUME NEW T, P(T), Cardinality(T) = 0 PROVE Q(T)
    BY <2>1, FS_EmptySet
  <2> QED
    BY <2>1
<1>2. ASSUME NEW n \in Nat, n \in D PROVE n + 1 \in D
  <2>1. ASSUME NEW T, P(T), Cardinality(T) = n + 1 PROVE Q(T)
    <3>1. PICK x \in T : TRUE
      BY <2>1
    <3>2. IsFiniteSet(T \ {x}) /\ Cardinality(T \ {x}) = Cardinality(T) - 1 /\ Cardinality(T) \in Nat
      BY <2>1, <3>1, FS_RemoveElement, FS_CardinalityType
    <3>3. Cardinality(T \ {x}) = n
      BY SMT, SMTT(40), <2>1, <3>2
    <3>4. CASE T \ {x} = {}
      <4>1. \A m \in T : m = x
        BY <3>4
      <4>2. x \in Nat
        BY <2>1, <3>1
      <4> QED
        BY SMT, SMTT(40), <3>1, <4>1, <4>2
    <3>5. CASE T \ {x} # {}
      <4>1. P(T \ {x})
        BY <2>1, <3>2, <3>5
      <4>2. PICK y \in T \ {x} : \A m \in T \ {x} : m <= y
        BY <1>2, <3>3, <4>1
      <4>3. x \in Nat /\ y \in Nat /\ y \in T /\ \A m \in T : m \in Nat
        BY <2>1, <3>1, <4>2
      <4>4. CASE x <= y
        BY <4>2, <4>3, <4>4
      <4>5. CASE y <= x
        <5>1. \A m \in T : m <= x
          BY SMT, SMTT(40), <4>2, <4>3, <4>5
        <5> QED
          BY <3>1, <5>1
      <4> QED
        BY SMT, SMTT(40), <4>3, <4>4, <4>5
    <3> QED
      BY <3>4, <3>5
  <2>2. n + 1 \in Nat
    BY SMT, SMTT(40)
  <2> QED
    BY <2>1, <2>2
<1>3. Cardinality(S) \in D
  <2> HIDE DEF D
  <2> QED
    BY <1>1, <1>2, Induction, FS_CardinalityType
<1> QED
  BY <1>3

\* The results of a loop, each computed by step from the one before it.
Loop(f, N, V, a, step) ==
    f \in [0..N -> V] /\ f[0] = a /\ \A i \in 1..N : f[i] = step[<<i, f[i - 1]>>]

\* Every loop has its results: what a recursive definition over 0..N stands on.
LEMMA Recursion ==
    ASSUME NEW N \in Nat, NEW V, NEW a \in V, NEW step \in [(1..N) \X V -> V]
    PROVE  \E f : Loop(f, N, V, a, step)
<1> DEFINE Is(f, n) == f \in [0..n -> V] /\ f[0] = a /\ \A i \in 1..n : f[i] = step[<<i, f[i - 1]>>]
           D == {n \in Nat : n <= N => \E f : Is(f, n)}
<1>1. 0 \in D
  <2> DEFINE f == [i \in 0..0 |-> a]
  <2>1. Is(f, 0)
    BY SMT, SMTT(40)
  <2> HIDE DEF f, Is
  <2> QED
    BY <2>1
<1>2. ASSUME NEW n \in Nat, n \in D PROVE n + 1 \in D
  <2>1. n <= N => \E f : Is(f, n)
    <3> HIDE DEF Is
    <3> QED
      BY <1>2
  <2>2. ASSUME n + 1 <= N PROVE \E f : Is(f, n + 1)
    <3>1. PICK f : Is(f, n)
      <4> HIDE DEF Is
      <4>1. n <= N
        BY SMT, SMTT(40), <2>2
      <4> QED
        BY <2>1, <4>1
    <3>2. f[n] \in V /\ n + 1 \in 1..N
      BY SMT, SMTT(40), <2>2, <3>1
    <3>3. step[<<n + 1, f[n]>>] \in V
      BY <3>2
    <3> DEFINE v == step[<<n + 1, f[n]>>]
               g == [i \in 0..(n + 1) |-> IF i = n + 1 THEN v ELSE f[i]]
    <3> HIDE DEF v
    <3>4. g \in [0..(n + 1) -> V] /\ g[n + 1] = v /\ \A i \in 0..n : g[i] = f[i]
      BY SMT, SMTT(40), <3>1, <3>3 DEF v
    <3> HIDE DEF g
    <3>5. ASSUME NEW i \in 1..(n + 1) PROVE g[i] = step[<<i, g[i - 1]>>]
      <4>1. CASE i = n + 1
        <5>1. i - 1 = n /\ n \in 0..n
          BY SMT, SMTT(40), <4>1
        <5> QED
          BY <3>4, <4>1, <5>1 DEF v
      <4>2. CASE i # n + 1
        <5>1. i \in 1..n /\ i \in 0..n /\ i - 1 \in 0..n
          BY SMT, SMTT(40), <4>2
        <5> QED
          BY <3>1, <3>4, <5>1
      <4> QED
        BY <4>1, <4>2
    <3>6. g[0] = a
      BY SMT, SMTT(40), <3>1, <3>4
    <3>7. Is(g, n + 1)
      BY <3>4, <3>5, <3>6
    <3> HIDE DEF Is
    <3> QED
      BY <3>7
  <2>3. n + 1 \in Nat
    BY SMT, SMTT(40)
  <2> HIDE DEF Is
  <2> QED
    BY <2>2, <2>3
<1>3. N \in D
  <2> HIDE DEF D
  <2> QED
    BY <1>1, <1>2, Induction
<1>4. \E f : Is(f, N)
  <2> HIDE DEF Is
  <2>1. N <= N
    BY SMT, SMTT(40)
  <2> QED
    BY <1>3, <2>1
<1> QED
  BY <1>4 DEF Loop

-----------------------------------------------------------------------------
(***************************************************************************)
(* The list.                                                               *)
(***************************************************************************)
\* The nodes a level has, and those whose links on it are in use.
On(l) == {k \in Keys : next_[k][l] # junk /\ ~Unlinked(k, l)}
From(l) == On(l) \cup {head_}

\* A level links its nodes in order.
Chained(l) ==
    \A n \in From(l) :
        /\ next_[n][l] \in On(l) \cup {nullptr} /\ n < next_[n][l]
        /\ \A m \in On(l) : n < m => next_[n][l] <= m

InsertType ==
    [pc : {"link", "publish"}, key : Keys, height : 1..kMaxHeight, level : Levels, prev : [Levels -> Nodes]]

\* The node of an Insert under way has its place on the levels it is not linked
\* on: behind prev, and before what prev links to.
Placed ==
    /\ insert \in InsertType /\ insert.level < insert.height /\ insert.height <= max_height_
    /\ insert.key \notin inserted
    /\ \A l \in Levels : l >= insert.level =>
        /\ insert.prev[l] \in From(l) /\ insert.prev[l] < insert.key
        /\ insert.key < next_[insert.prev[l]][l]
    /\ \A l \in Levels : l < insert.level => next_[insert.key][l] # junk
    /\ insert.pc = "publish" => next_[insert.key][insert.level] = next_[insert.prev[insert.level]][insert.level]
    /\ \A l \in Levels :
        l > insert.level \/ (l = insert.level /\ insert.pc = "link") => next_[insert.key][l] = junk

\* The list as the writer keeps it.
ListInv ==
    /\ next_ \in [Nodes -> [Levels -> Keys \cup {nullptr, junk}]]
    /\ \A n \in Nodes, l \in Levels : next_[n][l] # junk => n < next_[n][l]
    /\ \A l \in Levels : Chained(l)
    /\ \A l \in Levels : l > 0 => On(l) \subseteq On(l - 1)
    /\ \A l \in Levels : l >= max_height_ => On(l) = {}
    /\ max_height_ \in heights /\ heights \subseteq 1..kMaxHeight
    /\ inserted = {k \in On(0) : insert = Idle \/ k # insert.key}
    /\ insert # Idle => Placed

SearchType ==
    [pc : {"FindGreaterOrEqual", "FindLessThan", "FindLast"}, key : Keys \cup {nullptr}, x : Nodes,
     level : Levels, seen : SUBSET Keys]
FoundType == [pc : {"done"}, up : BOOLEAN, bound : Nat, seen : SUBSET Keys]

\* A search stands on a node of its level, before the key it looks for.
Standing(s) ==
    /\ s \in SearchType /\ (s.pc = "FindLast" => s.key = nullptr)
    /\ s.x \in From(s.level) /\ s.x < s.key /\ s.seen \subseteq On(0)

\* The node n is the answer of the operation f.
Answers(n, f) ==
    /\ f \in FoundType
    /\ n # nullptr => (IF f.up THEN n >= f.bound ELSE n < f.bound)
    /\ \A k \in f.seen :
        IF f.up THEN k >= f.bound => n <= k ELSE k < f.bound => n # nullptr /\ n >= k

\* Readers, in whatever state the list is.
ReadersInv ==
    /\ node_ \in [Readers -> Keys \cup {nullptr}] /\ search = [t \in Readers |-> search[t]] /\ found = [t \in Readers |-> found[t]]
    /\ \A r \in Readers :
        /\ node_[r] \in On(0) \cup {nullptr}
        /\ search[r] # Idle => Standing(search[r])
        /\ found[r] # Idle => Answers(node_[r], found[r])

\* Keys and the names of the other nodes, in order.
LEMMA NodeOrder ==
    /\ head_ = 0 /\ junk = -1 /\ junk \notin Nat /\ nullptr \in Nat /\ nullptr \notin Nodes /\ nullptr # 0
    /\ \A k \in Keys : k \in Nat /\ 0 < k /\ k < nullptr /\ k # head_ /\ k # junk
    /\ \A n \in Nodes : n \in Nat /\ n < nullptr /\ n # junk
    /\ kMaxHeight \in Nat /\ 0 \in Levels /\ Levels \subseteq Nat
<1>1. Keys \subseteq Nat /\ IsFiniteSet(Keys) /\ Keys # {} /\ (\A k \in Keys : k \in Nat /\ k # 0) /\ kMaxHeight \in Nat /\ kMaxHeight # 0
  BY SkipListAssumption
<1>2. \E n \in Keys : \A m \in Keys : m <= n
  BY <1>1, Greatest
<1>3. Max(Keys) \in Keys /\ \A m \in Keys : m <= Max(Keys)
  BY <1>2 DEF Max
<1>4. nullptr \in Nat /\ 0 < nullptr /\ \A k \in Keys : k \in Nat /\ 0 < k /\ k < nullptr
  <2> DEFINE M == Max(Keys)
  <2>1. M \in Nat /\ nullptr = M + 1 /\ \A k \in Keys : k \in Nat /\ k # 0 /\ k <= M
    BY <1>1, <1>3 DEF nullptr
  <2> HIDE DEF M
  <2> QED
    BY SMT, SMTT(40), <2>1
<1>5. 0 \in Levels /\ Levels \subseteq Nat
  BY SMT, SMTT(40), <1>1 DEF Levels
<1>6. junk = -1 /\ junk \notin Nat /\ head_ = 0 /\ \A n \in Nat : n # junk
  BY SMT, SMTT(40) DEF junk, head_
<1>7. \A n \in Nodes : n \in Nat /\ n < nullptr
  BY SMT, SMTT(40), <1>4, <1>6 DEF Nodes
<1>8. nullptr \notin Nodes /\ nullptr # 0 /\ \A k \in Keys : k # head_
  BY SMT, SMTT(40), <1>4, <1>6, <1>7
<1> QED
  BY <1>1, <1>4, <1>5, <1>6, <1>7, <1>8

\* The nodes are a finite set of numbers.
LEMMA NodesFinite == IsFiniteSet(Nodes) /\ Nodes \subseteq Nat
<1>1. IsFiniteSet(Keys)
  BY SkipListAssumption
<1>2. IsFiniteSet(Keys \cup {head_})
  BY <1>1, FS_AddElement
<1> QED
  BY <1>2, NodeOrder DEF Nodes

\* What is on a level is a key; every level but the lowest has one below.
LEMMA OnKeys ==
    /\ \A l : /\ On(l) \subseteq Keys /\ From(l) \subseteq Nodes /\ \A n \in On(l) : n \in Nat /\ n # nullptr
             /\ \A n \in On(l) \cup {nullptr} : n \in Nat /\ n \in Keys \cup {nullptr, junk} /\ n # junk
    /\ \A l \in Levels : l > 0 => l - 1 \in Levels
<1>1. \A l : On(l) \subseteq Keys /\ From(l) \subseteq Nodes
  BY DEF On, From, Nodes
<1>2. \A l : \A n \in On(l) : n \in Nat /\ n # nullptr /\ n # junk
  BY <1>1, NodeOrder DEF Nodes
<1>3. nullptr \in Nat /\ nullptr # junk
  BY NodeOrder
<1>4. \A l \in Levels : l > 0 => l - 1 \in Levels
  BY SMT, SMTT(40), NodeOrder DEF Levels
<1> QED
  BY <1>1, <1>2, <1>3, <1>4

\* The place of a key on a level: the last node before it.
Before(key, l, p) == p \in From(l) /\ p < key /\ key <= next_[p][l]

\* The walk along a level from a node before the key ends at the place of the key.
LEMMA WalkStops ==
    ASSUME ListInv, insert = Idle, NEW key \in Keys, NEW l \in Levels
    PROVE  /\ \A n \in Nodes : Walk(key, l)[n] \in Nodes
           /\ \A n \in From(l) : n < key => Before(key, l, Walk(key, l)[n])
<1> DEFINE T(n) == next_[n][l] \in Nodes /\ KeyIsAfterNode(key, next_[n][l])
           Is(f) == f = [n \in Nodes |-> IF T(n) THEN f[next_[n][l]] ELSE n]
           P == CHOOSE p : Before(key, l, p)
           w == [n \in Nodes |-> IF T(n) THEN P ELSE n]
<1>1. /\ \A n \in Nodes : next_[n][l] \in Keys \cup {nullptr, junk}
      /\ \A n \in Nodes : next_[n][l] # junk => n < next_[n][l]
      /\ \A n \in From(l) : /\ next_[n][l] \in On(l) \cup {nullptr} /\ n < next_[n][l]
                            /\ \A m \in On(l) : n < m => next_[n][l] <= m
  <2>1. next_ \in [Nodes -> [Levels -> Keys \cup {nullptr, junk}]]
    BY DEF ListInv
  <2>2. \A n \in Nodes : next_[n][l] # junk => n < next_[n][l]
    BY DEF ListInv
  <2>3. Chained(l)
    BY DEF ListInv
  <2> QED
    BY <2>1, <2>2, <2>3 DEF Chained
<1>2. /\ \A n \in Nodes : n \in From(l) \/ next_[n][l] = junk
      /\ From(l) \subseteq Nodes /\ \A n \in From(l) : n # head_ => n \in On(l)
  BY DEF From, On, Unlinked, Nodes
<1>3. ASSUME NEW n \in From(l)
      PROVE  /\ T(n) => next_[n][l] \in On(l) /\ next_[n][l] \in From(l) /\ next_[n][l] < key /\ n < next_[n][l]
             /\ ~T(n) => key <= next_[n][l]
  <2>1. next_[n][l] \in On(l) \cup {nullptr} /\ n < next_[n][l] /\ key \in Nat /\ key < nullptr
    BY <1>1, NodeOrder
  <2>2. CASE next_[n][l] = nullptr
    BY SMT, SMTT(40), <2>1, <2>2, NodeOrder DEF KeyIsAfterNode
  <2>3. CASE next_[n][l] \in On(l)
    <3>1. next_[n][l] \in Keys /\ next_[n][l] \in Nodes /\ next_[n][l] \in From(l)
      BY <2>3 DEF On, From, Nodes
    <3>2. next_[n][l] # nullptr /\ next_[n][l] \in Nat
      BY <3>1, NodeOrder
    <3> QED
      BY SMT, SMTT(40), <2>1, <2>3, <3>1, <3>2 DEF KeyIsAfterNode
  <2> QED
    BY <2>1, <2>2, <2>3
<1>4. ASSUME NEW p, NEW q, Before(key, l, p), Before(key, l, q) PROVE ~(p < q)
  <2>1. p \in From(l) /\ q \in From(l) /\ p \in Nat /\ q \in Nat /\ key \in Nat /\ q < key /\ key <= next_[p][l]
    BY <1>2, <1>4, NodeOrder DEF Before
  <2>2. SUFFICES ASSUME p < q PROVE FALSE
    OBVIOUS
  <2>3. q # head_
    BY SMT, SMTT(40), <2>1, <2>2, NodeOrder
  <2>4. next_[p][l] <= q
    BY <1>1, <1>2, <2>1, <2>2, <2>3
  <2>5. next_[p][l] \in Nat
    BY <1>1, <2>1, NodeOrder DEF On
  <2> QED
    BY SMT, SMTT(40), <2>1, <2>4, <2>5
<1>5. ASSUME NEW p, NEW q, Before(key, l, p), Before(key, l, q) PROVE p = q
  <2>1. p \in Nat /\ q \in Nat
    BY <1>2, <1>5, NodeOrder DEF Before
  <2>2. ~(p < q) /\ ~(q < p)
    BY <1>4, <1>5
  <2> QED
    BY SMT, SMTT(40), <2>1, <2>2
<1>6. ASSUME NEW n \in Nodes, T(n) PROVE w[next_[n][l]] = P
  <2> DEFINE m == next_[n][l]
  <2>1. n \in From(l)
    <3>1. next_[n][l] # junk
      BY <1>6, NodeOrder
    <3> QED
      BY <1>2, <3>1
  <2>2. m \in From(l) /\ m < key /\ m \in Nodes
    BY <1>2, <1>3, <1>6, <2>1
  <2> HIDE DEF m
  <2>3. CASE T(m)
    BY <2>2, <2>3 DEF m
  <2>4. CASE ~T(m)
    <3>1. Before(key, l, m)
      BY <1>3, <2>2, <2>4 DEF Before
    <3>2. Before(key, l, P)
      BY <3>1
    <3>3. P = m
      BY <1>5, <3>1, <3>2
    <3>4. w[m] = m
      <4> HIDE DEF P
      <4> QED
        BY <2>2, <2>4
    <3> QED
      BY <3>3, <3>4 DEF m
  <2> QED
    BY <2>3, <2>4
<1>7. Is(w)
  <2> HIDE DEF P, T
  <2>1. \A n \in Nodes : w[n] = IF T(n) THEN w[next_[n][l]] ELSE n
    BY <1>6
  <2>2. w = [n \in Nodes |-> w[n]]
    OBVIOUS
  <2> HIDE DEF w
  <2> QED
    BY <2>1, <2>2
<1> DEFINE F == CHOOSE f : Is(f)
<1>8. Is(F)
  <2> HIDE DEF w, Is
  <2> QED
    BY <1>7
<1>9. Walk(key, l) = F
  BY DEF Walk
<1> HIDE DEF F, w, P
<1>10. \A n \in Nodes : F[n] = IF T(n) THEN F[next_[n][l]] ELSE n
  <2> DEFINE G == [n \in Nodes |-> IF T(n) THEN F[next_[n][l]] ELSE n]
  <2> HIDE DEF T
  <2>1. \A n \in Nodes : G[n] = IF T(n) THEN F[next_[n][l]] ELSE n
    OBVIOUS
  <2>2. F = G
    BY <1>8
  <2> HIDE DEF G
  <2> QED
    BY <2>1, <2>2
<1> DEFINE Good(n) == F[n] \in Nodes /\ (n \in From(l) /\ n < key => Before(key, l, F[n]))
           Bad == {n \in Nodes : ~Good(n)}
<1>11. Bad = {}
  <2> SUFFICES ASSUME Bad # {} PROVE FALSE
    OBVIOUS
  <2>1. Bad \subseteq Nat /\ IsFiniteSet(Bad)
    BY NodesFinite, FS_Subset
  <2>2. PICK n \in Bad : \A m \in Bad : m <= n
    <3> HIDE DEF Bad
    <3> QED
      BY <2>1, Greatest
  <2>3. n \in Nodes /\ n \in Nat
    BY <2>1, <2>2
  <2>4. CASE ~T(n)
    <3>1. F[n] = n
      BY <1>10, <2>3, <2>4
    <3>2. n \in From(l) /\ n < key => Before(key, l, n)
      BY <1>3, <2>4 DEF Before
    <3> QED
      BY <2>2, <2>3, <3>1, <3>2
  <2>5. CASE T(n)
    <3> DEFINE m == next_[n][l]
    <3>1. m \in Nodes /\ m # junk /\ F[n] = F[m]
      BY <1>10, <2>3, <2>5, NodeOrder
    <3>2. n < m /\ n \in From(l) /\ m \in Nat
      BY <1>1, <1>2, <2>3, <3>1, NodeOrder
    <3>3. m \in From(l) /\ m < key
      BY <1>3, <2>5, <3>2
    <3> HIDE DEF m
    <3>4. m \notin Bad
      BY SMT, SMTT(40), <2>2, <2>3, <3>2
    <3>5. Good(m)
      BY <3>1, <3>4
    <3>6. Good(n)
      BY <3>1, <3>3, <3>5
    <3> QED
      BY <2>2, <3>6
  <2> QED
    BY <2>4, <2>5
<1> QED
  BY <1>2, <1>9, <1>11

\* FindPrev finds the place of the key on every level.
LEMMA PrevIs ==
    ASSUME ListInv, insert = Idle, NEW key \in Keys
    PROVE  FindPrev(key) \in [Levels -> Nodes] /\ \A l \in Levels : Before(key, l, FindPrev(key)[l])
<1> DEFINE N == kMaxHeight
           M == max_height_
           E(l, n) == IF l >= M THEN head_ ELSE Walk(key, l)[IF l = M - 1 THEN head_ ELSE n]
           Is(f) == f = [l \in Levels |-> E(l, f[l + 1])]
<1>1. /\ N \in Nat /\ M \in 1..N /\ Levels = 0..(N - 1)
      /\ key \in Nat /\ 0 < key /\ key < nullptr /\ head_ = 0 /\ head_ \in Nodes
  <2>1. M \in 1..N
    BY DEF ListInv
  <2> QED
    BY <2>1, NodeOrder DEF Levels, Nodes
<1>2. /\ \A l \in Levels, n \in Nodes : Walk(key, l)[n] \in Nodes
      /\ \A l \in Levels : \A n \in From(l) : n < key => Before(key, l, Walk(key, l)[n])
  BY WalkStops
<1>3. \A l \in Levels, n \in Nodes : E(l, n) \in Nodes
  BY <1>1, <1>2
<1>4. \A l \in Levels : l >= M \/ l = M - 1 => \A n, m : E(l, n) = E(l, m)
  OBVIOUS
<1>5. \E f : Is(f)
  <2> HIDE DEF E, N
  <2> DEFINE step == [p \in (1..N) \X Nodes |-> E(N - p[1], p[2])]
  <2>1. \A i \in 1..N : N - i \in Levels
    BY SMT, SMTT(40), <1>1
  <2>2. \A p \in (1..N) \X Nodes : p[1] \in 1..N /\ p[2] \in Nodes
    OBVIOUS
  <2>3. step \in [(1..N) \X Nodes -> Nodes]
    BY <1>3, <2>1, <2>2
  <2> HIDE DEF step
  <2>4. PICK h : Loop(h, N, Nodes, head_, step)
    BY <1>1, <2>3, Recursion
  <2>5. \A i \in 1..N : h[i] = E(N - i, h[i - 1])
    <3> SUFFICES ASSUME NEW i \in 1..N PROVE h[i] = E(N - i, h[i - 1])
      OBVIOUS
    <3>1. i - 1 \in 0..N
      BY SMT, SMTT(40), <1>1
    <3>2. h[i - 1] \in Nodes
      BY <2>4, <3>1 DEF Loop
    <3>3. <<i, h[i - 1]>> \in (1..N) \X Nodes
      BY <3>2
    <3>4. step[<<i, h[i - 1]>>] = E(N - i, h[i - 1])
      BY <3>3 DEF step
    <3> QED
      BY <2>4, <3>4 DEF Loop
  <2> DEFINE g == [l \in Levels |-> h[N - l]]
  <2>6. ASSUME NEW l \in Levels PROVE g[l] = E(l, g[l + 1])
    <3>1. N - l \in 1..N /\ N - (N - l) = l
      BY SMT, SMTT(40), <1>1
    <3>2. h[N - l] = E(l, h[(N - l) - 1])
      BY <2>5, <3>1
    <3>3. g[l] = h[N - l]
      OBVIOUS
    <3>4. CASE l + 1 \in Levels
      <4>1. (N - l) - 1 = N - (l + 1)
        BY SMT, SMTT(40), <1>1
      <4>2. g[l + 1] = h[N - (l + 1)]
        BY <3>4
      <4> QED
        BY <3>2, <3>3, <4>1, <4>2
    <3>5. CASE l + 1 \notin Levels
      <4>1. l >= M \/ l = M - 1
        BY SMT, SMTT(40), <1>1, <3>5
      <4> HIDE DEF g
      <4> QED
        BY <1>4, <3>2, <3>3, <4>1
    <3> QED
      BY <3>4, <3>5
  <2>7. g = [l \in Levels |-> g[l]]
    OBVIOUS
  <2> HIDE DEF g
  <2>8. Is(g)
    BY <2>6, <2>7
  <2> HIDE DEF Is
  <2> QED
    BY <2>8
<1> DEFINE F == CHOOSE f : Is(f)
<1>6. Is(F)
  <2> HIDE DEF Is
  <2> QED
    BY <1>5
<1>7. FindPrev(key) = F
  BY DEF FindPrev
<1> HIDE DEF F
<1>8. F = [l \in Levels |-> F[l]] /\ \A l \in Levels : F[l] = E(l, F[l + 1])
  <2> HIDE DEF E
  <2> DEFINE G == [l \in Levels |-> E(l, F[l + 1])]
  <2>1. G = [l \in Levels |-> G[l]] /\ \A l \in Levels : G[l] = E(l, F[l + 1])
    OBVIOUS
  <2>2. F = G
    BY <1>6
  <2> HIDE DEF G
  <2> QED
    BY <2>1, <2>2
<1> DEFINE Bad == {l \in Levels : ~(F[l] \in Nodes /\ Before(key, l, F[l]))}
<1>9. Bad = {}
  <2> SUFFICES ASSUME Bad # {} PROVE FALSE
    OBVIOUS
  <2>1. Bad \subseteq Nat /\ IsFiniteSet(Bad)
    <3>1. IsFiniteSet(0..(N - 1)) /\ N - 1 \in Int
      BY SMT, SMTT(40), <1>1, FS_Interval
    <3> QED
      BY <1>1, <3>1, FS_Subset, NodeOrder
  <2>2. PICK l \in Bad : \A m \in Bad : m <= l
    <3> HIDE DEF Bad
    <3> QED
      BY <2>1, Greatest
  <2>3. l \in Levels /\ l \in Nat /\ head_ \in From(l) /\ head_ < key /\ F[l] = E(l, F[l + 1])
    BY <1>1, <1>8, <2>1, <2>2 DEF From
  <2>4. CASE l >= M
    <3>1. F[l] = head_ /\ On(l) = {}
      BY <2>3, <2>4 DEF ListInv
    <3>2. next_[head_][l] \in On(l) \cup {nullptr}
      BY <2>3 DEF ListInv, Chained
    <3>3. next_[head_][l] = nullptr
      BY <3>1, <3>2
    <3>4. key <= nullptr
      BY SMT, SMTT(40), <1>1, NodeOrder
    <3> QED
      BY <1>1, <2>2, <2>3, <3>1, <3>3, <3>4 DEF Before
  <2>5. CASE l = M - 1
    <3>1. ~(l >= M)
      BY SMT, SMTT(40), <1>1, <2>5
    <3>2. F[l] = Walk(key, l)[head_]
      BY <2>3, <2>5, <3>1
    <3> QED
      BY <1>1, <1>2, <2>2, <2>3, <3>2
  <2>6. CASE ~(l >= M) /\ l # M - 1
    <3>1. F[l] = Walk(key, l)[F[l + 1]]
      BY <2>3, <2>6
    <3>2. l + 1 \in Levels /\ (l + 1) - 1 = l /\ l + 1 > 0 /\ ~(l + 1 <= l)
      BY SMT, SMTT(40), <1>1, <2>3, <2>6
    <3>3. F[l + 1] \in Nodes /\ Before(key, l + 1, F[l + 1])
      BY <2>2, <3>2
    <3>4. On(l + 1) \subseteq On(l)
      BY <3>2 DEF ListInv
    <3>5. F[l + 1] \in From(l) /\ F[l + 1] < key
      BY <3>3, <3>4 DEF Before, From
    <3> QED
      BY <1>2, <2>2, <2>3, <3>1, <3>3, <3>5
  <2> QED
    BY <2>4, <2>5, <2>6
<1> QED
  BY <1>7, <1>8, <1>9

\* Insert begins: no level changes, and the new node has its place on each.
LEMMA InsertInv ==
    ASSUME ListInv, NEW key \in Keys, NEW height \in 1..kMaxHeight, Insert(key, height)
    PROVE  ListInv' /\ \A l \in Levels : On(l)' = On(l)
<1>1. /\ insert = Idle /\ key \notin inserted
      /\ max_height_' = IF height > max_height_ THEN height ELSE max_height_
      /\ heights' = heights \cup {max_height_'}
      /\ insert' = [pc |-> "link", key |-> key, height |-> height, level |-> 0, prev |-> FindPrev(key)]
      /\ UNCHANGED <<next_, inserted>>
  BY DEF Insert
<1>2. /\ max_height_ \in heights /\ heights \subseteq 1..kMaxHeight /\ kMaxHeight \in Nat
      /\ inserted = On(0)
      /\ \A l \in Levels : l > 0 => On(l) \subseteq On(l - 1)
      /\ \A l \in Levels : l >= max_height_ => On(l) = {}
  BY <1>1, NodeOrder DEF ListInv
<1>3. /\ insert' # Idle /\ insert'.key = key /\ insert'.level = 0 /\ insert'.height = height
      /\ insert'.pc = "link" /\ insert'.prev = FindPrev(key)
  <2>1. insert'.pc = "link" /\ Idle.pc = "idle"
    BY <1>1 DEF Idle
  <2> QED
    BY <1>1, <2>1
<1>4. \A l \in Levels : key \notin On(l) /\ next_[key][l] = junk
  <2>1. \A l \in Levels : key \notin On(l)
    <3> DEFINE Bad == {l \in Levels : key \in On(l)}
    <3> SUFFICES ASSUME Bad # {} PROVE FALSE
      OBVIOUS
    <3>1. PICK l \in Bad : \A m \in Bad : l <= m
      BY Least, NodeOrder
    <3>2. l # 0
      BY <1>1, <1>2, <3>1
    <3>3. l \in Levels /\ l \in Nat /\ l > 0 /\ l - 1 \in Levels /\ ~(l <= l - 1)
      BY SMT, SMTT(40), <3>1, <3>2, NodeOrder DEF Levels
    <3>4. key \in On(l - 1)
      BY <1>2, <3>1, <3>3
    <3> QED
      BY <3>1, <3>3, <3>4
  <2> QED
    BY <1>1, <2>1 DEF On, Unlinked
<1>5. \A l \in Levels : On(l)' = On(l) /\ From(l)' = From(l)
  <2> SUFFICES ASSUME NEW l \in Levels PROVE On(l)' = On(l)
    BY DEF From
  <2>1. ASSUME NEW k \in Keys PROVE k \in On(l)' <=> k \in On(l)
    <3>1. CASE k = key
      BY <1>1, <1>4, <3>1 DEF On
    <3>2. CASE k # key
      BY <1>1, <1>3, <3>2 DEF On, Unlinked
    <3> QED
      BY <3>1, <3>2
  <2> QED
    BY <2>1 DEF On
<1>6. ASSUME NEW l \in Levels PROVE Chained(l)'
  <2>1. Chained(l)
    BY DEF ListInv
  <2> QED
    BY <1>1, <1>5, <2>1 DEF Chained
<1>7. /\ max_height_' \in heights' /\ heights' \subseteq 1..kMaxHeight /\ max_height_ <= max_height_'
      /\ height <= max_height_' /\ max_height_' \in Nat /\ max_height_ \in Nat
  BY SMT, SMTT(40), <1>1, <1>2
<1>8. \A l \in Levels : l >= max_height_' => On(l)' = {}
  <2>1. \A l \in Levels : l >= max_height_' => l >= max_height_
    BY SMT, SMTT(40), <1>7, NodeOrder
  <2> QED
    BY <1>2, <1>5, <2>1
<1>9. /\ inserted' = {k \in On(0)' : insert' = Idle \/ k # insert'.key}
  <2>1. On(0)' = inserted' /\ key \notin inserted'
    BY <1>1, <1>2, <1>5, NodeOrder
  <2> QED
    BY <1>3, <2>1
<1>10. Placed'
  <2>1. FindPrev(key) \in [Levels -> Nodes] /\ \A l \in Levels : Before(key, l, FindPrev(key)[l])
    BY <1>1, PrevIs
  <2>2. insert' \in InsertType
    <3>1. 0 \in Levels
      BY NodeOrder
    <3> QED
      BY <1>1, <2>1, <3>1 DEF InsertType
  <2>3. ASSUME NEW l \in Levels
        PROVE  /\ FindPrev(key)[l] \in From(l) /\ FindPrev(key)[l] < key
               /\ key < next_[FindPrev(key)[l]][l]
    <3> DEFINE p == FindPrev(key)[l]
    <3>1. p \in From(l) /\ p < key /\ key <= next_[p][l]
      BY <2>1 DEF Before
    <3> HIDE DEF p
    <3>2. next_[p][l] \in On(l) \cup {nullptr}
      BY <3>1 DEF ListInv, Chained
    <3>3. key \in Nat /\ key \notin On(l) /\ key # nullptr
      BY <1>4, NodeOrder DEF Nodes
    <3>a. next_[p][l] # key /\ next_[p][l] \in Nat
      BY <3>2, <3>3, OnKeys
    <3>4. key < next_[p][l]
      BY SMT, SMTT(40), <3>1, <3>3, <3>a
    <3> QED
      BY <3>1, <3>4 DEF p
  <2>4. 0 < height /\ \A l \in Levels : ~(l < 0)
    BY SMT, SMTT(40), <1>2, NodeOrder
  <2> QED
    BY <1>1, <1>3, <1>4, <1>5, <1>7, <2>2, <2>3, <2>4 DEF Placed
<1>11. next_' = next_ /\ (insert' # Idle => Placed')
  BY <1>1, <1>10
<1>12. \A l \in Levels : l > 0 => On(l)' \subseteq On(l - 1)'
  <2> SUFFICES ASSUME NEW l \in Levels, l > 0 PROVE On(l)' \subseteq On(l - 1)'
    OBVIOUS
  <2>1. l - 1 \in Levels
    BY OnKeys
  <2>2. On(l) \subseteq On(l - 1)
    BY <1>2
  <2>3. On(l)' = On(l) /\ On(l - 1)' = On(l - 1)
    BY <1>5, <2>1
  <2> QED
    BY <2>2, <2>3
<1>13. /\ next_ \in [Nodes -> [Levels -> Keys \cup {nullptr, junk}]]
       /\ \A n \in Nodes, l \in Levels : next_[n][l] # junk => n < next_[n][l]
  BY DEF ListInv
<1>14. ListInv'
  BY <1>6, <1>7, <1>8, <1>9, <1>11, <1>12, <1>13 DEF ListInv
<1> QED
  BY <1>5, <1>14

\* The link of the new node: no level changes, as nothing leads to it there.
LEMMA LinkInv ==
    ASSUME ListInv, Link
    PROVE  ListInv' /\ \A l \in Levels : On(l)' = On(l)
<1> DEFINE key == insert.key
           lev == insert.level
           p == insert.prev[lev]
<1>1. /\ insert.pc = "link" /\ insert' = [insert EXCEPT !.pc = "publish"]
      /\ next_' = [next_ EXCEPT ![key][lev] = next_[p][lev]]
      /\ UNCHANGED <<max_height_, heights, inserted>>
  BY DEF Link
<1>2. insert # Idle /\ Placed
  <2>1. Idle.pc = "idle"
    BY DEF Idle
  <2> QED
    BY <1>1, <2>1 DEF ListInv
<1>3. /\ insert \in InsertType /\ key \in Keys /\ lev \in Levels /\ key \in Nodes /\ lev < insert.height
      /\ key \notin inserted /\ insert.height <= max_height_
  BY <1>2 DEF Placed, InsertType, Nodes
<1>4. /\ insert'.pc = "publish" /\ insert'.key = key /\ insert'.level = lev /\ insert'.prev = insert.prev
      /\ insert'.height = insert.height /\ insert' \in InsertType /\ insert' # Idle
  <2>1. Idle.pc = "idle"
    BY DEF Idle
  <2>2. insert'.pc = "publish"
    BY <1>1, <1>3 DEF InsertType
  <2>3. /\ insert'.key = key /\ insert'.level = lev /\ insert'.prev = insert.prev
        /\ insert'.height = insert.height /\ insert' \in InsertType
    BY <1>1, <1>3 DEF InsertType
  <2>4. insert' # Idle
    BY <2>1, <2>2
  <2> QED
    BY <2>2, <2>3, <2>4
<1>5. next_ \in [Nodes -> [Levels -> Keys \cup {nullptr, junk}]]
  BY DEF ListInv
<1>6. p \in From(lev) /\ p < key /\ key < next_[p][lev]
  <2>0. lev \in Nat
    BY <1>3, NodeOrder
  <2>1. lev >= lev
    BY SMT, SMTT(40), <2>0
  <2> QED
    BY <1>2, <1>3, <2>1 DEF Placed
<1>7. p \in Nodes /\ next_[p][lev] \in On(lev) \cup {nullptr} /\ p # key
  <2>1. next_[p][lev] \in On(lev) \cup {nullptr}
    BY <1>3, <1>6 DEF ListInv, Chained
  <2>2. p \in Nodes
    BY <1>6, OnKeys
  <2>3. p \in Nat /\ key \in Nat
    BY <1>3, <2>2, NodeOrder
  <2> QED
    BY SMT, SMTT(40), <1>6, <2>1, <2>2, <2>3
<1>8. next_[p][lev] \in Keys \cup {nullptr, junk} /\ next_[p][lev] # junk /\ next_[p][lev] \in Nat
  BY <1>7, OnKeys
<1> HIDE DEF p, key, lev
<1>9. /\ next_' \in [Nodes -> [Levels -> Keys \cup {nullptr, junk}]]
      /\ next_'[key][lev] = next_[p][lev]
      /\ \A n \in Nodes, l \in Levels : n # key \/ l # lev => next_'[n][l] = next_[n][l]
  BY <1>1, <1>3, <1>5, <1>8
<1>10. \A l \in Levels : On(l)' = On(l) /\ From(l)' = From(l)
  <2> SUFFICES ASSUME NEW l \in Levels PROVE On(l)' = On(l)
    BY DEF From
  <2>1. ASSUME NEW k \in Keys PROVE k \in On(l)' <=> k \in On(l)
    <3>1. Unlinked(k, l)' <=> Unlinked(k, l)
      BY <1>2, <1>4 DEF Unlinked, key, lev
    <3>2. CASE k = key /\ l = lev
      <4>1. l >= lev
        BY SMT, SMTT(40), <1>3, <3>2, NodeOrder
      <4>2. Unlinked(k, l)
        BY <1>2, <3>2, <4>1 DEF Unlinked, key, lev
      <4> QED
        BY <3>1, <4>2 DEF On
    <3>3. CASE k # key \/ l # lev
      <4>1. next_'[k][l] = next_[k][l]
        BY <1>9, <3>3 DEF Nodes
      <4> QED
        BY <3>1, <4>1 DEF On
    <3> QED
      BY <3>2, <3>3
  <2> QED
    BY <2>1 DEF On
<1>11. ASSUME NEW l \in Levels, NEW n \in From(l) PROVE next_'[n][l] = next_[n][l]
  <2>1. n \in Nodes
    BY <1>11, OnKeys
  <2>2. ~(n = key /\ l = lev)
    <3> SUFFICES ASSUME n = key, l = lev PROVE FALSE
      OBVIOUS
    <3>1. key # head_ /\ lev >= lev
      BY SMT, SMTT(40), <1>3, NodeOrder
    <3>2. key \in On(lev)
      BY <1>11, <3>1 DEF From
    <3> QED
      BY <1>2, <3>1, <3>2 DEF On, Unlinked, key, lev
  <2> QED
    BY <1>9, <2>1, <2>2
<1>12. ASSUME NEW l \in Levels PROVE Chained(l)'
  <2>1. Chained(l)
    BY DEF ListInv
  <2> QED
    BY <1>10, <1>11, <2>1 DEF Chained
<1>13. ASSUME NEW n \in Nodes, NEW l \in Levels, next_'[n][l] # junk PROVE n < next_'[n][l]
  <2>1. CASE n = key /\ l = lev
    BY <1>6, <1>9, <2>1
  <2>2. CASE n # key \/ l # lev
    BY <1>9, <1>13, <2>2 DEF ListInv
  <2> QED
    BY <2>1, <2>2
<1>14. Placed'
  <2>1. ASSUME NEW l \in Levels, l >= lev
        PROVE  /\ insert.prev[l] \in From(l) /\ insert.prev[l] < key
               /\ key < next_'[insert.prev[l]][l]
    <3>1. insert.prev[l] \in From(l) /\ insert.prev[l] < key /\ key < next_[insert.prev[l]][l]
      BY <1>2, <2>1 DEF Placed, key, lev
    <3> QED
      BY <1>11, <3>1
  <2>2. ASSUME NEW l \in Levels, l < lev PROVE next_'[key][l] # junk
    <3>1. l # lev
      BY SMT, SMTT(40), <2>2, <1>3, NodeOrder
    <3>2. next_[key][l] # junk
      BY <1>2, <2>2 DEF Placed, key, lev
    <3> QED
      BY <1>3, <1>9, <3>1, <3>2
  <2>3. ASSUME NEW l \in Levels, l > lev PROVE next_'[key][l] = junk
    <3>1. l # lev
      BY SMT, SMTT(40), <2>3, <1>3, NodeOrder
    <3>2. next_[key][l] = junk
      BY <1>2, <2>3 DEF Placed, key, lev
    <3> QED
      BY <1>3, <1>9, <3>1, <3>2
  <2>4. next_'[p][lev] = next_[p][lev]
    BY <1>3, <1>6, <1>11
  <2>5. /\ insert'.level = lev /\ insert'.key = key /\ insert'.prev = insert.prev /\ insert'.pc = "publish"
    BY <1>4 DEF key, lev
  <2>6. \A l \in Levels : l >= insert'.level
          => /\ insert'.prev[l] \in From(l)' /\ insert'.prev[l] < insert'.key
             /\ insert'.key < next_'[insert'.prev[l]][l]
    BY <1>10, <2>1, <2>5
  <2>7. \A l \in Levels : l < insert'.level => next_'[insert'.key][l] # junk
    BY <2>2, <2>5
  <2>8. next_'[insert'.key][insert'.level] = next_'[insert'.prev[insert'.level]][insert'.level]
    BY <1>9, <2>4, <2>5 DEF p, lev
  <2>9. \A l \in Levels : l > insert'.level \/ (l = insert'.level /\ insert'.pc = "link")
          => next_'[insert'.key][l] = junk
    <3>1. "publish" # "link"
      OBVIOUS
    <3> QED
      BY <2>3, <2>5, <3>1
  <2>10. /\ insert' \in InsertType /\ insert'.level < insert'.height /\ insert'.height <= max_height_'
         /\ insert'.key \notin inserted'
    <3>1. insert'.level = insert.level /\ insert'.height = insert.height /\ insert'.key = insert.key
      BY <1>4 DEF key, lev
    <3>2. max_height_' = max_height_ /\ inserted' = inserted
      BY <1>1
    <3>3. insert.level < insert.height /\ insert.height <= max_height_ /\ insert.key \notin inserted
      BY <1>2 DEF Placed
    <3> QED
      BY <1>4, <3>1, <3>2, <3>3
  <2> QED
    BY <2>6, <2>7, <2>8, <2>9, <2>10 DEF Placed
<1>15. inserted' = {k \in On(0)' : insert' = Idle \/ k # insert'.key}
  <2>1. inserted = {k \in On(0) : insert = Idle \/ k # insert.key}
    BY DEF ListInv
  <2>2. On(0)' = On(0)
    BY <1>10, NodeOrder
  <2> QED
    BY <1>1, <1>2, <1>4, <2>1, <2>2 DEF key
<1>16. ASSUME NEW l \in Levels, l > 0 PROVE On(l)' \subseteq On(l - 1)'
  <2>1. l - 1 \in Levels
    BY <1>16, OnKeys
  <2>2. On(l) \subseteq On(l - 1)
    BY <1>16 DEF ListInv
  <2>3. On(l)' = On(l) /\ On(l - 1)' = On(l - 1)
    BY <1>10, <2>1
  <2> QED
    BY <2>2, <2>3
<1>17. /\ max_height_' \in heights' /\ heights' \subseteq 1..kMaxHeight
       /\ \A l \in Levels : l >= max_height_' => On(l)' = {}
  BY <1>1, <1>10 DEF ListInv
<1>18. ListInv'
  BY <1>9, <1>12, <1>13, <1>14, <1>15, <1>16, <1>17 DEF ListInv
<1> QED
  BY <1>10, <1>18

\* What a Publish finds, and the one link that it stores.
LEMMA PublishIs ==
    ASSUME ListInv, Publish
    PROVE  LET key == insert.key
               lev == insert.level
               p == insert.prev[lev]
               q == next_[p][lev]
           IN  /\ insert # Idle /\ Placed /\ key \in Keys /\ key \in Nat /\ lev \in Levels /\ lev \in Nat
               /\ p \in From(lev) /\ p \in Nodes /\ p \in Nat /\ p < key /\ key < q /\ key \notin On(lev)
               /\ q \in On(lev) \cup {nullptr} /\ q \in Nat /\ next_[key][lev] = q
               /\ next_' \in [Nodes -> [Levels -> Keys \cup {nullptr, junk}]]
               /\ next_'[p][lev] = key
               /\ \A n \in Nodes, l \in Levels : n # p \/ l # lev => next_'[n][l] = next_[n][l]
<1> DEFINE key == insert.key
           lev == insert.level
           p == insert.prev[lev]
           q == next_[p][lev]
<1>1. insert.pc = "publish" /\ next_' = [next_ EXCEPT ![p][lev] = key]
  BY DEF Publish
<1>2. insert # Idle /\ Placed
  <2>1. Idle.pc # "publish"
    BY DEF Idle
  <2> QED
    BY <1>1, <2>1 DEF ListInv
<1>3. insert \in InsertType /\ key \in Keys /\ lev \in Levels /\ key \in Nodes
  BY <1>2 DEF Placed, InsertType, Nodes
<1>4. key \in Nat /\ lev \in Nat
  BY <1>3, NodeOrder
<1>5. lev >= lev
  BY SMT, SMTT(40), <1>4
<1>6. p \in From(lev) /\ p < key /\ key < q /\ next_[key][lev] = q /\ key \notin On(lev)
  BY <1>1, <1>2, <1>3, <1>5 DEF Placed, On, Unlinked
<1>7. q \in On(lev) \cup {nullptr} /\ q \in Nat
  <2>1. Chained(lev)
    BY <1>3 DEF ListInv
  <2> QED
    BY <1>6, <2>1, OnKeys DEF Chained
<1>8. p \in Nodes /\ p \in Nat
  BY <1>6, OnKeys, NodeOrder
<1>9. next_ \in [Nodes -> [Levels -> Keys \cup {nullptr, junk}]]
  BY DEF ListInv
<1> HIDE DEF p, key, lev
<1>10. /\ next_' \in [Nodes -> [Levels -> Keys \cup {nullptr, junk}]]
       /\ next_'[p][lev] = key
       /\ \A n \in Nodes, l \in Levels : n # p \/ l # lev => next_'[n][l] = next_[n][l]
  BY <1>1, <1>3, <1>8, <1>9
<1> QED
  BY <1>2, <1>3, <1>4, <1>6, <1>7, <1>8, <1>10 DEF p, key, lev

\* A Publish puts the node on its level, and on no other.
LEMMA PublishOn ==
    ASSUME ListInv, Publish
    PROVE  \A l \in Levels : On(l)' = IF l = insert.level THEN On(l) \cup {insert.key} ELSE On(l)
<1> DEFINE key == insert.key
           lev == insert.level
           p == insert.prev[lev]
           q == next_[p][lev]
<1>1. /\ insert # Idle /\ Placed /\ key \in Keys /\ key \in Nat /\ lev \in Levels /\ lev \in Nat
      /\ p \in From(lev) /\ p \in Nodes /\ p \in Nat /\ p < key /\ key < q /\ key \notin On(lev)
      /\ q \in On(lev) \cup {nullptr} /\ q \in Nat /\ next_[key][lev] = q
      /\ next_' \in [Nodes -> [Levels -> Keys \cup {nullptr, junk}]]
      /\ next_'[p][lev] = key
      /\ \A n \in Nodes, l \in Levels : n # p \/ l # lev => next_'[n][l] = next_[n][l]
  BY PublishIs
<1>2. \/ insert' = [insert EXCEPT !.pc = "link", !.level = @ + 1]
      \/ insert' = Idle
  BY DEF Publish
<1>3. ASSUME NEW k \in Keys, NEW l \in Levels
      PROVE  /\ k # key => (Unlinked(k, l)' <=> Unlinked(k, l))
             /\ l < lev => (Unlinked(k, l)' <=> Unlinked(k, l))
             /\ Unlinked(k, l)' => l # lev
             /\ k = key /\ l > lev => Unlinked(k, l) /\ next_[k][l] = junk
  <2>0. l \in Nat
    BY NodeOrder
  <2>1. insert \in InsertType
    BY <1>1 DEF Placed
  <2>2. CASE insert' = Idle
    <3>1. ~Unlinked(k, l)'
      BY <2>2 DEF Unlinked
    <3>2. k # key \/ l < lev => ~Unlinked(k, l)
      <4>1. l < lev => ~(l >= lev)
        BY SMT, SMTT(40), <1>1, <2>0
      <4> QED
        BY <4>1 DEF Unlinked
    <3>3. k = key /\ l > lev => Unlinked(k, l) /\ next_[k][l] = junk
      <4>1. l > lev => l >= lev
        BY SMT, SMTT(40), <1>1, <2>0
      <4> QED
        BY <1>1, <4>1 DEF Unlinked, Placed
    <3> QED
      BY <3>1, <3>2, <3>3
  <2>3. CASE insert' = [insert EXCEPT !.pc = "link", !.level = @ + 1]
    <3>1. insert'.key = key /\ insert'.level = lev + 1 /\ insert'.pc = "link"
      BY <2>1, <2>3 DEF InsertType
    <3>2. insert' # Idle
      <4>1. Idle.pc = "idle"
        BY DEF Idle
      <4>2. "link" # "idle"
        OBVIOUS
      <4> QED
        BY <3>1, <4>1, <4>2
    <3>3. Unlinked(k, l)' <=> k = key /\ l >= lev + 1
      BY <3>1, <3>2 DEF Unlinked
    <3>4. Unlinked(k, l) <=> k = key /\ l >= lev
      BY <1>1 DEF Unlinked
    <3>5. (l < lev => ~(l >= lev) /\ ~(l >= lev + 1)) /\ (l >= lev + 1 => l # lev) /\ (l > lev => l >= lev)
      BY SMT, SMTT(40), <1>1, <2>0
    <3>6. k = key /\ l > lev => next_[k][l] = junk
      BY <1>1 DEF Placed
    <3> QED
      BY <3>3, <3>4, <3>5, <3>6
  <2> QED
    BY <1>2, <2>2, <2>3
<1>4. \A n \in Keys : n \in Nodes /\ n # junk
  BY NodeOrder DEF Nodes
<1>5. q # junk
  BY <1>1, OnKeys
<1>6. ASSUME NEW l \in Levels, l = lev, NEW k \in Keys PROVE k \in On(l)' <=> k \in On(l) \/ k = key
  <2>1. ~Unlinked(k, l)'
    BY <1>3, <1>6
  <2>2. CASE k = p
    <3>1. k # key
      BY SMT, SMTT(40), <1>1, <2>2
    <3>2. next_'[k][l] # junk /\ next_[k][l] # junk
      BY <1>1, <1>4, <1>5, <1>6, <2>2
    <3> QED
      BY <1>3, <2>1, <3>1, <3>2 DEF On
  <2>3. CASE k # p
    <3>1. next_'[k][l] = next_[k][l]
      BY <1>1, <1>4, <2>3
    <3>2. CASE k = key
      <4>1. next_[k][l] # junk
        BY <1>1, <1>5, <1>6, <3>2
      <4> QED
        BY <2>1, <3>1, <3>2, <4>1 DEF On
    <3>3. CASE k # key
      BY <1>3, <2>1, <3>1, <3>3 DEF On
    <3> QED
      BY <3>2, <3>3
  <2> QED
    BY <2>2, <2>3
<1>7. ASSUME NEW l \in Levels, l # lev, NEW k \in Keys PROVE k \in On(l)' <=> k \in On(l)
  <2>1. next_'[k][l] = next_[k][l]
    BY <1>1, <1>4, <1>7
  <2>2. l < lev \/ l > lev
    <3>1. l \in Nat
      BY NodeOrder
    <3> QED
      BY SMT, SMTT(40), <1>1, <1>7, <3>1
  <2>3. CASE l < lev \/ k # key
    BY <1>3, <2>1, <2>3 DEF On
  <2>4. CASE l > lev /\ k = key
    BY <1>3, <2>1, <2>4 DEF On
  <2> QED
    BY <2>2, <2>3, <2>4
<1>8. \A l : On(l)' \subseteq Keys /\ On(l) \subseteq Keys
  BY DEF On
<1>9. ASSUME NEW l \in Levels, l = lev PROVE On(l)' = On(l) \cup {key}
  BY <1>1, <1>6, <1>8, <1>9
<1>10. ASSUME NEW l \in Levels, l # lev PROVE On(l)' = On(l)
  BY <1>7, <1>8, <1>10
<1> QED
  BY <1>9, <1>10

\* The level on which a node is published stays in order.
LEMMA PublishChained ==
    ASSUME ListInv, Publish, NEW l \in Levels
    PROVE  Chained(l)'
<1> DEFINE key == insert.key
           p == insert.prev[l]
           q == next_[p][l]
<1>1. Chained(l)
  BY DEF ListInv
<1>2. CASE l # insert.level
  <2>1. On(l)' = On(l) /\ From(l)' = From(l)
    BY <1>2, PublishOn DEF From
  <2>2. \A n \in Nodes : next_'[n][l] = next_[n][l]
    BY <1>2, PublishIs
  <2>3. From(l) \subseteq Nodes
    BY OnKeys
  <2> QED
    BY <1>1, <2>1, <2>2, <2>3 DEF Chained
<1>3. CASE l = insert.level
  <2>1. /\ key \in Keys /\ key \in Nat /\ p \in From(l) /\ p \in Nat /\ p < key /\ key < q /\ key \notin On(l)
        /\ q \in On(l) \cup {nullptr} /\ q \in Nat /\ next_[key][l] = q /\ next_'[p][l] = key
        /\ \A n \in Nodes : n # p => next_'[n][l] = next_[n][l]
    BY <1>3, PublishIs
  <2>2. On(l)' = On(l) \cup {key} /\ From(l)' = From(l) \cup {key}
    BY <1>3, PublishOn DEF From
  <2>3. /\ \A n \in From(l) : n \in Nodes /\ n \in Nat /\ (n # head_ => n \in On(l))
        /\ \A m \in On(l) : m \in Nat
    BY OnKeys, NodeOrder DEF From
  <2>4. key \in Nodes /\ key # p
    <3>1. key \in Nodes
      BY <2>1 DEF Nodes
    <3> QED
      BY SMT, SMTT(40), <2>1, <3>1
  <2> HIDE DEF p, key
  <2>5. ASSUME NEW n \in From(l)'
        PROVE  /\ next_'[n][l] \in On(l)' \cup {nullptr} /\ n < next_'[n][l]
               /\ \A m \in On(l)' : n < m => next_'[n][l] <= m
    <3>1. CASE n = key
      <4>1. next_'[n][l] = q
        BY <2>1, <2>4, <3>1
      <4>2. ASSUME NEW m \in On(l)', n < m PROVE q <= m
        <5>1. m # key
          BY SMT, SMTT(40), <2>1, <3>1, <4>2
        <5>2. m \in On(l) /\ m \in Nat
          BY <2>2, <2>3, <5>1
        <5>3. p < m
          BY SMT, SMTT(40), <2>1, <3>1, <4>2, <5>2
        <5> QED
          BY <1>1, <2>1, <5>2, <5>3 DEF Chained
      <4> QED
        BY <2>1, <2>2, <3>1, <4>1, <4>2
    <3>2. CASE n = p
      <4>1. next_'[n][l] = key
        BY <2>1, <3>2
      <4>2. ASSUME NEW m \in On(l)', n < m PROVE key <= m
        <5>1. CASE m = key
          BY SMT, SMTT(40), <2>1, <5>1
        <5>2. CASE m # key
          <6>1. m \in On(l) /\ m \in Nat
            BY <2>2, <2>3, <5>2
          <6>2. q <= m
            BY <1>1, <2>1, <3>2, <4>2, <6>1 DEF Chained
          <6> QED
            BY SMT, SMTT(40), <2>1, <6>1, <6>2
        <5> QED
          BY <5>1, <5>2
      <4> QED
        BY <2>1, <2>2, <3>2, <4>1, <4>2
    <3>3. CASE n # key /\ n # p
      <4>1. n \in From(l) /\ n \in Nodes /\ n \in Nat
        BY <2>2, <2>3, <3>3
      <4>2. next_'[n][l] = next_[n][l]
        BY <2>1, <3>3, <4>1
      <4>3. /\ next_[n][l] \in On(l) \cup {nullptr} /\ n < next_[n][l]
            /\ \A m \in On(l) : n < m => next_[n][l] <= m
        BY <1>1, <4>1 DEF Chained
      <4>4. n < key => next_[n][l] <= key
        <5> SUFFICES ASSUME n < key PROVE next_[n][l] <= key
          OBVIOUS
        <5>1. n < p \/ p < n
          BY SMT, SMTT(40), <2>1, <3>3, <4>1
        <5>2. ~(p < n)
          <6> SUFFICES ASSUME p < n PROVE FALSE
            OBVIOUS
          <6>1. n # head_
            BY SMT, SMTT(40), <2>1, <4>1, NodeOrder
          <6>2. n \in On(l)
            BY <2>3, <4>1, <6>1
          <6>3. q <= n
            BY <1>1, <2>1, <6>2 DEF Chained
          <6> QED
            BY SMT, SMTT(40), <2>1, <4>1, <6>3
        <5>3. p # head_
          BY SMT, SMTT(40), <2>1, <4>1, <5>1, <5>2, NodeOrder
        <5>4. p \in On(l)
          BY <2>1, <2>3, <5>3
        <5>5. next_[n][l] <= p
          BY <4>3, <5>1, <5>2, <5>4
        <5>6. next_[n][l] \in Nat
          BY <2>3, <4>3, NodeOrder
        <5> QED
          BY SMT, SMTT(40), <2>1, <5>5, <5>6
      <4> QED
        BY <2>2, <4>2, <4>3, <4>4
    <3> QED
      BY <3>1, <3>2, <3>3
  <2> QED
    BY <2>5 DEF Chained
<1> QED
  BY <1>2, <1>3

\* The node that is published has its place on the levels still to come.
LEMMA PublishPlaced ==
    ASSUME ListInv, Publish, insert' # Idle
    PROVE  Placed' /\ insert'.key = insert.key /\ inserted' = inserted
<1> DEFINE key == insert.key
           lev == insert.level
           p == insert.prev[lev]
<1>1. /\ insert # Idle /\ Placed /\ key \in Keys /\ lev \in Levels /\ lev \in Nat
      /\ \A n \in Nodes, l \in Levels : n # p \/ l # lev => next_'[n][l] = next_[n][l]
  BY PublishIs
<1>2. /\ insert' = [insert EXCEPT !.pc = "link", !.level = @ + 1] /\ inserted' = inserted
      /\ lev + 1 < insert.height /\ max_height_' = max_height_
  BY DEF Publish
<1>3. /\ insert \in InsertType /\ insert.height <= max_height_ /\ key \notin inserted
      /\ \A l \in Levels : l >= lev =>
          insert.prev[l] \in From(l) /\ insert.prev[l] < key /\ key < next_[insert.prev[l]][l]
      /\ \A l \in Levels : l < lev => next_[key][l] # junk
      /\ \A l \in Levels : l > lev => next_[key][l] = junk
  BY <1>1 DEF Placed
<1>4. lev + 1 \in Levels /\ \A l \in Levels : l \in Nat
  <2>1. insert.height \in 1..kMaxHeight /\ kMaxHeight \in Nat
    BY <1>3, NodeOrder DEF InsertType
  <2> QED
    BY SMT, SMTT(40), <1>1, <1>2, <2>1 DEF Levels
<1>5. /\ insert' \in InsertType /\ insert'.pc = "link" /\ insert'.key = key /\ insert'.height = insert.height
      /\ insert'.level = lev + 1 /\ insert'.prev = insert.prev
  <2> DEFINE mid == [insert EXCEPT !.pc = "link"]
  <2>1. /\ mid \in InsertType /\ mid.pc = "link" /\ mid.key = key /\ mid.height = insert.height
        /\ mid.prev = insert.prev
    BY <1>3 DEF InsertType
  <2>2. insert' = [mid EXCEPT !.level = lev + 1]
    BY <1>2
  <2> HIDE DEF mid
  <2> QED
    BY <1>4, <2>1, <2>2 DEF InsertType
<1>6. key \in Nodes /\ \A l \in Levels : From(l) \subseteq Nodes
  BY <1>1, OnKeys DEF Nodes
<1>7. next_'[key][lev] # junk
  <2>1. next_[key][lev] = next_[p][lev] /\ next_[p][lev] \in On(lev) \cup {nullptr} /\ p < key /\ p \in Nat /\ key \in Nat
    BY PublishIs
  <2>2. p # key
    BY SMT, SMTT(40), <2>1
  <2> QED
    BY <1>1, <1>6, <2>1, <2>2, OnKeys
<1> HIDE DEF lev, p, key
<1>8. ASSUME NEW l \in Levels, l >= lev + 1
      PROVE  /\ insert.prev[l] \in From(l)' /\ insert.prev[l] < key
             /\ key < next_'[insert.prev[l]][l]
  <2>1. l # lev /\ l >= lev
    BY SMT, SMTT(40), <1>1, <1>4, <1>8
  <2>2. insert.prev[l] \in From(l) /\ insert.prev[l] < key /\ key < next_[insert.prev[l]][l]
    BY <1>3, <2>1
  <2>3. From(l)' = From(l)
    BY <2>1, PublishOn DEF From, lev
  <2>4. next_'[insert.prev[l]][l] = next_[insert.prev[l]][l]
    BY <1>1, <1>6, <2>1, <2>2
  <2> QED
    BY <2>2, <2>3, <2>4
<1>9. ASSUME NEW l \in Levels, l < lev + 1 PROVE next_'[key][l] # junk
  <2>1. l = lev \/ (l # lev /\ l < lev)
    BY SMT, SMTT(40), <1>1, <1>4, <1>9
  <2> QED
    BY <1>1, <1>3, <1>6, <1>7, <2>1
<1>10. ASSUME NEW l \in Levels, l >= lev + 1 PROVE next_'[key][l] = junk
  <2>1. l # lev /\ l > lev
    BY SMT, SMTT(40), <1>1, <1>4, <1>10
  <2> QED
    BY <1>1, <1>3, <1>6, <2>1
<1>11. \A l \in Levels : l > lev + 1 \/ l = lev + 1 => l >= lev + 1
  BY SMT, SMTT(40), <1>1, <1>4
<1>12. insert'.level < insert'.height /\ insert'.height <= max_height_' /\ insert'.key \notin inserted'
  <2>1. insert'.level = lev + 1 /\ insert'.height = insert.height /\ insert'.key = insert.key
    BY <1>5 DEF key
  <2>2. lev + 1 < insert.height /\ insert.height <= max_height_ /\ insert.key \notin inserted
    BY <1>2, <1>3 DEF key, lev
  <2>3. max_height_' = max_height_ /\ inserted' = inserted
    BY <1>2
  <2> QED
    BY <2>1, <2>2, <2>3
<1>13. \A l \in Levels : l >= insert'.level =>
         insert'.prev[l] \in From(l)' /\ insert'.prev[l] < insert'.key /\ insert'.key < next_'[insert'.prev[l]][l]
  BY <1>5, <1>8 DEF key, lev
<1>14. /\ \A l \in Levels : l < insert'.level => next_'[insert'.key][l] # junk
       /\ \A l \in Levels : l > insert'.level \/ (l = insert'.level /\ insert'.pc = "link") => next_'[insert'.key][l] = junk
  BY <1>5, <1>9, <1>10, <1>11 DEF key, lev
<1>15. insert'.pc # "publish"
  <2>1. "link" # "publish"
    OBVIOUS
  <2> QED
    BY <1>5, <2>1
<1>16. Placed'
  BY <1>5, <1>12, <1>13, <1>14, <1>15 DEF Placed
<1> QED
  BY <1>2, <1>5, <1>16 DEF key

\* Publish: the node is on one level more, and on all of its levels after the last.
LEMMA PublishInv ==
    ASSUME ListInv, Publish
    PROVE  ListInv' /\ \A l \in Levels : On(l) \subseteq On(l)'
<1> DEFINE key == insert.key
           lev == insert.level
<1>1. /\ insert # Idle /\ Placed /\ key \in Keys /\ key \in Nat /\ lev \in Levels /\ lev \in Nat
      /\ insert.prev[lev] < key /\ insert.prev[lev] \in Nodes
      /\ next_' \in [Nodes -> [Levels -> Keys \cup {nullptr, junk}]] /\ next_'[insert.prev[lev]][lev] = key
      /\ \A n \in Nodes, l \in Levels : n # insert.prev[lev] \/ l # lev => next_'[n][l] = next_[n][l]
  BY PublishIs
<1>2. \A l \in Levels : On(l)' = IF l = lev THEN On(l) \cup {key} ELSE On(l)
  BY PublishOn
<1>3. max_height_' = max_height_ /\ heights' = heights
  BY DEF Publish
<1> HIDE DEF key, lev
<1>4. ASSUME NEW n \in Nodes, NEW l \in Levels, next_'[n][l] # junk PROVE n < next_'[n][l]
  <2>1. CASE n = insert.prev[lev] /\ l = lev
    BY <1>1, <2>1
  <2>2. CASE n # insert.prev[lev] \/ l # lev
    BY <1>1, <1>4, <2>2 DEF ListInv
  <2> QED
    BY <2>1, <2>2
<1>5. ASSUME NEW l \in Levels, l < lev PROVE key \in On(l)
  <2>1. next_[key][l] # junk
    BY <1>1, <1>5 DEF Placed, key, lev
  <2>2. ~(l >= lev)
    BY SMT, SMTT(40), <1>1, <1>5, NodeOrder
  <2> QED
    BY <1>1, <2>1, <2>2 DEF On, Unlinked, lev
<1>6. ASSUME NEW l \in Levels, l > 0 PROVE On(l)' \subseteq On(l - 1)'
  <2>1. l - 1 \in Levels /\ On(l) \subseteq On(l - 1)
    BY <1>6, OnKeys DEF ListInv
  <2>2. l = lev => l - 1 < lev /\ l - 1 # lev
    BY SMT, SMTT(40), <1>1
  <2>3. l = lev => key \in On(l - 1)
    BY <1>5, <2>1, <2>2
  <2>4. On(l - 1) \subseteq On(l - 1)'
    BY <1>2, <2>1
  <2> QED
    BY <1>2, <2>1, <2>3, <2>4
<1>7. ASSUME NEW l \in Levels, l >= max_height_ PROVE On(l)' = {}
  <2>1. lev < insert.height /\ insert.height <= max_height_ /\ insert.height \in Nat
    <3>1. insert.height \in 1..kMaxHeight /\ kMaxHeight \in Nat
      BY <1>1, NodeOrder DEF Placed, InsertType
    <3>2. insert.height \in Nat
      BY SMT, SMTT(40), <3>1
    <3> QED
      BY <1>1, <3>2 DEF Placed, lev
  <2>2. max_height_ \in Nat /\ l \in Nat
    <3>1. max_height_ \in 1..kMaxHeight /\ kMaxHeight \in Nat /\ l \in Nat
      BY NodeOrder DEF ListInv
    <3> QED
      BY SMT, SMTT(40), <3>1
  <2>3. l # lev
    BY SMT, SMTT(40), <1>1, <1>7, <2>1, <2>2
  <2> QED
    BY <1>2, <1>7, <2>3 DEF ListInv
<1>8. inserted = {k \in On(0) : k # key} /\ 0 \in Levels
  BY <1>1, NodeOrder DEF ListInv, key
<1>9. key \in On(0)' \/ lev = 0
  <2>1. lev = 0 \/ 0 < lev
    BY SMT, SMTT(40), <1>1
  <2> QED
    BY <1>2, <1>5, <1>8, <2>1
<1>10. CASE insert' # Idle
  <2>1. Placed' /\ insert'.key = key /\ inserted' = inserted
    BY <1>10, PublishPlaced DEF key
  <2>2. inserted' = {k \in On(0)' : insert' = Idle \/ k # insert'.key}
    BY <1>2, <1>8, <1>10, <2>1
  <2> QED
    BY <1>1, <1>2, <1>3, <1>4, <1>6, <1>7, <2>1, <2>2, PublishChained DEF ListInv
<1>11. CASE insert' = Idle
  <2>1. inserted' = inserted \cup {key}
    <3>1. /\ insert.level + 1 < insert.height => insert' = [insert EXCEPT !.pc = "link", !.level = @ + 1]
          /\ ~(insert.level + 1 < insert.height) => inserted' = inserted \cup {key}
      BY DEF Publish, key
    <3>2. Idle.pc = "idle" /\ insert \in InsertType
      BY <1>1 DEF Idle, Placed
    <3>3. insert' = [insert EXCEPT !.pc = "link", !.level = @ + 1] => insert'.pc = "link"
      BY <3>2 DEF InsertType
    <3>4. "link" # "idle"
      OBVIOUS
    <3> QED
      BY <1>11, <3>1, <3>2, <3>3, <3>4
  <2>2. inserted' = {k \in On(0)' : insert' = Idle \/ k # insert'.key}
    BY <1>2, <1>8, <1>9, <1>11, <2>1
  <2> QED
    BY <1>1, <1>2, <1>3, <1>4, <1>6, <1>7, <1>11, <2>2, PublishChained DEF ListInv
<1>12. ASSUME NEW l \in Levels PROVE On(l) \subseteq On(l)'
  BY <1>2
<1> QED
  BY <1>10, <1>11, <1>12

\* A step of the writer leaves readers in order: levels only gain nodes.
LEMMA ReadersKept ==
    ASSUME ReadersInv, \A l \in Levels : On(l) \subseteq On(l)', UNCHANGED <<node_, search, found>>
    PROVE  ReadersInv'
<1>1. node_' = node_ /\ search' = search /\ found' = found
  OBVIOUS
<1>2. ASSUME NEW s, Standing(s) PROVE Standing(s)'
  <2>1. s.level \in Levels /\ 0 \in Levels
    BY <1>2, NodeOrder DEF Standing, SearchType
  <2> QED
    BY <1>2, <2>1 DEF Standing, From
<1>3. ASSUME NEW r \in Readers PROVE node_[r] \in On(0)' \cup {nullptr}
  BY NodeOrder DEF ReadersInv
<1>4. \A r \in Readers : search[r] # Idle => Standing(search[r])'
  BY <1>1, <1>2 DEF ReadersInv
<1>5. \A r \in Readers : found[r] # Idle => Answers(node_[r], found[r])
  BY DEF ReadersInv
<1>6. node_ \in [Readers -> Keys \cup {nullptr}] /\ search = [t \in Readers |-> search[t]] /\ found = [t \in Readers |-> found[t]]
  BY DEF ReadersInv
<1> QED
  BY <1>1, <1>3, <1>4, <1>5, <1>6 DEF ReadersInv

\* The list does not change in a step of a reader.
LEMMA ListSame ==
    ASSUME UNCHANGED list
    PROVE  (ListInv => ListInv') /\ (\A l : On(l)' = On(l)) /\ (\A s : Standing(s) => Standing(s)')
<1>1. /\ next_' = next_ /\ max_height_' = max_height_ /\ heights' = heights /\ inserted' = inserted
      /\ insert' = insert
  BY DEF list
<1>2. \A k, l : Unlinked(k, l)' <=> Unlinked(k, l)
  BY <1>1 DEF Unlinked
<1>3. \A l : On(l)' = On(l) /\ From(l)' = From(l)
  BY <1>1, <1>2 DEF On, From
<1>4. \A l : Chained(l)' <=> Chained(l)
  BY <1>1, <1>3 DEF Chained
<1>5. Placed => Placed'
  BY <1>1, <1>3 DEF Placed
<1>6. ListInv => ListInv'
  BY <1>1, <1>3, <1>4, <1>5 DEF ListInv
<1>7. \A s : Standing(s) => Standing(s)'
  BY <1>3 DEF Standing
<1> QED
  BY <1>3, <1>6, <1>7

\* Reader r is left at n, with search s and result f.
Leaves(r, n, s, f) ==
    /\ node_' = [node_ EXCEPT ![r] = n] /\ search' = [search EXCEPT ![r] = s] /\ found' = [found EXCEPT ![r] = f]
    /\ UNCHANGED list

\* A step of one reader, given what it leaves behind.
LEMMA OneReader ==
    ASSUME ReadersInv, NEW r \in Readers, NEW n, NEW s, NEW f, Leaves(r, n, s, f),
           n \in On(0) \cup {nullptr}, s # Idle => Standing(s), f # Idle => Answers(n, f)
    PROVE  ReadersInv'
<1>0. /\ node_' = [node_ EXCEPT ![r] = n] /\ search' = [search EXCEPT ![r] = s] /\ found' = [found EXCEPT ![r] = f]
      /\ UNCHANGED list
  BY DEF Leaves
<1>1. node_ \in [Readers -> Keys \cup {nullptr}] /\ search = [t \in Readers |-> search[t]] /\ found = [t \in Readers |-> found[t]]
  BY DEF ReadersInv
<1>2. n \in Keys \cup {nullptr}
  BY OnKeys
<1>3. /\ node_' \in [Readers -> Keys \cup {nullptr}] /\ search' = [t \in Readers |-> search'[t]] /\ found' = [t \in Readers |-> found'[t]]
      /\ node_'[r] = n /\ search'[r] = s /\ found'[r] = f
      /\ \A t \in Readers : t # r => node_'[t] = node_[t] /\ search'[t] = search[t] /\ found'[t] = found[t]
  BY <1>0, <1>1, <1>2
<1>4. ASSUME NEW t \in Readers
      PROVE  /\ node_'[t] \in On(0)' \cup {nullptr}
             /\ search'[t] # Idle => Standing(search'[t])
             /\ found'[t] # Idle => Answers(node_'[t], found'[t])
  <2>1. On(0)' = On(0)
    BY <1>0, ListSame
  <2>2. CASE t = r
    BY <1>3, <2>1, <2>2
  <2>3. CASE t # r
    <3>1. node_[t] \in On(0) \cup {nullptr}
      BY DEF ReadersInv
    <3>2. search[t] # Idle => Standing(search[t])
      BY DEF ReadersInv
    <3>3. found[t] # Idle => Answers(node_[t], found[t])
      BY DEF ReadersInv
    <3> QED
      BY <1>3, <2>1, <2>3, <3>1, <3>2, <3>3
  <2> QED
    BY <2>2, <2>3
<1>5. \A t \in Readers : search'[t] # Idle => Standing(search[t])'
  <2>1. \A x : Standing(x) => Standing(x)'
    BY <1>0, ListSame
  <2> QED
    BY <1>4, <2>1
<1> QED
  BY <1>3, <1>4, <1>5 DEF ReadersInv

\* A search begins at head_, before every key.
LEMMA BeginInv ==
    ASSUME ListInv, ReadersInv, NEW r \in Readers, NEW key \in Keys \cup {nullptr},
           NEW pc \in {"FindGreaterOrEqual", "FindLessThan", "FindLast"}, pc = "FindLast" => key = nullptr,
           Begin(r, pc, key)
    PROVE  ReadersInv' /\ UNCHANGED list
<1>1. PICK h \in heights :
          search' = [search EXCEPT ![r] = [pc |-> pc, key |-> key, x |-> head_, level |-> h - 1, seen |-> inserted]]
  BY DEF Begin
<1> DEFINE s == [pc |-> pc, key |-> key, x |-> head_, level |-> h - 1, seen |-> inserted]
<1>2. found' = [found EXCEPT ![r] = Idle] /\ UNCHANGED list /\ node_' = node_
  BY DEF Begin
<1>3. h - 1 \in Levels
  <2>1. h \in 1..kMaxHeight /\ kMaxHeight \in Nat
    BY NodeOrder DEF ListInv
  <2> QED
    BY SMT, SMTT(40), <2>1 DEF Levels
<1>4. inserted \subseteq On(0) /\ inserted \subseteq Keys
  BY DEF ListInv, On
<1>5. head_ < key /\ head_ \in Nodes
  BY NodeOrder DEF Nodes
<1>6. s.pc = pc /\ s.key = key /\ s.x = head_ /\ s.level = h - 1 /\ s.seen = inserted
  OBVIOUS
<1>7. s \in SearchType
  BY <1>3, <1>4, <1>5 DEF SearchType
<1>8. Standing(s)
  BY <1>4, <1>5, <1>6, <1>7 DEF Standing, From
<1>9. node_ = [node_ EXCEPT ![r] = node_[r]] /\ node_[r] \in On(0) \cup {nullptr}
  <2>1. node_ \in [Readers -> Keys \cup {nullptr}] /\ node_[r] \in On(0) \cup {nullptr}
    BY DEF ReadersInv
  <2> QED
    BY <2>1
<1> HIDE DEF s
<1>10. search' = [search EXCEPT ![r] = s]
  BY <1>1 DEF s
<1>11. Leaves(r, node_[r], s, Idle)
  BY <1>2, <1>9, <1>10 DEF Leaves
<1>12. ReadersInv'
  BY <1>8, <1>9, <1>11, OneReader
<1> QED
  BY <1>2, <1>12

\* What a search that is under way loads: a node further on its level, or nullptr.
LEMMA LoadIs ==
    ASSUME ListInv, ReadersInv, NEW r \in Readers, search[r] # Idle
    PROVE  LET s == search[r]
               n == next_[s.x][s.level]
           IN  /\ Standing(s) /\ s.level \in Levels /\ s.level \in Nat /\ s.x \in Nat /\ s.key \in Nat /\ s.key <= nullptr
               /\ s.x \in From(s.level) /\ s.x < s.key /\ s.seen \subseteq On(0) /\ s.seen \subseteq Keys
               /\ n \in On(s.level) \cup {nullptr} /\ n \in Nat /\ s.x < n
               /\ \A m \in On(s.level) : s.x < m => n <= m
<1> DEFINE s == search[r]
<1>1. Standing(s)
  BY DEF ReadersInv
<1>2. /\ s.level \in Levels /\ s.key \in Keys \cup {nullptr} /\ s.seen \subseteq Keys
      /\ s.x \in From(s.level) /\ s.x < s.key /\ s.seen \subseteq On(0)
  BY <1>1 DEF Standing, SearchType
<1>3. s.level \in Nat /\ s.x \in Nat
  BY <1>2, OnKeys, NodeOrder
<1>4. s.key \in Nat /\ s.key <= nullptr
  <2> HIDE DEF s
  <2> QED
    BY SMT, SMTT(40), <1>2, NodeOrder
<1>5. Chained(s.level)
  BY <1>2 DEF ListInv
<1> DEFINE n == next_[s.x][s.level]
<1>6. /\ n \in On(s.level) \cup {nullptr} /\ s.x < n
      /\ \A m \in On(s.level) : s.x < m => n <= m
  BY <1>2, <1>5 DEF Chained
<1>7. n \in Nat
  BY <1>6, OnKeys
<1> QED
  BY <1>1, <1>2, <1>3, <1>4, <1>6, <1>7

\* A load that moves the search on.
LEMMA RightInv ==
    ASSUME ListInv, ReadersInv, NEW r \in Readers, search[r] # Idle, NEW n \in On(search[r].level),
           n < search[r].key, Right(r, n)
    PROVE  ReadersInv' /\ UNCHANGED list
<1> DEFINE s == search[r]
           t == [s EXCEPT !.x = n]
<1>1. search' = [search EXCEPT ![r].x = n] /\ UNCHANGED list /\ node_' = node_ /\ found' = found
  BY DEF Right
<1>2. /\ search = [x \in Readers |-> search[x]] /\ found = [x \in Readers |-> found[x]] /\ node_ \in [Readers -> Keys \cup {nullptr}]
      /\ node_[r] \in On(0) \cup {nullptr} /\ (found[r] # Idle => Answers(node_[r], found[r]))
  BY DEF ReadersInv
<1>3. /\ s \in SearchType /\ (s.pc = "FindLast" => s.key = nullptr) /\ s.seen \subseteq On(0)
  <2>1. Standing(s)
    BY LoadIs
  <2> QED
    BY <2>1 DEF Standing
<1>4. n \in Nodes
  BY OnKeys DEF Nodes
<1>5. t \in SearchType /\ t.pc = s.pc /\ t.key = s.key /\ t.level = s.level /\ t.seen = s.seen /\ t.x = n
  <2> HIDE DEF s
  <2> QED
    BY <1>3, <1>4 DEF SearchType
<1>6. search' = [search EXCEPT ![r] = t]
  BY <1>1
<1> HIDE DEF t
<1>7. Standing(t)
  BY <1>3, <1>5 DEF Standing, From
<1>8. node_' = [node_ EXCEPT ![r] = node_[r]] /\ found' = [found EXCEPT ![r] = found[r]]
  <2>1. node_ = [node_ EXCEPT ![r] = node_[r]]
    BY <1>2
  <2>2. found = [found EXCEPT ![r] = found[r]]
    BY <1>2
  <2> QED
    BY <1>1, <2>1, <2>2
<1>9. Leaves(r, node_[r], t, found[r])
  BY <1>1, <1>6, <1>8 DEF Leaves
<1>10. ReadersInv'
  BY <1>2, <1>7, <1>9, OneReader
<1> QED
  BY <1>1, <1>10

\* A load that takes the search one level down, where the node is linked too.
LEMMA DownInv ==
    ASSUME ListInv, ReadersInv, NEW r \in Readers, search[r] # Idle, Down(r)
    PROVE  ReadersInv' /\ UNCHANGED list
<1> DEFINE s == search[r]
           t == [s EXCEPT !.level = s.level - 1]
<1>1. /\ s.level > 0 /\ search' = [search EXCEPT ![r].level = s.level - 1]
      /\ UNCHANGED list /\ node_' = node_ /\ found' = found
  BY DEF Down
<1>2. /\ search = [x \in Readers |-> search[x]] /\ found = [x \in Readers |-> found[x]]
      /\ node_ \in [Readers -> Keys \cup {nullptr}]
      /\ node_[r] \in On(0) \cup {nullptr} /\ (found[r] # Idle => Answers(node_[r], found[r]))
  BY DEF ReadersInv
<1>3. /\ s \in SearchType /\ (s.pc = "FindLast" => s.key = nullptr) /\ s.seen \subseteq On(0)
      /\ s.x \in From(s.level) /\ s.x < s.key /\ s.level \in Levels
  <2>1. Standing(s)
    BY LoadIs
  <2> QED
    BY <2>1 DEF Standing, SearchType
<1>4. s.level - 1 \in Levels /\ From(s.level) \subseteq From(s.level - 1)
  BY <1>1, <1>3, OnKeys DEF ListInv, From
<1>5. t \in SearchType /\ t.pc = s.pc /\ t.key = s.key /\ t.level = s.level - 1 /\ t.seen = s.seen /\ t.x = s.x
  <2> HIDE DEF s
  <2> QED
    BY <1>3, <1>4 DEF SearchType
<1>6. search' = [search EXCEPT ![r] = t]
  BY <1>1
<1> HIDE DEF t
<1>7. Standing(t)
  BY <1>3, <1>4, <1>5 DEF Standing
<1>8. node_' = [node_ EXCEPT ![r] = node_[r]] /\ found' = [found EXCEPT ![r] = found[r]]
  BY <1>1, <1>2
<1>9. Leaves(r, node_[r], t, found[r])
  BY <1>1, <1>6, <1>8 DEF Leaves
<1>10. ReadersInv'
  BY <1>2, <1>7, <1>9, OneReader
<1> QED
  BY <1>1, <1>10

\* An operation ends, on what answers it.
LEMMA EndInv ==
    ASSUME ReadersInv, NEW r \in Readers, NEW n \in On(0) \cup {nullptr}, NEW up \in BOOLEAN, NEW bound \in Nat,
           NEW seen \in SUBSET Keys, End(r, n, up, bound, seen),
           n # nullptr => (IF up THEN n >= bound ELSE n < bound),
           \A k \in seen : IF up THEN k >= bound => n <= k ELSE k < bound => n # nullptr /\ n >= k
    PROVE  ReadersInv' /\ UNCHANGED list
<1> DEFINE f == [pc |-> "done", up |-> up, bound |-> bound, seen |-> seen]
<1>1. /\ node_' = [node_ EXCEPT ![r] = n] /\ search' = [search EXCEPT ![r] = Idle]
      /\ found' = [found EXCEPT ![r] = f] /\ UNCHANGED list
  BY DEF End
<1>2. f \in FoundType /\ f.up = up /\ f.bound = bound /\ f.seen = seen
  BY DEF FoundType
<1> HIDE DEF f
<1>3. Answers(n, f)
  BY <1>2 DEF Answers
<1>4. Leaves(r, n, Idle, f)
  BY <1>1 DEF Leaves
<1>5. ReadersInv'
  BY <1>3, <1>4, OneReader
<1> QED
  BY <1>1, <1>5

\* A search for the first key from a key up.
LEMMA FindGreaterOrEqualInv ==
    ASSUME ListInv, ReadersInv, NEW r \in Readers, FindGreaterOrEqual(r)
    PROVE  ReadersInv' /\ UNCHANGED list
<1> DEFINE s == search[r]
           n == next_[s.x][s.level]
<1>1. /\ s.pc = "FindGreaterOrEqual"
      /\ \/ KeyIsAfterNode(s.key, n) /\ Right(r, n)
         \/ Down(r)
         \/ ~KeyIsAfterNode(s.key, n) /\ s.level = 0 /\ End(r, n, TRUE, s.key, s.seen)
  BY DEF FindGreaterOrEqual
<1>2. s # Idle
  <2>1. Idle.pc # "FindGreaterOrEqual"
    BY DEF Idle
  <2> QED
    BY <1>1, <2>1
<1>3. /\ s.level \in Levels /\ s.x \in Nat /\ s.key \in Nat /\ s.x < s.key /\ s.key <= nullptr
      /\ s.seen \subseteq On(0) /\ s.seen \subseteq Keys
      /\ n \in On(s.level) \cup {nullptr} /\ n \in Nat
      /\ \A m \in On(s.level) : s.x < m => n <= m
  BY <1>2, LoadIs
<1> HIDE DEF n, s
<1>4. CASE KeyIsAfterNode(s.key, n) /\ Right(r, n)
  BY <1>2, <1>3, <1>4, RightInv DEF KeyIsAfterNode, s
<1>5. CASE Down(r)
  BY <1>2, <1>5, DownInv DEF s
<1>6. CASE ~KeyIsAfterNode(s.key, n) /\ s.level = 0 /\ End(r, n, TRUE, s.key, s.seen)
  <2>1. n # nullptr => n >= s.key
    BY SMT, SMTT(40), <1>3, <1>6 DEF KeyIsAfterNode
  <2>2. ASSUME NEW k \in s.seen, k >= s.key PROVE n <= k
    <3>1. k \in On(0) /\ k \in Nat
      BY <1>3, OnKeys
    <3>2. s.x < k
      BY SMT, SMTT(40), <1>3, <2>2, <3>1
    <3> QED
      BY <1>3, <1>6, <3>1, <3>2
  <2>3. n \in On(0) \cup {nullptr} /\ s.seen \in SUBSET Keys /\ TRUE \in BOOLEAN
    BY <1>3, <1>6
  <2> QED
    BY <1>3, <1>6, <2>1, <2>2, <2>3, EndInv
<1> QED
  BY <1>1, <1>4, <1>5, <1>6

\* A search for the last key before a key, or for the last of all.
LEMMA FindBelowInv ==
    ASSUME ListInv, ReadersInv, NEW r \in Readers, FindLessThan(r) \/ FindLast(r)
    PROVE  ReadersInv' /\ UNCHANGED list
<1> DEFINE s == search[r]
           n == next_[s.x][s.level]
<1>1. /\ s.pc \in {"FindLessThan", "FindLast"}
      /\ \/ n # nullptr /\ (s.pc = "FindLessThan" => n < s.key) /\ Right(r, n)
         \/ Down(r)
         \/ /\ s.pc = "FindLessThan" => ~(n # nullptr /\ n < s.key)
            /\ s.pc = "FindLast" => n = nullptr
            /\ s.level = 0
            /\ \/ End(r, AsPosition(s.x), FALSE, s.key, s.seen)
               \/ s.pc = "FindLast" /\ End(r, AsPosition(s.x), FALSE, nullptr, s.seen)
  <2>0. "FindLessThan" # "FindLast"
    OBVIOUS
  <2>1. CASE FindLessThan(r)
    BY <2>0, <2>1 DEF FindLessThan
  <2>2. CASE FindLast(r)
    BY <2>0, <2>2 DEF FindLast
  <2> QED
    BY <2>1, <2>2
<1>2. s # Idle
  <2>1. Idle.pc \notin {"FindLessThan", "FindLast"}
    BY DEF Idle
  <2> QED
    BY <1>1, <2>1
<1>3. /\ Standing(s) /\ s.level \in Levels /\ s.x \in Nat /\ s.key \in Nat /\ s.x < s.key /\ s.key <= nullptr
      /\ s.seen \subseteq On(0) /\ s.seen \subseteq Keys /\ s.x \in From(s.level)
      /\ n \in On(s.level) \cup {nullptr} /\ n \in Nat
      /\ \A m \in On(s.level) : s.x < m => n <= m
  BY <1>2, LoadIs
<1>4. s.pc = "FindLast" => s.key = nullptr
  BY <1>3 DEF Standing
<1> HIDE DEF n, s
<1>5. CASE n # nullptr /\ (s.pc = "FindLessThan" => n < s.key) /\ Right(r, n)
  <2>1. n \in On(s.level)
    BY <1>3, <1>5
  <2>2. n < nullptr
    BY <2>1, OnKeys, NodeOrder
  <2>3. n < s.key
    BY <1>1, <1>4, <1>5, <2>2
  <2> QED
    BY <1>2, <1>5, <2>1, <2>3, RightInv DEF s
<1>6. CASE Down(r)
  BY <1>2, <1>6, DownInv DEF s
<1>7. CASE /\ s.pc = "FindLessThan" => ~(n # nullptr /\ n < s.key)
           /\ s.pc = "FindLast" => n = nullptr
           /\ s.level = 0
           /\ \/ End(r, AsPosition(s.x), FALSE, s.key, s.seen)
              \/ s.pc = "FindLast" /\ End(r, AsPosition(s.x), FALSE, nullptr, s.seen)
  <2>1. End(r, AsPosition(s.x), FALSE, s.key, s.seen) /\ (n = nullptr \/ ~(n < s.key))
    BY <1>1, <1>4, <1>7
  <2>2. s.key <= n
    BY SMT, SMTT(40), <1>3, <2>1
  <2>3. s.x \in On(0) \cup {head_} /\ head_ = 0 /\ nullptr \in Nat
    BY <1>3, <1>7, NodeOrder DEF From
  <2> DEFINE a == AsPosition(s.x)
  <2>4. a = IF s.x = head_ THEN nullptr ELSE s.x
    BY DEF AsPosition
  <2>5. a \in On(0) \cup {nullptr} /\ (a # nullptr => a < s.key)
    BY <1>3, <2>3, <2>4
  <2>6. ASSUME NEW k \in s.seen, k < s.key PROVE a # nullptr /\ a >= k
    <3>1. k \in On(0) /\ k \in Nat /\ 0 < k
      BY <1>3, OnKeys, NodeOrder
    <3>2. ~(s.x < k)
      <4> SUFFICES ASSUME s.x < k PROVE FALSE
        OBVIOUS
      <4>1. n <= k
        BY <1>3, <1>7, <3>1
      <4> QED
        BY SMT, SMTT(40), <1>3, <2>2, <2>6, <3>1, <4>1
    <3>3. s.x # head_ /\ s.x >= k
      BY SMT, SMTT(40), <1>3, <2>3, <3>1, <3>2
    <3>4. a = s.x
      BY <2>4, <3>3
    <3>5. a # nullptr
      BY SMT, SMTT(40), <1>3, <3>4
    <3> QED
      BY <3>3, <3>4, <3>5
  <2>7. s.seen \in SUBSET Keys /\ FALSE \in BOOLEAN /\ FALSE # TRUE
    BY <1>3
  <2> HIDE DEF a
  <2>8. End(r, a, FALSE, s.key, s.seen)
    BY <2>1 DEF a
  <2> QED
    BY <1>3, <2>5, <2>6, <2>7, <2>8, EndInv
<1> QED
  BY <1>1, <1>5, <1>6, <1>7

\* Next and SeekToFirst are one load of a link of the lowest level.
LEMMA OneLoadInv ==
    ASSUME ListInv, ReadersInv, NEW r \in Readers, IterNext(r) \/ IterSeekToFirst(r)
    PROVE  ReadersInv' /\ UNCHANGED list
<1>1. inserted \subseteq On(0) /\ inserted \in SUBSET Keys /\ Chained(0) /\ \A k \in inserted : k \in Nat /\ 0 < k
  BY NodeOrder DEF ListInv, On
<1>2. ASSUME NEW x \in From(0), NEW bound \in Nat, bound <= x + 1, bound >= x, bound = x => x = head_,
             End(r, next_[x][0], TRUE, bound, inserted)
      PROVE  ReadersInv' /\ UNCHANGED list
  <2> DEFINE n == next_[x][0]
  <2>1. n \in On(0) \cup {nullptr} /\ x < n /\ \A m \in On(0) : x < m => n <= m
    BY <1>1, <1>2 DEF Chained
  <2>2. n \in Nat /\ x \in Nat
    BY <2>1, OnKeys, NodeOrder
  <2> HIDE DEF n
  <2>3. n >= bound
    BY SMT, SMTT(40), <1>2, <2>1, <2>2
  <2>4. ASSUME NEW k \in inserted, k >= bound PROVE n <= k
    <3>1. k \in On(0) /\ k \in Nat /\ 0 < k
      BY <1>1
    <3>2. x < k
      BY SMT, SMTT(40), <1>2, <2>2, <2>4, <3>1, NodeOrder
    <3> QED
      BY <2>1, <3>1, <3>2
  <2>5. End(r, n, TRUE, bound, inserted) /\ TRUE \in BOOLEAN
    BY <1>2 DEF n
  <2> QED
    BY <1>1, <2>1, <2>3, <2>4, <2>5, EndInv
<1>3. CASE IterNext(r)
  <2>1. node_[r] # nullptr /\ End(r, next_[node_[r]][0], TRUE, node_[r] + 1, inserted)
    BY <1>3 DEF IterNext
  <2>2. node_[r] \in On(0)
    BY <2>1 DEF ReadersInv
  <2>3. node_[r] \in From(0) /\ node_[r] \in Nat
    BY <2>2, OnKeys DEF From
  <2>4. /\ node_[r] + 1 \in Nat /\ node_[r] + 1 <= node_[r] + 1 /\ node_[r] + 1 >= node_[r]
        /\ node_[r] + 1 # node_[r]
    BY SMT, SMTT(40), <2>3
  <2> QED
    BY <1>2, <2>1, <2>3, <2>4
<1>4. CASE IterSeekToFirst(r)
  <2>1. End(r, next_[head_][0], TRUE, head_, inserted)
    BY <1>4 DEF IterSeekToFirst
  <2>2. head_ \in From(0)
    BY DEF From
  <2>3. head_ \in Nat /\ head_ <= head_ + 1 /\ head_ >= head_
    BY SMT, SMTT(40), NodeOrder
  <2> QED
    BY <1>2, <2>1, <2>2, <2>3
<1> QED
  BY <1>3, <1>4

\* The list and its readers are in order in every reachable state.
LEMMA ListAlways == SkipListSpec => [](ListInv /\ ReadersInv)
<1>1. SkipListInit => ListInv /\ ReadersInv
  <2> SUFFICES ASSUME SkipListInit PROVE ListInv /\ ReadersInv
    OBVIOUS
  <2>1. /\ next_ = [n \in Nodes |-> [l \in Levels |-> IF n = head_ THEN nullptr ELSE junk]]
        /\ max_height_ = 1 /\ heights = {1} /\ inserted = {} /\ insert = Idle
        /\ node_ = [r \in Readers |-> nullptr] /\ search = [r \in Readers |-> Idle]
        /\ found = [r \in Readers |-> Idle]
    BY DEF SkipListInit
  <2>2. next_ \in [Nodes -> [Levels -> Keys \cup {nullptr, junk}]]
    BY <2>1
  <2>3. \A n \in Nodes, l \in Levels : next_[n][l] = IF n = head_ THEN nullptr ELSE junk
    BY <2>1
  <2>4. \A k \in Keys : k \in Nodes /\ k # head_
    BY NodeOrder DEF Nodes
  <2>5. \A l \in Levels : On(l) = {} /\ From(l) = {head_}
    BY <2>3, <2>4 DEF On, From
  <2>6. head_ \in Nodes /\ head_ < nullptr
    BY NodeOrder DEF Nodes
  <2>7. ASSUME NEW l \in Levels PROVE Chained(l)
    <3>1. next_[head_][l] = nullptr /\ On(l) = {} /\ From(l) = {head_}
      BY <2>3, <2>5, <2>6
    <3> QED
      BY <2>6, <3>1 DEF Chained
  <2>8. \A n \in Nodes, l \in Levels : next_[n][l] # junk => n < next_[n][l]
    BY <2>3, <2>6
  <2>9. heights \subseteq 1..kMaxHeight /\ max_height_ \in heights
    <3>1. kMaxHeight \in Nat \ {0}
      BY SkipListAssumption
    <3> QED
      BY SMT, SMTT(40), <2>1, <3>1
  <2>10. ListInv
    <3>1. 0 \in Levels
      BY NodeOrder
    <3>2. inserted = {k \in On(0) : insert = Idle \/ k # insert.key}
      BY <2>1, <2>5, <3>1
    <3>3. \A l \in Levels : l > 0 => On(l) \subseteq On(l - 1)
      BY <2>5
    <3> QED
      BY <2>1, <2>2, <2>5, <2>7, <2>8, <2>9, <3>2, <3>3 DEF ListInv
  <2>11. ReadersInv
    BY <2>1 DEF ReadersInv
  <2> QED
    BY <2>10, <2>11
<1>2. ListInv /\ ReadersInv /\ [SkipListNext]_listVars => ListInv' /\ ReadersInv'
  <2> SUFFICES ASSUME ListInv, ReadersInv, [SkipListNext]_listVars PROVE ListInv' /\ ReadersInv'
    OBVIOUS
  <2>1. ASSUME NEW key \in Keys, NEW height \in 1..kMaxHeight, Insert(key, height) PROVE ListInv' /\ ReadersInv'
    <3>1. ListInv' /\ \A l \in Levels : On(l)' = On(l)
      BY <2>1, InsertInv
    <3>2. \A l \in Levels : On(l) \subseteq On(l)'
      BY <3>1
    <3>3. UNCHANGED <<node_, search, found>>
      BY <2>1 DEF Insert
    <3> QED
      BY <3>1, <3>2, <3>3, ReadersKept
  <2>2. CASE Link
    <3>1. ListInv' /\ \A l \in Levels : On(l)' = On(l)
      BY <2>2, LinkInv
    <3>2. \A l \in Levels : On(l) \subseteq On(l)'
      BY <3>1
    <3>3. UNCHANGED <<node_, search, found>>
      BY <2>2 DEF Link
    <3> QED
      BY <3>1, <3>2, <3>3, ReadersKept
  <2>3. CASE Publish
    <3>1. ListInv' /\ \A l \in Levels : On(l) \subseteq On(l)'
      BY <2>3, PublishInv
    <3>2. UNCHANGED <<node_, search, found>>
      BY <2>3 DEF Publish
    <3> QED
      BY <3>1, <3>2, ReadersKept
  <2>4. ASSUME NEW r \in Readers,
               \/ \E key \in Keys : IterSeek(r, key)
               \/ IterPrev(r) \/ IterSeekToLast(r) \/ IterNext(r) \/ IterSeekToFirst(r)
               \/ FindGreaterOrEqual(r) \/ FindLessThan(r) \/ FindLast(r)
        PROVE  ListInv' /\ ReadersInv'
    <3>0. "FindGreaterOrEqual" # "FindLast" /\ "FindLessThan" # "FindLast"
      OBVIOUS
    <3>1. CASE \E key \in Keys : IterSeek(r, key)
      <4>1. PICK key \in Keys : Begin(r, "FindGreaterOrEqual", key)
        BY <3>1 DEF IterSeek
      <4>2. key \in Keys \cup {nullptr}
        OBVIOUS
      <4> QED
        BY <3>0, <4>1, <4>2, BeginInv, ListSame
    <3>2. CASE IterPrev(r)
      <4>1. Begin(r, "FindLessThan", node_[r]) /\ node_[r] \in Keys \cup {nullptr}
        BY <3>2 DEF IterPrev, ReadersInv
      <4> QED
        BY <3>0, <4>1, BeginInv, ListSame
    <3>3. CASE IterSeekToLast(r)
      <4>1. Begin(r, "FindLast", nullptr) /\ nullptr \in Keys \cup {nullptr}
        BY <3>3 DEF IterSeekToLast
      <4> QED
        BY <4>1, BeginInv, ListSame
    <3>4. CASE IterNext(r) \/ IterSeekToFirst(r)
      BY <3>4, OneLoadInv, ListSame
    <3>5. CASE FindGreaterOrEqual(r)
      BY <3>5, FindGreaterOrEqualInv, ListSame
    <3>6. CASE FindLessThan(r) \/ FindLast(r)
      BY <3>6, FindBelowInv, ListSame
    <3> QED
      BY <2>4, <3>1, <3>2, <3>3, <3>4, <3>5, <3>6
  <2>5. CASE UNCHANGED listVars
    <3>1. UNCHANGED list /\ UNCHANGED <<node_, search, found>>
      BY <2>5 DEF listVars, list
    <3>2. \A l \in Levels : On(l) \subseteq On(l)'
      BY <3>1, ListSame
    <3> QED
      BY <3>1, <3>2, ListSame, ReadersKept
  <2> QED
    BY <2>1, <2>2, <2>3, <2>4, <2>5 DEF SkipListNext
<1> QED
  BY <1>1, <1>2, PTL DEF SkipListSpec

\* What the links of a level lead to is what is on it.
LEMMA LevelIs ==
    ASSUME ListInv, NEW l \in Levels
    PROVE  OnLevel(l) = On(l)
<1>1. Chained(l)
  BY DEF ListInv
<1>2. ASSUME NEW n \in OnLevel(l) PROVE n \in On(l)
  <2>1. n \in Keys /\ n # junk /\ n # nullptr
    BY NodeOrder DEF OnLevel, Nodes
  <2>2. PICK m \in Nodes : next_[m][l] = n /\ ~Unlinked(m, l)
    BY DEF OnLevel
  <2>3. m \in From(l)
    BY <2>1, <2>2 DEF From, On, Nodes
  <2> QED
    BY <1>1, <2>1, <2>2, <2>3 DEF Chained
<1>3. ASSUME NEW n \in On(l) PROVE n \in OnLevel(l)
  <2>0. n \in Keys /\ n \in Nat /\ head_ < n /\ n < nullptr
    BY OnKeys, NodeOrder
  <2> DEFINE S == {m \in From(l) : m < n}
  <2>1. S \subseteq Nodes /\ head_ \in S
    BY <2>0, OnKeys DEF From
  <2>2. IsFiniteSet(S) /\ S \subseteq Nat /\ S # {}
    BY <2>1, NodesFinite, FS_Subset
  <2>3. PICK m \in S : \A k \in S : k <= m
    <3> HIDE DEF S
    <3> QED
      BY <2>2, Greatest
  <2> DEFINE q == next_[m][l]
  <2>4. m \in From(l) /\ m < n /\ m \in Nat /\ m \in Nodes
    BY <2>1, <2>2, <2>3
  <2>5. q \in On(l) \cup {nullptr} /\ m < q /\ q <= n
    BY <1>1, <2>4 DEF Chained
  <2>6. q \in Nat
    BY <2>5, OnKeys
  <2>7. q = n
    <3> SUFFICES ASSUME q # n PROVE FALSE
      OBVIOUS
    <3> HIDE DEF q
    <3>1. q < n /\ q # nullptr
      BY SMT, SMTT(40), <2>0, <2>5, <2>6
    <3>2. q \in S
      BY <2>5, <3>1 DEF From
    <3>3. q <= m
      BY <2>3, <3>2
    <3> QED
      BY SMT, SMTT(40), <2>4, <2>5, <2>6, <3>3
  <2>8. ~Unlinked(m, l)
    <3>1. CASE m = head_
      <4>1. insert # Idle => insert.key # head_
        <5>1. insert # Idle => insert.key \in Keys
          BY DEF ListInv, Placed, InsertType
        <5> QED
          BY <5>1, NodeOrder
      <4> QED
        BY <3>1, <4>1 DEF Unlinked
    <3>2. CASE m # head_
      BY <2>4, <3>2 DEF From, On
    <3> QED
      BY <3>1, <3>2
  <2> QED
    BY <2>0, <2>4, <2>7, <2>8 DEF OnLevel
<1> QED
  BY <1>2, <1>3

\* LinksSound: at every moment of an insertion, each level links its nodes in
\* order, has no node the level below has not, and the link a search loads next
\* was stored (Insert publishes a node after setting its own link, from the
\* bottom up).
THEOREM LevelsInOrder == SkipListSpec => []LinksSound
<1>1. ListInv /\ ReadersInv => LinksSound
  <2> SUFFICES ASSUME ListInv, ReadersInv PROVE LinksSound
    OBVIOUS
  <2>1. ASSUME NEW l \in Levels, NEW n \in OnLevel(l) \cup {head_}
        PROVE  /\ next_[n][l] > n
               /\ next_[n][l] = Min({m \in OnLevel(l) : m > n} \cup {nullptr})
    <3> DEFINE q == next_[n][l]
               S == {m \in OnLevel(l) : m > n} \cup {nullptr}
    <3>1. n \in From(l) /\ Chained(l) /\ OnLevel(l) = On(l)
      BY <2>1, LevelIs DEF ListInv, From
    <3>2. q \in On(l) \cup {nullptr} /\ n < q /\ \A m \in On(l) : n < m => q <= m
      BY <3>1 DEF Chained
    <3>3. q \in Nat /\ n \in Nat /\ nullptr \in Nat /\ (\A m \in On(l) : m \in Nat) /\ q <= nullptr
      <4>1. \A m \in On(l) : m \in Nat /\ m < nullptr
        BY OnKeys, NodeOrder
      <4>2. n \in Nat /\ nullptr \in Nat
        BY <3>1, OnKeys, NodeOrder
      <4>3. q \in Nat
        BY <3>2, OnKeys
      <4>4. q = nullptr \/ q < nullptr
        BY <3>2, <4>1
      <4>5. q <= nullptr
        <5> HIDE DEF q
        <5> QED
          BY SMT, SMTT(40), <4>2, <4>3, <4>4
      <4> QED
        BY <4>1, <4>2, <4>3, <4>5
    <3> HIDE DEF q
    <3>4. q > n
      BY <3>2, <3>3
    <3>5. q \in S
      BY <3>1, <3>2, <3>4
    <3>6. ASSUME NEW m \in S PROVE q <= m /\ m \in Nat
      <4>1. CASE m = nullptr
        BY <3>3, <4>1
      <4>2. CASE m # nullptr
        <5>1. m \in On(l) /\ m > n /\ m \in Nat
          BY <3>1, <3>3, <4>2
        <5>2. n < m
          BY <3>3, <5>1
        <5> QED
          BY <3>2, <5>1, <5>2
      <4> QED
        BY <4>1, <4>2
    <3> HIDE DEF S
    <3>7. Min(S) \in S /\ \A m \in S : Min(S) <= m
      BY <3>5, <3>6 DEF Min
    <3>8. Min(S) <= q /\ q <= Min(S) /\ Min(S) \in Nat
      BY <3>5, <3>6, <3>7
    <3>9. q = Min(S)
      BY SMT, SMTT(40), <3>3, <3>8
    <3> QED
      BY <3>4, <3>9 DEF q, S
  <2>2. ASSUME NEW l \in Levels, l > 0 PROVE OnLevel(l) \subseteq OnLevel(l - 1)
    <3>1. l - 1 \in Levels /\ On(l) \subseteq On(l - 1)
      BY <2>2, OnKeys DEF ListInv
    <3>2. OnLevel(l) = On(l)
      BY LevelIs
    <3>3. OnLevel(l - 1) = On(l - 1)
      BY <3>1, LevelIs
    <3> QED
      BY <3>1, <3>2, <3>3
  <2>3. ASSUME NEW r \in Readers, search[r] # Idle PROVE next_[search[r].x][search[r].level] # junk
    <3>1. next_[search[r].x][search[r].level] \in On(search[r].level) \cup {nullptr}
      BY <2>3, LoadIs
    <3> QED
      BY <3>1, OnKeys
  <2> QED
    BY <2>1, <2>2, <2>3 DEF LinksSound
<1> QED
  BY <1>1, ListAlways, PTL

\* SearchesExact: whatever the writer does meanwhile, an iterator ends on the
\* answer for a set of keys with all those whose Insert returned before.
THEOREM IteratorsExact == SkipListSpec => []SearchesExact
<1>1. ListInv /\ ReadersInv => SearchesExact
  <2> SUFFICES ASSUME ListInv, ReadersInv, NEW r \in Readers, found[r] # Idle
               PROVE  LET f == found[r]
                          n == node_[r]
                      IN  /\ n # nullptr => n \in OnLevel(0) /\ (IF f.up THEN n >= f.bound ELSE n < f.bound)
                          /\ \A k \in f.seen :
                              IF f.up THEN k >= f.bound => n <= k
                              ELSE k < f.bound => n # nullptr /\ n >= k
    BY DEF SearchesExact
  <2>1. OnLevel(0) = On(0)
    BY LevelIs, NodeOrder
  <2>2. node_[r] \in On(0) \cup {nullptr} /\ Answers(node_[r], found[r])
    BY DEF ReadersInv
  <2> QED
    BY <2>1, <2>2 DEF Answers
<1> QED
  BY <1>1, ListAlways, PTL
=============================================================================
