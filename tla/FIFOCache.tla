----------------------------- MODULE FIFOCache ------------------------------
(***************************************************************************)
(* One shard of the block and table cache (kv/util/cache.cpp): entries     *)
(* with reference counts, the list fifo_ of entries only the cache holds,  *)
(* the list in_use_ of entries clients hold too, the hash table, and the   *)
(* charge in use.  Every method holds the mutex, so each is one action;    *)
(* clients call them in any order and hold any number of handles.          *)
(***************************************************************************)
EXTENDS Integers, FiniteSets, Sequences, FiniteSetsExt, SequencesExt

CONSTANTS
    Keys,
    Charges,       \* charges clients insert with
    Capacities,    \* capacities SetCapacity is called with
    MaxInserts,    \* bound: entries ever allocated
    MaxHandles     \* bound: handles held on one entry

ASSUME FIFOCacheAssumption ==
    /\ Charges \subseteq Nat /\ Capacities \subseteq Nat
    /\ MaxInserts \in Nat /\ MaxHandles \in Nat

Entries == 1..MaxInserts

VARIABLES
    capacity_,   \* set before the first use
    allocated,   \* number of entries allocated so far: entry i is the i-th
    key, charge, \* of each entry
    refs,        \* FIFOHandle::refs
    in_cache,    \* the entries with in_cache set
    fifo_,       \* oldest first
    in_use_,
    table_,      \* the entries in the hash table
    usage_,
    held,        \* handles clients hold on each entry
    deleted      \* how often the deleter was called for each entry

cacheVars == <<capacity_, allocated, key, charge, refs, in_cache, fifo_, in_use_, table_, usage_, held, deleted>>

CacheInit ==
    /\ capacity_ \in Capacities /\ allocated = 0
    /\ \E k \in Keys : key = [e \in Entries |-> k]
    /\ charge = [e \in Entries |-> 0]
    /\ refs = [e \in Entries |-> 0] /\ in_cache = {} /\ fifo_ = <<>> /\ in_use_ = {}
    /\ table_ = {} /\ usage_ = 0
    /\ held = [e \in Entries |-> 0] /\ deleted = [e \in Entries |-> 0]
-----------------------------------------------------------------------------
\* HandleTable::Lookup: the entry with the key, in a set.
Find(k) == {e \in table_ : key[e] = k}

Total(S, charges) == MapThenSumSet(LAMBDA e : charges[e], S)

\* Variant of Freed that does not look at the count.
Freed_All(S) == S

\* Unref for each entry of S: those that lose their last reference.
Freed(S) == {e \in S : refs[e] = 1}

UsageAfter(S, N) == usage_ + Total(N, charge') - Total(S, charge)

\* The entries S leave the cache (FinishErase, with the Unref in it, for each)
\* and the entries N enter it, held by the cache and by the caller.
FinishErase(S, N) ==
    /\ in_cache' = (in_cache \ S) \cup N /\ table_' = (table_ \ S) \cup N
    /\ in_use_' = (in_use_ \ S) \cup N
    /\ fifo_' = SelectSeq(fifo_, LAMBDA e : e \notin S)
    /\ usage_' = UsageAfter(S, N)
    /\ refs' = [e \in Entries |-> IF e \in N THEN 2 ELSE IF e \in S THEN refs[e] - 1 ELSE refs[e]]
    /\ deleted' = [e \in Entries |-> IF e \in Freed(S) THEN deleted[e] + 1 ELSE deleted[e]]

\* The entries the loop of Insert evicts when the charge is at usage: from the
\* front of the list, until it fits or the list is empty.
Evicted(list, usage) ==
    LET front(n) == ToSet(SubSeq(list, 1, n))
        fits(n) == usage - Total(front(n), charge) <= capacity_
    IN  front(Min({n \in 0..Len(list) : fits(n)} \cup {Len(list)}))

\* A new entry; an entry with the same key is replaced, and room is made.
Insert(k, c) ==
    /\ allocated < MaxInserts /\ capacity_ > 0
    /\ allocated' = allocated + 1
    /\ key' = [key EXCEPT ![allocated'] = k] /\ charge' = [charge EXCEPT ![allocated'] = c]
    /\ held' = [held EXCEPT ![allocated'] = 1] /\ UNCHANGED capacity_
    /\ LET old == Find(k)
           rest == SelectSeq(fifo_, LAMBDA e : e \notin old)
       IN  FinishErase(old \cup Evicted(rest, usage_ + c - Total(old, charge)), {allocated'})

\* With capacity 0 nothing is cached: the caller holds the only reference.
InsertUncached(k, c) ==
    /\ allocated < MaxInserts /\ capacity_ = 0
    /\ allocated' = allocated + 1
    /\ key' = [key EXCEPT ![allocated'] = k] /\ charge' = [charge EXCEPT ![allocated'] = c]
    /\ held' = [held EXCEPT ![allocated'] = 1] /\ refs' = [refs EXCEPT ![allocated'] = 1]
    /\ UNCHANGED <<capacity_, in_cache, fifo_, in_use_, table_, usage_, deleted>>

\* Lookup with a hit, and its Ref: from fifo_ to in_use_ for the first client.
Lookup(k) ==
    /\ \E e \in Find(k) :
        /\ held[e] < MaxHandles
        /\ held' = [held EXCEPT ![e] = @ + 1] /\ refs' = [refs EXCEPT ![e] = @ + 1]
        /\ IF refs[e] = 1
           THEN fifo_' = SelectSeq(fifo_, LAMBDA x : x # e) /\ in_use_' = in_use_ \cup {e}
           ELSE UNCHANGED <<fifo_, in_use_>>
    /\ UNCHANGED <<capacity_, allocated, key, charge, in_cache, table_, usage_, deleted>>

\* Release, and its Unref: the last reference frees the entry, the last client
\* leaves it to the cache.
Release(e) ==
    /\ held[e] > 0
    /\ held' = [held EXCEPT ![e] = @ - 1] /\ refs' = [refs EXCEPT ![e] = @ - 1]
    /\ deleted' = IF refs[e] = 1 THEN [deleted EXCEPT ![e] = @ + 1] ELSE deleted
    /\ IF e \in in_cache /\ refs[e] = 2
       THEN fifo_' = Append(fifo_, e) /\ in_use_' = in_use_ \ {e}
       ELSE UNCHANGED <<fifo_, in_use_>>
    /\ UNCHANGED <<capacity_, allocated, key, charge, in_cache, table_, usage_>>

\* Erase and Prune: the entry leaves the cache, its value when it is released.
Erase(k) ==
    /\ Find(k) # {}
    /\ FinishErase(Find(k), {})
    /\ UNCHANGED <<capacity_, allocated, key, charge, held>>

Prune ==
    /\ fifo_ # <<>>
    /\ FinishErase(ToSet(fifo_), {})
    /\ UNCHANGED <<capacity_, allocated, key, charge, held>>

\* A miss, an Erase or a Prune without effect; the only thing left to do once
\* all is released and erased.
NoEffect == UNCHANGED cacheVars

CacheNext ==
    \/ \E k \in Keys, c \in Charges : Insert(k, c) \/ InsertUncached(k, c)
    \/ \E k \in Keys : Lookup(k) \/ Erase(k)
    \/ \E e \in Entries : Release(e)
    \/ Prune \/ NoEffect

CacheSpec == CacheInit /\ [][CacheNext]_cacheVars
-----------------------------------------------------------------------------
(***************************************************************************)
(* Properties                                                              *)
(***************************************************************************)
\* Through any order of Insert, Lookup, Release, Erase, Prune and replacement of
\* the key: the reference count of an entry is the number of handles clients
\* hold, plus one while the cache has it; an entry in the cache is in fifo_
\* exactly if no client holds it, else in in_use_, and is found in the table
\* under a key no other entry has; usage_ is the total charge of the cache; and
\* the deleter ran for an entry exactly if the cache has dropped it and the last
\* client has released it: never under a client, never twice.
EntriesAccounted ==
    /\ \A e \in Entries : refs[e] = held[e] + (IF e \in in_cache THEN 1 ELSE 0)
    /\ ToSet(fifo_) = {e \in in_cache : refs[e] = 1} /\ Cardinality(ToSet(fifo_)) = Len(fifo_)
    /\ in_use_ = {e \in in_cache : refs[e] > 1}
    /\ table_ = in_cache /\ \A e, f \in table_ : key[e] = key[f] => e = f
    /\ usage_ = Total(in_cache, charge)
    /\ \A e \in 1..allocated : deleted[e] = IF held[e] = 0 /\ e \notin in_cache THEN 1 ELSE 0
=============================================================================
