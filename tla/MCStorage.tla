----------------------------- MODULE MCStorage ------------------------------
(***************************************************************************)
(* TLC instance of LogFormat, Table, WritableFile and FIFOCache.  They     *)
(* share no state: a behaviour is one of a log, of a table, of a file or   *)
(* of a shard of the block cache.                                          *)
(***************************************************************************)
EXTENDS LogFormat, Table, WritableFile, FIFOCache

VARIABLE part                  \* which of them moves; the others have one initial state

StorageInit ==
    /\ LogInit /\ TableInit /\ WritableInit /\ CacheInit
    /\ part \in {"log", "table", "file", "cache"}
    /\ part = "file" \/ ~is_manifest_
    /\ part = "cache" \/ capacity_ = 0
    /\ part = "table" \/ options = [block_size |-> 7, block_restart_interval |-> 1, filter_policy |-> FALSE,
                                   compression |-> "kNoCompression"]
StorageNext ==
    \/ part = "log" /\ LogNext /\ UNCHANGED <<tableVars, writableVars, cacheVars, part>>
    \/ part = "table" /\ TableNext /\ UNCHANGED <<vars, writableVars, cacheVars, part>>
    \/ part = "file" /\ WritableNext /\ UNCHANGED <<vars, tableVars, cacheVars, part>>
    \/ part = "cache" /\ CacheNext /\ UNCHANGED <<vars, tableVars, writableVars, part>>
StorageSpec == StorageInit /\ [][StorageNext]_<<vars, tableVars, writableVars, cacheVars, part>>
-----------------------------------------------------------------------------
\* The keys of the cache are only compared with each other.
Symmetry == Permutations(Keys)

MCUserKeys == {<<0, 1>>, <<0, 3>>, <<2>>, <<3, 3>>}

\* Probes that meet, that wrap around at the end of the filter, and that give a
\* false positive.
MCHash == [u \in MCUserKeys |-> [h |-> 61 * u[1] + Len(u), delta |-> IF u[Len(u)] = 3 THEN 26 ELSE 29 + 2 * u[Len(u)]]]

MCOptions ==
    [block_size : {7, 15}, block_restart_interval : {1, 2}, filter_policy : BOOLEAN,
     compression : {"kNoCompression"}] \cup
    [block_size : {15}, block_restart_interval : {1}, filter_policy : BOOLEAN,
     compression : {"kSnappyCompression"}]
=============================================================================
