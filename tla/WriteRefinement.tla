-------------------------- MODULE WriteRefinement ---------------------------
(***************************************************************************)
(* The write path implements the key-value store: a group of writes takes  *)
(* effect when its leader publishes LastSequence(), a Get when it takes    *)
(* its snapshot.                                                           *)
(***************************************************************************)
EXTENDS WritePath

CallStatus(w) ==
    CASE wpc[w] = "idle" -> "idle"
      [] wpc[w] = "cmt" -> "ok"
      [] wpc[w] = "queued" /\ wres[w] # "none" -> wres[w]
      [] OTHER -> "pending"

Answer(r) ==
    LET g == get[r]
        seen == tables[g.mem] \cup (IF g.imm = NULL THEN {} ELSE tables[g.imm])
                             \cup UNION {sst[t] : t \in g.current}
    IN  IF g = NoGet THEN <<>>
        ELSE <<g.key, IF g.pc \in {"done", "update_stats"} THEN g.value
                      ELSE Newest(seen, g.key, g.snapshot)>>

KV == INSTANCE KVStore WITH
    store <- [k \in Keys |-> Newest(LiveEntries, k, last_sequence)],
    clock <- last_sequence,
    call <- [w \in Writers |-> CallStatus(w)],
    batch <- [w \in Writers |-> KeysOf(w)],
    answer <- [r \in Readers |-> Answer(r)]

\* Concurrent Writes and Gets are linearizable: db.h's atomic batches.
ImplementsKVStore == KV!KVSpec
=============================================================================
