------------------------------ MODULE KVStore -------------------------------
(***************************************************************************)
(* What the DB interface (kv/include/db.h) promises to concurrent callers: *)
(* a map from keys to values on which every Write takes effect atomically, *)
(* at one instant between its call and its return, in the order of its     *)
(* batch, and every Get returns the value its key had at one such instant. *)
(* A value is represented by the sequence number of the update that wrote  *)
(* it; 0 stands for a key that was never written.                          *)
(***************************************************************************)
EXTENDS Naturals, FiniteSets, Sequences, Functions

CONSTANTS Keys, Writers, Readers, Batches

VARIABLES
    store,    \* the current value of each key
    clock,    \* the last sequence number given out
    call,     \* per writer: outside a call, pending, or done and not returned
    batch,    \* per writer: the keys its batch updates, in order
    answer    \* per reader: <<>>, or the key of its Get and what it will return

kvVars == <<store, clock, call, batch, answer>>

KVInit ==
    /\ store = [k \in Keys |-> 0] /\ clock = 0
    /\ call = [w \in Writers |-> "idle"]
    /\ batch = [w \in Writers |-> <<>>]
    /\ answer = [r \in Readers |-> <<>>]

Submit(w) ==
    /\ call[w] = "idle"
    /\ call' = [call EXCEPT ![w] = "pending"]
    /\ \E b \in Batches \cup {<<>>} : batch' = [batch EXCEPT ![w] = b]
    /\ UNCHANGED <<store, clock, answer>>

\* The updates of a sequence of calls, one after the other.
Updates(ws) ==
    LET upto[i \in 0..Len(ws)] == IF i = 0 THEN <<>> ELSE upto[i - 1] \o batch[ws[i]]
    IN  upto[Len(ws)]

\* The calls in ws end with the status st; some return at once.
Finish(ws, st) ==
    /\ \A w \in Range(ws) : call[w] = "pending"
    /\ \A w \in Writers : call'[w] \in IF w \in Range(ws) THEN {st, "idle"} ELSE {call[w]}
    /\ DOMAIN call' = Writers
    /\ UNCHANGED <<batch, answer>>

Apply(ws) ==
    LET us == Updates(ws)
        Latest(k) == CHOOSE i \in DOMAIN us :
                      us[i] = k /\ \A j \in DOMAIN us : us[j] = k => j <= i
    IN  /\ Finish(ws, "ok")
        /\ store' = [k \in Keys |-> IF k \in Range(us) THEN clock + Latest(k) ELSE store[k]]
        /\ clock' = clock + Len(us)

\* A failed call changes nothing, but its sequence numbers may be used up.
Fail(ws) ==
    /\ Finish(ws, "err")
    /\ clock' >= clock
    /\ UNCHANGED store

Return(w) ==
    /\ call[w] \in {"ok", "err"}
    /\ call' = [call EXCEPT ![w] = "idle"]
    /\ UNCHANGED <<store, clock, batch, answer>>

BeginGet(r, k) ==
    /\ answer[r] = <<>>
    /\ answer' = [answer EXCEPT ![r] = <<k, store[k]>>]
    /\ UNCHANGED <<store, clock, call, batch>>

EndGet(r) ==
    /\ answer[r] # <<>>
    /\ answer' = [answer EXCEPT ![r] = <<>>]
    /\ UNCHANGED <<store, clock, call, batch>>

Groups == UNION {{ws \in [1..n -> Writers] : IsInjective(ws)} : n \in 1..Cardinality(Writers)}

KVNext ==
    \/ /\ call' # call
       /\ \/ \E w \in Writers : Submit(w) \/ Return(w)
          \/ \E ws \in Groups : Apply(ws) \/ Fail(ws)
    \/ /\ answer' # answer
       /\ \E r \in Readers : EndGet(r) \/ \E k \in Keys : BeginGet(r, k)

KVSpec == KVInit /\ [][KVNext]_kvVars
=============================================================================
