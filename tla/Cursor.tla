------------------------------- MODULE Cursor -------------------------------
(***************************************************************************)
(* What an iterator of the database promises (kv/include/iterator.h): it   *)
(* moves over the entries of one snapshot in the order of their keys, both *)
(* ways, and says so when it could not read something.                     *)
(***************************************************************************)
EXTENDS Integers, FiniteSetsExt

CONSTANT Targets          \* keys to seek

VARIABLES
    view,                 \* the snapshot: a function from keys to values
    position,             \* key and value, or Nowhere
    ok,                   \* status()
    call                  \* the operation under way, or NoCall

vars == <<view, position, ok, call>>

Nowhere == [key |-> 0, value |-> 0]
NoCall == [op |-> "none", target |-> 0]
Calls == [op : {"Seek"}, target : Targets]
         \cup [op : {"SeekToFirst", "SeekToLast", "Next", "Prev"}, target : {0}]

At(keys, Choice(_)) ==
    IF keys = {} THEN Nowhere ELSE [key |-> Choice(keys), value |-> view[Choice(keys)]]

Answer ==
    CASE call.op = "SeekToFirst" -> At(DOMAIN view, Min)
      [] call.op = "SeekToLast" -> At(DOMAIN view, Max)
      [] call.op = "Seek" -> At({k \in DOMAIN view : k >= call.target}, Min)
      [] call.op = "Next" -> At({k \in DOMAIN view : k > position.key}, Min)
      [] call.op = "Prev" -> At({k \in DOMAIN view : k < position.key}, Max)

Init == position = Nowhere /\ ok = TRUE /\ call = NoCall

Call ==
    /\ call = NoCall
    /\ call' \in Calls
    /\ call'.op \in {"Next", "Prev"} => position # Nowhere
    /\ UNCHANGED <<view, position, ok>>

Return ==
    /\ call # NoCall /\ call' = NoCall
    /\ ok /\ ok' /\ position' = Answer
    /\ UNCHANGED view

\* The iterator may stop on anything once it reports an error.
ReturnError ==
    /\ call # NoCall /\ call' = NoCall
    /\ ~ok'
    /\ UNCHANGED view

\* An error shows in status() as soon as it is met.
Fail ==
    /\ call # NoCall /\ ~ok'
    /\ UNCHANGED <<view, position, call>>

Next == Call \/ Return \/ ReturnError \/ Fail

CursorSpec == Init /\ [][Next]_vars
=============================================================================
