---------------------------- MODULE MCWritePath -----------------------------
(* Instances of WritePath for TLC. *)
EXTENDS WriteClients, WriteRefinement, TLC

CONSTANTS k1, k2

Singles == {<<k1>>}
SinglesAndPairs == {<<k1>>, <<k1, k2>>}

Symmetry == Permutations(Writers \ Forced)

\* Reads next to writes of one kind only: batches of two without sync, no failure and
\* neither TEST_CompactMemTable nor Close.
PlainWrites ==
    /\ ~bg_error_ /\ ~shutting_down_
    /\ \A w \in Writers : wcalls[w] > 0 => req[w] = [batch |-> <<k1, k2>>, sync |-> FALSE] /\ wres[w] # "err"

ReadsWithPlainWrites == (\A r \in Readers : gets[r] = 0) \/ PlainWrites
=============================================================================
