---------------------------- MODULE WriteClients ----------------------------
(***************************************************************************)
(* The composition does to the background work only what Background allows *)
(* its writers to do; to Background, writers that wait are not there.      *)
(***************************************************************************)
EXTENDS WritePath

Scheduler == INSTANCE Background WITH waiting <- waiting \ Writers

\* Every step of MakeRoomForWrite, Write and Get is, seen from the background
\* work, a memtable switch, a sync error, a seek charged to a file, or
\* nothing: so what is proved of Background holds of the composition.
ImplementsBackground == Scheduler!BgSpec
=============================================================================
