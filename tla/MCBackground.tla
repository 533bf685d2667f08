---------------------------- MODULE MCBackground ----------------------------
(***************************************************************************)
(* Instance of Background for TLC: two threads in TEST_CompactRange and    *)
(* one that closes the database.                                           *)
(***************************************************************************)
EXTENDS Background
=============================================================================
