------------------------------ MODULE MCFiles -------------------------------
(***************************************************************************)
(* TLC instance of TableFiles and FileLocks.  They share no state: a       *)
(* behaviour is one of the table files or of the LOCK file.                *)
(***************************************************************************)
EXTENDS TableFiles, FileLocks

MCInitial == {1}
MCProcess == [t \in {"t1", "t2", "t3"} |-> IF t = "t3" THEN "p2" ELSE "p1"]

VARIABLE part                  \* which of them moves; the other has one initial state

AllInit == FilesInit /\ LocksInit /\ part \in {"files", "lock"}
AllNext ==
    \/ part = "files" /\ FilesNext /\ UNCHANGED <<lockVars, part>>
    \/ part = "lock" /\ LocksNext /\ UNCHANGED <<fileVars, part>>
AllSpec == AllInit /\ [][AllNext]_<<fileVars, lockVars, part>>
=============================================================================
