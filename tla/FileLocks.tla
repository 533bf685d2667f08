------------------------------ MODULE FileLocks -----------------------------
(***************************************************************************)
(* LockFile and UnlockFile of PosixEnv (kv/util/env_posix.cpp) on the LOCK *)
(* file of one database, by threads of several processes.  locks_ is the   *)
(* PosixLockTable of each process; the fcntl lock is the kernel's: it      *)
(* belongs to a process, which loses it when it closes ANY descriptor of   *)
(* the file, or exits.                                                     *)
(***************************************************************************)
EXTENDS Integers, FiniteSets

CONSTANTS Processes, Callers, None,
          Process              \* the process of each thread

ASSUME LocksAssumption == Process \in [Callers -> Processes] /\ None \notin Processes

VARIABLES
    locks_,                    \* the processes whose lock table has the file
    fcntl,                     \* the process with the fcntl lock, or None
    at,                        \* where each thread is
    reopened                   \* the processes that closed a second descriptor since they took the lock

lockVars == <<locks_, fcntl, at, reopened>>

LocksInit ==
    /\ locks_ = {} /\ fcntl = None
    /\ at = [t \in Callers |-> "outside"] /\ reopened = {}

Others(t) == {u \in Callers \ {t} : Process[u] = Process[t] /\ at[u] # "outside"}
Goto(t, pc) == at' = [at EXCEPT ![t] = pc]

\* ::close(fd).
CloseFd(t) ==
    /\ fcntl' = IF fcntl = Process[t] THEN None ELSE fcntl
    /\ reopened' = IF Others(t) # {} THEN reopened \cup {Process[t]} ELSE reopened

OpenLock(t) == at[t] = "outside" /\ Goto(t, "opened") /\ UNCHANGED <<locks_, fcntl, reopened>>

\* Variant of InsertLock that inserts without looking whether the file is there.
InsertLock_Unchecked(t) ==
    /\ at[t] = "opened" /\ Goto(t, "inserted")
    /\ locks_' = locks_ \cup {Process[t]} /\ UNCHANGED <<fcntl, reopened>>

\* locks_.Insert, and the close when the process has the file in the table.
InsertLock(t) ==
    /\ at[t] = "opened"
    /\ \/ /\ Process[t] \notin locks_
          /\ locks_' = locks_ \cup {Process[t]} /\ Goto(t, "inserted")
          /\ UNCHANGED <<fcntl, reopened>>
       \/ Process[t] \in locks_ /\ Goto(t, "outside") /\ CloseFd(t) /\ UNCHANGED locks_

\* fcntl(F_SETLK, F_WRLCK).  It may fail for other reasons than a lock of another
\* process; they are treated alike.
LockFile(t) ==
    /\ at[t] = "inserted"
    /\ \/ fcntl \in {None, Process[t]} /\ fcntl' = Process[t] /\ Goto(t, "holding") /\ reopened' = reopened \ {Process[t]}
       \/ CloseFd(t) /\ Goto(t, "refused")
    /\ UNCHANGED locks_

\* locks_.Remove after the refusal.
Refused(t) ==
    /\ at[t] = "refused" /\ locks_' = locks_ \ {Process[t]} /\ Goto(t, "outside")
    /\ UNCHANGED <<fcntl, reopened>>

\* fcntl(F_SETLK, F_UNLCK), then locks_.Remove and close.  If it fails the lock
\* stays as it is, in the table and in the kernel.
UnlockFile(t) ==
    /\ at[t] = "holding"
    /\ \/ Goto(t, "unlocked") /\ fcntl' = IF fcntl = Process[t] THEN None ELSE fcntl
       \/ UNCHANGED <<at, fcntl>>
    /\ UNCHANGED <<locks_, reopened>>

RemoveLock(t) ==
    /\ at[t] = "unlocked" /\ Goto(t, "removed") /\ locks_' = locks_ \ {Process[t]}
    /\ UNCHANGED <<fcntl, reopened>>

CloseLock(t) == at[t] = "removed" /\ Goto(t, "outside") /\ CloseFd(t) /\ UNCHANGED locks_

\* A process exits, or is killed, and starts again.
Exit(p) ==
    /\ locks_' = locks_ \ {p} /\ fcntl' = IF fcntl = p THEN None ELSE fcntl
    /\ at' = [t \in Callers |-> IF Process[t] = p THEN "outside" ELSE at[t]]
    /\ reopened' = reopened \ {p}

LocksNext ==
    \/ \E t \in Callers : OpenLock(t) \/ InsertLock(t) \/ LockFile(t) \/ Refused(t)
                          \/ UnlockFile(t) \/ RemoveLock(t) \/ CloseLock(t)
    \/ \E p \in Processes : Exit(p)

LocksSpec == LocksInit /\ [][LocksNext]_lockVars
-----------------------------------------------------------------------------
Holders == {t \in Callers : at[t] = "holding"}

\* LockFile is "used to prevent concurrent access to the same db by multiple
\* processes" (env.h).  What the code ensures: in a process the table admits one
\* holder, and two processes hold the lock only if one of them closed a second
\* descriptor of the file (the path of a failed Insert, or of UnlockFile after
\* Remove) while a thread of it held or was taking the lock.
LockExclusiveUnlessReopened ==
    \A t, u \in Holders : t # u => Process[t] # Process[u] /\ {Process[t], Process[u]} \cap reopened # {}
=============================================================================
