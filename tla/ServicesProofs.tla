--------------------------- MODULE ServicesProofs ---------------------------
(***************************************************************************)
(* Proofs about the services beside the database proper, each for every    *)
(* value of its constants: the lock on the database, the background queue  *)
(* and the files of env_posix.cpp, and the connections of the HTTP server. *)
(***************************************************************************)
EXTENDS FileLocks, EnvQueue, WritableFile, HttpServer, SequenceTheorems, TLAPS

USE Zenon, ZenonT(40), SMTT(40)

-----------------------------------------------------------------------------
(***************************************************************************)
(* FileLocks: LockFile and UnlockFile                                      *)
(***************************************************************************)
Places == {"outside", "opened", "inserted", "holding", "refused", "unlocked", "removed"}

\* Between locks_.Insert and locks_.Remove.
InTable == {"inserted", "holding", "refused", "unlocked"}

LocksType ==
    /\ at \in [Callers -> Places]
    /\ locks_ \subseteq Processes /\ reopened \subseteq Processes
    /\ fcntl \in Processes \cup {None}

\* A thread between Insert and Remove has its process in the table, alone.
TableInv ==
    \A t \in Callers : at[t] \in InTable =>
        /\ Process[t] \in locks_
        /\ \A u \in Callers : u # t /\ Process[u] = Process[t] => at[u] \notin InTable

\* The kernel knows of a holder, unless its process closed another descriptor.
KernelInv ==
    \A t \in Callers : at[t] = "holding" => fcntl = Process[t] \/ Process[t] \in reopened

\* The property follows from where the threads are in the two locks together:
\* the table separates the threads of a process, the kernel the processes.
LocksInv == LocksType /\ TableInv /\ KernelInv
-----------------------------------------------------------------------------
\* No thread is in LockFile when the processes start.
LEMMA LocksInitInv == LocksInit => LocksInv
  BY LocksAssumption DEF LocksInit, LocksInv, LocksType, TableInv, KernelInv, Places, InTable

\* What a thread in LockFile or UnlockFile does keeps both locks consistent.
LEMMA ThreadStepInv ==
    ASSUME LocksInv, NEW t \in Callers,
           \/ OpenLock(t) \/ InsertLock(t) \/ LockFile(t) \/ Refused(t)
           \/ UnlockFile(t) \/ RemoveLock(t) \/ CloseLock(t)
    PROVE  LocksInv'
<1> USE LocksAssumption DEF LocksInv
<1>1. LocksType'
  BY DEF LocksType, OpenLock, InsertLock, LockFile, Refused, UnlockFile, RemoveLock, CloseLock,
         CloseFd, Goto, Places
<1>2. at' = [at EXCEPT ![t] = at'[t]] /\ \A u \in Callers : u # t => at'[u] = at[u]
  BY DEF LocksType, OpenLock, InsertLock, LockFile, Refused, UnlockFile, RemoveLock, CloseLock, Goto
<1>3. TableInv'
  <2>1. CASE OpenLock(t)
    BY <1>2, <2>1 DEF OpenLock, Goto, TableInv, LocksType, InTable
  <2>2. CASE InsertLock(t)
    BY SMT, ZenonT(40), <1>2, <2>2 DEF InsertLock, Goto, TableInv, LocksType, InTable
  <2>3. CASE LockFile(t)
    BY <1>2, <2>3 DEF LockFile, Goto, TableInv, LocksType, InTable
  <2>4. CASE Refused(t)
    BY <1>2, <2>4 DEF Refused, Goto, TableInv, LocksType, InTable
  <2>5. CASE UnlockFile(t)
    BY SMT, ZenonT(40), <1>2, <2>5 DEF UnlockFile, Goto, TableInv, LocksType, InTable
  <2>6. CASE RemoveLock(t)
    BY <1>2, <2>6 DEF RemoveLock, Goto, TableInv, LocksType, InTable
  <2>7. CASE CloseLock(t)
    BY SMT, ZenonT(40), <1>2, <2>7 DEF CloseLock, Goto, TableInv, LocksType, InTable
  <2> QED
    BY <2>1, <2>2, <2>3, <2>4, <2>5, <2>6, <2>7
<1>4. KernelInv'
  <2> SUFFICES ASSUME NEW u \in Callers, at'[u] = "holding"
               PROVE  fcntl' = Process[u] \/ Process[u] \in reopened'
    BY DEF KernelInv
  <2>1. CASE LockFile(t)
    <3>1. CASE u = t
      BY <1>2, <2>1, <3>1 DEF LockFile, CloseFd, Goto, LocksType
    <3>2. CASE u # t
      <4>1. at[u] = "holding" /\ at[t] = "inserted" /\ Process[u] # Process[t]
        BY <1>2, <2>1, <3>2 DEF LockFile, TableInv, InTable
      <4> QED
        BY <2>1, <4>1 DEF LockFile, CloseFd, KernelInv
    <3> QED
      BY <3>1, <3>2
  <2>2. CASE UNCHANGED lockVars
    BY <2>2 DEF lockVars, KernelInv
  <2>3. CASE ~LockFile(t) /\ ~UNCHANGED lockVars
    <3>1. u # t /\ at[u] = "holding"
      BY <1>2, <2>3 DEF OpenLock, InsertLock, Refused, UnlockFile, RemoveLock, CloseLock, Goto,
         LocksType, lockVars
    <3>2. Process[u] = Process[t] => u \in Others(t)
      BY <3>1 DEF Others
    <3>3. fcntl = Process[u] \/ Process[u] \in reopened
      BY <3>1 DEF KernelInv
    <3>4. CASE UnlockFile(t)
      BY <3>1, <3>3, <3>4 DEF UnlockFile, TableInv, InTable
    <3>5. CASE OpenLock(t) \/ Refused(t) \/ RemoveLock(t)
      BY <3>3, <3>5 DEF OpenLock, Refused, RemoveLock
    <3>6. CASE InsertLock(t) \/ CloseLock(t)
      BY <3>2, <3>3, <3>6 DEF InsertLock, CloseLock, CloseFd
    <3> QED
      BY <2>3, <3>4, <3>5, <3>6
  <2> QED
    BY <2>1, <2>2, <2>3
<1> QED
  BY <1>1, <1>3, <1>4

\* A process that exits leaves no thread of it inside.
LEMMA ExitInv ==
    ASSUME LocksInv, NEW p \in Processes, Exit(p)
    PROVE  LocksInv'
<1> USE LocksAssumption DEF LocksInv
<1>1. LocksType'
  BY DEF LocksType, Exit, Places
<1>2. \A t \in Callers : at'[t] = IF Process[t] = p THEN "outside" ELSE at[t]
  BY DEF Exit
<1>3. TableInv'
  BY <1>2 DEF TableInv, Exit, InTable
<1>4. KernelInv'
  BY <1>2 DEF KernelInv, Exit
<1> QED
  BY <1>1, <1>3, <1>4

\* Two threads hold the lock on the database only in different processes, of
\* which one closed a second descriptor of the lock file (LockFile and
\* UnlockFile of env_posix.cpp), for any number of threads and processes.
THEOREM LockExclusive == LocksSpec => []LockExclusiveUnlessReopened
<1>1. LocksInv /\ [LocksNext]_lockVars => LocksInv'
  <2> SUFFICES ASSUME LocksInv, [LocksNext]_lockVars PROVE LocksInv'
    OBVIOUS
  <2>1. CASE LocksNext
    BY <2>1, ThreadStepInv, ExitInv DEF LocksNext
  <2>2. CASE UNCHANGED lockVars
    BY <2>2 DEF lockVars, LocksInv, LocksType, TableInv, KernelInv
  <2> QED
    BY <2>1, <2>2
<1>2. LocksInv => LockExclusiveUnlessReopened
  BY LocksAssumption DEF LocksInv, TableInv, KernelInv, LockExclusiveUnlessReopened, Holders, InTable
<1> QED
  BY LocksInitInv, <1>1, <1>2, PTL DEF LocksSpec

-----------------------------------------------------------------------------
(***************************************************************************)
(* EnvQueue: Schedule and the background thread                            *)
(***************************************************************************)
\* Concatenation, as the queue and the file below use it.
LEMMA Regroup ==
    ASSUME NEW S
    PROVE  /\ \A a, b, c \in Seq(S) : (a \o b) \o c = a \o (b \o c)
           /\ \A a \in Seq(S) : a \o <<>> = a /\ <<>> \o a = a
<1>1. ASSUME NEW a \in Seq(S), NEW b \in Seq(S), NEW c \in Seq(S)
      PROVE  (a \o b) \o c = a \o (b \o c)
  BY SMT, SMTT(40)
<1>2. ASSUME NEW a \in Seq(S) PROVE a \o <<>> = a /\ <<>> \o a = a
  BY SMT, SMTT(40)
<1> QED
  BY <1>1, <1>2

\* One more number behind the first n.
LEMMA NumbersGrow ==
    ASSUME NEW n \in Nat
    PROVE  [i \in 1..n |-> i] \o <<n + 1>> = [i \in 1..(n + 1) |-> i]
  BY SMT, SMTT(40)

\* The numbers from 1 do not have 0 among them.
LEMMA NumbersPositive ==
    ASSUME NEW a \in Seq(Nat), NEW h \in Nat, NEW b \in Seq(Nat), NEW n \in Nat,
           (a \o <<h>>) \o b = [i \in 1..n |-> i]
    PROVE  h # 0
<1>1. ((a \o <<h>>) \o b)[Len(a) + 1] = h /\ Len((a \o <<h>>) \o b) = Len(a) + 1 + Len(b)
  BY SMT, SMTT(40)
<1>2. Len([i \in 1..n |-> i]) = n
  BY SMT, SMTT(40)
<1>3. n = Len(a) + 1 + Len(b) /\ Len(a) \in Nat /\ Len(b) \in Nat
  BY SMT, SMTT(40), <1>1, <1>2
<1>4. [i \in 1..n |-> i][Len(a) + 1] = Len(a) + 1
  BY SMT, SMTT(40), <1>3
<1>5. h = Len(a) + 1
  BY <1>1, <1>4
<1> QED
  BY SMT, SMTT(40), <1>3, <1>5

\* The thread is started by the first item, is running exactly if it has an
\* item, and waits only when the queue is empty.
QueueInv ==
    /\ scheduled \in Nat /\ work \in Nat
    /\ ran \in Seq(Nat) /\ background_work_queue_ \in Seq(Nat)
    /\ thread \in {"none", "entering", "waiting", "notified", "running"}
    /\ thread = "none" <=> ~started_background_thread_
    /\ thread = "running" <=> work # 0
    /\ background_work_queue_ # <<>> => thread \notin {"none", "waiting"}
    /\ RunsInOrder

\* Schedule puts the next number at the end.
LEMMA ScheduleInv ==
    ASSUME QueueInv, Schedule
    PROVE  QueueInv'
<1> DEFINE q == background_work_queue_
           mid == IF work = 0 THEN <<>> ELSE <<work>>
<1>0. /\ q \in Seq(Nat) /\ ran \in Seq(Nat) /\ scheduled \in Nat /\ work \in Nat
      /\ (ran \o mid) \o q = [i \in 1..scheduled |-> i]
  BY DEF QueueInv, RunsInOrder
<1>1. mid \in Seq(Nat)
  BY SMT, SMTT(40), <1>0
<1>a. /\ q' = Append(q, scheduled + 1)
      /\ scheduled' = scheduled + 1 /\ mid' = mid /\ UNCHANGED <<work, ran>>
  BY DEF Schedule
<1>2. q' \in Seq(Nat) /\ q' = q \o <<scheduled + 1>>
  <2> HIDE DEF q, mid
  <2> QED
    BY SMT, SMTT(40), <1>0, <1>a
<1>3. ran \o mid \in Seq(Nat) /\ <<scheduled + 1>> \in Seq(Nat)
  BY SMT, SMTT(40), <1>0, <1>1
<1>4. (ran \o mid) \o q' = [i \in 1..scheduled |-> i] \o <<scheduled + 1>>
  <2> HIDE DEF mid, q
  <2>1. (ran \o mid) \o (q \o <<scheduled + 1>>) = ((ran \o mid) \o q) \o <<scheduled + 1>>
    <3> DEFINE x == ran \o mid
               last == <<scheduled + 1>>
    <3>1. x \in Seq(Nat) /\ q \in Seq(Nat) /\ last \in Seq(Nat)
      BY <1>0, <1>3
    <3> HIDE DEF x, last
    <3>2. (x \o q) \o last = x \o (q \o last)
      BY <3>1, Regroup
    <3> QED
      BY <3>2 DEF x, last
  <2> QED
    BY <1>0, <1>2, <2>1
<1>5. RunsInOrder'
  BY <1>0, <1>a, <1>4, NumbersGrow DEF RunsInOrder
<1>6. /\ thread' \in {"entering", "waiting", "notified", "running"}
      /\ started_background_thread_'
      /\ thread' = "running" <=> work' # 0
      /\ thread' # "waiting"
  BY DEF Schedule, QueueInv
<1> QED
  BY SMT, SMTT(40), <1>0, <1>a, <1>2, <1>5, <1>6 DEF QueueInv

\* The thread takes the front of the queue, or waits.
LEMMA ThreadMainInv ==
    ASSUME QueueInv, BackgroundThreadMain
    PROVE  QueueInv'
<1> DEFINE q == background_work_queue_
<1>1. /\ q \in Seq(Nat) /\ ran \in Seq(Nat) /\ scheduled \in Nat /\ work = 0
      /\ ran \o <<>> \o q = [i \in 1..scheduled |-> i]
  BY DEF QueueInv, RunsInOrder, BackgroundThreadMain
<1>2. CASE q = <<>>
  BY <1>2 DEF BackgroundThreadMain, QueueInv, RunsInOrder
<1>3. CASE q # <<>>
  <2>1. /\ thread' = "running" /\ work' = Head(q) /\ q' = Tail(q)
        /\ UNCHANGED <<started_background_thread_, scheduled, ran>>
    BY <1>3 DEF BackgroundThreadMain
  <2>2. /\ work' \in Nat /\ q' \in Seq(Nat) /\ q = <<work'>> \o q'
    BY SMT, SMTT(40), <1>1, <1>3, <2>1
  <2>3. (ran \o <<work'>>) \o q' = [i \in 1..scheduled |-> i]
    <3> HIDE DEF q
    <3>1. <<work'>> \in Seq(Nat)
      BY SMT, SMTT(40), <2>2
    <3>2. /\ \A a, b, c \in Seq(Nat) : (a \o b) \o c = a \o (b \o c)
          /\ \A a \in Seq(Nat) : a \o <<>> = a
      BY Regroup
    <3>3. (ran \o <<work'>>) \o q' = ran \o (<<work'>> \o q') /\ ran \o <<>> = ran
      BY SMT, SMTT(40), <1>1, <2>2, <3>1, <3>2
    <3> QED
      BY <1>1, <2>2, <3>3
  <2>4. work' # 0
    BY <1>1, <2>2, <2>3, NumbersPositive
  <2>5. RunsInOrder'
    BY <2>1, <2>3, <2>4 DEF RunsInOrder
  <2> QED
    BY SMT, SMTT(40), <2>1, <2>2, <2>4, <2>5 DEF QueueInv, BackgroundThreadMain
<1> QED
  BY <1>2, <1>3

\* The item that ran goes behind those that ran before.
LEMMA WorkReturnsInv ==
    ASSUME QueueInv, WorkReturns
    PROVE  QueueInv'
<1>1. /\ background_work_queue_ \in Seq(Nat) /\ ran \in Seq(Nat) /\ work \in Nat
      /\ (ran \o <<work>>) \o background_work_queue_ = [i \in 1..scheduled |-> i]
  BY DEF QueueInv, RunsInOrder, WorkReturns
<1>2. work' = 0 /\ ran' = ran \o <<work>> /\ ran' \in Seq(Nat) /\ UNCHANGED <<background_work_queue_, scheduled>>
  BY SMT, SMTT(40), <1>1 DEF WorkReturns
<1>3. (ran' \o <<>>) \o background_work_queue_ = [i \in 1..scheduled |-> i]
  <2>1. ran' \o <<>> = ran'
    BY <1>2, Regroup
  <2> QED
    BY <1>1, <1>2, <2>1
<1>4. RunsInOrder'
  BY <1>2, <1>3 DEF RunsInOrder
<1> QED
  BY SMT, SMTT(40), <1>2, <1>4 DEF WorkReturns, QueueInv

\* What the queue of PosixEnv promises in every state.
LEMMA QueueAlways == QueueSpec => []QueueInv
<1>1. QueueInit => QueueInv
  <2>1. <<>> \o <<>> \o <<>> = [i \in 1..0 |-> i]
    BY SMT, SMTT(40)
  <2> QED
    BY SMT, SMTT(40), <2>1 DEF QueueInit, QueueInv, RunsInOrder
<1>2. QueueInv /\ [QueueNext]_queueVars => QueueInv'
  <2> SUFFICES ASSUME QueueInv, [QueueNext]_queueVars PROVE QueueInv'
    OBVIOUS
  <2>1. CASE SpuriousWakeup
    BY <2>1 DEF SpuriousWakeup, QueueInv, RunsInOrder
  <2>2. CASE UNCHANGED queueVars
    BY <2>2 DEF queueVars, QueueInv, RunsInOrder
  <2> QED
    BY <2>1, <2>2, ScheduleInv, ThreadMainInv, WorkReturnsInv DEF QueueNext
<1> QED
  BY <1>1, <1>2, PTL DEF QueueSpec

\* Items run in the order in which Schedule was called, each of them once, however
\* many are scheduled, by whom, and wherever the thread is then.
THEOREM WorkRunsInOrder == QueueSpec => []RunsInOrder
<1>1. QueueInv => RunsInOrder
  BY DEF QueueInv
<1> QED
  BY <1>1, QueueAlways, PTL

\* No wakeup of the background thread is lost: it does not wait, and is not still
\* to be started, while there is work in the queue.
THEOREM NoWorkForgotten ==
    QueueSpec => [](background_work_queue_ # <<>> => thread \notin {"none", "waiting"})
<1>1. QueueInv => (background_work_queue_ # <<>> => thread \notin {"none", "waiting"})
  BY DEF QueueInv
<1> QED
  BY <1>1, QueueAlways, PTL

-----------------------------------------------------------------------------
(***************************************************************************)
(* WritableFile: PosixWritableFile                                         *)
(***************************************************************************)
\* A byte that was appended when the directory had up to n files.
Bytes(n) == Nat \X (0..n)

\* Every byte carries the files the directory had when it was appended; those of
\* a MANIFEST that a Sync has covered no more than the directory has on the disk.
FileInv ==
    /\ created \in Nat /\ entries \in 0..created /\ synced \in 0..Len(appended)
    /\ buf_ \in Seq(Bytes(created)) /\ contents \in Seq(Bytes(created))
    /\ appended \in Seq(Bytes(created))
    /\ is_manifest_ => \A i \in 1..synced : appended[i][2] <= entries
    /\ is_manifest_ \in BOOLEAN /\ io_error \in BOOLEAN
    /\ Len(buf_) <= kWritableFileBufferSize
    /\ ~io_error => contents \o buf_ = appended /\ 1..synced \subseteq durable

\* A sequence is its first k items and the others.
LEMMA CutSeq ==
    ASSUME NEW S, NEW s \in Seq(S), NEW k \in 0..Len(s)
    PROVE  /\ SubSeq(s, 1, k) \in Seq(S) /\ Len(SubSeq(s, 1, k)) = k
           /\ SubSeq(s, k + 1, Len(s)) \in Seq(S) /\ Len(SubSeq(s, k + 1, Len(s))) = Len(s) - k
           /\ SubSeq(s, 1, k) \o SubSeq(s, k + 1, Len(s)) = s
<1>1. /\ SubSeq(s, 1, k) \in Seq(S) /\ Len(SubSeq(s, 1, k)) = k
      /\ SubSeq(s, k + 1, Len(s)) \in Seq(S) /\ Len(SubSeq(s, k + 1, Len(s))) = Len(s) - k
  BY SMT, SMTT(40)
<1>2. SubSeq(s, 1, k) \o SubSeq(s, k + 1, Len(s)) = SubSeq(s, 1, Len(s))
  <2>1. 1 \in 1..(Len(s) + 1) /\ k \in (1 - 1)..Len(s) /\ Len(s) \in k..Len(s)
    BY SMT, SMTT(40)
  <2> QED
    BY <2>1, ConcatAdjacentSubSeq
<1> QED
  BY <1>1, <1>2, SubSeqFull

\* What is appended does not change the first k items.
LEMMA FrontStays ==
    ASSUME NEW S, NEW s \in Seq(S), NEW t \in Seq(S), NEW k \in 0..Len(s), NEW i \in 1..k
    PROVE  (s \o t)[i] = s[i]
  BY SMT, SMTT(40)

\* A write of data leaves all of it in the file, or fails and leaves a part.
LEMMA WriteOutcome ==
    ASSUME NEW S, NEW data \in Seq(S), NEW w \in WriteUnbuffered(data)
    PROVE  w.ok \in BOOLEAN /\ w.out \in Seq(S) /\ (w.ok => w.out = data)
<1>1. CASE w = [ok |-> TRUE, out |-> data]
  BY <1>1
<1>2. CASE \E n \in 0..Len(data) - 1 : w = [ok |-> FALSE, out |-> SubSeq(data, 1, n)]
  BY SMT, SMTT(40), <1>2
<1> QED
  BY <1>1, <1>2 DEF WriteUnbuffered

\* Files created later are more files.
LEMMA MoreFiles ==
    ASSUME NEW m \in Nat, NEW n \in Nat, m <= n
    PROVE  \A s \in Seq(Bytes(m)) : s \in Seq(Bytes(n))
  BY SMT, SMTT(40) DEF Bytes

\* AppendData: the buffer and the rest are the bytes in order, wherever they are
\* cut; the buffer does not overflow.
LEMMA AppendDataInv ==
    ASSUME FileInv, NEW size \in Nat, AppendData(size)
    PROVE  FileInv'
<1> DEFINE S == Bytes(created)
           N == NewBytes(size)
           c == IF size < Room THEN size ELSE Room
           front == SubSeq(N, 1, c)
           full == buf_ \o front
           rest == SubSeq(N, c + 1, size)
           small == Len(rest) < kWritableFileBufferSize
           data == IF small THEN full ELSE full \o rest
<1>1. /\ created \in Nat /\ synced \in 0..Len(appended) /\ io_error \in BOOLEAN
      /\ buf_ \in Seq(S) /\ contents \in Seq(S) /\ appended \in Seq(S)
      /\ Len(buf_) <= kWritableFileBufferSize /\ kWritableFileBufferSize \in Nat
      /\ ~io_error => contents \o buf_ = appended /\ 1..synced \subseteq durable
      /\ is_manifest_ => \A i \in 1..synced : appended[i][2] <= entries
  BY WritableAssumption DEF FileInv
<1>2. /\ appended' = appended \o N
      /\ \/ rest = <<>> /\ buf_' = full /\ UNCHANGED <<contents, io_error>>
         \/ /\ rest # <<>>
            /\ \E w \in WriteUnbuffered(data) :
                  /\ contents' = contents \o w.out
                  /\ buf_' = IF w.ok /\ small THEN rest ELSE <<>>
                  /\ io_error' = (io_error \/ ~w.ok)
      /\ UNCHANGED <<is_manifest_, durable, created, entries, synced>>
  BY DEF AppendData
<1>3. N \in Seq(S) /\ Len(N) = size
  <2>1. Len(appended) \in Nat
    BY SMT, SMTT(40), <1>1
  <2>2. \A i \in 1..size : <<Len(appended) + i, created>> \in S
    BY SMT, SMTT(40), <1>1, <2>1 DEF Bytes
  <2> HIDE DEF S
  <2> QED
    BY SMT, SMTT(40), <2>2 DEF NewBytes
<1>4. c \in 0..size /\ Len(buf_) + c <= kWritableFileBufferSize
  BY SMT, SMTT(40), <1>1 DEF Room
<1> HIDE DEF S, N, c
<1>5. /\ front \in Seq(S) /\ Len(front) = c /\ rest \in Seq(S) /\ Len(rest) = size - c
      /\ front \o rest = N
  BY <1>3, <1>4, CutSeq
<1> HIDE DEF front, rest
<1>6. full \in Seq(S) /\ Len(full) <= kWritableFileBufferSize
  BY SMT, SMTT(40), <1>1, <1>4, <1>5
<1>7. /\ appended' \in Seq(S) /\ synced \in 0..Len(appended')
      /\ is_manifest_ => \A i \in 1..synced : appended'[i][2] <= entries
  <2>1. appended' \in Seq(S) /\ synced \in 0..Len(appended')
    BY SMT, SMTT(40), <1>1, <1>2, <1>3
  <2>2. \A i \in 1..synced : (appended \o N)[i] = appended[i]
    BY <1>1, <1>3, FrontStays
  <2> QED
    BY <1>1, <1>2, <2>1, <2>2
<1>8. ~io_error => appended' = contents \o (full \o rest)
  <2>1. full \o rest = buf_ \o N
    <3>1. buf_ \in Seq(S) /\ front \in Seq(S) /\ rest \in Seq(S) /\ front \o rest = N
      BY <1>1, <1>5
    <3>2. (buf_ \o front) \o rest = buf_ \o (front \o rest)
      <4>1. buf_ \in Seq(S) /\ front \in Seq(S) /\ rest \in Seq(S)
        BY <3>1
      <4> QED
        BY <4>1, Regroup
    <3> QED
      BY <3>1, <3>2 DEF full
  <2>2. contents \o (buf_ \o N) = (contents \o buf_) \o N
    <3>1. contents \in Seq(S) /\ buf_ \in Seq(S) /\ N \in Seq(S)
      BY <1>1, <1>3
    <3> QED
      BY <3>1, Regroup
  <2> QED
    BY <1>1, <1>2, <2>1, <2>2
<1> HIDE DEF full
<1>9. /\ buf_' \in Seq(S) /\ contents' \in Seq(S) /\ Len(buf_') <= kWritableFileBufferSize
      /\ io_error' \in BOOLEAN /\ (~io_error' => ~io_error /\ contents' \o buf_' = appended')
  <2>1. CASE rest = <<>> /\ buf_' = full /\ UNCHANGED <<contents, io_error>>
    <3>1. full \o <<>> = full
      BY <1>6, Regroup
    <3> QED
      BY <1>1, <1>6, <1>8, <2>1, <3>1
  <2>2. ASSUME NEW w \in WriteUnbuffered(data),
               contents' = contents \o w.out,
               buf_' = IF w.ok /\ small THEN rest ELSE <<>>,
               io_error' = (io_error \/ ~w.ok)
        PROVE  /\ buf_' \in Seq(S) /\ contents' \in Seq(S) /\ Len(buf_') <= kWritableFileBufferSize
               /\ io_error' \in BOOLEAN /\ (~io_error' => ~io_error /\ contents' \o buf_' = appended')
    <3>1. full \o rest \in Seq(S)
      BY SMT, SMTT(40), <1>5, <1>6
    <3>2. data \in Seq(S)
      BY <1>6, <3>1
    <3>3. w.ok \in BOOLEAN /\ w.out \in Seq(S) /\ (w.ok => w.out = data)
      BY <3>2, WriteOutcome
    <3>4. contents \o w.out \in Seq(S)
      BY SMT, SMTT(40), <1>1, <3>3
    <3>5. buf_' \in Seq(S) /\ Len(buf_') <= kWritableFileBufferSize
      <4>1. CASE w.ok /\ small
        BY SMT, SMTT(40), <1>1, <1>5, <2>2, <4>1
      <4>2. CASE ~(w.ok /\ small)
        BY SMT, SMTT(40), <1>1, <2>2, <4>2
      <4> QED
        BY <4>1, <4>2
    <3>6. ASSUME ~io_error' PROVE contents' \o buf_' = appended'
      <4>1. w.ok /\ ~io_error
        BY <2>2, <3>3, <3>6
      <4>2. CASE small
        <5>1. contents \o (full \o rest) = (contents \o full) \o rest
          <6>1. contents \in Seq(S) /\ full \in Seq(S) /\ rest \in Seq(S)
            BY <1>1, <1>5, <1>6
          <6> QED
            BY <6>1, Regroup
        <5> QED
          BY <1>8, <2>2, <3>3, <4>1, <4>2, <5>1
      <4>3. CASE ~small
        <5>1. contents \o (full \o rest) \in Seq(S)
          BY SMT, SMTT(40), <1>1, <3>1
        <5>2. (contents \o (full \o rest)) \o <<>> = contents \o (full \o rest)
          BY <5>1, Regroup
        <5> QED
          BY <1>8, <2>2, <3>3, <4>1, <4>3, <5>2
      <4> QED
        BY <4>2, <4>3
    <3> QED
      BY <1>1, <2>2, <3>3, <3>4, <3>5, <3>6
  <2> QED
    BY <1>2, <2>1, <2>2
<1> QED
  <2>1. S' = S
    BY <1>2 DEF S, Bytes
  <2> QED
    BY <1>1, <1>2, <1>7, <1>9 DEF FileInv, S

\* FlushBuffer: the buffer is behind the file, and empty, unless the write fails.
LEMMA Flushed ==
    ASSUME FileInv, NEW w \in WriteUnbuffered(buf_), FlushBuffer(w)
    PROVE  /\ w.ok \in BOOLEAN /\ contents' \in Seq(Bytes(created)) /\ buf_' = <<>>
           /\ w.ok /\ ~io_error => contents' = appended /\ contents' \o buf_' = appended
<1>1. /\ buf_ \in Seq(Bytes(created)) /\ contents \in Seq(Bytes(created))
      /\ ~io_error => contents \o buf_ = appended
  BY DEF FileInv
<1>2. w.ok \in BOOLEAN /\ w.out \in Seq(Bytes(created)) /\ (w.ok => w.out = buf_)
  BY <1>1, WriteOutcome
<1>3. contents' = contents \o w.out /\ buf_' = <<>>
  BY DEF FlushBuffer
<1>4. contents \o w.out \in Seq(Bytes(created))
  BY SMT, SMTT(40), <1>1, <1>2
<1>5. contents' \o <<>> = contents'
  BY <1>3, <1>4, Regroup
<1> QED
  BY <1>1, <1>2, <1>3, <1>4, <1>5

\* FlushData and Close.
LEMMA FlushInv ==
    ASSUME FileInv, FlushData \/ Close
    PROVE  FileInv'
<1>1. PICK w \in WriteUnbuffered(buf_) :
         FlushBuffer(w) /\ io_error' \in BOOLEAN /\ (~io_error' => ~io_error /\ w.ok)
  BY DEF FlushData, Close
<1>2. UNCHANGED <<is_manifest_, durable, created, entries, appended, synced>>
  BY DEF FlushData, Close
<1>3. /\ w.ok \in BOOLEAN /\ contents' \in Seq(Bytes(created)) /\ buf_' = <<>>
      /\ w.ok /\ ~io_error => contents' \o buf_' = appended
  BY <1>1, Flushed
<1>4. buf_' \in Seq(Bytes(created)) /\ Len(buf_') <= kWritableFileBufferSize
  BY SMT, SMTT(40), <1>3, WritableAssumption
<1>5. Bytes(created)' = Bytes(created) /\ Bytes(entries)' = Bytes(entries)
  BY <1>2 DEF Bytes
<1> QED
  BY <1>1, <1>2, <1>3, <1>4, <1>5 DEF FileInv

\* Sync: what it leaves on the disk is all that was appended, with the directory
\* of a MANIFEST.
LEMMA SyncInv ==
    ASSUME FileInv, Sync
    PROVE  FileInv'
<1>1. /\ created \in Nat /\ entries \in 0..created /\ appended \in Seq(Bytes(created))
      /\ synced \in 0..Len(appended)
      /\ (is_manifest_ => \A i \in 1..synced : appended[i][2] <= entries)
      /\ is_manifest_ \in BOOLEAN /\ io_error \in BOOLEAN
  BY DEF FileInv
<1>2. CASE is_manifest_ /\ io_error' = TRUE /\ UNCHANGED <<buf_, contents, durable, entries, synced>>
  <2>1. UNCHANGED <<is_manifest_, created, appended>>
    BY DEF Sync
  <2> QED
    BY <1>2, <2>1 DEF FileInv, Bytes
<1>3. ASSUME entries' = (IF is_manifest_ THEN created ELSE entries),
             NEW w \in WriteUnbuffered(buf_), NEW fdatasync \in BOOLEAN,
             FlushBuffer(w),
             IF w.ok /\ fdatasync
             THEN durable' = DOMAIN contents' /\ synced' = Len(appended) /\ UNCHANGED io_error
             ELSE io_error' = TRUE /\ UNCHANGED <<durable, synced>>
      PROVE  FileInv'
  <2>1. UNCHANGED <<is_manifest_, created, appended>>
    BY DEF Sync
  <2>2. /\ w.ok \in BOOLEAN /\ contents' \in Seq(Bytes(created)) /\ buf_' = <<>>
        /\ w.ok /\ ~io_error => contents' = appended /\ contents' \o buf_' = appended
    BY <1>3, Flushed
  <2>3. buf_' \in Seq(Bytes(created)) /\ Len(buf_') <= kWritableFileBufferSize
    BY SMT, SMTT(40), <2>2, WritableAssumption
  <2>4. entries' \in 0..created /\ (is_manifest_ => entries' = created)
    BY SMT, SMTT(40), <1>1, <1>3
  <2>5. CASE w.ok /\ fdatasync
    <3>1. durable' = DOMAIN contents' /\ synced' = Len(appended) /\ io_error' = io_error
      BY <1>3, <2>5
    <3>2. synced' \in 0..Len(appended) /\ DOMAIN appended = 1..Len(appended)
      BY SMT, SMTT(40), <1>1, <3>1
    <3>3. ASSUME is_manifest_, NEW i \in 1..synced' PROVE appended[i][2] <= entries'
      <4>1. appended[i] \in Nat \X (0..created)
        BY SMT, SMTT(40), <1>1, <3>1, <3>3 DEF Bytes
      <4> QED
        BY SMT, SMTT(40), <1>1, <2>4, <3>3, <4>1
    <3>4. ~io_error' => 1..synced' \subseteq durable'
      BY <2>2, <2>5, <3>1, <3>2
    <3> QED
      BY <1>1, <2>1, <2>2, <2>3, <2>4, <2>5, <3>1, <3>2, <3>3, <3>4 DEF FileInv
  <2>6. CASE ~(w.ok /\ fdatasync)
    <3>1. io_error' = TRUE /\ UNCHANGED <<durable, synced>>
      BY <1>3, <2>6
    <3>2. ASSUME is_manifest_, NEW i \in 1..synced PROVE appended[i][2] <= entries'
      <4>1. appended[i] \in Nat \X (0..created)
        BY SMT, SMTT(40), <1>1 DEF Bytes
      <4> QED
        BY SMT, SMTT(40), <1>1, <2>4, <3>2, <4>1
    <3> QED
      BY <1>1, <2>1, <2>2, <2>3, <2>4, <3>1, <3>2 DEF FileInv
  <2> QED
    BY <2>5, <2>6
<1> QED
  BY <1>2, <1>3 DEF Sync

\* What the kernel writes back is more on the disk, not less.
LEMMA WriteBackInv ==
    ASSUME FileInv, WriteBack
    PROVE  FileInv'
<1>1. /\ durable \subseteq durable' /\ (entries' = entries \/ (entries < created /\ entries' = entries + 1))
      /\ UNCHANGED <<is_manifest_, buf_, contents, created, appended, synced, io_error>>
  BY DEF WriteBack
<1>2. /\ created \in Nat /\ entries \in 0..created /\ synced \in 0..Len(appended)
      /\ appended \in Seq(Bytes(created))
  BY DEF FileInv
<1>3. entries' \in 0..created /\ entries <= entries'
  BY SMT, SMTT(40), <1>1, <1>2
<1>4. ASSUME is_manifest_, NEW i \in 1..synced PROVE appended[i][2] <= entries'
  <2>1. appended[i] \in Nat \X (0..created)
    BY SMT, SMTT(40), <1>2 DEF Bytes
  <2>2. appended[i][2] <= entries
    BY <1>4 DEF FileInv
  <2> QED
    BY SMT, SMTT(40), <1>2, <1>3, <2>1, <2>2
<1>5. Bytes(created)' = Bytes(created)
  BY <1>1 DEF Bytes
<1> QED
  BY <1>1, <1>3, <1>4, <1>5 DEF FileInv

\* A file created elsewhere in the directory: the bytes stay as they are.
LEMMA NewFileInv ==
    ASSUME FileInv, NewWritableFile
    PROVE  FileInv'
<1>1. /\ created' = created + 1
      /\ UNCHANGED <<is_manifest_, buf_, contents, durable, entries, appended, synced, io_error>>
  BY DEF NewWritableFile
<1>2. created \in Nat /\ entries \in 0..created
  BY DEF FileInv
<1>3. created' \in Nat /\ created <= created' /\ entries \in 0..created'
  BY SMT, SMTT(40), <1>1, <1>2
<1>4. \A s \in Seq(Bytes(created)) : s \in Seq(Bytes(created'))
  BY <1>2, <1>3, MoreFiles
<1> QED
  BY <1>1, <1>3, <1>4 DEF FileInv

\* In every state of the file, whatever the sizes appended and whichever calls
\* failed.
LEMMA FileAlways == WritableSpec => []FileInv
<1>1. WritableInit => FileInv
  <2> SUFFICES ASSUME WritableInit PROVE FileInv
    OBVIOUS
  <2>1. /\ <<>> \o <<>> = <<>> /\ 1..0 = {} /\ Len(<<>>) = 0
        /\ \A S : <<>> \in Seq(S)
    BY SMT, SMTT(40)
  <2>2. 0 \in Nat /\ 0 \in 0..0 /\ 0 <= kWritableFileBufferSize
    BY SMT, SMTT(40), WritableAssumption
  <2> QED
    BY <2>1, <2>2 DEF WritableInit, FileInv
<1>2. FileInv /\ [WritableNext]_writableVars => FileInv'
  <2> SUFFICES ASSUME FileInv, [WritableNext]_writableVars PROVE FileInv'
    OBVIOUS
  <2>1. ASSUME NEW size \in 0..2 * kWritableFileBufferSize + 1, AppendData(size) PROVE FileInv'
    <3>1. size \in Nat
      BY SMT, SMTT(40), WritableAssumption
    <3> QED
      BY <2>1, <3>1, AppendDataInv
  <2>2. CASE UNCHANGED writableVars
    BY <2>2 DEF writableVars, FileInv, Bytes
  <2> QED
    BY <2>1, <2>2, FlushInv, SyncInv, WriteBackInv, NewFileInv DEF WritableNext, Closed
<1> QED
  BY <1>1, <1>2, PTL DEF WritableSpec

\* PosixWritableFile loses and reorders nothing between Append, Flush, Sync and
\* Close, for any size of its buffer; and what Sync covers of a MANIFEST names only
\* files whose directory entries are on the disk.
THEOREM WritesInOrder == WritableSpec => []FileInOrder
<1>1. FileInv => FileInOrder
  BY DEF FileInv, FileInOrder
<1> QED
  BY <1>1, FileAlways, PTL

-----------------------------------------------------------------------------
(***************************************************************************)
(* HttpServer: connection, connection_manager and server                   *)
(***************************************************************************)
\* The members of a connection.
Fields == {"socket_", "op", "ec", "got", "parsed", "parser", "reply_"}
IsConnection(x) == x = [f \in Fields |-> x[f]]

\* A connection by its socket: only an open one is in the manager, and only that
\* waits for its client; without a socket it has no operation.
SocketInv(x) ==
    /\ x.socket_ \in {"none", "open", "closed"}
    /\ x.socket_ = "none" => x.op = "none"
    /\ x.socket_ = "open" => x.op # "none" /\ x.ec # "aborted"
    /\ x.ec = "pending" => x.socket_ = "open"

HttpInv ==
    /\ conn = [c \in Connections |-> conn[c]]
    /\ \A c \in Connections : IsConnection(conn[c]) /\ SocketInv(conn[c])
    /\ acceptor_ \in {"open", "closed"} /\ (accept = "pending" => acceptor_ = "open")
    /\ connections_ = {c \in Connections : conn[c].socket_ = "open"}
    /\ acceptor_ = "closed" => connections_ = {}

\* What the handlers make of a connection.
LEMMA NewConnectionIs ==
    IsConnection(NewConnection) /\ NewConnection.socket_ = "none" /\ SocketInv(NewConnection)
  BY DEF IsConnection, NewConnection, Fields, SocketInv

\* A connection after stop().
LEMMA StoppedIs ==
    ASSUME NEW x, IsConnection(x), SocketInv(x)
    PROVE  /\ IsConnection(Stopped(x)) /\ Stopped(x).socket_ = "closed" /\ Stopped(x).ec # "pending"
           /\ IsConnection(Done(Stopped(x))) /\ SocketInv(Done(Stopped(x)))
           /\ Done(Stopped(x)).socket_ = "closed" /\ SocketInv(Stopped(x))
  BY DEF IsConnection, Fields, Stopped, Done, SocketInv

\* A connection after do_read or do_write.
LEMMA BegunIs ==
    ASSUME NEW x, IsConnection(x), x.socket_ \in {"open", "closed"}, NEW op \in {"read", "write"}
    PROVE  /\ IsConnection(Begun(x, op)) /\ SocketInv(Begun(x, op))
           /\ Begun(x, op).socket_ = x.socket_
  BY DEF IsConnection, Fields, Begun, SocketInv

\* A connection whose handler was told that the operation was aborted.
LEMMA DoneIs ==
    ASSUME NEW x, IsConnection(x), x.ec = "aborted", SocketInv(x)
    PROVE  IsConnection(Done(x)) /\ SocketInv(Done(x)) /\ Done(x).socket_ = x.socket_
  BY DEF IsConnection, Fields, Done, SocketInv

\* A step that changes one connection, and the manager with its socket.
LEMMA OneConnection ==
    ASSUME HttpInv, NEW c \in Connections, NEW y, IsConnection(y), SocketInv(y),
           conn' = [conn EXCEPT ![c] = y],
           connections_' = IF y.socket_ = "open" THEN connections_ \cup {c} ELSE connections_ \ {c},
           y.socket_ = "open" => acceptor_ = "open" \/ c \in connections_,
           acceptor_' = acceptor_, accept' = "pending" => acceptor_ = "open"
    PROVE  HttpInv'
<1>1. /\ conn = [d \in Connections |-> conn[d]] /\ acceptor_ \in {"open", "closed"}
      /\ connections_ = {d \in Connections : conn[d].socket_ = "open"}
      /\ acceptor_ = "closed" => connections_ = {}
      /\ \A d \in Connections : IsConnection(conn[d]) /\ SocketInv(conn[d])
  BY DEF HttpInv
<1>2. conn'[c] = y /\ \A d \in Connections : d # c => conn'[d] = conn[d]
  BY <1>1
<1>3. conn' = [d \in Connections |-> conn'[d]]
  BY <1>1
<1>4. \A d \in Connections : IsConnection(conn'[d]) /\ SocketInv(conn'[d])
  BY <1>1, <1>2
<1>5. connections_' = {d \in Connections : conn'[d].socket_ = "open"}
  <2>1. CASE y.socket_ = "open"
    BY <1>1, <1>2, <2>1
  <2>2. CASE y.socket_ # "open"
    BY <1>1, <1>2, <2>2
  <2> QED
    BY <2>1, <2>2
<1>6. acceptor_' = "closed" => connections_' = {}
  BY <1>1
<1> QED
  BY <1>1, <1>3, <1>4, <1>5, <1>6 DEF HttpInv, IsConnection, SocketInv

\* An operation that completes.
LEMMA CompletesInv ==
    ASSUME HttpInv, NEW c \in Connections, NEW op \in {"read", "write"}, NEW ec \in {"ok", "error"}, NEW got,
           Completes(c, op, ec, got)
    PROVE  HttpInv'
<1> DEFINE x == conn[c]
           y == [x EXCEPT !.ec = ec, !.got = got]
<1>1. /\ IsConnection(x) /\ SocketInv(x) /\ conn = [d \in Connections |-> conn[d]]
      /\ connections_ = {d \in Connections : conn[d].socket_ = "open"}
      /\ accept = "pending" => acceptor_ = "open"
  BY DEF HttpInv
<1>2. /\ x.op = op /\ x.ec = "pending" /\ conn' = [conn EXCEPT ![c].ec = ec, ![c].got = got]
      /\ UNCHANGED <<acceptor_, accept, connections_>>
  BY DEF Completes
<1>3. conn' = [conn EXCEPT ![c] = y]
  BY <1>1, <1>2
<1>4. IsConnection(y) /\ SocketInv(y) /\ x.socket_ = "open" /\ y.socket_ = x.socket_
  BY <1>1, <1>2 DEF IsConnection, Fields, SocketInv
<1>5. c \in connections_
  BY <1>1, <1>4
<1>6. connections_' = IF y.socket_ = "open" THEN connections_ \cup {c} ELSE connections_ \ {c}
  BY <1>2, <1>4, <1>5
<1> HIDE DEF y
<1> QED
  BY <1>1, <1>2, <1>3, <1>4, <1>5, <1>6, OneConnection

\* A connection that leaves the manager.
LEMMA LeaveInv ==
    ASSUME HttpInv, NEW c \in Connections, Leave(c), UNCHANGED <<acceptor_, accept>>
    PROVE  HttpInv'
<1> DEFINE y == Done(Stopped(conn[c]))
<1>1. IsConnection(conn[c]) /\ SocketInv(conn[c]) /\ (accept = "pending" => acceptor_ = "open")
  BY DEF HttpInv
<1>2. IsConnection(y) /\ SocketInv(y) /\ y.socket_ = "closed"
  BY <1>1, StoppedIs
<1>3. conn' = [conn EXCEPT ![c] = y] /\ connections_' = connections_ \ {c}
  BY DEF Leave
<1> HIDE DEF y
<1> QED
  BY <1>1, <1>2, <1>3, OneConnection

\* The handler of an operation that was aborted ends with the connection closed.
LEMMA AbortedInv ==
    ASSUME HttpInv, NEW c \in Connections, conn[c].ec = "aborted",
           conn' = [conn EXCEPT ![c] = Done(@)], UNCHANGED <<connections_, acceptor_, accept>>
    PROVE  HttpInv'
<1> DEFINE y == Done(conn[c])
<1>1. /\ IsConnection(conn[c]) /\ SocketInv(conn[c]) /\ (accept = "pending" => acceptor_ = "open")
      /\ connections_ = {d \in Connections : conn[d].socket_ = "open"}
  BY DEF HttpInv
<1>2. IsConnection(y) /\ SocketInv(y) /\ y.socket_ = conn[c].socket_
  BY <1>1, DoneIs
<1>3. y.socket_ # "open" /\ c \notin connections_
  BY <1>1, <1>2 DEF SocketInv
<1>4. connections_' = connections_ \ {c} /\ conn' = [conn EXCEPT ![c] = y]
  BY <1>3
<1> HIDE DEF y
<1> QED
  BY <1>1, <1>2, <1>3, <1>4, OneConnection

\* handle_read: a connection goes on reading, or answers, or ends.
LEMMA HandleReadInv ==
    ASSUME HttpInv, NEW c \in Connections, HandleRead(c)
    PROVE  HttpInv'
<1>1. CASE conn[c].ec = "error" /\ Leave(c)
  BY <1>1, LeaveInv DEF HandleRead
<1>2. CASE conn[c].ec = "aborted" /\ conn' = [conn EXCEPT ![c] = Done(@)] /\ UNCHANGED connections_
  BY <1>2, AbortedInv DEF HandleRead
<1>3. CASE conn[c].ec = "ok"
  <2> DEFINE x == Parsed(conn[c], text[c])
             y == CASE x.parser.result = "good" -> Begun([x EXCEPT !.reply_ = handle_request(x.parser.request.uri)], "write")
                    [] x.parser.result = "bad" -> Begun([x EXCEPT !.reply_ = BadRequest], "write")
                    [] OTHER -> Begun(x, "read")
  <2>1. conn' = [conn EXCEPT ![c] = y] /\ UNCHANGED <<connections_, acceptor_, accept>> /\ conn[c].op = "read"
    BY <1>3 DEF HandleRead
  <2>2. /\ IsConnection(conn[c]) /\ SocketInv(conn[c]) /\ (accept = "pending" => acceptor_ = "open")
        /\ connections_ = {d \in Connections : conn[d].socket_ = "open"}
    BY DEF HttpInv
  <2>3. conn[c].socket_ \in {"open", "closed"}
    BY <2>1, <2>2 DEF SocketInv
  <2>4. IsConnection(x) /\ x.socket_ = conn[c].socket_
    BY <2>2 DEF IsConnection, Fields, Parsed
  <2> HIDE DEF x
  <2>5. \A r : IsConnection([x EXCEPT !.reply_ = r]) /\ [x EXCEPT !.reply_ = r].socket_ = x.socket_
    BY <2>4 DEF IsConnection, Fields
  <2>6. IsConnection(y) /\ SocketInv(y) /\ y.socket_ = conn[c].socket_
    <3>1. CASE x.parser.result = "good"
      <4> DEFINE z == [x EXCEPT !.reply_ = handle_request(x.parser.request.uri)]
      <4>1. y = Begun(z, "write")
        BY <3>1
      <4>2. IsConnection(z) /\ z.socket_ = conn[c].socket_
        BY <2>4, <2>5
      <4> HIDE DEF z, y
      <4> QED
        BY <2>3, <4>1, <4>2, BegunIs
    <3>2. CASE x.parser.result = "bad"
      <4> DEFINE z == [x EXCEPT !.reply_ = BadRequest]
      <4>1. y = Begun(z, "write")
        BY <3>2
      <4>2. IsConnection(z) /\ z.socket_ = conn[c].socket_
        BY <2>4, <2>5
      <4> HIDE DEF z, y
      <4> QED
        BY <2>3, <4>1, <4>2, BegunIs
    <3>3. CASE x.parser.result \notin {"good", "bad"}
      <4>1. y = Begun(x, "read")
        BY <3>3
      <4> HIDE DEF y
      <4> QED
        BY <2>3, <2>4, <4>1, BegunIs
    <3> QED
      BY <3>1, <3>2, <3>3
  <2> HIDE DEF y
  <2>7. /\ connections_' = IF y.socket_ = "open" THEN connections_ \cup {c} ELSE connections_ \ {c}
        /\ y.socket_ = "open" => c \in connections_
    BY <2>1, <2>2, <2>6
  <2> QED
    BY <2>1, <2>2, <2>6, <2>7, OneConnection
<1> QED
  BY <1>1, <1>2, <1>3 DEF HandleRead

\* handle_accept: a connection is started only while the acceptor is open.
LEMMA HandleAcceptInv ==
    ASSUME HttpInv, HandleAccept
    PROVE  HttpInv'
<1>1. accept' = (IF acceptor_ = "open" THEN "pending" ELSE "none") /\ UNCHANGED acceptor_
  BY DEF HandleAccept
<1>2. CASE UNCHANGED <<connections_, conn>>
  BY <1>1, <1>2 DEF HttpInv
<1>3. ASSUME acceptor_ = "open", NEW c \in Clients,
             connections_' = connections_ \cup {c},
             conn' = [conn EXCEPT ![c] = Begun([NewConnection EXCEPT !.socket_ = "open"], "read")]
      PROVE  HttpInv'
  <2> DEFINE z == [NewConnection EXCEPT !.socket_ = "open"]
             y == Begun(z, "read")
  <2>1. IsConnection(z) /\ z.socket_ = "open"
    BY NewConnectionIs DEF IsConnection, Fields
  <2> HIDE DEF z
  <2>2. IsConnection(y) /\ SocketInv(y) /\ y.socket_ = "open"
    BY <2>1, BegunIs
  <2>3. c \in Connections /\ conn' = [conn EXCEPT ![c] = y]
    BY <1>3 DEF Clients, z
  <2> HIDE DEF y
  <2> QED
    BY <1>1, <1>3, <2>2, <2>3, OneConnection
<1> QED
  BY <1>2, <1>3 DEF HandleAccept

\* stop_all: every connection of the manager is closed, and no operation waits.
LEMMA HandleSignalInv ==
    ASSUME HttpInv, HandleSignal
    PROVE  HttpInv'
<1>1. /\ connections_ = {c \in Connections : conn[c].socket_ = "open"}
      /\ \A c \in Connections : IsConnection(conn[c]) /\ SocketInv(conn[c])
  BY DEF HttpInv
<1>2. /\ acceptor_' = "closed" /\ accept' # "pending" /\ connections_' = {}
      /\ conn' = [c \in Connections |-> IF c \in connections_ THEN Stopped(conn[c]) ELSE conn[c]]
  BY DEF HandleSignal
<1>3. conn' = [c \in Connections |-> conn'[c]]
  BY <1>2
<1>4. ASSUME NEW c \in Connections
      PROVE  IsConnection(conn'[c]) /\ SocketInv(conn'[c]) /\ conn'[c].socket_ # "open"
  <2>1. CASE c \in connections_
    <3>1. conn'[c] = Stopped(conn[c])
      BY <1>2, <2>1
    <3>2. IsConnection(conn[c]) /\ SocketInv(conn[c])
      BY <1>1
    <3> QED
      BY <3>1, <3>2, StoppedIs
  <2>2. CASE c \notin connections_
    <3>1. conn'[c] = conn[c]
      BY <1>2, <2>2
    <3> QED
      BY <1>1, <2>2, <3>1
  <2> QED
    BY <2>1, <2>2
<1> QED
  BY <1>2, <1>3, <1>4 DEF HttpInv, IsConnection, SocketInv

\* In every state of the server, whatever clients send and when the signal comes.
LEMMA HttpAlways == HttpSpec => []HttpInv
<1>1. HttpInit => HttpInv
  BY NewConnectionIs DEF HttpInit, HttpInv
<1>2. HttpInv /\ [HttpNext]_httpVars => HttpInv'
  <2> SUFFICES ASSUME HttpInv, [HttpNext]_httpVars PROVE HttpInv'
    OBVIOUS
  <2>1. CASE UNCHANGED <<acceptor_, connections_, conn>> /\ (accept' = accept \/ accept' # "pending")
    BY <2>1 DEF HttpInv, IsConnection, SocketInv
  <2>2. CASE Accepted \/ Signalled \/ RunReturns \/ UNCHANGED httpVars
    BY <2>1, <2>2 DEF Accepted, Signalled, RunReturns, httpVars
  <2>3. ASSUME NEW c \in Connections, HandleWrite(c) PROVE HttpInv'
    <3>1. CASE Leave(c)
      BY <2>3, <3>1, LeaveInv DEF HandleWrite
    <3>2. CASE conn[c].ec = "aborted" /\ conn' = [conn EXCEPT ![c] = Done(@)] /\ UNCHANGED connections_
      BY <2>3, <3>2, AbortedInv DEF HandleWrite
    <3> QED
      BY <2>3, <3>1, <3>2 DEF HandleWrite
  <2>4. ASSUME NEW c \in Connections, ReadSome(c) \/ Written(c) \/ PeerFails(c) PROVE HttpInv'
    BY <2>4, CompletesInv DEF ReadSome, Written, PeerFails
  <2> QED
    BY <2>2, <2>3, <2>4, HandleAcceptInv, HandleSignalInv, HandleReadInv DEF HttpNext, Over
<1> QED
  BY <1>1, <1>2, PTL DEF HttpSpec

\* The connection manager is exact for any number of connections, however their
\* handlers and that of the signal follow one another.
THEOREM ManagerExact == HttpSpec => []ConnectionsAccounted
<1>1. HttpInv => ConnectionsAccounted
  BY DEF HttpInv, SocketInv, ConnectionsAccounted
<1> QED
  BY <1>1, HttpAlways, PTL

\* Once the acceptor is closed no operation waits for a client any more: what is
\* outstanding has completed or was aborted, so the handlers that are queued are
\* all that run() has left to do, although clients keep their connections.
THEOREM NothingAwaited ==
    HttpSpec => [](acceptor_ = "closed" => accept # "pending" /\ \A c \in Connections : conn[c].ec # "pending")
<1>1. HttpInv => (acceptor_ = "closed" => accept # "pending" /\ \A c \in Connections : conn[c].ec # "pending")
  BY DEF HttpInv, SocketInv
<1> QED
  BY <1>1, HttpAlways, PTL
=============================================================================
