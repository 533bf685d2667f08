--------------------------- MODULE WritePathQueue ---------------------------
(***************************************************************************)
(* The queue of writers and its group commit, proved for any number of     *)
(* writers, batches of any length and any limits.  First the induction     *)
(* over numbers and sequences that BuildBatchGroup needs; then the         *)
(* invariants of the queue and of the group being written; then that every *)
(* step of the write path is, for the background work, a step of           *)
(* Background or a writer that starts to wait.                             *)
(***************************************************************************)
EXTENDS WriteRefinement, TLAPS

\* Zenon proves the leaves; those with arithmetic or records name SMT.  Each
\* has a second try with a longer limit, for a slow machine.
USE Zenon, ZenonT(40), SMTT(40)

\* The oldest memtable that is not in the current version.
Oldest == IF imm_ = NULL THEN mem_ ELSE imm_

\* Memtables are flushed in the order they were created, the manifest's log
\* number never passes the oldest unflushed one, and the edit of a flush in
\* progress names the log of mem_, which cannot change as long as imm_ is there.
FlushOrder ==
    /\ imm_ # NULL => mem_ = imm_ + 1
    /\ \A t \in Tables : t < Oldest => t \in flushed
    /\ log_number <= Oldest
    /\ bg \in {"build", "apply", "cbuild", "capply"} => imm_ # NULL
    /\ bg \in {"apply", "capply"} => edit_log = mem_

\* The inputs of a compaction are still in the version when it is installed.
InputsPresent ==
    bg \in Compacting \ {"igc"} => job.n <= l0

\* A registered request belongs to a thread that waits for it and is not
\* done; a running manual compaction has lost its request only to an error
\* or to shutdown.
ManualInv ==
    /\ manual_compaction_ # NULL =>
          cpc[manual_compaction_] = "loop" /\ ~mdone[manual_compaction_]
    /\ bg \in Compacting /\ is_manual =>
          IF manual_compaction_ = NULL THEN bg_error_
          ELSE left[manual_compaction_] > 0

\* Shutdown starts when no call of TEST_CompactRange is in progress.
CloseInv ==
    /\ shutting_down_ <=> closer # "open"
    /\ shutting_down_ => \A c \in Compactors : cpc[c] = "idle"
    /\ closer = "closed" => bg = "idle"

\* The inductive invariant: none of the scheduling properties is inductive
\* without the order of flushes, the requests and the shutdown next to it.
IInv ==
    /\ TypeOK
    /\ WorkIsScheduled /\ ScheduledMeansRunning /\ WaitersWillBeNotified
    /\ FlushOrder /\ InputsPresent /\ ManualInv /\ CloseInv
-----------------------------------------------------------------------------
\* The state DB::Open leaves behind satisfies the invariant.
LEMMA InitIInv == BgInit => IInv
<1> SUFFICES ASSUME BgInit PROVE IInv
  OBVIOUS
<1> USE BackgroundAssumption DEF BgInit
<1>1. VersionTypes
  BY SMT, SMTT(40) DEF VersionTypes, Tables
<1>2. ThreadTypes
  BY DEF ThreadTypes, BgStates, NoJob
<1>3. ManualTypes
  BY SMT, SMTT(40) DEF ManualTypes
<1>4. WorkIsScheduled /\ ScheduledMeansRunning /\ WaitersWillBeNotified
  BY SMT, SMTT(40) DEF WorkIsScheduled, ScheduledMeansRunning, WaitersWillBeNotified, MayRun, HasWork,
         NeedsCompaction
<1>5. FlushOrder
  BY SMT, SMTT(40) DEF FlushOrder, Oldest, Tables
<1>6. InputsPresent /\ ManualInv /\ CloseInv
  BY DEF InputsPresent, ManualInv, CloseInv, Compacting
<1> QED
  BY <1>1, <1>2, <1>3, <1>4, <1>5, <1>6 DEF IInv, TypeOK

\* What the end of a compaction does to the manual requests.
LEMMA EndCompactionManual ==
    ASSUME IInv, bg \in Compacting, NEW ok \in BOOLEAN, EndCompaction(ok)
    PROVE  ManualTypes'
<1> USE DEF IInv, TypeOK, ManualTypes, EndCompaction
<1>1. CASE is_manual /\ manual_compaction_ # NULL /\ ok
  <2>1. manual_compaction_ \in Compactors /\ left[manual_compaction_] \in 1..MaxPieces
    BY SMT, SMTT(40), <1>1, BackgroundAssumption DEF ManualInv
  <2>2. left' = [left EXCEPT ![manual_compaction_] = left[manual_compaction_] - 1]
    BY <1>1
  <2>3. left' \in [Compactors -> 0..MaxPieces]
    BY SMT, SMTT(40), <2>1, <2>2, BackgroundAssumption
  <2> QED
    BY <1>1, <2>3
<1>2. CASE is_manual /\ manual_compaction_ # NULL /\ ~ok
  BY <1>2
<1>3. CASE ~is_manual \/ manual_compaction_ = NULL
  BY <1>3
<1> QED
  BY <1>1, <1>2, <1>3

\* Every critical section of a client thread, of ~DBImpl and of the background
\* thread preserves it.
LEMMA NextIInv == IInv /\ [BgNext]_bgVars => IInv'
<1> SUFFICES ASSUME IInv, [BgNext]_bgVars PROVE IInv'
  OBVIOUS
<1> USE BackgroundAssumption
    DEF IInv, TypeOK, VersionTypes, ThreadTypes, ManualTypes, WorkIsScheduled, ScheduledMeansRunning,
        WaitersWillBeNotified, FlushOrder, Oldest, InputsPresent, ManualInv, CloseInv, Tables, NoJob, BgStates,
        Compacting, MayRun, HasWork, NeedsCompaction, memVars, versionVars, manualVars
<1>1. CASE BackgroundSkip
  BY <1>1 DEF BackgroundSkip, FinishCall
<1>2. CASE StartFlush
  BY <1>2 DEF StartFlush, CanStart
<1>3. CASE StartManualEmpty
  BY <1>3 DEF StartManualEmpty, CanStart, FinishCall
<1>4. CASE StartManual
  BY SMT, SMTT(40), <1>4 DEF StartManual, CanStart
<1>5. CASE StartAuto
  <2>1. VersionTypes'
    BY <1>5 DEF StartAuto, CanStart
  <2>2. ThreadTypes'
    <3>1. job' \in [level : {0, 1}, n : Nat]
      BY SMT, SMTT(40), <1>5 DEF StartAuto, CanStart
    <3>2. bg' \in BgStates /\ is_manual' \in BOOLEAN
      BY <1>5 DEF StartAuto, CanStart
    <3> QED
      BY <1>5, <3>1, <3>2 DEF StartAuto, CanStart
  <2>3. ManualTypes'
    BY <1>5 DEF StartAuto, CanStart
  <2>4. WorkIsScheduled' /\ ScheduledMeansRunning' /\ WaitersWillBeNotified'
    BY <1>5 DEF StartAuto, CanStart
  <2>5. FlushOrder'
    BY <1>5 DEF StartAuto, CanStart
  <2>6. InputsPresent'
    BY SMT, SMTT(40), <1>5 DEF StartAuto, CanStart
  <2>7. ManualInv'
    BY <1>5 DEF StartAuto, CanStart
  <2>8. CloseInv'
    BY <1>5 DEF StartAuto, CanStart
  <2> QED
    BY <2>1, <2>2, <2>3, <2>4, <2>5, <2>6, <2>7, <2>8 DEF IInv, TypeOK
<1>6. CASE NestedFlush
  BY <1>6 DEF NestedFlush
<1>7. CASE BuildTableDone
  BY SMT, SMTT(40), <1>7 DEF BuildTableDone
<1>8. CASE FlushFailed
  BY <1>8 DEF FlushFailed, AfterFlush, FinishCall, RecordBackgroundError
<1>9. CASE FlushApplied
  <2>1. VersionTypes'
    BY SMT, SMTT(40), <1>9 DEF FlushApplied, AfterFlush, FinishCall
  <2>2. ThreadTypes'
    BY <1>9 DEF FlushApplied, AfterFlush, FinishCall
  <2>3. ManualTypes'
    BY <1>9 DEF FlushApplied, AfterFlush, FinishCall
  <2>4. WorkIsScheduled' /\ ScheduledMeansRunning' /\ WaitersWillBeNotified'
    BY <1>9 DEF FlushApplied, AfterFlush, FinishCall
  <2>5. FlushOrder'
    BY SMT, SMTT(40), <1>9 DEF FlushApplied, AfterFlush, FinishCall
  <2>6. InputsPresent'
    BY SMT, SMTT(40), <1>9 DEF FlushApplied, AfterFlush, FinishCall
  <2>7. ManualInv'
    BY <1>9 DEF FlushApplied, AfterFlush, FinishCall
  <2>8. CloseInv'
    BY <1>9 DEF FlushApplied, AfterFlush, FinishCall
  <2> QED
    BY <2>1, <2>2, <2>3, <2>4, <2>5, <2>6, <2>7, <2>8 DEF IInv, TypeOK
<1>10. CASE FlushCollected
  <2>1. VersionTypes'
    BY <1>10 DEF FlushCollected, AfterFlush, FinishCall
  <2>2. ThreadTypes'
    BY <1>10 DEF FlushCollected, AfterFlush, FinishCall
  <2>3. ManualTypes'
    BY <1>10 DEF FlushCollected, AfterFlush, FinishCall
  <2>4. WorkIsScheduled' /\ ScheduledMeansRunning' /\ WaitersWillBeNotified'
    BY <1>10 DEF FlushCollected, AfterFlush, FinishCall
  <2>5. FlushOrder'
    BY <1>10 DEF FlushCollected, AfterFlush, FinishCall
  <2>6. InputsPresent'
    BY <1>10 DEF FlushCollected, AfterFlush, FinishCall
  <2>7. ManualInv'
    BY <1>10 DEF FlushCollected, AfterFlush, FinishCall
  <2>8. CloseInv'
    BY <1>10 DEF FlushCollected, AfterFlush, FinishCall
  <2> QED
    BY <2>1, <2>2, <2>3, <2>4, <2>5, <2>6, <2>7, <2>8 DEF IInv, TypeOK
<1>11. CASE CompactionMerged
  BY <1>11 DEF CompactionMerged
<1>12. CASE CompactionFailed
  BY <1>12 DEF CompactionFailed, EndCompaction, FinishCall, RecordBackgroundError
<1>13. CASE CompactionInstalled
  <2>1. VersionTypes'
    BY SMT, SMTT(40), <1>13 DEF CompactionInstalled, EndCompaction, FinishCall
  <2>2. ThreadTypes'
    <3>1. job' \in [level : {0, 1}, n : Nat]
      BY SMT, SMTT(40), <1>13 DEF CompactionInstalled, EndCompaction, FinishCall
    <3>2. bg' \in BgStates /\ is_manual' \in BOOLEAN
      BY <1>13 DEF CompactionInstalled, EndCompaction, FinishCall
    <3>3. background_compaction_scheduled_' \in BOOLEAN
      BY <1>13 DEF CompactionInstalled, EndCompaction, FinishCall
    <3> QED
      BY <1>13, <3>1, <3>2, <3>3 DEF CompactionInstalled, EndCompaction, FinishCall
  <2>3. ManualTypes'
    BY SMT, SMTT(40), <1>13 DEF CompactionInstalled, EndCompaction, FinishCall
  <2>4. WorkIsScheduled' /\ ScheduledMeansRunning' /\ WaitersWillBeNotified'
    BY <1>13 DEF CompactionInstalled, EndCompaction, FinishCall
  <2>5. FlushOrder'
    BY <1>13 DEF CompactionInstalled, EndCompaction, FinishCall
  <2>6. InputsPresent'
    BY <1>13 DEF CompactionInstalled, EndCompaction, FinishCall
  <2>7. ManualInv'
    BY <1>13 DEF CompactionInstalled, EndCompaction, FinishCall
  <2>8. CloseInv'
    BY <1>13 DEF CompactionInstalled, EndCompaction, FinishCall
  <2> QED
    BY <2>1, <2>2, <2>3, <2>4, <2>5, <2>6, <2>7, <2>8 DEF IInv, TypeOK
<1>14. CASE CompactionCollected
  <2>1. VersionTypes'
    BY <1>14 DEF CompactionCollected, EndCompaction, FinishCall
  <2>2. ThreadTypes'
    BY <1>14 DEF CompactionCollected, EndCompaction, FinishCall
  <2>3. ManualTypes'
    BY <1>14, EndCompactionManual DEF CompactionCollected
  <2>4. WorkIsScheduled' /\ ScheduledMeansRunning' /\ WaitersWillBeNotified'
    BY <1>14 DEF CompactionCollected, EndCompaction, FinishCall
  <2>5. FlushOrder'
    BY <1>14 DEF CompactionCollected, EndCompaction, FinishCall
  <2>6. InputsPresent'
    BY <1>14 DEF CompactionCollected, EndCompaction, FinishCall
  <2>7. ManualInv'
    BY <1>14 DEF CompactionCollected, EndCompaction, FinishCall
  <2>8. CloseInv'
    BY <1>14 DEF CompactionCollected, EndCompaction, FinishCall
  <2> QED
    BY <2>1, <2>2, <2>3, <2>4, <2>5, <2>6, <2>7, <2>8 DEF IInv, TypeOK
<1>15. CASE FillMemTable
  <2>1. VersionTypes'
    BY SMT, SMTT(40), <1>15 DEF FillMemTable, SwitchMemTable, MaybeScheduleCompaction
  <2>2. ThreadTypes'
    BY <1>15 DEF FillMemTable, SwitchMemTable, MaybeScheduleCompaction
  <2>3. ManualTypes'
    BY <1>15 DEF FillMemTable, SwitchMemTable, MaybeScheduleCompaction
  <2>4. WorkIsScheduled' /\ ScheduledMeansRunning' /\ WaitersWillBeNotified'
    BY <1>15 DEF FillMemTable, SwitchMemTable, MaybeScheduleCompaction
  <2>5. FlushOrder'
    BY SMT, SMTT(40), <1>15 DEF FillMemTable, SwitchMemTable, MaybeScheduleCompaction
  <2>6. InputsPresent'
    BY <1>15 DEF FillMemTable, SwitchMemTable, MaybeScheduleCompaction
  <2>7. ManualInv'
    BY <1>15 DEF FillMemTable, SwitchMemTable, MaybeScheduleCompaction
  <2>8. CloseInv'
    BY <1>15 DEF FillMemTable, SwitchMemTable, MaybeScheduleCompaction
  <2> QED
    BY <2>1, <2>2, <2>3, <2>4, <2>5, <2>6, <2>7, <2>8 DEF IInv, TypeOK
<1>16. CASE UpdateStats
  <2>1. VersionTypes'
    BY SMT, SMTT(40), <1>16 DEF UpdateStats, MaybeScheduleCompaction
  <2>2. ThreadTypes'
    BY <1>16 DEF UpdateStats, MaybeScheduleCompaction
  <2>3. ManualTypes'
    BY <1>16 DEF UpdateStats, MaybeScheduleCompaction
  <2>4. WorkIsScheduled' /\ ScheduledMeansRunning' /\ WaitersWillBeNotified'
    BY <1>16 DEF UpdateStats, MaybeScheduleCompaction
  <2>5. FlushOrder'
    BY <1>16 DEF UpdateStats, MaybeScheduleCompaction
  <2>6. InputsPresent'
    BY <1>16 DEF UpdateStats, MaybeScheduleCompaction
  <2>7. ManualInv'
    BY <1>16 DEF UpdateStats, MaybeScheduleCompaction
  <2>8. CloseInv'
    BY <1>16 DEF UpdateStats, MaybeScheduleCompaction
  <2> QED
    BY <2>1, <2>2, <2>3, <2>4, <2>5, <2>6, <2>7, <2>8 DEF IInv, TypeOK
<1>17. CASE Close
  BY SMT, SMTT(40), <1>17 DEF Close
<1>18. CASE CloseWake
  BY SMT, SMTT(40), <1>18 DEF CloseWake
<1>19. CASE SpuriousWakeup
  BY SMT, SMTT(40), <1>19 DEF SpuriousWakeup
<1>20. CASE BgIdle
  BY SMT, SMTT(40), <1>20 DEF BgIdle, bgVars
<1>21. ASSUME NEW c \in Compactors, CompactRangeCall(c) PROVE IInv'
  BY SMT, SMTT(40), <1>21 DEF CompactRangeCall
<1>22. ASSUME NEW c \in Compactors, CompactRangeWait(c) PROVE IInv'
  <2>1. VersionTypes'
    BY <1>22 DEF CompactRangeWait, MaybeScheduleCompaction
  <2>2. ThreadTypes'
    BY <1>22 DEF CompactRangeWait, MaybeScheduleCompaction
  <2>3. ManualTypes'
    BY <1>22 DEF CompactRangeWait, MaybeScheduleCompaction
  <2>4. WorkIsScheduled' /\ ScheduledMeansRunning' /\ WaitersWillBeNotified'
    BY <1>22 DEF CompactRangeWait, MaybeScheduleCompaction
  <2>5. FlushOrder'
    BY <1>22 DEF CompactRangeWait, MaybeScheduleCompaction
  <2>6. InputsPresent'
    BY <1>22 DEF CompactRangeWait, MaybeScheduleCompaction
  <2>7. ManualInv'
    BY <1>22 DEF CompactRangeWait, MaybeScheduleCompaction
  <2>8. CloseInv'
    BY <1>22 DEF CompactRangeWait, MaybeScheduleCompaction
  <2> QED
    BY <2>1, <2>2, <2>3, <2>4, <2>5, <2>6, <2>7, <2>8 DEF IInv, TypeOK
<1>23. ASSUME NEW c \in Compactors, CompactRangeReturn(c) PROVE IInv'
  BY SMT, SMTT(40), <1>23 DEF CompactRangeReturn
<1>24. CASE SyncError
  BY SMT, SMTT(40), <1>24 DEF SyncError, RecordBackgroundError
<1>25. CASE UNCHANGED bgVars
  BY SMT, SMTT(40), <1>25 DEF bgVars
<1> QED
  BY <1>1, <1>2, <1>3, <1>4, <1>5, <1>6, <1>7, <1>8, <1>9, <1>10, <1>11, <1>12,
     <1>13, <1>14, <1>15, <1>16, <1>17, <1>18, <1>19, <1>20, <1>21, <1>22, <1>23, <1>24,
     <1>25
  DEF BgNext, BackgroundThread, CompactRange

\* The invariant holds in every state the scheduler reaches.
LEMMA SpecIInv == BgSpec => []IInv
<1> QED
  BY InitIInv, NextIInv, PTL DEF BgSpec

\* The state of the background work is well typed whatever the client threads
\* and the background thread do in their critical sections.
THEOREM TypeCorrect == BgSpec => []TypeOK
<1>1. IInv => TypeOK
  BY DEF IInv
<1> QED
  BY SpecIInv, <1>1, PTL

\* MaybeScheduleCompaction and BackgroundCall together never forget work.
THEOREM SchedulingCorrect == BgSpec => []WorkIsScheduled
<1>1. IInv => WorkIsScheduled
  BY DEF IInv
<1> QED
  BY SpecIInv, <1>1, PTL

\* background_compaction_scheduled_ is the presence of a call in the Env.
THEOREM SingleBackgroundCall == BgSpec => []ScheduledMeansRunning
<1>1. IInv => ScheduledMeansRunning
  BY DEF IInv
<1> QED
  BY SpecIInv, <1>1, PTL

\* Nobody waits on background_work_finished_signal_ without a background
\* call that will notify: there is no lost wakeup.
THEOREM NoLostWakeup == BgSpec => []WaitersWillBeNotified
<1>1. IInv => WaitersWillBeNotified
  BY DEF IInv
<1> QED
  BY SpecIInv, <1>1, PTL

\* CompactMemTable's SetLogNumber never makes RemoveObsoleteFiles drop the log
\* of a memtable that is not in the version.
THEOREM LogsNeverDroppedEarly == BgSpec => []LogsCoverUnflushed
<1>1. IInv => LogsCoverUnflushed
  <2> SUFFICES ASSUME IInv, NEW t \in 1..mem_, t \notin flushed PROVE t >= log_number
    BY DEF LogsCoverUnflushed
  <2>1. t \in Tables /\ t \in Nat
    BY SMT, SMTT(40), BackgroundAssumption DEF IInv, TypeOK, VersionTypes, Tables
  <2>2. ~(t < Oldest) /\ log_number <= Oldest
    BY <2>1 DEF IInv, FlushOrder
  <2>3. Oldest \in Nat /\ log_number \in Nat
    BY SMT, SMTT(40), BackgroundAssumption DEF IInv, TypeOK, VersionTypes, Tables, Oldest
  <2> QED
    BY SMT, SMTT(40), <2>1, <2>2, <2>3
<1> QED
  BY SpecIInv, <1>1, PTL

\* ~DBImpl leaves its wait loop only when no background call is left.
THEOREM ShutdownCorrect == BgSpec => []ClosedIsQuiet
<1>1. IInv => ClosedIsQuiet
  BY DEF IInv, CloseInv, ClosedIsQuiet
<1> QED
  BY SpecIInv, <1>1, PTL

\* The end of BackgroundCompaction finds its request unless an error of the
\* background thread was recorded: a request is taken back by its caller only,
\* when it is done, on shutdown (then no thread is in TEST_CompactRange) and
\* after an error, which stays recorded.
THEOREM ManualRequestKept == BgSpec => []RequestLivesUnlessError
<1>1. IInv => RequestLivesUnlessError
  BY DEF IInv, ManualInv, RequestLivesUnlessError, ManualRequestLives
<1> QED
  BY SpecIInv, <1>1, PTL
-----------------------------------------------------------------------------
\* Facts about numbers and finite sets.  They are a hypothesis of the lemmas that
\* rest on them and are proved from the library in WriteTheorems.
DataFacts ==
    /\ \A S \in SUBSET Nat : S # {} => \E n \in S : \A m \in S : n <= m
    /\ Cardinality(Writers) \in Nat
    /\ \A n \in Nat : \A f \in [1..n -> Writers] :
          (\A i, j \in 1..n : f[i] = f[j] => i = j) => n <= Cardinality(Writers)
    /\ \A S \in SUBSET {"mem", "imm"} : Cardinality(S) \in Nat
    /\ \A S \in SUBSET (Readers \X {"mem", "imm"}) :
          /\ Cardinality(S) \in Nat
          /\ \A x : x \notin S => Cardinality(S \cup {x}) = Cardinality(S) + 1
    /\ Cardinality({}) = 0 /\ \A x : Cardinality({x}) = 1

\* A set of naturals with an element has a least one.
LEMMA Least ==
    ASSUME DataFacts, NEW S, S \subseteq Nat, S # {}
    PROVE  \E n \in S : \A m \in S : n <= m
<1> QED
  BY DEF DataFacts

\* A set that has 0 and with a number its successor has every number.
LEMMA Induction ==
    ASSUME DataFacts, NEW S, 0 \in S, \A n \in Nat : n \in S => n + 1 \in S
    PROVE  Nat \subseteq S
<1> SUFFICES ASSUME Nat \ S # {} PROVE FALSE
  OBVIOUS
<1>1. PICK n \in Nat \ S : \A m \in Nat \ S : n <= m
  BY Least, Nat \ S \subseteq Nat
<1>2. n - 1 \in Nat
  BY <1>1, SMT, SMTT(40)
<1>3. n - 1 \in S
  BY <1>1, <1>2, SMT, SMTT(40)
<1> QED
  BY <1>1, <1>2, <1>3, SMT, SMTT(40)

\* Two sequences one after the other, under a name that the provers leave alone.
Cat(a, b) == a \o b

\* The type and the length of a concatenation.
LEMMA CatLen ==
    ASSUME NEW S, NEW a \in Seq(S), NEW b \in Seq(S)
    PROVE  Cat(a, b) \in Seq(S) /\ Len(Cat(a, b)) = Len(a) + Len(b)
<1> QED
  BY SMT, SMTT(40) DEF Cat

\* The empty sequence is a sequence over every set.
LEMMA EmptySeq ==
    ASSUME NEW S
    PROVE  <<>> \in Seq(S) /\ Len(<<>>) = 0
<1> QED
  BY SMT, SMTT(40)

\* The first n of the sequences s one after the other, as the loops of
\* BuildBatchGroup append them.
Concat(s, n) ==
    LET upto[i \in 0..n] == IF i = 0 THEN <<>> ELSE upto[i - 1] \o s[i]
    IN  upto[n]

\* It is the last of the results f[0], f[1], ... of the loop.
LEMMA ConcatLoop ==
    ASSUME DataFacts, NEW n \in Nat, NEW s
    PROVE  \E f : /\ f[0] = <<>>
                  /\ \A k \in Nat : k < n => f[k + 1] = Cat(f[k], s[k + 1])
                  /\ Concat(s, n) = f[n]
<1> DEFINE Is(f, k) == f = [i \in 0..k |-> IF i = 0 THEN <<>> ELSE Cat(f[i - 1], s[i])]
           D == {k \in Nat : \E f : Is(f, k)}
<1>1. 0 \in D
  <2> DEFINE f == [i \in 0..0 |-> <<>>]
  <2>1. Is(f, 0)
    BY SMT, SMTT(40)
  <2> HIDE DEF f, Is
  <2> QED
    BY <2>1
<1>2. ASSUME NEW k \in Nat, k \in D PROVE k + 1 \in D
  <2>1. PICK f : Is(f, k)
    BY <1>2
  <2> DEFINE g == [i \in 0..(k + 1) |-> IF i <= k THEN f[i] ELSE Cat(f[k], s[i])]
  <2>2. ASSUME NEW i \in 0..(k + 1)
        PROVE  g[i] = IF i = 0 THEN <<>> ELSE Cat(g[i - 1], s[i])
    <3>1. CASE i <= k
      <4>1. i \in 0..k /\ g[i] = f[i] /\ (i # 0 => i - 1 \in 0..(k + 1) /\ i - 1 <= k)
        BY <3>1, SMT, SMTT(40)
      <4>2. i # 0 => g[i - 1] = f[i - 1]
        BY <4>1
      <4> QED
        BY <2>1, <4>1, <4>2
    <3>2. CASE i = k + 1
      <4>1. i # 0 /\ i - 1 = k /\ k \in 0..(k + 1) /\ k <= k
        BY <3>2, SMT, SMTT(40)
      <4>2. g[k] = f[k]
        BY <4>1
      <4>3. g[i] = Cat(f[k], s[i])
        BY <3>2, SMT, SMTT(40)
      <4> QED
        BY <4>1, <4>2, <4>3
    <3> QED
      BY <3>1, <3>2, SMT, SMTT(40)
  <2>3. g = [i \in 0..(k + 1) |-> g[i]]
    OBVIOUS
  <2> HIDE DEF g
  <2>4. Is(g, k + 1)
    BY <2>2, <2>3
  <2> HIDE DEF Is
  <2> QED
    BY <2>4, SMT, SMTT(40)
<1> DEFINE F == CHOOSE f : Is(f, n)
<1>3. Is(F, n)
  <2>1. n \in D
    <3> HIDE DEF D
    <3> QED
      BY <1>1, <1>2, Induction
  <2> HIDE DEF Is
  <2> QED
    BY <2>1
<1>4. Concat(s, n) = F[n]
  BY DEF Concat, Cat
<1> HIDE DEF F
<1>5. \A i \in 0..n : F[i] = IF i = 0 THEN <<>> ELSE Cat(F[i - 1], s[i])
  <2> DEFINE G == [i \in 0..n |-> IF i = 0 THEN <<>> ELSE Cat(F[i - 1], s[i])]
  <2>1. \A i \in 0..n : G[i] = IF i = 0 THEN <<>> ELSE Cat(F[i - 1], s[i])
    OBVIOUS
  <2>2. F = G
    BY <1>3
  <2> HIDE DEF G
  <2> QED
    BY <2>1, <2>2
<1>6. ASSUME NEW k \in Nat, k < n PROVE F[k + 1] = Cat(F[k], s[k + 1])
  <2>1. k + 1 \in 0..n /\ k + 1 # 0 /\ (k + 1) - 1 = k
    BY <1>6, SMT, SMTT(40)
  <2> QED
    BY <1>5, <2>1
<1>7. F[0] = <<>>
  BY <1>5, SMT, SMTT(40)
<1> QED
  BY <1>4, <1>6, <1>7

\* One more turn of the loop appends one more sequence.
LEMMA ConcatNext ==
    ASSUME DataFacts, NEW n \in Nat, NEW s
    PROVE  Concat(s, 0) = <<>> /\ Concat(s, n + 1) = Cat(Concat(s, n), s[n + 1])
<1>1. Concat(s, 0) = <<>>
  BY ConcatLoop
<1>2. PICK f : /\ f[0] = <<>>
               /\ \A k \in Nat : k < n => f[k + 1] = Cat(f[k], s[k + 1])
               /\ Concat(s, n) = f[n]
  BY ConcatLoop
<1>3. PICK g : /\ g[0] = <<>>
               /\ \A k \in Nat : k < n + 1 => g[k + 1] = Cat(g[k], s[k + 1])
               /\ Concat(s, n + 1) = g[n + 1]
  <2>1. n + 1 \in Nat
    BY SMT, SMTT(40)
  <2> QED
    BY <2>1, ConcatLoop
<1> DEFINE D == {k \in Nat : k <= n => f[k] = g[k]}
<1>4. 0 \in D
  BY <1>2, <1>3
<1>5. ASSUME NEW k \in Nat, k \in D PROVE k + 1 \in D
  <2> SUFFICES ASSUME k + 1 <= n PROVE f[k + 1] = g[k + 1]
    BY SMT, SMTT(40)
  <2>1. k <= n /\ k < n /\ k < n + 1
    BY SMT, SMTT(40)
  <2> QED
    BY <1>2, <1>3, <1>5, <2>1
<1>6. f[n] = g[n]
  <2> HIDE DEF D
  <2>1. n \in D
    BY <1>4, <1>5, Induction
  <2> QED
    BY <2>1, SMT, SMTT(40) DEF D
<1>7. g[n + 1] = Cat(g[n], s[n + 1])
  BY <1>3, SMT, SMTT(40)
<1> QED
  BY <1>1, <1>2, <1>3, <1>6, <1>7

\* It is a sequence over what the parts are sequences over, and it grows.
LEMMA ConcatType ==
    ASSUME DataFacts, NEW S, NEW N \in Nat, NEW s \in [1..N -> Seq(S)]
    PROVE  \A n \in 0..N : /\ Concat(s, n) \in Seq(S)
                           /\ \A m \in 0..n : Len(Concat(s, m)) <= Len(Concat(s, n))
<1> DEFINE Good(n) == /\ Concat(s, n) \in Seq(S)
                      /\ \A m \in 0..n : Len(Concat(s, m)) <= Len(Concat(s, n))
           D == {n \in Nat : n <= N => Good(n)}
<1>1. 0 \in D
  <2>1. Concat(s, 0) = <<>>
    BY ConcatNext
  <2>2. Concat(s, 0) \in Seq(S) /\ Len(Concat(s, 0)) = 0
    BY <2>1, EmptySeq
  <2>3. \A m \in 0..0 : m = 0
    BY SMT, SMTT(40)
  <2>4. Good(0)
    BY <2>2, <2>3, SMT, SMTT(40)
  <2> HIDE DEF Good
  <2> QED
    BY <2>4
<1>2. ASSUME NEW n \in Nat, n \in D PROVE n + 1 \in D
  <2> SUFFICES ASSUME n + 1 <= N PROVE Good(n + 1)
    BY SMT, SMTT(40)
  <2>1. Good(n)
    BY <1>2, SMT, SMTT(40)
  <2>2. s[n + 1] \in Seq(S)
    BY SMT, SMTT(40)
  <2>3. Concat(s, n + 1) = Cat(Concat(s, n), s[n + 1])
    BY ConcatNext
  <2>4. /\ Concat(s, n + 1) \in Seq(S)
        /\ Len(Concat(s, n + 1)) = Len(Concat(s, n)) + Len(s[n + 1])
    BY <2>1, <2>2, <2>3, CatLen
  <2>5. Len(Concat(s, n)) \in Nat /\ Len(s[n + 1]) \in Nat
    BY <2>1, <2>2, SMT, SMTT(40)
  <2>6. ASSUME NEW m \in 0..(n + 1) PROVE Len(Concat(s, m)) <= Len(Concat(s, n + 1))
    <3>1. CASE m = n + 1
      BY <2>4, <2>5, <3>1, SMT, SMTT(40)
    <3>2. CASE m # n + 1
      <4>1. m \in 0..n /\ Len(Concat(s, m)) <= Len(Concat(s, n))
        BY <2>1, <3>2, SMT, SMTT(40)
      <4> QED
        BY <2>4, <2>5, <4>1, SMT, SMTT(40)
    <3> QED
      BY <3>1, <3>2
  <2> QED
    BY <2>4, <2>6
<1>3. Nat \subseteq D
  <2> HIDE DEF D
  <2> QED
    BY <1>1, <1>2, Induction
<1> QED
  BY <1>3, SMT, SMTT(40)
-----------------------------------------------------------------------------
(***************************************************************************)
(* The invariants                                                          *)
(***************************************************************************)
\* Where a leader is between building its group and publishing it.
Grouped == {"log", "sync", "insert", "publish"}

QueueTypes ==
    /\ writers_ \in Seq(Writers)
    /\ wpc \in [Writers -> {"idle", "enter", "queued", "cmt"} \cup Leading]
    /\ req \in [Writers -> [batch : Batches \cup {NULL}, sync : BOOLEAN]]
    /\ wres \in [Writers -> {"none", "ok", "err"}]
    /\ asleep \in SUBSET Writers

InQueue(w, q) == \E i \in 1..Len(q) : q[i] = w

\* A writer is in the queue once, and as long as no leader has answered it; a
\* leader is at the front and not answered; a writer that is asleep is neither
\* at the front nor answered.
QueueInv ==
    /\ QueueTypes
    /\ \A i, j \in 1..Len(writers_) : writers_[i] = writers_[j] => i = j
    /\ \A w \in Writers :
          InQueue(w, writers_) <=> wpc[w] \in Leading \/ (wpc[w] = "queued" /\ wres[w] = "none")
    /\ \A w \in Writers : wpc[w] \in Leading \cup {"enter"} => wres[w] = "none"
    /\ NobodySleepsForEver

\* Calls are in progress only while the database is open.
OpenInv ==
    /\ \A w \in Writers : wpc[w] # "idle" => closer = "open"
    /\ \A r \in Readers : get[r] # NoGet => closer = "open"

GroupTypes ==
    group \in [n : Nat, keys : Seq(Keys), first : Nat,
               mem : Tables \cup {NULL}, done : Nat, status : {"ok", "err", "sync_error"}]

\* GroupKeys(q, n) when the requests are r.
KeysIn(r, q, n) ==
    LET upto[i \in 0..n] ==
            IF i = 0 THEN <<>>
            ELSE upto[i - 1] \o (IF r[q[i]].batch = NULL THEN <<>> ELSE r[q[i]].batch)
    IN  upto[n]

\* What the leader w knows of its group: its writers are the first of the queue
\* and with a sync writer among them the leader syncs; its numbers follow
\* LastSequence(); it goes into mem_, and not at all once the log has failed.
LeaderInv(w) ==
    /\ group.n \in 1..Len(writers_)
    /\ group.keys = KeysIn(req, writers_, group.n)
    /\ \A i \in 1..group.n : req[writers_[i]].sync => req[w].sync
    /\ req[w].batch # NULL
    /\ group.first = last_sequence + 1
    /\ group.done <= Len(group.keys)
    /\ wpc[w] \in {"log", "sync"} => group.done = 0
    /\ wpc[w] \in {"log", "sync", "insert"} => group.status = "ok"
    /\ wpc[w] # "log" /\ group.status = "ok" => group.mem = mem_
    /\ wpc[w] = "publish" /\ group.status = "ok" => group.done = Len(group.keys)
    /\ group.status # "ok" => group.done = 0 /\ LogFails

GroupInv ==
    /\ GroupTypes /\ last_sequence \in Nat
    /\ \A w \in Writers : wpc[w] \in Grouped => LeaderInv(w)
    /\ (\A w \in Writers : wpc[w] \notin Grouped) => group = NoGroup
-----------------------------------------------------------------------------
(***************************************************************************)
(* BuildBatchGroup                                                         *)
(***************************************************************************)
\* The batch of a writer is a sequence of keys.
LEMMA KeysOfType ==
    ASSUME QueueTypes, NEW w \in Writers
    PROVE  KeysOf(w) \in Seq(Keys)
<1>1. req[w].batch \in Batches \cup {NULL}
  BY DEF QueueTypes
<1> QED
  BY <1>1, WritePathAssumption, SMT, SMTT(40) DEF KeysOf

\* The batches of the first writers of a queue make one batch, which is longer
\* the more writers there are.
LEMMA GroupKeysType ==
    ASSUME DataFacts, QueueTypes, NEW q \in Seq(Writers), NEW n \in 0..Len(q)
    PROVE  /\ GroupKeys(q, n) \in Seq(Keys)
           /\ \A m \in 0..n : Len(GroupKeys(q, m)) <= Len(GroupKeys(q, n))
<1> DEFINE s == [i \in 1..Len(q) |-> KeysOf(q[i])]
<1>1. s \in [1..Len(q) -> Seq(Keys)]
  <2>1. ASSUME NEW i \in 1..Len(q) PROVE KeysOf(q[i]) \in Seq(Keys)
    <3>1. q[i] \in Writers
      BY SMT, SMTT(40)
    <3> QED
      BY <3>1, KeysOfType
  <2> QED
    BY <2>1
<1>2. ASSUME NEW m \in 0..Len(q) PROVE GroupKeys(q, m) = Concat(s, m)
  <2> DEFINE A(f) == [i \in 0..m |-> IF i = 0 THEN <<>> ELSE f[i - 1] \o KeysOf(q[i])]
             B(f) == [i \in 0..m |-> IF i = 0 THEN <<>> ELSE f[i - 1] \o s[i]]
  <2>1. ASSUME NEW f PROVE A(f) = B(f)
    <3>1. \A i \in 0..m : i # 0 => s[i] = KeysOf(q[i])
      BY SMT, SMTT(40)
    <3> HIDE DEF s
    <3> QED
      BY <3>1
  <2>2. GroupKeys(q, m) = (CHOOSE f : f = A(f))[m] /\ Concat(s, m) = (CHOOSE f : f = B(f))[m]
    BY DEF GroupKeys, Concat
  <2> HIDE DEF A, B
  <2>3. (CHOOSE f : f = A(f)) = (CHOOSE f : f = B(f))
    BY <2>1
  <2> QED
    BY <2>2, <2>3
<1>3. /\ Concat(s, n) \in Seq(Keys)
      /\ \A m \in 0..n : Len(Concat(s, m)) <= Len(Concat(s, n))
  <2> HIDE DEF s
  <2>1. Len(q) \in Nat
    BY SMT, SMTT(40)
  <2> QED
    BY <1>1, <2>1, ConcatType
<1> HIDE DEF s
<1>4. \A m \in 0..n : m \in 0..Len(q)
  BY SMT, SMTT(40)
<1> QED
  BY <1>2, <1>3, <1>4

\* The loop of BuildBatchGroup ends: the group is a non-empty prefix of the
\* queue, and takes a sync writer along only when the leader syncs.
LEMMA BuildBatchGroupPrefix ==
    ASSUME DataFacts, QueueTypes, NEW q \in Seq(Writers), Len(q) >= 1
    PROVE  /\ BuildBatchGroup(q) \in 1..Len(q)
           /\ \A i \in 1..BuildBatchGroup(q) : req[q[i]].sync => req[q[1]].sync
<1> DEFINE Big(i) == Len(GroupKeys(q, i)) > MaxSize(q[1])
           Small(i) == Len(GroupKeys(q, i)) <= MaxSize(q[1])
           Sync1(i) == req[q[i]].sync
           Null(i) == req[q[i]].batch = NULL
           Stop(i) == (Sync1(i) /\ ~Sync1(1)) \/ (~Null(i) /\ Big(i))
           Takes(i) == (Sync1(i) => Sync1(1)) /\ (Null(i) \/ Small(i))
           P(n) == (\A i \in 2..n : Takes(i)) /\ (n < Len(q) => Stop(n + 1))
           S == {m \in 1..Len(q) : m = Len(q) \/ Stop(m + 1)}
<1>1. ASSUME NEW i \in 1..Len(q) PROVE Takes(i) \/ Stop(i)
  <2>1. Len(GroupKeys(q, i)) \in Nat
    BY GroupKeysType, SMT, SMTT(40)
  <2>2. MaxSize(q[1]) \in Nat
    <3>1. q[1] \in Writers
      BY SMT, SMTT(40)
    <3>2. Len(KeysOf(q[1])) \in Nat
      BY <3>1, KeysOfType, SMT, SMTT(40)
    <3> QED
      BY <3>2, WritePathAssumption, SMT, SMTT(40) DEF MaxSize
  <2> QED
    BY <2>1, <2>2, SMT, SMTT(40)
<1> HIDE DEF Takes, Stop
<1>2. PICK n \in S : \A m \in S : n <= m
  <2>1. Len(q) \in S /\ S \subseteq Nat
    BY SMT, SMTT(40)
  <2> HIDE DEF S
  <2> QED
    BY <2>1, Least
<1>3. P(n)
  <2>1. ASSUME NEW i \in 2..n PROVE Takes(i)
    <3>1. i - 1 \in 1..Len(q) /\ i \in 1..Len(q) /\ i - 1 < n /\ (i - 1) + 1 = i
      BY <1>2, SMT, SMTT(40)
    <3>2. i - 1 \notin S
      <4>1. n \in Nat /\ i - 1 \in Nat /\ ~(n <= i - 1)
        BY <1>2, <3>1, SMT, SMTT(40)
      <4> QED
        BY <1>2, <4>1
    <3>3. ~Stop(i)
      BY <3>1, <3>2
    <3> QED
      BY <1>1, <3>1, <3>3
  <2> QED
    BY <1>2, <2>1, SMT, SMTT(40)
<1>4. BuildBatchGroup(q) = CHOOSE m \in 1..Len(q) : P(m)
  BY DEF BuildBatchGroup, Takes, Stop
<1>5. BuildBatchGroup(q) \in 1..Len(q) /\ P(BuildBatchGroup(q))
  <2>1. n \in 1..Len(q)
    BY <1>2
  <2> HIDE DEF P
  <2> QED
    BY <1>3, <1>4, <2>1
<1> QED
  BY <1>5, SMT, SMTT(40) DEF Takes
-----------------------------------------------------------------------------
(***************************************************************************)
(* The steps of a writer                                                   *)
(***************************************************************************)
\* The writer w is at the front of q, the queue with w in it, and nobody else
\* is past the queue.
AtFront(w, q) ==
    /\ q \in Seq(Writers) /\ Len(q) >= 1 /\ q[1] = w
    /\ \A i, j \in 1..Len(q) : q[i] = q[j] => i = j
    /\ \A v \in Writers : v # w => /\ wpc[v] \notin Leading
                                   /\ InQueue(v, q) <=> wpc[v] = "queued" /\ wres[v] = "none"
    /\ wpc[w] \in Leading \cup {"enter", "queued"} /\ wres[w] = "none"
    /\ \A v \in asleep : /\ wpc[v] = "queued" /\ wres[v] = "none" /\ v # w
                         /\ \E i \in 2..Len(q) : q[i] = v

\* What MakeRoomForWrite does to the queue and to the group: Write is over, the
\* writer goes on waiting for room, or it leads a group.
RoomQueue(w, q) ==
    \/ /\ UNCHANGED group
       /\ \/ Complete(w, q, 1, "err")
          \/ req[w].batch = NULL /\ Complete(w, q, 1, "ok")
    \/ \E pc \in {"delay", "room"} : Stay(w, q, pc)
    \/ req[w].batch # NULL /\ Lead(w, q)

\* A writer starts to wait for the background work.
WriterWaits(w) ==
    /\ ~bg_error_ /\ closer = "open"
    /\ imm_ # NULL \/ l0 >= L0Stop
    /\ waiting' = waiting \cup {w}
    /\ UNCHANGED <<memVars, versionVars, edit_log, background_compaction_scheduled_, bg,
                   job, is_manual, manualVars, bg_error_, shutting_down_, closer>>

\* What it does to the memtables and to the background work: nothing, or the
\* writer waits for it, or there is a new memtable.
RoomBackground(w) ==
    \/ UNCHANGED <<bgVars, refs>>
    \/ WriterWaits(w) /\ UNCHANGED refs
    \/ FillMemTable /\ refs' = [refs EXCEPT ![mem_ + 1] = 1]

RoomFrame == UNCHANGED <<req, wcalls, last_sequence, tables, log, synced, torn, sst, get, gets, promised>>

\* A critical section of MakeRoomForWrite.
Room(w, q) ==
    /\ AtFront(w, q) /\ wpc[w] \notin Grouped
    /\ q = writers_ \/ writers_ = <<>>
    /\ RoomQueue(w, q) /\ RoomBackground(w) /\ RoomFrame

\* The alternatives of MakeRoomForWrite.
LEMMA RoomCases ==
    ASSUME NEW w, NEW q, NEW delay, closer = "open", MakeRoomForWrite(w, q, delay)
    PROVE  RoomQueue(w, q) /\ RoomBackground(w)
<1> DEFINE force == req[w].batch = NULL
           slow == delay /\ l0 >= L0Slowdown
           room == ~force /\ ~MemTableFull
<1>1. CASE bg_error_ /\ Complete(w, q, 1, "err") /\ UNCHANGED <<bgVars, group, refs>>
  BY <1>1 DEF RoomQueue, RoomBackground
<1>2. CASE Stay(w, q, "delay") /\ UNCHANGED <<bgVars, refs>>
  BY <1>2 DEF RoomQueue, RoomBackground
<1>3. CASE room /\ Lead(w, q) /\ UNCHANGED <<bgVars, refs>>
  BY <1>3 DEF RoomQueue, RoomBackground
<1>4. CASE /\ ~bg_error_
           /\ imm_ # NULL \/ l0 >= L0Stop
           /\ Stay(w, q, "room")
           /\ waiting' = waiting \cup {w}
           /\ UNCHANGED <<memVars, versionVars, edit_log,
                          background_compaction_scheduled_, bg, job, is_manual,
                          manualVars, bg_error_, shutting_down_, closer, refs>>
  <2>1. WriterWaits(w) /\ UNCHANGED refs
    BY <1>4 DEF WriterWaits
  <2> QED
    BY <1>4, <2>1 DEF RoomQueue, RoomBackground
<1>5. CASE /\ SwitchMemTable
           /\ refs' = [refs EXCEPT ![mem_ + 1] = 1]
           /\ Lead(w, q)
           /\ UNCHANGED <<edit_log, job, is_manual, cpc, mdone, left, calls, closer, waiting>>
  <2>1. FillMemTable
    BY <1>5 DEF FillMemTable
  <2>2. RoomQueue(w, q)
    <3>1. CASE req[w].batch = NULL
      BY <1>5, <3>1 DEF Lead, RoomQueue
    <3>2. CASE req[w].batch # NULL
      BY <1>5, <3>2 DEF RoomQueue
    <3> QED
      BY <3>1, <3>2
  <2> QED
    BY <1>5, <2>1, <2>2 DEF RoomBackground
<1>6. CASE Complete(w, q, 1, "err") /\ UNCHANGED <<bgVars, group, refs>>
  BY <1>6 DEF RoomQueue, RoomBackground
<1> QED
  BY <1>1, <1>2, <1>3, <1>4, <1>5, <1>6 DEF MakeRoomForWrite

\* A writer that joins the queue behind others, or goes back to sleep.
Join(w) ==
    /\ wpc[w] = "enter" /\ Len(writers_) >= 1
    /\ writers_' = Append(writers_, w)
    /\ wpc' = [wpc EXCEPT ![w] = "queued"]
    /\ asleep' = asleep \cup {w}
    /\ UNCHANGED <<bgVars, wres, group, allow_delay, refs>> /\ RoomFrame

SleepAgain(w) ==
    /\ wpc[w] = "queued" /\ wres[w] = "none" /\ writers_[1] # w
    /\ asleep' = asleep \cup {w}
    /\ UNCHANGED <<bgVars, writers_, wpc, wres, group, allow_delay, refs>> /\ RoomFrame

\* A writer that returns with the status its leader left.
Answered(w) ==
    /\ wpc[w] = "queued" /\ w \notin asleep /\ wres[w] # "none"
    /\ wpc' = [wpc EXCEPT ![w] = Returned(w, wres[w])]
    /\ UNCHANGED <<bgVars, writers_, wres, asleep, group, allow_delay, refs>> /\ RoomFrame

\* A writer in the queue that is at its front, or would be alone in it, is at
\* the front.
LEMMA FrontOfQueue ==
    ASSUME QueueInv, NEW w \in Writers,
           \/ wpc[w] \in Leading
           \/ wpc[w] = "queued" /\ wres[w] = "none" /\ w \notin asleep /\ writers_[1] = w
    PROVE  AtFront(w, writers_)
<1> USE DEF QueueInv, QueueTypes, NobodySleepsForEver, OneLeader, Leading
<1>1. InQueue(w, writers_) /\ writers_ \in Seq(Writers)
  OBVIOUS
<1>2. Len(writers_) >= 1 /\ writers_[1] = w
  BY <1>1, SMT, SMTT(40) DEF InQueue
<1>3. ASSUME NEW v \in Writers, v # w PROVE wpc[v] \notin Leading
  BY <1>2, <1>3
<1>4. ASSUME NEW v \in asleep PROVE v # w
  <2>1. PICK i \in 2..Len(writers_) : writers_[i] = v
    OBVIOUS
  <2> QED
    BY <1>2, <2>1
<1> QED
  BY <1>1, <1>2, <1>3, <1>4 DEF AtFront

\* A writer that finds the queue empty leads it.
LEMMA FrontOfEmpty ==
    ASSUME QueueInv, NEW w \in Writers, wpc[w] = "enter", writers_ = <<>>
    PROVE  AtFront(w, Append(writers_, w))
<1> USE DEF QueueInv, QueueTypes, NobodySleepsForEver, OneLeader, Leading
<1> DEFINE q == Append(writers_, w)
<1>1. q \in Seq(Writers) /\ Len(q) = 1 /\ q[1] = w
  BY SMT, SMTT(40)
<1>2. asleep = {}
  BY SMT, SMTT(40)
<1>3. ASSUME NEW v \in Writers, v # w
      PROVE  /\ wpc[v] \notin Leading
             /\ InQueue(v, q) <=> wpc[v] = "queued" /\ wres[v] = "none"
  <2>1. ~InQueue(v, writers_)
    BY SMT, SMTT(40) DEF InQueue
  <2>2. ~InQueue(v, q)
    <3> HIDE DEF q
    <3> QED
      BY <1>1, <1>3, SMT, SMTT(40) DEF InQueue
  <2> QED
    BY <2>1, <2>2
<1> HIDE DEF q
<1> QED
  BY <1>1, <1>2, <1>3, SMT, SMTT(40) DEF AtFront

\* Every step of Write up to the log is one of these.
LEMMA QueueSteps ==
    ASSUME QueueInv, OpenInv, NEW w \in Writers, Enter(w) \/ Wake(w) \/ RoomAgain(w)
    PROVE  (\E q : Room(w, q)) \/ Join(w) \/ SleepAgain(w) \/ Answered(w)
<1>1. wpc[w] \in {"enter", "queued", "room", "delay"}
  BY DEF Enter, Wake, RoomAgain
<1>2. closer = "open" /\ wpc[w] \notin Grouped
  BY <1>1 DEF OpenInv, Grouped
<1>3. CASE Enter(w)
  <2> DEFINE q == Append(writers_, w)
  <2>1. wpc[w] = "enter" /\ RoomFrame
    BY <1>3 DEF Enter, RoomFrame
  <2>2. CASE writers_ = <<>>
    <3>1. q[1] = w
      BY <2>2, SMT, SMTT(40)
    <3>2. MakeRoomForWrite(w, q, req[w].batch # NULL)
      BY <1>3, <3>1 DEF Enter
    <3>3. AtFront(w, q)
      BY <2>1, <2>2, FrontOfEmpty
    <3> HIDE DEF q
    <3>4. RoomQueue(w, q) /\ RoomBackground(w)
      BY <1>2, <3>2, RoomCases
    <3>5. Room(w, q)
      BY <1>2, <2>1, <2>2, <3>3, <3>4 DEF Room
    <3> QED
      BY <3>5
  <2>3. CASE writers_ # <<>>
    <3>1. Len(writers_) >= 1 /\ q[1] = writers_[1]
      BY <2>3, SMT, SMTT(40) DEF QueueInv, QueueTypes
    <3>2. q[1] # w
      <4>1. InQueue(writers_[1], writers_)
        BY <3>1, SMT, SMTT(40) DEF InQueue, QueueInv, QueueTypes
      <4>2. ~InQueue(w, writers_)
        BY <2>1 DEF QueueInv, Leading
      <4> QED
        BY <3>1, <4>1, <4>2
    <3> QED
      BY <1>3, <2>1, <3>1, <3>2 DEF Enter, Join
  <2> QED
    BY <2>2, <2>3
<1>4. CASE Wake(w)
  <2>1. wpc[w] = "queued" /\ w \notin asleep /\ RoomFrame
    BY <1>4 DEF Wake, RoomFrame
  <2>2. CASE wres[w] # "none"
    BY <1>4, <2>1, <2>2 DEF Wake, Answered
  <2>3. CASE wres[w] = "none" /\ writers_[1] = w
    <3>1. MakeRoomForWrite(w, writers_, req[w].batch # NULL)
      BY <1>4, <2>3 DEF Wake
    <3>2. RoomQueue(w, writers_) /\ RoomBackground(w)
      BY <1>2, <3>1, RoomCases
    <3>3. AtFront(w, writers_)
      BY <2>1, <2>3, FrontOfQueue
    <3> QED
      BY <1>2, <2>1, <3>2, <3>3 DEF Room
  <2>4. CASE wres[w] = "none" /\ writers_[1] # w
    BY <1>4, <2>1, <2>4 DEF Wake, SleepAgain
  <2> QED
    BY <2>2, <2>3, <2>4
<1>5. CASE RoomAgain(w)
  <2>1. RoomFrame /\ wpc[w] \in Leading
    BY <1>5 DEF RoomAgain, RoomFrame, Leading
  <2>2. RoomQueue(w, writers_) /\ RoomBackground(w)
    BY <1>2, <1>5, RoomCases DEF RoomAgain
  <2>3. AtFront(w, writers_)
    BY <2>1, FrontOfQueue
  <2> QED
    BY <1>2, <2>1, <2>2, <2>3 DEF Room
<1> QED
  BY <1>3, <1>4, <1>5
-----------------------------------------------------------------------------
(***************************************************************************)
(* The queue                                                               *)
(***************************************************************************)
\* The end of Write: whoever is answered is awake and out of the queue, and the
\* new front is awake.
LEMMA CompleteQueue ==
    ASSUME QueueInv, NEW w \in Writers, NEW q, AtFront(w, q), NEW n \in 1..Len(q),
           NEW st \in {"ok", "err"}, Complete(w, q, n, st), UNCHANGED req
    PROVE  QueueInv'
<1> DEFINE followers == {q[i] : i \in 2..n}
           front == IF n < Len(q) THEN {q[n + 1]} ELSE {}
<1>1. /\ q \in Seq(Writers) /\ Len(q) >= 1 /\ q[1] = w
      /\ \A i, j \in 1..Len(q) : q[i] = q[j] => i = j
  BY DEF AtFront
<1>2. /\ writers_' = SubSeq(q, n + 1, Len(q))
      /\ wres' = [v \in Writers |-> IF v \in followers THEN st ELSE wres[v]]
      /\ asleep' = asleep \ (followers \cup front)
      /\ wpc' = [wpc EXCEPT ![w] = Returned(w, st)]
  BY DEF Complete
<1>3. /\ writers_' \in Seq(Writers) /\ Len(writers_') = Len(q) - n
      /\ \A i \in 1..Len(writers_') : n + i \in 1..Len(q) /\ writers_'[i] = q[n + i]
  BY <1>1, <1>2, SMT, SMTT(40)
<1>4. /\ wpc \in [Writers -> {"idle", "enter", "queued", "cmt"} \cup Leading]
      /\ wres \in [Writers -> {"none", "ok", "err"}] /\ asleep \in SUBSET Writers
  BY DEF QueueInv, QueueTypes
<1>5. wpc'[w] \in {"cmt", "idle"} /\ \A v \in Writers : v # w => wpc'[v] = wpc[v]
  BY <1>2, <1>4 DEF Returned
<1>6. w \notin followers
  BY <1>1, SMT, SMTT(40)
<1>7. QueueTypes'
  <2>1. wpc' \in [Writers -> {"idle", "enter", "queued", "cmt"} \cup Leading]
    BY <1>2, <1>4 DEF Returned
  <2>2. wres' \in [Writers -> {"none", "ok", "err"}]
    BY <1>2, <1>4
  <2>3. req' \in [Writers -> [batch : Batches \cup {NULL}, sync : BOOLEAN]]
    BY DEF QueueInv, QueueTypes
  <2> QED
    BY <1>2, <1>3, <1>4, <2>1, <2>2, <2>3 DEF QueueTypes, Leading
<1>8. \A i, j \in 1..Len(writers_') : writers_'[i] = writers_'[j] => i = j
  <2> SUFFICES ASSUME NEW i \in 1..Len(writers_'), NEW j \in 1..Len(writers_'),
                      writers_'[i] = writers_'[j]
               PROVE  i = j
    OBVIOUS
  <2>1. n + i \in 1..Len(q) /\ n + j \in 1..Len(q) /\ q[n + i] = q[n + j]
    BY <1>3
  <2>2. n + i = n + j
    BY <1>1, <2>1
  <2> QED
    BY <1>3, <2>2, SMT, SMTT(40)
<1>9. ASSUME NEW v \in Writers, v # w
      PROVE  InQueue(v, writers_') <=> InQueue(v, q) /\ v \notin followers
  <2>1. ASSUME InQueue(v, writers_') PROVE InQueue(v, q) /\ v \notin followers
    <3>1. PICK i \in 1..Len(writers_') : writers_'[i] = v
      BY <2>1 DEF InQueue
    <3>2. n + i \in 1..Len(q) /\ q[n + i] = v
      BY <1>3, <3>1
    <3>3. InQueue(v, q)
      BY <3>2 DEF InQueue
    <3>4. ASSUME NEW j \in 2..n PROVE q[j] # v
      <4>1. j \in 1..Len(q) /\ j # n + i
        BY <1>1, <3>1, <1>3, SMT, SMTT(40)
      <4> QED
        BY <1>1, <3>2, <4>1
    <3> QED
      BY <3>3, <3>4
  <2>2. ASSUME InQueue(v, q), v \notin followers PROVE InQueue(v, writers_')
    <3>1. PICK j \in 1..Len(q) : q[j] = v
      BY <2>2 DEF InQueue
    <3>2. j # 1 /\ j \notin 2..n
      BY <1>1, <1>9, <2>2, <3>1
    <3>3. j - n \in 1..Len(writers_') /\ writers_'[j - n] = q[n + (j - n)] /\ n + (j - n) = j
      BY <1>1, <1>3, <3>2, SMT, SMTT(40)
    <3> QED
      BY <3>1, <3>3 DEF InQueue
  <2> QED
    BY <2>1, <2>2
<1>10. ~InQueue(w, writers_')
  <2> SUFFICES ASSUME NEW i \in 1..Len(writers_'), writers_'[i] = w PROVE FALSE
    BY DEF InQueue
  <2>1. n + i \in 1..Len(q) /\ 1 \in 1..Len(q) /\ q[n + i] = q[1] /\ n + i # 1
    BY <1>1, <1>3, SMT, SMTT(40)
  <2> QED
    BY <1>1, <2>1
<1>11. ASSUME NEW v \in Writers
       PROVE  /\ InQueue(v, writers_') <=>
                     wpc'[v] \in Leading \/ (wpc'[v] = "queued" /\ wres'[v] = "none")
              /\ wpc'[v] \in Leading \cup {"enter"} => wres'[v] = "none"
  <2>1. CASE v = w
    BY <1>5, <1>10, <2>1 DEF Leading
  <2>2. CASE v # w
    <3>1. wpc'[v] = wpc[v] /\ wpc[v] \notin Leading
      BY <1>5, <2>2 DEF AtFront
    <3>2. InQueue(v, q) <=> wpc[v] = "queued" /\ wres[v] = "none"
      BY <2>2 DEF AtFront
    <3>3. wres'[v] = IF v \in followers THEN st ELSE wres[v]
      BY <1>2
    <3>4. v \in followers => wpc[v] = "queued"
      <4>1. v \in followers => InQueue(v, q)
        BY <1>1, SMT, SMTT(40) DEF InQueue
      <4> QED
        BY <3>2, <4>1
    <3>5. wpc[v] = "enter" => wres[v] = "none"
      BY DEF QueueInv
    <3> HIDE DEF followers
    <3>6. InQueue(v, writers_') <=> wpc'[v] = "queued" /\ wres'[v] = "none"
      BY <1>9, <2>2, <3>1, <3>2, <3>3
    <3> QED
      BY <3>1, <3>3, <3>4, <3>5, <3>6
  <2> QED
    BY <2>1, <2>2
<1>12. NobodySleepsForEver'
  <2>1. ASSUME NEW v \in asleep'
        PROVE  /\ wpc'[v] = "queued" /\ wres'[v] = "none"
               /\ \E i \in 2..Len(writers_') : writers_'[i] = v
    <3>1. v \in asleep /\ v \notin followers /\ v \notin front
      BY <1>2
    <3>2. wpc[v] = "queued" /\ wres[v] = "none" /\ v # w
      BY <3>1 DEF AtFront
    <3>3. PICK j \in 2..Len(q) : q[j] = v
      BY <3>1 DEF AtFront
    <3>4. j \notin 2..n
      BY <3>1, <3>3
    <3>5. j # n + 1
      BY <3>1, <3>3, SMT, SMTT(40)
    <3>6. j - n \in 2..Len(writers_') /\ j - n \in 1..Len(writers_') /\ n + (j - n) = j
      BY <1>1, <1>3, <3>4, <3>5, SMT, SMTT(40)
    <3>7. writers_'[j - n] = v
      BY <1>3, <3>3, <3>6
    <3>8. wpc'[v] = "queued" /\ wres'[v] = "none"
      <4>1. v \in Writers
        BY <1>4, <3>1
      <4> QED
        BY <1>2, <1>5, <3>1, <3>2, <4>1
    <3> QED
      BY <3>6, <3>7, <3>8
  <2>2. OneLeader'
    <3>1. ASSUME NEW v \in Writers PROVE wpc'[v] \notin Leading
      <4>1. v # w => wpc[v] \notin Leading
        BY DEF AtFront
      <4> QED
        BY <1>5, <4>1 DEF Leading
    <3> QED
      BY <3>1 DEF OneLeader
  <2> QED
    BY <2>1, <2>2 DEF NobodySleepsForEver
<1> QED
  BY <1>7, <1>8, <1>11, <1>12 DEF QueueInv

\* A leader that goes on, with the queue it found.
LEMMA LeaderStays ==
    ASSUME QueueInv, NEW w \in Writers, NEW q, AtFront(w, q), NEW pc \in Leading,
           writers_' = q, wpc' = [wpc EXCEPT ![w] = pc], UNCHANGED <<wres, asleep, req>>
    PROVE  QueueInv'
<1>1. /\ wpc \in [Writers -> {"idle", "enter", "queued", "cmt"} \cup Leading]
      /\ q \in Seq(Writers) /\ Len(q) >= 1 /\ q[1] = w
  BY DEF QueueInv, QueueTypes, AtFront
<1>2. wpc'[w] = pc /\ \A v \in Writers : v # w => wpc'[v] = wpc[v]
  BY <1>1
<1>3. QueueTypes'
  <2>1. wpc' \in [Writers -> {"idle", "enter", "queued", "cmt"} \cup Leading]
    BY <1>1
  <2> QED
    BY <1>1, <2>1 DEF QueueTypes, QueueInv, Leading
<1>4. InQueue(w, q) /\ wres[w] = "none"
  BY <1>1, SMT, SMTT(40) DEF InQueue, AtFront
<1>5. ASSUME NEW v \in Writers
      PROVE  /\ InQueue(v, q) <=> wpc'[v] \in Leading \/ (wpc'[v] = "queued" /\ wres[v] = "none")
             /\ wpc'[v] \in Leading \cup {"enter"} => wres[v] = "none"
  <2>1. CASE v = w
    BY <1>2, <1>4, <2>1
  <2>2. CASE v # w
    <3>1. wpc'[v] = wpc[v] /\ wpc[v] \notin Leading
      BY <1>2, <2>2 DEF AtFront
    <3>2. InQueue(v, q) <=> wpc[v] = "queued" /\ wres[v] = "none"
      BY <2>2 DEF AtFront
    <3>3. wpc[v] = "enter" => wres[v] = "none"
      BY DEF QueueInv
    <3> QED
      BY <3>1, <3>2, <3>3
  <2> QED
    BY <2>1, <2>2
<1>6. NobodySleepsForEver'
  <2>1. OneLeader'
    <3>1. ASSUME NEW v \in Writers, wpc'[v] \in Leading PROVE v = w
      BY <1>2, <3>1 DEF AtFront
    <3>2. q # <<>>
      BY <1>1, SMT, SMTT(40)
    <3> QED
      BY <1>1, <3>1, <3>2 DEF OneLeader
  <2>2. ASSUME NEW v \in asleep
        PROVE  /\ wpc'[v] = "queued" /\ wres[v] = "none"
               /\ \E i \in 2..Len(q) : q[i] = v
    <3>1. v \in Writers
      BY DEF QueueInv, QueueTypes
    <3> QED
      BY <1>2, <3>1 DEF AtFront
  <2> QED
    BY <2>1, <2>2 DEF NobodySleepsForEver
<1>7. \A i, j \in 1..Len(q) : q[i] = q[j] => i = j
  BY DEF AtFront
<1> QED
  BY <1>3, <1>5, <1>6, <1>7 DEF QueueInv

\* A writer whose call begins, who is answered, or who waits as
\* TEST_CompactMemTable, is not in the queue.
LEMMA OutsideQueue ==
    ASSUME QueueInv, NEW w \in Writers, ~InQueue(w, writers_), NEW pc \in {"idle", "enter", "cmt"},
           wpc' = [wpc EXCEPT ![w] = pc], UNCHANGED <<writers_, asleep>>,
           wres' \in [Writers -> {"none", "ok", "err"}],
           \A v \in Writers : v # w => wres'[v] = wres[v],
           pc = "enter" => wres'[w] = "none",
           req' \in [Writers -> [batch : Batches \cup {NULL}, sync : BOOLEAN]]
    PROVE  QueueInv'
<1>1. /\ wpc \in [Writers -> {"idle", "enter", "queued", "cmt"} \cup Leading]
      /\ writers_ \in Seq(Writers) /\ asleep \in SUBSET Writers
  BY DEF QueueInv, QueueTypes
<1>2. wpc'[w] = pc /\ \A v \in Writers : v # w => wpc'[v] = wpc[v]
  BY <1>1
<1>3. QueueTypes'
  <2>1. wpc' \in [Writers -> {"idle", "enter", "queued", "cmt"} \cup Leading]
    BY <1>1
  <2> QED
    BY <1>1, <2>1 DEF QueueTypes, Leading
<1>4. ASSUME NEW v \in Writers
      PROVE  /\ InQueue(v, writers_) <=>
                    wpc'[v] \in Leading \/ (wpc'[v] = "queued" /\ wres'[v] = "none")
             /\ wpc'[v] \in Leading \cup {"enter"} => wres'[v] = "none"
  <2>1. CASE v = w
    BY <1>2, <2>1 DEF Leading
  <2>2. CASE v # w
    BY <1>2, <2>2 DEF QueueInv
  <2> QED
    BY <2>1, <2>2
<1>5. NobodySleepsForEver'
  <2>1. \A i \in 1..Len(writers_) : writers_[i] # w
    BY DEF InQueue
  <2>2. OneLeader'
    BY <1>2 DEF OneLeader, QueueInv, NobodySleepsForEver, Leading
  <2>3. ASSUME NEW v \in asleep
        PROVE  /\ wpc'[v] = "queued" /\ wres'[v] = "none"
               /\ \E i \in 2..Len(writers_) : writers_[i] = v
    <3>1. wpc[v] = "queued" /\ wres[v] = "none" /\ v \in Writers
      BY <1>1 DEF QueueInv, NobodySleepsForEver
    <3>2. PICK i \in 2..Len(writers_) : writers_[i] = v
      BY DEF QueueInv, NobodySleepsForEver
    <3>3. v # w
      <4>1. i \in 1..Len(writers_)
        BY <1>1, SMT, SMTT(40)
      <4> QED
        BY <2>1, <3>2, <4>1
    <3> QED
      BY <1>2, <3>1, <3>2, <3>3
  <2> QED
    BY <2>2, <2>3, SMT, SMTT(40) DEF NobodySleepsForEver
<1> QED
  BY <1>3, <1>4, <1>5, SMT, SMTT(40) DEF QueueInv

\* A writer joins the queue behind others and sleeps.
LEMMA JoinQueue ==
    ASSUME QueueInv, NEW w \in Writers, Join(w)
    PROVE  QueueInv'
<1> DEFINE q == Append(writers_, w)
<1>1. /\ wpc \in [Writers -> {"idle", "enter", "queued", "cmt"} \cup Leading]
      /\ wres \in [Writers -> {"none", "ok", "err"}]
      /\ req \in [Writers -> [batch : Batches \cup {NULL}, sync : BOOLEAN]]
      /\ writers_ \in Seq(Writers) /\ asleep \in SUBSET Writers
  BY DEF QueueInv, QueueTypes
<1>2. /\ wpc[w] = "enter" /\ Len(writers_) >= 1 /\ writers_' = q
      /\ wpc' = [wpc EXCEPT ![w] = "queued"] /\ asleep' = asleep \cup {w}
      /\ wres' = wres /\ req' = req
  BY DEF Join, RoomFrame
<1>3. /\ q \in Seq(Writers) /\ Len(q) = Len(writers_) + 1 /\ q[Len(writers_) + 1] = w
      /\ \A i \in 1..Len(writers_) : q[i] = writers_[i]
  BY <1>1, SMT, SMTT(40)
<1> HIDE DEF q
<1>4. wpc'[w] = "queued" /\ \A v \in Writers : v # w => wpc'[v] = wpc[v]
  BY <1>1, <1>2
<1>5. ~InQueue(w, writers_) /\ wres[w] = "none"
  BY <1>2 DEF QueueInv, Leading
<1>6. QueueTypes'
  <2>1. wpc' \in [Writers -> {"idle", "enter", "queued", "cmt"} \cup Leading]
    BY <1>1, <1>2
  <2>2. asleep' \in SUBSET Writers
    BY <1>1, <1>2
  <2> QED
    BY <1>1, <1>2, <1>3, <2>1, <2>2 DEF QueueTypes
<1>7. \A i, j \in 1..Len(q) : q[i] = q[j] => i = j
  <2>1. \A i \in 1..Len(writers_) : q[i] # w
    BY <1>3, <1>5 DEF InQueue
  <2>2. \A i, j \in 1..Len(writers_) : writers_[i] = writers_[j] => i = j
    BY DEF QueueInv
  <2>3. \A i \in 1..Len(q) : i \in 1..Len(writers_) \/ i = Len(writers_) + 1
    <3>1. Len(writers_) \in Nat
      BY <1>1, SMT, SMTT(40)
    <3>2. Len(q) = Len(writers_) + 1
      BY <1>3
    <3> QED
      BY <3>1, <3>2, SMT, SMTT(40)
  <2>4. ASSUME NEW i \in 1..Len(q), NEW j \in 1..Len(q), q[i] = q[j] PROVE i = j
    <3>1. CASE i \in 1..Len(writers_) /\ j \in 1..Len(writers_)
      BY <1>3, <2>2, <2>4, <3>1
    <3>2. CASE i = Len(writers_) + 1 \/ j = Len(writers_) + 1
      BY <1>3, <2>1, <2>3, <2>4, <3>2
    <3> QED
      BY <2>3, <3>1, <3>2
  <2> QED
    BY <2>4
<1>8. ASSUME NEW v \in Writers
      PROVE  /\ InQueue(v, q) <=> wpc'[v] \in Leading \/ (wpc'[v] = "queued" /\ wres[v] = "none")
             /\ wpc'[v] \in Leading \cup {"enter"} => wres[v] = "none"
  <2>1. CASE v = w
    <3>1. InQueue(w, q)
      BY <1>1, <1>3, SMT, SMTT(40) DEF InQueue
    <3> QED
      BY <1>4, <1>5, <2>1, <3>1 DEF Leading
  <2>2. CASE v # w
    <3>1. InQueue(v, q) <=> InQueue(v, writers_)
      <4>1. Len(writers_) \in Nat /\ Len(q) = Len(writers_) + 1
        BY <1>1, <1>3, SMT, SMTT(40)
      <4>2. ASSUME NEW i \in 1..Len(q), q[i] = v PROVE i \in 1..Len(writers_)
        BY <1>3, <2>2, <4>1, <4>2, SMT, SMTT(40)
      <4>3. \A i \in 1..Len(writers_) : i \in 1..Len(q)
        BY <4>1, SMT, SMTT(40)
      <4> QED
        BY <1>3, <4>2, <4>3 DEF InQueue
    <3> QED
      BY <1>4, <2>2, <3>1 DEF QueueInv
  <2> QED
    BY <2>1, <2>2
<1>9. NobodySleepsForEver'
  <2>1. OneLeader'
    <3>1. ASSUME NEW v \in Writers, wpc'[v] \in Leading PROVE q # <<>> /\ q[1] = v
      <4>1. v # w /\ wpc[v] \in Leading
        BY <1>4, <3>1 DEF Leading
      <4> QED
        BY <1>1, <1>2, <1>3, <4>1, SMT, SMTT(40) DEF QueueInv, NobodySleepsForEver, OneLeader
    <3> QED
      BY <1>2, <3>1 DEF OneLeader
  <2>2. ASSUME NEW v \in asleep'
        PROVE  /\ wpc'[v] = "queued" /\ wres[v] = "none"
               /\ \E i \in 2..Len(q) : q[i] = v
    <3>1. CASE v = w
      <4>1. Len(q) \in 2..Len(q) /\ q[Len(q)] = w
        BY <1>1, <1>2, <1>3, SMT, SMTT(40)
      <4> QED
        BY <1>4, <1>5, <3>1, <4>1
    <3>2. CASE v # w
      <4>1. v \in asleep /\ v \in Writers
        BY <1>1, <1>2, <3>2
      <4>2. wpc[v] = "queued" /\ wres[v] = "none"
        BY <4>1 DEF QueueInv, NobodySleepsForEver
      <4>3. PICK i \in 2..Len(writers_) : writers_[i] = v
        BY <4>1 DEF QueueInv, NobodySleepsForEver
      <4>4. i \in 2..Len(q) /\ q[i] = v
        BY <1>1, <1>3, <4>3, SMT, SMTT(40)
      <4> QED
        BY <1>4, <3>2, <4>1, <4>2, <4>4
    <3> QED
      BY <3>1, <3>2
  <2> QED
    BY <1>2, <2>1, <2>2 DEF NobodySleepsForEver
<1> QED
  BY <1>2, <1>6, <1>7, <1>8, <1>9 DEF QueueInv

\* A step that only wakes writers, or lets them sleep.
LEMMA SamePlaces ==
    ASSUME QueueInv, UNCHANGED <<writers_, wpc, wres>>, QueueTypes', NobodySleepsForEver'
    PROVE  QueueInv'
<1>1. /\ \A i, j \in 1..Len(writers_) : writers_[i] = writers_[j] => i = j
      /\ \A w \in Writers :
            InQueue(w, writers_) <=> wpc[w] \in Leading \/ (wpc[w] = "queued" /\ wres[w] = "none")
      /\ \A w \in Writers : wpc[w] \in Leading \cup {"enter"} => wres[w] = "none"
  BY DEF QueueInv
<1>2. \A w : InQueue(w, writers_)' <=> InQueue(w, writers_)
  BY DEF InQueue
<1> QED
  BY <1>1, <1>2 DEF QueueInv

\* A writer that is neither answered nor at the front sleeps again.
LEMMA SleepQueue ==
    ASSUME QueueInv, NEW w \in Writers, SleepAgain(w)
    PROVE  QueueInv'
<1>1. /\ wpc[w] = "queued" /\ wres[w] = "none" /\ writers_[1] # w
      /\ asleep' = asleep \cup {w} /\ UNCHANGED <<writers_, wpc, wres, req>>
  BY DEF SleepAgain, RoomFrame
<1>2. InQueue(w, writers_) /\ writers_ \in Seq(Writers)
  BY <1>1 DEF QueueInv, QueueTypes
<1>3. \E i \in 2..Len(writers_) : writers_[i] = w
  <2>1. PICK i \in 1..Len(writers_) : writers_[i] = w
    BY <1>2 DEF InQueue
  <2>2. i # 1
    BY <1>1, <2>1
  <2>3. i \in 2..Len(writers_)
    <3>1. Len(writers_) \in Nat
      BY <1>2, SMT, SMTT(40)
    <3> QED
      BY <2>2, <3>1, SMT, SMTT(40)
  <2> QED
    BY <2>1, <2>3
<1>4. NobodySleepsForEver'
  BY <1>1, <1>3 DEF QueueInv, NobodySleepsForEver, OneLeader
<1>5. QueueTypes'
  BY <1>1 DEF QueueInv, QueueTypes
<1> QED
  BY <1>1, <1>4, <1>5, SamePlaces

\* Every step keeps the queue in order.
LEMMA QueueNext ==
    ASSUME QueueInv, OpenInv, GroupInv, [WriteNext]_vars
    PROVE  QueueInv'
<1>1. ASSUME UNCHANGED <<queueVars, req>> PROVE QueueInv'
  BY <1>1, SMT, SMTT(40) DEF queueVars, QueueInv, QueueTypes, InQueue, NobodySleepsForEver, OneLeader
<1>2. ASSUME NEW w \in Writers, Call(w) PROVE QueueInv'
  <2>1. wpc[w] = "idle" /\ ~InQueue(w, writers_)
    BY <1>2 DEF Call, QueueInv, Leading
  <2>2. /\ wpc' = [wpc EXCEPT ![w] = "enter"] /\ wres' = [wres EXCEPT ![w] = "none"]
        /\ UNCHANGED <<writers_, asleep>>
    BY <1>2 DEF Call
  <2>3. req' \in [Writers -> [batch : Batches \cup {NULL}, sync : BOOLEAN]]
    <3>1. PICK x \in [batch : Batches \cup {NULL}, sync : BOOLEAN] : req' = [req EXCEPT ![w] = x]
      BY <1>2, WritePathAssumption DEF Call
    <3>2. req \in [Writers -> [batch : Batches \cup {NULL}, sync : BOOLEAN]]
      BY DEF QueueInv, QueueTypes
    <3> QED
      BY <3>1, <3>2
  <2>4. /\ wres' \in [Writers -> {"none", "ok", "err"}] /\ wres'[w] = "none"
        /\ \A v \in Writers : v # w => wres'[v] = wres[v]
    BY <2>2 DEF QueueInv, QueueTypes
  <2> QED
    BY <2>1, <2>2, <2>3, <2>4, OutsideQueue
<1>3. ASSUME NEW w \in Writers, NEW q, Room(w, q) PROVE QueueInv'
  <2>1. AtFront(w, q) /\ req' = req
    BY <1>3 DEF Room, RoomFrame
  <2>2. 1 \in 1..Len(q)
    <3>1. q \in Seq(Writers) /\ Len(q) >= 1
      BY <2>1 DEF AtFront
    <3> QED
      BY <3>1, SMT, SMTT(40)
  <2>3. CASE Complete(w, q, 1, "err") \/ Complete(w, q, 1, "ok")
    BY <2>1, <2>2, <2>3, CompleteQueue
  <2>4. CASE \E pc \in {"delay", "room"} : Stay(w, q, pc)
    BY <2>1, <2>4, LeaderStays DEF Stay, Leading
  <2>5. CASE req[w].batch # NULL /\ Lead(w, q)
    <3>1. writers_' = q /\ wpc' = [wpc EXCEPT ![w] = "log"] /\ UNCHANGED <<wres, asleep>>
      BY <2>5 DEF Lead
    <3> QED
      BY <2>1, <3>1, LeaderStays DEF Leading
  <2> QED
    BY <1>3, <2>3, <2>4, <2>5 DEF Room, RoomQueue
<1>4. ASSUME NEW w \in Writers, Answered(w) PROVE QueueInv'
  <2>1. /\ wpc[w] = "queued" /\ wres[w] # "none" /\ wres' = wres /\ req' = req
        /\ wpc' = [wpc EXCEPT ![w] = Returned(w, wres[w])] /\ UNCHANGED <<writers_, asleep>>
    BY <1>4 DEF Answered, RoomFrame
  <2>2. ~InQueue(w, writers_) /\ QueueTypes
    BY <2>1 DEF QueueInv, Leading
  <2>3. Returned(w, wres[w]) \in {"idle", "cmt"}
    BY DEF Returned
  <2> QED
    BY <2>1, <2>2, <2>3, OutsideQueue DEF QueueTypes
<1>5. ASSUME NEW w \in Writers, AddRecord(w) \/ Sync(w) \/ InsertInto(w) PROVE QueueInv'
  <2>1. wpc[w] \in Leading
    BY <1>5 DEF AddRecord, Sync, InsertInto, Leading
  <2>2. AtFront(w, writers_)
    BY <2>1, FrontOfQueue
  <2>3. UNCHANGED <<writers_, wres, asleep, req>>
    BY <1>5 DEF AddRecord, Sync, InsertInto
  <2>4. PICK pc \in Leading : wpc' = [wpc EXCEPT ![w] = pc] \/ wpc' = wpc
    BY <1>5 DEF AddRecord, Sync, InsertInto, Leading
  <2>5. CASE wpc' = wpc
    BY <1>1, <2>3, <2>5 DEF queueVars
  <2>6. CASE wpc' = [wpc EXCEPT ![w] = pc]
    BY <2>2, <2>3, <2>6, LeaderStays
  <2> QED
    BY <2>4, <2>5, <2>6
<1>6. ASSUME NEW w \in Writers, Publish(w) PROVE QueueInv'
  <2>1. wpc[w] = "publish" /\ UNCHANGED req
    BY <1>6 DEF Publish
  <2>2. group.n \in 1..Len(writers_)
    BY <2>1 DEF GroupInv, LeaderInv, Grouped
  <2>3. AtFront(w, writers_)
    BY <2>1, FrontOfQueue DEF Leading
  <2>4. PICK st \in {"ok", "err"} : Complete(w, writers_, group.n, st)
    BY <1>6 DEF Publish
  <2> QED
    BY <2>1, <2>2, <2>3, <2>4, CompleteQueue
<1>7. ASSUME NEW w \in Writers, CompactMemTableWait(w) PROVE QueueInv'
  <2>1. wpc[w] = "cmt" /\ UNCHANGED <<writers_, wres, asleep, req>>
    BY <1>7 DEF CompactMemTableWait
  <2>2. wpc' = wpc \/ wpc' = [wpc EXCEPT ![w] = "idle"]
    BY <1>7 DEF CompactMemTableWait
  <2>3. ~InQueue(w, writers_) /\ QueueTypes
    BY <2>1 DEF QueueInv, Leading
  <2>4. CASE wpc' = wpc
    BY <1>1, <2>1, <2>4 DEF queueVars
  <2>5. CASE wpc' = [wpc EXCEPT ![w] = "idle"]
    BY <2>1, <2>3, <2>5, OutsideQueue DEF QueueTypes
  <2> QED
    BY <2>2, <2>4, <2>5
<1>8. CASE SpuriousWriterWakeup
  <2>1. asleep' \subseteq asleep /\ UNCHANGED <<writers_, wpc, wres, req>>
    BY <1>8 DEF SpuriousWriterWakeup
  <2>2. NobodySleepsForEver'
    BY <2>1 DEF QueueInv, NobodySleepsForEver, OneLeader
  <2>3. QueueTypes'
    BY <2>1 DEF QueueInv, QueueTypes
  <2> QED
    BY <2>1, <2>2, <2>3, SamePlaces
<1>9. CASE BackgroundStep
  BY <1>1, <1>9 DEF BackgroundStep
<1>10. ASSUME NEW r \in Readers, GetBegin(r) \/ GetLookup(r) \/ GetEnd(r) PROVE QueueInv'
  BY <1>1, <1>10 DEF GetBegin, GetLookup, Lookup, GetEnd
<1>11. CASE UNCHANGED writeVars
  BY <1>1, <1>11 DEF writeVars, queueVars
<1>12. ASSUME NEW w \in Writers, Write(w) PROVE QueueInv'
  BY <1>3, <1>4, <1>5, <1>6, <1>7, <1>12, JoinQueue, SleepQueue, QueueSteps DEF Write
<1> QED
  BY <1>2, <1>8, <1>9, <1>10, <1>11, <1>12 DEF WriteNext, CloseDB, Idle, vars
-----------------------------------------------------------------------------
(***************************************************************************)
(* Calls and the database, the group                                       *)
(***************************************************************************)
\* The critical sections of the background thread leave ~DBImpl and mem_ alone.
LEMMA BackgroundFrame ==
    ASSUME BackgroundStep
    PROVE  /\ UNCHANGED <<queueVars, req, group, last_sequence, tables, log, synced, torn, get, promised>>
           /\ UNCHANGED <<mem_, closer, shutting_down_>>
<1>1. UNCHANGED <<queueVars, req, group, last_sequence, tables, log, synced, torn, get, promised>>
  BY DEF BackgroundStep
<1>2. BackgroundThread
  BY DEF BackgroundStep, BuildTable, CommitFlush, OtherBackground, BackgroundThread
<1>3. UNCHANGED <<mem_, closer, shutting_down_>>
  BY <1>2 DEF BackgroundThread, BackgroundSkip, StartFlush, StartManualEmpty, StartManual, StartAuto,
     NestedFlush, BuildTableDone, FlushFailed, FlushApplied, FlushCollected, CompactionMerged,
     CompactionFailed, CompactionInstalled, CompactionCollected, EndCompaction, memVars
<1> QED
  BY <1>1, <1>3

\* No call is in progress when the database is being deleted.
LEMMA OpenNext ==
    ASSUME QueueInv, OpenInv, [WriteNext]_vars
    PROVE  OpenInv'
<1>1. ASSUME closer' = "open" PROVE OpenInv'
  BY <1>1 DEF OpenInv
<1>2. ASSUME NEW w \in Writers, Call(w) PROVE OpenInv'
  BY <1>1, <1>2 DEF Call, bgVars
<1>3. ASSUME NEW w \in Writers, Write(w) PROVE OpenInv'
  <2>1. wpc[w] # "idle"
    BY <1>3 DEF Write, Enter, Wake, RoomAgain, AddRecord, Sync, InsertInto, Publish, CompactMemTableWait
  <2>2. closer = "open"
    BY <2>1 DEF OpenInv
  <2>3. ASSUME Enter(w) \/ Wake(w) \/ RoomAgain(w) PROVE closer' = closer
    <3>1. ASSUME NEW q, Room(w, q) PROVE closer' = closer
      BY <3>1 DEF Room, RoomBackground, WriterWaits, FillMemTable, bgVars
    <3>2. Join(w) \/ SleepAgain(w) \/ Answered(w) => closer' = closer
      BY DEF Join, SleepAgain, Answered, bgVars
    <3> QED
      BY <2>3, <3>1, <3>2, QueueSteps
  <2>4. ASSUME AddRecord(w) \/ Sync(w) \/ InsertInto(w) \/ Publish(w) \/ CompactMemTableWait(w)
        PROVE  closer' = closer
    BY <2>4 DEF AddRecord, Sync, InsertInto, Publish, CompactMemTableWait, bgVars
  <2> QED
    BY <1>1, <1>3, <2>2, <2>3, <2>4 DEF Write
<1>4. ASSUME NEW r \in Readers, GetBegin(r) \/ GetLookup(r) \/ GetEnd(r) PROVE OpenInv'
  <2>1. closer = "open"
    <3>1. GetBegin(r) => closer = "open"
      BY DEF GetBegin
    <3>2. GetLookup(r) \/ GetEnd(r) => get[r].pc # "none"
      BY DEF GetLookup, GetEnd
    <3>3. NoGet.pc = "none"
      BY DEF NoGet
    <3> QED
      BY <1>4, <3>1, <3>2, <3>3 DEF OpenInv
  <2>2. closer' = closer
    BY <1>4 DEF GetBegin, GetLookup, Lookup, GetEnd, UpdateStats, bgVars
  <2> QED
    BY <1>1, <2>1, <2>2
<1>5. ASSUME UNCHANGED <<wpc, get, closer>> PROVE OpenInv'
  BY <1>5 DEF OpenInv
<1>6. CASE BackgroundStep
  BY <1>5, <1>6, BackgroundFrame DEF queueVars
<1>7. CASE UNCHANGED writeVars /\ UNCHANGED closer
  BY <1>5, <1>7 DEF writeVars
<1>8. ASSUME NEW c \in Compactors, CompactRange(c) PROVE closer' = closer
  BY <1>8 DEF CompactRange, CompactRangeCall, CompactRangeWait, CompactRangeReturn
<1>9. SpuriousWakeup => closer' = closer
  BY DEF SpuriousWakeup
<1>10. CASE SpuriousWriterWakeup
  BY <1>5, <1>10 DEF SpuriousWriterWakeup, bgVars, dataVars
<1>11. CASE CloseDB
  <2>1. \A w \in Writers : wpc[w] = "idle"
    BY <1>11 DEF CloseDB, CloseWake, OpenInv
  <2>2. (\A r \in Readers : get[r] = NoGet) /\ UNCHANGED <<wpc, get>>
    BY <1>11 DEF CloseDB, writeVars
  <2> QED
    BY <2>1, <2>2 DEF OpenInv
<1>12. Idle \/ UNCHANGED vars => UNCHANGED writeVars /\ UNCHANGED closer
  BY DEF Idle, vars, bgVars
<1> QED
  BY <1>2, <1>3, <1>4, <1>6, <1>7, <1>8, <1>9, <1>10, <1>11, <1>12 DEF WriteNext

\* The batch of a group is what its requests and writers say.
LEMMA KeysInGroup ==
    ASSUME NEW q, NEW n
    PROVE  GroupKeys(q, n) = KeysIn(req, q, n)
<1> QED
  BY DEF GroupKeys, KeysOf, KeysIn

\* Only the first n writers of the queue and their requests matter to it.
LEMMA KeysInSame ==
    ASSUME NEW n \in Nat, NEW q, NEW r, NEW p, NEW s,
           \A i \in 1..n : r[q[i]] = s[p[i]]
    PROVE  KeysIn(r, q, n) = KeysIn(s, p, n)
<1> DEFINE A(f) == [i \in 0..n |->
               IF i = 0 THEN <<>>
               ELSE f[i - 1] \o (IF r[q[i]].batch = NULL THEN <<>> ELSE r[q[i]].batch)]
           B(f) == [i \in 0..n |->
               IF i = 0 THEN <<>>
               ELSE f[i - 1] \o (IF s[p[i]].batch = NULL THEN <<>> ELSE s[p[i]].batch)]
<1>1. ASSUME NEW f PROVE A(f) = B(f)
  <2>1. \A i \in 0..n : i # 0 => r[q[i]] = s[p[i]]
    BY SMT, SMTT(40)
  <2> QED
    BY <2>1
<1>2. KeysIn(r, q, n) = (CHOOSE f : f = A(f))[n] /\ KeysIn(s, p, n) = (CHOOSE f : f = B(f))[n]
  BY DEF KeysIn
<1> HIDE DEF A, B
<1>3. (CHOOSE f : f = A(f)) = (CHOOSE f : f = B(f))
  BY <1>1
<1> QED
  BY <1>2, <1>3

\* A leader knows its group as long as nobody else touches it.
LEMMA LeaderSame ==
    ASSUME NEW w \in Writers, LeaderInv(w), writers_ \in Seq(Writers),
           UNCHANGED <<group, last_sequence, mem_>>, wpc'[w] = wpc[w], req'[w] = req[w],
           Len(writers_') \in Nat, Len(writers_) <= Len(writers_'),
           \A i \in 1..Len(writers_) : /\ writers_'[i] = writers_[i]
                                       /\ req'[writers_[i]] = req[writers_[i]]
    PROVE  LeaderInv(w)'
<1>1. group.n \in 1..Len(writers_) /\ Len(writers_) \in Nat
  <2>1. Len(writers_) \in Nat
    BY SMT, SMTT(40)
  <2> QED
    BY <2>1 DEF LeaderInv
<1>2. \A i \in 1..group.n : /\ writers_'[i] = writers_[i]
                            /\ req[writers_[i]] = req'[writers_'[i]]
  BY <1>1, SMT, SMTT(40)
<1>3. KeysIn(req, writers_, group.n) = KeysIn(req', writers_', group.n)
  <2>1. group.n \in Nat
    BY <1>1, SMT, SMTT(40)
  <2>2. \A i \in 1..group.n : req[writers_[i]] = req'[writers_'[i]]
    BY <1>2
  <2> QED
    BY <2>1, <2>2, KeysInSame, SMT, SMTT(40)
<1>4. group'.keys = KeysIn(req', writers_', group'.n)
  BY <1>3 DEF LeaderInv
<1>5. group'.n \in 1..Len(writers_')
  BY <1>1, SMT, SMTT(40)
<1>6. \A i \in 1..group'.n : req'[writers_'[i]].sync => req'[w].sync
  BY <1>2 DEF LeaderInv
<1> QED
  BY <1>4, <1>5, <1>6 DEF LeaderInv

\* A leader that moves on within its group.
LEMMA LeaderMoves ==
    ASSUME QueueInv, GroupInv, NEW w \in Writers, wpc[w] \in Grouped,
           UNCHANGED <<writers_, req, last_sequence, mem_>>,
           NEW pc \in Grouped, wpc' = [wpc EXCEPT ![w] = pc], GroupTypes',
           group'.n = group.n, group'.keys = group.keys, group'.first = group.first,
           group'.done <= Len(group'.keys),
           pc \in {"log", "sync"} => group'.done = 0,
           pc \in {"log", "sync", "insert"} => group'.status = "ok",
           pc # "log" /\ group'.status = "ok" => group'.mem = mem_,
           pc = "publish" /\ group'.status = "ok" => group'.done = Len(group'.keys),
           group'.status # "ok" => group'.done = 0 /\ LogFails
    PROVE  GroupInv'
<1>1. AtFront(w, writers_)
  BY FrontOfQueue DEF Leading, Grouped
<1>2. wpc'[w] = pc /\ \A v \in Writers : v # w => wpc'[v] = wpc[v]
  BY DEF QueueInv, QueueTypes
<1>3. ASSUME NEW v \in Writers, v # w PROVE wpc'[v] \notin Grouped
  BY <1>1, <1>2, <1>3, SMT, SMTT(40) DEF AtFront, Leading, Grouped
<1>4. LeaderInv(w)
  BY DEF GroupInv
<1>5. LeaderInv(w)'
  BY <1>2, <1>4 DEF LeaderInv
<1>6. last_sequence \in Nat
  BY DEF GroupInv
<1> QED
  BY <1>2, <1>3, <1>5, <1>6 DEF GroupInv

\* Nobody writes a group.
LEMMA NoLeader ==
    ASSUME NEW w \in Writers, NEW q, AtFront(w, q), GroupInv, wpc[w] \notin Grouped
    PROVE  group = NoGroup
<1>1. \A v \in Writers : wpc[v] \notin Grouped
  BY DEF AtFront, Leading, Grouped
<1> QED
  BY <1>1 DEF GroupInv

\* Building a group, or ending without one.
LEMMA RoomGroup ==
    ASSUME DataFacts, QueueInv, GroupInv, NEW w \in Writers, NEW q, Room(w, q)
    PROVE  GroupInv'
<1>1. AtFront(w, q) /\ wpc[w] \notin Grouped /\ RoomQueue(w, q) /\ UNCHANGED <<req, last_sequence>>
  BY DEF Room, RoomFrame
<1>2. group = NoGroup /\ last_sequence \in Nat /\ GroupTypes
  BY <1>1, NoLeader DEF GroupInv
<1>3. /\ wpc \in [Writers -> {"idle", "enter", "queued", "cmt"} \cup Leading]
      /\ q \in Seq(Writers) /\ Len(q) >= 1 /\ q[1] = w /\ QueueTypes
  BY <1>1 DEF QueueInv, QueueTypes, AtFront
<1>4. \A v \in Writers : v # w => wpc[v] \notin Grouped
  BY <1>1 DEF AtFront, Leading, Grouped
<1>5. ASSUME UNCHANGED group, NEW pc, pc \notin Grouped, wpc' = [wpc EXCEPT ![w] = pc]
      PROVE  GroupInv'
  <2>1. \A v \in Writers : wpc'[v] \notin Grouped
    BY <1>3, <1>4, <1>5
  <2> QED
    BY <1>1, <1>2, <1>5, <2>1 DEF GroupInv, GroupTypes
<1>6. CASE UNCHANGED group /\ (Complete(w, q, 1, "err") \/ Complete(w, q, 1, "ok"))
  BY <1>5, <1>6 DEF Complete, Returned, Grouped
<1>7. CASE \E pc \in {"delay", "room"} : Stay(w, q, pc)
  BY <1>5, <1>7 DEF Stay, Grouped
<1>8. CASE req[w].batch # NULL /\ Lead(w, q)
  <2> DEFINE n == BuildBatchGroup(q)
  <2>1. n \in 1..Len(q) /\ \A i \in 1..n : req[q[i]].sync => req[q[1]].sync
    BY <1>3, BuildBatchGroupPrefix
  <2>2. /\ group' = [n |-> n, keys |-> GroupKeys(q, n), first |-> last_sequence + 1,
                     mem |-> NULL, done |-> 0, status |-> "ok"]
        /\ writers_' = q /\ wpc' = [wpc EXCEPT ![w] = "log"]
    BY <1>8 DEF Lead
  <2> HIDE DEF n
  <2>3. GroupKeys(q, n) \in Seq(Keys)
    <3>a. Len(q) \in Nat
      BY <1>3, SMT, SMTT(40)
    <3>1. n \in 1..Len(q) /\ Len(q) \in Nat
      BY <2>1, <3>a
    <3>2. n \in 0..Len(q)
      BY <3>1, SMT, SMTT(40)
    <3> QED
      BY <1>3, <3>2, GroupKeysType
  <2>4. GroupTypes'
    BY <1>2, <1>3, <2>1, <2>2, <2>3, SMT, SMTT(40) DEF GroupTypes
  <2>5. group'.keys = KeysIn(req', writers_', group'.n)
    <3>1. group'.n = n /\ group'.keys = GroupKeys(q, n)
      BY <2>2
    <3> QED
      BY <1>1, <2>2, <3>1, KeysInGroup
  <2>6. wpc'[w] = "log" /\ \A v \in Writers : v # w => wpc'[v] \notin Grouped
    BY <1>3, <1>4, <2>2
  <2>7. Len(GroupKeys(q, n)) \in Nat
    BY <2>3, SMT, SMTT(40)
  <2>8. LeaderInv(w)'
    <3>1. group'.n \in 1..Len(writers_')
      BY <2>1, <2>2
    <3>2. \A i \in 1..group'.n : req'[writers_'[i]].sync => req'[w].sync
      BY <1>1, <1>3, <2>1, <2>2
    <3>3. req'[w].batch # NULL /\ group'.first = last_sequence' + 1
      BY <1>1, <1>8, <2>2
    <3>4. /\ group'.done = 0 /\ group'.status = "ok"
          /\ group'.done <= Len(group'.keys)
      BY <2>2, <2>7, SMT, SMTT(40)
    <3> QED
      BY <2>5, <2>6, <3>1, <3>2, <3>3, <3>4 DEF LeaderInv
  <2> QED
    BY <1>1, <1>2, <2>4, <2>6, <2>8 DEF GroupInv, Grouped
<1> QED
  BY <1>1, <1>6, <1>7, <1>8 DEF RoomQueue

\* A record added to the log, or not.
LEMMA AddRecordGroup ==
    ASSUME IInv, QueueInv, GroupInv, NEW w \in Writers, AddRecord(w)
    PROVE  GroupInv'
<1>1. /\ wpc[w] = "log" /\ UNCHANGED <<writers_, req, last_sequence, mem_>>
      /\ GroupTypes /\ group.done = 0 /\ group.status = "ok" /\ group.done <= Len(group.keys)
  BY DEF AddRecord, bgVars, GroupInv, LeaderInv, Grouped
<1>2. mem_ \in Tables
  BY DEF IInv, TypeOK, VersionTypes
<1>3. ASSUME group' = [group EXCEPT !.mem = mem_], NEW pc \in {"sync", "insert"},
             wpc' = [wpc EXCEPT ![w] = pc]
      PROVE  GroupInv'
  <2>1. /\ GroupTypes' /\ group'.n = group.n /\ group'.keys = group.keys
        /\ group'.first = group.first /\ group'.done = group.done
        /\ group'.status = "ok" /\ group'.mem = mem_
    BY <1>1, <1>2, <1>3 DEF GroupTypes
  <2> QED
    BY <1>1, <1>3, <2>1, LeaderMoves DEF Grouped
<1>4. ASSUME LogFails, group' = [group EXCEPT !.status = "err"], wpc' = [wpc EXCEPT ![w] = "publish"]
      PROVE  GroupInv'
  <2>1. /\ GroupTypes' /\ group'.n = group.n /\ group'.keys = group.keys
        /\ group'.first = group.first /\ group'.done = group.done
        /\ group'.status = "err"
    BY <1>1, <1>4 DEF GroupTypes
  <2> QED
    BY <1>1, <1>4, <2>1, LeaderMoves DEF Grouped
<1> QED
  BY <1>3, <1>4 DEF AddRecord

\* The log synced, or not.
LEMMA SyncGroup ==
    ASSUME IInv, QueueInv, GroupInv, NEW w \in Writers, Sync(w)
    PROVE  GroupInv'
<1>1. /\ wpc[w] = "sync" /\ UNCHANGED <<writers_, req, last_sequence, mem_>>
      /\ GroupTypes /\ group.done = 0 /\ group.status = "ok" /\ group.done <= Len(group.keys)
  BY DEF Sync, bgVars, GroupInv, LeaderInv, Grouped
<1>2. mem_ \in Tables
  BY DEF IInv, TypeOK, VersionTypes
<1>3. ASSUME group' = [group EXCEPT !.mem = mem_], wpc' = [wpc EXCEPT ![w] = "insert"]
      PROVE  GroupInv'
  <2>1. /\ GroupTypes' /\ group'.n = group.n /\ group'.keys = group.keys
        /\ group'.first = group.first /\ group'.done = group.done
        /\ group'.status = "ok" /\ group'.mem = mem_
    BY <1>1, <1>2, <1>3 DEF GroupTypes
  <2> QED
    BY <1>1, <1>3, <2>1, LeaderMoves DEF Grouped
<1>4. ASSUME LogFails, group' = [group EXCEPT !.status = "sync_error"],
             wpc' = [wpc EXCEPT ![w] = "publish"]
      PROVE  GroupInv'
  <2>1. /\ GroupTypes' /\ group'.n = group.n /\ group'.keys = group.keys
        /\ group'.first = group.first /\ group'.done = group.done
        /\ group'.status = "sync_error"
    BY <1>1, <1>4 DEF GroupTypes
  <2> QED
    BY <1>1, <1>4, <2>1, LeaderMoves DEF Grouped
<1> QED
  BY <1>3, <1>4 DEF Sync

\* One more update of the group in the memtable, or all of them.
LEMMA InsertGroup ==
    ASSUME IInv, QueueInv, GroupInv, NEW w \in Writers, InsertInto(w)
    PROVE  GroupInv'
<1>1. /\ wpc[w] = "insert" /\ UNCHANGED <<writers_, req, last_sequence, mem_>>
      /\ GroupTypes /\ group.status = "ok" /\ group.done <= Len(group.keys) /\ group.mem = mem_
  BY DEF InsertInto, bgVars, GroupInv, LeaderInv, Grouped
<1>2. group.done \in Nat /\ Len(group.keys) \in Nat
  BY <1>1, SMT, SMTT(40) DEF GroupTypes
<1>3. CASE group.done < Len(group.keys)
  <2>1. group' = [group EXCEPT !.done = group.done + 1] /\ wpc' = wpc
    BY <1>3 DEF InsertInto
  <2>2. /\ GroupTypes' /\ group'.n = group.n /\ group'.keys = group.keys
        /\ group'.first = group.first /\ group'.done = group.done + 1
        /\ group'.status = "ok" /\ group'.mem = mem_
    BY <1>1, <1>2, <2>1, SMT, SMTT(40) DEF GroupTypes
  <2>3. wpc' = [wpc EXCEPT ![w] = "insert"]
    BY <1>1, <2>1 DEF QueueInv, QueueTypes
  <2>4. group'.done <= Len(group'.keys)
    BY <1>2, <1>3, <2>2, SMT, SMTT(40)
  <2> QED
    BY <1>1, <2>2, <2>3, <2>4, LeaderMoves DEF Grouped
<1>4. CASE ~(group.done < Len(group.keys))
  <2>1. group' = group /\ wpc' = [wpc EXCEPT ![w] = "publish"]
    BY <1>4 DEF InsertInto
  <2>2. GroupTypes' /\ group'.done = Len(group'.keys)
    BY <1>1, <1>2, <1>4, <2>1, SMT, SMTT(40) DEF GroupTypes
  <2> QED
    BY <1>1, <2>1, <2>2, LeaderMoves DEF Grouped
<1> QED
  BY <1>3, <1>4

\* Every step keeps what the leader knows of its group.
LEMMA GroupNext ==
    ASSUME DataFacts, IInv, QueueInv, OpenInv, GroupInv, [WriteNext]_vars
    PROVE  GroupInv'
<1>1. ASSUME UNCHANGED <<writers_, wpc, req, group, last_sequence, mem_>> PROVE GroupInv'
  <2>1. UNCHANGED KeysIn(req, writers_, group.n)
    BY <1>1
  <2> QED
    BY <1>1, <2>1 DEF GroupInv, GroupTypes, LeaderInv
<1>2. /\ writers_ \in Seq(Writers) /\ GroupTypes /\ last_sequence \in Nat
      /\ wpc \in [Writers -> {"idle", "enter", "queued", "cmt"} \cup Leading]
      /\ req \in [Writers -> [batch : Batches \cup {NULL}, sync : BOOLEAN]]
  BY DEF QueueInv, QueueTypes, GroupInv
<1>3. ASSUME NEW w \in Writers, wpc[w] \notin Grouped, NEW pc \in {"enter", "queued", "idle", "cmt"},
             wpc' = [wpc EXCEPT ![w] = pc], UNCHANGED <<group, last_sequence, mem_>>,
             \A v \in Writers : v # w => req'[v] = req[v],
             \/ /\ writers_' = writers_
                /\ UNCHANGED req \/ ~InQueue(w, writers_)
             \/ /\ writers_' = Append(writers_, w)
                /\ UNCHANGED req
      PROVE  GroupInv'
  <2>1. wpc'[w] = pc /\ \A v \in Writers : v # w => wpc'[v] = wpc[v]
    BY <1>2, <1>3
  <2>2. ASSUME NEW v \in Writers, wpc'[v] \in Grouped PROVE LeaderInv(v)'
    <3>1. v # w /\ wpc'[v] = wpc[v] /\ LeaderInv(v) /\ req'[v] = req[v]
      BY <1>3, <2>1, <2>2 DEF GroupInv, Grouped
    <3>2. /\ Len(writers_') \in Nat /\ Len(writers_) <= Len(writers_')
          /\ \A i \in 1..Len(writers_) : writers_'[i] = writers_[i]
      <4>1. CASE writers_' = writers_
        BY <1>2, <4>1, SMT, SMTT(40)
      <4>2. CASE writers_' = Append(writers_, w)
        BY <1>2, <4>2, SMT, SMTT(40)
      <4> QED
        BY <1>3, <4>1, <4>2
    <3>3. ASSUME NEW i \in 1..Len(writers_) PROVE req'[writers_[i]] = req[writers_[i]]
      <4>1. writers_[i] \in Writers
        BY <1>2, SMT, SMTT(40)
      <4> QED
        BY <1>3, <4>1 DEF InQueue
    <3> QED
      BY <1>2, <1>3, <3>1, <3>2, <3>3, LeaderSame
  <2>3. (\A v \in Writers : wpc'[v] \notin Grouped) => \A v \in Writers : wpc[v] \notin Grouped
    BY <1>3, <2>1
  <2> QED
    BY <1>2, <1>3, <2>2, <2>3 DEF GroupInv, GroupTypes
<1>4. ASSUME NEW w \in Writers, Call(w) PROVE GroupInv'
  <2>1. wpc[w] = "idle" /\ ~InQueue(w, writers_)
    BY <1>4 DEF Call, QueueInv, Leading
  <2>2. /\ wpc' = [wpc EXCEPT ![w] = "enter"] /\ UNCHANGED <<writers_, group, last_sequence, mem_>>
    BY <1>4 DEF Call, bgVars, dataVars
  <2>3. \A v \in Writers : v # w => req'[v] = req[v]
    BY <1>2, <1>4 DEF Call
  <2> QED
    BY <1>3, <2>1, <2>2, <2>3 DEF Grouped
<1>5. ASSUME NEW w \in Writers, Join(w) PROVE GroupInv'
  <2>1. /\ wpc[w] = "enter" /\ wpc' = [wpc EXCEPT ![w] = "queued"]
        /\ writers_' = Append(writers_, w) /\ UNCHANGED <<req, group, last_sequence, mem_>>
    BY <1>5 DEF Join, RoomFrame, bgVars
  <2> QED
    BY <1>3, <2>1 DEF Grouped
<1>6. ASSUME NEW w \in Writers, SleepAgain(w) PROVE GroupInv'
  BY <1>1, <1>6 DEF SleepAgain, RoomFrame, bgVars
<1>7. ASSUME NEW w \in Writers, Answered(w) PROVE GroupInv'
  <2>1. /\ wpc[w] = "queued" /\ wpc' = [wpc EXCEPT ![w] = Returned(w, wres[w])]
        /\ UNCHANGED <<writers_, req, group, last_sequence, mem_>>
    BY <1>7 DEF Answered, RoomFrame, bgVars
  <2>2. Returned(w, wres[w]) \in {"idle", "cmt"}
    BY DEF Returned
  <2> QED
    BY <1>3, <2>1, <2>2 DEF Grouped
<1>8. ASSUME NEW w \in Writers, Publish(w) PROVE GroupInv'
  <2>1. wpc[w] = "publish" /\ group' = NoGroup /\ last_sequence' = last_sequence + Len(group.keys)
    BY <1>8 DEF Publish
  <2>2. AtFront(w, writers_)
    BY <2>1, FrontOfQueue DEF Leading
  <2>3. wpc' \in {[wpc EXCEPT ![w] = "idle"], [wpc EXCEPT ![w] = "cmt"]}
    BY <1>8 DEF Publish, Complete, Returned
  <2>4. ASSUME NEW v \in Writers PROVE wpc'[v] \notin Grouped
    <3>1. v # w => wpc[v] \notin Grouped
      BY <2>2 DEF AtFront, Leading, Grouped
    <3> QED
      BY <1>2, <2>3, <3>1 DEF Grouped
  <2>5. GroupTypes'
    BY <2>1, SMT, SMTT(40) DEF GroupTypes, NoGroup
  <2>6. last_sequence' \in Nat
    BY <1>2, <2>1, SMT, SMTT(40) DEF GroupTypes
  <2> QED
    BY <2>1, <2>4, <2>5, <2>6 DEF GroupInv
<1>9. ASSUME NEW w \in Writers, CompactMemTableWait(w) PROVE GroupInv'
  <2>1. wpc[w] = "cmt" /\ UNCHANGED <<writers_, req, group, last_sequence, mem_>>
    BY <1>9 DEF CompactMemTableWait, memVars, dataVars
  <2>2. wpc' = wpc \/ wpc' = [wpc EXCEPT ![w] = "idle"]
    BY <1>9 DEF CompactMemTableWait
  <2> QED
    BY <1>1, <1>3, <2>1, <2>2 DEF Grouped
<1>10. ASSUME NEW w \in Writers, Write(w) PROVE GroupInv'
  BY <1>5, <1>6, <1>7, <1>8, <1>9, <1>10, QueueSteps, RoomGroup, AddRecordGroup, SyncGroup,
     InsertGroup DEF Write
<1>11. CASE SpuriousWriterWakeup
  BY <1>1, <1>11 DEF SpuriousWriterWakeup, bgVars, dataVars
<1>12. CASE BackgroundStep
  BY <1>1, <1>12, BackgroundFrame DEF queueVars
<1>13. ASSUME NEW r \in Readers, GetBegin(r) \/ GetLookup(r) \/ GetEnd(r) PROVE GroupInv'
  <2>1. UNCHANGED <<queueVars, req, group, last_sequence>>
    BY <1>13 DEF GetBegin, GetLookup, Lookup, GetEnd
  <2>2. UNCHANGED mem_
    BY <1>13 DEF GetBegin, GetLookup, Lookup, GetEnd, UpdateStats, bgVars, memVars
  <2> QED
    BY <1>1, <2>1, <2>2 DEF queueVars
<1>14. CASE UNCHANGED writeVars /\ UNCHANGED mem_
  BY <1>1, <1>14 DEF writeVars
<1>15. ASSUME NEW c \in Compactors, CompactRange(c) PROVE mem_' = mem_
  BY <1>15 DEF CompactRange, CompactRangeCall, CompactRangeWait, CompactRangeReturn, memVars
<1>16. SpuriousWakeup \/ Close \/ CloseWake => mem_' = mem_
  BY DEF SpuriousWakeup, Close, CloseWake, memVars
<1>17. Idle \/ UNCHANGED vars => UNCHANGED writeVars /\ UNCHANGED mem_
  BY DEF Idle, vars, bgVars
<1> QED
  BY <1>4, <1>10, <1>11, <1>12, <1>13, <1>14, <1>15, <1>16, <1>17 DEF WriteNext, CloseDB
-----------------------------------------------------------------------------
(***************************************************************************)
(* The background work                                                     *)
(***************************************************************************)
\* Every step is for the background work one of Background's steps or a writer
\* that starts to wait.
LEMMA BackgroundSees ==
    ASSUME IInv, QueueInv, OpenInv, GroupInv, [WriteNext]_vars
    PROVE  [BgNext]_bgVars \/ \E w \in Writers : WriterWaits(w)
<1>1. CASE BackgroundStep
  <2>1. BackgroundThread
    BY <1>1 DEF BackgroundStep, BuildTable, CommitFlush, OtherBackground, BackgroundThread
  <2> QED
    BY <2>1 DEF BgNext
<1>2. ASSUME NEW w \in Writers, Call(w) PROVE UNCHANGED bgVars
  BY <1>2 DEF Call
<1>3. ASSUME NEW w \in Writers, Enter(w) \/ Wake(w) \/ RoomAgain(w)
      PROVE  [BgNext]_bgVars \/ WriterWaits(w)
  <2>1. ASSUME NEW q, Room(w, q) PROVE [BgNext]_bgVars \/ WriterWaits(w)
    BY <2>1 DEF Room, RoomBackground, BgNext
  <2>2. Join(w) \/ SleepAgain(w) \/ Answered(w) => UNCHANGED bgVars
    BY DEF Join, SleepAgain, Answered
  <2> QED
    BY <1>3, <2>1, <2>2, QueueSteps
<1>4. ASSUME NEW w \in Writers, AddRecord(w) \/ Sync(w) \/ InsertInto(w) PROVE UNCHANGED bgVars
  BY <1>4 DEF AddRecord, Sync, InsertInto
<1>5. ASSUME NEW w \in Writers, Publish(w) PROVE [BgNext]_bgVars
  <2>1. /\ wpc[w] = "publish"
        /\ UNCHANGED <<memVars, versionVars, edit_log, background_compaction_scheduled_, bg,
                       job, is_manual, manualVars, shutting_down_, closer>>
    BY <1>5 DEF Publish
  <2>2. closer = "open" /\ LeaderInv(w)
    BY <2>1 DEF OpenInv, GroupInv, Grouped
  <2>3. CASE group.status # "sync_error"
    BY <1>5, <2>1, <2>3 DEF Publish, bgVars, memVars, versionVars, manualVars
  <2>4. CASE group.status = "sync_error" /\ bg_error_
    <3>1. bg_error_' = bg_error_ /\ waiting' = waiting
      BY <1>5, <2>4 DEF Publish, RecordBackgroundError, IInv, TypeOK, ThreadTypes
    <3> QED
      BY <2>1, <3>1 DEF bgVars, memVars, versionVars, manualVars
  <2>5. CASE group.status = "sync_error" /\ ~bg_error_
    <3>1. IOFails
      BY <2>2, <2>5, WritePathAssumption DEF LeaderInv
    <3>2. SyncError
      BY <1>5, <2>1, <2>2, <2>5, <3>1 DEF Publish, SyncError
    <3> QED
      BY <3>2 DEF BgNext
  <2> QED
    BY <2>3, <2>4, <2>5
<1>6. ASSUME NEW w \in Writers, CompactMemTableWait(w) PROVE UNCHANGED bgVars \/ WriterWaits(w)
  <2>1. /\ wpc[w] = "cmt"
        /\ UNCHANGED <<memVars, versionVars, edit_log, background_compaction_scheduled_, bg,
                       job, is_manual, manualVars, bg_error_, shutting_down_, closer>>
    BY <1>6 DEF CompactMemTableWait
  <2>2. closer = "open"
    BY <2>1 DEF OpenInv
  <2>3. CASE imm_ # NULL /\ ~bg_error_
    BY <1>6, <2>1, <2>2, <2>3 DEF CompactMemTableWait, WriterWaits
  <2>4. CASE ~(imm_ # NULL /\ ~bg_error_)
    BY <1>6, <2>1, <2>4 DEF CompactMemTableWait, bgVars, memVars, versionVars, manualVars
  <2> QED
    BY <2>3, <2>4
<1>7. ASSUME NEW r \in Readers, GetBegin(r) \/ GetLookup(r) \/ GetEnd(r) PROVE [BgNext]_bgVars
  BY <1>7 DEF GetBegin, GetLookup, Lookup, GetEnd, BgNext
<1>8. SpuriousWriterWakeup \/ Idle \/ UNCHANGED vars => UNCHANGED bgVars
  BY DEF SpuriousWriterWakeup, Idle, vars
<1>9. CloseDB => Close \/ CloseWake
  BY DEF CloseDB
<1> QED
  BY <1>1, <1>2, <1>3, <1>4, <1>5, <1>6, <1>7, <1>8, <1>9 DEF WriteNext, Write, BgNext

\* A writer that starts to wait has a background call to wait for.
LEMMA WaitIInv ==
    ASSUME IInv, NEW w \in Writers, WriterWaits(w)
    PROVE  IInv'
<1>1. background_compaction_scheduled_
  <2>1. ~shutting_down_
    BY DEF WriterWaits, IInv, CloseInv
  <2>2. HasWork
    BY BackgroundAssumption, SMT, SMTT(40) DEF WriterWaits, HasWork, NeedsCompaction, IInv, TypeOK, VersionTypes
  <2> QED
    BY <2>1, <2>2 DEF WriterWaits, IInv, WorkIsScheduled, MayRun
<1>2. UNCHANGED <<mem_, imm_, flushed, l0, backlog, log_number, edit_log,
                  background_compaction_scheduled_, bg, job, is_manual,
                  manual_compaction_, cpc, mdone, left, calls,
                  bg_error_, shutting_down_, closer>>
  BY DEF WriterWaits, memVars, versionVars, manualVars
<1>3. WaitersWillBeNotified'
  BY <1>1, <1>2 DEF WaitersWillBeNotified
<1>4. TypeOK'
  BY <1>2 DEF IInv, TypeOK, VersionTypes, ThreadTypes, ManualTypes
<1>5. WorkIsScheduled' /\ ScheduledMeansRunning'
  BY <1>2 DEF IInv, WorkIsScheduled, ScheduledMeansRunning, MayRun, HasWork, NeedsCompaction
<1>6. FlushOrder' /\ InputsPresent' /\ ManualInv' /\ CloseInv'
  BY <1>2 DEF IInv, FlushOrder, Oldest, InputsPresent, ManualInv, CloseInv
<1> QED
  BY <1>3, <1>4, <1>5, <1>6 DEF IInv

\* What is proved of the background work on its own holds in the composition,
\* where writers wait for it as well.
LEMMA BackgroundNext ==
    ASSUME IInv, QueueInv, OpenInv, GroupInv, [WriteNext]_vars
    PROVE  IInv'
<1> QED
  BY BackgroundSees, WaitIInv, NextIInv

\* The part of the invariant about the queue, the group and the background work.
CallsInv == IInv /\ QueueInv /\ OpenInv /\ GroupInv

\* It holds when the database has been opened.
LEMMA InitCalls == WriteInit => CallsInv
<1> SUFFICES ASSUME WriteInit PROVE CallsInv
  OBVIOUS
<1>1. IInv
  BY InitIInv DEF WriteInit
<1>2. /\ writers_ = <<>> /\ asleep = {} /\ group = NoGroup /\ last_sequence = 0
      /\ wpc = [w \in Writers |-> "idle"] /\ wres = [w \in Writers |-> "none"]
      /\ req = [w \in Writers |-> [batch |-> NULL, sync |-> FALSE]]
      /\ get = [r \in Readers |-> NoGet]
  BY DEF WriteInit
<1>3. QueueTypes
  <2>1. writers_ \in Seq(Writers)
    BY <1>2, SMT, SMTT(40)
  <2> QED
    BY <1>2, <2>1 DEF QueueTypes
<1>4. QueueInv
  <2>1. \A w \in Writers : wpc[w] = "idle" /\ wres[w] = "none"
    BY <1>2
  <2>2. 1..Len(writers_) = {}
    BY <1>2, SMT, SMTT(40)
  <2>3. NobodySleepsForEver
    BY <1>2, <2>1 DEF NobodySleepsForEver, OneLeader, Leading
  <2>4. \A w : ~InQueue(w, writers_)
    BY <2>2 DEF InQueue
  <2> QED
    BY <1>3, <2>1, <2>2, <2>3, <2>4 DEF QueueInv, Leading
<1>5. OpenInv
  BY <1>2 DEF OpenInv
<1>6. GroupTypes
  <2>1. NoGroup.keys \in Seq(Keys)
    BY SMT, SMTT(40) DEF NoGroup
  <2> QED
    BY <1>2, <2>1 DEF GroupTypes, NoGroup
<1>7. GroupInv
  BY <1>2, <1>6 DEF GroupInv, Grouped
<1> QED
  BY <1>1, <1>4, <1>5, <1>7 DEF CallsInv

\* Every step preserves it.
LEMMA NextCalls == DataFacts /\ CallsInv /\ [WriteNext]_vars => CallsInv'
<1> QED
  BY BackgroundNext, QueueNext, OpenNext, GroupNext DEF CallsInv
=============================================================================
