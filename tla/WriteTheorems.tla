--------------------------- MODULE WriteTheorems ----------------------------
(***************************************************************************)
(* The theorems about Write and Get, for any number of writers, readers,   *)
(* keys and memtables: the facts about numbers and finite sets that the    *)
(* proofs started from, then what holds in every state, then that the      *)
(* write path implements the key-value store and is a client of the        *)
(* background work.                                                        *)
(***************************************************************************)
EXTENDS WritePathStore, WriteClients, FiniteSetTheorems

\* Zenon proves the leaves; those with arithmetic or records name SMT.  Each
\* has a second try with a longer limit, for a slow machine.
USE Zenon, ZenonT(40), SMTT(40)

\* The numbers are well-ordered.
LEMMA LeastNumber ==
    ASSUME NEW S, S \subseteq Nat, S # {}
    PROVE  \E n \in S : \A m \in S : n <= m
<1> DEFINE R == {ss \in Nat \X Nat : ss[1] < ss[2]}
<1>1. IsWellFoundedOn(R, Nat)
  BY NatLessThanWellFounded DEF OpToRel
<1>2. PICK n \in S : \A m \in S : ~ (<<m, n>> \in R)
  BY <1>1, WFMin
<1>3. ASSUME NEW m \in S PROVE n <= m
  <2>1. m \in Nat /\ n \in Nat
    OBVIOUS
  <2>2. <<m, n>> \in Nat \X Nat /\ <<m, n>> \notin R
    BY <1>2, <2>1
  <2>3. ~ (m < n)
    BY <2>2
  <2> QED
    BY <2>1, <2>3, SMT, SMTT(40)
<1> QED
  BY <1>3

\* No queue has more writers than there are.
LEMMA WritersFit ==
    ASSUME NEW n \in Nat, NEW f \in [1..n -> Writers], \A i, j \in 1..n : f[i] = f[j] => i = j
    PROVE  n <= Cardinality(Writers)
<1>1. f \in Injection(1..n, Writers)
  <2>1. DOMAIN f = 1..n
    OBVIOUS
  <2> QED
    BY <2>1 DEF Injection, IsInjective
<1>2. Cardinality(1..n) = n
  <2>1. 1 \in Int /\ n \in Int /\ (IF 1 > n THEN 0 ELSE n - 1 + 1) = n
    BY SMT, SMTT(40)
  <2> QED
    BY <2>1, FS_Interval
<1>3. Cardinality(1..n) <= Cardinality(Writers)
  BY <1>1, WritePathAssumption, FS_Injection DEF WritePathAssumption
<1> QED
  BY <1>2, <1>3

\* The references that Gets may hold can be counted.
LEMMA SourcesFinite == IsFiniteSet({"mem", "imm"}) /\ IsFiniteSet(Readers \X {"mem", "imm"})
<1>1. IsFiniteSet({"mem"})
  BY FS_Singleton
<1>2. IsFiniteSet({"mem"} \cup {"imm"})
  BY <1>1, FS_AddElement
<1>3. {"mem"} \cup {"imm"} = {"mem", "imm"}
  OBVIOUS
<1>4. IsFiniteSet({"mem", "imm"})
  BY <1>2, <1>3
<1>5. IsFiniteSet(Readers)
  BY WritePathAssumption DEF WritePathAssumption
<1> QED
  BY <1>4, <1>5, FS_Product

\* What the proofs started from.
LEMMA Facts == DataFacts
<1>1. \A S \in SUBSET Nat : S # {} => \E n \in S : \A m \in S : n <= m
  BY LeastNumber
<1>2. Cardinality(Writers) \in Nat
  BY WritePathAssumption, FS_CardinalityType DEF WritePathAssumption
<1>3. \A n \in Nat : \A f \in [1..n -> Writers] :
         (\A i, j \in 1..n : f[i] = f[j] => i = j) => n <= Cardinality(Writers)
  BY WritersFit
<1>4. ASSUME NEW U, IsFiniteSet(U), NEW S \in SUBSET U PROVE IsFiniteSet(S) /\ Cardinality(S) \in Nat
  BY <1>4, FS_Subset, FS_CardinalityType
<1>5. \A S \in SUBSET {"mem", "imm"} : Cardinality(S) \in Nat
  BY <1>4, SourcesFinite
<1>6. ASSUME NEW S \in SUBSET (Readers \X {"mem", "imm"})
      PROVE  /\ Cardinality(S) \in Nat
             /\ \A x : x \notin S => Cardinality(S \cup {x}) = Cardinality(S) + 1
  <2>1. IsFiniteSet(S) /\ Cardinality(S) \in Nat
    BY <1>4, SourcesFinite
  <2> QED
    BY <2>1, FS_AddElement
<1>7. Cardinality({}) = 0 /\ \A x : Cardinality({x}) = 1
  BY FS_EmptySet, FS_Singleton
<1> QED
  BY <1>1, <1>2, <1>3, <1>5, <1>6, <1>7 DEF DataFacts
-----------------------------------------------------------------------------
(***************************************************************************)
(* What holds in every state                                               *)
(***************************************************************************)
\* The queue, the group being written and the background work.
LEMMA SpecCalls == WriteSpec => []CallsInv
<1> QED
  BY Facts, InitCalls, NextCalls, PTL DEF WriteSpec

\* Group commit loses no wakeup: there is one leader at a time, it is at the
\* front of the queue, and a writer sleeps only behind the front and unanswered,
\* for any number of writers, batches of any size and spurious wakeups.
THEOREM GroupCommitWakes == WriteSpec => []NobodySleepsForEver
<1>1. CallsInv => NobodySleepsForEver
  BY DEF CallsInv, QueueInv
<1> QED
  BY SpecCalls, <1>1, PTL

\* A writer that MakeRoomForWrite or TEST_CompactMemTable has put to sleep on
\* background_work_finished_signal_ has a background call ahead that wakes it.
THEOREM WaitingWritersWakeUp == WriteSpec => []WaitersWillBeNotified
<1>1. CallsInv => WaitersWillBeNotified
  BY DEF CallsInv, IInv
<1> QED
  BY SpecCalls, <1>1, PTL
\* The data.
LEMMA SpecWInv == WriteSpec => []WInv
<1> QED
  BY Facts, InitWInv, NextWInv, PTL DEF WriteSpec

\* A write acknowledged with sync = true survives a crash at any later time, unless
\* an append to its log had failed before it, and every update in a memtable is in
\* the log that belongs to it: for any number of writers absorbed into groups,
\* whatever the background thread flushes, and whichever later appends fail.
THEOREM SyncIsDurable == WriteSpec => []SyncedDurableUnlessFailed
<1> QED
  BY SpecWInv, WInvDurable, PTL

\* No sequence number is used twice, also after failed writes, and only the
\* group being written is above LastSequence().
THEOREM SequenceNumbersNeverReused == WriteSpec => []SequenceNumbersUnique
<1> QED
  BY SpecWInv, WInvUnique, PTL

\* A memtable is referenced exactly by DBImpl and by the Gets that use it, for
\* any number of readers: it is neither freed under a Get nor leaked.
THEOREM MemTablesCounted == WriteSpec => []RefsMatchHolders
<1>1. RefsInv => RefsMatchHolders
  BY DEF RefsInv
<1> QED
  BY <1>1, Facts, InitRefs, NextRefs, SpecWInv, PTL DEF WriteSpec

\* The immutable memtable does not change while it is written to a table file
\* with the mutex released.
THEOREM ImmNeverChanges == WriteSpec => ImmIsImmutable
<1> QED
  BY SpecWInv, ImmStep, PTL DEF WriteSpec, ImmIsImmutable
-----------------------------------------------------------------------------
(***************************************************************************)
(* The key-value store                                                     *)
(***************************************************************************)
\* What the mapping needs holds in every state.
LEMMA SpecMaps == WriteSpec => []MapInv
<1>1. WriteInit => MapInv
  BY Facts, InitMaps
<1> QED
  BY <1>1, Facts, MapNext, SpecWInv, LiveIs, AnswerIs, PTL DEF WriteSpec

\* Concurrent calls of Write and Get are linearizable, for any number of writers
\* and readers: a group of batches takes effect at once where its leader publishes
\* LastSequence(), or not at all, and a Get answers as of its snapshot, also while
\* memtables are switched, flushed and released under it.
THEOREM WritesAreAtomic == WriteSpec => ImplementsKVStore
<1>1. WriteInit => KV!KVInit
  BY Facts, InitMaps
<1> QED
  BY <1>1, Facts, NextMaps, SpecMaps, PTL DEF WriteSpec, ImplementsKVStore, KV!KVSpec
-----------------------------------------------------------------------------
(***************************************************************************)
(* The background work                                                     *)
(***************************************************************************)
\* A step of the background thread is the same step when the writers among the
\* waiting threads are left out: it empties waiting or leaves it alone.
LEMMA SchedulerThread ==
    ASSUME BackgroundThread
    PROVE  Scheduler!BackgroundThread
<1> USE DEF memVars, versionVars, manualVars,
            Scheduler!memVars, Scheduler!versionVars, Scheduler!manualVars
<1>1. BackgroundSkip => Scheduler!BackgroundSkip
  BY DEF BackgroundSkip, Scheduler!BackgroundSkip, FinishCall, Scheduler!FinishCall, MayRun,
        Scheduler!MayRun, HasWork, Scheduler!HasWork, NeedsCompaction,
        Scheduler!NeedsCompaction
<1>2. StartFlush => Scheduler!StartFlush
  BY DEF StartFlush, Scheduler!StartFlush, CanStart, Scheduler!CanStart
<1>3. StartManualEmpty => Scheduler!StartManualEmpty
  BY DEF StartManualEmpty, Scheduler!StartManualEmpty, CanStart, Scheduler!CanStart,
        FinishCall, Scheduler!FinishCall, MayRun, Scheduler!MayRun, HasWork,
        Scheduler!HasWork, NeedsCompaction, Scheduler!NeedsCompaction
<1>4. StartManual => Scheduler!StartManual
  BY DEF StartManual, Scheduler!StartManual, CanStart, Scheduler!CanStart
<1>5. StartAuto => Scheduler!StartAuto
  BY DEF StartAuto, Scheduler!StartAuto, CanStart, Scheduler!CanStart
<1>6. NestedFlush => Scheduler!NestedFlush
  BY DEF NestedFlush, Scheduler!NestedFlush
<1>7. BuildTableDone => Scheduler!BuildTableDone
  BY DEF BuildTableDone, Scheduler!BuildTableDone
<1>8. FlushFailed => Scheduler!FlushFailed
  BY DEF FlushFailed, Scheduler!FlushFailed, AfterFlush, Scheduler!AfterFlush, FinishCall,
        Scheduler!FinishCall, MayRun, Scheduler!MayRun, HasWork, Scheduler!HasWork,
        NeedsCompaction, Scheduler!NeedsCompaction, RecordBackgroundError,
        Scheduler!RecordBackgroundError
<1>9. FlushApplied => Scheduler!FlushApplied
  BY DEF FlushApplied, Scheduler!FlushApplied, AfterFlush, Scheduler!AfterFlush, FinishCall,
        Scheduler!FinishCall, MayRun, Scheduler!MayRun, HasWork, Scheduler!HasWork,
        NeedsCompaction, Scheduler!NeedsCompaction
<1>10. FlushCollected => Scheduler!FlushCollected
  BY DEF FlushCollected, Scheduler!FlushCollected, AfterFlush, Scheduler!AfterFlush,
        FinishCall, Scheduler!FinishCall, MayRun, Scheduler!MayRun, HasWork,
        Scheduler!HasWork, NeedsCompaction, Scheduler!NeedsCompaction
<1>11. CompactionMerged => Scheduler!CompactionMerged
  BY DEF CompactionMerged, Scheduler!CompactionMerged
<1>12. CompactionFailed => Scheduler!CompactionFailed
  BY DEF CompactionFailed, Scheduler!CompactionFailed, EndCompaction,
        Scheduler!EndCompaction, NoJob, Scheduler!NoJob, FinishCall, Scheduler!FinishCall,
        MayRun, Scheduler!MayRun, HasWork, Scheduler!HasWork, NeedsCompaction,
        Scheduler!NeedsCompaction, RecordBackgroundError, Scheduler!RecordBackgroundError
<1>13. CompactionInstalled => Scheduler!CompactionInstalled
  BY DEF CompactionInstalled, Scheduler!CompactionInstalled, EndCompaction,
        Scheduler!EndCompaction, NoJob, Scheduler!NoJob, FinishCall, Scheduler!FinishCall,
        MayRun, Scheduler!MayRun, HasWork, Scheduler!HasWork, NeedsCompaction,
        Scheduler!NeedsCompaction
<1>14. CompactionCollected => Scheduler!CompactionCollected
  BY DEF CompactionCollected, Scheduler!CompactionCollected, EndCompaction,
        Scheduler!EndCompaction, NoJob, Scheduler!NoJob, FinishCall, Scheduler!FinishCall,
        MayRun, Scheduler!MayRun, HasWork, Scheduler!HasWork, NeedsCompaction,
        Scheduler!NeedsCompaction
<1> QED
  BY <1>1, <1>2, <1>3, <1>4, <1>5, <1>6, <1>7, <1>8, <1>9, <1>10, <1>11, <1>12, <1>13, <1>14
     DEF BackgroundThread, Scheduler!BackgroundThread

\* So are the steps of the other clients: a compactor and the thread that closes
\* the database are not writers.
LEMMA SchedulerStep ==
    ASSUME BgNext
    PROVE  [Scheduler!BgNext]_(Scheduler!bgVars)
<1> USE WritePathAssumption
    DEF WritePathAssumption, memVars, versionVars, manualVars,
        Scheduler!memVars, Scheduler!versionVars, Scheduler!manualVars
<1>1. BackgroundThread => Scheduler!BgNext
  BY SchedulerThread DEF Scheduler!BgNext
<1>2. ASSUME NEW c \in Compactors, CompactRange(c)
      PROVE  Scheduler!BgNext
  <2>1. CompactRangeCall(c) => Scheduler!CompactRangeCall(c)
    BY DEF CompactRangeCall, Scheduler!CompactRangeCall
  <2>2. CompactRangeWait(c) => Scheduler!CompactRangeWait(c)
    BY DEF CompactRangeWait, Scheduler!CompactRangeWait,
           MaybeScheduleCompaction, Scheduler!MaybeScheduleCompaction,
           MayRun, Scheduler!MayRun, HasWork, Scheduler!HasWork,
           NeedsCompaction, Scheduler!NeedsCompaction
  <2>3. CompactRangeReturn(c) => Scheduler!CompactRangeReturn(c)
    BY DEF CompactRangeReturn, Scheduler!CompactRangeReturn
  <2> QED
    BY <1>2, <2>1, <2>2, <2>3 DEF CompactRange, Scheduler!CompactRange, Scheduler!BgNext
<1>3. FillMemTable => Scheduler!FillMemTable
  BY DEF FillMemTable, Scheduler!FillMemTable, SwitchMemTable, Scheduler!SwitchMemTable,
         MaybeScheduleCompaction, Scheduler!MaybeScheduleCompaction,
         MayRun, Scheduler!MayRun, HasWork, Scheduler!HasWork,
         NeedsCompaction, Scheduler!NeedsCompaction
<1>4. SyncError => Scheduler!SyncError
  BY DEF SyncError, Scheduler!SyncError, RecordBackgroundError, Scheduler!RecordBackgroundError
<1>5. UpdateStats => Scheduler!UpdateStats
  BY DEF UpdateStats, Scheduler!UpdateStats,
         MaybeScheduleCompaction, Scheduler!MaybeScheduleCompaction,
         MayRun, Scheduler!MayRun, HasWork, Scheduler!HasWork,
         NeedsCompaction, Scheduler!NeedsCompaction
<1>6. Close => Scheduler!Close
  BY DEF Close, Scheduler!Close
<1>7. CloseWake => Scheduler!CloseWake
  BY DEF CloseWake, Scheduler!CloseWake
<1>8. SpuriousWakeup => [Scheduler!SpuriousWakeup]_(Scheduler!bgVars)
  BY DEF SpuriousWakeup, Scheduler!SpuriousWakeup, Scheduler!bgVars
<1>9. BgIdle => UNCHANGED Scheduler!bgVars
  BY DEF BgIdle, bgVars, Scheduler!bgVars
<1> QED
  BY <1>1, <1>2, <1>3, <1>4, <1>5, <1>6, <1>7, <1>8, <1>9 DEF BgNext, Scheduler!BgNext

\* Whatever the writers and readers do, the background work sees a step of its own
\* clients or nothing (refinement of Background): so every theorem about Background
\* holds of it while Write, TEST_CompactMemTable and Get run beside it.
THEOREM WritersAreClients == WriteSpec => ImplementsBackground
<1>1. WriteInit => Scheduler!BgInit
  BY DEF WriteInit, BgInit, Scheduler!BgInit, NoJob, Scheduler!NoJob
<1>2. CallsInv /\ [WriteNext]_vars => [Scheduler!BgNext]_(Scheduler!bgVars)
  <2> SUFFICES ASSUME CallsInv, [WriteNext]_vars
               PROVE  [Scheduler!BgNext]_(Scheduler!bgVars)
    OBVIOUS
  <2>1. CASE BgNext
    BY <2>1, SchedulerStep
  <2>2. CASE UNCHANGED bgVars
    BY <2>2 DEF bgVars, Scheduler!bgVars
  <2>3. CASE \E w \in Writers : WriterWaits(w)
    BY <2>3 DEF WriterWaits, memVars, versionVars, manualVars, Scheduler!bgVars
  <2> QED
    BY <2>1, <2>2, <2>3, BackgroundSees DEF CallsInv
<1> QED
  BY <1>1, <1>2, SpecCalls, PTL DEF WriteSpec, ImplementsBackground, Scheduler!BgSpec
=============================================================================
