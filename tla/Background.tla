----------------------------- MODULE Background -----------------------------
(***************************************************************************)
(* Background work of DBImpl (kv/db/db_impl.cpp): scheduling, the flush of *)
(* the immutable memtable, automatic and manual compactions, background    *)
(* errors and shutdown.                                                    *)
(*                                                                         *)
(* Every action is one critical section of mutex_, from the point where a  *)
(* thread acquires it to the point where it releases it or waits; what the *)
(* background thread does with the mutex released (BuildTable, the merge   *)
(* loop of DoCompactionWork, the MANIFEST write of LogAndApply, the        *)
(* deletions of RemoveObsoleteFiles) lies between two actions and is a     *)
(* value of its program counter bg.                                        *)
(*                                                                         *)
(* Memtables are numbered in the order they are created and a memtable     *)
(* shares its number with the log file opened with it, so mem_ also stands *)
(* for logfile_number_.  A version is reduced to the memtables it contains *)
(* (flushed), its number of level-0 files (l0) and how many compactions of *)
(* deeper levels are still due (backlog).                                  *)
(***************************************************************************)
EXTENDS Naturals

CONSTANTS
    NULL,
    Compactors,       \* threads that call TEST_CompactRange
    Closer,           \* the thread that runs ~DBImpl
    CloseAllowed,     \* whether the database is closed in this instance
    IOFails,          \* whether file operations of the background thread may fail
    L0Trigger,        \* config::kL0_CompactionTrigger
    L0Stop,           \* config::kL0_StopWritesTrigger
    MaxTables,        \* bound: memtables created
    MaxBacklog,       \* bound: compactions of deeper levels due at once
    MaxManual,        \* bound: calls of TEST_CompactRange per thread
    MaxPieces         \* bound: compactions one call is split into

ASSUME BackgroundAssumption ==
    /\ L0Trigger \in Nat \ {0} /\ L0Stop \in Nat /\ L0Trigger <= L0Stop
    /\ MaxTables \in Nat \ {0} /\ MaxBacklog \in Nat
    /\ MaxManual \in Nat /\ MaxPieces \in Nat
    /\ CloseAllowed \in BOOLEAN /\ IOFails \in BOOLEAN
    /\ NULL \notin Nat /\ NULL \notin Compactors /\ Closer \notin Compactors

VARIABLES
    mem_, imm_,               \* the memtables; imm_ = NULL when there is none
    flushed,                  \* memtables whose table file is in the current version
    l0, backlog,              \* level-0 files; compactions due in deeper levels
    log_number, edit_log,     \* LogNumber() of the manifest; the edit being applied
    background_compaction_scheduled_,
    bg,                       \* program counter of the background thread
    job, is_manual,           \* the compaction the background thread runs
    manual_compaction_,       \* the registered request: a compactor or NULL
    cpc, mdone,               \* per compactor: inside the call?, manual.done
    left,                     \* compactions left between manual.begin and manual.end
    calls,                    \* calls made
    bg_error_, shutting_down_,
    closer,                   \* progress of ~DBImpl
    waiting                   \* threads blocked on background_work_finished_signal_

versionVars == <<flushed, l0, backlog, log_number>>
memVars == <<mem_, imm_>>
manualVars == <<manual_compaction_, cpc, mdone, left, calls>>
bgVars == <<mem_, imm_, flushed, l0, backlog, log_number, edit_log,
            background_compaction_scheduled_, bg, job, is_manual,
            manual_compaction_, cpc, mdone, left, calls,
            bg_error_, shutting_down_, closer, waiting>>

Tables == 1..MaxTables
NoJob == [level |-> 0, n |-> 0]

\* bg: "build"/"apply" are CompactMemTable called by BackgroundCompaction,
\* "cbuild"/"capply" the same function called from inside DoCompactionWork;
\* "gc", "cgc" and "igc" are RemoveObsoleteFiles after a flush, after a flush
\* inside a compaction and after a compaction; "move" is a trivial move.
Compacting == {"compact", "cbuild", "capply", "cgc", "install", "igc", "move"}
BgStates == {"idle", "queued", "build", "apply", "gc", "crashed"} \cup Compacting

VersionTypes ==
    /\ mem_ \in Tables /\ imm_ \in Tables \cup {NULL}
    /\ flushed \in SUBSET Tables
    /\ l0 \in Nat /\ backlog \in 0..MaxBacklog
    /\ log_number \in Nat /\ edit_log \in Nat

ThreadTypes ==
    /\ background_compaction_scheduled_ \in BOOLEAN
    /\ bg \in BgStates
    /\ job \in [level : {0, 1}, n : Nat] /\ is_manual \in BOOLEAN
    /\ bg_error_ \in BOOLEAN /\ shutting_down_ \in BOOLEAN
    /\ closer \in {"open", "closing", "closed"}

ManualTypes ==
    /\ manual_compaction_ \in Compactors \cup {NULL}
    /\ cpc \in [Compactors -> {"idle", "loop"}]
    /\ mdone \in [Compactors -> BOOLEAN]
    /\ left \in [Compactors -> 0..MaxPieces]
    /\ calls \in [Compactors -> 0..MaxManual]

\* The scheduler, its requests and the version it changes are well typed.
TypeOK == VersionTypes /\ ThreadTypes /\ ManualTypes

BgInit ==
    /\ mem_ = 1 /\ imm_ = NULL /\ flushed = {} /\ l0 = 0 /\ backlog = 0
    /\ log_number = 1 /\ edit_log = 0
    /\ background_compaction_scheduled_ = FALSE
    /\ bg = "idle" /\ job = NoJob /\ is_manual = FALSE
    /\ manual_compaction_ = NULL
    /\ cpc = [c \in Compactors |-> "idle"]
    /\ mdone = [c \in Compactors |-> FALSE]
    /\ left = [c \in Compactors |-> 0]
    /\ calls = [c \in Compactors |-> 0]
    /\ bg_error_ = FALSE /\ shutting_down_ = FALSE
    /\ closer = "open" /\ waiting = {}
-----------------------------------------------------------------------------
(***************************************************************************)
(* Scheduling                                                              *)
(***************************************************************************)
NeedsCompaction == l0 >= L0Trigger \/ backlog > 0

HasWork == imm_ # NULL \/ manual_compaction_ # NULL \/ NeedsCompaction

MayRun == ~shutting_down_ /\ ~bg_error_ /\ HasWork

\* Called at the end of a critical section: the conditions read its result.
MaybeScheduleCompaction ==
    IF ~background_compaction_scheduled_ /\ MayRun'
    THEN background_compaction_scheduled_' = TRUE /\ bg' = "queued"
    ELSE UNCHANGED <<background_compaction_scheduled_, bg>>

\* Variants of FinishCall: it does not reschedule; it does not notify.
FinishCall_NoReschedule ==
    background_compaction_scheduled_' = FALSE /\ bg' = "idle" /\ waiting' = {}

FinishCall_NoNotify ==
    /\ background_compaction_scheduled_' = MayRun'
    /\ bg' = IF MayRun' THEN "queued" ELSE "idle"
    /\ UNCHANGED waiting

\* The tail of BackgroundCall: clear the flag, reschedule, notify_all.
FinishCall ==
    /\ background_compaction_scheduled_' = MayRun'
    /\ bg' = IF MayRun' THEN "queued" ELSE "idle"
    /\ waiting' = {}
-----------------------------------------------------------------------------
(***************************************************************************)
(* Client threads                                                          *)
(***************************************************************************)
\* The last branch of MakeRoomForWrite: a new log and memtable.
SwitchMemTable ==
    /\ ~bg_error_ /\ imm_ = NULL /\ l0 < L0Stop
    /\ mem_ < MaxTables
    /\ imm_' = mem_ /\ mem_' = mem_ + 1
    /\ UNCHANGED <<versionVars, manual_compaction_, bg_error_, shutting_down_>>
    /\ MaybeScheduleCompaction

\* Get and RecordReadSample: UpdateStats exhausts the seeks allowed to a file.
UpdateStats ==
    /\ closer = "open" /\ flushed # {} /\ backlog < MaxBacklog
    /\ backlog' = backlog + 1
    /\ UNCHANGED <<memVars, flushed, l0, log_number, manual_compaction_,
                   bg_error_, shutting_down_>>
    /\ MaybeScheduleCompaction
    /\ UNCHANGED <<edit_log, job, is_manual, cpc, mdone, left, calls, closer, waiting>>

\* TEST_CompactRange up to the mutex: the request is made on the caller's stack.
CompactRangeCall(c) ==
    /\ closer = "open" /\ cpc[c] = "idle" /\ calls[c] < MaxManual
    /\ cpc' = [cpc EXCEPT ![c] = "loop"]
    /\ mdone' = [mdone EXCEPT ![c] = FALSE]
    /\ \E n \in 0..MaxPieces : left' = [left EXCEPT ![c] = n]
    /\ calls' = [calls EXCEPT ![c] = @ + 1]
    /\ UNCHANGED <<memVars, versionVars, edit_log, background_compaction_scheduled_,
                   bg, job, is_manual, manual_compaction_, bg_error_,
                   shutting_down_, closer, waiting>>

\* One turn of its loop: register the request if none is registered, and wait.
CompactRangeWait(c) ==
    /\ cpc[c] = "loop" /\ c \notin waiting
    /\ ~mdone[c] /\ ~shutting_down_ /\ ~bg_error_
    /\ manual_compaction_' = IF manual_compaction_ = NULL THEN c
                             ELSE manual_compaction_
    /\ waiting' = waiting \cup {c}
    /\ UNCHANGED <<memVars, versionVars, bg_error_, shutting_down_>>
    /\ IF manual_compaction_ = NULL
       THEN MaybeScheduleCompaction
       ELSE UNCHANGED <<background_compaction_scheduled_, bg>>
    /\ UNCHANGED <<edit_log, job, is_manual, cpc, mdone, left, calls, closer>>

\* Variant of CompactRangeReturn that cancels whatever request is registered.
CompactRangeReturn_CancelsAny(c) ==
    /\ cpc[c] = "loop" /\ c \notin waiting
    /\ mdone[c] \/ shutting_down_ \/ bg_error_
    /\ manual_compaction_' = NULL
    /\ cpc' = [cpc EXCEPT ![c] = "idle"]
    /\ UNCHANGED <<memVars, versionVars, edit_log, background_compaction_scheduled_,
                   bg, job, is_manual, mdone, left, calls, bg_error_,
                   shutting_down_, closer, waiting>>

\* Its exit, cancelling the request when the call aborts early.
CompactRangeReturn(c) ==
    /\ cpc[c] = "loop" /\ c \notin waiting
    /\ mdone[c] \/ shutting_down_ \/ bg_error_
    /\ manual_compaction_' = IF manual_compaction_ = c THEN NULL
                             ELSE manual_compaction_
    /\ cpc' = [cpc EXCEPT ![c] = "idle"]
    /\ UNCHANGED <<memVars, versionVars, edit_log, background_compaction_scheduled_,
                   bg, job, is_manual, mdone, left, calls, bg_error_,
                   shutting_down_, closer, waiting>>

\* ~DBImpl: no client call is in progress when the database is deleted.
Close ==
    /\ CloseAllowed /\ closer = "open"
    /\ \A c \in Compactors : cpc[c] = "idle"
    /\ shutting_down_' = TRUE
    /\ IF background_compaction_scheduled_
       THEN closer' = "closing" /\ waiting' = waiting \cup {Closer}
       ELSE closer' = "closed" /\ UNCHANGED waiting
    /\ UNCHANGED <<memVars, versionVars, edit_log, background_compaction_scheduled_,
                   bg, job, is_manual, manualVars, bg_error_>>

\* Variant of CloseWake: an if instead of a while around the wait.
CloseWake_Once ==
    /\ closer = "closing" /\ Closer \notin waiting
    /\ closer' = "closed"
    /\ UNCHANGED <<memVars, versionVars, edit_log, background_compaction_scheduled_,
                   bg, job, is_manual, manualVars, bg_error_, shutting_down_, waiting>>

CloseWake ==
    /\ closer = "closing" /\ Closer \notin waiting
    /\ IF background_compaction_scheduled_
       THEN waiting' = waiting \cup {Closer} /\ UNCHANGED closer
       ELSE closer' = "closed" /\ UNCHANGED waiting
    /\ UNCHANGED <<memVars, versionVars, edit_log, background_compaction_scheduled_,
                   bg, job, is_manual, manualVars, bg_error_, shutting_down_>>

\* std::condition_variable::wait may return without a notification.
SpuriousWakeup ==
    /\ \E t \in waiting : waiting' = waiting \ {t}
    /\ UNCHANGED <<memVars, versionVars, edit_log, background_compaction_scheduled_,
                   bg, job, is_manual, manualVars, bg_error_, shutting_down_, closer>>
-----------------------------------------------------------------------------
(***************************************************************************)
(* The background thread                                                   *)
(***************************************************************************)
\* RecordBackgroundError: the first error sticks; every caller notifies.
RecordBackgroundError == bg_error_' = TRUE

\* BackgroundCall once the database is closing or has failed.
BackgroundSkip ==
    /\ bg = "queued"
    /\ shutting_down_ \/ bg_error_
    /\ UNCHANGED <<memVars, versionVars, edit_log, job, is_manual, manualVars,
                   bg_error_, shutting_down_, closer>>
    /\ FinishCall

CanStart == bg = "queued" /\ ~shutting_down_ /\ ~bg_error_

\* BackgroundCompaction: the immutable memtable comes first.
StartFlush ==
    /\ CanStart /\ imm_ # NULL
    /\ bg' = "build"
    /\ UNCHANGED <<memVars, versionVars, edit_log, background_compaction_scheduled_,
                   job, is_manual, manualVars, bg_error_, shutting_down_, closer,
                   waiting>>

\* Variant of StartManualEmpty that does not set m->done.
StartManualEmpty_NotDone ==
    /\ CanStart /\ imm_ = NULL /\ manual_compaction_ # NULL
    /\ left[manual_compaction_] = 0 \/ flushed = {}
    /\ manual_compaction_' = NULL
    /\ UNCHANGED <<memVars, versionVars, edit_log, job, is_manual, cpc, mdone, left,
                   calls, bg_error_, shutting_down_, closer>>
    /\ FinishCall

\* BackgroundCompaction with a manual request whose range holds no input left.
StartManualEmpty ==
    /\ CanStart /\ imm_ = NULL /\ manual_compaction_ # NULL
    /\ left[manual_compaction_] = 0 \/ flushed = {}
    /\ mdone' = [mdone EXCEPT ![manual_compaction_] = TRUE]
    /\ manual_compaction_' = NULL
    /\ UNCHANGED <<memVars, versionVars, edit_log, job, is_manual, cpc, left,
                   calls, bg_error_, shutting_down_, closer>>
    /\ FinishCall

\* VersionSet::CompactRange found inputs: level-0 files or files of a deeper level.
StartManual ==
    /\ CanStart /\ imm_ = NULL /\ manual_compaction_ # NULL
    /\ left[manual_compaction_] > 0
    /\ \/ \E n \in 1..l0 : job' = [level |-> 0, n |-> n]
       \/ flushed # {} /\ job' = [level |-> 1, n |-> 0]
    /\ is_manual' = TRUE
    /\ bg' = "compact"
    /\ UNCHANGED <<memVars, versionVars, edit_log, background_compaction_scheduled_,
                   manualVars, bg_error_, shutting_down_, closer, waiting>>

\* PickCompaction; a trivial move goes straight to LogAndApply.
StartAuto ==
    /\ CanStart /\ imm_ = NULL /\ manual_compaction_ = NULL
    /\ \/ /\ l0 >= L0Trigger
          /\ \E n \in 1..l0 : job' = [level |-> 0, n |-> n]
       \/ backlog > 0 /\ job' = [level |-> 1, n |-> 0]
    /\ is_manual' = FALSE
    /\ \/ bg' = "compact"
       \/ job'.n <= 1 /\ bg' = "move"
    /\ UNCHANGED <<memVars, versionVars, edit_log, background_compaction_scheduled_,
                   manualVars, bg_error_, shutting_down_, closer, waiting>>

\* DoCompactionWork reads shutting_down_ and has_imm_ without the mutex and
\* gives way to a memtable that filled up meanwhile.
NestedFlush ==
    /\ bg = "compact" /\ ~shutting_down_ /\ imm_ # NULL
    /\ bg' = "cbuild"
    /\ UNCHANGED <<memVars, versionVars, edit_log, background_compaction_scheduled_,
                   job, is_manual, manualVars, bg_error_, shutting_down_, closer,
                   waiting>>

\* Where CompactMemTable returns to: BackgroundCall, or the merge loop.
AfterFlush ==
    IF bg \in {"build", "apply", "gc"} THEN FinishCall
    ELSE /\ bg' = "compact" /\ waiting' = {}
         /\ UNCHANGED background_compaction_scheduled_

\* Variant of BuildTableDone that takes the number of the next log.
BuildTableDone_NextLog ==
    /\ bg \in {"build", "cbuild"} /\ ~shutting_down_
    /\ edit_log' = mem_ + 1
    /\ bg' = IF bg = "build" THEN "apply" ELSE "capply"
    /\ UNCHANGED <<memVars, versionVars, background_compaction_scheduled_, job,
                   is_manual, manualVars, bg_error_, shutting_down_, closer, waiting>>

\* WriteLevel0Table is done: the edit takes the number of the current log.
BuildTableDone ==
    /\ bg \in {"build", "cbuild"} /\ ~shutting_down_
    /\ edit_log' = mem_
    /\ bg' = IF bg = "build" THEN "apply" ELSE "capply"
    /\ UNCHANGED <<memVars, versionVars, background_compaction_scheduled_, job,
                   is_manual, manualVars, bg_error_, shutting_down_, closer, waiting>>

\* It failed, LogAndApply failed, or the database is being deleted.
FlushFailed ==
    /\ \/ bg \in {"build", "cbuild"} /\ (shutting_down_ \/ IOFails)
       \/ bg \in {"apply", "capply"} /\ IOFails
    /\ RecordBackgroundError
    /\ UNCHANGED <<memVars, versionVars, edit_log, job, is_manual, manualVars,
                   shutting_down_, closer>>
    /\ AfterFlush

\* LogAndApply installed the version: the file went to level 0 or deeper
\* (PickLevelForMemTableOutput), logs before edit_log are obsolete, and
\* RemoveObsoleteFiles deletes them unless there was an error.
FlushApplied ==
    /\ bg \in {"apply", "capply"}
    /\ flushed' = flushed \cup {imm_}
    /\ imm_' = NULL /\ UNCHANGED mem_
    /\ log_number' = edit_log
    /\ l0' \in {l0, l0 + 1} /\ backlog' \in 0..MaxBacklog
    /\ UNCHANGED <<edit_log, job, is_manual, manualVars, bg_error_,
                   shutting_down_, closer>>
    /\ IF bg_error_ THEN AfterFlush
       ELSE /\ bg' = IF bg = "apply" THEN "gc" ELSE "cgc"
            /\ UNCHANGED <<background_compaction_scheduled_, waiting>>

\* CompactMemTable is back from RemoveObsoleteFiles.
FlushCollected ==
    /\ bg \in {"gc", "cgc"}
    /\ UNCHANGED <<memVars, versionVars, edit_log, job, is_manual, manualVars,
                   bg_error_, shutting_down_, closer>>
    /\ AfterFlush

\* The end of BackgroundCompaction.  A manual request is taken from
\* manual_compaction_ again; without it *m is a null dereference.
EndCompaction(ok) ==
    /\ UNCHANGED <<memVars, edit_log, cpc, calls, shutting_down_, closer>>
    /\ job' = NoJob /\ is_manual' = FALSE
    /\ IF is_manual
       THEN IF manual_compaction_ = NULL
            THEN /\ bg' = "crashed"
                 /\ UNCHANGED <<mdone, left, manual_compaction_, waiting,
                                background_compaction_scheduled_>>
            ELSE /\ IF ok
                    THEN /\ left' = [left EXCEPT ![manual_compaction_] = @ - 1]
                         /\ UNCHANGED mdone
                    ELSE /\ mdone' = [mdone EXCEPT ![manual_compaction_] = TRUE]
                         /\ UNCHANGED left
                 /\ manual_compaction_' = NULL
                 /\ FinishCall
       ELSE UNCHANGED <<mdone, left, manual_compaction_>> /\ FinishCall

\* The merge loop ran to the end.
CompactionMerged ==
    /\ bg = "compact" /\ ~shutting_down_
    /\ bg' = "install"
    /\ UNCHANGED <<memVars, versionVars, edit_log, background_compaction_scheduled_,
                   job, is_manual, manualVars, bg_error_, shutting_down_, closer,
                   waiting>>

\* It failed or was interrupted by ~DBImpl, or LogAndApply failed.
CompactionFailed ==
    /\ \/ bg = "compact" /\ (shutting_down_ \/ IOFails)
       \/ bg \in {"install", "move"} /\ IOFails
    /\ RecordBackgroundError
    /\ UNCHANGED versionVars
    /\ EndCompaction(FALSE)

\* InstallCompactionResults (or the trivial move) installed the version: the
\* inputs left their level, and a compaction is followed by RemoveObsoleteFiles.
CompactionInstalled ==
    /\ bg \in {"install", "move"}
    /\ l0' = l0 - job.n
    /\ backlog' \in 0..MaxBacklog
    /\ job.level = 0 \/ is_manual \/ backlog' = 0 \/ backlog' < backlog
    /\ UNCHANGED <<flushed, log_number, bg_error_>>
    /\ IF bg = "move" \/ bg_error_ THEN EndCompaction(TRUE)
       ELSE /\ bg' = "igc"
            /\ UNCHANGED <<memVars, edit_log, background_compaction_scheduled_, job,
                           is_manual, manualVars, shutting_down_, closer, waiting>>

\* BackgroundCompaction is back from RemoveObsoleteFiles.
CompactionCollected ==
    /\ bg = "igc"
    /\ UNCHANGED <<versionVars, bg_error_>>
    /\ EndCompaction(TRUE)

BackgroundThread ==
    \/ BackgroundSkip \/ StartFlush \/ StartManualEmpty \/ StartManual \/ StartAuto
    \/ NestedFlush \/ BuildTableDone \/ FlushFailed \/ FlushApplied
    \/ FlushCollected
    \/ CompactionMerged \/ CompactionFailed \/ CompactionInstalled \/ CompactionCollected

\* The calls of a compactor thread, and of the thread that closes the database.
CompactRange(c) == CompactRangeCall(c) \/ CompactRangeWait(c) \/ CompactRangeReturn(c)
-----------------------------------------------------------------------------
(***************************************************************************)
(* The component on its own: any writer may fill the memtable, and may     *)
(* fail to sync the log.                                                   *)
(***************************************************************************)
\* A writer at the head of the queue finds the memtable full.
FillMemTable ==
    /\ closer = "open"
    /\ SwitchMemTable
    /\ UNCHANGED <<edit_log, job, is_manual, cpc, mdone, left, calls, closer, waiting>>

\* A writer finds that the sync of the log failed.
SyncError ==
    /\ IOFails /\ closer = "open" /\ ~bg_error_
    /\ RecordBackgroundError /\ waiting' = {}
    /\ UNCHANGED <<memVars, versionVars, edit_log, background_compaction_scheduled_, bg, job,
                   is_manual, manualVars, shutting_down_, closer>>

\* Nothing runs and nobody is inside a call: the database may stay idle for ever.
BgQuiescent ==
    /\ bg \in {"idle", "crashed"}
    /\ closer # "closing"
    /\ \A c \in Compactors : cpc[c] = "idle"

BgIdle == BgQuiescent /\ UNCHANGED bgVars

BgNext ==
    \/ BackgroundThread
    \/ \E c \in Compactors : CompactRange(c)
    \/ FillMemTable \/ SyncError \/ UpdateStats
    \/ Close \/ CloseWake \/ SpuriousWakeup
    \/ BgIdle

BgSpec == BgInit /\ [][BgNext]_bgVars

\* The Env's thread keeps running what is scheduled, and a thread that was
\* notified eventually gets the mutex.  Clients need not make calls.
BgFairness ==
    /\ WF_bgVars(BackgroundThread)
    /\ \A c \in Compactors : WF_bgVars(CompactRangeWait(c) \/ CompactRangeReturn(c))
    /\ WF_bgVars(CloseWake)

BgFairSpec == BgSpec /\ BgFairness
-----------------------------------------------------------------------------
(***************************************************************************)
(* Properties                                                              *)
(***************************************************************************)
\* Whenever there is background work (a full memtable, a manual request, a
\* level over its limit) and no error or shutdown forbids it, a background
\* call is scheduled or running: no caller of MaybeScheduleCompaction is
\* forgotten, whatever happened while the background thread had the mutex
\* released.
WorkIsScheduled == MayRun => background_compaction_scheduled_

\* The flag background_compaction_scheduled_ says exactly whether the Env
\* holds a call of BGWork: there is never a second one.
ScheduledMeansRunning == background_compaction_scheduled_ <=> bg # "idle"

\* A thread blocked on background_work_finished_signal_ always has a
\* background call under way that ends with notify_all (or there would be
\* nobody left to wake it).
WaitersWillBeNotified == waiting # {} => background_compaction_scheduled_

\* Every memtable that is not yet in the current version has its log at or
\* after the manifest's LogNumber(): RemoveObsoleteFiles never deletes a log
\* that recovery still needs, although CompactMemTable reads logfile_number_
\* only after the table was built with the mutex released.
LogsCoverUnflushed == \A t \in 1..mem_ : t \in flushed \/ t >= log_number

\* While a manual compaction runs, manual_compaction_ is still the request
\* it works for, so that the end of BackgroundCompaction can update *m.
ManualRequestLives == bg \in Compacting /\ is_manual => manual_compaction_ # NULL

\* What ManualRequestLives says, as long as no background error is recorded:
\* neither another caller of TEST_CompactRange that returns nor the destructor
\* takes the request away from the compaction that works on it.
RequestLivesUnlessError == ~bg_error_ => ManualRequestLives

\* Once ~DBImpl is past its wait loop no background call runs or is queued,
\* so nothing touches the deleted members.
ClosedIsQuiet == closer = "closed" => bg = "idle"

\* A full memtable is eventually flushed, unless an error or shutdown stops
\* the background work.
ImmEventuallyFlushed ==
    \A t \in Tables : imm_ = t ~> t \in flushed \/ bg_error_ \/ shutting_down_

\* TEST_CompactRange returns, also after errors, unless the end of
\* BackgroundCompaction dereferenced a null request.
ManualCompactionReturns ==
    \A c \in Compactors : cpc[c] = "loop" ~> cpc[c] = "idle" \/ bg = "crashed"

\* ~DBImpl finishes, also after errors, with the same exception.
CloseCompletes == closer = "closing" ~> closer = "closed" \/ bg = "crashed"

\* Nothing waits for ever: memtables are flushed, TEST_CompactRange returns and
\* ~DBImpl completes, whatever fails and however they meet.
CallsComplete == ImmEventuallyFlushed /\ ManualCompactionReturns /\ CloseCompletes
=============================================================================
