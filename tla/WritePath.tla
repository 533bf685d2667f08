----------------------------- MODULE WritePath ------------------------------
(***************************************************************************)
(* The write and read paths of DBImpl (kv/db/db_impl.cpp) on top of the    *)
(* background work: the queue of writers and its group commit, the         *)
(* write-ahead log, the memtables with their reference counts, Get, and    *)
(* TEST_CompactMemTable.                                                   *)
(*                                                                         *)
(* As in Background an action is one critical section of mutex_, or one    *)
(* step taken without it by the writer at the head of the queue or by a    *)
(* reader.  An update (a put or a deletion) is an entry [key, seq]; its    *)
(* value is represented by its sequence number.  Compactions keep what a   *)
(* version answers, so the table file of memtable t is sst[t] as long as t *)
(* is in the version.                                                      *)
(***************************************************************************)
EXTENDS Background, FiniteSets, FiniteSetsExt, Sequences

CONSTANTS
    Keys, Writers, Readers,
    Batches,          \* the batches that are written: sequences of keys
    Syncs,            \* the values of WriteOptions::sync in use
    Forced,           \* the writers that may call TEST_CompactMemTable
    LogFails,         \* whether operations on the log may fail
    MemLimit,         \* entries at which a memtable is over write_buffer_size
    SmallBatch,       \* entries of a small batch (128 << 10 in BuildBatchGroup)
    GroupLimit,       \* entries of a group (1 << 20 in BuildBatchGroup)
    L0Slowdown,       \* config::kL0_SlowdownWritesTrigger
    MaxCalls,         \* bound: writes per writer
    MaxGets           \* bound: reads per reader

ASSUME WritePathAssumption ==
    /\ MemLimit \in Nat \ {0} /\ GroupLimit \in Nat /\ SmallBatch \in Nat
    /\ L0Slowdown \in Nat
    /\ MaxCalls \in Nat /\ MaxGets \in Nat
    /\ Syncs \subseteq BOOLEAN /\ LogFails \in BOOLEAN /\ (LogFails => IOFails)
    /\ NULL \notin Batches /\ \A b \in Batches : b \in Seq(Keys)
    /\ IsFiniteSet(Writers) /\ IsFiniteSet(Readers)
    /\ Writers \cap (Compactors \cup {Closer}) = {}

VARIABLES
    writers_,       \* the queue of writers
    wpc,            \* per writer: where it is in Write
    req,            \* per writer: its batch and sync flag
    wres,           \* per writer: "none", or the status a leader stored in it
    asleep,         \* writers blocked on their own condition variable
    allow_delay,    \* local to the leader in MakeRoomForWrite
    group,          \* local to the leader: the batch group it writes
    last_sequence,  \* versions_->LastSequence()
    tables,         \* contents of the memtables
    refs,           \* reference counts of the memtables
    log, synced,    \* per log: its records, how many of them are synced
    torn,           \* per log: after how many records an append to it failed
    sst,            \* contents of the table file built from a memtable
    get,            \* per reader: its Get in progress
    wcalls, gets,   \* calls made
    promised        \* history: sequence numbers acknowledged to sync writers

writeVars == <<writers_, wpc, req, wres, asleep, allow_delay, group, last_sequence,
               tables, refs, log, synced, torn, sst, get, wcalls, gets, promised>>
queueVars == <<writers_, wpc, wres, asleep>>
dataVars == <<last_sequence, tables, refs, log, synced, torn, sst, get, gets, promised>>
vars == <<bgVars, writeVars>>

NoGroup == [n |-> 0, keys |-> <<>>, first |-> 0, mem |-> NULL, done |-> 0, status |-> "ok"]
NoGet == [pc |-> "none"]

WriteInit ==
    /\ BgInit
    /\ writers_ = <<>> /\ asleep = {} /\ allow_delay = FALSE /\ group = NoGroup
    /\ wpc = [w \in Writers |-> "idle"]
    /\ req = [w \in Writers |-> [batch |-> NULL, sync |-> FALSE]]
    /\ wres = [w \in Writers |-> "none"]
    /\ last_sequence = 0
    /\ tables = [t \in Tables |-> {}]
    /\ refs = [t \in Tables |-> IF t = mem_ THEN 1 ELSE 0]
    /\ log = [t \in Tables |-> <<>>] /\ synced = [t \in Tables |-> 0]
    /\ torn = [t \in Tables |-> {}]
    /\ sst = [t \in Tables |-> {}]
    /\ get = [r \in Readers |-> NoGet]
    /\ wcalls = [w \in Writers |-> 0] /\ gets = [r \in Readers |-> 0]
    /\ promised = {}
-----------------------------------------------------------------------------
(***************************************************************************)
(* Group commit                                                            *)
(***************************************************************************)
\* A batch as a sequence of keys; the null batch of TEST_CompactMemTable has none.
KeysOf(w) == IF req[w].batch = NULL THEN <<>> ELSE req[w].batch

\* The first n writers of a queue, the leader included, as one batch: the
\* batches are appended to each other in the order of the queue.
GroupKeys(q, n) ==
    LET upto[i \in 0..n] == IF i = 0 THEN <<>> ELSE upto[i - 1] \o KeysOf(q[i])
    IN  upto[n]

MaxSize(w) == IF Len(KeysOf(w)) <= SmallBatch THEN Len(KeysOf(w)) + SmallBatch
              ELSE GroupLimit

\* Variant of BuildBatchGroup that also takes sync writers into a non-sync group.
BuildBatchGroup_AnySync(q) ==
    CHOOSE n \in 1..Len(q) :
        /\ \A i \in 2..n : req[q[i]].batch = NULL \/ Len(GroupKeys(q, i)) <= MaxSize(q[1])
        /\ n < Len(q) => req[q[n + 1]].batch # NULL /\ Len(GroupKeys(q, n + 1)) > MaxSize(q[1])

\* How many writers of the queue q the leader takes along: it stops before
\* a sync write if it is not one itself, and before the group gets too big.
BuildBatchGroup(q) ==
    CHOOSE n \in 1..Len(q) :
        /\ \A i \in 2..n : /\ req[q[i]].sync => req[q[1]].sync
                           /\ \/ req[q[i]].batch = NULL
                              \/ Len(GroupKeys(q, i)) <= MaxSize(q[1])
        /\ n < Len(q) => \/ req[q[n + 1]].sync /\ ~req[q[1]].sync
                         \/ /\ req[q[n + 1]].batch # NULL
                            /\ Len(GroupKeys(q, n + 1)) > MaxSize(q[1])

\* Where Write returns to: its caller, or TEST_CompactMemTable.
Returned(w, status) == IF req[w].batch = NULL /\ status = "ok" THEN "cmt" ELSE "idle"

\* Variant of Complete that does not notify the new head of the write queue.
Complete_NoNotify(w, q, n, status) ==
    LET followers == {q[i] : i \in 2..n}
    IN  /\ writers_' = SubSeq(q, n + 1, Len(q))
        /\ wres' = [v \in Writers |-> IF v \in followers THEN status ELSE wres[v]]
        /\ asleep' = asleep \ followers
        /\ wpc' = [wpc EXCEPT ![w] = Returned(w, status)]

\* The end of Write: the leader w takes the first n writers off the queue q,
\* gives the others its status and wakes them, and wakes the new front.
Complete(w, q, n, status) ==
    LET followers == {q[i] : i \in 2..n}
        front == IF n < Len(q) THEN {q[n + 1]} ELSE {}
    IN  /\ writers_' = SubSeq(q, n + 1, Len(q))
        /\ wres' = [v \in Writers |-> IF v \in followers THEN status ELSE wres[v]]
        /\ asleep' = asleep \ (followers \cup front)
        /\ wpc' = [wpc EXCEPT ![w] = Returned(w, status)]

\* Write after MakeRoomForWrite returned OK; a null batch is done with it.
Lead(w, q) ==
    IF req[w].batch = NULL
    THEN Complete(w, q, 1, "ok") /\ UNCHANGED group
    ELSE LET n == BuildBatchGroup(q)
         IN  /\ group' = [n |-> n, keys |-> GroupKeys(q, n), first |-> last_sequence + 1,
                          mem |-> NULL, done |-> 0, status |-> "ok"]
             /\ writers_' = q
             /\ wpc' = [wpc EXCEPT ![w] = "log"]
             /\ UNCHANGED <<wres, asleep>>

\* The writer stays in MakeRoomForWrite: it sleeps, or waits for background work.
Stay(w, q, pc) ==
    /\ writers_' = q
    /\ wpc' = [wpc EXCEPT ![w] = pc]
    /\ UNCHANGED <<wres, asleep, group>>

MemTableFull == Cardinality(tables[mem_]) >= MemLimit

\* MakeRoomForWrite from the head of its loop, for the writer w at the front
\* of the queue q, up to where it releases the mutex or Write returns.
MakeRoomForWrite(w, q, delay) ==
    LET force == req[w].batch = NULL
        slow == delay /\ l0 >= L0Slowdown
        room == ~force /\ ~MemTableFull
    IN  /\ allow_delay' = delay
        /\ \/ /\ bg_error_
              /\ Complete(w, q, 1, "err")
              /\ UNCHANGED <<bgVars, group, refs>>
           \/ /\ ~bg_error_ /\ slow
              /\ Stay(w, q, "delay")
              /\ UNCHANGED <<bgVars, refs>>
           \/ /\ ~bg_error_ /\ ~slow /\ room
              /\ Lead(w, q)
              /\ UNCHANGED <<bgVars, refs>>
           \/ /\ ~bg_error_ /\ ~slow /\ ~room
              /\ imm_ # NULL \/ l0 >= L0Stop
              /\ Stay(w, q, "room")
              /\ waiting' = waiting \cup {w}
              /\ UNCHANGED <<memVars, versionVars, edit_log,
                             background_compaction_scheduled_, bg, job, is_manual,
                             manualVars, bg_error_, shutting_down_, closer, refs>>
           \/ /\ ~slow /\ ~room
              /\ SwitchMemTable
              /\ refs' = [refs EXCEPT ![mem_ + 1] = 1]
              /\ Lead(w, q)
              /\ UNCHANGED <<edit_log, job, is_manual, cpc, mdone, left, calls,
                             closer, waiting>>
           \/ /\ ~bg_error_ /\ ~slow /\ ~room
              /\ imm_ = NULL /\ l0 < L0Stop /\ LogFails
              /\ Complete(w, q, 1, "err")
              /\ UNCHANGED <<bgVars, group, refs>>
-----------------------------------------------------------------------------
(***************************************************************************)
(* Write, step by step                                                     *)
(***************************************************************************)
\* Write (or TEST_CompactMemTable) up to the mutex: the Writer on the stack.
Call(w) ==
    /\ closer = "open" /\ wpc[w] = "idle" /\ wcalls[w] < MaxCalls
    /\ wpc' = [wpc EXCEPT ![w] = "enter"]
    /\ \/ \E b \in Batches, s \in Syncs : req' = [req EXCEPT ![w] = [batch |-> b, sync |-> s]]
       \/ w \in Forced /\ req' = [req EXCEPT ![w] = [batch |-> NULL, sync |-> FALSE]]
    /\ wres' = [wres EXCEPT ![w] = "none"]
    /\ wcalls' = [wcalls EXCEPT ![w] = @ + 1]
    /\ UNCHANGED <<bgVars, writers_, asleep, allow_delay, group, dataVars>>

\* It joins the queue, and goes on at once if the queue was empty.
Enter(w) ==
    /\ wpc[w] = "enter"
    /\ LET q == Append(writers_, w)
       IN  IF q[1] = w
           THEN MakeRoomForWrite(w, q, req[w].batch # NULL)
           ELSE /\ writers_' = q
                /\ wpc' = [wpc EXCEPT ![w] = "queued"]
                /\ asleep' = asleep \cup {w}
                /\ UNCHANGED <<bgVars, wres, group, allow_delay, refs>>
    /\ UNCHANGED <<req, wcalls, last_sequence, tables, log, synced, torn, sst,
                   get, gets, promised>>

\* Variant of Wake: an if instead of a while around the wait.
Wake_Once(w) ==
    /\ wpc[w] = "queued" /\ w \notin asleep
    /\ IF wres[w] # "none"
       THEN /\ wpc' = [wpc EXCEPT ![w] = Returned(w, wres[w])]
            /\ UNCHANGED <<bgVars, writers_, wres, asleep, group, allow_delay, refs>>
       ELSE MakeRoomForWrite(w, writers_, req[w].batch # NULL)
    /\ UNCHANGED <<req, wcalls, last_sequence, tables, log, synced, torn, sst,
                   get, gets, promised>>

\* It wakes up (perhaps without having been notified) and looks again.
Wake(w) ==
    /\ wpc[w] = "queued" /\ w \notin asleep
    /\ IF wres[w] # "none"
       THEN /\ wpc' = [wpc EXCEPT ![w] = Returned(w, wres[w])]
            /\ UNCHANGED <<bgVars, writers_, wres, asleep, group, allow_delay, refs>>
       ELSE IF writers_[1] = w
       THEN MakeRoomForWrite(w, writers_, req[w].batch # NULL)
       ELSE /\ asleep' = asleep \cup {w}
            /\ UNCHANGED <<bgVars, writers_, wpc, wres, group, allow_delay, refs>>
    /\ UNCHANGED <<req, wcalls, last_sequence, tables, log, synced, torn, sst,
                   get, gets, promised>>

SpuriousWriterWakeup ==
    /\ \E w \in asleep : asleep' = asleep \ {w}
    /\ UNCHANGED <<bgVars, writers_, wpc, wres, req, allow_delay, group, dataVars,
                   wcalls>>

\* The leader is back from background_work_finished_signal_, or from its
\* one-millisecond sleep, and is at the head of the loop again.
RoomAgain(w) ==
    /\ \/ wpc[w] = "room" /\ w \notin waiting /\ MakeRoomForWrite(w, writers_, allow_delay)
       \/ wpc[w] = "delay" /\ MakeRoomForWrite(w, writers_, FALSE)
    /\ UNCHANGED <<req, wcalls, last_sequence, tables, log, synced, torn, sst,
                   get, gets, promised>>

Entry(i) == [key |-> group.keys[i], seq |-> group.first + i - 1]

\* log_->AddRecord, with the mutex released.  A failed call leaves part of the
\* record in the file or nothing of it, and the writer goes on after it as if it
\* were complete: the log has a torn record there.
AddRecord(w) ==
    /\ wpc[w] = "log"
    /\ \/ /\ log' = [log EXCEPT ![mem_] = Append(@, {Entry(i) : i \in DOMAIN group.keys})]
          /\ wpc' = [wpc EXCEPT ![w] = IF req[w].sync THEN "sync" ELSE "insert"]
          /\ group' = [group EXCEPT !.mem = mem_]
          /\ UNCHANGED torn
       \/ /\ LogFails
          /\ torn' = [torn EXCEPT ![mem_] = @ \cup {Len(log[mem_])}]
          /\ wpc' = [wpc EXCEPT ![w] = "publish"]
          /\ group' = [group EXCEPT !.status = "err"]
          /\ UNCHANGED log
    /\ UNCHANGED <<bgVars, writers_, wres, asleep, req, allow_delay, last_sequence,
                   tables, refs, synced, sst, get, wcalls, gets, promised>>

Sync(w) ==
    /\ wpc[w] = "sync"
    /\ \/ /\ synced' = [synced EXCEPT ![mem_] = Len(log[mem_])]
          /\ wpc' = [wpc EXCEPT ![w] = "insert"]
          /\ group' = [group EXCEPT !.mem = mem_]
       \/ /\ LogFails
          /\ wpc' = [wpc EXCEPT ![w] = "publish"]
          /\ group' = [group EXCEPT !.status = "sync_error"]
          /\ UNCHANGED synced
    /\ UNCHANGED <<bgVars, writers_, wres, asleep, req, allow_delay, last_sequence,
                   tables, refs, log, torn, sst, get, wcalls, gets, promised>>

\* WriteBatchInternal::InsertInto: one MemTable::Add at a time, no mutex.
InsertInto(w) ==
    /\ wpc[w] = "insert"
    /\ IF group.done < Len(group.keys)
       THEN /\ tables' = [tables EXCEPT ![group.mem] = @ \cup {Entry(group.done + 1)}]
            /\ group' = [group EXCEPT !.done = @ + 1]
            /\ UNCHANGED wpc
       ELSE wpc' = [wpc EXCEPT ![w] = "publish"] /\ UNCHANGED <<tables, group>>
    /\ UNCHANGED <<bgVars, writers_, wres, asleep, req, allow_delay, last_sequence,
                   refs, log, synced, torn, sst, get, wcalls, gets, promised>>

\* The updates of the group that its sync writers asked for.
SyncUpdates ==
    UNION {Len(GroupKeys(writers_, i - 1)) + 1 .. Len(GroupKeys(writers_, i)) :
           i \in {j \in 1..group.n : req[writers_[j]].sync}}

\* Variant of Publish that counts the group as one update.
Publish_CountsOne(w) ==
    /\ wpc[w] = "publish"
    /\ last_sequence' = last_sequence + 1
    /\ Complete(w, writers_, group.n, IF group.status = "ok" THEN "ok" ELSE "err")
    /\ group' = NoGroup
    /\ UNCHANGED <<bgVars, req, allow_delay, tables, refs, log, synced, torn, sst, get, wcalls,
                   gets, promised>>

\* Variant of Publish that takes the outcome of the write for the background error.
Publish_LastStatus(w) ==
    /\ wpc[w] = "publish"
    /\ last_sequence' = last_sequence + Len(group.keys)
    /\ bg_error_' = (group.status = "sync_error") /\ waiting' = {}
    /\ Complete(w, writers_, group.n, IF group.status = "ok" THEN "ok" ELSE "err")
    /\ group' = NoGroup
    /\ UNCHANGED <<memVars, versionVars, edit_log, background_compaction_scheduled_, bg,
                   job, is_manual, manualVars, shutting_down_, closer, req, allow_delay,
                   tables, refs, log, synced, torn, sst, get, wcalls, gets, promised>>

\* The leader has the mutex again: SetLastSequence, and the end of Write.  What
\* follows a torn record may be lost with it, so nothing is promised for it.
Publish(w) ==
    /\ wpc[w] = "publish"
    /\ last_sequence' = last_sequence + Len(group.keys)
    /\ IF group.status = "sync_error"
       THEN /\ RecordBackgroundError
            /\ waiting' = IF bg_error_ THEN waiting ELSE {}
       ELSE UNCHANGED <<bg_error_, waiting>>
    /\ Complete(w, writers_, group.n, IF group.status = "ok" THEN "ok" ELSE "err")
    /\ promised' = IF group.status = "ok" /\ torn[mem_] = {}
                   THEN promised \cup {Entry(j).seq : j \in SyncUpdates}
                   ELSE promised
    /\ group' = NoGroup
    /\ UNCHANGED <<memVars, versionVars, edit_log, background_compaction_scheduled_, bg,
                   job, is_manual, manualVars, shutting_down_, closer, req, allow_delay,
                   tables, refs, log, synced, torn, sst, get, wcalls, gets>>

\* TEST_CompactMemTable waits until there is no immutable memtable.
CompactMemTableWait(w) ==
    /\ wpc[w] = "cmt" /\ w \notin waiting
    /\ IF imm_ # NULL /\ ~bg_error_
       THEN waiting' = waiting \cup {w} /\ UNCHANGED wpc
       ELSE wpc' = [wpc EXCEPT ![w] = "idle"] /\ UNCHANGED waiting
    /\ UNCHANGED <<memVars, versionVars, edit_log, background_compaction_scheduled_, bg,
                   job, is_manual, manualVars, bg_error_, shutting_down_, closer,
                   writers_, wres, asleep, req, allow_delay, group, dataVars, wcalls>>

-----------------------------------------------------------------------------
(***************************************************************************)
(* Get                                                                     *)
(***************************************************************************)
\* The newest of the entries S for key k that a read at snapshot s sees, or 0.
Newest(S, k, s) == Max({0} \cup {e.seq : e \in {x \in S : x.key = k /\ x.seq <= s}})

Pins(r, t) == Cardinality({x \in {"mem", "imm"} : get[r][x] = t})

\* Variant of GetBegin that takes no reference to imm_.
GetBegin_NoImmRef(r) ==
    /\ closer = "open" /\ get[r] = NoGet /\ gets[r] < MaxGets
    /\ \E k \in Keys :
         get' = [get EXCEPT ![r] = [pc |-> "mem", key |-> k, snapshot |-> last_sequence,
                    mem |-> mem_, imm |-> imm_, current |-> flushed, value |-> 0]]
    /\ refs' = [refs EXCEPT ![mem_] = @ + 1]
    /\ gets' = [gets EXCEPT ![r] = @ + 1]
    /\ UNCHANGED <<bgVars, queueVars, req, allow_delay, group, last_sequence, tables,
                   log, synced, torn, sst, wcalls, promised>>

GetBegin(r) ==
    /\ closer = "open" /\ get[r] = NoGet /\ gets[r] < MaxGets
    /\ \E k \in Keys :
         get' = [get EXCEPT ![r] = [pc |-> "mem", key |-> k, snapshot |-> last_sequence,
                    mem |-> mem_, imm |-> imm_, current |-> flushed, value |-> 0]]
    /\ refs' = [t \in Tables |-> IF t \in {mem_, imm_} THEN refs[t] + 1 ELSE refs[t]]
    /\ gets' = [gets EXCEPT ![r] = @ + 1]
    /\ UNCHANGED <<bgVars, queueVars, req, allow_delay, group, last_sequence, tables,
                   log, synced, torn, sst, wcalls, promised>>

\* Variant of Lookup that forgets the immutable memtable.
Lookup_SkipsImm(r) ==
    LET g == get[r]
        value == Newest(IF g.pc = "mem" THEN tables[g.mem]
                        ELSE UNION {sst[t] : t \in g.current}, g.key, g.snapshot)
        next == CASE g.pc = "current" -> "update_stats"
                  [] g.pc = "mem" /\ value # 0 -> "done"
                  [] g.pc = "mem" /\ value = 0 -> "current"
    IN  /\ get' = [get EXCEPT ![r].pc = next, ![r].value = value]
        /\ UNCHANGED <<bgVars, queueVars, req, allow_delay, group, last_sequence, tables,
                       refs, log, synced, torn, sst, wcalls, gets, promised>>

\* With the mutex released: mem, then imm, then the version.
Lookup(r) ==
    LET g == get[r]
        sources == [mem |-> tables[g.mem],
                    imm |-> IF g.imm = NULL THEN {} ELSE tables[g.imm],
                    current |-> UNION {sst[t] : t \in g.current}]
        value == Newest(sources[g.pc], g.key, g.snapshot)
        next == CASE g.pc = "current" -> "update_stats"
                  [] g.pc # "current" /\ value # 0 -> "done"
                  [] g.pc = "mem" /\ value = 0 -> "imm"
                  [] g.pc = "imm" /\ value = 0 -> "current"
    IN  /\ get' = [get EXCEPT ![r].pc = next, ![r].value = value]
        /\ UNCHANGED <<bgVars, queueVars, req, allow_delay, group, last_sequence, tables,
                       refs, log, synced, torn, sst, wcalls, gets, promised>>

GetLookup(r) == get[r].pc \in {"mem", "imm", "current"} /\ Lookup(r)

\* With the mutex again: the seek statistics, and the references go.
GetEnd(r) ==
    /\ get[r].pc \in {"done", "update_stats"}
    /\ (get[r].pc = "update_stats" /\ UpdateStats) \/ UNCHANGED bgVars
    /\ refs' = [t \in Tables |-> refs[t] - Pins(r, t)]
    /\ get' = [get EXCEPT ![r] = NoGet]
    /\ UNCHANGED <<queueVars, req, allow_delay, group, last_sequence, tables,
                   log, synced, torn, sst, wcalls, gets, promised>>
-----------------------------------------------------------------------------
(***************************************************************************)
(* Composition with the background work                                    *)
(***************************************************************************)
\* BuildTable writes the contents of imm_ to the table file.
BuildTable == BuildTableDone /\ sst' = [sst EXCEPT ![imm_] = tables[imm_]]

\* CompactMemTable commits and drops its reference to imm_.
CommitFlush == FlushApplied /\ refs' = [refs EXCEPT ![imm_] = @ - 1]

OtherBackground ==
    \/ BackgroundSkip \/ StartFlush \/ StartManualEmpty \/ StartManual \/ StartAuto
    \/ NestedFlush \/ FlushFailed \/ FlushCollected
    \/ CompactionMerged \/ CompactionFailed \/ CompactionInstalled \/ CompactionCollected

BackgroundStep ==
    /\ \/ BuildTable /\ UNCHANGED refs
       \/ CommitFlush /\ UNCHANGED sst
       \/ OtherBackground /\ UNCHANGED <<refs, sst>>
    /\ UNCHANGED <<queueVars, req, allow_delay, group, last_sequence, tables, log,
                   synced, torn, get, wcalls, gets, promised>>

\* The database is deleted only when no call is in progress.
CloseDB ==
    /\ \/ Close /\ \A w \in Writers : wpc[w] = "idle"
       \/ CloseWake
    /\ \A r \in Readers : get[r] = NoGet
    /\ UNCHANGED writeVars

Write(w) ==
    \/ Enter(w) \/ Wake(w) \/ RoomAgain(w) \/ AddRecord(w) \/ Sync(w)
    \/ InsertInto(w) \/ Publish(w) \/ CompactMemTableWait(w)

Idle ==
    /\ BgQuiescent
    /\ \A w \in Writers : wpc[w] = "idle"
    /\ \A r \in Readers : get[r] = NoGet
    /\ UNCHANGED vars

WriteNext ==
    \/ BackgroundStep
    \/ \E w \in Writers : Call(w) \/ Write(w)
    \/ \E r \in Readers : GetBegin(r) \/ GetLookup(r) \/ GetEnd(r)
    \/ \E c \in Compactors : CompactRange(c) /\ UNCHANGED writeVars
    \/ SpuriousWakeup /\ UNCHANGED writeVars
    \/ SpuriousWriterWakeup
    \/ CloseDB \/ Idle

WriteSpec == WriteInit /\ [][WriteNext]_vars

\* The scheduler runs every thread that is not blocked; clients need not call.
WriteFairness ==
    /\ WF_vars(BackgroundStep)
    /\ \A w \in Writers : WF_vars(Write(w))
    /\ \A r \in Readers : WF_vars(GetLookup(r) \/ GetEnd(r))

WriteFairSpec == WriteSpec /\ WriteFairness

-----------------------------------------------------------------------------
(***************************************************************************)
(* Properties                                                              *)
(***************************************************************************)
Leading == {"room", "delay", "log", "sync", "insert", "publish"}

\* Only the writer at the front of the queue is past the queue: it alone
\* touches the log and mem_ while the mutex is released.
OneLeader == \A w \in Writers : wpc[w] \in Leading => writers_ # <<>> /\ writers_[1] = w

\* One leader at a time, and no notification of a writer's condition variable is
\* lost: whoever was answered by a leader, and whoever is at the front of the
\* queue, is awake.
NobodySleepsForEver ==
    /\ OneLeader
    /\ \A w \in asleep : /\ wpc[w] = "queued" /\ wres[w] = "none"
                      /\ \E i \in 2..Len(writers_) : writers_[i] = w

\* Write-ahead: an update is in a memtable only if the log that belongs to
\* this memtable has it, however writes and memtable switches interleave.
MemIsLogged ==
    \A t \in {mem_, imm_} \cap Tables : \A e \in tables[t] :
        \E i \in DOMAIN log[t] : e \in log[t][i]

\* The i-th record of log t is before every torn record: recovery reaches it.
Readable(t, i) == \A n \in torn[t] : i <= n

\* Every update in a memtable is in its log, and a write acknowledged with
\* sync = true survives a crash at any later time, unless an append to the same
\* log had failed before: it is in the synced part of a log that recovery reads,
\* before any record that an append failing later leaves torn, or in a table of
\* the current version.  A sync writer absorbed into a group counts as well.
\* (After a failed append the log is still in use, and recovery may drop what
\* follows the torn record: such writes are not counted here.)
SyncedDurableUnlessFailed ==
    /\ MemIsLogged
    /\ \A s \in promised :
        \/ \E t \in flushed : \E e \in sst[t] : e.seq = s
        \/ \E t \in log_number..mem_ : \E i \in 1..synced[t] :
              Readable(t, i) /\ \E e \in log[t][i] : e.seq = s

LiveEntries == tables[mem_] \cup (IF imm_ = NULL THEN {} ELSE tables[imm_])
                            \cup UNION {sst[t] : t \in flushed}

\* A sequence number belongs to one update, and numbers above LastSequence()
\* only to the group that is being written, also after failed writes.
SequenceNumbersUnique ==
    /\ \A e, f \in LiveEntries : e.seq = f.seq => e = f
    /\ \A e \in LiveEntries : e.seq > last_sequence =>
           \E i \in 1..group.done : e = Entry(i)

\* The references to memtable t that Gets in progress hold.
Holders(t) == {h \in Readers \X {"mem", "imm"} : get[h[1]] # NoGet /\ get[h[1]][h[2]] = t}

\* A memtable has exactly the references of DBImpl and of the reads that use
\* it: it is neither freed under a Get nor leaked.
RefsMatchHolders ==
    \A t \in Tables :
        refs[t] = (IF t \in {mem_, imm_} THEN 1 ELSE 0) + Cardinality(Holders(t))

\* While the background thread writes imm_ to a table with the mutex
\* released, no writer changes it.
ImmIsImmutable == [][imm_ # NULL => tables'[imm_] = tables[imm_]]_vars

\* Every Write and TEST_CompactMemTable returns.
WritersReturn == \A w \in Writers : wpc[w] # "idle" ~> wpc[w] = "idle"
=============================================================================
