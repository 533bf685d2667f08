-------------------------- MODULE WritePathProofs ---------------------------
(***************************************************************************)
(* What Write and Get do to the data, proved for any number of writers and *)
(* readers: where a sequence number is used, which log and which table     *)
(* have an update, which memtables a Get works with.                       *)
(***************************************************************************)
EXTENDS WritePathQueue

\* Zenon proves the leaves; those with arithmetic or records name SMT.  Each
\* has a second try with a longer limit, for a slow machine.
USE Zenon, ZenonT(40), SMTT(40)

Entries == [key : Keys, seq : Nat \ {0}]

DataTypes ==
    /\ tables \in [Tables -> SUBSET Entries]
    /\ sst \in [Tables -> SUBSET Entries]
    /\ log \in [Tables -> Seq(SUBSET Entries)]
    /\ synced \in [Tables -> Nat]
    /\ torn \in [Tables -> SUBSET Nat]

\* A table file in the version, or about to be, has what its memtable had, and
\* only memtables that were full are in the version.
FilesInv ==
    /\ \A t \in flushed : t < Oldest /\ sst[t] = tables[t]
    /\ bg \in {"apply", "capply"} => sst[imm_] = tables[imm_]

\* Sequence numbers grow from memtable to memtable and are not used twice;
\* numbers above LastSequence() are those the leader has inserted.
SeqInv ==
    /\ \A t \in Tables : t > mem_ => tables[t] = {}
    /\ \A t \in Tables : \A e \in tables[t] :
          e.seq > last_sequence => t = mem_ /\ \E i \in 1..group.done : e = Entry(i)
    /\ \A t, u \in Tables : t < u => \A e \in tables[t], f \in tables[u] : e.seq < f.seq
    /\ \A t \in Tables : \A e, f \in tables[t] : e.seq = f.seq => e = f
    /\ \A i \in 1..group.done : Entry(i) \in tables[mem_]

\* The update e is in the first n records of the log l.
Logged(e, l, n) == \E i \in 1..n : e \in l[i]

\* It is in the synced part of log t, before any torn record.
Safe(e, t) == \E i \in 1..synced[t] : e \in log[t][i] /\ Readable(t, i)

\* The log of a memtable has its updates before the memtable, and what a leader
\* may insert; the synced part has what was promised, before any torn record, and
\* what will be.
LogInv ==
    /\ \A t \in Tables : synced[t] <= Len(log[t])
    /\ \A t \in Tables : \A e \in tables[t] : Logged(e, log[t], Len(log[t]))
    /\ \A w \in Writers : wpc[w] \in Grouped \ {"log"} /\ group.status = "ok" =>
          \A i \in 1..Len(group.keys) : Logged(Entry(i), log[mem_], Len(log[mem_]))
    /\ \A w \in Writers : wpc[w] \in {"insert", "publish"} /\ group.status = "ok" /\ req[w].sync =>
          \A i \in 1..Len(group.keys) : Logged(Entry(i), log[mem_], synced[mem_])
    /\ \A s \in promised : \E t \in 1..mem_ : \E e \in tables[t] : e.seq = s /\ Safe(e, t)

\* A Get in progress.
GetStates ==
    [pc : {"mem", "imm", "current", "done", "update_stats"}, key : Keys, snapshot : Nat,
     mem : Tables, imm : Tables \cup {NULL}, current : SUBSET Tables, value : Nat]

\* It works with memtables that existed when it began, each of them once.
ReadInv ==
    /\ get \in [Readers -> {NoGet} \cup GetStates]
    /\ \A r \in Readers : get[r] # NoGet =>
          /\ get[r].mem <= mem_
          /\ get[r].imm # NULL => get[r].imm < get[r].mem
          /\ get[r].current \subseteq flushed
          /\ \A t \in get[r].current : t < get[r].mem /\ (get[r].imm # NULL => t < get[r].imm)
          /\ get[r].snapshot <= last_sequence

\* The inductive invariant of the write path.
WInv == CallsInv /\ DataTypes /\ FilesInv /\ SeqInv /\ LogInv /\ ReadInv
-----------------------------------------------------------------------------
(***************************************************************************)
(* The steps, by what they do to the data                                  *)
(***************************************************************************)
KeepsData == UNCHANGED <<tables, sst, log, synced, torn, last_sequence, promised>>

\* A leader that has written to the log stays where it is with its group; a
\* group that is replaced has nothing in the memtable.
KeepsGroup ==
    /\ group' = group \/ (group.done = 0 /\ group'.done = 0)
    /\ \A v \in Writers : wpc'[v] \in Grouped \ {"log"} =>
          wpc'[v] = wpc[v] /\ req'[v] = req[v] /\ group' = group

Quiet ==
    /\ KeepsData /\ KeepsGroup /\ UNCHANGED <<mem_, imm_, flushed>>
    /\ bg' \in {"apply", "capply"} => bg' = bg

\* A leader opens a new log and a new memtable.
Switch ==
    /\ KeepsData /\ FillMemTable
    /\ group.done = 0 /\ group'.done = 0
    /\ \A v \in Writers : wpc'[v] \notin Grouped \ {"log"}
    /\ refs' = [refs EXCEPT ![mem_ + 1] = 1] /\ UNCHANGED get

FlushFrame == UNCHANGED <<wpc, req, group, last_sequence, tables, log, synced, torn, get, promised, mem_>>

ReaderStep(r) == Quiet /\ (GetBegin(r) \/ GetLookup(r) \/ GetEnd(r))
LeaderStep(w) == AddRecord(w) \/ Sync(w) \/ InsertInto(w) \/ Publish(w)

DataStep ==
    \/ Quiet /\ UNCHANGED <<refs, get>>
    \/ \E r \in Readers : ReaderStep(r)
    \/ Switch
    \/ BuildTable /\ UNCHANGED refs /\ FlushFrame
    \/ CommitFlush /\ UNCHANGED sst /\ FlushFrame
    \/ \E w \in Writers : LeaderStep(w)

\* The critical sections of MakeRoomForWrite.
LEMMA RoomData ==
    ASSUME CallsInv, NEW w \in Writers, NEW q, Room(w, q)
    PROVE  DataStep
<1>1. /\ AtFront(w, q) /\ wpc[w] \notin Grouped /\ RoomQueue(w, q) /\ RoomBackground(w)
      /\ KeepsData /\ UNCHANGED <<req, get>>
  BY DEF Room, RoomFrame, KeepsData
<1>2. group = NoGroup
  BY <1>1, NoLeader DEF CallsInv
<1>3. group.done = 0 /\ group'.done = 0
  <2>1. group' = group \/ group'.done = 0
    <3>1. CASE Lead(w, q) /\ req[w].batch # NULL
      BY <3>1, SMT, SMTT(40) DEF Lead
    <3>2. CASE UNCHANGED group
      BY <3>2
    <3>3. ASSUME NEW pc, Stay(w, q, pc) PROVE UNCHANGED group
      BY <3>3 DEF Stay
    <3> QED
      BY <1>1, <3>1, <3>2, <3>3 DEF RoomQueue
  <2> QED
    BY <1>2, <2>1, SMT, SMTT(40) DEF NoGroup
<1>4. \A v \in Writers : wpc'[v] \notin Grouped \ {"log"}
  <2>1. \A v \in Writers : v # w => wpc[v] \notin Grouped
    BY <1>1 DEF AtFront, Leading, Grouped
  <2>2. \E pc \in {"idle", "cmt", "delay", "room", "log"} : wpc' = [wpc EXCEPT ![w] = pc]
    <3>1. ASSUME NEW st, Complete(w, q, 1, st)
          PROVE  wpc' = [wpc EXCEPT ![w] = "idle"] \/ wpc' = [wpc EXCEPT ![w] = "cmt"]
      BY <3>1 DEF Complete, Returned
    <3>2. ASSUME NEW pc, Stay(w, q, pc) PROVE wpc' = [wpc EXCEPT ![w] = pc]
      BY <3>2 DEF Stay
    <3>3. ASSUME Lead(w, q), req[w].batch # NULL PROVE wpc' = [wpc EXCEPT ![w] = "log"]
      BY <3>3 DEF Lead
    <3> QED
      BY <1>1, <3>1, <3>2, <3>3 DEF RoomQueue
  <2> QED
    BY <2>1, <2>2 DEF CallsInv, QueueInv, QueueTypes, Grouped
<1>5. KeepsGroup
  BY <1>3, <1>4 DEF KeepsGroup
<1>6. CASE UNCHANGED <<bgVars, refs>>
  BY <1>1, <1>5, <1>6 DEF bgVars, Quiet, DataStep
<1>7. CASE WriterWaits(w) /\ UNCHANGED refs
  BY <1>1, <1>5, <1>7 DEF WriterWaits, memVars, versionVars, Quiet, DataStep
<1>8. CASE FillMemTable /\ refs' = [refs EXCEPT ![mem_ + 1] = 1]
  BY <1>1, <1>3, <1>4, <1>8 DEF Switch, DataStep
<1> QED
  BY <1>1, <1>6, <1>7, <1>8 DEF RoomBackground

\* The steps of the background thread.
LEMMA BackgroundData ==
    ASSUME CallsInv, BackgroundStep
    PROVE  DataStep
<1>1. FlushFrame
  BY BackgroundFrame DEF FlushFrame, queueVars
<1>2. CASE OtherBackground /\ UNCHANGED <<refs, sst>>
  <2>1. UNCHANGED <<imm_, flushed>> /\ (bg' \in {"apply", "capply"} => bg' = bg)
    <3> USE DEF memVars, versionVars, FinishCall, AfterFlush, EndCompaction
    <3>1. BackgroundSkip \/ StartFlush \/ StartManualEmpty \/ StartManual => <2>1!:
      BY DEF BackgroundSkip, StartFlush, StartManualEmpty, StartManual
    <3>2. StartAuto \/ NestedFlush \/ FlushFailed \/ FlushCollected => <2>1!:
      BY DEF StartAuto, NestedFlush, FlushFailed, FlushCollected
    <3>3. CompactionMerged \/ CompactionFailed => <2>1!:
      BY DEF CompactionMerged, CompactionFailed
    <3>4. CompactionInstalled \/ CompactionCollected => <2>1!:
      BY DEF CompactionInstalled, CompactionCollected
    <3> QED
      BY <1>2, <3>1, <3>2, <3>3, <3>4 DEF OtherBackground
  <2>2. KeepsData /\ KeepsGroup
    BY <1>1, <1>2 DEF FlushFrame, KeepsData, KeepsGroup
  <2> QED
    BY <1>1, <1>2, <2>1, <2>2 DEF FlushFrame, Quiet, DataStep
<1> QED
  BY <1>1, <1>2 DEF BackgroundStep, DataStep

\* Every step of the write path.
LEMMA DataSteps ==
    ASSUME CallsInv, [WriteNext]_vars
    PROVE  DataStep
<1>1. ASSUME UNCHANGED <<tables, sst, log, synced, torn, last_sequence, promised, group, refs, get>>,
             UNCHANGED <<mem_, imm_, flushed>>, bg' \in {"apply", "capply"} => bg' = bg,
             NEW w \in Writers, NEW pc, pc \notin Grouped,
             UNCHANGED wpc \/ wpc' = [wpc EXCEPT ![w] = pc],
             wpc[w] \notin Grouped, \A v \in Writers : v # w => req'[v] = req[v]
      PROVE  DataStep
  <2>1. ASSUME NEW v \in Writers, wpc'[v] \in Grouped
        PROVE  wpc'[v] = wpc[v] /\ req'[v] = req[v]
    BY <1>1, <2>1 DEF CallsInv, QueueInv, QueueTypes
  <2>2. KeepsGroup
    BY <1>1, <2>1 DEF KeepsGroup
  <2> QED
    BY <1>1, <2>2 DEF KeepsData, Quiet, DataStep
<1>2. ASSUME NEW w \in Writers, Call(w) PROVE DataStep
  <2>1. /\ UNCHANGED <<tables, sst, log, synced, torn, last_sequence, promised, group, refs, get>>
        /\ UNCHANGED <<mem_, imm_, flushed, bg>>
        /\ wpc' = [wpc EXCEPT ![w] = "enter"] /\ wpc[w] = "idle"
    BY <1>2 DEF Call, dataVars, bgVars
  <2>2. \A v \in Writers : v # w => req'[v] = req[v]
    BY <1>2 DEF Call, CallsInv, QueueInv, QueueTypes
  <2> QED
    BY <1>1, <2>1, <2>2 DEF Grouped
<1>3. ASSUME NEW w \in Writers, Join(w) \/ SleepAgain(w) \/ Answered(w) PROVE DataStep
  <2>1. /\ UNCHANGED <<tables, sst, log, synced, torn, last_sequence, promised, group, refs, get, req>>
        /\ UNCHANGED <<mem_, imm_, flushed, bg>> /\ wpc[w] \in {"enter", "queued"}
    BY <1>3 DEF Join, SleepAgain, Answered, RoomFrame, bgVars
  <2>2. \E pc \in {"queued", "idle", "cmt"} : UNCHANGED wpc \/ wpc' = [wpc EXCEPT ![w] = pc]
    BY <1>3 DEF Join, SleepAgain, Answered, Returned
  <2> QED
    BY <1>1, <2>1, <2>2 DEF Grouped
<1>4. ASSUME NEW w \in Writers, CompactMemTableWait(w) PROVE DataStep
  <2>1. /\ UNCHANGED <<tables, sst, log, synced, torn, last_sequence, promised, group, refs, get, req>>
        /\ UNCHANGED <<mem_, imm_, flushed, bg>> /\ wpc[w] = "cmt"
    BY <1>4 DEF CompactMemTableWait, dataVars, memVars, versionVars
  <2>2. UNCHANGED wpc \/ wpc' = [wpc EXCEPT ![w] = "idle"]
    BY <1>4 DEF CompactMemTableWait
  <2> QED
    BY <1>1, <2>1, <2>2 DEF Grouped
<1>5. ASSUME NEW w \in Writers, Write(w) PROVE DataStep
  <2>1. CASE Enter(w) \/ Wake(w) \/ RoomAgain(w)
    <3>1. (\E q : Room(w, q)) \/ Join(w) \/ SleepAgain(w) \/ Answered(w)
      BY <2>1, QueueSteps DEF CallsInv
    <3> QED
      BY <1>3, <3>1, RoomData
  <2> QED
    BY <1>4, <1>5, <2>1 DEF Write, DataStep, LeaderStep
<1>6. ASSUME UNCHANGED <<tables, sst, log, synced, torn, last_sequence, promised, group, wpc, req>>,
             UNCHANGED <<mem_, imm_, flushed>>, bg' \in {"apply", "capply"} => bg' = bg
      PROVE  Quiet
  BY <1>6 DEF Quiet, KeepsData, KeepsGroup
<1>7. ASSUME NEW r \in Readers, GetBegin(r) \/ GetLookup(r) \/ GetEnd(r) PROVE DataStep
  <2>1. UNCHANGED <<tables, sst, log, synced, torn, last_sequence, promised, group, wpc, req>>
    BY <1>7 DEF GetBegin, GetLookup, Lookup, GetEnd, queueVars
  <2>2. UpdateStats => UNCHANGED <<mem_, imm_, flushed>> /\ (bg' \in {"apply", "capply"} => bg' = bg)
    BY DEF UpdateStats, memVars, MaybeScheduleCompaction
  <2>3. UNCHANGED bgVars => UNCHANGED <<mem_, imm_, flushed, bg>>
    BY DEF bgVars
  <2>4. UpdateStats \/ UNCHANGED bgVars
    BY <1>7 DEF GetBegin, GetLookup, Lookup, GetEnd
  <2>5. Quiet
    BY <1>6, <2>1, <2>2, <2>3, <2>4
  <2> QED
    BY <1>7, <2>5 DEF DataStep, ReaderStep
<1>8. ASSUME UNCHANGED writeVars, UNCHANGED <<mem_, imm_, flushed>>,
             bg' \in {"apply", "capply"} => bg' = bg
      PROVE  DataStep
  BY <1>6, <1>8 DEF writeVars, DataStep
<1>9. ASSUME NEW c \in Compactors, CompactRange(c)
      PROVE  UNCHANGED <<mem_, imm_, flushed>> /\ (bg' \in {"apply", "capply"} => bg' = bg)
  BY <1>9 DEF CompactRange, CompactRangeCall, CompactRangeWait, CompactRangeReturn, memVars,
     versionVars, MaybeScheduleCompaction
<1>10. ASSUME SpuriousWakeup \/ Close \/ CloseWake PROVE UNCHANGED <<mem_, imm_, flushed, bg>>
  BY <1>10 DEF SpuriousWakeup, Close, CloseWake, memVars, versionVars
<1>11. ASSUME SpuriousWriterWakeup PROVE DataStep
  BY <1>6, <1>11 DEF SpuriousWriterWakeup, bgVars, dataVars, DataStep
<1>12. ASSUME Idle \/ UNCHANGED vars PROVE UNCHANGED writeVars /\ UNCHANGED <<mem_, imm_, flushed, bg>>
  BY <1>12 DEF Idle, vars, bgVars
<1> QED
  BY <1>2, <1>5, <1>7, <1>8, <1>9, <1>10, <1>11, <1>12, BackgroundData DEF WriteNext, CloseDB
-----------------------------------------------------------------------------
(***************************************************************************)
(* Every step preserves the invariant                                      *)
(***************************************************************************)
\* What the steps of the group's leader know.
LEMMA LeaderKnows ==
    ASSUME CallsInv, NEW w \in Writers, wpc[w] \in Grouped
    PROVE  /\ LeaderInv(w) /\ AtFront(w, writers_)
           /\ \A v \in Writers : v # w => wpc[v] \notin Grouped
           /\ group.first = last_sequence + 1 /\ last_sequence \in Nat
           /\ group.keys \in Seq(Keys) /\ Len(group.keys) \in Nat
           /\ group.done \in 0..Len(group.keys)
           /\ mem_ \in Tables /\ imm_ # mem_ /\ Oldest <= mem_ /\ Oldest \in Nat
<1>1. LeaderInv(w) /\ AtFront(w, writers_)
  BY FrontOfQueue DEF CallsInv, GroupInv, Leading, Grouped
<1>2. \A v \in Writers : v # w => wpc[v] \notin Grouped
  BY <1>1 DEF AtFront, Leading, Grouped
<1>3. group.first = last_sequence + 1 /\ last_sequence \in Nat
  BY <1>1 DEF LeaderInv, CallsInv, GroupInv
<1>4. group.keys \in Seq(Keys) /\ group.done \in Nat
  BY DEF CallsInv, GroupInv, GroupTypes
<1>5. Len(group.keys) \in Nat
  BY <1>4, SMT, SMTT(40)
<1>6. group.done \in 0..Len(group.keys)
  BY <1>1, <1>4, <1>5, SMT, SMTT(40) DEF LeaderInv
<1>7. mem_ \in Tables /\ imm_ # mem_ /\ Oldest <= mem_ /\ Oldest \in Nat
  BY BackgroundAssumption, SMT, SMTT(40) DEF CallsInv, IInv, TypeOK, VersionTypes, FlushOrder, Oldest, Tables
<1> QED
  BY <1>1, <1>2, <1>3, <1>4, <1>5, <1>6, <1>7

\* An update of the group is an entry.
LEMMA EntryType ==
    ASSUME CallsInv, NEW w \in Writers, wpc[w] \in Grouped, NEW i \in 1..Len(group.keys)
    PROVE  Entry(i) \in Entries /\ Entry(i).seq = last_sequence + i
<1>1. group.first = last_sequence + 1 /\ last_sequence \in Nat /\ group.keys \in Seq(Keys)
  BY LeaderKnows
<1>2. group.keys[i] \in Keys /\ i \in Nat \ {0}
  BY <1>1, SMT, SMTT(40)
<1> QED
  BY <1>1, <1>2, SMT, SMTT(40) DEF Entry, Entries

\* The types of the data.
LEMMA DataTypesNext ==
    ASSUME CallsInv, CallsInv', DataTypes, ReadInv, DataStep
    PROVE  DataTypes'
<1> USE DEF DataTypes
<1>1. /\ mem_ \in Tables /\ imm_ \in Tables \cup {NULL}
      /\ mem_' \in Tables /\ (bg \in {"build", "apply", "cbuild", "capply"} => imm_ \in Tables)
  BY DEF CallsInv, IInv, TypeOK, VersionTypes, FlushOrder
<1>2. Quiet \/ Switch => UNCHANGED <<tables, sst, log, synced, torn>>
  BY DEF Quiet, Switch, KeepsData
<1>3. CASE Quiet \/ Switch
  BY <1>2, <1>3
<1>4. CASE BuildTable /\ UNCHANGED refs /\ FlushFrame
  BY <1>1, <1>4 DEF BuildTable, BuildTableDone, FlushFrame
<1>5. CASE CommitFlush /\ UNCHANGED sst /\ FlushFrame
  BY <1>5 DEF FlushFrame
<1>6. ASSUME NEW w \in Writers, AddRecord(w) PROVE DataTypes'
  <2>1. wpc[w] = "log" /\ UNCHANGED <<tables, sst, synced>>
    BY <1>6 DEF AddRecord
  <2> DEFINE rec == {Entry(i) : i \in DOMAIN group.keys}
  <2>2. rec \in SUBSET Entries
    <3>1. DOMAIN group.keys = 1..Len(group.keys)
      BY SMT, SMTT(40) DEF CallsInv, GroupInv, GroupTypes
    <3> QED
      BY <2>1, <3>1, EntryType DEF Grouped
  <2>3. log' = log \/ log' = [log EXCEPT ![mem_] = Append(@, rec)]
    BY <1>6 DEF AddRecord
  <2> HIDE DEF rec
  <2>4. torn' \in [Tables -> SUBSET Nat]
    <3>1. torn' = torn \/ torn' = [torn EXCEPT ![mem_] = @ \cup {Len(log[mem_])}]
      BY <1>6 DEF AddRecord
    <3>2. Len(log[mem_]) \in Nat
      BY <1>1, SMT, SMTT(40)
    <3> QED
      BY <3>1, <3>2
  <2>5. log' \in [Tables -> Seq(SUBSET Entries)]
    <3>1. Append(log[mem_], rec) \in Seq(SUBSET Entries)
      <4>1. log[mem_] \in Seq(SUBSET Entries)
        BY <1>1
      <4> QED
        BY <2>2, <4>1, SMT, SMTT(40)
    <3> QED
      BY <2>3, <3>1
  <2> QED
    BY <2>1, <2>4, <2>5
<1>7. ASSUME NEW w \in Writers, Sync(w) PROVE DataTypes'
  <2>1. Len(log[mem_]) \in Nat
    BY <1>1, SMT, SMTT(40)
  <2> QED
    BY <1>7, <2>1 DEF Sync
<1>8. ASSUME NEW w \in Writers, InsertInto(w) PROVE DataTypes'
  <2>1. wpc[w] = "insert" /\ UNCHANGED <<sst, log, synced, torn>>
    BY <1>8 DEF InsertInto
  <2>2. CASE group.done < Len(group.keys)
    <3>1. group.done + 1 \in 1..Len(group.keys)
      BY <2>1, <2>2, LeaderKnows, SMT, SMTT(40) DEF Grouped
    <3>2. Entry(group.done + 1) \in Entries
      BY <2>1, <3>1, EntryType DEF Grouped
    <3>3. tables' = [tables EXCEPT ![group.mem] = @ \cup {Entry(group.done + 1)}]
      BY <1>8, <2>2 DEF InsertInto
    <3>4. tables' \in [Tables -> SUBSET Entries]
      BY <3>2, <3>3
    <3> QED
      BY <2>1, <3>4
  <2>3. CASE ~(group.done < Len(group.keys))
    BY <1>8, <2>1, <2>3 DEF InsertInto
  <2> QED
    BY <2>2, <2>3
<1>9. ASSUME NEW w \in Writers, Publish(w) PROVE DataTypes'
  BY <1>9 DEF Publish
<1> QED
  BY <1>3, <1>4, <1>5, <1>6, <1>7, <1>8, <1>9 DEF DataStep, ReaderStep, LeaderStep

\* What InsertInto does to the memtables.
LEMMA Inserted ==
    ASSUME CallsInv, DataTypes, NEW w \in Writers, InsertInto(w)
    PROVE  \/ UNCHANGED <<tables, group>>
           \/ /\ group.done + 1 \in 1..Len(group.keys) /\ group'.done = group.done + 1
              /\ group'.keys = group.keys /\ group'.first = group.first
              /\ group'.status = group.status
              /\ tables'[mem_] = tables[mem_] \cup {Entry(group.done + 1)}
              /\ \A t \in Tables : t # mem_ => tables'[t] = tables[t]
<1>1. wpc[w] = "insert"
  BY DEF InsertInto
<1>2. LeaderInv(w) /\ mem_ \in Tables /\ group.done \in 0..Len(group.keys) /\ Len(group.keys) \in Nat
  BY <1>1, LeaderKnows DEF Grouped
<1>3. group.mem = mem_
  BY <1>1, <1>2 DEF LeaderInv
<1>4. CASE group.done < Len(group.keys)
  <2>1. /\ tables' = [tables EXCEPT ![mem_] = @ \cup {Entry(group.done + 1)}]
        /\ group' = [group EXCEPT !.done = @ + 1]
    BY <1>3, <1>4 DEF InsertInto
  <2>2. group.done + 1 \in 1..Len(group.keys)
    BY <1>2, <1>4, SMT, SMTT(40)
  <2> QED
    BY <1>2, <2>1, <2>2 DEF DataTypes, CallsInv, GroupInv, GroupTypes
<1> QED
  BY <1>4 DEF InsertInto

\* The table files.
LEMMA FilesNext ==
    ASSUME CallsInv, CallsInv', DataTypes, FilesInv, DataStep
    PROVE  FilesInv'
<1>1. /\ mem_ \in Tables /\ imm_ \in Tables \cup {NULL} /\ flushed \subseteq Tables
      /\ (imm_ # NULL => mem_ = imm_ + 1) /\ NULL \notin Nat
      /\ (bg \in {"build", "apply", "cbuild", "capply"} => imm_ \in Tables)
      /\ Tables \subseteq Nat
  BY BackgroundAssumption, SMT, SMTT(40) DEF CallsInv, IInv, TypeOK, VersionTypes, FlushOrder, Tables
<1>2. CASE Quiet
  <2>1. UNCHANGED <<mem_, imm_, flushed, tables, sst>> /\ (bg' \in {"apply", "capply"} => bg' = bg)
    BY <1>2 DEF Quiet, KeepsData
  <2> QED
    BY <2>1 DEF FilesInv, Oldest
<1>3. CASE Switch
  <2>1. /\ imm_ = NULL /\ imm_' = mem_ /\ mem_' = mem_ + 1 /\ UNCHANGED <<flushed, tables, sst>>
        /\ bg' = bg \/ bg' = "queued"
    BY <1>3 DEF Switch, KeepsData, FillMemTable, SwitchMemTable, versionVars, MaybeScheduleCompaction
  <2>2. Oldest' = Oldest
    BY <1>1, <2>1 DEF Oldest
  <2>3. bg' \notin {"apply", "capply"}
    BY <1>1, <2>1
  <2> QED
    BY <2>1, <2>2, <2>3 DEF FilesInv
<1>4. CASE BuildTable /\ UNCHANGED refs /\ FlushFrame
  <2>1. /\ imm_ \in Tables /\ UNCHANGED <<mem_, imm_, flushed, tables>>
        /\ sst' = [sst EXCEPT ![imm_] = tables[imm_]]
    BY <1>1, <1>4 DEF BuildTable, BuildTableDone, memVars, versionVars, FlushFrame
  <2>2. sst'[imm_] = tables[imm_] /\ \A t \in Tables : t # imm_ => sst'[t] = sst[t]
    BY <2>1 DEF DataTypes
  <2>3. ASSUME NEW t \in flushed PROVE t < Oldest /\ sst'[t] = tables[t]
    BY <1>1, <2>1, <2>2 DEF FilesInv, Oldest
  <2> QED
    BY <2>1, <2>2, <2>3 DEF FilesInv, Oldest
<1>5. CASE CommitFlush /\ UNCHANGED sst /\ FlushFrame
  <2>1. /\ bg \in {"apply", "capply"} /\ imm_ \in Tables /\ imm_' = NULL
        /\ flushed' = flushed \cup {imm_} /\ UNCHANGED <<mem_, sst, tables>>
    BY <1>1, <1>5 DEF CommitFlush, FlushApplied, FlushFrame
  <2>2. bg' \notin {"apply", "capply"}
    BY <1>5 DEF CommitFlush, FlushApplied, AfterFlush, FinishCall
  <2>3. ASSUME NEW t \in flushed' PROVE t < Oldest' /\ sst'[t] = tables'[t]
    <3>1. CASE t = imm_
      BY <1>1, <2>1, <3>1, SMT, SMTT(40) DEF FilesInv, Oldest
    <3>2. CASE t \in flushed
      BY <1>1, <2>1, <3>2, SMT, SMTT(40) DEF FilesInv, Oldest
    <3> QED
      BY <2>1, <3>1, <3>2
  <2> QED
    BY <2>2, <2>3 DEF FilesInv
<1>6. ASSUME NEW w \in Writers, AddRecord(w) \/ Sync(w) \/ Publish(w) PROVE FilesInv'
  <2>1. UNCHANGED <<mem_, imm_, flushed, tables, sst, bg>>
    BY <1>6 DEF AddRecord, Sync, Publish, bgVars, memVars, versionVars
  <2> QED
    BY <2>1 DEF FilesInv, Oldest
<1>7. ASSUME NEW w \in Writers, InsertInto(w) PROVE FilesInv'
  <2>1. UNCHANGED <<mem_, imm_, flushed, sst, bg>>
    BY <1>7 DEF InsertInto, bgVars
  <2>2. \A t \in Tables : t # mem_ => tables'[t] = tables[t]
    BY <1>7, Inserted
  <2>3. \A t \in flushed : t # mem_
    BY <1>1, SMT, SMTT(40) DEF FilesInv, Oldest
  <2>4. imm_ # mem_ /\ Oldest' = Oldest
    BY <1>1, <2>1, SMT, SMTT(40) DEF Oldest
  <2>5. bg \in {"apply", "capply"} => imm_ \in Tables
    BY <1>1
  <2> QED
    BY <1>1, <2>1, <2>2, <2>3, <2>4, <2>5, SMT, SMTT(40) DEF FilesInv
<1> QED
  BY <1>2, <1>3, <1>4, <1>5, <1>6, <1>7 DEF DataStep, ReaderStep, LeaderStep

\* A step that leaves the memtables and the updates of the group alone.
LEMMA SameSeq ==
    ASSUME SeqInv, UNCHANGED <<tables, last_sequence, mem_>>,
           \/ group'.done = group.done /\ group'.keys = group.keys /\ group'.first = group.first
           \/ group.done = 0 /\ group'.done = 0
    PROVE  SeqInv'
<1>1. CASE group'.done = group.done /\ group'.keys = group.keys /\ group'.first = group.first
  <2>1. \A i : Entry(i)' = Entry(i)
    BY <1>1 DEF Entry
  <2> QED
    BY <1>1, <2>1 DEF SeqInv
<1>2. CASE group.done = 0 /\ group'.done = 0
  BY <1>2, SMT, SMTT(40) DEF SeqInv
<1> QED
  BY <1>1, <1>2

\* The sequence numbers.
LEMMA SeqNext ==
    ASSUME CallsInv, CallsInv', DataTypes, SeqInv, DataStep
    PROVE  SeqInv'
<1>1. CASE Quiet
  BY <1>1, SameSeq DEF Quiet, KeepsData, KeepsGroup
<1>2. CASE Switch
  <2>1. /\ UNCHANGED <<tables, last_sequence>> /\ mem_' = mem_ + 1 /\ mem_ \in Nat
        /\ group.done = 0 /\ group'.done = 0 /\ Tables \subseteq Nat
    BY <1>2, SMT, SMTT(40) DEF Switch, KeepsData, FillMemTable, SwitchMemTable, CallsInv, IInv, TypeOK, VersionTypes,
       Tables
  <2> QED
    BY <2>1, SMT, SMTT(40) DEF SeqInv
<1>3. CASE FlushFrame
  BY <1>3, SameSeq DEF FlushFrame
<1>4. ASSUME NEW w \in Writers, AddRecord(w) \/ Sync(w) PROVE SeqInv'
  <2>1. UNCHANGED <<tables, last_sequence, mem_>>
    BY <1>4 DEF AddRecord, Sync, bgVars
  <2>2. group'.done = group.done /\ group'.keys = group.keys /\ group'.first = group.first
    BY <1>4 DEF AddRecord, Sync, CallsInv, GroupInv, GroupTypes
  <2> QED
    BY <2>1, <2>2, SameSeq
<1>5. ASSUME NEW w \in Writers, InsertInto(w) PROVE SeqInv'
  <2>1. wpc[w] = "insert" /\ UNCHANGED <<last_sequence, mem_>>
    BY <1>5 DEF InsertInto, bgVars
  <2>2. CASE UNCHANGED <<tables, group>>
    BY <2>1, <2>2, SameSeq
  <2> DEFINE d == group.done + 1
             new == Entry(d)
  <2>3. CASE /\ d \in 1..Len(group.keys) /\ group'.done = d
             /\ group'.keys = group.keys /\ group'.first = group.first
             /\ tables'[mem_] = tables[mem_] \cup {new}
             /\ \A t \in Tables : t # mem_ => tables'[t] = tables[t]
    <3>1. /\ group.done \in Nat /\ Len(group.keys) \in Nat /\ last_sequence \in Nat
          /\ mem_ \in Tables /\ Tables \subseteq Nat
      BY <2>1, LeaderKnows, SMT, SMTT(40) DEF Grouped, Tables
    <3>2. ASSUME NEW i \in 1..d PROVE Entry(i) \in Entries /\ Entry(i).seq = last_sequence + i
      <4>1. i \in 1..Len(group.keys)
        BY <2>3, <3>1, SMT, SMTT(40)
      <4> QED
        BY <2>1, <4>1, EntryType DEF Grouped
    <3>3. \A i : Entry(i)' = Entry(i)
      BY <2>3 DEF Entry
    <3>4. new.seq = last_sequence + d /\ d \in 1..d
      <4>1. d \in 1..d
        BY <3>1, SMT, SMTT(40)
      <4> HIDE DEF d
      <4> QED
        BY <3>2, <4>1
    <3> HIDE DEF new
    <3>5. ASSUME NEW t \in Tables, NEW e \in tables[t] PROVE e.seq \in Nat /\ e.seq < new.seq
      <4>1. e.seq \in Nat
        BY SMT, SMTT(40) DEF DataTypes, Entries
      <4>2. CASE e.seq <= last_sequence
        BY <3>1, <3>4, <4>1, <4>2, SMT, SMTT(40)
      <4>3. CASE e.seq > last_sequence
        <5>1. PICK i \in 1..group.done : e = Entry(i)
          BY <4>3 DEF SeqInv
        <5>2. e.seq = last_sequence + i
          BY <3>1, <3>2, <5>1, SMT, SMTT(40)
        <5> QED
          BY <3>1, <3>4, <4>1, <5>2, SMT, SMTT(40)
      <4> QED
        BY <3>1, <4>1, <4>2, <4>3, SMT, SMTT(40)
    <3>6. \A t \in Tables : t > mem_ => tables'[t] = {}
      BY <2>3, <3>1, SMT, SMTT(40) DEF SeqInv
    <3>7. \A t \in Tables : \A e \in tables'[t] : e \in tables[t] \/ (t = mem_ /\ e = new)
      BY <2>3
    <3>8. \A i \in 1..d : Entry(i) \in tables'[mem_]
      <4>1. \A i \in 1..d : i = d \/ i \in 1..group.done
        BY <3>1, SMT, SMTT(40)
      <4> QED
        BY <2>3, <4>1 DEF SeqInv, new
    <3>9. ASSUME NEW t \in Tables, NEW e \in tables'[t], e.seq > last_sequence
          PROVE  t = mem_ /\ \E i \in 1..d : e = Entry(i)
      <4>1. CASE e \in tables[t]
        BY <3>1, <3>9, <4>1, SMT, SMTT(40) DEF SeqInv
      <4>2. CASE t = mem_ /\ e = new
        BY <3>4, <4>2 DEF new
      <4> QED
        BY <3>7, <4>1, <4>2
    <3>10. ASSUME NEW t \in Tables, NEW u \in Tables, t < u, NEW e \in tables'[t], NEW f \in tables'[u]
           PROVE  e.seq < f.seq
      <4>1. t # mem_
        BY <3>1, <3>6, <3>10
      <4>2. e \in tables[t]
        BY <3>7, <4>1
      <4>3. CASE f \in tables[u]
        BY <3>10, <4>2, <4>3 DEF SeqInv
      <4>4. CASE f = new
        BY <3>5, <4>2, <4>4
      <4> QED
        BY <3>7, <4>3, <4>4
    <3>11. ASSUME NEW t \in Tables, NEW e \in tables'[t], NEW f \in tables'[t], e.seq = f.seq
           PROVE  e = f
      <4>1. e \in tables[t] /\ f \in tables[t] => e = f
        BY <3>11 DEF SeqInv
      <4>2. new.seq \in Nat
        BY <3>1, <3>4, SMT, SMTT(40)
      <4> QED
        BY <3>5, <3>7, <3>11, <4>1, <4>2, SMT, SMTT(40)
    <3> QED
      BY <2>1, <2>3, <3>3, <3>6, <3>8, <3>9, <3>10, <3>11, SMT, SMTT(40) DEF SeqInv
  <2> HIDE DEF new, d
  <2> QED
    BY <1>5, <2>2, <2>3, Inserted DEF new, d
<1>6. ASSUME NEW w \in Writers, Publish(w) PROVE SeqInv'
  <2>1. /\ wpc[w] = "publish" /\ UNCHANGED <<tables, mem_>> /\ group'.done = 0
        /\ last_sequence' = last_sequence + Len(group.keys)
    BY <1>6 DEF Publish, NoGroup, memVars
  <2>2. Len(group.keys) \in Nat /\ last_sequence \in Nat /\ group.done \in 0..Len(group.keys)
    BY <2>1, LeaderKnows DEF Grouped
  <2>3. ASSUME NEW t \in Tables, NEW e \in tables[t] PROVE ~(e.seq > last_sequence')
    <3>1. e.seq \in Nat
      BY SMT, SMTT(40) DEF DataTypes, Entries
    <3>2. CASE e.seq > last_sequence
      <4>1. PICK i \in 1..group.done : e = Entry(i)
        BY <3>2 DEF SeqInv
      <4>2. i \in 1..Len(group.keys)
        BY <2>2, SMT, SMTT(40)
      <4>3. e.seq = last_sequence + i
        BY <2>1, <4>1, <4>2, EntryType DEF Grouped
      <4> QED
        BY <2>1, <2>2, <4>2, <4>3, SMT, SMTT(40)
    <3> QED
      BY <2>1, <2>2, <3>1, <3>2, SMT, SMTT(40)
  <2> QED
    BY <2>1, <2>3, SMT, SMTT(40) DEF SeqInv
<1> QED
  BY <1>1, <1>2, <1>3, <1>4, <1>5, <1>6 DEF DataStep, ReaderStep, LeaderStep

\* A log only grows at its end.
LEMMA LoggedStays ==
    ASSUME NEW S, NEW l \in Seq(S), NEW x \in S, NEW e, NEW n \in 0..Len(l), Logged(e, l, n)
    PROVE  Logged(e, Append(l, x), n)
<1> QED
  BY SMT, SMTT(40) DEF Logged

\* The logs and what is promised, when only the group and the queue change.
LEMMA SameLogs ==
    ASSUME LogInv, UNCHANGED <<log, synced, torn, tables, promised>>, mem_' = mem_ \/ mem_' = mem_ + 1,
           mem_ \in Nat,
           \A v \in Writers : wpc'[v] \in Grouped \ {"log"} =>
              /\ wpc'[v] = wpc[v] /\ req'[v] = req[v] /\ group' = group /\ mem_' = mem_
    PROVE  LogInv'
<1>1. ASSUME NEW w \in Writers, wpc'[w] \in Grouped \ {"log"}, group'.status = "ok"
      PROVE  \A i \in 1..Len(group'.keys) : Logged(Entry(i)', log[mem_'], Len(log[mem_']))
  BY <1>1 DEF LogInv, Entry
<1>2. ASSUME NEW w \in Writers, wpc'[w] \in {"insert", "publish"}, group'.status = "ok", req'[w].sync
      PROVE  \A i \in 1..Len(group'.keys) : Logged(Entry(i)', log[mem_'], synced[mem_'])
  BY <1>2 DEF LogInv, Entry, Grouped
<1>3. \A t \in 1..mem_ : t \in 1..mem_'
  BY SMT, SMTT(40)
<1>4. \A e, t : Safe(e, t)' <=> Safe(e, t)
  BY DEF Safe, Readable
<1> QED
  BY <1>1, <1>2, <1>3, <1>4 DEF LogInv

\* The steps that write to a log.
LEMMA AddRecordLogs ==
    ASSUME CallsInv, DataTypes, LogInv, NEW w \in Writers, AddRecord(w)
    PROVE  LogInv'
<1>1. /\ wpc[w] = "log" /\ UNCHANGED <<synced, tables, promised, req, mem_>>
  BY DEF AddRecord, bgVars
<1>2. /\ mem_ \in Tables /\ (\A v \in Writers : v # w => wpc[v] \notin Grouped)
      /\ DOMAIN group.keys = 1..Len(group.keys)
  BY <1>1, LeaderKnows, SMT, SMTT(40) DEF Grouped
<1> DEFINE rec == {Entry(i) : i \in DOMAIN group.keys}
           added == [log EXCEPT ![mem_] = Append(@, rec)]
<1>3. \/ /\ log' = added
         /\ wpc' = [wpc EXCEPT ![w] = IF req[w].sync THEN "sync" ELSE "insert"]
         /\ group' = [group EXCEPT !.mem = mem_]
         /\ UNCHANGED torn
      \/ /\ torn' = [torn EXCEPT ![mem_] = @ \cup {Len(log[mem_])}]
         /\ wpc' = [wpc EXCEPT ![w] = "publish"]
         /\ group' = [group EXCEPT !.status = "err"]
         /\ UNCHANGED log
  BY DEF AddRecord
<1>4. rec \in SUBSET Entries
  BY <1>1, <1>2, EntryType DEF Grouped
<1>5. \A i \in 1..Len(group.keys) : Entry(i) \in rec
  BY <1>2
<1> HIDE DEF rec
<1>6. ASSUME NEW t \in Tables
      PROVE  /\ log[t] \in Seq(SUBSET Entries) /\ Len(log[t]) \in Nat /\ synced[t] \in 0..Len(log[t])
             /\ log'[t] = log[t] \/ log'[t] = Append(log[t], rec)
  <2>1. log[t] \in Seq(SUBSET Entries) /\ synced[t] \in Nat /\ synced[t] <= Len(log[t])
    BY DEF DataTypes, LogInv
  <2>2. Len(log[t]) \in Nat
    BY <2>1, SMT, SMTT(40)
  <2>3. added[t] = log[t] \/ added[t] = Append(log[t], rec)
    BY <1>2 DEF DataTypes
  <2> HIDE DEF added
  <2> QED
    BY <1>3, <2>1, <2>2, <2>3, SMT, SMTT(40)
<1>7. ASSUME NEW t \in Tables PROVE Len(log'[t]) \in Nat /\ Len(log[t]) <= Len(log'[t])
  <2>1. Len(Append(log[t], rec)) = Len(log[t]) + 1
    BY <1>4, <1>6, SMT, SMTT(40)
  <2> QED
    BY <1>6, <2>1, SMT, SMTT(40)
<1>8. ASSUME NEW t \in Tables, NEW e, NEW n \in 0..Len(log[t]), Logged(e, log[t], n)
      PROVE  Logged(e, log'[t], n)
  BY <1>4, <1>6, <1>8, LoggedStays
<1>9. ASSUME NEW t \in Tables, NEW e, Logged(e, log[t], Len(log[t]))
      PROVE  Logged(e, log'[t], Len(log'[t]))
  <2>1. Logged(e, log'[t], Len(log[t]))
    BY <1>6, <1>8, <1>9, SMT, SMTT(40)
  <2> QED
    BY <1>6, <1>7, <2>1, SMT, SMTT(40) DEF Logged
<1>10. \A t \in Tables : synced[t] <= Len(log'[t])
  BY <1>6, <1>7, SMT, SMTT(40)
<1>11. ASSUME NEW v \in Writers, wpc'[v] \in Grouped \ {"log"}, group'.status = "ok",
              NEW i \in 1..Len(group'.keys)
       PROVE  Logged(Entry(i)', log'[mem_], Len(log'[mem_]))
  <2>1. group' = [group EXCEPT !.mem = mem_] /\ log' = added
    BY <1>3, <1>11 DEF CallsInv, GroupInv, GroupTypes
  <2>2. Entry(i)' = Entry(i) /\ i \in 1..Len(group.keys)
    BY <2>1, <1>11 DEF Entry, CallsInv, GroupInv, GroupTypes
  <2>3. log'[mem_] = Append(log[mem_], rec)
    BY <1>2, <2>1 DEF DataTypes
  <2>4. Len(log'[mem_]) = Len(log[mem_]) + 1 /\ log'[mem_][Len(log[mem_]) + 1] = rec
    <3>1. log[mem_] \in Seq(SUBSET Entries)
      BY <1>2, <1>6
    <3>2. ASSUME NEW T, NEW s \in Seq(T), NEW x \in T
          PROVE  Len(Append(s, x)) = Len(s) + 1 /\ Append(s, x)[Len(s) + 1] = x
      BY SMT, SMTT(40)
    <3> QED
      BY <1>4, <2>3, <3>1, <3>2, SMT, SMTT(40)
  <2>5. Len(log[mem_]) + 1 \in 1..Len(log'[mem_])
    BY <1>2, <1>6, <2>4, SMT, SMTT(40)
  <2> QED
    BY <1>5, <2>2, <2>4, <2>5 DEF Logged
<1>12. ASSUME NEW v \in Writers, wpc'[v] \in {"insert", "publish"}, group'.status = "ok", req'[v].sync
       PROVE  FALSE
  <2>1. v = w
    BY <1>1, <1>2, <1>3, <1>12 DEF CallsInv, QueueInv, QueueTypes, Grouped
  <2> QED
    BY <1>1, <1>3, <1>12, <2>1 DEF CallsInv, QueueInv, QueueTypes, GroupInv, GroupTypes
<1>13. ASSUME NEW s \in promised
       PROVE  \E t \in 1..mem_ : \E e \in tables[t] : e.seq = s /\ Safe(e, t)'
  <2>1. PICK t \in 1..mem_ : \E e \in tables[t] : e.seq = s /\ Safe(e, t)
    BY DEF LogInv
  <2>2. t \in Tables
    BY <1>2, BackgroundAssumption, SMT, SMTT(40) DEF Tables
  <2>3. ASSUME NEW e, Safe(e, t) PROVE Safe(e, t)'
    <3>1. PICK i \in 1..synced[t] : e \in log[t][i] /\ Readable(t, i)
      BY <2>3 DEF Safe
    <3>2. i \in 1..Len(log[t]) /\ i <= Len(log[t])
      BY <1>6, <2>2, SMT, SMTT(40)
    <3>3. log'[t][i] = log[t][i]
      <4>1. Append(log[t], rec)[i] = log[t][i]
        BY <1>4, <1>6, <2>2, <3>2, SMT, SMTT(40)
      <4> QED
        BY <1>6, <2>2, <4>1
    <3>4. torn'[t] \subseteq torn[t] \cup {Len(log[t])}
      BY <1>3, <2>2 DEF DataTypes
    <3>5. Readable(t, i)'
      BY <3>1, <3>2, <3>4 DEF Readable
    <3> QED
      BY <1>1, <3>1, <3>3, <3>5 DEF Safe
  <2> QED
    BY <2>1, <2>3
<1>14. \A t \in Tables : \A e \in tables[t] : Logged(e, log'[t], Len(log'[t]))
  BY <1>9 DEF LogInv
<1> HIDE DEF added
<1> QED
  BY <1>1, <1>10, <1>11, <1>12, <1>13, <1>14 DEF LogInv

\* After a sync everything in the log is in its synced part.
LEMMA SyncLogs ==
    ASSUME CallsInv, DataTypes, LogInv, NEW w \in Writers, Sync(w)
    PROVE  LogInv'
<1>1. /\ wpc[w] = "sync" /\ UNCHANGED <<log, torn, tables, promised, req, mem_>>
  BY DEF Sync, bgVars
<1>2. /\ mem_ \in Tables /\ (\A v \in Writers : v # w => wpc[v] \notin Grouped)
      /\ group.status = "ok"
  BY <1>1, LeaderKnows DEF Grouped, LeaderInv
<1>3. \/ /\ synced' = [synced EXCEPT ![mem_] = Len(log[mem_])]
         /\ wpc' = [wpc EXCEPT ![w] = "insert"]
         /\ group' = [group EXCEPT !.mem = mem_]
      \/ /\ wpc' = [wpc EXCEPT ![w] = "publish"]
         /\ group' = [group EXCEPT !.status = "sync_error"]
         /\ UNCHANGED synced
  BY DEF Sync
<1>4. ASSUME NEW t \in Tables
      PROVE  /\ Len(log[t]) \in Nat /\ synced[t] \in 0..Len(log[t]) /\ synced'[t] \in 0..Len(log[t])
             /\ synced[t] <= synced'[t]
  <2>1. log[t] \in Seq(SUBSET Entries) /\ synced[t] \in Nat /\ synced[t] <= Len(log[t])
    BY DEF DataTypes, LogInv
  <2>2. Len(log[t]) \in Nat
    BY <2>1, SMT, SMTT(40)
  <2>3. synced'[t] = synced[t] \/ synced'[t] = Len(log[t])
    BY <1>3 DEF DataTypes
  <2> QED
    BY <2>1, <2>2, <2>3, SMT, SMTT(40)
<1>5. group'.keys = group.keys /\ group'.first = group.first
  BY <1>3 DEF CallsInv, GroupInv, GroupTypes
<1>6. \A i : Entry(i)' = Entry(i)
  BY <1>5 DEF Entry
<1>7. \A i \in 1..Len(group.keys) : Logged(Entry(i), log[mem_], Len(log[mem_]))
  BY <1>1, <1>2 DEF LogInv, Grouped
<1>8. ASSUME NEW v \in Writers, wpc'[v] \in {"insert", "publish"}, group'.status = "ok"
      PROVE  synced'[mem_] = Len(log[mem_])
  BY <1>2, <1>3, <1>8 DEF CallsInv, GroupInv, GroupTypes, DataTypes
<1>9. ASSUME NEW s \in promised
      PROVE  \E t \in 1..mem_ : \E e \in tables[t] : e.seq = s /\ Safe(e, t)'
  <2>1. PICK t \in 1..mem_ : \E e \in tables[t] : e.seq = s /\ Safe(e, t)
    BY DEF LogInv
  <2>2. t \in Tables
    BY <1>2, BackgroundAssumption, SMT, SMTT(40) DEF Tables
  <2>3. ASSUME NEW e, Safe(e, t) PROVE Safe(e, t)'
    <3>1. 1..synced[t] \subseteq 1..synced'[t]
      BY <1>4, <2>2, SMT, SMTT(40)
    <3> QED
      BY <1>1, <2>3, <3>1 DEF Safe, Readable
  <2> QED
    BY <2>1, <2>3
<1>10. \A t \in Tables : synced'[t] <= Len(log[t])
  BY <1>4, SMT, SMTT(40)
<1>11. \A t \in Tables : \A e \in tables[t] : Logged(e, log[t], Len(log[t]))
  BY DEF LogInv
<1> QED
  BY <1>1, <1>5, <1>6, <1>7, <1>8, <1>9, <1>10, <1>11 DEF LogInv

\* Only what is in the log goes into the memtable.
LEMMA InsertLogs ==
    ASSUME CallsInv, DataTypes, LogInv, NEW w \in Writers, InsertInto(w)
    PROVE  LogInv'
<1>1. /\ wpc[w] = "insert" /\ UNCHANGED <<log, synced, torn, promised, req, mem_>>
  BY DEF InsertInto, bgVars
<1>2. /\ mem_ \in Tables /\ (\A v \in Writers : v # w => wpc[v] \notin Grouped)
      /\ group.status = "ok"
  BY <1>1, LeaderKnows DEF Grouped, LeaderInv
<1>3. ASSUME NEW v \in Writers, wpc'[v] \in Grouped PROVE v = w
  BY <1>2, <1>3 DEF InsertInto, CallsInv, QueueInv, QueueTypes
<1>4. group'.keys = group.keys /\ group'.first = group.first /\ \A t \in Tables : tables[t] \subseteq tables'[t]
  BY Inserted DEF DataTypes
<1>5. \A i : Entry(i)' = Entry(i)
  BY <1>4 DEF Entry
<1>6. \A i \in 1..Len(group.keys) : Logged(Entry(i), log[mem_], Len(log[mem_]))
  BY <1>1, <1>2 DEF LogInv, Grouped
<1>7. req[w].sync => \A i \in 1..Len(group.keys) : Logged(Entry(i), log[mem_], synced[mem_])
  BY <1>1, <1>2 DEF LogInv
<1>8. ASSUME NEW t \in Tables, NEW e \in tables'[t] PROVE Logged(e, log[t], Len(log[t]))
  <2>1. CASE e \in tables[t]
    BY <2>1 DEF LogInv
  <2>2. CASE e \notin tables[t]
    <3>1. t = mem_ /\ \E i \in 1..Len(group.keys) : e = Entry(i)
      BY <1>2, <2>2, Inserted
    <3> QED
      BY <1>6, <3>1
  <2> QED
    BY <2>1, <2>2
<1>9. ASSUME NEW s \in promised
      PROVE  \E t \in 1..mem_ : \E e \in tables'[t] : e.seq = s /\ Safe(e, t)'
  <2>1. PICK t \in 1..mem_ : \E e \in tables[t] : e.seq = s /\ Safe(e, t)
    BY DEF LogInv
  <2>2. t \in Tables
    BY <1>2, BackgroundAssumption, SMT, SMTT(40) DEF Tables
  <2>3. \A e : Safe(e, t)' <=> Safe(e, t)
    BY <1>1 DEF Safe, Readable
  <2> QED
    BY <1>4, <2>1, <2>2, <2>3
<1>10. \A t \in Tables : synced[t] <= Len(log[t])
  BY DEF LogInv
<1>11. {"insert", "publish"} \subseteq Grouped
  BY DEF Grouped
<1> QED
  BY <1>1, <1>3, <1>4, <1>5, <1>6, <1>7, <1>8, <1>9, <1>10, <1>11 DEF LogInv

\* The updates of the sync writers of a group are updates of the group, and the
\* leader has synced the log for them.
LEMMA SyncUpdatesSynced ==
    ASSUME DataFacts, CallsInv, NEW w \in Writers, wpc[w] \in Grouped, NEW j \in SyncUpdates
    PROVE  j \in 1..Len(group.keys) /\ req[w].sync
<1>1. LeaderInv(w) /\ QueueTypes /\ writers_ \in Seq(Writers)
  BY LeaderKnows DEF CallsInv, QueueInv, QueueTypes
<1>2. PICK i \in 1..group.n :
         /\ req[writers_[i]].sync
         /\ j \in Len(GroupKeys(writers_, i - 1)) + 1 .. Len(GroupKeys(writers_, i))
  BY DEF SyncUpdates
<1>3. req[w].sync
  BY <1>1, <1>2 DEF LeaderInv
<1>4. group.n \in 0..Len(writers_) /\ i \in 0..group.n /\ i - 1 \in 0..group.n
  BY <1>1, <1>2, SMT, SMTT(40) DEF LeaderInv
<1>5. group.keys = GroupKeys(writers_, group.n)
  BY <1>1, KeysInGroup DEF LeaderInv
<1>6. Len(GroupKeys(writers_, i)) <= Len(group.keys) /\ group.keys \in Seq(Keys)
  BY <1>1, <1>4, <1>5, GroupKeysType
<1>7. GroupKeys(writers_, i) \in Seq(Keys) /\ GroupKeys(writers_, i - 1) \in Seq(Keys)
  <2>1. i \in 0..Len(writers_) /\ i - 1 \in 0..Len(writers_)
    BY <1>1, <1>4, SMT, SMTT(40)
  <2> QED
    BY <1>1, <2>1, GroupKeysType
<1>8. /\ Len(GroupKeys(writers_, i)) \in Nat /\ Len(GroupKeys(writers_, i - 1)) \in Nat
      /\ Len(group.keys) \in Nat
  BY <1>6, <1>7, SMT, SMTT(40)
<1> QED
  BY <1>2, <1>3, <1>6, <1>8, SMT, SMTT(40)

\* What is acknowledged to sync writers is in the synced part of the log.
LEMMA PublishLogs ==
    ASSUME DataFacts, CallsInv, DataTypes, SeqInv, LogInv, NEW w \in Writers, Publish(w)
    PROVE  LogInv'
<1>1. /\ wpc[w] = "publish" /\ UNCHANGED <<log, synced, torn, tables, req, mem_>>
  BY DEF Publish, memVars
<1>2. /\ mem_ \in Tables /\ (\A v \in Writers : v # w => wpc[v] \notin Grouped)
      /\ LeaderInv(w) /\ group.done \in 0..Len(group.keys)
  BY <1>1, LeaderKnows DEF Grouped
<1>3. ASSUME NEW v \in Writers PROVE wpc'[v] \notin Grouped
  <2>1. wpc' = [wpc EXCEPT ![w] = "idle"] \/ wpc' = [wpc EXCEPT ![w] = "cmt"]
    BY DEF Publish, Complete, Returned
  <2> QED
    BY <1>2, <2>1 DEF Grouped, CallsInv, QueueInv, QueueTypes
<1>4. ASSUME NEW s \in promised'
      PROVE  \E t \in 1..mem_ : \E e \in tables[t] : e.seq = s /\ Safe(e, t)
  <2>1. CASE s \in promised
    BY <2>1 DEF LogInv
  <2>2. CASE s \notin promised
    <3>1. /\ group.status = "ok" /\ torn[mem_] = {}
          /\ promised' = promised \cup {Entry(j).seq : j \in SyncUpdates}
      BY <2>2 DEF Publish
    <3>2. PICK j \in SyncUpdates : s = Entry(j).seq
      BY <2>2, <3>1
    <3>3. j \in 1..Len(group.keys) /\ req[w].sync
      BY <1>1, SyncUpdatesSynced DEF Grouped
    <3>4. group.done = Len(group.keys)
      BY <1>1, <1>2, <3>1 DEF LeaderInv
    <3>5. Entry(j) \in tables[mem_]
      BY <3>3, <3>4 DEF SeqInv
    <3>6. Safe(Entry(j), mem_)
      <4>1. Logged(Entry(j), log[mem_], synced[mem_])
        BY <1>1, <3>1, <3>3 DEF LogInv
      <4> QED
        BY <3>1, <4>1 DEF Logged, Safe, Readable
    <3>7. mem_ \in 1..mem_
      BY <1>2, SMT, SMTT(40) DEF Tables
    <3> QED
      BY <3>2, <3>5, <3>6, <3>7
  <2> QED
    BY <2>1, <2>2
<1>5. {"insert", "publish"} \subseteq Grouped
  BY DEF Grouped
<1>6. \A e, t : Safe(e, t)' <=> Safe(e, t)
  BY <1>1 DEF Safe, Readable
<1> QED
  BY <1>1, <1>3, <1>4, <1>5, <1>6 DEF LogInv

\* The logs and what is promised.
LEMMA LogNext ==
    ASSUME DataFacts, CallsInv, CallsInv', DataTypes, SeqInv, LogInv, DataStep
    PROVE  LogInv'
<1>1. mem_ \in Nat
  BY SMT, SMTT(40) DEF CallsInv, IInv, TypeOK, VersionTypes, Tables
<1>2. CASE Quiet
  BY <1>1, <1>2, SameLogs DEF Quiet, KeepsData, KeepsGroup
<1>3. CASE Switch
  <2>1. mem_' = mem_ + 1
    BY <1>3 DEF Switch, FillMemTable, SwitchMemTable
  <2> QED
    BY <1>1, <1>3, <2>1, SameLogs DEF Switch, KeepsData
<1>4. CASE FlushFrame
  BY <1>1, <1>4, SameLogs DEF FlushFrame
<1> QED
  BY <1>2, <1>3, <1>4, AddRecordLogs, SyncLogs, InsertLogs, PublishLogs
     DEF DataStep, ReaderStep, LeaderStep

\* A set of numbers with a bound has a maximum.
LEMMA MaxIs ==
    ASSUME DataFacts, NEW S, S \subseteq Nat, S # {}, NEW n \in Nat, \A x \in S : x <= n
    PROVE  Max(S) \in S /\ \A x \in S : x <= Max(S)
<1> DEFINE T == {m \in Nat : \A x \in S : x <= m}
<1>1. T \subseteq Nat /\ T # {}
  OBVIOUS
<1>2. PICK m \in T : \A k \in T : m <= k
  <2> HIDE DEF T
  <2> QED
    BY <1>1, Least
<1>3. m \in S
  <2> SUFFICES ASSUME m \notin S PROVE FALSE
    OBVIOUS
  <2>1. m \in Nat /\ \A x \in S : x < m /\ x \in Nat
    BY SMT, SMTT(40)
  <2>2. m - 1 \in T
    <3>1. PICK x \in S : x < m /\ x \in Nat
      BY <2>1
    <3>2. m # 0
      BY <2>1, <3>1, SMT, SMTT(40)
    <3> QED
      BY <2>1, <3>2, SMT, SMTT(40)
  <2> QED
    BY <1>2, <2>1, <2>2, SMT, SMTT(40)
<1>4. \A x \in S : m >= x
  OBVIOUS
<1>5. Max(S) \in S /\ \A x \in S : Max(S) >= x
  BY <1>3, <1>4 DEF Max
<1> QED
  BY <1>5

\* The entry a read at snapshot s finds: 0, or the largest number that is visible.
LEMMA NewestIs ==
    ASSUME DataFacts, NEW S \in SUBSET Entries, NEW k, NEW s \in Nat
    PROVE  /\ Newest(S, k, s) \in Nat
           /\ Newest(S, k, s) = 0 \/ \E e \in S : e.key = k /\ e.seq = Newest(S, k, s) /\ e.seq <= s
           /\ \A e \in S : e.key = k /\ e.seq <= s => e.seq <= Newest(S, k, s)
<1> DEFINE V == {0} \cup {e.seq : e \in {x \in S : x.key = k /\ x.seq <= s}}
<1>1. V \subseteq Nat /\ V # {} /\ \A x \in V : x <= s
  BY SMT, SMTT(40) DEF Entries
<1>2. Newest(S, k, s) = Max(V)
  BY DEF Newest
<1>3. Max(V) \in V /\ \A x \in V : x <= Max(V)
  <2> HIDE DEF V
  <2> QED
    BY <1>1, MaxIs
<1>4. Max(V) \in Nat
  BY <1>1, <1>3
<1>5. Max(V) = 0 \/ \E e \in S : e.key = k /\ e.seq = Max(V) /\ e.seq <= s
  BY <1>3
<1>6. \A e \in S : e.key = k /\ e.seq <= s => e.seq \in V
  OBVIOUS
<1> HIDE DEF V
<1> QED
  BY <1>2, <1>3, <1>4, <1>5, <1>6

\* A Get whose next step is a lookup or the end is in progress.
LEMMA BusyGet ==
    ASSUME ReadInv, NEW r \in Readers,
           get[r].pc \in {"mem", "imm", "current"} \/ get[r].pc \in {"done", "update_stats"}
    PROVE  get[r] # NoGet /\ get[r] \in GetStates
<1>1. get[r] # NoGet
  <2>1. NoGet.pc = "none"
    BY DEF NoGet
  <2> QED
    BY <2>1
<1> QED
  BY <1>1 DEF ReadInv

\* What a reader's step does to its Get.
LEMMA GetSteps ==
    ASSUME DataFacts, CallsInv, DataTypes, ReadInv, NEW r \in Readers, GetBegin(r) \/ GetLookup(r) \/ GetEnd(r)
    PROVE  /\ get' \in [Readers -> {NoGet} \cup GetStates]
           /\ \A q \in Readers : q # r => get'[q] = get[q]
           /\ get'[r] # NoGet =>
                 \/ /\ get'[r].mem = mem_ /\ get'[r].imm = imm_ /\ get'[r].current = flushed
                    /\ get'[r].snapshot = last_sequence
                 \/ /\ get[r] # NoGet
                    /\ get'[r].mem = get[r].mem /\ get'[r].imm = get[r].imm
                    /\ get'[r].current = get[r].current /\ get'[r].snapshot = get[r].snapshot
           /\ GetBegin(r) => get'[r] # NoGet /\ get'[r].mem = mem_ /\ get'[r].imm = imm_
           /\ GetLookup(r) => get'[r] # NoGet /\ get'[r].mem = get[r].mem /\ get'[r].imm = get[r].imm
<1>1. /\ mem_ \in Tables /\ imm_ \in Tables \cup {NULL} /\ flushed \in SUBSET Tables
      /\ last_sequence \in Nat
  BY DEF CallsInv, IInv, TypeOK, VersionTypes, GroupInv
<1>2. get \in [Readers -> {NoGet} \cup GetStates]
  BY DEF ReadInv
<1>3. CASE GetBegin(r)
  <2>1. PICK k \in Keys :
           get' = [get EXCEPT ![r] = [pc |-> "mem", key |-> k, snapshot |-> last_sequence,
                     mem |-> mem_, imm |-> imm_, current |-> flushed, value |-> 0]]
    BY <1>3 DEF GetBegin
  <2> DEFINE g == [pc |-> "mem", key |-> k, snapshot |-> last_sequence,
                   mem |-> mem_, imm |-> imm_, current |-> flushed, value |-> 0]
  <2>2. /\ g \in GetStates /\ g.mem = mem_ /\ g.imm = imm_ /\ g.current = flushed
        /\ g.snapshot = last_sequence
    BY <1>1 DEF GetStates
  <2>3. ~GetLookup(r)
    BY <1>3, BusyGet DEF GetBegin, GetLookup
  <2>4. g # NoGet
    <3>1. g.pc # NoGet.pc
      BY DEF NoGet
    <3> QED
      BY <3>1
  <2> HIDE DEF g
  <2>5. get'[r] = g /\ \A q \in Readers : q # r => get'[q] = get[q]
    BY <1>2, <2>1 DEF g
  <2>6. get' \in [Readers -> {NoGet} \cup GetStates]
    BY <1>2, <2>1, <2>2 DEF g
  <2> QED
    BY <2>2, <2>3, <2>4, <2>5, <2>6
<1>4. CASE GetLookup(r)
  <2>1. get[r].pc \in {"mem", "imm", "current"} /\ Lookup(r)
    BY <1>4 DEF GetLookup
  <2>2. get[r] \in GetStates /\ get[r] # NoGet
    BY <2>1, BusyGet
  <2>3. PICK pc \in {"imm", "current", "done", "update_stats"}, v \in Nat :
           get' = [get EXCEPT ![r].pc = pc, ![r].value = v]
    <3> DEFINE g == get[r]
               sources == [mem |-> tables[g.mem],
                           imm |-> IF g.imm = NULL THEN {} ELSE tables[g.imm],
                           current |-> UNION {sst[t] : t \in g.current}]
               value == Newest(sources[g.pc], g.key, g.snapshot)
               next == CASE g.pc = "current" -> "update_stats"
                         [] g.pc # "current" /\ value # 0 -> "done"
                         [] g.pc = "mem" /\ value = 0 -> "imm"
                         [] g.pc = "imm" /\ value = 0 -> "current"
    <3>1. get' = [get EXCEPT ![r].pc = next, ![r].value = value]
      BY <2>1 DEF Lookup
    <3>2. sources[g.pc] \in SUBSET Entries
      <4>1. tables[g.mem] \in SUBSET Entries /\ (g.imm # NULL => tables[g.imm] \in SUBSET Entries)
        BY <2>2 DEF DataTypes, GetStates
      <4>2. UNION {sst[t] : t \in g.current} \in SUBSET Entries
        BY <2>2, SMT, SMTT(40) DEF DataTypes, GetStates
      <4>3. (IF g.imm = NULL THEN {} ELSE tables[g.imm]) \in SUBSET Entries
        BY <4>1
      <4>4. g.pc = "mem" \/ g.pc = "imm" \/ g.pc = "current"
        BY <2>1
      <4>5. CASE g.pc = "mem"
        <5>1. sources["mem"] = tables[g.mem]
          OBVIOUS
        <5> QED
          BY <4>1, <4>5, <5>1
      <4>6. CASE g.pc = "imm"
        <5>1. sources["imm"] = IF g.imm = NULL THEN {} ELSE tables[g.imm]
          OBVIOUS
        <5> QED
          BY <4>3, <4>6, <5>1
      <4>7. CASE g.pc = "current"
        <5>1. sources["current"] = UNION {sst[t] : t \in g.current}
          OBVIOUS
        <5> QED
          BY <4>2, <4>7, <5>1
      <4> HIDE DEF g, sources
      <4> QED
        BY <4>4, <4>5, <4>6, <4>7
    <3>3. value \in Nat
      BY <2>2, <3>2, NewestIs DEF GetStates
    <3> HIDE DEF value
    <3>4. next \in {"imm", "current", "done", "update_stats"}
      BY <2>1, SMT, SMTT(40)
    <3> HIDE DEF next, sources, g
    <3> QED
      BY <3>1, <3>3, <3>4
  <2>4. get'[r] # NoGet
    BY <1>2, <2>2, <2>3 DEF GetStates, NoGet
  <2>5. ~GetBegin(r)
    BY <2>2 DEF GetBegin
  <2> QED
    BY <1>2, <2>2, <2>3, <2>4, <2>5 DEF GetStates
<1>5. CASE GetEnd(r)
  <2>1. ~GetBegin(r)
    BY <1>5, BusyGet DEF GetBegin, GetEnd
  <2> QED
    BY <1>2, <1>5, <2>1 DEF GetEnd, GetLookup
<1> QED
  BY <1>3, <1>4, <1>5

\* Memtables are numbered.
LEMMA TablesNat == Tables \subseteq Nat
  BY SMT, SMTT(40) DEF Tables

\* The memtables, the version and the sequence numbers only go forward.
LEMMA Forward ==
    ASSUME CallsInv, DataStep
    PROVE  mem_ <= mem_' /\ mem_' \in Nat /\ flushed \subseteq flushed' /\ last_sequence <= last_sequence'
<1>1. mem_ \in Nat /\ last_sequence \in Nat
  BY SMT, SMTT(40) DEF CallsInv, IInv, TypeOK, VersionTypes, Tables, GroupInv
<1>2. mem_ <= mem_ /\ mem_ <= mem_ + 1 /\ mem_ + 1 \in Nat /\ last_sequence <= last_sequence
  BY <1>1, SMT, SMTT(40)
<1>3. CASE UNCHANGED <<mem_, flushed, last_sequence>>
  BY <1>1, <1>2, <1>3
<1>4. CASE Switch
  BY <1>2, <1>4 DEF Switch, KeepsData, FillMemTable, SwitchMemTable, versionVars
<1>5. CASE CommitFlush /\ FlushFrame
  BY <1>1, <1>2, <1>5 DEF CommitFlush, FlushApplied, FlushFrame
<1>6. ASSUME NEW w \in Writers, Publish(w)
      PROVE  UNCHANGED <<mem_, flushed>> /\ last_sequence <= last_sequence'
  <2>1. Len(group.keys) \in Nat
    <3>1. group.keys \in Seq(Keys)
      BY DEF CallsInv, GroupInv, GroupTypes
    <3> QED
      BY <3>1, SMT, SMTT(40)
  <2>2. UNCHANGED <<mem_, flushed>> /\ last_sequence' = last_sequence + Len(group.keys)
    BY <1>6 DEF Publish, memVars, versionVars
  <2> QED
    BY <1>1, <2>1, <2>2, SMT, SMTT(40)
<1>7. Quiet => UNCHANGED <<mem_, flushed, last_sequence>>
  BY DEF Quiet, KeepsData
<1>8. BuildTable /\ FlushFrame => UNCHANGED <<mem_, flushed, last_sequence>>
  BY DEF BuildTable, BuildTableDone, FlushFrame, versionVars
<1>9. ASSUME NEW w \in Writers, AddRecord(w) \/ Sync(w) \/ InsertInto(w)
      PROVE  UNCHANGED <<mem_, flushed, last_sequence>>
  BY <1>9 DEF AddRecord, Sync, InsertInto, bgVars
<1> QED
  BY <1>1, <1>2, <1>3, <1>4, <1>5, <1>6, <1>7, <1>8, <1>9 DEF DataStep, ReaderStep, LeaderStep

\* The Gets in progress.
LEMMA ReadNext ==
    ASSUME DataFacts, CallsInv, CallsInv', DataTypes, FilesInv, ReadInv, DataStep
    PROVE  ReadInv'
<1>1. /\ mem_ <= mem_' /\ mem_' \in Nat /\ flushed \subseteq flushed' /\ last_sequence <= last_sequence'
      /\ mem_ \in Nat /\ last_sequence \in Nat /\ last_sequence' \in Nat /\ Tables \subseteq Nat
  <2>1. mem_ \in Tables /\ last_sequence \in Nat /\ last_sequence' \in Nat
    BY DEF CallsInv, IInv, TypeOK, VersionTypes, GroupInv
  <2> QED
    BY <2>1, TablesNat, Forward
<1>2. ASSUME NEW r \in Readers, get[r] # NoGet
      PROVE  /\ get[r].mem <= mem_'
             /\ get[r].imm # NULL => get[r].imm < get[r].mem
             /\ get[r].current \subseteq flushed'
             /\ \A t \in get[r].current : t < get[r].mem /\ (get[r].imm # NULL => t < get[r].imm)
             /\ get[r].snapshot <= last_sequence'
  <2>1. get[r] \in GetStates
    BY <1>2 DEF ReadInv
  <2>2. get[r].mem \in Nat /\ get[r].snapshot \in Nat
    BY <1>1, <2>1 DEF GetStates
  <2> QED
    BY <1>1, <1>2, <2>2, SMT, SMTT(40) DEF ReadInv
<1>3. CASE UNCHANGED get
  BY <1>2, <1>3 DEF ReadInv
<1>4. ASSUME NEW r \in Readers, ReaderStep(r) PROVE ReadInv'
  <2>1. /\ UNCHANGED <<mem_, flushed, last_sequence>>
    BY <1>4 DEF ReaderStep, Quiet, KeepsData
  <2>2. /\ get' \in [Readers -> {NoGet} \cup GetStates]
        /\ \A q \in Readers : q # r => get'[q] = get[q]
        /\ get'[r] # NoGet =>
              \/ /\ get'[r].mem = mem_ /\ get'[r].imm = imm_ /\ get'[r].current = flushed
                 /\ get'[r].snapshot = last_sequence
              \/ /\ get[r] # NoGet
                 /\ get'[r].mem = get[r].mem /\ get'[r].imm = get[r].imm
                 /\ get'[r].current = get[r].current /\ get'[r].snapshot = get[r].snapshot
    BY <1>4, GetSteps DEF ReaderStep
  <2>3. /\ imm_ # NULL => imm_ < mem_
        /\ \A t \in flushed : t < mem_ /\ (imm_ # NULL => t < imm_)
    <3>1. /\ flushed \subseteq Tables /\ imm_ \in Tables \cup {NULL}
          /\ imm_ # NULL => mem_ = imm_ + 1
      BY DEF CallsInv, IInv, TypeOK, VersionTypes, FlushOrder
    <3>2. \A t \in flushed : t < IF imm_ = NULL THEN mem_ ELSE imm_
      BY DEF FilesInv, Oldest
    <3> QED
      BY <1>1, <3>1, <3>2, SMT, SMTT(40)
  <2>4. ASSUME NEW q \in Readers, get'[q] # NoGet
        PROVE  /\ get'[q].mem <= mem_'
               /\ get'[q].imm # NULL => get'[q].imm < get'[q].mem
               /\ get'[q].current \subseteq flushed'
               /\ \A t \in get'[q].current : t < get'[q].mem /\ (get'[q].imm # NULL => t < get'[q].imm)
               /\ get'[q].snapshot <= last_sequence'
    <3>1. CASE q # r
      BY <1>2, <2>2, <2>4, <3>1
    <3>2. CASE /\ q = r
               /\ get'[r].mem = mem_ /\ get'[r].imm = imm_ /\ get'[r].current = flushed
               /\ get'[r].snapshot = last_sequence
      BY <1>1, <2>1, <2>3, <3>2
    <3>3. CASE /\ q = r /\ get[r] # NoGet
               /\ get'[r].mem = get[r].mem /\ get'[r].imm = get[r].imm
               /\ get'[r].current = get[r].current /\ get'[r].snapshot = get[r].snapshot
      BY <1>2, <3>3
    <3> QED
      BY <2>2, <2>4, <3>1, <3>2, <3>3
  <2> QED
    BY <2>2, <2>4 DEF ReadInv
<1>5. ASSUME NEW w \in Writers, LeaderStep(w) PROVE UNCHANGED get
  BY <1>5 DEF LeaderStep, AddRecord, Sync, InsertInto, Publish
<1>6. Switch \/ FlushFrame => UNCHANGED get
  BY DEF Switch, FlushFrame
<1> QED
  BY <1>3, <1>4, <1>5, <1>6 DEF DataStep
-----------------------------------------------------------------------------
(***************************************************************************)
(* The inductive invariant                                                 *)
(***************************************************************************)
\* The state after DB::Open satisfies the invariant.
LEMMA InitWInv == WriteInit => WInv
<1> SUFFICES ASSUME WriteInit PROVE WInv
  OBVIOUS
<1>1. CallsInv /\ mem_ \in Tables /\ NULL \notin Nat
  BY InitCalls, BackgroundAssumption DEF CallsInv, IInv, TypeOK, VersionTypes
<1>2. /\ tables = [t \in Tables |-> {}] /\ sst = [t \in Tables |-> {}]
      /\ log = [t \in Tables |-> <<>>] /\ synced = [t \in Tables |-> 0]
      /\ torn = [t \in Tables |-> {}]
      /\ get = [r \in Readers |-> NoGet] /\ promised = {} /\ flushed = {} /\ imm_ = NULL
      /\ bg = "idle" /\ group = NoGroup /\ wpc = [w \in Writers |-> "idle"]
  BY DEF WriteInit, BgInit
<1>3. DataTypes
  <2>1. <<>> \in Seq(SUBSET Entries)
    BY EmptySeq
  <2>2. log \in [Tables -> Seq(SUBSET Entries)]
    BY <1>2, <2>1
  <2>3. /\ tables \in [Tables -> SUBSET Entries] /\ sst \in [Tables -> SUBSET Entries]
        /\ synced \in [Tables -> Nat] /\ torn \in [Tables -> SUBSET Nat]
    BY <1>2, SMT, SMTT(40)
  <2> QED
    BY <2>2, <2>3 DEF DataTypes
<1>4. FilesInv
  BY <1>2 DEF FilesInv
<1>5. SeqInv
  BY <1>1, <1>2, SMT, SMTT(40) DEF SeqInv, NoGroup
<1>6. LogInv
  <2>1. \A t \in Tables : log[t] = <<>> /\ synced[t] = 0
    BY <1>2
  <2>2. \A t \in Tables : synced[t] <= Len(log[t])
    BY <2>1, SMT, SMTT(40)
  <2> QED
    BY <1>2, <2>2 DEF LogInv, Grouped
<1>7. ReadInv
  BY <1>2 DEF ReadInv
<1> QED
  BY <1>1, <1>3, <1>4, <1>5, <1>6, <1>7 DEF WInv

\* Every step preserves it.
LEMMA NextWInv == DataFacts /\ WInv /\ [WriteNext]_vars => WInv'
<1> SUFFICES ASSUME DataFacts, WInv, [WriteNext]_vars PROVE WInv'
  OBVIOUS
<1>1. /\ CallsInv /\ DataTypes /\ FilesInv /\ SeqInv /\ LogInv /\ ReadInv
  BY DEF WInv
<1>2. CallsInv' /\ DataStep
  BY <1>1, NextCalls, DataSteps
<1> QED
  BY <1>1, <1>2, DataTypesNext, FilesNext, SeqNext, LogNext, ReadNext DEF WInv

\* A promise kept by the log is kept after a crash.
LEMMA WInvDurable == ASSUME WInv PROVE SyncedDurableUnlessFailed
<1>1. /\ mem_ \in Tables /\ imm_ \in Tables \cup {NULL} /\ Tables = 1..MaxTables /\ MaxTables \in Nat
      /\ (imm_ # NULL => mem_ = imm_ + 1) /\ log_number \in Nat /\ log_number <= Oldest
      /\ (\A t \in Tables : t < Oldest => t \in flushed) /\ Oldest \in Nat
  <2>1. mem_ \in Tables /\ imm_ \in Tables \cup {NULL} /\ Tables = 1..MaxTables /\ log_number \in Nat
    BY DEF WInv, CallsInv, IInv, TypeOK, VersionTypes, Tables
  <2>2. MaxTables \in Nat /\ NULL \notin Nat
    BY BackgroundAssumption, SMT, SMTT(40) DEF BackgroundAssumption
  <2>3. /\ (imm_ # NULL => mem_ = imm_ + 1) /\ log_number <= Oldest
        /\ \A t \in Tables : t < Oldest => t \in flushed
    BY DEF WInv, CallsInv, IInv, FlushOrder
  <2> QED
    BY <2>1, <2>2, <2>3, SMT, SMTT(40) DEF Oldest
<1>2. MemIsLogged
  <2>1. ASSUME NEW t \in Tables, NEW e \in tables[t] PROVE \E i \in DOMAIN log[t] : e \in log[t][i]
    <3>1. Logged(e, log[t], Len(log[t])) /\ DOMAIN log[t] = 1..Len(log[t])
      BY SMT, SMTT(40) DEF WInv, LogInv, DataTypes
    <3> QED
      BY <3>1 DEF Logged
  <2> QED
    BY <2>1 DEF MemIsLogged
<1>3. ASSUME NEW s \in promised
      PROVE  \/ \E t \in flushed : \E e \in sst[t] : e.seq = s
             \/ \E t \in log_number..mem_ : \E i \in 1..synced[t] :
                   Readable(t, i) /\ \E e \in log[t][i] : e.seq = s
  <2>1. PICK t \in 1..mem_ : \E e \in tables[t] : e.seq = s /\ Safe(e, t)
    BY DEF WInv, LogInv
  <2>2. t \in Tables
    BY <1>1, SMT, SMTT(40)
  <2>3. CASE t < Oldest
    <3>1. t \in flushed /\ sst[t] = tables[t]
      BY <1>1, <2>2, <2>3 DEF WInv, FilesInv
    <3> QED
      BY <2>1, <3>1
  <2>4. CASE ~(t < Oldest)
    <3>1. t \in log_number..mem_
      BY <1>1, <2>2, <2>4, SMT, SMTT(40)
    <3> QED
      BY <2>1, <3>1 DEF Safe
  <2> QED
    BY <2>3, <2>4
<1> QED
  BY <1>2, <1>3 DEF SyncedDurableUnlessFailed

\* Entries that may be read have different numbers.
LEMMA WInvUnique == ASSUME WInv PROVE SequenceNumbersUnique
<1>1. /\ mem_ \in Tables /\ imm_ \in Tables \cup {NULL} /\ Tables \subseteq Nat
      /\ flushed \subseteq Tables
  BY TablesNat DEF WInv, CallsInv, IInv, TypeOK, VersionTypes
<1>2. ASSUME NEW e \in LiveEntries PROVE \E t \in Tables : e \in tables[t]
  BY <1>1 DEF LiveEntries, WInv, FilesInv
<1>3. ASSUME NEW e \in LiveEntries, NEW f \in LiveEntries, e.seq = f.seq PROVE e = f
  <2>1. PICK t \in Tables, u \in Tables : e \in tables[t] /\ f \in tables[u]
    BY <1>2
  <2>2. e.seq \in Nat /\ f.seq \in Nat
    BY <2>1, SMT, SMTT(40) DEF WInv, DataTypes, Entries
  <2>3. t = u
    <3>1. t < u => e.seq < f.seq
      BY <2>1 DEF WInv, SeqInv
    <3>2. u < t => f.seq < e.seq
      BY <2>1 DEF WInv, SeqInv
    <3>3. t \in Nat /\ u \in Nat
      BY <1>1
    <3> QED
      BY <1>3, <2>2, <3>1, <3>2, <3>3, SMT, SMTT(40)
  <2> QED
    BY <1>3, <2>1, <2>3 DEF WInv, SeqInv
<1>4. ASSUME NEW e \in LiveEntries, e.seq > last_sequence PROVE \E i \in 1..group.done : e = Entry(i)
  BY <1>2, <1>4 DEF WInv, SeqInv
<1> QED
  BY <1>3, <1>4 DEF SequenceNumbersUnique

\* No step changes the immutable memtable.
LEMMA ImmStep == WInv /\ [WriteNext]_vars => [imm_ # NULL => tables'[imm_] = tables[imm_]]_vars
<1> SUFFICES ASSUME WInv, [WriteNext]_vars, imm_ # NULL PROVE tables'[imm_] = tables[imm_]
  OBVIOUS
<1>1. CallsInv /\ DataTypes /\ DataStep
  BY DataSteps DEF WInv
<1>2. imm_ \in Tables /\ imm_ # mem_
  BY <1>1, BackgroundAssumption, SMT, SMTT(40) DEF CallsInv, IInv, TypeOK, VersionTypes, FlushOrder, Tables
<1>3. ASSUME NEW w \in Writers, InsertInto(w) PROVE tables'[imm_] = tables[imm_]
  BY <1>1, <1>2, <1>3, Inserted
<1>4. ASSUME NEW w \in Writers, AddRecord(w) \/ Sync(w) \/ Publish(w) PROVE UNCHANGED tables
  BY <1>4 DEF AddRecord, Sync, Publish
<1>5. Quiet \/ Switch \/ FlushFrame => UNCHANGED tables
  BY DEF Quiet, Switch, KeepsData, FlushFrame
<1> QED
  BY <1>1, <1>3, <1>4, <1>5 DEF DataStep, ReaderStep, LeaderStep
-----------------------------------------------------------------------------
(***************************************************************************)
(* Reference counts                                                        *)
(***************************************************************************)
\* The references to memtable t that the Gets g hold.
HoldersIn(g, t) == {h \in Readers \X {"mem", "imm"} : g[h[1]] # NoGet /\ g[h[1]][h[2]] = t}

\* The reference counts, as the proof needs them.
RefsInv == refs \in [Tables -> Int] /\ RefsMatchHolders

\* There are finitely many.
LEMMA HoldersFinite ==
    ASSUME DataFacts, NEW g, NEW t
    PROVE  /\ Cardinality(HoldersIn(g, t)) \in Nat
           /\ \A x : x \notin HoldersIn(g, t) =>
                 Cardinality(HoldersIn(g, t) \cup {x}) = Cardinality(HoldersIn(g, t)) + 1
<1>1. HoldersIn(g, t) \in SUBSET (Readers \X {"mem", "imm"})
  BY DEF HoldersIn
<1> QED
  BY <1>1 DEF DataFacts

\* h is g with a Get of r in it, which uses two memtables.
Begins(g, h, r) ==
    /\ \A q \in Readers : q # r => h[q] = g[q]
    /\ g[r] = NoGet /\ h[r] # NoGet /\ h[r]["mem"] # h[r]["imm"]

\* A Get that begins, or that ends, accounts for one reference to each of the two
\* memtables it uses.
LEMMA OneMoreHolder ==
    ASSUME DataFacts, NEW g, NEW h, NEW r \in Readers, Begins(g, h, r), NEW t
    PROVE  /\ t \in {h[r]["mem"], h[r]["imm"]} =>
                 Cardinality(HoldersIn(h, t)) = Cardinality(HoldersIn(g, t)) + 1
           /\ t \notin {h[r]["mem"], h[r]["imm"]} => HoldersIn(h, t) = HoldersIn(g, t)
<1>1. ASSUME NEW q \in Readers, NEW x \in {"mem", "imm"}
      PROVE  <<q, x>> \in HoldersIn(h, t) <=>
                <<q, x>> \in HoldersIn(g, t) \/ (q = r /\ h[r][x] = t)
  BY DEF HoldersIn, Begins
<1>2. \A q \in Readers, x \in {"mem", "imm"} : <<q, x>> \in HoldersIn(g, t) => q # r
  BY DEF HoldersIn, Begins
<1>3. /\ HoldersIn(g, t) \subseteq Readers \X {"mem", "imm"}
      /\ HoldersIn(h, t) \subseteq Readers \X {"mem", "imm"}
  BY DEF HoldersIn
<1>4. ASSUME NEW x \in {"mem", "imm"}, h[r][x] = t
      PROVE  Cardinality(HoldersIn(h, t)) = Cardinality(HoldersIn(g, t)) + 1
  <2>1. \A y \in {"mem", "imm"} : h[r][y] = t => y = x
    BY <1>4, SMT, SMTT(40) DEF Begins
  <2>2. HoldersIn(h, t) = HoldersIn(g, t) \cup {<<r, x>>}
    <3>1. ASSUME NEW p \in Readers \X {"mem", "imm"}
          PROVE  p \in HoldersIn(h, t) <=> p \in HoldersIn(g, t) \/ p = <<r, x>>
      <4>1. PICK q \in Readers, y \in {"mem", "imm"} : p = <<q, y>>
        BY SMT, SMTT(40)
      <4>2. p = <<r, x>> <=> q = r /\ y = x
        BY <4>1
      <4> QED
        BY <1>1, <1>4, <2>1, <4>1, <4>2
    <3>2. <<r, x>> \in Readers \X {"mem", "imm"}
      OBVIOUS
    <3> QED
      BY <1>3, <3>1, <3>2
  <2>3. <<r, x>> \notin HoldersIn(g, t)
    BY <1>2
  <2> QED
    BY <2>2, <2>3, HoldersFinite
<1>5. ASSUME t \notin {h[r]["mem"], h[r]["imm"]} PROVE HoldersIn(h, t) = HoldersIn(g, t)
  <2>1. ASSUME NEW p \in Readers \X {"mem", "imm"}
        PROVE  p \in HoldersIn(h, t) <=> p \in HoldersIn(g, t)
    <3>1. PICK q \in Readers, y \in {"mem", "imm"} : p = <<q, y>>
      BY SMT, SMTT(40)
    <3>2. h[r][y] # t
      BY <1>5
    <3> QED
      BY <1>1, <3>1, <3>2
  <2> QED
    BY <1>3, <2>1
<1> QED
  BY <1>4, <1>5

\* Their types.
LEMMA RefsTypes ==
    ASSUME DataFacts, CallsInv, CallsInv', refs \in [Tables -> Int], DataStep
    PROVE  refs' \in [Tables -> Int]
<1>1. CASE UNCHANGED refs
  BY <1>1
<1>2. ASSUME NEW r \in Readers, GetBegin(r) PROVE refs' \in [Tables -> Int]
  BY <1>2, SMT, SMTT(40) DEF GetBegin
<1>3. ASSUME NEW r \in Readers, GetEnd(r) PROVE refs' \in [Tables -> Int]
  <2>1. ASSUME NEW t \in Tables PROVE Pins(r, t) \in Nat
    <3> DEFINE P == {x \in {"mem", "imm"} : get[r][x] = t}
    <3>1. P \in SUBSET {"mem", "imm"}
      OBVIOUS
    <3> QED
      BY <3>1 DEF Pins, DataFacts
  <2>2. refs' = [t \in Tables |-> refs[t] - Pins(r, t)]
    BY <1>3 DEF GetEnd
  <2>3. ASSUME NEW t \in Tables PROVE refs[t] - Pins(r, t) \in Int
    BY <2>1, SMT, SMTT(40)
  <2> QED
    BY <2>2, <2>3
<1>4. CASE refs' = [refs EXCEPT ![mem_ + 1] = 1]
  <2>1. 1 \in Int
    BY SMT, SMTT(40)
  <2> QED
    BY <1>4, <2>1
<1>5. CASE CommitFlush
  <2>1. refs' = [refs EXCEPT ![imm_] = @ - 1] /\ imm_ \in Tables
    BY <1>5 DEF CommitFlush, FlushApplied, CallsInv, IInv, TypeOK, VersionTypes, FlushOrder
  <2>2. refs[imm_] - 1 \in Int
    BY <2>1, SMT, SMTT(40)
  <2> QED
    BY <2>1, <2>2
<1>6. ASSUME NEW r \in Readers PROVE GetLookup(r) => UNCHANGED refs
  BY DEF GetLookup, Lookup
<1>7. ASSUME NEW w \in Writers PROVE LeaderStep(w) => UNCHANGED refs
  BY DEF LeaderStep, AddRecord, Sync, InsertInto, Publish
<1> QED
  BY <1>1, <1>2, <1>3, <1>4, <1>5, <1>6, <1>7 DEF DataStep, ReaderStep, Switch

\* A memtable has the references of DBImpl and of the Gets.
LEMMA RefsNext ==
    ASSUME DataFacts, CallsInv, CallsInv', DataTypes, ReadInv, RefsInv, DataStep
    PROVE  RefsMatchHolders'
<1>1. /\ mem_ \in Tables /\ imm_ \in Tables \cup {NULL} /\ Tables \subseteq Nat /\ NULL \notin Nat
      /\ (imm_ # NULL => mem_ = imm_ + 1) /\ mem_' \in Tables
      /\ (bg \in {"build", "apply", "cbuild", "capply"} => imm_ \in Tables)
  BY BackgroundAssumption, SMT, SMTT(40) DEF CallsInv, IInv, TypeOK, VersionTypes, FlushOrder, Tables
<1>2. imm_ # mem_ /\ refs \in [Tables -> Int]
  BY <1>1, SMT, SMTT(40) DEF RefsInv
<1> DEFINE Own(t) == IF t \in {mem_, imm_} THEN 1 ELSE 0
           Held(g, t) == Cardinality(HoldersIn(g, t))
<1>3. \A t \in Tables : refs[t] = Own(t) + Held(get, t)
  BY DEF RefsInv, RefsMatchHolders, Holders, HoldersIn
<1>4. RefsMatchHolders' <=> \A t \in Tables : refs'[t] = Own(t)' + Held(get', t)
  BY DEF RefsMatchHolders, Holders, HoldersIn
<1>5. \A t : Held(get, t) \in Nat /\ Held(get', t) \in Nat
  BY HoldersFinite
<1> HIDE DEF Held
<1>6. CASE UNCHANGED <<refs, get, mem_, imm_>>
  BY <1>3, <1>4, <1>6
<1>7. CASE Switch
  <2>1. /\ imm_ = NULL /\ imm_' = mem_ /\ mem_' = mem_ + 1 /\ UNCHANGED get
        /\ refs' = [refs EXCEPT ![mem_ + 1] = 1]
    BY <1>7 DEF Switch, FillMemTable, SwitchMemTable
  <2>2. HoldersIn(get, mem_ + 1) = {}
    <3> SUFFICES ASSUME NEW h \in HoldersIn(get, mem_ + 1) PROVE FALSE
      OBVIOUS
    <3>1. PICK r \in Readers, x \in {"mem", "imm"} : get[r] # NoGet /\ get[r][x] = mem_ + 1
      BY DEF HoldersIn
    <3>2. get[r] \in GetStates
      BY <3>1 DEF ReadInv
    <3>3. /\ get[r].mem \in Nat /\ get[r].mem <= mem_ /\ get[r].imm \in Tables \cup {NULL}
          /\ (get[r].imm # NULL => get[r].imm < get[r].mem)
      BY <1>1, <3>1, <3>2 DEF ReadInv, GetStates
    <3> QED
      BY <1>1, <3>1, <3>3, SMT, SMTT(40)
  <2>3. Held(get, mem_ + 1) = 0
    BY <2>2 DEF Held, DataFacts
  <2>4. ASSUME NEW t \in Tables PROVE refs'[t] = Own(t)' + Held(get', t)
    <3>1. CASE t = mem_ + 1
      BY <1>2, <2>1, <2>3, <3>1, SMT, SMTT(40)
    <3>2. CASE t # mem_ + 1
      <4>1. refs'[t] = refs[t] /\ Own(t)' = Own(t)
        BY <1>1, <1>2, <2>1, <3>2
      <4> QED
        BY <1>3, <2>1, <4>1
    <3> QED
      BY <3>1, <3>2
  <2> QED
    BY <1>4, <2>4
<1>8. CASE CommitFlush /\ UNCHANGED sst /\ FlushFrame
  <2>1. /\ imm_ \in Tables /\ imm_' = NULL /\ UNCHANGED <<get, mem_>>
        /\ refs' = [refs EXCEPT ![imm_] = @ - 1]
    BY <1>1, <1>8 DEF CommitFlush, FlushApplied, FlushFrame
  <2>2. ASSUME NEW t \in Tables PROVE refs'[t] = Own(t)' + Held(get', t)
    <3>1. refs'[t] = IF t = imm_ THEN refs[t] - 1 ELSE refs[t]
      BY <1>2, <2>1
    <3>2. Own(t)' = IF t = imm_ THEN 0 ELSE Own(t)
      BY <1>1, <1>2, <2>1
    <3> QED
      <4>1. refs[t] = Own(t) + Held(get, t) /\ Held(get, t) \in Nat /\ get' = get
        BY <1>3, <1>5, <2>1
      <4>2. t = imm_ => Own(t) = 1
        OBVIOUS
      <4>3. Own(t) \in Nat
        OBVIOUS
      <4> HIDE DEF Own
      <4> QED
        BY <3>1, <3>2, <4>1, <4>2, <4>3, SMT, SMTT(40)
  <2> QED
    BY <1>4, <2>2
<1>9. ASSUME NEW r \in Readers, ReaderStep(r), GetBegin(r) PROVE RefsMatchHolders'
  <2>1. UNCHANGED <<mem_, imm_>> /\ get[r] = NoGet
    BY <1>9 DEF ReaderStep, Quiet, GetBegin
  <2>2. /\ \A q \in Readers : q # r => get'[q] = get[q]
        /\ get'[r] # NoGet /\ get'[r]["mem"] = mem_ /\ get'[r]["imm"] = imm_
    <3>1. /\ \A q \in Readers : q # r => get'[q] = get[q]
          /\ get'[r] # NoGet /\ get'[r].mem = mem_ /\ get'[r].imm = imm_
      BY <1>9, GetSteps
    <3> QED
      BY <3>1
  <2>3. refs' = [t \in Tables |-> IF t \in {mem_, imm_} THEN refs[t] + 1 ELSE refs[t]]
    BY <1>9 DEF GetBegin
  <2>4. ASSUME NEW t \in Tables PROVE refs'[t] = Own(t)' + Held(get', t)
    <3>1. /\ t \in {get'[r]["mem"], get'[r]["imm"]} => Held(get', t) = Held(get, t) + 1
          /\ t \notin {get'[r]["mem"], get'[r]["imm"]} => Held(get', t) = Held(get, t)
      <4>1. Begins(get, get', r)
        BY <1>2, <2>1, <2>2 DEF Begins
      <4>2. /\ t \in {get'[r]["mem"], get'[r]["imm"]} =>
                   Cardinality(HoldersIn(get', t)) = Cardinality(HoldersIn(get, t)) + 1
            /\ t \notin {get'[r]["mem"], get'[r]["imm"]} => HoldersIn(get', t) = HoldersIn(get, t)
        BY <4>1, OneMoreHolder
      <4> QED
        BY <4>2 DEF Held
    <3>2. {get'[r]["mem"], get'[r]["imm"]} = {mem_, imm_}
      BY <2>2
    <3> QED
      <4>1. refs'[t] = IF t \in {mem_, imm_} THEN refs[t] + 1 ELSE refs[t]
        BY <2>3
      <4>2. refs[t] = Own(t) + Held(get, t) /\ Held(get, t) \in Nat
        BY <1>3, <1>5
      <4>3. Own(t)' = Own(t) /\ Own(t) \in Nat
        BY <2>1
      <4>4. IF t \in {mem_, imm_} THEN Held(get', t) = Held(get, t) + 1 ELSE Held(get', t) = Held(get, t)
        BY <3>1, <3>2
      <4> HIDE DEF Own
      <4> QED
        BY <4>1, <4>2, <4>3, <4>4, SMT, SMTT(40)
  <2> QED
    BY <1>4, <2>4
<1>10. ASSUME NEW r \in Readers, ReaderStep(r), GetLookup(r) PROVE RefsMatchHolders'
  <2>1. UNCHANGED <<mem_, imm_, refs>>
    BY <1>10 DEF ReaderStep, Quiet, GetLookup, Lookup
  <2>2. get[r] # NoGet /\ get[r] \in GetStates
    BY <1>10, BusyGet DEF GetLookup
  <2>3. /\ \A q \in Readers : q # r => get'[q] = get[q]
        /\ get'[r] # NoGet /\ get'[r]["mem"] = get[r]["mem"] /\ get'[r]["imm"] = get[r]["imm"]
    <3>1. /\ \A q \in Readers : q # r => get'[q] = get[q]
          /\ get'[r] # NoGet /\ get'[r].mem = get[r].mem /\ get'[r].imm = get[r].imm
      BY <1>10, GetSteps
    <3> QED
      BY <3>1
  <2>4. ASSUME NEW t PROVE HoldersIn(get', t) = HoldersIn(get, t)
    BY <2>2, <2>3 DEF HoldersIn
  <2> QED
    BY <1>3, <1>4, <2>1, <2>4 DEF Held
<1>11. ASSUME NEW r \in Readers, ReaderStep(r), GetEnd(r) PROVE RefsMatchHolders'
  <2>1. UNCHANGED <<mem_, imm_>>
    BY <1>11 DEF ReaderStep, Quiet
  <2>2. get[r] # NoGet /\ get[r] \in GetStates
    BY <1>11, BusyGet DEF GetEnd
  <2>3. \A q \in Readers : q # r => get[q] = get'[q]
    BY <1>11 DEF GetEnd, ReadInv
  <2>4. get'[r] = NoGet
    BY <1>11 DEF GetEnd, ReadInv
  <2>5. get[r]["mem"] # get[r]["imm"]
    <3>1. get[r].mem \in Tables /\ get[r].imm \in Tables \cup {NULL}
      BY <2>2, SMT, SMTT(40) DEF GetStates
    <3>2. get[r].imm # NULL => get[r].imm < get[r].mem
      BY <1>1, <2>2 DEF ReadInv
    <3>3. NULL \notin Tables /\ Tables \subseteq Nat
      BY <1>1
    <3>4. ASSUME NEW m \in Tables, NEW i \in Tables \cup {NULL}, i # NULL => i < m PROVE m # i
      BY <3>3, <3>4, SMT, SMTT(40)
    <3> QED
      BY <3>1, <3>2, <3>4
  <2>6. refs' = [t \in Tables |-> refs[t] - Pins(r, t)]
    BY <1>11 DEF GetEnd
  <2>7. ASSUME NEW t \in Tables PROVE refs'[t] = Own(t)' + Held(get', t)
    <3>1. /\ t \in {get[r]["mem"], get[r]["imm"]} => Held(get, t) = Held(get', t) + 1
          /\ t \notin {get[r]["mem"], get[r]["imm"]} => Held(get, t) = Held(get', t)
      <4>1. Begins(get', get, r)
        BY <2>2, <2>3, <2>4, <2>5 DEF Begins
      <4>2. /\ t \in {get[r]["mem"], get[r]["imm"]} =>
                   Cardinality(HoldersIn(get, t)) = Cardinality(HoldersIn(get', t)) + 1
            /\ t \notin {get[r]["mem"], get[r]["imm"]} => HoldersIn(get, t) = HoldersIn(get', t)
        BY <4>1, OneMoreHolder
      <4> QED
        BY <4>2 DEF Held
    <3>2. Pins(r, t) = IF t \in {get[r]["mem"], get[r]["imm"]} THEN 1 ELSE 0
      <4> DEFINE P == {x \in {"mem", "imm"} : get[r][x] = t}
      <4>1. ASSUME NEW x \in {"mem", "imm"}, get[r][x] = t PROVE P = {x}
        BY <2>5, <4>1
      <4>2. CASE t \in {get[r]["mem"], get[r]["imm"]}
        <5>1. PICK x \in {"mem", "imm"} : P = {x}
          BY <4>1, <4>2
        <5> QED
          BY <4>2, <5>1 DEF Pins, DataFacts
      <4>3. CASE t \notin {get[r]["mem"], get[r]["imm"]}
        <5>1. P = {}
          BY <4>3
        <5> QED
          BY <4>3, <5>1 DEF Pins, DataFacts
      <4> QED
        BY <4>2, <4>3
    <3> QED
      <4>1. refs'[t] = refs[t] - Pins(r, t)
        BY <2>6
      <4>2. refs[t] = Own(t) + Held(get, t) /\ Held(get', t) \in Nat
        BY <1>3, <1>5
      <4>3. Own(t)' = Own(t) /\ Own(t) \in Nat
        BY <2>1
      <4>4. \/ Pins(r, t) = 1 /\ Held(get, t) = Held(get', t) + 1
            \/ Pins(r, t) = 0 /\ Held(get, t) = Held(get', t)
        BY <3>1, <3>2
      <4> HIDE DEF Own
      <4> QED
        BY <4>1, <4>2, <4>3, <4>4, SMT, SMTT(40)
  <2> QED
    BY <1>4, <2>7
<1>12. ASSUME NEW w \in Writers, LeaderStep(w) PROVE UNCHANGED <<refs, get, mem_, imm_>>
  BY <1>12 DEF LeaderStep, AddRecord, Sync, InsertInto, Publish, bgVars, memVars
<1>13. Quiet => UNCHANGED <<mem_, imm_>>
  BY DEF Quiet
<1>14. BuildTable /\ FlushFrame => UNCHANGED <<get, mem_, imm_>>
  BY DEF BuildTable, BuildTableDone, FlushFrame, memVars
<1> QED
  BY <1>6, <1>7, <1>8, <1>9, <1>10, <1>11, <1>12, <1>13, <1>14 DEF DataStep, ReaderStep
\* The reference counts hold when the database has been opened.
LEMMA InitRefs == DataFacts /\ WriteInit => RefsInv
<1> SUFFICES ASSUME DataFacts, WriteInit PROVE RefsInv
  OBVIOUS
<1>1. /\ refs = [t \in Tables |-> IF t = mem_ THEN 1 ELSE 0]
      /\ get = [r \in Readers |-> NoGet] /\ imm_ = NULL
  BY DEF WriteInit, BgInit
<1>2. ASSUME NEW t PROVE Cardinality(Holders(t)) = 0
  <2>1. Holders(t) = {}
    BY <1>1 DEF Holders
  <2> QED
    BY <2>1 DEF DataFacts
<1>3. mem_ \in Tables /\ NULL \notin Tables
  <2>1. NULL \notin Nat /\ MaxTables \in Nat
    BY BackgroundAssumption DEF BackgroundAssumption
  <2>2. Tables \subseteq Nat
    BY <2>1, SMT, SMTT(40) DEF Tables
  <2>3. CallsInv
    BY InitCalls
  <2> QED
    BY <2>1, <2>2, <2>3 DEF CallsInv, IInv, TypeOK, VersionTypes
<1>4. refs \in [Tables -> Int]
  BY <1>1, SMT, SMTT(40)
<1>5. ASSUME NEW t \in Tables PROVE refs[t] = IF t \in {mem_, imm_} THEN 1 ELSE 0
  BY <1>1, <1>3
<1> QED
  BY <1>2, <1>4, <1>5, SMT, SMTT(40) DEF RefsInv, RefsMatchHolders

\* Every step preserves them.
LEMMA NextRefs == DataFacts /\ WInv /\ RefsInv /\ [WriteNext]_vars => RefsInv'
<1> SUFFICES ASSUME DataFacts, WInv, RefsInv, [WriteNext]_vars PROVE RefsInv'
  OBVIOUS
<1>1. CallsInv /\ DataTypes /\ ReadInv
  BY DEF WInv
<1>2. CallsInv' /\ DataStep
  BY <1>1, NextCalls, DataSteps
<1>3. refs' \in [Tables -> Int]
  BY <1>1, <1>2, RefsTypes DEF RefsInv
<1>4. RefsMatchHolders'
  BY <1>1, <1>2, RefsNext
<1> QED
  BY <1>3, <1>4 DEF RefsInv
=============================================================================
