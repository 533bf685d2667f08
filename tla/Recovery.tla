------------------------------ MODULE Recovery ------------------------------
(***************************************************************************)
(* What survives a crash: write-ahead logs, MANIFEST files, CURRENT and    *)
(* table files, the process that writes them (DBImpl::Write, flush and     *)
(* compaction, VersionSet::LogAndApply, RemoveObsoleteFiles) and DB::Open  *)
(* that reads them back (kv/db/db_impl.cpp, version_set.cpp).              *)
(*                                                                         *)
(* The file system orders its directory operations: creating, renaming and *)
(* removing a file take effect at once.  File contents that were written   *)
(* but not synced survive the death of the process; when the machine       *)
(* crashes, any part of an unsynced tail may be missing, and the cut may   *)
(* go through a record (a torn record).                                    *)
(***************************************************************************)
EXTENDS Integers, FiniteSets, Sequences, FiniteSetsExt, SequencesExt, TLC

CONSTANTS
    Settings,               \* options and environments; one is chosen at the start:
                            \*   reuse_logs       Options::reuse_logs
                            \*   fresh            no database yet (create_if_missing)
                            \*   machine_crashes  the machine crashes, not only the process
                            \*   log_fails        an append to the log can fail half-way
    MaxWrites, MaxCrashes   \* bounds: writes and crashes

ASSUME RecoveryAssumption ==
    /\ Settings \subseteq [reuse_logs : BOOLEAN, fresh : BOOLEAN,
                           machine_crashes : BOOLEAN, log_fails : BOOLEAN]
    /\ MaxWrites \in Nat /\ MaxCrashes \in Nat

VARIABLES
    logs, manifests, tables, current,  \* the directory
    pc,            \* where the process is in its life
    versions_,     \* the VersionSet
    mem_, imm_,    \* sets of records
    logfile_number_,
    save_manifest, \* whether DB::Open has to write a MANIFEST record
    edit,          \* the VersionEdit being put together or applied
    stage,         \* how far the background thread is with it
    to_recover,    \* logs DB::Open has still to read
    to_delete,     \* files RemoveObsoleteFiles has still to remove
    pending,       \* the record between AddRecord and InsertInto, in a set
    written,       \* number of writes, which also names the next one
    must,          \* acknowledged writes that may not be lost
    synced,        \* those acknowledged with sync
    failed,        \* whether an append has failed
    crashes,
    setting        \* never changes

disk == <<logs, manifests, tables, current>>
process == <<pc, versions_, mem_, imm_, logfile_number_, save_manifest, edit,
             stage, to_recover, to_delete, pending>>
ghosts == <<written, must, synced, failed, crashes, setting>>
vars == <<disk, process, ghosts>>
-----------------------------------------------------------------------------
(***************************************************************************)
(* Files: a log or MANIFEST is the sequence of its records and how many of *)
(* them are known to be on disk; Torn stands for a partial record.         *)
(***************************************************************************)
Torn == <<>>
NewFile(data) == [data |-> data, synced |-> 0]
Append1(file, r) == [file EXCEPT !.data = Append(@, r)]

Synced(file) == [file EXCEPT !.synced = Len(file.data)]
With(dir, n, file) == [m \in DOMAIN dir \cup {n} |-> IF m = n THEN file ELSE dir[m]]

\* What log::Reader makes of a log.  A torn record at the end is the end of the
\* file.  Before the end, it takes what follows it along, the next record and
\* all others up to the end of the block, where reading starts again.
ReadRecords(data) ==
    LET torn == {i \in 1..Len(data) : data[i] = Torn}
        first == Min(torn \cup {Len(data) + 1})
        read(i, resume) == i < first \/ (i >= resume /\ {i, i - 1} \cap torn = {})
    IN  {{data[i] : i \in {i \in 1..Len(data) : read(i, resume)}} :
            resume \in ((first + 2)..Len(data)) \cup {Len(data) + 1}}

\* A VersionEdit; fields that are not set are NULL.
NULL == -1
NoEdit == [add |-> {}, del |-> {}, log |-> NULL, next |-> NULL, last |-> NULL]

\* The effect of one edit after another (Builder and the fields next to it).
Combine(a, e) ==
    LET latest(x, y) == IF y = NULL THEN x ELSE y
    IN  [add |-> (a.add \ e.del) \cup e.add, del |-> {}, log |-> latest(a.log, e.log),
         next |-> latest(a.next, e.next), last |-> latest(a.last, e.last)]

\* Replaying a MANIFEST, without a torn record at its end.
Replay(data) == FoldLeft(Combine, NoEdit, SelectSeq(data, LAMBDA e : e # Torn))

\* The reader of the MANIFEST reports a corruption for a torn record with
\* something behind it; Recover needs the three numbers.
Readable(data) ==
    /\ \A i \in 1..(Len(data) - 1) : data[i] # Torn
    /\ LET e == Replay(data) IN NULL \notin {e.log, e.next, e.last}
-----------------------------------------------------------------------------
(***************************************************************************)
(* The life of the process                                                 *)
(***************************************************************************)
NoVersions ==
    [files |-> {}, log_number |-> 0, next_file |-> 2, manifest |-> 0, last |-> 0,
     descriptor |-> FALSE]

\* An empty directory, or the database a first DB::Open leaves behind.
Init ==
    /\ setting \in Settings
    /\ IF setting.fresh
       THEN logs = <<>> /\ manifests = <<>> /\ current = 0
       ELSE /\ logs = (3 :> NewFile(<<>>)) /\ current = 2
            /\ manifests = (2 :> Synced(NewFile(<<NoEdit,
                   [NoEdit EXCEPT !.log = 3, !.next = 4, !.last = 0]>>)))
    /\ tables = <<>> /\ pc = "down"
    /\ versions_ = NoVersions /\ mem_ = {} /\ imm_ = {} /\ logfile_number_ = 0
    /\ save_manifest = FALSE /\ edit = NoEdit /\ stage = "idle"
    /\ to_recover = {} /\ to_delete = {} /\ pending = {}
    /\ written = 0 /\ must = {} /\ synced = {} /\ failed = FALSE /\ crashes = 0

\* Whatever was in memory is gone.
LoseMemory ==
    /\ crashes < MaxCrashes /\ pc # "corrupt"
    /\ pc' = "down" /\ crashes' = crashes + 1
    /\ versions_' = NoVersions /\ mem_' = {} /\ imm_' = {} /\ logfile_number_' = 0
    /\ save_manifest' = FALSE /\ edit' = NoEdit /\ stage' = "idle"
    /\ to_recover' = {} /\ to_delete' = {} /\ pending' = {}

\* The process dies.
ProcessCrash ==
    /\ LoseMemory
    /\ UNCHANGED <<disk, written, must, synced, failed, setting>>

\* What may be left of a file.
Cuts(file) ==
    LET head(k) == SubSeq(file.data, 1, k)
    IN  {Synced(NewFile(head(k))) : k \in file.synced..Len(file.data)} \cup
        {Synced(NewFile(Append(head(k), Torn))) : k \in file.synced..(Len(file.data) - 1)}

\* What may be left of the files of one kind.
Survivors(dir) ==
    {d \in [DOMAIN dir -> UNION {Cuts(dir[n]) : n \in DOMAIN dir}] :
        \A n \in DOMAIN dir : d[n] \in Cuts(dir[n])}

\* The machine crashes: unsynced tails may go.
MachineCrash ==
    /\ setting.machine_crashes /\ LoseMemory
    /\ logs' \in Survivors(logs) /\ manifests' \in Survivors(manifests)
    /\ must' = synced
    /\ UNCHANGED <<tables, current, written, synced, failed, setting>>
-----------------------------------------------------------------------------
(***************************************************************************)
(* DB::Open                                                                *)
(***************************************************************************)
\* NewDB writes MANIFEST-1 and closes it ...
NewDB ==
    /\ pc = "down" /\ current = 0
    /\ manifests' = With(manifests, 1,
           NewFile(<<[NoEdit EXCEPT !.log = 0, !.next = 2, !.last = 0]>>))
    /\ pc' = "newdb"
    /\ UNCHANGED <<logs, tables, current, versions_, mem_, imm_, logfile_number_, save_manifest,
                   edit, stage, to_recover, to_delete, pending, ghosts>>

\* ... and points CURRENT to it.  Recover goes on as for an existing database.
NewDBCurrent ==
    /\ pc = "newdb"
    /\ current' = 1 /\ pc' = "down"
    /\ UNCHANGED <<logs, manifests, tables, versions_, mem_, imm_, logfile_number_, save_manifest,
                   edit, stage, to_recover, to_delete, pending, ghosts>>

\* Every table of the version is in the directory; DBImpl::Recover looks for
\* its number only, whatever the type of the file.
NoneMissing(e) == e.add \subseteq DOMAIN tables \cup DOMAIN logs \cup DOMAIN manifests

\* VersionSet::Recover, and DBImpl::Recover up to the list of logs.
RecoverVersion ==
    /\ pc = "down" /\ current # 0
    /\ IF /\ current \in DOMAIN manifests /\ Readable(manifests[current].data)
          /\ NoneMissing(Replay(manifests[current].data))
       THEN LET e == Replay(manifests[current].data)
            IN  /\ pc' = "opening"
                /\ versions_' = [files |-> e.add, log_number |-> e.log, next_file |-> e.next + 1,
                                 manifest |-> IF setting.reuse_logs THEN current ELSE e.next,
                                 last |-> e.last, descriptor |-> setting.reuse_logs]
                /\ to_recover' = {n \in DOMAIN logs : n >= e.log}
                /\ save_manifest' = ~setting.reuse_logs
       ELSE pc' = "corrupt" /\ UNCHANGED <<versions_, to_recover, save_manifest>>
    /\ UNCHANGED <<disk, mem_, imm_, logfile_number_, edit, stage, to_delete, pending, ghosts>>

\* Variant of MarkFileNumberUsed that forgets the number.
MarkFileNumberUsed_Never(next, n) == next

\* The next file number once n is known to be in use.
MarkFileNumberUsed(next, n) == IF next <= n THEN n + 1 ELSE next

\* RecoverLogFile of the oldest log left, whose records become a table or, for
\* the last log when logs are reused, the memtable; then MarkFileNumberUsed.
\* Damage is skipped: paranoid_checks, which makes it an error, is off.
RecoverLogFile ==
    /\ pc = "opening" /\ to_recover # {}
    /\ \E records \in ReadRecords(logs[Min(to_recover)].data) :
        LET n == Min(to_recover)
            keep == setting.reuse_logs /\ to_recover = {n}
            build == ~keep /\ records # {}
            number == versions_.next_file
            next == IF build THEN number + 1 ELSE number
        IN  /\ to_recover' = to_recover \ {n}
            /\ IF build
               THEN /\ tables' = With(tables, number, records)
                    /\ edit' = [edit EXCEPT !.add = @ \cup {number}]
                    /\ save_manifest' = TRUE
               ELSE UNCHANGED <<tables, edit, save_manifest>>
            /\ IF keep THEN mem_' = records /\ logfile_number_' = n
               ELSE UNCHANGED <<mem_, logfile_number_>>
            /\ versions_' = [versions_ EXCEPT !.next_file = MarkFileNumberUsed(next, n),
                                              !.last = Max({@} \cup {r.seq : r \in records})]
    /\ UNCHANGED <<logs, manifests, current, pc, imm_, stage, to_delete, pending, ghosts>>

\* LogAndApply fills in what the edit leaves open.
Filled(e, v) ==
    [e EXCEPT !.log = IF @ = NULL THEN v.log_number ELSE @, !.next = v.next_file, !.last = v.last]

\* Variant of Obsolete that leaves table files alone.
Obsolete_NoTables(v) ==
    {<<"log", n>> : n \in {n \in DOMAIN logs' : n < v.log_number}} \cup
    {<<"manifest", n>> : n \in {n \in DOMAIN manifests' : n < v.manifest}}

\* The files RemoveObsoleteFiles removes.
Obsolete(v) ==
    {<<"log", n>> : n \in {n \in DOMAIN logs' : n < v.log_number}} \cup
    {<<"manifest", n>> : n \in {n \in DOMAIN manifests' : n < v.manifest}} \cup
    {<<"table", n>> : n \in DOMAIN tables' \ v.files}

\* All logs are read: DB::Open makes a new log unless the last one is reused,
\* and calls LogAndApply or goes straight to RemoveObsoleteFiles.
OpenLog ==
    /\ pc = "opening" /\ to_recover = {}
    /\ pc' = "open"
    /\ LET fresh == logfile_number_ = 0
           number == IF fresh THEN versions_.next_file ELSE logfile_number_
           v == IF fresh THEN [versions_ EXCEPT !.next_file = @ + 1] ELSE versions_
       IN  /\ logs' = IF fresh THEN With(logs, number, NewFile(<<>>)) ELSE logs
           /\ UNCHANGED <<manifests, tables>>
           /\ logfile_number_' = number /\ versions_' = v
           /\ IF save_manifest
              THEN /\ edit' = Filled([edit EXCEPT !.log = number], v)
                   /\ stage' = "append" /\ to_delete' = {}
              ELSE edit' = NoEdit /\ stage' = "gc" /\ to_delete' = Obsolete(v)
    /\ UNCHANGED <<current, mem_, imm_, save_manifest, to_recover, pending, ghosts>>
-----------------------------------------------------------------------------
(***************************************************************************)
(* VersionSet::LogAndApply and what follows it                             *)
(***************************************************************************)
\* The edit goes to the MANIFEST; a new one starts with WriteSnapshot.
AppendEdit ==
    /\ stage = "append"
    /\ LET m == versions_.manifest
       IN  manifests' = With(manifests, m,
               IF versions_.descriptor THEN Append1(manifests[m], edit)
               ELSE NewFile(<<[NoEdit EXCEPT !.add = versions_.files], edit>>))
    /\ versions_' = [versions_ EXCEPT !.descriptor = TRUE]
    /\ stage' = "sync"
    /\ UNCHANGED <<logs, tables, current, pc, mem_, imm_, logfile_number_, save_manifest, edit,
                   to_recover, to_delete, pending, ghosts>>


\* Sync of the MANIFEST, before CURRENT may point to it.
SyncManifest ==
    /\ stage = "sync"
    /\ LET m == versions_.manifest
       IN  /\ manifests' = [manifests EXCEPT ![m] = Synced(@)]
           /\ stage' = IF current = m THEN "install" ELSE "current"
    /\ UNCHANGED <<logs, tables, current, pc, versions_, mem_, imm_, logfile_number_,
                   save_manifest, edit, to_recover, to_delete, pending, ghosts>>

\* A temporary file is written, synced and renamed to CURRENT.
SetCurrentFile ==
    /\ stage = "current"
    /\ current' = versions_.manifest /\ stage' = "install"
    /\ UNCHANGED <<logs, manifests, tables, pc, versions_, mem_, imm_, logfile_number_,
                   save_manifest, edit, to_recover, to_delete, pending, ghosts>>

\* The new version is current; a flush (no inputs) commits to it by giving up
\* the immutable memtable.  RemoveObsoleteFiles makes its list.
InstallVersion ==
    /\ stage = "install"
    /\ LET v == [versions_ EXCEPT !.files = (@ \ edit.del) \cup edit.add,
                                  !.log_number = edit.log]
       IN  /\ UNCHANGED disk
           /\ versions_' = v /\ to_delete' = Obsolete(v)
    /\ imm_' = IF edit.del = {} THEN {} ELSE imm_
    /\ edit' = NoEdit /\ stage' = "gc"
    /\ UNCHANGED <<pc, mem_, logfile_number_, save_manifest, to_recover, pending, ghosts>>

\* RemoveObsoleteFiles removes one file after the other, unlocked.
RemoveFile(f) ==
    /\ stage = "gc" /\ f \in to_delete
    /\ LET without(dir, kind) == [n \in {n \in DOMAIN dir : <<kind, n>> # f} |-> dir[n]]
       IN  /\ logs' = without(logs, "log") /\ manifests' = without(manifests, "manifest")
           /\ tables' = without(tables, "table")
    /\ to_delete' = to_delete \ {f}
    /\ UNCHANGED <<current, pc, versions_, mem_, imm_, logfile_number_, save_manifest, edit,
                   stage, to_recover, pending, ghosts>>

\* DB::Open returns, or the background thread is done.
Collected ==
    /\ stage = "gc" /\ to_delete = {}
    /\ stage' = "idle" /\ pc' = "up"
    /\ UNCHANGED <<disk, versions_, mem_, imm_, logfile_number_, save_manifest, edit,
                   to_recover, to_delete, pending, ghosts>>
-----------------------------------------------------------------------------
(***************************************************************************)
(* The running database                                                    *)
(***************************************************************************)
\* The front writer appends its record and syncs the log if asked to; it does
\* not hold the mutex.
AddRecord(sync) ==
    /\ pc = "up" /\ pending = {} /\ written < MaxWrites
    /\ LET r == [id |-> written + 1, seq |-> versions_.last + 1]
           file == Append1(logs[logfile_number_], r)
       IN  /\ logs' = [logs EXCEPT ![logfile_number_] = IF sync THEN Synced(file) ELSE file]
           /\ pending' = {[record |-> r, sync |-> sync]}
    /\ written' = written + 1
    /\ UNCHANGED <<manifests, tables, current, pc, versions_, mem_, imm_, logfile_number_,
                   save_manifest, edit, stage, to_recover, to_delete, must, synced, failed, crashes,
                   setting>>

\* The append fails after a part of the record (a full disk): the write returns
\* the error and nothing else happens.
AddRecordFails ==
    /\ pc = "up" /\ pending = {} /\ written < MaxWrites /\ setting.log_fails
    /\ logs' = [logs EXCEPT ![logfile_number_] = Append1(@, Torn)]
    /\ versions_' = [versions_ EXCEPT !.last = @ + 1]
    /\ written' = written + 1 /\ failed' = TRUE
    /\ UNCHANGED <<manifests, tables, current, pc, mem_, imm_, logfile_number_, save_manifest,
                   edit, stage, to_recover, to_delete, pending, must, synced, crashes, setting>>

\* The record is put into the memtable and the write returns.
InsertInto(p) ==
    /\ p \in pending
    /\ mem_' = mem_ \cup {p.record} /\ pending' = {}
    /\ versions_' = [versions_ EXCEPT !.last = p.record.seq]
    /\ must' = must \cup {p.record.id}
    /\ synced' = IF p.sync THEN synced \cup {p.record.id} ELSE synced
    /\ UNCHANGED <<disk, pc, imm_, logfile_number_, save_manifest, edit, stage, to_recover,
                   to_delete, written, failed, crashes, setting>>

\* MakeRoomForWrite: a new log and a new memtable.
SwitchMemTable ==
    /\ pc = "up" /\ pending = {} /\ imm_ = {} /\ mem_ # {}
    /\ imm_' = mem_ /\ mem_' = {}
    /\ logs' = With(logs, versions_.next_file, NewFile(<<>>))
    /\ logfile_number_' = versions_.next_file
    /\ versions_' = [versions_ EXCEPT !.next_file = @ + 1]
    /\ UNCHANGED <<manifests, tables, current, pc, save_manifest, edit, stage, to_recover,
                   to_delete, pending, ghosts>>

\* The background thread has written and synced a table with the records, and
\* calls LogAndApply.
BuildEdit(records, inputs, log) ==
    /\ pc = "up" /\ stage = "idle"
    /\ LET v == [versions_ EXCEPT !.next_file = @ + 1]
           number == versions_.next_file
       IN  /\ tables' = With(tables, number, records) /\ versions_' = v
           /\ edit' = Filled([NoEdit EXCEPT !.add = {number}, !.del = inputs, !.log = log], v)
    /\ stage' = "append"
    /\ UNCHANGED <<logs, manifests, current, pc, mem_, imm_, logfile_number_, save_manifest,
                   to_recover, to_delete, pending, ghosts>>

\* Variant of CompactMemTable that names a log still to come.
CompactMemTable_NextLog ==
    imm_ # {} /\ BuildEdit(imm_, {}, versions_.next_file)

\* Earlier logs are no longer needed once the table is in the version.
CompactMemTable ==
    imm_ # {} /\ BuildEdit(imm_, {}, logfile_number_)

\* A compaction of all files into one.
CompactTables ==
    /\ imm_ = {} /\ Cardinality(versions_.files) > 1
    /\ BuildEdit(UNION {tables[n] : n \in versions_.files}, versions_.files, NULL)

\* Nothing is left to do, or the database does not open any more.
Idle ==
    /\ pc = "corrupt" \/ (pc = "up" /\ stage = "idle" /\ pending = {} /\ written = MaxWrites)
    /\ UNCHANGED vars

Next ==
    \/ NewDB \/ NewDBCurrent \/ RecoverVersion \/ RecoverLogFile \/ OpenLog
    \/ AppendEdit \/ SyncManifest \/ SetCurrentFile \/ InstallVersion
    \/ (\E f \in to_delete : RemoveFile(f)) \/ Collected
    \/ (\E sync \in BOOLEAN : AddRecord(sync)) \/ AddRecordFails
    \/ \E p \in pending : InsertInto(p)
    \/ SwitchMemTable \/ CompactMemTable \/ CompactTables
    \/ ProcessCrash \/ MachineCrash \/ Idle

Spec == Init /\ [][Next]_vars
-----------------------------------------------------------------------------
(***************************************************************************)
(* Properties                                                              *)
(***************************************************************************)
Contents == mem_ \cup imm_ \cup UNION {tables[n] : n \in versions_.files}

\* A database that is open holds every write that was acknowledged and not
\* given up to a machine crash: all of them if only processes died, the synced
\* ones in any case, as the comment on WriteOptions::sync promises.
AcknowledgedSurvive ==
    pc = "up" => \A id \in must : \E r \in Contents : r.id = id

\* What AcknowledgedSurvive says, for the life of a database whose log never
\* refused an append (after one Write goes on behind a partial record).
SurvivesUnlessFailed == ~failed => AcknowledgedSurvive


\* Recovery restores the counters from MANIFEST, logs and directory such that no
\* two writes of the open database share a sequence number, and the next file
\* number belongs to no live table, log or MANIFEST: no NewWritableFile truncates
\* a file in use.
NumbersFresh ==
    pc = "up" =>
        /\ \A r \in Contents : r.seq <= versions_.last
        /\ \A q, r \in Contents : q.seq = r.seq => q = r
        /\ \A n \in versions_.files \cup {logfile_number_, versions_.manifest} \cup
                    {n \in DOMAIN logs : n >= versions_.log_number} : n < versions_.next_file

\* When nothing is running, every table file is in the version and no log or
\* MANIFEST of an earlier incarnation is left (one that a crash kept from
\* becoming current may be, with a higher number, as RemoveObsoleteFiles says);
\* none that is needed is missing.
DirectoryExact ==
    (pc = "up" /\ stage = "idle") =>
        /\ DOMAIN tables = versions_.files
        /\ current \in DOMAIN manifests /\ \A n \in DOMAIN manifests : n >= current
        /\ \A n \in DOMAIN logs : n >= versions_.log_number
        /\ logfile_number_ \in DOMAIN logs
=============================================================================
