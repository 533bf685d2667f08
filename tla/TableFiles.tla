----------------------------- MODULE TableFiles -----------------------------
(***************************************************************************)
(* The life of table files: who keeps one from being removed, and who has  *)
(* it open.  Readers hold a Version and open its tables through the table  *)
(* cache (kv/db/table_cache.cpp) and PosixEnv::NewRandomAccessFile, whose  *)
(* limiters decide between a mapping, a descriptor and opening the file on *)
(* every read.  The background thread builds tables, installs versions and *)
(* removes obsolete files (kv/db/db_impl.cpp, builder.cpp), with the mutex *)
(* released while it builds, writes the MANIFEST and removes files.        *)
(*                                                                         *)
(* A version is the set of its files, without their levels.                *)
(***************************************************************************)
EXTENDS Integers, FiniteSets, FiniteSetsExt

CONSTANTS
    Readers, Bg,           \* threads
    Initial,               \* the files of the first version, numbers
    MaxFileNumber,
    TableCacheSize,
    MaxOpen,               \* tables a reader has open at a time
    MaxMmaps, MaxFds,      \* limits of the limiters
    IOFails                \* whether building, opening and the MANIFEST may fail

Threads == Readers \cup {Bg}
Numbers == 1..MaxFileNumber

ASSUME FilesAssumption ==
    /\ IsFiniteSet(Readers) /\ Bg \notin Readers
    /\ MaxFileNumber \in Nat
    /\ \E k \in 0..MaxFileNumber : Initial = 1..k

VARIABLES
    dir,                   \* table files in the directory
    next_file_number_,
    pending_outputs_,
    versions,              \* the list of versions: their files and refs_
    current_,
    bg_error_,
    flush, compaction,     \* what the background thread is doing
    using,                 \* the version each reader holds, or NoVersion
    opening,               \* FindTable under way in each thread
    handles,               \* open tables each thread has a handle of
    cache_,                \* the table cache: the open table of each number
    mmap_limiter_, fd_limiter_,  \* acquires_allowed_
    missing                \* whether somebody found a file gone

dirVars == <<dir, next_file_number_, pending_outputs_>>
versionVars == <<versions, current_>>
bgVars == <<bg_error_, flush, compaction>>
openVars == <<opening, handles, cache_, mmap_limiter_, fd_limiter_>>
fileVars == <<dirVars, versionVars, bgVars, openVars, using, missing>>

NoVersion == 0
NoTable == [number |-> 0, kind |-> "none", copy |-> 0]
NoOpening == [pc |-> "none", number |-> 0, kind |-> "none"]
NoWork == [pc |-> "none", number |-> 0, inputs |-> {}, version |-> NoVersion, files |-> {}]

FilesInit ==
    /\ dir = Initial /\ next_file_number_ = Cardinality(Initial) + 1 /\ pending_outputs_ = {}
    /\ versions = [v \in {1} |-> [files |-> Initial, refs_ |-> 1]] /\ current_ = 1
    /\ bg_error_ = FALSE /\ flush = NoWork /\ compaction = NoWork
    /\ using = [r \in Readers |-> NoVersion]
    /\ opening = [t \in Threads |-> NoOpening] /\ handles = [t \in Threads |-> {}]
    /\ cache_ = [n \in Numbers |-> NoTable]
    /\ mmap_limiter_ = MaxMmaps /\ fd_limiter_ = MaxFds
    /\ missing = FALSE
-----------------------------------------------------------------------------
(***************************************************************************)
(* Versions.  A version whose last reference goes leaves the list.         *)
(***************************************************************************)
Ref(vs, v) == [vs EXCEPT ![v].refs_ = @ + 1]
Unref(vs, v) ==
    IF vs[v].refs_ > 1 THEN [vs EXCEPT ![v].refs_ = @ - 1]
    ELSE [w \in DOMAIN vs \ {v} |-> vs[w]]

\* Versions are told apart by an id that is free again when they go.
NewVersion == CHOOSE v \in 1..(Cardinality(DOMAIN versions) + 1) : v \notin DOMAIN versions

\* The list with the new version, which is the current one.
AppendVersion(files) ==
    LET old == Unref(versions, current_)
    IN  [v \in DOMAIN old \cup {NewVersion} |->
            IF v = NewVersion THEN [files |-> files, refs_ |-> 1] ELSE old[v]]

AddLiveFiles == UNION {versions[v].files : v \in DOMAIN versions}
-----------------------------------------------------------------------------
(***************************************************************************)
(* Open tables.  One lives while the cache or a handle refers to it; when  *)
(* it goes its file is closed and its limiter released.                    *)
(***************************************************************************)
Alive == ({cache_[n] : n \in Numbers} \cup UNION {handles[t] : t \in Threads}) \ {NoTable}

CountKind(tables, kind) == Cardinality({o \in tables : o.kind = kind})

\* To be used with cache_' and handles' given; m and f are the other changes.
Account(m, f) ==
    LET closed == Alive \ Alive'
    IN  /\ mmap_limiter_' = mmap_limiter_ + m + CountKind(closed, "mmap")
        /\ fd_limiter_' = fd_limiter_ + f + CountKind(closed, "fd")

\* FindTable(n) by thread t.
FindInCache(t, n) ==
    /\ opening[t] = NoOpening
    /\ IF cache_[n] # NoTable
       THEN handles' = [handles EXCEPT ![t] = @ \cup {cache_[n]}] /\ UNCHANGED opening
       ELSE opening' = [opening EXCEPT ![t] = [NoOpening EXCEPT !.pc = "open", !.number = n]] /\ UNCHANGED handles
    /\ UNCHANGED <<cache_, mmap_limiter_, fd_limiter_>>

SetOpening(t, pc, kind) == opening' = [opening EXCEPT ![t].pc = pc, ![t].kind = kind]

\* A reader gets the error, or an iterator that reports it; BuildTable and the
\* compaction have more to do.
Failed(t) ==
    opening' = [opening EXCEPT ![t] = IF t = Bg THEN [@ EXCEPT !.pc = "failed"] ELSE NoOpening]

\* open(2), and mmap_limiter_.Acquire() or, when it fails, its first half.
OpenFile(t) ==
    /\ opening[t].pc = "open"
    /\ missing' = (missing \/ opening[t].number \notin dir)
    /\ IF opening[t].number \notin dir THEN Failed(t) /\ UNCHANGED mmap_limiter_
       ELSE /\ mmap_limiter_' = mmap_limiter_ - 1
            /\ IF mmap_limiter_ > 0 THEN SetOpening(t, "insert", "mmap") ELSE SetOpening(t, "full", "none")
    /\ UNCHANGED <<dirVars, versionVars, bgVars, using, handles, cache_, fd_limiter_>>

\* Variant of NoMmap that does not undo the failed Acquire.
NoMmap_Keeps(t) ==
    /\ opening[t].pc = "full"
    /\ fd_limiter_' = fd_limiter_ - 1
    /\ IF fd_limiter_ > 0 THEN SetOpening(t, "insert", "fd") ELSE SetOpening(t, "fd_full", "none")
    /\ UNCHANGED <<dirVars, versionVars, bgVars, using, handles, cache_, mmap_limiter_, missing>>

\* The second half of a failed Acquire, then fd_limiter_->Acquire().
NoMmap(t) ==
    /\ opening[t].pc = "full"
    /\ mmap_limiter_' = mmap_limiter_ + 1
    /\ fd_limiter_' = fd_limiter_ - 1
    /\ IF fd_limiter_ > 0 THEN SetOpening(t, "insert", "fd") ELSE SetOpening(t, "fd_full", "none")
    /\ UNCHANGED <<dirVars, versionVars, bgVars, using, handles, cache_, missing>>

NoFd(t) ==
    /\ opening[t].pc = "fd_full"
    /\ fd_limiter_' = fd_limiter_ + 1
    /\ SetOpening(t, "insert", "reopen")
    /\ UNCHANGED <<dirVars, versionVars, bgVars, using, handles, cache_, mmap_limiter_, missing>>

\* The FIFO cache drops tables nobody holds until the others fit.
Evictions(c) ==
    LET in == {n \in Numbers : c[n] # NoTable}
        free == {n \in in : \A t \in Threads : c[n] \notin handles[t]}
        over == Cardinality(in) + 1 - TableCacheSize
    IN  {out \in SUBSET free : Cardinality(out) = IF over <= 0 THEN 0
                                                  ELSE IF over > Cardinality(free) THEN Cardinality(free) ELSE over}

\* GetFileSize (by name) and mmap where it is allowed, Table::Open, which reads the
\* file, and Insert.  A failure closes the file and gives its permission back.
InsertTable(t) ==
    /\ opening[t].pc = "insert"
    /\ LET n == opening[t].number
           same == {o.copy : o \in {p \in Alive : p.number = n /\ p.kind = opening[t].kind}}
           new == [number |-> n, kind |-> opening[t].kind, copy |-> Min((0..Cardinality(same)) \ same)]
           gone == opening[t].kind # "fd" /\ n \notin dir
           empty == [cache_ EXCEPT ![n] = NoTable]
       IN  \/ /\ ~gone
              /\ \E out \in Evictions(empty) :
                    cache_' = [m \in Numbers |-> IF m = n THEN new ELSE IF m \in out THEN NoTable ELSE cache_[m]]
              /\ handles' = [handles EXCEPT ![t] = @ \cup {new}]
              /\ opening' = [opening EXCEPT ![t] = NoOpening]
              /\ Account(0, 0) /\ UNCHANGED missing
           \/ /\ gone \/ IOFails
              /\ Failed(t)
              /\ missing' = (missing \/ gone)
              /\ UNCHANGED <<handles, cache_>>
              /\ Account(IF opening[t].kind = "mmap" THEN 1 ELSE 0, IF opening[t].kind = "fd" THEN 1 ELSE 0)
    /\ UNCHANGED <<dirVars, versionVars, bgVars, using>>

\* Release of a handle.
ReleaseHandle(t, o) ==
    /\ o \in handles[t]
    /\ handles' = [handles EXCEPT ![t] = @ \ {o}]
    /\ UNCHANGED <<cache_, opening>>
    /\ Account(0, 0)
-----------------------------------------------------------------------------
(***************************************************************************)
(* Readers: Get, and iterators over some or all tables of a version.       *)
(***************************************************************************)
Holds(t, n) == \E o \in handles[t] : o.number = n

Begin(r) ==
    /\ using[r] = NoVersion
    /\ using' = [using EXCEPT ![r] = current_]
    /\ versions' = Ref(versions, current_)
    /\ UNCHANGED <<dirVars, current_, bgVars, openVars, missing>>

FindTable(r) ==
    /\ using[r] # NoVersion /\ Cardinality(handles[r]) < MaxOpen
    /\ \E n \in versions[using[r]].files : ~Holds(r, n) /\ FindInCache(r, n)
    /\ UNCHANGED <<dirVars, versionVars, bgVars, using, missing>>

ReleaseTable(r) ==
    /\ \E o \in handles[r] : ReleaseHandle(r, o)
    /\ UNCHANGED <<dirVars, versionVars, bgVars, using, missing>>

\* The tables are closed first, then the version is released.
End(r) ==
    /\ using[r] # NoVersion /\ handles[r] = {} /\ opening[r] = NoOpening
    /\ versions' = Unref(versions, using[r])
    /\ using' = [using EXCEPT ![r] = NoVersion]
    /\ UNCHANGED <<dirVars, current_, bgVars, openVars, missing>>
-----------------------------------------------------------------------------
(***************************************************************************)
(* The background thread: CompactMemTable, alone or from the loop of a     *)
(* compaction.                                                             *)
(***************************************************************************)
\* Variant of Obsolete that looks at the current version only.
Obsolete_Current(pending) ==
    IF bg_error_ THEN {} ELSE dir \ (pending \cup versions'[current_'].files)

\* To be used with versions' and current_' given.  After a background error
\* nothing is removed.
Obsolete(pending) ==
    IF bg_error_ THEN {} ELSE dir \ (pending \cup AddLiveFiles')

\* Variant of RemoveObsoleteFiles that leaves the table cache alone.
RemoveObsoleteFiles_NoEvict(pending) == UNCHANGED openVars

\* RemoveObsoleteFiles up to the unlock: what is not live is evicted from the
\* table cache, to be removed by RemoveFile.
RemoveObsoleteFiles(pending) ==
    /\ cache_' = [n \in Numbers |-> IF n \in Obsolete(pending) THEN NoTable ELSE cache_[n]]
    /\ UNCHANGED <<handles, opening>>
    /\ Account(0, 0)

BgFree == flush = NoWork /\ opening[Bg] = NoOpening

\* BackgroundCall does nothing after an error; the loop of a compaction does
\* not look for one and flushes again what it failed to flush.
CompactMemTable ==
    /\ BgFree /\ (compaction.pc = "running" \/ (compaction = NoWork /\ ~bg_error_))
    /\ next_file_number_ \in Numbers
    /\ flush' = [NoWork EXCEPT !.pc = "build", !.number = next_file_number_, !.version = current_]
    /\ versions' = Ref(versions, current_)
    /\ pending_outputs_' = pending_outputs_ \cup {next_file_number_}
    /\ next_file_number_' = next_file_number_ + 1
    /\ UNCHANGED <<dir, current_, bg_error_, compaction, openVars, using, missing>>

\* BuildTable up to the verification; an empty memtable makes no file.
BuildTable ==
    /\ flush.pc = "build"
    /\ \/ dir' = dir \cup {flush.number} /\ flush' = [flush EXCEPT !.pc = "verify"]
       \/ UNCHANGED dir /\ flush' = [flush EXCEPT !.pc = "built"]
       \/ IOFails /\ UNCHANGED dir /\ flush' = [flush EXCEPT !.pc = "failed"]
    /\ UNCHANGED <<next_file_number_, pending_outputs_, versionVars, bg_error_, compaction, openVars, using, missing>>

\* "Verify that the table is usable": open it and close it.
VerifyTable ==
    /\ flush.pc = "verify" /\ ~Holds(Bg, flush.number) /\ FindInCache(Bg, flush.number)
    /\ UNCHANGED <<dirVars, versionVars, bgVars, using, missing>>

TableVerified ==
    /\ flush.pc = "verify" /\ \E o \in handles[Bg] : o.number = flush.number /\ ReleaseHandle(Bg, o)
    /\ flush' = [flush EXCEPT !.pc = "built", !.files = {flush.number}]
    /\ UNCHANGED <<dirVars, versionVars, bg_error_, compaction, using, missing>>

TableUnusable ==
    /\ flush.pc = "verify" /\ opening[Bg].pc = "failed"
    /\ opening' = [opening EXCEPT ![Bg] = NoOpening]
    /\ dir' = dir \ {flush.number}
    /\ flush' = [flush EXCEPT !.pc = "failed"]
    /\ UNCHANGED <<next_file_number_, pending_outputs_, versionVars, bg_error_, compaction,
                   handles, cache_, mmap_limiter_, fd_limiter_, using, missing>>

\* With the mutex again: the output is no longer pending, and LogAndApply
\* makes the new version before it unlocks to write the MANIFEST.
TableBuilt ==
    /\ flush.pc \in {"built", "failed"}
    /\ pending_outputs_' = pending_outputs_ \ {flush.number}
    /\ versions' = Unref(versions, flush.version)
    /\ IF flush.pc = "built"
       THEN /\ flush' = [flush EXCEPT !.pc = "manifest", !.files = @ \cup versions[current_].files]
            /\ UNCHANGED bg_error_
       ELSE flush' = NoWork /\ bg_error_' = TRUE
    /\ UNCHANGED <<dir, next_file_number_, current_, compaction, openVars, using, missing>>

FlushInstalled ==
    /\ flush.pc = "manifest"
    /\ \/ /\ versions' = AppendVersion(flush.files) /\ current_' = NewVersion
          /\ RemoveObsoleteFiles(pending_outputs_)
          /\ flush' = [NoWork EXCEPT !.pc = "remove", !.files = Obsolete(pending_outputs_)]
          /\ UNCHANGED bg_error_
       \/ /\ IOFails /\ bg_error_' = TRUE /\ flush' = NoWork
          /\ UNCHANGED <<versionVars, openVars>>
    /\ UNCHANGED <<dirVars, compaction, using, missing>>

\* The files go one by one, with the mutex released.
RemoveFile(work) ==
    /\ work.pc = "remove"
    /\ \/ work.files = {} /\ UNCHANGED dir
       \/ \E n \in work.files : dir' = dir \ {n}
    /\ UNCHANGED <<next_file_number_, pending_outputs_, versionVars, bg_error_, openVars, using, missing>>

Rest(work) ==
    IF work.files = {} THEN NoWork ELSE [work EXCEPT !.files = @ \cap dir']

FlushRemoves == RemoveFile(flush) /\ flush' = Rest(flush) /\ UNCHANGED compaction
-----------------------------------------------------------------------------
(***************************************************************************)
(* The background thread: BackgroundCompaction.  An output is one file at  *)
(* most; the inputs are opened by the merging iterator.                    *)
(***************************************************************************)
BackgroundCompaction ==
    /\ BgFree /\ compaction = NoWork /\ ~bg_error_
    /\ \E inputs \in (SUBSET versions[current_].files) \ {{}} :
          compaction' = [NoWork EXCEPT !.pc = "running", !.inputs = inputs, !.version = current_]
    /\ versions' = Ref(versions, current_)
    /\ UNCHANGED <<dirVars, current_, bg_error_, flush, openVars, using, missing>>

Compacting == flush = NoWork /\ compaction.pc = "running"

OpenInput ==
    /\ Compacting
    /\ \E n \in compaction.inputs : ~Holds(Bg, n) /\ FindInCache(Bg, n)
    /\ UNCHANGED <<dirVars, versionVars, bgVars, using, missing>>

OpenCompactionOutputFile ==
    /\ Compacting /\ opening[Bg] = NoOpening
    /\ compaction.number = 0 /\ next_file_number_ \in Numbers
    /\ compaction' = [compaction EXCEPT !.number = next_file_number_]
    /\ pending_outputs_' = pending_outputs_ \cup {next_file_number_}
    /\ dir' = dir \cup {next_file_number_}
    /\ next_file_number_' = next_file_number_ + 1
    /\ UNCHANGED <<versionVars, bg_error_, flush, openVars, using, missing>>

\* The inputs are exhausted, or the merge stops on an error.
MergeEnds ==
    /\ Compacting
    /\ \/ /\ opening[Bg] = NoOpening /\ \A n \in compaction.inputs : Holds(Bg, n)
          /\ compaction' = [compaction EXCEPT !.pc = IF compaction.number = 0 THEN "merged" ELSE "verify",
                                              !.files = IF compaction.number = 0 THEN {} ELSE {compaction.number}]
          /\ UNCHANGED opening
       \/ /\ opening[Bg].pc = "failed"
          /\ opening' = [opening EXCEPT ![Bg] = NoOpening]
          /\ compaction' = [compaction EXCEPT !.pc = "failed"]
    /\ UNCHANGED <<dirVars, versionVars, bg_error_, flush, handles, cache_, mmap_limiter_, fd_limiter_, using, missing>>

\* FinishCompactionOutputFile, which verifies the output as BuildTable does.
VerifyOutput ==
    /\ compaction.pc = "verify" /\ ~Holds(Bg, compaction.number) /\ FindInCache(Bg, compaction.number)
    /\ UNCHANGED <<dirVars, versionVars, bgVars, using, missing>>

OutputVerified ==
    /\ compaction.pc = "verify"
    /\ \/ /\ \E o \in handles[Bg] : o.number = compaction.number /\ ReleaseHandle(Bg, o)
          /\ compaction' = [compaction EXCEPT !.pc = "merged"]
       \/ /\ opening[Bg].pc = "failed"
          /\ opening' = [opening EXCEPT ![Bg] = NoOpening]
          /\ compaction' = [compaction EXCEPT !.pc = "failed"]
          /\ UNCHANGED <<handles, cache_, mmap_limiter_, fd_limiter_>>
    /\ UNCHANGED <<dirVars, versionVars, bg_error_, flush, using, missing>>

\* "delete input" closes them all.
CloseInputs == handles' = [handles EXCEPT ![Bg] = {}] /\ UNCHANGED <<opening, cache_>> /\ Account(0, 0)

\* InstallCompactionResults up to the unlock of LogAndApply.
InstallCompactionResults ==
    /\ compaction.pc = "merged" /\ CloseInputs
    /\ compaction' = [compaction EXCEPT !.pc = "manifest",
                                        !.files = @ \cup (versions[current_].files \ compaction.inputs)]
    /\ UNCHANGED <<dirVars, versionVars, bg_error_, flush, using, missing>>

\* LogAndApply returns; CleanupCompaction, ReleaseInputs, RemoveObsoleteFiles.
CompactionInstalled ==
    /\ compaction.pc = "manifest"
    /\ versions' = Unref(AppendVersion(compaction.files), compaction.version) /\ current_' = NewVersion
    /\ pending_outputs_' = pending_outputs_ \ {compaction.number}
    /\ RemoveObsoleteFiles(pending_outputs_')
    /\ compaction' = [NoWork EXCEPT !.pc = "remove", !.files = Obsolete(pending_outputs_')]
    /\ UNCHANGED <<dir, next_file_number_, bg_error_, flush, using, missing>>

\* CleanupCompaction and ReleaseInputs after a failure; RemoveObsoleteFiles
\* then does nothing, for bg_error_ is set.
CompactionFails ==
    /\ compaction.pc = "failed" \/ (IOFails /\ compaction.pc = "manifest")
    /\ CloseInputs
    /\ pending_outputs_' = pending_outputs_ \ {compaction.number}
    /\ versions' = Unref(versions, compaction.version)
    /\ bg_error_' = TRUE /\ compaction' = NoWork
    /\ UNCHANGED <<dir, next_file_number_, current_, flush, using, missing>>

CompactionRemoves == RemoveFile(compaction) /\ compaction' = Rest(compaction) /\ UNCHANGED flush
-----------------------------------------------------------------------------
FilesNext ==
    \/ \E t \in Threads : OpenFile(t) \/ NoMmap(t) \/ NoFd(t) \/ InsertTable(t)
    \/ \E r \in Readers : Begin(r) \/ FindTable(r) \/ ReleaseTable(r) \/ End(r)
    \/ CompactMemTable \/ BuildTable \/ VerifyTable \/ TableVerified \/ TableUnusable
    \/ TableBuilt \/ FlushInstalled \/ FlushRemoves
    \/ BackgroundCompaction \/ OpenInput \/ OpenCompactionOutputFile \/ MergeEnds
    \/ VerifyOutput \/ OutputVerified
    \/ InstallCompactionResults \/ CompactionInstalled \/ CompactionFails \/ CompactionRemoves

FilesSpec == FilesInit /\ [][FilesNext]_fileVars
-----------------------------------------------------------------------------
(***************************************************************************)
(* Properties.                                                             *)
(***************************************************************************)
\* Nobody ever finds a table gone: the files of every version in use, of a
\* version about to be installed and of every table that is opened again on
\* each read are in the directory, however RemoveObsoleteFiles interleaves
\* with readers, with a compaction and with the flushes inside it.
FilesInUseExist ==
    /\ ~missing
    /\ AddLiveFiles \subseteq dir
    /\ \A work \in {flush, compaction} : work.pc = "manifest" => work.files \subseteq dir
    /\ \A t \in Threads : \A o \in handles[t] : o.kind = "reopen" => o.number \in dir

\* The limiters account for every open table and every open under way: no
\* permission is lost when an open fails or a table is evicted while in use,
\* and no more mappings and descriptors are kept than allowed.
LimitersExact ==
    LET open(kind) == CountKind(Alive, kind)
        pending(pc, kind) == Cardinality({t \in Threads : opening[t].pc = pc /\ opening[t].kind = kind})
    IN  /\ mmap_limiter_ = MaxMmaps - open("mmap") - pending("insert", "mmap") - pending("full", "none")
        /\ fd_limiter_ = MaxFds - open("fd") - pending("insert", "fd") - pending("fd_full", "none")
        /\ open("mmap") <= MaxMmaps /\ open("fd") <= MaxFds

\* The table cache holds no table of a file that is being or was removed:
\* Evict comes first, and nobody can bring the table back.
CacheForgetsRemoved ==
    \A n \in Numbers : cache_[n] # NoTable =>
        n \in dir /\ \A work \in {flush, compaction} : work.pc = "remove" => n \notin work.files
=============================================================================
