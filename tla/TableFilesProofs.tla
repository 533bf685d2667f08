-------------------------- MODULE TableFilesProofs --------------------------
(***************************************************************************)
(* That no table file in use is removed, and that the table cache forgets  *)
(* the files that are, proved for any number of readers, any number of     *)
(* files and any limits.  First reference counts: every step keeps in the  *)
(* list the versions that somebody holds, each with its files.  Then that  *)
(* every step keeps the parts of the invariant about types and about the   *)
(* work of the background thread.  Then what threads open and have open:   *)
(* every step keeps to files that the thread has a claim to.               *)
(***************************************************************************)
EXTENDS TableFiles, FiniteSetTheorems, TLAPS

USE Zenon, ZenonT(40), SMTT(40)

\* The file numbers given out so far.
Known == 1..(next_file_number_ - 1)

\* Where a flush and a compaction hold the version they started from.
Building == {"build", "verify", "built", "failed"}
Merging == {"running", "verify", "merged", "manifest", "failed"}

Works == [pc : {"none", "build", "verify", "built", "failed", "manifest", "remove", "running", "merged"},
          number : Nat, inputs : SUBSET Nat, version : Nat, files : SUBSET Nat]
Openings == [pc : {"none", "open", "full", "fd_full", "insert", "failed"}, number : Nat,
             kind : {"none", "mmap", "fd", "reopen"}]
Versions == [files : SUBSET Nat, refs_ : Nat]

NumbersType ==
    /\ next_file_number_ \in 1..(MaxFileNumber + 1) /\ dir \subseteq Known
    /\ current_ \in Nat \ {NoVersion}

FlushType ==
    /\ flush \in Works /\ (flush.pc = "none" => flush = NoWork)
    /\ flush.pc \in Building => flush.version # NoVersion

CompactionType ==
    /\ compaction \in Works /\ (compaction.pc = "none" => compaction = NoWork)
    /\ compaction.pc \in Merging => compaction.version # NoVersion

OpenType ==
    /\ using \in [Readers -> Nat]
    /\ opening \in [Threads -> Openings]
    /\ \A t \in Threads : opening[t].pc = "none" => opening[t] = NoOpening
    /\ handles = [t \in Threads |-> handles[t]]
    /\ cache_ = [n \in Numbers |-> cache_[n]]

FilesType == NumbersType /\ FlushType /\ CompactionType /\ OpenType
-----------------------------------------------------------------------------
(***************************************************************************)
(* Reference counts.  Holders(v) counts those who rely on version v.       *)
(***************************************************************************)
Is(v, w) == IF v = w THEN 1 ELSE 0

ReadersOf(v) == {r \in Readers : using[r] = v}
FlushVersion == IF flush.pc \in Building THEN flush.version ELSE NoVersion
CompactionVersion == IF compaction.pc \in Merging THEN compaction.version ELSE NoVersion

Holders(v) ==
    Cardinality(ReadersOf(v)) + Is(current_, v) + Is(FlushVersion, v) + Is(CompactionVersion, v)

HolderCount == [v \in Nat |-> Holders(v)]

\* The list has exactly the versions that are held, with the right counts.
CountedBy(vs, count) ==
    /\ IsFiniteSet(DOMAIN vs) /\ DOMAIN vs \subseteq Nat \ {NoVersion}
    /\ vs \in [DOMAIN vs -> Versions]
    /\ \A v \in Nat \ {NoVersion} : v \in DOMAIN vs <=> count[v] > 0
    /\ \A v \in DOMAIN vs : vs[v].refs_ = count[v]

RefsInv == CountedBy(versions, HolderCount)

\* Versions that stay keep their files.
SameFiles(vs, ws) == \A v \in DOMAIN ws : v \in DOMAIN vs /\ ws[v].files = vs[v].files

\* Version::Ref counts one holder more.
LEMMA RefCounts ==
    ASSUME NEW vs, NEW c \in [Nat -> Nat], NEW d \in [Nat -> Nat], NEW v \in DOMAIN vs,
           CountedBy(vs, c), \A w \in Nat \ {NoVersion} : d[w] = c[w] + Is(v, w)
    PROVE  CountedBy(Ref(vs, v), d) /\ SameFiles(vs, Ref(vs, v)) /\ DOMAIN Ref(vs, v) = DOMAIN vs
<1>1. DOMAIN Ref(vs, v) = DOMAIN vs
  BY DEF Ref
<1>2. \A w \in DOMAIN vs : Ref(vs, v)[w] \in Versions
        /\ Ref(vs, v)[w].files = vs[w].files /\ Ref(vs, v)[w].refs_ = vs[w].refs_ + Is(v, w)
  BY SMT, SMTT(40) DEF Ref, CountedBy, Versions, Is
<1>3. Ref(vs, v) \in [DOMAIN vs -> Versions]
  BY <1>1, <1>2 DEF Ref
<1>4. \A w \in Nat \ {NoVersion} : w \in DOMAIN vs <=> d[w] > 0
  BY SMT, SMTT(40) DEF CountedBy, Is
<1>5. \A w \in DOMAIN vs : Ref(vs, v)[w].refs_ = d[w]
  BY <1>2 DEF CountedBy
<1> QED
  BY <1>1, <1>2, <1>3, <1>4, <1>5 DEF CountedBy, SameFiles

\* Version::Unref counts one holder less, and the last one takes the version
\* out of the list.
LEMMA UnrefCounts ==
    ASSUME NEW vs, NEW c \in [Nat -> Nat], NEW d \in [Nat -> Nat], NEW v \in DOMAIN vs,
           CountedBy(vs, c), \A w \in Nat \ {NoVersion} : d[w] = c[w] - Is(v, w)
    PROVE  CountedBy(Unref(vs, v), d) /\ SameFiles(vs, Unref(vs, v))
<1>1. CASE vs[v].refs_ > 1
  <2>1. DOMAIN Unref(vs, v) = DOMAIN vs
    BY <1>1 DEF Unref
  <2>2. \A w \in DOMAIN vs : Unref(vs, v)[w] \in Versions
          /\ Unref(vs, v)[w].files = vs[w].files /\ Unref(vs, v)[w].refs_ = vs[w].refs_ - Is(v, w)
    BY SMT, SMTT(40), <1>1 DEF Unref, CountedBy, Versions, Is
  <2>3. Unref(vs, v) \in [DOMAIN vs -> Versions]
    BY <1>1, <2>1, <2>2 DEF Unref
  <2>4. \A w \in Nat \ {NoVersion} : w \in DOMAIN vs <=> d[w] > 0
    BY SMT, SMTT(40), <1>1 DEF CountedBy, Is
  <2>5. \A w \in DOMAIN vs : Unref(vs, v)[w].refs_ = d[w]
    BY <2>2 DEF CountedBy
  <2> QED
    BY <2>1, <2>2, <2>3, <2>4, <2>5 DEF CountedBy, SameFiles
<1>2. CASE ~(vs[v].refs_ > 1)
  <2>1. Unref(vs, v) = [w \in DOMAIN vs \ {v} |-> vs[w]]
    BY <1>2 DEF Unref
  <2>2. IsFiniteSet(DOMAIN vs \ {v})
    BY FS_RemoveElement DEF CountedBy
  <2>3. c[v] = 1
    BY SMT, SMTT(40), <1>2 DEF CountedBy, Versions
  <2> QED
    BY SMT, SMTT(40), <2>1, <2>2, <2>3 DEF CountedBy, SameFiles, Is, Versions
<1> QED
  BY <1>1, <1>2

\* The id of a new version is not in use.
LEMMA NewVersionFresh ==
    ASSUME IsFiniteSet(DOMAIN versions)
    PROVE  NewVersion \in Nat \ {NoVersion} /\ NewVersion \notin DOMAIN versions
<1> DEFINE n == Cardinality(DOMAIN versions)
<1>1. n \in Nat
  BY FS_CardinalityType
<1>2. \E v \in 1..(n + 1) : v \notin DOMAIN versions
  <2> SUFFICES ASSUME 1..(n + 1) \subseteq DOMAIN versions
               PROVE  FALSE
    OBVIOUS
  <2>1. Cardinality(1..(n + 1)) = n + 1
    BY SMT, SMTT(40), <1>1, FS_Interval
  <2>2. Cardinality(1..(n + 1)) <= n
    BY FS_Subset
  <2> QED
    BY SMT, SMTT(40), <1>1, <2>1, <2>2
<1>3. NewVersion \in 1..(n + 1) /\ NewVersion \notin DOMAIN versions
  BY <1>2 DEF NewVersion
<1> QED
  BY SMT, SMTT(40), <1>1, <1>3 DEF NoVersion

\* VersionSet::AppendVersion: the current version loses a holder, the new one
\* has its first.
LEMMA AppendCounts ==
    ASSUME NEW c \in [Nat -> Nat], NEW d \in [Nat -> Nat], NEW files \in SUBSET Nat,
           CountedBy(versions, c), current_ \in DOMAIN versions,
           \A w \in Nat \ {NoVersion} : d[w] = c[w] - Is(current_, w) + Is(NewVersion, w)
    PROVE  /\ CountedBy(AppendVersion(files), d)
           /\ NewVersion \in DOMAIN AppendVersion(files)
           /\ \A v \in DOMAIN AppendVersion(files) :
                 \/ v = NewVersion /\ AppendVersion(files)[v].files = files
                 \/ v \in DOMAIN versions /\ AppendVersion(files)[v].files = versions[v].files
<1> DEFINE old == Unref(versions, current_)
           all == AppendVersion(files)
           b == [w \in Nat |-> IF w = current_ THEN c[w] - 1 ELSE c[w]]
<1>1. NewVersion \in Nat \ {NoVersion} /\ NewVersion \notin DOMAIN versions
  BY NewVersionFresh DEF CountedBy
<1>2. b \in [Nat -> Nat] /\ \A w \in Nat \ {NoVersion} : b[w] = c[w] - Is(current_, w)
  BY SMT, SMTT(40) DEF CountedBy, Is
<1>3. CountedBy(old, b) /\ SameFiles(versions, old)
  <2> HIDE DEF b
  <2> QED
    BY <1>2, UnrefCounts
<1>4. DOMAIN all = DOMAIN old \cup {NewVersion} /\ IsFiniteSet(DOMAIN all)
  BY <1>3, FS_AddElement DEF AppendVersion, CountedBy
<1>5. all[NewVersion] = [files |-> files, refs_ |-> 1] /\ \A w \in DOMAIN old : w # NewVersion /\ all[w] = old[w]
  BY <1>1, <1>3 DEF AppendVersion, SameFiles
<1> HIDE DEF old, b
<1>6. all \in [DOMAIN all -> Versions]
  <2>1. \A w \in DOMAIN all : all[w] \in Versions
    BY SMT, SMTT(40), <1>3, <1>4, <1>5 DEF CountedBy, Versions
  <2> QED
    BY <2>1 DEF AppendVersion
<1> HIDE DEF all
<1>7. d[NewVersion] = 1 /\ \A w \in Nat \ {NoVersion} : w # NewVersion => d[w] = b[w]
  <2>1. c[NewVersion] = 0 /\ current_ # NewVersion
    BY SMT, SMTT(40), <1>1 DEF CountedBy
  <2> QED
    BY SMT, SMTT(40), <1>1, <1>2, <2>1 DEF Is
<1>8. \A w \in Nat \ {NoVersion} : w \in DOMAIN all <=> d[w] > 0
  BY SMT, SMTT(40), <1>1, <1>3, <1>4, <1>7 DEF CountedBy
<1>9. \A w \in DOMAIN all : all[w].refs_ = d[w]
  BY SMT, SMTT(40), <1>3, <1>4, <1>5, <1>7 DEF CountedBy
<1>10. CountedBy(all, d)
  BY <1>1, <1>3, <1>4, <1>6, <1>8, <1>9 DEF CountedBy
<1> QED
  BY SMT, SMTT(40), <1>3, <1>4, <1>5, <1>10 DEF SameFiles, all

\* Readers are counted exactly when one of them moves to another version.
LEMMA ReaderCount ==
    ASSUME using \in [Readers -> Nat], NEW r \in Readers, NEW v \in Nat, v # using[r],
           using' = [using EXCEPT ![r] = v]
    PROVE  \A w \in Nat : Cardinality(ReadersOf(w)') = Cardinality(ReadersOf(w)) + Is(v, w) - Is(using[r], w)
<1> SUFFICES ASSUME NEW w \in Nat
             PROVE  Cardinality(ReadersOf(w)') = Cardinality(ReadersOf(w)) + Is(v, w) - Is(using[r], w)
  OBVIOUS
<1>1. IsFiniteSet(ReadersOf(w)) /\ Cardinality(ReadersOf(w)) \in Nat
  BY FilesAssumption, FS_Subset, FS_CardinalityType DEF ReadersOf
<1>2. CASE w = v
  <2>1. ReadersOf(w)' = ReadersOf(w) \cup {r} /\ r \notin ReadersOf(w)
    BY <1>2 DEF ReadersOf
  <2>2. Cardinality(ReadersOf(w) \cup {r}) = Cardinality(ReadersOf(w)) + 1
    BY <1>1, <2>1, FS_AddElement
  <2> QED
    BY SMT, SMTT(40), <1>1, <1>2, <2>1, <2>2 DEF Is
<1>3. CASE w = using[r]
  <2>1. ReadersOf(w)' = ReadersOf(w) \ {r} /\ r \in ReadersOf(w)
    BY <1>3 DEF ReadersOf
  <2>2. Cardinality(ReadersOf(w) \ {r}) = Cardinality(ReadersOf(w)) - 1
    BY <1>1, <2>1, FS_RemoveElement
  <2> QED
    BY SMT, SMTT(40), <1>1, <1>3, <2>1, <2>2 DEF Is
<1>4. CASE w # v /\ w # using[r]
  <2>1. ReadersOf(w)' = ReadersOf(w)
    BY <1>4 DEF ReadersOf
  <2> QED
    BY SMT, SMTT(40), <1>1, <1>4, <2>1 DEF Is
<1> QED
  BY <1>2, <1>3, <1>4

\* Holders are counted by naturals, and whoever holds a version counts.
HoldersSound ==
    /\ HolderCount \in [Nat -> Nat]
    /\ \A v \in Nat : Cardinality(ReadersOf(v)) \in Nat /\ HolderCount[v] = Holders(v)
    /\ \A v \in Nat : v = current_ \/ v = FlushVersion \/ v = CompactionVersion => HolderCount[v] > 0
    /\ \A r \in Readers : using[r] \in Nat => HolderCount[using[r]] > 0

\* HolderCount counts the holders.
LEMMA HoldersCounted == HoldersSound
<1>1. \A v \in Nat : IsFiniteSet(ReadersOf(v)) /\ Cardinality(ReadersOf(v)) \in Nat
  BY FilesAssumption, FS_Subset, FS_CardinalityType DEF ReadersOf
<1>2. \A v \in Nat : Holders(v) \in Nat
  BY SMT, SMTT(40), <1>1 DEF Holders, Is
<1>3. \A v \in Nat : v = current_ \/ v = FlushVersion \/ v = CompactionVersion => Holders(v) > 0
  BY SMT, SMTT(40), <1>1 DEF Holders, Is
<1>4. \A r \in Readers : using[r] \in Nat => Cardinality(ReadersOf(using[r])) # 0
  <2> SUFFICES ASSUME NEW r \in Readers, using[r] \in Nat
               PROVE  Cardinality(ReadersOf(using[r])) # 0
    OBVIOUS
  <2>1. r \in ReadersOf(using[r])
    BY DEF ReadersOf
  <2> QED
    BY <1>1, <2>1, FS_EmptySet
<1>5. \A r \in Readers : using[r] \in Nat => Holders(using[r]) > 0
  BY SMT, SMTT(40), <1>1, <1>4 DEF Holders, Is
<1> QED
  BY <1>1, <1>2, <1>3, <1>5 DEF HolderCount, HoldersSound

\* The same in the next state.
LEMMA HoldersCountedNext == HoldersSound'
  BY HoldersCounted, PTL
-----------------------------------------------------------------------------

\* What a step may do to versions: those that stay keep their files, and a new
\* one has the files a flush or a compaction prepared.
VersionsKept ==
    \A v \in DOMAIN versions' :
        IF v \in DOMAIN versions THEN versions'[v].files = versions[v].files
        ELSE \/ flush.pc = "manifest" /\ flush'.pc = "remove" /\ versions'[v].files = flush.files
             \/ compaction.pc = "manifest" /\ compaction'.pc = "remove" /\ versions'[v].files = compaction.files

\* Steps that leave versions and their holders alone.
LEMMA RefsUnchanged ==
    ASSUME RefsInv, UNCHANGED <<versions, current_, using, FlushVersion, CompactionVersion>>
    PROVE  RefsInv' /\ VersionsKept
<1>1. HolderCount' = HolderCount
  BY DEF HolderCount, Holders, ReadersOf
<1> QED
  BY <1>1 DEF RefsInv, CountedBy, VersionsKept

\* Begin, CompactMemTable and BackgroundCompaction: one holder more of current_.
LEMMA RefsAdded ==
    ASSUME FilesType, RefsInv, versions' = Ref(versions, current_),
           \A w \in Nat \ {NoVersion} : Holders(w)' = Holders(w) + Is(current_, w)
    PROVE  RefsInv' /\ VersionsKept
<1>1. HoldersSound /\ HoldersSound'
  BY HoldersCounted, HoldersCountedNext
<1>2. current_ \in DOMAIN versions
  BY <1>1 DEF FilesType, NumbersType, RefsInv, CountedBy, HoldersSound
<1>3. \A w \in Nat \ {NoVersion} : HolderCount'[w] = HolderCount[w] + Is(current_, w)
  BY <1>1 DEF HoldersSound
<1>4. CountedBy(Ref(versions, current_), HolderCount') /\ SameFiles(versions, Ref(versions, current_))
  BY <1>1, <1>2, <1>3, RefCounts DEF RefsInv, HoldersSound
<1> QED
  BY <1>4 DEF RefsInv, VersionsKept, SameFiles

\* End, TableBuilt and CompactionFails: one holder less.
LEMMA RefsRemoved ==
    ASSUME RefsInv, NEW v \in DOMAIN versions, versions' = Unref(versions, v),
           \A w \in Nat \ {NoVersion} : Holders(w)' = Holders(w) - Is(v, w)
    PROVE  RefsInv' /\ VersionsKept
<1>1. HoldersSound /\ HoldersSound'
  BY HoldersCounted, HoldersCountedNext
<1>2. \A w \in Nat \ {NoVersion} : HolderCount'[w] = HolderCount[w] - Is(v, w)
  BY <1>1 DEF HoldersSound
<1>3. CountedBy(Unref(versions, v), HolderCount') /\ SameFiles(versions, Unref(versions, v))
  BY <1>1, <1>2, UnrefCounts DEF RefsInv, HoldersSound
<1> QED
  BY <1>3 DEF RefsInv, VersionsKept, SameFiles

\* The version somebody holds is in the list.
HeldListed ==
    /\ current_ \in DOMAIN versions
    /\ flush.pc \in Building => flush.version \in DOMAIN versions
    /\ compaction.pc \in Merging => compaction.version \in DOMAIN versions
    /\ \A r \in Readers : using[r] # NoVersion => using[r] \in DOMAIN versions

\* By the counts, every version that is held is in the list.
LEMMA HeldIsListed == FilesType /\ RefsInv => HeldListed
  BY HoldersCounted
     DEF FilesType, NumbersType, FlushType, CompactionType, OpenType, RefsInv, CountedBy,
         HoldersSound, HeldListed, FlushVersion, CompactionVersion, Works

\* The same in the next state.
LEMMA HeldIsListedNext == FilesType' /\ RefsInv' => HeldListed'
  BY HeldIsListed, PTL

\* Every step keeps the counts, and with them the versions in use.
LEMMA RefsStep ==
    ASSUME FilesType, RefsInv, FilesNext
    PROVE  RefsInv' /\ VersionsKept
<1>1. HoldersSound /\ HoldersSound'
  BY HoldersCounted, HoldersCountedNext
<1>2. /\ current_ \in DOMAIN versions /\ current_ \in Nat \ {NoVersion}
      /\ flush.pc \in Building => flush.version \in DOMAIN versions
      /\ compaction.pc \in Merging => compaction.version \in DOMAIN versions
      /\ \A r \in Readers : using[r] # NoVersion => using[r] \in DOMAIN versions
  BY HeldIsListed DEF HeldListed, FilesType, NumbersType
<1> flush \in Works /\ compaction \in Works /\ using \in [Readers -> Nat]
  BY DEF FilesType, FlushType, CompactionType, OpenType
<1>3. CASE \E t \in Threads : OpenFile(t) \/ NoMmap(t) \/ NoFd(t) \/ InsertTable(t)
  BY <1>3, RefsUnchanged DEF OpenFile, NoMmap, NoFd, InsertTable, versionVars, bgVars, FlushVersion, CompactionVersion
<1>4. ASSUME NEW r \in Readers, Begin(r)
      PROVE  RefsInv' /\ VersionsKept
  <2>1. \A w \in Nat : Cardinality(ReadersOf(w)') = Cardinality(ReadersOf(w)) + Is(current_, w) - Is(using[r], w)
    BY <1>2, <1>4, ReaderCount DEF Begin
  <2>2. \A w \in Nat \ {NoVersion} : Is(using[r], w) = 0
    BY <1>4 DEF Begin, Is
  <2>3. UNCHANGED <<current_, FlushVersion, CompactionVersion>> /\ versions' = Ref(versions, current_)
    BY <1>4 DEF Begin, bgVars, FlushVersion, CompactionVersion
  <2>4. \A w \in Nat \ {NoVersion} : Holders(w)' = Holders(w) + Is(current_, w)
    BY SMT, SMTT(40), <1>1, <2>1, <2>2, <2>3 DEF HoldersSound, Holders, Is
  <2> QED
    BY <2>3, <2>4, RefsAdded
<1>5. ASSUME NEW r \in Readers, End(r)
      PROVE  RefsInv' /\ VersionsKept
  <2>1. \A w \in Nat : Cardinality(ReadersOf(w)') = Cardinality(ReadersOf(w)) + Is(NoVersion, w) - Is(using[r], w)
    BY <1>5, ReaderCount DEF End, NoVersion
  <2>2. UNCHANGED <<current_, FlushVersion, CompactionVersion>> /\ versions' = Unref(versions, using[r])
    BY <1>5 DEF End, bgVars, FlushVersion, CompactionVersion
  <2>3. \A w \in Nat \ {NoVersion} : Holders(w)' = Holders(w) - Is(using[r], w)
    BY SMT, SMTT(40), <1>1, <2>1, <2>2 DEF HoldersSound, Holders, Is
  <2> QED
    BY <1>2, <1>5, <2>2, <2>3, RefsRemoved DEF End
<1>6. CASE \E r \in Readers : FindTable(r) \/ ReleaseTable(r)
  BY <1>6, RefsUnchanged DEF FindTable, ReleaseTable, versionVars, bgVars, FlushVersion, CompactionVersion
<1>7. CASE CompactMemTable
  <2>1. FlushVersion = NoVersion /\ FlushVersion' = current_
    BY <1>7 DEF CompactMemTable, BgFree, NoWork, FlushVersion, Building
  <2>2. UNCHANGED <<current_, using, CompactionVersion>> /\ versions' = Ref(versions, current_)
    BY <1>7 DEF CompactMemTable, CompactionVersion
  <2>3. \A w \in Nat \ {NoVersion} : Holders(w)' = Holders(w) + Is(current_, w)
    BY SMT, SMTT(40), <1>1, <2>1, <2>2 DEF HoldersSound, Holders, ReadersOf, Is
  <2> QED
    BY <2>2, <2>3, RefsAdded
<1>8. CASE BuildTable \/ VerifyTable \/ TableVerified \/ TableUnusable \/ FlushRemoves
  <2>1. FlushVersion' = FlushVersion
    <3>1. CASE BuildTable
      BY <3>1 DEF BuildTable, Works, FlushVersion, Building
    <3>2. CASE VerifyTable
      BY <3>2 DEF VerifyTable, bgVars, FlushVersion
    <3>3. CASE TableVerified
      BY <3>3 DEF TableVerified, Works, FlushVersion, Building
    <3>4. CASE TableUnusable
      BY <3>4 DEF TableUnusable, Works, FlushVersion, Building
    <3>5. CASE FlushRemoves
      BY <3>5 DEF FlushRemoves, RemoveFile, Rest, NoWork, Works, FlushVersion, Building
    <3> QED
      BY <1>8, <3>1, <3>2, <3>3, <3>4, <3>5
  <2> QED
    BY <1>8, <2>1, RefsUnchanged
       DEF BuildTable, VerifyTable, TableVerified, TableUnusable, FlushRemoves, RemoveFile,
           versionVars, bgVars, CompactionVersion
<1>9. CASE TableBuilt
  <2>1. FlushVersion = flush.version /\ FlushVersion' = NoVersion /\ flush.pc \in Building
    <3>1. CASE flush.pc = "built"
      BY <1>9, <3>1 DEF TableBuilt, FlushVersion, Building, Works
    <3>2. CASE flush.pc = "failed"
      BY SMT, SMTT(40), <1>9, <3>2 DEF TableBuilt, FlushVersion, Building, NoWork
    <3> QED
      BY <1>9, <3>1, <3>2 DEF TableBuilt
  <2>2. UNCHANGED <<current_, using, CompactionVersion>> /\ versions' = Unref(versions, flush.version)
    BY <1>9 DEF TableBuilt, CompactionVersion
  <2>3. \A w \in Nat \ {NoVersion} : Holders(w)' = Holders(w) - Is(flush.version, w)
    BY SMT, SMTT(40), <1>1, <2>1, <2>2 DEF HoldersSound, Holders, ReadersOf, Is
  <2> QED
    BY <1>2, <2>1, <2>2, <2>3, RefsRemoved
<1>10. CASE FlushInstalled
  <2>1. FlushVersion = NoVersion /\ FlushVersion' = NoVersion /\ flush.pc = "manifest"
    <3>1. flush' = NoWork \/ flush' = [NoWork EXCEPT !.pc = "remove", !.files = Obsolete(pending_outputs_)]
      BY <1>10 DEF FlushInstalled
    <3>2. flush'.pc \in {"none", "remove"}
      <4>1. CASE flush' = NoWork
        BY <4>1 DEF NoWork
      <4>2. CASE flush' = [NoWork EXCEPT !.pc = "remove", !.files = Obsolete(pending_outputs_)]
        BY <4>2 DEF NoWork
      <4> QED
        BY <3>1, <4>1, <4>2
    <3> QED
      BY <1>10, <3>2 DEF FlushInstalled, FlushVersion, Building
  <2>2. UNCHANGED <<using, CompactionVersion>>
    BY <1>10 DEF FlushInstalled, CompactionVersion
  <2>3. CASE UNCHANGED versionVars
    BY <2>1, <2>2, <2>3, RefsUnchanged DEF versionVars
  <2>4. CASE versions' = AppendVersion(flush.files) /\ current_' = NewVersion /\ flush'.pc = "remove"
    <3>1. \A w \in Nat \ {NoVersion} : Holders(w)' = Holders(w) - Is(current_, w) + Is(NewVersion, w)
      BY SMT, SMTT(40), <1>1, <2>1, <2>2, <2>4 DEF HoldersSound, Holders, ReadersOf, Is
    <3>2. \A w \in Nat \ {NoVersion} : HolderCount'[w] = HolderCount[w] - Is(current_, w) + Is(NewVersion, w)
      BY <1>1, <3>1 DEF HoldersSound
    <3>3. HolderCount \in [Nat -> Nat] /\ HolderCount' \in [Nat -> Nat] /\ flush.files \in SUBSET Nat
      BY <1>1 DEF HoldersSound, Works
    <3>4. /\ CountedBy(versions', HolderCount')
          /\ \A v \in DOMAIN versions' :
                \/ v = NewVersion /\ versions'[v].files = flush.files
                \/ v \in DOMAIN versions /\ versions'[v].files = versions[v].files
      BY SMT, ZenonT(40), <1>2, <2>4, <3>2, <3>3, AppendCounts DEF RefsInv
    <3> QED
      BY <2>1, <2>4, <3>4, NewVersionFresh DEF RefsInv, VersionsKept, CountedBy
  <2> QED
    <3>1. flush' = [NoWork EXCEPT !.pc = "remove", !.files = Obsolete(pending_outputs_)] => flush'.pc = "remove"
      BY DEF NoWork
    <3> QED
      BY <1>10, <2>3, <2>4, <3>1 DEF FlushInstalled
<1>11. CASE BackgroundCompaction
  <2>1. CompactionVersion = NoVersion /\ CompactionVersion' = current_
    BY <1>11 DEF BackgroundCompaction, NoWork, CompactionVersion, Merging
  <2>2. UNCHANGED <<current_, using, FlushVersion>> /\ versions' = Ref(versions, current_)
    BY <1>11 DEF BackgroundCompaction, FlushVersion
  <2>3. \A w \in Nat \ {NoVersion} : Holders(w)' = Holders(w) + Is(current_, w)
    BY SMT, SMTT(40), <1>1, <2>1, <2>2 DEF HoldersSound, Holders, ReadersOf, Is
  <2> QED
    BY <2>2, <2>3, RefsAdded
<1>12. CASE OpenInput \/ OpenCompactionOutputFile \/ MergeEnds \/ VerifyOutput \/ OutputVerified
            \/ InstallCompactionResults \/ CompactionRemoves
  <2>1. CompactionVersion' = CompactionVersion
    <3>1. CASE OpenInput
      BY <3>1 DEF OpenInput, bgVars, CompactionVersion
    <3>2. CASE OpenCompactionOutputFile
      BY <3>2 DEF OpenCompactionOutputFile, Works, CompactionVersion
    <3>3. CASE MergeEnds
      <4>1. CASE compaction' = [compaction EXCEPT !.pc = "failed"]
        BY <3>3, <4>1 DEF MergeEnds, Compacting, Works, CompactionVersion, Merging
      <4>2. CASE compaction' = [compaction EXCEPT !.pc = IF compaction.number = 0 THEN "merged" ELSE "verify",
                                                  !.files = IF compaction.number = 0 THEN {} ELSE {compaction.number}]
        BY <3>3, <4>2 DEF MergeEnds, Compacting, Works, CompactionVersion, Merging
      <4> QED
        BY <3>3, <4>1, <4>2 DEF MergeEnds
    <3>4. CASE VerifyOutput
      BY <3>4 DEF VerifyOutput, bgVars, CompactionVersion
    <3>5. CASE OutputVerified
      BY <3>5 DEF OutputVerified, Works, CompactionVersion, Merging
    <3>6. CASE InstallCompactionResults
      BY <3>6 DEF InstallCompactionResults, Works, CompactionVersion, Merging
    <3>7. CASE CompactionRemoves
      BY <3>7 DEF CompactionRemoves, RemoveFile, Rest, NoWork, Works, CompactionVersion, Merging
    <3> QED
      BY <1>12, <3>1, <3>2, <3>3, <3>4, <3>5, <3>6, <3>7
  <2> QED
    BY <1>12, <2>1, RefsUnchanged
       DEF OpenInput, OpenCompactionOutputFile, MergeEnds, VerifyOutput, OutputVerified,
           InstallCompactionResults, CompactionRemoves, RemoveFile, versionVars, bgVars, FlushVersion
<1>13. CASE CompactionInstalled
  <2> DEFINE all == AppendVersion(compaction.files)
             b == [w \in Nat |-> HolderCount[w] - Is(current_, w) + Is(NewVersion, w)]
  <2>1. CompactionVersion = compaction.version /\ compaction.pc \in Merging /\ compaction.pc = "manifest"
    BY <1>13 DEF CompactionInstalled, CompactionVersion, Merging
  <2>2. compaction'.pc = "remove" /\ CompactionVersion' = NoVersion
    BY <1>13 DEF CompactionInstalled, NoWork, CompactionVersion, Merging
  <2>3. UNCHANGED <<using, FlushVersion>> /\ versions' = Unref(all, compaction.version) /\ current_' = NewVersion
    BY <1>13 DEF CompactionInstalled, FlushVersion
  <2>4. \A w \in Nat \ {NoVersion} : Holders(w)' = Holders(w) - Is(current_, w) + Is(NewVersion, w) - Is(compaction.version, w)
    BY SMT, SMTT(40), <1>1, <2>1, <2>2, <2>3 DEF HoldersSound, Holders, ReadersOf, Is
  <2>5. \A w \in Nat : Holders(w) - Is(current_, w) + Is(NewVersion, w) \in Nat
    BY SMT, SMTT(40), <1>1 DEF HoldersSound, Holders, Is
  <2>6. b \in [Nat -> Nat] /\ \A w \in Nat : b[w] = HolderCount[w] - Is(current_, w) + Is(NewVersion, w)
    BY <1>1, <2>5 DEF HoldersSound
  <2>7. HolderCount \in [Nat -> Nat] /\ HolderCount' \in [Nat -> Nat] /\ compaction.files \in SUBSET Nat
    BY <1>1 DEF HoldersSound, Works
  <2> HIDE DEF b
  <2>8. \A w \in Nat \ {NoVersion} : HolderCount'[w] = b[w] - Is(compaction.version, w)
    <3>1. \A w \in Nat : HolderCount[w] = Holders(w) /\ HolderCount'[w] = Holders(w)'
      BY <1>1 DEF HoldersSound
    <3>2. \A w \in Nat \ {NoVersion} : b[w] = Holders(w) - Is(current_, w) + Is(NewVersion, w)
      BY <2>6, <3>1
    <3> SUFFICES ASSUME NEW w \in Nat \ {NoVersion} PROVE HolderCount'[w] = b[w] - Is(compaction.version, w)
      OBVIOUS
    <3>3. HolderCount'[w] = Holders(w) - Is(current_, w) + Is(NewVersion, w) - Is(compaction.version, w)
      BY <2>4, <3>1
    <3>4. b[w] = Holders(w) - Is(current_, w) + Is(NewVersion, w)
      BY <3>2
    <3>5. Holders(w) \in Nat
      BY <2>7, <3>1
    <3>6. \A x : Is(x, w) \in 0..1
      BY SMT, SMTT(40) DEF Is
    <3> QED
      BY SMT, SMTT(40), <3>3, <3>4, <3>5, <3>6
  <2>9. compaction.version \in Nat \ {NoVersion}
    BY <2>1 DEF FilesType, CompactionType, Works
  <2>10. /\ CountedBy(all, b)
         /\ \A v \in DOMAIN all :
               \/ v = NewVersion /\ all[v].files = compaction.files
               \/ v \in DOMAIN versions /\ all[v].files = versions[v].files
    <3>1. \A w \in Nat \ {NoVersion} : b[w] = HolderCount[w] - Is(current_, w) + Is(NewVersion, w)
      BY <2>6
    <3> QED
      BY <1>2, <2>6, <2>7, <3>1, AppendCounts DEF RefsInv
  <2> HIDE DEF all
  <2>11. compaction.version \in DOMAIN all
    <3>1. b[compaction.version] > 0
      BY SMT, SMTT(40), <2>6, <2>7, <2>8, <2>9 DEF Is
    <3> QED
      BY <2>9, <2>10, <3>1 DEF CountedBy
  <2>12. CountedBy(versions', HolderCount') /\ SameFiles(all, versions')
    BY <2>3, <2>6, <2>7, <2>8, <2>10, <2>11, UnrefCounts
  <2> QED
    BY <2>1, <2>2, <2>10, <2>12, NewVersionFresh DEF RefsInv, VersionsKept, CountedBy, SameFiles
<1>14. CASE CompactionFails
  <2>1. CompactionVersion = compaction.version /\ CompactionVersion' = NoVersion /\ compaction.pc \in Merging
    BY <1>14 DEF CompactionFails, CompactionVersion, Merging, NoWork
  <2>2. UNCHANGED <<current_, using, FlushVersion>> /\ versions' = Unref(versions, compaction.version)
    BY <1>14 DEF CompactionFails, FlushVersion
  <2>3. \A w \in Nat \ {NoVersion} : Holders(w)' = Holders(w) - Is(compaction.version, w)
    BY SMT, SMTT(40), <1>1, <2>1, <2>2 DEF HoldersSound, Holders, ReadersOf, Is
  <2> QED
    BY <1>2, <2>1, <2>2, <2>3, RefsRemoved
<1> QED
  BY <1>3, <1>4, <1>5, <1>6, <1>7, <1>8, <1>9, <1>10, <1>11, <1>12, <1>13, <1>14 DEF FilesNext
-----------------------------------------------------------------------------
(***************************************************************************)
(* The inductive invariant: what keeps each file of a flush, a compaction, *)
(* an open under way and an open table in the directory.                   *)
(***************************************************************************)
\* A new file is in no version, the output of a compaction is pending while a
\* flush inside the compaction removes files, and what is being removed is
\* neither live nor pending.
WorkInv ==
    /\ AddLiveFiles \subseteq dir
    /\ flush.pc \in Building => flush.number \in Known \ AddLiveFiles
    /\ flush.pc = "build" => flush.number \notin dir /\ flush.files = {}
    /\ flush.pc = "verify" => flush.number \in dir
    /\ flush.pc \in {"built", "manifest"} => flush.files \subseteq dir
    /\ flush.pc = "remove" => flush.files \cap (AddLiveFiles \cup pending_outputs_) = {}
    /\ flush.pc # "none" => compaction.pc \in {"none", "running"}
    /\ compaction.pc \in Merging => compaction.inputs \subseteq versions[compaction.version].files
    /\ compaction.pc \in Merging /\ compaction.number # 0 =>
          /\ compaction.number \in dir \cap pending_outputs_
          /\ flush.pc \in Building => compaction.number # flush.number
    /\ compaction.pc = "verify" => compaction.number # 0
    /\ compaction.pc \in {"verify", "merged", "manifest"} => compaction.files \subseteq dir
    /\ compaction.pc = "remove" => compaction.files \cap (AddLiveFiles \cup pending_outputs_) = {}

\* The files the background thread may have open.
BgFiles ==
    (IF flush.pc = "verify" THEN {flush.number} ELSE {})
    \cup (IF compaction.pc \in Merging \ {"manifest"} THEN compaction.inputs \cup ({compaction.number} \ {0}) ELSE {})

\* Readers open files of the version they hold.
ReadersOpen ==
    \A r \in Readers :
        /\ opening[r] # NoOpening => using[r] # NoVersion /\ opening[r].number \in versions[using[r]].files
        /\ \A o \in handles[r] : using[r] # NoVersion /\ o.number \in versions[using[r]].files

\* The background thread opens those it works on, each once, and is not
\* opening one when it goes on to something else.
BgOpen ==
    /\ opening[Bg] # NoOpening => opening[Bg].number \in BgFiles /\ ~Holds(Bg, opening[Bg].number)
    /\ \A o \in handles[Bg] : o.number \in BgFiles /\ \A p \in handles[Bg] : p.number = o.number => p = o
    /\ flush.pc = "verify" => opening[Bg] = NoOpening \/ opening[Bg].number = flush.number
    /\ flush.pc \notin {"none", "verify"} => opening[Bg] = NoOpening
    /\ compaction.pc = "verify" => opening[Bg] = NoOpening \/ opening[Bg].number = compaction.number
    /\ flush.pc = "none" /\ compaction.pc \notin {"running", "verify"} => opening[Bg] = NoOpening

OpenInv == ReadersOpen /\ BgOpen

\* A cached table is that of its number, its file exists and is not being
\* removed; the table a flush has yet to verify is not cached.
CacheInv ==
    /\ \A n \in Numbers : cache_[n] # NoTable =>
          /\ cache_[n].number = n /\ n \in dir
          /\ flush.pc = "remove" => n \notin flush.files
          /\ compaction.pc = "remove" => n \notin compaction.files
    /\ flush.pc = "verify" /\ ~Holds(Bg, flush.number) => cache_[flush.number] = NoTable

FilesInv == FilesType /\ RefsInv /\ WorkInv /\ OpenInv /\ CacheInv /\ ~missing

\* Which steps change the work of the background thread.
LEMMA StepFrame ==
    ASSUME FilesNext
    PROVE  /\ \/ UNCHANGED flush
              \/ CompactMemTable \/ BuildTable \/ TableVerified \/ TableUnusable
              \/ TableBuilt \/ FlushInstalled \/ FlushRemoves
           /\ \/ UNCHANGED compaction
              \/ BackgroundCompaction \/ OpenCompactionOutputFile \/ MergeEnds \/ OutputVerified
              \/ InstallCompactionResults \/ CompactionInstalled \/ CompactionFails \/ CompactionRemoves
           /\ \/ UNCHANGED <<dir, next_file_number_>>
              \/ CompactMemTable \/ BuildTable \/ TableUnusable \/ FlushRemoves
              \/ OpenCompactionOutputFile \/ CompactionRemoves
           /\ \/ UNCHANGED current_
              \/ FlushInstalled \/ CompactionInstalled
<1>1. CASE \E t \in Threads : OpenFile(t) \/ NoMmap(t) \/ NoFd(t) \/ InsertTable(t)
  BY <1>1 DEF OpenFile, NoMmap, NoFd, InsertTable, dirVars, versionVars, bgVars
<1>2. CASE \E r \in Readers : Begin(r) \/ FindTable(r) \/ ReleaseTable(r) \/ End(r)
  BY <1>2 DEF Begin, FindTable, ReleaseTable, End, dirVars, versionVars, bgVars
<1>3. CASE CompactMemTable \/ BuildTable \/ VerifyTable \/ TableVerified \/ TableUnusable
           \/ TableBuilt \/ FlushInstalled \/ FlushRemoves
  BY <1>3 DEF CompactMemTable, BuildTable, VerifyTable, TableVerified, TableUnusable, TableBuilt,
              FlushInstalled, FlushRemoves, RemoveFile, dirVars, versionVars, bgVars
<1>4. CASE \/ BackgroundCompaction \/ OpenInput \/ OpenCompactionOutputFile \/ MergeEnds
           \/ VerifyOutput \/ OutputVerified
           \/ InstallCompactionResults \/ CompactionInstalled \/ CompactionFails \/ CompactionRemoves
  BY <1>4 DEF BackgroundCompaction, OpenInput, OpenCompactionOutputFile, MergeEnds, VerifyOutput, OutputVerified,
              InstallCompactionResults, CompactionInstalled, CompactionFails, CompactionRemoves, RemoveFile,
              dirVars, versionVars, bgVars
<1> QED
  BY <1>1, <1>2, <1>3, <1>4 DEF FilesNext

\* What a flush is at every step.
LEMMA FlushTypeStep ==
    ASSUME FilesType, RefsInv, FilesNext
    PROVE  FlushType'
<1>1. /\ dir \subseteq Nat /\ current_ \in DOMAIN versions /\ current_ \in Nat \ {NoVersion}
      /\ versions[current_].files \subseteq Nat /\ next_file_number_ \in Nat
  BY SMT, SMTT(40), HeldIsListed, FilesAssumption DEF HeldListed, FilesType, NumbersType, RefsInv, CountedBy, Versions, Known
<1> flush \in Works /\ FlushType
  BY DEF FilesType, FlushType
<1>2. CASE UNCHANGED flush
  BY <1>2 DEF FlushType
<1>3. CASE CompactMemTable
  BY <1>1, <1>3 DEF CompactMemTable, FlushType, NoWork, Works
<1>4. CASE BuildTable
  BY <1>4 DEF BuildTable, FlushType, Works, Building
<1>5. CASE TableVerified
  BY <1>5 DEF TableVerified, FlushType, Works, Building
<1>6. CASE TableUnusable
  BY <1>6 DEF TableUnusable, FlushType, Works, Building
<1>7. CASE TableBuilt
  <2>1. CASE flush.pc = "built"
    <3>1. flush' = [flush EXCEPT !.pc = "manifest", !.files = @ \cup versions[current_].files]
      BY <1>7, <2>1 DEF TableBuilt
    <3> QED
      BY <1>1, <3>1 DEF FlushType, Works, Building
  <2>2. CASE flush.pc = "failed"
    BY SMT, SMTT(40), <1>7, <2>2 DEF TableBuilt, FlushType, NoWork, Works, Building, NoVersion
  <2> QED
    BY <1>7, <2>1, <2>2 DEF TableBuilt
<1>8. CASE FlushInstalled
  <2>1. CASE flush' = NoWork
    BY <2>1 DEF FlushType, NoWork, Works, Building, NoVersion
  <2>2. CASE flush' = [NoWork EXCEPT !.pc = "remove", !.files = Obsolete(pending_outputs_)]
    BY <1>1, <2>2 DEF FlushType, NoWork, Works, Building, NoVersion, Obsolete
  <2> QED
    BY <1>8, <2>1, <2>2 DEF FlushInstalled
<1>9. CASE FlushRemoves
  BY <1>9 DEF FlushRemoves, RemoveFile, Rest, FlushType, NoWork, Works, Building, NoVersion
<1> QED
  BY StepFrame, <1>2, <1>3, <1>4, <1>5, <1>6, <1>7, <1>8, <1>9

\* What a compaction is at every step.
LEMMA CompactionTypeStep ==
    ASSUME FilesType, RefsInv, FilesNext
    PROVE  CompactionType'
<1>1. /\ dir \subseteq Nat /\ current_ \in DOMAIN versions /\ current_ \in Nat \ {NoVersion}
      /\ versions[current_].files \subseteq Nat /\ next_file_number_ \in Nat
  BY SMT, SMTT(40), HeldIsListed, FilesAssumption DEF HeldListed, FilesType, NumbersType, RefsInv, CountedBy, Versions, Known
<1> compaction \in Works /\ CompactionType
  BY DEF FilesType, CompactionType
<1>2. CASE UNCHANGED compaction
  BY <1>2 DEF CompactionType
<1>3. CASE BackgroundCompaction
  <2>1. PICK inputs \in SUBSET versions[current_].files :
            compaction' = [NoWork EXCEPT !.pc = "running", !.inputs = inputs, !.version = current_]
    BY <1>3 DEF BackgroundCompaction
  <2> QED
    BY <1>1, <2>1 DEF CompactionType, NoWork, Works
<1>4. CASE OpenCompactionOutputFile
  BY <1>1, <1>4 DEF OpenCompactionOutputFile, Compacting, CompactionType, Works, Merging
<1>5. CASE MergeEnds
  <2>1. CASE compaction' = [compaction EXCEPT !.pc = "failed"]
    BY <1>5, <2>1 DEF MergeEnds, Compacting, CompactionType, Works, Merging
  <2>2. CASE compaction' = [compaction EXCEPT !.pc = IF compaction.number = 0 THEN "merged" ELSE "verify",
                                              !.files = IF compaction.number = 0 THEN {} ELSE {compaction.number}]
    BY <1>5, <2>2 DEF MergeEnds, Compacting, CompactionType, Works, Merging
  <2> QED
    BY <1>5, <2>1, <2>2 DEF MergeEnds
<1>6. CASE OutputVerified
  BY <1>6 DEF OutputVerified, CompactionType, Works, Merging
<1>7. CASE InstallCompactionResults
  BY <1>1, <1>7 DEF InstallCompactionResults, CompactionType, Works, Merging
<1>8. CASE CompactionInstalled
  BY <1>1, <1>8 DEF CompactionInstalled, CompactionType, NoWork, Works, Merging, NoVersion, Obsolete
<1>9. CASE CompactionFails
  BY <1>9 DEF CompactionFails, CompactionType, NoWork, Works, Merging, NoVersion
<1>10. CASE CompactionRemoves
  BY <1>10 DEF CompactionRemoves, RemoveFile, Rest, CompactionType, NoWork, Works, Merging, NoVersion
<1> QED
  BY StepFrame, <1>2, <1>3, <1>4, <1>5, <1>6, <1>7, <1>8, <1>9, <1>10

\* File numbers are taken in order, and only from what was given out.
LEMMA NumbersTypeStep ==
    ASSUME FilesType, RefsInv, WorkInv, FilesNext
    PROVE  NumbersType'
<1> NumbersType /\ MaxFileNumber \in Nat
  BY FilesAssumption DEF FilesType
<1>1. current_' \in Nat \ {NoVersion}
  BY StepFrame, NewVersionFresh DEF NumbersType, FlushInstalled, CompactionInstalled, RefsInv, CountedBy, versionVars
<1>2. next_file_number_' \in 1..(MaxFileNumber + 1) /\ dir' \subseteq Known'
  <2>1. CASE UNCHANGED <<dir, next_file_number_>>
    BY <2>1 DEF NumbersType, Known
  <2>2. CASE CompactMemTable
    BY SMT, SMTT(40), <2>2 DEF CompactMemTable, NumbersType, Known, Numbers
  <2>3. CASE BuildTable
    BY <2>3 DEF BuildTable, NumbersType, Known, WorkInv, Building
  <2>4. CASE TableUnusable
    BY <2>4 DEF TableUnusable, NumbersType, Known
  <2>5. CASE FlushRemoves
    BY <2>5 DEF FlushRemoves, RemoveFile, NumbersType, Known
  <2>6. CASE OpenCompactionOutputFile
    BY SMT, SMTT(40), <2>6 DEF OpenCompactionOutputFile, NumbersType, Known, Numbers
  <2>7. CASE CompactionRemoves
    BY <2>7 DEF CompactionRemoves, RemoveFile, NumbersType, Known
  <2> QED
    BY StepFrame, <2>1, <2>2, <2>3, <2>4, <2>5, <2>6, <2>7
<1> QED
  BY <1>1, <1>2 DEF NumbersType

\* What the threads have open at every step.
LEMMA OpenTypeStep ==
    ASSUME FilesType, WorkInv, RefsInv, FilesNext
    PROVE  OpenType'
<1> OpenType /\ Bg \in Threads /\ Readers \subseteq Threads
  BY DEF FilesType, Threads
<1>1. current_ \in Nat /\ dir \subseteq Nat /\ AddLiveFiles \subseteq dir /\ next_file_number_ \in Nat
  BY SMT, SMTT(40), FilesAssumption DEF FilesType, NumbersType, WorkInv, Known
<1>2. \A r \in Readers : using[r] # NoVersion => versions[using[r]].files \subseteq Nat
  BY HeldIsListed DEF HeldListed, RefsInv, CountedBy, Versions
<1>3. flush.number \in Nat /\ compaction.number \in Nat /\ compaction.inputs \subseteq Nat
  BY DEF FilesType, FlushType, CompactionType, Works
<1>4. ASSUME NEW t \in Threads, NEW n \in Nat, FindInCache(t, n), UNCHANGED using
      PROVE  OpenType'
  <2> DEFINE x == [NoOpening EXCEPT !.pc = "open", !.number = n]
  <2>1. x \in Openings /\ x.pc = "open"
    BY DEF Openings, NoOpening
  <2>2. \/ opening' = [opening EXCEPT ![t] = x] /\ UNCHANGED <<handles, cache_>>
        \/ handles' = [handles EXCEPT ![t] = @ \cup {cache_[n]}] /\ UNCHANGED <<opening, cache_>>
    BY <1>4 DEF FindInCache
  <2> HIDE DEF x
  <2> QED
    BY <1>4, <2>1, <2>2 DEF OpenType
<1>5. ASSUME NEW t \in Threads, opening' = [opening EXCEPT ![t] = NoOpening], UNCHANGED <<using, handles, cache_>>
      PROVE  OpenType'
  BY <1>5 DEF OpenType, Openings, NoOpening
<1>6. ASSUME NEW t \in Threads, NEW o, ReleaseHandle(t, o), UNCHANGED using
      PROVE  OpenType'
  BY <1>6 DEF ReleaseHandle, OpenType
<1>7. ASSUME UNCHANGED <<using, opening, handles>>, NEW S, cache_' = [n \in Numbers |-> IF n \in S THEN NoTable ELSE cache_[n]]
      PROVE  OpenType'
  BY <1>7 DEF OpenType
<1>8. ASSUME UNCHANGED <<using, openVars>>
      PROVE  OpenType'
  BY <1>8 DEF OpenType, openVars
<1>9. ASSUME CloseInputs, UNCHANGED using
      PROVE  OpenType'
  BY <1>9 DEF CloseInputs, OpenType
<1>failed. ASSUME NEW t \in Threads, Failed(t), UNCHANGED <<using, handles, cache_>>
           PROVE  OpenType'
  <2> DEFINE x == IF t = Bg THEN [opening[t] EXCEPT !.pc = "failed"] ELSE NoOpening
  <2>1. x \in Openings /\ (x.pc = "none" => x = NoOpening)
    BY DEF OpenType, Openings, NoOpening
  <2>2. opening' = [opening EXCEPT ![t] = x]
    BY <1>failed DEF Failed
  <2> HIDE DEF x
  <2> QED
    BY <1>failed, <2>1, <2>2 DEF OpenType
<1>10. ASSUME NEW t \in Threads, OpenFile(t)
       PROVE  OpenType'
  <2>1. CASE SetOpening(t, "insert", "mmap")
    BY SMT, SMTT(40), <1>10, <2>1 DEF OpenFile, SetOpening, OpenType, Openings
  <2>2. CASE SetOpening(t, "full", "none")
    BY SMT, ZenonT(40), <1>10, <2>2 DEF OpenFile, SetOpening, OpenType, Openings
  <2>3. CASE Failed(t)
    BY <1>failed, <1>10, <2>3 DEF OpenFile
  <2> QED
    BY <1>10, <2>1, <2>2, <2>3 DEF OpenFile
<1>11. ASSUME NEW t \in Threads, NoMmap(t) \/ NoFd(t)
       PROVE  OpenType'
  BY SMT, SMTT(40), <1>11 DEF NoMmap, NoFd, SetOpening, OpenType, Openings
<1>12. ASSUME NEW t \in Threads, InsertTable(t)
       PROVE  OpenType'
  <2>1. CASE Failed(t) /\ UNCHANGED <<handles, cache_>>
    BY <1>failed, <1>12, <2>1 DEF InsertTable
  <2>2. CASE ~(Failed(t) /\ UNCHANGED <<handles, cache_>>)
    <3>1. /\ opening' = [opening EXCEPT ![t] = NoOpening]
          /\ \E new : handles' = [handles EXCEPT ![t] = @ \cup {new}]
          /\ cache_' = [n \in Numbers |-> cache_'[n]]
          /\ UNCHANGED using
      BY <1>12, <2>2 DEF InsertTable
    <3> QED
      BY <3>1 DEF OpenType, Openings, NoOpening
  <2> QED
    BY <2>1, <2>2
<1>13. ASSUME NEW r \in Readers, Begin(r) \/ FindTable(r) \/ ReleaseTable(r) \/ End(r)
       PROVE  OpenType'
  <2>1. CASE Begin(r) \/ End(r)
    BY SMT, SMTT(40), <1>1, <2>1 DEF Begin, End, openVars, OpenType, NoVersion
  <2>2. CASE FindTable(r)
    BY <1>2, <1>4, <2>2 DEF FindTable
  <2>3. CASE ReleaseTable(r)
    BY <1>6, <2>3 DEF ReleaseTable
  <2> QED
    BY <1>13, <2>1, <2>2, <2>3
<1>14. CASE CompactMemTable \/ BuildTable \/ VerifyTable \/ TableVerified \/ TableUnusable
            \/ TableBuilt \/ FlushInstalled \/ FlushRemoves
  <2>1. CASE CompactMemTable \/ BuildTable \/ TableBuilt \/ FlushRemoves
    BY <1>8, <2>1 DEF CompactMemTable, BuildTable, TableBuilt, FlushRemoves, RemoveFile
  <2>2. CASE VerifyTable
    BY <1>3, <1>4, <2>2 DEF VerifyTable
  <2>3. CASE TableVerified
    BY <1>6, <2>3 DEF TableVerified
  <2>4. CASE TableUnusable
    BY <1>5, <2>4 DEF TableUnusable
  <2>5. CASE FlushInstalled
    BY <1>7, <1>8, <2>5 DEF FlushInstalled, RemoveObsoleteFiles
  <2> QED
    BY <1>14, <2>1, <2>2, <2>3, <2>4, <2>5
<1>15. CASE \/ BackgroundCompaction \/ OpenInput \/ OpenCompactionOutputFile \/ MergeEnds
            \/ VerifyOutput \/ OutputVerified
            \/ InstallCompactionResults \/ CompactionInstalled \/ CompactionFails \/ CompactionRemoves
  <2>1. CASE BackgroundCompaction \/ OpenCompactionOutputFile \/ CompactionRemoves
    BY <1>8, <2>1 DEF BackgroundCompaction, OpenCompactionOutputFile, CompactionRemoves, RemoveFile
  <2>2. CASE OpenInput
    BY <1>3, <1>4, <2>2 DEF OpenInput
  <2>3. CASE MergeEnds
    BY <1>5, <1>8, <2>3 DEF MergeEnds, openVars
  <2>4. CASE VerifyOutput
    BY <1>3, <1>4, <2>4 DEF VerifyOutput
  <2>5. CASE OutputVerified
    BY <1>5, <1>6, <2>5 DEF OutputVerified
  <2>6. CASE InstallCompactionResults \/ CompactionFails
    BY <1>9, <2>6 DEF InstallCompactionResults, CompactionFails
  <2>7. CASE CompactionInstalled
    BY <1>7, <2>7 DEF CompactionInstalled, RemoveObsoleteFiles
  <2> QED
    BY <1>15, <2>1, <2>2, <2>3, <2>4, <2>5, <2>6, <2>7
<1> QED
  BY <1>10, <1>11, <1>12, <1>13, <1>14, <1>15 DEF FilesNext

\* Types and counts, with what the other invariants need of versions: one that
\* is held before and after a step keeps its files.
LEMMA TypeStep ==
    ASSUME FilesType, RefsInv, WorkInv, FilesNext
    PROVE  /\ FilesType' /\ RefsInv' /\ HeldListed /\ HeldListed'
           /\ \A v \in DOMAIN versions \cap DOMAIN versions' : versions'[v].files = versions[v].files
           /\ \A n \in AddLiveFiles' :
                 \/ n \in AddLiveFiles
                 \/ flush.pc = "manifest" /\ flush'.pc = "remove" /\ n \in flush.files
                 \/ compaction.pc = "manifest" /\ compaction'.pc = "remove" /\ n \in compaction.files
<1>1. FilesType'
  BY NumbersTypeStep, FlushTypeStep, CompactionTypeStep, OpenTypeStep DEF FilesType
<1>2. RefsInv' /\ VersionsKept
  BY RefsStep
<1>3. HeldListed /\ HeldListed'
  BY <1>1, <1>2, HeldIsListed, HeldIsListedNext
<1> QED
  BY <1>1, <1>2, <1>3 DEF VersionsKept, AddLiveFiles

\* Steps that leave the directory and the work of the background thread alone.
LEMMA WorkUnchanged ==
    ASSUME FilesType, RefsInv, WorkInv, FilesNext, UNCHANGED <<dirVars, flush, compaction>>
    PROVE  WorkInv'
<1>1. AddLiveFiles' \subseteq AddLiveFiles
  BY TypeStep
<1>2. compaction.pc \in Merging => versions'[compaction.version].files = versions[compaction.version].files
  BY TypeStep DEF HeldListed
<1> QED
  BY SMT, ZenonT(40), <1>1, <1>2 DEF WorkInv, dirVars, Known

\* Flushes keep WorkInv.
LEMMA FlushWorkStep ==
    ASSUME FilesType, RefsInv, WorkInv, FilesNext,
           \/ CompactMemTable \/ BuildTable \/ TableVerified \/ TableUnusable
           \/ TableBuilt \/ FlushInstalled \/ FlushRemoves
    PROVE  WorkInv'
<1>1. compaction' = compaction /\ flush \in Works /\ dir \subseteq Known /\ next_file_number_ \in Nat
  BY SMT, SMTT(40), FilesAssumption
     DEF FilesType, FlushType, NumbersType, CompactMemTable, BuildTable, TableVerified, TableUnusable, TableBuilt,
         FlushInstalled, FlushRemoves
<1>2. compaction.pc \in Merging => versions'[compaction.version].files = versions[compaction.version].files
  BY <1>1, TypeStep DEF HeldListed
<1>3. CASE CompactMemTable
  <2>1. /\ flush.pc = "none" /\ compaction.pc \in {"none", "running"}
        /\ flush'.pc = "build" /\ flush'.number = next_file_number_ /\ flush'.files = {}
    BY SMT, SMTT(40), <1>3 DEF CompactMemTable, BgFree, NoWork
  <2>2. AddLiveFiles' \subseteq AddLiveFiles
    BY <1>1, <2>1, TypeStep
  <2>3. next_file_number_ \notin dir /\ next_file_number_ \in Known'
    BY SMT, SMTT(40), <1>1, <1>3 DEF CompactMemTable, Known, Numbers
  <2> QED
    BY SMT, SMTT(40), <1>1, <1>2, <1>3, <2>1, <2>2, <2>3 DEF CompactMemTable, WorkInv
<1>4. CASE BuildTable
  <2>1. /\ flush.pc = "build" /\ flush'.pc \in {"verify", "built", "failed"}
        /\ flush'.number = flush.number /\ flush'.files = flush.files
        /\ dir' = IF flush'.pc = "verify" THEN dir \cup {flush.number} ELSE dir
        /\ UNCHANGED <<next_file_number_, pending_outputs_>>
    BY <1>1, <1>4 DEF BuildTable, Works
  <2>2. AddLiveFiles' \subseteq AddLiveFiles
    BY <1>1, <2>1, TypeStep
  <2> QED
    BY <1>1, <1>2, <2>1, <2>2 DEF WorkInv, Building, Known
<1>5. CASE TableVerified
  <2>1. /\ flush.pc = "verify" /\ flush'.pc = "built"
        /\ flush'.number = flush.number /\ flush'.files = {flush.number}
        /\ UNCHANGED dirVars
    BY <1>1, <1>5 DEF TableVerified, Works
  <2>2. AddLiveFiles' \subseteq AddLiveFiles
    BY <1>1, <2>1, TypeStep
  <2> QED
    BY <1>1, <1>2, <2>1, <2>2 DEF WorkInv, Building, Known, dirVars
<1>6. CASE TableUnusable
  <2>1. /\ flush.pc = "verify" /\ flush'.pc = "failed"
        /\ flush'.number = flush.number /\ dir' = dir \ {flush.number}
        /\ UNCHANGED <<next_file_number_, pending_outputs_>>
    BY <1>1, <1>6 DEF TableUnusable, Works
  <2>2. AddLiveFiles' \subseteq AddLiveFiles
    BY <1>1, <2>1, TypeStep
  <2> QED
    BY <1>1, <1>2, <2>1, <2>2 DEF WorkInv, Building, Known
<1>7. CASE TableBuilt
  <2>0. UNCHANGED <<dir, next_file_number_>> /\ pending_outputs_' = pending_outputs_ \ {flush.number}
    BY <1>7 DEF TableBuilt
  <2>1. CASE flush.pc = "built"
    <3>1. flush' = [flush EXCEPT !.pc = "manifest", !.files = @ \cup versions[current_].files]
      BY <1>7, <2>1 DEF TableBuilt
    <3>2. flush'.pc = "manifest" /\ flush'.files = flush.files \cup versions[current_].files
      BY <1>1, <3>1 DEF Works
    <3>3. AddLiveFiles' \subseteq AddLiveFiles
      BY <1>1, <2>1, <3>2, TypeStep
    <3>4. versions[current_].files \subseteq dir
      BY SMT, SMTT(40), TypeStep DEF HeldListed, WorkInv, AddLiveFiles
    <3> QED
      BY <1>1, <1>2, <2>0, <2>1, <3>2, <3>3, <3>4 DEF WorkInv, Building
  <2>2. CASE flush.pc = "failed"
    <3>1. flush'.pc = "none"
      BY SMT, SMTT(40), <1>7, <2>2 DEF TableBuilt, NoWork
    <3>2. AddLiveFiles' \subseteq AddLiveFiles
      BY <1>1, <2>2, TypeStep
    <3> QED
      BY <1>1, <1>2, <2>0, <2>2, <3>1, <3>2 DEF WorkInv, Building
  <2> QED
    BY <1>7, <2>1, <2>2 DEF TableBuilt
<1>8. CASE FlushInstalled
  <2>1. CASE flush' = NoWork
    <3>1. flush'.pc = "none"
      BY <2>1 DEF NoWork
    <3>2. AddLiveFiles' \subseteq AddLiveFiles \cup flush.files /\ flush.pc = "manifest"
      BY <1>1, <1>8, TypeStep DEF FlushInstalled, WorkInv
    <3> QED
      BY <1>1, <1>2, <1>8, <3>1, <3>2 DEF FlushInstalled, WorkInv, Building, dirVars
  <2>2. CASE flush' = [NoWork EXCEPT !.pc = "remove", !.files = Obsolete(pending_outputs_)]
    <3>1. flush'.pc = "remove" /\ flush'.files = Obsolete(pending_outputs_)
      BY <2>2 DEF NoWork
    <3>2. AddLiveFiles' \subseteq AddLiveFiles \cup flush.files /\ flush.pc = "manifest"
      BY <1>1, <1>8, TypeStep DEF FlushInstalled, WorkInv
    <3>3. Obsolete(pending_outputs_) \cap (AddLiveFiles' \cup pending_outputs_) = {}
      BY DEF Obsolete
    <3> QED
      BY <1>1, <1>2, <1>8, <3>1, <3>2, <3>3 DEF FlushInstalled, WorkInv, Building, dirVars
  <2> QED
    BY <1>8, <2>1, <2>2 DEF FlushInstalled
<1>9. CASE FlushRemoves
  <2>1. flush.pc = "remove" /\ AddLiveFiles' \subseteq AddLiveFiles
    BY <1>1, <1>9, TypeStep DEF FlushRemoves, RemoveFile
  <2>2. flush'.pc = "none" \/ (flush'.pc = "remove" /\ flush'.files \subseteq flush.files)
    BY <1>1, <1>9 DEF FlushRemoves, RemoveFile, Rest, NoWork, Works
  <2>3. dir \ flush.files \subseteq dir' /\ dir' \subseteq dir
    BY <1>9 DEF FlushRemoves, RemoveFile
  <2> QED
    BY <1>1, <1>2, <1>9, <2>1, <2>2, <2>3 DEF FlushRemoves, RemoveFile, WorkInv, Building
<1> QED
  BY <1>3, <1>4, <1>5, <1>6, <1>7, <1>8, <1>9

\* A compaction goes on only when no flush is under way.
LEMMA CompactionAlone ==
    ASSUME WorkInv,
           \/ BackgroundCompaction \/ OpenCompactionOutputFile \/ MergeEnds \/ OutputVerified
           \/ InstallCompactionResults \/ CompactionInstalled \/ CompactionFails \/ CompactionRemoves
    PROVE  flush' = flush /\ flush.pc = "none"
<1>1. CASE BackgroundCompaction
  BY <1>1 DEF BackgroundCompaction, BgFree, NoWork
<1>2. CASE OpenCompactionOutputFile
  BY <1>2 DEF OpenCompactionOutputFile, Compacting, NoWork
<1>3. CASE MergeEnds
  BY <1>3 DEF MergeEnds, Compacting, NoWork
<1>4. CASE OutputVerified \/ InstallCompactionResults \/ CompactionInstalled \/ CompactionFails \/ CompactionRemoves
  <2>1. compaction.pc \in {"verify", "merged", "manifest", "failed", "remove"} /\ flush' = flush
    BY <1>4 DEF OutputVerified, InstallCompactionResults, CompactionInstalled, CompactionFails,
                CompactionRemoves, RemoveFile
  <2> QED
    BY <2>1 DEF WorkInv
<1> QED
  BY <1>1, <1>2, <1>3, <1>4

\* Compactions keep WorkInv.
LEMMA CompactionWorkStep ==
    ASSUME FilesType, RefsInv, WorkInv, FilesNext,
           \/ BackgroundCompaction \/ OpenCompactionOutputFile \/ MergeEnds \/ OutputVerified
           \/ InstallCompactionResults \/ CompactionInstalled \/ CompactionFails \/ CompactionRemoves
    PROVE  WorkInv'
<1>1. flush' = flush /\ flush.pc = "none"
  BY CompactionAlone
<1>2. /\ compaction \in Works /\ dir \subseteq Known /\ next_file_number_ \in Nat \ {0}
      /\ versions[current_].files \subseteq dir
  BY FilesAssumption, TypeStep, SMTT(30) DEF FilesType, CompactionType, NumbersType, HeldListed, WorkInv, AddLiveFiles
<1>3. compaction.pc \in Merging /\ compaction'.pc \in Merging /\ compaction'.version = compaction.version
        => versions'[compaction'.version].files = versions[compaction.version].files
  BY TypeStep DEF HeldListed
<1>4. compaction.pc # "manifest" => AddLiveFiles' \subseteq AddLiveFiles
  BY <1>1, TypeStep
<1>5. CASE BackgroundCompaction
  <2>1. PICK inputs \in SUBSET versions[current_].files :
            compaction' = [NoWork EXCEPT !.pc = "running", !.inputs = inputs, !.version = current_]
    BY <1>5 DEF BackgroundCompaction
  <2>2. /\ compaction.pc = "none" /\ compaction'.pc = "running" /\ compaction'.number = 0
        /\ compaction'.inputs = inputs /\ compaction'.version = current_ /\ UNCHANGED dirVars
    BY <1>5, <2>1 DEF BackgroundCompaction, NoWork
  <2>3. versions'[current_].files = versions[current_].files
    BY <2>2, TypeStep DEF HeldListed, Merging
  <2> QED
    BY <1>1, <1>4, <2>2, <2>3 DEF WorkInv, Building, dirVars
<1>6. CASE OpenCompactionOutputFile
  <2>1. /\ compaction.pc = "running" /\ compaction'.pc = "running" /\ compaction'.number = next_file_number_
        /\ compaction'.inputs = compaction.inputs /\ compaction'.version = compaction.version
        /\ dir' = dir \cup {next_file_number_} /\ pending_outputs_' = pending_outputs_ \cup {next_file_number_}
    BY <1>2, <1>6 DEF OpenCompactionOutputFile, Compacting, Works
  <2> QED
    BY <1>1, <1>3, <1>4, <2>1 DEF WorkInv, Building, Merging
<1>7. CASE MergeEnds
  <2>1. /\ compaction.pc = "running" /\ compaction'.number = compaction.number
        /\ compaction'.inputs = compaction.inputs /\ compaction'.version = compaction.version
        /\ UNCHANGED dirVars
        /\ \/ compaction'.pc = "failed"
           \/ compaction.number = 0 /\ compaction'.pc = "merged" /\ compaction'.files = {}
           \/ compaction.number # 0 /\ compaction'.pc = "verify" /\ compaction'.files = {compaction.number}
    <3>1. CASE compaction' = [compaction EXCEPT !.pc = "failed"]
      BY <1>2, <1>7, <3>1 DEF MergeEnds, Compacting, Works
    <3>2. CASE compaction' = [compaction EXCEPT !.pc = IF compaction.number = 0 THEN "merged" ELSE "verify",
                                                !.files = IF compaction.number = 0 THEN {} ELSE {compaction.number}]
      BY <1>2, <1>7, <3>2 DEF MergeEnds, Compacting, Works
    <3> QED
      BY <1>7, <3>1, <3>2 DEF MergeEnds
  <2> QED
    BY <1>1, <1>3, <1>4, <2>1 DEF WorkInv, Building, Merging, dirVars
<1>8. CASE OutputVerified
  <2>1. /\ compaction.pc = "verify" /\ compaction'.number = compaction.number
        /\ compaction'.inputs = compaction.inputs /\ compaction'.version = compaction.version
        /\ compaction'.files = compaction.files /\ compaction'.pc \in {"merged", "failed"}
        /\ UNCHANGED dirVars
    BY <1>2, <1>8 DEF OutputVerified, Works
  <2> QED
    BY <1>1, <1>3, <1>4, <2>1 DEF WorkInv, Building, Merging, dirVars
<1>9. CASE InstallCompactionResults
  <2>1. /\ compaction.pc = "merged" /\ compaction'.number = compaction.number
        /\ compaction'.inputs = compaction.inputs /\ compaction'.version = compaction.version
        /\ compaction'.files = compaction.files \cup (versions[current_].files \ compaction.inputs)
        /\ compaction'.pc = "manifest" /\ UNCHANGED dirVars
    BY <1>2, <1>9 DEF InstallCompactionResults, Works
  <2> QED
    BY <1>1, <1>2, <1>3, <1>4, <2>1 DEF WorkInv, Building, Merging, dirVars
<1>10. CASE CompactionInstalled
  <2>1. /\ compaction.pc = "manifest" /\ compaction'.pc = "remove"
        /\ compaction'.files = Obsolete(pending_outputs_') /\ UNCHANGED dir
    BY <1>10 DEF CompactionInstalled, NoWork
  <2>2. AddLiveFiles' \subseteq AddLiveFiles \cup compaction.files
    BY <1>1, TypeStep
  <2>3. Obsolete(pending_outputs_') \cap (AddLiveFiles' \cup pending_outputs_') = {}
    BY DEF Obsolete
  <2> QED
    BY <1>1, <2>1, <2>2, <2>3 DEF WorkInv, Building, Merging
<1>11. CASE CompactionFails
  <2>1. compaction'.pc = "none" /\ UNCHANGED dir
    BY <1>11 DEF CompactionFails, NoWork
  <2>2. AddLiveFiles' \subseteq AddLiveFiles
    BY <1>1, <2>1, TypeStep
  <2> QED
    BY <1>1, <2>1, <2>2 DEF WorkInv, Building, Merging
<1>12. CASE CompactionRemoves
  <2>1. compaction.pc = "remove" /\ UNCHANGED pending_outputs_
    BY <1>12 DEF CompactionRemoves, RemoveFile
  <2>2. compaction'.pc = "none" \/ (compaction'.pc = "remove" /\ compaction'.files \subseteq compaction.files)
    BY <1>2, <1>12 DEF CompactionRemoves, RemoveFile, Rest, NoWork, Works
  <2>3. dir \ compaction.files \subseteq dir'
    BY <1>12 DEF CompactionRemoves, RemoveFile
  <2> QED
    BY <1>1, <1>4, <2>1, <2>2, <2>3 DEF WorkInv, Building, Merging
<1> QED
  BY <1>5, <1>6, <1>7, <1>8, <1>9, <1>10, <1>11, <1>12

\* The other steps leave the directory and that work alone.
LEMMA WorkFrame ==
    ASSUME FilesNext
    PROVE  \/ UNCHANGED <<dirVars, flush, compaction>>
           \/ CompactMemTable \/ BuildTable \/ TableVerified \/ TableUnusable
           \/ TableBuilt \/ FlushInstalled \/ FlushRemoves
           \/ BackgroundCompaction \/ OpenCompactionOutputFile \/ MergeEnds \/ OutputVerified
           \/ InstallCompactionResults \/ CompactionInstalled \/ CompactionFails \/ CompactionRemoves
<1> DEFINE Same == UNCHANGED <<dirVars, flush, compaction>>
<1>1. ASSUME NEW t \in Threads, OpenFile(t) \/ NoMmap(t) \/ NoFd(t) \/ InsertTable(t)
      PROVE  Same
  <2>1. CASE OpenFile(t) \/ NoMmap(t) \/ NoFd(t)
    BY <2>1 DEF OpenFile, NoMmap, NoFd, bgVars
  <2>2. CASE InsertTable(t)
    BY <2>2 DEF InsertTable, bgVars
  <2> QED
    BY <1>1, <2>1, <2>2
<1>2. ASSUME NEW r \in Readers, Begin(r) \/ FindTable(r) \/ ReleaseTable(r) \/ End(r)
      PROVE  Same
  BY <1>2 DEF Begin, FindTable, ReleaseTable, End, bgVars
<1>3. CASE VerifyTable \/ OpenInput \/ VerifyOutput
  BY <1>3 DEF VerifyTable, OpenInput, VerifyOutput, bgVars
<1> HIDE DEF Same
<1> QED
  BY <1>1, <1>2, <1>3 DEF FilesNext, Same

\* Every step keeps WorkInv.
LEMMA WorkStep ==
    ASSUME FilesType, RefsInv, WorkInv, FilesNext
    PROVE  WorkInv'
  BY WorkFrame, WorkUnchanged, FlushWorkStep, CompactionWorkStep

-----------------------------------------------------------------------------
(***************************************************************************)
(* What threads open and have open                                         *)
(***************************************************************************)
\* The files thread t may ask the table cache for.
MayOpen(t) ==
    IF t # Bg THEN IF using[t] = NoVersion THEN {} ELSE versions[using[t]].files
    ELSE IF flush.pc = "verify" THEN {flush.number}
    ELSE IF flush.pc # "none" THEN {}
    ELSE IF compaction.pc = "running" THEN compaction.inputs
    ELSE IF compaction.pc = "verify" THEN {compaction.number} ELSE {}

\* A step leaves what t has open alone or gives some of it up, ...
Drops(t) ==
    /\ opening'[t] = opening[t] \/ opening'[t] = NoOpening
    /\ handles'[t] \subseteq handles[t]

\* ... or takes t further in opening file n.
Opens(t, n) ==
    /\ \/ opening[t] = NoOpening /\ n \in MayOpen(t) /\ ~Holds(t, n)
       \/ opening[t] # NoOpening /\ n = opening[t].number
    /\ \/ opening'[t].number = n /\ handles'[t] = handles[t]
       \/ opening'[t] = NoOpening /\ \E new : new.number = n /\ handles'[t] = handles[t] \cup {new}

\* What is open, or may be, is in the directory.
OpenFilesExist ==
    /\ dir \subseteq Numbers
    /\ \A t \in Threads : MayOpen(t) \subseteq dir
    /\ \A t \in Threads : opening[t] # NoOpening => opening[t].number \in dir
    /\ \A t \in Threads : \A o \in handles[t] : o.number \in dir

\* The invariant keeps every file that is open in the directory.
LEMMA OpenAreInDir == FilesInv => OpenFilesExist
<1> SUFFICES ASSUME FilesInv
             PROVE  OpenFilesExist
  OBVIOUS
<1>1. HeldListed
  BY HeldIsListed DEF FilesInv
<1>2. dir \subseteq Numbers
  BY SMT, SMTT(40), FilesAssumption DEF FilesInv, FilesType, NumbersType, Known, Numbers
<1>3. \A r \in Readers : using[r] # NoVersion => versions[using[r]].files \subseteq dir
  BY SMT, ZenonT(40), <1>1 DEF HeldListed, FilesInv, WorkInv, AddLiveFiles
<1>4. compaction.pc \in Merging => compaction.inputs \subseteq dir
  <2>1. compaction.pc \in Merging => versions[compaction.version].files \subseteq dir
    BY SMT, SMTT(40), <1>1 DEF HeldListed, FilesInv, WorkInv, AddLiveFiles
  <2> QED
    BY <2>1 DEF FilesInv, WorkInv
<1>5. BgFiles \subseteq dir /\ MayOpen(Bg) \subseteq dir
  BY <1>4 DEF FilesInv, WorkInv, BgFiles, MayOpen, Merging
<1>6. \A r \in Readers : /\ MayOpen(r) \subseteq dir
                         /\ opening[r] # NoOpening => opening[r].number \in dir
                         /\ \A o \in handles[r] : o.number \in dir
  BY <1>3, FilesAssumption DEF FilesInv, OpenInv, ReadersOpen, MayOpen
<1>7. /\ opening[Bg] # NoOpening => opening[Bg].number \in dir
      /\ \A o \in handles[Bg] : o.number \in dir
  BY <1>5 DEF FilesInv, OpenInv, BgOpen
<1> QED
  BY <1>2, <1>5, <1>6, <1>7 DEF OpenFilesExist, Threads

\* Every step drops or opens, in each thread.
LEMMA OpenEffects ==
    ASSUME FilesInv, FilesNext, NEW t \in Threads
    PROVE  Drops(t) \/ \E n \in Numbers : Opens(t, n)
<1> DEFINE Effect == Drops(t) \/ \E n \in Numbers : Opens(t, n)
<1>1. OpenType /\ OpenFilesExist /\ Bg \in Threads /\ Readers \subseteq Threads /\ Bg \notin Readers
  BY OpenAreInDir, FilesAssumption DEF FilesInv, FilesType, Threads
<1>2. \A n \in Numbers : cache_[n] # NoTable => cache_[n].number = n
  BY DEF FilesInv, CacheInv
<1>3. flush.pc # "none" => compaction.pc \in {"none", "running"}
  BY DEF FilesInv, WorkInv
<1>4. ASSUME NEW u \in Threads, NEW n \in MayOpen(u), ~Holds(u, n), FindInCache(u, n)
      PROVE  Effect
  <2>1. n \in Numbers
    BY <1>1, <1>4 DEF OpenFilesExist
  <2>2. CASE cache_[n] # NoTable
    BY SMT, SMTT(40), <1>1, <1>2, <1>4, <2>1, <2>2 DEF FindInCache, OpenType, Drops, Opens
  <2>3. CASE cache_[n] = NoTable
    <3>1. [NoOpening EXCEPT !.pc = "open", !.number = n].number = n
      BY DEF NoOpening
    <3> QED
      BY <1>1, <1>4, <2>1, <2>3, <3>1 DEF FindInCache, OpenType, Drops, Opens
  <2> QED
    BY <2>2, <2>3
<1>5. ASSUME NEW u \in Threads, opening' = [opening EXCEPT ![u] = NoOpening], UNCHANGED handles
      PROVE  Effect
  BY <1>1, <1>5 DEF OpenType, Drops
<1>6. ASSUME NEW u \in Threads, NEW o, ReleaseHandle(u, o)
      PROVE  Effect
  BY <1>1, <1>6 DEF ReleaseHandle, OpenType, Drops
<1>7. ASSUME UNCHANGED <<opening, handles>>
      PROVE  Effect
  BY <1>7 DEF Drops
<1>8. ASSUME CloseInputs
      PROVE  Effect
  BY <1>1, <1>8 DEF CloseInputs, OpenType, Drops
<1>9. ASSUME NEW u \in Threads, opening[u] # NoOpening, NEW x, x.number = opening[u].number,
             opening' = [opening EXCEPT ![u] = x], UNCHANGED handles
      PROVE  Effect
  BY <1>1, <1>9 DEF OpenType, OpenFilesExist, Drops, Opens
<1>10. ASSUME NEW u \in Threads, NEW pc, NEW kind, opening[u] # NoOpening, SetOpening(u, pc, kind), UNCHANGED handles
       PROVE  Effect
  <2> DEFINE x == [opening[u] EXCEPT !.pc = pc, !.kind = kind]
  <2>1. x.number = opening[u].number
    BY SMT, ZenonT(40), <1>1 DEF OpenType, Openings
  <2>2. opening' = [opening EXCEPT ![u] = x]
    BY <1>1, <1>10 DEF OpenType, Openings, SetOpening
  <2> HIDE DEF x
  <2> QED
    BY <1>9, <1>10, <2>1, <2>2
<1>failed. ASSUME NEW u \in Threads, opening[u] # NoOpening, Failed(u), UNCHANGED handles
           PROVE  Effect
  <2>1. CASE u = Bg
    <3> DEFINE x == [opening[u] EXCEPT !.pc = "failed"]
    <3>1. x.number = opening[u].number
      BY SMT, ZenonT(40), <1>1 DEF OpenType, Openings
    <3>2. opening' = [opening EXCEPT ![u] = x]
      BY <1>failed, <2>1 DEF Failed
    <3> HIDE DEF x
    <3> QED
      BY <1>9, <1>failed, <3>1, <3>2
  <2>2. CASE u # Bg
    BY <1>5, <1>failed, <2>2 DEF Failed
  <2> QED
    BY <2>1, <2>2
<1>11. ASSUME NEW u \in Threads, OpenFile(u) \/ NoMmap(u) \/ NoFd(u)
       PROVE  Effect
  <2>1. opening[u] # NoOpening /\ UNCHANGED handles
    BY SMT, SMTT(40), <1>11 DEF OpenFile, NoMmap, NoFd, NoOpening
  <2>2. \/ \E pc, kind : SetOpening(u, pc, kind)
        \/ Failed(u)
    BY <1>11 DEF OpenFile, NoMmap, NoFd
  <2> QED
    BY <1>10, <1>failed, <2>1, <2>2
<1>12. ASSUME NEW u \in Threads, InsertTable(u)
       PROVE  Effect
  <2>1. opening[u] # NoOpening
    BY SMT, SMTT(40), <1>12 DEF InsertTable, NoOpening
  <2>2. CASE Failed(u) /\ UNCHANGED handles
    BY <1>failed, <2>1, <2>2
  <2>3. CASE ~(Failed(u) /\ UNCHANGED handles)
    <3>1. PICK new : /\ new.number = opening[u].number
                     /\ handles' = [handles EXCEPT ![u] = @ \cup {new}]
                     /\ opening' = [opening EXCEPT ![u] = NoOpening]
      BY <1>12, <2>3 DEF InsertTable
    <3> QED
      BY <1>1, <2>1, <3>1 DEF OpenType, OpenFilesExist, Drops, Opens
  <2> QED
    BY <2>2, <2>3
<1>13. ASSUME NEW r \in Readers, Begin(r) \/ FindTable(r) \/ ReleaseTable(r) \/ End(r)
       PROVE  Effect
  <2>1. CASE Begin(r) \/ End(r)
    BY <1>7, <2>1 DEF Begin, End, openVars
  <2>2. CASE FindTable(r)
    BY <1>1, <1>4, <2>2 DEF FindTable, MayOpen
  <2>3. CASE ReleaseTable(r)
    BY <1>1, <1>6, <2>3 DEF ReleaseTable
  <2> QED
    BY <1>13, <2>1, <2>2, <2>3
<1>14. CASE CompactMemTable \/ BuildTable \/ VerifyTable \/ TableVerified \/ TableUnusable
            \/ TableBuilt \/ FlushInstalled \/ FlushRemoves
  <2>1. CASE CompactMemTable \/ BuildTable \/ TableBuilt \/ FlushInstalled \/ FlushRemoves
    BY <1>7, <2>1 DEF CompactMemTable, BuildTable, TableBuilt, FlushInstalled, RemoveObsoleteFiles, FlushRemoves,
                      RemoveFile, openVars
  <2>2. CASE VerifyTable
    BY <1>1, <1>4, <2>2 DEF VerifyTable, MayOpen
  <2>3. CASE TableVerified
    BY <1>1, <1>6, <2>3 DEF TableVerified
  <2>4. CASE TableUnusable
    BY <1>1, <1>5, <2>4 DEF TableUnusable
  <2> QED
    BY <1>14, <2>1, <2>2, <2>3, <2>4
<1>15. CASE \/ BackgroundCompaction \/ OpenInput \/ OpenCompactionOutputFile \/ MergeEnds
            \/ VerifyOutput \/ OutputVerified
            \/ InstallCompactionResults \/ CompactionInstalled \/ CompactionFails \/ CompactionRemoves
  <2>1. CASE BackgroundCompaction \/ OpenCompactionOutputFile \/ CompactionInstalled \/ CompactionRemoves
    BY <1>7, <2>1 DEF BackgroundCompaction, OpenCompactionOutputFile, CompactionInstalled, RemoveObsoleteFiles,
                      CompactionRemoves, RemoveFile, openVars
  <2>2. CASE OpenInput
    <3>1. flush.pc = "none" /\ compaction.pc = "running"
      BY <2>2 DEF OpenInput, Compacting, NoWork
    <3>2. MayOpen(Bg) = compaction.inputs
      BY <3>1 DEF MayOpen
    <3> QED
      BY <1>1, <1>4, <2>2, <3>2 DEF OpenInput
  <2>3. CASE MergeEnds
    BY <1>1, <1>5, <1>7, <2>3 DEF MergeEnds
  <2>4. CASE VerifyOutput
    <3>1. MayOpen(Bg) = {compaction.number}
      BY <1>3, <2>4 DEF VerifyOutput, MayOpen
    <3> QED
      BY <1>1, <1>4, <2>4, <3>1 DEF VerifyOutput
  <2>5. CASE OutputVerified
    BY <1>1, <1>5, <1>6, <2>5 DEF OutputVerified
  <2>6. CASE InstallCompactionResults \/ CompactionFails
    BY <1>8, <2>6 DEF InstallCompactionResults, CompactionFails
  <2> QED
    BY <1>15, <2>1, <2>2, <2>3, <2>4, <2>5, <2>6
<1> HIDE DEF Effect
<1> QED
  BY <1>11, <1>12, <1>13, <1>14, <1>15 DEF FilesNext, Effect

\* Every step keeps the readers to the version they hold.
LEMMA ReadersOpenStep ==
    ASSUME FilesInv, FilesNext
    PROVE  ReadersOpen'
<1>1. HeldListed /\ HeldListed' /\ \A v \in DOMAIN versions \cap DOMAIN versions' : versions'[v].files = versions[v].files
  BY TypeStep DEF FilesInv
<1>2. OpenType /\ Bg \notin Readers /\ ReadersOpen
  BY FilesAssumption DEF FilesInv, FilesType, OpenInv
<1> SUFFICES ASSUME NEW r \in Readers
             PROVE  /\ opening'[r] # NoOpening => using'[r] # NoVersion /\ opening'[r].number \in versions'[using'[r]].files
                    /\ \A o \in handles'[r] : using'[r] # NoVersion /\ o.number \in versions'[using'[r]].files
  BY DEF ReadersOpen
<1>3. using'[r] = using[r] \/ (opening'[r] = NoOpening /\ handles'[r] = {})
  <2>1. CASE \E t \in Threads : OpenFile(t) \/ NoMmap(t) \/ NoFd(t) \/ InsertTable(t)
    BY <2>1 DEF OpenFile, NoMmap, NoFd, InsertTable
  <2>2. ASSUME NEW q \in Readers, Begin(q) \/ FindTable(q) \/ ReleaseTable(q) \/ End(q)
        PROVE  using'[r] = using[r] \/ (opening'[r] = NoOpening /\ handles'[r] = {})
    <3>1. CASE Begin(q)
      BY <1>2, <3>1 DEF Begin, openVars, OpenType, ReadersOpen
    <3>2. CASE End(q)
      BY <1>2, <3>2 DEF End, openVars, OpenType
    <3> QED
      BY <2>2, <3>1, <3>2 DEF FindTable, ReleaseTable
  <2>3. CASE CompactMemTable \/ BuildTable \/ VerifyTable \/ TableVerified \/ TableUnusable
             \/ TableBuilt \/ FlushInstalled \/ FlushRemoves
    BY <2>3 DEF CompactMemTable, BuildTable, VerifyTable, TableVerified, TableUnusable, TableBuilt,
                FlushInstalled, FlushRemoves, RemoveFile
  <2>4. CASE \/ BackgroundCompaction \/ OpenInput \/ OpenCompactionOutputFile \/ MergeEnds
             \/ VerifyOutput \/ OutputVerified
             \/ InstallCompactionResults \/ CompactionInstalled \/ CompactionFails \/ CompactionRemoves
    BY <2>4 DEF BackgroundCompaction, OpenInput, OpenCompactionOutputFile, MergeEnds, VerifyOutput, OutputVerified,
                InstallCompactionResults, CompactionInstalled, CompactionFails, CompactionRemoves, RemoveFile
  <2> QED
    BY <2>1, <2>2, <2>3, <2>4 DEF FilesNext
<1>4. CASE opening'[r] = NoOpening /\ handles'[r] = {}
  BY <1>4
<1>5. CASE using'[r] = using[r]
  <2>1. using[r] # NoVersion => versions'[using'[r]].files = versions[using[r]].files
    BY <1>1, <1>5 DEF HeldListed
  <2>2. r \in Threads /\ MayOpen(r) = IF using[r] = NoVersion THEN {} ELSE versions[using[r]].files
    BY <1>2 DEF Threads, MayOpen
  <2>3. CASE Drops(r)
    BY <1>2, <1>5, <2>1, <2>3 DEF Drops, ReadersOpen
  <2>4. ASSUME NEW n \in Numbers, Opens(r, n)
        PROVE  /\ opening'[r] # NoOpening => using'[r] # NoVersion /\ opening'[r].number \in versions'[using'[r]].files
               /\ \A o \in handles'[r] : using'[r] # NoVersion /\ o.number \in versions'[using'[r]].files
    <3>1. using[r] # NoVersion /\ n \in versions[using[r]].files
      BY <1>2, <2>2, <2>4 DEF Opens, ReadersOpen
    <3> QED
      BY <1>2, <1>5, <2>1, <2>4, <3>1 DEF Opens, ReadersOpen
  <2> QED
    BY <2>2, <2>3, <2>4, OpenEffects
<1> QED
  BY <1>3, <1>4, <1>5

\* Every step of the background thread that goes on to something else keeps
\* BgOpen.
LEMMA BgWorkOpens ==
    ASSUME FilesInv, FilesNext,
           \/ CompactMemTable \/ BuildTable \/ TableVerified \/ TableUnusable
           \/ TableBuilt \/ FlushInstalled \/ FlushRemoves
           \/ BackgroundCompaction \/ OpenCompactionOutputFile \/ MergeEnds \/ OutputVerified
           \/ InstallCompactionResults \/ CompactionInstalled \/ CompactionFails \/ CompactionRemoves
    PROVE  BgOpen' /\ opening'[Bg] = NoOpening
<1>1. /\ OpenType /\ Bg \in Threads /\ BgOpen /\ flush \in Works /\ compaction \in Works
      /\ flush.pc # "none" => compaction.pc \in {"none", "running"}
  BY DEF FilesInv, FilesType, FlushType, CompactionType, WorkInv, OpenInv, Threads
<1>2. ASSUME opening'[Bg] = NoOpening, handles'[Bg] \subseteq handles[Bg],
             \A o \in handles'[Bg] : o.number \in BgFiles'
      PROVE  BgOpen' /\ opening'[Bg] = NoOpening
  BY <1>1, <1>2 DEF BgOpen
<1>3. CASE CompactMemTable
  <2>1. /\ flush.pc = "none" /\ flush'.pc = "build" /\ compaction' = compaction
        /\ opening'[Bg] = NoOpening /\ handles' = handles
    BY <1>3 DEF CompactMemTable, BgFree, NoWork, openVars
  <2>2. BgFiles' = BgFiles
    BY <2>1 DEF BgFiles
  <2> QED
    BY <1>1, <1>2, <2>1, <2>2 DEF BgOpen
<1>4. CASE BuildTable
  <2>1. flush.pc = "build" /\ compaction' = compaction /\ opening' = opening /\ handles' = handles
    BY <1>4 DEF BuildTable, openVars
  <2>2. BgFiles \subseteq BgFiles'
    BY <2>1 DEF BgFiles
  <2> QED
    BY <1>1, <1>2, <2>1, <2>2 DEF BgOpen
<1>5. CASE TableVerified
  <2>1. /\ flush.pc = "verify" /\ flush'.pc = "built" /\ compaction' = compaction /\ opening' = opening
        /\ Holds(Bg, flush.number) /\ handles'[Bg] \subseteq handles[Bg]
        /\ \A o \in handles'[Bg] : o.number # flush.number
    <3>1. PICK o \in handles[Bg] : o.number = flush.number /\ ReleaseHandle(Bg, o)
      BY <1>5 DEF TableVerified
    <3>2. handles'[Bg] = handles[Bg] \ {o} /\ opening' = opening
      BY <1>1, <3>1 DEF ReleaseHandle, OpenType
    <3> QED
      BY <1>1, <1>5, <3>1, <3>2 DEF TableVerified, BgOpen, Holds, Works
  <2>2. opening[Bg] = NoOpening
    BY <1>1, <2>1 DEF BgOpen
  <2> QED
    BY <1>1, <1>2, <2>1, <2>2 DEF BgOpen, BgFiles
<1>6. CASE TableUnusable
  <2>1. /\ flush.pc = "verify" /\ flush'.pc = "failed" /\ compaction' = compaction /\ handles' = handles
        /\ opening'[Bg] = NoOpening /\ opening[Bg] # NoOpening
    BY SMT, SMTT(40), <1>1, <1>6 DEF TableUnusable, OpenType, NoOpening, Works
  <2>2. ~Holds(Bg, flush.number)
    BY <1>1, <2>1 DEF BgOpen
  <2> QED
    BY <1>1, <1>2, <2>1, <2>2 DEF BgOpen, BgFiles, Holds
<1>7. CASE TableBuilt \/ FlushInstalled \/ FlushRemoves
  <2>1. /\ flush.pc \notin {"none", "verify"} /\ flush'.pc \notin {"verify"}
        /\ compaction' = compaction /\ opening' = opening /\ handles' = handles
    <3>1. CASE TableBuilt
      <4>1. /\ flush.pc \in {"built", "failed"} /\ compaction' = compaction /\ opening' = opening /\ handles' = handles
            /\ \/ flush' = NoWork
               \/ flush' = [flush EXCEPT !.pc = "manifest", !.files = @ \cup versions[current_].files]
        BY <3>1 DEF TableBuilt, openVars
      <4>2. flush' = NoWork => flush'.pc = "none"
        BY SMT, SMTT(40) DEF NoWork
      <4>3. flush' = [flush EXCEPT !.pc = "manifest", !.files = @ \cup versions[current_].files] => flush'.pc = "manifest"
        BY <1>1 DEF Works
      <4> QED
        BY <4>1, <4>2, <4>3
    <3>2. CASE FlushInstalled
      <4>1. /\ flush.pc = "manifest" /\ compaction' = compaction /\ opening' = opening /\ handles' = handles
            /\ \/ flush' = NoWork
               \/ flush' = [NoWork EXCEPT !.pc = "remove", !.files = Obsolete(pending_outputs_)]
        BY <3>2 DEF FlushInstalled, RemoveObsoleteFiles, openVars
      <4>2. flush' = NoWork => flush'.pc = "none"
        BY SMT, SMTT(40) DEF NoWork
      <4>3. flush' = [NoWork EXCEPT !.pc = "remove", !.files = Obsolete(pending_outputs_)] => flush'.pc = "remove"
        BY DEF NoWork
      <4> QED
        BY <4>1, <4>2, <4>3
    <3>3. CASE FlushRemoves
      BY <1>1, <3>3 DEF FlushRemoves, RemoveFile, Rest, NoWork, openVars, Works
    <3> QED
      BY <1>7, <3>1, <3>2, <3>3
  <2>2. BgFiles' = BgFiles
    BY <2>1 DEF BgFiles
  <2> QED
    BY <1>1, <1>2, <2>1, <2>2 DEF BgOpen
<1>8. CASE BackgroundCompaction
  <2>1. /\ flush.pc = "none" /\ compaction.pc = "none" /\ opening'[Bg] = NoOpening /\ handles' = handles
    BY <1>8 DEF BackgroundCompaction, BgFree, NoWork, openVars
  <2>2. BgFiles = {}
    BY <2>1 DEF BgFiles, Merging
  <2> QED
    BY <1>1, <1>2, <2>1, <2>2 DEF BgOpen
<1>9. CASE OpenCompactionOutputFile
  <2>1. /\ flush' = flush /\ compaction.pc = "running" /\ compaction.number = 0 /\ compaction'.pc = "running"
        /\ compaction'.inputs = compaction.inputs /\ opening'[Bg] = NoOpening /\ handles' = handles
    BY <1>1, <1>9 DEF OpenCompactionOutputFile, Compacting, openVars, Works
  <2>2. BgFiles \subseteq BgFiles'
    BY <2>1 DEF BgFiles, Merging
  <2> QED
    BY <1>1, <1>2, <2>1, <2>2 DEF BgOpen
<1>10. CASE MergeEnds
  <2>1. /\ flush' = flush /\ compaction.pc = "running" /\ opening'[Bg] = NoOpening /\ handles' = handles
    BY <1>1, <1>10 DEF MergeEnds, Compacting, OpenType
  <2>2. /\ compaction'.pc \in Merging \ {"manifest"} /\ compaction'.inputs = compaction.inputs
        /\ compaction'.number = compaction.number
    <3>1. CASE compaction' = [compaction EXCEPT !.pc = "failed"]
      BY <1>1, <3>1 DEF Works, Merging
    <3>2. CASE compaction' = [compaction EXCEPT !.pc = IF compaction.number = 0 THEN "merged" ELSE "verify",
                                                !.files = IF compaction.number = 0 THEN {} ELSE {compaction.number}]
      BY <1>1, <3>2 DEF Works, Merging
    <3> QED
      BY <1>10, <3>1, <3>2 DEF MergeEnds
  <2>3. BgFiles' = BgFiles
    BY <2>1, <2>2 DEF BgFiles, Merging
  <2> QED
    BY <1>1, <1>2, <2>1, <2>3 DEF BgOpen
<1>11. CASE OutputVerified
  <2>1. /\ flush' = flush /\ compaction.pc = "verify" /\ compaction'.pc \in {"merged", "failed"}
        /\ compaction'.inputs = compaction.inputs /\ compaction'.number = compaction.number
    BY <1>1, <1>11 DEF OutputVerified, Works
  <2>2. BgFiles' = BgFiles
    BY <2>1 DEF BgFiles, Merging
  <2>3. opening'[Bg] = NoOpening /\ handles'[Bg] \subseteq handles[Bg]
    <3>1. CASE \E o \in handles[Bg] : o.number = compaction.number /\ ReleaseHandle(Bg, o)
      <4>1. Holds(Bg, compaction.number) /\ opening' = opening /\ handles'[Bg] \subseteq handles[Bg]
        BY <1>1, <3>1 DEF Holds, ReleaseHandle, OpenType
      <4> QED
        BY <1>1, <2>1, <4>1 DEF BgOpen
    <3>2. CASE opening' = [opening EXCEPT ![Bg] = NoOpening] /\ UNCHANGED handles
      BY <1>1, <3>2 DEF OpenType
    <3> QED
      BY <1>11, <3>1, <3>2 DEF OutputVerified
  <2> QED
    BY <1>1, <1>2, <2>2, <2>3 DEF BgOpen
<1>12. CASE InstallCompactionResults \/ CompactionFails
  <2>1. compaction.pc \in {"merged", "manifest", "failed"} /\ CloseInputs
    BY <1>12 DEF InstallCompactionResults, CompactionFails
  <2>2. opening' = opening /\ handles'[Bg] = {}
    BY <1>1, <2>1 DEF CloseInputs, OpenType
  <2> QED
    BY <1>1, <1>2, <2>1, <2>2 DEF BgOpen
<1>13. CASE CompactionInstalled \/ CompactionRemoves
  <2>1. compaction.pc \in {"manifest", "remove"} /\ opening' = opening /\ handles' = handles
    BY <1>13 DEF CompactionInstalled, RemoveObsoleteFiles, CompactionRemoves, RemoveFile, openVars
  <2>2. BgFiles = {} /\ flush.pc = "none"
    BY <1>1, <2>1 DEF BgFiles, Merging
  <2> QED
    BY <1>1, <1>2, <2>1, <2>2 DEF BgOpen
<1> QED
  BY <1>3, <1>4, <1>5, <1>6, <1>7, <1>8, <1>9, <1>10, <1>11, <1>12, <1>13

\* Every step keeps OpenInv.
LEMMA OpenStep ==
    ASSUME FilesInv, FilesNext
    PROVE  OpenInv'
<1>1. CASE UNCHANGED <<flush, compaction>>
  <2>1. BgOpen /\ BgFiles' = BgFiles /\ Bg \in Threads
    BY <1>1 DEF FilesInv, OpenInv, BgFiles, Threads
  <2>2. MayOpen(Bg) \subseteq BgFiles
    <3>1. compaction.pc = "verify" => compaction.number # 0
      BY DEF FilesInv, WorkInv
    <3> QED
      BY <3>1 DEF MayOpen, BgFiles, Merging
  <2>3. ASSUME Drops(Bg)
        PROVE  BgOpen'
    <3>1. handles'[Bg] \subseteq handles[Bg] /\ flush' = flush /\ compaction' = compaction
      BY <1>1, <2>3 DEF Drops
    <3>2. CASE opening'[Bg] = opening[Bg]
      BY <2>1, <3>1, <3>2 DEF BgOpen, Holds
    <3>3. CASE opening'[Bg] = NoOpening
      BY <2>1, <3>1, <3>3 DEF BgOpen
    <3> QED
      BY <2>3, <3>2, <3>3 DEF Drops
  <2>4. ASSUME NEW n \in Numbers, Opens(Bg, n)
        PROVE  BgOpen'
    <3>1. n \in BgFiles /\ ~Holds(Bg, n)
      BY <2>1, <2>2, <2>4 DEF Opens, BgOpen
    <3>2. /\ flush.pc = "verify" => n = flush.number
          /\ flush.pc \in {"none", "verify"}
          /\ compaction.pc = "verify" => n = compaction.number
          /\ flush.pc = "none" => compaction.pc \in {"running", "verify"}
      <4>1. flush.pc # "none" => compaction.pc # "verify"
        BY DEF FilesInv, WorkInv
      <4> QED
        BY <2>1, <2>4, <4>1 DEF Opens, BgOpen, MayOpen
    <3>3. CASE opening'[Bg].number = n /\ handles'[Bg] = handles[Bg]
      BY <1>1, <2>1, <3>1, <3>2, <3>3 DEF BgOpen, Holds
    <3>4. CASE opening'[Bg] = NoOpening /\ \E new : new.number = n /\ handles'[Bg] = handles[Bg] \cup {new}
      BY <1>1, <2>1, <3>1, <3>2, <3>4 DEF BgOpen, Holds
    <3> QED
      BY <2>4, <3>3, <3>4 DEF Opens
  <2>5. Drops(Bg) \/ \E n \in Numbers : Opens(Bg, n)
    BY <2>1, OpenEffects
  <2> QED
    BY <2>3, <2>4, <2>5, ReadersOpenStep DEF OpenInv
<1>2. CASE ~UNCHANGED <<flush, compaction>>
  BY <1>2, WorkFrame, BgWorkOpens, ReadersOpenStep DEF OpenInv
<1> QED
  BY <1>1, <1>2
-----------------------------------------------------------------------------
\* Only Insert brings a table into the cache, that of the file just opened.
LEMMA CacheEffects ==
    ASSUME FilesInv, FilesNext, NEW n \in Numbers
    PROVE  \/ cache_'[n] = cache_[n]
           \/ cache_'[n] = NoTable
           \/ \E t \in Threads : /\ InsertTable(t) /\ n = opening[t].number
                                 /\ cache_'[n].number = n /\ Holds(t, n)'
<1>1. OpenType
  BY DEF FilesInv, FilesType
<1>2. ASSUME NEW t \in Threads, InsertTable(t)
      PROVE  \/ cache_'[n] = cache_[n]
             \/ cache_'[n] = NoTable
             \/ /\ n = opening[t].number
                /\ cache_'[n].number = n /\ Holds(t, n)'
  <2>1. CASE UNCHANGED cache_
    BY <2>1
  <2>2. CASE ~UNCHANGED cache_
    <3> DEFINE k == opening[t].number
               same == {o.copy : o \in {p \in Alive : p.number = k /\ p.kind = opening[t].kind}}
               new == [number |-> k, kind |-> opening[t].kind, copy |-> Min((0..Cardinality(same)) \ same)]
    <3>1. PICK out \in Evictions([cache_ EXCEPT ![k] = NoTable]) :
             cache_' = [m \in Numbers |-> IF m = k THEN new ELSE IF m \in out THEN NoTable ELSE cache_[m]]
      BY <1>2, <2>2 DEF InsertTable
    <3>2. handles' = [handles EXCEPT ![t] = @ \cup {new}]
      BY <1>2, <2>2 DEF InsertTable
    <3>3. new.number = k
      OBVIOUS
    <3> HIDE DEF new, same
    <3> QED
      BY <1>1, <3>1, <3>2, <3>3 DEF OpenType, Holds
  <2> QED
    BY <2>1, <2>2
<1>3. CASE \E t \in Threads : OpenFile(t) \/ NoMmap(t) \/ NoFd(t)
  BY <1>3 DEF OpenFile, NoMmap, NoFd
<1>4. CASE \E r \in Readers : Begin(r) \/ FindTable(r) \/ ReleaseTable(r) \/ End(r)
  BY <1>4 DEF Begin, FindTable, FindInCache, ReleaseTable, ReleaseHandle, End, openVars
<1>5. CASE FlushInstalled
  BY <1>5 DEF FlushInstalled, RemoveObsoleteFiles, openVars
<1>6. CASE CompactionInstalled
  BY <1>6 DEF CompactionInstalled, RemoveObsoleteFiles
<1>7. CASE CompactMemTable \/ BuildTable \/ VerifyTable \/ TableVerified \/ TableUnusable \/ TableBuilt \/ FlushRemoves
  BY <1>7 DEF CompactMemTable, BuildTable, VerifyTable, FindInCache, TableVerified, ReleaseHandle, TableUnusable,
              TableBuilt, FlushRemoves, RemoveFile, openVars
<1>8. CASE \/ BackgroundCompaction \/ OpenInput \/ OpenCompactionOutputFile \/ MergeEnds
           \/ VerifyOutput \/ OutputVerified \/ InstallCompactionResults \/ CompactionFails \/ CompactionRemoves
  BY <1>8 DEF BackgroundCompaction, OpenInput, FindInCache, OpenCompactionOutputFile, MergeEnds, VerifyOutput,
              OutputVerified, ReleaseHandle, InstallCompactionResults, CompactionFails, CloseInputs,
              CompactionRemoves, RemoveFile, openVars
<1> QED
  BY <1>2, <1>3, <1>4, <1>5, <1>6, <1>7, <1>8 DEF FilesNext

\* While a flush verifies its table the background thread closes nothing else.
LEMMA VerifyKeepsHandles ==
    ASSUME FilesInv, FilesNext, flush.pc = "verify", UNCHANGED flush
    PROVE  handles[Bg] \subseteq handles'[Bg]
<1>1. OpenType /\ Bg \notin Readers /\ compaction.pc \in {"none", "running"}
  BY FilesAssumption DEF FilesInv, FilesType, WorkInv
<1>2. CASE \E t \in Threads : OpenFile(t) \/ NoMmap(t) \/ NoFd(t)
  BY <1>2 DEF OpenFile, NoMmap, NoFd
<1>3. ASSUME NEW t \in Threads, InsertTable(t)
      PROVE  handles[Bg] \subseteq handles'[Bg]
  <2>1. UNCHANGED handles \/ \E new : handles' = [handles EXCEPT ![t] = @ \cup {new}]
    BY <1>3 DEF InsertTable
  <2> QED
    BY <1>1, <2>1 DEF OpenType, Threads
<1>4. ASSUME NEW t \in Threads, NEW n, FindInCache(t, n)
      PROVE  handles[Bg] \subseteq handles'[Bg]
  BY <1>1, <1>4 DEF FindInCache, OpenType, Threads
<1>5. ASSUME NEW r \in Readers, Begin(r) \/ FindTable(r) \/ ReleaseTable(r) \/ End(r)
      PROVE  handles[Bg] \subseteq handles'[Bg]
  <2>1. CASE Begin(r) \/ End(r)
    BY <2>1 DEF Begin, End, openVars
  <2>2. CASE FindTable(r)
    BY <1>4, <2>2 DEF FindTable, Threads
  <2>3. CASE ReleaseTable(r)
    BY <1>1, <2>3 DEF ReleaseTable, ReleaseHandle, OpenType, Threads
  <2> QED
    BY <1>5, <2>1, <2>2, <2>3
<1>6. CASE CompactMemTable \/ BuildTable \/ TableUnusable \/ TableBuilt \/ FlushInstalled \/ FlushRemoves
  BY <1>6 DEF CompactMemTable, BuildTable, TableUnusable, TableBuilt, FlushInstalled, RemoveObsoleteFiles,
              FlushRemoves, RemoveFile, openVars
<1>7. CASE TableVerified
  <2>1. flush'.pc = "built"
    BY <1>7 DEF TableVerified, FilesInv, FilesType, FlushType, Works
  <2> QED
    BY <2>1
<1>8. CASE VerifyTable \/ OpenInput \/ VerifyOutput
  BY <1>4, <1>8 DEF VerifyTable, OpenInput, VerifyOutput, Threads
<1>9. CASE \/ BackgroundCompaction \/ OpenCompactionOutputFile \/ MergeEnds \/ OutputVerified
           \/ InstallCompactionResults \/ CompactionInstalled \/ CompactionFails \/ CompactionRemoves
  BY <1>9, CompactionAlone DEF FilesInv
<1> QED
  BY <1>2, <1>3, <1>5, <1>6, <1>7, <1>8, <1>9 DEF FilesNext

\* Who inserts a table has a file that exists and stays; a reader's is not the
\* one a flush is building.
LEMMA InsertsKept ==
    ASSUME FilesInv, NEW t \in Threads, InsertTable(t)
    PROVE  /\ opening[t].number \in dir
           /\ flush.pc = "remove" => opening[t].number \notin flush.files
           /\ compaction.pc = "remove" => opening[t].number \notin compaction.files
           /\ flush.pc = "verify" /\ t # Bg => opening[t].number # flush.number
<1>1. opening[t] # NoOpening
  BY SMT, SMTT(40) DEF InsertTable, NoOpening
<1>2. opening[t].number \in dir
  BY <1>1, OpenAreInDir DEF OpenFilesExist
<1>3. CASE t = Bg
  BY <1>1, <1>2, <1>3 DEF FilesInv, OpenInv, BgOpen, WorkInv
<1>4. CASE t \in Readers
  <2>1. opening[t].number \in AddLiveFiles
    BY <1>1, <1>4, HeldIsListed DEF FilesInv, OpenInv, ReadersOpen, HeldListed, AddLiveFiles
  <2> QED
    BY <1>2, <2>1 DEF FilesInv, WorkInv, Building
<1> QED
  BY <1>3, <1>4 DEF Threads

\* Every step keeps CacheInv.
LEMMA CacheStep ==
    ASSUME FilesInv, FilesNext
    PROVE  CacheInv'
<1> DEFINE Fine(n) == /\ cache_'[n].number = n /\ n \in dir'
                      /\ flush'.pc = "remove" => n \notin flush'.files
                      /\ compaction'.pc = "remove" => n \notin compaction'.files
<1>1. /\ CacheInv /\ BgOpen /\ flush \in Works /\ compaction \in Works /\ dir \subseteq Numbers
      /\ flush.pc \in Building => flush.number \in Numbers
  <2>1. Known \subseteq Numbers
    BY SMT, SMTT(40), FilesAssumption DEF FilesInv, FilesType, NumbersType, Known, Numbers
  <2> QED
    BY <2>1 DEF FilesInv, FilesType, FlushType, CompactionType, NumbersType, WorkInv, OpenInv
<1>2. ASSUME \A n \in Numbers : cache_'[n] # NoTable => Fine(n),
             flush'.pc = "verify" /\ ~Holds(Bg, flush.number)' => cache_'[flush'.number] = NoTable
      PROVE  CacheInv'
  BY <1>2 DEF CacheInv
<1>3. CASE UNCHANGED <<dirVars, flush, compaction>>
  <2>1. ASSUME NEW n \in Numbers, cache_'[n] # NoTable
        PROVE  Fine(n)
    <3>1. CASE cache_'[n] = cache_[n]
      BY <1>1, <1>3, <2>1, <3>1 DEF CacheInv, dirVars
    <3>2. ASSUME NEW t \in Threads, InsertTable(t), n = opening[t].number, cache_'[n].number = n
          PROVE  Fine(n)
      BY <1>3, <3>2, InsertsKept DEF dirVars
    <3> QED
      BY <2>1, <3>1, <3>2, CacheEffects
  <2>2. ASSUME flush.pc = "verify", ~Holds(Bg, flush.number)'
        PROVE  cache_'[flush.number] = NoTable
    <3>1. PICK n \in Numbers : n = flush.number
      BY <1>1, <2>2 DEF Building
    <3>2. ~Holds(Bg, n)' /\ ~Holds(Bg, n)
      BY <1>3, <2>2, <3>1, VerifyKeepsHandles DEF Holds
    <3>3. cache_[n] = NoTable
      BY <1>1, <2>2, <3>1, <3>2 DEF CacheInv
    <3>4. ASSUME NEW t \in Threads, InsertTable(t), n = opening[t].number, Holds(t, n)'
          PROVE  FALSE
      <4>1. t # Bg
        BY <3>2, <3>4
      <4> QED
        BY <2>2, <3>1, <3>4, <4>1, InsertsKept
    <3> QED
      BY <3>1, <3>3, <3>4, CacheEffects
  <2> QED
    BY <1>2, <1>3, <2>1, <2>2
<1>4. CASE ~UNCHANGED <<dirVars, flush, compaction>>
  <2>1. ASSUME NEW n \in Numbers, cache_'[n] # NoTable
        PROVE  cache_'[n] = cache_[n] /\ cache_'[n].number = n /\ n \in dir
    <3>1. \A t \in Threads : ~InsertTable(t)
      BY <1>4 DEF InsertTable, bgVars
    <3>2. cache_'[n] = cache_[n]
      BY <2>1, <3>1, CacheEffects
    <3> QED
      BY <1>1, <2>1, <3>2 DEF CacheInv
  <2>2. ASSUME dir \subseteq dir', compaction' = compaction \/ compaction'.pc # "remove",
               flush' = flush \/ flush'.pc # "remove"
        PROVE  \A n \in Numbers : cache_'[n] # NoTable => Fine(n)
    BY <1>1, <2>1, <2>2 DEF CacheInv
  <2>3. CASE CompactMemTable \/ TableVerified \/ TableBuilt
    <3>1. dir' = dir /\ compaction' = compaction /\ flush'.pc \in {"build", "built", "manifest", "none"}
      <4>1. CASE CompactMemTable
        BY <4>1 DEF CompactMemTable, NoWork
      <4>2. CASE TableVerified
        BY <1>1, <4>2 DEF TableVerified, dirVars, Works
      <4>3. CASE TableBuilt
        <5>1. /\ dir' = dir /\ compaction' = compaction
              /\ \/ flush' = NoWork
                 \/ flush' = [flush EXCEPT !.pc = "manifest", !.files = @ \cup versions[current_].files]
          BY <4>3 DEF TableBuilt
        <5>2. flush' = NoWork => flush'.pc = "none"
          BY SMT, SMTT(40) DEF NoWork
        <5>3. flush' = [flush EXCEPT !.pc = "manifest", !.files = @ \cup versions[current_].files] => flush'.pc = "manifest"
          BY <1>1 DEF Works
        <5> QED
          BY <5>1, <5>2, <5>3
      <4> QED
        BY <2>3, <4>1, <4>2, <4>3
    <3> QED
      BY <1>2, <2>2, <3>1
  <2>4. CASE BuildTable
    <3>1. /\ dir \subseteq dir' /\ compaction' = compaction /\ flush'.pc \in {"verify", "built", "failed"}
          /\ flush'.number = flush.number /\ flush.pc = "build" /\ cache_' = cache_
      BY <1>1, <2>4 DEF BuildTable, openVars, Works
    <3>2. cache_[flush.number] = NoTable
      <4>1. flush.number \in Numbers /\ flush.number \notin dir
        BY <1>1, <3>1 DEF Building, FilesInv, WorkInv
      <4> QED
        BY <1>1, <4>1 DEF CacheInv
    <3> QED
      BY <1>2, <2>2, <3>1, <3>2
  <2>5. CASE TableUnusable
    <3>1. /\ dir' = dir \ {flush.number} /\ compaction' = compaction /\ flush'.pc = "failed" /\ flush.pc = "verify"
          /\ opening[Bg] # NoOpening
      BY SMT, SMTT(40), <1>1, <2>5 DEF TableUnusable, NoOpening, Works
    <3>2. cache_[flush.number] = NoTable
      BY <1>1, <3>1 DEF BgOpen, CacheInv
    <3> QED
      BY <1>1, <1>2, <2>1, <3>1, <3>2 DEF CacheInv
  <2>6. CASE FlushInstalled
    <3>1. compaction' = compaction /\ dir' = dir
      BY <2>6 DEF FlushInstalled, dirVars
    <3>2. CASE flush' = NoWork
      <4>1. flush'.pc = "none"
        BY <3>2 DEF NoWork
      <4> QED
        BY <1>2, <2>2, <3>1, <4>1
    <3>3. CASE flush' # NoWork
      <4>1. /\ flush' = [NoWork EXCEPT !.pc = "remove", !.files = Obsolete(pending_outputs_)]
            /\ cache_' = [n \in Numbers |-> IF n \in Obsolete(pending_outputs_) THEN NoTable ELSE cache_[n]]
        BY <2>6, <3>3 DEF FlushInstalled, RemoveObsoleteFiles
      <4>2. flush'.pc = "remove" /\ flush'.files = Obsolete(pending_outputs_)
        BY <4>1 DEF NoWork
      <4> QED
        BY <1>1, <1>2, <2>1, <3>1, <4>1, <4>2 DEF CacheInv
    <3> QED
      BY <3>2, <3>3
  <2>7. CASE FlushRemoves
    <3>1. flush.pc = "remove" /\ compaction' = compaction /\ dir \ flush.files \subseteq dir'
      BY <2>7 DEF FlushRemoves, RemoveFile
    <3>2. flush'.pc = "none" \/ (flush'.pc = "remove" /\ flush'.files \subseteq flush.files)
      BY <1>1, <2>7 DEF FlushRemoves, RemoveFile, Rest, NoWork, Works
    <3> QED
      BY <1>1, <1>2, <2>1, <3>1, <3>2 DEF CacheInv
  <2>8. CASE \/ BackgroundCompaction \/ OpenCompactionOutputFile \/ MergeEnds \/ OutputVerified
             \/ InstallCompactionResults \/ CompactionFails
    <3>1. flush' = flush /\ flush.pc = "none"
      BY <2>8, CompactionAlone DEF FilesInv
    <3>2. dir \subseteq dir' /\ compaction'.pc # "remove"
      <4>1. CASE BackgroundCompaction
        BY <4>1 DEF BackgroundCompaction, NoWork, dirVars
      <4>2. CASE OpenCompactionOutputFile
        BY <1>1, <4>2 DEF OpenCompactionOutputFile, Compacting, Works
      <4>3. CASE MergeEnds
        BY <1>1, <4>3 DEF MergeEnds, dirVars, Works
      <4>4. CASE OutputVerified
        BY <1>1, <4>4 DEF OutputVerified, dirVars, Works
      <4>5. CASE InstallCompactionResults
        BY <1>1, <4>5 DEF InstallCompactionResults, dirVars, Works
      <4>6. CASE CompactionFails
        BY <4>6 DEF CompactionFails, NoWork
      <4> QED
        BY <2>8, <4>1, <4>2, <4>3, <4>4, <4>5, <4>6
    <3> QED
      BY <1>2, <2>2, <3>1, <3>2
  <2>9. CASE CompactionInstalled
    <3>1. flush' = flush /\ flush.pc = "none" /\ dir' = dir
      BY <2>9, CompactionAlone DEF FilesInv, CompactionInstalled
    <3>2. /\ compaction' = [NoWork EXCEPT !.pc = "remove", !.files = Obsolete(pending_outputs_')]
          /\ cache_' = [n \in Numbers |-> IF n \in Obsolete(pending_outputs_') THEN NoTable ELSE cache_[n]]
      BY <2>9 DEF CompactionInstalled, RemoveObsoleteFiles
    <3>3. compaction'.pc = "remove" /\ compaction'.files = Obsolete(pending_outputs_')
      BY <3>2 DEF NoWork
    <3> QED
      BY <1>2, <2>1, <3>1, <3>2, <3>3
  <2>10. CASE CompactionRemoves
    <3>1. /\ flush' = flush /\ flush.pc = "none" /\ compaction.pc = "remove"
          /\ dir \ compaction.files \subseteq dir'
      BY <2>10, CompactionAlone DEF FilesInv, CompactionRemoves, RemoveFile
    <3>2. compaction'.pc = "none" \/ (compaction'.pc = "remove" /\ compaction'.files \subseteq compaction.files)
      BY <1>1, <2>10 DEF CompactionRemoves, RemoveFile, Rest, NoWork, Works
    <3> QED
      BY <1>1, <1>2, <2>1, <3>1, <3>2 DEF CacheInv
  <2> QED
    BY <1>4, <2>3, <2>4, <2>5, <2>6, <2>7, <2>8, <2>9, <2>10, WorkFrame
<1> QED
  BY <1>3, <1>4

\* Nobody finds a file gone.
LEMMA NothingMissing ==
    ASSUME FilesInv, FilesNext
    PROVE  ~missing'
<1>1. ~missing
  BY DEF FilesInv
<1>2. ASSUME NEW t \in Threads, OpenFile(t) \/ NoMmap(t) \/ NoFd(t) \/ InsertTable(t)
      PROVE  ~missing'
  <2>1. opening[t] # NoOpening
    <3>1. opening[t].pc # "none"
      BY <1>2 DEF OpenFile, NoMmap, NoFd, InsertTable
    <3> QED
      BY SMT, SMTT(40), <3>1 DEF NoOpening
  <2>2. opening[t].number \in dir
    BY <2>1, OpenAreInDir DEF OpenFilesExist
  <2> QED
    BY <1>1, <1>2, <2>2 DEF OpenFile, NoMmap, NoFd, InsertTable
<1>3. CASE \E r \in Readers : Begin(r) \/ FindTable(r) \/ ReleaseTable(r) \/ End(r)
  BY <1>1, <1>3 DEF Begin, FindTable, ReleaseTable, End
<1>4. CASE CompactMemTable \/ BuildTable \/ VerifyTable \/ TableVerified \/ TableUnusable
           \/ TableBuilt \/ FlushInstalled \/ FlushRemoves
  BY <1>1, <1>4 DEF CompactMemTable, BuildTable, VerifyTable, TableVerified, TableUnusable, TableBuilt,
                    FlushInstalled, FlushRemoves, RemoveFile
<1>5. CASE \/ BackgroundCompaction \/ OpenInput \/ OpenCompactionOutputFile \/ MergeEnds
           \/ VerifyOutput \/ OutputVerified
           \/ InstallCompactionResults \/ CompactionInstalled \/ CompactionFails \/ CompactionRemoves
  BY <1>1, <1>5 DEF BackgroundCompaction, OpenInput, OpenCompactionOutputFile, MergeEnds, VerifyOutput, OutputVerified,
                    InstallCompactionResults, CompactionInstalled, CompactionFails, CompactionRemoves, RemoveFile
<1> QED
  BY <1>2, <1>3, <1>4, <1>5 DEF FilesNext

\* The invariant holds when the database has been opened.
LEMMA FilesInvInit == FilesInit => FilesInv
<1> SUFFICES ASSUME FilesInit
             PROVE  FilesInv
  OBVIOUS
<1>1. PICK k \in 0..MaxFileNumber : Initial = 1..k
  BY FilesAssumption
<1>2. k \in Nat /\ Cardinality(Initial) = k
  BY SMT, SMTT(40), <1>1, FilesAssumption, FS_Interval
<1>3. /\ flush.pc = "none" /\ compaction.pc = "none" /\ flush = NoWork /\ compaction = NoWork
      /\ NoWork \in Works /\ NoOpening \in Openings
  BY DEF FilesInit, NoWork, NoOpening, NoVersion, Works, Openings
<1>4. dir = Initial /\ next_file_number_ = k + 1 /\ current_ = 1 /\ Known = Initial /\ Initial \subseteq Nat
  BY SMT, SMTT(40), <1>1, <1>2 DEF FilesInit, Known
<1>5. FilesType
  <2>1. NumbersType
    BY SMT, SMTT(40), <1>2, <1>4, FilesAssumption DEF NumbersType, NoVersion
  <2>2. FlushType /\ CompactionType
    BY <1>3 DEF FlushType, CompactionType, Building, Merging
  <2>3. OpenType
    BY <1>3 DEF FilesInit, OpenType, NoVersion
  <2> QED
    BY <2>1, <2>2, <2>3 DEF FilesType
<1>6. AddLiveFiles = Initial
  BY DEF FilesInit, AddLiveFiles
<1>7. RefsInv
  <2>1. \A v \in Nat \ {NoVersion} : HolderCount[v] = Is(1, v)
    <3> SUFFICES ASSUME NEW v \in Nat \ {NoVersion}
                 PROVE  Holders(v) = Is(1, v)
      BY DEF HolderCount
    <3>1. ReadersOf(v) = {}
      BY DEF ReadersOf, FilesInit
    <3>2. Cardinality(ReadersOf(v)) = 0
      BY <3>1, FS_EmptySet
    <3>3. FlushVersion = NoVersion /\ CompactionVersion = NoVersion
      BY <1>3 DEF FlushVersion, CompactionVersion, Building, Merging
    <3> QED
      BY SMT, SMTT(40), <1>4, <3>2, <3>3 DEF Holders, Is
  <2>2. IsFiniteSet({1})
    BY FS_Singleton
  <2>3. DOMAIN versions = {1} /\ versions[1] = [files |-> Initial, refs_ |-> 1] /\ versions = [v \in {1} |-> versions[v]]
    BY DEF FilesInit
  <2>4. versions \in [{1} -> Versions]
    BY SMT, SMTT(40), <1>4, <2>3 DEF Versions
  <2> QED
    BY SMT, SMTT(40), <2>1, <2>2, <2>3, <2>4 DEF RefsInv, CountedBy, Is, NoVersion
<1>8. WorkInv
  BY <1>3, <1>4, <1>6 DEF WorkInv, Building, Merging
<1>9. OpenInv
  BY <1>3 DEF FilesInit, OpenInv, ReadersOpen, BgOpen, Threads
<1>10. CacheInv
  BY <1>3 DEF FilesInit, CacheInv
<1> QED
  BY <1>5, <1>7, <1>8, <1>9, <1>10 DEF FilesInv, FilesInit

\* A step that changes nothing keeps it.
LEMMA FilesInvStutter == FilesInv /\ UNCHANGED fileVars => FilesInv'
<1> SUFFICES ASSUME FilesInv, UNCHANGED fileVars
             PROVE  FilesInv'
  OBVIOUS
<1>1. /\ UNCHANGED <<dir, next_file_number_, pending_outputs_, versions, current_, bg_error_, flush, compaction>>
      /\ UNCHANGED <<opening, handles, cache_, using, missing>>
  BY DEF fileVars, dirVars, versionVars, bgVars, openVars
<1>2. FilesType'
  BY <1>1 DEF FilesInv, FilesType, NumbersType, FlushType, CompactionType, OpenType, Known
<1>3. RefsInv'
  BY <1>1 DEF FilesInv, RefsInv, HolderCount, Holders, ReadersOf, FlushVersion, CompactionVersion
<1>4. WorkInv'
  BY <1>1, SMTT(30) DEF FilesInv, WorkInv, AddLiveFiles, Known
<1>5. OpenInv'
  BY <1>1 DEF FilesInv, OpenInv, ReadersOpen, BgOpen, BgFiles, Holds
<1>6. CacheInv'
  BY <1>1 DEF FilesInv, CacheInv, Holds
<1> QED
  BY <1>1, <1>2, <1>3, <1>4, <1>5, <1>6 DEF FilesInv

\* FilesInv is inductive, and so an invariant.
LEMMA FilesInvariant == FilesSpec => []FilesInv
<1>1. FilesInv /\ [FilesNext]_fileVars => FilesInv'
  <2>1. FilesInv /\ FilesNext => FilesInv'
    <3> SUFFICES ASSUME FilesInv, FilesNext
                 PROVE  FilesInv'
      OBVIOUS
    <3> QED
      BY TypeStep, WorkStep, OpenStep, CacheStep, NothingMissing DEF FilesInv
  <2> QED
    BY <2>1, FilesInvStutter
<1> QED
  BY <1>1, FilesInvInit, PTL DEF FilesSpec

\* FilesInUseExist, whatever the number of readers, of files and of tables the
\* cache and the limiters allow: RemoveObsoleteFiles never takes a file that a
\* reader, a version or the background thread itself still needs.
THEOREM FilesNeverMissing == FilesSpec => []FilesInUseExist
<1>1. FilesInv => FilesInUseExist
  BY OpenAreInDir DEF FilesInv, WorkInv, OpenFilesExist, FilesInUseExist
<1> QED
  BY <1>1, FilesInvariant, PTL

\* CacheForgetsRemoved likewise: TableCache::Evict comes before the file goes,
\* and no thread can be opening that file to bring its table back.
THEOREM CacheNeverStale == FilesSpec => []CacheForgetsRemoved
<1>1. FilesInv => CacheForgetsRemoved
  BY DEF FilesInv, CacheInv, CacheForgetsRemoved
<1> QED
  BY <1>1, FilesInvariant, PTL
=============================================================================
