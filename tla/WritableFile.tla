---------------------------- MODULE WritableFile ----------------------------
(***************************************************************************)
(* PosixWritableFile (kv/util/env_posix.cpp): the buffered file behind the *)
(* logs, the MANIFEST and the tables.  A byte is the pair of its position  *)
(* in what was appended and the number of files the directory had then,    *)
(* the files a MANIFEST may refer to.                                      *)
(***************************************************************************)
EXTENDS Integers, Sequences

CONSTANTS
    kWritableFileBufferSize,
    MaxAppended, MaxCreated     \* bounds: bytes appended, files created

ASSUME WritableAssumption == kWritableFileBufferSize \in Nat \ {0}

VARIABLES
    is_manifest_, fd_,          \* whether it is a MANIFEST, whether it is open
    buf_,                       \* buf_[0, pos_ - 1]
    contents,                   \* the file as the operating system has it
    durable,                    \* the positions of contents that are on the disk
    created, entries,           \* files created; how many have their entries on disk
    appended, synced,           \* all bytes given to Append; how many a Sync has covered
    io_error                    \* whether a call has returned an error

writableVars == <<is_manifest_, fd_, buf_, contents, durable, created, entries, appended, synced, io_error>>

WritableInit ==
    /\ is_manifest_ \in BOOLEAN /\ fd_ = TRUE
    /\ buf_ = <<>> /\ contents = <<>> /\ durable = {}
    /\ created = 0 /\ entries = 0
    /\ appended = <<>> /\ synced = 0 /\ io_error = FALSE

-----------------------------------------------------------------------------
\* The outcomes of WriteUnbuffered: short and interrupted writes are continued;
\* an error leaves a prefix behind.
WriteUnbuffered(data) ==
    {[ok |-> TRUE, out |-> data]}
    \cup {[ok |-> FALSE, out |-> SubSeq(data, 1, n)] : n \in 0..Len(data) - 1}

Room == kWritableFileBufferSize - Len(buf_)
NewBytes(size) == [i \in 1..size |-> <<Len(appended) + i, created>>]

\* Variant of AppendData that writes a large rest and keeps the buffer.
AppendData_RestFirst(size) ==
    LET copy_size == IF size < Room THEN size ELSE Room
        full == buf_ \o SubSeq(NewBytes(size), 1, copy_size)
        rest == SubSeq(NewBytes(size), copy_size + 1, size)
    IN  /\ fd_ /\ Len(appended) + size <= MaxAppended
        /\ appended' = appended \o NewBytes(size)
        /\ IF rest = <<>> THEN buf_' = full /\ UNCHANGED contents
           ELSE IF Len(rest) < kWritableFileBufferSize THEN contents' = contents \o full /\ buf_' = rest
           ELSE contents' = contents \o rest /\ buf_' = full
        /\ UNCHANGED <<is_manifest_, fd_, durable, created, entries, synced, io_error>>

\* What fits goes to the buffer.  The rest makes it be written; a small rest is
\* buffered in turn, a large one is written at once.
AppendData(size) ==
    LET copy_size == IF size < Room THEN size ELSE Room
        full == buf_ \o SubSeq(NewBytes(size), 1, copy_size)
        rest == SubSeq(NewBytes(size), copy_size + 1, size)
        small == Len(rest) < kWritableFileBufferSize
    IN  /\ fd_ /\ Len(appended) + size <= MaxAppended
        /\ appended' = appended \o NewBytes(size)
        /\ \/ rest = <<>> /\ buf_' = full /\ UNCHANGED <<contents, io_error>>
           \/ /\ rest # <<>>
              /\ \E w \in WriteUnbuffered(IF small THEN full ELSE full \o rest) :
                    /\ contents' = contents \o w.out
                    /\ buf_' = IF w.ok /\ small THEN rest ELSE <<>>
                    /\ io_error' = (io_error \/ ~w.ok)
        /\ UNCHANGED <<is_manifest_, fd_, durable, created, entries, synced>>

\* The buffer is empty afterwards even if it was not written.
FlushBuffer(w) ==
    /\ w \in WriteUnbuffered(buf_)
    /\ contents' = contents \o w.out /\ buf_' = <<>>

FlushData ==
    /\ fd_ /\ \E w \in WriteUnbuffered(buf_) : FlushBuffer(w) /\ io_error' = (io_error \/ ~w.ok)
    /\ UNCHANGED <<is_manifest_, fd_, durable, created, entries, appended, synced>>

\* The descriptor is gone even if close(2) fails.
Close ==
    /\ fd_ /\ fd_' = FALSE
    /\ \E w \in WriteUnbuffered(buf_), closed \in BOOLEAN :
          FlushBuffer(w) /\ io_error' = (io_error \/ ~w.ok \/ ~closed)
    /\ UNCHANGED <<is_manifest_, durable, created, entries, appended, synced>>

\* SyncDirIfManifest, FlushBuffer, SyncFd; the first to fail is returned.
Sync ==
    /\ fd_
    /\ \/ is_manifest_ /\ io_error' = TRUE /\ UNCHANGED <<buf_, contents, durable, entries, synced>>
       \/ /\ entries' = IF is_manifest_ THEN created ELSE entries
          /\ \E w \in WriteUnbuffered(buf_), fdatasync \in BOOLEAN :
                /\ FlushBuffer(w)
                /\ IF w.ok /\ fdatasync
                   THEN durable' = DOMAIN contents' /\ synced' = Len(appended) /\ UNCHANGED io_error
                   ELSE io_error' = TRUE /\ UNCHANGED <<durable, synced>>
    /\ UNCHANGED <<is_manifest_, fd_, created, appended>>

\* The kernel writes back what it has when and in which order it likes: a byte
\* of the file, also of a MANIFEST, or the entry of the next file.
WriteBack ==
    /\ \/ \E i \in DOMAIN contents \ durable : durable' = durable \cup {i} /\ UNCHANGED entries
       \/ entries < created /\ entries' = entries + 1 /\ UNCHANGED durable
    /\ UNCHANGED <<is_manifest_, fd_, buf_, contents, created, appended, synced, io_error>>

\* Another file is created in the directory.
NewWritableFile ==
    /\ created < MaxCreated /\ created' = created + 1
    /\ UNCHANGED <<is_manifest_, fd_, buf_, contents, durable, entries, appended, synced, io_error>>

Closed == ~fd_ /\ UNCHANGED writableVars

WritableNext ==
    \/ \E size \in 0..2 * kWritableFileBufferSize + 1 : AppendData(size)
    \/ FlushData \/ Close \/ Sync \/ WriteBack \/ NewWritableFile \/ Closed

WritableSpec == WritableInit /\ [][WritableNext]_writableVars
-----------------------------------------------------------------------------
\* Until a call returns an error, what was appended is the file and the buffer,
\* in order, whatever the sizes, and what a Sync has covered is on the disk.  What
\* the Syncs of a MANIFEST have covered refers only to files whose directory
\* entries are there too, even after errors.  (Nothing is said of bytes of a
\* MANIFEST that the kernel writes back before the Sync.)
FileInOrder ==
    /\ Len(buf_) <= kWritableFileBufferSize
    /\ ~io_error => contents \o buf_ = appended /\ 1..synced \subseteq durable
    /\ is_manifest_ => \A i \in 1..synced : appended[i][2] <= entries
=============================================================================
