----------------------------- MODULE LogFormat ------------------------------
(***************************************************************************)
(* The format of write-ahead logs and MANIFESTs: log::Writer and           *)
(* log::Reader (kv/db/log_writer.cpp, log_reader.cpp), with appends that   *)
(* fail half-way, crashes that cut the file at any byte, and a writer that *)
(* goes on at the end of what is left (reuse_logs).                        *)
(*                                                                         *)
(* A byte of the file is <<p, i>>, the i-th byte of physical record p, or  *)
(* Zero.  The header is the first HeaderSize bytes of a physical record.   *)
(* The checksum is exact: it matches if and only if all bytes are those of *)
(* one physical record.                                                    *)
(***************************************************************************)
EXTENDS Integers, Sequences, FiniteSets, SequencesExt

CONSTANTS
    BlockSize, HeaderSize,   \* kBlockSize, kHeaderSize
    Lengths,                 \* lengths of the records written
    MaxRecords, MaxCuts,     \* bounds: records written, crashes and failed appends
    MaxFragments             \* bound: fragments of a record

ASSUME LogFormatAssumption ==
    /\ HeaderSize \in Nat \ {0} /\ BlockSize \in Nat /\ BlockSize > HeaderSize
    /\ Lengths \subseteq Nat /\ MaxRecords \in Nat /\ MaxCuts \in Nat /\ MaxFragments \in Nat

VARIABLES
    file,           \* the bytes
    block_offset_,  \* of the writer
    written,        \* the length of each record for which AddRecord succeeded
                    \* or failed, in order
    whole,          \* the records that are in the file to the last byte
    cuts,           \* crashes and failed appends so far
    partial,        \* the file ends in a partial record
    failed,         \* an append failed
    continued,      \* something was appended behind a partial record
    reader          \* the reader, or NoReader while the log is open for writing

vars == <<file, block_offset_, written, whole, cuts, partial, continued, failed, reader>>

Zero == <<>>
NoReader == <<>>
-----------------------------------------------------------------------------
(***************************************************************************)
(* log::Writer                                                             *)
(***************************************************************************)
\* The physical records AddRecord emits for a record, each with the trailer
\* of zeros before it and block_offset_ after it.
Fragments(rec, length, offset) ==
    LET emit[left \in 0..length, off \in 0..BlockSize, begin \in BOOLEAN] ==
            LET leftover == BlockSize - off
                start == IF leftover < HeaderSize THEN 0 ELSE off
                avail == BlockSize - start - HeaderSize
                size == IF left < avail THEN left ELSE avail
                end == left = size
                type == CASE begin /\ end -> "full" [] begin /\ ~end -> "first"
                          [] ~begin /\ end -> "last" [] OTHER -> "middle"
                this == [trailer |-> IF leftover < HeaderSize THEN leftover ELSE 0,
                         record |-> [rec |-> rec, type |-> type, at |-> length - left, len |-> size],
                         after |-> start + HeaderSize + size]
            IN  <<this>> \o IF end THEN <<>> ELSE emit[left - size, this.after, FALSE]
    IN  emit[length, offset, TRUE]

Size(p) == HeaderSize + p.len
Bytes(f) == [i \in 1..f.trailer |-> Zero] \o [i \in 1..Size(f.record) |-> <<f.record, i>>]
AllBytes(fs) == FlattenSeq([i \in 1..Len(fs) |-> Bytes(fs[i])])

AddRecord(length) ==
    /\ reader = NoReader /\ Len(written) < MaxRecords
    /\ LET fs == Fragments(Len(written) + 1, length, block_offset_)
       IN  /\ file' = file \o AllBytes(fs) /\ block_offset_' = fs[Len(fs)].after
           /\ whole' = Append(whole, [rec |-> Len(written) + 1, end |-> Len(file')])
    /\ written' = Append(written, length) /\ continued' = (continued \/ partial)
    /\ UNCHANGED <<cuts, partial, failed, reader>>

\* EmitPhysicalRecord fails for fragment i with n of its bytes written; the
\* error is returned and the writer stays in use.
AddRecordFails(length, i, n) ==
    /\ reader = NoReader /\ Len(written) < MaxRecords /\ cuts < MaxCuts
    /\ LET fs == Fragments(Len(written) + 1, length, block_offset_)
       IN  /\ i \in 1..Len(fs) /\ n < Len(Bytes(fs[i]))
           /\ file' = file \o AllBytes(SubSeq(fs, 1, i - 1)) \o SubSeq(Bytes(fs[i]), 1, n)
           /\ block_offset_' = fs[i].after
    /\ written' = Append(written, length) /\ cuts' = cuts + 1
    /\ partial' = TRUE /\ failed' = TRUE /\ continued' = (continued \/ partial)
    /\ UNCHANGED <<whole, reader>>
-----------------------------------------------------------------------------
(***************************************************************************)
(* log::Reader, with initial_offset 0, as all callers have it              *)
(***************************************************************************)
\* The writer is gone and n bytes are left; a reader is opened.
Crash(n) ==
    /\ reader = NoReader /\ cuts < MaxCuts
    /\ n \in 0..Len(file)
    /\ file' = SubSeq(file, 1, n)
    /\ whole' = SelectSeq(whole, LAMBDA w : w.end <= n)
    /\ partial' = IF n = Len(file) THEN partial
                  ELSE n # 0 /\ \A i \in 1..Len(whole) : whole[i].end # n
    /\ cuts' = cuts + 1
    /\ reader' = [start |-> 0, end |-> 0, eof_ |-> FALSE, in_fragmented_record |-> FALSE,
                  scratch |-> <<>>, records |-> <<>>, reported |-> FALSE, done |-> FALSE]
    /\ UNCHANGED <<block_offset_, written, continued, failed>>

log == <<file, block_offset_, written, whole, cuts, partial, continued, failed>>

\* Variant of Trailer that is off by one.
Trailer_AtMost(r) == r.end - r.start <= HeaderSize

\* What is left of the buffer is too short for a header.
Trailer(r) == r.end - r.start < HeaderSize

\* The next block is read; a short one is the last.
ReadBlock ==
    /\ reader # NoReader /\ ~reader.done /\ Trailer(reader) /\ ~reader.eof_
    /\ LET left == Len(file) - reader.end
           size == IF left < BlockSize THEN left ELSE BlockSize
       IN  reader' = [reader EXCEPT !.start = reader.end, !.end = @ + size, !.eof_ = size < BlockSize]
    /\ UNCHANGED log

\* What ReadPhysicalRecord may return at the front of the buffer: a physical
\* record, a bad record (the rest of the buffer is dropped), or the end.  A
\* header put together from pieces may say anything.
PhysicalRecords(r) ==
    LET head == SubSeq(file, r.start + 1, r.start + HeaderSize)
        p == head[1][1]
        bad(report) == [type |-> "bad", report |-> report, start |-> r.end]
        eof == [type |-> "eof", report |-> FALSE, start |-> r.end]
        short(report) == IF r.eof_ THEN eof ELSE bad(report)
        intact(n) == \A i \in 1..n : file[r.start + i] = <<p, i>>
    IN  CASE Trailer(r) -> {eof}
          [] ~Trailer(r) /\ \A i \in 1..HeaderSize : head[i] = Zero -> {bad(FALSE)}
          [] ~Trailer(r) /\ head[1] # Zero /\ intact(HeaderSize) ->
                IF r.start + Size(p) > r.end THEN {short(TRUE)}
                ELSE IF ~intact(Size(p)) THEN {bad(TRUE)}
                ELSE {[type |-> p.type, report |-> FALSE, start |-> r.start + Size(p),
                       fragment |-> p]}
          [] OTHER -> {bad(TRUE), bad(FALSE), short(TRUE)}

\* kBadRecord: the record being collected is given up.
Abandon(r) ==
    [r EXCEPT !.reported = @ \/ r.in_fragmented_record,
              !.scratch = <<>>, !.in_fragmented_record = FALSE]

\* ReadRecord with a physical record: returns a record, collects fragments, or
\* reports what has no beginning or no end.
Assemble(r, x) ==
    LET open == r.in_fragmented_record
        more == Append(r.scratch, x.fragment)
        nonempty == \E i \in 1..Len(r.scratch) : r.scratch[i].len > 0
    IN  CASE x.type = "full" ->
                [r EXCEPT !.records = Append(@, <<x.fragment>>), !.reported = @ \/ (open /\ nonempty),
                          !.scratch = <<>>, !.in_fragmented_record = FALSE]
          [] x.type = "first" ->
                [r EXCEPT !.scratch = <<x.fragment>>, !.reported = @ \/ (open /\ nonempty),
                          !.in_fragmented_record = TRUE]
          [] x.type = "middle" -> IF open THEN [r EXCEPT !.scratch = more] ELSE [r EXCEPT !.reported = TRUE]
          [] x.type = "last" ->
                IF open THEN [r EXCEPT !.records = Append(@, more), !.scratch = <<>>,
                                       !.in_fragmented_record = FALSE]
                ELSE [r EXCEPT !.reported = TRUE]
          [] x.type = "bad" -> Abandon(r)
          [] x.type = "eof" -> [r EXCEPT !.done = TRUE, !.scratch = <<>>]

\* One turn of the loop in ReadRecord.
ReadRecord ==
    /\ reader # NoReader /\ ~reader.done /\ (Trailer(reader) => reader.eof_)
    /\ \E x \in PhysicalRecords(reader) :
           reader' = Assemble([reader EXCEPT !.start = x.start, !.reported = @ \/ x.report], x)
    /\ UNCHANGED log

\* Variant of ReopenOffset that forgets the length of the file.
ReopenOffset_Zero == 0

\* Writer(dest, dest_length).
ReopenOffset == Len(file) % BlockSize

\* The log is opened for appending after recovery.
Reopen ==
    /\ reader # NoReader /\ reader.done
    /\ reader' = NoReader /\ block_offset_' = ReopenOffset
    /\ UNCHANGED <<file, written, whole, cuts, partial, continued, failed>>

\* No record and no crash is left in the bounds.
Finished ==
    /\ reader = NoReader /\ Len(written) = MaxRecords /\ cuts = MaxCuts
    /\ UNCHANGED vars

LogInit ==
    /\ file = <<>> /\ block_offset_ = 0 /\ written = <<>> /\ whole = <<>> /\ cuts = 0
    /\ partial = FALSE /\ continued = FALSE /\ failed = FALSE /\ reader = NoReader

LogNext ==
    \/ \E length \in Lengths : AddRecord(length)
    \/ \E length \in Lengths, i \in 1..MaxFragments, n \in 0..BlockSize : AddRecordFails(length, i, n)
    \/ \E n \in 0..Len(file) : Crash(n)
    \/ ReadBlock \/ ReadRecord \/ Reopen \/ Finished

LogSpec == LogInit /\ [][LogNext]_vars
-----------------------------------------------------------------------------
(***************************************************************************)
(* Properties                                                              *)
(***************************************************************************)
\* While nothing was appended behind a partial record, reading gives back exactly
\* the records that are in the file to the last byte, in order, wherever the
\* blocks end and wherever the file was cut; and a cut is not a corruption.
ReadsBack ==
    (reader # NoReader /\ reader.done /\ ~continued) =>
        /\ [i \in 1..Len(reader.records) |-> reader.records[i][1].rec]
               = [i \in 1..Len(whole) |-> whole[i].rec]
        /\ ~reader.reported

\* Whatever was appended, cut and appended again, the reader only returns records
\* that were written, in the order in which they were written: all fragments of
\* one record, in order and without a gap.
NeverInvents ==
    reader # NoReader =>
        LET out == reader.records
            next(r, j) == IF j = Len(r) THEN written[r[1].rec] ELSE r[j + 1].at
        IN  /\ \A i \in 1..Len(out) :
                   /\ out[i][1].at = 0
                   /\ \A j \in 1..Len(out[i]) :
                          /\ out[i][j].rec = out[i][1].rec
                          /\ out[i][j].at + out[i][j].len = next(out[i], j)
            /\ \A i, j \in 1..Len(out) : i < j => out[i][1].rec < out[j][1].rec

\* A torn record costs at most its block, and never makes the reader return what
\* was not written (NeverInvents): as long as no append failed under a
\* living writer, a record none of whose blocks holds a piece of a torn record is
\* returned, though the log was continued behind the tear.
DamageContained ==
    /\ NeverInvents
    /\ (reader # NoReader /\ reader.done /\ ~failed) =>
        LET Block(k) == (k - 1) \div BlockSize
            Whole == {whole[i].rec : i \in 1..Len(whole)}
            At(rec) == {k \in 1..Len(file) : file[k] # Zero /\ file[k][1].rec = rec}
            Torn == {Block(k) : k \in {k \in 1..Len(file) :
                                          file[k] # Zero /\ file[k][1].rec \notin Whole}}
        IN  \A rec \in Whole :
                (\A k \in At(rec) : Block(k) \notin Torn) =>
                    \E i \in 1..Len(reader.records) : reader.records[i][1].rec = rec
=============================================================================
