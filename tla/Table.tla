------------------------------- MODULE Table -------------------------------
(***************************************************************************)
(* Table files: TableBuilder puts one together block by block, with an     *)
(* index and a bloom filter, and Table looks keys up in it (kv/table,      *)
(* kv/util/bloom.cpp).  An append may fail, and once the file is complete  *)
(* one of its blocks may turn out not to be readable.                      *)
(*                                                                         *)
(* The handle of a block is its offset in the file, in bytes.              *)
(***************************************************************************)
EXTENDS Block

CONSTANTS
    UserKeys,              \* sequences of bytes
    Numbers,               \* sequence numbers, positive
    TableOptions,          \* block_size, block_restart_interval, compression, filter_policy
    kFilterBase, kBlockTrailerSize,
    bits_per_key, kProbes,
    BloomHash              \* of each user key: where its probes begin, and their distance

VARIABLES
    options,               \* never changed
    added,                 \* the keys added, in order
    rep,                   \* TableBuilder::Rep
    unreadable             \* offsets of blocks that cannot be read back

tableVars == <<options, added, rep, unreadable>>

InternalKeys == {u \o <<n>> : u \in UserKeys, n \in Numbers}
NoHandle == -1
NotFound == <<>>
-----------------------------------------------------------------------------
(***************************************************************************)
(* BloomFilterPolicy and FilterBlockBuilder.  A filter is the number of    *)
(* its bits and the set of those that are on.                              *)
(***************************************************************************)
NoFilter == [bits |-> 0, on |-> {}]

Probes(u, bits) == {(BloomHash[u].h + j * BloomHash[u].delta) % bits : j \in 0..(kProbes - 1)}

\* InternalFilterPolicy makes the filter of user keys, once for each version.
CreateFilter(keys) ==
    LET wanted == Cardinality(keys) * bits_per_key
        bits == IF wanted < 64 THEN 64 ELSE ((wanted + 7) \div 8) * 8
    IN  [bits |-> bits, on |-> UNION {Probes(ExtractUserKey(k), bits) : k \in keys}]

PolicyKeyMayMatch(u, filter) == filter.bits # 0 /\ Probes(u, filter.bits) \subseteq filter.on

GenerateFilter(f) ==
    [filters |-> Append(f.filters, IF f.keys = {} THEN NoFilter ELSE CreateFilter(f.keys)), keys |-> {}]

RECURSIVE StartBlock(_, _)
StartBlock(f, offset) ==
    IF offset \div kFilterBase > Len(f.filters) THEN StartBlock(GenerateFilter(f), offset) ELSE f

FilterFinish(f) == IF f.keys = {} THEN f.filters ELSE GenerateFilter(f).filters

KeyMayMatch(filters, offset, u) ==
    offset \div kFilterBase < Len(filters) => PolicyKeyMayMatch(u, filters[offset \div kFilterBase + 1])
-----------------------------------------------------------------------------
(***************************************************************************)
(* TableBuilder.  file holds the blocks appended so far by their offsets;  *)
(* footer is NoHandle twice until it is written.                           *)
(***************************************************************************)
TableInit ==
    /\ options \in TableOptions
    /\ added = <<>> /\ unreadable = {}
    /\ rep = [data_block |-> EmptyBlock, index_block |-> EmptyBlock, last_key |-> <<>>,
              filter_block |-> [filters |-> <<>>, keys |-> {}],
              pending_index_entry |-> FALSE, pending_handle |-> NoHandle,
              offset |-> 0, file |-> {}, footer |-> [metaindex |-> NoHandle, index |-> NoHandle],
              status |-> TRUE, closed |-> FALSE]

\* Snappy makes a block smaller; what it returns is outside this model.
StoredSize(b) ==
    IF options.compression = "kSnappyCompression" THEN (CurrentSizeEstimate(b) + 1) \div 2
    ELSE CurrentSizeEstimate(b)

WriteRawBlock(r, contents, size, ok) ==
    IF ok THEN [r EXCEPT !.file = @ \cup {[offset |-> r.offset, contents |-> contents]},
                         !.offset = @ + size + kBlockTrailerSize]
    ELSE [r EXCEPT !.status = FALSE]

WriteBlock(r, b, ok) == WriteRawBlock(r, BlockFinish(b), StoredSize(b), ok)

\* Variant of Flush that starts the filter of the next block too early.
Flush_FilterFirst(r, ok, flushed) ==
    IF ~r.status \/ r.data_block = EmptyBlock THEN r
    ELSE LET w == WriteBlock([r EXCEPT !.filter_block = StartBlock(@, r.offset)], r.data_block, ok)
         IN  [w EXCEPT !.data_block = EmptyBlock, !.pending_handle = r.offset,
                       !.pending_index_entry = w.status, !.status = ok /\ flushed]

Flush(r, ok, flushed) ==
    IF ~r.status \/ r.data_block = EmptyBlock THEN r
    ELSE LET w == WriteBlock(r, r.data_block, ok)
         IN  [w EXCEPT !.data_block = EmptyBlock, !.pending_handle = r.offset,
                       !.pending_index_entry = w.status, !.status = ok /\ flushed,
                       !.filter_block = StartBlock(@, w.offset)]

\* The entry of the last block, with a key from the end of that block up to
\* the start of the next.
AddIndexEntry(r, separator) ==
    IF ~r.pending_index_entry THEN r
    ELSE [r EXCEPT !.index_block = BlockAdd(@, 1, separator, r.pending_handle),
                   !.pending_index_entry = FALSE]

Add(key) ==
    /\ ~rep.closed
    /\ added # <<>> => Compare(added[Len(added)], key) < 0
    /\ IF ~rep.status THEN UNCHANGED <<rep, added>>
       ELSE LET i == AddIndexEntry(rep, FindShortestSeparator(rep.last_key, key))
                a == [i EXCEPT !.filter_block.keys = @ \cup {key},
                               !.last_key = key,
                               !.data_block = BlockAdd(@, options.block_restart_interval, key, key)]
            IN  /\ added' = Append(added, key)
                /\ IF CurrentSizeEstimate(a.data_block) >= options.block_size
                   THEN \E ok, flushed \in BOOLEAN : rep' = Flush(a, ok, flushed)
                   ELSE rep' = a
    /\ UNCHANGED <<options, unreadable>>

\* Each write happens if those before it went well; steps of them do.
FilterBlock(r, steps) ==
    IF r.status /\ options.filter_policy
    THEN WriteRawBlock(r, FilterFinish(r.filter_block), Len(FilterFinish(r.filter_block)), steps > 0)
    ELSE r
MetaIndexBlock(r, filter_handle, steps) ==
    IF r.status
    THEN [WriteRawBlock(r, IF options.filter_policy THEN filter_handle ELSE NoHandle, 1, steps > 1)
          EXCEPT !.footer.metaindex = r.offset]
    ELSE r
IndexBlock(r, steps) ==
    IF r.status
    THEN LET i == AddIndexEntry(r, FindShortSuccessor(r.last_key))
         IN  [WriteBlock(i, i.index_block, steps > 2) EXCEPT !.footer.index = r.offset]
    ELSE r
FooterBlock(r, steps) == [r EXCEPT !.status = @ /\ steps > 3]

Finish ==
    /\ ~rep.closed
    /\ \E ok, flushed \in BOOLEAN, steps \in 0..4 :
        LET f == Flush(rep, ok, flushed)
            filter == FilterBlock(f, steps)
            meta == MetaIndexBlock(filter, f.offset, steps)
        IN  rep' = [FooterBlock(IndexBlock(meta, steps), steps) EXCEPT !.closed = TRUE]
    /\ UNCHANGED <<options, added, unreadable>>

AbandonTable ==
    /\ ~rep.closed
    /\ rep' = [rep EXCEPT !.closed = TRUE]
    /\ UNCHANGED <<options, added, unreadable>>

\* A block of the complete file turns out not to be readable.
Complete == rep.closed /\ rep.status /\ rep.footer.index # NoHandle

Damage ==
    /\ Complete /\ unreadable = {}
    /\ \E b \in rep.file : unreadable' = {b.offset}
    /\ UNCHANGED <<options, added, rep>>

\* The file stays as it is.
Keep == rep.closed /\ UNCHANGED tableVars

TableNext ==
    \/ \E key \in InternalKeys : Add(key)
    \/ Finish \/ AbandonTable \/ Damage \/ Keep

TableSpec == TableInit /\ [][TableNext]_tableVars
-----------------------------------------------------------------------------
(***************************************************************************)
(* Table, over a complete file                                             *)
(***************************************************************************)
Contents(handle) == (CHOOSE b \in rep.file : b.offset = handle).contents
Readable(handle) == handle \notin unreadable

\* Open needs the footer and the index block; ReadMeta and ReadFilter go on
\* without a filter when there is none or it cannot be read.
Opens == Readable(rep.footer.index)
HasFilter ==
    /\ options.filter_policy
    /\ Readable(rep.footer.metaindex)
    /\ Contents(rep.footer.metaindex) # NoHandle
    /\ Readable(Contents(rep.footer.metaindex))

\* The value of a block's entry the iterator stands on.
EntryValue(c, it) == c.buffer[it.current_ + 1].value

IndexSeek(key) ==
    LET c == Contents(rep.footer.index)
        it == BlockSeek(c, NewBlockIterator(c), key)
    IN  IF Valid(c, it) THEN EntryValue(c, it) ELSE NoHandle

\* What handle_result is given and the status.
InternalGet(key) ==
    LET handle == IndexSeek(key)
        filtered == HasFilter /\ ~KeyMayMatch(Contents(Contents(rep.footer.metaindex)), handle, ExtractUserKey(key))
        c == Contents(handle)
        it == BlockSeek(c, NewBlockIterator(c), key)
    IN  IF handle = NoHandle \/ filtered THEN [key |-> NotFound, status |-> TRUE]
        ELSE IF ~Readable(handle) THEN [key |-> NotFound, status |-> FALSE]
        ELSE [key |-> IF Valid(c, it) THEN it.key_ ELSE NotFound, status |-> it.status_]

ApproximateOffsetOf(key) ==
    IF IndexSeek(key) = NoHandle THEN rep.footer.metaindex ELSE IndexSeek(key)
-----------------------------------------------------------------------------
(***************************************************************************)
(* Properties                                                              *)
(***************************************************************************)
\* The first key added from key on, if it is for the same user key.
Wanted(key) ==
    LET from == {i \in DOMAIN added : Compare(added[i], key) >= 0 /\ ExtractUserKey(added[i]) = ExtractUserKey(key)}
    IN  IF from = {} THEN NotFound ELSE added[CHOOSE i \in from : \A j \in from : i <= j]

DataBlocks == {b \in rep.file : b.offset < rep.footer.metaindex /\ (options.filter_policy => b.offset # Contents(rep.footer.metaindex))}

\* A lookup in a complete table finds what was added for its user key and
\* nothing else, through the index, the filter and the restart points; with a
\* block that cannot be read it answers so or reports an error, and losing the
\* filter costs no answer.  Offsets keep the order of the keys.
LookupsExact ==
    Complete /\ Opens =>
        \A key \in InternalKeys :
            LET got == InternalGet(key)
            IN  /\ IF got.status
                   THEN IF got.key # NotFound /\ ExtractUserKey(got.key) = ExtractUserKey(key)
                        THEN got.key = Wanted(key) ELSE Wanted(key) = NotFound
                   ELSE \E b \in DataBlocks : b.offset \in unreadable
                /\ \A k \in InternalKeys : Compare(key, k) < 0 => ApproximateOffsetOf(key) <= ApproximateOffsetOf(k)

\* The entries of a block as a forward and as a backward scan give them.
RECURSIVE Forward(_, _)
Forward(c, it) == IF Valid(c, it) THEN <<it.key_>> \o Forward(c, ParseNextKey(c, it)) ELSE <<>>
RECURSIVE Backward(_, _)
Backward(c, it) == IF Valid(c, it) THEN Backward(c, BlockPrev(c, it)) \o <<it.key_>> ELSE <<>>

\* Each block reads back as the keys it was made of, forwards and backwards and
\* from wherever a Seek lands, for every restart interval.
BlocksReadBack ==
    Complete =>
        \A b \in DataBlocks :
            LET c == b.contents
                keys == [i \in DOMAIN c.buffer |-> c.buffer[i].value]
                new == NewBlockIterator(c)
            IN  /\ Forward(c, BlockSeekToFirst(c, new)) = keys
                /\ Backward(c, BlockSeekToLast(c, new)) = keys
                /\ \A key \in InternalKeys :
                    LET it == BlockSeek(c, new, key)
                        from == {i \in DOMAIN keys : Compare(keys[i], key) >= 0}
                    IN  /\ it.status_
                        /\ IF from = {} THEN ~Valid(c, it)
                           ELSE it.current_ + 1 = CHOOSE i \in from : \A j \in from : i <= j
                        /\ Valid(c, it) => Backward(c, it) = SubSeq(keys, 1, it.current_ + 1)

\* The keys of the index separate the blocks, while the file is built and after:
\* each is at least the last key of its block and less than the first of the
\* next, and an index entry is pending only while the data block is empty (the
\* comments on Rep::pending_index_entry).
IndexSeparates ==
    /\ rep.pending_index_entry => rep.data_block = EmptyBlock
    /\ \A i \in DOMAIN rep.index_block.buffer :
        LET e == rep.index_block.buffer[i]
            c == Contents(e.value)
        IN  \A j \in DOMAIN added :
                IF \E n \in DOMAIN c.buffer : c.buffer[n].value = added[j]
                THEN Compare(added[j], e.delta) <= 0
                ELSE Compare(added[j], e.delta) <= 0 => Compare(added[j], c.buffer[1].value) < 0
=============================================================================
