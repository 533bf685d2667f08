------------------------------- MODULE DBIter -------------------------------
(***************************************************************************)
(* The iterator of the database (kv/db/db_iter.cpp) over the internal      *)
(* iterator of InternalIterators, while writers insert into the memtable   *)
(* it reads.  A step is one operation of iter_ and what DBIter does with   *)
(* the entry it then stands on, up to the next operation of iter_ or the   *)
(* return; insertions fall between the steps and inside one, between two   *)
(* operations on the memtable's iterator.                                  *)
(***************************************************************************)
EXTENDS InternalIterators

CONSTANTS
    UserKeys,      \* positive numbers
    Databases,     \* memtable, tables and snapshot an iterator is opened on
    LastSequence,  \* the newest sequence number then
    MaxInserts     \* insertions while the iterator lives

VARIABLES
    mem,           \* entries of the memtable
    tables,        \* the other children, never changed
    sequence_,     \* the snapshot
    iter_, direction_, valid_, saved_key_, saved_value_, status_,
    pc,            \* the loop of DBIter that runs, or the operation to begin
    skipping,      \* of FindNextUserEntry
    value_type,    \* of FindPrevUserEntry
    call,          \* the operation under way, see Cursor
    shown          \* key() and value() when the last operation returned

children == <<mem, tables, sequence_>>
vars == <<children, iter_, direction_, valid_, saved_key_, saved_value_, status_,
          pc, skipping, value_type, call, shown>>

NoKey == 0
NoCall == [op |-> "none", target |-> NoKey]
Nowhere == [key |-> NoKey, value |-> 0]

DBIterInit ==
    /\ \E d \in Databases : mem = d.mem /\ tables = d.tables /\ sequence_ = d.sequence_
    /\ iter_ = NewMerging(tables)
    /\ direction_ = "kForward" /\ valid_ = FALSE /\ status_ = TRUE
    /\ saved_key_ = NoKey /\ saved_value_ = 0
    /\ pc = "idle" /\ skipping = FALSE /\ value_type = "kTypeDeletion"
    /\ call = NoCall /\ shown = Nowhere
-----------------------------------------------------------------------------
(***************************************************************************)
(* Writers: entries newer than the snapshot.                               *)
(***************************************************************************)
Inserted == {e \in mem : e.seq > LastSequence}
Grown ==
    {mem} \cup {mem \cup {[key |-> k, seq |-> LastSequence + Cardinality(Inserted) + 1, type |-> "kTypeValue"]} :
                   k \in {u \in UserKeys : Cardinality(Inserted) < MaxInserts}}

Write ==
    /\ mem' \in Grown \ {mem}
    /\ UNCHANGED <<tables, sequence_, iter_, direction_, valid_, saved_key_, saved_value_,
                   status_, pc, skipping, value_type, call, shown>>
-----------------------------------------------------------------------------
(***************************************************************************)
(* The operations of DBIter                                                *)
(***************************************************************************)
\* What key() and value() give.
Key == IF direction_ = "kForward" THEN MergedKey(iter_).key ELSE saved_key_
Value == IF direction_ = "kForward" THEN MergedKey(iter_).seq ELSE saved_value_
Shown == IF valid_ THEN [key |-> Key, value |-> Value] ELSE Nowhere

status == status_ /\ MergingStatus(tables, iter_)

Call(c) ==
    /\ call = NoCall
    /\ c.op \in {"Next", "Prev"} => valid_
    /\ call' = c /\ pc' = c.op
    /\ UNCHANGED <<children, iter_, direction_, valid_, saved_key_, saved_value_, status_,
                   skipping, value_type, shown>>

Return ==
    /\ pc' = "idle" /\ call' = NoCall /\ shown' = Shown'
    /\ skipping' = FALSE /\ value_type' = "kTypeDeletion"

Continue(loop) == pc' = loop /\ UNCHANGED <<call, shown, valid_>>

\* ParseKey: an entry that does not parse sets status_ and is passed over.
ParseKey(e) == e.type # "corrupted"
Taken(e) == ParseKey(e) /\ e.seq <= sequence_

\* FindNextUserEntry's loop body at the entry iter_ has moved to, from the
\* entry on which it was called or after its iter_->Next().
FindNextUserEntry(skip, key) ==
    LET e == MergedKey(iter_')
    IN  /\ status_' = (status_ /\ (e # None => ParseKey(e)))
        /\ UNCHANGED saved_value_
        /\ \/ /\ e = None
              /\ valid_' = FALSE /\ saved_key_' = NoKey /\ Return
           \/ /\ e # None /\ Taken(e) /\ e.type = "kTypeValue" /\ ~(skip /\ e.key <= key)
              /\ valid_' = TRUE /\ saved_key_' = NoKey /\ Return
           \/ /\ e # None /\ Taken(e) /\ e.type = "kTypeDeletion"
              /\ saved_key_' = e.key /\ skipping' = TRUE
              /\ Continue("FindNextUserEntry") /\ UNCHANGED value_type
           \/ /\ e # None /\ (Taken(e) => e.type = "kTypeValue" /\ skip /\ e.key <= key)
              /\ saved_key_' = key /\ skipping' = skip
              /\ Continue("FindNextUserEntry") /\ UNCHANGED value_type

FindNextUserEntryStep ==
    /\ pc = "FindNextUserEntry"
    /\ mem' \in Grown
    /\ iter_' = MergingNext(tables, iter_, mem, mem')
    /\ UNCHANGED <<tables, sequence_, direction_>>
    /\ FindNextUserEntry(skipping, saved_key_)

Next ==
    /\ pc = "Next"
    /\ mem' \in Grown
    /\ direction_' = "kForward"
    /\ iter_' = IF direction_ = "kReverse" /\ MergedKey(iter_) = None
                THEN MergingSeekToFirst(tables, iter_, mem)
                ELSE MergingNext(tables, iter_, mem, mem')
    /\ FindNextUserEntry(TRUE, IF direction_ = "kReverse" THEN saved_key_ ELSE MergedKey(iter_).key)
    /\ UNCHANGED <<tables, sequence_>>

\* Seek asks for the newest entry of the key that the snapshot holds.
Seek ==
    /\ pc = "Seek"
    /\ mem' = mem
    /\ direction_' = "kForward"
    /\ iter_' = MergingSeek(tables, iter_, [key |-> call.target, seq |-> sequence_], mem)
    /\ FindNextUserEntry(FALSE, NoKey)
    /\ UNCHANGED <<tables, sequence_>>

SeekToFirst ==
    /\ pc = "SeekToFirst"
    /\ mem' = mem
    /\ direction_' = "kForward"
    /\ iter_' = MergingSeekToFirst(tables, iter_, mem)
    /\ FindNextUserEntry(FALSE, NoKey)
    /\ UNCHANGED <<tables, sequence_>>

\* FindPrevUserEntry at the entry iter_ has moved to: the newest entry of a
\* key is met last, so the scan goes on until the key before.
FindPrevUserEntry(type, key) ==
    LET e == MergedKey(iter_')
    IN  /\ status_' = (status_ /\ (e # None => ParseKey(e)))
        /\ UNCHANGED skipping
        /\ \/ /\ e = None \/ (Taken(e) /\ type # "kTypeDeletion" /\ e.key < key)
              /\ IF type = "kTypeDeletion"
                 THEN valid_' = FALSE /\ saved_key_' = NoKey /\ saved_value_' = 0 /\ direction_' = "kForward"
                 ELSE valid_' = TRUE /\ direction_' = "kReverse" /\ saved_key_' = key /\ UNCHANGED saved_value_
              /\ Return
           \/ /\ e # None /\ Taken(e) /\ (type = "kTypeDeletion" \/ e.key >= key)
              /\ value_type' = e.type
              /\ saved_key_' = (IF e.type = "kTypeDeletion" THEN NoKey ELSE e.key)
              /\ saved_value_' = (IF e.type = "kTypeDeletion" THEN 0 ELSE e.seq)
              /\ direction_' = "kReverse"
              /\ Continue("FindPrevUserEntry")
           \/ /\ e # None /\ ~Taken(e)
              /\ value_type' = type /\ saved_key_' = key /\ direction_' = "kReverse"
              /\ Continue("FindPrevUserEntry") /\ UNCHANGED saved_value_

FindPrevUserEntryStep ==
    /\ pc = "FindPrevUserEntry"
    /\ mem' \in Grown
    /\ iter_' = MergingPrev(tables, iter_, mem, mem')
    /\ FindPrevUserEntry(value_type, saved_key_)
    /\ UNCHANGED <<tables, sequence_>>

SeekToLast ==
    /\ pc = "SeekToLast"
    /\ mem' = mem
    /\ iter_' = MergingSeekToLast(tables, iter_, mem)
    /\ FindPrevUserEntry("kTypeDeletion", saved_key_)
    /\ UNCHANGED <<tables, sequence_>>

\* Prev goes on from where iter_ stands when it already moves backwards.
Prev ==
    /\ pc = "Prev" /\ direction_ = "kReverse"
    /\ UNCHANGED <<children, iter_>>
    /\ FindPrevUserEntry("kTypeDeletion", saved_key_)

\* Prev when it moved forward: first back to the entries of a smaller key.
PrevSwitch ==
    /\ pc = "PrevSwitch" \/ (pc = "Prev" /\ direction_ = "kForward")
    /\ mem' \in Grown
    /\ iter_' = MergingPrev(tables, iter_, mem, mem')
    /\ LET key == IF pc = "Prev" THEN MergedKey(iter_).key ELSE saved_key_
           e == MergedKey(iter_')
       IN  \/ /\ e = None
              /\ valid_' = FALSE /\ saved_key_' = NoKey /\ saved_value_' = 0 /\ Return
              /\ UNCHANGED <<direction_, status_>>
           \/ /\ e # None /\ e.key >= key
              /\ saved_key_' = key /\ Continue("PrevSwitch")
              /\ UNCHANGED <<direction_, saved_value_, status_, skipping, value_type>>
           \/ /\ e # None /\ e.key < key
              /\ FindPrevUserEntry("kTypeDeletion", key)
    /\ UNCHANGED <<tables, sequence_>>

Calls == [op : {"Seek"}, target : UserKeys]
         \cup [op : {"SeekToFirst", "SeekToLast", "Next", "Prev"}, target : {NoKey}]

DBIterNext ==
    \/ \E c \in Calls : Call(c)
    \/ Next \/ Prev \/ PrevSwitch \/ Seek \/ SeekToFirst \/ SeekToLast
    \/ FindNextUserEntryStep \/ FindPrevUserEntryStep
    \/ Write

DBIterSpec == DBIterInit /\ [][DBIterNext]_vars
-----------------------------------------------------------------------------
(***************************************************************************)
(* Properties                                                              *)
(***************************************************************************)
\* Every entry of the database, the unreadable ones included.
Contents == mem \cup UNION {UNION {tables[n][b].entries : b \in DOMAIN tables[n]} : n \in DOMAIN tables}

\* The newest entry of a key in the snapshot, and the keys that have a value.
Newest(k) == First({e \in Contents : e.key = k /\ Taken(e)})
View == [k \in {u \in UserKeys : Newest(u).type = "kTypeValue"} |-> Newest(k).seq]

Snapshot == INSTANCE Cursor WITH
    Targets <- UserKeys, view <- View, position <- shown, ok <- status

\* Through the layers of iterators, in both directions and with every change of
\* direction, while writers insert and some block cannot be read, the iterator
\* is a cursor over the keys of its snapshot: it shows each key's newest value,
\* no deleted key, or it reports an error.
ImplementsCursor == Snapshot!CursorSpec

\* Where iter_ is left between operations, as the comment on Direction says: on
\* the entry shown, or before all entries of the key shown with no entry of the
\* snapshot in between.
PositionDocumented ==
    pc = "idle" /\ valid_ /\ status =>
        IF direction_ = "kForward"
        THEN Taken(MergedKey(iter_)) /\ MergedKey(iter_).type = "kTypeValue"
        ELSE /\ MergedKey(iter_).key < saved_key_
             /\ \A e \in Contents : e.key < saved_key_ /\ Taken(e) => AtMost(e, MergedKey(iter_))
=============================================================================
