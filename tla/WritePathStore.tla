--------------------------- MODULE WritePathStore ---------------------------
(***************************************************************************)
(* The write path implements the key-value store of KVStore: proved for    *)
(* any number of writers, readers, keys and memtables.                     *)
(***************************************************************************)
EXTENDS WritePathProofs

\* Zenon proves the leaves; those with arithmetic or records name SMT.  Each
\* has a second try with a longer limit, for a slow machine.
USE Zenon, ZenonT(40), SMTT(40)

(***************************************************************************)
(* What a read sees                                                        *)
(***************************************************************************)
\* What the memtables t have, and what of it a Get g works with.
Written(t) == UNION {t[i] : i \in Tables}
SeenBy(g, t) == t[g.mem] \cup (IF g.imm = NULL THEN {} ELSE t[g.imm]) \cup UNION {t[i] : i \in g.current}

\* Entries above the snapshot do not matter to a read.
LEMMA NewestSame ==
    ASSUME NEW S, NEW T, NEW k, NEW s,
           \A e \in S \cup T : e.seq <= s => (e \in S <=> e \in T)
    PROVE  Newest(S, k, s) = Newest(T, k, s)
<1>1. {x \in S : x.key = k /\ x.seq <= s} = {x \in T : x.key = k /\ x.seq <= s}
  OBVIOUS
<1> QED
  BY <1>1 DEF Newest

\* A source that has no visible entry does not matter.
LEMMA NewestRest ==
    ASSUME DataFacts, NEW S \in SUBSET Entries, NEW T \in SUBSET Entries, NEW k, NEW s \in Nat,
           Newest(S, k, s) = 0
    PROVE  Newest(S \cup T, k, s) = Newest(T, k, s)
<1>1. \A x \in S : ~(x.key = k /\ x.seq <= s)
  BY NewestIs, SMT, SMTT(40) DEF Entries
<1>2. {x \in S \cup T : x.key = k /\ x.seq <= s} = {x \in T : x.key = k /\ x.seq <= s}
  BY <1>1
<1> QED
  BY <1>2 DEF Newest

\* The entries of T are older than those of S.
Older(T, S) == \A e \in T, f \in S : e.seq < f.seq

\* A source whose entries are newer than those of the rest hides the rest.
LEMMA NewestFirst ==
    ASSUME DataFacts, NEW S \in SUBSET Entries, NEW T \in SUBSET Entries, NEW k, NEW s \in Nat,
           Newest(S, k, s) # 0, Older(T, S)
    PROVE  Newest(S \cup T, k, s) = Newest(S, k, s)
<1> DEFINE v == Newest(S, k, s)
           u == Newest(S \cup T, k, s)
<1>1. PICK f \in S : f.key = k /\ f.seq = v /\ f.seq <= s
  BY NewestIs
<1>2. S \cup T \in SUBSET Entries
  OBVIOUS
<1>3. u \in Nat /\ f.seq <= u
  BY <1>1, <1>2, NewestIs
<1>4. v \in Nat /\ v # 0
  BY NewestIs
<1>5. PICK e \in S \cup T : e.key = k /\ e.seq = u /\ e.seq <= s
  <2>1. u # 0
    BY <1>1, <1>3, <1>4, SMT, SMTT(40)
  <2> HIDE DEF u
  <2> QED
    BY <1>2, <2>1, NewestIs DEF u
<1>6. e \in S => e.seq <= v
  BY <1>5, NewestIs
<1>7. e \in T => e.seq < f.seq
  BY <1>1 DEF Older
<1> HIDE DEF u, v
<1>8. u = v
  BY <1>1, <1>3, <1>4, <1>5, <1>6, <1>7, SMT, SMTT(40)
<1> QED
  BY <1>8 DEF u, v

\* The database is in the memtables: a table file has what its memtable had.
StoreInv == LiveEntries = Written(tables) /\ LiveEntries \in SUBSET Entries

\* So it is in every state.
LEMMA LiveIs == WInv => StoreInv
<1> SUFFICES ASSUME WInv PROVE StoreInv
  OBVIOUS
<1> USE DEF WInv
<1>1. mem_ \in Tables /\ imm_ \in Tables \cup {NULL} /\ flushed \in SUBSET Tables
  BY DEF CallsInv, IInv, TypeOK, VersionTypes
<1>2. \A t \in Tables : t < Oldest => t \in flushed
  BY DEF CallsInv, IInv, FlushOrder
<1>3. imm_ # NULL => mem_ = imm_ + 1
  BY DEF CallsInv, IInv, FlushOrder
<1>4. \A t \in Tables : t \in flushed \/ t = mem_ \/ t = imm_ \/ t > mem_
  BY <1>1, <1>2, <1>3, BackgroundAssumption, SMT, SMTT(40) DEF Oldest, Tables, BackgroundAssumption
<1>5. \A t \in Tables : t > mem_ => tables[t] = {}
  BY DEF SeqInv
<1>6. UNION {sst[t] : t \in flushed} = UNION {tables[t] : t \in flushed}
  BY DEF FilesInv
<1>7. NULL \notin Tables
  BY BackgroundAssumption, SMT, SMTT(40) DEF BackgroundAssumption, Tables
<1>8. LiveEntries = Written(tables)
  BY <1>1, <1>4, <1>5, <1>6, <1>7, SMT, SMTT(40) DEF LiveEntries, Written
<1>9. Written(tables) \in SUBSET Entries
  BY DEF Written, DataTypes
<1> QED
  BY <1>8, <1>9 DEF StoreInv

\* No step changes what is at or below LastSequence().
LEMMA TablesBelow ==
    ASSUME CallsInv, DataTypes, DataStep, NEW t \in Tables, NEW e, e.seq <= last_sequence
    PROVE  e \in tables'[t] <=> e \in tables[t]
<1>1. CASE UNCHANGED tables
  BY <1>1
<1>2. ASSUME NEW w \in Writers, InsertInto(w)
      PROVE  e \in tables'[t] <=> e \in tables[t]
  <2>1. CASE UNCHANGED <<tables, group>>
    BY <2>1
  <2>2. CASE ~UNCHANGED <<tables, group>>
    <3>1. /\ group.done + 1 \in 1..Len(group.keys)
          /\ tables'[mem_] = tables[mem_] \cup {Entry(group.done + 1)}
          /\ t # mem_ => tables'[t] = tables[t]
      BY <1>2, <2>2, Inserted
    <3>2. Entry(group.done + 1).seq = last_sequence + (group.done + 1)
      BY <1>2, <3>1, EntryType DEF InsertInto, Grouped
    <3>3. last_sequence \in Nat /\ group.done \in Nat
      BY DEF CallsInv, GroupInv, GroupTypes
    <3>4. e # Entry(group.done + 1)
      BY <3>2, <3>3, SMT, SMTT(40)
    <3> QED
      BY <3>1, <3>4
  <2> QED
    BY <2>1, <2>2
<1>3. UNCHANGED tables \/ \E w \in Writers : InsertInto(w)
  BY DEF DataStep, ReaderStep, LeaderStep, Quiet, KeepsData, Switch, FlushFrame, AddRecord, Sync, Publish
<1> QED
  BY <1>1, <1>2, <1>3

\* Until LastSequence() moves, the database has the same value for every key.
LEMMA StoreSame ==
    ASSUME WInv, StoreInv, StoreInv', DataStep, last_sequence' = last_sequence, NEW k
    PROVE  Newest(LiveEntries', k, last_sequence') = Newest(LiveEntries, k, last_sequence)
<1>1. LiveEntries = Written(tables) /\ LiveEntries' = Written(tables')
  BY DEF StoreInv
<1>2. \A t \in Tables : \A e : e.seq <= last_sequence => (e \in tables'[t] <=> e \in tables[t])
  BY TablesBelow DEF WInv
<1>3. \A e : e.seq <= last_sequence => (e \in Written(tables') <=> e \in Written(tables))
  BY <1>2 DEF Written
<1>4. Newest(Written(tables'), k, last_sequence) = Newest(Written(tables), k, last_sequence)
  BY <1>3, NewestSame, SMT, SMTT(40)
<1> QED
  BY <1>1, <1>4

\* What a Get in progress will return.
AnswerIn(g, t) ==
    <<g.key, IF g.pc \in {"done", "update_stats"} THEN g.value
             ELSE Newest(SeenBy(g, t), g.key, g.snapshot)>>

\* It works with entries of the memtables it pinned, in files or not.
AnswersInv == \A r \in Readers : get[r] # NoGet => Answer(r) = AnswerIn(get[r], tables)

\* So it does in every state.
LEMMA AnswerIs == WInv => AnswersInv
<1> SUFFICES ASSUME WInv, NEW r \in Readers, get[r] # NoGet
             PROVE  Answer(r) = AnswerIn(get[r], tables)
  BY DEF AnswersInv
<1> USE DEF WInv
<1>1. get[r].current \subseteq flushed
  BY DEF ReadInv
<1>2. UNION {sst[t] : t \in get[r].current} = UNION {tables[t] : t \in get[r].current}
  BY <1>1 DEF FilesInv
<1> QED
  BY <1>2 DEF Answer, AnswerIn, SeenBy

\* A Get in progress, and the memtables it uses.
LEMMA GetType ==
    ASSUME CallsInv, DataTypes, ReadInv, NEW r \in Readers, get[r] # NoGet
    PROVE  /\ get[r] \in GetStates
           /\ get[r].mem \in Tables /\ get[r].imm \in Tables \cup {NULL}
           /\ get[r].current \in SUBSET Tables
           /\ get[r].snapshot \in Nat /\ get[r].snapshot <= last_sequence
           /\ tables[get[r].mem] \in SUBSET Entries
           /\ get[r].imm # NULL => tables[get[r].imm] \in SUBSET Entries
           /\ UNION {tables[i] : i \in get[r].current} \in SUBSET Entries
<1>1. get[r] \in GetStates /\ get[r].snapshot <= last_sequence
  BY DEF ReadInv
<1>2. /\ get[r].mem \in Tables /\ get[r].imm \in Tables \cup {NULL}
      /\ get[r].current \in SUBSET Tables /\ get[r].snapshot \in Nat
  BY <1>1 DEF GetStates
<1>3. \A t \in Tables : tables[t] \in SUBSET Entries
  BY DEF DataTypes
<1>4. \A i \in get[r].current : tables[i] \in SUBSET Entries
  BY <1>2, <1>3
<1>5. UNION {tables[i] : i \in get[r].current} \in SUBSET Entries
  BY <1>4
<1> QED
  BY <1>1, <1>2, <1>3, <1>5

\* A read at or below LastSequence() of a memtable finds the same after any step.
LEMMA ReadSame ==
    ASSUME CallsInv, DataTypes, DataTypes', DataStep,
           NEW t \in Tables, NEW k, NEW s \in Nat, s <= last_sequence
    PROVE  Newest(tables'[t], k, s) = Newest(tables[t], k, s)
<1>1. last_sequence \in Nat
  BY DEF CallsInv, GroupInv
<1>2. tables[t] \in SUBSET Entries /\ tables'[t] \in SUBSET Entries
  BY DEF DataTypes
<1>3. \A e \in tables'[t] \cup tables[t] : e.seq <= s => e.seq <= last_sequence
  BY <1>1, <1>2, SMT, SMTT(40) DEF Entries
<1> QED
  BY <1>3, TablesBelow, NewestSame, SMT, SMTT(40)

\* A step of another thread does not change what a Get will return.
LEMMA AnswerSame ==
    ASSUME WInv, WInv', AnswersInv, AnswersInv', DataStep, NEW r \in Readers, get'[r] = get[r]
    PROVE  Answer(r)' = Answer(r)
<1>1. CASE get[r] = NoGet
  BY <1>1 DEF Answer
<1>2. CASE get[r] # NoGet
  <2> DEFINE g == get[r]
             S == SeenBy(g, tables)
             T == SeenBy(g, tables')
  <2>1. Answer(r) = AnswerIn(g, tables)
    BY <1>2 DEF AnswersInv
  <2>2. Answer(r)' = AnswerIn(g, tables')
    BY <1>2 DEF AnswersInv
  <2>3. g.mem \in Tables /\ (g.imm # NULL => g.imm \in Tables) /\ g.current \in SUBSET Tables
    BY <1>2, GetType DEF WInv
  <2>4. g.snapshot \in Nat /\ g.snapshot <= last_sequence
    BY <1>2, GetType DEF WInv
  <2>5. \A t \in Tables : \A e : e.seq <= last_sequence => (e \in tables'[t] <=> e \in tables[t])
    BY TablesBelow DEF WInv
  <2> HIDE DEF g
  <2>6. \A e : e.seq <= last_sequence => (e \in T <=> e \in S)
    BY <2>3, <2>5 DEF SeenBy
  <2>7. \A e \in T \cup S : e.seq <= g.snapshot => e.seq <= last_sequence
    <3>1. S \in SUBSET Entries /\ T \in SUBSET Entries
      BY <2>3, SMT, SMTT(40) DEF WInv, DataTypes, SeenBy
    <3>2. last_sequence \in Nat
      BY DEF WInv, CallsInv, GroupInv
    <3> HIDE DEF S, T
    <3> QED
      BY <3>1, <3>2, <2>4, SMT, SMTT(40) DEF Entries
  <2> HIDE DEF S, T
  <2>8. Newest(T, g.key, g.snapshot) = Newest(S, g.key, g.snapshot)
    BY <2>6, <2>7, NewestSame, SMT, SMTT(40)
  <2> QED
    BY <2>1, <2>2, <2>8, SMT, SMTT(40) DEF AnswerIn, S, T
<1> QED
  BY <1>1, <1>2

\* A Get looks into the next source only when the ones before had nothing for it.
FoundInv ==
    \A r \in Readers : get[r] # NoGet =>
        /\ get[r].pc \in {"imm", "current"} =>
              Newest(tables[get[r].mem], get[r].key, get[r].snapshot) = 0
        /\ get[r].pc = "current" /\ get[r].imm # NULL =>
              Newest(tables[get[r].imm], get[r].key, get[r].snapshot) = 0

\* The steps of a Get, field by field.
LEMMA LookupSteps ==
    ASSUME CallsInv, DataTypes, ReadInv, NEW r \in Readers, GetLookup(r)
    PROVE  LET g == get[r]
               h == get'[r]
               v == h.value
           IN  /\ g # NoGet /\ h # NoGet /\ UNCHANGED <<tables, sst>>
               /\ h.key = g.key /\ h.snapshot = g.snapshot
               /\ h.mem = g.mem /\ h.imm = g.imm /\ h.current = g.current
               /\ \/ /\ g.pc = "mem" /\ v = Newest(tables[g.mem], g.key, g.snapshot)
                     /\ \/ v # 0 /\ h.pc = "done"
                        \/ v = 0 /\ h.pc = "imm"
                  \/ /\ g.pc = "imm"
                     /\ v = Newest(IF g.imm = NULL THEN {} ELSE tables[g.imm], g.key, g.snapshot)
                     /\ \/ v # 0 /\ h.pc = "done"
                        \/ v = 0 /\ h.pc = "current"
                  \/ /\ g.pc = "current" /\ h.pc = "update_stats"
                     /\ v = Newest(UNION {sst[t] : t \in g.current}, g.key, g.snapshot)
<1> DEFINE g == get[r]
           src == [mem |-> tables[g.mem],
                   imm |-> IF g.imm = NULL THEN {} ELSE tables[g.imm],
                   current |-> UNION {sst[t] : t \in g.current}]
           v == Newest(src[g.pc], g.key, g.snapshot)
           next == CASE g.pc = "current" -> "update_stats"
                     [] g.pc # "current" /\ v # 0 -> "done"
                     [] g.pc = "mem" /\ v = 0 -> "imm"
                     [] g.pc = "imm" /\ v = 0 -> "current"
<1>1. /\ g.pc \in {"mem", "imm", "current"}
      /\ get' = [get EXCEPT ![r].pc = next, ![r].value = v]
      /\ UNCHANGED <<tables, sst>>
  BY DEF GetLookup, Lookup
<1>2. get \in [Readers -> {NoGet} \cup GetStates] /\ NoGet.pc = "none"
  BY DEF ReadInv, NoGet
<1>3. g # NoGet /\ g \in GetStates
  BY <1>1, <1>2
<1> HIDE DEF next, v
<1>4. get'[r] = [g EXCEPT !.pc = next, !.value = v]
  BY <1>1, <1>2
<1> HIDE DEF g
<1>5. /\ get'[r].pc = next /\ get'[r].value = v
      /\ get'[r].key = g.key /\ get'[r].snapshot = g.snapshot
      /\ get'[r].mem = g.mem /\ get'[r].imm = g.imm /\ get'[r].current = g.current
  BY <1>3, <1>4 DEF GetStates
<1>6. next \in {"update_stats", "done", "imm", "current"}
  BY <1>1 DEF next
<1>7. get'[r] # NoGet
  BY <1>2, <1>5, <1>6
<1>8. CASE g.pc = "mem"
  <2>1. v = Newest(tables[g.mem], g.key, g.snapshot)
    BY <1>8, SMT, SMTT(40) DEF v
  <2>2. (v # 0 => next = "done") /\ (v = 0 => next = "imm")
    BY <1>8 DEF next
  <2> QED
    BY <1>1, <1>3, <1>5, <1>7, <1>8, <2>1, <2>2 DEF g
<1>9. CASE g.pc = "imm"
  <2>1. v = Newest(IF g.imm = NULL THEN {} ELSE tables[g.imm], g.key, g.snapshot)
    BY <1>9, SMT, SMTT(40) DEF v
  <2>2. (v # 0 => next = "done") /\ (v = 0 => next = "current")
    BY <1>9 DEF next
  <2> QED
    BY <1>1, <1>3, <1>5, <1>7, <1>9, <2>1, <2>2 DEF g
<1>10. CASE g.pc = "current"
  <2>1. v = Newest(UNION {sst[t] : t \in g.current}, g.key, g.snapshot)
    BY <1>10, SMT, SMTT(40) DEF v
  <2>2. next = "update_stats"
    BY <1>10 DEF next
  <2> QED
    BY <1>1, <1>3, <1>5, <1>7, <1>10, <2>1, <2>2 DEF g
<1> QED
  BY <1>1, <1>8, <1>9, <1>10

\* A lookup finds what the Get would have found in all its sources together: the
\* memtables and the version are in the order of their sequence numbers.
LEMMA LookupAnswer ==
    ASSUME DataFacts, WInv, AnswersInv, AnswersInv', FoundInv, NEW r \in Readers, GetLookup(r)
    PROVE  Answer(r)' = Answer(r)
<1> DEFINE g == get[r]
           h == get'[r]
           A == tables[g.mem]
           B == IF g.imm = NULL THEN {} ELSE tables[g.imm]
           C == UNION {tables[i] : i \in g.current}
           N(S) == Newest(S, g.key, g.snapshot)
<1>1. /\ g # NoGet /\ h # NoGet /\ UNCHANGED <<tables, sst>>
      /\ h.key = g.key /\ h.snapshot = g.snapshot
      /\ h.mem = g.mem /\ h.imm = g.imm /\ h.current = g.current
  BY LookupSteps DEF WInv
<1>2. Answer(r) = AnswerIn(g, tables) /\ Answer(r)' = AnswerIn(h, tables)
  BY <1>1 DEF AnswersInv
<1>3. SeenBy(g, tables) = A \cup (B \cup C) /\ SeenBy(h, tables) = A \cup (B \cup C)
  BY <1>1 DEF SeenBy
<1>4. g.pc \in {"mem", "imm", "current"}
  BY DEF GetLookup
<1>5. \/ g.pc = "mem" /\ h.value = N(A) /\ (h.pc = "imm" \/ (h.pc = "done" /\ h.value # 0))
      \/ g.pc = "imm" /\ h.value = N(B) /\ (h.pc = "current" \/ (h.pc = "done" /\ h.value # 0))
      \/ g.pc = "current" /\ h.value = N(C) /\ h.pc = "update_stats"
  <2>1. C = UNION {sst[t] : t \in g.current}
    BY <1>1 DEF WInv, ReadInv, FilesInv
  <2> QED
    BY <2>1, LookupSteps DEF WInv
<1>6. /\ A \in SUBSET Entries /\ B \in SUBSET Entries /\ C \in SUBSET Entries
      /\ g.snapshot \in Nat
  BY <1>1, GetType DEF WInv
<1>7. /\ g.mem \in Tables /\ (g.imm # NULL => g.imm \in Tables) /\ g.current \in SUBSET Tables
      /\ g.imm # NULL => g.imm < g.mem
      /\ \A t \in g.current : t < g.mem /\ (g.imm # NULL => t < g.imm)
  BY <1>1, GetType DEF WInv, ReadInv
<1>8. \A t, u \in Tables : t < u => \A e \in tables[t], f \in tables[u] : e.seq < f.seq
  BY DEF WInv, SeqInv
<1>9. /\ g.pc \in {"imm", "current"} => N(A) = 0
      /\ g.pc = "current" => N(B) = 0
  <2>1. g.pc = "current" /\ g.imm = NULL => N(B) = 0
    BY <1>6, NewestIs, SMT, SMTT(40)
  <2> QED
    BY <1>1, <2>1 DEF FoundInv
<1> HIDE DEF g
<1>10. Older(B \cup C, A)
  BY <1>7, <1>8 DEF Older
<1>11. Older(C, B)
  BY <1>7, <1>8 DEF Older
<1> HIDE DEF A, B, C
<1>12. B \cup C \in SUBSET Entries
  BY <1>6
<1>13. N(A) # 0 => N(A \cup (B \cup C)) = N(A)
  BY <1>6, <1>10, <1>12, NewestFirst, SMT, SMTT(40)
<1>14. N(A) = 0 => N(A \cup (B \cup C)) = N(B \cup C)
  BY <1>6, <1>12, NewestRest, SMT, SMTT(40)
<1>15. N(B) # 0 => N(B \cup C) = N(B)
  BY <1>6, <1>11, NewestFirst, SMT, SMTT(40)
<1>16. N(B) = 0 => N(B \cup C) = N(C)
  BY <1>6, NewestRest, SMT, SMTT(40)
<1> HIDE DEF h, N
<1>17. h.pc \in {"done", "update_stats"} => h.value = N(A \cup (B \cup C))
  BY <1>5, <1>9, <1>13, <1>14, <1>15, <1>16
<1>18. AnswerIn(g, tables) = <<g.key, N(A \cup (B \cup C))>>
  BY <1>3, <1>4 DEF AnswerIn, N
<1>19. AnswerIn(h, tables) = <<g.key, N(A \cup (B \cup C))>>
  BY <1>1, <1>3, <1>17 DEF AnswerIn, N
<1> QED
  BY <1>2, <1>18, <1>19

\* What a Get has not found stays unfound.
LEMMA FoundNext ==
    ASSUME DataFacts, WInv, WInv', FoundInv, DataStep
    PROVE  FoundInv'
<1> SUFFICES ASSUME NEW r \in Readers, get'[r] # NoGet
             PROVE  /\ get'[r].pc \in {"imm", "current"} =>
                          Newest(tables'[get'[r].mem], get'[r].key, get'[r].snapshot) = 0
                    /\ get'[r].pc = "current" /\ get'[r].imm # NULL =>
                          Newest(tables'[get'[r].imm], get'[r].key, get'[r].snapshot) = 0
  BY DEF FoundInv
<1> USE DEF WInv
<1>1. CASE get'[r] = get[r]
  <2> DEFINE g == get[r]
  <2>1. /\ g # NoGet /\ g.mem \in Tables /\ (g.imm # NULL => g.imm \in Tables)
        /\ g.snapshot \in Nat /\ g.snapshot <= last_sequence
    BY <1>1, GetType
  <2>2. Newest(tables'[g.mem], g.key, g.snapshot) = Newest(tables[g.mem], g.key, g.snapshot)
    BY <2>1, ReadSame
  <2>3. g.imm # NULL =>
          Newest(tables'[g.imm], g.key, g.snapshot) = Newest(tables[g.imm], g.key, g.snapshot)
    BY <2>1, ReadSame
  <2> HIDE DEF WInv
  <2> QED
    BY <1>1, <2>1, <2>2, <2>3 DEF FoundInv
<1>2. CASE GetLookup(r)
  <2> DEFINE g == get[r]
             h == get'[r]
             N(t) == Newest(tables[t], g.key, g.snapshot)
  <2>1. /\ g # NoGet /\ UNCHANGED tables /\ h.key = g.key /\ h.snapshot = g.snapshot
        /\ h.mem = g.mem /\ h.imm = g.imm
    BY <1>2, LookupSteps
  <2>2. /\ h.pc = "imm" => N(g.mem) = 0
        /\ h.pc = "current" => g.pc = "imm" /\ (g.imm # NULL => N(g.imm) = 0)
    BY <1>2, LookupSteps
  <2>3. g.pc = "imm" => N(g.mem) = 0
    BY <2>1 DEF FoundInv
  <2> QED
    BY <2>1, <2>2, <2>3
<1>3. CASE GetBegin(r) \/ GetEnd(r)
  <2>1. get'[r].pc = "mem"
    BY <1>3, SMT, SMTT(40) DEF GetBegin, GetEnd, ReadInv
  <2> QED
    BY <2>1
<1>4. get'[r] = get[r] \/ GetLookup(r) \/ GetBegin(r) \/ GetEnd(r)
  <2>1. UNCHANGED get \/ \E q \in Readers : ReaderStep(q)
    BY DEF DataStep, LeaderStep, Switch, FlushFrame, AddRecord, Sync, InsertInto, Publish
  <2>2. ASSUME NEW q \in Readers, ReaderStep(q)
        PROVE  get'[r] = get[r] \/ GetLookup(r) \/ GetBegin(r) \/ GetEnd(r)
    BY <2>2, GetSteps DEF ReaderStep
  <2> QED
    BY <2>1, <2>2
<1> QED
  BY <1>1, <1>2, <1>3, <1>4
-----------------------------------------------------------------------------
(***************************************************************************)
(* The steps of the store                                                  *)
(***************************************************************************)
\* What an operation on the store leaves alone.
SameStore ==
    /\ \A k \in Keys : Newest(LiveEntries', k, last_sequence') = Newest(LiveEntries, k, last_sequence)
    /\ last_sequence' = last_sequence
SameAnswers == \A r \in Readers : Answer(r)' = Answer(r)
SameCalls == \A w \in Writers : CallStatus(w)' = CallStatus(w)
SameBatches == \A w \in Writers : KeysOf(w)' = KeysOf(w)

\* A step of the write path that the callers do not see.
LEMMA StepHidden ==
    ASSUME SameStore, SameAnswers, SameCalls, SameBatches
    PROVE  UNCHANGED KV!kvVars
<1>1. UNCHANGED [k \in Keys |-> Newest(LiveEntries, k, last_sequence)]
  BY DEF SameStore
<1>2. UNCHANGED [w \in Writers |-> CallStatus(w)]
  BY DEF SameCalls
<1>3. UNCHANGED [w \in Writers |-> KeysOf(w)]
  BY DEF SameBatches
<1>4. UNCHANGED [r \in Readers |-> Answer(r)]
  BY DEF SameAnswers
<1> QED
  BY <1>1, <1>2, <1>3, <1>4 DEF KV!kvVars, SameStore

\* A call of Write or TEST_CompactMemTable submits its batch.
LEMMA CallSubmits ==
    ASSUME QueueTypes, NEW w \in Writers, Call(w), SameStore, SameAnswers
    PROVE  KV!KVNext
<1>1. CallStatus(w) = "idle" /\ CallStatus(w)' = "pending"
  BY DEF Call, CallStatus, QueueTypes
<1>2. \A v \in Writers : v # w => CallStatus(v)' = CallStatus(v) /\ KeysOf(v)' = KeysOf(v)
  BY DEF Call, CallStatus, KeysOf, QueueTypes
<1>3. KeysOf(w)' \in Batches \cup {<<>>}
  BY SMT, SMTT(40) DEF Call, KeysOf, QueueTypes
<1>4. UNCHANGED [k \in Keys |-> Newest(LiveEntries, k, last_sequence)]
  BY DEF SameStore
<1>5. UNCHANGED [r \in Readers |-> Answer(r)]
  BY DEF SameAnswers
<1>6. [v \in Writers |-> CallStatus(v)]' = [[v \in Writers |-> CallStatus(v)] EXCEPT ![w] = "pending"]
  BY <1>1, <1>2
<1>7. [v \in Writers |-> KeysOf(v)]' = [[v \in Writers |-> KeysOf(v)] EXCEPT ![w] = KeysOf(w)']
  BY <1>2
<1>8. KV!Submit(w)
  BY <1>1, <1>3, <1>4, <1>5, <1>6, <1>7 DEF KV!Submit, SameStore
<1>9. [v \in Writers |-> CallStatus(v)]' # [v \in Writers |-> CallStatus(v)]
  BY <1>1
<1> QED
  BY <1>8, <1>9 DEF KV!KVNext

\* A writer that was answered returns.
LEMMA CallReturns ==
    ASSUME NEW w \in Writers, CallStatus(w) \in {"ok", "err"}, CallStatus(w)' = "idle",
           \A v \in Writers : v # w => CallStatus(v)' = CallStatus(v),
           SameStore, SameAnswers, SameBatches
    PROVE  KV!KVNext
<1>1. UNCHANGED [k \in Keys |-> Newest(LiveEntries, k, last_sequence)]
  BY DEF SameStore
<1>2. UNCHANGED [r \in Readers |-> Answer(r)] /\ UNCHANGED [v \in Writers |-> KeysOf(v)]
  BY DEF SameAnswers, SameBatches
<1>3. [v \in Writers |-> CallStatus(v)]' = [[v \in Writers |-> CallStatus(v)] EXCEPT ![w] = "idle"]
  OBVIOUS
<1>4. KV!Return(w)
  BY <1>1, <1>2, <1>3 DEF KV!Return, SameStore
<1>5. [v \in Writers |-> CallStatus(v)]' # [v \in Writers |-> CallStatus(v)]
  OBVIOUS
<1> QED
  BY <1>4, <1>5 DEF KV!KVNext

\* A Get takes effect where it takes its snapshot.
LEMMA GetBegins ==
    ASSUME WInv, AnswersInv', StoreInv, NEW r \in Readers, GetBegin(r),
           SameStore, SameCalls, SameBatches, \A q \in Readers : q # r => Answer(q)' = Answer(q)
    PROVE  KV!KVNext
<1>1. PICK k \in Keys :
         get' = [get EXCEPT ![r] = [pc |-> "mem", key |-> k, snapshot |-> last_sequence,
                    mem |-> mem_, imm |-> imm_, current |-> flushed, value |-> 0]]
  BY DEF GetBegin
<1>2. get \in [Readers -> {NoGet} \cup GetStates] /\ get[r] = NoGet /\ UNCHANGED tables
  BY DEF WInv, ReadInv, GetBegin
<1> DEFINE g == [pc |-> "mem", key |-> k, snapshot |-> last_sequence,
                 mem |-> mem_, imm |-> imm_, current |-> flushed, value |-> 0]
<1>3. get'[r] = g /\ g # NoGet
  BY <1>1, <1>2 DEF NoGet
<1>4. Answer(r) = <<>>
  BY <1>2 DEF Answer
<1>5. Answer(r)' = AnswerIn(g, tables)
  BY <1>2, <1>3 DEF AnswersInv
<1>6. SeenBy(g, tables) = LiveEntries
  BY SMT, SMTT(40) DEF SeenBy, LiveEntries, WInv, FilesInv
<1>7. AnswerIn(g, tables) = <<k, Newest(LiveEntries, k, last_sequence)>>
  BY <1>6 DEF AnswerIn
<1>8. Answer(r)' = <<k, Newest(LiveEntries, k, last_sequence)>>
  BY <1>5, <1>7
<1>9. UNCHANGED [i \in Keys |-> Newest(LiveEntries, i, last_sequence)]
  BY DEF SameStore
<1>10. UNCHANGED [v \in Writers |-> CallStatus(v)] /\ UNCHANGED [v \in Writers |-> KeysOf(v)]
  BY DEF SameCalls, SameBatches
<1>11. [q \in Readers |-> Answer(q)]' = [[q \in Readers |-> Answer(q)] EXCEPT ![r] =
                                           <<k, Newest(LiveEntries, k, last_sequence)>>]
  BY <1>8
<1>12. KV!BeginGet(r, k)
  BY <1>4, <1>9, <1>10, <1>11 DEF KV!BeginGet, SameStore
<1>13. [q \in Readers |-> Answer(q)]' # [q \in Readers |-> Answer(q)]
  BY <1>4, <1>8, SMT, SMTT(40)
<1> QED
  BY <1>12, <1>13 DEF KV!KVNext

\* It returns what it answered then.
LEMMA GetEnds ==
    ASSUME WInv, AnswersInv, NEW r \in Readers, GetEnd(r),
           SameStore, SameCalls, SameBatches, \A q \in Readers : q # r => Answer(q)' = Answer(q)
    PROVE  KV!KVNext
<1>1. get \in [Readers -> {NoGet} \cup GetStates] /\ get' = [get EXCEPT ![r] = NoGet]
  BY DEF WInv, ReadInv, GetEnd
<1>2. get[r] # NoGet /\ get'[r] = NoGet
  BY <1>1, SMT, SMTT(40) DEF GetEnd, NoGet
<1>3. Answer(r)' = <<>>
  BY <1>2 DEF Answer
<1>4. Answer(r) = AnswerIn(get[r], tables)
  BY <1>2 DEF AnswersInv
<1>5. Answer(r) # <<>>
  BY <1>4, SMT, SMTT(40) DEF AnswerIn
<1>6. UNCHANGED [i \in Keys |-> Newest(LiveEntries, i, last_sequence)]
  BY DEF SameStore
<1>7. UNCHANGED [v \in Writers |-> CallStatus(v)] /\ UNCHANGED [v \in Writers |-> KeysOf(v)]
  BY DEF SameCalls, SameBatches
<1>8. [q \in Readers |-> Answer(q)]' = [[q \in Readers |-> Answer(q)] EXCEPT ![r] = <<>>]
  BY <1>3
<1>9. KV!EndGet(r)
  BY <1>5, <1>6, <1>7, <1>8 DEF KV!EndGet, SameStore
<1>10. [q \in Readers |-> Answer(q)]' # [q \in Readers |-> Answer(q)]
  BY <1>3, <1>5
<1> QED
  BY <1>9, <1>10 DEF KV!KVNext

\* Of the entries S, those above n are the updates u, numbered from n + 1.
Numbered(S, u, n) ==
    /\ \A i \in 1..Len(u) : \E e \in S : e.key = u[i] /\ e.seq = n + i
    /\ \A e \in S : e.seq <= n \/ \E i \in 1..Len(u) : e.key = u[i] /\ e.seq = n + i

\* The last update of k in u is at p.
LastAt(u, k, p) == p \in 1..Len(u) /\ u[p] = k /\ \A j \in 1..Len(u) : u[j] = k => j <= p

\* The updates u, numbered from n + 1, become visible together: a key has the
\* number of its last update among them, or the value it had.
LEMMA NewestApplied ==
    ASSUME DataFacts, NEW S \in SUBSET Entries, NEW k, NEW n \in Nat, NEW u \in Seq(Keys), Numbered(S, u, n)
    PROVE  /\ (\A i \in 1..Len(u) : u[i] # k) => Newest(S, k, n + Len(u)) = Newest(S, k, n)
           /\ \A p : LastAt(u, k, p) => Newest(S, k, n + Len(u)) = n + p
<1>1. Len(u) \in Nat
  BY SMT, SMTT(40)
<1> DEFINE L == Len(u)
<1> HIDE DEF L
<1>2. L \in Nat /\ n + L \in Nat
  BY <1>1, SMT, SMTT(40) DEF L
<1>3. ASSUME \A i \in 1..L : u[i] # k
      PROVE  Newest(S, k, n + L) = Newest(S, k, n)
  <2>1. {x \in S : x.key = k /\ x.seq <= n + L} = {x \in S : x.key = k /\ x.seq <= n}
    BY <1>2, <1>3, SMT, SMTT(40) DEF L, Entries, Numbered
  <2> QED
    BY <2>1 DEF Newest
<1>4. ASSUME NEW p \in 1..L, LastAt(u, k, p)
      PROVE  Newest(S, k, n + L) = n + p
  <2> DEFINE v == Newest(S, k, n + L)
  <2>1. PICK e \in S : e.key = k /\ e.seq = n + p
    BY <1>4 DEF L, Numbered, LastAt
  <2>2. e.seq <= n + L
    BY <1>2, <2>1, SMT, SMTT(40)
  <2>3. v \in Nat /\ e.seq <= v
    BY <1>2, <2>1, <2>2, NewestIs
  <2>4. v # 0
    BY <1>2, <2>1, <2>3, SMT, SMTT(40)
  <2>5. v = 0 \/ \E f \in S : f.key = k /\ f.seq = v /\ f.seq <= n + L
    BY <1>2, NewestIs
  <2> HIDE DEF v
  <2>6. PICK f \in S : f.key = k /\ f.seq = v
    BY <2>4, <2>5
  <2>7. f.seq <= n \/ \E i \in 1..L : f.key = u[i] /\ f.seq = n + i
    BY DEF L, Numbered
  <2>8. v <= n \/ \E i \in 1..L : i <= p /\ v = n + i
    BY <1>4, <2>6, <2>7 DEF L, LastAt
  <2>9. v = n + p
    BY <1>2, <2>1, <2>3, <2>8, SMT, SMTT(40)
  <2> QED
    BY <2>9 DEF v
<1> QED
  BY <1>3, <1>4 DEF L, LastAt

\* What Publish does to the store: nothing if the write failed, else the updates
\* of the group take effect in their order.
LEMMA PublishStore ==
    ASSUME DataFacts, WInv, StoreInv, StoreInv', NEW w \in Writers, Publish(w), NEW k
    PROVE  LET N(s) == Newest(LiveEntries, k, s)
               u == group.keys
               M == Newest(LiveEntries', k, last_sequence')
           IN  /\ group.status # "ok" => M = N(last_sequence)
               /\ group.status = "ok" =>
                     /\ (\A i \in 1..Len(u) : u[i] # k) => M = N(last_sequence)
                     /\ \A p : LastAt(u, k, p) => M = last_sequence + p
<1>1. wpc[w] = "publish" /\ wpc[w] \in Grouped /\ UNCHANGED tables
      /\ last_sequence' = last_sequence + Len(group.keys)
  BY DEF Publish, Grouped
<1>2. LeaderInv(w) /\ last_sequence \in Nat /\ group.keys \in Seq(Keys) /\ group.done \in Nat
  BY <1>1 DEF WInv, CallsInv, GroupInv, GroupTypes
<1>3. LiveEntries' = LiveEntries /\ LiveEntries = Written(tables) /\ LiveEntries \in SUBSET Entries
  BY <1>1 DEF StoreInv
<1>4. \A e \in LiveEntries : e.seq <= last_sequence \/ \E i \in 1..group.done : e = Entry(i)
  BY <1>2, <1>3, SMT, SMTT(40) DEF WInv, SeqInv, Written, Entries
<1>5. CASE group.status # "ok"
  <2>1. group.done = 0
    BY <1>2, <1>5 DEF LeaderInv
  <2>2. \A e \in LiveEntries : e.seq <= last_sequence
    BY <1>4, <2>1, SMT, SMTT(40)
  <2>3. Len(group.keys) \in Nat
    BY <1>2, SMT, SMTT(40)
  <2>4. \A e \in LiveEntries : e.seq <= last_sequence'
    BY <1>1, <1>2, <1>3, <2>2, <2>3, SMT, SMTT(40) DEF Entries
  <2>5. {x \in LiveEntries : x.key = k /\ x.seq <= last_sequence'}
          = {x \in LiveEntries : x.key = k /\ x.seq <= last_sequence}
    BY <2>2, <2>4
  <2> QED
    BY <1>3, <1>5, <2>5 DEF Newest
<1>6. CASE group.status = "ok"
  <2>1. group.done = Len(group.keys)
    BY <1>1, <1>2, <1>6 DEF LeaderInv
  <2>2. \A i \in 1..Len(group.keys) : Entry(i).key = group.keys[i] /\ Entry(i).seq = last_sequence + i
    BY <1>1, EntryType DEF WInv, Entry
  <2>3. \A i \in 1..Len(group.keys) : Entry(i) \in LiveEntries
    <3>1. mem_ \in Tables
      BY DEF WInv, CallsInv, IInv, TypeOK, VersionTypes
    <3>2. \A i \in 1..Len(group.keys) : Entry(i) \in tables[mem_]
      BY <2>1 DEF WInv, SeqInv
    <3> QED
      BY <1>3, <3>1, <3>2 DEF Written
  <2> HIDE DEF Entry
  <2>4. \A i \in 1..Len(group.keys) : \E e \in LiveEntries : e.key = group.keys[i] /\ e.seq = last_sequence + i
    BY <2>2, <2>3
  <2>5. \A e \in LiveEntries : \/ e.seq <= last_sequence
                               \/ \E i \in 1..Len(group.keys) : e.key = group.keys[i] /\ e.seq = last_sequence + i
    BY <1>4, <2>1, <2>2
  <2>6. Numbered(LiveEntries, group.keys, last_sequence)
    BY <2>4, <2>5 DEF Numbered
  <2> DEFINE u == group.keys
             S == LiveEntries
             n == last_sequence
  <2>7. S \in SUBSET Entries /\ n \in Nat /\ u \in Seq(Keys) /\ Numbered(S, u, n)
    BY <1>2, <1>3, <2>6
  <2> HIDE DEF u, S, n
  <2>8. /\ (\A i \in 1..Len(u) : u[i] # k) => Newest(S, k, n + Len(u)) = Newest(S, k, n)
        /\ \A p : LastAt(u, k, p) => Newest(S, k, n + Len(u)) = n + p
    BY <2>7, NewestApplied
  <2> QED
    BY <1>1, <1>3, <1>6, <2>8 DEF u, S, n
<1> QED
  BY <1>5, <1>6

\* The first n writers of a queue, as the store has them.
First(q, n) == [i \in 1..n |-> q[i]]

\* The first writers of a queue are a group of the store.
LEMMA GroupOfStore ==
    ASSUME DataFacts, NEW w, NEW q, AtFront(w, q), NEW n \in 1..Len(q)
    PROVE  /\ First(q, n) \in KV!Groups
           /\ Len(First(q, n)) = n
           /\ KV!Range(First(q, n)) = {q[i] : i \in 1..n}
           /\ {q[i] : i \in 1..n} \subseteq Writers
<1>1. q \in Seq(Writers) /\ Len(q) \in Nat /\ \A i, j \in 1..Len(q) : q[i] = q[j] => i = j
  BY SMT, SMTT(40) DEF AtFront
<1> DEFINE f == First(q, n)
<1>2. f \in [1..n -> Writers] /\ \A i \in 1..n : f[i] = q[i]
  BY <1>1, SMT, SMTT(40) DEF First
<1>3. Len(f) = n
  BY <1>1, SMT, SMTT(40) DEF First
<1> HIDE DEF f
<1>4. \A i, j \in 1..n : f[i] = f[j] => i = j
  BY <1>1, <1>2, SMT, SMTT(40)
<1>5. DOMAIN f = 1..n
  BY <1>2
<1>6. KV!IsInjective(f)
  BY <1>4, <1>5 DEF KV!IsInjective
<1>7. KV!Cardinality(Writers) = Cardinality(Writers)
  BY DEF KV!Cardinality, Cardinality
<1>8. n \in Nat /\ 1 <= n
  BY <1>1, SMT, SMTT(40)
<1>9. Cardinality(Writers) \in Nat /\ n <= Cardinality(Writers)
  BY <1>2, <1>4, <1>8 DEF DataFacts
<1>10. n \in 1..KV!Cardinality(Writers)
  BY <1>7, <1>8, <1>9, SMT, SMTT(40)
<1>11. f \in KV!Groups
  BY <1>2, <1>6, <1>10, SMT, SMTT(40) DEF KV!Groups
<1>12. KV!Range(f) = {q[i] : i \in 1..n}
  BY <1>2, <1>5 DEF KV!Range
<1>13. {q[i] : i \in 1..n} \subseteq Writers
  BY <1>1, SMT, SMTT(40)
<1> QED
  BY <1>3, <1>11, <1>12, <1>13 DEF f

\* The updates of the group are those BuildBatchGroup put together.
LEMMA GroupUpdates ==
    ASSUME NEW q, NEW n \in Nat, \A i \in 1..n : q[i] \in Writers, Len(First(q, n)) = n
    PROVE  KV!Updates(First(q, n)) = KeysIn(req, q, n)
<1> DEFINE ws == First(q, n)
           A(f) == [i \in 0..n |->
               IF i = 0 THEN <<>>
               ELSE f[i - 1] \o (IF req[q[i]].batch = NULL THEN <<>> ELSE req[q[i]].batch)]
           B(f) == [i \in 0..Len(ws) |->
               IF i = 0 THEN <<>> ELSE f[i - 1] \o [w \in Writers |-> KeysOf(w)][ws[i]]]
<1>1. ASSUME NEW f PROVE A(f) = B(f)
  <2>1. \A i \in 0..n : i # 0 => i \in 1..n
    BY SMT, SMTT(40)
  <2>2. \A i \in 1..n : ws[i] = q[i]
    BY DEF First
  <2>3. \A i \in 1..n : [w \in Writers |-> KeysOf(w)][ws[i]] = KeysOf(q[i])
    BY <2>2
  <2> HIDE DEF ws
  <2>4. \A i \in 0..n : i # 0 => [w \in Writers |-> KeysOf(w)][ws[i]]
                                   = IF req[q[i]].batch = NULL THEN <<>> ELSE req[q[i]].batch
    BY <2>1, <2>3 DEF KeysOf
  <2>5. Len(ws) = n
    BY DEF ws
  <2> QED
    BY <2>4, <2>5
<1>2. /\ KeysIn(req, q, n) = (CHOOSE f : f = A(f))[n]
      /\ KV!Updates(ws) = (CHOOSE f : f = B(f))[n]
  BY DEF KeysIn, KV!Updates
<1> HIDE DEF A, B, ws
<1>3. (CHOOSE f : f = A(f)) = (CHOOSE f : f = B(f))
  BY <1>1
<1> QED
  BY <1>2, <1>3 DEF ws

\* The calls of a group end with the status st: a follower is told, and returns
\* later; the leader returns at once, or waits as TEST_CompactMemTable.
LEMMA GroupDone ==
    ASSUME QueueTypes, NEW w \in Writers, NEW q, AtFront(w, q), NEW n \in 1..Len(q),
           NEW st \in {"ok", "err"}, Complete(w, q, n, st), CallStatus(w) = "pending"
    PROVE  /\ \A v \in {q[i] : i \in 1..n} :
                 CallStatus(v) = "pending" /\ CallStatus(v)' \in {st, "idle"}
           /\ \A v \in Writers : v \notin {q[i] : i \in 1..n} => CallStatus(v)' = CallStatus(v)
           /\ CallStatus(w)' # CallStatus(w)
<1> DEFINE F == {q[i] : i \in 2..n}
<1>1. q \in Seq(Writers) /\ Len(q) \in Nat /\ q[1] = w
      /\ \A i, j \in 1..Len(q) : q[i] = q[j] => i = j
  BY SMT, SMTT(40) DEF AtFront
<1>2. w \notin F /\ F \subseteq Writers /\ {q[i] : i \in 1..n} = F \cup {w}
  BY <1>1, SMT, SMTT(40)
<1>3. \A v \in F : wpc[v] = "queued" /\ wres[v] = "none"
  <2> SUFFICES ASSUME NEW i \in 2..n PROVE wpc[q[i]] = "queued" /\ wres[q[i]] = "none"
    OBVIOUS
  <2>1. q[i] \in Writers /\ q[i] # w /\ InQueue(q[i], q)
    BY <1>1, SMT, SMTT(40) DEF InQueue
  <2> QED
    BY <2>1 DEF AtFront
<1>4. /\ \A v \in Writers : wres'[v] = IF v \in F THEN st ELSE wres[v]
      /\ \A v \in Writers : v # w => wpc'[v] = wpc[v]
      /\ wpc'[w] = Returned(w, st)
  BY DEF Complete, QueueTypes
<1>5. wpc'[w] = "idle" \/ (wpc'[w] = "cmt" /\ st = "ok")
  BY <1>4 DEF Returned
<1> HIDE DEF F
<1>6. CallStatus(w)' \in {st, "idle"} /\ CallStatus(w)' # "pending"
  BY <1>5 DEF CallStatus
<1>7. ASSUME NEW v \in F PROVE CallStatus(v) = "pending" /\ CallStatus(v)' = st
  <2>1. v \in Writers /\ v # w
    BY <1>2
  <2>2. wpc'[v] = "queued" /\ wres'[v] = st
    BY <1>3, <1>4, <2>1
  <2>3. CallStatus(v) = "pending"
    BY <1>3 DEF CallStatus
  <2>4. CallStatus(v)' = st
    BY <2>2 DEF CallStatus
  <2> QED
    BY <2>3, <2>4
<1>8. ASSUME NEW v \in Writers, v \notin F, v # w PROVE CallStatus(v)' = CallStatus(v)
  <2>1. wpc'[v] = wpc[v] /\ wres'[v] = wres[v]
    BY <1>4, <1>8
  <2> QED
    BY <2>1 DEF CallStatus
<1> QED
  BY <1>2, <1>6, <1>7, <1>8

\* So the store finishes them.
LEMMA GroupFinishes ==
    ASSUME DataFacts, QueueTypes, NEW w \in Writers, NEW q, AtFront(w, q), NEW n \in 1..Len(q),
           NEW st \in {"ok", "err"}, Complete(w, q, n, st), CallStatus(w) = "pending",
           SameBatches, SameAnswers
    PROVE  /\ KV!Finish(First(q, n), st)
           /\ [v \in Writers |-> CallStatus(v)]' # [v \in Writers |-> CallStatus(v)]
<1> DEFINE G == {q[i] : i \in 1..n}
<1>1. G \subseteq Writers /\ KV!Range(First(q, n)) = G
  BY GroupOfStore
<1>2. /\ \A v \in G : CallStatus(v) = "pending" /\ CallStatus(v)' \in {st, "idle"}
      /\ \A v \in Writers : v \notin G => CallStatus(v)' = CallStatus(v)
      /\ CallStatus(w)' # CallStatus(w)
  BY GroupDone
<1>3. UNCHANGED [v \in Writers |-> KeysOf(v)] /\ UNCHANGED [r \in Readers |-> Answer(r)]
  BY DEF SameBatches, SameAnswers
<1> HIDE DEF G
<1>4. KV!Finish(First(q, n), st)
  BY <1>1, <1>2, <1>3 DEF KV!Finish
<1>5. [v \in Writers |-> CallStatus(v)]' # [v \in Writers |-> CallStatus(v)]
  BY <1>2
<1> QED
  BY <1>4, <1>5

\* A group that failed changes nothing in the store.
LEMMA GroupFails ==
    ASSUME DataFacts, QueueTypes, NEW w \in Writers, NEW q, AtFront(w, q), NEW n \in 1..Len(q),
           Complete(w, q, n, "err"), CallStatus(w) = "pending", SameBatches, SameAnswers,
           \A k \in Keys : Newest(LiveEntries', k, last_sequence') = Newest(LiveEntries, k, last_sequence),
           last_sequence' >= last_sequence
    PROVE  KV!KVNext
<1>1. First(q, n) \in KV!Groups
  BY GroupOfStore
<1>2. /\ KV!Finish(First(q, n), "err")
      /\ [v \in Writers |-> CallStatus(v)]' # [v \in Writers |-> CallStatus(v)]
  BY GroupFinishes
<1>3. UNCHANGED [k \in Keys |-> Newest(LiveEntries, k, last_sequence)]
  OBVIOUS
<1>4. KV!Fail(First(q, n))
  BY <1>2, <1>3 DEF KV!Fail
<1> QED
  BY <1>1, <1>2, <1>4 DEF KV!KVNext

\* A group that is written: its updates take effect one after the other.
LEMMA GroupApplies ==
    ASSUME DataFacts, QueueTypes, NEW w \in Writers, NEW q, AtFront(w, q), NEW n \in 1..Len(q),
           Complete(w, q, n, "ok"), CallStatus(w) = "pending", SameBatches, SameAnswers,
           NEW u \in Seq(Keys), u = KeysIn(req, q, n), last_sequence' = last_sequence + Len(u),
           \A k \in Keys :
              /\ (\A i \in 1..Len(u) : u[i] # k) =>
                    Newest(LiveEntries', k, last_sequence') = Newest(LiveEntries, k, last_sequence)
              /\ \A p : LastAt(u, k, p) => Newest(LiveEntries', k, last_sequence') = last_sequence + p
    PROVE  KV!KVNext
<1> DEFINE ws == First(q, n)
           us == KV!Updates(ws)
           Latest(k) == CHOOSE i \in DOMAIN us : us[i] = k /\ \A j \in DOMAIN us : us[j] = k => j <= i
           N(k) == Newest(LiveEntries, k, last_sequence)
           M(k) == Newest(LiveEntries', k, last_sequence')
<1>1. ws \in KV!Groups /\ Len(ws) = n /\ {q[i] : i \in 1..n} \subseteq Writers
  BY GroupOfStore
<1>2. /\ KV!Finish(ws, "ok")
      /\ [v \in Writers |-> CallStatus(v)]' # [v \in Writers |-> CallStatus(v)]
  BY GroupFinishes
<1>3. KV!Updates(ws) = u
  <2>1. n \in Nat /\ \A i \in 1..n : q[i] \in Writers
    BY <1>1, SMT, SMTT(40) DEF AtFront
  <2> QED
    BY <1>1, <2>1, GroupUpdates
<1>4. /\ us \in Seq(Keys) /\ last_sequence' = last_sequence + Len(us)
      /\ \A k \in Keys : /\ (\A i \in 1..Len(us) : us[i] # k) => M(k) = N(k)
                        /\ \A p : LastAt(us, k, p) => M(k) = last_sequence + p
  BY <1>3
<1> HIDE DEF M, N, us
<1>5. DOMAIN us = 1..Len(us) /\ Len(us) \in Nat
  BY <1>4, SMT, SMTT(40)
<1>6. ASSUME NEW k \in Keys, k \in KV!Range(us) PROVE M(k) = last_sequence + Latest(k)
  <2> DEFINE S == {i \in 1..Len(us) : us[i] = k}
  <2>1. S \subseteq Nat /\ S # {} /\ \A x \in S : x <= Len(us)
    BY <1>5, <1>6, SMT, SMTT(40) DEF KV!Range
  <2>2. Max(S) \in S /\ \A x \in S : x <= Max(S)
    BY <1>5, <2>1, MaxIs
  <2>3. \E i \in DOMAIN us : us[i] = k /\ \A j \in DOMAIN us : us[j] = k => j <= i
    BY <1>5, <2>2
  <2>4. Latest(k) \in DOMAIN us /\ us[Latest(k)] = k /\ \A j \in DOMAIN us : us[j] = k => j <= Latest(k)
    BY <2>3
  <2> HIDE DEF Latest
  <2>5. LastAt(us, k, Latest(k))
    BY <1>5, <2>4 DEF LastAt
  <2> QED
    BY <1>4, <2>5
<1>7. ASSUME NEW k \in Keys, k \notin KV!Range(us) PROVE M(k) = N(k)
  <2>1. \A i \in 1..Len(us) : us[i] # k
    BY <1>5, <1>7 DEF KV!Range
  <2> QED
    BY <1>4, <2>1
<1> HIDE DEF Latest, ws
<1>8. [k \in Keys |-> M(k)] = [k \in Keys |-> IF k \in KV!Range(us) THEN last_sequence + Latest(k)
                                            ELSE [j \in Keys |-> N(j)][k]]
  BY <1>6, <1>7
<1>9. KV!Apply(ws)
  BY <1>2, <1>4, <1>8 DEF KV!Apply, Latest, M, N, us
<1> QED
  BY <1>1, <1>2, <1>9 DEF KV!KVNext

\* A writer without a batch updates nothing.
LEMMA NullUpdates ==
    ASSUME DataFacts, QueueTypes, NEW q \in Seq(Writers), Len(q) >= 1, req[q[1]].batch = NULL
    PROVE  KeysIn(req, q, 1) = <<>>
<1> DEFINE s == [i \in 1..1 |-> KeysOf(q[i])]
           A(f) == [i \in 0..1 |->
               IF i = 0 THEN <<>>
               ELSE f[i - 1] \o (IF req[q[i]].batch = NULL THEN <<>> ELSE req[q[i]].batch)]
           B(f) == [i \in 0..1 |-> IF i = 0 THEN <<>> ELSE f[i - 1] \o s[i]]
<1>1. ASSUME NEW f PROVE A(f) = B(f)
  <2>1. \A i \in 0..1 : i # 0 => s[i] = IF req[q[i]].batch = NULL THEN <<>> ELSE req[q[i]].batch
    BY SMT, SMTT(40) DEF KeysOf
  <2> HIDE DEF s
  <2> QED
    BY <2>1
<1>2. s[1] = <<>>
  BY SMT, SMTT(40) DEF KeysOf
<1>3. KeysIn(req, q, 1) = (CHOOSE f : f = A(f))[1] /\ Concat(s, 1) = (CHOOSE f : f = B(f))[1]
  BY DEF KeysIn, Concat
<1> HIDE DEF A, B, s
<1>4. (CHOOSE f : f = A(f)) = (CHOOSE f : f = B(f))
  BY <1>1
<1>5. Concat(s, 0) = <<>> /\ Concat(s, 0 + 1) = Cat(Concat(s, 0), s[0 + 1])
  BY ConcatNext
<1>6. Concat(s, 1) = Cat(<<>>, <<>>)
  BY <1>2, <1>5, SMT, SMTT(40)
<1>7. Cat(<<>>, <<>>) = <<>>
  BY CatLen, EmptySeq, SMT, SMTT(40) DEF Cat
<1> QED
  BY <1>3, <1>4, <1>6, <1>7
-----------------------------------------------------------------------------
(***************************************************************************)
(* The write path implements the store                                     *)
(***************************************************************************)
MapInv == WInv /\ StoreInv /\ AnswersInv /\ FoundInv

\* What a step leaves alone, by the variables it leaves alone.
LEMMA Frames ==
    ASSUME MapInv, MapInv', DataStep
    PROVE  /\ UNCHANGED last_sequence => SameStore
           /\ UNCHANGED get => SameAnswers
           /\ UNCHANGED req => SameBatches
           /\ UNCHANGED <<wpc, wres>> => SameCalls
<1>1. UNCHANGED last_sequence => SameStore
  BY StoreSame DEF SameStore, MapInv
<1>2. UNCHANGED get => SameAnswers
  BY AnswerSame DEF SameAnswers, MapInv
<1>3. UNCHANGED req => SameBatches
  BY DEF SameBatches, KeysOf
<1>4. UNCHANGED <<wpc, wres>> => SameCalls
  BY DEF SameCalls, CallStatus
<1> QED
  BY <1>1, <1>2, <1>3, <1>4

\* A writer that goes on inside Write.
LEMMA StaysPending ==
    ASSUME QueueTypes, NEW w \in Writers, CallStatus(w) = "pending", UNCHANGED wres,
           NEW pc \in {"queued"} \cup Leading, wpc' = [wpc EXCEPT ![w] = pc],
           pc = "queued" => wres[w] = "none"
    PROVE  SameCalls
<1>1. wpc'[w] = pc /\ wres'[w] = wres[w] /\ \A v \in Writers : v # w => wpc'[v] = wpc[v] /\ wres'[v] = wres[v]
  BY DEF QueueTypes
<1>2. CallStatus(w)' = "pending"
  BY <1>1 DEF CallStatus, Leading
<1>3. \A v \in Writers : v # w => CallStatus(v)' = CallStatus(v)
  BY <1>1 DEF CallStatus
<1> QED
  BY <1>2, <1>3 DEF SameCalls

\* A critical section of MakeRoomForWrite: the call ends, or nobody sees it.
LEMMA RoomMaps ==
    ASSUME DataFacts, MapInv, NEW w \in Writers, NEW q, Room(w, q), CallStatus(w) = "pending",
           SameStore, SameAnswers, SameBatches
    PROVE  [KV!KVNext]_(KV!kvVars)
<1>1. AtFront(w, q) /\ RoomQueue(w, q) /\ QueueTypes
  BY DEF Room, MapInv, WInv, CallsInv, QueueInv
<1>2. 1 \in 1..Len(q) /\ q \in Seq(Writers) /\ q[1] = w /\ Len(q) >= 1
  BY <1>1, SMT, SMTT(40) DEF AtFront
<1>3. last_sequence \in Nat /\ last_sequence' = last_sequence
  BY DEF MapInv, WInv, CallsInv, GroupInv, SameStore
<1>4. CASE Complete(w, q, 1, "err")
  <2>1. last_sequence' >= last_sequence
    BY <1>3, SMT, SMTT(40)
  <2>2. KV!KVNext
    BY <1>1, <1>2, <1>4, <2>1, GroupFails DEF SameStore
  <2> QED
    BY <2>2
<1>5. CASE req[w].batch = NULL /\ Complete(w, q, 1, "ok")
  <2> DEFINE u == <<>>
  <2>1. u \in Seq(Keys) /\ Len(u) = 0
    BY EmptySeq
  <2>2. u = KeysIn(req, q, 1)
    BY <1>1, <1>2, <1>5, NullUpdates
  <2>3. last_sequence' = last_sequence + Len(u)
    BY <1>3, <2>1, SMT, SMTT(40)
  <2>4. \A k, p : ~LastAt(u, k, p)
    BY <2>1, SMT, SMTT(40) DEF LastAt
  <2>5. \A k \in Keys : Newest(LiveEntries', k, last_sequence') = Newest(LiveEntries, k, last_sequence)
    BY DEF SameStore
  <2> HIDE DEF u
  <2>6. KV!KVNext
    BY <1>1, <1>2, <1>5, <2>1, <2>2, <2>3, <2>4, <2>5, GroupApplies
  <2> QED
    BY <2>6
<1>6. ASSUME NEW pc \in Leading, wpc' = [wpc EXCEPT ![w] = pc], UNCHANGED wres
      PROVE  UNCHANGED KV!kvVars
  <2>1. SameCalls
    BY <1>1, <1>6, StaysPending DEF Leading
  <2> QED
    BY <2>1, StepHidden
<1>7. CASE \E pc \in {"delay", "room"} : Stay(w, q, pc)
  BY <1>6, <1>7 DEF Stay, Leading
<1>8. CASE req[w].batch # NULL /\ Lead(w, q)
  BY <1>6, <1>8 DEF Lead, Leading
<1> QED
  BY <1>1, <1>4, <1>5, <1>7, <1>8 DEF RoomQueue

\* The steps of Write up to the log.
LEMMA QueueMaps ==
    ASSUME DataFacts, MapInv, NEW w \in Writers, Enter(w) \/ Wake(w) \/ RoomAgain(w),
           SameStore, SameAnswers, SameBatches, UNCHANGED <<wpc, wres>> => SameCalls
    PROVE  [KV!KVNext]_(KV!kvVars)
<1>1. QueueInv /\ OpenInv /\ QueueTypes
  BY DEF MapInv, WInv, CallsInv, QueueInv
<1>2. wpc[w] \in {"enter", "queued", "room", "delay"}
  BY DEF Enter, Wake, RoomAgain
<1>3. wres[w] \in {"none", "ok", "err"} /\ (wpc[w] # "queued" => wres[w] = "none")
  BY <1>1, <1>2 DEF QueueInv, QueueTypes, Leading
<1>4. CASE wpc[w] = "queued" /\ wres[w] # "none"
  <2>1. Wake(w)
    BY <1>4 DEF Enter, RoomAgain
  <2>2. wpc' = [wpc EXCEPT ![w] = Returned(w, wres[w])] /\ UNCHANGED wres
    BY <1>4, <2>1 DEF Wake
  <2>3. wpc'[w] = Returned(w, wres[w]) /\ \A v \in Writers : v # w => wpc'[v] = wpc[v]
    BY <1>1, <2>2 DEF QueueTypes
  <2>4. \A v \in Writers : v # w => CallStatus(v)' = CallStatus(v)
    BY <2>2, <2>3 DEF CallStatus
  <2>5. CallStatus(w) = wres[w] /\ wres[w] \in {"ok", "err"}
    BY <1>3, <1>4 DEF CallStatus
  <2>6. CASE Returned(w, wres[w]) = "idle"
    <3>1. CallStatus(w)' = "idle"
      BY <2>3, <2>6 DEF CallStatus
    <3> QED
      BY <2>4, <2>5, <3>1, CallReturns
  <2>7. CASE Returned(w, wres[w]) = "cmt" /\ wres[w] = "ok"
    <3>1. CallStatus(w)' = "ok"
      BY <2>3, <2>7 DEF CallStatus
    <3>2. SameCalls
      BY <2>4, <2>5, <2>7, <3>1 DEF SameCalls
    <3> QED
      BY <3>2, StepHidden
  <2> QED
    BY <2>6, <2>7 DEF Returned
<1>5. CASE ~(wpc[w] = "queued" /\ wres[w] # "none")
  <2>1. CallStatus(w) = "pending" /\ wres[w] = "none"
    BY <1>2, <1>3, <1>5 DEF CallStatus
  <2>2. CASE \E q : Room(w, q)
    BY <2>1, <2>2, RoomMaps
  <2>3. CASE Join(w)
    <3>1. SameCalls
      BY <1>1, <2>1, <2>3, StaysPending DEF Join
    <3> QED
      BY <3>1, StepHidden
  <2>4. CASE SleepAgain(w)
    BY <2>4, StepHidden DEF SleepAgain
  <2> QED
    BY <1>1, <1>5, <2>2, <2>3, <2>4, QueueSteps DEF Answered
<1> QED
  BY <1>4, <1>5

\* The steps of the leader.
LEMMA LeaderMaps ==
    ASSUME DataFacts, MapInv, MapInv', NEW w \in Writers, LeaderStep(w), SameAnswers, SameBatches,
           UNCHANGED last_sequence => SameStore
    PROVE  [KV!KVNext]_(KV!kvVars)
<1>1. QueueInv /\ QueueTypes /\ wpc[w] \in Grouped /\ wpc[w] \in Leading
  BY DEF MapInv, WInv, CallsInv, QueueInv, LeaderStep, AddRecord, Sync, InsertInto, Publish, Grouped, Leading
<1>2. CallStatus(w) = "pending"
  BY <1>1 DEF CallStatus, Leading
<1>3. CASE AddRecord(w) \/ Sync(w) \/ InsertInto(w)
  <2>1. UNCHANGED <<wres, last_sequence>> /\ \E pc \in Grouped : wpc' = [wpc EXCEPT ![w] = pc]
    <3>1. InsertInto(w) /\ UNCHANGED wpc => wpc' = [wpc EXCEPT ![w] = "insert"]
      BY <1>1 DEF InsertInto, QueueTypes
    <3>2. InsertInto(w) => UNCHANGED wpc \/ wpc' = [wpc EXCEPT ![w] = "publish"]
      BY DEF InsertInto
    <3> QED
      BY <1>3, <3>1, <3>2 DEF AddRecord, Sync, InsertInto, Grouped
  <2>2. SameCalls
    BY <1>1, <1>2, <2>1, StaysPending DEF Grouped, Leading
  <2> QED
    BY <2>1, <2>2, StepHidden
<1>4. CASE Publish(w)
  <2> DEFINE u == group.keys
             n == group.n
  <2>1. AtFront(w, writers_)
    BY <1>1, FrontOfQueue
  <2>2. LeaderInv(w) /\ u \in Seq(Keys) /\ last_sequence \in Nat
    BY <1>1 DEF MapInv, WInv, CallsInv, GroupInv, GroupTypes
  <2>3. n \in 1..Len(writers_) /\ u = KeysIn(req, writers_, n)
    BY <2>2 DEF LeaderInv
  <2>4. last_sequence' = last_sequence + Len(u) /\ Len(u) \in Nat
    BY <1>4, <2>2, SMT, SMTT(40) DEF Publish
  <2>5. CASE group.status = "ok"
    <3>1. Complete(w, writers_, n, "ok")
      BY <1>4, <2>5 DEF Publish
    <3>2. \A k \in Keys :
            /\ (\A i \in 1..Len(u) : u[i] # k) =>
                  Newest(LiveEntries', k, last_sequence') = Newest(LiveEntries, k, last_sequence)
            /\ \A p : LastAt(u, k, p) => Newest(LiveEntries', k, last_sequence') = last_sequence + p
      BY <1>4, <2>5, PublishStore DEF MapInv
    <3> HIDE DEF u, n
    <3> QED
      BY <1>1, <1>2, <2>1, <2>2, <2>3, <2>4, <3>1, <3>2, GroupApplies
  <2>6. CASE group.status # "ok"
    <3>1. Complete(w, writers_, n, "err")
      BY <1>4, <2>6 DEF Publish
    <3>2. \A k \in Keys : Newest(LiveEntries', k, last_sequence') = Newest(LiveEntries, k, last_sequence)
      BY <1>4, <2>6, PublishStore DEF MapInv
    <3>3. last_sequence' >= last_sequence
      BY <2>2, <2>4, SMT, SMTT(40)
    <3> HIDE DEF u, n
    <3> QED
      BY <1>1, <1>2, <2>1, <2>3, <3>1, <3>2, <3>3, GroupFails
  <2> QED
    BY <2>5, <2>6
<1> QED
  BY <1>3, <1>4 DEF LeaderStep

\* The wait of TEST_CompactMemTable for the flush.
LEMMA WaitMaps ==
    ASSUME MapInv, NEW w \in Writers, CompactMemTableWait(w), SameStore, SameAnswers, SameBatches
    PROVE  [KV!KVNext]_(KV!kvVars)
<1>1. QueueTypes /\ wpc[w] = "cmt" /\ UNCHANGED wres
  BY DEF MapInv, WInv, CallsInv, QueueInv, CompactMemTableWait
<1>2. UNCHANGED wpc \/ wpc' = [wpc EXCEPT ![w] = "idle"]
  BY DEF CompactMemTableWait
<1>3. CASE UNCHANGED wpc
  <2>1. SameCalls
    BY <1>1, <1>3 DEF SameCalls, CallStatus
  <2> QED
    BY <2>1, StepHidden
<1>4. CASE wpc' = [wpc EXCEPT ![w] = "idle"]
  <2>1. wpc'[w] = "idle" /\ \A v \in Writers : v # w => wpc'[v] = wpc[v]
    BY <1>1, <1>4 DEF QueueTypes
  <2>2. CallStatus(w) = "ok" /\ CallStatus(w)' = "idle"
    BY <1>1, <2>1 DEF CallStatus
  <2>3. \A v \in Writers : v # w => CallStatus(v)' = CallStatus(v)
    BY <1>1, <2>1 DEF CallStatus
  <2> QED
    BY <2>2, <2>3, CallReturns
<1> QED
  BY <1>2, <1>3, <1>4

\* The steps of Get.
LEMMA ReaderMaps ==
    ASSUME DataFacts, MapInv, MapInv', DataStep, NEW r \in Readers, GetBegin(r) \/ GetLookup(r) \/ GetEnd(r),
           SameStore, SameCalls, SameBatches
    PROVE  [KV!KVNext]_(KV!kvVars)
<1>1. /\ WInv /\ WInv' /\ StoreInv /\ AnswersInv /\ AnswersInv' /\ FoundInv
      /\ CallsInv /\ DataTypes /\ ReadInv
  BY DEF MapInv, WInv
<1>2. \A q \in Readers : q # r => get'[q] = get[q]
  BY <1>1, GetSteps
<1>3. \A q \in Readers : q # r => Answer(q)' = Answer(q)
  BY <1>1, <1>2, AnswerSame
<1>4. CASE GetBegin(r)
  BY <1>1, <1>3, <1>4, GetBegins
<1>5. CASE GetLookup(r)
  <2>1. Answer(r)' = Answer(r)
    BY <1>1, <1>5, LookupAnswer
  <2>2. SameAnswers
    BY <1>3, <2>1 DEF SameAnswers
  <2> QED
    BY <2>2, StepHidden
<1>6. CASE GetEnd(r)
  BY <1>1, <1>3, <1>6, GetEnds
<1> QED
  BY <1>4, <1>5, <1>6

\* Every step is one of the store, or none.
LEMMA NextMaps == DataFacts /\ MapInv /\ MapInv' /\ [WriteNext]_vars => [KV!KVNext]_(KV!kvVars)
<1> SUFFICES ASSUME DataFacts, MapInv, MapInv', [WriteNext]_vars PROVE [KV!KVNext]_(KV!kvVars)
  OBVIOUS
<1>1. CallsInv /\ QueueTypes /\ QueueInv
  BY DEF MapInv, WInv, CallsInv, QueueInv
<1>2. DataStep
  BY <1>1, DataSteps
<1>3. /\ UNCHANGED last_sequence => SameStore
      /\ UNCHANGED get => SameAnswers
      /\ UNCHANGED req => SameBatches
      /\ UNCHANGED <<wpc, wres>> => SameCalls
  BY <1>2, Frames
<1>4. ASSUME UNCHANGED <<last_sequence, get, req, wpc, wres>> PROVE UNCHANGED KV!kvVars
  BY <1>3, <1>4, StepHidden
<1>5. ASSUME NEW w \in Writers, Call(w) PROVE [KV!KVNext]_(KV!kvVars)
  <2>1. UNCHANGED <<last_sequence, get>>
    BY <1>5 DEF Call, dataVars
  <2>2. SameStore /\ SameAnswers
    BY <1>3, <2>1
  <2> QED
    BY <1>1, <1>5, <2>2, CallSubmits
<1>6. ASSUME NEW w \in Writers, Enter(w) \/ Wake(w) \/ RoomAgain(w) PROVE [KV!KVNext]_(KV!kvVars)
  <2>1. UNCHANGED <<last_sequence, get, req>>
    <3>1. (\E q : Room(w, q)) \/ Join(w) \/ SleepAgain(w) \/ Answered(w)
      BY <1>1, <1>6, QueueSteps DEF CallsInv
    <3> QED
      BY <3>1 DEF Room, Join, SleepAgain, Answered, RoomFrame
  <2>2. SameStore /\ SameAnswers /\ SameBatches
    BY <1>3, <2>1
  <2> QED
    BY <1>3, <1>6, <2>2, QueueMaps
<1>7. ASSUME NEW w \in Writers, LeaderStep(w) PROVE [KV!KVNext]_(KV!kvVars)
  <2>1. UNCHANGED <<get, req>>
    BY <1>7 DEF LeaderStep, AddRecord, Sync, InsertInto, Publish
  <2>2. SameAnswers /\ SameBatches
    BY <1>3, <2>1
  <2> QED
    BY <1>3, <1>7, <2>2, LeaderMaps
<1>8. ASSUME NEW w \in Writers, CompactMemTableWait(w) PROVE [KV!KVNext]_(KV!kvVars)
  <2>1. UNCHANGED <<last_sequence, get, req>>
    BY <1>8 DEF CompactMemTableWait, dataVars
  <2>2. SameStore /\ SameAnswers /\ SameBatches
    BY <1>3, <2>1
  <2> QED
    BY <1>8, <2>2, WaitMaps
<1>9. ASSUME NEW r \in Readers, GetBegin(r) \/ GetLookup(r) \/ GetEnd(r)
      PROVE  [KV!KVNext]_(KV!kvVars)
  <2>1. UNCHANGED <<last_sequence, req, wpc, wres>>
    BY <1>9 DEF GetBegin, GetLookup, Lookup, GetEnd, queueVars
  <2>2. SameStore /\ SameCalls /\ SameBatches
    BY <1>3, <2>1
  <2> QED
    BY <1>2, <1>9, <2>2, ReaderMaps
<1>10. ASSUME NEW w \in Writers, Call(w) \/ Write(w) PROVE [KV!KVNext]_(KV!kvVars)
  BY <1>5, <1>6, <1>7, <1>8, <1>10 DEF Write, LeaderStep
<1>11. BackgroundStep => UNCHANGED <<last_sequence, get, req, wpc, wres>>
  BY DEF BackgroundStep, queueVars
<1>12. UNCHANGED writeVars \/ SpuriousWriterWakeup => UNCHANGED <<last_sequence, get, req, wpc, wres>>
  BY DEF writeVars, SpuriousWriterWakeup, dataVars
<1>13. Idle \/ CloseDB \/ UNCHANGED vars => UNCHANGED writeVars
  BY DEF Idle, CloseDB, vars
<1> QED
  BY <1>4, <1>9, <1>10, <1>11, <1>12, <1>13 DEF WriteNext

\* A new database is an empty store.
LEMMA InitMaps == DataFacts /\ WriteInit => KV!KVInit /\ MapInv
<1> SUFFICES ASSUME DataFacts, WriteInit PROVE KV!KVInit /\ MapInv
  OBVIOUS
<1>1. WInv /\ StoreInv /\ AnswersInv
  BY InitWInv, LiveIs, AnswerIs
<1>2. /\ tables = [t \in Tables |-> {}] /\ last_sequence = 0
      /\ wpc = [w \in Writers |-> "idle"] /\ get = [r \in Readers |-> NoGet]
      /\ req = [w \in Writers |-> [batch |-> NULL, sync |-> FALSE]]
  BY DEF WriteInit
<1>3. FoundInv
  BY <1>2 DEF FoundInv
<1>4. LiveEntries = {}
  BY <1>1, <1>2 DEF StoreInv, Written
<1>5. \A k \in Keys : Newest(LiveEntries, k, last_sequence) = 0
  <2>1. {} \in SUBSET Entries /\ 0 \in Nat
    OBVIOUS
  <2>2. \A k : Newest({}, k, 0) = 0
    BY <2>1, NewestIs
  <2> QED
    BY <1>2, <1>4, <2>2
<1>6. \A w \in Writers : CallStatus(w) = "idle" /\ KeysOf(w) = <<>>
  BY <1>2 DEF CallStatus, KeysOf
<1>7. \A r \in Readers : Answer(r) = <<>>
  BY <1>2 DEF Answer
<1>8. KV!KVInit
  BY <1>2, <1>5, <1>6, <1>7 DEF KV!KVInit
<1> QED
  BY <1>1, <1>3, <1>8 DEF MapInv

\* What the mapping needs is preserved.
LEMMA MapNext ==
    DataFacts /\ MapInv /\ [WriteNext]_vars /\ WInv' /\ StoreInv' /\ AnswersInv' => MapInv'
<1> SUFFICES ASSUME DataFacts, MapInv, [WriteNext]_vars, WInv', StoreInv', AnswersInv' PROVE MapInv'
  OBVIOUS
<1>1. DataStep
  BY DataSteps DEF MapInv, WInv
<1>2. FoundInv'
  BY <1>1, FoundNext DEF MapInv
<1> QED
  BY <1>2 DEF MapInv
=============================================================================
