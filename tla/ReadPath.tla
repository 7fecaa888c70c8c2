------------------------------ MODULE ReadPath ------------------------------
(***************************************************************************)
(* LevelDB's iterators, stacked as a read stacks them: Block::Iter and     *)
(* MemTableIterator at the bottom, TwoLevelIterator over an index (a table *)
(* or a level of tables), MergingIterator over memtable, level 0 and the   *)
(* levels, DBIter over that.  An iterator is a record; its operations      *)
(* return the record after the call.  A behaviour writes entries, builds   *)
(* the table files, may damage one block, opens one of the iterators and   *)
(* moves it about; ref is where a plain cursor over the same entries is.   *)
(***************************************************************************)
EXTENDS SSTable, TLC

CONSTANTS
    Layers,         \* iterators that are opened
    Workload,       \* per layer: the writes it sees and the keys it is positioned at
    SplitKey        \* user key at which level 1 is split into two files

VARIABLES
    layer,          \* the iterator of this behaviour
    phase,          \* "write", "built" or "read"
    entries,        \* per source: its entries
    last_sequence,
    damage,         \* the kind of damage, or "none"
    verify,         \* ReadOptions.verify_checksums
    paranoid,       \* Options.paranoid_checks
    snapshot,       \* DBIter.sequence_
    it,             \* the iterator
    ref             \* the entry a cursor is at, or Invalid

vars == <<files, layer, phase, entries, last_sequence, damage, verify, paranoid, snapshot, it, ref>>

Invalid == [key |-> NoKey, value |-> NoKey]
NoIter == [kind |-> "none"]
Sources == {"mem", "l0", "l1"}

(* The tables: level 0 has one, level 1 two with disjoint ranges. *)
L0 == 1
L1a == 2
L1b == 3
Sorted(set) == SetToSortSeq(set, LAMBDA a, b : KeyLess(a.key, b.key))
EntriesOf(number) ==
    CASE number = L0  -> entries["l0"]
      [] number = L1a -> {e \in entries["l1"] : Less(ExtractUserKey(e.key), SplitKey)}
      [] number = L1b -> {e \in entries["l1"] : ~ Less(ExtractUserKey(e.key), SplitKey)}
LevelFiles == SelectSeq(<<L1a, L1b>>, LAMBDA n : n \in DOMAIN files)

-----------------------------------------------------------------------------
(* Skip list and list of files: a position in a sorted sequence of keys.    *)
(* pos = Len + 1 is the end; LevelFileNumIterator marks itself so, too.     *)
ListIter(kind, keys, values) == [kind |-> kind, keys |-> keys, values |-> values, pos |-> Len(keys) + 1]
MemTableIterator ==
    LET s == Sorted(entries["mem"])
    IN ListIter("list", [i \in DOMAIN s |-> s[i].key], [i \in DOMAIN s |-> s[i].value])
LevelFileNumIterator ==
    ListIter("list", [i \in DOMAIN LevelFiles |-> files[LevelFiles[i]].largest], LevelFiles)
FindFile(keys, target) == Min({i \in DOMAIN keys : ~ KeyLess(keys[i], target)} \cup {Len(keys) + 1})
ListSeekToLast(l) == [l EXCEPT !.pos = IF l.keys = <<>> THEN 1 ELSE Len(l.keys)]
ListPrev(l) == [l EXCEPT !.pos = IF l.pos = 1 THEN Len(l.keys) + 1 ELSE @ - 1]

(* The Iterator interface: Do(op, i, k) is the virtual call of op on i.     *)
RECURSIVE Do(_, _, _)
Valid(i) == Do("Valid", i, NoKey)
Key(i) == Do("key", i, NoKey)
Value(i) == Do("value", i, NoKey)
Status(i) == Do("status", i, NoKey)
SeekToFirst(i) == Do("SeekToFirst", i, NoKey)
SeekToLast(i) == Do("SeekToLast", i, NoKey)
Seek(i, k) == Do("Seek", i, k)
Next(i) == Do("Next", i, NoKey)
Prev(i) == Do("Prev", i, NoKey)

-----------------------------------------------------------------------------
(* TwoLevelIterator.  fn is the block function: "block" reads a block of    *)
(* the table arg, "file" opens the table the index names.                   *)
TwoLevel(index, fn, arg) ==
    [kind |-> "two", index |-> index, data |-> NoIter, handle |-> Invalid, fn |-> fn, arg |-> arg, status |-> "ok"]

(* TableCache::NewIterator and Table::NewIterator. *)
TableIteratorOn(index, number) == IF index.kind = "error" THEN index ELSE TwoLevel(index, "block", number)
TableIterator(number) ==
    TableIteratorOn(IteratorOn(OpenTable(number, paranoid)), number)
ConcatenatingIterator == TwoLevel(LevelFileNumIterator, "file", 0)

BlockFunction(t, handle) == IF t.fn = "block" THEN BlockReader(t.arg, handle, verify) ELSE TableIterator(handle)

SetDataIteratorForgets(t, data) == [t EXCEPT !.data = data]     \* no SaveError
SetDataIterator(t, data) ==
    [t EXCEPT !.data = data,
              !.status = IF @ = "ok" /\ t.data # NoIter THEN Status(t.data) ELSE @]

InitDataBlockStale(t) ==                  \* any block is taken for the right one
    IF ~ Valid(t.index) THEN SetDataIterator(t, NoIter)
    ELSE IF t.data # NoIter THEN t
    ELSE SetDataIterator([t EXCEPT !.handle = Value(t.index)], BlockFunction(t, Value(t.index)))
InitDataBlock(t) ==
    IF ~ Valid(t.index) THEN SetDataIterator(t, NoIter)
    ELSE IF t.data # NoIter /\ t.handle = Value(t.index) THEN t
    ELSE SetDataIterator([t EXCEPT !.handle = Value(t.index)], BlockFunction(t, Value(t.index)))

(* In the block the index is at, position the data iterator with op. *)
InData(t, op, k) == IF t.data = NoIter THEN t ELSE [t EXCEPT !.data = Do(op, @, k)]
InBlock(t, op, k) == InData(InitDataBlock(t), op, k)

RECURSIVE SkipEmptyDataBlocksForward(_), SkipEmptyDataBlocksBackward(_)
SkipEmptyDataBlocksForward(t) ==
    IF t.data # NoIter /\ Valid(t.data) THEN t
    ELSE IF ~ Valid(t.index) THEN SetDataIterator(t, NoIter)
    ELSE SkipEmptyDataBlocksForward(InBlock([t EXCEPT !.index = Next(@)], "SeekToFirst", NoKey))
SkipEmptyDataBlocksBackward(t) ==
    IF t.data # NoIter /\ Valid(t.data) THEN t
    ELSE IF ~ Valid(t.index) THEN SetDataIterator(t, NoIter)
    ELSE SkipEmptyDataBlocksBackward(InBlock([t EXCEPT !.index = Prev(@)], "SeekToLast", NoKey))

TwoLevelSeek(t, k) ==
    SkipEmptyDataBlocksForward(InBlock([t EXCEPT !.index = Seek(@, k)], "Seek", k))
TwoLevelSeekToFirst(t) ==
    SkipEmptyDataBlocksForward(InBlock([t EXCEPT !.index = SeekToFirst(@)], "SeekToFirst", NoKey))
TwoLevelSeekToLast(t) ==
    SkipEmptyDataBlocksBackward(InBlock([t EXCEPT !.index = SeekToLast(@)], "SeekToLast", NoKey))

TwoLevelStatus(t) ==
    IF Status(t.index) # "ok" THEN Status(t.index)
    ELSE IF t.data # NoIter /\ Status(t.data) # "ok" THEN Status(t.data) ELSE t.status

-----------------------------------------------------------------------------
(* MergingIterator; current = 0 is NULL.  On equal keys the code prefers    *)
(* the first child forward and the last child backward.                     *)
Merging(children) == [kind |-> "merge", children |-> children, current |-> 0, reverse |-> FALSE]
ChildKey(m, i) == Key(m.children[i])
Live(m) == {i \in DOMAIN m.children : Valid(m.children[i])}

Keyed(m) == {<<i, ChildKey(m, i)>> : i \in Live(m)}
Smallest(ks) == {k[1] : k \in {k \in ks : \A o \in ks : ~ KeyLess(o[2], k[2])}}
Largest(ks) == {k[1] : k \in {k \in ks : \A o \in ks : ~ KeyLess(k[2], o[2])}}
FindSmallest(m) == [m EXCEPT !.current = IF Live(m) = {} THEN 0 ELSE Min(Smallest(Keyed(m)))]
FindLargest(m) == [m EXCEPT !.current = IF Live(m) = {} THEN 0 ELSE Max(Largest(Keyed(m)))]

EachChild(m, op, k) == [m EXCEPT !.children = [i \in DOMAIN @ |-> Do(op, @[i], k)]]
MergingSeekToFirst(m) == [FindSmallest(EachChild(m, "SeekToFirst", NoKey)) EXCEPT !.reverse = FALSE]
MergingSeekToLast(m) == [FindLargest(EachChild(m, "SeekToLast", NoKey)) EXCEPT !.reverse = TRUE]
MergingSeek(m, k) == [FindSmallest(EachChild(m, "Seek", k)) EXCEPT !.reverse = FALSE]

(* The children other than current_, when the direction changes. *)
PastKey(child, key) == IF Valid(child) /\ Key(child) = key THEN Next(child) ELSE child
BeforeEntry(child) == IF Valid(child) THEN Prev(child) ELSE SeekToLast(child)
PositionAfter(m) ==
    [m EXCEPT !.reverse = FALSE, !.children =
        [i \in DOMAIN @ |-> IF i = m.current THEN @[i] ELSE PastKey(Seek(@[i], Key(m)), Key(m))]]
PositionBefore(m) ==
    [m EXCEPT !.reverse = TRUE, !.children =
        [i \in DOMAIN @ |-> IF i = m.current THEN @[i] ELSE BeforeEntry(Seek(@[i], Key(m)))]]

MergingNextKeepsOthers(m) ==              \* children not moved when turning round
    FindSmallest([m EXCEPT !.reverse = FALSE, !.children[m.current] = Next(@)])
MergingNext(m) ==
    FindSmallest([(IF m.reverse THEN PositionAfter(m) ELSE m) EXCEPT !.children[m.current] = Next(@)])
MergingPrev(m) ==
    FindLargest([(IF m.reverse THEN m ELSE PositionBefore(m)) EXCEPT !.children[m.current] = Prev(@)])

StatusOf(m, bad) == IF bad = {} THEN "ok" ELSE Status(m.children[Min(bad)])
MergingStatus(m) == StatusOf(m, {i \in DOMAIN m.children : Status(m.children[i]) # "ok"})

-----------------------------------------------------------------------------
(* DBIter *)
NewDBIterator(iter, sequence) ==
    [kind |-> "db", iter |-> iter, sequence |-> sequence, reverse |-> FALSE, valid |-> FALSE,
     saved_key |-> NoKey, saved_value |-> NoKey]
UserKeyAt(d) == ExtractUserKey(Key(d.iter))
Visible(d) == SequenceOf(Key(d.iter)) <= d.sequence

(* The loop; it ends invalid when the entries do.  A deletion hides the     *)
(* older entries of its key, and so does, in Next, the key that is left.    *)
Hides(d) == Visible(d) /\ TypeOf(Key(d.iter)) = kTypeDeletion
Shows(d, skipping) ==
    /\ Visible(d) /\ TypeOf(Key(d.iter)) = kTypeValue
    /\ ~ (skipping /\ ~ Less(d.saved_key, UserKeyAt(d)))
Skip(d) == [d EXCEPT !.iter = Next(@), !.saved_key = IF Hides(d) THEN UserKeyAt(d) ELSE @]
RECURSIVE FindNextUserEntry(_, _)
FindNextUserEntry(d, skipping) ==
    IF ~ Valid(d.iter) THEN [d EXCEPT !.valid = FALSE, !.saved_key = NoKey]
    ELSE IF Shows(d, skipping) THEN [d EXCEPT !.valid = TRUE, !.saved_key = NoKey]
    ELSE FindNextUserEntry(Skip(d), skipping \/ Hides(d))

DBNext(d) ==
    FindNextUserEntry(
        IF d.reverse THEN [d EXCEPT !.reverse = FALSE, !.iter = IF Valid(@) THEN Next(@) ELSE SeekToFirst(@)]
        ELSE [d EXCEPT !.saved_key = UserKeyAt(d)], TRUE)

(* The loop of FindPrevUserEntry; type is value_type. *)
Save(d) ==
    IF ~ Visible(d) THEN d
    ELSE IF Hides(d) THEN [d EXCEPT !.saved_key = NoKey, !.saved_value = NoKey]
    ELSE [d EXCEPT !.saved_key = UserKeyAt(d), !.saved_value = Value(d.iter)]
RECURSIVE ScanBackIgnoresDeletion(_, _), ScanBack(_, _)
ScanBackIgnoresDeletion(d, type) ==       \* a deletion leaves the older value saved
    IF ~ Valid(d.iter) \/ (Visible(d) /\ type # kTypeDeletion /\ Less(UserKeyAt(d), d.saved_key)) THEN <<d, type>>
    ELSE IF Hides(d) THEN ScanBackIgnoresDeletion([d EXCEPT !.iter = Prev(@)], type)
    ELSE ScanBackIgnoresDeletion([Save(d) EXCEPT !.iter = Prev(@)], IF Visible(d) THEN TypeOf(Key(d.iter)) ELSE type)
ScanBack(d, type) ==
    IF ~ Valid(d.iter) \/ (Visible(d) /\ type # kTypeDeletion /\ Less(UserKeyAt(d), d.saved_key)) THEN <<d, type>>
    ELSE ScanBack([Save(d) EXCEPT !.iter = Prev(@)], IF Visible(d) THEN TypeOf(Key(d.iter)) ELSE type)

Found(d, type) ==
    IF type = kTypeDeletion
    THEN [d EXCEPT !.valid = FALSE, !.saved_key = NoKey, !.saved_value = NoKey, !.reverse = FALSE]
    ELSE [d EXCEPT !.valid = TRUE]
FoundBy(r) == Found(r[1], r[2])
FindPrevUserEntry(d) == FoundBy(ScanBack(d, kTypeDeletion))

(* Prev from a forward position: back to before all entries of this key. *)
RECURSIVE BeforeKey(_, _)
BeforeKey(iter, user) ==
    IF Valid(iter) /\ ~ Less(ExtractUserKey(Key(iter)), user) THEN BeforeKey(Prev(iter), user) ELSE iter

TurnBack(d, iter) ==
    IF Valid(iter) THEN FindPrevUserEntry([d EXCEPT !.iter = iter, !.saved_key = UserKeyAt(d), !.reverse = TRUE])
    ELSE [d EXCEPT !.iter = iter, !.valid = FALSE, !.saved_key = NoKey, !.saved_value = NoKey]
DBPrev(d) ==
    IF d.reverse THEN FindPrevUserEntry(d) ELSE TurnBack(d, BeforeKey(Prev(d.iter), UserKeyAt(d)))

DBSeek(d, iter, saved_key) ==             \* Seek and SeekToFirst behind the move of iter_
    IF Valid(iter)
    THEN FindNextUserEntry([d EXCEPT !.iter = iter, !.reverse = FALSE, !.saved_value = NoKey], FALSE)
    ELSE [d EXCEPT !.iter = iter, !.reverse = FALSE, !.saved_value = NoKey, !.valid = FALSE, !.saved_key = saved_key]
DBSeekToLast(d) ==
    FindPrevUserEntry([d EXCEPT !.iter = SeekToLast(@), !.reverse = TRUE, !.saved_value = NoKey])
LookupKey(user, sequence) == InternalKey(user, sequence, kValueTypeForSeek)

-----------------------------------------------------------------------------
(* The interface, by kind of iterator. *)
ValidBy(i) ==
    CASE i.kind = "list"  -> i.pos <= Len(i.keys)
      [] i.kind = "block" -> BlockValid(i)
      [] i.kind = "two"   -> i.data # NoIter /\ Valid(i.data)
      [] i.kind = "merge" -> i.current # 0
      [] i.kind = "db"    -> i.valid
      [] i.kind = "error" -> FALSE
KeyBy(i) ==
    CASE i.kind = "list"  -> i.keys[i.pos]
      [] i.kind = "block" -> i.key
      [] i.kind = "two"   -> Key(i.data)
      [] i.kind = "merge" -> Key(i.children[i.current])
      [] i.kind = "db"    -> IF i.reverse THEN i.saved_key ELSE UserKeyAt(i)
ValueBy(i) ==
    CASE i.kind = "list"  -> i.values[i.pos]
      [] i.kind = "block" -> i.value
      [] i.kind = "two"   -> Value(i.data)
      [] i.kind = "merge" -> Value(i.children[i.current])
      [] i.kind = "db"    -> IF i.reverse THEN i.saved_value ELSE Value(i.iter)
(* DBIter's own status, a key that does not parse, is left out: its keys     *)
(* come from undamaged blocks.                                               *)
StatusBy(i) ==
    CASE i.kind = "list"  -> "ok"
      [] i.kind \in {"block", "error"} -> i.status
      [] i.kind = "two"   -> TwoLevelStatus(i)
      [] i.kind = "merge" -> MergingStatus(i)
      [] i.kind = "db"    -> Status(i.iter)
SeekToFirstBy(i) ==
    CASE i.kind = "list"  -> [i EXCEPT !.pos = 1]
      [] i.kind = "block" -> BlockSeekToFirst(i)
      [] i.kind = "two"   -> TwoLevelSeekToFirst(i)
      [] i.kind = "merge" -> MergingSeekToFirst(i)
      [] i.kind = "db"    -> DBSeek(i, SeekToFirst(i.iter), i.saved_key)
      [] i.kind = "error" -> i
SeekToLastBy(i) ==
    CASE i.kind = "list"  -> ListSeekToLast(i)
      [] i.kind = "block" -> BlockSeekToLast(i)
      [] i.kind = "two"   -> TwoLevelSeekToLast(i)
      [] i.kind = "merge" -> MergingSeekToLast(i)
      [] i.kind = "db"    -> DBSeekToLast(i)
      [] i.kind = "error" -> i
SeekBy(i, k) ==
    CASE i.kind = "list"  -> [i EXCEPT !.pos = FindFile(i.keys, k)]
      [] i.kind = "block" -> BlockSeek(i, k)
      [] i.kind = "two"   -> TwoLevelSeek(i, k)
      [] i.kind = "merge" -> MergingSeek(i, k)
      [] i.kind = "db"    -> DBSeek(i, Seek(i.iter, LookupKey(k, i.sequence)), LookupKey(k, i.sequence))
      [] i.kind = "error" -> i
NextBy(i) ==
    CASE i.kind = "list"  -> [i EXCEPT !.pos = @ + 1]
      [] i.kind = "block" -> ParseNextKey(i)
      [] i.kind = "two"   -> SkipEmptyDataBlocksForward([i EXCEPT !.data = Next(@)])
      [] i.kind = "merge" -> MergingNext(i)
      [] i.kind = "db"    -> DBNext(i)
PrevBy(i) ==
    CASE i.kind = "list"  -> ListPrev(i)
      [] i.kind = "block" -> BlockPrev(i)
      [] i.kind = "two"   -> SkipEmptyDataBlocksBackward([i EXCEPT !.data = Prev(@)])
      [] i.kind = "merge" -> MergingPrev(i)
      [] i.kind = "db"    -> DBPrev(i)

Do(op, i, k) ==
    CASE op = "Valid"       -> ValidBy(i)
      [] op = "key"         -> KeyBy(i)
      [] op = "value"       -> ValueBy(i)
      [] op = "status"      -> StatusBy(i)
      [] op = "SeekToFirst" -> SeekToFirstBy(i)
      [] op = "SeekToLast"  -> SeekToLastBy(i)
      [] op = "Seek"        -> SeekBy(i, k)
      [] op = "Next"        -> NextBy(i)
      [] op = "Prev"        -> PrevBy(i)

-----------------------------------------------------------------------------
(* The behaviour. *)
Init ==
    /\ layer \in Layers /\ phase = "write" /\ last_sequence = 0
    /\ entries = [s \in Sources |-> {}] /\ files = << >>
    /\ damage = "none"
    /\ IF Workload[layer].damage THEN verify \in BOOLEAN /\ paranoid \in BOOLEAN ELSE verify = FALSE /\ paranoid = FALSE
    /\ snapshot = 0 /\ it = NoIter /\ ref = Invalid

(* A write; older writes lie deeper, in l1, then l0, then the memtable. *)
Above(s) == CASE s = "mem" -> {} [] s = "l0" -> {"mem"} [] s = "l1" -> {"l0", "mem"}
Write(s, user, t) ==
    /\ phase = "write" /\ last_sequence < Workload[layer].n
    /\ \A a \in Above(s) : entries[a] = {}
    /\ last_sequence' = last_sequence + 1
    /\ entries' = [entries EXCEPT ![s] =
                      @ \cup {[key |-> InternalKey(user, last_sequence + 1, t), value |-> <<last_sequence + 1>>]}]
    /\ UNCHANGED <<files, layer, phase, damage, verify, paranoid, snapshot, it, ref>>

Build ==
    /\ phase = "write" /\ last_sequence > 0
    /\ phase' = "built"
    /\ files' = [n \in {n \in {L0, L1a, L1b} : EntriesOf(n) # {}} |-> BuildTable(Sorted(EntriesOf(n)))]
    /\ UNCHANGED <<layer, entries, last_sequence, damage, verify, paranoid, snapshot, it, ref>>

(* One block of one file is damaged: the type byte; the count of restart    *)
(* points, too large for the block; the header of an entry, unreadable or   *)
(* asking for more of the previous key than there is; or any other cell.    *)
(* The last only the checksum shows, so that it happens only to blocks      *)
(* whose checksum is verified.                                              *)
HasEntries(s) == "entries" \in DOMAIN s.contents
IsData(n, at) == at < files[n].metaindex.offset /\ HasEntries(files[n].blocks[at])
DamageBlock(n, at, kind, e) ==
    LET s == files[n].blocks[at]
    IN /\ phase = "built" /\ damage = "none"
       /\ kind \in {"header", "shared"} => HasEntries(s) /\ e \in DOMAIN s.contents.entries
       /\ kind \in {"type", "other", "count"} => e = 1
       /\ kind = "count" => HasEntries(s)
       /\ kind = "other" => IF IsData(n, at) THEN verify ELSE paranoid
       /\ damage' = kind
       /\ files' = [files EXCEPT ![n].blocks[at] =
                       CASE kind = "type"   -> [s EXCEPT !.type = "unknown", !.damaged = TRUE]
                         [] kind = "count"  -> [s EXCEPT !.contents.count = @ + 9, !.damaged = TRUE]
                         [] kind = "header" -> [s EXCEPT !.contents.entries[e].shared = -1, !.damaged = TRUE]
                         [] kind = "shared" -> [s EXCEPT !.contents.entries[e].shared = 99, !.damaged = TRUE]
                         [] kind = "other"  -> [s EXCEPT !.damaged = TRUE]]
       /\ UNCHANGED <<layer, phase, entries, last_sequence, verify, paranoid, snapshot, it, ref>>

(* One block of all entries, a table, a level, the merged whole, a snapshot. *)
OneBlock == FoldLeft(LAMBDA b, e : BlockAdd(b, e.key, e.value, block_restart_interval), NewBlock, Sorted(EntriesOf(L0)))
TableIteratorOf(n) == IF n \in DOMAIN files THEN <<TableIterator(n)>> ELSE <<>>
InternalIterator == Merging(<<MemTableIterator>> \o TableIteratorOf(L0) \o <<ConcatenatingIterator>>)
Open(s) ==
    /\ phase = "built" /\ phase' = "read"
    /\ snapshot' = s
    /\ it' = CASE layer = "block" -> NewBlockIterator(FinishBlock(OneBlock))
               [] layer = "table" -> TableIterator(L0)
               [] layer = "level" -> ConcatenatingIterator
               [] layer = "merge" -> InternalIterator
               [] layer = "db"    -> NewDBIterator(InternalIterator, s)
    /\ UNCHANGED <<files, layer, entries, last_sequence, damage, verify, paranoid, ref>>

(* The reference: what the iterator ranges over, and a cursor on it. *)
Newest(es, user, s) ==
    LET vs == {e \in es : ExtractUserKey(e.key) = user /\ SequenceOf(e.key) <= s}
    IN {e \in vs : \A o \in vs : SequenceOf(o.key) <= SequenceOf(e.key)}
View ==
    LET all == UNION {entries[s] : s \in Sources}
        seen == UNION {Newest(all, ExtractUserKey(e.key), snapshot) : e \in all}
    IN IF layer # "db" THEN all
       ELSE {[key |-> ExtractUserKey(e.key), value |-> e.value] :
                  e \in {e \in seen : TypeOf(e.key) = kTypeValue}}
RefLess(a, b) == IF layer = "db" THEN Less(a, b) ELSE KeyLess(a, b)
Lowest(set) == IF set = {} THEN Invalid ELSE CHOOSE e \in set : \A o \in set : ~ RefLess(o.key, e.key)
Highest(set) == IF set = {} THEN Invalid ELSE CHOOSE e \in set : \A o \in set : ~ RefLess(e.key, o.key)

Reading == phase = "read" /\ Status(it) = "ok"
Move(new, cursor) ==
    /\ it' = new /\ ref' = cursor
    /\ UNCHANGED <<files, layer, phase, entries, last_sequence, damage, verify, paranoid, snapshot>>
MoveToFirst == Reading /\ Move(SeekToFirst(it), Lowest(View))
MoveToLast == Reading /\ Move(SeekToLast(it), Highest(View))
MoveTo(user) ==
    LET k == IF layer = "db" THEN user ELSE LookupKey(user, snapshot)
    IN Reading /\ Move(Seek(it, k), Lowest({e \in View : ~ RefLess(e.key, k)}))
MoveOn == Reading /\ Valid(it) /\ Move(Next(it), Lowest({e \in View : RefLess(ref.key, e.key)}))
MoveBack == Reading /\ Valid(it) /\ Move(Prev(it), Highest({e \in View : RefLess(e.key, ref.key)}))

ReadNext ==
    \/ \E s \in Workload[layer].sources, u \in Workload[layer].keys, t \in Workload[layer].types : Write(s, u, t)
    \/ Build
    \/ /\ Workload[layer].damage
       /\ \E n \in DOMAIN files : \E at \in DOMAIN files[n].blocks :
              \E kind \in {"type", "count", "header", "shared", "other"}, e \in 1 .. Workload[layer].n : DamageBlock(n, at, kind, e)
    \/ \E s \in Workload[layer].snapshots : Open(s)
    \/ MoveToFirst \/ MoveToLast \/ MoveOn \/ MoveBack
    \/ \E u \in Workload[layer].seeks : MoveTo(u)

Spec == Init /\ [][ReadNext]_vars

-----------------------------------------------------------------------------
(***************************************************************************)
(* Properties.                                                             *)
(***************************************************************************)
AtReference == IF Valid(it) THEN ref = [key |-> Key(it), value |-> Value(it)] ELSE ref = Invalid
Healthy == phase = "read" /\ damage = "none"

(* Whatever calls Block::Iter gets, in whatever order, it stands where a     *)
(* cursor on the sorted entries stands: prefixes are put together and        *)
(* restart points found correctly in both directions.                        *)
BlockIterIsCursor == Healthy /\ layer = "block" => AtReference /\ Status(it) = "ok"

(* The same of TwoLevelIterator, over the blocks of a table and over the     *)
(* tables of a level: the shortened index keys separate the blocks, and a    *)
(* block iterator is reused only for the block the index is at.              *)
TwoLevelIterIsCursor == Healthy /\ layer \in {"table", "level"} => AtReference /\ Status(it) = "ok"

(* The same of MergingIterator: changing direction in the middle neither     *)
(* repeats an entry nor skips one.                                           *)
MergingIterIsCursor == Healthy /\ layer = "merge" => AtReference /\ Status(it) = "ok"

(* DBIter shows exactly the keys whose newest entry at the snapshot is a     *)
(* value, in order, in both directions.                                      *)
DBIterShowsSnapshot == Healthy /\ layer = "db" => AtReference /\ Status(it) = "ok"

(* A damaged block of a table never makes entries vanish quietly: a table's  *)
(* or a level's iterator whose status is ok is where the cursor is, over all *)
(* entries.  The damage is such as the code can notice: what only a checksum *)
(* would show strikes blocks whose checksum is verified; and the iterators   *)
(* above, merged and of a snapshot, are given undamaged tables.              *)
DamageIsNeverHidden == phase = "read" /\ damage # "none" /\ Status(it) = "ok" => AtReference

(* Table::InternalGet finds the newest entry of a key at a snapshot whatever *)
(* the filter says; a damaged table answers with an error, not with nothing. *)
GetFindsNewest ==
    phase = "built" /\ L0 \in DOMAIN files =>
        \A u \in Workload[layer].seeks, s \in Workload[layer].snapshots :
            LET got == InternalGet(L0, LookupKey(u, s), verify, paranoid)
                want == Newest(EntriesOf(L0), u, s)
            IN \/ damage # "none" /\ got = Corrupt
               \/ IF want # {} THEN got \in want
                  ELSE got = NotFound \/ (got # Corrupt /\ ExtractUserKey(got.key) # u)

(* ApproximateOffsetOf never decreases from a smaller to a larger key.       *)
OffsetsAreMonotone ==
    phase = "built" /\ damage = "none" /\ L0 \in DOMAIN files =>
        \A u, v \in Workload[layer].seeks : Less(u, v) =>
            ApproximateOffsetOf(L0, LookupKey(u, snapshot)) <= ApproximateOffsetOf(L0, LookupKey(v, snapshot))

(* The three iterators under DBIter are cursors on their sorted entries,     *)
(* through every sequence of seeks and changes of direction.                 *)
IteratorsAreCursors == BlockIterIsCursor /\ TwoLevelIterIsCursor /\ MergingIterIsCursor

(* What a table answers without an iterator is right: its point reads and    *)
(* its offsets.                                                              *)
TableAnswers == GetFindsNewest /\ OffsetsAreMonotone
=============================================================================
