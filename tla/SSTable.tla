------------------------------ MODULE SSTable ------------------------------
(***************************************************************************)
(* Table files: keys and their order, blocks, filters, the builder and the *)
(* parts of the reader that need no other iterator.                        *)
(*                                                                         *)
(* A user key is a string of bytes 0 .. kMaxByte.  An internal key is a    *)
(* user key and one more cell, sequence number and type packed together.   *)
(* Positions inside a block count entries, positions inside a file count   *)
(* the cells of keys and values.                                           *)
(***************************************************************************)
EXTENDS Integers, Sequences, SequencesExt, FiniteSetsExt

CONSTANTS
    kMaxByte,             \* 0xff
    kMaxSequenceNumber,
    block_size,           \* options.block_size
    block_restart_interval,
    kFilterBase,          \* a filter covers this much of the file
    kWord,                \* bits of a hash value
    bits_per_key,         \* of the Bloom filter
    num_probes            \* its k_

ASSUME SSTableConstants ==
    /\ kMaxByte \in Nat /\ kMaxSequenceNumber \in Nat
    /\ block_restart_interval \in Nat \ {0} /\ kFilterBase \in Nat \ {0}
    /\ num_probes \in 1 .. 30

VARIABLE files          \* the table files, by number
-----------------------------------------------------------------------------
(* dbformat.h *)
kTypeDeletion == 0
kTypeValue == 1
kValueTypeForSeek == kTypeValue
PackSequenceAndType(seq, t) == 2 * seq + t
InternalKey(user, seq, t) == Append(user, PackSequenceAndType(seq, t))
ExtractUserKey(k) == Front(k)
Number(k) == Last(k)
SequenceOf(k) == Number(k) \div 2
TypeOf(k) == Number(k) % 2

(* Slice::compare: memcmp, then the lengths.  Less is the sign "negative". *)
Less(a, b) ==
    LET n == Min({Len(a), Len(b)})
    IN \E i \in 1 .. n + 1 :
           /\ \A j \in 1 .. i - 1 : a[j] = b[j]
           /\ IF i > n THEN Len(a) < Len(b) ELSE a[i] < b[i]

(* InternalKeyComparator::Compare: newer entries of a key come first. *)
KeyLess(a, b) ==
    \/ Less(ExtractUserKey(a), ExtractUserKey(b))
    \/ ExtractUserKey(a) = ExtractUserKey(b) /\ Number(a) > Number(b)

SharedPrefix(a, b) ==
    Max({n \in 0 .. Min({Len(a), Len(b)}) : \A i \in 1 .. n : a[i] = b[i]})

(* BytewiseComparator: a short key in [start, limit). *)
UserSeparator(start, limit) ==
    LET d == SharedPrefix(start, limit) + 1
    IN IF d > Min({Len(start), Len(limit)}) THEN start
       ELSE IF start[d] < kMaxByte /\ start[d] + 1 < limit[d]
       THEN Append(SubSeq(start, 1, d - 1), start[d] + 1) ELSE start

UserSuccessor(key) ==
    LET free == {i \in DOMAIN key : key[i] # kMaxByte}
    IN IF free = {} THEN key ELSE Append(SubSeq(key, 1, Min(free) - 1), key[Min(free)] + 1)

(* A shorter user key gets the earliest of all numbers. *)
Shortened(key, user) ==
    IF Len(user) < Len(ExtractUserKey(key)) /\ Less(ExtractUserKey(key), user)
    THEN InternalKey(user, kMaxSequenceNumber, kValueTypeForSeek) ELSE key
FindShortestSeparator(start, limit) ==
    Shortened(start, UserSeparator(ExtractUserKey(start), ExtractUserKey(limit)))
FindShortSuccessor(key) == Shortened(key, UserSuccessor(ExtractUserKey(key)))

-----------------------------------------------------------------------------
(* BlockBuilder *)
NewBlock == [entries |-> <<>>, restarts |-> <<0>>, counter |-> 0, last_key |-> <<>>, bytes |-> 0]

BlockAddShares(b, key, value, interval) ==   \* a restart point that shares its key
    LET restart == b.counter >= interval
        shared == SharedPrefix(b.last_key, key)
        delta == SubSeq(key, shared + 1, Len(key))
    IN [entries  |-> Append(b.entries, [shared |-> shared, delta |-> delta, value |-> value]),
        restarts |-> IF restart THEN Append(b.restarts, Len(b.entries)) ELSE b.restarts,
        counter  |-> IF restart THEN 1 ELSE b.counter + 1,
        last_key |-> key,
        bytes    |-> b.bytes + Len(delta) + 1]
BlockAdd(b, key, value, interval) ==
    LET restart == b.counter >= interval
        shared == IF restart THEN 0 ELSE SharedPrefix(b.last_key, key)
        delta == SubSeq(key, shared + 1, Len(key))
    IN [entries  |-> Append(b.entries, [shared |-> shared, delta |-> delta, value |-> value]),
        restarts |-> IF restart THEN Append(b.restarts, Len(b.entries)) ELSE b.restarts,
        counter  |-> IF restart THEN 1 ELSE b.counter + 1,
        last_key |-> key,
        bytes    |-> b.bytes + Len(delta) + 1]

CurrentSizeEstimate(b) == b.bytes + Len(b.restarts)
FinishBlock(b) == [entries |-> b.entries, restarts |-> b.restarts, count |-> Len(b.restarts)]

-----------------------------------------------------------------------------
(* Block::Iter.  next is NextEntryOffset(), the end of value_. *)
NoKey == <<>>
RestartsAt(it) == Len(it.block.entries)
NumRestarts(it) == Len(it.block.restarts)
GetRestartPoint(it, index) == it.block.restarts[index + 1]

NewIter(block) ==
    [kind |-> "block", block |-> block, current |-> Len(block.entries), next |-> 0,
     restart_index |-> Len(block.restarts), key |-> NoKey, value |-> NoKey, status |-> "ok"]

(* EmptyIterator, which is always at its end, with the status it was given. *)
ErrorIterator == [kind |-> "error", status |-> "corruption"]
NewEmptyIterator == [kind |-> "error", status |-> "ok"]

(* Block::NewIterator: a block too small for its count of restart points,   *)
(* one without any, which no builder writes, and the rest.                  *)
NewBlockIterator(block) ==
    CASE block.count > Len(block.restarts) -> ErrorIterator
      [] block.count = 0                   -> NewEmptyIterator
      [] OTHER                             -> NewIter(block)

BlockValid(it) == it.current < RestartsAt(it)

SeekToRestartPoint(it, index) ==
    [it EXCEPT !.key = NoKey, !.restart_index = index, !.next = GetRestartPoint(it, index)]

BlockExhausted(it) == [it EXCEPT !.current = RestartsAt(it), !.restart_index = NumRestarts(it)]
CorruptionError(it) == [BlockExhausted(it) EXCEPT !.status = "corruption", !.key = NoKey, !.value = NoKey]

(* DecodeEntry fails on an entry whose header makes no sense. *)
Decodable(e) == e.shared # -1

Passed(it) == {r \in it.restart_index + 1 .. NumRestarts(it) - 1 : GetRestartPoint(it, r) < it.next}
ParseEntry(it, e) ==
    IF ~ Decodable(e) \/ Len(it.key) < e.shared THEN CorruptionError(it)
    ELSE [it EXCEPT !.current = it.next, !.next = @ + 1, !.value = e.value,
                    !.key = SubSeq(it.key, 1, e.shared) \o e.delta,
                    !.restart_index = Max({it.restart_index} \cup Passed(it))]
ParseNextKey(it) ==
    IF it.next >= RestartsAt(it) THEN BlockExhausted(it) ELSE ParseEntry(it, it.block.entries[it.next + 1])

(* ParseNextKey until the next entry would begin at stop or beyond. *)
RECURSIVE ScanUpTo(_, _)
ScanUpTo(it, stop) ==
    IF BlockValid(it) /\ it.next < stop THEN ScanUpTo(ParseNextKey(it), stop) ELSE it

BlockPrev(it) ==
    LET before == {r \in 0 .. it.restart_index : GetRestartPoint(it, r) < it.current}
    IN IF before = {} THEN BlockExhausted(it)
       ELSE ScanUpTo(ParseNextKey(SeekToRestartPoint(it, Max(before))), it.current)

(* The binary search over the restart points; -1 is a corrupt one. *)
RECURSIVE SearchRestart(_, _, _, _)
SearchRestart(it, left, right, target) ==
    LET mid == (left + right + 1) \div 2
        e == it.block.entries[GetRestartPoint(it, mid) + 1]
    IN IF left >= right THEN left
       ELSE IF ~ Decodable(e) \/ e.shared # 0 THEN -1
       ELSE IF KeyLess(e.delta, target) THEN SearchRestart(it, mid, right, target)
       ELSE SearchRestart(it, left, mid - 1, target)

RECURSIVE ScanForKey(_, _)
ScanForKey(it, target) ==
    IF BlockValid(it) /\ KeyLess(it.key, target) THEN ScanForKey(ParseNextKey(it), target) ELSE it

SeekFrom(it, r, target) ==
    IF r = -1 THEN CorruptionError(it) ELSE ScanForKey(ParseNextKey(SeekToRestartPoint(it, r)), target)
BlockSeek(it, target) == SeekFrom(it, SearchRestart(it, 0, NumRestarts(it) - 1, target), target)

BlockSeekToFirst(it) == ParseNextKey(SeekToRestartPoint(it, 0))
BlockSeekToLast(it) == ScanUpTo(ParseNextKey(SeekToRestartPoint(it, NumRestarts(it) - 1)), RestartsAt(it))

-----------------------------------------------------------------------------
(* The Bloom filter: double hashing, the step is the hash rotated. *)
BloomHash(user) == FoldLeft(LAMBDA h, b : (5 * h + 3 * b + 1) % (2 ^ kWord), 7, user)
Delta(h) == (h \div 2 ^ (kWord \div 2)) + (h % 2 ^ (kWord \div 2)) * 2 ^ (kWord - (kWord \div 2))
Probes(user, bits, k) ==
    LET h == BloomHash(user) IN {((h + j * Delta(h)) % (2 ^ kWord)) % bits : j \in 0 .. k - 1}

CreateFilter(users) ==
    LET bits == 8 * ((Max({8, Cardinality(users) * bits_per_key}) + 7) \div 8)
    IN [bits |-> bits, k |-> num_probes, set |-> UNION {Probes(u, bits, num_probes) : u \in users}]
BloomMayMatch(user, filter) == Probes(user, filter.bits, filter.k) \subseteq filter.set

(* InternalFilterPolicy hands the user keys on. *)
FilterKeyWhole(k) == k                    \* sequence and type left in the key
FilterKey(k) == ExtractUserKey(k)

(* FilterBlockBuilder: the filters so far, where each index begins, the     *)
(* keys that have none yet.                                                 *)
NewFilterBlock == [result |-> <<>>, offsets |-> <<>>, keys |-> {}]
GenerateFilter(f) ==
    [result |-> IF f.keys = {} THEN f.result
                ELSE Append(f.result, CreateFilter({ExtractUserKey(k) : k \in f.keys})),
     offsets |-> Append(f.offsets, Len(f.result)), keys |-> {}]
RECURSIVE StartBlock(_, _)
StartBlock(f, offset) ==
    IF offset \div kFilterBase > Len(f.offsets) THEN StartBlock(GenerateFilter(f), offset) ELSE f
AddKey(f, key) == [f EXCEPT !.keys = @ \cup {key}]
FinishFilter(f) ==
    LET g == IF f.keys = {} THEN f ELSE GenerateFilter(f)
    IN [result |-> g.result, offsets |-> Append(g.offsets, Len(g.result))]

(* FilterBlockReader::KeyMayMatch; the word behind the last offset is the   *)
(* start of the array of offsets.                                           *)
KeyMayMatch(filter, offset, key) ==
    LET index == offset \div kFilterBase
        start == filter.offsets[index + 1]
        limit == filter.offsets[index + 2]
    IN IF index >= Len(filter.offsets) - 1 THEN TRUE
       ELSE start < limit /\ BloomMayMatch(FilterKey(key), filter.result[start + 1])

-----------------------------------------------------------------------------
(* TableBuilder.  The file is a function from offsets to stored blocks. *)
kBlockTrailerSize == 1
NewBuilder ==
    [data |-> NewBlock, index |-> NewBlock, filter |-> StartBlock(NewFilterBlock, 0),
     last_key |-> NoKey, pending |-> FALSE, handle |-> [offset |-> 0, size |-> 0],
     offset |-> 0, blocks |-> << >>]

(* WriteBlock: compressed when that saves an eighth; WriteRawBlock appends  *)
(* the block and its trailer.  Which blocks Snappy shrinks is left to their *)
(* size: some do and some do not.                                           *)
CompressedSize(bytes) == IF bytes % 2 = 0 THEN bytes \div 2 ELSE bytes
Stored(contents, bytes) ==
    LET packed == CompressedSize(bytes)
        small == packed < bytes - (bytes \div 8)
    IN [contents |-> contents, type |-> IF small THEN "snappy" ELSE "none",
        size |-> IF small THEN packed ELSE bytes, damaged |-> FALSE]
WriteRawBlock(b, s) ==
    [b EXCEPT !.blocks = (b.offset :> s) @@ @, !.handle = [offset |-> b.offset, size |-> s.size],
              !.offset = @ + s.size + kBlockTrailerSize]

AddIndexEntry(b, key) ==
    IF b.pending THEN [b EXCEPT !.index = BlockAdd(@, key, b.handle, 1), !.pending = FALSE] ELSE b

WriteBlock(b, block) == WriteRawBlock(b, Stored(FinishBlock(block), CurrentSizeEstimate(block)))

NextFilter(b) == [b EXCEPT !.data = NewBlock, !.pending = TRUE, !.filter = StartBlock(@, b.offset)]
Flush(b) == IF b.data.entries = <<>> THEN b ELSE NextFilter(WriteBlock(b, b.data))

FlushIfFull(b) == IF CurrentSizeEstimate(b.data) >= block_size THEN Flush(b) ELSE b
TableAdd(b, e) ==
    FlushIfFull([AddIndexEntry(b, FindShortestSeparator(b.last_key, e.key)) EXCEPT
                    !.filter = AddKey(@, e.key), !.last_key = e.key,
                    !.data = BlockAdd(@, e.key, e.value, block_restart_interval)])

(* Finish: the last block, the filter, the metaindex, the index, the footer. *)
WriteFilter(b) == WriteRawBlock(b, [Stored(FinishFilter(b.filter), 1) EXCEPT !.type = "none"])
WriteMetaindex(b) == WriteRawBlock(b, Stored(b.handle, 1))
WriteIndex(b) == WriteBlock(b, b.index)
Footer(b, meta) == [blocks |-> b.blocks, metaindex |-> meta, index |-> b.handle]
FinishFrom(b, meta) ==
    Footer(WriteIndex(AddIndexEntry([meta EXCEPT !.handle = b.handle], FindShortSuccessor(b.last_key))), meta.handle)
FinishFlushed(b) == FinishFrom(b, WriteMetaindex(WriteFilter(b)))
FinishTable(b) == FinishFlushed(Flush(b))

(* BuildTable: smallest and largest are the first and the last key. *)
BuildTable(entries) ==
    FinishTable(FoldLeft(TableAdd, NewBuilder, entries))
        @@ [smallest |-> entries[1].key, largest |-> Last(entries).key]

-----------------------------------------------------------------------------
(* ReadBlock: the checksum if it is asked for, the type, the decompression. *)
ReadFailed == [ok |-> FALSE]
ReadStored(s, verify) ==
    IF \/ verify /\ s.damaged
       \/ s.type \notin {"none", "snappy"}
       \/ s.type = "snappy" /\ s.damaged
    THEN ReadFailed ELSE [ok |-> TRUE, contents |-> s.contents]
ReadBlock(number, handle, verify) == ReadStored(files[number].blocks[handle.offset], verify)

IteratorOn(r) == IF r.ok THEN NewBlockIterator(r.contents) ELSE ErrorIterator
BlockReader(number, handle, verify) == IteratorOn(ReadBlock(number, handle, verify))

(* Table::Open reads the footer and the index block; here and for the       *)
(* filter paranoid_checks decides whether the checksum is verified, for the *)
(* blocks of data verify_checksums does.                                    *)
OpenTable(number, paranoid) == ReadBlock(number, files[number].index, paranoid)

(* ReadMeta and ReadFilter: without a readable filter there is none. *)
NoFilter == [offsets |-> <<0>>, result |-> <<>>]
ReadFilter(r) == IF r.ok THEN r.contents ELSE NoFilter
ReadMeta(number, r, paranoid) == IF r.ok THEN ReadFilter(ReadBlock(number, r.contents, paranoid)) ELSE NoFilter
FilterOf(number, paranoid) == ReadMeta(number, ReadBlock(number, files[number].metaindex, paranoid), paranoid)

(* Table::InternalGet: what the saver is called with, NotFound, or an error. *)
NotFound == [key |-> NoKey, value |-> "not found"]
Corrupt == [key |-> NoKey, value |-> "corruption"]
Nothing(at) == IF at.status = "ok" THEN NotFound ELSE Corrupt
SavedValue(at) == IF BlockValid(at) THEN [key |-> at.key, value |-> at.value] ELSE Nothing(at)
GetInBlock(block, k) == IF block.kind = "error" THEN Nothing(block) ELSE SavedValue(BlockSeek(block, k))
GetAt(number, iiter, k, verify, paranoid) ==
    IF ~ BlockValid(iiter) THEN Nothing(iiter)
    ELSE IF ~ KeyMayMatch(FilterOf(number, paranoid), iiter.value.offset, k) THEN NotFound
    ELSE GetInBlock(BlockReader(number, iiter.value, verify), k)
GetFrom(number, index, k, verify, paranoid) ==
    IF index.kind = "error" THEN Nothing(index) ELSE GetAt(number, BlockSeek(index, k), k, verify, paranoid)
InternalGet(number, k, verify, paranoid) ==
    GetFrom(number, IteratorOn(OpenTable(number, paranoid)), k, verify, paranoid)

OffsetAt(iiter, meta) == IF BlockValid(iiter) THEN iiter.value.offset ELSE meta
ApproximateOffsetOf(number, k) ==
    OffsetAt(BlockSeek(IteratorOn(OpenTable(number, FALSE)), k), files[number].metaindex.offset)
=============================================================================
