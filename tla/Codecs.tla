------------------------------- MODULE Codecs -------------------------------
(***************************************************************************)
(* How LevelDB turns numbers, keys, write batches and version edits into   *)
(* bytes and reads them back: coding.cc, dbformat.cc, write_batch.cc,      *)
(* version_edit.cc and the entries of memtable.cc.  A byte has kRadix      *)
(* payload values and one continuation bit; the widths of the two integer  *)
(* types are constants, so that values at the limit of each are reached.   *)
(***************************************************************************)
EXTENDS Integers, Sequences

CONSTANTS
    kRadix,        \* 128 in the code
    Width32,       \* 2^32
    Width64,       \* 2^64
    kNumLevels,
    UserKeys,      \* byte strings
    UserValues,    \* byte strings
    Sequences0,    \* sequence numbers batches get
    Edits,         \* version edits that are encoded
    MaxOps         \* bound: operations on the batches

VARIABLES
    batch,         \* the two write batches: rep_ and what it stands for
    steps,         \* operations so far
    got            \* what a reader made of a record

codecVars == <<batch, steps, got>>

kByte == 2 * kRadix
BytesFor(width) == CHOOSE n \in 1 .. 10 : kByte ^ n >= width /\ kByte ^ (n - 1) < width
GroupsFor(width) == CHOOSE n \in 1 .. 10 : kRadix ^ n >= width /\ kRadix ^ (n - 1) < width

Drop(s, n) == SubSeq(s, n + 1, Len(s))

-----------------------------------------------------------------------------
(* coding.cc *)
EncodeFixed(v, width) == [i \in 1 .. BytesFor(width) |-> (v \div kByte ^ (i - 1)) % kByte]
RECURSIVE DecodeFixed(_)
DecodeFixed(s) == IF s = <<>> THEN 0 ELSE s[1] + kByte * DecodeFixed(Tail(s))

RECURSIVE EncodeVarint(_)
EncodeVarint(v) == IF v < kRadix THEN <<v>> ELSE <<kRadix + (v % kRadix)>> \o EncodeVarint(v \div kRadix)

Missing == [ok |-> FALSE]
Found(value, rest) == [ok |-> TRUE, value |-> value, rest |-> rest]

(* The loop of GetVarint32PtrFallback and GetVarint64Ptr: one group per     *)
(* byte, until the shift exceeds the width or the input ends.               *)
RECURSIVE GetGroups(_, _)
GetGroups(s, groups) ==
    IF groups = 0 \/ s = <<>> THEN Missing
    ELSE IF s[1] < kRadix THEN Found(s[1], Tail(s))
    ELSE LET more == GetGroups(Tail(s), groups - 1)
         IN IF more.ok THEN [more EXCEPT !.value = (s[1] % kRadix) + kRadix * @] ELSE Missing

GetVarintShort(s, width) ==               \* shift < 28: one group too few
    LET r == GetGroups(s, GroupsFor(width) - 1) IN IF r.ok THEN [r EXCEPT !.value = @ % width] ELSE r
GetVarint(s, width) ==
    LET r == GetGroups(s, GroupsFor(width)) IN IF r.ok THEN [r EXCEPT !.value = @ % width] ELSE r

LengthPrefixed(s) == EncodeVarint(Len(s)) \o s

GetLengthPrefixedUnchecked(s) ==          \* the slice clipped instead of refused
    LET n == GetVarint(s, Width32)
        len == IF n.value <= Len(n.rest) THEN n.value ELSE Len(n.rest)
    IN IF n.ok THEN Found(SubSeq(n.rest, 1, len), Drop(n.rest, len)) ELSE Missing
GetLengthPrefixed(s) ==
    LET n == GetVarint(s, Width32)
    IN IF n.ok /\ Len(n.rest) >= n.value THEN Found(SubSeq(n.rest, 1, n.value), Drop(n.rest, n.value))
       ELSE Missing

-----------------------------------------------------------------------------
(* dbformat: an internal key is the user key, its sequence number and type. *)
kTypeDeletion == 0
kTypeValue == 1
PackSequenceAndType(seq, t) == seq * kByte + t
InternalKey(user, seq, t) == user \o EncodeFixed(PackSequenceAndType(seq, t), Width64)
ParseInternalKey(s) ==
    LET n == Len(s) - BytesFor(Width64)
        num == DecodeFixed(Drop(s, n))
    IN [user |-> SubSeq(s, 1, n), seq |-> num \div kByte, type |-> num % kByte]

-----------------------------------------------------------------------------
(* write_batch.cc: a sequence number, a count, then the records. *)
CountAt == BytesFor(Width64)
kHeader == CountAt + BytesFor(Width32)
EmptyRep == [i \in 1 .. kHeader |-> 0]

Count(rep) == DecodeFixed(SubSeq(rep, CountAt + 1, kHeader))
SetCount(rep, n) == SubSeq(rep, 1, CountAt) \o EncodeFixed(n, Width32) \o Drop(rep, kHeader)
Sequence(rep) == DecodeFixed(SubSeq(rep, 1, CountAt))
SetSequence(rep, seq) == EncodeFixed(seq, Width64) \o Drop(rep, CountAt)

PutRep(rep, k, v) ==
    SetCount(rep, Count(rep) + 1) \o <<kTypeValue>> \o LengthPrefixed(k) \o LengthPrefixed(v)
DeleteRep(rep, k) == SetCount(rep, Count(rep) + 1) \o <<kTypeDeletion>> \o LengthPrefixed(k)

AppendRepOnce(dst, src) == SetCount(dst, Count(dst) + 1) \o Drop(src, kHeader)
AppendRep(dst, src) == SetCount(dst, Count(dst) + Count(src)) \o Drop(src, kHeader)

(* MemTable::Add: the entry for one record. *)
MemEntry(seq, t, k, v) == LengthPrefixed(InternalKey(k, seq, t)) \o LengthPrefixed(v)

(* WriteBatch::Iterate with the MemTableInserter as its handler: the        *)
(* entries handed to the table so far and whether the batch was sound.      *)
RECURSIVE Iterate(_, _, _, _)
Iterate(input, seq, mem, count) ==
    LET key == GetLengthPrefixed(Tail(input))
        value == GetLengthPrefixed(key.rest)
    IN CASE input = <<>> -> [ok |-> Len(mem) = count, mem |-> mem]
         [] input # <<>> /\ input[1] = kTypeValue ->
                IF key.ok /\ value.ok
                THEN Iterate(value.rest, seq + 1, Append(mem, MemEntry(seq, kTypeValue, key.value, value.value)), count)
                ELSE [ok |-> FALSE, mem |-> mem]
         [] input # <<>> /\ input[1] = kTypeDeletion ->
                IF key.ok
                THEN Iterate(key.rest, seq + 1, Append(mem, MemEntry(seq, kTypeDeletion, key.value, <<>>)), count)
                ELSE [ok |-> FALSE, mem |-> mem]
         [] OTHER -> [ok |-> FALSE, mem |-> mem]

InsertInto(rep) ==
    IF Len(rep) < kHeader THEN [ok |-> FALSE, mem |-> <<>>]
    ELSE Iterate(Drop(rep, kHeader), Sequence(rep), <<>>, Count(rep))

-----------------------------------------------------------------------------
(* version_edit.cc *)
None == -1
kComparator == 1
kLogNumber == 2
kNextFileNumber == 3
kLastSequence == 4
kCompactPointer == 5
kDeletedFile == 6
kNewFile == 7
kPrevLogNumber == 9

(* A new VersionEdit after the Clear of DecodeFrom, which leaves the        *)
(* compaction pointers alone: every edit decoded is a new one.              *)
ClearedEdit ==
    [comparator |-> <<>>, log |-> None, prev |-> None, next |-> None, last |-> None,
     pointers |-> <<>>, deleted |-> {}, files |-> <<>>]

RECURSIVE Concat(_)
Concat(ss) == IF ss = <<>> THEN <<>> ELSE Head(ss) \o Concat(Tail(ss))

(* A std::set is walked in its order. *)
RECURSIVE InOrder(_)
InOrder(pairs) ==
    IF pairs = {} THEN <<>>
    ELSE LET least == CHOOSE p \in pairs : \A q \in pairs : p[1] < q[1] \/ (p[1] = q[1] /\ p[2] <= q[2])
         IN <<least>> \o InOrder(pairs \ {least})

EncodeTo(e) ==
    LET pointer(p) == EncodeVarint(kCompactPointer) \o EncodeVarint(p[1]) \o LengthPrefixed(p[2])
        gone(d) == EncodeVarint(kDeletedFile) \o EncodeVarint(d[1]) \o EncodeVarint(d[2])
        file(f) == EncodeVarint(kNewFile) \o EncodeVarint(f.level) \o EncodeVarint(f.number)
                       \o EncodeVarint(f.size) \o LengthPrefixed(f.smallest) \o LengthPrefixed(f.largest)
        number(tag, n) == IF n = None THEN <<>> ELSE EncodeVarint(tag) \o EncodeVarint(n)
        each(s, op(_)) == Concat([i \in DOMAIN s |-> op(s[i])])
    IN (IF e.comparator = <<>> THEN <<>> ELSE EncodeVarint(kComparator) \o LengthPrefixed(e.comparator))
           \o number(kLogNumber, e.log) \o number(kPrevLogNumber, e.prev)
           \o number(kNextFileNumber, e.next) \o number(kLastSequence, e.last)
           \o each(e.pointers, pointer) \o each(InOrder(e.deleted), gone) \o each(e.files, file)

GetLevel(s) == LET n == GetVarint(s, Width32) IN IF n.ok /\ n.value < kNumLevels THEN n ELSE Missing
Number64(s) == GetVarint(s, Width64)

(* One turn of the loop of DecodeFrom: the fields behind a tag. *)
DecodeField(tag, s, e) ==
    LET bytes == GetLengthPrefixed(s)
        n == Number64(s)
        level == GetLevel(s)
        key == GetLengthPrefixed(level.rest)
        number == Number64(level.rest)
        size == Number64(number.rest)
        smallest == GetLengthPrefixed(size.rest)
        largest == GetLengthPrefixed(smallest.rest)
    IN CASE tag = kComparator -> IF bytes.ok THEN Found([e EXCEPT !.comparator = bytes.value], bytes.rest) ELSE Missing
         [] tag = kLogNumber      -> IF n.ok THEN Found([e EXCEPT !.log = n.value], n.rest) ELSE Missing
         [] tag = kPrevLogNumber  -> IF n.ok THEN Found([e EXCEPT !.prev = n.value], n.rest) ELSE Missing
         [] tag = kNextFileNumber -> IF n.ok THEN Found([e EXCEPT !.next = n.value], n.rest) ELSE Missing
         [] tag = kLastSequence   -> IF n.ok THEN Found([e EXCEPT !.last = n.value], n.rest) ELSE Missing
         [] tag = kCompactPointer ->
                IF level.ok /\ key.ok
                THEN Found([e EXCEPT !.pointers = Append(@, <<level.value, key.value>>)], key.rest)
                ELSE Missing
         [] tag = kDeletedFile ->
                IF level.ok /\ number.ok
                THEN Found([e EXCEPT !.deleted = @ \cup {<<level.value, number.value>>}], number.rest)
                ELSE Missing
         [] tag = kNewFile ->
                IF level.ok /\ number.ok /\ size.ok /\ smallest.ok /\ largest.ok
                THEN Found([e EXCEPT !.files = Append(@, [level |-> level.value, number |-> number.value,
                                size |-> size.value, smallest |-> smallest.value, largest |-> largest.value])],
                           largest.rest)
                ELSE Missing
         [] OTHER -> Missing

RECURSIVE DecodeFrom(_, _)
DecodeFrom(s, e) ==
    LET tag == GetVarint(s, Width32)
        field == DecodeField(tag.value, tag.rest, e)
    IN IF tag.ok /\ field.ok THEN DecodeFrom(field.rest, field.value)
       ELSE [ok |-> ~ tag.ok /\ s = <<>>, edit |-> e]

-----------------------------------------------------------------------------
Batches == {1, 2}
Nothing == [kind |-> "nothing"]

CodecInit ==
    /\ batch = [b \in Batches |-> [rep |-> EmptyRep, ops |-> <<>>, seq |-> 0]]
    /\ steps = 0 /\ got = Nothing

Change(b, rep, ops, seq) ==
    /\ got = Nothing /\ steps < MaxOps
    /\ batch' = [batch EXCEPT ![b] = [rep |-> rep, ops |-> ops, seq |-> seq]]
    /\ steps' = steps + 1 /\ UNCHANGED got

BatchPut(b, k, v) ==
    Change(b, PutRep(batch[b].rep, k, v), Append(batch[b].ops, [type |-> kTypeValue, key |-> k, value |-> v]), batch[b].seq)
BatchDelete(b, k) ==
    Change(b, DeleteRep(batch[b].rep, k), Append(batch[b].ops, [type |-> kTypeDeletion, key |-> k, value |-> <<>>]), batch[b].seq)
BatchClear(b) == batch[b].ops # <<>> /\ Change(b, EmptyRep, <<>>, 0)
BatchSetSequence(b, s) == Change(b, SetSequence(batch[b].rep, s), batch[b].ops, s)
BatchAppend(b, c) ==
    b # c /\ Change(b, AppendRep(batch[b].rep, batch[c].rep), batch[b].ops \o batch[c].ops, batch[b].seq)

(* A record holds the first n bytes of a batch or an edit; it is read. *)
ReadBatch(b, n) ==
    /\ got = Nothing
    /\ LET r == InsertInto(SubSeq(batch[b].rep, 1, n))
       IN got' = [kind |-> "batch", whole |-> n = Len(batch[b].rep), from |-> batch[b], ok |-> r.ok, mem |-> r.mem]
    /\ UNCHANGED <<batch, steps>>

WriteEdit(e) ==
    /\ got = Nothing /\ steps = 0
    /\ got' = [kind |-> "encoded", from |-> e, bytes |-> EncodeTo(e)]
    /\ UNCHANGED <<batch, steps>>

ReadEdit(n) ==
    /\ LET r == DecodeFrom(SubSeq(got.bytes, 1, n), ClearedEdit)
       IN got' = [kind |-> "edit", whole |-> n = Len(got.bytes), from |-> got.from, ok |-> r.ok, edit |-> r.edit]
    /\ UNCHANGED <<batch, steps>>

CodecNext ==
    \/ \E b \in Batches : \/ \E k \in UserKeys, v \in UserValues : BatchPut(b, k, v)
                          \/ \E k \in UserKeys : BatchDelete(b, k)
                          \/ BatchClear(b)
                          \/ \E s \in Sequences0 : BatchSetSequence(b, s)
                          \/ \E c \in Batches : BatchAppend(b, c)
                          \/ \E n \in 0 .. Len(batch[b].rep) : ReadBatch(b, n)
    \/ \E e \in Edits : WriteEdit(e)
    \/ got.kind = "encoded" /\ \E n \in 0 .. Len(got.bytes) : ReadEdit(n)

-----------------------------------------------------------------------------
EntryOf(op, seq) == MemEntry(seq, op.type, op.key, op.value)

(* A write batch, put together by any sequence of calls and merges, reaches  *)
(* the memtable as exactly its operations, in order, with consecutive        *)
(* sequence numbers; and each entry gives its key, number and type back.     *)
BatchReadBack ==
    got.kind = "batch" /\ got.whole =>
        /\ got.ok /\ Len(got.mem) = Len(got.from.ops)
        /\ \A i \in DOMAIN got.mem :
               LET op == got.from.ops[i]
                   key == GetLengthPrefixed(got.mem[i])
                   value == GetLengthPrefixed(key.rest)
               IN /\ key.ok /\ value.ok /\ value.rest = <<>> /\ value.value = op.value
                  /\ ParseInternalKey(key.value) = [user |-> op.key, seq |-> got.from.seq + i - 1, type |-> op.type]

(* A batch that lost its end is never accepted, not even when the cut falls  *)
(* between two records; and what Iterate has already handed on by then is a  *)
(* prefix of the batch, never a record that was not in it.                   *)
CutBatchIsRefused ==
    got.kind = "batch" /\ ~ got.whole =>
        /\ ~ got.ok
        /\ Len(got.mem) <= Len(got.from.ops)
        /\ \A i \in DOMAIN got.mem : got.mem[i] = EntryOf(got.from.ops[i], got.from.seq + i - 1)

(* A version edit decodes to itself, for numbers at the limits of their      *)
(* widths too; cut short, it decodes to an error or to part of itself.       *)
Prefix(s, t) == Len(s) <= Len(t) /\ s = SubSeq(t, 1, Len(s))
EditReadBack ==
    got.kind = "edit" =>
        /\ got.whole => got.ok /\ got.edit = got.from
        /\ \A f \in {"log", "prev", "next", "last"} : got.edit[f] \in {None, got.from[f]}
        /\ got.edit.comparator \in {<<>>, got.from.comparator}
        /\ got.edit.deleted \subseteq got.from.deleted
        /\ Prefix(got.edit.pointers, got.from.pointers) /\ Prefix(got.edit.files, got.from.files)

(* Write batches and version edits survive their encoding; what is left of a *)
(* batch after a cut is refused, and what is left of an edit decodes to an   *)
(* error or to part of that edit.                                            *)
RecordsReadBack == BatchReadBack /\ CutBatchIsRefused /\ EditReadBack
=============================================================================
