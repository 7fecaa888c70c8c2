------------------------------- MODULE Snappy -------------------------------
(***************************************************************************)
(* Snappy 1.1.0, which LevelDB compresses its blocks with: Compress with   *)
(* the hash table of CompressFragment, and the decompressor with its two   *)
(* writers, the flat array and the validator.  Bytes are the numbers the   *)
(* code uses; between the two a byte can be damaged or the end lost.       *)
(***************************************************************************)
EXTENDS Integers, Sequences

CONSTANTS
    SnappyInputs,     \* the strings that are compressed
    kBlockSize_,      \* kBlockSize of snappy.h, 65536 in the code
    Buckets,          \* sizes of the hash table; 1 makes all words collide
    OddBytes          \* what a damaged byte reads as

VARIABLES
    z,                \* the compressor
    packed,           \* the compressed string
    unpack            \* per writer: a SnappyDecompressor and its Writer

snappyVars == <<z, packed, unpack>>

At(s, i) == s[i + 1]                       \* C's s[i]
Tail0(s, i) == SubSeq(s, i + 1, Len(s))    \* C's s + i
Piece(s, i, n) == SubSeq(s, i + 1, i + n)
Lower(a, b) == IF a < b THEN a ELSE b
Higher(a, b) == IF a < b THEN b ELSE a
Load32(s, i) == Piece(s, i, 4)

-----------------------------------------------------------------------------
(* The format. *)
MarginOfOneWord == 4
kInputMarginBytes == 15
kMaxIncrementCopyOverflow == 10
MaxCompressedLength(n) == 32 + n + n \div 6

RECURSIVE Encode32(_)
Encode32(v) == IF v < 128 THEN <<v>> ELSE <<128 + (v % 128)>> \o Encode32(v \div 128)

LITERAL == 0
COPY_1_BYTE_OFFSET == 1
COPY_2_BYTE_OFFSET == 2
COPY_4_BYTE_OFFSET == 3

RECURSIVE LengthBytes(_)
LengthBytes(n) == IF n = 0 THEN <<>> ELSE <<n % 256>> \o LengthBytes(n \div 256)

LiteralTagShort(len) == <<LITERAL + 4 * (len - 1)>>      \* no extra length bytes
LiteralTag(len) ==
    IF len - 1 < 60 THEN <<LITERAL + 4 * (len - 1)>>
    ELSE LET bytes == LengthBytes(len - 1) IN <<LITERAL + 4 * (59 + Len(bytes))>> \o bytes
EmitLiteral(literal) == LiteralTag(Len(literal)) \o literal

EmitCopyLessThan64(offset, len) ==
    IF len < 12 /\ offset < 2048
    THEN <<COPY_1_BYTE_OFFSET + 4 * (len - 4) + 32 * (offset \div 256), offset % 256>>
    ELSE <<COPY_2_BYTE_OFFSET + 4 * (len - 1), offset % 256, offset \div 256>>

RECURSIVE EmitCopy(_, _)
EmitCopy(offset, len) ==
    CASE len >= 68             -> EmitCopyLessThan64(offset, 64) \o EmitCopy(offset, len - 64)
      [] len > 64 /\ len < 68  -> EmitCopyLessThan64(offset, 60) \o EmitCopyLessThan64(offset, len - 60)
      [] OTHER                 -> EmitCopyLessThan64(offset, len)

(* char_table: the extra bytes, the length and the high bits of the offset. *)
TagEntry(c) ==
    LET n == c \div 4 IN
    CASE c % 4 = LITERAL            -> IF n < 60 THEN [extra |-> 0, len |-> n + 1, high |-> 0]
                                       ELSE [extra |-> n - 59, len |-> 1, high |-> 0]
      [] c % 4 = COPY_1_BYTE_OFFSET -> [extra |-> 1, len |-> 4 + (n % 8), high |-> 256 * (c \div 32)]
      [] c % 4 = COPY_2_BYTE_OFFSET -> [extra |-> 2, len |-> n + 1, high |-> 0]
      [] c % 4 = COPY_4_BYTE_OFFSET -> [extra |-> 4, len |-> n + 1, high |-> 0]

-----------------------------------------------------------------------------
(* Compress and CompressFragment.  far is how far the fast paths have read  *)
(* the fragment, reach how far they have written the output.               *)
HashBytes(word, size) == (word[1] + 3 * word[2] + 5 * word[3] + 7 * word[4]) % size
HashAt(i) == HashBytes(Load32(z.fragment, i), z.buckets)
GetHashTable(size) == [h \in 0 .. size - 1 |-> 0]

StartCompress(input, size) ==
    [pc |-> "fragment", input |-> input, rest |-> input, fragment |-> <<>>, buckets |-> size,
     table |-> GetHashTable(size), ip |-> 0, next_ip |-> 0, next_emit |-> 0, skip |-> 32,
     candidate |-> 0, far |-> 0, reach |-> 0]

SnappyInit ==
    \E input \in SnappyInputs, size \in Buckets :
        /\ z = StartCompress(input, size)
        /\ packed = Encode32(Len(input))
        /\ unpack = [w \in {"array", "validator"} |-> [pc |-> "closed"]]

(* The loop of Compress: the next kBlockSize bytes, with a cleared table. *)
NextFragment ==
    /\ z.pc = "fragment"
    /\ LET n == Lower(Len(z.rest), kBlockSize_)
           fresh == [z EXCEPT !.fragment = Piece(z.rest, 0, n), !.rest = Tail0(@, n), !.far = 0,
                              !.table = GetHashTable(z.buckets), !.next_emit = 0, !.ip = 1, !.next_ip = 1,
                              !.skip = 32, !.pc = IF n >= kInputMarginBytes THEN "scan" ELSE "remainder"]
       IN z' = IF n = 0 THEN [z EXCEPT !.pc = "packed"] ELSE fresh
    /\ UNCHANGED <<packed, unpack>>

IpLimit == Len(z.fragment) - kInputMarginBytes

(* Step 1 and, when four bytes match, step 2 with its literal.  Literals of *)
(* at most 16 bytes are copied in two words of eight.                       *)
ScanStep ==
    /\ z.pc = "scan"
    /\ LET ip == z.next_ip
           next == ip + z.skip \div 32
           hash == HashAt(ip)
           candidate == z.table[hash]
           literal == Piece(z.fragment, z.next_emit, ip - z.next_emit)
           fast == Len(literal) <= 16
           tag == Len(LiteralTag(Len(literal)))
           stepped == [z EXCEPT !.ip = ip, !.next_ip = next, !.skip = @ + 1]
       IN \/ /\ next > IpLimit
             /\ z' = [stepped EXCEPT !.pc = "remainder"]
             /\ UNCHANGED packed
          \/ /\ next <= IpLimit /\ Load32(z.fragment, ip) # Load32(z.fragment, candidate)
             /\ z' = [stepped EXCEPT !.table[hash] = ip]
             /\ UNCHANGED packed
          \/ /\ next <= IpLimit /\ Load32(z.fragment, ip) = Load32(z.fragment, candidate)
             /\ z' = [stepped EXCEPT !.table[hash] = ip, !.pc = "copy", !.candidate = candidate,
                                     !.far = Higher(@, z.next_emit + IF fast THEN 16 ELSE 0),
                                     !.reach = Higher(@, Len(packed) + tag + IF fast THEN 16 ELSE Len(literal))]
             /\ packed' = packed \o EmitLiteral(literal)
    /\ UNCHANGED unpack

(* FindMatchLength(s1, s2, end) *)
FindMatchLength(s, s1, s2) ==
    CHOOSE n \in 0 .. Len(s) - s2 :
        /\ \A i \in 0 .. n - 1 : At(s, s1 + i) = At(s, s2 + i)
        /\ n < Len(s) - s2 => At(s, s1 + n) # At(s, s2 + n)

(* Step 3, one turn: the copy, the two table entries behind it, and whether *)
(* another copy follows at once.                                            *)
CopyStep ==
    /\ z.pc = "copy"
    /\ LET matched == 4 + FindMatchLength(z.fragment, z.candidate + 4, z.ip + 4)
           ip == z.ip + matched
           behind == [z.table EXCEPT ![HashAt(ip - 1)] = ip - 1]
           candidate == behind[HashAt(ip)]
           moved == [z EXCEPT !.ip = ip, !.next_emit = ip]
       IN /\ packed' = packed \o EmitCopy(z.ip - z.candidate, matched)
          /\ z' = CASE ip >= IpLimit -> [moved EXCEPT !.pc = "remainder"]
                    [] ip < IpLimit /\ Load32(z.fragment, ip) = Load32(z.fragment, candidate) ->
                           [moved EXCEPT !.table = [behind EXCEPT ![HashAt(ip)] = ip], !.candidate = candidate]
                    [] OTHER ->
                           [moved EXCEPT !.table = [behind EXCEPT ![HashAt(ip)] = ip], !.pc = "scan",
                                         !.ip = ip + 1, !.next_ip = ip + 1, !.skip = 32]
    /\ UNCHANGED unpack

EmitRemainder ==
    /\ z.pc = "remainder"
    /\ packed' = packed \o IF z.next_emit < Len(z.fragment) THEN EmitLiteral(Tail0(z.fragment, z.next_emit)) ELSE <<>>
    /\ z' = [z EXCEPT !.pc = "fragment", !.reach = Higher(@, Len(packed'))]
    /\ UNCHANGED unpack

-----------------------------------------------------------------------------
(* The compressed string is damaged, or not. *)
LosePackedEnd(n) ==
    /\ z.pc = "packed" /\ n \in 0 .. Len(packed)
    /\ packed' = Piece(packed, 0, n)
    /\ z' = [z EXCEPT !.pc = IF n = Len(packed) THEN "kept" ELSE "broken"]
    /\ UNCHANGED unpack

DamagePacked(p, b) ==
    /\ z.pc = "packed" /\ packed[p] # b
    /\ packed' = [packed EXCEPT ![p] = b]
    /\ z' = [z EXCEPT !.pc = "broken"]
    /\ UNCHANGED unpack

-----------------------------------------------------------------------------
(* ReadUncompressedLength: where the tags begin and the length, or failure. *)
RECURSIVE ReadLength(_, _, _)
ReadLength(i, shift, scale) ==
    IF shift >= 32 \/ i >= Len(packed) THEN [ok |-> FALSE]
    ELSE IF At(packed, i) < 128 THEN [ok |-> TRUE, at |-> i + 1, n |-> At(packed, i) * scale]
    ELSE LET r == ReadLength(i + 1, shift + 7, scale * 128) IN
         IF r.ok THEN [r EXCEPT !.n = @ + (At(packed, i) % 128) * scale] ELSE r

(* A writer for limit bytes; buf holds what has been written, past op too.  *)
NewWriter(at, limit) == [pc |-> "tag", ip |-> at, limit |-> limit, op |-> 0, buf |-> <<>>]

(* InternalUncompress begins. *)
OpenUnpack(w) ==
    /\ z.pc \in {"kept", "broken"} /\ unpack[w].pc = "closed"
    /\ w = "validator" => unpack["array"].pc \in {"good", "bad"}
    /\ LET length == ReadLength(0, 0, 1)
       IN unpack' = [unpack EXCEPT ![w] =
              IF length.ok THEN NewWriter(length.at, length.n) ELSE [NewWriter(0, 0) EXCEPT !.pc = "bad"]]
    /\ UNCHANGED <<z, packed>>

Junk == -1
CellAt(buf, i) == IF i \in 0 .. Len(buf) - 1 THEN At(buf, i) ELSE Junk
Overwrite(buf, at, cells) ==
    [i \in 1 .. Higher(Len(buf), at + Len(cells)) |->
        IF at < i /\ i <= at + Len(cells) THEN cells[i - at] ELSE CellAt(buf, i - 1)]
UnalignedCopy64(buf, src, op) == Overwrite(buf, op, [i \in 1 .. 8 |-> CellAt(buf, src + i - 1)])

RECURSIVE IncrementalCopy(_, _, _, _)
IncrementalCopy(buf, src, op, len) ==
    IF len = 0 THEN buf
    ELSE IncrementalCopy(Overwrite(buf, op, <<CellAt(buf, src)>>), src + 1, op + 1, len - 1)

RECURSIVE CopyWords(_, _, _, _)
CopyWords(buf, src, op, len) ==
    IF len <= 0 THEN buf ELSE CopyWords(UnalignedCopy64(buf, src, op), src + 8, op + 8, len - 8)

RECURSIVE IncrementalCopyFastPath(_, _, _, _)
IncrementalCopyFastPath(buf, src, op, len) ==
    IF op - src < 8
    THEN IncrementalCopyFastPath(UnalignedCopy64(buf, src, op), src, op + (op - src), len - (op - src))
    ELSE CopyWords(buf, src, op, len)

(* The methods of the writers.  A result without buf is a refusal. *)
Refuse == [ok |-> FALSE]
Accept(buf, op) == [ok |-> TRUE, buf |-> buf, op |-> op]

(* The validator only counts. *)
Validate(d, len) == IF d.op + len <= d.limit THEN Accept(<<>>, d.op + len) ELSE Refuse

AppendTo(w, d, bytes) ==
    IF w = "validator" THEN Validate(d, Len(bytes))
    ELSE IF d.limit - d.op < Len(bytes) THEN Refuse
    ELSE Accept(Overwrite(d.buf, d.op, bytes), d.op + Len(bytes))

(* TryFastAppend copies 16 bytes, whatever the length. *)
FastAppends(w, d, len) ==
    w = "array" /\ len <= 16 /\ Len(packed) - (d.ip + 1) >= 16 /\ d.limit - d.op >= 16
FastAppend(d, len) == Accept(Overwrite(d.buf, d.op, Piece(packed, d.ip + 1, 16)), d.op + len)

OffsetRefusedLate(w, d, offset) ==       \* off by one in the validator only
    offset = 0 \/ IF w = "array" THEN d.op <= offset - 1 ELSE d.op < offset - 1
OffsetRefused(w, d, offset) == offset = 0 \/ d.op <= offset - 1

SpaceForFastCopyLoose(d, len) == d.limit - d.op >= len
SpaceForFastCopy(d, len) == d.limit - d.op >= len + kMaxIncrementCopyOverflow

AppendFromSelf(w, d, offset, len) ==
    LET src == d.op - offset
        space_left == d.limit - d.op
    IN CASE OffsetRefused(w, d, offset) -> Refuse
         [] ~ OffsetRefused(w, d, offset) /\ w = "validator" ->
                Validate(d, len)
         [] ~ OffsetRefused(w, d, offset) /\ w = "array" ->
                CASE len <= 16 /\ offset >= 8 /\ space_left >= 16 ->
                         Accept(UnalignedCopy64(UnalignedCopy64(d.buf, src, d.op), src + 8, d.op + 8), d.op + len)
                  [] ~ (len <= 16 /\ offset >= 8 /\ space_left >= 16) /\ SpaceForFastCopy(d, len) ->
                         Accept(IncrementalCopyFastPath(d.buf, src, d.op, len), d.op + len)
                  [] OTHER -> IF space_left < len THEN Refuse
                              ELSE Accept(IncrementalCopy(d.buf, src, d.op, len), d.op + len)

(* Little-endian bytes behind a tag; beyond 2^31 the value only counts as   *)
(* too large.  A length of 2^32 is 0 for a size_t of 32 bits.               *)
TooLong == 2147483647
Trailer32(bytes) ==
    LET b(i) == IF i <= Len(bytes) THEN bytes[i] ELSE 0 IN
    IF b(4) >= 127 THEN TooLong - 1 ELSE b(1) + 256 * b(2) + 65536 * b(3) + 16777216 * b(4)
LongLength(bytes) == IF bytes = <<255, 255, 255, 255>> THEN 0 ELSE Trailer32(bytes) + 1

(* One tag of DecompressAllTags, behind RefillTag: the input is one piece,  *)
(* and the copy of its last bytes to scratch_, so that four bytes can be    *)
(* loaded behind any tag, is left out.  UnalignedCopy64 is one load and one *)
(* store, as on 64-bit builds.                                              *)
Stop(d, pc) == [d EXCEPT !.pc = pc]
DecompressTag(w, d) ==
    LET c == At(packed, d.ip)
        entry == TagEntry(c)
        at == d.ip + 1 + entry.extra
        trailer == Piece(packed, d.ip + 1, entry.extra)
        len == IF entry.extra = 0 THEN entry.len ELSE LongLength(trailer)
        fast == entry.extra = 0 /\ FastAppends(w, d, len)
        literal == IF fast THEN FastAppend(d, len)
                   ELSE IF len > Len(packed) - at THEN Refuse      \* premature end of input
                   ELSE AppendTo(w, d, Piece(packed, at, len))
        copy == AppendFromSelf(w, d, entry.high + Trailer32(trailer), entry.len)
        r == IF c % 4 = LITERAL THEN literal ELSE copy
    IN IF d.ip = Len(packed) THEN Stop(d, IF d.op = d.limit THEN "good" ELSE "bad")
       ELSE IF at > Len(packed) \/ ~ r.ok THEN Stop(d, "bad")
       ELSE [d EXCEPT !.ip = IF c % 4 = LITERAL THEN at + len ELSE at, !.op = r.op, !.buf = r.buf]

UnpackTag(w) ==
    /\ unpack[w].pc = "tag"
    /\ unpack' = [unpack EXCEPT ![w] = DecompressTag(w, @)]
    /\ UNCHANGED <<z, packed>>

SnappyNext ==
    \/ NextFragment \/ ScanStep \/ CopyStep \/ EmitRemainder
    \/ \E n \in 0 .. Len(packed) : LosePackedEnd(n)
    \/ \E p \in DOMAIN packed, b \in OddBytes : DamagePacked(p, b)
    \/ \E w \in {"array", "validator"} : OpenUnpack(w) \/ UnpackTag(w)

-----------------------------------------------------------------------------
(* What is compressed is what comes out, whatever the hash table led the     *)
(* compressor to, across fragments, long literals and overlapping copies.    *)
SnappyRoundTrip ==
    z.pc = "kept" /\ unpack["array"].pc \in {"good", "bad"} =>
        /\ unpack["array"].pc = "good"
        /\ Piece(unpack["array"].buf, 0, unpack["array"].op) = z.input

(* The fast paths of the compressor copy words of eight bytes past the       *)
(* literal: they never read behind the fragment, and never write behind the  *)
(* space MaxCompressedLength promises for the whole input.                   *)
CompressorStaysInside ==
    /\ z.far <= Len(z.fragment)
    /\ z.reach <= MaxCompressedLength(Len(z.input))
    /\ Len(packed) <= MaxCompressedLength(Len(z.input))

(* Whatever bytes it is given, the decompressor writes inside the output     *)
(* only, words of eight included, and a success means the output is full and *)
(* every byte of it was written from the input.                              *)
DecompressorStaysInside ==
    LET d == unpack["array"] IN
    d.pc # "closed" =>
        /\ Len(d.buf) <= d.limit
        /\ d.pc = "good" => d.op = d.limit /\ \A i \in 1 .. d.op : d.buf[i] # Junk

(* IsValidCompressedBuffer says yes exactly when RawUncompress succeeds,     *)
(* though its writer takes none of the fast paths.                           *)
ValidatorAgrees ==
    unpack["validator"].pc \in {"good", "bad"} => unpack["validator"].pc = unpack["array"].pc

(* The compressor neither reads nor writes outside its buffers, the          *)
(* decompressor does not write outside its own, and the check in advance     *)
(* judges as the decompression does.                                         *)
SnappyStaysInside == CompressorStaysInside /\ DecompressorStaysInside /\ ValidatorAgrees
=============================================================================
