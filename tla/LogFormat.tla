----------------------------- MODULE LogFormat -----------------------------
(***************************************************************************)
(* LevelDB's log files: log::Writer cuts records into fragments that never *)
(* cross a block, log::Reader puts them together again.  Between the two   *)
(* the file can lose its end (the writer died) and a cell can be damaged.  *)
(*                                                                         *)
(* A file is a sequence of cells.  A header has three: the checksum, the   *)
(* length and the type (7 bytes in the code).  The checksum is perfect.    *)
(***************************************************************************)
EXTENDS Integers, Sequences, FiniteSets

CONSTANTS
    kBlockSize,      \* 32768 in the code
    Lengths,         \* lengths of records the writer is given
    MaxRecords,      \* bound: records of a log
    InitialOffsets   \* where readers are told to start

kHeaderSize == 3

ASSUME LogConstants ==
    /\ kBlockSize \in Nat /\ kBlockSize > kHeaderSize
    /\ Lengths \subseteq Nat /\ MaxRecords \in Nat /\ InitialOffsets \subseteq Nat

VARIABLES
    file,          \* the cells of the file
    block_offset,  \* Writer.block_offset_
    todo,          \* the call of AddRecord in progress
    starts,        \* per record: where it begins
    ends,          \* per record: where it ends, once AddRecord has returned
    damage,        \* Intact, Short, or the position of the damaged cell
    rd,            \* the Reader
    out,           \* records ReadRecord has returned
    reports        \* has a corruption been reported?

logFile == <<file, block_offset, todo, starts, ends, damage>>
logVars == <<file, block_offset, todo, starts, ends, damage, rd, out, reports>>

Intact == 0
Short == -1

Zero == [k |-> "zero"]
(* The cells from position m to n, as far as there are any: a Slice. *)
Cells(s, m, n) == SubSeq(s, m, IF n < Len(s) THEN n ELSE Len(s))
Payload(r, from, n) == [i \in 1 .. n |-> [k |-> "data", r |-> r, i |-> from + i]]
kFullType == "full"
kFirstType == "first"
kMiddleType == "middle"
kLastType == "last"
Types == {kFullType, kFirstType, kMiddleType, kLastType}

Idle == [rec |-> 0, left |-> 0, begin |-> FALSE]

LogInit ==
    /\ file = <<>> /\ block_offset = 0 /\ todo = Idle
    /\ starts = <<>> /\ ends = <<>>
    /\ damage = Intact
    /\ rd = [pc |-> "closed"] /\ out = <<>> /\ reports = FALSE

-----------------------------------------------------------------------------
(* Writer::AddRecord: the call, then one step of its loop per fragment. *)
AddRecord(n) ==
    /\ rd.pc = "closed" /\ damage = Intact /\ todo = Idle
    /\ Len(starts) < MaxRecords
    /\ todo' = [rec |-> Len(starts) + 1, left |-> n, begin |-> TRUE]
    /\ starts' = Append(starts, [at |-> Len(file), len |-> n])
    /\ UNCHANGED <<file, block_offset, ends, damage, rd, out, reports>>

TypeOf(begin, end) ==
    CASE begin /\ end   -> kFullType
      [] begin /\ ~ end -> kFirstType
      [] ~ begin /\ end -> kLastType
      [] OTHER          -> kMiddleType

(* EmitPhysicalRecord: header and payload. *)
Physical(type, data) ==
    <<[k |-> "crc", type |-> type, data |-> data], [k |-> "len", n |-> Len(data)],
      [k |-> "type", type |-> type]>> \o data

(* The trailer of a block that has no room for a header. *)
TrailerOffByOne(left) == IF left <= kHeaderSize THEN left ELSE 0
Trailer(left) == IF left < kHeaderSize THEN left ELSE 0

EmitPhysicalRecord ==
    /\ todo # Idle
    /\ LET leftover == kBlockSize - block_offset
           pad == Trailer(leftover)
           at == IF leftover < kHeaderSize THEN 0 ELSE block_offset
           avail == kBlockSize - at - kHeaderSize
           n == IF todo.left < avail THEN todo.left ELSE avail
           end == todo.left = n
           from == starts[todo.rec].len - todo.left
       IN /\ file' = file \o [i \in 1 .. pad |-> Zero]
                          \o Physical(TypeOf(todo.begin, end), Payload(todo.rec, from, n))
          /\ block_offset' = at + kHeaderSize + n
          /\ starts' = IF todo.begin THEN [starts EXCEPT ![todo.rec].at = Len(file) + pad] ELSE starts
          /\ todo' = IF end THEN Idle ELSE [todo EXCEPT !.left = @ - n, !.begin = FALSE]
          /\ ends' = IF end THEN Append(ends, Len(file')) ELSE ends
    /\ UNCHANGED <<damage, rd, out, reports>>

(* The writer dies; the file ends anywhere. *)
Cut(n) ==
    /\ rd.pc = "closed" /\ damage = Intact
    /\ n \in 0 .. Len(file)
    /\ file' = SubSeq(file, 1, n)
    /\ damage' = Short
    /\ todo' = Idle
    /\ UNCHANGED <<block_offset, starts, ends, rd, out, reports>>

(* One cell is damaged: a length or a type then reads as any other, a type  *)
(* also as the two numbers that stand for kEof and kBadRecord.              *)
Misread(cell) ==
    CASE cell.k = "len"  -> [k : {"len"}, n : 0 .. kBlockSize] \ {cell}
      [] cell.k = "type" -> [k : {"type"}, type : Types \cup {"zero", "eof", "bad", "unknown"}] \ {cell}
      [] OTHER           -> {[k |-> "bad"]}

Damage(p, cell) ==
    /\ rd.pc = "closed" /\ damage = Intact /\ todo = Idle
    /\ file' = [file EXCEPT ![p] = cell]
    /\ damage' = p
    /\ UNCHANGED <<block_offset, todo, starts, ends, rd, out, reports>>

-----------------------------------------------------------------------------
(* Reader::Reader and, at the first ReadRecord, SkipToInitialBlock.  The    *)
(* repair reads from the start and does not checksum; a wrong length then   *)
(* points at any bytes, a case that is left out.                            *)
OpenReader(initial, checksum) ==
    LET inBlock == initial % kBlockSize
        start == initial - inBlock + IF inBlock > kBlockSize - (kHeaderSize - 1) THEN kBlockSize ELSE 0
    IN /\ rd.pc = "closed" /\ todo = Idle
       /\ ~ checksum => initial = 0
       /\ ~ checksum /\ damage > Intact => file[damage].k # "len"
       /\ rd' = [pc |-> IF start > Len(file) THEN "end" ELSE "read", pos |-> start, buffer |-> <<>>,
                 eof |-> FALSE, fragmented |-> FALSE, scratch |-> <<>>, initial |-> initial, checksum |-> checksum, failed |-> FALSE]
       /\ UNCHANGED <<logFile, out, reports>>

NoDrop == -1   \* nothing dropped

(* What ReadPhysicalRecord returns: a type, the payload, the buffer that is left. *)
Result(type, data, buffer, drop) == [type |-> type, data |-> data, buffer |-> buffer, drop |-> drop]
BadSilent(drop) == Result("bad", <<>>, <<>>, NoDrop)     \* nothing reported
BadEnds(drop) == Result("eof", <<>>, <<>>, drop)         \* taken for the end of the log
Bad(drop) == Result("bad", <<>>, <<>>, drop)
EndOfFile == Result("eof", <<>>, <<>>, NoDrop)

LengthIn(buffer) == IF buffer[2].k = "len" THEN buffer[2].n ELSE 0
TypeIn(buffer) == IF buffer[3].k = "type" THEN buffer[3].type ELSE "zero"

ChecksumIgnored(buffer, n) == buffer[3].k = "type"
ChecksumMatches(buffer, n) ==
    /\ buffer[1].k = "crc"
    /\ buffer[1].type = TypeIn(buffer)
    /\ buffer[1].data = Cells(buffer, kHeaderSize + 1, kHeaderSize + n)

(* The part of ReadPhysicalRecord behind the refill of the buffer.  pos is  *)
(* end_of_buffer_offset_.                                                   *)
Parse(buffer, pos, eof, initial) ==
    LET n == LengthIn(buffer)
        rest == Cells(buffer, kHeaderSize + n + 1, Len(buffer))
    IN IF kHeaderSize + n > Len(buffer) THEN IF eof THEN EndOfFile ELSE Bad(Len(buffer))
       ELSE IF TypeIn(buffer) = "zero" /\ n = 0 THEN Bad(NoDrop)
       ELSE IF rd.checksum /\ ~ ChecksumMatches(buffer, n) THEN Bad(Len(buffer))
       ELSE IF pos - Len(rest) - kHeaderSize - n < initial THEN Result("bad", <<>>, rest, NoDrop)
       ELSE Result(TypeIn(buffer), SubSeq(buffer, kHeaderSize + 1, kHeaderSize + n), rest, NoDrop)

(* file_->Read(kBlockSize): what is left in the buffer is a trailer. *)
ReadBlock ==
    /\ rd.pc = "read" /\ Len(rd.buffer) < kHeaderSize /\ ~ rd.eof
    /\ LET block == Cells(file, rd.pos + 1, rd.pos + kBlockSize)
       IN rd' = [rd EXCEPT !.buffer = block, !.pos = @ + Len(block), !.eof = Len(block) < kBlockSize]
    /\ UNCHANGED <<logFile, out, reports>>

(* ReportDrop passes on what lies behind initial_offset_ only; a difference *)
(* below zero wraps and is large.                                           *)
Reported(dropped, position) ==
    dropped # NoDrop /\ (position - dropped >= rd.initial \/ position < dropped)

(* A read fails, after some of the block perhaps, and the log is at its end. *)
ReadBlockFails(n) ==
    /\ rd.pc = "read" /\ Len(rd.buffer) < kHeaderSize /\ ~ rd.eof
    /\ rd.pos + n <= Len(file)
    /\ rd' = [rd EXCEPT !.pc = "end", !.buffer = <<>>, !.pos = @ + n, !.eof = TRUE, !.failed = TRUE]
    /\ reports' = (reports \/ Reported(kBlockSize, rd.pos + n))
    /\ UNCHANGED <<logFile, out>>

(* The cases of ReadRecord: what a fragment does to the record put together *)
(* so far, and whether it reports or completes one.                         *)
TakeKeepsOld(r) ==                        \* scratch not cleared after a bad record
    CASE r.type = kFullType  -> [rd EXCEPT !.fragmented = FALSE, !.scratch = <<>>]
      [] r.type = kFirstType -> [rd EXCEPT !.fragmented = TRUE, !.scratch = r.data]
      [] r.type \in {kMiddleType, kLastType} /\ rd.fragmented ->
             [rd EXCEPT !.scratch = @ \o r.data, !.fragmented = r.type = kMiddleType]
      [] OTHER -> rd
Take(r) ==
    CASE r.type = kFullType  -> [rd EXCEPT !.fragmented = FALSE, !.scratch = <<>>]
      [] r.type = kFirstType -> [rd EXCEPT !.fragmented = TRUE, !.scratch = r.data]
      [] r.type \in {kMiddleType, kLastType} /\ rd.fragmented ->
             [rd EXCEPT !.scratch = @ \o r.data, !.fragmented = r.type = kMiddleType]
      [] r.type \notin Types -> [rd EXCEPT !.fragmented = FALSE, !.scratch = <<>>]
      [] OTHER -> rd

LostHere(r) ==
    CASE r.type \in {kFullType, kFirstType} /\ rd.fragmented /\ rd.scratch # <<>> -> Len(rd.scratch)
      [] r.type = "bad" /\ rd.fragmented                  -> Len(rd.scratch)
      [] r.type \in {kMiddleType, kLastType} /\ ~ rd.fragmented     -> Len(r.data)
      [] r.type \in {"zero", "unknown"} -> Len(r.data) + (IF rd.fragmented THEN Len(rd.scratch) ELSE 0)
      [] OTHER -> NoDrop

(* One turn of the loop of ReadRecord; a completed record goes to out. *)
ReadFragment ==
    /\ rd.pc = "read" /\ (Len(rd.buffer) >= kHeaderSize \/ rd.eof)
    /\ LET r == IF Len(rd.buffer) < kHeaderSize THEN EndOfFile
                ELSE Parse(rd.buffer, rd.pos, rd.eof, rd.initial)
           here == rd.pos - Len(r.buffer)
       IN /\ rd' = IF r.type = "eof" THEN [rd EXCEPT !.pc = "end", !.buffer = <<>>]
                   ELSE [Take(r) EXCEPT !.buffer = r.buffer]
          /\ out' = CASE r.type = kFullType -> Append(out, r.data)
                      [] r.type = kLastType /\ rd.fragmented -> Append(out, rd.scratch \o r.data)
                      [] OTHER -> out
          /\ reports' = (reports \/ Reported(r.drop, here) \/ Reported(LostHere(r), here))
    /\ UNCHANGED logFile

LogNext ==
    \/ \E n \in Lengths : AddRecord(n)
    \/ EmitPhysicalRecord
    \/ \E n \in 0 .. Len(file) : Cut(n)
    \/ \E p \in DOMAIN file : \E cell \in Misread(file[p]) : Damage(p, cell)
    \/ \E o \in InitialOffsets, checksum \in BOOLEAN : OpenReader(o, checksum)
    \/ ReadBlock
    \/ \E n \in 0 .. kBlockSize - 1 : ReadBlockFails(n)
    \/ ReadFragment

-----------------------------------------------------------------------------
(***************************************************************************)
(* Properties.                                                             *)
(***************************************************************************)
Written(r) == Payload(r, 0, starts[r].len)
Complete == 1 .. Len(ends)
Done == rd.pc = "end"

(* What ReadRecord returns are whole records that were written, each at most *)
(* once and in their order: it never glues fragments of two together.        *)
OnlyWholeRecords ==
    \E ids \in [DOMAIN out -> 0 .. Len(starts)] :
        \A i \in DOMAIN out :
            /\ ids[i] > 0 /\ out[i] = Written(ids[i])
            /\ i > 1 => ids[i - 1] < ids[i]

(* Whatever happened to the file, a reader that checks the checksums returns *)
(* nothing else, and neither does one that does not, as long as the file was *)
(* cut at most.                                                              *)
LogSound == rd.pc # "closed" /\ (rd.checksum \/ damage <= Intact) => OnlyWholeRecords

(* What ConvertLogToTable says of its reader: corruptions cause entire       *)
(* commits to be skipped.                                                    *)
CorruptionsAreSkipped == OnlyWholeRecords

(* A writer that died leaves a log from which every record that is whole is  *)
(* read, from the offset asked for on, and reading from the start reports no *)
(* corruption: a torn tail is not an error.                                  *)
WholeFrom(offset) == {r \in Complete : ends[r] <= Len(file) /\ starts[r].at >= offset}
TornTailIsQuiet ==
    Done /\ damage \in {Intact, Short} /\ ~ rd.failed =>
        /\ Len(out) = Cardinality(WholeFrom(rd.initial))
        /\ rd.initial = 0 => ~ reports

(* A damaged cell costs the records of its own block only: all records that  *)
(* have no cell in that block are read, if the checksums are checked.        *)
BlockOf(p) == (p - 1) \div kBlockSize
Touches(r, b) == BlockOf(starts[r].at + 1) <= b /\ b <= BlockOf(ends[r])
DamageIsLocal ==
    Done /\ damage > Intact /\ rd.checksum /\ ~ rd.failed =>
        \A r \in Complete : ~ Touches(r, BlockOf(damage)) /\ starts[r].at >= rd.initial =>
            \E i \in DOMAIN out : out[i] = Written(r)

(* Records lost to damage or to a read that fails are reported by a reader   *)
(* that checks the checksums, with two exceptions that the code makes on     *)
(* purpose: in the last, short block a wrong length looks like the end of a  *)
(* writer that died, and an empty record of type zero is taken for space     *)
(* allocated in advance.                                                     *)
LooksAllocated(p) == file[p] = [k |-> "type", type |-> "zero"] /\ file[p - 1] = [k |-> "len", n |-> 0]
LossIsReported ==
    /\ Done /\ rd.initial = 0 /\ rd.checksum
    /\ Len(out) < Len(ends)
    /\ \/ rd.failed
       \/ damage > Intact /\ (BlockOf(damage) + 1) * kBlockSize <= Len(file) /\ ~ LooksAllocated(damage)
    => reports

(* Reading a log gives every whole record there is to be had: all of them    *)
(* after a writer that died, and all outside the damaged block otherwise.    *)
WholeRecordsAreRead == TornTailIsQuiet /\ DamageIsLocal
=============================================================================
