----------------------------- MODULE RegionFile -----------------------------
(***************************************************************************)
(* A Minecraft region file, as DesktopRegionFile (the .mca files read by   *)
(* the converter) and the Pocket Edition RegionFile keep it: an offset     *)
(* table in sector 0, an optional timestamp sector, then chunks in runs of *)
(* whole sectors.  Every file operation of a write is a step of its own,   *)
(* so that the process can die, or an IOException be swallowed, between    *)
(* any two of them.  Sector contents are abstracted to the part of which   *)
(* payload of which slot they hold.                                        *)
(***************************************************************************)
EXTENDS Integers

CONSTANTS
    SECTOR_INTS,     \* 1024 in the code: ints in a sector, slots in the table
    SECTOR_LIMIT,    \* 256: a longer run does not fit the count byte
    HasTimestamps,   \* TRUE: DesktopRegionFile; FALSE: the PE RegionFile
    MaxSectors,      \* bound on the growth of the file
    UseAfterFault,   \* bound: FALSE stops at a file that should be reopened
    Payloads,        \* serialised chunks
    Length,          \* their lengths in bytes
    Absent,          \* null, returned for a chunk that is not there
    Torn             \* anything else that is not a payload written earlier

CHUNK_HEADER_SIZE == 5
SECTOR_BYTES == 4 * SECTOR_INTS
(* Bytes in front of the data: the length and, in DesktopRegionFile, a version. *)
FieldBytes == IF HasTimestamps THEN 5 ELSE 4

ASSUME RegionConstants ==
    /\ SECTOR_INTS \in Nat /\ SECTOR_INTS >= 2
    /\ SECTOR_LIMIT \in Nat
    /\ HasTimestamps \in BOOLEAN /\ UseAfterFault \in BOOLEAN
    /\ MaxSectors \in Nat /\ MaxSectors >= 2
    /\ Length \in [Payloads -> Nat]
    /\ Absent \notin Payloads /\ Torn \notin Payloads /\ Absent # Torn
    /\ Absent \notin (0 .. SECTOR_INTS - 1) \X Payloads

VARIABLES
    fileSectors,  \* file.length() / SECTOR_BYTES
    tail,         \* ints in the file behind its last whole sector
    table,        \* the offset table on disk
    content,      \* what each sector on disk holds
    offsets,      \* the table in memory
    sectorFree,   \* the sectors marked free in memory
    nSectors,     \* sectorFree.size()
    pc,           \* the next step of the constructor or of write
    w,            \* arguments and locals of the write in progress
    health        \* has an IOException been swallowed since the last open?

vars == <<fileSectors, tail, table, content, offsets, sectorFree, nSectors, pc, w, health>>
disk == <<fileSectors, tail, table, content>>
memory == <<offsets, sectorFree, nSectors>>

Slots == 0 .. (SECTOR_INTS - 1)
Sectors == 0 .. (MaxSectors - 1)
HeaderSectorsMutant == {0}                \* sector 1 not reserved for the timestamps
HeaderSectors == IF HasTimestamps THEN {0, 1} ELSE {0}

(* An entry of the table: sec is offset >> 8, cnt is offset & 255. *)
Entry == {e \in [sec : Sectors, cnt : 0 .. MaxSectors] : e.sec + e.cnt <= MaxSectors}
NoEntry == [sec |-> 0, cnt |-> 0]
Run(e) == e.sec .. (e.sec + e.cnt - 1)

(* Part k of payload p of slot c; part -1 is the new length field over old data. *)
Tag(c, p, k) == <<c, p, k>>
Blank == <<>>

SectorsNeededMutant(p) == Length[p] \div SECTOR_BYTES + 1   \* header forgotten
SectorsNeeded(p) == (Length[p] + CHUNK_HEADER_SIZE) \div SECTOR_BYTES + 1
(* Index of the last sector that the bytes of p reach. *)
LastPart(p) == (Length[p] + FieldBytes - 1) \div SECTOR_BYTES

(***************************************************************************)
(* getChunkDataInputStream / getChunkData, for the table offs.             *)
(***************************************************************************)
Holds(e, c, p) ==
    /\ Length[p] + 1 <= e.cnt * SECTOR_BYTES
    /\ \A k \in 0 .. LastPart(p) :
          e.sec + k \in Sectors /\ content[e.sec + k] = Tag(c, p, k)

ReadAs(offs, size, c) ==
    LET e == offs[c] IN
    IF e = NoEntry \/ e.sec + e.cnt > size THEN Absent
    ELSE IF \E p \in Payloads : Holds(e, c, p)
         THEN CHOOSE p \in Payloads : Holds(e, c, p)
         ELSE Torn

(* What a process that opens the file now would read, where a payload counts *)
(* only if it lies inside the run of its own slot.                           *)
Durable(c) ==
    LET r == ReadAs(table, fileSectors, c) IN
    IF r \in Payloads /\ LastPart(r) >= table[c].cnt THEN Torn ELSE r

NoWrite == [slot |-> 0, payload |-> Absent, sec |-> 0, path |-> "none", i |-> 0]

Init ==
    /\ fileSectors = 0
    /\ tail = 0
    /\ table = [c \in Slots |-> NoEntry]
    /\ content = [s \in Sectors |-> Blank]
    /\ offsets = [c \in Slots |-> NoEntry]
    /\ sectorFree = {}
    /\ nSectors = 0
    /\ pc = "closed"
    /\ w = NoWrite
    /\ health = "ok"

-----------------------------------------------------------------------------
(***************************************************************************)
(* The constructor.                                                        *)
(***************************************************************************)
OpenFile ==
    /\ pc = "closed"
    /\ pc' = IF fileSectors = 0 THEN "create" ELSE "load"
    /\ UNCHANGED <<disk, memory, w, health>>

(* One writeInt(0) of the two loops that create the header, from the start *)
(* of the file: ints left by an interrupted creation are overwritten.      *)
CreateInt ==
    /\ pc = "create"
    /\ LET extends == fileSectors > 0 \/ w.i >= tail
           full == extends /\ tail + 1 = SECTOR_INTS IN
       /\ fileSectors' = IF full THEN fileSectors + 1 ELSE fileSectors
       /\ tail' = IF full THEN 0 ELSE IF extends THEN tail + 1 ELSE tail
       /\ pc' = IF full /\ fileSectors = 1 THEN "load" ELSE "create"
       /\ w' = IF full /\ fileSectors = 1 THEN NoWrite ELSE [w EXCEPT !.i = @ + 1]
    /\ table' = IF w.i \in Slots THEN [table EXCEPT ![w.i] = NoEntry] ELSE table
    /\ UNCHANGED <<content, memory, health>>

(* The file pointer is 0 when the tail of an unaligned file is padded, so   *)
(* as many bytes at the start of the offset table become zero.  They are     *)
(* whole ints: the file is only ever extended by whole ints and sectors.     *)
PaddedTable == [c \in Slots |-> IF c < tail THEN NoEntry ELSE table[c]]

UsedBy(tab, size) ==
    UNION {Run(tab[c]) : c \in {d \in Slots : tab[d] # NoEntry
                                     /\ tab[d].sec + tab[d].cnt <= size}}

(* The sector map is built from the table read back. *)
LoadTable ==
    /\ pc = "load"
    /\ table' = PaddedTable
    /\ HeaderSectors \subseteq 0 .. fileSectors - 1
    /\ nSectors' = fileSectors
    /\ offsets' = PaddedTable
    /\ sectorFree' = (0 .. fileSectors - 1) \ (HeaderSectors \cup UsedBy(PaddedTable, fileSectors))
    /\ pc' = "idle"
    /\ UNCHANGED <<fileSectors, tail, content, w, health>>

(* sectorFree.set(1, false) throws IndexOutOfBoundsException: the process *)
(* died while it created the header, and no later open ever succeeds.     *)
LoadFails ==
    /\ pc = "load"
    /\ ~ (HeaderSectors \subseteq 0 .. fileSectors - 1)
    /\ table' = PaddedTable
    /\ pc' = "closed"
    /\ UNCHANGED <<fileSectors, tail, content, memory, w, health>>

-----------------------------------------------------------------------------
(***************************************************************************)
(* write(x, z, data, length), up to its first file operation.              *)
(***************************************************************************)
StartWrite(c, p, sec, path, next) ==
    /\ w' = [slot |-> c, payload |-> p, sec |-> sec, path |-> path, i |-> 0]
    /\ pc' = next
    /\ health = "ok" \/ UseAfterFault
    /\ health' = IF health = "ok" THEN "ok" ELSE "spoiled"
    /\ UNCHANGED <<disk, offsets, nSectors>>

FitsInPlace(c, p) == offsets[c].sec # 0 /\ offsets[c].cnt = SectorsNeeded(p)

(* The sectors this chunk used so far are marked free first. *)
FreedTooMany(c) == sectorFree \cup (offsets[c].sec .. offsets[c].sec + offsets[c].cnt)
FreedNothing(c) == sectorFree
Freed(c) == sectorFree \cup Run(offsets[c])

(* Starts of runs of n free sectors, and the first of them: what the scan *)
(* that counts runLength and restarts at every used sector finds.         *)
FreeRuns(free, n) == {s \in free : \A k \in 0 .. n - 1 : s + k \in free}
FirstFit(free, n) == {s \in FreeRuns(free, n) : \A t \in FreeRuns(free, n) : s <= t}

TooLarge(p) ==
    /\ pc = "idle"
    /\ SectorsNeeded(p) >= SECTOR_LIMIT
    /\ UNCHANGED vars

Rewrite(c, p) ==
    /\ pc = "idle"
    /\ SectorsNeeded(p) < SECTOR_LIMIT
    /\ FitsInPlace(c, p)
    /\ StartWrite(c, p, offsets[c].sec, "rewrite", "head")
    /\ UNCHANGED sectorFree

Reuse(c, p) ==
    /\ pc = "idle"
    /\ SectorsNeeded(p) < SECTOR_LIMIT
    /\ ~ FitsInPlace(c, p)
    /\ sectorFree' = Freed(c)
    /\ \E s \in FirstFit(Freed(c), SectorsNeeded(p)) : StartWrite(c, p, s, "reuse", "offset")

Grow(c, p) ==
    /\ pc = "idle"
    /\ SectorsNeeded(p) < SECTOR_LIMIT
    /\ ~ FitsInPlace(c, p)
    /\ FreeRuns(Freed(c), SectorsNeeded(p)) = {}
    /\ nSectors + SectorsNeeded(p) <= MaxSectors
    /\ sectorFree' = Freed(c)
    /\ StartWrite(c, p, nSectors, "grow", "grow")

-----------------------------------------------------------------------------
(***************************************************************************)
(* The file operations of a write.                                         *)
(***************************************************************************)
NewEntry == [sec |-> w.sec, cnt |-> SectorsNeeded(w.payload)]

(* One file.write(emptySector); sectorFree.add(false). *)
AppendSector ==
    /\ pc = "grow"
    /\ fileSectors' = fileSectors + 1
    /\ content' = [content EXCEPT ![nSectors] = Blank]
    /\ nSectors' = nSectors + 1
    /\ pc' = IF nSectors + 1 = w.sec + SectorsNeeded(w.payload) THEN "head" ELSE "grow"
    /\ UNCHANGED <<tail, table, offsets, sectorFree, w, health>>

SetOffsetMutant ==                        \* the entry never reaches the file
    /\ pc = "offset"
    /\ offsets' = [offsets EXCEPT ![w.slot] = NewEntry]
    /\ sectorFree' = IF w.path = "reuse" THEN sectorFree \ Run(NewEntry) ELSE sectorFree
    /\ pc' = IF w.path = "reuse" THEN "head" ELSE "stamp"
    /\ UNCHANGED <<fileSectors, tail, table, content, nSectors, w, health>>

(* setOffset: before the data when a run is reused, after it when the file grew. *)
SetOffset ==
    /\ pc = "offset"
    /\ offsets' = [offsets EXCEPT ![w.slot] = NewEntry]
    /\ table' = [table EXCEPT ![w.slot] = NewEntry]
    /\ sectorFree' = IF w.path = "reuse" THEN sectorFree \ Run(NewEntry) ELSE sectorFree
    /\ pc' = IF w.path = "reuse" THEN "head" ELSE "stamp"
    /\ UNCHANGED <<fileSectors, tail, content, nSectors, w, health>>

(* write(sectorNumber, data, length): the length (and version) field... *)
WriteHead ==
    /\ pc = "head"
    /\ content' = [content EXCEPT ![w.sec] = Tag(w.slot, w.payload, -1)]
    /\ pc' = "data"
    /\ UNCHANGED <<fileSectors, tail, table, memory, w, health>>

(* ... then the data, one sector after the other. *)
WriteData ==
    /\ pc = "data"
    /\ content' = [content EXCEPT ![w.sec + w.i] = Tag(w.slot, w.payload, w.i)]
    /\ w' = [w EXCEPT !.i = @ + 1]
    /\ pc' = CASE w.i < LastPart(w.payload) -> "data"
               [] w.i >= LastPart(w.payload) /\ w.path = "grow" -> "offset"
               [] OTHER -> "stamp"
    /\ UNCHANGED <<fileSectors, tail, table, memory, health>>

(* setTimestamp writes into sector 1; the PE variant returns instead. *)
FinishWrite ==
    /\ pc = "stamp"
    /\ content' = IF HasTimestamps THEN [content EXCEPT ![1] = Blank] ELSE content
    /\ pc' = "idle"
    /\ w' = NoWrite
    /\ UNCHANGED <<fileSectors, tail, table, memory, health>>

(* A file operation of the write fails; write prints the trace and returns. *)
(* setOffset has updated the table in memory by then.                       *)
SwallowIOException ==
    /\ pc \in {"grow", "offset", "head", "data", "stamp"}
    /\ offsets' = IF pc = "offset" THEN [offsets EXCEPT ![w.slot] = NewEntry] ELSE offsets
    /\ pc' = "idle"
    /\ health' = IF health = "ok" THEN "faulted" ELSE health
    /\ w' = NoWrite
    /\ UNCHANGED <<disk, sectorFree, nSectors>>

-----------------------------------------------------------------------------
(* The process dies at any point, or close() between two operations.  An    *)
(* IOException in the constructor leaves an object without a sector map,    *)
(* which is as good as none.                                                *)
Stopped ==
    /\ pc' = "closed"
    /\ offsets' = [c \in Slots |-> NoEntry]
    /\ sectorFree' = {}
    /\ nSectors' = 0
    /\ health' = IF health = "spoiled" THEN "spoiled" ELSE "ok"
    /\ w' = NoWrite
    /\ UNCHANGED disk

Close == pc = "idle" /\ Stopped

Crash == pc \notin {"closed", "idle"} /\ Stopped

WriteStep == AppendSector \/ SetOffset \/ WriteHead \/ WriteData \/ FinishWrite

HealthyNext ==
    \/ OpenFile \/ CreateInt \/ LoadTable \/ LoadFails
    \/ \E c \in Slots, p \in Payloads : Rewrite(c, p) \/ Reuse(c, p) \/ Grow(c, p)
    \/ \E p \in Payloads : TooLarge(p)
    \/ WriteStep
    \/ Close \/ Crash

Next == HealthyNext \/ SwallowIOException

(* No file operation ever fails; the process may still die at any point. *)
HealthySpec == Init /\ [][HealthyNext]_vars

Spec == Init /\ [][Next]_vars

-----------------------------------------------------------------------------
(***************************************************************************)
(* Properties.                                                             *)
(***************************************************************************)
WriteSteps == {"grow", "offset", "head", "data", "stamp"}

(* The variables keep the shapes the code's fields have. *)
TypeOK ==
    /\ fileSectors \in 0 .. MaxSectors
    /\ tail \in Slots
    /\ table \in [Slots -> Entry]
    /\ DOMAIN content = Sectors
    /\ offsets \in [Slots -> Entry]
    /\ sectorFree \subseteq Sectors
    /\ nSectors \in 0 .. MaxSectors
    /\ pc \in {"closed", "create", "load", "idle"} \cup WriteSteps
    /\ w \in [slot : Slots, payload : Payloads \cup {Absent}, sec : Sectors,
              path : {"none", "rewrite", "reuse", "grow"}, i : Nat]
    /\ health \in {"ok", "faulted", "spoiled"}

Stored(tab) == {c \in Slots : tab[c] # NoEntry}

(* Entries lie behind the header, inside the file, and share no sector. *)
RunsSound(tab, size) ==
    /\ \A c \in Stored(tab) :
          /\ tab[c].cnt > 0
          /\ tab[c].sec + tab[c].cnt <= size
          /\ tab[c].sec \notin HeaderSectors
    /\ \A c, d \in Stored(tab) : c # d => Run(tab[c]) \cap Run(tab[d]) = {}

(* At every instant, so also whenever the process dies, the offset table on *)
(* disk gives each chunk sectors of its own outside the header: write frees *)
(* and reuses sectors, and updates table and data in an order that depends  *)
(* on the path taken.  One swallowed IOException is tolerated, as long as   *)
(* the file is reopened before the next write.                              *)
DiskTableSound == health # "spoiled" => RunsSound(table, fileSectors)

(* Between two operations the sector map in memory is exact: a sector is    *)
(* free if and only if no chunk and no header needs it.  A leaked sector    *)
(* grows the file for ever, a sector freed too early loses a chunk.         *)
SectorMapExact ==
    pc = "idle" /\ health = "ok" =>
        /\ offsets = table
        /\ nSectors = fileSectors
        /\ sectorFree = (0 .. nSectors - 1) \ (HeaderSectors \cup UsedBy(table, nSectors))

(* When write returns, getChunkDataInputStream gives back the bytes written, *)
(* from the open file and after a restart, whatever length they have.       *)
WrittenIsReadBack ==
    pc = "stamp" /\ health = "ok" =>
        /\ Durable(w.slot) = w.payload
        /\ ReadAs(offsets, nSectors, w.slot) = w.payload

(* No step of opening, writing, dying or failing changes what a reader of   *)
(* another chunk gets: write only ever touches the slot it was called for.  *)
OnlyWrittenSlotChanges ==
    [][health' # "spoiled" =>
         \A d \in Slots : Durable(d)' # Durable(d) => pc \in WriteSteps /\ d = w.slot]_vars

(* The chunk store that the region file is: open between LoadTable and the  *)
(* next close or crash, failed once an exception was swallowed.             *)
StoreStatus == CASE pc \in {"closed", "create", "load"} -> "closed"
                 [] pc \notin {"closed", "create", "load"} /\ health = "ok" -> "open"
                 [] OTHER -> "failed"

Store == INSTANCE ChunkStore WITH
    contents <- [c \in Slots |-> Durable(c)],
    writing  <- IF pc \in WriteSteps THEN <<w.slot, w.payload>> ELSE Absent,
    status   <- StoreStatus

(* The region file with its sectors, its cached table and its crashes       *)
(* implements the chunk store, where it is reopened after a failed write:   *)
(* a write that returns without an exception is durable, and survives every *)
(* later crash, failure and reopen until the same chunk is written again.   *)
ImplementsChunkStore == Store!StoreSpec

(***************************************************************************)
(* Two statements of the comments that the code does not live up to.       *)
(***************************************************************************)
(* "we found a free space large enough" (write): the run chosen for reuse   *)
(* belongs to no other chunk.                                               *)
FoundSpaceIsFree ==
    pc = "offset" /\ w.path = "reuse" =>
        \A d \in Slots \ {w.slot} : Run(NewEntry) \cap Run(offsets[d]) = {}

(* "the file size is not a multiple of 4KB, grow it" (constructor): growing  *)
(* a file keeps all that is in it, so opening one loses no chunk.            *)
GrowingLosesNoChunk ==
    [][pc = "load" => \A c \in Slots : Durable(c)' = Durable(c)]_vars
=============================================================================
