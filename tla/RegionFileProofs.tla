-------------------------- MODULE RegionFileProofs --------------------------
(***************************************************************************)
(* Type correctness of the region file and soundness of its offset table,  *)
(* for every number of slots, sectors and payloads.                        *)
(***************************************************************************)
EXTENDS RegionFile, TLAPS

-----------------------------------------------------------------------------
(* The first part of the inductive invariant: types, and the room a write has. *)
Needed == SectorsNeeded(w.payload)
Opened == pc \in {"idle"} \cup WriteSteps

Locals ==
    /\ pc = "create" => fileSectors \in {0, 1}
    /\ Opened => nSectors = fileSectors
    /\ pc \in WriteSteps =>
          /\ w.payload \in Payloads
          /\ w.sec + Needed <= MaxSectors
    /\ pc = "grow" => w.sec <= nSectors /\ nSectors < w.sec + Needed

TypeInv == TypeOK /\ Locals

(* The second part: who owns which sector.                                 *)
(* The slot whose old run the write in progress has already marked free.   *)
Releasing(d) == pc \in WriteSteps \ {"stamp"} /\ d = w.slot
                /\ (w.path = "grow" \/ pc = "offset")

Ownership ==
    /\ HeaderSectors \subseteq 0 .. nSectors - 1
    /\ offsets = table
    /\ sectorFree \subseteq (0 .. nSectors - 1) \ HeaderSectors
    /\ \A d \in Slots : ~ Releasing(d) => Run(table[d]) \cap sectorFree = {}
    /\ pc = "offset" => w.path \in {"reuse", "grow"}
    /\ pc = "offset" /\ w.path = "reuse" => Run(NewEntry) \subseteq sectorFree
    /\ pc = "grow" => w.path = "grow"
    /\ pc \in WriteSteps \ {"stamp"} /\ w.path = "grow" =>
          /\ w.sec \notin HeaderSectors
          /\ \A d \in Slots : table[d].sec + table[d].cnt <= w.sec
          /\ sectorFree \subseteq 0 .. w.sec - 1
          /\ pc # "grow" => nSectors = w.sec + Needed

SoundInv ==
    /\ health = "faulted" => pc = "idle"
    /\ health # "spoiled" => RunsSound(table, fileSectors)
    /\ health = "ok" /\ Opened => Ownership

-----------------------------------------------------------------------------
(* A chunk takes at least one sector, and all its bytes fit the sectors that *)
(* write computes for it: the length field and the data never reach the      *)
(* sector behind the run, at any length.                                     *)
LEMMA PayloadFits ==
    ASSUME NEW p \in Payloads
    PROVE  /\ SectorsNeeded(p) \in Nat \ {0}
           /\ LastPart(p) \in Nat
           /\ LastPart(p) < SectorsNeeded(p)
  <1>1. SECTOR_BYTES \in Nat /\ SECTOR_BYTES > 0 /\ FieldBytes \in 1 .. CHUNK_HEADER_SIZE
    BY RegionConstants DEF SECTOR_BYTES, FieldBytes, CHUNK_HEADER_SIZE
  <1>2. Length[p] \in Nat
    BY RegionConstants
  <1>3. (Length[p] + CHUNK_HEADER_SIZE) \div SECTOR_BYTES \in Nat
    BY <1>1, <1>2 DEF CHUNK_HEADER_SIZE
  <1>4. (Length[p] + FieldBytes - 1) \div SECTOR_BYTES \in Nat
    BY <1>1, <1>2 DEF CHUNK_HEADER_SIZE
  <1>5. (Length[p] + FieldBytes - 1) \div SECTOR_BYTES
           <= (Length[p] + CHUNK_HEADER_SIZE) \div SECTOR_BYTES
    BY <1>1, <1>2 DEF CHUNK_HEADER_SIZE
  <1> QED BY <1>3, <1>4, <1>5 DEF SectorsNeeded, LastPart

(* The types of the absent entry and the first slot. *)
LEMMA NoEntryTyped == NoEntry \in Entry /\ 0 \in Slots /\ 0 \in Sectors
  BY RegionConstants DEF NoEntry, Entry, Slots, Sectors

(* Types at the start. *)
LEMMA InitTypeInv == Init => TypeInv
  BY NoEntryTyped, RegionConstants
  DEF Init, TypeInv, TypeOK, Locals, Opened, NoWrite, WriteSteps, Slots, Sectors

(* The entry a write publishes lies inside the sectors the model has. *)
LEMMA NewEntryTyped == TypeInv /\ pc \in WriteSteps => NewEntry \in Entry
  <1> SUFFICES ASSUME TypeInv, pc \in WriteSteps PROVE NewEntry \in Entry
    OBVIOUS
  <1>1. w.payload \in Payloads /\ w.sec \in Sectors /\ w.sec + Needed <= MaxSectors
    BY DEF TypeInv, TypeOK, Locals
  <1>2. SectorsNeeded(w.payload) \in Nat
    BY <1>1, PayloadFits
  <1> QED BY <1>1, <1>2, RegionConstants DEF NewEntry, Entry, Sectors, Needed

(* The sectors a write may start at, once its own old run is marked free. *)
LEMMA FreedTyped ==
    ASSUME TypeInv, NEW c \in Slots
    PROVE  Freed(c) \subseteq Sectors
  <1>1. offsets[c] \in Entry /\ sectorFree \subseteq Sectors
    BY DEF TypeInv, TypeOK
  <1>2. Run(offsets[c]) \subseteq Sectors
    BY <1>1, RegionConstants DEF Entry, Run, Sectors
  <1> QED BY <1>1, <1>2 DEF Freed

(* No step breaks the types. *)
LEMMA NextTypeInv == TypeInv /\ [Next]_vars => TypeInv'
  <1> SUFFICES ASSUME TypeInv, [Next]_vars PROVE TypeInv'
    OBVIOUS
  <1> USE DEF TypeInv
  <1>1. CASE OpenFile
    BY <1>1 DEF OpenFile, TypeOK, Locals, Opened, WriteSteps, Needed, disk, memory
  <1>2. CASE CreateInt
    <2>1. table' \in [Slots -> Entry]
      BY <1>2, NoEntryTyped DEF CreateInt, TypeOK
    <2>2. fileSectors' \in 0 .. MaxSectors /\ tail' \in Slots
      BY <1>2, RegionConstants DEF CreateInt, TypeOK, Locals, Slots
    <2>3. w' \in [slot : Slots, payload : Payloads \cup {Absent}, sec : Sectors,
                  path : {"none", "rewrite", "reuse", "grow"}, i : Nat]
      BY <1>2, NoEntryTyped DEF CreateInt, TypeOK, NoWrite
    <2> QED BY <1>2, <2>1, <2>2, <2>3
          DEF CreateInt, TypeOK, Locals, Opened, WriteSteps, memory
  <1>3. CASE LoadTable
    <2>1. PaddedTable \in [Slots -> Entry]
      BY NoEntryTyped DEF PaddedTable, TypeOK
    <2>2. (0 .. fileSectors - 1) \subseteq Sectors
      BY RegionConstants DEF TypeOK, Sectors
    <2> QED BY <1>3, <2>1, <2>2 DEF LoadTable, TypeOK, Locals, Opened, WriteSteps
  <1>4. CASE LoadFails
    <2>1. PaddedTable \in [Slots -> Entry]
      BY NoEntryTyped DEF PaddedTable, TypeOK
    <2> QED BY <1>4, <2>1 DEF LoadFails, TypeOK, Locals, Opened, WriteSteps, memory
  <1>5. ASSUME NEW c \in Slots, NEW p \in Payloads, Rewrite(c, p)
        PROVE TypeInv'
    <2>1. offsets[c] \in Entry
      BY DEF TypeOK
    <2>2. offsets[c].sec \in Sectors /\ offsets[c].sec + SectorsNeeded(p) <= MaxSectors
      BY <1>5, <2>1 DEF Rewrite, FitsInPlace, Entry
    <2> QED BY <1>5, <2>2 DEF Rewrite, StartWrite, TypeOK, Locals, Opened, WriteSteps, Needed, disk
  <1>6. ASSUME NEW c \in Slots, NEW p \in Payloads, Reuse(c, p)
        PROVE TypeInv'
    <2>1. PICK s \in FirstFit(Freed(c), SectorsNeeded(p)) : StartWrite(c, p, s, "reuse", "offset")
      BY <1>6 DEF Reuse
    <2>2. SectorsNeeded(p) \in Nat \ {0}
      BY PayloadFits
    <2>3. /\ s \in Freed(c)
          /\ \A k \in 0 .. SectorsNeeded(p) - 1 : s + k \in Freed(c)
      BY DEF FirstFit, FreeRuns
    <2>4. s \in Sectors /\ s + (SectorsNeeded(p) - 1) \in Sectors
      BY <2>2, <2>3, FreedTyped
    <2>5. s + SectorsNeeded(p) <= MaxSectors
      BY <2>2, <2>4, RegionConstants DEF Sectors
    <2> QED BY <1>6, <2>1, <2>4, <2>5, FreedTyped
          DEF Reuse, StartWrite, TypeOK, Locals, Opened, WriteSteps, Needed, disk
  <1>7. ASSUME NEW c \in Slots, NEW p \in Payloads, Grow(c, p)
        PROVE TypeInv'
    <2>1. SectorsNeeded(p) \in Nat \ {0}
      BY PayloadFits
    <2>2. nSectors \in Sectors
      BY <1>7, <2>1, RegionConstants DEF Grow, TypeOK, Sectors
    <2> QED BY <1>7, <2>1, <2>2, FreedTyped
          DEF Grow, StartWrite, TypeOK, Locals, Opened, WriteSteps, Needed, disk
  <1>8. ASSUME NEW p \in Payloads, TooLarge(p)
        PROVE TypeInv'
    BY <1>8 DEF TooLarge, vars, TypeOK, Locals, Opened, Needed
  <1>9. CASE AppendSector
    <2>1. SectorsNeeded(w.payload) \in Nat \ {0}
      BY <1>9, PayloadFits DEF AppendSector, Locals, WriteSteps
    <2>2. w.sec \in Nat
      BY RegionConstants DEF TypeOK, Sectors
    <2> QED BY <1>9, <2>1, <2>2, RegionConstants
          DEF AppendSector, TypeOK, Locals, Opened, WriteSteps, Needed
  <1>10. CASE SetOffset
    <2>1. NewEntry \in Entry
      BY <1>10, NewEntryTyped DEF SetOffset, WriteSteps
    <2> QED BY <1>10, <2>1 DEF SetOffset, TypeOK, Locals, Opened, WriteSteps, Needed
  <1>11. CASE WriteHead
    BY <1>11 DEF WriteHead, TypeOK, Locals, Opened, WriteSteps, Needed, memory
  <1>12. CASE WriteData
    <2>1. w' \in [slot : Slots, payload : Payloads \cup {Absent}, sec : Sectors,
                  path : {"none", "rewrite", "reuse", "grow"}, i : Nat]
      BY <1>12 DEF WriteData, TypeOK
    <2>2. w'.payload = w.payload /\ w'.sec = w.sec
      BY <1>12 DEF WriteData, TypeOK
    <2>3. pc' \in {"data", "offset", "stamp"}
      BY <1>12 DEF WriteData
    <2> QED BY <1>12, <2>1, <2>2, <2>3
          DEF WriteData, TypeOK, Locals, Opened, WriteSteps, Needed, memory
  <1>13. CASE FinishWrite
    BY <1>13, NoEntryTyped
    DEF FinishWrite, TypeOK, Locals, Opened, WriteSteps, NoWrite, memory
  <1>14. CASE SwallowIOException
    <2>1. NewEntry \in Entry
      BY <1>14, NewEntryTyped DEF SwallowIOException, WriteSteps
    <2> QED BY <1>14, <2>1, NoEntryTyped
          DEF SwallowIOException, TypeOK, Locals, Opened, WriteSteps, NoWrite, disk
  <1>15. CASE Close \/ Crash
    BY <1>15, NoEntryTyped, RegionConstants
    DEF Close, Crash, Stopped, TypeOK, Locals, Opened, WriteSteps, NoWrite, disk, Sectors
  <1>16. CASE UNCHANGED vars
    BY <1>16 DEF vars, TypeOK, Locals, Opened, Needed
  <1> QED BY <1>1, <1>2, <1>3, <1>4, <1>5, <1>6, <1>7, <1>8, <1>9, <1>10, <1>11,
             <1>12, <1>13, <1>14, <1>15, <1>16
        DEF Next, HealthyNext, WriteStep

(* The fields of a region file keep their types, and every write stays inside *)
(* the sectors the file has room for, through creation, growth, crashes and   *)
(* swallowed exceptions.                                                      *)
THEOREM RegionTyped == Spec => []TypeOK
  <1>1. Spec => []TypeInv
    BY InitTypeInv, NextTypeInv, PTL DEF Spec
  <1>2. TypeInv => TypeOK
    BY DEF TypeInv
  <1> QED BY <1>1, <1>2, PTL

-----------------------------------------------------------------------------
(* No sector belongs to an absent chunk. *)
LEMMA RunOfNoEntry == Run(NoEntry) = {}
  BY DEF Run, NoEntry

(* The table is sound at the start. *)
LEMMA InitSoundInv == Init => SoundInv
  BY DEF Init, SoundInv, Opened, WriteSteps, RunsSound, Stored

(* Dropping entries, which is what padding an unaligned file does, keeps a *)
(* table sound.                                                            *)
LEMMA PaddedTableSound ==
    ASSUME NEW size, RunsSound(table, size)
    PROVE  RunsSound(PaddedTable, size)
  <1>1. \A c \in Stored(PaddedTable) : c \in Stored(table) /\ PaddedTable[c] = table[c]
    BY DEF Stored, PaddedTable
  <1> QED BY <1>1 DEF RunsSound

(* A larger file keeps a table sound. *)
LEMMA SoundInLargerFile ==
    ASSUME TypeInv, RunsSound(table, fileSectors)
    PROVE  RunsSound(table, fileSectors + 1)
  <1>1. \A c \in Slots : table[c].sec \in Nat /\ table[c].cnt \in Nat
    BY RegionConstants DEF TypeInv, TypeOK, Entry, Sectors
  <1>2. fileSectors \in Nat
    BY RegionConstants DEF TypeInv, TypeOK
  <1> QED BY <1>1, <1>2 DEF RunsSound, Stored

(* Publishing a run that no other chunk has, behind the header and inside   *)
(* the file, keeps a table sound.                                           *)
LEMMA PublishSound ==
    ASSUME NEW tab \in [Slots -> Entry], NEW size, RunsSound(tab, size),
           NEW c \in Slots, NEW e \in Entry,
           e.cnt > 0, e.sec + e.cnt <= size, e.sec \notin HeaderSectors,
           \A d \in Slots \ {c} : Run(tab[d]) \cap Run(e) = {}
    PROVE  RunsSound([tab EXCEPT ![c] = e], size)
  <1> DEFINE new == [tab EXCEPT ![c] = e]
  <1>1. new[c] = e /\ \A d \in Slots \ {c} : new[d] = tab[d]
    OBVIOUS
  <1>2. \A d \in Stored(new) : d # c => d \in Stored(tab)
    BY <1>1 DEF Stored
  <1> HIDE DEF new
  <1>3. ASSUME NEW d \in Stored(new)
        PROVE  new[d].cnt > 0 /\ new[d].sec + new[d].cnt <= size /\ new[d].sec \notin HeaderSectors
    BY <1>1, <1>2 DEF RunsSound, Stored
  <1>4. ASSUME NEW d \in Stored(new), NEW f \in Stored(new), d # f
        PROVE  Run(new[d]) \cap Run(new[f]) = {}
    <2>1. CASE d = c
      BY <1>1, <1>4, <2>1 DEF Stored
    <2>2. CASE f = c
      BY <1>1, <1>4, <2>2 DEF Stored
    <2>3. CASE d # c /\ f # c
      BY <1>1, <1>2, <1>4, <2>3 DEF RunsSound, Stored
    <2> QED BY <2>1, <2>2, <2>3
  <1>5. RunsSound(new, size)
    BY <1>3, <1>4 DEF RunsSound
  <1> QED BY <1>5 DEF new

(* What a write may hand out once it has marked its own old run free: no    *)
(* header sector, nothing outside the file, and nothing of another chunk.   *)
LEMMA FreedSound ==
    ASSUME TypeInv, RunsSound(table, fileSectors), nSectors = fileSectors,
           pc = "idle", Ownership, NEW c \in Slots
    PROVE  /\ Freed(c) \subseteq (0 .. nSectors - 1) \ HeaderSectors
           /\ \A d \in Slots \ {c} : Run(table[d]) \cap Freed(c) = {}
  <1>0. \A d \in Slots : table[d].sec \in Nat /\ table[d].cnt \in Nat
    BY RegionConstants DEF TypeInv, TypeOK, Entry, Sectors
  <1>1. offsets = table /\ sectorFree \subseteq (0 .. nSectors - 1) \ HeaderSectors
    BY DEF Ownership
  <1>2. \A d \in Slots : Run(table[d]) \cap sectorFree = {}
    BY DEF Ownership, Releasing, WriteSteps
  <1>3. ASSUME NEW d \in Slots, d \notin Stored(table) PROVE Run(table[d]) = {}
    BY <1>3, RunOfNoEntry DEF Stored
  <1>4. \A d \in Slots \ {c} : Run(table[d]) \cap Run(table[c]) = {}
    BY <1>3 DEF RunsSound, Stored
  <1>5. Run(table[c]) \subseteq (0 .. nSectors - 1) \ HeaderSectors
    <2>1. CASE c \in Stored(table)
      BY <1>0, <2>1 DEF RunsSound, Run, HeaderSectors, TypeInv, TypeOK
    <2>2. CASE c \notin Stored(table)
      BY <1>3, <2>2
    <2> QED BY <2>1, <2>2
  <1> QED BY <1>1, <1>2, <1>4, <1>5 DEF Freed

(* No step makes two chunks share a sector. *)
LEMMA NextSoundInv == TypeInv /\ SoundInv /\ [Next]_vars => SoundInv'
  <1> SUFFICES ASSUME TypeInv, SoundInv, [Next]_vars PROVE SoundInv'
    OBVIOUS
  <1>1. CASE OpenFile
    BY <1>1 DEF OpenFile, SoundInv, Opened, WriteSteps, disk, memory, RunsSound, Stored
  <1>2. CASE CreateInt
    <2>1. CASE health = "ok"
      <3>1. RunsSound(table, fileSectors) /\ fileSectors \in {0, 1}
        BY <1>2, <2>1 DEF CreateInt, SoundInv, TypeInv, Locals
      <3>2. \A c \in Slots : table[c].sec \in Nat /\ table[c].cnt \in Nat
        BY RegionConstants DEF TypeInv, TypeOK, Entry, Sectors
      <3>3. Stored(table) = {}
        BY <3>1, <3>2 DEF RunsSound, HeaderSectors, Stored
      <3>4. Stored(table') = {}
        BY <1>2, <3>3 DEF CreateInt, Stored, TypeInv, TypeOK
      <3>5. RunsSound(table', fileSectors')
        BY <3>4 DEF RunsSound
      <3> QED BY <1>2, <2>1, <3>5 DEF CreateInt, SoundInv, Opened, WriteSteps
    <2>2. CASE health # "ok"
      BY <1>2, <2>2 DEF CreateInt, SoundInv, Opened, WriteSteps, TypeInv, TypeOK
    <2> QED BY <2>1, <2>2
  <1>3. CASE LoadTable
    <2>1. health # "spoiled" => RunsSound(table', fileSectors')
      BY <1>3, PaddedTableSound DEF LoadTable, SoundInv
    <2>2. \A d \in Slots : RunsSound(table', fileSectors') =>
             Run(table'[d]) \subseteq UsedBy(table', fileSectors)
      BY <1>3, RunOfNoEntry DEF LoadTable, RunsSound, Stored, UsedBy
    <2>3. health = "ok" => Ownership'
      BY <1>3, <2>1, <2>2
      DEF LoadTable, Ownership, Releasing, WriteSteps, TypeInv, Locals
    <2> QED BY <1>3, <2>1, <2>3 DEF LoadTable, SoundInv
  <1>4. CASE LoadFails
    BY <1>4, PaddedTableSound DEF LoadFails, SoundInv, Opened, WriteSteps, memory
  <1>5. ASSUME NEW c \in Slots, NEW p \in Payloads, Rewrite(c, p)
        PROVE SoundInv'
    <2>1. health = "ok" => Ownership
      BY <1>5 DEF Rewrite, SoundInv, Opened
    <2>2. health = "ok" => Ownership'
      BY <1>5, <2>1 DEF Rewrite, StartWrite, Ownership, Releasing, WriteSteps, disk
    <2> QED BY <1>5, <2>2 DEF Rewrite, StartWrite, SoundInv, disk, RunsSound, Stored
  <1>6. ASSUME NEW c \in Slots, NEW p \in Payloads, Reuse(c, p)
        PROVE SoundInv'
    <2>1. PICK s \in FirstFit(Freed(c), SectorsNeeded(p)) : StartWrite(c, p, s, "reuse", "offset")
      BY <1>6 DEF Reuse
    <2>2. CASE health = "ok"
      <3>1. Ownership /\ RunsSound(table, fileSectors) /\ nSectors = fileSectors
        BY <1>6, <2>2 DEF Reuse, SoundInv, Opened, TypeInv, Locals
      <3>2. /\ Freed(c) \subseteq (0 .. nSectors - 1) \ HeaderSectors
            /\ \A d \in Slots \ {c} : Run(table[d]) \cap Freed(c) = {}
        BY <1>6, <3>1, FreedSound DEF Reuse
      <3>3. NewEntry' = [sec |-> s, cnt |-> SectorsNeeded(p)]
        BY <2>1 DEF StartWrite, NewEntry
      <3>4. \A k \in 0 .. SectorsNeeded(p) - 1 : s + k \in Freed(c)
        BY DEF FirstFit, FreeRuns
      <3>5. s \in Nat /\ SectorsNeeded(p) \in Nat
        BY <3>2, PayloadFits DEF FirstFit, FreeRuns
      <3>6. Run(NewEntry') \subseteq Freed(c)
        <4>1. ASSUME NEW x \in Run(NewEntry') PROVE x \in Freed(c)
          <5>1. x - s \in 0 .. SectorsNeeded(p) - 1 /\ x = s + (x - s)
            BY <4>1, <3>3, <3>5 DEF Run
          <5> QED BY <5>1, <3>4
        <4> QED BY <4>1
      <3>7. Ownership'
        BY <1>6, <2>1, <3>1, <3>2, <3>6
        DEF Reuse, StartWrite, Ownership, Releasing, WriteSteps, disk, Run, NewEntry
      <3> QED BY <2>1, <2>2, <3>1, <3>7
            DEF StartWrite, SoundInv, Opened, WriteSteps, disk, RunsSound, Stored
    <2>3. CASE health # "ok"
      BY <2>1, <2>3 DEF StartWrite, SoundInv
    <2> QED BY <2>2, <2>3
  <1>7. ASSUME NEW c \in Slots, NEW p \in Payloads, Grow(c, p)
        PROVE SoundInv'
    <2>1. CASE health = "ok"
      <3>1. Ownership /\ RunsSound(table, fileSectors) /\ nSectors = fileSectors
        BY <1>7, <2>1 DEF Grow, SoundInv, Opened, TypeInv, Locals
      <3>2. /\ Freed(c) \subseteq (0 .. nSectors - 1) \ HeaderSectors
            /\ \A d \in Slots \ {c} : Run(table[d]) \cap Freed(c) = {}
        BY <1>7, <3>1, FreedSound DEF Grow
      <3>3. \A d \in Slots : table[d].sec + table[d].cnt <= nSectors
        BY <3>1 DEF RunsSound, Stored, NoEntry, TypeInv, TypeOK
      <3>4. nSectors \notin HeaderSectors
        BY <3>1 DEF Ownership, HeaderSectors, TypeInv, TypeOK
      <3>5. Ownership'
        BY <1>7, <3>1, <3>2, <3>3, <3>4
        DEF Grow, StartWrite, Ownership, Releasing, WriteSteps, disk
      <3> QED BY <1>7, <2>1, <3>1, <3>5
            DEF Grow, StartWrite, SoundInv, disk, RunsSound, Stored
    <2>2. CASE health # "ok"
      BY <1>7, <2>2 DEF Grow, StartWrite, SoundInv
    <2> QED BY <2>1, <2>2
  <1>8. ASSUME NEW p \in Payloads, TooLarge(p)
        PROVE SoundInv'
    BY <1>8 DEF TooLarge, vars, SoundInv, Opened, Ownership, Releasing, RunsSound, Stored,
                NewEntry, Needed
  <1>9. CASE AppendSector
    <2>0. SectorsNeeded(w.payload) \in Nat
      BY <1>9, PayloadFits DEF AppendSector, TypeInv, Locals, WriteSteps
    <2>1. health # "spoiled" => RunsSound(table', fileSectors')
      BY <1>9, SoundInLargerFile DEF AppendSector, SoundInv
    <2>2. health = "ok" => Ownership
      BY <1>9 DEF AppendSector, SoundInv, Opened, WriteSteps
    <2>3. health = "ok" => Ownership'
      BY <1>9, <2>0, <2>2
      DEF AppendSector, Ownership, Releasing, WriteSteps, Needed, TypeInv, TypeOK
    <2> QED BY <1>9, <2>1, <2>3 DEF AppendSector, SoundInv
  <1>10. CASE SetOffset
    <2>1. CASE health = "ok"
      <3>1. Ownership /\ RunsSound(table, fileSectors) /\ nSectors = fileSectors
        BY <1>10, <2>1 DEF SetOffset, SoundInv, Opened, WriteSteps, TypeInv, Locals
      <3>2. /\ NewEntry \in Entry
            /\ w.slot \in Slots
            /\ NewEntry.sec = w.sec
            /\ NewEntry.cnt = Needed
            /\ w.sec \in Nat /\ Needed \in Nat /\ Needed > 0
        BY <1>10, NewEntryTyped, PayloadFits, RegionConstants
        DEF SetOffset, WriteSteps, TypeInv, TypeOK, Locals, NewEntry, Needed, Sectors
      <3>3. \A d \in Slots : table[d].sec \in Nat /\ table[d].cnt \in Nat
        BY RegionConstants DEF TypeInv, TypeOK, Entry, Sectors
      <3>4. \A d \in Slots \ {w.slot} : Run(table[d]) \cap sectorFree = {}
        BY <3>1 DEF Ownership, Releasing
      <3>5. CASE w.path = "reuse"
        <4>1. Run(NewEntry) \subseteq sectorFree
          BY <1>10, <3>1, <3>5 DEF SetOffset, Ownership
        <4>2. NewEntry.sec \in Run(NewEntry) /\ NewEntry.sec + NewEntry.cnt - 1 \in Run(NewEntry)
          BY <3>2 DEF Run
        <4>3. NewEntry.sec + NewEntry.cnt <= fileSectors /\ NewEntry.sec \notin HeaderSectors
          BY <3>1, <3>2, <4>1, <4>2 DEF Ownership, TypeInv, TypeOK
        <4>4. RunsSound(table', fileSectors')
          BY <1>10, <3>1, <3>2, <3>4, <4>1, <4>3, PublishSound DEF SetOffset, TypeInv, TypeOK
        <4>5. Ownership'
          BY <1>10, <3>1, <3>2, <3>4, <3>5
          DEF SetOffset, Ownership, Releasing, WriteSteps, TypeInv, TypeOK
        <4> QED BY <1>10, <2>1, <4>4, <4>5 DEF SetOffset, SoundInv
      <3>6. CASE w.path # "reuse"
        <4>1. w.path = "grow"
          BY <1>10, <3>1, <3>6 DEF SetOffset, Ownership
        <4>2. /\ w.sec \notin HeaderSectors
              /\ \A d \in Slots : table[d].sec + table[d].cnt <= w.sec
              /\ sectorFree \subseteq 0 .. w.sec - 1
              /\ nSectors = w.sec + Needed
          BY <1>10, <3>1, <4>1 DEF SetOffset, Ownership, WriteSteps
        <4>3. \A d \in Slots : Run(table[d]) \cap Run(NewEntry) = {}
          BY <3>2, <3>3, <4>2 DEF Run
        <4>4. RunsSound(table', fileSectors')
          <5>1. /\ table \in [Slots -> Entry]
                /\ NewEntry.cnt > 0
                /\ NewEntry.sec + NewEntry.cnt <= fileSectors
                /\ NewEntry.sec \notin HeaderSectors
            BY <3>1, <3>2, <4>2 DEF TypeInv, TypeOK
          <5>2. RunsSound([table EXCEPT ![w.slot] = NewEntry], fileSectors)
            BY <3>1, <3>2, <4>3, <5>1, PublishSound
          <5> QED BY <1>10, <5>2 DEF SetOffset
        <4>5. Run(NewEntry) \cap sectorFree = {}
          BY <3>2, <4>2 DEF Run
        <4>6. Ownership'
          BY <1>10, <3>1, <3>2, <3>4, <3>6, <4>5
          DEF SetOffset, Ownership, Releasing, WriteSteps, TypeInv, TypeOK
        <4> QED BY <1>10, <2>1, <4>4, <4>6 DEF SetOffset, SoundInv
      <3> QED BY <3>5, <3>6
    <2>2. CASE health # "ok"
      BY <1>10, <2>2 DEF SetOffset, SoundInv, TypeInv, TypeOK
    <2> QED BY <2>1, <2>2
  <1>11. CASE WriteHead
    BY <1>11 DEF WriteHead, SoundInv, Opened, Ownership, Releasing, WriteSteps, memory,
                 RunsSound, Stored, NewEntry, Needed
  <1>12. CASE WriteData
    <2>1. w'.slot = w.slot /\ w'.payload = w.payload /\ w'.sec = w.sec /\ w'.path = w.path
      BY <1>12 DEF WriteData, TypeInv, TypeOK
    <2>2. \/ pc' = "data"
          \/ pc' = "offset" /\ w.path = "grow"
          \/ pc' = "stamp" /\ w.path # "grow"
      <3>1. LastPart(w.payload) \in Nat /\ w.i \in Nat
        BY <1>12, PayloadFits DEF WriteData, TypeInv, TypeOK, Locals, WriteSteps
      <3> QED BY <1>12, <3>1 DEF WriteData
    <2>3. health = "ok" => Ownership
      BY <1>12 DEF WriteData, SoundInv, Opened, WriteSteps
    <2>4. health = "ok" => Ownership'
      BY <1>12, <2>1, <2>2, <2>3
      DEF WriteData, Ownership, Releasing, WriteSteps, memory, Needed
    <2> QED BY <1>12, <2>4 DEF WriteData, SoundInv, RunsSound, Stored
  <1>13. CASE FinishWrite
    <2>1. health = "ok" => Ownership
      BY <1>13 DEF FinishWrite, SoundInv, Opened, WriteSteps
    <2>2. health = "ok" => Ownership'
      BY <1>13, <2>1 DEF FinishWrite, Ownership, Releasing, WriteSteps, memory
    <2> QED BY <1>13, <2>2 DEF FinishWrite, SoundInv, RunsSound, Stored
  <1>14. CASE SwallowIOException
    BY <1>14 DEF SwallowIOException, SoundInv, disk, RunsSound, Stored, WriteSteps
  <1>15. CASE Close \/ Crash
    BY <1>15 DEF Close, Crash, Stopped, SoundInv, Opened, WriteSteps, disk, RunsSound, Stored
  <1>16. CASE UNCHANGED vars
    BY <1>16 DEF vars, SoundInv, Opened, Ownership, Releasing, RunsSound, Stored, NewEntry, Needed
  <1> QED BY <1>1, <1>2, <1>3, <1>4, <1>5, <1>6, <1>7, <1>8, <1>9, <1>10, <1>11,
             <1>12, <1>13, <1>14, <1>15, <1>16
        DEF Next, HealthyNext, WriteStep

(* No two chunks ever share a sector on disk, and none sits in the header: at *)
(* every instant of every write, after every crash and after one swallowed    *)
(* IOException, for every number of chunks and sectors.                       *)
THEOREM RegionSound == Spec => []DiskTableSound
  <1>1. Spec => [](TypeInv /\ SoundInv)
    BY InitTypeInv, InitSoundInv, NextTypeInv, NextSoundInv, PTL DEF Spec
  <1>2. TypeInv /\ SoundInv => DiskTableSound
    BY DEF SoundInv, DiskTableSound
  <1> QED BY <1>1, <1>2, PTL

-----------------------------------------------------------------------------
(* The third part: no sector is lost.  Every sector of the file is free, in  *)
(* the header, a chunk's, or one that the write in progress has appended and *)
(* not published; and the old run of a chunk that moves is already free.     *)
Appending == pc \in WriteSteps \ {"stamp"} /\ w.path = "grow"

Accounted ==
    /\ \A s \in 0 .. nSectors - 1 :
          \/ s \in sectorFree \cup HeaderSectors
          \/ \E d \in Slots : s \in Run(table[d])
          \/ Appending /\ s >= w.sec
    /\ \A d \in Slots : Releasing(d) => Run(table[d]) \subseteq sectorFree

ExactInv == health = "ok" /\ Opened => Accounted

(* The map of sectors is exact at the start. *)
LEMMA InitExactInv == Init => ExactInv
  BY DEF Init, ExactInv, Opened, WriteSteps

(* It is exact whenever no call is under way. *)
LEMMA NextExactInv == TypeInv /\ SoundInv /\ ExactInv /\ [Next]_vars => ExactInv'
  <1> SUFFICES ASSUME TypeInv, SoundInv, ExactInv, [Next]_vars, health' = "ok", Opened'
               PROVE  Accounted'
    BY DEF ExactInv
  <1>1. CASE OpenFile \/ CreateInt \/ LoadFails \/ Close \/ Crash
    BY <1>1 DEF OpenFile, CreateInt, LoadFails, Close, Crash, Stopped, Opened, WriteSteps,
                TypeInv, Locals
  <1>2. CASE LoadTable
    <2>1. \A s \in UsedBy(PaddedTable, fileSectors) : \E d \in Slots : s \in Run(PaddedTable[d])
      BY DEF UsedBy
    <2> QED BY <1>2, <2>1 DEF LoadTable, Accounted, Releasing, Appending, WriteSteps
  <1>3. ASSUME NEW c \in Slots, NEW p \in Payloads, Rewrite(c, p)
        PROVE  Accounted'
    <2>1. Accounted /\ pc = "idle"
      BY <1>3 DEF Rewrite, StartWrite, ExactInv, Opened
    <2> QED BY <1>3, <2>1 DEF Rewrite, StartWrite, Accounted, Releasing, Appending, WriteSteps, disk
  <1>4. ASSUME NEW c \in Slots, NEW p \in Payloads, Reuse(c, p)
        PROVE  Accounted'
    <2>1. Accounted /\ Ownership /\ pc = "idle"
      BY <1>4 DEF Reuse, StartWrite, ExactInv, SoundInv, Opened
    <2>2. PICK s \in FirstFit(Freed(c), SectorsNeeded(p)) : StartWrite(c, p, s, "reuse", "offset")
      BY <1>4 DEF Reuse
    <2>3. w'.slot = c /\ UNCHANGED <<table, nSectors>> /\ sectorFree' = sectorFree \cup Run(table[c])
      BY <1>4, <2>1, <2>2 DEF Reuse, StartWrite, Freed, Ownership, disk
    <2> QED BY <2>1, <2>3 DEF Accounted, Releasing, Appending, WriteSteps
  <1>5. ASSUME NEW c \in Slots, NEW p \in Payloads, Grow(c, p)
        PROVE  Accounted'
    <2>1. Accounted /\ Ownership /\ pc = "idle"
      BY <1>5 DEF Grow, StartWrite, ExactInv, SoundInv, Opened
    <2>2. w'.slot = c /\ UNCHANGED <<table, nSectors>> /\ sectorFree' = sectorFree \cup Run(table[c])
      BY <1>5, <2>1 DEF Grow, StartWrite, Freed, Ownership, disk
    <2> QED BY <2>1, <2>2 DEF Accounted, Releasing, Appending, WriteSteps
  <1>6. CASE AppendSector
    <2>1. Accounted /\ Ownership /\ w.path = "grow" /\ w.sec <= nSectors
      BY <1>6 DEF AppendSector, ExactInv, SoundInv, Opened, WriteSteps, Ownership, TypeInv, Locals
    <2>2. pc' \in {"grow", "head"} /\ UNCHANGED <<w, table, sectorFree>> /\ nSectors' = nSectors + 1
      BY <1>6 DEF AppendSector
    <2>3. nSectors \in Nat /\ w.sec \in Nat
      BY RegionConstants DEF TypeInv, TypeOK, Sectors
    <2>4. Appending /\ Appending' /\ \A d \in Slots : Releasing(d)' => Releasing(d)
      BY <1>6, <2>1, <2>2 DEF AppendSector, Appending, Releasing, WriteSteps
    <2> QED BY <2>1, <2>2, <2>3, <2>4 DEF Accounted
  <1>7. CASE SetOffset
    <2>1. Accounted /\ Ownership /\ pc = "offset" /\ w.path \in {"reuse", "grow"}
      BY <1>7 DEF SetOffset, ExactInv, SoundInv, Opened, WriteSteps, Ownership
    <2>2. Run(table[w.slot]) \subseteq sectorFree /\ w.slot \in Slots
      BY <2>1 DEF Accounted, Releasing, WriteSteps, TypeInv, TypeOK
    <2>3. \A d \in Slots : ~ Releasing(d)'
      BY <1>7 DEF SetOffset, Releasing, WriteSteps
    <2>4. /\ UNCHANGED nSectors
          /\ table'[w.slot] = NewEntry
          /\ \A d \in Slots \ {w.slot} : table'[d] = table[d]
          /\ sectorFree \subseteq sectorFree' \cup Run(NewEntry)
      BY <1>7, <2>2 DEF SetOffset, TypeInv, TypeOK
    <2>5. ASSUME NEW s \in 0 .. nSectors - 1, Appending, s >= w.sec
          PROVE  s \in Run(NewEntry)
      <3>1. nSectors = w.sec + Needed
        BY <2>1, <2>5 DEF Ownership, Appending
      <3>2. w.sec \in Nat /\ Needed \in Nat
        BY <2>1, PayloadFits, RegionConstants DEF TypeInv, TypeOK, Locals, WriteSteps, Needed, Sectors
      <3> QED BY <2>5, <3>1, <3>2 DEF Run, NewEntry, Needed
    <2>6. ASSUME NEW s \in 0 .. nSectors - 1
          PROVE  s \in sectorFree' \cup HeaderSectors \/ \E d \in Slots : s \in Run(table'[d])
      BY <2>1, <2>2, <2>4, <2>5, <2>6 DEF Accounted
    <2> QED BY <2>3, <2>4, <2>6 DEF Accounted
  <1>8. CASE WriteHead
    <2>1. Accounted
      BY <1>8 DEF WriteHead, ExactInv, Opened, WriteSteps
    <2> QED BY <1>8, <2>1 DEF WriteHead, Accounted, Releasing, Appending, WriteSteps, memory
  <1>9. CASE WriteData
    <2>1. Accounted
      BY <1>9 DEF WriteData, ExactInv, Opened, WriteSteps
    <2>2. w'.slot = w.slot /\ w'.sec = w.sec /\ w'.path = w.path
      BY <1>9 DEF WriteData, TypeInv, TypeOK
    <2>3. \/ pc' = "data"
          \/ pc' = "offset" /\ w.path = "grow"
          \/ pc' = "stamp" /\ w.path # "grow"
      <3>1. LastPart(w.payload) \in Nat /\ w.i \in Nat
        BY <1>9, PayloadFits DEF WriteData, TypeInv, TypeOK, Locals, WriteSteps
      <3> QED BY <1>9, <3>1 DEF WriteData
    <2> QED BY <1>9, <2>1, <2>2, <2>3 DEF WriteData, Accounted, Releasing, Appending, WriteSteps, memory
  <1>10. CASE FinishWrite
    <2>1. Accounted
      BY <1>10 DEF FinishWrite, ExactInv, Opened, WriteSteps
    <2> QED BY <1>10, <2>1 DEF FinishWrite, Accounted, Releasing, Appending, WriteSteps, memory
  <1>11. CASE SwallowIOException
    BY <1>11 DEF SwallowIOException
  <1>12. ASSUME NEW p \in Payloads, TooLarge(p)
         PROVE  Accounted'
    BY <1>12 DEF TooLarge, vars, ExactInv, Opened, Accounted, Releasing, Appending
  <1>13. CASE UNCHANGED vars
    BY <1>13 DEF vars, ExactInv, Opened, Accounted, Releasing, Appending
  <1> QED BY <1>1, <1>2, <1>3, <1>4, <1>5, <1>6, <1>7, <1>8, <1>9, <1>10, <1>11, <1>12, <1>13
        DEF Next, HealthyNext, WriteStep

RegionInv == TypeInv /\ SoundInv /\ ExactInv

(* Types, the table and the map always hold. *)
LEMMA RegionInvariant == Spec => []RegionInv
  BY InitTypeInv, InitSoundInv, InitExactInv, NextTypeInv, NextSoundInv, NextExactInv, PTL
  DEF Spec, RegionInv

(* Between two operations a sector is marked free exactly when no chunk and *)
(* no header needs it: whatever sequence of writes, moves, reopens and      *)
(* crashes came before, write neither leaks a sector nor frees one early.   *)
THEOREM RegionMapExact == Spec => []SectorMapExact
  <1>1. RegionInv => SectorMapExact
    <2> SUFFICES ASSUME RegionInv, pc = "idle", health = "ok"
                 PROVE  /\ offsets = table /\ nSectors = fileSectors
                        /\ sectorFree = (0 .. nSectors - 1) \ (HeaderSectors \cup UsedBy(table, nSectors))
      BY DEF SectorMapExact
    <2>1. Ownership /\ Accounted /\ RunsSound(table, fileSectors) /\ nSectors = fileSectors
      BY DEF RegionInv, SoundInv, ExactInv, Opened, TypeInv, Locals
    <2>2. \A d \in Slots : Run(table[d]) \cap sectorFree = {}
      BY <2>1 DEF Ownership, Releasing, WriteSteps
    <2>3. ASSUME NEW d \in Slots PROVE Run(table[d]) \subseteq UsedBy(table, nSectors)
      <3>1. CASE table[d] = NoEntry
        BY <3>1, RunOfNoEntry
      <3>2. CASE table[d] # NoEntry
        BY <2>1, <3>2 DEF RunsSound, Stored, UsedBy
      <3> QED BY <3>1, <3>2
    <2>4. UsedBy(table, nSectors) \cap sectorFree = {}
      BY <2>2 DEF UsedBy
    <2>5. ~ Appending
      BY DEF Appending, WriteSteps
    <2> QED BY <2>1, <2>3, <2>4, <2>5 DEF Ownership, Accounted
  <1> QED BY <1>1, RegionInvariant, PTL

-----------------------------------------------------------------------------
(* What a reader gets, as a function of the table, the size of the file and *)
(* the sectors: Durable in this state and in the next is an instance of it. *)
HoldsIn(cont, e, c, p) ==
    /\ Length[p] + 1 <= e.cnt * SECTOR_BYTES
    /\ \A k \in 0 .. LastPart(p) : e.sec + k \in Sectors /\ cont[e.sec + k] = Tag(c, p, k)

ReadFrom(tab, size, cont, c) ==
    IF tab[c] = NoEntry \/ tab[c].sec + tab[c].cnt > size THEN Absent
    ELSE IF \E p \in Payloads : HoldsIn(cont, tab[c], c, p)
         THEN CHOOSE p \in Payloads : HoldsIn(cont, tab[c], c, p)
         ELSE Torn

DurableIn(tab, size, cont, c) ==
    IF ReadFrom(tab, size, cont, c) \in Payloads /\ LastPart(ReadFrom(tab, size, cont, c)) >= tab[c].cnt
    THEN Torn ELSE ReadFrom(tab, size, cont, c)

(* The payload an entry holds inside its own run. *)
Within(cont, e, c, p) == HoldsIn(cont, e, c, p) /\ LastPart(p) < e.cnt

(* What is durable now and after the step. *)
LEMMA DurableNow ==
    ASSUME NEW c \in Slots
    PROVE  /\ Durable(c) = DurableIn(table, fileSectors, content, c)
           /\ Durable(c)' = DurableIn(table', fileSectors', content', c)
  BY DEF Durable, DurableIn, ReadAs, ReadFrom, Holds, HoldsIn

(* The first sector names the payload, so an entry holds at most one. *)
LEMMA HeldOnce ==
    ASSUME NEW cont, NEW e, NEW c, NEW p \in Payloads, NEW q \in Payloads,
           HoldsIn(cont, e, c, p), HoldsIn(cont, e, c, q)
    PROVE  p = q
  <1>1. 0 \in 0 .. LastPart(p) /\ 0 \in 0 .. LastPart(q)
    BY PayloadFits
  <1>2. Tag(c, p, 0) = Tag(c, q, 0)
    BY <1>1 DEF HoldsIn
  <1> QED BY <1>2 DEF Tag

(* A chunk that lies in its sectors is read. *)
LEMMA ReadFromHeld ==
    ASSUME NEW tab, NEW size, NEW cont, NEW c \in Slots, NEW p \in Payloads,
           tab[c] # NoEntry, ~ (tab[c].sec + tab[c].cnt > size), HoldsIn(cont, tab[c], c, p)
    PROVE  ReadFrom(tab, size, cont, c) = p
  <1> DEFINE q == CHOOSE r \in Payloads : HoldsIn(cont, tab[c], c, r)
  <1>1. q \in Payloads /\ HoldsIn(cont, tab[c], c, q)
    OBVIOUS
  <1>2. q = p
    BY <1>1, HeldOnce
  <1> QED BY <1>2 DEF ReadFrom

(* Durable is the payload that lies inside the run, Torn if there is none. *)
LEMMA DurableHeld ==
    ASSUME NEW tab, NEW size, NEW cont, NEW c \in Slots,
           tab[c] \in Entry, tab[c] # NoEntry, ~ (tab[c].sec + tab[c].cnt > size)
    PROVE  /\ \A p \in Payloads : Within(cont, tab[c], c, p) => DurableIn(tab, size, cont, c) = p
           /\ (\A p \in Payloads : ~ Within(cont, tab[c], c, p)) => DurableIn(tab, size, cont, c) = Torn
  <1>0. tab[c].cnt \in Int /\ \A p \in Payloads : LastPart(p) \in Int
    BY PayloadFits, RegionConstants DEF Entry
  <1>1. ASSUME NEW p \in Payloads, Within(cont, tab[c], c, p)
        PROVE  DurableIn(tab, size, cont, c) = p
    <2>1. ReadFrom(tab, size, cont, c) = p
      BY <1>1, ReadFromHeld DEF Within
    <2> QED BY <1>0, <1>1, <2>1 DEF DurableIn, Within
  <1>2. ASSUME \A p \in Payloads : ~ Within(cont, tab[c], c, p)
        PROVE  DurableIn(tab, size, cont, c) = Torn
    <2>1. CASE \E p \in Payloads : HoldsIn(cont, tab[c], c, p)
      <3>1. PICK p \in Payloads : HoldsIn(cont, tab[c], c, p)
        BY <2>1
      <3>2. ReadFrom(tab, size, cont, c) = p
        BY <3>1, ReadFromHeld
      <3>3. LastPart(p) >= tab[c].cnt
        BY <1>0, <1>2, <3>1 DEF Within
      <3> QED BY <3>2, <3>3 DEF DurableIn
    <2>2. CASE ~ \E p \in Payloads : HoldsIn(cont, tab[c], c, p)
      BY <2>2, RegionConstants DEF DurableIn, ReadFrom
    <2> QED BY <2>1, <2>2
  <1> QED BY <1>1, <1>2

(* An absent chunk is absent. *)
LEMMA DurableAbsent ==
    ASSUME NEW tab, NEW size, NEW cont, NEW c \in Slots, tab[c] = NoEntry
    PROVE  DurableIn(tab, size, cont, c) = Absent
  BY RegionConstants DEF DurableIn, ReadFrom

(* What is read is a payload, nothing, or torn. *)
LEMMA DurableReadable ==
    ASSUME NEW tab, NEW size, NEW cont, NEW c \in Slots
    PROVE  DurableIn(tab, size, cont, c) \in Payloads \cup {Absent, Torn}
  <1>1. ReadFrom(tab, size, cont, c) \in Payloads \cup {Absent, Torn}
    BY DEF ReadFrom
  <1> QED BY <1>1 DEF DurableIn

(* A reader's answer depends on its entry and on the sectors of its run. *)
LEMMA DurableLocal ==
    ASSUME NEW tab, NEW tab2, NEW size, NEW size2, NEW cont, NEW cont2, NEW c \in Slots,
           tab2[c] = tab[c], tab[c] \in Entry,
           tab[c] # NoEntry => /\ ~ (tab[c].sec + tab[c].cnt > size)
                               /\ ~ (tab[c].sec + tab[c].cnt > size2)
                               /\ \A s \in Run(tab[c]) : cont2[s] = cont[s]
    PROVE  DurableIn(tab2, size2, cont2, c) = DurableIn(tab, size, cont, c)
  <1>1. CASE tab[c] = NoEntry
    BY <1>1, DurableAbsent
  <1>2. CASE tab[c] # NoEntry
    <2>0. tab[c].sec \in Nat /\ tab[c].cnt \in Nat
      BY RegionConstants DEF Entry, Sectors
    <2>1. ASSUME NEW p \in Payloads
          PROVE  Within(cont2, tab[c], c, p) <=> Within(cont, tab[c], c, p)
      <3>1. LastPart(p) \in Nat
        BY PayloadFits
      <3>2. ASSUME LastPart(p) < tab[c].cnt, NEW k \in 0 .. LastPart(p)
            PROVE  cont2[tab[c].sec + k] = cont[tab[c].sec + k]
        <4>1. tab[c].sec + k \in Run(tab[c])
          BY <2>0, <3>1, <3>2 DEF Run
        <4> QED BY <1>2, <4>1
      <3> QED BY <3>2 DEF Within, HoldsIn
    <2>2. CASE \E p \in Payloads : Within(cont, tab[c], c, p)
      <3>1. PICK p \in Payloads : Within(cont, tab[c], c, p)
        BY <2>2
      <3>2. DurableIn(tab, size, cont, c) = p
        BY <1>2, <3>1, DurableHeld
      <3>3. Within(cont2, tab2[c], c, p)
        BY <2>1, <3>1
      <3>4. DurableIn(tab2, size2, cont2, c) = p
        BY <1>2, <3>3, DurableHeld
      <3> QED BY <3>2, <3>4
    <2>3. CASE \A p \in Payloads : ~ Within(cont, tab[c], c, p)
      <3>1. DurableIn(tab, size, cont, c) = Torn
        BY <1>2, <2>3, DurableHeld
      <3>2. \A p \in Payloads : ~ Within(cont2, tab2[c], c, p)
        BY <2>1, <2>3
      <3>3. DurableIn(tab2, size2, cont2, c) = Torn
        BY <1>2, <3>2, DurableHeld
      <3> QED BY <3>1, <3>3
    <2> QED BY <2>2, <2>3
  <1> QED BY <1>1, <1>2

-----------------------------------------------------------------------------
(* The fourth part: how far the write in progress has come.  The entry it    *)
(* publishes and the sectors it has written are on disk.                     *)
Published == pc \in {"head", "data", "stamp"} /\ (w.path = "grow" => pc = "stamp")
DataDone == pc = "stamp" \/ (pc = "offset" /\ w.path = "grow")

ProgressInv ==
    health = "ok" /\ pc \in WriteSteps =>
        /\ w.path \in {"rewrite", "reuse", "grow"}
        /\ Published => table[w.slot] = NewEntry
        /\ pc = "data" => w.i <= LastPart(w.payload)
        /\ pc # "data" /\ ~ DataDone => w.i = 0
        /\ pc = "data" => \A k \in 0 .. w.i - 1 : content[w.sec + k] = Tag(w.slot, w.payload, k)
        /\ DataDone => \A k \in 0 .. LastPart(w.payload) : content[w.sec + k] = Tag(w.slot, w.payload, k)

(* No write is under way at the start. *)
LEMMA InitProgressInv == Init => ProgressInv
  BY DEF Init, ProgressInv, WriteSteps

(* A write has stored what its steps so far say. *)
LEMMA NextProgressInv == TypeInv /\ SoundInv /\ ProgressInv /\ [Next]_vars => ProgressInv'
  <1> SUFFICES ASSUME TypeInv, SoundInv, ProgressInv, [Next]_vars, health' = "ok", pc' \in WriteSteps
               PROVE  ProgressInv'
    BY DEF ProgressInv
  <1> USE DEF Published, DataDone
  <1>1. CASE OpenFile \/ CreateInt \/ LoadTable \/ LoadFails \/ Close \/ Crash
             \/ FinishWrite \/ SwallowIOException
    BY <1>1 DEF OpenFile, CreateInt, LoadTable, LoadFails, Close, Crash, Stopped, FinishWrite,
                SwallowIOException, WriteSteps
  <1>2. ASSUME NEW c \in Slots, NEW p \in Payloads, Rewrite(c, p)
        PROVE  ProgressInv'
    <2>1. offsets = table
      BY <1>2 DEF Rewrite, StartWrite, SoundInv, Opened, Ownership
    <2>2. table[c] = [sec |-> offsets[c].sec, cnt |-> SectorsNeeded(p)]
      BY <1>2, <2>1 DEF Rewrite, FitsInPlace, TypeInv, TypeOK, Entry
    <2> QED BY <1>2, <2>2 DEF Rewrite, StartWrite, ProgressInv, NewEntry, disk
  <1>3. ASSUME NEW c \in Slots, NEW p \in Payloads, Reuse(c, p)
        PROVE  ProgressInv'
    <2>1. PICK s \in FirstFit(Freed(c), SectorsNeeded(p)) : StartWrite(c, p, s, "reuse", "offset")
      BY <1>3 DEF Reuse
    <2> QED BY <2>1 DEF StartWrite, ProgressInv
  <1>4. ASSUME NEW c \in Slots, NEW p \in Payloads, Grow(c, p)
        PROVE  ProgressInv'
    BY <1>4 DEF Grow, StartWrite, ProgressInv
  <1>5. CASE AppendSector
    <2>1. w.path = "grow"
      BY <1>5 DEF AppendSector, SoundInv, Opened, Ownership, WriteSteps
    <2> QED BY <1>5, <2>1 DEF AppendSector, ProgressInv, WriteSteps
  <1>6. CASE SetOffset
    <2>1. w.path \in {"reuse", "grow"}
      BY <1>6 DEF SetOffset, SoundInv, Opened, Ownership, WriteSteps
    <2>2. table'[w.slot] = NewEntry /\ NewEntry' = NewEntry
      BY <1>6 DEF SetOffset, NewEntry, TypeInv, TypeOK
    <2> QED BY <1>6, <2>1, <2>2 DEF SetOffset, ProgressInv, WriteSteps
  <1>7. CASE WriteHead
    <2>1. LastPart(w.payload) \in Nat
      BY <1>7, PayloadFits DEF WriteHead, TypeInv, Locals, WriteSteps
    <2> QED BY <1>7, <2>1 DEF WriteHead, ProgressInv, WriteSteps, memory, NewEntry
  <1>8. CASE WriteData
    <2>1. /\ LastPart(w.payload) \in Nat /\ w.i \in Nat /\ w.i <= LastPart(w.payload)
          /\ w.sec \in Nat /\ LastPart(w.payload) < Needed /\ Needed \in Nat
          /\ w.sec + Needed <= MaxSectors
      BY <1>8, PayloadFits, RegionConstants
      DEF WriteData, ProgressInv, TypeInv, TypeOK, Locals, WriteSteps, Needed, Sectors
    <2>2. w.sec + w.i \in Sectors /\ \A k \in 0 .. w.i - 1 : w.sec + k \in Sectors /\ w.sec + k # w.sec + w.i
      BY <2>1, RegionConstants DEF Sectors
    <2>3. /\ w'.slot = w.slot /\ w'.payload = w.payload /\ w'.sec = w.sec /\ w'.path = w.path
          /\ w'.i = w.i + 1
      BY <1>8 DEF WriteData, TypeInv, TypeOK
    <2>4. ASSUME NEW k \in 0 .. w.i PROVE content'[w.sec + k] = Tag(w.slot, w.payload, k)
      <3>1. CASE k = w.i
        BY <1>8, <2>2, <3>1 DEF WriteData, TypeInv, TypeOK
      <3>2. CASE k # w.i
        <4>1. k \in 0 .. w.i - 1
          BY <2>1, <3>2
        <4>2. content'[w.sec + k] = content[w.sec + k]
          BY <1>8, <2>2, <4>1 DEF WriteData, TypeInv, TypeOK
        <4> QED BY <1>8, <4>1, <4>2 DEF WriteData, ProgressInv, WriteSteps
      <3> QED BY <3>1, <3>2
    <2>5. \/ pc' = "data" /\ w.i < LastPart(w.payload)
          \/ pc' = "offset" /\ w.path = "grow" /\ w.i >= LastPart(w.payload)
          \/ pc' = "stamp" /\ w.path # "grow" /\ w.i >= LastPart(w.payload)
      BY <1>8, <2>1 DEF WriteData
    <2>6. w.path \in {"rewrite", "reuse", "grow"} /\ (w.path # "grow" => table[w.slot] = NewEntry)
      BY <1>8 DEF WriteData, ProgressInv, WriteSteps
    <2>7. NewEntry' = NewEntry /\ table' = table
      BY <1>8, <2>3 DEF WriteData, NewEntry
    <2>8. (0 .. w'.i - 1) = 0 .. w.i /\ (w.i >= LastPart(w.payload) => 0 .. LastPart(w.payload) = 0 .. w.i)
      BY <2>1, <2>3
    <2> QED BY <2>1, <2>3, <2>4, <2>5, <2>6, <2>7, <2>8 DEF ProgressInv
  <1>9. ASSUME NEW p \in Payloads, TooLarge(p)
        PROVE  ProgressInv'
    BY <1>9 DEF TooLarge, vars, WriteSteps
  <1>10. CASE UNCHANGED vars
    BY <1>10 DEF vars, ProgressInv, NewEntry
  <1> QED BY <1>1, <1>2, <1>3, <1>4, <1>5, <1>6, <1>7, <1>8, <1>9, <1>10
        DEF Next, HealthyNext, WriteStep

(* The sectors that write computes pass the length check of the reader. *)
LEMMA LengthAccepted ==
    ASSUME NEW p \in Payloads
    PROVE  Length[p] + 1 <= SectorsNeeded(p) * SECTOR_BYTES
  <1> DEFINE n == Length[p] + CHUNK_HEADER_SIZE
  <1>1. SECTOR_BYTES \in Nat /\ SECTOR_BYTES > 0 /\ Length[p] \in Nat /\ n \in Nat
    BY RegionConstants DEF SECTOR_BYTES, CHUNK_HEADER_SIZE
  <1> HIDE DEF n
  <1>2. n = SECTOR_BYTES * (n \div SECTOR_BYTES) + (n % SECTOR_BYTES) /\ n % SECTOR_BYTES < SECTOR_BYTES
    BY <1>1
  <1>3. (n \div SECTOR_BYTES + 1) * SECTOR_BYTES = SECTOR_BYTES * (n \div SECTOR_BYTES) + SECTOR_BYTES
    BY <1>1
  <1>4. n < (n \div SECTOR_BYTES + 1) * SECTOR_BYTES
    BY <1>1, <1>2, <1>3
  <1> QED BY <1>1, <1>4 DEF SectorsNeeded, n, CHUNK_HEADER_SIZE

(* A write that comes to its end is read back. *)
LEMMA StampedIsHeld ==
    ASSUME TypeInv, SoundInv, ProgressInv, pc = "stamp", health = "ok"
    PROVE  /\ w.slot \in Slots /\ w.payload \in Payloads
           /\ table[w.slot] = NewEntry /\ NewEntry \in Entry /\ NewEntry # NoEntry
           /\ ~ (table[w.slot].sec + table[w.slot].cnt > fileSectors)
           /\ Within(content, NewEntry, w.slot, w.payload)
           /\ offsets = table /\ nSectors = fileSectors
  <1>1. w.slot \in Slots /\ w.payload \in Payloads /\ w.sec + Needed <= MaxSectors /\ w.sec \in Nat
    BY RegionConstants DEF TypeInv, TypeOK, Locals, WriteSteps, Sectors
  <1>2. table[w.slot] = NewEntry /\ \A k \in 0 .. LastPart(w.payload) : content[w.sec + k] = Tag(w.slot, w.payload, k)
    BY DEF ProgressInv, WriteSteps, Published, DataDone
  <1>3. /\ SectorsNeeded(w.payload) \in Nat \ {0} /\ LastPart(w.payload) \in Nat
        /\ LastPart(w.payload) < SectorsNeeded(w.payload)
        /\ Length[w.payload] + 1 <= SectorsNeeded(w.payload) * SECTOR_BYTES
    BY <1>1, PayloadFits, LengthAccepted
  <1>4. NewEntry \in Entry /\ NewEntry # NoEntry
    BY <1>3, NewEntryTyped DEF WriteSteps, NewEntry, NoEntry
  <1>5. \A k \in 0 .. LastPart(w.payload) : w.sec + k \in Sectors
    BY <1>1, <1>3, RegionConstants DEF Sectors, Needed
  <1>6. Within(content, NewEntry, w.slot, w.payload)
    BY <1>2, <1>3, <1>5 DEF Within, HoldsIn, NewEntry
  <1>7. RunsSound(table, fileSectors) /\ offsets = table /\ nSectors = fileSectors
    BY DEF SoundInv, Ownership, Opened, WriteSteps, TypeInv, Locals
  <1>8. table[w.slot].sec + table[w.slot].cnt <= fileSectors
    BY <1>1, <1>2, <1>4, <1>7 DEF RunsSound, Stored
  <1>9. table[w.slot].sec + table[w.slot].cnt \in Int /\ fileSectors \in Int
    BY <1>1, <1>2, <1>3 DEF NewEntry, TypeInv, TypeOK
  <1> QED BY <1>1, <1>2, <1>4, <1>6, <1>7, <1>8, <1>9

(* A chunk whose write is at its time stamp is read as it was given. *)
LEMMA StampedIsRead ==
    ASSUME TypeInv, SoundInv, ProgressInv, pc = "stamp", health = "ok"
    PROVE  Durable(w.slot) = w.payload /\ ReadAs(offsets, nSectors, w.slot) = w.payload
  <1>1. Durable(w.slot) = w.payload
    BY StampedIsHeld, DurableHeld, DurableNow
  <1>2. HoldsIn(content, table[w.slot], w.slot, w.payload)
    BY StampedIsHeld DEF Within
  <1>3. ReadFrom(offsets, nSectors, content, w.slot) = w.payload
    BY <1>2, StampedIsHeld, ReadFromHeld
  <1> QED BY <1>1, <1>3 DEF ReadAs, ReadFrom, Holds, HoldsIn

FileInv == RegionInv /\ ProgressInv

(* The progress of writes always holds. *)
LEMMA FileInvariant == Spec => []FileInv
  <1>1. Init => FileInv
    BY InitTypeInv, InitSoundInv, InitExactInv, InitProgressInv DEF FileInv, RegionInv
  <1>2. FileInv /\ [Next]_vars => FileInv'
    BY NextTypeInv, NextSoundInv, NextExactInv, NextProgressInv DEF FileInv, RegionInv
  <1> QED BY <1>1, <1>2, PTL DEF Spec

(* When write returns, the bytes it was given are what a reader gets, from   *)
(* the table in memory and after a restart: for payloads of every length, on *)
(* whatever path they were written.                                          *)
THEOREM RegionReadBack == Spec => []WrittenIsReadBack
  <1>1. FileInv => WrittenIsReadBack
    BY StampedIsRead DEF FileInv, RegionInv, WrittenIsReadBack
  <1> QED BY <1>1, FileInvariant, PTL

-----------------------------------------------------------------------------
(* The fifth part, of DesktopRegionFile: only a file whose header was not    *)
(* finished is unaligned, and it is never opened, so the padding of a file   *)
(* meets an empty table.                                                     *)
HeaderInv ==
    HasTimestamps => /\ tail # 0 => fileSectors <= 1
                     /\ Opened => fileSectors >= 2

(* The header is whole at the start. *)
LEMMA InitHeaderInv == Init => HeaderInv
  BY DEF Init, HeaderInv, Opened, WriteSteps

(* No step breaks the header. *)
LEMMA NextHeaderInv == TypeInv /\ HeaderInv /\ [Next]_vars => HeaderInv'
  <1> SUFFICES ASSUME TypeInv, HeaderInv, [Next]_vars, HasTimestamps
               PROVE  (tail' # 0 => fileSectors' <= 1) /\ (Opened' => fileSectors' >= 2)
    BY DEF HeaderInv
  <1>0. fileSectors \in Nat
    BY RegionConstants DEF TypeInv, TypeOK
  <1>1. CASE CreateInt
    BY <1>0, <1>1 DEF CreateInt, HeaderInv, TypeInv, Locals, Opened, WriteSteps
  <1>2. CASE LoadTable
    BY <1>0, <1>2 DEF LoadTable, HeaderInv, HeaderSectors
  <1>3. CASE AppendSector
    BY <1>0, <1>3 DEF AppendSector, HeaderInv, Opened, WriteSteps
  <1>4. CASE UNCHANGED <<fileSectors, tail>> /\ (Opened' => Opened)
    BY <1>4 DEF HeaderInv
  <1>5. CASE OpenFile \/ LoadFails \/ Close \/ Crash \/ FinishWrite \/ SwallowIOException
             \/ SetOffset \/ WriteHead \/ WriteData \/ UNCHANGED vars
    <2>1. UNCHANGED <<fileSectors, tail>>
      BY <1>5 DEF OpenFile, LoadFails, Close, Crash, Stopped, FinishWrite, SwallowIOException,
                  SetOffset, WriteHead, WriteData, vars, disk
    <2>2. Opened' => Opened
      BY <1>5 DEF OpenFile, LoadFails, Close, Crash, Stopped, FinishWrite, SwallowIOException,
                  SetOffset, WriteHead, WriteData, vars, Opened, WriteSteps
    <2> QED BY <1>4, <2>1, <2>2
  <1>6. ASSUME NEW c \in Slots, NEW p \in Payloads, Rewrite(c, p) \/ Reuse(c, p) \/ Grow(c, p)
        PROVE  UNCHANGED <<fileSectors, tail>> /\ Opened
    BY <1>6 DEF Rewrite, Reuse, Grow, StartWrite, disk, Opened
  <1>7. ASSUME NEW p \in Payloads, TooLarge(p)
        PROVE  UNCHANGED <<fileSectors, tail>> /\ Opened
    BY <1>7 DEF TooLarge, vars, Opened
  <1> QED BY <1>1, <1>2, <1>3, <1>4, <1>5, <1>6, <1>7 DEF Next, HealthyNext, WriteStep

(* A table in a file without room for a chunk is empty. *)
LEMMA ShortFileEmpty ==
    ASSUME TypeInv, RunsSound(table, fileSectors), fileSectors <= 1
    PROVE  \A d \in Slots : table[d] = NoEntry
  <1>1. \A d \in Slots : table[d].sec \in Nat /\ table[d].cnt \in Nat
    BY RegionConstants DEF TypeInv, TypeOK, Entry, Sectors
  <1> QED BY <1>1 DEF RunsSound, HeaderSectors, Stored, TypeInv, TypeOK

(* Where the entry of d keeps its place, the file does not shrink and no     *)
(* sector of its run is written, a reader of d notices nothing.              *)
LEMMA Undisturbed ==
    ASSUME TypeInv, RunsSound(table, fileSectors), NEW d \in Slots, table'[d] = table[d],
           fileSectors' \in Nat, fileSectors' >= fileSectors,
           table[d] # NoEntry => \A s \in Run(table[d]) : content'[s] = content[s]
    PROVE  Durable(d)' = Durable(d)
  <1>1. table[d] \in Entry /\ table[d].sec \in Nat /\ table[d].cnt \in Nat /\ fileSectors \in Nat
    BY RegionConstants DEF TypeInv, TypeOK, Entry, Sectors
  <1>2. table[d] # NoEntry => /\ ~ (table[d].sec + table[d].cnt > fileSectors)
                              /\ ~ (table[d].sec + table[d].cnt > fileSectors')
    BY <1>1 DEF RunsSound, Stored
  <1>3. DurableIn(table', fileSectors', content', d) = DurableIn(table, fileSectors, content, d)
    BY <1>1, <1>2, DurableLocal
  <1> QED BY <1>3, DurableNow

(* Nothing durable changes while the disk stays. *)
LEMMA DiskKept ==
    ASSUME UNCHANGED disk
    PROVE  \A d \in Slots : Durable(d)' = Durable(d)
  <1>1. UNCHANGED <<table, fileSectors, content>>
    BY DEF disk
  <1> QED BY <1>1, DurableNow

(* Whatever step is taken, a reader of any chunk but the one being written  *)
(* gets the same.                                                           *)
LEMMA OthersKept ==
    ASSUME FileInv, HeaderInv, [Next]_vars, HasTimestamps, health' # "spoiled",
           NEW d \in Slots, ~ (pc \in WriteSteps /\ d = w.slot)
    PROVE  Durable(d)' = Durable(d)
  <1>0. TypeInv /\ SoundInv /\ ProgressInv
    BY DEF FileInv, RegionInv
  <1>1. fileSectors \in Nat /\ table[d].sec \in Nat /\ table[d].cnt \in Nat /\ table \in [Slots -> Entry]
        /\ DOMAIN content = Sectors /\ w.sec \in Nat
    BY <1>0, RegionConstants DEF TypeInv, TypeOK, Entry, Sectors
  <1>2. health # "spoiled" => RunsSound(table, fileSectors)
    BY <1>0 DEF SoundInv
  <1>3. CASE OpenFile \/ SwallowIOException \/ Close \/ Crash \/ UNCHANGED vars
    <2>1. UNCHANGED disk
      BY <1>3 DEF OpenFile, SwallowIOException, Close, Crash, Stopped, vars, disk
    <2> QED BY <2>1, DiskKept
  <1>4. ASSUME NEW c \in Slots, NEW p \in Payloads, Rewrite(c, p) \/ Reuse(c, p) \/ Grow(c, p)
        PROVE  Durable(d)' = Durable(d)
    <2>1. UNCHANGED disk
      BY <1>4 DEF Rewrite, Reuse, Grow, StartWrite
    <2> QED BY <2>1, DiskKept
  <1>5. ASSUME NEW p \in Payloads, TooLarge(p)
        PROVE  Durable(d)' = Durable(d)
    <2>1. UNCHANGED disk
      BY <1>5 DEF TooLarge, vars, disk
    <2> QED BY <2>1, DiskKept
  <1>6. CASE CreateInt
    <2>1. RunsSound(table, fileSectors) /\ fileSectors <= 1
      BY <1>0, <1>2, <1>6 DEF CreateInt, TypeInv, Locals
    <2>2. table[d] = NoEntry
      BY <1>0, <2>1, ShortFileEmpty
    <2>3. table'[d] = NoEntry
      BY <1>1, <1>6, <2>2 DEF CreateInt
    <2> QED BY <2>2, <2>3, DurableAbsent, DurableNow
  <1>7. CASE LoadTable \/ LoadFails
    <2>1. table' = PaddedTable /\ UNCHANGED <<fileSectors, content, health>>
      BY <1>7 DEF LoadTable, LoadFails
    <2>2. RunsSound(table, fileSectors)
      BY <1>2, <2>1
    <2>3. tail # 0 => table[d] = NoEntry
      BY <1>0, <2>2, ShortFileEmpty DEF HeaderInv
    <2>4. table'[d] = table[d]
      BY <1>1, <2>1, <2>3 DEF PaddedTable, Slots, TypeInv, TypeOK
    <2> QED BY <1>0, <1>1, <2>1, <2>2, <2>4, Undisturbed
  <1>8. CASE WriteStep
    <2>0. pc \in WriteSteps /\ UNCHANGED health
      BY <1>8 DEF WriteStep, AppendSector, SetOffset, WriteHead, WriteData, FinishWrite, WriteSteps
    <2>1. health = "ok" /\ Ownership /\ RunsSound(table, fileSectors) /\ nSectors = fileSectors /\ d # w.slot
      BY <1>0, <1>2, <2>0 DEF SoundInv, Opened, TypeInv, TypeOK, Locals, WriteSteps
    <2>2. table[d] # NoEntry => \A s \in Run(table[d]) : s \in Nat /\ s < fileSectors /\ s # 1
      BY <1>1, <2>1 DEF RunsSound, Stored, Run, HeaderSectors
    <2>3. CASE AppendSector
      <3>1. \A s \in Sectors : s # nSectors => content'[s] = content[s]
        BY <1>1, <2>3 DEF AppendSector
      <3>2. Run(table[d]) \subseteq Sectors
        BY <1>1, RegionConstants DEF Run, Sectors, Entry
      <3>3. table' = table /\ fileSectors' = fileSectors + 1
        BY <2>3 DEF AppendSector
      <3> QED BY <1>0, <1>1, <2>1, <2>2, <3>1, <3>2, <3>3, Undisturbed
    <2>4. CASE SetOffset
      <3>1. table'[d] = table[d] /\ UNCHANGED <<fileSectors, content>>
        BY <1>1, <2>1, <2>4 DEF SetOffset
      <3> QED BY <1>0, <1>1, <2>1, <3>1, Undisturbed
    <2>5. CASE WriteHead \/ WriteData
      <3> DEFINE i == IF pc = "head" THEN 0 ELSE w.i
      <3>0. pc \in {"head", "data"} /\ w.slot \in Slots /\ w.payload \in Payloads
        BY <1>0, <2>5 DEF WriteHead, WriteData, WriteSteps, TypeInv, TypeOK, Locals
      <3>1. /\ LastPart(w.payload) \in Nat /\ Needed \in Nat /\ LastPart(w.payload) < Needed
            /\ i \in Nat /\ i <= LastPart(w.payload)
        BY <1>0, <2>1, <3>0, PayloadFits DEF ProgressInv, TypeInv, TypeOK, WriteSteps, Needed
      <3>2. \A s \in Sectors : s # w.sec + i => content'[s] = content[s]
        BY <1>1, <2>5 DEF WriteHead, WriteData
      <3>3. table' = table /\ fileSectors' = fileSectors
        BY <2>5 DEF WriteHead, WriteData
      <3>4. Run(table[d]) \subseteq Sectors
        BY <1>1, RegionConstants DEF Run, Sectors, Entry
      <3> HIDE DEF i
      <3>5. CASE w.path = "grow"
        <4>1. table[d].sec + table[d].cnt <= w.sec
          BY <2>0, <2>1, <3>0, <3>5 DEF Ownership
        <4>2. \A s \in Run(table[d]) : s # w.sec + i
          BY <1>1, <3>1, <4>1 DEF Run
        <4> QED BY <1>0, <1>1, <2>1, <3>2, <3>3, <3>4, <4>2, Undisturbed
      <3>6. CASE w.path # "grow"
        <4>1. table[w.slot] = NewEntry
          BY <1>0, <2>0, <2>1, <3>0, <3>6 DEF ProgressInv, Published
        <4>2. w.sec + i \in Run(NewEntry)
          BY <1>1, <3>1 DEF Run, NewEntry, Needed
        <4>3. w.slot \in Stored(table)
          BY <3>0, <3>1, <4>1 DEF Stored, NewEntry, NoEntry, Needed
        <4>4. table[d] # NoEntry => Run(table[d]) \cap Run(NewEntry) = {}
          BY <2>1, <3>0, <4>1, <4>3 DEF RunsSound, Stored
        <4>5. table[d] # NoEntry => \A s \in Run(table[d]) : s # w.sec + i
          BY <4>2, <4>4
        <4> QED BY <1>0, <1>1, <2>1, <3>2, <3>3, <3>4, <4>5, Undisturbed
      <3> QED BY <3>5, <3>6
    <2>6. CASE FinishWrite
      <3>1. \A s \in Sectors : s # 1 => content'[s] = content[s]
        BY <1>1, <2>6 DEF FinishWrite
      <3>2. Run(table[d]) \subseteq Sectors
        BY <1>1, RegionConstants DEF Run, Sectors, Entry
      <3>3. table' = table /\ fileSectors' = fileSectors
        BY <2>6 DEF FinishWrite
      <3> QED BY <1>0, <1>1, <2>1, <2>2, <3>1, <3>2, <3>3, Undisturbed
    <2> QED BY <1>8, <2>3, <2>4, <2>5, <2>6 DEF WriteStep
  <1> QED BY <1>3, <1>4, <1>5, <1>6, <1>7, <1>8 DEF Next, HealthyNext

(* The header is always whole. *)
LEMMA HeaderInvariant == Spec => []HeaderInv
  BY InitTypeInv, InitHeaderInv, NextTypeInv, NextHeaderInv, PTL DEF Spec

(* In a file of DesktopRegionFile no step of opening, writing, failing or   *)
(* dying changes what a reader of another chunk gets.                       *)
THEOREM RegionOthersKept ==
    ASSUME HasTimestamps
    PROVE  Spec => OnlyWrittenSlotChanges
  <1>1. FileInv /\ HeaderInv /\ [Next]_vars =>
           (health' # "spoiled" =>
              \A d \in Slots : Durable(d)' # Durable(d) => pc \in WriteSteps /\ d = w.slot)
    BY OthersKept
  <1> QED BY <1>1, FileInvariant, HeaderInvariant, PTL DEF Spec, OnlyWrittenSlotChanges

-----------------------------------------------------------------------------
(* The refinement.  Where a file is reopened after a failed write, no write  *)
(* starts on a half-updated memory.                                          *)
NeverSpoiled == health # "spoiled"

(* A file that is not used after a fault is never spoiled. *)
LEMMA NextNeverSpoiled ==
    ASSUME ~ UseAfterFault
    PROVE  TypeInv /\ NeverSpoiled /\ [Next]_vars => NeverSpoiled'
  <1> SUFFICES ASSUME TypeInv, NeverSpoiled, [Next]_vars PROVE NeverSpoiled'
    OBVIOUS
  <1>1. ASSUME NEW c \in Slots, NEW p \in Payloads, Rewrite(c, p) \/ Reuse(c, p) \/ Grow(c, p)
        PROVE  NeverSpoiled'
    BY <1>1 DEF Rewrite, Reuse, Grow, StartWrite, NeverSpoiled
  <1>2. ASSUME NEW p \in Payloads, TooLarge(p)
        PROVE  NeverSpoiled'
    BY <1>2 DEF TooLarge, vars, NeverSpoiled
  <1>3. CASE OpenFile \/ CreateInt \/ LoadTable \/ LoadFails \/ WriteStep \/ UNCHANGED vars
    BY <1>3 DEF OpenFile, CreateInt, LoadTable, LoadFails, WriteStep, AppendSector, SetOffset,
                WriteHead, WriteData, FinishWrite, vars, NeverSpoiled
  <1>4. CASE Close \/ Crash \/ SwallowIOException
    BY <1>4 DEF Close, Crash, Stopped, SwallowIOException, NeverSpoiled
  <1> QED BY <1>1, <1>2, <1>3, <1>4 DEF Next, HealthyNext

(* A file that is not open has no exception behind it. *)
ClosedIsHealthy == pc \in {"closed", "create", "load"} => health = "ok"

(* Closing and dying forget the exception; opening raises none that is kept. *)
LEMMA NextClosedIsHealthy ==
    TypeInv /\ NeverSpoiled /\ ClosedIsHealthy /\ [Next]_vars => ClosedIsHealthy'
  <1> SUFFICES ASSUME TypeInv, NeverSpoiled, ClosedIsHealthy, [Next]_vars PROVE ClosedIsHealthy'
    OBVIOUS
  <1>1. ASSUME NEW c \in Slots, NEW p \in Payloads, Rewrite(c, p) \/ Reuse(c, p) \/ Grow(c, p)
        PROVE  ClosedIsHealthy'
    BY <1>1 DEF Rewrite, Reuse, Grow, StartWrite, ClosedIsHealthy
  <1>2. ASSUME NEW p \in Payloads, TooLarge(p)
        PROVE  ClosedIsHealthy'
    BY <1>2 DEF TooLarge, vars, ClosedIsHealthy
  <1>3. CASE OpenFile \/ CreateInt \/ LoadTable \/ LoadFails \/ WriteStep \/ UNCHANGED vars
    BY <1>3 DEF OpenFile, CreateInt, LoadTable, LoadFails, WriteStep, AppendSector, SetOffset,
                WriteHead, WriteData, FinishWrite, vars, ClosedIsHealthy
  <1>4. CASE Close \/ Crash \/ SwallowIOException
    BY <1>4 DEF Close, Crash, Stopped, SwallowIOException, ClosedIsHealthy, NeverSpoiled
  <1> QED BY <1>1, <1>2, <1>3, <1>4 DEF Next, HealthyNext

StoreInv == FileInv /\ HeaderInv /\ NeverSpoiled /\ ClosedIsHealthy

(* All of this always holds of a file that is not used after a fault. *)
LEMMA StoreInvariant ==
    ASSUME ~ UseAfterFault
    PROVE  Spec => []StoreInv
  <1>1. Init => NeverSpoiled /\ ClosedIsHealthy
    BY DEF Init, NeverSpoiled, ClosedIsHealthy
  <1>2. FileInv /\ NeverSpoiled /\ [Next]_vars => NeverSpoiled'
    BY NextNeverSpoiled DEF FileInv, RegionInv
  <1>3. FileInv /\ NeverSpoiled /\ ClosedIsHealthy /\ [Next]_vars => ClosedIsHealthy'
    BY NextClosedIsHealthy DEF FileInv, RegionInv
  <1> QED BY <1>1, <1>2, <1>3, FileInvariant, HeaderInvariant, PTL DEF Spec, StoreInv

(* The values of the abstract variables. *)
Contents == [c \in Slots |-> Durable(c)]
Writing == IF pc \in WriteSteps THEN <<w.slot, w.payload>> ELSE Absent

(* The slot and the payload of the write under way. *)
LEMMA WritingTyped == StoreInv /\ pc \in WriteSteps =>
    w.slot \in Slots /\ w.payload \in Payloads /\ Writing = <<w.slot, w.payload>> /\ Writing # Absent
  <1> SUFFICES ASSUME StoreInv, pc \in WriteSteps
               PROVE  w.slot \in Slots /\ w.payload \in Payloads /\ Writing = <<w.slot, w.payload>> /\ Writing # Absent
    OBVIOUS
  <1>1. w.slot \in Slots /\ w.payload \in Payloads
    BY DEF StoreInv, FileInv, RegionInv, TypeInv, TypeOK, Locals
  <1>2. <<w.slot, w.payload>> \in (0 .. SECTOR_INTS - 1) \X Payloads
    BY <1>1 DEF Slots
  <1> QED BY <1>1, <1>2, RegionConstants DEF Writing

(* A step that changes no reader's answer. *)
LEMMA ContentsKept ==
    ASSUME \A d \in Slots : Durable(d)' = Durable(d)
    PROVE  Contents' = Contents
  BY DEF Contents

(* Every step of the file is a step of the chunk store, or none. *)
LEMMA StepSimulation ==
    ASSUME HasTimestamps, ~ UseAfterFault, StoreInv, [Next]_vars
    PROVE  \/ /\ StoreStatus = "closed" /\ StoreStatus' = "open"
              /\ Writing' = Writing /\ Contents' = Contents
           \/ /\ StoreStatus = "open" /\ StoreStatus' = StoreStatus
              /\ \E c \in Slots, p \in Payloads :
                    Writing = Absent /\ Writing' = <<c, p>> /\ Contents' = Contents
           \/ /\ Writing # Absent /\ Writing' = Writing /\ StoreStatus' = StoreStatus
              /\ \E r \in Payloads \cup {Absent, Torn} : Contents' = [Contents EXCEPT ![Writing[1]] = r]
           \/ /\ Writing # Absent /\ Contents[Writing[1]] = Writing[2]
              /\ Writing' = Absent /\ Contents' = Contents /\ StoreStatus' = StoreStatus
           \/ /\ Writing # Absent /\ StoreStatus' = "failed"
              /\ Writing' = Absent /\ Contents' = Contents
           \/ /\ StoreStatus # "closed" /\ StoreStatus' = "closed"
              /\ Writing' = Absent /\ Contents' = Contents
           \/ Writing' = Writing /\ Contents' = Contents /\ StoreStatus' = StoreStatus
  <1>0. FileInv /\ HeaderInv /\ health # "spoiled" /\ TypeInv /\ SoundInv /\ ProgressInv
    BY DEF StoreInv, FileInv, RegionInv, NeverSpoiled
  <1>1. health' # "spoiled" => \A d \in Slots : ~ (pc \in WriteSteps /\ d = w.slot) => Durable(d)' = Durable(d)
    BY <1>0, OthersKept
  <1>2. ASSUME UNCHANGED disk PROVE Contents' = Contents
    BY <1>2, DiskKept, ContentsKept
  <1>3. CASE Close \/ Crash
    <2>1. UNCHANGED disk /\ pc' = "closed" /\ pc # "closed"
      BY <1>3 DEF Close, Crash, Stopped
    <2>2. Writing' = Absent /\ StoreStatus' = "closed" /\ Contents' = Contents
      BY <1>2, <2>1 DEF Writing, StoreStatus, WriteSteps
    <2>3. CASE pc \in {"create", "load"}
      BY <2>2, <2>3 DEF Writing, StoreStatus, WriteSteps
    <2>4. CASE pc \notin {"create", "load"}
      BY <2>1, <2>2, <2>4 DEF StoreStatus
    <2> QED BY <2>3, <2>4
  <1>10. CASE SwallowIOException
    <2>1. UNCHANGED disk /\ pc \in WriteSteps /\ pc' = "idle"
      BY <1>10 DEF SwallowIOException, WriteSteps
    <2>2. health' # "ok"
      BY <1>0, <1>10 DEF SwallowIOException
    <2>3. Writing # Absent
      BY <2>1, WritingTyped
    <2> QED BY <1>2, <2>1, <2>2, <2>3 DEF Writing, StoreStatus, WriteSteps
  <1>4. CASE OpenFile \/ CreateInt \/ LoadTable \/ LoadFails
    <2>1. pc \notin WriteSteps /\ pc' \notin WriteSteps /\ health' = health
      BY <1>4 DEF OpenFile, CreateInt, LoadTable, LoadFails, WriteSteps
    <2>2. Contents' = Contents
      BY <1>0, <1>1, <2>1, ContentsKept
    <2>3. pc \in {"closed", "create", "load"} /\ pc' \in {"closed", "create", "load", "idle"}
      BY <1>4 DEF OpenFile, CreateInt, LoadTable, LoadFails
    <2>4. health = "ok"
      BY <1>0, <2>3 DEF StoreInv, ClosedIsHealthy
    <2>5. StoreStatus = "closed" /\ StoreStatus' \in {"closed", "open"}
      BY <2>1, <2>3, <2>4 DEF StoreStatus
    <2> QED BY <2>1, <2>2, <2>5 DEF Writing
  <1>5. ASSUME NEW c \in Slots, NEW p \in Payloads, Rewrite(c, p) \/ Reuse(c, p) \/ Grow(c, p)
        PROVE  /\ StoreStatus = "open" /\ StoreStatus' = StoreStatus
               /\ Writing = Absent /\ Writing' = <<c, p>> /\ Contents' = Contents
    <2>1. UNCHANGED disk /\ pc = "idle" /\ pc' \in WriteSteps /\ w'.slot = c /\ w'.payload = p
      BY <1>5 DEF Rewrite, Reuse, Grow, StartWrite, WriteSteps
    <2>2. health = "ok" /\ health' = "ok"
      BY <1>5 DEF Rewrite, Reuse, Grow, StartWrite
    <2> QED BY <1>2, <2>1, <2>2 DEF Writing, StoreStatus, WriteSteps
  <1>6. ASSUME NEW p \in Payloads, TooLarge(p)
        PROVE  Writing' = Writing /\ Contents' = Contents /\ StoreStatus' = StoreStatus
    <2>1. UNCHANGED disk /\ pc' = pc /\ w' = w /\ health' = health
      BY <1>6 DEF TooLarge, vars, disk
    <2> QED BY <1>2, <2>1 DEF Writing, StoreStatus
  <1>7. CASE AppendSector \/ SetOffset \/ WriteHead \/ WriteData
    <2>1. pc \in WriteSteps /\ pc' \in WriteSteps /\ health' = health
      BY <1>7 DEF AppendSector, SetOffset, WriteHead, WriteData, WriteSteps
    <2>2. w'.slot = w.slot /\ w'.payload = w.payload
      BY <1>0, <1>7 DEF AppendSector, SetOffset, WriteHead, WriteData, TypeInv, TypeOK
    <2>3. Writing = <<w.slot, w.payload>> /\ Writing' = Writing /\ Writing # Absent /\ w.slot \in Slots
      BY <2>1, <2>2, WritingTyped DEF Writing
    <2>4. PICK c \in Slots : c = w.slot
      BY <2>3
    <2>5. \A d \in Slots : d # c => Durable(d)' = Durable(d)
      BY <1>0, <1>1, <2>1, <2>4
    <2>6. PICK r \in Payloads \cup {Absent, Torn} : r = Durable(c)'
      BY DurableNow, DurableReadable
    <2>7. Contents' = [Contents EXCEPT ![c] = r]
      BY <2>5, <2>6 DEF Contents
    <2>8. Writing[1] = c
      BY <2>3, <2>4
    <2>9. StoreStatus' = StoreStatus
      BY <2>1 DEF StoreStatus, WriteSteps
    <2> QED BY <2>3, <2>7, <2>8, <2>9
  <1>8. CASE FinishWrite
    <2>1. pc = "stamp" /\ pc \in WriteSteps /\ pc' \notin WriteSteps /\ health' = health
      BY <1>8 DEF FinishWrite, WriteSteps
    <2>2. health = "ok"
      BY <1>0, <2>1 DEF SoundInv, TypeInv, TypeOK
    <2>3. Durable(w.slot) = w.payload
      BY <1>0, <2>1, <2>2, StampedIsRead
    <2>4. w.slot \in Slots /\ Writing = <<w.slot, w.payload>> /\ Writing # Absent /\ Writing' = Absent
      BY <2>1, WritingTyped DEF Writing
    <2>5. ASSUME NEW c \in Slots PROVE Durable(c)' = Durable(c)
      <3>1. /\ RunsSound(table, fileSectors) /\ table' = table /\ fileSectors' = fileSectors
            /\ table[c] \in Entry /\ fileSectors \in Nat
        BY <1>0, <1>8, RegionConstants DEF FinishWrite, SoundInv, TypeInv, TypeOK
      <3>2. \A s \in Sectors : s # 1 => content'[s] = content[s]
        BY <1>0, <1>8 DEF FinishWrite, TypeInv, TypeOK
      <3>3. table[c] # NoEntry => \A s \in Run(table[c]) : s \in Sectors /\ s # 1
        BY <3>1, RegionConstants DEF RunsSound, Stored, Run, HeaderSectors, Entry, Sectors
      <3> QED BY <1>0, <3>1, <3>2, <3>3, Undisturbed
    <2>6. Contents' = Contents
      BY <2>5, ContentsKept
    <2>7. Contents[Writing[1]] = Writing[2]
      BY <2>3, <2>4 DEF Contents
    <2>8. StoreStatus' = StoreStatus
      BY <1>8, <2>1 DEF FinishWrite, StoreStatus, WriteSteps
    <2> QED BY <2>4, <2>6, <2>7, <2>8
  <1>9. CASE UNCHANGED vars
    <2>1. UNCHANGED disk /\ pc' = pc /\ w' = w /\ health' = health
      BY <1>9 DEF vars, disk
    <2> QED BY <1>2, <2>1 DEF Writing, StoreStatus
  <1> QED BY <1>3, <1>10, <1>4, <1>5, <1>6, <1>7, <1>8, <1>9 DEF Next, HealthyNext, WriteStep

(* DesktopRegionFile, reopened after a write that failed, implements the     *)
(* durable chunk store: a write that returned without an exception is read   *)
(* back until the same chunk is written again, through every crash, failure  *)
(* and reopen, and a write that was interrupted or swallowed an exception    *)
(* spoils its own chunk at most.                                             *)
THEOREM RegionImplementsStore ==
    ASSUME HasTimestamps, ~ UseAfterFault
    PROVE  Spec => ImplementsChunkStore
  <1>1. Init => Store!StoreInit
    <2> SUFFICES ASSUME Init PROVE Store!StoreInit
      OBVIOUS
    <2>1. \A c \in Slots : Durable(c) = Absent
      <3>1. \A c \in Slots : table[c] = NoEntry
        BY DEF Init
      <3> QED BY <3>1, DurableAbsent, DurableNow
    <2>2. pc \notin WriteSteps
      BY DEF Init, WriteSteps
    <2>3. StoreStatus = "closed"
      BY DEF Init, StoreStatus
    <2> QED BY <2>1, <2>2, <2>3 DEF Store!StoreInit
  <1>2. StoreInv /\ [Next]_vars => [Store!StoreNext]_(Store!storeVars)
    <2> SUFFICES ASSUME StoreInv, [Next]_vars PROVE [Store!StoreNext]_(Store!storeVars)
      OBVIOUS
    <2>1. Contents = [c \in Slots |-> Durable(c)] /\ Contents' = [c \in Slots |-> Durable(c)']
      BY DEF Contents
    <2> QED BY <2>1, StepSimulation
          DEF Writing, Store!StoreNext, Store!storeVars, Store!BeginStore, Store!Progress,
              Store!EndStore, Store!OpenStore, Store!FailStore, Store!Stop, Store!Readable, Contents
  <1> QED BY <1>1, <1>2, StoreInvariant, PTL DEF Spec, ImplementsChunkStore, Store!StoreSpec
=============================================================================
