# A TLA+ model of WorldToPE

WorldToPE is an Android program that converts a desktop Minecraft world to a Pocket Edition (PE) world: it reads
`.mca` region files, translates blocks, and writes the chunks as records of a LevelDB database next to a new
`level.dat`. The database is LevelDB 1.18 with Snappy 1.1.0, both in the repository (`jni/`) and reached through a JNI
binding (`com.litl.leveldb`). The repository also carries the code of an editor for PE worlds
(`net.zhuoweizhang.pocketinveditor`), whose library classes the converter partly uses.

This directory holds TLA+ modules that model the program, TLC configurations that check them on small instances,
and proofs checked by TLAPS. `PROJECT.json` lists the runs, the map from definitions to source lines, mutants for
every checked property, findings, hazards and theorems. Paths below are relative to `src/app/src/main/`; `wtp` stands for
`java/com/mcal/worldtope`, `pie` for `java/net/zhuoweizhang/pocketinveditor`, `ldb` for `jni/leveldb-1.18`.

## 1. Inventory

| Component | State it keeps | Operations | Correct when |
|---|---|---|---|
| Region files (`wtp/DesktopRegionFile`, `pie/io/region/RegionFile`) | the file; in memory `offsets`, `sectorFree` | open (create, pad, load), read, write (rewrite, reuse, grow), close | no two chunks share a sector; what was written is read back; a write changes its own slot only; a kill at any file operation damages at most the slot being written |
| Conversion (`wtp/Converter`, `wtp/MainActivity`, `LevelDataConverter.write`, `LevelDBConverter.openDatabase/writeLevel`) | static `peChunk`, `tempKey`; the output database and `level.dat`; the form and progress views | choose, start, convert, convertRegion, convertChunk, setUpLevel, post results | every stored record is the image of its chunk; "Conversion complete." is true; it ends and the screen is given back |
| Native LevelDB wrappers (`java/com/litl/leveldb`, `jni/com_litl_leveldb_*.cc`) | `mPtr`, `mRefCount`, `mDestroyOnClose`; the C++ objects | open, get/put/write, iterator, snapshot, batch, ref, unref, close, destroy | no native call on a freed object; nothing leaks; owners outlive dependents; calls return |
| LevelDB: the database (`ldb/db/db_impl.cc`, manifest half of `version_set.cc`, `builder.cc`, `filename.cc`) | memtables, logs, tables, manifest, CURRENT, queue of writers, background job | open with recovery, write in groups, switch memtables, flush, compact, close | what was acknowledged survives and is visible; sequence numbers are unique; every call returns |
| LevelDB: versions and compactions (`ldb/db/version_set.cc`, `db_impl.cc`, `snapshot.h`) | counted versions of levels of files, compaction in progress, snapshots | get, flush, pick, move, compact, install, collect | a read finds the newest visible write; levels are disjoint; no file in use is removed |
| LevelDB: tables and iterators (`ldb/table/*`, `db/db_iter.cc`, `util/bloom.cc`, `util/comparator.cc`) | blocks, index, filter; positions of stacked iterators | build, get, seek, next, prev | an iterator stands where a cursor over the sorted entries stands; damage is reported |
| LevelDB: log files (`ldb/db/log_*.cc`) | blocks of fragments | add record, read record from an offset | whole records, in order, nothing glued; damage costs one block |
| LevelDB: byte encodings (`ldb/util/coding.cc`, `write_batch.cc`, `version_edit.cc`, `dbformat.cc`) | byte strings | encode, decode | what is encoded is decoded; a cut batch is refused, a cut edit decodes to an error or to part of itself |
| LevelDB: memtable (`ldb/db/skiplist.h`, `util/arena.*`) | linked nodes, blocks of memory | insert, search, allocate | searches beside an insert miss nothing; allocations are disjoint and aligned |
| LevelDB: caches (`ldb/util/cache.cc`, `db/table_cache.cc`) | hash table, list by age, counts | lookup, insert, release, erase | a table in use is open, nothing else stays open, entries are found |
| LevelDB: environment (`ldb/util/env_posix.cc`) | lock table, queue, mmap slots | lock, unlock, schedule | one opener; work that was scheduled is done |
| LevelDB: repair (`ldb/db/repair.cc`) | the directory | convert logs, scan and copy tables, write descriptor, archive | what logs and whole tables held is in the new descriptor, also after an interrupted repair; of a damaged table what could be read (finding 7: not if the repair dies while it replaces the table) |
| Snappy (`jni/snappy-1.1.0`) | hash table, output and input positions | compress, decompress, validate | round trip; no write outside the buffers; the validator agrees |
| Chunk cache of the editor (`pie/geo/ChunkManager`, `Chunk`) | map of chunks, `lastKey`/`lastChunk`, `needsSaving` | get/set block, saveAll, unloadChunks, setDatabase/close | an edit is read back, is in the database after saveAll, nothing else changes |
| Entity records, editor session, inventories, geometry, backup (`pie/*`) | static `level`, `worldFolder`; lists of slots; areas | load, save, edit | not modelled, see section 7 |

**Interactions.** `MainActivity` starts a thread that runs `Converter.convert`; it reports by `View.post`. The converter reads
through `DesktopRegionFile`, writes `level.dat` through `LevelDataConverter` and everything else through `LevelDBConverter`,
`DB`, `WriteBatch` and the static chunk buffer. Each Java wrapper owns a C++ object and counts its dependents. Inside LevelDB a
write goes through the codec and the log into the memtable; the background thread turns memtables into tables and merges tables;
readers stack iterators over memtables and tables of one version. The game may hold the database of an output (LevelDB admits one
opener), so `openDatabase` retries inside a static monitor.

The modules meet at the promises of the layer below: `Conversion` uses a database as an atomic, durable map with one opener, which is what
`DBImpl` (acknowledged writes survive and are visible), `LSM` (reads find the newest) and `PosixEnv` (the lock) are checked for; `DBImpl`
uses logs that lose only a torn end (`LogFormat`) and tables as sets of entries (`SSTable`, `ReadPath`); `NativeDB` is about the life of the objects only.

**What is hard.** Threads that share static fields; a process that Android may kill anywhere; recreated activities whose
threads live on; files updated in place; I/O errors that are caught and forgotten; C++ objects freed by reference counts
from several threads; readers that take no lock; a queue of writers and one background thread that wait for each other; recovery from a
log and a manifest that end anywhere. `PROJECT.json` lists each hazard at its line. The manifest declares only `MainActivity` and
`FileChooserActivity`: the editor's other activities are code of the repository that no path of the application starts.

## 2. Modules and how they correspond to the code

### `ChunkStore`: what a region file promises
A map from slots to payloads, with a `status`. A write takes time (`BeginStore`, `Progress`); meanwhile the slot being written, and no other, may read as anything. The only step that ends a write and leaves the store open is `EndStore`, which
requires that a reader gets the payload; a write that fails (`FailStore`) puts the store out of use until it is opened again, and `Stop` is a close or the death of the process. `RegionFile` is checked and proved to implement it (`ImplementsChunkStore`; `status` is
mapped from `pc` and `health`).

### `RegionFile`: `DesktopRegionFile` and `RegionFile`
The two classes differ in the timestamp sector and a field in the chunk header, both under `HasTimestamps`. `table`, `content`,
`fileSectors` and `tail` are the file (`tail`: ints past the last whole sector); `offsets`, `sectorFree`, `nSectors` are the
fields; `pc` and `w` say where `write` is; `health` is a ghost that says whether an exception was swallowed. The constructor is
`OpenFile`, `CreateInt` (one `writeInt` of a new header), `LoadTable`, `LoadFails`; `write` is one of `TooLarge`, `Rewrite`,
`Reuse`, `Grow`, then `AppendSector`, `SetOffset`, `WriteHead`, `WriteData`, `FinishWrite` in the order of the path.
`SwallowIOException` is its catch clause, `Crash` the end of the process, `Close` is `close`. `ReadAs` is the reader.

- The loop that looks for free sectors is modelled by what it computes, the first free run that is long enough (`FirstFit`).
- Sector contents are tags (slot, payload, part), lengths are counted in bytes, so the boundary between one sector and two is
  the code's. Compression is left out: a payload is its compressed bytes.
- `writeInt` is one step; the data is one step per sector. An `IOException` inside the constructor has the effect of `Crash`
  (the object is not used).
- Bounds: `MaxSectors` (size of the file), `UseAfterFault` (is the file still used after an exception was swallowed and the
  sector map can be wrong). The reader's length check admits up to four bytes more than the sectors hold; nothing the
  writer stores comes near it, so it is part of `ReadAs` and of no property.

### `NativeDB`: the wrappers and the C++ objects
One database, `Iters`, `Snaps`, `Batches`. `todo[t]` is the rest of the call thread `t` is in, as a sequence of operations that are atomic
in the code (`assertOpen`, `ref`, `create`, `call`, `close`, `unref`, `free`, ...); `monitor` are Java monitors (reentrant), `native` the
live C++ objects; `wild` becomes true when freed memory is touched. `closeNativeObject` runs inside the monitor of its object and
takes those of the objects it lets go, as in the code; a `synchronized` method releases its monitor whatever happens. `GetAt` is `get(snapshot, key)`, which passes a snapshot it holds no reference to. The clients keep a discipline that the code does not enforce and the repository's clients keep: an
iterator, snapshot or batch is closed by the thread that made it, nobody closes an object that another thread is in a call on (but the
database may be closed while iterators on it are open and in use), and each wrapper is closed `ClosesPerWrapper` times at most; `MaxWrappers`
bounds the wrappers alive at once.

### `Conversion`: `Converter`, `MainActivity`, and the parts of the I/O classes they use
`th[t]` are the locals of one `convert`, `peChunk`/`tempKey` the static fields, `lock` who has which database open, `monitor` that
of `LevelDBConverter`, `db`, `player`, `levelDat` the output. `Step(t)` has an action for each operation another thread, the game or a kill can
get between: the attempts of `openDatabase` (`OpenDatabase`, `OpenFails`, `OpenGivesUp`), `PutPlayer`, `ClosePlayer`, `TruncateLevelDat`,
`WriteLevelDat`, the loops over regions and cells (`ListRegions`, `NextRegion`, `SkipCell`, `ReadFails`), `convertChunk` (`ZeroChunk`, `FillSection`, `SetX`,
`SetZ`, `ToBytes`, `BatchPut`), one batch per column (`NextColumn`, `WriteBatch`), `CloseDb`, `Complete`. The screen is `ChooseWorld`, `StartConvertion`,
`Recreate`, `RunPosted`; the surroundings are `ProcessDies`, `GameOpens`, `GameCloses`.

- Blocks are abstracted to the chunk they come from, per section: enough to see leftovers of an earlier chunk and mixed chunks.
- `Recreate`: the manifest keeps the activity over keyboard, orientation and screen size changes only, and Back ends it; the thread lives
  on, what it posts to the old view has no effect any more (`listener`).
- `Sections` are naturals: a section's "Y" is a signed byte, which the game does not write negative.
- An exception in a conversion thread is rethrown and ends the process. A LevelDB batch is atomic and survives the process.

### `ChunkManager`
`chunks` is the map, `lastKey`/`lastChunk` the shortcut of `getChunk`, `orphan` a chunk that only `lastChunk` still names; `records` the database,
`edits` and `saved` are ghosts of what the client set. `getChunk` is part of `GetBlock`, `SetBlock` and, when loading throws, `AccessFails` (which leaves
the coordinates of `lastKey` changed, as the code does). `SaveAll` goes through the chunks one at a time (`SaveChunk`, `SaveFails`, `SaveAllEnds`).
The repository's tools drop the manager after `unloadChunks` and after an exception: `UseAfterUnload`, `UseAfterError` lift that, and then `CacheConsistent` fails after an exception: the coordinates of `lastKey` are changed before `loadChunk` can throw, and the next edit goes to the wrong chunk.

### `DBImpl`: opening, writing, recovering and closing a database
A thread makes one call: a write with or without sync, or a `CompactRange`. A step is what a thread does between two moments at which the mutex is
free, or one operation on a file. `db` is the object with its `VersionSet`, `disk` the files, `queue` is `writers_`, `bg` the background job and the one it interrupted, `opening` where
`DB::Open` stands. The machine may stop: every log and manifest is cut anywhere behind its last sync, an unsynced table is empty. The process may die: files stay as written. `MaxFaults` file operations
out of `mode.faults` may fail. An append to the log fails with nothing of the record in the file, all of it, or part of it: then the log is `torn`, and records written behind are not read again, as the reader drops the rest of the block (a log has one block here, `paranoid_checks` is off). The check of
`shutting_down_` at the end of a compaction and the installation that follows are one step. Creating, renaming and removing a file is taken to be durable at once; nothing in the code syncs a directory before it relies on it except for the manifest. What a compaction
does to the data is reduced to merging level 0. The version a manifest describes is computed as a set (`Kept`: of all its edits, the files that were added and not deleted since), and the logs to recover are a set of
which the lowest number comes first, as `Recover` sorts them.

### `LSM`: levels, versions, compactions, snapshots
An entry is a user key, a sequence number and a type; a file is its entries; its size is their count. `Builder` sorts the files of a level, so a level is a set and `BySmallestKey` its order; the restarts of `GetOverlappingInputs` end at the
least range that no file of level 0 sticks out of (`Widened`); the merged inputs are a set read in the order of the entries (`CompactNext`). Versions are immutable and counted. The compaction is picked by size, by seeks or by hand, widened as
`SetupOtherInputs` does, run entry by entry (`CompactEntry`: cut before, drop, add, cut when full), and installed later, so that memtables are flushed in between. `mode` says which features a behaviour uses;
all together would be out of reach.

### `SSTable` and `ReadPath`: tables and the stack of iterators
`SSTable` has keys and their order, `BlockBuilder` and `Block::Iter` with prefixes and restart points, the Bloom filter and its ranges, `TableBuilder`, `ReadBlock`, `InternalGet`. An iterator is a record and
`Do(op, i, k)` the virtual call: `ReadPath` gives each class its operations (`TwoLevel*`, `Merging*`, `DB*`). A behaviour writes entries to the memtable, level 0 and level 1, builds the files, may damage one block of a table (with `verify_checksums` and `paranoid_checks` on or off: what nothing but a checksum shows strikes only where it is verified), opens one of the
iterators and moves it; `ref` is a cursor over the same entries. Merged and snapshot iterators are given undamaged tables, so DBIter's status for a key that does not parse is left out. Bytes are `0 .. 3`, positions count entries in a block and cells in a file; compression is a flag and a size.

### The parts below: `LogFormat`, `Codecs`, `Snappy`, `SkipList`, `Arena`, `TableCache`, `PosixEnv`, `Repair`
- `LogFormat`: writer and reader cell by cell; a header is three cells, the checksum is perfect; the file may lose its end, one cell may be damaged, a read may fail. A reader checks checksums or, as the one of the repair, does not; then a damaged length, which would point at any bytes, is left out.
- `Codecs`: bytes with `kRadix` payload values, so that numbers at the limit of 32 and 64 bits have few groups; two batches built and merged by any calls; every tag of a version edit.
- `Snappy`: real byte values; the hash table, the tags, both fast paths, the decompressor with the array and the validating writer; a byte damaged or the end lost. The input is one piece, and that the decompressor reads inside it (`RefillTag` and its scratch bytes) is not modelled: reads are checked of the compressor only.
- `SkipList`: every load and store of a link is a step, of the reader's walk and of the writer's (`FindGreaterOrEqual`); memory of a node is `Raw` until stored. `Arena`: addresses are block and offset.
- `TableCache`: one shard of the LRU cache with its hash table, `FindTable` split between miss and insert, eviction, also of a table that iterators still hold, mmap slots. A chain of the hash table is the set of its entries, as no result depends on their order in it; the loop that evicts is the least number of entries whose removal makes room, the loop that grows the table the first doubling that is large enough.
- `PosixEnv`: `fcntl` locks belong to a process and go with any close of the file; `Schedule` and `BGThread` with their signal.
- `Repair`: the steps of `RepairDB`, cut off anywhere and run again, with failures to build, create, size or rename a file.

`MCParts` checks these eight together; a behaviour uses one (`job`).

### Proof modules
`RegionFileProofs`, `ConversionProofs`, `ChunkManagerProofs`, `NativeDBProofs`, `DBImplProofs` and `LSMProofs` are about the module they are named after, `PartsProofs` about `Arena`, `SkipList`, `TableCache`,
`PosixEnv` and `Repair`. `NumberFacts` has what several of them need of sets of naturals: the library's induction theorems take operators as parameters, which the provers cannot instantiate, so that sets have least elements and finite ones
have bounds is derived from well-foundedness of `<` and from facts about finite sets.

## 3. Runs

| Run | Config | Result | What it shows |
|---|---|---|---|
| `region_desktop` | `MCRegionFile` | pass, 70,211 states | crashes at every file operation and a swallowed exception: `DiskTableSound`, `SectorMapExact`, `WrittenIsReadBack`, `OnlyWrittenSlotChanges`; the file implements `ChunkStore`, so a write that returns without an exception is durable |
| `native_lifecycle` | `MCNativeDB` | pass, 366,613 | no dangling pointer, counts sound and nothing leaked (`ReferencesSound`), `destroy()` honoured, every call returns, for all orders of two threads |
| `native_reclose` | `MCNativeReclose` | violation | finding 1 |
| `conversion` | `MCConversion` | pass, 155,354 | two conversions into one directory, killed and restarted, unreadable and corrupt chunks, the game: only true images (`OutputFaithful`), whole columns and a true "Conversion complete." (`OutputComplete`), writes only with the database held, a conversion that runs alone ends and the screen is given back |
| `conversion_two` | `MCConversionTwo` | violation | finding 4 |
| `chunk_cache` | `MCChunkManager` | pass, 10,934 | edits are read back (`CacheConsistent`), durable after saveAll, nothing else changes |
| `leveldb_db` | `MCDBImpl` | pass, 264,112 | three threads, background thread, crashes of process and machine, one failing file operation of any kind, in behaviours without the two steps of `GivesUp` (findings 5 and 6): acknowledged writes survive and are visible, numbers are unique, every call returns |
| `leveldb_lsm` | `MCLSM` | pass, 366,973 | `ReadsFindNewest`, `LevelsDisjoint`, `VersionsSound`, `CompactionWellFormed` over writes, flushes, moves, compactions, snapshots and iterators |
| `leveldb_boundary` | `MCLSMBoundary` | violation | finding 2 |
| `leveldb_reads` | `MCReads` | pass, 266,540 | every order of calls on every layer of iterators, snapshots, point reads through filters, damaged blocks of a table or a level |
| `leveldb_parts` | `MCParts` | pass, 3,084,426 | the eight parts: formats written, cut, damaged and read back; searches beside an insert; arena; table cache; lock table and queue; interrupted repairs |
| `leveldb_lock` | `MCPartsLock` | violation | finding 3 |

**Further counterexamples.** These configurations are not part of the list of runs; each is violated, and shows what lies just outside the conditions of a passing run.
Run them with `tlc -config <cfg>.cfg <module>`.

| Config (module) | Property | What TLC shows |
|---|---|---|
| `MCRegionFault` (`MCRegionFile`) | `FoundSpaceIsFree` | `write` frees a chunk's old sectors before any file operation and keeps them free if one fails: the next "free space" is a chunk's |
| `MCRegionGrow` (`MCRegionFile`) | `GrowingLosesNoChunk` | a file whose size is no multiple of 4096 is padded by writing zeros over the start of the offset table |
| `MCChunkUnload` (`MCChunkManager`) | `SavedMeansDurable` | `unloadChunks` keeps `lastChunk`, and edits go to a chunk that is never saved; no client uses a manager after it |
| `MCLSMGap` (`MCLSM`) | `LevelsDisjoint` | a range compacted by hand while a memtable is flushed below it: input files with a gap, and a flush into the gap |
| `MCDBImplManual` (`MCDBImpl`) | `ManualRequestStays` | a manual compaction given up because of a background error leaves its record with the background thread |
| `MCDBImplTorn` (`MCDBImpl`) | `AckedSurviveCrash` | finding 5 |
| `MCDBImplRecover` (`MCDBImpl`) | `AckedSurviveCrash` | finding 6 |
| `MCPartsRepair` (`MCParts`) | `ReadableIsKept` | finding 7 |
| `MCPartsLogs` (`MCParts`) | `CorruptionsAreSkipped` | finding 8 |
| `MCDBImplTail` (`MCDBImpl`) | `LossIsATail` | unsynced writes of an older log may be lost while a newer log, with later writes, was synced |

**Bounds and why they are enough.**
*Region:* two slots suffice for every conflict (sharing is between two chunks), sectors of two ints so that the table has two slots; payload lengths on both
sides of a sector boundary, one exactly on it, one at the limit; five sectors admit reuse, a hole between chunks, and growth.
*NativeDB:* two threads, two iterators, a snapshot and a batch, three of the wrappers alive at once: an iterator with and without a snapshot at the same time, and each pair of closes. More threads only add closers
of objects the two already close in every order.
*Conversion:* two threads meet in the static buffer; two regions with a negative number make the window of chunks cross a region border; two rows and columns give every
combination of a skipped, unreadable, corrupt and good chunk in a column; sections 0..2 with height limit 2 have one that does not fit; two attempts in place of ten.
*ChunkManager:* two chunks of two blocks and two values: a hit, a miss, and a switch of `lastChunk`.
*DBImpl:* three writers make a group, one that is too late for it and one that does not fit (`max_group` 2); a buffer of one entry switches memtables on every write, two files stop writers; two opens give a recovery whose result is used; one fault. `MCDBImplFaults`, not in the list of runs, passes with three opens and two faults (1,500,801 states, safety only), so that a recovery follows one that failed.
*LSM:* two keys and four levels (memtable output may skip two), triggers of two files, output files of one, two or all entries, up to five writes in six files; four modes combine the features that interact.
*Reads:* up to five entries over three keys that are prefixes of each other, with the byte that stands for 0xff; blocks of two or three entries with a restart point every second, level 1 in two files; seeks to keys that are there, between and beyond.
*Parts:* blocks of seven cells and records of 0, 2 and 12, so that a header meets a block end at every distance; widths at which numbers have the longest encoding; inputs to Snappy with runs longer than one copy, literals longer than one tag and two fragments;
four keys and two levels for the skip list; three files, two threads, two cache entries and one mmap slot; three openers of one lock; two crashes of a repair.

**Fairness.** `FairSpec` assumes weak fairness of each thread's next step (the Android scheduler runs every runnable thread) and, in `Conversion`, of the main looper
(`RunPosted`). Nothing is assumed of the user, the game or the process's death: the game may keep a database for ever, and the attempts run out. `ConversionEnds` and `ScreenReleased` promise nothing while two conversions compete (`Competing`),
because Java monitors are not fair: one thread may keep taking the monitor of `LevelDBConverter`, and no fairness the platform guarantees excludes it. In `NativeDB` weak fairness is
enough with two threads: only a close keeps a monitor over several steps, and each wrapper is closed a bounded number of times. In `DBImpl` the steps of
each writer inside a call (`Writing`), of the background thread and of the destructor's wait (`Closing`) are weakly fair; opening, calling, closing, crashes and faults are not. A condition variable wakes whoever it signals, so a thread that was signalled does not depend on luck; what `EveryCallReturns` can lose is the signal itself. Where `leveldb_db` leaves a step of `GivesUp` out, a thread whose next step it is has no fair continuation, so nothing is claimed of that call.

Deadlock is checked where a system must always go on; the LevelDB runs are finite histories (bounded writes) and end.

## 4. Findings

The first four are runs that end in a violation and findings of `PROJECT.json`; the others are shown by configurations of the second table of section 3, and passing runs and theorems state what holds beside them.

1. "The Java wrapper counts as one reference" fails when `close()` is called twice (`native_reclose`); `LevelDBConverter` does call it in a loop.
2. "Entries never hop across levels" fails when a snapshot keeps two versions of a key and the output of a compaction is cut between them: the next compaction moves only the newer below the older, and `Get` returns the older (`leveldb_boundary`).
   `leveldb_lsm` therefore uses outputs that hold all versions of a key whenever snapshots are used.
3. "A database may only be opened by one process at a time" fails after a refused second open in the owning process, whose `close` gives the process's lock up (`leveldb_lock`). `Conversion` takes the
   lock at its word (`OpenFails` leaves it alone), so its results hold as long as no second open was refused in the converting process while the game waits for the database.
4. "Conversion complete." is shown for an output with chunks of another world when two conversions run into two directories: they share `peChunk` and `tempKey`, and each holds the lock of its own directory only (`conversion_two`). Into one
   directory the lock of the database keeps them apart (`conversion`, section 5).
5. "If it is just the process that crashes [...] no writes will be lost" fails after an append to the log that fails half way: the write is refused, the next one is acknowledged, and its record lies behind bytes at which the reader gives the block up (`MCDBImplTorn`).
6. The same fails when one of several logs cannot be recovered: the status of the next one takes the place of the error, the open succeeds, and the log is removed (`MCDBImplRecover`).
7. "Copy src contents to a new table and then rename the new table over the source": the source is archived before the copy is finished, so a repair that dies in between leaves what could be read of the table in `lost/` only, and the next repair returns OK without it
   (`MCPartsRepair`).
8. "We intentionally make log::Reader do checksumming": the repair's reader is made with `false`, and damaged records are returned (`MCPartsLogs`). A type byte damaged to 5 even reads as the end of the log.

Smaller observations, met while modelling, with no run of their own: `NewDB` does not sync the first manifest before `CURRENT` names it; a batch of `NULL` (from `DB.write` of a closed `WriteBatch`, whose
pointer is 0) is what `CompactRange` uses to force a memtable out; in a repair a log is archived even if its table could not be built, the
order of level 0 after a repair is that of the file numbers and not of age, and the new manifest is not synced; `UnlockFile` closes the file after its name left the lock table.

## 5. Proofs

TLAPS proves these for every value of the constants that satisfies the `ASSUME` of the module. Where a theorem has an assumption of its own, a configuration of section 3 or a finding shows what happens without it.

**`RegionFileProofs`** (`RegionConstants`: at least two ints in a sector and two sectors in the file, payload lengths in `Nat`, distinct markers.)
- `RegionTyped`: `Spec => []TypeOK`. The inductive `TypeInv` adds `Locals`: what `pc` says about the write in progress (its run ends within the bound of the file, `nSectors` is the size
  of the file, growing has not finished); the lemma `PayloadFits` shows the sectors computed by `write` hold the header and the data.
- `RegionSound`: `Spec => []DiskTableSound`. The table on disk alone is not inductive: `SoundInv` adds, while no exception was swallowed, `Ownership`: `offsets` equals the table,
  free sectors are no chunk's except the old run of the slot being moved, a run about to be reused is free, a run being appended starts behind every chunk. The argument: reuse publishes the table entry before its data, which is
  harmless as the run was free; grow publishes it after appending the sectors, where no chunk reaches; a crash keeps only the table, whose soundness `LoadTable` turns into an exact sector map again.
- `RegionMapExact`: `Spec => []SectorMapExact`. `Ownership` says that free sectors are no chunk's; `ExactInv` adds the converse (`Accounted`): a sector that is not free belongs to the header, to a chunk, or to the run being written, so no
  sector is lost for good.
- `RegionReadBack`: `Spec => []WrittenIsReadBack`. `ProgressInv` says which parts of the run are already written at each `pc`; `SoundInv` that no later write touches them.
- `RegionOthersKept`: `Spec => OnlyWrittenSlotChanges`, for the class with timestamps. `HeaderInv`: only a file whose header was not finished is unaligned, and it has no chunk, so the padding that overwrites the start of the table meets
  an empty one. For the other class `MCRegionGrow` shows the padding destroying a chunk.
- `RegionImplementsStore`: `Spec => ImplementsChunkStore`, the refinement, for the class with timestamps when the file is reopened after a swallowed exception (`~UseAfterFault`). Each action is shown to be a step of `ChunkStore` or to
  stutter; `RegionOthersKept` carries the frame of every step and `RegionReadBack` the end of a write: `FinishWrite` is `EndStore`, which no other step can stand for. `MCRegionFault` shows the assumption is needed.

**`ConversionProofs`** (`ConversionConstants`: at least one column and row, distinct names; `NoRecordIsNone`: the marker of an empty place is no record.)
- `ConversionTyped`: `Spec => []TypeOK`. `TypeInv` adds `LocalsAt`, what a program counter says of the other locals. Coordinates set by two threads still make a key of the world (`MixedKey`).
- `WritersHold`: `Spec => []WritersHoldTheDatabase`, from `HoldInv`: a thread past `OpenDatabase` and before its close is the holder of its output's lock.
- `ConvertedFaithfully`: `Spec /\ []OneDirectoryAtATime => []OutputFaithful`, for any number of directories. As long as the conversions under way at any one time go to one directory, `HoldInv` makes at most one thread be in `convertChunk` (`OneConverts`), so
  `FaithInv` can say what `peChunk` and `tempKey` hold at each program counter, that each batch only has true images, and that the records do; `KeyInjective` shows that two cells
  never have one key. The code does not enforce the condition, and finding 4 is what happens without it.
- `ConvertedCompletely`: `ASSUME OneOutput PROVE Spec => []OutputComplete`: "Conversion complete." is only shown for an output that has every readable chunk of the window with its own blocks and the level set up, and a column of chunks is in the output as a whole or
  not at all, wherever the process dies. `CompleteInv`, on top of `FaithInv`, follows the loops: of the cells behind the loop, each wanted one is in the
  database, and the batch holds exactly the wanted ones of the column's rows seen so far (`LoopAt`); the player and `level.dat` are written before the regions are listed (`SetupAt`, `LevelsSet`); every message still to be shown names a finished output (`PostedIsTrue`,
  `Finished`). What one conversion stored stays, because another one into the directory writes the same images.

**`ChunkManagerProofs`** (`ChunkManagerConstants`: air is a value, distinct markers.) All three assume `UsedAsIntended`, that a manager is not used after `unloadChunks` or after an exception, as no client of the repository does;
`MCChunkUnload` shows what happens otherwise.
- `ChunkCacheConsistent`: `[]CacheConsistent`; `ChunkSavesAreDurable`: `[]SavedMeansDurable`; `ChunkSaveTouchesOnlyEdits`: the action property `SaveTouchesOnlyEdits`.
- `CacheInv`: the shortcut `lastChunk` names the chunk of `lastKey` whenever `getChunk` may trust it (`LastAgrees`; false after an exception, which changes `lastKey` only), every edit is in an entry of the map whose
  `needsSaving` is set (`EditsAreCached`), what was not set is as in the database (`UneditedIsStored`), and `saveAll` has stored what it went past (`SaveProgress`).

**`NativeDBProofs`** (`NativeConstants`.) For any number of threads, iterators, snapshots and batches, if a wrapper is closed at most once; finding 1 is the case of two.
- `NativeCallsAreSafe`: `[]NativeSafe`, no call reaches a freed object; `DestroyIsNeverLost`: `[]DestroyTakesEffect`; `ReferenceCountsWork`: `[]ReferencesSound`, the owner of what is alive is alive, and when everything was closed nothing
  is left (here a wrapper may be closed, `ClosesPerWrapper = 1`).
- `NativeInv`: the rest of a call is one of the finitely many suffixes of the calls of the clients (`Shape`), with what each relies on (`CallsAreSound`). `CountsAreHolders`: `mRefCount` is the number of `Holders`, which are the wrapper itself until its close, each
  dependent from its `ref` to its `unref`, and a call between the two. An object is in the middle of `closeNativeObject` exactly when the count is 0, and then nobody else can reach it (`PointersAreSound`). `DestroyIsKept` follows the
  flag from `destroy()` to the close that sees it.

**`PartsProofs`** (`ArenaAssumption`: the alignment divides the block size; `SkipListAssumption`: a finite set of positive keys, at least one level; `TableCacheAssumption`: finitely many threads, hashes in `Nat`, a positive first length of the hash table.)
- `ArenaAllocationsDisjoint`: `[]AllocationsDisjoint`. `ArenaInv`: what is left of the current block was not handed out (`RestIsFree`), what was handed out lies within its block and before the rest (`HandedOut`), and in pairs apart.
- `SkipSearchesSeeInserts`: `[]SearchesSeeInserts`, for every interleaving of the links loaded by a search and by the insert with the stores of the insert. `SkipInv`: on each level a link leads to the next greater node of that level (`ListsAreSound`),
  a node of a level is on all lower ones (`LevelsAreNested`, because an insert links from below), memory not stored is never reached (`OthersAreRaw`), the predecessors the writer found stay the right ones (`WriterIsSound`; there is one writer) and the reader stands
  before its target on a node of its level (`ReaderIsSound`), so what was inserted before the search began is found.
- `TableCacheSound`: `[]CacheSound`, for any number of threads, files, capacity and mmap slots: a table in use is open and is the table of its file, and exactly the listed entries are found by their key. `CacheInv`: an entry's `refs` is the number of
  threads that hold its handle plus one while it is in the list, so it is closed exactly when neither is left, and `usage_` and the mmap slots are the charges and the files of those (`Counted`); the chains hold exactly the listed entries, each in the chain of
  its hash and each key once (`Linked`), through every growth of the table. Two threads that miss the same file both insert it: the lemma `Replaced` shows the first entry leaving the list and staying open for its users. That the eviction loop ends within the list
  and the table's new length is large enough are facts about least naturals and a recursive function of `NumberFacts`.

- `EnvironmentSound`: `[]EnvSound`, for any number of openers and of processes. `QueueIsServed`: the background thread sleeps only on an empty queue. `TableHoldsOne`: from `locks_.Insert` to `locks_.Remove` one opener per process has the file.
- `RepairKeepsAll`: `[]RepairKeepsEntries`, for any number of files and of interruptions (after a failing file operation the descriptor is still true, but entries may be missing from it). What a repair had read of a damaged table that it archived and had not replaced when it died
  (`dropped`) is excepted, and finding 7 shows that it is lost. `RepairInv`: numbers given to new files are unused (`NumbersAreFresh`), each file that holds something is still to be looked at, listed or being copied (`LogsAreKnown`,
  `TablesAreKnown`), a copy is apart from what it copies until it is whole (`CopyIsApart`), the entries that are not dropped are in some file at every step (`NothingIsLost`), and the descriptor lists what was listed before it replaces the old one
  (`DescriptorIsTrue`).

**`LSMProofs`** (`LSMConstants`: user keys `1 .. n`, at least two levels, memtables are flushed above the last level, positive sizes and thresholds.) For every number of keys, levels, readers, snapshots and files and every length of history.
- `VersionsAreSound`: `[]VersionsSound`; `CompactionsAreWellFormed`: `[]CompactionWellFormed`. Both from `BaseInv`: every entry in the memtable, in a file of any version and in an output of the running compaction is one that was written, and sequence numbers name
  entries (`KnownEntries`); file numbers are below `next_file_number`, each names one file, and the pending ones are the outputs'; the references of a version are its holders, counted with the one the compaction took (`AllCounted`); what is live or pending is on
  disk (`LiveFilesExist`). The number of a new version is free because the numbers in use are finitely many. That the widened range exists and takes every older overlapping file is the lemma about `Widened`: settled ranges are closed under intersection, and the
  range of all keys is settled.
- `LevelsAreDisjoint`: `ASSUME NoManualDuringFlushes PROVE Spec => []LevelsDisjoint`. `LevelInv`: every version's levels are apart; the inputs of the running compaction are still in the current version, at both levels everything else lies outside the range of the inputs
  (`InputsHold`), and the outputs are in order and inside that range (`OutsHold`). The argument: outputs are cut from one ordered pass, so they are apart from each other; the inputs of the next level are all that overlap, so what stays is outside; a
  memtable flushed in the meantime goes below level 0 only if it overlaps neither level, and as the inputs picked by the code have no gap between them a flushed file that meets none of them is outside their whole range. A range compacted by
  hand may take files on both sides of a gap: `MCLSMGap` shows the flush into the gap, so the assumption is needed.
- `ReadsAreNewest`: `ASSUME NoManualDuringFlushes PROVE Spec /\ []KeysTogether => []ReadsFindNewest`, and `ReadsWithoutSnapshots`: `ASSUME NoManualDuringFlushes, NoSnapshots PROVE Spec => []ReadsFindNewest`. `KeysTogether` says that no user key is in two outputs
  of the running compaction; it is what finding 2 lacks (`MCLSMBoundary`), and without snapshots it is proved: `smallest_snapshot` is then the last sequence number, so at most the newest version of a key is kept. The application never takes a snapshot (`DB.getSnapshot` has no
  caller) and the wrappers do not offer `CompactRange`, so the second theorem is about the database as this program uses it; with snapshots TLC checked `ReadInv` and `KeysTogether` on the instance of `MCLSM`.
  `ReadInv`: of two files that hold the same key the one read first has the newer entries: by level, in level 0 by number, and above level 0 no key is in two files (`Layered`); the memtable is newer than every file; what a search of all entries finds agrees with the history at
  every read point; while a compaction runs, the files beside its inputs are newer and those of the next level have other keys (`BesideInputs`), and for every read point an input that is the newest of its key is in the outputs, or is a deletion with nothing of its key in a deeper level
  and no older version in the outputs (`KeepsNewest`).
  The argument: the loop of `DoCompactionWork` keeps, of every key, all versions above `smallest_snapshot` and the newest one below it (`KeptRight`, an invariant of the loop); read points never fall below `smallest_snapshot` while it runs; a memtable flushed in the meantime
  goes below level 0 only past files of other keys (`Under`), so nothing slips below a dropped deletion (`FlushedBeside`); replacing the inputs by the outputs keeps the layers (`ReplacedLayers`) and every answer (`ReplacedSearch`). On the read side `FindFile` leads to the one
  file of a level that can answer (`FindFileFinds`), and the first file that answers has the newest entry of all files (`VersionGetIs`).

**`DBImplProofs`**: for any number of writers, opens, crashes of process and machine and failing file operations, and every size of memtable and group.
- `DatabaseInvariant`: `Spec /\ [][~GivesUp]_vars => []DBInv`, and from it `AcknowledgedSurvive` (`[]AckedSurviveCrash`), `AcknowledgedVisible` (`[]AckedAreVisible`) and `UniqueNumbers` (`[]SequencesUnique`), each in behaviours without a step of `GivesUp`: a record
  acknowledged behind a torn one (`WrittenBehindTorn`) or a failed recovery of a log forgotten (`FailureForgotten`). The code takes both steps, findings 5 and 6; the theorems say that they are the only ones at which it loses writes. A torn append by itself, a failed recovery
  that is reported, and every other failure are covered.
- `DBInv` has, besides types and the queue of writers: `DiskSound`: every prefix of the current manifest that a crash may leave (at least what is synced) names tables that exist, holds with the logs it keeps every promised entry, and makes nothing obsolete whose
  sequence number is higher than the last it records. `OpeningSound`: at each step of `DB::Open`, what was read of the logs is in tables to be added, and the new manifest says all of it before `CURRENT` names it. `UseSound`: every promise is in the memtable and its
  log, in the immutable memtable and a log not yet obsolete, or in a table of the version (`PromiseKept`); all cuts of the manifest are at or behind the object's numbers and keep its entries (`CutFollows`); unless there was a background error the manifest and the object agree
  (`ManifestCurrent`); a job's table number is in no version and its edit says what it built (`JobsSound`). `GroupsSound` ties a group's entries to the record in the log and to the sync its leader asked for.
- The argument: a log becomes obsolete only by an edit that adds the table made from its memtable, and files are removed only after that edit is synced; where the edit may or may not have reached the disk (a failed sync sets `bg_error_`), nothing is removed any more, so both
  prefixes stay sound; a crash then picks one of them. A sequence number is given only above `LastSequence`, and recovery takes the maximum of the manifest's and the logs'.

`TypeOK` of `RegionFile` and of `Conversion` is established by these theorems alone; no run repeats it.

**Only model-checked:**
- liveness (`CallsReturn`, `ConversionEnds`, `ScreenReleased`, `EveryCallReturns`): fairness and `ENABLED` are out of the prover's reach;
- `ReadsFindNewest` of `LSM` with snapshots and outputs of any size is false for the code as it stands (finding 2); that the outputs of a run with large files keep the versions of a key together (`KeysTogether`, which `ReadsAreNewest` assumes) is not proved;
- `ReadPath` with `SSTable`, `Codecs` and `Snappy`: their properties are about what recursive definitions compute for every input, which needs induction over data, and the modules declare `RECURSIVE` operators, with which the prover cannot work;
- `LogFormat`: that a reader cuts the cells as the writer glued them is an induction over the cells of a record as well.

## 6. Plan

Theorems worth proving next: that iterators, which hold their version, see at their sequence number what `ReadsFindNewest` says of a `Get`, on top of `ReadInv`.

Modules worth adding: `LevelCodec` (`NBTConverter` as two functions between fields and typed tags), `ChunkLayout` (offsets and half bytes of `Chunk`, `DataLayer` and the section loop of `convertChunk` against a reference map of blocks), `SectorScan` (the loop behind
`FirstFit`, one iteration per step), and, should a build declare the editor's activities, `EditorSession`.

## 7. Not modelled

- The editor beyond its chunk cache: entity records, the screens and their threads, inventories and loadouts, geometry and schematics, backup. The manifest declares none of these activities, so the application cannot start this code.
- NBT conversion of level and player: a table of fields and types; `Conversion` writes the level and the player as one record each. Chunk layout and block translation: arithmetic on one array.
- Item names and icons, the field-only entity and level classes, list adapters and dialogs: display and data.
- Vendored Java libraries: `org.spout.nbt`, aFileChooser.
- In LevelDB: `GetProperty`, `GetApproximateSizes`, `DestroyDB`, the block cache as a second instance of the cache in `TableCache`, plain reads, listing and clocks of `env_posix.cc`, `memenv`, `c.cc`, `port`, benchmarks and tests. In Snappy: sources and sinks of several fragments, the C binding, tests.
