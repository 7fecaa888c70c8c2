----------------------------- MODULE Conversion -----------------------------
(***************************************************************************)
(* The conversion of a desktop world (Converter), started and followed     *)
(* from the screen (MainActivity): worker threads that share the static    *)
(* chunk buffer and key of Converter, databases that only one holder can   *)
(* have open, a process that can die at any moment and be started again.   *)
(*                                                                         *)
(* A world is Regions x Columns x Rows cells.  Block data is abstracted to *)
(* the chunk it came from, per section of 16 blocks of height.             *)
(***************************************************************************)
EXTENDS Integers, Sequences, FiniteSets

CONSTANTS
    Regions,       \* numbers of the region files, in the x direction
    NCols, NRows,  \* 32 by 32 in the code: chunks of a region
    Sections,      \* values of "Y" of a section, a byte that the game never writes negative
    MaxSection,    \* 8 in the code: sections from here on do not fit
    Worlds,        \* contents of the region files: a function of the cells each
    Limits,        \* values of the argument limit
    PlayerChunk,   \* chunk coordinates of the player
    Workers,       \* threads that can run a conversion
    Outputs,       \* names of output directories
    MaxTries,      \* 10 in the code: attempts to open the database
    Game,          \* another process that uses the databases
    None

Columns == 0 .. NCols - 1
Rows == 0 .. NRows - 1
Cells == Regions \X Columns \X Rows

(* What hasChunk and the streams of a region file give for a cell: no chunk, *)
(* a chunk with no readable stream, one whose tags cannot be read, or a      *)
(* chunk, with the sections it has.                                          *)
Contents == [kind : {"absent", "unreadable", "corrupt", "chunk"}, sections : SUBSET Sections]

ASSUME ConversionConstants ==
    /\ Regions \subseteq Int /\ NCols \in Nat \ {0} /\ NRows \in Nat \ {0}
    /\ Sections \subseteq Nat /\ MaxSection \in Nat
    /\ Limits \subseteq BOOLEAN
    /\ PlayerChunk \in Int \X Int
    /\ MaxTries \in Nat
    /\ Worlds \subseteq [Cells -> Contents]
    /\ Game \notin Workers /\ None \notin Workers \cup Outputs /\ None # Game

(* xPos and zPos of the chunk in a cell. *)
KeyOf(cell) == <<cell[1] * NCols + cell[2], cell[3]>>
Keys == {KeyOf(c) : c \in Cells}

VARIABLES
    world,     \* the input world
    limit,     \* convert only the chunks around the player (MainActivity passes false)
    db,        \* per output, the chunk records of its database
    player,    \* the outputs with a ~local_player record
    levelDat,  \* per output, the file level.dat
    lock,      \* per output, who has the database open
    peChunk,   \* Converter.peChunk: per section, the chunk its blocks are from
    tempKey,   \* Converter.tempKey
    monitor,   \* the thread in a synchronized method of LevelDBConverter
    th,        \* per worker, the locals of convert
    running,   \* is the activity on the screen showing "Converting"?
    chosen,    \* has a world been chosen in it?
    posted,    \* Runnables posted to the view of that activity
    listener   \* the workers whose listener is that activity

files == <<db, player, levelDat>>
screen == <<running, chosen, posted, listener>>
input == <<world, limit>>
vars == <<input, files, lock, peChunk, tempKey, monitor, th, screen>>

Zero == <<>>
NoRecord == None
Heights == {s \in Sections : s < MaxSection}
ASSUME NoRecordIsNone == NoRecord \notin [Heights -> Keys \cup {Zero}]
EmptyBatch == [k \in Keys |-> NoRecord]

Off == [pc |-> "off", out |-> None, left |-> {}, region |-> None, x |-> 0, z |-> 0, needsWrite |-> FALSE,
        fill |-> {}, key |-> None, batch |-> EmptyBatch, tries |-> 0, opens |-> 0]

NoProcess ==
    /\ lock' = [o \in Outputs |-> IF lock[o] = Game THEN Game ELSE None]
    /\ peChunk' = [s \in Heights |-> Zero]
    /\ tempKey' = <<0, 0>>
    /\ monitor' = None
    /\ th' = [t \in Workers |-> Off]
    /\ running' = FALSE /\ chosen' = FALSE /\ posted' = <<>> /\ listener' = {}

Init ==
    /\ world \in Worlds /\ limit \in Limits
    /\ db = [o \in Outputs |-> EmptyBatch]
    /\ player = {}
    /\ levelDat = [o \in Outputs |-> "none"]
    /\ lock = [o \in Outputs |-> None]
    /\ peChunk = [s \in Heights |-> Zero]
    /\ tempKey = <<0, 0>>
    /\ monitor = None
    /\ th = [t \in Workers |-> Off]
    /\ running = FALSE /\ chosen = FALSE /\ posted = <<>> /\ listener = {}

-----------------------------------------------------------------------------
(***************************************************************************)
(* MainActivity, on the main thread.                                       *)
(***************************************************************************)
(* selectWorld and the result of the file chooser; its button is hidden *)
(* while the activity shows a conversion.                               *)
ChooseWorld ==
    /\ ~ running /\ ~ chosen
    /\ chosen' = TRUE
    /\ UNCHANGED <<input, files, lock, peChunk, tempKey, monitor, th, running, posted, listener>>

(* startConvertion *)
StartConvertion(t, o) ==
    /\ ~ running /\ chosen
    /\ th[t].pc = "off"
    /\ running' = TRUE
    /\ th' = [th EXCEPT ![t] = [Off EXCEPT !.pc = "open", !.out = o]]
    /\ listener' = listener \cup {t}
    /\ UNCHANGED <<input, files, lock, peChunk, tempKey, monitor, chosen, posted>>

(* The activity is left and a new one created; conversions go on, and post *)
(* to a view that is no longer shown.                                      *)
Recreate ==
    /\ running' = FALSE /\ chosen' = FALSE /\ posted' = <<>> /\ listener' = {}
    /\ UNCHANGED <<input, files, lock, peChunk, tempKey, monitor, th>>

(* The Runnables of onProgress and onComplete. *)
RunPosted ==
    /\ posted # <<>>
    /\ posted' = Tail(posted)
    /\ running' = IF Head(posted) = None THEN running ELSE FALSE
    /\ UNCHANGED <<input, files, lock, peChunk, tempKey, monitor, th, chosen, listener>>

Post(t, what) == posted' = IF t \in listener THEN Append(posted, what) ELSE posted

-----------------------------------------------------------------------------
(***************************************************************************)
(* openDatabase.  The first two opens are those of writeLevel, called by   *)
(* setUpLevel itself and at the end of LevelDataConverter.write, inside    *)
(* the monitor of LevelDBConverter; the third is that of convert.          *)
(***************************************************************************)
At(t, p) == th[t].pc = p
Go(t, p) == th' = [th EXCEPT ![t].pc = p]
InWriteLevel(t) == th[t].opens < 2

OpenDatabase(t) ==
    /\ At(t, "open")
    /\ InWriteLevel(t) => monitor \in {None, t}
    /\ lock[th[t].out] = None
    /\ lock' = [lock EXCEPT ![th[t].out] = t]
    /\ monitor' = IF InWriteLevel(t) THEN t ELSE monitor
    /\ th' = [th EXCEPT ![t].pc = IF InWriteLevel(t) THEN "player" ELSE "list", ![t].tries = 0, ![t].opens = @ + 1]
    /\ UNCHANGED <<input, files, peChunk, tempKey, screen>>

(* open() throws; after a pause there is another attempt. *)
OpenFailsMutant(t) ==                     \* i++ forgotten
    /\ At(t, "open")
    /\ InWriteLevel(t) => monitor \in {None, t}
    /\ lock[th[t].out] # None /\ th[t].tries < MaxTries
    /\ monitor' = IF InWriteLevel(t) THEN t ELSE monitor
    /\ th' = [th EXCEPT ![t].tries = 1]
    /\ UNCHANGED <<input, files, lock, peChunk, tempKey, screen>>
OpenFails(t) ==
    /\ At(t, "open")
    /\ InWriteLevel(t) => monitor \in {None, t}
    /\ lock[th[t].out] # None /\ th[t].tries < MaxTries
    /\ monitor' = IF InWriteLevel(t) THEN t ELSE monitor
    /\ th' = [th EXCEPT ![t].tries = @ + 1]
    /\ UNCHANGED <<input, files, lock, peChunk, tempKey, screen>>

(* The exception of the last attempt leaves convert, and an exception that   *)
(* leaves the thread ends the process.                                       *)
OpenGivesUpMutant(t) ==                   \* the exception is logged in run()
    /\ At(t, "open")
    /\ InWriteLevel(t) => monitor \in {None, t}
    /\ lock[th[t].out] # None /\ th[t].tries = MaxTries
    /\ monitor' = IF monitor = t THEN None ELSE monitor
    /\ th' = [th EXCEPT ![t] = Off]
    /\ UNCHANGED <<input, files, lock, peChunk, tempKey, screen>>
OpenGivesUp(t) ==
    /\ At(t, "open")
    /\ InWriteLevel(t) => monitor \in {None, t}
    /\ lock[th[t].out] # None /\ th[t].tries = MaxTries
    /\ NoProcess
    /\ UNCHANGED <<input, files>>

(* writeLevel: the put, then db.close() in the finally block. *)
PutPlayer(t) ==
    /\ At(t, "player")
    /\ player' = player \cup {th[t].out}
    /\ Go(t, "playerClose")
    /\ UNCHANGED <<input, db, levelDat, lock, peChunk, tempKey, monitor, screen>>

ClosePlayerMutant(t) ==                   \* no close: the next open must fail
    /\ At(t, "playerClose")
    /\ monitor' = None
    /\ Go(t, IF th[t].opens = 1 THEN "truncate" ELSE "open")
    /\ UNCHANGED <<input, files, lock, peChunk, tempKey, screen>>
ClosePlayer(t) ==
    /\ At(t, "playerClose")
    /\ lock' = [lock EXCEPT ![th[t].out] = None]
    /\ monitor' = None
    /\ Go(t, IF th[t].opens = 1 THEN "truncate" ELSE "open")
    /\ UNCHANGED <<input, files, peChunk, tempKey, screen>>

(* LevelDataConverter.write: the file is emptied, then written, then *)
(* writeLevel is called again.                                       *)
TruncateLevelDat(t) ==
    /\ At(t, "truncate")
    /\ levelDat' = [levelDat EXCEPT ![th[t].out] = "torn"]
    /\ Go(t, "levelDat")
    /\ UNCHANGED <<input, db, player, lock, peChunk, tempKey, monitor, screen>>

WriteLevelDat(t) ==
    /\ At(t, "levelDat")
    /\ levelDat' = [levelDat EXCEPT ![th[t].out] = "ok"]
    /\ Go(t, "open")
    /\ UNCHANGED <<input, db, player, lock, peChunk, tempKey, monitor, screen>>

-----------------------------------------------------------------------------
(***************************************************************************)
(* convert and convertRegion.                                              *)
(***************************************************************************)
ListRegions(t) ==
    /\ At(t, "list")
    /\ th' = [th EXCEPT ![t].pc = "region", ![t].left = Regions]
    /\ UNCHANGED <<input, files, lock, peChunk, tempKey, monitor, screen>>

LimitCount == IF limit THEN 2 ELSE -1

(* Does the window of a limited conversion miss the whole region? *)
OutOfWindow(p, first, len) == p >= first + len \/ p + LimitCount <= first
SkipRegion(r) ==
    limit /\ (\/ OutOfWindow(PlayerChunk[1], r * NCols, NCols)
              \/ OutOfWindow(PlayerChunk[2], 0, NRows))

(* onProgress, then the next file in the order listFiles gives. *)
NextRegion(t, r) ==
    /\ At(t, "region") /\ r \in th[t].left
    /\ Post(t, None)
    /\ th' = [th EXCEPT ![t].left = @ \ {r}, ![t].region = r, ![t].x = 0, ![t].z = 0, ![t].needsWrite = FALSE,
                        ![t].batch = EmptyBatch, ![t].pc = IF SkipRegion(r) THEN "region" ELSE "cell"]
    /\ UNCHANGED <<input, files, lock, peChunk, tempKey, monitor, running, chosen, listener>>

Here(t) == <<th[t].region, th[t].x, th[t].z>>
Chunk(t) == world[Here(t)]
InWindow(k) ==
    \/ LimitCount <= 0
    \/ \A i \in 1 .. 2 : k[i] >= PlayerChunk[i] /\ k[i] < PlayerChunk[i] + LimitCount
Wanted(cell) == world[cell].kind = "chunk" /\ InWindow(KeyOf(cell))

(* After the last row of a column its batch is written, if it had a chunk. *)
AfterCellMutant(rec) ==                   \* a write for every chunk
    IF rec.z + 1 < NRows /\ rec.batch = EmptyBatch THEN [rec EXCEPT !.z = @ + 1, !.pc = "cell"]
    ELSE [rec EXCEPT !.pc = IF rec.needsWrite THEN "write" ELSE "column"]
AfterCell(rec) ==
    IF rec.z + 1 < NRows THEN [rec EXCEPT !.z = @ + 1, !.pc = "cell"]
    ELSE [rec EXCEPT !.pc = IF rec.needsWrite THEN "write" ELSE "column"]

(* A cell that holds no chunk, none that can be read, or one out of the window. *)
SkipCellMutant(t) ==                      \* the flag is overwritten, not only set
    /\ At(t, "cell")
    /\ Chunk(t).kind # "corrupt" /\ ~ Wanted(Here(t))
    /\ th' = [th EXCEPT ![t] = AfterCell([@ EXCEPT !.needsWrite = (Chunk(t).kind = "chunk")])]
    /\ UNCHANGED <<input, files, lock, peChunk, tempKey, monitor, screen>>
SkipCell(t) ==
    /\ At(t, "cell")
    /\ Chunk(t).kind # "corrupt" /\ ~ Wanted(Here(t))
    /\ th' = [th EXCEPT ![t] = AfterCell([@ EXCEPT !.needsWrite = th[t].needsWrite \/ Chunk(t).kind # "absent"])]
    /\ UNCHANGED <<input, files, lock, peChunk, tempKey, monitor, screen>>

(* readTag or a cast throws. *)
ReadFails(t) ==
    /\ At(t, "cell") /\ Chunk(t).kind = "corrupt"
    /\ NoProcess
    /\ UNCHANGED <<input, files>>

(* convertChunk: zeroChunk, then the sections that fit. *)
ZeroChunkMutant(t) ==                     \* what the last chunk had stays
    /\ At(t, "cell") /\ Wanted(Here(t))
    /\ th' = [th EXCEPT ![t].pc = "fill", ![t].needsWrite = TRUE, ![t].fill = Chunk(t).sections \cap Heights]
    /\ UNCHANGED <<input, files, lock, peChunk, tempKey, monitor, screen>>
ZeroChunk(t) ==
    /\ At(t, "cell") /\ Wanted(Here(t))
    /\ peChunk' = [s \in Heights |-> Zero]
    /\ th' = [th EXCEPT ![t].pc = "fill", ![t].needsWrite = TRUE, ![t].fill = Chunk(t).sections \cap Heights]
    /\ UNCHANGED <<input, files, lock, tempKey, monitor, screen>>

FillSectionMutant(t, s) ==                \* sectionY not compared with the height
    /\ At(t, "fill") /\ s \in th[t].fill
    /\ peChunk' = [h \in Heights \cup Chunk(t).sections |-> IF h \in Chunk(t).sections THEN KeyOf(Here(t)) ELSE Zero]
    /\ th' = [th EXCEPT ![t].fill = @ \ {s}]
    /\ UNCHANGED <<input, files, lock, tempKey, monitor, screen>>
FillSection(t, s) ==
    /\ At(t, "fill") /\ s \in th[t].fill
    /\ peChunk' = [peChunk EXCEPT ![s] = KeyOf(Here(t))]
    /\ th' = [th EXCEPT ![t].fill = @ \ {s}]
    /\ UNCHANGED <<input, files, lock, tempKey, monitor, screen>>

(* tempKey.setX(chunkX).setZ(chunkZ).setType(48).toBytes() *)
SetX(t) ==
    /\ At(t, "fill") /\ th[t].fill = {}
    /\ tempKey' = [tempKey EXCEPT ![1] = KeyOf(Here(t))[1]]
    /\ Go(t, "setZ")
    /\ UNCHANGED <<input, files, lock, peChunk, monitor, screen>>

SetZ(t) ==
    /\ At(t, "setZ")
    /\ tempKey' = [tempKey EXCEPT ![2] = KeyOf(Here(t))[2]]
    /\ Go(t, "toBytes")
    /\ UNCHANGED <<input, files, lock, peChunk, monitor, screen>>

ToBytes(t) ==
    /\ At(t, "toBytes")
    /\ th' = [th EXCEPT ![t].key = tempKey, ![t].pc = "put"]
    /\ UNCHANGED <<input, files, lock, peChunk, tempKey, monitor, screen>>

(* saveToByteArray and batch.put *)
BatchPut(t) ==
    /\ At(t, "put")
    /\ th' = [th EXCEPT ![t] = AfterCell([@ EXCEPT !.batch[th[t].key] = peChunk])]
    /\ UNCHANGED <<input, files, lock, peChunk, tempKey, monitor, screen>>

AfterColumn(rec) ==
    IF rec.x + 1 < NCols THEN [rec EXCEPT !.x = @ + 1, !.z = 0, !.needsWrite = FALSE, !.pc = "cell"]
    ELSE [rec EXCEPT !.pc = "region"]

NextColumn(t) ==
    /\ At(t, "column")
    /\ th' = [th EXCEPT ![t] = AfterColumn(@)]
    /\ UNCHANGED <<input, files, lock, peChunk, tempKey, monitor, screen>>

(* db.write(batch), atomic, and batch.clear() *)
Written(batch, records) == [k \in Keys |-> IF batch[k] = NoRecord THEN records[k] ELSE batch[k]]
WriteBatch(t) ==
    /\ At(t, "write")
    /\ db' = [db EXCEPT ![th[t].out] = Written(th[t].batch, @)]
    /\ th' = [th EXCEPT ![t] = AfterColumn([@ EXCEPT !.batch = EmptyBatch])]
    /\ UNCHANGED <<input, player, levelDat, lock, peChunk, tempKey, monitor, screen>>

(* db.close(), then onComplete and the end of the thread. *)
CloseDb(t) ==
    /\ At(t, "region") /\ th[t].left = {}
    /\ lock' = [lock EXCEPT ![th[t].out] = None]
    /\ Go(t, "complete")
    /\ UNCHANGED <<input, files, peChunk, tempKey, monitor, screen>>

Complete(t) ==
    /\ At(t, "complete")
    /\ Post(t, th[t].out)
    /\ th' = [th EXCEPT ![t] = Off]
    /\ listener' = listener \ {t}
    /\ UNCHANGED <<input, files, lock, peChunk, tempKey, monitor, running, chosen>>

-----------------------------------------------------------------------------
(* The system kills the process, or an exception does: no level.dat, no *)
(* region directory, an I/O error.                                      *)
ProcessDies ==
    /\ NoProcess
    /\ UNCHANGED <<input, files>>

(* The game opens and closes the world. *)
GameOpens(o) ==
    /\ lock[o] = None
    /\ lock' = [lock EXCEPT ![o] = Game]
    /\ UNCHANGED <<input, files, peChunk, tempKey, monitor, th, screen>>
GameCloses(o) ==
    /\ lock[o] = Game
    /\ lock' = [lock EXCEPT ![o] = None]
    /\ UNCHANGED <<input, files, peChunk, tempKey, monitor, th, screen>>

Step(t) ==
    \/ OpenDatabase(t) \/ OpenFails(t) \/ OpenGivesUp(t) \/ PutPlayer(t) \/ ClosePlayer(t)
    \/ TruncateLevelDat(t) \/ WriteLevelDat(t) \/ ListRegions(t)
    \/ \E r \in Regions : NextRegion(t, r)
    \/ SkipCell(t) \/ ReadFails(t) \/ ZeroChunk(t)
    \/ \E s \in Heights : FillSection(t, s)
    \/ SetX(t) \/ SetZ(t) \/ ToBytes(t) \/ BatchPut(t)
    \/ NextColumn(t) \/ WriteBatch(t) \/ CloseDb(t) \/ Complete(t)

Next ==
    \/ ChooseWorld \/ Recreate \/ RunPosted
    \/ \E t \in Workers, o \in Outputs : StartConvertion(t, o)
    \/ \E t \in Workers : Step(t)
    \/ ProcessDies
    \/ \E o \in Outputs : GameOpens(o) \/ GameCloses(o)

Spec == Init /\ [][Next]_vars

(* Threads are scheduled and the main thread runs what is posted to it; *)
(* nothing is assumed of the user, the game or the system.              *)
FairSpec == Spec /\ WF_vars(RunPosted) /\ \A t \in Workers : WF_vars(Step(t))

-----------------------------------------------------------------------------
(***************************************************************************)
(* Properties.                                                             *)
(***************************************************************************)
Records == [Heights -> Keys \cup {Zero}]
Batches == [Keys -> Records \cup {NoRecord}]
Locals == [pc : {"off", "open", "player", "playerClose", "truncate", "levelDat", "list", "region", "cell",
                 "fill", "setZ", "toBytes", "put", "column", "write", "complete"},
           out : Outputs \cup {None}, left : SUBSET Regions, region : Regions \cup {None},
           x : Columns, z : Rows, needsWrite : BOOLEAN, fill : SUBSET Heights,
           key : Keys \cup {None}, batch : Batches, tries : 0 .. MaxTries, opens : 0 .. 3]

(* The locals of the conversions, Converter's static fields and the stored   *)
(* records keep their types; every key put in a batch is that of a chunk.    *)
TypeOK ==
    /\ world \in Worlds /\ limit \in BOOLEAN
    /\ db \in [Outputs -> Batches]
    /\ player \in SUBSET Outputs
    /\ levelDat \in [Outputs -> {"none", "torn", "ok"}]
    /\ lock \in [Outputs -> Workers \cup {Game, None}]
    /\ peChunk \in Records
    /\ tempKey \in Int \X Int
    /\ monitor \in Workers \cup {None}
    /\ th \in [Workers -> Locals]
    /\ running \in BOOLEAN /\ chosen \in BOOLEAN
    /\ posted \in Seq(Outputs \cup {None})
    /\ listener \in SUBSET Workers

(* What convertChunk should make of a chunk: its own blocks, and nothing  *)
(* where the chunk has no section.                                        *)
Image(cell) == [s \in Heights |-> IF s \in world[cell].sections THEN KeyOf(cell) ELSE Zero]

(* Conversions are under way in one directory at a time: of two that have a  *)
(* database open, one has it by the lock of the other's directory.  Nothing  *)
(* in the code sees to that (MainActivity.startConvertion).                  *)
OneDirectoryAtATime ==
    \A t, u \in Workers :
       /\ th[t].pc \notin {"off", "open", "truncate", "levelDat", "complete"}
       /\ th[u].pc \notin {"off", "open", "truncate", "levelDat", "complete"}
       => th[t].out = th[u].out

(* As long as conversions into two directories do not overlap, a record of   *)
(* an output database is the image of the chunk with that key, whatever the  *)
(* process went through: no block of a chunk converted before it, although   *)
(* all share one static buffer and one static key (Converter.peChunk,        *)
(* Converter.tempKey).  Where they do overlap it fails, and with it          *)
(* CompletionIsTrue.                                                         *)
OutputFaithful ==
    \A o \in Outputs, c \in Cells :
       db[o][KeyOf(c)] # NoRecord => Wanted(c) /\ db[o][KeyOf(c)] = Image(c)

Converted(o) ==
    /\ \A c \in Cells : Wanted(c) => db[o][KeyOf(c)] = Image(c)
    /\ o \in player
    /\ levelDat[o] = "ok" \/ \E t \in Workers : th[t].out = o /\ th[t].pc = "levelDat"

(* When "Conversion complete." is about to be shown, every chunk that can be *)
(* read and lies in the window is in the output with its own blocks, and the *)
(* level is set up, or being written again by the next conversion; also when *)
(* an earlier one into the same directory was cut off                        *)
(* (MainActivity.onComplete).  Conversions into two directories that overlap *)
(* write their chunks through one buffer, and make the message untrue.       *)
CompletionIsTrue ==
    posted # <<>> /\ Head(posted) # None => Converted(Head(posted))

(* A column of a region is in the output as a whole or not at all, wherever  *)
(* a conversion is cut off: its chunks are written by one batch.             *)
ColumnsAtomic ==
    \A o \in Outputs, r \in Regions, x \in Columns :
       LET column == {c \in Cells : c[1] = r /\ c[2] = x /\ Wanted(c)}
       IN  \/ \A c \in column : db[o][KeyOf(c)] = NoRecord
           \/ \A c \in column : db[o][KeyOf(c)] # NoRecord

(* What the user is told and what a cut off conversion leaves behind: a      *)
(* complete output after "Conversion complete.", whole columns before it     *)
(* (Converter.convertRegion and MainActivity.onComplete).                    *)
OutputComplete == CompletionIsTrue /\ ColumnsAtomic

(* A conversion has its database open, and it alone, whenever it puts or     *)
(* writes, and nobody holds a database that is not in use: each of the three *)
(* opens of a conversion has its close (LevelDBConverter.openDatabase).      *)
WritersHoldTheDatabase ==
    /\ \A t \in Workers :
          th[t].pc \notin {"off", "open", "truncate", "levelDat", "complete"} => lock[th[t].out] = t
    /\ \A o \in Outputs : lock[o] \in Workers =>
          th[lock[o]].out = o /\ th[lock[o]].pc \notin {"open", "truncate", "levelDat", "complete"}

(* Java monitors are not fair: of two conversions one may keep taking the    *)
(* monitor of openDatabase, so progress is promised while none competes.     *)
Competing == \E t, u \in Workers : t # u /\ th[t].pc # "off" /\ th[u].pc # "off"

(* A conversion that was started comes to an end, by completing or with the  *)
(* process, unless another one is started beside it, and again once that one *)
(* is over: even if the game keeps the database open for ever.               *)
ConversionEnds == \A t \in Workers : th[t].pc # "off" ~> th[t].pc = "off" \/ Competing

(* "Converting" does not stay on the screen for ever: the message of         *)
(* onComplete reaches the activity that is shown, or the process is gone,    *)
(* again unless two conversions compete.                                     *)
ScreenReleased == running ~> ~ running \/ Competing
=============================================================================
