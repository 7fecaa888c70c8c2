---------------------------- MODULE ChunkManager ----------------------------
(***************************************************************************)
(* The write-back cache of chunks through which blocks of a Pocket Edition *)
(* world are edited (geo.ChunkManager, geo.Chunk): a map of loaded chunks, *)
(* the chunk used last, and the database behind them.  A chunk object is   *)
(* named by the entry of the map that holds it; the only other object the  *)
(* manager can reach is a chunk it was using when the map was cleared.     *)
(***************************************************************************)
EXTENDS Integers, FiniteSets

CONSTANTS
    Keys,           \* coordinates of chunks
    Blocks,         \* positions in a chunk
    Values,         \* block types
    Air,            \* the block type 0
    UseAfterUnload, \* TRUE: clients go on with a manager after unloadChunks
    UseAfterError,  \* TRUE: clients go on with a manager after an exception
    None, Orphan, Short

ASSUME ChunkManagerConstants ==
    /\ Air \in Values
    /\ UseAfterUnload \in BOOLEAN /\ UseAfterError \in BOOLEAN
    /\ None \notin Keys /\ Orphan \notin Keys /\ None # Orphan
    /\ None \notin [Blocks -> Values] /\ Short \notin [Blocks -> Values] /\ None # Short
    /\ None \notin Values /\ None \notin [data : [Blocks -> Values], needsSaving : BOOLEAN]

VARIABLES
    records,    \* the chunk records of the database; Short is one that cannot be loaded
    db,         \* is the field db set?
    chunks,     \* the map
    lastKey, lastChunk,
    orphan,     \* the chunk lastChunk names when it is in no entry
    state,      \* "new", "ready", "saving", "unloaded" or "broken"
    toSave,     \* entries saveAll has not looked at yet
    edited,     \* what the client has set since the manager was created
    clean       \* no edit since the last saveAll that ended

vars == <<records, db, chunks, lastKey, lastChunk, orphan, state, toSave, edited, clean>>

Contents == [Blocks -> Values]
Chunk == [data : Contents, needsSaving : BOOLEAN]
EmptyContents == [b \in Blocks |-> Air]
Edits == [Keys -> [Blocks -> Values \cup {None}]]
NoEdits == [k \in Keys |-> [b \in Blocks |-> None]]

Init ==
    /\ records \in [Keys -> {None, Short, EmptyContents}]
    /\ db = FALSE
    /\ chunks = [k \in Keys |-> None]
    /\ lastKey = None /\ lastChunk = None /\ orphan = None
    /\ state = "new"
    /\ toSave = {}
    /\ edited = NoEdits
    /\ clean = TRUE

-----------------------------------------------------------------------------
(* The constructor, with openDatabase. *)
NewManager ==
    /\ state = "new"
    /\ db' = TRUE
    /\ state' = "ready"
    /\ UNCHANGED <<records, chunks, lastKey, lastChunk, orphan, toSave, edited, clean>>

(* closeDatabase and openDatabase, on a manager that is kept. *)
CloseDatabase ==
    /\ state \in {"ready", "unloaded"} /\ db
    /\ db' = FALSE
    /\ UNCHANGED <<records, chunks, lastKey, lastChunk, orphan, state, toSave, edited, clean>>

OpenDatabase ==
    /\ state \in {"ready", "unloaded"} /\ ~ db
    /\ db' = TRUE
    /\ UNCHANGED <<records, chunks, lastKey, lastChunk, orphan, state, toSave, edited, clean>>

(***************************************************************************)
(* getChunk(k): the chunk used last, an entry of the map, or a new chunk   *)
(* filled from the database.                                               *)
(***************************************************************************)
IsLast(k) == lastKey = k
MustLoad(k) == ~ IsLast(k) /\ chunks[k] = None
(* getChunkData on no database, or loadFromByteArray of too short an array. *)
LoadFails(k) == MustLoad(k) /\ (~ db \/ records[k] = Short)

Loaded(k) == [data |-> IF records[k] = None THEN EmptyContents ELSE records[k], needsSaving |-> FALSE]
ChunksAfter(k) == IF MustLoad(k) THEN [chunks EXCEPT ![k] = Loaded(k)] ELSE chunks
ChunkAfter(k) == IF IsLast(k) THEN lastChunk ELSE k

(* The object that getChunk(k) returns. *)
Returned(k) == IF ChunkAfter(k) = Orphan THEN orphan ELSE ChunksAfter(k)[ChunkAfter(k)]

InUse == state = "ready" \/ (state = "unloaded" /\ UseAfterUnload)

(* getBlockTypeId, getBlockData, getHighestBlockYAt. *)
GetBlockMutant(k) ==                      \* lastChunk not updated
    /\ InUse /\ ~ LoadFails(k) /\ ChunkAfter(k) # None
    /\ chunks' = ChunksAfter(k)
    /\ lastKey' = k
    /\ UNCHANGED <<records, db, lastChunk, orphan, state, toSave, edited, clean>>
GetBlock(k) ==
    /\ InUse /\ ~ LoadFails(k) /\ ChunkAfter(k) # None
    /\ chunks' = ChunksAfter(k)
    /\ lastKey' = k /\ lastChunk' = ChunkAfter(k)
    /\ UNCHANGED <<records, db, orphan, state, toSave, edited, clean>>

(* setBlockTypeId, setBlockData: the block, the dirty table and needsSaving. *)
SetInMutant(chunk, b, v) == [chunk EXCEPT !.data[b] = v]   \* setNeedsSaving forgotten
SetIn(chunk, b, v) == [data |-> [chunk.data EXCEPT ![b] = v], needsSaving |-> TRUE]
SetBlock(k, b, v) ==
    /\ InUse /\ ~ LoadFails(k) /\ ChunkAfter(k) # None
    /\ LET c == ChunkAfter(k) IN
       /\ chunks' = IF c = Orphan THEN chunks ELSE [ChunksAfter(k) EXCEPT ![c] = SetIn(@, b, v)]
       /\ orphan' = IF c = Orphan THEN SetIn(orphan, b, v) ELSE orphan
       /\ lastKey' = k /\ lastChunk' = c
    /\ edited' = [edited EXCEPT ![k][b] = v]
    /\ clean' = FALSE
    /\ UNCHANGED <<records, db, state, toSave>>

(* The exception comes after the coordinates of lastKey were changed. *)
AccessFailsMutant(k) ==                   \* the exception is swallowed
    /\ InUse /\ LoadFails(k)
    /\ lastKey' = k
    /\ UNCHANGED <<records, db, chunks, lastChunk, orphan, state, toSave, edited, clean>>
AccessFails(k) ==
    /\ InUse /\ LoadFails(k)
    /\ lastKey' = k
    /\ state' = IF UseAfterError THEN state ELSE "broken"
    /\ UNCHANGED <<records, db, chunks, lastChunk, orphan, toSave, edited, clean>>

-----------------------------------------------------------------------------
(***************************************************************************)
(* saveAll: a put for every entry that needs saving; needsSaving stays set. *)
(***************************************************************************)
Loadeds == {k \in Keys : chunks[k] # None}

SaveAll ==
    /\ InUse
    /\ toSave' = Loadeds
    /\ state' = "saving"
    /\ UNCHANGED <<records, db, chunks, lastKey, lastChunk, orphan, edited, clean>>

SaveChunk(k) ==
    /\ state = "saving" /\ k \in toSave
    /\ chunks[k].needsSaving => db
    /\ toSave' = toSave \ {k}
    /\ records' = IF chunks[k].needsSaving THEN [records EXCEPT ![k] = chunks[k].data] ELSE records
    /\ UNCHANGED <<db, chunks, lastKey, lastChunk, orphan, state, edited, clean>>

(* put fails, or there is no database: the rest is not saved. *)
SaveFails(k) ==
    /\ state = "saving" /\ k \in toSave /\ chunks[k].needsSaving
    /\ toSave' = {}
    /\ state' = IF UseAfterError THEN "ready" ELSE "broken"
    /\ UNCHANGED <<records, db, chunks, lastKey, lastChunk, orphan, edited, clean>>

SaveAllEnds ==
    /\ state = "saving" /\ toSave = {}
    /\ state' = "ready"
    /\ clean' = TRUE
    /\ UNCHANGED <<records, db, chunks, lastKey, lastChunk, orphan, toSave, edited>>

(* unloadChunks(false): the map is cleared, lastKey and lastChunk are not. *)
(* Edits that were not saved are given up.                                 *)
UnloadChunksMutant ==                     \* lastChunk taken for an entry still
    /\ state = "ready"
    /\ chunks' = [k \in Keys |-> None]
    /\ state' = "unloaded"
    /\ edited' = IF clean THEN edited ELSE NoEdits
    /\ clean' = TRUE
    /\ UNCHANGED <<records, db, lastKey, lastChunk, orphan, toSave>>
UnloadChunks ==
    /\ state = "ready"
    /\ chunks' = [k \in Keys |-> None]
    /\ orphan' = IF lastChunk \in Keys THEN chunks[lastChunk] ELSE orphan
    /\ lastChunk' = IF lastChunk \in Keys THEN Orphan ELSE lastChunk
    /\ state' = "unloaded"
    /\ edited' = IF clean THEN edited ELSE NoEdits
    /\ clean' = TRUE
    /\ UNCHANGED <<records, db, lastKey, toSave>>

(* The program ends, or is killed, and a new manager will be created. *)
Restart ==
    /\ state # "new"
    /\ db' = FALSE
    /\ chunks' = [k \in Keys |-> None]
    /\ lastKey' = None /\ lastChunk' = None /\ orphan' = None
    /\ state' = "new"
    /\ toSave' = {}
    /\ edited' = NoEdits
    /\ clean' = TRUE
    /\ UNCHANGED records

Next ==
    \/ NewManager \/ CloseDatabase \/ OpenDatabase
    \/ \E k \in Keys : GetBlock(k) \/ AccessFails(k) \/ SaveChunk(k) \/ SaveFails(k)
    \/ \E k \in Keys, b \in Blocks, v \in Values : SetBlock(k, b, v)
    \/ SaveAll \/ SaveAllEnds \/ UnloadChunks \/ Restart

Spec == Init /\ [][Next]_vars

-----------------------------------------------------------------------------
(***************************************************************************)
(* Properties.                                                             *)
(***************************************************************************)
(* The map, lastChunk and the records keep their types, and lastChunk names *)
(* a chunk that exists.                                                     *)
TypeOK ==
    /\ records \in [Keys -> Contents \cup {None, Short}]
    /\ db \in BOOLEAN
    /\ chunks \in [Keys -> Chunk \cup {None}]
    /\ lastKey \in Keys \cup {None}
    /\ lastChunk \in Keys \cup {None, Orphan}
    /\ lastChunk \in Keys => chunks[lastChunk] # None
    /\ orphan \in Chunk \cup {None}
    /\ lastChunk = Orphan => orphan # None
    /\ state \in {"new", "ready", "saving", "unloaded", "broken"}
    /\ toSave \in SUBSET Loadeds
    /\ edited \in Edits
    /\ clean \in BOOLEAN

(* A client reads the blocks it has set, whether the chunk comes from        *)
(* lastChunk, from the map or from the database (ChunkManager.getChunk).     *)
(* It says nothing of a manager used on after unloadChunks or after an       *)
(* exception unless UseAfterUnload or UseAfterError is TRUE, and then fails. *)
ReadsOwnWrites ==
    \A k \in Keys, b \in Blocks :
       InUse /\ edited[k][b] # None /\ ~ LoadFails(k) /\ ChunkAfter(k) # None
         => Returned(k).data[b] = edited[k][b]

(* The manager's fields agree with each other and with what clients have set *)
(* (ChunkManager.getChunk, loadChunk and unloadChunks).                      *)
CacheConsistent == TypeOK /\ ReadsOwnWrites

(* After a saveAll that returned, every block that was set is in the         *)
(* database: "Saves all chunks that needs saving" (ChunkManager.saveAll),    *)
(* "Does this chunk need saving next time the ChunkManager issues a save?"   *)
(* (Chunk.setNeedsSaving).                                                   *)
SavedMeansDurable ==
    clean => \A k \in Keys, b \in Blocks :
                edited[k][b] # None => records[k] \in Contents /\ records[k][b] = edited[k][b]

BlockOf(record, b) == IF record \in {None, Short} THEN Air ELSE record[b]

(* Saving changes no block that the client did not set, and replaces no      *)
(* record that it could not load (ChunkManager.saveChunk).                   *)
SaveTouchesOnlyEdits ==
    [][\A k \in Keys : records'[k] # records[k] =>
          /\ records[k] # Short
          /\ \A b \in Blocks : edited[k][b] = None => BlockOf(records'[k], b) = BlockOf(records[k], b)]_vars
=============================================================================
