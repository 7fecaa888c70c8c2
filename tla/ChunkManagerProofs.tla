------------------------- MODULE ChunkManagerProofs -------------------------
(***************************************************************************)
(* Proofs about ChunkManager, for every set of chunks, blocks and block    *)
(* types, of a manager that is used the way its one client uses it: not    *)
(* after unloadChunks and not after an exception.                          *)
(***************************************************************************)
EXTENDS ChunkManager, TLAPS

-----------------------------------------------------------------------------
(***************************************************************************)
(* The inductive invariant.                                                *)
(***************************************************************************)
(* While the manager may be used, lastChunk is the entry of lastKey.        *)
(* unloadChunks leaves lastChunk outside of the map, and only it does.      *)
LastAgrees ==
    /\ state \in {"new", "ready", "saving"} => lastChunk = lastKey
    /\ lastChunk = Orphan => state = "unloaded"

(* An edit is held by an entry of the map that saveAll will look at. *)
EditsAreCached ==
    state \in {"ready", "saving"} =>
       \A k \in Keys, b \in Blocks : edited[k][b] # None =>
          chunks[k] # None /\ chunks[k].needsSaving /\ chunks[k].data[b] = edited[k][b]

(* What the client did not set is in the map as it is in the database. *)
UneditedIsStored ==
    \A k \in Keys : chunks[k] # None =>
       /\ records[k] # Short
       /\ \A b \in Blocks : edited[k][b] = None => chunks[k].data[b] = BlockOf(records[k], b)

(* The edits of an entry are in the database. *)
Durable(k) ==
    \A b \in Blocks : edited[k][b] # None => records[k] \in Contents /\ records[k][b] = edited[k][b]

(* saveAll has stored the entries it has looked at. *)
SaveProgress ==
    /\ state # "saving" => toSave = {}
    /\ state = "saving" => \A k \in Keys \ toSave : Durable(k)

(* An object that was just made has no edits, one that was unloaded no entries. *)
FreshStates ==
    /\ state = "new" => edited = NoEdits /\ chunks = [k \in Keys |-> None]
    /\ state = "unloaded" => clean /\ chunks = [k \in Keys |-> None]

CacheInv ==
    /\ TypeOK /\ LastAgrees /\ EditsAreCached /\ UneditedIsStored /\ SaveProgress /\ FreshStates
    /\ SavedMeansDurable

(* How terrain editing uses a manager. *)
UsedAsIntended == ~ UseAfterUnload /\ ~ UseAfterError

-----------------------------------------------------------------------------
(* A new manager on any records satisfies the invariant. *)
LEMMA InitCache == Init => CacheInv
<1> SUFFICES ASSUME Init PROVE CacheInv
  OBVIOUS
<1> USE ChunkManagerConstants
<1>1. EmptyContents \in Contents
  BY DEF EmptyContents, Contents
<1>2. NoEdits \in Edits
  BY DEF NoEdits, Edits
<1>3. records \in [Keys -> Contents \cup {None, Short}]
  BY <1>1 DEF Init
<1>4. TypeOK
  BY <1>2, <1>3 DEF Init, TypeOK, Loadeds
<1>5. LastAgrees
  BY DEF Init, LastAgrees
<1>6. EditsAreCached /\ UneditedIsStored /\ SaveProgress /\ FreshStates
  BY DEF Init, EditsAreCached, UneditedIsStored, SaveProgress, FreshStates
<1>7. SavedMeansDurable
  BY DEF Init, SavedMeansDurable, NoEdits
<1> QED
  BY <1>4, <1>5, <1>6, <1>7 DEF CacheInv

(* getChunk on a manager in use: the chunk it returns is the entry of k, *)
(* and the entry is the one that was there or the record just loaded.    *)
LEMMA GetChunk ==
  ASSUME CacheInv, UsedAsIntended, NEW k \in Keys, InUse, ~ LoadFails(k), ChunkAfter(k) # None
  PROVE  /\ state = "ready" /\ ChunkAfter(k) = k
         /\ ChunksAfter(k) \in [Keys -> Chunk \cup {None}]
         /\ ChunksAfter(k)[k] \in Chunk /\ ChunksAfter(k)[k] # None
         /\ \A j \in Keys : j # k => ChunksAfter(k)[j] = chunks[j]
         /\ chunks[k] # None => ChunksAfter(k)[k] = chunks[k]
         /\ chunks[k] = None => /\ records[k] # Short
                                /\ \A b \in Blocks : ChunksAfter(k)[k].data[b] = BlockOf(records[k], b)
<1> USE ChunkManagerConstants
<1>1. state = "ready"
  BY DEF InUse, UsedAsIntended
<1>2. ChunkAfter(k) = k
  BY <1>1 DEF CacheInv, LastAgrees, ChunkAfter, IsLast
<1>3. IsLast(k) => chunks[k] # None
  BY <1>1 DEF CacheInv, LastAgrees, TypeOK, IsLast
<1>4. MustLoad(k) <=> chunks[k] = None
  BY <1>3 DEF MustLoad
<1>5. chunks[k] = None => records[k] # Short
  BY <1>4 DEF LoadFails
<1>6. EmptyContents \in Contents
  BY DEF EmptyContents, Contents
<1>7. chunks[k] = None => Loaded(k) \in Chunk
  BY <1>5, <1>6 DEF Loaded, Chunk, CacheInv, TypeOK
<1>8. ChunksAfter(k) \in [Keys -> Chunk \cup {None}]
  BY <1>4, <1>7 DEF ChunksAfter, CacheInv, TypeOK
<1>9. None \notin Chunk
  BY DEF Chunk, Contents
<1>10. ChunksAfter(k)[k] = IF chunks[k] = None THEN Loaded(k) ELSE chunks[k]
  BY <1>4 DEF ChunksAfter, CacheInv, TypeOK
<1>11. ChunksAfter(k)[k] \in Chunk
  BY <1>7, <1>10 DEF CacheInv, TypeOK
<1>12. \A j \in Keys : j # k => ChunksAfter(k)[j] = chunks[j]
  BY <1>4 DEF ChunksAfter, CacheInv, TypeOK
<1>13. ASSUME chunks[k] = None, NEW b \in Blocks
       PROVE  ChunksAfter(k)[k].data[b] = BlockOf(records[k], b)
  BY <1>10, <1>5, <1>13 DEF Loaded, EmptyContents, BlockOf
<1> QED
  BY <1>1, <1>2, <1>5, <1>8, <1>9, <1>10, <1>11, <1>12, <1>13

(* getBlockTypeId and its like keep the invariant. *)
LEMMA GetBlockStep ==
  ASSUME CacheInv, UsedAsIntended, NEW k \in Keys, GetBlock(k)
  PROVE  CacheInv'
<1> USE ChunkManagerConstants
<1>0. InUse /\ ~ LoadFails(k) /\ ChunkAfter(k) # None
  BY DEF GetBlock
<1>1. /\ state = "ready" /\ state' = "ready" /\ lastKey' = k /\ lastChunk' = k
      /\ chunks' = ChunksAfter(k)
      /\ UNCHANGED <<records, db, orphan, state, toSave, edited, clean>>
  BY <1>0, GetChunk DEF GetBlock
<1>2. /\ chunks' \in [Keys -> Chunk \cup {None}]
      /\ chunks'[k] # None
      /\ \A j \in Keys : j # k => chunks'[j] = chunks[j]
      /\ chunks[k] # None => chunks'[k] = chunks[k]
      /\ chunks[k] = None => /\ records[k] # Short
                             /\ \A b \in Blocks : chunks'[k].data[b] = BlockOf(records[k], b)
  BY <1>0, <1>1, GetChunk
<1>3. Loadeds \subseteq Loadeds'
  BY <1>2 DEF Loadeds
<1>4. TypeOK'
  BY <1>1, <1>2, <1>3 DEF TypeOK, CacheInv
<1>5. LastAgrees'
  BY <1>1 DEF LastAgrees, CacheInv
<1>6. EditsAreCached'
  BY <1>1, <1>2 DEF EditsAreCached, CacheInv
<1>7. UneditedIsStored'
  BY <1>1, <1>2 DEF UneditedIsStored, CacheInv, BlockOf
<1>8. SaveProgress' /\ FreshStates'
  BY <1>1 DEF SaveProgress, FreshStates, CacheInv
<1>9. SavedMeansDurable'
  BY <1>1 DEF SavedMeansDurable, CacheInv
<1> QED
  BY <1>4, <1>5, <1>6, <1>7, <1>8, <1>9 DEF CacheInv

(* So do setBlockTypeId and setBlockData: the edit and needsSaving are set *)
(* together, in the entry of the map.                                      *)
LEMMA SetBlockStep ==
  ASSUME CacheInv, UsedAsIntended, NEW k \in Keys, NEW b \in Blocks, NEW v \in Values, SetBlock(k, b, v)
  PROVE  CacheInv'
<1> USE ChunkManagerConstants
<1>0. InUse /\ ~ LoadFails(k) /\ ChunkAfter(k) # None
  BY DEF SetBlock
<1>1. /\ state = "ready" /\ state' = "ready" /\ lastKey' = k /\ lastChunk' = k
      /\ chunks' = [ChunksAfter(k) EXCEPT ![k] = SetIn(@, b, v)]
      /\ edited' = [edited EXCEPT ![k][b] = v] /\ clean' = FALSE
      /\ UNCHANGED <<records, db, orphan, toSave>>
  BY <1>0, GetChunk DEF SetBlock
<1> DEFINE old == ChunksAfter(k)[k]
           new == SetIn(old, b, v)
<1>2. /\ ChunksAfter(k) \in [Keys -> Chunk \cup {None}] /\ old \in Chunk
      /\ \A j \in Keys : j # k => ChunksAfter(k)[j] = chunks[j]
      /\ chunks[k] # None => old = chunks[k]
      /\ chunks[k] = None => /\ records[k] # Short
                             /\ \A a \in Blocks : old.data[a] = BlockOf(records[k], a)
  BY <1>0, GetChunk
<1>3. /\ new \in Chunk /\ new.needsSaving = TRUE /\ new.data[b] = v
      /\ \A a \in Blocks : a # b => new.data[a] = old.data[a]
  BY <1>2 DEF SetIn, Chunk, Contents
<1>4. None \notin Chunk
  BY DEF Chunk, Contents
<1>5. /\ chunks' \in [Keys -> Chunk \cup {None}] /\ chunks'[k] = new /\ chunks'[k] # None
      /\ \A j \in Keys : j # k => chunks'[j] = chunks[j]
  BY <1>1, <1>2, <1>3, <1>4
<1>6. /\ edited' \in Edits /\ edited'[k][b] = v
      /\ \A j \in Keys, a \in Blocks : j # k \/ a # b => edited'[j][a] = edited[j][a]
  BY <1>1 DEF CacheInv, TypeOK, Edits
<1>7. Loadeds \subseteq Loadeds'
  BY <1>5 DEF Loadeds
<1>8. TypeOK'
  BY <1>1, <1>5, <1>6, <1>7 DEF TypeOK, CacheInv
<1>9. LastAgrees'
  BY <1>1 DEF LastAgrees, CacheInv
<1>10. EditsAreCached'
  <2> SUFFICES ASSUME NEW j \in Keys, NEW a \in Blocks, edited'[j][a] # None
               PROVE  chunks'[j] # None /\ chunks'[j].needsSaving /\ chunks'[j].data[a] = edited'[j][a]
    BY DEF EditsAreCached
  <2>1. CASE j # k
    BY <2>1, <1>1, <1>5, <1>6 DEF EditsAreCached, CacheInv
  <2>2. CASE j = k /\ a = b
    BY <2>2, <1>3, <1>5, <1>6
  <2>3. CASE j = k /\ a # b
    BY <2>3, <1>1, <1>2, <1>3, <1>5, <1>6 DEF EditsAreCached, CacheInv
  <2> QED
    BY <2>1, <2>2, <2>3
<1>11. UneditedIsStored'
  <2> SUFFICES ASSUME NEW j \in Keys, chunks'[j] # None
               PROVE  /\ records[j] # Short
                      /\ \A a \in Blocks : edited'[j][a] = None => chunks'[j].data[a] = BlockOf(records[j], a)
    BY <1>1 DEF UneditedIsStored, BlockOf
  <2>1. CASE j # k
    BY <2>1, <1>5, <1>6 DEF UneditedIsStored, CacheInv
  <2>2. CASE j = k
    <3>1. records[k] # Short
      BY <1>2 DEF UneditedIsStored, CacheInv
    <3>2. ASSUME NEW a \in Blocks, edited'[k][a] = None PROVE chunks'[k].data[a] = BlockOf(records[k], a)
      <4>1. a # b /\ edited[k][a] = None
        BY <3>2, <1>6
      <4>2. new.data[a] = old.data[a]
        BY <4>1, <1>3
      <4>3. old.data[a] = BlockOf(records[k], a)
        BY <4>1, <1>2 DEF UneditedIsStored, CacheInv
      <4> QED
        BY <4>2, <4>3, <1>5
    <3> QED
      BY <2>2, <3>1, <3>2
  <2> QED
    BY <2>1, <2>2
<1>12. SaveProgress' /\ FreshStates'
  BY <1>1 DEF SaveProgress, FreshStates, CacheInv
<1>13. SavedMeansDurable'
  BY <1>1 DEF SavedMeansDurable
<1> QED
  BY <1>8, <1>9, <1>10, <1>11, <1>12, <1>13 DEF CacheInv

(* A put of one entry: the record becomes the data of the entry, which holds *)
(* the edits and, elsewhere, what the record held.                           *)
LEMMA SaveChunkStep ==
  ASSUME CacheInv, NEW k \in Keys, SaveChunk(k)
  PROVE  /\ CacheInv'
         /\ \A j \in Keys : records'[j] # records[j] =>
              /\ records[j] # Short
              /\ \A b \in Blocks : edited[j][b] = None => BlockOf(records'[j], b) = BlockOf(records[j], b)
<1> USE ChunkManagerConstants
<1>1. /\ state = "saving" /\ k \in toSave /\ toSave' = toSave \ {k}
      /\ records' = IF chunks[k].needsSaving THEN [records EXCEPT ![k] = chunks[k].data] ELSE records
      /\ UNCHANGED <<db, chunks, lastKey, lastChunk, orphan, state, edited, clean>>
  BY DEF SaveChunk
<1>2. chunks[k] # None /\ chunks[k] \in Chunk
  BY <1>1 DEF CacheInv, TypeOK, Loadeds
<1>3. chunks[k].data \in Contents /\ chunks[k].needsSaving \in BOOLEAN
  BY <1>2 DEF Chunk
<1>4. /\ records' \in [Keys -> Contents \cup {None, Short}]
      /\ \A j \in Keys : j # k => records'[j] = records[j]
      /\ chunks[k].needsSaving => records'[k] = chunks[k].data
      /\ ~ chunks[k].needsSaving => records'[k] = records[k]
  BY <1>1, <1>3 DEF CacheInv, TypeOK
<1>5. records[k] # Short
  BY <1>2 DEF CacheInv, UneditedIsStored
<1>6. ASSUME NEW b \in Blocks
      PROVE  chunks[k].needsSaving => BlockOf(records'[k], b) = chunks[k].data[b]
  BY <1>3, <1>4 DEF BlockOf, Contents
<1>7. \A b \in Blocks : edited[k][b] = None => BlockOf(records'[k], b) = BlockOf(records[k], b)
  BY <1>2, <1>4, <1>6 DEF CacheInv, UneditedIsStored
<1>8. records'[k] # Short
  BY <1>3, <1>4, <1>5 DEF Contents
<1>9. Durable(k)'
  <2> SUFFICES ASSUME NEW b \in Blocks, edited[k][b] # None
               PROVE  records'[k] \in Contents /\ records'[k][b] = edited[k][b]
    BY <1>1 DEF Durable
  <2>1. chunks[k].needsSaving /\ chunks[k].data[b] = edited[k][b]
    BY <1>1 DEF CacheInv, EditsAreCached
  <2> QED
    BY <2>1, <1>3, <1>4
<1>10. \A j \in Keys : j # k /\ Durable(j) => Durable(j)'
  BY <1>1, <1>4 DEF Durable
<1>11. TypeOK'
  BY <1>1, <1>4 DEF TypeOK, CacheInv, Loadeds
<1>12. LastAgrees' /\ EditsAreCached' /\ FreshStates'
  BY <1>1 DEF CacheInv, LastAgrees, EditsAreCached, FreshStates
<1>13. UneditedIsStored'
  <2> SUFFICES ASSUME NEW j \in Keys, chunks[j] # None
               PROVE  /\ records'[j] # Short
                      /\ \A b \in Blocks : edited[j][b] = None => chunks[j].data[b] = BlockOf(records'[j], b)
    BY <1>1 DEF UneditedIsStored, BlockOf
  <2>1. CASE j # k
    BY <2>1, <1>4 DEF CacheInv, UneditedIsStored
  <2>2. CASE j = k
    BY <2>2, <1>2, <1>7, <1>8 DEF CacheInv, UneditedIsStored
  <2> QED
    BY <2>1, <2>2
<1>14. SaveProgress'
  BY <1>1, <1>9, <1>10 DEF CacheInv, SaveProgress
<1>15. SavedMeansDurable'
  <2> SUFFICES ASSUME clean, NEW j \in Keys PROVE Durable(j)'
    BY <1>1 DEF SavedMeansDurable, Durable
  <2>1. Durable(j)
    BY DEF CacheInv, SavedMeansDurable, Durable
  <2> QED
    BY <2>1, <1>9, <1>10
<1>16. \A j \in Keys : records'[j] # records[j] => j = k
  BY <1>4
<1> QED
  BY <1>5, <1>7, <1>11, <1>12, <1>13, <1>14, <1>15, <1>16 DEF CacheInv

(* Every step of a manager used as intended keeps the invariant. *)
LEMMA StepKeepsCache ==
  ASSUME CacheInv, UsedAsIntended, [Next]_vars
  PROVE  CacheInv'
<1> USE ChunkManagerConstants
<1>1. CASE NewManager
  <2>1. TypeOK'
    BY <1>1 DEF NewManager, CacheInv, TypeOK, Loadeds
  <2>2. LastAgrees' /\ SaveProgress' /\ FreshStates' /\ SavedMeansDurable'
    BY <1>1 DEF NewManager, CacheInv, LastAgrees, SaveProgress, FreshStates, SavedMeansDurable
  <2>3. EditsAreCached'
    BY <1>1 DEF NewManager, CacheInv, FreshStates, EditsAreCached, NoEdits
  <2>4. UneditedIsStored'
    BY <1>1 DEF NewManager, CacheInv, UneditedIsStored, BlockOf
  <2> QED
    BY <2>1, <2>2, <2>3, <2>4 DEF CacheInv
<1>2. CASE CloseDatabase \/ OpenDatabase
  <2>1. db' \in BOOLEAN /\ UNCHANGED <<records, chunks, lastKey, lastChunk, orphan, state, toSave, edited, clean>>
    BY <1>2 DEF CloseDatabase, OpenDatabase
  <2>2. TypeOK'
    BY <2>1 DEF CacheInv, TypeOK, Loadeds
  <2>3. LastAgrees' /\ SaveProgress' /\ FreshStates' /\ SavedMeansDurable'
    BY <2>1 DEF CacheInv, LastAgrees, SaveProgress, FreshStates, SavedMeansDurable, Durable
  <2>4. EditsAreCached' /\ UneditedIsStored'
    BY <2>1 DEF CacheInv, EditsAreCached, UneditedIsStored, BlockOf
  <2> QED
    BY <2>2, <2>3, <2>4 DEF CacheInv
<1>3. CASE \E k \in Keys : GetBlock(k)
  BY <1>3, GetBlockStep
<1>4. CASE \E k \in Keys : AccessFails(k)
  <2> PICK k \in Keys : AccessFails(k)
    BY <1>4
  <2>1. /\ state = "ready" /\ state' = "broken" /\ lastKey' \in Keys
        /\ UNCHANGED <<records, db, chunks, lastChunk, orphan, toSave, edited, clean>>
    BY DEF AccessFails, UsedAsIntended, InUse
  <2>2. TypeOK'
    BY <2>1 DEF CacheInv, TypeOK, Loadeds
  <2>3. LastAgrees' /\ SaveProgress' /\ FreshStates' /\ SavedMeansDurable'
    BY <2>1 DEF CacheInv, LastAgrees, SaveProgress, FreshStates, SavedMeansDurable, Durable
  <2>4. EditsAreCached' /\ UneditedIsStored'
    BY <2>1 DEF CacheInv, EditsAreCached, UneditedIsStored, BlockOf
  <2> QED
    BY <2>2, <2>3, <2>4 DEF CacheInv
<1>5. CASE \E k \in Keys : SaveChunk(k)
  BY <1>5, SaveChunkStep
<1>6. CASE \E k \in Keys : SaveFails(k)
  <2>1. /\ state = "saving" /\ state' = "broken" /\ toSave' = {}
        /\ UNCHANGED <<records, db, chunks, lastKey, lastChunk, orphan, edited, clean>>
    BY <1>6 DEF SaveFails, UsedAsIntended
  <2>2. TypeOK'
    BY <2>1 DEF CacheInv, TypeOK, Loadeds
  <2>3. LastAgrees' /\ SaveProgress' /\ FreshStates' /\ SavedMeansDurable'
    BY <2>1 DEF CacheInv, LastAgrees, SaveProgress, FreshStates, SavedMeansDurable, Durable
  <2>4. EditsAreCached' /\ UneditedIsStored'
    BY <2>1 DEF CacheInv, EditsAreCached, UneditedIsStored, BlockOf
  <2> QED
    BY <2>2, <2>3, <2>4 DEF CacheInv
<1>7. CASE \E k \in Keys, b \in Blocks, v \in Values : SetBlock(k, b, v)
  BY <1>7, SetBlockStep
<1>8. CASE SaveAll
  <2>1. /\ state = "ready" /\ state' = "saving" /\ toSave' = Loadeds
        /\ UNCHANGED <<records, db, chunks, lastKey, lastChunk, orphan, edited, clean>>
    BY <1>8 DEF SaveAll, UsedAsIntended, InUse
  <2>2. TypeOK'
    BY <2>1 DEF CacheInv, TypeOK, Loadeds
  <2>3. LastAgrees' /\ FreshStates' /\ SavedMeansDurable'
    BY <2>1 DEF CacheInv, LastAgrees, FreshStates, SavedMeansDurable
  <2>4. EditsAreCached' /\ UneditedIsStored'
    BY <2>1 DEF CacheInv, EditsAreCached, UneditedIsStored, BlockOf
  <2>5. SaveProgress'
    BY <2>1 DEF CacheInv, EditsAreCached, SaveProgress, Durable, Loadeds
  <2> QED
    BY <2>2, <2>3, <2>4, <2>5 DEF CacheInv
<1>9. CASE SaveAllEnds
  <2>1. /\ state = "saving" /\ state' = "ready" /\ toSave = {} /\ clean' = TRUE
        /\ UNCHANGED <<records, db, chunks, lastKey, lastChunk, orphan, toSave, edited>>
    BY <1>9 DEF SaveAllEnds
  <2>2. TypeOK'
    BY <2>1 DEF CacheInv, TypeOK, Loadeds
  <2>3. LastAgrees' /\ FreshStates' /\ SaveProgress'
    BY <2>1 DEF CacheInv, LastAgrees, FreshStates, SaveProgress
  <2>4. EditsAreCached' /\ UneditedIsStored'
    BY <2>1 DEF CacheInv, EditsAreCached, UneditedIsStored, BlockOf
  <2>5. SavedMeansDurable'
    BY <2>1 DEF CacheInv, SaveProgress, SavedMeansDurable, Durable
  <2> QED
    BY <2>2, <2>3, <2>4, <2>5 DEF CacheInv
<1>10. CASE UnloadChunks
  <2>1. /\ state = "ready" /\ state' = "unloaded" /\ chunks' = [k \in Keys |-> None] /\ clean' = TRUE
        /\ edited' = (IF clean THEN edited ELSE NoEdits)
        /\ orphan' = (IF lastChunk \in Keys THEN chunks[lastChunk] ELSE orphan)
        /\ lastChunk' = (IF lastChunk \in Keys THEN Orphan ELSE lastChunk)
        /\ UNCHANGED <<records, db, lastKey, toSave>>
    BY <1>10 DEF UnloadChunks
  <2>2. NoEdits \in Edits
    BY DEF NoEdits, Edits
  <2>3. toSave = {} /\ lastChunk # Orphan
    BY <2>1 DEF CacheInv, SaveProgress, LastAgrees
  <2>4. TypeOK'
    BY <2>1, <2>2, <2>3 DEF CacheInv, TypeOK, Loadeds
  <2>5. LastAgrees' /\ EditsAreCached' /\ UneditedIsStored' /\ SaveProgress' /\ FreshStates'
    BY <2>1, <2>3 DEF CacheInv, LastAgrees, EditsAreCached, UneditedIsStored, SaveProgress, FreshStates
  <2>6. SavedMeansDurable'
    BY <2>1 DEF CacheInv, SavedMeansDurable, NoEdits
  <2> QED
    BY <2>4, <2>5, <2>6 DEF CacheInv
<1>11. CASE Restart
  <2>1. NoEdits \in Edits
    BY DEF NoEdits, Edits
  <2>2. TypeOK'
    BY <1>11, <2>1 DEF Restart, CacheInv, TypeOK, Loadeds
  <2>3. LastAgrees' /\ EditsAreCached' /\ UneditedIsStored' /\ SaveProgress' /\ FreshStates'
    BY <1>11 DEF Restart, LastAgrees, EditsAreCached, UneditedIsStored, SaveProgress, FreshStates
  <2>4. SavedMeansDurable'
    BY <1>11 DEF Restart, SavedMeansDurable, NoEdits
  <2> QED
    BY <2>2, <2>3, <2>4 DEF CacheInv
<1>12. CASE UNCHANGED vars
  <2>1. TypeOK'
    BY <1>12 DEF vars, CacheInv, TypeOK, Loadeds
  <2>2. LastAgrees' /\ SaveProgress' /\ FreshStates' /\ SavedMeansDurable'
    BY <1>12 DEF vars, CacheInv, LastAgrees, SaveProgress, FreshStates, SavedMeansDurable, Durable
  <2>3. EditsAreCached' /\ UneditedIsStored'
    BY <1>12 DEF vars, CacheInv, EditsAreCached, UneditedIsStored, BlockOf
  <2> QED
    BY <2>1, <2>2, <2>3 DEF CacheInv
<1> QED
  BY <1>1, <1>2, <1>3, <1>4, <1>5, <1>6, <1>7, <1>8, <1>9, <1>10, <1>11, <1>12 DEF Next

(* The invariant holds throughout. *)
LEMMA CacheInvariant ==
  ASSUME UsedAsIntended
  PROVE  Spec => []CacheInv
<1>1. CacheInv /\ [Next]_vars => CacheInv'
  BY StepKeepsCache
<1> QED
  BY InitCache, <1>1, PTL DEF Spec

(* While the manager may be used, a client reads what it has set. *)
LEMMA OwnWritesAreRead ==
  ASSUME CacheInv, UsedAsIntended
  PROVE  ReadsOwnWrites
<1> SUFFICES ASSUME NEW k \in Keys, NEW b \in Blocks, InUse, edited[k][b] # None,
                    ~ LoadFails(k), ChunkAfter(k) # None
             PROVE  Returned(k).data[b] = edited[k][b]
  BY DEF ReadsOwnWrites
<1>1. /\ state = "ready" /\ ChunkAfter(k) = k
      /\ chunks[k] # None => ChunksAfter(k)[k] = chunks[k]
  BY GetChunk
<1>2. chunks[k] # None /\ chunks[k].data[b] = edited[k][b]
  BY <1>1 DEF CacheInv, EditsAreCached
<1>3. Returned(k) = chunks[k]
  BY <1>1, <1>2, ChunkManagerConstants DEF Returned
<1> QED
  BY <1>2, <1>3

(* The fields of a manager agree with each other and with what its client   *)
(* has set, for every order of reads, edits, saves and failures             *)
(* (ChunkManager.getChunk, loadChunk, unloadChunks).                        *)
THEOREM ChunkCacheConsistent ==
  ASSUME UsedAsIntended
  PROVE  Spec => []CacheConsistent
<1>1. CacheInv => CacheConsistent
  BY OwnWritesAreRead DEF CacheInv, CacheConsistent
<1> QED
  BY CacheInvariant, <1>1, PTL

(* A saveAll that returned has made every edit durable, although saveAll  *)
(* only looks at the flags the edits have left (ChunkManager.saveAll).    *)
THEOREM ChunkSavesAreDurable ==
  ASSUME UsedAsIntended
  PROVE  Spec => []SavedMeansDurable
<1>1. CacheInv => SavedMeansDurable
  BY DEF CacheInv
<1> QED
  BY CacheInvariant, <1>1, PTL

(* No step changes a block of the database the client did not set, nor     *)
(* replaces a record that could not be loaded (ChunkManager.saveChunk).    *)
THEOREM ChunkSaveTouchesOnlyEdits ==
  ASSUME UsedAsIntended
  PROVE  Spec => SaveTouchesOnlyEdits
<1> DEFINE OnlyEdits == \A k \in Keys : records'[k] # records[k] =>
          /\ records[k] # Short
          /\ \A b \in Blocks : edited[k][b] = None => BlockOf(records'[k], b) = BlockOf(records[k], b)
<1>1. ASSUME CacheInv, [Next]_vars PROVE [OnlyEdits]_vars
  <2>1. CASE \E k \in Keys : SaveChunk(k)
    BY <2>1, <1>1, SaveChunkStep
  <2>2. CASE ~ \E k \in Keys : SaveChunk(k)
    <3>1. records' = records
      BY <2>2, <1>1 DEF Next, vars, NewManager, CloseDatabase, OpenDatabase, GetBlock, AccessFails,
                        SaveFails, SetBlock, SaveAll, SaveAllEnds, UnloadChunks, Restart
    <3> QED
      BY <3>1
  <2> QED
    BY <2>1, <2>2
<1>2. CacheInv /\ [Next]_vars => [OnlyEdits]_vars
  BY <1>1
<1> QED
  BY CacheInvariant, <1>2, PTL DEF Spec, SaveTouchesOnlyEdits
=============================================================================
