-------------------------- MODULE ConversionProofs --------------------------
(***************************************************************************)
(* For worlds, outputs and numbers of threads of any size: conversions     *)
(* keep their types, hold the database they write to, and, when they all   *)
(* go to one directory, leave only true images of chunks in it, whole      *)
(* columns of them, and all of them once they say so.                      *)
(***************************************************************************)
EXTENDS Conversion, TLAPS

-----------------------------------------------------------------------------
(* Steps inside the loops of convertRegion. *)
InRegion == {"cell", "fill", "setZ", "toBytes", "put", "column", "write"}
Setup == {"open", "player", "playerClose", "truncate", "levelDat"}
Xs == {r * NCols + x : r \in Regions, x \in Columns}

(* What the program counter says of the other locals and of tempKey. *)
LocalsAt(t) ==
    /\ th[t].pc # "off" => th[t].out \in Outputs
    /\ th[t].pc \in InRegion => th[t].region \in Regions
    /\ th[t].pc \in Setup => th[t].opens <= 2
    /\ th[t].pc \in {"setZ", "toBytes"} => tempKey[1] \in Xs
    /\ th[t].pc = "toBytes" => tempKey[2] \in Rows

TypeInv == TypeOK /\ \A t \in Workers : LocalsAt(t)

-----------------------------------------------------------------------------
(* A cell of the input has its key. *)
LEMMA CellFacts ==
    ASSUME NEW r \in Regions, NEW x \in Columns, NEW z \in Rows
    PROVE  /\ <<r, x, z>> \in Cells
           /\ KeyOf(<<r, x, z>>) \in Keys
           /\ KeyOf(<<r, x, z>>) = <<r * NCols + x, z>>
           /\ r * NCols + x \in Xs /\ r * NCols + x \in Int /\ z \in Int
  <1>1. <<r, x, z>> \in Cells
    BY DEF Cells
  <1>2. KeyOf(<<r, x, z>>) = <<r * NCols + x, z>>
    BY DEF KeyOf
  <1>3. r * NCols + x \in Int /\ z \in Int
    BY ConversionConstants DEF Columns, Rows
  <1> QED BY <1>1, <1>2, <1>3 DEF Keys, Xs

(* The coordinates set by two threads still make a key of the world. *)
LEMMA MixedKey ==
    ASSUME NEW x \in Xs, NEW z \in Rows
    PROVE  <<x, z>> \in Keys
  <1>1. PICK r \in Regions, c \in Columns : x = r * NCols + c
    BY DEF Xs
  <1> QED BY <1>1, CellFacts

(* The locals of a thread that is off have their types. *)
LEMMA OffTyped ==
    /\ 0 \in Columns /\ 0 \in Rows
    /\ EmptyBatch \in Batches
    /\ [s \in Heights |-> Zero] \in Records
    /\ Off \in Locals
  <1>1. 0 \in Columns /\ 0 \in Rows /\ 0 \in 0 .. MaxTries
    BY ConversionConstants DEF Columns, Rows
  <1>2. EmptyBatch \in Batches /\ [s \in Heights |-> Zero] \in Records
    BY DEF EmptyBatch, Batches, NoRecord, Records
  <1> QED BY <1>1, <1>2 DEF Off, Locals

(* Types at the start. *)
LEMMA InitTypeInv == Init => TypeInv
  <1> SUFFICES ASSUME Init PROVE TypeInv
    OBVIOUS
  <1>1. th = [t \in Workers |-> Off] /\ Off \in Locals /\ Off.pc = "off"
    BY OffTyped DEF Init, Off
  <1>2. \A t \in Workers : LocalsAt(t)
    BY <1>1 DEF LocalsAt, InRegion, Setup
  <1>3. tempKey \in Int \X Int /\ posted \in Seq(Outputs \cup {None})
    BY DEF Init
  <1>4. limit \in BOOLEAN /\ db \in [Outputs -> Batches] /\ peChunk \in Records
    BY OffTyped, ConversionConstants DEF Init
  <1> QED BY <1>1, <1>2, <1>3, <1>4 DEF Init, TypeInv, TypeOK

(* Types when the process is gone. *)
LEMMA NoProcessTypeInv ==
    ASSUME TypeInv, NoProcess, UNCHANGED <<input, files>>
    PROVE  TypeInv'
  <1>1. th' \in [Workers -> Locals] /\ \A t \in Workers : th'[t].pc = "off"
    BY OffTyped DEF NoProcess, Off
  <1>2. \A t \in Workers : LocalsAt(t)'
    BY <1>1 DEF LocalsAt, InRegion, Setup
  <1>3. tempKey' \in Int \X Int /\ posted' \in Seq(Outputs \cup {None}) /\ peChunk' \in Records
    BY OffTyped DEF NoProcess
  <1>4. lock' \in [Outputs -> Workers \cup {Game, None}]
    BY DEF NoProcess
  <1> QED BY <1>1, <1>2, <1>3, <1>4 DEF NoProcess, TypeInv, TypeOK, input, files

(* The loop over the rows of a column, and the loop over the columns. *)
LEMMA AfterCellTyped ==
    ASSUME NEW rec \in Locals
    PROVE  /\ AfterCell(rec) \in Locals
           /\ AfterCell(rec).pc \in {"cell", "write", "column"}
           /\ AfterCell(rec).out = rec.out /\ AfterCell(rec).region = rec.region
           /\ AfterCell(rec).batch = rec.batch
  <1>1. CASE rec.z + 1 < NRows
    <2>1. rec.z + 1 \in Rows
      BY <1>1, ConversionConstants DEF Locals, Rows
    <2> QED BY <1>1, <2>1 DEF AfterCell, Locals
  <1>2. CASE ~ (rec.z + 1 < NRows)
    BY <1>2 DEF AfterCell, Locals
  <1> QED BY <1>1, <1>2

(* Types behind a column. *)
LEMMA AfterColumnTyped ==
    ASSUME NEW rec \in Locals
    PROVE  /\ AfterColumn(rec) \in Locals
           /\ AfterColumn(rec).pc \in {"cell", "region"}
           /\ AfterColumn(rec).out = rec.out /\ AfterColumn(rec).region = rec.region
           /\ AfterColumn(rec).batch = rec.batch
  <1>1. CASE rec.x + 1 < NCols
    <2>1. rec.x + 1 \in Columns /\ 0 \in Rows
      BY <1>1, ConversionConstants, OffTyped DEF Locals, Columns
    <2> QED BY <1>1, <2>1 DEF AfterColumn, Locals
  <1>2. CASE ~ (rec.x + 1 < NCols)
    BY <1>2 DEF AfterColumn, Locals
  <1> QED BY <1>1, <1>2

(* A step of t that stays in the loops and leaves tempKey alone. *)
LEMMA LoopStep ==
    ASSUME TypeInv, NEW t \in Workers, th[t].pc \in InRegion, tempKey' = tempKey,
           NEW rec \in Locals, rec.pc \in {"cell", "write", "column", "region"},
           rec.out = th[t].out, rec.region = th[t].region,
           th' = [th EXCEPT ![t] = rec]
    PROVE  th' \in [Workers -> Locals] /\ \A u \in Workers : LocalsAt(u)'
  <1>1. th \in [Workers -> Locals] /\ \A u \in Workers : LocalsAt(u)
    BY DEF TypeInv, TypeOK
  <1>2. th' \in [Workers -> Locals] /\ th'[t] = rec /\ \A u \in Workers : u # t => th'[u] = th[u]
    BY <1>1
  <1>3. LocalsAt(t)'
    BY <1>1, <1>2 DEF LocalsAt, InRegion, Setup
  <1>4. ASSUME NEW u \in Workers, u # t PROVE LocalsAt(u)'
    BY <1>1, <1>2, <1>4 DEF LocalsAt
  <1> QED BY <1>2, <1>3, <1>4

(* The steps that end a cell or a column. *)
LEMMA LoopRecord ==
    ASSUME TypeInv, NEW t \in Workers, SkipCell(t) \/ BatchPut(t) \/ NextColumn(t) \/ WriteBatch(t)
    PROVE  \E rec \in Locals :
              /\ rec.out = th[t].out /\ rec.region = th[t].region /\ rec.opens = th[t].opens
              /\ th' = [th EXCEPT ![t] = AfterCell(rec)] \/ th' = [th EXCEPT ![t] = AfterColumn(rec)]
              /\ \/ rec.batch \in {th[t].batch, EmptyBatch}
                 \/ BatchPut(t) /\ rec.batch = [th[t].batch EXCEPT ![th[t].key] = peChunk]
  <1> DEFINE me == th[t]
  <1>t. me \in Locals
    BY DEF TypeInv, TypeOK
  <1>1. CASE SkipCell(t)
    <2> DEFINE flag == me.needsWrite \/ Chunk(t).kind # "absent"
    <2> DEFINE rec == [me EXCEPT !.needsWrite = flag]
    <2>1. flag \in BOOLEAN
      OBVIOUS
    <2>2. rec \in Locals /\ rec.out = me.out /\ rec.region = me.region /\ rec.opens = me.opens /\ rec.batch = me.batch
      <3> HIDE DEF flag
      <3> QED BY <1>t, <2>1 DEF Locals
    <2>3. th' = [th EXCEPT ![t] = AfterCell(rec)]
      BY <1>1 DEF SkipCell
    <2> QED BY <2>2, <2>3
  <1>2. CASE BatchPut(t)
    <2> DEFINE rec == [me EXCEPT !.batch[me.key] = peChunk]
    <2>1. /\ rec \in Locals /\ rec.out = me.out /\ rec.region = me.region /\ rec.opens = me.opens
          /\ rec.batch = [me.batch EXCEPT ![me.key] = peChunk]
      BY <1>t DEF Locals, Batches, TypeInv, TypeOK
    <2>2. th' = [th EXCEPT ![t] = AfterCell(rec)]
      BY <1>2 DEF BatchPut
    <2> QED BY <1>2, <2>1, <2>2
  <1>3. CASE NextColumn(t)
    BY <1>3, <1>t DEF NextColumn
  <1>4. CASE WriteBatch(t)
    <2> DEFINE rec == [me EXCEPT !.batch = EmptyBatch]
    <2>1. rec \in Locals /\ rec.out = me.out /\ rec.region = me.region /\ rec.opens = me.opens /\ rec.batch = EmptyBatch
      BY <1>t, OffTyped DEF Locals
    <2>2. th' = [th EXCEPT ![t] = AfterColumn(rec)]
      BY <1>4 DEF WriteBatch
    <2> QED BY <2>1, <2>2
  <1> QED BY <1>1, <1>2, <1>3, <1>4

(* What a step of thread t owes: new locals of the right type, and the      *)
(* facts about them.                                                        *)
LEMMA StepTypeInv ==
    ASSUME TypeInv, NEW t \in Workers, Step(t)
    PROVE  TypeInv'
  <1> USE DEF TypeInv
  <1> DEFINE me == th[t]
  <1>t. me \in Locals /\ LocalsAt(t) /\ DOMAIN th = Workers
    BY DEF TypeOK
  <1>1. CASE OpenDatabase(t)
    BY <1>1, <1>t DEF OpenDatabase, TypeOK, Locals, LocalsAt, InRegion, Setup, InWriteLevel, At, files, screen, input
  <1>2. CASE OpenFails(t)
    <2>1. me.tries + 1 \in 0 .. MaxTries
      BY <1>2, <1>t, ConversionConstants DEF OpenFails, Locals
    <2> QED BY <1>2, <1>t, <2>1
        DEF OpenFails, TypeOK, Locals, LocalsAt, InRegion, Setup, InWriteLevel, At, files, screen, input
  <1>3. CASE OpenGivesUp(t) \/ ReadFails(t)
    <2>1. NoProcess /\ UNCHANGED <<input, files>>
      BY <1>3 DEF OpenGivesUp, ReadFails
    <2> QED BY <2>1, NoProcessTypeInv
  <1>4. CASE PutPlayer(t)
    BY <1>4, <1>t DEF PutPlayer, Go, TypeOK, Locals, LocalsAt, InRegion, Setup, At, files, screen, input
  <1>5. CASE ClosePlayer(t)
    BY <1>5, <1>t DEF ClosePlayer, Go, TypeOK, Locals, LocalsAt, InRegion, Setup, At, files, screen, input
  <1>6. CASE TruncateLevelDat(t)
    BY <1>6, <1>t DEF TruncateLevelDat, Go, TypeOK, Locals, LocalsAt, InRegion, Setup, At, files, screen, input
  <1>7. CASE WriteLevelDat(t)
    BY <1>7, <1>t DEF WriteLevelDat, Go, TypeOK, Locals, LocalsAt, InRegion, Setup, At, files, screen, input
  <1>8. CASE ListRegions(t)
    BY <1>8, <1>t DEF ListRegions, TypeOK, Locals, LocalsAt, InRegion, Setup, At, files, screen, input
  <1>9. CASE \E r \in Regions : NextRegion(t, r)
    <2> PICK r \in Regions : NextRegion(t, r)
      BY <1>9
    <2> DEFINE rec == [me EXCEPT !.left = @ \ {r}, !.region = r, !.x = 0, !.z = 0, !.needsWrite = FALSE,
                       !.batch = EmptyBatch, !.pc = IF SkipRegion(r) THEN "region" ELSE "cell"]
    <2>0. rec \in Locals
      BY <1>t, OffTyped DEF Locals
    <2>1. th' \in [Workers -> Locals]
      BY <1>t, <2>0 DEF NextRegion, TypeOK
    <2>2. \A u \in Workers : LocalsAt(u)'
      BY <1>t, <2>1 DEF NextRegion, TypeOK, LocalsAt, At, InRegion, Setup
    <2>3. posted' \in Seq(Outputs \cup {None})
      BY DEF NextRegion, Post, TypeOK
    <2> QED BY <2>1, <2>2, <2>3 DEF NextRegion, TypeOK, files, input
  <1>10. CASE SkipCell(t) \/ BatchPut(t) \/ NextColumn(t) \/ WriteBatch(t)
    <2>1. me.pc \in InRegion /\ tempKey' = tempKey
      BY <1>10 DEF SkipCell, BatchPut, NextColumn, WriteBatch, At, InRegion
    <2>2. th' \in [Workers -> Locals] /\ \A u \in Workers : LocalsAt(u)'
      <3>1. PICK rec \in Locals :
               /\ rec.out = me.out /\ rec.region = me.region
               /\ th' = [th EXCEPT ![t] = AfterCell(rec)] \/ th' = [th EXCEPT ![t] = AfterColumn(rec)]
        BY <1>10, LoopRecord
      <3>2. PICK new \in {AfterCell(rec), AfterColumn(rec)} : th' = [th EXCEPT ![t] = new]
        BY <3>1
      <3>3. /\ new \in Locals /\ new.pc \in {"cell", "write", "column", "region"}
            /\ new.out = me.out /\ new.region = me.region
        BY <3>1, AfterCellTyped, AfterColumnTyped
      <3> QED BY <2>1, <3>2, <3>3, LoopStep
    <2>3. \A b, c \in Batches : Written(b, c) \in Batches
      BY DEF Written, Batches
    <2>4. db' \in [Outputs -> Batches]
      <3>1. CASE WriteBatch(t)
        BY <1>t, <2>3, <3>1 DEF WriteBatch, TypeOK, Locals
      <3>2. CASE SkipCell(t) \/ BatchPut(t) \/ NextColumn(t)
        BY <3>2 DEF SkipCell, BatchPut, NextColumn, TypeOK, files
      <3> QED BY <1>10, <3>1, <3>2
    <2> QED BY <1>10, <2>2, <2>4
        DEF SkipCell, BatchPut, NextColumn, WriteBatch, TypeOK, files, screen, input
  <1>11. CASE ZeroChunk(t)
    <2>1. th' \in [Workers -> Locals]
      BY <1>11, <1>t, ConversionConstants DEF ZeroChunk, TypeOK, Locals, Columns, Rows
    <2>2. \A u \in Workers : LocalsAt(u)'
      BY <1>11, <1>t DEF ZeroChunk, TypeOK, LocalsAt, At, InRegion, Setup, Locals
    <2> QED BY <1>11, <2>1, <2>2, OffTyped DEF ZeroChunk, TypeOK, files, screen, input
  <1>12. CASE \E s \in Heights : FillSection(t, s)
    <2> PICK s \in Heights : FillSection(t, s)
      BY <1>12
    <2>1. KeyOf(Here(t)) \in Keys
      BY <1>t, CellFacts DEF FillSection, Here, At, LocalsAt, InRegion, Locals
    <2>2. peChunk' \in Records
      BY <2>1 DEF FillSection, Records, TypeOK
    <2>3. th' \in [Workers -> Locals] /\ \A u \in Workers : LocalsAt(u)'
      BY <1>t DEF FillSection, TypeOK, Locals, LocalsAt, At, InRegion, Setup
    <2> QED BY <2>2, <2>3 DEF FillSection, TypeOK, files, screen, input
  <1>13. CASE SetX(t)
    <2>1. KeyOf(Here(t))[1] \in Xs /\ KeyOf(Here(t))[1] \in Int
      BY <1>13, <1>t, CellFacts DEF SetX, Here, At, LocalsAt, InRegion, Locals
    <2>2. tempKey' \in Int \X Int /\ tempKey'[1] = KeyOf(Here(t))[1] /\ tempKey'[2] = tempKey[2]
      BY <1>13, <2>1 DEF SetX, TypeOK
    <2>3. th' \in [Workers -> Locals]
      BY <1>13, <1>t DEF SetX, Go, TypeOK, Locals
    <2>4. \A u \in Workers : LocalsAt(u)'
      BY <1>13, <1>t, <2>1, <2>2, <2>3 DEF SetX, Go, At, TypeOK, LocalsAt, InRegion, Setup
    <2> QED BY <1>13, <2>2, <2>3, <2>4 DEF SetX, TypeOK, files, screen, input
  <1>14. CASE SetZ(t)
    <2>1. KeyOf(Here(t))[2] \in Rows /\ KeyOf(Here(t))[2] \in Int
      BY <1>14, <1>t, CellFacts DEF SetZ, Here, At, LocalsAt, InRegion, Locals
    <2>2. tempKey' \in Int \X Int /\ tempKey'[2] = KeyOf(Here(t))[2] /\ tempKey'[1] = tempKey[1]
      BY <1>14, <2>1 DEF SetZ, TypeOK
    <2>3. th' \in [Workers -> Locals]
      BY <1>14, <1>t DEF SetZ, Go, TypeOK, Locals
    <2>4. \A u \in Workers : LocalsAt(u)'
      BY <1>14, <1>t, <2>1, <2>2, <2>3 DEF SetZ, Go, At, TypeOK, LocalsAt, InRegion, Setup
    <2> QED BY <1>14, <2>2, <2>3, <2>4 DEF SetZ, TypeOK, files, screen, input
  <1>15. CASE ToBytes(t)
    BY <1>15, <1>t, MixedKey DEF ToBytes, TypeOK, Locals, LocalsAt, InRegion, Setup, At, files, screen, input
  <1>16. CASE CloseDb(t)
    BY <1>16, <1>t DEF CloseDb, Go, TypeOK, Locals, LocalsAt, InRegion, Setup, At, files, screen, input
  <1>17. CASE Complete(t)
    BY <1>17, <1>t, OffTyped DEF Complete, Post, TypeOK, Off, LocalsAt, InRegion, Setup, At, files, screen, input
  <1> QED BY <1>1, <1>2, <1>3, <1>4, <1>5, <1>6, <1>7, <1>8, <1>9, <1>10, <1>11, <1>12, <1>13, <1>14,
            <1>15, <1>16, <1>17 DEF Step

(* No step breaks the types. *)
LEMMA NextTypeInv == TypeInv /\ [Next]_vars => TypeInv'
  <1> SUFFICES ASSUME TypeInv, [Next]_vars PROVE TypeInv'
    OBVIOUS
  <1> USE DEF TypeInv
  <1>1. CASE ChooseWorld \/ Recreate \/ RunPosted
    <2>1. UNCHANGED <<input, files, lock, peChunk, tempKey, monitor, th>>
      BY <1>1 DEF ChooseWorld, Recreate, RunPosted
    <2>2. posted' \in Seq(Outputs \cup {None}) /\ listener' \in SUBSET Workers
      <3> DEFINE S == Outputs \cup {None}
      <3>1. \A q \in Seq(S) : q # <<>> => Tail(q) \in Seq(S)
        OBVIOUS
      <3>2. posted \in Seq(S) /\ listener \in SUBSET Workers /\ <<>> \in Seq(S)
        BY DEF TypeOK
      <3> HIDE DEF S
      <3>3. posted' \in Seq(S) /\ listener' \in SUBSET Workers
        BY <1>1, <3>1, <3>2 DEF ChooseWorld, Recreate, RunPosted
      <3> QED BY <3>3 DEF S
    <2>3. running' \in BOOLEAN /\ chosen' \in BOOLEAN
      BY <1>1 DEF ChooseWorld, Recreate, RunPosted, TypeOK
    <2> QED BY <2>1, <2>2, <2>3 DEF TypeOK, LocalsAt, files, input
  <1>2. CASE \E t \in Workers, o \in Outputs : StartConvertion(t, o)
    <2> PICK t \in Workers, o \in Outputs : StartConvertion(t, o)
      BY <1>2
    <2> DEFINE rec == [Off EXCEPT !.pc = "open", !.out = o]
    <2>1. rec \in Locals /\ rec.pc = "open" /\ rec.out = o /\ rec.opens = 0
      BY OffTyped DEF Locals, Off
    <2>2. th' = [th EXCEPT ![t] = rec]
      BY DEF StartConvertion
    <2> HIDE DEF rec
    <2>3. th' \in [Workers -> Locals] /\ th'[t] = rec /\ \A u \in Workers : u # t => th'[u] = th[u]
      BY <2>1, <2>2 DEF TypeOK
    <2>4. LocalsAt(t)'
      BY <2>1, <2>3 DEF LocalsAt, InRegion, Setup
    <2>5. ASSUME NEW u \in Workers, u # t PROVE LocalsAt(u)'
      BY <2>3, <2>5 DEF StartConvertion, LocalsAt
    <2> QED BY <2>3, <2>4, <2>5 DEF StartConvertion, TypeOK, files, input
  <1>3. CASE \E t \in Workers : Step(t)
    BY <1>3, StepTypeInv
  <1>4. CASE ProcessDies
    BY <1>4, NoProcessTypeInv DEF ProcessDies
  <1>5. CASE \E o \in Outputs : GameOpens(o) \/ GameCloses(o)
    BY <1>5 DEF GameOpens, GameCloses, TypeOK, LocalsAt, files, screen, input
  <1>6. CASE UNCHANGED vars
    BY <1>6 DEF vars, TypeOK, LocalsAt, files, screen, input
  <1> QED BY <1>1, <1>2, <1>3, <1>4, <1>5, <1>6 DEF Next

(* The types always hold. *)
LEMMA AlwaysTypeInv == Spec => []TypeInv
  BY InitTypeInv, NextTypeInv, PTL DEF Spec

(* Whatever the number of threads, outputs and chunks, the locals of        *)
(* convert, the static fields and the stored records keep their types; a    *)
(* key built from the coordinates of two threads is still one of the world. *)
THEOREM ConversionTyped == Spec => []TypeOK
  <1>1. TypeInv => TypeOK
    BY DEF TypeInv
  <1> QED BY <1>1, AlwaysTypeInv, PTL

-----------------------------------------------------------------------------
(* Where a conversion has no database open. *)
Away == {"off", "open", "truncate", "levelDat", "complete"}

HoldInv ==
    /\ WritersHoldTheDatabase
    /\ \A t \in Workers : th[t].pc = "off" => th[t].out = None

(* Nobody holds a database at the start. *)
LEMMA InitHoldInv == Init => HoldInv
  BY ConversionConstants DEF Init, HoldInv, WritersHoldTheDatabase, Off

(* Nobody holds one when the process is gone. *)
LEMMA NoProcessHoldInv == NoProcess => HoldInv'
  BY ConversionConstants DEF NoProcess, HoldInv, WritersHoldTheDatabase, Off

(* A step of t that neither opens nor closes. *)
LEMMA HoldFrame ==
    ASSUME TypeInv, HoldInv, NEW t \in Workers, lock' = lock,
           NEW rec, th' = [th EXCEPT ![t] = rec], rec.out = th[t].out,
           rec.pc # "off" /\ th[t].pc # "off",
           rec.pc \in Away <=> th[t].pc \in Away
    PROVE  HoldInv'
  BY DEF TypeInv, TypeOK, HoldInv, WritersHoldTheDatabase, Away

(* The lock of a database is released by the thread that has it. *)
LEMMA HoldRelease ==
    ASSUME TypeInv, HoldInv, NEW t \in Workers, th[t].pc \notin Away,
           NEW p \in Away \ {"off"}, th' = [th EXCEPT ![t].pc = p],
           lock' = [lock EXCEPT ![th[t].out] = None]
    PROVE  HoldInv'
  <1>1. th[t] \in Locals /\ th[t].out \in Outputs /\ lock[th[t].out] = t
    BY DEF TypeInv, TypeOK, LocalsAt, HoldInv, WritersHoldTheDatabase, Away
  <1>2. lock \in [Outputs -> Workers \cup {Game, None}] /\ th \in [Workers -> Locals]
    BY DEF TypeInv, TypeOK
  <1>3. th'[t].pc = p /\ th'[t].out = th[t].out /\ \A u \in Workers : u # t => th'[u] = th[u]
    BY <1>1, <1>2 DEF Locals
  <1>4. ASSUME NEW u \in Workers, th'[u].pc \notin Away PROVE lock'[th'[u].out] = u
    <2>1. u # t /\ th[u].pc \notin Away /\ th'[u].out = th[u].out
      BY <1>3, <1>4
    <2>2. lock[th[u].out] = u /\ th[u].out \in Outputs
      BY <2>1 DEF HoldInv, WritersHoldTheDatabase, Away, TypeInv, LocalsAt
    <2> QED BY <1>1, <1>2, <2>1, <2>2
  <1>5. ASSUME NEW o \in Outputs, lock'[o] \in Workers
        PROVE  th'[lock'[o]].out = o /\ th'[lock'[o]].pc \notin Away \ {"off"}
    <2>1. o # th[t].out /\ lock'[o] = lock[o]
      BY <1>2, <1>5, ConversionConstants
    <2>2. th[lock[o]].out = o /\ th[lock[o]].pc \notin Away \ {"off"}
      BY <1>5, <2>1 DEF HoldInv, WritersHoldTheDatabase, Away
    <2> QED BY <1>3, <1>5, <2>1, <2>2
  <1>6. \A u \in Workers : th'[u].pc = "off" => th'[u].out = None
    BY <1>3 DEF HoldInv
  <1> QED BY <1>4, <1>5, <1>6 DEF HoldInv, WritersHoldTheDatabase, Away

(* A step of a conversion keeps opens and closes paired. *)
LEMMA StepHoldInv ==
    ASSUME TypeInv, HoldInv, NEW t \in Workers, Step(t)
    PROVE  HoldInv'
  <1> DEFINE me == th[t]
  <1>t. me \in Locals /\ LocalsAt(t) /\ th \in [Workers -> Locals] /\ lock \in [Outputs -> Workers \cup {Game, None}]
    BY DEF TypeInv, TypeOK
  <1>1. CASE OpenDatabase(t)
    <2>1. me.out \in Outputs /\ lock[me.out] = None
      BY <1>1, <1>t DEF OpenDatabase, At, LocalsAt
    <2>2. lock' = [lock EXCEPT ![me.out] = t]
      BY <1>1 DEF OpenDatabase
    <2>3. th'[t].out = me.out /\ th'[t].pc \notin Away /\ \A u \in Workers : u # t => th'[u] = th[u]
      BY <1>1, <1>t DEF OpenDatabase, Locals, Away
    <2>4. ASSUME NEW u \in Workers, th'[u].pc \notin Away PROVE lock'[th'[u].out] = u
      <3>1. CASE u = t
        BY <1>t, <2>1, <2>2, <2>3, <3>1
      <3>2. CASE u # t
        <4>1. lock[th[u].out] = u /\ th[u].out \in Outputs /\ th'[u] = th[u]
          BY <2>3, <2>4, <3>2 DEF HoldInv, WritersHoldTheDatabase, Away, TypeInv, LocalsAt
        <4>2. th[u].out # me.out
          BY <2>1, <4>1, ConversionConstants
        <4> QED BY <1>t, <2>2, <4>1, <4>2
      <3> QED BY <3>1, <3>2
    <2>5. ASSUME NEW o \in Outputs, lock'[o] \in Workers
          PROVE  th'[lock'[o]].out = o /\ th'[lock'[o]].pc \notin Away \ {"off"}
      <3>1. CASE o = me.out
        BY <1>t, <2>2, <2>3, <3>1
      <3>2. CASE o # me.out
        <4>1. lock'[o] = lock[o]
          BY <1>t, <2>2, <3>2
        <4>2. th[lock[o]].out = o /\ th[lock[o]].pc \notin Away \ {"off"}
          BY <2>5, <4>1 DEF HoldInv, WritersHoldTheDatabase, Away
        <4>3. lock[o] # t
          BY <3>2, <4>2
        <4> QED BY <2>3, <2>5, <4>1, <4>2, <4>3
      <3> QED BY <3>1, <3>2
    <2>6. \A u \in Workers : th'[u].pc = "off" => th'[u].out = None
      BY <2>3 DEF HoldInv, Away
    <2> QED BY <2>4, <2>5, <2>6 DEF HoldInv, WritersHoldTheDatabase, Away
  <1>2. CASE OpenGivesUp(t) \/ ReadFails(t)
    BY <1>2, NoProcessHoldInv DEF OpenGivesUp, ReadFails
  <1>3. CASE ClosePlayer(t)
    <2>1. PICK p \in {"truncate", "open"} : th' = [th EXCEPT ![t].pc = p]
      BY <1>3 DEF ClosePlayer, Go
    <2>2. me.pc \notin Away /\ lock' = [lock EXCEPT ![me.out] = None]
      BY <1>3 DEF ClosePlayer, At, Away
    <2> QED BY <2>1, <2>2, HoldRelease DEF Away
  <1>4. CASE CloseDb(t)
    <2>1. me.pc \notin Away /\ lock' = [lock EXCEPT ![me.out] = None] /\ th' = [th EXCEPT ![t].pc = "complete"]
      BY <1>4 DEF CloseDb, Go, At, Away
    <2> QED BY <2>1, HoldRelease DEF Away
  <1>5. CASE Complete(t)
    <2>1. lock' = lock /\ me.pc = "complete" /\ th' = [th EXCEPT ![t] = Off] /\ Off.pc = "off" /\ Off.out = None
      BY <1>5 DEF Complete, At, Off
    <2> HIDE DEF Off
    <2> QED BY <1>t, <2>1 DEF HoldInv, WritersHoldTheDatabase
  <1>6. CASE OpenFails(t) \/ PutPlayer(t) \/ TruncateLevelDat(t) \/ WriteLevelDat(t) \/ ListRegions(t)
    <2>1. lock' = lock /\ th'[t].out = me.out /\ th' = [th EXCEPT ![t] = th'[t]]
      BY <1>6, <1>t DEF OpenFails, PutPlayer, TruncateLevelDat, WriteLevelDat, ListRegions, Go, Locals
    <2>2. me.pc # "off" /\ th'[t].pc # "off" /\ (th'[t].pc \in Away <=> me.pc \in Away)
      BY <1>6, <1>t DEF OpenFails, PutPlayer, TruncateLevelDat, WriteLevelDat, ListRegions, Go, At, Locals, Away
    <2> QED BY <2>1, <2>2, HoldFrame
  <1>7. CASE \E r \in Regions : NextRegion(t, r)
    <2> PICK r \in Regions : NextRegion(t, r)
      BY <1>7
    <2>1. lock' = lock /\ th'[t].out = me.out /\ th' = [th EXCEPT ![t] = th'[t]]
      BY <1>t DEF NextRegion, Locals
    <2>2. me.pc \notin Away /\ th'[t].pc \notin Away
      BY <1>t DEF NextRegion, At, Locals, Away
    <2> QED BY <2>1, <2>2, HoldFrame DEF Away
  <1>8. CASE \E s \in Heights : FillSection(t, s)
    <2> PICK s \in Heights : FillSection(t, s)
      BY <1>8
    <2>1. lock' = lock /\ th'[t].out = me.out /\ th' = [th EXCEPT ![t] = th'[t]]
      BY <1>t DEF FillSection, Locals
    <2>2. me.pc \notin Away /\ th'[t].pc \notin Away
      BY <1>t DEF FillSection, At, Locals, Away
    <2> QED BY <2>1, <2>2, HoldFrame DEF Away
  <1>9. CASE ZeroChunk(t) \/ SetX(t) \/ SetZ(t) \/ ToBytes(t)
    <2>1. lock' = lock /\ th'[t].out = me.out /\ th' = [th EXCEPT ![t] = th'[t]]
      BY <1>9, <1>t DEF ZeroChunk, SetX, SetZ, ToBytes, Go, Locals
    <2>2. me.pc \notin Away /\ th'[t].pc \notin Away
      BY <1>9, <1>t DEF ZeroChunk, SetX, SetZ, ToBytes, Go, At, Locals, Away
    <2> QED BY <2>1, <2>2, HoldFrame DEF Away
  <1>10. CASE SkipCell(t) \/ BatchPut(t) \/ NextColumn(t) \/ WriteBatch(t)
    <2>1. PICK rec \in Locals : /\ rec.out = me.out
                                /\ th' = [th EXCEPT ![t] = AfterCell(rec)] \/ th' = [th EXCEPT ![t] = AfterColumn(rec)]
      BY <1>10, LoopRecord
    <2>2. lock' = lock /\ me.pc \notin Away
      BY <1>10 DEF SkipCell, BatchPut, NextColumn, WriteBatch, At, Away
    <2> QED BY <2>1, <2>2, AfterCellTyped, AfterColumnTyped, HoldFrame DEF Away
  <1> QED BY <1>1, <1>2, <1>3, <1>4, <1>5, <1>6, <1>7, <1>8, <1>9, <1>10 DEF Step

(* So does every step. *)
LEMMA NextHoldInv == TypeInv /\ HoldInv /\ [Next]_vars => HoldInv'
  <1> SUFFICES ASSUME TypeInv, HoldInv, [Next]_vars PROVE HoldInv'
    OBVIOUS
  <1>1. CASE ChooseWorld \/ Recreate \/ RunPosted \/ UNCHANGED vars
    BY <1>1 DEF ChooseWorld, Recreate, RunPosted, vars, HoldInv, WritersHoldTheDatabase
  <1>2. CASE \E t \in Workers, o \in Outputs : StartConvertion(t, o)
    <2> PICK t \in Workers, o \in Outputs : StartConvertion(t, o)
      BY <1>2
    <2> DEFINE rec == [Off EXCEPT !.pc = "open", !.out = o]
    <2>1. rec.pc = "open" /\ lock' = lock /\ th' = [th EXCEPT ![t] = rec] /\ th[t].pc = "off" /\ th[t].out = None
      BY DEF StartConvertion, HoldInv, Off
    <2> HIDE DEF rec
    <2>2. \A p \in Outputs : lock[p] # t
      BY <2>1, ConversionConstants DEF HoldInv, WritersHoldTheDatabase
    <2> QED BY <2>1, <2>2 DEF HoldInv, WritersHoldTheDatabase, TypeInv, TypeOK
  <1>3. CASE \E t \in Workers : Step(t)
    BY <1>3, StepHoldInv
  <1>4. CASE ProcessDies
    BY <1>4, NoProcessHoldInv DEF ProcessDies
  <1>5. CASE \E o \in Outputs : GameOpens(o) \/ GameCloses(o)
    <2> PICK o \in Outputs : GameOpens(o) \/ GameCloses(o)
      BY <1>5
    <2>1. th' = th /\ lock[o] \in {Game, None} /\ lock'[o] \in {Game, None}
      BY DEF GameOpens, GameCloses, TypeInv, TypeOK
    <2>2. \A p \in Outputs : p # o => lock'[p] = lock[p]
      BY DEF GameOpens, GameCloses, TypeInv, TypeOK
    <2>3. \A u \in Workers : u # Game /\ u # None
      BY ConversionConstants
    <2> QED BY <2>1, <2>2, <2>3 DEF HoldInv, WritersHoldTheDatabase, TypeInv, LocalsAt
  <1> QED BY <1>1, <1>2, <1>3, <1>4, <1>5 DEF Next

(* Opens and closes are always paired. *)
LEMMA AlwaysHoldInv == Spec => []HoldInv
  BY InitHoldInv, NextHoldInv, AlwaysTypeInv, PTL DEF Spec

(* Whoever puts or writes has the database open, and no database stays open *)
(* with nobody to close it: the opens and closes of writeLevel and convert  *)
(* pair up for any number of conversions, whatever the game does.           *)
THEOREM WritersHold == Spec => []WritersHoldTheDatabase
  <1>1. HoldInv => WritersHoldTheDatabase
    BY DEF HoldInv
  <1> QED BY <1>1, AlwaysHoldInv, PTL

-----------------------------------------------------------------------------
(* The records of a batch or a database are images of chunks. *)
Faithful(records) ==
    \A c \in Cells : records[KeyOf(c)] # NoRecord => Wanted(c) /\ records[KeyOf(c)] = Image(c)

Converting == {"fill", "setZ", "toBytes", "put"}

(* The buffer and the key while thread t converts a chunk. *)
Filled(t) == [s \in Heights |-> IF s \in Chunk(t).sections /\ s \notin th[t].fill THEN KeyOf(Here(t)) ELSE Zero]
BufferAt(t) ==
    /\ th[t].pc \in Converting => Wanted(Here(t))
    /\ th[t].pc = "fill" => peChunk = Filled(t) /\ th[t].fill \subseteq Chunk(t).sections
    /\ th[t].pc \in {"setZ", "toBytes", "put"} => peChunk = Image(Here(t))
    /\ th[t].pc \in {"setZ", "toBytes"} => tempKey[1] = KeyOf(Here(t))[1]
    /\ th[t].pc = "toBytes" => tempKey[2] = KeyOf(Here(t))[2]
    /\ th[t].pc = "put" => th[t].key = KeyOf(Here(t))

FaithInv ==
    /\ \A o \in Outputs : Faithful(db[o])
    /\ \A t \in Workers : Faithful(th[t].batch) /\ BufferAt(t)

OneOutput == \A o, p \in Outputs : o = p

(* Distinct cells have distinct keys. *)
LEMMA KeyInjective ==
    ASSUME NEW c \in Cells, NEW d \in Cells, KeyOf(c) = KeyOf(d)
    PROVE  c = d
  <1>1. \A a, b \in Int, n \in Nat : a < b => a * n + n <= b * n
    <2> SUFFICES ASSUME NEW a \in Int, NEW b \in Int, NEW n \in Nat, a < b PROVE a * n + n <= b * n
      OBVIOUS
    <2>1. (b - a - 1) * n >= 0
      OBVIOUS
    <2> QED BY <2>1
  <1>2. PICK r \in Regions, x \in Columns, z \in Rows : c = <<r, x, z>>
    BY DEF Cells
  <1>3. PICK s \in Regions, y \in Columns, w \in Rows : d = <<s, y, w>>
    BY DEF Cells
  <1>4. r * NCols + x = s * NCols + y /\ z = w
    BY <1>2, <1>3 DEF KeyOf
  <1>5. r \in Int /\ s \in Int /\ NCols \in Nat /\ x \in 0 .. NCols - 1 /\ y \in 0 .. NCols - 1
    BY ConversionConstants DEF Columns
  <1>6. r * NCols \in Int /\ s * NCols \in Int
    BY <1>5
  <1>7. ~ (r < s) /\ ~ (s < r)
    BY <1>1, <1>4, <1>5, <1>6
  <1> QED BY <1>2, <1>3, <1>4, <1>5, <1>6, <1>7

(* One output is one directory at a time. *)
LEMMA OneOutputIsOneDirectory ==
    ASSUME OneOutput, TypeInv
    PROVE  OneDirectoryAtATime
  <1>1. \A t \in Workers : th[t].pc \notin Away => th[t].out \in Outputs
    BY DEF TypeInv, LocalsAt, Away
  <1> QED BY <1>1 DEF OneOutput, OneDirectoryAtATime, Away

(* The lock of a directory leaves one thread at a time in convertRegion. *)
LEMMA OneConverts ==
    ASSUME OneDirectoryAtATime, TypeInv, HoldInv,
           NEW t \in Workers, NEW u \in Workers, th[t].pc \notin Away, th[u].pc \notin Away
    PROVE  t = u
  <1>1. th[t].out = th[u].out
    BY DEF OneDirectoryAtATime, Away
  <1>2. lock[th[t].out] = t /\ lock[th[u].out] = u
    BY DEF HoldInv, WritersHoldTheDatabase, Away
  <1> QED BY <1>1, <1>2

(* An empty batch is faithful. *)
LEMMA EmptyFaithful == Faithful(EmptyBatch)
  <1>1. \A c \in Cells : EmptyBatch[KeyOf(c)] = NoRecord
    BY DEF EmptyBatch, Keys
  <1> QED BY <1>1 DEF Faithful

(* Nothing unfaithful is stored at the start. *)
LEMMA InitFaithInv == Init => FaithInv
  <1> SUFFICES ASSUME Init PROVE FaithInv
    OBVIOUS
  <1>1. \A o \in Outputs : db[o] = EmptyBatch
    BY DEF Init
  <1>2. \A t \in Workers : th[t].pc = "off" /\ th[t].batch = EmptyBatch
    BY DEF Init, Off
  <1> QED BY <1>1, <1>2, EmptyFaithful DEF FaithInv, BufferAt, Converting

(* The input world does not change, and with it what is wanted. *)
LEMMA SameInput ==
    ASSUME UNCHANGED input, NEW c
    PROVE  Wanted(c)' = Wanted(c) /\ Image(c)' = Image(c)
  BY DEF input, Wanted, Image, InWindow, LimitCount

(* A step of t that leaves the buffer, the key and the databases alone, and *)
(* after which t is not converting a chunk.                                 *)
LEMMA FaithFrame ==
    ASSUME TypeInv, FaithInv, UNCHANGED <<input, db, peChunk, tempKey>>, NEW t \in Workers,
           NEW rec, th' = [th EXCEPT ![t] = rec], rec.pc \notin Converting, Faithful(rec.batch)
    PROVE  FaithInv'
  <1>1. th'[t] = rec /\ \A u \in Workers : u # t => th'[u] = th[u]
    BY DEF TypeInv, TypeOK
  <1>2. \A o \in Outputs : Faithful(db[o])'
    BY SameInput DEF FaithInv, Faithful, input
  <1>3. Faithful(th[t].batch)' /\ BufferAt(t)'
    BY <1>1, SameInput DEF Faithful, BufferAt, Converting, input
  <1>4. ASSUME NEW u \in Workers, u # t PROVE Faithful(th[u].batch)' /\ BufferAt(u)'
    <2>1. Faithful(th[u].batch)'
      BY <1>1, <1>4, SameInput DEF FaithInv, Faithful, input
    <2>2. BufferAt(u)'
      BY <1>1, <1>4, SameInput DEF FaithInv, BufferAt, Filled, Here, Chunk, input
    <2> QED BY <2>1, <2>2
  <1> QED BY <1>2, <1>3, <1>4 DEF FaithInv

(* A step of the one thread in convertRegion may change the buffer. *)
LEMMA BufferFrame ==
    ASSUME OneDirectoryAtATime, TypeInv, HoldInv, FaithInv, UNCHANGED <<input, db>>,
           NEW t \in Workers, th[t].pc \notin Away,
           NEW rec, th' = [th EXCEPT ![t] = rec], rec.batch = th[t].batch, BufferAt(t)'
    PROVE  FaithInv'
  <1>1. th'[t] = rec /\ \A u \in Workers : u # t => th'[u] = th[u]
    BY DEF TypeInv, TypeOK
  <1>2. \A o \in Outputs : Faithful(db[o])'
    BY SameInput DEF FaithInv, Faithful, input
  <1>3. \A u \in Workers : Faithful(th[u].batch)'
    BY <1>1, SameInput DEF FaithInv, Faithful, input
  <1>4. ASSUME NEW u \in Workers, u # t PROVE BufferAt(u)'
    <2>1. th'[u] = th[u] /\ th[u].pc \in Away
      BY <1>1, <1>4, OneConverts
    <2> QED BY <2>1 DEF BufferAt, Converting, Away
  <1> QED BY <1>2, <1>3, <1>4 DEF FaithInv

(* Nor is there when the process is gone. *)
LEMMA NoProcessFaithInv ==
    ASSUME FaithInv, NoProcess, UNCHANGED <<input, files>>
    PROVE  FaithInv'
  <1>1. \A o \in Outputs : Faithful(db[o])'
    BY SameInput DEF FaithInv, Faithful, input, files
  <1>2. \A t \in Workers : th'[t].pc = "off" /\ th'[t].batch = EmptyBatch
    BY DEF NoProcess, Off
  <1>3. \A t \in Workers : Faithful(th[t].batch)' /\ BufferAt(t)'
    BY <1>2 DEF Faithful, EmptyBatch, Keys, BufferAt, Converting
  <1> QED BY <1>1, <1>3 DEF FaithInv

(* A step of a conversion that overlaps with none elsewhere stores nothing *)
(* unfaithful.                                                             *)
LEMMA StepFaithInv ==
    ASSUME OneDirectoryAtATime, TypeInv, HoldInv, FaithInv, NEW t \in Workers, Step(t)
    PROVE  FaithInv'
  <1> DEFINE me == th[t]
  <1>t. me \in Locals /\ LocalsAt(t) /\ th \in [Workers -> Locals] /\ Faithful(me.batch) /\ BufferAt(t)
    BY DEF TypeInv, TypeOK, FaithInv
  <1>1. CASE \/ OpenDatabase(t) \/ OpenFails(t) \/ PutPlayer(t) \/ ClosePlayer(t)
             \/ TruncateLevelDat(t) \/ WriteLevelDat(t) \/ ListRegions(t) \/ CloseDb(t)
    <2>1. UNCHANGED <<input, db, peChunk, tempKey>>
      BY <1>1 DEF OpenDatabase, OpenFails, PutPlayer, ClosePlayer, TruncateLevelDat, WriteLevelDat, ListRegions,
                  CloseDb, files
    <2>2. th' = [th EXCEPT ![t] = th'[t]] /\ th'[t].batch = me.batch
      BY <1>1, <1>t DEF OpenDatabase, OpenFails, PutPlayer, ClosePlayer, TruncateLevelDat, WriteLevelDat, ListRegions,
                        CloseDb, Go, Locals
    <2>3. th'[t].pc \notin Converting
      BY <1>1, <1>t DEF OpenDatabase, OpenFails, PutPlayer, ClosePlayer, TruncateLevelDat, WriteLevelDat, ListRegions,
                        CloseDb, Go, At, Locals, Converting
    <2> QED BY <1>t, <2>1, <2>2, <2>3, FaithFrame
  <1>2. CASE OpenGivesUp(t) \/ ReadFails(t)
    BY <1>2, NoProcessFaithInv DEF OpenGivesUp, ReadFails
  <1>3. CASE \E r \in Regions : NextRegion(t, r)
    <2> PICK r \in Regions : NextRegion(t, r)
      BY <1>3
    <2>1. UNCHANGED <<input, db, peChunk, tempKey>>
      BY DEF NextRegion, files
    <2>2. th' = [th EXCEPT ![t] = th'[t]] /\ th'[t].batch = EmptyBatch /\ th'[t].pc \notin Converting
      BY <1>t DEF NextRegion, Locals, Converting
    <2> QED BY <2>1, <2>2, EmptyFaithful, FaithFrame
  <1>4. CASE Complete(t)
    <2>1. UNCHANGED <<input, db, peChunk, tempKey>> /\ th' = [th EXCEPT ![t] = Off]
      BY <1>4 DEF Complete, files
    <2>2. Off.batch = EmptyBatch /\ Off.pc \notin Converting
      BY DEF Off, Converting
    <2> QED BY <2>1, <2>2, EmptyFaithful, FaithFrame
  <1>5. CASE ZeroChunk(t)
    <2>1. UNCHANGED <<input, db>> /\ me.pc \notin Away
      BY <1>5 DEF ZeroChunk, At, Away, files
    <2>2. th' = [th EXCEPT ![t] = th'[t]] /\ th'[t].batch = me.batch
      BY <1>5, <1>t DEF ZeroChunk, Locals
    <2>3. th'[t].pc = "fill" /\ th'[t].fill = Chunk(t).sections \cap Heights /\ Here(t)' = Here(t)
      BY <1>5, <1>t DEF ZeroChunk, Locals, Here
    <2>4. Wanted(Here(t)) /\ peChunk' = [s \in Heights |-> Zero] /\ world' = world
      BY <1>5 DEF ZeroChunk, input
    <2>5. Filled(t)' = [s \in Heights |-> Zero]
      BY <2>3, <2>4 DEF Filled, Chunk
    <2>6. Wanted(Here(t))'
      BY <2>1, <2>3, <2>4 DEF Wanted, InWindow, LimitCount, input
    <2>7. BufferAt(t)'
      BY <2>3, <2>4, <2>5, <2>6 DEF BufferAt, Chunk
    <2> QED BY <2>1, <2>2, <2>7, BufferFrame
  <1>6. CASE \E s \in Heights : FillSection(t, s)
    <2> PICK s \in Heights : FillSection(t, s)
      BY <1>6
    <2>1. UNCHANGED <<input, db>> /\ me.pc \notin Away /\ me.pc = "fill"
      BY DEF FillSection, At, Away, files
    <2>2. th' = [th EXCEPT ![t] = th'[t]] /\ th'[t].batch = me.batch
      BY <1>t DEF FillSection, Locals
    <2>3. th'[t].pc = "fill" /\ th'[t].fill = me.fill \ {s} /\ Here(t)' = Here(t)
      BY <1>t, <2>1 DEF FillSection, Locals, Here
    <2>4. Wanted(Here(t))'
      BY <1>t, <2>1, <2>3 DEF BufferAt, Converting, Wanted, InWindow, LimitCount, input
    <2>5. /\ peChunk = Filled(t) /\ peChunk' = [peChunk EXCEPT ![s] = KeyOf(Here(t))] /\ s \in me.fill
          /\ me.fill \subseteq Chunk(t).sections
      BY <1>t, <2>1 DEF FillSection, BufferAt
    <2>6. peChunk' = Filled(t)' /\ th'[t].fill \subseteq Chunk(t)'.sections
      BY <2>1, <2>3, <2>5 DEF Filled, Chunk, input
    <2>7. BufferAt(t)'
      BY <2>3, <2>4, <2>6 DEF BufferAt
    <2> QED BY <2>1, <2>2, <2>7, BufferFrame
  <1>7. CASE SetX(t) \/ SetZ(t) \/ ToBytes(t)
    <2>1. UNCHANGED <<input, db, peChunk>> /\ me.pc \notin Away /\ me.pc \in Converting
      BY <1>7 DEF SetX, SetZ, ToBytes, At, Away, Converting, files
    <2>2. th' = [th EXCEPT ![t] = th'[t]] /\ th'[t].batch = me.batch /\ Here(t)' = Here(t)
      BY <1>7, <1>t DEF SetX, SetZ, ToBytes, Go, Here, Locals
    <2>3. Wanted(Here(t))' /\ Image(Here(t))' = Image(Here(t))
      BY <1>t, <2>1, <2>2 DEF BufferAt, Wanted, InWindow, LimitCount, Image, input
    <2>4. peChunk = Image(Here(t))
      BY <1>7, <1>t DEF SetX, SetZ, ToBytes, At, BufferAt, Filled, Image, Chunk
    <2>5. tempKey \in Int \X Int /\ KeyOf(Here(t)) = <<KeyOf(Here(t))[1], KeyOf(Here(t))[2]>>
      BY DEF TypeInv, TypeOK, KeyOf
    <2>6. CASE SetX(t)
      <3>1. th'[t].pc = "setZ" /\ tempKey'[1] = KeyOf(Here(t))[1]
        BY <1>t, <2>5, <2>6 DEF SetX, Go, Locals
      <3>2. BufferAt(t)'
        BY <2>1, <2>2, <2>3, <2>4, <3>1 DEF BufferAt
      <3> QED BY <2>1, <2>2, <3>2, BufferFrame
    <2>7. CASE SetZ(t)
      <3>1. th'[t].pc = "toBytes" /\ tempKey'[1] = KeyOf(Here(t))[1] /\ tempKey'[2] = KeyOf(Here(t))[2]
        BY <1>t, <2>5, <2>7 DEF SetZ, At, Go, Locals, BufferAt
      <3>2. BufferAt(t)'
        BY <2>1, <2>2, <2>3, <2>4, <3>1 DEF BufferAt
      <3> QED BY <2>1, <2>2, <3>2, BufferFrame
    <2>8. CASE ToBytes(t)
      <3>1. th'[t].pc = "put" /\ th'[t].key = KeyOf(Here(t))
        BY <1>t, <2>5, <2>8 DEF ToBytes, At, Locals, BufferAt
      <3>2. BufferAt(t)'
        BY <2>1, <2>2, <2>3, <2>4, <3>1 DEF BufferAt
      <3> QED BY <2>1, <2>2, <3>2, BufferFrame
    <2> QED BY <1>7, <2>6, <2>7, <2>8
  <1>8. CASE SkipCell(t) \/ BatchPut(t) \/ NextColumn(t)
    <2>1. PICK rec \in Locals :
             /\ th' = [th EXCEPT ![t] = AfterCell(rec)] \/ th' = [th EXCEPT ![t] = AfterColumn(rec)]
             /\ \/ rec.batch \in {me.batch, EmptyBatch}
                \/ BatchPut(t) /\ rec.batch = [me.batch EXCEPT ![me.key] = peChunk]
      BY <1>8, LoopRecord
    <2>2. UNCHANGED <<input, db, peChunk, tempKey>>
      BY <1>8 DEF SkipCell, BatchPut, NextColumn, files
    <2>3. Faithful(rec.batch)
      <3>1. CASE rec.batch \in {me.batch, EmptyBatch}
        BY <1>t, <3>1, EmptyFaithful
      <3>2. CASE BatchPut(t) /\ rec.batch = [me.batch EXCEPT ![me.key] = peChunk]
        <4>1. Here(t) \in Cells /\ Wanted(Here(t)) /\ me.key = KeyOf(Here(t)) /\ peChunk = Image(Here(t))
          BY <1>t, <3>2, CellFacts DEF BatchPut, At, BufferAt, Converting, LocalsAt, InRegion, Here, Locals
        <4>2. \A c \in Cells : c # Here(t) => rec.batch[KeyOf(c)] = me.batch[KeyOf(c)]
          BY <1>t, <3>2, <4>1, KeyInjective DEF Locals, Batches
        <4>3. rec.batch[KeyOf(Here(t))] = Image(Here(t))
          BY <1>t, <3>2, <4>1 DEF Locals, Batches, Keys
        <4> QED BY <1>t, <4>1, <4>2, <4>3 DEF Faithful
      <3> QED BY <2>1, <3>1, <3>2
    <2>4. PICK new \in {AfterCell(rec), AfterColumn(rec)} : th' = [th EXCEPT ![t] = new]
      BY <2>1
    <2>5. new.batch = rec.batch /\ new.pc \notin Converting
      BY AfterCellTyped, AfterColumnTyped DEF Converting
    <2> QED BY <2>2, <2>3, <2>4, <2>5, FaithFrame
  <1>9. CASE WriteBatch(t)
    <2> DEFINE old == [me EXCEPT !.batch = EmptyBatch]
    <2> DEFINE rec == AfterColumn(old)
    <2>0. old \in Locals /\ old.batch = EmptyBatch /\ th' = [th EXCEPT ![t] = rec]
      BY <1>9, <1>t, OffTyped DEF WriteBatch, Locals
    <2> HIDE DEF old
    <2>1. rec.batch = EmptyBatch /\ rec.pc \notin Converting /\ th' = [th EXCEPT ![t] = rec]
      BY <2>0, AfterColumnTyped DEF Converting
    <2> HIDE DEF rec
    <2>2. UNCHANGED <<input, peChunk, tempKey>> /\ me.out \in Outputs /\ me.pc \notin Away
      BY <1>9, <1>t DEF WriteBatch, At, Away, LocalsAt
    <2>3. \A u \in Workers : u # t => th'[u] = th[u] /\ th[u].pc \in Away
      BY <2>1, <2>2, OneConverts
    <2>4. \A o \in Outputs : db'[o] = Written(me.batch, db[o]) \/ db'[o] = db[o]
      BY <1>9, <2>2 DEF WriteBatch, TypeInv, TypeOK
    <2>5. ASSUME NEW o \in Outputs PROVE Faithful(db[o])'
      <3>1. \A c \in Cells : db'[o][KeyOf(c)] \in {me.batch[KeyOf(c)], db[o][KeyOf(c)]}
        <4> SUFFICES ASSUME NEW c \in Cells PROVE db'[o][KeyOf(c)] \in {me.batch[KeyOf(c)], db[o][KeyOf(c)]}
          OBVIOUS
        <4>1. KeyOf(c) \in Keys
          BY DEF Keys
        <4> HIDE DEF me
        <4> QED BY <2>4, <4>1 DEF Written
      <3> QED BY <1>t, <2>2, <3>1, SameInput DEF FaithInv, Faithful, input
    <2>6. Faithful(th[t].batch)' /\ BufferAt(t)'
      BY <1>t, <2>1 DEF Faithful, EmptyBatch, Keys, BufferAt, Converting
    <2>7. ASSUME NEW u \in Workers, u # t PROVE Faithful(th[u].batch)' /\ BufferAt(u)'
      <3>1. th'[u] = th[u] /\ th[u].pc \in Away
        BY <2>3, <2>7
      <3> QED BY <2>2, <3>1, SameInput DEF FaithInv, Faithful, BufferAt, Converting, Away, input
    <2> QED BY <2>5, <2>6, <2>7 DEF FaithInv
  <1> QED BY <1>1, <1>2, <1>3, <1>4, <1>5, <1>6, <1>7, <1>8, <1>9 DEF Step

(* Nor does any step. *)
LEMMA NextFaithInv ==
    ASSUME OneDirectoryAtATime
    PROVE  TypeInv /\ HoldInv /\ FaithInv /\ [Next]_vars => FaithInv'
  <1> SUFFICES ASSUME TypeInv, HoldInv, FaithInv, [Next]_vars PROVE FaithInv'
    OBVIOUS
  <1>1. CASE ChooseWorld \/ Recreate \/ RunPosted \/ UNCHANGED vars \/ \E o \in Outputs : GameOpens(o) \/ GameCloses(o)
    <2>1. UNCHANGED <<input, db, peChunk, tempKey, th>>
      BY <1>1 DEF ChooseWorld, Recreate, RunPosted, GameOpens, GameCloses, vars, files
    <2>2. \A o \in Outputs : Faithful(db[o])'
      BY <2>1, SameInput DEF FaithInv, Faithful, input
    <2>3. \A t \in Workers : Faithful(th[t].batch)'
      BY <2>1, SameInput DEF FaithInv, Faithful, input
    <2>4. \A t \in Workers : BufferAt(t)'
      BY <2>1, SameInput DEF FaithInv, BufferAt, Filled, Here, Chunk, input
    <2> QED BY <2>2, <2>3, <2>4 DEF FaithInv
  <1>2. CASE \E t \in Workers, o \in Outputs : StartConvertion(t, o)
    <2> PICK t \in Workers, o \in Outputs : StartConvertion(t, o)
      BY <1>2
    <2> DEFINE rec == [Off EXCEPT !.pc = "open", !.out = o]
    <2>1. rec.pc \notin Converting /\ rec.batch = EmptyBatch
      BY DEF Off, Converting
    <2>2. th' = [th EXCEPT ![t] = rec] /\ UNCHANGED <<input, db, peChunk, tempKey>>
      BY DEF StartConvertion, files
    <2> HIDE DEF rec
    <2> QED BY <2>1, <2>2, EmptyFaithful, FaithFrame
  <1>3. CASE \E t \in Workers : Step(t)
    BY <1>3, StepFaithInv
  <1>4. CASE ProcessDies
    BY <1>4, NoProcessFaithInv DEF ProcessDies
  <1> QED BY <1>1, <1>2, <1>3, <1>4 DEF Next

(* As long as conversions into two directories do not overlap, the lock of  *)
(* the directory in use keeps them out of each other's static buffer and    *)
(* key: every record of every output is the image of its own chunk, for any *)
(* number of threads and directories, worlds of any size, and wherever the  *)
(* process dies.  That they do not overlap is a condition on the user, not  *)
(* something the code ensures (MainActivity.startConvertion); without it    *)
(* the statement fails, as the run of MCConversionTwo.cfg shows.            *)
THEOREM ConvertedFaithfully == Spec /\ []OneDirectoryAtATime => []OutputFaithful
  <1>1. Init => FaithInv
    BY InitFaithInv
  <1>2. OneDirectoryAtATime /\ TypeInv /\ HoldInv /\ FaithInv /\ [Next]_vars => FaithInv'
    BY NextFaithInv
  <1>3. FaithInv => OutputFaithful
    BY DEF FaithInv, Faithful, OutputFaithful
  <1> QED BY <1>1, <1>2, <1>3, AlwaysTypeInv, AlwaysHoldInv, PTL DEF Spec
-----------------------------------------------------------------------------
(* How far a conversion has come.  Seen: the rows of its column that are    *)
(* behind it; Done: the cells whose column it has written, or had no reason *)
(* to write; rec are its locals.                                            *)
Seen(rec, c) == c[1] = rec.region /\ c[2] = rec.x /\ (c[3] < rec.z \/ rec.pc \in {"column", "write"})
Done(rec, c) ==
    \/ rec.pc = "complete"
    \/ rec.pc = "region" /\ c[1] \notin rec.left
    \/ rec.pc \in InRegion /\ c[1] \notin rec.left /\ (c[1] # rec.region \/ c[2] < rec.x)

(* The batch holds what was wanted of the rows seen, the database what was  *)
(* wanted of the cells done.                                                *)
LoopAt(rec, records) ==
    /\ \A c \in Cells : Done(rec, c) /\ Wanted(c) => records[KeyOf(c)] = Image(c)
    /\ rec.pc \in InRegion =>
          /\ \A c \in Cells : rec.batch[KeyOf(c)] # NoRecord <=> Seen(rec, c) /\ Wanted(c)
          /\ ~ rec.needsWrite => \A c \in Cells : Seen(rec, c) => ~ Wanted(c)
    /\ rec.pc \in Converting => rec.needsWrite
    /\ rec.pc = "column" => ~ rec.needsWrite

(* A conversion that has written level.dat. *)
LevelWritten(rec) == rec.pc # "off" /\ (rec.opens >= 2 \/ (rec.opens = 1 /\ rec.pc = "open"))
LevelsSet == {o \in Outputs : levelDat[o] = "ok" \/ \E t \in Workers : th[t].out = o /\ th[t].pc = "levelDat"}
SetupAt(rec, players, levels) ==
    /\ rec.pc \in {"truncate", "levelDat"} => rec.opens = 1
    /\ rec.pc \in {"player", "playerClose"} => rec.opens >= 1
    /\ rec.pc \notin Setup \cup {"off"} => rec.opens >= 2
    /\ rec.pc \in {"playerClose", "truncate", "levelDat"} \/ LevelWritten(rec) => rec.out \in players
    /\ LevelWritten(rec) => rec.out \in levels

(* Every completion that is still to be shown is true. *)
Finished == {o \in Outputs : Converted(o)}
PostedIsTrue == \A i \in 1 .. Len(posted) : posted[i] # None => posted[i] \in Finished

CompleteInv ==
    /\ \A t \in Workers : th[t].pc # "off" => LoopAt(th[t], db[th[t].out])
    /\ \A t \in Workers : SetupAt(th[t], player, LevelsSet)
    /\ PostedIsTrue
    /\ ColumnsAtomic

(* Outside the loops there is nothing to have done. *)
LEMMA LoopOutside ==
    ASSUME NEW rec, NEW records, rec.pc \in Setup \cup {"list"}
    PROVE  LoopAt(rec, records)
  BY DEF LoopAt, Done, InRegion, Converting, Setup

(* What was stored stays stored. *)
LEMMA LoopAtKept ==
    ASSUME NEW rec, NEW old, NEW new, LoopAt(rec, old),
           \A c \in Cells : old[KeyOf(c)] = Image(c) => new[KeyOf(c)] = Image(c)
    PROVE  LoopAt(rec, new)
  BY DEF LoopAt

(* Of a column that is not done, a cell is seen when its row is behind. *)
LEMMA CellShape ==
    ASSUME NEW c \in Cells
    PROVE  c = <<c[1], c[2], c[3]>> /\ c[1] \in Regions /\ c[2] \in Columns /\ c[3] \in Rows
  BY DEF Cells

(* The end of a cell. *)
LEMMA AfterCellLoop ==
    ASSUME NEW me \in Locals, me.pc \in InRegion \ {"column", "write"}, NEW records, LoopAt(me, records),
           NEW rec \in Locals, rec.pc = me.pc,
           rec.region = me.region /\ rec.x = me.x /\ rec.z = me.z /\ rec.left = me.left,
           me.region \in Regions,
           \A c \in Cells : rec.batch[KeyOf(c)] # NoRecord <=>
              (Seen(me, c) \/ c = <<me.region, me.x, me.z>>) /\ Wanted(c),
           ~ rec.needsWrite =>
              \A c \in Cells : (Seen(me, c) \/ c = <<me.region, me.x, me.z>>) => ~ Wanted(c)
    PROVE  LoopAt(AfterCell(rec), records)
  <1> DEFINE new == AfterCell(rec)
  <1>1. /\ new \in Locals /\ new.region = me.region /\ new.x = me.x /\ new.left = me.left /\ new.batch = rec.batch
        /\ new.needsWrite = rec.needsWrite
        /\ \/ me.z + 1 < NRows /\ new.z = me.z + 1 /\ new.pc = "cell"
           \/ /\ ~ (me.z + 1 < NRows) /\ new.z = me.z
              /\ new.pc = IF rec.needsWrite THEN "write" ELSE "column"
    <2>1. new \in Locals /\ new.batch = rec.batch
      BY AfterCellTyped
    <2>2. CASE rec.z + 1 < NRows
      BY <2>1, <2>2 DEF AfterCell, Locals
    <2>3. CASE ~ (rec.z + 1 < NRows)
      BY <2>1, <2>3 DEF AfterCell, Locals
    <2> QED BY <2>2, <2>3
  <1> HIDE DEF new
  <1>2. me.z \in 0 .. NRows - 1 /\ NRows \in Nat \ {0}
    BY ConversionConstants DEF Locals, Rows
  <1>3. \A c \in Cells : Seen(new, c) <=> Seen(me, c) \/ c = <<me.region, me.x, me.z>>
    <2> SUFFICES ASSUME NEW c \in Cells PROVE Seen(new, c) <=> Seen(me, c) \/ c = <<me.region, me.x, me.z>>
      OBVIOUS
    <2>1. c = <<c[1], c[2], c[3]>> /\ c[3] \in 0 .. NRows - 1
      BY CellShape DEF Rows
    <2>2. c = <<me.region, me.x, me.z>> <=> c[1] = me.region /\ c[2] = me.x /\ c[3] = me.z
      BY <2>1
    <2>3. Seen(me, c) <=> c[1] = me.region /\ c[2] = me.x /\ c[3] < me.z
      BY DEF Seen
    <2>4. CASE new.pc = "cell"
      <3>1. new.z = me.z + 1
        BY <1>1, <2>4
      <3>2. Seen(new, c) <=> c[1] = me.region /\ c[2] = me.x /\ c[3] < me.z + 1
        BY <1>1, <2>4, <3>1 DEF Seen
      <3> QED BY <1>2, <2>1, <2>2, <2>3, <3>2
    <2>5. CASE new.pc # "cell"
      <3>1. ~ (me.z + 1 < NRows) /\ new.pc \in {"column", "write"}
        BY <1>1, <2>5
      <3>2. Seen(new, c) <=> c[1] = me.region /\ c[2] = me.x
        BY <1>1, <3>1 DEF Seen
      <3>3. c[3] < me.z \/ c[3] = me.z
        BY <1>2, <2>1, <3>1
      <3> QED BY <2>2, <2>3, <3>2, <3>3
    <2> QED BY <2>4, <2>5
  <1>4. new.pc \in InRegion /\ new.pc \notin Converting /\ me.pc \in InRegion
    BY <1>1 DEF InRegion, Converting
  <1>5. \A c \in Cells : Done(new, c) => Done(me, c)
    BY <1>1, <1>4 DEF Done, InRegion
  <1>6. new.pc = "column" => ~ new.needsWrite
    BY <1>1
  <1> QED BY <1>1, <1>3, <1>4, <1>5, <1>6 DEF LoopAt, new

(* The end of a column. *)
LEMMA AfterColumnLoop ==
    ASSUME NEW rec \in Locals, rec.pc \in {"column", "write"}, rec.region \in Regions, NEW records,
           \A c \in Cells : Wanted(c) /\ (Done(rec, c) \/ Seen(rec, c)) => records[KeyOf(c)] = Image(c),
           \A c \in Cells : rec.batch[KeyOf(c)] = NoRecord
    PROVE  LoopAt(AfterColumn(rec), records)
  <1> DEFINE new == AfterColumn(rec)
  <1>1. /\ new \in Locals /\ new.region = rec.region /\ new.left = rec.left /\ new.batch = rec.batch
        /\ \/ rec.x + 1 < NCols /\ new.x = rec.x + 1 /\ new.z = 0 /\ new.pc = "cell"
           \/ ~ (rec.x + 1 < NCols) /\ new.pc = "region"
    <2>1. new \in Locals /\ new.batch = rec.batch /\ new.region = rec.region
      BY AfterColumnTyped
    <2>2. CASE rec.x + 1 < NCols
      BY <2>1, <2>2 DEF AfterColumn, Locals
    <2>3. CASE ~ (rec.x + 1 < NCols)
      BY <2>1, <2>3 DEF AfterColumn, Locals
    <2> QED BY <2>2, <2>3
  <1> HIDE DEF new
  <1>2. rec.x \in 0 .. NCols - 1 /\ NCols \in Nat \ {0}
    BY ConversionConstants DEF Locals, Columns
  <1>3. \A c \in Cells : ~ Seen(new, c) \/ new.pc = "region"
    <2> SUFFICES ASSUME NEW c \in Cells, new.pc # "region" PROVE ~ Seen(new, c)
      OBVIOUS
    <2>1. new.z = 0 /\ new.pc = "cell" /\ c[3] \in Nat
      BY <1>1, CellShape, ConversionConstants DEF Rows
    <2> QED BY <2>1 DEF Seen
  <1>4. ASSUME NEW c \in Cells, Done(new, c) PROVE Done(rec, c) \/ Seen(rec, c)
    <2>1. c[1] \in Regions /\ c[2] \in 0 .. NCols - 1
      BY CellShape DEF Columns
    <2>2. c[1] \notin rec.left
      BY <1>1, <1>4 DEF Done, InRegion
    <2>3. CASE c[1] # rec.region \/ c[2] < rec.x
      BY <2>2, <2>3 DEF Done, InRegion
    <2>4. CASE c[1] = rec.region /\ ~ (c[2] < rec.x)
      <3>1. CASE new.pc = "cell"
        <4>1. c[2] < rec.x + 1
          BY <1>1, <1>4, <2>4, <3>1 DEF Done, InRegion
        <4>2. c[2] = rec.x
          BY <1>2, <2>1, <2>4, <4>1
        <4> QED BY <2>4, <4>2 DEF Seen
      <3>2. CASE new.pc # "cell"
        <4>1. c[2] = rec.x
          BY <1>1, <1>2, <2>1, <2>4, <3>2
        <4> QED BY <2>4, <4>1 DEF Seen
      <3> QED BY <3>1, <3>2
    <2> QED BY <2>3, <2>4
  <1>5. new.pc \in {"cell", "region"}
    BY <1>1
  <1>6. new.pc \in InRegion => new.pc # "region"
    BY DEF InRegion
  <1> QED BY <1>1, <1>3, <1>4, <1>5, <1>6 DEF LoopAt, Converting, new

(* A region that is skipped has no chunk in the window. *)
LEMMA SkippedIsUnwanted ==
    ASSUME TypeInv, NEW r \in Regions, SkipRegion(r), NEW c \in Cells, c[1] = r
    PROVE  ~ Wanted(c)
  <1>1. limit = TRUE /\ LimitCount = 2
    BY DEF SkipRegion, LimitCount, TypeInv, TypeOK
  <1>2. /\ r \in Int /\ NCols \in Nat /\ NRows \in Nat /\ r * NCols \in Int
        /\ c[2] \in 0 .. NCols - 1 /\ c[3] \in 0 .. NRows - 1
        /\ PlayerChunk[1] \in Int /\ PlayerChunk[2] \in Int
    BY CellShape, ConversionConstants DEF Columns, Rows
  <1>3. KeyOf(c)[1] = r * NCols + c[2] /\ KeyOf(c)[2] = c[3]
    BY DEF KeyOf
  <1>4. CASE OutOfWindow(PlayerChunk[1], r * NCols, NCols)
    <2>1. ~ (r * NCols + c[2] >= PlayerChunk[1] /\ r * NCols + c[2] < PlayerChunk[1] + 2)
      BY <1>1, <1>2, <1>4 DEF OutOfWindow
    <2> QED BY <1>1, <1>3, <2>1 DEF Wanted, InWindow
  <1>5. CASE OutOfWindow(PlayerChunk[2], 0, NRows)
    <2>1. ~ (c[3] >= PlayerChunk[2] /\ c[3] < PlayerChunk[2] + 2)
      BY <1>1, <1>2, <1>5 DEF OutOfWindow
    <2> QED BY <1>1, <1>3, <2>1 DEF Wanted, InWindow
  <1> QED BY <1>4, <1>5 DEF SkipRegion

(* The image of a chunk is a record. *)
LEMMA ImageIsRecord ==
    ASSUME NEW c \in Cells
    PROVE  Image(c) # NoRecord
  <1>1. KeyOf(c) \in Keys
    BY DEF Keys
  <1>2. Image(c) \in [Heights -> Keys \cup {Zero}]
    BY <1>1 DEF Image
  <1> QED BY <1>2, NoRecordIsNone

(* The databases change with a written batch only. *)
LEMMA StepKeepsDb ==
    ASSUME NEW t \in Workers, Step(t), ~ WriteBatch(t)
    PROVE  db' = db
  <1>1. CASE \/ OpenDatabase(t) \/ OpenFails(t) \/ OpenGivesUp(t) \/ PutPlayer(t) \/ ClosePlayer(t)
             \/ TruncateLevelDat(t) \/ WriteLevelDat(t)
    BY <1>1 DEF OpenDatabase, OpenFails, OpenGivesUp, PutPlayer, ClosePlayer, TruncateLevelDat, WriteLevelDat, files
  <1>2. CASE \/ ListRegions(t) \/ (\E r \in Regions : NextRegion(t, r)) \/ SkipCell(t) \/ ReadFails(t) \/ ZeroChunk(t)
             \/ (\E s \in Heights : FillSection(t, s))
    BY <1>2 DEF ListRegions, NextRegion, SkipCell, ReadFails, ZeroChunk, FillSection, files
  <1>3. CASE SetX(t) \/ SetZ(t) \/ ToBytes(t) \/ BatchPut(t) \/ NextColumn(t) \/ CloseDb(t) \/ Complete(t)
    BY <1>3 DEF SetX, SetZ, ToBytes, BatchPut, NextColumn, CloseDb, Complete, files
  <1> QED BY <1>1, <1>2, <1>3 DEF Step

(* No step takes a true image out of a database. *)
LEMMA StoredStays ==
    ASSUME OneOutput, TypeInv, FaithInv, NEW t \in Workers, Step(t), NEW o \in Outputs,
           NEW c \in Cells, db[o][KeyOf(c)] = Image(c)
    PROVE  db'[o][KeyOf(c)] = Image(c)
  <1>1. CASE WriteBatch(t)
    <2> DEFINE batch == th[t].batch
    <2>1. db' = [db EXCEPT ![th[t].out] = Written(batch, @)] /\ th[t].out \in Outputs /\ DOMAIN db = Outputs
      BY <1>1 DEF WriteBatch, At, TypeInv, TypeOK, LocalsAt
    <2>2. KeyOf(c) \in Keys /\ (batch[KeyOf(c)] # NoRecord => batch[KeyOf(c)] = Image(c))
      BY DEF Keys, FaithInv, Faithful
    <2>3. db'[o] = Written(batch, db[o])
      BY <2>1 DEF OneOutput
    <2>4. db'[o][KeyOf(c)] = IF batch[KeyOf(c)] = NoRecord THEN db[o][KeyOf(c)] ELSE batch[KeyOf(c)]
      <3> HIDE DEF batch
      <3> QED BY <2>2, <2>3 DEF Written
    <2> QED BY <2>2, <2>4
  <1>2. CASE ~ WriteBatch(t)
    <2>1. db' = db
      BY <1>2, StepKeepsDb
    <2> QED BY <2>1
  <1> QED BY <1>1, <1>2

(* The loops of the thread that takes a step. *)
LEMMA StepLoop ==
    ASSUME OneOutput, TypeInv, HoldInv, FaithInv, NEW t \in Workers, Step(t),
           th[t].pc # "off" => LoopAt(th[t], db[th[t].out]), th'[t].pc # "off"
    PROVE  LoopAt(th'[t], db'[th'[t].out])
  <1> DEFINE me == th[t]
             o == me.out
  <1>t. me \in Locals /\ LocalsAt(t) /\ th \in [Workers -> Locals] /\ BufferAt(t) /\ Faithful(me.batch)
    BY DEF TypeInv, TypeOK, FaithInv
  <1>o. me.pc # "off" => o \in Outputs
    BY <1>t DEF LocalsAt
  <1>k. ASSUME me.pc # "off", NEW rec, LoopAt(rec, db[o]) PROVE LoopAt(rec, db'[o])
    BY <1>k, <1>o, StoredStays, LoopAtKept
  <1>1. CASE \/ OpenDatabase(t) \/ OpenFails(t) \/ PutPlayer(t) \/ ClosePlayer(t)
             \/ TruncateLevelDat(t) \/ WriteLevelDat(t)
    <2>1. th'[t].pc \in Setup \cup {"list"}
      BY <1>1, <1>t DEF OpenDatabase, OpenFails, PutPlayer, ClosePlayer, TruncateLevelDat, WriteLevelDat, Go, At, Locals, Setup
    <2> QED BY <2>1, LoopOutside
  <1>2. CASE OpenGivesUp(t) \/ ReadFails(t) \/ Complete(t)
    <2>1. th'[t] = Off
      BY <1>2, <1>t DEF OpenGivesUp, ReadFails, Complete, NoProcess
    <2> QED BY <2>1 DEF Off
  <1>3. CASE ListRegions(t)
    <2>1. th'[t].pc = "region" /\ th'[t].left = Regions
      BY <1>3, <1>t DEF ListRegions, Locals
    <2> QED BY <2>1, CellShape DEF LoopAt, Done, InRegion, Converting
  <1>4. CASE \E r \in Regions : NextRegion(t, r)
    <2> PICK r \in Regions : NextRegion(t, r)
      BY <1>4
    <2> DEFINE new == th'[t]
    <2>1. /\ me.pc = "region" /\ new.left = me.left \ {r} /\ new.region = r /\ new.x = 0 /\ new.z = 0
          /\ new.batch = EmptyBatch /\ new.out = o
          /\ new.pc = IF SkipRegion(r) THEN "region" ELSE "cell"
      BY <1>t DEF NextRegion, At, Locals
    <2>2. LoopAt(me, db[o])
      BY <2>1
    <2> HIDE DEF new
    <2>3. ASSUME NEW c \in Cells, Done(new, c), Wanted(c) PROVE db[o][KeyOf(c)] = Image(c)
      <3>1. c[1] \in Regions /\ c[2] \in Columns /\ ~ (c[2] < 0)
        BY CellShape, ConversionConstants DEF Columns
      <3>2. c[1] \notin me.left
        <4>1. CASE SkipRegion(r)
          <5>1. c[1] # r
            BY <2>3, <4>1, SkippedIsUnwanted
          <5> QED BY <2>1, <2>3, <4>1, <5>1 DEF Done, InRegion
        <4>2. CASE ~ SkipRegion(r)
          BY <2>1, <2>3, <3>1, <4>2 DEF Done, InRegion
        <4> QED BY <4>1, <4>2
      <3> QED BY <2>1, <2>2, <2>3, <3>2 DEF LoopAt, Done
    <2>4. \A c \in Cells : new.batch[KeyOf(c)] = NoRecord
      BY <2>1 DEF EmptyBatch, Keys
    <2>5. ASSUME NEW c \in Cells PROVE ~ Seen(new, c)
      <3>1. ~ (c[3] < 0)
        BY CellShape, ConversionConstants DEF Rows
      <3> QED BY <2>1, <3>1 DEF Seen
    <2>6. LoopAt(new, db[o])
      BY <2>1, <2>3, <2>4, <2>5 DEF LoopAt, Converting
    <2> QED BY <1>k, <2>1, <2>6 DEF new
  <1>5. CASE ZeroChunk(t)
    <2> DEFINE new == th'[t]
    <2>1. /\ me.pc = "cell" /\ new.pc = "fill" /\ new.needsWrite = TRUE /\ new.out = o /\ new.batch = me.batch
          /\ new.region = me.region /\ new.x = me.x /\ new.z = me.z /\ new.left = me.left
      BY <1>5, <1>t DEF ZeroChunk, At, Locals
    <2> HIDE DEF new
    <2>2. LoopAt(me, db[o]) /\ \A c \in Cells : (Seen(new, c) <=> Seen(me, c)) /\ (Done(new, c) <=> Done(me, c))
      BY <2>1 DEF Seen, Done, InRegion
    <2>3. LoopAt(new, db[o])
      BY <2>1, <2>2 DEF LoopAt, InRegion
    <2> QED BY <1>k, <2>1, <2>3 DEF new
  <1>6. CASE (\E s \in Heights : FillSection(t, s)) \/ SetX(t) \/ SetZ(t) \/ ToBytes(t)
    <2> DEFINE new == th'[t]
    <2>1. /\ me.pc \in Converting /\ new.pc \in Converting /\ new.needsWrite = me.needsWrite /\ new.out = o
          /\ new.batch = me.batch
          /\ new.region = me.region /\ new.x = me.x /\ new.z = me.z /\ new.left = me.left
      <3>1. CASE \E s \in Heights : FillSection(t, s)
        BY <1>t, <3>1 DEF FillSection, At, Locals, Converting
      <3>2. CASE SetX(t)
        BY <1>t, <3>2 DEF SetX, Go, At, Locals, Converting
      <3>3. CASE SetZ(t)
        BY <1>t, <3>3 DEF SetZ, Go, At, Locals, Converting
      <3>4. CASE ToBytes(t)
        BY <1>t, <3>4 DEF ToBytes, At, Locals, Converting
      <3> QED BY <1>6, <3>1, <3>2, <3>3, <3>4
    <2> HIDE DEF new
    <2>2. LoopAt(me, db[o]) /\ \A c \in Cells : (Seen(new, c) <=> Seen(me, c)) /\ (Done(new, c) <=> Done(me, c))
      BY <2>1 DEF Seen, Done, InRegion, Converting
    <2>3. LoopAt(new, db[o])
      BY <2>1, <2>2 DEF LoopAt, InRegion, Converting
    <2>4. me.pc # "off"
      BY <2>1 DEF Converting
    <2> QED BY <1>k, <2>1, <2>3, <2>4 DEF new
  <1>7. CASE SkipCell(t)
    <2> DEFINE flag == me.needsWrite \/ Chunk(t).kind # "absent"
               rec == [me EXCEPT !.needsWrite = flag]
    <2>1. /\ th'[t] = AfterCell(rec) /\ me.pc = "cell" /\ ~ Wanted(<<me.region, me.x, me.z>>)
      BY <1>7, <1>t DEF SkipCell, At, Here
    <2>2. flag \in BOOLEAN /\ (~ flag => ~ me.needsWrite)
      BY <1>t DEF Locals
    <2> HIDE DEF flag
    <2>3. /\ rec \in Locals /\ rec.pc = me.pc /\ rec.region = me.region /\ rec.x = me.x /\ rec.z = me.z
          /\ rec.left = me.left /\ rec.batch = me.batch /\ rec.needsWrite = flag /\ rec.out = o
      BY <1>t, <2>2 DEF Locals
    <2> HIDE DEF rec
    <2>4. LoopAt(me, db[o]) /\ me.region \in Regions
      BY <1>t, <2>1 DEF LocalsAt, InRegion
    <2>5. \A c \in Cells : rec.batch[KeyOf(c)] # NoRecord <=>
              (Seen(me, c) \/ c = <<me.region, me.x, me.z>>) /\ Wanted(c)
      BY <2>1, <2>3, <2>4 DEF LoopAt, InRegion
    <2>6. ~ rec.needsWrite => \A c \in Cells : (Seen(me, c) \/ c = <<me.region, me.x, me.z>>) => ~ Wanted(c)
      BY <2>1, <2>2, <2>3, <2>4 DEF LoopAt, InRegion
    <2>7. LoopAt(AfterCell(rec), db[o])
      BY <1>t, <2>1, <2>3, <2>4, <2>5, <2>6, AfterCellLoop DEF InRegion
    <2>8. AfterCell(rec).out = o
      BY <2>3, AfterCellTyped
    <2> QED BY <1>k, <2>1, <2>7, <2>8
  <1>8. CASE BatchPut(t)
    <2> DEFINE rec == [me EXCEPT !.batch[me.key] = peChunk]
    <2>1. th'[t] = AfterCell(rec) /\ me.pc = "put"
      BY <1>8, <1>t DEF BatchPut, At
    <2>2. /\ rec \in Locals /\ rec.pc = me.pc /\ rec.region = me.region /\ rec.x = me.x /\ rec.z = me.z
          /\ rec.left = me.left /\ rec.batch = [me.batch EXCEPT ![me.key] = peChunk] /\ rec.out = o
          /\ rec.needsWrite = me.needsWrite
      BY <1>t DEF Locals, Batches, TypeInv, TypeOK
    <2> HIDE DEF rec
    <2>3. LoopAt(me, db[o]) /\ me.region \in Regions
      BY <1>t, <2>1 DEF LocalsAt, InRegion
    <2>4. /\ Here(t) \in Cells /\ Wanted(Here(t)) /\ me.key = KeyOf(Here(t)) /\ peChunk = Image(Here(t))
          /\ Here(t) = <<me.region, me.x, me.z>>
      BY <1>t, <2>1, <2>3, CellFacts DEF BufferAt, Converting, Here, Locals
    <2>5. me.needsWrite = TRUE
      BY <1>t, <2>1, <2>3 DEF LoopAt, Converting, Locals
    <2>6. ASSUME NEW c \in Cells
          PROVE  rec.batch[KeyOf(c)] # NoRecord <=> (Seen(me, c) \/ c = <<me.region, me.x, me.z>>) /\ Wanted(c)
      <3>1. KeyOf(c) \in Keys /\ DOMAIN me.batch = Keys
        BY <1>t DEF Keys, Locals, Batches
      <3>2. CASE c = Here(t)
        BY <2>2, <2>4, <3>1, <3>2, ImageIsRecord
      <3>3. CASE c # Here(t)
        <4>1. KeyOf(c) # me.key
          BY <2>4, <3>3, KeyInjective
        <4>2. rec.batch[KeyOf(c)] = me.batch[KeyOf(c)]
          BY <2>2, <3>1, <4>1
        <4> QED BY <2>1, <2>3, <2>4, <3>3, <4>2 DEF LoopAt, InRegion
      <3> QED BY <3>2, <3>3
    <2>7. LoopAt(AfterCell(rec), db[o])
      BY <1>t, <2>1, <2>2, <2>3, <2>5, <2>6, AfterCellLoop DEF InRegion
    <2>8. AfterCell(rec).out = o
      BY <2>2, AfterCellTyped
    <2> QED BY <1>k, <2>1, <2>7, <2>8
  <1>9. CASE NextColumn(t)
    <2>1. th'[t] = AfterColumn(me) /\ me.pc = "column" /\ LoopAt(me, db[o]) /\ me.region \in Regions
      BY <1>9, <1>t DEF NextColumn, At, LocalsAt, InRegion
    <2>2. ~ me.needsWrite /\ \A c \in Cells : Seen(me, c) => ~ Wanted(c)
      BY <2>1 DEF LoopAt, InRegion
    <2>3. \A c \in Cells : me.batch[KeyOf(c)] = NoRecord
      BY <2>1, <2>2 DEF LoopAt, InRegion
    <2>4. \A c \in Cells : Wanted(c) /\ (Done(me, c) \/ Seen(me, c)) => db[o][KeyOf(c)] = Image(c)
      BY <2>1, <2>2 DEF LoopAt
    <2>5. LoopAt(AfterColumn(me), db[o]) /\ AfterColumn(me).out = o
      BY <1>t, <2>1, <2>3, <2>4, AfterColumnLoop, AfterColumnTyped
    <2> QED BY <1>k, <2>1, <2>5
  <1>10. CASE WriteBatch(t)
    <2> DEFINE rec == [me EXCEPT !.batch = EmptyBatch]
    <2>1. th'[t] = AfterColumn(rec) /\ me.pc = "write" /\ LoopAt(me, db[o]) /\ me.region \in Regions
      BY <1>10, <1>t DEF WriteBatch, At, LocalsAt, InRegion
    <2>2. /\ rec \in Locals /\ rec.pc = me.pc /\ rec.region = me.region /\ rec.x = me.x /\ rec.z = me.z
          /\ rec.left = me.left /\ rec.batch = EmptyBatch /\ rec.out = o
      BY <1>t, OffTyped DEF Locals
    <2> HIDE DEF rec
    <2>3. \A c \in Cells : rec.batch[KeyOf(c)] = NoRecord
      BY <2>2 DEF EmptyBatch, Keys
    <2>4. \A c \in Cells : (Seen(rec, c) <=> Seen(me, c)) /\ (Done(rec, c) <=> Done(me, c))
      BY <2>2 DEF Seen, Done
    <2>5. ASSUME NEW c \in Cells, Wanted(c), Done(me, c) PROVE db'[o][KeyOf(c)] = Image(c)
      BY <1>o, <2>1, <2>5, StoredStays DEF LoopAt
    <2>6. ASSUME NEW c \in Cells, Wanted(c), Seen(me, c) PROVE db'[o][KeyOf(c)] = Image(c)
      <3> DEFINE batch == me.batch
      <3>1. KeyOf(c) \in Keys /\ batch[KeyOf(c)] # NoRecord
        BY <2>1, <2>6 DEF LoopAt, InRegion, Keys
      <3>2. batch[KeyOf(c)] = Image(c)
        BY <1>t, <3>1 DEF Faithful
      <3>3. db'[o] = Written(batch, db[o])
        BY <1>10, <1>o, <2>1 DEF WriteBatch, TypeInv, TypeOK
      <3> HIDE DEF batch
      <3> QED BY <3>1, <3>2, <3>3 DEF Written
    <2>7. LoopAt(AfterColumn(rec), db'[o])
      <3> DEFINE records == db'[o]
      <3>1. \A c \in Cells : Wanted(c) /\ (Done(rec, c) \/ Seen(rec, c)) => records[KeyOf(c)] = Image(c)
        BY <2>4, <2>5, <2>6
      <3> HIDE DEF records
      <3> QED BY <2>1, <2>2, <2>3, <3>1, AfterColumnLoop DEF records
    <2>8. AfterColumn(rec).out = o
      BY <2>2, AfterColumnTyped
    <2> QED BY <2>1, <2>7, <2>8
  <1>11. CASE CloseDb(t)
    <2>1. /\ me.pc = "region" /\ me.left = {} /\ th'[t].pc = "complete" /\ th'[t].out = o
      BY <1>11, <1>t DEF CloseDb, At, Go, Locals
    <2>2. LoopAt(me, db[o]) /\ \A c \in Cells : Done(me, c)
      BY <2>1 DEF Done
    <2>3. LoopAt(th'[t], db[o])
      BY <2>1, <2>2 DEF LoopAt, InRegion, Converting
    <2> QED BY <1>k, <2>1, <2>3
  <1> QED BY <1>1, <1>2, <1>3, <1>4, <1>5, <1>6, <1>7, <1>8, <1>9, <1>10, <1>11 DEF Step

(* What a step leaves to the other threads. *)
LEMMA StepFrame ==
    ASSUME TypeInv, NEW t \in Workers, Step(t), ~ OpenGivesUp(t), ~ ReadFails(t)
    PROVE  /\ UNCHANGED input /\ player \subseteq player'
           /\ \A u \in Workers : u # t => th'[u] = th[u]
           /\ th[t].pc # "off"
           /\ TruncateLevelDat(t) \/ WriteLevelDat(t) \/ (levelDat' = levelDat /\ th[t].pc # "levelDat")
  <1>t. th \in [Workers -> Locals]
    BY DEF TypeInv, TypeOK
  <1>1. CASE OpenDatabase(t) \/ OpenFails(t)
    BY <1>t, <1>1 DEF OpenDatabase, OpenFails, At, files
  <1>2. CASE PutPlayer(t) \/ ClosePlayer(t)
    BY <1>t, <1>2 DEF PutPlayer, ClosePlayer, At, files, Go
  <1>3. CASE TruncateLevelDat(t) \/ WriteLevelDat(t)
    BY <1>t, <1>3 DEF TruncateLevelDat, WriteLevelDat, At, files, Go
  <1>4. CASE ListRegions(t)
    BY <1>t, <1>4 DEF ListRegions, At, files
  <1>5. CASE \E r \in Regions : NextRegion(t, r)
    BY <1>t, <1>5 DEF NextRegion, At, files
  <1>6. CASE SkipCell(t) \/ ZeroChunk(t)
    BY <1>t, <1>6 DEF SkipCell, ZeroChunk, At, files
  <1>7. CASE \E s \in Heights : FillSection(t, s)
    BY <1>t, <1>7 DEF FillSection, At, files
  <1>8. CASE SetX(t) \/ SetZ(t)
    BY <1>t, <1>8 DEF SetX, SetZ, At, files, Go
  <1>9. CASE ToBytes(t) \/ BatchPut(t)
    BY <1>t, <1>9 DEF ToBytes, BatchPut, At, files
  <1>10. CASE NextColumn(t) \/ WriteBatch(t)
    BY <1>t, <1>10 DEF NextColumn, WriteBatch, At, files
  <1>11. CASE CloseDb(t) \/ Complete(t)
    BY <1>t, <1>11 DEF CloseDb, Complete, At, files, Go
  <1> QED BY <1>1, <1>2, <1>3, <1>4, <1>5, <1>6, <1>7, <1>8, <1>9, <1>10, <1>11 DEF Step

(* A level that is set stays set, or is being written again. *)
LEMMA LevelStays ==
    ASSUME OneOutput, TypeInv, NEW t \in Workers, Step(t), ~ OpenGivesUp(t), ~ ReadFails(t)
    PROVE  LevelsSet \subseteq LevelsSet'
  <1> SUFFICES ASSUME NEW o \in LevelsSet PROVE o \in LevelsSet'
    OBVIOUS
  <1>o. o \in Outputs
    BY DEF LevelsSet
  <1>t. /\ th \in [Workers -> Locals] /\ levelDat \in [Outputs -> {"none", "torn", "ok"}]
        /\ th[t].out \in Outputs /\ th[t].out = o
    BY <1>o, StepFrame DEF TypeInv, TypeOK, LocalsAt, OneOutput
  <1>1. CASE TruncateLevelDat(t)
    <2>1. th'[t].pc = "levelDat" /\ th'[t].out = o
      BY <1>t, <1>1 DEF TruncateLevelDat, Go, Locals
    <2> QED BY <1>o, <2>1 DEF LevelsSet
  <1>2. CASE WriteLevelDat(t)
    <2>1. levelDat'[o] = "ok"
      BY <1>t, <1>2 DEF WriteLevelDat
    <2> QED BY <1>o, <2>1 DEF LevelsSet
  <1>3. CASE ~ TruncateLevelDat(t) /\ ~ WriteLevelDat(t)
    <2>1. levelDat' = levelDat /\ th[t].pc # "levelDat"
      BY <1>3, StepFrame
    <2>2. \A u \in Workers : th[u].pc = "levelDat" => th'[u] = th[u]
      BY <2>1, StepFrame
    <2>3. CASE levelDat[o] = "ok"
      BY <1>o, <2>1, <2>3 DEF LevelsSet
    <2>4. CASE levelDat[o] # "ok"
      <3>1. PICK u \in Workers : th[u].out = o /\ th[u].pc = "levelDat"
        BY <2>4 DEF LevelsSet
      <3>2. th'[u].out = o /\ th'[u].pc = "levelDat"
        BY <2>2, <3>1
      <3> QED BY <1>o, <3>2 DEF LevelsSet
    <2> QED BY <2>3, <2>4
  <1> QED BY <1>1, <1>2, <1>3

(* The preparation of the level by the thread that takes a step. *)
LEMMA StepSetup ==
    ASSUME OneOutput, TypeInv, NEW t \in Workers, Step(t), ~ OpenGivesUp(t), ~ ReadFails(t),
           SetupAt(th[t], player, LevelsSet)
    PROVE  SetupAt(th'[t], player', LevelsSet')
  <1> DEFINE me == th[t]
             new == th'[t]
  <1>t. me \in Locals /\ th \in [Workers -> Locals] /\ me.opens \in 0 .. 3
    BY DEF TypeInv, TypeOK, Locals
  <1>g. player \subseteq player' /\ LevelsSet \subseteq LevelsSet' /\ me.out \in Outputs
    BY StepFrame, LevelStays DEF TypeInv, LocalsAt
  <1>1. CASE OpenDatabase(t)
    <2>1. /\ me.pc = "open" /\ new.out = me.out /\ new.opens = me.opens + 1
          /\ new.pc = IF me.opens < 2 THEN "player" ELSE "list"
      BY <1>t, <1>1 DEF OpenDatabase, InWriteLevel, At, Locals
    <2> HIDE DEF me, new
    <2> QED BY <1>t, <1>g, <2>1 DEF SetupAt, LevelWritten, Setup, me, new
  <1>2. CASE OpenFails(t)
    <2>1. new.pc = me.pc /\ new.out = me.out /\ new.opens = me.opens
      BY <1>t, <1>2 DEF OpenFails, Locals
    <2> QED BY <1>t, <1>g, <2>1 DEF SetupAt, LevelWritten
  <1>3. CASE PutPlayer(t)
    <2>1. me.pc = "player" /\ new.pc = "playerClose" /\ new.out = me.out /\ new.opens = me.opens /\ new.out \in player'
      BY <1>t, <1>3 DEF PutPlayer, Go, At, Locals
    <2> QED BY <1>t, <1>g, <2>1 DEF SetupAt, LevelWritten, Setup
  <1>4. CASE ClosePlayer(t)
    <2>1. /\ me.pc = "playerClose" /\ new.out = me.out /\ new.opens = me.opens
          /\ new.pc = IF me.opens = 1 THEN "truncate" ELSE "open"
      BY <1>t, <1>4 DEF ClosePlayer, Go, At, Locals
    <2> QED BY <1>t, <1>g, <2>1 DEF SetupAt, LevelWritten, Setup
  <1>5. CASE TruncateLevelDat(t)
    <2>1. me.pc = "truncate" /\ new.pc = "levelDat" /\ new.out = me.out /\ new.opens = me.opens
      BY <1>t, <1>5 DEF TruncateLevelDat, Go, At, Locals
    <2> QED BY <1>t, <1>g, <2>1 DEF SetupAt, LevelWritten, Setup
  <1>6. CASE WriteLevelDat(t)
    <2>1. me.pc = "levelDat" /\ new.pc = "open" /\ new.out = me.out /\ new.opens = me.opens
      BY <1>t, <1>6 DEF WriteLevelDat, Go, At, Locals
    <2>2. levelDat'[me.out] = "ok"
      BY <1>g, <1>6 DEF WriteLevelDat, TypeInv, TypeOK
    <2>3. me.out \in LevelsSet'
      BY <1>g, <2>2 DEF LevelsSet
    <2> QED BY <1>t, <1>g, <2>1, <2>3 DEF SetupAt, LevelWritten, Setup
  <1>7. CASE Complete(t)
    <2>1. new = Off
      BY <1>t, <1>7 DEF Complete
    <2> QED BY <2>1 DEF Off, SetupAt, LevelWritten, Setup
  <1>8. CASE \/ ListRegions(t) \/ (\E r \in Regions : NextRegion(t, r)) \/ ZeroChunk(t)
             \/ (\E s \in Heights : FillSection(t, s)) \/ SetX(t) \/ SetZ(t) \/ ToBytes(t) \/ CloseDb(t)
    <2>1. /\ me.pc \notin Setup \cup {"off"} /\ new.pc \notin Setup \cup {"off"}
          /\ new.out = me.out /\ new.opens = me.opens
      <3>1. CASE ListRegions(t)
        BY <1>t, <3>1 DEF ListRegions, At, Locals, Setup
      <3>2. CASE \E r \in Regions : NextRegion(t, r)
        BY <1>t, <3>2 DEF NextRegion, At, Locals, Setup
      <3>3. CASE ZeroChunk(t)
        BY <1>t, <3>3 DEF ZeroChunk, At, Locals, Setup
      <3>4. CASE \E s \in Heights : FillSection(t, s)
        BY <1>t, <3>4 DEF FillSection, At, Locals, Setup
      <3>5. CASE SetX(t) \/ SetZ(t) \/ CloseDb(t)
        BY <1>t, <3>5 DEF SetX, SetZ, CloseDb, Go, At, Locals, Setup
      <3>6. CASE ToBytes(t)
        BY <1>t, <3>6 DEF ToBytes, At, Locals, Setup
      <3> QED BY <1>8, <3>1, <3>2, <3>3, <3>4, <3>5, <3>6
    <2> HIDE DEF me, new
    <2> QED BY <1>t, <1>g, <2>1 DEF SetupAt, LevelWritten, Setup, me, new
  <1>9. CASE SkipCell(t) \/ BatchPut(t) \/ NextColumn(t) \/ WriteBatch(t)
    <2>1. PICK rec \in Locals :
             /\ rec.out = me.out /\ rec.opens = me.opens
             /\ th' = [th EXCEPT ![t] = AfterCell(rec)] \/ th' = [th EXCEPT ![t] = AfterColumn(rec)]
      BY <1>9, LoopRecord
    <2>2. \A r \in Locals : AfterCell(r).opens = r.opens /\ AfterColumn(r).opens = r.opens
      BY DEF AfterCell, AfterColumn, Locals
    <2>3. new = AfterCell(rec) \/ new = AfterColumn(rec)
      BY <1>t, <2>1
    <2>4. me.pc \notin Setup \cup {"off"}
      BY <1>9 DEF SkipCell, BatchPut, NextColumn, WriteBatch, At, Setup
    <2>5. new.pc \notin Setup \cup {"off"} /\ new.out = me.out /\ new.opens = me.opens
      BY <2>1, <2>2, <2>3, AfterCellTyped, AfterColumnTyped DEF Setup
    <2> HIDE DEF me, new
    <2> QED BY <1>t, <1>g, <2>4, <2>5 DEF SetupAt, LevelWritten, Setup, me, new
  <1> QED BY <1>1, <1>2, <1>3, <1>4, <1>5, <1>6, <1>7, <1>8, <1>9 DEF Step

(* A completion that is true stays true. *)
LEMMA FinishedStays ==
    ASSUME UNCHANGED input, player \subseteq player', LevelsSet \subseteq LevelsSet',
           \A o \in Outputs, c \in Cells : db[o][KeyOf(c)] = Image(c) => db'[o][KeyOf(c)] = Image(c)
    PROVE  Finished \subseteq Finished'
  <1> SUFFICES ASSUME NEW o \in Finished PROVE o \in Finished'
    OBVIOUS
  <1>1. o \in Outputs /\ o \in player' /\ o \in LevelsSet' /\ \A c \in Cells : Wanted(c) => db[o][KeyOf(c)] = Image(c)
    BY DEF Finished, Converted, LevelsSet
  <1>2. \A c \in Cells : Wanted(c)' => db'[o][KeyOf(c)] = Image(c)'
    BY <1>1, SameInput
  <1>3. Converted(o)'
    BY <1>1, <1>2 DEF Converted, LevelsSet
  <1> QED BY <1>1, <1>3 DEF Finished

(* Steps after which every thread is where it was or where it should be. *)
LEMMA Advance ==
    ASSUME TypeInv, CompleteInv, UNCHANGED input, player \subseteq player', LevelsSet \subseteq LevelsSet',
           \A o \in Outputs, c \in Cells : db[o][KeyOf(c)] = Image(c) => db'[o][KeyOf(c)] = Image(c),
           \A u \in Workers : \/ th'[u] = th[u]
                              \/ /\ SetupAt(th'[u], player', LevelsSet')
                                 /\ th'[u].pc # "off" => LoopAt(th'[u], db'[th'[u].out]),
           \A i \in 1 .. Len(posted') : posted'[i] # None => posted'[i] \in Finished,
           ColumnsAtomic'
    PROVE  CompleteInv'
  <1>1. ASSUME NEW u \in Workers PROVE SetupAt(th[u], player, LevelsSet)'
    <2>1. SetupAt(th'[u], player', LevelsSet')
      <3>1. CASE th'[u] = th[u]
        <4>1. SetupAt(th[u], player, LevelsSet)
          BY DEF CompleteInv
        <4>2. SetupAt(th[u], player', LevelsSet')
          BY <4>1 DEF SetupAt
        <4> QED BY <3>1, <4>2
      <3> QED BY <3>1
    <2> QED BY <2>1
  <1>2. ASSUME NEW u \in Workers, th'[u].pc # "off" PROVE LoopAt(th[u], db[th[u].out])'
    <2>1. LoopAt(th'[u], db'[th'[u].out])
      <3>1. CASE th'[u] = th[u]
        <4>1. LoopAt(th[u], db[th[u].out]) /\ th[u].out \in Outputs
          BY <1>2, <3>1 DEF CompleteInv, TypeInv, LocalsAt
        <4>2. LoopAt(th[u], db'[th[u].out])
          BY <4>1, LoopAtKept
        <4> QED BY <3>1, <4>2
      <3> QED BY <1>2, <3>1
    <2>2. \A c \in Cells : Wanted(c)' = Wanted(c) /\ Image(c)' = Image(c)
      BY SameInput
    <2> QED BY <2>1, <2>2 DEF LoopAt, Seen, Done
  <1>3. PostedIsTrue'
    <2>1. Finished \subseteq Finished'
      BY FinishedStays
    <2> QED BY <2>1 DEF PostedIsTrue
  <1> QED BY <1>1, <1>2, <1>3 DEF CompleteInv

(* The columns of a database that does not change. *)
LEMMA ColumnsKept ==
    ASSUME ColumnsAtomic, UNCHANGED <<input, db>>
    PROVE  ColumnsAtomic'
  <1>1. \A c \in Cells : Wanted(c)' = Wanted(c)
    BY SameInput
  <1> QED BY <1>1 DEF ColumnsAtomic

(* A batch holds the wanted chunks of one column, all of them. *)
LEMMA ColumnsWritten ==
    ASSUME OneOutput, TypeInv, NEW t \in Workers, WriteBatch(t), ColumnsAtomic, LoopAt(th[t], db[th[t].out])
    PROVE  ColumnsAtomic'
  <1> DEFINE batch == th[t].batch
             mine(c) == c[1] = th[t].region /\ c[2] = th[t].x
  <1>1. \A c \in Cells : batch[KeyOf(c)] # NoRecord <=> mine(c) /\ Wanted(c)
    BY DEF LoopAt, WriteBatch, At, InRegion, Seen
  <1>2. ASSUME NEW o \in Outputs PROVE db'[o] = Written(batch, db[o])
    <2>1. th[t].out \in Outputs /\ db \in [Outputs -> Batches]
      BY DEF TypeInv, TypeOK, LocalsAt, WriteBatch, At
    <2> QED BY <2>1 DEF WriteBatch, OneOutput
  <1> HIDE DEF batch
  <1>3. ASSUME NEW o \in Outputs, NEW c \in Cells, Wanted(c)
        PROVE  /\ mine(c) => db'[o][KeyOf(c)] # NoRecord
               /\ ~ mine(c) => db'[o][KeyOf(c)] = db[o][KeyOf(c)]
    <2>1. KeyOf(c) \in Keys
      BY DEF Keys
    <2>2. db'[o][KeyOf(c)] = IF batch[KeyOf(c)] = NoRecord THEN db[o][KeyOf(c)] ELSE batch[KeyOf(c)]
      BY <1>2, <2>1 DEF Written
    <2>3. batch[KeyOf(c)] # NoRecord <=> mine(c)
      BY <1>1, <1>3
    <2> HIDE DEF mine
    <2> QED BY <2>2, <2>3
  <1>4. ASSUME NEW o \in Outputs, NEW r \in Regions, NEW x \in Columns
        PROVE  \/ \A c \in Cells : c[1] = r /\ c[2] = x /\ Wanted(c) => db'[o][KeyOf(c)] = NoRecord
               \/ \A c \in Cells : c[1] = r /\ c[2] = x /\ Wanted(c) => db'[o][KeyOf(c)] # NoRecord
    <2>1. CASE r = th[t].region /\ x = th[t].x
      <3>1. \A c \in Cells : c[1] = r /\ c[2] = x => mine(c)
        BY <2>1
      <3> HIDE DEF mine
      <3> QED BY <1>3, <3>1
    <2>2. CASE ~ (r = th[t].region /\ x = th[t].x)
      <3>1. \A c \in Cells : c[1] = r /\ c[2] = x => ~ mine(c)
        BY <2>2
      <3>2. \/ \A c \in Cells : c[1] = r /\ c[2] = x /\ Wanted(c) => db[o][KeyOf(c)] = NoRecord
            \/ \A c \in Cells : c[1] = r /\ c[2] = x /\ Wanted(c) => db[o][KeyOf(c)] # NoRecord
        BY DEF ColumnsAtomic
      <3> HIDE DEF mine
      <3> QED BY <1>3, <3>1, <3>2
    <2> QED BY <2>1, <2>2
  <1>5. \A c \in Cells : Wanted(c)' = Wanted(c)
    BY SameInput DEF WriteBatch
  <1> QED BY <1>4, <1>5 DEF ColumnsAtomic

(* What is put behind a sequence, or taken from its front. *)
LEMMA PostedElements ==
    ASSUME NEW S, NEW q \in Seq(S), NEW e \in S
    PROVE  /\ \A i \in 1 .. Len(Append(q, e)) :
                 Append(q, e)[i] = e \/ (i \in 1 .. Len(q) /\ Append(q, e)[i] = q[i])
           /\ q # <<>> => \A i \in 1 .. Len(Tail(q)) : i + 1 \in 1 .. Len(q) /\ Tail(q)[i] = q[i + 1]
  OBVIOUS

(* A conversion that is complete has converted its world. *)
LEMMA CompleteIsFinished ==
    ASSUME TypeInv, CompleteInv, NEW t \in Workers, th[t].pc = "complete"
    PROVE  th[t].out \in Finished
  <1> DEFINE o == th[t].out
  <1>1. o \in Outputs /\ LoopAt(th[t], db[o]) /\ SetupAt(th[t], player, LevelsSet) /\ th[t].opens \in Int
    BY DEF TypeInv, TypeOK, Locals, LocalsAt, CompleteInv
  <1>2. \A c \in Cells : Wanted(c) => db[o][KeyOf(c)] = Image(c)
    BY <1>1 DEF LoopAt, Done
  <1>3. o \in player /\ o \in LevelsSet
    BY <1>1 DEF SetupAt, LevelWritten, Setup
  <1> QED BY <1>1, <1>2, <1>3 DEF Finished, Converted, LevelsSet

(* What a step posts is None or true. *)
LEMMA StepPosts ==
    ASSUME TypeInv, CompleteInv, NEW t \in Workers, Step(t), ~ OpenGivesUp(t), ~ ReadFails(t),
           NEW i \in 1 .. Len(posted'), posted'[i] # None
    PROVE  posted'[i] \in Finished
  <1>1. posted \in Seq(Outputs \cup {None})
    BY DEF TypeInv, TypeOK
  <1>2. CASE posted' = posted
    BY <1>2 DEF CompleteInv, PostedIsTrue
  <1>3. CASE \E r \in Regions : NextRegion(t, r)
    <2>1. posted' = Append(posted, None) \/ posted' = posted
      BY <1>3 DEF NextRegion, Post
    <2>2. CASE posted' = Append(posted, None)
      <3>1. i \in 1 .. Len(posted) /\ posted'[i] = posted[i]
        BY <1>1, <2>2, PostedElements
      <3> QED BY <3>1 DEF CompleteInv, PostedIsTrue
    <2> QED BY <1>2, <2>1, <2>2
  <1>4. CASE Complete(t)
    <2> DEFINE o == th[t].out
    <2>1. (posted' = Append(posted, o) \/ posted' = posted) /\ th[t].pc = "complete"
      BY <1>4 DEF Complete, Post, At
    <2>2. o \in Finished /\ o \in Outputs
      BY <2>1, CompleteIsFinished DEF Finished
    <2> HIDE DEF o
    <2>3. CASE posted' = Append(posted, o)
      <3>1. posted'[i] = o \/ (i \in 1 .. Len(posted) /\ posted'[i] = posted[i])
        BY <1>1, <2>2, <2>3, PostedElements
      <3> QED BY <2>2, <3>1 DEF CompleteInv, PostedIsTrue
    <2> QED BY <1>2, <2>1, <2>3
  <1>5. CASE ~ (\E r \in Regions : NextRegion(t, r)) /\ ~ Complete(t)
    <2>1. posted' = posted
      <3>1. CASE OpenDatabase(t) \/ OpenFails(t) \/ PutPlayer(t) \/ ClosePlayer(t) \/ TruncateLevelDat(t) \/ WriteLevelDat(t)
        BY <3>1 DEF OpenDatabase, OpenFails, PutPlayer, ClosePlayer, TruncateLevelDat, WriteLevelDat, screen
      <3>2. CASE \/ ListRegions(t) \/ SkipCell(t) \/ ZeroChunk(t) \/ (\E s \in Heights : FillSection(t, s))
                 \/ SetX(t) \/ SetZ(t) \/ ToBytes(t)
        BY <3>2 DEF ListRegions, SkipCell, ZeroChunk, FillSection, SetX, SetZ, ToBytes, screen
      <3>3. CASE BatchPut(t) \/ NextColumn(t) \/ WriteBatch(t) \/ CloseDb(t)
        BY <3>3 DEF BatchPut, NextColumn, WriteBatch, CloseDb, screen
      <3> QED BY <1>5, <3>1, <3>2, <3>3 DEF Step
    <2> QED BY <1>2, <2>1
  <1> QED BY <1>3, <1>4, <1>5

(* Nothing is to be done where there is no process. *)
LEMMA OffComplete ==
    ASSUME NEW players, NEW levels
    PROVE  SetupAt(Off, players, levels) /\ Off.pc = "off"
  BY DEF Off, SetupAt, LevelWritten, Setup

(* What a process that is gone leaves. *)
LEMMA NoProcessCompleteInv ==
    ASSUME CompleteInv, NoProcess, UNCHANGED <<input, files>>
    PROVE  CompleteInv'
  <1>1. \A t \in Workers : th'[t] = Off
    BY DEF NoProcess
  <1>2. \A t \in Workers : SetupAt(th'[t], player', LevelsSet')
    BY <1>1, OffComplete
  <1>3. posted' = <<>> /\ PostedIsTrue'
    BY DEF NoProcess, PostedIsTrue
  <1>4. ColumnsAtomic'
    BY ColumnsKept DEF CompleteInv, files
  <1> QED BY <1>1, <1>2, <1>3, <1>4, OffComplete DEF CompleteInv

(* A step of a conversion loses nothing of what is done. *)
LEMMA StepCompleteInv ==
    ASSUME OneOutput, TypeInv, HoldInv, FaithInv, CompleteInv, NEW t \in Workers, Step(t)
    PROVE  CompleteInv'
  <1>1. CASE OpenGivesUp(t) \/ ReadFails(t)
    <2>1. NoProcess /\ UNCHANGED <<input, files>>
      BY <1>1 DEF OpenGivesUp, ReadFails
    <2> QED BY <2>1, NoProcessCompleteInv
  <1>2. CASE ~ OpenGivesUp(t) /\ ~ ReadFails(t)
    <2>1. UNCHANGED input /\ player \subseteq player' /\ \A u \in Workers : u # t => th'[u] = th[u]
      BY <1>2, StepFrame
    <2>2. LevelsSet \subseteq LevelsSet'
      BY <1>2, LevelStays
    <2>3. \A o \in Outputs, c \in Cells : db[o][KeyOf(c)] = Image(c) => db'[o][KeyOf(c)] = Image(c)
      BY StoredStays
    <2>4. SetupAt(th'[t], player', LevelsSet')
      BY <1>2, StepSetup DEF CompleteInv
    <2>5. th'[t].pc # "off" => LoopAt(th'[t], db'[th'[t].out])
      BY StepLoop DEF CompleteInv
    <2>6. \A i \in 1 .. Len(posted') : posted'[i] # None => posted'[i] \in Finished
      BY <1>2, StepPosts
    <2>7. ColumnsAtomic'
      <3>1. CASE WriteBatch(t)
        <4>1. LoopAt(th[t], db[th[t].out]) /\ ColumnsAtomic
          BY <3>1 DEF CompleteInv, WriteBatch, At
        <4> QED BY <3>1, <4>1, ColumnsWritten
      <3>2. CASE ~ WriteBatch(t)
        <4>1. db' = db
          BY <3>2, StepKeepsDb
        <4> QED BY <2>1, <4>1, ColumnsKept DEF CompleteInv
      <3> QED BY <3>1, <3>2
    <2>8. \A u \in Workers : \/ th'[u] = th[u]
                             \/ /\ SetupAt(th'[u], player', LevelsSet')
                                /\ th'[u].pc # "off" => LoopAt(th'[u], db'[th'[u].out])
      BY <2>1, <2>4, <2>5
    <2> QED BY <2>1, <2>2, <2>3, <2>6, <2>7, <2>8, Advance
  <1> QED BY <1>1, <1>2

(* Nor does any step. *)
LEMMA NextCompleteInv ==
    ASSUME OneOutput
    PROVE  TypeInv /\ HoldInv /\ FaithInv /\ CompleteInv /\ [Next]_vars => CompleteInv'
  <1> SUFFICES ASSUME TypeInv, HoldInv, FaithInv, CompleteInv, [Next]_vars PROVE CompleteInv'
    OBVIOUS
  <1>p. posted \in Seq(Outputs \cup {None}) /\ None \in Outputs \cup {None}
    BY DEF TypeInv, TypeOK
  <1>1. CASE ChooseWorld \/ Recreate \/ RunPosted \/ UNCHANGED vars \/ \E o \in Outputs : GameOpens(o) \/ GameCloses(o)
    <2>1. UNCHANGED <<input, files, th>>
      BY <1>1 DEF ChooseWorld, Recreate, RunPosted, GameOpens, GameCloses, vars
    <2>2. ASSUME NEW i \in 1 .. Len(posted'), posted'[i] # None PROVE posted'[i] \in Finished
      <3>1. \/ posted' = posted \/ posted' = <<>>
            \/ posted # <<>> /\ posted' = Tail(posted)
        BY <1>1 DEF ChooseWorld, Recreate, RunPosted, GameOpens, GameCloses, vars, screen
      <3>2. CASE posted' = posted
        BY <2>2, <3>2 DEF CompleteInv, PostedIsTrue
      <3>3. CASE posted' = <<>>
        BY <3>3
      <3>4. CASE posted # <<>> /\ posted' = Tail(posted)
        <4>1. i + 1 \in 1 .. Len(posted) /\ posted'[i] = posted[i + 1]
          BY <1>p, <3>4, PostedElements
        <4> QED BY <2>2, <4>1 DEF CompleteInv, PostedIsTrue
      <3> QED BY <3>1, <3>2, <3>3, <3>4
    <2>3. LevelsSet' = LevelsSet /\ player' = player /\ db' = db
      BY <2>1 DEF LevelsSet, files
    <2>4. ColumnsAtomic'
      BY <2>1, <2>3, ColumnsKept DEF CompleteInv
    <2> QED BY <2>1, <2>2, <2>3, <2>4, Advance
  <1>2. CASE \E t \in Workers, o \in Outputs : StartConvertion(t, o)
    <2> PICK t \in Workers, o \in Outputs : StartConvertion(t, o)
      BY <1>2
    <2> DEFINE rec == [Off EXCEPT !.pc = "open", !.out = o]
    <2>1. rec.pc = "open" /\ rec.opens = 0
      BY DEF Off
    <2>2. /\ UNCHANGED <<input, files, posted>> /\ th[t].pc = "off" /\ th'[t] = rec
          /\ \A u \in Workers : u # t => th'[u] = th[u]
      BY DEF StartConvertion, TypeInv, TypeOK
    <2> HIDE DEF rec
    <2>3. LevelsSet \subseteq LevelsSet' /\ player' = player /\ db' = db
      BY <2>2 DEF LevelsSet, files
    <2>4. SetupAt(th'[t], player', LevelsSet') /\ LoopAt(th'[t], db'[th'[t].out])
      <3>1. \A players, levels : SetupAt(rec, players, levels)
        BY <2>1 DEF SetupAt, LevelWritten, Setup
      <3>2. \A records : LoopAt(rec, records)
        BY <2>1, LoopOutside DEF Setup
      <3> QED BY <2>2, <3>1, <3>2
    <2>5. ColumnsAtomic'
      BY <2>2, <2>3, ColumnsKept DEF CompleteInv
    <2>6. \A i \in 1 .. Len(posted') : posted'[i] # None => posted'[i] \in Finished
      BY <2>2 DEF CompleteInv, PostedIsTrue
    <2>7. \A u \in Workers : \/ th'[u] = th[u]
                             \/ /\ SetupAt(th'[u], player', LevelsSet')
                                /\ th'[u].pc # "off" => LoopAt(th'[u], db'[th'[u].out])
      BY <2>2, <2>4
    <2> QED BY <2>2, <2>3, <2>5, <2>6, <2>7, Advance
  <1>3. CASE \E t \in Workers : Step(t)
    BY <1>3, StepCompleteInv
  <1>4. CASE ProcessDies
    BY <1>4, NoProcessCompleteInv DEF ProcessDies
  <1> QED BY <1>1, <1>2, <1>3, <1>4 DEF Next

(* When all conversions go to one directory: "Conversion complete." is only *)
(* ever shown for an output that holds every readable chunk of the window   *)
(* with its own blocks and has its level set up, and a column is in the     *)
(* output as a whole or not at all, for any number of threads, worlds of    *)
(* any size, and wherever the process dies.                                 *)
THEOREM ConvertedCompletely ==
    ASSUME OneOutput
    PROVE  Spec => []OutputComplete
  <1>1. Init => CompleteInv
    <2> SUFFICES ASSUME Init PROVE CompleteInv
      OBVIOUS
    <2>1. \A t \in Workers : th[t] = Off
      BY DEF Init
    <2>2. PostedIsTrue
      BY DEF Init, PostedIsTrue
    <2>3. ColumnsAtomic
      <3>1. \A o \in Outputs, c \in Cells : db[o][KeyOf(c)] = NoRecord
        BY DEF Init, EmptyBatch, Keys
      <3> QED BY <3>1 DEF ColumnsAtomic
    <2> QED BY <2>1, <2>2, <2>3, OffComplete DEF CompleteInv
  <1>2. TypeInv /\ HoldInv /\ FaithInv /\ CompleteInv /\ [Next]_vars => CompleteInv'
    BY NextCompleteInv
  <1>3. TypeInv /\ CompleteInv => OutputComplete
    <2> SUFFICES ASSUME TypeInv, CompleteInv, posted # <<>>, Head(posted) # None PROVE Converted(Head(posted))
      BY DEF OutputComplete, CompletionIsTrue, CompleteInv
    <2>1. posted \in Seq(Outputs \cup {None})
      BY DEF TypeInv, TypeOK
    <2>2. 1 \in 1 .. Len(posted) /\ posted[1] = Head(posted)
      BY <2>1
    <2>3. Head(posted) \in Finished
      BY <2>2 DEF CompleteInv, PostedIsTrue
    <2> QED BY <2>3 DEF Finished
  <1>4. Init => FaithInv
    BY InitFaithInv
  <1>5. TypeInv /\ HoldInv /\ FaithInv /\ [Next]_vars => FaithInv'
    BY NextFaithInv, OneOutputIsOneDirectory
  <1> QED BY <1>1, <1>2, <1>3, <1>4, <1>5, AlwaysTypeInv, AlwaysHoldInv, PTL DEF Spec
=============================================================================
