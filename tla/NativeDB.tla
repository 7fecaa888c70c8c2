------------------------------ MODULE NativeDB ------------------------------
(***************************************************************************)
(* The Java wrappers of the native LevelDB objects (com.litl.leveldb): a   *)
(* DB, the iterators and snapshots made from it, the write batches, their  *)
(* reference counts and the C++ objects behind them.  Every synchronized   *)
(* method is a step; a call that goes through several objects is the list  *)
(* of the steps it still has to take, so that threads interleave between   *)
(* them and hold the monitors the code holds.                              *)
(***************************************************************************)
EXTENDS Integers, Sequences, FiniteSets

CONSTANTS Threads,     \* threads that use the database
          Iters,       \* iterator objects that may be created
          Snaps,       \* snapshot objects that may be created
          Batches,     \* write batches that may be created
          Db,          \* the DB object
          None,        \* no object, no thread
          MaxWrappers, \* how many iterators, snapshots and batches are made in all
          ClosesPerWrapper   \* how often clients call close() on one wrapper

ASSUME NativeConstants ==
    /\ Db \notin Iters \cup Snaps \cup Batches
    /\ None \notin Iters \cup Snaps \cup Batches \cup Threads \cup {Db}
    /\ Iters \cap Snaps = {} /\ Iters \cap Batches = {} /\ Snaps \cap Batches = {}
    /\ ClosesPerWrapper \in Nat /\ MaxWrappers \in Nat

Objects == {Db} \cup Iters \cup Snaps \cup Batches

VARIABLES
    mPtr,       \* objects whose mPtr is not 0
    mRefCount,  \* per object
    native,     \* the C++ objects that are allocated
    made,       \* wrappers that were constructed
    closes,     \* calls of close() per wrapper so far
    source,     \* the snapshot an iterator reads from, or None
    owner,      \* the thread that made the wrapper
    todo,       \* per thread, the rest of the call it is in
    monitor,    \* per object, the thread inside its synchronized methods
    destroyOnClose, destroyed,   \* mDestroyOnClose; the files are gone
    wild        \* a native call got a pointer that is 0 or freed

vars == <<mPtr, mRefCount, native, made, closes, source, owner, todo, monitor,
          destroyOnClose, destroyed, wild>>
handles == <<made, closes, source, owner>>

Op(name, o) == [op |-> name, obj |-> o]

Init ==
    /\ mPtr = {}
    /\ mRefCount = [o \in Objects |-> IF o = Db THEN 1 ELSE 0]
    /\ native = {}
    /\ made = {Db}
    /\ closes = [o \in Objects |-> 0]
    /\ source = [i \in Iters |-> None]
    /\ owner = [o \in Objects |-> None]
    /\ todo = [t \in Threads |-> <<>>]
    /\ monitor = [o \in Objects |-> None]
    /\ destroyOnClose = FALSE
    /\ destroyed = FALSE
    /\ wild = FALSE

-----------------------------------------------------------------------------
(***************************************************************************)
(* Calls the clients make.                                                 *)
(***************************************************************************)
Idle(t) == todo[t] = <<>>
Begin(t, ops) == todo' = [todo EXCEPT ![t] = ops]
MayMake(o) ==
    /\ o \notin made /\ owner[o] = None
    /\ Cardinality({p \in Objects : owner[p] # None}) < MaxWrappers

(* nativeOpen creates the files if they are missing (create_if_missing). *)
NativeOpen ==
    /\ mPtr' = mPtr \cup {Db}
    /\ native' = native \cup {Db}
    /\ destroyed' = FALSE

(* DB.open; when nativeOpen fails it throws, mPtr stays 0 and nothing changes. *)
Open(t) ==
    /\ Idle(t) /\ Db \notin mPtr /\ closes[Db] = 0
    /\ NativeOpen
    /\ UNCHANGED <<mRefCount, handles, todo, monitor, destroyOnClose, wild>>

(* put, get and delete: assertOpen, then a native call on mPtr. *)
UseDb(t) ==
    /\ Idle(t) /\ closes[Db] = 0
    /\ Begin(t, <<Op("assertOpen", Db), Op("call", Db)>>)
    /\ UNCHANGED <<mPtr, mRefCount, native, handles, monitor, destroyOnClose, destroyed, wild>>

(* iterator(snapshot): the DB, and the snapshot if there is one, are referenced. *)
NewIteratorNoNullCheck(t, i, s) ==        \* snapshot.ref() without the test
    /\ Idle(t) /\ closes[Db] = 0
    /\ MayMake(i)
    /\ s # None => s \in made /\ closes[s] = 0
    /\ Begin(t, <<Op("assertOpen", Db), Op("ref", Db)>>
                \o <<Op("ref", s)>> \o <<Op("create", i)>>)
    /\ source' = [source EXCEPT ![i] = s]
    /\ owner' = [owner EXCEPT ![i] = t]
    /\ UNCHANGED <<mPtr, mRefCount, native, made, closes, monitor, destroyOnClose, destroyed, wild>>
NewIterator(t, i, s) ==
    /\ Idle(t) /\ closes[Db] = 0
    /\ MayMake(i)
    /\ s # None => s \in made /\ closes[s] = 0
    /\ Begin(t, <<Op("assertOpen", Db), Op("ref", Db)>>
                \o (IF s = None THEN <<>> ELSE <<Op("ref", s)>>) \o <<Op("create", i)>>)
    /\ source' = [source EXCEPT ![i] = s]
    /\ owner' = [owner EXCEPT ![i] = t]
    /\ UNCHANGED <<mPtr, mRefCount, native, made, closes, monitor, destroyOnClose, destroyed, wild>>

(* getSnapshot() *)
NewSnapshot(t, s) ==
    /\ Idle(t) /\ closes[Db] = 0
    /\ MayMake(s)
    /\ Begin(t, <<Op("assertOpen", Db), Op("ref", Db), Op("create", s)>>)
    /\ owner' = [owner EXCEPT ![s] = t]
    /\ UNCHANGED <<mPtr, mRefCount, native, made, closes, source, monitor, destroyOnClose, destroyed, wild>>

(* seek, isValid, next, getKey, getValue, by the thread that made the iterator. *)
UseIterator(t, i) ==
    /\ Idle(t) /\ i \in made /\ owner[i] = t
    /\ Begin(t, <<Op("assertOpen", i), Op("iterCall", i)>>)
    /\ UNCHANGED <<mPtr, mRefCount, native, handles, monitor, destroyOnClose, destroyed, wild>>

(* new WriteBatch(): the native object belongs to no database. *)
NewBatch(t, b) ==
    /\ Idle(t) /\ MayMake(b)
    /\ mPtr' = mPtr \cup {b}
    /\ native' = native \cup {b}
    /\ made' = made \cup {b}
    /\ mRefCount' = [mRefCount EXCEPT ![b] = 1]
    /\ owner' = [owner EXCEPT ![b] = t]
    /\ UNCHANGED <<closes, source, todo, monitor, destroyOnClose, destroyed, wild>>

(* put, delete and clear of a batch, by the thread that made it. *)
UseBatch(t, b) ==
    /\ Idle(t) /\ b \in made /\ owner[b] = t
    /\ Begin(t, <<Op("assertOpen", b), Op("batchCall", b)>>)
    /\ UNCHANGED <<mPtr, mRefCount, native, handles, monitor, destroyOnClose, destroyed, wild>>

(* DB.write(batch): only the database is asserted to be open. *)
Write(t, b) ==
    /\ Idle(t) /\ closes[Db] = 0 /\ b \in made /\ owner[b] = t
    /\ Begin(t, <<Op("assertOpen", Db), Op("callWith", b)>>)
    /\ UNCHANGED <<mPtr, mRefCount, native, handles, monitor, destroyOnClose, destroyed, wild>>

(* get(snapshot, key): the snapshot is passed by its pointer, and no reference *)
(* to it is taken for the call.                                                *)
GetAt(t, s) ==
    /\ Idle(t) /\ closes[Db] = 0 /\ s \in made /\ closes[s] = 0
    /\ Begin(t, <<Op("assertOpen", Db), Op("callWith", s)>>)
    /\ UNCHANGED <<mPtr, mRefCount, native, handles, monitor, destroyOnClose, destroyed, wild>>

(* The objects whose methods thread t is inside of, or that its call was given. *)
Uses(x) == {x.obj} \cup (IF x.op \in {"create", "callWith"} THEN {Db} \cup {source[i] : i \in Iters \cap {x.obj}} ELSE {})
InCallsOn(t) == UNION {Uses(todo[t][k]) : k \in {j \in 1 .. Len(todo[t]) :
                          todo[t][j].op \in {"assertOpen", "ref", "create", "call", "iterCall", "batchCall", "callWith"}}}

(* close().  A discipline of the clients that the code does not enforce:       *)
(* they close an iterator or a snapshot from the thread that made it, and no   *)
(* object while another thread is inside put, get, iterator()... on it, nor do *)
(* they begin such a call once close() was called (closes[Db] = 0 above).      *)
(* Without it put reads mPtr outside the monitor (DB.java:47) and passes a     *)
(* pointer that close() may free meanwhile.  Iterators may still be open, and  *)
(* in use, when the DB is closed.                                              *)
Close(t, o) ==
    /\ Idle(t) /\ o \in made /\ closes[o] < ClosesPerWrapper
    /\ o # Db => owner[o] = t
    /\ \A u \in Threads : o \notin InCallsOn(u)
    /\ closes' = [closes EXCEPT ![o] = @ + 1]
    /\ Begin(t, <<Op("close", o)>>)
    /\ UNCHANGED <<mPtr, mRefCount, native, made, source, owner, monitor, destroyOnClose, destroyed, wild>>

(* destroy(): the files go now if the DB is not open, else when it is closed. *)
(* The flag is written without the monitor, then getPtr takes it.             *)
Destroy(t) ==
    /\ Idle(t)
    /\ destroyOnClose' = TRUE
    /\ Begin(t, <<Op("destroyIfClosed", Db)>>)
    /\ UNCHANGED <<mPtr, mRefCount, native, handles, monitor, destroyed, wild>>

-----------------------------------------------------------------------------
(***************************************************************************)
(* The steps of a call.                                                    *)
(***************************************************************************)
Now(t) == Head(todo[t])
At(t, name) == ~ Idle(t) /\ Now(t).op = name
Rest(t) == Tail(todo[t])
Free(t, o) == monitor[o] \in {None, t}

(* getPtr() is synchronized; an IllegalStateException ends the call. *)
AssertOpen(t) ==
    /\ At(t, "assertOpen") /\ Free(t, Now(t).obj)
    /\ todo' = [todo EXCEPT ![t] = IF Now(t).obj \in mPtr THEN Rest(t) ELSE <<>>]
    /\ UNCHANGED <<mPtr, mRefCount, native, handles, monitor, destroyOnClose, destroyed, wild>>

RefMutant(t) ==                           \* the increment is lost
    /\ At(t, "ref") /\ Free(t, Now(t).obj)
    /\ todo' = [todo EXCEPT ![t] = Rest(t)]
    /\ UNCHANGED <<mPtr, mRefCount, native, handles, monitor, destroyOnClose, destroyed, wild>>
Ref(t) ==
    /\ At(t, "ref") /\ Free(t, Now(t).obj)
    /\ mRefCount' = [mRefCount EXCEPT ![Now(t).obj] = @ + 1]
    /\ todo' = [todo EXCEPT ![t] = Rest(t)]
    /\ UNCHANGED <<mPtr, native, handles, monitor, destroyOnClose, destroyed, wild>>

(* nativeIterator or nativeGetSnapshot, then the wrapper's constructor. *)
Create(t) ==
    /\ At(t, "create")
    /\ LET o == Now(t).obj IN
       /\ wild' = (wild \/ Db \notin native \cap mPtr
                        \/ (o \in Iters /\ source[o] # None /\ source[o] \notin native \cap mPtr))
       /\ mPtr' = mPtr \cup {o}
       /\ native' = native \cup {o}
       /\ made' = made \cup {o}
       /\ mRefCount' = [mRefCount EXCEPT ![o] = 1]
    /\ todo' = [todo EXCEPT ![t] = Rest(t)]
    /\ UNCHANGED <<closes, source, owner, monitor, destroyOnClose, destroyed>>

(* nativeGet, nativePut, nativeDelete: mPtr is read without the monitor.    *)
(* nativeGet makes an iterator of its own and deletes it before it returns. *)
Call(t) ==
    /\ At(t, "call")
    /\ wild' = (wild \/ Db \notin native \cap mPtr)
    /\ todo' = [todo EXCEPT ![t] = Rest(t)]
    /\ UNCHANGED <<mPtr, mRefCount, native, handles, monitor, destroyOnClose, destroyed>>

(* The native methods of an iterator read the memory of the DB it came from *)
(* and the entries its snapshot keeps from being dropped.                   *)
IterCall(t) ==
    /\ At(t, "iterCall")
    /\ LET i == Now(t).obj IN
       wild' = (wild \/ i \notin native \cap mPtr \/ Db \notin native
                     \/ (source[i] # None /\ source[i] \notin native))
    /\ todo' = [todo EXCEPT ![t] = Rest(t)]
    /\ UNCHANGED <<mPtr, mRefCount, native, handles, monitor, destroyOnClose, destroyed>>

(* nativePut, nativeDelete and nativeClear of a batch copy the bytes they are *)
(* given (what they append is Codecs) and touch nothing else.                 *)
BatchCall(t) ==
    /\ At(t, "batchCall")
    /\ wild' = (wild \/ Now(t).obj \notin native \cap mPtr)
    /\ todo' = [todo EXCEPT ![t] = Rest(t)]
    /\ UNCHANGED <<mPtr, mRefCount, native, handles, monitor, destroyOnClose, destroyed>>

(* nativeWrite of a batch, or nativeGet at a snapshot: getPtr() takes the     *)
(* monitor of the wrapper passed.  A batch that was closed is passed as NULL, *)
(* which DBImpl::Write takes as a write without updates.                      *)
CallWith(t) ==
    /\ At(t, "callWith") /\ Free(t, Now(t).obj)
    /\ wild' = (wild \/ Db \notin native \cap mPtr
                     \/ Now(t).obj \in mPtr \ native)
    /\ todo' = [todo EXCEPT ![t] = Rest(t)]
    /\ UNCHANGED <<mPtr, mRefCount, native, handles, monitor, destroyOnClose, destroyed>>

(* close(): nothing happens once mPtr is 0. *)
CloseBodyClosesOthers(t) ==    \* DB.close() closes what is still open first, in its monitor
    /\ At(t, "close") /\ Free(t, Now(t).obj)
    /\ LET o == Now(t).obj
           listOf(S) == CHOOSE q \in [1 .. Cardinality(S) -> S] : {q[k] : k \in DOMAIN q} = S
           closing(S) == [k \in 1 .. Cardinality(S) |-> Op("close", listOf(S)[k])]
           first == IF o = Db THEN closing(Iters \cap mPtr) \o closing(Snaps \cap mPtr) ELSE <<>> IN
       IF o \in mPtr
         THEN /\ todo' = [todo EXCEPT ![t] = first \o <<Op("unref", o)>> \o Rest(t)]
              /\ monitor' = [monitor EXCEPT ![Db] = IF o = Db THEN t ELSE @]
         ELSE todo' = [todo EXCEPT ![t] = Rest(t)] /\ UNCHANGED monitor
    /\ UNCHANGED <<mPtr, mRefCount, native, handles, destroyOnClose, destroyed, wild>>
CloseBody(t) ==
    /\ At(t, "close") /\ Free(t, Now(t).obj)
    /\ todo' = [todo EXCEPT ![t] =
          (IF Now(t).obj \in mPtr THEN <<Op("unref", Now(t).obj)>> ELSE <<>>) \o Rest(t)]
    /\ UNCHANGED <<mPtr, mRefCount, native, handles, monitor, destroyOnClose, destroyed, wild>>

(* The body of closeNativeObject, per class; the monitor is kept throughout. *)
CloseNativeObjectUnrefFirst(o) ==         \* the DB is released before the iterator
    CASE o = Db     -> <<Op("free", o), Op("destroyIfFlag", o)>>
      [] o \in Iters -> (IF source[o] = None THEN <<>> ELSE <<Op("unref", source[o])>>)
                        \o <<Op("unref", Db), Op("free", o)>>
      [] o \in Snaps -> <<Op("free", o), Op("unref", Db)>>
      [] o \in Batches -> <<Op("free", o)>>
CloseNativeObjectNoUnref(o) ==            \* a snapshot keeps its reference to the DB
    CASE o = Db     -> <<Op("free", o), Op("destroyIfFlag", o)>>
      [] o \in Iters -> <<Op("free", o)>>
                        \o (IF source[o] = None THEN <<>> ELSE <<Op("unref", source[o])>>)
                        \o <<Op("unref", Db)>>
      [] o \in Snaps -> <<Op("free", o)>>
      [] o \in Batches -> <<Op("free", o)>>
CloseNativeObject(o) ==
    CASE o = Db     -> <<Op("free", o), Op("destroyIfFlag", o)>>
      [] o \in Iters -> <<Op("free", o)>>
                        \o (IF source[o] = None THEN <<>> ELSE <<Op("unref", source[o])>>)
                        \o <<Op("unref", Db)>>
      [] o \in Snaps -> <<Op("free", o), Op("unref", Db)>>
      [] o \in Batches -> <<Op("free", o)>>

(* unref(): the count goes down, and at 0 the native object is closed and *)
(* then mPtr is cleared.                                                  *)
Unref(t) ==
    /\ At(t, "unref") /\ Free(t, Now(t).obj)
    /\ LET o == Now(t).obj IN
       IF mRefCount[o] <= 0
         THEN /\ todo' = [todo EXCEPT ![t] = <<>>]     \* IllegalStateException
              /\ monitor' = [p \in Objects |-> IF monitor[p] = t THEN None ELSE monitor[p]]
              /\ UNCHANGED mRefCount
         ELSE /\ mRefCount' = [mRefCount EXCEPT ![o] = @ - 1]
              /\ IF mRefCount[o] = 1
                   THEN /\ todo' = [todo EXCEPT ![t] =
                              CloseNativeObject(o) \o <<Op("clear", o)>> \o Rest(t)]
                        /\ monitor' = [monitor EXCEPT ![o] = t]
                   ELSE /\ todo' = [todo EXCEPT ![t] = Rest(t)]
                        /\ UNCHANGED monitor
    /\ UNCHANGED <<mPtr, native, handles, destroyOnClose, destroyed, wild>>

(* nativeClose, nativeDestroy of an iterator or a batch, or               *)
(* nativeReleaseSnapshot through the DB's pointer.                        *)
FreeNative(t) ==
    /\ At(t, "free")
    /\ LET o == Now(t).obj IN
       /\ o \in Snaps => Free(t, Db)
       /\ wild' = (wild \/ o \notin native \/ (o \notin Batches /\ Db \notin native)
                        \/ (o \in Snaps /\ Db \notin mPtr))
       /\ native' = native \ {o}
    /\ todo' = [todo EXCEPT ![t] = Rest(t)]
    /\ UNCHANGED <<mPtr, mRefCount, handles, monitor, destroyOnClose, destroyed>>

(* nativeDestroy: DestroyDB refuses to work on an open database. *)
NativeDestroy == destroyed' = (destroyed \/ Db \notin native)

(* The two places it is called from. *)
DestroyFilesUnlocked(t) ==                \* getPtr() not synchronized
    /\ \/ /\ At(t, "destroyIfFlag")
          /\ IF destroyOnClose THEN NativeDestroy ELSE UNCHANGED destroyed
       \/ /\ At(t, "destroyIfClosed")
          /\ IF Db \notin mPtr THEN NativeDestroy ELSE UNCHANGED destroyed
    /\ todo' = [todo EXCEPT ![t] = Rest(t)]
    /\ UNCHANGED <<mPtr, mRefCount, native, handles, monitor, destroyOnClose, wild>>
DestroyFiles(t) ==
    /\ \/ /\ At(t, "destroyIfFlag")
          /\ IF destroyOnClose THEN NativeDestroy ELSE UNCHANGED destroyed
       \/ /\ At(t, "destroyIfClosed") /\ Free(t, Db)
          /\ IF Db \notin mPtr THEN NativeDestroy ELSE UNCHANGED destroyed
    /\ todo' = [todo EXCEPT ![t] = Rest(t)]
    /\ UNCHANGED <<mPtr, mRefCount, native, handles, monitor, destroyOnClose, wild>>

(* mPtr = 0 and the monitor is released. *)
ClearPtr(t) ==
    /\ At(t, "clear")
    /\ mPtr' = mPtr \ {Now(t).obj}
    /\ monitor' = [monitor EXCEPT ![Now(t).obj] = None]
    /\ todo' = [todo EXCEPT ![t] = Rest(t)]
    /\ UNCHANGED <<mRefCount, native, handles, destroyOnClose, destroyed, wild>>

Step(t) ==
    \/ AssertOpen(t) \/ Ref(t) \/ Create(t)
    \/ Call(t) \/ IterCall(t) \/ BatchCall(t) \/ CallWith(t)
    \/ CloseBody(t) \/ Unref(t) \/ FreeNative(t) \/ DestroyFiles(t) \/ ClearPtr(t)

Start(t) ==
    \/ Open(t) \/ UseDb(t) \/ Destroy(t)
    \/ \E i \in Iters, s \in Snaps \cup {None} : NewIterator(t, i, s)
    \/ \E s \in Snaps : NewSnapshot(t, s) \/ GetAt(t, s)
    \/ \E i \in Iters : UseIterator(t, i)
    \/ \E b \in Batches : NewBatch(t, b) \/ UseBatch(t, b) \/ Write(t, b)
    \/ \E o \in Objects : Close(t, o)

Next == \E t \in Threads : Start(t) \/ Step(t)

Spec == Init /\ [][Next]_vars

(* A thread inside a call keeps running; whether a client makes another call *)
(* is up to the client.                                                      *)
FairSpec == Spec /\ \A t \in Threads : WF_vars(Step(t))

-----------------------------------------------------------------------------
(***************************************************************************)
(* Properties.                                                             *)
(***************************************************************************)
Ops == [op : {"assertOpen", "ref", "create", "call", "iterCall", "batchCall", "callWith", "close", "unref", "free",
              "destroyIfFlag", "destroyIfClosed", "clear"}, obj : Objects]

(* The fields of the wrappers keep their types and a reference count is never *)
(* negative (NativeObject.mPtr, mRefCount).                                   *)
TypeOK ==
    /\ mPtr \in SUBSET Objects /\ native \in SUBSET Objects /\ made \in SUBSET Objects
    /\ mRefCount \in [Objects -> Nat]
    /\ closes \in [Objects -> 0 .. ClosesPerWrapper]
    /\ source \in [Iters -> Snaps \cup {None}]
    /\ owner \in [Objects -> Threads \cup {None}]
    /\ todo \in [Threads -> Seq(Ops)]
    /\ monitor \in [Objects -> Threads \cup {None}]
    /\ destroyOnClose \in BOOLEAN /\ destroyed \in BOOLEAN /\ wild \in BOOLEAN

(* Where clients close no object during another thread's call on it, no      *)
(* native function is ever given a pointer that is 0 (the NULL batch of a    *)
(* write apart) or was freed, and no iterator or snapshot is used or         *)
(* released after its database is deleted: nothing else protects the casts   *)
(* in com_litl_leveldb_DB.cc, _Iterator.cc and _WriteBatch.cc.               *)
NativeSafe == ~ wild

Dependents == native \ ({Db} \cup Batches)

(* A C++ iterator or snapshot is only ever alive inside a live database, and *)
(* a snapshot outlives the iterators that read from it, whatever order the   *)
(* wrappers are closed in (DB.iterator, DB.getSnapshot and unref).           *)
DependentsKeepOwnersAlive ==
    /\ Dependents # {} => Db \in native
    /\ \A i \in Iters \cap native : source[i] = None \/ source[i] \in native

(* Once every wrapper that was made is closed and no call is under way, all  *)
(* native objects are deleted: no reference is left behind by the nested     *)
(* unref calls of closeNativeObject.                                         *)
NothingLeaks ==
    (/\ \A t \in Threads : Idle(t)
     /\ \A o \in made : closes[o] > 0)
       => native = {} /\ mPtr = {}

(* The reference counts do their work: they keep the owners of what is alive *)
(* and let go of everything else, for every order in which two threads close *)
(* the wrappers (NativeObject.ref and unref).                                *)
ReferencesSound == TypeOK /\ DependentsKeepOwnersAlive /\ NothingLeaks

(* A destroy() that has returned is never forgotten: when the database is    *)
(* closed, by whichever thread held the last reference, its files are gone,  *)
(* although mDestroyOnClose is written without the monitor.                  *)
DestroyTakesEffect ==
    (destroyOnClose /\ Db \notin mPtr /\ \A t \in Threads : Idle(t)) => destroyed

(* The wrapper's own reference is all that close() gives back: the rest of   *)
(* the count belongs to the iterators and snapshots that are still open      *)
(* (NativeObject.java, "The Java wrapper counts as one reference").          *)
WrapperIsOneReference ==
    (\A t \in Threads : Idle(t)) => mRefCount[Db] >= Cardinality(Dependents)

(* Every call comes to an end: the monitors that closeNativeObject takes in  *)
(* a nested fashion, iterator, snapshot, database, never block each other:   *)
(* no method of the database takes a monitor of a wrapper inside its own.    *)
CallsReturn == \A t \in Threads : ~ Idle(t) ~> Idle(t)
=============================================================================
