----------------------------- MODULE TableCache -----------------------------
(* The cache of open tables (db/table_cache.cc) over one shard of the LRU   *)
(* cache (util/cache.cc), and the limit on mapped files (env_posix.cc).     *)
(* Every call of the cache holds its mutex and is one step; between the     *)
(* miss and the insert of FindTable other threads run.                      *)
EXTENDS Integers, Sequences, FiniteSets, SequencesExt

CONSTANTS
    CacheThreads,
    TableNumbers,   \* the table files of the database
    HashOf(_),      \* the hash of a file number
    kFirstLength,   \* the buckets of a new handle table
    CacheCapacity,
    MmapLimit

ASSUME TableCacheAssumption ==
    /\ IsFiniteSet(CacheThreads)
    /\ kFirstLength \in Nat \ {0} /\ CacheCapacity \in Nat /\ MmapLimit \in Nat
    /\ \A n \in TableNumbers : HashOf(n) \in Nat

VARIABLES
    length_,        \* the number of buckets
    list_,          \* the buckets: the handles chained in each
    elems_,
    lru_,           \* the handles of the cache, the oldest first
    usage_,
    handles,        \* the live handles: number, refs and kind of file
    allowed,        \* mmap slots left
    onDisk,         \* the table files that exist
    user            \* what each thread does with the cache

cacheVars == <<length_, list_, elems_, lru_, usage_, handles, allowed, onDisk, user>>

Away == [pc |-> "away", number |-> 0, handle |-> 0, kind |-> "none"]

CacheInit ==
    /\ length_ = kFirstLength /\ list_ = [b \in 0 .. kFirstLength - 1 |-> {}] /\ elems_ = 0
    /\ lru_ = <<>> /\ usage_ = 0 /\ handles = <<>>
    /\ allowed = MmapLimit /\ onDisk = TableNumbers
    /\ user = [t \in CacheThreads |-> Away]

(* The cache is a record c of its fields while its mutex is held. *)
Cached == [length |-> length_, list |-> list_, elems |-> elems_, lru |-> lru_, usage |-> usage_,
           handles |-> handles, allowed |-> allowed]
Store(c) ==
    /\ length_' = c.length /\ list_' = c.list /\ elems_' = c.elems /\ lru_' = c.lru /\ usage_' = c.usage
    /\ handles' = c.handles /\ allowed' = c.allowed

-----------------------------------------------------------------------------
(* The handle table.  A chain holds a key once, so that its order shows     *)
(* nowhere and a chain is a set.                                            *)

Bucket(c, number) == HashOf(number) % c.length

(* The handle *FindPointer(key) points to, 0 for the trailing NULL. *)
Find(c, number) ==
    LET at == {h \in c.list[Bucket(c, number)] : c.handles[h].number = number}
    IN  IF at = {} THEN 0 ELSE CHOOSE h \in at : TRUE

(* while (new_length < elems_) new_length *= 2 *)
NewLength(elems) ==
    LET Doubled[k \in 0 .. elems] == IF k = 0 THEN kFirstLength ELSE 2 * Doubled[k - 1]
    IN  Doubled[CHOOSE k \in 0 .. elems : Doubled[k] >= elems /\ \A j \in 0 .. k - 1 : Doubled[j] < elems]

Resize(c) ==
    LET length == NewLength(c.elems)
        all == UNION {c.list[b] : b \in DOMAIN c.list}
    IN  [c EXCEPT !.length = length,
                  !.list = [b \in 0 .. length - 1 |-> {h \in all : HashOf(c.handles[h].number) % length = b}]]

(* Insert(h), which replaces an entry of the same key where it stands, and  *)
(* Remove of the keys numbers.                                              *)
TableInsert(c, h) ==
    LET number == c.handles[h].number
        old == Find(c, number)
        put == [c EXCEPT !.list[Bucket(c, number)] = (@ \ {old}) \cup {h},
                         !.elems = IF old = 0 THEN @ + 1 ELSE @]
    IN  IF old = 0 /\ put.elems > c.length THEN Resize(put) ELSE put

TableRemove(c, numbers) ==
    LET found == {Find(c, n) : n \in numbers} \ {0}
    IN  [c EXCEPT !.list = [b \in DOMAIN c.list |-> c.list[b] \ found], !.elems = @ - Cardinality(found)]

-----------------------------------------------------------------------------
(* The list of the cache and its references. *)

LRU_Remove(lru, h) == RemoveAt(lru, CHOOSE i \in DOMAIN lru : lru[i] = h)
LRU_Append(lru, h) == Append(lru, h)

(* The destructor of the file: an mmap gives its slot back. *)
DeleteFile(slots, kind) == IF kind = "mmap" THEN slots + 1 ELSE slots

(* Unref of each handle of a set; a handle nobody refers to is closed. *)
Unref(c, hs) ==
    LET closed == {h \in hs : c.handles[h].refs <= 1}
    IN  [c EXCEPT !.usage = @ - Cardinality(closed),
                  !.handles = [h \in DOMAIN c.handles \ closed |->
                                  IF h \in hs THEN [c.handles[h] EXCEPT !.refs = @ - 1] ELSE c.handles[h]],
                  !.allowed = @ + Cardinality({h \in closed : c.handles[h].kind = "mmap"})]

(* The loop of Insert while (usage_ > capacity_ && lru_.next != &lru_),     *)
(* after n rounds and at its end.                                           *)
Evicted(c, n) ==
    LET old == {c.lru[i] : i \in 1 .. n}
        out == TableRemove(c, {c.handles[h].number : h \in old})
    IN  Unref([out EXCEPT !.lru = SubSeq(@, n + 1, Len(@))], old)

GoesOn(c) == c.usage > CacheCapacity /\ c.lru # <<>>
MakeRoom(c) ==
    Evicted(c, CHOOSE n \in 0 .. Len(c.lru) :
                  ~ GoesOn(Evicted(c, n)) /\ \A m \in 0 .. n - 1 : GoesOn(Evicted(c, m)))

(* One reference of the cache, one for the returned handle. *)
InsertedRefsOne == 1
InsertedRefs == 2

CacheInsert(c, h, number, kind) ==
    LET e == [number |-> number, refs |-> InsertedRefs, kind |-> kind]
        fresh == [c EXCEPT !.handles = [i \in DOMAIN c.handles \cup {h} |-> IF i = h THEN e ELSE c.handles[i]],
                           !.lru = LRU_Append(@, h), !.usage = @ + 1]
        old == Find(fresh, number)
        put == TableInsert(fresh, h)
    IN  MakeRoom(IF old = 0 THEN put ELSE Unref([put EXCEPT !.lru = LRU_Remove(@, old)], {old}))

CacheErase(c, number) ==
    LET h == Find(c, number)
        out == TableRemove(c, {number})
    IN  IF h = 0 THEN c ELSE Unref([out EXCEPT !.lru = LRU_Remove(@, h)], {h})

-----------------------------------------------------------------------------
(* The threads. *)

(* FindTable, as far as the lookup. *)
Lookup(t, number) ==
    /\ user[t] = Away /\ number \in onDisk
    /\ LET h == Find(Cached, number)
           hit == [Cached EXCEPT !.handles[h].refs = @ + 1, !.lru = LRU_Append(LRU_Remove(@, h), h)]
       IN  \/ /\ h # 0 /\ Store(hit)
              /\ user' = [user EXCEPT ![t] = [pc |-> "use", number |-> number, handle |-> h, kind |-> "none"]]
           \/ /\ h = 0 /\ UNCHANGED <<length_, list_, elems_, lru_, usage_, handles, allowed>>
              /\ user' = [user EXCEPT ![t] = [Away EXCEPT !.pc = "open", !.number = number]]
    /\ UNCHANGED onDisk

(* NewRandomAccessFile: mapped while a slot is left, read with pread if     *)
(* not; an open or a mapping that fails keeps no slot.                      *)
Acquire(slots) == IF slots > 0 THEN slots - 1 ELSE slots
NewRandomAccessFile(slots) == [kind |-> IF slots > 0 THEN "mmap" ELSE "fd", slots |-> Acquire(slots)]
OpenFile(t) ==
    /\ user[t].pc = "open"
    /\ \/ /\ allowed' = NewRandomAccessFile(allowed).slots
          /\ user' = [user EXCEPT ![t].pc = "read", ![t].kind = NewRandomAccessFile(allowed).kind]
       \/ user' = [user EXCEPT ![t] = Away] /\ UNCHANGED allowed
    /\ UNCHANGED <<length_, list_, elems_, lru_, usage_, handles, onDisk>>

(* Table::Open fails: the file is deleted and the error is not cached. *)
SlotsAfterErrorKept(slots, kind) == slots                 \* the file object leaks
SlotsAfterError(slots, kind) == DeleteFile(slots, kind)

OpenFails(t) ==
    /\ user[t].pc = "read"
    /\ allowed' = SlotsAfterError(allowed, user[t].kind)
    /\ user' = [user EXCEPT ![t] = Away]
    /\ UNCHANGED <<length_, list_, elems_, lru_, usage_, handles, onDisk>>

(* The malloc of a handle. *)
NewHandle(held) == CHOOSE h \in 1 .. Cardinality(held) + 1 : h \notin held

(* Table::Open succeeds and the table is inserted, another thread's table   *)
(* of the same file being replaced.                                         *)
Insert(t) ==
    /\ user[t].pc = "read"
    /\ LET h == NewHandle(DOMAIN handles)
       IN  /\ Store(CacheInsert(Cached, h, user[t].number, user[t].kind))
           /\ user' = [user EXCEPT ![t].pc = "use", ![t].handle = h, ![t].kind = "none"]
    /\ UNCHANGED onDisk

(* Get's own Release, or the cleanup of an iterator. *)
Release(t) ==
    /\ user[t].pc = "use"
    /\ Store(Unref(Cached, {user[t].handle}))
    /\ user' = [user EXCEPT ![t] = Away]
    /\ UNCHANGED onDisk

(* DeleteObsoleteFiles: the table is evicted, then its file removed.  A     *)
(* thread that opens a table reads a live version, whose files are kept;    *)
(* that it keeps the version for as long as it holds the table is not asked *)
(* here: an evicted table stays open for the iterators that hold it.        *)
BeingOpened(number) == \E t \in CacheThreads : user[t].pc \in {"open", "read"} /\ user[t].number = number

Evict(number) ==
    /\ number \in onDisk /\ ~BeingOpened(number)
    /\ Store(CacheErase(Cached, number))
    /\ onDisk' = onDisk \ {number}
    /\ UNCHANGED user

(* ~TableCache: the cache gives up its reference of every entry. *)
DeleteCache ==
    /\ \A t \in CacheThreads : user[t] = Away
    /\ lru_ # <<>>
    /\ Store([Unref(Cached, ToSet(lru_)) EXCEPT !.lru = <<>>, !.elems = 0, !.length = kFirstLength,
                                                !.list = [b \in 0 .. kFirstLength - 1 |-> {}]])
    /\ UNCHANGED <<onDisk, user>>

CacheNext ==
    \/ \E t \in CacheThreads, n \in TableNumbers : Lookup(t, n)
    \/ \E t \in CacheThreads : OpenFile(t)
    \/ \E t \in CacheThreads : OpenFails(t)
    \/ \E t \in CacheThreads : Insert(t)
    \/ \E t \in CacheThreads : Release(t)
    \/ \E n \in TableNumbers : Evict(n)
    \/ DeleteCache

CacheSpec == CacheInit /\ [][CacheNext]_cacheVars

-----------------------------------------------------------------------------
Users(h) == Cardinality({t \in CacheThreads : user[t].pc = "use" /\ user[t].handle = h})
Mapped == Cardinality({h \in DOMAIN handles : handles[h].kind = "mmap"})
    + Cardinality({t \in CacheThreads : user[t].kind = "mmap"})

(* A table is closed exactly when the last of the cache and its users let   *)
(* it go: the table a thread reads is open and is the one it asked for,     *)
(* whatever was evicted, replaced by a second opener or pushed out by the   *)
(* limit meanwhile; and nothing else stays open, so the charge, the cache's *)
(* entries and the mmap slots add up.                                       *)
TablesInUseAreOpen ==
    /\ \A t \in CacheThreads :
           user[t].pc = "use" => user[t].handle \in DOMAIN handles /\ handles[user[t].handle].number = user[t].number
    /\ \A h \in DOMAIN handles :
           handles[h].refs = Users(h) + (IF h \in ToSet(lru_) THEN 1 ELSE 0) /\ handles[h].refs > 0
    /\ usage_ = Cardinality(DOMAIN handles) /\ Len(lru_) <= CacheCapacity
    /\ allowed + Mapped = MmapLimit

(* The hash table and the LRU list hold the same entries, each where        *)
(* Lookup finds it, through every resize; and no entry is left of a file    *)
(* that was removed, whose table would be answered from for ever.           *)
EntriesAreFound ==
    /\ elems_ = Len(lru_)
    /\ \A h \in ToSet(lru_) :
           h \in DOMAIN handles /\ handles[h].number \in onDisk /\ Find(Cached, handles[h].number) = h

(* The table cache as a whole: its references and its entries.               *)
CacheSound == TablesInUseAreOpen /\ EntriesAreFound
=============================================================================
