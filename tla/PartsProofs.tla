---------------------------- MODULE PartsProofs ----------------------------
(***************************************************************************)
(* Proofs about the parts of LevelDB that are checked one by one: the      *)
(* arena, for every block size, alignment and sequence of requests; the    *)
(* skip list, for every set of keys and every height; the table cache, for *)
(* every number of threads and files, every hash, capacity and limit; and  *)
(* the environment and the repair of a database, for any number of         *)
(* processes and openers, any queue, any damaged directory and any number  *)
(* of crashes.                                                             *)
(***************************************************************************)
EXTENDS Arena, SkipList, TableCache, PosixEnv, Repair, NumberFacts, SequenceTheorems

-----------------------------------------------------------------------------
(***************************************************************************)
(* The arena.                                                              *)
(***************************************************************************)
Allocation == [block : Nat \ {0}, off : Nat, bytes : Nat \ {0}, aligned : BOOLEAN]

ArenaTyped ==
    /\ blocks_ \in Seq(Nat \ {0})
    /\ alloc_ptr_ \in [block : 0 .. Len(blocks_), off : Nat]
    /\ alloc_bytes_remaining_ \in Nat
    /\ allocations \in Seq(Allocation)

(* The free part of the current block is its end. *)
RestIsFree ==
    IF alloc_ptr_.block = 0 THEN alloc_bytes_remaining_ = 0
    ELSE alloc_ptr_.off + alloc_bytes_remaining_ = blocks_[alloc_ptr_.block]

(* Everything handed out is inside a block, and before the free part of it. *)
HandedOut(a) ==
    /\ a.block <= Len(blocks_)
    /\ a.off + a.bytes <= blocks_[a.block]
    /\ a.aligned => a.off % Align = 0
    /\ a.block = alloc_ptr_.block => a.off + a.bytes <= alloc_ptr_.off

Apart(a, b) == a.block = b.block => a.off >= b.off + b.bytes \/ b.off >= a.off + a.bytes

ArenaInv ==
    /\ ArenaTyped /\ RestIsFree
    /\ \A i \in 1 .. Len(allocations) : HandedOut(allocations[i])
    /\ \A i \in 1 .. Len(allocations) : \A j \in 1 .. i - 1 : Apart(allocations[i], allocations[j])

(* The slop brings an offset to the next multiple of the alignment. *)
LEMMA SlopAligns ==
  ASSUME NEW n \in Nat
  PROVE  LET slop == (Align - (n % Align)) % Align
         IN  slop \in Nat /\ (n + slop) % Align = 0
<1> USE ArenaAssumption
<1> DEFINE r == n % Align
           q == n \div Align
<1>1. r \in Nat /\ r < Align /\ q \in Nat /\ n = Align * q + r
  OBVIOUS
<1>2. CASE r = 0
  <2>1. (Align - r) % Align = 0
    BY <1>2
  <2> QED
    BY <2>1, <1>2
<1>3. CASE r > 0
  <2>1. (Align - r) % Align = Align - r
    BY <1>1, <1>3
  <2>2. n + (Align - r) = Align * (q + 1)
    BY <1>1
  <2>3. (Align * (q + 1)) % Align = 0
    BY <1>1
  <2> QED
    BY <2>1, <2>2, <2>3, <1>1
<1> QED
  BY <1>1, <1>2, <1>3

(* Handing out one more piece that is apart from the earlier ones. *)
LEMMA OneMore ==
  ASSUME ArenaInv, ArenaTyped', RestIsFree', NEW a \in Allocation, allocations' = Append(allocations, a),
         HandedOut(a)', \A b \in Allocation : HandedOut(b) => HandedOut(b)' /\ Apart(a, b)
  PROVE  ArenaInv'
<1>1. /\ allocations \in Seq(Allocation) /\ Len(allocations') = Len(allocations) + 1
      /\ \A i \in 1 .. Len(allocations) : allocations'[i] = allocations[i] /\ allocations[i] \in Allocation
      /\ allocations'[Len(allocations) + 1] = a
  BY DEF ArenaInv, ArenaTyped
<1>2. \A i \in 1 .. Len(allocations') : HandedOut(allocations[i])'
  <2> SUFFICES ASSUME NEW i \in 1 .. Len(allocations') PROVE HandedOut(allocations[i])'
    OBVIOUS
  <2> PICK b : b = allocations'[i]
    OBVIOUS
  <2>1. i \in 1 .. Len(allocations) \/ i = Len(allocations) + 1
    BY <1>1
  <2>2. HandedOut(b)'
    BY <1>1, <2>1 DEF ArenaInv
  <2> QED
    BY <2>2 DEF HandedOut
<1>3. \A i \in 1 .. Len(allocations') : \A j \in 1 .. i - 1 : Apart(allocations'[i], allocations'[j])
  <2> SUFFICES ASSUME NEW i \in 1 .. Len(allocations'), NEW j \in 1 .. i - 1
               PROVE  Apart(allocations'[i], allocations'[j])
    OBVIOUS
  <2>1. j \in 1 .. Len(allocations)
    BY <1>1
  <2>2. CASE i \in 1 .. Len(allocations)
    BY <2>1, <2>2, <1>1 DEF ArenaInv
  <2>3. CASE i = Len(allocations) + 1
    BY <2>1, <2>3, <1>1 DEF ArenaInv
  <2> QED
    BY <2>2, <2>3, <1>1
<1> QED
  BY <1>2, <1>3 DEF ArenaInv, Apart

(* Cutting from the current block, after a slop. *)
LEMMA CutFromBlock ==
  ASSUME ArenaInv, NEW bytes \in Nat \ {0}, NEW slop \in Nat, NEW aligned \in BOOLEAN,
         bytes + slop <= alloc_bytes_remaining_,
         aligned => (alloc_ptr_.off + slop) % Align = 0,
         Hand([alloc_ptr_ EXCEPT !.off = @ + slop], bytes, aligned), Advance(bytes + slop)
  PROVE  ArenaInv'
<1> PICK b0, o0 : b0 = alloc_ptr_.block /\ o0 = alloc_ptr_.off
  OBVIOUS
<1> DEFINE a == [block |-> b0, off |-> o0 + slop, bytes |-> bytes, aligned |-> aligned]
<1>1. /\ b0 \in 0 .. Len(blocks_) /\ o0 \in Nat /\ Len(blocks_) \in Nat
      /\ alloc_ptr_ = [block |-> b0, off |-> o0]
      /\ blocks_ \in Seq(Nat \ {0}) /\ alloc_bytes_remaining_ \in Nat
  BY DEF ArenaInv, ArenaTyped
<1>2. b0 # 0 /\ o0 + alloc_bytes_remaining_ = blocks_[b0] /\ blocks_[b0] \in Nat
  BY <1>1 DEF ArenaInv, RestIsFree
<1>3. a \in Allocation
  BY <1>1, <1>2 DEF Allocation
<1>4. /\ allocations' = Append(allocations, a) /\ blocks_' = blocks_
      /\ alloc_ptr_' = [block |-> b0, off |-> o0 + (bytes + slop)]
      /\ alloc_bytes_remaining_' = alloc_bytes_remaining_ - (bytes + slop)
  BY <1>1 DEF Hand, Advance
<1>5. ArenaTyped'
  BY <1>1, <1>3, <1>4 DEF ArenaInv, ArenaTyped
<1>6. RestIsFree'
  BY <1>1, <1>2, <1>4 DEF RestIsFree
<1>7. HandedOut(a)'
  BY <1>1, <1>2, <1>4 DEF HandedOut
<1>8. \A b \in Allocation : HandedOut(b) => HandedOut(b)' /\ Apart(a, b)
  BY <1>1, <1>4 DEF HandedOut, Apart, Allocation
<1> QED
  BY <1>3, <1>4, <1>5, <1>6, <1>7, <1>8, OneMore

(* A new block, of the request's own or the next to cut from. *)
LEMMA CutFromNewBlock ==
  ASSUME ArenaInv, NEW bytes \in Nat \ {0}, NEW aligned \in BOOLEAN, AllocateFallback(bytes, aligned)
  PROVE  ArenaInv'
<1> USE ArenaAssumption
<1> PICK n : n = Len(blocks_) + 1
  OBVIOUS
<1> DEFINE a == [block |-> n, off |-> 0, bytes |-> bytes, aligned |-> aligned]
<1>1. /\ alloc_ptr_ \in [block : 0 .. Len(blocks_), off : Nat] /\ Len(blocks_) \in Nat
      /\ blocks_ \in Seq(Nat \ {0}) /\ alloc_bytes_remaining_ \in Nat
  BY DEF ArenaInv, ArenaTyped
<1>2. a \in Allocation
  BY <1>1 DEF Allocation
<1>3. allocations' = Append(allocations, a)
  BY DEF AllocateFallback, Hand
<1>4. PICK size \in Nat \ {0} : blocks_' = Append(blocks_, size) /\ bytes <= size
                /\ (\/ size = bytes /\ UNCHANGED <<alloc_ptr_, alloc_bytes_remaining_>>
                    \/ /\ alloc_ptr_' = [block |-> n, off |-> bytes]
                       /\ alloc_bytes_remaining_' = size - bytes)
  <2>1. CASE bytes > kArenaBlock \div 4
    BY <2>1 DEF AllocateFallback
  <2>2. CASE bytes <= kArenaBlock \div 4
    BY <2>2 DEF AllocateFallback
  <2> QED
    BY <2>1, <2>2
<1>5. /\ blocks_' \in Seq(Nat \ {0}) /\ Len(blocks_') = n /\ blocks_'[n] = size
      /\ \A i \in 1 .. Len(blocks_) : blocks_'[i] = blocks_[i]
  BY <1>1, <1>4
<1>6. ArenaTyped'
  BY <1>1, <1>2, <1>3, <1>4, <1>5 DEF ArenaInv, ArenaTyped
<1>7. RestIsFree'
  BY <1>1, <1>4, <1>5 DEF ArenaInv, RestIsFree
<1>8. 0 % Align = 0
  OBVIOUS
<1>9. HandedOut(a)'
  BY <1>1, <1>4, <1>5, <1>8 DEF HandedOut
<1>10. \A b \in Allocation : HandedOut(b) => HandedOut(b)' /\ Apart(a, b)
  BY <1>1, <1>4, <1>5 DEF HandedOut, Apart, Allocation
<1> QED
  BY <1>2, <1>3, <1>6, <1>7, <1>9, <1>10, OneMore

(* Every request keeps the invariant. *)
LEMMA ArenaStep == ArenaInv /\ [ArenaNext]_arenaVars => ArenaInv'
<1> SUFFICES ASSUME ArenaInv, [ArenaNext]_arenaVars PROVE ArenaInv'
  OBVIOUS
<1> USE ArenaAssumption
<1>0. alloc_ptr_ \in [block : 0 .. Len(blocks_), off : Nat] /\ alloc_bytes_remaining_ \in Nat
  BY DEF ArenaInv, ArenaTyped
<1>1. ASSUME NEW bytes \in ArenaSizes, Allocate(bytes) PROVE ArenaInv'
  <2>1. CASE bytes <= alloc_bytes_remaining_ /\ Hand(alloc_ptr_, bytes, FALSE) /\ Advance(bytes)
    <3> PICK slop \in Nat : slop = 0
      OBVIOUS
    <3> PICK aligned \in BOOLEAN : ~ aligned
      OBVIOUS
    <3>1. [alloc_ptr_ EXCEPT !.off = @ + slop] = alloc_ptr_ /\ bytes + slop = bytes
      BY <1>0
    <3>2. Hand([alloc_ptr_ EXCEPT !.off = @ + slop], bytes, aligned) /\ Advance(bytes + slop)
      BY <2>1, <3>1 DEF Hand
    <3>3. bytes + slop <= alloc_bytes_remaining_
      BY <2>1, <3>1
    <3> QED
      BY <3>2, <3>3, CutFromBlock
  <2>2. CASE AllocateFallback(bytes, FALSE)
    BY <2>2, CutFromNewBlock
  <2> QED
    BY <1>1, <2>1, <2>2 DEF Allocate
<1>2. ASSUME NEW bytes \in ArenaSizes, AllocateAligned(bytes) PROVE ArenaInv'
  <2> DEFINE slop == (Align - (alloc_ptr_.off % Align)) % Align
  <2>1. slop \in Nat /\ (alloc_ptr_.off + slop) % Align = 0
    BY <1>0, SlopAligns
  <2>2. CASE /\ bytes + slop <= alloc_bytes_remaining_
             /\ Hand([alloc_ptr_ EXCEPT !.off = @ + slop], bytes, TRUE) /\ Advance(bytes + slop)
    <3> HIDE DEF slop
    <3> QED
      BY <2>1, <2>2, CutFromBlock
  <2>3. CASE AllocateFallback(bytes, TRUE)
    BY <2>3, CutFromNewBlock
  <2> QED
    BY <1>2, <2>2, <2>3 DEF AllocateAligned, Needed
<1>3. CASE UNCHANGED arenaVars
  BY <1>3 DEF arenaVars, ArenaInv, ArenaTyped, RestIsFree, HandedOut, Apart
<1> QED
  BY <1>1, <1>2, <1>3 DEF ArenaNext

(* Whatever is requested in whatever order, no two pieces of memory handed  *)
(* out overlap, each lies inside its block, and the aligned ones are        *)
(* aligned (Arena::Allocate, AllocateAligned, AllocateFallback).            *)
THEOREM ArenaAllocationsDisjoint == ArenaSpec => []AllocationsDisjoint
<1>1. ArenaInit => ArenaInv
  BY DEF ArenaInit, ArenaInv, ArenaTyped, RestIsFree
<1>2. ArenaInv => AllocationsDisjoint
  <2> SUFFICES ASSUME ArenaInv PROVE AllocationsDisjoint
    OBVIOUS
  <2>1. DOMAIN allocations = 1 .. Len(allocations)
    BY DEF ArenaInv, ArenaTyped
  <2> QED
    BY <2>1 DEF AllocationsDisjoint, ArenaInv, HandedOut, Apart
<1> QED
  BY <1>1, <1>2, ArenaStep, PTL DEF ArenaSpec

-----------------------------------------------------------------------------
(***************************************************************************)
(* The skip list.                                                          *)
(***************************************************************************)
(* Is node n in the list of level l?  The new node is not while only its    *)
(* own link at that level was stored.                                       *)
OnLevel(n, l) ==
    \/ n = head
    \/ /\ n \in SkipKeys /\ next[n][l] # Raw
       /\ ~ (inserting.pc = "publish" /\ inserting.key = n /\ inserting.level = l)

SkipTyped ==
    /\ next \in [SkipNodes -> [SkipLevels -> SkipKeys \cup {NULL, Raw}]]
    /\ max_height \in 1 .. kMaxHeight
    /\ inserted \in SUBSET SkipKeys
    /\ inserting \in [pc : {"none", "find", "found", "own", "publish"}, key : SkipNodes, height : 0 .. kMaxHeight,
                      x : SkipNodes, level : SkipLevels, prev : [SkipLevels -> SkipNodes \cup {Raw}]]
    /\ search \in [pc : {"none", "walk", "done"}, op : {"none", "Seek", "SeekToLast", "Prev", "Next"},
                   target : SkipNodes \cup {NULL}, x : SkipNodes, level : SkipLevels, node : SkipKeys \cup {NULL},
                   before : SUBSET SkipKeys]

(* The list of a level: a link leads to the next greater node of the level. *)
LinkIsSound(n, l) ==
    /\ n < next[n][l]
    /\ next[n][l] = NULL \/ (next[n][l] \in SkipKeys /\ OnLevel(next[n][l], l))
    /\ \A k \in SkipKeys : OnLevel(k, l) => k <= n \/ next[n][l] <= k
ListsAreSound == \A l \in SkipLevels : \A n \in SkipNodes : OnLevel(n, l) => LinkIsSound(n, l)

(* A node of a level is in all lists under it, and what was inserted is in  *)
(* the lowest.                                                              *)
LevelsAreNested ==
    /\ \A k \in SkipKeys : \A l \in SkipLevels :
           OnLevel(k, l) => l < max_height /\ \A j \in SkipLevels : j < l => OnLevel(k, j)
    /\ \A k \in inserted : OnLevel(k, 0)

(* Nothing was stored to a node that is not inserted, but to the new one.   *)
OthersAreRaw ==
    \A k \in SkipKeys \ inserted : \A l \in SkipLevels :
        next[k][l] # Raw =>
            /\ inserting.key = k
            /\ \/ inserting.pc = "own" /\ l < inserting.level
               \/ inserting.pc = "publish" /\ l <= inserting.level

(* prev[l] is where the key goes. *)
PrevIsSound(l) ==
    /\ inserting.prev[l] \in SkipNodes /\ OnLevel(inserting.prev[l], l)
    /\ inserting.prev[l] < inserting.key /\ inserting.key < next[inserting.prev[l]][l]
WriterIsSound ==
    /\ inserting.pc = "none" => inserting = Quiet
    /\ inserting.pc # "none" => inserting.key \in SkipKeys \ inserted
    /\ inserting.pc = "find" =>
           /\ inserting.level < max_height /\ inserting.x < inserting.key /\ OnLevel(inserting.x, inserting.level)
           /\ \A l \in SkipLevels : inserting.level < l /\ l < max_height => PrevIsSound(l)
    /\ inserting.pc = "found" => inserting.level = 0 /\ \A l \in SkipLevels : l < max_height => PrevIsSound(l)
    /\ inserting.pc \in {"own", "publish"} =>
           /\ inserting.level < inserting.height /\ inserting.height <= max_height
           /\ \A l \in SkipLevels : l < inserting.level => OnLevel(inserting.key, l)
           /\ \A l \in SkipLevels : inserting.level <= l /\ l < inserting.height => PrevIsSound(l)
    /\ inserting.pc = "publish" =>
           next[inserting.key][inserting.level] = next[inserting.prev[inserting.level]][inserting.level]

(* The reader is in the list of its level and before its target. *)
ReaderIsSound ==
    /\ search.before \subseteq inserted
    /\ search.node # NULL => OnLevel(search.node, 0)
    /\ search.pc = "walk" =>
           /\ search.x < search.target /\ OnLevel(search.x, search.level)
           /\ search.op \in {"Seek", "SeekToLast", "Prev"}

SkipInv ==
    /\ SkipTyped /\ ListsAreSound /\ LevelsAreNested /\ OthersAreRaw /\ WriterIsSound /\ ReaderIsSound
    /\ SearchesSeeInserts

(* The numbers of nodes and levels. *)
LEMMA SkipFacts ==
  /\ head = 0 /\ Raw = -1 /\ NULL \in Nat /\ 0 < NULL
  /\ \A k \in SkipKeys : k \in Nat /\ 0 < k /\ k < NULL
  /\ \A l \in SkipLevels : l \in Nat /\ l < kMaxHeight
  /\ \A l \in Nat : l < kMaxHeight => l \in SkipLevels
  /\ kMaxHeight \in Nat /\ 0 \in SkipLevels
<1>1. Bounded(SkipKeys)
  BY SkipListAssumption, FiniteIsBounded
<1>2. SkipKeys \subseteq Nat
  BY SkipListAssumption
<1>3. \E k \in SkipKeys : \A o \in SkipKeys : k >= o
  BY <1>1, <1>2, SkipListAssumption, GreatestNatural
<1>4. \E k \in SkipKeys : \A o \in SkipKeys : o <= k
  BY <1>2, <1>3
<1> DEFINE top == CHOOSE k \in SkipKeys : \A o \in SkipKeys : o <= k
<1>5. top \in SkipKeys /\ \A o \in SkipKeys : o <= top
  BY <1>4
<1>6. NULL = 1 + top
  BY DEF NULL
<1> HIDE DEF top
<1>7. NULL \in Nat /\ 0 < NULL /\ \A k \in SkipKeys : k \in Nat /\ 0 < k /\ k < NULL
  BY <1>2, <1>5, <1>6, SkipListAssumption
<1> QED
  BY <1>7, SkipListAssumption DEF head, Raw, SkipLevels

(* The writer leaves the reader where it is, as long as no node is taken    *)
(* off a level.                                                             *)
LEMMA ReaderIsKept ==
  ASSUME SkipInv, search' = search, inserted \subseteq inserted',
         \A n \in SkipNodes : \A l \in SkipLevels : OnLevel(n, l) => OnLevel(n, l)'
  PROVE  ReaderIsSound' /\ SearchesSeeInserts'
<1>1. SearchesSeeInserts'
  BY DEF SkipInv, SearchesSeeInserts
<1>2. search.x \in SkipNodes /\ search.level \in SkipLevels /\ search.node \in SkipKeys \cup {NULL}
  BY DEF SkipInv, SkipTyped
<1>3. 0 \in SkipLevels
  BY SkipFacts
<1> QED
  BY <1>1, <1>2, <1>3 DEF SkipInv, ReaderIsSound, SkipNodes

(* The reader leaves the lists and the writer where they are. *)
LEMMA ListsAreKept ==
  ASSUME SkipInv, UNCHANGED <<next, max_height, inserting, inserted>>
  PROVE  /\ ListsAreSound' /\ LevelsAreNested' /\ OthersAreRaw' /\ WriterIsSound'
         /\ \A n, l : OnLevel(n, l)' <=> OnLevel(n, l)
<1>1. \A n, l : OnLevel(n, l)' <=> OnLevel(n, l)
  BY DEF OnLevel
<1>2. \A n, l : LinkIsSound(n, l)' <=> LinkIsSound(n, l)
  BY <1>1 DEF LinkIsSound
<1>3. \A l : PrevIsSound(l)' <=> PrevIsSound(l)
  BY <1>1 DEF PrevIsSound
<1>4. ListsAreSound'
  BY <1>1, <1>2 DEF SkipInv, ListsAreSound
<1>5. LevelsAreNested' /\ OthersAreRaw'
  <2>1. LevelsAreNested'
    BY <1>1 DEF SkipInv, LevelsAreNested
  <2>2. OthersAreRaw'
    BY DEF SkipInv, OthersAreRaw
  <2> QED
    BY <2>1, <2>2
<1>6. WriterIsSound'
  BY <1>1, <1>3 DEF SkipInv, WriterIsSound
<1> QED
  BY <1>1, <1>4, <1>5, <1>6

(* A search starts. *)
LEMMA SearchFromStep ==
  ASSUME SkipInv, NEW op \in {"Seek", "SeekToLast", "Prev"}, NEW target \in SkipKeys \cup {NULL}, SearchFrom(op, target)
  PROVE  SkipInv'
<1>1. ListsAreSound' /\ LevelsAreNested' /\ OthersAreRaw' /\ WriterIsSound' /\ \A n, l : OnLevel(n, l)' <=> OnLevel(n, l)
  BY ListsAreKept DEF SearchFrom
<1>2. PICK height \in 1 .. max_height :
          search' = [pc |-> "walk", op |-> op, target |-> target, x |-> head, level |-> height - 1,
                     node |-> search.node, before |-> inserted]
  BY DEF SearchFrom
<1>3. height - 1 \in SkipLevels
  BY SkipFacts DEF SkipInv, SkipTyped
<1>4. SkipTyped'
  BY <1>2, <1>3 DEF SkipInv, SkipTyped, SearchFrom, SkipNodes
<1>5. ReaderIsSound'
  <2>1. OnLevel(head, height - 1) /\ (search.node # NULL => OnLevel(search.node, 0)) /\ head < target
    BY SkipFacts DEF SkipInv, ReaderIsSound, OnLevel
  <2>2. inserted' = inserted
    BY DEF SearchFrom
  <2> QED
    BY <1>1, <1>2, <2>1, <2>2 DEF ReaderIsSound
<1>6. SearchesSeeInserts'
  BY <1>2, SkipFacts DEF SkipInv, SkipTyped, SearchesSeeInserts
<1> QED
  BY <1>1, <1>4, <1>5, <1>6 DEF SkipInv

(* An iterator steps to the next node. *)
LEMMA StepToStep ==
  ASSUME SkipInv, NEW from \in SkipNodes, OnLevel(from, 0), StepTo("Next", from)
  PROVE  SkipInv'
<1>1. ListsAreSound' /\ LevelsAreNested' /\ OthersAreRaw' /\ WriterIsSound' /\ \A n, l : OnLevel(n, l)' <=> OnLevel(n, l)
  BY ListsAreKept DEF StepTo
<1>2. search' = [pc |-> "done", op |-> "Next", target |-> from, x |-> head, level |-> 0,
                 node |-> next[from][0], before |-> inserted]
  BY DEF StepTo
<1>3. LinkIsSound(from, 0)
  BY SkipFacts DEF SkipInv, ListsAreSound
<1>4. next[from][0] \in SkipKeys \cup {NULL} /\ (next[from][0] # NULL => OnLevel(next[from][0], 0))
  BY <1>3 DEF LinkIsSound
<1>5. SkipTyped'
  BY <1>2, <1>4, SkipFacts DEF SkipInv, SkipTyped, StepTo, SkipNodes
<1>6. ReaderIsSound'
  BY <1>1, <1>2, <1>4 DEF SkipInv, ReaderIsSound, StepTo
<1>7. \A k \in inserted : k \in SkipKeys /\ OnLevel(k, 0)
  BY DEF SkipInv, LevelsAreNested, SkipTyped
<1>8. \A k \in inserted : ~ (from < k /\ k < next[from][0])
  BY <1>3, <1>4, <1>7, SkipFacts DEF LinkIsSound, SkipNodes
<1>9. SearchesSeeInserts'
  BY <1>2, <1>4, <1>8, SkipFacts DEF SearchesSeeInserts
<1> QED
  BY <1>1, <1>5, <1>6, <1>9 DEF SkipInv

(* What the property asks of the end of a search, by the kind of search. *)
LEMMA EndOfSearch ==
  ASSUME search'.x # Raw, search'.node # Raw,
         search'.op \in {"Seek", "SeekToLast", "Prev"},
         search'.op = "Seek" => \A k \in search'.before : ~ (search'.target <= k /\ k < search'.node),
         search'.op # "Seek" => \A k \in search'.before :
             ~ ((IF search'.node = NULL THEN head ELSE search'.node) < k /\ k < search'.target)
  PROVE  SearchesSeeInserts'
<1>1. CASE search'.op = "Seek"
  BY <1>1 DEF SearchesSeeInserts
<1>2. CASE search'.op # "Seek"
  <2>1. search'.op # "Next" /\ search'.op \in {"Prev", "SeekToLast"}
    BY <1>2
  <2>2. CASE search'.node = NULL
    BY <1>2, <2>1, <2>2 DEF SearchesSeeInserts
  <2>3. CASE search'.node # NULL
    BY <1>2, <2>1, <2>3 DEF SearchesSeeInserts
  <2> QED
    BY <2>2, <2>3
<1> QED
  BY <1>1, <1>2

(* A search follows one link or goes one level down. *)
LEMMA SearchStepStep ==
  ASSUME SkipInv, SearchStep
  PROVE  SkipInv'
<1> DEFINE n == next[search.x][search.level]
<1>1. ListsAreSound' /\ LevelsAreNested' /\ OthersAreRaw' /\ WriterIsSound' /\ \A m, l : OnLevel(m, l)' <=> OnLevel(m, l)
  BY ListsAreKept DEF SearchStep
<1>2. /\ search.pc = "walk" /\ search.x \in SkipNodes /\ search.level \in SkipLevels
      /\ search.x < search.target /\ OnLevel(search.x, search.level)
      /\ search.op \in {"Seek", "SeekToLast", "Prev"}
      /\ search.target \in SkipNodes \cup {NULL}
  BY DEF SkipInv, SkipTyped, ReaderIsSound, SearchStep, Searching
<1>3. LinkIsSound(search.x, search.level)
  BY <1>2 DEF SkipInv, ListsAreSound
<1>4. n \in SkipKeys \cup {NULL} /\ (n # NULL => n \in SkipKeys /\ OnLevel(n, search.level)) /\ search.x < n
  BY <1>3 DEF LinkIsSound
<1>5. UNCHANGED <<next, max_height, inserting, inserted>>
  BY DEF SearchStep
<1>6. CASE KeyIsAfterNode(search.target, n)
  <2>1. n \in SkipKeys /\ n < search.target /\ OnLevel(n, search.level)
    BY <1>4, <1>6 DEF KeyIsAfterNode
  <2>2. search' = [search EXCEPT !.x = n]
    BY <1>6 DEF SearchStep
  <2>3. SkipTyped'
    BY <1>5, <2>1, <2>2 DEF SkipInv, SkipTyped, SkipNodes
  <2>4. ReaderIsSound'
    BY <1>1, <1>2, <1>5, <2>1, <2>2 DEF SkipInv, SkipTyped, ReaderIsSound
  <2>5. SearchesSeeInserts'
    BY <1>2, <2>1, <2>2, SkipFacts DEF SkipInv, SkipTyped, SearchesSeeInserts
  <2> QED
    BY <1>1, <2>3, <2>4, <2>5 DEF SkipInv
<1>7. CASE ~ KeyIsAfterNode(search.target, n) /\ search.level > 0
  <2>1. search' = [search EXCEPT !.level = @ - 1]
    BY <1>7 DEF SearchStep
  <2>2. search.level - 1 \in SkipLevels /\ search.level - 1 < search.level
    BY <1>2, <1>7, SkipFacts
  <2>3. OnLevel(search.x, search.level - 1)
    <3>1. CASE search.x = head
      BY <3>1 DEF OnLevel
    <3>2. CASE search.x # head
      <4>1. search.x \in SkipKeys
        BY <1>2, <3>2 DEF SkipNodes
      <4> QED
        BY <1>2, <2>2, <4>1 DEF SkipInv, LevelsAreNested
    <3> QED
      BY <3>1, <3>2
  <2>4. SkipTyped'
    BY <1>5, <2>1, <2>2 DEF SkipInv, SkipTyped
  <2>5. ReaderIsSound'
    BY <1>1, <1>2, <1>5, <2>1, <2>3 DEF SkipInv, SkipTyped, ReaderIsSound
  <2>6. SearchesSeeInserts'
    BY <1>2, <2>1, SkipFacts DEF SkipInv, SkipTyped, SearchesSeeInserts
  <2> QED
    BY <1>1, <2>4, <2>5, <2>6 DEF SkipInv
<1>8. CASE ~ KeyIsAfterNode(search.target, n) /\ ~ search.level > 0
  <2> DEFINE found == IF search.op = "Seek" THEN n ELSE IF search.x = head THEN NULL ELSE search.x
  <2>1. search' = [search EXCEPT !.pc = "done", !.node = found]
    BY <1>8 DEF SearchStep
  <2>2. search.level = 0
    BY <1>2, <1>8, SkipFacts
  <2>3. found \in SkipKeys \cup {NULL} /\ (found # NULL => OnLevel(found, 0))
    BY <1>2, <1>4, <2>2 DEF SkipNodes
  <2>4. SkipTyped'
    BY <1>5, <2>1, <2>3 DEF SkipInv, SkipTyped
  <2>5. ReaderIsSound'
    BY <1>1, <1>5, <2>1, <2>3 DEF SkipInv, SkipTyped, ReaderIsSound
  <2>6. search.target <= n
    BY <1>2, <1>4, <1>8, SkipFacts DEF KeyIsAfterNode, SkipNodes
  <2>7. \A k \in search.before : k \in SkipKeys /\ (k <= search.x \/ n <= k)
    <3>1. \A k \in search.before : k \in SkipKeys /\ OnLevel(k, 0)
      BY DEF SkipInv, LevelsAreNested, SkipTyped, ReaderIsSound
    <3> QED
      BY <1>3, <2>2, <3>1 DEF LinkIsSound
  <2>8. \A k \in search.before : ~ (search.target <= k /\ k < n) /\ ~ (search.x < k /\ k < search.target)
    BY <1>2, <1>4, <2>6, <2>7, SkipFacts DEF SkipNodes
  <2>9. /\ search'.pc = "done" /\ search'.op = search.op /\ search'.target = search.target
        /\ search'.x = search.x /\ search'.node = found /\ search'.before = search.before
    BY <2>1 DEF SkipInv, SkipTyped
  <2>10. search.x # Raw /\ found # Raw
    BY <1>2, <2>3, SkipFacts DEF SkipNodes
  <2>11. SearchesSeeInserts'
    <3>1. CASE search.op = "Seek"
      <4>1. search'.node = n /\ search'.op = "Seek"
        BY <2>9, <3>1
      <4> HIDE DEF n, found
      <4> QED
        BY <2>8, <2>9, <2>10, <4>1, EndOfSearch
    <3>2. CASE search.op # "Seek"
      <4>1. search.x = (IF found = NULL THEN head ELSE found)
        BY <1>2, <3>2, SkipFacts DEF SkipNodes
      <4>2. search'.op \in {"SeekToLast", "Prev"}
        BY <1>2, <2>9, <3>2
      <4> HIDE DEF n, found
      <4> QED
        BY <2>8, <2>9, <2>10, <4>1, <4>2, EndOfSearch
    <3> QED
      BY <3>1, <3>2
  <2> QED
    BY <1>1, <2>4, <2>5, <2>11 DEF SkipInv
<1> QED
  BY <1>6, <1>7, <1>8

(* While the writer only looks for the place of its key, or begins, the     *)
(* lists stay as they are.                                                  *)
LEMMA LooksOnly ==
  ASSUME SkipInv, UNCHANGED <<next, inserted, search>>, max_height <= max_height', max_height' \in 1 .. kMaxHeight,
         inserting.pc \notin {"own", "publish"}, inserting'.pc # "publish"
  PROVE  /\ ListsAreSound' /\ LevelsAreNested' /\ OthersAreRaw' /\ ReaderIsSound' /\ SearchesSeeInserts'
         /\ \A n, l : OnLevel(n, l)' <=> OnLevel(n, l)
<1>1. \A n, l : OnLevel(n, l)' <=> OnLevel(n, l)
  BY DEF OnLevel
<1>2. \A n, l : LinkIsSound(n, l)' <=> LinkIsSound(n, l)
  BY <1>1 DEF LinkIsSound
<1>3. ListsAreSound'
  BY <1>1, <1>2 DEF SkipInv, ListsAreSound
<1>4. max_height \in Nat /\ max_height' \in Nat
  BY DEF SkipInv, SkipTyped
<1>5. LevelsAreNested'
  BY <1>1, <1>4, SkipFacts DEF SkipInv, LevelsAreNested
<1>6. OthersAreRaw'
  BY DEF SkipInv, OthersAreRaw
<1>7. ReaderIsSound' /\ SearchesSeeInserts'
  BY <1>1, ReaderIsKept
<1> QED
  BY <1>1, <1>3, <1>5, <1>6, <1>7

(* An insert starts. *)
LEMMA InsertStartStep ==
  ASSUME SkipInv, NEW key \in SkipKeys, InsertStart(key)
  PROVE  SkipInv'
<1>1. inserting = Quiet /\ key \notin inserted /\ UNCHANGED <<next, max_height, inserted, search>>
      /\ inserting' = [Quiet EXCEPT !.pc = "find", !.key = key, !.level = max_height - 1]
  BY DEF InsertStart
<1>2. max_height - 1 \in SkipLevels /\ max_height \in 1 .. kMaxHeight
  BY SkipFacts DEF SkipInv, SkipTyped
<1>3. inserting' = [pc |-> "find", key |-> key, height |-> 0, x |-> head, level |-> max_height - 1,
                    prev |-> [l \in SkipLevels |-> Raw]]
  BY <1>1 DEF Quiet
<1>4. SkipTyped'
  BY <1>1, <1>2, <1>3, SkipFacts DEF SkipInv, SkipTyped, SkipNodes
<1>5. /\ ListsAreSound' /\ LevelsAreNested' /\ OthersAreRaw' /\ ReaderIsSound' /\ SearchesSeeInserts'
      /\ \A n, l : OnLevel(n, l)' <=> OnLevel(n, l)
  BY <1>1, <1>2, <1>3, LooksOnly DEF Quiet
<1>6. WriterIsSound'
  <2>1. \A l : OnLevel(head, l)'
    BY DEF OnLevel
  <2>2. \A l \in SkipLevels : ~ (max_height - 1 < l /\ l < max_height)
    BY <1>2, SkipFacts
  <2>3. max_height - 1 < max_height /\ head < key
    BY <1>2, SkipFacts
  <2>4. inserting'.pc = "find" /\ inserting'.key = key /\ inserting'.x = head /\ inserting'.level = max_height - 1
    BY <1>3
  <2>5. inserting'.key \in SkipKeys \ inserted' /\ max_height' = max_height
    BY <1>1, <2>4
  <2> QED
    BY <2>1, <2>2, <2>3, <2>4, <2>5 DEF WriterIsSound
<1> QED
  BY <1>4, <1>5, <1>6 DEF SkipInv

(* The writer walks one link. *)
LEMMA FindStep ==
  ASSUME SkipInv, FindGreaterOrEqual
  PROVE  SkipInv'
<1> DEFINE n == next[inserting.x][inserting.level]
<1>1. /\ inserting.pc = "find" /\ UNCHANGED <<next, max_height, inserted, search>>
      /\ inserting' = IF KeyIsAfterNode(inserting.key, n) THEN [inserting EXCEPT !.x = n]
                      ELSE IF inserting.level > 0
                      THEN [inserting EXCEPT !.prev[inserting.level] = inserting.x, !.level = @ - 1]
                      ELSE [inserting EXCEPT !.prev[0] = inserting.x, !.pc = "found"]
  BY DEF FindGreaterOrEqual
<1>2. /\ inserting.level \in SkipLevels /\ inserting.level < max_height /\ inserting.x \in SkipNodes
      /\ inserting.x < inserting.key /\ OnLevel(inserting.x, inserting.level)
      /\ inserting.key \in SkipKeys /\ inserting.key \notin inserted
      /\ inserting.prev \in [SkipLevels -> SkipNodes \cup {Raw}]
      /\ \A l \in SkipLevels : inserting.level < l /\ l < max_height => PrevIsSound(l)
      /\ max_height \in 1 .. kMaxHeight
  BY <1>1 DEF SkipInv, SkipTyped, WriterIsSound
<1>3. LinkIsSound(inserting.x, inserting.level)
  BY <1>2 DEF SkipInv, ListsAreSound
<1>4. n \in SkipKeys \cup {NULL} /\ (n # NULL => n \in SkipKeys /\ OnLevel(n, inserting.level)) /\ inserting.x < n
  BY <1>3 DEF LinkIsSound
<1>5. inserting'.pc # "publish"
  BY <1>1 DEF SkipInv, SkipTyped
<1>6. /\ ListsAreSound' /\ LevelsAreNested' /\ OthersAreRaw' /\ ReaderIsSound' /\ SearchesSeeInserts'
      /\ \A m, l : OnLevel(m, l)' <=> OnLevel(m, l)
  BY <1>1, <1>2, <1>5, LooksOnly
<1>7. next[inserting.key][inserting.level] = Raw /\ n # inserting.key
  BY <1>1, <1>2, <1>4, SkipFacts DEF SkipInv, OthersAreRaw, OnLevel
<1>8. ~ KeyIsAfterNode(inserting.key, n) => inserting.key < n
  BY <1>2, <1>4, <1>7, SkipFacts DEF KeyIsAfterNode
<1>9. CASE KeyIsAfterNode(inserting.key, n)
  <2>1. n \in SkipKeys /\ n < inserting.key /\ OnLevel(n, inserting.level)
    BY <1>4, <1>9 DEF KeyIsAfterNode
  <2>2. inserting' = [inserting EXCEPT !.x = n]
    BY <1>1, <1>9
  <2> HIDE DEF n
  <2>3. SkipTyped'
    BY <1>1, <2>1, <2>2 DEF SkipInv, SkipTyped, SkipNodes
  <2>4. \A l : PrevIsSound(l)' <=> PrevIsSound(l)
    BY <1>1, <1>6, <2>2 DEF SkipInv, SkipTyped, PrevIsSound
  <2>5. /\ inserting'.pc = "find" /\ inserting'.key = inserting.key /\ inserting'.level = inserting.level
        /\ inserting'.x = n /\ inserting'.prev = inserting.prev
    BY <1>1, <2>2 DEF SkipInv, SkipTyped
  <2>6. WriterIsSound'
    BY <1>1, <1>2, <1>6, <2>1, <2>4, <2>5 DEF WriterIsSound
  <2> QED
    BY <1>6, <2>3, <2>6 DEF SkipInv
<1>10. CASE ~ KeyIsAfterNode(inserting.key, n)
  <2>11. PICK i \in SkipLevels : i = inserting.level
    BY <1>2
  <2> DEFINE prev == [inserting.prev EXCEPT ![i] = inserting.x]
  <2>1. inserting' = IF i > 0 THEN [inserting EXCEPT !.prev = prev, !.level = i - 1]
                     ELSE [inserting EXCEPT !.prev = prev, !.pc = "found"]
    <3>1. CASE i > 0
      BY <1>1, <1>10, <2>11, <3>1 DEF SkipInv, SkipTyped
    <3>2. CASE ~ i > 0
      <4>1. i = 0
        BY <3>2, SkipFacts
      <4> QED
        BY <1>1, <1>10, <2>11, <3>2, <4>1 DEF SkipInv, SkipTyped
    <3> QED
      BY <3>1, <3>2
  <2>2. prev \in [SkipLevels -> SkipNodes \cup {Raw}] /\ prev[i] = inserting.x
        /\ \A l \in SkipLevels : l # i => prev[l] = inserting.prev[l]
    BY <1>2
  <2>3. i \in SkipLevels /\ i \in Nat /\ (i > 0 => i - 1 \in SkipLevels) /\ (~ i > 0 => i = 0)
    BY SkipFacts
  <2> HIDE DEF n, prev
  <2>4. /\ inserting'.key = inserting.key /\ inserting'.prev = prev
        /\ i > 0 => inserting'.pc = "find" /\ inserting'.level = i - 1 /\ inserting'.x = inserting.x
        /\ ~ i > 0 => inserting'.pc = "found" /\ inserting'.level = 0
    BY <1>1, <2>1, <2>3, <2>11 DEF SkipInv, SkipTyped
  <2>5. SkipTyped'
    BY <1>1, <2>1, <2>2, <2>3 DEF SkipInv, SkipTyped
  <2>6. PrevIsSound(i)'
    BY <1>1, <1>2, <1>6, <1>8, <1>10, <2>2, <2>4, <2>11 DEF PrevIsSound, n
  <2>7. \A l \in SkipLevels : l # i /\ PrevIsSound(l) => PrevIsSound(l)'
    BY <1>1, <1>6, <2>2, <2>4 DEF PrevIsSound
  <2>8. \A l \in SkipLevels : i <= l /\ l < max_height => PrevIsSound(l)'
    BY <1>2, <2>3, <2>6, <2>7, <2>11, SkipFacts
  <2>9. CASE i > 0
    <3>1. OnLevel(inserting.x, i - 1)
      <4>1. CASE inserting.x = head
        BY <4>1 DEF OnLevel
      <4>2. CASE inserting.x # head
        BY <1>2, <2>3, <2>9, <2>11, <4>2, SkipFacts DEF SkipInv, LevelsAreNested, SkipNodes
      <4> QED
        BY <4>1, <4>2
    <3>2. \A l \in SkipLevels : i - 1 < l /\ l < max_height => PrevIsSound(l)'
      BY <2>3, <2>8, SkipFacts
    <3>3. i - 1 < max_height
      BY <1>2, <2>3, <2>11
    <3>4. WriterIsSound'
      BY <1>1, <1>2, <1>6, <2>4, <2>9, <3>1, <3>2, <3>3 DEF WriterIsSound
    <3> QED
      BY <1>6, <2>5, <3>4 DEF SkipInv
  <2>10. CASE ~ i > 0
    <3>1. \A l \in SkipLevels : l < max_height => PrevIsSound(l)'
      BY <2>3, <2>8, <2>10, SkipFacts
    <3>2. WriterIsSound'
      BY <1>1, <1>2, <2>4, <2>10, <3>1 DEF WriterIsSound
    <3> QED
      BY <1>6, <2>5, <3>2 DEF SkipInv
  <2> QED
    BY <2>9, <2>10
<1> QED
  BY <1>9, <1>10

(* The list becomes higher. *)
LEMMA RaiseHeightStep ==
  ASSUME SkipInv, NEW height \in 1 .. kMaxHeight, RaiseHeight(height)
  PROVE  SkipInv'
<1> DEFINE prev == [l \in SkipLevels |-> IF max_height <= l /\ l < height THEN head ELSE inserting.prev[l]]
<1>1. /\ inserting.pc = "found" /\ UNCHANGED <<next, inserted, search>>
      /\ max_height' = IF height > max_height THEN height ELSE max_height
      /\ inserting' = [inserting EXCEPT !.pc = "own", !.height = height, !.prev = prev]
  BY DEF RaiseHeight
<1>2. /\ inserting.key \in SkipKeys \ inserted /\ inserting.level = 0
      /\ inserting.prev \in [SkipLevels -> SkipNodes \cup {Raw}]
      /\ \A l \in SkipLevels : l < max_height => PrevIsSound(l)
      /\ max_height \in 1 .. kMaxHeight
  BY <1>1 DEF SkipInv, SkipTyped, WriterIsSound
<1>3. /\ max_height' \in 1 .. kMaxHeight /\ max_height <= max_height' /\ height <= max_height'
      /\ height \in Nat /\ 0 < height
  BY <1>1, <1>2, SkipFacts
<1>4. prev \in [SkipLevels -> SkipNodes \cup {Raw}]
  BY <1>2 DEF SkipNodes
<1>5. /\ inserting'.pc = "own" /\ inserting'.key = inserting.key /\ inserting'.level = 0
      /\ inserting'.height = height /\ inserting'.prev = prev
  BY <1>1, <1>2 DEF SkipInv, SkipTyped
<1>6. SkipTyped'
  <2>1. height \in 0 .. kMaxHeight
    BY <1>3
  <2> HIDE DEF prev
  <2> QED
    BY <1>1, <1>3, <1>4, <2>1 DEF SkipInv, SkipTyped
<1>7. /\ ListsAreSound' /\ LevelsAreNested' /\ OthersAreRaw' /\ ReaderIsSound' /\ SearchesSeeInserts'
      /\ \A n, l : OnLevel(n, l)' <=> OnLevel(n, l)
  BY <1>1, <1>3, <1>5, LooksOnly
<1>8. ASSUME NEW l \in SkipLevels, l < height PROVE PrevIsSound(l)'
  <2>1. CASE l < max_height
    <3>1. prev[l] = inserting.prev[l]
      BY <1>2, <2>1, SkipFacts
    <3> QED
      BY <1>1, <1>2, <1>5, <1>7, <2>1, <3>1 DEF PrevIsSound
  <2>2. CASE ~ l < max_height
    <3>1. prev[l] = head /\ head \in SkipNodes /\ head < inserting.key
      BY <1>2, <1>8, <2>2, SkipFacts DEF SkipNodes
    <3>2. OnLevel(head, l) /\ LinkIsSound(head, l)
      BY DEF OnLevel, SkipInv, ListsAreSound, SkipNodes
    <3>3. next[head][l] = NULL
      BY <2>2, <3>2 DEF LinkIsSound, SkipInv, LevelsAreNested
    <3>4. inserting.key < next[head][l]
      BY <1>2, <3>3, SkipFacts
    <3> QED
      BY <1>1, <1>5, <1>7, <3>1, <3>2, <3>4 DEF PrevIsSound
  <2> QED
    BY <2>1, <2>2
<1>9. \A l \in SkipLevels : ~ l < 0
  BY SkipFacts
<1>10. WriterIsSound'
  <2>1. inserting'.key \in SkipKeys \ inserted'
    BY <1>1, <1>2, <1>5
  <2> HIDE DEF prev
  <2> QED
    BY <1>3, <1>5, <1>8, <1>9, <2>1 DEF WriterIsSound
<1> QED
  BY <1>6, <1>7, <1>10 DEF SkipInv

(* The new node's own link: nobody sees it yet. *)
LEMMA OwnLinkStep ==
  ASSUME SkipInv, InsertOwnLink
  PROVE  SkipInv'
<1>1. /\ inserting.pc = "own" /\ UNCHANGED <<max_height, inserted, search>>
      /\ inserting' = [inserting EXCEPT !.pc = "publish"]
  BY DEF InsertOwnLink
<1>2. /\ inserting.key \in SkipKeys \ inserted /\ inserting.level \in SkipLevels
      /\ inserting.level < inserting.height /\ inserting.height <= max_height
      /\ inserting.prev \in [SkipLevels -> SkipNodes \cup {Raw}]
      /\ inserting.height \in 0 .. kMaxHeight
      /\ \A l \in SkipLevels : l < inserting.level => OnLevel(inserting.key, l)
      /\ \A l \in SkipLevels : inserting.level <= l /\ l < inserting.height => PrevIsSound(l)
      /\ next \in [SkipNodes -> [SkipLevels -> SkipKeys \cup {NULL, Raw}]]
  BY <1>1 DEF SkipInv, SkipTyped, WriterIsSound
<1>3. PICK i \in SkipLevels, k \in SkipKeys, p \in SkipNodes :
          i = inserting.level /\ k = inserting.key /\ p = inserting.prev[i]
  BY <1>2, SkipFacts DEF PrevIsSound
<1>4. PrevIsSound(i) /\ OnLevel(p, i) /\ p < k /\ k < next[p][i]
  BY <1>2, <1>3, SkipFacts DEF PrevIsSound
<1>5. next' = [next EXCEPT ![k][i] = next[p][i]]
  BY <1>3 DEF InsertOwnLink, LinkLevel
<1>6. /\ inserting'.pc = "publish" /\ inserting'.key = k /\ inserting'.level = i
      /\ inserting'.height = inserting.height /\ inserting'.prev = inserting.prev
  BY <1>1, <1>3 DEF SkipInv, SkipTyped
<1>7. k \in SkipNodes /\ next'[k][i] = next[p][i]
      /\ \A n \in SkipNodes : \A l \in SkipLevels : n # k \/ l # i => next'[n][l] = next[n][l]
  BY <1>2, <1>5 DEF SkipNodes
<1>8. next[k][i] = Raw /\ ~ OnLevel(k, i)
  BY <1>1, <1>2, <1>3, SkipFacts DEF SkipInv, OthersAreRaw, OnLevel
<1>9. \A n \in SkipNodes : \A l \in SkipLevels : OnLevel(n, l)' <=> OnLevel(n, l)
  BY <1>1, <1>3, <1>6, <1>7, <1>8, SkipFacts DEF OnLevel, SkipNodes
<1>10. LinkIsSound(p, i)
  BY <1>4 DEF SkipInv, ListsAreSound
<1>11. next' \in [SkipNodes -> [SkipLevels -> SkipKeys \cup {NULL, Raw}]]
  BY <1>2, <1>5, <1>10 DEF LinkIsSound
<1>12. SkipTyped'
  BY <1>1, <1>11 DEF SkipInv, SkipTyped
<1>13. ListsAreSound'
  <2> SUFFICES ASSUME NEW l \in SkipLevels, NEW n \in SkipNodes, OnLevel(n, l) PROVE LinkIsSound(n, l)'
    BY <1>9 DEF ListsAreSound
  <2>1. next'[n][l] = next[n][l]
    BY <1>7, <1>8
  <2>2. LinkIsSound(n, l)
    BY DEF SkipInv, ListsAreSound
  <2> QED
    BY <1>9, <2>1, <2>2 DEF LinkIsSound, SkipNodes
<1>14. LevelsAreNested'
  BY <1>1, <1>9, SkipFacts DEF SkipInv, SkipTyped, LevelsAreNested, SkipNodes
<1>15. OthersAreRaw'
  BY <1>1, <1>3, <1>6, <1>7, SkipFacts DEF SkipInv, OthersAreRaw, SkipNodes
<1>16. ReaderIsSound' /\ SearchesSeeInserts'
  BY <1>1, <1>9, ReaderIsKept
<1>17. \A l \in SkipLevels : i <= l /\ l < inserting.height => PrevIsSound(l)'
  <2> SUFFICES ASSUME NEW l \in SkipLevels, PrevIsSound(l) PROVE PrevIsSound(l)'
    BY <1>2, <1>3
  <2>1. inserting.prev[l] \in SkipNodes /\ inserting.prev[l] # k
    BY <1>3, SkipFacts DEF PrevIsSound, SkipNodes
  <2> QED
    BY <1>3, <1>6, <1>7, <1>9, <2>1 DEF PrevIsSound
<1>18. WriterIsSound'
  <2>1. inserting'.key \in SkipKeys \ inserted'
    BY <1>1, <1>2, <1>3, <1>6
  <2>2. \A l \in SkipLevels : l < i => OnLevel(k, l)'
    BY <1>2, <1>3, <1>9 DEF SkipNodes
  <2>3. p # k
    BY <1>4, SkipFacts DEF SkipNodes
  <2>4. next'[k][i] = next'[p][i]
    BY <1>7, <2>3
  <2> QED
    BY <1>1, <1>2, <1>3, <1>6, <1>17, <2>1, <2>2, <2>4 DEF WriterIsSound
<1> QED
  BY <1>12, <1>13, <1>14, <1>15, <1>16, <1>18 DEF SkipInv

(* The link of prev[i]: the new node enters the list of the level, between  *)
(* two neighbours.                                                          *)
LEMMA PublishStep ==
  ASSUME SkipInv, InsertPublish
  PROVE  SkipInv'
<1> DEFINE last == inserting.level + 1 = inserting.height
<1>1. /\ inserting.pc = "publish" /\ UNCHANGED <<max_height, search>>
      /\ inserted' = IF last THEN inserted \cup {inserting.key} ELSE inserted
      /\ inserting' = IF last THEN Quiet ELSE [inserting EXCEPT !.pc = "own", !.level = @ + 1]
  BY DEF InsertPublish
<1>2. /\ inserting.key \in SkipKeys \ inserted /\ inserting.level \in SkipLevels
      /\ inserting.level < inserting.height /\ inserting.height <= max_height
      /\ inserting.prev \in [SkipLevels -> SkipNodes \cup {Raw}]
      /\ inserting.height \in 0 .. kMaxHeight
      /\ \A l \in SkipLevels : l < inserting.level => OnLevel(inserting.key, l)
      /\ \A l \in SkipLevels : inserting.level <= l /\ l < inserting.height => PrevIsSound(l)
      /\ next \in [SkipNodes -> [SkipLevels -> SkipKeys \cup {NULL, Raw}]]
      /\ next[inserting.key][inserting.level] = next[inserting.prev[inserting.level]][inserting.level]
  BY <1>1 DEF SkipInv, SkipTyped, WriterIsSound
<1>3. PICK i \in SkipLevels, k \in SkipKeys, p \in SkipNodes :
          i = inserting.level /\ k = inserting.key /\ p = inserting.prev[i]
  BY <1>2, SkipFacts DEF PrevIsSound
<1>4. PrevIsSound(i) /\ OnLevel(p, i) /\ p < k /\ k < next[p][i] /\ next[k][i] = next[p][i]
  BY <1>2, <1>3, SkipFacts DEF PrevIsSound
<1>5. next' = [next EXCEPT ![p][i] = k]
  BY <1>3 DEF InsertPublish, LinkLevel
<1>6. k \in SkipNodes /\ next'[p][i] = k /\ p # k
      /\ \A n \in SkipNodes : \A l \in SkipLevels : n # p \/ l # i => next'[n][l] = next[n][l]
  BY <1>2, <1>4, <1>5, SkipFacts DEF SkipNodes
<1>7. LinkIsSound(p, i)
  BY <1>4 DEF SkipInv, ListsAreSound
<1>8. inserting'.pc # "publish" /\ inserting.pc = "publish"
  BY <1>1 DEF Quiet, SkipInv, SkipTyped
<1>9. \A n \in SkipNodes : \A l \in SkipLevels : OnLevel(n, l)' <=> OnLevel(n, l) \/ (n = k /\ l = i)
  <2> SUFFICES ASSUME NEW n \in SkipNodes, NEW l \in SkipLevels
               PROVE  OnLevel(n, l)' <=> OnLevel(n, l) \/ (n = k /\ l = i)
    OBVIOUS
  <2>1. next'[n][l] # Raw <=> next[n][l] # Raw
    BY <1>4, <1>6, <1>7, SkipFacts DEF LinkIsSound, SkipNodes, OnLevel
  <2>2. next[k][i] # Raw
    BY <1>4, <1>7, SkipFacts DEF LinkIsSound
  <2>3. OnLevel(n, l)' <=> n = head \/ (n \in SkipKeys /\ next'[n][l] # Raw)
    BY <1>8 DEF OnLevel
  <2>4. OnLevel(n, l) <=> n = head \/ (n \in SkipKeys /\ next[n][l] # Raw /\ ~ (n = k /\ l = i))
    BY <1>3, <1>8 DEF OnLevel
  <2> QED
    BY <2>1, <2>2, <2>3, <2>4
<1>10. next' \in [SkipNodes -> [SkipLevels -> SkipKeys \cup {NULL, Raw}]]
  BY <1>2, <1>5
<1>11. i + 1 < inserting.height \/ last
  BY <1>2, <1>3, SkipFacts
<1>12. ~ last => i + 1 \in SkipLevels /\ i + 1 < inserting.height
  BY <1>2, <1>11, SkipFacts
<1>13. inserted' \in SUBSET SkipKeys /\ inserted \subseteq inserted' /\ inserted' \subseteq inserted \cup {k}
       /\ (k \in inserted' => last) /\ (~ last => inserted' = inserted)
  BY <1>1, <1>2, <1>3 DEF SkipInv, SkipTyped
<1>14. SkipTyped'
  <2>1. CASE last
    <3>1. inserting' = Quiet
      BY <1>1, <2>1
    <3>2. Quiet \in [pc : {"none", "find", "found", "own", "publish"}, key : SkipNodes, height : 0 .. kMaxHeight,
                     x : SkipNodes, level : SkipLevels, prev : [SkipLevels -> SkipNodes \cup {Raw}]]
      BY SkipFacts DEF Quiet, SkipNodes
    <3> QED
      BY <1>1, <1>10, <1>13, <3>1, <3>2 DEF SkipInv, SkipTyped
  <2>2. CASE ~ last
    BY <1>1, <1>3, <1>10, <1>12, <1>13, <2>2 DEF SkipInv, SkipTyped
  <2> QED
    BY <2>1, <2>2
<1>15. ListsAreSound'
  <2> SUFFICES ASSUME NEW l \in SkipLevels, NEW n \in SkipNodes, OnLevel(n, l)' PROVE LinkIsSound(n, l)'
    BY DEF ListsAreSound
  <2>1. \A q \in SkipKeys : OnLevel(q, i) => q <= p \/ next[p][i] <= q
    BY <1>7 DEF LinkIsSound
  <2>2. next[p][i] = NULL \/ (next[p][i] \in SkipKeys /\ OnLevel(next[p][i], i))
    BY <1>7 DEF LinkIsSound
  <2>3. CASE n = k /\ l = i
    <3>1. next'[n][l] = next[p][i]
      BY <1>4, <1>6, <2>3
    <3>2. \A q \in SkipKeys : OnLevel(q, i)' => q <= k \/ next[p][i] <= q
      <4> SUFFICES ASSUME NEW q \in SkipKeys, OnLevel(q, i)', q # k PROVE q <= k \/ next[p][i] <= q
        BY <1>4, SkipFacts
      <4>1. q <= p \/ next[p][i] <= q
        BY <1>9, <2>1 DEF SkipNodes
      <4> QED
        BY <1>4, <2>2, <4>1, SkipFacts DEF SkipNodes
    <3>3. PICK m : m = next[p][i]
      OBVIOUS
    <3>4. m = NULL \/ (m \in SkipKeys /\ OnLevel(m, i)')
      BY <1>9, <2>2, <3>3 DEF SkipNodes
    <3> QED
      BY <1>4, <2>3, <3>1, <3>2, <3>3, <3>4 DEF LinkIsSound
  <2>4. CASE n = p /\ l = i
    <3>1. next'[n][l] = k
      BY <1>6, <2>4
    <3>2. \A q \in SkipKeys : OnLevel(q, i)' => q <= p \/ k <= q
      BY <1>4, <1>9, <2>1, <2>2, SkipFacts DEF SkipNodes
    <3>3. OnLevel(k, i)'
      BY <1>6, <1>9
    <3> QED
      BY <1>4, <2>4, <3>1, <3>2, <3>3 DEF LinkIsSound
  <2>5. CASE ~ (n = k /\ l = i) /\ ~ (n = p /\ l = i)
    <3>1. next'[n][l] = next[n][l]
      BY <1>6, <2>5
    <3>2. OnLevel(n, l) /\ LinkIsSound(n, l)
      BY <1>9, <2>5 DEF SkipInv, ListsAreSound
    <3>6. PICK m : m = next[n][l]
      OBVIOUS
    <3>3. m = NULL \/ (m \in SkipKeys /\ OnLevel(m, l)')
      BY <1>9, <3>2, <3>6 DEF LinkIsSound, SkipNodes
    <3>4. l = i => k <= n \/ next[n][l] <= k
      <4> SUFFICES ASSUME l = i PROVE k <= n \/ next[n][l] <= k
        OBVIOUS
      <4>1. n # p /\ n # k /\ OnLevel(n, i)
        BY <2>5, <3>2
      <4>2. n < p \/ k < n
        <5>1. CASE n = head
          BY <4>1, <5>1, SkipFacts DEF SkipNodes
        <5>2. CASE n # head
          BY <1>4, <2>1, <2>2, <4>1, <5>2, SkipFacts DEF SkipNodes
        <5> QED
          BY <5>1, <5>2
      <4>3. CASE n < p
        <5>1. p \in SkipKeys /\ OnLevel(p, i)
          BY <1>4, <4>3, SkipFacts DEF SkipNodes
        <5>2. next[n][i] <= p
          BY <3>2, <4>3, <5>1, SkipFacts DEF LinkIsSound, SkipNodes
        <5> QED
          BY <1>4, <3>2, <5>1, <5>2, SkipFacts DEF LinkIsSound
      <4> QED
        BY <4>2, <4>3, SkipFacts DEF SkipNodes
    <3>5. \A q \in SkipKeys : OnLevel(q, l)' => q <= n \/ next[n][l] <= q
      BY <1>9, <3>2, <3>4 DEF LinkIsSound, SkipNodes
    <3> QED
      BY <3>1, <3>2, <3>3, <3>5, <3>6 DEF LinkIsSound
  <2> QED
    BY <2>3, <2>4, <2>5
<1>16. \A l \in SkipLevels : l <= i => OnLevel(k, l)'
  <2>1. \A l \in SkipLevels : l <= i => l < i \/ l = i
    BY SkipFacts
  <2>2. \A l \in SkipLevels : l < i => OnLevel(k, l)
    BY <1>2, <1>3
  <2> QED
    BY <1>6, <1>9, <2>1, <2>2
<1>17. LevelsAreNested'
  <2>1. \A n \in SkipKeys : \A l \in SkipLevels :
            OnLevel(n, l)' => l < max_height' /\ \A j \in SkipLevels : j < l => OnLevel(n, j)'
    <3> SUFFICES ASSUME NEW n \in SkipKeys, NEW l \in SkipLevels, OnLevel(n, l)'
                 PROVE  l < max_height' /\ \A j \in SkipLevels : j < l => OnLevel(n, j)'
      OBVIOUS
    <3>1. CASE n = k /\ l = i
      <4>1. i < max_height'
        BY <1>1, <1>2, <1>3, SkipFacts DEF SkipInv, SkipTyped
      <4> QED
        BY <1>16, <3>1, <4>1, SkipFacts
    <3>2. CASE ~ (n = k /\ l = i)
      <4>1. OnLevel(n, l)
        BY <1>9, <3>2 DEF SkipNodes
      <4> QED
        BY <1>1, <1>9, <4>1 DEF SkipInv, LevelsAreNested, SkipNodes
    <3> QED
      BY <3>1, <3>2
  <2>2. \A n \in inserted' : OnLevel(n, 0)'
    <3>1. OnLevel(k, 0)'
      BY <1>16, SkipFacts
    <3>2. \A n \in inserted : n \in SkipNodes /\ OnLevel(n, 0)
      BY DEF SkipInv, SkipTyped, LevelsAreNested, SkipNodes
    <3> QED
      BY <1>9, <1>13, <3>1, <3>2, SkipFacts
  <2> QED
    BY <2>1, <2>2 DEF LevelsAreNested
<1>18. OthersAreRaw'
  <2>1. \A n \in SkipKeys \ inserted : \A l \in SkipLevels : next[n][l] # Raw => n = k /\ l <= i
    BY <1>1, <1>3 DEF SkipInv, OthersAreRaw
  <2>2. \A n \in SkipKeys : \A l \in SkipLevels : next'[n][l] # Raw <=> next[n][l] # Raw
    BY <1>4, <1>6, <1>7, SkipFacts DEF LinkIsSound, SkipNodes, OnLevel
  <2>3. \A n \in SkipKeys \ inserted' : \A l \in SkipLevels : next'[n][l] # Raw => n = k /\ l <= i /\ ~ last
    BY <1>1, <1>3, <1>13, <2>1, <2>2
  <2>4. ~ last => inserting'.pc = "own" /\ inserting'.key = k /\ inserting'.level = i + 1
    BY <1>1, <1>3 DEF SkipInv, SkipTyped
  <2>5. \A l \in SkipLevels : l <= i => l < i + 1
    BY SkipFacts
  <2> QED
    BY <2>3, <2>4, <2>5 DEF OthersAreRaw
<1>19. ReaderIsSound' /\ SearchesSeeInserts'
  BY <1>1, <1>9, <1>13, ReaderIsKept
<1>20. WriterIsSound'
  <2>1. CASE last
    <3>1. inserting' = Quiet
      BY <1>1, <2>1
    <3> QED
      BY <3>1 DEF WriterIsSound, Quiet
  <2>2. CASE ~ last
    <3>1. /\ inserting'.pc = "own" /\ inserting'.key = k /\ inserting'.level = i + 1
          /\ inserting'.height = inserting.height /\ inserting'.prev = inserting.prev
      BY <1>1, <1>3, <2>2 DEF SkipInv, SkipTyped
    <3>2. \A l \in SkipLevels : l < i + 1 => OnLevel(k, l)'
      BY <1>16, SkipFacts
    <3>3. \A l \in SkipLevels : i + 1 <= l => i <= l /\ l # i
      BY SkipFacts
    <3>4. \A l \in SkipLevels : i + 1 <= l /\ l < inserting.height => PrevIsSound(l)'
      <4> SUFFICES ASSUME NEW l \in SkipLevels, l # i, PrevIsSound(l) PROVE PrevIsSound(l)'
        BY <1>2, <1>3, <3>3
      <4> QED
        BY <1>3, <1>6, <1>9, <3>1 DEF PrevIsSound
    <3>5. inserting'.key \in SkipKeys \ inserted' /\ max_height' = max_height
      BY <1>1, <1>2, <1>3, <1>13, <2>2, <3>1
    <3> HIDE DEF last
    <3> QED
      BY <1>2, <1>12, <2>2, <3>1, <3>2, <3>4, <3>5 DEF WriterIsSound
  <2> QED
    BY <2>1, <2>2
<1> QED
  BY <1>14, <1>15, <1>17, <1>18, <1>19, <1>20 DEF SkipInv

(* The invariant of the empty list. *)
LEMMA SkipInvInit ==
  ASSUME SkipInit
  PROVE  SkipInv
<1>1. /\ next = [n \in SkipNodes |-> [l \in SkipLevels |-> IF n = head THEN NULL ELSE Raw]]
      /\ max_height = 1 /\ inserting = Quiet /\ inserted = {} /\ search = NoSearch
  BY DEF SkipInit
<1>2. head \in SkipNodes /\ head \notin SkipKeys /\ 1 \in 1 .. kMaxHeight
  BY SkipFacts, SkipListAssumption DEF SkipNodes
<1>3. \A l \in SkipLevels : next[head][l] = NULL /\ \A k \in SkipKeys : next[k][l] = Raw
  BY <1>1, <1>2, SkipFacts DEF SkipNodes
<1>4. \A n \in SkipNodes : \A l \in SkipLevels : OnLevel(n, l) <=> n = head
  BY <1>1, <1>3 DEF OnLevel, SkipNodes
<1>5. SkipTyped
  <2>1. next \in [SkipNodes -> [SkipLevels -> SkipKeys \cup {NULL, Raw}]]
    BY <1>1
  <2>2. Quiet \in [pc : {"none", "find", "found", "own", "publish"}, key : SkipNodes, height : 0 .. kMaxHeight,
                   x : SkipNodes, level : SkipLevels, prev : [SkipLevels -> SkipNodes \cup {Raw}]]
    BY <1>2, SkipFacts DEF Quiet
  <2>3. NoSearch \in [pc : {"none", "walk", "done"}, op : {"none", "Seek", "SeekToLast", "Prev", "Next"},
                      target : SkipNodes \cup {NULL}, x : SkipNodes, level : SkipLevels, node : SkipKeys \cup {NULL},
                      before : SUBSET SkipKeys]
    BY <1>2, SkipFacts DEF NoSearch
  <2> QED
    BY <1>1, <1>2, <2>1, <2>2, <2>3 DEF SkipTyped
<1>6. ListsAreSound
  <2>1. \A l \in SkipLevels : LinkIsSound(head, l)
    BY <1>2, <1>3, <1>4, SkipFacts DEF LinkIsSound, SkipNodes
  <2> QED
    BY <1>4, <2>1 DEF ListsAreSound
<1>7. LevelsAreNested /\ OthersAreRaw
  BY <1>1, <1>2, <1>3, <1>4 DEF LevelsAreNested, OthersAreRaw, SkipNodes
<1>8. WriterIsSound
  BY <1>1 DEF WriterIsSound, Quiet
<1>9. ReaderIsSound
  BY <1>1 DEF ReaderIsSound, NoSearch
<1>10. SearchesSeeInserts
  BY <1>1, SkipFacts DEF SearchesSeeInserts, NoSearch
<1> QED
  BY <1>5, <1>6, <1>7, <1>8, <1>9, <1>10 DEF SkipInv

(* Every step keeps the invariant. *)
LEMMA SkipInvNext ==
  ASSUME SkipInv, [SkipNext]_skipVars
  PROVE  SkipInv'
<1>1. CASE UNCHANGED skipVars
  <2>1. UNCHANGED <<next, max_height, inserting, inserted, search>>
    BY <1>1 DEF skipVars
  <2>2. /\ ListsAreSound' /\ LevelsAreNested' /\ OthersAreRaw' /\ WriterIsSound'
        /\ \A n, l : OnLevel(n, l)' <=> OnLevel(n, l)
    BY <2>1, ListsAreKept
  <2>3. ReaderIsSound' /\ SearchesSeeInserts'
    BY <2>1, <2>2, ReaderIsKept
  <2>4. SkipTyped'
    BY <2>1 DEF SkipInv, SkipTyped
  <2> QED
    BY <2>2, <2>3, <2>4 DEF SkipInv
<1>2. ASSUME NEW key \in SkipKeys, InsertStart(key) PROVE SkipInv'
  BY <1>2, InsertStartStep
<1>3. CASE FindGreaterOrEqual
  BY <1>3, FindStep
<1>4. ASSUME NEW height \in 1 .. kMaxHeight, RaiseHeight(height) PROVE SkipInv'
  BY <1>4, RaiseHeightStep
<1>5. CASE InsertOwnLink
  BY <1>5, OwnLinkStep
<1>6. CASE InsertPublish
  BY <1>6, PublishStep
<1>7. ASSUME NEW target \in SkipKeys, Seek(target) PROVE SkipInv'
  BY <1>7, SearchFromStep DEF Seek
<1>8. CASE SeekToLast
  BY <1>8, SearchFromStep DEF SeekToLast
<1>9. CASE Prev
  <2>1. search.node \in SkipKeys \cup {NULL}
    BY DEF SkipInv, SkipTyped
  <2> QED
    BY <1>9, <2>1, SearchFromStep DEF Prev
<1>10. CASE SeekToFirst
  <2>1. head \in SkipNodes /\ OnLevel(head, 0)
    BY DEF OnLevel, SkipNodes
  <2> QED
    BY <1>10, <2>1, StepToStep DEF SeekToFirst
<1>11. CASE IterNext
  <2>1. search.node \in SkipNodes /\ OnLevel(search.node, 0)
    BY <1>11 DEF IterNext, SkipInv, SkipTyped, ReaderIsSound, SkipNodes
  <2> QED
    BY <1>11, <2>1, StepToStep DEF IterNext
<1>12. CASE SearchStep
  BY <1>12, SearchStepStep
<1> QED
  BY <1>1, <1>2, <1>3, <1>4, <1>5, <1>6, <1>7, <1>8, <1>9, <1>10, <1>11, <1>12 DEF SkipNext

(* A search that runs beside an insert misses no key that was inserted      *)
(* before it began (SkipList::FindGreaterOrEqual, FindLessThan, FindLast    *)
(* without a lock), for every set of keys, every height and every order of  *)
(* the loads and stores of links.                                           *)
THEOREM SkipSearchesSeeInserts == SkipSpec => []SearchesSeeInserts
<1>1. SkipInit => SkipInv
  BY SkipInvInit
<1>2. SkipInv /\ [SkipNext]_skipVars => SkipInv'
  BY SkipInvNext
<1>3. SkipInv => SearchesSeeInserts
  BY DEF SkipInv
<1> QED
  BY <1>1, <1>2, <1>3, PTL DEF SkipSpec

-----------------------------------------------------------------------------
(***************************************************************************)
(* The table cache.                                                        *)
(***************************************************************************)
(* What each thread does with the cache, and with which tables. *)
UserStates == [pc : {"away", "open", "read", "use"}, number : TableNumbers \cup {0}, handle : Nat,
               kind : {"none", "mmap", "fd"}]
UserShape(u, files) ==
    /\ u \in [CacheThreads -> UserStates] /\ files \subseteq TableNumbers
    /\ \A t \in CacheThreads :
          /\ u[t].pc = "read" <=> u[t].kind # "none"
          /\ u[t].pc \in {"open", "read"} => u[t].number \in files
RightTables(u, held) ==
    \A t \in CacheThreads :
        u[t].pc = "use" => u[t].handle \in DOMAIN held /\ held[u[t].handle].number = u[t].number

Handle == [number : TableNumbers, refs : Nat, kind : {"mmap", "fd"}]
IsCache(c) == c = [length |-> c.length, list |-> c.list, elems |-> c.elems, lru |-> c.lru, usage |-> c.usage,
                   handles |-> c.handles, allowed |-> c.allowed]
Maps(held) == {h \in DOMAIN held : held[h].kind = "mmap"}

(* The references a handle should have are expect[h], and other are the     *)
(* slots taken by files that are being opened.                              *)
Counts(held, usage, slots, expect, other) ==
    /\ IsFiniteSet(DOMAIN held) /\ DOMAIN held \subseteq Nat \ {0}
    /\ held \in [DOMAIN held -> Handle]
    /\ \A h \in DOMAIN held : held[h].refs = expect[h]
    /\ \A h \in Nat : expect[h] > 0 <=> h \in DOMAIN held
    /\ usage = Cardinality(DOMAIN held)
    /\ slots \in Nat /\ slots + Cardinality(Maps(held)) + other = MmapLimit
Counted(c, expect, other) == Counts(c.handles, c.usage, c.allowed, expect, other)

(* The buckets hold the entries of the list, each key once. *)
Distinct(s) == \A i, j \in 1 .. Len(s) : s[i] = s[j] => i = j
Links(length, list, elems, lru, held, files) ==
    /\ length \in Nat \ {0}
    /\ lru \in Seq(Nat \ {0}) /\ Distinct(lru)
    /\ \A h \in ToSet(lru) : h \in DOMAIN held /\ held[h].number \in files
    /\ \A g, h \in ToSet(lru) : held[g].number = held[h].number => g = h
    /\ list = [b \in 0 .. length - 1 |-> {h \in ToSet(lru) : HashOf(held[h].number) % length = b}]
    /\ elems = Cardinality(ToSet(lru))
Linked(c, files) == Links(c.length, c.list, c.elems, c.lru, c.handles, files)

(* One reference of each user and one of the cache. *)
Expected(users, lru) == [h \in Nat |-> users[h] + IF h \in ToSet(lru) THEN 1 ELSE 0]
Good(c, users, other, files) ==
    /\ IsCache(c) /\ users \in [Nat -> Nat]
    /\ Counted(c, Expected(users, c.lru), other) /\ Linked(c, files)

(* The users of each handle, and the slots of the files being opened. *)
CountOf(u) == [h \in Nat |-> Cardinality({t \in CacheThreads : u[t].pc = "use" /\ u[t].handle = h})]
OpeningOf(u) == Cardinality({t \in CacheThreads : u[t].kind = "mmap"})

CacheIs(c, u, files) ==
    /\ UserShape(u, files) /\ RightTables(u, c.handles)
    /\ Good(c, CountOf(u), OpeningOf(u), files) /\ Len(c.lru) <= CacheCapacity
CacheInv == CacheIs(Cached, user, onDisk)

(* A count after one thread moved. *)
LEMMA CountStep ==
  ASSUME NEW T, IsFiniteSet(T), NEW A \in SUBSET T, NEW B \in SUBSET T, NEW t \in T,
         \A u \in T : u # t => (u \in A <=> u \in B)
  PROVE  /\ Cardinality(A) \in Nat /\ Cardinality(B) \in Nat
         /\ Cardinality(B) + (IF t \in A THEN 1 ELSE 0) = Cardinality(A) + (IF t \in B THEN 1 ELSE 0)
<1>1. IsFiniteSet(A) /\ IsFiniteSet(B) /\ Cardinality(A) \in Nat /\ Cardinality(B) \in Nat
  BY FS_Subset, FS_CardinalityType
<1>2. A \ {t} = B \ {t}
  OBVIOUS
<1>3. /\ Cardinality(A \ {t}) = IF t \in A THEN Cardinality(A) - 1 ELSE Cardinality(A)
      /\ Cardinality(B \ {t}) = IF t \in B THEN Cardinality(B) - 1 ELSE Cardinality(B)
  BY <1>1, FS_RemoveElement
<1> QED BY <1>1, <1>2, <1>3

(* What is in a list after a handle is appended. *)
LEMMA AppendList ==
  ASSUME NEW S, NEW s \in Seq(S), NEW h \in S, Distinct(s), h \notin ToSet(s)
  PROVE  /\ LRU_Append(s, h) \in Seq(S) /\ Distinct(LRU_Append(s, h)) /\ Len(LRU_Append(s, h)) = Len(s) + 1
         /\ ToSet(LRU_Append(s, h)) = ToSet(s) \cup {h}
<1> DEFINE n == Len(s)
           r == Append(s, h)
<1>1. /\ n \in Nat /\ r \in Seq(S) /\ Len(r) = n + 1 /\ r[n + 1] = h /\ \A i \in 1 .. n : r[i] = s[i]
      /\ DOMAIN s = 1 .. n /\ DOMAIN r = 1 .. n + 1
  OBVIOUS
<1> HIDE DEF r, n
<1>2. ToSet(r) = ToSet(s) \cup {h}
  BY <1>1 DEF ToSet
<1>3. \A i \in 1 .. n : s[i] # h
  BY <1>1 DEF ToSet
<1>4. Distinct(r)
  BY <1>1, <1>3 DEF Distinct, n
<1> QED BY <1>1, <1>2, <1>4 DEF LRU_Append, r, n

(* What is in a list after a handle is unlinked. *)
LEMMA RemoveList ==
  ASSUME NEW S, NEW s \in Seq(S), NEW h \in ToSet(s), Distinct(s)
  PROVE  /\ LRU_Remove(s, h) \in Seq(S) /\ Distinct(LRU_Remove(s, h)) /\ Len(LRU_Remove(s, h)) = Len(s) - 1
         /\ ToSet(LRU_Remove(s, h)) = ToSet(s) \ {h}
<1> DEFINE n == Len(s)
           i == CHOOSE j \in DOMAIN s : s[j] = h
           a == SubSeq(s, 1, i - 1)
           b == SubSeq(s, i + 1, n)
           r == a \o b
<1>0. n \in Nat /\ DOMAIN s = 1 .. n /\ \A j \in 1 .. n : s[j] \in S
  OBVIOUS
<1>1. i \in 1 .. n /\ s[i] = h
  <2>1. \E j \in DOMAIN s : s[j] = h
    BY DEF ToSet
  <2> QED BY <1>0, <2>1
<1> HIDE DEF i
<1> HIDE DEF n
<1>2. a \in Seq(S) /\ Len(a) = i - 1 /\ \A j \in 1 .. i - 1 : a[j] = s[j]
  BY <1>0, <1>1, SubSeqProperties
<1>3. b \in Seq(S) /\ Len(b) = n - i /\ \A j \in 1 .. n - i : b[j] = s[i + j]
  <2>1. /\ b \in Seq(S) /\ Len(b) = IF i + 1 <= n THEN n - (i + 1) + 1 ELSE 0
        /\ \A j \in 1 .. n - (i + 1) + 1 : b[j] = s[i + 1 + j - 1]
    BY <1>0, <1>1, SubSeqProperties
  <2> HIDE DEF b
  <2>2. n - (i + 1) + 1 = n - i /\ \A j \in Int : i + 1 + j - 1 = i + j
    BY <1>0, <1>1
  <2> QED BY <1>0, <1>1, <2>1, <2>2
<1> HIDE DEF a, b
<1>4. r \in Seq(S) /\ Len(r) = n - 1 /\ \A j \in 1 .. n - 1 : r[j] = IF j <= i - 1 THEN a[j] ELSE b[j - (i - 1)]
  <2>1. Len(a) + Len(b) = n - 1
    BY <1>0, <1>1, <1>2, <1>3
  <2>2. /\ r \in Seq(S) /\ Len(r) = Len(a) + Len(b)
        /\ \A j \in 1 .. Len(a) + Len(b) : r[j] = IF j <= Len(a) THEN a[j] ELSE b[j - Len(a)]
    BY <1>2, <1>3, ConcatProperties
  <2> HIDE DEF r
  <2> QED BY <1>2, <2>1, <2>2
<1> HIDE DEF r
<1>5. \A j \in 1 .. n - 1 : r[j] = IF j < i THEN s[j] ELSE s[j + 1]
  <2> SUFFICES ASSUME NEW j \in 1 .. n - 1 PROVE r[j] = IF j < i THEN s[j] ELSE s[j + 1]
    OBVIOUS
  <2>1. CASE j < i
    <3>1. j \in 1 .. i - 1 /\ j <= i - 1
      BY <1>0, <1>1, <2>1
    <3> QED BY <1>2, <1>4, <2>1, <3>1
  <2>2. CASE ~ (j < i)
    <3>1. j - (i - 1) \in 1 .. n - i /\ i + (j - (i - 1)) = j + 1 /\ ~ (j <= i - 1)
      BY <1>0, <1>1, <2>2
    <3> QED BY <1>3, <1>4, <2>2, <3>1
  <2> QED BY <2>1, <2>2
<1>6. DOMAIN r = 1 .. n - 1
  BY <1>4
<1>7. ASSUME NEW x \in ToSet(r) PROVE x \in ToSet(s) \ {h}
  <2>1. PICK j \in 1 .. n - 1 : r[j] = x
    BY <1>6 DEF ToSet
  <2>2. PICK k \in 1 .. n : k # i /\ s[k] = x
    BY <1>0, <1>1, <1>5, <2>1
  <2>3. s[k] # s[i]
    BY <1>0, <1>1, <2>2 DEF Distinct, n
  <2> QED BY <1>0, <1>1, <2>2, <2>3 DEF ToSet
<1>8. ASSUME NEW x \in ToSet(s) \ {h} PROVE x \in ToSet(r)
  <2>1. PICK k \in 1 .. n : s[k] = x
    BY <1>0 DEF ToSet
  <2>2. k # i
    BY <1>1, <2>1
  <2>3. PICK j \in 1 .. n - 1 : r[j] = x
    <3>1. CASE k < i
      <4>1. k \in 1 .. n - 1
        BY <1>0, <1>1, <3>1
      <4> QED BY <1>5, <2>1, <3>1, <4>1
    <3>2. CASE k > i
      <4>1. k - 1 \in 1 .. n - 1 /\ ~ (k - 1 < i) /\ (k - 1) + 1 = k
        BY <1>0, <1>1, <3>2
      <4> QED BY <1>5, <2>1, <4>1
    <3> QED BY <1>0, <1>1, <2>2, <3>1, <3>2
  <2> QED BY <1>6, <2>3 DEF ToSet
<1>9. Distinct(r)
  <2> SUFFICES ASSUME NEW j \in 1 .. n - 1, NEW k \in 1 .. n - 1, r[j] = r[k] PROVE j = k
    BY <1>4 DEF Distinct
  <2> DEFINE f(m) == IF m < i THEN m ELSE m + 1
  <2>1. f(j) \in 1 .. n /\ f(k) \in 1 .. n
    BY <1>0, <1>1
  <2>2. r[j] = s[f(j)] /\ r[k] = s[f(k)]
    BY <1>5
  <2> HIDE DEF f
  <2>3. f(j) = f(k)
    BY <2>1, <2>2 DEF Distinct, n
  <2> QED BY <1>1, <1>0, <2>3 DEF f
<1>10. r = LRU_Remove(s, h)
  BY DEF LRU_Remove, RemoveAt, r, a, b, n, i
<1> QED BY <1>4, <1>7, <1>8, <1>9, <1>10 DEF n

(* What is in a list without its n oldest entries. *)
LEMMA DropList ==
  ASSUME NEW S, NEW s \in Seq(S), Distinct(s), NEW n \in 0 .. Len(s)
  PROVE  LET r == SubSeq(s, n + 1, Len(s))
         IN  r \in Seq(S) /\ Distinct(r) /\ Len(r) = Len(s) - n /\ ToSet(r) = ToSet(s) \ {s[i] : i \in 1 .. n}
<1> DEFINE m == Len(s)
           r == SubSeq(s, n + 1, m)
           old == {s[i] : i \in 1 .. n}
<1>0. m \in Nat /\ n \in 0 .. m /\ DOMAIN s = 1 .. m /\ \A j \in 1 .. m : s[j] \in S
  OBVIOUS
<1>d. \A i, j \in 1 .. m : s[i] = s[j] => i = j
  BY DEF Distinct
<1> HIDE DEF m
<1>1. r \in Seq(S) /\ Len(r) = m - n /\ \A j \in 1 .. m - n : r[j] = s[n + j]
  <2>1. /\ r \in Seq(S) /\ Len(r) = IF n + 1 <= m THEN m - (n + 1) + 1 ELSE 0
        /\ \A j \in 1 .. m - (n + 1) + 1 : r[j] = s[n + 1 + j - 1]
    BY <1>0, SubSeqProperties
  <2> HIDE DEF r
  <2>2. m - (n + 1) + 1 = m - n /\ \A j \in Int : n + 1 + j - 1 = n + j
    BY <1>0
  <2> QED BY <1>0, <2>1, <2>2
<1> HIDE DEF r
<1>2. DOMAIN r = 1 .. m - n
  BY <1>1
<1>3. ASSUME NEW x \in ToSet(r) PROVE x \in ToSet(s) \ old
  <2>1. PICK j \in 1 .. m - n : r[j] = x
    BY <1>2 DEF ToSet
  <2>2. n + j \in 1 .. m /\ s[n + j] = x
    BY <1>0, <1>1, <2>1
  <2>3. \A i \in 1 .. n : s[i] # x
    <3> SUFFICES ASSUME NEW i \in 1 .. n, s[i] = x PROVE FALSE
      OBVIOUS
    <3>1. i \in 1 .. m /\ i # n + j
      BY <1>0, <2>2
    <3> QED BY <1>d, <2>2, <3>1
  <2> QED BY <1>0, <2>2, <2>3 DEF ToSet
<1>4. ASSUME NEW x \in ToSet(s) \ old PROVE x \in ToSet(r)
  <2>1. PICK k \in 1 .. m : s[k] = x
    BY <1>0 DEF ToSet
  <2>2. ~ (k \in 1 .. n)
    BY <2>1
  <2>3. k - n \in 1 .. m - n /\ n + (k - n) = k
    BY <1>0, <2>2
  <2> QED BY <1>1, <1>2, <2>1, <2>3 DEF ToSet
<1>5. Distinct(r)
  <2> SUFFICES ASSUME NEW j \in 1 .. m - n, NEW k \in 1 .. m - n, r[j] = r[k] PROVE j = k
    BY <1>1 DEF Distinct
  <2>1. n + j \in 1 .. m /\ n + k \in 1 .. m /\ s[n + j] = s[n + k]
    BY <1>0, <1>1
  <2>2. n + j = n + k
    BY <1>d, <2>1
  <2> QED BY <1>0, <2>2
<1> QED BY <1>1, <1>3, <1>4, <1>5 DEF m, r, old

(* A list in which nothing stands twice is as long as its set. *)
LEMMA LengthOfList ==
  ASSUME NEW S, NEW s \in Seq(S), Distinct(s)
  PROVE  IsFiniteSet(ToSet(s)) /\ Cardinality(ToSet(s)) = Len(s)
<1>1. Len(s) \in Nat /\ DOMAIN s = 1 .. Len(s) /\ s \in [1 .. Len(s) -> S]
  OBVIOUS
<1>2. s \in [1 .. Len(s) -> ToSet(s)]
  BY <1>1 DEF ToSet
<1>3. s \in Injection(1 .. Len(s), ToSet(s))
  BY <1>2 DEF Injection, IsInjective, Distinct
<1>4. s \in Surjection(1 .. Len(s), ToSet(s))
  BY <1>1, <1>2 DEF Surjection, ToSet
<1>5. IsFiniteSet(1 .. Len(s)) /\ Cardinality(1 .. Len(s)) = Len(s)
  BY <1>1, FS_Interval
<1> QED BY <1>3, <1>4, <1>5, FS_Surjection

(* The lengths the loop of Resize goes through. *)
IsDoubling(f, n) ==
    /\ f \in [0 .. n -> Nat \ {0}]
    /\ \A k \in 0 .. n : f[k] = IF k = 0 THEN kFirstLength ELSE 2 * f[k - 1]

(* There is such a function for every number of rounds. *)
LEMMA DoublingExists ==
  ASSUME NEW n \in Nat
  PROVE  \E f : IsDoubling(f, n)
<1> DEFINE bad == {m \in Nat : ~ \E f : IsDoubling(f, m)}
<1>1. SUFFICES ASSUME bad # {} PROVE FALSE
  OBVIOUS
<1>2. PICK m \in bad : \A k \in bad : m <= k
  BY <1>1, LeastNatural
<1>3. m \in Nat /\ ~ \E f : IsDoubling(f, m)
  OBVIOUS
<1>4. CASE m = 0
  <2> DEFINE f == [k \in 0 .. 0 |-> kFirstLength]
  <2>1. IsDoubling(f, 0)
    BY TableCacheAssumption DEF IsDoubling
  <2> QED BY <1>3, <1>4, <2>1
<1>5. CASE m # 0
  <2>1. m - 1 \in Nat /\ m - 1 \notin bad
    BY <1>2, <1>3, <1>5
  <2>2. PICK f : IsDoubling(f, m - 1)
    BY <2>1
  <2> DEFINE g == [k \in 0 .. m |-> IF k = m THEN 2 * f[m - 1] ELSE f[k]]
  <2>3. \A k \in 0 .. m : k # m => k \in 0 .. m - 1
    BY <1>3
  <2>4. m - 1 \in 0 .. m - 1 /\ f[m - 1] \in Nat \ {0}
    BY <2>1, <2>2 DEF IsDoubling
  <2>5. g \in [0 .. m -> Nat \ {0}]
    BY <2>2, <2>3, <2>4 DEF IsDoubling
  <2>6. ASSUME NEW k \in 0 .. m PROVE g[k] = IF k = 0 THEN kFirstLength ELSE 2 * g[k - 1]
    <3>1. CASE k = m
      <4>1. m - 1 \in 0 .. m /\ m - 1 # m
        BY <1>3, <1>5
      <4>2. g[m - 1] = f[m - 1] /\ g[m] = 2 * f[m - 1]
        BY <1>3, <4>1
      <4> QED BY <1>5, <3>1, <4>2
    <3>2. CASE k # m /\ k = 0
      <4>1. g[k] = f[k] /\ k \in 0 .. m - 1
        BY <2>3, <3>2
      <4>2. f[k] = kFirstLength
        BY <2>2, <3>2, <4>1 DEF IsDoubling
      <4> QED BY <3>2, <4>1, <4>2
    <3>3. CASE k # m /\ k # 0
      <4>1. k - 1 \in 0 .. m /\ k - 1 # m /\ k \in 0 .. m - 1
        BY <1>3, <2>6, <3>3
      <4>2. g[k] = f[k] /\ g[k - 1] = f[k - 1]
        BY <3>3, <4>1
      <4>3. f[k] = 2 * f[k - 1]
        BY <2>2, <3>3, <4>1 DEF IsDoubling
      <4> QED BY <3>3, <4>2, <4>3
    <3> QED BY <3>1, <3>2, <3>3
  <2> HIDE DEF g
  <2>7. IsDoubling(g, m)
    BY <2>5, <2>6 DEF IsDoubling
  <2> QED BY <1>3, <2>7
<1> QED BY <1>4, <1>5

(* Doubling passes every number. *)
LEMMA DoublingGrows ==
  ASSUME NEW n \in Nat, NEW f, IsDoubling(f, n)
  PROVE  \A k \in 0 .. n : f[k] > k
<1> DEFINE bad == {k \in 0 .. n : ~ (f[k] > k)}
<1>1. SUFFICES ASSUME bad # {} PROVE FALSE
  OBVIOUS
<1>2. PICK m \in bad : \A k \in bad : m <= k
  <2>1. bad \subseteq Nat
    OBVIOUS
  <2> HIDE DEF bad
  <2> QED BY <1>1, <2>1, LeastNatural
<1>3. m \in 0 .. n /\ ~ (f[m] > m) /\ f[m] \in Nat \ {0} /\ f[m] = IF m = 0 THEN kFirstLength ELSE 2 * f[m - 1]
  BY DEF IsDoubling
<1>4. m # 0
  BY <1>3
<1>5. m - 1 \in 0 .. n /\ m - 1 < m
  BY <1>3, <1>4
<1>6. f[m - 1] > m - 1 /\ f[m - 1] \in Nat
  BY <1>2, <1>5 DEF IsDoubling
<1> QED BY <1>3, <1>4, <1>6

(* The table keeps at least one bucket. *)
LEMMA NewLengthIsPositive ==
  ASSUME NEW elems \in Nat
  PROVE  NewLength(elems) \in Nat \ {0}
<1> DEFINE Doubled[k \in 0 .. elems] == IF k = 0 THEN kFirstLength ELSE 2 * Doubled[k - 1]
<1>1. Doubled = [k \in 0 .. elems |-> IF k = 0 THEN kFirstLength ELSE 2 * Doubled[k - 1]]
  <2>1. PICK f : IsDoubling(f, elems)
    BY DoublingExists
  <2>2. f = [k \in 0 .. elems |-> IF k = 0 THEN kFirstLength ELSE 2 * f[k - 1]]
    BY <2>1 DEF IsDoubling
  <2> QED BY <2>2
<1>2. IsDoubling(Doubled, elems)
  <2>1. PICK f : IsDoubling(f, elems)
    BY DoublingExists
  <2> DEFINE bad == {k \in 0 .. elems : Doubled[k] # f[k]}
  <2> HIDE DEF Doubled
  <2>2. bad = {}
    <3> SUFFICES ASSUME bad # {} PROVE FALSE
      OBVIOUS
    <3>0. bad \subseteq Nat
      OBVIOUS
    <3>1. PICK m \in bad : \A k \in bad : m <= k
      <4> HIDE DEF bad
      <4> QED BY <3>0, LeastNatural
    <3>2. /\ m \in 0 .. elems /\ Doubled[m] # f[m]
          /\ f[m] = IF m = 0 THEN kFirstLength ELSE 2 * f[m - 1]
          /\ Doubled[m] = IF m = 0 THEN kFirstLength ELSE 2 * Doubled[m - 1]
      BY <1>1, <2>1 DEF IsDoubling
    <3>3. m # 0
      BY <3>2
    <3>4. m - 1 \in 0 .. elems /\ m - 1 < m
      BY <3>2, <3>3
    <3>5. Doubled[m - 1] = f[m - 1]
      BY <3>1, <3>4
    <3> QED BY <3>2, <3>3, <3>5
  <2>3. \A k \in 0 .. elems : Doubled[k] = f[k]
    BY <2>2
  <2>4. f \in [0 .. elems -> Nat \ {0}] /\ DOMAIN f = 0 .. elems /\ DOMAIN Doubled = 0 .. elems
    BY <1>1, <2>1 DEF IsDoubling
  <2>5. Doubled = f
    BY <1>1, <2>3, <2>4
  <2> QED BY <2>1, <2>5
<1>3. NewLength(elems) = Doubled[CHOOSE k \in 0 .. elems : Doubled[k] >= elems /\ \A j \in 0 .. k - 1 : Doubled[j] < elems]
  BY DEF NewLength
<1> HIDE DEF Doubled
<1> DEFINE P(k) == Doubled[k] >= elems /\ \A j \in 0 .. k - 1 : Doubled[j] < elems
<1>4. \E k \in 0 .. elems : P(k)
  <2> DEFINE enough == {k \in 0 .. elems : Doubled[k] >= elems}
  <2>1. elems \in enough
    <3>0. elems \in 0 .. elems /\ \A k \in 0 .. elems : Doubled[k] > k
      BY <1>2, DoublingGrows
    <3>1. Doubled[elems] \in Nat
      BY <1>2, <3>0 DEF IsDoubling
    <3> QED BY <3>0, <3>1
  <2>2. enough \subseteq Nat
    OBVIOUS
  <2>3. PICK k \in enough : \A j \in enough : k <= j
    <3> HIDE DEF enough
    <3> QED BY <2>1, <2>2, LeastNatural
  <2>4. ASSUME NEW j \in 0 .. k - 1 PROVE Doubled[j] < elems
    <3>1. j \in 0 .. elems /\ ~ (k <= j)
      OBVIOUS
    <3>2. Doubled[j] \in Nat
      BY <1>2, <3>1 DEF IsDoubling
    <3> QED BY <2>3, <3>1, <3>2
  <2> QED BY <2>3, <2>4
<1>5. (CHOOSE k \in 0 .. elems : P(k)) \in 0 .. elems
  <2> HIDE DEF P
  <2> QED BY <1>4
<1>6. \A k \in 0 .. elems : Doubled[k] \in Nat \ {0}
  BY <1>2 DEF IsDoubling
<1> QED BY <1>3, <1>5, <1>6

(* A new handle is none of those in use. *)
LEMMA NewHandleIsNew ==
  ASSUME NEW held, IsFiniteSet(held), held \subseteq Nat
  PROVE  NewHandle(held) \in Nat \ {0} /\ NewHandle(held) \notin held
<1> DEFINE n == Cardinality(held)
<1>1. n \in Nat
  BY FS_CardinalityType
<1>2. IsFiniteSet(1 .. n + 1) /\ Cardinality(1 .. n + 1) = n + 1
  BY <1>1, FS_Interval
<1>3. ~ (1 .. n + 1 \subseteq held)
  <2> SUFFICES ASSUME 1 .. n + 1 \in SUBSET held PROVE FALSE
    OBVIOUS
  <2>1. Cardinality(1 .. n + 1) <= n
    BY FS_Subset
  <2> QED BY <1>1, <1>2, <2>1
<1>4. NewHandle(held) \in 1 .. n + 1 /\ NewHandle(held) \notin held
  BY <1>3 DEF NewHandle
<1> QED BY <1>1, <1>4

(* The entry of a key is found where it is listed. *)
LEMMA FindIs ==
  ASSUME NEW c, NEW files, Linked(c, files), NEW n \in TableNumbers
  PROVE  \/ Find(c, n) = 0 /\ \A h \in ToSet(c.lru) : c.handles[h].number # n
         \/ Find(c, n) # 0 /\ Find(c, n) \in ToSet(c.lru) /\ c.handles[Find(c, n)].number = n
<1> DEFINE b == Bucket(c, n)
           S == ToSet(c.lru)
           at == {h \in c.list[b] : c.handles[h].number = n}
<1>1. b \in 0 .. c.length - 1 /\ b = HashOf(n) % c.length
  <2>1. HashOf(n) \in Nat /\ c.length \in Nat \ {0}
    BY TableCacheAssumption DEF Linked, Links
  <2> QED BY <2>1 DEF Bucket
<1>2. c.list[b] = {h \in S : HashOf(c.handles[h].number) % c.length = b}
  BY <1>1 DEF Linked, Links
<1>3. at = {h \in S : c.handles[h].number = n}
  BY <1>1, <1>2
<1>4. 0 \notin S
  BY DEF Linked, Links, ToSet
<1>5. Find(c, n) = IF at = {} THEN 0 ELSE CHOOSE h \in at : TRUE
  BY DEF Find
<1> HIDE DEF at, S
<1>6. CASE at = {}
  BY <1>3, <1>5, <1>6 DEF S
<1>7. CASE at # {}
  <2>1. Find(c, n) \in at
    BY <1>5, <1>7
  <2> QED BY <1>3, <1>4, <2>1 DEF S
<1> QED BY <1>6, <1>7

(* Unref drops one reference of each handle and closes those without any. *)
Less(expect, hs) == [h \in Nat |-> expect[h] - IF h \in hs THEN 1 ELSE 0]

(* What the cache is after Unref. *)
Released(new, c, expect, other) ==
    /\ IsCache(new) /\ Counted(new, expect, other)
    /\ new.length = c.length /\ new.list = c.list /\ new.elems = c.elems /\ new.lru = c.lru
    /\ \A h \in DOMAIN new.handles : h \in DOMAIN c.handles /\ new.handles[h].number = c.handles[h].number

(* The references after Unref. *)
LEMMA UnrefCounted ==
  ASSUME NEW c, IsCache(c), NEW expect \in [Nat -> Nat], NEW other \in Nat, Counted(c, expect, other),
         NEW hs \in SUBSET DOMAIN c.handles
  PROVE  Released(Unref(c, hs), c, Less(expect, hs), other)
<1> DEFINE H == c.handles
           closed == {h \in hs : H[h].refs <= 1}
           kept == DOMAIN H \ closed
           held == [h \in kept |-> IF h \in hs THEN [H[h] EXCEPT !.refs = @ - 1] ELSE H[h]]
           new == Unref(c, hs)
           E == Less(expect, hs)
<1>1. /\ new.length = c.length /\ new.list = c.list /\ new.elems = c.elems /\ new.lru = c.lru
      /\ new.handles = held /\ new.usage = c.usage - Cardinality(closed)
      /\ new.allowed = c.allowed + Cardinality({h \in closed : H[h].kind = "mmap"})
      /\ IsCache(new)
  <2> DEFINE u == c.usage - Cardinality(closed)
             a == c.allowed + Cardinality({h \in closed : H[h].kind = "mmap"})
  <2>1. new = [c EXCEPT !.usage = u, !.handles = held, !.allowed = a]
    BY DEF Unref
  <2> HIDE DEF u, a, held, new
  <2>2. /\ new.length = c.length /\ new.list = c.list /\ new.elems = c.elems /\ new.lru = c.lru
        /\ new.handles = held /\ new.usage = u /\ new.allowed = a /\ IsCache(new)
    BY <2>1 DEF IsCache
  <2> QED BY <2>2 DEF u, a
<1>2. /\ IsFiniteSet(DOMAIN H) /\ DOMAIN H \subseteq Nat \ {0} /\ H \in [DOMAIN H -> Handle]
      /\ \A h \in DOMAIN H : H[h].refs = expect[h] /\ expect[h] > 0
      /\ \A h \in Nat : expect[h] > 0 <=> h \in DOMAIN H
      /\ c.usage = Cardinality(DOMAIN H) /\ c.allowed \in Nat
      /\ c.allowed + Cardinality(Maps(H)) + other = MmapLimit
  BY DEF Counted, Counts
<1> HIDE DEF H, new
<1>3. E \in [Nat -> Nat] /\ \A h \in Nat : E[h] = expect[h] - IF h \in hs THEN 1 ELSE 0
  <2>1. \A h \in hs : expect[h] > 0
    BY <1>2 DEF H
  <2>2. \A h \in Nat : (expect[h] - IF h \in hs THEN 1 ELSE 0) \in Nat
    BY <2>1
  <2> QED BY <2>2 DEF Less
<1>4. \A h \in DOMAIN H : h \in closed <=> E[h] = 0
  BY <1>2, <1>3 DEF H
<1>5. \A h \in Nat : E[h] > 0 <=> h \in kept
  BY <1>2, <1>3, <1>4
<1>6. DOMAIN held = kept /\ kept \subseteq DOMAIN H /\ closed \subseteq DOMAIN H
  BY DEF H
<1>7. ASSUME NEW h \in kept
      PROVE  held[h] \in Handle /\ held[h].refs = E[h] /\ held[h].number = H[h].number /\ held[h].kind = H[h].kind
  <2>1. H[h] \in Handle /\ H[h].refs = expect[h] /\ expect[h] \in Nat /\ h \in Nat /\ E[h] \in Nat
    BY <1>2, <1>3
  <2>2. CASE h \in hs
    <3>1. held[h] = [H[h] EXCEPT !.refs = @ - 1]
      BY <2>2
    <3>2. H[h].refs - 1 = E[h]
      BY <1>3, <2>1, <2>2
    <3> QED BY <2>1, <3>1, <3>2 DEF Handle
  <2>3. CASE h \notin hs
    <3>1. held[h] = H[h] /\ E[h] = expect[h]
      BY <1>3, <2>1, <2>3
    <3> QED BY <2>1, <3>1
  <2> QED BY <2>2, <2>3
<1> HIDE DEF E
<1>8. IsFiniteSet(kept) /\ Cardinality(kept) = Cardinality(DOMAIN H) - Cardinality(closed)
  <2> DEFINE D == DOMAIN H
  <2>1. D \cap closed = closed /\ IsFiniteSet(D) /\ kept = D \ closed
    BY <1>2, <1>6
  <2> HIDE DEF closed, D
  <2>2. IsFiniteSet(D \ closed) /\ Cardinality(D \ closed) = Cardinality(D) - Cardinality(D \cap closed)
    BY <2>1, FS_Difference
  <2> QED BY <2>1, <2>2 DEF D
<1>9. Cardinality(Maps(held)) = Cardinality(Maps(H)) - Cardinality({h \in closed : H[h].kind = "mmap"})
      /\ Cardinality({h \in closed : H[h].kind = "mmap"}) \in Nat /\ Cardinality(Maps(H)) \in Nat
  <2> DEFINE M == {h \in closed : H[h].kind = "mmap"}
  <2>1. Maps(H) \cap M = M /\ Maps(held) = Maps(H) \ M /\ M \subseteq DOMAIN H /\ Maps(H) \subseteq DOMAIN H
    <3>1. M \subseteq Maps(H) /\ Maps(H) \subseteq DOMAIN H
      BY <1>6 DEF Maps
    <3>2. \A h \in kept : held[h].kind = H[h].kind
      BY <1>7
    <3> HIDE DEF held
    <3>3. Maps(held) = Maps(H) \ M
      BY <1>6, <3>2 DEF Maps
    <3> QED BY <3>1, <3>3
  <2> HIDE DEF M, held
  <2>2. IsFiniteSet(M) /\ IsFiniteSet(Maps(H))
    BY <1>2, <2>1, FS_Subset
  <2>3. Cardinality(Maps(H) \ M) = Cardinality(Maps(H)) - Cardinality(Maps(H) \cap M)
    BY <2>2, FS_Difference
  <2>4. Cardinality(M) \in Nat /\ Cardinality(Maps(H)) \in Nat
    BY <2>2, FS_CardinalityType
  <2> QED BY <2>1, <2>3, <2>4 DEF M
<1>10. Counted(new, E, other)
  <2>1. IsFiniteSet(DOMAIN new.handles) /\ DOMAIN new.handles \subseteq Nat \ {0} /\ DOMAIN new.handles = kept
    BY <1>1, <1>2, <1>6, <1>8
  <2>2. new.handles \in [DOMAIN new.handles -> Handle] /\ \A h \in DOMAIN new.handles : new.handles[h].refs = E[h]
    BY <1>1, <1>6, <1>7
  <2>3. new.usage = Cardinality(DOMAIN new.handles)
    BY <1>1, <1>2, <1>6, <1>8
  <2>4. new.allowed \in Nat /\ new.allowed + Cardinality(Maps(new.handles)) + other = MmapLimit
    <3>1. Cardinality(Maps(new.handles)) = Cardinality(Maps(held))
      BY <1>1
    <3> HIDE DEF held, closed
    <3> QED BY <1>1, <1>2, <1>9, <3>1
  <2> QED BY <1>5, <2>1, <2>2, <2>3, <2>4 DEF Counted, Counts
<1>11. \A h \in DOMAIN new.handles : h \in DOMAIN c.handles /\ new.handles[h].number = c.handles[h].number
  BY <1>1, <1>6, <1>7 DEF H
<1> QED BY <1>1, <1>10, <1>11 DEF E, new, Released

(* The listed handles stay as long as one reference is left of them. *)
LEMMA UnrefLinked ==
  ASSUME NEW c, IsCache(c), NEW expect \in [Nat -> Nat], NEW other \in Nat, Counted(c, expect, other),
         NEW hs \in SUBSET DOMAIN c.handles, NEW files, Linked(c, files),
         \A h \in ToSet(c.lru) : Less(expect, hs)[h] > 0
  PROVE  Linked(Unref(c, hs), files)
<1> DEFINE new == Unref(c, hs)
<1>1. /\ Counted(new, Less(expect, hs), other)
      /\ new.length = c.length /\ new.list = c.list /\ new.elems = c.elems /\ new.lru = c.lru
      /\ \A h \in DOMAIN new.handles : h \in DOMAIN c.handles /\ new.handles[h].number = c.handles[h].number
  <2>1. Released(new, c, Less(expect, hs), other)
    BY UnrefCounted
  <2> QED BY <2>1 DEF Released
<1> HIDE DEF new
<1>2. \A h \in ToSet(c.lru) : h \in DOMAIN new.handles
  <2> SUFFICES ASSUME NEW h \in ToSet(c.lru) PROVE h \in DOMAIN new.handles
    OBVIOUS
  <2>1. h \in Nat /\ Less(expect, hs)[h] > 0
    BY DEF Linked, Links, Counted, Counts
  <2> QED BY <1>1, <2>1 DEF Counted, Counts
<1>3. \A h \in ToSet(c.lru) : h \in DOMAIN new.handles /\ new.handles[h].number = c.handles[h].number
  BY <1>1, <1>2
<1>4. c.list = [b \in 0 .. c.length - 1 |-> {h \in ToSet(c.lru) : HashOf(new.handles[h].number) % c.length = b}]
  <2> DEFINE F(held) == [b \in 0 .. c.length - 1 |-> {h \in ToSet(c.lru) : HashOf(held[h].number) % c.length = b}]
  <2>1. F(new.handles) = F(c.handles)
    BY <1>3
  <2> QED BY <2>1 DEF Linked, Links
<1>5. /\ \A h \in ToSet(c.lru) : h \in DOMAIN new.handles /\ new.handles[h].number \in files
      /\ \A g, h \in ToSet(c.lru) : new.handles[g].number = new.handles[h].number => g = h
  BY <1>3 DEF Linked, Links
<1>6. Links(c.length, c.list, c.elems, c.lru, new.handles, files)
  BY <1>4, <1>5 DEF Linked, Links
<1> QED BY <1>1, <1>6 DEF new, Linked

(* What is linked depends on the entries of the list and their keys. *)
LEMMA SameLinks ==
  ASSUME NEW length, NEW list, NEW elems, NEW lru, NEW held, NEW files, Links(length, list, elems, lru, held, files),
         NEW lru2 \in Seq(Nat \ {0}), Distinct(lru2), ToSet(lru2) = ToSet(lru),
         NEW held2, \A h \in ToSet(lru) : h \in DOMAIN held2 /\ held2[h].number = held[h].number
  PROVE  Links(length, list, elems, lru2, held2, files)
<1> DEFINE F(k) == [b \in 0 .. length - 1 |-> {h \in ToSet(lru) : HashOf(k[h].number) % length = b}]
<1>1. F(held2) = F(held)
  OBVIOUS
<1>2. /\ \A h \in ToSet(lru) : h \in DOMAIN held2 /\ held2[h].number \in files
      /\ \A g, h \in ToSet(lru) : held2[g].number = held2[h].number => g = h
  BY DEF Links
<1>3. list = F(held2) /\ elems = Cardinality(ToSet(lru2)) /\ length \in Nat \ {0}
  BY <1>1 DEF Links
<1> QED BY <1>2, <1>3 DEF Links

(* The table and the list without some entries. *)
LEMMA RemoveLinks ==
  ASSUME NEW length, NEW list, NEW elems, NEW lru, NEW held, NEW files, Links(length, list, elems, lru, held, files),
         NEW hs \in SUBSET ToSet(lru),
         NEW rest \in Seq(Nat \ {0}), Distinct(rest), ToSet(rest) = ToSet(lru) \ hs,
         NEW left, \A h \in ToSet(rest) : held[h].number \in left
  PROVE  Links(length, [b \in DOMAIN list |-> list[b] \ hs], elems - Cardinality(hs), rest, held, left)
<1> DEFINE S == ToSet(lru)
           new == [b \in DOMAIN list |-> list[b] \ hs]
           F(T) == [b \in 0 .. length - 1 |-> {h \in T : HashOf(held[h].number) % length = b}]
<1>1. /\ list = F(S) /\ length \in Nat \ {0} /\ elems = Cardinality(S) /\ lru \in Seq(Nat \ {0}) /\ Distinct(lru)
      /\ \A h \in S : h \in DOMAIN held
      /\ \A g, h \in S : held[g].number = held[h].number => g = h
  BY DEF Links
<1>2. IsFiniteSet(S)
  BY <1>1, LengthOfList
<1>3. new = F(S \ hs)
  BY <1>1
<1>4. S \cap hs = hs
  OBVIOUS
<1> HIDE DEF S
<1>5. Cardinality(S \ hs) = elems - Cardinality(hs)
  <2>1. Cardinality(S \ hs) = Cardinality(S) - Cardinality(S \cap hs)
    BY <1>2, FS_Difference
  <2> QED BY <1>1, <1>4, <2>1
<1>6. new = F(ToSet(rest)) /\ elems - Cardinality(hs) = Cardinality(ToSet(rest))
  BY <1>3, <1>5 DEF S
<1>7. /\ \A h \in ToSet(rest) : h \in DOMAIN held /\ held[h].number \in left
      /\ \A g, h \in ToSet(rest) : held[g].number = held[h].number => g = h
  BY <1>1 DEF S
<1> HIDE DEF new
<1>8. Links(length, new, elems - Cardinality(hs), rest, held, left)
  BY <1>1, <1>6, <1>7 DEF Links
<1> QED BY <1>8 DEF new

(* The table after its buckets were laid out anew. *)
LEMMA ResizeLinks ==
  ASSUME NEW length, NEW list, NEW elems, NEW lru, NEW held, NEW files, Links(length, list, elems, lru, held, files),
         held \in [DOMAIN held -> Handle], NEW more \in Nat \ {0}
  PROVE  Links(more, [b \in 0 .. more - 1 |-> {h \in UNION {list[k] : k \in DOMAIN list} :
                                                  HashOf(held[h].number) % more = b}], elems, lru, held, files)
<1> DEFINE S == ToSet(lru)
           all == UNION {list[k] : k \in DOMAIN list}
<1>1. /\ list = [b \in 0 .. length - 1 |-> {h \in S : HashOf(held[h].number) % length = b}]
      /\ length \in Nat \ {0} /\ \A h \in S : h \in DOMAIN held
  BY DEF Links
<1>2. \A h \in S : HashOf(held[h].number) % length \in 0 .. length - 1
  <2> SUFFICES ASSUME NEW h \in S PROVE HashOf(held[h].number) % length \in 0 .. length - 1
    OBVIOUS
  <2>1. held[h] \in Handle
    BY <1>1
  <2>2. HashOf(held[h].number) \in Nat
    BY <2>1, TableCacheAssumption DEF Handle
  <2> QED BY <1>1, <2>2
<1>3. all = S
  <2>1. ASSUME NEW h \in all PROVE h \in S
    BY <1>1
  <2>2. ASSUME NEW h \in S PROVE h \in all
    <3> DEFINE k == HashOf(held[h].number) % length
    <3>1. k \in 0 .. length - 1
      BY <1>2
    <3>2. h \in list[k] /\ k \in DOMAIN list
      BY <1>1, <3>1
    <3> QED BY <3>2
  <2> QED BY <2>1, <2>2
<1> HIDE DEF all
<1>4. Links(more, [b \in 0 .. more - 1 |-> {h \in all : HashOf(held[h].number) % more = b}], elems, lru, held, files)
  BY <1>3 DEF Links
<1> QED BY <1>4 DEF all

(* The table and the list with one more entry. *)
LEMMA AddLinks ==
  ASSUME NEW length, NEW list, NEW elems, NEW lru, NEW held, NEW files, Links(length, list, elems, lru, held, files),
         NEW h \in (DOMAIN held) \ ToSet(lru), held[h].number \in files,
         \A g \in ToSet(lru) : held[g].number # held[h].number,
         NEW rest \in Seq(Nat \ {0}), Distinct(rest), ToSet(rest) = ToSet(lru) \cup {h}
  PROVE  Links(length, [list EXCEPT ![HashOf(held[h].number) % length] = @ \cup {h}], elems + 1, rest, held, files)
<1> DEFINE S == ToSet(lru)
           at == HashOf(held[h].number) % length
           new == [list EXCEPT ![at] = @ \cup {h}]
           F(T) == [b \in 0 .. length - 1 |-> {g \in T : HashOf(held[g].number) % length = b}]
<1>1. /\ list = F(S) /\ length \in Nat \ {0} /\ elems = Cardinality(S) /\ lru \in Seq(Nat \ {0}) /\ Distinct(lru)
      /\ \A g \in S : g \in DOMAIN held /\ held[g].number \in files
      /\ \A f, g \in S : held[f].number = held[g].number => f = g
  BY DEF Links
<1>2. IsFiniteSet(S)
  BY <1>1, LengthOfList
<1>3. new = F(S \cup {h})
  BY <1>1
<1>4. h \notin S
  OBVIOUS
<1> HIDE DEF S
<1>5. Cardinality(S \cup {h}) = elems + 1
  BY <1>1, <1>2, <1>4, FS_AddElement
<1>6. new = F(ToSet(rest)) /\ elems + 1 = Cardinality(ToSet(rest))
  BY <1>3, <1>5 DEF S
<1>7. /\ \A g \in ToSet(rest) : g \in DOMAIN held /\ held[g].number \in files
      /\ \A f, g \in ToSet(rest) : held[f].number = held[g].number => f = g
  BY <1>1 DEF S
<1> HIDE DEF new
<1>8. Links(length, new, elems + 1, rest, held, files)
  BY <1>1, <1>6, <1>7 DEF Links
<1> QED BY <1>8 DEF new

(* Entries leave the table and the list, and the cache's references go. *)
Dropped(c, hs, rest) == Unref([TableRemove(c, {c.handles[h].number : h \in hs}) EXCEPT !.lru = rest], hs)

(* No handle is new or has another key. *)
Keeps(new, c) ==
    \A h \in DOMAIN new.handles : h \in DOMAIN c.handles /\ new.handles[h].number = c.handles[h].number

(* The keys of listed entries are found at these entries. *)
LEMMA FoundAre ==
  ASSUME NEW c, NEW files, Linked(c, files), c.handles \in [DOMAIN c.handles -> Handle], NEW hs \in SUBSET ToSet(c.lru)
  PROVE  {Find(c, n) : n \in {c.handles[h].number : h \in hs}} \ {0} = hs
<1>1. ASSUME NEW h \in hs PROVE Find(c, c.handles[h].number) = h /\ h # 0
  <2>1. h \in ToSet(c.lru) /\ h \in DOMAIN c.handles
    BY DEF Linked, Links
  <2>2. c.handles[h].number \in TableNumbers
    BY <2>1 DEF Handle
  <2> DEFINE n == c.handles[h].number
             f == Find(c, n)
  <2>3. f # 0 /\ f \in ToSet(c.lru) /\ c.handles[f].number = n
    <3> HIDE DEF n
    <3>1. \/ f = 0 /\ \A k \in ToSet(c.lru) : c.handles[k].number # n
          \/ f # 0 /\ f \in ToSet(c.lru) /\ c.handles[f].number = n
      BY <2>2, FindIs DEF n
    <3> QED BY <2>1, <3>1 DEF n
  <2> HIDE DEF f
  <2>4. f = h
    BY <2>1, <2>3 DEF Linked, Links
  <2> QED BY <2>3, <2>4 DEF f
<1> QED BY <1>1

(* A handle of the list is held by the cache. *)
LEMMA ListedIsHeld ==
  ASSUME NEW c, NEW users, NEW other, NEW files, Good(c, users, other, files)
  PROVE  /\ ToSet(c.lru) \subseteq DOMAIN c.handles /\ DOMAIN c.handles \subseteq Nat \ {0}
         /\ c.lru \in Seq(Nat \ {0}) /\ Distinct(c.lru)
         /\ c.handles \in [DOMAIN c.handles -> Handle] /\ IsFiniteSet(DOMAIN c.handles)
BY DEF Good, Counted, Counts, Linked, Links

(* The expected references without those of entries the cache gives up. *)
LEMMA ExpectedLess ==
  ASSUME NEW users \in [Nat -> Nat], NEW lru, NEW hs \in SUBSET ToSet(lru), NEW rest, ToSet(rest) = ToSet(lru) \ hs
  PROVE  Less(Expected(users, lru), hs) = Expected(users, rest)
<1>1. ASSUME NEW h \in Nat PROVE Less(Expected(users, lru), hs)[h] = Expected(users, rest)[h]
  <2>1. users[h] \in Nat
    OBVIOUS
  <2> QED BY <2>1 DEF Less, Expected
<1> QED BY <1>1 DEF Less, Expected

(* The expected references are numbers. *)
LEMMA ExpectedIs ==
  ASSUME NEW users \in [Nat -> Nat], NEW lru
  PROVE  /\ Expected(users, lru) \in [Nat -> Nat]
         /\ \A h \in Nat : Expected(users, lru)[h] = users[h] + IF h \in ToSet(lru) THEN 1 ELSE 0
BY DEF Expected

(* The cache stays good when it drops entries. *)
LEMMA DroppedGood ==
  ASSUME NEW c, NEW users, NEW other \in Nat, NEW files, Good(c, users, other, files),
         NEW hs \in SUBSET ToSet(c.lru),
         NEW rest \in Seq(Nat \ {0}), Distinct(rest), ToSet(rest) = ToSet(c.lru) \ hs,
         NEW left, \A h \in ToSet(rest) : c.handles[h].number \in left
  PROVE  /\ Good(Dropped(c, hs, rest), users, other, left) /\ Dropped(c, hs, rest).lru = rest
         /\ Keeps(Dropped(c, hs, rest), c)
<1> DEFINE N == {c.handles[h].number : h \in hs}
           found == {Find(c, n) : n \in N} \ {0}
           list == [b \in DOMAIN c.list |-> c.list[b] \ hs]
           elems == c.elems - Cardinality(hs)
           out == [TableRemove(c, N) EXCEPT !.lru = rest]
           new == Unref(out, hs)
           E == Expected(users, c.lru)
<1>0. IsCache(c) /\ users \in [Nat -> Nat] /\ Counted(c, E, other) /\ Linked(c, files)
  BY DEF Good
<1>1. found = hs
  BY <1>0, ListedIsHeld, FoundAre
<1>2. out = [c EXCEPT !.list = list, !.elems = elems, !.lru = rest]
  <2> HIDE DEF N
  <2>1. TableRemove(c, N) = [c EXCEPT !.list = [b \in DOMAIN c.list |-> c.list[b] \ found], !.elems = @ - Cardinality(found)]
    BY DEF TableRemove
  <2> HIDE DEF found
  <2>2. TableRemove(c, N) = [c EXCEPT !.list = list, !.elems = elems]
    BY <1>1, <2>1
  <2> QED BY <1>0, <2>2 DEF IsCache
<1> HIDE DEF N, found, list, elems, out
<1>3. /\ IsCache(out) /\ out.length = c.length /\ out.list = list /\ out.elems = elems /\ out.lru = rest
      /\ out.usage = c.usage /\ out.handles = c.handles /\ out.allowed = c.allowed
  BY <1>0, <1>2 DEF IsCache
<1>4. Linked(out, left)
  <2>1. Links(c.length, c.list, c.elems, c.lru, c.handles, files)
    BY <1>0 DEF Linked
  <2>2. Links(c.length, list, elems, rest, c.handles, left)
    BY <2>1, RemoveLinks DEF list, elems
  <2> QED BY <1>3, <2>2 DEF Linked
<1>5. Counted(out, E, other)
  BY <1>0, <1>3 DEF Counted
<1>6. hs \in SUBSET DOMAIN out.handles /\ E \in [Nat -> Nat] /\ Less(E, hs) = Expected(users, rest)
  <2>1. hs \in SUBSET DOMAIN out.handles
    BY <1>3, ListedIsHeld
  <2>2. Less(E, hs) = Expected(users, rest)
    BY <1>0, ExpectedLess
  <2> QED BY <1>0, <2>1, <2>2, ExpectedIs
<1> HIDE DEF E
<1>7. /\ IsCache(new) /\ Counted(new, Less(E, hs), other) /\ new.lru = rest
      /\ \A h \in DOMAIN new.handles : h \in DOMAIN out.handles /\ new.handles[h].number = out.handles[h].number
  <2>1. Released(new, out, Less(E, hs), other)
    BY <1>3, <1>5, <1>6, UnrefCounted
  <2> QED BY <1>3, <2>1 DEF Released
<1>8. Linked(new, left)
  <2>1. ASSUME NEW h \in ToSet(out.lru) PROVE Less(E, hs)[h] > 0
    <3>1. ToSet(c.lru) \subseteq Nat
      BY ListedIsHeld
    <3>2. h \in Nat /\ h \in ToSet(rest)
      BY <1>3, <3>1
    <3>3. Expected(users, rest)[h] = users[h] + 1 /\ users[h] \in Nat
      BY <1>0, <3>2, ExpectedIs
    <3>4. Expected(users, rest)[h] > 0
      BY ONLY <3>3
    <3>5. Less(E, hs) = Expected(users, rest)
      BY <1>6
    <3> QED BY ONLY <3>4, <3>5
  <2> QED BY <1>3, <1>4, <1>5, <1>6, <2>1, UnrefLinked
<1> HIDE DEF new
<1>9. Dropped(c, hs, rest) = new
  BY DEF Dropped, new, out, N
<1>10. Good(new, users, other, left)
  BY <1>0, <1>6, <1>7, <1>8 DEF Good
<1>11. Keeps(new, c)
  BY <1>3, <1>7 DEF Keeps
<1> QED BY <1>7, <1>9, <1>10, <1>11

(* The cache stays good when its oldest entries are dropped. *)
LEMMA EvictedGood ==
  ASSUME NEW c, NEW users, NEW other \in Nat, NEW files, Good(c, users, other, files), NEW n \in 0 .. Len(c.lru)
  PROVE  /\ Good(Evicted(c, n), users, other, files) /\ Keeps(Evicted(c, n), c)
         /\ Len(Evicted(c, n).lru) = Len(c.lru) - n /\ Evicted(c, n).lru \in Seq(Nat \ {0})
<1> DEFINE hs == {c.lru[i] : i \in 1 .. n}
           N == {c.handles[h].number : h \in hs}
           rest == SubSeq(c.lru, n + 1, Len(c.lru))
<1>1. c.lru \in Seq(Nat \ {0}) /\ Distinct(c.lru) /\ IsCache(c) /\ Linked(c, files)
  BY DEF Good, Linked, Links
<1>2. /\ rest \in Seq(Nat \ {0}) /\ Distinct(rest) /\ Len(rest) = Len(c.lru) - n /\ ToSet(rest) = ToSet(c.lru) \ hs
  BY <1>1, DropList
<1>3. TableRemove(c, N).lru = c.lru
  <2> HIDE DEF N
  <2> DEFINE found == {Find(c, k) : k \in N} \ {0}
             list == [b \in DOMAIN c.list |-> c.list[b] \ found]
             elems == c.elems - Cardinality(found)
  <2>1. TableRemove(c, N) = [c EXCEPT !.list = list, !.elems = elems]
    BY DEF TableRemove
  <2> HIDE DEF list, elems
  <2> QED BY <1>1, <2>1 DEF IsCache
<1>4. Evicted(c, n) = Dropped(c, hs, rest)
  BY <1>3 DEF Evicted, Dropped
<1>5. hs \in SUBSET ToSet(c.lru)
  BY <1>1 DEF ToSet
<1>6. \A h \in ToSet(rest) : c.handles[h].number \in files
  BY <1>1, <1>2 DEF Linked, Links
<1> HIDE DEF hs, rest
<1>7. /\ Good(Dropped(c, hs, rest), users, other, files) /\ Dropped(c, hs, rest).lru = rest
      /\ Keeps(Dropped(c, hs, rest), c)
  BY <1>2, <1>5, <1>6, DroppedGood
<1> QED BY <1>2, <1>4, <1>7

(* The list is never longer than the charge. *)
LEMMA ListWithinUsage ==
  ASSUME NEW c, NEW users, NEW other, NEW files, Good(c, users, other, files)
  PROVE  c.usage \in Nat /\ Len(c.lru) \in Nat /\ Len(c.lru) <= c.usage
<1> DEFINE S == ToSet(c.lru)
           D == DOMAIN c.handles
<1>1. /\ S \subseteq D /\ IsFiniteSet(D) /\ c.lru \in Seq(Nat \ {0}) /\ Distinct(c.lru) /\ c.usage = Cardinality(D)
  BY DEF Good, Counted, Counts, Linked, Links
<1>2. Cardinality(S) = Len(c.lru)
  BY <1>1, LengthOfList
<1> HIDE DEF S, D
<1>3. Cardinality(S) <= Cardinality(D) /\ Cardinality(D) \in Nat
  BY <1>1, FS_Subset, FS_CardinalityType
<1>4. Len(c.lru) \in Nat
  BY <1>1
<1> QED BY <1>1, <1>2, <1>3, <1>4

(* The loop ends, with the list within the capacity. *)
LEMMA MakeRoomGood ==
  ASSUME NEW c, NEW users, NEW other \in Nat, NEW files, Good(c, users, other, files)
  PROVE  /\ Good(MakeRoom(c), users, other, files) /\ Keeps(MakeRoom(c), c)
         /\ Len(MakeRoom(c).lru) <= CacheCapacity
<1> DEFINE len == Len(c.lru)
           Ends(n) == ~ GoesOn(Evicted(c, n)) /\ \A m \in 0 .. n - 1 : GoesOn(Evicted(c, m))
           stop == {n \in 0 .. len : ~ GoesOn(Evicted(c, n))}
<1>1. len \in Nat
  BY ListWithinUsage
<1> HIDE DEF len
<1>2. len \in stop
  <2>1. len \in 0 .. len
    BY <1>1
  <2>2. Len(Evicted(c, len).lru) = 0 /\ Evicted(c, len).lru \in Seq(Nat \ {0})
    <3>1. Len(Evicted(c, len).lru) = len - len /\ Evicted(c, len).lru \in Seq(Nat \ {0})
      BY <2>1, EvictedGood DEF len
    <3> QED BY <1>1, <3>1
  <2>3. Evicted(c, len).lru = <<>>
    BY <2>2
  <2> QED BY <2>1, <2>3 DEF GoesOn
<1>3. \E n \in 0 .. len : Ends(n)
  <2>1. stop \subseteq Nat
    OBVIOUS
  <2>2. PICK n \in stop : \A m \in stop : n <= m
    <3> HIDE DEF stop
    <3> QED BY <1>2, <2>1, LeastNatural
  <2>3. ASSUME NEW m \in 0 .. n - 1 PROVE GoesOn(Evicted(c, m))
    <3>1. m \in 0 .. len /\ ~ (n <= m)
      BY <1>1
    <3> QED BY <2>2, <3>1
  <2> QED BY <2>2, <2>3
<1> DEFINE n == CHOOSE k \in 0 .. len : Ends(k)
<1>4. n \in 0 .. len /\ Ends(n)
  <2> HIDE DEF Ends
  <2> QED BY <1>3
<1>5. MakeRoom(c) = Evicted(c, n)
  BY DEF MakeRoom, len
<1> HIDE DEF n
<1> DEFINE new == Evicted(c, n)
<1>6. Good(new, users, other, files) /\ Keeps(new, c) /\ new.lru \in Seq(Nat \ {0})
  BY <1>4, EvictedGood DEF len
<1>7. ~ GoesOn(new)
  BY <1>4
<1> HIDE DEF new
<1>8. Len(new.lru) <= new.usage /\ new.usage \in Nat /\ Len(new.lru) \in Nat
  BY <1>6, ListWithinUsage
<1>9. Len(new.lru) <= CacheCapacity
  <2>1. CASE new.lru = <<>>
    BY <2>1, TableCacheAssumption
  <2>2. CASE ~ (new.usage > CacheCapacity)
    BY <1>8, <2>2, TableCacheAssumption
  <2> QED BY <1>7, <2>1, <2>2 DEF GoesOn
<1> QED BY <1>5, <1>6, <1>9 DEF new

(* A key is found at the same entry as long as the table and the keys stay. *)
LEMMA FindSame ==
  ASSUME NEW c, NEW files, Linked(c, files), NEW d, d.length = c.length, d.list = c.list,
         \A g \in ToSet(c.lru) : d.handles[g].number = c.handles[g].number, NEW n \in TableNumbers
  PROVE  Find(d, n) = Find(c, n)
<1> DEFINE b == HashOf(n) % c.length
           At(e) == {g \in c.list[b] : e.handles[g].number = n}
<1>1. b \in 0 .. c.length - 1
  <2>1. HashOf(n) \in Nat /\ c.length \in Nat \ {0}
    BY TableCacheAssumption DEF Linked, Links
  <2> QED BY <2>1
<1>2. c.list[b] \subseteq ToSet(c.lru)
  BY <1>1 DEF Linked, Links
<1>3. At(d) = At(c)
  BY <1>2
<1>4. Find(d, n) = (IF At(d) = {} THEN 0 ELSE CHOOSE g \in At(d) : TRUE)
  BY DEF Find, Bucket
<1>5. Find(c, n) = (IF At(c) = {} THEN 0 ELSE CHOOSE g \in At(c) : TRUE)
  BY DEF Find, Bucket
<1> HIDE DEF At
<1> QED BY <1>3, <1>4, <1>5

(* The handles with one more. *)
AddHandle(held, h, e) == [i \in DOMAIN held \cup {h} |-> IF i = h THEN e ELSE held[i]]

(* A new handle and its reference add up. *)
LEMMA AddCounts ==
  ASSUME NEW held, NEW usage, NEW slots, NEW expect \in [Nat -> Nat], NEW other,
         Counts(held, usage, slots, expect, other),
         NEW h \in Nat \ {0}, h \notin DOMAIN held, NEW e \in Handle, e.refs > 0,
         NEW more \in [Nat -> Nat], more[h] = e.refs, \A g \in Nat : g # h => more[g] = expect[g],
         NEW less \in Nat, other = less + (IF e.kind = "mmap" THEN 1 ELSE 0)
  PROVE  Counts(AddHandle(held, h, e), usage + 1, slots, more, less)
<1> DEFINE D == DOMAIN held
           new == [i \in D \cup {h} |-> IF i = h THEN e ELSE held[i]]
           M == Maps(held)
<1>1. /\ IsFiniteSet(D) /\ D \subseteq Nat \ {0} /\ \A g \in D : held[g] \in Handle /\ held[g].refs = expect[g]
      /\ \A g \in Nat : expect[g] > 0 <=> g \in D
      /\ usage = Cardinality(D) /\ slots \in Nat /\ slots + Cardinality(M) + other = MmapLimit
  BY DEF Counts
<1>2. DOMAIN new = D \cup {h} /\ new[h] = e /\ \A g \in D : new[g] = held[g]
  OBVIOUS
<1>3. M \subseteq D /\ h \notin D /\ h \notin M
  BY DEF Maps
<1>4. Maps(new) = IF e.kind = "mmap" THEN M \cup {h} ELSE M
  BY <1>2, <1>3 DEF Maps
<1>5. new \in [D \cup {h} -> Handle]
  BY <1>1
<1>6. /\ \A g \in D \cup {h} : new[g].refs = more[g]
      /\ \A g \in Nat : more[g] > 0 <=> g \in D \cup {h}
  BY <1>1, <1>2, <1>3
<1> HIDE DEF D, M, new
<1>7. IsFiniteSet(D \cup {h}) /\ Cardinality(D \cup {h}) = usage + 1
  BY <1>1, <1>3, FS_AddElement
<1>8. IsFiniteSet(M) /\ Cardinality(M) \in Nat /\ Cardinality(M \cup {h}) = Cardinality(M) + 1
  <2>1. IsFiniteSet(M)
    BY <1>1, <1>3, FS_Subset
  <2> QED BY <1>3, <2>1, FS_AddElement, FS_CardinalityType
<1>9. slots + Cardinality(Maps(new)) + less = MmapLimit
  <2>1. CASE e.kind = "mmap"
    <3>1. Cardinality(Maps(new)) = Cardinality(M) + 1 /\ other = less + 1
      BY <1>4, <1>8, <2>1
    <3> QED BY <1>1, <1>8, <3>1
  <2>2. CASE e.kind # "mmap"
    <3>1. Cardinality(Maps(new)) = Cardinality(M) /\ other = less
      BY <1>4, <2>2
    <3> QED BY <1>1, <1>8, <3>1
  <2> QED BY <2>1, <2>2
<1>10. Counts(new, usage + 1, slots, more, less)
  BY <1>1, <1>2, <1>5, <1>6, <1>7, <1>9 DEF Counts
<1> QED BY <1>10 DEF new, D, AddHandle

(* The handle and its table as Insert makes them, before it is linked. *)
Fresh(c, h, e) ==
    [c EXCEPT !.handles = [i \in DOMAIN c.handles \cup {h} |-> IF i = h THEN e ELSE c.handles[i]],
              !.lru = LRU_Append(@, h), !.usage = @ + 1]

FreshIs(f, c, h, e) ==
    /\ IsCache(f) /\ f.length = c.length /\ f.list = c.list /\ f.elems = c.elems /\ f.allowed = c.allowed
    /\ f.lru = LRU_Append(c.lru, h) /\ f.usage = c.usage + 1
    /\ f.handles = AddHandle(c.handles, h, e)

(* What the new handle changes. *)
LEMMA FreshFields ==
  ASSUME NEW c, IsCache(c), NEW h, NEW e
  PROVE  FreshIs(Fresh(c, h, e), c, h, e)
<1> DEFINE held == AddHandle(c.handles, h, e)
           f == Fresh(c, h, e)
<1>1. f = [c EXCEPT !.handles = held, !.lru = LRU_Append(c.lru, h), !.usage = c.usage + 1]
  BY DEF Fresh, AddHandle
<1> HIDE DEF f, held
<1>2. /\ IsCache(f) /\ f.length = c.length /\ f.list = c.list /\ f.elems = c.elems /\ f.allowed = c.allowed
      /\ f.lru = LRU_Append(c.lru, h) /\ f.usage = c.usage + 1 /\ f.handles = held
  BY <1>1 DEF IsCache
<1> QED BY <1>2 DEF FreshIs, f, held

(* The references after a handle was made. *)
LEMMA FreshCounted ==
  ASSUME NEW c, NEW users, NEW other, NEW files, Good(c, users, other, files),
         NEW h \in Nat \ {0}, h \notin DOMAIN c.handles, NEW e \in Handle, e.refs = 2,
         NEW less \in Nat, other = less + (IF e.kind = "mmap" THEN 1 ELSE 0), NEW f, FreshIs(f, c, h, e)
  PROVE  /\ users[h] = 0 /\ h \notin ToSet(c.lru)
         /\ [users EXCEPT ![h] = @ + 1] \in [Nat -> Nat]
         /\ Counted(f, Expected([users EXCEPT ![h] = @ + 1], f.lru), less)
<1> DEFINE more == [users EXCEPT ![h] = @ + 1]
           E == Expected(users, c.lru)
           E2 == Expected(more, f.lru)
<1>1. users \in [Nat -> Nat] /\ Counts(c.handles, c.usage, c.allowed, E, other)
  BY DEF Good, Counted
<1>2. /\ E \in [Nat -> Nat] /\ \A g \in Nat : E[g] = users[g] + IF g \in ToSet(c.lru) THEN 1 ELSE 0
  BY <1>1, ExpectedIs
<1>3. ~ (E[h] > 0)
  <2> HIDE DEF E
  <2> QED BY <1>1 DEF Counts
<1>4. users[h] = 0 /\ h \notin ToSet(c.lru)
  <2> HIDE DEF E
  <2>1. users[h] \in Nat /\ E[h] = users[h] + IF h \in ToSet(c.lru) THEN 1 ELSE 0
    BY <1>1, <1>2
  <2>2. CASE h \in ToSet(c.lru)
    <3>1. E[h] = users[h] + 1
      BY <2>1, <2>2
    <3> QED BY ONLY <1>3, <2>1, <3>1
  <2>3. CASE h \notin ToSet(c.lru)
    <3>1. E[h] = users[h]
      BY <2>1, <2>3
    <3>2. users[h] \in Nat /\ ~ (E[h] > 0)
      BY <1>3, <2>1
    <3> QED BY ONLY <2>3, <3>1, <3>2
  <2> QED BY <2>2, <2>3
<1>5. more \in [Nat -> Nat] /\ more[h] = 1 /\ \A g \in Nat : g # h => more[g] = users[g]
  BY <1>1, <1>4
<1>6. ToSet(f.lru) = ToSet(c.lru) \cup {h}
  <2>1. c.lru \in Seq(Nat \ {0}) /\ Distinct(c.lru)
    BY ListedIsHeld
  <2>2. ToSet(LRU_Append(c.lru, h)) = ToSet(c.lru) \cup {h}
    BY <1>4, <2>1, AppendList
  <2> QED BY <2>2 DEF FreshIs
<1> HIDE DEF more
<1>7. /\ E2 \in [Nat -> Nat] /\ \A g \in Nat : E2[g] = more[g] + IF g \in ToSet(f.lru) THEN 1 ELSE 0
  BY <1>5, ExpectedIs
<1> HIDE DEF E, E2
<1>8. E2[h] = 2 /\ \A g \in Nat : g # h => E2[g] = E[g]
  <2>1. E2[h] = 2
    BY <1>5, <1>6, <1>7
  <2>2. \A g \in Nat : g # h => E2[g] = E[g]
    <3> SUFFICES ASSUME NEW g \in Nat, g # h PROVE E2[g] = E[g]
      OBVIOUS
    <3>1. g \in ToSet(f.lru) <=> g \in ToSet(c.lru)
      BY <1>6
    <3>2. /\ E2[g] = more[g] + IF g \in ToSet(f.lru) THEN 1 ELSE 0
          /\ E[g] = users[g] + IF g \in ToSet(c.lru) THEN 1 ELSE 0
          /\ more[g] = users[g]
      BY <1>2, <1>5, <1>7
    <3> QED BY ONLY <3>1, <3>2
  <2> QED BY <2>1, <2>2
<1>9. e.refs > 0 /\ E2[h] = e.refs
  BY <1>8
<1>10. Counts(AddHandle(c.handles, h, e), c.usage + 1, c.allowed, E2, less)
  BY <1>1, <1>2, <1>7, <1>8, <1>9, AddCounts
<1>11. Counted(f, E2, less)
  BY <1>10 DEF Counted, FreshIs
<1> QED BY <1>4, <1>5, <1>11 DEF more, E2

(* The situation in which Insert links a new handle. *)
Linking(c, users, other, files, h, e, less, f) ==
    /\ Good(c, users, other, files) /\ FreshIs(f, c, h, e)
    /\ h \in Nat \ {0} /\ h \notin DOMAIN c.handles
    /\ e \in Handle /\ e.refs = 2 /\ e.number \in files
    /\ less \in Nat /\ other = less + (IF e.kind = "mmap" THEN 1 ELSE 0)
MoreUsers(users, h) == [users EXCEPT ![h] = @ + 1]

(* What is known of it before the table is changed. *)
LinkReady(c, users, files, h, e, less, f) ==
    /\ IsCache(f) /\ MoreUsers(users, h) \in [Nat -> Nat]
    /\ Counted(f, Expected(MoreUsers(users, h), f.lru), less)
    /\ f.lru \in Seq(Nat \ {0}) /\ Distinct(f.lru) /\ ToSet(f.lru) = ToSet(c.lru) \cup {h} /\ h \notin ToSet(c.lru)
    /\ Links(f.length, f.list, f.elems, c.lru, f.handles, files)
    /\ h \in DOMAIN f.handles /\ f.handles[h] = e /\ f.handles \in [DOMAIN f.handles -> Handle]
    /\ e.number \in TableNumbers /\ Find(f, e.number) = Find(c, e.number)

(* This is known of it. *)
LEMMA LinkingFacts ==
  ASSUME NEW c, NEW users, NEW other, NEW files, NEW h, NEW e, NEW less, NEW f,
         Linking(c, users, other, files, h, e, less, f)
  PROVE  LinkReady(c, users, files, h, e, less, f)
<1>1. /\ Good(c, users, other, files) /\ FreshIs(f, c, h, e) /\ h \in Nat \ {0} /\ h \notin DOMAIN c.handles
      /\ e \in Handle /\ e.refs = 2 /\ less \in Nat /\ other = less + (IF e.kind = "mmap" THEN 1 ELSE 0)
  BY DEF Linking
<1>2. /\ h \notin ToSet(c.lru) /\ MoreUsers(users, h) \in [Nat -> Nat]
      /\ Counted(f, Expected(MoreUsers(users, h), f.lru), less)
  BY <1>1, FreshCounted DEF MoreUsers
<1>3. /\ IsCache(f) /\ f.length = c.length /\ f.list = c.list /\ f.elems = c.elems /\ f.lru = LRU_Append(c.lru, h)
      /\ f.handles = AddHandle(c.handles, h, e)
  BY <1>1 DEF FreshIs
<1>4. c.lru \in Seq(Nat \ {0}) /\ Distinct(c.lru) /\ ToSet(c.lru) \subseteq DOMAIN c.handles
  BY <1>1, ListedIsHeld
<1>5. f.lru \in Seq(Nat \ {0}) /\ Distinct(f.lru) /\ ToSet(f.lru) = ToSet(c.lru) \cup {h}
  <2>1. LET r == LRU_Append(c.lru, h) IN r \in Seq(Nat \ {0}) /\ Distinct(r) /\ ToSet(r) = ToSet(c.lru) \cup {h}
    <3>1. c.lru \in Seq(Nat \ {0}) /\ h \in Nat \ {0} /\ Distinct(c.lru) /\ h \notin ToSet(c.lru)
      BY <1>1, <1>2, <1>4
    <3> QED BY ONLY <3>1, AppendList
  <2> QED BY <1>3, <2>1
<1>6. h \in DOMAIN f.handles /\ f.handles[h] = e /\ \A g \in DOMAIN c.handles : g \in DOMAIN f.handles /\ f.handles[g] = c.handles[g]
  BY <1>1, <1>3 DEF AddHandle
<1>7. Links(c.length, c.list, c.elems, c.lru, c.handles, files)
  BY <1>1 DEF Good, Linked
<1>8. \A g \in ToSet(c.lru) : g \in DOMAIN f.handles /\ f.handles[g].number = c.handles[g].number
  BY <1>4, <1>6
<1>9. Links(c.length, c.list, c.elems, c.lru, f.handles, files)
  BY <1>4, <1>7, <1>8, SameLinks
<1>10. e.number \in TableNumbers
  BY <1>1 DEF Handle
<1>11. Find(f, e.number) = Find(c, e.number)
  <2>1. Linked(c, files)
    BY <1>7 DEF Linked
  <2> QED BY <1>3, <1>8, <1>10, <2>1, FindSame
<1>12. f.handles \in [DOMAIN f.handles -> Handle]
  BY <1>2 DEF Counted, Counts
<1> QED BY <1>2, <1>3, <1>5, <1>6, <1>9, <1>10, <1>11, <1>12 DEF LinkReady

(* A key that is not there is added, and the table grows when it is full. *)
LEMMA PutNew ==
  ASSUME NEW c, NEW users, NEW other, NEW files, NEW h, NEW e, NEW less, NEW f,
         Linking(c, users, other, files, h, e, less, f), Find(c, e.number) = 0
  PROVE  Good(TableInsert(f, h), MoreUsers(users, h), less, files) /\ TableInsert(f, h).handles = f.handles
<1> DEFINE n == e.number
           more == MoreUsers(users, h)
           at == HashOf(n) % f.length
           L == [f.list EXCEPT ![at] = @ \cup {h}]
           p == [f EXCEPT !.list = L, !.elems = f.elems + 1]
<1>1. /\ IsCache(f) /\ more \in [Nat -> Nat] /\ Counted(f, Expected(more, f.lru), less)
      /\ f.lru \in Seq(Nat \ {0}) /\ Distinct(f.lru) /\ ToSet(f.lru) = ToSet(c.lru) \cup {h} /\ h \notin ToSet(c.lru)
      /\ Links(f.length, f.list, f.elems, c.lru, f.handles, files)
      /\ h \in DOMAIN f.handles /\ f.handles[h] = e /\ f.handles \in [DOMAIN f.handles -> Handle]
      /\ n \in TableNumbers /\ Find(f, n) = 0
  <2>1. LinkReady(c, users, files, h, e, less, f)
    BY LinkingFacts
  <2> QED BY <2>1 DEF LinkReady
<1>2. at \in 0 .. f.length - 1 /\ f.list[at] \subseteq ToSet(c.lru) /\ 0 \notin ToSet(c.lru) /\ f.elems \in Nat
  <2>1. HashOf(n) \in Nat /\ f.length \in Nat \ {0}
    BY <1>1, TableCacheAssumption DEF Links
  <2>2. at \in 0 .. f.length - 1
    BY <2>1
  <2>3. f.list[at] \subseteq ToSet(c.lru)
    BY <1>1, <2>2 DEF Links
  <2>4. c.lru \in Seq(Nat \ {0}) /\ Distinct(c.lru) /\ f.elems = Cardinality(ToSet(c.lru))
    BY <1>1 DEF Links
  <2>5. 0 \notin ToSet(c.lru)
    BY <2>4 DEF ToSet
  <2>6. f.elems = Len(c.lru)
    BY <2>4, LengthOfList
  <2> QED BY <2>2, <2>3, <2>4, <2>5, <2>6
<1>3. TableInsert(f, h) = IF p.elems > f.length THEN Resize(p) ELSE p
  <2>1. L = [f.list EXCEPT ![at] = (@ \ {0}) \cup {h}]
    BY <1>2
  <2>2. p = [f EXCEPT !.list[Bucket(f, n)] = (@ \ {0}) \cup {h}, !.elems = IF Find(f, n) = 0 THEN @ + 1 ELSE @]
    <3> HIDE DEF L
    <3>1. f.list = f["list"] /\ at = Bucket(f, n)
      BY DEF Bucket
    <3> QED BY <1>1, <2>1, <3>1
  <2> HIDE DEF p
  <2> QED BY <1>1, <2>2 DEF TableInsert
<1> HIDE DEF L
<1>4. /\ IsCache(p) /\ p.length = f.length /\ p.list = L /\ p.elems = f.elems + 1 /\ p.lru = f.lru
      /\ p.usage = f.usage /\ p.handles = f.handles /\ p.allowed = f.allowed
  <2> DEFINE m == f.elems + 1
  <2>1. IsCache(f) /\ p = [f EXCEPT !.list = L, !.elems = m]
    BY <1>1
  <2> HIDE DEF p, m
  <2>2. /\ IsCache(p) /\ p.length = f.length /\ p.list = L /\ p.elems = m /\ p.lru = f.lru
        /\ p.usage = f.usage /\ p.handles = f.handles /\ p.allowed = f.allowed
    BY <2>1 DEF IsCache
  <2> QED BY <2>2 DEF m
<1> HIDE DEF p
<1>5. Links(f.length, L, f.elems + 1, f.lru, f.handles, files)
  <2>1. \A g \in ToSet(c.lru) : f.handles[g].number # f.handles[h].number
    <3>1. Good(c, users, other, files)
      BY DEF Linking
    <3>2. Linked(c, files)
      BY <3>1 DEF Good
    <3>3. \A g \in ToSet(c.lru) : c.handles[g].number # n
      BY <1>1, <3>2, FindIs
    <3>4. \A g \in ToSet(c.lru) : f.handles[g].number = c.handles[g].number
      <4>1. f.handles = AddHandle(c.handles, h, e) /\ h \notin DOMAIN c.handles
        BY DEF Linking, FreshIs
      <4>2. ToSet(c.lru) \subseteq DOMAIN c.handles
        BY <3>1, ListedIsHeld
      <4> QED BY <4>1, <4>2 DEF AddHandle
    <3> QED BY <1>1, <3>3, <3>4
  <2>2. f.handles[h].number \in files
    BY <1>1 DEF Linking
  <2>3. Links(f.length, [f.list EXCEPT ![HashOf(f.handles[h].number) % f.length] = @ \cup {h}], f.elems + 1, f.lru, f.handles, files)
    BY <1>1, <2>1, <2>2, AddLinks
  <2> QED BY <1>1, <2>3 DEF L
<1>6. Linked(p, files) /\ Counted(p, Expected(more, p.lru), less)
  BY <1>1, <1>4, <1>5 DEF Linked, Counted
<1>7. Good(p, more, less, files)
  BY <1>1, <1>4, <1>6 DEF Good
<1>8. Good(Resize(p), more, less, files) /\ Resize(p).handles = f.handles
  <2> DEFINE len == NewLength(p.elems)
             list == [b \in 0 .. len - 1 |-> {k \in UNION {p.list[j] : j \in DOMAIN p.list} :
                                                 HashOf(p.handles[k].number) % len = b}]
             r == Resize(p)
  <2>1. len \in Nat \ {0}
    <3>1. p.elems \in Nat
      BY <1>2, <1>4
    <3> QED BY <3>1, NewLengthIsPositive
  <2>2. r = [p EXCEPT !.length = len, !.list = list]
    BY DEF Resize
  <2> HIDE DEF len, r
  <2>3. Links(len, list, p.elems, p.lru, p.handles, files)
    <3>1. Links(p.length, p.list, p.elems, p.lru, p.handles, files) /\ p.handles \in [DOMAIN p.handles -> Handle]
      BY <1>1, <1>4, <1>6 DEF Linked
    <3> QED BY <2>1, <3>1, ResizeLinks
  <2> HIDE DEF list
  <2>4. /\ IsCache(r) /\ r.length = len /\ r.list = list /\ r.elems = p.elems /\ r.lru = p.lru
        /\ r.usage = p.usage /\ r.handles = p.handles /\ r.allowed = p.allowed
    BY <1>4, <2>2 DEF IsCache
  <2>5. Linked(r, files) /\ Counted(r, Expected(more, r.lru), less)
    BY <1>6, <2>3, <2>4 DEF Linked, Counted
  <2>6. Good(r, more, less, files)
    BY <1>1, <2>4, <2>5 DEF Good
  <2> QED BY <1>4, <2>4, <2>6 DEF r
<1> QED BY <1>3, <1>4, <1>7, <1>8

(* A key that is there is replaced and its old handle let go. *)
Replaced(f, h, old) == Unref([TableInsert(f, h) EXCEPT !.lru = LRU_Remove(@, old)], {old})

(* The cache stays good when the table of a key is replaced. *)
LEMMA PutOver ==
  ASSUME NEW c, NEW users, NEW other, NEW files, NEW h, NEW e, NEW less, NEW f,
         Linking(c, users, other, files, h, e, less, f), NEW old, old = Find(c, e.number), old # 0
  PROVE  Good(Replaced(f, h, old), MoreUsers(users, h), less, files) /\ Keeps(Replaced(f, h, old), f)
<1> DEFINE n == e.number
           more == MoreUsers(users, h)
           at == HashOf(n) % f.length
           L1 == [b \in DOMAIN f.list |-> f.list[b] \ {old}]
           L == [f.list EXCEPT ![at] = (@ \ {old}) \cup {h}]
           p == [f EXCEPT !.list = L]
           rest == LRU_Remove(f.lru, old)
           rest0 == LRU_Remove(c.lru, old)
           q == [TableInsert(f, h) EXCEPT !.lru = LRU_Remove(@, old)]
<1>1. /\ IsCache(f) /\ more \in [Nat -> Nat] /\ Counted(f, Expected(more, f.lru), less)
      /\ f.lru \in Seq(Nat \ {0}) /\ Distinct(f.lru) /\ ToSet(f.lru) = ToSet(c.lru) \cup {h} /\ h \notin ToSet(c.lru)
      /\ Links(f.length, f.list, f.elems, c.lru, f.handles, files)
      /\ h \in DOMAIN f.handles /\ f.handles[h] = e /\ f.handles \in [DOMAIN f.handles -> Handle]
      /\ n \in TableNumbers /\ Find(f, n) = old
  <2>1. LinkReady(c, users, files, h, e, less, f)
    BY LinkingFacts
  <2> QED BY <2>1 DEF LinkReady
<1>2. old \in ToSet(c.lru) /\ f.handles[old].number = n /\ h # old
  <2>1. Good(c, users, other, files) /\ f.handles = AddHandle(c.handles, h, e) /\ h \notin DOMAIN c.handles
    BY DEF Linking, FreshIs
  <2>2. Linked(c, files) /\ ToSet(c.lru) \subseteq DOMAIN c.handles
    BY <2>1, ListedIsHeld DEF Good
  <2>3. old \in ToSet(c.lru) /\ c.handles[old].number = n
    BY <1>1, <2>2, FindIs
  <2> QED BY <2>1, <2>2, <2>3 DEF AddHandle
<1>3. /\ f.length \in Nat \ {0} /\ c.lru \in Seq(Nat \ {0}) /\ Distinct(c.lru)
      /\ f.list = [b \in 0 .. f.length - 1 |-> {g \in ToSet(c.lru) : HashOf(f.handles[g].number) % f.length = b}]
      /\ \A g \in ToSet(c.lru) : g \in DOMAIN f.handles /\ f.handles[g].number \in files
      /\ \A g, k \in ToSet(c.lru) : f.handles[g].number = f.handles[k].number => g = k
      /\ f.elems = Cardinality(ToSet(c.lru))
  BY <1>1 DEF Links
<1>4. at \in 0 .. f.length - 1
  <2>1. HashOf(n) \in Nat
    BY <1>1, TableCacheAssumption
  <2> QED BY <1>3, <2>1
<1>5. L = [L1 EXCEPT ![at] = @ \cup {h}]
  <2>1. ASSUME NEW b \in DOMAIN f.list PROVE L[b] = [L1 EXCEPT ![at] = @ \cup {h}][b]
    <3>1. CASE b = at
      BY <3>1
    <3>2. CASE b # at
      <4>1. b \in 0 .. f.length - 1
        BY <1>3
      <4>2. old \notin f.list[b]
        BY <1>2, <1>3, <3>2, <4>1
      <4> QED BY <3>2, <4>2
    <3> QED BY <3>1, <3>2
  <2> QED BY <2>1
<1>6. /\ rest0 \in Seq(Nat \ {0}) /\ Distinct(rest0) /\ ToSet(rest0) = ToSet(c.lru) \ {old}
  BY <1>2, <1>3, RemoveList
<1>7. /\ rest \in Seq(Nat \ {0}) /\ Distinct(rest) /\ ToSet(rest) = ToSet(f.lru) \ {old}
  <2>1. f.lru \in Seq(Nat \ {0}) /\ Distinct(f.lru) /\ old \in ToSet(f.lru)
    BY <1>1, <1>2
  <2> QED BY ONLY <2>1, RemoveList
<1>8. ToSet(rest) = ToSet(rest0) \cup {h} /\ h \notin ToSet(rest0)
  BY <1>1, <1>2, <1>6, <1>7
<1> HIDE DEF rest, rest0
<1>9. Links(f.length, L, f.elems, rest, f.handles, files)
  <2>1. Links(f.length, L1, f.elems - Cardinality({old}), rest0, f.handles, files)
    <3>1. {old} \in SUBSET ToSet(c.lru) /\ \A g \in ToSet(rest0) : f.handles[g].number \in files
      BY <1>2, <1>3, <1>6
    <3>2. Links(f.length, f.list, f.elems, c.lru, f.handles, files)
      BY <1>1
    <3> QED BY ONLY <1>6, <3>1, <3>2, RemoveLinks
  <2>2. f.elems \in Nat /\ Cardinality({old}) = 1
    <3>1. f.elems = Len(c.lru)
      BY <1>3, LengthOfList
    <3>2. Len(c.lru) \in Nat
      BY <1>3
    <3>3. Cardinality({old}) = 1
      BY FS_Singleton
    <3> QED BY <3>1, <3>2, <3>3
  <2>3. h \in (DOMAIN f.handles) \ ToSet(rest0) /\ f.handles[h].number = n /\ n \in files
    BY <1>1, <1>8 DEF Linking
  <2>4. \A g \in ToSet(rest0) : f.handles[g].number # f.handles[h].number
    BY <1>2, <1>3, <1>6, <2>3
  <2> DEFINE m == f.elems - Cardinality({old})
  <2>5. m + 1 = f.elems
    BY <2>2
  <2> HIDE DEF m, L1, L
  <2>6. Links(f.length, [L1 EXCEPT ![HashOf(f.handles[h].number) % f.length] = @ \cup {h}], m + 1, rest, f.handles, files)
    <3>1. Links(f.length, L1, m, rest0, f.handles, files) /\ f.handles[h].number \in files
      BY <2>1, <2>3 DEF m
    <3> QED BY <1>7, <1>8, <2>3, <2>4, <3>1, AddLinks
  <2> QED BY <1>5, <2>3, <2>5, <2>6
<1>10. TableInsert(f, h) = p
  <2>1. p = [f EXCEPT !.list[Bucket(f, n)] = (@ \ {Find(f, n)}) \cup {h}, !.elems = IF Find(f, n) = 0 THEN @ + 1 ELSE @]
    <3>1. f = [f EXCEPT !.elems = f.elems] /\ at = Bucket(f, n)
      BY <1>1 DEF IsCache, Bucket
    <3> HIDE DEF at
    <3>2. p = [f EXCEPT !.list = L, !.elems = f.elems]
      <4>1. IsCache(f)
        BY <1>1
      <4> HIDE DEF L
      <4> QED BY <4>1 DEF IsCache
    <3> QED BY <1>1, <3>1, <3>2
  <2> HIDE DEF p
  <2> QED BY <1>1, <2>1 DEF TableInsert
<1> HIDE DEF L
<1>11. /\ IsCache(q) /\ q.length = f.length /\ q.list = L /\ q.elems = f.elems /\ q.lru = rest
       /\ q.usage = f.usage /\ q.handles = f.handles /\ q.allowed = f.allowed
  <2>1. IsCache(f) /\ p = [f EXCEPT !.list = L]
    BY <1>1
  <2> HIDE DEF p
  <2>2. p.lru = f.lru
    BY <2>1 DEF IsCache
  <2>3. q = [p EXCEPT !.lru = rest]
    BY <1>10, <2>2 DEF rest
  <2> HIDE DEF q
  <2> QED BY <2>1, <2>3 DEF IsCache
<1> DEFINE E == Expected(more, f.lru)
           new == Unref(q, {old})
<1> HIDE DEF p, q, L1, at, more, n
<1>12. Linked(q, files) /\ Counted(q, E, less)
  BY <1>1, <1>9, <1>11 DEF Linked, Counted
<1>13. {old} \in SUBSET DOMAIN q.handles /\ E \in [Nat -> Nat] /\ Less(E, {old}) = Expected(more, rest)
  <2>1. {old} \in SUBSET DOMAIN q.handles
    BY <1>2, <1>3, <1>11
  <2>2. {old} \in SUBSET ToSet(f.lru)
    BY <1>1, <1>2
  <2>3. Less(E, {old}) = Expected(more, rest)
    BY <1>1, <1>7, <2>2, ExpectedLess
  <2> QED BY <1>1, <2>1, <2>3, ExpectedIs
<1> HIDE DEF E
<1>14. less \in Nat
  BY DEF Linking
<1>15. Released(new, q, Less(E, {old}), less)
  BY <1>11, <1>12, <1>13, <1>14, UnrefCounted
<1>16. Linked(new, files)
  <2>1. ASSUME NEW g \in ToSet(q.lru) PROVE Less(E, {old})[g] > 0
    <3>1. g \in Nat /\ g \in ToSet(rest)
      BY <1>7, <1>11 DEF ToSet
    <3>2. Expected(more, rest)[g] = more[g] + 1 /\ more[g] \in Nat
      BY <1>1, <3>1, ExpectedIs
    <3>3. Expected(more, rest)[g] > 0
      BY ONLY <3>2
    <3>4. Less(E, {old}) = Expected(more, rest)
      BY <1>13
    <3> QED BY ONLY <3>3, <3>4
  <2> QED BY <1>11, <1>12, <1>13, <1>14, <2>1, UnrefLinked
<1> HIDE DEF new
<1>17. Good(new, more, less, files)
  BY <1>1, <1>11, <1>13, <1>15, <1>16 DEF Good, Released
<1>18. Keeps(new, f)
  BY <1>11, <1>15 DEF Keeps, Released
<1> QED BY <1>17, <1>18 DEF Replaced, new, q, more

(* The cache d after a table was inserted in c as handle h. *)
Inserted(d, c, h, number, users, less, files) ==
    /\ Good(d, users, less, files) /\ Len(d.lru) <= CacheCapacity
    /\ \A g \in DOMAIN d.handles :
          IF g = h THEN d.handles[g].number = number
          ELSE g \in DOMAIN c.handles /\ d.handles[g].number = c.handles[g].number

(* The cache stays good when a table is inserted. *)
LEMMA CacheInsertGood ==
  ASSUME NEW c, NEW users, NEW other, NEW files, Good(c, users, other, files),
         NEW h \in Nat \ {0}, h \notin DOMAIN c.handles, NEW number \in TableNumbers, number \in files,
         NEW kind \in {"mmap", "fd"},
         NEW less \in Nat, other = less + (IF kind = "mmap" THEN 1 ELSE 0)
  PROVE  Inserted(CacheInsert(c, h, number, kind), c, h, number, MoreUsers(users, h), less, files)
<1> DEFINE e == [number |-> number, refs |-> InsertedRefs, kind |-> kind]
           f == Fresh(c, h, e)
           old == Find(c, number)
           put == TableInsert(f, h)
           made == IF old = 0 THEN put ELSE Replaced(f, h, old)
           new == CacheInsert(c, h, number, kind)
           more == MoreUsers(users, h)
<1>1. e \in Handle /\ e.refs = 2 /\ e.number = number /\ e.kind = kind
  BY DEF Handle, InsertedRefs
<1> HIDE DEF e
<1>2. FreshIs(f, c, h, e)
  BY FreshFields DEF Good
<1> HIDE DEF f
<1>3. Linking(c, users, other, files, h, e, less, f)
  BY <1>1, <1>2 DEF Linking
<1>4. Find(f, number) = old
  <2>1. LinkReady(c, users, files, h, e, less, f)
    BY <1>3, LinkingFacts
  <2> QED BY <1>1, <2>1 DEF LinkReady
<1>5. new = MakeRoom(made)
  BY <1>4 DEF CacheInsert, Replaced, Fresh, f, e
<1> HIDE DEF new
<1>6. Good(made, more, less, files) /\ Keeps(made, f)
  <2>1. CASE old = 0
    <3>1. Good(put, more, less, files) /\ put.handles = f.handles
      BY <1>1, <1>3, <2>1, PutNew
    <3>2. Keeps(put, f)
      BY <3>1 DEF Keeps
    <3> QED BY <2>1, <3>1, <3>2
  <2>2. CASE old # 0
    <3>1. Good(Replaced(f, h, old), more, less, files) /\ Keeps(Replaced(f, h, old), f)
      BY <1>1, <1>3, <2>2, PutOver
    <3> QED BY <2>2, <3>1
  <2> QED BY <2>1, <2>2
<1> HIDE DEF made
<1>7. Good(new, more, less, files) /\ Keeps(new, made) /\ Len(new.lru) <= CacheCapacity
  BY <1>5, <1>6, MakeRoomGood
<1>8. ASSUME NEW g \in DOMAIN new.handles
      PROVE  IF g = h THEN new.handles[g].number = number
             ELSE g \in DOMAIN c.handles /\ new.handles[g].number = c.handles[g].number
  <2>1. g \in DOMAIN f.handles /\ new.handles[g].number = f.handles[g].number
    BY <1>6, <1>7 DEF Keeps
  <2>2. f.handles = AddHandle(c.handles, h, e)
    BY <1>2 DEF FreshIs
  <2>3. g \in DOMAIN c.handles \cup {h} /\ f.handles[g] = IF g = h THEN e ELSE c.handles[g]
    BY <2>1, <2>2 DEF AddHandle
  <2> QED BY <1>1, <2>1, <2>3
<1>9. Inserted(new, c, h, number, more, less, files)
  BY <1>7, <1>8 DEF Inserted
<1> QED BY <1>9 DEF new

(* The cache stays good when the table of a removed file is erased. *)
LEMMA CacheEraseGood ==
  ASSUME NEW c, NEW users, NEW other \in Nat, NEW files, Good(c, users, other, files), NEW number \in TableNumbers
  PROVE  /\ Good(CacheErase(c, number), users, other, files \ {number}) /\ Keeps(CacheErase(c, number), c)
         /\ Len(CacheErase(c, number).lru) <= Len(c.lru)
<1> DEFINE h == Find(c, number)
           rest == LRU_Remove(c.lru, h)
<1>0. IsCache(c) /\ users \in [Nat -> Nat] /\ Counted(c, Expected(users, c.lru), other) /\ Linked(c, files)
  BY DEF Good
<1>1. \/ h = 0 /\ \A g \in ToSet(c.lru) : c.handles[g].number # number
      \/ h # 0 /\ h \in ToSet(c.lru) /\ c.handles[h].number = number
  BY <1>0, FindIs
<1>2. /\ c.lru \in Seq(Nat \ {0}) /\ Distinct(c.lru)
      /\ \A g \in ToSet(c.lru) : c.handles[g].number \in files
      /\ \A g, k \in ToSet(c.lru) : c.handles[g].number = c.handles[k].number => g = k
  BY <1>0 DEF Linked, Links
<1>3. CASE h = 0
  <2>1. CacheErase(c, number) = c
    BY <1>3 DEF CacheErase
  <2>2. \A g \in ToSet(c.lru) : c.handles[g].number \in files \ {number}
    BY <1>1, <1>2, <1>3
  <2>3. Links(c.length, c.list, c.elems, c.lru, c.handles, files \ {number})
    BY <1>0, <2>2 DEF Linked, Links
  <2>4. Good(c, users, other, files \ {number}) /\ Keeps(c, c)
    BY <1>0, <2>3 DEF Good, Linked, Keeps
  <2>5. Len(c.lru) \in Nat
    BY <1>2
  <2> QED BY <2>1, <2>4, <2>5
<1>4. CASE h # 0
  <2>1. h \in ToSet(c.lru) /\ c.handles[h].number = number
    BY <1>1, <1>4
  <2>2. {c.handles[k].number : k \in {h}} = {number}
    BY <2>1
  <2>3. TableRemove(c, {number}).lru = c.lru
    <3> DEFINE found == {Find(c, k) : k \in {number}} \ {0}
               list == [b \in DOMAIN c.list |-> c.list[b] \ found]
               elems == c.elems - Cardinality(found)
    <3>1. TableRemove(c, {number}) = [c EXCEPT !.list = list, !.elems = elems]
      BY DEF TableRemove
    <3> HIDE DEF list, elems
    <3> QED BY <1>0, <3>1 DEF IsCache
  <2>4. CacheErase(c, number) = Dropped(c, {h}, rest)
    BY <1>4, <2>2, <2>3 DEF CacheErase, Dropped
  <2>5. /\ rest \in Seq(Nat \ {0}) /\ Distinct(rest) /\ ToSet(rest) = ToSet(c.lru) \ {h} /\ Len(rest) = Len(c.lru) - 1
    <3> HIDE DEF h
    <3> QED BY <1>2, <2>1, RemoveList
  <2>6. \A g \in ToSet(rest) : c.handles[g].number \in files \ {number}
    <3> HIDE DEF h, rest
    <3> QED BY <1>2, <2>1, <2>5
  <2> DEFINE left == files \ {number}
             hs == {h}
  <2>7. hs \in SUBSET ToSet(c.lru)
    BY <2>1
  <2>8. \A g \in ToSet(rest) : c.handles[g].number \in left
    BY <2>6
  <2> HIDE DEF left, rest, hs
  <2>9. Good(Dropped(c, hs, rest), users, other, left) /\ Dropped(c, hs, rest).lru = rest /\ Keeps(Dropped(c, hs, rest), c)
    BY <2>5, <2>7, <2>8, DroppedGood DEF hs
  <2>10. Len(c.lru) \in Nat /\ Len(rest) <= Len(c.lru)
    BY <1>2, <2>5
  <2> QED BY <2>4, <2>9, <2>10 DEF left, hs
<1> QED BY <1>3, <1>4

(* The users of the handles after one thread moved. *)
LEMMA MoveCounts ==
  ASSUME NEW u \in [CacheThreads -> UserStates], NEW t \in CacheThreads, NEW x \in UserStates
  PROVE  LET v == [u EXCEPT ![t] = x]
             Uses(y, h) == IF y.pc = "use" /\ y.handle = h THEN 1 ELSE 0
             Slot(y) == IF y.kind = "mmap" THEN 1 ELSE 0
         IN  /\ v \in [CacheThreads -> UserStates]
             /\ CountOf(u) \in [Nat -> Nat] /\ CountOf(v) \in [Nat -> Nat]
             /\ \A h \in Nat : CountOf(v)[h] + Uses(u[t], h) = CountOf(u)[h] + Uses(x, h)
             /\ OpeningOf(u) \in Nat /\ OpeningOf(v) \in Nat
             /\ OpeningOf(v) + Slot(u[t]) = OpeningOf(u) + Slot(x)
<1> DEFINE v == [u EXCEPT ![t] = x]
           T == CacheThreads
           Uses(y, h) == IF y.pc = "use" /\ y.handle = h THEN 1 ELSE 0
           Slot(y) == IF y.kind = "mmap" THEN 1 ELSE 0
           Use(w, h) == {k \in T : w[k].pc = "use" /\ w[k].handle = h}
           Opn(w) == {k \in T : w[k].kind = "mmap"}
<1>1. v \in [T -> UserStates] /\ v[t] = x /\ \A k \in T : k # t => v[k] = u[k]
  OBVIOUS
<1>2. IsFiniteSet(T)
  BY TableCacheAssumption
<1> HIDE DEF v
<1>3. ASSUME NEW h \in Nat
      PROVE  /\ Cardinality(Use(u, h)) \in Nat /\ Cardinality(Use(v, h)) \in Nat
             /\ Cardinality(Use(v, h)) + Uses(u[t], h) = Cardinality(Use(u, h)) + Uses(x, h)
  <2> DEFINE A == Use(u, h)
             B == Use(v, h)
  <2>1. A \in SUBSET T /\ B \in SUBSET T /\ \A k \in T : k # t => (k \in A <=> k \in B)
    BY <1>1
  <2>2. (IF t \in A THEN 1 ELSE 0) = Uses(u[t], h) /\ (IF t \in B THEN 1 ELSE 0) = Uses(x, h)
    BY <1>1
  <2> HIDE DEF A, B, Uses
  <2>3. /\ Cardinality(A) \in Nat /\ Cardinality(B) \in Nat
        /\ Cardinality(B) + (IF t \in A THEN 1 ELSE 0) = Cardinality(A) + (IF t \in B THEN 1 ELSE 0)
    BY <1>2, <2>1, CountStep
  <2>4. Cardinality(B) + Uses(u[t], h) = Cardinality(A) + Uses(x, h)
    BY <2>2, <2>3
  <2> QED BY <2>3, <2>4 DEF A, B
<1>4. /\ Cardinality(Opn(u)) \in Nat /\ Cardinality(Opn(v)) \in Nat
      /\ Cardinality(Opn(v)) + Slot(u[t]) = Cardinality(Opn(u)) + Slot(x)
  <2> DEFINE A == Opn(u)
             B == Opn(v)
  <2>1. A \in SUBSET T /\ B \in SUBSET T /\ \A k \in T : k # t => (k \in A <=> k \in B)
    BY <1>1
  <2>2. (IF t \in A THEN 1 ELSE 0) = Slot(u[t]) /\ (IF t \in B THEN 1 ELSE 0) = Slot(x)
    BY <1>1
  <2> HIDE DEF A, B, Slot
  <2>3. /\ Cardinality(A) \in Nat /\ Cardinality(B) \in Nat
        /\ Cardinality(B) + (IF t \in A THEN 1 ELSE 0) = Cardinality(A) + (IF t \in B THEN 1 ELSE 0)
    BY <1>2, <2>1, CountStep
  <2>4. Cardinality(B) + Slot(u[t]) = Cardinality(A) + Slot(x)
    BY <2>2, <2>3
  <2> QED BY <2>3, <2>4 DEF A, B
<1>5. /\ \A h \in Nat : CountOf(u)[h] = Cardinality(Use(u, h)) /\ CountOf(v)[h] = Cardinality(Use(v, h))
      /\ OpeningOf(u) = Cardinality(Opn(u)) /\ OpeningOf(v) = Cardinality(Opn(v))
      /\ DOMAIN CountOf(u) = Nat /\ DOMAIN CountOf(v) = Nat
      /\ CountOf(u) = [h \in Nat |-> CountOf(u)[h]] /\ CountOf(v) = [h \in Nat |-> CountOf(v)[h]]
  BY DEF CountOf, OpeningOf
<1> HIDE DEF Use, Opn, Uses, Slot
<1>6. CountOf(u) \in [Nat -> Nat] /\ CountOf(v) \in [Nat -> Nat]
  <2>1. \A h \in Nat : CountOf(u)[h] \in Nat /\ CountOf(v)[h] \in Nat
    BY <1>3, <1>5
  <2> QED BY <1>5, <2>1
<1>7. \A h \in Nat : CountOf(v)[h] + Uses(u[t], h) = CountOf(u)[h] + Uses(x, h)
  BY <1>3, <1>5
<1>8. OpeningOf(u) \in Nat /\ OpeningOf(v) \in Nat /\ OpeningOf(v) + Slot(u[t]) = OpeningOf(u) + Slot(x)
  BY <1>4, <1>5
<1> QED BY <1>1, <1>6, <1>7, <1>8 DEF v, Uses, Slot

(* The moves of a thread that neither takes nor leaves a handle, that takes *)
(* one, and that leaves one.                                                *)
FewerUsers(users, h) == [users EXCEPT ![h] = @ - 1]

(* Each moves the count of one handle. *)
LEMMA MoveKinds ==
  ASSUME NEW u \in [CacheThreads -> UserStates], NEW t \in CacheThreads, NEW x \in UserStates
  PROVE  LET v == [u EXCEPT ![t] = x]
         IN  /\ u[t].pc # "use" /\ x.pc # "use" => CountOf(v) = CountOf(u)
             /\ u[t].pc # "use" /\ x.pc = "use" => CountOf(v) = MoreUsers(CountOf(u), x.handle)
             /\ u[t].pc = "use" /\ x.pc # "use" => CountOf(v) = FewerUsers(CountOf(u), u[t].handle)
<1> DEFINE v == [u EXCEPT ![t] = x]
           Uses(y, h) == IF y.pc = "use" /\ y.handle = h THEN 1 ELSE 0
<1>1. CountOf(u) \in [Nat -> Nat] /\ CountOf(v) \in [Nat -> Nat]
  BY MoveCounts
<1>2. \A h \in Nat : CountOf(v)[h] + Uses(u[t], h) = CountOf(u)[h] + Uses(x, h)
  BY MoveCounts
<1>3. u[t].handle \in Nat /\ x.handle \in Nat
  BY DEF UserStates
<1> HIDE DEF v
<1>4. ASSUME u[t].pc # "use", x.pc # "use" PROVE CountOf(v) = CountOf(u)
  <2>1. ASSUME NEW h \in Nat PROVE CountOf(v)[h] = CountOf(u)[h]
    <3>1. Uses(u[t], h) = 0 /\ Uses(x, h) = 0
      BY <1>4
    <3> HIDE DEF Uses
    <3>2. CountOf(v)[h] \in Nat /\ CountOf(u)[h] \in Nat
      BY <1>1
    <3> QED BY <1>2, <3>1, <3>2
  <2> QED BY <1>1, <2>1
<1>5. ASSUME u[t].pc # "use", x.pc = "use" PROVE CountOf(v) = MoreUsers(CountOf(u), x.handle)
  <2>1. ASSUME NEW h \in Nat PROVE CountOf(v)[h] = IF h = x.handle THEN CountOf(u)[h] + 1 ELSE CountOf(u)[h]
    <3>1. Uses(u[t], h) = 0 /\ Uses(x, h) = IF h = x.handle THEN 1 ELSE 0
      BY <1>5
    <3> HIDE DEF Uses
    <3>2. CountOf(v)[h] \in Nat /\ CountOf(u)[h] \in Nat
      BY <1>1
    <3> QED BY <1>2, <3>1, <3>2
  <2> QED BY <1>1, <1>3, <2>1 DEF MoreUsers
<1>6. ASSUME u[t].pc = "use", x.pc # "use" PROVE CountOf(v) = FewerUsers(CountOf(u), u[t].handle)
  <2>1. ASSUME NEW h \in Nat PROVE CountOf(v)[h] = IF h = u[t].handle THEN CountOf(u)[h] - 1 ELSE CountOf(u)[h]
    <3>1. Uses(x, h) = 0 /\ Uses(u[t], h) = IF h = u[t].handle THEN 1 ELSE 0
      BY <1>6
    <3> HIDE DEF Uses
    <3>2. CountOf(v)[h] \in Nat /\ CountOf(u)[h] \in Nat
      BY <1>1
    <3> QED BY <1>2, <3>1, <3>2
  <2> QED BY <1>1, <1>3, <2>1 DEF FewerUsers
<1> QED BY <1>4, <1>5, <1>6 DEF v

(* The table a thread uses is open. *)
LEMMA UsedIsOpen ==
  ASSUME NEW c, NEW u \in [CacheThreads -> UserStates], NEW other, NEW files, Good(c, CountOf(u), other, files),
         NEW t \in CacheThreads, u[t].pc = "use"
  PROVE  u[t].handle \in DOMAIN c.handles /\ CountOf(u)[u[t].handle] > 0
<1> DEFINE h == u[t].handle
           A == {k \in CacheThreads : u[k].pc = "use" /\ u[k].handle = h}
<1>1. h \in Nat
  BY DEF UserStates
<1>2. CountOf(u)[h] = Cardinality(A)
  BY <1>1 DEF CountOf
<1>3. t \in A /\ A \in SUBSET CacheThreads
  OBVIOUS
<1> HIDE DEF A, h
<1>4. Cardinality(A) > 0
  <2>1. IsFiniteSet(A)
    BY <1>3, TableCacheAssumption, FS_Subset
  <2>2. Cardinality(A) \in Nat /\ Cardinality(A) # 0
    BY <1>3, <2>1, FS_CardinalityType, FS_EmptySet
  <2> QED BY ONLY <2>2
<1>5. CountOf(u) \in [Nat -> Nat] /\ Counted(c, Expected(CountOf(u), c.lru), other)
  BY DEF Good
<1> DEFINE E == Expected(CountOf(u), c.lru)
<1>6. E[h] > 0
  <2>1. E[h] = CountOf(u)[h] + (IF h \in ToSet(c.lru) THEN 1 ELSE 0)
    BY <1>1, <1>5, ExpectedIs
  <2>2. CountOf(u)[h] > 0 /\ CountOf(u)[h] \in Nat
    BY <1>1, <1>2, <1>4, <1>5
  <2> HIDE DEF E
  <2> QED BY ONLY <2>1, <2>2
<1> HIDE DEF E
<1>7. h \in DOMAIN c.handles
  BY <1>1, <1>5, <1>6 DEF Counted, Counts, E
<1> QED BY <1>2, <1>4, <1>7 DEF h

(* A thread that only changes what it is about. *)
LEMMA ShapeMove ==
  ASSUME NEW u, NEW files, UserShape(u, files), NEW t \in CacheThreads, NEW x \in UserStates,
         x.pc = "read" <=> x.kind # "none", x.pc \in {"open", "read"} => x.number \in files
  PROVE  UserShape([u EXCEPT ![t] = x], files)
BY DEF UserShape

(* The slots move between the limit and the files being opened. *)
LEMMA SlotsGood ==
  ASSUME NEW c, NEW users, NEW other \in Nat, NEW files, Good(c, users, other, files),
         NEW slots \in Nat, NEW less \in Nat, slots + less = c.allowed + other
  PROVE  Good([c EXCEPT !.allowed = slots], users, less, files)
<1> DEFINE d == [c EXCEPT !.allowed = slots]
<1>1. IsCache(c) /\ users \in [Nat -> Nat] /\ Counted(c, Expected(users, c.lru), other) /\ Linked(c, files)
  BY DEF Good
<1>2. d = [c EXCEPT !.allowed = slots]
  OBVIOUS
<1> HIDE DEF d
<1>3. /\ IsCache(d) /\ d.length = c.length /\ d.list = c.list /\ d.elems = c.elems /\ d.lru = c.lru
      /\ d.usage = c.usage /\ d.handles = c.handles /\ d.allowed = slots
  BY <1>1, <1>2 DEF IsCache
<1>4. slots + Cardinality(Maps(c.handles)) + less = MmapLimit
  <2> DEFINE m == Cardinality(Maps(c.handles))
  <2>1. c.allowed \in Nat /\ c.allowed + m + other = MmapLimit /\ IsFiniteSet(DOMAIN c.handles)
    BY <1>1 DEF Counted, Counts
  <2>2. m \in Nat
    <3>1. Maps(c.handles) \in SUBSET DOMAIN c.handles
      BY DEF Maps
    <3>2. IsFiniteSet(Maps(c.handles))
      BY <2>1, <3>1, FS_Subset
    <3> QED BY <3>2, FS_CardinalityType
  <2> HIDE DEF m
  <2>3. slots + m + less = MmapLimit
    BY <2>1, <2>2
  <2> QED BY <2>3 DEF m
<1>5. Counts(c.handles, c.usage, slots, Expected(users, c.lru), less)
  BY <1>1, <1>4 DEF Counted, Counts
<1>6. Counted(d, Expected(users, d.lru), less) /\ Linked(d, files)
  BY <1>1, <1>3, <1>5 DEF Counted, Linked
<1>7. Good(d, users, less, files)
  BY <1>1, <1>3, <1>6 DEF Good
<1> QED BY <1>7 DEF d

(* A step on the way from a lookup to an open table, which takes or gives   *)
(* back a slot.                                                             *)
LEMMA OpeningStep ==
  ASSUME NEW c, NEW u, NEW files, CacheIs(c, u, files), NEW t \in CacheThreads, u[t].pc # "use",
         NEW x \in UserStates, x.pc # "use", x.pc = "read" <=> x.kind # "none", x.pc \in {"open", "read"} => x.number \in files,
         NEW slots \in Nat,
         slots + (IF x.kind = "mmap" THEN 1 ELSE 0) = c.allowed + (IF u[t].kind = "mmap" THEN 1 ELSE 0)
  PROVE  CacheIs([c EXCEPT !.allowed = slots], [u EXCEPT ![t] = x], files)
<1> DEFINE v == [u EXCEPT ![t] = x]
           d == [c EXCEPT !.allowed = slots]
           less == OpeningOf(v)
           other == OpeningOf(u)
<1>1. /\ UserShape(u, files) /\ RightTables(u, c.handles)
      /\ Good(c, CountOf(u), OpeningOf(u), files) /\ Len(c.lru) <= CacheCapacity
  BY DEF CacheIs
<1>2. u \in [CacheThreads -> UserStates]
  BY <1>1 DEF UserShape
<1>3. CountOf(v) = CountOf(u)
  BY <1>2, MoveKinds
<1>4. /\ other \in Nat /\ less \in Nat
      /\ less + (IF u[t].kind = "mmap" THEN 1 ELSE 0) = other + (IF x.kind = "mmap" THEN 1 ELSE 0)
  BY <1>2, MoveCounts
<1> HIDE DEF less, other
<1>5. slots + less = c.allowed + other
  <2>1. c.allowed \in Nat
    BY <1>1 DEF Good, Counted, Counts
  <2> QED BY <1>4, <2>1
<1>6. Good(d, CountOf(u), less, files)
  BY <1>1, <1>4, <1>5, SlotsGood DEF other
<1>7. d.handles = c.handles /\ d.lru = c.lru
  BY <1>1 DEF Good, IsCache
<1>8. UserShape(v, files)
  BY <1>1, ShapeMove
<1>9. RightTables(v, c.handles)
  BY <1>1, <1>2 DEF RightTables
<1> HIDE DEF v, d
<1>10. CacheIs(d, v, files)
  BY <1>1, <1>3, <1>6, <1>7, <1>8, <1>9 DEF CacheIs, less
<1> QED BY <1>10 DEF v, d

(* A hit. *)
Hit(c, h) == [c EXCEPT !.handles[h].refs = @ + 1, !.lru = LRU_Append(LRU_Remove(@, h), h)]

(* A hit keeps the invariant. *)
LEMMA HitStep ==
  ASSUME NEW c, NEW u, NEW files, CacheIs(c, u, files), NEW t \in CacheThreads, u[t] = Away,
         NEW number \in files, NEW h, h = Find(c, number), h # 0
  PROVE  CacheIs(Hit(c, h), [u EXCEPT ![t] = [pc |-> "use", number |-> number, handle |-> h, kind |-> "none"]], files)
<1> DEFINE x == [pc |-> "use", number |-> number, handle |-> h, kind |-> "none"]
           v == [u EXCEPT ![t] = x]
           d == Hit(c, h)
           users == CountOf(u)
           more == CountOf(v)
           held == [c.handles EXCEPT ![h].refs = @ + 1]
           lru == LRU_Append(LRU_Remove(c.lru, h), h)
<1>1. /\ UserShape(u, files) /\ RightTables(u, c.handles)
      /\ Good(c, users, OpeningOf(u), files) /\ Len(c.lru) <= CacheCapacity
  BY DEF CacheIs
<1>2. u \in [CacheThreads -> UserStates] /\ files \subseteq TableNumbers /\ number \in TableNumbers
  BY <1>1 DEF UserShape
<1>3. IsCache(c) /\ users \in [Nat -> Nat] /\ Counted(c, Expected(users, c.lru), OpeningOf(u)) /\ Linked(c, files)
  BY <1>1 DEF Good
<1>4. h \in ToSet(c.lru) /\ c.handles[h].number = number
  BY <1>2, <1>3, FindIs
<1>5. /\ ToSet(c.lru) \subseteq DOMAIN c.handles /\ DOMAIN c.handles \subseteq Nat \ {0}
      /\ c.lru \in Seq(Nat \ {0}) /\ Distinct(c.lru) /\ c.handles \in [DOMAIN c.handles -> Handle]
  BY <1>1, ListedIsHeld
<1>6. x \in UserStates /\ x.pc = "use" /\ x.kind = "none" /\ x.handle = h /\ x.number = number
  BY <1>2, <1>4, <1>5 DEF UserStates
<1>7. u[t].pc # "use" /\ u[t].kind = "none"
  BY DEF Away
<1> HIDE DEF x
<1>8. more = MoreUsers(users, h) /\ OpeningOf(v) = OpeningOf(u)
  <2>1. more = MoreUsers(users, h)
    <3>1. u[t].pc # "use" /\ x.pc = "use" => CountOf(v) = MoreUsers(CountOf(u), x.handle)
      BY <1>2, <1>6, MoveKinds
    <3> QED BY <1>6, <1>7, <3>1
  <2>2. /\ OpeningOf(u) \in Nat /\ OpeningOf(v) \in Nat
        /\ OpeningOf(v) + (IF u[t].kind = "mmap" THEN 1 ELSE 0) = OpeningOf(u) + (IF x.kind = "mmap" THEN 1 ELSE 0)
    BY <1>2, <1>6, MoveCounts
  <2>3. OpeningOf(v) + 0 = OpeningOf(u) + 0
    BY <1>6, <1>7, <2>2
  <2> QED BY <2>1, <2>2, <2>3
<1>9. /\ lru \in Seq(Nat \ {0}) /\ Distinct(lru) /\ ToSet(lru) = ToSet(c.lru) /\ Len(lru) = Len(c.lru)
  <2> DEFINE r == LRU_Remove(c.lru, h)
  <2>1. r \in Seq(Nat \ {0}) /\ Distinct(r) /\ ToSet(r) = ToSet(c.lru) \ {h} /\ Len(r) = Len(c.lru) - 1
    BY <1>4, <1>5, RemoveList
  <2>2. h \in Nat \ {0} /\ h \notin ToSet(r) /\ Len(c.lru) \in Nat
    BY <1>4, <1>5, <2>1
  <2> HIDE DEF r
  <2>3. LET a == LRU_Append(r, h)
        IN  a \in Seq(Nat \ {0}) /\ Distinct(a) /\ Len(a) = Len(r) + 1 /\ ToSet(a) = ToSet(r) \cup {h}
    BY ONLY <2>1, <2>2, AppendList
  <2> QED BY <1>4, <2>1, <2>2, <2>3 DEF r
<1>10. /\ IsCache(d) /\ d.length = c.length /\ d.list = c.list /\ d.elems = c.elems /\ d.lru = lru
       /\ d.usage = c.usage /\ d.handles = held /\ d.allowed = c.allowed
  <2>1. d = [c EXCEPT !.handles = held, !.lru = lru]
    BY <1>3 DEF Hit, IsCache
  <2> HIDE DEF d, held, lru
  <2> QED BY <1>3, <2>1 DEF IsCache
<1> HIDE DEF d, lru
<1>11. /\ DOMAIN held = DOMAIN c.handles /\ held \in [DOMAIN c.handles -> Handle]
       /\ held[h].refs = c.handles[h].refs + 1 /\ \A g \in DOMAIN held : g # h => held[g].refs = c.handles[g].refs
       /\ \A g \in DOMAIN held : held[g].number = c.handles[g].number /\ held[g].kind = c.handles[g].kind
  <2>1. h \in DOMAIN c.handles /\ c.handles[h] \in Handle
    BY <1>4, <1>5
  <2>2. held[h] = [c.handles[h] EXCEPT !.refs = @ + 1] /\ \A g \in DOMAIN c.handles : g # h => held[g] = c.handles[g]
    BY <2>1
  <2>3. DOMAIN held = DOMAIN c.handles /\ held = [g \in DOMAIN held |-> held[g]]
    OBVIOUS
  <2> HIDE DEF held
  <2>4. held[h] \in Handle /\ held[h].number = c.handles[h].number /\ held[h].kind = c.handles[h].kind
        /\ held[h].refs = c.handles[h].refs + 1
    BY <2>1, <2>2 DEF Handle
  <2>5. \A g \in DOMAIN held : held[g] \in Handle
    BY <1>5, <2>2, <2>3, <2>4
  <2> QED BY <2>2, <2>3, <2>4, <2>5
<1> HIDE DEF held
<1>12. Links(c.length, c.list, c.elems, lru, held, files)
  <2>1. Links(c.length, c.list, c.elems, c.lru, c.handles, files)
    BY <1>3 DEF Linked
  <2>2. \A g \in ToSet(c.lru) : g \in DOMAIN held /\ held[g].number = c.handles[g].number
    BY <1>5, <1>11
  <2> QED BY <1>9, <2>1, <2>2, SameLinks
<1> DEFINE E == Expected(users, c.lru)
           E2 == Expected(more, lru)
<1>13. more \in [Nat -> Nat] /\ E2 \in [Nat -> Nat] /\ h \in Nat /\ E2[h] = E[h] + 1 /\ \A g \in Nat : g # h => E2[g] = E[g]
  <2>1. h \in Nat /\ users[h] \in Nat
    BY <1>3, <1>4, <1>5
  <2>2. more \in [Nat -> Nat] /\ more[h] = users[h] + 1 /\ \A g \in Nat : g # h => more[g] = users[g]
    <3> HIDE DEF more, users
    <3>1. users \in [Nat -> Nat] /\ more = [users EXCEPT ![h] = @ + 1] /\ users[h] + 1 \in Nat
      BY <1>3, <1>8, <2>1 DEF MoreUsers
    <3> QED BY <2>1, <3>1
  <2> HIDE DEF more, users
  <2>3. \A g \in Nat : E2[g] = more[g] + IF g \in ToSet(c.lru) THEN 1 ELSE 0
    BY <1>9, <2>2, ExpectedIs
  <2>4. \A g \in Nat : E[g] = users[g] + IF g \in ToSet(c.lru) THEN 1 ELSE 0
    BY <1>3, ExpectedIs
  <2>5. E2 \in [Nat -> Nat]
    BY <2>2, ExpectedIs
  <2> HIDE DEF E, E2
  <2>6. E2[h] = E[h] + 1
    BY <1>4, <2>1, <2>2, <2>3, <2>4
  <2>7. ASSUME NEW g \in Nat, g # h PROVE E2[g] = E[g]
    <3>1. more[g] = users[g]
      BY <2>2, <2>7
    <3> QED BY <2>3, <2>4, <2>7, <3>1
  <2> QED BY <2>1, <2>2, <2>5, <2>6, <2>7
<1> HIDE DEF more, users, E, E2
<1>14. Counts(held, c.usage, c.allowed, E2, OpeningOf(u))
  <2> DEFINE other == OpeningOf(u)
  <2>1. /\ IsFiniteSet(DOMAIN c.handles) /\ \A g \in DOMAIN c.handles : c.handles[g].refs = E[g]
        /\ \A g \in Nat : E[g] > 0 <=> g \in DOMAIN c.handles
        /\ c.usage = Cardinality(DOMAIN c.handles)
        /\ c.allowed \in Nat /\ c.allowed + Cardinality(Maps(c.handles)) + other = MmapLimit
    BY <1>3 DEF Counted, Counts, E
  <2>2. Maps(held) = Maps(c.handles)
    BY <1>11 DEF Maps
  <2>3. \A g \in DOMAIN held : held[g].refs = E2[g]
    BY <1>5, <1>11, <1>13, <2>1
  <2>4. \A g \in Nat : E2[g] > 0 <=> g \in DOMAIN held
    <3>1. h \in DOMAIN held
      BY <1>4, <1>5, <1>11
    <3>2. E[h] > 0 /\ E2[h] \in Nat
      BY <1>11, <1>13, <2>1, <3>1
    <3>3. E2[h] > 0
      <4>1. E[h] \in Nat
        BY <1>3, <1>13, ExpectedIs DEF E
      <4> QED BY <1>13, <3>2, <4>1
    <3> QED BY <1>11, <1>13, <2>1, <3>1, <3>3
  <2> HIDE DEF other
  <2>5. DOMAIN held \subseteq Nat \ {0} /\ held \in [DOMAIN held -> Handle]
    BY <1>5, <1>11
  <2>6. Counts(held, c.usage, c.allowed, E2, other)
    BY <1>11, <2>1, <2>2, <2>3, <2>4, <2>5 DEF Counts
  <2> QED BY <2>6 DEF other
<1>15. Good(d, more, OpeningOf(v), files)
  <2>1. Counted(d, Expected(more, d.lru), OpeningOf(v)) /\ Linked(d, files)
    BY <1>8, <1>10, <1>12, <1>14 DEF Counted, Linked, E2
  <2> QED BY <1>10, <1>13, <2>1 DEF Good
<1>16. UserShape(v, files)
  BY <1>1, <1>6, ShapeMove
<1>17. RightTables(v, held)
  <2> SUFFICES ASSUME NEW k \in CacheThreads, v[k].pc = "use"
               PROVE  v[k].handle \in DOMAIN held /\ held[v[k].handle].number = v[k].number
    BY DEF RightTables
  <2>1. CASE k = t
    <3>1. v[k] = x
      BY <1>2, <2>1
    <3> QED BY <1>4, <1>5, <1>6, <1>11, <3>1
  <2>2. CASE k # t
    <3>1. v[k] = u[k]
      BY <1>2, <2>2
    <3>2. u[k].handle \in DOMAIN c.handles /\ c.handles[u[k].handle].number = u[k].number
      BY <1>1, <3>1 DEF RightTables
    <3> QED BY <1>11, <3>1, <3>2
  <2> QED BY <2>1, <2>2
<1> HIDE DEF v
<1>18. CacheIs(d, v, files)
  BY <1>1, <1>9, <1>10, <1>15, <1>16, <1>17 DEF CacheIs, more
<1> QED BY <1>18 DEF d, v, x

(* A table is inserted. *)
LEMMA InsertStep ==
  ASSUME NEW c, NEW u, NEW files, CacheIs(c, u, files), NEW t \in CacheThreads, u[t].pc = "read",
         NEW h, h = NewHandle(DOMAIN c.handles)
  PROVE  CacheIs(CacheInsert(c, h, u[t].number, u[t].kind),
                 [u EXCEPT ![t] = [pc |-> "use", number |-> u[t].number, handle |-> h, kind |-> "none"]], files)
<1> DEFINE n == u[t].number
           kind == u[t].kind
           x == [pc |-> "use", number |-> n, handle |-> h, kind |-> "none"]
           v == [u EXCEPT ![t] = x]
           d == CacheInsert(c, h, n, kind)
           users == CountOf(u)
           less == OpeningOf(v)
           other == OpeningOf(u)
<1>1. /\ UserShape(u, files) /\ RightTables(u, c.handles)
      /\ Good(c, users, other, files) /\ Len(c.lru) <= CacheCapacity
  BY DEF CacheIs
<1>2. u \in [CacheThreads -> UserStates] /\ n \in files /\ n \in TableNumbers /\ kind \in {"mmap", "fd"}
  BY <1>1 DEF UserShape, UserStates
<1>3. h \in Nat \ {0} /\ h \notin DOMAIN c.handles
  <2>1. IsFiniteSet(DOMAIN c.handles) /\ DOMAIN c.handles \subseteq Nat
    BY <1>1, ListedIsHeld
  <2> QED BY <2>1, NewHandleIsNew
<1>4. x \in UserStates /\ x.pc = "use" /\ x.kind = "none" /\ x.handle = h /\ x.number = n
  BY <1>2, <1>3 DEF UserStates
<1> HIDE DEF x
<1>5. CountOf(v) = MoreUsers(users, h)
  <2>1. u[t].pc # "use" /\ x.pc = "use" => CountOf(v) = MoreUsers(CountOf(u), x.handle)
    BY <1>2, <1>4, MoveKinds
  <2> QED BY <1>4, <2>1
<1>6. less \in Nat /\ other = less + (IF kind = "mmap" THEN 1 ELSE 0)
  <2>1. /\ other \in Nat /\ less \in Nat
        /\ less + (IF u[t].kind = "mmap" THEN 1 ELSE 0) = other + (IF x.kind = "mmap" THEN 1 ELSE 0)
    BY <1>2, <1>4, MoveCounts
  <2> HIDE DEF less, other
  <2>2. less + (IF kind = "mmap" THEN 1 ELSE 0) = other + 0
    BY <1>4, <2>1
  <2> QED BY <2>1, <2>2
<1> HIDE DEF users, less, other, n, kind
<1>7. /\ Good(d, MoreUsers(users, h), less, files) /\ Len(d.lru) <= CacheCapacity
      /\ \A g \in DOMAIN d.handles : IF g = h THEN d.handles[g].number = n
                                     ELSE g \in DOMAIN c.handles /\ d.handles[g].number = c.handles[g].number
  <2>1. Good(c, users, other, files) /\ n \in TableNumbers /\ n \in files /\ kind \in {"mmap", "fd"}
    BY <1>1, <1>2
  <2>2. Inserted(d, c, h, n, MoreUsers(users, h), less, files)
    BY ONLY <1>3, <1>6, <2>1, CacheInsertGood
  <2> HIDE DEF d
  <2> QED BY <2>2 DEF Inserted
<1> HIDE DEF d
<1>8. UserShape(v, files)
  BY <1>1, <1>2, <1>4, ShapeMove
<1>9. RightTables(v, d.handles)
  <2> SUFFICES ASSUME NEW k \in CacheThreads, v[k].pc = "use"
               PROVE  v[k].handle \in DOMAIN d.handles /\ d.handles[v[k].handle].number = v[k].number
    BY DEF RightTables
  <2>0. v \in [CacheThreads -> UserStates]
    BY <1>2, <1>4
  <2>1. v[k].handle \in DOMAIN d.handles
    <3> HIDE DEF v
    <3>1. Good(d, CountOf(v), less, files)
      BY <1>5, <1>7
    <3> QED BY <2>0, <3>1, UsedIsOpen
  <2>2. CASE k = t
    <3>1. v[k] = x
      BY <1>2, <2>2
    <3> QED BY <1>4, <1>7, <2>1, <3>1
  <2>3. CASE k # t
    <3>1. v[k] = u[k]
      BY <1>2, <2>3
    <3>2. u[k].handle \in DOMAIN c.handles /\ c.handles[u[k].handle].number = u[k].number
      BY <1>1, <3>1 DEF RightTables
    <3>3. u[k].handle # h
      BY <1>3, <3>2
    <3> QED BY <1>7, <2>1, <3>1, <3>2, <3>3
  <2> QED BY <2>2, <2>3
<1> HIDE DEF v
<1>10. CacheIs(d, v, files)
  BY <1>5, <1>7, <1>8, <1>9 DEF CacheIs, less
<1> QED BY <1>10 DEF d, v, x, n, kind

(* A thread leaves its table. *)
LEMMA ReleaseStep ==
  ASSUME NEW c, NEW u, NEW files, CacheIs(c, u, files), NEW t \in CacheThreads, u[t].pc = "use"
  PROVE  CacheIs(Unref(c, {u[t].handle}), [u EXCEPT ![t] = Away], files)
<1> DEFINE h == u[t].handle
           hs == {h}
           v == [u EXCEPT ![t] = Away]
           d == Unref(c, hs)
           users == CountOf(u)
           fewer == CountOf(v)
           other == OpeningOf(u)
           E == Expected(users, c.lru)
<1>1. /\ UserShape(u, files) /\ RightTables(u, c.handles)
      /\ Good(c, users, other, files) /\ Len(c.lru) <= CacheCapacity
  BY DEF CacheIs
<1>2. u \in [CacheThreads -> UserStates] /\ u[t].kind = "none"
  BY <1>1 DEF UserShape
<1>3. Away \in UserStates /\ Away.pc = "away" /\ Away.kind = "none"
  BY DEF UserStates, Away
<1>4. h \in DOMAIN c.handles /\ users[h] > 0
  BY <1>1, <1>2, UsedIsOpen
<1>5. fewer = FewerUsers(users, h)
  <2>1. u[t].pc = "use" /\ Away.pc # "use" => CountOf(v) = FewerUsers(CountOf(u), u[t].handle)
    BY <1>2, <1>3, MoveKinds
  <2> QED BY <1>3, <2>1
<1>6. other \in Nat /\ OpeningOf(v) = other
  <2>1. /\ other \in Nat /\ OpeningOf(v) \in Nat
        /\ OpeningOf(v) + (IF u[t].kind = "mmap" THEN 1 ELSE 0) = other + (IF Away.kind = "mmap" THEN 1 ELSE 0)
    BY <1>2, <1>3, MoveCounts
  <2> HIDE DEF other
  <2>2. OpeningOf(v) + 0 = other + 0
    BY <1>2, <1>3, <2>1
  <2> QED BY <2>1, <2>2
<1>7. /\ IsCache(c) /\ users \in [Nat -> Nat] /\ Counted(c, E, other) /\ Linked(c, files)
      /\ DOMAIN c.handles \subseteq Nat /\ ToSet(c.lru) \subseteq Nat
  BY <1>1, ListedIsHeld DEF Good
<1>8. h \in Nat /\ users[h] \in Nat
  BY <1>4, <1>7
<1> HIDE DEF h, users, fewer, other
<1>9. fewer \in [Nat -> Nat] /\ fewer[h] = users[h] - 1 /\ \A g \in Nat : g # h => fewer[g] = users[g]
  <2>1. users \in [Nat -> Nat] /\ fewer = [users EXCEPT ![h] = @ - 1] /\ users[h] - 1 \in Nat
    BY <1>4, <1>5, <1>7, <1>8 DEF FewerUsers
  <2> QED BY <1>8, <2>1
<1>10. E \in [Nat -> Nat] /\ Less(E, hs) = Expected(fewer, c.lru)
  <2>1. E \in [Nat -> Nat] /\ \A g \in Nat : E[g] = users[g] + IF g \in ToSet(c.lru) THEN 1 ELSE 0
    BY <1>7, ExpectedIs
  <2>2. \A g \in Nat : Expected(fewer, c.lru)[g] = fewer[g] + IF g \in ToSet(c.lru) THEN 1 ELSE 0
    BY <1>9, ExpectedIs
  <2>3. ASSUME NEW g \in Nat PROVE E[g] - (IF g \in hs THEN 1 ELSE 0) = Expected(fewer, c.lru)[g]
    <3>1. users[g] \in Nat
      BY <1>7
    <3> HIDE DEF E
    <3>2. CASE g = h
      <4>1. fewer[g] = users[g] - 1 /\ g \in hs
        BY <1>9, <3>2
      <4> QED BY <2>1, <2>2, <3>1, <4>1
    <3>3. CASE g # h
      <4>1. fewer[g] = users[g] /\ g \notin hs
        BY <1>9, <3>3
      <4> QED BY <2>1, <2>2, <3>1, <4>1
    <3> QED BY <3>2, <3>3
  <2>4. Less(E, hs) = [g \in Nat |-> Expected(fewer, c.lru)[g]]
    <3> HIDE DEF E, hs
    <3> QED BY <2>3 DEF Less
  <2>5. Expected(fewer, c.lru) = [g \in Nat |-> Expected(fewer, c.lru)[g]]
    BY DEF Expected
  <2> QED BY <2>1, <2>4, <2>5
<1> HIDE DEF E
<1>11. hs \in SUBSET DOMAIN c.handles
  BY <1>4
<1> HIDE DEF hs
<1>12. Released(d, c, Less(E, hs), other)
  BY <1>6, <1>7, <1>10, <1>11, UnrefCounted
<1>13. Linked(d, files)
  <2>1. ASSUME NEW g \in ToSet(c.lru) PROVE Less(E, hs)[g] > 0
    <3>1. g \in Nat /\ fewer[g] \in Nat
      BY <1>7, <1>9
    <3>2. Expected(fewer, c.lru)[g] = fewer[g] + 1
      BY <1>9, <3>1, ExpectedIs
    <3>3. Expected(fewer, c.lru)[g] > 0
      BY ONLY <3>1, <3>2
    <3>4. Less(E, hs) = Expected(fewer, c.lru)
      BY <1>10
    <3> QED BY ONLY <3>3, <3>4
  <2> QED BY <1>6, <1>7, <1>10, <1>11, <2>1, UnrefLinked
<1> HIDE DEF d
<1>14. d.lru = c.lru /\ IsCache(d) /\ Counted(d, Less(E, hs), other) /\ Keeps(d, c)
  BY <1>12 DEF Released, Keeps
<1>15. Good(d, fewer, other, files)
  BY <1>9, <1>10, <1>13, <1>14 DEF Good
<1>16. UserShape(v, files)
  BY <1>1, <1>3, ShapeMove
<1>17. RightTables(v, d.handles)
  <2> SUFFICES ASSUME NEW k \in CacheThreads, v[k].pc = "use"
               PROVE  v[k].handle \in DOMAIN d.handles /\ d.handles[v[k].handle].number = v[k].number
    BY DEF RightTables
  <2>0. v \in [CacheThreads -> UserStates] /\ k # t
    BY <1>2, <1>3
  <2>1. v[k] = u[k]
    BY <1>2, <2>0
  <2>2. v[k].handle \in DOMAIN d.handles
    <3> HIDE DEF v
    <3>1. Good(d, CountOf(v), other, files)
      BY <1>15 DEF fewer
    <3> QED BY <2>0, <3>1, UsedIsOpen
  <2>3. u[k].handle \in DOMAIN c.handles /\ c.handles[u[k].handle].number = u[k].number
    BY <1>1, <2>1 DEF RightTables
  <2> QED BY <1>14, <2>1, <2>2, <2>3 DEF Keeps
<1> HIDE DEF v
<1>18. CacheIs(d, v, files)
  BY <1>1, <1>6, <1>14, <1>15, <1>16, <1>17 DEF CacheIs, fewer
<1> QED BY <1>18 DEF d, v, hs, h

(* A removed file's table is erased. *)
LEMMA EvictStep ==
  ASSUME NEW c, NEW u, NEW files, CacheIs(c, u, files), NEW number \in TableNumbers,
         \A t \in CacheThreads : u[t].pc \in {"open", "read"} => u[t].number # number
  PROVE  CacheIs(CacheErase(c, number), u, files \ {number})
<1> DEFINE d == CacheErase(c, number)
           left == files \ {number}
<1>1. /\ UserShape(u, files) /\ RightTables(u, c.handles)
      /\ Good(c, CountOf(u), OpeningOf(u), files) /\ Len(c.lru) <= CacheCapacity
  BY DEF CacheIs
<1>2. u \in [CacheThreads -> UserStates] /\ UserShape(u, left)
  BY <1>1 DEF UserShape
<1>3. OpeningOf(u) \in Nat
  <2> DEFINE A == {t \in CacheThreads : u[t].kind = "mmap"}
  <2>1. A \in SUBSET CacheThreads
    OBVIOUS
  <2> HIDE DEF A
  <2>2. IsFiniteSet(A)
    BY <2>1, TableCacheAssumption, FS_Subset
  <2>3. Cardinality(A) \in Nat
    BY <2>2, FS_CardinalityType
  <2> QED BY <2>3 DEF A, OpeningOf
<1>4. Good(d, CountOf(u), OpeningOf(u), left) /\ Keeps(d, c) /\ Len(d.lru) <= Len(c.lru)
  BY <1>1, <1>3, CacheEraseGood
<1> HIDE DEF d, left
<1>5. Len(d.lru) <= CacheCapacity
  <2>1. Len(d.lru) \in Nat /\ Len(c.lru) \in Nat
    BY <1>1, <1>4, ListWithinUsage
  <2> QED BY <1>1, <1>4, <2>1, TableCacheAssumption
<1>6. RightTables(u, d.handles)
  <2> SUFFICES ASSUME NEW k \in CacheThreads, u[k].pc = "use"
               PROVE  u[k].handle \in DOMAIN d.handles /\ d.handles[u[k].handle].number = u[k].number
    BY DEF RightTables
  <2>1. u[k].handle \in DOMAIN d.handles
    BY <1>2, <1>4, UsedIsOpen
  <2>2. c.handles[u[k].handle].number = u[k].number
    BY <1>1 DEF RightTables
  <2> QED BY <1>4, <2>1, <2>2 DEF Keeps
<1>7. CacheIs(d, u, left)
  BY <1>2, <1>4, <1>5, <1>6 DEF CacheIs
<1> QED BY <1>7 DEF d, left

(* The cache is deleted. *)
Emptied(c) ==
    [Unref(c, ToSet(c.lru)) EXCEPT !.lru = <<>>, !.elems = 0, !.length = kFirstLength,
                                   !.list = [b \in 0 .. kFirstLength - 1 |-> {}]]

(* The deletion of the cache keeps the invariant. *)
LEMMA DeleteStep ==
  ASSUME NEW c, NEW u, NEW files, CacheIs(c, u, files), \A t \in CacheThreads : u[t] = Away
  PROVE  CacheIs(Emptied(c), u, files) /\ IsCache(Emptied(c))
<1> DEFINE S == ToSet(c.lru)
           r == Unref(c, S)
           list == [b \in 0 .. kFirstLength - 1 |-> {}]
           d == Emptied(c)
           users == CountOf(u)
           other == OpeningOf(u)
           E == Expected(users, c.lru)
<1>1. /\ UserShape(u, files) /\ RightTables(u, c.handles)
      /\ Good(c, users, other, files) /\ Len(c.lru) <= CacheCapacity
  BY DEF CacheIs
<1>2. /\ IsCache(c) /\ users \in [Nat -> Nat] /\ Counted(c, E, other)
      /\ S \in SUBSET DOMAIN c.handles /\ S \in SUBSET ToSet(c.lru)
  BY <1>1, ListedIsHeld DEF Good
<1>3. ToSet(<<>>) = ToSet(c.lru) \ S
  BY DEF ToSet
<1>4. other \in Nat
  <2> DEFINE A == {t \in CacheThreads : u[t].kind = "mmap"}
  <2>1. A \in SUBSET CacheThreads
    OBVIOUS
  <2> HIDE DEF A
  <2>2. IsFiniteSet(A)
    BY <2>1, TableCacheAssumption, FS_Subset
  <2>3. Cardinality(A) \in Nat
    BY <2>2, FS_CardinalityType
  <2> QED BY <2>3 DEF A, OpeningOf
<1> HIDE DEF S, users, other
<1>5. E \in [Nat -> Nat] /\ Less(E, S) = Expected(users, <<>>)
  <2>1. Less(E, S) = Expected(users, <<>>)
    BY <1>2, <1>3, ExpectedLess
  <2> QED BY <1>2, <2>1, ExpectedIs
<1> HIDE DEF E
<1>6. Released(r, c, Less(E, S), other)
  BY <1>2, <1>4, <1>5, UnrefCounted
<1> HIDE DEF r
<1>7. IsCache(r) /\ Counted(r, Expected(users, <<>>), other)
  BY <1>5, <1>6 DEF Released
<1>8. d = [r EXCEPT !.lru = <<>>, !.elems = 0, !.length = kFirstLength, !.list = list]
  BY DEF Emptied, r, S
<1> HIDE DEF d, list
<1>9. /\ IsCache(d) /\ d.length = kFirstLength /\ d.list = list /\ d.elems = 0 /\ d.lru = <<>>
      /\ d.usage = r.usage /\ d.handles = r.handles /\ d.allowed = r.allowed
  BY <1>7, <1>8 DEF IsCache
<1>10. Links(kFirstLength, list, 0, <<>>, d.handles, files)
  <2>1. ToSet(<<>>) = {} /\ Len(<<>>) = 0 /\ <<>> \in Seq(Nat \ {0})
    BY DEF ToSet
  <2>2. Cardinality({}) = 0
    BY FS_EmptySet
  <2>3. Distinct(<<>>)
    BY <2>1 DEF Distinct
  <2>4. list = [b \in 0 .. kFirstLength - 1 |-> {h \in {} : HashOf(d.handles[h].number) % kFirstLength = b}]
    BY DEF list
  <2> QED BY <2>1, <2>2, <2>3, <2>4, TableCacheAssumption DEF Links
<1>11. Good(d, users, other, files)
  <2>1. Counted(d, Expected(users, d.lru), other) /\ Linked(d, files)
    BY <1>7, <1>9, <1>10 DEF Counted, Linked
  <2> QED BY <1>2, <1>9, <2>1 DEF Good
<1>12. RightTables(u, d.handles) /\ Len(d.lru) <= CacheCapacity
  <2>1. RightTables(u, d.handles)
    BY DEF RightTables, Away
  <2>2. Len(d.lru) = 0
    BY <1>9
  <2> QED BY <2>1, <2>2, TableCacheAssumption
<1>13. CacheIs(d, u, files)
  BY <1>1, <1>11, <1>12 DEF CacheIs, users, other
<1> QED BY <1>9, <1>13 DEF d

(* Storing a cache makes it the cache. *)
LEMMA StoreIs ==
  ASSUME NEW c, IsCache(c), Store(c)
  PROVE  Cached' = c
<1>1. Cached' = [length |-> c.length, list |-> c.list, elems |-> c.elems, lru |-> c.lru, usage |-> c.usage,
                 handles |-> c.handles, allowed |-> c.allowed]
  BY DEF Cached, Store
<1> QED BY <1>1 DEF IsCache

(* The cache is a record of its fields. *)
LEMMA InvIsCache ==
  ASSUME NEW c, NEW u, NEW files, CacheIs(c, u, files)
  PROVE  IsCache(c)
BY DEF CacheIs, Good

(* The invariant holds at first. *)
LEMMA CacheInitInv == CacheInit => CacheInv
<1> SUFFICES ASSUME CacheInit PROVE CacheInv
  OBVIOUS
<1> DEFINE list == [b \in 0 .. kFirstLength - 1 |-> {}]
           c == [length |-> kFirstLength, list |-> list, elems |-> 0, lru |-> <<>>, usage |-> 0, handles |-> <<>>,
                 allowed |-> MmapLimit]
           u == [t \in CacheThreads |-> Away]
<1>1. Cached = c /\ user = u /\ onDisk = TableNumbers
  BY DEF CacheInit, Cached
<1>2. UserShape(u, TableNumbers) /\ RightTables(u, <<>>)
  <2>1. Away \in UserStates /\ Away.pc = "away" /\ Away.kind = "none"
    BY DEF UserStates, Away
  <2> QED BY <2>1 DEF UserShape, RightTables
<1>3. \A t \in CacheThreads : u[t].pc # "use" /\ u[t].kind # "mmap"
  BY DEF Away
<1> HIDE DEF u
<1>4. OpeningOf(u) = 0 /\ CountOf(u) = [h \in Nat |-> 0]
  <2>1. Cardinality({}) = 0
    BY FS_EmptySet
  <2>2. {t \in CacheThreads : u[t].kind = "mmap"} = {}
    BY <1>3
  <2>3. \A h \in Nat : {t \in CacheThreads : u[t].pc = "use" /\ u[t].handle = h} = {}
    BY <1>3
  <2> QED BY <2>1, <2>2, <2>3 DEF OpeningOf, CountOf
<1>5. ToSet(<<>>) = {} /\ Len(<<>>) = 0 /\ <<>> \in Seq(Nat \ {0}) /\ DOMAIN <<>> = {}
  BY DEF ToSet
<1>6. Cardinality({}) = 0 /\ IsFiniteSet({})
  BY FS_EmptySet
<1>7. Links(kFirstLength, list, 0, <<>>, <<>>, TableNumbers)
  <2>1. Distinct(<<>>)
    BY <1>5 DEF Distinct
  <2>2. list = [b \in 0 .. kFirstLength - 1 |-> {h \in {} : HashOf((<<>>)[h].number) % kFirstLength = b}]
    OBVIOUS
  <2> HIDE DEF list
  <2> QED BY <1>5, <1>6, <2>1, <2>2, TableCacheAssumption DEF Links
<1>8. Counts(<<>>, 0, MmapLimit, Expected([h \in Nat |-> 0], <<>>), 0)
  <2> DEFINE E == Expected([h \in Nat |-> 0], <<>>)
  <2>1. \A h \in Nat : E[h] = 0
    BY <1>5 DEF Expected
  <2>2. Maps(<<>>) = {}
    BY <1>5 DEF Maps
  <2>3. MmapLimit \in Nat /\ MmapLimit + Cardinality(Maps(<<>>)) + 0 = MmapLimit
    <3>1. Cardinality(Maps(<<>>)) = 0 /\ MmapLimit \in Nat
      BY <1>6, <2>2, TableCacheAssumption
    <3> QED BY ONLY <3>1
  <2>4. <<>> \in [DOMAIN <<>> -> Handle]
    BY <1>5
  <2> HIDE DEF E
  <2> QED BY <1>5, <1>6, <2>1, <2>3, <2>4 DEF Counts, E
<1>9. IsCache(c)
  BY DEF IsCache
<1>10. /\ c.length = kFirstLength /\ c.list = list /\ c.elems = 0 /\ c.lru = <<>> /\ c.usage = 0 /\ c.handles = <<>>
       /\ c.allowed = MmapLimit
  OBVIOUS
<1> HIDE DEF c, list
<1>11. [h \in Nat |-> 0] \in [Nat -> Nat]
  OBVIOUS
<1>12. Good(c, CountOf(u), OpeningOf(u), TableNumbers)
  <2>1. Counted(c, Expected(CountOf(u), c.lru), OpeningOf(u)) /\ Linked(c, TableNumbers)
    BY <1>4, <1>7, <1>8, <1>10 DEF Counted, Linked
  <2> QED BY <1>4, <1>9, <1>11, <2>1 DEF Good
<1>13. CacheIs(c, u, TableNumbers)
  BY <1>2, <1>5, <1>10, <1>12, TableCacheAssumption DEF CacheIs
<1> QED BY <1>1, <1>13 DEF CacheInv

(* The steps keep the invariant. *)
LEMMA CacheStepInv == CacheInv /\ [CacheNext]_cacheVars => CacheInv'
<1> SUFFICES ASSUME CacheInv, [CacheNext]_cacheVars PROVE CacheInv'
  OBVIOUS
<1> DEFINE c == Cached
<1>1. CacheIs(c, user, onDisk) /\ IsCache(c)
  BY InvIsCache DEF CacheInv
<1>2. /\ UserShape(user, onDisk) /\ Good(c, CountOf(user), OpeningOf(user), onDisk)
      /\ user \in [CacheThreads -> UserStates] /\ onDisk \subseteq TableNumbers
  BY <1>1 DEF CacheIs, UserShape
<1>3. /\ c.length = length_ /\ c.list = list_ /\ c.elems = elems_ /\ c.lru = lru_ /\ c.usage = usage_
      /\ c.handles = handles /\ c.allowed = allowed
  BY DEF Cached
<1>4. allowed \in Nat
  BY <1>2, <1>3 DEF Good, Counted, Counts
<1>5. ASSUME NEW d, CacheIs(d, user', onDisk'), Store(d) PROVE CacheInv'
  <2>1. IsCache(d)
    BY <1>5, InvIsCache
  <2>2. Cached' = d
    BY <1>5, <2>1, StoreIs
  <2> QED BY <1>5, <2>2 DEF CacheInv
<1>6. ASSUME UNCHANGED <<length_, list_, elems_, lru_, usage_, handles>>
      PROVE  Cached' = [c EXCEPT !.allowed = allowed']
  BY <1>6 DEF Cached
<1> HIDE DEF c
<1>7. [c EXCEPT !.allowed = allowed] = c
  BY <1>1, <1>3 DEF IsCache
<1>8. ASSUME NEW t \in CacheThreads, NEW n \in TableNumbers, Lookup(t, n) PROVE CacheInv'
  <2> DEFINE h == Find(c, n)
  <2>1. user[t] = Away /\ n \in onDisk /\ onDisk' = onDisk
    BY <1>8 DEF Lookup
  <2>2. CASE h # 0
    <3>1. /\ Store(Hit(c, h))
          /\ user' = [user EXCEPT ![t] = [pc |-> "use", number |-> n, handle |-> h, kind |-> "none"]]
      BY <1>8, <2>2 DEF Lookup, Hit, c
    <3> HIDE DEF h
    <3>2. CacheIs(Hit(c, h), user', onDisk')
      BY <1>1, <2>1, <2>2, <3>1, HitStep DEF h
    <3> QED BY <1>5, <3>1, <3>2
  <2>3. CASE h = 0
    <3> DEFINE x == [Away EXCEPT !.pc = "open", !.number = n]
    <3>1. /\ UNCHANGED <<length_, list_, elems_, lru_, usage_, handles, allowed>>
          /\ user' = [user EXCEPT ![t] = x]
      BY <1>8, <2>3 DEF Lookup, c
    <3>2. x \in UserStates /\ x.pc = "open" /\ x.kind = "none" /\ x.number = n
      BY DEF Away, UserStates
    <3>3. user[t].pc = "away" /\ user[t].kind = "none"
      BY <2>1 DEF Away
    <3> HIDE DEF x
    <3>4. allowed + (IF x.kind = "mmap" THEN 1 ELSE 0) = c.allowed + (IF user[t].kind = "mmap" THEN 1 ELSE 0)
      BY <1>3, <3>2, <3>3
    <3>5. CacheIs([c EXCEPT !.allowed = allowed], [user EXCEPT ![t] = x], onDisk)
      BY <1>1, <1>4, <2>1, <3>2, <3>3, <3>4, OpeningStep
    <3>6. Cached' = c
      BY <1>6, <1>7, <3>1
    <3> QED BY <1>7, <2>1, <3>1, <3>5, <3>6 DEF CacheInv
  <2> QED BY <2>2, <2>3
<1>9. ASSUME NEW t \in CacheThreads, OpenFile(t) PROVE CacheInv'
  <2>1. user[t].pc = "open" /\ onDisk' = onDisk /\ UNCHANGED <<length_, list_, elems_, lru_, usage_, handles>>
    BY <1>9 DEF OpenFile
  <2>2. user[t] \in UserStates /\ user[t].kind = "none" /\ user[t].number \in onDisk
    BY <1>2, <2>1 DEF UserShape
  <2> DEFINE x == [user[t] EXCEPT !.pc = "read", !.kind = NewRandomAccessFile(allowed).kind]
  <2>3. CASE allowed' = NewRandomAccessFile(allowed).slots /\ user' = [user EXCEPT ![t].pc = "read", ![t].kind = NewRandomAccessFile(allowed).kind]
    <3>1. user' = [user EXCEPT ![t] = x]
      BY <1>2, <2>3
    <3>2. NewRandomAccessFile(allowed).kind = (IF allowed > 0 THEN "mmap" ELSE "fd") /\ allowed' = IF allowed > 0 THEN allowed - 1 ELSE allowed
      BY <2>3 DEF NewRandomAccessFile, Acquire
    <3>3. x \in UserStates /\ x.pc = "read" /\ x.kind = (IF allowed > 0 THEN "mmap" ELSE "fd") /\ x.number = user[t].number
      BY <2>2, <3>2 DEF UserStates
    <3> HIDE DEF x
    <3>4. allowed' \in Nat /\ allowed' + (IF x.kind = "mmap" THEN 1 ELSE 0) = c.allowed + (IF user[t].kind = "mmap" THEN 1 ELSE 0)
      BY <1>3, <1>4, <2>2, <3>2, <3>3
    <3>5. PICK slots : slots = allowed'
      OBVIOUS
    <3>6. CacheIs([c EXCEPT !.allowed = slots], [user EXCEPT ![t] = x], onDisk)
      BY <1>1, <2>1, <2>2, <3>3, <3>4, <3>5, OpeningStep
    <3> QED BY <1>6, <2>1, <3>1, <3>5, <3>6 DEF CacheInv
  <2>4. CASE user' = [user EXCEPT ![t] = Away] /\ UNCHANGED allowed
    <3>1. Away \in UserStates /\ Away.pc = "away" /\ Away.kind = "none"
      BY DEF UserStates, Away
    <3>2. allowed + (IF Away.kind = "mmap" THEN 1 ELSE 0) = c.allowed + (IF user[t].kind = "mmap" THEN 1 ELSE 0)
      BY <1>3, <2>2, <3>1
    <3>3. CacheIs([c EXCEPT !.allowed = allowed], [user EXCEPT ![t] = Away], onDisk)
      BY <1>1, <1>4, <2>1, <3>1, <3>2, OpeningStep
    <3> QED BY <1>6, <2>1, <2>4, <3>3 DEF CacheInv
  <2> QED BY <1>9, <2>3, <2>4 DEF OpenFile
<1>10. ASSUME NEW t \in CacheThreads, OpenFails(t) PROVE CacheInv'
  <2>1. /\ user[t].pc = "read" /\ onDisk' = onDisk /\ UNCHANGED <<length_, list_, elems_, lru_, usage_, handles>>
        /\ user' = [user EXCEPT ![t] = Away] /\ allowed' = IF user[t].kind = "mmap" THEN allowed + 1 ELSE allowed
    BY <1>10 DEF OpenFails, SlotsAfterError, DeleteFile
  <2>2. Away \in UserStates /\ Away.pc = "away" /\ Away.kind = "none"
    BY DEF UserStates, Away
  <2>3. allowed' \in Nat /\ allowed' + (IF Away.kind = "mmap" THEN 1 ELSE 0) = c.allowed + (IF user[t].kind = "mmap" THEN 1 ELSE 0)
    BY <1>3, <1>4, <2>1, <2>2
  <2>4. PICK slots : slots = allowed'
    OBVIOUS
  <2>5. CacheIs([c EXCEPT !.allowed = slots], [user EXCEPT ![t] = Away], onDisk)
    BY <1>1, <2>1, <2>2, <2>3, <2>4, OpeningStep
  <2> QED BY <1>6, <2>1, <2>4, <2>5 DEF CacheInv
<1>11. ASSUME NEW t \in CacheThreads, Insert(t) PROVE CacheInv'
  <2> DEFINE h == NewHandle(DOMAIN c.handles)
             x == [pc |-> "use", number |-> user[t].number, handle |-> h, kind |-> "none"]
  <2>1. /\ user[t].pc = "read" /\ onDisk' = onDisk
        /\ Store(CacheInsert(c, h, user[t].number, user[t].kind))
        /\ user' = [user EXCEPT ![t].pc = "use", ![t].handle = h, ![t].kind = "none"]
    BY <1>3, <1>11 DEF Insert, c
  <2> HIDE DEF h
  <2>2. user' = [user EXCEPT ![t] = x]
    <3>1. user[t] \in UserStates
      BY <1>2
    <3>2. [user[t] EXCEPT !.pc = "use", !.handle = h, !.kind = "none"] = x
      <4>1. PICK y \in UserStates : y = user[t]
        BY <3>1
      <4>2. y = [pc |-> y.pc, number |-> y.number, handle |-> y.handle, kind |-> y.kind]
        BY DEF UserStates
      <4>3. [y EXCEPT !.pc = "use", !.handle = h, !.kind = "none"]
            = [pc |-> "use", number |-> y.number, handle |-> h, kind |-> "none"]
        <5> DEFINE z == [y EXCEPT !.pc = "use", !.handle = h, !.kind = "none"]
        <5>1. z = [y EXCEPT !.pc = "use", !.handle = h, !.kind = "none"]
          OBVIOUS
        <5> HIDE DEF z
        <5>2. /\ z = [pc |-> z.pc, number |-> z.number, handle |-> z.handle, kind |-> z.kind]
              /\ z.pc = "use" /\ z.number = y.number /\ z.handle = h /\ z.kind = "none"
          BY ONLY <4>2, <5>1
        <5> QED BY <5>2 DEF z
      <4> QED BY <4>1, <4>3
    <3>3. [user EXCEPT ![t].pc = "use", ![t].handle = h, ![t].kind = "none"]
          = [user EXCEPT ![t] = [user[t] EXCEPT !.pc = "use", !.handle = h, !.kind = "none"]]
      BY <1>2
    <3> QED BY <2>1, <3>2, <3>3
  <2>3. CacheIs(CacheInsert(c, h, user[t].number, user[t].kind), [user EXCEPT ![t] = x], onDisk)
    BY <1>1, <2>1, InsertStep DEF h
  <2> HIDE DEF x
  <2> QED BY <1>5, <2>1, <2>2, <2>3
<1>12. ASSUME NEW t \in CacheThreads, Release(t) PROVE CacheInv'
  <2>1. /\ user[t].pc = "use" /\ onDisk' = onDisk /\ Store(Unref(c, {user[t].handle})) /\ user' = [user EXCEPT ![t] = Away]
    BY <1>12 DEF Release, c
  <2>2. CacheIs(Unref(c, {user[t].handle}), user', onDisk')
    BY <1>1, <2>1, ReleaseStep
  <2> QED BY <1>5, <2>1, <2>2
<1>13. ASSUME NEW n \in TableNumbers, Evict(n) PROVE CacheInv'
  <2>1. /\ Store(CacheErase(c, n)) /\ onDisk' = onDisk \ {n} /\ user' = user
        /\ \A t \in CacheThreads : user[t].pc \in {"open", "read"} => user[t].number # n
    BY <1>13 DEF Evict, BeingOpened, c
  <2>2. CacheIs(CacheErase(c, n), user', onDisk')
    BY <1>1, <2>1, EvictStep
  <2> QED BY <1>5, <2>1, <2>2
<1>14. ASSUME DeleteCache PROVE CacheInv'
  <2>1. /\ \A t \in CacheThreads : user[t] = Away
        /\ Store(Emptied(c)) /\ onDisk' = onDisk /\ user' = user
    BY <1>3, <1>14 DEF DeleteCache, Emptied, c
  <2>2. CacheIs(Emptied(c), user', onDisk')
    BY <1>1, <2>1, DeleteStep
  <2> QED BY <1>5, <2>1, <2>2
<1>15. ASSUME UNCHANGED cacheVars PROVE CacheInv'
  <2>1. Cached' = Cached /\ user' = user /\ onDisk' = onDisk
    BY <1>15 DEF cacheVars, Cached
  <2> QED BY <2>1 DEF CacheInv
<1> QED BY <1>8, <1>9, <1>10, <1>11, <1>12, <1>13, <1>14, <1>15 DEF CacheNext

(* The invariant gives what the cache promises. *)
LEMMA CacheInvSound == CacheInv => CacheSound
<1> SUFFICES ASSUME CacheInv PROVE CacheSound
  OBVIOUS
<1> DEFINE c == Cached
           E == Expected(CountOf(user), lru_)
<1>1. CacheIs(c, user, onDisk)
  BY DEF CacheInv
<1>2. /\ UserShape(user, onDisk) /\ RightTables(user, c.handles)
      /\ Good(c, CountOf(user), OpeningOf(user), onDisk) /\ Len(c.lru) <= CacheCapacity
  BY <1>1 DEF CacheIs
<1>3. /\ c.length = length_ /\ c.list = list_ /\ c.elems = elems_ /\ c.lru = lru_ /\ c.usage = usage_
      /\ c.handles = handles /\ c.allowed = allowed
  BY DEF Cached
<1> HIDE DEF c
<1>4. /\ CountOf(user) \in [Nat -> Nat] /\ Counts(handles, usage_, allowed, E, OpeningOf(user))
      /\ Linked(c, onDisk) /\ Links(length_, list_, elems_, lru_, handles, onDisk)
  BY <1>2, <1>3 DEF Good, Counted, Linked
<1>5. /\ \A h \in DOMAIN handles : h \in Nat /\ handles[h].refs = E[h] /\ E[h] > 0
      /\ usage_ = Cardinality(DOMAIN handles) /\ allowed \in Nat
      /\ allowed + Cardinality(Maps(handles)) + OpeningOf(user) = MmapLimit
      /\ IsFiniteSet(DOMAIN handles)
  BY <1>4 DEF Counts
<1>6. ASSUME NEW h \in DOMAIN handles
      PROVE  handles[h].refs = Users(h) + (IF h \in ToSet(lru_) THEN 1 ELSE 0) /\ handles[h].refs > 0
  <2>1. E[h] = CountOf(user)[h] + IF h \in ToSet(lru_) THEN 1 ELSE 0
    BY <1>4, <1>5, ExpectedIs
  <2>2. CountOf(user)[h] = Users(h)
    BY <1>5 DEF CountOf, Users
  <2> HIDE DEF E
  <2> QED BY <1>5, <2>1, <2>2
<1>7. allowed + Mapped = MmapLimit
  <2> DEFINE m == Cardinality(Maps(handles))
             o == OpeningOf(user)
  <2>1. Mapped = m + o
    BY DEF Mapped, Maps, OpeningOf
  <2>2. m \in Nat
    <3>1. Maps(handles) \in SUBSET DOMAIN handles
      BY DEF Maps
    <3>2. IsFiniteSet(Maps(handles))
      BY <1>5, <3>1, FS_Subset
    <3> QED BY <3>2, FS_CardinalityType
  <2>3. o \in Nat
    <3> DEFINE A == {t \in CacheThreads : user[t].kind = "mmap"}
    <3>1. A \in SUBSET CacheThreads
      OBVIOUS
    <3> HIDE DEF A
    <3>2. IsFiniteSet(A)
      BY <3>1, TableCacheAssumption, FS_Subset
    <3>3. Cardinality(A) \in Nat
      BY <3>2, FS_CardinalityType
    <3> QED BY <3>3 DEF A, OpeningOf
  <2> HIDE DEF m, o
  <2>4. allowed + m + o = MmapLimit
    BY <1>5 DEF m, o
  <2>5. allowed + (m + o) = MmapLimit
    BY <1>5, <2>2, <2>3, <2>4
  <2> QED BY <2>1, <2>5
<1>8. TablesInUseAreOpen
  <2>1. \A t \in CacheThreads :
           user[t].pc = "use" => user[t].handle \in DOMAIN handles /\ handles[user[t].handle].number = user[t].number
    BY <1>2, <1>3 DEF RightTables
  <2>2. Len(lru_) <= CacheCapacity
    BY <1>2, <1>3
  <2> QED BY <1>5, <1>6, <1>7, <2>1, <2>2 DEF TablesInUseAreOpen
<1>9. EntriesAreFound
  <2>1. elems_ = Len(lru_)
    <3>1. lru_ \in Seq(Nat \ {0}) /\ Distinct(lru_) /\ elems_ = Cardinality(ToSet(lru_))
      BY <1>4 DEF Links
    <3> QED BY <3>1, LengthOfList
  <2>2. ASSUME NEW h \in ToSet(lru_)
        PROVE  h \in DOMAIN handles /\ handles[h].number \in onDisk /\ Find(Cached, handles[h].number) = h
    <3>1. h \in DOMAIN handles /\ handles[h].number \in onDisk
      BY <1>4 DEF Links
    <3> DEFINE n == handles[h].number
               f == Find(c, n)
    <3>2. n \in TableNumbers
      BY <1>2, <3>1 DEF UserShape
    <3>3. \/ f = 0 /\ \A k \in ToSet(c.lru) : c.handles[k].number # n
          \/ f # 0 /\ f \in ToSet(c.lru) /\ c.handles[f].number = n
      BY <1>4, <3>2, FindIs
    <3> HIDE DEF f
    <3>4. f \in ToSet(lru_) /\ handles[f].number = n
      BY <1>3, <3>3
    <3>5. f = h
      BY <1>4, <3>4 DEF Links
    <3> QED BY <3>1, <3>5 DEF f, c
  <2> QED BY <2>1, <2>2 DEF EntriesAreFound
<1> QED BY <1>8, <1>9 DEF CacheSound

(* Whatever threads, files, capacity and limit: every table in use is open  *)
(* and the one asked for, a table nobody holds is closed, the charge and    *)
(* the mmap slots add up, and every entry is found, of a file that exists.  *)
THEOREM TableCacheSound == CacheSpec => []CacheSound
<1>1. CacheInit => CacheInv
  BY CacheInitInv
<1>2. CacheInv /\ [CacheNext]_cacheVars => CacheInv'
  BY CacheStepInv
<1>3. CacheInv => CacheSound
  BY CacheInvSound
<1> QED BY <1>1, <1>2, <1>3, PTL DEF CacheSpec

-----------------------------------------------------------------------------
(***************************************************************************)
(* The environment.                                                        *)
(***************************************************************************)
Holding == {"listed", "open", "unlocked"}

EnvTyped ==
    /\ queue_ \in Seq(Users_) /\ started_bgthread_ \in BOOLEAN
    /\ bgthread \in {"none", "running", "waiting", "woken", "calling"}
    /\ opener \in [Users_ -> Holding \cup {"closed", "delisted"}]

(* The background thread only sleeps on an empty queue. *)
QueueIsServed ==
    /\ bgthread = "none" => ~ started_bgthread_
    /\ bgthread \in {"none", "waiting"} => queue_ = <<>>

(* Between locks_.Insert and locks_.Remove the file is in the table of the  *)
(* opener's process, for one opener of it.                                  *)
TableHoldsOne ==
    /\ \A u \in Users_ : opener[u] \in Holding => ProcessOf(u) \in locked_files_
    /\ \A u, v \in Users_ : opener[u] \in Holding /\ opener[v] \in Holding /\ u # v => ProcessOf(u) # ProcessOf(v)

EnvInv == EnvTyped /\ QueueIsServed /\ TableHoldsOne

(* The steps of the lock leave the queue alone, and the other way round. *)
LEMMA LockStep ==
  ASSUME EnvInv, NEW u \in Users_,
         \/ LockTableInsert(u) \/ LockOrUnlock(u) \/ UnlockSystem(u) \/ UnlockTable(u) \/ UnlockClose(u)
  PROVE  EnvInv'
<1>0. opener \in [Users_ -> Holding \cup {"closed", "delisted"}]
  BY DEF EnvInv, EnvTyped
<1>1. UNCHANGED queueVars
  BY DEF LockTableInsert, LockOrUnlock, UnlockSystem, UnlockTable, UnlockClose
<1>2. QueueIsServed'
  BY <1>1 DEF EnvInv, QueueIsServed, queueVars
<1>3. CASE LockTableInsert(u)
  <2>1. CASE UNCHANGED <<opener, locked_files_>>
    BY <2>1, <1>1, <1>2 DEF EnvInv, EnvTyped, TableHoldsOne, queueVars
  <2>2. CASE /\ ProcessOf(u) \notin locked_files_ /\ locked_files_' = locked_files_ \cup {ProcessOf(u)}
             /\ opener' = [opener EXCEPT ![u] = "listed"]
    <3>1. TableHoldsOne'
      BY <2>2, <1>0 DEF EnvInv, TableHoldsOne, Holding
    <3> QED
      BY <3>1, <2>2, <1>0, <1>1, <1>2 DEF EnvInv, EnvTyped, queueVars, Holding
  <2> QED
    BY <1>3, <2>1, <2>2 DEF LockTableInsert
<1>4. CASE LockOrUnlock(u) \/ UnlockSystem(u) \/ UnlockTable(u) \/ UnlockClose(u)
  <2>1. PICK s \in Holding \cup {"closed", "delisted"} :
             /\ opener' = [opener EXCEPT ![u] = s]
             /\ \/ s \in {"open", "unlocked"} /\ opener[u] \in Holding /\ locked_files_' = locked_files_
                \/ /\ s \in {"closed", "delisted"} /\ opener[u] \in Holding
                   /\ locked_files_' = locked_files_ \ {ProcessOf(u)}
                \/ s = "closed" /\ opener[u] \notin Holding /\ locked_files_' = locked_files_
    BY <1>4 DEF LockOrUnlock, UnlockSystem, UnlockTable, UnlockClose, Holding
  <2>2. TableHoldsOne'
    BY <2>1, <1>0 DEF EnvInv, TableHoldsOne, Holding
  <2> QED
    BY <2>1, <2>2, <1>0, <1>1, <1>2 DEF EnvInv, EnvTyped, queueVars
<1> QED
  BY <1>3, <1>4

(* The queue of work and the background thread. *)
LEMMA QueueStep ==
  ASSUME EnvInv, (\E u \in Users_ : Schedule(u)) \/ BGThreadTake \/ BGThreadReturn
  PROVE  EnvInv'
<1>1. UNCHANGED lockVars
  BY DEF Schedule, BGThreadTake, BGThreadReturn
<1>2. TableHoldsOne'
  BY <1>1 DEF EnvInv, TableHoldsOne, lockVars
<1>3. CASE \E u \in Users_ : Schedule(u)
  <2> PICK u \in Users_ : Schedule(u)
    BY <1>3
  <2>1. EnvTyped'
    BY <1>1 DEF EnvInv, EnvTyped, Schedule, SignalNeeded, lockVars
  <2>2. bgthread' \notin {"none", "waiting"}
    BY DEF EnvInv, EnvTyped, QueueIsServed, Schedule, SignalNeeded
  <2> QED
    BY <1>2, <2>1, <2>2 DEF EnvInv, QueueIsServed
<1>4. CASE BGThreadTake \/ BGThreadReturn
  <2>1. EnvTyped'
    BY <1>1, <1>4 DEF EnvInv, EnvTyped, BGThreadTake, BGThreadReturn, lockVars
  <2>2. QueueIsServed'
    BY <1>4 DEF EnvInv, QueueIsServed, BGThreadTake, BGThreadReturn
  <2> QED
    BY <1>2, <2>1, <2>2 DEF EnvInv
<1> QED
  BY <1>3, <1>4

(* For any number of openers in any number of processes: work handed to     *)
(* Schedule never waits for a thread that waits for work, and inside a      *)
(* process the lock table keeps a second opener out (PosixEnv::Schedule,    *)
(* BGThread, LockFile, UnlockFile).                                         *)
THEOREM EnvironmentSound == EnvSpec => []EnvSound
<1>1. EnvInit => EnvInv
  <2> SUFFICES ASSUME EnvInit PROVE EnvInv
    OBVIOUS
  <2>1. EnvTyped
    <3>1. opener \in [Users_ -> Holding \cup {"closed", "delisted"}]
      BY DEF EnvInit
    <3>2. started_bgthread_ \in BOOLEAN
      BY DEF EnvInit
    <3>3. queue_ \in Seq(Users_)
      BY DEF EnvInit
    <3> QED
      BY <3>1, <3>2, <3>3 DEF EnvInit, EnvTyped
  <2>2. QueueIsServed
    BY DEF EnvInit, QueueIsServed
  <2>3. TableHoldsOne
    BY DEF EnvInit, TableHoldsOne, Holding
  <2> QED
    BY <2>1, <2>2, <2>3 DEF EnvInv
<1>2. EnvInv /\ [EnvNext]_envVars => EnvInv'
  <2> SUFFICES ASSUME EnvInv, [EnvNext]_envVars PROVE EnvInv'
    OBVIOUS
  <2>1. CASE UNCHANGED envVars
    BY <2>1 DEF envVars, EnvInv, EnvTyped, QueueIsServed, TableHoldsOne
  <2> QED
    BY <2>1, LockStep, QueueStep DEF EnvNext
<1>3. EnvInv => EnvSound
  BY DEF EnvInv, EnvTyped, QueueIsServed, TableHoldsOne, EnvSound, Holding
<1> QED
  BY <1>1, <1>2, <1>3, PTL DEF EnvSpec

-----------------------------------------------------------------------------
(***************************************************************************)
(* The repair.                                                             *)
(***************************************************************************)
Seqs == 0 .. kMaxSequenceNumber
GoodEntries(files) == UNION {files[n].readable : n \in {i \in DOMAIN files : files[i].good}}
Scanning == {"logs", "build", "archive", "copy", "finish"}

FileTyped(f) == f.readable \subseteq Seqs /\ f.good \in BOOLEAN
FilesTyped(files) ==
    /\ DOMAIN files \subseteq Nat /\ Bounded(DOMAIN files)
    /\ \A n \in DOMAIN files : FileTyped(files[n])

DirTyped(d) ==
    /\ d = [logs |-> d.logs, tables |-> d.tables, manifests |-> d.manifests,
            temp |-> d.temp, one |-> d.one, current |-> d.current]
    /\ FilesTyped(d.logs) /\ FilesTyped(d.tables) /\ d.manifests \subseteq Nat

RepTyped(r) ==
    /\ r = [pc |-> r.pc, logs |-> r.logs, manifests |-> r.manifests, numbers |-> r.numbers, tables |-> r.tables,
            next |-> r.next, log |-> r.log, copy |-> r.copy, read |-> r.read]
    /\ r.pc \in Scanning \cup {"idle", "manifests", "current", "done", "failed"}
    /\ r.logs \subseteq Nat /\ r.manifests \subseteq Nat /\ r.numbers \subseteq Nat
    /\ \A t \in r.tables : t.number \in Nat /\ t.max \in Seqs
    /\ r.next \in Nat /\ r.log \in Nat /\ r.copy \in Nat /\ r.read \subseteq Seqs

RepairTyped == DirTyped(dir) /\ RepTyped(rep) /\ faults \in Nat

(* No file has a number the repair will give to a new one. *)
NumbersAreFresh ==
    rep.pc # "idle" =>
       /\ \A n \in DOMAIN dir.logs \cup DOMAIN dir.tables : n < rep.next
       /\ rep.pc = "finish" => rep.log < rep.next

(* The logs that are left are the ones to convert, and the one under way. *)
LogsAreKnown ==
    rep.pc \in Scanning =>
       /\ DOMAIN dir.logs = rep.logs \cup (IF rep.pc \in {"build", "archive"} THEN {rep.log} ELSE {})
       /\ rep.pc \in {"build", "archive"} => rep.log \notin rep.logs
       /\ rep.pc \in {"copy", "finish"} => rep.logs = {}

Listed(n) == \E t \in rep.tables : t.number = n

(* A table that holds something is waiting, listed or being copied, if no *)
(* table was skipped. *)
TablesAreKnown ==
    rep.pc \in Scanning =>
       /\ rep.numbers \subseteq DOMAIN dir.tables
       /\ faults = 0 => \A n \in DOMAIN dir.tables :
             \/ n \in rep.numbers \/ Listed(n) \/ (rep.pc = "copy" /\ n = rep.log)
             \/ dir.tables[n].readable = {} /\ ~ dir.tables[n].good

(* A listed table reads to its end, and its highest sequence was noted. *)
ListedAreGood ==
    rep.pc \in Scanning =>
       \A t \in rep.tables :
          /\ t.number \in DOMAIN dir.tables \ rep.numbers /\ dir.tables[t.number].good
          /\ \A s \in dir.tables[t.number].readable : s <= t.max

(* The file that is being written is not finished, and known to nobody else. *)
CopyIsApart ==
    /\ rep.pc \in {"build", "copy", "finish"} =>
          /\ rep.copy \in DOMAIN dir.tables /\ dir.tables[rep.copy] = Partial
          /\ rep.copy \notin rep.numbers /\ ~ Listed(rep.copy)
    /\ rep.pc = "copy" =>
          /\ rep.log \in DOMAIN dir.tables \ rep.numbers /\ ~ Listed(rep.log) /\ rep.log # rep.copy
          /\ ~ dir.tables[rep.log].good /\ dir.tables[rep.log].readable = rep.read
    /\ rep.pc = "finish" => rep.log \notin DOMAIN dir.tables
    /\ rep.pc = "archive" /\ faults = 0 => dir.logs[rep.log].readable \subseteq GoodEntries(dir.tables)

(* Nothing is lost while no file operation fails, but what a crash drops. *)
NothingIsLost ==
    faults = 0 =>
       /\ intact \subseteq Entries(dir.logs) \cup GoodEntries(dir.tables)
       /\ torn \ dropped \subseteq Entries(dir.logs) \cup Entries(dir.tables) \cup (IF rep.pc = "finish" THEN rep.read ELSE {})

(* What a descriptor has to say of the tables. *)
Describes(d) ==
    /\ d.listed \subseteq DOMAIN dir.tables
    /\ \A n \in d.listed : dir.tables[n].good /\ \A s \in dir.tables[n].readable : s <= d.last
    /\ \A n \in DOMAIN dir.tables : n < d.next
    /\ faults = 0 => intact \cup (torn \ dropped) \subseteq UNION {dir.tables[n].readable : n \in d.listed}

DescriptorIsTrue ==
    /\ rep.pc = "manifests" => Describes(dir.temp)
    /\ rep.pc \in {"current", "done"} => Describes(dir.one)
    /\ rep.pc = "done" => dir.current = 1

RepairInv ==
    /\ RepairTyped /\ NumbersAreFresh /\ LogsAreKnown /\ TablesAreKnown /\ ListedAreGood /\ CopyIsApart
    /\ NothingIsLost /\ DescriptorIsTrue

-----------------------------------------------------------------------------
(* MaxOf of a bounded set is not below any of its elements. *)
LEMMA MaxOfIsMax ==
  ASSUME NEW S, S \subseteq Nat, Bounded(S)
  PROVE  MaxOf(S) \in Nat /\ (\A x \in S : x <= MaxOf(S)) /\ (S # {} => MaxOf(S) \in S)
<1>1. CASE S = {}
  BY <1>1 DEF MaxOf
<1>2. CASE S # {}
  <2>1. \E x \in S : \A y \in S : x >= y
    BY <1>2, GreatestNatural
  <2>2. Max(S) \in S /\ \A y \in S : Max(S) >= y
    BY <2>1 DEF Max
  <2> QED
    BY <2>2, <1>2 DEF MaxOf
<1> QED
  BY <1>1, <1>2

-----------------------------------------------------------------------------
(* What a map of files holds after a file was put there or taken away. *)
LEMMA PutFile ==
  ASSUME NEW files, FilesTyped(files), NEW n \in Nat, NEW f, FileTyped(f)
  PROVE  FilesTyped(Put(files, n, f))
<1>1. Bounded(DOMAIN files \cup {n})
  BY BoundedSets DEF FilesTyped
<1> QED
  BY <1>1 DEF FilesTyped, Put

(* Files keep their types when one is removed. *)
LEMMA WithoutFile ==
  ASSUME NEW files, FilesTyped(files), NEW n
  PROVE  FilesTyped(Without(files, n))
<1>1. Bounded(DOMAIN files \ {n})
  BY BoundedSets DEF FilesTyped
<1> QED
  BY <1>1 DEF FilesTyped, Without

(* An unfinished file holds nothing. *)
LEMMA PartialHoldsNothing == Partial.readable = {} /\ ~ Partial.good /\ FileTyped(Partial)
  BY DEF Partial, FileTyped

(* FindFiles: every file is known, and its number below the next one. *)
LEMMA FindFilesStep ==
  ASSUME RepairInv, FindFiles
  PROVE  RepairInv'
<1>1. /\ rep.pc = "idle" /\ UNCHANGED <<dir, crashes, faults, intact, torn, dropped>>
      /\ rep' = [RepIdle EXCEPT !.pc = "logs", !.logs = DOMAIN dir.logs, !.manifests = dir.manifests,
                                !.numbers = DOMAIN dir.tables, !.next = NextFileNumber]
  BY DEF FindFiles
<1>2. DirTyped(dir) /\ FilesTyped(dir.logs) /\ FilesTyped(dir.tables) /\ dir.manifests \subseteq Nat /\ faults \in Nat
  BY DEF RepairInv, RepairTyped, DirTyped
<1>3. /\ NextFileNumber \in Nat
      /\ \A n \in DOMAIN dir.logs \cup DOMAIN dir.tables : n < NextFileNumber
  <2> DEFINE S == DOMAIN dir.logs \cup DOMAIN dir.tables
  <2>1. S \subseteq Nat
    BY <1>2 DEF FilesTyped
  <2>2. Bounded(S)
    BY <1>2, BoundedSets DEF FilesTyped
  <2>3. MaxOf(S) \in Nat /\ \A x \in S : x <= MaxOf(S)
    BY <2>1, <2>2, MaxOfIsMax
  <2> QED
    BY <2>1, <2>3 DEF NextFileNumber
<1>4. rep' = [pc |-> "logs", logs |-> DOMAIN dir.logs, manifests |-> dir.manifests, numbers |-> DOMAIN dir.tables,
              tables |-> {}, next |-> NextFileNumber, log |-> 0, copy |-> 0, read |-> {}]
  BY <1>1 DEF RepIdle
<1>5. RepTyped(rep')
  BY <1>2, <1>3, <1>4 DEF RepTyped, FilesTyped, Scanning
<1>6. RepairTyped'
  BY <1>1, <1>2, <1>5 DEF RepairTyped
<1>7. /\ rep'.pc = "logs" /\ rep'.logs = DOMAIN dir.logs /\ rep'.numbers = DOMAIN dir.tables
      /\ rep'.tables = {} /\ rep'.next = NextFileNumber
  BY <1>4
<1>8. NumbersAreFresh' /\ LogsAreKnown'
  BY <1>1, <1>3, <1>7 DEF NumbersAreFresh, LogsAreKnown
<1>9. TablesAreKnown' /\ ListedAreGood' /\ CopyIsApart' /\ DescriptorIsTrue'
  BY <1>1, <1>7 DEF TablesAreKnown, ListedAreGood, CopyIsApart, DescriptorIsTrue
<1>10. NothingIsLost'
  BY <1>1, <1>7 DEF RepairInv, NothingIsLost
<1> QED
  BY <1>6, <1>8, <1>9, <1>10 DEF RepairInv

(* The file of a new table takes no number that is in use. *)
LEMMA ConvertLogStep ==
  ASSUME RepairInv, ConvertLogToTable
  PROVE  RepairInv'
<1> DEFINE T == dir.tables
           L == dir.logs
<1>1. /\ rep.pc = "logs" /\ UNCHANGED <<crashes, faults, intact, torn, dropped>>
      /\ dir' = [dir EXCEPT !.tables = Put(@, rep.next, Partial)]
  BY DEF ConvertLogToTable
<1>2. PICK l \in rep.logs :
        rep' = [rep EXCEPT !.pc = "build", !.logs = @ \ {l}, !.next = @ + 1, !.log = l, !.copy = rep.next]
  BY DEF ConvertLogToTable
<1>3. DirTyped(dir) /\ RepTyped(rep) /\ faults \in Nat
  BY DEF RepairInv, RepairTyped
<1>4. /\ dir'.tables = Put(T, rep.next, Partial) /\ dir'.logs = L /\ dir'.manifests = dir.manifests
      /\ dir' = [logs |-> dir'.logs, tables |-> dir'.tables, manifests |-> dir'.manifests,
                 temp |-> dir'.temp, one |-> dir'.one, current |-> dir'.current]
  BY <1>1, <1>3 DEF DirTyped
<1>5. /\ rep'.pc = "build" /\ rep'.logs = rep.logs \ {l} /\ rep'.next = rep.next + 1 /\ rep'.log = l
      /\ rep'.copy = rep.next /\ rep'.numbers = rep.numbers /\ rep'.tables = rep.tables
  BY <1>2, <1>3 DEF RepTyped
<1>6. rep.next \in Nat /\ l \in Nat
  BY <1>2, <1>3 DEF RepTyped
<1>7. FileTyped(Partial) /\ FilesTyped(T) /\ FilesTyped(L)
  BY <1>3, PartialHoldsNothing DEF DirTyped
<1>8. /\ FilesTyped(dir'.tables) /\ DOMAIN dir'.tables = DOMAIN T \cup {rep.next} /\ dir'.tables[rep.next] = Partial
      /\ \A i \in DOMAIN T : i # rep.next => dir'.tables[i] = T[i]
  <2>1. FilesTyped(Put(T, rep.next, Partial))
    BY <1>6, <1>7, PutFile
  <2> QED
    BY <1>4, <2>1 DEF Put
<1>9. RepTyped(rep')
  <2>1. rep' = [pc |-> "build", logs |-> rep.logs \ {l}, manifests |-> rep.manifests, numbers |-> rep.numbers,
                tables |-> rep.tables, next |-> rep.next + 1, log |-> l, copy |-> rep.next, read |-> rep.read]
    BY <1>2, <1>3 DEF RepTyped
  <2> QED
    BY <2>1, <1>3, <1>6 DEF RepTyped, Scanning
<1>10. RepairTyped'
  <2>1. DirTyped(dir')
    BY <1>3, <1>4, <1>8 DEF DirTyped
  <2> QED
    BY <2>1, <1>1, <1>3, <1>9 DEF RepairTyped
<1>11. DOMAIN L \subseteq Nat /\ DOMAIN T \subseteq Nat
  BY <1>7 DEF FilesTyped
<1>12. \A n \in DOMAIN L \cup DOMAIN T : n < rep.next
  BY <1>1 DEF RepairInv, NumbersAreFresh
<1>13. rep.next \notin DOMAIN T
  BY <1>6, <1>12
<1>14. NumbersAreFresh'
  BY <1>4, <1>5, <1>6, <1>8, <1>11, <1>12 DEF NumbersAreFresh
<1>15. LogsAreKnown'
  BY <1>1, <1>2, <1>4, <1>5 DEF RepairInv, LogsAreKnown, Scanning
<1>16. TablesAreKnown'
  BY <1>1, <1>5, <1>8, <1>13, PartialHoldsNothing DEF RepairInv, TablesAreKnown, Scanning, Listed
<1>17. ListedAreGood'
  BY <1>1, <1>5, <1>8, <1>13 DEF RepairInv, ListedAreGood, Scanning
<1>18. CopyIsApart'
  BY <1>1, <1>5, <1>8, <1>13 DEF RepairInv, TablesAreKnown, ListedAreGood, CopyIsApart, Scanning, Listed
<1>19. GoodEntries(T) \subseteq GoodEntries(dir'.tables) /\ Entries(T) \subseteq Entries(dir'.tables)
  BY <1>8, <1>13 DEF GoodEntries, Entries
<1>20. NothingIsLost'
  BY <1>1, <1>4, <1>5, <1>19 DEF RepairInv, NothingIsLost
<1>21. DescriptorIsTrue'
  BY <1>5 DEF DescriptorIsTrue
<1> QED
  BY <1>10, <1>14, <1>15, <1>16, <1>17, <1>18, <1>20, <1>21 DEF RepairInv

(* The table a log becomes is finished and waiting, or its file is gone.   *)
LEMMA BuildTableStep ==
  ASSUME RepairInv, BuildTable
  PROVE  RepairInv'
<1> DEFINE T == dir.tables
           L == dir.logs
<1>0. DirTyped(dir) /\ RepTyped(rep) /\ faults \in Nat /\ FilesTyped(T) /\ FilesTyped(L)
  BY DEF RepairInv, RepairTyped, DirTyped
<1>1. rep.pc = "build" /\ UNCHANGED <<crashes, intact, torn, dropped>>
  BY DEF BuildTable
<1> DEFINE c == rep.copy
           read == L[rep.log].readable
<1>2. /\ c \in DOMAIN T /\ T[c] = Partial /\ c \notin rep.numbers /\ ~ Listed(c)
      /\ rep.log \in DOMAIN L /\ c \in Nat /\ c < rep.next
  BY <1>0, <1>1 DEF RepairInv, CopyIsApart, LogsAreKnown, NumbersAreFresh, Scanning, RepTyped
<1>3. read \subseteq Seqs
  BY <1>0, <1>2 DEF FilesTyped, FileTyped
<1>4. CASE /\ read # {} /\ dir' = [dir EXCEPT !.tables[c] = [readable |-> read, good |-> TRUE]]
           /\ rep' = [rep EXCEPT !.pc = "archive", !.numbers = @ \cup {c}] /\ UNCHANGED faults
  <2>1. /\ dir'.tables = [T EXCEPT ![c] = [readable |-> read, good |-> TRUE]]
        /\ dir'.logs = L /\ dir'.manifests = dir.manifests
        /\ dir' = [logs |-> dir'.logs, tables |-> dir'.tables, manifests |-> dir'.manifests,
                   temp |-> dir'.temp, one |-> dir'.one, current |-> dir'.current]
    BY <1>0, <1>4 DEF DirTyped
  <2>2. rep' = [pc |-> "archive", logs |-> rep.logs, manifests |-> rep.manifests, numbers |-> rep.numbers \cup {c},
                tables |-> rep.tables, next |-> rep.next, log |-> rep.log, copy |-> c, read |-> rep.read]
    BY <1>0, <1>4 DEF RepTyped
  <2>3. /\ DOMAIN dir'.tables = DOMAIN T /\ dir'.tables[c].readable = read /\ dir'.tables[c].good = TRUE
        /\ \A n \in DOMAIN T : n # c => dir'.tables[n] = T[n]
    BY <1>2, <2>1
  <2>4. FilesTyped(dir'.tables)
    BY <1>0, <1>3, <2>3 DEF FilesTyped, FileTyped
  <2>5. DirTyped(dir')
    BY <1>0, <2>1, <2>4 DEF DirTyped
  <2>6. RepTyped(rep')
    BY <1>0, <1>2, <2>2 DEF RepTyped, Scanning
  <2>7. RepairTyped'
    BY <1>0, <1>4, <2>5, <2>6 DEF RepairTyped
  <2>8. NumbersAreFresh' /\ LogsAreKnown'
    BY <1>1, <2>1, <2>2, <2>3 DEF RepairInv, NumbersAreFresh, LogsAreKnown, Scanning
  <2>9. TablesAreKnown'
    BY <1>1, <1>4, <1>2, <2>2, <2>3 DEF RepairInv, TablesAreKnown, Scanning, Listed
  <2>10. ListedAreGood'
    BY <1>1, <1>2, <2>2, <2>3 DEF RepairInv, ListedAreGood, Scanning, Listed
  <2>11. read \subseteq GoodEntries(dir'.tables)
    BY <1>2, <2>3 DEF GoodEntries
  <2>12. CopyIsApart'
    BY <2>1, <2>2, <2>11 DEF CopyIsApart
  <2>13. GoodEntries(T) \subseteq GoodEntries(dir'.tables) /\ Entries(T) \subseteq Entries(dir'.tables)
    BY <1>2, <2>3, PartialHoldsNothing DEF GoodEntries, Entries
  <2>14. NothingIsLost'
    BY <1>1, <1>4, <2>1, <2>2, <2>13 DEF RepairInv, NothingIsLost
  <2>15. DescriptorIsTrue'
    BY <2>2 DEF DescriptorIsTrue
  <2> QED
    BY <2>7, <2>8, <2>9, <2>10, <2>12, <2>14, <2>15 DEF RepairInv
<1>5. CASE /\ read = {} \/ faults < MaxFaults
           /\ dir' = [dir EXCEPT !.tables = Without(@, c)] /\ rep' = [rep EXCEPT !.pc = "archive"]
           /\ faults' = IF read = {} THEN faults ELSE faults + 1
  <2>1. /\ dir'.tables = Without(T, c) /\ dir'.logs = L /\ dir'.manifests = dir.manifests
        /\ dir' = [logs |-> dir'.logs, tables |-> dir'.tables, manifests |-> dir'.manifests,
                   temp |-> dir'.temp, one |-> dir'.one, current |-> dir'.current]
    BY <1>0, <1>5 DEF DirTyped
  <2>2. rep' = [pc |-> "archive", logs |-> rep.logs, manifests |-> rep.manifests, numbers |-> rep.numbers,
                tables |-> rep.tables, next |-> rep.next, log |-> rep.log, copy |-> c, read |-> rep.read]
    BY <1>0, <1>5 DEF RepTyped
  <2>3. DOMAIN dir'.tables = DOMAIN T \ {c} /\ \A n \in DOMAIN T \ {c} : dir'.tables[n] = T[n]
    BY <2>1 DEF Without
  <2>4. DirTyped(dir')
    BY <1>0, <2>1, WithoutFile DEF DirTyped
  <2>5. RepTyped(rep') /\ faults' \in Nat
    BY <1>0, <1>5, <2>2 DEF RepTyped, Scanning
  <2>6. RepairTyped'
    BY <2>4, <2>5 DEF RepairTyped
  <2>7. NumbersAreFresh' /\ LogsAreKnown'
    BY <1>1, <2>1, <2>2, <2>3 DEF RepairInv, NumbersAreFresh, LogsAreKnown, Scanning
  <2>8. TablesAreKnown'
    BY <1>0, <1>1, <1>5, <1>2, <2>2, <2>3 DEF RepairInv, TablesAreKnown, Scanning, Listed
  <2>9. ListedAreGood'
    BY <1>1, <1>2, <2>2, <2>3 DEF RepairInv, ListedAreGood, Scanning, Listed
  <2>10. faults' = 0 => faults = 0 /\ read = {}
    BY <1>0, <1>5
  <2>11. CopyIsApart'
    BY <2>1, <2>2, <2>10 DEF CopyIsApart
  <2>12. GoodEntries(T) \subseteq GoodEntries(dir'.tables) /\ Entries(T) \subseteq Entries(dir'.tables)
    BY <1>2, <2>3, PartialHoldsNothing DEF GoodEntries, Entries
  <2>13. NothingIsLost'
    BY <1>1, <2>1, <2>2, <2>10, <2>12 DEF RepairInv, NothingIsLost
  <2>14. DescriptorIsTrue'
    BY <2>2 DEF DescriptorIsTrue
  <2> QED
    BY <2>6, <2>7, <2>8, <2>9, <2>11, <2>13, <2>14 DEF RepairInv
<1> QED
  BY <1>4, <1>5 DEF BuildTable

(* A log leaves when its entries are in a table. *)
LEMMA ArchiveLogStep ==
  ASSUME RepairInv, ArchiveLog
  PROVE  RepairInv'
<1> DEFINE T == dir.tables
           L == dir.logs
<1>0. DirTyped(dir) /\ RepTyped(rep) /\ faults \in Nat /\ FilesTyped(T) /\ FilesTyped(L)
  BY DEF RepairInv, RepairTyped, DirTyped
<1>1. /\ rep.pc = "archive" /\ UNCHANGED <<crashes, faults, intact, torn, dropped>>
      /\ dir' = [dir EXCEPT !.logs = Without(@, rep.log)]
      /\ rep' = [rep EXCEPT !.pc = "logs", !.log = 0, !.copy = 0]
  BY DEF ArchiveLog
<1>2. /\ dir'.logs = Without(L, rep.log) /\ dir'.tables = T /\ dir'.manifests = dir.manifests
      /\ dir' = [logs |-> dir'.logs, tables |-> dir'.tables, manifests |-> dir'.manifests,
                 temp |-> dir'.temp, one |-> dir'.one, current |-> dir'.current]
  BY <1>0, <1>1 DEF DirTyped
<1>3. rep' = [pc |-> "logs", logs |-> rep.logs, manifests |-> rep.manifests, numbers |-> rep.numbers,
              tables |-> rep.tables, next |-> rep.next, log |-> 0, copy |-> 0, read |-> rep.read]
  BY <1>0, <1>1 DEF RepTyped
<1>4. /\ DOMAIN dir'.logs = DOMAIN L \ {rep.log} /\ \A n \in DOMAIN L \ {rep.log} : dir'.logs[n] = L[n]
  BY <1>2 DEF Without
<1>5. DirTyped(dir')
  BY <1>0, <1>2, WithoutFile DEF DirTyped
<1>6. RepTyped(rep')
  BY <1>0, <1>3 DEF RepTyped, Scanning
<1>7. RepairTyped'
  BY <1>0, <1>1, <1>5, <1>6 DEF RepairTyped
<1>8. NumbersAreFresh' /\ LogsAreKnown'
  BY <1>1, <1>2, <1>3, <1>4 DEF RepairInv, NumbersAreFresh, LogsAreKnown, Scanning
<1>9. TablesAreKnown' /\ ListedAreGood'
  BY <1>1, <1>2, <1>3 DEF RepairInv, TablesAreKnown, ListedAreGood, Scanning, Listed
<1>10. CopyIsApart' /\ DescriptorIsTrue'
  BY <1>3 DEF CopyIsApart, DescriptorIsTrue
<1>11. faults = 0 => Entries(L) \subseteq Entries(dir'.logs) \cup GoodEntries(T)
  BY <1>1, <1>4 DEF RepairInv, CopyIsApart, Entries
<1>12. GoodEntries(T) \subseteq Entries(T)
  BY DEF GoodEntries, Entries
<1>13. NothingIsLost'
  BY <1>1, <1>2, <1>3, <1>11, <1>12 DEF RepairInv, NothingIsLost
<1> QED
  BY <1>7, <1>8, <1>9, <1>10, <1>13 DEF RepairInv

(* A table that reads to its end is listed, another is to be copied. *)
LEMMA ScanTableStep ==
  ASSUME RepairInv, ScanTable
  PROVE  RepairInv'
<1> DEFINE T == dir.tables
           L == dir.logs
<1>0. DirTyped(dir) /\ RepTyped(rep) /\ faults \in Nat /\ FilesTyped(T) /\ FilesTyped(L)
  BY DEF RepairInv, RepairTyped, DirTyped
<1>1. rep.pc = "logs" /\ rep.logs = {} /\ UNCHANGED <<crashes, faults, intact, torn, dropped>>
  BY DEF ScanTable
<1>2. PICK n \in rep.numbers :
        \/ /\ T[n].good /\ UNCHANGED dir
           /\ rep' = [rep EXCEPT !.numbers = @ \ {n}, !.tables = @ \cup {[number |-> n, max |-> MaxOf(T[n].readable)]}]
        \/ /\ ~ T[n].good
           /\ rep' = [rep EXCEPT !.pc = "copy", !.numbers = @ \ {n}, !.log = n, !.read = T[n].readable,
                                 !.copy = rep.next, !.next = @ + 1]
           /\ dir' = [dir EXCEPT !.tables = Put(@, rep.next, Partial)]
  BY DEF ScanTable
<1>3. /\ n \in DOMAIN T /\ n \in Nat /\ n < rep.next /\ ~ Listed(n) /\ rep.next \in Nat
      /\ T[n].readable \subseteq Seqs /\ T[n].good \in BOOLEAN
  BY <1>0, <1>1, <1>2 DEF RepairInv, TablesAreKnown, ListedAreGood, NumbersAreFresh, Scanning, Listed, RepTyped,
                          FilesTyped, FileTyped
<1>4. CASE /\ T[n].good /\ UNCHANGED dir
           /\ rep' = [rep EXCEPT !.numbers = @ \ {n}, !.tables = @ \cup {[number |-> n, max |-> MaxOf(T[n].readable)]}]
  <2> DEFINE m == MaxOf(T[n].readable)
             new == [number |-> n, max |-> m]
  <2>1. m \in Seqs /\ \A x \in T[n].readable : x <= m
    <3>1. T[n].readable \subseteq Nat /\ Bounded(T[n].readable)
      BY <1>3, RepairAssumption DEF Seqs, Bounded
    <3>2. m \in Nat /\ (\A x \in T[n].readable : x <= m) /\ (T[n].readable # {} => m \in T[n].readable)
      BY <3>1, MaxOfIsMax
    <3>3. T[n].readable = {} => m = 0
      BY DEF MaxOf
    <3> QED
      BY <3>2, <3>3, <1>3, RepairAssumption DEF Seqs
  <2> HIDE DEF m
  <2>2. rep' = [pc |-> "logs", logs |-> rep.logs, manifests |-> rep.manifests, numbers |-> rep.numbers \ {n},
                tables |-> rep.tables \cup {new}, next |-> rep.next, log |-> rep.log, copy |-> rep.copy, read |-> rep.read]
    BY <1>0, <1>1, <1>4 DEF RepTyped, m
  <2>3. RepTyped(rep')
    BY <1>0, <1>3, <2>1, <2>2 DEF RepTyped, Scanning
  <2>4. RepairTyped'
    BY <1>0, <1>1, <1>4, <2>3 DEF RepairTyped
  <2>5. NumbersAreFresh' /\ LogsAreKnown'
    BY <1>1, <1>4, <2>2 DEF RepairInv, NumbersAreFresh, LogsAreKnown, Scanning
  <2>6. /\ rep'.pc = "logs" /\ rep'.numbers = rep.numbers \ {n} /\ rep'.log = rep.log
        /\ \A t : t \in rep'.tables <=> t \in rep.tables \/ t = new
        /\ new \in rep'.tables /\ new.number = n /\ new.max = m
    BY <2>2
  <2> HIDE DEF new
  <2>7. TablesAreKnown'
    BY <1>1, <1>3, <1>4, <2>6 DEF RepairInv, TablesAreKnown, Scanning, Listed
  <2>8. ListedAreGood'
    <3> SUFFICES ASSUME NEW t \in rep'.tables
                 PROVE  /\ t.number \in DOMAIN T \ (rep.numbers \ {n}) /\ T[t.number].good
                        /\ \A s \in T[t.number].readable : s <= t.max
      BY <1>4, <2>6 DEF ListedAreGood
    <3>1. CASE t = new
      BY <3>1, <1>3, <1>4, <2>1, <2>6
    <3>2. CASE t \in rep.tables
      BY <3>2, <1>1 DEF RepairInv, ListedAreGood, Scanning
    <3> QED
      BY <3>1, <3>2, <2>6
  <2>9. CopyIsApart' /\ DescriptorIsTrue'
    BY <2>2 DEF CopyIsApart, DescriptorIsTrue
  <2>10. NothingIsLost'
    BY <1>1, <1>4, <2>2 DEF RepairInv, NothingIsLost
  <2> QED
    BY <2>4, <2>5, <2>7, <2>8, <2>9, <2>10 DEF RepairInv
<1>5. CASE /\ ~ T[n].good
           /\ rep' = [rep EXCEPT !.pc = "copy", !.numbers = @ \ {n}, !.log = n, !.read = T[n].readable,
                                 !.copy = rep.next, !.next = @ + 1]
           /\ dir' = [dir EXCEPT !.tables = Put(@, rep.next, Partial)]
  <2>1. /\ dir'.tables = Put(T, rep.next, Partial) /\ dir'.logs = L /\ dir'.manifests = dir.manifests
        /\ dir' = [logs |-> dir'.logs, tables |-> dir'.tables, manifests |-> dir'.manifests,
                   temp |-> dir'.temp, one |-> dir'.one, current |-> dir'.current]
    BY <1>0, <1>5 DEF DirTyped
  <2>2. rep' = [pc |-> "copy", logs |-> rep.logs, manifests |-> rep.manifests, numbers |-> rep.numbers \ {n},
                tables |-> rep.tables, next |-> rep.next + 1, log |-> n, copy |-> rep.next, read |-> T[n].readable]
    BY <1>0, <1>5 DEF RepTyped
  <2>3. /\ DOMAIN dir'.tables = DOMAIN T \cup {rep.next} /\ dir'.tables[rep.next] = Partial
        /\ \A i \in DOMAIN T : i # rep.next => dir'.tables[i] = T[i]
    BY <2>1 DEF Put
  <2>4. DirTyped(dir')
    BY <1>0, <1>3, <2>1, PutFile, PartialHoldsNothing DEF DirTyped
  <2>5. RepTyped(rep')
    BY <1>0, <1>3, <2>2 DEF RepTyped, Scanning
  <2>6. RepairTyped'
    BY <1>0, <1>1, <2>4, <2>5 DEF RepairTyped
  <2>7. DOMAIN L \subseteq Nat /\ DOMAIN T \subseteq Nat /\ \A i \in DOMAIN L \cup DOMAIN T : i < rep.next
    BY <1>0, <1>1 DEF RepairInv, NumbersAreFresh, FilesTyped
  <2>8. rep.next \notin DOMAIN T /\ n # rep.next
    BY <2>7, <1>3
  <2>9. NumbersAreFresh'
    BY <1>3, <2>1, <2>2, <2>3, <2>7 DEF NumbersAreFresh
  <2>10. LogsAreKnown'
    BY <1>1, <2>1, <2>2 DEF RepairInv, LogsAreKnown, Scanning
  <2>11. TablesAreKnown'
    BY <1>1, <1>3, <2>2, <2>3, <2>8, PartialHoldsNothing DEF RepairInv, TablesAreKnown, Scanning, Listed
  <2>12. ListedAreGood'
    BY <1>1, <2>2, <2>3, <2>8 DEF RepairInv, ListedAreGood, Scanning
  <2>13. rep.next \notin rep.numbers /\ ~ Listed(rep.next)
    BY <1>1, <2>8 DEF RepairInv, TablesAreKnown, ListedAreGood, Scanning, Listed
  <2>14. CopyIsApart'
    BY <1>3, <1>5, <2>2, <2>3, <2>8, <2>13 DEF CopyIsApart, Listed
  <2>15. GoodEntries(T) \subseteq GoodEntries(dir'.tables) /\ Entries(T) \subseteq Entries(dir'.tables)
    BY <2>3, <2>8 DEF GoodEntries, Entries
  <2>16. NothingIsLost'
    BY <1>1, <2>1, <2>2, <2>15 DEF RepairInv, NothingIsLost
  <2>17. DescriptorIsTrue'
    BY <2>2 DEF DescriptorIsTrue
  <2> QED
    BY <2>6, <2>9, <2>10, <2>11, <2>12, <2>14, <2>16, <2>17 DEF RepairInv
<1> QED
  BY <1>2, <1>4, <1>5

(* A table is left out: archived, or where it is. *)
LEMMA SkipTableStep ==
  ASSUME RepairInv, SkipTable
  PROVE  RepairInv'
<1> DEFINE T == dir.tables
           L == dir.logs
<1>0. DirTyped(dir) /\ RepTyped(rep) /\ faults \in Nat /\ FilesTyped(T) /\ FilesTyped(L)
  BY DEF RepairInv, RepairTyped, DirTyped
<1>1. rep.pc = "logs" /\ rep.logs = {} /\ UNCHANGED <<crashes, intact, torn, dropped>> /\ faults' = faults + 1
  BY DEF SkipTable
<1>2. faults' \in Nat /\ faults' # 0
  BY <1>0, <1>1
<1>3. PICK n \in rep.numbers :
        \/ rep' = [rep EXCEPT !.numbers = @ \ {n}] /\ dir' = [dir EXCEPT !.tables = Without(@, n)]
        \/ rep' = [rep EXCEPT !.numbers = @ \ {n}, !.next = @ + 1] /\ UNCHANGED dir
  BY DEF SkipTable
<1>4. /\ n \in DOMAIN T /\ ~ Listed(n) /\ rep.next \in Nat /\ rep.numbers \subseteq DOMAIN T
      /\ \A t \in rep.tables : t.number \in DOMAIN T \ rep.numbers /\ T[t.number].good /\ t.number # n
      /\ \A i \in DOMAIN L \cup DOMAIN T : i < rep.next
  BY <1>0, <1>1, <1>3 DEF RepairInv, TablesAreKnown, ListedAreGood, NumbersAreFresh, Scanning, Listed, RepTyped
<1>5. DOMAIN L \subseteq Nat /\ DOMAIN T \subseteq Nat
  BY <1>0 DEF FilesTyped
<1>6. PICK x \in {rep.next, rep.next + 1} :
         rep' = [pc |-> "logs", logs |-> rep.logs, manifests |-> rep.manifests, numbers |-> rep.numbers \ {n},
                 tables |-> rep.tables, next |-> x, log |-> rep.log, copy |-> rep.copy, read |-> rep.read]
  BY <1>0, <1>1, <1>3 DEF RepTyped
<1>7. x \in Nat /\ \A i \in Nat : i < rep.next => i < x
  BY <1>4
<1>8. RepTyped(rep')
  BY <1>0, <1>6, <1>7 DEF RepTyped, Scanning
<1>9. /\ dir'.logs = L /\ dir'.tables \in {T, Without(T, n)} /\ dir'.manifests = dir.manifests
      /\ dir' = [logs |-> dir'.logs, tables |-> dir'.tables, manifests |-> dir'.manifests,
                 temp |-> dir'.temp, one |-> dir'.one, current |-> dir'.current]
  BY <1>0, <1>3 DEF DirTyped
<1>10. DirTyped(dir')
  BY <1>0, <1>9, WithoutFile DEF DirTyped
<1>11. /\ DOMAIN dir'.tables \subseteq DOMAIN T /\ DOMAIN T \ {n} \subseteq DOMAIN dir'.tables
       /\ \A i \in DOMAIN dir'.tables : dir'.tables[i] = T[i]
  BY <1>9 DEF Without
<1>12. RepairTyped'
  BY <1>2, <1>8, <1>10 DEF RepairTyped
<1>13. NumbersAreFresh'
  BY <1>4, <1>5, <1>6, <1>7, <1>9, <1>11 DEF NumbersAreFresh
<1>14. LogsAreKnown'
  BY <1>1, <1>6, <1>9 DEF RepairInv, LogsAreKnown, Scanning
<1>15. TablesAreKnown'
  BY <1>2, <1>4, <1>6, <1>11 DEF TablesAreKnown
<1>16. ListedAreGood'
  BY <1>1, <1>4, <1>6, <1>11 DEF RepairInv, ListedAreGood, Scanning
<1>17. CopyIsApart' /\ DescriptorIsTrue'
  BY <1>6 DEF CopyIsApart, DescriptorIsTrue
<1>18. NothingIsLost'
  BY <1>2 DEF NothingIsLost
<1> QED
  BY <1>12, <1>13, <1>14, <1>15, <1>16, <1>17, <1>18 DEF RepairInv

(* The source of a copy leaves while the builder holds what it gave. *)
LEMMA ArchiveTableStep ==
  ASSUME RepairInv, ArchiveTable
  PROVE  RepairInv'
<1> DEFINE T == dir.tables
           L == dir.logs
<1>0. DirTyped(dir) /\ RepTyped(rep) /\ faults \in Nat /\ FilesTyped(T) /\ FilesTyped(L)
  BY DEF RepairInv, RepairTyped, DirTyped
<1>1. /\ rep.pc = "copy" /\ UNCHANGED <<crashes, faults, intact, torn, dropped>>
      /\ dir' = [dir EXCEPT !.tables = Without(@, rep.log)]
      /\ rep' = [rep EXCEPT !.pc = "finish"]
  BY DEF ArchiveTable
<1> DEFINE n == rep.log
<1>2. /\ n \in DOMAIN T \ rep.numbers /\ ~ Listed(n) /\ n # rep.copy /\ n < rep.next
      /\ ~ T[n].good /\ T[n].readable = rep.read
      /\ rep.copy \in DOMAIN T /\ T[rep.copy] = Partial /\ rep.copy \notin rep.numbers /\ ~ Listed(rep.copy)
  BY <1>1 DEF RepairInv, CopyIsApart, NumbersAreFresh
<1>3. /\ dir'.tables = Without(T, n) /\ dir'.logs = L /\ dir'.manifests = dir.manifests
      /\ dir' = [logs |-> dir'.logs, tables |-> dir'.tables, manifests |-> dir'.manifests,
                 temp |-> dir'.temp, one |-> dir'.one, current |-> dir'.current]
  BY <1>0, <1>1 DEF DirTyped
<1>4. rep' = [pc |-> "finish", logs |-> rep.logs, manifests |-> rep.manifests, numbers |-> rep.numbers,
              tables |-> rep.tables, next |-> rep.next, log |-> n, copy |-> rep.copy, read |-> rep.read]
  BY <1>0, <1>1 DEF RepTyped
<1>5. DOMAIN dir'.tables = DOMAIN T \ {n} /\ \A i \in DOMAIN T \ {n} : dir'.tables[i] = T[i]
  BY <1>3 DEF Without
<1>6. DirTyped(dir')
  BY <1>0, <1>3, WithoutFile DEF DirTyped
<1>7. RepTyped(rep')
  BY <1>0, <1>4 DEF RepTyped, Scanning
<1>8. RepairTyped'
  BY <1>0, <1>1, <1>6, <1>7 DEF RepairTyped
<1>9. NumbersAreFresh' /\ LogsAreKnown'
  BY <1>1, <1>2, <1>3, <1>4, <1>5 DEF RepairInv, NumbersAreFresh, LogsAreKnown, Scanning
<1>10. TablesAreKnown'
  BY <1>1, <1>2, <1>4, <1>5 DEF RepairInv, TablesAreKnown, Scanning, Listed
<1>11. ListedAreGood'
  BY <1>1, <1>2, <1>4, <1>5 DEF RepairInv, ListedAreGood, Scanning, Listed
<1>12. CopyIsApart'
  BY <1>2, <1>4, <1>5 DEF CopyIsApart, Listed
<1>13. GoodEntries(T) \subseteq GoodEntries(dir'.tables)
  BY <1>2, <1>5 DEF GoodEntries
<1>14. Entries(T) \subseteq Entries(dir'.tables) \cup rep.read
  BY <1>2, <1>5 DEF Entries
<1>15. NothingIsLost'
  BY <1>1, <1>3, <1>4, <1>13, <1>14 DEF RepairInv, NothingIsLost
<1>16. DescriptorIsTrue'
  BY <1>4 DEF DescriptorIsTrue
<1> QED
  BY <1>8, <1>9, <1>10, <1>11, <1>12, <1>15, <1>16 DEF RepairInv

(* The repairer behind the copy of a log. *)
LEMMA RepairerAfterCopy ==
  ASSUME NEW r, RepTyped(r), NEW k, NEW none, k = [r EXCEPT !.pc = "logs", !.log = 0, !.copy = 0, !.read = none]
  PROVE  k = [pc |-> "logs", logs |-> r.logs, manifests |-> r.manifests, numbers |-> r.numbers,
              tables |-> r.tables, next |-> r.next, log |-> 0, copy |-> 0, read |-> none]
  BY DEF RepTyped

(* The copy takes the name of its source, is abandoned or is removed. *)
LEMMA FinishCopyStep ==
  ASSUME RepairInv, FinishCopy
  PROVE  RepairInv'
<1> DEFINE T == dir.tables
           L == dir.logs
           n == rep.log
           c == rep.copy
           read == rep.read
           kept == [rep EXCEPT !.pc = "logs", !.log = 0, !.copy = 0, !.read = {}]
<1>0. DirTyped(dir) /\ RepTyped(rep) /\ faults \in Nat /\ FilesTyped(T) /\ FilesTyped(L)
  BY DEF RepairInv, RepairTyped, DirTyped
<1>1. rep.pc = "finish" /\ UNCHANGED <<crashes, intact, torn, dropped>>
  BY DEF FinishCopy
<1>2. /\ c \in DOMAIN T /\ T[c] = Partial /\ c \notin rep.numbers /\ ~ Listed(c)
      /\ n \notin DOMAIN T /\ n < rep.next /\ n # c /\ n \in Nat /\ read \subseteq Seqs /\ rep.logs = {}
  BY <1>0, <1>1 DEF RepairInv, CopyIsApart, NumbersAreFresh, LogsAreKnown, Scanning, RepTyped
<1>3. n \notin rep.numbers /\ ~ Listed(n)
  BY <1>1, <1>2 DEF RepairInv, TablesAreKnown, ListedAreGood, Scanning, Listed
<1>4. kept = [pc |-> "logs", logs |-> rep.logs, manifests |-> rep.manifests, numbers |-> rep.numbers,
              tables |-> rep.tables, next |-> rep.next, log |-> 0, copy |-> 0, read |-> {}]
  BY <1>0, RepairerAfterCopy
<1>5. RepTyped(kept)
  BY <1>0, <1>4 DEF RepTyped, Scanning
<1>6. Partial.readable = {} /\ ~ Partial.good
  BY PartialHoldsNothing
<1>7. CASE /\ read # {} /\ UNCHANGED faults
           /\ dir' = [dir EXCEPT !.tables = Put(Without(@, c), n, [readable |-> read, good |-> TRUE])]
           /\ rep' = [kept EXCEPT !.tables = @ \cup {[number |-> n, max |-> MaxOf(read)]}]
  <2> DEFINE m == MaxOf(read)
             new == [number |-> n, max |-> m]
             full == [readable |-> read, good |-> TRUE]
  <2>1. m \in Seqs /\ \A x \in read : x <= m
    <3>1. read \subseteq Nat /\ Bounded(read)
      BY <1>2, RepairAssumption DEF Seqs, Bounded
    <3> QED
      BY <3>1, <1>2, <1>7, MaxOfIsMax
  <2> HIDE DEF m
  <2>2. rep' = [pc |-> "logs", logs |-> rep.logs, manifests |-> rep.manifests, numbers |-> rep.numbers,
                tables |-> rep.tables \cup {new}, next |-> rep.next, log |-> 0, copy |-> 0, read |-> {}]
    BY <1>4, <1>7 DEF m
  <2>3. RepTyped(rep')
    BY <1>2, <1>4, <1>5, <2>1, <2>2 DEF RepTyped
  <2>4. /\ rep'.pc = "logs" /\ rep'.numbers = rep.numbers /\ rep'.logs = rep.logs /\ rep'.next = rep.next
        /\ rep'.read = {}
        /\ \A t : t \in rep'.tables <=> t \in rep.tables \/ t = new
        /\ new \in rep'.tables /\ new.number = n /\ new.max = m
    BY <2>2
  <2>5. full.readable = read /\ full.good = TRUE /\ FileTyped(full)
    BY <1>2 DEF FileTyped
  <2>6. dir' = [dir EXCEPT !.tables = Put(Without(@, c), n, full)]
    BY <1>7
  <2> HIDE DEF new, full
  <2>7. /\ dir'.tables = Put(Without(T, c), n, full) /\ dir'.logs = L /\ dir'.manifests = dir.manifests
        /\ dir' = [logs |-> dir'.logs, tables |-> dir'.tables, manifests |-> dir'.manifests,
                   temp |-> dir'.temp, one |-> dir'.one, current |-> dir'.current]
    BY <1>0, <2>6 DEF DirTyped
  <2>8. /\ DOMAIN dir'.tables = (DOMAIN T \ {c}) \cup {n} /\ dir'.tables[n] = full
        /\ \A i \in DOMAIN T : i # c => dir'.tables[i] = T[i]
    BY <1>2, <2>7 DEF Put, Without
  <2>9. FilesTyped(dir'.tables)
    <3>1. FilesTyped(Without(T, c))
      BY <1>0, WithoutFile
    <3>2. FilesTyped(Put(Without(T, c), n, full))
      BY <3>1, <1>2, <2>5, PutFile
    <3> QED
      BY <3>2, <2>7
  <2>10. RepairTyped'
    <3>1. DirTyped(dir')
      BY <1>0, <2>7, <2>9 DEF DirTyped
    <3> QED
      BY <3>1, <1>0, <1>7, <2>3 DEF RepairTyped
  <2>11. NumbersAreFresh' /\ LogsAreKnown'
    BY <1>1, <1>2, <2>4, <2>7, <2>8 DEF RepairInv, NumbersAreFresh, LogsAreKnown, Scanning
  <2>0. faults' = faults
    BY <1>7
  <2>12. TablesAreKnown'
    BY <1>1, <2>0, <1>2, <2>4, <2>8 DEF RepairInv, TablesAreKnown, Scanning, Listed
  <2>13. ListedAreGood'
    <3> SUFFICES ASSUME NEW t \in rep'.tables
                 PROVE  /\ t.number \in DOMAIN dir'.tables \ rep.numbers /\ dir'.tables[t.number].good
                        /\ \A s \in dir'.tables[t.number].readable : s <= t.max
      BY <2>4 DEF ListedAreGood
    <3>1. CASE t = new
      BY <3>1, <1>3, <2>1, <2>4, <2>5, <2>8
    <3>2. CASE t \in rep.tables
      <4>1. /\ t.number \in DOMAIN T \ rep.numbers /\ T[t.number].good /\ t.number # c
            /\ \A s \in T[t.number].readable : s <= t.max
        BY <3>2, <1>1, <1>2 DEF RepairInv, ListedAreGood, Scanning, Listed
      <4> QED
        BY <4>1, <2>8
    <3> QED
      BY <3>1, <3>2, <2>4
  <2>14. CopyIsApart' /\ DescriptorIsTrue'
    BY <2>4 DEF CopyIsApart, DescriptorIsTrue
  <2>15. GoodEntries(T) \subseteq GoodEntries(dir'.tables)
    BY <1>2, <1>6, <2>8 DEF GoodEntries
  <2>16. Entries(T) \cup read \subseteq Entries(dir'.tables)
    BY <1>2, <1>6, <2>5, <2>8 DEF Entries
  <2>17. NothingIsLost'
    BY <1>1, <1>7, <2>4, <2>7, <2>15, <2>16 DEF RepairInv, NothingIsLost
  <2> QED
    BY <2>10, <2>11, <2>12, <2>13, <2>14, <2>17 DEF RepairInv
<1>8. CASE read = {} /\ rep' = kept /\ UNCHANGED <<dir, faults>>
  <2>1. RepairTyped'
    BY <1>0, <1>5, <1>8 DEF RepairTyped
  <2>2. /\ rep'.pc = "logs" /\ rep'.numbers = rep.numbers /\ rep'.logs = rep.logs /\ rep'.next = rep.next
        /\ rep'.tables = rep.tables
    BY <1>4, <1>8
  <2> HIDE DEF kept
  <2>3. NumbersAreFresh' /\ LogsAreKnown'
    BY <1>1, <1>2, <1>8, <2>2 DEF RepairInv, NumbersAreFresh, LogsAreKnown, Scanning
  <2>4. TablesAreKnown' /\ ListedAreGood'
    BY <1>1, <1>8, <2>2 DEF RepairInv, TablesAreKnown, ListedAreGood, Scanning, Listed
  <2>5. CopyIsApart' /\ DescriptorIsTrue'
    BY <2>2 DEF CopyIsApart, DescriptorIsTrue
  <2>6. NothingIsLost'
    BY <1>1, <1>8, <2>2 DEF RepairInv, NothingIsLost
  <2> QED
    BY <2>1, <2>3, <2>4, <2>5, <2>6 DEF RepairInv
<1>9. CASE /\ faults' = faults + 1 /\ rep' = kept /\ dir' = [dir EXCEPT !.tables = Without(@, c)]
  <2>1. /\ dir'.tables = Without(T, c) /\ dir'.logs = L /\ dir'.manifests = dir.manifests
        /\ dir' = [logs |-> dir'.logs, tables |-> dir'.tables, manifests |-> dir'.manifests,
                   temp |-> dir'.temp, one |-> dir'.one, current |-> dir'.current]
    BY <1>0, <1>9 DEF DirTyped
  <2>2. DirTyped(dir')
    BY <1>0, <2>1, WithoutFile DEF DirTyped
  <2>3. RepairTyped'
    BY <1>0, <1>5, <1>9, <2>2 DEF RepairTyped
  <2>4. /\ rep'.pc = "logs" /\ rep'.numbers = rep.numbers /\ rep'.logs = rep.logs /\ rep'.next = rep.next
        /\ rep'.tables = rep.tables
    BY <1>4, <1>9
  <2>5. DOMAIN dir'.tables = DOMAIN T \ {c} /\ \A i \in DOMAIN T \ {c} : dir'.tables[i] = T[i]
    BY <2>1 DEF Without
  <2> HIDE DEF kept
  <2>6. NumbersAreFresh' /\ LogsAreKnown'
    BY <1>1, <1>2, <2>1, <2>4, <2>5 DEF RepairInv, NumbersAreFresh, LogsAreKnown, Scanning
  <2>7. TablesAreKnown' /\ ListedAreGood'
    BY <1>0, <1>1, <1>9, <1>2, <2>4, <2>5 DEF RepairInv, TablesAreKnown, ListedAreGood, Scanning, Listed
  <2>8. CopyIsApart' /\ DescriptorIsTrue'
    BY <2>4 DEF CopyIsApart, DescriptorIsTrue
  <2>9. NothingIsLost'
    BY <1>0, <1>9 DEF NothingIsLost
  <2> QED
    BY <2>3, <2>6, <2>7, <2>8, <2>9 DEF RepairInv
<1> QED
  BY <1>7, <1>8, <1>9 DEF FinishCopy

(* The descriptor lists every table that holds something. *)
LEMMA WriteDescriptorStep ==
  ASSUME RepairInv, WriteDescriptor
  PROVE  RepairInv'
<1> DEFINE T == dir.tables
           L == dir.logs
           M == {t.max : t \in rep.tables}
           N == {t.number : t \in rep.tables}
           d == Descriptor
<1>0. DirTyped(dir) /\ RepTyped(rep) /\ faults \in Nat /\ FilesTyped(T) /\ FilesTyped(L)
  BY DEF RepairInv, RepairTyped, DirTyped
<1>1. rep.pc = "logs" /\ rep.logs = {} /\ rep.numbers = {} /\ UNCHANGED <<crashes, intact, torn, dropped>>
  BY DEF WriteDescriptor
<1>2. MaxOf(M) \in Nat /\ \A x \in M : x <= MaxOf(M)
  <2>1. M \subseteq Nat /\ Bounded(M)
    BY <1>0, RepairAssumption DEF RepTyped, Seqs, Bounded
  <2> QED
    BY <2>1, MaxOfIsMax
<1>3. d.listed = N /\ d.last = MaxOf(M) /\ d.next = rep.next
  BY DEF Descriptor
<1>4. \A t \in rep.tables : t.number \in DOMAIN T /\ T[t.number].good /\ \A s \in T[t.number].readable : s <= t.max
  BY <1>1 DEF RepairInv, ListedAreGood, Scanning
<1>5. \A t \in rep.tables : t.max \in Nat /\ t.max <= d.last /\ d.last \in Nat
  BY <1>0, <1>2, <1>3, RepairAssumption DEF RepTyped, Seqs
<1>6. \A i \in DOMAIN T : T[i].readable \subseteq Nat
  BY <1>0, RepairAssumption DEF FilesTyped, FileTyped, Seqs
<1> HIDE DEF d
<1>7. N \subseteq DOMAIN T /\ \A i \in N : T[i].good /\ \A s \in T[i].readable : s <= d.last
  BY <1>4, <1>5, <1>6
<1>8. \A i \in DOMAIN T : i < rep.next
  BY <1>1 DEF RepairInv, NumbersAreFresh
<1>9. Entries(L) = {}
  BY <1>1 DEF RepairInv, LogsAreKnown, Scanning, Entries
<1>10. faults = 0 => \A i \in DOMAIN T : i \in N \/ T[i].readable = {}
  BY <1>1 DEF RepairInv, TablesAreKnown, Scanning, Listed
<1>11. GoodEntries(T) \subseteq Entries(T) /\ (faults = 0 => Entries(T) \subseteq UNION {T[i].readable : i \in N})
  BY <1>10 DEF GoodEntries, Entries
<1>12. faults = 0 => intact \cup (torn \ dropped) \subseteq UNION {T[i].readable : i \in N}
  BY <1>1, <1>9, <1>11 DEF RepairInv, NothingIsLost
<1>13. Describes(d)
  BY <1>3, <1>7, <1>8, <1>12 DEF Describes
<1>14. CASE dir' = [dir EXCEPT !.temp = Descriptor] /\ rep' = [rep EXCEPT !.pc = "manifests"] /\ UNCHANGED faults
  <2>1. /\ dir'.tables = T /\ dir'.logs = L /\ dir'.manifests = dir.manifests /\ dir'.temp = d
        /\ dir' = [logs |-> dir'.logs, tables |-> dir'.tables, manifests |-> dir'.manifests,
                   temp |-> dir'.temp, one |-> dir'.one, current |-> dir'.current]
    BY <1>0, <1>14 DEF DirTyped, d
  <2>2. rep' = [pc |-> "manifests", logs |-> rep.logs, manifests |-> rep.manifests, numbers |-> rep.numbers,
                tables |-> rep.tables, next |-> rep.next, log |-> rep.log, copy |-> rep.copy, read |-> rep.read]
    BY <1>0, <1>14 DEF RepTyped
  <2>3. DirTyped(dir') /\ RepTyped(rep')
    BY <1>0, <2>1, <2>2 DEF DirTyped, RepTyped
  <2>4. RepairTyped'
    BY <1>0, <1>14, <2>3 DEF RepairTyped
  <2>5. NumbersAreFresh' /\ NothingIsLost'
    BY <1>1, <1>14, <2>1, <2>2 DEF RepairInv, NumbersAreFresh, NothingIsLost
  <2>6. DescriptorIsTrue'
    BY <1>1, <1>13, <1>14, <2>1, <2>2 DEF DescriptorIsTrue, Describes
  <2> QED
    BY <2>2, <2>4, <2>5, <2>6 DEF RepairInv, LogsAreKnown, TablesAreKnown, ListedAreGood, CopyIsApart, Scanning
<1>15. CASE faults' = faults + 1 /\ rep' = [rep EXCEPT !.pc = "failed"] /\ dir' = [dir EXCEPT !.temp = NoDescriptor]
  <2>1. /\ dir'.tables = T /\ dir'.logs = L /\ dir'.manifests = dir.manifests
        /\ dir' = [logs |-> dir'.logs, tables |-> dir'.tables, manifests |-> dir'.manifests,
                   temp |-> dir'.temp, one |-> dir'.one, current |-> dir'.current]
    BY <1>0, <1>15 DEF DirTyped
  <2>2. rep' = [pc |-> "failed", logs |-> rep.logs, manifests |-> rep.manifests, numbers |-> rep.numbers,
                tables |-> rep.tables, next |-> rep.next, log |-> rep.log, copy |-> rep.copy, read |-> rep.read]
    BY <1>0, <1>15 DEF RepTyped
  <2>3. DirTyped(dir') /\ RepTyped(rep')
    BY <1>0, <2>1, <2>2 DEF DirTyped, RepTyped
  <2>4. RepairTyped'
    BY <1>0, <1>15, <2>3 DEF RepairTyped
  <2>5. NumbersAreFresh' /\ NothingIsLost'
    BY <1>0, <1>1, <1>15, <2>1, <2>2 DEF RepairInv, NumbersAreFresh, NothingIsLost
  <2> QED
    BY <2>2, <2>4, <2>5 DEF RepairInv, LogsAreKnown, TablesAreKnown, ListedAreGood, CopyIsApart, DescriptorIsTrue, Scanning
<1> QED
  BY <1>14, <1>15 DEF WriteDescriptor

(* The descriptor is put in its place, which leaves the files as they are. *)
LEMMA InstallStep ==
  ASSUME RepairInv, ArchiveManifest \/ InstallManifest \/ SetCurrentFile
  PROVE  RepairInv'
<1>0. DirTyped(dir) /\ RepTyped(rep) /\ faults \in Nat /\ UNCHANGED <<crashes, faults, intact, torn, dropped>>
  BY DEF RepairInv, RepairTyped, ArchiveManifest, InstallManifest, SetCurrentFile
<1>1. /\ dir'.tables = dir.tables /\ dir'.logs = dir.logs
      /\ dir' = [logs |-> dir'.logs, tables |-> dir'.tables, manifests |-> dir'.manifests,
                 temp |-> dir'.temp, one |-> dir'.one, current |-> dir'.current]
  BY <1>0 DEF DirTyped, ArchiveManifest, InstallManifest, SetCurrentFile
<1>2. dir'.manifests \subseteq Nat
  <2>1. dir'.manifests \subseteq dir.manifests \/ dir'.manifests = {1}
    BY <1>0 DEF DirTyped, ArchiveManifest, InstallManifest, SetCurrentFile
  <2> QED
    BY <1>0, <2>1 DEF DirTyped
<1>3. PICK M \in SUBSET rep.manifests, pc \in {"manifests", "current", "done"} :
        rep' = [pc |-> pc, logs |-> rep.logs, manifests |-> M, numbers |-> rep.numbers,
                tables |-> rep.tables, next |-> rep.next, log |-> rep.log, copy |-> rep.copy, read |-> rep.read]
  <2>1. CASE ArchiveManifest
    <3> PICK i \in rep.manifests : rep' = [rep EXCEPT !.manifests = @ \ {i}]
      BY <2>1 DEF ArchiveManifest
    <3>1. rep' = [pc |-> "manifests", logs |-> rep.logs, manifests |-> rep.manifests \ {i}, numbers |-> rep.numbers,
                  tables |-> rep.tables, next |-> rep.next, log |-> rep.log, copy |-> rep.copy, read |-> rep.read]
      BY <1>0, <2>1 DEF ArchiveManifest, RepTyped
    <3>2. rep.manifests \ {i} \in SUBSET rep.manifests
      OBVIOUS
    <3> QED
      BY <3>1, <3>2
  <2>2. CASE InstallManifest
    <3>1. rep' = [pc |-> "current", logs |-> rep.logs, manifests |-> rep.manifests, numbers |-> rep.numbers,
                  tables |-> rep.tables, next |-> rep.next, log |-> rep.log, copy |-> rep.copy, read |-> rep.read]
      BY <1>0, <2>2 DEF InstallManifest, RepTyped
    <3> QED
      BY <3>1
  <2>3. CASE SetCurrentFile
    <3>1. rep' = [pc |-> "done", logs |-> rep.logs, manifests |-> rep.manifests, numbers |-> rep.numbers,
                  tables |-> rep.tables, next |-> rep.next, log |-> rep.log, copy |-> rep.copy, read |-> rep.read]
      BY <1>0, <2>3 DEF SetCurrentFile, RepTyped
    <3> QED
      BY <3>1
  <2> QED
    BY <2>1, <2>2, <2>3
<1>4. DirTyped(dir') /\ RepTyped(rep')
  BY <1>0, <1>1, <1>2, <1>3 DEF DirTyped, RepTyped
<1>5. RepairTyped'
  BY <1>0, <1>4 DEF RepairTyped
<1>6. rep.pc \in {"manifests", "current"}
  BY DEF ArchiveManifest, InstallManifest, SetCurrentFile
<1>7. rep'.pc \in {"manifests", "current", "done"} /\ rep'.next = rep.next
  BY <1>3
<1>8. NumbersAreFresh' /\ NothingIsLost'
  BY <1>0, <1>1, <1>6, <1>7 DEF RepairInv, NumbersAreFresh, NothingIsLost
<1>10. DescriptorIsTrue'
  <2>1. CASE ArchiveManifest
    <3>1. rep'.pc = "manifests" /\ dir'.temp = dir.temp /\ rep.pc = "manifests"
      BY <1>0, <2>1 DEF ArchiveManifest, DirTyped, RepTyped
    <3> QED
      BY <3>1, <1>0, <1>1 DEF RepairInv, DescriptorIsTrue, Describes
  <2>2. CASE InstallManifest
    <3>1. rep'.pc = "current" /\ dir'.one = dir.temp /\ rep.pc = "manifests"
      BY <1>0, <2>2 DEF InstallManifest, DirTyped, RepTyped
    <3> QED
      BY <3>1, <1>0, <1>1 DEF RepairInv, DescriptorIsTrue, Describes
  <2>3. CASE SetCurrentFile
    <3>1. rep'.pc = "done" /\ dir'.one = dir.one /\ dir'.current = 1 /\ rep.pc = "current"
      BY <1>0, <2>3 DEF SetCurrentFile, DirTyped, RepTyped
    <3> QED
      BY <3>1, <1>0, <1>1 DEF RepairInv, DescriptorIsTrue, Describes
  <2> QED
    BY <2>1, <2>2, <2>3
<1> QED
  BY <1>5, <1>7, <1>8, <1>10 DEF RepairInv, LogsAreKnown, TablesAreKnown, ListedAreGood, CopyIsApart, Scanning

(* The descriptor is not put in its place, and the repair returns an error. *)
LEMMA InstallFailsStep ==
  ASSUME RepairInv, InstallFails
  PROVE  RepairInv'
<1>0. /\ DirTyped(dir) /\ RepTyped(rep) /\ faults \in Nat /\ faults' = faults + 1
      /\ rep' = [rep EXCEPT !.pc = "failed"] /\ rep.pc # "idle"
      /\ dir' = [dir EXCEPT !.temp = NoDescriptor] \/ dir' = dir
  BY DEF RepairInv, RepairTyped, InstallFails
<1>1. faults' \in Nat /\ faults' # 0
  BY <1>0
<1>2. rep' = [pc |-> "failed", logs |-> rep.logs, manifests |-> rep.manifests, numbers |-> rep.numbers,
              tables |-> rep.tables, next |-> rep.next, log |-> rep.log, copy |-> rep.copy, read |-> rep.read]
  BY <1>0 DEF RepTyped
<1>3. /\ dir'.tables = dir.tables /\ dir'.logs = dir.logs /\ dir'.manifests = dir.manifests
      /\ dir' = [logs |-> dir'.logs, tables |-> dir'.tables, manifests |-> dir'.manifests,
                 temp |-> dir'.temp, one |-> dir'.one, current |-> dir'.current]
  BY <1>0 DEF DirTyped
<1>4. DirTyped(dir') /\ RepTyped(rep')
  BY <1>0, <1>2, <1>3 DEF DirTyped, RepTyped
<1>5. RepairTyped'
  BY <1>1, <1>4 DEF RepairTyped
<1>6. NumbersAreFresh' /\ NothingIsLost'
  BY <1>0, <1>1, <1>2, <1>3 DEF RepairInv, NumbersAreFresh, NothingIsLost
<1> QED
  BY <1>2, <1>5, <1>6 DEF RepairInv, LogsAreKnown, TablesAreKnown, ListedAreGood, CopyIsApart, DescriptorIsTrue, Scanning

(* A crash loses what the Repairer knew, and a copy that was not finished. *)
LEMMA RestartStep ==
  ASSUME RepairInv, Crash \/ RepairAgain
  PROVE  RepairInv'
<1>1. UNCHANGED <<dir, faults, intact, torn>> /\ rep' = RepIdle
  BY DEF Crash, RepairAgain
<1>2. RepTyped(rep') /\ rep'.pc = "idle"
  BY <1>1 DEF RepTyped, RepIdle
<1>3. RepairTyped'
  BY <1>1, <1>2 DEF RepairInv, RepairTyped
<1>4. dropped \subseteq dropped' /\ (rep.pc = "finish" => rep.read \subseteq dropped')
  BY DEF Crash, RepairAgain
<1>5. NothingIsLost'
  BY <1>1, <1>2, <1>4 DEF RepairInv, NothingIsLost
<1> QED
  BY <1>2, <1>3, <1>5 DEF RepairInv, NumbersAreFresh, LogsAreKnown, TablesAreKnown, ListedAreGood, CopyIsApart,
                          DescriptorIsTrue, Scanning

(* The invariant of the repair at its start. *)
LEMMA RepairStarts ==
  ASSUME RepairInit
  PROVE  RepairInv
<1>1. /\ dir \in Directories /\ rep = RepIdle /\ faults = 0 /\ dropped = {}
      /\ intact = Entries(dir.logs) \cup GoodEntries(dir.tables) /\ torn = Entries(dir.tables) \ intact
  BY DEF RepairInit, GoodEntries
<1>2. FilesTyped(dir.logs) /\ FilesTyped(dir.tables)
  <2> SUFFICES ASSUME NEW files \in {dir.logs, dir.tables} PROVE FilesTyped(files)
    OBVIOUS
  <2>1. /\ DOMAIN files \subseteq Nat /\ IsFiniteSet(DOMAIN files)
        /\ \A n \in DOMAIN files : files[n].readable \subseteq 0 .. kMaxSequenceNumber /\ files[n].good \in BOOLEAN
    BY <1>1, RepairAssumption
  <2>2. Bounded(DOMAIN files)
    BY <2>1, FiniteIsBounded
  <2>3. \A n \in DOMAIN files : FileTyped(files[n])
    BY <2>1 DEF FileTyped, Seqs
  <2> QED
    BY <2>1, <2>2, <2>3 DEF FilesTyped
<1>3. DirTyped(dir)
  BY <1>1, <1>2, RepairAssumption DEF DirTyped
<1>4. RepTyped(rep) /\ rep.pc = "idle"
  BY <1>1 DEF RepTyped, RepIdle
<1>5. RepairTyped
  BY <1>1, <1>3, <1>4 DEF RepairTyped
<1>6. NothingIsLost
  BY <1>1, <1>4 DEF NothingIsLost
<1> QED
  BY <1>4, <1>5, <1>6 DEF RepairInv, NumbersAreFresh, LogsAreKnown, TablesAreKnown, ListedAreGood, CopyIsApart,
                          DescriptorIsTrue, Scanning

(* For every damaged directory and any number of crashes and of failing     *)
(* operations: a repair that returns lists tables that exist and read to    *)
(* their end, with a last sequence and a next file number above all of      *)
(* theirs, and, if none failed, holds every entry of the logs and of the    *)
(* undamaged tables, and what could be read of the damaged ones, but what   *)
(* was dropped by a crash between archiving one of these and renaming its   *)
(* copy (RepairDB).                                                         *)
THEOREM RepairKeepsAll == RepairSpec => []RepairKeepsEntries
<1>1. RepairInit => RepairInv
  BY RepairStarts
<1>2. RepairInv /\ [RepairNext]_repairVars => RepairInv'
  <2> SUFFICES ASSUME RepairInv, [RepairNext]_repairVars PROVE RepairInv'
    OBVIOUS
  <2>1. CASE UNCHANGED repairVars
    BY <2>1 DEF repairVars, RepairInv, RepairTyped, NumbersAreFresh, LogsAreKnown, TablesAreKnown, ListedAreGood,
                CopyIsApart, NothingIsLost, DescriptorIsTrue, Describes, Listed
  <2>2. CASE RepairNext
    BY <2>2, FindFilesStep, ConvertLogStep, BuildTableStep, ArchiveLogStep, ScanTableStep, SkipTableStep,
       ArchiveTableStep, FinishCopyStep, WriteDescriptorStep, InstallStep, InstallFailsStep, RestartStep DEF RepairNext
  <2> QED
    BY <2>1, <2>2
<1>3. RepairInv => RepairKeepsEntries
  BY DEF RepairInv, DescriptorIsTrue, Describes, RepairKeepsEntries, Held
<1> QED
  BY <1>1, <1>2, <1>3, PTL DEF RepairSpec
============================================================================
