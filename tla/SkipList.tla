------------------------------ MODULE SkipList ------------------------------
(* The memtable's skip list (db/skiplist.h): one writer inserts while       *)
(* readers walk the list without a lock.  Every load and store of a link is *)
(* a step, so a search meets a node that is linked at some of its levels.   *)
(* Readers share nothing, so one of them stands for any number.             *)
EXTENDS Integers, Sequences, FiniteSets

CONSTANTS
    SkipKeys,       \* the keys: positive integers, inserted at most once each
    kMaxHeight

ASSUME SkipListAssumption ==
    SkipKeys \subseteq Nat \ {0} /\ IsFiniteSet(SkipKeys) /\ SkipKeys # {} /\ kMaxHeight \in Nat \ {0}

VARIABLES
    next,           \* next[n][l]: the link of node n at level l
    max_height,
    inserting,      \* the insert under way: its key, height, position x, level and prev[]
    inserted,       \* the keys whose Insert has returned
    search          \* the reader: its operation, position and the keys it must see

skipVars == <<next, max_height, inserting, inserted, search>>

head == 0
NULL == 1 + CHOOSE k \in SkipKeys : \A o \in SkipKeys : o <= k    \* sorts after every key
Raw == -1                                                         \* memory of the arena, never stored to
SkipLevels == 0 .. kMaxHeight - 1
SkipNodes == SkipKeys \cup {head}

(* NULL is considered infinite; uninitialised memory is neither. *)
KeyIsAfterNode(key, n) == n # NULL /\ n < key

Quiet == [pc |-> "none", key |-> head, height |-> 0, x |-> head, level |-> 0, prev |-> [l \in SkipLevels |-> Raw]]
NoSearch == [pc |-> "none", op |-> "none", target |-> head, x |-> head, level |-> 0, node |-> NULL, before |-> {}]

SkipInit ==
    /\ next = [n \in SkipNodes |-> [l \in SkipLevels |-> IF n = head THEN NULL ELSE Raw]]
    /\ max_height = 1
    /\ inserting = Quiet /\ inserted = {} /\ search = NoSearch

-----------------------------------------------------------------------------
(* The writer. *)

InsertStart(key) ==
    /\ inserting = Quiet /\ key \notin inserted
    /\ inserting' = [Quiet EXCEPT !.pc = "find", !.key = key, !.level = max_height - 1]
    /\ UNCHANGED <<next, max_height, inserted, search>>

(* FindGreaterOrEqual with prev[], one load of a link: go on in this list,  *)
(* or note where it is left and go down.                                    *)
FindGreaterOrEqual ==
    /\ inserting.pc = "find"
    /\ LET n == next[inserting.x][inserting.level]
       IN  inserting' = IF KeyIsAfterNode(inserting.key, n) THEN [inserting EXCEPT !.x = n]
                        ELSE IF inserting.level > 0
                        THEN [inserting EXCEPT !.prev[inserting.level] = inserting.x, !.level = @ - 1]
                        ELSE [inserting EXCEPT !.prev[0] = inserting.x, !.pc = "found"]
    /\ UNCHANGED <<next, max_height, inserted, search>>

(* RandomHeight, prev[] above the list's height, and the store that raises  *)
(* max_height, which is not ordered with the links.                         *)
RaiseHeight(height) ==
    /\ inserting.pc = "found"
    /\ inserting' = [inserting EXCEPT !.pc = "own", !.height = height,
                                      !.prev = [l \in SkipLevels |-> IF max_height <= l /\ l < height THEN head ELSE @[l]]]
    /\ max_height' = IF height > max_height THEN height ELSE max_height
    /\ UNCHANGED <<next, inserted, search>>

(* The loop links the levels from the lowest up: a level's list holds only  *)
(* nodes that the lists under it hold.                                      *)
LinkLevelDown(w) == w.height - 1 - w.level
LinkLevel(w) == w.level

(* x->NoBarrier_SetNext(i, prev[i]->NoBarrier_Next(i)) *)
InsertOwnLink ==
    /\ inserting.pc = "own"
    /\ LET i == LinkLevel(inserting)
       IN  next' = [next EXCEPT ![inserting.key][i] = next[inserting.prev[i]][i]]
    /\ inserting' = [inserting EXCEPT !.pc = "publish"]
    /\ UNCHANGED <<max_height, inserted, search>>

(* prev[i]->SetNext(i, x), and the loop's step to the next level. *)
InsertPublish ==
    /\ inserting.pc = "publish"
    /\ LET i == LinkLevel(inserting)
           last == inserting.level + 1 = inserting.height
       IN  /\ next' = [next EXCEPT ![inserting.prev[i]][i] = inserting.key]
           /\ inserted' = IF last THEN inserted \cup {inserting.key} ELSE inserted
           /\ inserting' = IF last THEN Quiet ELSE [inserting EXCEPT !.pc = "own", !.level = @ + 1]
    /\ UNCHANGED <<max_height, search>>

-----------------------------------------------------------------------------
(* The readers. *)

Searching == search.pc = "walk"

(* The caller's mutex orders the inserts that have returned before the      *)
(* search; max_height is read racily, so any value it had may be seen.      *)
SearchFrom(op, target) ==
    /\ ~Searching
    /\ \E height \in 1 .. max_height :
           search' = [pc |-> "walk", op |-> op, target |-> target, x |-> head, level |-> height - 1,
                      node |-> search.node, before |-> inserted]
    /\ UNCHANGED <<next, max_height, inserting, inserted>>

Seek(target) == SearchFrom("Seek", target)                  \* and Contains
SeekToLast == SearchFrom("SeekToLast", NULL)                \* FindLast: every node is before NULL
Prev == search.node # NULL /\ SearchFrom("Prev", search.node)   \* FindLessThan(node_->key)

(* One load: Next and SeekToFirst. *)
StepTo(op, from) ==
    /\ ~Searching
    /\ search' = [pc |-> "done", op |-> op, target |-> from, x |-> head, level |-> 0,
                  node |-> next[from][0], before |-> inserted]
    /\ UNCHANGED <<next, max_height, inserting, inserted>>

SeekToFirst == StepTo("Next", head)
IterNext == search.node # NULL /\ StepTo("Next", search.node)

(* One load of x->Next(level): go on in this list, go down, or end.         *)
SearchStep ==
    /\ Searching
    /\ LET n == next[search.x][search.level]
           found == IF search.op = "Seek" THEN n
                    ELSE IF search.x = head THEN NULL ELSE search.x
       IN  search' = IF KeyIsAfterNode(search.target, n) THEN [search EXCEPT !.x = n]
                     ELSE IF search.level > 0 THEN [search EXCEPT !.level = @ - 1]
                     ELSE [search EXCEPT !.pc = "done", !.node = found]
    /\ UNCHANGED <<next, max_height, inserting, inserted>>

SkipNext ==
    \/ \E key \in SkipKeys : InsertStart(key)
    \/ FindGreaterOrEqual
    \/ \E height \in 1 .. kMaxHeight : RaiseHeight(height)
    \/ InsertOwnLink
    \/ InsertPublish
    \/ \E target \in SkipKeys : Seek(target)
    \/ SeekToLast
    \/ Prev
    \/ SeekToFirst
    \/ IterNext
    \/ SearchStep

SkipSpec == SkipInit /\ [][SkipNext]_skipVars

-----------------------------------------------------------------------------
(* A search that runs beside an insert reads only links that were stored,   *)
(* and ends where it should among the keys inserted before it began: none   *)
(* of them lies between the key it was given and the node it stops at.  So  *)
(* a Get misses no write whose sequence it was given, at whatever level the *)
(* insert beside it is, and with whatever max_height it saw.                *)
SearchesSeeInserts ==
    LET end == IF search.node = NULL /\ search.op \in {"Prev", "SeekToLast"} THEN head ELSE search.node
    IN  /\ search.x # Raw /\ search.node # Raw
        /\ search.pc = "done" =>
              \A k \in search.before :
                  CASE search.op = "Seek" -> ~(search.target <= k /\ k < end)
                    [] search.op = "Next" -> ~(search.target < k /\ k < end)
                    [] OTHER -> ~(end < k /\ k < search.target)
=============================================================================
