------------------------------- MODULE Arena -------------------------------
(* The memtable's allocator (util/arena.h, util/arena.cc): small requests   *)
(* are cut from the current block, large ones get a block of their own.  An *)
(* address is a block and an offset; new[] returns aligned blocks.          *)
EXTENDS Integers, Sequences

CONSTANTS
    kArenaBlock,    \* kBlockSize
    Align,
    ArenaSizes,     \* the requests
    MaxAllocations

ASSUME ArenaAssumption ==
    /\ Align \in Nat \ {0} /\ kArenaBlock \in Nat \ {0} /\ kArenaBlock % Align = 0
    /\ ArenaSizes \subseteq Nat \ {0}

VARIABLES
    blocks_,                \* the sizes of the blocks
    alloc_ptr_,             \* block and offset; block 0 is NULL
    alloc_bytes_remaining_,
    allocations             \* what was handed out

arenaVars == <<blocks_, alloc_ptr_, alloc_bytes_remaining_, allocations>>

ArenaInit ==
    /\ blocks_ = <<>> /\ alloc_ptr_ = [block |-> 0, off |-> 0]
    /\ alloc_bytes_remaining_ = 0 /\ allocations = <<>>

Hand(at, bytes, aligned) ==
    allocations' = Append(allocations, [block |-> at.block, off |-> at.off, bytes |-> bytes, aligned |-> aligned])
Advance(bytes) ==
    /\ alloc_ptr_' = [alloc_ptr_ EXCEPT !.off = @ + bytes]
    /\ alloc_bytes_remaining_' = alloc_bytes_remaining_ - bytes
    /\ UNCHANGED blocks_

(* More than a quarter of a block is allocated separately; for less, the    *)
(* rest of the current block is wasted.                                     *)
AllocateFallback(bytes, aligned) ==
    LET fresh == [block |-> Len(blocks_) + 1, off |-> 0]
    IN  /\ Hand(fresh, bytes, aligned)
        /\ \/ /\ bytes > kArenaBlock \div 4
              /\ blocks_' = Append(blocks_, bytes) /\ UNCHANGED <<alloc_ptr_, alloc_bytes_remaining_>>
           \/ /\ bytes <= kArenaBlock \div 4
              /\ blocks_' = Append(blocks_, kArenaBlock)
              /\ alloc_ptr_' = [fresh EXCEPT !.off = bytes]
              /\ alloc_bytes_remaining_' = kArenaBlock - bytes

Allocate(bytes) ==
    /\ Len(allocations) < MaxAllocations
    /\ \/ bytes <= alloc_bytes_remaining_ /\ Hand(alloc_ptr_, bytes, FALSE) /\ Advance(bytes)
       \/ bytes > alloc_bytes_remaining_ /\ AllocateFallback(bytes, FALSE)

(* The bytes taken: the request and the slop before it. *)
NeededOnly(bytes, slop) == bytes
Needed(bytes, slop) == bytes + slop

AllocateAligned(bytes) ==
    /\ Len(allocations) < MaxAllocations
    /\ LET slop == (Align - (alloc_ptr_.off % Align)) % Align
           needed == Needed(bytes, slop)
       IN  \/ /\ needed <= alloc_bytes_remaining_
              /\ Hand([alloc_ptr_ EXCEPT !.off = @ + slop], bytes, TRUE) /\ Advance(needed)
           \/ needed > alloc_bytes_remaining_ /\ AllocateFallback(bytes, TRUE)

ArenaNext == \E bytes \in ArenaSizes : Allocate(bytes) \/ AllocateAligned(bytes)

ArenaSpec == ArenaInit /\ [][ArenaNext]_arenaVars

-----------------------------------------------------------------------------
(* No two pieces of memory handed out overlap, each lies inside its block,  *)
(* and the nodes of the skip list, whose links are read and written as      *)
(* atomic words, are aligned.                                               *)
AllocationsDisjoint ==
    \A i \in DOMAIN allocations :
        LET a == allocations[i]
        IN  /\ a.off + a.bytes <= blocks_[a.block]
            /\ a.aligned => a.off % Align = 0
            /\ \A j \in 1 .. i - 1 :
                   LET b == allocations[j]
                   IN  a.block = b.block => a.off >= b.off + b.bytes \/ b.off >= a.off + a.bytes
=============================================================================
