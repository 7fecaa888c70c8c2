---------------------------- MODULE MCConversion ----------------------------
(* Worlds for Conversion.  A cell is <<region, column, row>>. *)
EXTENDS Conversion, TLC

Chunks(secs) == [kind |-> "chunk", sections |-> secs]
Hole(kind) == [kind |-> kind, sections |-> {}]
World(f) == [c \in Cells |-> IF c \in DOMAIN f THEN f[c] ELSE Hole("absent")]

(* Two regions of two by two: a column of two chunks with different sections *)
(* (one above the height limit), a lone chunk beside one without a stream,   *)
(* a chunk behind one without a stream.                                      *)
MixedWorld == World((<<0, 0, 0>> :> Chunks({0, 1})) @@ (<<0, 0, 1>> :> Chunks({0}))
                 @@ (<<0, 1, 0>> :> Chunks({1, 2})) @@ (<<0, 1, 1>> :> Hole("unreadable"))
                 @@ (<<-1, 1, 0>> :> Hole("unreadable")) @@ (<<-1, 1, 1>> :> Chunks({1})))

(* The same, with tags that cannot be read in a second row. *)
CorruptWorld == [MixedWorld EXCEPT ![<<0, 1, 1>>] = Hole("corrupt")]

(* A chunk in every cell, of one section or of two. *)
FullWorld == [c \in Cells |-> Chunks({0})]
SmallWorld == [c \in Cells |-> Chunks(IF c[3] = 0 THEN {0, 1} ELSE {0})]

MixedWorlds == {MixedWorld, CorruptWorld}
FullWorlds == {FullWorld}
SmallWorlds == {SmallWorld}
RegionPair == {-1, 0}
OneRegion == {0}
Origin == <<0, 0>>
Corner == <<-1, 0>>
=============================================================================
