--------------------------- MODULE MCChunkManager ---------------------------
(* Instances of ChunkManager. *)
EXTENDS ChunkManager, TLC

Symmetry == Permutations(Keys) \cup Permutations(Blocks)
=============================================================================
