----------------------------- MODULE MCNativeDB -----------------------------
(* Instances of NativeDB: two threads, iterators with and without a snapshot. *)
EXTENDS NativeDB, TLC

(* Threads and iterators are interchangeable.  Only sound without liveness. *)
Symmetry == Permutations(Threads) \cup Permutations(Iters)
=============================================================================
