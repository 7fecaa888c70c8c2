------------------------------- MODULE MCLSM -------------------------------
(* Instances of the levels.  Files of two entries at most, or of one. *)
EXTENDS LSM

Mode(uses, size, writes, level) ==
    [uses |-> uses, max_file_size |-> size, writes |-> writes, mem_level |-> level]

(* Snapshots with large outputs; small outputs without snapshots; ranges    *)
(* compacted by hand while no memtable fills up.                            *)
SafeModes == {Mode({"deletions", "snapshots", "flush_during", "seeks"}, 9, 3, 2),
              Mode({"iterators", "flush_during"}, 1, 4, 1),
              Mode({"deletions", "flush_during"}, 2, 5, 0),
              Mode({"deletions", "manual", "seeks"}, 2, 3, 2)}

(* Versions of one key in two files of a level, as a snapshot leaves them. *)
BoundaryModes == {Mode({"snapshots", "manual"}, 1, 3, 0)}

(* A range compacted by hand while a memtable is flushed below it. *)
GapModes == {Mode({"manual", "flush_during"}, 9, 5, 2)}
=============================================================================
