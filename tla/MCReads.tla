------------------------------ MODULE MCReads ------------------------------
(* Instances of the read path.  0 .. 3 are the bytes; 3 stands for 0xff. *)
EXTENDS ReadPath

MCKeys == {<<0>>, <<0, 3>>, <<2, 1>>}
MCFewKeys == {<<0, 1>>, <<2>>}
MCSeekKeys == MCKeys \cup {<<1>>, <<3>>}
MCSplit == <<1>>

Load(sources, keys, types, n, snapshots, dam, seeks) ==
    [sources |-> sources, keys |-> keys, types |-> types, n |-> n, snapshots |-> snapshots, damage |-> dam,
     seeks |-> seeks]
MCWorkload ==
    [l \in {"block", "table", "level", "merge", "db"} |->
        CASE l = "block" -> Load({"l0"}, MCKeys, {kTypeValue}, 5, {3}, FALSE, MCSeekKeys)
          [] l = "table" -> Load({"l0"}, MCKeys, {kTypeValue}, 4, {2}, TRUE, MCSeekKeys)
          [] l = "level" -> Load({"l1"}, MCKeys, {kTypeValue}, 4, {2}, TRUE, MCSeekKeys)
          [] l = "merge" -> Load(Sources, MCFewKeys, {kTypeValue}, 4, {2}, FALSE, MCSeekKeys)
          [] l = "db"    -> Load(Sources, MCFewKeys, {kTypeValue, kTypeDeletion}, 4, {2, 4}, FALSE, MCFewKeys)]
=============================================================================
