------------------------------ MODULE MCParts ------------------------------
(* Instances of the parts of LevelDB that stand by themselves: the byte     *)
(* formats, the structures in memory, the environment and the repair.  A    *)
(* behaviour uses one of them.                                              *)
EXTENDS LogFormat, Codecs, Snappy, SkipList, Arena, TableCache, PosixEnv, Repair

VARIABLE job

MCKeys == {<<>>, <<0, 1, 7, 2, 5>>}
MCValues == {<<>>, <<1>>}
ShortKey == InternalKey(<<1>>, 3, kTypeValue)
LongKey == InternalKey(<<2, 0, 5, 4>>, 15, kTypeDeletion)

(* Numbers at the limits of one group, of 32 and of 64 bits. *)
MCEdits ==
    [comparator : {<<>>, <<1, 2, 3, 4>>}, log : {None, 0, Width32 - 1, Width64 - 1}, prev : {None, 0},
     next : {None, kRadix}, last : {None, Width64 - 1}, pointers : {<<>>, << <<6, ShortKey>> >>},
     deleted : {{}, {<<1, Width64 - 1>>, <<1, 3>>}},
     files : {<<>>, <<[level |-> 2, number |-> 127, size |-> 9, smallest |-> ShortKey, largest |-> LongKey]>>}]

(* Runs longer than one copy, literals longer than one tag, repeats that    *)
(* overlap themselves, and inputs of two fragments.                         *)
Same(b, n) == [i \in 1 .. n |-> b]
Climb(n) == [i \in 1 .. n |-> i]
Pieces == {Same(7, 1), Same(7, 9), Climb(6), Climb(3) \o Same(9, 2)}
MCInputs ==
    {<<>>, Climb(64), Climb(80), Same(5, 90), Same(5, 80) \o Climb(40) \o Same(5, 17)}
        \cup {a \o b \o c \o d : a, b, c, d \in Pieces}

(* All files share a bucket until the handle table has grown twice. *)
MCHashOf(n) == 2 * n

(* Two attempts of the application, one of the game. *)
MCProcessOf(u) == IF u = "other" THEN "game" ELSE "app"

File(readable, good) == [readable |-> readable, good |-> good]
MCDirectories ==
    {[logs |-> (5 :> File(a, TRUE)) @@ (7 :> File({7, 8}, TRUE)),
      tables |-> (2 :> File({1, 2}, c)) @@ (6 :> File(e, FALSE)),
      manifests |-> {1, 4}, temp |-> NoDescriptor, one |-> NoDescriptor, current |-> 4]
        : a \in {{}, {5}}, c \in BOOLEAN, e \in {{}, {3, 4}}}

SnappyIdle ==
    /\ z = StartCompress(<<>>, 1) /\ packed = <<0>>
    /\ unpack = [w \in {"array", "validator"} |-> [pc |-> "closed"]]

Init ==
    /\ LogInit /\ CodecInit /\ SkipInit /\ ArenaInit /\ CacheInit /\ EnvInit
    /\ \/ job \in {"log", "codec", "skiplist", "arena", "cache", "env"} /\ SnappyIdle /\ RepairIdle
       \/ job = "snappy" /\ SnappyInit /\ RepairIdle
       \/ job = "repair" /\ SnappyIdle /\ RepairInit

Next ==
    /\ UNCHANGED job
    /\ \/ job = "log" /\ LogNext
          /\ UNCHANGED <<codecVars, snappyVars, skipVars, arenaVars, cacheVars, envVars, repairVars>>
       \/ job = "codec" /\ CodecNext
          /\ UNCHANGED <<logVars, snappyVars, skipVars, arenaVars, cacheVars, envVars, repairVars>>
       \/ job = "snappy" /\ SnappyNext
          /\ UNCHANGED <<logVars, codecVars, skipVars, arenaVars, cacheVars, envVars, repairVars>>
       \/ job = "skiplist" /\ SkipNext
          /\ UNCHANGED <<logVars, codecVars, snappyVars, arenaVars, cacheVars, envVars, repairVars>>
       \/ job = "arena" /\ ArenaNext
          /\ UNCHANGED <<logVars, codecVars, snappyVars, skipVars, cacheVars, envVars, repairVars>>
       \/ job = "cache" /\ CacheNext
          /\ UNCHANGED <<logVars, codecVars, snappyVars, skipVars, arenaVars, envVars, repairVars>>
       \/ job = "env" /\ EnvNext
          /\ UNCHANGED <<logVars, codecVars, snappyVars, skipVars, arenaVars, cacheVars, repairVars>>
       \/ job = "repair" /\ RepairNext
          /\ UNCHANGED <<logVars, codecVars, snappyVars, skipVars, arenaVars, cacheVars, envVars>>

Spec ==
    Init /\ [][Next]_<<logVars, codecVars, snappyVars, skipVars, arenaVars, cacheVars, envVars, repairVars, job>>
=============================================================================
