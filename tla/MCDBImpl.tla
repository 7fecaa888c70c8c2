------------------------------ MODULE MCDBImpl ------------------------------
(* Instances of the database: two writers and three, crashes and faults. *)
EXTENDS DBImpl

Calls(a, b, c) == "a" :> a @@ "b" :> b @@ "c" :> c
Mode(calls, crashes, fs) == [calls |-> calls, crashes |-> crashes, faults |-> fs]

Faults == {"open", "recover", "recover_last", "append", "torn", "log_sync", "new_log", "table", "manifest"}
SafeModes ==
    {Mode(Calls("sync", "async", "sync"), {"process", "machine"}, {}),
     Mode(Calls("sync", "sync", "async"), {"process"}, Faults),
     Mode(Calls("sync", "sync", "async"), {"machine"}, Faults),
     Mode(Calls("async", "compact", "compact"), {"process"}, {})}

(* The behaviours in which no step gives entries up, as the theorems of      *)
(* DBImplProofs take them.                                                   *)
NothingGivenUp == Init /\ [][Next /\ ~ GivesUp]_vars /\ Fairness

(* A table cannot be written while an old log is recovered. *)
RecoverModes == {Mode(Calls("sync", "sync", "async"), {"process"}, {"recover"})}

(* A part of a record is written. *)
TornModes == {Mode(Calls("async", "async", "async"), {"process"}, {"torn"})}

(* Two faults and three opens. *)
FaultModes ==
    {Mode(Calls("sync", "sync", "async"), {"process"}, Faults),
     Mode(Calls("sync", "compact", "async"), {"process", "machine"}, {"recover", "torn"})}

(* A log cannot be synced while a range is compacted by hand. *)
ManualModes == {Mode(Calls("sync", "compact", "sync"), {}, {"log_sync"})}

(* Writes without sync, and one with it. *)
TailModes == {Mode(Calls("async", "sync", "async"), {}, {})}
=============================================================================
