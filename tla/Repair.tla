------------------------------- MODULE Repair -------------------------------
(* RepairDB (db/repair.cc): a new descriptor from the logs and tables that  *)
(* a directory holds, with the process dying between any two of its steps   *)
(* and the repair run again.  A file is what can be read of it: a set of    *)
(* sequence numbers, one per entry, and whether reading it ends without an  *)
(* error.  Creations and renames are durable at once.                       *)
EXTENDS Integers, FiniteSets, FiniteSetsExt

CONSTANTS
    Directories,    \* the damaged databases: their logs, tables and manifests
    MaxCrashes,
    MaxFaults,      \* bound: failing file operations
    kMaxSequenceNumber

(* What a directory is: numbered files of entries. *)
ASSUME RepairAssumption ==
    /\ MaxCrashes \in Nat /\ MaxFaults \in Nat /\ kMaxSequenceNumber \in Nat
    /\ \A d \in Directories :
           /\ d = [logs |-> d.logs, tables |-> d.tables, manifests |-> d.manifests,
                   temp |-> d.temp, one |-> d.one, current |-> d.current]
           /\ d.manifests \subseteq Nat
           /\ \A files \in {d.logs, d.tables} :
                  /\ DOMAIN files \subseteq Nat /\ IsFiniteSet(DOMAIN files)
                  /\ \A n \in DOMAIN files :
                         files[n].readable \subseteq 0 .. kMaxSequenceNumber /\ files[n].good \in BOOLEAN

VARIABLES
    dir,            \* the directory: logs, tables, manifests, the temporary descriptor, current
    rep,            \* the Repairer: its step and vectors
    crashes,
    faults,
    intact,         \* history: the entries of logs and undamaged tables at the beginning
    torn,           \* history: those that could be read of damaged tables
    dropped         \* history: what is in lost/ only, a crash having met its table's rebuild

repairVars == <<dir, rep, crashes, faults, intact, torn, dropped>>

NoDescriptor == [listed |-> {}, last |-> 0, next |-> 0]
RepIdle == [pc |-> "idle", logs |-> {}, manifests |-> {}, numbers |-> {}, tables |-> {}, next |-> 1, log |-> 0, copy |-> 0,
            read |-> {}]
Entries(files) == UNION {files[n].readable : n \in DOMAIN files}
Put(files, n, f) == [i \in DOMAIN files \cup {n} |-> IF i = n THEN f ELSE files[i]]
Without(files, n) == [i \in DOMAIN files \ {n} |-> files[i]]
MaxOf(S) == IF S = {} THEN 0 ELSE Max(S)
Partial == [readable |-> {}, good |-> FALSE]

RepairIdle ==
    /\ dir = [logs |-> <<>>, tables |-> <<>>, manifests |-> {}, temp |-> NoDescriptor, one |-> NoDescriptor, current |-> 0]
    /\ rep = RepIdle /\ crashes = 0 /\ faults = 0 /\ intact = {} /\ torn = {} /\ dropped = {}

RepairInit ==
    /\ dir \in Directories
    /\ rep = RepIdle /\ crashes = 0 /\ faults = 0
    /\ intact = Entries(dir.logs) \cup UNION {dir.tables[n].readable : n \in {i \in DOMAIN dir.tables : dir.tables[i].good}}
    /\ torn = Entries(dir.tables) \ intact /\ dropped = {}

-----------------------------------------------------------------------------
(* One more than every number of a log or a table. *)
NextFileNumber == 1 + MaxOf(DOMAIN dir.logs \cup DOMAIN dir.tables)

(* FindFiles: the files' numbers, the manifests' apart. *)
FindFiles ==
    /\ rep.pc = "idle"
    /\ rep' = [RepIdle EXCEPT !.pc = "logs", !.logs = DOMAIN dir.logs, !.manifests = dir.manifests,
                              !.numbers = DOMAIN dir.tables,
                              !.next = NextFileNumber]
    /\ UNCHANGED <<dir, crashes, faults, intact, torn, dropped>>

(* ConvertLogToTable, as far as BuildTable: the readable records of a log,  *)
(* in the order of readdir, become a memtable and a new table file.         *)
ConvertLogToTable ==
    /\ rep.pc = "logs" /\ rep.logs # {}
    /\ \E l \in rep.logs :
           rep' = [rep EXCEPT !.pc = "build", !.logs = @ \ {l}, !.next = @ + 1, !.log = l, !.copy = rep.next]
    /\ dir' = [dir EXCEPT !.tables = Put(@, rep.next, Partial)]
    /\ UNCHANGED <<crashes, faults, intact, torn, dropped>>

(* The table is finished, synced and closed, or its file removed: empty, or *)
(* after an error, which is ignored.                                        *)
BuildTable ==
    /\ rep.pc = "build"
    /\ LET read == dir.logs[rep.log].readable
       IN  \/ /\ read # {}
              /\ dir' = [dir EXCEPT !.tables[rep.copy] = [readable |-> read, good |-> TRUE]]
              /\ rep' = [rep EXCEPT !.pc = "archive", !.numbers = @ \cup {rep.copy}]
              /\ UNCHANGED faults
           \/ /\ read = {} \/ faults < MaxFaults
              /\ dir' = [dir EXCEPT !.tables = Without(@, rep.copy)]
              /\ rep' = [rep EXCEPT !.pc = "archive"]
              /\ faults' = IF read = {} THEN faults ELSE faults + 1
    /\ UNCHANGED <<crashes, intact, torn, dropped>>

ArchiveLog ==
    /\ rep.pc = "archive"
    /\ dir' = [dir EXCEPT !.logs = Without(@, rep.log)]
    /\ rep' = [rep EXCEPT !.pc = "logs", !.log = 0, !.copy = 0]
    /\ UNCHANGED <<crashes, faults, intact, torn, dropped>>

-----------------------------------------------------------------------------
(* ExtractMetaData: a table that reads to its end is listed; the others are *)
(* copied, as far as they read, to a new file.                              *)
ScanTable ==
    /\ rep.pc = "logs" /\ rep.logs = {} /\ rep.numbers # {}
    /\ \E n \in rep.numbers :
           \/ /\ dir.tables[n].good
              /\ rep' = [rep EXCEPT !.numbers = @ \ {n},
                                    !.tables = @ \cup {[number |-> n, max |-> MaxOf(dir.tables[n].readable)]}]
              /\ UNCHANGED dir
           \/ /\ ~dir.tables[n].good
              /\ rep' = [rep EXCEPT !.pc = "copy", !.numbers = @ \ {n}, !.log = n, !.read = dir.tables[n].readable,
                                    !.copy = rep.next, !.next = @ + 1]
              /\ dir' = [dir EXCEPT !.tables = Put(@, rep.next, Partial)]
    /\ UNCHANGED <<crashes, faults, intact, torn, dropped>>

(* ScanTable archives a table whose size it cannot get; RepairTable returns *)
(* when it cannot create its copy, and the source stays, in no descriptor.  *)
SkipTable ==
    /\ rep.pc = "logs" /\ rep.logs = {} /\ rep.numbers # {}
    /\ faults < MaxFaults /\ faults' = faults + 1
    /\ \E n \in rep.numbers :
           \/ /\ rep' = [rep EXCEPT !.numbers = @ \ {n}]
              /\ dir' = [dir EXCEPT !.tables = Without(@, n)]
           \/ /\ ~ dir.tables[n].good
              /\ rep' = [rep EXCEPT !.numbers = @ \ {n}, !.next = @ + 1]
              /\ UNCHANGED dir
    /\ UNCHANGED <<crashes, intact, torn, dropped>>

(* RepairTable: the source is archived when its entries are in the builder. *)
ArchiveTable ==
    /\ rep.pc = "copy"
    /\ rep' = [rep EXCEPT !.pc = "finish"]
    /\ dir' = [dir EXCEPT !.tables = Without(@, rep.log)]
    /\ UNCHANGED <<crashes, faults, intact, torn, dropped>>

(* Finish, Close and the rename to the source's name, which is free by now; *)
(* a copy of nothing is abandoned where it is, one that fails removed.      *)
FinishCopy ==
    /\ rep.pc = "finish"
    /\ LET read == rep.read
           kept == [rep EXCEPT !.pc = "logs", !.log = 0, !.copy = 0, !.read = {}]
       IN  \/ /\ read # {}
              /\ dir' = [dir EXCEPT !.tables = Put(Without(@, rep.copy), rep.log, [readable |-> read, good |-> TRUE])]
              /\ rep' = [kept EXCEPT !.tables = @ \cup {[number |-> rep.log, max |-> MaxOf(read)]}]
              /\ UNCHANGED faults
           \/ read = {} /\ rep' = kept /\ UNCHANGED <<dir, faults>>
           \/ /\ faults < MaxFaults /\ faults' = faults + 1
              /\ dir' = [dir EXCEPT !.tables = Without(@, rep.copy)]
              /\ rep' = kept
    /\ UNCHANGED <<crashes, intact, torn, dropped>>

-----------------------------------------------------------------------------
(* WriteDescriptor: the temporary file, the manifests archived one by one,  *)
(* the rename to MANIFEST-1 and CURRENT.                                    *)
DescriptorOldest ==                     \* the comparison of sequence numbers turned round
    [listed |-> {t.number : t \in rep.tables}, next |-> rep.next,
     last |-> IF rep.tables = {} THEN 0 ELSE Min({t.max : t \in rep.tables})]
Descriptor ==
    [listed |-> {t.number : t \in rep.tables}, last |-> MaxOf({t.max : t \in rep.tables}), next |-> rep.next]

WriteDescriptor ==
    /\ rep.pc = "logs" /\ rep.logs = {} /\ rep.numbers = {}
    /\ \/ dir' = [dir EXCEPT !.temp = Descriptor] /\ rep' = [rep EXCEPT !.pc = "manifests"] /\ UNCHANGED faults
       \/ /\ faults < MaxFaults /\ faults' = faults + 1
          /\ rep' = [rep EXCEPT !.pc = "failed"] /\ dir' = [dir EXCEPT !.temp = NoDescriptor]
    /\ UNCHANGED <<crashes, intact, torn, dropped>>

ArchiveManifest ==
    /\ rep.pc = "manifests" /\ rep.manifests # {}
    /\ \E n \in rep.manifests :
           /\ rep' = [rep EXCEPT !.manifests = @ \ {n}]
           /\ dir' = [dir EXCEPT !.manifests = @ \ {n}]
    /\ UNCHANGED <<crashes, faults, intact, torn, dropped>>

InstallManifest ==
    /\ rep.pc = "manifests" /\ rep.manifests = {}
    /\ rep' = [rep EXCEPT !.pc = "current"]
    /\ dir' = [dir EXCEPT !.manifests = {1}, !.one = dir.temp, !.temp = NoDescriptor]
    /\ UNCHANGED <<crashes, faults, intact, torn, dropped>>

SetCurrentFile ==
    /\ rep.pc = "current"
    /\ rep' = [rep EXCEPT !.pc = "done"] /\ dir' = [dir EXCEPT !.current = 1]
    /\ UNCHANGED <<crashes, faults, intact, torn, dropped>>

(* The descriptor or CURRENT cannot be renamed; the manifests are gone.     *)
InstallFails ==
    /\ faults < MaxFaults /\ faults' = faults + 1
    /\ \/ rep.pc = "manifests" /\ rep.manifests = {} /\ dir' = [dir EXCEPT !.temp = NoDescriptor]
       \/ rep.pc = "current" /\ UNCHANGED dir
    /\ rep' = [rep EXCEPT !.pc = "failed"]
    /\ UNCHANGED <<crashes, intact, torn, dropped>>

(* The process dies.  Between ArchiveTable and FinishCopy what the source   *)
(* held is in lost/ and nowhere else, where no other repair looks for it.   *)
Crash ==
    /\ rep.pc \notin {"idle", "done"} /\ crashes < MaxCrashes
    /\ crashes' = crashes + 1
    /\ rep' = RepIdle
    /\ dropped' = IF rep.pc = "finish" THEN dropped \cup rep.read ELSE dropped
    /\ UNCHANGED <<dir, faults, intact, torn>>

RepairAgain ==
    /\ rep.pc \in {"done", "failed"} /\ crashes < MaxCrashes
    /\ crashes' = crashes + 1 /\ rep' = RepIdle
    /\ UNCHANGED <<dir, faults, intact, torn, dropped>>

RepairNext ==
    \/ FindFiles \/ ConvertLogToTable \/ BuildTable \/ ArchiveLog
    \/ ScanTable \/ SkipTable \/ ArchiveTable \/ FinishCopy
    \/ WriteDescriptor \/ ArchiveManifest \/ InstallManifest \/ SetCurrentFile \/ InstallFails
    \/ Crash \/ RepairAgain

RepairSpec == RepairInit /\ [][RepairNext]_repairVars

-----------------------------------------------------------------------------
Held == UNION {dir.tables[n].readable : n \in dir.one.listed \cap DOMAIN dir.tables}

(* A repair that returns without an error, at whatever point earlier ones   *)
(* were interrupted, lists tables that exist and read to their end, with a  *)
(* last sequence no entry exceeds and a next file number no file has.  If   *)
(* no file operation failed they hold every entry of the logs and of the    *)
(* undamaged tables the database had.  Of a damaged table they hold what    *)
(* could be read, unless a repair died between ArchiveFile of the table and *)
(* RenameFile of its copy: those entries the code drops.                    *)
RepairKeepsEntries ==
    rep.pc = "done" =>
        LET d == dir.one
        IN  /\ dir.current = 1 /\ d.listed \subseteq DOMAIN dir.tables
            /\ \A n \in d.listed : dir.tables[n].good
            /\ \A s \in Held : s <= d.last
            /\ \A n \in DOMAIN dir.tables : n < d.next
            /\ faults = 0 => intact \cup (torn \ dropped) \subseteq Held

(* RepairTable says that its copy is renamed over the source: whenever an   *)
(* earlier repair died, one that returns has what could be read of every    *)
(* table.  The source has already been archived, so it may be nowhere.      *)
ReadableIsKept == rep.pc = "done" /\ faults = 0 => torn \subseteq Held
=============================================================================
