------------------------------- MODULE DBImpl -------------------------------
(***************************************************************************)
(* The life of a database: db_impl.cc (writers, memtables, logs, opening,  *)
(* recovery, background thread, closing), the manifest half of             *)
(* version_set.cc, builder.cc and filename.cc.                             *)
(*                                                                         *)
(* A thread of Writers makes one call: a write with or without sync, or a  *)
(* CompactRange.  A batch is its thread's name; an entry is a batch and    *)
(* its sequence number.  A step is what a thread does between two moments  *)
(* at which the mutex is free, or one operation on a file.  Which tables a *)
(* compaction takes is the subject of module LSM: here one merges level 0. *)
(* The machine may stop: a file keeps at least what was synced.  Creating, *)
(* removing and renaming files is taken to be durable at once.             *)
(* A log is one block of its format, and what is kept of it is what        *)
(* log::Reader returns with paranoid_checks off, as the application opens  *)
(* its databases.                                                          *)
(***************************************************************************)
EXTENDS Integers, Sequences, SequencesExt, FiniteSetsExt

CONSTANTS
    Writers, Modes,
    write_buffer_size,          \* entries of a memtable that still has room
    max_group,                  \* writers in a group
    kL0_CompactionTrigger, kL0_StopWritesTrigger,
    MaxOpens, MaxFaults         \* bounds

ASSUME DBConstants ==
    /\ kL0_CompactionTrigger \in Nat \ {0} /\ kL0_StopWritesTrigger >= kL0_CompactionTrigger
    /\ max_group \in Nat \ {0} /\ write_buffer_size \in Nat
    /\ "none" \notin Writers /\ "closer" \notin Writers

VARIABLES
    mode,        \* what each thread calls, which crashes and faults there are
    disk,        \* CURRENT, manifests, logs, tables
    db,          \* the DBImpl object and its VersionSet
    opening,     \* where DB::Open stands
    bg,          \* the job of the background thread and the one around it
    queue,       \* writers_
    pc, forced,  \* where each thread stands; who has forced a memtable out
    group,       \* the write of the thread at the front
    sleeping,    \* the threads that wait on bg_cv_
    status,      \* what the calls returned
    promised,    \* entries whose writers were told they are stored
    torn,        \* logs with a record whose bytes are not all there
    opens, faults

vars == <<mode, disk, db, opening, bg, queue, pc, forced, group, sleeping, status, promised, torn, opens, faults>>

None == "none"
NoJob == [kind |-> "idle", at |-> "idle"]
NoGroup == [entries |-> {}, last |-> 0, ok |-> TRUE, sync_error |-> FALSE]
Closed == [state |-> "closed", mem |-> {}, imm |-> <<>>, logfile |-> 0, next |-> 0, seq |-> 0, log_number |-> 0,
           manifest |-> 0, version |-> [l0 |-> {}, l1 |-> {}], pending |-> {}, bg_error |-> FALSE,
           scheduled |-> FALSE, shutting_down |-> FALSE, manual |-> None]
NoOpening == [at |-> "idle"]
Closer == "closer"

(* One more operation on a file fails. *)
MayFail(fault) == fault \in mode.faults /\ faults < MaxFaults
Fail == faults' = faults + 1 /\ UNCHANGED torn
Fine == UNCHANGED <<faults, torn>>
(* It fails with a header or a part of the payload written: EmitPhysicalRecord *)
(* counts the whole record in block_offset_, and so whatever it writes next    *)
(* follows bytes that are missing.                                             *)
Tear(n) == faults' = faults + 1 /\ torn' = torn \cup {n}

-----------------------------------------------------------------------------
(* Files. *)
Put(f, n, x) == [m \in DOMAIN f \cup {n} |-> IF m = n THEN x ELSE f[m]]
Without(f, ns) == [n \in DOMAIN f \ ns |-> f[n]]

AppendLog(d, n, rec) == [d EXCEPT !.logs[n].recs = Append(@, rec)]
SyncFile(file) == [file EXCEPT !.synced = Len(file.recs)]
NewLogFile == [recs |-> <<>>, synced |-> 0]

(* VersionEdit; a snapshot of a version has no numbers. *)
Edit(del, add0, add1, log, next, seq) ==
    [del |-> del, add0 |-> add0, add1 |-> add1, log |-> log, next |-> next, seq |-> seq]
Snapshot(v) == Edit({}, v.l0, v.l1, -1, -1, -1)
ApplyEdit(v, e) == [l0 |-> (v.l0 \ e.del) \cup e.add0, l1 |-> (v.l1 \ e.del) \cup e.add1]
(* VersionSet::Builder: of all edits, the files added and not deleted since. *)
Kept(recs, field) ==
    UNION {{n \in recs[i][field] : \A j \in i + 1 .. Len(recs) : n \notin recs[j].del} : i \in DOMAIN recs}
ApplyAll(recs) == [l0 |-> Kept(recs, "add0"), l1 |-> Kept(recs, "add1")]
LastNumber(recs, field) ==
    LET with == {i \in DOMAIN recs : recs[i][field] # -1} IN IF with = {} THEN -1 ELSE recs[Max(with)][field]

Tables(v) == v.l0 \cup v.l1
EntriesOf(d, ns) == UNION {d.tables[n].data : n \in ns}

(* What a machine may leave: every file cut anywhere behind its last sync. *)
Cuts(files) ==
    {[n \in DOMAIN files |-> [recs |-> SubSeq(files[n].recs, 1, c[n]), synced |-> c[n]]] :
        c \in {c \in [DOMAIN files -> 0 .. Max({0} \cup {Len(files[n].recs) : n \in DOMAIN files})] :
                  \A n \in DOMAIN files : files[n].synced <= c[n] /\ c[n] <= Len(files[n].recs)}}
WholeTables(tables) ==
    [n \in DOMAIN tables |-> IF tables[n].synced THEN tables[n] ELSE [data |-> {}, synced |-> TRUE]]
AfterMachineCrash(d) ==
    {[d EXCEPT !.logs = c[1], !.manifests = c[2], !.tables = WholeTables(@)] : c \in Cuts(d.logs) \X Cuts(d.manifests)}

-----------------------------------------------------------------------------
(* MaybeScheduleCompaction. *)
NeedsCompaction(d) == Cardinality(d.version.l0) >= kL0_CompactionTrigger
MaybeScheduleCompaction(d) ==
    [d EXCEPT !.scheduled =
        @ \/ (~ d.shutting_down /\ ~ d.bg_error /\ (d.imm # <<>> \/ d.manual # None \/ NeedsCompaction(d)))]

(* DeleteObsoleteFiles: nothing after an error, whose edit may be on disk. *)
DeleteObsoleteFilesAnyway(d, f) ==
    [f EXCEPT !.logs = Without(@, {n \in DOMAIN @ : n < d.log_number}),
              !.manifests = Without(@, {n \in DOMAIN @ : n < d.manifest}),
              !.tables = Without(@, {n \in DOMAIN @ : n \notin Tables(d.version) \cup d.pending})]
DeleteObsoleteFiles(d, f) ==
    IF d.bg_error THEN f
    ELSE [f EXCEPT !.logs = Without(@, {n \in DOMAIN @ : n < d.log_number}),
                   !.manifests = Without(@, {n \in DOMAIN @ : n < d.manifest}),
                   !.tables = Without(@, {n \in DOMAIN @ : n \notin Tables(d.version) \cup d.pending})]

-----------------------------------------------------------------------------
(* DB::Open.  The object is nobody else's until it returns. *)
Init ==
    /\ mode \in Modes
    /\ disk = [current |-> 0, manifests |-> << >>, logs |-> << >>, tables |-> << >>]
    /\ db = Closed /\ opening = NoOpening /\ bg = [job |-> NoJob, outer |-> NoJob]
    /\ queue = <<>> /\ pc = [w \in Writers |-> "idle"] /\ forced = {}
    /\ group = NoGroup /\ sleeping = {} /\ status = [w \in Writers |-> None]
    /\ promised = {} /\ torn = {} /\ opens = 0 /\ faults = 0

Idle == UNCHANGED <<mode, bg, queue, pc, forced, group, sleeping, status, promised>>
At(step) == db.state = "opening" /\ opening.at = step
(* Open fails: the object is deleted, the files stay as they are. *)
OpenFails == db' = Closed /\ opening' = NoOpening

Open ==
    /\ db.state = "closed" /\ opens < MaxOpens
    /\ opens' = opens + 1
    /\ db' = [Closed EXCEPT !.state = "opening", !.next = 2]
    /\ opening' = [at |-> IF disk.current = 0 THEN "new_manifest" ELSE "load"]
    /\ Idle /\ Fine /\ UNCHANGED disk

(* NewDB: the first manifest is closed and not synced. *)
NewManifest ==
    /\ At("new_manifest")
    /\ \/ /\ disk' = [disk EXCEPT !.manifests = Put(@, 1, [recs |-> <<Edit({}, {}, {}, 0, 2, 0)>>, synced |-> 0])]
          /\ opening' = [at |-> "new_current"]
          /\ Fine /\ UNCHANGED db
       \/ /\ MayFail("open") /\ OpenFails /\ Fail /\ UNCHANGED disk
    /\ Idle /\ UNCHANGED opens
NewCurrent ==
    /\ At("new_current")
    /\ \/ /\ disk' = [disk EXCEPT !.current = 1] /\ opening' = [at |-> "load"]
          /\ Fine /\ UNCHANGED db
       \/ /\ MayFail("open") /\ OpenFails /\ Fail /\ UNCHANGED disk
    /\ Idle /\ UNCHANGED opens

(* VersionSet::Recover, and the list of logs. *)
RecoverVersions ==
    LET recs == disk.manifests[disk.current].recs
        v == ApplyAll(recs)
        next == LastNumber(recs, "next")
        log == LastNumber(recs, "log")
        sound == next # -1 /\ log # -1 /\ Tables(v) \subseteq DOMAIN disk.tables
    IN /\ At("load")
       /\ IF sound
          THEN /\ db' = [db EXCEPT !.version = v, !.manifest = next, !.next = next + 1, !.log_number = log,
                                   !.seq = LastNumber(recs, "seq")]
               /\ opening' = [at |-> "logs", logs |-> {n \in DOMAIN disk.logs : n >= log},
                              pos |-> 0, adds |-> {}, max_sequence |-> 0, failed |-> FALSE]
          ELSE OpenFails
       /\ Idle /\ Fine /\ UNCHANGED <<disk, opens>>

(* RecoverLogFile, one memtable of it: records are taken until they exceed  *)
(* the buffer.  A failure ends this log; the next one overwrites it.        *)
MarkFileNumberUsed(next, number) == Max({next, number + 1})
ReadUpTo(recs, from) ==
    LET full == {i \in from + 1 .. Len(recs) : Cardinality(UNION {recs[j] : j \in from + 1 .. i}) > write_buffer_size}
    IN Min(full \cup {Len(recs)})
RecoverLogFile ==
    LET n == Min(opening.logs)
        recs == disk.logs[n].recs
        upto == ReadUpTo(recs, opening.pos)
        data == UNION {recs[i] : i \in opening.pos + 1 .. upto}
        last == Max({opening.max_sequence} \cup {e.s : e \in data})
        NextLog(o) == [o EXCEPT !.logs = @ \ {n}, !.pos = 0]
    IN /\ At("logs") /\ opening.logs # {}
       /\ \/ /\ data = {}
             /\ opening' = [NextLog(opening) EXCEPT !.failed = FALSE]
             /\ db' = [db EXCEPT !.next = MarkFileNumberUsed(@, n)]
             /\ Fine /\ UNCHANGED disk
          \/ /\ data # {}
             /\ disk' = [disk EXCEPT !.tables = Put(@, db.next, [data |-> data, synced |-> TRUE])]
             /\ LET o == [opening EXCEPT !.adds = @ \cup {db.next}, !.max_sequence = last, !.pos = upto, !.failed = FALSE]
                IN opening' = IF upto = Len(recs) THEN NextLog(o) ELSE o
             /\ db' = [db EXCEPT !.next = IF upto = Len(recs) THEN MarkFileNumberUsed(@ + 1, n) ELSE @ + 1]
             /\ Fine
          \/ /\ data # {} /\ MayFail(IF opening.logs # {n} THEN "recover" ELSE "recover_last")
             /\ opening' = [NextLog(opening) EXCEPT !.failed = TRUE, !.max_sequence = last]
             /\ db' = [db EXCEPT !.next = MarkFileNumberUsed(@ + 1, n)]
             /\ Fail /\ UNCHANGED disk
       /\ Idle /\ UNCHANGED opens

RecoveredSequenceOld(d, o) == d.seq             \* the one the manifest recorded
RecoveredSequence(d, o) == Max({d.seq, o.max_sequence})

CreateFirstLog ==
    /\ At("logs") /\ opening.logs = {}
    /\ \/ /\ ~ opening.failed
          /\ db' = [db EXCEPT !.seq = RecoveredSequence(db, opening), !.logfile = db.next, !.next = @ + 1]
          /\ disk' = [disk EXCEPT !.logs = Put(@, db.next, NewLogFile)]
          /\ opening' = [at |-> "manifest", adds |-> opening.adds]
          /\ Fine
       \/ /\ opening.failed /\ OpenFails /\ Fine /\ UNCHANGED disk
       \/ /\ ~ opening.failed /\ MayFail("open") /\ OpenFails /\ Fail /\ UNCHANGED disk
    /\ Idle /\ UNCHANGED opens

(* LogAndApply with a new manifest: snapshot, edit, sync, then CURRENT. *)
FirstEdit == Edit({}, opening.adds, {}, db.logfile, db.next, db.seq)
WriteNewManifest ==
    /\ At("manifest")
    /\ \/ /\ disk' = [disk EXCEPT !.manifests = Put(@, db.manifest, [recs |-> <<Snapshot(db.version), FirstEdit>>, synced |-> 2])]
          /\ opening' = [opening EXCEPT !.at = "current"]
          /\ Fine /\ UNCHANGED db
       \/ /\ MayFail("open") /\ OpenFails /\ Fail /\ UNCHANGED disk
    /\ Idle /\ UNCHANGED opens
SetCurrentFile ==
    /\ At("current")
    /\ \/ /\ disk' = [disk EXCEPT !.current = db.manifest]
          /\ opening' = [opening EXCEPT !.at = "finish"]
          /\ Fine /\ UNCHANGED db
       \/ /\ MayFail("open") /\ OpenFails /\ Fail
          /\ disk' = [disk EXCEPT !.manifests = Without(@, {db.manifest})]
    /\ Idle /\ UNCHANGED opens
FinishOpen ==
    LET d == [db EXCEPT !.state = "open", !.version = ApplyEdit(@, FirstEdit), !.log_number = db.logfile]
    IN /\ At("finish")
       /\ db' = MaybeScheduleCompaction(d)
       /\ disk' = DeleteObsoleteFiles(d, disk)
       /\ opening' = NoOpening
       /\ Idle /\ Fine /\ UNCHANGED opens

-----------------------------------------------------------------------------
(* DBImpl::Write.  A thread not at the front waits for its own signal. *)
Sync(w) == mode.calls[w] = "sync"
HasBatch(w) == mode.calls[w] # "compact"
ForceRoom(w) == ~ HasBatch(w) /\ w \notin forced
Awake(w, at) == db.state = "open" /\ pc[w] = at /\ w \notin sleeping

CallWrite(w) ==
    /\ db.state = "open" /\ pc[w] = "idle"
    /\ queue' = Append(queue, w)
    /\ pc' = [pc EXCEPT ![w] = IF queue = <<>> THEN "front" ELSE "queued"]
    /\ Fine /\ UNCHANGED <<mode, disk, db, opening, bg, forced, group, sleeping, status, promised, opens>>

(* The first i threads of the queue return; the next one is signalled.     *)
(* TEST_CompactMemTable goes on to wait for the memtable.                  *)
SignalHeadNever(p, i) == p
SignalHead(p, i) == IF i < Len(queue) THEN [p EXCEPT ![queue[i + 1]] = "front"] ELSE p
Return(i, ok) ==
    LET who == {queue[j] : j \in 1 .. i}
        Left(w) == IF HasBatch(w) THEN "done" ELSE IF ok THEN "flushing" ELSE "manual"
    IN /\ queue' = SubSeq(queue, i + 1, Len(queue))
       /\ pc' = SignalHead([w \in Writers |-> IF w \in who THEN Left(w) ELSE pc[w]], i)
       /\ status' = [w \in Writers |-> IF w \in who /\ HasBatch(w) THEN (IF ok THEN "ok" ELSE "error") ELSE status[w]]

(* MakeRoomForWrite.  The delay of one millisecond is a pause like others. *)
HasRoom(w) == ~ ForceRoom(w) /\ Cardinality(db.mem) <= write_buffer_size
MustWait == db.imm # <<>> \/ Cardinality(db.version.l0) >= kL0_StopWritesTrigger

RefuseWrite(w) ==
    /\ Awake(w, "front") /\ db.bg_error
    /\ Return(1, FALSE)
    /\ Fine /\ UNCHANGED <<mode, disk, db, opening, bg, forced, group, sleeping, promised, opens>>
WaitForRoom(w) ==
    /\ Awake(w, "front") /\ ~ db.bg_error /\ ~ HasRoom(w) /\ MustWait
    /\ sleeping' = sleeping \cup {w}
    /\ Fine /\ UNCHANGED <<mode, disk, db, opening, bg, queue, pc, forced, group, status, promised, opens>>
SwitchMemTable(w) ==
    /\ Awake(w, "front") /\ ~ db.bg_error /\ ~ HasRoom(w) /\ ~ MustWait
    /\ \/ /\ db' = MaybeScheduleCompaction([db EXCEPT !.imm = <<db.mem>>, !.mem = {}, !.logfile = db.next, !.next = @ + 1])
          /\ disk' = [disk EXCEPT !.logs = Put(@, db.next, NewLogFile)]
          /\ forced' = forced \cup {w}
          /\ Fine /\ UNCHANGED <<queue, pc, status>>
       \/ /\ MayFail("new_log") /\ Return(1, FALSE) /\ Fail
          /\ UNCHANGED <<db, disk, forced>>
    /\ UNCHANGED <<mode, opening, bg, group, sleeping, promised, opens>>
ReturnFromFlush(w) ==
    /\ Awake(w, "front") /\ ~ db.bg_error /\ HasRoom(w) /\ ~ HasBatch(w)
    /\ Return(1, TRUE)
    /\ Fine /\ UNCHANGED <<mode, disk, db, opening, bg, forced, group, sleeping, promised, opens>>

(* BuildBatchGroup: a write without sync takes none with sync along. *)
BuildBatchGroupAny(q) ==                         \* the leader's sync is not looked at
    Max({i \in DOMAIN q : Cardinality({j \in 1 .. i : HasBatch(q[j])}) <= max_group})
BuildBatchGroup(q) ==
    Max({i \in DOMAIN q : /\ \A j \in 1 .. i : Sync(q[j]) => Sync(q[1])
                          /\ Cardinality({j \in 1 .. i : HasBatch(q[j])}) <= max_group})
StartGroup(w) ==
    LET last == BuildBatchGroup(queue)
        batches(i) == {j \in 1 .. i : HasBatch(queue[j])}
    IN /\ Awake(w, "front") /\ ~ db.bg_error /\ HasRoom(w) /\ HasBatch(w)
       /\ group' = [entries |-> {[w |-> queue[i], s |-> db.seq + Cardinality(batches(i))] : i \in batches(last)},
                    last |-> last, ok |-> TRUE, sync_error |-> FALSE]
       /\ pc' = [pc EXCEPT ![w] = "append"]
       /\ Fine /\ UNCHANGED <<mode, disk, db, opening, bg, queue, forced, sleeping, status, promised, opens>>

(* The mutex is free while the record is written.  Behind a torn record the *)
(* reader finds a wrong checksum and drops the rest of the block, so this   *)
(* record too.  A failed append is no bg_error_: the next write goes on.    *)
RecordWritten == IF db.logfile \in torn THEN disk ELSE AppendLog(disk, db.logfile, group.entries)
AddRecord(w) ==
    /\ db.state = "open" /\ pc[w] = "append"
    /\ \/ /\ disk' = RecordWritten
          /\ pc' = [pc EXCEPT ![w] = IF Sync(w) THEN "sync" ELSE "apply"]
          /\ Fine /\ UNCHANGED group
       \/ /\ \/ MayFail("append") /\ Fail /\ disk' \in {disk, RecordWritten}   \* nothing of it, or all
             \/ MayFail("torn") /\ Tear(db.logfile) /\ UNCHANGED disk
          /\ group' = [group EXCEPT !.ok = FALSE]
          /\ pc' = [pc EXCEPT ![w] = "apply"]
    /\ UNCHANGED <<mode, db, opening, bg, queue, forced, sleeping, status, promised, opens>>
SyncLog(w) ==
    /\ db.state = "open" /\ pc[w] = "sync"
    /\ \/ /\ disk' = [disk EXCEPT !.logs[db.logfile] = SyncFile(@)]
          /\ Fine /\ UNCHANGED group
       \/ /\ MayFail("log_sync") /\ Fail
          /\ group' = [group EXCEPT !.ok = FALSE, !.sync_error = TRUE] /\ UNCHANGED disk
    /\ pc' = [pc EXCEPT ![w] = "apply"]
    /\ UNCHANGED <<mode, db, opening, bg, queue, forced, sleeping, status, promised, opens>>

(* The sequence moves on whatever became of the record. *)
SequenceAfterOk(s, g) == IF g.ok THEN s + Cardinality(g.entries) ELSE s
SequenceAfter(s, g) == s + Cardinality(g.entries)
ApplyGroup(w) ==
    /\ db.state = "open" /\ pc[w] = "apply"
    /\ db' = [db EXCEPT !.mem = IF group.ok THEN @ \cup group.entries ELSE @,
                        !.seq = SequenceAfter(@, group),
                        !.bg_error = @ \/ group.sync_error]
    /\ sleeping' = IF group.sync_error /\ ~ db.bg_error THEN {} ELSE sleeping
    /\ promised' = IF group.ok THEN promised \cup group.entries ELSE promised
    /\ Return(group.last, group.ok)
    /\ group' = NoGroup
    /\ Fine /\ UNCHANGED <<mode, disk, opening, bg, forced, opens>>

(* CompactRange: TEST_CompactMemTable waits for imm_, then                  *)
(* TEST_CompactRange hands its request over until it is done.               *)
FlushWait(w) ==
    /\ Awake(w, "flushing")
    /\ \/ /\ db.imm # <<>> /\ ~ db.bg_error
          /\ sleeping' = sleeping \cup {w} /\ UNCHANGED pc
       \/ /\ db.imm = <<>> \/ db.bg_error
          /\ pc' = [pc EXCEPT ![w] = "manual"] /\ UNCHANGED sleeping
    /\ Fine /\ UNCHANGED <<mode, disk, db, opening, bg, queue, forced, group, status, promised, opens>>
ManualWait(w) ==
    /\ Awake(w, "manual") /\ ~ db.bg_error
    /\ db' = IF db.manual = None THEN MaybeScheduleCompaction([db EXCEPT !.manual = w]) ELSE db
    /\ sleeping' = sleeping \cup {w}
    /\ Fine /\ UNCHANGED <<mode, disk, opening, bg, queue, pc, forced, group, status, promised, opens>>
ManualReturn(w) ==
    /\ Awake(w, "manual_done") \/ (Awake(w, "manual") /\ db.bg_error)
    /\ db' = [db EXCEPT !.manual = IF @ = w THEN None ELSE @]
    /\ pc' = [pc EXCEPT ![w] = "done"]
    /\ status' = [status EXCEPT ![w] = "ok"]
    /\ Fine /\ UNCHANGED <<mode, disk, opening, bg, queue, forced, group, sleeping, promised, opens>>

-----------------------------------------------------------------------------
(* BackgroundCall. *)
ImmEntries == UNION ToSet(db.imm)
NewJob(kind, data, inputs) ==
    [kind |-> kind, at |-> "build", number |-> db.next, data |-> data, inputs |-> inputs,
     manual |-> kind = "merge" /\ db.manual # None, edit |-> Edit({}, {}, {}, -1, -1, -1)]
Alive == db.state \in {"open", "closing"}
Allocate(job) ==
    /\ bg' = [job |-> job, outer |-> bg.job]
    /\ db' = [db EXCEPT !.next = @ + 1, !.pending = @ \cup {job.number}]

(* The end of BackgroundCall: schedules again, wakes everyone. *)
SignalAllNot == sleeping
SignalAll == {}
EndCall(d) ==
    /\ db' = MaybeScheduleCompaction([d EXCEPT !.scheduled = FALSE])
    /\ bg' = [job |-> NoJob, outer |-> NoJob]
    /\ sleeping' = SignalAll

StartFlush ==
    /\ Alive /\ db.imm # <<>>
    /\ \/ /\ db.scheduled /\ bg.job = NoJob /\ ~ db.shutting_down /\ ~ db.bg_error
       \/ bg.job.kind = "merge" /\ bg.job.at = "build" /\ ~ db.shutting_down     \* inside DoCompactionWork
    /\ Allocate(NewJob("flush", ImmEntries, {}))
    /\ Fine /\ UNCHANGED <<mode, disk, opening, queue, pc, forced, group, sleeping, status, promised, opens>>
StartMerge ==
    /\ Alive /\ db.scheduled /\ bg.job = NoJob /\ ~ db.shutting_down /\ ~ db.bg_error /\ db.imm = <<>>
    /\ db.version.l0 # {} /\ (db.manual # None \/ NeedsCompaction(db))
    /\ Allocate(NewJob("merge", EntriesOf(disk, db.version.l0), db.version.l0))
    /\ Fine /\ UNCHANGED <<mode, disk, opening, queue, pc, forced, group, sleeping, status, promised, opens>>
NothingToDo ==
    /\ Alive /\ db.scheduled /\ bg.job = NoJob
    /\ \/ /\ db.shutting_down \/ db.bg_error
          /\ EndCall(db) /\ UNCHANGED pc
       \/ /\ ~ db.shutting_down /\ ~ db.bg_error /\ db.imm = <<>> /\ db.manual = None /\ ~ NeedsCompaction(db)
          /\ EndCall(db) /\ UNCHANGED pc
       \/ /\ ~ db.shutting_down /\ ~ db.bg_error /\ db.imm = <<>> /\ db.manual # None /\ db.version.l0 = {}
          /\ EndCall([db EXCEPT !.manual = None])
          /\ pc' = [pc EXCEPT ![db.manual] = "manual_done"]
    /\ Fine /\ UNCHANGED <<mode, disk, opening, queue, forced, group, status, promised, opens>>

(* The job is over.  A flush inside a compaction returns to it.  A request  *)
(* by hand is taken off; if it was withdrawn meanwhile there is none.       *)
EndJob(d, failed) ==
    LET job == bg.job
        free == IF job.kind = "merge" THEN [d EXCEPT !.pending = @ \ {job.number}] ELSE d
        error == IF failed THEN [free EXCEPT !.bg_error = TRUE] ELSE free
    IN IF bg.outer # NoJob
       THEN bg' = [job |-> bg.outer, outer |-> NoJob] /\ db' = error /\ sleeping' = {} /\ UNCHANGED pc
       ELSE IF job.manual /\ error.manual = None
       THEN db' = [error EXCEPT !.state = "undefined"] /\ bg' = bg /\ UNCHANGED <<pc, sleeping>>
       ELSE /\ EndCall([error EXCEPT !.manual = IF job.manual THEN None ELSE @])
            /\ pc' = IF job.manual /\ failed THEN [pc EXCEPT ![error.manual] = "manual_done"] ELSE pc

(* WriteLevel0Table or DoCompactionWork: the table is written and synced,   *)
(* or removed.  No table comes of an empty memtable.                        *)
BuildTable ==
    /\ Alive /\ bg.job.at = "build"
    /\ \/ /\ bg' = [bg EXCEPT !.job.at = "log"]
          /\ disk' = IF bg.job.data = {} THEN disk
                     ELSE [disk EXCEPT !.tables = Put(@, bg.job.number, [data |-> bg.job.data, synced |-> TRUE])]
          /\ Fine
       \/ /\ MayFail("table") /\ Fail
          /\ bg' = [bg EXCEPT !.job.at = "failed"] /\ UNCHANGED disk
    /\ UNCHANGED <<mode, db, opening, queue, pc, forced, group, sleeping, status, promised, opens>>
JobFailed ==
    /\ Alive
    /\ bg.job.at = "failed" \/ (bg.job.at = "log" /\ db.shutting_down)
    /\ EndJob([db EXCEPT !.pending = @ \ {bg.job.number}], TRUE)
    /\ Fine /\ UNCHANGED <<mode, disk, opening, queue, forced, group, status, promised, opens>>

(* LogAndApply: the record is appended, then synced, with the mutex free.   *)
(* The code looks at shutting_down_ once more before it takes the mutex for *)
(* this; here the look and the record are one step, so a destructor that    *)
(* begins between them is seen a moment earlier.                            *)
JobEdit ==
    LET job == bg.job
        new == IF job.data = {} THEN {} ELSE {job.number}
    IN IF job.kind = "flush" THEN Edit({}, new, {}, db.logfile, db.next, db.seq)
       ELSE Edit(job.inputs, {}, new, db.log_number, db.next, db.seq)
LogEdit ==
    /\ Alive /\ bg.job.at = "log" /\ ~ db.shutting_down
    /\ db' = IF bg.job.kind = "flush" THEN [db EXCEPT !.pending = @ \ {bg.job.number}] ELSE db
    /\ \/ /\ disk' = [disk EXCEPT !.manifests[db.manifest].recs = Append(@, JobEdit)]
          /\ bg' = [bg EXCEPT !.job.at = "install", !.job.edit = JobEdit]
          /\ Fine
       \/ /\ MayFail("manifest") /\ Fail
          /\ bg' = [bg EXCEPT !.job.at = "failed"] /\ UNCHANGED disk
    /\ UNCHANGED <<mode, opening, queue, pc, forced, group, sleeping, status, promised, opens>>

SyncManifestNot(d) == d                               \* Sync forgotten
SyncManifest(d) == [d EXCEPT !.manifests[db.manifest] = SyncFile(@)]
InstallVersion ==
    LET edit == bg.job.edit
        installed == [db EXCEPT !.version = ApplyEdit(@, edit), !.log_number = edit.log,
                                !.imm = IF bg.job.kind = "flush" THEN <<>> ELSE @,
                                !.pending = @ \ {bg.job.number}]
    IN /\ Alive /\ bg.job.at = "install"
       /\ \/ /\ disk' = DeleteObsoleteFiles(installed, SyncManifest(disk))
             /\ EndJob(installed, FALSE) /\ Fine
          \/ /\ MayFail("manifest") /\ Fail
             /\ disk' = IF bg.job.kind = "merge" THEN DeleteObsoleteFiles([installed EXCEPT !.bg_error = TRUE, !.version = db.version], disk)
                        ELSE disk
             /\ EndJob([db EXCEPT !.pending = @ \ {bg.job.number}], TRUE)
       /\ UNCHANGED <<mode, opening, queue, forced, group, status, promised, opens>>

-----------------------------------------------------------------------------
(* ~DBImpl, once nobody is inside. *)
BeginClose ==
    /\ db.state = "open" /\ \A w \in Writers : pc[w] \in {"idle", "done", "dead"}
    /\ db' = [db EXCEPT !.state = "closing", !.shutting_down = TRUE]
    /\ Fine /\ UNCHANGED <<mode, disk, opening, bg, queue, pc, forced, group, sleeping, status, promised, opens>>
CloseWait ==
    /\ db.state = "closing" /\ db.scheduled /\ Closer \notin sleeping
    /\ sleeping' = {Closer}
    /\ Fine /\ UNCHANGED <<mode, disk, db, opening, bg, queue, pc, forced, group, status, promised, opens>>
CloseDone ==
    /\ db.state = "closing" /\ ~ db.scheduled /\ Closer \notin sleeping
    /\ db' = Closed
    /\ Fine /\ UNCHANGED <<mode, disk, opening, bg, queue, pc, forced, group, sleeping, status, promised, opens>>

(* The process dies, alone or with the machine. *)
Crash(kind) ==
    /\ kind \in mode.crashes /\ opens < MaxOpens
    /\ db.state # "closed" \/ kind = "machine"
    /\ IF kind = "machine" THEN disk' \in AfterMachineCrash(disk) ELSE UNCHANGED disk
    /\ promised' = IF kind = "machine" THEN {e \in promised : Sync(e.w)} ELSE promised
    /\ db' = Closed /\ opening' = NoOpening /\ bg' = [job |-> NoJob, outer |-> NoJob]
    /\ queue' = <<>> /\ group' = NoGroup /\ sleeping' = {}
    /\ pc' = [w \in Writers |-> IF pc[w] \in {"idle", "done"} THEN pc[w] ELSE "dead"]
    /\ Fine /\ UNCHANGED <<mode, forced, status, opens>>

Opening == Open \/ NewManifest \/ NewCurrent \/ RecoverVersions \/ RecoverLogFile \/ CreateFirstLog
           \/ WriteNewManifest \/ SetCurrentFile \/ FinishOpen
Writing(w) == RefuseWrite(w) \/ WaitForRoom(w) \/ SwitchMemTable(w) \/ ReturnFromFlush(w) \/ StartGroup(w)
              \/ AddRecord(w) \/ SyncLog(w) \/ ApplyGroup(w) \/ FlushWait(w) \/ ManualWait(w) \/ ManualReturn(w)
Background == StartFlush \/ StartMerge \/ NothingToDo \/ BuildTable \/ JobFailed \/ LogEdit \/ InstallVersion
Closing == CloseWait \/ CloseDone

Next ==
    \/ Opening \/ Background \/ BeginClose \/ Closing
    \/ \E w \in Writers : CallWrite(w) \/ Writing(w)
    \/ \E kind \in {"process", "machine"} : Crash(kind)

(* Threads and the background thread are scheduled; nobody has to call,     *)
(* open, close or crash.                                                    *)
Fairness == WF_vars(Background) /\ WF_vars(Closing) /\ \A w \in Writers : WF_vars(Writing(w))
Spec == Init /\ [][Next]_vars /\ Fairness

-----------------------------------------------------------------------------
(***************************************************************************)
(* Properties.                                                             *)
(***************************************************************************)

(* What opening these files would find. *)
Contents(d) ==
    LET recs == IF d.current = 0 THEN <<>> ELSE d.manifests[d.current].recs
        v == ApplyAll(recs)
        log == LastNumber(recs, "log")
    IN IF log = -1 \/ ~ Tables(v) \subseteq DOMAIN d.tables THEN {}
       ELSE EntriesOf(d, Tables(v)) \cup UNION {UNION ToSet(d.logs[n].recs) : n \in {n \in DOMAIN d.logs : n >= log}}

(* The two steps at which the code gives acknowledged entries up.  Recover   *)
(* goes on to the next log after one that could not be made into a table,    *)
(* and its success takes the place of the failure; a record is acknowledged  *)
(* that was written behind a torn one.                                       *)
FailureForgotten == RecoverLogFile /\ opening.failed /\ ~ opening'.failed
WrittenBehindTorn == \E w \in Writers : AddRecord(w) /\ db.logfile \in torn /\ UNCHANGED group
GivesUp == FailureForgotten \/ WrittenBehindTorn

(* Whenever the process dies, in a flush, a compaction, an opening or after  *)
(* an earlier failure, the files hold every write that was acknowledged;     *)
(* when the machine dies they hold those that asked for sync.  It holds      *)
(* until a step of GivesUp, and the code takes such steps.                   *)
AckedSurviveCrash ==
    /\ promised \subseteq Contents(disk)
    /\ \A d \in AfterMachineCrash(disk) : {e \in promised : Sync(e.w)} \subseteq Contents(d)

(* In an open database every acknowledged write is in mem_, imm_ or a table  *)
(* of the current version, at a sequence number that reads can see; after a  *)
(* step of GivesUp and another opening it need not be.                       *)
AckedAreVisible ==
    db.state = "open" =>
        \A e \in promised : e \in db.mem \cup ImmEntries \cup EntriesOf(disk, Tables(db.version)) /\ e.s <= db.seq

(* No two batches ever get one sequence number, even when one of them failed *)
(* half way and shows up after a recovery.                                   *)
AllEntries == db.mem \cup ImmEntries \cup UNION {UNION ToSet(disk.logs[n].recs) : n \in DOMAIN disk.logs}
SequencesUnique == \A a, b \in AllEntries \cup promised : a.s = b.s => a.w = b.w

(* A request by hand that the background thread works on is still there when *)
(* it is finished: the pointer it follows then is not null.                  *)
ManualRequestStays == db.state # "undefined"

(* What a machine crash loses is the end of what was written, whatever was   *)
(* written after it is lost too.                                             *)
LossIsATail ==
    \A d \in AfterMachineCrash(disk), a, b \in promised : a.s < b.s /\ b \in Contents(d) => a \in Contents(d)

(* Every call returns unless the process dies: no signal is lost between the *)
(* queue of writers, the background thread and the destructor.               *)
InCall(w) == pc[w] \notin {"idle", "done", "dead"}
CallsReturn == \A w \in Writers : InCall(w) ~> ~ InCall(w)
CloseReturns == db.state = "closing" ~> db.state # "closing"

(* Every call of the database returns, the one that closes it included.      *)
EveryCallReturns == CallsReturn /\ CloseReturns
=============================================================================
