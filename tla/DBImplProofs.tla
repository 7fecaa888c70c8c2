---------------------------- MODULE DBImplProofs ----------------------------
(***************************************************************************)
(* Proofs about the database: what was acknowledged survives crashes and   *)
(* faults and can be read, and sequence numbers are unique, for any number *)
(* of writers, opens, crashes and faults and every size of the memtable    *)
(* and of the groups.  They are about behaviours without a step of GivesUp *)
(* (module DBImpl), the two steps at which the code gives entries up:      *)
(* every other failure and crash is among them, failing recoveries and     *)
(* torn records that no such step follows included.                        *)
(***************************************************************************)
EXTENDS DBImpl, NumberFacts, SequenceTheorems

-----------------------------------------------------------------------------
(***************************************************************************)
(* The shapes of the state.  The parts of the invariant take the disk d,   *)
(* the object b, the promises p and the writers y that ask for sync as     *)
(* parameters, so that they can be stated of a state and of the next.      *)
(***************************************************************************)
Entries == [w : Writers, s : Nat]
Records == {S \in SUBSET Entries : IsFiniteSet(S)}
Edits == [del : SUBSET Nat, add0 : SUBSET Nat, add1 : SUBSET Nat,
          log : Nat \cup {-1}, next : Nat \cup {-1}, seq : Nat \cup {-1}]
LogFiles == [recs : Seq(Records), synced : Nat]
ManifestFiles == [recs : Seq(Edits), synced : Nat]
TableFiles == [data : Records, synced : {TRUE}]

LogsTyped(d) ==
    /\ DOMAIN d.logs \subseteq Nat
    /\ \A n \in DOMAIN d.logs : d.logs[n] \in LogFiles /\ d.logs[n].synced <= Len(d.logs[n].recs)
ManifestsTyped(d) ==
    /\ DOMAIN d.manifests \subseteq Nat
    /\ \A n \in DOMAIN d.manifests : d.manifests[n] \in ManifestFiles /\ d.manifests[n].synced <= Len(d.manifests[n].recs)
    /\ d.current \in Nat
    /\ d.current # 0 => d.current \in DOMAIN d.manifests
TablesTyped(d) ==
    /\ DOMAIN d.tables \subseteq Nat
    /\ \A n \in DOMAIN d.tables : d.tables[n] \in TableFiles
DiskTyped(d) ==
    /\ DOMAIN d = {"current", "manifests", "logs", "tables"}
    /\ LogsTyped(d) /\ ManifestsTyped(d) /\ TablesTyped(d)

Databases ==
    [state : {"closed", "opening", "open", "closing", "undefined"}, mem : Records, imm : {<<>>} \cup {<<m>> : m \in Records},
     logfile : Nat, next : Nat, seq : Nat, log_number : Nat, manifest : Nat,
     version : [l0 : SUBSET Nat, l1 : SUBSET Nat], pending : SUBSET Nat, bg_error : BOOLEAN,
     scheduled : BOOLEAN, shutting_down : BOOLEAN, manual : Writers \cup {None}]

InQueue == {"queued", "front", "append", "sync", "apply"}
InGroup == {"append", "sync", "apply"}
Resting == {"idle", "done", "dead"}
Places == InQueue \cup Resting \cup {"flushing", "manual", "manual_done"}

Typed ==
    /\ mode \in Modes
    /\ DiskTyped(disk)
    /\ db \in Databases
    /\ queue \in Seq(Writers) /\ pc \in [Writers -> Places]
    /\ promised \subseteq Entries

Syncing == {w \in Writers : Sync(w)}

-----------------------------------------------------------------------------
(***************************************************************************)
(* What the files hold.  A prefix of the manifest that a crash may leave   *)
(* names tables that are there, and it and the logs it keeps hold every    *)
(* promise; nothing it makes obsolete has a higher sequence number.        *)
(***************************************************************************)
InTables(d, e, ns) == \E t \in ns : t \in DOMAIN d.tables /\ e \in d.tables[t].data
Logged(y, d, e, n) ==
    \E i \in DOMAIN d.logs[n].recs : e \in d.logs[n].recs[i] /\ (e.w \in y => i <= d.logs[n].synced)
InLogs(y, d, e, from) == \E n \in DOMAIN d.logs : n >= from /\ Logged(y, d, e, n)

LogUpTo(d, n, seq) == \A i \in DOMAIN d.logs[n].recs : \A e \in d.logs[n].recs[i] : e.s <= seq
TableUpTo(d, t, seq) == t \in DOMAIN d.tables /\ \A e \in d.tables[t].data : e.s <= seq

LogOf(r) == LastNumber(r, "log")
NextOf(r) == LastNumber(r, "next")
LastSeqOf(r) == LastNumber(r, "seq")
TablesOf(r) == Tables(ApplyAll(r))

Names(d, r) ==
    /\ LogOf(r) \in Nat /\ NextOf(r) \in Nat /\ LastSeqOf(r) \in Nat
    /\ LogOf(r) < NextOf(r)
    /\ \A t \in TablesOf(r) : t < NextOf(r) /\ TableUpTo(d, t, LastSeqOf(r))
    /\ \A n \in DOMAIN d.logs : n < LogOf(r) => LogUpTo(d, n, LastSeqOf(r))
Holds(y, d, p, r) == \A e \in p : InTables(d, e, TablesOf(r)) \/ InLogs(y, d, e, LogOf(r))

Manifest(d) == d.manifests[d.current]
Cut(d, c) == SubSeq(Manifest(d).recs, 1, c)
Cutting(d) == {c \in 1 .. Len(Manifest(d).recs) : Manifest(d).synced <= c}

CutSound(y, d, p, c) ==
    /\ Names(d, Cut(d, c)) /\ Holds(y, d, p, Cut(d, c))
    /\ d.current < NextOf(Cut(d, c))
    /\ NextOf(Cut(d, c)) <= NextOf(Manifest(d).recs)
DiskSound(y, d, p) ==
    /\ d.current # 0 => \A c \in Cutting(d) : CutSound(y, d, p, c)
    /\ p # {} => d.current # 0 /\ Manifest(d).synced >= 1

-----------------------------------------------------------------------------
(***************************************************************************)
(* Opening.                                                                *)
(***************************************************************************)
FirstManifest == [recs |-> <<Edit({}, {}, {}, 0, 2, 0)>>, synced |-> 0]

(* The logs to recover: what was read of them is in the tables added.      *)
Unread(o, n, i) == n \in o.logs /\ (i > o.pos \/ \E m \in o.logs : m < n)
ReadSoFar(d, b, o) ==
    \A n \in DOMAIN d.logs : n >= b.log_number =>
        \A i \in DOMAIN d.logs[n].recs : ~ Unread(o, n, i) =>
            \A e \in d.logs[n].recs[i] : e.s <= o.max_sequence /\ InTables(d, e, o.adds)
ReadingLogs(d, b, o) ==
    /\ d.current # 0 /\ Len(Manifest(d).recs) >= 1
    /\ b.version = ApplyAll(Manifest(d).recs) /\ b.log_number = LogOf(Manifest(d).recs)
    /\ b.manifest = NextOf(Manifest(d).recs) /\ b.seq = LastSeqOf(Manifest(d).recs)
    /\ b.manifest < b.next
    /\ DOMAIN o = {"at", "logs", "pos", "adds", "max_sequence", "failed"}
    /\ o.pos \in Nat /\ o.adds \subseteq Nat /\ o.max_sequence \in Nat /\ o.failed \in BOOLEAN
    /\ o.logs \subseteq {n \in DOMAIN d.logs : n >= b.log_number}
    /\ \A t \in o.adds : t < b.next /\ TableUpTo(d, t, o.max_sequence)
    /\ \A n \in DOMAIN d.logs : n < b.next \/ n \in o.logs
    /\ ~ o.failed => ReadSoFar(d, b, o)

Recovered(d, b, o, p) ==
    /\ DOMAIN o = {"at", "adds"} /\ o.adds \subseteq Nat
    /\ b.logfile \in DOMAIN d.logs /\ d.logs[b.logfile] = NewLogFile
    /\ \A n \in DOMAIN d.logs : n <= b.logfile /\ LogUpTo(d, n, b.seq)
    /\ b.logfile < b.next /\ b.manifest < b.next /\ d.current # 0 /\ b.manifest # 0
    /\ \A t \in Tables(b.version) \cup o.adds : t < b.next /\ TableUpTo(d, t, b.seq)
    /\ \A e \in p : InTables(d, e, Tables(b.version) \cup o.adds) /\ e.s <= b.seq
EditOf(b, o) == Edit({}, o.adds, {}, b.logfile, b.next, b.seq)
NewManifestWritten(d, b, o) ==
    /\ b.manifest \in DOMAIN d.manifests
    /\ d.manifests[b.manifest] = [recs |-> <<Snapshot(b.version), EditOf(b, o)>>, synced |-> 2]

Fresh(b) ==
    /\ b.mem = {} /\ b.imm = <<>> /\ b.bg_error = FALSE /\ b.scheduled = FALSE /\ b.shutting_down = FALSE
    /\ b.manual = None
OpeningSound(d, b, o, p) ==
    /\ o.at \in {"new_manifest", "new_current", "load", "logs", "manifest", "current", "finish"}
    /\ Fresh(b)
    /\ o.at = "new_manifest" => d.current = 0
    /\ o.at = "new_current" => d.current = 0 /\ 1 \in DOMAIN d.manifests /\ d.manifests[1] = FirstManifest
    /\ o.at = "load" => d.current # 0
    /\ o.at = "logs" => ReadingLogs(d, b, o)
    /\ o.at \in {"manifest", "current", "finish"} => Recovered(d, b, o, p)
    /\ o.at \in {"manifest", "current"} => d.current < b.manifest
    /\ o.at \in {"current", "finish"} => NewManifestWritten(d, b, o)
    /\ o.at = "finish" => d.current = b.manifest

-----------------------------------------------------------------------------
(***************************************************************************)
(* The queue of writers and the group at its front.                        *)
(***************************************************************************)
QueueSound ==
    /\ \A i, j \in DOMAIN queue : queue[i] = queue[j] => i = j
    /\ \A i \in DOMAIN queue : pc[queue[i]] \in IF i = 1 THEN InQueue \ {"queued"} ELSE {"queued"}
    /\ \A w \in Writers : pc[w] \in InQueue => \E i \in DOMAIN queue : queue[i] = w
CallsSound ==
    /\ db.state \in {"closed", "opening", "closing"} => \A w \in Writers : pc[w] \in Resting
    /\ db.manual # None => pc[db.manual] = "manual"

Stored(d, b, g, synced) ==
    \E i \in DOMAIN d.logs[b.logfile].recs :
        d.logs[b.logfile].recs[i] = g.entries /\ (synced => i <= d.logs[b.logfile].synced)
GroupSound(b, g) ==
    /\ DOMAIN g = {"entries", "last", "ok", "sync_error"}
    /\ g.last \in Nat /\ g.ok \in BOOLEAN /\ g.sync_error \in BOOLEAN
    /\ g.entries \in Records
    /\ \A e \in g.entries : b.seq < e.s /\ e.s <= b.seq + Cardinality(g.entries)
    /\ \A e, f \in g.entries : e.s = f.s => e.w = f.w
LeaderSound(y, d, b, g, w) ==
    /\ \A e \in g.entries : e.w \in y => w \in y
    /\ g.last \in 1 .. Len(queue)
    /\ pc[w] = "sync" => Stored(d, b, g, FALSE)
    /\ pc[w] = "apply" /\ g.ok => Stored(d, b, g, w \in y)
GroupsSound ==
    /\ (\A w \in Writers : pc[w] \notin InGroup) => group = NoGroup
    /\ db.state = "open" => GroupSound(db, group)
    /\ db.state = "open" => \A w \in Writers : pc[w] \in InGroup => LeaderSound(Syncing, disk, db, group, w)

-----------------------------------------------------------------------------
(***************************************************************************)
(* An open database, its manifest and its background job.                  *)
(***************************************************************************)
ImmOf(b) == UNION ToSet(b.imm)

NumbersSound(d, b) ==
    /\ d.current = b.manifest /\ d.current # 0 /\ Manifest(d).synced >= 2
    /\ b.logfile \in DOMAIN d.logs /\ b.log_number <= b.logfile
    /\ b.logfile < b.next /\ b.manifest < b.next
    /\ \A n \in DOMAIN d.logs : n <= b.logfile
    /\ \A t \in Tables(b.version) : t < b.next
SequencesSound(d, b, p, g) ==
    /\ \A n \in DOMAIN d.logs : \A i \in DOMAIN d.logs[n].recs : \A e \in d.logs[n].recs[i] :
          e.s <= b.seq \/ (n = b.logfile /\ e \in g.entries)
    /\ \A t \in Tables(b.version) : TableUpTo(d, t, b.seq)
    /\ \A e \in p \cup b.mem \cup ImmOf(b) : e.s <= b.seq
PromiseKept(y, d, b, e) ==
    \/ e \in b.mem /\ Logged(y, d, e, b.logfile)
    \/ e \in ImmOf(b) /\ InLogs(y, d, e, b.log_number)
    \/ InTables(d, e, Tables(b.version))
CutFollows(d, b, r) ==
    /\ LogOf(r) <= b.logfile /\ NextOf(r) <= b.next /\ LastSeqOf(r) <= b.seq
    /\ \A t \in Tables(b.version) : \A e \in d.tables[t].data : InTables(d, e, TablesOf(r))
ManifestCurrent(d, b, at) ==
    ~ b.bg_error =>
        LET c == IF at = "install" THEN Len(Manifest(d).recs) - 1 ELSE Len(Manifest(d).recs)
        IN  Manifest(d).synced = c /\ ApplyAll(Cut(d, c)) = b.version /\ LogOf(Cut(d, c)) = b.log_number

NewTables(job) == IF job.data = {} THEN {} ELSE {job.number}
JobTyped(job) ==
    /\ DOMAIN job = {"kind", "at", "number", "data", "inputs", "manual", "edit"}
    /\ job.kind \in {"flush", "merge"} /\ job.at \in {"build", "log", "install", "failed"}
    /\ job.number \in Nat /\ job.data \in Records /\ job.inputs \subseteq Nat
    /\ job.manual \in BOOLEAN /\ job.edit \in Edits
JobUnused(d, b, job) ==
    /\ job.number < b.next /\ job.number \notin Tables(b.version)
    /\ \A c \in Cutting(d) : job.number \in TablesOf(Cut(d, c)) => job.at = "install" /\ c = Len(Manifest(d).recs)
JobInputs(d, b, job) ==
    /\ \A e \in job.data : e.s <= b.seq
    /\ job.kind = "flush" => b.imm # <<>> /\ job.data = ImmOf(b) /\ job.inputs = {}
    /\ job.kind = "merge" => job.inputs \subseteq b.version.l0 /\ \A t \in job.inputs : d.tables[t].data \subseteq job.data
JobOutput(d, job) ==
    job.at \in {"log", "install"} /\ job.data # {} =>
        job.number \in DOMAIN d.tables /\ d.tables[job.number].data = job.data
JobLogged(d, b, job) ==
    job.at = "install" =>
        /\ Len(Manifest(d).recs) >= 1 /\ Manifest(d).recs[Len(Manifest(d).recs)] = job.edit
        /\ job.edit.del = job.inputs
        /\ job.edit.add0 = (IF job.kind = "flush" THEN NewTables(job) ELSE {})
        /\ job.edit.add1 = (IF job.kind = "flush" THEN {} ELSE NewTables(job))
        /\ job.edit.log = IF job.kind = "flush" THEN b.logfile ELSE b.log_number
JobSound(d, b, job) ==
    JobTyped(job) /\ JobUnused(d, b, job) /\ JobInputs(d, b, job) /\ JobOutput(d, job) /\ JobLogged(d, b, job)
JobsShaped(b, j) ==
    /\ j = [job |-> j.job, outer |-> j.outer]
    /\ j.job = NoJob => j.outer = NoJob
    /\ j.job # NoJob => b.scheduled = TRUE
    /\ j.outer # NoJob => /\ j.outer.kind = "merge" /\ j.outer.at = "build"
                           /\ j.job.kind = "flush" /\ j.job.number # j.outer.number
JobsSound(d, b, j) ==
    /\ JobsShaped(b, j)
    /\ j.job # NoJob => JobSound(d, b, j.job)
    /\ j.outer # NoJob => JobSound(d, b, j.outer)

InUse(b) == b.state \in {"open", "closing"}
UseSound(y, d, b, j, p, g) ==
    /\ NumbersSound(d, b) /\ SequencesSound(d, b, p, g)
    /\ \A e \in p : PromiseKept(y, d, b, e)
    /\ \A c \in Cutting(d) : CutFollows(d, b, Cut(d, c))
    /\ ManifestCurrent(d, b, j.job.at)
    /\ JobsSound(d, b, j)

NoJobs == [job |-> NoJob, outer |-> NoJob]
PhasesSound ==
    /\ db.state = "opening" => OpeningSound(disk, db, opening, promised)
    /\ InUse(db) => UseSound(Syncing, disk, db, bg, promised, group)
    /\ db.state \in {"closed", "opening"} => bg = NoJobs
    /\ db.state = "closing" => db.shutting_down

LogEntries(d) == UNION {UNION ToSet(d.logs[n].recs) : n \in DOMAIN d.logs}
Unique(S) == \A a, b \in S : a.s = b.s => a.w = b.w
UniqueSequences == Unique(db.mem \cup ImmOf(db) \cup LogEntries(disk) \cup promised \cup group.entries)

DBInv ==
    /\ Typed /\ DiskSound(Syncing, disk, promised) /\ QueueSound /\ CallsSound /\ GroupsSound
    /\ PhasesSound /\ UniqueSequences

-----------------------------------------------------------------------------
(***************************************************************************)
(* Edits, prefixes of a manifest, and the numbers they record.             *)
(***************************************************************************)

(* The library's Max and Min of naturals. *)
LEMMA MaxNat ==
  ASSUME NEW S, S \subseteq Nat, S # {}, Bounded(S)
  PROVE  Max(S) \in S /\ Max(S) \in Nat /\ \A x \in S : x <= Max(S)
<1>1. Max(S) \in S /\ \A x \in S : x <= Max(S)
  BY GreatestNatural DEF Max
<1> QED
  BY <1>1

(* The same of the least. *)
LEMMA MinNat ==
  ASSUME NEW S, S \subseteq Nat, S # {}
  PROVE  Min(S) \in S /\ Min(S) \in Nat /\ \A x \in S : Min(S) <= x
<1>1. Min(S) \in S /\ \A x \in S : Min(S) <= x
  BY LeastNatural DEF Min
<1> QED
  BY <1>1

(* What an edit adds and deletes when it is appended. *)
LEMMA KeptAppend ==
  ASSUME NEW recs \in Seq(Edits), NEW e \in Edits, NEW field \in {"add0", "add1"}
  PROVE  Kept(Append(recs, e), field) = (Kept(recs, field) \ e.del) \cup e[field]
<1> DEFINE more == Append(recs, e)
           k == Len(recs)
<1>1. k \in Nat /\ Len(more) = k + 1 /\ DOMAIN recs = 1 .. k /\ DOMAIN more = 1 .. k + 1
  OBVIOUS
<1>2. more[k + 1] = e /\ \A i \in 1 .. k : more[i] = recs[i]
  OBVIOUS
<1> HIDE DEF more, k
<1>3. \A n : n \in Kept(recs, field) <=>
         \E i \in 1 .. k : n \in recs[i][field] /\ \A j \in i + 1 .. k : n \notin recs[j].del
  BY <1>1 DEF Kept, k
<1>4. \A n : n \in Kept(more, field) <=>
         \E i \in 1 .. k + 1 : n \in more[i][field] /\ \A j \in i + 1 .. k + 1 : n \notin more[j].del
  BY <1>1 DEF Kept
<1>5. ASSUME NEW n \in Kept(more, field) PROVE n \in (Kept(recs, field) \ e.del) \cup e[field]
  <2>1. PICK i \in 1 .. k + 1 : n \in more[i][field] /\ \A j \in i + 1 .. k + 1 : n \notin more[j].del
    BY <1>4, <1>5
  <2>2. CASE i = k + 1
    BY <2>1, <2>2, <1>2
  <2>3. CASE i # k + 1
    <3>1. i \in 1 .. k /\ k + 1 \in i + 1 .. k + 1
      BY <2>3, <1>1
    <3>2. n \notin e.del
      BY <2>1, <3>1, <1>2
    <3>3. \A j \in i + 1 .. k : j \in 1 .. k /\ j \in i + 1 .. k + 1
      BY <3>1, <1>1
    <3>4. n \in recs[i][field] /\ \A j \in i + 1 .. k : n \notin recs[j].del
      BY <2>1, <3>1, <3>3, <1>2
    <3> QED
      BY <1>3, <3>1, <3>2, <3>4
  <2> QED
    BY <2>2, <2>3
<1>6. ASSUME NEW n \in e[field] PROVE n \in Kept(more, field)
  <2>1. \A j \in (k + 1) + 1 .. k + 1 : FALSE
    BY <1>1
  <2> QED
    BY <1>1, <1>2, <1>4, <1>6, <2>1
<1>7. ASSUME NEW n \in Kept(recs, field), n \notin e.del PROVE n \in Kept(more, field)
  <2>1. PICK i \in 1 .. k : n \in recs[i][field] /\ \A j \in i + 1 .. k : n \notin recs[j].del
    BY <1>3, <1>7
  <2>2. ASSUME NEW j \in i + 1 .. k + 1 PROVE n \notin more[j].del
    <3>1. CASE j = k + 1
      BY <3>1, <1>2, <1>7
    <3>2. CASE j # k + 1
      BY <3>2, <2>1, <1>1, <1>2
    <3> QED
      BY <3>1, <3>2
  <2>3. i \in 1 .. k + 1 /\ n \in more[i][field]
    BY <2>1, <1>1, <1>2
  <2> QED
    BY <1>4, <2>2, <2>3
<1> QED
  BY <1>5, <1>6, <1>7 DEF more

(* Appending an edit applies it to the version. *)
LEMMA ApplyAppend ==
  ASSUME NEW recs \in Seq(Edits), NEW e \in Edits
  PROVE  ApplyAll(Append(recs, e)) = ApplyEdit(ApplyAll(recs), e)
<1>1. Kept(Append(recs, e), "add0") = (Kept(recs, "add0") \ e.del) \cup e.add0
  BY KeptAppend
<1>2. Kept(Append(recs, e), "add1") = (Kept(recs, "add1") \ e.del) \cup e.add1
  BY KeptAppend
<1> QED
  BY <1>1, <1>2 DEF ApplyAll, ApplyEdit

(* The tables after one more edit. *)
LEMMA TablesAppend ==
  ASSUME NEW recs \in Seq(Edits), NEW e \in Edits
  PROVE  TablesOf(Append(recs, e)) = (TablesOf(recs) \ e.del) \cup e.add0 \cup e.add1
  BY ApplyAppend DEF TablesOf, Tables, ApplyEdit, ApplyAll

(* A manifest names tables by natural numbers. *)
LEMMA KeptTyped ==
  ASSUME NEW recs \in Seq(Edits)
  PROVE  ApplyAll(recs) \in [l0 : SUBSET Nat, l1 : SUBSET Nat] /\ TablesOf(recs) \subseteq Nat
<1>1. \A i \in DOMAIN recs : recs[i] \in Edits
  OBVIOUS
<1>2. \A i \in DOMAIN recs : recs[i]["add0"] \subseteq Nat /\ recs[i]["add1"] \subseteq Nat
  BY <1>1 DEF Edits
<1>3. Kept(recs, "add0") \subseteq Nat /\ Kept(recs, "add1") \subseteq Nat
  BY <1>2 DEF Kept
<1> QED
  BY <1>3 DEF ApplyAll, TablesOf, Tables

(* The last record that has a number counts. *)
LEMMA LastNumberAppend ==
  ASSUME NEW recs \in Seq(Edits), NEW e \in Edits, NEW field \in {"log", "next", "seq"}
  PROVE  LastNumber(Append(recs, e), field) = IF e[field] # -1 THEN e[field] ELSE LastNumber(recs, field)
<1> DEFINE more == Append(recs, e)
           k == Len(recs)
           with == {i \in DOMAIN recs : recs[i][field] # -1}
           now == {i \in DOMAIN more : more[i][field] # -1}
<1>1. k \in Nat /\ Len(more) = k + 1 /\ DOMAIN recs = 1 .. k /\ DOMAIN more = 1 .. k + 1
  OBVIOUS
<1>2. more[k + 1] = e /\ \A i \in 1 .. k : more[i] = recs[i]
  OBVIOUS
<1>3. with \subseteq 1 .. k /\ now \subseteq 1 .. k + 1 /\ with \subseteq Nat /\ now \subseteq Nat
  BY <1>1
<1>4. Bounded(with) /\ Bounded(now)
  BY <1>1, <1>3 DEF Bounded
<1>5. LastNumber(recs, field) = IF with = {} THEN -1 ELSE recs[Max(with)][field]
  BY DEF LastNumber
<1>6. LastNumber(more, field) = IF now = {} THEN -1 ELSE more[Max(now)][field]
  BY DEF LastNumber
<1>7. \A i : i \in now <=> i \in with \/ (i = k + 1 /\ e[field] # -1)
  BY <1>1, <1>2
<1> HIDE DEF more, k, with, now
<1>8. CASE e[field] # -1
  <2>0. k + 1 \in now
    BY <1>7, <1>8
  <2>1. Max(now) \in now /\ \A x \in now : x <= Max(now)
    BY <2>0, <1>3, <1>4, MaxNat
  <2>a. Max(now) \in 1 .. k + 1
    BY <2>1, <1>3
  <2>b. k + 1 <= Max(now)
    BY <2>0, <2>1
  <2>2. Max(now) = k + 1
    BY <2>a, <2>b, <1>1
  <2> QED
    BY <2>2, <1>2, <1>6, <1>7, <1>8 DEF more
<1>9. CASE ~ (e[field] # -1)
  <2>1. now = with
    BY <1>7, <1>9
  <2>2. CASE with = {}
    BY <2>1, <2>2, <1>5, <1>6, <1>9 DEF more
  <2>3. CASE with # {}
    <3>1. Max(with) \in with
      BY <2>3, <1>3, <1>4, MaxNat
    <3>2. Max(with) \in 1 .. k
      BY <3>1, <1>3
    <3> QED
      BY <2>1, <2>3, <3>2, <1>2, <1>5, <1>6, <1>9 DEF more
  <2> QED
    BY <2>2, <2>3
<1> QED
  BY <1>8, <1>9

(* The numbers a manifest records are those of the last edit that has them. *)
LEMMA NumbersAppend ==
  ASSUME NEW recs \in Seq(Edits), NEW e \in Edits
  PROVE  /\ LogOf(Append(recs, e)) = IF e.log # -1 THEN e.log ELSE LogOf(recs)
         /\ NextOf(Append(recs, e)) = IF e.next # -1 THEN e.next ELSE NextOf(recs)
         /\ LastSeqOf(Append(recs, e)) = IF e.seq # -1 THEN e.seq ELSE LastSeqOf(recs)
<1>1. LogOf(Append(recs, e)) = IF e.log # -1 THEN e.log ELSE LogOf(recs)
  BY LastNumberAppend DEF LogOf
<1>2. NextOf(Append(recs, e)) = IF e.next # -1 THEN e.next ELSE NextOf(recs)
  BY LastNumberAppend DEF NextOf
<1>3. LastSeqOf(Append(recs, e)) = IF e.seq # -1 THEN e.seq ELSE LastSeqOf(recs)
  BY LastNumberAppend DEF LastSeqOf
<1> QED
  BY <1>1, <1>2, <1>3

(* Prefixes of a sequence that grows, and of one that was cut. *)
LEMMA PrefixFacts ==
  ASSUME NEW S, NEW recs \in Seq(S)
  PROVE  /\ SubSeq(recs, 1, Len(recs)) = recs
         /\ \A e \in S : Append(recs, e) \in Seq(S) /\ SubSeq(Append(recs, e), 1, Len(recs) + 1) = Append(recs, e)
         /\ \A e \in S : \A c \in 0 .. Len(recs) : SubSeq(Append(recs, e), 1, c) = SubSeq(recs, 1, c)
         /\ \A c \in 0 .. Len(recs) : /\ SubSeq(recs, 1, c) \in Seq(S)
                                      /\ Len(SubSeq(recs, 1, c)) = c
                                      /\ DOMAIN SubSeq(recs, 1, c) = 1 .. c
                                      /\ \A i \in 1 .. c : SubSeq(recs, 1, c)[i] = recs[i]
<1>1. SubSeq(recs, 1, Len(recs)) = recs
  OBVIOUS
<1>2. ASSUME NEW e \in S
      PROVE  Append(recs, e) \in Seq(S) /\ SubSeq(Append(recs, e), 1, Len(recs) + 1) = Append(recs, e)
  OBVIOUS
<1>3. ASSUME NEW e \in S, NEW c \in 0 .. Len(recs)
      PROVE  SubSeq(Append(recs, e), 1, c) = SubSeq(recs, 1, c)
  OBVIOUS
<1>4. ASSUME NEW c \in 0 .. Len(recs)
      PROVE  /\ SubSeq(recs, 1, c) \in Seq(S)
             /\ Len(SubSeq(recs, 1, c)) = c
             /\ DOMAIN SubSeq(recs, 1, c) = 1 .. c
             /\ \A i \in 1 .. c : SubSeq(recs, 1, c)[i] = recs[i]
  OBVIOUS
<1> QED
  BY <1>1, <1>2, <1>3, <1>4

(* Sequences with the same elements are equal. *)
LEMMA SequencesEqual ==
  ASSUME NEW S, NEW s \in Seq(S), NEW t \in Seq(S), Len(s) = 2, Len(t) = 2, s[1] = t[1], s[2] = t[2]
  PROVE  s = t
<1>1. DOMAIN s = 1 .. 2 /\ DOMAIN t = 1 .. 2
  OBVIOUS
<1>2. \A i \in 1 .. 2 : i = 1 \/ i = 2
  OBVIOUS
<1>3. \A i \in 1 .. 2 : s[i] = t[i]
  BY <1>2
<1>4. s = [i \in 1 .. 2 |-> s[i]] /\ t = [i \in 1 .. 2 |-> t[i]]
  BY <1>1
<1> QED
  BY <1>3, <1>4

(* A prefix of a prefix is a prefix. *)
LEMMA CutOfCut ==
  ASSUME NEW S, NEW recs \in Seq(S), NEW c \in 0 .. Len(recs), NEW k \in 0 .. c
  PROVE  SubSeq(SubSeq(recs, 1, c), 1, k) = SubSeq(recs, 1, k)
  OBVIOUS

(* The first manifest of a database, and the first of an opening. *)
LEMMA EmptyEdits ==
  /\ ApplyAll(<<>>) = [l0 |-> {}, l1 |-> {}]
  /\ \A field : LastNumber(<<>>, field) = -1
<1>1. DOMAIN <<>> = {}
  OBVIOUS
<1>2. ApplyAll(<<>>) = [l0 |-> {}, l1 |-> {}]
  BY <1>1 DEF ApplyAll, Kept
<1>3. ASSUME NEW field PROVE LastNumber(<<>>, field) = -1
  <2>1. {i \in DOMAIN <<>> : <<>>[i][field] # -1} = {}
    BY <1>1
  <2> QED
    BY <2>1 DEF LastNumber
<1> QED
  BY <1>2, <1>3

(* An edit made of natural numbers is an edit. *)
LEMMA EditTyped ==
  ASSUME NEW del \in SUBSET Nat, NEW add0 \in SUBSET Nat, NEW add1 \in SUBSET Nat,
         NEW log \in Nat \cup {-1}, NEW nx \in Nat \cup {-1}, NEW sq \in Nat \cup {-1}
  PROVE  Edit(del, add0, add1, log, nx, sq) \in Edits
  BY DEF Edit, Edits

(* What the manifest of NewDB says. *)
LEMMA FirstManifestFacts ==
  LET r == <<Edit({}, {}, {}, 0, 2, 0)>>
  IN  /\ r \in Seq(Edits) /\ Len(r) = 1
      /\ TablesOf(r) = {} /\ LogOf(r) = 0 /\ NextOf(r) = 2 /\ LastSeqOf(r) = 0
<1> DEFINE e == Edit({}, {}, {}, 0, 2, 0)
           none == <<>>
<1>1. e \in Edits
  BY EditTyped
<1>2. /\ e.log = 0 /\ e.next = 2 /\ e.seq = 0
      /\ e.del = {} /\ e.add0 = {} /\ e.add1 = {}
  BY DEF Edit
<1> HIDE DEF e
<1>3. none \in Seq(Edits) /\ Append(none, e) = <<e>> /\ <<e>> \in Seq(Edits) /\ Len(<<e>>) = 1
  BY <1>1
<1>4. TablesOf(none) = {}
  BY EmptyEdits DEF TablesOf, Tables
<1> HIDE DEF none
<1>5. LogOf(<<e>>) = 0 /\ NextOf(<<e>>) = 2 /\ LastSeqOf(<<e>>) = 0
  <2>1. /\ LogOf(Append(none, e)) = IF e.log # -1 THEN e.log ELSE LogOf(none)
        /\ NextOf(Append(none, e)) = IF e.next # -1 THEN e.next ELSE NextOf(none)
        /\ LastSeqOf(Append(none, e)) = IF e.seq # -1 THEN e.seq ELSE LastSeqOf(none)
    BY <1>1, <1>3, NumbersAppend
  <2>2. LogOf(Append(none, e)) = 0 /\ NextOf(Append(none, e)) = 2 /\ LastSeqOf(Append(none, e)) = 0
    BY <2>1, <1>2
  <2> QED
    BY <2>2, <1>3
<1>6. TablesOf(<<e>>) = {}
  BY <1>1, <1>2, <1>3, <1>4, TablesAppend
<1> QED
  BY <1>3, <1>5, <1>6 DEF e

(* The first manifest of an opening: a snapshot and an edit. *)
Versions == [l0 : SUBSET Nat, l1 : SUBSET Nat]
Adding(e) ==
    e \in Edits /\ e.del = {} /\ e.add1 = {} /\ e.log \in Nat /\ e.next \in Nat /\ e.seq \in Nat
FirstRecs(v, e) == <<Snapshot(v), e>>
(* What such a manifest says. *)
LEMMA NewManifestFacts ==
  ASSUME NEW v \in Versions, NEW e, Adding(e), NEW r, r = FirstRecs(v, e)
  PROVE  /\ r \in Seq(Edits) /\ Len(r) = 2
         /\ ApplyAll(r) = ApplyEdit(v, e)
         /\ TablesOf(r) = Tables(v) \cup e.add0
         /\ LogOf(r) = e.log /\ NextOf(r) = e.next /\ LastSeqOf(r) = e.seq
<1> DEFINE f == Snapshot(v)
           none == <<>>
           one == <<f>>
<1>1. e \in Edits
  BY DEF Adding
<1>2. f \in Edits
  <2>1. v.l0 \in SUBSET Nat /\ v.l1 \in SUBSET Nat
    BY DEF Versions
  <2> QED
    BY <2>1, EditTyped DEF Snapshot
<1>3. /\ e.log # -1 /\ e.next # -1 /\ e.seq # -1
      /\ e.del = {} /\ e.add1 = {}
      /\ f.del = {} /\ f.add0 = v.l0 /\ f.add1 = v.l1
  BY DEF Edit, Snapshot, Adding
<1>0. r = <<f, e>>
  BY DEF FirstRecs
<1> HIDE DEF f
<1>4. none \in Seq(Edits) /\ Append(none, f) = one
  BY <1>2
<1>5. one \in Seq(Edits) /\ Append(one, e) = <<f, e>>
  <2>1. one \in Seq(Edits)
    BY <1>2
  <2>2. Append(<<f>>, e) = <<f, e>>
    <3>1. /\ Append(<<f>>, e) \in Seq(Edits) /\ Len(Append(<<f>>, e)) = 2
          /\ Append(<<f>>, e)[1] = f /\ Append(<<f>>, e)[2] = e
      BY <1>1, <1>2
    <3>2. <<f, e>> \in Seq(Edits) /\ Len(<<f, e>>) = 2 /\ <<f, e>>[1] = f /\ <<f, e>>[2] = e
      BY <1>1, <1>2
    <3> QED
      BY <3>1, <3>2, SequencesEqual
  <2> QED
    BY <2>1, <2>2
<1>6. <<f, e>> \in Seq(Edits) /\ Len(<<f, e>>) = 2
  BY <1>1, <1>2
<1>7. ApplyAll(none) = [l0 |-> {}, l1 |-> {}]
  BY EmptyEdits
<1> HIDE DEF none, one
<1>8. LogOf(<<f, e>>) = e.log /\ NextOf(<<f, e>>) = e.next /\ LastSeqOf(<<f, e>>) = e.seq
  <2>1. /\ LogOf(Append(one, e)) = IF e.log # -1 THEN e.log ELSE LogOf(one)
        /\ NextOf(Append(one, e)) = IF e.next # -1 THEN e.next ELSE NextOf(one)
        /\ LastSeqOf(Append(one, e)) = IF e.seq # -1 THEN e.seq ELSE LastSeqOf(one)
    BY <1>1, <1>5, NumbersAppend
  <2>2. LogOf(Append(one, e)) = e.log /\ NextOf(Append(one, e)) = e.next /\ LastSeqOf(Append(one, e)) = e.seq
    BY <2>1, <1>3
  <2> QED
    BY <2>2, <1>5
<1>9. ApplyAll(one) = ApplyEdit([l0 |-> {}, l1 |-> {}], f)
  BY <1>2, <1>4, <1>7, ApplyAppend
<1>10. ApplyAll(one) = v
  BY <1>3, <1>9 DEF ApplyEdit, Versions
<1>11. ApplyAll(<<f, e>>) = ApplyEdit(v, e)
  BY <1>1, <1>5, <1>10, ApplyAppend
<1>12. TablesOf(<<f, e>>) = Tables(v) \cup e.add0
  BY <1>3, <1>11 DEF TablesOf, Tables, ApplyEdit
<1> QED
  BY <1>0, <1>6, <1>8, <1>11, <1>12

-----------------------------------------------------------------------------
(***************************************************************************)
(* The disk.                                                               *)
(***************************************************************************)
LEMMA CutTyped ==
  ASSUME NEW d, DiskTyped(d), d.current # 0
  PROVE  /\ Manifest(d).recs \in Seq(Edits) /\ Len(Manifest(d).recs) \in Nat
         /\ Manifest(d).synced \in Nat /\ Manifest(d).synced <= Len(Manifest(d).recs)
         /\ Manifest(d) = [recs |-> Manifest(d).recs, synced |-> Manifest(d).synced]
         /\ \A c \in Cutting(d) : /\ c \in 1 .. Len(Manifest(d).recs) /\ Cut(d, c) \in Seq(Edits)
                                  /\ TablesOf(Cut(d, c)) \subseteq Nat
         /\ Cut(d, Len(Manifest(d).recs)) = Manifest(d).recs
         /\ Len(Manifest(d).recs) >= 1 => Len(Manifest(d).recs) \in Cutting(d)
<1>1. Manifest(d) \in ManifestFiles /\ Manifest(d).synced <= Len(Manifest(d).recs)
  BY DEF DiskTyped, ManifestsTyped, Manifest
<1>2. Manifest(d).recs \in Seq(Edits) /\ Manifest(d).synced \in Nat /\ Len(Manifest(d).recs) \in Nat
  BY <1>1 DEF ManifestFiles
<1>3. Manifest(d) = [recs |-> Manifest(d).recs, synced |-> Manifest(d).synced]
  BY <1>1 DEF ManifestFiles
<1>4. ASSUME NEW c \in Cutting(d)
      PROVE  c \in 1 .. Len(Manifest(d).recs) /\ Cut(d, c) \in Seq(Edits) /\ TablesOf(Cut(d, c)) \subseteq Nat
  <2>1. c \in 1 .. Len(Manifest(d).recs)
    BY DEF Cutting
  <2>2. Cut(d, c) \in Seq(Edits)
    BY <2>1, <1>2, PrefixFacts DEF Cut
  <2> QED
    BY <2>1, <2>2, KeptTyped
<1>5. Cut(d, Len(Manifest(d).recs)) = Manifest(d).recs
  BY <1>2, PrefixFacts DEF Cut
<1>6. Len(Manifest(d).recs) >= 1 => Len(Manifest(d).recs) \in Cutting(d)
  BY <1>1, <1>2 DEF Cutting
<1> QED
  BY <1>1, <1>2, <1>3, <1>4, <1>5, <1>6

(* The shape of a log file. *)
LEMMA LogTyped ==
  ASSUME NEW d, DiskTyped(d), NEW n \in DOMAIN d.logs
  PROVE  /\ n \in Nat /\ d.logs[n].recs \in Seq(Records) /\ Len(d.logs[n].recs) \in Nat
         /\ d.logs[n].synced \in Nat /\ d.logs[n].synced <= Len(d.logs[n].recs)
         /\ DOMAIN d.logs[n] = {"recs", "synced"} /\ DOMAIN d.logs[n].recs = 1 .. Len(d.logs[n].recs)
         /\ \A i \in DOMAIN d.logs[n].recs : /\ d.logs[n].recs[i] \in Records
                                             /\ \A e \in d.logs[n].recs[i] : e \in Entries /\ e.s \in Nat
<1>1. n \in Nat /\ d.logs[n] \in LogFiles /\ d.logs[n].synced <= Len(d.logs[n].recs)
  BY DEF DiskTyped, LogsTyped
<1>2. /\ d.logs[n].recs \in Seq(Records) /\ d.logs[n].synced \in Nat /\ DOMAIN d.logs[n] = {"recs", "synced"}
  BY <1>1 DEF LogFiles
<1>3. Len(d.logs[n].recs) \in Nat /\ DOMAIN d.logs[n].recs = 1 .. Len(d.logs[n].recs)
  BY <1>2
<1>4. \A i \in DOMAIN d.logs[n].recs : d.logs[n].recs[i] \in Records
  BY <1>2
<1>5. \A S \in Records : \A e \in S : e \in Entries /\ e.s \in Nat
  BY DEF Records, Entries
<1> QED
  BY <1>1, <1>2, <1>3, <1>4, <1>5

(* The shape of a table file. *)
LEMMA TableTyped ==
  ASSUME NEW d, DiskTyped(d), NEW t \in DOMAIN d.tables
  PROVE  /\ t \in Nat /\ d.tables[t].data \in Records /\ d.tables[t].synced = TRUE
         /\ \A e \in d.tables[t].data : e \in Entries /\ e.s \in Nat
<1>1. t \in Nat /\ d.tables[t] \in TableFiles
  BY DEF DiskTyped, TablesTyped
<1>2. d.tables[t].data \in Records /\ d.tables[t].synced = TRUE
  BY <1>1 DEF TableFiles
<1>3. \A S \in Records : \A e \in S : e \in Entries /\ e.s \in Nat
  BY DEF Records, Entries
<1> QED
  BY <1>1, <1>2, <1>3

(* What was logged stays logged while logs are appended to and synced. *)
LogsGrow(d, f) ==
    \A n \in DOMAIN d.logs :
        /\ n \in DOMAIN f.logs /\ d.logs[n].synced <= f.logs[n].synced
        /\ \A i \in DOMAIN d.logs[n].recs : i \in DOMAIN f.logs[n].recs /\ f.logs[n].recs[i] = d.logs[n].recs[i]

(* A logged entry stays logged when logs only grow. *)
LEMMA LoggedStays ==
  ASSUME NEW y, NEW d, NEW f, DiskTyped(d), DiskTyped(f), LogsGrow(d, f)
  PROVE  /\ \A e : \A n \in DOMAIN d.logs : Logged(y, d, e, n) => Logged(y, f, e, n)
         /\ \A e : \A from : InLogs(y, d, e, from) => InLogs(y, f, e, from)
<1>1. ASSUME NEW e, NEW n \in DOMAIN d.logs, Logged(y, d, e, n) PROVE n \in DOMAIN f.logs /\ Logged(y, f, e, n)
  <2>1. PICK i \in DOMAIN d.logs[n].recs : e \in d.logs[n].recs[i] /\ (e.w \in y => i <= d.logs[n].synced)
    BY <1>1 DEF Logged
  <2>2. /\ n \in DOMAIN f.logs /\ i \in DOMAIN f.logs[n].recs
        /\ f.logs[n].recs[i] = d.logs[n].recs[i] /\ d.logs[n].synced <= f.logs[n].synced
    BY DEF LogsGrow
  <2>3. i \in Nat /\ d.logs[n].synced \in Nat /\ f.logs[n].synced \in Nat
    BY <2>2, LogTyped
  <2>4. e.w \in y => i <= f.logs[n].synced
    BY <2>1, <2>2, <2>3
  <2> QED
    BY <2>1, <2>2, <2>4 DEF Logged
<1> QED
  BY <1>1 DEF InLogs

(* Nothing a crash may need changes, and what is new is in a log it keeps. *)
Kinder(y, d, f, r) ==
    /\ \A n \in DOMAIN f.logs : n < LogOf(r) => n \in DOMAIN d.logs /\ f.logs[n].recs = d.logs[n].recs
    /\ \A t \in TablesOf(r) : t \in DOMAIN d.tables => t \in DOMAIN f.tables /\ f.tables[t].data = d.tables[t].data
    /\ \A e : InLogs(y, d, e, LogOf(r)) => InLogs(y, f, e, LogOf(r))

(* An entry stays in the tables that are kept. *)
LEMMA InTablesStays ==
  ASSUME NEW d, NEW f, NEW ns,
         \A t \in ns : t \in DOMAIN d.tables => t \in DOMAIN f.tables /\ f.tables[t].data = d.tables[t].data
  PROVE  \A e : InTables(d, e, ns) => InTables(f, e, ns)
  BY DEF InTables

(* A kinder disk satisfies what a prefix of the manifest promises. *)
LEMMA KinderSound ==
  ASSUME NEW y, NEW d, NEW f, NEW p, NEW r, Names(d, r), Holds(y, d, p, r), Kinder(y, d, f, r)
  PROVE  Names(f, r) /\ Holds(y, f, p, r)
<1>1. LogOf(r) \in Nat /\ NextOf(r) \in Nat /\ LastSeqOf(r) \in Nat /\ LogOf(r) < NextOf(r)
  BY DEF Names
<1>2. ASSUME NEW t \in TablesOf(r) PROVE t < NextOf(r) /\ TableUpTo(f, t, LastSeqOf(r))
  <2>1. t < NextOf(r) /\ t \in DOMAIN d.tables /\ \A e \in d.tables[t].data : e.s <= LastSeqOf(r)
    BY DEF Names, TableUpTo
  <2>2. t \in DOMAIN f.tables /\ f.tables[t].data = d.tables[t].data
    BY <2>1 DEF Kinder
  <2> QED
    BY <2>1, <2>2 DEF TableUpTo
<1>3. ASSUME NEW n \in DOMAIN f.logs, n < LogOf(r) PROVE LogUpTo(f, n, LastSeqOf(r))
  <2>1. n \in DOMAIN d.logs /\ f.logs[n].recs = d.logs[n].recs
    BY <1>3 DEF Kinder
  <2>2. LogUpTo(d, n, LastSeqOf(r))
    BY <1>3, <2>1 DEF Names
  <2> QED
    BY <2>1, <2>2 DEF LogUpTo
<1>4. ASSUME NEW e \in p PROVE InTables(f, e, TablesOf(r)) \/ InLogs(y, f, e, LogOf(r))
  <2>1. CASE InTables(d, e, TablesOf(r))
    BY <2>1, InTablesStays DEF Kinder
  <2>2. CASE InLogs(y, d, e, LogOf(r))
    BY <2>2, <1>1 DEF Kinder
  <2> QED
    BY <2>1, <2>2 DEF Holds
<1>5. Names(f, r)
  BY <1>1, <1>2, <1>3 DEF Names
<1>6. Holds(y, f, p, r)
  BY <1>4 DEF Holds
<1> QED
  BY <1>5, <1>6

(* A disk with the same manifest and kinder files stays sound. *)
LEMMA DiskStaysSound ==
  ASSUME NEW y, NEW d, NEW f, NEW p, DiskSound(y, d, p), f.current = d.current,
         d.current # 0 => Manifest(f) = Manifest(d) /\ \A c \in Cutting(d) : Kinder(y, d, f, Cut(d, c))
  PROVE  DiskSound(y, f, p)
<1>1. CASE d.current = 0
  BY <1>1 DEF DiskSound
<1>2. CASE d.current # 0
  <2>1. Manifest(f) = Manifest(d)
    BY <1>2
  <2>2. Cutting(f) = Cutting(d) /\ \A c : Cut(f, c) = Cut(d, c)
    BY <2>1 DEF Cutting, Cut
  <2>3. ASSUME NEW c \in Cutting(d) PROVE CutSound(y, f, p, c)
    <3>1. CutSound(y, d, p, c) /\ Kinder(y, d, f, Cut(d, c))
      BY <1>2 DEF DiskSound
    <3>2. Names(f, Cut(d, c)) /\ Holds(y, f, p, Cut(d, c))
      BY <3>1, KinderSound DEF CutSound
    <3> QED
      BY <2>1, <2>2, <3>1, <3>2 DEF CutSound
  <2> QED
    BY <1>2, <2>1, <2>2, <2>3 DEF DiskSound
<1> QED
  BY <1>1, <1>2

(* Logs that grow and tables that stay make a disk kinder. *)
LEMMA GrowingIsKinder ==
  ASSUME NEW y, NEW d, NEW f, NEW r, DiskTyped(d), DiskTyped(f), LogsGrow(d, f),
         \A n \in DOMAIN f.logs : n < LogOf(r) => n \in DOMAIN d.logs /\ f.logs[n].recs = d.logs[n].recs,
         \A t \in TablesOf(r) : t \in DOMAIN d.tables => t \in DOMAIN f.tables /\ f.tables[t].data = d.tables[t].data
  PROVE  Kinder(y, d, f, r)
  BY LoggedStays DEF Kinder

(* The operations on files. *)
LEMMA RecordTyped ==
  ASSUME NEW rec \in Records, NEW recs \in Seq(Records)
  PROVE  Append(recs, rec) \in Seq(Records) /\ Len(Append(recs, rec)) = Len(recs) + 1
         /\ Append(recs, rec)[Len(recs) + 1] = rec
         /\ \A i \in 1 .. Len(recs) : Append(recs, rec)[i] = recs[i]
  OBVIOUS

(* Another log replaces log n, and extends it. *)
LEMMA LogReplaced ==
  ASSUME NEW d, DiskTyped(d), NEW n \in DOMAIN d.logs, NEW file \in LogFiles, NEW f,
         f = [d EXCEPT !.logs[n] = file],
         file.synced <= Len(file.recs), d.logs[n].synced <= file.synced,
         \A i \in DOMAIN d.logs[n].recs : i \in DOMAIN file.recs /\ file.recs[i] = d.logs[n].recs[i]
  PROVE  /\ DiskTyped(f) /\ LogsGrow(d, f)
         /\ f.current = d.current /\ f.manifests = d.manifests /\ f.tables = d.tables
         /\ DOMAIN f.logs = DOMAIN d.logs /\ f.logs[n] = file
         /\ \A m \in DOMAIN d.logs : m # n => f.logs[m] = d.logs[m]
<1>1. DOMAIN d = {"current", "manifests", "logs", "tables"}
  BY DEF DiskTyped
<1>2. /\ f.current = d.current /\ f.manifests = d.manifests /\ f.tables = d.tables /\ DOMAIN f = DOMAIN d
      /\ DOMAIN f.logs = DOMAIN d.logs /\ f.logs[n] = file
      /\ \A m \in DOMAIN d.logs : m # n => f.logs[m] = d.logs[m]
  BY <1>1
<1>3. LogsTyped(f)
  BY <1>2 DEF DiskTyped, LogsTyped
<1>4. ManifestsTyped(f) /\ TablesTyped(f)
  BY <1>2 DEF DiskTyped, ManifestsTyped, TablesTyped
<1>5. \A m \in DOMAIN d.logs : d.logs[m].synced \in Nat
  BY LogTyped
<1>6. LogsGrow(d, f)
  BY <1>2, <1>5 DEF LogsGrow
<1> QED
  BY <1>1, <1>2, <1>3, <1>4, <1>6 DEF DiskTyped

(* What appending a record to a log changes. *)
LEMMA AppendLogFacts ==
  ASSUME NEW d, DiskTyped(d), NEW n \in DOMAIN d.logs, NEW rec \in Records, NEW f, f = AppendLog(d, n, rec)
  PROVE  /\ DiskTyped(f) /\ LogsGrow(d, f)
         /\ f.current = d.current /\ f.manifests = d.manifests /\ f.tables = d.tables
         /\ DOMAIN f.logs = DOMAIN d.logs /\ \A m \in DOMAIN d.logs : m # n => f.logs[m] = d.logs[m]
         /\ DOMAIN f.logs[n].recs = 1 .. Len(d.logs[n].recs) + 1
         /\ f.logs[n].recs[Len(d.logs[n].recs) + 1] = rec
         /\ \A i \in DOMAIN d.logs[n].recs : f.logs[n].recs[i] = d.logs[n].recs[i]
<1> DEFINE recs == d.logs[n].recs
           file == [recs |-> Append(recs, rec), synced |-> d.logs[n].synced]
<1>1. /\ recs \in Seq(Records) /\ Len(recs) \in Nat /\ d.logs[n].synced \in Nat /\ d.logs[n].synced <= Len(recs)
      /\ DOMAIN d.logs[n] = {"recs", "synced"} /\ DOMAIN recs = 1 .. Len(recs)
  BY LogTyped
<1>2. /\ Append(recs, rec) \in Seq(Records) /\ Len(Append(recs, rec)) = Len(recs) + 1
      /\ Append(recs, rec)[Len(recs) + 1] = rec
      /\ \A i \in 1 .. Len(recs) : Append(recs, rec)[i] = recs[i]
  BY <1>1, RecordTyped
<1>3. DOMAIN Append(recs, rec) = 1 .. Len(recs) + 1
  BY <1>2
<1> DEFINE longer == Append(recs, rec)
<1>4. file = [d.logs[n] EXCEPT !.recs = longer]
  <2>1. d.logs[n] \in LogFiles
    BY DEF DiskTyped, LogsTyped
  <2>2. \A x : [recs |-> x, synced |-> d.logs[n].synced] = [d.logs[n] EXCEPT !.recs = x]
    BY <2>1 DEF LogFiles
  <2> HIDE DEF longer
  <2>3. file = [recs |-> longer, synced |-> d.logs[n].synced]
    BY DEF longer
  <2> QED
    BY <2>2, <2>3
<1>5. f = [d EXCEPT !.logs[n] = file]
  BY <1>4 DEF AppendLog
<1> HIDE DEF longer
<1>6. file = [recs |-> longer, synced |-> d.logs[n].synced]
  BY DEF longer
<1>7. file \in LogFiles /\ file.synced <= Len(file.recs) /\ d.logs[n].synced <= file.synced
  BY <1>1, <1>2, <1>6 DEF LogFiles, longer
<1> HIDE DEF file
<1>8. \A i \in DOMAIN recs : i \in DOMAIN file.recs /\ file.recs[i] = recs[i]
  BY <1>1, <1>2, <1>3, <1>6 DEF longer
<1>9. /\ DiskTyped(f) /\ LogsGrow(d, f)
      /\ f.current = d.current /\ f.manifests = d.manifests /\ f.tables = d.tables
      /\ DOMAIN f.logs = DOMAIN d.logs /\ f.logs[n] = file
      /\ \A m \in DOMAIN d.logs : m # n => f.logs[m] = d.logs[m]
  BY <1>5, <1>7, <1>8, LogReplaced
<1>10. f.logs[n].recs = longer
  BY <1>6, <1>9
<1> QED
  BY <1>1, <1>2, <1>3, <1>9, <1>10 DEF longer

WithSync(d, n) == [d EXCEPT !.logs[n] = SyncFile(@)]
(* What syncing a log changes. *)
LEMMA SyncLogFacts ==
  ASSUME NEW d, DiskTyped(d), NEW n \in DOMAIN d.logs, NEW f, f = WithSync(d, n)
  PROVE  /\ DiskTyped(f) /\ LogsGrow(d, f)
         /\ f.current = d.current /\ f.manifests = d.manifests /\ f.tables = d.tables
         /\ DOMAIN f.logs = DOMAIN d.logs /\ \A m \in DOMAIN d.logs : m # n => f.logs[m] = d.logs[m]
         /\ f.logs[n].recs = d.logs[n].recs /\ f.logs[n].synced = Len(d.logs[n].recs)
<1> DEFINE recs == d.logs[n].recs
           file == [recs |-> recs, synced |-> Len(recs)]
<1>1. /\ recs \in Seq(Records) /\ Len(recs) \in Nat /\ d.logs[n].synced \in Nat /\ d.logs[n].synced <= Len(recs)
  BY LogTyped
<1>2. file = SyncFile(d.logs[n])
  <2>1. d.logs[n] \in LogFiles
    BY DEF DiskTyped, LogsTyped
  <2> QED
    BY <2>1 DEF LogFiles, SyncFile
<1>3. f = [d EXCEPT !.logs[n] = file]
  BY <1>2 DEF WithSync
<1>4. file \in LogFiles /\ file.synced <= Len(file.recs) /\ d.logs[n].synced <= file.synced
      /\ file.recs = recs /\ file.synced = Len(recs)
  BY <1>1 DEF LogFiles
<1> HIDE DEF file
<1>6. \A i \in DOMAIN d.logs[n].recs : i \in DOMAIN file.recs /\ file.recs[i] = d.logs[n].recs[i]
  BY <1>4
<1>5. /\ DiskTyped(f) /\ LogsGrow(d, f)
      /\ f.current = d.current /\ f.manifests = d.manifests /\ f.tables = d.tables
      /\ DOMAIN f.logs = DOMAIN d.logs /\ f.logs[n] = file
      /\ \A m \in DOMAIN d.logs : m # n => f.logs[m] = d.logs[m]
  BY <1>3, <1>4, <1>6, LogReplaced
<1> QED
  BY <1>4, <1>5

WithLog(d, n) == [d EXCEPT !.logs = Put(@, n, NewLogFile)]
(* What a new log changes. *)
LEMMA NewLogFacts ==
  ASSUME NEW d, DiskTyped(d), NEW n \in Nat, n \notin DOMAIN d.logs, NEW f,
         f = WithLog(d, n)
  PROVE  /\ DiskTyped(f) /\ LogsGrow(d, f)
         /\ f.current = d.current /\ f.manifests = d.manifests /\ f.tables = d.tables
         /\ DOMAIN f.logs = DOMAIN d.logs \cup {n} /\ f.logs[n] = NewLogFile /\ f.logs[n].recs = <<>>
         /\ \A m \in DOMAIN d.logs : f.logs[m] = d.logs[m]
<1>1. DOMAIN d = {"current", "manifests", "logs", "tables"}
  BY DEF DiskTyped
<1>2. /\ f.current = d.current /\ f.manifests = d.manifests /\ f.tables = d.tables /\ DOMAIN f = DOMAIN d
      /\ f.logs = Put(d.logs, n, NewLogFile)
  BY <1>1 DEF WithLog
<1>3. /\ DOMAIN f.logs = DOMAIN d.logs \cup {n} /\ f.logs[n] = NewLogFile
      /\ \A m \in DOMAIN d.logs : f.logs[m] = d.logs[m]
  <2>1. \A m \in DOMAIN d.logs : m # n
    OBVIOUS
  <2>2. /\ DOMAIN Put(d.logs, n, NewLogFile) = DOMAIN d.logs \cup {n} /\ Put(d.logs, n, NewLogFile)[n] = NewLogFile
        /\ \A m \in DOMAIN d.logs : m # n => Put(d.logs, n, NewLogFile)[m] = d.logs[m]
    BY DEF Put
  <2> QED
    BY <1>2, <2>1, <2>2
<1>4. NewLogFile \in LogFiles /\ NewLogFile.synced <= Len(NewLogFile.recs) /\ NewLogFile.recs = <<>>
  BY DEF NewLogFile, LogFiles
<1>5. LogsTyped(f)
  BY <1>3, <1>4 DEF DiskTyped, LogsTyped
<1>6. ManifestsTyped(f) /\ TablesTyped(f)
  BY <1>2 DEF DiskTyped, ManifestsTyped, TablesTyped
<1>7. LogsGrow(d, f)
  <2>1. \A m \in DOMAIN d.logs : d.logs[m].synced \in Nat
    BY LogTyped
  <2> QED
    BY <1>3, <2>1 DEF LogsGrow
<1> QED
  BY <1>1, <1>2, <1>3, <1>4, <1>5, <1>6, <1>7 DEF DiskTyped

(* A table is added. *)
WithTable(d, n, data) == [d EXCEPT !.tables = Put(@, n, [data |-> data, synced |-> TRUE])]
(* What a new table changes. *)
LEMMA NewTableFacts ==
  ASSUME NEW d, DiskTyped(d), NEW n \in Nat, NEW data \in Records, NEW f, f = WithTable(d, n, data)
  PROVE  /\ DiskTyped(f) /\ f.current = d.current /\ f.manifests = d.manifests /\ f.logs = d.logs
         /\ DOMAIN f.tables = DOMAIN d.tables \cup {n} /\ f.tables[n].data = data
         /\ \A t \in DOMAIN d.tables : t # n => f.tables[t] = d.tables[t]
<1> DEFINE file == [data |-> data, synced |-> TRUE]
<1>1. DOMAIN d = {"current", "manifests", "logs", "tables"}
  BY DEF DiskTyped
<1>2. file \in TableFiles /\ file.data = data
  BY DEF TableFiles
<1>3. f = [d EXCEPT !.tables = Put(d.tables, n, file)]
  BY DEF WithTable
<1> HIDE DEF file
<1>4. /\ f.current = d.current /\ f.manifests = d.manifests /\ f.logs = d.logs /\ DOMAIN f = DOMAIN d
      /\ f.tables = Put(d.tables, n, file)
  BY <1>1, <1>3
<1>5. /\ DOMAIN f.tables = DOMAIN d.tables \cup {n} /\ f.tables[n] = file
      /\ \A t \in DOMAIN d.tables : t # n => f.tables[t] = d.tables[t]
  BY <1>4 DEF Put
<1>6. TablesTyped(f)
  <2>1. \A t \in DOMAIN f.tables : t \in Nat /\ f.tables[t] \in TableFiles
    BY <1>2, <1>5 DEF DiskTyped, TablesTyped
  <2> QED
    BY <2>1 DEF TablesTyped
<1>7. ManifestsTyped(f) /\ LogsTyped(f)
  BY <1>4 DEF DiskTyped, ManifestsTyped, LogsTyped
<1> QED
  BY <1>1, <1>2, <1>4, <1>5, <1>6, <1>7 DEF DiskTyped

(* A manifest is written, or removed, that is not the current one. *)
WithManifest(d, n, file) == [d EXCEPT !.manifests = Put(@, n, file)]
(* What a new manifest that is not current changes. *)
LEMMA NewManifestFileFacts ==
  ASSUME NEW d, DiskTyped(d), NEW n \in Nat, n # d.current, NEW file \in ManifestFiles,
         file.synced <= Len(file.recs), NEW f, f = WithManifest(d, n, file)
  PROVE  /\ DiskTyped(f) /\ f.current = d.current /\ f.logs = d.logs /\ f.tables = d.tables
         /\ n \in DOMAIN f.manifests /\ f.manifests[n] = file
         /\ d.current # 0 => Manifest(f) = Manifest(d)
<1>1. DOMAIN d = {"current", "manifests", "logs", "tables"}
  BY DEF DiskTyped
<1>2. f = [d EXCEPT !.manifests = Put(d.manifests, n, file)]
  BY DEF WithManifest
<1>3. /\ f.current = d.current /\ f.logs = d.logs /\ f.tables = d.tables /\ DOMAIN f = DOMAIN d
      /\ f.manifests = Put(d.manifests, n, file)
  BY <1>1, <1>2
<1>4. /\ DOMAIN f.manifests = DOMAIN d.manifests \cup {n} /\ f.manifests[n] = file
      /\ \A m \in DOMAIN d.manifests : m # n => f.manifests[m] = d.manifests[m]
  BY <1>3 DEF Put
<1>5. d.current # 0 => d.current \in DOMAIN d.manifests
  BY DEF DiskTyped, ManifestsTyped
<1>6. ManifestsTyped(f)
  <2>1. ASSUME NEW m \in DOMAIN f.manifests
        PROVE  m \in Nat /\ f.manifests[m] \in ManifestFiles /\ f.manifests[m].synced <= Len(f.manifests[m].recs)
    <3>1. CASE m = n
      BY <3>1, <1>4
    <3>2. CASE m # n
      <4>1. m \in DOMAIN d.manifests /\ f.manifests[m] = d.manifests[m]
        BY <3>2, <1>4
      <4>2. m \in Nat /\ d.manifests[m] \in ManifestFiles /\ d.manifests[m].synced <= Len(d.manifests[m].recs)
        BY <4>1 DEF DiskTyped, ManifestsTyped
      <4> QED
        BY <4>1, <4>2
    <3> QED
      BY <3>1, <3>2
  <2>2. d.current \in Nat
    BY DEF DiskTyped, ManifestsTyped
  <2> QED
    BY <1>3, <1>4, <1>5, <2>1, <2>2 DEF ManifestsTyped
<1>7. LogsTyped(f) /\ TablesTyped(f)
  BY <1>3 DEF DiskTyped, TablesTyped, LogsTyped
<1>8. d.current # 0 => Manifest(f) = Manifest(d)
  BY <1>3, <1>4, <1>5 DEF Manifest
<1> QED
  BY <1>1, <1>3, <1>4, <1>6, <1>7, <1>8 DEF DiskTyped

WithoutManifest(d, n) == [d EXCEPT !.manifests = Without(@, {n})]
(* What removing a manifest that is not current changes. *)
LEMMA ManifestRemovedFacts ==
  ASSUME NEW d, DiskTyped(d), NEW n, n # d.current, NEW f, f = WithoutManifest(d, n)
  PROVE  /\ DiskTyped(f) /\ f.current = d.current /\ f.logs = d.logs /\ f.tables = d.tables
         /\ d.current # 0 => Manifest(f) = Manifest(d)
<1>1. DOMAIN d = {"current", "manifests", "logs", "tables"}
  BY DEF DiskTyped
<1>2. f = [d EXCEPT !.manifests = Without(d.manifests, {n})]
  BY DEF WithoutManifest
<1>3. /\ f.current = d.current /\ f.logs = d.logs /\ f.tables = d.tables /\ DOMAIN f = DOMAIN d
      /\ f.manifests = Without(d.manifests, {n})
  BY <1>1, <1>2
<1>4. /\ DOMAIN f.manifests = DOMAIN d.manifests \ {n}
      /\ \A m \in DOMAIN f.manifests : f.manifests[m] = d.manifests[m]
  BY <1>3 DEF Without
<1>5. ManifestsTyped(f)
  BY <1>3, <1>4 DEF DiskTyped, ManifestsTyped
<1>6. LogsTyped(f) /\ TablesTyped(f)
  BY <1>3 DEF DiskTyped, TablesTyped, LogsTyped
<1>7. d.current # 0 => Manifest(f) = Manifest(d)
  BY <1>3, <1>4 DEF Manifest, DiskTyped, ManifestsTyped
<1> QED
  BY <1>1, <1>3, <1>5, <1>6, <1>7 DEF DiskTyped

(* CURRENT names another manifest. *)
WithCurrent(d, n) == [d EXCEPT !.current = n]
(* What setting CURRENT changes. *)
LEMMA NewCurrentFacts ==
  ASSUME NEW d, DiskTyped(d), NEW n \in DOMAIN d.manifests, NEW f, f = WithCurrent(d, n)
  PROVE  /\ DiskTyped(f) /\ f.current = n /\ f.logs = d.logs /\ f.tables = d.tables /\ f.manifests = d.manifests
         /\ Manifest(f) = d.manifests[n]
<1>1. DOMAIN d = {"current", "manifests", "logs", "tables"}
  BY DEF DiskTyped
<1>2. /\ f.current = n /\ f.logs = d.logs /\ f.tables = d.tables /\ f.manifests = d.manifests /\ DOMAIN f = DOMAIN d
  BY <1>1 DEF WithCurrent
<1>3. ManifestsTyped(f) /\ LogsTyped(f) /\ TablesTyped(f)
  BY <1>2 DEF DiskTyped, TablesTyped, LogsTyped, ManifestsTyped
<1> QED
  BY <1>1, <1>2, <1>3 DEF DiskTyped, Manifest

(* An edit is appended to the current manifest: one more prefix. *)
WithEdit(d, e) == [d EXCEPT !.manifests[d.current].recs = Append(@, e)]
(* What appending an edit to the manifest changes. *)
LEMMA NewEditFacts ==
  ASSUME NEW d, DiskTyped(d), d.current # 0, NEW e \in Edits, NEW f, f = WithEdit(d, e)
  PROVE  /\ DiskTyped(f) /\ f.current = d.current /\ f.logs = d.logs /\ f.tables = d.tables
         /\ DOMAIN f.manifests = DOMAIN d.manifests
         /\ Manifest(f).recs = Append(Manifest(d).recs, e) /\ Manifest(f).synced = Manifest(d).synced
         /\ Len(Manifest(f).recs) = Len(Manifest(d).recs) + 1
         /\ Manifest(f).recs[Len(Manifest(f).recs)] = e
         /\ Cutting(f) = Cutting(d) \cup {Len(Manifest(f).recs)}
         /\ \A c \in Cutting(d) : Cut(f, c) = Cut(d, c)
         /\ Cut(f, Len(Manifest(d).recs)) = Manifest(d).recs
         /\ Cut(f, Len(Manifest(f).recs)) = Append(Manifest(d).recs, e)
<1> DEFINE recs == Manifest(d).recs
           longer == Append(recs, e)
           n == d.current
<1>1. DOMAIN d = {"current", "manifests", "logs", "tables"} /\ n \in DOMAIN d.manifests
  BY DEF DiskTyped, ManifestsTyped
<1>2. /\ recs \in Seq(Edits) /\ Len(recs) \in Nat
      /\ Manifest(d).synced \in Nat /\ Manifest(d).synced <= Len(recs)
      /\ \A c \in Cutting(d) : c \in 1 .. Len(recs)
  BY CutTyped
<1>3. /\ longer \in Seq(Edits) /\ Len(longer) = Len(recs) + 1 /\ longer[Len(recs) + 1] = e
      /\ SubSeq(longer, 1, Len(recs) + 1) = longer
      /\ \A c \in 0 .. Len(recs) : SubSeq(longer, 1, c) = SubSeq(recs, 1, c)
      /\ SubSeq(recs, 1, Len(recs)) = recs
  <2>1. Len(longer) = Len(recs) + 1 /\ longer[Len(recs) + 1] = e
    BY <1>2
  <2> QED
    BY <1>2, <2>1, PrefixFacts
<1>4. f = [d EXCEPT !.manifests[n] = [d.manifests[n] EXCEPT !.recs = longer]]
  BY DEF WithEdit, Manifest
<1> HIDE DEF longer
<1>5. /\ f.current = d.current /\ f.logs = d.logs /\ f.tables = d.tables /\ DOMAIN f = DOMAIN d
      /\ DOMAIN f.manifests = DOMAIN d.manifests
      /\ f.manifests[n] = [d.manifests[n] EXCEPT !.recs = longer]
      /\ \A m \in DOMAIN d.manifests : m # n => f.manifests[m] = d.manifests[m]
  BY <1>1, <1>4
<1>6. f.manifests[n].recs = longer /\ f.manifests[n].synced = d.manifests[n].synced /\ f.manifests[n] \in ManifestFiles
  <2>1. d.manifests[n] \in ManifestFiles
    BY <1>1 DEF DiskTyped, ManifestsTyped
  <2> QED
    BY <2>1, <1>3, <1>5 DEF ManifestFiles
<1>7. Manifest(f).recs = longer /\ Manifest(f).synced = Manifest(d).synced
  BY <1>5, <1>6 DEF Manifest
<1>8. ManifestsTyped(f)
  <2>1. f.manifests[n].synced <= Len(f.manifests[n].recs)
    BY <1>2, <1>3, <1>6 DEF Manifest
  <2> QED
    BY <1>5, <1>6, <2>1 DEF DiskTyped, ManifestsTyped
<1>9. LogsTyped(f) /\ TablesTyped(f)
  BY <1>5 DEF DiskTyped, TablesTyped, LogsTyped
<1>10. Cutting(f) = Cutting(d) \cup {Len(recs) + 1}
  BY <1>2, <1>3, <1>7 DEF Cutting
<1>11. \A c \in 0 .. Len(recs) : Cut(f, c) = SubSeq(recs, 1, c)
  BY <1>3, <1>7 DEF Cut
<1>12. \A c \in Cutting(d) : Cut(f, c) = Cut(d, c)
  BY <1>2, <1>11 DEF Cut
<1>13. Cut(f, Len(recs)) = recs
  <2>1. Len(recs) \in 0 .. Len(recs)
    BY <1>2
  <2> QED
    BY <1>3, <1>11, <2>1
<1>14. Cut(f, Len(recs) + 1) = longer
  BY <1>3, <1>7 DEF Cut
<1>15. DiskTyped(f)
  BY <1>1, <1>5, <1>8, <1>9 DEF DiskTyped
<1> QED
  BY <1>3, <1>5, <1>7, <1>10, <1>12, <1>13, <1>14, <1>15 DEF longer

(* The current manifest is synced: only the whole of it is left. *)
WithManifestSync(d) == [d EXCEPT !.manifests[d.current] = SyncFile(@)]
(* What syncing the manifest changes. *)
LEMMA ManifestSyncFacts ==
  ASSUME NEW d, DiskTyped(d), d.current # 0, Len(Manifest(d).recs) >= 1, NEW f, f = WithManifestSync(d)
  PROVE  /\ DiskTyped(f) /\ f.current = d.current /\ f.logs = d.logs /\ f.tables = d.tables
         /\ Manifest(f).recs = Manifest(d).recs /\ Manifest(f).synced = Len(Manifest(d).recs)
         /\ Cutting(f) = {Len(Manifest(d).recs)} /\ Len(Manifest(d).recs) \in Cutting(d)
         /\ \A c : Cut(f, c) = Cut(d, c)
         /\ Cut(f, Len(Manifest(d).recs)) = Manifest(d).recs
<1> DEFINE n == d.current
<1>1. DOMAIN d = {"current", "manifests", "logs", "tables"} /\ n \in DOMAIN d.manifests
  BY DEF DiskTyped, ManifestsTyped
<1>2. /\ Manifest(d).recs \in Seq(Edits) /\ Len(Manifest(d).recs) \in Nat
      /\ Len(Manifest(d).recs) \in Cutting(d) /\ Cut(d, Len(Manifest(d).recs)) = Manifest(d).recs
  BY CutTyped
<1>3. /\ f.current = d.current /\ f.logs = d.logs /\ f.tables = d.tables /\ DOMAIN f = DOMAIN d
      /\ DOMAIN f.manifests = DOMAIN d.manifests
      /\ f.manifests[n] = SyncFile(d.manifests[n])
      /\ \A m \in DOMAIN d.manifests : m # n => f.manifests[m] = d.manifests[m]
  BY <1>1 DEF WithManifestSync
<1>4. /\ f.manifests[n].recs = Manifest(d).recs /\ f.manifests[n].synced = Len(Manifest(d).recs)
      /\ f.manifests[n] \in ManifestFiles
  <2>1. d.manifests[n] \in ManifestFiles
    BY <1>1 DEF DiskTyped, ManifestsTyped
  <2> QED
    BY <2>1, <1>2, <1>3 DEF ManifestFiles, SyncFile, Manifest
<1>5. Manifest(f).recs = Manifest(d).recs /\ Manifest(f).synced = Len(Manifest(d).recs)
  BY <1>3, <1>4 DEF Manifest
<1>6. ManifestsTyped(f)
  <2>1. f.manifests[n].synced <= Len(f.manifests[n].recs)
    BY <1>2, <1>4
  <2> QED
    BY <1>3, <1>4, <2>1 DEF DiskTyped, ManifestsTyped
<1>7. LogsTyped(f) /\ TablesTyped(f)
  BY <1>3 DEF DiskTyped, TablesTyped, LogsTyped
<1>8. Cutting(f) = {Len(Manifest(d).recs)}
  BY <1>2, <1>5 DEF Cutting
<1>9. \A c : Cut(f, c) = Cut(d, c)
  BY <1>5 DEF Cut
<1> QED
  BY <1>1, <1>2, <1>3, <1>5, <1>6, <1>7, <1>8, <1>9 DEF DiskTyped

(* Files that the version and the logs in use do not need are removed. *)
LEMMA DeleteFacts ==
  ASSUME NEW d, DiskTyped(d), NEW b, d.current = b.manifest, b.log_number \in Nat, NEW f, f = DeleteObsoleteFiles(b, d)
  PROVE  /\ DiskTyped(f) /\ f.current = d.current
         /\ d.current # 0 => Manifest(f) = Manifest(d)
         /\ DOMAIN f.logs \subseteq DOMAIN d.logs /\ DOMAIN f.tables \subseteq DOMAIN d.tables
         /\ \A n \in DOMAIN f.logs : f.logs[n] = d.logs[n]
         /\ \A t \in DOMAIN f.tables : f.tables[t] = d.tables[t]
         /\ b.bg_error => f = d
         /\ \A n \in DOMAIN d.logs : n >= b.log_number => n \in DOMAIN f.logs
         /\ \A t \in DOMAIN d.tables : t \in Tables(b.version) => t \in DOMAIN f.tables
<1>1. CASE b.bg_error
  <2>1. f = d
    BY <1>1 DEF DeleteObsoleteFiles
  <2> QED
    BY <2>1
<1>2. CASE ~ b.bg_error
  <2> DEFINE ls == {n \in DOMAIN d.logs : n < b.log_number}
             ms == {n \in DOMAIN d.manifests : n < b.manifest}
             ts == {n \in DOMAIN d.tables : n \notin Tables(b.version) \cup b.pending}
  <2>1. DOMAIN d = {"current", "manifests", "logs", "tables"}
    BY DEF DiskTyped
  <2>2. f = [d EXCEPT !.logs = Without(d.logs, ls), !.manifests = Without(d.manifests, ms), !.tables = Without(d.tables, ts)]
    BY <1>2 DEF DeleteObsoleteFiles
  <2>3. /\ DOMAIN f = DOMAIN d /\ f.current = d.current
        /\ f.logs = Without(d.logs, ls) /\ f.manifests = Without(d.manifests, ms) /\ f.tables = Without(d.tables, ts)
    BY <2>1, <2>2
  <2>4. DOMAIN f.logs = DOMAIN d.logs \ ls /\ \A n \in DOMAIN f.logs : f.logs[n] = d.logs[n]
    BY <2>3 DEF Without
  <2>5. DOMAIN f.manifests = DOMAIN d.manifests \ ms /\ \A n \in DOMAIN f.manifests : f.manifests[n] = d.manifests[n]
    BY <2>3 DEF Without
  <2>6. DOMAIN f.tables = DOMAIN d.tables \ ts /\ \A n \in DOMAIN f.tables : f.tables[n] = d.tables[n]
    BY <2>3 DEF Without
  <2>7. LogsTyped(f)
    BY <2>4 DEF DiskTyped, LogsTyped
  <2>8. TablesTyped(f)
    BY <2>6 DEF DiskTyped, TablesTyped
  <2>9. d.current \in Nat /\ d.current \notin ms
    BY DEF DiskTyped, ManifestsTyped
  <2>10. ManifestsTyped(f)
    BY <2>3, <2>5, <2>9 DEF DiskTyped, ManifestsTyped
  <2>11. d.current # 0 => Manifest(f) = Manifest(d)
    BY <2>3, <2>5, <2>9 DEF DiskTyped, ManifestsTyped, Manifest
  <2>12. DiskTyped(f)
    BY <2>1, <2>3, <2>7, <2>8, <2>10 DEF DiskTyped
  <2>13. \A n \in DOMAIN d.logs : n >= b.log_number => n \in DOMAIN f.logs
    <3> SUFFICES ASSUME NEW n \in DOMAIN d.logs, n >= b.log_number, n \in ls PROVE FALSE
      BY <2>4
    <3>1. n \in Nat
      BY DEF DiskTyped, LogsTyped
    <3> QED
      BY <3>1
  <2>14. \A t \in DOMAIN d.tables : t \in Tables(b.version) => t \in DOMAIN f.tables
    BY <2>6
  <2> QED
    BY <1>2, <2>3, <2>4, <2>6, <2>11, <2>12, <2>13, <2>14
<1> QED
  BY <1>1, <1>2

(* What a crash of the machine leaves. *)
CutFile(file, cut, k) ==
    /\ k \in Nat /\ file.synced <= k /\ k <= Len(file.recs)
    /\ cut = [recs |-> SubSeq(file.recs, 1, k), synced |-> k]

(* Every file a machine leaves is a prefix of the one that was there. *)
LEMMA CutsFacts ==
  ASSUME NEW files, NEW ls \in Cuts(files)
  PROVE  DOMAIN ls = DOMAIN files /\ \A n \in DOMAIN files : \E k : CutFile(files[n], ls[n], k)
<1> DEFINE top == Max({0} \cup {Len(files[n].recs) : n \in DOMAIN files})
<1>1. PICK c \in [DOMAIN files -> 0 .. top] :
         /\ \A n \in DOMAIN files : files[n].synced <= c[n] /\ c[n] <= Len(files[n].recs)
         /\ ls = [n \in DOMAIN files |-> [recs |-> SubSeq(files[n].recs, 1, c[n]), synced |-> c[n]]]
  BY DEF Cuts
<1> HIDE DEF top
<1>2. \A n \in DOMAIN files : c[n] \in 0 .. top
  BY <1>1
<1>3. \A n \in DOMAIN files : c[n] \in Nat
  BY <1>2
<1>4. \A n \in DOMAIN files : CutFile(files[n], ls[n], c[n])
  BY <1>1, <1>3 DEF CutFile
<1>5. DOMAIN ls = DOMAIN files
  BY <1>1
<1> QED
  BY <1>4, <1>5

(* A machine that stops cuts logs and manifests and keeps synced tables. *)
LEMMA MachineCrashFacts ==
  ASSUME NEW d, DiskTyped(d), NEW f \in AfterMachineCrash(d)
  PROVE  /\ DOMAIN f = DOMAIN d /\ f.current = d.current
         /\ DOMAIN f.tables = DOMAIN d.tables /\ \A t \in DOMAIN d.tables : f.tables[t] = d.tables[t]
         /\ DOMAIN f.logs = DOMAIN d.logs /\ \A n \in DOMAIN d.logs : \E k : CutFile(d.logs[n], f.logs[n], k)
         /\ DOMAIN f.manifests = DOMAIN d.manifests
         /\ \A n \in DOMAIN d.manifests : \E k : CutFile(d.manifests[n], f.manifests[n], k)
<1> DEFINE ts == WholeTables(d.tables)
<1>1. PICK c \in Cuts(d.logs) \X Cuts(d.manifests) : f = [d EXCEPT !.logs = c[1], !.manifests = c[2], !.tables = ts]
  BY DEF AfterMachineCrash
<1>2. DOMAIN ts = DOMAIN d.tables /\ \A t \in DOMAIN d.tables : ts[t] = d.tables[t]
  <2>1. \A t \in DOMAIN d.tables : d.tables[t].synced = TRUE
    BY TableTyped
  <2> QED
    BY <2>1 DEF WholeTables
<1> HIDE DEF ts
<1> DEFINE ls == c[1]
           ms == c[2]
<1>a. ls \in Cuts(d.logs) /\ ms \in Cuts(d.manifests) /\ f = [d EXCEPT !.logs = ls, !.manifests = ms, !.tables = ts]
  BY <1>1
<1> HIDE DEF ls, ms
<1>3. DOMAIN d = {"current", "manifests", "logs", "tables"}
  BY DEF DiskTyped
<1>4. DOMAIN f = DOMAIN d /\ f.current = d.current /\ f.logs = ls /\ f.manifests = ms /\ f.tables = ts
  BY <1>a, <1>3
<1>5. DOMAIN ls = DOMAIN d.logs /\ \A n \in DOMAIN d.logs : \E k : CutFile(d.logs[n], ls[n], k)
  BY <1>a, CutsFacts
<1>6. DOMAIN ms = DOMAIN d.manifests /\ \A n \in DOMAIN d.manifests : \E k : CutFile(d.manifests[n], ms[n], k)
  BY <1>a, CutsFacts
<1> QED
  BY <1>2, <1>4, <1>5, <1>6

(* A cut file has the shape of a file. *)
LEMMA CutFileTyped ==
  ASSUME NEW S, NEW file \in [recs : Seq(S), synced : Nat], NEW cut, NEW k, CutFile(file, cut, k)
  PROVE  /\ cut \in [recs : Seq(S), synced : Nat] /\ cut.synced <= Len(cut.recs)
         /\ cut.recs = SubSeq(file.recs, 1, k) /\ cut.synced = k /\ Len(cut.recs) = k
         /\ k \in 0 .. Len(file.recs) /\ Len(file.recs) \in Nat
         /\ DOMAIN cut.recs = 1 .. k /\ \A i \in 1 .. k : i \in DOMAIN file.recs /\ cut.recs[i] = file.recs[i]
<1>1. file.recs \in Seq(S) /\ Len(file.recs) \in Nat /\ DOMAIN file.recs = 1 .. Len(file.recs)
  OBVIOUS
<1>2. k \in 0 .. Len(file.recs) /\ cut = [recs |-> SubSeq(file.recs, 1, k), synced |-> k]
  BY <1>1 DEF CutFile
<1> DEFINE short == SubSeq(file.recs, 1, k)
<1>3. /\ short \in Seq(S) /\ Len(short) = k /\ DOMAIN short = 1 .. k
      /\ \A i \in 1 .. k : short[i] = file.recs[i]
  BY <1>1, <1>2, PrefixFacts
<1> HIDE DEF short
<1>4. cut = [recs |-> short, synced |-> k]
  BY <1>2 DEF short
<1>5. cut.recs = short /\ cut.synced = k /\ cut \in [recs : Seq(S), synced : Nat]
  BY <1>2, <1>3, <1>4
<1>6. \A i \in 1 .. k : i \in DOMAIN file.recs
  BY <1>1, <1>2
<1> QED
  BY <1>1, <1>2, <1>3, <1>5, <1>6 DEF short

(* The files a machine leaves have their shapes. *)
LEMMA MachineCrashTyped ==
  ASSUME NEW d, DiskTyped(d), NEW f \in AfterMachineCrash(d)
  PROVE  DiskTyped(f)
<1>1. LogsTyped(f)
  <2>1. DOMAIN f.logs = DOMAIN d.logs /\ DOMAIN d.logs \subseteq Nat
    BY MachineCrashFacts DEF DiskTyped, LogsTyped
  <2>2. ASSUME NEW n \in DOMAIN d.logs PROVE f.logs[n] \in LogFiles /\ f.logs[n].synced <= Len(f.logs[n].recs)
    <3>1. PICK k : CutFile(d.logs[n], f.logs[n], k)
      BY MachineCrashFacts
    <3>2. d.logs[n] \in LogFiles
      BY DEF DiskTyped, LogsTyped
    <3> QED
      BY <3>1, <3>2, CutFileTyped DEF LogFiles
  <2> QED
    BY <2>1, <2>2 DEF LogsTyped
<1>2. ManifestsTyped(f)
  <2>1. /\ DOMAIN f.manifests = DOMAIN d.manifests /\ DOMAIN d.manifests \subseteq Nat /\ f.current = d.current
        /\ d.current \in Nat /\ (d.current # 0 => d.current \in DOMAIN d.manifests)
    BY MachineCrashFacts DEF DiskTyped, ManifestsTyped
  <2>2. ASSUME NEW n \in DOMAIN d.manifests
        PROVE  f.manifests[n] \in ManifestFiles /\ f.manifests[n].synced <= Len(f.manifests[n].recs)
    <3>1. PICK k : CutFile(d.manifests[n], f.manifests[n], k)
      BY MachineCrashFacts
    <3>2. d.manifests[n] \in ManifestFiles
      BY DEF DiskTyped, ManifestsTyped
    <3> QED
      BY <3>1, <3>2, CutFileTyped DEF ManifestFiles
  <2> QED
    BY <2>1, <2>2 DEF ManifestsTyped
<1>3. TablesTyped(f)
  BY MachineCrashFacts DEF DiskTyped, TablesTyped
<1> QED
  BY <1>1, <1>2, <1>3, MachineCrashFacts DEF DiskTyped

(* The files a machine leaves hold what was promised with sync. *)
LEMMA MachineCrashSound ==
  ASSUME NEW y, NEW d, NEW p, DiskTyped(d), DiskSound(y, d, p), NEW f \in AfterMachineCrash(d)
  PROVE  DiskSound(y, f, {e \in p : e.w \in y})
<1> DEFINE q == {e \in p : e.w \in y}
<1>1. f.current = d.current
  BY MachineCrashFacts
<1>2. CASE d.current = 0
  BY <1>1, <1>2 DEF DiskSound
<1>3. CASE d.current # 0
  <2>1. d.current \in DOMAIN d.manifests /\ d.manifests[d.current] \in ManifestFiles
    BY <1>3 DEF DiskTyped, ManifestsTyped
  <2>2. PICK k : CutFile(Manifest(d), Manifest(f), k)
    BY <1>1, <2>1, MachineCrashFacts DEF Manifest
  <2>3. /\ Manifest(f).recs = Cut(d, k) /\ Manifest(f).synced = k /\ Len(Manifest(f).recs) = k
        /\ k \in 0 .. Len(Manifest(d).recs) /\ Len(Manifest(d).recs) \in Nat /\ k \in Nat
        /\ Manifest(d).synced <= k /\ Manifest(d).recs \in Seq(Edits)
    BY <2>1, <2>2, CutFileTyped DEF ManifestFiles, Manifest, CutFile, Cut
  <2>4. \A c \in Cutting(f) : c = k /\ k \in Cutting(d)
    BY <2>3 DEF Cutting
  <2>5. Cut(f, k) = Cut(d, k)
    BY <2>3, CutOfCut DEF Cut
  <2>6. ASSUME k \in Cutting(d) PROVE CutSound(y, f, q, k)
    <3>1. CutSound(y, d, p, k)
      BY <1>3, <2>6 DEF DiskSound
    <3> DEFINE r == Cut(d, k)
    <3>2. Names(d, r) /\ Holds(y, d, p, r) /\ d.current < NextOf(r)
      BY <3>1 DEF CutSound
    <3> HIDE DEF r
    <3>3. /\ DOMAIN f.logs = DOMAIN d.logs /\ DOMAIN f.tables = DOMAIN d.tables
          /\ \A t \in DOMAIN d.tables : f.tables[t] = d.tables[t]
      BY MachineCrashFacts
    <3>4. ASSUME NEW n \in DOMAIN d.logs
          PROVE  /\ \A i \in DOMAIN f.logs[n].recs : i \in DOMAIN d.logs[n].recs /\ f.logs[n].recs[i] = d.logs[n].recs[i]
                 /\ \A i \in DOMAIN d.logs[n].recs : i <= d.logs[n].synced =>
                        i \in DOMAIN f.logs[n].recs /\ f.logs[n].recs[i] = d.logs[n].recs[i] /\ i <= f.logs[n].synced
      <4>1. PICK m : CutFile(d.logs[n], f.logs[n], m)
        BY MachineCrashFacts
      <4>2. d.logs[n] \in LogFiles
        BY DEF DiskTyped, LogsTyped
      <4>3. /\ f.logs[n].synced = m /\ m \in Nat /\ DOMAIN f.logs[n].recs = 1 .. m
            /\ \A i \in 1 .. m : i \in DOMAIN d.logs[n].recs /\ f.logs[n].recs[i] = d.logs[n].recs[i]
            /\ d.logs[n].synced <= m
        BY <4>1, <4>2, CutFileTyped DEF LogFiles, CutFile
      <4>4. d.logs[n].synced \in Nat /\ \A i \in DOMAIN d.logs[n].recs : i \in Nat /\ i >= 1
        BY LogTyped
      <4>5. \A i \in DOMAIN d.logs[n].recs : i <= d.logs[n].synced => i \in 1 .. m
        BY <4>3, <4>4
      <4> QED
        BY <4>3, <4>5
    <3>5. Names(f, r)
      <4>1. ASSUME NEW n \in DOMAIN f.logs, n < LogOf(r) PROVE LogUpTo(f, n, LastSeqOf(r))
        <5>1. LogUpTo(d, n, LastSeqOf(r))
          BY <3>2, <3>3, <4>1 DEF Names
        <5> QED
          BY <3>3, <3>4, <5>1 DEF LogUpTo
      <4>2. \A t \in TablesOf(r) : t < NextOf(r) /\ TableUpTo(f, t, LastSeqOf(r))
        BY <3>2, <3>3 DEF Names, TableUpTo
      <4> QED
        BY <3>2, <4>1, <4>2 DEF Names
    <3>6. Holds(y, f, q, r)
      <4> SUFFICES ASSUME NEW e \in p, e.w \in y PROVE InTables(f, e, TablesOf(r)) \/ InLogs(y, f, e, LogOf(r))
        BY DEF Holds
      <4>1. CASE InTables(d, e, TablesOf(r))
        BY <4>1, <3>3 DEF InTables
      <4>2. CASE InLogs(y, d, e, LogOf(r))
        <5>1. PICK n \in DOMAIN d.logs : n >= LogOf(r) /\ Logged(y, d, e, n)
          BY <4>2 DEF InLogs
        <5>2. PICK i \in DOMAIN d.logs[n].recs : e \in d.logs[n].recs[i] /\ i <= d.logs[n].synced
          BY <5>1 DEF Logged
        <5>3. i \in DOMAIN f.logs[n].recs /\ f.logs[n].recs[i] = d.logs[n].recs[i] /\ i <= f.logs[n].synced
          BY <3>4, <5>2
        <5>4. Logged(y, f, e, n)
          BY <5>2, <5>3 DEF Logged
        <5> QED
          BY <3>3, <5>1, <5>4 DEF InLogs
      <4> QED
        BY <4>1, <4>2, <3>2 DEF Holds
    <3>7. NextOf(r) <= NextOf(r)
      BY <3>2 DEF Names
    <3> QED
      BY <1>1, <2>3, <2>5, <3>2, <3>5, <3>6, <3>7 DEF CutSound, r
  <2>7. q # {} => Manifest(f).synced >= 1
    <3>1. q # {} => Manifest(d).synced >= 1
      BY DEF DiskSound
    <3>2. Manifest(d).synced \in Nat
      BY <1>3, CutTyped
    <3> QED
      BY <2>3, <3>1, <3>2
  <2> QED
    BY <1>1, <1>3, <2>4, <2>6, <2>7 DEF DiskSound
<1> QED
  BY <1>2, <1>3

(* Opening the files finds every promise. *)
LEMMA ContentsHold ==
  ASSUME NEW y, NEW d, NEW p, DiskTyped(d), DiskSound(y, d, p)
  PROVE  p \subseteq Contents(d)
<1> SUFFICES ASSUME NEW e \in p PROVE e \in Contents(d)
  OBVIOUS
<1>1. d.current # 0 /\ Manifest(d).synced >= 1
  BY DEF DiskSound
<1> DEFINE r == Manifest(d).recs
<1>2. Len(r) \in Cutting(d) /\ Cut(d, Len(r)) = r
  BY <1>1, CutTyped
<1>3. CutSound(y, d, p, Len(r))
  BY <1>1, <1>2 DEF DiskSound
<1>4. Names(d, r) /\ Holds(y, d, p, r)
  BY <1>2, <1>3 DEF CutSound
<1>5. /\ Contents(d) = IF LogOf(r) = -1 \/ ~ TablesOf(r) \subseteq DOMAIN d.tables THEN {}
                       ELSE EntriesOf(d, TablesOf(r))
                            \cup UNION {UNION ToSet(d.logs[n].recs) : n \in {n \in DOMAIN d.logs : n >= LogOf(r)}}
  BY <1>1 DEF Contents, Manifest, LogOf, TablesOf
<1> HIDE DEF r
<1>6. LogOf(r) # -1 /\ TablesOf(r) \subseteq DOMAIN d.tables
  BY <1>4 DEF Names, TableUpTo
<1>7. CASE InTables(d, e, TablesOf(r))
  <2>1. e \in EntriesOf(d, TablesOf(r))
    BY <1>7 DEF InTables, EntriesOf
  <2> QED
    BY <1>5, <1>6, <2>1
<1>8. CASE InLogs(y, d, e, LogOf(r))
  <2>1. PICK n \in DOMAIN d.logs : n >= LogOf(r) /\ Logged(y, d, e, n)
    BY <1>8 DEF InLogs
  <2>2. PICK i \in DOMAIN d.logs[n].recs : e \in d.logs[n].recs[i]
    BY <2>1 DEF Logged
  <2>3. e \in UNION ToSet(d.logs[n].recs)
    BY <2>2 DEF ToSet
  <2>4. e \in UNION {UNION ToSet(d.logs[m].recs) : m \in {m \in DOMAIN d.logs : m >= LogOf(r)}}
    BY <2>1, <2>3
  <2> QED
    BY <1>5, <1>6, <2>4
<1> QED
  BY <1>4, <1>7, <1>8 DEF Holds

-----------------------------------------------------------------------------
(***************************************************************************)
(* The queue.                                                              *)
(***************************************************************************)
LEMMA QueueTyped ==
  ASSUME Typed, QueueSound
  PROVE  /\ Len(queue) \in Nat /\ DOMAIN queue = 1 .. Len(queue)
         /\ \A i \in 1 .. Len(queue) : queue[i] \in Writers
         /\ \A w \in Writers : pc[w] \in InQueue \ {"queued"} => Len(queue) >= 1 /\ queue[1] = w
<1>1. Len(queue) \in Nat /\ DOMAIN queue = 1 .. Len(queue) /\ \A i \in 1 .. Len(queue) : queue[i] \in Writers
  BY DEF Typed
<1>2. ASSUME NEW w \in Writers, pc[w] \in InQueue \ {"queued"} PROVE Len(queue) >= 1 /\ queue[1] = w
  <2>1. PICK i \in DOMAIN queue : queue[i] = w
    BY <1>2 DEF QueueSound
  <2>2. i = 1
    BY <1>2, <2>1 DEF QueueSound
  <2> QED
    BY <1>1, <2>1, <2>2
<1> QED
  BY <1>1, <1>2

(* The one at the front is alone there. *)
LEMMA FrontAlone ==
  ASSUME Typed, QueueSound, NEW w \in Writers, pc[w] \in InQueue \ {"queued"},
         NEW v \in Writers, pc[v] \in InQueue \ {"queued"}
  PROVE  v = w
  BY QueueTyped

(* The queue behind the threads that return. *)
LEMMA RestFacts ==
  ASSUME NEW S, NEW s \in Seq(S), NEW i \in 1 .. Len(s)
  PROVE  LET t == SubSeq(s, i + 1, Len(s))
         IN  /\ t \in Seq(S) /\ Len(t) = Len(s) - i /\ DOMAIN t = 1 .. Len(s) - i
             /\ \A j \in 1 .. Len(s) - i : t[j] = s[i + j]
<1>1. Len(s) \in Nat /\ i \in Nat /\ i <= Len(s) /\ \A j \in i + 1 .. Len(s) : s[j] \in S
  OBVIOUS
<1> DEFINE n == Len(s)
           t == SubSeq(s, i + 1, n)
<1>2. /\ t \in Seq(S) /\ Len(t) = (IF i + 1 <= n THEN n - (i + 1) + 1 ELSE 0)
      /\ \A j \in 1 .. n - (i + 1) + 1 : t[j] = s[(i + 1) + j - 1]
  BY <1>1, SubSeqProperties
<1> HIDE DEF t, n
<1>3. n \in Nat /\ i \in Nat /\ i <= n
  BY <1>1 DEF n
<1>4. Len(t) = n - i
  BY <1>2, <1>3
<1>5. ASSUME NEW j \in 1 .. n - i PROVE t[j] = s[i + j]
  <2>1. j \in 1 .. n - (i + 1) + 1 /\ (i + 1) + j - 1 = i + j
    BY <1>3
  <2> QED
    BY <1>2, <2>1
<1>6. DOMAIN t = 1 .. n - i
  BY <1>2, <1>4
<1> QED
  BY <1>2, <1>4, <1>5, <1>6 DEF t, n

(* The first threads of the queue return and the next one is signalled. *)
LEMMA ReturnFacts ==
  ASSUME Typed, QueueSound, NEW i \in 1 .. Len(queue), NEW ok, Return(i, ok)
  PROVE  /\ queue' \in Seq(Writers) /\ pc' \in [Writers -> Places] /\ QueueSound'
         /\ \A w \in Writers : pc'[w] \notin InGroup
         /\ \A w \in Writers : pc[w] \notin InQueue => pc'[w] = pc[w]
<1> DEFINE who == {queue[j] : j \in 1 .. i}
           Left(w) == IF HasBatch(w) THEN "done" ELSE IF ok THEN "flushing" ELSE "manual"
           p == [w \in Writers |-> IF w \in who THEN Left(w) ELSE pc[w]]
           n == Len(queue)
<1>1. /\ n \in Nat /\ DOMAIN queue = 1 .. n /\ \A j \in 1 .. n : queue[j] \in Writers
      /\ \A w \in Writers : pc[w] \in InQueue \ {"queued"} => n >= 1 /\ queue[1] = w
      /\ queue \in Seq(Writers) /\ i \in 1 .. n
  BY QueueTyped DEF Typed
<1>2. queue' = SubSeq(queue, i + 1, n) /\ pc' = SignalHead(p, i)
  BY DEF Return
<1>3. queue' \in Seq(Writers) /\ Len(queue') = n - i /\ DOMAIN queue' = 1 .. n - i
      /\ \A j \in 1 .. n - i : queue'[j] = queue[i + j]
  BY <1>1, <1>2, RestFacts
<1>4. \A j \in 1 .. n : queue[j] \in who <=> j <= i
  <2>1. ASSUME NEW j \in 1 .. n, queue[j] \in who PROVE j <= i
    <3>1. PICK k \in 1 .. i : queue[j] = queue[k]
      BY <2>1
    <3>2. j = k
      BY <3>1, <1>1 DEF QueueSound
    <3> QED
      BY <3>1, <3>2
  <2> QED
    BY <2>1
<1>5. \A w \in Writers : Left(w) \in {"done", "flushing", "manual"}
  OBVIOUS
<1>6. \A w \in who : pc[w] \in InQueue
  <2>1. \A j \in 1 .. i : j \in DOMAIN queue /\ pc[queue[j]] \in InQueue
    BY <1>1 DEF QueueSound, InQueue
  <2> QED
    BY <2>1
<1>7. \A w \in Writers : (w \in who => p[w] \in {"done", "flushing", "manual"}) /\ (w \notin who => p[w] = pc[w])
  BY <1>5
<1>8. p \in [Writers -> Places]
  BY <1>5 DEF Typed, Places, Resting
<1>9. \A w \in who : w \in Writers
  BY <1>1
<1> HIDE DEF p, who, Left
<1>10. CASE i < n
  <2>1. pc' = [p EXCEPT ![queue[i + 1]] = "front"]
    BY <1>2, <1>10 DEF SignalHead
  <2>2. queue[i + 1] \in Writers /\ queue[i + 1] \notin who
    BY <1>1, <1>4, <1>10
  <2>3. pc' \in [Writers -> Places] /\ pc'[queue[i + 1]] = "front"
    BY <1>8, <2>1, <2>2 DEF Places, InQueue
  <2>4. \A w \in Writers : w # queue[i + 1] => pc'[w] = p[w]
    BY <1>8, <2>1
  <2>5. ASSUME NEW w \in Writers, w \notin who, w # queue[i + 1]
        PROVE  /\ pc'[w] = pc[w] /\ pc[w] \notin InQueue \ {"queued"}
               /\ pc[w] \in InQueue => \E j \in 1 .. n - i : queue'[j] = w
    <3>1. pc'[w] = pc[w]
      BY <1>7, <2>4, <2>5
    <3>2. 1 \in 1 .. i /\ queue[1] \in who
      BY <1>1, <1>4
    <3>3. pc[w] \notin InQueue \ {"queued"}
      BY <1>1, <3>2, <2>5
    <3>4. ASSUME pc[w] \in InQueue PROVE \E j \in 1 .. n - i : queue'[j] = w
      <4>1. PICK j \in 1 .. n : queue[j] = w
        BY <1>1, <3>4 DEF QueueSound
      <4>2. ~ (j <= i)
        BY <1>4, <2>5, <4>1
      <4>3. j - i \in 1 .. n - i /\ i + (j - i) = j
        BY <1>1, <4>1, <4>2
      <4> QED
        BY <1>3, <4>1, <4>3
    <3> QED
      BY <3>1, <3>3, <3>4
  <2>6. \A j \in 1 .. n - i : i + j \in 1 .. n /\ queue[i + j] \notin who
    BY <1>1, <1>4
  <2>7. QueueSound'
    <3>1. \A j, k \in 1 .. n - i : queue'[j] = queue'[k] => j = k
      <4> SUFFICES ASSUME NEW j \in 1 .. n - i, NEW k \in 1 .. n - i, queue'[j] = queue'[k] PROVE j = k
        OBVIOUS
      <4>1. i + j \in 1 .. n /\ i + k \in 1 .. n /\ queue[i + j] = queue[i + k]
        BY <1>3, <2>6
      <4>2. i + j = i + k
        BY <1>1, <4>1 DEF QueueSound
      <4> QED
        BY <1>1, <4>2
    <3>2. ASSUME NEW j \in 1 .. n - i PROVE pc'[queue'[j]] \in IF j = 1 THEN InQueue \ {"queued"} ELSE {"queued"}
      <4>1. CASE j = 1
        <5>1. queue'[1] = queue[i + 1]
          BY <1>3, <4>1
        <5>2. "front" \in InQueue \ {"queued"}
          BY DEF InQueue
        <5> QED
          BY <2>3, <4>1, <5>1, <5>2
      <4>2. CASE j # 1
        <5>1. i + j \in 1 .. n /\ queue[i + j] \notin who /\ queue'[j] = queue[i + j] /\ i + 1 \in 1 .. n
          BY <1>3, <2>6, <1>1, <1>10
        <5>2. i + j # 1 /\ i + j # i + 1
          BY <1>1, <4>2
        <5>3. queue[i + j] # queue[i + 1] /\ pc[queue[i + j]] = "queued"
          BY <1>1, <5>1, <5>2 DEF QueueSound
        <5>4. pc'[queue[i + j]] = pc[queue[i + j]]
          BY <1>1, <2>5, <5>1, <5>3
        <5> QED
          BY <4>2, <5>1, <5>3, <5>4
      <4> QED
        BY <4>1, <4>2
    <3>3. ASSUME NEW w \in Writers, pc'[w] \in InQueue PROVE \E j \in 1 .. n - i : queue'[j] = w
      <4>1. CASE w = queue[i + 1]
        <5>1. 1 \in 1 .. n - i
          BY <1>1, <1>10
        <5> QED
          BY <1>3, <4>1, <5>1
      <4>2. CASE w \in who
        <5>1. pc'[w] \in {"done", "flushing", "manual"}
          BY <1>7, <2>2, <2>4, <4>2
        <5> QED
          BY <3>3, <5>1 DEF InQueue
      <4>3. CASE w # queue[i + 1] /\ w \notin who
        BY <2>5, <3>3, <4>3
      <4> QED
        BY <4>1, <4>2, <4>3
    <3> QED
      BY <1>3, <3>1, <3>2, <3>3 DEF QueueSound
  <2>8. ASSUME NEW w \in Writers PROVE pc'[w] \notin InGroup
    <3>1. CASE w = queue[i + 1]
      BY <2>3, <3>1 DEF InGroup
    <3>2. CASE w \in who
      BY <1>7, <2>2, <2>4, <3>2 DEF InGroup
    <3>3. CASE w # queue[i + 1] /\ w \notin who
      BY <2>5, <3>3 DEF InGroup, InQueue
    <3> QED
      BY <3>1, <3>2, <3>3
  <2>9. ASSUME NEW w \in Writers, pc[w] \notin InQueue PROVE pc'[w] = pc[w]
    <3>1. w \notin who
      BY <1>6, <2>9
    <3>2. w # queue[i + 1]
      BY <2>9, <1>1, <1>10 DEF QueueSound, InQueue
    <3> QED
      BY <2>5, <3>1, <3>2
  <2> QED
    BY <1>3, <2>3, <2>7, <2>8, <2>9
<1>11. CASE ~ (i < n)
  <2> HIDE DEF n
  <2>a. n \in Nat /\ i \in 1 .. n
    BY <1>1
  <2>0. i = n
    BY <2>a, <1>11
  <2>1. pc' = p /\ i = n
    BY <2>0, <1>2, <1>11 DEF SignalHead, n
  <2>2. DOMAIN queue' = 1 .. 0 /\ n - i = 0
    BY <1>1, <1>3, <2>1
  <2>3. ASSUME NEW w \in Writers PROVE pc'[w] \notin InQueue /\ (pc[w] \notin InQueue => pc'[w] = pc[w])
    <3>1. CASE w \in who
      BY <1>6, <1>7, <2>1, <3>1 DEF InQueue
    <3>2. CASE w \notin who
      <4>1. pc[w] \notin InQueue
        <5> SUFFICES ASSUME pc[w] \in InQueue PROVE FALSE
          OBVIOUS
        <5>1. PICK j \in 1 .. n : queue[j] = w
          BY <1>1 DEF QueueSound
        <5> QED
          BY <1>4, <2>1, <3>2, <5>1
      <4> QED
        BY <1>7, <2>1, <3>2, <4>1
    <3> QED
      BY <3>1, <3>2
  <2>4. QueueSound'
    BY <2>2, <2>3 DEF QueueSound
  <2> QED
    BY <1>3, <1>8, <2>1, <2>3, <2>4 DEF InGroup, InQueue
<1> QED
  BY <1>10, <1>11

-----------------------------------------------------------------------------
(***************************************************************************)
(* Steps that leave the files and what the object knows of them alone.     *)
(***************************************************************************)
SameStore(b, c) ==
    /\ c.mem = b.mem /\ c.imm = b.imm /\ c.logfile = b.logfile /\ c.next = b.next /\ c.seq = b.seq
    /\ c.log_number = b.log_number /\ c.manifest = b.manifest /\ c.version = b.version /\ c.bg_error = b.bg_error

(* MaybeScheduleCompaction changes nothing but scheduled. *)
LEMMA ScheduleFacts ==
  ASSUME NEW b \in Databases
  PROVE  LET c == MaybeScheduleCompaction(b)
         IN  /\ c \in Databases /\ SameStore(b, c)
             /\ c.state = b.state /\ c.manual = b.manual /\ c.shutting_down = b.shutting_down /\ c.pending = b.pending
             /\ b.scheduled => c.scheduled = TRUE
<1> DEFINE x == b.scheduled \/ (~ b.shutting_down /\ ~ b.bg_error /\ (b.imm # <<>> \/ b.manual # None \/ NeedsCompaction(b)))
           c == [b EXCEPT !.scheduled = x]
<1>1. x \in BOOLEAN /\ (b.scheduled => x = TRUE)
  BY Zenon
<1>2. MaybeScheduleCompaction(b) = c
  BY DEF MaybeScheduleCompaction
<1> HIDE DEF x
<1>3. /\ c \in Databases /\ c.scheduled = x
      /\ c.mem = b.mem /\ c.imm = b.imm /\ c.logfile = b.logfile /\ c.next = b.next /\ c.seq = b.seq
      /\ c.log_number = b.log_number /\ c.manifest = b.manifest /\ c.version = b.version /\ c.bg_error = b.bg_error
      /\ c.state = b.state /\ c.manual = b.manual /\ c.shutting_down = b.shutting_down /\ c.pending = b.pending
  BY <1>1 DEF Databases
<1> QED
  BY <1>1, <1>2, <1>3 DEF SameStore

(* An open database stays sound when its data does not change. *)
LEMMA UseFrame ==
  ASSUME NEW y, NEW d, NEW b, NEW c, NEW j, NEW p, NEW g, UseSound(y, d, b, j, p, g), SameStore(b, c),
         j.job # NoJob => c.scheduled = TRUE
  PROVE  UseSound(y, d, c, j, p, g)
<1>1. NumbersSound(d, c)
  BY DEF UseSound, SameStore, NumbersSound
<1>2. ImmOf(c) = ImmOf(b)
  BY DEF SameStore, ImmOf
<1>3. SequencesSound(d, c, p, g)
  BY <1>2 DEF UseSound, SameStore, SequencesSound
<1>4. \A e \in p : PromiseKept(y, d, c, e)
  BY <1>2 DEF UseSound, SameStore, PromiseKept
<1>5. \A n \in Cutting(d) : CutFollows(d, c, Cut(d, n))
  BY DEF UseSound, SameStore, CutFollows
<1>6. ManifestCurrent(d, c, j.job.at)
  BY DEF UseSound, SameStore, ManifestCurrent
<1>7. ASSUME NEW job, JobSound(d, b, job) PROVE JobSound(d, c, job)
  <2>1. JobUnused(d, c, job)
    BY <1>7 DEF JobSound, SameStore, JobUnused
  <2>2. JobInputs(d, c, job)
    BY <1>2, <1>7 DEF JobSound, SameStore, JobInputs
  <2>3. JobLogged(d, c, job)
    BY <1>7 DEF JobSound, SameStore, JobLogged
  <2> QED
    BY <1>7, <2>1, <2>2, <2>3 DEF JobSound
<1>8. JobsSound(d, c, j)
  <2>1. JobsShaped(c, j)
    BY DEF UseSound, JobsSound, JobsShaped
  <2> QED
    BY <1>7, <2>1 DEF UseSound, JobsSound
<1> QED
  BY <1>1, <1>3, <1>4, <1>5, <1>6, <1>8 DEF UseSound

(* Which writers ask for sync depends on the mode alone. *)
LEMMA SameSync ==
  ASSUME mode' = mode
  PROVE  Syncing' = Syncing
  BY DEF Syncing, Sync

(* Nothing that the invariant speaks of changes. *)
LEMMA Unmoved ==
  ASSUME DBInv, UNCHANGED <<mode, disk, db, opening, bg, queue, pc, group, promised>>
  PROVE  DBInv'
<1>1. Syncing' = Syncing
  BY SameSync
<1>2. Typed' /\ QueueSound' /\ CallsSound'
  BY DEF DBInv, Typed, QueueSound, CallsSound
<1>3. DiskSound(Syncing, disk, promised)'
  BY <1>1 DEF DBInv
<1>4. GroupsSound'
  BY <1>1 DEF DBInv, GroupsSound, LeaderSound
<1>5. PhasesSound'
  BY <1>1 DEF DBInv, PhasesSound
<1>6. UniqueSequences'
  BY DEF DBInv, UniqueSequences
<1> QED
  BY <1>2, <1>3, <1>4, <1>5, <1>6 DEF DBInv

(* Threads move in an open database. *)
LEMMA ThreadsMove ==
  ASSUME DBInv, UNCHANGED <<mode, disk, opening, bg, group, promised>>, db.state = "open", db'.state = "open",
         db' \in Databases, SameStore(db, db'), db.scheduled => db'.scheduled = TRUE,
         queue' \in Seq(Writers), pc' \in [Writers -> Places], QueueSound',
         db'.manual # None => pc'[db'.manual] = "manual",
         Len(queue') >= Len(queue) \/ (\A w \in Writers : pc'[w] \notin InGroup),
         \A w \in Writers : pc'[w] \in InGroup => pc'[w] = pc[w],
         (\A w \in Writers : pc'[w] \notin InGroup) => group = NoGroup
  PROVE  DBInv'
<1>1. Syncing' = Syncing
  BY SameSync
<1>2. Typed'
  BY DEF DBInv, Typed
<1>3. DiskSound(Syncing, disk, promised)'
  BY <1>1 DEF DBInv
<1>4. CallsSound'
  BY DEF CallsSound
<1>5. GroupsSound'
  <2>1. GroupSound(db', group')
    BY DEF DBInv, GroupsSound, GroupSound, SameStore
  <2>2. ASSUME NEW w \in Writers, pc'[w] \in InGroup PROVE LeaderSound(Syncing, disk, db, group, w)'
    <3>1. pc'[w] = pc[w] /\ LeaderSound(Syncing, disk, db, group, w)
      BY <2>2 DEF DBInv, GroupsSound
    <3>2. Len(queue) \in Nat /\ Len(queue') \in Nat /\ Len(queue') >= Len(queue)
      BY <2>2 DEF DBInv, Typed
    <3>3. db'.logfile = db.logfile
      BY DEF SameStore
    <3>4. \A x : Stored(disk, db', group, x) <=> Stored(disk, db, group, x)
      BY <3>3 DEF Stored
    <3>5. \A e \in group.entries : e.w \in Syncing => w \in Syncing
      BY <3>1 DEF LeaderSound
    <3>6. group.last \in 1 .. Len(queue')
      BY <3>1, <3>2 DEF LeaderSound
    <3>7. pc'[w] = "sync" => Stored(disk, db', group, FALSE)
      BY <3>1, <3>4 DEF LeaderSound
    <3>8. pc'[w] = "apply" /\ group.ok => Stored(disk, db', group, w \in Syncing)
      BY <3>1, <3>4 DEF LeaderSound
    <3>9. group' = group /\ disk' = disk
      OBVIOUS
    <3> QED
      BY <1>1, <3>5, <3>6, <3>7, <3>8, <3>9 DEF LeaderSound
  <2> QED
    BY <2>1, <2>2 DEF GroupsSound
<1>6. PhasesSound'
  <2>1. UseSound(Syncing, disk, db, bg, promised, group)
    BY DEF DBInv, PhasesSound, InUse
  <2>2. bg.job # NoJob => db'.scheduled = TRUE
    BY <2>1 DEF UseSound, JobsSound, JobsShaped
  <2>3. UseSound(Syncing, disk, db', bg, promised, group)
    BY <2>1, <2>2, UseFrame
  <2> QED
    BY <1>1, <2>3 DEF PhasesSound
<1>7. UniqueSequences'
  <2>1. ImmOf(db') = ImmOf(db) /\ db'.mem = db.mem
    BY DEF SameStore, ImmOf
  <2> QED
    BY <2>1 DEF DBInv, UniqueSequences
<1> QED
  BY <1>2, <1>3, <1>4, <1>5, <1>6, <1>7 DEF DBInv

(* A thread outside the queue moves on outside it. *)
LEMMA OutsideFacts ==
  ASSUME Typed, QueueSound, NEW w \in Writers, pc[w] \notin InQueue, NEW x \in Places \ InQueue,
         pc' = [pc EXCEPT ![w] = x], queue' = queue
  PROVE  /\ queue' \in Seq(Writers) /\ pc' \in [Writers -> Places] /\ QueueSound'
         /\ \A v \in Writers : pc'[v] \in InGroup => pc'[v] = pc[v]
         /\ \A v \in Writers : pc[v] \in InGroup => pc'[v] = pc[v]
         /\ pc'[w] = x /\ \A v \in Writers : v # w => pc'[v] = pc[v]
<1>1. pc \in [Writers -> Places] /\ queue \in Seq(Writers)
  BY DEF Typed
<1>2. pc'[w] = x /\ (\A v \in Writers : v # w => pc'[v] = pc[v]) /\ pc' \in [Writers -> Places]
  BY <1>1
<1>3. x \notin InGroup /\ pc[w] \notin InGroup
  BY DEF InGroup, InQueue
<1>4. \A v \in Writers : pc'[v] \in InQueue => pc[v] \in InQueue
  BY <1>2
<1>5. \A i \in DOMAIN queue : queue[i] \in Writers
  BY <1>1
<1>6. \A i \in DOMAIN queue : pc'[queue[i]] = pc[queue[i]]
  <2> SUFFICES ASSUME NEW i \in DOMAIN queue PROVE queue[i] # w
    BY <1>2, <1>5
  <2>1. pc[queue[i]] \in InQueue
    BY DEF QueueSound, InQueue
  <2> QED
    BY <2>1
<1>7. QueueSound'
  BY <1>4, <1>6 DEF QueueSound
<1> QED
  BY <1>1, <1>2, <1>3, <1>7

(* Nobody is inside a group while a thread is at the front. *)
LEMMA FrontHasNoGroup ==
  ASSUME DBInv, NEW w \in Writers, pc[w] = "front"
  PROVE  (\A v \in Writers : pc[v] \notin InGroup) /\ group = NoGroup
<1>1. ASSUME NEW v \in Writers, pc[v] \in InGroup PROVE FALSE
  <2>1. pc[w] \in InQueue \ {"queued"} /\ pc[v] \in InQueue \ {"queued"}
    BY <1>1 DEF InQueue, InGroup
  <2>2. v = w
    BY <2>1, FrontAlone DEF DBInv
  <2> QED
    BY <2>2, <1>1 DEF InGroup
<1> QED
  BY <1>1 DEF DBInv, GroupsSound

(* The types of the state. *)
LEMMA DBTyped ==
  ASSUME DBInv
  PROVE  /\ db \in Databases /\ db.next \in Nat /\ db.logfile \in Nat /\ db.log_number \in Nat /\ db.seq \in Nat
         /\ db.manifest \in Nat /\ db.mem \in Records /\ db.version \in [l0 : SUBSET Nat, l1 : SUBSET Nat]
         /\ db.manual \in Writers \cup {None} /\ DiskTyped(disk)
         /\ db.manual # None => db.manual \in Writers /\ pc[db.manual] = "manual"
         /\ pc \in [Writers -> Places] /\ queue \in Seq(Writers) /\ Typed /\ QueueSound
<1>1. Typed /\ QueueSound /\ CallsSound
  BY DEF DBInv
<1>2. db \in Databases /\ DiskTyped(disk) /\ pc \in [Writers -> Places] /\ queue \in Seq(Writers)
  BY <1>1 DEF Typed
<1> QED
  BY <1>1, <1>2 DEF Databases, CallsSound

(* An object stores what it stores. *)
LEMMA SameIsSame ==
  ASSUME NEW b
  PROVE  SameStore(b, b)
  BY DEF SameStore

(* A thread joins the queue. *)
LEMMA CallWriteKeeps ==
  ASSUME DBInv, NEW w \in Writers, CallWrite(w)
  PROVE  DBInv'
<1>1. db.state = "open" /\ pc[w] = "idle" /\ queue' = Append(queue, w) /\ db' = db
  BY DEF CallWrite
<1> DEFINE x == IF queue = <<>> THEN "front" ELSE "queued"
<1>2. pc' = [pc EXCEPT ![w] = x] /\ x \in {"front", "queued"} /\ (x = "front" <=> queue = <<>>)
  BY DEF CallWrite
<1> HIDE DEF x
<1>3. UNCHANGED <<mode, disk, opening, bg, group, promised>>
  BY DEF CallWrite
<1>4. Len(queue) \in Nat /\ DOMAIN queue = 1 .. Len(queue) /\ \A i \in 1 .. Len(queue) : queue[i] \in Writers
  BY QueueTyped, DBTyped
<1>5. /\ queue' \in Seq(Writers) /\ Len(queue') = Len(queue) + 1 /\ DOMAIN queue' = 1 .. Len(queue) + 1
      /\ queue'[Len(queue) + 1] = w /\ \A i \in 1 .. Len(queue) : queue'[i] = queue[i]
  BY <1>1, DBTyped
<1>6. pc'[w] = x /\ (\A v \in Writers : v # w => pc'[v] = pc[v]) /\ pc' \in [Writers -> Places]
  BY <1>2, DBTyped DEF Places, InQueue
<1>7. \A i \in 1 .. Len(queue) : pc[queue[i]] \in IF i = 1 THEN InQueue \ {"queued"} ELSE {"queued"}
  BY <1>4, DBTyped DEF QueueSound
<1>8. \A i \in 1 .. Len(queue) : queue[i] # w
  BY <1>1, <1>7 DEF InQueue
<1>9. x = "front" <=> Len(queue) = 0
  BY <1>2, <1>4, DBTyped, EmptySeq
<1>10. QueueSound'
  <2>1. ASSUME NEW i \in DOMAIN queue', NEW j \in DOMAIN queue', queue'[i] = queue'[j] PROVE i = j
    <3>1. \A k, l \in 1 .. Len(queue) : queue[k] = queue[l] => k = l
      BY <1>4, DBTyped DEF QueueSound
    <3>2. i \in 1 .. Len(queue) \/ i = Len(queue) + 1
      BY <1>4, <1>5
    <3>3. j \in 1 .. Len(queue) \/ j = Len(queue) + 1
      BY <1>4, <1>5
    <3> QED
      BY <2>1, <3>1, <3>2, <3>3, <1>5, <1>8
  <2>2. ASSUME NEW i \in DOMAIN queue' PROVE pc'[queue'[i]] \in IF i = 1 THEN InQueue \ {"queued"} ELSE {"queued"}
    <3>1. CASE i \in 1 .. Len(queue)
      BY <3>1, <1>4, <1>5, <1>6, <1>7, <1>8
    <3>2. CASE i = Len(queue) + 1
      <4>1. i = 1 <=> Len(queue) = 0
        BY <3>2, <1>4
      <4> QED
        BY <3>2, <4>1, <1>2, <1>5, <1>6, <1>9 DEF InQueue
    <3> QED
      BY <3>1, <3>2, <1>4, <1>5
  <2>3. ASSUME NEW v \in Writers, pc'[v] \in InQueue PROVE \E i \in DOMAIN queue' : queue'[i] = v
    <3>1. CASE v = w
      BY <3>1, <1>4, <1>5
    <3>2. CASE v # w
      <4>1. PICK i \in DOMAIN queue : queue[i] = v
        BY <3>2, <2>3, <1>6, DBTyped DEF QueueSound
      <4> QED
        BY <4>1, <1>4, <1>5
    <3> QED
      BY <3>1, <3>2
  <2> QED
    BY <2>1, <2>2, <2>3 DEF QueueSound
<1>11. db'.manual # None => pc'[db'.manual] = "manual"
  BY <1>1, <1>6, DBTyped
<1>12. \A v \in Writers : pc'[v] \in InGroup => pc'[v] = pc[v]
  BY <1>2, <1>6 DEF InGroup
<1>13. (\A v \in Writers : pc'[v] \notin InGroup) => group = NoGroup
  <2>1. \A v \in Writers : pc[v] \in InGroup => pc'[v] \in InGroup
    BY <1>1, <1>6 DEF InGroup
  <2> QED
    BY <2>1 DEF DBInv, GroupsSound
<1>14. SameStore(db, db') /\ Len(queue') >= Len(queue) /\ db' \in Databases /\ (db.scheduled => db'.scheduled = TRUE)
  BY <1>1, <1>4, <1>5, SameIsSame, DBTyped DEF Databases
<1> QED
  BY <1>1, <1>3, <1>5, <1>6, <1>10, <1>11, <1>12, <1>13, <1>14, ThreadsMove

(* The thread at the front returns without having written. *)
LEMMA ReturnKeeps ==
  ASSUME DBInv, NEW w \in Writers, NEW ok, Awake(w, "front"), Return(1, ok),
         UNCHANGED <<mode, disk, db, opening, bg, group, promised>>
  PROVE  DBInv'
<1>1. db.state = "open" /\ pc[w] = "front"
  BY DEF Awake
<1>2. group = NoGroup
  BY <1>1, FrontHasNoGroup
<1>3. Len(queue) \in Nat /\ Len(queue) >= 1
  BY <1>1, QueueTyped, DBTyped DEF InQueue
<1>4. 1 \in 1 .. Len(queue)
  BY <1>3
<1>5. /\ queue' \in Seq(Writers) /\ pc' \in [Writers -> Places] /\ QueueSound'
      /\ \A v \in Writers : pc'[v] \notin InGroup
      /\ \A v \in Writers : pc[v] \notin InQueue => pc'[v] = pc[v]
  BY <1>4, ReturnFacts, DBTyped
<1>6. db'.manual # None => pc'[db'.manual] = "manual"
  BY <1>5, DBTyped DEF InQueue
<1>7. SameStore(db, db') /\ db' \in Databases /\ db'.state = "open" /\ (db.scheduled => db'.scheduled = TRUE)
  BY <1>1, SameIsSame, DBTyped DEF Databases
<1> QED
  BY <1>1, <1>2, <1>5, <1>6, <1>7, ThreadsMove

(* A write is refused after a background error. *)
LEMMA RefuseWriteKeeps ==
  ASSUME DBInv, NEW w \in Writers, RefuseWrite(w)
  PROVE  DBInv'
  BY ReturnKeeps DEF RefuseWrite

(* A write without a batch returns. *)
LEMMA ReturnFromFlushKeeps ==
  ASSUME DBInv, NEW w \in Writers, ReturnFromFlush(w)
  PROVE  DBInv'
  BY ReturnKeeps DEF ReturnFromFlush

(* A writer waits for room. *)
LEMMA WaitForRoomKeeps ==
  ASSUME DBInv, NEW w \in Writers, WaitForRoom(w)
  PROVE  DBInv'
  BY Unmoved DEF WaitForRoom

(* A thread outside the queue moves and may leave or withdraw a request. *)
LEMMA RequestsMove ==
  ASSUME DBInv, NEW w \in Writers, NEW x \in Places \ InQueue, db.state = "open", pc[w] \notin InQueue,
         pc' = [pc EXCEPT ![w] = x], db' \in Databases, SameStore(db, db'), db'.state = "open",
         db.scheduled => db'.scheduled = TRUE, db'.manual # None => pc'[db'.manual] = "manual",
         UNCHANGED <<mode, disk, opening, bg, group, promised, queue>>
  PROVE  DBInv'
<1>1. /\ queue' \in Seq(Writers) /\ pc' \in [Writers -> Places] /\ QueueSound'
      /\ \A v \in Writers : pc'[v] \in InGroup => pc'[v] = pc[v]
      /\ \A v \in Writers : pc[v] \in InGroup => pc'[v] = pc[v]
  BY OutsideFacts, DBTyped
<1>2. (\A v \in Writers : pc'[v] \notin InGroup) => group = NoGroup
  BY <1>1 DEF DBInv, GroupsSound
<1>3. Len(queue') >= Len(queue)
  BY DBTyped
<1> QED
  BY <1>1, <1>2, <1>3, ThreadsMove

(* CompactRange waits for the memtable. *)
LEMMA FlushWaitKeeps ==
  ASSUME DBInv, NEW w \in Writers, FlushWait(w)
  PROVE  DBInv'
<1>1. CASE UNCHANGED pc
  BY <1>1, Unmoved DEF FlushWait
<1>2. CASE pc' = [pc EXCEPT ![w] = "manual"]
  <2>1. db.state = "open" /\ pc[w] = "flushing" /\ pc[w] \notin InQueue /\ "manual" \in Places \ InQueue
    BY DEF FlushWait, Awake, InQueue, Places
  <2>2. UNCHANGED <<mode, disk, db, opening, bg, group, promised, queue>>
    BY DEF FlushWait
  <2>3. SameStore(db, db') /\ db' \in Databases /\ db'.state = "open" /\ (db.scheduled => db'.scheduled = TRUE)
    BY <2>1, <2>2, SameIsSame, DBTyped DEF Databases
  <2>4. db'.manual # None => pc'[db'.manual] = "manual"
    BY <1>2, <2>1, <2>2, DBTyped
  <2> QED
    BY <1>2, <2>1, <2>2, <2>3, <2>4, RequestsMove
<1> QED
  BY <1>1, <1>2 DEF FlushWait

(* Setting the request by hand changes nothing else. *)
LEMMA ManualSet ==
  ASSUME NEW b \in Databases, NEW x \in Writers \cup {None}
  PROVE  LET c == [b EXCEPT !.manual = x]
         IN  c \in Databases /\ SameStore(b, c) /\ c.state = b.state /\ c.manual = x /\ c.scheduled = b.scheduled
             /\ c.shutting_down = b.shutting_down
  BY DEF Databases, SameStore

(* CompactRange hands its request over. *)
LEMMA ManualWaitKeeps ==
  ASSUME DBInv, NEW w \in Writers, ManualWait(w)
  PROVE  DBInv'
<1>0. db.state = "open" /\ pc[w] = "manual" /\ UNCHANGED <<mode, disk, opening, bg, queue, pc, group, promised>>
  BY DEF ManualWait, Awake
<1>1. CASE db.manual # None
  BY <1>0, <1>1, Unmoved DEF ManualWait
<1>2. CASE db.manual = None
  <2> DEFINE b == [db EXCEPT !.manual = w]
  <2>1. db' = MaybeScheduleCompaction(b)
    BY <1>2 DEF ManualWait
  <2>2. b \in Databases /\ SameStore(db, b) /\ b.state = db.state /\ b.manual = w /\ b.scheduled = db.scheduled
    BY ManualSet, DBTyped
  <2> HIDE DEF b
  <2>3. /\ db' \in Databases /\ SameStore(b, db') /\ db'.state = b.state /\ db'.manual = b.manual
        /\ (b.scheduled => db'.scheduled = TRUE)
    BY <2>1, <2>2, ScheduleFacts
  <2>4. SameStore(db, db')
    BY <2>2, <2>3 DEF SameStore
  <2>5. pc' = [pc EXCEPT ![w] = "manual"]
    BY <1>0, DBTyped
  <2>6. pc[w] \notin InQueue /\ "manual" \in Places \ InQueue
    BY <1>0 DEF InQueue, Places
  <2> QED
    BY <1>0, <2>2, <2>3, <2>4, <2>5, <2>6, RequestsMove
<1> QED
  BY <1>1, <1>2

(* CompactRange returns and withdraws its request. *)
LEMMA ManualReturnKeeps ==
  ASSUME DBInv, NEW w \in Writers, ManualReturn(w)
  PROVE  DBInv'
<1> DEFINE x == IF db.manual = w THEN None ELSE db.manual
<1>1. /\ db.state = "open" /\ pc[w] \in {"manual", "manual_done"} /\ pc' = [pc EXCEPT ![w] = "done"]
      /\ UNCHANGED <<mode, disk, opening, bg, queue, group, promised>> /\ db' = [db EXCEPT !.manual = x]
  BY DEF ManualReturn, Awake
<1>2. x \in Writers \cup {None} /\ (x # None => x = db.manual /\ x # w)
  BY DBTyped
<1> HIDE DEF x
<1>3. /\ db' \in Databases /\ SameStore(db, db') /\ db'.state = db.state /\ db'.manual = x
      /\ db'.scheduled = db.scheduled
  BY <1>1, <1>2, ManualSet, DBTyped
<1>4. db'.manual # None => pc'[db'.manual] = "manual"
  BY <1>1, <1>2, <1>3, DBTyped
<1>5. pc[w] \notin InQueue /\ "done" \in Places \ InQueue
  BY <1>1 DEF InQueue, Places, Resting
<1>6. db.scheduled => db'.scheduled = TRUE
  BY <1>3, DBTyped DEF Databases
<1> QED
  BY <1>1, <1>3, <1>4, <1>5, <1>6, RequestsMove

(* The destructor waits for the background thread. *)
LEMMA CloseWaitKeeps ==
  ASSUME DBInv, CloseWait
  PROVE  DBInv'
  BY Unmoved DEF CloseWait

-----------------------------------------------------------------------------
(***************************************************************************)
(* Groups of writes.                                                       *)
(***************************************************************************)

(* The image of a finite set under a function. *)
LEMMA ImageOfFinite ==
  ASSUME NEW S, IsFiniteSet(S), NEW T, NEW f \in [S -> T], \A t \in T : \E x \in S : f[x] = t
  PROVE  /\ IsFiniteSet(T)
         /\ (\A x, z \in S : f[x] = f[z] => x = z) => Cardinality(T) = Cardinality(S)
<1>1. f \in Surjection(S, T)
  BY DEF Surjection
<1>2. (\A x, z \in S : f[x] = f[z] => x = z) => f \in Injection(S, T)
  BY <1>1 DEF Surjection, Injection, IsInjective
<1> QED
  BY <1>1, <1>2, FS_Surjection

(* The batches among the first positions of the queue. *)
Batches(H, i) == {j \in 1 .. i : j \in H}

(* The number of batches grows with each of them. *)
LEMMA BatchesFacts ==
  ASSUME NEW H, NEW i \in Nat, NEW k \in Nat, i <= k
  PROVE  /\ IsFiniteSet(Batches(H, i)) /\ Cardinality(Batches(H, i)) \in Nat
         /\ Cardinality(Batches(H, i)) <= Cardinality(Batches(H, k))
         /\ i < k /\ k \in H => Cardinality(Batches(H, i)) < Cardinality(Batches(H, k))
         /\ i \in H /\ i # 0 => Cardinality(Batches(H, i)) >= 1
<1>1. \A n \in Nat : IsFiniteSet(Batches(H, n)) /\ Cardinality(Batches(H, n)) \in Nat
  <2> SUFFICES ASSUME NEW n \in Nat PROVE IsFiniteSet(Batches(H, n)) /\ Cardinality(Batches(H, n)) \in Nat
    OBVIOUS
  <2>1. IsFiniteSet(1 .. n) /\ Batches(H, n) \in SUBSET (1 .. n)
    BY FS_Interval DEF Batches
  <2> QED
    BY <2>1, FS_Subset, FS_CardinalityType
<1>2. Batches(H, i) \in SUBSET Batches(H, k)
  BY DEF Batches
<1>3. Cardinality(Batches(H, i)) <= Cardinality(Batches(H, k))
  BY <1>1, <1>2, FS_Subset
<1>4. ASSUME i < k, k \in H PROVE Cardinality(Batches(H, i)) < Cardinality(Batches(H, k))
  <2>1. k \in Batches(H, k) /\ k \notin Batches(H, i)
    BY <1>4 DEF Batches
  <2>2. Cardinality(Batches(H, i)) # Cardinality(Batches(H, k))
    BY <1>1, <1>2, <2>1, FS_Subset
  <2> QED
    BY <1>1, <1>3, <2>2
<1>5. ASSUME i \in H, i # 0 PROVE Cardinality(Batches(H, i)) >= 1
  <2>1. i \in Batches(H, i)
    BY <1>5 DEF Batches
  <2>2. Cardinality(Batches(H, i)) # 0
    BY <1>1, <2>1, FS_EmptySet
  <2> QED
    BY <1>1, <2>2
<1> QED
  BY <1>1, <1>3, <1>4, <1>5

(* The entries of a group have the numbers that follow the last one. *)
Numbered(q, H, s, i) == [w |-> q[i], s |-> s + Cardinality(Batches(H, i))]

Numbering(E, q, H, s, n) == \A e : e \in E <=> \E i \in Batches(H, n) : e = Numbered(q, H, s, i)
Distinct(q) == \A i, j \in DOMAIN q : q[i] = q[j] => i = j

(* A group numbers its batches one by one behind the last sequence. *)
LEMMA GroupNumbers ==
  ASSUME NEW q \in Seq(Writers), Distinct(q), NEW n \in 1 .. Len(q),
         NEW H, NEW s \in Nat, NEW E, Numbering(E, q, H, s, n)
  PROVE  /\ E \in Records
         /\ \A e \in E : s < e.s /\ e.s <= s + Cardinality(E)
         /\ \A e, f \in E : e.s = f.s => e.w = f.w
         /\ \A e \in E : \E i \in 1 .. n : e.w = q[i]
<1> DEFINE B == Batches(H, n)
<1>1. Len(q) \in Nat /\ n \in Nat /\ DOMAIN q = 1 .. Len(q) /\ \A i \in 1 .. n : i \in DOMAIN q /\ q[i] \in Writers
  OBVIOUS
<1>2. \A i \in B : i \in 1 .. n /\ i \in H
  BY DEF Batches
<1>3. IsFiniteSet(B) /\ Cardinality(B) \in Nat
  BY <1>1, BatchesFacts
<1>4. ASSUME NEW i \in B PROVE Cardinality(Batches(H, i)) \in Nat /\ Cardinality(Batches(H, i)) >= 1
                                /\ Cardinality(Batches(H, i)) <= Cardinality(B)
  BY <1>1, <1>2, BatchesFacts
<1>5. \A i \in B : Numbered(q, H, s, i).w = q[i] /\ Numbered(q, H, s, i).s = s + Cardinality(Batches(H, i))
  BY DEF Numbered
<1>6. \A i \in B : Numbered(q, H, s, i) \in Entries
  BY <1>1, <1>2, <1>4 DEF Numbered, Entries
<1>7. ASSUME NEW i \in B, NEW j \in B, Numbered(q, H, s, i).s = Numbered(q, H, s, j).s PROVE i = j
  <2>1. Cardinality(Batches(H, i)) = Cardinality(Batches(H, j))
    BY <1>4, <1>5, <1>7
  <2>2. i \in Nat /\ j \in Nat /\ i \in H /\ j \in H
    BY <1>1, <1>2
  <2>3. ~ (i < j)
    BY <2>1, <2>2, <1>4, BatchesFacts
  <2>4. ~ (j < i)
    BY <2>1, <2>2, <1>4, BatchesFacts
  <2> QED
    BY <2>2, <2>3, <2>4
<1> DEFINE f == [i \in B |-> Numbered(q, H, s, i)]
<1>8. f \in [B -> E] /\ \A e \in E : \E i \in B : f[i] = e
  BY DEF Numbering
<1>9. \A i, j \in B : f[i] = f[j] => i = j
  BY <1>7
<1>10. IsFiniteSet(E) /\ Cardinality(E) = Cardinality(B)
  <2> HIDE DEF f, B
  <2> QED
    BY <1>3, <1>8, <1>9, ImageOfFinite
<1> HIDE DEF f
<1>11. \A e \in E : \E i \in B : e = Numbered(q, H, s, i)
  BY DEF Numbering
<1>12. E \in Records
  BY <1>6, <1>10, <1>11 DEF Records
<1>13. ASSUME NEW e \in E PROVE s < e.s /\ e.s <= s + Cardinality(E)
  <2>1. PICK i \in B : e = Numbered(q, H, s, i)
    BY <1>11
  <2> QED
    BY <2>1, <1>3, <1>4, <1>5, <1>10
<1>14. \A e, g \in E : e.s = g.s => e.w = g.w
  BY <1>7, <1>11
<1>15. \A e \in E : \E i \in 1 .. n : e.w = q[i]
  BY <1>2, <1>5, <1>11
<1> QED
  BY <1>12, <1>13, <1>14, <1>15

(* BuildBatchGroup takes a prefix of the queue, with sync only behind sync. *)
LEMMA BuildGroupFacts ==
  ASSUME DBInv, Len(queue) >= 1
  PROVE  /\ BuildBatchGroup(queue) \in 1 .. Len(queue)
         /\ \A j \in 1 .. BuildBatchGroup(queue) : Sync(queue[j]) => Sync(queue[1])
<1> DEFINE S == {i \in DOMAIN queue : /\ \A j \in 1 .. i : Sync(queue[j]) => Sync(queue[1])
                                      /\ Cardinality({j \in 1 .. i : HasBatch(queue[j])}) <= max_group}
<1>1. Len(queue) \in Nat /\ DOMAIN queue = 1 .. Len(queue)
  BY QueueTyped, DBTyped
<1>2. 1 \in S
  <2>1. 1 .. 1 = {1} /\ 1 \in DOMAIN queue
    BY <1>1
  <2>2. {j \in 1 .. 1 : HasBatch(queue[j])} \in SUBSET {1}
    BY <2>1
  <2>3. /\ Cardinality({j \in 1 .. 1 : HasBatch(queue[j])}) <= Cardinality({1}) /\ Cardinality({1}) = 1
        /\ IsFiniteSet({j \in 1 .. 1 : HasBatch(queue[j])})
    BY <2>2, FS_Singleton, FS_Subset
  <2>4. Cardinality({j \in 1 .. 1 : HasBatch(queue[j])}) \in Nat
    BY <2>3, FS_CardinalityType
  <2>5. Cardinality({j \in 1 .. 1 : HasBatch(queue[j])}) <= max_group
    BY <2>3, <2>4, DBConstants
  <2>6. \A j \in 1 .. 1 : Sync(queue[j]) => Sync(queue[1])
    BY <2>1
  <2> QED
    BY <2>1, <2>5, <2>6
<1>3. S \subseteq Nat /\ S \subseteq 0 .. Len(queue)
  BY <1>1
<1>4. Bounded(S)
  BY <1>1, <1>3 DEF Bounded
<1>5. Max(S) \in S
  <2> HIDE DEF S
  <2> QED
    BY <1>2, <1>3, <1>4, MaxNat
<1>6. BuildBatchGroup(queue) = Max(S)
  BY DEF BuildBatchGroup
<1> QED
  BY <1>1, <1>5, <1>6

(* Every entry there is has a number that was given out, or is the group's. *)
Everywhere == db.mem \cup ImmOf(db) \cup LogEntries(disk) \cup promised

(* What it is to be in a log. *)
LEMMA InLogEntries ==
  ASSUME NEW d, DiskTyped(d), NEW e
  PROVE  e \in LogEntries(d) <=> \E n \in DOMAIN d.logs : \E i \in DOMAIN d.logs[n].recs : e \in d.logs[n].recs[i]
  BY DEF LogEntries, ToSet

(* Outside a group, no entry has a number above the last sequence. *)
LEMMA AllBelow ==
  ASSUME DBInv, InUse(db)
  PROVE  \A e \in Everywhere : e.s <= db.seq \/ e \in group.entries
<1>1. SequencesSound(disk, db, promised, group)
  BY DEF DBInv, PhasesSound, UseSound
<1>2. \A e \in promised \cup db.mem \cup ImmOf(db) : e.s <= db.seq
  BY <1>1 DEF SequencesSound
<1>3. \A e \in LogEntries(disk) : e.s <= db.seq \/ e \in group.entries
  BY <1>1, InLogEntries, DBTyped DEF SequencesSound
<1> QED
  BY <1>2, <1>3 DEF Everywhere

(* Every entry is a writer and a number. *)
LEMMA EverythingTyped ==
  ASSUME DBInv
  PROVE  /\ \A e \in Everywhere : e \in Entries /\ e.s \in Nat /\ e.w \in Writers
         /\ ImmOf(db) \in Records
<1>0. \A e \in Entries : e.s \in Nat /\ e.w \in Writers
  BY DEF Entries
<1>1. db.mem \subseteq Entries /\ promised \subseteq Entries
  BY DBTyped DEF Records, Typed
<1>2. ImmOf(db) \in Records
  <2>1. db.imm = <<>> \/ \E m \in Records : db.imm = <<m>>
    BY DBTyped DEF Databases
  <2>2. CASE db.imm = <<>>
    <3>1. ImmOf(db) = {}
      BY <2>2 DEF ImmOf, ToSet
    <3> QED
      BY <3>1, FS_EmptySet DEF Records
  <2>3. ASSUME NEW m \in Records, db.imm = <<m>> PROVE ImmOf(db) \in Records
    <3>1. ToSet(db.imm) = {m}
      BY <2>3 DEF ToSet
    <3>2. ImmOf(db) = m
      BY <3>1 DEF ImmOf
    <3> QED
      BY <3>2
  <2> QED
    BY <2>1, <2>2, <2>3
<1>3. LogEntries(disk) \subseteq Entries
  BY InLogEntries, LogTyped, DBTyped
<1> QED
  BY <1>0, <1>1, <1>2, <1>3 DEF Everywhere, Records

(* Entries with higher numbers than all others. *)
LEMMA UniqueWithNew ==
  ASSUME NEW S, NEW T, NEW s \in Nat, Unique(S), Unique(T), \A e \in S : e.s \in Nat /\ e.s <= s,
         \A e \in T : e.s \in Nat /\ s < e.s
  PROVE  Unique(S \cup T)
<1> SUFFICES ASSUME NEW a \in S \cup T, NEW b \in S \cup T, a.s = b.s PROVE a.w = b.w
  BY DEF Unique
<1>1. CASE a \in S /\ b \in S
  BY <1>1 DEF Unique
<1>2. CASE a \in T /\ b \in T
  BY <1>2 DEF Unique
<1>3. CASE a \in S /\ b \in T
  BY <1>3
<1>4. CASE a \in T /\ b \in S
  BY <1>4
<1> QED
  BY <1>1, <1>2, <1>3, <1>4

(* The thread at the front moves on inside the queue. *)
LEMMA LeaderMoves ==
  ASSUME DBInv, NEW w \in Writers, pc[w] \in InQueue \ {"queued"}, NEW x \in InGroup,
         pc' = [pc EXCEPT ![w] = x], queue' = queue
  PROVE  /\ queue' \in Seq(Writers) /\ pc' \in [Writers -> Places] /\ QueueSound'
         /\ pc'[w] = x /\ \A v \in Writers : pc'[v] \in InGroup => v = w
         /\ \A v \in Writers : v # w => pc'[v] = pc[v]
<1>1. pc'[w] = x /\ (\A v \in Writers : v # w => pc'[v] = pc[v]) /\ pc' \in [Writers -> Places]
  BY DBTyped DEF InGroup, Places, InQueue
<1>2. /\ Len(queue) \in Nat /\ DOMAIN queue = 1 .. Len(queue) /\ Len(queue) >= 1 /\ queue[1] = w
      /\ \A i \in 1 .. Len(queue) : queue[i] \in Writers
  BY QueueTyped, DBTyped
<1>3. /\ \A i, j \in DOMAIN queue : queue[i] = queue[j] => i = j
      /\ \A i \in DOMAIN queue : pc[queue[i]] \in IF i = 1 THEN InQueue \ {"queued"} ELSE {"queued"}
      /\ \A v \in Writers : pc[v] \in InQueue => \E i \in DOMAIN queue : queue[i] = v
  BY DBTyped DEF QueueSound
<1>4. x \in InQueue \ {"queued"}
  BY DEF InGroup, InQueue
<1>5. \A i \in DOMAIN queue : pc'[queue[i]] \in IF i = 1 THEN InQueue \ {"queued"} ELSE {"queued"}
  BY <1>1, <1>2, <1>3, <1>4
<1>6. \A v \in Writers : pc'[v] \in InQueue => \E i \in DOMAIN queue : queue[i] = v
  BY <1>1, <1>2, <1>3
<1>7. QueueSound'
  BY <1>3, <1>5, <1>6 DEF QueueSound
<1>8. ASSUME NEW v \in Writers, pc'[v] \in InGroup, v # w PROVE FALSE
  <2>1. pc[v] \in InQueue \ {"queued"}
    BY <1>1, <1>8 DEF InGroup, InQueue
  <2> QED
    BY <2>1, <1>8, FrontAlone, DBTyped
<1> QED
  BY <1>1, <1>7, <1>8, DBTyped

(* The front thread builds its group. *)
LEMMA StartGroupKeeps ==
  ASSUME DBInv, NEW w \in Writers, StartGroup(w)
  PROVE  DBInv'
<1> DEFINE last == BuildBatchGroup(queue)
           H == {j \in DOMAIN queue : HasBatch(queue[j])}
           E == {Numbered(queue, H, db.seq, i) : i \in Batches(H, last)}
<1>1. /\ db.state = "open" /\ pc[w] = "front" /\ pc' = [pc EXCEPT ![w] = "append"]
      /\ UNCHANGED <<mode, disk, db, opening, bg, queue, promised>>
  BY DEF StartGroup, Awake
<1>2. pc[w] \in InQueue \ {"queued"} /\ "append" \in InGroup
  BY <1>1 DEF InQueue, InGroup
<1>3. /\ queue' \in Seq(Writers) /\ pc' \in [Writers -> Places] /\ QueueSound'
      /\ pc'[w] = "append" /\ \A v \in Writers : pc'[v] \in InGroup => v = w
      /\ \A v \in Writers : v # w => pc'[v] = pc[v]
  BY <1>1, <1>2, LeaderMoves
<1>4. group = NoGroup /\ group.entries = {}
  BY <1>1, FrontHasNoGroup DEF NoGroup
<1>5. Len(queue) \in Nat /\ DOMAIN queue = 1 .. Len(queue) /\ Len(queue) >= 1 /\ queue[1] = w
  BY <1>2, QueueTyped, DBTyped
<1>6. last \in 1 .. Len(queue) /\ \A j \in 1 .. last : Sync(queue[j]) => Sync(w)
  BY <1>5, BuildGroupFacts
<1>7. group' = [entries |-> E, last |-> last, ok |-> TRUE, sync_error |-> FALSE]
  <2>1. ASSUME NEW i \in 1 .. last PROVE {j \in 1 .. i : HasBatch(queue[j])} = Batches(H, i)
    <3>1. \A j \in 1 .. i : j \in DOMAIN queue
      BY <1>5, <1>6
    <3> QED
      BY <3>1 DEF Batches
  <2>2. last \in 1 .. last
    BY <1>5, <1>6
  <2>3. {j \in 1 .. last : HasBatch(queue[j])} = Batches(H, last)
    BY <2>1, <2>2
  <2>4. \A i \in Batches(H, last) : i \in 1 .. last
    BY DEF Batches
  <2>5. \A i \in Batches(H, last) : [w |-> queue[i], s |-> db.seq + Cardinality({j \in 1 .. i : HasBatch(queue[j])})]
                                    = Numbered(queue, H, db.seq, i)
    BY <2>1, <2>4 DEF Numbered
  <2> DEFINE F == {[w |-> queue[i], s |-> db.seq + Cardinality({j \in 1 .. i : HasBatch(queue[j])})] :
                      i \in {j \in 1 .. last : HasBatch(queue[j])}}
  <2>6. F = E
    BY <2>3, <2>5
  <2>7. group' = [entries |-> F, last |-> last, ok |-> TRUE, sync_error |-> FALSE]
    BY DEF StartGroup
  <2> HIDE DEF F, E, last
  <2> QED
    BY <2>6, <2>7
<1>8. /\ E \in Records
      /\ \A e \in E : db.seq < e.s /\ e.s <= db.seq + Cardinality(E)
      /\ \A e, f \in E : e.s = f.s => e.w = f.w
      /\ \A e \in E : \E i \in 1 .. last : e.w = queue[i]
  <2>1. Distinct(queue)
    BY DBTyped DEF QueueSound, Distinct
  <2>2. queue \in Seq(Writers) /\ db.seq \in Nat
    BY DBTyped
  <2>3. Numbering(E, queue, H, db.seq, last)
    BY DEF Numbering
  <2>4. last \in 1 .. Len(queue)
    BY <1>6
  <2> HIDE DEF H, last, E
  <2> QED
    BY <2>1, <2>2, <2>3, <2>4, GroupNumbers
<1> HIDE DEF E, last, H
<1>9. group'.entries = E /\ group'.last = last /\ group'.ok = TRUE /\ group'.sync_error = FALSE
      /\ DOMAIN group' = {"entries", "last", "ok", "sync_error"}
  BY <1>7
<1>10. Syncing' = Syncing
  BY <1>1, SameSync
<1>11. Typed'
  BY <1>1, <1>3 DEF DBInv, Typed
<1>12. DiskSound(Syncing, disk, promised)'
  BY <1>1, <1>10 DEF DBInv
<1>13. CallsSound'
  <2>1. db.manual # None => pc'[db.manual] = "manual"
    BY <1>1, <1>3, DBTyped
  <2> QED
    BY <1>1, <2>1 DEF CallsSound
<1>14. GroupsSound'
  <2>a. db' = db /\ last \in Nat
    BY <1>1, <1>5, <1>6
  <2>b. \A e \in group'.entries : db'.seq < e.s /\ e.s <= db'.seq + Cardinality(group'.entries)
    BY <2>a, <1>8, <1>9
  <2>1. GroupSound(db', group')
    BY <2>a, <2>b, <1>8, <1>9 DEF GroupSound
  <2>2. LeaderSound(Syncing, disk, db, group, w)'
    <3>1. \A e \in E : e.w \in Syncing => w \in Syncing
      BY <1>6, <1>8 DEF Syncing
    <3> QED
      BY <1>1, <1>3, <1>6, <1>9, <1>10, <3>1 DEF LeaderSound
  <2> QED
    BY <1>2, <1>3, <2>1, <2>2 DEF GroupsSound
<1>15. PhasesSound'
  <2>1. UseSound(Syncing, disk, db, bg, promised, group)
    BY <1>1 DEF DBInv, PhasesSound, InUse
  <2>2. SequencesSound(disk, db, promised, group')
    BY <2>1, <1>4 DEF UseSound, SequencesSound
  <2>3. UseSound(Syncing, disk, db, bg, promised, group')
    BY <2>1, <2>2 DEF UseSound
  <2> QED
    BY <1>1, <1>10, <2>3 DEF PhasesSound
<1>16. UniqueSequences'
  <2>1. \A e \in Everywhere : e.s \in Nat /\ e.s <= db.seq
    BY <1>1, <1>4, AllBelow, EverythingTyped DEF InUse
  <2>2. Unique(Everywhere)
    BY DEF DBInv, UniqueSequences, Unique, Everywhere
  <2>3. \A e \in E : e.s \in Nat /\ db.seq < e.s
    BY <1>8 DEF Records, Entries
  <2>4. Unique(E)
    BY <1>8 DEF Unique
  <2>5. Unique(Everywhere \cup E)
    BY <2>1, <2>2, <2>3, <2>4, UniqueWithNew, DBTyped
  <2> QED
    BY <2>5, <1>1, <1>9 DEF UniqueSequences, Everywhere
<1> QED
  BY <1>3, <1>11, <1>12, <1>13, <1>14, <1>15, <1>16 DEF DBInv

-----------------------------------------------------------------------------
(***************************************************************************)
(* The files change under an open database.                                *)
(***************************************************************************)

(* The tables of the version and of every cut stay as they are. *)
TableStays(d, f, t) == t \in DOMAIN d.tables => t \in DOMAIN f.tables /\ f.tables[t].data = d.tables[t].data
TablesStay(d, f, b) ==
    /\ \A t \in Tables(b.version) : TableStays(d, f, t)
    /\ \A c \in Cutting(d) : \A t \in TablesOf(Cut(d, c)) : TableStays(d, f, t)
SameManifest(d, f) == f.current = d.current /\ Manifest(f) = Manifest(d)

(* The prefixes of the manifest are the same when the manifest is. *)
LEMMA SameManifestFacts ==
  ASSUME NEW d, NEW f, SameManifest(d, f)
  PROVE  Cutting(f) = Cutting(d) /\ (\A c : Cut(f, c) = Cut(d, c)) /\ Manifest(f) = Manifest(d) /\ f.current = d.current
  BY DEF SameManifest, Cutting, Cut

(* A job stays sound when its tables and the manifest stay. *)
LEMMA JobFrame ==
  ASSUME NEW d, NEW f, NEW b, NEW job, JobSound(d, b, job), SameManifest(d, f), b \in Databases,
         \A t \in Tables(b.version) : t \in DOMAIN d.tables /\ TableStays(d, f, t), JobOutput(f, job)
  PROVE  JobSound(f, b, job)
<1>1. JobUnused(f, b, job)
  BY SameManifestFacts DEF JobSound, JobUnused
<1>2. JobInputs(f, b, job)
  <2>1. b.version.l0 \subseteq Tables(b.version)
    BY DEF Tables
  <2> QED
    BY <2>1 DEF JobSound, JobInputs, TableStays
<1>3. JobLogged(f, b, job)
  BY SameManifestFacts DEF JobSound, JobLogged
<1> QED
  BY <1>1, <1>2, <1>3 DEF JobSound

(* An open database stays sound when its tables stay and its logs move. *)
LEMMA UseFiles ==
  ASSUME NEW y, NEW d, NEW f, NEW b \in Databases, NEW j, NEW p, NEW g, NEW h,
         DiskTyped(d), DiskTyped(f), UseSound(y, d, b, j, p, g), SameManifest(d, f),
         LogsGrow(d, f), DOMAIN f.logs = DOMAIN d.logs, TablesStay(d, f, b), SequencesSound(f, b, p, h),
         j.job # NoJob => JobOutput(f, j.job), j.outer # NoJob => JobOutput(f, j.outer)
  PROVE  UseSound(y, f, b, j, p, h)
<1>1. /\ NumbersSound(d, b) /\ SequencesSound(d, b, p, g) /\ (\A e \in p : PromiseKept(y, d, b, e))
      /\ (\A c \in Cutting(d) : CutFollows(d, b, Cut(d, c))) /\ ManifestCurrent(d, b, j.job.at) /\ JobsSound(d, b, j)
  BY DEF UseSound
<1>2. Cutting(f) = Cutting(d) /\ (\A c : Cut(f, c) = Cut(d, c)) /\ Manifest(f) = Manifest(d) /\ f.current = d.current
  BY SameManifestFacts
<1>3. NumbersSound(f, b)
  BY <1>1, <1>2 DEF NumbersSound
<1>4. \A t \in Tables(b.version) : t \in DOMAIN d.tables /\ TableStays(d, f, t)
  BY <1>1 DEF SequencesSound, TableUpTo, TablesStay
<1>5. ASSUME NEW e \in p PROVE PromiseKept(y, f, b, e)
  <2>1. Logged(y, d, e, b.logfile) => Logged(y, f, e, b.logfile)
    BY <1>1, LoggedStays DEF NumbersSound
  <2>2. InLogs(y, d, e, b.log_number) => InLogs(y, f, e, b.log_number)
    BY LoggedStays
  <2>3. InTables(d, e, Tables(b.version)) => InTables(f, e, Tables(b.version))
    BY <1>4 DEF InTables, TableStays
  <2> QED
    BY <1>1, <2>1, <2>2, <2>3 DEF PromiseKept
<1>6. ASSUME NEW c \in Cutting(f) PROVE CutFollows(f, b, Cut(f, c))
  <2>1. CutFollows(d, b, Cut(d, c)) /\ Cut(f, c) = Cut(d, c) /\ c \in Cutting(d)
    BY <1>1, <1>2, <1>6
  <2>2. \A e : InTables(d, e, TablesOf(Cut(d, c))) => InTables(f, e, TablesOf(Cut(d, c)))
    BY <2>1, InTablesStays DEF TablesStay, TableStays
  <2>3. \A t \in Tables(b.version) : \A e \in f.tables[t].data : InTables(f, e, TablesOf(Cut(d, c)))
    BY <2>1, <2>2, <1>4 DEF CutFollows, TableStays
  <2> QED
    BY <2>1, <2>3 DEF CutFollows
<1>7. ManifestCurrent(f, b, j.job.at)
  BY <1>1, <1>2 DEF ManifestCurrent
<1>8. JobsSound(f, b, j)
  BY <1>1, <1>4, JobFrame DEF JobsSound
<1> QED
  BY <1>3, <1>5, <1>6, <1>7, <1>8 DEF UseSound

(* Records are appended to the current log, or it is synced. *)
LEMMA UseLog ==
  ASSUME NEW y, NEW d, NEW f, NEW b \in Databases, NEW j, NEW p, NEW g, NEW h,
         DiskTyped(d), DiskTyped(f), DiskSound(y, d, p), UseSound(y, d, b, j, p, g), LogsGrow(d, f),
         f.current = d.current, f.manifests = d.manifests, f.tables = d.tables, DOMAIN f.logs = DOMAIN d.logs,
         \A n \in DOMAIN d.logs : n # b.logfile => f.logs[n] = d.logs[n], SequencesSound(f, b, p, h)
  PROVE  UseSound(y, f, b, j, p, h) /\ DiskSound(y, f, p)
<1>1. SameManifest(d, f) /\ TablesStay(d, f, b)
  BY DEF SameManifest, Manifest, TablesStay, TableStays
<1>2. (j.job # NoJob => JobOutput(f, j.job)) /\ (j.outer # NoJob => JobOutput(f, j.outer))
  BY DEF UseSound, JobsSound, JobSound, JobOutput
<1>3. UseSound(y, f, b, j, p, h)
  BY <1>1, <1>2, UseFiles
<1>4. ASSUME d.current # 0, NEW c \in Cutting(d) PROVE Kinder(y, d, f, Cut(d, c))
  <2>1. LogOf(Cut(d, c)) \in Nat /\ LogOf(Cut(d, c)) <= b.logfile /\ b.logfile \in Nat
    BY <1>4 DEF DiskSound, CutSound, Names, UseSound, CutFollows, Databases
  <2>2. ASSUME NEW n \in DOMAIN f.logs, n < LogOf(Cut(d, c)) PROVE n \in DOMAIN d.logs /\ f.logs[n].recs = d.logs[n].recs
    <3>1. n \in Nat /\ n # b.logfile
      BY <2>1, <2>2, LogTyped
    <3> QED
      BY <3>1
  <2> QED
    BY <2>2, GrowingIsKinder
<1>5. DiskSound(y, f, p)
  BY <1>1, <1>4, DiskStaysSound DEF SameManifest
<1> QED
  BY <1>3, <1>5

(* A step of the leader of a group. *)
LogMoves(d, f, b) ==
    /\ DiskTyped(f) /\ LogsGrow(d, f)
    /\ f.current = d.current /\ f.manifests = d.manifests /\ f.tables = d.tables /\ DOMAIN f.logs = DOMAIN d.logs
    /\ \A n \in DOMAIN d.logs : n # b.logfile => f.logs[n] = d.logs[n]
(* A step of the group that changes its log keeps the invariant. *)
LEMMA GroupStep ==
  ASSUME DBInv, NEW w \in Writers, pc[w] \in InGroup, db.state = "open", NEW x \in InGroup, pc' = [pc EXCEPT ![w] = x],
         UNCHANGED <<mode, db, opening, bg, queue, promised>>, LogMoves(disk, disk', db),
         \A i \in DOMAIN disk'.logs[db.logfile].recs : \/ i \in DOMAIN disk.logs[db.logfile].recs /\
                                                            disk'.logs[db.logfile].recs[i] = disk.logs[db.logfile].recs[i]
                                                       \/ disk'.logs[db.logfile].recs[i] = group.entries,
         group'.entries = group.entries, group'.last = group.last, group'.ok \in BOOLEAN, group'.sync_error \in BOOLEAN,
         DOMAIN group' = DOMAIN group,
         x = "sync" => Stored(disk', db, group, FALSE),
         x = "apply" /\ group'.ok => Stored(disk', db, group, w \in Syncing)
  PROVE  DBInv'
<1>1. pc[w] \in InQueue \ {"queued"}
  BY DEF InGroup, InQueue
<1>2. /\ queue' \in Seq(Writers) /\ pc' \in [Writers -> Places] /\ QueueSound'
      /\ pc'[w] = x /\ (\A v \in Writers : pc'[v] \in InGroup => v = w)
      /\ \A v \in Writers : v # w => pc'[v] = pc[v]
  BY <1>1, LeaderMoves
<1>3. Syncing' = Syncing
  BY SameSync
<1>4. UseSound(Syncing, disk, db, bg, promised, group) /\ DiskSound(Syncing, disk, promised)
  BY DEF DBInv, PhasesSound, InUse
<1>5. db.logfile \in DOMAIN disk.logs
  BY <1>4 DEF UseSound, NumbersSound
<1>6. SequencesSound(disk', db, promised, group')
  <2>1. /\ \A n \in DOMAIN disk.logs : \A i \in DOMAIN disk.logs[n].recs : \A e \in disk.logs[n].recs[i] :
              e.s <= db.seq \/ (n = db.logfile /\ e \in group.entries)
        /\ \A t \in Tables(db.version) : TableUpTo(disk, t, db.seq)
        /\ \A e \in promised \cup db.mem \cup ImmOf(db) : e.s <= db.seq
    BY <1>4 DEF UseSound, SequencesSound
  <2>2. ASSUME NEW n \in DOMAIN disk'.logs, NEW i \in DOMAIN disk'.logs[n].recs, NEW e \in disk'.logs[n].recs[i]
        PROVE  e.s <= db.seq \/ (n = db.logfile /\ e \in group'.entries)
    <3>1. CASE n # db.logfile
      BY <3>1, <2>1 DEF LogMoves
    <3>2. CASE n = db.logfile
      BY <3>2, <2>1, <1>5
    <3> QED
      BY <3>1, <3>2
  <2>3. \A t \in Tables(db.version) : TableUpTo(disk', t, db.seq)
    BY <2>1 DEF TableUpTo, LogMoves
  <2> QED
    BY <2>1, <2>2, <2>3 DEF SequencesSound
<1>7. UseSound(Syncing, disk', db, bg, promised, group') /\ DiskSound(Syncing, disk', promised)
  BY <1>4, <1>6, UseLog, DBTyped DEF LogMoves
<1>8. Typed'
  BY <1>2 DEF DBInv, Typed, LogMoves
<1>9. DiskSound(Syncing, disk, promised)' /\ PhasesSound'
  BY <1>3, <1>7 DEF PhasesSound
<1>10. CallsSound'
  <2>1. db.manual # None => pc'[db.manual] = "manual"
    BY <1>1, <1>2, DBTyped DEF InQueue
  <2> QED
    BY <2>1 DEF CallsSound
<1>11. GroupsSound'
  <2>0. GroupSound(db, group) /\ LeaderSound(Syncing, disk, db, group, w)
    BY DEF DBInv, GroupsSound
  <2>1. GroupSound(db', group')
    BY <2>0 DEF GroupSound
  <2>2. \A b, d, s : Stored(d, b, group', s) <=> Stored(d, b, group, s)
    BY DEF Stored
  <2>3. LeaderSound(Syncing, disk, db, group, w)'
    <3>1. (\A e \in group'.entries : e.w \in Syncing => w \in Syncing) /\ group'.last \in 1 .. Len(queue')
      BY <2>0 DEF LeaderSound
    <3>2. x = "sync" => Stored(disk', db', group', FALSE)
      BY <2>2
    <3>3. x = "apply" /\ group'.ok => Stored(disk', db', group', w \in Syncing)
      BY <2>2
    <3> QED
      BY <3>1, <3>2, <3>3, <1>2, <1>3 DEF LeaderSound
  <2> QED
    BY <1>2, <2>1, <2>3 DEF GroupsSound
<1>12. UniqueSequences'
  <2>1. LogEntries(disk') \subseteq LogEntries(disk) \cup group.entries
    <3> SUFFICES ASSUME NEW e \in LogEntries(disk'), e \notin group.entries PROVE e \in LogEntries(disk)
      OBVIOUS
    <3>1. DiskTyped(disk) /\ DiskTyped(disk')
      BY DBTyped DEF LogMoves
    <3>2. PICK n \in DOMAIN disk'.logs : \E i \in DOMAIN disk'.logs[n].recs : e \in disk'.logs[n].recs[i]
      BY <3>1, InLogEntries
    <3>3. PICK i \in DOMAIN disk'.logs[n].recs : e \in disk'.logs[n].recs[i]
      BY <3>2
    <3>4. n \in DOMAIN disk.logs /\ i \in DOMAIN disk.logs[n].recs /\ e \in disk.logs[n].recs[i]
      <4>1. CASE n # db.logfile
        BY <4>1, <3>3 DEF LogMoves
      <4>2. CASE n = db.logfile
        BY <4>2, <3>3, <1>5
      <4> QED
        BY <4>1, <4>2
    <3> QED
      BY <3>1, <3>4, InLogEntries
  <2> QED
    BY <2>1 DEF DBInv, UniqueSequences, Unique
<1> QED
  BY <1>2, <1>8, <1>9, <1>10, <1>11, <1>12 DEF DBInv

(* The leader's group. *)
LEMMA LeaderFacts ==
  ASSUME DBInv, NEW w \in Writers, pc[w] \in InGroup, db.state = "open"
  PROVE  /\ GroupSound(db, group) /\ LeaderSound(Syncing, disk, db, group, w)
         /\ group.entries \in Records /\ db.logfile \in DOMAIN disk.logs
         /\ UseSound(Syncing, disk, db, bg, promised, group) /\ DiskSound(Syncing, disk, promised)
<1>1. GroupSound(db, group) /\ LeaderSound(Syncing, disk, db, group, w)
  BY DEF DBInv, GroupsSound
<1>2. UseSound(Syncing, disk, db, bg, promised, group) /\ DiskSound(Syncing, disk, promised)
  BY DEF DBInv, PhasesSound, InUse
<1> QED
  BY <1>1, <1>2 DEF GroupSound, UseSound, NumbersSound

(* The group is appended to the log, or the append fails. *)
LEMMA AddRecordKeeps ==
  ASSUME DBInv, ~ GivesUp, NEW w \in Writers, AddRecord(w)
  PROVE  DBInv'
<1> DEFINE n == db.logfile
           old == disk.logs[n].recs
           more == AppendLog(disk, n, group.entries)
<1>1. db.state = "open" /\ pc[w] = "append" /\ pc[w] \in InGroup /\ UNCHANGED <<mode, db, opening, bg, queue, promised>>
  BY DEF AddRecord, InGroup
<1>2. /\ group.entries \in Records /\ db.logfile \in DOMAIN disk.logs /\ DiskTyped(disk) /\ GroupSound(db, group)
  BY <1>1, LeaderFacts, DBTyped
<1>3. /\ DiskTyped(more) /\ LogsGrow(disk, more)
      /\ more.current = disk.current /\ more.manifests = disk.manifests /\ more.tables = disk.tables
      /\ DOMAIN more.logs = DOMAIN disk.logs /\ (\A m \in DOMAIN disk.logs : m # n => more.logs[m] = disk.logs[m])
      /\ DOMAIN more.logs[n].recs = 1 .. Len(old) + 1 /\ more.logs[n].recs[Len(old) + 1] = group.entries
      /\ \A i \in DOMAIN old : more.logs[n].recs[i] = old[i]
  <2> HIDE DEF more
  <2>1. more = AppendLog(disk, n, group.entries)
    BY DEF more
  <2> QED
    BY <2>1, <1>2, AppendLogFacts
<1>4. Len(old) \in Nat /\ DOMAIN old = 1 .. Len(old)
  BY <1>2, LogTyped
<1> HIDE DEF more
<1>5. LogMoves(disk, more, db) /\ LogMoves(disk, disk, db)
  <2>1. LogsGrow(disk, disk)
    BY <1>2, LogTyped DEF LogsGrow
  <2> QED
    BY <1>2, <1>3, <2>1 DEF LogMoves
<1>6. Len(old) + 1 \in DOMAIN more.logs[n].recs
  BY <1>3, <1>4
<1>7. Stored(more, db, group, FALSE)
  BY <1>3, <1>6 DEF Stored
<1>8. \A i \in DOMAIN more.logs[n].recs : \/ i \in DOMAIN old /\ more.logs[n].recs[i] = old[i]
                                          \/ more.logs[n].recs[i] = group.entries
  <2> SUFFICES ASSUME NEW i \in DOMAIN more.logs[n].recs
               PROVE  \/ i \in DOMAIN old /\ more.logs[n].recs[i] = old[i]
                      \/ more.logs[n].recs[i] = group.entries
    OBVIOUS
  <2>1. i \in 1 .. Len(old) + 1
    BY <1>3
  <2>2. i \in DOMAIN old \/ i = Len(old) + 1
    BY <2>1, <1>4
  <2> QED
    BY <2>2, <1>3
<1>9. DOMAIN group = {"entries", "last", "ok", "sync_error"} /\ group.ok \in BOOLEAN /\ group.sync_error \in BOOLEAN
  BY <1>2 DEF GroupSound
<1>12. RecordWritten \in {disk, more} /\ (db.logfile \notin torn => RecordWritten = more)
  BY DEF RecordWritten, more
<1>10. CASE disk' = more /\ pc' = [pc EXCEPT ![w] = IF Sync(w) THEN "sync" ELSE "apply"] /\ UNCHANGED group
  <2>1. w \in Syncing <=> Sync(w)
    BY DEF Syncing
  <2>2. CASE Sync(w)
    <3>1. pc' = [pc EXCEPT ![w] = "sync"] /\ "sync" \in InGroup
      BY <1>10, <2>2 DEF InGroup
    <3> QED
      BY <3>1, <1>1, <1>5, <1>7, <1>8, <1>9, <1>10, GroupStep
  <2>3. CASE ~ Sync(w)
    <3>1. pc' = [pc EXCEPT ![w] = "apply"] /\ "apply" \in InGroup
      BY <1>10, <2>3 DEF InGroup
    <3>2. Stored(more, db, group, w \in Syncing)
      BY <1>7, <2>1, <2>3 DEF Stored
    <3> QED
      BY <3>1, <3>2, <1>1, <1>5, <1>7, <1>8, <1>9, <1>10, GroupStep
  <2> QED
    BY <2>2, <2>3
<1>11. CASE group' = [group EXCEPT !.ok = FALSE] /\ pc' = [pc EXCEPT ![w] = "apply"] /\ disk' \in {disk, more}
  <2>1. /\ group'.entries = group.entries /\ group'.last = group.last /\ group'.ok = FALSE
        /\ group'.sync_error \in BOOLEAN /\ DOMAIN group' = DOMAIN group
    BY <1>9, <1>11
  <2>2. LogMoves(disk, disk', db) /\ "apply" \in InGroup
    BY <1>5, <1>11 DEF InGroup
  <2>3. \A i \in DOMAIN disk'.logs[n].recs : \/ i \in DOMAIN old /\ disk'.logs[n].recs[i] = old[i]
                                             \/ disk'.logs[n].recs[i] = group.entries
    BY <1>8, <1>11
  <2> QED
    BY <1>1, <1>11, <2>1, <2>2, <2>3, GroupStep
<1>13. CASE disk' = RecordWritten /\ pc' = [pc EXCEPT ![w] = IF Sync(w) THEN "sync" ELSE "apply"] /\ UNCHANGED group
  <2>1. db.logfile \notin torn
    BY <1>13 DEF GivesUp, WrittenBehindTorn
  <2> QED
    BY <1>10, <1>12, <1>13, <2>1
<1> QED
  BY <1>11, <1>12, <1>13 DEF AddRecord

(* The log is synced, or the sync fails. *)
LEMMA SyncLogKeeps ==
  ASSUME DBInv, NEW w \in Writers, SyncLog(w)
  PROVE  DBInv'
<1> DEFINE n == db.logfile
           old == disk.logs[n].recs
<1>1. /\ db.state = "open" /\ pc[w] = "sync" /\ pc[w] \in InGroup /\ UNCHANGED <<mode, db, opening, bg, queue, promised>>
      /\ pc' = [pc EXCEPT ![w] = "apply"] /\ "apply" \in InGroup
  BY DEF SyncLog, InGroup
<1>2. /\ group.entries \in Records /\ db.logfile \in DOMAIN disk.logs /\ DiskTyped(disk) /\ GroupSound(db, group)
      /\ LeaderSound(Syncing, disk, db, group, w)
  BY <1>1, LeaderFacts, DBTyped
<1>3. Stored(disk, db, group, FALSE)
  BY <1>1, <1>2 DEF LeaderSound
<1>4. Len(old) \in Nat /\ DOMAIN old = 1 .. Len(old)
  BY <1>2, LogTyped
<1>5. DOMAIN group = {"entries", "last", "ok", "sync_error"} /\ group.ok \in BOOLEAN /\ group.sync_error \in BOOLEAN
  BY <1>2 DEF GroupSound
<1>6. CASE disk' = WithSync(disk, n) /\ UNCHANGED group
  <2>1. /\ DiskTyped(disk') /\ LogsGrow(disk, disk')
        /\ disk'.current = disk.current /\ disk'.manifests = disk.manifests /\ disk'.tables = disk.tables
        /\ DOMAIN disk'.logs = DOMAIN disk.logs /\ (\A m \in DOMAIN disk.logs : m # n => disk'.logs[m] = disk.logs[m])
        /\ disk'.logs[n].recs = old /\ disk'.logs[n].synced = Len(old)
    BY <1>2, <1>6, SyncLogFacts
  <2>2. LogMoves(disk, disk', db)
    BY <2>1 DEF LogMoves
  <2>3. \A i \in DOMAIN disk'.logs[n].recs : \/ i \in DOMAIN old /\ disk'.logs[n].recs[i] = old[i]
                                             \/ disk'.logs[n].recs[i] = group.entries
    BY <2>1
  <2>4. Stored(disk', db, group, w \in Syncing)
    BY <1>3, <1>4, <2>1 DEF Stored
  <2> QED
    BY <1>1, <1>5, <1>6, <2>2, <2>3, <2>4, GroupStep
<1>7. CASE group' = [group EXCEPT !.ok = FALSE, !.sync_error = TRUE] /\ UNCHANGED disk
  <2>1. /\ group'.entries = group.entries /\ group'.last = group.last /\ group'.ok = FALSE
        /\ group'.sync_error = TRUE /\ DOMAIN group' = DOMAIN group
    BY <1>5, <1>7
  <2>2. LogMoves(disk, disk', db)
    <3>1. LogsGrow(disk, disk)
      BY <1>2, LogTyped DEF LogsGrow
    <3> QED
      BY <1>2, <1>7, <3>1 DEF LogMoves
  <2>3. \A i \in DOMAIN disk'.logs[n].recs : \/ i \in DOMAIN old /\ disk'.logs[n].recs[i] = old[i]
                                             \/ disk'.logs[n].recs[i] = group.entries
    BY <1>7
  <2> QED
    BY <1>1, <2>1, <2>2, <2>3, GroupStep
<1> QED
  BY <1>6, <1>7 DEF SyncLog, WithSync

(* The object after a group was applied. *)
Applied(b, g, c) ==
    /\ c.mem = (IF g.ok THEN b.mem \cup g.entries ELSE b.mem) /\ c.seq = b.seq + Cardinality(g.entries)
    /\ c.bg_error = (b.bg_error \/ g.sync_error)
    /\ c.imm = b.imm /\ c.logfile = b.logfile /\ c.next = b.next /\ c.log_number = b.log_number
    /\ c.manifest = b.manifest /\ c.version = b.version /\ c.scheduled = b.scheduled /\ c.state = b.state
    /\ c.manual = b.manual /\ c.shutting_down = b.shutting_down

(* What applying a group changes in the object. *)
LEMMA AppliedFacts ==
  ASSUME NEW b \in Databases, NEW g, GroupSound(b, g), NEW c,
         c = [b EXCEPT !.mem = IF g.ok THEN b.mem \cup g.entries ELSE b.mem, !.seq = b.seq + Cardinality(g.entries),
                       !.bg_error = b.bg_error \/ g.sync_error]
  PROVE  c \in Databases /\ Applied(b, g, c) /\ b.seq \in Nat /\ Cardinality(g.entries) \in Nat
<1>1. g.entries \in Records /\ g.ok \in BOOLEAN /\ g.sync_error \in BOOLEAN /\ b.mem \in Records /\ b.seq \in Nat
  BY DEF GroupSound, Databases
<1>2. Cardinality(g.entries) \in Nat
  BY <1>1, FS_CardinalityType DEF Records
<1> DEFINE m == IF g.ok THEN b.mem \cup g.entries ELSE b.mem
           s == b.seq + Cardinality(g.entries)
           x == b.bg_error \/ g.sync_error
<1>3. m \in Records
  BY <1>1, FS_Union DEF Records
<1>4. s \in Nat /\ x \in BOOLEAN
  BY <1>1, <1>2
<1>5. m = (IF g.ok THEN b.mem \cup g.entries ELSE b.mem) /\ s = b.seq + Cardinality(g.entries)
      /\ x = (b.bg_error \/ g.sync_error) /\ c = [b EXCEPT !.mem = m, !.seq = s, !.bg_error = x]
  OBVIOUS
<1> HIDE DEF m, s, x
<1>6. /\ c.mem = m /\ c.seq = s /\ c.bg_error = x
      /\ c.imm = b.imm /\ c.logfile = b.logfile /\ c.next = b.next /\ c.log_number = b.log_number
      /\ c.manifest = b.manifest /\ c.version = b.version /\ c.scheduled = b.scheduled /\ c.state = b.state
      /\ c.manual = b.manual /\ c.shutting_down = b.shutting_down /\ c \in Databases
  BY <1>3, <1>4, <1>5 DEF Databases
<1> QED
  BY <1>1, <1>2, <1>5, <1>6 DEF Applied

(* The entries of a group that was written are in the current log. *)
LEMMA StoredIsLogged ==
  ASSUME NEW y, NEW d, NEW b, NEW g, NEW s, Stored(d, b, g, s), \A e \in g.entries : e.w \in y => s
  PROVE  \A e \in g.entries : Logged(y, d, e, b.logfile)
  BY DEF Stored, Logged

(* An open database stays sound when a group is applied. *)
LEMMA UseApplied ==
  ASSUME NEW y, NEW d, NEW b \in Databases, NEW c, NEW j, NEW p, NEW g, UseSound(y, d, b, j, p, g), GroupSound(b, g),
         Applied(b, g, c), b.seq \in Nat, Cardinality(g.entries) \in Nat, DiskTyped(d), p \subseteq Entries,
         ImmOf(b) \subseteq Entries, \A q \in Cutting(d) : LastSeqOf(Cut(d, q)) \in Nat,
         NEW h, h = (IF g.ok THEN p \cup g.entries ELSE p),
         g.ok => \A e \in g.entries : Logged(y, d, e, b.logfile)
  PROVE  UseSound(y, d, c, j, h, NoGroup)
<1>1. /\ NumbersSound(d, b) /\ SequencesSound(d, b, p, g) /\ (\A e \in p : PromiseKept(y, d, b, e))
      /\ (\A q \in Cutting(d) : CutFollows(d, b, Cut(d, q))) /\ ManifestCurrent(d, b, j.job.at) /\ JobsSound(d, b, j)
  BY DEF UseSound
<1>2. c.seq \in Nat /\ \A n \in Nat : n <= b.seq => n <= c.seq
  BY DEF Applied
<1>3. NumbersSound(d, c)
  BY <1>1 DEF NumbersSound, Applied
<1>4. \A e \in g.entries : e.s \in Nat /\ e.s <= c.seq
  BY DEF GroupSound, Applied, Records, Entries
<1>5. ImmOf(c) = ImmOf(b)
  BY DEF Applied, ImmOf
<1>6. \A e \in Entries : e.s \in Nat
  BY DEF Entries
<1>7. SequencesSound(d, c, h, NoGroup)
  <2>1. ASSUME NEW n \in DOMAIN d.logs, NEW i \in DOMAIN d.logs[n].recs, NEW e \in d.logs[n].recs[i] PROVE e.s <= c.seq
    <3>1. e.s <= b.seq \/ e \in g.entries
      BY <1>1 DEF SequencesSound
    <3>2. e.s \in Nat
      BY LogTyped
    <3> QED
      BY <3>1, <3>2, <1>2, <1>4
  <2>2. ASSUME NEW t \in Tables(c.version) PROVE TableUpTo(d, t, c.seq)
    <3>1. TableUpTo(d, t, b.seq)
      BY <1>1 DEF SequencesSound, Applied
    <3> QED
      BY <3>1, <1>2, TableTyped DEF TableUpTo
  <2>3. ASSUME NEW e \in h \cup c.mem \cup ImmOf(c) PROVE e.s <= c.seq
    <3>1. CASE e \in g.entries
      BY <3>1, <1>4
    <3>2. CASE e \notin g.entries
      <4>1. e \in p \cup b.mem \cup ImmOf(b) /\ e \in Entries
        BY <2>3, <3>2, <1>5 DEF Applied, Databases, Records
      <4>2. e.s <= b.seq
        BY <4>1, <1>1 DEF SequencesSound
      <4> QED
        BY <4>1, <4>2, <1>2, <1>6
    <3> QED
      BY <3>1, <3>2
  <2> QED
    BY <2>1, <2>2, <2>3 DEF SequencesSound
<1>8. ASSUME NEW e \in h PROVE PromiseKept(y, d, c, e)
  <2>1. CASE g.ok /\ e \in g.entries
    BY <2>1 DEF PromiseKept, Applied
  <2>2. CASE e \in p
    <3>1. PromiseKept(y, d, b, e)
      BY <1>1, <2>2
    <3>2. b.mem \subseteq c.mem
      BY DEF Applied
    <3> QED
      BY <3>1, <3>2, <1>5 DEF PromiseKept, Applied
  <2> QED
    BY <1>8, <2>1, <2>2
<1>9. ASSUME NEW q \in Cutting(d) PROVE CutFollows(d, c, Cut(d, q))
  BY <1>1, <1>2 DEF CutFollows, Applied
<1>10. ManifestCurrent(d, c, j.job.at)
  BY <1>1 DEF ManifestCurrent, Applied
<1>11. ASSUME NEW job, JobSound(d, b, job) PROVE JobSound(d, c, job)
  <2>1. JobUnused(d, c, job)
    BY <1>11 DEF JobSound, Applied, JobUnused
  <2>2. \A e \in job.data : e.s \in Nat
    BY <1>6, <1>11 DEF JobSound, JobTyped, Records
  <2>3. JobInputs(d, c, job)
    BY <1>2, <1>5, <1>11, <2>2 DEF JobSound, Applied, JobInputs
  <2>4. JobLogged(d, c, job)
    BY <1>11 DEF JobSound, Applied, JobLogged
  <2> QED
    BY <1>11, <2>1, <2>3, <2>4 DEF JobSound
<1>12. JobsSound(d, c, j)
  <2>1. JobsShaped(c, j)
    BY <1>1 DEF JobsSound, JobsShaped, Applied
  <2> QED
    BY <1>1, <1>11, <2>1 DEF JobsSound
<1> QED
  BY <1>3, <1>7, <1>8, <1>9, <1>10, <1>12 DEF UseSound

(* No cut forgets a log that may hold a promise. *)
LEMMA CutNumbers ==
  ASSUME NEW y, NEW d, NEW p, DiskSound(y, d, p), d.current # 0, NEW c \in Cutting(d)
  PROVE  /\ LogOf(Cut(d, c)) \in Nat /\ NextOf(Cut(d, c)) \in Nat /\ LastSeqOf(Cut(d, c)) \in Nat
         /\ Names(d, Cut(d, c)) /\ Holds(y, d, p, Cut(d, c))
  BY DEF DiskSound, CutSound, Names

(* The files hold also what is logged as its sync asks. *)
LEMMA MorePromises ==
  ASSUME NEW y, NEW d, NEW p, NEW h, NEW n \in DOMAIN d.logs, DiskSound(y, d, p), d.current # 0, Manifest(d).synced >= 1,
         \A c \in Cutting(d) : LogOf(Cut(d, c)) <= n,
         \A e \in h : e \in p \/ Logged(y, d, e, n), DiskTyped(d)
  PROVE  DiskSound(y, d, h)
<1> SUFFICES ASSUME NEW c \in Cutting(d) PROVE CutSound(y, d, h, c)
  BY DEF DiskSound
<1>1. CutSound(y, d, p, c) /\ LogOf(Cut(d, c)) <= n /\ LogOf(Cut(d, c)) \in Nat
  BY DEF DiskSound, CutSound, Names
<1>2. n \in Nat
  BY DEF DiskTyped, LogsTyped
<1>3. ASSUME NEW e \in h PROVE InTables(d, e, TablesOf(Cut(d, c))) \/ InLogs(y, d, e, LogOf(Cut(d, c)))
  <2>1. CASE e \in p
    BY <2>1, <1>1 DEF CutSound, Holds
  <2>2. CASE Logged(y, d, e, n)
    BY <2>2, <1>1, <1>2 DEF InLogs
  <2> QED
    BY <2>1, <2>2
<1> QED
  BY <1>1, <1>3 DEF CutSound, Holds

(* The group is applied and its writers return. *)
LEMMA ApplyGroupKeeps ==
  ASSUME DBInv, NEW w \in Writers, ApplyGroup(w)
  PROVE  DBInv'
<1>1. /\ db.state = "open" /\ pc[w] = "apply" /\ pc[w] \in InGroup /\ UNCHANGED <<mode, disk, opening, bg>>
      /\ Return(group.last, group.ok) /\ group' = NoGroup
      /\ promised' = IF group.ok THEN promised \cup group.entries ELSE promised
  BY DEF ApplyGroup, InGroup
<1>2. db' = [db EXCEPT !.mem = IF group.ok THEN db.mem \cup group.entries ELSE db.mem,
                       !.seq = db.seq + Cardinality(group.entries), !.bg_error = db.bg_error \/ group.sync_error]
  BY DEF ApplyGroup, SequenceAfter
<1>3. /\ GroupSound(db, group) /\ LeaderSound(Syncing, disk, db, group, w) /\ db.logfile \in DOMAIN disk.logs
      /\ UseSound(Syncing, disk, db, bg, promised, group) /\ DiskSound(Syncing, disk, promised)
  BY <1>1, LeaderFacts
<1>4. db' \in Databases /\ Applied(db, group, db') /\ db.seq \in Nat /\ Cardinality(group.entries) \in Nat
  BY <1>2, <1>3, AppliedFacts, DBTyped
<1>5. group.ok => \A e \in group.entries : Logged(Syncing, disk, e, db.logfile)
  <2> SUFFICES ASSUME group.ok PROVE \A e \in group.entries : Logged(Syncing, disk, e, db.logfile)
    OBVIOUS
  <2>1. Stored(disk, db, group, w \in Syncing) /\ \A e \in group.entries : e.w \in Syncing => w \in Syncing
    BY <1>1, <1>3 DEF LeaderSound
  <2> QED
    BY <2>1, StoredIsLogged
<1>6. disk.current # 0 /\ Manifest(disk).synced >= 1
  BY <1>3, CutTyped, DBTyped DEF UseSound, NumbersSound
<1>7. UseSound(Syncing, disk, db', bg, promised', NoGroup)
  <2>1. \A q \in Cutting(disk) : LastSeqOf(Cut(disk, q)) \in Nat
    BY <1>3, <1>6, CutNumbers
  <2>2. promised \subseteq Entries /\ ImmOf(db) \subseteq Entries /\ db \in Databases /\ DiskTyped(disk)
    BY EverythingTyped, DBTyped DEF Typed, Records
  <2> QED
    BY <1>1, <1>3, <1>4, <1>5, <2>1, <2>2, UseApplied
<1>8. DiskSound(Syncing, disk, promised')
  <2>1. \A c \in Cutting(disk) : LogOf(Cut(disk, c)) <= db.logfile
    BY <1>3 DEF UseSound, CutFollows
  <2>2. \A e \in promised' : e \in promised \/ Logged(Syncing, disk, e, db.logfile)
    BY <1>1, <1>5
  <2> QED
    BY <1>3, <1>6, <2>1, <2>2, MorePromises, DBTyped
<1>9. group.last \in 1 .. Len(queue)
  BY <1>3 DEF LeaderSound
<1>10. /\ queue' \in Seq(Writers) /\ pc' \in [Writers -> Places] /\ QueueSound'
       /\ \A v \in Writers : pc'[v] \notin InGroup
       /\ \A v \in Writers : pc[v] \notin InQueue => pc'[v] = pc[v]
  BY <1>1, <1>9, ReturnFacts, DBTyped
<1>11. Syncing' = Syncing
  BY <1>1, SameSync
<1>12. group.entries \in Records /\ group.entries \subseteq Entries
  BY <1>3 DEF GroupSound, Records
<1>13. Typed'
  BY <1>1, <1>4, <1>10, <1>12 DEF DBInv, Typed
<1>14. CallsSound'
  <2>1. db'.manual = db.manual /\ db'.state = "open"
    BY <1>1, <1>4 DEF Applied
  <2>2. db.manual # None => pc'[db.manual] = "manual"
    BY <1>10, DBTyped DEF InQueue
  <2> QED
    BY <2>1, <2>2 DEF CallsSound
<1>15. GroupsSound'
  <2>1. GroupSound(db', NoGroup)
    BY FS_EmptySet DEF GroupSound, NoGroup, Records
  <2> QED
    BY <1>1, <1>10, <2>1 DEF GroupsSound
<1>16. PhasesSound'
  <2>1. db'.state = "open"
    BY <1>1, <1>4 DEF Applied
  <2> QED
    BY <1>1, <1>7, <1>11, <2>1 DEF PhasesSound
<1>17. UniqueSequences'
  <2>1. ImmOf(db') = ImmOf(db) /\ db'.mem \subseteq db.mem \cup group.entries /\ promised' \subseteq promised \cup group.entries
        /\ group'.entries = {}
    BY <1>1, <1>4 DEF Applied, ImmOf, NoGroup
  <2> QED
    BY <1>1, <2>1 DEF DBInv, UniqueSequences, Unique
<1>18. DiskSound(Syncing, disk, promised)'
  BY <1>1, <1>8, <1>11
<1> QED
  BY <1>10, <1>13, <1>14, <1>15, <1>16, <1>17, <1>18 DEF DBInv

(* The memtable becomes the immutable one and a new log is begun. *)
Switched(b, c) ==
    /\ c.imm = <<b.mem>> /\ c.mem = {} /\ c.logfile = b.next /\ c.next = b.next + 1
    /\ c.seq = b.seq /\ c.log_number = b.log_number /\ c.manifest = b.manifest /\ c.version = b.version
    /\ c.bg_error = b.bg_error /\ c.state = b.state /\ c.manual = b.manual /\ c.shutting_down = b.shutting_down
    /\ b.scheduled => c.scheduled = TRUE

(* What a new memtable changes in the object. *)
LEMMA SwitchedFacts ==
  ASSUME NEW b \in Databases, NEW c,
         c = MaybeScheduleCompaction([b EXCEPT !.imm = <<b.mem>>, !.mem = {}, !.logfile = b.next, !.next = b.next + 1])
  PROVE  c \in Databases /\ Switched(b, c)
<1> DEFINE a == [b EXCEPT !.imm = <<b.mem>>, !.mem = {}, !.logfile = b.next, !.next = b.next + 1]
           m == <<b.mem>>
<1>1. m \in {<<k>> : k \in Records} /\ {} \in Records /\ b.next \in Nat /\ b.next + 1 \in Nat
  BY FS_EmptySet DEF Databases, Records
<1>2. a = [b EXCEPT !.imm = m, !.mem = {}, !.logfile = b.next, !.next = b.next + 1]
  OBVIOUS
<1>3. m = <<b.mem>> /\ c = MaybeScheduleCompaction(a)
  OBVIOUS
<1> HIDE DEF a, m
<1>4. /\ a \in Databases /\ a.imm = m /\ a.mem = {} /\ a.logfile = b.next /\ a.next = b.next + 1
      /\ a.seq = b.seq /\ a.log_number = b.log_number /\ a.manifest = b.manifest /\ a.version = b.version
      /\ a.bg_error = b.bg_error /\ a.state = b.state /\ a.manual = b.manual /\ a.shutting_down = b.shutting_down
      /\ a.scheduled = b.scheduled
  BY <1>1, <1>2 DEF Databases
<1>5. /\ c \in Databases /\ SameStore(a, c) /\ c.state = a.state /\ c.manual = a.manual
      /\ c.shutting_down = a.shutting_down /\ (a.scheduled => c.scheduled = TRUE)
  BY <1>3, <1>4, ScheduleFacts
<1> QED
  BY <1>3, <1>4, <1>5 DEF SameStore, Switched

(* The entries of the one immutable memtable. *)
LEMMA OneImm ==
  ASSUME NEW c, NEW m, c.imm = <<m>>
  PROVE  ImmOf(c) = m
<1>1. ToSet(c.imm) = {m}
  BY DEF ToSet
<1> QED
  BY <1>1 DEF ImmOf

(* There are none without an immutable memtable. *)
LEMMA NoImm ==
  ASSUME NEW c, c.imm = <<>>
  PROVE  ImmOf(c) = {}
  BY DEF ImmOf, ToSet

(* An open database stays sound with a new memtable and a new log. *)
LEMMA UseSwitched ==
  ASSUME NEW y, NEW d, NEW f, NEW b \in Databases, NEW c \in Databases, NEW j, NEW p, DiskTyped(d), DiskSound(y, d, p),
         UseSound(y, d, b, j, p, NoGroup), b.imm = <<>>, Switched(b, c), f = WithLog(d, b.next)
  PROVE  UseSound(y, f, c, j, p, NoGroup) /\ DiskSound(y, f, p) /\ DiskTyped(f) /\ LogEntries(f) = LogEntries(d)
<1>1. /\ NumbersSound(d, b) /\ SequencesSound(d, b, p, NoGroup) /\ (\A e \in p : PromiseKept(y, d, b, e))
      /\ (\A q \in Cutting(d) : CutFollows(d, b, Cut(d, q))) /\ ManifestCurrent(d, b, j.job.at) /\ JobsSound(d, b, j)
  BY DEF UseSound
<1>2. b.next \in Nat /\ b.logfile \in Nat /\ b.log_number \in Nat /\ b.manifest \in Nat /\ b.version \in [l0 : SUBSET Nat, l1 : SUBSET Nat]
  BY DEF Databases
<1>3. /\ c.logfile = b.next /\ c.next = b.next + 1 /\ c.log_number = b.log_number /\ c.manifest = b.manifest
      /\ c.version = b.version /\ c.seq = b.seq /\ c.mem = {} /\ ImmOf(c) = b.mem /\ ImmOf(b) = {} /\ c.imm = <<b.mem>>
  BY OneImm, NoImm DEF Switched
<1>4. b.next \notin DOMAIN d.logs
  <2>1. \A n \in DOMAIN d.logs : n \in Nat /\ n <= b.logfile /\ b.logfile < b.next
    BY <1>1, LogTyped DEF NumbersSound
  <2> QED
    BY <1>2, <2>1
<1>5. /\ DiskTyped(f) /\ LogsGrow(d, f)
      /\ f.current = d.current /\ f.manifests = d.manifests /\ f.tables = d.tables
      /\ DOMAIN f.logs = DOMAIN d.logs \cup {b.next} /\ f.logs[b.next].recs = <<>>
      /\ \A m \in DOMAIN d.logs : f.logs[m] = d.logs[m]
  BY <1>2, <1>4, NewLogFacts
<1>6. SameManifest(d, f)
  BY <1>5 DEF SameManifest, Manifest
<1>7. Cutting(f) = Cutting(d) /\ (\A q : Cut(f, q) = Cut(d, q)) /\ Manifest(f) = Manifest(d)
  BY <1>6, SameManifestFacts
<1>8. Tables(b.version) \subseteq Nat
  BY <1>2 DEF Tables
<1>9. NumbersSound(f, c)
  <2>1. /\ d.current = b.manifest /\ d.current # 0 /\ Manifest(d).synced >= 2
        /\ b.logfile \in DOMAIN d.logs /\ b.log_number <= b.logfile
        /\ b.logfile < b.next /\ b.manifest < b.next
        /\ (\A n \in DOMAIN d.logs : n <= b.logfile)
        /\ \A t \in Tables(b.version) : t < b.next
    BY <1>1 DEF NumbersSound
  <2>2. \A n \in DOMAIN f.logs : n <= c.logfile
    BY <2>1, <1>2, <1>3, <1>5, LogTyped
  <2>3. \A t \in Tables(c.version) : t < c.next
    BY <2>1, <1>2, <1>3, <1>8
  <2>4. b.log_number <= c.logfile /\ c.logfile < c.next /\ b.manifest < c.next
    BY <2>1, <1>2, <1>3
  <2> QED
    BY <2>1, <2>2, <2>3, <2>4, <1>3, <1>5, <1>7 DEF NumbersSound
<1>10. SequencesSound(f, c, p, NoGroup)
  <2>1. /\ \A n \in DOMAIN d.logs : \A i \in DOMAIN d.logs[n].recs : \A e \in d.logs[n].recs[i] : e.s <= b.seq
        /\ \A t \in Tables(b.version) : TableUpTo(d, t, b.seq)
        /\ \A e \in p \cup b.mem \cup ImmOf(b) : e.s <= b.seq
    BY <1>1 DEF SequencesSound, NoGroup
  <2>2. \A n \in DOMAIN f.logs : \A i \in DOMAIN f.logs[n].recs : \A e \in f.logs[n].recs[i] : e.s <= c.seq
    BY <2>1, <1>3, <1>5
  <2>3. \A t \in Tables(c.version) : TableUpTo(f, t, c.seq)
    BY <2>1, <1>3, <1>5 DEF TableUpTo
  <2>4. \A e \in p \cup c.mem \cup ImmOf(c) : e.s <= c.seq
    BY <2>1, <1>3
  <2> QED
    BY <2>2, <2>3, <2>4 DEF SequencesSound
<1>11. ASSUME NEW e \in p PROVE PromiseKept(y, f, c, e)
  <2>1. PromiseKept(y, d, b, e)
    BY <1>1
  <2>2. CASE e \in b.mem /\ Logged(y, d, e, b.logfile)
    <3>1. b.logfile \in DOMAIN d.logs /\ b.log_number <= b.logfile
      BY <1>1 DEF NumbersSound
    <3>2. Logged(y, f, e, b.logfile) /\ b.logfile \in DOMAIN f.logs
      BY <2>2, <3>1, <1>5, LoggedStays
    <3>3. InLogs(y, f, e, b.log_number)
      BY <3>1, <3>2, <1>2 DEF InLogs
    <3> QED
      BY <2>2, <3>3, <1>3 DEF PromiseKept
  <2>3. CASE InTables(d, e, Tables(b.version))
    BY <2>3, <1>3, <1>5 DEF PromiseKept, InTables
  <2> QED
    BY <2>1, <2>2, <2>3, <1>3 DEF PromiseKept
<1>12. ASSUME NEW q \in Cutting(d) PROVE CutFollows(f, c, Cut(d, q)) /\ LogOf(Cut(d, q)) \in Nat /\ LogOf(Cut(d, q)) <= b.logfile
  <2>1. CutFollows(d, b, Cut(d, q)) /\ LogOf(Cut(d, q)) \in Nat /\ NextOf(Cut(d, q)) \in Nat
    BY <1>1, CutNumbers DEF NumbersSound
  <2>2. b.logfile < b.next
    BY <1>1 DEF NumbersSound
  <2>3. LogOf(Cut(d, q)) <= c.logfile /\ NextOf(Cut(d, q)) <= c.next
    BY <2>1, <2>2, <1>2, <1>3 DEF CutFollows
  <2> QED
    BY <2>1, <2>3, <1>3, <1>5 DEF CutFollows, InTables
<1>13. ManifestCurrent(f, c, j.job.at)
  BY <1>1, <1>7, <1>3 DEF ManifestCurrent, Switched
<1>14. ASSUME NEW job, JobSound(d, b, job) PROVE JobSound(f, c, job)
  <2>1. job.kind = "merge"
    BY <1>14 DEF JobSound, JobTyped, JobInputs
  <2>2. JobUnused(f, c, job)
    <3>1. job.number \in Nat /\ job.number < b.next
      BY <1>14 DEF JobSound, JobTyped, JobUnused
    <3>2. job.number < c.next
      BY <3>1, <1>2, <1>3
    <3> QED
      BY <3>2, <1>3, <1>7, <1>14 DEF JobSound, JobUnused
  <2>3. JobInputs(f, c, job)
    BY <2>1, <1>3, <1>5, <1>14 DEF JobSound, JobInputs
  <2>4. JobLogged(f, c, job)
    BY <2>1, <1>3, <1>7, <1>14 DEF JobSound, JobLogged
  <2>5. JobOutput(f, job)
    BY <1>5, <1>14 DEF JobSound, JobOutput
  <2> QED
    BY <1>14, <2>2, <2>3, <2>4, <2>5 DEF JobSound
<1>15. JobsSound(f, c, j)
  <2>1. JobsShaped(c, j)
    BY <1>1 DEF JobsSound, JobsShaped, Switched
  <2> QED
    BY <1>1, <1>14, <2>1 DEF JobsSound
<1>16. UseSound(y, f, c, j, p, NoGroup)
  BY <1>7, <1>9, <1>10, <1>11, <1>12, <1>13, <1>15 DEF UseSound
<1>17. ASSUME d.current # 0, NEW q \in Cutting(d) PROVE Kinder(y, d, f, Cut(d, q))
  <2>1. ASSUME NEW n \in DOMAIN f.logs, n < LogOf(Cut(d, q)) PROVE n \in DOMAIN d.logs /\ f.logs[n].recs = d.logs[n].recs
    <3>1. n # b.next
      BY <2>1, <1>1, <1>2, <1>12 DEF NumbersSound
    <3> QED
      BY <3>1, <1>5
  <2>2. \A t \in TablesOf(Cut(d, q)) : t \in DOMAIN d.tables => t \in DOMAIN f.tables /\ f.tables[t].data = d.tables[t].data
    BY <1>5
  <2> QED
    BY <2>1, <2>2, <1>5, GrowingIsKinder
<1>18. DiskSound(y, f, p)
  BY <1>5, <1>7, <1>17, DiskStaysSound
<1>19. LogEntries(f) = LogEntries(d)
  <2>1. \A e : e \in LogEntries(f) <=> e \in LogEntries(d)
    BY <1>5, InLogEntries
  <2> QED
    BY <2>1 DEF LogEntries
<1> QED
  BY <1>5, <1>16, <1>18, <1>19

(* A full memtable becomes immutable, or the new log cannot be made. *)
LEMMA SwitchMemTableKeeps ==
  ASSUME DBInv, NEW w \in Writers, SwitchMemTable(w)
  PROVE  DBInv'
<1>1. /\ db.state = "open" /\ pc[w] = "front" /\ Awake(w, "front") /\ db.imm = <<>>
      /\ UNCHANGED <<mode, opening, bg, group, promised>>
  BY DEF SwitchMemTable, Awake, MustWait
<1>2. CASE Return(1, FALSE) /\ UNCHANGED <<db, disk>>
  BY <1>1, <1>2, ReturnKeeps
<1>3. CASE /\ db' = MaybeScheduleCompaction([db EXCEPT !.imm = <<db.mem>>, !.mem = {}, !.logfile = db.next, !.next = db.next + 1])
           /\ disk' = WithLog(disk, db.next) /\ UNCHANGED <<queue, pc>>
  <2>1. db' \in Databases /\ Switched(db, db')
    BY <1>3, SwitchedFacts, DBTyped
  <2>2. group = NoGroup /\ \A v \in Writers : pc[v] \notin InGroup
    BY <1>1, FrontHasNoGroup
  <2>3. UseSound(Syncing, disk, db, bg, promised, NoGroup) /\ DiskSound(Syncing, disk, promised)
    BY <1>1, <2>2 DEF DBInv, PhasesSound, InUse
  <2>4. /\ UseSound(Syncing, disk', db', bg, promised, NoGroup) /\ DiskSound(Syncing, disk', promised)
        /\ DiskTyped(disk') /\ LogEntries(disk') = LogEntries(disk)
    BY <1>1, <1>3, <2>1, <2>3, UseSwitched, DBTyped
  <2>5. Syncing' = Syncing
    BY <1>1, SameSync
  <2>6. Typed' /\ QueueSound'
    BY <1>1, <1>3, <2>1, <2>4, DBTyped DEF Typed, QueueSound
  <2>7. CallsSound'
    BY <1>1, <1>3, <2>1, DBTyped DEF CallsSound, Switched
  <2>8. GroupsSound'
    <3>1. GroupSound(db', NoGroup)
      BY FS_EmptySet DEF GroupSound, NoGroup, Records
    <3> QED
      BY <1>1, <1>3, <2>2, <3>1 DEF GroupsSound
  <2>9. PhasesSound' /\ DiskSound(Syncing, disk, promised)'
    BY <1>1, <2>1, <2>2, <2>4, <2>5 DEF PhasesSound, Switched
  <2>10. UniqueSequences'
    <3>1. ImmOf(db') = db.mem /\ db'.mem = {} /\ ImmOf(db) = {}
      BY <1>1, <2>1, OneImm, NoImm DEF Switched
    <3> QED
      BY <1>1, <2>4, <3>1 DEF DBInv, UniqueSequences, Unique
  <2> QED
    BY <2>6, <2>7, <2>8, <2>9, <2>10 DEF DBInv
<1> QED
  BY <1>2, <1>3 DEF SwitchMemTable, WithLog

-----------------------------------------------------------------------------
(***************************************************************************)
(* The background thread.                                                  *)
(***************************************************************************)

(* The objects whose memtables, logs and queue are the same: what a step   *)
(* of the background thread may change is the version, the immutable       *)
(* memtable, the numbers and the flags.                                    *)
LEMMA BackgroundStep ==
  ASSUME DBInv, UNCHANGED <<mode, opening, queue, group, promised>>, InUse(db), db' \in Databases,
         db'.state \in {db.state, "undefined"}, db'.shutting_down = db.shutting_down, db'.logfile = db.logfile,
         db'.seq = db.seq, db'.mem = db.mem, db'.imm \in {db.imm, <<>>},
         pc' \in [Writers -> Places], QueueSound', \A w \in Writers : pc[w] \in InGroup \/ pc'[w] \in InGroup => pc'[w] = pc[w],
         db'.state = "closing" => \A w \in Writers : pc'[w] \in Resting,
         db'.manual # None => pc'[db'.manual] = "manual",
         DiskTyped(disk'), DiskSound(Syncing, disk', promised),
         DOMAIN disk'.logs \subseteq DOMAIN disk.logs, \A n \in DOMAIN disk'.logs : disk'.logs[n] = disk.logs[n],
         db.logfile \in DOMAIN disk'.logs,
         db'.state # "undefined" => UseSound(Syncing, disk', db', bg', promised, group)
  PROVE  DBInv'
<1>1. Syncing' = Syncing
  BY SameSync
<1>2. Typed'
  BY DBTyped DEF Typed
<1>3. DiskSound(Syncing, disk, promised)'
  BY <1>1
<1>4. CallsSound'
  BY DEF CallsSound, InUse
<1>5. GroupsSound'
  <2>1. (\A w \in Writers : pc'[w] \notin InGroup) => group' = NoGroup
    BY DEF DBInv, GroupsSound
  <2>2. ASSUME db'.state = "open" PROVE GroupSound(db', group')
    BY <2>2 DEF DBInv, GroupsSound, InUse, GroupSound
  <2>3. ASSUME db'.state = "open", NEW w \in Writers, pc'[w] \in InGroup PROVE LeaderSound(Syncing, disk, db, group, w)'
    <3>1. pc'[w] = pc[w] /\ LeaderSound(Syncing, disk, db, group, w)
      BY <2>3 DEF DBInv, GroupsSound, InUse
    <3>2. disk'.logs[db'.logfile] = disk.logs[db.logfile]
      OBVIOUS
    <3>3. \A x : Stored(disk', db', group', x) <=> Stored(disk, db, group, x)
      BY <3>2 DEF Stored
    <3> QED
      BY <1>1, <3>1, <3>3 DEF LeaderSound
  <2> QED
    BY <2>1, <2>2, <2>3 DEF GroupsSound
<1>6. PhasesSound'
  <2>1. db'.state \in {"open", "closing", "undefined"}
    BY DEF InUse
  <2>2. db'.state = "closing" => db'.shutting_down
    BY DEF DBInv, PhasesSound, InUse
  <2> QED
    BY <1>1, <2>1, <2>2 DEF PhasesSound, InUse
<1>7. UniqueSequences'
  <2>1. ImmOf(db') \subseteq ImmOf(db)
    BY NoImm DEF ImmOf
  <2>2. LogEntries(disk') \subseteq LogEntries(disk)
    BY InLogEntries, DBTyped
  <2> QED
    BY <2>1, <2>2 DEF DBInv, UniqueSequences, Unique
<1> QED
  BY <1>2, <1>3, <1>4, <1>5, <1>6, <1>7 DEF DBInv

(* What an open database needs besides its job. *)
Base(y, d, b, p, g) ==
    /\ NumbersSound(d, b) /\ SequencesSound(d, b, p, g)
    /\ \A e \in p : PromiseKept(y, d, b, e)
    /\ \A c \in Cutting(d) : CutFollows(d, b, Cut(d, c))
(* The same store; numbers may have been taken. *)
SameBut(b, c) ==
    /\ c.mem = b.mem /\ c.imm = b.imm /\ c.logfile = b.logfile /\ c.seq = b.seq /\ c.log_number = b.log_number
    /\ c.manifest = b.manifest /\ c.version = b.version /\ b.next <= c.next

(* What an open database needs stays when only numbers grow. *)
LEMMA BaseFrame ==
  ASSUME NEW y, NEW d, NEW b \in Databases, NEW c \in Databases, NEW p, NEW g, DiskTyped(d), DiskSound(y, d, p),
         Base(y, d, b, p, g), SameBut(b, c)
  PROVE  Base(y, d, c, p, g) /\ \A job : JobSound(d, b, job) => JobSound(d, c, job)
<1>1. b.next \in Nat /\ c.next \in Nat /\ b.logfile \in Nat /\ b.manifest \in Nat /\ Tables(b.version) \subseteq Nat
  BY DEF Databases, Tables
<1>2. /\ NumbersSound(d, b) /\ SequencesSound(d, b, p, g) /\ (\A e \in p : PromiseKept(y, d, b, e))
      /\ \A q \in Cutting(d) : CutFollows(d, b, Cut(d, q))
  BY DEF Base
<1>3. \A n \in Nat : (n < b.next => n < c.next) /\ (n <= b.next => n <= c.next)
  BY <1>1 DEF SameBut
<1>4. ImmOf(c) = ImmOf(b)
  BY DEF SameBut, ImmOf
<1>5. NumbersSound(d, c)
  BY <1>1, <1>2, <1>3 DEF NumbersSound, SameBut
<1>6. SequencesSound(d, c, p, g)
  BY <1>2, <1>4 DEF SequencesSound, SameBut
<1>7. \A e \in p : PromiseKept(y, d, c, e)
  BY <1>2, <1>4 DEF PromiseKept, SameBut
<1>8. ASSUME NEW q \in Cutting(d) PROVE CutFollows(d, c, Cut(d, q))
  <2>1. NextOf(Cut(d, q)) \in Nat
    BY <1>2, CutNumbers DEF NumbersSound
  <2> QED
    BY <1>2, <1>3, <2>1 DEF CutFollows, SameBut
<1>9. ASSUME NEW job, JobSound(d, b, job) PROVE JobSound(d, c, job)
  <2>1. JobUnused(d, c, job)
    BY <1>3, <1>9 DEF JobSound, JobTyped, JobUnused, SameBut
  <2>2. JobInputs(d, c, job)
    BY <1>4, <1>9 DEF JobSound, JobInputs, SameBut
  <2>3. JobLogged(d, c, job)
    BY <1>9 DEF JobSound, JobLogged, SameBut
  <2> QED
    BY <1>9, <2>1, <2>2, <2>3 DEF JobSound
<1> QED
  BY <1>5, <1>6, <1>7, <1>8, <1>9 DEF Base

(* Two such changes are one. *)
LEMMA SameButTrans ==
  ASSUME NEW a \in Databases, NEW b \in Databases, NEW c \in Databases, SameBut(a, b), SameBut(b, c)
  PROVE  SameBut(a, c)
  BY DEF SameBut, Databases

(* A database in use. *)
LEMMA InUseFacts ==
  ASSUME DBInv, InUse(db)
  PROVE  /\ Base(Syncing, disk, db, promised, group) /\ ManifestCurrent(disk, db, bg.job.at) /\ JobsSound(disk, db, bg)
         /\ DiskSound(Syncing, disk, promised) /\ db.logfile \in DOMAIN disk.logs /\ disk.current = db.manifest
         /\ disk.current # 0 /\ UseSound(Syncing, disk, db, bg, promised, group)
<1>1. UseSound(Syncing, disk, db, bg, promised, group) /\ DiskSound(Syncing, disk, promised)
  BY DEF DBInv, PhasesSound
<1> QED
  BY <1>1 DEF UseSound, Base, NumbersSound

(* A number that the next file gets is in no version and no cut. *)
LEMMA NextIsFree ==
  ASSUME DBInv, InUse(db)
  PROVE  /\ db.next \notin Tables(db.version)
         /\ \A c \in Cutting(disk) : db.next \notin TablesOf(Cut(disk, c))
<1>1. Base(Syncing, disk, db, promised, group) /\ DiskSound(Syncing, disk, promised) /\ disk.current # 0
  BY InUseFacts
<1>2. db.next \notin Tables(db.version)
  BY <1>1, DBTyped DEF Base, NumbersSound
<1>3. ASSUME NEW c \in Cutting(disk), db.next \in TablesOf(Cut(disk, c)) PROVE FALSE
  <2>1. NextOf(Cut(disk, c)) \in Nat /\ Names(disk, Cut(disk, c))
    BY <1>1, CutNumbers
  <2>2. db.next < NextOf(Cut(disk, c)) /\ NextOf(Cut(disk, c)) <= db.next
    BY <1>1, <1>3, <2>1 DEF Names, Base, CutFollows
  <2> QED
    BY <2>1, <2>2, DBTyped
<1> QED
  BY <1>2, <1>3

(* A job that begins. *)
LEMMA NewJobSound ==
  ASSUME DBInv, InUse(db), NEW kind \in {"flush", "merge"}, NEW data \in Records, NEW inputs \in SUBSET Nat,
         \A e \in data : e.s <= db.seq,
         kind = "flush" => db.imm # <<>> /\ data = ImmOf(db) /\ inputs = {},
         kind = "merge" => inputs \subseteq db.version.l0 /\ \A t \in inputs : disk.tables[t].data \subseteq data,
         NEW b \in Databases, SameBut(db, b), b.next = db.next + 1
  PROVE  JobSound(disk, b, NewJob(kind, data, inputs))
<1> DEFINE job == NewJob(kind, data, inputs)
           edit == Edit({}, {}, {}, -1, -1, -1)
           manual == kind = "merge" /\ db.manual # None
<1>1. edit \in Edits /\ manual \in BOOLEAN /\ db.next \in Nat
  BY DBTyped DEF Edit, Edits
<1>2. job = [kind |-> kind, at |-> "build", number |-> db.next, data |-> data, inputs |-> inputs,
             manual |-> manual, edit |-> edit]
  BY DEF NewJob
<1> HIDE DEF job, edit, manual
<1>3. /\ DOMAIN job = {"kind", "at", "number", "data", "inputs", "manual", "edit"}
      /\ job.kind = kind /\ job.at = "build" /\ job.number = db.next /\ job.data = data /\ job.inputs = inputs
      /\ job.manual = manual /\ job.edit = edit
  BY <1>2
<1>4. JobTyped(job)
  BY <1>1, <1>3 DEF JobTyped
<1>5. JobUnused(disk, b, job)
  BY <1>1, <1>3, NextIsFree DEF JobUnused, SameBut
<1>6. ImmOf(b) = ImmOf(db)
  BY DEF ImmOf, SameBut
<1>7. JobInputs(disk, b, job)
  BY <1>3, <1>6 DEF JobInputs, SameBut
<1>8. JobOutput(disk, job) /\ JobLogged(disk, b, job)
  BY <1>3 DEF JobOutput, JobLogged
<1> QED
  BY <1>4, <1>5, <1>7, <1>8 DEF JobSound, job

(* The jobs of an open database. *)
LEMMA JobsFacts ==
  ASSUME DBInv, InUse(db)
  PROVE  /\ bg.job = NoJob => bg.outer = NoJob
         /\ bg.job # NoJob => JobSound(disk, db, bg.job) /\ db.scheduled = TRUE
         /\ bg.outer # NoJob => /\ JobSound(disk, db, bg.outer) /\ bg.outer.kind = "merge" /\ bg.outer.at = "build"
                                /\ bg.job.kind = "flush" /\ bg.job.number # bg.outer.number
         /\ bg.job.kind # "idle" => bg.job # NoJob
         /\ bg.job.at # "idle" => bg.job # NoJob
         /\ NoJob.kind = "idle" /\ NoJob.at = "idle"
<1>1. JobsSound(disk, db, bg)
  BY InUseFacts
<1>3. NoJob.kind = "idle" /\ NoJob.at = "idle"
  BY DEF NoJob
<1> QED
  BY <1>1, <1>3 DEF JobsSound, JobsShaped

JobAsked(d, b, kind, data, inputs) ==
    /\ kind \in {"flush", "merge"} /\ data \in Records /\ inputs \in SUBSET Nat
    /\ \A e \in data : e.s <= b.seq
    /\ kind = "flush" => b.imm # <<>> /\ data = ImmOf(b) /\ inputs = {}
    /\ kind = "merge" => inputs \subseteq b.version.l0 /\ \A t \in inputs : d.tables[t].data \subseteq data
(* A job that was asked for starts. *)
LEMMA AllocateKeeps ==
  ASSUME DBInv, InUse(db), NEW kind, NEW data, NEW inputs, JobAsked(disk, db, kind, data, inputs),
         Allocate(NewJob(kind, data, inputs)), db.scheduled = TRUE, bg.outer = NoJob,
         bg.job = NoJob \/ (kind = "flush" /\ bg.job.kind = "merge" /\ bg.job.at = "build"),
         UNCHANGED <<mode, disk, opening, queue, pc, group, promised>>
  PROVE  DBInv'
<1> DEFINE job == NewJob(kind, data, inputs)
           more == db.pending \cup {job.number}
<1>1. db' = [db EXCEPT !.next = db.next + 1, !.pending = more] /\ bg' = [job |-> job, outer |-> bg.job]
  BY DEF Allocate
<1>2. job.number = db.next /\ job.kind = kind /\ job.at = "build"
  BY DEF NewJob
<1>3. more \in SUBSET Nat /\ db.next + 1 \in Nat
  BY <1>2, DBTyped DEF Databases
<1> HIDE DEF job, more
<1>a. /\ db' \in Databases /\ db'.next = db.next + 1 /\ db'.bg_error = db.bg_error
      /\ db'.mem = db.mem /\ db'.imm = db.imm /\ db'.logfile = db.logfile /\ db'.seq = db.seq
      /\ db'.log_number = db.log_number /\ db'.manifest = db.manifest /\ db'.version = db.version
      /\ db'.scheduled = db.scheduled /\ db'.state = db.state /\ db'.shutting_down = db.shutting_down
      /\ db'.manual = db.manual
  BY <1>1, <1>3, DBTyped DEF Databases
<1>b. SameBut(db, db')
  BY <1>a, DBTyped DEF SameBut
<1>4. /\ db' \in Databases /\ SameBut(db, db') /\ db'.next = db.next + 1 /\ db'.bg_error = db.bg_error
      /\ db'.scheduled = db.scheduled /\ db'.state = db.state /\ db'.shutting_down = db.shutting_down
      /\ db'.manual = db.manual
  BY <1>a, <1>b
<1>5. JobSound(disk, db', job)
  BY <1>4, NewJobSound DEF job, JobAsked
<1>6. /\ Base(Syncing, disk, db', promised, group) /\ DiskSound(Syncing, disk, promised)
      /\ db.logfile \in DOMAIN disk.logs
      /\ \A k : JobSound(disk, db, k) => JobSound(disk, db', k)
  BY <1>4, InUseFacts, BaseFrame, DBTyped
<1>7. bg'.job = job /\ bg'.outer = bg.job /\ bg' = [job |-> bg'.job, outer |-> bg'.outer]
  BY <1>1
<1>8. job # NoJob
  BY <1>2, JobsFacts
<1>9. JobsShaped(db', bg')
  <2>1. ASSUME bg.job # NoJob PROVE job.number # bg.job.number /\ kind = "flush" /\ bg.job.kind = "merge" /\ bg.job.at = "build"
    <3>1. JobSound(disk, db, bg.job)
      BY <2>1, JobsFacts
    <3> QED
      BY <2>1, <3>1, <1>2, DBTyped DEF JobSound, JobTyped, JobUnused
  <2> QED
    BY <1>2, <1>4, <1>7, <1>8, <2>1 DEF JobsShaped
<1>10. JobsSound(disk, db', bg')
  BY <1>5, <1>6, <1>7, <1>9, JobsFacts DEF JobsSound
<1>11. ManifestCurrent(disk, db', bg'.job.at)
  <2>1. ManifestCurrent(disk, db, bg.job.at) /\ bg.job.at # "install" /\ bg'.job.at # "install"
    BY <1>2, <1>7, InUseFacts, JobsFacts
  <2> QED
    BY <2>1, <1>4 DEF ManifestCurrent, SameBut
<1>12. UseSound(Syncing, disk', db', bg', promised, group)
  BY <1>6, <1>10, <1>11 DEF UseSound, Base
<1>13. db'.state = "closing" => \A w \in Writers : pc'[w] \in Resting
  BY <1>4 DEF DBInv, CallsSound
<1>14. pc' \in [Writers -> Places] /\ QueueSound'
  BY DBTyped DEF QueueSound
<1>15. db'.manual # None => pc'[db'.manual] = "manual"
  BY <1>4, DBTyped
<1>16. db'.state \in {db.state, "undefined"} /\ db'.imm \in {db.imm, <<>>} /\ db'.mem = db.mem /\ db'.seq = db.seq
       /\ db'.logfile = db.logfile
  BY <1>4 DEF SameBut
<1> QED
  BY <1>4, <1>6, <1>12, <1>13, <1>14, <1>15, <1>16, BackgroundStep, DBTyped

(* A flush starts, also inside a compaction. *)
LEMMA StartFlushKeeps ==
  ASSUME DBInv, StartFlush
  PROVE  DBInv'
<1>1. InUse(db) /\ db.imm # <<>> /\ UNCHANGED <<mode, disk, opening, queue, pc, group, promised>>
  BY DEF StartFlush, Alive, InUse
<1>2. (bg.job = NoJob /\ db.scheduled) \/ (bg.job.kind = "merge" /\ bg.job.at = "build")
  BY DEF StartFlush
<1>3. ImmEntries = ImmOf(db) /\ ImmOf(db) \in Records
  BY EverythingTyped DEF ImmEntries, ImmOf
<1>4. Allocate(NewJob("flush", ImmOf(db), {}))
  BY <1>3 DEF StartFlush
<1>5. \A e \in ImmOf(db) : e.s <= db.seq
  BY <1>1, InUseFacts DEF Base, SequencesSound
<1>6. db.scheduled = TRUE
  BY <1>1, <1>2, JobsFacts, DBTyped DEF Databases
<1>7. bg.outer = NoJob
  BY <1>1, <1>2, JobsFacts
<1>8. JobAsked(disk, db, "flush", ImmOf(db), {})
  BY <1>1, <1>3, <1>5 DEF JobAsked
<1> QED
  BY <1>1, <1>2, <1>4, <1>6, <1>7, <1>8, AllocateKeeps

(* The entries of finitely many tables are finitely many. *)
LEMMA EntriesFinite ==
  ASSUME NEW d, DiskTyped(d), NEW ns \in SUBSET Nat, NEW m \in Nat, \A n \in ns : n < m /\ n \in DOMAIN d.tables
  PROVE  EntriesOf(d, ns) \in Records
<1> DEFINE T == {d.tables[n].data : n \in ns}
           f == [n \in ns |-> d.tables[n].data]
<1>1. IsFiniteSet(ns)
  <2>1. \A n \in ns : n <= m
    OBVIOUS
  <2> QED
    BY <2>1, FS_BoundedSetOfNaturals
<1>2. f \in Surjection(ns, T)
  BY DEF Surjection
<1>a. \A t \in T : \E n \in ns : t = d.tables[n].data
  OBVIOUS
<1> HIDE DEF T, f
<1>3. IsFiniteSet(T)
  BY <1>1, <1>2, FS_Surjection
<1>4. \A t \in T : t \in Records
  <2>1. \A n \in ns : d.tables[n].data \in Records
    BY TableTyped
  <2> QED
    BY <1>a, <2>1
<1>5. \A t \in T : IsFiniteSet(t) /\ t \subseteq Entries
  BY <1>4 DEF Records
<1>6. IsFiniteSet(UNION T)
  <2> HIDE DEF T
  <2> QED
    BY <1>3, <1>5, FS_UNION
<1>7. UNION T \subseteq Entries
  BY <1>5
<1> QED
  BY <1>6, <1>7 DEF Records, EntriesOf, T

(* A compaction starts. *)
LEMMA StartMergeKeeps ==
  ASSUME DBInv, StartMerge
  PROVE  DBInv'
<1> DEFINE ns == db.version.l0
           data == EntriesOf(disk, ns)
<1>1. InUse(db) /\ UNCHANGED <<mode, disk, opening, queue, pc, group, promised>> /\ bg.job = NoJob /\ db.scheduled
      /\ Allocate(NewJob("merge", data, ns))
  BY DEF StartMerge, Alive, InUse
<1>2. ns \in SUBSET Nat /\ ns \subseteq Tables(db.version)
  BY DBTyped DEF Tables
<1>3. Base(Syncing, disk, db, promised, group)
  BY <1>1, InUseFacts
<1>4. \A n \in ns : n < db.next /\ n \in DOMAIN disk.tables /\ \A e \in disk.tables[n].data : e.s <= db.seq
  BY <1>2, <1>3 DEF Base, NumbersSound, SequencesSound, TableUpTo
<1>5. data \in Records
  BY <1>2, <1>4, EntriesFinite, DBTyped
<1>6. \A e : e \in data <=> \E n \in ns : e \in disk.tables[n].data
  BY DEF EntriesOf
<1>7. (\A e \in data : e.s <= db.seq) /\ \A t \in ns : disk.tables[t].data \subseteq data
  BY <1>4, <1>6
<1> HIDE DEF data, ns
<1>8. db.scheduled = TRUE /\ bg.outer = NoJob
  BY <1>1, JobsFacts, DBTyped DEF Databases
<1>9. JobAsked(disk, db, "merge", data, ns)
  BY <1>2, <1>5, <1>7 DEF JobAsked, ns
<1> QED
  BY <1>1, <1>8, <1>9, AllocateKeeps

(* The end of BackgroundCall. *)
LEMMA EndCallFacts ==
  ASSUME NEW b \in Databases, EndCall(b)
  PROVE  /\ db' \in Databases /\ SameBut(b, db') /\ db'.state = b.state /\ db'.manual = b.manual
         /\ db'.shutting_down = b.shutting_down /\ db'.bg_error = b.bg_error
         /\ bg' = NoJobs
<1> DEFINE a == [b EXCEPT !.scheduled = FALSE]
<1>1. db' = MaybeScheduleCompaction(a) /\ bg' = NoJobs
  BY DEF EndCall, NoJobs
<1>2. /\ a \in Databases /\ SameStore(b, a) /\ a.state = b.state /\ a.manual = b.manual
      /\ a.shutting_down = b.shutting_down
  BY DEF Databases, SameStore
<1> HIDE DEF a
<1>3. /\ db' \in Databases /\ SameStore(a, db') /\ db'.state = a.state /\ db'.manual = a.manual
      /\ db'.shutting_down = a.shutting_down
  BY <1>1, <1>2, ScheduleFacts
<1>4. SameBut(b, db') /\ db'.bg_error = b.bg_error
  BY <1>2, <1>3 DEF SameStore, SameBut, Databases
<1> QED
  BY <1>1, <1>2, <1>3, <1>4

(* No job is a sound one. *)
LEMMA NoJobsSound ==
  ASSUME NEW d, NEW b
  PROVE  JobsSound(d, b, NoJobs) /\ NoJobs.job = NoJob /\ NoJobs.job.at = "idle"
  BY DEF JobsSound, JobsShaped, NoJobs, NoJob

(* A job or a call ends: b is the object before it is scheduled again. *)
Finished(b) ==
    /\ b \in Databases /\ b.state = db.state /\ b.shutting_down = db.shutting_down
    /\ b.logfile = db.logfile /\ b.seq = db.seq /\ b.mem = db.mem /\ b.imm \in {db.imm, <<>>}
LogsLeft(d, f) == DOMAIN f.logs \subseteq DOMAIN d.logs /\ \A n \in DOMAIN f.logs : f.logs[n] = d.logs[n]

(* The background call ends. *)
LEMMA CallEnds ==
  ASSUME DBInv, InUse(db), NEW b, Finished(b), EndCall(b), UNCHANGED <<mode, opening, queue, group, promised>>,
         DiskTyped(disk'), DiskSound(Syncing, disk', promised), LogsLeft(disk, disk'),
         Base(Syncing, disk', b, promised, group), ManifestCurrent(disk', b, "idle"),
         pc' \in [Writers -> Places], QueueSound',
         \A w \in Writers : pc[w] \in InGroup \/ pc'[w] \in InGroup => pc'[w] = pc[w],
         db.state = "closing" => \A w \in Writers : pc'[w] \in Resting,
         b.manual # None => pc'[b.manual] = "manual"
  PROVE  DBInv'
<1>1. b \in Databases
  BY DEF Finished
<1>2. /\ db' \in Databases /\ SameBut(b, db') /\ db'.state = b.state /\ db'.manual = b.manual
      /\ db'.shutting_down = b.shutting_down /\ db'.bg_error = b.bg_error /\ bg' = NoJobs
  BY <1>1, EndCallFacts
<1>3. Base(Syncing, disk', db', promised, group)
  BY <1>1, <1>2, BaseFrame
<1>4. ManifestCurrent(disk', db', "idle")
  BY <1>2 DEF ManifestCurrent, SameBut
<1>5. UseSound(Syncing, disk', db', bg', promised, group)
  BY <1>2, <1>3, <1>4, NoJobsSound DEF UseSound, Base
<1>6. /\ db'.state \in {db.state, "undefined"} /\ db'.shutting_down = db.shutting_down /\ db'.logfile = db.logfile
      /\ db'.seq = db.seq /\ db'.mem = db.mem /\ db'.imm \in {db.imm, <<>>}
  BY <1>2 DEF SameBut, Finished
<1>7. db.logfile \in DOMAIN disk'.logs
  BY <1>3, <1>6 DEF Base, NumbersSound
<1>8. (db'.manual # None => pc'[db'.manual] = "manual") /\ (db'.state = "closing" => \A w \in Writers : pc'[w] \in Resting)
  BY <1>2 DEF Finished
<1> QED
  BY <1>2, <1>5, <1>6, <1>7, <1>8, BackgroundStep DEF LogsLeft

(* The request by hand is taken off and its thread told. *)
LEMMA ToldFacts ==
  ASSUME DBInv, db.manual # None, pc' = [pc EXCEPT ![db.manual] = "manual_done"], queue' = queue
  PROVE  /\ pc' \in [Writers -> Places] /\ QueueSound' /\ db.manual \in Writers /\ db.state # "closing"
         /\ \A w \in Writers : pc[w] \in InGroup \/ pc'[w] \in InGroup => pc'[w] = pc[w]
<1>1. db.manual \in Writers /\ pc[db.manual] = "manual" /\ pc[db.manual] \notin InQueue
  BY DBTyped DEF InQueue
<1>2. "manual_done" \in Places \ InQueue
  BY DEF Places, InQueue
<1>3. db.state # "closing"
  BY <1>1 DEF DBInv, CallsSound, Resting
<1> QED
  BY <1>1, <1>2, <1>3, OutsideFacts, DBTyped

(* The threads stay where they are. *)
LEMMA StandStill ==
  ASSUME DBInv, UNCHANGED <<pc, queue>>
  PROVE  /\ pc' \in [Writers -> Places] /\ QueueSound'
         /\ \A w \in Writers : pc[w] \in InGroup \/ pc'[w] \in InGroup => pc'[w] = pc[w]
         /\ db.state = "closing" => \A w \in Writers : pc'[w] \in Resting
         /\ db.manual # None => pc'[db.manual] = "manual"
  BY DBTyped DEF QueueSound, DBInv, CallsSound

(* The background thread finds nothing to do. *)
LEMMA NothingToDoKeeps ==
  ASSUME DBInv, NothingToDo
  PROVE  DBInv'
<1>1. InUse(db) /\ UNCHANGED <<mode, opening, queue, group, promised, disk>> /\ bg.job = NoJob
  BY DEF NothingToDo, Alive, InUse
<1>2. /\ Base(Syncing, disk, db, promised, group) /\ ManifestCurrent(disk, db, bg.job.at)
      /\ DiskSound(Syncing, disk, promised) /\ bg.job.at = "idle"
  BY <1>1, InUseFacts, JobsFacts
<1>3. LogsLeft(disk, disk')
  BY <1>1 DEF LogsLeft
<1>4. CASE EndCall(db) /\ UNCHANGED pc
  <2>1. Finished(db)
    BY DBTyped DEF Finished
  <2> QED
    BY <1>1, <1>2, <1>3, <1>4, <2>1, StandStill, CallEnds, DBTyped
<1>5. CASE db.manual # None /\ EndCall([db EXCEPT !.manual = None]) /\ pc' = [pc EXCEPT ![db.manual] = "manual_done"]
  <2> DEFINE b == [db EXCEPT !.manual = None]
  <2>1. /\ b \in Databases /\ SameStore(db, b) /\ b.state = db.state /\ b.manual = None
        /\ b.shutting_down = db.shutting_down
    BY ManualSet, DBTyped
  <2> HIDE DEF b
  <2>2. Finished(b) /\ SameBut(db, b)
    BY <2>1, DBTyped DEF Finished, SameStore, SameBut
  <2>3. Base(Syncing, disk, b, promised, group)
    BY <2>1, <2>2, <1>2, BaseFrame, DBTyped
  <2>4. ManifestCurrent(disk, b, "idle")
    BY <1>2, <2>1 DEF ManifestCurrent, SameStore
  <2>5. EndCall(b)
    BY <1>5 DEF b
  <2>6. /\ pc' \in [Writers -> Places] /\ QueueSound' /\ db.state # "closing"
        /\ \A w \in Writers : pc[w] \in InGroup \/ pc'[w] \in InGroup => pc'[w] = pc[w]
    BY <1>1, <1>5, ToldFacts
  <2> QED
    BY <1>1, <1>2, <1>3, <2>1, <2>2, <2>3, <2>4, <2>5, <2>6, CallEnds, DBTyped
<1> QED
  BY <1>4, <1>5 DEF NothingToDo

(* The object that a job leaves. *)
Left(b, job, failed) ==
    LET free == IF job.kind = "merge" THEN [b EXCEPT !.pending = @ \ {job.number}] ELSE b
    IN  IF failed THEN [free EXCEPT !.bg_error = TRUE] ELSE free

(* What a job that ends leaves of the object. *)
LEMMA LeftFacts ==
  ASSUME NEW b \in Databases, NEW job, NEW failed \in BOOLEAN
  PROVE  LET c == Left(b, job, failed)
         IN  /\ c \in Databases /\ SameBut(b, c) /\ c.bg_error = (b.bg_error \/ failed) /\ c.manual = b.manual
             /\ c.scheduled = b.scheduled /\ c.state = b.state /\ c.shutting_down = b.shutting_down
<1> DEFINE less == b.pending \ {job.number}
           free == IF job.kind = "merge" THEN [b EXCEPT !.pending = less] ELSE b
           c == IF failed THEN [free EXCEPT !.bg_error = TRUE] ELSE free
<1>1. less \in SUBSET Nat
  BY DEF Databases
<1>2. Left(b, job, failed) = c
  BY DEF Left
<1> HIDE DEF less
<1>3. /\ free \in Databases /\ free.mem = b.mem /\ free.imm = b.imm /\ free.logfile = b.logfile /\ free.seq = b.seq
      /\ free.log_number = b.log_number /\ free.manifest = b.manifest /\ free.version = b.version /\ free.next = b.next
      /\ free.bg_error = b.bg_error /\ free.manual = b.manual
      /\ free.scheduled = b.scheduled /\ free.state = b.state /\ free.shutting_down = b.shutting_down
  BY <1>1 DEF Databases
<1> HIDE DEF free
<1>4. /\ c \in Databases /\ c.mem = free.mem /\ c.imm = free.imm /\ c.logfile = free.logfile /\ c.seq = free.seq
      /\ c.log_number = free.log_number /\ c.manifest = free.manifest /\ c.version = free.version /\ c.next = free.next
      /\ c.manual = free.manual
      /\ c.scheduled = free.scheduled /\ c.state = free.state /\ c.shutting_down = free.shutting_down
  BY <1>3 DEF Databases
<1>5. c.bg_error = (b.bg_error \/ failed)
  <2>1. CASE failed
    BY <1>3, <2>1 DEF Databases
  <2>2. CASE ~ failed
    BY <1>3, <2>2 DEF Databases
  <2> QED
    BY <2>1, <2>2
<1> HIDE DEF c
<1>6. b.next \in Nat
  BY DEF Databases
<1> QED
  BY <1>2, <1>3, <1>4, <1>5, <1>6 DEF SameBut

(* The undefined object has its type. *)
LEMMA UndefinedFacts ==
  ASSUME NEW b \in Databases, NEW c, c = [b EXCEPT !.state = "undefined"]
  PROVE  /\ c \in Databases /\ c.state = "undefined" /\ c.shutting_down = b.shutting_down /\ c.logfile = b.logfile
         /\ c.seq = b.seq /\ c.mem = b.mem /\ c.imm = b.imm /\ c.manual = b.manual
  BY DEF Databases

(* A job ends in object b. *)
LEMMA JobEnds ==
  ASSUME DBInv, InUse(db), bg.job # NoJob, NEW b, NEW failed \in BOOLEAN, EndJob(b, failed), Finished(b),
         b.manual = db.manual, b.scheduled = TRUE, UNCHANGED <<mode, opening, queue, group, promised>>,
         DiskTyped(disk'), DiskSound(Syncing, disk', promised), LogsLeft(disk, disk'),
         Base(Syncing, disk', b, promised, group), failed \/ ManifestCurrent(disk', b, "idle"),
         bg.outer # NoJob => JobSound(disk', b, bg.outer)
  PROVE  DBInv'
<1> DEFINE c == Left(b, bg.job, failed)
<1>1. b \in Databases
  BY DEF Finished
<1>2. /\ c \in Databases /\ SameBut(b, c) /\ c.bg_error = (b.bg_error \/ failed) /\ c.manual = db.manual
      /\ c.scheduled = TRUE /\ c.state = b.state /\ c.shutting_down = b.shutting_down
  BY <1>1, LeftFacts
<1>3. /\ bg.outer # NoJob => /\ bg' = [job |-> bg.outer, outer |-> NoJob] /\ db' = c /\ UNCHANGED pc
      /\ bg.outer = NoJob /\ bg.job.manual /\ c.manual = None =>
            db' = [c EXCEPT !.state = "undefined"] /\ bg' = bg /\ UNCHANGED pc
      /\ bg.outer = NoJob /\ ~ (bg.job.manual /\ c.manual = None) =>
            /\ EndCall([c EXCEPT !.manual = IF bg.job.manual THEN None ELSE c.manual])
            /\ pc' = IF bg.job.manual /\ failed THEN [pc EXCEPT ![c.manual] = "manual_done"] ELSE pc
  BY DEF EndJob, Left
<1> HIDE DEF c
<1>4. Base(Syncing, disk', c, promised, group) /\ (bg.outer # NoJob => JobSound(disk', c, bg.outer))
  BY <1>1, <1>2, BaseFrame
<1>5. ManifestCurrent(disk', c, "idle")
  BY <1>2 DEF ManifestCurrent, SameBut
<1>6. /\ c.state = db.state /\ c.shutting_down = db.shutting_down /\ c.logfile = db.logfile
      /\ c.seq = db.seq /\ c.mem = db.mem /\ c.imm \in {db.imm, <<>>}
  BY <1>2 DEF SameBut, Finished
<1>7. db.logfile \in DOMAIN disk'.logs
  BY <1>4, <1>6 DEF Base, NumbersSound
<1>8. CASE bg.outer # NoJob
  <2>1. bg' = [job |-> bg.outer, outer |-> NoJob] /\ db' = c /\ UNCHANGED pc
    BY <1>3, <1>8
  <2>2. bg.outer.kind = "merge" /\ bg.outer.at = "build"
    BY <1>8, JobsFacts
  <2>3. bg'.job = bg.outer /\ bg'.outer = NoJob /\ bg' = [job |-> bg'.job, outer |-> bg'.outer]
    BY <2>1
  <2>4. JobsSound(disk', c, bg')
    BY <1>2, <1>4, <1>8, <2>3 DEF JobsSound, JobsShaped
  <2>5. ManifestCurrent(disk', c, bg'.job.at)
    BY <1>5, <2>2, <2>3 DEF ManifestCurrent
  <2>6. UseSound(Syncing, disk', db', bg', promised, group)
    BY <1>4, <2>1, <2>4, <2>5 DEF UseSound, Base
  <2> QED
    BY <1>2, <1>6, <1>7, <2>1, <2>6, StandStill, BackgroundStep DEF LogsLeft
<1>9. CASE bg.outer = NoJob /\ bg.job.manual /\ c.manual = None
  <2>1. db' = [c EXCEPT !.state = "undefined"] /\ UNCHANGED pc
    BY <1>3, <1>9
  <2>2. /\ db' \in Databases /\ db'.state = "undefined" /\ db'.shutting_down = c.shutting_down /\ db'.logfile = c.logfile
        /\ db'.seq = c.seq /\ db'.mem = c.mem /\ db'.imm = c.imm /\ db'.manual = c.manual
    BY <1>2, <2>1, UndefinedFacts
  <2> QED
    BY <1>2, <1>6, <1>7, <2>1, <2>2, StandStill, BackgroundStep DEF LogsLeft
<1>10. CASE bg.outer = NoJob /\ ~ (bg.job.manual /\ c.manual = None)
  <2> DEFINE x == IF bg.job.manual THEN None ELSE c.manual
             a == [c EXCEPT !.manual = x]
  <2>1. EndCall(a) /\ pc' = IF bg.job.manual /\ failed THEN [pc EXCEPT ![c.manual] = "manual_done"] ELSE pc
    BY <1>3, <1>10
  <2>2. x \in Writers \cup {None} /\ (x # None => x = db.manual /\ ~ bg.job.manual)
    BY <1>2, DBTyped
  <2> HIDE DEF x
  <2>3. a \in Databases /\ SameStore(c, a) /\ a.state = c.state /\ a.manual = x /\ a.shutting_down = c.shutting_down
    BY <1>2, <2>2, ManualSet
  <2> HIDE DEF a
  <2>4. Finished(a) /\ SameBut(c, a)
    BY <1>2, <1>6, <2>3 DEF Finished, SameStore, SameBut, Databases
  <2>5. Base(Syncing, disk', a, promised, group)
    BY <1>2, <1>4, <2>3, <2>4, BaseFrame
  <2>6. ManifestCurrent(disk', a, "idle")
    BY <1>5, <2>3 DEF ManifestCurrent, SameStore
  <2>7. /\ pc' \in [Writers -> Places] /\ QueueSound'
        /\ (\A w \in Writers : pc[w] \in InGroup \/ pc'[w] \in InGroup => pc'[w] = pc[w])
        /\ (db.state = "closing" => \A w \in Writers : pc'[w] \in Resting)
        /\ (x # None => pc'[x] = "manual")
    <3>1. CASE bg.job.manual /\ failed
      BY <1>2, <1>10, <2>1, <2>2, <3>1, ToldFacts
    <3>2. CASE ~ (bg.job.manual /\ failed)
      BY <2>1, <2>2, <3>2, StandStill
    <3> QED
      BY <3>1, <3>2
  <2> QED
    BY <2>1, <2>3, <2>4, <2>5, <2>6, <2>7, CallEnds
<1> QED
  BY <1>8, <1>9, <1>10

Freed(b, n) == [b EXCEPT !.pending = @ \ {n}]
(* What freeing a number changes. *)
LEMMA FreedFacts ==
  ASSUME NEW b \in Databases, NEW n, NEW c, c = Freed(b, n)
  PROVE  /\ c \in Databases /\ SameBut(b, c) /\ c.bg_error = b.bg_error /\ c.manual = b.manual
         /\ c.scheduled = b.scheduled /\ c.state = b.state /\ c.shutting_down = b.shutting_down /\ c.next = b.next
<1> DEFINE less == b.pending \ {n}
<1>1. less \in SUBSET Nat /\ b.next \in Nat /\ c = [b EXCEPT !.pending = less]
  BY DEF Databases, Freed
<1> HIDE DEF less
<1> QED
  BY <1>1 DEF Databases, SameBut

(* A job has failed. *)
LEMMA JobFailedKeeps ==
  ASSUME DBInv, JobFailed
  PROVE  DBInv'
<1> DEFINE b == [db EXCEPT !.pending = @ \ {bg.job.number}]
<1>1. InUse(db) /\ UNCHANGED <<mode, disk, opening, queue, group, promised>> /\ EndJob(b, TRUE) /\ bg.job.at # "idle"
  BY DEF JobFailed, Alive, InUse
<1>2. bg.job # NoJob /\ db.scheduled = TRUE
  BY <1>1, JobsFacts
<1>3. /\ b \in Databases /\ SameBut(db, b) /\ b.bg_error = db.bg_error /\ b.manual = db.manual
      /\ b.scheduled = db.scheduled /\ b.state = db.state /\ b.shutting_down = db.shutting_down
  <2>1. b = Freed(db, bg.job.number)
    BY DEF Freed
  <2> HIDE DEF b
  <2> QED
    BY <2>1, FreedFacts, DBTyped
<1> HIDE DEF b
<1>4. /\ Base(Syncing, disk, b, promised, group) /\ DiskSound(Syncing, disk, promised)
      /\ bg.outer # NoJob => JobSound(disk, b, bg.outer)
  BY <1>1, <1>3, InUseFacts, JobsFacts, BaseFrame, DBTyped
<1>5. Finished(b) /\ LogsLeft(disk, disk')
  BY <1>1, <1>3 DEF Finished, SameBut, LogsLeft
<1> QED
  BY <1>1, <1>2, <1>3, <1>4, <1>5, JobEnds, DBTyped

(* A job moves on, its edit not yet in the manifest. *)
JobAt(job, x) == [job EXCEPT !.at = x]
(* A job that moves on stays sound. *)
LEMMA JobMoves ==
  ASSUME NEW d, NEW b, NEW job, JobSound(d, b, job), job.at # "install", NEW x \in {"log", "failed"},
         NEW k, k = JobAt(job, x),
         x = "log" /\ job.data # {} => job.number \in DOMAIN d.tables /\ d.tables[job.number].data = job.data
  PROVE  JobSound(d, b, k) /\ k.at = x /\ k.kind = job.kind /\ k.number = job.number /\ k # NoJob
<1>1. JobTyped(job)
  BY DEF JobSound
<1>2. /\ DOMAIN k = {"kind", "at", "number", "data", "inputs", "manual", "edit"} /\ k.at = x
      /\ k.kind = job.kind /\ k.number = job.number /\ k.data = job.data /\ k.inputs = job.inputs
      /\ k.manual = job.manual /\ k.edit = job.edit
  BY <1>1 DEF JobTyped, JobAt
<1>3. JobTyped(k)
  BY <1>1, <1>2 DEF JobTyped
<1>4. JobUnused(d, b, k)
  BY <1>2 DEF JobSound, JobUnused
<1>5. JobInputs(d, b, k)
  BY <1>2 DEF JobSound, JobInputs
<1>6. JobOutput(d, k) /\ JobLogged(d, b, k)
  BY <1>2 DEF JobOutput, JobLogged
<1>7. k # NoJob
  BY <1>2 DEF NoJob
<1> QED
  BY <1>2, <1>3, <1>4, <1>5, <1>6, <1>7 DEF JobSound

(* The inner job is replaced by itself at another place. *)
LEMMA JobReplaced ==
  ASSUME NEW b, NEW j, JobsShaped(b, j), j.job # NoJob, NEW k, NEW i, i = [j EXCEPT !.job = k],
         k.kind = j.job.kind, k.number = j.job.number, k # NoJob
  PROVE  JobsShaped(b, i) /\ i.job = k /\ i.outer = j.outer
<1>1. DOMAIN i = {"job", "outer"} /\ i.job = k /\ i.outer = j.outer
  BY DEF JobsShaped
<1> QED
  BY <1>1 DEF JobsShaped

(* Logs that are the same have grown. *)
LEMMA SameLogs ==
  ASSUME NEW d, NEW f, DiskTyped(d), f.logs = d.logs
  PROVE  LogsGrow(d, f) /\ DOMAIN f.logs = DOMAIN d.logs /\ LogsLeft(d, f)
  BY LogTyped DEF LogsGrow, LogsLeft

(* A table is built, or fails to be. *)
LEMMA BuildTableKeeps ==
  ASSUME DBInv, BuildTable
  PROVE  DBInv'
<1> DEFINE job == bg.job
<1>1. InUse(db) /\ UNCHANGED <<mode, opening, queue, pc, group, promised, db>> /\ job.at = "build" /\ job # NoJob
  BY JobsFacts DEF BuildTable, Alive, InUse
<1>2. PICK x \in {"log", "failed"} :
        /\ bg' = [bg EXCEPT !.job.at = x]
        /\ \/ x = "failed" /\ disk' = disk
           \/ x = "log" /\ job.data = {} /\ disk' = disk
           \/ x = "log" /\ job.data # {} /\ disk' = WithTable(disk, job.number, job.data)
  BY DEF BuildTable, WithTable
<1>3. /\ UseSound(Syncing, disk, db, bg, promised, group) /\ DiskSound(Syncing, disk, promised)
      /\ JobSound(disk, db, job) /\ DiskTyped(disk) /\ JobsSound(disk, db, bg) /\ disk.current # 0
  BY <1>1, InUseFacts, JobsFacts, DBTyped
<1>4. job.number \in Nat /\ job.data \in Records
  BY <1>3 DEF JobSound, JobTyped
<1>5. /\ job.number \notin Tables(db.version)
      /\ \A c \in Cutting(disk) : job.number \notin TablesOf(Cut(disk, c))
  BY <1>1, <1>3 DEF JobSound, JobUnused
<1>6. /\ DiskTyped(disk') /\ disk'.current = disk.current /\ disk'.manifests = disk.manifests /\ disk'.logs = disk.logs
      /\ \A t \in DOMAIN disk.tables : t # job.number => t \in DOMAIN disk'.tables /\ disk'.tables[t] = disk.tables[t]
      /\ x = "log" /\ job.data # {} => job.number \in DOMAIN disk'.tables /\ disk'.tables[job.number].data = job.data
  <2>1. CASE disk' = disk /\ ~ (x = "log" /\ job.data # {})
    BY <1>3, <2>1
  <2>2. CASE x = "log" /\ job.data # {} /\ disk' = WithTable(disk, job.number, job.data)
    BY <1>3, <1>4, <2>2, NewTableFacts
  <2> QED
    BY <1>2, <2>1, <2>2
<1>7. SameManifest(disk, disk') /\ TablesStay(disk, disk', db)
  BY <1>5, <1>6 DEF SameManifest, Manifest, TablesStay, TableStays
<1>8. LogsGrow(disk, disk') /\ DOMAIN disk'.logs = DOMAIN disk.logs /\ LogsLeft(disk, disk')
  BY <1>3, <1>6, SameLogs
<1>9. SequencesSound(disk', db, promised, group)
  <2>1. SequencesSound(disk, db, promised, group)
    BY <1>3 DEF UseSound
  <2>2. \A t \in Tables(db.version) : TableUpTo(disk', t, db.seq)
    BY <2>1, <1>7 DEF SequencesSound, TableUpTo, TablesStay, TableStays
  <2> QED
    BY <2>1, <2>2, <1>6 DEF SequencesSound
<1>10. (bg.job # NoJob => JobOutput(disk', bg.job)) /\ (bg.outer # NoJob => JobOutput(disk', bg.outer))
  BY <1>1, JobsFacts DEF JobOutput
<1>11. UseSound(Syncing, disk', db, bg, promised, group)
  BY <1>3, <1>6, <1>7, <1>8, <1>9, <1>10, UseFiles, DBTyped
<1>12. DiskSound(Syncing, disk', promised)
  <2>1. ASSUME NEW c \in Cutting(disk) PROVE Kinder(Syncing, disk, disk', Cut(disk, c))
    BY <1>3, <1>6, <1>7, <1>8, GrowingIsKinder DEF TablesStay, TableStays
  <2> QED
    BY <1>3, <1>7, <2>1, DiskStaysSound DEF SameManifest
<1> DEFINE k == JobAt(job, x)
<1>13. bg' = [bg EXCEPT !.job = k]
  BY <1>2 DEF JobAt
<1>14. /\ JobSound(disk', db, k) /\ k.at = x /\ k.kind = job.kind /\ k.number = job.number /\ k # NoJob
  <2>1. JobSound(disk', db, job)
    BY <1>1, <1>11 DEF UseSound, JobsSound
  <2> HIDE DEF k
  <2>2. k = JobAt(job, x)
    BY DEF k
  <2>3. job.at # "install"
    BY <1>1
  <2>4. x = "log" /\ job.data # {} => job.number \in DOMAIN disk'.tables /\ disk'.tables[job.number].data = job.data
    BY <1>6
  <2> HIDE DEF job
  <2> QED
    BY <2>1, <2>2, <2>3, <2>4, JobMoves
<1> HIDE DEF k
<1>15. JobsShaped(db, bg') /\ bg'.job = k /\ bg'.outer = bg.outer
  BY <1>1, <1>3, <1>13, <1>14, JobReplaced DEF JobsSound
<1>16. JobsSound(disk', db, bg')
  BY <1>11, <1>14, <1>15 DEF UseSound, JobsSound
<1>17. ManifestCurrent(disk', db, bg'.job.at)
  BY <1>1, <1>11, <1>14, <1>15 DEF UseSound, ManifestCurrent
<1>18. UseSound(Syncing, disk', db', bg', promised, group)
  BY <1>1, <1>11, <1>16, <1>17 DEF UseSound
<1>19. db'.state \in {db.state, "undefined"} /\ db'.imm \in {db.imm, <<>>} /\ db.logfile \in DOMAIN disk'.logs
  BY <1>1, <1>6, InUseFacts
<1> QED
  BY <1>1, <1>6, <1>8, <1>12, <1>18, <1>19, StandStill, BackgroundStep, DBTyped DEF LogsLeft

(* The edit of a job. *)
EditFor(b, job) ==
    IF job.kind = "flush" THEN Edit({}, NewTables(job), {}, b.logfile, b.next, b.seq)
    ELSE Edit(job.inputs, {}, NewTables(job), b.log_number, b.next, b.seq)

EditMatches(b, job, e) ==
    /\ e \in Edits /\ e.del = job.inputs /\ e.next = b.next /\ e.seq = b.seq
    /\ e.add0 = (IF job.kind = "flush" THEN NewTables(job) ELSE {})
    /\ e.add1 = (IF job.kind = "flush" THEN {} ELSE NewTables(job))
    /\ e.log = (IF job.kind = "flush" THEN b.logfile ELSE b.log_number)
    /\ e.next \in Nat /\ e.seq \in Nat /\ e.log \in Nat /\ e.add0 \cup e.add1 = NewTables(job)

(* The edit of a job. *)
LEMMA EditForFacts ==
  ASSUME NEW d, NEW b \in Databases, NEW job, JobSound(d, b, job), NEW e, e = EditFor(b, job)
  PROVE  EditMatches(b, job, e)
<1>1. /\ job.kind \in {"flush", "merge"} /\ job.number \in Nat /\ job.inputs \subseteq Nat
      /\ job.kind = "flush" => job.inputs = {}
  BY DEF JobSound, JobTyped, JobInputs
<1>2. NewTables(job) \in SUBSET Nat
  BY <1>1 DEF NewTables
<1>3. b.logfile \in Nat /\ b.log_number \in Nat /\ b.next \in Nat /\ b.seq \in Nat
  BY DEF Databases
<1>4. CASE job.kind = "flush"
  <2>1. e = [del |-> {}, add0 |-> NewTables(job), add1 |-> {}, log |-> b.logfile, next |-> b.next, seq |-> b.seq]
    BY <1>4 DEF EditFor, Edit
  <2> QED
    BY <1>1, <1>2, <1>3, <1>4, <2>1 DEF Edits, EditMatches
<1>5. CASE job.kind # "flush"
  <2>1. e = [del |-> job.inputs, add0 |-> {}, add1 |-> NewTables(job), log |-> b.log_number, next |-> b.next, seq |-> b.seq]
    BY <1>5 DEF EditFor, Edit
  <2> QED
    BY <1>1, <1>2, <1>3, <1>5, <2>1 DEF Edits, EditMatches
<1> QED
  BY <1>4, <1>5

(* What the manifest says once the edit is appended. *)
EditWritten(y, d, f, b, p, g, job, e, r) ==
    /\ b \in Databases /\ DiskTyped(d) /\ DiskSound(y, d, p) /\ Base(y, d, b, p, g)
    /\ JobSound(d, b, job) /\ job.at = "log" /\ e = EditFor(b, job) /\ f = WithEdit(d, e)
    /\ r = Append(Manifest(d).recs, e)
(* What the manifest says with the edit at its end. *)
LEMMA EditedManifest ==
  ASSUME NEW y, NEW d, NEW f, NEW b, NEW p, NEW g, NEW job, NEW e, NEW r, EditWritten(y, d, f, b, p, g, job, e, r)
  PROVE  /\ LogOf(r) = e.log /\ NextOf(r) = b.next /\ LastSeqOf(r) = b.seq
         /\ TablesOf(r) = (TablesOf(Manifest(d).recs) \ job.inputs) \cup NewTables(job)
         /\ CutFollows(f, b, r) /\ Names(f, r) /\ Holds(y, f, p, r)
<1> USE DEF EditWritten
<1> DEFINE recs == Manifest(d).recs
<1>1. /\ NumbersSound(d, b) /\ SequencesSound(d, b, p, g) /\ (\A q \in p : PromiseKept(y, d, b, q))
      /\ (\A c \in Cutting(d) : CutFollows(d, b, Cut(d, c))) /\ d.current # 0
  BY DEF Base, NumbersSound
<1>2. /\ e \in Edits /\ e.del = job.inputs /\ e.next = b.next /\ e.seq = b.seq /\ e.add0 \cup e.add1 = NewTables(job)
      /\ e.log = (IF job.kind = "flush" THEN b.logfile ELSE b.log_number)
      /\ e.next \in Nat /\ e.seq \in Nat /\ e.log \in Nat
  <2>1. EditMatches(b, job, e)
    BY EditForFacts
  <2> QED
    BY <2>1 DEF EditMatches
<1>3. recs \in Seq(Edits) /\ Cut(d, Len(recs)) = recs /\ Len(recs) \in Cutting(d)
  BY <1>1, CutTyped DEF NumbersSound
<1>4. /\ CutFollows(d, b, recs) /\ Names(d, recs) /\ Holds(y, d, p, recs)
      /\ LogOf(recs) \in Nat /\ NextOf(recs) \in Nat /\ LastSeqOf(recs) \in Nat
  <2>1. CutFollows(d, b, Cut(d, Len(recs)))
    BY <1>1, <1>3
  <2>2. LET c == Len(recs)
        IN  /\ LogOf(Cut(d, c)) \in Nat /\ NextOf(Cut(d, c)) \in Nat /\ LastSeqOf(Cut(d, c)) \in Nat
            /\ Names(d, Cut(d, c)) /\ Holds(y, d, p, Cut(d, c))
    BY <1>1, <1>3, CutNumbers
  <2> QED
    BY <1>3, <2>1, <2>2
<1>5. /\ f.logs = d.logs /\ f.tables = d.tables
  BY <1>1, <1>2, NewEditFacts
<1>6. LogOf(r) = e.log /\ NextOf(r) = e.next /\ LastSeqOf(r) = e.seq
  BY <1>2, <1>3, NumbersAppend DEF LogOf, NextOf, LastSeqOf
<1>7. TablesOf(r) = (TablesOf(recs) \ job.inputs) \cup NewTables(job)
  <2>1. TablesOf(r) = (TablesOf(recs) \ e.del) \cup e.add0 \cup e.add1
    BY <1>2, <1>3, TablesAppend
  <2> QED
    BY <1>2, <2>1
<1> HIDE DEF recs
<1>8. job.data # {} => NewTables(job) = {job.number} /\ job.number \in DOMAIN d.tables /\ d.tables[job.number].data = job.data
  BY DEF JobSound, JobOutput, NewTables
<1>9. b.logfile \in Nat /\ b.log_number \in Nat /\ b.next \in Nat /\ b.seq \in Nat /\ b.manifest \in Nat
      /\ b.log_number <= b.logfile /\ b.logfile < b.next /\ b.version.l0 \subseteq Tables(b.version)
  BY <1>1 DEF Databases, NumbersSound, Tables
<1>10. e.log <= b.logfile
  BY <1>2, <1>9
<1>11. ASSUME NEW q, InTables(d, q, TablesOf(recs)) PROVE InTables(f, q, TablesOf(r))
  <2>1. PICK t \in TablesOf(recs) : t \in DOMAIN d.tables /\ q \in d.tables[t].data
    BY <1>11 DEF InTables
  <2>2. CASE t \notin job.inputs
    BY <2>1, <2>2, <1>5, <1>7 DEF InTables
  <2>3. CASE t \in job.inputs
    <3>1. q \in job.data
      BY <2>1, <2>3 DEF JobSound, JobTyped, JobInputs
    <3> QED
      BY <3>1, <1>5, <1>7, <1>8 DEF InTables
  <2> QED
    BY <2>2, <2>3
<1>12. CutFollows(f, b, r)
  <2>1. \A t \in Tables(b.version) : \A q \in f.tables[t].data : InTables(f, q, TablesOf(r))
    BY <1>4, <1>5, <1>11 DEF CutFollows
  <2> QED
    BY <1>2, <1>6, <1>9, <1>10, <2>1 DEF CutFollows
<1>13. Names(f, r)
  <2>1. LogOf(r) < NextOf(r)
    BY <1>2, <1>6, <1>9, <1>10
  <2>2. ASSUME NEW t \in TablesOf(r) PROVE t < NextOf(r) /\ TableUpTo(f, t, LastSeqOf(r))
    <3>1. CASE t \in TablesOf(recs)
      <4>1. t < NextOf(recs) /\ TableUpTo(d, t, LastSeqOf(recs)) /\ NextOf(recs) <= b.next /\ LastSeqOf(recs) <= b.seq
        BY <1>4, <3>1 DEF Names, CutFollows
      <4>2. t \in DOMAIN d.tables /\ t \in Nat
        BY <4>1, TableTyped DEF TableUpTo
      <4>3. \A q \in d.tables[t].data : q.s \in Nat /\ q.s <= LastSeqOf(recs)
        BY <4>1, <4>2, TableTyped DEF TableUpTo
      <4> QED
        BY <4>1, <4>2, <4>3, <1>2, <1>4, <1>5, <1>6, <1>9 DEF TableUpTo
    <3>2. CASE t \in NewTables(job)
      <4>1. t = job.number /\ job.data # {}
        BY <3>2 DEF NewTables
      <4>2. job.number < b.next /\ \A q \in job.data : q.s <= b.seq
        BY DEF JobSound, JobUnused, JobInputs
      <4> QED
        BY <4>1, <4>2, <1>2, <1>5, <1>6, <1>8 DEF TableUpTo
    <3> QED
      BY <1>7, <3>1, <3>2
  <2>3. ASSUME NEW n \in DOMAIN f.logs, n < LogOf(r) PROVE LogUpTo(f, n, LastSeqOf(r))
    <3>1. n \in Nat /\ n # b.logfile /\ n \in DOMAIN d.logs
      BY <1>2, <1>5, <1>6, <1>9, <1>10, <2>3, LogTyped
    <3>2. \A i \in DOMAIN d.logs[n].recs : \A q \in d.logs[n].recs[i] : q.s <= b.seq
      BY <1>1, <3>1 DEF SequencesSound
    <3> QED
      BY <1>2, <1>5, <1>6, <3>2 DEF LogUpTo
  <2> QED
    BY <1>2, <1>6, <2>1, <2>2, <2>3 DEF Names
<1>14. ASSUME NEW q \in p PROVE InTables(f, q, TablesOf(r)) \/ InLogs(y, f, q, LogOf(r))
  <2>0. PromiseKept(y, d, b, q)
    BY <1>1
  <2>1. CASE q \in b.mem /\ Logged(y, d, q, b.logfile)
    <3>1. b.logfile \in DOMAIN d.logs
      BY <1>1 DEF NumbersSound
    <3> QED
      BY <2>1, <3>1, <1>2, <1>5, <1>6, <1>9, <1>10 DEF InLogs, Logged
  <2>2. CASE q \in ImmOf(b) /\ InLogs(y, d, q, b.log_number)
    <3>1. CASE job.kind = "flush"
      <4>1. q \in job.data
        BY <2>2, <3>1 DEF JobSound, JobInputs
      <4> QED
        BY <4>1, <1>5, <1>7, <1>8 DEF InTables
    <3>2. CASE job.kind # "flush"
      BY <2>2, <3>2, <1>2, <1>5, <1>6 DEF InLogs, Logged
    <3> QED
      BY <3>1, <3>2
  <2>3. CASE InTables(d, q, Tables(b.version))
    <3>1. PICK t \in Tables(b.version) : t \in DOMAIN d.tables /\ q \in d.tables[t].data
      BY <2>3 DEF InTables
    <3>2. InTables(f, q, TablesOf(r))
      BY <3>1, <1>5, <1>12 DEF CutFollows
    <3> QED
      BY <3>2
  <2> QED
    BY <2>0, <2>1, <2>2, <2>3 DEF PromiseKept
<1> QED
  BY <1>2, <1>6, <1>7, <1>12, <1>13, <1>14 DEF Holds, recs

(* Only the manifest's records change: everything else that is said of the files stays. *)
LEMMA SameFilesFacts ==
  ASSUME NEW y, NEW d, NEW f, f.logs = d.logs, f.tables = d.tables
  PROVE  /\ \A e, n : Logged(y, f, e, n) <=> Logged(y, d, e, n)
         /\ \A e, n : InLogs(y, f, e, n) <=> InLogs(y, d, e, n)
         /\ \A e, ns : InTables(f, e, ns) <=> InTables(d, e, ns)
         /\ \A n, s : LogUpTo(f, n, s) <=> LogUpTo(d, n, s)
         /\ \A t, s : TableUpTo(f, t, s) <=> TableUpTo(d, t, s)
         /\ \A r : Names(f, r) <=> Names(d, r)
         /\ \A p, r : Holds(y, f, p, r) <=> Holds(y, d, p, r)
         /\ \A b, r : CutFollows(f, b, r) <=> CutFollows(d, b, r)
         /\ \A b, p, g : SequencesSound(f, b, p, g) <=> SequencesSound(d, b, p, g)
         /\ \A b, e : PromiseKept(y, f, b, e) <=> PromiseKept(y, d, b, e)
<1>1. \A e, n : Logged(y, f, e, n) <=> Logged(y, d, e, n)
  BY DEF Logged
<1>2. \A e, n : InLogs(y, f, e, n) <=> InLogs(y, d, e, n)
  BY <1>1 DEF InLogs
<1>3. \A e, ns : InTables(f, e, ns) <=> InTables(d, e, ns)
  BY DEF InTables
<1>4. \A n, s : LogUpTo(f, n, s) <=> LogUpTo(d, n, s)
  BY DEF LogUpTo
<1>5. \A t, s : TableUpTo(f, t, s) <=> TableUpTo(d, t, s)
  BY DEF TableUpTo
<1>6. \A r : Names(f, r) <=> Names(d, r)
  BY <1>4, <1>5 DEF Names
<1>7. \A p, r : Holds(y, f, p, r) <=> Holds(y, d, p, r)
  BY <1>2, <1>3 DEF Holds
<1>8. \A b, r : CutFollows(f, b, r) <=> CutFollows(d, b, r)
  BY <1>3 DEF CutFollows
<1>9. \A b, p, g : SequencesSound(f, b, p, g) <=> SequencesSound(d, b, p, g)
  BY <1>5 DEF SequencesSound
<1>10. \A b, e : PromiseKept(y, f, b, e) <=> PromiseKept(y, d, b, e)
  BY <1>1, <1>2, <1>3 DEF PromiseKept
<1> QED
  BY <1>1, <1>2, <1>3, <1>4, <1>5, <1>6, <1>7, <1>8, <1>9, <1>10

(* The edit is in the manifest: the database is sound on these files too. *)
LEMMA EditedBase ==
  ASSUME NEW y, NEW d, NEW f, NEW b, NEW p, NEW g, NEW job, NEW e, NEW r,
         EditWritten(y, d, f, b, p, g, job, e, r)
  PROVE  DiskTyped(f) /\ DiskSound(y, f, p) /\ Base(y, f, b, p, g) /\ f.logs = d.logs /\ f.tables = d.tables
<1>0. /\ b \in Databases /\ DiskTyped(d) /\ DiskSound(y, d, p) /\ Base(y, d, b, p, g) /\ JobSound(d, b, job)
      /\ e = EditFor(b, job) /\ f = WithEdit(d, e) /\ r = Append(Manifest(d).recs, e)
  BY DEF EditWritten
<1>1. EditMatches(b, job, e)
  BY <1>0, EditForFacts
<1>2. /\ NumbersSound(d, b) /\ SequencesSound(d, b, p, g) /\ (\A q \in p : PromiseKept(y, d, b, q))
      /\ (\A c \in Cutting(d) : CutFollows(d, b, Cut(d, c))) /\ d.current # 0 /\ d.current = b.manifest /\ b.manifest < b.next
  BY <1>0 DEF Base, NumbersSound
<1> DEFINE k == Len(Manifest(f).recs)
<1>3. /\ DiskTyped(f) /\ f.current = d.current /\ f.logs = d.logs /\ f.tables = d.tables
      /\ Manifest(f).recs = r /\ Manifest(f).synced = Manifest(d).synced
      /\ Cutting(f) = Cutting(d) \cup {k} /\ (\A c \in Cutting(d) : Cut(f, c) = Cut(d, c)) /\ Cut(f, k) = r
  BY <1>0, <1>1, <1>2, NewEditFacts DEF EditMatches
<1> HIDE DEF k
<1>4. NextOf(r) = b.next /\ CutFollows(f, b, r) /\ Names(f, r) /\ Holds(y, f, p, r)
  BY EditedManifest
<1>5. b.next \in Nat /\ b.manifest \in Nat
  BY <1>0 DEF Databases
<1>6. ASSUME NEW c \in Cutting(f) PROVE CutSound(y, f, p, c) /\ CutFollows(f, b, Cut(f, c))
  <2>1. CASE c = k
    BY <2>1, <1>2, <1>3, <1>4, <1>5 DEF CutSound
  <2>2. CASE c \in Cutting(d)
    <3>1. CutSound(y, d, p, c) /\ CutFollows(d, b, Cut(d, c)) /\ Cut(f, c) = Cut(d, c)
      BY <2>2, <1>0, <1>2, <1>3 DEF DiskSound
    <3>2. Names(f, Cut(d, c)) /\ Holds(y, f, p, Cut(d, c)) /\ CutFollows(f, b, Cut(d, c))
      BY <3>1, <1>3, SameFilesFacts DEF CutSound
    <3>3. d.current < NextOf(Cut(d, c)) /\ NextOf(Cut(d, c)) <= b.next
      BY <3>1 DEF CutSound, CutFollows
    <3> QED
      BY <3>1, <3>2, <3>3, <1>3, <1>4 DEF CutSound
  <2> QED
    BY <1>3, <2>1, <2>2
<1>7. DiskSound(y, f, p)
  BY <1>0, <1>2, <1>3, <1>6 DEF DiskSound
<1>8. NumbersSound(f, b)
  BY <1>2, <1>3 DEF NumbersSound
<1>9. SequencesSound(f, b, p, g) /\ (\A q \in p : PromiseKept(y, f, b, q))
  BY <1>2, <1>3, SameFilesFacts
<1> QED
  BY <1>3, <1>6, <1>7, <1>8, <1>9 DEF Base

(* The job whose edit was written. *)
JobWithEdit(job, e) == [job EXCEPT !.at = "install", !.edit = e]
(* The job is sound once its edit is written. *)
LEMMA JobWritten ==
  ASSUME NEW y, NEW d, NEW f, NEW b, NEW p, NEW g, NEW job, NEW e, NEW r, NEW k,
         EditWritten(y, d, f, b, p, g, job, e, r), k = JobWithEdit(job, e)
  PROVE  /\ JobSound(f, b, k) /\ k.at = "install" /\ k.kind = job.kind /\ k.number = job.number /\ k # NoJob
         /\ ManifestCurrent(d, b, "log") => ManifestCurrent(f, b, "install")
<1>0. /\ b \in Databases /\ DiskTyped(d) /\ Base(y, d, b, p, g) /\ JobSound(d, b, job) /\ job.at = "log"
      /\ e = EditFor(b, job) /\ f = WithEdit(d, e) /\ r = Append(Manifest(d).recs, e)
  BY DEF EditWritten
<1>1. EditMatches(b, job, e) /\ JobTyped(job) /\ e \in Edits /\ d.current # 0
  <2>1. EditMatches(b, job, e)
    BY <1>0, EditForFacts
  <2> QED
    BY <1>0, <2>1 DEF JobSound, EditMatches, Base, NumbersSound
<1>2. /\ DOMAIN k = {"kind", "at", "number", "data", "inputs", "manual", "edit"} /\ k.at = "install"
      /\ k.kind = job.kind /\ k.number = job.number /\ k.data = job.data /\ k.inputs = job.inputs
      /\ k.manual = job.manual /\ k.edit = e
  BY <1>1 DEF JobTyped, JobWithEdit
<1>3. /\ f.logs = d.logs /\ f.tables = d.tables /\ f.current = d.current
      /\ Len(Manifest(f).recs) = Len(Manifest(d).recs) + 1 /\ Manifest(f).recs[Len(Manifest(f).recs)] = e
      /\ Manifest(f).synced = Manifest(d).synced
      /\ Cutting(f) = Cutting(d) \cup {Len(Manifest(f).recs)} /\ \A c \in Cutting(d) : Cut(f, c) = Cut(d, c)
  BY <1>0, <1>1, NewEditFacts
<1>4. Cut(f, Len(Manifest(d).recs)) = Manifest(d).recs /\ Cut(d, Len(Manifest(d).recs)) = Manifest(d).recs
      /\ Len(Manifest(d).recs) \in Nat
  BY <1>0, <1>1, NewEditFacts, CutTyped
<1>5. JobTyped(k)
  BY <1>1, <1>2 DEF JobTyped
<1>6. JobUnused(f, b, k)
  BY <1>0, <1>2, <1>3 DEF JobSound, JobUnused
<1>7. JobInputs(f, b, k)
  BY <1>0, <1>2, <1>3 DEF JobSound, JobInputs
<1>8. JobOutput(f, k)
  BY <1>0, <1>2, <1>3 DEF JobSound, JobOutput
<1>9. JobLogged(f, b, k)
  <2>1. NewTables(k) = NewTables(job)
    BY <1>2 DEF NewTables
  <2> QED
    BY <1>1, <1>2, <1>3, <1>4, <2>1 DEF JobLogged, EditMatches
<1>10. ASSUME ManifestCurrent(d, b, "log") PROVE ManifestCurrent(f, b, "install")
  <2>1. Len(Manifest(f).recs) - 1 = Len(Manifest(d).recs)
    BY <1>3, <1>4
  <2> QED
    BY <2>1, <1>3, <1>4, <1>10 DEF ManifestCurrent
<1>11. k # NoJob
  BY <1>2 DEF NoJob
<1> QED
  BY <1>2, <1>5, <1>6, <1>7, <1>8, <1>9, <1>10, <1>11 DEF JobSound

(* The job around it. *)
LEMMA OtherJobWritten ==
  ASSUME NEW y, NEW d, NEW f, NEW b, NEW p, NEW g, NEW job, NEW e, NEW r, NEW o, EditWritten(y, d, f, b, p, g, job, e, r),
         JobSound(d, b, o), o.at # "install", o.number # job.number
  PROVE  JobSound(f, b, o)
<1>0. /\ b \in Databases /\ DiskTyped(d) /\ Base(y, d, b, p, g) /\ JobSound(d, b, job) /\ job.at = "log"
      /\ e = EditFor(b, job) /\ f = WithEdit(d, e) /\ r = Append(Manifest(d).recs, e)
  BY DEF EditWritten
<1>1. EditMatches(b, job, e) /\ e \in Edits /\ d.current # 0 /\ NumbersSound(d, b)
  <2>1. EditMatches(b, job, e)
    BY <1>0, EditForFacts
  <2> QED
    BY <1>0, <2>1 DEF EditMatches, Base, NumbersSound
<1> DEFINE n == Len(Manifest(d).recs)
<1>3. /\ f.logs = d.logs /\ f.tables = d.tables /\ f.current = d.current
      /\ Cutting(f) = Cutting(d) \cup {Len(Manifest(f).recs)} /\ (\A c \in Cutting(d) : Cut(f, c) = Cut(d, c))
      /\ Cut(f, Len(Manifest(f).recs)) = r
  BY <1>0, <1>1, NewEditFacts
<1>5. n \in Cutting(d) /\ Cut(d, n) = Manifest(d).recs
  BY <1>0, <1>1, CutTyped DEF NumbersSound
<1> HIDE DEF n
<1>6. TablesOf(r) = (TablesOf(Manifest(d).recs) \ job.inputs) \cup NewTables(job)
  BY EditedManifest
<1>7. o.number \notin TablesOf(Manifest(d).recs)
  BY <1>5 DEF JobSound, JobUnused
<1>8. o.number \notin TablesOf(r)
  BY <1>6, <1>7 DEF NewTables
<1>9. JobUnused(f, b, o)
  BY <1>3, <1>8 DEF JobSound, JobUnused
<1>10. JobInputs(f, b, o)
  BY <1>0, <1>3 DEF JobSound, JobInputs
<1>11. JobOutput(f, o)
  BY <1>0, <1>3 DEF JobSound, JobOutput
<1>12. JobLogged(f, b, o)
  BY DEF JobLogged
<1> QED
  BY <1>9, <1>10, <1>11, <1>12 DEF JobSound

(* LogAndApply writes the edit, or fails to. *)
LEMMA LogEditKeeps ==
  ASSUME DBInv, LogEdit
  PROVE  DBInv'
<1> DEFINE job == bg.job
           e == EditFor(db, job)
           c == IF job.kind = "flush" THEN Freed(db, job.number) ELSE db
<1>1. /\ InUse(db) /\ UNCHANGED <<mode, opening, queue, pc, group, promised>> /\ job.at = "log" /\ job # NoJob
      /\ disk.current = db.manifest
  BY JobsFacts, InUseFacts DEF LogEdit, Alive, InUse
<1>2. db' = c
  BY DEF LogEdit, Freed
<1>3. JobEdit = e
  BY DEF JobEdit, EditFor, NewTables
<1>4. \/ disk' = WithEdit(disk, e) /\ bg' = [bg EXCEPT !.job = JobWithEdit(job, e)]
      \/ disk' = disk /\ bg' = [bg EXCEPT !.job = JobAt(job, "failed")]
  BY <1>1, <1>3 DEF LogEdit, WithEdit, JobWithEdit, JobAt
<1>5. /\ Base(Syncing, disk, db, promised, group) /\ DiskSound(Syncing, disk, promised) /\ ManifestCurrent(disk, db, job.at)
      /\ JobSound(disk, db, job) /\ DiskTyped(disk) /\ JobsSound(disk, db, bg) /\ disk.current # 0
      /\ db \in Databases
  BY <1>1, InUseFacts, JobsFacts, DBTyped
<1>6. /\ c \in Databases /\ SameBut(db, c) /\ c.bg_error = db.bg_error /\ c.manual = db.manual
      /\ c.scheduled = db.scheduled /\ c.state = db.state /\ c.shutting_down = db.shutting_down
  <2>1. CASE job.kind = "flush"
    <3>1. c = Freed(db, job.number)
      BY <2>1
    <3> HIDE DEF c
    <3> QED
      BY <3>1, <1>5, FreedFacts
  <2>2. CASE job.kind # "flush"
    <3>1. c = db
      BY <2>2
    <3> HIDE DEF c
    <3> QED
      BY <3>1, <1>5 DEF SameBut, Databases
  <2> QED
    BY <2>1, <2>2
<1> HIDE DEF c
<1>7. PICK k : /\ bg' = [bg EXCEPT !.job = k]
               /\ JobSound(disk', db, k) /\ k.kind = job.kind /\ k.number = job.number /\ k # NoJob
               /\ DiskTyped(disk') /\ DiskSound(Syncing, disk', promised) /\ Base(Syncing, disk', db, promised, group)
               /\ disk'.logs = disk.logs /\ ManifestCurrent(disk', db, k.at)
               /\ bg.outer # NoJob => JobSound(disk', db, bg.outer)
  <2>1. CASE disk' = WithEdit(disk, e) /\ bg' = [bg EXCEPT !.job = JobWithEdit(job, e)]
    <3> DEFINE k == JobWithEdit(job, e)
               r == Append(Manifest(disk).recs, e)
    <3>1. k = JobWithEdit(job, e) /\ r = Append(Manifest(disk).recs, e) /\ e = EditFor(db, job)
      OBVIOUS
    <3> HIDE DEF k, r, e
    <3>2. EditWritten(Syncing, disk, disk', db, promised, group, job, e, r)
      BY <1>1, <1>5, <2>1, <3>1 DEF EditWritten
    <3> HIDE DEF job
    <3>3. /\ JobSound(disk', db, k) /\ k.at = "install" /\ k.kind = job.kind /\ k.number = job.number /\ k # NoJob
          /\ ManifestCurrent(disk, db, "log") => ManifestCurrent(disk', db, "install")
      BY <3>1, <3>2, JobWritten
    <3>4. /\ DiskTyped(disk') /\ DiskSound(Syncing, disk', promised) /\ Base(Syncing, disk', db, promised, group)
          /\ disk'.logs = disk.logs
      BY <3>2, EditedBase
    <3>5. ASSUME bg.outer # NoJob PROVE JobSound(disk', db, bg.outer)
      <4>1. JobSound(disk, db, bg.outer) /\ bg.outer.at # "install" /\ bg.outer.number # job.number
        BY <1>1, <3>5, JobsFacts DEF job
      <4> QED
        BY <4>1, <3>2, OtherJobWritten
    <3> QED
      BY <1>1, <1>5, <2>1, <3>1, <3>3, <3>4, <3>5
  <2>2. CASE disk' = disk /\ bg' = [bg EXCEPT !.job = JobAt(job, "failed")]
    <3> DEFINE k == JobAt(job, "failed")
    <3>1. k = JobAt(job, "failed")
      OBVIOUS
    <3> HIDE DEF k
    <3>2. JobSound(disk, db, k) /\ k.at = "failed" /\ k.kind = job.kind /\ k.number = job.number /\ k # NoJob
      <4>1. job.at # "install"
        BY <1>1
      <4> HIDE DEF job
      <4> QED
        BY <1>5, <3>1, <4>1, JobMoves
    <3>3. ManifestCurrent(disk, db, k.at)
      BY <1>1, <1>5, <3>2 DEF ManifestCurrent
    <3> QED
      BY <1>1, <1>5, <2>2, <3>1, <3>2, <3>3, JobsFacts
  <2> QED
    BY <1>4, <2>1, <2>2
<1> HIDE DEF job
<1>8. /\ Base(Syncing, disk', c, promised, group) /\ JobSound(disk', c, k)
      /\ bg.outer # NoJob => JobSound(disk', c, bg.outer)
  BY <1>5, <1>6, <1>7, BaseFrame
<1>9. ManifestCurrent(disk', c, k.at)
  BY <1>6, <1>7 DEF ManifestCurrent, SameBut
<1>10. JobsShaped(db, bg') /\ bg'.job = k /\ bg'.outer = bg.outer
  BY <1>1, <1>5, <1>7, JobReplaced DEF JobsSound, job
<1>11. JobsSound(disk', c, bg')
  BY <1>6, <1>8, <1>10 DEF JobsSound, JobsShaped
<1>12. UseSound(Syncing, disk', db', bg', promised, group)
  BY <1>2, <1>8, <1>9, <1>10, <1>11 DEF UseSound, Base
<1>13. LogsLeft(disk, disk') /\ db.logfile \in DOMAIN disk'.logs
  BY <1>1, <1>5, <1>7, SameLogs, InUseFacts
<1>14. /\ db' \in Databases /\ db'.state \in {db.state, "undefined"} /\ db'.shutting_down = db.shutting_down
       /\ db'.logfile = db.logfile /\ db'.seq = db.seq /\ db'.mem = db.mem /\ db'.imm \in {db.imm, <<>>}
       /\ db'.manual = db.manual /\ db'.state = db.state
  BY <1>2, <1>6 DEF SameBut
<1> QED
  BY <1>1, <1>7, <1>12, <1>13, <1>14, StandStill, BackgroundStep DEF LogsLeft

(* The last edit of a manifest. *)
LEMMA LastEditFacts ==
  ASSUME NEW recs \in Seq(Edits), Len(recs) >= 1, NEW e, e = recs[Len(recs)]
  PROVE  /\ e \in Edits /\ SubSeq(recs, 1, Len(recs) - 1) \in Seq(Edits)
         /\ ApplyAll(recs) = ApplyEdit(ApplyAll(SubSeq(recs, 1, Len(recs) - 1)), e)
         /\ TablesOf(recs) = (TablesOf(SubSeq(recs, 1, Len(recs) - 1)) \ e.del) \cup e.add0 \cup e.add1
         /\ e.log # -1 => LogOf(recs) = e.log
<1> DEFINE front == SubSeq(recs, 1, Len(recs) - 1)
<1>1. front \in Seq(Edits) /\ e \in Edits /\ recs = Append(front, e)
  <2>1. Len(recs) \in Nat /\ Len(recs) - 1 \in Nat /\ DOMAIN recs = 1 .. Len(recs)
    OBVIOUS
  <2>2. front \in Seq(Edits) /\ Len(front) = Len(recs) - 1 /\ \A i \in 1 .. Len(recs) - 1 : front[i] = recs[i]
    BY <2>1
  <2>3. e \in Edits
    BY <2>1
  <2> DEFINE whole == Append(front, e)
  <2>4. whole \in Seq(Edits) /\ Len(whole) = Len(recs)
    BY <2>1, <2>2, <2>3
  <2>5. ASSUME NEW i \in 1 .. Len(recs) PROVE whole[i] = recs[i]
    <3> HIDE DEF front
    <3>1. CASE i = Len(recs)
      BY <2>1, <2>2, <2>3, <3>1
    <3>2. CASE i # Len(recs)
      <4>0. i \in 1 .. Len(recs) - 1
        <5> DEFINE k == Len(recs)
        <5>1. k \in Nat /\ i \in 1 .. k /\ i # k
          BY <2>1, <3>2
        <5> HIDE DEF k
        <5>2. i \in 1 .. k - 1
          BY <5>1
        <5> QED
          BY <5>2 DEF k
      <4>1. i \in 1 .. Len(recs) - 1 /\ i \in 1 .. Len(front)
        BY <2>2, <4>0
      <4>2. whole[i] = front[i]
        BY <2>2, <2>3, <4>1
      <4> QED
        BY <2>2, <4>1, <4>2
    <3> QED
      BY <3>1, <3>2
  <2> HIDE DEF whole
  <2>6. whole = recs
    BY <2>4, <2>5, SeqEqual
  <2> QED
    BY <2>2, <2>3, <2>6 DEF whole
<1> HIDE DEF front
<1>2. ApplyAll(Append(front, e)) = ApplyEdit(ApplyAll(front), e)
  BY <1>1, ApplyAppend
<1>3. TablesOf(Append(front, e)) = (TablesOf(front) \ e.del) \cup e.add0 \cup e.add1
  BY <1>1, TablesAppend
<1>4. LogOf(Append(front, e)) = IF e.log # -1 THEN e.log ELSE LogOf(front)
  BY <1>1, NumbersAppend
<1> QED
  BY <1>1, <1>2, <1>3, <1>4 DEF front

(* The object after the new version is installed. *)
Installed(b, job) ==
    [b EXCEPT !.version = ApplyEdit(@, job.edit), !.log_number = job.edit.log,
              !.imm = IF job.kind = "flush" THEN <<>> ELSE @, !.pending = @ \ {job.number}]
(* What installing changes in the object. *)
LEMMA InstalledFacts ==
  ASSUME NEW b \in Databases, NEW d, NEW job, JobSound(d, b, job), job.at = "install", NEW c, c = Installed(b, job)
  PROVE  /\ c \in Databases /\ c.state = b.state /\ c.mem = b.mem /\ c.logfile = b.logfile /\ c.next = b.next
         /\ c.seq = b.seq /\ c.manifest = b.manifest /\ c.bg_error = b.bg_error /\ c.scheduled = b.scheduled
         /\ c.shutting_down = b.shutting_down /\ c.manual = b.manual
         /\ c.imm = (IF job.kind = "flush" THEN <<>> ELSE b.imm) /\ c.log_number = job.edit.log
         /\ job.edit.log = (IF job.kind = "flush" THEN b.logfile ELSE b.log_number)
         /\ c.version = ApplyEdit(b.version, job.edit)
         /\ Tables(c.version) = (Tables(b.version) \ job.inputs) \cup NewTables(job)
         /\ job.kind = "flush" => b.version.l0 \subseteq c.version.l0
<1>1. /\ job.edit \in Edits /\ job.edit.del = job.inputs
      /\ job.edit.add0 = (IF job.kind = "flush" THEN NewTables(job) ELSE {})
      /\ job.edit.add1 = (IF job.kind = "flush" THEN {} ELSE NewTables(job))
      /\ job.edit.log = (IF job.kind = "flush" THEN b.logfile ELSE b.log_number)
      /\ job.kind = "flush" => job.inputs = {}
  BY DEF JobSound, JobTyped, JobLogged, JobInputs
<1> DEFINE v == ApplyEdit(b.version, job.edit)
           l == job.edit.log
           i == IF job.kind = "flush" THEN <<>> ELSE b.imm
           q == b.pending \ {job.number}
<1>2. /\ l \in Nat /\ q \in SUBSET Nat /\ i \in {<<>>} \cup {<<m>> : m \in Records}
      /\ b.version \in [l0 : SUBSET Nat, l1 : SUBSET Nat]
  BY <1>1 DEF Databases
<1>3. v = [l0 |-> (b.version.l0 \ job.inputs) \cup job.edit.add0, l1 |-> (b.version.l1 \ job.inputs) \cup job.edit.add1]
  BY <1>1 DEF ApplyEdit
<1>4. v \in [l0 : SUBSET Nat, l1 : SUBSET Nat]
  BY <1>1, <1>2, <1>3 DEF Edits
<1>5. Tables(v) = (Tables(b.version) \ job.inputs) \cup NewTables(job)
  <2>1. job.edit.add0 \cup job.edit.add1 = NewTables(job)
    BY <1>1
  <2> QED
    BY <1>3, <2>1 DEF Tables
<1>6. job.kind = "flush" => b.version.l0 \subseteq v.l0
  BY <1>1, <1>3
<1>7. c = [b EXCEPT !.version = v, !.log_number = l, !.imm = i, !.pending = q]
  BY DEF Installed
<1>8. i = (IF job.kind = "flush" THEN <<>> ELSE b.imm) /\ l = job.edit.log /\ v = ApplyEdit(b.version, job.edit)
  OBVIOUS
<1> HIDE DEF v, l, i, q
<1>9. /\ c \in Databases /\ c.state = b.state /\ c.mem = b.mem /\ c.logfile = b.logfile /\ c.next = b.next
      /\ c.seq = b.seq /\ c.manifest = b.manifest /\ c.bg_error = b.bg_error /\ c.scheduled = b.scheduled
      /\ c.shutting_down = b.shutting_down /\ c.manual = b.manual
      /\ c.imm = i /\ c.log_number = l /\ c.version = v
  <2> DEFINE I == {<<>>} \cup {<<m>> : m \in Records}
             V == [l0 : SUBSET Nat, l1 : SUBSET Nat]
  <2>1. i \in I /\ v \in V
    BY <1>2, <1>4
  <2>2. Databases =
          [state : {"closed", "opening", "open", "closing", "undefined"}, mem : Records, imm : I,
           logfile : Nat, next : Nat, seq : Nat, log_number : Nat, manifest : Nat,
           version : V, pending : SUBSET Nat, bg_error : BOOLEAN,
           scheduled : BOOLEAN, shutting_down : BOOLEAN, manual : Writers \cup {None}]
    BY DEF Databases
  <2> HIDE DEF I, V
  <2> QED
    BY <1>2, <1>7, <2>1, <2>2
<1> QED
  BY <1>1, <1>5, <1>6, <1>8, <1>9

(* The files after the new version is installed: the manifest is synced, what nobody needs is removed. *)
InstallDone(y, d, f, b, p, g, job, c) ==
    /\ b \in Databases /\ DiskTyped(d) /\ DiskSound(y, d, p) /\ Base(y, d, b, p, g) /\ ManifestCurrent(d, b, "install")
    /\ JobSound(d, b, job) /\ job.at = "install" /\ c = Installed(b, job)
    /\ f = DeleteObsoleteFiles(c, WithManifestSync(d))
(* The files once the manifest is synced and obsolete files are gone. *)
LEMMA InstalledFiles ==
  ASSUME NEW y, NEW d, NEW f, NEW b, NEW p, NEW g, NEW job, NEW c, InstallDone(y, d, f, b, p, g, job, c)
  PROVE  /\ DiskTyped(f) /\ f.current = d.current /\ LogsLeft(d, f) /\ Manifest(f).recs = Manifest(d).recs
         /\ Manifest(f).synced = Len(Manifest(d).recs) /\ Cutting(f) = {Len(Manifest(d).recs)}
         /\ Len(Manifest(d).recs) \in Cutting(d)
         /\ Cut(f, Len(Manifest(d).recs)) = Manifest(d).recs /\ Cut(d, Len(Manifest(d).recs)) = Manifest(d).recs
         /\ \A t \in DOMAIN f.tables : t \in DOMAIN d.tables /\ f.tables[t] = d.tables[t]
         /\ \A n \in DOMAIN d.logs : n >= c.log_number => n \in DOMAIN f.logs
         /\ \A t \in DOMAIN d.tables : t \in Tables(c.version) \cup TablesOf(Manifest(d).recs) => t \in DOMAIN f.tables
         /\ LogOf(Manifest(d).recs) = c.log_number
         /\ ~ b.bg_error => ApplyAll(Manifest(d).recs) = c.version
         /\ NewTables(job) \subseteq TablesOf(Manifest(d).recs)
<1> DEFINE recs == Manifest(d).recs
           k == Len(recs)
           s == WithManifestSync(d)
<1>0. /\ b \in Databases /\ DiskTyped(d) /\ DiskSound(y, d, p) /\ Base(y, d, b, p, g) /\ ManifestCurrent(d, b, "install")
      /\ JobSound(d, b, job) /\ job.at = "install" /\ c = Installed(b, job) /\ f = DeleteObsoleteFiles(c, s)
  BY DEF InstallDone
<1>1. d.current # 0 /\ d.current = b.manifest /\ Manifest(d).synced >= 2
  BY <1>0 DEF Base, NumbersSound
<1>2. /\ recs \in Seq(Edits) /\ k \in Nat /\ k >= 1 /\ recs[k] = job.edit /\ job.edit \in Edits
      /\ job.edit.add0 \cup job.edit.add1 = NewTables(job)
  <2>1. /\ k >= 1 /\ recs[k] = job.edit /\ job.edit \in Edits
        /\ job.edit.add0 = (IF job.kind = "flush" THEN NewTables(job) ELSE {})
        /\ job.edit.add1 = (IF job.kind = "flush" THEN {} ELSE NewTables(job))
    BY <1>0 DEF JobSound, JobTyped, JobLogged
  <2>2. recs \in Seq(Edits) /\ k \in Nat
    BY <1>0, <1>1, CutTyped
  <2> QED
    BY <2>1, <2>2
<1>3. /\ c \in Databases /\ c.manifest = b.manifest /\ c.bg_error = b.bg_error /\ c.log_number = job.edit.log
      /\ c.version = ApplyEdit(b.version, job.edit)
  BY <1>0, InstalledFacts
<1>4. c.log_number \in Nat
  BY <1>3 DEF Databases
<1>5. s = WithManifestSync(d)
  OBVIOUS
<1> HIDE DEF s
<1>6. /\ DiskTyped(s) /\ s.current = d.current /\ s.logs = d.logs /\ s.tables = d.tables
      /\ Manifest(s).recs = recs /\ Manifest(s).synced = k
      /\ Cutting(s) = {k} /\ k \in Cutting(d) /\ (\A x : Cut(s, x) = Cut(d, x)) /\ Cut(s, k) = recs
  BY <1>0, <1>1, <1>2, <1>5, ManifestSyncFacts
<1>7. /\ DiskTyped(f) /\ f.current = s.current /\ Manifest(f) = Manifest(s)
      /\ DOMAIN f.logs \subseteq DOMAIN s.logs /\ DOMAIN f.tables \subseteq DOMAIN s.tables
      /\ (\A n \in DOMAIN f.logs : f.logs[n] = s.logs[n]) /\ (\A t \in DOMAIN f.tables : f.tables[t] = s.tables[t])
      /\ (c.bg_error => f = s) /\ (\A n \in DOMAIN s.logs : n >= c.log_number => n \in DOMAIN f.logs)
      /\ \A t \in DOMAIN s.tables : t \in Tables(c.version) => t \in DOMAIN f.tables
  <2>1. s.current = c.manifest /\ s.current # 0
    BY <1>1, <1>3, <1>6
  <2> QED
    BY <1>0, <1>4, <1>6, <2>1, DeleteFacts
<1>8. Cutting(f) = Cutting(s) /\ Cut(f, k) = Cut(s, k)
  BY <1>7 DEF Cutting, Cut
<1>9. /\ ApplyAll(recs) = ApplyEdit(ApplyAll(SubSeq(recs, 1, k - 1)), job.edit)
      /\ TablesOf(recs) = (TablesOf(SubSeq(recs, 1, k - 1)) \ job.edit.del) \cup job.edit.add0 \cup job.edit.add1
      /\ job.edit.log # -1 => LogOf(recs) = job.edit.log
  BY <1>2, LastEditFacts
<1>10. LogOf(recs) = c.log_number /\ NewTables(job) \subseteq TablesOf(recs)
  BY <1>2, <1>3, <1>4, <1>9
<1>11. ASSUME ~ b.bg_error PROVE ApplyAll(recs) = c.version /\ TablesOf(recs) = Tables(c.version)
  <2>1. ApplyAll(Cut(d, k - 1)) = b.version
    BY <1>0, <1>11 DEF ManifestCurrent
  <2> QED
    BY <1>3, <1>9, <2>1 DEF Cut, TablesOf
<1>12. \A t \in DOMAIN d.tables : t \in Tables(c.version) \cup TablesOf(recs) => t \in DOMAIN f.tables
  BY <1>3, <1>6, <1>7, <1>11
<1>13. LogsLeft(d, f)
  BY <1>6, <1>7 DEF LogsLeft
<1> QED
  BY <1>6, <1>7, <1>8, <1>10, <1>11, <1>12, <1>13

(* The database is sound with the new version. *)
LEMMA InstalledBase ==
  ASSUME NEW y, NEW d, NEW f, NEW b, NEW p, NEW g, NEW job, NEW c, InstallDone(y, d, f, b, p, g, job, c)
  PROVE  DiskSound(y, f, p) /\ Base(y, f, c, p, g) /\ ManifestCurrent(f, c, "idle")
<1> DEFINE recs == Manifest(d).recs
           k == Len(recs)
<1>0. /\ b \in Databases /\ DiskTyped(d) /\ DiskSound(y, d, p) /\ Base(y, d, b, p, g) /\ ManifestCurrent(d, b, "install")
      /\ JobSound(d, b, job) /\ job.at = "install" /\ c = Installed(b, job)
  BY DEF InstallDone
<1>1. /\ NumbersSound(d, b) /\ SequencesSound(d, b, p, g) /\ (\A e \in p : PromiseKept(y, d, b, e))
      /\ (\A q \in Cutting(d) : CutFollows(d, b, Cut(d, q))) /\ d.current # 0
  BY <1>0 DEF Base, NumbersSound
<1>2. /\ DiskTyped(f) /\ f.current = d.current /\ LogsLeft(d, f) /\ Manifest(f).recs = recs
      /\ Manifest(f).synced = k /\ Cutting(f) = {k} /\ k \in Cutting(d) /\ Cut(f, k) = recs /\ Cut(d, k) = recs
      /\ LogOf(recs) = c.log_number /\ (~ b.bg_error => ApplyAll(recs) = c.version)
      /\ NewTables(job) \subseteq TablesOf(recs)
  BY InstalledFiles
<1>3. /\ \A t \in DOMAIN f.tables : t \in DOMAIN d.tables /\ f.tables[t] = d.tables[t]
      /\ \A n \in DOMAIN d.logs : n >= c.log_number => n \in DOMAIN f.logs
      /\ \A t \in DOMAIN d.tables : t \in Tables(c.version) \cup TablesOf(recs) => t \in DOMAIN f.tables
  BY InstalledFiles
<1>4. /\ c \in Databases /\ c.mem = b.mem /\ c.logfile = b.logfile /\ c.next = b.next
      /\ c.seq = b.seq /\ c.manifest = b.manifest /\ c.bg_error = b.bg_error
      /\ c.imm = (IF job.kind = "flush" THEN <<>> ELSE b.imm) /\ c.log_number = job.edit.log
      /\ job.edit.log = (IF job.kind = "flush" THEN b.logfile ELSE b.log_number)
      /\ Tables(c.version) = (Tables(b.version) \ job.inputs) \cup NewTables(job)
  BY <1>0, InstalledFacts
<1>5. /\ b.logfile \in Nat /\ b.log_number \in Nat /\ b.next \in Nat /\ b.seq \in Nat /\ b.log_number <= b.logfile
      /\ b.logfile \in DOMAIN d.logs /\ Manifest(d).synced >= 2 /\ Manifest(d).synced \in Nat /\ k \in Nat
      /\ Manifest(d).synced <= k
  BY <1>0, <1>1, CutTyped DEF Databases, NumbersSound
<1> HIDE DEF recs, k
<1>6. c.log_number <= b.logfile /\ b.log_number <= c.log_number /\ c.log_number \in Nat
  BY <1>4, <1>5
<1>7. b.logfile \in DOMAIN f.logs /\ \A n \in DOMAIN f.logs : n \in DOMAIN d.logs /\ f.logs[n] = d.logs[n]
  BY <1>2, <1>3, <1>5, <1>6 DEF LogsLeft
<1>8. job.data # {} => /\ NewTables(job) = {job.number} /\ job.number \in DOMAIN d.tables
                       /\ d.tables[job.number].data = job.data
  BY <1>0 DEF JobSound, JobOutput, NewTables
<1>9. \A t \in NewTables(job) : t = job.number /\ job.data # {}
  BY DEF NewTables
<1>10. CutSound(y, d, p, k) /\ CutFollows(d, b, recs)
  BY <1>0, <1>1, <1>2 DEF DiskSound
<1>11. \A t \in Tables(c.version) : t < b.next /\ TableUpTo(f, t, b.seq)
  <2>1. ASSUME NEW t \in Tables(c.version), t \in Tables(b.version) PROVE t < b.next /\ TableUpTo(f, t, b.seq)
    <3>1. t < b.next /\ TableUpTo(d, t, b.seq)
      BY <1>1, <2>1 DEF NumbersSound, SequencesSound
    <3>2. t \in DOMAIN f.tables /\ f.tables[t] = d.tables[t]
      BY <1>3, <3>1 DEF TableUpTo
    <3> QED
      BY <3>1, <3>2 DEF TableUpTo
  <2>2. ASSUME NEW t \in NewTables(job) PROVE t < b.next /\ TableUpTo(f, t, b.seq)
    <3>1. t = job.number /\ job.data # {} /\ t \in Tables(c.version)
      BY <1>4, <1>9
    <3>2. job.number < b.next /\ \A e \in job.data : e.s <= b.seq
      BY <1>0 DEF JobSound, JobUnused, JobInputs
    <3>3. t \in DOMAIN f.tables /\ f.tables[t].data = job.data
      BY <1>3, <1>8, <3>1
    <3> QED
      BY <3>1, <3>2, <3>3 DEF TableUpTo
  <2> QED
    BY <1>4, <2>1, <2>2
<1>12. NumbersSound(f, c)
  <2>1. f.current = c.manifest /\ f.current # 0 /\ c.manifest < c.next /\ c.logfile < c.next
    BY <1>1, <1>2, <1>4 DEF NumbersSound
  <2>2. Manifest(f).synced >= 2
    BY <1>2, <1>5
  <2>3. \A n \in DOMAIN f.logs : n <= c.logfile
    BY <1>1, <1>4, <1>7 DEF NumbersSound
  <2> QED
    BY <1>4, <1>6, <1>7, <1>11, <2>1, <2>2, <2>3 DEF NumbersSound
<1>13. ImmOf(c) \subseteq ImmOf(b) /\ (job.kind # "flush" => ImmOf(c) = ImmOf(b))
  BY <1>4, NoImm DEF ImmOf
<1>14. SequencesSound(f, c, p, g)
  <2>1. \A n \in DOMAIN f.logs : \A i \in DOMAIN f.logs[n].recs : \A e \in f.logs[n].recs[i] :
          e.s <= c.seq \/ (n = c.logfile /\ e \in g.entries)
    BY <1>1, <1>4, <1>7 DEF SequencesSound
  <2>2. \A e \in p \cup c.mem \cup ImmOf(c) : e.s <= c.seq
    BY <1>1, <1>4, <1>13 DEF SequencesSound
  <2> QED
    BY <1>4, <1>11, <2>1, <2>2 DEF SequencesSound
<1>15. ASSUME NEW e, NEW t, t \in Tables(b.version), t \in DOMAIN d.tables, e \in d.tables[t].data
       PROVE  InTables(f, e, Tables(c.version))
  <2>1. CASE t \notin job.inputs
    <3>1. t \in Tables(c.version) /\ t \in DOMAIN f.tables /\ f.tables[t] = d.tables[t]
      BY <1>3, <1>4, <1>15, <2>1
    <3> QED
      BY <1>15, <3>1 DEF InTables
  <2>2. CASE t \in job.inputs
    <3>1. e \in job.data
      BY <1>0, <1>15, <2>2 DEF JobSound, JobTyped, JobInputs
    <3>2. job.number \in Tables(c.version) /\ job.number \in DOMAIN d.tables /\ d.tables[job.number].data = job.data
      BY <1>4, <1>8, <3>1
    <3> QED
      BY <1>3, <3>1, <3>2 DEF InTables
  <2> QED
    BY <2>1, <2>2
<1>16. ASSUME NEW e \in p PROVE PromiseKept(y, f, c, e)
  <2>0. PromiseKept(y, d, b, e)
    BY <1>1
  <2>1. CASE e \in b.mem /\ Logged(y, d, e, b.logfile)
    <3>1. Logged(y, f, e, b.logfile)
      BY <1>7, <2>1 DEF Logged
    <3> QED
      BY <1>4, <2>1, <3>1 DEF PromiseKept
  <2>2. CASE e \in ImmOf(b) /\ InLogs(y, d, e, b.log_number)
    <3>1. CASE job.kind = "flush"
      <4>1. e \in job.data
        BY <1>0, <2>2, <3>1 DEF JobSound, JobInputs
      <4>2. job.number \in Tables(c.version) /\ job.number \in DOMAIN d.tables /\ d.tables[job.number].data = job.data
        BY <1>4, <1>8, <4>1
      <4> QED
        BY <1>3, <4>1, <4>2 DEF InTables, PromiseKept
    <3>2. CASE job.kind # "flush"
      <4>1. c.log_number = b.log_number
        BY <1>4, <3>2
      <4>2. PICK n \in DOMAIN d.logs : n >= b.log_number /\ Logged(y, d, e, n)
        BY <2>2 DEF InLogs
      <4>3. n \in DOMAIN f.logs /\ Logged(y, f, e, n)
        BY <1>3, <1>7, <4>1, <4>2 DEF Logged
      <4> QED
        BY <1>13, <2>2, <3>2, <4>1, <4>2, <4>3 DEF InLogs, PromiseKept
    <3> QED
      BY <3>1, <3>2
  <2>3. CASE InTables(d, e, Tables(b.version))
    <3>1. PICK t \in Tables(b.version) : t \in DOMAIN d.tables /\ e \in d.tables[t].data
      BY <2>3 DEF InTables
    <3>2. InTables(f, e, Tables(c.version))
      BY <3>1, <1>15
    <3> QED
      BY <3>2 DEF PromiseKept
  <2> QED
    BY <2>0, <2>1, <2>2, <2>3 DEF PromiseKept
<1>17. \A e : InTables(d, e, TablesOf(recs)) => InTables(f, e, TablesOf(recs))
  BY <1>3 DEF InTables
<1>18. CutFollows(f, c, recs)
  <2>1. ASSUME NEW t \in Tables(c.version), NEW e \in f.tables[t].data PROVE InTables(f, e, TablesOf(recs))
    <3>1. t \in DOMAIN f.tables /\ t \in DOMAIN d.tables /\ f.tables[t] = d.tables[t]
      BY <1>3, <1>11 DEF TableUpTo
    <3>2. CASE t \in Tables(b.version)
      BY <1>10, <1>17, <2>1, <3>1, <3>2 DEF CutFollows
    <3>3. CASE t \in NewTables(job)
      BY <1>2, <2>1, <3>1, <3>3 DEF InTables
    <3> QED
      BY <1>4, <3>2, <3>3
  <2> QED
    BY <1>4, <1>10, <2>1 DEF CutFollows
<1>19. DiskSound(y, f, p)
  <2>1. Names(d, recs) /\ Holds(y, d, p, recs) /\ d.current < NextOf(recs) /\ NextOf(recs) <= NextOf(recs)
    BY <1>2, <1>10 DEF CutSound, recs
  <2>2. Kinder(y, d, f, recs)
    <3>1. ASSUME NEW e, InLogs(y, d, e, LogOf(recs)) PROVE InLogs(y, f, e, LogOf(recs))
      <4>1. PICK n \in DOMAIN d.logs : n >= LogOf(recs) /\ Logged(y, d, e, n)
        BY <3>1 DEF InLogs
      <4>2. n \in DOMAIN f.logs /\ Logged(y, f, e, n)
        BY <1>2, <1>3, <1>7, <4>1 DEF Logged
      <4> QED
        BY <4>1, <4>2 DEF InLogs
    <3>2. \A t \in TablesOf(recs) : t \in DOMAIN d.tables => t \in DOMAIN f.tables /\ f.tables[t].data = d.tables[t].data
      BY <1>3
    <3> QED
      BY <1>7, <3>1, <3>2 DEF Kinder
  <2>3. Names(f, recs) /\ Holds(y, f, p, recs)
    BY <2>1, <2>2, KinderSound
  <2>4. CutSound(y, f, p, k)
    BY <1>2, <2>1, <2>3 DEF CutSound
  <2>5. Manifest(f).synced >= 1
    BY <1>2, <1>5
  <2> QED
    BY <1>1, <1>2, <2>4, <2>5 DEF DiskSound
<1>20. ManifestCurrent(f, c, "idle")
  <2>1. Len(Manifest(f).recs) = k
    BY <1>2 DEF k
  <2> QED
    BY <1>2, <1>4, <2>1 DEF ManifestCurrent
<1> QED
  BY <1>2, <1>12, <1>14, <1>16, <1>18, <1>19, <1>20 DEF Base

(* The job around it goes on with the new version. *)
LEMMA InstalledOuter ==
  ASSUME NEW y, NEW d, NEW f, NEW b, NEW p, NEW g, NEW job, NEW c, InstallDone(y, d, f, b, p, g, job, c),
         NEW o, JobSound(d, b, o), o.kind = "merge", o.at = "build", job.kind = "flush", o.number # job.number
  PROVE  JobSound(f, c, o)
<1>0. b \in Databases /\ JobSound(d, b, job) /\ job.at = "install" /\ c = Installed(b, job) /\ SequencesSound(d, b, p, g)
  BY DEF InstallDone, Base
<1>1. /\ Manifest(f).recs = Manifest(d).recs /\ Cutting(f) = {Len(Manifest(d).recs)}
      /\ Len(Manifest(d).recs) \in Cutting(d)
      /\ Cut(f, Len(Manifest(d).recs)) = Cut(d, Len(Manifest(d).recs))
      /\ (\A t \in DOMAIN f.tables : t \in DOMAIN d.tables /\ f.tables[t] = d.tables[t])
      /\ \A t \in DOMAIN d.tables : t \in Tables(c.version) => t \in DOMAIN f.tables
  BY InstalledFiles
<1>2. /\ c.next = b.next /\ c.seq = b.seq /\ Tables(c.version) = (Tables(b.version) \ job.inputs) \cup NewTables(job)
      /\ b.version.l0 \subseteq c.version.l0
  BY <1>0, InstalledFacts
<1>3. NewTables(job) \subseteq {job.number}
  BY DEF NewTables
<1>4. JobUnused(f, c, o)
  BY <1>1, <1>2, <1>3 DEF JobSound, JobUnused
<1>5. o.inputs \subseteq b.version.l0 /\ (\A t \in o.inputs : d.tables[t].data \subseteq o.data) /\ \A e \in o.data : e.s <= b.seq
  BY DEF JobSound, JobInputs
<1>6. ASSUME NEW t \in o.inputs PROVE f.tables[t].data \subseteq o.data
  <2>1. t \in Tables(b.version) /\ t \in Tables(c.version)
    BY <1>2, <1>5 DEF Tables
  <2>2. t \in DOMAIN d.tables
    BY <1>0, <2>1 DEF SequencesSound, TableUpTo
  <2> QED
    BY <1>1, <1>5, <2>1, <2>2
<1>7. JobInputs(f, c, o)
  BY <1>2, <1>5, <1>6 DEF JobInputs
<1>8. JobOutput(f, o) /\ JobLogged(f, c, o)
  BY DEF JobOutput, JobLogged
<1> QED
  BY <1>4, <1>7, <1>8 DEF JobSound

(* LogAndApply ends, and with it the job. *)
LEMMA InstallVersionKeeps ==
  ASSUME DBInv, InstallVersion
  PROVE  DBInv'
<1> DEFINE job == bg.job
           c == Installed(db, job)
           b == Freed(db, job.number)
<1>1. /\ InUse(db) /\ UNCHANGED <<mode, opening, queue, group, promised>> /\ job.at = "install" /\ job # NoJob
      /\ disk.current = db.manifest /\ db.scheduled = TRUE
  BY JobsFacts, InUseFacts DEF InstallVersion, Alive, InUse
<1>2. \/ disk' = DeleteObsoleteFiles(c, WithManifestSync(disk)) /\ EndJob(c, FALSE)
      \/ disk' = disk /\ EndJob(b, TRUE)
  <2>1. c = [db EXCEPT !.version = ApplyEdit(@, job.edit), !.log_number = job.edit.log,
                       !.imm = IF job.kind = "flush" THEN <<>> ELSE @, !.pending = @ \ {job.number}]
    BY DEF Installed
  <2>2. \/ disk' = DeleteObsoleteFiles(c, SyncManifest(disk)) /\ EndJob(c, FALSE)
        \/ /\ disk' = IF job.kind = "merge" THEN DeleteObsoleteFiles([c EXCEPT !.bg_error = TRUE, !.version = db.version], disk)
                      ELSE disk
           /\ EndJob([db EXCEPT !.pending = @ \ {job.number}], TRUE)
    BY <2>1 DEF InstallVersion
  <2>3. SyncManifest(disk) = WithManifestSync(disk)
    BY <1>1 DEF SyncManifest, WithManifestSync
  <2>4. DeleteObsoleteFiles([c EXCEPT !.bg_error = TRUE, !.version = db.version], disk) = disk
    <3>1. c \in Databases
      BY <1>1, InstalledFacts, JobsFacts, DBTyped
    <3> DEFINE x == [c EXCEPT !.bg_error = TRUE, !.version = db.version]
    <3> HIDE DEF c
    <3>2. x.bg_error = TRUE
      BY <3>1 DEF Databases
    <3> HIDE DEF x
    <3>3. DeleteObsoleteFiles(x, disk) = disk
      BY <3>2 DEF DeleteObsoleteFiles
    <3> QED
      BY <3>3 DEF x
  <2> QED
    BY <2>2, <2>3, <2>4 DEF Freed
<1>3. /\ Base(Syncing, disk, db, promised, group) /\ DiskSound(Syncing, disk, promised)
      /\ ManifestCurrent(disk, db, "install") /\ JobSound(disk, db, job) /\ DiskTyped(disk) /\ db \in Databases
  BY <1>1, InUseFacts, JobsFacts, DBTyped
<1>4. c = Installed(db, job) /\ b = Freed(db, job.number)
  OBVIOUS
<1> HIDE DEF c, b
<1>5. CASE disk' = DeleteObsoleteFiles(c, WithManifestSync(disk)) /\ EndJob(c, FALSE)
  <2>1. InstallDone(Syncing, disk, disk', db, promised, group, job, c)
    BY <1>1, <1>3, <1>4, <1>5 DEF InstallDone
  <2>2. DiskSound(Syncing, disk', promised) /\ Base(Syncing, disk', c, promised, group) /\ ManifestCurrent(disk', c, "idle")
    BY <2>1, InstalledBase
  <2>3. DiskTyped(disk') /\ LogsLeft(disk, disk')
    BY <2>1, InstalledFiles
  <2>4. bg.outer # NoJob => JobSound(disk', c, bg.outer)
    BY <1>1, <2>1, JobsFacts, InstalledOuter
  <2>5. Finished(c) /\ c.manual = db.manual /\ c.scheduled = TRUE
    <3>1. /\ c \in Databases /\ c.state = db.state /\ c.mem = db.mem /\ c.logfile = db.logfile
          /\ c.seq = db.seq /\ c.scheduled = db.scheduled /\ c.shutting_down = db.shutting_down /\ c.manual = db.manual
          /\ c.imm = (IF job.kind = "flush" THEN <<>> ELSE db.imm)
      BY <1>1, <1>3, <1>4, InstalledFacts
    <3> QED
      BY <1>1, <3>1 DEF Finished
  <2> QED
    BY <1>1, <1>5, <2>2, <2>3, <2>4, <2>5, JobEnds
<1>6. CASE disk' = disk /\ EndJob(b, TRUE)
  <2>1. /\ b \in Databases /\ SameBut(db, b) /\ b.bg_error = db.bg_error /\ b.manual = db.manual
        /\ b.scheduled = db.scheduled /\ b.state = db.state /\ b.shutting_down = db.shutting_down
    BY <1>3, <1>4, FreedFacts
  <2>2. /\ Base(Syncing, disk, b, promised, group)
        /\ bg.outer # NoJob => JobSound(disk, b, bg.outer)
    BY <1>1, <1>3, <2>1, JobsFacts, BaseFrame
  <2>3. Finished(b) /\ LogsLeft(disk, disk')
    BY <1>6, <2>1 DEF Finished, SameBut, LogsLeft
  <2> QED
    BY <1>1, <1>3, <1>6, <2>1, <2>2, <2>3, JobEnds
<1> QED
  BY <1>2, <1>5, <1>6

-----------------------------------------------------------------------------
(***************************************************************************)
(* Opening: the object is nobody else's.                                   *)
(***************************************************************************)

(* While nobody is inside there is no group. *)
LEMMA NobodyInside ==
  ASSUME DBInv, db.state \in {"closed", "opening", "closing"}
  PROVE  (\A w \in Writers : pc[w] \in Resting /\ pc[w] \notin InGroup) /\ group = NoGroup
<1>1. \A w \in Writers : pc[w] \in Resting
  BY DEF DBInv, CallsSound
<1>2. \A w \in Writers : pc[w] \notin InGroup
  BY <1>1 DEF Resting, InGroup
<1> QED
  BY <1>1, <1>2 DEF DBInv, GroupsSound

(* The empty group is a sound one. *)
LEMMA EmptyGroupSound ==
  ASSUME NEW b
  PROVE  GroupSound(b, NoGroup) /\ NoGroup.entries = {}
<1>1. {} \in Records
  BY FS_EmptySet DEF Records
<1>2. /\ DOMAIN NoGroup = {"entries", "last", "ok", "sync_error"} /\ NoGroup.entries = {} /\ NoGroup.last = 0
      /\ NoGroup.ok = TRUE /\ NoGroup.sync_error = FALSE
  BY DEF NoGroup
<1>3. NoGroup.last \in Nat /\ NoGroup.ok \in BOOLEAN /\ NoGroup.sync_error \in BOOLEAN /\ NoGroup.entries \in Records
  BY <1>1 DEF NoGroup
<1>4. \A e : e \notin NoGroup.entries
  BY <1>2
<1> QED
  BY <1>2, <1>3, <1>4 DEF GroupSound

(* A step of DB::Open: the object is what only this thread knows. *)
LEMMA OpeningStep ==
  ASSUME DBInv, db.state \in {"closed", "opening"}, UNCHANGED <<mode, bg, queue, pc, group, promised>>,
         db' \in Databases, db'.state \in {"closed", "opening", "open"}, db'.mem = {}, db'.imm = <<>>, db'.manual = None,
         DiskTyped(disk'), DiskSound(Syncing, disk', promised), LogEntries(disk') \subseteq LogEntries(disk),
         db'.state = "opening" => OpeningSound(disk', db', opening', promised),
         db'.state = "open" => UseSound(Syncing, disk', db', NoJobs, promised, NoGroup)
  PROVE  DBInv'
<1>1. Syncing' = Syncing
  BY SameSync
<1>2. (\A w \in Writers : pc[w] \in Resting /\ pc[w] \notin InGroup) /\ group = NoGroup
  BY NobodyInside
<1>3. bg = NoJobs
  BY DEF DBInv, PhasesSound
<1>4. Typed'
  BY DBTyped DEF Typed
<1>5. DiskSound(Syncing, disk, promised)'
  BY <1>1
<1>6. QueueSound'
  BY DBTyped DEF QueueSound
<1>7. CallsSound'
  BY <1>2 DEF CallsSound
<1>8. GroupsSound'
  BY <1>2, EmptyGroupSound DEF GroupsSound
<1>9. PhasesSound'
  BY <1>1, <1>2, <1>3 DEF PhasesSound, InUse
<1>10. UniqueSequences'
  <2>1. ImmOf(db') = {}
    BY NoImm
  <2> QED
    BY <2>1 DEF DBInv, UniqueSequences, Unique
<1> QED
  BY <1>4, <1>5, <1>6, <1>7, <1>8, <1>9, <1>10 DEF DBInv

(* The closed object. *)
LEMMA ClosedFacts ==
  /\ Closed \in Databases /\ Closed.state = "closed" /\ Closed.mem = {} /\ Closed.imm = <<>> /\ Closed.manual = None
  /\ Closed.bg_error = FALSE /\ Closed.scheduled = FALSE /\ Closed.shutting_down = FALSE
<1>1. {} \in Records /\ {} \in SUBSET Nat
  BY FS_EmptySet DEF Records
<1>2. [l0 |-> {}, l1 |-> {}] \in [l0 : SUBSET Nat, l1 : SUBSET Nat]
  OBVIOUS
<1> QED
  BY <1>1, <1>2 DEF Closed, Databases

(* Opening fails, and leaves the files sound. *)
LEMMA OpenFailsKeeps ==
  ASSUME DBInv, db.state \in {"closed", "opening"}, UNCHANGED <<mode, bg, queue, pc, group, promised>>,
         db' = Closed, DiskTyped(disk'), DiskSound(Syncing, disk', promised), LogEntries(disk') \subseteq LogEntries(disk)
  PROVE  DBInv'
  BY OpeningStep, ClosedFacts

(* What a step of opening finds. *)
LEMMA OpeningFacts ==
  ASSUME DBInv, db.state = "opening"
  PROVE  /\ OpeningSound(disk, db, opening, promised) /\ DiskTyped(disk) /\ DiskSound(Syncing, disk, promised)
         /\ db \in Databases /\ Fresh(db) /\ db.mem = {} /\ db.imm = <<>> /\ db.manual = None
<1>1. OpeningSound(disk, db, opening, promised) /\ DiskSound(Syncing, disk, promised)
  BY DEF DBInv, PhasesSound
<1> QED
  BY <1>1, DBTyped DEF OpeningSound, Fresh

(* DB::Open starts. *)
LEMMA OpenKeeps ==
  ASSUME DBInv, Open
  PROVE  DBInv'
<1>1. db.state = "closed" /\ UNCHANGED <<mode, disk, bg, queue, pc, group, promised>>
  BY DEF Open, Idle
<1>2. /\ db' \in Databases /\ db'.state = "opening" /\ Fresh(db')
  <2>1. db' = [Closed EXCEPT !.state = "opening", !.next = 2]
    BY DEF Open
  <2> QED
    BY <2>1, ClosedFacts DEF Databases, Fresh
<1>3. opening'.at = IF disk.current = 0 THEN "new_manifest" ELSE "load"
  BY DEF Open
<1>4. OpeningSound(disk', db', opening', promised)
  BY <1>1, <1>2, <1>3 DEF OpeningSound
<1>5. DiskTyped(disk') /\ DiskSound(Syncing, disk', promised) /\ LogEntries(disk') \subseteq LogEntries(disk)
  BY <1>1, DBTyped DEF DBInv
<1> QED
  BY <1>1, <1>2, <1>4, <1>5, OpeningStep DEF Fresh

(* NewDB writes the first manifest, or fails. *)
LEMMA NewManifestKeeps ==
  ASSUME DBInv, NewManifest
  PROVE  DBInv'
<1>1. db.state = "opening" /\ opening.at = "new_manifest" /\ UNCHANGED <<mode, bg, queue, pc, group, promised>>
  BY DEF NewManifest, At, Idle
<1>2. /\ OpeningSound(disk, db, opening, promised) /\ DiskTyped(disk) /\ DiskSound(Syncing, disk, promised)
      /\ db \in Databases /\ Fresh(db) /\ db.mem = {} /\ db.imm = <<>> /\ db.manual = None
  BY <1>1, OpeningFacts
<1>3. disk.current = 0
  BY <1>1, <1>2 DEF OpeningSound
<1>4. CASE disk' = WithManifest(disk, 1, FirstManifest) /\ opening' = [at |-> "new_current"] /\ db' = db
  <2>1. FirstManifest \in ManifestFiles /\ FirstManifest.synced <= Len(FirstManifest.recs)
    BY FirstManifestFacts DEF FirstManifest, ManifestFiles
  <2>2. /\ DiskTyped(disk') /\ disk'.current = disk.current /\ disk'.logs = disk.logs
        /\ 1 \in DOMAIN disk'.manifests /\ disk'.manifests[1] = FirstManifest
    <3> HIDE DEF FirstManifest
    <3> QED
      BY <1>2, <1>3, <1>4, <2>1, NewManifestFileFacts
  <2>3. DiskSound(Syncing, disk', promised)
    BY <1>2, <1>3, <2>2, DiskStaysSound
  <2>4. OpeningSound(disk', db', opening', promised)
    BY <1>2, <1>3, <1>4, <2>2 DEF OpeningSound
  <2>5. LogEntries(disk') \subseteq LogEntries(disk)
    BY <2>2 DEF LogEntries
  <2> QED
    BY <1>1, <1>2, <1>4, <2>2, <2>3, <2>4, <2>5, OpeningStep
<1>5. CASE OpenFails /\ UNCHANGED disk
  BY <1>1, <1>2, <1>5, OpenFailsKeeps DEF OpenFails
<1> QED
  BY <1>4, <1>5 DEF NewManifest, WithManifest, FirstManifest

(* NewDB sets CURRENT, or fails. *)
LEMMA NewCurrentKeeps ==
  ASSUME DBInv, NewCurrent
  PROVE  DBInv'
<1>1. db.state = "opening" /\ opening.at = "new_current" /\ UNCHANGED <<mode, bg, queue, pc, group, promised>>
  BY DEF NewCurrent, At, Idle
<1>2. /\ OpeningSound(disk, db, opening, promised) /\ DiskTyped(disk) /\ DiskSound(Syncing, disk, promised)
      /\ db \in Databases /\ Fresh(db) /\ db.mem = {} /\ db.imm = <<>> /\ db.manual = None
  BY <1>1, OpeningFacts
<1>3. disk.current = 0 /\ 1 \in DOMAIN disk.manifests /\ disk.manifests[1] = FirstManifest
  BY <1>1, <1>2 DEF OpeningSound
<1>4. CASE disk' = WithCurrent(disk, 1) /\ opening' = [at |-> "load"] /\ db' = db
  <2>1. promised = {}
    BY <1>2, <1>3 DEF DiskSound
  <2>2. /\ DiskTyped(disk') /\ disk'.current = 1 /\ disk'.logs = disk.logs /\ Manifest(disk') = FirstManifest
    BY <1>2, <1>3, <1>4, NewCurrentFacts
  <2>3. DiskSound(Syncing, disk', promised)
    <3> DEFINE r == <<Edit({}, {}, {}, 0, 2, 0)>>
    <3>1. r \in Seq(Edits) /\ Len(r) = 1 /\ TablesOf(r) = {} /\ LogOf(r) = 0 /\ NextOf(r) = 2 /\ LastSeqOf(r) = 0
      BY FirstManifestFacts
    <3>2. Manifest(disk').recs = r /\ Manifest(disk').synced = 0
      BY <2>2 DEF FirstManifest
    <3> HIDE DEF r
    <3>3. ASSUME NEW c \in Cutting(disk') PROVE CutSound(Syncing, disk', promised, c)
      <4>1. c = 1
        BY <3>1, <3>2, <3>3 DEF Cutting
      <4>2. Cut(disk', c) = r
        <5>1. disk'.current # 0 /\ Len(Manifest(disk').recs) = c
          BY <2>2, <3>1, <3>2, <4>1
        <5>2. Cut(disk', Len(Manifest(disk').recs)) = Manifest(disk').recs
          BY <2>2, <5>1, CutTyped
        <5> QED
          BY <3>2, <5>1, <5>2
      <4>3. Names(disk', r)
        <5>1. \A n \in DOMAIN disk'.logs : ~ (n < 0)
          BY <2>2, LogTyped
        <5> QED
          BY <3>1, <5>1 DEF Names
      <4>4. Holds(Syncing, disk', promised, r)
        BY <2>1 DEF Holds
      <4> QED
        BY <2>2, <3>1, <3>2, <4>2, <4>3, <4>4 DEF CutSound
    <3> QED
      BY <2>1, <3>3 DEF DiskSound
  <2>4. OpeningSound(disk', db', opening', promised)
    BY <1>2, <1>4, <2>2 DEF OpeningSound
  <2>5. LogEntries(disk') \subseteq LogEntries(disk)
    BY <2>2 DEF LogEntries
  <2> QED
    BY <1>1, <1>2, <1>4, <2>2, <2>3, <2>4, <2>5, OpeningStep
<1>5. CASE OpenFails /\ UNCHANGED disk
  BY <1>1, <1>2, <1>5, OpenFailsKeeps DEF OpenFails
<1> QED
  BY <1>4, <1>5 DEF NewCurrent, WithCurrent

(* What the whole manifest says. *)
LEMMA WholeManifest ==
  ASSUME NEW y, NEW d, NEW p, NEW r, DiskTyped(d), DiskSound(y, d, p), d.current # 0, Len(Manifest(d).recs) >= 1,
         r = Manifest(d).recs
  PROVE  /\ Names(d, r) /\ Holds(y, d, p, r) /\ d.current < NextOf(r)
         /\ LogOf(r) \in Nat /\ NextOf(r) \in Nat /\ LastSeqOf(r) \in Nat /\ LogOf(r) < NextOf(r)
         /\ ApplyAll(r) \in [l0 : SUBSET Nat, l1 : SUBSET Nat] /\ r \in Seq(Edits)
         /\ \A c \in Cutting(d) : NextOf(Cut(d, c)) <= NextOf(r)
<1>1. r \in Seq(Edits) /\ Len(r) \in Cutting(d) /\ Cut(d, Len(r)) = r
  BY CutTyped
<1>2. CutSound(y, d, p, Len(r)) /\ \A c \in Cutting(d) : CutSound(y, d, p, c)
  BY <1>1 DEF DiskSound
<1>3. Names(d, r) /\ Holds(y, d, p, r) /\ d.current < NextOf(r) /\ \A c \in Cutting(d) : NextOf(Cut(d, c)) <= NextOf(r)
  BY <1>1, <1>2 DEF CutSound
<1> QED
  BY <1>1, <1>3, KeptTyped DEF Names

(* VersionSet::Recover reads the manifest. *)
LEMMA RecoverVersionsKeeps ==
  ASSUME DBInv, RecoverVersions
  PROVE  DBInv'
<1> DEFINE r == disk.manifests[disk.current].recs
           v == ApplyAll(r)
           sound == NextOf(r) # -1 /\ LogOf(r) # -1 /\ Tables(v) \subseteq DOMAIN disk.tables
           o == [at |-> "logs", logs |-> {n \in DOMAIN disk.logs : n >= LogOf(r)},
                 pos |-> 0, adds |-> {}, max_sequence |-> 0, failed |-> FALSE]
<1>1. /\ db.state = "opening" /\ opening.at = "load" /\ UNCHANGED <<mode, bg, queue, pc, group, promised, disk>>
      /\ sound => /\ db' = [db EXCEPT !.version = v, !.manifest = NextOf(r), !.next = NextOf(r) + 1, !.log_number = LogOf(r),
                                   !.seq = LastSeqOf(r)]
                  /\ opening' = o
      /\ ~ sound => OpenFails
  BY DEF RecoverVersions, At, Idle, NextOf, LogOf, LastSeqOf
<1>2. /\ OpeningSound(disk, db, opening, promised) /\ DiskTyped(disk) /\ DiskSound(Syncing, disk, promised)
      /\ db \in Databases /\ Fresh(db) /\ db.mem = {} /\ db.imm = <<>> /\ db.manual = None
  BY <1>1, OpeningFacts
<1>3. disk.current # 0 /\ r = Manifest(disk).recs
  BY <1>1, <1>2 DEF OpeningSound, Manifest
<1>4. CASE ~ sound
  BY <1>1, <1>2, <1>4, OpenFailsKeeps DEF OpenFails
<1>5. CASE sound
  <2>1. r \in Seq(Edits) /\ Len(r) \in Nat
    BY <1>2, <1>3, CutTyped
  <2>2. Len(r) >= 1
    <3>1. CASE Len(r) = 0
      <4>1. r = <<>>
        BY <2>1, <3>1
      <4>2. NextOf(r) = -1
        BY <4>1, EmptyEdits DEF NextOf
      <4> QED
        BY <1>5, <4>2
    <3> QED
      BY <2>1, <3>1
  <2>3. /\ Names(disk, r) /\ LogOf(r) \in Nat /\ NextOf(r) \in Nat /\ LastSeqOf(r) \in Nat /\ LogOf(r) < NextOf(r)
        /\ v \in [l0 : SUBSET Nat, l1 : SUBSET Nat]
    BY <1>2, <1>3, <2>2, WholeManifest
  <2>4. db' = [db EXCEPT !.version = v, !.manifest = NextOf(r), !.next = NextOf(r) + 1, !.log_number = LogOf(r),
                         !.seq = LastSeqOf(r)]
    BY <1>1, <1>5
  <2>5. opening' = o
    BY <1>1, <1>5
  <2>6. v = ApplyAll(r)
    OBVIOUS
  <2>7. /\ DOMAIN o = {"at", "logs", "pos", "adds", "max_sequence", "failed"} /\ o.at = "logs"
        /\ o.logs = {n \in DOMAIN disk.logs : n >= LogOf(r)} /\ o.pos = 0 /\ o.adds = {} /\ o.max_sequence = 0
        /\ o.failed \in BOOLEAN /\ ~ o.failed
    OBVIOUS
  <2> HIDE DEF r, v, o
  <2>8. /\ db' \in Databases /\ db'.state = "opening" /\ Fresh(db') /\ db'.version = v /\ db'.manifest = NextOf(r)
        /\ db'.next = NextOf(r) + 1 /\ db'.log_number = LogOf(r) /\ db'.seq = LastSeqOf(r)
    <3> DEFINE k == NextOf(r) + 1
               V == [l0 : SUBSET Nat, l1 : SUBSET Nat]
    <3>1. k \in Nat /\ v \in V
      BY <2>3
    <3>2. k = NextOf(r) + 1
      OBVIOUS
    <3>3. Databases = [state : {"closed", "opening", "open", "closing", "undefined"}, mem : Records,
                       imm : {<<>>} \cup {<<m>> : m \in Records},
                       logfile : Nat, next : Nat, seq : Nat, log_number : Nat, manifest : Nat,
                       version : V, pending : SUBSET Nat, bg_error : BOOLEAN,
                       scheduled : BOOLEAN, shutting_down : BOOLEAN, manual : Writers \cup {None}]
      BY DEF Databases
    <3> HIDE DEF k, V
    <3>4. /\ db' \in Databases /\ db'.version = v /\ db'.manifest = NextOf(r)
          /\ db'.next = k /\ db'.log_number = LogOf(r) /\ db'.seq = LastSeqOf(r)
      BY <1>2, <2>3, <2>4, <3>1, <3>2, <3>3
    <3>5. db'.state = "opening" /\ Fresh(db')
      BY <1>1, <1>2, <2>4, <3>3 DEF Fresh
    <3> QED
      BY <3>2, <3>4, <3>5
  <2>9. ReadingLogs(disk, db', o)
    <3>1. \A n \in DOMAIN disk.logs : n < db'.next \/ n \in o.logs
      BY <1>2, <2>3, <2>7, <2>8, LogTyped
    <3>2. ReadSoFar(disk, db', o)
      <4>1. ASSUME NEW n \in DOMAIN disk.logs, n >= db'.log_number, NEW i \in DOMAIN disk.logs[n].recs PROVE Unread(o, n, i)
        <5>1. n \in o.logs
          BY <2>7, <2>8, <4>1
        <5>2. i > 0
          BY <1>2, LogTyped
        <5> QED
          BY <5>1, <5>2, <2>7 DEF Unread
      <4> QED
        BY <4>1 DEF ReadSoFar
    <3>3. db'.manifest < db'.next
      BY <2>3, <2>8
    <3>4. o.logs \subseteq {n \in DOMAIN disk.logs : n >= db'.log_number}
      BY <2>7, <2>8
    <3>5. /\ o.pos \in Nat /\ o.adds \subseteq Nat /\ o.max_sequence \in Nat
          /\ (\A t \in o.adds : t < db'.next /\ TableUpTo(disk, t, o.max_sequence))
      BY <2>7
    <3>6. /\ disk.current # 0 /\ Len(Manifest(disk).recs) >= 1
          /\ db'.version = ApplyAll(Manifest(disk).recs) /\ db'.log_number = LogOf(Manifest(disk).recs)
          /\ db'.manifest = NextOf(Manifest(disk).recs) /\ db'.seq = LastSeqOf(Manifest(disk).recs)
      BY <1>3, <2>2, <2>6, <2>8
    <3> QED
      BY <2>7, <3>1, <3>2, <3>3, <3>4, <3>5, <3>6 DEF ReadingLogs
  <2>10. OpeningSound(disk', db', opening', promised)
    BY <1>1, <2>5, <2>7, <2>8, <2>9 DEF OpeningSound
  <2>11. DiskTyped(disk') /\ DiskSound(Syncing, disk', promised) /\ LogEntries(disk') \subseteq LogEntries(disk)
    BY <1>1, <1>2
  <2> QED
    BY <1>1, <2>8, <2>10, <2>11, OpeningStep DEF Fresh
<1> QED
  BY <1>4, <1>5

(* One memtable of a log: the records up to the one that fills it. *)
LEMMA UnionFinite ==
  ASSUME NEW recs \in Seq(Records), NEW lo \in Nat, NEW hi \in Nat, hi <= Len(recs)
  PROVE  UNION {recs[i] : i \in lo + 1 .. hi} \in Records
<1> DEFINE I == lo + 1 .. hi
           T == {recs[i] : i \in I}
           f == [i \in I |-> recs[i]]
<1>1. IsFiniteSet(I)
  BY FS_Interval
<1>2. f \in Surjection(I, T)
  BY DEF Surjection
<1>3. \A t \in T : \E i \in I : t = recs[i]
  OBVIOUS
<1>4. \A i \in I : i \in 1 .. Len(recs) /\ i \in DOMAIN recs
  OBVIOUS
<1>5. UNION {recs[i] : i \in lo + 1 .. hi} = UNION T
  OBVIOUS
<1> HIDE DEF T, f, I
<1>6. IsFiniteSet(T)
  BY <1>1, <1>2, FS_Surjection
<1>7. \A t \in T : t \in Records
  BY <1>3, <1>4
<1>8. \A t \in T : IsFiniteSet(t) /\ t \subseteq Entries
  BY <1>7 DEF Records
<1>9. IsFiniteSet(UNION T)
  BY <1>6, <1>8, FS_UNION
<1>10. UNION T \subseteq Entries
  BY <1>8
<1> QED
  BY <1>5, <1>9, <1>10 DEF Records

ReadData(recs, lo, hi) == UNION {recs[i] : i \in lo + 1 .. hi}
(* One memtable takes records up to a place in the log, all of them if it stays empty. *)
LEMMA ReadUpToFacts ==
  ASSUME NEW recs \in Seq(Records), NEW pos \in Nat, NEW u, u = ReadUpTo(recs, pos), NEW data,
         data = ReadData(recs, pos, u)
  PROVE  /\ u \in Nat /\ u <= Len(recs) /\ data \in Records
         /\ \A i \in DOMAIN recs : i > pos /\ i <= u => recs[i] \subseteq data
         /\ \A e \in data : \E i \in DOMAIN recs : e \in recs[i]
         /\ data = {} => u = Len(recs)
<1> DEFINE full == {i \in pos + 1 .. Len(recs) : Cardinality(UNION {recs[j] : j \in pos + 1 .. i}) > write_buffer_size}
           S == full \cup {Len(recs)}
<1>1. u = Min(S)
  BY DEF ReadUpTo
<1>2. Len(recs) \in Nat /\ DOMAIN recs = 1 .. Len(recs)
  OBVIOUS
<1>3. S \subseteq Nat /\ S # {} /\ (\A i \in S : i <= Len(recs))
  <2>1. full \subseteq pos + 1 .. Len(recs)
    OBVIOUS
  <2> HIDE DEF full
  <2>2. \A i \in full : i \in Nat /\ i <= Len(recs)
    BY <1>2, <2>1
  <2> QED
    BY <1>2, <2>2
<1>4. \A i \in S : i = Len(recs) \/ Cardinality(UNION {recs[j] : j \in pos + 1 .. i}) > write_buffer_size
  OBVIOUS
<1> HIDE DEF full, S
<1>5. u \in S /\ u \in Nat
  BY <1>1, <1>3, MinNat
<1>6. u <= Len(recs)
  BY <1>3, <1>5
<1>7. data \in Records
  BY <1>5, <1>6, UnionFinite DEF ReadData
<1>8. ASSUME NEW i \in DOMAIN recs, i > pos, i <= u PROVE recs[i] \subseteq data
  <2>1. i \in pos + 1 .. u
    BY <1>2, <1>5, <1>8
  <2> QED
    BY <2>1 DEF ReadData
<1>9. ASSUME NEW e \in data PROVE \E i \in DOMAIN recs : e \in recs[i]
  <2>1. PICK i \in pos + 1 .. u : e \in recs[i]
    BY <1>9 DEF ReadData
  <2>2. i \in DOMAIN recs
    BY <1>2, <1>5, <1>6
  <2> QED
    BY <2>1, <2>2
<1>10. ASSUME data = {} PROVE u = Len(recs)
  <2>1. Cardinality(data) = 0
    BY <1>10, FS_EmptySet
  <2>2. ~ (Cardinality(data) > write_buffer_size)
    BY <2>1, DBConstants
  <2> QED
    BY <1>4, <1>5, <2>2 DEF ReadData
<1> QED
  BY <1>5, <1>6, <1>7, <1>8, <1>9, <1>10

(* The highest sequence number read so far. *)
LEMMA LastReadFacts ==
  ASSUME NEW data \in Records, NEW m \in Nat, NEW x, x = Max({m} \cup {e.s : e \in data})
  PROVE  x \in Nat /\ m <= x /\ \A e \in data : e.s <= x
<1> DEFINE T == {e.s : e \in data}
           f == [e \in data |-> e.s]
           S == {m} \cup T
<1>1. IsFiniteSet(data) /\ \A e \in data : e.s \in Nat
  BY DEF Records, Entries
<1>2. f \in Surjection(data, T)
  BY DEF Surjection
<1>3. T \subseteq Nat /\ \A e \in data : e.s \in T
  BY <1>1
<1> HIDE DEF T, f
<1>4. IsFiniteSet(T)
  BY <1>1, <1>2, FS_Surjection
<1>5. Bounded(T)
  BY <1>3, <1>4, FiniteIsBounded
<1>6. Bounded(T \cup {m})
  BY <1>5, BoundedSets
<1>7. S = T \cup {m} /\ S \subseteq Nat /\ S # {} /\ m \in S
  BY <1>3
<1>8. x = Max(S)
  BY DEF T
<1> HIDE DEF S
<1>9. x \in Nat /\ \A z \in S : z <= x
  BY <1>6, <1>7, <1>8, MaxNat
<1> QED
  BY <1>3, <1>7, <1>9

(* The number that the next file gets is beyond every log that was read. *)
LEMMA MarkFacts ==
  ASSUME NEW a \in Nat, NEW n \in Nat
  PROVE  LET m == MarkFileNumberUsed(a, n) IN m \in Nat /\ a <= m /\ n < m
<1> DEFINE S == {a, n + 1}
<1>1. S \subseteq Nat /\ S # {} /\ a \in S /\ n + 1 \in S
  OBVIOUS
<1>2. Bounded(S)
  <2>1. S \subseteq 0 .. a + n + 1 /\ a + n + 1 \in Nat
    OBVIOUS
  <2> HIDE DEF S
  <2> QED
    BY <2>1 DEF Bounded
<1>3. MarkFileNumberUsed(a, n) = Max(S)
  BY DEF MarkFileNumberUsed
<1> HIDE DEF S
<1>4. Max(S) \in Nat /\ \A z \in S : z <= Max(S)
  BY <1>1, <1>2, MaxNat
<1>5. a <= Max(S) /\ n + 1 <= Max(S)
  BY <1>1, <1>4
<1> QED
  BY <1>3, <1>4, <1>5

(* Reading goes on: n is the log that is read, u the record it is read up to. *)
Reading(o) == DOMAIN o = {"at", "logs", "pos", "adds", "max_sequence", "failed"} /\ o.at = "logs"
(* Reading on keeps what was read. *)
LEMMA ReadMore ==
  ASSUME NEW d, NEW f, NEW b, NEW c, NEW o, NEW q, DiskTyped(d), f.logs = d.logs, ReadSoFar(d, b, o),
         c.log_number = b.log_number, \A t \in o.adds : TableStays(d, f, t), o.adds \subseteq q.adds,
         o.max_sequence \in Nat, q.max_sequence \in Nat, o.max_sequence <= q.max_sequence, o.pos \in Nat,
         NEW n \in o.logs, n \in DOMAIN d.logs, o.logs \subseteq Nat, \A m \in o.logs : n <= m, NEW u \in Nat,
         \A i \in DOMAIN d.logs[n].recs : i > o.pos /\ i <= u =>
             \A e \in d.logs[n].recs[i] : e.s <= q.max_sequence /\ InTables(f, e, q.adds),
         \/ q.logs = o.logs /\ q.pos = u
         \/ q.logs = o.logs \ {n} /\ q.pos = 0 /\ u = Len(d.logs[n].recs)
  PROVE  ReadSoFar(f, c, q)
<1> SUFFICES ASSUME NEW m \in DOMAIN d.logs, m >= b.log_number, NEW i \in DOMAIN d.logs[m].recs, ~ Unread(q, m, i),
                    NEW e \in d.logs[m].recs[i]
             PROVE  e.s <= q.max_sequence /\ InTables(f, e, q.adds)
  BY DEF ReadSoFar
<1>1. i \in Nat /\ i > 0 /\ i <= Len(d.logs[m].recs) /\ e.s \in Nat /\ m \in Nat /\ n \in Nat
  BY LogTyped
<1>2. ASSUME ~ Unread(o, m, i) PROVE e.s <= q.max_sequence /\ InTables(f, e, q.adds)
  <2>1. e.s <= o.max_sequence /\ InTables(d, e, o.adds)
    BY <1>2 DEF ReadSoFar
  <2>2. PICK t \in o.adds : t \in DOMAIN d.tables /\ e \in d.tables[t].data
    BY <2>1 DEF InTables
  <2>3. InTables(f, e, q.adds)
    BY <2>2 DEF InTables, TableStays
  <2> QED
    BY <1>1, <2>1, <2>3
<1>3. CASE m \notin o.logs
  BY <1>2, <1>3 DEF Unread
<1>4. CASE m \in o.logs /\ m # n
  <2>1. n < m
    BY <1>1, <1>4
  <2> QED
    BY <1>1, <1>4, <2>1 DEF Unread
<1>5. CASE m = n
  <2>1. i <= u
    <3>1. CASE q.logs = o.logs /\ q.pos = u
      BY <1>1, <1>5, <3>1 DEF Unread
    <3>2. CASE u = Len(d.logs[n].recs)
      BY <1>1, <1>5, <3>2
    <3> QED
      BY <3>1, <3>2
  <2>2. CASE i > o.pos
    BY <1>5, <2>1, <2>2
  <2>3. CASE ~ (i > o.pos)
    <3>1. \A k \in o.logs : ~ (k < n)
      BY <1>1
    <3>2. ~ Unread(o, m, i)
      BY <1>5, <2>3, <3>1 DEF Unread
    <3> QED
      BY <1>2, <3>2
  <2> QED
    BY <2>2, <2>3
<1> QED
  BY <1>3, <1>4, <1>5

(* Going on with the next part of the logs keeps the opening sound. *)
LEMMA ReadingMoves ==
  ASSUME NEW d, NEW f, NEW b \in Databases, NEW c \in Databases, NEW o, NEW q, DiskTyped(d), f.logs = d.logs,
         SameManifest(d, f), ReadingLogs(d, b, o), SameBut(b, c), Reading(q),
         q.pos \in Nat, q.adds \subseteq Nat, q.max_sequence \in Nat, q.failed \in BOOLEAN, q.logs \subseteq o.logs,
         \A t \in q.adds : t < c.next /\ TableUpTo(f, t, q.max_sequence),
         \A m \in o.logs : m \in q.logs \/ m < c.next,
         ~ q.failed => ReadSoFar(f, c, q)
  PROVE  ReadingLogs(f, c, q)
<1>1. b.next \in Nat /\ c.next \in Nat /\ b.manifest \in Nat /\ b.next <= c.next
  BY DEF Databases, SameBut
<1>2. \A n \in DOMAIN d.logs : n \in Nat
  BY LogTyped
<1>3. \A n \in DOMAIN f.logs : n < c.next \/ n \in q.logs
  <2> SUFFICES ASSUME NEW n \in DOMAIN d.logs PROVE n < c.next \/ n \in q.logs
    OBVIOUS
  <2>1. n < b.next \/ n \in o.logs
    BY DEF ReadingLogs
  <2> QED
    BY <1>1, <1>2, <2>1
<1>4. b.manifest < b.next
  BY DEF ReadingLogs
<1>5. c.manifest < c.next
  BY <1>1, <1>4 DEF SameBut
<1>6. q.logs \subseteq {n \in DOMAIN f.logs : n >= c.log_number}
  BY DEF ReadingLogs, SameBut
<1>7. /\ f.current # 0 /\ Len(Manifest(f).recs) >= 1
      /\ c.version = ApplyAll(Manifest(f).recs) /\ c.log_number = LogOf(Manifest(f).recs)
      /\ c.manifest = NextOf(Manifest(f).recs) /\ c.seq = LastSeqOf(Manifest(f).recs)
  BY DEF ReadingLogs, SameManifest, SameBut
<1> QED
  BY <1>3, <1>5, <1>6, <1>7 DEF ReadingLogs, Reading

(* A higher number for the next file. *)
NextSet(b, x) == [b EXCEPT !.next = x]
(* What setting the next file number changes. *)
LEMMA NextSetFacts ==
  ASSUME NEW b \in Databases, NEW x \in Nat, b.next <= x, NEW c, c = NextSet(b, x)
  PROVE  /\ c \in Databases /\ SameBut(b, c) /\ c.next = x /\ c.state = b.state /\ c.log_number = b.log_number
         /\ Fresh(b) => Fresh(c)
  BY DEF Databases, SameBut, NextSet, Fresh

(* A table with a number that no cut of the manifest names. *)
LEMMA TableAdded ==
  ASSUME NEW y, NEW d, NEW p, NEW n \in Nat, NEW data \in Records, NEW f, DiskTyped(d), DiskSound(y, d, p),
         f = WithTable(d, n, data), d.current # 0 => \A c \in Cutting(d) : n \notin TablesOf(Cut(d, c))
  PROVE  /\ DiskTyped(f) /\ DiskSound(y, f, p) /\ f.logs = d.logs /\ SameManifest(d, f)
         /\ n \in DOMAIN f.tables /\ f.tables[n].data = data /\ \A t : t # n => TableStays(d, f, t)
<1>1. /\ DiskTyped(f) /\ f.current = d.current /\ f.manifests = d.manifests /\ f.logs = d.logs
      /\ DOMAIN f.tables = DOMAIN d.tables \cup {n} /\ f.tables[n].data = data
      /\ \A t \in DOMAIN d.tables : t # n => f.tables[t] = d.tables[t]
  BY NewTableFacts
<1>2. SameManifest(d, f)
  BY <1>1 DEF SameManifest, Manifest
<1>3. \A t : t # n => TableStays(d, f, t)
  BY <1>1 DEF TableStays
<1>4. LogsGrow(d, f)
  BY <1>1, SameLogs
<1>5. ASSUME d.current # 0, NEW c \in Cutting(d) PROVE Kinder(y, d, f, Cut(d, c))
  BY <1>1, <1>3, <1>4, <1>5, GrowingIsKinder DEF TableStays
<1>6. DiskSound(y, f, p)
  BY <1>2, <1>5, DiskStaysSound DEF SameManifest
<1> QED
  BY <1>1, <1>2, <1>3, <1>6

(* The number of the next file is in no cut while logs are read. *)
LEMMA NextIsNew ==
  ASSUME NEW y, NEW d, NEW p, NEW b \in Databases, NEW o, DiskTyped(d), DiskSound(y, d, p), ReadingLogs(d, b, o)
  PROVE  /\ \A c \in Cutting(d) : b.next \notin TablesOf(Cut(d, c)) /\ ~ (b.next < LogOf(Cut(d, c)))
         /\ d.current < b.manifest /\ b.manifest < b.next /\ b.manifest \in Nat /\ d.current \in Nat
<1> DEFINE r == Manifest(d).recs
<1>1. d.current # 0 /\ Len(r) >= 1 /\ b.manifest = NextOf(r) /\ b.manifest < b.next /\ b.next \in Nat /\ b.manifest \in Nat
  BY DEF ReadingLogs, Databases
<1>2. d.current < NextOf(r) /\ \A c \in Cutting(d) : NextOf(Cut(d, c)) <= NextOf(r)
  BY <1>1, WholeManifest
<1>3. ASSUME NEW c \in Cutting(d) PROVE b.next \notin TablesOf(Cut(d, c)) /\ ~ (b.next < LogOf(Cut(d, c)))
  <2>1. LogOf(Cut(d, c)) \in Nat /\ NextOf(Cut(d, c)) \in Nat /\ Names(d, Cut(d, c))
    BY <1>1, CutNumbers
  <2>2. NextOf(Cut(d, c)) < b.next
    BY <1>1, <1>2, <2>1
  <2>3. LogOf(Cut(d, c)) < NextOf(Cut(d, c)) /\ \A t \in TablesOf(Cut(d, c)) : t < NextOf(Cut(d, c))
    BY <2>1 DEF Names
  <2> QED
    BY <1>1, <2>1, <2>2, <2>3
<1>4. d.current \in Nat
  BY DEF DiskTyped, ManifestsTyped
<1> QED
  BY <1>1, <1>2, <1>3, <1>4

(* RecoverLogFile turns one memtable of a log into a table. *)
LEMMA RecoverLogFileKeeps ==
  ASSUME DBInv, ~ GivesUp, RecoverLogFile
  PROVE  DBInv'
<1> DEFINE o == opening
           n == Min(o.logs)
           recs == disk.logs[n].recs
           u == ReadUpTo(recs, o.pos)
           data == UNION {recs[i] : i \in o.pos + 1 .. u}
           last == Max({o.max_sequence} \cup {e.s : e \in data})
<1>1. db.state = "opening" /\ o.at = "logs" /\ o.logs # {} /\ UNCHANGED <<mode, bg, queue, pc, group, promised>>
  BY DEF RecoverLogFile, At, Idle
<1>2. /\ OpeningSound(disk, db, opening, promised) /\ DiskTyped(disk) /\ DiskSound(Syncing, disk, promised)
      /\ db \in Databases /\ Fresh(db) /\ db.next \in Nat
  BY <1>1, OpeningFacts, DBTyped
<1>3. ReadingLogs(disk, db, o)
  BY <1>1, <1>2 DEF OpeningSound
<1>4. /\ Reading(o) /\ o.pos \in Nat /\ o.adds \subseteq Nat /\ o.max_sequence \in Nat /\ o.logs \subseteq DOMAIN disk.logs
      /\ (~ o.failed => ReadSoFar(disk, db, o)) /\ (\A t \in o.adds : t < db.next /\ TableUpTo(disk, t, o.max_sequence))
  BY <1>1, <1>3 DEF ReadingLogs, Reading
<1>5. o.logs \subseteq Nat
  BY <1>2, <1>4, LogTyped
<1>6. n \in o.logs /\ n \in DOMAIN disk.logs /\ n \in Nat /\ \A m \in o.logs : n <= m
  BY <1>1, <1>4, <1>5, MinNat
<1>7. recs \in Seq(Records)
  BY <1>2, <1>6, LogTyped
<1>8. /\ u \in Nat /\ u <= Len(recs) /\ data \in Records
      /\ (\A i \in DOMAIN recs : i > o.pos /\ i <= u => recs[i] \subseteq data)
      /\ (data = {} => u = Len(recs))
  <2>1. u = ReadUpTo(recs, o.pos) /\ data = ReadData(recs, o.pos, u)
    BY DEF ReadData
  <2>2. o.pos \in Nat
    BY <1>4
  <2> HIDE DEF o, recs, u, data
  <2> QED
    BY <1>7, <2>1, <2>2, ReadUpToFacts, SMTT(60)
<1>9. last \in Nat /\ o.max_sequence <= last /\ \A e \in data : e.s <= last
  BY <1>4, <1>8, LastReadFacts
<1>10. \/ /\ data = {} /\ opening' = [[o EXCEPT !.logs = @ \ {n}, !.pos = 0] EXCEPT !.failed = FALSE]
          /\ db' = NextSet(db, MarkFileNumberUsed(db.next, n)) /\ disk' = disk
       \/ /\ data # {} /\ disk' = WithTable(disk, db.next, data)
          /\ LET q == [o EXCEPT !.adds = @ \cup {db.next}, !.max_sequence = last, !.pos = u, !.failed = FALSE]
             IN  opening' = IF u = Len(recs) THEN [q EXCEPT !.logs = @ \ {n}, !.pos = 0] ELSE q
          /\ db' = NextSet(db, IF u = Len(recs) THEN MarkFileNumberUsed(db.next + 1, n) ELSE db.next + 1)
       \/ /\ opening' = [[o EXCEPT !.logs = @ \ {n}, !.pos = 0] EXCEPT !.failed = TRUE, !.max_sequence = last]
          /\ db' = NextSet(db, MarkFileNumberUsed(db.next + 1, n)) /\ disk' = disk
  BY DEF RecoverLogFile, WithTable, NextSet
<1>16. ASSUME opening'.failed = FALSE PROVE ReadSoFar(disk, db, o)
  BY <1>4, <1>16 DEF GivesUp, FailureForgotten
<1> HIDE DEF n, recs, u, data, last
<1>11. LET a == MarkFileNumberUsed(db.next, n)
           b == MarkFileNumberUsed(db.next + 1, n)
       IN  /\ a \in Nat /\ db.next <= a /\ n < a
           /\ b \in Nat /\ db.next + 1 <= b /\ n < b
  <2>1. db.next + 1 \in Nat
    BY <1>2
  <2> QED
    BY <1>2, <1>6, <2>1, MarkFacts
<1>12. ASSUME NEW c, db' = c, c \in Databases, SameBut(db, c), c.state = db.state, Fresh(c), DiskTyped(disk'),
              DiskSound(Syncing, disk', promised), disk'.logs = disk.logs, ReadingLogs(disk', c, opening'), Reading(opening')
       PROVE  DBInv'
  <2>1. OpeningSound(disk', db', opening', promised)
    BY <1>12 DEF OpeningSound, Reading
  <2>2. LogEntries(disk') \subseteq LogEntries(disk)
    BY <1>12 DEF LogEntries
  <2> QED
    BY <1>1, <1>12, <2>1, <2>2, OpeningStep DEF Fresh
<1>13. CASE /\ data = {} /\ opening' = [[o EXCEPT !.logs = @ \ {n}, !.pos = 0] EXCEPT !.failed = FALSE]
            /\ db' = NextSet(db, MarkFileNumberUsed(db.next, n)) /\ disk' = disk
  <2> DEFINE q == opening'
  <2>1. /\ Reading(q) /\ q.logs = o.logs \ {n} /\ q.pos = 0 /\ q.adds = o.adds /\ q.max_sequence = o.max_sequence
        /\ q.failed \in BOOLEAN /\ ~ q.failed
    BY <1>4, <1>13 DEF Reading
  <2>0. ReadSoFar(disk, db, o)
    BY <1>16, <2>1
  <2>2. PICK a \in Nat : db.next <= a /\ n < a /\ db' = NextSet(db, a)
    BY <1>11, <1>13
  <2>3. db' \in Databases /\ SameBut(db, db') /\ db'.next = a /\ db'.state = db.state /\ db'.log_number = db.log_number /\ Fresh(db')
    BY <1>2, <2>2, NextSetFacts
  <2>4. SameManifest(disk, disk') /\ \A t : TableStays(disk, disk', t)
    BY <1>13 DEF SameManifest, TableStays
  <2>5. ReadSoFar(disk', db', q)
    <3>1. \A i \in DOMAIN disk.logs[n].recs : i > o.pos /\ i <= u =>
             \A e \in disk.logs[n].recs[i] : e.s <= q.max_sequence /\ InTables(disk', e, q.adds)
      BY <1>8, <1>13 DEF recs
    <3>2. u = Len(disk.logs[n].recs)
      BY <1>8, <1>13 DEF recs
    <3>3. o.max_sequence <= q.max_sequence /\ o.adds \subseteq q.adds
      BY <1>4, <2>1
    <3>4. \A t \in o.adds : TableStays(disk, disk', t)
      BY <2>4
    <3> HIDE DEF o, q
    <3> QED
      BY <1>2, <1>4, <1>5, <1>6, <1>8, <1>13, <2>0, <2>1, <2>3, <3>1, <3>2, <3>3, <3>4, ReadMore
  <2>6. \A t \in q.adds : t < db'.next /\ TableUpTo(disk', t, q.max_sequence)
    <3>1. ASSUME NEW t \in o.adds PROVE t < a
      BY <1>2, <1>4, <2>2
    <3> QED
      BY <1>4, <1>13, <2>1, <2>3, <3>1
  <2>7. \A m \in o.logs : m \in q.logs \/ m < db'.next
    BY <2>1, <2>2, <2>3
  <2>8. q.pos \in Nat /\ q.adds \subseteq Nat /\ q.max_sequence \in Nat /\ q.logs \subseteq o.logs
    BY <1>4, <2>1
  <2> HIDE DEF o, q
  <2>9. ReadingLogs(disk', db', q)
    BY <1>2, <1>3, <1>13, <2>1, <2>3, <2>4, <2>5, <2>6, <2>7, <2>8, ReadingMoves
  <2> QED
    BY <1>2, <1>12, <1>13, <2>1, <2>3, <2>9 DEF q
<1>14. CASE /\ opening' = [[o EXCEPT !.logs = @ \ {n}, !.pos = 0] EXCEPT !.failed = TRUE, !.max_sequence = last]
            /\ db' = NextSet(db, MarkFileNumberUsed(db.next + 1, n)) /\ disk' = disk
  <2> DEFINE q == opening'
  <2>1. /\ Reading(q) /\ q.logs = o.logs \ {n} /\ q.pos = 0 /\ q.adds = o.adds /\ q.max_sequence = last
        /\ q.failed \in BOOLEAN /\ q.failed
    BY <1>4, <1>14 DEF Reading
  <2>2. PICK a \in Nat : db.next <= a /\ n < a /\ db' = NextSet(db, a)
    <3>1. \A x \in Nat : db.next + 1 <= x => db.next <= x
      BY <1>2
    <3> QED
      BY <1>11, <1>14, <3>1
  <2>3. db' \in Databases /\ SameBut(db, db') /\ db'.next = a /\ db'.state = db.state /\ Fresh(db')
    BY <1>2, <2>2, NextSetFacts
  <2>4. SameManifest(disk, disk')
    BY <1>14 DEF SameManifest
  <2>6. \A t \in q.adds : t < db'.next /\ TableUpTo(disk', t, q.max_sequence)
    <3>1. ASSUME NEW t \in o.adds PROVE t < a /\ TableUpTo(disk, t, last)
      <4>1. t < a
        BY <1>2, <1>4, <2>2
      <4>2. TableUpTo(disk, t, o.max_sequence)
        BY <1>4
      <4>3. \A e \in disk.tables[t].data : e.s \in Nat
        BY <1>2, <4>2, TableTyped DEF TableUpTo
      <4> QED
        BY <1>4, <1>9, <4>1, <4>2, <4>3 DEF TableUpTo
    <3> QED
      BY <1>14, <2>1, <2>3, <3>1
  <2>7. \A m \in o.logs : m \in q.logs \/ m < db'.next
    BY <2>1, <2>2, <2>3
  <2>8. q.pos \in Nat /\ q.adds \subseteq Nat /\ q.max_sequence \in Nat /\ q.logs \subseteq o.logs
    BY <1>4, <1>9, <2>1
  <2> HIDE DEF o, q
  <2>9. ReadingLogs(disk', db', q)
    BY <1>2, <1>3, <1>14, <2>1, <2>3, <2>4, <2>6, <2>7, <2>8, ReadingMoves
  <2> QED
    BY <1>2, <1>12, <1>14, <2>1, <2>3, <2>9 DEF q
<1>15. CASE /\ data # {} /\ disk' = WithTable(disk, db.next, data)
            /\ LET q == [o EXCEPT !.adds = @ \cup {db.next}, !.max_sequence = last, !.pos = u, !.failed = FALSE]
               IN  opening' = IF u = Len(recs) THEN [q EXCEPT !.logs = @ \ {n}, !.pos = 0] ELSE q
            /\ db' = NextSet(db, IF u = Len(recs) THEN MarkFileNumberUsed(db.next + 1, n) ELSE db.next + 1)
  <2> DEFINE q == opening'
  <2>1. /\ Reading(q) /\ q.adds = o.adds \cup {db.next} /\ q.max_sequence = last
        /\ q.failed \in BOOLEAN /\ ~ q.failed
        /\ \/ u = Len(recs) /\ q.logs = o.logs \ {n} /\ q.pos = 0
           \/ u # Len(recs) /\ q.logs = o.logs /\ q.pos = u
    BY <1>4, <1>15 DEF Reading
  <2>0. ReadSoFar(disk, db, o)
    BY <1>16, <2>1
  <2>2. PICK a \in Nat : db.next < a /\ (u = Len(recs) => n < a) /\ db' = NextSet(db, a)
    <3>1. \A x \in Nat : db.next + 1 <= x => db.next < x
      BY <1>2
    <3>2. db.next + 1 \in Nat /\ db.next < db.next + 1
      BY <1>2
    <3>3. CASE u = Len(recs)
      BY <1>11, <1>15, <3>1, <3>3
    <3>4. CASE u # Len(recs)
      BY <1>15, <3>2, <3>4
    <3> QED
      BY <3>3, <3>4
  <2>3. db' \in Databases /\ SameBut(db, db') /\ db'.next = a /\ db'.state = db.state /\ db'.log_number = db.log_number /\ Fresh(db')
    <3>1. db.next <= a
      BY <1>2, <2>2
    <3> QED
      BY <1>2, <2>2, <3>1, NextSetFacts
  <2>4. /\ DiskTyped(disk') /\ DiskSound(Syncing, disk', promised) /\ disk'.logs = disk.logs /\ SameManifest(disk, disk')
        /\ db.next \in DOMAIN disk'.tables /\ disk'.tables[db.next].data = data
        /\ \A t : t # db.next => TableStays(disk, disk', t)
    <3>1. \A c \in Cutting(disk) : db.next \notin TablesOf(Cut(disk, c))
      BY <1>2, <1>3, NextIsNew
    <3>2. disk' = WithTable(disk, db.next, data)
      BY <1>15
    <3> HIDE DEF o, q
    <3> QED
      BY <1>2, <1>8, <3>1, <3>2, TableAdded
  <2>5. \A t \in o.adds : t # db.next /\ TableStays(disk, disk', t)
    BY <1>2, <1>4, <2>4
  <2>6. ReadSoFar(disk', db', q)
    <3>1. ASSUME NEW i \in DOMAIN disk.logs[n].recs, i > o.pos, i <= u, NEW e \in disk.logs[n].recs[i]
          PROVE  e.s <= q.max_sequence /\ InTables(disk', e, q.adds)
      <4>1. e \in data
        BY <1>8, <3>1 DEF recs
      <4> QED
        BY <1>9, <2>1, <2>4, <4>1 DEF InTables
    <3>2. o.max_sequence <= q.max_sequence /\ o.adds \subseteq q.adds /\ q.max_sequence \in Nat
      BY <1>9, <2>1
    <3>3. \/ q.logs = o.logs /\ q.pos = u
          \/ q.logs = o.logs \ {n} /\ q.pos = 0 /\ u = Len(disk.logs[n].recs)
      BY <2>1 DEF recs
    <3> HIDE DEF o, q
    <3> QED
      BY <1>2, <1>4, <1>5, <1>6, <1>8, <2>0, <2>3, <2>4, <2>5, <3>1, <3>2, <3>3, ReadMore
  <2>7. \A t \in q.adds : t < db'.next /\ TableUpTo(disk', t, q.max_sequence)
    <3>1. ASSUME NEW t \in o.adds PROVE t < a /\ TableUpTo(disk', t, last)
      <4>1. t < a
        BY <1>2, <1>4, <2>2
      <4>2. TableUpTo(disk, t, o.max_sequence) /\ t \in DOMAIN disk'.tables /\ disk'.tables[t].data = disk.tables[t].data
        BY <1>4, <2>5 DEF TableStays, TableUpTo
      <4>3. \A e \in disk.tables[t].data : e.s \in Nat
        BY <1>2, <4>2, TableTyped DEF TableUpTo
      <4> QED
        BY <1>4, <1>9, <4>1, <4>2, <4>3 DEF TableUpTo
    <3>2. db.next < a /\ TableUpTo(disk', db.next, last)
      BY <1>9, <2>2, <2>4 DEF TableUpTo
    <3> QED
      BY <2>1, <2>3, <3>1, <3>2
  <2>8. \A m \in o.logs : m \in q.logs \/ m < db'.next
    BY <2>1, <2>2, <2>3
  <2>9. q.pos \in Nat /\ q.adds \subseteq Nat /\ q.max_sequence \in Nat /\ q.logs \subseteq o.logs
    BY <1>2, <1>4, <1>8, <1>9, <2>1
  <2> HIDE DEF o, q
  <2>10. ReadingLogs(disk', db', q)
    BY <1>2, <1>3, <2>1, <2>3, <2>4, <2>6, <2>7, <2>8, <2>9, ReadingMoves
  <2> QED
    BY <1>2, <1>12, <2>1, <2>3, <2>4, <2>10 DEF q
<1> QED
  BY <1>10, <1>13, <1>14, <1>15

(* The sequence number to go on from. *)
LEMMA RecoveredSequenceFacts ==
  ASSUME NEW a \in Nat, NEW m \in Nat
  PROVE  LET x == Max({a, m}) IN x \in Nat /\ a <= x /\ m <= x
<1> DEFINE S == {a, m}
<1>1. S \subseteq Nat /\ S # {} /\ a \in S /\ m \in S
  OBVIOUS
<1>2. Bounded(S)
  <2>1. S \subseteq 0 .. a + m /\ a + m \in Nat
    OBVIOUS
  <2> HIDE DEF S
  <2> QED
    BY <2>1 DEF Bounded
<1> HIDE DEF S
<1>3. Max(S) \in Nat /\ \A z \in S : z <= Max(S)
  BY <1>1, <1>2, MaxNat
<1> QED
  BY <1>1, <1>3 DEF S

(* The object after the log of this opening is created. *)
LogCreated(b, s) == [b EXCEPT !.seq = s, !.logfile = b.next, !.next = b.next + 1]
(* What creating the log changes in the object. *)
LEMMA LogCreatedFacts ==
  ASSUME NEW b \in Databases, NEW s \in Nat, NEW c, c = LogCreated(b, s)
  PROVE  /\ c \in Databases /\ c.seq = s /\ c.logfile = b.next /\ c.next = b.next + 1 /\ c.state = b.state
         /\ c.version = b.version /\ c.manifest = b.manifest /\ c.log_number = b.log_number /\ (Fresh(b) => Fresh(c))
<1> DEFINE k == b.next + 1
<1>1. b.next \in Nat /\ k \in Nat /\ k = b.next + 1
  BY DEF Databases
<1>2. c = [b EXCEPT !.seq = s, !.logfile = b.next, !.next = k]
  BY DEF LogCreated
<1> HIDE DEF k
<1>3. /\ c \in Databases /\ c.seq = s /\ c.logfile = b.next /\ c.next = k /\ c.state = b.state
      /\ c.version = b.version /\ c.manifest = b.manifest /\ c.log_number = b.log_number
  BY <1>1, <1>2 DEF Databases
<1>4. Fresh(b) => Fresh(c)
  BY <1>2 DEF Fresh, Databases
<1> QED
  BY <1>1, <1>3, <1>4

(* Everything in the logs has been read: what was promised is in tables. *)
LEMMA RecoveredFacts ==
  ASSUME NEW y, NEW d, NEW f, NEW b \in Databases, NEW c \in Databases, NEW p, NEW o, NEW q, DiskTyped(d), DiskSound(y, d, p),
         ReadingLogs(d, b, o), o.logs = {}, ~ o.failed, p \subseteq Entries,
         NEW s \in Nat, b.seq <= s, o.max_sequence <= s, c = LogCreated(b, s), f = WithLog(d, b.next),
         q = [at |-> "manifest", adds |-> o.adds]
  PROVE  /\ DiskTyped(f) /\ DiskSound(y, f, p) /\ Recovered(f, c, q, p) /\ f.current < c.manifest
         /\ LogEntries(f) \subseteq LogEntries(d)
<1> DEFINE r == Manifest(d).recs
<1>1. /\ d.current # 0 /\ Len(r) >= 1 /\ b.version = ApplyAll(r) /\ b.log_number = LogOf(r)
      /\ b.manifest = NextOf(r) /\ b.seq = LastSeqOf(r) /\ b.manifest < b.next
      /\ o.adds \subseteq Nat /\ o.max_sequence \in Nat /\ (\A t \in o.adds : t < b.next /\ TableUpTo(d, t, o.max_sequence))
      /\ (\A n \in DOMAIN d.logs : n < b.next) /\ ReadSoFar(d, b, o)
  BY DEF ReadingLogs
<1>2. /\ Names(d, r) /\ Holds(y, d, p, r) /\ d.current < NextOf(r) /\ LogOf(r) \in Nat /\ NextOf(r) \in Nat
      /\ LastSeqOf(r) \in Nat
  BY <1>1, WholeManifest
<1> HIDE DEF r
<1>3. /\ c.seq = s /\ c.logfile = b.next /\ c.next = b.next + 1 /\ c.version = b.version /\ c.manifest = b.manifest
  BY LogCreatedFacts
<1>4. b.next \in Nat /\ b.manifest \in Nat /\ b.seq \in Nat /\ b.next \notin DOMAIN d.logs /\ d.current \in Nat
  BY <1>1 DEF Databases, DiskTyped, ManifestsTyped
<1>5. /\ DiskTyped(f) /\ LogsGrow(d, f)
      /\ f.current = d.current /\ f.manifests = d.manifests /\ f.tables = d.tables
      /\ DOMAIN f.logs = DOMAIN d.logs \cup {b.next} /\ f.logs[b.next] = NewLogFile /\ f.logs[b.next].recs = <<>>
      /\ \A m \in DOMAIN d.logs : f.logs[m] = d.logs[m]
  BY <1>4, NewLogFacts
<1>6. DiskSound(y, f, p)
  <2>1. Manifest(f) = Manifest(d)
    BY <1>5 DEF Manifest
  <2>2. ASSUME NEW x \in Cutting(d) PROVE Kinder(y, d, f, Cut(d, x))
    <3>1. ~ (b.next < LogOf(Cut(d, x)))
      BY NextIsNew
    <3>2. \A n \in DOMAIN f.logs : n < LogOf(Cut(d, x)) => n \in DOMAIN d.logs /\ f.logs[n].recs = d.logs[n].recs
      BY <1>5, <3>1
    <3> QED
      BY <1>5, <3>2, GrowingIsKinder
  <2> QED
    BY <1>5, <2>1, <2>2, DiskStaysSound
<1>7. ASSUME NEW n \in DOMAIN d.logs, NEW i \in DOMAIN d.logs[n].recs, NEW e \in d.logs[n].recs[i] PROVE e.s <= s
  <2>1. e.s \in Nat /\ n \in Nat /\ LogOf(r) \in Nat
    BY <1>2, LogTyped
  <2>2. CASE n < LogOf(r)
    <3>1. e.s <= LastSeqOf(r)
      BY <1>2, <2>2 DEF Names, LogUpTo
    <3> QED
      BY <1>1, <1>4, <2>1, <3>1
  <2>3. CASE n >= LogOf(r)
    <3>1. ~ Unread(o, n, i)
      BY DEF Unread
    <3>2. e.s <= o.max_sequence
      BY <1>1, <2>3, <3>1 DEF ReadSoFar
    <3> QED
      BY <1>1, <2>1, <3>2
  <2> QED
    BY <2>1, <2>2, <2>3
<1>8. \A n \in DOMAIN f.logs : n <= c.logfile /\ LogUpTo(f, n, c.seq)
  <2>1. ASSUME NEW n \in DOMAIN d.logs PROVE n <= c.logfile /\ LogUpTo(f, n, c.seq)
    <3>1. n \in Nat /\ n < b.next
      BY <1>1, LogTyped
    <3>2. LogUpTo(f, n, c.seq)
      BY <1>3, <1>5, <1>7 DEF LogUpTo
    <3> QED
      BY <1>3, <1>4, <3>1, <3>2
  <2>2. b.next <= c.logfile /\ LogUpTo(f, b.next, c.seq)
    <3>1. DOMAIN f.logs[b.next].recs = {}
      BY <1>5
    <3> QED
      BY <1>3, <1>4, <3>1 DEF LogUpTo
  <2> QED
    BY <1>5, <2>1, <2>2
<1>9. ASSUME NEW t \in Tables(c.version) \cup o.adds PROVE t < c.next /\ TableUpTo(f, t, c.seq)
  <2>1. CASE t \in Tables(c.version)
    <3>1. t \in TablesOf(r)
      BY <1>1, <1>3, <2>1 DEF TablesOf
    <3>2. t < NextOf(r) /\ TableUpTo(d, t, LastSeqOf(r))
      BY <1>2, <3>1 DEF Names
    <3>3. t \in Nat /\ \A e \in d.tables[t].data : e.s \in Nat
      BY <3>2, TableTyped DEF TableUpTo
    <3>4. t < c.next
      BY <1>1, <1>3, <1>4, <3>2, <3>3
    <3>5. TableUpTo(f, t, c.seq)
      BY <1>1, <1>3, <1>4, <1>5, <3>2, <3>3 DEF TableUpTo
    <3> QED
      BY <3>4, <3>5
  <2>2. CASE t \in o.adds
    <3>1. t < b.next /\ TableUpTo(d, t, o.max_sequence)
      BY <1>1, <2>2
    <3>2. t \in Nat /\ \A e \in d.tables[t].data : e.s \in Nat
      BY <3>1, TableTyped DEF TableUpTo
    <3>3. t < c.next
      BY <1>3, <1>4, <3>1, <3>2
    <3>4. TableUpTo(f, t, c.seq)
      BY <1>1, <1>3, <1>5, <3>1, <3>2 DEF TableUpTo
    <3> QED
      BY <3>3, <3>4
  <2> QED
    BY <2>1, <2>2
<1>10. ASSUME NEW e \in p PROVE InTables(f, e, Tables(c.version) \cup o.adds) /\ e.s <= c.seq
  <2>1. InTables(f, e, Tables(c.version) \cup o.adds)
    <3>1. CASE InTables(d, e, TablesOf(r))
      BY <1>1, <1>3, <1>5, <3>1 DEF InTables, TablesOf
    <3>2. CASE InLogs(y, d, e, LogOf(r))
      <4>1. PICK n \in DOMAIN d.logs : n >= LogOf(r) /\ Logged(y, d, e, n)
        BY <3>2 DEF InLogs
      <4>2. PICK i \in DOMAIN d.logs[n].recs : e \in d.logs[n].recs[i]
        BY <4>1 DEF Logged
      <4>3. ~ Unread(o, n, i)
        BY DEF Unread
      <4>4. InTables(d, e, o.adds)
        BY <1>1, <4>1, <4>2, <4>3 DEF ReadSoFar
      <4> QED
        BY <1>5, <4>4 DEF InTables
    <3> QED
      BY <1>2, <3>1, <3>2 DEF Holds
  <2>2. PICK t \in Tables(c.version) \cup o.adds : t \in DOMAIN f.tables /\ e \in f.tables[t].data
    BY <2>1 DEF InTables
  <2>3. TableUpTo(f, t, c.seq)
    BY <1>9
  <2> QED
    BY <2>1, <2>2, <2>3 DEF TableUpTo
<1>11. /\ DOMAIN q = {"at", "adds"} /\ q.adds = o.adds
  OBVIOUS
<1>12. /\ c.logfile < c.next /\ c.manifest < c.next /\ c.manifest # 0 /\ f.current < c.manifest
  BY <1>1, <1>2, <1>3, <1>4, <1>5
<1>13. Recovered(f, c, q, p)
  BY <1>1, <1>3, <1>5, <1>8, <1>9, <1>10, <1>11, <1>12 DEF Recovered
<1>14. LogEntries(f) \subseteq LogEntries(d)
  <2>1. ASSUME NEW e \in LogEntries(f) PROVE e \in LogEntries(d)
    <3>1. PICK n \in DOMAIN f.logs : \E i \in DOMAIN f.logs[n].recs : e \in f.logs[n].recs[i]
      BY <1>5, <2>1, InLogEntries
    <3>2. n # b.next
      BY <1>5, <3>1
    <3>3. n \in DOMAIN d.logs /\ f.logs[n] = d.logs[n]
      BY <1>5, <3>2
    <3> QED
      BY <3>1, <3>3, InLogEntries
  <2> QED
    BY <2>1
<1> QED
  BY <1>5, <1>6, <1>12, <1>13, <1>14

(* The log of the new object is created, or Open fails. *)
LEMMA CreateFirstLogKeeps ==
  ASSUME DBInv, CreateFirstLog
  PROVE  DBInv'
<1> DEFINE o == opening
           s == Max({db.seq, o.max_sequence})
<1>1. db.state = "opening" /\ o.at = "logs" /\ o.logs = {} /\ UNCHANGED <<mode, bg, queue, pc, group, promised>>
  BY DEF CreateFirstLog, At, Idle
<1>2. /\ OpeningSound(disk, db, opening, promised) /\ DiskTyped(disk) /\ DiskSound(Syncing, disk, promised)
      /\ db \in Databases /\ Fresh(db) /\ db.seq \in Nat /\ promised \subseteq Entries
  BY <1>1, OpeningFacts, DBTyped DEF Typed
<1>3. ReadingLogs(disk, db, o) /\ o.max_sequence \in Nat
  BY <1>1, <1>2 DEF OpeningSound, ReadingLogs
<1>4. CASE /\ ~ o.failed /\ db' = LogCreated(db, s) /\ disk' = WithLog(disk, db.next)
           /\ opening' = [at |-> "manifest", adds |-> o.adds]
  <2>1. s \in Nat /\ db.seq <= s /\ o.max_sequence <= s
    BY <1>2, <1>3, RecoveredSequenceFacts
  <2>2. db' = LogCreated(db, s) /\ opening' = [at |-> "manifest", adds |-> o.adds]
    BY <1>4
  <2> HIDE DEF s, o
  <2>3. db' \in Databases /\ db'.state = "opening" /\ Fresh(db')
    BY <1>1, <1>2, <2>1, <2>2, LogCreatedFacts
  <2>4. /\ DiskTyped(disk') /\ DiskSound(Syncing, disk', promised) /\ Recovered(disk', db', opening', promised)
        /\ disk'.current < db'.manifest /\ LogEntries(disk') \subseteq LogEntries(disk)
    BY <1>1, <1>2, <1>3, <1>4, <2>1, <2>2, <2>3, RecoveredFacts
  <2>5. OpeningSound(disk', db', opening', promised)
    BY <2>2, <2>3, <2>4 DEF OpeningSound
  <2> QED
    BY <1>1, <2>3, <2>4, <2>5, OpeningStep DEF Fresh
<1>5. CASE OpenFails /\ UNCHANGED disk
  BY <1>1, <1>2, <1>5, OpenFailsKeeps DEF OpenFails
<1> QED
  BY <1>4, <1>5 DEF CreateFirstLog, RecoveredSequence, WithLog, LogCreated

(* What was recovered depends on the logs and tables alone. *)
LEMMA RecoveredStays ==
  ASSUME NEW d, NEW f, NEW b, NEW o, NEW q, NEW p, Recovered(d, b, o, p), f.logs = d.logs, f.tables = d.tables,
         f.current # 0, DOMAIN q = {"at", "adds"}, q.adds = o.adds
  PROVE  Recovered(f, b, q, p)
<1>1. /\ \A e, ns : InTables(f, e, ns) <=> InTables(d, e, ns)
      /\ \A n, s : LogUpTo(f, n, s) <=> LogUpTo(d, n, s)
      /\ \A t, s : TableUpTo(f, t, s) <=> TableUpTo(d, t, s)
  BY DEF InTables, LogUpTo, TableUpTo
<1> QED
  BY <1>1 DEF Recovered

(* The first manifest of an opening, and what it says. *)
ManifestOf(b, o) == [recs |-> <<Snapshot(b.version), EditOf(b, o)>>, synced |-> 2]
(* What it says. *)
LEMMA ManifestOfFacts ==
  ASSUME NEW d, NEW b \in Databases, NEW o, NEW p, Recovered(d, b, o, p), NEW m, m = ManifestOf(b, o)
  PROVE  /\ m \in ManifestFiles /\ m.synced = 2 /\ Len(m.recs) = 2 /\ m.recs \in Seq(Edits)
         /\ ApplyAll(m.recs) = ApplyEdit(b.version, EditOf(b, o)) /\ TablesOf(m.recs) = Tables(b.version) \cup o.adds
         /\ LogOf(m.recs) = b.logfile /\ NextOf(m.recs) = b.next /\ LastSeqOf(m.recs) = b.seq
<1> DEFINE e == EditOf(b, o)
           r == <<Snapshot(b.version), e>>
<1>1. /\ b.version \in [l0 : SUBSET Nat, l1 : SUBSET Nat] /\ o.adds \in SUBSET Nat
      /\ b.logfile \in Nat /\ b.next \in Nat /\ b.seq \in Nat
  BY DEF Databases, Recovered
<1>2. /\ r \in Seq(Edits) /\ Len(r) = 2
      /\ ApplyAll(r) = ApplyEdit(b.version, e) /\ TablesOf(r) = Tables(b.version) \cup o.adds
      /\ LogOf(r) = b.logfile /\ NextOf(r) = b.next /\ LastSeqOf(r) = b.seq
  <2>1. b.version \in Versions /\ r = FirstRecs(b.version, e)
    BY <1>1 DEF Versions, FirstRecs
  <2>2. e \in Edits
    BY <1>1, EditTyped DEF EditOf
  <2>3. /\ e.del = {} /\ e.add1 = {} /\ e.add0 = o.adds /\ e.log = b.logfile /\ e.next = b.next /\ e.seq = b.seq
    BY DEF EditOf, Edit
  <2> HIDE DEF r, e
  <2>4. Adding(e)
    BY <1>1, <2>2, <2>3 DEF Adding
  <2>5. /\ r \in Seq(Edits) /\ Len(r) = 2
        /\ ApplyAll(r) = ApplyEdit(b.version, e) /\ TablesOf(r) = Tables(b.version) \cup e.add0
        /\ LogOf(r) = e.log /\ NextOf(r) = e.next /\ LastSeqOf(r) = e.seq
    BY <2>1, <2>4, NewManifestFacts
  <2> QED
    BY <2>3, <2>5
<1>3. m = [recs |-> r, synced |-> 2]
  BY DEF ManifestOf
<1> HIDE DEF r
<1> QED
  BY <1>2, <1>3 DEF ManifestFiles

(* The new manifest is written and synced, or Open fails. *)
LEMMA WriteNewManifestKeeps ==
  ASSUME DBInv, WriteNewManifest
  PROVE  DBInv'
<1>1. db.state = "opening" /\ opening.at = "manifest" /\ UNCHANGED <<mode, bg, queue, pc, group, promised>>
  BY DEF WriteNewManifest, At, Idle
<1>2. /\ OpeningSound(disk, db, opening, promised) /\ DiskTyped(disk) /\ DiskSound(Syncing, disk, promised)
      /\ db \in Databases /\ Fresh(db) /\ db.mem = {} /\ db.imm = <<>> /\ db.manual = None /\ db.manifest \in Nat
  BY <1>1, OpeningFacts, DBTyped
<1>3. Recovered(disk, db, opening, promised) /\ disk.current < db.manifest
  BY <1>1, <1>2 DEF OpeningSound
<1>4. /\ disk.current # 0 /\ DOMAIN opening = {"at", "adds"} /\ disk.current # db.manifest
  BY <1>2, <1>3 DEF Recovered, DiskTyped, ManifestsTyped
<1> DEFINE m == ManifestOf(db, opening)
<1>5. CASE disk' = WithManifest(disk, db.manifest, m) /\ opening' = [opening EXCEPT !.at = "current"] /\ db' = db
  <2>2. m = ManifestOf(db, opening)
    OBVIOUS
  <2> HIDE DEF m
  <2>1. m \in ManifestFiles /\ m.synced <= Len(m.recs)
    <3>1. m \in ManifestFiles /\ m.synced = 2 /\ Len(m.recs) = 2
      BY <1>2, <1>3, <2>2, ManifestOfFacts
    <3> QED
      BY <3>1
  <2>3. /\ DiskTyped(disk') /\ disk'.current = disk.current /\ disk'.logs = disk.logs /\ disk'.tables = disk.tables
        /\ db.manifest \in DOMAIN disk'.manifests /\ disk'.manifests[db.manifest] = m
        /\ disk.current # 0 => Manifest(disk') = Manifest(disk)
    BY <1>2, <1>4, <1>5, <2>1, NewManifestFileFacts
  <2>4. opening'.at = "current" /\ DOMAIN opening' = {"at", "adds"} /\ opening'.adds = opening.adds
    BY <1>4, <1>5
  <2>5. DiskSound(Syncing, disk', promised)
    <3>1. Manifest(disk') = Manifest(disk) /\ LogsGrow(disk, disk')
      BY <1>2, <1>4, <2>3, SameLogs
    <3>2. ASSUME NEW c \in Cutting(disk) PROVE Kinder(Syncing, disk, disk', Cut(disk, c))
      BY <1>2, <2>3, <3>1, GrowingIsKinder
    <3> QED
      BY <1>2, <2>3, <3>1, <3>2, DiskStaysSound
  <2>6. Recovered(disk', db', opening', promised)
    BY <1>3, <1>4, <1>5, <2>3, <2>4, RecoveredStays
  <2>7. NewManifestWritten(disk', db', opening')
    <3>1. EditOf(db', opening') = EditOf(db, opening)
      BY <1>5, <2>4 DEF EditOf
    <3> QED
      BY <1>5, <2>2, <2>3, <3>1 DEF NewManifestWritten, ManifestOf
  <2>8. OpeningSound(disk', db', opening', promised)
    BY <1>2, <1>3, <1>5, <2>3, <2>4, <2>6, <2>7 DEF OpeningSound
  <2>9. LogEntries(disk') \subseteq LogEntries(disk)
    BY <2>3 DEF LogEntries
  <2> QED
    BY <1>1, <1>2, <1>5, <2>3, <2>5, <2>8, <2>9, OpeningStep
<1>6. CASE OpenFails /\ UNCHANGED disk
  BY <1>1, <1>2, <1>6, OpenFailsKeeps DEF OpenFails
<1>7. FirstEdit = EditOf(db, opening)
  BY DEF FirstEdit, EditOf
<1> QED
  BY <1>5, <1>6, <1>7 DEF WriteNewManifest, WithManifest, ManifestOf

(* Once CURRENT names the new manifest, it is the only prefix a crash can  *)
(* leave, and it says what was recovered.                                  *)
LEMMA NewManifestCurrent ==
  ASSUME NEW y, NEW d, NEW b \in Databases, NEW o, NEW p, DiskTyped(d), Recovered(d, b, o, p),
         NewManifestWritten(d, b, o), d.current = b.manifest, NEW r, r = Manifest(d).recs
  PROVE  /\ Manifest(d).synced = 2 /\ Len(r) = 2 /\ Cutting(d) = {2} /\ Cut(d, 2) = r
         /\ ApplyAll(r) = ApplyEdit(b.version, EditOf(b, o)) /\ TablesOf(r) = Tables(b.version) \cup o.adds
         /\ LogOf(r) = b.logfile /\ NextOf(r) = b.next /\ LastSeqOf(r) = b.seq
         /\ DiskSound(y, d, p)
<1>1. /\ Manifest(d) = ManifestOf(b, o) /\ d.current # 0
      /\ b.logfile \in Nat /\ b.next \in Nat /\ b.seq \in Nat /\ b.manifest \in Nat
  BY DEF NewManifestWritten, Manifest, ManifestOf, Recovered, Databases
<1>2. /\ Manifest(d).synced = 2 /\ Len(r) = 2
      /\ ApplyAll(r) = ApplyEdit(b.version, EditOf(b, o)) /\ TablesOf(r) = Tables(b.version) \cup o.adds
      /\ LogOf(r) = b.logfile /\ NextOf(r) = b.next /\ LastSeqOf(r) = b.seq
  <2>1. PICK m : m = Manifest(d)
    OBVIOUS
  <2>2. m = ManifestOf(b, o)
    BY <1>1, <2>1
  <2>3. m.synced = 2 /\ Len(m.recs) = 2
    BY <2>2, ManifestOfFacts
  <2>4. ApplyAll(m.recs) = ApplyEdit(b.version, EditOf(b, o)) /\ TablesOf(m.recs) = Tables(b.version) \cup o.adds
    BY <2>2, ManifestOfFacts
  <2>5. LogOf(m.recs) = b.logfile /\ NextOf(m.recs) = b.next /\ LastSeqOf(m.recs) = b.seq
    BY <2>2, ManifestOfFacts
  <2> QED
    BY <2>1, <2>3, <2>4, <2>5
<1>3. Cutting(d) = {2}
  BY <1>2 DEF Cutting
<1>4. Cut(d, 2) = r
  <2>1. Cut(d, Len(Manifest(d).recs)) = Manifest(d).recs
    BY <1>1, CutTyped
  <2> QED
    BY <1>2, <2>1
<1>5. Names(d, r)
  BY <1>1, <1>2 DEF Names, Recovered
<1>6. Holds(y, d, p, r)
  BY <1>2 DEF Holds, Recovered
<1>7. d.current < NextOf(r) /\ NextOf(r) <= NextOf(Manifest(d).recs)
  BY <1>1, <1>2 DEF Recovered
<1>8. CutSound(y, d, p, 2)
  BY <1>4, <1>5, <1>6, <1>7 DEF CutSound
<1>9. DiskSound(y, d, p)
  BY <1>1, <1>2, <1>3, <1>8 DEF DiskSound
<1> QED
  BY <1>2, <1>3, <1>4, <1>9

(* CURRENT is set, or the manifest is removed again. *)
LEMMA SetCurrentFileKeeps ==
  ASSUME DBInv, SetCurrentFile
  PROVE  DBInv'
<1>1. db.state = "opening" /\ opening.at = "current" /\ UNCHANGED <<mode, bg, queue, pc, group, promised>>
  BY DEF SetCurrentFile, At, Idle
<1>2. /\ OpeningSound(disk, db, opening, promised) /\ DiskTyped(disk) /\ DiskSound(Syncing, disk, promised)
      /\ db \in Databases /\ Fresh(db) /\ db.mem = {} /\ db.imm = <<>> /\ db.manual = None /\ db.manifest \in Nat
  BY <1>1, OpeningFacts, DBTyped
<1>3. Recovered(disk, db, opening, promised) /\ disk.current < db.manifest /\ NewManifestWritten(disk, db, opening)
  BY <1>1, <1>2 DEF OpeningSound
<1>4. /\ disk.current # 0 /\ DOMAIN opening = {"at", "adds"} /\ disk.current # db.manifest /\ db.manifest # 0
  BY <1>2, <1>3 DEF Recovered, DiskTyped, ManifestsTyped
<1>5. CASE disk' = WithCurrent(disk, db.manifest) /\ opening' = [opening EXCEPT !.at = "finish"] /\ db' = db
  <2>1. /\ DiskTyped(disk') /\ disk'.current = db.manifest /\ disk'.logs = disk.logs /\ disk'.tables = disk.tables
        /\ disk'.manifests = disk.manifests
    BY <1>2, <1>3, <1>5, NewCurrentFacts DEF NewManifestWritten
  <2>2. opening'.at = "finish" /\ DOMAIN opening' = {"at", "adds"} /\ opening'.adds = opening.adds
    BY <1>4, <1>5
  <2>3. Recovered(disk', db', opening', promised)
    BY <1>3, <1>4, <1>5, <2>1, <2>2, RecoveredStays
  <2>4. NewManifestWritten(disk', db', opening')
    <3>1. EditOf(db', opening') = EditOf(db, opening)
      BY <1>5, <2>2 DEF EditOf
    <3> QED
      BY <1>3, <1>5, <2>1, <3>1 DEF NewManifestWritten
  <2>5. DiskSound(Syncing, disk', promised)
    <3>1. PICK f, b, o : f = disk' /\ b = db' /\ o = opening'
      OBVIOUS
    <3>2. DiskSound(Syncing, f, promised)
      BY <1>2, <1>5, <2>1, <2>3, <2>4, <3>1, NewManifestCurrent
    <3> QED
      BY <3>1, <3>2
  <2>6. OpeningSound(disk', db', opening', promised)
    BY <1>2, <1>5, <2>1, <2>2, <2>3, <2>4 DEF OpeningSound
  <2>7. LogEntries(disk') \subseteq LogEntries(disk)
    BY <2>1 DEF LogEntries
  <2> QED
    BY <1>1, <1>2, <1>5, <2>1, <2>5, <2>6, <2>7, OpeningStep
<1>6. CASE OpenFails /\ disk' = WithoutManifest(disk, db.manifest)
  <2>1. /\ DiskTyped(disk') /\ disk'.current = disk.current /\ disk'.logs = disk.logs /\ disk'.tables = disk.tables
        /\ Manifest(disk') = Manifest(disk)
    BY <1>2, <1>4, <1>6, ManifestRemovedFacts
  <2>2. DiskSound(Syncing, disk', promised)
    <3>1. LogsGrow(disk, disk')
      BY <1>2, <2>1, SameLogs
    <3>2. ASSUME NEW c \in Cutting(disk) PROVE Kinder(Syncing, disk, disk', Cut(disk, c))
      BY <1>2, <2>1, <3>1, GrowingIsKinder
    <3> QED
      BY <1>2, <2>1, <3>1, <3>2, DiskStaysSound
  <2>3. LogEntries(disk') \subseteq LogEntries(disk)
    BY <2>1 DEF LogEntries
  <2> QED
    BY <1>1, <1>6, <2>1, <2>2, <2>3, OpenFailsKeeps DEF OpenFails
<1> QED
  BY <1>5, <1>6 DEF SetCurrentFile, WithCurrent, WithoutManifest

(* The object DB::Open returns. *)
Opened(b, o) == [b EXCEPT !.state = "open", !.version = ApplyEdit(b.version, EditOf(b, o)), !.log_number = b.logfile]
(* It keeps everything but its state, its version and its log number. *)
OpenedAs(b, o, c) ==
    /\ c.state = "open" /\ c.log_number = b.logfile
    /\ c.version = ApplyEdit(b.version, EditOf(b, o)) /\ Tables(c.version) = Tables(b.version) \cup o.adds
    /\ c.mem = {} /\ c.imm = <<>> /\ c.manual = None /\ c.bg_error = FALSE
    /\ c.logfile = b.logfile /\ c.next = b.next /\ c.seq = b.seq /\ c.manifest = b.manifest
(* The fields of the object, and its type. *)
LEMMA OpenedFacts ==
  ASSUME NEW d, NEW b \in Databases, NEW o, NEW p, Recovered(d, b, o, p), Fresh(b), NEW c, c = Opened(b, o)
  PROVE  c \in Databases /\ OpenedAs(b, o, c)
<1> DEFINE V == [l0 : SUBSET Nat, l1 : SUBSET Nat]
           v == ApplyEdit(b.version, EditOf(b, o))
<1>1. b.version \in V /\ o.adds \subseteq Nat /\ b.logfile \in Nat
  BY DEF Databases, Recovered
<1>2. EditOf(b, o).del = {} /\ EditOf(b, o).add0 = o.adds /\ EditOf(b, o).add1 = {}
  BY DEF EditOf, Edit
<1>3. v \in V /\ Tables(v) = Tables(b.version) \cup o.adds
  BY <1>1, <1>2 DEF ApplyEdit, Tables
<1>4. c = [b EXCEPT !.state = "open", !.version = v, !.log_number = b.logfile]
  BY DEF Opened
<1> DEFINE I == {<<>>} \cup {<<m>> : m \in Records}
<1>5. Databases = [state : {"closed", "opening", "open", "closing", "undefined"}, mem : Records, imm : I,
     logfile : Nat, next : Nat, seq : Nat, log_number : Nat, manifest : Nat,
     version : V, pending : SUBSET Nat, bg_error : BOOLEAN,
     scheduled : BOOLEAN, shutting_down : BOOLEAN, manual : Writers \cup {None}]
  BY DEF Databases
<1> HIDE DEF V, v, I
<1>6. /\ c.state = "open" /\ c.log_number = b.logfile /\ c.version = v
      /\ c.mem = b.mem /\ c.imm = b.imm /\ c.manual = b.manual /\ c.bg_error = b.bg_error
      /\ c.logfile = b.logfile /\ c.next = b.next /\ c.seq = b.seq /\ c.manifest = b.manifest
  BY <1>4, <1>5
<1>7. c \in Databases
  BY <1>1, <1>3, <1>4, <1>5
<1> QED
  BY <1>3, <1>6, <1>7 DEF Fresh, OpenedAs, v

(* Everything a database in use needs holds of it. *)
LEMMA OpenedUse ==
  ASSUME NEW y, NEW d, NEW b \in Databases, NEW o, NEW p, DiskTyped(d), Recovered(d, b, o, p), Fresh(b),
         NewManifestWritten(d, b, o), d.current = b.manifest, NEW c, c = Opened(b, o)
  PROVE  UseSound(y, d, c, NoJobs, p, NoGroup)
<1> DEFINE r == Manifest(d).recs
<1>1. /\ c.log_number = b.logfile
      /\ c.version = ApplyEdit(b.version, EditOf(b, o)) /\ Tables(c.version) = Tables(b.version) \cup o.adds
      /\ c.mem = {} /\ c.imm = <<>> /\ c.bg_error = FALSE
      /\ c.logfile = b.logfile /\ c.next = b.next /\ c.seq = b.seq /\ c.manifest = b.manifest
  <2>1. OpenedAs(b, o, c)
    BY OpenedFacts
  <2> QED
    BY <2>1 DEF OpenedAs
<1>2. /\ Manifest(d).synced = 2 /\ Len(r) = 2 /\ Cutting(d) = {2} /\ Cut(d, 2) = r
      /\ ApplyAll(r) = ApplyEdit(b.version, EditOf(b, o)) /\ TablesOf(r) = Tables(b.version) \cup o.adds
      /\ LogOf(r) = b.logfile /\ NextOf(r) = b.next /\ LastSeqOf(r) = b.seq
  <2>1. r = Manifest(d).recs
    OBVIOUS
  <2> HIDE DEF r
  <2>2. Manifest(d).synced = 2 /\ Len(r) = 2 /\ Cutting(d) = {2} /\ Cut(d, 2) = r
    BY <2>1, NewManifestCurrent
  <2>3. ApplyAll(r) = ApplyEdit(b.version, EditOf(b, o))
    BY <2>1, NewManifestCurrent
  <2>4. TablesOf(r) = Tables(b.version) \cup o.adds
    BY <2>1, NewManifestCurrent
  <2>5. LogOf(r) = b.logfile /\ NextOf(r) = b.next /\ LastSeqOf(r) = b.seq
    BY <2>1, NewManifestCurrent
  <2> QED
    BY <2>2, <2>3, <2>4, <2>5
<1> HIDE DEF r
<1>3. ImmOf(c) = {}
  BY <1>1, NoImm
<1>4. b.logfile \in Nat /\ b.next \in Nat /\ b.seq \in Nat /\ DOMAIN d.logs \subseteq Nat
  BY DEF Databases, DiskTyped, LogsTyped
<1>5. NumbersSound(d, c)
  BY <1>1, <1>2, <1>4 DEF NumbersSound, Recovered
<1>6. SequencesSound(d, c, p, NoGroup)
  BY <1>1, <1>3 DEF SequencesSound, Recovered, LogUpTo
<1>7. \A e \in p : PromiseKept(y, d, c, e)
  BY <1>1 DEF PromiseKept, Recovered
<1>8. CutFollows(d, c, r)
  <2>1. ASSUME NEW t \in Tables(c.version), NEW e \in d.tables[t].data PROVE InTables(d, e, TablesOf(r))
    BY <1>1, <1>2 DEF InTables, Recovered, TableUpTo
  <2>2. LogOf(r) <= c.logfile /\ NextOf(r) <= c.next /\ LastSeqOf(r) <= c.seq
    BY <1>1, <1>2, <1>4
  <2> QED
    BY <2>1, <2>2 DEF CutFollows
<1>9. ManifestCurrent(d, c, "idle")
  BY <1>1, <1>2 DEF ManifestCurrent, r
<1>10. JobsSound(d, c, NoJobs) /\ NoJobs.job.at = "idle"
  BY NoJobsSound
<1> QED
  BY <1>2, <1>5, <1>6, <1>7, <1>8, <1>9, <1>10 DEF UseSound

(* The files that are deleted then are not among what was recovered. *)
LEMMA OpenedFiles ==
  ASSUME NEW d, NEW b \in Databases, NEW o, NEW p, DiskTyped(d), Recovered(d, b, o, p), Fresh(b),
         NewManifestWritten(d, b, o), d.current = b.manifest, NEW c, c = Opened(b, o), NEW f, f = DeleteObsoleteFiles(c, d)
  PROVE  /\ DiskTyped(f) /\ f.current = b.manifest /\ LogEntries(f) \subseteq LogEntries(d)
         /\ Recovered(f, b, o, p) /\ NewManifestWritten(f, b, o)
<1>1. /\ c.log_number = b.logfile /\ Tables(c.version) = Tables(b.version) \cup o.adds /\ c.manifest = b.manifest
  <2>1. OpenedAs(b, o, c)
    BY OpenedFacts
  <2> QED
    BY <2>1 DEF OpenedAs
<1>2. d.current = c.manifest /\ c.log_number \in Nat /\ d.current # 0 /\ b.logfile \in Nat
  BY <1>1 DEF Databases, Recovered
<1>3. /\ DiskTyped(f) /\ f.current = d.current
      /\ d.current # 0 => Manifest(f) = Manifest(d)
      /\ DOMAIN f.logs \subseteq DOMAIN d.logs /\ DOMAIN f.tables \subseteq DOMAIN d.tables
      /\ \A n \in DOMAIN f.logs : f.logs[n] = d.logs[n]
      /\ \A t \in DOMAIN f.tables : f.tables[t] = d.tables[t]
      /\ \A n \in DOMAIN d.logs : n >= c.log_number => n \in DOMAIN f.logs
      /\ \A t \in DOMAIN d.tables : t \in Tables(c.version) => t \in DOMAIN f.tables
  BY <1>2, DeleteFacts
<1> DEFINE T == Tables(b.version) \cup o.adds
<1>4. \A t \in T : t \in DOMAIN d.tables /\ t \in DOMAIN f.tables /\ f.tables[t] = d.tables[t]
  BY <1>1, <1>3 DEF Recovered, TableUpTo
<1>5. /\ \A t \in T : t < b.next /\ TableUpTo(f, t, b.seq)
      /\ \A e \in p : InTables(f, e, T) /\ e.s <= b.seq
  BY <1>4 DEF Recovered, TableUpTo, InTables
<1>6. /\ b.logfile \in DOMAIN f.logs /\ f.logs[b.logfile] = NewLogFile
  BY <1>1, <1>2, <1>3 DEF Recovered
<1>7. \A n \in DOMAIN f.logs : n <= b.logfile /\ LogUpTo(f, n, b.seq)
  BY <1>3 DEF Recovered, LogUpTo
<1>8. Recovered(f, b, o, p)
  BY <1>2, <1>3, <1>5, <1>6, <1>7 DEF Recovered
<1>9. NewManifestWritten(f, b, o)
  <2>1. f.manifests[b.manifest] = d.manifests[b.manifest]
    BY <1>2, <1>3 DEF Manifest
  <2>2. b.manifest \in DOMAIN f.manifests
    BY <1>2, <1>3 DEF DiskTyped, ManifestsTyped
  <2> QED
    BY <2>1, <2>2 DEF NewManifestWritten
<1>10. LogEntries(f) \subseteq LogEntries(d)
  BY <1>3 DEF LogEntries
<1> QED
  BY <1>3, <1>8, <1>9, <1>10

(* DB::Open returns the object. *)
LEMMA FinishOpenKeeps ==
  ASSUME DBInv, FinishOpen
  PROVE  DBInv'
<1>1. db.state = "opening" /\ opening.at = "finish" /\ UNCHANGED <<mode, bg, queue, pc, group, promised>>
  BY DEF FinishOpen, At, Idle
<1>2. /\ OpeningSound(disk, db, opening, promised) /\ DiskTyped(disk) /\ db \in Databases /\ Fresh(db)
  BY <1>1, OpeningFacts
<1>3. Recovered(disk, db, opening, promised) /\ disk.current = db.manifest /\ NewManifestWritten(disk, db, opening)
  BY <1>1, <1>2 DEF OpeningSound
<1>4. PICK c : c = Opened(db, opening)
  OBVIOUS
<1>5. db' = MaybeScheduleCompaction(c) /\ disk' = DeleteObsoleteFiles(c, disk)
  <2>1. FirstEdit = EditOf(db, opening)
    BY DEF FirstEdit, EditOf
  <2> QED
    BY <1>4, <2>1 DEF FinishOpen, Opened
<1>6. PICK f, x : f = disk' /\ x = db'
  OBVIOUS
<1>7. /\ DiskTyped(f) /\ f.current = db.manifest /\ LogEntries(f) \subseteq LogEntries(disk)
      /\ Recovered(f, db, opening, promised) /\ NewManifestWritten(f, db, opening)
  BY <1>2, <1>3, <1>4, <1>5, <1>6, OpenedFiles
<1>8. DiskSound(Syncing, f, promised)
  BY <1>2, <1>7, NewManifestCurrent
<1>9. UseSound(Syncing, f, c, NoJobs, promised, NoGroup)
  BY <1>2, <1>4, <1>7, OpenedUse
<1>10. c \in Databases /\ c.state = "open" /\ c.mem = {} /\ c.imm = <<>> /\ c.manual = None
  <2>1. c \in Databases /\ OpenedAs(db, opening, c)
    BY <1>2, <1>3, <1>4, OpenedFacts
  <2> QED
    BY <2>1 DEF OpenedAs
<1>11. x \in Databases /\ SameStore(c, x) /\ x.state = c.state /\ x.manual = c.manual
  BY <1>5, <1>6, <1>10, ScheduleFacts
<1>12. x.mem = {} /\ x.imm = <<>>
  BY <1>10, <1>11 DEF SameStore
<1>13. UseSound(Syncing, f, x, NoJobs, promised, NoGroup)
  BY <1>9, <1>11, UseFrame, NoJobsSound
<1> QED
  BY <1>1, <1>6, <1>7, <1>8, <1>10, <1>11, <1>12, <1>13, OpeningStep

(* The destructor starts: nobody is inside. *)
LEMMA BeginCloseKeeps ==
  ASSUME DBInv, BeginClose
  PROVE  DBInv'
<1>1. /\ db.state = "open" /\ (\A w \in Writers : pc[w] \in Resting)
      /\ db' = [db EXCEPT !.state = "closing", !.shutting_down = TRUE]
      /\ UNCHANGED <<mode, disk, opening, bg, queue, pc, group, promised>>
  BY DEF BeginClose, Resting
<1>2. /\ db' \in Databases /\ db'.state = "closing" /\ db'.shutting_down = TRUE /\ SameStore(db, db')
      /\ db'.scheduled = db.scheduled /\ db'.manual = db.manual
  BY <1>1, DBTyped DEF Databases, SameStore
<1>3. Syncing' = Syncing
  BY <1>1, SameSync
<1>4. UseSound(Syncing, disk, db, bg, promised, group) /\ (bg.job # NoJob => db.scheduled = TRUE)
  BY <1>1, JobsFacts DEF DBInv, PhasesSound, InUse
<1>5. UseSound(Syncing, disk, db', bg, promised, group)
  BY <1>2, <1>4, UseFrame
<1>6. Typed'
  BY <1>1, <1>2, DBTyped DEF Typed
<1>7. QueueSound'
  BY <1>1, DBTyped DEF QueueSound
<1>8. CallsSound'
  BY <1>1, <1>2, DBTyped DEF CallsSound
<1>9. GroupsSound'
  BY <1>1, <1>2 DEF GroupsSound, DBInv
<1>10. PhasesSound'
  BY <1>1, <1>2, <1>3, <1>5 DEF PhasesSound, InUse
<1>11. UniqueSequences'
  <2>1. db'.mem = db.mem /\ ImmOf(db') = ImmOf(db)
    BY <1>2 DEF SameStore, ImmOf
  <2> QED
    BY <1>1, <2>1 DEF DBInv, UniqueSequences
<1>12. DiskSound(Syncing, disk, promised)'
  BY <1>1, <1>3 DEF DBInv
<1> QED
  BY <1>6, <1>7, <1>8, <1>9, <1>10, <1>11, <1>12 DEF DBInv

(* The object is gone, with its files, its writers and its jobs at rest. *)
LEMMA GoneKeeps ==
  ASSUME DBInv, UNCHANGED mode, db' = Closed, bg' = NoJobs, group' = NoGroup,
         queue' \in Seq(Writers), pc' \in [Writers -> Resting], QueueSound',
         promised' \subseteq promised, DiskTyped(disk'), DiskSound(Syncing, disk', promised'),
         LogEntries(disk') \subseteq LogEntries(disk)
  PROVE  DBInv'
<1>1. Syncing' = Syncing
  BY SameSync
<1>2. (\A w \in Writers : pc'[w] \in Resting /\ pc'[w] \notin InGroup)
  BY DEF Resting, InGroup
<1>3. db' \in Databases /\ db'.state = "closed" /\ db'.mem = {} /\ db'.imm = <<>> /\ db'.manual = None
  BY ClosedFacts
<1>4. Typed'
  <2>1. pc' \in [Writers -> Places]
    BY DEF Places
  <2> QED
    BY <1>3, <2>1, DBTyped DEF Typed
<1>5. DiskSound(Syncing, disk, promised)'
  BY <1>1
<1>6. CallsSound'
  BY <1>2, <1>3 DEF CallsSound
<1>7. GroupsSound'
  BY <1>3, EmptyGroupSound DEF GroupsSound
<1>8. PhasesSound'
  BY <1>3 DEF PhasesSound, InUse
<1>9. UniqueSequences'
  <2>1. ImmOf(db') = {} /\ group'.entries = {}
    BY <1>3, NoImm, EmptyGroupSound
  <2> QED
    BY <1>3, <2>1 DEF DBInv, UniqueSequences, Unique
<1> QED
  BY <1>4, <1>5, <1>6, <1>7, <1>8, <1>9 DEF DBInv

(* The destructor ends once no job is left. *)
LEMMA CloseDoneKeeps ==
  ASSUME DBInv, CloseDone
  PROVE  DBInv'
<1>1. /\ db.state = "closing" /\ ~ db.scheduled /\ db' = Closed
      /\ UNCHANGED <<mode, disk, bg, queue, pc, group, promised>>
  BY DEF CloseDone
<1>2. (\A w \in Writers : pc[w] \in Resting) /\ group = NoGroup
  BY <1>1, NobodyInside
<1>3. bg = NoJobs
  <2>1. InUse(db)
    BY <1>1 DEF InUse
  <2>2. bg.job = NoJob /\ bg.outer = NoJob
    BY <1>1, <2>1, JobsFacts
  <2>3. bg = [job |-> bg.job, outer |-> bg.outer]
    BY <2>1 DEF DBInv, PhasesSound, UseSound, JobsSound, JobsShaped
  <2> QED
    BY <2>2, <2>3 DEF NoJobs
<1>4. pc \in [Writers -> Resting] /\ queue \in Seq(Writers) /\ QueueSound
  BY <1>2, DBTyped
<1>5. QueueSound'
  BY <1>1, <1>4 DEF QueueSound
<1>6. DiskTyped(disk) /\ DiskSound(Syncing, disk, promised)
  BY DBTyped DEF DBInv
<1> QED
  BY <1>1, <1>2, <1>3, <1>4, <1>5, <1>6, GoneKeeps

(* What a machine leaves of the logs was there. *)
LEMMA MachineCrashLogs ==
  ASSUME NEW d, DiskTyped(d), NEW f \in AfterMachineCrash(d)
  PROVE  LogEntries(f) \subseteq LogEntries(d)
<1>1. DOMAIN f.logs = DOMAIN d.logs /\ \A n \in DOMAIN d.logs : \E k : CutFile(d.logs[n], f.logs[n], k)
  BY MachineCrashFacts
<1>2. ASSUME NEW n \in DOMAIN d.logs PROVE ToSet(f.logs[n].recs) \subseteq ToSet(d.logs[n].recs)
  <2>1. PICK k : CutFile(d.logs[n], f.logs[n], k)
    BY <1>1
  <2>2. d.logs[n].recs \in Seq(Records)
    BY LogTyped
  <2> DEFINE s == d.logs[n].recs
             t == SubSeq(s, 1, k)
  <2>3. f.logs[n].recs = t /\ k \in Nat /\ k <= Len(s)
    BY <2>1 DEF CutFile
  <2>4. DOMAIN t = 1 .. k /\ \A i \in 1 .. k : t[i] = s[i] /\ i \in DOMAIN s
    BY <2>2, <2>3
  <2> HIDE DEF s, t
  <2>5. ToSet(t) \subseteq ToSet(s)
    BY <2>4 DEF ToSet
  <2> QED
    BY <2>3, <2>5 DEF s
<1> QED
  BY <1>1, <1>2 DEF LogEntries

(* The process dies, alone or with the machine. *)
LEMMA CrashKeeps ==
  ASSUME DBInv, NEW kind, Crash(kind)
  PROVE  DBInv'
<1>1. /\ UNCHANGED mode /\ db' = Closed /\ bg' = NoJobs /\ group' = NoGroup /\ queue' = <<>>
      /\ pc' = [w \in Writers |-> IF pc[w] \in {"idle", "done"} THEN pc[w] ELSE "dead"]
  BY DEF Crash, NoJobs
<1>2. queue' \in Seq(Writers) /\ pc' \in [Writers -> Resting] /\ DOMAIN queue' = {}
  BY <1>1 DEF Resting
<1>3. QueueSound'
  BY <1>2 DEF QueueSound, Resting, InQueue
<1>4. DiskTyped(disk) /\ DiskSound(Syncing, disk, promised) /\ promised \subseteq Entries
  BY DBTyped DEF DBInv, Typed
<1>5. /\ promised' \subseteq promised /\ DiskTyped(disk') /\ DiskSound(Syncing, disk', promised')
      /\ LogEntries(disk') \subseteq LogEntries(disk)
  <2>1. CASE kind = "machine"
    <3>1. disk' \in AfterMachineCrash(disk) /\ promised' = {e \in promised : Sync(e.w)}
      BY <2>1 DEF Crash
    <3>2. promised' = {e \in promised : e.w \in Syncing}
      BY <1>4, <3>1 DEF Syncing, Entries
    <3>3. DiskTyped(disk') /\ LogEntries(disk') \subseteq LogEntries(disk)
      BY <1>4, <3>1, MachineCrashTyped, MachineCrashLogs
    <3>4. DiskSound(Syncing, disk', {e \in promised : e.w \in Syncing})
      BY <1>4, <3>1, MachineCrashSound
    <3> QED
      BY <3>2, <3>3, <3>4
  <2>2. CASE kind # "machine"
    BY <1>4, <2>2 DEF Crash
  <2> QED
    BY <2>1, <2>2
<1> QED
  BY <1>1, <1>2, <1>3, <1>5, GoneKeeps

(* The invariant holds of the empty directory. *)
LEMMA DBStarts == Init => DBInv
<1> SUFFICES ASSUME Init PROVE DBInv
  OBVIOUS
<1>1. /\ mode \in Modes /\ db = Closed /\ bg = NoJobs /\ queue = <<>> /\ pc = [w \in Writers |-> "idle"]
      /\ group = NoGroup /\ promised = {}
      /\ disk = [current |-> 0, manifests |-> << >>, logs |-> << >>, tables |-> << >>]
  BY DEF Init, NoJobs
<1>2. /\ DOMAIN disk = {"current", "manifests", "logs", "tables"} /\ disk.current = 0
      /\ DOMAIN disk.manifests = {} /\ DOMAIN disk.logs = {} /\ DOMAIN disk.tables = {}
  BY <1>1
<1>3. DiskTyped(disk)
  BY <1>2 DEF DiskTyped, LogsTyped, ManifestsTyped, TablesTyped
<1>4. db \in Databases /\ db.state = "closed" /\ db.mem = {} /\ db.imm = <<>> /\ db.manual = None
  BY <1>1, ClosedFacts
<1>5. DOMAIN queue = {} /\ queue \in Seq(Writers) /\ \A w \in Writers : pc[w] = "idle"
  BY <1>1
<1>6. pc \in [Writers -> Places]
  BY <1>1 DEF Places, Resting
<1>7. Typed
  BY <1>1, <1>3, <1>4, <1>5, <1>6 DEF Typed
<1>8. DiskSound(Syncing, disk, promised)
  BY <1>1, <1>2 DEF DiskSound
<1>9. QueueSound
  BY <1>5 DEF QueueSound, InQueue
<1>10. CallsSound
  BY <1>4, <1>5 DEF CallsSound, Resting
<1>11. GroupsSound
  BY <1>1, <1>4 DEF GroupsSound
<1>12. PhasesSound
  BY <1>1, <1>4 DEF PhasesSound, InUse
<1>13. UniqueSequences
  <2>1. ImmOf(db) = {} /\ group.entries = {} /\ LogEntries(disk) = {}
    BY <1>1, <1>2, <1>4, NoImm, EmptyGroupSound DEF LogEntries
  <2> QED
    BY <1>1, <1>4, <2>1 DEF UniqueSequences, Unique
<1> QED
  BY <1>7, <1>8, <1>9, <1>10, <1>11, <1>12, <1>13 DEF DBInv

(* No step breaks it. *)
LEMMA DBStep ==
  ASSUME DBInv, [Next]_vars, [~ GivesUp]_vars
  PROVE  DBInv'
<1>1. CASE UNCHANGED vars
  BY <1>1, Unmoved DEF vars
<1> SUFFICES ASSUME ~ GivesUp, Next PROVE DBInv'
  BY <1>1
<1>2. CASE Opening
  BY <1>2, OpenKeeps, NewManifestKeeps, NewCurrentKeeps, RecoverVersionsKeeps, RecoverLogFileKeeps, CreateFirstLogKeeps,
     WriteNewManifestKeeps, SetCurrentFileKeeps, FinishOpenKeeps DEF Opening
<1>3. CASE Background
  BY <1>3, StartFlushKeeps, StartMergeKeeps, NothingToDoKeeps, BuildTableKeeps, JobFailedKeeps, LogEditKeeps,
     InstallVersionKeeps DEF Background
<1>4. CASE BeginClose \/ Closing
  BY <1>4, BeginCloseKeeps, CloseWaitKeeps, CloseDoneKeeps DEF Closing
<1>5. ASSUME NEW w \in Writers, CallWrite(w) \/ Writing(w) PROVE DBInv'
  BY <1>5, CallWriteKeeps, RefuseWriteKeeps, WaitForRoomKeeps, SwitchMemTableKeeps, ReturnFromFlushKeeps, StartGroupKeeps,
     AddRecordKeeps, SyncLogKeeps, ApplyGroupKeeps, FlushWaitKeeps, ManualWaitKeeps, ManualReturnKeeps DEF Writing
<1>6. ASSUME NEW kind \in {"process", "machine"}, Crash(kind) PROVE DBInv'
  BY <1>6, CrashKeeps
<1> QED
  BY <1>2, <1>3, <1>4, <1>5, <1>6 DEF Next

-----------------------------------------------------------------------------
(***************************************************************************)
(* The theorems.                                                           *)
(***************************************************************************)

(* The inductive invariant: the types of the state, what every prefix of    *)
(* the manifest that a crash may leave names and holds, the queue and its   *)
(* group, and what an opening, an open database and its background jobs     *)
(* have done so far.  It holds until a step of GivesUp.                     *)
THEOREM DatabaseInvariant == Spec /\ [][~ GivesUp]_vars => []DBInv
<1>1. Init => DBInv
  BY DBStarts
<1>2. DBInv /\ [Next]_vars /\ [~ GivesUp]_vars => DBInv'
  BY DBStep
<1> QED
  BY <1>1, <1>2, PTL DEF Spec

(* Acknowledged writes survive: a process that dies at any step leaves them *)
(* in the files, a machine that stops leaves those that asked for sync,     *)
(* whatever became of unsynced files, in every behaviour without a step of  *)
(* GivesUp: these two steps of the code are the only ones that lose any.    *)
THEOREM AcknowledgedSurvive == Spec /\ [][~ GivesUp]_vars => []AckedSurviveCrash
<1>1. DBInv => AckedSurviveCrash
  <2> SUFFICES ASSUME DBInv PROVE AckedSurviveCrash
    OBVIOUS
  <2>1. DiskTyped(disk) /\ DiskSound(Syncing, disk, promised) /\ promised \subseteq Entries
    BY DBTyped DEF DBInv, Typed
  <2>2. promised \subseteq Contents(disk)
    BY <2>1, ContentsHold
  <2>3. ASSUME NEW d \in AfterMachineCrash(disk) PROVE {e \in promised : Sync(e.w)} \subseteq Contents(d)
    <3> DEFINE q == {e \in promised : e.w \in Syncing}
    <3>1. {e \in promised : Sync(e.w)} = q
      BY <2>1 DEF Syncing, Entries
    <3>2. DiskTyped(d) /\ DiskSound(Syncing, d, q)
      BY <2>1, MachineCrashTyped, MachineCrashSound
    <3> HIDE DEF q
    <3>3. q \subseteq Contents(d)
      BY <3>2, ContentsHold
    <3> QED
      BY <3>1, <3>3
  <2> QED
    BY <2>2, <2>3 DEF AckedSurviveCrash
<1> QED
  BY <1>1, DatabaseInvariant, PTL

(* Acknowledged writes are visible: every one is in a memtable or a table   *)
(* of the version an open database reads, at a sequence number not above    *)
(* the one reads start from, as long as no step gives one up.               *)
THEOREM AcknowledgedVisible == Spec /\ [][~ GivesUp]_vars => []AckedAreVisible
<1>1. DBInv => AckedAreVisible
  <2> SUFFICES ASSUME DBInv, db.state = "open", NEW e \in promised
               PROVE  e \in db.mem \cup ImmEntries \cup EntriesOf(disk, Tables(db.version)) /\ e.s <= db.seq
    BY DEF AckedAreVisible
  <2>1. UseSound(Syncing, disk, db, bg, promised, group)
    BY DEF DBInv, PhasesSound, InUse
  <2>2. PromiseKept(Syncing, disk, db, e) /\ e.s <= db.seq
    BY <2>1 DEF UseSound, SequencesSound
  <2>3. ImmEntries = ImmOf(db)
    BY DEF ImmEntries, ImmOf
  <2>4. InTables(disk, e, Tables(db.version)) => e \in EntriesOf(disk, Tables(db.version))
    BY DEF InTables, EntriesOf
  <2> QED
    BY <2>2, <2>3, <2>4 DEF PromiseKept
<1> QED
  BY <1>1, DatabaseInvariant, PTL

(* Sequence numbers are unique: two batches never get one number, even when *)
(* one of them failed after its record was written and a recovery brings it *)
(* back, as long as no acknowledged one is given up.                        *)
THEOREM UniqueNumbers == Spec /\ [][~ GivesUp]_vars => []SequencesUnique
<1>1. DBInv => SequencesUnique
  <2>1. AllEntries \cup promised = db.mem \cup ImmOf(db) \cup LogEntries(disk) \cup promised
    BY DEF AllEntries, ImmEntries, ImmOf, LogEntries
  <2> QED
    BY <2>1 DEF DBInv, UniqueSequences, Unique, SequencesUnique
<1> QED
  BY <1>1, DatabaseInvariant, PTL
=============================================================================
