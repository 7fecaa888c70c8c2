-------------------------------- MODULE LSM --------------------------------
(***************************************************************************)
(* The levels of table files and how compactions rewrite them:             *)
(* version_set.cc, the background half of db_impl.cc, snapshot.h.          *)
(*                                                                         *)
(* An entry is a user key, a sequence number and a type.  A table file is  *)
(* its number and its entries; its size is their count.  Builder sorts the *)
(* files of a level by their smallest entry, so a level is a set and its   *)
(* order that of BySmallestKey.  Versions are immutable and counted,       *)
(* readers and the running compaction hold one.                            *)
(* The background thread is the only one that installs versions, so its    *)
(* long calls are single steps except for the compaction, during which it  *)
(* flushes memtables.  mem is flushed as it is: the switch to imm_ and the *)
(* log are the subject of module DBImpl.                                   *)
(***************************************************************************)
EXTENDS Integers, Sequences, FiniteSets, FiniteSetsExt

CONSTANTS
    UserKeys,                  \* 1 .. n
    kNumLevels, kL0_CompactionTrigger,
    MaxBytesForLevel,          \* the size at which a level >= 1 is compacted
    kMaxGrandParentOverlapBytes,
    kExpandedCompactionByteSizeLimit,
    kAllowedSeeks,             \* reads a file survives before a compaction
    Readers,                   \* iterators
    Modes,                     \* what a behaviour uses: see Init
    MaxWrites, MaxFiles, MaxSnapshots       \* bounds

kMaxMemCompactLevel(m) == m.mem_level

ASSUME LSMConstants ==
    /\ IsFiniteSet(UserKeys) /\ UserKeys = 1 .. Cardinality(UserKeys)
    /\ kNumLevels \in Nat /\ kNumLevels >= 2 /\ MaxWrites \in Nat /\ IsFiniteSet(Readers)
    /\ \A m \in Modes :
          /\ kMaxMemCompactLevel(m) \in 0 .. kNumLevels - 2
          /\ m.max_file_size \in Nat \ {0} /\ m.writes \in 0 .. MaxWrites
    /\ \A n \in {kL0_CompactionTrigger, MaxBytesForLevel, kAllowedSeeks} : n \in Nat \ {0}

VARIABLES
    mode,             \* the features a behaviour uses, the size of its output files
    last_sequence, mem,
    history,          \* the writes a read may still have to find
    versions,         \* the list of versions: files, references, file_to_compact_
    current,          \* VersionSet.current_
    seeks,            \* FileMetaData.allowed_seeks, by file number
    compact_pointer,  \* per level, the largest entry compacted last
    next_file_number,
    disk,             \* the table files that exist
    pending_outputs,
    compaction,       \* the compaction in progress, or Idle
    snapshots,        \* sequence numbers of the snapshot list
    reader,           \* per iterator: the version it holds, or 0
    bg_error

vars == <<mode, last_sequence, mem, history, versions, current, seeks, compact_pointer, next_file_number,
          disk, pending_outputs, compaction, snapshots, reader, bg_error>>

Levels == 0 .. kNumLevels - 1
Idle == [level |-> -1]
NoFile == [number |-> 0]
NoEntry == [k |-> 0, s |-> 0, t |-> "none"]
kTypeValue == "value"
kTypeDeletion == "deletion"

(* InternalKeyComparator: by user key, newest first. *)
Before(a, b) == a.k < b.k \/ (a.k = b.k /\ a.s > b.s)
FirstEntry(es) == CHOOSE e \in es : \A o \in es : ~ Before(o, e)
LastEntry(es) == CHOOSE e \in es : \A o \in es : ~ Before(e, o)
EarliestOf(k) == [k |-> k, s |-> MaxWrites + 1, t |-> kTypeValue]

NewFile(number, data) ==
    [number |-> number, data |-> data, smallest |-> FirstEntry(data), largest |-> LastEntry(data)]
TotalFileSize(fs) == Cardinality(UNION {{f.number} \X f.data : f \in fs})

BySmallestKey(a, b) ==
    Before(a.smallest, b.smallest) \/ (~ Before(b.smallest, a.smallest) /\ a.number < b.number)
First(fs) == CHOOSE f \in fs : \A g \in fs \ {f} : BySmallestKey(f, g)

-----------------------------------------------------------------------------
(* Searching a version. *)
FindFile(fs, key) ==
    LET reach == {f \in fs : ~ Before(f.largest, key)} IN IF reach = {} THEN NoFile ELSE First(reach)

Overlaps(f, lo, hi) == f.largest.k >= lo /\ f.smallest.k <= hi

(* SomeFileOverlapsRange: all files of level 0, a binary search elsewhere. *)
OverlapInLevel(v, level, lo, hi) ==
    LET f == FindFile(v.files[level], EarliestOf(lo))
    IN IF level = 0 THEN \E g \in v.files[0] : Overlaps(g, lo, hi) ELSE f # NoFile /\ hi >= f.smallest.k

(* GetOverlappingInputs.  In level 0 a file that sticks out of the range    *)
(* widens it and the search is restarted, which ends at the least range     *)
(* that no file of the level sticks out of.                                 *)
InputsBetween(v, level, lo, hi) == {f \in v.files[level] : Overlaps(f, lo, hi)}
Settled(v, r) == \A f \in InputsBetween(v, 0, r[1], r[2]) : r[1] <= f.smallest.k /\ f.largest.k <= r[2]
SettledRanges(v, lo, hi) == {r \in UserKeys \X UserKeys : r[1] <= lo /\ hi <= r[2] /\ Settled(v, r)}
Widened(v, lo, hi) ==
    CHOOSE r \in SettledRanges(v, lo, hi) : \A o \in SettledRanges(v, lo, hi) : o[1] <= r[1] /\ r[2] <= o[2]
GetOverlappingInputsOnce(v, level, lo, hi) == InputsBetween(v, level, lo, hi)     \* the range is never widened
GetOverlappingInputs(v, level, lo, hi) ==
    LET r == IF level = 0 THEN Widened(v, lo, hi) ELSE <<lo, hi>> IN InputsBetween(v, level, r[1], r[2])

(* The files Version::Get opens for a key, and their order: newest first in *)
(* level 0, then the one file of each level that may have the key.          *)
FilesFor(v, key, k) ==
    {[file |-> f, level |-> 0] : f \in InputsBetween(v, 0, k, k)}
        \cup {c \in {[file |-> FindFile(v.files[l], key), level |-> l] : l \in Levels \ {0}} :
                 c.file # NoFile /\ k >= c.file.smallest.k}
Earlier(a, b) == a.level < b.level \/ (a.level = b.level /\ a.file.number > b.file.number)
FirstOf(cs) == CHOOSE a \in cs : \A b \in cs \ {a} : Earlier(a, b)

(* Table::InternalGet and SaveValue: the first entry at or after the key,   *)
(* if it is one of the user key.                                            *)
SaveValue(f, key) ==
    LET rest == {e \in f.data : ~ Before(e, key)}
    IN IF rest # {} /\ FirstEntry(rest).k = key.k THEN FirstEntry(rest) ELSE NoEntry
LookupKey(k, s) == [k |-> k, s |-> s, t |-> kTypeValue]

(* The files are read in order until one answers; when more than one was    *)
(* read the first is charged.                                               *)
Answers(c, key) == SaveValue(c.file, key) # NoEntry
NoCharge == [file |-> NoFile, level |-> -1]
ReadInOrder(cs, key) ==
    LET answers == {c \in cs : Answers(c, key)}
    IN [entry  |-> IF answers = {} THEN NoEntry ELSE SaveValue(FirstOf(answers).file, key),
        charge |-> IF Cardinality(cs) > 1 /\ ~ Answers(FirstOf(cs), key) THEN FirstOf(cs) ELSE NoCharge]
VersionGet(v, k, s) == ReadInOrder(FilesFor(v, LookupKey(k, s), k), LookupKey(k, s))

MemGet(m, k, s) ==
    LET es == {e \in m : e.k = k /\ e.s <= s}
    IN IF es = {} THEN NoEntry ELSE CHOOSE e \in es : \A o \in es : o.s <= e.s

-----------------------------------------------------------------------------
(* Versions. *)
EmptyVersion == [files |-> [l \in Levels |-> {}], refs |-> 1, file_to_compact |-> NoCharge]
Current == versions[current]

Ref(vs, id) == [vs EXCEPT ![id].refs = @ + 1]
Unref(vs, id) ==
    IF vs[id].refs = 1 THEN [i \in DOMAIN vs \ {id} |-> vs[i]] ELSE [vs EXCEPT ![id].refs = @ - 1]

(* Builder::Apply and SaveTo: the files of each level. *)
Edited(v, deleted, added) ==
    [l \in Levels |->
        {f \in v.files[l] : <<l, f.number>> \notin deleted} \cup {a[2] : a \in {a \in added : a[1] = l}}]

(* LogAndApply: the new version is made current, the old one loses a        *)
(* reference.  vs is the list after the caller's own references.            *)
NewId(vs) == Min((1 .. Cardinality(DOMAIN vs) + 1) \ DOMAIN vs)
LogAndApply(vs, deleted, added) ==
    LET id == NewId(vs)
        v == [EmptyVersion EXCEPT !.files = Edited(vs[current], deleted, added)]
        numbers == {a[2].number : a \in added}
    IN /\ versions' = Unref([i \in DOMAIN vs \cup {id} |-> IF i = id THEN v ELSE vs[i]], current)
       /\ current' = id
       /\ seeks' = [n \in DOMAIN seeks \cup numbers |-> IF n \in numbers THEN kAllowedSeeks ELSE seeks[n]]

FilesOf(v) == UNION {v.files[l] : l \in Levels}
AddLiveFiles(vs) == {f.number : f \in UNION {FilesOf(vs[i]) : i \in DOMAIN vs}}
DeleteObsoleteFilesForgetsPending(files, pending) == files \cap AddLiveFiles(versions')
DeleteObsoleteFiles(files, pending) == files \cap (pending \cup AddLiveFiles(versions'))

(* Finalize: scores in units of 1 / (trigger * size limit). *)
Score(v, level) ==
    IF level = 0 THEN Cardinality(v.files[0]) * MaxBytesForLevel ELSE TotalFileSize(v.files[level]) * kL0_CompactionTrigger
CompactionLevel(v) ==
    Min({l \in 0 .. kNumLevels - 2 : \A o \in 0 .. kNumLevels - 2 : Score(v, o) <= Score(v, l)})
SizeCompaction(v) == Score(v, CompactionLevel(v)) >= kL0_CompactionTrigger * MaxBytesForLevel
SeekCompaction(v) == v.file_to_compact.file # NoFile
NeedsCompaction == SizeCompaction(Current) \/ SeekCompaction(Current)

-----------------------------------------------------------------------------
(* Choosing the inputs of a compaction. *)
GetRange(fs) == [smallest |-> FirstEntry({f.smallest : f \in fs}), largest |-> LastEntry({f.largest : f \in fs})]
InRange(v, level, fs) == GetOverlappingInputs(v, level, GetRange(fs).smallest.k, GetRange(fs).largest.k)

(* The inputs of the level are widened if that brings in none of the next. *)
MayExpand(v, level, inputs0, inputs1, expanded0) ==
    /\ inputs1 # {} /\ Cardinality(expanded0) > Cardinality(inputs0)
    /\ TotalFileSize(inputs1) + TotalFileSize(expanded0) < kExpandedCompactionByteSizeLimit
    /\ Cardinality(InRange(v, level + 1, expanded0)) = Cardinality(inputs1)
Widest(v, level, inputs0, inputs1, expanded0) ==
    IF MayExpand(v, level, inputs0, inputs1, expanded0) THEN expanded0 ELSE inputs0
Expanded(v, level, inputs0, inputs1) ==
    Widest(v, level, inputs0, inputs1, InRange(v, level, inputs0 \cup inputs1))
CompactionOf(v, level, in0, in1) ==
    [level |-> level, in0 |-> in0, in1 |-> in1, pointer |-> GetRange(in0).largest,
     grandparents |-> IF level + 2 < kNumLevels THEN InRange(v, level + 2, in0 \cup in1) ELSE {}]
WithNextLevel(v, level, in0) == CompactionOf(v, level, in0, InRange(v, level + 1, in0))
SetupOtherInputs(v, level, inputs0) ==
    WithNextLevel(v, level, Expanded(v, level, inputs0, InRange(v, level + 1, inputs0)))

(* The first file behind the compaction pointer of the level, or the file   *)
(* that was charged with seeks.                                             *)
FileToCompact(v, level) ==
    LET fs == v.files[level]
        after == {f \in fs : compact_pointer[level] = NoEntry \/ Before(compact_pointer[level], f.largest)}
    IN IF SizeCompaction(v) THEN First(IF after = {} THEN fs ELSE after) ELSE v.file_to_compact.file
InputsFor(v, level, file) == SetupOtherInputs(v, level, IF level = 0 THEN InRange(v, 0, {file}) ELSE {file})
PickInLevel(v, level) == InputsFor(v, level, FileToCompact(v, level))
PickCompaction(v) == PickInLevel(v, IF SizeCompaction(v) THEN CompactionLevel(v) ELSE v.file_to_compact.level)

(* VersionSet::CompactRange: above level 0 no more than one output file's   *)
(* worth of inputs.                                                         *)
CompactRange(v, level, lo, hi) ==
    LET fs == GetOverlappingInputs(v, level, lo, hi)
        AheadOf(f) == {g \in fs : BySmallestKey(g, f)}
    IN SetupOtherInputs(v, level,
           IF level = 0 THEN fs ELSE {f \in fs : TotalFileSize(AheadOf(f)) < mode.max_file_size})

IsTrivialMove(c) ==
    Cardinality(c.in0) = 1 /\ c.in1 = {} /\ TotalFileSize(c.grandparents) <= kMaxGrandParentOverlapBytes

-----------------------------------------------------------------------------
(* DoCompactionWork: the loop over the merged inputs. *)
IsBaseLevelForKeyNext(v, c, k) ==                 \* looks at the next level only
    ~ OverlapInLevel(v, c.level + 1, k, k)
IsBaseLevelForKey(v, c, k) ==
    \A l \in c.level + 2 .. kNumLevels - 1 :
        LET far == {f \in v.files[l] : k <= f.largest.k}
        IN far = {} \/ k < First(far).smallest.k

(* ShouldStopBefore: how far the output has run over the grandparents. *)
PassGrandparents(w, e) ==
    LET passed == {f \in w.grandparents :
                      \A g \in w.grandparents : g = f \/ BySmallestKey(g, f) => Before(g.largest, e)}
        bytes == IF w.seen THEN TotalFileSize(passed) ELSE 0
        full == w.overlapped + bytes > kMaxGrandParentOverlapBytes
    IN [w EXCEPT !.grandparents = @ \ passed, !.seen = TRUE,
                 !.overlapped = IF full THEN 0 ELSE @ + bytes, !.stop = full]

FinishOutput(w) == IF w.builder = {} THEN w ELSE [w EXCEPT !.outputs = Append(@, w.builder), !.builder = {}]

DropIgnoresSnapshots(v, c, w, e, first) ==         \* hidden entries go, whoever may still read them
    ~ first \/ (e.t = kTypeDeletion /\ IsBaseLevelForKey(v, c, e.k))
Drop(v, c, w, e, first) ==
    \/ ~ first /\ w.last_sequence <= c.smallest_snapshot
    \/ /\ e.t = kTypeDeletion /\ e.s <= c.smallest_snapshot
       /\ IsBaseLevelForKey(v, c, e.k)

(* One entry: the output is cut before it, it is added unless dropped, and  *)
(* a full output is finished.                                               *)
CutBefore(w) == IF w.stop THEN FinishOutput(w) ELSE w
AddUnless(dropped, w, e) == IF dropped THEN w ELSE [w EXCEPT !.builder = @ \cup {e}]
CutIfFull(w) == IF Cardinality(w.builder) >= mode.max_file_size THEN FinishOutput(w) ELSE w
CompactEntry(v, c, w, e) ==
    [CutIfFull(AddUnless(Drop(v, c, w, e, w.user_key # e.k), CutBefore(PassGrandparents(w, e)), e))
        EXCEPT !.input = @ \ {e}, !.user_key = e.k, !.last_sequence = e.s]

(* The merged inputs are read in the order of their entries. *)
NewWork(c, input) ==
    [input |-> input, outputs |-> <<>>, builder |-> {}, user_key |-> 0, last_sequence |-> -1,
     grandparents |-> c.grandparents, seen |-> FALSE, overlapped |-> 0, stop |-> FALSE]
CompactNext(v, c, w) == CompactEntry(v, c, w, FirstEntry(w.input))
Outputs(v, c) ==
    LET input == UNION {f.data : f \in c.in0 \cup c.in1}
        Work[n \in 0 .. Cardinality(input)] ==
            IF n = 0 THEN NewWork(c, input) ELSE CompactNext(v, c, Work[n - 1])
    IN FinishOutput(Work[Cardinality(input)]).outputs

-----------------------------------------------------------------------------
(* A mode says which of deletions, snapshots, iterators, seek statistics,   *)
(* compactions by hand and memtables that fill up during compactions a      *)
(* behaviour uses, its number of writes (a bound), how many entries an      *)
(* output file of a compaction takes and how deep a memtable may be flushed. *)
Uses(feature) == feature \in mode.uses

Init ==
    /\ mode \in Modes
    /\ last_sequence = 0 /\ mem = {} /\ history = {}
    /\ versions = [i \in {1} |-> EmptyVersion] /\ current = 1 /\ seeks = [n \in {} |-> 0]
    /\ compact_pointer = [l \in Levels |-> NoEntry]
    /\ next_file_number = 1 /\ disk = {} /\ pending_outputs = {}
    /\ compaction = Idle /\ snapshots = {} /\ reader = [r \in Readers |-> 0]
    /\ bg_error = FALSE

(* The entries a read now, or at a snapshot that is held, can return. *)
Visible(es, now, snaps) == {MemGet(es, k, s) : k \in UserKeys, s \in snaps \cup {now}} \ {NoEntry}

Write(k, t) ==
    LET e == [k |-> k, s |-> last_sequence + 1, t |-> t]
    IN /\ last_sequence < mode.writes /\ ~ bg_error /\ (t = kTypeDeletion => Uses("deletions"))
       /\ last_sequence' = last_sequence + 1
       /\ mem' = mem \cup {e} /\ history' = Visible(history \cup {e}, last_sequence', snapshots)
       /\ UNCHANGED <<mode, versions, current, seeks, compact_pointer, next_file_number, disk, pending_outputs,
                      compaction, snapshots, reader, bg_error>>

(* SnapshotList: oldest first; a number once is enough here. *)
GetSnapshot ==
    /\ Uses("snapshots") /\ snapshots' = snapshots \cup {last_sequence} /\ snapshots' # snapshots
    /\ Cardinality(snapshots) < MaxSnapshots
    /\ UNCHANGED <<mode, last_sequence, mem, history, versions, current, seeks, compact_pointer, next_file_number,
                   disk, pending_outputs, compaction, reader, bg_error>>
ReleaseSnapshot(s) ==
    /\ s \in snapshots /\ snapshots' = snapshots \ {s}
    /\ history' = Visible(history, last_sequence, snapshots')
    /\ UNCHANGED <<mode, last_sequence, mem, versions, current, seeks, compact_pointer, next_file_number,
                   disk, pending_outputs, compaction, reader, bg_error>>
SmallestSnapshot == IF snapshots = {} THEN last_sequence ELSE Min(snapshots)

(* NewInternalIterator and CleanupIteratorState. *)
NewIterator(r) ==
    /\ Uses("iterators") /\ reader[r] = 0
    /\ reader' = [reader EXCEPT ![r] = current]
    /\ versions' = Ref(versions, current)
    /\ UNCHANGED <<mode, last_sequence, mem, history, current, seeks, compact_pointer, next_file_number, disk,
                   pending_outputs, compaction, snapshots, bg_error>>
DeleteIterator(r) ==
    /\ reader[r] # 0
    /\ reader' = [reader EXCEPT ![r] = 0]
    /\ versions' = Unref(versions, reader[r])
    /\ UNCHANGED <<mode, last_sequence, mem, history, current, seeks, compact_pointer, next_file_number, disk,
                   pending_outputs, compaction, snapshots, bg_error>>

(* UpdateStats, after a Get (now or at a snapshot) that missed the memtable or, *)
(* for RecordReadSample, for a key an iterator passes: a file read in vain too  *)
(* often is compacted.                                                          *)
UpdateStats(charge) ==
    /\ Uses("seeks") /\ charge.file # NoFile
    /\ seeks' = [seeks EXCEPT ![charge.file.number] = Max({0, @ - 1})]     \* below 0 is as 0
    /\ versions' = IF seeks[charge.file.number] <= 1 /\ ~ SeekCompaction(Current)
                   THEN [versions EXCEPT ![current].file_to_compact = charge] ELSE versions
    /\ UNCHANGED <<mode, last_sequence, mem, history, current, compact_pointer, next_file_number, disk,
                   pending_outputs, compaction, snapshots, reader, bg_error>>
Get(k, s) ==
    /\ MemGet(mem, k, s) = NoEntry
    /\ UpdateStats(VersionGet(Current, k, s).charge)
RecordReadSample(k) ==
    LET fs == FilesFor(Current, EarliestOf(k), k) IN Cardinality(fs) >= 2 /\ UpdateStats(FirstOf(fs))

-----------------------------------------------------------------------------
(* The background thread. *)
PickLevelForMemTableOutputDeep(v, lo, hi) ==      \* overlap of level 0 not looked at
    Max({l \in 0 .. kMaxMemCompactLevel(mode) : \A i \in 1 .. l : ~ OverlapInLevel(v, i, lo, hi)})
PickLevelForMemTableOutput(v, lo, hi) ==
    IF OverlapInLevel(v, 0, lo, hi) THEN 0
    ELSE Max({l \in 0 .. kMaxMemCompactLevel(mode) :
                 \A i \in 1 .. l :
                     /\ ~ OverlapInLevel(v, i, lo, hi)
                     /\ i + 1 < kNumLevels =>
                            TotalFileSize(GetOverlappingInputs(v, i + 1, lo, hi)) <= kMaxGrandParentOverlapBytes})

(* CompactMemTable, from BackgroundCompaction or inside DoCompactionWork. *)
CompactMemTable ==
    LET f == NewFile(next_file_number, mem)
    IN /\ mem # {} /\ ~ bg_error /\ next_file_number <= MaxFiles
       /\ compaction = Idle \/ Uses("flush_during")
       /\ LogAndApply(versions, {}, {<<PickLevelForMemTableOutput(Current, f.smallest.k, f.largest.k), f>>})
       /\ next_file_number' = next_file_number + 1
       /\ mem' = {}
       /\ disk' = DeleteObsoleteFiles(disk \cup {f.number}, pending_outputs)
       /\ UNCHANGED <<mode, last_sequence, history, compact_pointer, pending_outputs, compaction, snapshots, reader, bg_error>>

(* BackgroundCompaction: a trivial move installs its version at once. *)
TrivialMove(c) ==
    \E f \in c.in0 :
       /\ LogAndApply(versions, {<<c.level, f.number>>}, {<<c.level + 1, f>>})
       /\ compact_pointer' = [compact_pointer EXCEPT ![c.level] = c.pointer]
       /\ UNCHANGED <<mode, last_sequence, mem, history, next_file_number, disk, pending_outputs, compaction,
                      snapshots, reader, bg_error>>

(* Any other begins DoCompactionWork; its outputs get their numbers.  The   *)
(* inputs stay referenced by the version.                                   *)
PickRefsForgets(vs) == vs                         \* input_version_ not referenced
PickRefs(vs) == Ref(vs, current)
Started(c) ==
    [level |-> c.level, in0 |-> c.in0, in1 |-> c.in1, grandparents |-> c.grandparents,
     version |-> current, smallest_snapshot |-> SmallestSnapshot, outs |-> <<>>]
OutputFiles(data) == [i \in DOMAIN data |-> NewFile(next_file_number + i - 1, data[i])]
NumbersOf(files) == {files[i].number : i \in DOMAIN files}
StartWork(c) ==
    \E outs \in {OutputFiles(Outputs(Current, Started(c)))} :
       /\ next_file_number + Len(outs) - 1 <= MaxFiles
       /\ compaction' = [Started(c) EXCEPT !.outs = outs]
       /\ versions' = PickRefs(versions)
       /\ next_file_number' = next_file_number + Len(outs)
       /\ pending_outputs' = pending_outputs \cup NumbersOf(outs)
       /\ disk' = disk \cup NumbersOf(outs)
       /\ compact_pointer' = [compact_pointer EXCEPT ![c.level] = c.pointer]
       /\ UNCHANGED <<mode, last_sequence, mem, history, current, seeks, snapshots, reader, bg_error>>

Free == compaction = Idle /\ ~ bg_error
AutomaticMove ==
    /\ Free /\ NeedsCompaction
    /\ \E c \in {PickCompaction(Current)} : IsTrivialMove(c) /\ TrivialMove(c)
AutomaticCompaction ==
    /\ Free /\ NeedsCompaction
    /\ \E c \in {PickCompaction(Current)} : ~ IsTrivialMove(c) /\ StartWork(c)
ManualCompaction(level, lo, hi) ==
    /\ Free /\ Uses("manual") /\ lo <= hi
    /\ GetOverlappingInputs(Current, level, lo, hi) # {}
    /\ \E c \in {CompactRange(Current, level, lo, hi)} : StartWork(c)

(* CleanupCompaction, ReleaseInputs, DeleteObsoleteFiles. *)
Released == pending_outputs \ NumbersOf(compaction.outs)
InputDeletionsForgetsNext(c) == {<<c.level, f.number>> : f \in c.in0}    \* which = 0 only
InputDeletions(c) == {<<c.level, f.number>> : f \in c.in0} \cup {<<c.level + 1, f.number>> : f \in c.in1}

InstallCompactionResults ==
    LET c == compaction
    IN /\ c # Idle
       /\ LogAndApply(Unref(versions, c.version), InputDeletions(c), {<<c.level + 1, c.outs[i]>> : i \in DOMAIN c.outs})
       /\ pending_outputs' = Released
       /\ disk' = DeleteObsoleteFiles(disk, pending_outputs')
       /\ compaction' = Idle
       /\ UNCHANGED <<mode, last_sequence, mem, history, compact_pointer, next_file_number, snapshots, reader, bg_error>>

(* A file cannot be written: the error stays and nothing is collected. *)
FailCompaction ==
    /\ compaction # Idle
    /\ versions' = Unref(versions, compaction.version)
    /\ pending_outputs' = Released
    /\ compaction' = Idle /\ bg_error' = TRUE
    /\ UNCHANGED <<mode, last_sequence, mem, history, current, seeks, compact_pointer, next_file_number, disk,
                   snapshots, reader>>

Next ==
    \/ \E k \in UserKeys, t \in {kTypeValue, kTypeDeletion} : Write(k, t)
    \/ GetSnapshot \/ \E s \in snapshots : ReleaseSnapshot(s)
    \/ \E r \in Readers : NewIterator(r) \/ DeleteIterator(r)
    \/ \E k \in UserKeys, s \in snapshots \cup {last_sequence} : Get(k, s)
    \/ \E k \in UserKeys : RecordReadSample(k)
    \/ CompactMemTable
    \/ AutomaticMove \/ AutomaticCompaction
    \/ \E level \in 0 .. kNumLevels - 2, lo, hi \in UserKeys : ManualCompaction(level, lo, hi)
    \/ InstallCompactionResults \/ FailCompaction

Spec == Init /\ [][Next]_vars

-----------------------------------------------------------------------------
(***************************************************************************)
(* Properties.                                                             *)
(***************************************************************************)

ValueIn(e) == IF e.t = kTypeValue THEN e ELSE NoEntry

(* What a read of k at sequence number s must find: the newest write, unless *)
(* that is a deletion.                                                       *)
Expected(k, s) == ValueIn(MemGet(history, k, s))
Read(k, s) ==
    ValueIn(IF MemGet(mem, k, s) # NoEntry THEN MemGet(mem, k, s) ELSE VersionGet(Current, k, s).entry)

(* However writes, flushes, moves and compactions interleave, a read finds   *)
(* the newest visible write, now and at every snapshot that is held: no      *)
(* older entry surfaces, no deletion marker is dropped too early.            *)
ReadsFindNewest == \A k \in UserKeys, s \in snapshots \cup {last_sequence} : Read(k, s) = Expected(k, s)

(* In every version in use the files of a level above 0 are sorted and       *)
(* disjoint, which the searches rely on.                                     *)
LevelsDisjoint ==
    \A id \in DOMAIN versions, l \in Levels \ {0} :
        \A f, g \in versions[id].files[l] : f = g \/ Before(f.largest, g.smallest) \/ Before(g.largest, f.smallest)

(* No table file that a version in use, or a compaction, still needs is      *)
(* removed from disk.                                                        *)
LiveFilesExist == AddLiveFiles(versions) \cup pending_outputs \subseteq disk

(* Versions are counted exactly: whoever holds one finds it in the list, and *)
(* a version nobody holds is gone, so that its files can be collected.       *)
Holders(id) ==
    Cardinality({r \in Readers : reader[r] = id}) + (IF current = id THEN 1 ELSE 0)
        + (IF compaction # Idle /\ compaction.version = id THEN 1 ELSE 0)
VersionsCounted ==
    /\ current \in DOMAIN versions
    /\ \A r \in Readers : reader[r] # 0 => reader[r] \in DOMAIN versions
    /\ \A id \in DOMAIN versions : versions[id].refs = Holders(id)

(* A compaction never reaches behind the last level, whichever read charged  *)
(* the file it starts from, and takes part of its inputs from level 0 only   *)
(* together with every older file that overlaps them.                        *)
CompactionWellFormed ==
    compaction # Idle =>
        /\ compaction.level + 1 < kNumLevels
        /\ compaction.level = 0 =>
               \A f \in versions[compaction.version].files[0] \ compaction.in0, g \in compaction.in0 :
                   Overlaps(f, g.smallest.k, g.largest.k) => f.number > g.number

(* Versions and their files are collected exactly when nothing uses them.    *)
VersionsSound == LiveFilesExist /\ VersionsCounted
=============================================================================
