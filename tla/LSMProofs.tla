----------------------------- MODULE LSMProofs -----------------------------
(***************************************************************************)
(* For any number of keys, levels, files, readers and snapshots: versions  *)
(* are counted exactly and keep their files, a compaction takes no file of *)
(* level 0 without those it overlaps, above level 0 the files of a level   *)
(* are disjoint, and a read finds the newest write.                        *)
(***************************************************************************)
EXTENDS LSM, NumberFacts, SequenceTheorems

-----------------------------------------------------------------------------
(* Entries, their order, and files. *)
Entries == [k : UserKeys, s : 1 .. MaxWrites, t : {kTypeValue, kTypeDeletion}]

LEMMA KeysAreNatural ==
    /\ UserKeys \subseteq Nat \ {0} /\ Bounded(UserKeys) /\ MaxWrites \in Nat
    /\ \A a, b \in UserKeys : \A k \in Int : a <= k /\ k <= b => k \in UserKeys
<1>1. PICK n \in Nat : UserKeys = 1 .. n
  <2>1. IsFiniteSet(UserKeys) /\ UserKeys = 1 .. Cardinality(UserKeys)
    BY LSMConstants
  <2>2. Cardinality(UserKeys) \in Nat
    BY <2>1, FS_CardinalityType
  <2> QED BY <2>1, <2>2
<1>2. UserKeys \subseteq 0 .. n
  BY <1>1
<1>3. MaxWrites \in Nat
  BY LSMConstants
<1> QED BY <1>1, <1>2, <1>3 DEF Bounded

LEMMA EntryNumbers ==
  ASSUME NEW e \in Entries
  PROVE  e.k \in UserKeys /\ e.k \in Nat \ {0} /\ e.s \in Nat \ {0} /\ e.s <= MaxWrites
<1>1. e.k \in UserKeys /\ e.s \in 1 .. MaxWrites
  BY DEF Entries
<1>2. e.k \in Nat \ {0} /\ MaxWrites \in Nat
  BY <1>1, KeysAreNatural
<1>3. ASSUME NEW s \in 1 .. MaxWrites PROVE s \in Nat \ {0} /\ s <= MaxWrites
  BY ONLY <1>2, <1>3
<1> QED BY <1>1, <1>2, <1>3

(* Before is a strict order, in which only entries of the same key and      *)
(* number are not told apart.                                               *)
LEMMA BeforeOrder ==
  ASSUME NEW a \in Entries, NEW b \in Entries, NEW c \in Entries
  PROVE  /\ ~ Before(a, a)
         /\ Before(a, b) => ~ Before(b, a)
         /\ Before(a, b) /\ Before(b, c) => Before(a, c)
         /\ Before(a, b) /\ ~ Before(c, b) => Before(a, c)
         /\ ~ Before(b, a) /\ Before(b, c) => Before(a, c)
         /\ ~ Before(b, a) /\ ~ Before(c, b) => ~ Before(c, a)
         /\ a.k < b.k => Before(a, b)
         /\ Before(a, b) => a.k <= b.k
         /\ ~ Before(b, a) => a.k <= b.k
  BY EntryNumbers DEF Before

(* Sets of entries have a first and a last one. *)
LEMMA FirstEntryExists ==
  ASSUME NEW es, es \subseteq Entries, es # {}
  PROVE  FirstEntry(es) \in es /\ \A o \in es : ~ Before(o, FirstEntry(es))
<1> DEFINE keys == {e.k : e \in es}
<1>1. keys \subseteq Nat /\ keys # {}
  BY EntryNumbers
<1>2. PICK k \in keys : \A j \in keys : k <= j
  <2> HIDE DEF keys
  <2> QED BY <1>1, LeastNatural
<1> DEFINE mine == {e \in es : e.k = k}
           numbers == {e.s : e \in mine}
<1>3. numbers \subseteq Nat /\ numbers # {} /\ numbers \subseteq 0 .. MaxWrites
  BY <1>2, EntryNumbers
<1>4. Bounded(numbers)
  BY <1>3, KeysAreNatural DEF Bounded
<1>5. PICK s \in numbers : \A j \in numbers : s >= j
  <2> HIDE DEF numbers
  <2> QED BY <1>3, <1>4, GreatestNatural
<1>6. PICK e \in es : e.k = k /\ e.s = s
  BY <1>5
<1>7. \A o \in es : ~ Before(o, e)
  <2> SUFFICES ASSUME NEW o \in es PROVE ~ Before(o, e)
    OBVIOUS
  <2>1. k <= o.k /\ (o.k = k => o.s <= s)
    BY <1>2, <1>5
  <2>2. o.k \in Nat /\ o.s \in Nat /\ k \in Nat /\ s \in Nat
    BY <1>6, EntryNumbers
  <2> QED BY <1>6, <2>1, <2>2 DEF Before
<1> QED BY <1>7 DEF FirstEntry

LEMMA LastEntryExists ==
  ASSUME NEW es, es \subseteq Entries, es # {}
  PROVE  LastEntry(es) \in es /\ \A o \in es : ~ Before(LastEntry(es), o)
<1> DEFINE keys == {e.k : e \in es}
<1>1. keys \subseteq Nat /\ keys # {} /\ keys \subseteq UserKeys
  BY EntryNumbers
<1>2. PICK k \in keys : \A j \in keys : k >= j
  <2> HIDE DEF keys
  <2>1. Bounded(keys)
    BY <1>1, KeysAreNatural, BoundedSets
  <2> QED BY <1>1, <2>1, GreatestNatural
<1> DEFINE mine == {e \in es : e.k = k}
           numbers == {e.s : e \in mine}
<1>3. numbers \subseteq Nat /\ numbers # {}
  BY <1>2, EntryNumbers
<1>5. PICK s \in numbers : \A j \in numbers : s <= j
  <2> HIDE DEF numbers
  <2> QED BY <1>3, LeastNatural
<1>6. PICK e \in es : e.k = k /\ e.s = s
  BY <1>5
<1>7. \A o \in es : ~ Before(e, o)
  <2> SUFFICES ASSUME NEW o \in es PROVE ~ Before(e, o)
    OBVIOUS
  <2>1. k >= o.k /\ (o.k = k => s <= o.s)
    BY <1>2, <1>5
  <2>2. o.k \in Nat /\ o.s \in Nat /\ k \in Nat /\ s \in Nat
    BY <1>6, EntryNumbers
  <2> QED BY <1>6, <2>1, <2>2 DEF Before
<1> QED BY <1>7 DEF LastEntry

(* A table file: its range is that of its entries. *)
IsFile(f) ==
    /\ f = [number |-> f.number, data |-> f.data, smallest |-> f.smallest, largest |-> f.largest]
    /\ f.number \in Nat \ {0} /\ f.data \subseteq Entries
    /\ f.smallest \in f.data /\ \A e \in f.data : ~ Before(e, f.smallest)
    /\ f.largest \in f.data /\ \A e \in f.data : ~ Before(f.largest, e)

LEMMA NewFileIsFile ==
  ASSUME NEW number \in Nat \ {0}, NEW data, data \subseteq Entries, data # {}
  PROVE  IsFile(NewFile(number, data)) /\ NewFile(number, data).number = number /\ NewFile(number, data).data = data
  BY FirstEntryExists, LastEntryExists DEF NewFile, IsFile

LEMMA FileRange ==
  ASSUME NEW f, IsFile(f)
  PROVE  /\ f.smallest \in Entries /\ f.largest \in Entries /\ ~ Before(f.largest, f.smallest)
         /\ f.smallest.k \in UserKeys /\ f.largest.k \in UserKeys
         /\ f.smallest.k \in Nat /\ f.largest.k \in Nat /\ f.smallest.k <= f.largest.k
         /\ f # NoFile
<1>1. f.smallest \in Entries /\ f.largest \in Entries /\ ~ Before(f.largest, f.smallest)
  BY DEF IsFile
<1>2. f.number # 0
  BY DEF IsFile
<1> QED BY <1>1, <1>2, EntryNumbers, BeforeOrder DEF NoFile

-----------------------------------------------------------------------------
(* Searches in a set of files with different numbers. *)
AreFiles(fs) ==
    /\ \A f \in fs : IsFile(f)
    /\ \A f, g \in fs : f.number = g.number => f = g

LEMMA FirstFileExists ==
  ASSUME NEW fs, AreFiles(fs), fs # {}
  PROVE  /\ First(fs) \in fs
         /\ \A g \in fs \ {First(fs)} : BySmallestKey(First(fs), g)
         /\ \A g \in fs : ~ Before(g.smallest, First(fs).smallest) /\ ~ BySmallestKey(g, First(fs))
<1> DEFINE starts == {f.smallest : f \in fs}
<1>1. starts \subseteq Entries /\ starts # {}
  BY FileRange DEF AreFiles
<1>2. PICK e \in starts : \A o \in starts : ~ Before(o, e)
  <2> HIDE DEF starts
  <2> QED BY <1>1, FirstEntryExists
<1> DEFINE ties == {f \in fs : ~ Before(e, f.smallest)}
           numbers == {f.number : f \in ties}
<1>3. numbers \subseteq Nat /\ numbers # {}
  <2>1. PICK f \in fs : e = f.smallest
    BY <1>2
  <2>2. ~ Before(e, e)
    BY <1>1, <1>2, BeforeOrder
  <2>3. \A g \in fs : g.number \in Nat
    BY DEF AreFiles, IsFile
  <2> QED BY <2>1, <2>2, <2>3
<1>4. PICK n \in numbers : \A m \in numbers : n <= m
  <2> HIDE DEF numbers
  <2> QED BY <1>3, LeastNatural
<1>5. PICK f \in ties : f.number = n
  BY <1>4
<1>6. \A g \in fs : ~ Before(g.smallest, f.smallest)
  <2> SUFFICES ASSUME NEW g \in fs PROVE ~ Before(g.smallest, f.smallest)
    OBVIOUS
  <2>1. ~ Before(g.smallest, e) /\ ~ Before(e, f.smallest)
    BY <1>2, <1>5
  <2>2. g.smallest \in Entries /\ f.smallest \in Entries /\ e \in Entries
    BY <1>1, <1>2, <1>5
  <2> QED BY ONLY <2>1, <2>2, BeforeOrder
<1>7. ASSUME NEW g \in fs \ {f} PROVE BySmallestKey(f, g)
  <2>1. CASE Before(f.smallest, g.smallest)
    BY <2>1 DEF BySmallestKey
  <2>2. CASE ~ Before(f.smallest, g.smallest)
    <3>1. g.smallest \in Entries /\ f.smallest \in Entries /\ e \in Entries
      BY <1>1, <1>2, <1>5, <1>7
    <3>2. ~ Before(e, f.smallest)
      BY <1>5
    <3>3. ~ Before(e, g.smallest)
      BY ONLY <2>2, <3>1, <3>2, BeforeOrder
    <3>4. g \in ties
      BY <1>7, <3>3
    <3>5. f.number <= g.number /\ f.number # g.number /\ f.number \in Nat /\ g.number \in Nat
      BY <1>4, <1>5, <1>7, <3>4 DEF AreFiles, IsFile
    <3>6. f.number < g.number
      BY <3>5
    <3> QED BY <1>6, <1>7, <3>6 DEF BySmallestKey
  <2> QED BY <2>1, <2>2
<1>8. f \in fs /\ \A g \in fs \ {f} : BySmallestKey(f, g)
  BY <1>5, <1>7
<1>9. First(fs) \in fs /\ \A g \in fs \ {First(fs)} : BySmallestKey(First(fs), g)
  BY <1>8 DEF First
<1>10. ASSUME NEW g \in fs
       PROVE  ~ Before(g.smallest, First(fs).smallest) /\ ~ BySmallestKey(g, First(fs))
  <2> DEFINE h == First(fs)
  <2>1. h \in fs /\ (g # h => BySmallestKey(h, g))
    BY <1>9, <1>10
  <2> HIDE DEF h
  <2>2. IsFile(g) /\ IsFile(h) /\ g.number \in Nat /\ h.number \in Nat
    BY <1>10, <2>1 DEF AreFiles, IsFile
  <2>3. g.smallest \in Entries /\ h.smallest \in Entries
    BY <2>2, FileRange
  <2>4. ~ Before(g.smallest, h.smallest) /\ ~ BySmallestKey(g, h)
    BY ONLY <2>1, <2>2, <2>3, BeforeOrder DEF BySmallestKey
  <2> QED BY <2>4 DEF h
<1> QED BY <1>9, <1>10

(* The search for an overlapping file misses none. *)
LEMMA OverlapIsFound ==
  ASSUME NEW v, NEW level \in Levels, AreFiles(v.files[level]), NEW lo \in Nat, NEW hi \in Nat,
         NEW f \in v.files[level], Overlaps(f, lo, hi)
  PROVE  OverlapInLevel(v, level, lo, hi)
<1>1. CASE level = 0
  BY <1>1 DEF OverlapInLevel
<1>2. CASE level # 0
  <2> DEFINE fs == v.files[level]
             key == EarliestOf(lo)
             reach == {g \in fs : ~ Before(g.largest, key)}
  <2>1. f \in reach
    <3>1. f.largest.k \in Nat /\ f.largest.s \in Nat /\ f.largest.s <= MaxWrites /\ MaxWrites \in Nat
      BY FileRange, EntryNumbers, KeysAreNatural DEF AreFiles
    <3>2. key.k = lo /\ key.s = MaxWrites + 1
      BY DEF EarliestOf
    <3>3. ~ Before(f.largest, key)
      BY <3>1, <3>2 DEF Before, Overlaps
    <3> QED BY <3>3
  <2>2. AreFiles(reach)
    BY DEF AreFiles
  <2> DEFINE g == First(reach)
  <2>3. FindFile(fs, key) = g
    BY <2>1 DEF FindFile
  <2>4. g \in reach /\ ~ Before(f.smallest, g.smallest)
    <3> HIDE DEF reach
    <3> QED BY <2>1, <2>2, FirstFileExists
  <2> HIDE DEF g
  <2>5. IsFile(g) /\ IsFile(f)
    BY <2>4 DEF AreFiles
  <2>6. g.smallest.k <= f.smallest.k /\ g.smallest.k \in Nat /\ f.smallest.k \in Nat /\ g # NoFile
    BY <2>4, <2>5, FileRange, BeforeOrder
  <2>7. hi >= g.smallest.k
    BY <2>6 DEF Overlaps
  <2> QED BY <1>2, <2>3, <2>6, <2>7 DEF OverlapInLevel
<1> QED BY <1>1, <1>2

-----------------------------------------------------------------------------
(* Ranges of files.  Low and High are the user keys of GetRange. *)
Low(fs) == GetRange(fs).smallest.k
High(fs) == GetRange(fs).largest.k

LEMMA RangeOfFiles ==
  ASSUME NEW fs, fs # {}, \A f \in fs : IsFile(f)
  PROVE  /\ Low(fs) \in UserKeys /\ High(fs) \in UserKeys /\ Low(fs) <= High(fs)
         /\ \A f \in fs : Low(fs) <= f.smallest.k /\ f.largest.k <= High(fs)
         /\ \E f \in fs : f.smallest.k = Low(fs)
         /\ \E f \in fs : f.largest.k = High(fs)
<1> DEFINE starts == {f.smallest : f \in fs}
           ends == {f.largest : f \in fs}
<1>1. starts \subseteq Entries /\ starts # {} /\ ends \subseteq Entries /\ ends # {}
  BY FileRange
<1>2. GetRange(fs) = [smallest |-> FirstEntry(starts), largest |-> LastEntry(ends)]
  BY DEF GetRange
<1> DEFINE a == FirstEntry(starts)
           b == LastEntry(ends)
<1>3. a \in starts /\ (\A o \in starts : ~ Before(o, a)) /\ b \in ends /\ (\A o \in ends : ~ Before(b, o))
  <2> HIDE DEF starts, ends
  <2> QED BY <1>1, FirstEntryExists, LastEntryExists
<1> HIDE DEF a, b
<1>4. Low(fs) = a.k /\ High(fs) = b.k
  BY <1>2 DEF Low, High, a, b
<1>5. PICK f \in fs : f.smallest = a
  BY <1>3
<1>6. PICK g \in fs : g.largest = b
  BY <1>3
<1>7. ASSUME NEW h \in fs
      PROVE  a.k <= h.smallest.k /\ h.largest.k <= b.k /\ h.smallest.k <= h.largest.k
             /\ h.smallest.k \in Nat /\ h.largest.k \in Nat
  <2>1. ~ Before(h.smallest, a) /\ ~ Before(b, h.largest)
    BY <1>3
  <2>2. h.smallest \in Entries /\ h.largest \in Entries /\ a \in Entries /\ b \in Entries
    BY <1>1, <1>3
  <2>3. a.k <= h.smallest.k /\ h.largest.k <= b.k
    BY <2>1, <2>2, BeforeOrder
  <2> QED BY <2>3, FileRange
<1>8. a.k \in UserKeys /\ b.k \in UserKeys /\ a.k \in Nat /\ b.k \in Nat
  BY <1>5, <1>6, FileRange
<1>9. a.k <= b.k
  <2>1. f.smallest.k <= f.largest.k /\ f.largest.k <= b.k /\ f.smallest.k = a.k /\ f.largest.k \in Nat
    BY <1>5, <1>7
  <2> QED BY <2>1, <1>8
<1> QED BY <1>4, <1>5, <1>6, <1>7, <1>8, <1>9

(* The search in level 0 ends at the least settled range. *)
LEMMA WidenedIsLeast ==
  ASSUME NEW v, \A f \in v.files[0] : IsFile(f), NEW lo \in UserKeys, NEW hi \in UserKeys
  PROVE  /\ Widened(v, lo, hi) \in SettledRanges(v, lo, hi)
         /\ \A o \in SettledRanges(v, lo, hi) : o[1] <= Widened(v, lo, hi)[1] /\ Widened(v, lo, hi)[2] <= o[2]
<1> DEFINE R == SettledRanges(v, lo, hi)
<1>0. UserKeys \subseteq Nat
  BY KeysAreNatural
<1>1. PICK n \in Nat : UserKeys = 1 .. n
  <2>1. IsFiniteSet(UserKeys) /\ UserKeys = 1 .. Cardinality(UserKeys)
    BY LSMConstants
  <2> QED BY <2>1, FS_CardinalityType
<1>2. <<1, n>> \in R
  <2>1. \A f \in v.files[0] : f.smallest.k \in 1 .. n /\ f.largest.k \in 1 .. n
    BY <1>1, FileRange
  <2>2. 1 \in UserKeys /\ n \in UserKeys /\ 1 <= lo /\ hi <= n
    BY <1>1
  <2> QED BY <2>1, <2>2 DEF SettledRanges, Settled, InputsBetween
<1> DEFINE from == {r[1] : r \in R}
           to == {r[2] : r \in R}
<1>3. /\ from \subseteq Nat /\ from # {} /\ from \subseteq UserKeys
      /\ to \subseteq Nat /\ to # {}
  BY <1>0, <1>2 DEF SettledRanges
<1>4. PICK a \in from : \A x \in from : a >= x
  <2> HIDE DEF from
  <2>1. Bounded(from)
    BY <1>3, KeysAreNatural, BoundedSets
  <2> QED BY <1>3, <2>1, GreatestNatural
<1>5. PICK b \in to : \A x \in to : b <= x
  <2> HIDE DEF to
  <2> QED BY <1>3, LeastNatural
<1>6. PICK p \in R : p[1] = a
  BY <1>4
<1>7. PICK q \in R : q[2] = b
  BY <1>5
<1>8. /\ a \in UserKeys /\ b \in UserKeys /\ a <= lo /\ hi <= b
      /\ p[2] \in UserKeys /\ q[1] \in UserKeys /\ Settled(v, p) /\ Settled(v, q)
  BY <1>6, <1>7 DEF SettledRanges
<1>9. b <= p[2] /\ q[1] <= a
  BY <1>4, <1>5, <1>6, <1>7
<1>10. Settled(v, <<a, b>>)
  <2> SUFFICES ASSUME NEW f \in v.files[0], Overlaps(f, a, b) PROVE a <= f.smallest.k /\ f.largest.k <= b
    BY DEF Settled, InputsBetween
  <2>1. /\ f.smallest.k \in Nat /\ f.largest.k \in Nat /\ a \in Nat /\ b \in Nat /\ p[2] \in Nat /\ q[1] \in Nat
        /\ f.largest.k >= a /\ f.smallest.k <= b
    BY <1>0, <1>8, FileRange DEF Overlaps
  <2>2. Overlaps(f, p[1], p[2]) /\ Overlaps(f, q[1], q[2])
    BY <1>6, <1>7, <1>9, <2>1 DEF Overlaps
  <2>3. p[1] <= f.smallest.k /\ f.largest.k <= q[2]
    BY <1>8, <2>2 DEF Settled, InputsBetween
  <2> QED BY <1>6, <1>7, <2>3
<1>11. <<a, b>> \in R
  BY <1>8, <1>10 DEF SettledRanges
<1>12. \A o \in R : o[1] <= a /\ b <= o[2]
  BY <1>4, <1>5
<1>13. \E r \in R : \A o \in R : o[1] <= r[1] /\ r[2] <= o[2]
  BY <1>11, <1>12
<1> QED BY <1>13 DEF Widened

(* What GetOverlappingInputs takes around a set of files, in its level and  *)
(* in others.                                                               *)
LEMMA InRangeIs ==
  ASSUME NEW v, NEW level \in Levels, \A f \in v.files[level] : IsFile(f), NEW fs, fs # {}, \A f \in fs : IsFile(f)
  PROVE  \E r \in UserKeys \X UserKeys :
            /\ InRange(v, level, fs) = InputsBetween(v, level, r[1], r[2])
            /\ r[1] <= Low(fs) /\ High(fs) <= r[2]
            /\ level # 0 => r[1] = Low(fs) /\ r[2] = High(fs)
            /\ level = 0 => /\ \A f \in InRange(v, 0, fs) : r[1] <= f.smallest.k /\ f.largest.k <= r[2]
                            /\ \A o \in SettledRanges(v, Low(fs), High(fs)) : o[1] <= r[1] /\ r[2] <= o[2]
<1>1. Low(fs) \in UserKeys /\ High(fs) \in UserKeys
  BY RangeOfFiles
<1>0. Low(fs) \in Nat /\ High(fs) \in Nat
  BY <1>1, KeysAreNatural
<1>2. CASE level # 0
  <2>1. InRange(v, level, fs) = InputsBetween(v, level, Low(fs), High(fs))
    BY <1>2 DEF InRange, GetOverlappingInputs, Low, High
  <2> DEFINE r == <<Low(fs), High(fs)>>
  <2>2. r \in UserKeys \X UserKeys /\ r[1] = Low(fs) /\ r[2] = High(fs)
    BY <1>1
  <2> HIDE DEF r
  <2>3. r[1] <= Low(fs) /\ High(fs) <= r[2]
    BY <1>0, <2>2
  <2> QED BY <1>2, <2>1, <2>2, <2>3
<1>3. CASE level = 0
  <2> DEFINE r == Widened(v, Low(fs), High(fs))
  <2>1. InRange(v, 0, fs) = InputsBetween(v, 0, r[1], r[2])
    BY DEF InRange, GetOverlappingInputs, Low, High
  <2>2. r \in SettledRanges(v, Low(fs), High(fs))
        /\ \A o \in SettledRanges(v, Low(fs), High(fs)) : o[1] <= r[1] /\ r[2] <= o[2]
    BY <1>1, <1>3, WidenedIsLeast
  <2> HIDE DEF r
  <2>3. r \in UserKeys \X UserKeys /\ r[1] <= Low(fs) /\ High(fs) <= r[2] /\ Settled(v, r)
    BY <2>2 DEF SettledRanges
  <2>4. \A f \in InRange(v, 0, fs) : r[1] <= f.smallest.k /\ f.largest.k <= r[2]
    BY <2>1, <2>3 DEF Settled
  <2> QED BY <1>3, <2>1, <2>2, <2>3, <2>4
<1> QED BY <1>2, <1>3

LEMMA InRangeKeeps ==
  ASSUME NEW v, NEW level \in Levels, \A f \in v.files[level] : IsFile(f), NEW fs, fs # {}, \A f \in fs : IsFile(f)
  PROVE  fs \cap v.files[level] \subseteq InRange(v, level, fs) /\ InRange(v, level, fs) \subseteq v.files[level]
<1>1. PICK r \in UserKeys \X UserKeys :
         /\ InRange(v, level, fs) = InputsBetween(v, level, r[1], r[2])
         /\ r[1] <= Low(fs) /\ High(fs) <= r[2]
  BY InRangeIs
<1>2. r[1] \in Nat /\ r[2] \in Nat /\ Low(fs) \in Nat /\ High(fs) \in Nat
  BY RangeOfFiles, KeysAreNatural
<1>3. ASSUME NEW f \in fs PROVE Overlaps(f, r[1], r[2])
  <2>1. f.smallest.k \in Nat /\ f.largest.k \in Nat /\ f.smallest.k <= f.largest.k
    BY FileRange
  <2>2. Low(fs) <= f.smallest.k /\ f.largest.k <= High(fs)
    BY RangeOfFiles
  <2> QED BY <1>1, <1>2, <2>1, <2>2 DEF Overlaps
<1> QED BY <1>1, <1>3 DEF InputsBetween

(* In level 0 no file outside overlaps one inside. *)
ApartFrom(fs, gs) == \A f \in fs \ gs, g \in gs : ~ Overlaps(f, g.smallest.k, g.largest.k)
LEMMA InputsSettle ==
  ASSUME NEW v, \A f \in v.files[0] : IsFile(f), NEW lo \in UserKeys, NEW hi \in UserKeys
  PROVE  ApartFrom(v.files[0], GetOverlappingInputs(v, 0, lo, hi))
<1> DEFINE r == Widened(v, lo, hi)
           gs == GetOverlappingInputs(v, 0, lo, hi)
<1>1. gs = InputsBetween(v, 0, r[1], r[2])
  BY DEF GetOverlappingInputs
<1>2. r \in SettledRanges(v, lo, hi)
  BY WidenedIsLeast
<1> HIDE DEF r, gs
<1>3. r[1] \in UserKeys /\ r[2] \in UserKeys /\ \A f \in gs : r[1] <= f.smallest.k /\ f.largest.k <= r[2]
  BY <1>1, <1>2 DEF SettledRanges, Settled
<1> SUFFICES ASSUME NEW f \in v.files[0], f \notin gs, NEW g \in gs
             PROVE  ~ Overlaps(f, g.smallest.k, g.largest.k)
  BY DEF ApartFrom, gs
<1>4. ~ Overlaps(f, r[1], r[2]) /\ r[1] <= g.smallest.k /\ g.largest.k <= r[2] /\ g \in v.files[0]
  BY <1>1, <1>3 DEF InputsBetween
<1>5. /\ f.smallest.k \in Nat /\ f.largest.k \in Nat /\ g.smallest.k \in Nat /\ g.largest.k \in Nat
      /\ r[1] \in Nat /\ r[2] \in Nat
  BY <1>3, <1>4, FileRange, KeysAreNatural
<1> QED BY <1>4, <1>5 DEF Overlaps

LEMMA InRangeSettles ==
  ASSUME NEW v, \A f \in v.files[0] : IsFile(f), NEW fs, fs # {}, \A f \in fs : IsFile(f)
  PROVE  ApartFrom(v.files[0], InRange(v, 0, fs))
<1>1. Low(fs) \in UserKeys /\ High(fs) \in UserKeys
  BY RangeOfFiles
<1>2. InRange(v, 0, fs) = GetOverlappingInputs(v, 0, Low(fs), High(fs))
  BY DEF InRange, Low, High
<1> QED BY <1>1, <1>2, InputsSettle

(* More files take no less of another level. *)
LEMMA InRangeGrows ==
  ASSUME NEW v, NEW level \in Levels \ {0}, \A f \in v.files[level] : IsFile(f),
         NEW fs, fs # {}, NEW gs, fs \subseteq gs, \A f \in gs : IsFile(f)
  PROVE  InRange(v, level, fs) \subseteq InRange(v, level, gs)
<1>1. /\ InRange(v, level, fs) = InputsBetween(v, level, Low(fs), High(fs))
      /\ InRange(v, level, gs) = InputsBetween(v, level, Low(gs), High(gs))
  BY DEF InRange, GetOverlappingInputs, Low, High
<1>2. PICK f \in fs : f.smallest.k = Low(fs)
  BY RangeOfFiles
<1>3. PICK h \in fs : h.largest.k = High(fs)
  BY RangeOfFiles
<1>4. Low(gs) <= Low(fs) /\ High(fs) <= High(gs)
  BY <1>2, <1>3, RangeOfFiles
<1>5. Low(gs) \in UserKeys /\ Low(fs) \in UserKeys /\ High(fs) \in UserKeys /\ High(gs) \in UserKeys
  BY RangeOfFiles
<1>6. Low(gs) \in Nat /\ Low(fs) \in Nat /\ High(fs) \in Nat /\ High(gs) \in Nat
  BY <1>5, KeysAreNatural
<1>7. ASSUME NEW g \in v.files[level], Overlaps(g, Low(fs), High(fs)) PROVE Overlaps(g, Low(gs), High(gs))
  <2>1. g.smallest.k \in Nat /\ g.largest.k \in Nat
    BY FileRange
  <2> QED BY <1>4, <1>6, <1>7, <2>1 DEF Overlaps
<1> QED BY <1>1, <1>7 DEF InputsBetween

(* What is left out lies before or behind all the files. *)
LEMMA InRangeOutside ==
  ASSUME NEW v, NEW level \in Levels \ {0}, \A f \in v.files[level] : IsFile(f),
         NEW fs, fs # {}, \A f \in fs : IsFile(f), NEW h \in v.files[level], h \notin InRange(v, level, fs)
  PROVE  \/ /\ \A f \in fs : h.largest.k < f.smallest.k
            /\ \A g \in InRange(v, level, fs) : h.largest.k < g.largest.k
         \/ /\ \A f \in fs : f.largest.k < h.smallest.k
            /\ \A g \in InRange(v, level, fs) : g.smallest.k < h.smallest.k
<1>1. InRange(v, level, fs) = InputsBetween(v, level, Low(fs), High(fs))
  BY DEF InRange, GetOverlappingInputs, Low, High
<1>2. Low(fs) \in UserKeys /\ High(fs) \in UserKeys /\ \A f \in fs : Low(fs) <= f.smallest.k /\ f.largest.k <= High(fs)
  BY RangeOfFiles
<1>3. Low(fs) \in Nat /\ High(fs) \in Nat
  BY <1>2, KeysAreNatural
<1>4. \A f \in fs \cup v.files[level] : f.smallest.k \in Nat /\ f.largest.k \in Nat
  BY FileRange
<1>5. ~ (h.largest.k >= Low(fs) /\ h.smallest.k <= High(fs))
  BY <1>1 DEF InputsBetween, Overlaps
<1>6. \A g \in InRange(v, level, fs) : g \in v.files[level] /\ g.largest.k >= Low(fs) /\ g.smallest.k <= High(fs)
  BY <1>1 DEF InputsBetween, Overlaps
<1>7. CASE h.largest.k < Low(fs)
  <2>1. \A f \in fs : h.largest.k < f.smallest.k
    BY <1>2, <1>3, <1>4, <1>7
  <2>2. \A g \in InRange(v, level, fs) : h.largest.k < g.largest.k
    BY <1>3, <1>4, <1>6, <1>7
  <2> QED BY <2>1, <2>2
<1>8. CASE High(fs) < h.smallest.k
  <2>1. \A f \in fs : f.largest.k < h.smallest.k
    BY <1>2, <1>3, <1>4, <1>8
  <2>2. \A g \in InRange(v, level, fs) : g.smallest.k < h.smallest.k
    BY <1>3, <1>4, <1>6, <1>8
  <2> QED BY <2>1, <2>2
<1> QED BY <1>3, <1>4, <1>5, <1>7, <1>8

-----------------------------------------------------------------------------
(* Files without a gap: each key between them is in the range of one. *)
Covered(fs, k) == \E f \in fs : f.smallest.k <= k /\ k <= f.largest.k
Gapless(fs) ==
    \A k \in UserKeys : (\E f \in fs : f.smallest.k <= k) /\ (\E f \in fs : k <= f.largest.k) => Covered(fs, k)

LEMMA OneFileIsGapless ==
  ASSUME NEW f, IsFile(f)
  PROVE  Gapless({f})
  BY DEF Gapless, Covered

LEMMA InRangeGapless ==
  ASSUME NEW v, NEW level \in Levels, \A f \in v.files[level] : IsFile(f),
         NEW fs, fs # {}, \A f \in fs : IsFile(f), Gapless(fs)
  PROVE  Gapless(fs \cup InRange(v, level, fs))
<1> DEFINE new == InRange(v, level, fs)
           all == fs \cup new
<1>1. PICK r \in UserKeys \X UserKeys :
         /\ new = InputsBetween(v, level, r[1], r[2])
         /\ r[1] <= Low(fs) /\ High(fs) <= r[2]
         /\ level # 0 => r[1] = Low(fs) /\ r[2] = High(fs)
         /\ level = 0 => /\ \A f \in new : r[1] <= f.smallest.k /\ f.largest.k <= r[2]
                         /\ \A o \in SettledRanges(v, Low(fs), High(fs)) : o[1] <= r[1] /\ r[2] <= o[2]
  BY InRangeIs
<1>2. /\ Low(fs) \in UserKeys /\ High(fs) \in UserKeys
      /\ \A f \in fs : Low(fs) <= f.smallest.k /\ f.largest.k <= High(fs)
      /\ \E f \in fs : f.smallest.k = Low(fs)
      /\ \E f \in fs : f.largest.k = High(fs)
  BY RangeOfFiles
<1>3. new \subseteq v.files[level]
  BY <1>1 DEF InputsBetween
<1>4. \A f \in all \cup v.files[level] : f.smallest.k \in Nat /\ f.largest.k \in Nat /\ f.smallest.k <= f.largest.k
  BY <1>3, FileRange
<1>5. UserKeys \subseteq Nat /\ r[1] \in UserKeys /\ r[2] \in UserKeys
  BY KeysAreNatural
<1>6. SUFFICES ASSUME NEW k \in UserKeys, NEW a \in all, a.smallest.k <= k, NEW b \in all, k <= b.largest.k,
                      ~ Covered(all, k)
               PROVE  FALSE
  BY DEF Gapless
<1>7. \A f \in all : f.largest.k < k \/ k < f.smallest.k
  BY <1>4, <1>5, <1>6 DEF Covered
<1> HIDE DEF new, all
<1>8. ~ (Low(fs) <= k /\ k <= High(fs))
  <2> SUFFICES ASSUME Low(fs) <= k, k <= High(fs) PROVE FALSE
    OBVIOUS
  <2>1. PICK f \in fs : f.smallest.k = Low(fs)
    BY <1>2
  <2>2. PICK g \in fs : g.largest.k = High(fs)
    BY <1>2
  <2>3. Covered(fs, k)
    BY <1>6, <2>1, <2>2 DEF Gapless
  <2> QED BY <1>6, <2>3 DEF Covered, all
<1>9. Low(fs) \in Nat /\ High(fs) \in Nat /\ k \in Nat /\ r[1] \in Nat /\ r[2] \in Nat
  BY <1>2, <1>5
<1>10. CASE level # 0
  <2>1. \A f \in new : f.largest.k >= Low(fs) /\ f.smallest.k <= High(fs)
    BY <1>1, <1>10 DEF InputsBetween, Overlaps
  <2>2. CASE k < Low(fs)
    <3>1. a \in new
      BY <1>2, <1>4, <1>6, <1>9, <2>2 DEF all
    <3>2. a.largest.k >= Low(fs) /\ a.largest.k \in Nat /\ a.smallest.k \in Nat
      BY <1>4, <1>6, <2>1, <3>1
    <3> QED BY <1>6, <1>7, <1>9, <2>2, <3>2
  <2>3. CASE k > High(fs)
    <3>1. b \in new
      BY <1>2, <1>4, <1>6, <1>9, <2>3 DEF all
    <3>2. b.smallest.k <= High(fs) /\ b.largest.k \in Nat /\ b.smallest.k \in Nat
      BY <1>4, <1>6, <2>1, <3>1
    <3> QED BY <1>6, <1>7, <1>9, <2>3, <3>2
  <2> QED BY <1>8, <1>9, <2>2, <2>3
<1>11. CASE level = 0
  <2>1. \A f \in all : r[1] <= f.smallest.k /\ f.largest.k <= r[2]
    <3>1. ASSUME NEW f \in fs PROVE r[1] <= f.smallest.k /\ f.largest.k <= r[2]
      <4>1. Low(fs) <= f.smallest.k /\ f.largest.k <= High(fs) /\ f.smallest.k \in Nat /\ f.largest.k \in Nat
        BY <1>2, <1>4 DEF all
      <4> QED BY <1>1, <1>9, <4>1
    <3> QED BY <1>1, <1>11, <3>1 DEF all
  <2>2. r[1] <= k /\ k <= r[2]
    <3>1. r[1] <= a.smallest.k /\ b.largest.k <= r[2] /\ a.smallest.k \in Nat /\ b.largest.k \in Nat
      BY <1>4, <1>6, <2>1
    <3> QED BY <1>6, <1>9, <3>1
  <2>3. CASE k < Low(fs)
    <3> DEFINE o == <<k + 1, r[2]>>
    <3>1. k + 1 \in UserKeys /\ k + 1 <= Low(fs)
      <4>1. k + 1 \in Int /\ k <= k + 1 /\ k + 1 <= Low(fs)
        BY <1>9, <2>3
      <4> QED BY <1>2, <1>6, <4>1, KeysAreNatural
    <3>2. Settled(v, o)
      <4> SUFFICES ASSUME NEW f \in v.files[0], f.largest.k >= k + 1, f.smallest.k <= r[2]
                   PROVE  k + 1 <= f.smallest.k /\ f.largest.k <= r[2]
        BY DEF Settled, InputsBetween, Overlaps
      <4>1. f.smallest.k \in Nat /\ f.largest.k \in Nat
        BY <1>4, <1>11
      <4>2. f.largest.k >= r[1]
        BY <1>9, <2>2, <4>1
      <4>3. f \in new
        BY <1>1, <1>11, <4>2 DEF InputsBetween, Overlaps
      <4>4. f.largest.k <= r[2] /\ (f.largest.k < k \/ k < f.smallest.k)
        BY <1>7, <2>1, <4>3 DEF all
      <4> QED BY <1>9, <4>1, <4>4
    <3>3. o \in SettledRanges(v, Low(fs), High(fs))
      BY <1>1, <1>5, <3>1, <3>2 DEF SettledRanges
    <3>4. k + 1 <= r[1]
      BY <1>1, <1>11, <3>3
    <3> QED BY <1>9, <2>2, <3>4
  <2>4. CASE k > High(fs)
    <3> DEFINE o == <<r[1], k - 1>>
    <3>1. k - 1 \in UserKeys /\ High(fs) <= k - 1
      <4>1. k - 1 \in Int /\ High(fs) <= k - 1 /\ k - 1 <= k
        BY <1>9, <2>4
      <4> QED BY <1>2, <1>6, <4>1, KeysAreNatural
    <3>2. Settled(v, o)
      <4> SUFFICES ASSUME NEW f \in v.files[0], f.largest.k >= r[1], f.smallest.k <= k - 1
                   PROVE  r[1] <= f.smallest.k /\ f.largest.k <= k - 1
        BY DEF Settled, InputsBetween, Overlaps
      <4>1. f.smallest.k \in Nat /\ f.largest.k \in Nat
        BY <1>4, <1>11
      <4>2. f.smallest.k <= r[2]
        BY <1>9, <2>2, <4>1
      <4>3. f \in new
        BY <1>1, <1>11, <4>2 DEF InputsBetween, Overlaps
      <4>4. r[1] <= f.smallest.k /\ (f.largest.k < k \/ k < f.smallest.k)
        BY <1>7, <2>1, <4>3 DEF all
      <4> QED BY <1>9, <4>1, <4>4
    <3>3. o \in SettledRanges(v, Low(fs), High(fs))
      BY <1>1, <1>5, <3>1, <3>2 DEF SettledRanges
    <3>4. r[2] <= k - 1
      BY <1>1, <1>11, <3>3
    <3> QED BY <1>9, <2>2, <3>4
  <2> QED BY <1>8, <1>9, <2>3, <2>4
<1> QED BY <1>10, <1>11

-----------------------------------------------------------------------------
(* Sizes and scores are numbers. *)
LEMMA EntriesAreFinite == IsFiniteSet(Entries)
<1> DEFINE types == {kTypeValue, kTypeDeletion}
           pairs == UserKeys \X (1 .. MaxWrites)
           triples == pairs \X types
           map == [x \in triples |-> [k |-> x[1][1], s |-> x[1][2], t |-> x[2]]]
<1>1. IsFiniteSet(UserKeys) /\ IsFiniteSet(1 .. MaxWrites)
  BY LSMConstants, FS_Interval
<1>2. IsFiniteSet(types)
  <2>1. IsFiniteSet({kTypeValue}) /\ types = {kTypeValue} \cup {kTypeDeletion}
    BY FS_Singleton
  <2> QED BY <2>1, FS_AddElement
<1>3. IsFiniteSet(pairs)
  BY <1>1, FS_Product
<1>4. IsFiniteSet(triples)
  <2> HIDE DEF pairs, types
  <2> QED BY <1>2, <1>3, FS_Product
<1>5. map \in [triples -> Entries]
  BY DEF Entries
<1>6. ASSUME NEW e \in Entries PROVE \E x \in triples : map[x] = e
  <2> DEFINE x == << <<e.k, e.s>>, e.t >>
  <2>1. e = [k |-> e.k, s |-> e.s, t |-> e.t] /\ e.k \in UserKeys /\ e.s \in 1 .. MaxWrites /\ e.t \in types
    BY <1>6 DEF Entries
  <2>2. x \in triples
    BY <2>1
  <2>3. map[x] = e
    BY <2>1, <2>2
  <2> QED BY <2>2, <2>3
<1>7. map \in Surjection(triples, Entries)
  <2> HIDE DEF map, triples
  <2> QED BY <1>5, <1>6 DEF Surjection
<1> QED
  <2> HIDE DEF map, triples
  <2> QED BY <1>4, <1>7, FS_Surjection

LEMMA SizesAreNatural ==
  ASSUME NEW next \in Nat, NEW fs, AreFiles(fs), \A f \in fs : f.number < next
  PROVE  /\ IsFiniteSet(fs) /\ Cardinality(fs) \in Nat /\ TotalFileSize(fs) \in Nat
         /\ fs = {} => Cardinality(fs) = 0 /\ TotalFileSize(fs) = 0
<1>1. \A f \in fs : f.number \in 0 .. next /\ f.data \subseteq Entries
  BY DEF AreFiles, IsFile
<1>2. IsFiniteSet(0 .. next)
  BY FS_Interval
<1>3. IsFiniteSet(fs)
  <2> DEFINE map == [f \in fs |-> f.number]
  <2>1. map \in Injection(fs, 0 .. next)
    BY <1>1 DEF Injection, IsInjective, AreFiles
  <2> HIDE DEF map
  <2> QED BY <1>2, <2>1, FS_Injection
<1> DEFINE parts == UNION {{f.number} \X f.data : f \in fs}
<1>4. parts \subseteq (0 .. next) \X Entries
  BY <1>1
<1>5. IsFiniteSet((0 .. next) \X Entries)
  BY <1>2, EntriesAreFinite, FS_Product
<1>6. IsFiniteSet(parts)
  <2> HIDE DEF parts
  <2> QED BY <1>4, <1>5, FS_Subset
<1>7. Cardinality(parts) \in Nat /\ Cardinality(fs) \in Nat
  BY <1>3, <1>6, FS_CardinalityType
<1>8. fs = {} => parts = {}
  OBVIOUS
<1>9. TotalFileSize(fs) = Cardinality(parts)
  BY DEF TotalFileSize
<1> HIDE DEF parts
<1> QED BY <1>3, <1>7, <1>8, <1>9, FS_EmptySet

(* The files of a version. *)
FilesOK(files, next) ==
    /\ files = [l \in Levels |-> files[l]]
    /\ AreFiles(UNION {files[l] : l \in Levels})
    /\ \A l \in Levels : \A f \in files[l] : f.number < next

LEMMA LevelOK ==
  ASSUME NEW files, NEW next \in Nat, FilesOK(files, next), NEW l \in Levels
  PROVE  /\ AreFiles(files[l]) /\ \A f \in files[l] : IsFile(f) /\ f.number < next
         /\ IsFiniteSet(files[l]) /\ Cardinality(files[l]) \in Nat /\ TotalFileSize(files[l]) \in Nat
         /\ files[l] = {} => Cardinality(files[l]) = 0 /\ TotalFileSize(files[l]) = 0
<1>1. AreFiles(files[l]) /\ \A f \in files[l] : IsFile(f) /\ f.number < next
  BY DEF FilesOK, AreFiles
<1> QED BY <1>1, SizesAreNatural

LEMMA ScoresAreNatural ==
  ASSUME NEW v, NEW next \in Nat, FilesOK(v.files, next)
  PROVE  \A l \in Levels : Score(v, l) \in Nat /\ (v.files[l] = {} => Score(v, l) = 0)
<1> SUFFICES ASSUME NEW l \in Levels PROVE Score(v, l) \in Nat /\ (v.files[l] = {} => Score(v, l) = 0)
  OBVIOUS
<1>1. /\ Cardinality(v.files[l]) \in Nat /\ TotalFileSize(v.files[l]) \in Nat
      /\ v.files[l] = {} => Cardinality(v.files[l]) = 0 /\ TotalFileSize(v.files[l]) = 0
  BY LevelOK
<1>2. MaxBytesForLevel \in Nat /\ kL0_CompactionTrigger \in Nat
  BY LSMConstants
<1>3. ASSUME NEW a \in Nat, NEW b \in Nat PROVE a * b \in Nat /\ 0 * b = 0
  OBVIOUS
<1>4. CASE l = 0
  <2>1. Score(v, l) = Cardinality(v.files[l]) * MaxBytesForLevel
    BY <1>4 DEF Score
  <2> QED BY <1>1, <1>2, <1>3, <2>1
<1>5. CASE l # 0
  <2>1. Score(v, l) = TotalFileSize(v.files[l]) * kL0_CompactionTrigger
    BY <1>5 DEF Score
  <2> QED BY <1>1, <1>2, <1>3, <2>1
<1> QED BY <1>4, <1>5

(* A level that is compacted for its size has a level below it and files. *)
LEMMA CompactionLevelExists ==
  ASSUME NEW v, NEW next \in Nat, FilesOK(v.files, next)
  PROVE  /\ CompactionLevel(v) \in 0 .. kNumLevels - 2
         /\ SizeCompaction(v) => v.files[CompactionLevel(v)] # {}
<1> DEFINE levels == 0 .. kNumLevels - 2
           scores == {Score(v, l) : l \in levels}
           best == {l \in levels : \A o \in levels : Score(v, o) <= Score(v, l)}
<1>1. levels \subseteq Levels /\ 0 \in levels
  BY LSMConstants DEF Levels
<1>2. \A l \in levels : Score(v, l) \in Nat /\ (v.files[l] = {} => Score(v, l) = 0)
  BY <1>1, ScoresAreNatural
<1>3. scores \subseteq Nat /\ scores # {}
  BY <1>1, <1>2
<1>4. Bounded(scores)
  <2>1. IsFiniteSet(levels)
    BY LSMConstants, FS_Interval
  <2> DEFINE map == [l \in levels |-> Score(v, l)]
  <2>2. map \in Surjection(levels, scores)
    BY DEF Surjection
  <2>3. IsFiniteSet(scores)
    <3> HIDE DEF map, levels, scores
    <3> QED BY <2>1, <2>2, FS_Surjection
  <2> HIDE DEF scores
  <2> QED BY <1>3, <2>3, FiniteIsBounded
<1>5. PICK top \in scores : \A x \in scores : top >= x
  <2> HIDE DEF scores
  <2> QED BY <1>3, <1>4, GreatestNatural
<1>6. PICK l \in levels : top = Score(v, l)
  BY <1>5
<1>7. l \in best
  BY <1>2, <1>5, <1>6
<1>8. best \subseteq Nat /\ best # {} /\ best \subseteq levels
  BY <1>7
<1>9. PICK least \in best : \A x \in best : least <= x
  <2> HIDE DEF best, levels
  <2> QED BY <1>8, LeastNatural
<1>10. CompactionLevel(v) = Min(best)
  BY DEF CompactionLevel
<1>11. Min(best) \in best
  <2> HIDE DEF best
  <2> QED BY <1>9 DEF Min
<1>12. CompactionLevel(v) \in levels
  BY <1>8, <1>10, <1>11
<1>13. ASSUME SizeCompaction(v), v.files[CompactionLevel(v)] = {} PROVE FALSE
  <2>1. Score(v, CompactionLevel(v)) = 0
    BY <1>2, <1>12, <1>13
  <2>2. 0 >= kL0_CompactionTrigger * MaxBytesForLevel
    BY <1>13, <2>1 DEF SizeCompaction
  <2>3. kL0_CompactionTrigger \in Nat \ {0} /\ MaxBytesForLevel \in Nat \ {0}
    BY LSMConstants
  <2>4. ASSUME NEW a \in Nat \ {0}, NEW b \in Nat \ {0} PROVE a * b > 0
    OBVIOUS
  <2> QED BY <2>2, <2>3, <2>4
<1> QED BY <1>12, <1>13

-----------------------------------------------------------------------------
(* The inputs of a compaction. *)
LEMMA StaysGapless ==
  ASSUME NEW fs, \A f \in fs : IsFile(f), Gapless(fs), NEW gs, \A g \in gs : IsFile(g),
         \A g \in gs : (\E f \in fs : f.smallest.k <= g.largest.k) /\ (\E f \in fs : g.smallest.k <= f.largest.k)
  PROVE  Gapless(fs \cup gs)
<1> SUFFICES ASSUME NEW k \in UserKeys, NEW a \in fs \cup gs, a.smallest.k <= k, NEW b \in fs \cup gs, k <= b.largest.k,
                    ~ Covered(fs \cup gs, k)
             PROVE  FALSE
  BY DEF Gapless
<1>1. k \in Nat /\ \A f \in fs \cup gs : f.smallest.k \in Nat /\ f.largest.k \in Nat
  BY FileRange, KeysAreNatural
<1>2. \A f \in fs \cup gs : f.largest.k < k \/ k < f.smallest.k
  BY <1>1 DEF Covered
<1>3. (\A f \in fs : k < f.smallest.k) \/ (\A f \in fs : f.largest.k < k)
  <2> SUFFICES ASSUME NEW f \in fs, ~ (k < f.smallest.k), NEW g \in fs, ~ (g.largest.k < k) PROVE FALSE
    OBVIOUS
  <2>1. f.smallest.k <= k /\ k <= g.largest.k
    BY <1>1
  <2>2. Covered(fs, k)
    BY <2>1 DEF Gapless
  <2> QED BY <2>2 DEF Covered
<1>4. CASE \A f \in fs : k < f.smallest.k
  <2>1. a \in gs
    BY <1>1, <1>4
  <2>2. PICK f \in fs : f.smallest.k <= a.largest.k
    BY <2>1
  <2>3. k < f.smallest.k /\ f.smallest.k \in Nat /\ a.largest.k \in Nat /\ a.smallest.k \in Nat
    BY <1>1, <1>4
  <2> QED BY <1>1, <1>2, <2>2, <2>3
<1>5. CASE \A f \in fs : f.largest.k < k
  <2>1. b \in gs
    BY <1>1, <1>5
  <2>2. PICK f \in fs : b.smallest.k <= f.largest.k
    BY <2>1
  <2>3. f.largest.k < k /\ f.largest.k \in Nat /\ b.largest.k \in Nat /\ b.smallest.k \in Nat
    BY <1>1, <1>5
  <2> QED BY <1>1, <1>2, <2>2, <2>3
<1> QED BY <1>3, <1>4, <1>5

(* Files of another level that are taken around some files stay in touch    *)
(* with them.                                                               *)
LEMMA InRangeTouches ==
  ASSUME NEW v, NEW level \in Levels \ {0}, \A f \in v.files[level] : IsFile(f),
         NEW fs, fs # {}, \A f \in fs : IsFile(f), NEW g \in InRange(v, level, fs)
  PROVE  (\E f \in fs : f.smallest.k <= g.largest.k) /\ (\E f \in fs : g.smallest.k <= f.largest.k)
<1>1. InRange(v, level, fs) = InputsBetween(v, level, Low(fs), High(fs))
  BY DEF InRange, GetOverlappingInputs, Low, High
<1>2. g \in v.files[level] /\ g.largest.k >= Low(fs) /\ g.smallest.k <= High(fs)
  BY <1>1 DEF InputsBetween, Overlaps
<1>3. PICK a \in fs : a.smallest.k = Low(fs)
  BY RangeOfFiles
<1>4. PICK b \in fs : b.largest.k = High(fs)
  BY RangeOfFiles
<1>5. g.largest.k \in Nat /\ a.smallest.k \in Nat
  BY <1>2, FileRange
<1> QED BY <1>2, <1>3, <1>4, <1>5

InputsOK(v, c) ==
    /\ c.level \in 0 .. kNumLevels - 2
    /\ c.in0 # {} /\ c.in0 \subseteq v.files[c.level]
    /\ c.in1 = InRange(v, c.level + 1, c.in0)
    /\ c.level = 0 => ApartFrom(v.files[0], c.in0)

LEMMA SetupIsOK ==
  ASSUME NEW v, NEW next \in Nat, FilesOK(v.files, next), NEW level \in 0 .. kNumLevels - 2,
         NEW inputs0, inputs0 # {}, inputs0 \subseteq v.files[level], level = 0 => ApartFrom(v.files[0], inputs0)
  PROVE  LET c == SetupOtherInputs(v, level, inputs0)
         IN  InputsOK(v, c) /\ c.level = level /\ (Gapless(inputs0) => Gapless(c.in0 \cup c.in1))
<1> DEFINE inputs1 == InRange(v, level + 1, inputs0)
           all == inputs0 \cup inputs1
           expanded0 == InRange(v, level, all)
           in0 == Expanded(v, level, inputs0, inputs1)
           c == SetupOtherInputs(v, level, inputs0)
<1>1. level \in Levels /\ level + 1 \in Levels \ {0} /\ level \in Nat
  BY LSMConstants DEF Levels
<1>2. (\A f \in v.files[level] : IsFile(f)) /\ (\A f \in v.files[level + 1] : IsFile(f))
  BY <1>1, LevelOK
<1>3. inputs1 \subseteq v.files[level + 1]
  BY <1>1, <1>2, InRangeKeeps
<1>4. in0 = inputs0 \/ in0 = expanded0
  BY DEF Expanded, Widest
<1>5. c.level = level /\ c.in0 = in0 /\ c.in1 = InRange(v, level + 1, in0)
  BY DEF SetupOtherInputs, WithNextLevel, CompactionOf
<1> HIDE DEF in0, c
<1>6. all # {} /\ \A f \in all : IsFile(f)
  BY <1>2, <1>3
<1> HIDE DEF inputs1
<1>7. inputs0 \subseteq expanded0 /\ expanded0 \subseteq v.files[level] /\ expanded0 # {}
  <2>1. all \cap v.files[level] \subseteq expanded0 /\ expanded0 \subseteq v.files[level]
    <3> HIDE DEF all
    <3> QED BY <1>1, <1>2, <1>6, InRangeKeeps
  <2> QED BY <2>1
<1>8. level = 0 => ApartFrom(v.files[0], expanded0)
  <2> HIDE DEF all
  <2> QED BY <1>2, <1>6, InRangeSettles
<1> HIDE DEF expanded0
<1>9. in0 # {} /\ in0 \subseteq v.files[level] /\ (level = 0 => ApartFrom(v.files[0], in0))
  BY <1>4, <1>7, <1>8
<1>10. InputsOK(v, c)
  BY <1>5, <1>9 DEF InputsOK
<1>11. ASSUME Gapless(inputs0) PROVE Gapless(c.in0 \cup c.in1)
  <2>1. Gapless(all)
    <3>1. \A f \in inputs0 : IsFile(f)
      BY <1>2
    <3>2. Gapless(inputs0 \cup InRange(v, level + 1, inputs0))
      BY <1>1, <1>2, <1>11, <3>1, InRangeGapless
    <3> QED BY <3>2 DEF inputs1
  <2>2. CASE in0 = inputs0
    BY <1>5, <2>1, <2>2 DEF inputs1
  <2>3. CASE in0 = expanded0
    <3> DEFINE new1 == InRange(v, level + 1, expanded0)
    <3>1. Gapless(all \cup expanded0)
      <4> HIDE DEF all
      <4>1. Gapless(all \cup InRange(v, level, all))
        BY <1>1, <1>2, <1>6, <2>1, InRangeGapless
      <4> QED BY <4>1 DEF expanded0
    <3>2. \A f \in expanded0 : IsFile(f)
      BY <1>2, <1>7
    <3>3. inputs1 \subseteq new1
      BY <1>1, <1>2, <1>7, <3>2, InRangeGrows DEF inputs1
    <3>4. \A g \in new1 : (\E f \in expanded0 : f.smallest.k <= g.largest.k) /\ (\E f \in expanded0 : g.smallest.k <= f.largest.k)
      BY <1>1, <1>2, <1>7, <3>2, InRangeTouches
    <3>5. new1 \subseteq v.files[level + 1]
      BY <1>1, <1>2, <1>7, <3>2, InRangeKeeps
    <3> HIDE DEF new1
    <3>6. Gapless((all \cup expanded0) \cup new1)
      <4> DEFINE fs == all \cup expanded0
      <4>1. \A f \in fs : IsFile(f)
        BY <1>6, <3>2
      <4>2. \A g \in new1 : (\E f \in fs : f.smallest.k <= g.largest.k) /\ (\E f \in fs : g.smallest.k <= f.largest.k)
        BY <3>4
      <4>3. \A g \in new1 : IsFile(g)
        BY <1>2, <3>5
      <4> HIDE DEF fs
      <4>4. Gapless(fs)
        BY <3>1 DEF fs
      <4>5. Gapless(fs \cup new1)
        BY <4>1, <4>2, <4>3, <4>4, StaysGapless
      <4> QED BY <4>5 DEF fs
    <3>7. (all \cup expanded0) \cup new1 = c.in0 \cup c.in1
      BY <1>5, <1>7, <2>3, <3>3 DEF new1
    <3> QED BY <3>6, <3>7
  <2> QED BY <1>4, <2>2, <2>3
<1>12. InputsOK(v, c) /\ c.level = level /\ (Gapless(inputs0) => Gapless(c.in0 \cup c.in1))
  BY <1>5, <1>10, <1>11
<1> QED BY <1>12 DEF c

(* A version: the file charged with seeks is one of its files, and not one  *)
(* of the last level.                                                       *)
ChargeOK(v) ==
    SeekCompaction(v) => /\ v.file_to_compact.level \in 0 .. kNumLevels - 2
                         /\ v.file_to_compact.file \in v.files[v.file_to_compact.level]

LEMMA PickIsOK ==
  ASSUME NEW v, NEW next \in Nat, FilesOK(v.files, next), ChargeOK(v), SizeCompaction(v) \/ SeekCompaction(v)
  PROVE  InputsOK(v, PickCompaction(v)) /\ Gapless(PickCompaction(v).in0 \cup PickCompaction(v).in1)
<1> DEFINE level == IF SizeCompaction(v) THEN CompactionLevel(v) ELSE v.file_to_compact.level
           file == FileToCompact(v, level)
           inputs0 == IF level = 0 THEN InRange(v, 0, {file}) ELSE {file}
<1>1. level \in 0 .. kNumLevels - 2
  BY CompactionLevelExists DEF ChargeOK
<1>2. level \in Levels
  BY <1>1, LSMConstants DEF Levels
<1>3. AreFiles(v.files[level]) /\ \A f \in v.files[level] : IsFile(f)
  <2> HIDE DEF level
  <2> QED BY <1>2, LevelOK
<1>4. file \in v.files[level]
  <2>1. CASE SizeCompaction(v)
    <3> DEFINE fs == v.files[level]
               after == {f \in fs : compact_pointer[level] = NoEntry \/ Before(compact_pointer[level], f.largest)}
               from == IF after = {} THEN fs ELSE after
    <3>1. fs # {}
      BY <2>1, CompactionLevelExists
    <3>2. from # {} /\ from \subseteq fs
      BY <3>1
    <3>3. AreFiles(from)
      BY <1>3, <3>2 DEF AreFiles
    <3>4. file = First(from)
      BY <2>1 DEF FileToCompact
    <3> HIDE DEF from
    <3>5. First(from) \in from
      BY <3>2, <3>3, FirstFileExists
    <3> QED BY <3>2, <3>4, <3>5
  <2>2. CASE ~ SizeCompaction(v)
    BY <2>2 DEF FileToCompact, ChargeOK
  <2> QED BY <2>1, <2>2
<1>5. PickCompaction(v) = SetupOtherInputs(v, level, inputs0)
  BY DEF PickCompaction, PickInLevel, InputsFor
<1> HIDE DEF file, level
<1>6. IsFile(file)
  BY <1>3, <1>4
<1>7. Gapless({file})
  BY <1>6, OneFileIsGapless
<1>8. /\ inputs0 # {} /\ inputs0 \subseteq v.files[level] /\ (level = 0 => ApartFrom(v.files[0], inputs0))
      /\ Gapless(inputs0)
  <2>1. CASE level = 0
    <3> DEFINE gs == InRange(v, 0, {file})
    <3>1. inputs0 = gs
      BY <2>1
    <3>2. 0 \in Levels /\ \A f \in v.files[0] : IsFile(f)
      BY <1>2, <1>3, <2>1
    <3>3. {file} \cap v.files[0] \subseteq gs /\ gs \subseteq v.files[0]
      BY <1>6, <3>2, InRangeKeeps
    <3>4. ApartFrom(v.files[0], gs)
      BY <1>6, <3>2, InRangeSettles
    <3>5. Gapless({file} \cup gs)
      BY <1>6, <1>7, <3>2, InRangeGapless
    <3>6. file \in gs
      BY <1>4, <2>1, <3>3
    <3> HIDE DEF gs, inputs0
    <3>7. {file} \cup gs = gs
      BY <3>6
    <3> QED BY <2>1, <3>1, <3>3, <3>4, <3>5, <3>6, <3>7
  <2>2. CASE level # 0
    BY <1>4, <1>7, <2>2
  <2> QED BY <2>1, <2>2
<1> HIDE DEF inputs0
<1>9. LET c == SetupOtherInputs(v, level, inputs0)
      IN  InputsOK(v, c) /\ c.level = level /\ (Gapless(inputs0) => Gapless(c.in0 \cup c.in1))
  BY <1>1, <1>8, SetupIsOK
<1> QED BY <1>5, <1>8, <1>9

LEMMA CompactRangeIsOK ==
  ASSUME mode \in Modes, NEW v, NEW next \in Nat, FilesOK(v.files, next), NEW level \in 0 .. kNumLevels - 2,
         NEW lo \in UserKeys, NEW hi \in UserKeys, GetOverlappingInputs(v, level, lo, hi) # {}
  PROVE  InputsOK(v, CompactRange(v, level, lo, hi))
<1> DEFINE fs == GetOverlappingInputs(v, level, lo, hi)
           AheadOf(f) == {g \in fs : BySmallestKey(g, f)}
           inputs0 == IF level = 0 THEN fs ELSE {f \in fs : TotalFileSize(AheadOf(f)) < mode.max_file_size}
<1>1. CompactRange(v, level, lo, hi) = SetupOtherInputs(v, level, inputs0)
  BY DEF CompactRange
<1>2. level \in Levels
  BY LSMConstants DEF Levels
<1>3. AreFiles(v.files[level]) /\ \A f \in v.files[level] : IsFile(f)
  BY <1>2, LevelOK
<1>4. fs \subseteq v.files[level]
  BY DEF GetOverlappingInputs, InputsBetween
<1>5. inputs0 # {}
  <2>1. CASE level = 0
    BY <2>1
  <2>2. CASE level # 0
    <3> DEFINE f == First(fs)
    <3>1. AreFiles(fs)
      BY <1>3, <1>4 DEF AreFiles
    <3>2. f \in fs /\ \A g \in fs : ~ BySmallestKey(g, f)
      <4> HIDE DEF fs
      <4>1. fs # {}
        BY DEF fs
      <4> QED BY <3>1, <4>1, FirstFileExists
    <3>3. AheadOf(f) = {}
      BY <3>2
    <3>4. TotalFileSize({}) = 0
      BY FS_EmptySet DEF TotalFileSize
    <3>5. mode.max_file_size \in Nat \ {0}
      BY LSMConstants
    <3>6. TotalFileSize(AheadOf(f)) < mode.max_file_size
      BY <3>3, <3>4, <3>5
    <3> QED BY <2>2, <3>2, <3>6
  <2> QED BY <2>1, <2>2
<1>6. inputs0 \subseteq v.files[level]
  BY <1>4
<1>7. level = 0 => ApartFrom(v.files[0], inputs0)
  BY <1>3, InputsSettle
<1> HIDE DEF inputs0
<1>9. LET c == SetupOtherInputs(v, level, inputs0)
      IN  InputsOK(v, c) /\ c.level = level /\ (Gapless(inputs0) => Gapless(c.in0 \cup c.in1))
  BY <1>5, <1>6, <1>7, SetupIsOK
<1> QED BY <1>1, <1>9

(* The files opened for a key: one of each level above 0. *)
LEMMA FilesForAre ==
  ASSUME NEW v, NEW next \in Nat, FilesOK(v.files, next), NEW key, NEW k
  PROVE  /\ \A a \in FilesFor(v, key, k) :
               a.level \in Levels /\ a.file \in v.files[a.level] /\ a.file.number \in 0 .. next
         /\ \A a, b \in FilesFor(v, key, k) :
               a.level = b.level /\ (a.level # 0 \/ a.file.number = b.file.number) => a = b
<1> DEFINE zero == {[file |-> f, level |-> 0] : f \in InputsBetween(v, 0, k, k)}
           found == {[file |-> FindFile(v.files[l], key), level |-> l] : l \in Levels \ {0}}
           deep == {c \in found : c.file # NoFile /\ k >= c.file.smallest.k}
<1>1. FilesFor(v, key, k) = zero \cup deep
  BY DEF FilesFor
<1>2. 0 \in Levels /\ \A l \in Levels : AreFiles(v.files[l]) /\ \A f \in v.files[l] : f.number \in 0 .. next
  <2>1. 0 \in Levels
    BY LSMConstants DEF Levels
  <2>2. ASSUME NEW l \in Levels PROVE AreFiles(v.files[l]) /\ \A f \in v.files[l] : f.number \in 0 .. next
    BY LevelOK DEF IsFile
  <2> QED BY <2>1, <2>2
<1>3. \A a \in zero : a.level = 0 /\ a.file \in v.files[0] /\ a = [file |-> a.file, level |-> a.level]
  BY DEF InputsBetween
<1>4. ASSUME NEW a \in deep
      PROVE  /\ a.level \in Levels \ {0} /\ a.file \in v.files[a.level]
             /\ a = [file |-> FindFile(v.files[a.level], key), level |-> a.level]
  <2>1. PICK l \in Levels \ {0} : a = [file |-> FindFile(v.files[l], key), level |-> l]
    BY <1>4
  <2>2. a.level = l /\ a.file = FindFile(v.files[l], key) /\ a.file # NoFile
    BY <1>4, <2>1
  <2> DEFINE reach == {f \in v.files[l] : ~ Before(f.largest, key)}
  <2>3. reach # {} /\ a.file = First(reach)
    BY <2>2 DEF FindFile
  <2>4. AreFiles(reach)
    BY <1>2 DEF AreFiles
  <2>5. First(reach) \in reach
    <3> HIDE DEF reach
    <3> QED BY <2>3, <2>4, FirstFileExists
  <2> QED BY <2>1, <2>2, <2>3, <2>5
<1> HIDE DEF zero, deep
<1>5. ASSUME NEW a \in zero \cup deep PROVE a.level \in Levels /\ a.file \in v.files[a.level]
  BY <1>2, <1>3, <1>4, <1>5
<1>6. ASSUME NEW a \in zero \cup deep, NEW b \in zero \cup deep, a.level = b.level,
             a.level # 0 \/ a.file.number = b.file.number
      PROVE  a = b
  <2>1. CASE a.level = 0
    <3>1. a \in zero /\ b \in zero
      BY <1>4, <1>6, <2>1
    <3>2. a.file = b.file
      BY <1>2, <1>3, <1>6, <2>1, <3>1 DEF AreFiles
    <3> QED BY <1>3, <1>6, <3>1, <3>2
  <2>2. CASE a.level # 0
    <3>1. a \in deep /\ b \in deep
      BY <1>3, <1>6, <2>2
    <3> QED BY <1>4, <1>6, <3>1
  <2> QED BY <2>1, <2>2
<1>7. \A a \in zero \cup deep : a.level \in Levels /\ a.file \in v.files[a.level] /\ a.file.number \in 0 .. next
  BY <1>2, <1>5
<1> QED BY <1>1, <1>6, <1>7

LEMMA FirstOfExists ==
  ASSUME NEW cs, cs # {}, NEW next \in Nat,
         \A a \in cs : a.level \in Levels /\ a.file.number \in 0 .. next,
         \A a, b \in cs : a.level = b.level /\ (a.level # 0 \/ a.file.number = b.file.number) => a = b
  PROVE  FirstOf(cs) \in cs /\ \A b \in cs \ {FirstOf(cs)} : Earlier(FirstOf(cs), b)
<1> DEFINE levels == {a.level : a \in cs}
<1>1. levels \subseteq Nat /\ levels # {}
  BY LSMConstants DEF Levels
<1>2. PICK l \in levels : \A m \in levels : l <= m
  <2> HIDE DEF levels
  <2> QED BY <1>1, LeastNatural
<1> DEFINE numbers == {a.file.number : a \in {c \in cs : c.level = l}}
<1>3. numbers \subseteq Nat /\ numbers # {} /\ numbers \subseteq 0 .. next
  BY <1>2
<1>4. Bounded(numbers)
  BY <1>3 DEF Bounded
<1>5. PICK n \in numbers : \A m \in numbers : n >= m
  <2> HIDE DEF numbers
  <2> QED BY <1>3, <1>4, GreatestNatural
<1>6. PICK a \in cs : a.level = l /\ a.file.number = n
  BY <1>5
<1>7. ASSUME NEW b \in cs \ {a} PROVE Earlier(a, b)
  <2>1. b.level \in levels /\ l <= b.level /\ l \in Nat /\ b.level \in Nat
    BY <1>1, <1>2, <1>7
  <2>2. CASE l < b.level
    BY <1>6, <2>2 DEF Earlier
  <2>3. CASE l = b.level
    <3>1. b.file.number \in numbers
      BY <1>7, <2>3
    <3>2. n # b.file.number
      BY <1>6, <1>7, <2>3
    <3>3. n >= b.file.number /\ n \in Nat /\ b.file.number \in Nat
      <4> HIDE DEF numbers
      <4> QED BY <1>3, <1>5, <3>1
    <3>4. n > b.file.number
      BY ONLY <3>2, <3>3
    <3> QED BY <1>6, <2>3, <3>4 DEF Earlier
  <2> QED BY <2>1, <2>2, <2>3
<1>8. \E c \in cs : \A b \in cs \ {c} : Earlier(c, b)
  BY <1>7
<1> QED BY <1>8 DEF FirstOf

(* A file that is charged was opened before another one, so it is not in    *)
(* the last level.                                                          *)
LEMMA ChargedIsOK ==
  ASSUME NEW v, NEW next \in Nat, FilesOK(v.files, next), NEW key, NEW k, Cardinality(FilesFor(v, key, k)) > 1
  PROVE  LET a == FirstOf(FilesFor(v, key, k))
         IN  a.level \in 0 .. kNumLevels - 2 /\ a.file \in v.files[a.level]
<1> DEFINE cs == FilesFor(v, key, k)
           a == FirstOf(cs)
<1>1. /\ \A c \in cs : c.level \in Levels /\ c.file \in v.files[c.level] /\ c.file.number \in 0 .. next
      /\ \A c, b \in cs : c.level = b.level /\ (c.level # 0 \/ c.file.number = b.file.number) => c = b
  BY FilesForAre
<1>2. Cardinality(cs) > 1
  OBVIOUS
<1> HIDE DEF cs
<1>3. cs # {}
  BY <1>2, FS_EmptySet
<1>4. a \in cs /\ \A b \in cs \ {a} : Earlier(a, b)
  BY <1>1, <1>3, FirstOfExists
<1> HIDE DEF a
<1>5. PICK b \in cs : b # a
  <2>1. Cardinality({a}) = 1
    BY FS_Singleton
  <2>2. cs # {a}
    BY <1>2, <2>1
  <2> QED BY <1>4, <2>2
<1>6. Earlier(a, b)
  BY <1>4, <1>5
<1>7. a.level \in Levels /\ b.level \in Levels /\ a.file \in v.files[a.level]
  BY <1>1, <1>4
<1>8. a.level < b.level \/ a.level = 0
  <2>1. CASE a.level = b.level /\ a.level # 0
    BY <1>1, <1>4, <1>5, <2>1
  <2> QED BY <1>6, <2>1 DEF Earlier
<1>9. a.level \in 0 .. kNumLevels - 2
  BY <1>7, <1>8, LSMConstants DEF Levels
<1> QED BY <1>7, <1>9 DEF a, cs

-----------------------------------------------------------------------------
(* The outputs of a compaction are not empty, have entries of the inputs    *)
(* only, and are in order.                                                  *)
Ahead(A, B) == \A a \in A, b \in B : Before(a, b)
Distinct(es) == \A a, b \in es : a.s = b.s => a = b
WellKept(es) == es \subseteq Entries /\ Distinct(es)
IsNewest(e, es, s) == e \in es /\ e.s <= s /\ \A o \in es : o.k = e.k /\ o.s <= s => o.s <= e.s
InOrder(outputs, input) ==
    /\ outputs \in Seq(SUBSET input)
    /\ \A i \in 1 .. Len(outputs) : outputs[i] # {}
    /\ \A i, j \in 1 .. Len(outputs) : i < j => Ahead(outputs[i], outputs[j])

IsWork(w) ==
    w = [input |-> w.input, outputs |-> w.outputs, builder |-> w.builder, user_key |-> w.user_key,
         last_sequence |-> w.last_sequence, grandparents |-> w.grandparents, seen |-> w.seen,
         overlapped |-> w.overlapped, stop |-> w.stop]
WorkAt(w, input, rest) ==
    /\ IsWork(w) /\ InOrder(w.outputs, input)
    /\ w.builder \subseteq input /\ Ahead(w.builder, rest)
    /\ \A i \in 1 .. Len(w.outputs) : Ahead(w.outputs[i], w.builder) /\ Ahead(w.outputs[i], rest)
(* What was kept so far. *)
KeptBy(w) == w.builder \cup UNION {w.outputs[i] : i \in 1 .. Len(w.outputs)}
SameRun(w, x) == KeptBy(w) = KeptBy(x) /\ w.user_key = x.user_key /\ w.last_sequence = x.last_sequence

LEMMA KeptIs ==
  ASSUME NEW w, NEW x
  PROVE  x \in KeptBy(w) <=> x \in w.builder \/ \E i \in 1 .. Len(w.outputs) : x \in w.outputs[i]
  BY DEF KeptBy

LEMMA OneMoreOutput ==
  ASSUME NEW outputs, NEW input, InOrder(outputs, input), NEW b, b \subseteq input, b # {},
         \A i \in 1 .. Len(outputs) : Ahead(outputs[i], b)
  PROVE  /\ InOrder(Append(outputs, b), input)
         /\ Len(Append(outputs, b)) = Len(outputs) + 1
         /\ \A i \in 1 .. Len(outputs) + 1 : Append(outputs, b)[i] = IF i <= Len(outputs) THEN outputs[i] ELSE b
<1> DEFINE n == Len(outputs)
           new == Append(outputs, b)
<1>1. outputs \in Seq(SUBSET input) /\ n \in Nat
  BY DEF InOrder
<1>2. new \in Seq(SUBSET input) /\ Len(new) = n + 1 /\ \A i \in 1 .. n + 1 : new[i] = IF i <= n THEN outputs[i] ELSE b
  BY <1>1
<1> HIDE DEF new
<1>3. \A i \in 1 .. n + 1 : i <= n => i \in 1 .. n
  BY <1>1
<1>4. \A i \in 1 .. n + 1 : new[i] # {}
  BY <1>2, <1>3 DEF InOrder
<1>5. ASSUME NEW i \in 1 .. n + 1, NEW j \in 1 .. n + 1, i < j PROVE Ahead(new[i], new[j])
  <2>1. i \in 1 .. n /\ i <= n
    BY <1>1, <1>5
  <2>2. CASE j <= n
    BY <1>2, <1>3, <1>5, <2>1, <2>2 DEF InOrder
  <2>3. CASE ~ (j <= n)
    BY <1>2, <1>5, <2>1, <2>3
  <2> QED BY <2>2, <2>3
<1>6. InOrder(new, input)
  BY <1>2, <1>4, <1>5 DEF InOrder
<1> QED BY <1>2, <1>6 DEF new

LEMMA FinishOutputOK ==
  ASSUME NEW w, NEW input, NEW rest, WorkAt(w, input, rest)
  PROVE  WorkAt(FinishOutput(w), input, rest) /\ FinishOutput(w).input = w.input /\ SameRun(FinishOutput(w), w)
<1>1. CASE w.builder = {}
  BY <1>1 DEF FinishOutput, SameRun
<1>2. CASE w.builder # {}
  <2> DEFINE more == Append(w.outputs, w.builder)
             new == FinishOutput(w)
  <2>1. new = [w EXCEPT !.outputs = more, !.builder = {}]
    BY <1>2 DEF FinishOutput, WorkAt, IsWork
  <2>2. /\ InOrder(more, input) /\ Len(more) = Len(w.outputs) + 1
        /\ \A i \in 1 .. Len(w.outputs) + 1 : more[i] = IF i <= Len(w.outputs) THEN w.outputs[i] ELSE w.builder
    BY <1>2, OneMoreOutput DEF WorkAt
  <2> HIDE DEF new, more
  <2>3. /\ IsWork(new) /\ new.outputs = more /\ new.builder = {} /\ new.input = w.input
        /\ new.user_key = w.user_key /\ new.last_sequence = w.last_sequence
    BY <2>1 DEF WorkAt, IsWork
  <2>4. Len(w.outputs) \in Nat
    BY DEF WorkAt, InOrder
  <2>5. ASSUME NEW i \in 1 .. Len(more) PROVE Ahead(more[i], {}) /\ Ahead(more[i], rest)
    <3>1. CASE i <= Len(w.outputs)
      <4>1. i \in 1 .. Len(w.outputs) /\ more[i] = w.outputs[i]
        BY <2>2, <2>4, <3>1
      <4> QED BY <4>1 DEF WorkAt, Ahead
    <3>2. CASE ~ (i <= Len(w.outputs))
      <4>1. more[i] = w.builder
        BY <2>2, <3>2
      <4> QED BY <4>1 DEF WorkAt, Ahead
    <3> QED BY <3>1, <3>2
  <2>6. Ahead({}, rest) /\ {} \subseteq input
    BY DEF Ahead
  <2>7. WorkAt(new, input, rest)
    BY <2>2, <2>3, <2>5, <2>6 DEF WorkAt
  <2>8. KeptBy(new) = KeptBy(w)
    <3>1. \A i \in 1 .. Len(w.outputs) : i \in 1 .. Len(w.outputs) + 1 /\ more[i] = w.outputs[i]
      BY <2>2, <2>4
    <3>2. more[Len(w.outputs) + 1] = w.builder /\ Len(w.outputs) + 1 \in 1 .. Len(w.outputs) + 1
      BY <2>2, <2>4
    <3>3. \A i \in 1 .. Len(w.outputs) + 1 : i \in 1 .. Len(w.outputs) \/ i = Len(w.outputs) + 1
      BY <2>4
    <3>4. ASSUME NEW x PROVE x \in KeptBy(new) <=> x \in KeptBy(w)
      <4>1. x \in KeptBy(new) <=> \E i \in 1 .. Len(w.outputs) + 1 : x \in more[i]
        BY <2>2, <2>3, KeptIs
      <4>2. x \in KeptBy(w) <=> x \in w.builder \/ \E i \in 1 .. Len(w.outputs) : x \in w.outputs[i]
        BY KeptIs
      <4> QED BY <3>1, <3>2, <3>3, <4>1, <4>2
    <3> QED BY <3>4
  <2> QED BY <2>3, <2>7, <2>8 DEF new, SameRun
<1> QED BY <1>1, <1>2

Remain(w, es) == w.input = es
Drops(v, c, w, e) == Drop(v, c, w, e, w.user_key # e.k)
Passed(x, v, c, w, e) ==
    /\ x.user_key = e.k /\ x.last_sequence = e.s
    /\ Drops(v, c, w, e) => KeptBy(x) = KeptBy(w)
    /\ ~ Drops(v, c, w, e) => KeptBy(x) = KeptBy(w) \cup {e}
LEMMA CompactEntryOK ==
  ASSUME NEW v, NEW c, NEW w, NEW input, WorkAt(w, input, w.input), NEW e \in input, e \in w.input,
         \A o \in w.input \ {e} : Before(e, o)
  PROVE  /\ WorkAt(CompactEntry(v, c, w, e), input, w.input \ {e})
         /\ Remain(CompactEntry(v, c, w, e), w.input \ {e})
         /\ Passed(CompactEntry(v, c, w, e), v, c, w, e)
<1> DEFINE w1 == PassGrandparents(w, e)
           w2 == CutBefore(w1)
           dropped == Drop(v, c, w, e, w.user_key # e.k)
           w3 == AddUnless(dropped, w2, e)
           w4 == CutIfFull(w3)
           w5 == CompactEntry(v, c, w, e)
           rest == w.input \ {e}
<1>1. WorkAt(w1, input, w.input) /\ w1.input = w.input /\ SameRun(w1, w)
  <2>1. PICK gs, ov, st : w1 = [w EXCEPT !.grandparents = gs, !.seen = TRUE, !.overlapped = ov, !.stop = st]
    BY DEF PassGrandparents, WorkAt, IsWork
  <2> HIDE DEF w1
  <2>2. /\ IsWork(w1) /\ w1.outputs = w.outputs /\ w1.builder = w.builder /\ w1.input = w.input
        /\ w1.user_key = w.user_key /\ w1.last_sequence = w.last_sequence
    BY <2>1 DEF WorkAt, IsWork
  <2> QED BY <2>2 DEF WorkAt, SameRun, KeptBy
<1> HIDE DEF w1
<1>2. WorkAt(w2, input, w.input) /\ w2.input = w.input /\ SameRun(w2, w)
  <2>1. WorkAt(w2, input, w.input) /\ w2.input = w.input /\ SameRun(w2, w1)
    <3>1. SameRun(w1, w1)
      BY DEF SameRun
    <3> QED BY <1>1, <3>1, FinishOutputOK DEF CutBefore
  <2> QED BY <1>1, <2>1 DEF SameRun
<1>3. w5 = [w4 EXCEPT !.input = @ \ {e}, !.user_key = e.k, !.last_sequence = e.s]
  BY DEF CompactEntry, w1
<1> HIDE DEF w2, w5
<1>4. /\ WorkAt(w3, input, rest) /\ w3.input = w.input
      /\ dropped => KeptBy(w3) = KeptBy(w)
      /\ ~ dropped => KeptBy(w3) = KeptBy(w) \cup {e}
  <2>0. rest \subseteq w.input /\ Ahead({e}, rest)
    BY DEF Ahead
  <2>1. CASE dropped
    <3>1. w3 = w2
      BY <2>1 DEF AddUnless
    <3> HIDE DEF dropped, w3
    <3> QED BY <1>2, <2>0, <2>1, <3>1 DEF WorkAt, Ahead, SameRun
  <2>2. CASE ~ dropped
    <3>0. w3 = [w2 EXCEPT !.builder = @ \cup {e}]
      BY <2>2 DEF AddUnless
    <3> HIDE DEF dropped, w3
    <3>1. IsWork(w3) /\ w3.outputs = w2.outputs /\ w3.builder = w2.builder \cup {e} /\ w3.input = w.input
      BY <1>2, <3>0 DEF WorkAt, IsWork
    <3>2. w3.builder \subseteq input /\ Ahead(w3.builder, rest)
      BY <1>2, <2>0, <3>1 DEF WorkAt, Ahead
    <3>3. \A i \in 1 .. Len(w3.outputs) : Ahead(w3.outputs[i], w3.builder) /\ Ahead(w3.outputs[i], rest)
      BY <1>2, <2>0, <3>1 DEF WorkAt, Ahead
    <3>4. WorkAt(w3, input, rest)
      BY <1>2, <3>1, <3>2, <3>3 DEF WorkAt
    <3>5. KeptBy(w3) = KeptBy(w2) \cup {e}
      BY <3>1, KeptIs
    <3> QED BY <1>2, <2>2, <3>1, <3>4, <3>5 DEF SameRun
  <2> QED BY <2>1, <2>2
<1> HIDE DEF w3
<1>5. WorkAt(w4, input, rest) /\ w4.input = w.input /\ KeptBy(w4) = KeptBy(w3)
  BY <1>4, FinishOutputOK DEF CutIfFull, SameRun
<1> HIDE DEF w4
<1>6. /\ IsWork(w5) /\ w5.outputs = w4.outputs /\ w5.builder = w4.builder /\ w5.input = rest
      /\ w5.user_key = e.k /\ w5.last_sequence = e.s
  BY <1>3, <1>5 DEF WorkAt, IsWork
<1>7. WorkAt(w5, input, rest)
  BY <1>5, <1>6 DEF WorkAt
<1>8. KeptBy(w5) = KeptBy(w4)
  BY <1>6 DEF KeptBy
<1>9. dropped <=> Drops(v, c, w, e)
  BY DEF Drops
<1> HIDE DEF dropped
<1>10. Passed(w5, v, c, w, e)
  BY <1>4, <1>5, <1>6, <1>8, <1>9 DEF Passed
<1> QED BY <1>6, <1>7, <1>10 DEF w5, Remain

(* The loop over the merged inputs is defined by recursion on its steps. *)
IsRun(f, n, v, c, input) ==
    /\ DOMAIN f = 0 .. n
    /\ f = [k \in 0 .. n |-> IF k = 0 THEN NewWork(c, input) ELSE CompactNext(v, c, f[k - 1])]

LEMMA RunExists ==
  ASSUME NEW v, NEW c, NEW input, NEW n \in Nat
  PROVE  \E f : IsRun(f, n, v, c, input)
<1> DEFINE bad == {k \in Nat : ~ \E f : IsRun(f, k, v, c, input)}
<1>1. SUFFICES ASSUME bad # {} PROVE FALSE
  OBVIOUS
<1>2. PICK m \in bad : \A k \in bad : m <= k
  <2>1. bad \subseteq Nat
    OBVIOUS
  <2> HIDE DEF bad
  <2> QED BY <1>1, <2>1, LeastNatural
<1>3. m \in Nat /\ ~ \E f : IsRun(f, m, v, c, input)
  OBVIOUS
<1>4. CASE m = 0
  <2> DEFINE f == [k \in 0 .. 0 |-> NewWork(c, input)]
  <2>1. IsRun(f, 0, v, c, input)
    <3>1. \A k \in 0 .. 0 : k = 0
      OBVIOUS
    <3> QED BY <3>1 DEF IsRun
  <2> QED BY <1>3, <1>4, <2>1
<1>5. CASE m # 0
  <2>1. m - 1 \in Nat /\ m - 1 \notin bad
    BY <1>2, <1>3, <1>5
  <2>2. PICK f : IsRun(f, m - 1, v, c, input)
    BY <2>1
  <2> DEFINE g == [k \in 0 .. m |-> IF k = m THEN CompactNext(v, c, f[m - 1]) ELSE f[k]]
  <2>3. \A k \in 0 .. m : k # m => k \in 0 .. m - 1
    BY <1>3
  <2>4. ASSUME NEW k \in 0 .. m
        PROVE  g[k] = IF k = 0 THEN NewWork(c, input) ELSE CompactNext(v, c, g[k - 1])
    <3>1. CASE k = m
      <4>1. m - 1 \in 0 .. m /\ m - 1 # m
        BY <1>3, <1>5
      <4>2. g[m - 1] = f[m - 1] /\ g[m] = CompactNext(v, c, f[m - 1])
        BY <1>3, <4>1
      <4> QED BY <1>5, <3>1, <4>2
    <3>2. CASE k # m /\ k = 0
      <4>1. g[k] = f[k] /\ k \in 0 .. m - 1
        BY <2>3, <3>2
      <4>2. f[k] = NewWork(c, input)
        BY <2>2, <3>2, <4>1 DEF IsRun
      <4> QED BY <3>2, <4>1, <4>2
    <3>3. CASE k # m /\ k # 0
      <4>1. k - 1 \in 0 .. m /\ k - 1 # m /\ k \in 0 .. m - 1
        BY <1>3, <2>4, <3>3
      <4>2. g[k] = f[k] /\ g[k - 1] = f[k - 1]
        BY <3>3, <4>1
      <4>3. f[k] = CompactNext(v, c, f[k - 1])
        BY <2>2, <3>3, <4>1 DEF IsRun
      <4> QED BY <3>3, <4>2, <4>3
    <3> QED BY <3>1, <3>2, <3>3
  <2>5. DOMAIN g = 0 .. m /\ g = [k \in 0 .. m |-> g[k]]
    OBVIOUS
  <2> HIDE DEF g
  <2>6. IsRun(g, m, v, c, input)
    BY <2>4, <2>5 DEF IsRun
  <2> QED BY <1>3, <2>6
<1> QED BY <1>4, <1>5

(* How much of the input was kept, rest being still to be read: an entry    *)
(* with a newer one of its key before it is kept only if that is too new    *)
(* for some snapshot; the newest one for a snapshot is kept, unless it is   *)
(* a deletion of a key that no deeper level has.                            *)
Dropped(v, c, e) == e.t = kTypeDeletion /\ e.s <= c.smallest_snapshot /\ IsBaseLevelForKey(v, c, e.k)
KeptRight(v, c, input, done, out) ==
    /\ out \subseteq done
    /\ \A o \in out, p \in done : p.k = o.k /\ p.s > o.s => p.s > c.smallest_snapshot
    /\ \A s \in 0 .. MaxWrites, p \in done :
          c.smallest_snapshot <= s /\ IsNewest(p, input, s) => p \in out \/ Dropped(v, c, p)
AtKey(w, done, rest) ==
    /\ Ahead(done, rest)
    /\ \A p \in done, r \in rest : p.k = r.k => w.user_key = r.k /\ w.last_sequence <= p.s
    /\ \A r \in rest : w.user_key = r.k => \E p \in done : p.k = r.k /\ p.s = w.last_sequence
RunAt(w, v, c, input, rest) ==
    AtKey(w, input \ rest, rest) /\ KeptRight(v, c, input, input \ rest, KeptBy(w))

LEMMA RunGoesOn ==
  ASSUME NEW v, NEW c, c.smallest_snapshot \in Nat, NEW w, NEW x, NEW input, WellKept(input), NEW rest, rest \subseteq input,
         NEW e \in rest, \A o \in rest \ {e} : Before(e, o), RunAt(w, v, c, input, rest), Passed(x, v, c, w, e)
  PROVE  RunAt(x, v, c, input, rest \ {e})
<1> DEFINE done == input \ rest
           left == rest \ {e}
           now == input \ left
           ss == c.smallest_snapshot
<1>1. now = done \cup {e} /\ done \subseteq input /\ e \in input /\ left \subseteq input /\ left \subseteq rest
  OBVIOUS
<1>2. \A a \in input : a \in Entries /\ a.k \in Nat \ {0} /\ a.s \in Nat
  BY EntryNumbers DEF WellKept
<1>3. /\ Ahead(done, rest)
      /\ \A p \in done, r \in rest : p.k = r.k => w.user_key = r.k /\ w.last_sequence <= p.s
      /\ \A r \in rest : w.user_key = r.k => \E p \in done : p.k = r.k /\ p.s = w.last_sequence
  BY DEF RunAt, AtKey
<1>4. /\ KeptBy(w) \subseteq done
      /\ \A o \in KeptBy(w), p \in done : p.k = o.k /\ p.s > o.s => p.s > ss
      /\ \A s \in 0 .. MaxWrites, p \in done :
            ss <= s /\ IsNewest(p, input, s) => p \in KeptBy(w) \/ Dropped(v, c, p)
  BY DEF RunAt, KeptRight
<1>5. x.user_key = e.k /\ x.last_sequence = e.s
  BY DEF Passed
<1> HIDE DEF done, left, now
<1>6. \A p \in done : Before(p, e) /\ p.k <= e.k /\ (p.k = e.k => p.s > e.s)
  <2> SUFFICES ASSUME NEW p \in done PROVE Before(p, e) /\ p.k <= e.k /\ (p.k = e.k => p.s > e.s)
    OBVIOUS
  <2>1. Before(p, e)
    BY <1>3 DEF Ahead
  <2>2. p.k \in Nat /\ e.k \in Nat /\ p.s \in Nat /\ e.s \in Nat
    BY <1>1, <1>2
  <2> QED BY <2>1, <2>2 DEF Before
<1>7. AtKey(x, now, left)
  <2>1. Ahead(now, left)
    BY <1>1, <1>3 DEF Ahead, left
  <2>2. ASSUME NEW p \in now, NEW r \in left, p.k = r.k PROVE x.user_key = r.k /\ x.last_sequence <= p.s
    <3>1. Before(e, r) /\ e.k \in Nat /\ r.k \in Nat /\ e.s \in Nat /\ p.s \in Nat
      BY <1>1, <1>2 DEF left
    <3>2. e.k <= r.k
      BY <3>1 DEF Before
    <3>3. p = e \/ (p.k <= e.k /\ (p.k = e.k => p.s > e.s))
      BY <1>1, <1>6
    <3>4. e.k = r.k
      BY <2>2, <3>1, <3>2, <3>3
    <3> QED BY <1>5, <2>2, <3>1, <3>3, <3>4
  <2>3. \A r \in left : x.user_key = r.k => \E p \in now : p.k = r.k /\ p.s = x.last_sequence
    BY <1>1, <1>5
  <2> QED BY <2>1, <2>2, <2>3 DEF AtKey
<1>8. KeptBy(x) \subseteq now
  BY <1>1, <1>4 DEF Passed
<1>9. ASSUME NEW o \in KeptBy(x), NEW p \in now, p.k = o.k, p.s > o.s PROVE p.s > ss
  <2>1. o \in KeptBy(w) \/ (o = e /\ ~ Drops(v, c, w, e))
    BY DEF Passed
  <2>2. p.s \in Nat /\ o.s \in Nat /\ ss \in Nat
    BY <1>1, <1>2, <1>8
  <2>3. CASE o \in KeptBy(w) /\ p = e
    BY <1>2, <1>4, <1>6, <1>9, <2>2, <2>3
  <2>4. CASE o \in KeptBy(w) /\ p \in done
    BY <1>4, <1>9, <2>4
  <2>5. CASE o = e /\ ~ Drops(v, c, w, e)
    <3>1. p \in done
      BY <1>1, <1>9, <2>2, <2>5
    <3>2. w.user_key = e.k /\ w.last_sequence <= p.s
      BY <1>3, <1>9, <2>5, <3>1
    <3>3. ~ (w.last_sequence <= ss)
      BY <2>5, <3>2 DEF Drops, Drop
    <3>4. w.last_sequence \in Nat
      <4>1. PICK q \in done : q.s = w.last_sequence
        BY <1>3, <3>2
      <4> QED BY <1>1, <1>2, <4>1
    <3> QED BY <2>2, <3>2, <3>3, <3>4
  <2> QED BY <1>1, <2>1, <2>3, <2>4, <2>5
<1>10. ASSUME NEW s \in 0 .. MaxWrites, NEW p \in now, ss <= s, IsNewest(p, input, s)
       PROVE  p \in KeptBy(x) \/ Dropped(v, c, p)
  <2>1. CASE p \in done
    <3>1. p \in KeptBy(w) \/ Dropped(v, c, p)
      BY <1>4, <1>10, <2>1
    <3>2. KeptBy(w) \subseteq KeptBy(x)
      BY DEF Passed
    <3> QED BY <3>1, <3>2
  <2>2. CASE p = e /\ ~ Drops(v, c, w, e)
    BY <2>2 DEF Passed
  <2>3. CASE p = e /\ Drops(v, c, w, e)
    <3>1. CASE w.user_key = e.k /\ w.last_sequence <= ss
      <4>1. PICK q \in done : q.k = e.k /\ q.s = w.last_sequence
        BY <1>3, <3>1
      <4>2. q \in input /\ q.s > e.s /\ q.s <= ss /\ q.s \in Nat /\ e.s \in Nat
        BY <1>1, <1>2, <1>6, <3>1, <4>1
      <4>3. s \in Nat /\ ss \in Nat
        BY KeysAreNatural
      <4>4. q.s <= s
        BY <1>10, <4>2, <4>3
      <4>5. q.s <= e.s
        BY <1>10, <2>3, <4>1, <4>2, <4>4 DEF IsNewest
      <4> QED BY <4>2, <4>5
    <3>2. CASE ~ (w.user_key = e.k /\ w.last_sequence <= ss)
      BY <2>3, <3>2 DEF Drops, Drop, Dropped
    <3> QED BY <3>1, <3>2
  <2> QED BY <1>1, <2>1, <2>2, <2>3
<1>11. KeptRight(v, c, input, now, KeptBy(x))
  BY <1>8, <1>9, <1>10 DEF KeptRight
<1> QED BY <1>7, <1>11 DEF RunAt, now, left

LEMMA RunOK ==
  ASSUME NEW v, NEW c, NEW input, input \subseteq Entries, Distinct(input), NEW f,
         IsRun(f, Cardinality(input), v, c, input), NEW n \in 0 .. Cardinality(input)
  PROVE  /\ WorkAt(f[n], input, f[n].input) /\ f[n].input \subseteq input
         /\ Cardinality(f[n].input) = Cardinality(input) - n
         /\ c.smallest_snapshot \in Nat => RunAt(f[n], v, c, input, f[n].input)
<1> DEFINE card == Cardinality(input)
           Good(k) == /\ WorkAt(f[k], input, f[k].input) /\ f[k].input \subseteq input
                      /\ Cardinality(f[k].input) = card - k
                      /\ c.smallest_snapshot \in Nat => RunAt(f[k], v, c, input, f[k].input)
           bad == {k \in 0 .. card : ~ Good(k)}
<1>0. IsFiniteSet(input) /\ card \in Nat
  BY EntriesAreFinite, FS_Subset, FS_CardinalityType
<1>1. SUFFICES ASSUME bad # {} PROVE FALSE
  OBVIOUS
<1>2. PICK m \in bad : \A k \in bad : m <= k
  <2>1. bad \subseteq Nat
    BY <1>0
  <2> HIDE DEF bad
  <2> QED BY <1>1, <2>1, LeastNatural
<1>3. m \in 0 .. card /\ ~ Good(m)
  OBVIOUS
<1>4. m # 0
  <2> SUFFICES ASSUME m = 0 PROVE Good(m)
    BY <1>3
  <2> DEFINE w == f[0]
  <2>1. w = NewWork(c, input)
    BY <1>0 DEF IsRun
  <2> HIDE DEF w
  <2>2. IsWork(w) /\ w.input = input /\ w.outputs = <<>> /\ w.builder = {} /\ w.user_key = 0
    BY <2>1 DEF NewWork, IsWork
  <2>3. InOrder(w.outputs, input)
    BY <2>2 DEF InOrder
  <2>4. WorkAt(w, input, input)
    BY <2>2, <2>3 DEF WorkAt, Ahead
  <2>5. RunAt(w, v, c, input, input)
    <3>1. KeptBy(w) = {}
      BY <2>2, KeptIs
    <3>2. \A r \in input : w.user_key # r.k
      BY <2>2, EntryNumbers
    <3>3. input \ input = {}
      OBVIOUS
    <3>4. AtKey(w, {}, input) /\ KeptRight(v, c, input, {}, {})
      BY <3>2 DEF AtKey, KeptRight, Ahead
    <3> QED BY <3>1, <3>3, <3>4 DEF RunAt
  <2> QED BY <1>0, <2>2, <2>4, <2>5 DEF w
<1>5. m - 1 \in 0 .. card /\ m - 1 < m
  BY <1>0, <1>3, <1>4
<1>6. Good(m - 1)
  BY <1>0, <1>2, <1>3, <1>5
<1> DEFINE w == f[m - 1]
           e == FirstEntry(w.input)
<1>7. f[m] = CompactEntry(v, c, w, e)
  BY <1>3, <1>4 DEF IsRun, CompactNext
<1>8. /\ WorkAt(w, input, w.input) /\ w.input \subseteq input /\ Cardinality(w.input) = card - (m - 1)
      /\ c.smallest_snapshot \in Nat => RunAt(w, v, c, input, w.input)
  BY <1>6
<1> HIDE DEF w, Good
<1>9. w.input # {}
  <2> SUFFICES ASSUME w.input = {} PROVE FALSE
    OBVIOUS
  <2>1. Cardinality(w.input) = 0
    BY FS_EmptySet
  <2> QED BY <1>0, <1>3, <1>8, <2>1
<1>10. w.input \subseteq Entries
  BY <1>8
<1>11. e \in w.input /\ \A o \in w.input : ~ Before(o, e)
  BY <1>9, <1>10, FirstEntryExists
<1> HIDE DEF e
<1>12. ASSUME NEW o \in w.input \ {e} PROVE Before(e, o)
  <2>1. e \in Entries /\ o \in Entries /\ ~ Before(o, e)
    BY <1>10, <1>11, <1>12
  <2>2. e.s # o.s
    BY <1>8, <1>11, <1>12 DEF Distinct
  <2>3. e.k \in Nat /\ o.k \in Nat /\ e.s \in Nat /\ o.s \in Nat
    BY <2>1, EntryNumbers
  <2> QED BY <2>1, <2>2, <2>3 DEF Before
<1>13. /\ WorkAt(f[m], input, w.input \ {e}) /\ f[m].input = w.input \ {e}
       /\ c.smallest_snapshot \in Nat => RunAt(f[m], v, c, input, w.input \ {e})
  <2>1. e \in input /\ e \in w.input /\ WorkAt(w, input, w.input) /\ \A o \in w.input \ {e} : Before(e, o)
    BY <1>8, <1>11, <1>12
  <2>2. /\ WorkAt(CompactEntry(v, c, w, e), input, w.input \ {e})
        /\ Remain(CompactEntry(v, c, w, e), w.input \ {e})
        /\ Passed(CompactEntry(v, c, w, e), v, c, w, e)
    BY ONLY <2>1, CompactEntryOK
  <2>3. ASSUME c.smallest_snapshot \in Nat PROVE RunAt(f[m], v, c, input, w.input \ {e})
    <3>1. Passed(f[m], v, c, w, e)
      BY <1>7, <2>2
    <3>2. WellKept(input)
      BY DEF WellKept
    <3>3. RunAt(w, v, c, input, w.input) /\ w.input \subseteq input
      BY <1>8, <2>3
    <3> QED BY ONLY <2>1, <2>3, <3>1, <3>2, <3>3, RunGoesOn
  <2> QED BY <1>7, <2>2, <2>3 DEF Remain
<1>14. IsFiniteSet(w.input)
  BY <1>0, <1>8, FS_Subset
<1>15. Cardinality(w.input \ {e}) = Cardinality(w.input) - 1
  BY <1>11, <1>14, FS_RemoveElement
<1>16. Cardinality(w.input \ {e}) = card - m
  BY <1>0, <1>3, <1>8, <1>15
<1>17. Good(m)
  BY <1>8, <1>13, <1>16 DEF Good
<1> QED BY <1>3, <1>17

AllOf(outputs) == UNION {outputs[i] : i \in 1 .. Len(outputs)}
LEMMA OutputsOK ==
  ASSUME NEW v, NEW c, NEW input, input = UNION {f.data : f \in c.in0 \cup c.in1},
         input \subseteq Entries, Distinct(input)
  PROVE  /\ InOrder(Outputs(v, c), input)
         /\ c.smallest_snapshot \in Nat => KeptRight(v, c, input, input, AllOf(Outputs(v, c)))
<1> DEFINE n == Cardinality(input)
           Work[k \in 0 .. n] == IF k = 0 THEN NewWork(c, input) ELSE CompactNext(v, c, Work[k - 1])
<1>1. n \in Nat
  BY EntriesAreFinite, FS_Subset, FS_CardinalityType
<1>2. Work = [k \in 0 .. n |-> IF k = 0 THEN NewWork(c, input) ELSE CompactNext(v, c, Work[k - 1])]
  <2>1. PICK f : IsRun(f, n, v, c, input)
    BY <1>1, RunExists
  <2>2. f = [k \in 0 .. n |-> IF k = 0 THEN NewWork(c, input) ELSE CompactNext(v, c, f[k - 1])]
    BY <2>1 DEF IsRun
  <2> QED BY <2>2
<1>3. Outputs(v, c) = FinishOutput(Work[n]).outputs
  BY DEF Outputs
<1> HIDE DEF Work
<1>4. IsRun(Work, n, v, c, input)
  BY <1>2 DEF IsRun
<1>5. n \in 0 .. n
  BY <1>1
<1> DEFINE last == Work[n]
           end == FinishOutput(last)
<1>6. /\ WorkAt(last, input, last.input) /\ last.input \subseteq input /\ Cardinality(last.input) = n - n
      /\ c.smallest_snapshot \in Nat => RunAt(last, v, c, input, last.input)
  <2>1. input \subseteq Entries /\ Distinct(input)
    OBVIOUS
  <2>2. IsRun(Work, Cardinality(input), v, c, input) /\ n \in 0 .. Cardinality(input)
    BY <1>4, <1>5
  <2> HIDE DEF n
  <2>3. /\ WorkAt(Work[n], input, Work[n].input) /\ Work[n].input \subseteq input
        /\ Cardinality(Work[n].input) = Cardinality(input) - n
        /\ c.smallest_snapshot \in Nat => RunAt(Work[n], v, c, input, Work[n].input)
    BY ONLY <2>1, <2>2, RunOK
  <2> QED BY <2>3 DEF n
<1> HIDE DEF last
<1>7. WorkAt(end, input, last.input) /\ SameRun(end, last)
  BY <1>6, FinishOutputOK
<1>8. end.builder = {}
  BY <1>6 DEF FinishOutput, WorkAt, IsWork
<1>9. last.input = {}
  <2>1. IsFiniteSet(last.input) /\ Cardinality(last.input) = 0
    BY <1>1, <1>6, EntriesAreFinite, FS_Subset
  <2> QED BY <2>1, FS_EmptySet
<1> HIDE DEF end
<1>10. KeptBy(last) = AllOf(end.outputs)
  BY <1>7, <1>8 DEF SameRun, KeptBy, AllOf
<1>11. input \ last.input = input
  BY <1>9
<1>12. c.smallest_snapshot \in Nat => KeptRight(v, c, input, input, AllOf(end.outputs))
  BY <1>6, <1>10, <1>11 DEF RunAt
<1> QED BY <1>3, <1>7, <1>12 DEF WorkAt, end, last

-----------------------------------------------------------------------------
(* The list of versions and its references. *)
IsVersion(v) ==
    v = [files |-> v.files, refs |-> v.refs, file_to_compact |-> v.file_to_compact] /\ v.refs \in Nat \ {0}
AreVersions(vs) ==
    /\ vs = [i \in DOMAIN vs |-> vs[i]] /\ DOMAIN vs \subseteq Nat \ {0} /\ IsFiniteSet(DOMAIN vs)
    /\ \A i \in DOMAIN vs : IsVersion(vs[i])
SameFiles(v, w) == v.files = w.files /\ v.file_to_compact = w.file_to_compact

LEMMA RefIs ==
  ASSUME NEW vs, AreVersions(vs), NEW id \in DOMAIN vs
  PROVE  /\ AreVersions(Ref(vs, id)) /\ DOMAIN Ref(vs, id) = DOMAIN vs
         /\ \A i \in DOMAIN vs : /\ SameFiles(Ref(vs, id)[i], vs[i])
                                 /\ Ref(vs, id)[i].refs = vs[i].refs + (IF i = id THEN 1 ELSE 0)
<1> DEFINE ws == Ref(vs, id)
<1>1. DOMAIN ws = DOMAIN vs /\ ws = [i \in DOMAIN vs |-> ws[i]]
  BY DEF Ref, AreVersions
<1>2. ASSUME NEW i \in DOMAIN vs
      PROVE  IsVersion(ws[i]) /\ SameFiles(ws[i], vs[i]) /\ ws[i].refs = vs[i].refs + (IF i = id THEN 1 ELSE 0)
  <2>1. IsVersion(vs[i])
    BY DEF AreVersions
  <2>2. CASE i = id
    <3>1. ws[i] = [vs[i] EXCEPT !.refs = @ + 1]
      BY <2>2 DEF Ref, AreVersions
    <3> HIDE DEF ws
    <3> QED BY <2>1, <2>2, <3>1 DEF IsVersion, SameFiles
  <2>3. CASE i # id
    <3>1. ws[i] = vs[i]
      BY <2>3 DEF Ref, AreVersions
    <3> HIDE DEF ws
    <3> QED BY <2>1, <2>3, <3>1 DEF IsVersion, SameFiles
  <2> QED BY <2>2, <2>3
<1> HIDE DEF ws
<1>3. AreVersions(ws)
  BY <1>1, <1>2 DEF AreVersions
<1> QED BY <1>1, <1>2, <1>3 DEF ws

LEMMA UnrefIs ==
  ASSUME NEW vs, AreVersions(vs), NEW id \in DOMAIN vs
  PROVE  /\ AreVersions(Unref(vs, id)) /\ DOMAIN Unref(vs, id) \subseteq DOMAIN vs
         /\ \A i \in DOMAIN vs \ DOMAIN Unref(vs, id) : i = id /\ vs[i].refs = 1
         /\ \A i \in DOMAIN Unref(vs, id) :
               /\ SameFiles(Unref(vs, id)[i], vs[i])
               /\ Unref(vs, id)[i].refs = vs[i].refs - (IF i = id THEN 1 ELSE 0)
<1> DEFINE ws == Unref(vs, id)
<1>0. \A i \in DOMAIN vs : IsVersion(vs[i]) /\ SameFiles(vs[i], vs[i]) /\ vs[i].refs \in Nat \ {0}
  BY DEF AreVersions, IsVersion, SameFiles
<1>1. CASE vs[id].refs = 1
  <2>1. ws = [i \in DOMAIN vs \ {id} |-> vs[i]]
    BY <1>1 DEF Unref
  <2>2. IsFiniteSet(DOMAIN vs \ {id}) /\ DOMAIN vs \ {id} \subseteq Nat \ {0}
    BY FS_Subset DEF AreVersions
  <2> HIDE DEF ws
  <2>3. DOMAIN ws = DOMAIN vs \ {id} /\ \A i \in DOMAIN ws : ws[i] = vs[i]
    BY <2>1
  <2>4. AreVersions(ws)
    BY <1>0, <2>1, <2>2, <2>3 DEF AreVersions
  <2>5. \A i \in DOMAIN ws : SameFiles(ws[i], vs[i]) /\ ws[i].refs = vs[i].refs - (IF i = id THEN 1 ELSE 0)
    BY <1>0, <2>3
  <2> QED BY <1>1, <2>3, <2>4, <2>5 DEF ws
<1>2. CASE vs[id].refs # 1
  <2>1. ws = [vs EXCEPT ![id].refs = @ - 1]
    BY <1>2 DEF Unref
  <2>2. DOMAIN ws = DOMAIN vs /\ ws = [i \in DOMAIN vs |-> ws[i]]
    BY <2>1 DEF AreVersions
  <2>3. ASSUME NEW i \in DOMAIN vs
        PROVE  IsVersion(ws[i]) /\ SameFiles(ws[i], vs[i]) /\ ws[i].refs = vs[i].refs - (IF i = id THEN 1 ELSE 0)
    <3>2. CASE i = id
      <4>1. ws[i] = [vs[i] EXCEPT !.refs = @ - 1]
        BY <2>1, <3>2 DEF AreVersions
      <4> HIDE DEF ws
      <4>2. vs[i].refs \in Nat \ {0, 1}
        BY <1>0, <1>2, <3>2
      <4> QED BY <1>0, <4>2, <3>2, <4>1 DEF IsVersion, SameFiles
    <3>3. CASE i # id
      <4>1. ws[i] = vs[i]
        BY <2>1, <3>3 DEF AreVersions
      <4> HIDE DEF ws
      <4> QED BY <1>0, <3>3, <4>1
    <3> QED BY <3>2, <3>3
  <2> HIDE DEF ws
  <2>4. AreVersions(ws)
    BY <2>2, <2>3 DEF AreVersions
  <2> QED BY <2>2, <2>3, <2>4 DEF ws
<1> QED BY <1>1, <1>2

LEMMA NewIdIs ==
  ASSUME NEW vs, IsFiniteSet(DOMAIN vs)
  PROVE  NewId(vs) \in Nat \ {0} /\ NewId(vs) \notin DOMAIN vs
<1> DEFINE n == Cardinality(DOMAIN vs)
           S == (1 .. n + 1) \ DOMAIN vs
<1>1. n \in Nat
  BY FS_CardinalityType
<1>2. S # {}
  <2> SUFFICES ASSUME 1 .. n + 1 \subseteq DOMAIN vs PROVE FALSE
    OBVIOUS
  <2>1. Cardinality(1 .. n + 1) = n + 1
    <3> HIDE DEF n
    <3>1. 1 \in Int /\ n + 1 \in Int /\ 1 <= n + 1
      BY <1>1
    <3>2. Cardinality(1 .. n + 1) = (n + 1) - 1 + 1
      BY <3>1, FS_Interval
    <3> QED BY <1>1, <3>2
  <2>2. Cardinality(1 .. n + 1) <= n
    BY FS_Subset
  <2> QED BY <1>1, <2>1, <2>2
<1>3. S \subseteq Nat
  BY <1>1
<1>4. NewId(vs) = Min(S)
  BY DEF NewId
<1>5. S \cap DOMAIN vs = {} /\ S \subseteq 1 .. n + 1
  OBVIOUS
<1> HIDE DEF S
<1>6. \E x \in S : \A y \in S : x <= y
  BY <1>2, <1>3, LeastNatural
<1>7. Min(S) \in S
  BY <1>6 DEF Min
<1> HIDE DEF n
<1>8. 1 .. n + 1 \subseteq Nat \ {0}
  BY <1>1
<1> QED BY <1>4, <1>5, <1>7, <1>8

(* A version is added, made current, and the old one loses a reference. *)
Installed(vs, cur, id, v) == Unref([i \in DOMAIN vs \cup {id} |-> IF i = id THEN v ELSE vs[i]], cur)

LEMMA InstalledIs ==
  ASSUME NEW vs, AreVersions(vs), NEW cur \in DOMAIN vs, NEW id \in Nat \ {0}, id \notin DOMAIN vs, NEW v, IsVersion(v)
  PROVE  LET ws == Installed(vs, cur, id, v)
         IN  /\ AreVersions(ws) /\ id \in DOMAIN ws /\ SameFiles(ws[id], v) /\ ws[id].refs = v.refs
             /\ DOMAIN ws \subseteq DOMAIN vs \cup {id}
             /\ \A i \in DOMAIN vs \ DOMAIN ws : i = cur /\ vs[i].refs = 1
             /\ \A i \in DOMAIN ws \ {id} :
                   SameFiles(ws[i], vs[i]) /\ ws[i].refs = vs[i].refs - (IF i = cur THEN 1 ELSE 0)
<1> DEFINE us == [i \in DOMAIN vs \cup {id} |-> IF i = id THEN v ELSE vs[i]]
           ws == Unref(us, cur)
<1>1. DOMAIN us = DOMAIN vs \cup {id} /\ us[id] = v /\ \A i \in DOMAIN vs : us[i] = vs[i]
  OBVIOUS
<1>2. AreVersions(us)
  <2>1. IsFiniteSet(DOMAIN vs \cup {id})
    BY FS_AddElement DEF AreVersions
  <2> QED BY <1>1, <2>1 DEF AreVersions
<1>3. Installed(vs, cur, id, v) = ws
  BY DEF Installed
<1> HIDE DEF us
<1>4. /\ AreVersions(ws) /\ DOMAIN ws \subseteq DOMAIN us
      /\ \A i \in DOMAIN us \ DOMAIN ws : i = cur /\ us[i].refs = 1
      /\ \A i \in DOMAIN ws : SameFiles(ws[i], us[i]) /\ ws[i].refs = us[i].refs - (IF i = cur THEN 1 ELSE 0)
  BY <1>1, <1>2, UnrefIs
<1> HIDE DEF ws
<1>5. id # cur /\ id \in DOMAIN ws /\ v.refs \in Nat
  BY <1>1, <1>4 DEF IsVersion
<1>6. ws[id].refs = v.refs /\ SameFiles(ws[id], v)
  BY <1>1, <1>4, <1>5
<1>7. \A i \in DOMAIN ws \ {id} : i \in DOMAIN vs /\ us[i] = vs[i]
  BY <1>1, <1>4
<1> QED BY <1>1, <1>3, <1>4, <1>5, <1>6, <1>7

-----------------------------------------------------------------------------
(* References are counted.  cv is the version of the compaction, 0 for none. *)
ReadersOf(rd, id) == {r \in Readers : rd[r] = id}
One(a, b) == IF a = b THEN 1 ELSE 0
Held(rd, cur, cv, id) == Cardinality(ReadersOf(rd, id)) + One(cur, id) + One(cv, id)
Counted(vs, rd, cur, cv) ==
    /\ cur \in DOMAIN vs /\ (cv # 0 => cv \in DOMAIN vs)
    /\ rd \in [Readers -> Nat] /\ \A r \in Readers : rd[r] # 0 => rd[r] \in DOMAIN vs
    /\ \A id \in DOMAIN vs : vs[id].refs = Held(rd, cur, cv, id)

LEMMA ReaderCounts ==
  ASSUME NEW rd, NEW id
  PROVE  /\ IsFiniteSet(ReadersOf(rd, id)) /\ Cardinality(ReadersOf(rd, id)) \in Nat
         /\ Cardinality(ReadersOf(rd, id)) = 0 => \A r \in Readers : rd[r] # id
<1>1. ReadersOf(rd, id) \subseteq Readers /\ IsFiniteSet(Readers)
  BY LSMConstants DEF ReadersOf
<1>2. IsFiniteSet(ReadersOf(rd, id))
  BY <1>1, FS_Subset
<1>3. Cardinality(ReadersOf(rd, id)) = 0 => ReadersOf(rd, id) = {}
  BY <1>2, FS_EmptySet
<1>4. ReadersOf(rd, id) = {} => \A r \in Readers : rd[r] # id
  BY DEF ReadersOf
<1> QED BY <1>2, <1>3, <1>4, FS_CardinalityType

LEMMA HeldByNone ==
  ASSUME NEW rd, NEW cur, NEW cv, NEW id
  PROVE  /\ Held(rd, cur, cv, id) \in Nat
         /\ Held(rd, cur, cv, id) = 0 => cur # id /\ cv # id /\ \A r \in Readers : rd[r] # id
<1> DEFINE n == Cardinality(ReadersOf(rd, id))
<1>1. n \in Nat /\ (n = 0 => \A r \in Readers : rd[r] # id)
  BY ReaderCounts
<1>2. Held(rd, cur, cv, id) = n + One(cur, id) + One(cv, id)
  BY DEF Held
<1> HIDE DEF n
<1>3. One(cur, id) \in 0 .. 1 /\ (One(cur, id) = 0 <=> cur # id)
  BY DEF One
<1>4. One(cv, id) \in 0 .. 1 /\ (One(cv, id) = 0 <=> cv # id)
  BY DEF One
<1>5. ASSUME NEW a \in 0 .. 1, NEW b \in 0 .. 1 PROVE n + a + b \in Nat /\ (n + a + b = 0 => n = 0 /\ a = 0 /\ b = 0)
  BY <1>1
<1> QED BY <1>1, <1>2, <1>3, <1>4, <1>5

LEMMA ReaderMoves ==
  ASSUME NEW rd \in [Readers -> Nat], NEW r \in Readers, NEW to \in Nat, to # rd[r]
  PROVE  \A id : Cardinality(ReadersOf([rd EXCEPT ![r] = to], id))
                    = Cardinality(ReadersOf(rd, id)) + One(id, to) - One(id, rd[r])
<1> SUFFICES ASSUME NEW id
             PROVE  Cardinality(ReadersOf([rd EXCEPT ![r] = to], id))
                       = Cardinality(ReadersOf(rd, id)) + One(id, to) - One(id, rd[r])
  OBVIOUS
<1> DEFINE new == [rd EXCEPT ![r] = to]
           A == ReadersOf(rd, id)
           B == ReadersOf(new, id)
<1>1. IsFiniteSet(A) /\ Cardinality(A) \in Nat
  BY ReaderCounts
<1>2. new \in [Readers -> Nat] /\ new[r] = to /\ \A q \in Readers \ {r} : new[q] = rd[q]
  OBVIOUS
<1> HIDE DEF new
<1>3. CASE id = to
  <2>1. B = A \cup {r} /\ r \notin A
    BY <1>2, <1>3 DEF ReadersOf
  <2> HIDE DEF A, B
  <2>2. Cardinality(B) = Cardinality(A) + 1
    BY <1>1, <2>1, FS_AddElement
  <2>3. One(id, to) = 1 /\ One(id, rd[r]) = 0
    BY <1>3 DEF One
  <2> QED BY <1>1, <2>2, <2>3 DEF A, B, new
<1>4. CASE id = rd[r]
  <2>1. B = A \ {r} /\ r \in A
    BY <1>2, <1>4 DEF ReadersOf
  <2> HIDE DEF A, B
  <2>2. Cardinality(B) = Cardinality(A) - 1
    BY <1>1, <2>1, FS_RemoveElement
  <2>3. One(id, to) = 0 /\ One(id, rd[r]) = 1
    BY <1>4 DEF One
  <2> QED BY <1>1, <2>2, <2>3 DEF A, B, new
<1>5. CASE id # to /\ id # rd[r]
  <2>1. B = A
    BY <1>2, <1>5 DEF ReadersOf
  <2>2. One(id, to) = 0 /\ One(id, rd[r]) = 0
    BY <1>5 DEF One
  <2> HIDE DEF A, B
  <2> QED BY <1>1, <2>1, <2>2 DEF A, B, new
<1> QED BY <1>3, <1>4, <1>5

(* A reference given up by id's holder: the rest of the holders remain. *)
LEMMA UnrefCounted ==
  ASSUME NEW vs, AreVersions(vs), NEW id \in DOMAIN vs, NEW rd \in [Readers -> Nat], NEW cur \in DOMAIN vs, NEW cv,
         cv # 0 => cv \in DOMAIN vs, \A r \in Readers : rd[r] # 0 => rd[r] \in DOMAIN vs,
         \A i \in DOMAIN vs : vs[i].refs = Held(rd, cur, cv, i) + One(i, id)
  PROVE  Counted(Unref(vs, id), rd, cur, cv)
<1> DEFINE ws == Unref(vs, id)
<1>1. /\ AreVersions(ws) /\ DOMAIN ws \subseteq DOMAIN vs
      /\ \A i \in DOMAIN vs \ DOMAIN ws : i = id /\ vs[i].refs = 1
      /\ \A i \in DOMAIN ws : ws[i].refs = vs[i].refs - (IF i = id THEN 1 ELSE 0)
  BY UnrefIs
<1> HIDE DEF ws
<1>2. \A i \in DOMAIN vs \ DOMAIN ws : Held(rd, cur, cv, i) = 0
  <2> SUFFICES ASSUME NEW i \in DOMAIN vs \ DOMAIN ws PROVE Held(rd, cur, cv, i) = 0
    OBVIOUS
  <2>1. vs[i].refs = 1 /\ One(i, id) = 1
    BY <1>1 DEF One
  <2>2. Held(rd, cur, cv, i) \in Nat
    BY HeldByNone
  <2> QED BY <2>1, <2>2
<1>3. \A i \in DOMAIN vs \ DOMAIN ws : cur # i /\ cv # i /\ \A r \in Readers : rd[r] # i
  BY <1>2, HeldByNone
<1>4. \A i \in DOMAIN ws : ws[i].refs = Held(rd, cur, cv, i)
  <2> SUFFICES ASSUME NEW i \in DOMAIN ws PROVE ws[i].refs = Held(rd, cur, cv, i)
    OBVIOUS
  <2>1. Held(rd, cur, cv, i) \in Nat
    BY HeldByNone
  <2>2. ws[i].refs = (Held(rd, cur, cv, i) + One(i, id)) - One(i, id) /\ One(i, id) \in Nat
    BY <1>1 DEF One
  <2> QED BY <2>1, <2>2
<1>5. Counted(ws, rd, cur, cv)
  BY <1>3, <1>4 DEF Counted
<1> QED BY <1>5 DEF ws

(* The references of the operations. *)
LEMMA NewIteratorCounted ==
  ASSUME NEW vs, AreVersions(vs), NEW rd, NEW cur, NEW cv, Counted(vs, rd, cur, cv), NEW r \in Readers, rd[r] = 0
  PROVE  Counted(Ref(vs, cur), [rd EXCEPT ![r] = cur], cur, cv)
<1> DEFINE ws == Ref(vs, cur)
           new == [rd EXCEPT ![r] = cur]
<1>1. cur \in DOMAIN vs /\ cur \in Nat /\ cur # 0 /\ rd \in [Readers -> Nat]
  BY DEF Counted, AreVersions
<1>2. /\ DOMAIN ws = DOMAIN vs
      /\ \A i \in DOMAIN vs : ws[i].refs = vs[i].refs + (IF i = cur THEN 1 ELSE 0)
  BY <1>1, RefIs
<1>3. \A id : Cardinality(ReadersOf(new, id)) = Cardinality(ReadersOf(rd, id)) + One(id, cur) - One(id, rd[r])
  <2>1. cur # rd[r]
    BY <1>1
  <2> QED BY ONLY <1>1, <2>1, r \in Readers, ReaderMoves
<1>4. new \in [Readers -> Nat] /\ \A q \in Readers : new[q] # 0 => new[q] \in DOMAIN vs
  BY <1>1 DEF Counted
<1> HIDE DEF new, ws
<1>5. ASSUME NEW i \in DOMAIN vs PROVE ws[i].refs = Held(new, cur, cv, i)
  <2>1. One(i, rd[r]) = 0
    BY DEF One, AreVersions
  <2>2. Cardinality(ReadersOf(rd, i)) \in Nat
    BY ReaderCounts
  <2>3. One(i, cur) \in Nat /\ One(cur, i) \in Nat /\ One(cv, i) \in Nat
    BY DEF One
  <2>4. vs[i].refs = Cardinality(ReadersOf(rd, i)) + One(cur, i) + One(cv, i)
    BY DEF Counted, Held
  <2>5. ws[i].refs = vs[i].refs + One(i, cur)
    BY <1>2 DEF One
  <2>6. Cardinality(ReadersOf(new, i)) = Cardinality(ReadersOf(rd, i)) + One(i, cur) - 0
    BY <1>3, <2>1
  <2>7. Held(new, cur, cv, i) = Cardinality(ReadersOf(new, i)) + One(cur, i) + One(cv, i)
    BY DEF Held
  <2> QED BY <2>2, <2>3, <2>4, <2>5, <2>6, <2>7
<1>6. Counted(ws, new, cur, cv)
  BY <1>1, <1>2, <1>4, <1>5 DEF Counted
<1> QED BY <1>6 DEF ws, new

LEMMA DeleteIteratorCounted ==
  ASSUME NEW vs, AreVersions(vs), NEW rd, NEW cur, NEW cv, Counted(vs, rd, cur, cv), NEW r \in Readers, rd[r] # 0
  PROVE  Counted(Unref(vs, rd[r]), [rd EXCEPT ![r] = 0], cur, cv)
<1> DEFINE id == rd[r]
           new == [rd EXCEPT ![r] = 0]
<1>1. cur \in DOMAIN vs /\ (cv # 0 => cv \in DOMAIN vs) /\ rd \in [Readers -> Nat] /\ id \in DOMAIN vs
  BY DEF Counted
<1>3. \A i : Cardinality(ReadersOf(new, i)) = Cardinality(ReadersOf(rd, i)) + One(i, 0) - One(i, rd[r])
  <2>1. 0 # rd[r] /\ 0 \in Nat
    OBVIOUS
  <2> QED BY ONLY <1>1, <2>1, r \in Readers, ReaderMoves
<1>4. new \in [Readers -> Nat] /\ \A q \in Readers : new[q] # 0 => new[q] \in DOMAIN vs
  BY <1>1 DEF Counted
<1> HIDE DEF new
<1>5. ASSUME NEW i \in DOMAIN vs PROVE vs[i].refs = Held(new, cur, cv, i) + One(i, id)
  <2>1. One(i, 0) = 0
    BY DEF One, AreVersions
  <2>2. Cardinality(ReadersOf(rd, i)) \in Nat
    BY ReaderCounts
  <2>3. One(i, id) \in Nat /\ One(cur, i) \in Nat /\ One(cv, i) \in Nat
    BY DEF One
  <2>4. vs[i].refs = Cardinality(ReadersOf(rd, i)) + One(cur, i) + One(cv, i)
    BY DEF Counted, Held
  <2>6. Cardinality(ReadersOf(new, i)) = Cardinality(ReadersOf(rd, i)) + 0 - One(i, id)
    BY <1>3, <2>1
  <2>7. Held(new, cur, cv, i) = Cardinality(ReadersOf(new, i)) + One(cur, i) + One(cv, i)
    BY DEF Held
  <2> QED BY <2>2, <2>3, <2>4, <2>6, <2>7
<1> HIDE DEF id
<1>6. Counted(Unref(vs, id), new, cur, cv)
  BY <1>1, <1>4, <1>5, UnrefCounted
<1> QED BY <1>6 DEF id, new

LEMMA StartCounted ==
  ASSUME NEW vs, AreVersions(vs), NEW rd, NEW cur, Counted(vs, rd, cur, 0)
  PROVE  Counted(Ref(vs, cur), rd, cur, cur)
<1> DEFINE ws == Ref(vs, cur)
<1>1. cur \in DOMAIN vs /\ rd \in [Readers -> Nat]
  BY DEF Counted
<1>2. /\ DOMAIN ws = DOMAIN vs
      /\ \A i \in DOMAIN vs : ws[i].refs = vs[i].refs + (IF i = cur THEN 1 ELSE 0)
  BY <1>1, RefIs
<1> HIDE DEF ws
<1>5. ASSUME NEW i \in DOMAIN vs PROVE ws[i].refs = Held(rd, cur, cur, i)
  <2>1. One(0, i) = 0
    BY DEF One, AreVersions
  <2>2. Cardinality(ReadersOf(rd, i)) \in Nat /\ One(cur, i) \in Nat
    BY ReaderCounts DEF One
  <2>4. vs[i].refs = Cardinality(ReadersOf(rd, i)) + One(cur, i) + 0
    BY <2>1 DEF Counted, Held
  <2>5. ws[i].refs = vs[i].refs + One(cur, i)
    BY <1>2 DEF One
  <2>7. Held(rd, cur, cur, i) = Cardinality(ReadersOf(rd, i)) + One(cur, i) + One(cur, i)
    BY DEF Held
  <2> QED BY <2>2, <2>4, <2>5, <2>7
<1>6. Counted(ws, rd, cur, cur)
  BY <1>1, <1>2, <1>5 DEF Counted
<1> QED BY <1>6 DEF ws

LEMMA EndCounted ==
  ASSUME NEW vs, AreVersions(vs), NEW rd, NEW cur, NEW cv, Counted(vs, rd, cur, cv), cv # 0
  PROVE  Counted(Unref(vs, cv), rd, cur, 0)
<1>1. cur \in DOMAIN vs /\ cv \in DOMAIN vs /\ rd \in [Readers -> Nat] /\ \A q \in Readers : rd[q] # 0 => rd[q] \in DOMAIN vs
  BY DEF Counted
<1>5. ASSUME NEW i \in DOMAIN vs PROVE vs[i].refs = Held(rd, cur, 0, i) + One(i, cv)
  <2>1. One(0, i) = 0 /\ One(i, cv) = One(cv, i)
    BY DEF One, AreVersions
  <2>2. Cardinality(ReadersOf(rd, i)) \in Nat /\ One(cur, i) \in Nat /\ One(cv, i) \in Nat
    BY ReaderCounts DEF One
  <2>4. vs[i].refs = Cardinality(ReadersOf(rd, i)) + One(cur, i) + One(cv, i)
    BY DEF Counted, Held
  <2>7. Held(rd, cur, 0, i) = Cardinality(ReadersOf(rd, i)) + One(cur, i) + 0
    BY <2>1 DEF Held
  <2> QED BY <2>1, <2>2, <2>4, <2>7
<1> QED BY <1>1, <1>5, UnrefCounted

LEMMA InstallCounted ==
  ASSUME NEW vs, AreVersions(vs), NEW rd, NEW cur, NEW cv, Counted(vs, rd, cur, cv),
         NEW id \in Nat \ {0}, id \notin DOMAIN vs, NEW v, IsVersion(v), v.refs = 1
  PROVE  Counted(Installed(vs, cur, id, v), rd, id, cv)
<1> DEFINE us == [i \in DOMAIN vs \cup {id} |-> IF i = id THEN v ELSE vs[i]]
<1>1. /\ cur \in DOMAIN vs /\ (cv # 0 => cv \in DOMAIN vs) /\ rd \in [Readers -> Nat]
      /\ \A q \in Readers : rd[q] # 0 => rd[q] \in DOMAIN vs
  BY DEF Counted
<1>2. DOMAIN us = DOMAIN vs \cup {id} /\ us[id] = v /\ \A i \in DOMAIN vs : us[i] = vs[i]
  OBVIOUS
<1>3. AreVersions(us)
  <2>1. IsFiniteSet(DOMAIN vs \cup {id})
    BY FS_AddElement DEF AreVersions
  <2> QED BY <1>2, <2>1 DEF AreVersions
<1>4. Installed(vs, cur, id, v) = Unref(us, cur)
  BY DEF Installed
<1> HIDE DEF us
<1>5. ASSUME NEW i \in DOMAIN us PROVE us[i].refs = Held(rd, id, cv, i) + One(i, cur)
  <2>1. One(id, i) \in Nat /\ One(cur, i) \in Nat /\ One(cv, i) \in Nat /\ One(i, cur) = One(cur, i)
    BY DEF One
  <2>2. Cardinality(ReadersOf(rd, i)) \in Nat
    BY ReaderCounts
  <2>3. Held(rd, id, cv, i) = Cardinality(ReadersOf(rd, i)) + One(id, i) + One(cv, i)
    BY DEF Held
  <2>4. CASE i = id
    <3>1. ReadersOf(rd, id) = {}
      BY <1>1 DEF ReadersOf
    <3>2. Cardinality(ReadersOf(rd, i)) = 0
      BY <2>4, <3>1, FS_EmptySet
    <3>3. One(id, i) = 1 /\ One(cv, i) = 0 /\ One(i, cur) = 0
      BY <1>1, <2>4 DEF One
    <3> QED BY <1>2, <2>3, <2>4, <3>2, <3>3
  <2>5. CASE i # id
    <3>1. One(id, i) = 0 /\ i \in DOMAIN vs /\ us[i] = vs[i]
      BY <1>2, <2>5 DEF One
    <3>2. us[i].refs = Cardinality(ReadersOf(rd, i)) + One(cur, i) + One(cv, i)
      BY <3>1 DEF Counted, Held
    <3> QED BY <2>1, <2>2, <2>3, <3>1, <3>2
  <2> QED BY <2>4, <2>5
<1>6. Counted(Unref(us, cur), rd, id, cv)
  <2>1. cur \in DOMAIN us /\ id \in DOMAIN us /\ (cv # 0 => cv \in DOMAIN us)
    BY <1>1, <1>2
  <2>2. \A q \in Readers : rd[q] # 0 => rd[q] \in DOMAIN us
    BY <1>1, <1>2
  <2> QED BY <1>1, <1>3, <1>5, <2>1, <2>2, UnrefCounted
<1> QED BY <1>4, <1>6

-----------------------------------------------------------------------------
(* What the versions hold: files with numbers below next and entries of E. *)
FilesIn(files, E) == \A l \in Levels : \A f \in files[l] : f.data \subseteq E
VersionOK(v, next, E) == FilesOK(v.files, next) /\ ChargeOK(v) /\ FilesIn(v.files, E)
VersionsOK(vs, next, E) == AreVersions(vs) /\ \A i \in DOMAIN vs : VersionOK(vs[i], next, E)
NewVersion(files) == [files |-> files, refs |-> 1, file_to_compact |-> NoCharge]

LEMMA LiveIs ==
  ASSUME NEW vs, NEW n
  PROVE  n \in AddLiveFiles(vs) <=> \E i \in DOMAIN vs : \E l \in Levels : \E f \in vs[i].files[l] : n = f.number
  BY DEF AddLiveFiles, FilesOf

LEMMA VersionsGrow ==
  ASSUME NEW vs, NEW next \in Nat, NEW E, VersionsOK(vs, next, E), NEW later \in Nat, next <= later, NEW F, E \subseteq F
  PROVE  VersionsOK(vs, later, F)
<1>1. ASSUME NEW v, VersionOK(v, next, E) PROVE VersionOK(v, later, F)
  <2>1. \A l \in Levels : \A f \in v.files[l] : f.number \in Nat /\ f.number < next
    BY <1>1 DEF VersionOK, FilesOK, AreFiles, IsFile
  <2>2. \A l \in Levels : \A f \in v.files[l] : f.number < later
    BY <2>1
  <2>3. FilesOK(v.files, later)
    BY <1>1, <2>2 DEF VersionOK, FilesOK
  <2>4. FilesIn(v.files, F)
    BY <1>1 DEF VersionOK, FilesIn
  <2> QED BY <1>1, <2>3, <2>4 DEF VersionOK
<1> QED BY <1>1 DEF VersionsOK

LEMMA VersionsStay ==
  ASSUME NEW vs, NEW next, NEW E, VersionsOK(vs, next, E), NEW ws, AreVersions(ws), DOMAIN ws \subseteq DOMAIN vs,
         \A i \in DOMAIN ws : SameFiles(ws[i], vs[i])
  PROVE  VersionsOK(ws, next, E) /\ AddLiveFiles(ws) \subseteq AddLiveFiles(vs)
<1>1. ASSUME NEW i \in DOMAIN ws PROVE VersionOK(ws[i], next, E)
  <2>1. VersionOK(vs[i], next, E) /\ ws[i].files = vs[i].files /\ ws[i].file_to_compact = vs[i].file_to_compact
    BY DEF VersionsOK, SameFiles
  <2>2. ChargeOK(ws[i])
    BY <2>1 DEF VersionOK, ChargeOK, SeekCompaction
  <2> QED BY <2>1, <2>2 DEF VersionOK
<1>2. AddLiveFiles(ws) \subseteq AddLiveFiles(vs)
  BY LiveIs DEF SameFiles
<1> QED BY <1>1, <1>2 DEF VersionsOK

LEMMA RefOK ==
  ASSUME NEW vs, NEW next, NEW E, VersionsOK(vs, next, E), NEW id \in DOMAIN vs
  PROVE  /\ VersionsOK(Ref(vs, id), next, E) /\ AddLiveFiles(Ref(vs, id)) \subseteq AddLiveFiles(vs)
         /\ DOMAIN Ref(vs, id) = DOMAIN vs /\ \A i \in DOMAIN vs : Ref(vs, id)[i].files = vs[i].files
<1> DEFINE ws == Ref(vs, id)
<1>1. AreVersions(ws) /\ DOMAIN ws = DOMAIN vs /\ \A i \in DOMAIN vs : SameFiles(ws[i], vs[i])
  BY RefIs DEF VersionsOK
<1> HIDE DEF ws
<1>2. VersionsOK(ws, next, E) /\ AddLiveFiles(ws) \subseteq AddLiveFiles(vs)
  BY <1>1, VersionsStay
<1> QED BY <1>1, <1>2 DEF ws, SameFiles

LEMMA UnrefOK ==
  ASSUME NEW vs, NEW next, NEW E, VersionsOK(vs, next, E), NEW id \in DOMAIN vs
  PROVE  /\ VersionsOK(Unref(vs, id), next, E) /\ AddLiveFiles(Unref(vs, id)) \subseteq AddLiveFiles(vs)
         /\ DOMAIN Unref(vs, id) \subseteq DOMAIN vs
         /\ \A i \in DOMAIN Unref(vs, id) : Unref(vs, id)[i].files = vs[i].files
<1> DEFINE ws == Unref(vs, id)
<1>1. AreVersions(ws) /\ DOMAIN ws \subseteq DOMAIN vs /\ \A i \in DOMAIN ws : SameFiles(ws[i], vs[i])
  BY UnrefIs DEF VersionsOK
<1> HIDE DEF ws
<1>2. VersionsOK(ws, next, E) /\ AddLiveFiles(ws) \subseteq AddLiveFiles(vs)
  BY <1>1, VersionsStay
<1> QED BY <1>1, <1>2 DEF ws, SameFiles

LEMMA InstalledOK ==
  ASSUME NEW vs, NEW next, NEW E, VersionsOK(vs, next, E), NEW cur \in DOMAIN vs, NEW id \in Nat \ {0}, id \notin DOMAIN vs,
         NEW files, FilesOK(files, next), FilesIn(files, E)
  PROVE  LET ws == Installed(vs, cur, id, NewVersion(files))
         IN  /\ VersionsOK(ws, next, E) /\ id \in DOMAIN ws /\ ws[id].files = files
             /\ DOMAIN ws \subseteq DOMAIN vs \cup {id} /\ \A i \in DOMAIN ws \ {id} : ws[i].files = vs[i].files
             /\ \A n \in AddLiveFiles(ws) :
                   n \in AddLiveFiles(vs) \/ \E l \in Levels : \E f \in files[l] : n = f.number
<1> DEFINE v == NewVersion(files)
           ws == Installed(vs, cur, id, v)
<1>1. IsVersion(v) /\ v.files = files /\ v.file_to_compact = NoCharge
  BY DEF NewVersion, IsVersion
<1>2. VersionOK(v, next, E)
  <2>1. ~ SeekCompaction(v)
    BY <1>1 DEF SeekCompaction, NoCharge
  <2> QED BY <1>1, <2>1 DEF VersionOK, ChargeOK
<1> HIDE DEF v
<1>3. /\ AreVersions(ws) /\ id \in DOMAIN ws /\ SameFiles(ws[id], v) /\ DOMAIN ws \subseteq DOMAIN vs \cup {id}
      /\ \A i \in DOMAIN ws \ {id} : SameFiles(ws[i], vs[i])
  BY <1>1, InstalledIs DEF VersionsOK
<1> HIDE DEF ws
<1>4. ASSUME NEW i \in DOMAIN ws PROVE VersionOK(ws[i], next, E)
  <2>1. PICK w : VersionOK(w, next, E) /\ SameFiles(ws[i], w)
    BY <1>2, <1>3 DEF VersionsOK
  <2>2. ChargeOK(ws[i])
    BY <2>1 DEF VersionOK, ChargeOK, SeekCompaction, SameFiles
  <2> QED BY <2>1, <2>2 DEF VersionOK, SameFiles
<1>5. VersionsOK(ws, next, E)
  BY <1>3, <1>4 DEF VersionsOK
<1>6. ws[id].files = files /\ \A i \in DOMAIN ws \ {id} : i \in DOMAIN vs /\ ws[i].files = vs[i].files
  BY <1>1, <1>3 DEF SameFiles
<1>7. \A n \in AddLiveFiles(ws) : n \in AddLiveFiles(vs) \/ \E l \in Levels : \E f \in files[l] : n = f.number
  <2> SUFFICES ASSUME NEW n \in AddLiveFiles(ws)
               PROVE  n \in AddLiveFiles(vs) \/ \E l \in Levels : \E f \in files[l] : n = f.number
    OBVIOUS
  <2>1. PICK i \in DOMAIN ws : \E l \in Levels : \E f \in ws[i].files[l] : n = f.number
    BY LiveIs
  <2>2. CASE i = id
    BY <1>6, <2>1, <2>2
  <2>3. CASE i # id
    BY <1>6, <2>1, <2>3, LiveIs
  <2> QED BY <2>2, <2>3
<1> QED BY <1>3, <1>5, <1>6, <1>7 DEF ws, v

(* An edit keeps the files of a version apart. *)
LEMMA EditedIs ==
  ASSUME NEW v, NEW deleted, NEW added, NEW l \in Levels, NEW f
  PROVE  f \in Edited(v, deleted, added)[l]
            <=> (f \in v.files[l] /\ <<l, f.number>> \notin deleted) \/ \E a \in added : a[1] = l /\ a[2] = f
  BY DEF Edited

LEMMA EditedOK ==
  ASSUME NEW v, NEW next \in Nat, NEW E, VersionOK(v, next, E), NEW deleted, NEW added,
         AreFiles(FilesOf(v) \cup {a[2] : a \in added}),
         \A a \in added : a[2].number < next /\ a[2].data \subseteq E
  PROVE  FilesOK(Edited(v, deleted, added), next) /\ FilesIn(Edited(v, deleted, added), E)
<1> DEFINE files == Edited(v, deleted, added)
<1>1. files = [l \in Levels |-> files[l]]
  BY DEF Edited
<1>2. \A l \in Levels : \A f : f \in files[l] => f \in v.files[l] \/ \E a \in added : a[2] = f
  BY DEF Edited
<1> HIDE DEF files
<1>3. UNION {files[l] : l \in Levels} \subseteq FilesOf(v) \cup {a[2] : a \in added}
  BY <1>2 DEF FilesOf
<1>4. AreFiles(UNION {files[l] : l \in Levels})
  BY <1>3 DEF AreFiles
<1>5. \A l \in Levels : \A f \in files[l] : f.number < next /\ f.data \subseteq E
  BY <1>2 DEF VersionOK, FilesOK, FilesIn
<1>6. FilesOK(files, next) /\ FilesIn(files, E)
  BY <1>1, <1>4, <1>5 DEF FilesOK, FilesIn
<1> QED BY <1>6 DEF files

-----------------------------------------------------------------------------
(* The inductive invariant behind VersionsSound and CompactionWellFormed.   *)
(* E stands for the entries ever written; no two have the same number.      *)
VersionOf(c) == IF c = Idle THEN 0 ELSE c.version
OutsOK(outs, next, E) ==
    /\ \A i \in DOMAIN outs : IsFile(outs[i]) /\ outs[i].number < next /\ outs[i].data \subseteq E
    /\ \A i, j \in DOMAIN outs : outs[i].number = outs[j].number => outs[i] = outs[j]
WorkOK(c, vs, next, pending, E) ==
    /\ c.level \in 0 .. kNumLevels - 2 /\ c.version \in DOMAIN vs
    /\ c.level = 0 => ApartFrom(vs[c.version].files[0], c.in0)
    /\ OutsOK(c.outs, next, E)
    /\ NumbersOf(c.outs) \subseteq pending /\ NumbersOf(c.outs) \cap AddLiveFiles(vs) = {}
WrittenOK(es, last, m) == es \subseteq Entries /\ Distinct(es) /\ (\A e \in es : e.s <= last) /\ m \subseteq es
Stored(E, vs, next, c, pending) ==
    VersionsOK(vs, next, E) /\ (c # Idle => WorkOK(c, vs, next, pending, E))

Scalars == mode \in Modes /\ last_sequence \in 0 .. mode.writes /\ next_file_number \in Nat \ {0}
KnownEntries ==
    \E E : WrittenOK(E, last_sequence, mem) /\ Stored(E, versions, next_file_number, compaction, pending_outputs)
AllCounted == Counted(versions, reader, current, VersionOf(compaction))
BaseInv == Scalars /\ KnownEntries /\ AllCounted /\ LiveFilesExist

(* Steps that leave the files of the compaction's version alone. *)
LEMMA WorkStays ==
  ASSUME NEW c, NEW vs, NEW next \in Nat, NEW pending, NEW E, WorkOK(c, vs, next, pending, E),
         NEW ws, c.version \in DOMAIN ws, ws[c.version].files = vs[c.version].files,
         NumbersOf(c.outs) \cap AddLiveFiles(ws) = {},
         NEW later \in Nat, next <= later, NEW more, pending \subseteq more, NEW F, E \subseteq F
  PROVE  WorkOK(c, ws, later, more, F)
<1>1. \A i \in DOMAIN c.outs : c.outs[i].number \in Nat /\ c.outs[i].number < next
  BY DEF WorkOK, OutsOK, IsFile
<1>2. \A i \in DOMAIN c.outs : c.outs[i].number < later
  BY <1>1
<1>3. OutsOK(c.outs, later, F)
  BY <1>2 DEF WorkOK, OutsOK
<1> QED BY <1>3 DEF WorkOK

LEMMA HeldVersion ==
  ASSUME NEW c, c # Idle, NEW vs, NEW next, NEW pending, NEW E, WorkOK(c, vs, next, pending, E), AreVersions(vs)
  PROVE  VersionOf(c) = c.version /\ c.version # 0
  BY DEF VersionOf, WorkOK, AreVersions

(* The same files in versions that are still counted. *)
LEMMA StoredStays ==
  ASSUME NEW E, NEW vs, NEW next \in Nat, NEW c, NEW pending, Stored(E, vs, next, c, pending),
         NEW ws, NEW F, VersionsOK(ws, next, F), E \subseteq F, VersionOf(c) # 0 => VersionOf(c) \in DOMAIN ws,
         \A i \in DOMAIN ws \cap DOMAIN vs : ws[i].files = vs[i].files, AddLiveFiles(ws) \subseteq AddLiveFiles(vs)
  PROVE  Stored(F, ws, next, c, pending)
<1>1. CASE c = Idle
  BY <1>1 DEF Stored
<1>2. CASE c # Idle
  <2>1. WorkOK(c, vs, next, pending, E) /\ AreVersions(vs)
    BY <1>2 DEF Stored, VersionsOK
  <2>2. c.version \in DOMAIN ws /\ c.version \in DOMAIN vs
    BY <1>2, <2>1, HeldVersion DEF WorkOK
  <2>3. NumbersOf(c.outs) \cap AddLiveFiles(ws) = {} /\ next <= next
    BY <2>1 DEF WorkOK
  <2>4. WorkOK(c, ws, next, pending, F)
    BY <2>1, <2>2, <2>3, WorkStays
  <2> QED BY <2>4 DEF Stored
<1> QED BY <1>1, <1>2

LEMMA InitBase == Init => BaseInv
<1> SUFFICES ASSUME Init PROVE BaseInv
  OBVIOUS
<1>0. 0 \in Levels /\ IsFiniteSet({1})
  <2>1. 0 \in Levels
    BY LSMConstants DEF Levels
  <2> QED BY <2>1, FS_Singleton
<1>1. Scalars
  <2>1. mode.writes \in Nat
    BY LSMConstants DEF Init
  <2> QED BY <2>1 DEF Init, Scalars
<1> DEFINE vs == [i \in {1} |-> EmptyVersion]
<1>2. DOMAIN vs = {1} /\ vs[1] = EmptyVersion /\ versions = vs
  BY DEF Init
<1>3. /\ EmptyVersion.refs = 1 /\ EmptyVersion.files = [l \in Levels |-> {}]
      /\ EmptyVersion.file_to_compact = NoCharge /\ IsVersion(EmptyVersion)
  BY DEF EmptyVersion, IsVersion
<1>4. AreVersions(vs)
  BY <1>0, <1>2, <1>3 DEF AreVersions
<1>5. VersionOK(EmptyVersion, 1, {})
  <2>1. FilesOK(EmptyVersion.files, 1) /\ FilesIn(EmptyVersion.files, {})
    BY <1>3 DEF FilesOK, AreFiles, FilesIn
  <2>2. ~ SeekCompaction(EmptyVersion)
    BY <1>3 DEF SeekCompaction, NoCharge
  <2> QED BY <2>1, <2>2 DEF VersionOK, ChargeOK
<1>6. VersionsOK(vs, 1, {})
  BY <1>2, <1>4, <1>5 DEF VersionsOK
<1> HIDE DEF vs
<1>7. Stored({}, versions, next_file_number, compaction, pending_outputs)
  BY <1>2, <1>6 DEF Stored, Init
<1>8. WrittenOK({}, last_sequence, mem)
  BY DEF WrittenOK, Distinct, Init
<1>9. KnownEntries
  BY <1>7, <1>8 DEF KnownEntries
<1>10. AllCounted
  <2>1. current = 1 /\ reader = [r \in Readers |-> 0] /\ VersionOf(compaction) = 0
    BY DEF Init, VersionOf
  <2>2. ReadersOf(reader, 1) = {}
    BY <2>1 DEF ReadersOf
  <2>3. Cardinality(ReadersOf(reader, 1)) = 0
    BY <2>2, FS_EmptySet
  <2>4. One(current, 1) = 1 /\ One(VersionOf(compaction), 1) = 0
    BY <2>1 DEF One
  <2>5. Held(reader, current, VersionOf(compaction), 1) = 1
    BY <2>3, <2>4 DEF Held
  <2> QED BY <1>2, <1>3, <2>1, <2>5 DEF AllCounted, Counted
<1>11. LiveFilesExist
  <2>1. ASSUME NEW n \in AddLiveFiles(versions) PROVE FALSE
    <3>1. PICK i \in DOMAIN versions : \E l \in Levels : \E f \in versions[i].files[l] : n = f.number
      BY <2>1, LiveIs
    <3> QED BY <1>2, <1>3, <3>1
  <2> QED BY <2>1 DEF LiveFilesExist, Init
<1> QED BY <1>1, <1>9, <1>10, <1>11 DEF BaseInv

(* Writes and snapshots. *)
LEMMA WriteBase ==
  ASSUME BaseInv, NEW k \in UserKeys, NEW t \in {kTypeValue, kTypeDeletion}, Write(k, t)
  PROVE  BaseInv'
<1> PICK E : WrittenOK(E, last_sequence, mem) /\ Stored(E, versions, next_file_number, compaction, pending_outputs)
  BY DEF BaseInv, KnownEntries
<1> DEFINE e == [k |-> k, s |-> last_sequence + 1, t |-> t]
           F == E \cup {e}
<1>1. mode \in Modes /\ last_sequence \in 0 .. mode.writes /\ next_file_number \in Nat \ {0}
  BY DEF BaseInv, Scalars
<1>2. mode.writes \in Nat /\ MaxWrites \in Nat /\ mode.writes <= MaxWrites
  BY <1>1, LSMConstants
<1>3. last_sequence < mode.writes /\ last_sequence' = last_sequence + 1 /\ mem' = mem \cup {e}
  BY DEF Write
<1>4. UNCHANGED <<mode, versions, current, next_file_number, disk, pending_outputs, compaction, reader>>
  BY DEF Write
<1>5. Scalars'
  BY <1>1, <1>2, <1>3, <1>4 DEF Scalars
<1>6. last_sequence + 1 \in 1 .. MaxWrites
  BY <1>1, <1>2, <1>3
<1>7. e \in Entries /\ e.s = last_sequence + 1
  BY <1>6 DEF Entries
<1> HIDE DEF e
<1>8. \A o \in E : o.s \in Nat /\ o.s <= last_sequence
  BY EntryNumbers DEF WrittenOK
<1>9. \A o \in E : o.s <= last_sequence + 1 /\ o.s # e.s
  BY <1>1, <1>7, <1>8
<1>10. Distinct(F)
  BY <1>9 DEF Distinct, WrittenOK
<1>11. WrittenOK(F, last_sequence + 1, mem \cup {e})
  <2>1. F \subseteq Entries /\ mem \cup {e} \subseteq F
    BY <1>7 DEF WrittenOK
  <2>2. \A o \in F : o.s <= last_sequence + 1
    BY <1>1, <1>7, <1>9
  <2> HIDE DEF F
  <2> QED BY <1>10, <2>1, <2>2 DEF WrittenOK
<1>12. E \subseteq F /\ next_file_number \in Nat /\ next_file_number <= next_file_number
  BY <1>1
<1> HIDE DEF F
<1>13. VersionsOK(versions, next_file_number, F)
  BY <1>12, VersionsGrow DEF Stored
<1>14. VersionOf(compaction) # 0 => VersionOf(compaction) \in DOMAIN versions
  BY DEF BaseInv, AllCounted, Counted
<1>15. Stored(F, versions, next_file_number, compaction, pending_outputs)
  BY <1>12, <1>13, <1>14, StoredStays
<1>16. KnownEntries'
  BY <1>3, <1>4, <1>11, <1>15 DEF KnownEntries
<1>17. AllCounted' /\ LiveFilesExist'
  BY <1>4 DEF BaseInv, AllCounted, LiveFilesExist
<1> QED BY <1>5, <1>16, <1>17 DEF BaseInv

LEMMA UnchangedBase ==
  ASSUME BaseInv, UNCHANGED <<mode, last_sequence, mem, versions, current, next_file_number, disk, pending_outputs,
                              compaction, reader>>
  PROVE  BaseInv'
  BY DEF BaseInv, Scalars, KnownEntries, AllCounted, LiveFilesExist

(* Steps that only change the list of versions and who holds them. *)
LEMMA VersionsStepBase ==
  ASSUME BaseInv, UNCHANGED <<mode, last_sequence, mem, next_file_number, disk, pending_outputs, compaction>>,
         Counted(versions', reader', current', VersionOf(compaction)),
         \A E : VersionsOK(versions, next_file_number, E) => VersionsOK(versions', next_file_number, E),
         \A i \in DOMAIN versions' \cap DOMAIN versions : versions'[i].files = versions[i].files,
         AddLiveFiles(versions') \subseteq AddLiveFiles(versions)
  PROVE  BaseInv'
<1> PICK E : WrittenOK(E, last_sequence, mem) /\ Stored(E, versions, next_file_number, compaction, pending_outputs)
  BY DEF BaseInv, KnownEntries
<1>1. next_file_number \in Nat /\ E \subseteq E /\ VersionsOK(versions', next_file_number, E)
  BY DEF BaseInv, Scalars, Stored
<1>2. VersionOf(compaction) # 0 => VersionOf(compaction) \in DOMAIN versions'
  BY DEF Counted
<1>3. Stored(E, versions', next_file_number, compaction, pending_outputs)
  BY <1>1, <1>2, StoredStays
<1>4. Scalars' /\ AllCounted' /\ LiveFilesExist'
  BY DEF BaseInv, Scalars, AllCounted, LiveFilesExist
<1>5. KnownEntries'
  BY <1>3 DEF KnownEntries
<1> QED BY <1>4, <1>5 DEF BaseInv

LEMMA NewIteratorBase ==
  ASSUME BaseInv, NEW r \in Readers, NewIterator(r)
  PROVE  BaseInv'
<1> PICK E0 : Stored(E0, versions, next_file_number, compaction, pending_outputs)
  BY DEF BaseInv, KnownEntries
<1>1. AreVersions(versions) /\ Counted(versions, reader, current, VersionOf(compaction)) /\ current \in DOMAIN versions
  BY DEF BaseInv, AllCounted, Counted, Stored, VersionsOK
<1>2. /\ reader[r] = 0 /\ versions' = Ref(versions, current) /\ reader' = [reader EXCEPT ![r] = current]
      /\ current' = current
      /\ UNCHANGED <<mode, last_sequence, mem, next_file_number, disk, pending_outputs, compaction>>
  BY DEF NewIterator
<1>3. Counted(Ref(versions, current), [reader EXCEPT ![r] = current], current, VersionOf(compaction))
  BY <1>1, <1>2, NewIteratorCounted
<1>4. \A E : VersionsOK(versions, next_file_number, E) => VersionsOK(versions', next_file_number, E)
  BY <1>1, <1>2, RefOK
<1>5. /\ AddLiveFiles(versions') \subseteq AddLiveFiles(versions)
      /\ \A i \in DOMAIN versions' \cap DOMAIN versions : versions'[i].files = versions[i].files
  BY <1>1, <1>2, RefOK DEF Stored
<1> QED BY <1>2, <1>3, <1>4, <1>5, VersionsStepBase

LEMMA DeleteIteratorBase ==
  ASSUME BaseInv, NEW r \in Readers, DeleteIterator(r)
  PROVE  BaseInv'
<1> PICK E0 : Stored(E0, versions, next_file_number, compaction, pending_outputs)
  BY DEF BaseInv, KnownEntries
<1>1. AreVersions(versions) /\ Counted(versions, reader, current, VersionOf(compaction))
  BY DEF BaseInv, AllCounted, Stored, VersionsOK
<1>2. /\ reader[r] # 0 /\ versions' = Unref(versions, reader[r]) /\ reader' = [reader EXCEPT ![r] = 0]
      /\ current' = current
      /\ UNCHANGED <<mode, last_sequence, mem, next_file_number, disk, pending_outputs, compaction>>
  BY DEF DeleteIterator
<1>3. Counted(Unref(versions, reader[r]), [reader EXCEPT ![r] = 0], current, VersionOf(compaction))
  BY <1>1, <1>2, DeleteIteratorCounted
<1>4. reader[r] \in DOMAIN versions
  BY <1>1, <1>2 DEF Counted
<1>5. \A E : VersionsOK(versions, next_file_number, E) => VersionsOK(versions', next_file_number, E)
  BY <1>2, <1>4, UnrefOK
<1>6. /\ AddLiveFiles(versions') \subseteq AddLiveFiles(versions)
      /\ \A i \in DOMAIN versions' \cap DOMAIN versions : versions'[i].files = versions[i].files
  BY <1>2, <1>4, UnrefOK DEF Stored
<1> QED BY <1>2, <1>3, <1>5, <1>6, VersionsStepBase

(* A charged file. *)
LEMMA FilesForFinite ==
  ASSUME NEW v, NEW next \in Nat, FilesOK(v.files, next), NEW key, NEW k
  PROVE  Cardinality(FilesFor(v, key, k)) \in Nat
<1> DEFINE cs == FilesFor(v, key, k)
           S == Levels \X (0 .. next)
           map == [a \in cs |-> <<a.level, a.file.number>>]
<1>1. /\ \A a \in cs : a.level \in Levels /\ a.file.number \in 0 .. next
      /\ \A a, b \in cs : a.level = b.level /\ (a.level # 0 \/ a.file.number = b.file.number) => a = b
  BY FilesForAre
<1> HIDE DEF cs
<1>2. IsFiniteSet(Levels) /\ IsFiniteSet(0 .. next)
  <2>1. kNumLevels - 1 \in Int
    BY LSMConstants
  <2> QED BY <2>1, FS_Interval DEF Levels
<1>3. IsFiniteSet(S)
  BY <1>2, FS_Product
<1>4. map \in Injection(cs, S)
  BY <1>1 DEF Injection, IsInjective
<1> HIDE DEF map, S
<1>5. IsFiniteSet(cs)
  BY <1>3, <1>4, FS_Injection
<1> QED BY <1>5, FS_CardinalityType DEF cs

ChargeFits(v, charge) == charge.level \in 0 .. kNumLevels - 2 /\ charge.file \in v.files[charge.level]

LEMMA UpdateStatsBase ==
  ASSUME BaseInv, NEW charge, ChargeFits(Current, charge), UpdateStats(charge)
  PROVE  BaseInv'
<1> PICK E0 : Stored(E0, versions, next_file_number, compaction, pending_outputs)
  BY DEF BaseInv, KnownEntries
<1>1. AreVersions(versions) /\ Counted(versions, reader, current, VersionOf(compaction)) /\ current \in DOMAIN versions
  BY DEF BaseInv, AllCounted, Counted, Stored, VersionsOK
<1>2. UNCHANGED <<mode, last_sequence, mem, next_file_number, disk, pending_outputs, compaction, current, reader>>
  BY DEF UpdateStats
<1>3. CASE versions' = versions
  BY <1>2, <1>3, UnchangedBase
<1>4. CASE versions' = [versions EXCEPT ![current].file_to_compact = charge]
  <2>1. DOMAIN versions' = DOMAIN versions /\ versions' = [i \in DOMAIN versions |-> versions'[i]]
    BY <1>1, <1>4 DEF AreVersions
  <2>2. \A i \in DOMAIN versions : i # current => versions'[i] = versions[i]
    BY <1>1, <1>4 DEF AreVersions
  <2>3. versions'[current] = [versions[current] EXCEPT !.file_to_compact = charge]
    BY <1>1, <1>4 DEF AreVersions
  <2>4. /\ IsVersion(versions'[current]) /\ versions'[current].files = versions[current].files
        /\ versions'[current].refs = versions[current].refs /\ versions'[current].file_to_compact = charge
    BY <1>1, <2>3 DEF AreVersions, IsVersion
  <2>5. AreVersions(versions')
    BY <1>1, <2>1, <2>2, <2>4 DEF AreVersions
  <2>6. \A i \in DOMAIN versions : versions'[i].files = versions[i].files /\ versions'[i].refs = versions[i].refs
    BY <2>2, <2>4
  <2>7. ChargeOK(versions'[current])
    BY <2>4 DEF ChargeOK, ChargeFits, Current
  <2>8. ASSUME NEW E, VersionsOK(versions, next_file_number, E) PROVE VersionsOK(versions', next_file_number, E)
    <3>1. ASSUME NEW i \in DOMAIN versions PROVE VersionOK(versions'[i], next_file_number, E)
      <4>1. VersionOK(versions[i], next_file_number, E)
        BY <2>8 DEF VersionsOK
      <4> QED BY <2>2, <2>4, <2>7, <4>1 DEF VersionOK
    <3> QED BY <2>1, <2>5, <3>1 DEF VersionsOK
  <2>9. AddLiveFiles(versions') \subseteq AddLiveFiles(versions)
    BY <2>1, <2>6, LiveIs
  <2>10. Counted(versions', reader', current', VersionOf(compaction))
    BY <1>1, <1>2, <2>1, <2>6 DEF Counted
  <2> QED BY <1>2, <2>1, <2>6, <2>8, <2>9, <2>10, VersionsStepBase
<1> QED BY <1>3, <1>4 DEF UpdateStats

LEMMA ReadsBase ==
  ASSUME BaseInv,
         \/ \E k \in UserKeys, s \in snapshots \cup {last_sequence} : Get(k, s)
         \/ \E k \in UserKeys : RecordReadSample(k)
  PROVE  BaseInv'
<1> PICK E0 : Stored(E0, versions, next_file_number, compaction, pending_outputs)
  BY DEF BaseInv, KnownEntries
<1>1. next_file_number \in Nat /\ FilesOK(Current.files, next_file_number)
  BY DEF BaseInv, Scalars, AllCounted, Counted, Stored, VersionsOK, VersionOK, Current
<1>2. ASSUME NEW key, NEW k, Cardinality(FilesFor(Current, key, k)) > 1
      PROVE  ChargeFits(Current, FirstOf(FilesFor(Current, key, k)))
  BY <1>1, <1>2, ChargedIsOK DEF ChargeFits
<1>3. ASSUME NEW k \in UserKeys, NEW s, Get(k, s) PROVE BaseInv'
  <2> DEFINE key == LookupKey(k, s)
             cs == FilesFor(Current, key, k)
             charge == VersionGet(Current, k, s).charge
  <2>1. charge.file # NoFile /\ UpdateStats(charge)
    BY <1>3 DEF Get, UpdateStats
  <2>2. charge = IF Cardinality(cs) > 1 /\ ~ Answers(FirstOf(cs), key) THEN FirstOf(cs) ELSE NoCharge
    BY DEF VersionGet, ReadInOrder
  <2>3. NoCharge.file = NoFile
    BY DEF NoCharge
  <2> HIDE DEF key, charge
  <2>4. Cardinality(cs) > 1 /\ charge = FirstOf(cs)
    BY <2>1, <2>2, <2>3
  <2>5. ChargeFits(Current, charge)
    BY <1>2, <2>4
  <2> QED BY <2>1, <2>5, UpdateStatsBase
<1>4. ASSUME NEW k \in UserKeys, RecordReadSample(k) PROVE BaseInv'
  <2> DEFINE cs == FilesFor(Current, EarliestOf(k), k)
  <2>1. Cardinality(cs) >= 2 /\ UpdateStats(FirstOf(cs))
    BY <1>4 DEF RecordReadSample
  <2>2. Cardinality(cs) \in Nat
    BY <1>1, FilesForFinite
  <2>3. Cardinality(cs) > 1
    BY <2>1, <2>2
  <2>4. ChargeFits(Current, FirstOf(cs))
    BY <1>2, <2>3
  <2> QED BY <2>1, <2>4, UpdateStatsBase
<1> QED BY <1>3, <1>4

(* New versions. *)
LEMMA Applied ==
  ASSUME NEW vs, NEW deleted, NEW added, LogAndApply(vs, deleted, added)
  PROVE  /\ versions' = Installed(vs, current, NewId(vs), NewVersion(Edited(vs[current], deleted, added)))
         /\ current' = NewId(vs)
  BY DEF LogAndApply, Installed, NewVersion, EmptyVersion

NumbersAdded(added) == {a[2].number : a \in added}
AddedOK(v, added, next, E) ==
    /\ AreFiles(FilesOf(v) \cup {a[2] : a \in added})
    /\ \A a \in added : a[2].number < next /\ a[2].data \subseteq E
(* ws is vs with a new version, perhaps without the old current one. *)
NewIn(ws, vs, id, files, added) ==
    /\ ws[id].files = files
    /\ \A i \in DOMAIN ws \cap DOMAIN vs : ws[i].files = vs[i].files
    /\ \A i \in DOMAIN ws : i = id \/ i \in DOMAIN vs
    /\ AddLiveFiles(ws) \subseteq AddLiveFiles(vs) \cup NumbersAdded(added)

LEMMA AppliedOK ==
  ASSUME NEW vs, NEW next \in Nat, NEW E, VersionsOK(vs, next, E), NEW rd, NEW cur, NEW cv, Counted(vs, rd, cur, cv),
         NEW later \in Nat, next <= later, NEW deleted, NEW added, AddedOK(vs[cur], added, later, E),
         NEW id, id = NewId(vs), NEW ws, ws = Installed(vs, cur, id, NewVersion(Edited(vs[cur], deleted, added)))
  PROVE  /\ VersionsOK(ws, later, E) /\ Counted(ws, rd, id, cv)
         /\ NewIn(ws, vs, id, Edited(vs[cur], deleted, added), added)
<1> DEFINE files == Edited(vs[cur], deleted, added)
           v == NewVersion(files)
<1>1. cur \in DOMAIN vs /\ AreVersions(vs) /\ IsFiniteSet(DOMAIN vs)
  BY DEF Counted, VersionsOK, AreVersions
<1>2. VersionsOK(vs, later, E)
  BY VersionsGrow
<1>3. FilesOK(files, later) /\ FilesIn(files, E)
  <2>1. VersionOK(vs[cur], later, E)
    BY <1>1, <1>2 DEF VersionsOK
  <2> QED BY <2>1, EditedOK DEF AddedOK
<1>4. id \in Nat \ {0} /\ id \notin DOMAIN vs
  BY <1>1, NewIdIs
<1>5. \A l \in Levels : \A f \in files[l] : f \in vs[cur].files[l] \/ f.number \in NumbersAdded(added)
  BY DEF Edited, NumbersAdded
<1>6. IsVersion(v) /\ v.refs = 1
  BY DEF NewVersion, IsVersion
<1> HIDE DEF files
<1>7. /\ VersionsOK(ws, later, E) /\ ws[id].files = files
      /\ DOMAIN ws \subseteq DOMAIN vs \cup {id} /\ \A i \in DOMAIN ws \ {id} : ws[i].files = vs[i].files
      /\ \A n \in AddLiveFiles(ws) : n \in AddLiveFiles(vs) \/ \E l \in Levels : \E f \in files[l] : n = f.number
  <2>1. ws = Installed(vs, cur, id, NewVersion(files))
    BY DEF files
  <2> QED BY <1>1, <1>2, <1>3, <1>4, <2>1, InstalledOK
<1> HIDE DEF v
<1>8. Counted(ws, rd, id, cv)
  <2>1. ws = Installed(vs, cur, id, v)
    BY DEF files, v
  <2> QED BY <2>1, <1>1, <1>4, <1>6, InstallCounted
<1>9. AddLiveFiles(ws) \subseteq AddLiveFiles(vs) \cup NumbersAdded(added)
  <2> SUFFICES ASSUME NEW n \in AddLiveFiles(ws), n \notin AddLiveFiles(vs) PROVE n \in NumbersAdded(added)
    OBVIOUS
  <2>0. PICK l \in Levels : \E f \in files[l] : n = f.number
    BY <1>7
  <2>1. PICK f \in files[l] : n = f.number
    BY <2>0
  <2>2. f \notin vs[cur].files[l]
    BY <1>1, <2>1, LiveIs
  <2> QED BY <1>5, <2>1, <2>2
<1>10. \A i \in DOMAIN ws \cap DOMAIN vs : ws[i].files = vs[i].files
  BY <1>4, <1>7
<1>11. NewIn(ws, vs, id, files, added)
  BY <1>7, <1>9, <1>10 DEF NewIn
<1> QED BY <1>7, <1>8, <1>11 DEF files

LEMMA LiveBelow ==
  ASSUME NEW vs, NEW next, NEW E, VersionsOK(vs, next, E), NEW n \in AddLiveFiles(vs)
  PROVE  n \in Nat /\ n < next
<1>1. PICK i \in DOMAIN vs : \E l \in Levels : \E f \in vs[i].files[l] : n = f.number
  BY LiveIs
<1>2. PICK l \in Levels : \E f \in vs[i].files[l] : n = f.number
  BY <1>1
<1>3. PICK f \in vs[i].files[l] : n = f.number
  BY <1>2
<1>4. FilesOK(vs[i].files, next)
  BY DEF VersionsOK, VersionOK
<1>5. IsFile(f) /\ f.number < next
  BY <1>3, <1>4 DEF FilesOK, AreFiles
<1> QED BY <1>3, <1>5 DEF IsFile

LEMMA FilesOfLive ==
  ASSUME NEW vs, NEW next, NEW E, VersionsOK(vs, next, E), NEW i \in DOMAIN vs
  PROVE  AreFiles(FilesOf(vs[i])) /\ \A f \in FilesOf(vs[i]) : f.number \in AddLiveFiles(vs) /\ f.data \subseteq E
<1>1. AreFiles(FilesOf(vs[i]))
  BY DEF VersionsOK, VersionOK, FilesOK, FilesOf
<1>2. ASSUME NEW f \in FilesOf(vs[i]) PROVE f.number \in AddLiveFiles(vs) /\ f.data \subseteq E
  <2>1. PICK l \in Levels : f \in vs[i].files[l]
    BY DEF FilesOf
  <2> QED BY <2>1, LiveIs DEF VersionsOK, VersionOK, FilesIn
<1> QED BY <1>1, <1>2

(* Files with new numbers stay apart from others. *)
LEMMA NewFilesApart ==
  ASSUME NEW fs, AreFiles(fs), NEW gs, AreFiles(gs), \A f \in fs, g \in gs : f.number # g.number
  PROVE  AreFiles(fs \cup gs)
  BY DEF AreFiles

LEMMA CompactMemTableBase ==
  ASSUME BaseInv, CompactMemTable
  PROVE  BaseInv'
<1> PICK E : WrittenOK(E, last_sequence, mem) /\ Stored(E, versions, next_file_number, compaction, pending_outputs)
  BY DEF BaseInv, KnownEntries
<1> DEFINE f == NewFile(next_file_number, mem)
           L == PickLevelForMemTableOutput(Current, f.smallest.k, f.largest.k)
           added == {<<L, f>>}
           later == next_file_number + 1
           cv == VersionOf(compaction)
<1>1. /\ next_file_number \in Nat \ {0} /\ VersionsOK(versions, next_file_number, E)
      /\ Counted(versions, reader, current, cv) /\ current \in DOMAIN versions
      /\ AddLiveFiles(versions) \cup pending_outputs \subseteq disk
  BY DEF BaseInv, Scalars, AllCounted, Counted, Stored, LiveFilesExist
<1>2. LogAndApply(versions, {}, added)
  BY DEF CompactMemTable
<1>3. /\ mem # {} /\ next_file_number' = later /\ mem' = {}
      /\ disk' = DeleteObsoleteFiles(disk \cup {f.number}, pending_outputs)
      /\ UNCHANGED <<mode, last_sequence, pending_outputs, compaction, reader>>
  BY DEF CompactMemTable
<1>4. IsFile(f) /\ f.number = next_file_number /\ f.data = mem
  BY <1>1, <1>3, NewFileIsFile DEF WrittenOK
<1> HIDE DEF f, L
<1>5. \A a \in added : a[2].number < later /\ a[2].data \subseteq E
  BY <1>1, <1>4 DEF WrittenOK
<1>6. AreFiles(FilesOf(Current) \cup {a[2] : a \in added})
  <2>1. {a[2] : a \in added} = {f}
    OBVIOUS
  <2>2. AreFiles({f})
    BY <1>4 DEF AreFiles
  <2>3. AreFiles(FilesOf(Current)) /\ \A g \in FilesOf(Current) : g.number \in AddLiveFiles(versions)
    BY <1>1, FilesOfLive DEF Current
  <2>4. \A g \in FilesOf(Current) : g.number # f.number
    BY <1>1, <1>4, <2>3, LiveBelow
  <2> QED BY <2>1, <2>2, <2>3, <2>4, NewFilesApart
<1>7. NumbersAdded(added) = {next_file_number}
  BY <1>4 DEF NumbersAdded
<1>8. later \in Nat /\ next_file_number \in Nat /\ next_file_number <= later
  BY <1>1
<1>9. versions' = Installed(versions, current, NewId(versions), NewVersion(Edited(Current, {}, added)))
         /\ current' = NewId(versions)
  BY <1>2, Applied DEF Current
<1> HIDE DEF added, later
<1>10. /\ VersionsOK(versions', later, E) /\ Counted(versions', reader, current', cv)
       /\ \A i \in DOMAIN versions' \cap DOMAIN versions : versions'[i].files = versions[i].files
       /\ AddLiveFiles(versions') \subseteq AddLiveFiles(versions) \cup {next_file_number}
  <2>1. /\ versions' = Installed(versions, current, current', NewVersion(Edited(versions[current], {}, added)))
        /\ current' = NewId(versions)
    BY <1>9 DEF Current
  <2>2. AddedOK(versions[current], added, later, E)
    BY <1>5, <1>6 DEF Current, AddedOK
  <2> HIDE DEF cv
  <2>3. /\ VersionsOK(versions', later, E) /\ Counted(versions', reader, current', cv)
        /\ NewIn(versions', versions, current', Edited(versions[current], {}, added), added)
    BY ONLY <1>1, <1>8, <2>1, <2>2, AppliedOK
  <2> QED BY <1>7, <2>3 DEF NewIn
<1>11. Stored(E, versions', later, compaction, pending_outputs)
  <2>1. CASE compaction = Idle
    BY <1>10, <2>1 DEF Stored
  <2>2. CASE compaction # Idle
    <3>1. WorkOK(compaction, versions, next_file_number, pending_outputs, E) /\ AreVersions(versions)
      BY <2>2 DEF Stored, VersionsOK
    <3>2. cv = compaction.version /\ cv # 0 /\ cv \in DOMAIN versions
      BY <2>2, <3>1, HeldVersion DEF WorkOK
    <3>3. compaction.version \in DOMAIN versions' /\ versions'[compaction.version].files = versions[compaction.version].files
      BY <1>10, <3>2 DEF Counted
    <3>4. \A n \in NumbersOf(compaction.outs) : n \in Nat /\ n < next_file_number
      BY <3>1 DEF NumbersOf, WorkOK, OutsOK, IsFile
    <3>5. NumbersOf(compaction.outs) \cap AddLiveFiles(versions') = {}
      BY <1>1, <1>10, <3>1, <3>4 DEF WorkOK
    <3>6. WorkOK(compaction, versions', later, pending_outputs, E)
      BY <1>8, <3>1, <3>3, <3>5, WorkStays
    <3> QED BY <1>10, <3>6 DEF Stored
  <2> QED BY <2>1, <2>2
<1>12. WrittenOK(E, last_sequence, {})
  BY DEF WrittenOK
<1>13. KnownEntries'
  BY <1>3, <1>11, <1>12 DEF KnownEntries
<1>14. Scalars'
  BY <1>1, <1>3 DEF BaseInv, Scalars, later
<1>15. AllCounted'
  BY <1>3, <1>10 DEF AllCounted
<1>16. LiveFilesExist'
  <2>1. disk' = (disk \cup {next_file_number}) \cap (pending_outputs \cup AddLiveFiles(versions'))
    BY <1>3, <1>4 DEF DeleteObsoleteFiles
  <2> QED BY <1>1, <1>3, <1>10, <2>1 DEF LiveFilesExist
<1> QED BY <1>13, <1>14, <1>15, <1>16 DEF BaseInv

LEMMA TrivialMoveBase ==
  ASSUME BaseInv, NEW c, InputsOK(Current, c), TrivialMove(c)
  PROVE  BaseInv'
<1> PICK E : WrittenOK(E, last_sequence, mem) /\ Stored(E, versions, next_file_number, compaction, pending_outputs)
  BY DEF BaseInv, KnownEntries
<1> PICK f \in c.in0 : LogAndApply(versions, {<<c.level, f.number>>}, {<<c.level + 1, f>>})
  BY DEF TrivialMove
<1> DEFINE added == {<<c.level + 1, f>>}
           deleted == {<<c.level, f.number>>}
           cv == VersionOf(compaction)
<1>1. /\ next_file_number \in Nat /\ VersionsOK(versions, next_file_number, E)
      /\ Counted(versions, reader, current, cv) /\ current \in DOMAIN versions
      /\ AddLiveFiles(versions) \cup pending_outputs \subseteq disk
  BY DEF BaseInv, Scalars, AllCounted, Counted, Stored, LiveFilesExist
<1>2. UNCHANGED <<mode, last_sequence, mem, next_file_number, disk, pending_outputs, compaction, reader>>
  BY DEF TrivialMove
<1>3. f \in FilesOf(Current)
  <2>1. c.level \in Levels /\ f \in Current.files[c.level]
    BY LSMConstants DEF InputsOK, Levels
  <2> QED BY <2>1 DEF FilesOf
<1>4. AddedOK(versions[current], added, next_file_number, E) /\ NumbersAdded(added) \subseteq AddLiveFiles(versions)
  <2>1. {a[2] : a \in added} = {f} /\ FilesOf(versions[current]) \cup {f} = FilesOf(versions[current])
    BY <1>3 DEF Current
  <2>2. /\ AreFiles(FilesOf(versions[current]))
        /\ \A g \in FilesOf(versions[current]) : g.number \in AddLiveFiles(versions) /\ g.data \subseteq E
    BY <1>1, FilesOfLive
  <2>3. f.number \in AddLiveFiles(versions) /\ f.data \subseteq E
    BY <1>3, <2>2 DEF Current
  <2>4. f.number < next_file_number
    BY <1>1, <2>3, LiveBelow
  <2> QED BY <2>1, <2>2, <2>3, <2>4 DEF AddedOK, NumbersAdded
<1>5. /\ versions' = Installed(versions, current, current', NewVersion(Edited(versions[current], deleted, added)))
      /\ current' = NewId(versions)
  BY Applied
<1>6. next_file_number <= next_file_number
  BY <1>1
<1> HIDE DEF added, deleted, cv
<1>7. /\ VersionsOK(versions', next_file_number, E) /\ Counted(versions', reader, current', cv)
      /\ NewIn(versions', versions, current', Edited(versions[current], deleted, added), added)
  BY ONLY <1>1, <1>4, <1>5, <1>6, AppliedOK
<1>8. /\ \A i \in DOMAIN versions' \cap DOMAIN versions : versions'[i].files = versions[i].files
      /\ AddLiveFiles(versions') \subseteq AddLiveFiles(versions)
  BY <1>4, <1>7 DEF NewIn
<1>9. Stored(E, versions', next_file_number, compaction, pending_outputs)
  <2>1. VersionOf(compaction) # 0 => VersionOf(compaction) \in DOMAIN versions'
    BY <1>7 DEF Counted, cv
  <2> QED BY <1>1, <1>7, <1>8, <2>1, StoredStays
<1>10. KnownEntries' /\ Scalars'
  BY <1>2, <1>9 DEF KnownEntries, BaseInv, Scalars
<1>11. AllCounted' /\ LiveFilesExist'
  BY <1>1, <1>2, <1>7, <1>8 DEF AllCounted, LiveFilesExist, cv
<1> QED BY <1>10, <1>11 DEF BaseInv

(* The files a compaction writes. *)
FilesFrom(outs, next, data) == outs = [i \in DOMAIN data |-> NewFile(next + i - 1, data[i])]
OutputsFit(outs, next, data, input) ==
    \A i \in 1 .. Len(data) : /\ IsFile(outs[i]) /\ outs[i].data = data[i] /\ data[i] \subseteq input
                              /\ outs[i].number = next + i - 1
                              /\ next <= outs[i].number /\ outs[i].number < next + Len(outs)

LEMMA OutputFilesAre ==
  ASSUME NEW next \in Nat \ {0}, NEW data, NEW input, InOrder(data, input), input \subseteq Entries,
         NEW outs, FilesFrom(outs, next, data)
  PROVE  /\ outs \in Seq(UNION {{outs[i]} : i \in DOMAIN outs}) /\ Len(outs) = Len(data) /\ DOMAIN outs = 1 .. Len(data)
         /\ next + Len(outs) \in Nat \ {0} /\ next <= next + Len(outs)
         /\ OutputsFit(outs, next, data, input)
<1>1. Len(data) \in Nat /\ DOMAIN data = 1 .. Len(data)
  BY DEF InOrder
<1>2. DOMAIN outs = 1 .. Len(data)
  BY <1>1 DEF FilesFrom
<1>3. outs \in Seq(UNION {{outs[i]} : i \in DOMAIN outs}) /\ Len(outs) = Len(data)
  <2> DEFINE S == UNION {{outs[i]} : i \in DOMAIN outs}
  <2>1. \A i \in DOMAIN outs : outs[i] \in S
    OBVIOUS
  <2>2. outs = [i \in 1 .. Len(data) |-> outs[i]]
    BY <1>1 DEF FilesFrom
  <2> HIDE DEF S
  <2>3. outs \in [1 .. Len(data) -> S]
    BY <1>2, <2>1, <2>2
  <2>4. outs \in Seq(S)
    BY <1>1, <2>3
  <2>5. Len(outs) = Len(data)
    BY <1>1, <1>2, <2>4
  <2> QED BY <2>4, <2>5 DEF S
<1>4. next + Len(outs) \in Nat \ {0} /\ next <= next + Len(outs)
  BY <1>1, <1>3
<1>5. ASSUME NEW i \in 1 .. Len(data)
      PROVE  /\ IsFile(outs[i]) /\ outs[i].data = data[i] /\ data[i] \subseteq input
             /\ outs[i].number = next + i - 1 /\ next <= outs[i].number /\ outs[i].number < next + Len(outs)
  <2>1. next + i - 1 \in Nat \ {0} /\ next <= next + i - 1 /\ next + i - 1 < next + Len(outs)
    BY <1>1, <1>3
  <2>2. data[i] \subseteq input /\ data[i] # {}
    BY <1>1 DEF InOrder
  <2>3. outs[i] = NewFile(next + i - 1, data[i]) /\ data[i] \subseteq Entries
    BY <1>1, <2>2 DEF FilesFrom
  <2>4. IsFile(outs[i]) /\ outs[i].data = data[i] /\ outs[i].number = next + i - 1
    BY <2>1, <2>2, <2>3, NewFileIsFile
  <2> QED BY <2>1, <2>2, <2>4
<1> QED BY <1>2, <1>3, <1>4, <1>5 DEF OutputsFit

(* The inputs of a compaction are files of the version. *)
LEMMA InputsAre ==
  ASSUME NEW v, NEW next \in Nat, NEW E, VersionOK(v, next, E), NEW c, InputsOK(v, c)
  PROVE  /\ c.level \in Levels /\ c.level + 1 \in Levels \ {0}
         /\ c.in0 \subseteq v.files[c.level] /\ c.in1 \subseteq v.files[c.level + 1]
         /\ \A f \in c.in0 \cup c.in1 : IsFile(f) /\ f.data \subseteq E
<1>1. c.level \in Levels /\ c.level + 1 \in Levels \ {0}
  BY LSMConstants DEF InputsOK, Levels
<1>2. \A f \in v.files[c.level] \cup v.files[c.level + 1] : IsFile(f) /\ f.data \subseteq E
  BY <1>1 DEF VersionOK, FilesOK, AreFiles, FilesIn
<1>3. c.in0 # {} /\ c.in0 \subseteq v.files[c.level] /\ c.in1 = InRange(v, c.level + 1, c.in0)
  BY DEF InputsOK
<1>4. \A f \in c.in0 : IsFile(f)
  BY <1>2, <1>3
<1>5. InRange(v, c.level + 1, c.in0) \subseteq v.files[c.level + 1]
  BY <1>1, <1>2, <1>3, <1>4, InRangeKeeps
<1> QED BY <1>1, <1>2, <1>3, <1>5

InputOf(c) == UNION {f.data : f \in c.in0 \cup c.in1}

LEMMA StartedOutputs ==
  ASSUME NEW v, NEW next \in Nat, NEW E, VersionOK(v, next, E), E \subseteq Entries, Distinct(E),
         NEW c, InputsOK(v, c), NEW d, d.in0 = c.in0, d.in1 = c.in1
  PROVE  /\ InputOf(c) \subseteq E /\ InOrder(Outputs(v, d), InputOf(c))
         /\ d.smallest_snapshot \in Nat => KeptRight(v, d, InputOf(c), InputOf(c), AllOf(Outputs(v, d)))
<1>1. InputOf(c) \subseteq E
  BY InputsAre DEF InputOf
<1>2. InputOf(c) \subseteq Entries /\ Distinct(InputOf(c))
  BY <1>1 DEF Distinct
<1>3. InputOf(c) = UNION {f.data : f \in d.in0 \cup d.in1}
  BY DEF InputOf
<1> QED BY <1>1, <1>2, <1>3, OutputsOK

LEMMA StartWorkIs ==
  ASSUME NEW c, StartWork(c)
  PROVE  LET outs == OutputFiles(Outputs(Current, Started(c)))
         IN  /\ compaction' = [level |-> c.level, in0 |-> c.in0, in1 |-> c.in1, grandparents |-> c.grandparents,
                               version |-> current, smallest_snapshot |-> SmallestSnapshot, outs |-> outs]
             /\ compaction' # Idle \/ c.level = -1
             /\ versions' = Ref(versions, current) /\ next_file_number' = next_file_number + Len(outs)
             /\ pending_outputs' = pending_outputs \cup NumbersOf(outs) /\ disk' = disk \cup NumbersOf(outs)
             /\ UNCHANGED <<mode, last_sequence, mem, current, reader>>
<1> DEFINE outs == OutputFiles(Outputs(Current, Started(c)))
<1>1. /\ compaction' = [Started(c) EXCEPT !.outs = outs] /\ versions' = PickRefs(versions)
      /\ next_file_number' = next_file_number + Len(outs)
      /\ pending_outputs' = pending_outputs \cup NumbersOf(outs) /\ disk' = disk \cup NumbersOf(outs)
      /\ UNCHANGED <<mode, last_sequence, mem, current, reader>>
  BY DEF StartWork
<1> HIDE DEF outs
<1>2. compaction' = [level |-> c.level, in0 |-> c.in0, in1 |-> c.in1, grandparents |-> c.grandparents,
                     version |-> current, smallest_snapshot |-> SmallestSnapshot, outs |-> outs]
  BY <1>1 DEF Started
<1>3. compaction'.level = c.level /\ Idle.level = -1
  BY <1>2 DEF Idle
<1>4. compaction' # Idle \/ c.level = -1
  BY <1>3
<1> QED BY <1>1, <1>2, <1>4 DEF outs, PickRefs

LEMMA StartWorkBase ==
  ASSUME BaseInv, NEW c, InputsOK(Current, c), compaction = Idle, StartWork(c)
  PROVE  BaseInv'
<1> PICK E : WrittenOK(E, last_sequence, mem) /\ Stored(E, versions, next_file_number, compaction, pending_outputs)
  BY DEF BaseInv, KnownEntries
<1> DEFINE data == Outputs(Current, Started(c))
           outs == OutputFiles(data)
           later == next_file_number + Len(outs)
<1>1. /\ next_file_number \in Nat \ {0} /\ VersionsOK(versions, next_file_number, E)
      /\ Counted(versions, reader, current, 0) /\ current \in DOMAIN versions
      /\ AddLiveFiles(versions) \cup pending_outputs \subseteq disk
  BY DEF BaseInv, Scalars, AllCounted, Counted, Stored, LiveFilesExist, VersionOf
<1>2. VersionOK(Current, next_file_number, E) /\ AreVersions(versions)
  BY <1>1 DEF VersionsOK, Current
<1>3. InputOf(c) \subseteq E /\ InOrder(data, InputOf(c)) /\ E \subseteq Entries
  <2>1. Started(c).in0 = c.in0 /\ Started(c).in1 = c.in1
    BY DEF Started
  <2>2. E \subseteq Entries /\ Distinct(E) /\ next_file_number \in Nat
    BY <1>1 DEF WrittenOK
  <2> QED BY <1>2, <2>1, <2>2, StartedOutputs
<1>4. FilesFrom(outs, next_file_number, data)
  BY DEF OutputFiles, FilesFrom
<1>5. /\ compaction' = [level |-> c.level, in0 |-> c.in0, in1 |-> c.in1, grandparents |-> c.grandparents,
                        version |-> current, smallest_snapshot |-> SmallestSnapshot, outs |-> outs]
      /\ compaction' # Idle \/ c.level = -1
      /\ versions' = Ref(versions, current) /\ next_file_number' = later
      /\ pending_outputs' = pending_outputs \cup NumbersOf(outs) /\ disk' = disk \cup NumbersOf(outs)
      /\ UNCHANGED <<mode, last_sequence, mem, current, reader>>
  BY StartWorkIs
<1> HIDE DEF data, outs
<1>6. /\ Len(outs) = Len(data) /\ DOMAIN outs = 1 .. Len(data)
      /\ later \in Nat \ {0} /\ next_file_number <= later
      /\ \A i \in 1 .. Len(data) : /\ IsFile(outs[i]) /\ outs[i].data = data[i] /\ data[i] \subseteq InputOf(c)
                                   /\ outs[i].number = next_file_number + i - 1
                                   /\ next_file_number <= outs[i].number /\ outs[i].number < later
  <2>1. InputOf(c) \subseteq Entries
    BY <1>3
  <2>2. /\ Len(outs) = Len(data) /\ DOMAIN outs = 1 .. Len(data) /\ later \in Nat \ {0} /\ next_file_number <= later
        /\ OutputsFit(outs, next_file_number, data, InputOf(c))
    BY ONLY <1>1, <1>3, <1>4, <2>1, OutputFilesAre
  <2> QED BY <2>2 DEF OutputsFit
<1> HIDE DEF later
<1>7. OutsOK(outs, later, E)
  <2>1. \A i, j \in DOMAIN outs : outs[i].number = outs[j].number => i = j
    <3> SUFFICES ASSUME NEW i \in 1 .. Len(data), NEW j \in 1 .. Len(data), next_file_number + i - 1 = next_file_number + j - 1
                 PROVE  i = j
      BY <1>6
    <3>1. i \in Int /\ j \in Int
      OBVIOUS
    <3> QED BY ONLY <1>1, <3>1, next_file_number + i - 1 = next_file_number + j - 1
  <2> QED BY <1>3, <1>6, <2>1 DEF OutsOK
<1>8. \A n \in NumbersOf(outs) : n \in Nat /\ next_file_number <= n
  BY <1>6 DEF NumbersOf, IsFile
<1>9. /\ VersionsOK(versions', next_file_number, E) /\ AddLiveFiles(versions') \subseteq AddLiveFiles(versions)
      /\ DOMAIN versions' = DOMAIN versions /\ \A i \in DOMAIN versions : versions'[i].files = versions[i].files
  BY <1>1, <1>5, RefOK
<1>10. VersionsOK(versions', later, E)
  BY <1>1, <1>6, <1>9, VersionsGrow
<1>11. NumbersOf(outs) \cap AddLiveFiles(versions') = {}
  <2>1. \A n \in AddLiveFiles(versions') : n \in Nat /\ n < next_file_number
    BY <1>9, LiveBelow
  <2> QED BY <1>1, <1>8, <2>1
<1>12. /\ compaction'.level = c.level /\ compaction'.version = current /\ compaction'.in0 = c.in0
       /\ compaction'.outs = outs
  BY <1>5
<1>13. WorkOK(compaction', versions', later, pending_outputs', E)
  <2>1. c.level \in 0 .. kNumLevels - 2 /\ (c.level = 0 => ApartFrom(versions'[current].files[0], c.in0))
    BY <1>1, <1>9 DEF InputsOK, Current
  <2> QED BY <1>1, <1>5, <1>7, <1>9, <1>11, <1>12, <2>1 DEF WorkOK
<1>14. compaction' # Idle
  BY <1>5, LSMConstants DEF InputsOK
<1>15. KnownEntries'
  <2>1. Stored(E, versions', later, compaction', pending_outputs')
    BY <1>10, <1>13 DEF Stored
  <2> QED BY <1>5, <2>1 DEF KnownEntries
<1>16. Scalars'
  BY <1>5, <1>6 DEF BaseInv, Scalars
<1>17. AllCounted'
  <2>1. Counted(versions', reader, current, current)
    BY <1>1, <1>2, <1>5, StartCounted
  <2>2. VersionOf(compaction') = current
    BY <1>12, <1>14 DEF VersionOf
  <2> QED BY <1>5, <2>1, <2>2 DEF AllCounted
<1>18. LiveFilesExist'
  BY <1>1, <1>5, <1>9 DEF LiveFilesExist
<1> QED BY <1>15, <1>16, <1>17, <1>18 DEF BaseInv

LEMMA FailCompactionBase ==
  ASSUME BaseInv, FailCompaction
  PROVE  BaseInv'
<1> PICK E : WrittenOK(E, last_sequence, mem) /\ Stored(E, versions, next_file_number, compaction, pending_outputs)
  BY DEF BaseInv, KnownEntries
<1> DEFINE cv == compaction.version
<1>1. /\ compaction # Idle /\ versions' = Unref(versions, cv) /\ pending_outputs' \subseteq pending_outputs
      /\ compaction' = Idle
      /\ UNCHANGED <<mode, last_sequence, mem, current, next_file_number, disk, reader>>
  BY DEF FailCompaction, Released
<1>2. /\ VersionsOK(versions, next_file_number, E) /\ AreVersions(versions)
      /\ WorkOK(compaction, versions, next_file_number, pending_outputs, E)
  BY <1>1 DEF Stored, VersionsOK
<1>3. VersionOf(compaction) = cv /\ cv # 0 /\ cv \in DOMAIN versions
  BY <1>1, <1>2, HeldVersion DEF WorkOK
<1>4. Counted(versions, reader, current, cv)
  BY <1>3 DEF BaseInv, AllCounted
<1> HIDE DEF cv
<1>5. Counted(versions', reader, current, 0)
  BY <1>1, <1>2, <1>3, <1>4, EndCounted
<1>6. VersionsOK(versions', next_file_number, E) /\ AddLiveFiles(versions') \subseteq AddLiveFiles(versions)
  BY <1>1, <1>2, <1>3, UnrefOK
<1>7. KnownEntries' /\ Scalars'
  BY <1>1, <1>6 DEF KnownEntries, Stored, BaseInv, Scalars
<1>8. AllCounted' /\ LiveFilesExist'
  BY <1>1, <1>5, <1>6 DEF AllCounted, VersionOf, BaseInv, LiveFilesExist
<1> QED BY <1>7, <1>8 DEF BaseInv

LEMMA InstallCompactionResultsBase ==
  ASSUME BaseInv, InstallCompactionResults
  PROVE  BaseInv'
<1> PICK E : WrittenOK(E, last_sequence, mem) /\ Stored(E, versions, next_file_number, compaction, pending_outputs)
  BY DEF BaseInv, KnownEntries
<1> DEFINE c == compaction
           cv == c.version
           vs == Unref(versions, cv)
           added == {<<c.level + 1, c.outs[i]>> : i \in DOMAIN c.outs}
           deleted == InputDeletions(c)
           next == next_file_number
<1>1. c # Idle /\ LogAndApply(vs, deleted, added)
  BY DEF InstallCompactionResults
<1>2. /\ pending_outputs' = pending_outputs \ NumbersOf(c.outs) /\ compaction' = Idle
      /\ disk' = DeleteObsoleteFiles(disk, pending_outputs')
      /\ UNCHANGED <<mode, last_sequence, mem, next_file_number, reader>>
  BY DEF InstallCompactionResults, Released
<1>3. /\ VersionsOK(versions, next, E) /\ AreVersions(versions) /\ WorkOK(c, versions, next, pending_outputs, E)
      /\ AddLiveFiles(versions) \cup pending_outputs \subseteq disk /\ next \in Nat
  BY <1>1 DEF Stored, VersionsOK, BaseInv, LiveFilesExist, Scalars
<1>4. VersionOf(c) = cv /\ cv # 0 /\ cv \in DOMAIN versions /\ NumbersOf(c.outs) \subseteq pending_outputs
  BY <1>1, <1>3, HeldVersion DEF WorkOK
<1>5. Counted(versions, reader, current, cv)
  BY <1>4 DEF BaseInv, AllCounted
<1> HIDE DEF cv
<1>6. Counted(vs, reader, current, 0) /\ current \in DOMAIN vs
  BY <1>3, <1>4, <1>5, EndCounted DEF Counted
<1>7. VersionsOK(vs, next, E) /\ AddLiveFiles(vs) \subseteq AddLiveFiles(versions)
  BY <1>3, <1>4, UnrefOK
<1>8. /\ versions' = Installed(vs, current, current', NewVersion(Edited(vs[current], deleted, added)))
      /\ current' = NewId(vs)
  BY <1>1, Applied
<1> HIDE DEF vs, deleted, c
<1>8a. \A a \in added : \E i \in DOMAIN c.outs : a[2] = c.outs[i]
  OBVIOUS
<1>8b. \A i \in DOMAIN c.outs : \E a \in added : a[2] = c.outs[i]
  <2> SUFFICES ASSUME NEW i \in DOMAIN c.outs PROVE \E a \in added : a[2] = c.outs[i]
    OBVIOUS
  <2>1. <<c.level + 1, c.outs[i]>> \in added /\ <<c.level + 1, c.outs[i]>>[2] = c.outs[i]
    OBVIOUS
  <2> HIDE DEF added
  <2> QED BY <2>1
<1> HIDE DEF added
<1>9. NumbersAdded(added) = NumbersOf(c.outs)
  BY <1>8a, <1>8b DEF NumbersAdded, NumbersOf
<1>10. AddedOK(vs[current], added, next, E)
  <2> DEFINE outs == {c.outs[i] : i \in DOMAIN c.outs}
  <2>1. {a[2] : a \in added} = outs
    BY <1>8a, <1>8b
  <2>2. OutsOK(c.outs, next, E)
    BY <1>3 DEF WorkOK
  <2>3. AreFiles(outs)
    BY <2>2 DEF OutsOK, AreFiles
  <2>4. AreFiles(FilesOf(vs[current])) /\ \A f \in FilesOf(vs[current]) : f.number \in AddLiveFiles(vs)
    BY <1>6, <1>7, FilesOfLive
  <2>5. \A g \in outs : g.number \in NumbersOf(c.outs)
    BY DEF NumbersOf
  <2>6. NumbersOf(c.outs) \cap AddLiveFiles(vs) = {}
    BY <1>3, <1>7 DEF WorkOK
  <2>7. \A a \in added : a[2].number < next /\ a[2].data \subseteq E
    BY <1>8a, <2>2 DEF OutsOK
  <2> HIDE DEF outs
  <2>8. \A f \in FilesOf(vs[current]), g \in outs : f.number # g.number
    BY <2>4, <2>5, <2>6
  <2>9. AreFiles(FilesOf(vs[current]) \cup outs)
    BY <2>3, <2>4, <2>8, NewFilesApart
  <2> QED BY <2>1, <2>7, <2>9 DEF AddedOK
<1>11. next <= next
  BY <1>3
<1> HIDE DEF next
<1>12. /\ VersionsOK(versions', next, E) /\ Counted(versions', reader, current', 0)
       /\ NewIn(versions', vs, current', Edited(vs[current], deleted, added), added)
  BY ONLY <1>3, <1>6, <1>7, <1>8, <1>10, <1>11, AppliedOK
<1>13. AddLiveFiles(versions') \subseteq AddLiveFiles(versions) \cup NumbersOf(c.outs)
  BY <1>7, <1>9, <1>12 DEF NewIn
<1>14. KnownEntries' /\ Scalars'
  BY <1>2, <1>12 DEF KnownEntries, Stored, BaseInv, Scalars, next
<1>15. AllCounted'
  BY <1>2, <1>12 DEF AllCounted, VersionOf
<1>16. LiveFilesExist'
  <2>1. disk' = disk \cap (pending_outputs' \cup AddLiveFiles(versions'))
    BY <1>2 DEF DeleteObsoleteFiles
  <2> QED BY <1>2, <1>3, <1>4, <1>13, <2>1 DEF LiveFilesExist
<1> QED BY <1>14, <1>15, <1>16 DEF BaseInv

(* Whatever is compacted has proper inputs. *)
LEMMA PickedInputs ==
  ASSUME BaseInv, NeedsCompaction
  PROVE  InputsOK(Current, PickCompaction(Current)) /\ Gapless(PickCompaction(Current).in0 \cup PickCompaction(Current).in1)
<1> PICK E : Stored(E, versions, next_file_number, compaction, pending_outputs)
  BY DEF BaseInv, KnownEntries
<1>1. next_file_number \in Nat /\ FilesOK(Current.files, next_file_number) /\ ChargeOK(Current)
  BY DEF BaseInv, Scalars, AllCounted, Counted, Stored, VersionsOK, VersionOK, Current
<1>2. SizeCompaction(Current) \/ SeekCompaction(Current)
  BY DEF NeedsCompaction
<1> QED BY <1>1, <1>2, PickIsOK

LEMMA ManualInputs ==
  ASSUME BaseInv, NEW level \in 0 .. kNumLevels - 2, NEW lo \in UserKeys, NEW hi \in UserKeys,
         GetOverlappingInputs(Current, level, lo, hi) # {}
  PROVE  InputsOK(Current, CompactRange(Current, level, lo, hi))
<1> PICK E : Stored(E, versions, next_file_number, compaction, pending_outputs)
  BY DEF BaseInv, KnownEntries
<1>1. next_file_number \in Nat /\ FilesOK(Current.files, next_file_number) /\ mode \in Modes
  BY DEF BaseInv, Scalars, AllCounted, Counted, Stored, VersionsOK, VersionOK, Current
<1> QED BY <1>1, CompactRangeIsOK

LEMMA NextBase ==
  ASSUME BaseInv, [Next]_vars
  PROVE  BaseInv'
<1>1. CASE UNCHANGED vars
  BY <1>1, UnchangedBase DEF vars
<1>2. CASE \E k \in UserKeys, t \in {kTypeValue, kTypeDeletion} : Write(k, t)
  BY <1>2, WriteBase
<1>3. CASE GetSnapshot
  BY <1>3, UnchangedBase DEF GetSnapshot
<1>4. CASE \E s \in snapshots : ReleaseSnapshot(s)
  BY <1>4, UnchangedBase DEF ReleaseSnapshot
<1>5. CASE \E r \in Readers : NewIterator(r) \/ DeleteIterator(r)
  BY <1>5, NewIteratorBase, DeleteIteratorBase
<1>6. CASE \/ \E k \in UserKeys, s \in snapshots \cup {last_sequence} : Get(k, s)
           \/ \E k \in UserKeys : RecordReadSample(k)
  BY <1>6, ReadsBase
<1>7. CASE CompactMemTable
  BY <1>7, CompactMemTableBase
<1>8. CASE AutomaticMove
  <2>1. NeedsCompaction /\ TrivialMove(PickCompaction(Current))
    BY <1>8 DEF AutomaticMove
  <2> QED BY <2>1, PickedInputs, TrivialMoveBase
<1>9. CASE AutomaticCompaction
  <2>1. NeedsCompaction /\ compaction = Idle /\ StartWork(PickCompaction(Current))
    BY <1>9 DEF AutomaticCompaction, Free
  <2> QED BY <2>1, PickedInputs, StartWorkBase
<1>10. CASE \E level \in 0 .. kNumLevels - 2, lo, hi \in UserKeys : ManualCompaction(level, lo, hi)
  <2>1. PICK level \in 0 .. kNumLevels - 2, lo \in UserKeys, hi \in UserKeys : ManualCompaction(level, lo, hi)
    BY <1>10
  <2>2. /\ compaction = Idle /\ GetOverlappingInputs(Current, level, lo, hi) # {}
        /\ StartWork(CompactRange(Current, level, lo, hi))
    BY <2>1 DEF ManualCompaction, Free
  <2> QED BY <2>2, ManualInputs, StartWorkBase
<1>11. CASE InstallCompactionResults
  BY <1>11, InstallCompactionResultsBase
<1>12. CASE FailCompaction
  BY <1>12, FailCompactionBase
<1> QED BY <1>1, <1>2, <1>3, <1>4, <1>5, <1>6, <1>7, <1>8, <1>9, <1>10, <1>11, <1>12 DEF Next

LEMMA BaseHolds == Spec => []BaseInv
<1>1. BaseInv /\ [Next]_vars => BaseInv'
  BY NextBase
<1> QED BY <1>1, InitBase, PTL DEF Spec

LEMMA BaseIsSound ==
  ASSUME BaseInv
  PROVE  VersionsSound /\ CompactionWellFormed
<1> PICK E : Stored(E, versions, next_file_number, compaction, pending_outputs)
  BY DEF BaseInv, KnownEntries
<1>1. Counted(versions, reader, current, VersionOf(compaction)) /\ DOMAIN versions \subseteq Nat \ {0}
  BY DEF BaseInv, AllCounted, Stored, VersionsOK, AreVersions
<1>2. ASSUME NEW id \in DOMAIN versions PROVE versions[id].refs = Holders(id)
  <2>1. versions[id].refs = Cardinality(ReadersOf(reader, id)) + One(current, id) + One(VersionOf(compaction), id)
    BY <1>1 DEF Counted, Held
  <2>2. One(VersionOf(compaction), id) = IF compaction # Idle /\ compaction.version = id THEN 1 ELSE 0
    BY <1>1 DEF One, VersionOf
  <2> QED BY <2>1, <2>2 DEF Holders, ReadersOf, One
<1>3. VersionsSound
  BY <1>1, <1>2 DEF Counted, VersionsCounted, VersionsSound, BaseInv
<1>4. CompactionWellFormed
  <2> SUFFICES ASSUME compaction # Idle
               PROVE  /\ compaction.level + 1 < kNumLevels
                      /\ compaction.level = 0 =>
                            \A f \in versions[compaction.version].files[0] \ compaction.in0, g \in compaction.in0 :
                                ~ Overlaps(f, g.smallest.k, g.largest.k)
    BY DEF CompactionWellFormed
  <2>1. WorkOK(compaction, versions, next_file_number, pending_outputs, E)
    BY DEF Stored
  <2> QED BY <2>1, LSMConstants DEF WorkOK, ApartFrom
<1> QED BY <1>3, <1>4

(* Versions are counted exactly: every holder (the version set itself, an    *)
(* iterator, the running compaction) finds its version in the list, a        *)
(* version nobody holds has left it, and DeleteObsoleteFiles never removes a *)
(* table file that a listed version or a running compaction needs.           *)
THEOREM VersionsAreSound == Spec => []VersionsSound
<1>1. BaseInv => VersionsSound
  BY BaseIsSound
<1> QED BY <1>1, BaseHolds, PTL

(* PickCompaction, with a file that UpdateStats charged or by size, and      *)
(* CompactRange never compact the last level, and take files of level 0      *)
(* together with all those they overlap.                                     *)
THEOREM CompactionsAreWellFormed == Spec => []CompactionWellFormed
<1>1. BaseInv => CompactionWellFormed
  BY BaseIsSound
<1> QED BY <1>1, BaseHolds, PTL

-----------------------------------------------------------------------------
(* Levels above 0.  While a compaction runs, the files of the level it      *)
(* writes to that are not its inputs lie before or behind all its inputs.   *)
(* A memtable flushed to that level meanwhile does so only if the inputs    *)
(* leave no gap, as those of PickCompaction; CompactRange may take files on *)
(* both sides of a gap.                                                     *)
ApartFiles(f, g) == f = g \/ Before(f.largest, g.smallest) \/ Before(g.largest, f.smallest)
LevelsApart(files) == \A l \in Levels \ {0} : \A f, g \in files[l] : ApartFiles(f, g)
Outside(h, gs) == (\A g \in gs : Before(h.largest, g.smallest)) \/ (\A g \in gs : Before(g.largest, h.smallest))
InputsHold(c, files, during) ==
    /\ c.in0 \subseteq files[c.level] /\ c.in1 \subseteq files[c.level + 1]
    /\ \A h \in files[c.level + 1] \ c.in1 : Outside(h, c.in0 \cup c.in1)
    /\ during => Gapless(c.in0 \cup c.in1)
OutsHold(c) ==
    /\ DOMAIN c.outs \subseteq Nat /\ \A i \in DOMAIN c.outs : c.outs[i].data \subseteq InputOf(c)
    /\ \A i, j \in DOMAIN c.outs : i < j => Ahead(c.outs[i].data, c.outs[j].data)
LevelInv ==
    /\ \A id \in DOMAIN versions : LevelsApart(versions[id].files)
    /\ compaction # Idle => InputsHold(compaction, Current.files, Uses("flush_during")) /\ OutsHold(compaction)

LEMMA KeyOrder ==
  ASSUME NEW f, IsFile(f), NEW g, IsFile(g), f.largest.k < g.smallest.k
  PROVE  Before(f.largest, g.smallest)
  BY FileRange, BeforeOrder

(* The level a memtable is flushed to, and the levels above, have no file    *)
(* that overlaps it.                                                         *)
LEMMA PickedLevel ==
  ASSUME mode \in Modes, NEW v, NEW lo, NEW hi, NEW L, L = PickLevelForMemTableOutput(v, lo, hi)
  PROVE  L \in Levels /\ (L # 0 => \A i \in 0 .. L : ~ OverlapInLevel(v, i, lo, hi))
<1>1. kMaxMemCompactLevel(mode) \in 0 .. kNumLevels - 2 /\ kNumLevels \in Nat
  BY LSMConstants
<1>2. CASE OverlapInLevel(v, 0, lo, hi)
  BY <1>1, <1>2 DEF PickLevelForMemTableOutput, Levels
<1>3. CASE ~ OverlapInLevel(v, 0, lo, hi)
  <2> DEFINE top == kMaxMemCompactLevel(mode)
             Fits(i) == /\ ~ OverlapInLevel(v, i, lo, hi)
                        /\ i + 1 < kNumLevels =>
                             TotalFileSize(GetOverlappingInputs(v, i + 1, lo, hi)) <= kMaxGrandParentOverlapBytes
             S == {l \in 0 .. top : \A i \in 1 .. l : Fits(i)}
  <2>1. L = Max(S)
    BY <1>3 DEF PickLevelForMemTableOutput
  <2> HIDE DEF Fits, top
  <2>2. 0 \in S /\ S \subseteq Nat /\ S \subseteq 0 .. top /\ top \in Nat
    BY <1>1 DEF top
  <2>3. \A l \in S : \A i \in 1 .. l : Fits(i)
    OBVIOUS
  <2> HIDE DEF S
  <2>4. \E x \in S : \A y \in S : x >= y
    <3>1. Bounded(S)
      BY <2>2 DEF Bounded
    <3> QED BY <2>2, <3>1, GreatestNatural
  <2>5. L \in S
    BY <2>1, <2>4 DEF Max
  <2>6. L \in 0 .. top
    BY <2>2, <2>5
  <2>7. L \in Levels
    BY <1>1, <2>6 DEF Levels, top
  <2>8. ASSUME NEW i \in 0 .. L PROVE ~ OverlapInLevel(v, i, lo, hi)
    <3>1. CASE i = 0
      BY <1>3, <3>1
    <3>2. CASE i # 0
      <4>1. i \in 1 .. L
        BY <2>2, <2>6, <3>2
      <4> QED BY <2>3, <2>5, <4>1 DEF Fits
    <3> QED BY <3>1, <3>2
  <2> QED BY <2>7, <2>8
<1> QED BY <1>2, <1>3

Aside(g, f) == g.largest.k < f.smallest.k \/ f.largest.k < g.smallest.k

LEMMA AsideOfLevel ==
  ASSUME NEW v, NEW level \in Levels, AreFiles(v.files[level]), NEW f, IsFile(f),
         ~ OverlapInLevel(v, level, f.smallest.k, f.largest.k)
  PROVE  \A g \in v.files[level] : Aside(g, f)
<1> SUFFICES ASSUME NEW g \in v.files[level] PROVE Aside(g, f)
  OBVIOUS
<1>1. f.smallest.k \in Nat /\ f.largest.k \in Nat /\ g.smallest.k \in Nat /\ g.largest.k \in Nat
  BY FileRange DEF AreFiles
<1>2. ~ Overlaps(g, f.smallest.k, f.largest.k)
  BY <1>1, OverlapIsFound
<1> QED BY <1>1, <1>2 DEF Overlaps, Aside

LEMMA AsideIsOutside ==
  ASSUME NEW gs, \A g \in gs : IsFile(g), Gapless(gs), NEW f, IsFile(f), \A g \in gs : Aside(g, f)
  PROVE  Outside(f, gs)
<1>1. /\ f.smallest.k \in UserKeys /\ f.smallest.k \in Nat /\ f.largest.k \in Nat /\ f.smallest.k <= f.largest.k
      /\ \A g \in gs : g.smallest.k \in Nat /\ g.largest.k \in Nat /\ g.smallest.k <= g.largest.k
  BY FileRange
<1>2. (\A g \in gs : f.largest.k < g.smallest.k) \/ (\A g \in gs : g.largest.k < f.smallest.k)
  <2> SUFFICES ASSUME NEW a \in gs, ~ (f.largest.k < a.smallest.k), NEW b \in gs, ~ (b.largest.k < f.smallest.k)
               PROVE  FALSE
    OBVIOUS
  <2>1. a.largest.k < f.smallest.k /\ f.largest.k < b.smallest.k
    BY DEF Aside
  <2>2. a.smallest.k <= f.smallest.k /\ f.smallest.k <= b.largest.k
    BY <1>1, <2>1
  <2>3. PICK g \in gs : g.smallest.k <= f.smallest.k /\ f.smallest.k <= g.largest.k
    BY <1>1, <2>2 DEF Gapless, Covered
  <2>4. Aside(g, f)
    BY <2>3
  <2> QED BY <1>1, <2>3, <2>4 DEF Aside
<1>3. CASE \A g \in gs : f.largest.k < g.smallest.k
  BY <1>3, KeyOrder DEF Outside
<1>4. CASE \A g \in gs : g.largest.k < f.smallest.k
  BY <1>4, KeyOrder DEF Outside
<1> QED BY <1>2, <1>3, <1>4

(* A level that gets a file aside of its own. *)
LEMMA FlushedApart ==
  ASSUME NEW v, LevelsApart(v.files), \A l \in Levels : \A g \in v.files[l] : IsFile(g),
         NEW L \in Levels, NEW f, IsFile(f), L # 0 => \A g \in v.files[L] : Aside(g, f)
  PROVE  LevelsApart(Edited(v, {}, {<<L, f>>}))
<1> SUFFICES ASSUME NEW l \in Levels, l # 0, NEW g, g \in Edited(v, {}, {<<L, f>>})[l],
                    NEW h, h \in Edited(v, {}, {<<L, f>>})[l]
             PROVE  ApartFiles(g, h)
  BY DEF LevelsApart
<1>1. (g \in v.files[l] \/ (g = f /\ l = L)) /\ (h \in v.files[l] \/ (h = f /\ l = L))
  BY DEF Edited
<1>2. ASSUME NEW a \in v.files[l], l = L PROVE ApartFiles(a, f) /\ ApartFiles(f, a)
  <2>1. IsFile(a) /\ Aside(a, f)
    BY <1>2
  <2>2. Before(a.largest, f.smallest) \/ Before(f.largest, a.smallest)
    BY <2>1, KeyOrder DEF Aside
  <2> QED BY <2>2 DEF ApartFiles
<1>3. CASE g \in v.files[l] /\ h \in v.files[l]
  BY <1>3 DEF LevelsApart
<1>4. CASE g = f /\ h = f
  BY <1>4 DEF ApartFiles
<1> QED BY <1>1, <1>2, <1>3, <1>4

(* A file moved to a level where nothing is in its range. *)
LEMMA MovedApart ==
  ASSUME NEW v, NEW next \in Nat, NEW E, VersionOK(v, next, E), LevelsApart(v.files),
         NEW c, InputsOK(v, c), c.in1 = {}, NEW f \in c.in0
  PROVE  LevelsApart(Edited(v, {<<c.level, f.number>>}, {<<c.level + 1, f>>}))
<1> DEFINE files == Edited(v, {<<c.level, f.number>>}, {<<c.level + 1, f>>})
<1>1. /\ c.level \in Levels /\ c.level + 1 \in Levels \ {0}
      /\ c.in0 \subseteq v.files[c.level] /\ \A g \in c.in0 : IsFile(g)
  BY InputsAre
<1>2. c.in0 # {} /\ InRange(v, c.level + 1, c.in0) = {}
  BY DEF InputsOK
<1>3. \A g \in v.files[c.level + 1] : IsFile(g)
  BY <1>1 DEF VersionOK, FilesOK, AreFiles
<1>4. ASSUME NEW h \in v.files[c.level + 1] PROVE ApartFiles(h, f) /\ ApartFiles(f, h)
  <2>1. h \notin InRange(v, c.level + 1, c.in0)
    BY <1>2
  <2>2. (\A g \in c.in0 : h.largest.k < g.smallest.k) \/ (\A g \in c.in0 : g.largest.k < h.smallest.k)
    BY <1>1, <1>2, <1>3, <2>1, InRangeOutside
  <2>3. Before(h.largest, f.smallest) \/ Before(f.largest, h.smallest)
    BY <1>1, <1>3, <2>2, KeyOrder
  <2> QED BY <2>3 DEF ApartFiles
<1>5. \A l \in Levels : \A g : g \in files[l] => g \in v.files[l] \/ (g = f /\ l = c.level + 1)
  BY DEF Edited
<1> HIDE DEF files
<1>6. LevelsApart(files)
  <2> SUFFICES ASSUME NEW l \in Levels, l # 0, NEW g \in files[l], NEW h \in files[l] PROVE ApartFiles(g, h)
    BY DEF LevelsApart
  <2>1. CASE g \in v.files[l] /\ h \in v.files[l]
    BY <2>1 DEF LevelsApart
  <2>2. CASE g = f /\ h = f
    BY <2>2 DEF ApartFiles
  <2> QED BY <1>4, <1>5, <2>1, <2>2
<1> QED BY <1>6 DEF files

(* The inputs of a new compaction. *)
LEMMA InputsStart ==
  ASSUME NEW v, NEW next \in Nat, NEW E, VersionOK(v, next, E), LevelsApart(v.files), NEW c, InputsOK(v, c),
         NEW during, during => Gapless(c.in0 \cup c.in1)
  PROVE  InputsHold(c, v.files, during)
<1> DEFINE level == c.level + 1
<1>1. /\ c.level \in Levels /\ level \in Levels \ {0}
      /\ c.in0 \subseteq v.files[c.level] /\ c.in1 \subseteq v.files[level] /\ \A g \in c.in0 \cup c.in1 : IsFile(g)
  BY InputsAre
<1>2. c.in0 # {} /\ InRange(v, level, c.in0) = c.in1
  BY DEF InputsOK
<1>3. \A g \in v.files[level] : IsFile(g)
  BY <1>1 DEF VersionOK, FilesOK, AreFiles
<1> HIDE DEF level
<1>4. ASSUME NEW h \in v.files[level], h \notin c.in1 PROVE Outside(h, c.in0 \cup c.in1)
  <2>1. \/ /\ \A g \in c.in0 : h.largest.k < g.smallest.k
           /\ \A g \in c.in1 : h.largest.k < g.largest.k
        \/ /\ \A g \in c.in0 : g.largest.k < h.smallest.k
           /\ \A g \in c.in1 : g.smallest.k < h.smallest.k
    <3>1. h \notin InRange(v, level, c.in0) /\ \A g \in c.in0 : IsFile(g)
      BY <1>1, <1>2, <1>4
    <3>2. \/ /\ \A g \in c.in0 : h.largest.k < g.smallest.k
             /\ \A g \in InRange(v, level, c.in0) : h.largest.k < g.largest.k
          \/ /\ \A g \in c.in0 : g.largest.k < h.smallest.k
             /\ \A g \in InRange(v, level, c.in0) : g.smallest.k < h.smallest.k
      BY <1>1, <1>2, <1>3, <3>1, InRangeOutside
    <3> QED BY <1>2, <3>2
  <2>2. IsFile(h) /\ h.smallest.k \in Nat /\ h.largest.k \in Nat /\ h.smallest.k <= h.largest.k
    BY <1>3, FileRange
  <2>3. ASSUME NEW g \in c.in1
        PROVE  /\ IsFile(g) /\ g.smallest.k \in Nat /\ g.largest.k \in Nat /\ g.smallest.k <= g.largest.k
               /\ Before(h.largest, g.smallest) \/ Before(g.largest, h.smallest)
               /\ Before(h.largest, g.smallest) => h.largest.k <= g.smallest.k
               /\ Before(g.largest, h.smallest) => g.largest.k <= h.smallest.k
    <3>1. IsFile(g) /\ g \in v.files[level] /\ g # h
      BY <1>1, <1>4
    <3>2. g.smallest.k \in Nat /\ g.largest.k \in Nat /\ g.smallest.k <= g.largest.k
      BY <3>1, FileRange
    <3>3. Before(h.largest, g.smallest) \/ Before(g.largest, h.smallest)
      BY <1>1, <3>1 DEF LevelsApart, ApartFiles
    <3>4. /\ Before(h.largest, g.smallest) => h.largest.k <= g.smallest.k
          /\ Before(g.largest, h.smallest) => g.largest.k <= h.smallest.k
      BY <2>2, <3>1, FileRange, BeforeOrder
    <3> QED BY <3>1, <3>2, <3>3, <3>4
  <2>4. CASE (\A g \in c.in0 : h.largest.k < g.smallest.k) /\ (\A g \in c.in1 : h.largest.k < g.largest.k)
    <3>1. \A g \in c.in0 : Before(h.largest, g.smallest)
      BY <1>1, <2>2, <2>4, KeyOrder
    <3>2. ASSUME NEW g \in c.in1 PROVE Before(h.largest, g.smallest)
      BY <2>2, <2>3, <2>4
    <3> QED BY <3>1, <3>2 DEF Outside
  <2>5. CASE (\A g \in c.in0 : g.largest.k < h.smallest.k) /\ (\A g \in c.in1 : g.smallest.k < h.smallest.k)
    <3>1. \A g \in c.in0 : Before(g.largest, h.smallest)
      BY <1>1, <2>2, <2>5, KeyOrder
    <3>2. ASSUME NEW g \in c.in1 PROVE Before(g.largest, h.smallest)
      BY <2>2, <2>3, <2>5
    <3> QED BY <3>1, <3>2 DEF Outside
  <2> QED BY <2>1, <2>4, <2>5
<1> QED BY <1>1, <1>4 DEF InputsHold, level

(* Another file for one of the levels. *)
LEMMA InputsStay ==
  ASSUME NEW v, NEW c, NEW during, InputsHold(c, v.files, during), NEW L, NEW f,
         c.level \in Levels, c.level + 1 \in Levels, L = c.level + 1 => Outside(f, c.in0 \cup c.in1)
  PROVE  InputsHold(c, Edited(v, {}, {<<L, f>>}), during)
<1> DEFINE files == Edited(v, {}, {<<L, f>>})
<1>1. \A l \in Levels : v.files[l] \subseteq files[l] /\ \A g \in files[l] : g \in v.files[l] \/ (g = f /\ l = L)
  BY DEF Edited
<1> HIDE DEF files
<1>2. c.in0 \subseteq files[c.level] /\ c.in1 \subseteq files[c.level + 1]
  BY <1>1 DEF InputsHold
<1>3. \A h \in files[c.level + 1] \ c.in1 : Outside(h, c.in0 \cup c.in1)
  BY <1>1 DEF InputsHold
<1>4. InputsHold(c, files, during)
  BY <1>2, <1>3 DEF InputsHold
<1> QED BY <1>4 DEF files

(* The outputs take the place of the inputs. *)
OutsAdded(c) == {<<c.level + 1, c.outs[i]>> : i \in DOMAIN c.outs}
AllFiles(v, c) ==
    /\ \A f \in c.in0 \cup c.in1 \cup v.files[c.level + 1] : IsFile(f)
    /\ \A i \in DOMAIN c.outs : IsFile(c.outs[i])

LEMMA OutputsApart ==
  ASSUME NEW v, NEW c, InputsHold(c, v.files, FALSE), OutsHold(c), LevelsApart(v.files),
         c.level \in Levels, c.level + 1 \in Levels \ {0}, AllFiles(v, c)
  PROVE  LevelsApart(Edited(v, InputDeletions(c), OutsAdded(c)))
<1> USE DEF AllFiles
<1> DEFINE deleted == InputDeletions(c)
           added == OutsAdded(c)
           files == Edited(v, deleted, added)
<1>1. \A l \in Levels : \A g \in files[l] :
         \/ g \in v.files[l] /\ <<l, g.number>> \notin deleted
         \/ l = c.level + 1 /\ \E i \in DOMAIN c.outs : g = c.outs[i]
  BY DEF Edited, OutsAdded
<1>2. \A g \in c.in1 : <<c.level + 1, g.number>> \in deleted
  BY DEF InputDeletions
<1> HIDE DEF files, deleted, added
<1>3. ASSUME NEW h \in v.files[c.level + 1], h \notin c.in1, NEW i \in DOMAIN c.outs
      PROVE  Before(h.largest, c.outs[i].smallest) \/ Before(c.outs[i].largest, h.smallest)
  <2> DEFINE o == c.outs[i]
  <2>0. IsFile(o) /\ IsFile(h) /\ o.data \subseteq InputOf(c)
    BY DEF OutsHold
  <2>1. IsFile(o) /\ IsFile(h) /\ o.data \subseteq InputOf(c) /\ o.smallest \in o.data /\ o.largest \in o.data
    BY <2>0 DEF IsFile
  <2> HIDE DEF o
  <2>2. PICK a \in c.in0 \cup c.in1 : o.smallest \in a.data
    BY <2>1 DEF InputOf
  <2>3. PICK b \in c.in0 \cup c.in1 : o.largest \in b.data
    BY <2>1 DEF InputOf
  <2>4. ~ Before(o.smallest, a.smallest) /\ ~ Before(b.largest, o.largest)
    BY <2>2, <2>3 DEF IsFile
  <2>5. /\ o.smallest \in Entries /\ o.largest \in Entries /\ a.smallest \in Entries /\ b.largest \in Entries
        /\ h.smallest \in Entries /\ h.largest \in Entries
    BY <2>1, <2>2, <2>3, FileRange
  <2>6. CASE \A g \in c.in0 \cup c.in1 : Before(h.largest, g.smallest)
    <3>1. Before(h.largest, a.smallest)
      BY <2>2, <2>6
    <3> QED BY <2>4, <2>5, <3>1, BeforeOrder DEF o
  <2>7. CASE \A g \in c.in0 \cup c.in1 : Before(g.largest, h.smallest)
    <3>1. Before(b.largest, h.smallest)
      BY <2>3, <2>7
    <3> QED BY <2>4, <2>5, <3>1, BeforeOrder DEF o
  <2>8. Outside(h, c.in0 \cup c.in1)
    BY <1>3 DEF InputsHold
  <2> QED BY <2>6, <2>7, <2>8 DEF Outside
<1>4. ASSUME NEW i \in DOMAIN c.outs, NEW j \in DOMAIN c.outs PROVE ApartFiles(c.outs[i], c.outs[j])
  <2>1. /\ c.outs[i].smallest \in c.outs[i].data /\ c.outs[i].largest \in c.outs[i].data
        /\ c.outs[j].smallest \in c.outs[j].data /\ c.outs[j].largest \in c.outs[j].data
    BY DEF IsFile
  <2>2. i \in Nat /\ j \in Nat
    BY DEF OutsHold
  <2>3. CASE i < j
    BY <2>1, <2>3 DEF OutsHold, Ahead, ApartFiles
  <2>4. CASE j < i
    BY <2>1, <2>4 DEF OutsHold, Ahead, ApartFiles
  <2>5. CASE i = j
    BY <2>5 DEF ApartFiles
  <2> QED BY <2>2, <2>3, <2>4, <2>5
<1>5. ASSUME NEW l \in Levels, l # 0, NEW g \in files[l], NEW h \in files[l] PROVE ApartFiles(g, h)
  <2>1. CASE g \in v.files[l] /\ h \in v.files[l]
    BY <1>5, <2>1 DEF LevelsApart
  <2>2. CASE l = c.level + 1 /\ (\E i \in DOMAIN c.outs : g = c.outs[i]) /\ \E i \in DOMAIN c.outs : h = c.outs[i]
    BY <1>4, <2>2
  <2>3. CASE /\ l = c.level + 1 /\ g \in v.files[l] /\ <<l, g.number>> \notin deleted
             /\ \E i \in DOMAIN c.outs : h = c.outs[i]
    <3>1. g \notin c.in1
      BY <1>2, <2>3
    <3> QED BY <1>3, <2>3, <3>1 DEF ApartFiles
  <2>4. CASE /\ l = c.level + 1 /\ h \in v.files[l] /\ <<l, h.number>> \notin deleted
             /\ \E i \in DOMAIN c.outs : g = c.outs[i]
    <3>1. h \notin c.in1
      BY <1>2, <2>4
    <3> QED BY <1>3, <2>4, <3>1 DEF ApartFiles
  <2> QED BY <1>1, <2>1, <2>2, <2>3, <2>4
<1>6. LevelsApart(files)
  BY <1>5 DEF LevelsApart
<1> QED BY <1>6 DEF files, deleted, added

(* Steps that leave the current version's files alone. *)
LEMMA LevelsStay ==
  ASSUME BaseInv, BaseInv', LevelInv, UNCHANGED <<mode, current>>, compaction' = compaction \/ compaction' = Idle,
         \A i \in DOMAIN versions' : i \in DOMAIN versions /\ versions'[i].files = versions[i].files
  PROVE  LevelInv'
<1>1. current \in DOMAIN versions'
  BY DEF BaseInv, AllCounted, Counted
<1>2. Current'.files = Current.files
  BY <1>1 DEF Current
<1>3. \A id \in DOMAIN versions' : LevelsApart(versions'[id].files)
  BY DEF LevelInv
<1>4. Uses("flush_during")' = Uses("flush_during")
  BY DEF Uses
<1> QED BY <1>2, <1>3, <1>4 DEF LevelInv

LEMMA IteratorLevels ==
  ASSUME BaseInv, BaseInv', LevelInv, NEW r \in Readers, NewIterator(r) \/ DeleteIterator(r)
  PROVE  LevelInv'
<1> PICK E : Stored(E, versions, next_file_number, compaction, pending_outputs)
  BY DEF BaseInv, KnownEntries
<1>1. VersionsOK(versions, next_file_number, E) /\ Counted(versions, reader, current, VersionOf(compaction))
  BY DEF Stored, BaseInv, AllCounted
<1>2. PICK id \in DOMAIN versions : versions' = Ref(versions, id) \/ versions' = Unref(versions, id)
  BY <1>1 DEF NewIterator, DeleteIterator, Counted
<1>3. \A i \in DOMAIN versions' : i \in DOMAIN versions /\ versions'[i].files = versions[i].files
  BY <1>1, <1>2, RefOK, UnrefOK
<1>4. UNCHANGED <<mode, current, compaction>>
  BY DEF NewIterator, DeleteIterator
<1> QED BY <1>3, <1>4, LevelsStay

LEMMA ReadLevels ==
  ASSUME BaseInv, BaseInv', LevelInv, NEW charge, UpdateStats(charge)
  PROVE  LevelInv'
<1> PICK E : Stored(E, versions, next_file_number, compaction, pending_outputs)
  BY DEF BaseInv, KnownEntries
<1>1. AreVersions(versions) /\ current \in DOMAIN versions
  BY DEF Stored, VersionsOK, BaseInv, AllCounted, Counted
<1>2. UNCHANGED <<mode, current, compaction>>
  BY DEF UpdateStats
<1>3. \A i \in DOMAIN versions' : i \in DOMAIN versions /\ versions'[i].files = versions[i].files
  <2>1. CASE versions' = versions
    BY <2>1
  <2>2. CASE versions' = [versions EXCEPT ![current].file_to_compact = charge]
    <3>1. DOMAIN versions' = DOMAIN versions /\ \A i \in DOMAIN versions : i # current => versions'[i] = versions[i]
      BY <1>1, <2>2 DEF AreVersions
    <3>2. versions'[current] = [versions[current] EXCEPT !.file_to_compact = charge]
      BY <1>1, <2>2 DEF AreVersions
    <3>3. versions'[current].files = versions[current].files
      BY <1>1, <3>2 DEF AreVersions, IsVersion
    <3> QED BY <3>1, <3>3
  <2> QED BY <2>1, <2>2 DEF UpdateStats
<1> QED BY <1>2, <1>3, LevelsStay

(* A new version whose levels are apart. *)
LEMMA NewLevels ==
  ASSUME NEW vs, AreVersions(vs), NEW cur \in DOMAIN vs, NEW id, id = NewId(vs),
         NEW files, LevelsApart(files), \A i \in DOMAIN vs : LevelsApart(vs[i].files),
         NEW ws, ws = Installed(vs, cur, id, NewVersion(files))
  PROVE  ws[id].files = files /\ \A i \in DOMAIN ws : LevelsApart(ws[i].files)
<1> DEFINE v == NewVersion(files)
<1>1. id \in Nat \ {0} /\ id \notin DOMAIN vs
  BY NewIdIs DEF AreVersions
<1>2. IsVersion(v) /\ v.files = files
  BY DEF NewVersion, IsVersion
<1> HIDE DEF v
<1>3. /\ SameFiles(ws[id], v) /\ DOMAIN ws \subseteq DOMAIN vs \cup {id}
      /\ \A i \in DOMAIN ws \ {id} : SameFiles(ws[i], vs[i])
  <2>1. ws = Installed(vs, cur, id, v)
    BY DEF v
  <2> QED BY <1>1, <1>2, <2>1, InstalledIs
<1>4. ws[id].files = files
  BY <1>2, <1>3 DEF SameFiles
<1>5. ASSUME NEW i \in DOMAIN ws PROVE LevelsApart(ws[i].files)
  <2>1. CASE i = id
    BY <1>4, <2>1
  <2>2. CASE i # id
    <3>1. i \in DOMAIN vs /\ ws[i].files = vs[i].files
      BY <1>3, <2>2 DEF SameFiles
    <3> QED BY <3>1
  <2> QED BY <2>1, <2>2
<1> QED BY <1>4, <1>5

LEMMA CompactMemTableLevels ==
  ASSUME BaseInv, LevelInv, CompactMemTable
  PROVE  LevelInv'
<1> PICK E : WrittenOK(E, last_sequence, mem) /\ Stored(E, versions, next_file_number, compaction, pending_outputs)
  BY DEF BaseInv, KnownEntries
<1> DEFINE f == NewFile(next_file_number, mem)
           L == PickLevelForMemTableOutput(Current, f.smallest.k, f.largest.k)
           files == Edited(Current, {}, {<<L, f>>})
           c == compaction
<1>1. /\ mode \in Modes /\ next_file_number \in Nat \ {0} /\ VersionsOK(versions, next_file_number, E)
      /\ AreVersions(versions) /\ current \in DOMAIN versions
  BY DEF BaseInv, Scalars, AllCounted, Counted, Stored, VersionsOK
<1>2. VersionOK(Current, next_file_number, E) /\ LevelsApart(Current.files)
  BY <1>1 DEF VersionsOK, LevelInv, Current
<1>3. \A l \in Levels : AreFiles(Current.files[l]) /\ \A g \in Current.files[l] : IsFile(g)
  BY <1>2 DEF VersionOK, FilesOK, AreFiles
<1>4. mem # {} /\ (c = Idle \/ Uses("flush_during")) /\ UNCHANGED <<mode, compaction>>
  BY DEF CompactMemTable
<1>5. /\ versions' = Installed(versions, current, current', NewVersion(files))
      /\ current' = NewId(versions)
  <2>1. LogAndApply(versions, {}, {<<L, f>>})
    BY DEF CompactMemTable
  <2> HIDE DEF f, L
  <2> QED BY <2>1, Applied DEF Current
<1>6. IsFile(f)
  BY <1>1, <1>4, NewFileIsFile DEF WrittenOK
<1>7. L \in Levels /\ (L # 0 => \A i \in 0 .. L : ~ OverlapInLevel(Current, i, f.smallest.k, f.largest.k))
  BY <1>1, PickedLevel
<1> HIDE DEF f, L
<1>8. ASSUME NEW i \in 0 .. L, L # 0 PROVE i \in Levels /\ \A g \in Current.files[i] : Aside(g, f)
  <2>1. i \in Levels
    BY <1>7, LSMConstants DEF Levels
  <2>2. ~ OverlapInLevel(Current, i, f.smallest.k, f.largest.k)
    BY <1>7, <1>8
  <2> QED BY <1>3, <1>6, <2>1, <2>2, AsideOfLevel
<1>9. LevelsApart(files)
  <2>1. L # 0 => \A g \in Current.files[L] : Aside(g, f)
    <3>1. L \in 0 .. L
      BY <1>7, LSMConstants DEF Levels
    <3> QED BY <1>8, <3>1
  <2> QED BY <1>2, <1>3, <1>6, <1>7, <2>1, FlushedApart
<1>10. Current'.files = files /\ \A i \in DOMAIN versions' : LevelsApart(versions'[i].files)
  <2> HIDE DEF files
  <2>1. \A i \in DOMAIN versions : LevelsApart(versions[i].files)
    BY DEF LevelInv
  <2> QED BY <1>1, <1>5, <1>9, <2>1, NewLevels DEF Current
<1>11. ASSUME c # Idle PROVE InputsHold(c, files, Uses("flush_during")) /\ OutsHold(c)
  <2>1. InputsHold(c, Current.files, Uses("flush_during")) /\ OutsHold(c)
    BY <1>11 DEF LevelInv
  <2>2. c.level \in 0 .. kNumLevels - 2
    BY <1>11 DEF Stored, WorkOK
  <2>3. c.level \in Levels /\ c.level + 1 \in Levels /\ c.level \in Nat
    BY <2>2, LSMConstants DEF Levels
  <2>4. ASSUME L = c.level + 1 PROVE Outside(f, c.in0 \cup c.in1)
    <3>1. L # 0 /\ c.level \in 0 .. L /\ c.level + 1 \in 0 .. L
      BY <2>3, <2>4
    <3>2. c.in0 \subseteq Current.files[c.level] /\ c.in1 \subseteq Current.files[c.level + 1] /\ Gapless(c.in0 \cup c.in1)
      BY <1>4, <1>11, <2>1 DEF InputsHold
    <3>3. \A g \in c.in0 \cup c.in1 : IsFile(g) /\ Aside(g, f)
      BY <1>3, <1>8, <2>3, <3>1, <3>2
    <3> QED BY <1>6, <3>2, <3>3, AsideIsOutside
  <2>5. InputsHold(c, files, Uses("flush_during"))
    <3> HIDE DEF c
    <3> QED BY <2>1, <2>3, <2>4, InputsStay
  <2> QED BY <2>1, <2>5
<1>12. Uses("flush_during")' = Uses("flush_during")
  BY <1>4 DEF Uses
<1> QED BY <1>4, <1>10, <1>11, <1>12 DEF LevelInv

LEMMA TrivialMoveLevels ==
  ASSUME BaseInv, LevelInv, NEW c, InputsOK(Current, c), c.in1 = {}, compaction = Idle, TrivialMove(c)
  PROVE  LevelInv'
<1> PICK E : WrittenOK(E, last_sequence, mem) /\ Stored(E, versions, next_file_number, compaction, pending_outputs)
  BY DEF BaseInv, KnownEntries
<1> PICK f \in c.in0 : LogAndApply(versions, {<<c.level, f.number>>}, {<<c.level + 1, f>>})
  BY DEF TrivialMove
<1> DEFINE files == Edited(Current, {<<c.level, f.number>>}, {<<c.level + 1, f>>})
<1>1. /\ next_file_number \in Nat /\ VersionsOK(versions, next_file_number, E)
      /\ AreVersions(versions) /\ current \in DOMAIN versions
  BY DEF BaseInv, Scalars, AllCounted, Counted, Stored, VersionsOK
<1>2. VersionOK(Current, next_file_number, E) /\ LevelsApart(Current.files)
  BY <1>1 DEF VersionsOK, LevelInv, Current
<1>3. versions' = Installed(versions, current, current', NewVersion(files)) /\ current' = NewId(versions)
  BY Applied DEF Current
<1>4. LevelsApart(files)
  BY <1>1, <1>2, MovedApart
<1> HIDE DEF files
<1>5. \A i \in DOMAIN versions' : LevelsApart(versions'[i].files)
  <2>1. \A i \in DOMAIN versions : LevelsApart(versions[i].files)
    BY DEF LevelInv
  <2> QED BY <1>1, <1>3, <1>4, <2>1, NewLevels
<1>6. compaction' = Idle
  BY DEF TrivialMove
<1> QED BY <1>5, <1>6 DEF LevelInv

LEMMA StartWorkLevels ==
  ASSUME BaseInv, LevelInv, NEW c, InputsOK(Current, c), compaction = Idle, StartWork(c),
         Uses("flush_during") => Gapless(c.in0 \cup c.in1)
  PROVE  LevelInv'
<1> PICK E : WrittenOK(E, last_sequence, mem) /\ Stored(E, versions, next_file_number, compaction, pending_outputs)
  BY DEF BaseInv, KnownEntries
<1> DEFINE data == Outputs(Current, Started(c))
           outs == OutputFiles(data)
<1>1. /\ next_file_number \in Nat \ {0} /\ VersionsOK(versions, next_file_number, E) /\ current \in DOMAIN versions
  BY DEF BaseInv, Scalars, AllCounted, Counted, Stored
<1>2. VersionOK(Current, next_file_number, E) /\ LevelsApart(Current.files)
  BY <1>1 DEF VersionsOK, LevelInv, Current
<1>3. InputOf(c) \subseteq E /\ InOrder(data, InputOf(c)) /\ E \subseteq Entries
  <2>1. Started(c).in0 = c.in0 /\ Started(c).in1 = c.in1
    BY DEF Started
  <2>2. E \subseteq Entries /\ Distinct(E) /\ next_file_number \in Nat
    BY <1>1 DEF WrittenOK
  <2> QED BY <1>2, <2>1, <2>2, StartedOutputs
<1>4. FilesFrom(outs, next_file_number, data)
  BY DEF OutputFiles, FilesFrom
<1>5. /\ compaction' = [level |-> c.level, in0 |-> c.in0, in1 |-> c.in1, grandparents |-> c.grandparents,
                        version |-> current, smallest_snapshot |-> SmallestSnapshot, outs |-> outs]
      /\ versions' = Ref(versions, current) /\ UNCHANGED <<mode, current>>
  BY StartWorkIs
<1> HIDE DEF data, outs
<1>6. DOMAIN outs = 1 .. Len(data) /\ OutputsFit(outs, next_file_number, data, InputOf(c))
  <2>1. InputOf(c) \subseteq Entries
    BY <1>3
  <2> QED BY ONLY <1>1, <1>3, <1>4, <2>1, OutputFilesAre
<1>7. DOMAIN versions' = DOMAIN versions /\ \A i \in DOMAIN versions : versions'[i].files = versions[i].files
  BY <1>1, <1>5, RefOK
<1>8. Current'.files = Current.files /\ \A i \in DOMAIN versions' : LevelsApart(versions'[i].files)
  BY <1>1, <1>5, <1>7 DEF Current, LevelInv
<1>9. InputsHold(c, Current.files, Uses("flush_during"))
  <2>1. next_file_number \in Nat
    BY <1>1
  <2> QED BY <1>2, <2>1, InputsStart
<1>10. /\ compaction'.level = c.level /\ compaction'.in0 = c.in0 /\ compaction'.in1 = c.in1 /\ compaction'.outs = outs
  BY <1>5
<1>11. InputsHold(compaction', Current.files, Uses("flush_during"))
  BY <1>9, <1>10 DEF InputsHold
<1>12. OutsHold(compaction')
  <2>1. InputOf(compaction') = InputOf(c)
    BY <1>10 DEF InputOf
  <2>2. DOMAIN outs \subseteq Nat /\ \A i \in DOMAIN outs : outs[i].data = data[i] /\ outs[i].data \subseteq InputOf(c)
    BY <1>6 DEF OutputsFit
  <2>3. \A i, j \in DOMAIN outs : i < j => Ahead(outs[i].data, outs[j].data)
    BY <1>3, <1>6, <2>2 DEF InOrder
  <2> QED BY <1>10, <2>1, <2>2, <2>3 DEF OutsHold
<1>13. Uses("flush_during")' = Uses("flush_during")
  BY <1>5 DEF Uses
<1> QED BY <1>8, <1>11, <1>12, <1>13 DEF LevelInv

LEMMA InstallLevels ==
  ASSUME BaseInv, LevelInv, InstallCompactionResults
  PROVE  LevelInv'
<1> PICK E : WrittenOK(E, last_sequence, mem) /\ Stored(E, versions, next_file_number, compaction, pending_outputs)
  BY DEF BaseInv, KnownEntries
<1> DEFINE c == compaction
           vs == Unref(versions, c.version)
           added == {<<c.level + 1, c.outs[i]>> : i \in DOMAIN c.outs}
           deleted == InputDeletions(c)
           files == Edited(vs[current], deleted, added)
           next == next_file_number
<1>1. c # Idle /\ LogAndApply(vs, deleted, added) /\ compaction' = Idle
  BY DEF InstallCompactionResults
<1>2. /\ VersionsOK(versions, next, E) /\ AreVersions(versions) /\ WorkOK(c, versions, next, pending_outputs, E)
      /\ Counted(versions, reader, current, VersionOf(c)) /\ next \in Nat
  BY <1>1 DEF Stored, VersionsOK, BaseInv, Scalars, AllCounted
<1>3. VersionOf(c) = c.version /\ c.version # 0 /\ c.version \in DOMAIN versions
  BY <1>1, <1>2, HeldVersion DEF WorkOK
<1>4. current \in DOMAIN vs
  <2>1. Counted(vs, reader, current, 0)
    BY <1>2, <1>3, EndCounted
  <2> QED BY <2>1 DEF Counted
<1>5. /\ VersionsOK(vs, next, E) /\ DOMAIN vs \subseteq DOMAIN versions
      /\ \A i \in DOMAIN vs : vs[i].files = versions[i].files
  BY <1>2, <1>3, UnrefOK
<1>6. versions' = Installed(vs, current, current', NewVersion(files)) /\ current' = NewId(vs)
  BY <1>1, Applied
<1> HIDE DEF vs
<1>7. AreVersions(vs) /\ vs[current].files = Current.files /\ \A i \in DOMAIN vs : LevelsApart(vs[i].files)
  BY <1>4, <1>5 DEF VersionsOK, LevelInv, Current
<1>8. InputsHold(c, vs[current].files, Uses("flush_during")) /\ OutsHold(c)
  BY <1>1, <1>7 DEF LevelInv
<1>9. c.level \in Levels /\ c.level + 1 \in Levels \ {0}
  <2>1. c.level \in 0 .. kNumLevels - 2
    BY <1>2 DEF WorkOK
  <2> QED BY <2>1, LSMConstants DEF Levels
<1>10. \A l \in Levels : \A g \in vs[current].files[l] : IsFile(g)
  BY <1>4, <1>5 DEF VersionsOK, VersionOK, FilesOK, AreFiles
<1>11. AllFiles(vs[current], c)
  BY <1>2, <1>8, <1>9, <1>10 DEF InputsHold, WorkOK, OutsOK, AllFiles
<1>12. LevelsApart(files)
  <2>1. LevelsApart(vs[current].files) /\ InputsHold(c, vs[current].files, FALSE)
    BY <1>4, <1>7, <1>8 DEF InputsHold
  <2>2. files = Edited(vs[current], InputDeletions(c), OutsAdded(c))
    BY DEF OutsAdded
  <2> HIDE DEF c, files
  <2>3. LevelsApart(Edited(vs[current], InputDeletions(c), OutsAdded(c)))
    BY <1>8, <1>9, <1>11, <2>1, OutputsApart
  <2> QED BY <2>2, <2>3
<1> HIDE DEF files
<1>13. \A i \in DOMAIN versions' : LevelsApart(versions'[i].files)
  BY <1>4, <1>6, <1>7, <1>12, NewLevels
<1> QED BY <1>1, <1>13 DEF LevelInv

LEMMA FailLevels ==
  ASSUME BaseInv, BaseInv', LevelInv, FailCompaction
  PROVE  LevelInv'
<1> PICK E : Stored(E, versions, next_file_number, compaction, pending_outputs)
  BY DEF BaseInv, KnownEntries
<1>1. /\ compaction # Idle /\ versions' = Unref(versions, compaction.version) /\ compaction' = Idle
      /\ UNCHANGED <<mode, current>>
  BY DEF FailCompaction
<1>2. VersionsOK(versions, next_file_number, E) /\ compaction.version \in DOMAIN versions
  BY <1>1 DEF Stored, WorkOK
<1>3. \A i \in DOMAIN versions' : i \in DOMAIN versions /\ versions'[i].files = versions[i].files
  BY <1>1, <1>2, UnrefOK
<1> QED BY <1>1, <1>3, LevelsStay

(* Ranges are not compacted by hand while memtables are flushed during      *)
(* compactions.                                                             *)
NoManualDuringFlushes == \A m \in Modes : ~ {"manual", "flush_during"} \subseteq m.uses

LEMMA NextLevels ==
  ASSUME NoManualDuringFlushes, BaseInv, BaseInv', LevelInv, [Next]_vars
  PROVE  LevelInv'
<1>0. ASSUME UNCHANGED <<mode, versions, current, compaction>> PROVE LevelInv'
  BY <1>0, LevelsStay
<1>1. CASE UNCHANGED vars
  BY <1>0, <1>1 DEF vars
<1>2. CASE \E k \in UserKeys, t \in {kTypeValue, kTypeDeletion} : Write(k, t)
  BY <1>0, <1>2 DEF Write
<1>3. CASE GetSnapshot
  BY <1>0, <1>3 DEF GetSnapshot
<1>4. CASE \E s \in snapshots : ReleaseSnapshot(s)
  BY <1>0, <1>4 DEF ReleaseSnapshot
<1>5. CASE \E r \in Readers : NewIterator(r) \/ DeleteIterator(r)
  BY <1>5, IteratorLevels
<1>6. CASE \/ \E k \in UserKeys, s \in snapshots \cup {last_sequence} : Get(k, s)
           \/ \E k \in UserKeys : RecordReadSample(k)
  BY <1>6, ReadLevels DEF Get, RecordReadSample
<1>7. CASE CompactMemTable
  BY <1>7, CompactMemTableLevels
<1>8. CASE AutomaticMove
  <2>1. /\ NeedsCompaction /\ compaction = Idle /\ IsTrivialMove(PickCompaction(Current))
        /\ TrivialMove(PickCompaction(Current))
    BY <1>8 DEF AutomaticMove, Free
  <2>2. PickCompaction(Current).in1 = {}
    BY <2>1 DEF IsTrivialMove
  <2> QED BY <2>1, <2>2, PickedInputs, TrivialMoveLevels
<1>9. CASE AutomaticCompaction
  <2>1. NeedsCompaction /\ compaction = Idle /\ StartWork(PickCompaction(Current))
    BY <1>9 DEF AutomaticCompaction, Free
  <2> QED BY <2>1, PickedInputs, StartWorkLevels
<1>10. CASE \E level \in 0 .. kNumLevels - 2, lo, hi \in UserKeys : ManualCompaction(level, lo, hi)
  <2>1. PICK level \in 0 .. kNumLevels - 2, lo \in UserKeys, hi \in UserKeys : ManualCompaction(level, lo, hi)
    BY <1>10
  <2>2. /\ compaction = Idle /\ GetOverlappingInputs(Current, level, lo, hi) # {} /\ Uses("manual")
        /\ StartWork(CompactRange(Current, level, lo, hi))
    BY <2>1 DEF ManualCompaction, Free
  <2>3. ~ Uses("flush_during")
    BY <2>2 DEF NoManualDuringFlushes, Uses, BaseInv, Scalars
  <2> QED BY <2>2, <2>3, ManualInputs, StartWorkLevels
<1>11. CASE InstallCompactionResults
  BY <1>11, InstallLevels
<1>12. CASE FailCompaction
  BY <1>12, FailLevels
<1> QED BY <1>1, <1>2, <1>3, <1>4, <1>5, <1>6, <1>7, <1>8, <1>9, <1>10, <1>11, <1>12 DEF Next

LEMMA LevelHolds ==
  ASSUME NoManualDuringFlushes
  PROVE  Spec => []LevelInv
<1>1. Init => LevelInv
  <2> SUFFICES ASSUME Init PROVE LevelInv
    OBVIOUS
  <2>1. compaction = Idle /\ DOMAIN versions = {1} /\ versions[1] = EmptyVersion
    BY DEF Init
  <2>2. LevelsApart(EmptyVersion.files)
    <3>1. EmptyVersion.files = [l \in Levels |-> {}]
      BY DEF EmptyVersion
    <3> QED BY <3>1 DEF LevelsApart
  <2> QED BY <2>1, <2>2 DEF LevelInv
<1>2. BaseInv /\ BaseInv' /\ LevelInv /\ [Next]_vars => LevelInv'
  BY NextLevels
<1> QED BY <1>1, <1>2, BaseHolds, PTL DEF Spec

(* However flushes, moves and compactions interleave, in every version in    *)
(* use the files of a level above 0 are disjoint, so that the binary         *)
(* searches of FindFile see all of them: unless a range is compacted by hand *)
(* while a memtable is flushed into a gap between its inputs.                *)
THEOREM LevelsAreDisjoint ==
  ASSUME NoManualDuringFlushes
  PROVE  Spec => []LevelsDisjoint
<1>1. LevelInv => LevelsDisjoint
  BY DEF LevelInv, LevelsApart, ApartFiles, LevelsDisjoint
<1> QED BY <1>1, LevelHolds, PTL

-----------------------------------------------------------------------------
(* Reads.  The same user key may be in several files: of two of them the    *)
(* one that is read first has the newer entries.                            *)
NewerThan(A, B) == \A a \in A, b \in B : a.k = b.k => a.s > b.s
KeysApart(A, B) == \A a \in A, b \in B : a.k # b.k
Layered(files) ==
    /\ \A l, m \in Levels : l < m => \A f \in files[l], g \in files[m] : NewerThan(f.data, g.data)
    /\ \A f, g \in files[0] : f.number > g.number => NewerThan(f.data, g.data)
    /\ \A l \in Levels \ {0} : \A f, g \in files[l] : f = g \/ KeysApart(f.data, g.data)
EntriesIn(files) == UNION {f.data : f \in UNION {files[l] : l \in Levels}}

(* While a compaction runs: what is beside its inputs in their level is     *)
(* newer, and in the next level of other keys.                              *)
BesideInputs(c, files) ==
    /\ \A f \in files[c.level] \ c.in0, g \in c.in0 : NewerThan(f.data, g.data)
    /\ \A h \in files[c.level + 1] \ c.in1, g \in c.in0 : KeysApart(h.data, g.data)

(* An input that a read at s may ask for is kept, or it is a deletion that  *)
(* hides nothing any more.                                                  *)
OutOf(c) == UNION {c.outs[i].data : i \in DOMAIN c.outs}
NotBelow(files, level, k) ==
    \A l \in Levels : l > level + 1 => \A f \in files[l] : \A a \in f.data : a.k # k
Hides(e, out) == e.t = kTypeDeletion /\ \A o \in out : o.k = e.k => o.s > e.s
KeepsNewest(c, files) ==
    \A s \in 0 .. MaxWrites, e \in InputOf(c) :
        c.smallest_snapshot <= s /\ IsNewest(e, InputOf(c), s)
            => e \in OutOf(c) \/ (Hides(e, OutOf(c)) /\ NotBelow(files, c.level, e.k))

ReadPoints == snapshots \cup {last_sequence}
HistoryOK == history \subseteq Entries /\ Distinct(history) /\ \A e \in history : e.s <= last_sequence
PointsOK ==
    /\ snapshots \subseteq 0 .. last_sequence
    /\ compaction # Idle => compaction.smallest_snapshot \in Nat /\ \A s \in ReadPoints : compaction.smallest_snapshot <= s
Agree(es, k, s) == ValueIn(MemGet(es, k, s)) = ValueIn(MemGet(history, k, s))
ReadInv ==
    /\ HistoryOK /\ PointsOK
    /\ Layered(Current.files) /\ NewerThan(mem, EntriesIn(Current.files))
    /\ \A k \in UserKeys, s \in ReadPoints : Agree(mem \cup EntriesIn(Current.files), k, s)
    /\ compaction # Idle => BesideInputs(compaction, Current.files) /\ KeepsNewest(compaction, Current.files)

(* No user key is in two outputs of a compaction. *)
KeysTogether ==
    compaction # Idle =>
        \A i, j \in DOMAIN compaction.outs : i # j => KeysApart(compaction.outs[i].data, compaction.outs[j].data)

(* What a search for a key finds: the newest entry of it, if there is one. *)
Has(es, k, s) == \E e \in es : e.k = k /\ e.s <= s

LEMMA MemGetIs ==
  ASSUME NEW es, WellKept(es), NEW k, NEW s
  PROVE  /\ ~ Has(es, k, s) => MemGet(es, k, s) = NoEntry
         /\ Has(es, k, s) => /\ MemGet(es, k, s).k = k /\ IsNewest(MemGet(es, k, s), es, s)
                             /\ MemGet(es, k, s) # NoEntry
<1> DEFINE mine == {e \in es : e.k = k /\ e.s <= s}
           numbers == {e.s : e \in mine}
           e == CHOOSE e \in mine : \A o \in mine : o.s <= e.s
<1>1. ~ Has(es, k, s) <=> mine = {}
  BY DEF Has
<1>2. MemGet(es, k, s) = IF mine = {} THEN NoEntry ELSE e
  BY DEF MemGet
<1>3. ASSUME mine # {} PROVE e \in mine /\ \A o \in mine : o.s <= e.s
  <2>1. mine \subseteq Entries
    BY DEF WellKept
  <2>2. numbers \subseteq 0 .. MaxWrites /\ numbers # {} /\ numbers \subseteq Nat
    BY <1>3, <2>1, EntryNumbers
  <2>3. Bounded(numbers)
    BY <2>2, KeysAreNatural DEF Bounded
  <2>4. PICK n \in numbers : \A m \in numbers : n >= m
    <3> HIDE DEF numbers
    <3> QED BY <2>2, <2>3, GreatestNatural
  <2>5. PICK x \in mine : x.s = n
    BY <2>4
  <2>6. \A o \in mine : o.s \in numbers /\ o.s \in Nat /\ n \in Nat
    BY <2>2, <2>4
  <2>7. \A o \in mine : o.s <= x.s
    BY <2>4, <2>5, <2>6
  <2> QED BY <2>7
<1> HIDE DEF e
<1>4. ASSUME mine # {} PROVE e.k = k /\ IsNewest(e, es, s) /\ e # NoEntry
  <2>1. e \in es /\ e.k = k /\ e.s <= s
    BY <1>3, <1>4
  <2>2. e.k # 0
    BY <2>1, EntryNumbers DEF WellKept
  <2>3. \A o \in es : o.k = e.k /\ o.s <= s => o.s <= e.s
    BY <1>3, <1>4, <2>1
  <2> QED BY <2>1, <2>2, <2>3 DEF IsNewest, NoEntry
<1> QED BY <1>1, <1>2, <1>4

LEMMA NewestIsOne ==
  ASSUME NEW es, WellKept(es), NEW s, NEW a, NEW b, IsNewest(a, es, s), IsNewest(b, es, s), a.k = b.k
  PROVE  a = b
<1>1. a \in es /\ b \in es /\ a.s <= b.s /\ b.s <= a.s
  BY DEF IsNewest
<1>2. a.s \in Nat /\ b.s \in Nat
  BY <1>1, EntryNumbers DEF WellKept
<1>3. a.s = b.s
  BY <1>1, <1>2
<1> QED BY <1>1, <1>3 DEF WellKept, Distinct

LEMMA MemGetWhich ==
  ASSUME NEW es, WellKept(es), NEW s, NEW e, IsNewest(e, es, s)
  PROVE  MemGet(es, e.k, s) = e
<1>1. Has(es, e.k, s)
  BY DEF Has, IsNewest
<1>2. MemGet(es, e.k, s).k = e.k /\ IsNewest(MemGet(es, e.k, s), es, s)
  BY <1>1, MemGetIs
<1> HIDE DEF MemGet
<1> QED BY <1>2, NewestIsOne

(* Sets with the same entries up to s, or with the same newest ones. *)
LEMMA SameSearch ==
  ASSUME NEW es, WellKept(es), NEW fs, WellKept(fs), NEW k, NEW s,
         \A e \in es : e.k = k /\ e.s <= s => e \in fs,
         Has(fs, k, s) => MemGet(fs, k, s) \in es
  PROVE  MemGet(es, k, s) = MemGet(fs, k, s)
<1>1. CASE ~ Has(fs, k, s)
  <2>1. ~ Has(es, k, s)
    BY <1>1 DEF Has
  <2> QED BY <1>1, <2>1, MemGetIs
<1>2. CASE Has(fs, k, s)
  <2> DEFINE e == MemGet(fs, k, s)
  <2>1. e.k = k /\ IsNewest(e, fs, s) /\ e \in es
    BY <1>2, MemGetIs
  <2> HIDE DEF e
  <2>2. IsNewest(e, es, s)
    BY <2>1 DEF IsNewest
  <2>3. MemGet(es, e.k, s) = e
    BY <2>2, MemGetWhich
  <2> QED BY <2>1, <2>3 DEF e
<1> QED BY <1>1, <1>2

LEMMA FileHolds ==
  ASSUME NEW f, IsFile(f), NEW a \in f.data
  PROVE  /\ a \in Entries /\ a.k \in Nat \ {0} /\ a.s \in Nat
         /\ f.smallest.k \in Nat /\ f.largest.k \in Nat /\ f.smallest.k <= a.k /\ a.k <= f.largest.k
<1>1. a \in Entries /\ f.smallest \in Entries /\ f.largest \in Entries
  BY DEF IsFile
<1>2. ~ Before(a, f.smallest) /\ ~ Before(f.largest, a)
  BY DEF IsFile
<1>3. f.smallest.k <= a.k /\ a.k <= f.largest.k
  BY <1>1, <1>2, BeforeOrder
<1> QED BY <1>1, <1>3, EntryNumbers

LEMMA AsideKeys ==
  ASSUME NEW g, IsFile(g), NEW f, IsFile(f), Aside(g, f)
  PROVE  KeysApart(g.data, f.data) /\ KeysApart(f.data, g.data)
<1> SUFFICES ASSUME NEW a \in g.data, NEW b \in f.data PROVE a.k # b.k
  BY DEF KeysApart
<1>1. g.smallest.k \in Nat /\ g.largest.k \in Nat /\ g.smallest.k <= a.k /\ a.k <= g.largest.k /\ a.k \in Nat
  BY FileHolds
<1>2. f.smallest.k \in Nat /\ f.largest.k \in Nat /\ f.smallest.k <= b.k /\ b.k <= f.largest.k /\ b.k \in Nat
  BY FileHolds
<1> QED BY <1>1, <1>2 DEF Aside

LEMMA ApartIsNewer ==
  ASSUME NEW A, NEW B, KeysApart(A, B)
  PROVE  NewerThan(A, B) /\ KeysApart(B, A) /\ NewerThan(B, A)
  BY DEF KeysApart, NewerThan

(* IsBaseLevelForKey: no file of a deeper level has the key. *)
LEMMA BaseLevelHasNone ==
  ASSUME NEW v, NEW next \in Nat, FilesOK(v.files, next), NEW c, c.level \in 0 .. kNumLevels - 2, NEW k \in Nat,
         IsBaseLevelForKey(v, c, k)
  PROVE  NotBelow(v.files, c.level, k)
<1> SUFFICES ASSUME NEW l \in Levels, l > c.level + 1, NEW f \in v.files[l], NEW a \in f.data, a.k = k PROVE FALSE
  BY DEF NotBelow
<1>1. l \in c.level + 2 .. kNumLevels - 1
  BY LSMConstants DEF Levels
<1>2. AreFiles(v.files[l]) /\ IsFile(f)
  BY LevelOK
<1> DEFINE far == {g \in v.files[l] : k <= g.largest.k}
<1>3. f.smallest.k \in Nat /\ f.smallest.k <= k /\ k <= f.largest.k
  BY <1>2, FileHolds
<1>4. f \in far /\ AreFiles(far)
  BY <1>2, <1>3 DEF AreFiles
<1>5. far = {} \/ k < First(far).smallest.k
  BY <1>1 DEF IsBaseLevelForKey
<1> HIDE DEF far
<1>6. First(far) \in far /\ ~ Before(f.smallest, First(far).smallest)
  BY <1>4, FirstFileExists
<1>7. f.smallest \in Entries /\ First(far).smallest \in Entries
  BY <1>2, <1>4, <1>6, FileRange DEF AreFiles
<1>8. First(far).smallest.k <= f.smallest.k /\ First(far).smallest.k \in Nat
  BY <1>6, <1>7, BeforeOrder, EntryNumbers
<1> QED BY <1>3, <1>4, <1>5, <1>8

LEMMA OutputsKeepNewest ==
  ASSUME NEW v, NEW next \in Nat, FilesOK(v.files, next), NEW d, NEW c, c.level \in 0 .. kNumLevels - 2,
         d.level = c.level, d.smallest_snapshot = c.smallest_snapshot, c.smallest_snapshot \in Nat,
         WellKept(InputOf(c)), KeptRight(v, d, InputOf(c), InputOf(c), OutOf(c))
  PROVE  KeepsNewest(c, v.files)
<1> DEFINE input == InputOf(c)
           out == OutOf(c)
           ss == c.smallest_snapshot
<1>1. /\ out \subseteq input
      /\ \A o \in out, p \in input : p.k = o.k /\ p.s > o.s => p.s > ss
      /\ \A s \in 0 .. MaxWrites, p \in input : ss <= s /\ IsNewest(p, input, s) => p \in out \/ Dropped(v, d, p)
  BY DEF KeptRight
<1> SUFFICES ASSUME NEW s \in 0 .. MaxWrites, NEW e \in input, ss <= s, IsNewest(e, input, s), e \notin out
             PROVE  Hides(e, out) /\ NotBelow(v.files, c.level, e.k)
  BY DEF KeepsNewest
<1> HIDE DEF input, out
<1>2. e.t = kTypeDeletion /\ e.s <= ss /\ IsBaseLevelForKey(v, d, e.k)
  BY <1>1 DEF Dropped
<1>3. \A a \in input : a.s \in Nat /\ a.k \in Nat
  BY EntryNumbers DEF WellKept, input
<1>4. ASSUME NEW o \in out, o.k = e.k PROVE o.s > e.s
  <2>1. o \in input /\ o.s \in Nat /\ e.s \in Nat
    BY <1>1, <1>3
  <2>2. o.s # e.s
    BY <1>4, <2>1 DEF WellKept, Distinct, input
  <2>3. e.s > o.s => e.s > ss
    BY <1>1, <1>4
  <2> QED BY <1>2, <2>1, <2>2, <2>3
<1>5. NotBelow(v.files, d.level, e.k)
  BY <1>2, <1>3, BaseLevelHasNone
<1> QED BY <1>2, <1>4, <1>5 DEF Hides

LEMMA EntriesInIs ==
  ASSUME NEW files, NEW e
  PROVE  e \in EntriesIn(files) <=> \E l \in Levels : \E f \in files[l] : e \in f.data
  BY DEF EntriesIn

LEMMA FlushedIs ==
  ASSUME NEW v, NEW L, NEW f, NEW l \in Levels, NEW g
  PROVE  g \in Edited(v, {}, {<<L, f>>})[l] <=> g \in v.files[l] \/ (l = L /\ g = f)
<1> DEFINE x == <<L, f>>
<1>1. g \in Edited(v, {}, {x})[l] <=> (g \in v.files[l] /\ <<l, g.number>> \notin {}) \/ \E a \in {x} : a[1] = l /\ a[2] = g
  <2> PICK none, one : none = {} /\ one = {x}
    OBVIOUS
  <2>1. g \in Edited(v, none, one)[l] <=> (g \in v.files[l] /\ <<l, g.number>> \notin none) \/ \E a \in one : a[1] = l /\ a[2] = g
    BY ONLY l \in Levels, EditedIs
  <2> HIDE DEF x
  <2> QED BY <2>1
<1>2. x[1] = L /\ x[2] = f
  OBVIOUS
<1> HIDE DEF x
<1>3. (\E a \in {x} : a[1] = l /\ a[2] = g) <=> l = L /\ g = f
  BY <1>2
<1>4. <<l, g.number>> \notin {}
  OBVIOUS
<1> QED BY <1>1, <1>3, <1>4 DEF x

(* A flushed memtable is newer than all files, and goes below level 0 only  *)
(* past files of other keys.                                                *)
Under(v, L, f) == L # 0 => \A i \in 0 .. L : \A g \in v.files[i] : KeysApart(g.data, f.data)
LEMMA FlushedLayers ==
  ASSUME NEW v, Layered(v.files), NEW L \in Levels, NEW f, f.number \in Nat,
         \A g \in v.files[0] : g.number \in Nat /\ g.number < f.number,
         NewerThan(f.data, EntriesIn(v.files)), Under(v, L, f)
  PROVE  /\ Layered(Edited(v, {}, {<<L, f>>}))
         /\ EntriesIn(Edited(v, {}, {<<L, f>>})) = EntriesIn(v.files) \cup f.data
<1> DEFINE new == Edited(v, {}, {<<L, f>>})
<1>1. ASSUME NEW l \in Levels, NEW g PROVE g \in new[l] <=> g \in v.files[l] \/ (l = L /\ g = f)
  BY FlushedIs
<1> HIDE DEF new
<1>0. Levels \subseteq Nat
  BY LSMConstants DEF Levels
<1>2. ASSUME NEW l \in Levels, NEW g \in v.files[l] PROVE NewerThan(f.data, g.data)
  BY EntriesInIs DEF NewerThan
<1>3. ASSUME NEW l \in Levels, l < L, NEW g \in v.files[l] PROVE KeysApart(g.data, f.data)
  <2>1. L # 0 /\ l \in 0 .. L
    BY <1>0, <1>3
  <2> QED BY <1>3, <2>1 DEF Under
<1>4. ASSUME NEW l \in Levels, NEW m \in Levels, l < m, NEW g \in new[l], NEW h \in new[m]
      PROVE  NewerThan(g.data, h.data)
  <2>1. CASE g \in v.files[l] /\ h \in v.files[m]
    BY <1>4, <2>1 DEF Layered
  <2>2. CASE l = L /\ g = f /\ h \in v.files[m]
    BY <1>2, <2>2
  <2>3. CASE g \in v.files[l] /\ m = L /\ h = f
    BY <1>3, <1>4, <2>3, ApartIsNewer
  <2>4. ~ (l = L /\ m = L)
    BY <1>0, <1>4
  <2> QED BY <1>1, <2>1, <2>2, <2>3, <2>4
<1>5. ASSUME NEW g \in new[0], NEW h \in new[0], g.number > h.number PROVE NewerThan(g.data, h.data)
  <2>0. 0 \in Levels
    BY LSMConstants DEF Levels
  <2>1. CASE g \in v.files[0] /\ h \in v.files[0]
    BY <1>5, <2>1 DEF Layered
  <2>2. CASE g = f /\ h \in v.files[0]
    BY <1>2, <2>0, <2>2
  <2>3. ~ (h = f)
    <3>1. g \in v.files[0] \/ g = f
      BY <1>1, <2>0
    <3> QED BY <1>5, <3>1
  <2> QED BY <1>1, <2>0, <2>1, <2>2, <2>3
<1>6. ASSUME NEW l \in Levels \ {0}, NEW g \in new[l], NEW h \in new[l] PROVE g = h \/ KeysApart(g.data, h.data)
  <2>1. CASE g \in v.files[l] /\ h \in v.files[l]
    BY <2>1 DEF Layered
  <2>2. ASSUME l = L, NEW x \in v.files[l] PROVE KeysApart(x.data, f.data) /\ KeysApart(f.data, x.data)
    <3>1. L # 0 /\ L \in 0 .. L
      BY <1>0, <2>2
    <3>2. KeysApart(x.data, f.data)
      BY <2>2, <3>1 DEF Under
    <3> QED BY <3>2, ApartIsNewer
  <2> QED BY <1>1, <2>1, <2>2
<1>7. Layered(new)
  BY <1>4, <1>5, <1>6 DEF Layered
<1>8. ASSUME NEW e PROVE e \in EntriesIn(new) <=> e \in EntriesIn(v.files) \/ e \in f.data
  BY <1>1, EntriesInIs
<1> QED BY <1>7, <1>8 DEF new

(* The running compaction is not disturbed by it. *)
LEMMA FlushedBeside ==
  ASSUME NEW v, NEW c, c.level \in Levels, c.level + 1 \in Levels, BesideInputs(c, v.files), KeepsNewest(c, v.files),
         c.in0 \subseteq v.files[c.level], c.in1 \subseteq v.files[c.level + 1],
         NEW L \in Levels, NEW f, NewerThan(f.data, EntriesIn(v.files)), Under(v, L, f)
  PROVE  BesideInputs(c, Edited(v, {}, {<<L, f>>})) /\ KeepsNewest(c, Edited(v, {}, {<<L, f>>}))
<1> DEFINE new == Edited(v, {}, {<<L, f>>})
<1>1. ASSUME NEW l \in Levels, NEW g PROVE g \in new[l] <=> g \in v.files[l] \/ (l = L /\ g = f)
  BY FlushedIs
<1> HIDE DEF new
<1>0. Levels \subseteq Nat
  BY LSMConstants DEF Levels
<1>2. ASSUME NEW g \in c.in0 \cup c.in1 PROVE NewerThan(f.data, g.data)
  BY EntriesInIs DEF NewerThan
<1>i. c.level \in Nat /\ L \in Nat
  BY <1>0
<1>3. ASSUME L > c.level, NEW g \in c.in0 PROVE KeysApart(g.data, f.data)
  <2>1. L # 0 /\ c.level \in 0 .. L
    BY <1>i, <1>3
  <2> QED BY <2>1 DEF Under
<1>4. ASSUME L > c.level + 1, NEW g \in c.in1 PROVE KeysApart(g.data, f.data)
  <2>1. L # 0 /\ c.level + 1 \in 0 .. L
    BY <1>i, <1>4
  <2> QED BY <2>1 DEF Under
<1>5. ASSUME NEW g \in new[c.level] \ c.in0, NEW h \in c.in0 PROVE NewerThan(g.data, h.data)
  BY <1>1, <1>2 DEF BesideInputs
<1>6. ASSUME NEW g \in new[c.level + 1] \ c.in1, NEW h \in c.in0 PROVE KeysApart(g.data, h.data)
  <2>1. CASE g \in v.files[c.level + 1]
    BY <2>1 DEF BesideInputs
  <2>2. CASE L = c.level + 1 /\ g = f
    <3>1. L > c.level
      BY <1>0, <2>2
    <3> QED BY <1>3, <2>2, <3>1, ApartIsNewer
  <2> QED BY <1>1, <2>1, <2>2
<1>7. ASSUME NEW e \in InputOf(c), NotBelow(v.files, c.level, e.k) PROVE NotBelow(new, c.level, e.k)
  <2> SUFFICES ASSUME NEW l \in Levels, l > c.level + 1, NEW g \in new[l], NEW a \in g.data PROVE a.k # e.k
    BY DEF NotBelow
  <2>1. CASE g \in v.files[l]
    BY <1>7, <2>1 DEF NotBelow
  <2>2. CASE l = L /\ g = f
    <3>1. L > c.level + 1 /\ L > c.level
      BY <1>0, <2>2
    <3>2. PICK x \in c.in0 \cup c.in1 : e \in x.data
      BY DEF InputOf
    <3>3. KeysApart(x.data, f.data)
      BY <1>3, <1>4, <3>1, <3>2
    <3> QED BY <2>2, <3>2, <3>3 DEF KeysApart
  <2> QED BY <1>1, <2>1, <2>2
<1>8. BesideInputs(c, new)
  BY <1>5, <1>6 DEF BesideInputs
<1>9. KeepsNewest(c, new)
  BY <1>7 DEF KeepsNewest
<1> QED BY <1>8, <1>9 DEF new

(* The inputs of a compaction are replaced: news are the files added.  What *)
(* stays is no input.                                                       *)
Stays(v, c, l, g) ==
    g \in v.files[l] /\ (l = c.level => g \notin c.in0) /\ (l = c.level + 1 => g \notin c.in1)
Replaced(v, c, files, news) ==
    /\ \A l \in Levels : \A g \in files[l] : Stays(v, c, l, g) \/ (l = c.level + 1 /\ g \in news)
    /\ \A l \in Levels : \A g \in v.files[l] : Stays(v, c, l, g) => g \in files[l]
    /\ news \subseteq files[c.level + 1]
InputsIn(v, c) ==
    /\ c.level \in Levels /\ c.level + 1 \in Levels
    /\ c.in0 \subseteq v.files[c.level] /\ c.in1 \subseteq v.files[c.level + 1]

LEMMA ReplacedLayers ==
  ASSUME NEW v, NEW c, InputsIn(v, c), Layered(v.files), BesideInputs(c, v.files),
         NEW files, NEW news, Replaced(v, c, files, news),
         \A o \in news : o.data \subseteq InputOf(c),
         \A o, p \in news : o = p \/ KeysApart(o.data, p.data)
  PROVE  Layered(files)
<1>0. Levels \subseteq Nat /\ 0 \in Levels
  BY LSMConstants DEF Levels
<1>1. c.level \in Nat /\ c.level \in Levels /\ c.level + 1 \in Levels
  BY <1>0 DEF InputsIn
<1>2. ASSUME NEW l \in Levels, NEW g \in files[l] PROVE Stays(v, c, l, g) \/ (l = c.level + 1 /\ g \in news)
  BY DEF Replaced
<1>3. ASSUME NEW l \in Levels, l < c.level + 1, NEW g, Stays(v, c, l, g), NEW o \in news PROVE NewerThan(g.data, o.data)
  <2> SUFFICES ASSUME NEW a \in g.data, NEW b \in o.data, a.k = b.k PROVE a.s > b.s
    BY DEF NewerThan
  <2>1. PICK h \in c.in0 \cup c.in1 : b \in h.data
    BY DEF InputOf
  <2>2. g \in v.files[l] /\ (l = c.level => g \notin c.in0)
    BY <1>3 DEF Stays
  <2>3. NewerThan(g.data, h.data)
    <3>1. CASE h \in c.in1
      <4>1. h \in v.files[c.level + 1]
        BY <3>1 DEF InputsIn
      <4> QED BY <1>1, <1>3, <2>2, <4>1 DEF Layered
    <3>2. CASE h \in c.in0 /\ l = c.level
      BY <2>2, <3>2 DEF BesideInputs
    <3>3. CASE h \in c.in0 /\ l # c.level
      <4>1. h \in v.files[c.level]
        BY <3>3 DEF InputsIn
      <4>2. l < c.level
        BY <1>0, <1>1, <1>3, <3>3
      <4> QED BY <1>1, <2>2, <4>1, <4>2 DEF Layered
    <3> QED BY <2>1, <3>1, <3>2, <3>3
  <2> QED BY <2>1, <2>3 DEF NewerThan
<1>4. ASSUME NEW l \in Levels, c.level + 1 < l, NEW g \in v.files[l], NEW o \in news PROVE NewerThan(o.data, g.data)
  <2> SUFFICES ASSUME NEW b \in o.data, NEW a \in g.data, b.k = a.k PROVE b.s > a.s
    BY DEF NewerThan
  <2>1. PICK h \in c.in0 \cup c.in1 : b \in h.data
    BY DEF InputOf
  <2>2. NewerThan(h.data, g.data)
    <3>1. c.level < l
      BY <1>0, <1>1, <1>4
    <3>2. h \in v.files[c.level] \/ h \in v.files[c.level + 1]
      BY DEF InputsIn
    <3> QED BY <1>1, <1>4, <3>1, <3>2 DEF Layered
  <2> QED BY <2>1, <2>2 DEF NewerThan
<1>5. ASSUME NEW g, Stays(v, c, c.level + 1, g), NEW o \in news
      PROVE  KeysApart(g.data, o.data) /\ KeysApart(o.data, g.data)
  <2> SUFFICES ASSUME NEW a \in g.data, NEW b \in o.data PROVE a.k # b.k
    BY DEF KeysApart
  <2>1. PICK h \in c.in0 \cup c.in1 : b \in h.data
    BY DEF InputOf
  <2>2. g \in v.files[c.level + 1] /\ g \notin c.in1
    BY <1>5 DEF Stays
  <2>3. KeysApart(g.data, h.data)
    <3>1. CASE h \in c.in0
      BY <2>2, <3>1 DEF BesideInputs
    <3>2. CASE h \in c.in1
      <4>1. h \in v.files[c.level + 1] /\ h # g /\ c.level + 1 \in Levels \ {0}
        BY <1>1, <2>2, <3>2 DEF InputsIn
      <4> QED BY <2>2, <4>1 DEF Layered
    <3> QED BY <2>1, <3>1, <3>2
  <2> QED BY <2>1, <2>3 DEF KeysApart
<1>6. ASSUME NEW l \in Levels, NEW m \in Levels, l < m, NEW g \in files[l], NEW h \in files[m]
      PROVE  NewerThan(g.data, h.data)
  <2>0. l \in Nat /\ m \in Nat
    BY <1>0
  <2>1. CASE Stays(v, c, l, g) /\ Stays(v, c, m, h)
    BY <1>6, <2>1 DEF Stays, Layered
  <2>2. CASE Stays(v, c, l, g) /\ m = c.level + 1 /\ h \in news
    BY <1>3, <1>6, <2>2
  <2>3. CASE l = c.level + 1 /\ g \in news /\ Stays(v, c, m, h)
    BY <1>4, <1>6, <2>3 DEF Stays
  <2>4. CASE l = c.level + 1 /\ m = c.level + 1
    BY <1>6, <2>0, <2>4
  <2> QED BY <1>2, <2>1, <2>2, <2>3, <2>4
<1>7. ASSUME NEW g \in files[0], NEW h \in files[0], g.number > h.number PROVE NewerThan(g.data, h.data)
  <2>1. 0 # c.level + 1
    BY <1>1
  <2>2. g \in v.files[0] /\ h \in v.files[0]
    BY <1>0, <1>2, <2>1 DEF Stays
  <2> QED BY <1>7, <2>2 DEF Layered
<1>8. ASSUME NEW l \in Levels \ {0}, NEW g \in files[l], NEW h \in files[l] PROVE g = h \/ KeysApart(g.data, h.data)
  <2>1. CASE Stays(v, c, l, g) /\ Stays(v, c, l, h)
    BY <2>1 DEF Stays, Layered
  <2>2. CASE Stays(v, c, l, g) /\ l = c.level + 1 /\ h \in news
    BY <1>5, <2>2
  <2>3. CASE l = c.level + 1 /\ g \in news /\ Stays(v, c, l, h)
    BY <1>5, <2>3
  <2>4. CASE g \in news /\ h \in news
    BY <2>4
  <2> QED BY <1>2, <2>1, <2>2, <2>3, <2>4
<1> QED BY <1>6, <1>7, <1>8 DEF Layered

(* Searches find the same before and after. *)
AllData(fs) == UNION {f.data : f \in fs}
ReadAfter(c, s) == s \in 0 .. MaxWrites /\ c.smallest_snapshot <= s
AllKnown(m, v) == NewerThan(m, EntriesIn(v.files)) /\ WellKept(m \cup EntriesIn(v.files))
SameFound(m, files, gs, k, s) == ValueIn(MemGet(m \cup EntriesIn(files), k, s)) = ValueIn(MemGet(m \cup EntriesIn(gs), k, s))
LEMMA ReplacedSearch ==
  ASSUME NEW v, NEW c, InputsIn(v, c), Layered(v.files), BesideInputs(c, v.files), KeepsNewest(c, v.files),
         NEW m, AllKnown(m, v),
         NEW files, NEW news, Replaced(v, c, files, news),
         OutOf(c) = AllData(news), OutOf(c) \subseteq InputOf(c),
         NEW k, NEW s, ReadAfter(c, s)
  PROVE  SameFound(m, files, v.files, k, s)
<1>n. NewerThan(m, EntriesIn(v.files)) /\ WellKept(m \cup EntriesIn(v.files)) /\ s \in 0 .. MaxWrites /\ c.smallest_snapshot <= s
  BY DEF AllKnown, ReadAfter
<1> SUFFICES ValueIn(MemGet(m \cup EntriesIn(files), k, s)) = ValueIn(MemGet(m \cup EntriesIn(v.files), k, s))
  BY DEF SameFound
<1> DEFINE es == m \cup EntriesIn(v.files)
           fs == m \cup EntriesIn(files)
<1>0. Levels \subseteq Nat /\ c.level \in Nat /\ c.level \in Levels /\ c.level + 1 \in Levels
  BY LSMConstants DEF Levels, InputsIn
<1>1. InputOf(c) \subseteq EntriesIn(v.files)
  <2> SUFFICES ASSUME NEW f \in c.in0 \cup c.in1, NEW e \in f.data PROVE e \in EntriesIn(v.files)
    BY DEF InputOf
  <2>1. f \in v.files[c.level] \/ f \in v.files[c.level + 1]
    BY DEF InputsIn
  <2> QED BY <1>0, <2>1, EntriesInIs
<1>2. ASSUME NEW e PROVE e \in EntriesIn(files) <=> e \in OutOf(c) \/ \E l \in Levels : \E g \in v.files[l] : Stays(v, c, l, g) /\ e \in g.data
  <2>1. ASSUME e \in EntriesIn(files) PROVE e \in OutOf(c) \/ \E l \in Levels : \E g \in v.files[l] : Stays(v, c, l, g) /\ e \in g.data
    <3>1. PICK l \in Levels : \E g \in files[l] : e \in g.data
      BY <2>1, EntriesInIs
    <3>2. PICK g \in files[l] : e \in g.data
      BY <3>1
    <3>3. Stays(v, c, l, g) \/ g \in news
      BY DEF Replaced
    <3>4. Stays(v, c, l, g) => g \in v.files[l]
      BY DEF Stays
    <3> QED BY <3>2, <3>3, <3>4 DEF AllData
  <2>2. ASSUME e \in OutOf(c) PROVE e \in EntriesIn(files)
    <3>1. PICK g \in news : e \in g.data
      BY <2>2 DEF AllData
    <3>2. g \in files[c.level + 1]
      BY DEF Replaced
    <3> QED BY <1>0, <3>1, <3>2, EntriesInIs
  <2>3. ASSUME NEW l \in Levels, NEW g \in v.files[l], Stays(v, c, l, g), e \in g.data PROVE e \in EntriesIn(files)
    <3>1. g \in files[l]
      BY <2>3 DEF Replaced
    <3> QED BY <2>3, <3>1, EntriesInIs
  <2> QED BY <2>1, <2>2, <2>3
<1>3. EntriesIn(files) \subseteq EntriesIn(v.files)
  BY <1>1, <1>2, EntriesInIs
<1>4. WellKept(es) /\ WellKept(fs) /\ fs \subseteq es
  BY <1>n, <1>3 DEF WellKept, Distinct
<1>5. \A e \in es : e.s \in Nat
  BY <1>4, EntryNumbers DEF WellKept
<1> HIDE DEF es, fs
<1>6. CASE ~ Has(es, k, s)
  <2>1. ~ Has(fs, k, s)
    BY <1>4, <1>6 DEF Has
  <2>2. MemGet(es, k, s) = NoEntry /\ MemGet(fs, k, s) = NoEntry
    BY <1>4, <1>6, <2>1, MemGetIs
  <2> QED BY <2>2 DEF es, fs
<1>7. CASE Has(es, k, s)
  <2> DEFINE p == MemGet(es, k, s)
  <2>1. p.k = k /\ IsNewest(p, es, s)
    BY <1>4, <1>7, MemGetIs
  <2> HIDE DEF p
  <2>2. p \in es /\ p.s <= s /\ \A o \in es : o.k = k /\ o.s <= s => o.s <= p.s
    BY <2>1 DEF IsNewest
  <2>3. CASE p \in fs
    <3>1. MemGet(fs, k, s) = p
      <4>1. IsNewest(p, fs, s)
        BY <1>4, <2>1, <2>3 DEF IsNewest
      <4> QED BY <1>4, <2>1, <4>1, MemGetWhich
    <3> QED BY <3>1 DEF p, es, fs
  <2>4. CASE p \notin fs
    <3>1. p \in InputOf(c) /\ p \notin OutOf(c)
      <4>1. p \notin m /\ p \notin EntriesIn(files) /\ p \in EntriesIn(v.files)
        BY <2>2, <2>4 DEF es, fs
      <4>2. PICK l \in Levels : \E g \in v.files[l] : p \in g.data
        BY <4>1, EntriesInIs
      <4>3. PICK g \in v.files[l] : p \in g.data
        BY <4>2
      <4>4. ~ Stays(v, c, l, g) /\ p \notin OutOf(c)
        BY <1>2, <4>1, <4>3
      <4>5. g \in c.in0 \cup c.in1
        BY <4>4 DEF Stays
      <4> QED BY <4>3, <4>4, <4>5 DEF InputOf
    <3>2. IsNewest(p, InputOf(c), s)
      BY <1>1, <2>1, <3>1 DEF IsNewest, es
    <3>3. Hides(p, OutOf(c)) /\ NotBelow(v.files, c.level, k)
      BY <1>n, <2>1, <3>1, <3>2 DEF KeepsNewest
    <3>4. PICK h \in c.in0 \cup c.in1 : p \in h.data
      BY <3>1 DEF InputOf
    <3>5. ASSUME Has(fs, k, s) PROVE FALSE
      <4>1. PICK q \in fs : q.k = k /\ q.s <= s
        BY <3>5 DEF Has
      <4>2. q \in es /\ p.s \in Nat /\ q.s \in Nat /\ q.s <= p.s
        BY <1>4, <1>5, <2>2, <4>1
      <4>3. q.s > p.s
        <5>1. CASE q \in m
          BY <1>n, <1>1, <2>1, <3>1, <4>1, <5>1 DEF NewerThan
        <5>2. CASE q \in OutOf(c)
          BY <2>1, <3>3, <4>1, <5>2 DEF Hides
        <5>3. ASSUME NEW l \in Levels, NEW g \in v.files[l], Stays(v, c, l, g), q \in g.data PROVE q.s > p.s
          <6>0. (l = c.level => g \notin c.in0) /\ (l = c.level + 1 => g \notin c.in1)
            BY <5>3 DEF Stays
          <6>1. CASE l > c.level + 1
            BY <3>3, <4>1, <5>3, <6>1 DEF NotBelow
          <6>2. CASE l = c.level + 1 /\ h \in c.in0
            <7>1. KeysApart(g.data, h.data)
              BY <6>0, <6>2 DEF BesideInputs
            <7> QED BY <2>1, <3>4, <4>1, <5>3, <7>1 DEF KeysApart
          <6>3. CASE l = c.level + 1 /\ h \in c.in1
            <7>1. g # h /\ h \in v.files[l] /\ l \in Levels \ {0}
              BY <1>0, <6>0, <6>3 DEF InputsIn
            <7>2. KeysApart(g.data, h.data)
              BY <7>1 DEF Layered
            <7> QED BY <2>1, <3>4, <4>1, <5>3, <7>2 DEF KeysApart
          <6>4. CASE l < c.level + 1
            <7>1. NewerThan(g.data, h.data)
              <8>1. CASE h \in c.in1
                <9>1. h \in v.files[c.level + 1]
                  BY <8>1 DEF InputsIn
                <9> QED BY <1>0, <6>4, <9>1 DEF Layered
              <8>2. CASE h \in c.in0 /\ l = c.level
                BY <6>0, <8>2 DEF BesideInputs
              <8>3. CASE h \in c.in0 /\ l # c.level
                <9>1. h \in v.files[c.level]
                  BY <8>3 DEF InputsIn
                <9>2. l < c.level
                  BY <1>0, <6>4, <8>3
                <9> QED BY <1>0, <9>1, <9>2 DEF Layered
              <8> QED BY <3>4, <8>1, <8>2, <8>3
            <7> QED BY <2>1, <3>4, <4>1, <5>3, <7>1 DEF NewerThan
          <6>5. l \in Nat /\ c.level + 1 \in Nat
            BY <1>0
          <6>6. l > c.level + 1 \/ l = c.level + 1 \/ l < c.level + 1
            BY <6>5
          <6> QED BY <3>4, <6>1, <6>2, <6>3, <6>4, <6>6
        <5> QED BY <1>2, <4>1, <5>1, <5>2, <5>3 DEF fs
      <4> QED BY <4>2, <4>3
    <3>6. MemGet(fs, k, s) = NoEntry
      BY <1>4, <3>5, MemGetIs
    <3>7. ValueIn(p) = NoEntry /\ ValueIn(NoEntry) = NoEntry
      BY <3>3 DEF Hides, ValueIn, kTypeDeletion, kTypeValue
    <3> QED BY <3>6, <3>7 DEF p, es, fs
  <2> QED BY <2>3, <2>4
<1> QED BY <1>6, <1>7

LEMMA InputsBeside ==
  ASSUME NEW v, NEW next \in Nat, NEW E, VersionOK(v, next, E), NEW c, InputsOK(v, c), Layered(v.files)
  PROVE  InputsIn(v, c) /\ BesideInputs(c, v.files)
<1>1. /\ c.level \in Levels /\ c.level + 1 \in Levels \ {0}
      /\ c.in0 \subseteq v.files[c.level] /\ c.in1 \subseteq v.files[c.level + 1]
      /\ \A f \in c.in0 \cup c.in1 : IsFile(f)
  BY InputsAre
<1>2. ASSUME NEW l \in Levels, NEW f \in v.files[l] PROVE IsFile(f)
  BY LevelOK DEF VersionOK
<1>3. ASSUME NEW f \in v.files[c.level] \ c.in0, NEW g \in c.in0 PROVE NewerThan(f.data, g.data)
  <2>1. CASE c.level = 0
    <3>1. ~ Overlaps(f, g.smallest.k, g.largest.k) /\ IsFile(f) /\ IsFile(g)
      BY <1>1, <1>2, <2>1 DEF InputsOK, ApartFrom
    <3>2. f.smallest.k \in Nat /\ f.largest.k \in Nat /\ g.smallest.k \in Nat /\ g.largest.k \in Nat
      BY <3>1, FileRange
    <3>3. Aside(f, g)
      BY <3>1, <3>2 DEF Overlaps, Aside
    <3> QED BY <3>1, <3>3, AsideKeys, ApartIsNewer
  <2>2. CASE c.level # 0
    <3>1. c.level \in Levels \ {0} /\ f # g /\ f \in v.files[c.level] /\ g \in v.files[c.level]
      BY <1>1, <2>2
    <3>2. KeysApart(f.data, g.data)
      BY <3>1 DEF Layered
    <3> QED BY <3>2, ApartIsNewer
  <2> QED BY <2>1, <2>2
<1>4. ASSUME NEW h \in v.files[c.level + 1] \ c.in1, NEW g \in c.in0 PROVE KeysApart(h.data, g.data)
  <2>1. IsFile(h) /\ IsFile(g) /\ c.in0 # {} /\ h \in v.files[c.level + 1] /\ h \notin InRange(v, c.level + 1, c.in0)
    BY <1>1, <1>2 DEF InputsOK
  <2>2. (\A f \in c.in0 : h.largest.k < f.smallest.k) \/ (\A f \in c.in0 : f.largest.k < h.smallest.k)
    BY <1>1, <1>2, <2>1, InRangeOutside
  <2>3. Aside(h, g)
    BY <2>2 DEF Aside
  <2> QED BY <2>1, <2>3, AsideKeys
<1> QED BY <1>1, <1>3, <1>4 DEF InputsIn, BesideInputs

(* A file of a level is deleted by its number. *)
LEMMA SameNumber ==
  ASSUME NEW v, NEW next \in Nat, FilesOK(v.files, next), NEW l \in Levels, NEW m \in Levels,
         NEW f \in v.files[l], NEW g \in v.files[m], f.number = g.number
  PROVE  f = g
  BY DEF FilesOK, AreFiles

LEMMA InstallReplaces ==
  ASSUME NEW v, NEW next \in Nat, FilesOK(v.files, next), NEW c, InputsIn(v, c)
  PROVE  Replaced(v, c, Edited(v, InputDeletions(c), OutsAdded(c)), {c.outs[i] : i \in DOMAIN c.outs})
<1> DEFINE files == Edited(v, InputDeletions(c), OutsAdded(c))
           news == {c.outs[i] : i \in DOMAIN c.outs}
<1>0. c.level \in Levels /\ c.level + 1 \in Levels /\ c.level \in Nat /\ c.level # c.level + 1
  BY LSMConstants DEF InputsIn, Levels
<1>1. ASSUME NEW l \in Levels, NEW g
      PROVE  g \in files[l] <=> (g \in v.files[l] /\ <<l, g.number>> \notin InputDeletions(c))
                                \/ \E a \in OutsAdded(c) : a[1] = l /\ a[2] = g
  BY ONLY l \in Levels, EditedIs
<1>2. ASSUME NEW l, NEW g PROVE (\E a \in OutsAdded(c) : a[1] = l /\ a[2] = g) <=> l = c.level + 1 /\ g \in news
  <2>1. ASSUME l = c.level + 1, g \in news PROVE \E a \in OutsAdded(c) : a[1] = l /\ a[2] = g
    <3>1. PICK i \in DOMAIN c.outs : g = c.outs[i]
      BY <2>1
    <3>2. <<l, g>> \in OutsAdded(c) /\ <<l, g>>[1] = l /\ <<l, g>>[2] = g
      BY <2>1, <3>1 DEF OutsAdded
    <3> QED BY <3>2
  <2>2. ASSUME NEW a \in OutsAdded(c) PROVE a[1] = c.level + 1 /\ a[2] \in news
    BY DEF OutsAdded
  <2> QED BY <2>1, <2>2
<1>3. ASSUME NEW l \in Levels, NEW g \in v.files[l] PROVE <<l, g.number>> \notin InputDeletions(c) <=> Stays(v, c, l, g)
  <2>1. <<l, g.number>> \in InputDeletions(c)
            <=> (l = c.level /\ \E f \in c.in0 : f.number = g.number) \/ (l = c.level + 1 /\ \E f \in c.in1 : f.number = g.number)
    BY DEF InputDeletions
  <2>2. (\E f \in c.in0 : f.number = g.number) <=> g \in c.in0
    <3>1. \A f \in c.in0 : f \in v.files[c.level] /\ (f.number = g.number => f = g)
      BY <1>0, SameNumber DEF InputsIn
    <3> QED BY <3>1
  <2>3. (\E f \in c.in1 : f.number = g.number) <=> g \in c.in1
    <3>1. \A f \in c.in1 : f \in v.files[c.level + 1] /\ (f.number = g.number => f = g)
      BY <1>0, SameNumber DEF InputsIn
    <3> QED BY <3>1
  <2> QED BY <2>1, <2>2, <2>3 DEF Stays
<1> HIDE DEF files, news
<1>4. ASSUME NEW l \in Levels, NEW g \in files[l] PROVE Stays(v, c, l, g) \/ (l = c.level + 1 /\ g \in news)
  BY <1>1, <1>2, <1>3
<1>5. ASSUME NEW l \in Levels, NEW g \in v.files[l], Stays(v, c, l, g) PROVE g \in files[l]
  BY <1>1, <1>3, <1>5
<1>6. ASSUME NEW g \in news PROVE g \in files[c.level + 1]
  <2>1. \E a \in OutsAdded(c) : a[1] = c.level + 1 /\ a[2] = g
    BY <1>2
  <2> QED BY <1>0, <1>1, <2>1
<1>7. Replaced(v, c, files, news)
  BY <1>4, <1>5, <1>6 DEF Replaced
<1> QED BY <1>7 DEF files, news

LEMMA MoveReplaces ==
  ASSUME NEW v, NEW next \in Nat, FilesOK(v.files, next), NEW c, InputsIn(v, c), c.in1 = {}, NEW f, c.in0 = {f}
  PROVE  /\ Replaced(v, c, Edited(v, {<<c.level, f.number>>}, {<<c.level + 1, f>>}), {f})
         /\ EntriesIn(Edited(v, {<<c.level, f.number>>}, {<<c.level + 1, f>>})) = EntriesIn(v.files)
<1> DEFINE x == <<c.level, f.number>>
           y == <<c.level + 1, f>>
           files == Edited(v, {x}, {y})
<1>0. c.level \in Levels /\ c.level + 1 \in Levels /\ c.level \in Nat /\ c.level # c.level + 1 /\ f \in v.files[c.level]
  BY LSMConstants DEF InputsIn, Levels
<1>1. ASSUME NEW l \in Levels, NEW g
      PROVE  g \in files[l] <=> (g \in v.files[l] /\ <<l, g.number>> # x) \/ (y[1] = l /\ y[2] = g)
  <2> PICK del, add : del = {x} /\ add = {y}
    OBVIOUS
  <2>1. g \in Edited(v, del, add)[l] <=> (g \in v.files[l] /\ <<l, g.number>> \notin del) \/ \E a \in add : a[1] = l /\ a[2] = g
    BY ONLY l \in Levels, EditedIs
  <2> DEFINE z == <<l, g.number>>
  <2>2. g \in Edited(v, del, add)[l] <=> (g \in v.files[l] /\ z \notin del) \/ \E a \in add : a[1] = l /\ a[2] = g
    BY <2>1
  <2> HIDE DEF x, y, z
  <2>3. g \in Edited(v, {x}, {y})[l] <=> (g \in v.files[l] /\ z # x) \/ (y[1] = l /\ y[2] = g)
    BY <2>2
  <2> QED BY <2>3 DEF z
<1>2. ASSUME NEW l \in Levels, NEW g PROVE g \in files[l] <=> (g \in v.files[l] /\ ~ (l = c.level /\ g.number = f.number)) \/ (l = c.level + 1 /\ g = f)
  <2>1. y[1] = c.level + 1 /\ y[2] = f /\ (<<l, g.number>> = x <=> l = c.level /\ g.number = f.number)
    OBVIOUS
  <2> HIDE DEF files, x, y
  <2> QED BY <1>1, <2>1
<1> HIDE DEF files, x, y
<1>3. ASSUME NEW l \in Levels, NEW g \in v.files[l] PROVE ~ (l = c.level /\ g.number = f.number) <=> Stays(v, c, l, g)
  <2>1. g.number = f.number <=> g = f
    BY <1>0, SameNumber
  <2> QED BY <2>1 DEF Stays
<1>4. Replaced(v, c, files, {f})
  BY <1>0, <1>2, <1>3 DEF Replaced, Stays
<1>5. ASSUME NEW e PROVE e \in EntriesIn(files) <=> e \in EntriesIn(v.files)
  <2>1. ASSUME e \in EntriesIn(files) PROVE e \in EntriesIn(v.files)
    BY <1>0, <1>2, <2>1, EntriesInIs
  <2>2. ASSUME NEW l \in Levels, NEW g \in v.files[l], e \in g.data PROVE e \in EntriesIn(files)
    <3>1. CASE g = f
      BY <1>0, <1>2, <2>2, <3>1, EntriesInIs
    <3>2. CASE g # f
      <4>1. g \in files[l]
        <5>1. g.number # f.number
          BY <1>0, <3>2, SameNumber
        <5> QED BY <1>2, <5>1
      <4> QED BY <2>2, <4>1, EntriesInIs
    <3> QED BY <3>1, <3>2
  <2> QED BY <2>1, <2>2, EntriesInIs
<1> QED BY <1>4, <1>5 DEF files, x, y

(* A read.  Table::InternalGet finds the newest entry of the key in a file. *)
LEMMA SaveValueIs ==
  ASSUME NEW f, WellKept(f.data), NEW k \in Nat, NEW s \in Nat
  PROVE  SaveValue(f, LookupKey(k, s)) = MemGet(f.data, k, s)
<1> DEFINE rest == {e \in f.data : ~ Before(e, LookupKey(k, s))}
           e == FirstEntry(rest)
           p == MemGet(f.data, k, s)
<1>0. \A a \in f.data : a \in Entries /\ a.k \in Nat /\ a.s \in Nat
  BY EntryNumbers DEF WellKept
<1>1. LookupKey(k, s).k = k /\ LookupKey(k, s).s = s
  BY DEF LookupKey
<1>2. ASSUME NEW a \in f.data PROVE a \in rest <=> a.k > k \/ (a.k = k /\ a.s <= s)
  BY <1>0, <1>1 DEF Before
<1>3. SaveValue(f, LookupKey(k, s)) = IF rest # {} /\ e.k = k THEN e ELSE NoEntry
  BY <1>1 DEF SaveValue
<1>4. rest # {} => e \in rest /\ \A o \in rest : ~ Before(o, e)
  <2>1. rest \subseteq Entries
    BY <1>0
  <2> HIDE DEF rest
  <2> QED BY <2>1, FirstEntryExists
<1>5. rest \subseteq f.data
  OBVIOUS
<1>6. CASE ~ Has(f.data, k, s)
  <2>1. p = NoEntry
    BY <1>6, MemGetIs
  <2> HIDE DEF rest, e, p
  <2>2. ASSUME rest # {}, e.k = k PROVE FALSE
    <3>1. e \in f.data /\ e \in rest
      BY <1>4, <1>5, <2>2
    <3>2. e.s <= s
      BY <1>0, <1>2, <2>2, <3>1
    <3> QED BY <1>6, <2>2, <3>1, <3>2 DEF Has
  <2>3. SaveValue(f, LookupKey(k, s)) = p
    BY <1>3, <2>1, <2>2
  <2> QED BY <2>3 DEF p
<1>7. CASE Has(f.data, k, s)
  <2>1. p.k = k /\ IsNewest(p, f.data, s)
    BY <1>7, MemGetIs
  <2> HIDE DEF rest, e, p
  <2>2. p \in f.data /\ p.s <= s /\ \A o \in f.data : o.k = k /\ o.s <= s => o.s <= p.s
    BY <2>1 DEF IsNewest
  <2>3. p \in rest
    BY <1>2, <2>1, <2>2
  <2>4. e \in rest /\ ~ Before(p, e) /\ e \in f.data
    BY <1>4, <1>5, <2>3
  <2>5. e.k \in Nat /\ e.s \in Nat /\ p.s \in Nat
    BY <1>0, <2>2, <2>4
  <2>6. e.k > k \/ (e.k = k /\ e.s <= s)
    BY <1>2, <2>4
  <2>7. ~ (k < e.k) /\ ~ (k = e.k /\ p.s > e.s)
    BY <2>1, <2>4 DEF Before
  <2>8. e.k = k /\ e.s <= s
    BY <2>5, <2>6, <2>7
  <2>9. p.s <= e.s /\ e.s <= p.s
    BY <2>2, <2>4, <2>5, <2>7, <2>8
  <2>10. e.s = p.s
    BY <2>5, <2>9
  <2>11. e = p
    BY <2>2, <2>4, <2>10 DEF WellKept, Distinct
  <2>12. SaveValue(f, LookupKey(k, s)) = p
    BY <1>3, <2>3, <2>8, <2>11
  <2> QED BY <2>12 DEF p
<1> QED BY <1>6, <1>7

(* FindFile leads to the one file of a level that may have an answer. *)
LEMMA FindFileFinds ==
  ASSUME NEW fs, AreFiles(fs), NEW f \in fs, \A g \in fs : ApartFiles(g, f) /\ (g = f \/ KeysApart(g.data, f.data)),
         NEW k \in Nat, NEW s \in Nat, Has(f.data, k, s)
  PROVE  FindFile(fs, LookupKey(k, s)) = f /\ k >= f.smallest.k /\ f # NoFile
<1> DEFINE reach == {g \in fs : ~ Before(g.largest, LookupKey(k, s))}
           g == First(reach)
<1>0. LookupKey(k, s).k = k /\ LookupKey(k, s).s = s
  BY DEF LookupKey
<1>1. PICK a \in f.data : a.k = k /\ a.s <= s
  BY DEF Has
<1>2. /\ IsFile(f) /\ a \in Entries /\ a.s \in Nat /\ f.smallest.k \in Nat /\ f.largest.k \in Nat
      /\ f.smallest.k <= k /\ k <= f.largest.k
  BY <1>1, FileHolds DEF AreFiles
<1>3. f.smallest \in Entries /\ f.largest \in Entries /\ ~ Before(f.largest, f.smallest) /\ f # NoFile /\ f.largest.s \in Nat
  BY <1>2, FileRange, EntryNumbers
<1>4. f \in reach
  <2>1. ~ Before(f.largest, a)
    BY <1>1, <1>2 DEF IsFile
  <2>2. ~ (f.largest.k < k) /\ ~ (f.largest.k = k /\ f.largest.s > a.s)
    BY <1>1, <2>1 DEF Before
  <2>3. ~ (f.largest.k = k /\ f.largest.s > s)
    BY <1>1, <1>2, <1>3, <2>2
  <2> QED BY <1>0, <2>2, <2>3 DEF Before
<1>5. AreFiles(reach)
  BY DEF AreFiles
<1>6. g \in reach /\ ~ Before(f.smallest, g.smallest)
  <2> HIDE DEF reach
  <2> QED BY <1>4, <1>5, FirstFileExists
<1>7. g \in fs /\ ~ Before(g.largest, LookupKey(k, s))
  BY <1>6
<1>8. FindFile(fs, LookupKey(k, s)) = g
  BY <1>4 DEF FindFile
<1> HIDE DEF g, reach
<1>9. g = f
  <2> SUFFICES ASSUME g # f PROVE FALSE
    OBVIOUS
  <2>1. IsFile(g) /\ g.largest \in g.data /\ g.largest \in Entries /\ g.smallest \in Entries /\ g.largest.k \in Nat
    BY <1>7, FileRange DEF AreFiles, IsFile
  <2>2. g.largest.k # k
    BY <1>1, <1>7, <2>1 DEF KeysApart
  <2>3. Before(g.largest, f.smallest) \/ Before(f.largest, g.smallest)
    BY <1>7 DEF ApartFiles
  <2>4. ~ Before(f.largest, g.smallest)
    BY <1>3, <1>6, <2>1, BeforeOrder
  <2>5. g.largest.k <= f.smallest.k
    BY <1>3, <2>1, <2>3, <2>4, BeforeOrder
  <2>6. g.largest.k < k
    BY <1>2, <2>1, <2>2, <2>5
  <2> QED BY <1>0, <1>7, <2>6 DEF Before
<1> QED BY <1>2, <1>3, <1>8, <1>9

LEMMA FilesForHave ==
  ASSUME NEW v, NEW next \in Nat, FilesOK(v.files, next), LevelsApart(v.files), Layered(v.files),
         NEW k \in Nat, NEW s \in Nat, NEW l \in Levels, NEW f \in v.files[l], Has(f.data, k, s)
  PROVE  [file |-> f, level |-> l] \in FilesFor(v, LookupKey(k, s), k)
<1> DEFINE c == [file |-> f, level |-> l]
<1>1. AreFiles(v.files[l]) /\ IsFile(f)
  BY LevelOK
<1>2. CASE l = 0
  <2>1. PICK a \in f.data : a.k = k
    BY DEF Has
  <2>2. f.smallest.k <= k /\ k <= f.largest.k /\ f.smallest.k \in Nat /\ f.largest.k \in Nat
    BY <1>1, <2>1, FileHolds
  <2>3. f \in InputsBetween(v, 0, k, k)
    BY <1>2, <2>2 DEF InputsBetween, Overlaps
  <2> QED BY <1>2, <2>3 DEF FilesFor
<1>3. CASE l # 0
  <2>1. \A g \in v.files[l] : ApartFiles(g, f) /\ (g = f \/ KeysApart(g.data, f.data))
    BY <1>3 DEF LevelsApart, Layered
  <2>2. FindFile(v.files[l], LookupKey(k, s)) = f /\ k >= f.smallest.k /\ f # NoFile
    BY <1>1, <2>1, FindFileFinds
  <2>3. c \in {[file |-> FindFile(v.files[m], LookupKey(k, s)), level |-> m] : m \in Levels \ {0}}
    BY <1>3, <2>2
  <2>4. c.file = f
    OBVIOUS
  <2> QED BY <2>2, <2>3, <2>4 DEF FilesFor
<1> QED BY <1>2, <1>3

(* Version::Get: the first file that answers has the newest entry. *)
LEMMA VersionGetIs ==
  ASSUME NEW v, NEW next \in Nat, FilesOK(v.files, next), LevelsApart(v.files), Layered(v.files),
         WellKept(EntriesIn(v.files)), NEW k \in Nat, NEW s \in Nat
  PROVE  VersionGet(v, k, s).entry = MemGet(EntriesIn(v.files), k, s)
<1> DEFINE key == LookupKey(k, s)
           cs == FilesFor(v, key, k)
           answers == {c \in cs : Answers(c, key)}
           a == FirstOf(answers)
           es == EntriesIn(v.files)
<1>1. VersionGet(v, k, s).entry = IF answers = {} THEN NoEntry ELSE SaveValue(a.file, key)
  BY DEF VersionGet, ReadInOrder
<1>2. /\ \A c \in cs : c.level \in Levels /\ c.file \in v.files[c.level] /\ c.file.number \in 0 .. next
      /\ \A c, d \in cs : c.level = d.level /\ (c.level # 0 \/ c.file.number = d.file.number) => c = d
  BY FilesForAre
<1>3. ASSUME NEW l \in Levels, NEW f \in v.files[l] PROVE WellKept(f.data) /\ f.data \subseteq es
  <2>1. f.data \subseteq es
    BY EntriesInIs
  <2> HIDE DEF es
  <2> QED BY <2>1 DEF WellKept, Distinct, es
<1>4. ASSUME NEW c \in cs PROVE SaveValue(c.file, key) = MemGet(c.file.data, k, s)
  BY <1>2, <1>3, SaveValueIs
<1>5. ASSUME NEW c \in cs PROVE Answers(c, key) <=> Has(c.file.data, k, s)
  <2>1. WellKept(c.file.data)
    BY <1>2, <1>3
  <2>2. ~ Has(c.file.data, k, s) => MemGet(c.file.data, k, s) = NoEntry
    BY <2>1, MemGetIs
  <2>3. Has(c.file.data, k, s) => MemGet(c.file.data, k, s) # NoEntry
    BY <2>1, MemGetIs
  <2> QED BY <1>4, <2>2, <2>3 DEF Answers
<1>6. ASSUME NEW l \in Levels, NEW f \in v.files[l], Has(f.data, k, s) PROVE [file |-> f, level |-> l] \in cs
  BY <1>6, FilesForHave
<1> HIDE DEF key, cs, es
<1>7. CASE ~ Has(es, k, s)
  <2>1. answers = {}
    <3> SUFFICES ASSUME NEW c \in answers PROVE FALSE
      OBVIOUS
    <3>1. Has(c.file.data, k, s) /\ c.file.data \subseteq es
      BY <1>2, <1>3, <1>5
    <3> QED BY <1>7, <3>1 DEF Has
  <2>2. MemGet(es, k, s) = NoEntry
    BY <1>7, MemGetIs DEF es
  <2> QED BY <1>1, <2>1, <2>2 DEF es
<1>8. CASE Has(es, k, s)
  <2> DEFINE p == MemGet(es, k, s)
  <2>1. p.k = k /\ IsNewest(p, es, s)
    BY <1>8, MemGetIs DEF es
  <2> HIDE DEF p
  <2>2. p \in es /\ p.s <= s /\ \A o \in es : o.k = k /\ o.s <= s => o.s <= p.s
    BY <2>1 DEF IsNewest
  <2>3. PICK l \in Levels : \E f \in v.files[l] : p \in f.data
    BY <2>2, EntriesInIs DEF es
  <2>4. PICK f \in v.files[l] : p \in f.data
    BY <2>3
  <2> DEFINE b == [file |-> f, level |-> l]
  <2>5. b \in answers /\ b.file = f /\ b.level = l
    <3>1. Has(f.data, k, s)
      BY <2>1, <2>2, <2>4 DEF Has
    <3>2. b \in cs /\ b.file = f /\ b.level = l
      BY <1>6, <3>1
    <3> HIDE DEF b
    <3> QED BY <1>5, <3>1, <3>2
  <2> HIDE DEF b
  <2>6. a \in answers /\ \A d \in answers \ {a} : Earlier(a, d)
    <3>1. answers # {} /\ answers \subseteq cs
      BY <2>5
    <3> HIDE DEF answers
    <3>2. /\ \A c \in answers : c.level \in Levels /\ c.file.number \in 0 .. next
          /\ \A c, d \in answers : c.level = d.level /\ (c.level # 0 \/ c.file.number = d.file.number) => c = d
      BY <1>2, <3>1
    <3> QED BY <3>1, <3>2, FirstOfExists
  <2> HIDE DEF a
  <2> DEFINE q == MemGet(a.file.data, k, s)
  <2>7. a \in cs /\ a.level \in Levels /\ a.file \in v.files[a.level] /\ Has(a.file.data, k, s) /\ WellKept(a.file.data)
    BY <1>2, <1>3, <1>5, <2>6
  <2>8. q.k = k /\ IsNewest(q, a.file.data, s)
    BY <2>7, MemGetIs
  <2>9. SaveValue(a.file, key) = q
    BY <1>4, <2>7
  <2> HIDE DEF q
  <2>10. q \in a.file.data /\ q \in es /\ q.s <= s
    BY <1>3, <2>7, <2>8 DEF IsNewest
  <2>11. q.s <= p.s /\ q.s \in Nat /\ p.s \in Nat
    <3>1. es \subseteq Entries
      BY DEF WellKept, es
    <3> QED BY <2>2, <2>8, <2>10, <3>1, EntryNumbers
  <2>12. a = b
    <3> SUFFICES ASSUME a # b PROVE FALSE
      OBVIOUS
    <3>1. Earlier(a, b)
      BY <2>5, <2>6
    <3>2. CASE a.level < l
      <4>1. NewerThan(a.file.data, f.data)
        BY <2>7, <3>2 DEF Layered
      <4> QED BY <2>1, <2>4, <2>8, <2>10, <2>11, <4>1 DEF NewerThan
    <3>3. CASE a.level = l /\ a.file.number > f.number
      <4>1. l = 0
        <5>1. b \in cs
          BY <2>5
        <5> QED BY <1>2, <2>5, <2>7, <3>3, <5>1
      <4>2. NewerThan(a.file.data, f.data)
        BY <2>7, <3>3, <4>1 DEF Layered
      <4> QED BY <2>1, <2>4, <2>8, <2>10, <2>11, <4>2 DEF NewerThan
    <3> QED BY <2>5, <3>1, <3>2, <3>3 DEF Earlier
  <2>13. IsNewest(p, a.file.data, s)
    <3>1. a.file = f
      BY <2>5, <2>12
    <3> QED BY <1>3, <2>1, <2>4, <3>1 DEF IsNewest
  <2>14. p = q
    BY <2>1, <2>7, <2>8, <2>13, NewestIsOne
  <2> QED BY <1>1, <2>6, <2>9, <2>14 DEF p, es
<1> QED BY <1>7, <1>8

(* The memtable is asked first. *)
LEMMA NewerFirst ==
  ASSUME NEW m, NEW es, WellKept(m \cup es), NewerThan(m, es), NEW k, NEW s
  PROVE  MemGet(m \cup es, k, s) = IF MemGet(m, k, s) # NoEntry THEN MemGet(m, k, s) ELSE MemGet(es, k, s)
<1> DEFINE both == m \cup es
<1>0. WellKept(m) /\ WellKept(es) /\ WellKept(both)
  BY DEF WellKept, Distinct
<1>1. both = m \cup es
  OBVIOUS
<1> HIDE DEF both
<1>2. CASE Has(m, k, s)
  <2> DEFINE p == MemGet(m, k, s)
  <2>1. p.k = k /\ IsNewest(p, m, s) /\ p # NoEntry
    BY <1>0, <1>2, MemGetIs
  <2> HIDE DEF p
  <2>2. IsNewest(p, both, s)
    <3>1. p \in both /\ p.s <= s
      BY <1>1, <2>1 DEF IsNewest
    <3>2. ASSUME NEW o \in both, o.k = p.k, o.s <= s PROVE o.s <= p.s
      <4>1. CASE o \in m
        BY <2>1, <3>2, <4>1 DEF IsNewest
      <4>2. CASE o \in es
        <5>1. p.s > o.s
          BY <2>1, <3>2, <4>2 DEF NewerThan, IsNewest
        <5>2. p.s \in Nat /\ o.s \in Nat
          BY <1>0, <3>1, EntryNumbers DEF WellKept
        <5> QED BY <5>1, <5>2
      <4> QED BY <1>1, <4>1, <4>2
    <3> QED BY <3>1, <3>2 DEF IsNewest
  <2>3. MemGet(both, p.k, s) = p
    BY <1>0, <2>2, MemGetWhich
  <2>4. MemGet(both, k, s) = p
    BY <2>1, <2>3
  <2> QED BY <1>1, <2>1, <2>4 DEF p
<1>3. CASE ~ Has(m, k, s)
  <2>1. MemGet(m, k, s) = NoEntry
    BY <1>0, <1>3, MemGetIs
  <2>2. \A e \in both : e.k = k /\ e.s <= s => e \in es
    BY <1>1, <1>3 DEF Has
  <2>3. Has(es, k, s) => MemGet(es, k, s) \in both
    BY <1>0, <1>1, MemGetIs DEF IsNewest
  <2>4. MemGet(both, k, s) = MemGet(es, k, s)
    BY <1>0, <2>2, <2>3, SameSearch
  <2> QED BY <1>1, <2>1, <2>4
<1> QED BY <1>2, <1>3

-----------------------------------------------------------------------------
(* What is current: the entries a read may find are known. *)
Kept == mem \cup EntriesIn(Current.files)
LEMMA CurrentIs ==
  ASSUME BaseInv
  PROVE  /\ mode \in Modes /\ last_sequence \in Nat /\ last_sequence <= mode.writes /\ mode.writes <= MaxWrites
         /\ mode.writes \in Nat /\ MaxWrites \in Nat
         /\ next_file_number \in Nat \ {0} /\ AreVersions(versions) /\ current \in DOMAIN versions
         /\ FilesOK(Current.files, next_file_number)
         /\ WellKept(Kept) /\ \A e \in Kept : e.s <= last_sequence
<1> PICK E : WrittenOK(E, last_sequence, mem) /\ Stored(E, versions, next_file_number, compaction, pending_outputs)
  BY DEF BaseInv, KnownEntries
<1>1. mode \in Modes /\ last_sequence \in 0 .. mode.writes /\ mode.writes \in 0 .. MaxWrites /\ MaxWrites \in Nat
  BY LSMConstants DEF BaseInv, Scalars
<1>2. /\ next_file_number \in Nat \ {0} /\ AreVersions(versions) /\ current \in DOMAIN versions
      /\ VersionOK(versions[current], next_file_number, E)
  BY DEF BaseInv, Scalars, AllCounted, Counted, Stored, VersionsOK
<1>3. FilesOK(Current.files, next_file_number) /\ FilesIn(Current.files, E)
  BY <1>2 DEF VersionOK, Current
<1>4. EntriesIn(Current.files) \subseteq E
  BY <1>3, EntriesInIs DEF FilesIn
<1>5. Kept \subseteq E
  BY <1>4 DEF WrittenOK, Kept
<1>6. WellKept(Kept) /\ \A e \in Kept : e.s <= last_sequence
  BY <1>5 DEF WrittenOK, WellKept, Distinct
<1> QED BY <1>1, <1>2, <1>3, <1>6

(* Entries that no read asks for any more are forgotten by the history.     *)
LEMMA VisibleSearch ==
  ASSUME NEW es, WellKept(es), NEW now, NEW snaps
  PROVE  /\ Visible(es, now, snaps) \subseteq es
         /\ \A k \in UserKeys, s \in snaps \cup {now} : MemGet(Visible(es, now, snaps), k, s) = MemGet(es, k, s)
<1> DEFINE vis == Visible(es, now, snaps)
<1>1. ASSUME NEW e PROVE e \in vis <=> e # NoEntry /\ \E k \in UserKeys, s \in snaps \cup {now} : e = MemGet(es, k, s)
  BY DEF Visible
<1>2. ASSUME NEW k, NEW s, MemGet(es, k, s) # NoEntry PROVE MemGet(es, k, s) \in es
  <2>1. Has(es, k, s)
    BY <1>2, MemGetIs
  <2>2. IsNewest(MemGet(es, k, s), es, s)
    BY <2>1, MemGetIs
  <2> QED BY <2>2 DEF IsNewest
<1> HIDE DEF vis
<1>3. vis \subseteq es
  BY <1>1, <1>2
<1>4. WellKept(vis)
  BY <1>3 DEF WellKept, Distinct
<1>5. ASSUME NEW k \in UserKeys, NEW s \in snaps \cup {now} PROVE MemGet(vis, k, s) = MemGet(es, k, s)
  <2>1. \A e \in vis : e.k = k /\ e.s <= s => e \in es
    BY <1>3
  <2>2. Has(es, k, s) => MemGet(es, k, s) \in vis
    <3>1. Has(es, k, s) => MemGet(es, k, s) # NoEntry
      BY MemGetIs
    <3> QED BY <1>1, <3>1
  <2> QED BY <1>4, <2>1, <2>2, SameSearch
<1> QED BY <1>3, <1>5 DEF vis

(* A write is the newest of its key, and of no concern to earlier reads. *)
LEMMA SearchOneMore ==
  ASSUME NEW es, NEW e, NEW more, more = es \cup {e}, WellKept(more), NEW last \in Nat, \A o \in es : o.s <= last,
         e.s = last + 1, NEW k
  PROVE  /\ \A s \in Nat : s <= last => MemGet(more, k, s) = MemGet(es, k, s)
         /\ k # e.k => MemGet(more, k, last + 1) = MemGet(es, k, last)
         /\ k = e.k => MemGet(more, k, last + 1) = e
<1>0. \A o \in es : o.s \in Nat
  BY EntryNumbers DEF WellKept
<1>w. WellKept(es)
  BY DEF WellKept, Distinct
<1>1. ASSUME NEW s \in Nat, s <= last PROVE MemGet(more, k, s) = MemGet(es, k, s)
  <2>1. \A o \in es : o.k = k /\ o.s <= s => o \in more
    OBVIOUS
  <2>2. \A o \in more : o.k = k /\ o.s <= s => o \in es
    BY <1>1
  <2>3. Has(more, k, s) => MemGet(more, k, s) \in es
    BY <2>2, MemGetIs DEF IsNewest
  <2> QED BY <1>w, <2>1, <2>3, SameSearch
<1>2. ASSUME k # e.k PROVE MemGet(more, k, last + 1) = MemGet(es, k, last)
  <2> DEFINE mine == {o \in more : o.k = k /\ o.s <= last + 1}
             ours == {o \in es : o.k = k /\ o.s <= last}
  <2>1. mine = ours
    <3>1. ASSUME NEW o \in mine PROVE o \in ours
      BY <1>0, <1>2
    <3>2. ASSUME NEW o \in ours PROVE o \in mine
      BY <1>0
    <3> QED BY <3>1, <3>2
  <2>2. MemGet(more, k, last + 1) = IF mine = {} THEN NoEntry ELSE CHOOSE o \in mine : \A p \in mine : p.s <= o.s
    BY DEF MemGet
  <2>3. MemGet(es, k, last) = IF ours = {} THEN NoEntry ELSE CHOOSE o \in ours : \A p \in ours : p.s <= o.s
    BY DEF MemGet
  <2> HIDE DEF mine, ours
  <2> QED BY <2>1, <2>2, <2>3
<1>3. IsNewest(e, more, last + 1)
  <2>1. \A o \in more : o.s <= e.s
    BY <1>0
  <2> QED BY <2>1 DEF IsNewest
<1>4. MemGet(more, e.k, last + 1) = e
  BY <1>3, MemGetWhich
<1> QED BY <1>1, <1>2, <1>4

LEMMA WriteReads ==
  ASSUME BaseInv, ReadInv, NEW k0 \in UserKeys, NEW t \in {kTypeValue, kTypeDeletion}, Write(k0, t)
  PROVE  ReadInv'
<1> DEFINE e == [k |-> k0, s |-> last_sequence + 1, t |-> t]
           last == last_sequence
           files == Current.files
           more == history \cup {e}
<1>1. /\ last < mode.writes /\ last_sequence' = last + 1 /\ mem' = mem \cup {e}
      /\ history' = Visible(more, last_sequence', snapshots)
      /\ UNCHANGED <<versions, current, compaction, snapshots>>
  BY DEF Write
<1>2. /\ last \in Nat /\ mode.writes \in Nat /\ mode.writes <= MaxWrites /\ MaxWrites \in Nat
      /\ WellKept(Kept) /\ \A o \in Kept : o.s <= last
  BY CurrentIs
<1>3. e.k = k0 /\ e.s = last + 1 /\ e \in Entries
  <2>1. last + 1 \in 1 .. MaxWrites
    BY <1>1, <1>2
  <2> QED BY <2>1 DEF Entries
<1>4. Current' = Current
  BY <1>1 DEF Current
<1>5. history \subseteq Entries /\ Distinct(history) /\ \A o \in history : o.s <= last
  BY DEF ReadInv, HistoryOK
<1> HIDE DEF e
<1>6. ASSUME NEW es, WellKept(es), \A o \in es : o.s <= last PROVE WellKept(es \cup {e})
  <2>1. \A o \in es : o.s \in Nat /\ o.s # e.s
    BY <1>2, <1>3, <1>6, EntryNumbers DEF WellKept
  <2> QED BY <1>3, <1>6, <2>1 DEF WellKept, Distinct
<1>7. WellKept(more) /\ WellKept(Kept \cup {e})
  BY <1>2, <1>5, <1>6 DEF WellKept
<1>8. history' \subseteq more /\ \A k \in UserKeys, s \in snapshots \cup {last + 1} : MemGet(history', k, s) = MemGet(more, k, s)
  <2> HIDE DEF more
  <2> QED BY <1>1, <1>7, VisibleSearch
<1>9. HistoryOK'
  <2>1. more \subseteq Entries /\ Distinct(more)
    BY <1>7 DEF WellKept
  <2>2. \A o \in more : o.s <= last + 1
    <3>1. \A o \in history : o.s \in Nat
      BY <1>5, EntryNumbers
    <3> QED BY <1>2, <1>3, <1>5, <3>1
  <2> HIDE DEF more
  <2> QED BY <1>1, <1>8, <2>1, <2>2 DEF HistoryOK, Distinct
<1>10. PointsOK'
  <2>1. snapshots \subseteq 0 .. last + 1
    BY <1>2 DEF ReadInv, PointsOK
  <2>2. ASSUME compaction # Idle PROVE compaction.smallest_snapshot \in Nat /\ \A s \in snapshots \cup {last + 1} : compaction.smallest_snapshot <= s
    <3>1. compaction.smallest_snapshot \in Nat /\ compaction.smallest_snapshot <= last /\ \A s \in snapshots : compaction.smallest_snapshot <= s
      BY <2>2 DEF ReadInv, PointsOK, ReadPoints
    <3> QED BY <1>2, <3>1
  <2> QED BY <1>1, <2>1, <2>2 DEF PointsOK, ReadPoints
<1>11. NewerThan(mem', EntriesIn(Current'.files))
  <2>1. \A o \in EntriesIn(files) : o.s \in Nat /\ o.s <= last
    BY <1>2, EntryNumbers DEF Kept, WellKept
  <2>2. NewerThan(mem, EntriesIn(files))
    BY DEF ReadInv
  <2>3. \A o \in EntriesIn(files) : e.s > o.s
    BY <1>2, <1>3, <2>1
  <2> QED BY <1>1, <1>4, <2>2, <2>3 DEF NewerThan
<1>12. ASSUME NEW k \in UserKeys, NEW s \in snapshots \cup {last + 1} PROVE ValueIn(MemGet(Kept \cup {e}, k, s)) = ValueIn(MemGet(history', k, s))
  <2>0. ASSUME NEW r \in ReadPoints PROVE ValueIn(MemGet(Kept, k, r)) = ValueIn(MemGet(history, k, r))
    BY DEF ReadInv, Agree, Kept
  <2>1. MemGet(history', k, s) = MemGet(more, k, s)
    BY <1>8
  <2>m. more = history \cup {e} /\ last = last_sequence
    OBVIOUS
  <2> HIDE DEF more, last
  <2> DEFINE both == Kept \cup {e}
  <2>b. both = Kept \cup {e} /\ WellKept(both)
    BY <1>7
  <2> HIDE DEF both
  <2>2. CASE s \in snapshots
    <3>1. s \in Nat /\ s <= last /\ s \in ReadPoints
      BY <1>2, <2>2 DEF ReadInv, PointsOK, ReadPoints, last
    <3>2. MemGet(both, k, s) = MemGet(Kept, k, s)
      BY <1>2, <1>3, <1>7, <2>b, <2>m, <3>1, SearchOneMore
    <3>3. MemGet(more, k, s) = MemGet(history, k, s)
      BY <1>2, <1>3, <1>5, <1>7, <2>b, <2>m, <3>1, SearchOneMore
    <3> QED BY <2>b, <2>0, <2>1, <3>1, <3>2, <3>3
  <2>3. CASE s = last + 1 /\ k # e.k
    <3>1. MemGet(both, k, last + 1) = MemGet(Kept, k, last)
      BY <1>2, <1>3, <1>7, <2>b, <2>m, <2>3, SearchOneMore
    <3>2. MemGet(more, k, last + 1) = MemGet(history, k, last)
      BY <1>2, <1>3, <1>5, <1>7, <2>b, <2>m, <2>3, SearchOneMore
    <3>3. last \in ReadPoints
      BY <2>m DEF ReadPoints
    <3> QED BY <2>b, <2>0, <2>1, <2>3, <3>1, <3>2, <3>3
  <2>4. CASE s = last + 1 /\ k = e.k
    <3>1. MemGet(both, k, last + 1) = e
      BY <1>2, <1>3, <1>7, <2>b, <2>m, <2>4, SearchOneMore
    <3>2. MemGet(more, k, last + 1) = e
      <4>1. WellKept(more) /\ (\A o \in history : o.s <= last) /\ e.s = last + 1 /\ last \in Nat /\ more = history \cup {e}
        BY <1>2, <1>3, <1>5, <1>7, <2>m
      <4>2. k = e.k => MemGet(more, k, last + 1) = e
        BY ONLY <4>1, SearchOneMore
      <4> QED BY <2>4, <4>2
    <3> QED BY <2>b, <2>1, <2>4, <3>1, <3>2
  <2> QED BY <2>2, <2>3, <2>4
<1>13. ASSUME NEW k \in UserKeys, NEW s \in ReadPoints' PROVE Agree(mem \cup EntriesIn(Current.files), k, s)'
  <2>1. mem' \cup EntriesIn(Current'.files) = Kept \cup {e}
    BY <1>1, <1>4 DEF Kept
  <2>2. s \in snapshots \cup {last + 1}
    BY <1>1 DEF ReadPoints
  <2>3. ValueIn(MemGet(mem' \cup EntriesIn(Current'.files), k, s)) = ValueIn(MemGet(history', k, s))
    BY <1>12, <2>1, <2>2
  <2> QED BY <2>3 DEF Agree
<1>14. /\ Layered(Current'.files)
       /\ compaction' # Idle => BesideInputs(compaction', Current'.files) /\ KeepsNewest(compaction', Current'.files)
  BY <1>1, <1>4 DEF ReadInv
<1> QED BY <1>9, <1>10, <1>11, <1>13, <1>14 DEF ReadInv

LEMMA ReadsStay ==
  ASSUME ReadInv, UNCHANGED <<last_sequence, mem, history, snapshots>>, Current'.files = Current.files,
         compaction' = compaction \/ compaction' = Idle
  PROVE  ReadInv'
<1>1. HistoryOK'
  BY DEF ReadInv, HistoryOK
<1>2. PointsOK'
  BY DEF ReadInv, PointsOK, ReadPoints
<1>3. ASSUME NEW k \in UserKeys, NEW s \in ReadPoints' PROVE Agree(mem \cup EntriesIn(Current.files), k, s)'
  <2>1. s \in ReadPoints
    BY DEF ReadPoints
  <2>2. ValueIn(MemGet(mem \cup EntriesIn(Current.files), k, s)) = ValueIn(MemGet(history, k, s))
    BY <2>1 DEF ReadInv, Agree
  <2>3. ValueIn(MemGet(mem' \cup EntriesIn(Current'.files), k, s)) = ValueIn(MemGet(history', k, s))
    BY <2>2
  <2> QED BY <2>3 DEF Agree
<1>4. Layered(Current'.files) /\ NewerThan(mem', EntriesIn(Current'.files))
  BY DEF ReadInv
<1>5. compaction' # Idle => BesideInputs(compaction', Current'.files) /\ KeepsNewest(compaction', Current'.files)
  BY DEF ReadInv
<1> QED BY <1>1, <1>2, <1>3, <1>4, <1>5 DEF ReadInv

LEMMA IteratorReads ==
  ASSUME BaseInv, BaseInv', ReadInv, NEW r \in Readers, NewIterator(r) \/ DeleteIterator(r)
  PROVE  ReadInv'
<1> PICK E : Stored(E, versions, next_file_number, compaction, pending_outputs)
  BY DEF BaseInv, KnownEntries
<1>1. /\ VersionsOK(versions, next_file_number, E) /\ current \in DOMAIN versions
      /\ reader[r] # 0 => reader[r] \in DOMAIN versions
  BY DEF BaseInv, AllCounted, Counted, Stored
<1>2. UNCHANGED <<last_sequence, mem, history, snapshots, current, compaction>>
  BY DEF NewIterator, DeleteIterator
<1>3. \A i \in DOMAIN versions' : i \in DOMAIN versions /\ versions'[i].files = versions[i].files
  <2>1. PICK id \in DOMAIN versions : versions' = Ref(versions, id) \/ versions' = Unref(versions, id)
    BY <1>1 DEF NewIterator, DeleteIterator
  <2>2. CASE versions' = Ref(versions, id)
    BY <1>1, <2>2, RefOK
  <2>3. CASE versions' = Unref(versions, id)
    BY <1>1, <2>3, UnrefOK
  <2> QED BY <2>1, <2>2, <2>3
<1>4. current' \in DOMAIN versions'
  BY DEF BaseInv, AllCounted, Counted
<1>5. Current'.files = Current.files
  BY <1>2, <1>3, <1>4 DEF Current
<1> QED BY <1>2, <1>5, ReadsStay

LEMMA StatsReads ==
  ASSUME BaseInv, ReadInv, NEW charge, UpdateStats(charge)
  PROVE  ReadInv'
<1>1. AreVersions(versions) /\ current \in DOMAIN versions
  BY CurrentIs
<1>2. /\ versions' = versions \/ versions' = [versions EXCEPT ![current].file_to_compact = charge]
      /\ UNCHANGED <<last_sequence, mem, history, snapshots, current, compaction>>
  BY DEF UpdateStats
<1>3. versions[current] = [files |-> versions[current].files, refs |-> versions[current].refs,
                           file_to_compact |-> versions[current].file_to_compact]
  BY <1>1 DEF AreVersions, IsVersion
<1>4. versions'[current].files = versions[current].files
  <2>1. CASE versions' = versions
    BY <2>1
  <2>2. CASE versions' = [versions EXCEPT ![current].file_to_compact = charge]
    <3>1. versions'[current] = [versions[current] EXCEPT !.file_to_compact = charge]
      BY <1>1, <2>2 DEF AreVersions
    <3>2. [versions[current] EXCEPT !.file_to_compact = charge].files = versions[current].files
      BY <1>3
    <3> QED BY <3>1, <3>2
  <2> QED BY <1>2, <2>1, <2>2
<1>5. Current'.files = Current.files
  BY <1>2, <1>4 DEF Current
<1> QED BY <1>2, <1>5, ReadsStay

LEMMA FailReads ==
  ASSUME BaseInv, BaseInv', ReadInv, FailCompaction
  PROVE  ReadInv'
<1> PICK E : Stored(E, versions, next_file_number, compaction, pending_outputs)
  BY DEF BaseInv, KnownEntries
<1>1. /\ compaction # Idle /\ versions' = Unref(versions, compaction.version) /\ compaction' = Idle
      /\ UNCHANGED <<last_sequence, mem, history, snapshots, current>>
  BY DEF FailCompaction
<1>2. VersionsOK(versions, next_file_number, E) /\ compaction.version \in DOMAIN versions
  BY <1>1 DEF Stored, WorkOK
<1>3. \A i \in DOMAIN versions' : i \in DOMAIN versions /\ versions'[i].files = versions[i].files
  BY <1>1, <1>2, UnrefOK
<1>4. current' \in DOMAIN versions'
  BY DEF BaseInv, AllCounted, Counted
<1>5. Current'.files = Current.files
  BY <1>1, <1>3, <1>4 DEF Current
<1> QED BY <1>1, <1>5, ReadsStay

(* Snapshots: a new one is at the last write, and a released one is asked   *)
(* for no more.                                                             *)
LEMMA SnapshotReads ==
  ASSUME BaseInv, ReadInv, GetSnapshot \/ (\E s \in snapshots : ReleaseSnapshot(s))
  PROVE  ReadInv'
<1>1. /\ UNCHANGED <<last_sequence, mem, versions, current, compaction>>
      /\ snapshots' \subseteq ReadPoints
      /\ history' = history \/ history' = Visible(history, last_sequence, snapshots')
  BY DEF GetSnapshot, ReleaseSnapshot, ReadPoints
<1>2. last_sequence \in Nat
  BY CurrentIs
<1>3. history \subseteq Entries /\ Distinct(history) /\ WellKept(history) /\ \A e \in history : e.s <= last_sequence
  BY DEF ReadInv, HistoryOK, WellKept
<1>4. /\ history' \subseteq history
      /\ \A k \in UserKeys, s \in snapshots' \cup {last_sequence} : MemGet(history', k, s) = MemGet(history, k, s)
  BY <1>1, <1>3, VisibleSearch
<1>5. HistoryOK'
  BY <1>1, <1>3, <1>4 DEF HistoryOK, Distinct
<1>6. ReadPoints' = snapshots' \cup {last_sequence} /\ ReadPoints' \subseteq ReadPoints
  BY <1>1 DEF ReadPoints
<1>7. PointsOK'
  <2>1. snapshots' \subseteq 0 .. last_sequence
    BY <1>1, <1>2 DEF ReadInv, PointsOK, ReadPoints
  <2> QED BY <1>1, <1>6, <2>1 DEF ReadInv, PointsOK
<1>8. Current' = Current
  BY <1>1 DEF Current
<1>9. ASSUME NEW k \in UserKeys, NEW s \in ReadPoints' PROVE Agree(mem \cup EntriesIn(Current.files), k, s)'
  <2>1. ValueIn(MemGet(mem \cup EntriesIn(Current.files), k, s)) = ValueIn(MemGet(history, k, s))
    BY <1>6 DEF ReadInv, Agree
  <2>2. MemGet(history', k, s) = MemGet(history, k, s)
    BY <1>4, <1>6
  <2>3. ValueIn(MemGet(mem' \cup EntriesIn(Current'.files), k, s)) = ValueIn(MemGet(history', k, s))
    BY <1>1, <1>8, <2>1, <2>2
  <2> QED BY <2>3 DEF Agree
<1>10. /\ Layered(Current'.files) /\ NewerThan(mem', EntriesIn(Current'.files))
       /\ compaction' # Idle => BesideInputs(compaction', Current'.files) /\ KeepsNewest(compaction', Current'.files)
  BY <1>1, <1>8 DEF ReadInv
<1> QED BY <1>5, <1>7, <1>9, <1>10 DEF ReadInv

(* A new version: its files are layered, and reads find the same. *)
SameReads(es) == \A k \in UserKeys, s \in ReadPoints : ValueIn(MemGet(es, k, s)) = ValueIn(MemGet(Kept, k, s))
LEMMA NewVersionReads ==
  ASSUME ReadInv, UNCHANGED <<last_sequence, history, snapshots>>, compaction' = compaction \/ compaction' = Idle,
         NEW files, Current'.files = files, Layered(files), NewerThan(mem', EntriesIn(files)),
         SameReads(mem' \cup EntriesIn(files)),
         compaction' # Idle => BesideInputs(compaction', files) /\ KeepsNewest(compaction', files)
  PROVE  ReadInv'
<1>1. HistoryOK'
  BY DEF ReadInv, HistoryOK
<1>2. PointsOK'
  BY DEF ReadInv, PointsOK, ReadPoints
<1>3. ASSUME NEW k \in UserKeys, NEW s \in ReadPoints' PROVE Agree(mem \cup EntriesIn(Current.files), k, s)'
  <2>1. s \in ReadPoints
    BY DEF ReadPoints
  <2>2. ValueIn(MemGet(Kept, k, s)) = ValueIn(MemGet(history, k, s))
    BY <2>1 DEF ReadInv, Agree, Kept
  <2>3. ValueIn(MemGet(mem' \cup EntriesIn(files), k, s)) = ValueIn(MemGet(Kept, k, s))
    BY <2>1 DEF SameReads
  <2>4. ValueIn(MemGet(mem' \cup EntriesIn(Current'.files), k, s)) = ValueIn(MemGet(history', k, s))
    BY <2>2, <2>3
  <2> QED BY <2>4 DEF Agree
<1>4. Layered(Current'.files) /\ NewerThan(mem', EntriesIn(Current'.files))
  OBVIOUS
<1>5. compaction' # Idle => BesideInputs(compaction', Current'.files) /\ KeepsNewest(compaction', Current'.files)
  OBVIOUS
<1> QED BY <1>1, <1>2, <1>3, <1>4, <1>5 DEF ReadInv

LEMMA NewCurrent ==
  ASSUME NEW vs, AreVersions(vs), NEW cur \in DOMAIN vs, NEW id, id = NewId(vs),
         NEW files, NEW ws, ws = Installed(vs, cur, id, NewVersion(files))
  PROVE  ws[id].files = files
<1> DEFINE v == NewVersion(files)
<1>1. id \in Nat \ {0} /\ id \notin DOMAIN vs
  BY NewIdIs DEF AreVersions
<1>2. IsVersion(v) /\ v.files = files
  BY DEF NewVersion, IsVersion
<1> HIDE DEF v
<1>3. SameFiles(ws[id], v)
  <2>1. ws = Installed(vs, cur, id, v)
    BY DEF v
  <2> QED BY <1>1, <1>2, <2>1, InstalledIs
<1> QED BY <1>2, <1>3 DEF SameFiles

LEMMA CompactMemTableReads ==
  ASSUME BaseInv, LevelInv, ReadInv, CompactMemTable
  PROVE  ReadInv'
<1> PICK E : WrittenOK(E, last_sequence, mem) /\ Stored(E, versions, next_file_number, compaction, pending_outputs)
  BY DEF BaseInv, KnownEntries
<1> DEFINE f == NewFile(next_file_number, mem)
           L == PickLevelForMemTableOutput(Current, f.smallest.k, f.largest.k)
           files == Edited(Current, {}, {<<L, f>>})
           c == compaction
<1>1. /\ mode \in Modes /\ next_file_number \in Nat \ {0} /\ AreVersions(versions) /\ current \in DOMAIN versions
      /\ FilesOK(Current.files, next_file_number)
  BY CurrentIs
<1>2. ASSUME NEW l \in Levels PROVE AreFiles(Current.files[l]) /\ \A g \in Current.files[l] : IsFile(g) /\ g.number < next_file_number
  <2>1. next_file_number \in Nat
    BY <1>1
  <2> QED BY <1>1, <2>1, LevelOK
<1>3. mem # {} /\ mem' = {} /\ UNCHANGED <<last_sequence, history, snapshots, compaction>>
  BY DEF CompactMemTable
<1>4. versions' = Installed(versions, current, current', NewVersion(files)) /\ current' = NewId(versions)
  <2>1. LogAndApply(versions, {}, {<<L, f>>})
    BY DEF CompactMemTable
  <2> HIDE DEF f, L
  <2> QED BY <2>1, Applied DEF Current
<1>5. IsFile(f) /\ f.number = next_file_number /\ f.data = mem
  BY <1>1, <1>3, NewFileIsFile DEF WrittenOK
<1>6. L \in Levels /\ (L # 0 => \A i \in 0 .. L : ~ OverlapInLevel(Current, i, f.smallest.k, f.largest.k))
  BY <1>1, PickedLevel
<1> HIDE DEF f, L
<1>7. Under(Current, L, f)
  <2> SUFFICES ASSUME L # 0, NEW i \in 0 .. L, NEW g \in Current.files[i] PROVE KeysApart(g.data, f.data)
    BY DEF Under
  <2>1. i \in Levels
    BY <1>6, LSMConstants DEF Levels
  <2>2. ~ OverlapInLevel(Current, i, f.smallest.k, f.largest.k)
    BY <1>6
  <2>3. Aside(g, f) /\ IsFile(g)
    BY <1>2, <1>5, <2>1, <2>2, AsideOfLevel
  <2> QED BY <1>5, <2>3, AsideKeys
<1>8. Layered(Current.files) /\ NewerThan(f.data, EntriesIn(Current.files))
  BY <1>5 DEF ReadInv
<1>9. Layered(files) /\ EntriesIn(files) = EntriesIn(Current.files) \cup f.data
  <2>1. 0 \in Levels /\ f.number \in Nat
    BY <1>1, <1>5, LSMConstants DEF Levels
  <2>2. \A g \in Current.files[0] : g.number \in Nat /\ g.number < f.number
    BY <1>2, <1>5, <2>1 DEF IsFile
  <2> QED BY <1>6, <1>7, <1>8, <2>1, <2>2, FlushedLayers
<1>10. ASSUME c # Idle PROVE BesideInputs(c, files) /\ KeepsNewest(c, files)
  <2>1. BesideInputs(c, Current.files) /\ KeepsNewest(c, Current.files)
    BY <1>10 DEF ReadInv
  <2>2. c.in0 \subseteq Current.files[c.level] /\ c.in1 \subseteq Current.files[c.level + 1]
    BY <1>10 DEF LevelInv, InputsHold
  <2>3. c.level \in Levels /\ c.level + 1 \in Levels
    BY <1>10, LSMConstants DEF Stored, WorkOK, Levels
  <2> HIDE DEF c
  <2> QED BY <1>6, <1>7, <1>8, <2>1, <2>2, <2>3, FlushedBeside
<1> HIDE DEF files
<1>11. Current'.files = files
  BY <1>1, <1>4, NewCurrent DEF Current
<1>12. NewerThan(mem', EntriesIn(files)) /\ SameReads(mem' \cup EntriesIn(files))
  <2>1. mem' \cup EntriesIn(files) = Kept
    BY <1>3, <1>5, <1>9 DEF Kept
  <2> QED BY <1>3, <2>1 DEF NewerThan, SameReads
<1> QED BY <1>3, <1>9, <1>10, <1>11, <1>12, NewVersionReads

LEMMA TrivialMoveReads ==
  ASSUME BaseInv, ReadInv, NEW c, InputsOK(Current, c), IsTrivialMove(c), compaction = Idle, TrivialMove(c)
  PROVE  ReadInv'
<1> PICK E : WrittenOK(E, last_sequence, mem) /\ Stored(E, versions, next_file_number, compaction, pending_outputs)
  BY DEF BaseInv, KnownEntries
<1> PICK f \in c.in0 : LogAndApply(versions, {<<c.level, f.number>>}, {<<c.level + 1, f>>})
  BY DEF TrivialMove
<1> DEFINE files == Edited(Current, {<<c.level, f.number>>}, {<<c.level + 1, f>>})
<1>1. /\ next_file_number \in Nat /\ AreVersions(versions) /\ current \in DOMAIN versions
      /\ FilesOK(Current.files, next_file_number) /\ VersionOK(Current, next_file_number, E)
  BY CurrentIs DEF Stored, VersionsOK, Current
<1>2. c.in1 = {} /\ c.in0 = {f}
  <2>1. Cardinality(c.in0) = 1 /\ c.in1 = {}
    BY DEF IsTrivialMove
  <2>2. IsFiniteSet(c.in0)
    <3>1. c.level \in Levels /\ c.in0 \subseteq Current.files[c.level]
      BY <1>1, InputsAre
    <3>2. IsFiniteSet(Current.files[c.level])
      BY <1>1, <3>1, LevelOK
    <3> QED BY <3>1, <3>2, FS_Subset
  <2>3. PICK x : c.in0 = {x}
    BY <2>1, <2>2, FS_Singleton
  <2> QED BY <2>1, <2>3
<1>3. versions' = Installed(versions, current, current', NewVersion(files)) /\ current' = NewId(versions)
  BY Applied DEF Current
<1>4. Layered(Current.files) /\ NewerThan(mem, EntriesIn(Current.files))
  BY DEF ReadInv
<1>5. InputsIn(Current, c) /\ BesideInputs(c, Current.files)
  BY <1>1, <1>4, InputsBeside
<1>6. Replaced(Current, c, files, {f}) /\ EntriesIn(files) = EntriesIn(Current.files)
  BY <1>1, <1>2, <1>5, MoveReplaces
<1> HIDE DEF files
<1>7. Layered(files)
  <2> PICK news : news = {f}
    OBVIOUS
  <2>1. \A o \in news : o.data \subseteq InputOf(c)
    BY DEF InputOf
  <2>2. \A o, p \in news : o = p \/ KeysApart(o.data, p.data)
    OBVIOUS
  <2>3. Replaced(Current, c, files, news)
    BY <1>6
  <2> QED BY <1>4, <1>5, <2>1, <2>2, <2>3, ReplacedLayers
<1>8. Current'.files = files
  BY <1>1, <1>3, NewCurrent DEF Current
<1>9. UNCHANGED <<last_sequence, mem, history, snapshots>> /\ compaction' = Idle
  BY DEF TrivialMove
<1>10. NewerThan(mem', EntriesIn(files)) /\ SameReads(mem' \cup EntriesIn(files))
  <2>1. mem' \cup EntriesIn(files) = Kept
    BY <1>6, <1>9 DEF Kept
  <2> QED BY <1>4, <1>6, <1>9, <2>1 DEF SameReads
<1> QED BY <1>7, <1>8, <1>9, <1>10, NewVersionReads

LEMMA SmallestIs ==
  ASSUME BaseInv, ReadInv
  PROVE  SmallestSnapshot \in Nat /\ \A s \in ReadPoints : SmallestSnapshot <= s
<1>1. last_sequence \in Nat /\ snapshots \subseteq 0 .. last_sequence
  BY CurrentIs DEF ReadInv, PointsOK
<1>2. CASE snapshots = {}
  BY <1>1, <1>2 DEF SmallestSnapshot, ReadPoints
<1>3. CASE snapshots # {}
  <2>1. snapshots \subseteq Nat
    BY <1>1
  <2>2. PICK x \in snapshots : \A y \in snapshots : x <= y
    BY <1>3, <2>1, LeastNatural
  <2>3. Min(snapshots) \in snapshots /\ \A y \in snapshots : Min(snapshots) <= y
    BY <2>2 DEF Min
  <2>4. SmallestSnapshot = Min(snapshots)
    BY <1>3 DEF SmallestSnapshot
  <2> HIDE DEF Min
  <2>5. SmallestSnapshot \in 0 .. last_sequence /\ \A y \in snapshots : SmallestSnapshot <= y
    BY <1>1, <2>3, <2>4
  <2> QED BY <1>1, <2>5 DEF ReadPoints
<1> QED BY <1>2, <1>3

LEMMA StartWorkReads ==
  ASSUME BaseInv, ReadInv, NEW c, InputsOK(Current, c), compaction = Idle, StartWork(c)
  PROVE  ReadInv'
<1> PICK E : WrittenOK(E, last_sequence, mem) /\ Stored(E, versions, next_file_number, compaction, pending_outputs)
  BY DEF BaseInv, KnownEntries
<1> DEFINE d == Started(c)
           data == Outputs(Current, d)
           outs == OutputFiles(data)
           new == compaction'
<1>1. /\ next_file_number \in Nat \ {0} /\ next_file_number \in Nat /\ VersionsOK(versions, next_file_number, E)
      /\ current \in DOMAIN versions
      /\ FilesOK(Current.files, next_file_number) /\ VersionOK(Current, next_file_number, E)
      /\ E \subseteq Entries /\ Distinct(E)
  BY CurrentIs DEF Stored, VersionsOK, WrittenOK, Current
<1>2. SmallestSnapshot \in Nat /\ \A s \in ReadPoints : SmallestSnapshot <= s
  BY SmallestIs
<1>3. d.level = c.level /\ d.in0 = c.in0 /\ d.in1 = c.in1 /\ d.smallest_snapshot = SmallestSnapshot
  BY DEF Started
<1>4. FilesFrom(outs, next_file_number, data)
  BY DEF OutputFiles, FilesFrom
<1>5. /\ new = [level |-> c.level, in0 |-> c.in0, in1 |-> c.in1, grandparents |-> c.grandparents,
                version |-> current, smallest_snapshot |-> SmallestSnapshot, outs |-> outs]
      /\ versions' = Ref(versions, current) /\ current' = current
  BY StartWorkIs
<1>6. UNCHANGED <<last_sequence, mem, history, snapshots>>
  BY DEF StartWork
<1> HIDE DEF d, new
<1>7. InputOf(c) \subseteq E /\ InOrder(data, InputOf(c)) /\ KeptRight(Current, d, InputOf(c), InputOf(c), AllOf(data))
  BY <1>1, <1>2, <1>3, StartedOutputs
<1> HIDE DEF data, outs
<1>8. DOMAIN outs = 1 .. Len(data) /\ OutputsFit(outs, next_file_number, data, InputOf(c))
  <2>1. InputOf(c) \subseteq Entries
    BY <1>1, <1>7
  <2> QED BY ONLY <1>1, <1>4, <1>7, <2>1, OutputFilesAre
<1>9. /\ new.level = c.level /\ new.in0 = c.in0 /\ new.in1 = c.in1 /\ new.outs = outs
      /\ new.smallest_snapshot = SmallestSnapshot
  BY <1>5
<1>10. OutOf(new) = AllOf(data) /\ InputOf(new) = InputOf(c)
  <2>1. \A i \in 1 .. Len(data) : outs[i].data = data[i]
    BY <1>8 DEF OutputsFit
  <2>2. OutOf(new) = UNION {outs[i].data : i \in 1 .. Len(data)}
    BY <1>8, <1>9 DEF OutOf
  <2>3. {outs[i].data : i \in 1 .. Len(data)} = {data[i] : i \in 1 .. Len(data)}
    BY <2>1
  <2> QED BY <1>9, <2>2, <2>3 DEF AllOf, InputOf
<1>11. KeepsNewest(new, Current.files)
  <2>1. c.level \in 0 .. kNumLevels - 2
    BY DEF InputsOK
  <2>2. WellKept(InputOf(new))
    BY <1>1, <1>7, <1>10 DEF WellKept, Distinct
  <2>3. KeptRight(Current, d, InputOf(new), InputOf(new), OutOf(new))
    BY <1>7, <1>10
  <2>4. new.level \in 0 .. kNumLevels - 2 /\ d.level = new.level /\ d.smallest_snapshot = new.smallest_snapshot
    BY <1>3, <1>9, <2>1
  <2>5. new.smallest_snapshot \in Nat
    BY <1>2, <1>9
  <2> QED BY ONLY <1>1, <2>2, <2>3, <2>4, <2>5, OutputsKeepNewest
<1>12. BesideInputs(new, Current.files)
  <2>1. BesideInputs(c, Current.files)
    BY <1>1, InputsBeside DEF ReadInv
  <2> QED BY <1>9, <2>1 DEF BesideInputs
<1>13. Current'.files = Current.files
  BY <1>1, <1>5, RefOK DEF Current
<1>14. HistoryOK' /\ Layered(Current'.files) /\ NewerThan(mem', EntriesIn(Current'.files))
  BY <1>6, <1>13 DEF ReadInv, HistoryOK
<1>15. PointsOK'
  <2>1. ReadPoints' = ReadPoints
    BY <1>6 DEF ReadPoints
  <2>2. snapshots' \subseteq 0 .. last_sequence'
    BY <1>6 DEF ReadInv, PointsOK
  <2> QED BY <1>2, <1>9, <2>1, <2>2 DEF PointsOK, new
<1>16. ASSUME NEW k \in UserKeys, NEW s \in ReadPoints' PROVE Agree(mem \cup EntriesIn(Current.files), k, s)'
  <2>1. s \in ReadPoints
    BY <1>6 DEF ReadPoints
  <2>2. ValueIn(MemGet(mem \cup EntriesIn(Current.files), k, s)) = ValueIn(MemGet(history, k, s))
    BY <2>1 DEF ReadInv, Agree
  <2>3. ValueIn(MemGet(mem' \cup EntriesIn(Current'.files), k, s)) = ValueIn(MemGet(history', k, s))
    BY <1>6, <1>13, <2>2
  <2> QED BY <2>3 DEF Agree
<1>17. BesideInputs(compaction', Current'.files) /\ KeepsNewest(compaction', Current'.files)
  BY <1>11, <1>12, <1>13 DEF new
<1> QED BY <1>14, <1>15, <1>16, <1>17 DEF ReadInv

LEMMA InstallReads ==
  ASSUME BaseInv, LevelInv, ReadInv, KeysTogether, InstallCompactionResults
  PROVE  ReadInv'
<1> PICK E : WrittenOK(E, last_sequence, mem) /\ Stored(E, versions, next_file_number, compaction, pending_outputs)
  BY DEF BaseInv, KnownEntries
<1> DEFINE c == compaction
           vs == Unref(versions, c.version)
           v == vs[current]
           files == Edited(v, InputDeletions(c), OutsAdded(c))
           news == {c.outs[i] : i \in DOMAIN c.outs}
           next == next_file_number
<1>1. c # Idle /\ LogAndApply(vs, InputDeletions(c), OutsAdded(c)) /\ compaction' = Idle
  BY DEF InstallCompactionResults, OutsAdded
<1>2. UNCHANGED <<last_sequence, mem, history, snapshots>>
  BY DEF InstallCompactionResults
<1>3. /\ VersionsOK(versions, next, E) /\ AreVersions(versions) /\ WorkOK(c, versions, next, pending_outputs, E)
      /\ Counted(versions, reader, current, VersionOf(c)) /\ next \in Nat
  BY <1>1 DEF Stored, VersionsOK, BaseInv, Scalars, AllCounted
<1>4. VersionOf(c) = c.version /\ c.version # 0 /\ c.version \in DOMAIN versions
  BY <1>1, <1>3, HeldVersion DEF WorkOK
<1>5. current \in DOMAIN vs
  <2>1. Counted(vs, reader, current, 0)
    BY <1>3, <1>4, EndCounted
  <2> QED BY <2>1 DEF Counted
<1>6. VersionsOK(vs, next, E) /\ \A i \in DOMAIN vs : vs[i].files = versions[i].files
  BY <1>3, <1>4, UnrefOK
<1>7. versions' = Installed(vs, current, current', NewVersion(files)) /\ current' = NewId(vs)
  BY <1>1, Applied
<1> HIDE DEF vs
<1>8. AreVersions(vs) /\ v.files = Current.files
  BY <1>5, <1>6 DEF VersionsOK, Current
<1> HIDE DEF v
<1>9. /\ FilesOK(v.files, next) /\ WellKept(mem \cup EntriesIn(v.files)) /\ last_sequence \in Nat /\ last_sequence <= MaxWrites
      /\ MaxWrites \in Nat
  <2>1. /\ FilesOK(Current.files, next) /\ WellKept(Kept) /\ last_sequence \in Nat /\ last_sequence <= mode.writes
        /\ mode.writes \in Nat /\ mode.writes <= MaxWrites /\ MaxWrites \in Nat
    BY CurrentIs
  <2>2. last_sequence <= MaxWrites
    BY <2>1
  <2> QED BY <1>8, <2>1, <2>2 DEF Kept
<1>10. /\ Layered(v.files) /\ NewerThan(mem, EntriesIn(v.files))
       /\ BesideInputs(c, v.files) /\ KeepsNewest(c, v.files)
  BY <1>1, <1>8 DEF ReadInv
<1>11. InputsIn(v, c)
  <2>1. c.level \in 0 .. kNumLevels - 2
    BY <1>3 DEF WorkOK
  <2>2. c.level \in Levels /\ c.level + 1 \in Levels
    BY <2>1, LSMConstants DEF Levels
  <2> QED BY <1>1, <1>8, <2>2 DEF LevelInv, InputsHold, InputsIn
<1>12. \A i \in DOMAIN c.outs : c.outs[i].data \subseteq InputOf(c)
  BY <1>1 DEF LevelInv, OutsHold
<1>13. \A s \in ReadPoints : s \in 0 .. MaxWrites /\ c.smallest_snapshot <= s
  BY <1>1, <1>9 DEF ReadInv, PointsOK, ReadPoints
<1>14. \A i, j \in DOMAIN c.outs : i # j => KeysApart(c.outs[i].data, c.outs[j].data)
  BY <1>1 DEF KeysTogether
<1> HIDE DEF c
<1>15. Replaced(v, c, files, news)
  BY <1>3, <1>9, <1>11, InstallReplaces
<1>16. OutOf(c) = AllData(news) /\ OutOf(c) \subseteq InputOf(c)
  BY <1>12 DEF OutOf, AllData
<1>17. \A o \in news : o.data \subseteq InputOf(c)
  BY <1>12
<1>18. \A o, p \in news : o = p \/ KeysApart(o.data, p.data)
  BY <1>14
<1> HIDE DEF files, news
<1>19. Layered(files)
  BY <1>10, <1>11, <1>15, <1>17, <1>18, ReplacedLayers
<1>20. ASSUME NEW k \in UserKeys, NEW s \in ReadPoints
       PROVE  SameFound(mem, files, v.files, k, s)
  <2>1. ReadAfter(c, s)
    BY <1>13 DEF ReadAfter
  <2>2. AllKnown(mem, v)
    BY <1>9, <1>10 DEF AllKnown
  <2> QED BY ONLY <1>10, <1>11, <1>15, <1>16, <2>1, <2>2, ReplacedSearch
<1>21. SameReads(mem' \cup EntriesIn(files))
  BY <1>2, <1>8, <1>20 DEF SameReads, Kept, SameFound
<1>22. NewerThan(mem', EntriesIn(files))
  <2>1. EntriesIn(files) \subseteq EntriesIn(v.files)
    <3> SUFFICES ASSUME NEW l \in Levels, NEW g \in files[l], NEW e \in g.data PROVE e \in EntriesIn(v.files)
      BY EntriesInIs
    <3>1. CASE g \in v.files[l]
      BY <3>1, EntriesInIs
    <3>2. CASE g \in news
      <4>1. PICK h \in c.in0 \cup c.in1 : e \in h.data
        BY <1>17, <3>2 DEF InputOf
      <4>2. h \in v.files[c.level] \/ h \in v.files[c.level + 1]
        BY <1>11 DEF InputsIn
      <4> QED BY <1>11, <4>1, <4>2, EntriesInIs DEF InputsIn
    <3> QED BY <1>15, <3>1, <3>2 DEF Replaced, Stays
  <2> QED BY <1>2, <1>10, <2>1 DEF NewerThan
<1>23. Current'.files = files
  BY <1>5, <1>7, <1>8, NewCurrent DEF Current
<1> QED BY <1>1, <1>2, <1>19, <1>21, <1>22, <1>23, NewVersionReads

LEMMA ReadInvReads ==
  ASSUME BaseInv, LevelInv, ReadInv
  PROVE  ReadsFindNewest
<1> SUFFICES ASSUME NEW k \in UserKeys, NEW s \in snapshots \cup {last_sequence} PROVE Read(k, s) = Expected(k, s)
  BY DEF ReadsFindNewest
<1> DEFINE es == EntriesIn(Current.files)
<1>1. /\ next_file_number \in Nat /\ current \in DOMAIN versions /\ FilesOK(Current.files, next_file_number)
      /\ WellKept(mem \cup es) /\ last_sequence \in Nat
  BY CurrentIs DEF Kept
<1>2. k \in Nat /\ s \in Nat /\ s \in ReadPoints
  BY <1>1, KeysAreNatural DEF ReadInv, PointsOK, ReadPoints
<1>3. LevelsApart(Current.files) /\ Layered(Current.files) /\ NewerThan(mem, es)
  BY <1>1 DEF LevelInv, ReadInv, Current
<1>4. WellKept(es)
  BY <1>1 DEF WellKept, Distinct
<1>5. VersionGet(Current, k, s).entry = MemGet(es, k, s)
  BY <1>1, <1>2, <1>3, <1>4, VersionGetIs
<1>6. ValueIn(MemGet(mem \cup es, k, s)) = Expected(k, s)
  BY <1>2 DEF ReadInv, Agree, Expected
<1> HIDE DEF es
<1>7. MemGet(mem \cup es, k, s) = IF MemGet(mem, k, s) # NoEntry THEN MemGet(mem, k, s) ELSE MemGet(es, k, s)
  BY <1>1, <1>3, NewerFirst
<1> QED BY <1>5, <1>6, <1>7 DEF Read

LEMMA InitReads ==
  ASSUME Init
  PROVE  ReadInv
<1>1. /\ last_sequence = 0 /\ mem = {} /\ history = {} /\ compaction = Idle /\ snapshots = {}
      /\ versions = [i \in {1} |-> EmptyVersion] /\ current = 1
  BY DEF Init
<1>2. Current.files = [l \in Levels |-> {}]
  BY <1>1 DEF Current, EmptyVersion
<1>3. \A l \in Levels : Current.files[l] = {}
  BY <1>2
<1>4. EntriesIn(Current.files) = {}
  BY <1>3, EntriesInIs
<1>5. Layered(Current.files)
  <2>1. 0 \in Levels
    BY LSMConstants DEF Levels
  <2> QED BY <1>3, <2>1 DEF Layered
<1>6. HistoryOK
  BY <1>1 DEF HistoryOK, Distinct
<1>7. PointsOK
  BY <1>1 DEF PointsOK
<1>8. ASSUME NEW k \in UserKeys, NEW s \in ReadPoints PROVE Agree(mem \cup EntriesIn(Current.files), k, s)
  <2>1. mem \cup EntriesIn(Current.files) = history
    BY <1>1, <1>4
  <2> QED BY <2>1 DEF Agree
<1>9. NewerThan(mem, EntriesIn(Current.files))
  BY <1>1 DEF NewerThan
<1> QED BY <1>1, <1>5, <1>6, <1>7, <1>8, <1>9 DEF ReadInv

LEMMA NextReads ==
  ASSUME BaseInv, BaseInv', LevelInv, ReadInv, KeysTogether, [Next]_vars
  PROVE  ReadInv'
<1>1. CASE UNCHANGED vars
  <2>1. UNCHANGED <<last_sequence, mem, history, snapshots, compaction>> /\ Current' = Current
    BY <1>1 DEF vars, Current
  <2> QED BY <2>1, ReadsStay
<1>2. CASE \E k \in UserKeys, t \in {kTypeValue, kTypeDeletion} : Write(k, t)
  BY <1>2, WriteReads
<1>3. CASE GetSnapshot
  BY <1>3, SnapshotReads
<1>4. CASE \E s \in snapshots : ReleaseSnapshot(s)
  BY <1>4, SnapshotReads
<1>5. CASE \E r \in Readers : NewIterator(r) \/ DeleteIterator(r)
  BY <1>5, IteratorReads
<1>6. CASE \/ \E k \in UserKeys, s \in snapshots \cup {last_sequence} : Get(k, s)
           \/ \E k \in UserKeys : RecordReadSample(k)
  BY <1>6, StatsReads DEF Get, RecordReadSample
<1>7. CASE CompactMemTable
  BY <1>7, CompactMemTableReads
<1>8. CASE AutomaticMove
  <2>1. /\ NeedsCompaction /\ compaction = Idle /\ IsTrivialMove(PickCompaction(Current))
        /\ TrivialMove(PickCompaction(Current))
    BY <1>8 DEF AutomaticMove, Free
  <2> QED BY <2>1, PickedInputs, TrivialMoveReads
<1>9. CASE AutomaticCompaction
  <2>1. NeedsCompaction /\ compaction = Idle /\ StartWork(PickCompaction(Current))
    BY <1>9 DEF AutomaticCompaction, Free
  <2> QED BY <2>1, PickedInputs, StartWorkReads
<1>10. CASE \E level \in 0 .. kNumLevels - 2, lo, hi \in UserKeys : ManualCompaction(level, lo, hi)
  <2>1. PICK level \in 0 .. kNumLevels - 2, lo \in UserKeys, hi \in UserKeys : ManualCompaction(level, lo, hi)
    BY <1>10
  <2>2. /\ compaction = Idle /\ GetOverlappingInputs(Current, level, lo, hi) # {}
        /\ StartWork(CompactRange(Current, level, lo, hi))
    BY <2>1 DEF ManualCompaction, Free
  <2> QED BY <2>2, ManualInputs, StartWorkReads
<1>11. CASE InstallCompactionResults
  BY <1>11, InstallReads
<1>12. CASE FailCompaction
  BY <1>12, FailReads
<1> QED BY <1>1, <1>2, <1>3, <1>4, <1>5, <1>6, <1>7, <1>8, <1>9, <1>10, <1>11, <1>12 DEF Next

(* A read finds the newest visible write, now and at every snapshot that is  *)
(* held, however writes, flushes, moves and compactions interleave with it   *)
(* (Version::Get, SaveValue, DoCompactionWork): provided no compaction cuts  *)
(* its output between two versions of one user key.  A later compaction may  *)
(* take the file of the newer one down and leave the older one above it.     *)
THEOREM ReadsAreNewest ==
  ASSUME NoManualDuringFlushes
  PROVE  Spec /\ []KeysTogether => []ReadsFindNewest
<1>1. Init => ReadInv
  BY InitReads
<1>2. BaseInv /\ BaseInv' /\ LevelInv /\ ReadInv /\ KeysTogether /\ [Next]_vars => ReadInv'
  BY NextReads
<1>3. BaseInv /\ LevelInv /\ ReadInv => ReadsFindNewest
  BY ReadInvReads
<1> QED BY <1>1, <1>2, <1>3, BaseHolds, LevelHolds, PTL DEF Spec

-----------------------------------------------------------------------------
(* Without snapshots a compaction keeps one version of a key at most. *)
NoSnapshots == \A m \in Modes : "snapshots" \notin m.uses
OneVersion == snapshots = {} /\ KeysTogether

LEMMA StartWorkTogether ==
  ASSUME BaseInv, snapshots = {}, NEW c, InputsOK(Current, c), StartWork(c)
  PROVE  KeysTogether'
<1> PICK E : WrittenOK(E, last_sequence, mem) /\ Stored(E, versions, next_file_number, compaction, pending_outputs)
  BY DEF BaseInv, KnownEntries
<1> DEFINE d == Started(c)
           data == Outputs(Current, d)
           outs == OutputFiles(data)
           input == InputOf(c)
<1>1. /\ next_file_number \in Nat \ {0} /\ next_file_number \in Nat /\ VersionOK(Current, next_file_number, E)
      /\ E \subseteq Entries /\ Distinct(E) /\ last_sequence \in Nat /\ \A e \in E : e.s <= last_sequence
  BY CurrentIs DEF Stored, VersionsOK, WrittenOK, Current
<1>2. d.in0 = c.in0 /\ d.in1 = c.in1 /\ d.smallest_snapshot = last_sequence
  BY DEF Started, SmallestSnapshot
<1>3. FilesFrom(outs, next_file_number, data)
  BY DEF OutputFiles, FilesFrom
<1>4. compaction'.outs = outs
  BY StartWorkIs
<1> HIDE DEF d
<1>5. input \subseteq E /\ InOrder(data, input) /\ KeptRight(Current, d, input, input, AllOf(data))
  BY <1>1, <1>2, StartedOutputs
<1> HIDE DEF data, outs, input
<1>6. DOMAIN outs = 1 .. Len(data) /\ OutputsFit(outs, next_file_number, data, input)
  <2>1. input \subseteq Entries
    BY <1>1, <1>5
  <2> QED BY ONLY <1>1, <1>3, <1>5, <2>1, OutputFilesAre
<1>7. /\ \A i \in 1 .. Len(data) : outs[i].data = data[i] /\ data[i] \subseteq input /\ data[i] \subseteq AllOf(data)
      /\ \A i, j \in 1 .. Len(data) : i < j => Ahead(data[i], data[j])
  BY <1>5, <1>6 DEF OutputsFit, AllOf, InOrder
<1>8. ASSUME NEW a \in AllOf(data), NEW b \in input, b.k = a.k, b.s > a.s PROVE FALSE
  <2>1. b.s > last_sequence
    BY <1>2, <1>5, <1>8 DEF KeptRight
  <2>2. b.s <= last_sequence /\ b.s \in Nat
    BY <1>1, <1>5, EntryNumbers
  <2> QED BY <1>1, <2>1, <2>2
<1>9. ASSUME NEW i \in 1 .. Len(data), NEW j \in 1 .. Len(data), i < j PROVE KeysApart(data[i], data[j]) /\ KeysApart(data[j], data[i])
  <2> SUFFICES ASSUME NEW a \in data[i], NEW b \in data[j], a.k = b.k PROVE FALSE
    BY DEF KeysApart
  <2>1. Before(a, b)
    BY <1>7, <1>9 DEF Ahead
  <2>2. a \in input /\ b \in AllOf(data) /\ a \in Entries /\ b \in Entries
    BY <1>1, <1>5, <1>7
  <2>3. a.k \in Nat /\ b.k \in Nat
    BY <2>2, EntryNumbers
  <2>4. a.s > b.s
    BY <2>1, <2>3 DEF Before
  <2> QED BY <1>8, <2>2, <2>4
<1>10. ASSUME NEW i \in DOMAIN outs, NEW j \in DOMAIN outs, i # j PROVE KeysApart(outs[i].data, outs[j].data)
  <2>1. i \in 1 .. Len(data) /\ j \in 1 .. Len(data) /\ i \in Int /\ j \in Int
    BY <1>6
  <2>2. i < j \/ j < i
    BY <1>10, <2>1
  <2> QED BY <1>7, <1>9, <2>1, <2>2
<1> QED BY <1>4, <1>10 DEF KeysTogether

LEMMA NextOneVersion ==
  ASSUME NoSnapshots, BaseInv, OneVersion, [Next]_vars
  PROVE  OneVersion'
<1>0. ASSUME snapshots' = {}, compaction' = compaction \/ compaction' = Idle PROVE OneVersion'
  BY <1>0 DEF OneVersion, KeysTogether
<1>1. CASE UNCHANGED vars
  BY <1>0, <1>1 DEF vars, OneVersion
<1>2. CASE \E k \in UserKeys, t \in {kTypeValue, kTypeDeletion} : Write(k, t)
  BY <1>0, <1>2 DEF Write, OneVersion
<1>3. CASE GetSnapshot
  BY <1>3 DEF GetSnapshot, Uses, NoSnapshots, BaseInv, Scalars
<1>4. CASE \E s \in snapshots : ReleaseSnapshot(s)
  BY <1>4 DEF OneVersion
<1>5. CASE \E r \in Readers : NewIterator(r) \/ DeleteIterator(r)
  BY <1>0, <1>5 DEF NewIterator, DeleteIterator, OneVersion
<1>6. CASE \/ \E k \in UserKeys, s \in snapshots \cup {last_sequence} : Get(k, s)
           \/ \E k \in UserKeys : RecordReadSample(k)
  BY <1>0, <1>6 DEF Get, RecordReadSample, UpdateStats, OneVersion
<1>7. CASE CompactMemTable
  BY <1>0, <1>7 DEF CompactMemTable, OneVersion
<1>8. CASE AutomaticMove
  BY <1>0, <1>8 DEF AutomaticMove, TrivialMove, OneVersion
<1>9. CASE AutomaticCompaction
  <2>1. NeedsCompaction /\ StartWork(PickCompaction(Current))
    BY <1>9 DEF AutomaticCompaction, Free
  <2>2. snapshots = {} /\ snapshots' = {}
    BY <2>1 DEF StartWork, OneVersion
  <2> QED BY <2>1, <2>2, PickedInputs, StartWorkTogether DEF OneVersion
<1>10. CASE \E level \in 0 .. kNumLevels - 2, lo, hi \in UserKeys : ManualCompaction(level, lo, hi)
  <2>1. PICK level \in 0 .. kNumLevels - 2, lo \in UserKeys, hi \in UserKeys : ManualCompaction(level, lo, hi)
    BY <1>10
  <2>2. GetOverlappingInputs(Current, level, lo, hi) # {} /\ StartWork(CompactRange(Current, level, lo, hi))
    BY <2>1 DEF ManualCompaction, Free
  <2>3. snapshots = {} /\ snapshots' = {}
    BY <2>2 DEF StartWork, OneVersion
  <2> QED BY <2>2, <2>3, ManualInputs, StartWorkTogether DEF OneVersion
<1>11. CASE InstallCompactionResults
  BY <1>0, <1>11 DEF InstallCompactionResults, OneVersion
<1>12. CASE FailCompaction
  BY <1>0, <1>12 DEF FailCompaction, OneVersion
<1> QED BY <1>1, <1>2, <1>3, <1>4, <1>5, <1>6, <1>7, <1>8, <1>9, <1>10, <1>11, <1>12 DEF Next

(* A database that takes no snapshots, as the application does not           *)
(* (DB.getSnapshot has no caller): of the versions of a key DoCompactionWork *)
(* keeps at most the newest, no output can be cut between two of them, and   *)
(* every read finds the newest write.                                        *)
THEOREM ReadsWithoutSnapshots ==
  ASSUME NoManualDuringFlushes, NoSnapshots
  PROVE  Spec => []ReadsFindNewest
<1>1. Init => OneVersion
  BY DEF Init, OneVersion, KeysTogether
<1>2. BaseInv /\ OneVersion /\ [Next]_vars => OneVersion'
  BY NextOneVersion
<1>3. OneVersion => KeysTogether
  BY DEF OneVersion
<1> QED BY <1>1, <1>2, <1>3, BaseHolds, ReadsAreNewest, PTL DEF Spec
=============================================================================
