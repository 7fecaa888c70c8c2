--------------------------- MODULE NativeDBProofs ---------------------------
(***************************************************************************)
(* Proofs about the wrappers of the native objects: for any number of      *)
(* threads, iterators, snapshots and batches, no native function is given  *)
(* a pointer that is 0 or freed, the reference counts are the holders, and *)
(* a destroy() takes effect.                                               *)
(***************************************************************************)
EXTENDS NativeDB, FiniteSetTheorems, SequenceTheorems, TLAPS

-----------------------------------------------------------------------------
(***************************************************************************)
(* What a thread still has to do.                                          *)
(***************************************************************************)
Has(q, x) == \E k \in 1 .. Len(q) : q[k] = x

Wrappers == Iters \cup Snaps

(* The steps by their initials: assertOpen, ref, unref, free, clear, create. *)
aO(o) == Op("assertOpen", o)
rf(o) == Op("ref", o)
un(o) == Op("unref", o)
fr(o) == Op("free", o)
cl(o) == Op("clear", o)
mk(o) == Op("create", o)

(* What is passed to a native method of the database by its pointer. *)
Passed == Batches \cup Snaps

(* The calls on an open object. *)
CallShape(q) ==
    \/ q \in {<<>>, <<aO(Db), Op("call", Db)>>, <<Op("call", Db)>>, <<Op("destroyIfClosed", Db)>>}
    \/ \E i \in Iters : q \in {<<aO(i), Op("iterCall", i)>>, <<Op("iterCall", i)>>}
    \/ \E b \in Batches : q \in {<<aO(b), Op("batchCall", b)>>, <<Op("batchCall", b)>>}
    \/ \E b \in Passed : q \in {<<aO(Db), Op("callWith", b)>>, <<Op("callWith", b)>>}
    \/ \E o \in Objects : q \in {<<Op("close", o)>>, <<un(o)>>}

(* iterator() and getSnapshot() *)
MakeShape(q) ==
    \/ \E d \in Wrappers : q = <<mk(d)>>
    \/ \E d \in Wrappers : /\ d \in Iters => source[d] = None
                           /\ q \in {<<aO(Db), rf(Db), mk(d)>>, <<rf(Db), mk(d)>>}
    \/ \E i \in Iters : /\ source[i] # None
                        /\ q \in {<<aO(Db), rf(Db), rf(source[i]), mk(i)>>, <<rf(Db), rf(source[i]), mk(i)>>,
                                  <<rf(source[i]), mk(i)>>}

(* closeNativeObject of each class, nested where the last reference is given back. *)
CloseShape(q) ==
    \/ \E b \in Batches : q \in {<<fr(b), cl(b)>>, <<cl(b)>>}
    \/ q \in {<<fr(Db), Op("destroyIfFlag", Db), cl(Db)>>, <<Op("destroyIfFlag", Db), cl(Db)>>, <<cl(Db)>>}
    \/ \E d \in Wrappers : q \in {<<fr(Db), Op("destroyIfFlag", Db), cl(Db), cl(d)>>,
                                  <<Op("destroyIfFlag", Db), cl(Db), cl(d)>>, <<cl(Db), cl(d)>>,
                                  <<un(Db), cl(d)>>, <<cl(d)>>}
    \/ \E s \in Snaps : q = <<fr(s), un(Db), cl(s)>>
    \/ \E i \in Iters : source[i] = None /\ q = <<fr(i), un(Db), cl(i)>>
    \/ \E i \in Iters : /\ source[i] # None
                        /\ q \in {<<fr(i), un(source[i]), un(Db), cl(i)>>, <<un(source[i]), un(Db), cl(i)>>,
                                  <<fr(source[i]), un(Db), cl(source[i]), un(Db), cl(i)>>,
                                  <<un(Db), cl(source[i]), un(Db), cl(i)>>, <<cl(source[i]), un(Db), cl(i)>>}

Shape(q) == CallShape(q) \/ MakeShape(q) \/ CloseShape(q)

-----------------------------------------------------------------------------
(***************************************************************************)
(* Who holds a reference to whom.                                          *)
(***************************************************************************)
(* A call that makes d has its reference to the database, or to the snapshot s. *)
Took(q, d) == Has(q, mk(d)) /\ ~ Has(q, rf(Db))
TookSnap(q, i, s) == Has(q, mk(i)) /\ ~ Has(q, rf(s)) /\ ~ Has(q, rf(Db))

(* A call that closes d has given its reference back. *)
Gave(q, d) == Has(q, cl(d)) /\ (~ Has(q, un(Db)) \/ Head(q) = cl(d))
GaveSnap(q, i, s) == Has(q, cl(i)) /\ ~ Has(q, un(s))

(* close() of the wrapper is under way, its reference not given back yet. *)
Closing(q, o) == q = <<Op("close", o)>> \/ q = <<un(o)>>

HoldsDb(d) ==
    \/ \E t \in Threads : Took(todo[t], d)
    \/ d \in mPtr /\ \A t \in Threads : ~ Gave(todo[t], d)
HoldsSnap(i, s) ==
    \/ \E t \in Threads : TookSnap(todo[t], i, s)
    \/ i \in mPtr /\ \A t \in Threads : ~ GaveSnap(todo[t], i, s)
HoldsItself(o) == o \in made /\ (closes[o] = 0 \/ \E t \in Threads : Closing(todo[t], o))

Holds(h, o) ==
    \/ h = o /\ HoldsItself(o)
    \/ h \in Wrappers /\ o = Db /\ HoldsDb(h)
    \/ h \in Iters /\ o \in Snaps /\ source[h] = o /\ HoldsSnap(h, o)

Holders(o) == {h \in Objects : Holds(h, o)}

-----------------------------------------------------------------------------
(***************************************************************************)
(* The inductive invariant.                                                *)
(***************************************************************************)
(* What a thread's call relies on. *)
MakeIsSound(t, q) ==
    \A d \in Wrappers : Has(q, mk(d)) =>
        /\ owner[d] = t /\ d \notin made /\ closes[Db] = 0
        /\ d \in Iters /\ source[d] # None => source[d] \in made /\ closes[source[d]] = 0
        /\ ~ Has(q, aO(Db)) => Db \in mPtr
UseIsSound(t, q) ==
    /\ Has(q, Op("call", Db)) => closes[Db] = 0 /\ (~ Has(q, aO(Db)) => Db \in mPtr)
    /\ \A b \in Passed : Has(q, Op("callWith", b)) => /\ closes[Db] = 0 /\ (~ Has(q, aO(Db)) => Db \in mPtr)
                                                   /\ b \in made /\ (b \in Batches => owner[b] = t)
                                                   /\ (b \in Snaps => closes[b] = 0)
    /\ \A i \in Iters : Has(q, Op("iterCall", i)) => /\ owner[i] = t /\ i \in made
                                                     /\ ~ Has(q, aO(i)) => closes[i] = 0
    /\ \A b \in Batches : Has(q, Op("batchCall", b)) => /\ owner[b] = t /\ b \in made
                                                        /\ ~ Has(q, aO(b)) => closes[b] = 0
CloseIsSound(t, q) ==
    \A o \in Objects :
       /\ Closing(q, o) => closes[o] = 1 /\ o \in made /\ (o # Db => owner[o] = t)
       /\ q = <<un(o)>> => o \in mPtr
       /\ Has(q, cl(o)) => /\ o \in mPtr /\ (o \in Iters \cup Batches => owner[o] = t)
                           /\ Has(q, fr(o)) <=> o \in native
       /\ Has(q, cl(o)) <=> monitor[o] = t

CallsAreSound ==
    /\ \A t \in Threads : Shape(todo[t])
    /\ \A t \in Threads : MakeIsSound(t, todo[t]) /\ UseIsSound(t, todo[t]) /\ CloseIsSound(t, todo[t])
    /\ \A t, u \in Threads : Closing(todo[t], Db) /\ Closing(todo[u], Db) => t = u

BeingClosed(o) == \E t \in Threads : Has(todo[t], cl(o))

PointersAreSound ==
    /\ native \subseteq mPtr /\ mPtr \subseteq made /\ Db \in made
    /\ \A o \in mPtr \ native : BeingClosed(o)
    /\ \A o \in made \ {Db} : owner[o] # None /\ (closes[o] = 0 => o \in mPtr)
    /\ \A o \in Objects \ made : closes[o] = 0
    /\ \A h, o \in Objects : Holds(h, o) /\ h # o => o \in mPtr

CountsAreHolders ==
    /\ \A o \in made : o \in mPtr \/ closes[o] = 0 =>
          IsFiniteSet(Holders(o)) /\ mRefCount[o] = Cardinality(Holders(o))
    /\ \A o \in mPtr : mRefCount[o] = 0 <=> BeingClosed(o)

DestroyIsKept ==
    destroyOnClose /\ ~ destroyed =>
       \/ \E t \in Threads : todo[t] = <<Op("destroyIfClosed", Db)>>
       \/ /\ Db \in mPtr
          /\ \A t \in Threads : Has(todo[t], cl(Db)) => Has(todo[t], Op("destroyIfFlag", Db))

Typed ==
    /\ mPtr \in SUBSET Objects /\ native \in SUBSET Objects /\ made \in SUBSET Objects
    /\ mRefCount \in [Objects -> Nat]
    /\ closes \in [Objects -> {0, 1}]
    /\ source \in [Iters -> Snaps \cup {None}]
    /\ owner \in [Objects -> Threads \cup {None}]
    /\ todo \in [Threads -> Seq(Ops)]
    /\ monitor \in [Objects -> Threads \cup {None}]
    /\ destroyOnClose \in BOOLEAN /\ destroyed \in BOOLEAN /\ wild \in BOOLEAN

NativeInv == Typed /\ CallsAreSound /\ PointersAreSound /\ CountsAreHolders /\ DestroyIsKept /\ ~ wild

-----------------------------------------------------------------------------
(***************************************************************************)
(* Steps and lists of steps.                                               *)
(***************************************************************************)
LEMMA OpIs ==
  /\ \A n, o : Op(n, o).op = n /\ Op(n, o).obj = o
  /\ \A n, o, m, p : Op(n, o) = Op(m, p) <=> n = m /\ o = p
  BY DEF Op

(* The steps of short lists of work. *)
LEMMA HasSteps ==
  /\ \A x : ~ Has(<<>>, x)
  /\ \A a, x : Has(<<a>>, x) <=> x = a
  /\ \A a, b, x : Has(<<a, b>>, x) <=> x \in {a, b}
  /\ \A a, b, c, x : Has(<<a, b, c>>, x) <=> x \in {a, b, c}
  /\ \A a, b, c, d, x : Has(<<a, b, c, d>>, x) <=> x \in {a, b, c, d}
  /\ \A a, b, c, d, e, x : Has(<<a, b, c, d, e>>, x) <=> x \in {a, b, c, d, e}
<1>1. \A x : ~ Has(<<>>, x)
  BY DEF Has
<1>2. \A a, x : Has(<<a>>, x) <=> x = a
  BY DEF Has
<1>3. \A a, b, x : Has(<<a, b>>, x) <=> x \in {a, b}
  <2> TAKE a, b, x
  <2>1. 1 .. Len(<<a, b>>) = {1, 2}
    OBVIOUS
  <2> QED
    BY <2>1 DEF Has
<1>4. \A a, b, c, x : Has(<<a, b, c>>, x) <=> x \in {a, b, c}
  <2> TAKE a, b, c, x
  <2>1. 1 .. Len(<<a, b, c>>) = {1, 2, 3}
    OBVIOUS
  <2> QED
    BY <2>1 DEF Has
<1>5. \A a, b, c, d, x : Has(<<a, b, c, d>>, x) <=> x \in {a, b, c, d}
  <2> TAKE a, b, c, d, x
  <2>1. 1 .. Len(<<a, b, c, d>>) = {1, 2, 3, 4}
    OBVIOUS
  <2> QED
    BY <2>1 DEF Has
<1>6. \A a, b, c, d, e, x : Has(<<a, b, c, d, e>>, x) <=> x \in {a, b, c, d, e}
  <2> TAKE a, b, c, d, e, x
  <2>1. 1 .. Len(<<a, b, c, d, e>>) = {1, 2, 3, 4, 5}
    OBVIOUS
  <2> QED
    BY <2>1 DEF Has
<1> QED
  BY <1>1, <1>2, <1>3, <1>4, <1>5, <1>6

(* Heads and tails of short lists. *)
LEMMA TailSteps ==
  /\ \A a : <<a>> # <<>> /\ Head(<<a>>) = a /\ Tail(<<a>>) = <<>>
  /\ \A a, b : <<a, b>> # <<>> /\ Head(<<a, b>>) = a /\ Tail(<<a, b>>) = <<b>>
  /\ \A a, b, c : <<a, b, c>> # <<>> /\ Head(<<a, b, c>>) = a /\ Tail(<<a, b, c>>) = <<b, c>>
  /\ \A a, b, c, d : <<a, b, c, d>> # <<>> /\ Head(<<a, b, c, d>>) = a /\ Tail(<<a, b, c, d>>) = <<b, c, d>>
  /\ \A a, b, c, d, e : /\ <<a, b, c, d, e>> # <<>> /\ Head(<<a, b, c, d, e>>) = a
                        /\ Tail(<<a, b, c, d, e>>) = <<b, c, d, e>>
<1>1. \A a : <<a>> # <<>> /\ Head(<<a>>) = a /\ Tail(<<a>>) = <<>>
  OBVIOUS
<1>2. \A a, b : <<a, b>> # <<>> /\ Head(<<a, b>>) = a /\ Tail(<<a, b>>) = <<b>>
  OBVIOUS
<1>3. \A a, b, c : <<a, b, c>> # <<>> /\ Head(<<a, b, c>>) = a /\ Tail(<<a, b, c>>) = <<b, c>>
  OBVIOUS
<1>4. \A a, b, c, d : <<a, b, c, d>> # <<>> /\ Head(<<a, b, c, d>>) = a /\ Tail(<<a, b, c, d>>) = <<b, c, d>>
  OBVIOUS
<1>5. \A a, b, c, d, e : /\ <<a, b, c, d, e>> # <<>> /\ Head(<<a, b, c, d, e>>) = a
                        /\ Tail(<<a, b, c, d, e>>) = <<b, c, d, e>>
  OBVIOUS
<1> QED
  BY <1>1, <1>2, <1>3, <1>4, <1>5

(* Short lists followed by nothing. *)
LEMMA JoinedSteps ==
  /\ \A a : <<a>> \o <<>> = <<a>>
  /\ \A a, b : <<a, b>> \o <<>> = <<a, b>>
  /\ \A a, b, c : <<a, b, c>> \o <<>> = <<a, b, c>>
  /\ \A a, b, c, d : <<a, b, c, d>> \o <<>> = <<a, b, c, d>>
  /\ \A a, b : <<a>> \o <<b>> = <<a, b>>
  /\ \A a, b, c : <<a, b>> \o <<c>> = <<a, b, c>>
  /\ \A a, b, c, d : <<a, b, c>> \o <<d>> = <<a, b, c, d>>
  /\ \A a, b, c, d, e : <<a, b, c>> \o <<d, e>> = <<a, b, c, d, e>>
<1>1. \A a : <<a>> \o <<>> = <<a>>
  <2> TAKE a
  <2>1. <<a>> \in Seq({a})
    OBVIOUS
  <2> QED
    BY <2>1, ConcatEmptySeq
<1>2. \A a, b : <<a, b>> \o <<>> = <<a, b>>
  <2> TAKE a, b
  <2>1. <<a, b>> \in Seq({a, b})
    OBVIOUS
  <2> QED
    BY <2>1, ConcatEmptySeq
<1>3. \A a, b, c : <<a, b, c>> \o <<>> = <<a, b, c>>
  <2> TAKE a, b, c
  <2>1. <<a, b, c>> \in Seq({a, b, c})
    OBVIOUS
  <2> QED
    BY <2>1, ConcatEmptySeq
<1>4. \A a, b, c, d : <<a, b, c, d>> \o <<>> = <<a, b, c, d>>
  <2> TAKE a, b, c, d
  <2>1. <<a, b, c, d>> \in Seq({a, b, c, d})
    OBVIOUS
  <2> QED
    BY <2>1, ConcatEmptySeq
<1>5. \A a, b : <<a>> \o <<b>> = <<a, b>>
  <2> TAKE a, b
  <2>1. <<a>> \in Seq({a, b}) /\ <<b>> \in Seq({a, b}) /\ <<a, b>> \in Seq({a, b})
    OBVIOUS
  <2>2. Len(<<a>>) = 1 /\ Len(<<b>>) = 1 /\ Len(<<a, b>>) = 2 /\ 1 .. 2 = 1 .. (1 + 1)
    OBVIOUS
  <2>3. PICK s, r, w : s = <<a>> /\ r = <<b>> /\ w = <<a, b>>
    OBVIOUS
  <2>4. /\ s \o r \in Seq({a, b}) /\ Len(s \o r) = 2
        /\ \A k \in 1 .. 2 : (s \o r)[k] = IF k <= 1 THEN s[k] ELSE r[k - 1]
    BY <2>1, <2>2, <2>3, ConcatProperties
  <2>5. \A k \in 1 .. 2 : w[k] = IF k <= 1 THEN s[k] ELSE r[k - 1]
    BY <2>3
  <2>6. w \in Seq({a, b}) /\ Len(w) = Len(s \o r)
    BY <2>1, <2>2, <2>3, <2>4
  <2>7. \A k \in 1 .. Len(s \o r) : (s \o r)[k] = w[k]
    BY <2>4, <2>5
  <2>8. s \o r = w
    BY <2>4, <2>6, <2>7, SeqEqual
  <2> QED
    BY <2>3, <2>8
<1>6. \A a, b, c : <<a, b>> \o <<c>> = <<a, b, c>>
  <2> TAKE a, b, c
  <2>1. <<a, b>> \in Seq({a, b, c}) /\ <<c>> \in Seq({a, b, c}) /\ <<a, b, c>> \in Seq({a, b, c})
    OBVIOUS
  <2>2. Len(<<a, b>>) = 2 /\ Len(<<c>>) = 1 /\ Len(<<a, b, c>>) = 3 /\ 1 .. 3 = 1 .. (2 + 1)
    OBVIOUS
  <2>3. PICK s, r, w : s = <<a, b>> /\ r = <<c>> /\ w = <<a, b, c>>
    OBVIOUS
  <2>4. /\ s \o r \in Seq({a, b, c}) /\ Len(s \o r) = 3
        /\ \A k \in 1 .. 3 : (s \o r)[k] = IF k <= 2 THEN s[k] ELSE r[k - 2]
    BY <2>1, <2>2, <2>3, ConcatProperties
  <2>5. \A k \in 1 .. 3 : w[k] = IF k <= 2 THEN s[k] ELSE r[k - 2]
    BY <2>3
  <2>6. w \in Seq({a, b, c}) /\ Len(w) = Len(s \o r)
    BY <2>1, <2>2, <2>3, <2>4
  <2>7. \A k \in 1 .. Len(s \o r) : (s \o r)[k] = w[k]
    BY <2>4, <2>5
  <2>8. s \o r = w
    BY <2>4, <2>6, <2>7, SeqEqual
  <2> QED
    BY <2>3, <2>8
<1>7. \A a, b, c, d : <<a, b, c>> \o <<d>> = <<a, b, c, d>>
  <2> TAKE a, b, c, d
  <2>1. <<a, b, c>> \in Seq({a, b, c, d}) /\ <<d>> \in Seq({a, b, c, d}) /\ <<a, b, c, d>> \in Seq({a, b, c, d})
    OBVIOUS
  <2>2. Len(<<a, b, c>>) = 3 /\ Len(<<d>>) = 1 /\ Len(<<a, b, c, d>>) = 4 /\ 1 .. 4 = 1 .. (3 + 1)
    OBVIOUS
  <2>3. PICK s, r, w : s = <<a, b, c>> /\ r = <<d>> /\ w = <<a, b, c, d>>
    OBVIOUS
  <2>4. /\ s \o r \in Seq({a, b, c, d}) /\ Len(s \o r) = 4
        /\ \A k \in 1 .. 4 : (s \o r)[k] = IF k <= 3 THEN s[k] ELSE r[k - 3]
    BY <2>1, <2>2, <2>3, ConcatProperties
  <2>5. \A k \in 1 .. 4 : w[k] = IF k <= 3 THEN s[k] ELSE r[k - 3]
    BY <2>3
  <2>6. w \in Seq({a, b, c, d}) /\ Len(w) = Len(s \o r)
    BY <2>1, <2>2, <2>3, <2>4
  <2>7. \A k \in 1 .. Len(s \o r) : (s \o r)[k] = w[k]
    BY <2>4, <2>5
  <2>8. s \o r = w
    BY <2>4, <2>6, <2>7, SeqEqual
  <2> QED
    BY <2>3, <2>8
<1>8. \A a, b, c, d, e : <<a, b, c>> \o <<d, e>> = <<a, b, c, d, e>>
  <2> TAKE a, b, c, d, e
  <2>1. <<a, b, c>> \in Seq({a, b, c, d, e}) /\ <<d, e>> \in Seq({a, b, c, d, e}) /\ <<a, b, c, d, e>> \in Seq({a, b, c, d, e})
    OBVIOUS
  <2>2. Len(<<a, b, c>>) = 3 /\ Len(<<d, e>>) = 2 /\ Len(<<a, b, c, d, e>>) = 5 /\ 1 .. 5 = 1 .. (3 + 2)
    OBVIOUS
  <2>3. PICK s, r, w : s = <<a, b, c>> /\ r = <<d, e>> /\ w = <<a, b, c, d, e>>
    OBVIOUS
  <2>4. /\ s \o r \in Seq({a, b, c, d, e}) /\ Len(s \o r) = 5
        /\ \A k \in 1 .. 5 : (s \o r)[k] = IF k <= 3 THEN s[k] ELSE r[k - 3]
    BY <2>1, <2>2, <2>3, ConcatProperties
  <2>5. \A k \in 1 .. 5 : w[k] = IF k <= 3 THEN s[k] ELSE r[k - 3]
    BY <2>3
  <2>6. w \in Seq({a, b, c, d, e}) /\ Len(w) = Len(s \o r)
    BY <2>1, <2>2, <2>3, <2>4
  <2>7. \A k \in 1 .. Len(s \o r) : (s \o r)[k] = w[k]
    BY <2>4, <2>5
  <2>8. s \o r = w
    BY <2>4, <2>6, <2>7, SeqEqual
  <2> QED
    BY <2>3, <2>8
<1> QED
  BY <1>1, <1>2, <1>3, <1>4, <1>5, <1>6, <1>7, <1>8

(* Two lists with the same references taken, given back and to be given back. *)
SameClaims(q, r) ==
    \A o :
       /\ Took(q, o) <=> Took(r, o)
       /\ Gave(q, o) <=> Gave(r, o)
       /\ Closing(q, o) <=> Closing(r, o)
       /\ Has(q, cl(o)) <=> Has(r, cl(o))
       /\ \A s : (TookSnap(q, o, s) <=> TookSnap(r, o, s)) /\ (GaveSnap(q, o, s) <=> GaveSnap(r, o, s))

(* The steps that take or give back no reference. *)
Quiet == {"assertOpen", "call", "iterCall", "batchCall", "callWith", "free", "destroyIfFlag", "destroyIfClosed"}

(* The rest of a list has the steps of the list, the first one apart, and *)
(* begins neither a wrapper's unref nor the end of a release.              *)
QuietTail(q) ==
    /\ Has(q, Head(q))
    /\ \A x : Has(Tail(q), x) <=> Has(q, x) /\ x # Head(q)
    /\ \A o : ~ Closing(Tail(q), o)
    /\ \A d : Tail(q) # <<>> /\ Head(Tail(q)) = cl(d) => ~ Has(q, un(Db))

(* The lists of work that begin with a step that touches no count. *)
LEMMA QuietForms ==
  ASSUME NEW q, Shape(q), q # <<>>, Head(q).op \in Quiet
  PROVE  \/ \E a : q = <<a>>
         \/ \E a, b : q = <<a, b>> /\ a # b /\ b.op \notin {"unref", "close"} /\ a # un(Db) /\ b # un(Db)
         \/ \E a, b, c : /\ q = <<a, b, c>> /\ a \notin {b, c}
                         /\ b.op = "clear" => un(Db) \notin {a, b, c}
         \/ \E a, b, c, d : /\ q = <<a, b, c, d>> /\ a \notin {b, c, d}
                            /\ b.op = "clear" => un(Db) \notin {a, b, c, d}
         \/ \E a, b, c, d, e : q = <<a, b, c, d, e>> /\ a \notin {b, c, d, e} /\ b.op # "clear"
<1>1. CASE CallShape(q)
  BY <1>1, TailSteps, OpIs DEF CallShape, aO, rf, un, fr, cl, mk, Quiet
<1>2. CASE MakeShape(q)
  BY <1>2, TailSteps, OpIs DEF MakeShape, aO, rf, un, fr, cl, mk, Quiet
<1>3. CASE CloseShape(q)
  BY <1>3, TailSteps, OpIs DEF CloseShape, aO, rf, un, fr, cl, mk, Quiet
<1> QED
  BY <1>1, <1>2, <1>3 DEF Shape

(* What is left of them. *)
LEMMA QuietTails ==
  ASSUME NEW q, Shape(q), q # <<>>, Head(q).op \in Quiet
  PROVE  QuietTail(q)
<1>1. CASE \E a : q = <<a>>
  BY <1>1, HasSteps, TailSteps DEF QuietTail, Closing
<1>2. CASE \E a, b : q = <<a, b>> /\ a # b /\ b.op \notin {"unref", "close"} /\ a # un(Db) /\ b # un(Db)
  <2> PICK a, b : q = <<a, b>> /\ a # b /\ b.op \notin {"unref", "close"} /\ a # un(Db) /\ b # un(Db)
    BY <1>2
  <2>1. \A o : b # un(o) /\ b # Op("close", o)
    BY OpIs DEF un
  <2>2. \A x, y : <<x>> = <<y>> => x = y
    BY TailSteps
  <2>3. \A o : ~ Closing(Tail(q), o)
    BY <2>1, <2>2, TailSteps DEF Closing
  <2> QED
    BY <2>3, HasSteps, TailSteps DEF QuietTail
<1>3. CASE \E a, b, c : q = <<a, b, c>> /\ a \notin {b, c} /\ (b.op = "clear" => un(Db) \notin {a, b, c})
  <2> PICK a, b, c : q = <<a, b, c>> /\ a \notin {b, c} /\ (b.op = "clear" => un(Db) \notin {a, b, c})
    BY <1>3
  <2>1. \A o : ~ Closing(Tail(q), o)
    BY TailSteps DEF Closing
  <2>2. \A d : b = cl(d) => b.op = "clear"
    BY OpIs DEF cl
  <2> QED
    BY <2>1, <2>2, HasSteps, TailSteps DEF QuietTail
<1>4. CASE \E a, b, c, d : q = <<a, b, c, d>> /\ a \notin {b, c, d} /\ (b.op = "clear" => un(Db) \notin {a, b, c, d})
  <2> PICK a, b, c, d : q = <<a, b, c, d>> /\ a \notin {b, c, d} /\ (b.op = "clear" => un(Db) \notin {a, b, c, d})
    BY <1>4
  <2>1. \A o : ~ Closing(Tail(q), o)
    BY TailSteps DEF Closing
  <2>2. \A o : b = cl(o) => b.op = "clear"
    BY OpIs DEF cl
  <2> QED
    BY <2>1, <2>2, HasSteps, TailSteps DEF QuietTail
<1>5. CASE \E a, b, c, d, e : q = <<a, b, c, d, e>> /\ a \notin {b, c, d, e} /\ b.op # "clear"
  <2> PICK a, b, c, d, e : q = <<a, b, c, d, e>> /\ a \notin {b, c, d, e} /\ b.op # "clear"
    BY <1>5
  <2>1. \A o : ~ Closing(Tail(q), o)
    BY TailSteps DEF Closing
  <2>2. \A o : b # cl(o)
    BY OpIs DEF cl
  <2> QED
    BY <2>1, <2>2, HasSteps, TailSteps DEF QuietTail
<1> QED
  BY <1>1, <1>2, <1>3, <1>4, <1>5, QuietForms

(* What is left of them has a shape too. *)
LEMMA QuietShapes ==
  ASSUME NEW q, Shape(q), q # <<>>, Head(q).op \in Quiet
  PROVE  Shape(Tail(q))
<1> USE TailSteps, OpIs DEF aO, rf, un, fr, cl, mk, Quiet
<1>1. CASE CallShape(q)
  <2>1. \/ Tail(q) = <<>> \/ Tail(q) = <<Op("call", Db)>>
        \/ \E i \in Iters : Tail(q) = <<Op("iterCall", i)>>
        \/ \E b \in Batches : Tail(q) = <<Op("batchCall", b)>>
        \/ \E b \in Passed : Tail(q) = <<Op("callWith", b)>>
    <3>1. \/ \E a : q = <<a>>
          \/ q = <<aO(Db), Op("call", Db)>>
          \/ \E i \in Iters : q = <<aO(i), Op("iterCall", i)>>
          \/ \E b \in Batches : q = <<aO(b), Op("batchCall", b)>>
          \/ \E b \in Passed : q = <<aO(Db), Op("callWith", b)>>
      BY <1>1 DEF CallShape
    <3> HIDE TailSteps, OpIs DEF aO, rf, un, fr, cl, mk, Quiet
    <3>2. CASE \E a : q = <<a>>
      BY <3>2, TailSteps
    <3>3. CASE q = <<aO(Db), Op("call", Db)>>
      BY <3>3, TailSteps
    <3>4. CASE \E i \in Iters : q = <<aO(i), Op("iterCall", i)>>
      BY <3>4, TailSteps
    <3>5. CASE \E b \in Batches : q = <<aO(b), Op("batchCall", b)>>
      BY <3>5, TailSteps
    <3>6. CASE \E b \in Passed : q = <<aO(Db), Op("callWith", b)>>
      BY <3>6, TailSteps
    <3> QED
      BY <3>1, <3>2, <3>3, <3>4, <3>5, <3>6
  <2> HIDE TailSteps, OpIs DEF aO, rf, un, fr, cl, mk, Quiet
  <2> QED
    BY <2>1 DEF Shape, CallShape
<1>2. CASE MakeShape(q)
  <2>1. CASE \E d \in Wrappers : (d \in Iters => source[d] = None) /\ q = <<aO(Db), rf(Db), mk(d)>>
    BY <2>1 DEF Shape, MakeShape
  <2>2. CASE \E i \in Iters : source[i] # None /\ q = <<aO(Db), rf(Db), rf(source[i]), mk(i)>>
    BY <2>2 DEF Shape, MakeShape
  <2> QED
    BY <1>2, <2>1, <2>2 DEF MakeShape
<1>3. CASE CloseShape(q)
  <2>1. \/ \E b \in Batches : Tail(q) = <<cl(b)>>
        \/ Tail(q) = <<Op("destroyIfFlag", Db), cl(Db)>>
        \/ Tail(q) = <<cl(Db)>>
        \/ \E d \in Wrappers : Tail(q) = <<Op("destroyIfFlag", Db), cl(Db), cl(d)>>
        \/ \E d \in Wrappers : Tail(q) = <<cl(Db), cl(d)>>
        \/ \E d \in Wrappers : Tail(q) = <<un(Db), cl(d)>>
        \/ \E i \in Iters : source[i] # None /\ Tail(q) = <<un(source[i]), un(Db), cl(i)>>
        \/ \E i \in Iters : source[i] # None /\ Tail(q) = <<un(Db), cl(source[i]), un(Db), cl(i)>>
    <3>1. \/ \E b \in Batches : q = <<fr(b), cl(b)>>
          \/ q = <<fr(Db), Op("destroyIfFlag", Db), cl(Db)>>
          \/ q = <<Op("destroyIfFlag", Db), cl(Db)>>
          \/ \E d \in Wrappers : q = <<fr(Db), Op("destroyIfFlag", Db), cl(Db), cl(d)>>
          \/ \E d \in Wrappers : q = <<Op("destroyIfFlag", Db), cl(Db), cl(d)>>
          \/ \E d \in Wrappers : q = <<fr(d), un(Db), cl(d)>>
          \/ \E i \in Iters : source[i] # None /\ q = <<fr(i), un(source[i]), un(Db), cl(i)>>
          \/ \E i \in Iters : source[i] # None /\ q = <<fr(source[i]), un(Db), cl(source[i]), un(Db), cl(i)>>
      BY <1>3 DEF CloseShape, Wrappers
    <3> HIDE TailSteps, OpIs DEF aO, rf, un, fr, cl, mk, Quiet
    <3>2. CASE \E b \in Batches : q = <<fr(b), cl(b)>>
      BY <3>2, TailSteps
    <3>3. CASE q = <<fr(Db), Op("destroyIfFlag", Db), cl(Db)>>
      BY <3>3, TailSteps
    <3>4. CASE q = <<Op("destroyIfFlag", Db), cl(Db)>>
      BY <3>4, TailSteps
    <3>5. CASE \E d \in Wrappers : q = <<fr(Db), Op("destroyIfFlag", Db), cl(Db), cl(d)>>
      BY <3>5, TailSteps
    <3>6. CASE \E d \in Wrappers : q = <<Op("destroyIfFlag", Db), cl(Db), cl(d)>>
      BY <3>6, TailSteps
    <3>7. CASE \E d \in Wrappers : q = <<fr(d), un(Db), cl(d)>>
      BY <3>7, TailSteps
    <3>8. CASE \E i \in Iters : source[i] # None /\ q = <<fr(i), un(source[i]), un(Db), cl(i)>>
      BY <3>8, TailSteps
    <3>9. CASE \E i \in Iters : source[i] # None /\ q = <<fr(source[i]), un(Db), cl(source[i]), un(Db), cl(i)>>
      BY <3>9, TailSteps
    <3> QED
      BY <3>1, <3>2, <3>3, <3>4, <3>5, <3>6, <3>7, <3>8, <3>9
  <2> HIDE TailSteps, OpIs DEF aO, rf, un, fr, cl, mk, Quiet
  <2> QED
    BY <2>1 DEF Shape, CloseShape
<1> QED
  BY <1>1, <1>2, <1>3 DEF Shape

(* The lists that begin with a step of closeNativeObject. *)
LEMMA FreeForms ==
  ASSUME Typed, NEW q, Shape(q), q # <<>>, Head(q).op = "free"
  PROVE  \E o \in Objects :
           /\ Head(q) = fr(o)
           /\ \/ q = <<fr(o), cl(o)>>
              \/ o = Db /\ q = <<fr(o), Op("destroyIfFlag", Db), cl(o)>>
              \/ o = Db /\ \E d \in Wrappers : q = <<fr(o), Op("destroyIfFlag", Db), cl(o), cl(d)>>
              \/ q = <<fr(o), un(Db), cl(o)>>
              \/ \E s : q = <<fr(o), un(s), un(Db), cl(o)>>
              \/ \E i : q = <<fr(o), un(Db), cl(o), un(Db), cl(i)>>
<1>1. ~ CallShape(q)
  BY TailSteps, OpIs DEF CallShape, aO, rf, un, fr, cl, mk
<1>2. ~ MakeShape(q)
  BY TailSteps, OpIs DEF MakeShape, aO, rf, un, fr, cl, mk
<1>3. CloseShape(q)
  BY <1>1, <1>2 DEF Shape
<1> USE TailSteps, OpIs DEF aO, rf, un, fr, cl, mk
<1>4. CASE \E b \in Batches : q \in {<<fr(b), cl(b)>>, <<cl(b)>>}
  BY <1>4 DEF Objects
<1>5. CASE \/ q \in {<<fr(Db), Op("destroyIfFlag", Db), cl(Db)>>, <<Op("destroyIfFlag", Db), cl(Db)>>, <<cl(Db)>>}
           \/ \E d \in Wrappers : q \in {<<fr(Db), Op("destroyIfFlag", Db), cl(Db), cl(d)>>,
                                       <<Op("destroyIfFlag", Db), cl(Db), cl(d)>>, <<cl(Db), cl(d)>>,
                                       <<un(Db), cl(d)>>, <<cl(d)>>}
  BY <1>5 DEF Objects
<1>6. CASE \/ \E s \in Snaps : q = <<fr(s), un(Db), cl(s)>>
           \/ \E i \in Iters : source[i] = None /\ q = <<fr(i), un(Db), cl(i)>>
  BY <1>6 DEF Objects
<1>7. CASE \E i \in Iters : /\ source[i] # None
                        /\ q \in {<<fr(i), un(source[i]), un(Db), cl(i)>>, <<un(source[i]), un(Db), cl(i)>>,
                                  <<fr(source[i]), un(Db), cl(source[i]), un(Db), cl(i)>>,
                                  <<un(Db), cl(source[i]), un(Db), cl(i)>>, <<cl(source[i]), un(Db), cl(i)>>}
  <2>1. \A i \in Iters : source[i] # None => source[i] \in Snaps
    BY DEF Typed
  <2> QED
    BY <1>7, <2>1 DEF Objects
<1> QED
  BY <1>3, <1>4, <1>5, <1>6, <1>7 DEF CloseShape

(* Whoever frees an object also clears its pointer. *)
LEMMA FreeClears ==
  ASSUME Typed, NEW q, Shape(q), q # <<>>, Head(q).op = "free"
  PROVE  \E o \in Objects : Head(q) = fr(o) /\ Has(q, cl(o))
  BY FreeForms, HasSteps

(* The lists of work that begin with the destruction of the files. *)
LEMMA DestroyForms ==
  ASSUME NEW q, Shape(q), q # <<>>
  PROVE  /\ Head(q).op = "destroyIfFlag" =>
              \/ q = <<Op("destroyIfFlag", Db), cl(Db)>>
              \/ \E d : q = <<Op("destroyIfFlag", Db), cl(Db), cl(d)>>
         /\ Head(q).op = "destroyIfClosed" => q = <<Op("destroyIfClosed", Db)>>
<1>1. CASE CallShape(q)
  BY <1>1, TailSteps, OpIs DEF CallShape, aO, rf, un, fr, cl, mk
<1>2. CASE MakeShape(q)
  BY <1>2, TailSteps, OpIs DEF MakeShape, aO, rf, un, fr, cl, mk
<1>3. CASE CloseShape(q)
  BY <1>3, TailSteps, OpIs DEF CloseShape, aO, rf, un, fr, cl, mk
<1> QED
  BY <1>1, <1>2, <1>3 DEF Shape

(* The lists of work that begin by letting go a reference. *)
LEMMA UnrefForms ==
  ASSUME NEW q, Shape(q), q # <<>>, Head(q).op = "unref"
  PROVE  \/ \E o \in Objects : q = <<un(o)>>
         \/ \E d \in Wrappers : q = <<un(Db), cl(d)>>
         \/ \E i \in Iters : /\ source[i] # None
                             /\ q \in {<<un(source[i]), un(Db), cl(i)>>, <<un(Db), cl(source[i]), un(Db), cl(i)>>}
<1>1. CASE CallShape(q)
  BY <1>1, TailSteps, OpIs DEF CallShape, aO, rf, un, fr, cl, mk
<1>2. CASE MakeShape(q)
  BY <1>2, TailSteps, OpIs DEF MakeShape, aO, rf, un, fr, cl, mk
<1>3. CASE CloseShape(q)
  BY <1>3, TailSteps, OpIs DEF CloseShape, aO, rf, un, fr, cl, mk
<1> QED
  BY <1>1, <1>2, <1>3 DEF Shape

(* The lists of work that begin by clearing a pointer. *)
LEMMA ClearForms ==
  ASSUME NEW q, Shape(q), q # <<>>, Head(q).op = "clear"
  PROVE  \/ \E o \in Objects : q = <<cl(o)>>
         \/ \E d \in Wrappers : q = <<cl(Db), cl(d)>>
         \/ \E i \in Iters : source[i] # None /\ q = <<cl(source[i]), un(Db), cl(i)>>
<1>1. CASE CallShape(q)
  BY <1>1, TailSteps, OpIs DEF CallShape, aO, rf, un, fr, cl, mk
<1>2. CASE MakeShape(q)
  BY <1>2, TailSteps, OpIs DEF MakeShape, aO, rf, un, fr, cl, mk
<1>3. CASE CloseShape(q)
  BY <1>3, TailSteps, OpIs DEF CloseShape, Objects, Wrappers, aO, rf, un, fr, cl, mk
<1> QED
  BY <1>1, <1>2, <1>3 DEF Shape

(* The lists that begin with a step of iterator() or getSnapshot(). *)
LEMMA MakeForms ==
  ASSUME NEW q, Shape(q), q # <<>>
  PROVE  /\ Head(q).op = "ref" =>
              \/ \E d \in Wrappers : (d \in Iters => source[d] = None) /\ q = <<rf(Db), mk(d)>>
              \/ \E i \in Iters : source[i] # None /\ q \in {<<rf(Db), rf(source[i]), mk(i)>>, <<rf(source[i]), mk(i)>>}
         /\ Head(q).op = "create" => \E d \in Wrappers : q = <<mk(d)>>
<1>1. CASE CallShape(q)
  BY <1>1, TailSteps, OpIs DEF CallShape, aO, rf, un, fr, cl, mk
<1>2. CASE MakeShape(q)
  BY <1>2, TailSteps, OpIs DEF MakeShape, aO, rf, un, fr, cl, mk
<1>3. CASE CloseShape(q)
  BY <1>3, TailSteps, OpIs DEF CloseShape, aO, rf, un, fr, cl, mk
<1> QED
  BY <1>1, <1>2, <1>3 DEF Shape

(* The lists that begin with a step of a call on an object. *)
LEMMA UseForms ==
  ASSUME NEW q, Shape(q), q # <<>>
  PROVE  /\ Head(q).op = "call" => q = <<Op("call", Db)>>
         /\ Head(q).op = "iterCall" => \E i \in Iters : q = <<Op("iterCall", i)>>
         /\ Head(q).op = "batchCall" => \E b \in Batches : q = <<Op("batchCall", b)>>
         /\ Head(q).op = "callWith" => \E b \in Passed : q = <<Op("callWith", b)>>
         /\ Head(q).op = "close" => \E o \in Objects : q = <<Op("close", o)>>
<1>1. CASE CallShape(q)
  BY <1>1, TailSteps, OpIs DEF CallShape, aO, rf, un, fr, cl, mk
<1>2. CASE MakeShape(q)
  BY <1>2, TailSteps, OpIs DEF MakeShape, aO, rf, un, fr, cl, mk
<1>3. CASE CloseShape(q)
  BY <1>3, TailSteps, OpIs DEF CloseShape, aO, rf, un, fr, cl, mk
<1> QED
  BY <1>1, <1>2, <1>3 DEF Shape

(* An assertOpen comes first, and a call that is refused there has taken nothing. *)
LEMMA AssertOpenForms ==
  ASSUME NEW q, Shape(q), q # <<>>, Head(q).op = "assertOpen"
  PROVE  \/ q = <<aO(Db), Op("call", Db)>>
         \/ \E i \in Iters : q = <<aO(i), Op("iterCall", i)>>
         \/ \E b \in Batches : q = <<aO(b), Op("batchCall", b)>>
         \/ \E b \in Passed : q = <<aO(Db), Op("callWith", b)>>
         \/ \E d \in Wrappers : q = <<aO(Db), rf(Db), mk(d)>>
         \/ \E i \in Iters : source[i] # None /\ q = <<aO(Db), rf(Db), rf(source[i]), mk(i)>>
<1>1. CASE CallShape(q)
  BY <1>1, TailSteps, OpIs DEF CallShape, aO, rf, un, fr, cl, mk
<1>2. CASE MakeShape(q)
  BY <1>2, TailSteps, OpIs DEF MakeShape, aO, rf, un, fr, cl, mk
<1>3. CASE CloseShape(q)
  BY <1>3, TailSteps, OpIs DEF CloseShape, aO, rf, un, fr, cl, mk
<1> QED
  BY <1>1, <1>2, <1>3 DEF Shape

(* A quiet step gives up no claim. *)
LEMMA QuietClaims ==
  ASSUME NEW q, Shape(q), q # <<>>, Head(q).op \in Quiet
  PROVE  SameClaims(q, Tail(q))
<1>1. QuietTail(q)
  BY QuietTails
<1>2. \A n, o : n \notin Quiet => (Has(Tail(q), Op(n, o)) <=> Has(q, Op(n, o)))
  BY <1>1, OpIs DEF QuietTail
<1>3. \A n, o : n \notin Quiet => Head(q) # Op(n, o)
  BY OpIs
<1>4. \A o : ~ Closing(q, o)
  BY <1>3, TailSteps DEF Closing, un, Quiet
<1>5. \A o : Gave(q, o) <=> Gave(Tail(q), o)
  <2>1. \A o : Gave(q, o) <=> Has(q, cl(o)) /\ ~ Has(q, un(Db))
    BY <1>3 DEF Gave, cl, Quiet
  <2>2. \A r, x : Has(r, x) => r # <<>>
    BY DEF Has
  <2>3. \A o : Has(Tail(q), cl(o)) <=> Has(q, cl(o))
    BY <1>2 DEF cl, Quiet
  <2>4. Has(Tail(q), un(Db)) <=> Has(q, un(Db))
    BY <1>2 DEF un, Quiet
  <2> QED
    BY <1>1, <2>1, <2>2, <2>3, <2>4 DEF Gave, QuietTail
<1> QED
  BY <1>1, <1>2, <1>4, <1>5 DEF SameClaims, Took, TookSnap, GaveSnap, QuietTail, Quiet, rf, un, cl, mk

(* A call that is refused has taken no reference. *)
LEMMA RefusedClaims ==
  ASSUME NEW q, Shape(q), q # <<>>, Head(q).op = "assertOpen"
  PROVE  SameClaims(q, <<>>)
<1>1. \A o : ~ Has(q, cl(o))
  BY AssertOpenForms, HasSteps, OpIs DEF aO, rf, cl, mk
<1>2. \A d : Has(q, mk(d)) => Has(q, rf(Db))
  BY AssertOpenForms, HasSteps, OpIs DEF aO, rf, cl, mk
<1>3. \A o : ~ Closing(q, o)
  BY TailSteps, OpIs DEF Closing, un
<1>4. \A o : ~ Closing(<<>>, o)
  BY TailSteps DEF Closing
<1> QED
  BY <1>1, <1>2, <1>3, <1>4, HasSteps DEF SameClaims, Took, Gave, TookSnap, GaveSnap

(* A call that has its native object still to free has given nothing back. *)
LEMMA FreeIsFirst ==
  ASSUME Typed, NEW q, Shape(q), NEW d \in Wrappers, Has(q, fr(d))
  PROVE  ~ Gave(q, d) /\ (d \in Iters /\ source[d] # None => ~ GaveSnap(q, d, source[d]))
<1>1. \/ \E s \in Snaps : q = <<fr(s), un(Db), cl(s)>>
      \/ \E i \in Iters : source[i] = None /\ q = <<fr(i), un(Db), cl(i)>>
      \/ \E i \in Iters : source[i] # None /\ q = <<fr(i), un(source[i]), un(Db), cl(i)>>
      \/ \E i \in Iters : source[i] # None /\ q = <<fr(source[i]), un(Db), cl(source[i]), un(Db), cl(i)>>
  <2>1. Db # d /\ d \notin Batches
    BY NativeConstants DEF Wrappers
  <2>2. ~ CallShape(q)
    BY HasSteps, OpIs DEF CallShape, aO, rf, un, fr, cl, mk
  <2>3. ~ MakeShape(q)
    BY HasSteps, OpIs DEF MakeShape, aO, rf, un, fr, cl, mk
  <2> QED
    BY <2>1, <2>2, <2>3, HasSteps, OpIs DEF Shape, CloseShape, aO, rf, un, fr, cl, mk
<1>2. \A i \in Iters : source[i] # None => source[i] \in Snaps
  BY DEF Typed
<1>3. Has(q, un(Db)) /\ Head(q) # cl(d)
  BY <1>1, HasSteps, TailSteps, OpIs DEF un, fr, cl
<1>4. d \in Iters /\ source[d] # None => Has(q, un(source[d]))
  BY <1>1, <1>2, HasSteps, TailSteps, OpIs, NativeConstants DEF un, fr, cl
<1> QED
  BY <1>3, <1>4 DEF Gave, GaveSnap

-----------------------------------------------------------------------------
(***************************************************************************)
(* Holders.                                                                *)
(***************************************************************************)
LEMMA SameHolders ==
  ASSUME Typed, NEW t \in Threads, NEW r, todo' = [todo EXCEPT ![t] = r], SameClaims(todo[t], r),
         UNCHANGED <<mPtr, made, closes, source>>
  PROVE  /\ \A h, o : Holds(h, o)' <=> Holds(h, o)
         /\ \A o : BeingClosed(o)' <=> BeingClosed(o)
<1>1. \A u \in Threads : SameClaims(todo[u], todo'[u])
  BY DEF Typed, SameClaims
<1>2. \A o : BeingClosed(o)' <=> BeingClosed(o)
  BY <1>1 DEF BeingClosed, SameClaims
<1>3. \A d : HoldsDb(d)' <=> HoldsDb(d)
  BY <1>1 DEF HoldsDb, SameClaims
<1>4. \A i, s : HoldsSnap(i, s)' <=> HoldsSnap(i, s)
  BY <1>1 DEF HoldsSnap, SameClaims
<1>5. \A o : HoldsItself(o)' <=> HoldsItself(o)
  BY <1>1 DEF HoldsItself, SameClaims
<1> QED
  BY <1>2, <1>3, <1>4, <1>5 DEF Holds

(* What is held has its native object, and nobody is closing it. *)
LEMMA HeldIsAlive ==
  ASSUME NativeInv, NEW h \in Objects, NEW o \in mPtr, Holds(h, o)
  PROVE  mRefCount[o] # 0 /\ ~ BeingClosed(o) /\ o \in native
<1>1. o \in made /\ o \in Objects /\ mRefCount[o] \in Nat
  BY DEF NativeInv, Typed, PointersAreSound
<1>2. IsFiniteSet(Holders(o)) /\ mRefCount[o] = Cardinality(Holders(o))
  BY <1>1 DEF NativeInv, CountsAreHolders
<1>3. h \in Holders(o)
  BY DEF Holders
<1>4. mRefCount[o] # 0
  BY <1>2, <1>3, FS_EmptySet
<1> QED
  BY <1>4 DEF NativeInv, CountsAreHolders, PointersAreSound

(* A native object that is not being closed holds its own owners. *)
LEMMA AliveHolds ==
  ASSUME NativeInv, NEW d \in Wrappers, d \in native
  PROVE  /\ Holds(d, Db) /\ Db \in native
         /\ d \in Iters /\ source[d] # None => Holds(d, source[d]) /\ source[d] \in native
<1>1. d \in mPtr /\ d \in Objects /\ Db \in Objects
  BY DEF NativeInv, PointersAreSound, Objects, Wrappers
<1>2. \A t \in Threads : Has(todo[t], cl(d)) => Has(todo[t], fr(d))
  BY <1>1 DEF NativeInv, CallsAreSound, CloseIsSound
<1>3. \A t \in Threads : ~ Gave(todo[t], d) /\ (d \in Iters /\ source[d] # None => ~ GaveSnap(todo[t], d, source[d]))
  <2> SUFFICES ASSUME NEW t \in Threads, Has(todo[t], cl(d))
               PROVE  ~ Gave(todo[t], d) /\ (d \in Iters /\ source[d] # None => ~ GaveSnap(todo[t], d, source[d]))
    BY DEF Gave, GaveSnap
  <2>1. Shape(todo[t]) /\ Has(todo[t], fr(d))
    BY <1>2 DEF NativeInv, CallsAreSound
  <2>2. Typed
    BY DEF NativeInv
  <2> QED
    BY <2>1, <2>2, FreeIsFirst
<1>4. Holds(d, Db)
  BY <1>1, <1>3 DEF Holds, HoldsDb
<1>5. ASSUME d \in Iters, source[d] # None PROVE Holds(d, source[d]) /\ source[d] \in Objects /\ source[d] # d
  <2>1. source[d] \in Snaps
    BY <1>5 DEF NativeInv, Typed
  <2> QED
    BY <2>1, <1>1, <1>3, <1>5, NativeConstants DEF Holds, HoldsSnap, Objects
<1>6. Db # d
  BY NativeConstants DEF Wrappers
<1>7. \A o \in Objects : o # d /\ Holds(d, o) => o \in mPtr
  BY <1>1 DEF NativeInv, PointersAreSound
<1> QED
  BY <1>1, <1>4, <1>5, <1>6, <1>7, HeldIsAlive

(* Shapes stay while the sources of iterators stay. *)
LEMMA SameShapes ==
  ASSUME UNCHANGED source
  PROVE  \A q : Shape(q) => Shape(q)'
  BY DEF Shape, CallShape, MakeShape, CloseShape

(* What its own thread finds open is not closed yet. *)
LEMMA OwnIsOpen ==
  ASSUME NativeInv, NEW t \in Threads, NEW o \in Iters \cup Batches, o \in mPtr, owner[o] = t,
         ~ Has(todo[t], cl(o)), ~ Closing(todo[t], o)
  PROVE  closes[o] = 0
<1>1. o \in Objects /\ o \in made /\ o # Db /\ o \notin Snaps
  BY NativeConstants DEF NativeInv, PointersAreSound, Objects
<1>2. ~ BeingClosed(o)
  BY <1>1 DEF NativeInv, CallsAreSound, CloseIsSound, BeingClosed
<1>3. IsFiniteSet(Holders(o)) /\ Cardinality(Holders(o)) # 0
  BY <1>1, <1>2 DEF NativeInv, CountsAreHolders
<1>4. PICK h \in Objects : Holds(h, o)
  BY <1>3, FS_EmptySet DEF Holders
<1>5. HoldsItself(o)
  BY <1>1, <1>4 DEF Holds
<1> QED
  BY <1>1, <1>5 DEF HoldsItself, NativeInv, CallsAreSound, CloseIsSound

(* A step that takes and gives back nothing. *)
LEMMA QuietStep ==
  ASSUME NativeInv, NEW t \in Threads, todo[t] # <<>>, Now(t).op \in Quiet,
         todo' = [todo EXCEPT ![t] = Rest(t)],
         UNCHANGED <<mPtr, mRefCount, made, closes, source, owner, monitor, destroyOnClose>>,
         native' = IF Now(t).op = "free" THEN native \ {Now(t).obj} ELSE native,
         wild' = FALSE, destroyed' \in BOOLEAN, destroyed => destroyed',
         Now(t).op = "assertOpen" => Now(t).obj \in mPtr,
         Now(t).op = "destroyIfFlag" => destroyed' \/ ~ destroyOnClose,
         Now(t).op = "destroyIfClosed" => destroyed' \/ (Db \in mPtr /\ ~ BeingClosed(Db))
  PROVE  NativeInv'
<1>1. PICK q : q = todo[t]
  OBVIOUS
<1>2. PICK r : r = Tail(q)
  OBVIOUS
<1>3. PICK x : x = Head(q)
  OBVIOUS
<1>4. /\ Typed /\ q \in Seq(Ops) /\ q # <<>> /\ Shape(q) /\ x.op \in Quiet /\ x = Now(t)
      /\ r \in Seq(Ops) /\ todo' = [todo EXCEPT ![t] = r] /\ todo \in [Threads -> Seq(Ops)]
  BY <1>1, <1>2, <1>3 DEF NativeInv, Typed, CallsAreSound, Now, Rest
<1>5. SameClaims(q, r) /\ Shape(r) /\ QuietTail(q)
  BY <1>2, <1>3, <1>4, QuietClaims, QuietShapes, QuietTails
<1>6. \A y : Has(r, y) <=> Has(q, y) /\ y # x
  BY <1>2, <1>3, <1>5 DEF QuietTail
<1>7. todo'[t] = r /\ \A u \in Threads \ {t} : todo'[u] = todo[u]
  BY <1>4
<1>8. (\A h, o : Holds(h, o)' <=> Holds(h, o)) /\ (\A o : BeingClosed(o)' <=> BeingClosed(o))
  <2>1. SameClaims(todo[t], r)
    BY <1>1, <1>5
  <2> QED
    BY <1>4, <2>1, SameHolders
<1>9. Typed'
  BY <1>4 DEF Typed, Now
<1>10. \A u \in Threads : Shape(todo[u])'
  <2>1. \A v : Shape(v) => Shape(v)'
    BY SameShapes
  <2> QED
    BY <1>4, <1>5, <1>7, <2>1 DEF NativeInv, CallsAreSound
<1>11. \A u \in Threads : MakeIsSound(u, todo[u])'
  <2>1. \A u, v : MakeIsSound(u, v) => MakeIsSound(u, v)'
    BY DEF MakeIsSound
  <2>2. MakeIsSound(t, q)
    BY <1>1 DEF NativeInv, CallsAreSound
  <2>3. MakeIsSound(t, r)
    <3>1. x = aO(Db) => Db \in mPtr
      BY <1>4, OpIs DEF aO
    <3> QED
      BY <1>6, <2>2, <3>1 DEF MakeIsSound
  <2> QED
    BY <1>7, <2>1, <2>3 DEF NativeInv, CallsAreSound
<1>12. \A u \in Threads : UseIsSound(u, todo[u])'
  <2>1. \A u, v : UseIsSound(u, v) => UseIsSound(u, v)'
    BY DEF UseIsSound
  <2>2. UseIsSound(t, q)
    BY <1>1 DEF NativeInv, CallsAreSound
  <2>3. \A o : x = aO(o) => o \in mPtr
    BY <1>4, OpIs DEF aO
  <2>4. \A o : x = aO(o) => ~ Has(q, cl(o)) /\ ~ Closing(q, o)
    <3>1. ASSUME NEW o, x = aO(o) PROVE ~ Has(q, cl(o)) /\ ~ Closing(q, o)
      <4>1. x.op = "assertOpen"
        BY <3>1, OpIs DEF aO
      <4>2. SameClaims(q, <<>>)
        BY <1>3, <1>4, <4>1, RefusedClaims
      <4>3. ~ Has(<<>>, cl(o)) /\ ~ Closing(<<>>, o)
        BY HasSteps, TailSteps DEF Closing
      <4> QED
        BY <4>2, <4>3 DEF SameClaims
    <3> QED
      BY <3>1
  <2>5. \A o \in Iters \cup Batches : owner[o] = t /\ x = aO(o) => closes[o] = 0
    BY <1>1, <2>3, <2>4, OwnIsOpen
  <2>6. UseIsSound(t, r)
    BY <1>6, <2>2, <2>3, <2>5 DEF UseIsSound
  <2> QED
    BY <1>7, <2>1, <2>6 DEF NativeInv, CallsAreSound
<1>13. \A u \in Threads : CloseIsSound(u, todo[u])'
  <2>1. \A o : (Has(r, cl(o)) <=> Has(q, cl(o))) /\ (Closing(r, o) <=> Closing(q, o))
    BY <1>5 DEF SameClaims
  <2>2. \A o : r # <<un(o)>>
    BY <1>2, <1>5 DEF QuietTail, Closing
  <2>3. CloseIsSound(t, q) /\ \A u \in Threads : CloseIsSound(u, todo[u])
    BY <1>1 DEF NativeInv, CallsAreSound
  <2>4. CASE x.op # "free"
    <3>1. native' = native /\ \A o : Has(r, fr(o)) <=> Has(q, fr(o))
      BY <1>4, <1>6, <2>4, OpIs DEF fr
    <3>2. CloseIsSound(t, r)'
      BY <2>1, <2>2, <2>3, <3>1 DEF CloseIsSound
    <3>3. \A u, v : CloseIsSound(u, v) => CloseIsSound(u, v)'
      BY <3>1 DEF CloseIsSound
    <3> QED
      BY <1>7, <2>3, <3>2, <3>3
  <2>5. CASE x.op = "free"
    <3>1. PICK p \in Objects : x = fr(p) /\ Has(q, cl(p))
      BY <1>3, <1>4, <2>5, FreeClears
    <3>2. native' = native \ {p} /\ p \in native /\ \A o : Has(r, fr(o)) <=> Has(q, fr(o)) /\ o # p
      <4>1. Has(q, fr(p))
        BY <1>3, <1>5, <3>1 DEF QuietTail
      <4> QED
        BY <1>4, <1>6, <2>3, <2>5, <3>1, <4>1, OpIs DEF fr, CloseIsSound
    <3>3. CloseIsSound(t, r)'
      BY <2>1, <2>2, <2>3, <3>2 DEF CloseIsSound
    <3>4. \A u \in Threads \ {t} : ~ Has(todo[u], cl(p))
      BY <2>3, <3>1 DEF CloseIsSound
    <3>5. ASSUME NEW u \in Threads \ {t}, NEW v, v = todo[u] PROVE CloseIsSound(u, v)'
      BY <2>3, <3>2, <3>4, <3>5 DEF CloseIsSound
    <3> QED
      BY <1>7, <3>3, <3>5
  <2> QED
    BY <2>4, <2>5
<1>14. CallsAreSound'
  <2>1. \A o : Closing(r, o) <=> Closing(q, o)
    BY <1>5 DEF SameClaims
  <2>2. \A u, v \in Threads : Closing(todo'[u], Db) /\ Closing(todo'[v], Db) => u = v
    BY <1>1, <1>7, <2>1 DEF NativeInv, CallsAreSound
  <2> QED
    BY <1>10, <1>11, <1>12, <1>13, <2>2 DEF CallsAreSound
<1>15. PointersAreSound'
  <2>1. native' \subseteq native
    BY <1>4
  <2>2. \A o \in mPtr \ native' : BeingClosed(o)
    <3> SUFFICES ASSUME NEW o \in mPtr, o \in native, o \notin native' PROVE BeingClosed(o)'
      BY <1>8 DEF NativeInv, PointersAreSound
    <3>1. x.op = "free" /\ o = x.obj
      BY <1>4
    <3>2. Has(q, cl(o))
      BY <1>3, <1>4, <3>1, FreeClears, OpIs DEF fr
    <3>3. Has(r, cl(o))
      BY <1>5, <3>2 DEF SameClaims
    <3> QED
      BY <1>7, <3>3 DEF BeingClosed
  <2> QED
    BY <1>8, <2>1, <2>2 DEF NativeInv, PointersAreSound
<1>16. CountsAreHolders'
  <2>1. \A o : Holders(o)' = Holders(o)
    BY <1>8 DEF Holders
  <2> QED
    BY <1>8, <2>1 DEF NativeInv, CountsAreHolders
<1>17. DestroyIsKept'
  <2> SUFFICES ASSUME destroyOnClose, ~ destroyed'
               PROVE  \/ \E u \in Threads : todo'[u] = <<Op("destroyIfClosed", Db)>>
                      \/ /\ Db \in mPtr
                         /\ \A u \in Threads : Has(todo'[u], cl(Db)) => Has(todo'[u], Op("destroyIfFlag", Db))
    BY DEF DestroyIsKept
  <2>1. ~ destroyed /\ x.op # "destroyIfFlag"
    BY <1>4
  <2>2. CASE x.op = "destroyIfClosed"
    <3>1. Db \in mPtr /\ ~ BeingClosed(Db)'
      BY <1>4, <1>8, <2>2
    <3> QED
      BY <3>1 DEF BeingClosed
  <2>3. CASE x.op # "destroyIfClosed"
    <3>1. x # Op("destroyIfFlag", Db) /\ x # cl(Db)
      BY <1>4, <2>1, OpIs DEF cl, Quiet
    <3>2. q # <<Op("destroyIfClosed", Db)>>
      BY <1>3, <2>3, TailSteps, OpIs
    <3>3. \A u \in Threads :
            /\ todo[u] = <<Op("destroyIfClosed", Db)>> => todo'[u] = todo[u]
            /\ Has(todo'[u], cl(Db)) <=> Has(todo[u], cl(Db))
            /\ Has(todo'[u], Op("destroyIfFlag", Db)) <=> Has(todo[u], Op("destroyIfFlag", Db))
      BY <1>1, <1>6, <1>7, <3>1, <3>2
    <3> QED
      BY <2>1, <3>3 DEF NativeInv, DestroyIsKept
  <2> QED
    BY <2>2, <2>3
<1> QED
  BY <1>9, <1>14, <1>15, <1>16, <1>17 DEF NativeInv

-----------------------------------------------------------------------------
(***************************************************************************)
(* The actions of a call.                                                  *)
(***************************************************************************)

(* The same but for the wrapper's reference to p. *)
SameClaimsBut(q, r, p) ==
    \A o :
       /\ Took(q, o) <=> Took(r, o)
       /\ Gave(q, o) <=> Gave(r, o)
       /\ o # p => (Closing(q, o) <=> Closing(r, o))
       /\ Has(q, cl(o)) <=> Has(r, cl(o))
       /\ \A s : (TookSnap(q, o, s) <=> TookSnap(r, o, s)) /\ (GaveSnap(q, o, s) <=> GaveSnap(r, o, s))

(* A call that is refused, or close() of what is not open: the thread is idle. *)
LEMMA IdleStep ==
  ASSUME NativeInv, NEW t \in Threads, todo' = [todo EXCEPT ![t] = <<>>],
         NEW p, p \notin mPtr, p \in Objects => closes[p] = 1, SameClaimsBut(todo[t], <<>>, p),
         todo[t] # <<Op("destroyIfClosed", Db)>>,
         UNCHANGED <<mPtr, mRefCount, native, made, closes, source, owner, monitor, destroyOnClose, destroyed, wild>>
  PROVE  NativeInv'
<1>1. PICK q : q = todo[t]
  OBVIOUS
<1>2. Typed /\ todo \in [Threads -> Seq(Ops)] /\ <<>> \in Seq(Ops)
  BY DEF NativeInv, Typed
<1>3. todo'[t] = <<>> /\ \A u \in Threads \ {t} : todo'[u] = todo[u]
  BY <1>2
<1>4. (\A x : ~ Has(<<>>, x)) /\ (\A o : ~ Closing(<<>>, o))
  BY HasSteps, TailSteps DEF Closing
<1>5. \A u \in Threads : SameClaimsBut(todo[u], todo'[u], p)
  BY <1>3 DEF SameClaimsBut
<1>6. \A h, o : o # p \/ h # o => (Holds(h, o)' <=> Holds(h, o))
  <2>1. \A d : HoldsDb(d)' <=> HoldsDb(d)
    BY <1>5 DEF HoldsDb, SameClaimsBut
  <2>2. \A i, s : HoldsSnap(i, s)' <=> HoldsSnap(i, s)
    BY <1>5 DEF HoldsSnap, SameClaimsBut
  <2>3. \A o : o # p => (HoldsItself(o)' <=> HoldsItself(o))
    BY <1>5 DEF HoldsItself, SameClaimsBut
  <2> QED
    BY <2>1, <2>2, <2>3 DEF Holds
<1>7. \A o : BeingClosed(o)' <=> BeingClosed(o)
  BY <1>5 DEF BeingClosed, SameClaimsBut
<1>8. Typed'
  BY <1>2 DEF Typed
<1>9. CallsAreSound'
  <2>1. Shape(<<>>)'
    BY DEF Shape, CallShape
  <2>2. \A u \in Threads : Shape(todo[u])'
    <3>1. \A v : Shape(v) => Shape(v)'
      BY SameShapes
    <3> QED
      BY <1>3, <2>1, <3>1 DEF NativeInv, CallsAreSound
  <2>3. MakeIsSound(t, <<>>)' /\ UseIsSound(t, <<>>)'
    BY <1>4 DEF MakeIsSound, UseIsSound
  <2>4. CloseIsSound(t, <<>>)'
    <3>1. \A o : ~ Has(todo[t], cl(o))
      BY <1>4 DEF SameClaimsBut
    <3>2. \A o \in Objects : monitor[o] # t
      BY <3>1 DEF NativeInv, CallsAreSound, CloseIsSound
    <3>3. \A o : <<>> # <<un(o)>>
      BY TailSteps
    <3> QED
      BY <1>4, <3>2, <3>3 DEF CloseIsSound
  <2>5. \A u, v : MakeIsSound(u, v) => MakeIsSound(u, v)'
    BY DEF MakeIsSound
  <2>6. \A u, v : UseIsSound(u, v) => UseIsSound(u, v)'
    BY DEF UseIsSound
  <2>7. \A u, v : CloseIsSound(u, v) => CloseIsSound(u, v)'
    BY DEF CloseIsSound
  <2>8. \A u \in Threads : MakeIsSound(u, todo[u])' /\ UseIsSound(u, todo[u])' /\ CloseIsSound(u, todo[u])'
    BY <1>3, <2>3, <2>4, <2>5, <2>6, <2>7 DEF NativeInv, CallsAreSound
  <2>9. \A u, v \in Threads : Closing(todo'[u], Db) /\ Closing(todo'[v], Db) => u = v
    BY <1>3, <1>4 DEF NativeInv, CallsAreSound
  <2> QED
    BY <2>2, <2>8, <2>9 DEF CallsAreSound
<1>10. PointersAreSound'
  BY <1>6, <1>7 DEF NativeInv, PointersAreSound
<1>11. CountsAreHolders'
  <2>1. \A o : o # p => Holders(o)' = Holders(o)
    BY <1>6 DEF Holders
  <2>2. \A o \in made : o \in Objects
    BY <1>2 DEF Typed
  <2> QED
    BY <1>7, <2>1, <2>2 DEF NativeInv, CountsAreHolders
<1>12. DestroyIsKept'
  BY <1>3, <1>4 DEF NativeInv, DestroyIsKept
<1> QED
  BY <1>8, <1>9, <1>10, <1>11, <1>12 DEF NativeInv

(* AssertOpen keeps the invariant. *)
LEMMA AssertOpenStep ==
  ASSUME NativeInv, NEW t \in Threads, AssertOpen(t)
  PROVE  NativeInv'
<1>1. /\ todo[t] # <<>> /\ Now(t).op = "assertOpen" /\ Shape(todo[t])
      /\ UNCHANGED <<mPtr, mRefCount, native, made, closes, source, owner, monitor, destroyOnClose, destroyed, wild>>
      /\ ~ wild /\ destroyed \in BOOLEAN
  BY DEF NativeInv, Typed, CallsAreSound, AssertOpen, At, Idle, handles
<1>2. CASE Now(t).obj \in mPtr
  <2>1. todo' = [todo EXCEPT ![t] = Rest(t)] /\ wild' = FALSE /\ Now(t).op \in Quiet
    BY <1>1, <1>2 DEF AssertOpen, Quiet, NativeInv, Typed
  <2> QED
    BY <1>1, <1>2, <2>1, QuietStep
<1>3. CASE Now(t).obj \notin mPtr
  <2>1. todo' = [todo EXCEPT ![t] = <<>>]
    BY <1>3 DEF AssertOpen
  <2>2. SameClaims(todo[t], <<>>)
    BY <1>1, RefusedClaims DEF Now
  <2>3. SameClaimsBut(todo[t], <<>>, None)
    BY <2>2 DEF SameClaims, SameClaimsBut
  <2>4. None \notin mPtr /\ None \notin Objects
    BY NativeConstants DEF Objects, NativeInv, Typed
  <2>5. todo[t] # <<Op("destroyIfClosed", Db)>>
    BY <1>1, TailSteps, OpIs DEF Now
  <2> QED
    BY <1>1, <2>1, <2>3, <2>4, <2>5, IdleStep
<1> QED
  BY <1>2, <1>3

(* What has its wrapper's reference and is open has its native object. *)
LEMMA OpenIsAlive ==
  ASSUME NativeInv, NEW o \in Objects, o \in mPtr, closes[o] = 0
  PROVE  o \in native
<1>1. Holds(o, o)
  BY DEF NativeInv, PointersAreSound, Holds, HoldsItself
<1> QED
  BY <1>1, HeldIsAlive

(* The native calls of put, get, delete, of iterators and of batches. *)
LEMMA CallStep ==
  ASSUME NativeInv, NEW t \in Threads, Call(t) \/ IterCall(t) \/ BatchCall(t) \/ CallWith(t)
  PROVE  NativeInv'
<1>1. /\ todo[t] # <<>> /\ Shape(todo[t]) /\ todo' = [todo EXCEPT ![t] = Rest(t)]
      /\ UNCHANGED <<mPtr, mRefCount, native, made, closes, source, owner, monitor, destroyOnClose, destroyed>>
      /\ wild = FALSE /\ destroyed \in BOOLEAN
      /\ Now(t).op \in {"call", "iterCall", "batchCall", "callWith"}
  BY DEF NativeInv, Typed, CallsAreSound, Call, IterCall, BatchCall, CallWith, At, Idle, handles
<1>2. UseIsSound(t, todo[t]) /\ Db \in Objects
  BY DEF NativeInv, CallsAreSound, Objects
<1>3. wild' = FALSE
  <2>1. CASE Call(t)
    <3>1. todo[t] = <<Op("call", Db)>>
      BY <1>1, <2>1, UseForms DEF Call, At, Now
    <3>2. Db \in mPtr /\ closes[Db] = 0
      BY <1>2, <3>1, HasSteps, OpIs DEF UseIsSound, aO
    <3> QED
      BY <1>1, <1>2, <2>1, <3>2, OpenIsAlive DEF Call
  <2>2. CASE IterCall(t)
    <3>1. PICK i \in Iters : todo[t] = <<Op("iterCall", i)>>
      BY <1>1, <2>2, UseForms DEF IterCall, At, Now
    <3>2. closes[i] = 0 /\ i \in made
      BY <1>2, <3>1, HasSteps, OpIs DEF UseIsSound, aO
    <3>3. i \in Objects /\ i \in mPtr /\ i \in Wrappers
      BY <3>2, NativeConstants DEF NativeInv, PointersAreSound, Objects, Wrappers
    <3>4. i \in native /\ Db \in native /\ (source[i] # None => source[i] \in native)
      BY <3>2, <3>3, OpenIsAlive, AliveHolds
    <3>5. Now(t).obj = i
      BY <3>1, TailSteps, OpIs DEF Now
    <3> QED
      BY <1>1, <2>2, <3>3, <3>4, <3>5 DEF IterCall
  <2>3. CASE BatchCall(t)
    <3>1. PICK b \in Batches : todo[t] = <<Op("batchCall", b)>>
      BY <1>1, <2>3, UseForms DEF BatchCall, At, Now
    <3>2. closes[b] = 0 /\ b \in made
      BY <1>2, <3>1, HasSteps, OpIs DEF UseIsSound, aO
    <3>3. b \in Objects /\ b \in mPtr
      BY <3>2, NativeConstants DEF NativeInv, PointersAreSound, Objects
    <3>4. Now(t).obj = b
      BY <3>1, TailSteps, OpIs DEF Now
    <3> QED
      BY <1>1, <2>3, <3>2, <3>3, <3>4, OpenIsAlive DEF BatchCall
  <2>4. CASE CallWith(t)
    <3>1. PICK b \in Passed : todo[t] = <<Op("callWith", b)>>
      BY <1>1, <2>4, UseForms DEF CallWith, At, Now
    <3>2. /\ Db \in mPtr /\ closes[Db] = 0 /\ b \in made
          /\ (b \in Batches => owner[b] = t) /\ (b \in Snaps => closes[b] = 0)
      BY <1>2, <3>1, HasSteps, OpIs DEF UseIsSound, aO
    <3>3. ~ Has(todo[t], cl(b)) /\ b \in Objects
      BY <3>1, HasSteps, OpIs DEF cl, Objects, Passed
    <3>4. ASSUME b \in Batches PROVE b \notin mPtr \ native
      <4>1. ~ BeingClosed(b)
        BY <3>2, <3>3, <3>4 DEF BeingClosed, NativeInv, CallsAreSound, CloseIsSound
      <4> QED
        BY <4>1 DEF NativeInv, PointersAreSound
    <3>7. ASSUME b \in Snaps PROVE b \notin mPtr \ native
      <4>1. b \in mPtr
        BY <3>2, <3>7, NativeConstants DEF NativeInv, PointersAreSound
      <4> QED
        BY <3>2, <3>3, <3>7, <4>1, OpenIsAlive
    <3>5. b \notin mPtr \ native
      BY <3>4, <3>7 DEF Passed
    <3>6. Now(t).obj = b
      BY <3>1, TailSteps, OpIs DEF Now
    <3> QED
      BY <1>1, <1>2, <2>4, <3>2, <3>5, <3>6, OpenIsAlive DEF CallWith
  <2> QED
    BY <2>1, <2>2, <2>3, <2>4
<1> QED
  BY <1>1, <1>3, QuietStep DEF Quiet

(* nativeClose, nativeDestroy, nativeReleaseSnapshot *)
LEMMA FreeStep ==
  ASSUME NativeInv, NEW t \in Threads, FreeNative(t)
  PROVE  NativeInv'
<1>1. /\ todo[t] # <<>> /\ Shape(todo[t]) /\ todo' = [todo EXCEPT ![t] = Rest(t)]
      /\ UNCHANGED <<mPtr, mRefCount, made, closes, source, owner, monitor, destroyOnClose, destroyed>>
      /\ wild = FALSE /\ destroyed \in BOOLEAN /\ Now(t).op = "free" /\ native' = native \ {Now(t).obj}
  BY DEF NativeInv, Typed, CallsAreSound, FreeNative, At, Idle, handles
<1>2. PICK o \in Objects : Now(t) = fr(o) /\ Has(todo[t], cl(o))
  BY <1>1, FreeClears DEF Now, NativeInv
<1>3. Has(todo[t], fr(o))
  BY <1>1, <1>2, QuietTails DEF QuietTail, Now, Quiet
<1>4. o \in native /\ native \subseteq mPtr
  BY <1>2, <1>3 DEF NativeInv, CallsAreSound, CloseIsSound, PointersAreSound
<1>5. o \notin Batches => Db \in native
  <2>1. CASE o = Db
    BY <1>4, <2>1
  <2>2. CASE o \in Wrappers
    BY <1>4, <2>2, AliveHolds
  <2> QED
    BY <2>1, <2>2 DEF Objects, Wrappers
<1>6. Now(t).obj = o
  BY <1>2, OpIs DEF fr
<1>7. o \in Snaps => o \notin Batches
  BY NativeConstants
<1>8. wild' = FALSE
  BY <1>1, <1>4, <1>5, <1>6, <1>7 DEF FreeNative
<1> QED
  BY <1>1, <1>8, QuietStep DEF Quiet

(* nativeDestroy, called by closeNativeObject or by destroy() *)
LEMMA DestroyFilesStep ==
  ASSUME NativeInv, NEW t \in Threads, DestroyFiles(t)
  PROVE  NativeInv'
<1>1. /\ todo[t] # <<>> /\ Shape(todo[t]) /\ todo' = [todo EXCEPT ![t] = Rest(t)]
      /\ UNCHANGED <<mPtr, mRefCount, native, made, closes, source, owner, monitor, destroyOnClose>>
      /\ wild' = FALSE /\ destroyed \in BOOLEAN /\ Now(t).op \in {"destroyIfFlag", "destroyIfClosed"}
  BY DEF NativeInv, Typed, CallsAreSound, DestroyFiles, At, Idle, handles
<1>2. destroyed' \in BOOLEAN /\ (destroyed => destroyed')
  BY <1>1 DEF DestroyFiles, NativeDestroy
<1>3. CASE Now(t).op = "destroyIfFlag"
  <2>1. Has(todo[t], cl(Db)) /\ ~ Has(todo[t], fr(Db))
    BY <1>1, <1>3, DestroyForms, HasSteps, OpIs DEF Now, cl, fr
  <2>2. Db \notin native
    BY <2>1 DEF NativeInv, CallsAreSound, CloseIsSound, Objects
  <2>3. destroyOnClose => destroyed'
    BY <1>3, <2>2 DEF DestroyFiles, At, NativeDestroy
  <2> QED
    BY <1>1, <1>2, <1>3, <2>3, QuietStep DEF Quiet
<1>4. CASE Now(t).op = "destroyIfClosed"
  <2>1. todo[t] = <<Op("destroyIfClosed", Db)>>
    BY <1>1, <1>4, DestroyForms DEF Now
  <2>2. ~ Has(todo[t], cl(Db))
    BY <2>1, HasSteps, OpIs DEF cl
  <2>3. monitor[Db] \in {None, t}
    BY <1>4 DEF DestroyFiles, At, Free
  <2>4. ~ BeingClosed(Db)
    <3>1. Db \in Objects /\ None \notin Threads
      BY NativeConstants DEF Objects
    <3> QED
      BY <2>2, <2>3, <3>1 DEF BeingClosed, NativeInv, CallsAreSound, CloseIsSound
  <2>5. destroyed' \/ Db \in mPtr
    BY <1>4 DEF DestroyFiles, At, NativeDestroy, NativeInv, PointersAreSound
  <2> QED
    BY <1>1, <1>2, <1>4, <2>4, <2>5, QuietStep DEF Quiet
<1> QED
  BY <1>1, <1>3, <1>4

(* A thread turns to another list of steps, nothing else changes. *)
LEMMA SwitchStep ==
  ASSUME NativeInv, NEW t \in Threads, NEW r \in Seq(Ops), todo' = [todo EXCEPT ![t] = r],
         SameClaims(todo[t], r), Shape(r), MakeIsSound(t, r), UseIsSound(t, r), CloseIsSound(t, r),
         UNCHANGED <<mPtr, mRefCount, native, made, closes, source, owner, monitor, destroyed, wild>>,
         destroyOnClose' \in BOOLEAN,
         \/ r = <<Op("destroyIfClosed", Db)>>
         \/ UNCHANGED destroyOnClose /\ todo[t] # <<Op("destroyIfClosed", Db)>> /\ ~ Has(r, cl(Db))
  PROVE  NativeInv'
<1>1. Typed /\ todo \in [Threads -> Seq(Ops)]
  BY DEF NativeInv, Typed
<1>2. todo'[t] = r /\ \A u \in Threads \ {t} : todo'[u] = todo[u]
  BY <1>1
<1>3. (\A h, o : Holds(h, o)' <=> Holds(h, o)) /\ (\A o : BeingClosed(o)' <=> BeingClosed(o))
  BY <1>1, SameHolders
<1>4. Typed'
  BY <1>1 DEF Typed
<1>5. CallsAreSound'
  <2>1. \A v : Shape(v) => Shape(v)'
    BY SameShapes
  <2>2. \A u, v : MakeIsSound(u, v) => MakeIsSound(u, v)'
    BY DEF MakeIsSound
  <2>3. \A u, v : UseIsSound(u, v) => UseIsSound(u, v)'
    BY DEF UseIsSound
  <2>4. \A u, v : CloseIsSound(u, v) => CloseIsSound(u, v)'
    BY DEF CloseIsSound
  <2>5. \A u \in Threads : Shape(todo[u])'
    BY <1>2, <2>1 DEF NativeInv, CallsAreSound
  <2>6. \A u \in Threads : MakeIsSound(u, todo[u])' /\ UseIsSound(u, todo[u])' /\ CloseIsSound(u, todo[u])'
    BY <1>2, <2>2, <2>3, <2>4 DEF NativeInv, CallsAreSound
  <2>7. \A u, v \in Threads : Closing(todo'[u], Db) /\ Closing(todo'[v], Db) => u = v
    <3>1. \A u \in Threads : Closing(todo'[u], Db) <=> Closing(todo[u], Db)
      BY <1>2 DEF SameClaims
    <3> QED
      BY <3>1 DEF NativeInv, CallsAreSound
  <2> QED
    BY <2>5, <2>6, <2>7 DEF CallsAreSound
<1>6. PointersAreSound'
  BY <1>3 DEF NativeInv, PointersAreSound
<1>7. CountsAreHolders'
  <2>1. \A o : Holders(o)' = Holders(o)
    BY <1>3 DEF Holders
  <2> QED
    BY <1>3, <2>1 DEF NativeInv, CountsAreHolders
<1>8. DestroyIsKept'
  <2>1. CASE r = <<Op("destroyIfClosed", Db)>>
    BY <1>2, <2>1 DEF DestroyIsKept
  <2>2. CASE UNCHANGED destroyOnClose /\ todo[t] # <<Op("destroyIfClosed", Db)>> /\ ~ Has(r, cl(Db))
    BY <1>2, <2>2 DEF NativeInv, DestroyIsKept
  <2> QED
    BY <2>1, <2>2
<1> QED
  BY <1>4, <1>5, <1>6, <1>7, <1>8 DEF NativeInv

(* close(): only what is open is unreferenced. *)
LEMMA CloseBodyStep ==
  ASSUME NativeInv, NEW t \in Threads, CloseBody(t)
  PROVE  NativeInv'
<1>1. /\ todo[t] # <<>> /\ Shape(todo[t]) /\ Now(t).op = "close"
      /\ UNCHANGED <<mPtr, mRefCount, native, made, closes, source, owner, monitor, destroyOnClose, destroyed, wild>>
      /\ destroyOnClose \in BOOLEAN
  BY DEF NativeInv, Typed, CallsAreSound, CloseBody, At, Idle, handles
<1>2. PICK o \in Objects : todo[t] = <<Op("close", o)>>
  BY <1>1, UseForms DEF Now
<1>3. Now(t).obj = o /\ Rest(t) = <<>>
  BY <1>2, TailSteps, OpIs DEF Now, Rest
<1>4. todo[t] # <<Op("destroyIfClosed", Db)>>
  BY <1>1, TailSteps, OpIs DEF Now
<1>5. (\A c : Closing(todo[t], c) <=> c = o) /\ (\A c : Closing(<<un(o)>>, c) <=> c = o) /\ (\A c : ~ Closing(<<>>, c))
  <2>1. \A x, y : <<x>> = <<y>> <=> x = y
    BY TailSteps
  <2>2. \A c : Closing(todo[t], c) <=> c = o
    BY <1>2, <2>1, OpIs DEF Closing, un
  <2>3. \A c : Closing(<<un(o)>>, c) <=> c = o
    BY <2>1, OpIs DEF Closing, un
  <2>4. \A c : ~ Closing(<<>>, c)
    BY TailSteps DEF Closing
  <2> QED
    BY <2>2, <2>3, <2>4
<1>6. /\ \A c : ~ Has(todo[t], cl(c)) /\ ~ Has(todo[t], mk(c))
      /\ \A c : ~ Has(<<un(o)>>, cl(c)) /\ ~ Has(<<un(o)>>, mk(c))
      /\ \A x : ~ Has(<<>>, x)
  BY <1>2, HasSteps, OpIs DEF cl, mk, un
<1>7. closes[o] = 1 /\ o \in made /\ (o # Db => owner[o] = t) /\ \A c \in Objects : monitor[c] # t
  BY <1>5, <1>6 DEF NativeInv, CallsAreSound, CloseIsSound
<1>8. CASE o \in mPtr
  <2>1. todo' = [todo EXCEPT ![t] = <<un(o)>>]
    <3>1. <<un(o)>> \o <<>> = <<un(o)>>
      OBVIOUS
    <3> QED
      BY <1>3, <1>8, <3>1 DEF CloseBody, un
  <2>2. SameClaims(todo[t], <<un(o)>>)
    BY <1>5, <1>6 DEF SameClaims, Took, Gave, TookSnap, GaveSnap
  <2>3. Shape(<<un(o)>>)
    BY DEF Shape, CallShape
  <2>4. <<un(o)>> \in Seq(Ops)
    BY DEF un, Op, Ops
  <2>5. MakeIsSound(t, <<un(o)>>) /\ UseIsSound(t, <<un(o)>>)
    BY HasSteps, OpIs DEF MakeIsSound, UseIsSound, un, mk
  <2>6. CloseIsSound(t, <<un(o)>>)
    <3>1. \A c : <<un(o)>> = <<un(c)>> => c = o
      BY <1>5 DEF Closing
    <3> QED
      BY <1>5, <1>6, <1>7, <1>8, <3>1 DEF CloseIsSound
  <2> QED
    BY <1>1, <1>4, <1>6, <2>1, <2>2, <2>3, <2>4, <2>5, <2>6, SwitchStep
<1>9. CASE o \notin mPtr
  <2>1. todo' = [todo EXCEPT ![t] = <<>>]
    <3>1. <<>> \o <<>> = <<>>
      OBVIOUS
    <3> QED
      BY <1>3, <1>9, <3>1 DEF CloseBody
  <2>2. SameClaimsBut(todo[t], <<>>, o)
    BY <1>5, <1>6 DEF SameClaimsBut, Took, Gave, TookSnap, GaveSnap
  <2> QED
    BY <1>1, <1>4, <1>7, <1>9, <2>1, <2>2, IdleStep
<1> QED
  BY <1>8, <1>9

-----------------------------------------------------------------------------
(***************************************************************************)
(* The calls clients begin.                                                *)
(***************************************************************************)
(* put, get, delete; the methods of an iterator and of a batch; write *)
LEMMA UseStep ==
  ASSUME NativeInv, NEW t \in Threads,
         \/ UseDb(t)
         \/ \E i \in Iters : UseIterator(t, i)
         \/ \E b \in Batches : UseBatch(t, b) \/ Write(t, b)
         \/ \E s \in Snaps : GetAt(t, s)
  PROVE  NativeInv'
<1>1. /\ todo[t] = <<>>
      /\ UNCHANGED <<mPtr, mRefCount, native, made, closes, source, owner, monitor, destroyOnClose, destroyed, wild>>
      /\ destroyOnClose \in BOOLEAN
  BY DEF NativeInv, Typed, UseDb, UseIterator, UseBatch, Write, GetAt, Idle, handles
<1>2. PICK a, c : /\ todo' = [todo EXCEPT ![t] = <<a, c>>]
                  /\ \/ a = aO(Db) /\ c = Op("call", Db) /\ closes[Db] = 0
                     \/ \E i \in Iters : a = aO(i) /\ c = Op("iterCall", i) /\ i \in made /\ owner[i] = t
                     \/ \E b \in Batches : a = aO(b) /\ c = Op("batchCall", b) /\ b \in made /\ owner[b] = t
                     \/ \E b \in Passed : /\ a = aO(Db) /\ c = Op("callWith", b) /\ closes[Db] = 0
                                          /\ b \in made /\ (b \in Batches => owner[b] = t)
                                          /\ (b \in Snaps => closes[b] = 0)
  BY NativeConstants DEF UseDb, UseIterator, UseBatch, Write, GetAt, Begin, aO, Passed
<1>3. Shape(<<a, c>>)
  BY <1>2 DEF Shape, CallShape
<1>4. <<a, c>> \in Seq(Ops)
  BY <1>2 DEF Op, aO, Ops, Objects, Passed
<1>5. \A x : Has(<<a, c>>, x) <=> x \in {a, c}
  BY HasSteps
<1>6. \A o : un(o) \notin {a, c} /\ cl(o) \notin {a, c} /\ mk(o) \notin {a, c}
  BY <1>2, OpIs DEF aO, un, cl, mk
<1>7. \A o : ~ Closing(<<a, c>>, o) /\ ~ Closing(<<>>, o) /\ <<a, c>> # <<un(o)>>
  BY TailSteps DEF Closing
<1>8. SameClaims(todo[t], <<a, c>>)
  BY <1>1, <1>5, <1>6, <1>7, HasSteps DEF SameClaims, Took, Gave, TookSnap, GaveSnap
<1>9. MakeIsSound(t, <<a, c>>)
  BY <1>5, <1>6 DEF MakeIsSound
<1>10. UseIsSound(t, <<a, c>>)
  BY <1>2, <1>5, OpIs DEF UseIsSound, aO
<1>11. CloseIsSound(t, <<a, c>>)
  <2>1. \A o : ~ Has(todo[t], cl(o))
    BY <1>1, HasSteps
  <2>2. \A o \in Objects : monitor[o] # t
    BY <2>1 DEF NativeInv, CallsAreSound, CloseIsSound
  <2> QED
    BY <1>5, <1>6, <1>7, <2>2 DEF CloseIsSound
<1>12. todo[t] # <<Op("destroyIfClosed", Db)>> /\ ~ Has(<<a, c>>, cl(Db))
  BY <1>1, <1>5, <1>6, TailSteps
<1> QED
  BY <1>1, <1>2, <1>3, <1>4, <1>8, <1>9, <1>10, <1>11, <1>12, SwitchStep

(* destroy(): the flag, then a look at the pointer. *)
LEMMA DestroyStep ==
  ASSUME NativeInv, NEW t \in Threads, Destroy(t)
  PROVE  NativeInv'
<1>1. /\ todo[t] = <<>> /\ destroyOnClose' \in BOOLEAN /\ todo' = [todo EXCEPT ![t] = <<Op("destroyIfClosed", Db)>>]
      /\ UNCHANGED <<mPtr, mRefCount, native, made, closes, source, owner, monitor, destroyed, wild>>
  BY DEF Destroy, Idle, Begin, handles
<1> DEFINE r == <<Op("destroyIfClosed", Db)>>
<1>2. r \in Seq(Ops) /\ Shape(r)
  BY DEF Op, Ops, Objects, Shape, CallShape
<1>3. \A n, o : n # "destroyIfClosed" => ~ Has(r, Op(n, o)) /\ ~ Has(<<>>, Op(n, o))
  BY HasSteps, OpIs
<1>4. \A o : ~ Closing(r, o) /\ ~ Closing(<<>>, o)
  <2>1. \A x, y : <<x>> = <<y>> <=> x = y
    BY TailSteps
  <2> QED
    BY <2>1, OpIs, TailSteps DEF Closing, un
<1>5. SameClaims(todo[t], r)
  BY <1>1, <1>3, <1>4 DEF SameClaims, Took, Gave, TookSnap, GaveSnap, mk, cl
<1>6. MakeIsSound(t, r) /\ UseIsSound(t, r)
  BY <1>3 DEF MakeIsSound, UseIsSound, mk
<1>7. CloseIsSound(t, r)
  <2>1. \A o : ~ Has(todo[t], cl(o)) /\ ~ Has(r, cl(o)) /\ r # <<un(o)>>
    BY <1>1, <1>3, <1>4 DEF cl, Closing
  <2>2. \A o \in Objects : monitor[o] # t
    BY <2>1 DEF NativeInv, CallsAreSound, CloseIsSound
  <2> QED
    BY <1>4, <2>1, <2>2 DEF CloseIsSound
<1> QED
  BY <1>1, <1>2, <1>5, <1>6, <1>7, SwitchStep

(* DB.open *)
LEMMA OpenStep ==
  ASSUME NativeInv, NEW t \in Threads, Open(t)
  PROVE  NativeInv'
<1>1. /\ Db \notin mPtr /\ closes[Db] = 0 /\ mPtr' = mPtr \cup {Db} /\ native' = native \cup {Db} /\ destroyed' = FALSE
      /\ UNCHANGED <<mRefCount, made, closes, source, owner, todo, monitor, destroyOnClose, wild>>
  BY DEF Open, NativeOpen, handles
<1>2. Db \in Objects /\ Db \in made /\ Db \notin Wrappers /\ Db \notin Iters
  BY NativeConstants DEF NativeInv, PointersAreSound, Objects, Wrappers
<1>3. \A u \in Threads : ~ Has(todo[u], cl(Db))
  BY <1>1, <1>2 DEF NativeInv, CallsAreSound, CloseIsSound
<1>4. \A h, o : Holds(h, o)' <=> Holds(h, o)
  <2>1. \A d \in Wrappers : HoldsDb(d)' <=> HoldsDb(d)
    BY <1>1, <1>2 DEF HoldsDb
  <2>2. \A i \in Iters : \A s : HoldsSnap(i, s)' <=> HoldsSnap(i, s)
    BY <1>1, <1>2 DEF HoldsSnap
  <2>3. \A o : HoldsItself(o)' <=> HoldsItself(o)
    BY <1>1 DEF HoldsItself
  <2> QED
    BY <1>1, <2>1, <2>2, <2>3 DEF Holds
<1>5. \A o : BeingClosed(o)' <=> BeingClosed(o)
  BY <1>1 DEF BeingClosed
<1>6. Typed'
  BY <1>1, <1>2 DEF NativeInv, Typed
<1>7. CallsAreSound'
  <2>1. \A v : Shape(v) => Shape(v)'
    BY <1>1, SameShapes
  <2>2. \A u, v : MakeIsSound(u, v) => MakeIsSound(u, v)'
    BY <1>1 DEF MakeIsSound
  <2>3. \A u, v : UseIsSound(u, v) => UseIsSound(u, v)'
    BY <1>1 DEF UseIsSound
  <2>4. \A u, v : ~ Has(v, cl(Db)) /\ CloseIsSound(u, v) => CloseIsSound(u, v)'
    BY <1>1 DEF CloseIsSound
  <2> QED
    BY <1>1, <1>3, <2>1, <2>2, <2>3, <2>4 DEF NativeInv, CallsAreSound
<1>8. PointersAreSound'
  BY <1>1, <1>2, <1>4, <1>5 DEF NativeInv, PointersAreSound
<1>9. CountsAreHolders'
  <2>1. \A o : Holders(o)' = Holders(o)
    BY <1>4 DEF Holders
  <2>2. Db \in Holders(Db) /\ ~ BeingClosed(Db)
    BY <1>1, <1>2, <1>3 DEF Holders, Holds, HoldsItself, BeingClosed
  <2>3. IsFiniteSet(Holders(Db)) /\ mRefCount[Db] = Cardinality(Holders(Db))
    BY <1>1, <1>2 DEF NativeInv, CountsAreHolders
  <2>4. mRefCount[Db] # 0
    BY <2>2, <2>3, FS_EmptySet
  <2>5. \A o \in made : o \in mPtr' \/ closes[o] = 0 => IsFiniteSet(Holders(o)) /\ mRefCount[o] = Cardinality(Holders(o))
    BY <1>1, <2>3 DEF NativeInv, CountsAreHolders
  <2>6. \A o \in mPtr' : mRefCount[o] = 0 <=> BeingClosed(o)
    BY <1>1, <2>2, <2>4 DEF NativeInv, CountsAreHolders
  <2> QED
    BY <1>1, <1>5, <2>1, <2>5, <2>6 DEF CountsAreHolders
<1>10. DestroyIsKept'
  BY <1>1, <1>3 DEF DestroyIsKept
<1> QED
  BY <1>1, <1>6, <1>7, <1>8, <1>9, <1>10 DEF NativeInv

(* new WriteBatch() *)
LEMMA NewBatchStep ==
  ASSUME NativeInv, NEW t \in Threads, NEW b \in Batches, NewBatch(t, b)
  PROVE  NativeInv'
<1>1. /\ b \notin made /\ mPtr' = mPtr \cup {b} /\ native' = native \cup {b} /\ made' = made \cup {b}
      /\ mRefCount' = [mRefCount EXCEPT ![b] = 1] /\ owner' = [owner EXCEPT ![b] = t]
      /\ UNCHANGED <<closes, source, todo, monitor, destroyOnClose, destroyed, wild>>
  BY DEF NewBatch, MayMake
<1>2. b \in Objects /\ b # Db /\ b \notin Wrappers /\ b \notin Iters /\ b \notin Snaps /\ t # None
  BY NativeConstants DEF Objects, Wrappers
<1>3. Typed /\ b \notin mPtr /\ closes[b] = 0 /\ mPtr \subseteq made
  BY <1>1, <1>2 DEF NativeInv, PointersAreSound
<1>4. \A o \in Objects : o # b => owner'[o] = owner[o] /\ mRefCount'[o] = mRefCount[o]
  BY <1>1, <1>3 DEF Typed
<1>5. owner'[b] = t /\ mRefCount'[b] = 1
  BY <1>1, <1>2, <1>3 DEF Typed
<1>6. \A u \in Threads : ~ Has(todo[u], cl(b)) /\ ~ Closing(todo[u], b)
  BY <1>1, <1>2, <1>3 DEF NativeInv, CallsAreSound, CloseIsSound
<1>7. /\ \A h, o : o # b => (Holds(h, o)' <=> Holds(h, o))
      /\ \A h : Holds(h, b)' <=> h = b
  <2>1. \A d \in Wrappers : HoldsDb(d)' <=> HoldsDb(d)
    BY <1>1, <1>2 DEF HoldsDb
  <2>2. \A i \in Iters : \A s : HoldsSnap(i, s)' <=> HoldsSnap(i, s)
    BY <1>1, <1>2 DEF HoldsSnap
  <2>3. \A o : o # b => (HoldsItself(o)' <=> HoldsItself(o))
    BY <1>1 DEF HoldsItself
  <2>4. HoldsItself(b)'
    BY <1>1, <1>3 DEF HoldsItself
  <2> QED
    BY <1>1, <1>2, <2>1, <2>2, <2>3, <2>4 DEF Holds
<1>8. \A o : BeingClosed(o)' <=> BeingClosed(o)
  BY <1>1 DEF BeingClosed
<1>9. Typed'
  BY <1>1, <1>2, <1>3 DEF Typed
<1>10. CallsAreSound'
  <2>1. \A v : Shape(v) => Shape(v)'
    BY <1>1, SameShapes
  <2>2. \A u, v : MakeIsSound(u, v) => MakeIsSound(u, v)'
    <3>1. \A d \in Wrappers : d # b /\ d \in Objects
      BY <1>2 DEF Wrappers, Objects
    <3> QED
      BY <1>1, <1>4, <3>1 DEF MakeIsSound
  <2>3. \A u, v : UseIsSound(u, v) => UseIsSound(u, v)'
    <3>1. Iters \subseteq Objects /\ Batches \subseteq Objects
      BY DEF Objects
    <3> QED
      BY <1>1, <1>2, <1>4, <3>1 DEF UseIsSound
  <2>4. \A u, v : ~ Has(v, cl(b)) /\ ~ Closing(v, b) /\ CloseIsSound(u, v) => CloseIsSound(u, v)'
    BY <1>1, <1>4 DEF CloseIsSound
  <2> QED
    BY <1>1, <1>6, <2>1, <2>2, <2>3, <2>4 DEF NativeInv, CallsAreSound
<1>11. PointersAreSound'
  <2>1. \A o \in mPtr' \ native' : BeingClosed(o)'
    BY <1>1, <1>8 DEF NativeInv, PointersAreSound
  <2>2. \A o \in made' \ {Db} : owner'[o] # None /\ (closes[o] = 0 => o \in mPtr')
    <3>1. \A o \in made : o \in Objects
      BY <1>3 DEF Typed
    <3> QED
      BY <1>1, <1>2, <1>4, <1>5, <3>1 DEF NativeInv, PointersAreSound
  <2>3. \A h, o \in Objects : Holds(h, o)' /\ h # o => o \in mPtr'
    BY <1>1, <1>7 DEF NativeInv, PointersAreSound
  <2> QED
    BY <1>1, <2>1, <2>2, <2>3 DEF NativeInv, PointersAreSound
<1>12. CountsAreHolders'
  <2>1. \A o : o # b => Holders(o)' = Holders(o)
    BY <1>7 DEF Holders
  <2>2. Holders(b)' = {b}
    BY <1>2, <1>7 DEF Holders
  <2>3. IsFiniteSet({b}) /\ Cardinality({b}) = 1
    BY FS_Singleton
  <2>4. ~ BeingClosed(b)
    BY <1>6 DEF BeingClosed
  <2>5. \A o \in made : o \in Objects /\ o # b
    BY <1>1, <1>3 DEF Typed
  <2>6. \A o \in made' : (o \in mPtr' \/ closes[o] = 0) => IsFiniteSet(Holders(o))' /\ mRefCount'[o] = Cardinality(Holders(o))'
    BY <1>1, <1>4, <1>5, <2>1, <2>2, <2>3, <2>5 DEF NativeInv, CountsAreHolders
  <2>7. \A o \in mPtr' : mRefCount'[o] = 0 <=> BeingClosed(o)'
    BY <1>1, <1>3, <1>4, <1>5, <1>8, <2>4, <2>5 DEF NativeInv, CountsAreHolders
  <2> QED
    BY <1>1, <2>6, <2>7 DEF CountsAreHolders
<1>13. DestroyIsKept'
  BY <1>1 DEF NativeInv, DestroyIsKept
<1> QED
  BY <1>1, <1>9, <1>10, <1>11, <1>12, <1>13 DEF NativeInv

(* What a thread's call is inside of. *)
LEMMA InsideCalls ==
  ASSUME NEW u \in Threads, NEW x, Has(todo[u], x),
         x.op \in {"assertOpen", "ref", "create", "call", "iterCall", "batchCall", "callWith"}
  PROVE  Uses(x) \subseteq InCallsOn(u)
  BY DEF Has, InCallsOn

(* close(), by the client: once per wrapper, and not during a call on it. *)
LEMMA CloseStep ==
  ASSUME ClosesPerWrapper <= 1, NativeInv, NEW t \in Threads, NEW o \in Objects, Close(t, o)
  PROVE  NativeInv'
<1>1. /\ todo[t] = <<>> /\ o \in made /\ closes[o] < ClosesPerWrapper /\ (o # Db => owner[o] = t)
      /\ \A u \in Threads : o \notin InCallsOn(u)
      /\ closes' = [closes EXCEPT ![o] = @ + 1] /\ todo' = [todo EXCEPT ![t] = <<Op("close", o)>>]
      /\ UNCHANGED <<mPtr, mRefCount, native, made, source, owner, monitor, destroyOnClose, destroyed, wild>>
  BY DEF Close, Idle, Begin
<1>2. Typed /\ todo \in [Threads -> Seq(Ops)] /\ closes \in [Objects -> {0, 1}]
  BY DEF NativeInv, Typed
<1>3. closes[o] = 0 /\ closes'[o] = 1 /\ \A c \in Objects : c # o => closes'[c] = closes[c]
  BY <1>1, <1>2, NativeConstants
<1>4. PICK r : r = <<Op("close", o)>>
  OBVIOUS
<1>5. todo'[t] = r /\ \A u \in Threads \ {t} : todo'[u] = todo[u]
  BY <1>1, <1>2, <1>4
<1>6. \A n, c : n # "close" => ~ Has(r, Op(n, c)) /\ ~ Has(<<>>, Op(n, c))
  BY <1>4, HasSteps, OpIs
<1>7. (\A c : Closing(r, c) <=> c = o) /\ (\A c : ~ Closing(<<>>, c)) /\ (\A c : r # <<un(c)>>)
  <2>1. \A x, y : <<x>> = <<y>> <=> x = y
    BY TailSteps
  <2>2. \A c : ~ Closing(<<>>, c)
    BY TailSteps DEF Closing
  <2>3. \A c : Op("close", o) # un(c) /\ (Op("close", o) = Op("close", c) <=> c = o)
    BY OpIs DEF un
  <2>4. \A c : Closing(r, c) <=> c = o
    BY <1>4, <2>1, <2>3 DEF Closing
  <2>5. \A c : r # <<un(c)>>
    BY <1>4, <2>1, <2>3
  <2> QED
    BY <2>2, <2>4, <2>5
<1>8. \A c : /\ ~ Took(r, c) /\ ~ Took(todo[t], c) /\ ~ Gave(r, c) /\ ~ Gave(todo[t], c)
             /\ ~ Has(r, cl(c)) /\ ~ Has(todo[t], cl(c))
             /\ \A s : /\ ~ TookSnap(r, c, s) /\ ~ TookSnap(todo[t], c, s)
                       /\ ~ GaveSnap(r, c, s) /\ ~ GaveSnap(todo[t], c, s)
  BY <1>1, <1>6 DEF Took, Gave, TookSnap, GaveSnap, mk, cl
<1>9. \A u \in Threads : ~ Closing(todo[u], o)
  BY <1>3 DEF NativeInv, CallsAreSound, CloseIsSound
<1>10. \A h, c : Holds(h, c)' <=> Holds(h, c)
  <2>1. \A d : HoldsDb(d)' <=> HoldsDb(d)
    BY <1>1, <1>5, <1>8 DEF HoldsDb
  <2>2. \A i, s : HoldsSnap(i, s)' <=> HoldsSnap(i, s)
    BY <1>1, <1>5, <1>8 DEF HoldsSnap
  <2>3. \A c : HoldsItself(c)' <=> HoldsItself(c)
    <3>1. HoldsItself(o)' /\ HoldsItself(o)
      BY <1>1, <1>3, <1>5, <1>7 DEF HoldsItself
    <3>2. ASSUME NEW c \in made, c # o PROVE HoldsItself(c)' <=> HoldsItself(c)
      <4>1. closes'[c] = closes[c]
        BY <1>2, <1>3, <3>2 DEF Typed
      <4>2. ~ Closing(todo[t], c) /\ ~ Closing(todo'[t], c)
        BY <1>1, <1>5, <1>7, <3>2
      <4> QED
        BY <1>1, <1>5, <4>1, <4>2 DEF HoldsItself
    <3> QED
      BY <1>1, <3>1, <3>2 DEF HoldsItself
  <2> QED
    BY <1>1, <2>1, <2>2, <2>3 DEF Holds
<1>11. \A c : BeingClosed(c)' <=> BeingClosed(c)
  BY <1>5, <1>8 DEF BeingClosed
<1>12. Typed'
  <2>1. <<Op("close", o)>> \in Seq(Ops)
    BY DEF Op, Ops
  <2>2. todo' \in [Threads -> Seq(Ops)]
    BY <1>1, <1>2, <2>1
  <2>3. closes' \in [Objects -> {0, 1}]
    BY <1>1, <1>2, <1>3
  <2> QED
    BY <1>1, <1>2, <2>2, <2>3 DEF Typed
<1>13. CallsAreSound'
  <2>1. \A u \in Threads : Shape(todo[u])'
    <3>1. \A v : Shape(v) => Shape(v)'
      BY <1>1, SameShapes
    <3>2. Shape(r)'
      BY <1>4 DEF Shape, CallShape
    <3> QED
      BY <1>5, <3>1, <3>2 DEF NativeInv, CallsAreSound
  <2>2. \A u \in Threads : MakeIsSound(u, todo[u])'
    <3>1. MakeIsSound(t, r)'
      BY <1>6 DEF MakeIsSound, mk
    <3>2. ASSUME NEW u \in Threads \ {t}, NEW v, v = todo[u] PROVE MakeIsSound(u, v)'
      <4>1. MakeIsSound(u, v)
        BY <3>2 DEF NativeInv, CallsAreSound
      <4>2. ASSUME NEW d \in Wrappers, Has(v, mk(d))
            PROVE  closes'[Db] = closes[Db] /\ (d \in Iters /\ source[d] # None => closes'[source[d]] = closes[source[d]])
        <5>1. Uses(mk(d)) \subseteq InCallsOn(u)
          BY <3>2, <4>2, InsideCalls, OpIs DEF mk
        <5>2. Db \in Uses(mk(d)) /\ (d \in Iters => source[d] \in Uses(mk(d)))
          BY OpIs DEF Uses, mk
        <5>3. o # Db /\ (d \in Iters => o # source[d])
          BY <1>1, <5>1, <5>2
        <5>4. Db \in Objects /\ (d \in Iters /\ source[d] # None => source[d] \in Objects)
          BY <1>2 DEF Typed, Objects
        <5> QED
          BY <1>3, <5>3, <5>4
      <4> QED
        BY <1>1, <4>1, <4>2 DEF MakeIsSound
    <3> QED
      BY <1>5, <3>1, <3>2
  <2>3. \A u \in Threads : UseIsSound(u, todo[u])'
    <3>1. UseIsSound(t, r)'
      BY <1>6 DEF UseIsSound
    <3>2. ASSUME NEW u \in Threads \ {t}, NEW v, v = todo[u] PROVE UseIsSound(u, v)'
      <4>1. UseIsSound(u, v)
        BY <3>2 DEF NativeInv, CallsAreSound
      <4>2. Has(v, Op("call", Db)) => o # Db
        <5>1. Op("call", Db).op = "call" /\ Db \in Uses(Op("call", Db))
          BY OpIs DEF Uses
        <5> QED
          BY <1>1, <3>2, <5>1, InsideCalls
      <4>3. ASSUME NEW b \in Passed, Has(v, Op("callWith", b)) PROVE o # Db /\ o # b
        <5>1. Op("callWith", b).op = "callWith" /\ Db \in Uses(Op("callWith", b)) /\ b \in Uses(Op("callWith", b))
          BY OpIs DEF Uses
        <5> QED
          BY <1>1, <3>2, <4>3, <5>1, InsideCalls
      <4>4. \A c \in Iters \cup Batches : owner[c] = u => c # o
        BY <1>1, NativeConstants
      <4>5. Db \in Objects /\ Iters \subseteq Objects /\ Batches \subseteq Objects /\ Snaps \subseteq Objects
        BY DEF Objects
      <4> QED
        BY <1>1, <1>3, <4>1, <4>2, <4>3, <4>4, <4>5 DEF UseIsSound
    <3> QED
      BY <1>5, <3>1, <3>2
  <2>4. \A u \in Threads : CloseIsSound(u, todo[u])'
    <3>1. \A c \in Objects : monitor[c] # t
      BY <1>8 DEF NativeInv, CallsAreSound, CloseIsSound
    <3>2. CloseIsSound(t, r)'
      BY <1>1, <1>3, <1>7, <1>8, <3>1 DEF CloseIsSound
    <3>3. ASSUME NEW u \in Threads \ {t}, NEW v, v = todo[u] PROVE CloseIsSound(u, v)'
      <4>1. CloseIsSound(u, v) /\ ~ Closing(v, o)
        BY <1>9, <3>3 DEF NativeInv, CallsAreSound
      <4> QED
        BY <1>1, <1>3, <4>1 DEF CloseIsSound
    <3> QED
      BY <1>5, <3>2, <3>3
  <2>5. \A u, v \in Threads : Closing(todo'[u], Db) /\ Closing(todo'[v], Db) => u = v
    BY <1>5, <1>7, <1>9 DEF NativeInv, CallsAreSound
  <2> QED
    BY <2>1, <2>2, <2>3, <2>4, <2>5 DEF CallsAreSound
<1>14. PointersAreSound'
  <2>1. \A c \in Objects \ made : closes'[c] = 0
    BY <1>1, <1>3 DEF NativeInv, PointersAreSound
  <2>2. \A c \in made \ {Db} : owner[c] # None /\ (closes'[c] = 0 => c \in mPtr)
    BY <1>2, <1>3 DEF NativeInv, PointersAreSound, Typed
  <2> QED
    BY <1>1, <1>10, <1>11, <2>1, <2>2 DEF NativeInv, PointersAreSound
<1>15. CountsAreHolders'
  <2>1. \A c : Holders(c)' = Holders(c)
    BY <1>10 DEF Holders
  <2>2. \A c \in made : closes'[c] = 0 => closes[c] = 0
    BY <1>2, <1>3 DEF Typed
  <2> QED
    BY <1>1, <1>11, <2>1, <2>2 DEF NativeInv, CountsAreHolders
<1>16. DestroyIsKept'
  <2>1. todo[t] # <<Op("destroyIfClosed", Db)>>
    BY <1>1, TailSteps
  <2> QED
    BY <1>1, <1>5, <1>8, <2>1 DEF NativeInv, DestroyIsKept
<1> QED
  BY <1>1, <1>12, <1>13, <1>14, <1>15, <1>16 DEF NativeInv

(* The lists of the calls that have nothing to do with d. *)
LEMMA OtherShapes ==
  ASSUME NEW d, \A i \in Iters \ {d} : source'[i] = source[i],
         NEW v, Shape(v), ~ Has(v, mk(d)), ~ Has(v, cl(d))
  PROVE  Shape(v)'
<1>1. CASE CallShape(v)
  BY <1>1 DEF Shape, CallShape
<1>2. CASE MakeShape(v)
  <2>1. CASE \E c \in Wrappers : v = <<mk(c)>>
    BY <2>1 DEF Shape, MakeShape
  <2>2. CASE \E c \in Wrappers : (c \in Iters => source[c] = None) /\ v \in {<<aO(Db), rf(Db), mk(c)>>, <<rf(Db), mk(c)>>}
    <3>1. PICK c \in Wrappers : (c \in Iters => source[c] = None) /\ v \in {<<aO(Db), rf(Db), mk(c)>>, <<rf(Db), mk(c)>>}
      BY <2>2
    <3>2. Has(v, mk(c))
      BY <3>1, HasSteps
    <3>3. c \in Iters => source'[c] = None
      BY <3>1, <3>2
    <3> QED
      BY <3>1, <3>3 DEF Shape, MakeShape
  <2>3. CASE \E i \in Iters : /\ source[i] # None
                              /\ v \in {<<aO(Db), rf(Db), rf(source[i]), mk(i)>>, <<rf(Db), rf(source[i]), mk(i)>>,
                                        <<rf(source[i]), mk(i)>>}
    <3>1. PICK i \in Iters : /\ source[i] # None
                             /\ v \in {<<aO(Db), rf(Db), rf(source[i]), mk(i)>>, <<rf(Db), rf(source[i]), mk(i)>>,
                                       <<rf(source[i]), mk(i)>>}
      BY <2>3
    <3>2. Has(v, mk(i))
      BY <3>1, HasSteps
    <3>3. source'[i] = source[i]
      BY <3>2
    <3> QED
      BY <3>1, <3>3 DEF Shape, MakeShape
  <2> QED
    BY <1>2, <2>1, <2>2, <2>3 DEF MakeShape
<1>3. CASE CloseShape(v)
  <2>1. CASE \E i \in Iters : source[i] = None /\ v = <<fr(i), un(Db), cl(i)>>
    <3>1. PICK i \in Iters : source[i] = None /\ v = <<fr(i), un(Db), cl(i)>>
      BY <2>1
    <3>2. source'[i] = source[i]
      BY <3>1, HasSteps
    <3> QED
      BY <3>1, <3>2 DEF Shape, CloseShape
  <2>2. CASE \E i \in Iters : /\ source[i] # None
                        /\ v \in {<<fr(i), un(source[i]), un(Db), cl(i)>>, <<un(source[i]), un(Db), cl(i)>>,
                                  <<fr(source[i]), un(Db), cl(source[i]), un(Db), cl(i)>>,
                                  <<un(Db), cl(source[i]), un(Db), cl(i)>>, <<cl(source[i]), un(Db), cl(i)>>}
    <3>1. PICK i \in Iters : /\ source[i] # None
                        /\ v \in {<<fr(i), un(source[i]), un(Db), cl(i)>>, <<un(source[i]), un(Db), cl(i)>>,
                                  <<fr(source[i]), un(Db), cl(source[i]), un(Db), cl(i)>>,
                                  <<un(Db), cl(source[i]), un(Db), cl(i)>>, <<cl(source[i]), un(Db), cl(i)>>}
      BY <2>2
    <3>2. Has(v, cl(i))
      BY <3>1, HasSteps
    <3>3. source'[i] = source[i]
      BY <3>2
    <3> QED
      BY <3>1, <3>3 DEF Shape, CloseShape
  <2>3. ASSUME ~ \E i \in Iters : source[i] = None /\ v = <<fr(i), un(Db), cl(i)>>,
               ~ \E i \in Iters : /\ source[i] # None
                        /\ v \in {<<fr(i), un(source[i]), un(Db), cl(i)>>, <<un(source[i]), un(Db), cl(i)>>,
                                  <<fr(source[i]), un(Db), cl(source[i]), un(Db), cl(i)>>,
                                  <<un(Db), cl(source[i]), un(Db), cl(i)>>, <<cl(source[i]), un(Db), cl(i)>>}
        PROVE Shape(v)'
    BY <1>3, <2>3 DEF Shape, CloseShape
  <2> QED
    BY <2>1, <2>2, <2>3
<1> QED
  BY <1>1, <1>2, <1>3 DEF Shape

(* iterator() and getSnapshot() begin. *)
LEMMA BeginMakeStep ==
  ASSUME NativeInv, NEW t \in Threads, todo[t] = <<>>, closes[Db] = 0,
         NEW d \in Wrappers, d \notin made, owner[d] = None, owner' = [owner EXCEPT ![d] = t],
         source' \in [Iters -> Snaps \cup {None}], \A i \in Iters \ {d} : source'[i] = source[i],
         NEW r, todo' = [todo EXCEPT ![t] = r],
         \/ r = <<aO(Db), rf(Db), mk(d)>> /\ (d \in Iters => source'[d] = None)
         \/ /\ d \in Iters /\ source'[d] # None /\ source'[d] \in made /\ closes[source'[d]] = 0
            /\ r = <<aO(Db), rf(Db), rf(source'[d]), mk(d)>>,
         UNCHANGED <<mPtr, mRefCount, native, made, closes, monitor, destroyOnClose, destroyed, wild>>
  PROVE  NativeInv'
<1>1. Typed /\ todo \in [Threads -> Seq(Ops)] /\ owner \in [Objects -> Threads \cup {None}]
  BY DEF NativeInv, Typed
<1>2. d \in Objects /\ d # Db /\ d \notin Batches /\ t # None /\ None \notin Threads /\ d \notin mPtr
  BY NativeConstants DEF Wrappers, Objects, NativeInv, PointersAreSound
<1>3. todo'[t] = r /\ \A u \in Threads \ {t} : todo'[u] = todo[u]
  BY <1>1
<1>4. owner'[d] = t /\ \A o \in Objects \ {d} : owner'[o] = owner[o]
  BY <1>1, <1>2
<1>5. \A u \in Threads : ~ Has(todo[u], mk(d)) /\ ~ Has(todo[u], cl(d))
  BY <1>2 DEF NativeInv, CallsAreSound, MakeIsSound, CloseIsSound
<1>6. /\ Has(r, rf(Db)) /\ Has(r, aO(Db)) /\ \A c : Has(r, mk(c)) <=> c = d
      /\ \A n, c : n \notin {"assertOpen", "ref", "create"} => ~ Has(r, Op(n, c))
      /\ \A c : r # <<un(c)>> /\ r # <<Op("close", c)>> /\ r # <<Op("destroyIfClosed", c)>>
  <2>1. CASE r = <<aO(Db), rf(Db), mk(d)>>
    BY <2>1, HasSteps, TailSteps, OpIs DEF aO, rf, mk
  <2>2. CASE r = <<aO(Db), rf(Db), rf(source'[d]), mk(d)>>
    BY <2>2, HasSteps, TailSteps, OpIs DEF aO, rf, mk
  <2> QED
    BY <2>1, <2>2
<1>7. \A c : /\ ~ Took(r, c) /\ ~ Took(<<>>, c) /\ ~ Gave(r, c) /\ ~ Gave(<<>>, c)
             /\ ~ Has(r, cl(c)) /\ ~ Has(<<>>, cl(c)) /\ ~ Closing(r, c) /\ ~ Closing(<<>>, c)
             /\ \A s : /\ ~ TookSnap(r, c, s) /\ ~ TookSnap(<<>>, c, s)
                       /\ ~ GaveSnap(r, c, s) /\ ~ GaveSnap(<<>>, c, s)
  <2>1. \A c : ~ Closing(<<>>, c)
    BY TailSteps DEF Closing
  <2>2. \A c : ~ Has(r, cl(c))
    BY <1>6 DEF cl
  <2> QED
    BY <1>6, <2>1, <2>2, HasSteps DEF Took, Gave, TookSnap, GaveSnap, Closing
<1>8. \A h, o : Holds(h, o)' <=> Holds(h, o)
  <2>1. \A c : HoldsDb(c)' <=> HoldsDb(c)
    BY <1>3, <1>7 DEF HoldsDb
  <2>2. \A i, s : HoldsSnap(i, s)' <=> HoldsSnap(i, s)
    <3>1. \A u \in Threads : \A i, s :
            /\ TookSnap(todo'[u], i, s) <=> TookSnap(todo[u], i, s)
            /\ GaveSnap(todo'[u], i, s) <=> GaveSnap(todo[u], i, s)
      <4>1. \A i, s : ~ TookSnap(r, i, s) /\ ~ TookSnap(<<>>, i, s)
        BY <1>7
      <4>2. \A i, s : ~ GaveSnap(r, i, s) /\ ~ GaveSnap(<<>>, i, s)
        BY <1>7
      <4> QED
        BY <1>3, <4>1, <4>2
    <3> QED
      BY <3>1 DEF HoldsSnap
  <2>3. \A c : HoldsItself(c)' <=> HoldsItself(c)
    BY <1>3, <1>7 DEF HoldsItself
  <2>4. \A s : ~ HoldsSnap(d, s)
    BY <1>2, <1>5 DEF HoldsSnap, TookSnap
  <2> QED
    BY <2>1, <2>2, <2>3, <2>4 DEF Holds
<1>9. \A c : BeingClosed(c)' <=> BeingClosed(c)
  BY <1>3, <1>7 DEF BeingClosed
<1>10. Typed'
  <2>1. r \in Seq(Ops)
    <3>1. Db \in Objects /\ (d \in Iters /\ source'[d] # None => source'[d] \in Objects)
      BY DEF Objects
    <3>2. aO(Db) \in Ops /\ rf(Db) \in Ops /\ mk(d) \in Ops
      BY <1>2, <3>1 DEF Ops, aO, rf, mk, Op
    <3>3. d \in Iters /\ source'[d] # None => rf(source'[d]) \in Ops
      BY <3>1 DEF Ops, rf, Op
    <3> QED
      <4>1. CASE r = <<aO(Db), rf(Db), mk(d)>>
        BY <3>2, <4>1
      <4>2. CASE d \in Iters /\ source'[d] # None /\ r = <<aO(Db), rf(Db), rf(source'[d]), mk(d)>>
        <5>1. PICK z : z = rf(source'[d])
          OBVIOUS
        <5>2. z \in Ops /\ r = <<aO(Db), rf(Db), z, mk(d)>>
          BY <3>3, <4>2, <5>1
        <5> QED
          BY <3>2, <5>2
      <4> QED
        BY <4>1, <4>2
  <2>2. todo' \in [Threads -> Seq(Ops)]
    BY <1>1, <2>1
  <2>3. owner' \in [Objects -> Threads \cup {None}]
    BY <1>1
  <2> QED
    BY <1>1, <2>2, <2>3 DEF Typed
<1>11. CallsAreSound'
  <2>1. \A u \in Threads : Shape(todo[u])'
    <3>1. Shape(r)'
      <4>1. CASE r = <<aO(Db), rf(Db), mk(d)>> /\ (d \in Iters => source'[d] = None)
        BY <4>1 DEF Shape, MakeShape
      <4>2. CASE d \in Iters /\ source'[d] # None /\ r = <<aO(Db), rf(Db), rf(source'[d]), mk(d)>>
        BY <4>2 DEF Shape, MakeShape
      <4> QED
        BY <4>1, <4>2
    <3>2. ASSUME NEW u \in Threads, NEW v, v = todo[u] PROVE Shape(v)'
      BY <1>5, <3>2, OtherShapes DEF NativeInv, CallsAreSound
    <3> QED
      BY <1>3, <3>1, <3>2
  <2>2. \A u \in Threads : MakeIsSound(u, todo[u])'
    <3>1. MakeIsSound(t, r)'
      BY <1>4, <1>6 DEF MakeIsSound
    <3>2. ASSUME NEW u \in Threads, NEW v, v = todo[u] PROVE MakeIsSound(u, v)'
      <4>1. MakeIsSound(u, v) /\ ~ Has(v, mk(d))
        BY <1>5, <3>2 DEF NativeInv, CallsAreSound
      <4>2. Wrappers \subseteq Objects
        BY DEF Wrappers, Objects
      <4> QED
        BY <1>4, <4>1, <4>2 DEF MakeIsSound
    <3> QED
      BY <1>3, <3>1, <3>2
  <2>3. \A u \in Threads : UseIsSound(u, todo[u])'
    <3>1. UseIsSound(t, r)'
      BY <1>6 DEF UseIsSound
    <3>2. \A u, v : UseIsSound(u, v) => UseIsSound(u, v)'
      <4>1. Iters \subseteq Objects /\ Batches \subseteq Objects
        BY DEF Objects
      <4> QED
        BY <1>4, <4>1 DEF UseIsSound
    <3> QED
      BY <1>3, <3>1, <3>2 DEF NativeInv, CallsAreSound
  <2>4. \A u \in Threads : CloseIsSound(u, todo[u])'
    <3>1. \A c \in Objects : monitor[c] # t
      BY <1>7 DEF NativeInv, CallsAreSound, CloseIsSound
    <3>2. CloseIsSound(t, r)'
      BY <1>6, <1>7, <3>1 DEF CloseIsSound
    <3>3. \A u \in Threads : \A v : ~ Has(v, cl(d)) /\ CloseIsSound(u, v) => CloseIsSound(u, v)'
      BY <1>4 DEF CloseIsSound
    <3> QED
      BY <1>3, <1>5, <3>2, <3>3 DEF NativeInv, CallsAreSound
  <2>5. \A u, v \in Threads : Closing(todo'[u], Db) /\ Closing(todo'[v], Db) => u = v
    BY <1>3, <1>7 DEF NativeInv, CallsAreSound
  <2> QED
    BY <2>1, <2>2, <2>3, <2>4, <2>5 DEF CallsAreSound
<1>12. PointersAreSound'
  <2>1. \A c \in made \ {Db} : owner'[c] # None
    BY <1>1, <1>4 DEF NativeInv, PointersAreSound, Typed
  <2> QED
    BY <1>8, <1>9, <2>1 DEF NativeInv, PointersAreSound
<1>13. CountsAreHolders'
  <2>1. \A c : Holders(c)' = Holders(c)
    BY <1>8 DEF Holders
  <2> QED
    BY <1>9, <2>1 DEF NativeInv, CountsAreHolders
<1>14. DestroyIsKept'
  <2>1. todo[t] # <<Op("destroyIfClosed", Db)>>
    BY TailSteps
  <2> QED
    BY <1>3, <1>7, <2>1 DEF NativeInv, DestroyIsKept
<1> QED
  BY <1>10, <1>11, <1>12, <1>13, <1>14 DEF NativeInv

(* A new iterator keeps the invariant. *)
LEMMA NewIteratorStep ==
  ASSUME NativeInv, NEW t \in Threads, NEW i \in Iters, NEW s \in Snaps \cup {None}, NewIterator(t, i, s)
  PROVE  NativeInv'
<1>1. /\ todo[t] = <<>> /\ closes[Db] = 0 /\ i \notin made /\ owner[i] = None
      /\ s # None => s \in made /\ closes[s] = 0
      /\ todo' = [todo EXCEPT ![t] = <<aO(Db), rf(Db)>> \o (IF s = None THEN <<>> ELSE <<rf(s)>>) \o <<mk(i)>>]
      /\ source' = [source EXCEPT ![i] = s] /\ owner' = [owner EXCEPT ![i] = t]
      /\ UNCHANGED <<mPtr, mRefCount, native, made, closes, monitor, destroyOnClose, destroyed, wild>>
  BY DEF NewIterator, MayMake, Idle, Begin, aO, rf, mk
<1>2. i \in Wrappers /\ source \in [Iters -> Snaps \cup {None}]
  BY DEF Wrappers, NativeInv, Typed
<1>3. source' \in [Iters -> Snaps \cup {None}] /\ source'[i] = s /\ \A j \in Iters \ {i} : source'[j] = source[j]
  BY <1>1, <1>2
<1>4. CASE s = None
  <2>1. <<aO(Db), rf(Db)>> \o <<>> \o <<mk(i)>> = <<aO(Db), rf(Db), mk(i)>>
    BY JoinedSteps
  <2>2. PICK r : r = <<aO(Db), rf(Db), mk(i)>>
    OBVIOUS
  <2>3. todo' = [todo EXCEPT ![t] = r]
    BY <1>1, <1>4, <2>1, <2>2
  <2>4. source'[i] = None
    BY <1>3, <1>4
  <2> QED
    BY <1>1, <1>2, <1>3, <2>2, <2>3, <2>4, BeginMakeStep
<1>5. CASE s # None
  <2>1. <<aO(Db), rf(Db)>> \o <<rf(s)>> \o <<mk(i)>> = <<aO(Db), rf(Db), rf(s), mk(i)>>
    <3>1. <<aO(Db), rf(Db)>> \o <<rf(s)>> = <<aO(Db), rf(Db), rf(s)>>
      BY JoinedSteps
    <3>2. <<aO(Db), rf(Db), rf(s)>> \o <<mk(i)>> = <<aO(Db), rf(Db), rf(s), mk(i)>>
      BY JoinedSteps
    <3> QED
      BY <3>1, <3>2
  <2>2. todo' = [todo EXCEPT ![t] = <<aO(Db), rf(Db), rf(source'[i]), mk(i)>>]
    BY <1>1, <1>3, <1>5, <2>1
  <2>3. source'[i] # None /\ source'[i] \in made /\ closes[source'[i]] = 0
    BY <1>1, <1>3, <1>5
  <2>4. PICK r : r = <<aO(Db), rf(Db), rf(source'[i]), mk(i)>>
    OBVIOUS
  <2>5. todo' = [todo EXCEPT ![t] = r]
    BY <2>2, <2>4
  <2> QED
    BY <1>1, <1>2, <1>3, <2>3, <2>4, <2>5, BeginMakeStep
<1> QED
  BY <1>4, <1>5

(* A new snapshot keeps the invariant. *)
LEMMA NewSnapshotStep ==
  ASSUME NativeInv, NEW t \in Threads, NEW s \in Snaps, NewSnapshot(t, s)
  PROVE  NativeInv'
<1>1. /\ todo[t] = <<>> /\ closes[Db] = 0 /\ s \notin made /\ owner[s] = None
      /\ todo' = [todo EXCEPT ![t] = <<aO(Db), rf(Db), mk(s)>>]
      /\ owner' = [owner EXCEPT ![s] = t]
      /\ UNCHANGED <<mPtr, mRefCount, native, made, closes, source, monitor, destroyOnClose, destroyed, wild>>
  BY DEF NewSnapshot, MayMake, Idle, Begin, aO, rf, mk
<1>2. s \in Wrappers /\ s \notin Iters /\ source' \in [Iters -> Snaps \cup {None}]
  BY <1>1, NativeConstants DEF Wrappers, NativeInv, Typed
<1> QED
  BY <1>1, <1>2, BeginMakeStep

(* The lists that a ref() goes through: d is what will hold the reference to o. *)
LEMMA RefForms ==
  ASSUME Typed, NEW q, Shape(q), q # <<>>, Head(q).op = "ref"
  PROVE  \E d \in Wrappers, o \in Objects :
           /\ Head(q) = rf(o) /\ Shape(Tail(q)) /\ Tail(q) \in Seq(Ops)
           /\ \A c : (Has(q, mk(c)) <=> c = d) /\ (Has(Tail(q), mk(c)) <=> c = d)
           /\ \A n, c : n \notin {"ref", "create"} => ~ Has(q, Op(n, c)) /\ ~ Has(Tail(q), Op(n, c))
           /\ \A c : ~ Closing(q, c) /\ ~ Closing(Tail(q), c)
           /\ \/ /\ o = Db /\ Has(q, rf(Db)) /\ ~ Has(Tail(q), rf(Db))
                 /\ d \in Iters /\ source[d] # None => Has(Tail(q), rf(source[d]))
              \/ /\ d \in Iters /\ o = source[d] /\ o \in Snaps
                 /\ ~ Has(q, rf(Db)) /\ Has(q, rf(o)) /\ \A c : ~ Has(Tail(q), rf(c))
           /\ q # <<Op("destroyIfClosed", Db)>>
<1>1. Db \in Objects /\ Wrappers \subseteq Objects /\ \A i \in Iters : source[i] # None => source[i] \in Snaps /\ source[i] \in Objects
  BY DEF Objects, Wrappers, Typed
<1>2. \A o \in Objects : rf(o) \in Ops /\ mk(o) \in Ops
  BY DEF rf, mk, Op, Ops
<1>3. CASE \E d \in Wrappers : (d \in Iters => source[d] = None) /\ q = <<rf(Db), mk(d)>>
  <2>1. PICK d \in Wrappers : (d \in Iters => source[d] = None) /\ q = <<rf(Db), mk(d)>>
    BY <1>3
  <2>2. Head(q) = rf(Db) /\ Tail(q) = <<mk(d)>> /\ Shape(<<mk(d)>>) /\ <<mk(d)>> \in Seq(Ops)
    BY <1>1, <1>2, <2>1, TailSteps DEF Shape, MakeShape
  <2>3. /\ \A c : (Has(q, mk(c)) <=> c = d) /\ (Has(Tail(q), mk(c)) <=> c = d)
        /\ \A n, c : n \notin {"ref", "create"} => ~ Has(q, Op(n, c)) /\ ~ Has(Tail(q), Op(n, c))
        /\ Has(q, rf(Db)) /\ ~ Has(Tail(q), rf(Db))
    BY <2>1, <2>2, HasSteps, OpIs DEF rf, mk
  <2>4. (\A c : ~ Closing(q, c) /\ ~ Closing(Tail(q), c)) /\ q # <<Op("destroyIfClosed", Db)>>
    <3>1. \A x, y : <<x>> = <<y>> <=> x = y
      BY TailSteps
    <3> QED
      BY <2>1, <2>2, <3>1, TailSteps, OpIs DEF Closing, un, mk
  <2> QED
    BY <1>1, <2>1, <2>2, <2>3, <2>4
<1>4. CASE \E i \in Iters : source[i] # None /\ q = <<rf(Db), rf(source[i]), mk(i)>>
  <2>1. PICK i \in Iters : source[i] # None /\ q = <<rf(Db), rf(source[i]), mk(i)>>
    BY <1>4
  <2>2. Db # source[i] /\ i \in Wrappers
    BY <1>1, <2>1, NativeConstants DEF Wrappers
  <2>3. Head(q) = rf(Db) /\ Tail(q) = <<rf(source[i]), mk(i)>>
    BY <2>1, TailSteps
  <2>4. Shape(<<rf(source[i]), mk(i)>>)
    BY <2>1 DEF Shape, MakeShape
  <2>5. <<rf(source[i]), mk(i)>> \in Seq(Ops)
    <3>1. PICK s : s = rf(source[i])
      OBVIOUS
    <3> QED
      BY <1>1, <1>2, <2>1, <2>2, <3>1
  <2>6. /\ \A c : (Has(q, mk(c)) <=> c = i) /\ (Has(Tail(q), mk(c)) <=> c = i)
        /\ \A n, c : n \notin {"ref", "create"} => ~ Has(q, Op(n, c)) /\ ~ Has(Tail(q), Op(n, c))
        /\ Has(q, rf(Db)) /\ ~ Has(Tail(q), rf(Db)) /\ Has(Tail(q), rf(source[i]))
    BY <2>1, <2>2, <2>3, HasSteps, OpIs DEF rf, mk
  <2>7. (\A c : ~ Closing(q, c) /\ ~ Closing(Tail(q), c)) /\ q # <<Op("destroyIfClosed", Db)>>
    BY <2>1, <2>3, TailSteps DEF Closing
  <2> QED
    BY <1>1, <2>1, <2>2, <2>3, <2>4, <2>5, <2>6, <2>7
<1>5. CASE \E i \in Iters : source[i] # None /\ q = <<rf(source[i]), mk(i)>>
  <2>1. PICK i \in Iters : source[i] # None /\ q = <<rf(source[i]), mk(i)>>
    BY <1>5
  <2>2. Db # source[i] /\ i \in Wrappers
    BY <1>1, <2>1, NativeConstants DEF Wrappers
  <2>3. Head(q) = rf(source[i]) /\ Tail(q) = <<mk(i)>>
    BY <2>1, TailSteps
  <2>4. Shape(<<mk(i)>>) /\ <<mk(i)>> \in Seq(Ops)
    BY <1>1, <1>2, <2>2 DEF Shape, MakeShape
  <2>5. /\ \A c : (Has(q, mk(c)) <=> c = i) /\ (Has(Tail(q), mk(c)) <=> c = i)
        /\ \A n, c : n \notin {"ref", "create"} => ~ Has(q, Op(n, c)) /\ ~ Has(Tail(q), Op(n, c))
        /\ ~ Has(q, rf(Db)) /\ Has(q, rf(source[i])) /\ \A c : ~ Has(Tail(q), rf(c))
    BY <2>1, <2>2, <2>3, HasSteps, OpIs DEF rf, mk
  <2>6. (\A c : ~ Closing(q, c) /\ ~ Closing(Tail(q), c)) /\ q # <<Op("destroyIfClosed", Db)>>
    <3>1. \A x, y : <<x>> = <<y>> <=> x = y
      BY TailSteps
    <3> QED
      BY <2>1, <2>3, <3>1, TailSteps, OpIs DEF Closing, un, mk
  <2> QED
    BY <1>1, <2>1, <2>2, <2>3, <2>4, <2>5, <2>6
<1> QED
  BY <1>3, <1>4, <1>5, MakeForms

(* ref(): d, which is being made, becomes a holder of o. *)
LEMMA RefStep ==
  ASSUME NativeInv, NEW t \in Threads, Ref(t)
  PROVE  NativeInv'
<1>1. /\ todo[t] # <<>> /\ Shape(todo[t]) /\ Now(t).op = "ref" /\ Typed
      /\ mRefCount' = [mRefCount EXCEPT ![Now(t).obj] = @ + 1] /\ todo' = [todo EXCEPT ![t] = Rest(t)]
      /\ UNCHANGED <<mPtr, native, made, closes, source, owner, monitor, destroyOnClose, destroyed, wild>>
  BY DEF NativeInv, CallsAreSound, Ref, At, Idle, handles
<1>2. PICK q, r : q = todo[t] /\ r = Tail(q)
  OBVIOUS
<1>3. PICK d \in Wrappers, o \in Objects :
           /\ Head(q) = rf(o) /\ Shape(r) /\ r \in Seq(Ops)
           /\ \A c : (Has(q, mk(c)) <=> c = d) /\ (Has(r, mk(c)) <=> c = d)
           /\ \A n, c : n \notin {"ref", "create"} => ~ Has(q, Op(n, c)) /\ ~ Has(r, Op(n, c))
           /\ \A c : ~ Closing(q, c) /\ ~ Closing(r, c)
           /\ \/ /\ o = Db /\ Has(q, rf(Db)) /\ ~ Has(r, rf(Db))
                 /\ d \in Iters /\ source[d] # None => Has(r, rf(source[d]))
              \/ /\ d \in Iters /\ o = source[d] /\ o \in Snaps
                 /\ ~ Has(q, rf(Db)) /\ Has(q, rf(o)) /\ \A c : ~ Has(r, rf(c))
           /\ q # <<Op("destroyIfClosed", Db)>>
  BY <1>1, <1>2, RefForms DEF Now
<1>4. Now(t).obj = o /\ todo' = [todo EXCEPT ![t] = r] /\ todo \in [Threads -> Seq(Ops)]
  BY <1>1, <1>2, <1>3, OpIs DEF Now, Rest, rf, Typed
<1>5. todo'[t] = r /\ \A u \in Threads \ {t} : todo'[u] = todo[u]
  BY <1>4
<1>6. mRefCount \in [Objects -> Nat] /\ mRefCount'[o] = mRefCount[o] + 1 /\ \A c \in Objects \ {o} : mRefCount'[c] = mRefCount[c]
  BY <1>1, <1>4 DEF Typed
<1>7. d # Db /\ d \in Objects /\ (\A s \in Snaps : s # Db)
  BY NativeConstants DEF Wrappers, Objects
<1>8. \A c : ~ Has(q, cl(c)) /\ ~ Has(r, cl(c)) /\ ~ Has(q, aO(c)) /\ ~ Has(r, aO(c)) /\ ~ Has(q, un(c)) /\ ~ Has(r, un(c))
  BY <1>3 DEF cl, aO, un
<1>9. /\ MakeIsSound(t, q) /\ owner[d] = t /\ d \notin made /\ closes[Db] = 0 /\ Db \in mPtr
      /\ d \in Iters /\ source[d] # None => source[d] \in made /\ closes[source[d]] = 0
  <2>1. MakeIsSound(t, q)
    BY <1>2 DEF NativeInv, CallsAreSound
  <2> QED
    BY <1>3, <1>8, <2>1 DEF MakeIsSound
<1>10. \A u \in Threads \ {t} : ~ Has(todo[u], mk(d))
  BY <1>9 DEF NativeInv, CallsAreSound, MakeIsSound
<1>11. o \in mPtr /\ closes[o] = 0 /\ o \in made /\ d \notin mPtr /\ d # o
  <2>1. \A c \in made \ {Db} : closes[c] = 0 => c \in mPtr
    BY DEF NativeInv, PointersAreSound
  <2>2. o \in Snaps => o # None
    BY NativeConstants
  <2> QED
    BY <1>3, <1>7, <1>9, <2>1, <2>2 DEF NativeInv, PointersAreSound
<1>12. mRefCount[o] # 0 /\ ~ BeingClosed(o)
  <2>1. Holds(o, o)
    BY <1>11 DEF Holds, HoldsItself
  <2> QED
    BY <1>11, <2>1, HeldIsAlive
<1>13. \A c : BeingClosed(c)' <=> BeingClosed(c)
  BY <1>2, <1>5, <1>8 DEF BeingClosed
<1>14. /\ \A h, c : Holds(h, c)' <=> Holds(h, c) \/ (h = d /\ c = o)
       /\ ~ Holds(d, o)
  <2>1. \A c : HoldsItself(c)' <=> HoldsItself(c)
    BY <1>1, <1>2, <1>3, <1>5 DEF HoldsItself
  <2>2. \A c : Took(r, c) <=> Took(q, c) \/ (c = d /\ o = Db)
    BY <1>3, <1>7 DEF Took
  <2>3. \A c, s : ~ Gave(q, c) /\ ~ Gave(r, c) /\ ~ GaveSnap(q, c, s) /\ ~ GaveSnap(r, c, s)
    BY <1>8 DEF Gave, GaveSnap
  <2>4. \A u \in Threads : \A c : Gave(todo'[u], c) <=> Gave(todo[u], c)
    BY <1>2, <1>5, <2>3
  <2>5. \A c : HoldsDb(c)' <=> HoldsDb(c) \/ (c = d /\ o = Db)
    BY <1>1, <1>2, <1>5, <2>2, <2>4 DEF HoldsDb
  <2>6. \A i \in Iters, s \in Snaps : source[i] = s => (HoldsSnap(i, s)' <=> HoldsSnap(i, s) \/ (i = d /\ o = s))
    <3> SUFFICES ASSUME NEW i \in Iters, NEW s \in Snaps, source[i] = s
                 PROVE  HoldsSnap(i, s)' <=> HoldsSnap(i, s) \/ (i = d /\ o = s)
      OBVIOUS
    <3>1. \A u \in Threads : GaveSnap(todo'[u], i, s) <=> GaveSnap(todo[u], i, s)
      BY <1>2, <1>5, <2>3
    <3>2. TookSnap(r, i, s) <=> TookSnap(q, i, s) \/ (i = d /\ o = s)
      <4>1. s # None
        BY NativeConstants
      <4> QED
        BY <1>3, <1>7, <4>1 DEF TookSnap
    <3>3. (\E u \in Threads : TookSnap(todo'[u], i, s)) <=> (\E u \in Threads : TookSnap(todo[u], i, s)) \/ (i = d /\ o = s)
      BY <1>2, <1>5, <3>2
    <3> QED
      BY <1>1, <3>1, <3>3 DEF HoldsSnap
  <2>7. \A h, c : Holds(h, c)' <=> Holds(h, c) \/ (h = d /\ c = o)
    BY <1>1, <1>3, <1>7, <2>1, <2>5, <2>6 DEF Holds
  <2>8. ~ Holds(d, o)
    <3>1. ASSUME o = Db PROVE ~ HoldsDb(d)
      <4>1. \A u \in Threads : ~ Took(todo[u], d)
        BY <1>2, <1>3, <1>7, <1>10, <3>1 DEF Took
      <4> QED
        BY <1>11, <4>1 DEF HoldsDb
    <3>2. ASSUME o \in Snaps PROVE ~ HoldsSnap(d, o)
      <4>1. \A u \in Threads : ~ TookSnap(todo[u], d, o)
        BY <1>2, <1>3, <1>7, <1>10, <3>2 DEF TookSnap
      <4> QED
        BY <1>11, <4>1 DEF HoldsSnap
    <3> QED
      BY <1>11, <3>1, <3>2 DEF Holds
  <2> QED
    BY <2>7, <2>8
<1>15. Typed'
  <2>1. todo' \in [Threads -> Seq(Ops)] /\ mRefCount' \in [Objects -> Nat]
    BY <1>1, <1>3, <1>4, <1>6
  <2> QED
    BY <1>1, <2>1 DEF Typed
<1>16. CallsAreSound'
  <2>1. \A v : Shape(v) => Shape(v)'
    BY <1>1, SameShapes
  <2>2. \A u, v : MakeIsSound(u, v) => MakeIsSound(u, v)'
    BY <1>1 DEF MakeIsSound
  <2>3. \A u, v : UseIsSound(u, v) => UseIsSound(u, v)'
    BY <1>1 DEF UseIsSound
  <2>4. \A u, v : CloseIsSound(u, v) => CloseIsSound(u, v)'
    BY <1>1 DEF CloseIsSound
  <2>5. MakeIsSound(t, r)
    BY <1>3, <1>9 DEF MakeIsSound
  <2>6. UseIsSound(t, r)
    BY <1>3 DEF UseIsSound
  <2>7. CloseIsSound(t, r)
    <3>1. \A c \in Objects : monitor[c] # t
      BY <1>2, <1>8 DEF NativeInv, CallsAreSound, CloseIsSound
    <3>2. \A c : r # <<un(c)>>
      BY <1>3 DEF Closing
    <3> QED
      BY <1>3, <1>8, <3>1, <3>2 DEF CloseIsSound
  <2>8. \A u \in Threads : Shape(todo[u])'
    BY <1>3, <1>5, <2>1 DEF NativeInv, CallsAreSound
  <2>9. \A u \in Threads : MakeIsSound(u, todo[u])' /\ UseIsSound(u, todo[u])' /\ CloseIsSound(u, todo[u])'
    BY <1>5, <2>2, <2>3, <2>4, <2>5, <2>6, <2>7 DEF NativeInv, CallsAreSound
  <2>10. \A u, v \in Threads : Closing(todo'[u], Db) /\ Closing(todo'[v], Db) => u = v
    BY <1>3, <1>5 DEF NativeInv, CallsAreSound
  <2> QED
    BY <2>8, <2>9, <2>10 DEF CallsAreSound
<1>17. PointersAreSound'
  BY <1>1, <1>11, <1>13, <1>14 DEF NativeInv, PointersAreSound
<1>18. CountsAreHolders'
  <2>1. \A c : c # o => Holders(c)' = Holders(c)
    BY <1>14 DEF Holders
  <2>2. Holders(o)' = Holders(o) \cup {d} /\ d \notin Holders(o)
    BY <1>7, <1>14 DEF Holders
  <2>3. IsFiniteSet(Holders(o)) /\ mRefCount[o] = Cardinality(Holders(o))
    BY <1>11 DEF NativeInv, CountsAreHolders
  <2>4. IsFiniteSet(Holders(o) \cup {d}) /\ Cardinality(Holders(o) \cup {d}) = Cardinality(Holders(o)) + 1
    BY <2>2, <2>3, FS_AddElement
  <2>5. \A c \in made : c \in Objects
    BY <1>1 DEF Typed
  <2>6. \A c \in made : c \in mPtr \/ closes[c] = 0 => IsFiniteSet(Holders(c))' /\ mRefCount'[c] = Cardinality(Holders(c))'
    BY <1>6, <2>1, <2>2, <2>3, <2>4, <2>5 DEF NativeInv, CountsAreHolders
  <2>7. \A c \in mPtr : mRefCount'[c] = 0 <=> BeingClosed(c)
    <3>1. mRefCount'[o] # 0
      BY <1>6
    <3>2. \A c \in mPtr : c \in Objects
      BY <1>1 DEF Typed
    <3> QED
      BY <1>6, <1>12, <3>1, <3>2 DEF NativeInv, CountsAreHolders
  <2> QED
    BY <1>1, <1>13, <2>6, <2>7 DEF CountsAreHolders
<1>19. DestroyIsKept'
  BY <1>1, <1>2, <1>3, <1>5, <1>8 DEF NativeInv, DestroyIsKept
<1> QED
  BY <1>1, <1>15, <1>16, <1>17, <1>18, <1>19 DEF NativeInv

(* nativeIterator, nativeGetSnapshot and the constructor of the wrapper *)
LEMMA CreateStep ==
  ASSUME NativeInv, NEW t \in Threads, Create(t)
  PROVE  NativeInv'
<1>1. /\ todo[t] # <<>> /\ Shape(todo[t]) /\ Now(t).op = "create" /\ Typed
      /\ todo' = [todo EXCEPT ![t] = Rest(t)] /\ UNCHANGED <<closes, source, owner, monitor, destroyOnClose, destroyed>>
  BY DEF NativeInv, CallsAreSound, Create, At, Idle
<1>2. PICK d \in Wrappers : todo[t] = <<mk(d)>>
  BY <1>1, MakeForms DEF Now
<1>3. Now(t).obj = d /\ Rest(t) = <<>>
  BY <1>2, TailSteps, OpIs DEF Now, Rest, mk
<1>4. /\ mPtr' = mPtr \cup {d} /\ native' = native \cup {d} /\ made' = made \cup {d}
      /\ mRefCount' = [mRefCount EXCEPT ![d] = 1] /\ todo' = [todo EXCEPT ![t] = <<>>]
      /\ wild' = (wild \/ Db \notin native \cap mPtr
                        \/ (d \in Iters /\ source[d] # None /\ source[d] \notin native \cap mPtr))
  BY <1>1, <1>3 DEF Create
<1>5. todo'[t] = <<>> /\ \A u \in Threads \ {t} : todo'[u] = todo[u]
  BY <1>1, <1>4 DEF Typed
<1>6. d # Db /\ d \in Objects /\ d \notin Batches /\ Db \in Objects
  BY NativeConstants DEF Wrappers, Objects
<1>7. mRefCount \in [Objects -> Nat] /\ mRefCount'[d] = 1 /\ \A c \in Objects \ {d} : mRefCount'[c] = mRefCount[c]
  BY <1>1, <1>4, <1>6 DEF Typed
<1>8. PICK q : q = <<mk(d)>> /\ q = todo[t]
  BY <1>2
<1>9. /\ \A x : Has(q, x) <=> x = mk(d)
      /\ \A n, c : n # "create" => ~ Has(q, Op(n, c))
      /\ \A c : Has(q, mk(c)) <=> c = d
      /\ \A c : ~ Closing(q, c)
      /\ q # <<Op("destroyIfClosed", Db)>>
  <2>1. \A x, y : <<x>> = <<y>> <=> x = y
    BY TailSteps
  <2> QED
    BY <1>8, <2>1, HasSteps, OpIs DEF mk, Closing, un
<1>10. (\A x : ~ Has(<<>>, x)) /\ (\A c : ~ Closing(<<>>, c)) /\ (\A c : <<>> # <<un(c)>>)
  BY HasSteps, TailSteps DEF Closing
<1>11. \A c : ~ Has(q, rf(c)) /\ ~ Has(q, cl(c)) /\ ~ Has(q, aO(c)) /\ ~ Has(q, un(c))
  BY <1>9 DEF rf, cl, aO, un
<1>12. /\ owner[d] = t /\ d \notin made /\ closes[Db] = 0 /\ Db \in mPtr
       /\ d \in Iters /\ source[d] # None => source[d] \in made /\ closes[source[d]] = 0
  <2>1. MakeIsSound(t, q)
    BY <1>8 DEF NativeInv, CallsAreSound
  <2> QED
    BY <1>9, <1>11, <2>1 DEF MakeIsSound
<1>13. d \notin mPtr /\ d \notin native /\ closes[d] = 0
  BY <1>6, <1>12 DEF NativeInv, PointersAreSound
<1>14. \A u \in Threads : ~ Has(todo[u], cl(d)) /\ ~ Closing(todo[u], d)
  BY <1>6, <1>12, <1>13 DEF NativeInv, CallsAreSound, CloseIsSound
<1>15. \A u \in Threads \ {t} : ~ Has(todo[u], mk(d))
  BY <1>12 DEF NativeInv, CallsAreSound, MakeIsSound
<1>16. wild' = FALSE
  <2>1. Db \in native
    BY <1>6, <1>12, OpenIsAlive
  <2>2. ASSUME d \in Iters, source[d] # None PROVE source[d] \in native \cap mPtr
    <3>1. source[d] \in Snaps
      BY <1>1, <2>2 DEF Typed
    <3>2. source[d] \in Objects /\ source[d] # Db
      BY <3>1, NativeConstants DEF Objects
    <3>3. source[d] \in mPtr
      BY <1>12, <2>2, <3>2 DEF NativeInv, PointersAreSound
    <3> QED
      BY <1>12, <2>2, <3>2, <3>3, OpenIsAlive
  <2> QED
    BY <1>4, <1>12, <2>1, <2>2 DEF NativeInv, Typed
<1>17. \A c : BeingClosed(c)' <=> BeingClosed(c)
  BY <1>5, <1>8, <1>10, <1>11 DEF BeingClosed
<1>18. \A h, c : Holds(h, c)' <=> Holds(h, c) \/ (h = d /\ c = d)
  <2>1. \A u \in Threads : \A c : (Gave(todo'[u], c) <=> Gave(todo[u], c)) /\ (Closing(todo'[u], c) <=> Closing(todo[u], c))
    BY <1>5, <1>8, <1>9, <1>10, <1>11 DEF Gave
  <2>2. \A u \in Threads : \A c : c # d => (Took(todo'[u], c) <=> Took(todo[u], c))
    BY <1>5, <1>8, <1>9, <1>10 DEF Took
  <2>3. \A c : c # d => (HoldsDb(c)' <=> HoldsDb(c))
    BY <1>4, <2>1, <2>2 DEF HoldsDb
  <2>4. HoldsDb(d) /\ HoldsDb(d)'
    <3>1. Took(todo[t], d)
      BY <1>8, <1>9, <1>11 DEF Took
    <3>2. \A u \in Threads : ~ Gave(todo'[u], d)
      BY <1>14, <2>1 DEF Gave
    <3> QED
      BY <1>4, <3>1, <3>2 DEF HoldsDb
  <2>5. \A c, s : c # d => (HoldsSnap(c, s)' <=> HoldsSnap(c, s))
    <3>1. \A u \in Threads : \A c, s : GaveSnap(todo'[u], c, s) <=> GaveSnap(todo[u], c, s)
      BY <1>5, <1>8, <1>10, <1>11 DEF GaveSnap
    <3>2. \A u \in Threads : \A c, s : c # d => (TookSnap(todo'[u], c, s) <=> TookSnap(todo[u], c, s))
      BY <1>5, <1>8, <1>9, <1>10 DEF TookSnap
    <3> QED
      BY <1>4, <3>1, <3>2 DEF HoldsSnap
  <2>6. \A s : HoldsSnap(d, s) /\ HoldsSnap(d, s)'
    <3>1. \A s : TookSnap(todo[t], d, s)
      BY <1>8, <1>9, <1>11 DEF TookSnap
    <3>2. \A u \in Threads : \A s : ~ GaveSnap(todo'[u], d, s)
      BY <1>5, <1>10, <1>14 DEF GaveSnap
    <3> QED
      BY <1>4, <3>1, <3>2 DEF HoldsSnap
  <2>7. \A c : HoldsItself(c)' <=> HoldsItself(c) \/ c = d
    BY <1>1, <1>4, <1>13, <2>1 DEF HoldsItself
  <2> QED
    BY <1>1, <2>3, <2>4, <2>5, <2>6, <2>7 DEF Holds
<1>19. \A h \in Objects : ~ Holds(h, d)
  <2>1. \A h \in Objects \ {d} : ~ Holds(h, d)
    BY <1>6, <1>13 DEF NativeInv, PointersAreSound
  <2>2. ~ Holds(d, d)
    <3>1. d \in Iters => d \notin Snaps
      BY NativeConstants
    <3> QED
      BY <1>6, <1>12, <3>1 DEF Holds, HoldsItself
  <2> QED
    BY <2>1, <2>2
<1>20. Typed'
  <2>1. todo' \in [Threads -> Seq(Ops)]
    <3>1. todo \in [Threads -> Seq(Ops)] /\ <<>> \in Seq(Ops)
      BY <1>1 DEF Typed
    <3> QED
      BY <1>4, <3>1
  <2>2. mRefCount' \in [Objects -> Nat]
    BY <1>4, <1>7
  <2> QED
    BY <1>1, <1>4, <1>6, <1>16, <2>1, <2>2 DEF Typed
<1>21. CallsAreSound'
  <2>1. \A u \in Threads : Shape(todo[u])'
    <3>1. \A v : Shape(v) => Shape(v)'
      BY <1>1, SameShapes
    <3>2. Shape(<<>>)'
      BY DEF Shape, CallShape
    <3> QED
      BY <1>5, <3>1, <3>2 DEF NativeInv, CallsAreSound
  <2>2. \A u, v : ~ Has(v, mk(d)) /\ MakeIsSound(u, v) => MakeIsSound(u, v)'
    BY <1>1, <1>4 DEF MakeIsSound
  <2>3. \A u, v : UseIsSound(u, v) => UseIsSound(u, v)'
    BY <1>1, <1>4 DEF UseIsSound
  <2>4. \A u, v : ~ Has(v, cl(d)) /\ CloseIsSound(u, v) => CloseIsSound(u, v)'
    BY <1>1, <1>4 DEF CloseIsSound
  <2>5. MakeIsSound(t, <<>>)' /\ UseIsSound(t, <<>>)'
    BY <1>10 DEF MakeIsSound, UseIsSound
  <2>6. CloseIsSound(t, <<>>)'
    <3>1. \A c \in Objects : monitor[c] # t
      BY <1>8, <1>11 DEF NativeInv, CallsAreSound, CloseIsSound
    <3> QED
      BY <1>1, <1>10, <3>1 DEF CloseIsSound
  <2>7. \A u \in Threads : MakeIsSound(u, todo[u])' /\ UseIsSound(u, todo[u])' /\ CloseIsSound(u, todo[u])'
    BY <1>5, <1>14, <1>15, <2>2, <2>3, <2>4, <2>5, <2>6 DEF NativeInv, CallsAreSound
  <2>8. \A u, v \in Threads : Closing(todo'[u], Db) /\ Closing(todo'[v], Db) => u = v
    BY <1>5, <1>10 DEF NativeInv, CallsAreSound
  <2> QED
    BY <2>1, <2>7, <2>8 DEF CallsAreSound
<1>22. PointersAreSound'
  <2>1. \A c \in mPtr' \ native' : BeingClosed(c)'
    BY <1>4, <1>17 DEF NativeInv, PointersAreSound
  <2>2. \A c \in made' \ {Db} : owner[c] # None /\ (closes[c] = 0 => c \in mPtr')
    BY <1>4, <1>12, NativeConstants DEF NativeInv, PointersAreSound
  <2>3. \A h, c \in Objects : Holds(h, c)' /\ h # c => c \in mPtr'
    BY <1>4, <1>18 DEF NativeInv, PointersAreSound
  <2> QED
    BY <1>1, <1>4, <2>1, <2>2, <2>3 DEF NativeInv, PointersAreSound
<1>23. CountsAreHolders'
  <2>1. \A c : c # d => Holders(c)' = Holders(c)
    BY <1>18 DEF Holders
  <2>2. Holders(d)' = {d}
    BY <1>6, <1>18, <1>19 DEF Holders
  <2>3. IsFiniteSet({d}) /\ Cardinality({d}) = 1
    BY FS_Singleton
  <2>4. ~ BeingClosed(d)
    BY <1>14 DEF BeingClosed
  <2>5. \A c \in made : c \in Objects /\ c # d
    BY <1>1, <1>12 DEF Typed
  <2>6. \A c \in made' : (c \in mPtr' \/ closes[c] = 0) => IsFiniteSet(Holders(c))' /\ mRefCount'[c] = Cardinality(Holders(c))'
    BY <1>4, <1>7, <2>1, <2>2, <2>3, <2>5 DEF NativeInv, CountsAreHolders
  <2>7. \A c \in mPtr' : mRefCount'[c] = 0 <=> BeingClosed(c)'
    <3>1. \A c \in mPtr : c \in Objects /\ c # d
      BY <1>1, <1>13 DEF Typed
    <3> QED
      BY <1>4, <1>7, <1>17, <2>4, <3>1 DEF NativeInv, CountsAreHolders
  <2> QED
    BY <1>1, <2>6, <2>7 DEF CountsAreHolders
<1>24. DestroyIsKept'
  BY <1>1, <1>4, <1>5, <1>8, <1>9, <1>10 DEF NativeInv, DestroyIsKept
<1> QED
  BY <1>16, <1>20, <1>21, <1>22, <1>23, <1>24 DEF NativeInv

-----------------------------------------------------------------------------
(***************************************************************************)
(* unref().                                                                *)
(***************************************************************************)
(* What is ahead of a thread in unref(): h gives back its reference to o. *)
UnrefForm(q, h, o) ==
    \/ h = o /\ q = <<un(o)>>
    \/ h \in Wrappers /\ o = Db /\ q = <<un(o), cl(h)>>
    \/ h \in Iters /\ o = source[h] /\ o \in Snaps /\ q = <<un(o), un(Db), cl(h)>>
    \/ h \in Snaps /\ o = Db /\ \E i \in Iters : source[i] = h /\ q = <<un(o), cl(h), un(Db), cl(i)>>

(* From q to r, the reference of h to o is given back and no other one. *)
GivesBack(q, r, h, o) ==
    /\ \A c : ~ Has(q, mk(c)) /\ ~ Has(r, mk(c))
    /\ \A c : (Closing(q, c) <=> c = h /\ h = o) /\ ~ Closing(r, c)
    /\ \A d \in Wrappers : Gave(r, d) <=> Gave(q, d) \/ (d = h /\ o = Db)
    /\ \A i \in Iters, s \in Snaps : source[i] = s => (GaveSnap(r, i, s) <=> GaveSnap(q, i, s) \/ (i = h /\ o = s))

(* The reference is there to be given back. *)
ToGive(q, h, o) ==
    \/ h = o
    \/ h \in Wrappers /\ o = Db /\ Has(q, cl(h)) /\ ~ Gave(q, h)
    \/ h \in Iters /\ o \in Snaps /\ o = source[h] /\ Has(q, cl(h)) /\ ~ GaveSnap(q, h, o)

(* No step of a call on an open object. *)
OnlyReleases(q) == \A n, c : n \notin {"unref", "clear", "free", "destroyIfFlag"} => ~ Has(q, Op(n, c))

(* Which object is let go, and for whom. *)
LEMMA UnrefIs ==
  ASSUME Typed, NEW q, Shape(q), q # <<>>, Head(q).op = "unref"
  PROVE  \E h, o \in Objects : Head(q) = un(o) /\ UnrefForm(q, h, o)
<1>1. Db \in Objects /\ Wrappers \subseteq Objects /\ \A i \in Iters : source[i] # None => source[i] \in Snaps
  BY DEF Objects, Wrappers, Typed
<1>2. CASE \E o \in Objects : q = <<un(o)>>
  BY <1>2, TailSteps DEF UnrefForm
<1>3. CASE \E d \in Wrappers : q = <<un(Db), cl(d)>>
  BY <1>1, <1>3, TailSteps DEF UnrefForm
<1>4. CASE \E i \in Iters : source[i] # None /\ q = <<un(source[i]), un(Db), cl(i)>>
  BY <1>1, <1>4, TailSteps DEF UnrefForm, Objects
<1>5. CASE \E i \in Iters : source[i] # None /\ q = <<un(Db), cl(source[i]), un(Db), cl(i)>>
  <2>1. PICK i \in Iters : source[i] # None /\ q = <<un(Db), cl(source[i]), un(Db), cl(i)>>
    BY <1>5
  <2>2. PICK s : s = source[i]
    OBVIOUS
  <2>3. s \in Snaps /\ s \in Objects /\ q = <<un(Db), cl(s), un(Db), cl(i)>>
    BY <1>1, <2>1, <2>2 DEF Objects
  <2>4. UnrefForm(q, s, Db) /\ Head(q) = un(Db)
    BY <2>2, <2>3, TailSteps DEF UnrefForm
  <2> QED
    BY <1>1, <2>3, <2>4
<1> QED
  BY <1>2, <1>3, <1>4, <1>5, UnrefForms

(* The count is not yet 0. *)
LEMMA UnrefRest ==
  ASSUME Typed, NEW q, NEW h \in Objects, NEW o \in Objects, UnrefForm(q, h, o)
  PROVE  /\ GivesBack(q, Tail(q), h, o) /\ ToGive(q, h, o) /\ Shape(Tail(q)) /\ OnlyReleases(Tail(q))
         /\ \A c : Has(Tail(q), cl(c)) <=> Has(q, cl(c))
         /\ \A c : ~ Has(Tail(q), fr(c)) /\ ~ Has(q, fr(c))
         /\ ~ Has(q, cl(Db)) /\ ~ Has(q, cl(o)) /\ q # <<Op("destroyIfClosed", Db)>>
<1>1. /\ \A x, y : <<x>> = <<y>> <=> x = y
      /\ \A x : <<x>> # <<>>
      /\ \A x, y, z : <<x, y>> # <<z>>
      /\ \A x, y, z, w : <<x, y, w>> # <<z>>
      /\ \A x, y, z, w, v : <<x, y, w, v>> # <<z>>
  BY TailSteps
<1>2. (\A i \in Iters : i # Db /\ i \notin Snaps) /\ (\A s \in Snaps : s # Db) /\ (\A d \in Wrappers : d # Db)
  BY NativeConstants DEF Wrappers
<1> USE OpIs DEF un, cl, mk, fr
<1>3. CASE h = o /\ q = <<un(o)>>
  <2>1. Tail(q) = <<>> /\ Shape(<<>>)
    BY <1>3, TailSteps DEF Shape, CallShape
  <2>2. (\A x : Has(q, x) <=> x = un(o)) /\ (\A x : ~ Has(<<>>, x))
    BY <1>3, HasSteps
  <2>3. (\A c : Closing(q, c) <=> c = o) /\ (\A c : ~ Closing(<<>>, c))
    BY <1>1, <1>3 DEF Closing
  <2>4. GivesBack(q, <<>>, h, o)
    BY <1>2, <1>3, <2>2, <2>3 DEF GivesBack, Gave, GaveSnap
  <2>5. q # <<Op("destroyIfClosed", Db)>>
    BY <1>1, <1>3
  <2> QED
    BY <1>3, <2>1, <2>2, <2>4, <2>5 DEF ToGive, OnlyReleases
<1>4. CASE h \in Wrappers /\ o = Db /\ q = <<un(o), cl(h)>>
  <2>1. Tail(q) = <<cl(h)>> /\ Head(q) = un(Db) /\ Head(<<cl(h)>>) = cl(h)
    BY <1>4, TailSteps
  <2>2. Shape(<<cl(h)>>)
    BY <1>4 DEF Shape, CloseShape
  <2>3. (\A x : Has(q, x) <=> x \in {un(Db), cl(h)}) /\ (\A x : Has(<<cl(h)>>, x) <=> x = cl(h))
    BY <1>4, HasSteps
  <2>4. (\A c : ~ Closing(q, c)) /\ (\A c : ~ Closing(<<cl(h)>>, c))
    BY <1>1, <1>4 DEF Closing
  <2>5. GivesBack(q, <<cl(h)>>, h, o)
    BY <1>2, <1>4, <2>1, <2>3, <2>4 DEF GivesBack, Gave, GaveSnap
  <2>6. ToGive(q, h, o)
    BY <1>4, <2>1, <2>3 DEF ToGive, Gave
  <2>7. q # <<Op("destroyIfClosed", Db)>>
    BY <1>1, <1>4
  <2> QED
    BY <1>2, <1>4, <2>1, <2>2, <2>3, <2>5, <2>6, <2>7 DEF OnlyReleases
<1>5. CASE h \in Iters /\ o = source[h] /\ o \in Snaps /\ q = <<un(o), un(Db), cl(h)>>
  <2>1. Tail(q) = <<un(Db), cl(h)>> /\ Head(q) = un(o) /\ Head(<<un(Db), cl(h)>>) = un(Db)
    BY <1>5, TailSteps
  <2>2. Shape(<<un(Db), cl(h)>>)
    BY <1>5 DEF Shape, CloseShape, Wrappers
  <2>3. (\A x : Has(q, x) <=> x \in {un(o), un(Db), cl(h)}) /\ (\A x : Has(<<un(Db), cl(h)>>, x) <=> x \in {un(Db), cl(h)})
    BY <1>5, HasSteps
  <2>4. (\A c : ~ Closing(q, c)) /\ (\A c : ~ Closing(<<un(Db), cl(h)>>, c))
    BY <1>1, <1>5 DEF Closing
  <2>5. GivesBack(q, <<un(Db), cl(h)>>, h, o)
    BY <1>2, <1>5, <2>1, <2>3, <2>4 DEF GivesBack, Gave, GaveSnap
  <2>6. ToGive(q, h, o)
    BY <1>5, <2>1, <2>3 DEF ToGive, GaveSnap
  <2>7. q # <<Op("destroyIfClosed", Db)>>
    BY <1>1, <1>5
  <2> QED
    BY <1>2, <1>5, <2>1, <2>2, <2>3, <2>5, <2>6, <2>7 DEF OnlyReleases
<1>6. CASE h \in Snaps /\ o = Db /\ \E i \in Iters : source[i] = h /\ q = <<un(o), cl(h), un(Db), cl(i)>>
  <2>1. PICK i \in Iters : source[i] = h /\ q = <<un(Db), cl(h), un(Db), cl(i)>>
    BY <1>6
  <2>2. PICK r : r = <<cl(h), un(Db), cl(i)>>
    OBVIOUS
  <2>3. Tail(q) = r /\ Head(q) = un(Db) /\ Head(r) = cl(h)
    BY <2>1, <2>2, TailSteps
  <2>4. Shape(r)
    <3>1. source[i] # None
      BY <1>6, <2>1, NativeConstants
    <3> QED
      BY <2>1, <2>2, <3>1 DEF Shape, CloseShape
  <2>5. (\A x : Has(q, x) <=> x \in {un(Db), cl(h), cl(i)}) /\ (\A x : Has(r, x) <=> x \in {cl(h), un(Db), cl(i)})
    BY <2>1, <2>2, HasSteps
  <2>6. (\A c : ~ Closing(q, c)) /\ (\A c : ~ Closing(r, c))
    BY <1>1, <2>1, <2>2 DEF Closing
  <2>7. GivesBack(q, r, h, o)
    BY <1>2, <1>6, <2>1, <2>3, <2>5, <2>6 DEF GivesBack, Gave, GaveSnap
  <2>8. ToGive(q, h, o)
    BY <1>2, <1>6, <2>3, <2>5 DEF ToGive, Gave, Wrappers
  <2>9. q # <<Op("destroyIfClosed", Db)>>
    BY <1>1, <2>1
  <2> QED
    BY <1>2, <1>6, <2>3, <2>4, <2>5, <2>7, <2>8, <2>9 DEF OnlyReleases
<1> QED
  BY <1>3, <1>4, <1>5, <1>6 DEF UnrefForm

(* closeNativeObject in front of the rest of the call. *)
CloseList(q, r, h, o) ==
    \/ h = Db /\ o = Db /\ q = <<un(o)>> /\ r = <<fr(o), Op("destroyIfFlag", Db), cl(o)>>
    \/ h = o /\ o \in Batches /\ q = <<un(o)>> /\ r = <<fr(o), cl(o)>>
    \/ /\ h = o /\ o \in Wrappers /\ (o \in Iters => source[o] = None)
       /\ q = <<un(o)>> /\ r = <<fr(o), un(Db), cl(o)>>
    \/ h = o /\ o \in Iters /\ source[o] \in Snaps /\ q = <<un(o)>> /\ r = <<fr(o), un(source[o]), un(Db), cl(o)>>
    \/ /\ h \in Wrappers /\ o = Db /\ q = <<un(o), cl(h)>>
       /\ r = <<fr(o), Op("destroyIfFlag", Db), cl(o), cl(h)>>
    \/ /\ h \in Iters /\ o = source[h] /\ o \in Snaps /\ q = <<un(o), un(Db), cl(h)>>
       /\ r = <<fr(o), un(Db), cl(o), un(Db), cl(h)>>

(* The work of the one who lets go the last reference. *)
LEMMA CloseLists ==
  ASSUME Typed, NEW q, NEW h \in Objects, NEW o \in Objects, UnrefForm(q, h, o),
         ~ \E i : q = <<un(o), cl(h), un(Db), cl(i)>>
  PROVE  CloseList(q, CloseNativeObject(o) \o <<cl(o)>> \o Tail(q), h, o)
<1>1. (\A i \in Iters : i # Db /\ i \notin Snaps) /\ (\A s \in Snaps : s # Db /\ s \notin Iters /\ s # None)
      /\ (\A b \in Batches : b # Db /\ b \notin Iters /\ b \notin Snaps)
  BY NativeConstants
<1>2. o = Db => CloseNativeObject(o) = <<fr(o), Op("destroyIfFlag", Db)>>
  BY <1>1 DEF CloseNativeObject, fr
<1>3. o \in Batches => CloseNativeObject(o) = <<fr(o)>>
  BY <1>1 DEF CloseNativeObject, fr
<1>4. o \in Snaps => CloseNativeObject(o) = <<fr(o), un(Db)>>
  BY <1>1 DEF CloseNativeObject, fr, un
<1>5. ASSUME o \in Iters, source[o] = None PROVE CloseNativeObject(o) = <<fr(o), un(Db)>>
  <2>1. CloseNativeObject(o) = <<fr(o)>> \o <<>> \o <<un(Db)>>
    BY <1>1, <1>5 DEF CloseNativeObject, fr, un
  <2>2. <<fr(o)>> \o <<>> = <<fr(o)>>
    BY JoinedSteps
  <2>3. <<fr(o)>> \o <<un(Db)>> = <<fr(o), un(Db)>>
    BY JoinedSteps
  <2> QED
    BY <2>1, <2>2, <2>3
<1>6. ASSUME o \in Iters, source[o] # None PROVE CloseNativeObject(o) = <<fr(o), un(source[o]), un(Db)>>
  <2>1. CloseNativeObject(o) = <<fr(o)>> \o <<un(source[o])>> \o <<un(Db)>>
    BY <1>1, <1>6 DEF CloseNativeObject, fr, un
  <2>2. <<fr(o)>> \o <<un(source[o])>> = <<fr(o), un(source[o])>>
    BY JoinedSteps
  <2>3. <<fr(o), un(source[o])>> \o <<un(Db)>> = <<fr(o), un(source[o]), un(Db)>>
    BY JoinedSteps
  <2> QED
    BY <2>1, <2>2, <2>3
<1>7. \A a, b, c : (<<a>> \o <<b>>) \o <<>> = <<a, b>> /\ (<<a, b>> \o <<c>>) \o <<>> = <<a, b, c>>
  <2> TAKE a, b, c
  <2>1. <<a>> \o <<b>> = <<a, b>> /\ <<a, b>> \o <<>> = <<a, b>>
    BY JoinedSteps
  <2>2. <<a, b>> \o <<c>> = <<a, b, c>> /\ <<a, b, c>> \o <<>> = <<a, b, c>>
    BY JoinedSteps
  <2> QED
    BY <2>1, <2>2
<1>8. \A a, b, c, d : (<<a, b, c>> \o <<d>>) \o <<>> = <<a, b, c, d>> /\ (<<a, b>> \o <<c>>) \o <<d>> = <<a, b, c, d>>
  <2> TAKE a, b, c, d
  <2>1. <<a, b, c>> \o <<d>> = <<a, b, c, d>> /\ <<a, b, c, d>> \o <<>> = <<a, b, c, d>>
    BY JoinedSteps
  <2>2. <<a, b>> \o <<c>> = <<a, b, c>>
    BY JoinedSteps
  <2> QED
    BY <2>1, <2>2
<1>9. \A a, b, c, d, e : (<<a, b>> \o <<c>>) \o <<d, e>> = <<a, b, c, d, e>>
  <2> TAKE a, b, c, d, e
  <2>1. <<a, b>> \o <<c>> = <<a, b, c>>
    BY JoinedSteps
  <2>2. <<a, b, c>> \o <<d, e>> = <<a, b, c, d, e>>
    BY JoinedSteps
  <2> QED
    BY <2>1, <2>2
<1> DEFINE r == CloseNativeObject(o) \o <<cl(o)>> \o Tail(q)
<1> SUFFICES CloseList(q, r, h, o)
  OBVIOUS
<1> HIDE DEF r
<1>10. CASE h = o /\ q = <<un(o)>>
  <2>1. Tail(q) = <<>>
    BY <1>10, TailSteps
  <2>2. CASE o = Db
    <3>1. r = (<<fr(o), Op("destroyIfFlag", Db)>> \o <<cl(o)>>) \o <<>>
      BY <1>2, <2>1, <2>2 DEF r
    <3>2. r = <<fr(o), Op("destroyIfFlag", Db), cl(o)>>
      BY <1>7, <3>1
    <3> QED
      BY <1>10, <2>2, <3>2 DEF CloseList
  <2>3. CASE o \in Batches
    <3>1. r = (<<fr(o)>> \o <<cl(o)>>) \o <<>>
      BY <1>3, <2>1, <2>3 DEF r
    <3>2. r = <<fr(o), cl(o)>>
      BY <1>7, <3>1
    <3> QED
      BY <1>10, <2>3, <3>2 DEF CloseList
  <2>4. CASE o \in Snaps \/ (o \in Iters /\ source[o] = None)
    <3>1. o \in Wrappers /\ (o \in Iters => source[o] = None)
      BY <1>1, <2>4 DEF Wrappers
    <3>2. r = (<<fr(o), un(Db)>> \o <<cl(o)>>) \o <<>>
      BY <1>4, <1>5, <2>1, <2>4 DEF r
    <3>3. r = <<fr(o), un(Db), cl(o)>>
      BY <1>7, <3>2
    <3> QED
      BY <1>10, <3>1, <3>3 DEF CloseList
  <2>5. CASE o \in Iters /\ source[o] # None
    <3>1. source[o] \in Snaps
      BY <2>5 DEF Typed
    <3>2. r = (<<fr(o), un(source[o]), un(Db)>> \o <<cl(o)>>) \o <<>>
      BY <1>6, <2>1, <2>5 DEF r
    <3>3. r = <<fr(o), un(source[o]), un(Db), cl(o)>>
      BY <1>8, <3>2
    <3> QED
      BY <1>10, <2>5, <3>1, <3>3 DEF CloseList
  <2> QED
    BY <2>2, <2>3, <2>4, <2>5 DEF Objects
<1>11. CASE h \in Wrappers /\ o = Db /\ q = <<un(o), cl(h)>>
  <2>1. Tail(q) = <<cl(h)>>
    BY <1>11, TailSteps
  <2>2. r = (<<fr(o), Op("destroyIfFlag", Db)>> \o <<cl(o)>>) \o <<cl(h)>>
    BY <1>2, <1>11, <2>1 DEF r
  <2>3. r = <<fr(o), Op("destroyIfFlag", Db), cl(o), cl(h)>>
    BY <1>8, <2>2
  <2> QED
    BY <1>11, <2>3 DEF CloseList
<1>12. CASE h \in Iters /\ o = source[h] /\ o \in Snaps /\ q = <<un(o), un(Db), cl(h)>>
  <2>1. Tail(q) = <<un(Db), cl(h)>>
    BY <1>12, TailSteps
  <2>2. r = (<<fr(o), un(Db)>> \o <<cl(o)>>) \o <<un(Db), cl(h)>>
    BY <1>4, <1>12, <2>1 DEF r
  <2>3. r = <<fr(o), un(Db), cl(o), un(Db), cl(h)>>
    BY <1>9, <2>2
  <2> QED
    BY <1>12, <2>3 DEF CloseList
<1> QED
  BY <1>1, <1>10, <1>11, <1>12 DEF UnrefForm

(* The count becomes 0: the native object is closed by this thread. *)
LEMMA UnrefCloses ==
  ASSUME Typed, NEW q, NEW h \in Objects, NEW o \in Objects, UnrefForm(q, h, o),
         NEW r, CloseList(q, r, h, o)
  PROVE  /\ GivesBack(q, r, h, o) /\ Shape(r) /\ OnlyReleases(r)
         /\ \A c : Has(r, cl(c)) <=> Has(q, cl(c)) \/ c = o
         /\ \A c : Has(r, fr(c)) <=> c = o
         /\ o = Db => Has(r, Op("destroyIfFlag", Db))
<1>1. /\ \A x, y : <<x>> = <<y>> <=> x = y
      /\ \A x, y, z : <<x, y>> # <<z>>
      /\ \A x, y, z, w : <<x, y, w>> # <<z>>
      /\ \A x, y, z, w, v : <<x, y, w, v>> # <<z>>
      /\ \A x, y, z, w, v, u : <<x, y, w, v, u>> # <<z>>
  BY TailSteps
<1>2. /\ \A i \in Iters : i # Db /\ i \notin Snaps
      /\ \A s \in Snaps : s # Db /\ s # None /\ s \notin Iters
      /\ \A d \in Wrappers : d # Db
      /\ \A b \in Batches : b # Db /\ b \notin Wrappers /\ b \notin Iters /\ b \notin Snaps
  BY NativeConstants DEF Wrappers
<1>3. CASE h = Db /\ o = Db /\ q = <<un(o)>> /\ r = <<fr(o), Op("destroyIfFlag", Db), cl(o)>>
  <2>1. (\A x : Has(q, x) <=> x = un(o)) /\ (\A x : Has(r, x) <=> x \in {fr(o), Op("destroyIfFlag", Db), cl(o)})
    BY <1>3, HasSteps
  <2>2. (\A c : Closing(q, c) <=> c = o) /\ (\A c : ~ Closing(r, c)) /\ Head(r) = fr(o)
    BY <1>1, <1>3, TailSteps, OpIs DEF Closing, un
  <2>3. GivesBack(q, r, h, o)
    BY <1>2, <1>3, <2>1, <2>2, OpIs DEF GivesBack, Gave, GaveSnap, un, cl, mk, fr
  <2>4. Shape(r)
    BY <1>3 DEF Shape, CloseShape
  <2> QED
    BY <1>3, <2>1, <2>3, <2>4, OpIs DEF OnlyReleases, un, cl, mk, fr
<1>4. CASE h = o /\ o \in Batches /\ q = <<un(o)>> /\ r = <<fr(o), cl(o)>>
  <2>1. (\A x : Has(q, x) <=> x = un(o)) /\ (\A x : Has(r, x) <=> x \in {fr(o), cl(o)})
    BY <1>4, HasSteps
  <2>2. (\A c : Closing(q, c) <=> c = o) /\ (\A c : ~ Closing(r, c)) /\ Head(r) = fr(o)
    BY <1>1, <1>4, TailSteps, OpIs DEF Closing, un
  <2>3. GivesBack(q, r, h, o)
    BY <1>2, <1>4, <2>1, <2>2, OpIs DEF GivesBack, Gave, GaveSnap, un, cl, mk, fr
  <2>4. Shape(r)
    BY <1>4 DEF Shape, CloseShape
  <2> QED
    BY <1>2, <1>4, <2>1, <2>3, <2>4, OpIs DEF OnlyReleases, un, cl, mk, fr
<1>5. CASE /\ h = o /\ o \in Wrappers /\ (o \in Iters => source[o] = None)
           /\ q = <<un(o)>> /\ r = <<fr(o), un(Db), cl(o)>>
  <2>1. (\A x : Has(q, x) <=> x = un(o)) /\ (\A x : Has(r, x) <=> x \in {fr(o), un(Db), cl(o)})
    BY <1>5, HasSteps
  <2>2. (\A c : Closing(q, c) <=> c = o) /\ (\A c : ~ Closing(r, c)) /\ Head(r) = fr(o)
    BY <1>1, <1>5, TailSteps, OpIs DEF Closing, un
  <2>3. GivesBack(q, r, h, o)
    BY <1>2, <1>5, <2>1, <2>2, OpIs DEF GivesBack, Gave, GaveSnap, un, cl, mk, fr
  <2>4. Shape(r)
    BY <1>5 DEF Shape, CloseShape, Wrappers
  <2> QED
    BY <1>2, <1>5, <2>1, <2>3, <2>4, OpIs DEF OnlyReleases, un, cl, mk, fr
<1>6. CASE h = o /\ o \in Iters /\ source[o] \in Snaps /\ q = <<un(o)>> /\ r = <<fr(o), un(source[o]), un(Db), cl(o)>>
  <2>1. (\A x : Has(q, x) <=> x = un(o)) /\ (\A x : Has(r, x) <=> x \in {fr(o), un(source[o]), un(Db), cl(o)})
    BY <1>6, HasSteps
  <2>2. (\A c : Closing(q, c) <=> c = o) /\ (\A c : ~ Closing(r, c)) /\ Head(r) = fr(o)
    BY <1>1, <1>6, TailSteps, OpIs DEF Closing, un
  <2>3. GivesBack(q, r, h, o)
    BY <1>2, <1>6, <2>1, <2>2, OpIs DEF GivesBack, Gave, GaveSnap, un, cl, mk, fr
  <2>4. Shape(r)
    BY <1>2, <1>6 DEF Shape, CloseShape
  <2> QED
    BY <1>2, <1>6, <2>1, <2>3, <2>4, OpIs DEF OnlyReleases, un, cl, mk, fr
<1>7. CASE h \in Wrappers /\ o = Db /\ q = <<un(o), cl(h)>> /\ r = <<fr(o), Op("destroyIfFlag", Db), cl(o), cl(h)>>
  <2>1. (\A x : Has(q, x) <=> x \in {un(o), cl(h)}) /\ (\A x : Has(r, x) <=> x \in {fr(o), Op("destroyIfFlag", Db), cl(o), cl(h)})
    BY <1>7, HasSteps
  <2>2. (\A c : ~ Closing(q, c)) /\ (\A c : ~ Closing(r, c)) /\ Head(r) = fr(o) /\ Head(q) = un(o)
    BY <1>1, <1>7, TailSteps, OpIs DEF Closing, un
  <2>3. GivesBack(q, r, h, o)
    BY <1>2, <1>7, <2>1, <2>2, OpIs DEF GivesBack, Gave, GaveSnap, un, cl, mk, fr
  <2>4. Shape(r)
    BY <1>7 DEF Shape, CloseShape
  <2> QED
    BY <1>2, <1>7, <2>1, <2>3, <2>4, OpIs DEF OnlyReleases, un, cl, mk, fr
<1>8. CASE /\ h \in Iters /\ o = source[h] /\ o \in Snaps /\ q = <<un(o), un(Db), cl(h)>>
           /\ r = <<fr(o), un(Db), cl(o), un(Db), cl(h)>>
  <2>1. /\ \A x : Has(q, x) <=> x \in {un(o), un(Db), cl(h)}
        /\ \A x : Has(r, x) <=> x \in {fr(o), un(Db), cl(o), cl(h)}
    BY <1>8, HasSteps
  <2>2. (\A c : ~ Closing(q, c)) /\ (\A c : ~ Closing(r, c)) /\ Head(r) = fr(o) /\ Head(q) = un(o)
    BY <1>1, <1>8, TailSteps, OpIs DEF Closing, un
  <2>3. GivesBack(q, r, h, o)
    BY <1>2, <1>8, <2>1, <2>2, OpIs DEF GivesBack, Gave, GaveSnap, un, cl, mk, fr
  <2>4. Shape(r)
    BY <1>2, <1>8 DEF Shape, CloseShape
  <2> QED
    BY <1>2, <1>8, <2>1, <2>3, <2>4, OpIs DEF OnlyReleases, un, cl, mk, fr
<1> QED
  BY <1>3, <1>4, <1>5, <1>6, <1>7, <1>8 DEF CloseList

(* That work has its type. *)
LEMMA CloseListTyped ==
  ASSUME Typed, NEW q, NEW h \in Objects, NEW o \in Objects, NEW r, CloseList(q, r, h, o)
  PROVE  r \in Seq(Ops)
<1>1. \A c \in Objects : fr(c) \in Ops /\ un(c) \in Ops /\ cl(c) \in Ops /\ Op("destroyIfFlag", c) \in Ops
  BY DEF fr, un, cl, Op, Ops
<1>2. Db \in Objects /\ (\A s \in Snaps : s \in Objects)
  BY DEF Objects
<1>3. \A a, b \in Ops : <<a, b>> \in Seq(Ops)
  OBVIOUS
<1>4. \A a, b, c \in Ops : <<a, b, c>> \in Seq(Ops)
  OBVIOUS
<1>5. \A a, b, c, d \in Ops : <<a, b, c, d>> \in Seq(Ops)
  OBVIOUS
<1>6. \A a, b, c, d, e \in Ops : <<a, b, c, d, e>> \in Seq(Ops)
  OBVIOUS
<1>7. CASE r = <<fr(o), cl(o)>>
  BY <1>1, <1>3, <1>7
<1>8. CASE r = <<fr(o), Op("destroyIfFlag", Db), cl(o)>>
  BY <1>1, <1>2, <1>4, <1>8
<1>9. CASE r = <<fr(o), un(Db), cl(o)>>
  BY <1>1, <1>2, <1>4, <1>9
<1>10. CASE source[o] \in Snaps /\ r = <<fr(o), un(source[o]), un(Db), cl(o)>>
  BY <1>1, <1>2, <1>5, <1>10
<1>11. CASE r = <<fr(o), Op("destroyIfFlag", Db), cl(o), cl(h)>>
  BY <1>1, <1>2, <1>5, <1>11
<1>12. CASE r = <<fr(o), un(Db), cl(o), un(Db), cl(h)>>
  BY <1>1, <1>2, <1>6, <1>12
<1> QED
  BY <1>7, <1>8, <1>9, <1>10, <1>11, <1>12 DEF CloseList

(* h loses its reference to o, and that is all that changes hands. *)
LEMMA GiveBack ==
  ASSUME NativeInv, NEW t \in Threads, NEW h \in Objects, NEW o \in Objects, UnrefForm(todo[t], h, o),
         ToGive(todo[t], h, o), NEW r, GivesBack(todo[t], r, h, o), todo' = [todo EXCEPT ![t] = r],
         UNCHANGED <<mPtr, made, closes, source>>
  PROVE  /\ Holds(h, o) /\ o \in mPtr
         /\ \A g, c : Holds(g, c)' <=> Holds(g, c) /\ ~ (g = h /\ c = o)
<1>1. Typed /\ todo'[t] = r /\ (\A u \in Threads \ {t} : todo'[u] = todo[u]) /\ mPtr \subseteq made
  BY DEF NativeInv, Typed, PointersAreSound
<1>2. PICK q : q = todo[t]
  OBVIOUS
<1>3. GivesBack(q, r, h, o) /\ ToGive(q, h, o) /\ UnrefForm(q, h, o)
  BY <1>2
<1>4. \A c \in Objects : Has(q, cl(c)) => c \in mPtr /\ \A u \in Threads \ {t} : ~ Has(todo[u], cl(c))
  BY <1>2 DEF NativeInv, CallsAreSound, CloseIsSound
<1>5. h = o => q = <<un(o)>> /\ closes[o] = 1 /\ o \in made /\ o \in mPtr /\ \A u \in Threads \ {t} : ~ Closing(todo[u], o)
  <2> SUFFICES ASSUME h = o
               PROVE  q = <<un(o)>> /\ closes[o] = 1 /\ o \in made /\ o \in mPtr /\ \A u \in Threads \ {t} : ~ Closing(todo[u], o)
    OBVIOUS
  <2>1. q = <<un(o)>>
    BY <1>3, NativeConstants DEF UnrefForm, Wrappers
  <2>2. Closing(q, o) /\ Closing(todo[t], o)
    BY <1>2, <2>1 DEF Closing
  <2>3. closes[o] = 1 /\ o \in made /\ o \in mPtr /\ (o # Db => owner[o] = t)
    BY <1>2, <2>1, <2>2 DEF NativeInv, CallsAreSound, CloseIsSound
  <2>4. \A u \in Threads \ {t} : ~ Closing(todo[u], o)
    <3>1. CASE o = Db
      BY <2>2, <3>1 DEF NativeInv, CallsAreSound
    <3>2. CASE o # Db
      BY <2>3, <3>2 DEF NativeInv, CallsAreSound, CloseIsSound
    <3> QED
      BY <3>1, <3>2
  <2> QED
    BY <2>1, <2>3, <2>4
<1>6. \A u \in Threads : \A c \in Wrappers : Has(todo[u], mk(c)) => c \notin mPtr
  BY <1>1 DEF NativeInv, CallsAreSound, MakeIsSound
<1>7. Holds(h, o)
  <2>1. CASE h = o
    <3>1. Closing(todo[t], o)
      BY <1>2, <1>5, <2>1 DEF Closing
    <3> QED
      BY <1>5, <2>1, <3>1 DEF Holds, HoldsItself
  <2>2. CASE h \in Wrappers /\ o = Db /\ Has(q, cl(h)) /\ ~ Gave(q, h)
    <3>1. \A u \in Threads : ~ Gave(todo[u], h)
      BY <1>2, <1>4, <2>2 DEF Gave
    <3> QED
      BY <1>4, <2>2, <3>1 DEF Holds, HoldsDb
  <2>3. CASE h \in Iters /\ o \in Snaps /\ o = source[h] /\ Has(q, cl(h)) /\ ~ GaveSnap(q, h, o)
    <3>1. \A u \in Threads : ~ GaveSnap(todo[u], h, o)
      BY <1>2, <1>4, <2>3 DEF GaveSnap
    <3> QED
      BY <1>4, <2>3, <3>1 DEF Holds, HoldsSnap
  <2> QED
    BY <1>3, <2>1, <2>2, <2>3 DEF ToGive
<1>8. o \in mPtr
  BY <1>5, <1>7 DEF NativeInv, PointersAreSound
<1>9. \A c : HoldsItself(c)' <=> HoldsItself(c) /\ ~ (c = h /\ h = o)
  <2>1. \A c : (Closing(q, c) <=> c = h /\ h = o) /\ ~ Closing(r, c)
    BY <1>3 DEF GivesBack
  <2>2. ASSUME NEW c, ~ (c = h /\ h = o) PROVE HoldsItself(c)' <=> HoldsItself(c)
    <3>1. \A u \in Threads : Closing(todo'[u], c) <=> Closing(todo[u], c)
      BY <1>1, <1>2, <2>1, <2>2
    <3> QED
      BY <3>1 DEF HoldsItself
  <2>3. h = o => ~ HoldsItself(o)'
    <3>1. h = o => \A u \in Threads : ~ Closing(todo'[u], o)
      BY <1>1, <1>5, <2>1
    <3> QED
      BY <1>5, <3>1 DEF HoldsItself
  <2> QED
    BY <2>2, <2>3
<1>10. \A d \in Wrappers : HoldsDb(d)' <=> HoldsDb(d) /\ ~ (d = h /\ o = Db)
  <2> SUFFICES ASSUME NEW d \in Wrappers PROVE HoldsDb(d)' <=> HoldsDb(d) /\ ~ (d = h /\ o = Db)
    OBVIOUS
  <2>1. \A u \in Threads : Took(todo'[u], d) <=> Took(todo[u], d)
    BY <1>1, <1>2, <1>3 DEF GivesBack, Took
  <2>2. Gave(r, d) <=> Gave(q, d) \/ (d = h /\ o = Db)
    BY <1>3 DEF GivesBack
  <2>3. CASE d = h /\ o = Db
    <3>1. d \in mPtr
      <4>1. d # Db
        BY NativeConstants DEF Wrappers
      <4> QED
        BY <1>3, <1>4, <2>3, <4>1, NativeConstants DEF ToGive
    <3>2. \A u \in Threads : ~ Took(todo[u], d)
      BY <1>6, <3>1 DEF Took
    <3> QED
      BY <1>1, <2>1, <2>2, <2>3, <3>2 DEF HoldsDb
  <2>4. CASE ~ (d = h /\ o = Db)
    <3>1. \A u \in Threads : Gave(todo'[u], d) <=> Gave(todo[u], d)
      BY <1>1, <1>2, <2>2, <2>4
    <3> QED
      BY <2>1, <2>4, <3>1 DEF HoldsDb
  <2> QED
    BY <2>3, <2>4
<1>11. \A i \in Iters, s \in Snaps : source[i] = s => (HoldsSnap(i, s)' <=> HoldsSnap(i, s) /\ ~ (i = h /\ o = s))
  <2> SUFFICES ASSUME NEW i \in Iters, NEW s \in Snaps, source[i] = s
               PROVE  HoldsSnap(i, s)' <=> HoldsSnap(i, s) /\ ~ (i = h /\ o = s)
    OBVIOUS
  <2>1. \A u \in Threads : TookSnap(todo'[u], i, s) <=> TookSnap(todo[u], i, s)
    BY <1>1, <1>2, <1>3 DEF GivesBack, TookSnap
  <2>2. GaveSnap(r, i, s) <=> GaveSnap(q, i, s) \/ (i = h /\ o = s)
    BY <1>3 DEF GivesBack
  <2>3. CASE i = h /\ o = s
    <3>1. i \in mPtr /\ i \in Wrappers
      <4>1. i # s /\ s # Db
        BY NativeConstants
      <4> QED
        BY <1>3, <1>4, <2>3, <4>1 DEF ToGive, Wrappers
    <3>2. \A u \in Threads : ~ TookSnap(todo[u], i, s)
      BY <1>6, <3>1 DEF TookSnap
    <3> QED
      BY <1>1, <2>1, <2>2, <2>3, <3>2 DEF HoldsSnap
  <2>4. CASE ~ (i = h /\ o = s)
    <3>1. \A u \in Threads : GaveSnap(todo'[u], i, s) <=> GaveSnap(todo[u], i, s)
      BY <1>1, <1>2, <2>2, <2>4
    <3> QED
      BY <2>1, <2>4, <3>1 DEF HoldsSnap
  <2> QED
    BY <2>3, <2>4
<1>12. \A g, c : Holds(g, c)' <=> Holds(g, c) /\ ~ (g = h /\ c = o)
  <2>1. (\A d \in Wrappers : d # Db) /\ (\A i \in Iters : i \notin Snaps)
    BY NativeConstants DEF Wrappers
  <2> QED
    BY <1>9, <1>10, <1>11, <2>1 DEF Holds
<1> QED
  BY <1>7, <1>8, <1>12

(* unref(), nested or not *)
LEMMA UnrefStep ==
  ASSUME NativeInv, NEW t \in Threads, Unref(t)
  PROVE  NativeInv'
<1>1. /\ todo[t] # <<>> /\ Shape(todo[t]) /\ Now(t).op = "unref" /\ Typed
      /\ UNCHANGED <<mPtr, native, made, closes, source, owner, destroyOnClose, destroyed, wild>>
  BY DEF NativeInv, CallsAreSound, Unref, At, Idle, handles
<1>2. PICK q : q = todo[t]
  OBVIOUS
<1>3. PICK h, o \in Objects : Head(q) = un(o) /\ UnrefForm(q, h, o)
  BY <1>1, <1>2, UnrefIs DEF Now
<1>4. Now(t).obj = o /\ Rest(t) = Tail(q) /\ q \in Seq(Ops) /\ q # <<>>
  BY <1>1, <1>2, <1>3, OpIs DEF Now, Rest, un, Typed
<1>5. /\ GivesBack(q, Tail(q), h, o) /\ ToGive(q, h, o) /\ Shape(Tail(q)) /\ OnlyReleases(Tail(q))
      /\ \A c : Has(Tail(q), cl(c)) <=> Has(q, cl(c))
      /\ \A c : ~ Has(Tail(q), fr(c)) /\ ~ Has(q, fr(c))
      /\ ~ Has(q, cl(Db)) /\ ~ Has(q, cl(o)) /\ q # <<Op("destroyIfClosed", Db)>>
  BY <1>1, <1>3, UnrefRest
<1>6. \A c \in Objects : Has(q, cl(c)) => c \in mPtr /\ c \notin native /\ monitor[c] = t /\ (c \in Iters \cup Batches => owner[c] = t)
  BY <1>2, <1>5 DEF NativeInv, CallsAreSound, CloseIsSound
<1>7. Holds(h, o) /\ o \in mPtr
  <2>1. h = o => q = <<un(o)>>
    BY <1>3, NativeConstants DEF UnrefForm, Wrappers
  <2>2. CASE h = o
    <3>1. Closing(todo[t], o)
      BY <1>2, <2>1, <2>2 DEF Closing
    <3>2. o \in made /\ o \in mPtr
      BY <1>2, <2>1, <2>2, <3>1 DEF NativeInv, CallsAreSound, CloseIsSound
    <3> QED
      BY <2>2, <3>1, <3>2 DEF Holds, HoldsItself
  <2>3. \A u \in Threads \ {t} : \A c \in Objects : Has(q, cl(c)) => ~ Has(todo[u], cl(c))
    BY <1>6 DEF NativeInv, CallsAreSound, CloseIsSound
  <2>4. CASE h \in Wrappers /\ o = Db /\ Has(q, cl(h)) /\ ~ Gave(q, h)
    <3>1. \A u \in Threads : ~ Gave(todo[u], h)
      BY <1>2, <2>3, <2>4 DEF Gave
    <3>2. Holds(h, o) /\ h # o
      BY <1>6, <2>4, <3>1, NativeConstants DEF Holds, HoldsDb, Wrappers
    <3> QED
      BY <3>2 DEF NativeInv, PointersAreSound
  <2>5. CASE h \in Iters /\ o \in Snaps /\ o = source[h] /\ Has(q, cl(h)) /\ ~ GaveSnap(q, h, o)
    <3>1. \A u \in Threads : ~ GaveSnap(todo[u], h, o)
      BY <1>2, <2>3, <2>5 DEF GaveSnap
    <3>2. Holds(h, o) /\ h # o
      BY <1>6, <2>5, <3>1, NativeConstants DEF Holds, HoldsSnap
    <3> QED
      BY <3>2 DEF NativeInv, PointersAreSound
  <2> QED
    BY <1>5, <2>2, <2>4, <2>5 DEF ToGive
<1>8. mRefCount[o] # 0 /\ ~ BeingClosed(o) /\ o \in native /\ o \in made
  BY <1>7, HeldIsAlive DEF NativeInv, PointersAreSound
<1>9. /\ mRefCount \in [Objects -> Nat] /\ mRefCount[o] \in Nat /\ mRefCount[o] > 0
      /\ monitor \in [Objects -> Threads \cup {None}] /\ todo \in [Threads -> Seq(Ops)]
  BY <1>1, <1>8 DEF Typed
<1>10. IsFiniteSet(Holders(o)) /\ mRefCount[o] = Cardinality(Holders(o)) /\ h \in Holders(o)
  BY <1>7, <1>8 DEF NativeInv, CountsAreHolders, Holders
<1>11. mRefCount' = [mRefCount EXCEPT ![o] = @ - 1]
  BY <1>4, <1>9 DEF Unref
<1>12. mRefCount'[o] = mRefCount[o] - 1 /\ \A c \in Objects \ {o} : mRefCount'[c] = mRefCount[c]
  BY <1>9, <1>11
<1>13. \E r \in Seq(Ops) :
          /\ todo' = [todo EXCEPT ![t] = r] /\ GivesBack(q, r, h, o) /\ Shape(r) /\ OnlyReleases(r)
          /\ \A c : Has(r, cl(c)) <=> Has(q, cl(c)) \/ (c = o /\ mRefCount[o] = 1)
          /\ \A c : Has(r, fr(c)) <=> c = o /\ mRefCount[o] = 1
          /\ o = Db /\ mRefCount[o] = 1 => Has(r, Op("destroyIfFlag", Db))
          /\ mRefCount[o] # 1 => UNCHANGED monitor
          /\ mRefCount[o] = 1 => monitor' = [monitor EXCEPT ![o] = t]
  <2>1. CASE mRefCount[o] # 1
    <3>1. todo' = [todo EXCEPT ![t] = Tail(q)] /\ UNCHANGED monitor
      BY <1>4, <1>9, <2>1 DEF Unref
    <3>2. Tail(q) \in Seq(Ops)
      BY <1>4
    <3>3. PICK r : r = Tail(q)
      OBVIOUS
    <3> QED
      BY <1>5, <2>1, <3>1, <3>2, <3>3
  <2>2. CASE mRefCount[o] = 1
    <3>1. ~ \E i : q = <<un(o), cl(h), un(Db), cl(i)>>
      <4> SUFFICES ASSUME NEW i, q = <<un(o), cl(h), un(Db), cl(i)>> PROVE FALSE
        OBVIOUS
      <4>1. /\ \A x, y, z, w, v : <<x, y, w, v>> # <<z>>
            /\ \A x, y, z, w, v, u : <<x, y, w, v>> # <<z, u>>
            /\ \A x, y, z, w, v, u, a : <<x, y, w, v>> # <<z, u, a>>
            /\ \A x, y, z, w, v, u, a, b : <<x, y, w, v>> = <<z, u, a, b>> <=> x = z /\ y = u /\ w = a /\ v = b
        BY TailSteps
      <4>2. h \in Snaps /\ o = Db /\ i \in Iters
        <5>1. \A j : cl(i) = cl(j) => i = j
          BY OpIs DEF cl
        <5> QED
          BY <1>3, <4>1, <5>1 DEF UnrefForm
      <4>3. i # h /\ i \in Wrappers /\ i \in Objects
        BY <4>2, NativeConstants DEF Wrappers, Objects
      <4>4. Has(q, cl(i)) /\ ~ Gave(q, i)
        <5>1. Has(q, un(Db)) /\ Head(q) = un(Db) /\ un(Db) # cl(i) /\ Has(q, cl(i))
          BY <4>2, HasSteps, TailSteps, OpIs DEF un, cl
        <5> QED
          BY <5>1 DEF Gave
      <4>5. \A u \in Threads : ~ Gave(todo[u], i)
        <5>1. \A u \in Threads \ {t} : ~ Has(todo[u], cl(i))
          BY <1>6, <4>3, <4>4 DEF NativeInv, CallsAreSound, CloseIsSound
        <5> QED
          BY <1>2, <4>4, <5>1 DEF Gave
      <4>6. i \in Holders(o)
        BY <1>6, <4>2, <4>3, <4>4, <4>5 DEF Holders, Holds, HoldsDb
      <4>7. PICK x : Holders(o) = {x}
        <5>1. Cardinality(Holders(o)) = 1
          BY <1>10, <2>2
        <5> QED
          BY <1>10, <5>1, FS_Singleton
      <4> QED
        BY <1>10, <4>3, <4>6, <4>7
    <3>2. PICK r : r = CloseNativeObject(o) \o <<cl(o)>> \o Tail(q)
      OBVIOUS
    <3>3. CloseList(q, r, h, o)
      BY <1>1, <1>3, <3>1, <3>2, CloseLists
    <3>4. todo' = [todo EXCEPT ![t] = r] /\ monitor' = [monitor EXCEPT ![o] = t]
      BY <1>4, <1>9, <2>2, <3>2 DEF Unref, cl
    <3>5. r \in Seq(Ops)
      BY <1>1, <3>3, CloseListTyped
    <3>6. /\ GivesBack(q, r, h, o) /\ Shape(r) /\ OnlyReleases(r)
          /\ \A c : Has(r, cl(c)) <=> Has(q, cl(c)) \/ c = o
          /\ \A c : Has(r, fr(c)) <=> c = o
          /\ o = Db => Has(r, Op("destroyIfFlag", Db))
      BY <1>1, <1>3, <3>3, UnrefCloses
    <3> QED
      BY <2>2, <3>4, <3>5, <3>6
  <2> QED
    BY <2>1, <2>2
<1>14. PICK r \in Seq(Ops) :
          /\ todo' = [todo EXCEPT ![t] = r] /\ GivesBack(q, r, h, o) /\ Shape(r) /\ OnlyReleases(r)
          /\ \A c : Has(r, cl(c)) <=> Has(q, cl(c)) \/ (c = o /\ mRefCount[o] = 1)
          /\ \A c : Has(r, fr(c)) <=> c = o /\ mRefCount[o] = 1
          /\ o = Db /\ mRefCount[o] = 1 => Has(r, Op("destroyIfFlag", Db))
          /\ mRefCount[o] # 1 => UNCHANGED monitor
          /\ mRefCount[o] = 1 => monitor' = [monitor EXCEPT ![o] = t]
  BY <1>13
<1>15. todo'[t] = r /\ \A u \in Threads \ {t} : todo'[u] = todo[u]
  BY <1>9, <1>14
<1>16. /\ mRefCount[o] = 1 => monitor'[o] = t
       /\ mRefCount[o] # 1 => monitor'[o] = monitor[o]
       /\ \A c \in Objects \ {o} : monitor'[c] = monitor[c]
  BY <1>9, <1>14
<1>17. \A g, c : Holds(g, c)' <=> Holds(g, c) /\ ~ (g = h /\ c = o)
  <2>1. UnrefForm(todo[t], h, o) /\ ToGive(todo[t], h, o) /\ GivesBack(todo[t], r, h, o)
    BY <1>2, <1>3, <1>5, <1>14
  <2>2. todo' = [todo EXCEPT ![t] = r] /\ UNCHANGED <<mPtr, made, closes, source>>
    BY <1>1, <1>14
  <2> QED
    BY <2>1, <2>2, GiveBack
<1>18. \A c : BeingClosed(c)' <=> BeingClosed(c) \/ (c = o /\ mRefCount[o] = 1)
  BY <1>2, <1>14, <1>15 DEF BeingClosed
<1>19. Typed'
  <2>1. mRefCount' \in [Objects -> Nat]
    BY <1>9, <1>11
  <2>2. todo' \in [Threads -> Seq(Ops)]
    BY <1>9, <1>14
  <2>3. monitor' \in [Objects -> Threads \cup {None}]
    BY <1>9, <1>14
  <2> QED
    BY <1>1, <2>1, <2>2, <2>3 DEF Typed
<1>20. CallsAreSound'
  <2>1. \A u \in Threads : Shape(todo[u])'
    <3>1. \A v : Shape(v) => Shape(v)'
      BY <1>1, SameShapes
    <3> QED
      BY <1>14, <1>15, <3>1 DEF NativeInv, CallsAreSound
  <2>2. \A u, v : MakeIsSound(u, v) => MakeIsSound(u, v)'
    BY <1>1 DEF MakeIsSound
  <2>3. \A u, v : UseIsSound(u, v) => UseIsSound(u, v)'
    BY <1>1 DEF UseIsSound
  <2>4. MakeIsSound(t, r)
    BY <1>14 DEF MakeIsSound, GivesBack
  <2>5. UseIsSound(t, r)
    BY <1>14 DEF UseIsSound, OnlyReleases
  <2>6. CloseIsSound(t, r)'
    <3> SUFFICES ASSUME NEW c \in Objects
                 PROVE  /\ ~ Closing(r, c) /\ r # <<un(c)>>
                        /\ Has(r, cl(c)) => /\ c \in mPtr /\ (c \in Iters \cup Batches => owner[c] = t)
                                            /\ Has(r, fr(c)) <=> c \in native
                        /\ Has(r, cl(c)) <=> monitor'[c] = t
      BY <1>1 DEF CloseIsSound
    <3>1. ~ Closing(r, c) /\ r # <<un(c)>>
      BY <1>14 DEF GivesBack, Closing
    <3>2. CASE c # o
      <4>1. (Has(r, cl(c)) <=> Has(q, cl(c))) /\ ~ Has(r, fr(c)) /\ monitor'[c] = monitor[c]
        BY <1>14, <1>16, <3>2
      <4>2. Has(q, cl(c)) <=> monitor[c] = t
        BY <1>2 DEF NativeInv, CallsAreSound, CloseIsSound
      <4> QED
        BY <1>6, <3>1, <4>1, <4>2
    <3>3. CASE c = o
      <4>1. (Has(r, cl(o)) <=> mRefCount[o] = 1) /\ (Has(r, fr(o)) <=> mRefCount[o] = 1)
        BY <1>5, <1>14
      <4>2. monitor[o] # t
        BY <1>2, <1>5 DEF NativeInv, CallsAreSound, CloseIsSound
      <4>3. ASSUME o \in Iters \cup Batches PROVE owner[o] = t
        <5>1. h = o /\ q = <<un(o)>> /\ o # Db
          BY <1>3, <4>3, NativeConstants DEF UnrefForm, Wrappers
        <5>2. Closing(todo[t], o)
          BY <1>2, <5>1 DEF Closing
        <5> QED
          BY <5>1, <5>2 DEF NativeInv, CallsAreSound, CloseIsSound
      <4> QED
        BY <1>7, <1>8, <1>16, <3>1, <3>3, <4>1, <4>2, <4>3
    <3> QED
      BY <3>2, <3>3
  <2>7. \A u \in Threads \ {t} : \A v : ~ Has(v, cl(o)) /\ CloseIsSound(u, v) => CloseIsSound(u, v)'
    BY <1>1, <1>16 DEF CloseIsSound
  <2>8. \A u \in Threads : ~ Has(todo[u], cl(o))
    BY <1>8 DEF BeingClosed
  <2>9. \A u \in Threads : MakeIsSound(u, todo[u])' /\ UseIsSound(u, todo[u])'
    BY <1>15, <2>2, <2>3, <2>4, <2>5 DEF NativeInv, CallsAreSound
  <2>10. \A u \in Threads : CloseIsSound(u, todo[u])'
    BY <1>15, <2>6, <2>7, <2>8 DEF NativeInv, CallsAreSound
  <2>11. \A u, v \in Threads : Closing(todo'[u], Db) /\ Closing(todo'[v], Db) => u = v
    BY <1>14, <1>15 DEF NativeInv, CallsAreSound, GivesBack
  <2> QED
    BY <2>1, <2>9, <2>10, <2>11 DEF CallsAreSound
<1>21. PointersAreSound'
  BY <1>1, <1>17, <1>18 DEF NativeInv, PointersAreSound
<1>22. CountsAreHolders'
  <2>1. \A c : c # o => Holders(c)' = Holders(c)
    BY <1>17 DEF Holders
  <2>2. Holders(o)' = Holders(o) \ {h}
    BY <1>17 DEF Holders
  <2>3. IsFiniteSet(Holders(o) \ {h}) /\ Cardinality(Holders(o) \ {h}) = Cardinality(Holders(o)) - 1
    BY <1>10, FS_RemoveElement
  <2>4. \A c \in made : c \in Objects
    BY <1>1 DEF Typed
  <2>5. \A c \in made : c \in mPtr \/ closes[c] = 0 => IsFiniteSet(Holders(c))' /\ mRefCount'[c] = Cardinality(Holders(c))'
    BY <1>10, <1>12, <2>1, <2>2, <2>3, <2>4 DEF NativeInv, CountsAreHolders
  <2>6. \A c \in mPtr : mRefCount'[c] = 0 <=> BeingClosed(c)'
    <3>1. mRefCount'[o] = 0 <=> BeingClosed(o)'
      BY <1>8, <1>9, <1>12, <1>18
    <3>2. \A c \in mPtr : c \in Objects
      BY <1>1 DEF Typed
    <3> QED
      BY <1>12, <1>18, <3>1, <3>2 DEF NativeInv, CountsAreHolders
  <2> QED
    BY <1>1, <2>5, <2>6 DEF CountsAreHolders
<1>23. DestroyIsKept'
  <2>1. Has(r, cl(Db)) => Has(r, Op("destroyIfFlag", Db))
    BY <1>5, <1>14
  <2>2. todo[t] # <<Op("destroyIfClosed", Db)>>
    BY <1>2, <1>5
  <2> QED
    BY <1>1, <1>15, <2>1, <2>2 DEF NativeInv, DestroyIsKept
<1> QED
  BY <1>1, <1>19, <1>20, <1>21, <1>22, <1>23 DEF NativeInv

(* mPtr = 0: the reference that o had is given back already. *)
Clears(q, r, o) ==
    /\ OnlyReleases(r) /\ OnlyReleases(q) /\ Has(q, cl(o))
    /\ \A c : Has(r, cl(c)) <=> Has(q, cl(c)) /\ c # o
    /\ \A c : ~ Has(r, fr(c)) /\ ~ Has(q, fr(c)) /\ ~ Closing(q, c) /\ ~ Closing(r, c)
    /\ Gave(q, o) /\ \A s \in Snaps : o \in Iters => GaveSnap(q, o, s)
    /\ \A d \in Wrappers : d # o => (Gave(r, d) <=> Gave(q, d))
    /\ \A i \in Iters, s \in Snaps : i # o => (GaveSnap(r, i, s) <=> GaveSnap(q, i, s))
    /\ ~ Has(q, Op("destroyIfFlag", Db)) /\ q # <<Op("destroyIfClosed", Db)>>
    /\ Has(q, cl(Db)) => o = Db

(* What is left when a pointer was cleared. *)
LEMMA ClearRest ==
  ASSUME Typed, NEW q, Shape(q), q # <<>>, Head(q).op = "clear"
  PROVE  \E o \in Objects : Head(q) = cl(o) /\ Shape(Tail(q)) /\ Clears(q, Tail(q), o)
<1>1. /\ \A x, y : <<x>> = <<y>> <=> x = y
      /\ \A x : <<x>> # <<>>
      /\ \A x, y, z : <<x, y>> # <<z>>
      /\ \A x, y, z, w : <<x, y, w>> # <<z>>
  BY TailSteps
<1>2. (\A i \in Iters : i # Db /\ i \notin Snaps) /\ (\A s \in Snaps : s # Db) /\ (\A d \in Wrappers : d # Db)
  BY NativeConstants DEF Wrappers
<1>3. CASE \E o \in Objects : q = <<cl(o)>>
  <2>1. PICK o \in Objects : q = <<cl(o)>>
    BY <1>3
  <2>2. Head(q) = cl(o) /\ Tail(q) = <<>> /\ Shape(<<>>)
    BY <2>1, TailSteps DEF Shape, CallShape
  <2>3. (\A x : Has(q, x) <=> x = cl(o)) /\ (\A x : ~ Has(<<>>, x))
    BY <2>1, HasSteps
  <2>4. \A c : ~ Closing(q, c) /\ ~ Closing(<<>>, c)
    BY <1>1, <2>1, OpIs DEF Closing, un, cl
  <2>5. q # <<Op("destroyIfClosed", Db)>>
    BY <1>1, <2>1, OpIs DEF cl
  <2>6. Clears(q, <<>>, o)
    BY <1>2, <2>2, <2>3, <2>4, <2>5, OpIs DEF Clears, OnlyReleases, Gave, GaveSnap, un, cl, fr
  <2> QED
    BY <2>2, <2>6
<1>4. CASE \E d \in Wrappers : q = <<cl(Db), cl(d)>>
  <2>1. PICK d \in Wrappers : q = <<cl(Db), cl(d)>>
    BY <1>4
  <2>2. Head(q) = cl(Db) /\ Tail(q) = <<cl(d)>> /\ Head(<<cl(d)>>) = cl(d) /\ Db \in Objects
    BY <2>1, TailSteps DEF Objects
  <2>3. Shape(<<cl(d)>>)
    BY DEF Shape, CloseShape
  <2>4. (\A x : Has(q, x) <=> x \in {cl(Db), cl(d)}) /\ (\A x : Has(<<cl(d)>>, x) <=> x = cl(d))
    BY <2>1, HasSteps
  <2>5. \A c : ~ Closing(q, c) /\ ~ Closing(<<cl(d)>>, c)
    BY <1>1, <2>1, OpIs DEF Closing, un, cl
  <2>6. q # <<Op("destroyIfClosed", Db)>>
    BY <1>1, <2>1
  <2>7. Clears(q, <<cl(d)>>, Db)
    BY <1>2, <2>2, <2>4, <2>5, <2>6, OpIs DEF Clears, OnlyReleases, Gave, GaveSnap, un, cl, fr
  <2> QED
    BY <2>2, <2>3, <2>7
<1>5. CASE \E i \in Iters : source[i] # None /\ q = <<cl(source[i]), un(Db), cl(i)>>
  <2>1. PICK i \in Iters : source[i] # None /\ q = <<cl(source[i]), un(Db), cl(i)>>
    BY <1>5
  <2>2. PICK s : s = source[i]
    OBVIOUS
  <2>3. PICK r : r = <<un(Db), cl(i)>>
    OBVIOUS
  <2>4. s \in Snaps /\ s \in Objects /\ q = <<cl(s), un(Db), cl(i)>> /\ i \in Wrappers
    BY <2>1, <2>2 DEF Typed, Objects, Wrappers
  <2>5. Head(q) = cl(s) /\ Tail(q) = r /\ Head(r) = un(Db)
    BY <2>3, <2>4, TailSteps
  <2>6. Shape(r)
    BY <2>3, <2>4 DEF Shape, CloseShape
  <2>7. (\A x : Has(q, x) <=> x \in {cl(s), un(Db), cl(i)}) /\ (\A x : Has(r, x) <=> x \in {un(Db), cl(i)})
    BY <2>3, <2>4, HasSteps
  <2>8. \A c : ~ Closing(q, c) /\ ~ Closing(r, c)
    BY <1>1, <2>3, <2>4 DEF Closing
  <2>9. q # <<Op("destroyIfClosed", Db)>>
    BY <1>1, <2>4
  <2>10. Clears(q, r, s)
    BY <1>2, <2>4, <2>5, <2>7, <2>8, <2>9, OpIs DEF Clears, OnlyReleases, Gave, GaveSnap, un, cl, fr
  <2> QED
    BY <2>4, <2>5, <2>6, <2>10
<1> QED
  BY <1>3, <1>4, <1>5, ClearForms

(* Clearing a pointer keeps the invariant. *)
LEMMA ClearStep ==
  ASSUME NativeInv, NEW t \in Threads, ClearPtr(t)
  PROVE  NativeInv'
<1>1. /\ todo[t] # <<>> /\ Shape(todo[t]) /\ Now(t).op = "clear" /\ Typed
      /\ mPtr' = mPtr \ {Now(t).obj} /\ monitor' = [monitor EXCEPT ![Now(t).obj] = None]
      /\ todo' = [todo EXCEPT ![t] = Rest(t)]
      /\ UNCHANGED <<mRefCount, native, made, closes, source, owner, destroyOnClose, destroyed, wild>>
  BY DEF NativeInv, CallsAreSound, ClearPtr, At, Idle, handles
<1>2. PICK q, r : q = todo[t] /\ r = Tail(q)
  OBVIOUS
<1>3. PICK o \in Objects : Head(q) = cl(o) /\ Shape(r) /\ Clears(q, r, o)
  BY <1>1, <1>2, ClearRest DEF Now
<1>4. /\ Now(t).obj = o /\ Rest(t) = r /\ q \in Seq(Ops) /\ q # <<>> /\ r \in Seq(Ops)
      /\ todo \in [Threads -> Seq(Ops)] /\ monitor \in [Objects -> Threads \cup {None}]
  BY <1>1, <1>2, <1>3, OpIs DEF Now, Rest, cl, Typed, Clears
<1>5. todo'[t] = r /\ \A u \in Threads \ {t} : todo'[u] = todo[u]
  BY <1>1, <1>4
<1>6. mPtr' = mPtr \ {o} /\ monitor'[o] = None /\ \A c \in Objects \ {o} : monitor'[c] = monitor[c]
  BY <1>1, <1>4
<1>7. \A c \in Objects : Has(q, cl(c)) => c \in mPtr /\ c \notin native /\ monitor[c] = t /\ (c \in Iters \cup Batches => owner[c] = t)
  BY <1>2, <1>3 DEF NativeInv, CallsAreSound, CloseIsSound, Clears
<1>8. o \in mPtr /\ o \notin native /\ o \in made /\ monitor[o] = t /\ BeingClosed(o)
  BY <1>2, <1>3, <1>7 DEF NativeInv, PointersAreSound, BeingClosed, Clears
<1>9. \A g \in Objects : ~ Holds(g, o)
  BY <1>8, HeldIsAlive
<1>10. closes[o] # 0 /\ \A u \in Threads : ~ Closing(todo[u], o)
  BY <1>8, <1>9 DEF Holds, HoldsItself
<1>11. \A u \in Threads \ {t} : ~ Has(todo[u], cl(o))
  BY <1>8 DEF NativeInv, CallsAreSound, CloseIsSound
<1>12. \A c : BeingClosed(c)' <=> BeingClosed(c) /\ c # o
  BY <1>2, <1>3, <1>5, <1>11 DEF BeingClosed, Clears
<1>13. \A g, c : Holds(g, c)' <=> Holds(g, c)
  <2>1. \A c : HoldsItself(c)' <=> HoldsItself(c)
    BY <1>1, <1>2, <1>3, <1>5 DEF HoldsItself, Clears
  <2>2. \A c : ~ Has(q, mk(c)) /\ ~ Has(r, mk(c))
    BY <1>3 DEF OnlyReleases, mk, Clears
  <2>3. \A u \in Threads : \A c, s : (Took(todo'[u], c) <=> Took(todo[u], c)) /\ (TookSnap(todo'[u], c, s) <=> TookSnap(todo[u], c, s))
    BY <1>2, <1>5, <2>2 DEF Took, TookSnap
  <2>4. \A u \in Threads : \A c, s : o \in Wrappers => ~ Took(todo[u], o) /\ ~ TookSnap(todo[u], o, s)
    <3>1. \A u \in Threads : o \in Wrappers => ~ Has(todo[u], mk(o))
      BY <1>8 DEF NativeInv, CallsAreSound, MakeIsSound
    <3> QED
      BY <3>1 DEF Took, TookSnap
  <2>5. \A d \in Wrappers : HoldsDb(d)' <=> HoldsDb(d)
    <3> SUFFICES ASSUME NEW d \in Wrappers PROVE HoldsDb(d)' <=> HoldsDb(d)
      OBVIOUS
    <3>1. CASE d = o
      BY <1>2, <1>3, <1>6, <2>3, <2>4, <3>1 DEF HoldsDb, Clears
    <3>2. CASE d # o
      <4>1. \A u \in Threads : Gave(todo'[u], d) <=> Gave(todo[u], d)
        BY <1>2, <1>3, <1>5, <3>2 DEF Clears
      <4> QED
        BY <1>6, <2>3, <3>2, <4>1 DEF HoldsDb
    <3> QED
      BY <3>1, <3>2
  <2>6. \A i \in Iters, s \in Snaps : HoldsSnap(i, s)' <=> HoldsSnap(i, s)
    <3> SUFFICES ASSUME NEW i \in Iters, NEW s \in Snaps PROVE HoldsSnap(i, s)' <=> HoldsSnap(i, s)
      OBVIOUS
    <3>1. CASE i = o
      BY <1>2, <1>3, <1>6, <2>3, <2>4, <3>1 DEF HoldsSnap, Wrappers, Clears
    <3>2. CASE i # o
      <4>1. \A u \in Threads : GaveSnap(todo'[u], i, s) <=> GaveSnap(todo[u], i, s)
        BY <1>2, <1>3, <1>5, <3>2 DEF Clears
      <4> QED
        BY <1>6, <2>3, <3>2, <4>1 DEF HoldsSnap
    <3> QED
      BY <3>1, <3>2
  <2> QED
    BY <1>1, <2>1, <2>5, <2>6 DEF Holds
<1>14. Typed'
  <2>1. todo' \in [Threads -> Seq(Ops)]
    BY <1>1, <1>4
  <2>2. monitor' \in [Objects -> Threads \cup {None}]
    BY <1>1, <1>4
  <2> QED
    BY <1>1, <2>1, <2>2 DEF Typed
<1>15. CallsAreSound'
  <2>1. \A u \in Threads : Shape(todo[u])'
    <3>1. \A v : Shape(v) => Shape(v)'
      BY <1>1, SameShapes
    <3> QED
      BY <1>3, <1>5, <3>1 DEF NativeInv, CallsAreSound, Clears
  <2>2. \A u, v : MakeIsSound(u, v) => MakeIsSound(u, v)'
    BY <1>1, <1>6, <1>10 DEF MakeIsSound
  <2>3. \A u, v : UseIsSound(u, v) => UseIsSound(u, v)'
    BY <1>1, <1>6, <1>10 DEF UseIsSound
  <2>4. MakeIsSound(t, r)
    BY <1>3 DEF MakeIsSound, OnlyReleases, mk, Clears
  <2>5. UseIsSound(t, r)
    BY <1>3 DEF UseIsSound, OnlyReleases, Clears
  <2>6. CloseIsSound(t, r)'
    <3> SUFFICES ASSUME NEW c \in Objects
                 PROVE  /\ ~ Closing(r, c) /\ r # <<un(c)>>
                        /\ Has(r, cl(c)) => /\ c \in mPtr' /\ (c \in Iters \cup Batches => owner[c] = t)
                                            /\ Has(r, fr(c)) <=> c \in native
                        /\ Has(r, cl(c)) <=> monitor'[c] = t
      BY <1>1 DEF CloseIsSound
    <3>1. ~ Closing(r, c) /\ r # <<un(c)>>
      BY <1>3 DEF Closing, Clears
    <3>2. Has(q, cl(c)) <=> monitor[c] = t
      BY <1>2 DEF NativeInv, CallsAreSound, CloseIsSound
    <3>3. None # t
      BY NativeConstants
    <3> QED
      BY <1>3, <1>6, <1>7, <3>1, <3>2, <3>3 DEF Clears
  <2>7. \A u \in Threads \ {t} : \A v : ~ Has(v, cl(o)) /\ ~ Closing(v, o) /\ CloseIsSound(u, v) => CloseIsSound(u, v)'
    <3>1. \A v : v = <<un(o)>> => Closing(v, o)
      BY DEF Closing
    <3>2. None \notin Threads
      BY NativeConstants
    <3> QED
      BY <1>1, <1>6, <3>1, <3>2 DEF CloseIsSound
  <2>8. \A u \in Threads : MakeIsSound(u, todo[u])' /\ UseIsSound(u, todo[u])'
    BY <1>5, <2>2, <2>3, <2>4, <2>5 DEF NativeInv, CallsAreSound
  <2>9. \A u \in Threads : CloseIsSound(u, todo[u])'
    BY <1>5, <1>10, <1>11, <2>6, <2>7 DEF NativeInv, CallsAreSound
  <2>10. \A u, v \in Threads : Closing(todo'[u], Db) /\ Closing(todo'[v], Db) => u = v
    BY <1>3, <1>5 DEF NativeInv, CallsAreSound, Clears
  <2> QED
    BY <2>1, <2>8, <2>9, <2>10 DEF CallsAreSound
<1>16. PointersAreSound'
  <2>1. native \subseteq mPtr' /\ mPtr' \subseteq made
    BY <1>6, <1>8 DEF NativeInv, PointersAreSound
  <2>2. \A c \in mPtr' \ native : BeingClosed(c)'
    BY <1>6, <1>12 DEF NativeInv, PointersAreSound
  <2>3. \A c \in made \ {Db} : owner[c] # None /\ (closes[c] = 0 => c \in mPtr')
    BY <1>6, <1>10 DEF NativeInv, PointersAreSound
  <2>4. \A g, c \in Objects : Holds(g, c)' /\ g # c => c \in mPtr'
    BY <1>6, <1>9, <1>13 DEF NativeInv, PointersAreSound
  <2> QED
    BY <1>1, <2>1, <2>2, <2>3, <2>4 DEF NativeInv, PointersAreSound
<1>17. CountsAreHolders'
  <2>1. \A c : Holders(c)' = Holders(c)
    BY <1>13 DEF Holders
  <2> QED
    BY <1>1, <1>6, <1>12, <2>1 DEF NativeInv, CountsAreHolders
<1>18. DestroyIsKept'
  <2>1. todo[t] # <<Op("destroyIfClosed", Db)>>
    BY <1>2, <1>3 DEF Clears
  <2>2. CASE o = Db
    BY <1>1, <1>2, <1>3, <1>5, <2>1, <2>2 DEF NativeInv, DestroyIsKept, Clears
  <2>3. CASE o # Db
    <3>1. \A u \in Threads : Has(todo'[u], cl(Db)) => Has(todo[u], cl(Db)) /\ todo'[u] = todo[u]
      <4>1. Has(q, cl(Db)) => Db = o
        BY <1>3 DEF Clears
      <4> QED
        BY <1>2, <1>3, <1>5, <4>1 DEF Clears
    <3> QED
      BY <1>1, <1>5, <1>6, <2>1, <2>3, <3>1 DEF NativeInv, DestroyIsKept
  <2> QED
    BY <2>2, <2>3
<1> QED
  BY <1>1, <1>14, <1>15, <1>16, <1>17, <1>18 DEF NativeInv

-----------------------------------------------------------------------------
(***************************************************************************)
(* The theorems.                                                           *)
(***************************************************************************)
LEMMA NativeInvInit ==
  ASSUME Init
  PROVE  NativeInv
<1>1. /\ mPtr = {} /\ mRefCount = [o \in Objects |-> IF o = Db THEN 1 ELSE 0] /\ native = {} /\ made = {Db}
      /\ closes = [o \in Objects |-> 0] /\ source = [i \in Iters |-> None] /\ owner = [o \in Objects |-> None]
      /\ todo = [t \in Threads |-> <<>>] /\ monitor = [o \in Objects |-> None]
      /\ destroyOnClose = FALSE /\ destroyed = FALSE /\ wild = FALSE
  BY DEF Init
<1>2. Db \in Objects /\ Db \notin Wrappers /\ None \notin Threads
  BY NativeConstants DEF Objects, Wrappers
<1>3. \A t \in Threads : todo[t] = <<>>
  BY <1>1
<1>4. (\A x : ~ Has(<<>>, x)) /\ (\A c : ~ Closing(<<>>, c)) /\ (\A c : <<>> # <<un(c)>>)
  BY HasSteps, TailSteps DEF Closing
<1>5. Typed
  <2>1. <<>> \in Seq(Ops)
    OBVIOUS
  <2>2. todo \in [Threads -> Seq(Ops)]
    BY <1>1, <2>1
  <2>3. mRefCount \in [Objects -> Nat] /\ closes \in [Objects -> {0, 1}]
    BY <1>1
  <2>4. source \in [Iters -> Snaps \cup {None}] /\ owner \in [Objects -> Threads \cup {None}]
    BY <1>1
  <2>5. monitor \in [Objects -> Threads \cup {None}]
    BY <1>1
  <2>6. mPtr \in SUBSET Objects /\ native \in SUBSET Objects /\ made \in SUBSET Objects
    BY <1>1, <1>2
  <2>7. destroyOnClose \in BOOLEAN /\ destroyed \in BOOLEAN /\ wild \in BOOLEAN
    BY <1>1
  <2> QED
    BY <2>2, <2>3, <2>4, <2>5, <2>6, <2>7 DEF Typed
<1>6. CallsAreSound
  <2>1. \A t \in Threads : Shape(todo[t])
    BY <1>3 DEF Shape, CallShape
  <2>2. \A t \in Threads : MakeIsSound(t, <<>>) /\ UseIsSound(t, <<>>)
    BY <1>4 DEF MakeIsSound, UseIsSound
  <2>3. \A t \in Threads : CloseIsSound(t, <<>>)
    BY <1>1, <1>2, <1>4 DEF CloseIsSound
  <2> QED
    BY <1>3, <1>4, <2>1, <2>2, <2>3 DEF CallsAreSound
<1>7. \A h, o : Holds(h, o) <=> h = Db /\ o = Db
  <2>1. \A d : ~ HoldsDb(d)
    BY <1>1, <1>3, <1>4 DEF HoldsDb, Took
  <2>2. \A i, s : ~ HoldsSnap(i, s)
    BY <1>1, <1>3, <1>4 DEF HoldsSnap, TookSnap
  <2>3. \A o : HoldsItself(o) <=> o = Db
    BY <1>1, <1>2 DEF HoldsItself
  <2> QED
    BY <2>1, <2>2, <2>3 DEF Holds
<1>8. PointersAreSound
  BY <1>1, <1>2, <1>7 DEF PointersAreSound
<1>9. CountsAreHolders
  <2>1. Holders(Db) = {Db}
    BY <1>2, <1>7 DEF Holders
  <2>2. IsFiniteSet({Db}) /\ Cardinality({Db}) = 1
    BY FS_Singleton
  <2>3. mRefCount[Db] = 1
    BY <1>1, <1>2
  <2> QED
    BY <1>1, <2>1, <2>2, <2>3 DEF CountsAreHolders
<1>10. DestroyIsKept
  BY <1>1 DEF DestroyIsKept
<1> QED
  BY <1>1, <1>5, <1>6, <1>8, <1>9, <1>10 DEF NativeInv

(* Every step keeps the invariant. *)
LEMMA NativeInvStep ==
  ASSUME ClosesPerWrapper <= 1, NativeInv, [Next]_vars
  PROVE  NativeInv'
<1>1. CASE UNCHANGED vars
  <2>1. UNCHANGED <<mPtr, mRefCount, native, made, closes, source, owner, todo, monitor, destroyOnClose, destroyed, wild>>
    BY <1>1 DEF vars
  <2>2. Typed' /\ DestroyIsKept' /\ ~ wild'
    BY <2>1 DEF NativeInv, Typed, DestroyIsKept
  <2>3. CallsAreSound'
    <3>1. \A v : Shape(v) => Shape(v)'
      BY <2>1, SameShapes
    <3>2. \A u, v : MakeIsSound(u, v) => MakeIsSound(u, v)'
      BY <2>1 DEF MakeIsSound
    <3>3. \A u, v : UseIsSound(u, v) => UseIsSound(u, v)'
      BY <2>1 DEF UseIsSound
    <3>4. \A u, v : CloseIsSound(u, v) => CloseIsSound(u, v)'
      BY <2>1 DEF CloseIsSound
    <3> QED
      BY <2>1, <3>1, <3>2, <3>3, <3>4 DEF NativeInv, CallsAreSound
  <2>4. \A h, o : Holds(h, o)' <=> Holds(h, o)
    BY <2>1 DEF Holds, HoldsItself, HoldsDb, HoldsSnap
  <2>5. \A o : Holders(o)' = Holders(o) /\ (BeingClosed(o)' <=> BeingClosed(o))
    BY <2>1, <2>4 DEF Holders, BeingClosed
  <2> QED
    BY <2>1, <2>2, <2>3, <2>4, <2>5 DEF NativeInv, PointersAreSound, CountsAreHolders
<1>2. CASE Next
  <2>1. PICK t \in Threads : Start(t) \/ Step(t)
    BY <1>2 DEF Next
  <2>2. CASE Step(t)
    BY <2>2, AssertOpenStep, RefStep, CreateStep, CallStep, CloseBodyStep, UnrefStep, FreeStep,
       DestroyFilesStep, ClearStep DEF Step
  <2>3. CASE Start(t)
    BY <2>3, OpenStep, UseStep, DestroyStep, NewIteratorStep, NewSnapshotStep, NewBatchStep, CloseStep DEF Start
  <2> QED
    BY <2>1, <2>2, <2>3
<1> QED
  BY <1>1, <1>2

(* The invariant gives what the reference counts are for. *)
LEMMA InvIsSound ==
  ASSUME ClosesPerWrapper = 1, NativeInv
  PROVE  ReferencesSound
<1>1. TypeOK
  <2>1. 0 .. ClosesPerWrapper = {0, 1}
    OBVIOUS
  <2> QED
    BY <2>1 DEF NativeInv, Typed, TypeOK
<1>2. DependentsKeepOwnersAlive
  <2>1. Dependents \subseteq Wrappers /\ Dependents \subseteq native
    BY DEF Dependents, Wrappers, NativeInv, Typed, Objects
  <2>2. \A i \in Iters : i \in Wrappers
    BY DEF Wrappers
  <2> QED
    BY <2>1, <2>2, AliveHolds DEF DependentsKeepOwnersAlive
<1>3. NothingLeaks
  <2> SUFFICES ASSUME \A t \in Threads : todo[t] = <<>>, \A o \in made : closes[o] > 0
               PROVE  native = {} /\ mPtr = {}
    BY DEF NothingLeaks, Idle
  <2>1. \A t \in Threads : \A c, s : ~ Took(todo[t], c) /\ ~ TookSnap(todo[t], c, s) /\ ~ Closing(todo[t], c) /\ ~ Has(todo[t], cl(c))
    BY HasSteps, TailSteps DEF Took, TookSnap, Closing
  <2>2. \A o \in mPtr : \E h \in Objects : Holds(h, o) /\ h # o
    <3> SUFFICES ASSUME NEW o \in mPtr PROVE \E h \in Objects : Holds(h, o) /\ h # o
      OBVIOUS
    <3>1. ~ BeingClosed(o) /\ o \in made
      BY <2>1 DEF BeingClosed, NativeInv, PointersAreSound
    <3>2. IsFiniteSet(Holders(o)) /\ Cardinality(Holders(o)) # 0
      BY <3>1 DEF NativeInv, CountsAreHolders
    <3>3. PICK h \in Objects : Holds(h, o)
      BY <3>2, FS_EmptySet DEF Holders
    <3>4. ~ HoldsItself(o)
      BY <2>1, <3>1 DEF HoldsItself
    <3>5. h # o
      <4>1. Db \notin Wrappers /\ Iters \cap Snaps = {}
        BY NativeConstants DEF Wrappers
      <4> QED
        BY <3>3, <3>4, <4>1 DEF Holds
    <3> QED
      BY <3>3, <3>5
  <2>3. \A h, o : Holds(h, o) /\ h # o => h \in mPtr /\ ((h \in Wrappers /\ o = Db) \/ (h \in Iters /\ o \in Snaps))
    BY <2>1 DEF Holds, HoldsDb, HoldsSnap
  <2>4. \A o \in mPtr : o \notin Iters
    BY <2>2, <2>3, NativeConstants
  <2>5. \A o \in mPtr : o \notin Snaps
    BY <2>2, <2>3, <2>4, NativeConstants
  <2>6. mPtr = {}
    BY <2>2, <2>3, <2>4, <2>5 DEF Wrappers
  <2> QED
    BY <2>6 DEF NativeInv, PointersAreSound
<1> QED
  BY <1>1, <1>2, <1>3 DEF ReferencesSound

(* No native function is ever given a pointer that is 0 or freed, whatever  *)
(* order any number of threads use and close the wrappers in, when each     *)
(* wrapper is closed at most once and not during another thread's call on   *)
(* it, which is the guard of Close (com.litl.leveldb and its JNI functions). *)
THEOREM NativeCallsAreSafe ==
  ASSUME ClosesPerWrapper <= 1
  PROVE  Spec => []NativeSafe
<1>1. Init => NativeInv
  BY NativeInvInit
<1>2. NativeInv /\ [Next]_vars => NativeInv'
  BY NativeInvStep
<1>3. NativeInv => NativeSafe
  BY DEF NativeInv, NativeSafe
<1> QED
  BY <1>1, <1>2, <1>3, PTL DEF Spec

(* The reference count of a live wrapper is the number of its holders, so    *)
(* that owners outlive what depends on them and nothing is left when all     *)
(* wrappers are closed, for every number of threads, iterators, snapshots    *)
(* and batches (NativeObject.ref, unref and closeNativeObject).              *)
THEOREM ReferenceCountsWork ==
  ASSUME ClosesPerWrapper = 1
  PROVE  Spec => []ReferencesSound
<1>1. Init => NativeInv
  BY NativeInvInit
<1>2. NativeInv /\ [Next]_vars => NativeInv'
  <2>1. ClosesPerWrapper <= 1
    OBVIOUS
  <2> QED
    BY <2>1, NativeInvStep
<1>3. NativeInv => ReferencesSound
  BY InvIsSound
<1> QED
  BY <1>1, <1>2, <1>3, PTL DEF Spec

(* A destroy() is never forgotten: whoever closes the database, its files  *)
(* are gone once it is closed and no call is under way (DB.destroy).       *)
THEOREM DestroyIsNeverLost ==
  ASSUME ClosesPerWrapper <= 1
  PROVE  Spec => []DestroyTakesEffect
<1>1. Init => NativeInv
  BY NativeInvInit
<1>2. NativeInv /\ [Next]_vars => NativeInv'
  BY NativeInvStep
<1>3. NativeInv => DestroyTakesEffect
  <2>1. <<>> # <<Op("destroyIfClosed", Db)>>
    BY TailSteps
  <2> QED
    BY <2>1 DEF NativeInv, DestroyIsKept, DestroyTakesEffect, Idle
<1> QED
  BY <1>1, <1>2, <1>3, PTL DEF Spec
=============================================================================
