----------------------------- MODULE NumberFacts -----------------------------
(***************************************************************************)
(* Least and greatest elements of sets of naturals, for the proofs about   *)
(* sequence numbers, file numbers and keys.                                *)
(***************************************************************************)
EXTENDS Integers, FiniteSetTheorems, WellFoundedInduction, TLAPS

Bounded(S) == \E m \in Nat : S \subseteq 0 .. m

(* A set of naturals has a least element.  The library's induction theorems *)
(* have operators for parameters, the well-foundedness they rest on has not. *)
LEMMA LeastNatural ==
  ASSUME NEW S, S \subseteq Nat, S # {}
  PROVE  \E x \in S : \A y \in S : x <= y
<1> DEFINE R == OpToRel(<, Nat)
<1>1. IsWellFoundedOn(R, Nat)
  BY NatLessThanWellFounded
<1>2. \A x, y \in Nat : x < y => <<x, y>> \in R
  BY DEF OpToRel
<1> HIDE DEF R
<1>3. PICK x \in S : \A y \in S : ~ (<<y, x>> \in R)
  BY <1>1, WFMin
<1>4. \A y \in S : ~ (y < x)
  BY <1>2, <1>3
<1>5. \A y \in S : x <= y
  BY <1>4
<1> QED
  BY <1>5

(* A finite set of naturals has an upper bound: a smallest set without one  *)
(* would have an element, and without it a bound.                           *)
LEMMA FiniteIsBounded ==
  ASSUME NEW S, S \subseteq Nat, IsFiniteSet(S)
  PROVE  Bounded(S)
<1> SUFFICES ASSUME ~ Bounded(S) PROVE FALSE
  OBVIOUS
<1> DEFINE U == {T \in SUBSET S : ~ Bounded(T)}
           R == StrictSubsetOrdering(S)
<1>1. IsWellFoundedOn(R, SUBSET S)
  <2>1. IsWellFoundedOn(R, FiniteSubsetsOf(S))
    BY FS_StrictSubsetOrderingWellFounded
  <2>2. FiniteSubsetsOf(S) = SUBSET S
    BY FS_FiniteSubsetsOfFinite
  <2> QED
    BY <2>1, <2>2
<1>2. U \subseteq SUBSET S /\ U # {}
  OBVIOUS
<1>3. \A T \in SUBSET S : \A x \in T : <<T \ {x}, T>> \in R
  BY DEF StrictSubsetOrdering
<1> HIDE DEF R, U
<1>4. PICK T \in U : \A V \in U : ~ (<<V, T>> \in R)
  BY <1>1, <1>2, WFMin
<1>5. T \subseteq S /\ ~ Bounded(T)
  BY <1>4 DEF U
<1>6. Bounded({})
  BY DEF Bounded
<1>7. PICK x : x \in T
  BY <1>5, <1>6
<1>8. T \ {x} \notin U
  BY <1>3, <1>4, <1>5, <1>7
<1>9. PICK m \in Nat : T \ {x} \subseteq 0 .. m
  BY <1>5, <1>8 DEF U, Bounded
<1>10. x \in Nat
  BY <1>5, <1>7
<1>11. m + x \in Nat /\ T \subseteq 0 .. m + x
  <2> SUFFICES ASSUME NEW y \in T PROVE y \in 0 .. m + x
    BY <1>10
  <2>1. CASE y = x
    BY <2>1, <1>10
  <2>2. CASE y # x
    BY <2>2, <1>9, <1>10
  <2> QED
    BY <2>1, <2>2
<1> QED
  BY <1>5, <1>11 DEF Bounded

(* A bounded set of naturals has a greatest element. *)
LEMMA GreatestNatural ==
  ASSUME NEW S, S \subseteq Nat, S # {}, Bounded(S)
  PROVE  \E x \in S : \A y \in S : x >= y
<1>1. PICK m \in Nat : S \subseteq 0 .. m
  BY DEF Bounded
<1> DEFINE D == {m - x : x \in S}
<1>2. D \subseteq Nat
  BY <1>1
<1> PICK z : z \in S
  OBVIOUS
<1>3. m - z \in D
  OBVIOUS
<1>4. PICK d \in D : \A y \in D : d <= y
  BY <1>2, <1>3, LeastNatural
<1>5. PICK x \in S : d = m - x
  BY <1>4
<1>6. \A y \in S : x >= y
  <2> SUFFICES ASSUME NEW y \in S PROVE x >= y
    OBVIOUS
  <2>1. m - x <= m - y
    BY <1>4, <1>5
  <2> QED
    BY <2>1, <1>1
<1> QED
  BY <1>6

(* One number more keeps a set bounded, and so does one number less. *)
LEMMA BoundedSets ==
  ASSUME NEW S, Bounded(S)
  PROVE  /\ \A T : T \subseteq S => Bounded(T)
         /\ \A n \in Nat : Bounded(S \cup {n})
         /\ \A T : Bounded(T) => Bounded(S \cup T)
<1>1. PICK m \in Nat : S \subseteq 0 .. m
  BY DEF Bounded
<1>2. ASSUME NEW T, Bounded(T) PROVE Bounded(S \cup T)
  <2>1. PICK k \in Nat : T \subseteq 0 .. k
    BY <1>2 DEF Bounded
  <2>2. S \cup T \subseteq 0 .. m + k
    BY <1>1, <2>1
  <2> QED
    BY <2>2 DEF Bounded
<1>3. ASSUME NEW n \in Nat PROVE Bounded(S \cup {n})
  <2>1. {n} \subseteq 0 .. n
    OBVIOUS
  <2> QED
    BY <2>1, <1>2 DEF Bounded
<1>4. \A T : T \subseteq S => Bounded(T)
  BY <1>1 DEF Bounded
<1> QED
  BY <1>2, <1>3, <1>4
=============================================================================
