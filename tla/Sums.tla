-------------------------------- MODULE Sums --------------------------------
(***************************************************************************)
(* What MapThenSumSet adds up, over any finite set: the facts that a count *)
(* kept per call, and added up over the calls, needs in a proof.           *)
(*                                                                         *)
(* The argument: MapThenSumSet takes the elements of a set out one at a    *)
(* time (Pick), by a function on its subsets (AddsUp).  There is such a    *)
(* function on a finite set (SumsExist), and two of them, for maps that    *)
(* differ at one element, differ by as much (SumsShift): a smallest subset *)
(* where it went wrong would lose an element and still be wrong.           *)
(***************************************************************************)
EXTENDS Integers, FiniteSets, FiniteSetsExt, FiniteSetTheorems, WellFoundedInduction, TLAPS

Total(f, S) == MapThenSumSet(LAMBDA x : f[x], S)

Pick(s) == CHOOSE x \in s : TRUE

AddsUp(f, D, g) ==
    g = [s \in D |-> IF s = {} THEN 0 ELSE f[Pick(s)] + g[s \ {Pick(s)}]]

LEMMA TotalIsSum ==
  ASSUME NEW f, NEW S
  PROVE  Total(f, S) = (CHOOSE g : AddsUp(f, SUBSET S, g))[S]
BY DEF Total, MapThenSumSet, MapThenFoldSet, AddsUp, Pick

(* A nonempty set of naturals has a least one. *)
LEMMA HasLeast ==
  ASSUME NEW T \in SUBSET Nat, T # {}
  PROVE  \E m \in T : \A n \in T : m <= n
<1> DEFINE R == OpToRel(<, Nat)
<1>1. IsWellFoundedOn(R, Nat)
  BY NatLessThanWellFounded
<1> HIDE DEF R
<1>2. PICK m \in T : \A n \in T : ~(<<n, m>> \in R)
  BY <1>1, WFMin
<1>3. \A n \in T : ~(n < m)
  BY <1>2 DEF R, OpToRel
<1> QED
  BY <1>3

LEMMA PickedOut ==
  ASSUME NEW S, IsFiniteSet(S), NEW s \in SUBSET S, s # {}
  PROVE  /\ Pick(s) \in s
         /\ s \ {Pick(s)} \in SUBSET S
         /\ Cardinality(s) \in Nat
         /\ Cardinality(s \ {Pick(s)}) = Cardinality(s) - 1
<1>1. Pick(s) \in s
  BY DEF Pick
<1>2. IsFiniteSet(s)
  BY FS_Subset
<1>3. Cardinality(s \ {Pick(s)}) = Cardinality(s) - 1
  BY <1>1, <1>2, FS_RemoveElement
<1> QED
  BY <1>1, <1>2, <1>3, FS_CardinalityType

(* A smallest subset in B is empty, or has lost its place in B when it loses
   an element.                                                           *)
LEMMA SmallestSubset ==
  ASSUME NEW S, IsFiniteSet(S), NEW B \in SUBSET (SUBSET S), B # {}
  PROVE  \E s \in B : s # {} => s \ {Pick(s)} \in (SUBSET S) \ B
<1> DEFINE T == {Cardinality(s) : s \in B}
<1>1. \A s \in B : Cardinality(s) \in Nat
  BY FS_Subset, FS_CardinalityType
<1>2. T \in SUBSET Nat /\ T # {}
  BY <1>1
<1> HIDE DEF T
<1>3. PICK m \in T : \A n \in T : m <= n
  BY <1>2, HasLeast
<1>4. PICK s \in B : m = Cardinality(s)
  BY DEF T
<1>5. ASSUME s # {} PROVE s \ {Pick(s)} \in (SUBSET S) \ B
  <2>1. s \in SUBSET S
    OBVIOUS
  <2>2. /\ s \ {Pick(s)} \in SUBSET S /\ Cardinality(s) \in Nat
        /\ Cardinality(s \ {Pick(s)}) = Cardinality(s) - 1
    BY <1>5, <2>1, PickedOut
  <2>3. ASSUME s \ {Pick(s)} \in B PROVE FALSE
    <3>1. Cardinality(s \ {Pick(s)}) \in T
      BY <2>3 DEF T
    <3>2. Cardinality(s) <= Cardinality(s \ {Pick(s)})
      BY <1>3, <1>4, <3>1
    <3> QED
      BY <2>2, <3>2
  <2> QED
    BY <2>2, <2>3
<1> QED
  BY <1>5
-----------------------------------------------------------------------------
(* Subsets of at most n elements. *)
UpTo(S, n) == {s \in SUBSET S : Cardinality(s) <= n}

LEMMA SumsExist ==
  ASSUME NEW f, NEW S, IsFiniteSet(S)
  PROVE  \E g : AddsUp(f, SUBSET S, g)
<1> DEFINE Lacking == {n \in Nat : ~ \E g : AddsUp(f, UpTo(S, n), g)}
<1>1. ASSUME Lacking # {} PROVE FALSE
  <2>1. PICK n \in Lacking : \A k \in Lacking : n <= k
    BY <1>1, HasLeast
  <2>2. CASE n = 0
    <3>1. UpTo(S, 0) = {{}}
      <4>1. ASSUME NEW s \in SUBSET S, Cardinality(s) <= 0 PROVE s = {}
        <5>1. s # {} => Cardinality(s \ {Pick(s)}) \in Nat
          BY FS_Subset, FS_CardinalityType
        <5>2. s # {} => Cardinality(s \ {Pick(s)}) = Cardinality(s) - 1 /\ Cardinality(s) \in Nat
          BY PickedOut
        <5> QED
          BY <4>1, <5>1, <5>2
      <4>2. Cardinality({}) = 0
        BY FS_EmptySet
      <4> QED
        BY <4>1, <4>2 DEF UpTo
    <3>2. AddsUp(f, UpTo(S, 0), [s \in {{}} |-> 0])
      BY <3>1 DEF AddsUp
    <3> QED
      BY <2>1, <2>2, <3>2
  <2>3. CASE n # 0
    <3>1. n \in Nat /\ n - 1 \in Nat /\ n - 1 \notin Lacking
      BY <2>1, <2>3
    <3>2. PICK g : AddsUp(f, UpTo(S, n - 1), g)
      BY <3>1
    <3> DEFINE h == [s \in UpTo(S, n) |->
                        IF s = {} THEN 0 ELSE f[Pick(s)] + g[s \ {Pick(s)}]]
    <3>3. ASSUME NEW s \in UpTo(S, n), s # {}
          PROVE  s \ {Pick(s)} \in UpTo(S, n - 1)
      <4>1. s \in SUBSET S /\ Cardinality(s) <= n
        BY DEF UpTo
      <4>2. /\ s \ {Pick(s)} \in SUBSET S /\ Cardinality(s) \in Nat
            /\ Cardinality(s \ {Pick(s)}) = Cardinality(s) - 1
        BY <3>3, <4>1, PickedOut
      <4> QED
        BY <3>1, <4>1, <4>2 DEF UpTo
    <3>4. ASSUME NEW u \in UpTo(S, n - 1) PROVE h[u] = g[u]
      <4>1. u \in UpTo(S, n)
        <5>1. Cardinality(u) \in Nat
          BY FS_Subset, FS_CardinalityType DEF UpTo
        <5> QED
          BY <3>1, <5>1 DEF UpTo
      <4>2. g[u] = IF u = {} THEN 0 ELSE f[Pick(u)] + g[u \ {Pick(u)}]
        BY <3>2 DEF AddsUp
      <4> QED
        BY <4>1, <4>2
    <3>5. \A s \in UpTo(S, n) : s # {} => h[s \ {Pick(s)}] = g[s \ {Pick(s)}]
      BY <3>3, <3>4
    <3>6. AddsUp(f, UpTo(S, n), h)
      BY <3>5 DEF AddsUp
    <3> QED
      BY <2>1, <3>6
  <2> QED
    BY <2>2, <2>3
<1>2. Cardinality(S) \in Nat
  BY FS_CardinalityType
<1>3. UpTo(S, Cardinality(S)) = SUBSET S
  BY FS_Subset DEF UpTo
<1>4. \E g : AddsUp(f, UpTo(S, Cardinality(S)), g)
  BY <1>1, <1>2
<1> QED
  BY <1>3, <1>4

(* The map f2 is f, but for k more at c. *)
Shifted(S, f, f2, c, k) == \A x \in S : f2[x] = IF x = c THEN f[x] + k ELSE f[x]

LEMMA SumsShift ==
  ASSUME NEW S, IsFiniteSet(S), NEW f \in [S -> Nat], NEW c \in S, NEW k \in Nat,
         NEW f2, Shifted(S, f, f2, c, k),
         NEW g, AddsUp(f, SUBSET S, g), NEW h, AddsUp(f2, SUBSET S, h)
  PROVE  g[S] \in Nat /\ h[S] = g[S] + k
<1> DEFINE Wrong == {s \in SUBSET S :
                        ~(g[s] \in Nat /\ h[s] = IF c \in s THEN g[s] + k ELSE g[s])}
<1>1. ASSUME Wrong # {} PROVE FALSE
  <2>1. PICK s \in Wrong : s # {} => s \ {Pick(s)} \in (SUBSET S) \ Wrong
    <3>1. Wrong \in SUBSET (SUBSET S)
      OBVIOUS
    <3> HIDE DEF Wrong
    <3> QED
      BY <1>1, <3>1, SmallestSubset
  <2>2. s \in SUBSET S
    OBVIOUS
  <2>3. /\ g[s] = IF s = {} THEN 0 ELSE f[Pick(s)] + g[s \ {Pick(s)}]
        /\ h[s] = IF s = {} THEN 0 ELSE f2[Pick(s)] + h[s \ {Pick(s)}]
    BY <2>2 DEF AddsUp
  <2>4. s # {}
    BY <2>3
  <2> DEFINE x == Pick(s)
             u == s \ {x}
  <2>5. x \in s /\ u \in SUBSET S /\ (c \in s <=> c \in u \/ c = x) /\ ~(c \in u /\ c = x)
    BY <2>2, <2>4, PickedOut
  <2>6. g[u] \in Nat /\ h[u] = IF c \in u THEN g[u] + k ELSE g[u]
    BY <2>1, <2>4
  <2>7. f[x] \in Nat /\ f2[x] = IF x = c THEN f[x] + k ELSE f[x]
    BY <2>2, <2>5 DEF Shifted
  <2>8. g[s] = f[x] + g[u] /\ h[s] = f2[x] + h[u]
    BY <2>3, <2>4
  <2>9. ~(g[s] \in Nat /\ h[s] = IF c \in s THEN g[s] + k ELSE g[s])
    OBVIOUS
  <2> HIDE DEF x, u
  <2> QED
    BY <2>5, <2>6, <2>7, <2>8, <2>9
<1> QED
  BY <1>1

LEMMA SumOfNone ==
  ASSUME NEW S, IsFiniteSet(S), NEW f, f = [x \in S |-> 0], NEW g, AddsUp(f, SUBSET S, g)
  PROVE  g[S] = 0
<1> DEFINE Wrong == {s \in SUBSET S : g[s] # 0}
<1>1. ASSUME Wrong # {} PROVE FALSE
  <2>1. PICK s \in Wrong : s # {} => s \ {Pick(s)} \in (SUBSET S) \ Wrong
    <3>1. Wrong \in SUBSET (SUBSET S)
      OBVIOUS
    <3> HIDE DEF Wrong
    <3> QED
      BY <1>1, <3>1, SmallestSubset
  <2>2. g[s] = IF s = {} THEN 0 ELSE f[Pick(s)] + g[s \ {Pick(s)}]
    BY DEF AddsUp
  <2>3. s # {}
    BY <2>2
  <2>4. f[Pick(s)] = 0
    BY <2>3, PickedOut
  <2> QED
    BY <2>1, <2>2, <2>3, <2>4
<1> QED
  BY <1>1
-----------------------------------------------------------------------------
(* Nothing adds up to nothing. *)
LEMMA TotalOfNone ==
  ASSUME NEW S, IsFiniteSet(S)
  PROVE  Total([x \in S |-> 0], S) = 0
<1> DEFINE f == [x \in S |-> 0]
           g == CHOOSE g : AddsUp(f, SUBSET S, g)
<1>1. f = [x \in S |-> 0]
  OBVIOUS
<1> HIDE DEF f
<1>2. AddsUp(f, SUBSET S, g)
  BY SumsExist
<1>3. Total(f, S) = g[S]
  BY TotalIsSum
<1> HIDE DEF g
<1>4. Total(f, S) = 0
  BY <1>1, <1>2, <1>3, SumOfNone
<1> QED
  BY <1>4 DEF f

(* What is added at one element is added to the total. *)
LEMMA TotalGrows ==
  ASSUME NEW S, IsFiniteSet(S), NEW f \in [S -> Nat], NEW c \in S, NEW k \in Nat,
         NEW f2, Shifted(S, f, f2, c, k)
  PROVE  /\ Total(f, S) \in Nat
         /\ Total(f2, S) = Total(f, S) + k
<1>1. PICK g : AddsUp(f, SUBSET S, g) /\ Total(f, S) = g[S]
  BY SumsExist, TotalIsSum
<1>2. PICK h : AddsUp(f2, SUBSET S, h) /\ Total(f2, S) = h[S]
  BY SumsExist, TotalIsSum
<1>3. g[S] \in Nat /\ h[S] = g[S] + k
  BY <1>1, <1>2, SumsShift
<1> QED
  BY <1>1, <1>2, <1>3

(* A map to naturals adds up to a natural. *)
LEMMA TotalIsNat ==
  ASSUME NEW S, IsFiniteSet(S), NEW f \in [S -> Nat]
  PROVE  Total(f, S) \in Nat
<1>1. CASE S = {}
  <2>1. f = [x \in S |-> 0]
    BY <1>1
  <2>2. Total([x \in S |-> 0], S) = 0
    BY TotalOfNone
  <2> QED
    BY <2>1, <2>2
<1>2. CASE S # {}
  <2>1. PICK c \in S : TRUE
    BY <1>2
  <2>2. Shifted(S, f, f, c, 0)
    BY DEF Shifted
  <2> QED
    BY <2>2, TotalGrows
<1> QED
  BY <1>1, <1>2
=============================================================================
