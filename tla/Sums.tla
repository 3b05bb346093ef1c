-------------------------------- MODULE Sums --------------------------------
(***************************************************************************)
(* Sums over finite sets.  MapThenSumSet is a recursive function over the  *)
(* subsets of a set; that there is such a function, and that the sum does  *)
(* not depend on the order in which elements are chosen, is shown by       *)
(* induction over finite sets, here in a form without operators as         *)
(* parameters: no set of bad subsets is without a least one.               *)
(***************************************************************************)
EXTENDS Integers, FiniteSets, FiniteSetsExt, FiniteSetTheorems, WellFoundedInduction, TLAPS

SumOver(f, S) == MapThenSumSet(LAMBDA x : f[x], S)

(* What holds of the empty set, and with a set of every larger one, holds. *)
LEMMA FiniteInduction ==
    ASSUME NEW S, IsFiniteSet(S), NEW Good, {} \in Good,
           \A T \in SUBSET S : \A x \in S \ T : T \in Good => T \union {x} \in Good
    PROVE  S \in Good
<1> DEFINE Bad == {T \in SUBSET S : T \notin Good}
<1> SUFFICES ASSUME S \notin Good PROVE FALSE
  OBVIOUS
<1>1. \A T \in SUBSET S : IsFiniteSet(T)
  BY FS_Subset
<1>2. Bad \subseteq FiniteSubsetsOf(S) /\ Bad # {}
  BY <1>1 DEF FiniteSubsetsOf
<1>3. PICK T \in Bad : \A U \in Bad : <<U, T>> \notin StrictSubsetOrdering(S)
  <2> HIDE DEF Bad
  <2>1. QED
    BY <1>2, FS_StrictSubsetOrderingWellFounded, WFMin
<1>4. PICK x \in T : TRUE
  OBVIOUS
<1>5. T \ {x} \in Bad
  <2>1. (T \ {x}) \union {x} = T /\ T \ {x} \in SUBSET S /\ x \in S \ (T \ {x})
    BY <1>4
  <2>2. T \ {x} \in Good => (T \ {x}) \union {x} \in Good
    BY <2>1
  <2>3. T \ {x} \notin Good
    BY <2>1, <2>2
  <2>4. QED
    BY <2>1, <2>3
<1>6. <<T \ {x}, T>> \in StrictSubsetOrdering(S)
  BY <1>4 DEF StrictSubsetOrdering
<1>7. QED
  BY <1>3, <1>5, <1>6

-----------------------------------------------------------------------------
(* The recursion behind a sum *)

Pick(s) == CHOOSE x \in s : TRUE

SumStep(f, g, s) == IF s = {} THEN 0 ELSE f[Pick(s)] + g[s \ {Pick(s)}]

(* g is the function of partial sums over the subsets of S. *)
Sums(f, S, g) == g = [s \in SUBSET S |-> SumStep(f, g, s)]

SumFcn(f, S) == CHOOSE g : Sums(f, S, g)

(* What the fold of FiniteSetsExt is, written as a recursive function. *)
LEMMA SumIsRecursive ==
    ASSUME NEW f, NEW S PROVE SumOver(f, S) = SumFcn(f, S)[S]
BY DEF SumOver, SumFcn, Sums, SumStep, Pick, MapThenSumSet, MapThenFoldSet

(* The element that is taken first is one of the set. *)
LEMMA PickIsIn == ASSUME NEW s, s # {} PROVE Pick(s) \in s
BY DEF Pick

(* There is one on the subsets of at most so many elements. *)
LEMMA SumFcnExists ==
    ASSUME NEW f, NEW S, IsFiniteSet(S)
    PROVE  \E g : Sums(f, S, g)
<1> DEFINE Upto(n) == {s \in SUBSET S : Cardinality(s) <= n}
           Level(n) == \E g : g = [s \in Upto(n) |-> SumStep(f, g, s)]
           Good == {T \in SUBSET S : Level(Cardinality(T))}
<1>0. \A T \in SUBSET S : IsFiniteSet(T) /\ Cardinality(T) \in Nat /\ (Cardinality(T) = 0 <=> T = {})
  BY FS_Subset, FS_CardinalityType, FS_EmptySet
<1>1. {} \in Good
  <2>1. Upto(Cardinality({})) = {{}}
    BY <1>0, FS_EmptySet
  <2>2. [s \in {{}} |-> 0] = [s \in {{}} |-> SumStep(f, [t \in {{}} |-> 0], s)]
    BY DEF SumStep
  <2>3. Level(Cardinality({}))
    BY <2>1, <2>2
  <2>4. QED
    BY <2>3
<1>2. ASSUME NEW T \in SUBSET S, NEW x \in S \ T, T \in Good PROVE T \union {x} \in Good
  <2> DEFINE n == Cardinality(T)
  <2>1. n \in Nat /\ Cardinality(T \union {x}) = n + 1
    BY <1>0, FS_AddElement
  <2>2. PICK g : g = [s \in Upto(n) |-> SumStep(f, g, s)]
    BY <1>2
  <2> DEFINE h == [s \in Upto(n + 1) |-> SumStep(f, g, s)]
  <2>3. \A s \in Upto(n) : h[s] = g[s]
    <3>1. Upto(n) \subseteq Upto(n + 1)
      BY <1>0, <2>1
    <3>2. \A s \in Upto(n) : g[s] = SumStep(f, g, s)
      BY <2>2
    <3>3. QED
      BY <3>1, <3>2
  <2>4. ASSUME NEW s \in Upto(n + 1) PROVE SumStep(f, g, s) = SumStep(f, h, s)
    <3>1. CASE s = {}
      BY <3>1 DEF SumStep
    <3>2. CASE s # {}
      <4>1. s \ {Pick(s)} \in Upto(n)
        <5>1. Cardinality(s \ {Pick(s)}) = Cardinality(s) - 1
          BY <1>0, <3>2, PickIsIn, FS_RemoveElement
        <5>2. QED
          BY <1>0, <2>1, <5>1
      <4> HIDE DEF h
      <4>2. QED
        BY <2>3, <4>1 DEF SumStep
    <3>3. QED
      BY <3>1, <3>2
  <2>5. h = [s \in Upto(n + 1) |-> SumStep(f, h, s)]
    BY <2>4
  <2>6. Level(n + 1)
    <3> HIDE DEF h
    <3>1. QED
      BY <2>5
  <2>7. QED
    BY <2>1, <2>6
<1>3. S \in Good
  <2> HIDE DEF Good
  <2>1. QED
    BY <1>1, <1>2, FiniteInduction
<1>4. Upto(Cardinality(S)) = SUBSET S
  BY FS_Subset
<1>5. QED
  BY <1>3, <1>4 DEF Sums

(* So the one that is chosen is one. *)
LEMMA SumFcnWorks ==
    ASSUME NEW f, NEW S, IsFiniteSet(S)
    PROVE  Sums(f, S, SumFcn(f, S))
BY SumFcnExists DEF SumFcn

(* The same at a point. *)
LEMMA SumFcnAt ==
    ASSUME NEW f, NEW S, IsFiniteSet(S), NEW s \in SUBSET S
    PROVE  SumFcn(f, S)[s] = SumStep(f, SumFcn(f, S), s)
<1> DEFINE g == SumFcn(f, S)
<1>1. Sums(f, S, g)
  BY SumFcnWorks
<1> HIDE DEF g
<1>2. g[s] = SumStep(f, g, s)
  BY <1>1 DEF Sums
<1>3. QED
  BY <1>2 DEF g

(* The partial sums are the same wherever they are taken. *)
LEMMA SumFcnRestricted ==
    ASSUME NEW f, NEW S, IsFiniteSet(S), NEW T \in SUBSET S
    PROVE  SumFcn(f, S)[T] = SumFcn(f, T)[T]
<1> DEFINE g == SumFcn(f, S)
           h == SumFcn(f, T)
           Good == {U \in SUBSET T : \A s \in SUBSET T : Cardinality(s) <= Cardinality(U) => g[s] = h[s]}
<1>0. IsFiniteSet(T) /\ \A U \in SUBSET T : IsFiniteSet(U) /\ Cardinality(U) \in Nat
                                             /\ (Cardinality(U) = 0 <=> U = {})
  BY FS_Subset, FS_CardinalityType, FS_EmptySet
<1>1. /\ \A s \in SUBSET T : g[s] = SumStep(f, g, s)
      /\ \A s \in SUBSET T : h[s] = SumStep(f, h, s)
  <2>1. \A s \in SUBSET T : s \in SUBSET S
    OBVIOUS
  <2>2. QED
    BY <1>0, <2>1, SumFcnAt
<1> HIDE DEF g, h
<1>2. {} \in Good
  <2>1. g[{}] = h[{}]
    BY <1>1 DEF SumStep
  <2>2. QED
    BY <1>0, <2>1, FS_EmptySet
<1>3. ASSUME NEW U \in SUBSET T, NEW x \in T \ U, U \in Good PROVE U \union {x} \in Good
  <2>1. Cardinality(U) \in Nat /\ Cardinality(U \union {x}) = Cardinality(U) + 1
    BY <1>0, FS_AddElement
  <2>2. ASSUME NEW s \in SUBSET T, Cardinality(s) <= Cardinality(U) + 1, s # {} PROVE g[s] = h[s]
    <3>1. Cardinality(s \ {Pick(s)}) = Cardinality(s) - 1 /\ Cardinality(s) \in Nat
      BY <1>0, <2>2, PickIsIn, FS_RemoveElement
    <3>2. g[s \ {Pick(s)}] = h[s \ {Pick(s)}]
      BY <1>3, <2>1, <2>2, <3>1
    <3>3. QED
      BY <1>1, <2>2, <3>2 DEF SumStep
  <2>3. g[{}] = h[{}]
    BY <1>1 DEF SumStep
  <2>4. QED
    BY <2>1, <2>2, <2>3
<1>4. T \in Good
  <2> HIDE DEF Good
  <2>1. QED
    BY <1>0, <1>2, <1>3, FiniteInduction
<1>5. g[T] = h[T]
  BY <1>0, <1>4
<1>6. QED
  BY <1>5 DEF g, h

-----------------------------------------------------------------------------
(* What is needed of sums *)

(* The empty sum. *)
LEMMA SumEmpty == ASSUME NEW f PROVE SumOver(f, {}) = 0
<1>1. SumFcn(f, {})[{}] = SumStep(f, SumFcn(f, {}), {})
  BY FS_EmptySet, SumFcnAt
<1>2. QED
  BY <1>1, SumIsRecursive DEF SumStep

(* A sum is that of the first element and that of the others. *)
LEMMA SumPicked ==
    ASSUME NEW f, NEW S, IsFiniteSet(S), S # {}
    PROVE  SumOver(f, S) = f[Pick(S)] + SumOver(f, S \ {Pick(S)})
<1>1. SumFcn(f, S)[S] = f[Pick(S)] + SumFcn(f, S)[S \ {Pick(S)}]
  BY SumFcnAt DEF SumStep
<1>2. SumFcn(f, S)[S \ {Pick(S)}] = SumFcn(f, S \ {Pick(S)})[S \ {Pick(S)}]
  BY SumFcnRestricted
<1>3. QED
  BY <1>1, <1>2, SumIsRecursive

(* Sums of integers are integers. *)
LEMMA SumType ==
    ASSUME NEW f, NEW S, IsFiniteSet(S), \A x \in S : f[x] \in Int
    PROVE  SumOver(f, S) \in Int
<1> DEFINE Good == {T \in SUBSET S : \A U \in SUBSET S : Cardinality(U) <= Cardinality(T) => SumOver(f, U) \in Int}
<1>0. \A U \in SUBSET S : IsFiniteSet(U) /\ Cardinality(U) \in Nat /\ (Cardinality(U) = 0 <=> U = {})
  BY FS_Subset, FS_CardinalityType, FS_EmptySet
<1>1. {} \in Good
  BY <1>0, SumEmpty, FS_EmptySet
<1>2. ASSUME NEW T \in SUBSET S, NEW x \in S \ T, T \in Good PROVE T \union {x} \in Good
  <2>1. Cardinality(T) \in Nat /\ Cardinality(T \union {x}) = Cardinality(T) + 1
    BY <1>0, FS_AddElement
  <2>2. ASSUME NEW U \in SUBSET S, Cardinality(U) <= Cardinality(T) + 1, U # {}
        PROVE  SumOver(f, U) \in Int
    <3>1. Cardinality(U \ {Pick(U)}) = Cardinality(U) - 1 /\ Cardinality(U) \in Nat /\ Pick(U) \in U
      BY <1>0, <2>2, PickIsIn, FS_RemoveElement
    <3>2. SumOver(f, U \ {Pick(U)}) \in Int
      BY <1>2, <2>1, <2>2, <3>1
    <3>3. SumOver(f, U) = f[Pick(U)] + SumOver(f, U \ {Pick(U)})
      BY <1>0, <2>2, SumPicked
    <3>4. QED
      BY <3>1, <3>2, <3>3
  <2>3. QED
    BY <2>1, <2>2, SumEmpty
<1>3. S \in Good
  <2> HIDE DEF Good
  <2>1. QED
    BY <1>1, <1>2, FiniteInduction
<1>4. QED
  BY <1>0, <1>3

(* Any element may be taken out first. *)
LEMMA SumRemove ==
    ASSUME NEW f, NEW S, IsFiniteSet(S), \A x \in S : f[x] \in Int, NEW y \in S
    PROVE  SumOver(f, S) = f[y] + SumOver(f, S \ {y})
<1> DEFINE Good == {T \in SUBSET S : \A U \in SUBSET S : Cardinality(U) <= Cardinality(T) =>
                      \A z \in U : SumOver(f, U) = f[z] + SumOver(f, U \ {z})}
<1>0. \A U \in SUBSET S : IsFiniteSet(U) /\ Cardinality(U) \in Nat /\ (Cardinality(U) = 0 <=> U = {})
                             /\ SumOver(f, U) \in Int
  BY FS_Subset, FS_CardinalityType, FS_EmptySet, SumType
<1>1. {} \in Good
  BY <1>0, FS_EmptySet
<1>2. ASSUME NEW T \in SUBSET S, NEW x \in S \ T, T \in Good PROVE T \union {x} \in Good
  <2>1. Cardinality(T) \in Nat /\ Cardinality(T \union {x}) = Cardinality(T) + 1
    BY <1>0, FS_AddElement
  <2>2. ASSUME NEW U \in SUBSET S, Cardinality(U) <= Cardinality(T) + 1, NEW z \in U
        PROVE  SumOver(f, U) = f[z] + SumOver(f, U \ {z})
    <3> DEFINE p == Pick(U)
    <3>1. /\ p \in U
          /\ SumOver(f, U) = f[p] + SumOver(f, U \ {p})
      BY <1>0, PickIsIn, SumPicked
    <3>2. CASE z = p
      BY <3>1, <3>2
    <3>3. CASE z # p
      <4> DEFINE V == U \ {p, z}
      <4>1. V = (U \ {p}) \ {z} /\ V = (U \ {z}) \ {p}
        OBVIOUS
      <4>2. /\ Cardinality(U \ {p}) <= Cardinality(T)
            /\ Cardinality(U \ {z}) <= Cardinality(T)
        <5>1. Cardinality(U \ {p}) = Cardinality(U) - 1 /\ Cardinality(U \ {z}) = Cardinality(U) - 1
          BY <1>0, <3>1, FS_RemoveElement
        <5>2. QED
          BY <1>0, <2>1, <2>2, <5>1
      <4>3. /\ SumOver(f, U \ {p}) = f[z] + SumOver(f, V)
            /\ SumOver(f, U \ {z}) = f[p] + SumOver(f, V)
        BY <1>2, <3>1, <3>3, <4>1, <4>2
      <4>4. f[p] \in Int /\ f[z] \in Int /\ SumOver(f, V) \in Int
        BY <1>0, <3>1
      <4>5. QED
        BY <3>1, <4>3, <4>4
    <3>4. QED
      BY <3>2, <3>3
  <2>3. QED
    BY <2>1, <2>2
<1>3. S \in Good
  <2> HIDE DEF Good
  <2>1. QED
    BY <1>1, <1>2, FiniteInduction
<1>4. QED
  BY <1>0, <1>3

(* An element that is added to the set is added to the sum. *)
LEMMA SumAdd ==
    ASSUME NEW f, NEW S, IsFiniteSet(S), \A x \in S : f[x] \in Int,
           NEW y, y \notin S, f[y] \in Int
    PROVE  SumOver(f, S \union {y}) = SumOver(f, S) + f[y]
<1>1. IsFiniteSet(S \union {y}) /\ (S \union {y}) \ {y} = S
  BY FS_AddElement
<1>2. SumOver(f, S \union {y}) = f[y] + SumOver(f, S)
  BY <1>1, SumRemove
<1>3. QED
  BY <1>2, SumType

(* The sum only depends on the values in the set, and grows with them.     *)
LEMMA SumMonotone ==
    ASSUME NEW f, NEW g, NEW S, IsFiniteSet(S),
           \A x \in S : f[x] \in Int /\ g[x] \in Int /\ f[x] <= g[x]
    PROVE  SumOver(f, S) <= SumOver(g, S)
<1> DEFINE Good == {T \in SUBSET S : SumOver(f, T) <= SumOver(g, T)}
<1>0. \A U \in SUBSET S : IsFiniteSet(U) /\ SumOver(f, U) \in Int /\ SumOver(g, U) \in Int
  BY FS_Subset, SumType
<1>1. {} \in Good
  BY SumEmpty
<1>2. ASSUME NEW T \in SUBSET S, NEW x \in S \ T, T \in Good PROVE T \union {x} \in Good
  <2>1. /\ SumOver(f, T \union {x}) = SumOver(f, T) + f[x]
        /\ SumOver(g, T \union {x}) = SumOver(g, T) + g[x]
    BY <1>0, SumAdd
  <2>2. QED
    BY <1>0, <1>2, <2>1
<1>3. S \in Good
  <2> HIDE DEF Good
  <2>1. QED
    BY <1>1, <1>2, FiniteInduction
<1>4. QED
  BY <1>3

(* Only the values on the set matter. *)
LEMMA SumSame ==
    ASSUME NEW f, NEW g, NEW S, IsFiniteSet(S), \A x \in S : f[x] \in Int /\ f[x] = g[x]
    PROVE  SumOver(f, S) = SumOver(g, S)
<1>1. SumOver(f, S) <= SumOver(g, S) /\ SumOver(g, S) <= SumOver(f, S)
  BY SumMonotone
<1>2. SumOver(f, S) \in Int /\ SumOver(g, S) \in Int
  BY SumType
<1>3. QED
  BY <1>1, <1>2

(* Nothing is added up to nothing. *)
LEMMA SumZero ==
    ASSUME NEW D, NEW S \in SUBSET D, IsFiniteSet(S)
    PROVE  SumOver([x \in D |-> 0], S) = 0
<1> DEFINE f == [x \in D |-> 0]
           Good == {T \in SUBSET S : SumOver(f, T) = 0}
<1>0. \A U \in SUBSET S : IsFiniteSet(U)
  BY FS_Subset
<1>1. \A x \in D : f[x] = 0
  OBVIOUS
<1> HIDE DEF f
<1>2. {} \in Good
  BY SumEmpty
<1>3. ASSUME NEW T \in SUBSET S, NEW x \in S \ T, T \in Good PROVE T \union {x} \in Good
  <2>1. IsFiniteSet(T) /\ (\A y \in T : f[y] \in Int) /\ x \notin T /\ f[x] = 0
    BY <1>0, <1>1
  <2>2. SumOver(f, T \union {x}) = SumOver(f, T) + f[x]
    BY <2>1, SumAdd
  <2>3. QED
    BY <1>3, <2>1, <2>2
<1>4. S \in Good
  <2> HIDE DEF Good
  <2>1. QED
    BY <1>2, <1>3, FiniteInduction
<1>5. SumOver(f, S) = 0
  BY <1>4
<1>6. QED
  BY <1>5 DEF f

(* Of natural numbers, the sum over fewer is not more. *)
LEMMA SumSubset ==
    ASSUME NEW f, NEW S, IsFiniteSet(S), NEW T \in SUBSET S, \A x \in S : f[x] \in Nat
    PROVE  SumOver(f, T) <= SumOver(f, S) /\ SumOver(f, S) \in Nat
<1> DEFINE Good == {U \in SUBSET S : SumOver(f, U \intersect T) <= SumOver(f, U) /\ SumOver(f, U) \in Nat}
<1>0. \A U \in SUBSET S : IsFiniteSet(U) /\ SumOver(f, U) \in Int /\ SumOver(f, U \intersect T) \in Int
  BY FS_Subset, SumType
<1>1. {} \in Good
  <2>1. {} \intersect T = {}
    OBVIOUS
  <2>2. QED
    BY <2>1, SumEmpty
<1>2. ASSUME NEW U \in SUBSET S, NEW x \in S \ U, U \in Good PROVE U \union {x} \in Good
  <2>1. SumOver(f, U \union {x}) = SumOver(f, U) + f[x]
    <3>1. IsFiniteSet(U)
      BY <1>0
    <3>2. (\A y \in U : f[y] \in Int) /\ f[x] \in Int /\ x \notin U
      OBVIOUS
    <3>3. QED
      BY <3>1, <3>2, SumAdd
  <2>2. CASE x \in T
    <3>1. (U \union {x}) \intersect T = (U \intersect T) \union {x}
      BY <2>2
    <3>2. SumOver(f, (U \intersect T) \union {x}) = SumOver(f, U \intersect T) + f[x]
      <4>1. U \intersect T \in SUBSET S /\ IsFiniteSet(U \intersect T) /\ x \notin U \intersect T
        BY FS_Subset
      <4>2. (\A y \in U \intersect T : f[y] \in Int) /\ f[x] \in Int
        OBVIOUS
      <4>3. QED
        BY <4>1, <4>2, SumAdd
    <3>3. f[x] \in Nat /\ SumOver(f, U \intersect T) \in Int
      BY <1>0
    <3>4. SumOver(f, U \intersect T) <= SumOver(f, U) /\ SumOver(f, U) \in Nat
      BY <1>2
    <3>5. /\ SumOver(f, (U \union {x}) \intersect T) <= SumOver(f, U \union {x})
          /\ SumOver(f, U \union {x}) \in Nat
      <4> HIDE DEF Good
      <4>1. QED
        BY <2>1, <3>1, <3>2, <3>3, <3>4
    <3>6. QED
      BY <3>5
  <2>3. CASE x \notin T
    <3>1. (U \union {x}) \intersect T = U \intersect T
      BY <2>3
    <3>2. f[x] \in Nat /\ SumOver(f, U) \in Int /\ SumOver(f, U \intersect T) \in Int
      BY <1>0
    <3>3. QED
      BY <1>2, <2>1, <3>1, <3>2
  <2>4. QED
    BY <2>2, <2>3
<1>3. S \in Good
  <2> HIDE DEF Good
  <2>1. QED
    BY <1>1, <1>2, FiniteInduction
<1>4. S \intersect T = T
  OBVIOUS
<1>5. QED
  BY <1>3, <1>4
=============================================================================
