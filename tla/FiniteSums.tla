----------------------------- MODULE FiniteSums -----------------------------
(***************************************************************************)
(* What the proofs need to know of finite sums: SumFunctionOnSet of module *)
(* Functions is defined by a recursive function over sets, so that nothing *)
(* is known of it but its definition.  The library's induction theorems    *)
(* take a predicate; here the predicate is the set of what satisfies it,   *)
(* and an induction is a minimal counterexample of a well-founded order.   *)
(***************************************************************************)
EXTENDS Integers, FiniteSets, Functions, FiniteSetTheorems, TLAPS

-----------------------------------------------------------------------------
(* Induction.                                                              *)

\* A finite set is among the good sets if the empty set is and one more
\* element keeps a set good.
THEOREM FiniteInduction ==
  ASSUME NEW S, IsFiniteSet(S), NEW Good, {} \in Good,
         \A T \in SUBSET S : \A x \in S : T \in Good => T \cup {x} \in Good
  PROVE  S \in Good
<1> DEFINE Bad == {T \in SUBSET S : T \notin Good}
<1>1. SUFFICES ASSUME Bad # {} PROVE FALSE
  OBVIOUS
<1>2. IsWellFoundedOn(StrictSubsetOrdering(S), SUBSET S)
  BY FS_StrictSubsetOrderingWellFounded, FS_FiniteSubsetsOfFinite, Zenon
<1>3. PICK T \in Bad : \A U \in Bad : ~ (<<U, T>> \in StrictSubsetOrdering(S))
  BY <1>1, <1>2, WFMin, Zenon
<1>4. \A U \in SUBSET S : U \subseteq T /\ U # T => U \in Good
  BY <1>3 DEF StrictSubsetOrdering
<1>5. PICK x \in T : TRUE
  OBVIOUS
<1>6. T \ {x} \in Good /\ (T \ {x}) \cup {x} = T
  BY <1>4
<1> QED BY <1>6

\* Every number up to n is good if 0 is and good numbers below n are followed
\* by good ones.
THEOREM CountUp ==
  ASSUME NEW n \in Nat, NEW Good, 0 \in Good, \A i \in 0 .. n - 1 : i \in Good => i + 1 \in Good
  PROVE  n \in Good
<1> DEFINE Sets == {T \in SUBSET (1 .. n) : Cardinality(T) \in Good}
<1>1. IsFiniteSet(1 .. n) /\ Cardinality(1 .. n) = n
  BY FS_Interval
<1>2. {} \in Sets
  BY FS_EmptySet
<1>3. ASSUME NEW T \in SUBSET (1 .. n), NEW x \in 1 .. n, T \in Sets PROVE T \cup {x} \in Sets
  <2>1. IsFiniteSet(T) /\ Cardinality(T) \in Nat
    BY <1>1, FS_Subset, FS_CardinalityType
  <2>2. T \cup {x} \in SUBSET (1 .. n)
    OBVIOUS
  <2>3. Cardinality(T \cup {x}) <= n
    BY <1>1, <2>2, FS_Subset
  <2>4. Cardinality(T \cup {x}) = IF x \in T THEN Cardinality(T) ELSE Cardinality(T) + 1
    BY <2>1, FS_AddElement
  <2>5. CASE x \in T
    BY <1>3, <2>2, <2>4, <2>5
  <2>6. CASE x \notin T
    <3>1. Cardinality(T) \in 0 .. n - 1 /\ Cardinality(T) \in Good
      BY <1>3, <2>1, <2>3, <2>4, <2>6
    <3>2. Cardinality(T \cup {x}) \in Good
      BY <2>4, <2>6, <3>1
    <3> QED BY <2>2, <3>2
  <2> QED BY <2>5, <2>6
<1>4. 1 .. n \in Sets
  <2> HIDE DEF Sets
  <2> QED BY <1>1, <1>2, <1>3, FiniteInduction
<1> QED BY <1>1, <1>4

-----------------------------------------------------------------------------
(* The recursion of SumFunctionOnSet.                                      *)

Element(s) == CHOOSE x \in s : TRUE

\* What the sum over s is, from those over smaller sets that h has.
FoldStep(h, f, s) == IF s = {} THEN 0 ELSE f[Element(s)] + h[s \ {Element(s)}]

LEMMA SmallerSet ==
  ASSUME NEW S, IsFiniteSet(S), NEW s \in SUBSET S, s # {}
  PROVE  /\ s \ {Element(s)} \in SUBSET S
         /\ Cardinality(s) \in Nat
         /\ Cardinality(s \ {Element(s)}) = Cardinality(s) - 1
         /\ Element(s) \in s
<1>1. Element(s) \in s
  BY DEF Element
<1>2. IsFiniteSet(s) /\ Cardinality(s) \in Nat
  BY FS_Subset, FS_CardinalityType
<1> QED BY <1>1, <1>2, FS_RemoveElement

\* There is a function that satisfies the recursion.
LEMMA FoldExists ==
  ASSUME NEW S, IsFiniteSet(S), NEW f
  PROVE  \E h : h = [s \in SUBSET S |-> FoldStep(h, f, s)]
<1> DEFINE UpTo(n, h) == \A s \in SUBSET S : Cardinality(s) <= n => h[s] = FoldStep(h, f, s)
           Good == {n \in Nat : \E h : UpTo(n, h)}
<1>1. Cardinality(S) \in Nat
  BY FS_CardinalityType
<1>2. 0 \in Good
  <2> DEFINE z == [s \in SUBSET S |-> 0]
  <2>1. \A s \in SUBSET S : Cardinality(s) \in Nat /\ (Cardinality(s) <= 0 => s = {})
    BY FS_Subset, FS_CardinalityType, FS_EmptySet
  <2>2. UpTo(0, z)
    BY <2>1 DEF FoldStep
  <2> QED BY <2>2
<1>3. ASSUME NEW n \in Nat, n \in Good PROVE n + 1 \in Good
  <2>1. PICK h : UpTo(n, h)
    BY <1>3
  <2> DEFINE g == [s \in SUBSET S |-> IF Cardinality(s) <= n THEN h[s] ELSE FoldStep(h, f, s)]
  <2>2. ASSUME NEW s \in SUBSET S, Cardinality(s) <= n + 1 PROVE g[s] = FoldStep(g, f, s)
    <3>1. CASE s = {}
      <4>1. Cardinality(s) <= n
        BY <3>1, FS_EmptySet
      <4> QED BY <2>1, <3>1, <4>1 DEF FoldStep
    <3>2. CASE s # {}
      <4> DEFINE r == s \ {Element(s)}
      <4>1. r \in SUBSET S /\ Cardinality(s) \in Nat /\ Cardinality(r) = Cardinality(s) - 1
        BY <3>2, SmallerSet
      <4>2. g[r] = h[r]
        BY <2>2, <4>1
      <4>3. FoldStep(g, f, s) = FoldStep(h, f, s)
        BY <3>2, <4>2 DEF FoldStep
      <4> QED BY <2>1, <4>3
    <3> QED BY <3>1, <3>2
  <2> HIDE DEF g
  <2>3. \E k : UpTo(n + 1, k)
    BY <2>2
  <2> HIDE DEF UpTo
  <2> QED BY <2>3
<1>4. Cardinality(S) \in Good
  <2> HIDE DEF Good
  <2> QED BY <1>1, <1>2, <1>3, CountUp
<1>5. PICK h : UpTo(Cardinality(S), h)
  BY <1>4
<1> DEFINE g == [s \in SUBSET S |-> h[s]]
<1>6. ASSUME NEW s \in SUBSET S PROVE g[s] = FoldStep(g, f, s)
  <2>1. Cardinality(s) <= Cardinality(S)
    BY FS_Subset
  <2>2. s # {} => s \ {Element(s)} \in SUBSET S
    OBVIOUS
  <2> QED BY <1>5, <2>1, <2>2 DEF FoldStep
<1>7. g = [s \in SUBSET S |-> FoldStep(g, f, s)]
  BY <1>6
<1> QED BY <1>7

Fold(f, S) == CHOOSE h : h = [s \in SUBSET S |-> FoldStep(h, f, s)]

LEMMA FoldEquation ==
  ASSUME NEW S, IsFiniteSet(S), NEW f
  PROVE  /\ SumFunctionOnSet(f, S) = Fold(f, S)[S]
         /\ \A s \in SUBSET S : Fold(f, S)[s] = FoldStep(Fold(f, S), f, s)
<1>1. SumFunctionOnSet(f, S) = Fold(f, S)[S]
  BY DEF SumFunctionOnSet, FoldFunctionOnSet, MapThenFoldSet, Fold, FoldStep, Element
<1>2. Fold(f, S) = [s \in SUBSET S |-> FoldStep(Fold(f, S), f, s)]
  BY FoldExists DEF Fold
<1> DEFINE h == Fold(f, S)
<1>3. h = [s \in SUBSET S |-> FoldStep(h, f, s)]
  BY <1>2
<1> HIDE DEF h
<1>4. \A s \in SUBSET S : h[s] = FoldStep(h, f, s)
  BY <1>3
<1> QED BY <1>1, <1>4 DEF h

-----------------------------------------------------------------------------
(* What sums are.                                                          *)

\* The recursion does not depend on the set it was begun with.
LEMMA FoldIsSum ==
  ASSUME NEW S, IsFiniteSet(S), NEW f, NEW T \in SUBSET S
  PROVE  Fold(f, S)[T] = SumFunctionOnSet(f, T)
<1> DEFINE h == Fold(f, S)
           g == Fold(f, T)
           Good == {n \in Nat : \A s \in SUBSET T : Cardinality(s) = n => h[s] = g[s]}
<1>1. IsFiniteSet(T) /\ Cardinality(T) \in Nat
  BY FS_Subset, FS_CardinalityType
<1>2. \A s \in SUBSET T : h[s] = FoldStep(h, f, s) /\ g[s] = FoldStep(g, f, s)
  BY <1>1, FoldEquation
<1> HIDE DEF h, g
<1>3. 0 \in Good
  <2>1. \A s \in SUBSET T : Cardinality(s) = 0 => s = {}
    BY <1>1, FS_Subset, FS_EmptySet
  <2> QED BY <1>2, <2>1 DEF FoldStep
<1>4. ASSUME NEW n \in Nat, n \in Good PROVE n + 1 \in Good
  <2> SUFFICES ASSUME NEW s \in SUBSET T, Cardinality(s) = n + 1 PROVE h[s] = g[s]
    OBVIOUS
  <2>1. s # {}
    BY FS_EmptySet
  <2>2. s \ {Element(s)} \in SUBSET T /\ Cardinality(s \ {Element(s)}) = n
    BY <1>1, <2>1, SmallerSet
  <2>3. h[s \ {Element(s)}] = g[s \ {Element(s)}]
    BY <1>4, <2>2
  <2> QED BY <1>2, <2>1, <2>3 DEF FoldStep
<1>5. Cardinality(T) \in Good
  <2> HIDE DEF Good
  <2> QED BY <1>1, <1>3, <1>4, CountUp
<1>6. h[T] = g[T]
  BY <1>5
<1> QED BY <1>1, <1>6, FoldEquation DEF h, g

THEOREM SumEmpty == ASSUME NEW f PROVE SumFunctionOnSet(f, {}) = 0
  BY FoldEquation, FS_EmptySet DEF FoldStep

\* The sum over a set that is not empty, by the element that the fold takes.
LEMMA SumElement ==
  ASSUME NEW S, IsFiniteSet(S), NEW f, S # {}
  PROVE  SumFunctionOnSet(f, S) = f[Element(S)] + SumFunctionOnSet(f, S \ {Element(S)})
<1>1. S \ {Element(S)} \in SUBSET S
  OBVIOUS
<1>2. Fold(f, S)[S] = FoldStep(Fold(f, S), f, S)
  BY FoldEquation
<1>3. Fold(f, S)[S \ {Element(S)}] = SumFunctionOnSet(f, S \ {Element(S)})
  BY <1>1, FoldIsSum
<1> QED BY <1>2, <1>3, FoldEquation DEF FoldStep

\* An induction over the subsets of S by their size.
LEMMA SizeInduction ==
  ASSUME NEW S, IsFiniteSet(S), NEW Good,
         \A T \in SUBSET S : (\A R \in SUBSET T : Cardinality(R) < Cardinality(T) => R \in Good) => T \in Good
  PROVE  S \in Good
<1> DEFINE Sizes == {n \in Nat : \A T \in SUBSET S : Cardinality(T) <= n => T \in Good}
<1>1. \A T \in SUBSET S : Cardinality(T) \in Nat /\ \A R \in SUBSET T : Cardinality(R) \in Nat
  BY FS_Subset, FS_CardinalityType
<1>2. 0 \in Sizes
  BY <1>1
<1>3. ASSUME NEW n \in Nat, n \in Sizes PROVE n + 1 \in Sizes
  <2> SUFFICES ASSUME NEW T \in SUBSET S, Cardinality(T) <= n + 1 PROVE T \in Good
    OBVIOUS
  <2>1. \A R \in SUBSET T : Cardinality(R) < Cardinality(T) => R \in Good
    BY <1>1, <1>3
  <2> QED BY <2>1
<1>4. Cardinality(S) \in Sizes
  <2> HIDE DEF Sizes
  <2> QED BY <1>1, <1>2, <1>3, CountUp
<1> QED BY <1>4

\* Sums of integers are integers.
THEOREM SumInt ==
  ASSUME NEW S, IsFiniteSet(S), NEW f, \A x \in S : f[x] \in Int
  PROVE  SumFunctionOnSet(f, S) \in Int
<1> DEFINE Good == {T \in SUBSET S : SumFunctionOnSet(f, T) \in Int}
<1>1. {} \in Good
  BY SumEmpty
<1>2. ASSUME NEW T \in SUBSET S, \A R \in SUBSET T : Cardinality(R) < Cardinality(T) => R \in Good
      PROVE  T \in Good
  <2>1. CASE T # {}
    <3> DEFINE r == T \ {Element(T)}
    <3>1. IsFiniteSet(T)
      BY FS_Subset
    <3>2. r \in SUBSET T /\ Cardinality(r) < Cardinality(T) /\ Element(T) \in T
      BY <2>1, <3>1, SmallerSet
    <3>3. SumFunctionOnSet(f, r) \in Int /\ f[Element(T)] \in Int
      BY <1>2, <3>2
    <3>4. SumFunctionOnSet(f, T) = f[Element(T)] + SumFunctionOnSet(f, r)
      BY <2>1, <3>1, SumElement
    <3> QED BY <3>3, <3>4
  <2> QED BY <1>1, <2>1
<1>3. S \in Good
  <2> HIDE DEF Good
  <2> QED BY <1>2, SizeInduction
<1> QED BY <1>3

\* Sums of naturals are naturals.
THEOREM SumNat ==
  ASSUME NEW S, IsFiniteSet(S), NEW f, \A x \in S : f[x] \in Nat
  PROVE  SumFunctionOnSet(f, S) \in Nat
<1> DEFINE Good == {T \in SUBSET S : SumFunctionOnSet(f, T) \in Nat}
<1>1. ASSUME NEW T \in SUBSET S, \A R \in SUBSET T : Cardinality(R) < Cardinality(T) => R \in Good
      PROVE  T \in Good
  <2>1. CASE T # {}
    <3> DEFINE r == T \ {Element(T)}
    <3>1. IsFiniteSet(T)
      BY FS_Subset
    <3>2. r \in SUBSET T /\ Cardinality(r) < Cardinality(T) /\ Element(T) \in T
      BY <2>1, <3>1, SmallerSet
    <3>3. SumFunctionOnSet(f, r) \in Nat /\ f[Element(T)] \in Nat
      BY <1>1, <3>2
    <3>4. SumFunctionOnSet(f, T) = f[Element(T)] + SumFunctionOnSet(f, r)
      BY <2>1, <3>1, SumElement
    <3> QED BY <3>3, <3>4
  <2> QED BY <2>1, SumEmpty
<1>2. S \in Good
  <2> HIDE DEF Good
  <2> QED BY <1>1, SizeInduction
<1> QED BY <1>2

\* The order in which the fold takes the elements does not matter: any element
\* of the set can be split off.
THEOREM SumRemove ==
  ASSUME NEW S, IsFiniteSet(S), NEW f, \A x \in S : f[x] \in Int, NEW x \in S
  PROVE  SumFunctionOnSet(f, S) = f[x] + SumFunctionOnSet(f, S \ {x})
<1> DEFINE Split(T, y) == SumFunctionOnSet(f, T) = f[y] + SumFunctionOnSet(f, T \ {y})
           Good == {T \in SUBSET S : \A y \in T : Split(T, y)}
<1>1. ASSUME NEW T \in SUBSET S, \A R \in SUBSET T : Cardinality(R) < Cardinality(T) => R \in Good
      PROVE  T \in Good
  <2> SUFFICES ASSUME NEW y \in T PROVE Split(T, y)
    OBVIOUS
  <2> DEFINE e == Element(T)
  <2>1. IsFiniteSet(T) /\ T # {}
    BY FS_Subset
  <2>2. Split(T, e)
    BY <2>1, SumElement
  <2>3. CASE y = e
    BY <2>2, <2>3
  <2>4. CASE y # e
    <3>1. e \in T /\ T \ {e} \in SUBSET T /\ Cardinality(T \ {e}) < Cardinality(T)
      BY <2>1, SmallerSet
    <3>2. T \ {y} \in SUBSET T /\ Cardinality(T \ {y}) < Cardinality(T)
      <4>1. Cardinality(T \ {y}) = Cardinality(T) - 1
        BY <2>1, FS_RemoveElement
      <4> QED BY <2>1, <4>1, FS_CardinalityType
    <3>3. Split(T \ {e}, y) /\ Split(T \ {y}, e)
      BY <1>1, <2>4, <3>1, <3>2
    <3> DEFINE rest == SumFunctionOnSet(f, (T \ {e}) \ {y})
    <3>4. /\ SumFunctionOnSet(f, T) = f[e] + SumFunctionOnSet(f, T \ {e})
          /\ SumFunctionOnSet(f, T \ {e}) = f[y] + rest
          /\ SumFunctionOnSet(f, T \ {y}) = f[e] + rest
      <4>1. (T \ {e}) \ {y} = (T \ {y}) \ {e}
        OBVIOUS
      <4> QED BY <2>2, <3>3, <4>1
    <3>5. f[e] \in Int /\ f[y] \in Int /\ rest \in Int
      <4>1. IsFiniteSet((T \ {e}) \ {y})
        BY <2>1, FS_Subset
      <4> QED BY <3>1, <4>1, SumInt
    <3> HIDE DEF e, rest
    <3> QED BY <3>4, <3>5
  <2> QED BY <2>3, <2>4
<1>2. S \in Good
  <2> HIDE DEF Good
  <2> QED BY <1>1, SizeInduction
<1> QED BY <1>2

\* A sum depends on the values over its set only.
THEOREM SumSame ==
  ASSUME NEW S, IsFiniteSet(S), NEW f, NEW g, \A x \in S : f[x] = g[x]
  PROVE  SumFunctionOnSet(f, S) = SumFunctionOnSet(g, S)
<1> DEFINE Good == {T \in SUBSET S : SumFunctionOnSet(f, T) = SumFunctionOnSet(g, T)}
<1>1. ASSUME NEW T \in SUBSET S, \A R \in SUBSET T : Cardinality(R) < Cardinality(T) => R \in Good
      PROVE  T \in Good
  <2>1. CASE T # {}
    <3> DEFINE r == T \ {Element(T)}
    <3>1. IsFiniteSet(T)
      BY FS_Subset
    <3>2. r \in SUBSET T /\ Cardinality(r) < Cardinality(T) /\ Element(T) \in T
      BY <2>1, <3>1, SmallerSet
    <3>3. SumFunctionOnSet(f, r) = SumFunctionOnSet(g, r) /\ f[Element(T)] = g[Element(T)]
      BY <1>1, <3>2
    <3>4. /\ SumFunctionOnSet(f, T) = f[Element(T)] + SumFunctionOnSet(f, r)
          /\ SumFunctionOnSet(g, T) = g[Element(T)] + SumFunctionOnSet(g, r)
      BY <2>1, <3>1, SumElement
    <3> QED BY <3>3, <3>4
  <2>2. SumFunctionOnSet(f, {}) = SumFunctionOnSet(g, {})
    BY SumEmpty
  <2> QED BY <2>1, <2>2
<1>2. S \in Good
  <2> HIDE DEF Good
  <2> QED BY <1>1, SizeInduction
<1> QED BY <1>2

\* One value changed: the sum changes by as much.
THEOREM SumChange ==
  ASSUME NEW S, IsFiniteSet(S), NEW f, NEW g, NEW x \in S,
         \A y \in S : f[y] \in Int /\ g[y] \in Int,
         \A y \in S : y # x => f[y] = g[y]
  PROVE  SumFunctionOnSet(g, S) = SumFunctionOnSet(f, S) - f[x] + g[x]
<1>1. IsFiniteSet(S \ {x})
  BY FS_Subset
<1>2. SumFunctionOnSet(f, S \ {x}) = SumFunctionOnSet(g, S \ {x})
  BY <1>1, SumSame
<1>3. SumFunctionOnSet(f, S) = f[x] + SumFunctionOnSet(f, S \ {x})
  BY SumRemove
<1>4. SumFunctionOnSet(g, S) = g[x] + SumFunctionOnSet(g, S \ {x})
  BY SumRemove
<1>5. SumFunctionOnSet(f, S \ {x}) \in Int
  BY <1>1, SumInt
<1> QED BY <1>2, <1>3, <1>4, <1>5

\* The sum of zeros.
THEOREM SumZero ==
  ASSUME NEW S, IsFiniteSet(S), NEW f, \A x \in S : f[x] = 0
  PROVE  SumFunctionOnSet(f, S) = 0
<1> DEFINE Good == {T \in SUBSET S : SumFunctionOnSet(f, T) = 0}
<1>1. ASSUME NEW T \in SUBSET S, \A R \in SUBSET T : Cardinality(R) < Cardinality(T) => R \in Good
      PROVE  T \in Good
  <2>1. CASE T # {}
    <3> DEFINE r == T \ {Element(T)}
    <3>1. IsFiniteSet(T)
      BY FS_Subset
    <3>2. r \in SUBSET T /\ Cardinality(r) < Cardinality(T) /\ Element(T) \in T
      BY <2>1, <3>1, SmallerSet
    <3>3. SumFunctionOnSet(f, r) = 0 /\ f[Element(T)] = 0
      BY <1>1, <3>2
    <3>4. SumFunctionOnSet(f, T) = f[Element(T)] + SumFunctionOnSet(f, r)
      BY <2>1, <3>1, SumElement
    <3> QED BY <3>3, <3>4
  <2> QED BY <2>1, SumEmpty
<1>2. S \in Good
  <2> HIDE DEF Good
  <2> QED BY <1>1, SizeInduction
<1> QED BY <1>2

\* Smaller values, smaller sum.
THEOREM SumMonotone ==
  ASSUME NEW S, IsFiniteSet(S), NEW f, NEW g,
         \A x \in S : f[x] \in Int /\ g[x] \in Int /\ f[x] <= g[x]
  PROVE  SumFunctionOnSet(f, S) <= SumFunctionOnSet(g, S)
<1> DEFINE Good == {T \in SUBSET S : SumFunctionOnSet(f, T) <= SumFunctionOnSet(g, T)}
<1>1. ASSUME NEW T \in SUBSET S, \A R \in SUBSET T : Cardinality(R) < Cardinality(T) => R \in Good
      PROVE  T \in Good
  <2>1. CASE T # {}
    <3> DEFINE r == T \ {Element(T)}
    <3>1. IsFiniteSet(T)
      BY FS_Subset
    <3>2. r \in SUBSET T /\ Cardinality(r) < Cardinality(T) /\ Element(T) \in T
      BY <2>1, <3>1, SmallerSet
    <3>3. SumFunctionOnSet(f, r) <= SumFunctionOnSet(g, r)
      BY <1>1, <3>2
    <3>4. /\ SumFunctionOnSet(f, T) = f[Element(T)] + SumFunctionOnSet(f, r)
          /\ SumFunctionOnSet(g, T) = g[Element(T)] + SumFunctionOnSet(g, r)
      BY <2>1, <3>1, SumElement
    <3>5. IsFiniteSet(r)
      BY <3>1, FS_Subset
    <3>6. SumFunctionOnSet(f, r) \in Int /\ SumFunctionOnSet(g, r) \in Int
      BY <3>5, SumInt
    <3>7. f[Element(T)] \in Int /\ g[Element(T)] \in Int /\ f[Element(T)] <= g[Element(T)]
      BY <3>2
    <3> QED BY <3>3, <3>4, <3>6, <3>7
  <2>2. SumFunctionOnSet(f, {}) <= SumFunctionOnSet(g, {})
    BY SumEmpty
  <2> QED BY <2>1, <2>2
<1>2. S \in Good
  <2> HIDE DEF Good
  <2> QED BY <1>1, SizeInduction
<1> QED BY <1>2
=============================================================================
