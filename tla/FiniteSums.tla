----------------------------- MODULE FiniteSums -----------------------------
(***************************************************************************)
(* Sums of a function over a finite set, as the bandwidth ledger takes     *)
(* them, and the extremes of a finite set of numbers.                      *)
(*                                                                         *)
(* Every induction here is over a set (of naturals, of subsets) and rests  *)
(* on the least-number principle in that form: a theorem with a predicate  *)
(* as a parameter cannot be instantiated by the provers, one with a set    *)
(* can.                                                                    *)
(***************************************************************************)
EXTENDS Integers, FiniteSets, FiniteSetsExt, FiniteSetTheorems,
        WellFoundedInduction, TLAPS

-----------------------------------------------------------------------------
(* Induction over sets.                                                    *)

LEMMA LeastNumber ==
  ASSUME NEW S \in SUBSET Nat, S # {}
  PROVE  \E n \in S : \A m \in S : n <= m
<1> DEFINE R == OpToRel(<, Nat)
<1>1. IsWellFoundedOn(R, Nat)
  BY NatLessThanWellFounded, Zenon
<1>2. \A m, n \in Nat : <<m, n>> \in R <=> m < n
  BY DEF OpToRel
<1> HIDE DEF R
<1>3. PICK n \in S : \A m \in S : ~ (<<m, n>> \in R)
  BY <1>1, WFMin
<1>4. \A m \in S : n \in Nat /\ m \in Nat /\ ~ (m < n)
  BY <1>2, <1>3
<1> QED
  BY <1>4

\* A set of naturals that contains 0 and is closed under successor.
LEMMA NatSet ==
  ASSUME NEW S, 0 \in S, \A n \in Nat : n \in S => n + 1 \in S
  PROVE  Nat \subseteq S
<1> SUFFICES ASSUME Nat \ S # {} PROVE FALSE
  OBVIOUS
<1>1. PICK n \in Nat \ S : \A m \in Nat \ S : n <= m
  <2>1. Nat \ S \in SUBSET Nat
    OBVIOUS
  <2> QED
    BY <2>1, LeastNumber
<1>2. n # 0 /\ n - 1 \in Nat
  BY <1>1
<1>3. n - 1 \in S
  BY <1>1, <1>2
<1> QED
  BY <1>1, <1>2, <1>3

\* Every subset of a finite set is in a set that contains the empty set and
\* grows by one element at a time.
LEMMA SubsetInduction ==
  ASSUME NEW S, IsFiniteSet(S), NEW P, {} \in P,
         \A T \in SUBSET S : T # {} /\ (\A x \in T : T \ {x} \in P) => T \in P
  PROVE  SUBSET S \subseteq P
<1> SUFFICES ASSUME (SUBSET S) \ P # {} PROVE FALSE
  OBVIOUS
<1> DEFINE Bad == {n \in Nat : \E T \in (SUBSET S) \ P : Cardinality(T) = n}
<1>1. \A T \in SUBSET S : IsFiniteSet(T) /\ Cardinality(T) \in Nat
  BY FS_Subset, FS_CardinalityType
<1>2. Bad \in SUBSET Nat /\ Bad # {}
  BY <1>1
<1>3. PICK n \in Bad : \A m \in Bad : n <= m
  BY <1>2, LeastNumber
<1>4. PICK T \in (SUBSET S) \ P : Cardinality(T) = n
  BY <1>3
<1>5. T # {}
  BY <1>4
<1>6. ASSUME NEW x \in T
      PROVE  T \ {x} \in P
  <2>1. T \ {x} \in SUBSET S /\ Cardinality(T \ {x}) = Cardinality(T) - 1
    BY <1>1, FS_RemoveElement
  <2>2. n \in Nat /\ Cardinality(T \ {x}) \in Nat /\ Cardinality(T \ {x}) < n
    BY <1>1, <1>4, <2>1
  <2>3. Cardinality(T \ {x}) \notin Bad
    BY <1>3, <2>2
  <2> QED
    BY <2>1, <2>2, <2>3
<1> QED
  BY <1>4, <1>5, <1>6

-----------------------------------------------------------------------------
(* The extremes of a finite set.                                           *)

LEMMA MaxExists ==
  ASSUME NEW S \in SUBSET Int, IsFiniteSet(S), S # {}
  PROVE  Max(S) \in S /\ \A x \in S : x <= Max(S)
<1> DEFINE P == {T \in SUBSET S : T # {} => \E m \in T : \A x \in T : m >= x}
<1>1. {} \in P
  OBVIOUS
<1>2. ASSUME NEW T \in SUBSET S, T # {}, \A y \in T : T \ {y} \in P
      PROVE  T \in P
  <2>1. PICK y \in T : TRUE
    BY <1>2
  <2>2. CASE T \ {y} = {}
    <3>1. \A x \in T : x = y
      BY <2>2
    <3>2. y >= y
      BY <2>1
    <3> QED
      BY <2>1, <3>1, <3>2
  <2>3. CASE T \ {y} # {}
    <3>1. PICK m \in T \ {y} : \A x \in T \ {y} : m >= x
      BY <1>2, <2>1, <2>3
    <3>2. \A x \in T : x = y \/ x \in T \ {y}
      OBVIOUS
    <3>3. y \in Int /\ m \in Int /\ \A x \in T : x \in Int
      BY <2>1, <3>1
    <3>4. CASE m >= y
      BY <3>1, <3>2, <3>4
    <3>5. CASE y >= m
      <4>1. \A x \in T : y >= x
        BY <3>1, <3>2, <3>3, <3>5
      <4> QED
        BY <2>1, <4>1
    <3> QED
      BY <3>3, <3>4, <3>5
  <2> QED
    BY <2>2, <2>3
<1>3. S \in P
  <2> HIDE DEF P
  <2> QED
    BY <1>1, <1>2, SubsetInduction
<1>4. PICK m \in S : \A x \in S : m >= x
  BY <1>3
<1>5. Max(S) \in S /\ \A x \in S : Max(S) >= x
  BY <1>4 DEF Max
<1>6. \A x \in S : x \in Int
  OBVIOUS
<1> QED
  BY <1>5, <1>6

LEMMA MinExists ==
  ASSUME NEW S \in SUBSET Nat, S # {}
  PROVE  Min(S) \in S /\ \A x \in S : Min(S) <= x
<1>1. PICK n \in S : \A m \in S : n <= m
  BY LeastNumber
<1> QED
  BY <1>1 DEF Min

-----------------------------------------------------------------------------
(* The fold of MapThenSumSet, with addition.                               *)

SumOver(f, S) == MapThenSumSet(LAMBDA x : f[x], S)

Chosen(T) == CHOOSE x \in T : TRUE

\* g computes the sum of f over each subset of S.
Sums(f, S, g) ==
  g = [T \in SUBSET S |-> IF T = {} THEN 0 ELSE f[Chosen(T)] + g[T \ {Chosen(T)}]]

LEMMA SumUnfold ==
  ASSUME NEW f, NEW S
  PROVE  SumOver(f, S) = (CHOOSE g : Sums(f, S, g))[S]
BY DEF SumOver, MapThenSumSet, MapThenFoldSet, Sums, Chosen

LEMMA ChosenIn ==
  ASSUME NEW T, T # {}
  PROVE  Chosen(T) \in T
BY DEF Chosen

\* The recursion has a solution, built one cardinality after the other.
LEMMA SumsExist ==
  ASSUME NEW f, NEW S, IsFiniteSet(S)
  PROVE  \E g : Sums(f, S, g)
<1> DEFINE Value(g, T) == IF T = {} THEN 0 ELSE f[Chosen(T)] + g[T \ {Chosen(T)}]
           Upto(n, g) == \A T \in SUBSET S : Cardinality(T) <= n => g[T] = Value(g, T)
           Good == {n \in Nat : \E g : Upto(n, g)}
<1>1. \A T \in SUBSET S : /\ IsFiniteSet(T) /\ Cardinality(T) \in Nat
                          /\ Cardinality(T) = 0 <=> T = {}
  BY FS_Subset, FS_CardinalityType, FS_EmptySet
<1>2. \A T \in SUBSET S :
        T # {} => /\ T \ {Chosen(T)} \in SUBSET S
                  /\ Cardinality(T \ {Chosen(T)}) = Cardinality(T) - 1
  BY <1>1, ChosenIn, FS_RemoveElement
<1>3. 0 \in Good
  <2> DEFINE g == [T \in SUBSET S |-> 0]
  <2>1. \A T \in SUBSET S : Cardinality(T) <= 0 => T = {}
    BY <1>1
  <2>2. Upto(0, g)
    BY <2>1
  <2> QED
    BY <2>2
<1>4. ASSUME NEW n \in Nat, n \in Good
      PROVE  n + 1 \in Good
  <2>1. PICK g : Upto(n, g)
    BY <1>4
  <2> DEFINE k == [T \in SUBSET S |-> Value(g, T)]
  <2>2. \A T \in SUBSET S : Cardinality(T) <= n => k[T] = g[T]
    BY <2>1
  <2>3. ASSUME NEW T \in SUBSET S, Cardinality(T) <= n + 1
        PROVE  k[T] = Value(k, T)
    <3>1. CASE T = {}
      BY <3>1
    <3>2. CASE T # {}
      <4>1. /\ T \ {Chosen(T)} \in SUBSET S
            /\ Cardinality(T \ {Chosen(T)}) <= n
        BY <1>1, <1>2, <2>3, <3>2
      <4>2. k[T \ {Chosen(T)}] = g[T \ {Chosen(T)}]
        BY <2>2, <4>1
      <4>3. k[T] = Value(g, T)
        OBVIOUS
      <4> HIDE DEF k
      <4> QED
        BY <4>2, <4>3
    <3> QED
      BY <3>1, <3>2
  <2> HIDE DEF k
  <2>4. Upto(n + 1, k)
    BY <2>3
  <2>5. \E j : Upto(n + 1, j)
    <3> HIDE DEF Upto
    <3> QED
      BY <2>4
  <2> HIDE DEF Upto
  <2> QED
    BY <2>5
<1>5. Cardinality(S) \in Good
  <2>1. Cardinality(S) \in Nat
    BY <1>1
  <2> HIDE DEF Good
  <2>2. Nat \subseteq Good
    BY <1>3, <1>4, NatSet
  <2> QED
    BY <2>1, <2>2
<1>6. PICK g : Upto(Cardinality(S), g)
  BY <1>5
<1>7. \A T \in SUBSET S : g[T] = Value(g, T)
  BY <1>6, FS_Subset
<1> DEFINE k == [T \in SUBSET S |-> g[T]]
<1>8. \A T \in SUBSET S : k[T] = Value(k, T)
  BY <1>2, <1>7
<1>9. k = [T \in SUBSET S |-> Value(k, T)]
  <2>1. k = [T \in SUBSET S |-> k[T]]
    OBVIOUS
  <2> HIDE DEF k
  <2> QED
    BY <1>8, <2>1
<1>10. Sums(f, S, k)
  BY <1>9 DEF Sums
<1> QED
  BY <1>10

Computes(f, S, g) ==
  /\ SumOver(f, S) = g[S]
  /\ \A T \in SUBSET S : g[T] = IF T = {} THEN 0 ELSE f[Chosen(T)] + g[T \ {Chosen(T)}]

LEMMA SumRecursion ==
  ASSUME NEW f, NEW S, IsFiniteSet(S)
  PROVE  \E g : Computes(f, S, g)
<1> DEFINE g == CHOOSE g : Sums(f, S, g)
<1>1. Sums(f, S, g)
  BY SumsExist
<1>2. SumOver(f, S) = g[S]
  BY SumUnfold
<1> HIDE DEF g
<1>3. \A T \in SUBSET S : g[T] = IF T = {} THEN 0 ELSE f[Chosen(T)] + g[T \ {Chosen(T)}]
  BY <1>1 DEF Sums
<1>4. Computes(f, S, g)
  BY <1>2, <1>3 DEF Computes
<1> QED
  BY <1>4

\* The sum over a set is reached by way of its subsets, whatever set the
\* recursion was started from.
LEMMA SumStep ==
  ASSUME NEW f, NEW S, IsFiniteSet(S)
  PROVE  SumOver(f, S) = IF S = {} THEN 0
                         ELSE f[Chosen(S)] + SumOver(f, S \ {Chosen(S)})
<1>1. PICK g : Computes(f, S, g)
  BY SumRecursion
<1>2. CASE S = {}
  BY <1>1, <1>2 DEF Computes
<1>3. CASE S # {}
  <2> DEFINE R == S \ {Chosen(S)}
  <2>1. R \in SUBSET S /\ IsFiniteSet(R)
    BY FS_Subset
  <2>2. PICK k : Computes(f, R, k)
    BY <2>1, SumRecursion
  <2> HIDE DEF R
  <2> DEFINE P == {T \in SUBSET R : g[T] = k[T]}
  <2>3. {} \in P
    BY <1>1, <2>2 DEF Computes
  <2>4. ASSUME NEW T \in SUBSET R, T # {}, \A x \in T : T \ {x} \in P
        PROVE  T \in P
    <3>1. T \in SUBSET S /\ Chosen(T) \in T
      BY <2>1, <2>4, ChosenIn
    <3>2. g[T \ {Chosen(T)}] = k[T \ {Chosen(T)}]
      BY <2>4, <3>1
    <3> QED
      BY <1>1, <2>2, <2>4, <3>1, <3>2 DEF Computes
  <2>5. R \in P
    <3> HIDE DEF P
    <3> QED
      BY <2>1, <2>3, <2>4, SubsetInduction
  <2> QED
    BY <1>1, <1>3, <2>2, <2>5 DEF R, Computes
<1> QED
  BY <1>2, <1>3

-----------------------------------------------------------------------------
(* What a sum of naturals satisfies.                                       *)

LEMMA SumEmpty == \A f : SumOver(f, {}) = 0
BY SumStep, FS_EmptySet

LEMMA SumNat ==
  ASSUME NEW f, NEW S, IsFiniteSet(S), \A x \in S : f[x] \in Nat
  PROVE  \A T \in SUBSET S : SumOver(f, T) \in Nat
<1> DEFINE P == {T \in SUBSET S : SumOver(f, T) \in Nat}
<1>1. {} \in P
  BY SumEmpty
<1>2. ASSUME NEW T \in SUBSET S, T # {}, \A x \in T : T \ {x} \in P
      PROVE  T \in P
  <2>1. IsFiniteSet(T) /\ Chosen(T) \in T
    BY <1>2, ChosenIn, FS_Subset
  <2>2. SumOver(f, T) = f[Chosen(T)] + SumOver(f, T \ {Chosen(T)})
    BY <1>2, <2>1, SumStep
  <2>3. f[Chosen(T)] \in Nat /\ SumOver(f, T \ {Chosen(T)}) \in Nat
    BY <1>2, <2>1
  <2> QED
    BY <2>2, <2>3
<1> HIDE DEF P
<1>3. SUBSET S \subseteq P
  BY <1>1, <1>2, SubsetInduction
<1> QED
  BY <1>3 DEF P

\* Any element may be taken out first.
LEMMA SumTake ==
  ASSUME NEW f, NEW S, IsFiniteSet(S), \A x \in S : f[x] \in Nat
  PROVE  \A T \in SUBSET S : \A x \in T : SumOver(f, T) = f[x] + SumOver(f, T \ {x})
<1> DEFINE P == {T \in SUBSET S : \A x \in T : SumOver(f, T) = f[x] + SumOver(f, T \ {x})}
<1>1. {} \in P
  OBVIOUS
<1>2. ASSUME NEW T \in SUBSET S, T # {}, \A y \in T : T \ {y} \in P
      PROVE  T \in P
  <2> DEFINE c == Chosen(T)
  <2>1. IsFiniteSet(T) /\ c \in T
    BY <1>2, ChosenIn, FS_Subset
  <2>2. SumOver(f, T) = f[c] + SumOver(f, T \ {c})
    BY <1>2, <2>1, SumStep
  <2> HIDE DEF c
  <2>3. ASSUME NEW x \in T, x # c
        PROVE  SumOver(f, T) = f[x] + SumOver(f, T \ {x})
    <3>1. SumOver(f, T \ {c}) = f[x] + SumOver(f, (T \ {c}) \ {x})
      BY <1>2, <2>1, <2>3
    <3>2. SumOver(f, T \ {x}) = f[c] + SumOver(f, (T \ {x}) \ {c})
      BY <1>2, <2>1, <2>3
    <3>3. (T \ {c}) \ {x} = (T \ {x}) \ {c}
      OBVIOUS
    <3>4. f[c] \in Nat /\ f[x] \in Nat
      BY <2>1
    <3>5. SumOver(f, (T \ {x}) \ {c}) \in Nat
      <4>1. (T \ {x}) \ {c} \in SUBSET S
        OBVIOUS
      <4> QED
        BY <4>1, SumNat
    <3> QED
      BY <2>2, <3>1, <3>2, <3>3, <3>4, <3>5
  <2> QED
    BY <2>2, <2>3
<1> HIDE DEF P
<1>3. SUBSET S \subseteq P
  BY <1>1, <1>2, SubsetInduction
<1> QED
  BY <1>3 DEF P

\* Two functions that agree on a set have the same sum over it.
LEMMA SumSame ==
  ASSUME NEW f, NEW g, NEW S, IsFiniteSet(S), \A x \in S : f[x] = g[x]
  PROVE  SumOver(f, S) = SumOver(g, S)
<1> DEFINE P == {T \in SUBSET S : SumOver(f, T) = SumOver(g, T)}
<1>1. {} \in P
  BY SumEmpty
<1>2. ASSUME NEW T \in SUBSET S, T # {}, \A x \in T : T \ {x} \in P
      PROVE  T \in P
  <2>1. IsFiniteSet(T) /\ Chosen(T) \in T
    BY <1>2, ChosenIn, FS_Subset
  <2>2. /\ SumOver(f, T) = f[Chosen(T)] + SumOver(f, T \ {Chosen(T)})
        /\ SumOver(g, T) = g[Chosen(T)] + SumOver(g, T \ {Chosen(T)})
    BY <1>2, <2>1, SumStep
  <2>3. /\ f[Chosen(T)] = g[Chosen(T)]
        /\ SumOver(f, T \ {Chosen(T)}) = SumOver(g, T \ {Chosen(T)})
    BY <1>2, <2>1
  <2> QED
    BY <2>2, <2>3
<1> HIDE DEF P
<1>3. S \in P
  BY <1>1, <1>2, SubsetInduction
<1> QED
  BY <1>3 DEF P

\* Leaving elements out does not increase a sum.
LEMMA SumSubset ==
  ASSUME NEW f, NEW S, IsFiniteSet(S), \A x \in S : f[x] \in Nat, NEW R \in SUBSET S
  PROVE  SumOver(f, R) <= SumOver(f, S)
<1> DEFINE P == {T \in SUBSET S : SumOver(f, T \cap R) <= SumOver(f, T)}
<1>0. \A T \in SUBSET S : SumOver(f, T) \in Nat /\ IsFiniteSet(T)
  BY SumNat, FS_Subset
<1>1. {} \in P
  BY SumEmpty
<1>2. ASSUME NEW T \in SUBSET S, T # {}, \A x \in T : T \ {x} \in P
      PROVE  T \in P
  <2> DEFINE c == Chosen(T)
  <2>1. c \in T /\ f[c] \in Nat
    BY <1>2, ChosenIn
  <2> HIDE DEF c
  <2>2. SumOver(f, T) = f[c] + SumOver(f, T \ {c})
    BY <2>1, SumTake
  <2>3. SumOver(f, (T \ {c}) \cap R) <= SumOver(f, T \ {c})
    BY <1>2, <2>1
  <2>4. /\ T \ {c} \in SUBSET S /\ T \cap R \in SUBSET S
        /\ (T \ {c}) \cap R \in SUBSET S
    OBVIOUS
  <2>5. CASE c \in R
    <3>1. SumOver(f, T \cap R) = f[c] + SumOver(f, (T \cap R) \ {c})
      BY <2>1, <2>4, <2>5, SumTake
    <3>2. (T \cap R) \ {c} = (T \ {c}) \cap R
      OBVIOUS
    <3>3. /\ SumOver(f, (T \ {c}) \cap R) \in Nat
          /\ SumOver(f, T \ {c}) \in Nat
      BY <1>0, <2>4
    <3>4. SumOver(f, T \cap R) <= SumOver(f, T)
      BY <2>1, <2>2, <2>3, <3>1, <3>2, <3>3
    <3> QED
      BY <3>4
  <2>6. CASE c \notin R
    <3>1. T \cap R = (T \ {c}) \cap R
      BY <2>6
    <3>2. /\ SumOver(f, (T \ {c}) \cap R) \in Nat
          /\ SumOver(f, T \ {c}) \in Nat
      BY <1>0, <2>4
    <3>3. SumOver(f, T \cap R) = SumOver(f, (T \ {c}) \cap R)
      BY <3>1, Zenon
    <3>4. SumOver(f, T \cap R) <= SumOver(f, T)
      BY <2>1, <2>2, <2>3, <3>2, <3>3
    <3> QED
      BY <3>4
  <2> QED
    BY <2>5, <2>6
<1> HIDE DEF P
<1>3. S \in P
  BY <1>1, <1>2, SubsetInduction
<1>4. S \cap R = R
  OBVIOUS
<1> QED
  BY <1>3, <1>4 DEF P

\* Adding to one entry adds to the sums that count it, and to no other.
LEMMA SumAdded ==
  ASSUME NEW f, NEW g, NEW S, IsFiniteSet(S), \A x \in S : f[x] \in Nat,
         NEW c \in S, NEW n \in Nat, g[c] = f[c] + n,
         \A x \in S : x # c => g[x] = f[x]
  PROVE  SumOver(g, S) = SumOver(f, S) + n
<1>1. S \ {c} \in SUBSET S /\ IsFiniteSet(S \ {c}) /\ S \in SUBSET S
  BY FS_Subset
<1>2. SumOver(g, S \ {c}) = SumOver(f, S \ {c})
  BY <1>1, SumSame
<1>3. f[c] \in Nat /\ \A x \in S : g[x] \in Nat
  OBVIOUS
<1>4. /\ SumOver(f, S) = f[c] + SumOver(f, S \ {c})
      /\ SumOver(g, S) = g[c] + SumOver(g, S \ {c})
  BY <1>1, <1>3, SumTake
<1>5. SumOver(f, S \ {c}) \in Nat
  BY <1>1, SumNat
<1> QED
  BY <1>2, <1>3, <1>4, <1>5

LEMMA SumZero ==
  ASSUME NEW f, NEW S, IsFiniteSet(S), \A x \in S : f[x] = 0
  PROVE  SumOver(f, S) = 0
<1> DEFINE P == {T \in SUBSET S : SumOver(f, T) = 0}
<1>1. {} \in P
  BY SumEmpty
<1>2. ASSUME NEW T \in SUBSET S, T # {}, \A x \in T : T \ {x} \in P
      PROVE  T \in P
  <2>1. IsFiniteSet(T) /\ Chosen(T) \in T
    BY <1>2, ChosenIn, FS_Subset
  <2>2. SumOver(f, T) = f[Chosen(T)] + SumOver(f, T \ {Chosen(T)})
    BY <1>2, <2>1, SumStep
  <2> QED
    BY <1>2, <2>1, <2>2
<1> HIDE DEF P
<1>3. S \in P
  BY <1>1, <1>2, SubsetInduction
<1> QED
  BY <1>3 DEF P

=============================================================================
