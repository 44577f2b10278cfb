------------------------------ MODULE SumProofs ------------------------------
(***************************************************************************)
(* Facts about numbers that the proofs of several components rest on:      *)
(* least and greatest elements, sequences of states that are computed one  *)
(* from the other, and sums over finite sets, which the models take with   *)
(* a fold.                                                                 *)
(*                                                                         *)
(* Induction is least counterexample: what fails for some number fails for *)
(* a least one.                                                            *)
(***************************************************************************)
EXTENDS Integers, FiniteSets, FiniteSetsExt, FiniteSetTheorems,
        WellFoundedInduction, TLAPS

-----------------------------------------------------------------------------
(* Least and greatest elements                                             *)

LEMMA LeastNumber ==
  ASSUME NEW S, S \subseteq Nat, S # {}
  PROVE  \E m \in S : \A x \in S : m <= x
<1>1. PICK m \in S : \A x \in S : ~ (<<x, m>> \in OpToRel(<, Nat))
  BY NatLessThanWellFounded, WFMin
<1>2. \A x \in S : ~ (x < m)
  BY <1>1 DEF OpToRel
<1>3. QED
  BY <1>2

\* A set of integers with a lower bound has a least element, and Min finds it.
LEMMA MinBounded ==
  ASSUME NEW S, S \subseteq Int, S # {}, NEW low \in Int, \A x \in S : low <= x
  PROVE  Min(S) \in S /\ \A x \in S : Min(S) <= x
<1> DEFINE T == {x - low : x \in S}
<1>1. T \subseteq Nat /\ T # {}
  <2>1. \A x \in S : x - low \in Nat
    OBVIOUS
  <2>2. QED
    BY <2>1
<1>2. PICK m \in T : \A x \in T : m <= x
  BY <1>1, LeastNumber
<1>3. PICK s \in S : m = s - low
  BY <1>2
<1>4. \A x \in S : s <= x
  <2>1. TAKE x \in S
  <2>2. m <= x - low
    BY <1>2
  <2>3. QED
    BY <1>3, <2>2
<1>5. QED
  BY <1>4 DEF Min

\* A set of integers with an upper bound has a greatest element, and Max finds it.
LEMMA MaxBounded ==
  ASSUME NEW S, S \subseteq Int, S # {}, NEW high \in Int, \A x \in S : x <= high
  PROVE  Max(S) \in S /\ \A x \in S : Max(S) >= x
<1> DEFINE T == {high - x : x \in S}
<1>1. T \subseteq Nat /\ T # {}
  <2>1. \A x \in S : high - x \in Nat
    OBVIOUS
  <2>2. QED
    BY <2>1
<1>2. PICK m \in T : \A x \in T : m <= x
  BY <1>1, LeastNumber
<1>3. PICK s \in S : m = high - s
  BY <1>2
<1>4. \A x \in S : s >= x
  <2>1. TAKE x \in S
  <2>2. m <= high - x
    BY <1>2
  <2>3. QED
    BY <1>3, <2>2
<1>5. QED
  BY <1>4 DEF Max

\* A set that holds 0 and with every number the next one holds all numbers.
LEMMA Induction ==
  ASSUME NEW N \in Nat, NEW H, 0 \in H,
         \A n \in 1 .. N : n - 1 \in H => n \in H
  PROVE  \A n \in 0 .. N : n \in H
<1> DEFINE Bad == (0 .. N) \ H
<1>1. SUFFICES ASSUME Bad # {} PROVE FALSE
  OBVIOUS
<1>2. PICK n \in Bad : \A m \in Bad : n <= m
  <2>1. Bad \subseteq Nat
    OBVIOUS
  <2> HIDE DEF Bad
  <2> QED
    BY <1>1, <2>1, LeastNumber
<1>3. n \in 1 .. N
  BY <1>2
<1>4. n - 1 \in H
  <2>1. n - 1 \in 0 .. N /\ ~ (n <= n - 1)
    BY <1>3
  <2> QED
    BY <1>2, <2>1
<1> QED
  BY <1>2, <1>3, <1>4

\* Repeating a step n times: the sequence of the results exists.
Repeats(f, x, step, N) ==
  f = [n \in 0 .. N |-> IF n = 0 THEN x ELSE step[f[n - 1]]]

LEMMA Iterates ==
  ASSUME NEW S, NEW x \in S, NEW step \in [S -> S], NEW N \in Nat
  PROVE  \E f \in [0 .. N -> S] : Repeats(f, x, step, N)
<1> DEFINE Runs(k, f) ==
             f \in [0 .. k -> S] /\ f[0] = x /\ \A n \in 1 .. k : f[n] = step[f[n - 1]]
           Bad == {k \in Nat : ~ \E f : Runs(k, f)}
<1>1. Bad = {}
  <2>1. SUFFICES ASSUME Bad # {} PROVE FALSE
    OBVIOUS
  <2>2. PICK k \in Bad : \A j \in Bad : k <= j
    BY <2>1, LeastNumber
  <2>3. k # 0
    <3>1. Runs(0, [n \in 0 .. 0 |-> x])
      OBVIOUS
    <3> QED
      BY <3>1
  <2>4. k - 1 \in Nat /\ k \in Nat /\ k - 1 \notin Bad
    <3> HIDE DEF Bad
    <3>1. k \in Nat
      BY DEF Bad
    <3> QED
      BY <2>2, <2>3, <3>1
  <2>5. PICK g : Runs(k - 1, g)
    BY <2>4
  <2> DEFINE h == [n \in 0 .. k |-> IF n = k THEN step[g[k - 1]] ELSE g[n]]
  <2>6. \A n \in 0 .. k : n # k => n \in 0 .. k - 1
    BY <2>4
  <2>7. k - 1 \in 0 .. k - 1 /\ g[k - 1] \in S
    BY <2>4, <2>5
  <2>8. h \in [0 .. k -> S]
    BY <2>5, <2>6, <2>7
  <2>9. h[0] = x
    BY <2>3, <2>4, <2>5
  <2>10. ASSUME NEW n \in 1 .. k PROVE h[n] = step[h[n - 1]]
    <3>1. n - 1 \in 0 .. k /\ n - 1 # k /\ n \in 0 .. k
      BY <2>4
    <3>2. h[n - 1] = g[n - 1]
      BY <3>1
    <3>3. CASE n = k
      BY <3>1, <3>2, <3>3
    <3>4. CASE n # k
      <4>1. n \in 1 .. k - 1
        BY <2>4, <3>4
      <4>2. g[n] = step[g[n - 1]]
        BY <2>5, <4>1
      <4>3. h[n] = g[n]
        BY <3>1, <3>4
      <4> QED
        BY <3>2, <4>2, <4>3
    <3> QED
      BY <3>3, <3>4
  <2>11. Runs(k, h)
    <3> HIDE DEF h
    <3> QED
      BY <2>8, <2>9, <2>10
  <2> QED
    BY <2>11
<1>2. PICK f : Runs(N, f)
  BY <1>1
<1>3. \A n \in 0 .. N : n # 0 => n \in 1 .. N
  OBVIOUS
<1>4. f = [n \in 0 .. N |-> IF n = 0 THEN x ELSE step[f[n - 1]]]
  BY <1>2, <1>3
<1> QED
  BY <1>2, <1>4 DEF Repeats
-----------------------------------------------------------------------------
(* Sums over finite sets                                                   *)

\* The element that a sum takes out of a set first.
Picked(s) == CHOOSE x \in s : TRUE

SumOf(f, S) == MapThenSumSet(LAMBDA x : f[x], S)

\* The sums over all subsets of S, as the fold computes them.
SumsOver(g, f, S) ==
  g = [s \in SUBSET S |-> IF s = {} THEN 0 ELSE f[Picked(s)] + g[s \ {Picked(s)}]]

\* Every finite set, if the empty set and every set that follows from those with
\* one element less.
LEMMA SetInduction ==
  ASSUME NEW S, IsFiniteSet(S), NEW H, {} \in H,
         \A s \in SUBSET S : s # {} /\ (\A x \in s : s \ {x} \in H) => s \in H
  PROVE  \A s \in SUBSET S : s \in H
<1> DEFINE Bad == (SUBSET S) \ H
           Sizes == {Cardinality(s) : s \in Bad}
<1>1. SUFFICES ASSUME Bad # {} PROVE FALSE
  OBVIOUS
<1>2. \A s \in SUBSET S : IsFiniteSet(s) /\ Cardinality(s) \in Nat
  BY FS_Subset, FS_CardinalityType
<1>3. Sizes \subseteq Nat /\ Sizes # {}
  BY <1>1, <1>2
<1>4. PICK m \in Sizes : \A k \in Sizes : m <= k
  <2> HIDE DEF Sizes
  <2> QED
    BY <1>3, LeastNumber
<1>5. PICK s \in Bad : m = Cardinality(s)
  BY <1>4
<1>6. s \in SUBSET S /\ s # {} /\ s \notin H
  <2>1. s \in SUBSET S /\ s \notin H
    BY <1>5
  <2> QED
    BY <2>1, Zenon
<1>7. ASSUME NEW x \in s PROVE s \ {x} \in H
  <2>1. Cardinality(s \ {x}) = Cardinality(s) - 1
    BY <1>2, <1>6, FS_RemoveElement
  <2>2. s \ {x} \in SUBSET S
    BY <1>6
  <2>3. CASE s \ {x} \in Bad
    <3>1. m <= Cardinality(s \ {x})
      BY <1>4, <2>3
    <3>2. QED
      BY <1>2, <1>5, <1>6, <2>1, <3>1
  <2> QED
    BY <2>2, <2>3
<1> QED
  BY <1>6, <1>7

\* Finitely many numbers have a bound.
LEMMA FiniteBounded ==
  ASSUME NEW S, IsFiniteSet(S), NEW f, \A x \in S : f[x] \in Int
  PROVE  \E high \in Int : \A x \in S : f[x] <= high
<1> DEFINE H == {s \in SUBSET S : \E high \in Int : \A x \in s : f[x] <= high}
<1>1. {} \in H
  <2>1. 0 \in Int /\ {} \in SUBSET S
    OBVIOUS
  <2> QED
    BY <2>1
<1>2. ASSUME NEW s \in SUBSET S, s # {}, \A x \in s : s \ {x} \in H
      PROVE  s \in H
  <2>1. PICK y \in s : TRUE
    BY <1>2
  <2>2. PICK high \in Int : \A x \in s \ {y} : f[x] <= high
    BY <1>2
  <2>3. f[y] \in Int
    OBVIOUS
  <2>4. PICK top \in Int : high <= top /\ f[y] <= top
    <3>1. high <= f[y] \/ f[y] <= high
      BY <2>3
    <3>2. high <= high /\ f[y] <= f[y]
      BY <2>3
    <3> QED
      BY <2>3, <3>1, <3>2
  <2>5. \A x \in s : f[x] <= top
    <3> TAKE x \in s
    <3>1. CASE x = y
      BY <2>4, <3>1
    <3>2. CASE x # y
      <4>1. f[x] <= high /\ f[x] \in Int
        BY <2>2, <3>2
      <4> QED
        BY <2>4, <4>1
    <3> QED
      BY <3>1, <3>2
  <2> QED
    BY <2>5
<1>3. S \in H
  <2>1. S \in SUBSET S
    OBVIOUS
  <2> HIDE DEF H
  <2> QED
    BY <1>1, <1>2, <2>1, SetInduction
<1> QED
  BY <1>3

LEMMA SumsExist ==
  ASSUME NEW S, IsFiniteSet(S), NEW f, \A x \in S : f[x] \in Int
  PROVE  \E g : SumsOver(g, f, S)
<1> DEFINE Next(g, s) == IF s = {} THEN 0 ELSE f[Picked(s)] + g[s \ {Picked(s)}]
           Sound(g, n) == \A s \in SUBSET S : Cardinality(s) <= n => g[s] = Next(g, s)
           H == {n \in Nat : \E g \in [SUBSET S -> Int] : Sound(g, n)}
<1>0. /\ \A s \in SUBSET S : Cardinality(s) \in Nat
      /\ \A s \in SUBSET S : Cardinality(s) = 0 <=> s = {}
      /\ \A s \in SUBSET S : s # {} => /\ Picked(s) \in s
                                       /\ Cardinality(s \ {Picked(s)}) = Cardinality(s) - 1
  <2>1. \A s \in SUBSET S : IsFiniteSet(s) /\ Cardinality(s) \in Nat
    BY FS_Subset, FS_CardinalityType
  <2>2. \A s \in SUBSET S : Cardinality(s) = 0 <=> s = {}
    BY <2>1, FS_EmptySet
  <2>3. \A s \in SUBSET S : s # {} => Picked(s) \in s
    BY DEF Picked
  <2>4. \A s \in SUBSET S : s # {} => Cardinality(s \ {Picked(s)}) = Cardinality(s) - 1
    BY <2>1, <2>3, FS_RemoveElement
  <2> QED
    BY <2>1, <2>2, <2>3, <2>4
<1>1. 0 \in H
  <2> DEFINE g == [s \in SUBSET S |-> 0]
  <2>1. g \in [SUBSET S -> Int] /\ \A s \in SUBSET S : g[s] = 0
    OBVIOUS
  <2>2. \A s \in SUBSET S : Cardinality(s) <= 0 => s = {}
    BY <1>0
  <2>3. Sound(g, 0)
    <3> HIDE DEF g
    <3> QED
      BY <2>1, <2>2
  <2> QED
    BY <2>1, <2>3
<1>2. ASSUME NEW n \in Nat, n \in H PROVE n + 1 \in H
  <2>1. PICK g \in [SUBSET S -> Int] : Sound(g, n)
    BY <1>2
  <2> DEFINE h == [s \in SUBSET S |-> IF Cardinality(s) = n + 1 THEN Next(g, s) ELSE g[s]]
  <2>2. \A s \in SUBSET S : Next(g, s) \in Int
    <3>1. TAKE s \in SUBSET S
    <3>2. CASE s # {}
      <4>1. f[Picked(s)] \in Int /\ g[s \ {Picked(s)}] \in Int
        BY <1>0, <2>1, <3>2
      <4> QED
        BY <3>2, <4>1
    <3> QED
      BY <3>2
  <2>3. h \in [SUBSET S -> Int]
    <3> HIDE DEF Next
    <3> QED
      BY <2>1, <2>2
  <2>4. \A s \in SUBSET S : h[s] = IF Cardinality(s) = n + 1 THEN Next(g, s) ELSE g[s]
    <3> HIDE DEF Next
    <3> QED
      OBVIOUS
  <2>5. ASSUME NEW s \in SUBSET S, Cardinality(s) <= n + 1
        PROVE  h[s] = Next(h, s)
    <3>1. Next(h, s) = Next(g, s)
      <4>1. CASE s # {}
        <5>1. /\ s \ {Picked(s)} \in SUBSET S
              /\ Cardinality(s \ {Picked(s)}) # n + 1
          BY <1>0, <2>5, <4>1
        <5>2. h[s \ {Picked(s)}] = g[s \ {Picked(s)}]
          BY <2>4, <5>1
        <5> HIDE DEF h
        <5> QED
          BY <4>1, <5>2
      <4> QED
        BY <4>1
    <3>2. CASE Cardinality(s) = n + 1
      <4> HIDE DEF h, Next
      <4> QED
        BY <2>4, <3>1, <3>2
    <3>3. CASE Cardinality(s) # n + 1
      <4>1. Cardinality(s) <= n
        BY <1>0, <2>5, <3>3
      <4> HIDE DEF h, Next
      <4> QED
        BY <2>1, <2>4, <3>1, <3>3, <4>1
    <3> QED
      BY <3>2, <3>3
  <2>6. Sound(h, n + 1)
    <3> HIDE DEF h, Next
    <3> QED
      BY <2>5
  <2> QED
    <3> HIDE DEF h, Sound
    <3> QED
      BY <2>3, <2>6
<1>3. Cardinality(S) \in H
  <2> HIDE DEF H
  <2>1. Cardinality(S) \in Nat
    BY FS_CardinalityType
  <2>2. \A k \in 1 .. Cardinality(S) : k - 1 \in Nat /\ (k - 1) + 1 = k
    BY <2>1
  <2>3. \A k \in 1 .. Cardinality(S) : k - 1 \in H => k \in H
    BY <1>2, <2>2
  <2>4. Cardinality(S) \in 0 .. Cardinality(S)
    BY <2>1
  <2> QED
    BY <1>1, <2>1, <2>3, <2>4, Induction
<1>4. PICK g \in [SUBSET S -> Int] : Sound(g, Cardinality(S))
  BY <1>3
<1>5. \A s \in SUBSET S : Cardinality(s) <= Cardinality(S)
  BY FS_Subset
<1>6. \A s \in SUBSET S : g[s] = Next(g, s)
  <2> HIDE DEF Next
  <2> QED
    BY <1>4, <1>5
<1>7. g = [s \in SUBSET S |-> Next(g, s)]
  <2> HIDE DEF Next
  <2> QED
    BY <1>4, <1>6
<1> QED
  BY <1>7 DEF SumsOver

\* Where all sums over subsets are integers.
LEMMA SumsTyped ==
  ASSUME NEW S, IsFiniteSet(S), NEW f, \A x \in S : f[x] \in Int,
         NEW g, SumsOver(g, f, S)
  PROVE  \A s \in SUBSET S : g[s] \in Int
<1> DEFINE H == {s \in SUBSET S : g[s] \in Int}
<1>1. \A s \in SUBSET S :
        g[s] = IF s = {} THEN 0 ELSE f[Picked(s)] + g[s \ {Picked(s)}]
  BY DEF SumsOver
<1>2. {} \in H
  <2>1. {} \in SUBSET S
    OBVIOUS
  <2>2. g[{}] = 0
    BY <1>1, <2>1, Zenon
  <2> QED
    BY <2>1, <2>2
<1>3. \A s \in SUBSET S : s # {} /\ (\A x \in s : s \ {x} \in H) => s \in H
  <2> SUFFICES ASSUME NEW s \in SUBSET S, s # {}, \A x \in s : s \ {x} \in H
               PROVE  g[s] \in Int
    OBVIOUS
  <2>1. Picked(s) \in s
    BY DEF Picked
  <2>2. f[Picked(s)] \in Int /\ g[s \ {Picked(s)}] \in Int
    BY <2>1
  <2>3. g[s] = f[Picked(s)] + g[s \ {Picked(s)}]
    BY <1>1, Zenon
  <2> QED
    BY <2>2, <2>3
<1>4. \A s \in SUBSET S : s \in H
  <2> HIDE DEF H
  <2> QED
    BY <1>2, <1>3, SetInduction
<1> QED
  BY <1>4

\* The sums over the subsets of a subset are the same.
LEMMA SumsAgree ==
  ASSUME NEW S, IsFiniteSet(S), NEW T, T \subseteq S, NEW f, NEW g, NEW h,
         SumsOver(g, f, S), SumsOver(h, f, T)
  PROVE  g[T] = h[T]
<1> DEFINE H == {s \in SUBSET T : g[s] = h[s]}
<1>0. IsFiniteSet(T) /\ T \in SUBSET T
  BY FS_Subset
<1>1. \A s \in SUBSET S :
        g[s] = IF s = {} THEN 0 ELSE f[Picked(s)] + g[s \ {Picked(s)}]
  BY DEF SumsOver
<1>2. \A s \in SUBSET T :
        h[s] = IF s = {} THEN 0 ELSE f[Picked(s)] + h[s \ {Picked(s)}]
  BY DEF SumsOver
<1>3. {} \in H
  BY <1>1, <1>2
<1>4. \A s \in SUBSET T : s # {} /\ (\A x \in s : s \ {x} \in H) => s \in H
  <2> SUFFICES ASSUME NEW s \in SUBSET T, s # {}, \A x \in s : s \ {x} \in H
               PROVE  g[s] = h[s]
    OBVIOUS
  <2>1. Picked(s) \in s
    BY DEF Picked
  <2>2. g[s \ {Picked(s)}] = h[s \ {Picked(s)}]
    BY <2>1
  <2>3. s \in SUBSET S
    OBVIOUS
  <2> QED
    BY <1>1, <1>2, <2>2, <2>3
<1>5. \A s \in SUBSET T : s \in H
  <2> HIDE DEF H
  <2> QED
    BY <1>0, <1>3, <1>4, SetInduction
<1> QED
  BY <1>0, <1>5

\* What a sum is.
LEMMA SumFolds ==
  ASSUME NEW S, IsFiniteSet(S), NEW f, \A x \in S : f[x] \in Int
  PROVE  \E g : SumsOver(g, f, S) /\ SumOf(f, S) = g[S]
<1> DEFINE g == CHOOSE g : g = [s \in SUBSET S |-> IF s = {} THEN 0
                                  ELSE f[CHOOSE x \in s : TRUE] + g[s \ {CHOOSE x \in s : TRUE}]]
<1>1. PICK h : SumsOver(h, f, S)
  BY SumsExist
<1>2. h = [s \in SUBSET S |-> IF s = {} THEN 0
             ELSE f[CHOOSE x \in s : TRUE] + h[s \ {CHOOSE x \in s : TRUE}]]
  BY <1>1 DEF SumsOver, Picked
<1>3. g = [s \in SUBSET S |-> IF s = {} THEN 0
             ELSE f[CHOOSE x \in s : TRUE] + g[s \ {CHOOSE x \in s : TRUE}]]
  BY <1>2
<1>4. SumOf(f, S) = g[S]
  BY DEF SumOf, MapThenSumSet, MapThenFoldSet, g
<1> HIDE DEF g
<1>5. SumsOver(g, f, S)
  BY <1>3 DEF SumsOver, Picked
<1> QED
  BY <1>4, <1>5

\* A sum takes its elements one by one.
LEMMA SumPicks ==
  ASSUME NEW S, IsFiniteSet(S), NEW f, \A x \in S : f[x] \in Int
  PROVE  /\ SumOf(f, S) \in Int
         /\ S = {} => SumOf(f, S) = 0
         /\ S # {} => SumOf(f, S) = f[Picked(S)] + SumOf(f, S \ {Picked(S)})
<1>1. PICK g : SumsOver(g, f, S) /\ SumOf(f, S) = g[S]
  BY SumFolds
<1>2. S \in SUBSET S /\ \A s \in SUBSET S : g[s] \in Int
  BY <1>1, SumsTyped
<1>3. \A s \in SUBSET S :
        g[s] = IF s = {} THEN 0 ELSE f[Picked(s)] + g[s \ {Picked(s)}]
  BY <1>1 DEF SumsOver
<1>4. ASSUME S # {} PROVE SumOf(f, S \ {Picked(S)}) = g[S \ {Picked(S)}]
  <2> DEFINE T == S \ {Picked(S)}
  <2>1. IsFiniteSet(T) /\ T \subseteq S
    BY FS_RemoveElement
  <2> HIDE DEF T
  <2>2. \A x \in T : f[x] \in Int
    BY <2>1
  <2>3. PICK h : SumsOver(h, f, T) /\ SumOf(f, T) = h[T]
    BY <2>1, <2>2, SumFolds
  <2>4. g[T] = h[T]
    BY <1>1, <2>1, <2>3, SumsAgree
  <2> QED
    BY <2>3, <2>4 DEF T
<1>5. S = {} => SumOf(f, S) = 0
  BY <1>1, <1>2, <1>3
<1>6. S # {} => SumOf(f, S) = f[Picked(S)] + SumOf(f, S \ {Picked(S)})
  BY <1>1, <1>2, <1>3, <1>4
<1> QED
  BY <1>1, <1>2, <1>5, <1>6

\* It does not matter which one is taken out first.
LEMMA SumWithout ==
  ASSUME NEW S, IsFiniteSet(S), NEW f, \A x \in S : f[x] \in Int, NEW x \in S
  PROVE  /\ SumOf(f, S) = f[x] + SumOf(f, S \ {x})
         /\ SumOf(f, S \ {x}) \in Int
<1> DEFINE H == {s \in SUBSET S : \A y \in s : SumOf(f, s) = f[y] + SumOf(f, s \ {y})}
<1>0. \A s \in SUBSET S : /\ IsFiniteSet(s) /\ SumOf(f, s) \in Int
                          /\ \A y \in s : f[y] \in Int
                          /\ s # {} => SumOf(f, s) = f[Picked(s)] + SumOf(f, s \ {Picked(s)})
  <2>1. \A s \in SUBSET S : IsFiniteSet(s) /\ \A y \in s : f[y] \in Int
    BY FS_Subset
  <2> QED
    BY <2>1, SumPicks
<1>1. {} \in H
  OBVIOUS
<1>2. \A s \in SUBSET S : s # {} /\ (\A y \in s : s \ {y} \in H) => s \in H
  <2> SUFFICES ASSUME NEW s \in SUBSET S, s # {}, \A y \in s : s \ {y} \in H, NEW y \in s
               PROVE  SumOf(f, s) = f[y] + SumOf(f, s \ {y})
    OBVIOUS
  <2>1. PICK p \in s : p = Picked(s)
    BY DEF Picked
  <2>2. SumOf(f, s) = f[p] + SumOf(f, s \ {p})
    BY <1>0, <2>1
  <2>3. CASE y # p
    <3>1. SumOf(f, s \ {p}) = f[y] + SumOf(f, (s \ {p}) \ {y})
      BY <2>3
    <3>2. SumOf(f, s \ {y}) = f[p] + SumOf(f, (s \ {y}) \ {p})
      BY <2>3
    <3>3. (s \ {p}) \ {y} = (s \ {y}) \ {p}
      OBVIOUS
    <3>4. /\ SumOf(f, (s \ {p}) \ {y}) \in Int /\ f[y] \in Int /\ f[p] \in Int
      BY <1>0
    <3> QED
      BY <2>2, <3>1, <3>2, <3>3, <3>4
  <2> QED
    BY <2>2, <2>3
<1>3. \A s \in SUBSET S : s \in H
  <2> HIDE DEF H
  <2> QED
    BY <1>1, <1>2, SetInduction
<1>4. S \in SUBSET S /\ S \ {x} \in SUBSET S
  OBVIOUS
<1> QED
  BY <1>0, <1>3, <1>4

\* A sum grows by the element that is added.
LEMMA SumWith ==
  ASSUME NEW S, IsFiniteSet(S), NEW f, NEW x, x \notin S,
         \A y \in S \cup {x} : f[y] \in Int
  PROVE  SumOf(f, S \cup {x}) = SumOf(f, S) + f[x]
<1>1. IsFiniteSet(S \cup {x}) /\ (S \cup {x}) \ {x} = S /\ x \in S \cup {x}
  BY FS_AddElement
<1>2. PICK T : T = S \cup {x}
  OBVIOUS
<1>3. SumOf(f, T) = f[x] + SumOf(f, T \ {x}) /\ SumOf(f, T \ {x}) \in Int /\ f[x] \in Int
  BY <1>1, <1>2, SumWithout
<1>4. T \ {x} = S
  BY <1>1, <1>2, Zenon
<1>5. SumOf(f, T) = f[x] + SumOf(f, S) /\ SumOf(f, S) \in Int /\ f[x] \in Int
  BY <1>3, <1>4, Zenon
<1>6. SumOf(f, T) = SumOf(f, S) + f[x]
  BY <1>5
<1> QED
  BY <1>2, <1>6, Zenon

\* Sums of numbers are numbers, and the larger the set the larger the sum.
LEMMA SumsGrow ==
  ASSUME NEW S, IsFiniteSet(S), NEW f, \A x \in S : f[x] \in Nat
  PROVE  /\ SumOf(f, S) \in Nat
         /\ \A T \in SUBSET S : SumOf(f, T) \in Nat /\ SumOf(f, T) <= SumOf(f, S)
<1> DEFINE H == {s \in SUBSET S : \A T \in SUBSET s : /\ SumOf(f, T) \in Nat
                                                      /\ SumOf(f, T) <= SumOf(f, s)}
<1>0. \A s \in SUBSET S : IsFiniteSet(s) /\ \A y \in s : f[y] \in Nat
  BY FS_Subset
<1>1. {} \in H
  <2>1. SumOf(f, {}) = 0
    BY FS_EmptySet, SumPicks
  <2>2. \A T \in SUBSET {} : T = {}
    OBVIOUS
  <2>3. \A T \in SUBSET {} : SumOf(f, T) = 0
    BY <2>1, <2>2
  <2>4. {} \in SUBSET S
    OBVIOUS
  <2> QED
    BY <2>1, <2>3, <2>4
<1>2. \A s \in SUBSET S : s # {} /\ (\A y \in s : s \ {y} \in H) => s \in H
  <2> SUFFICES ASSUME NEW s \in SUBSET S, s # {}, \A y \in s : s \ {y} \in H,
                      NEW T \in SUBSET s
               PROVE  SumOf(f, T) \in Nat /\ SumOf(f, T) <= SumOf(f, s)
    OBVIOUS
  <2>1. ASSUME NEW y \in s
        PROVE  /\ SumOf(f, s) = f[y] + SumOf(f, s \ {y}) /\ f[y] \in Nat
               /\ SumOf(f, s \ {y}) \in Nat
               /\ \A U \in SUBSET (s \ {y}) : /\ SumOf(f, U) \in Nat
                                              /\ SumOf(f, U) <= SumOf(f, s \ {y})
    <3>1. /\ \A U \in SUBSET (s \ {y}) : SumOf(f, U) \in Nat /\ SumOf(f, U) <= SumOf(f, s \ {y})
          /\ s \ {y} \in SUBSET (s \ {y})
      BY <2>1
    <3>2. SumOf(f, s) = f[y] + SumOf(f, s \ {y}) /\ f[y] \in Nat
      <4>1. IsFiniteSet(s) /\ (\A z \in s : f[z] \in Int) /\ f[y] \in Nat
        BY <1>0
      <4> QED
        BY <4>1, SumWithout
    <3> QED
      BY <3>1, <3>2
  <2>2. CASE T = s
    <3>1. PICK y \in s : TRUE
      OBVIOUS
    <3>2. SumOf(f, s) = f[y] + SumOf(f, s \ {y}) /\ f[y] \in Nat /\ SumOf(f, s \ {y}) \in Nat
      BY <2>1, <3>1, Zenon
    <3>3. SumOf(f, s) \in Nat
      BY <3>2
    <3> QED
      BY <2>2, <3>3
  <2>3. CASE T # s
    <3>1. PICK y \in s : y \notin T
      BY <2>3
    <3>2. T \in SUBSET (s \ {y})
      BY <3>1
    <3>3. SumOf(f, T) \in Nat /\ SumOf(f, T) <= SumOf(f, s \ {y})
      BY <2>1, <3>2
    <3>4. SumOf(f, s) = f[y] + SumOf(f, s \ {y}) /\ f[y] \in Nat /\ SumOf(f, s \ {y}) \in Nat
      BY <2>1, Zenon
    <3> QED
      BY <3>3, <3>4
  <2> QED
    BY <2>2, <2>3
<1>3. \A s \in SUBSET S : s \in H
  <2> HIDE DEF H
  <2> QED
    BY <1>1, <1>2, SetInduction
<1>4. S \in SUBSET S
  OBVIOUS
<1> QED
  BY <1>3, <1>4

\* The greater the parts, the greater the sum.
LEMMA SumsOrdered ==
  ASSUME NEW S, IsFiniteSet(S), NEW f, NEW g,
         \A x \in S : f[x] \in Int /\ g[x] \in Int /\ f[x] <= g[x]
  PROVE  SumOf(f, S) <= SumOf(g, S)
<1> DEFINE H == {s \in SUBSET S : SumOf(f, s) <= SumOf(g, s)}
<1>0. \A s \in SUBSET S : /\ IsFiniteSet(s)
                          /\ \A y \in s : f[y] \in Int /\ g[y] \in Int /\ f[y] <= g[y]
  BY FS_Subset
<1>1. {} \in H
  <2>1. SumOf(f, {}) = 0 /\ SumOf(g, {}) = 0
    BY FS_EmptySet, SumPicks
  <2> QED
    BY <2>1
<1>2. \A s \in SUBSET S : s # {} /\ (\A y \in s : s \ {y} \in H) => s \in H
  <2> SUFFICES ASSUME NEW s \in SUBSET S, s # {}, \A y \in s : s \ {y} \in H
               PROVE  SumOf(f, s) <= SumOf(g, s)
    OBVIOUS
  <2>1. PICK y \in s : TRUE
    OBVIOUS
  <2>2. SumOf(f, s \ {y}) <= SumOf(g, s \ {y})
    BY <2>1
  <2>3. f[y] \in Int /\ g[y] \in Int /\ f[y] <= g[y] /\ IsFiniteSet(s)
    BY <1>0
  <2>4. SumOf(f, s) = f[y] + SumOf(f, s \ {y}) /\ SumOf(f, s \ {y}) \in Int
    BY <1>0, <2>3, SumWithout
  <2>5. SumOf(g, s) = g[y] + SumOf(g, s \ {y}) /\ SumOf(g, s \ {y}) \in Int
    BY <1>0, <2>3, SumWithout
  <2> QED
    BY <2>2, <2>3, <2>4, <2>5
<1>3. \A s \in SUBSET S : s \in H
  <2> HIDE DEF H
  <2> QED
    BY <1>1, <1>2, SetInduction
<1>4. S \in SUBSET S
  OBVIOUS
<1> QED
  BY <1>3, <1>4

\* A sum depends on the parts only.
LEMMA SumsEqual ==
  ASSUME NEW S, IsFiniteSet(S), NEW f, NEW g,
         \A x \in S : f[x] \in Int /\ g[x] = f[x]
  PROVE  SumOf(f, S) = SumOf(g, S)
<1>1. \A x \in S : f[x] \in Int /\ g[x] \in Int /\ f[x] <= g[x] /\ g[x] <= f[x]
  OBVIOUS
<1>2. SumOf(f, S) \in Int /\ SumOf(g, S) \in Int
  BY <1>1, SumPicks
<1>3. SumOf(f, S) <= SumOf(g, S)
  BY <1>1, SumsOrdered
<1>4. SumOf(g, S) <= SumOf(f, S)
  BY <1>1, SumsOrdered
<1> QED
  BY <1>2, <1>3, <1>4

\* The sum over two sets that have nothing in common.
LEMMA SumUnion ==
  ASSUME NEW S, IsFiniteSet(S), NEW f, \A x \in S : f[x] \in Int,
         NEW T, T \subseteq S
  PROVE  SumOf(f, S) = SumOf(f, T) + SumOf(f, S \ T)
<1> DEFINE H == {s \in SUBSET S : SumOf(f, s) = SumOf(f, s \cap T) + SumOf(f, s \ T)}
<1>0. \A s \in SUBSET S : IsFiniteSet(s) /\ SumOf(f, s) \in Int
                          /\ \A y \in s : f[y] \in Int
  <2>1. \A s \in SUBSET S : IsFiniteSet(s) /\ \A y \in s : f[y] \in Int
    BY FS_Subset
  <2> QED
    BY <2>1, SumPicks
<1>1. {} \in H
  <2>1. SumOf(f, {}) = 0
    BY FS_EmptySet, SumPicks
  <2>2. {} \cap T = {} /\ {} \ T = {} /\ {} \in SUBSET S
    OBVIOUS
  <2>3. SumOf(f, {} \cap T) = 0 /\ SumOf(f, {} \ T) = 0
    BY <2>1, <2>2, Zenon
  <2> QED
    BY <2>1, <2>2, <2>3
<1>2. \A s \in SUBSET S : s # {} /\ (\A y \in s : s \ {y} \in H) => s \in H
  <2> SUFFICES ASSUME NEW s \in SUBSET S, s # {}, \A y \in s : s \ {y} \in H
               PROVE  SumOf(f, s) = SumOf(f, s \cap T) + SumOf(f, s \ T)
    OBVIOUS
  <2>1. PICK y \in s : TRUE
    OBVIOUS
  <2>2. PICK A, B, C : A = s \ {y} /\ B = s \cap T /\ C = s \ T
    OBVIOUS
  <2>3. SumOf(f, A) = SumOf(f, A \cap T) + SumOf(f, A \ T)
    BY <2>1, <2>2
  <2>4. f[y] \in Int /\ SumOf(f, A) \in Int /\ SumOf(f, B) \in Int /\ SumOf(f, C) \in Int
        /\ SumOf(f, B \ {y}) \in Int /\ SumOf(f, C \ {y}) \in Int
    <3>1. A \in SUBSET S /\ B \in SUBSET S /\ C \in SUBSET S
          /\ B \ {y} \in SUBSET S /\ C \ {y} \in SUBSET S
      BY <2>2
    <3> QED
      BY <1>0, <3>1
  <2>5. SumOf(f, s) = f[y] + SumOf(f, A)
    <3>1. IsFiniteSet(s) /\ \A z \in s : f[z] \in Int
      BY <1>0
    <3> QED
      BY <2>2, <3>1, SumWithout
  <2>6. CASE y \in T
    <3>1. A \cap T = B \ {y} /\ A \ T = C /\ y \in B
      BY <2>2, <2>6
    <3>2. IsFiniteSet(B) /\ \A z \in B : f[z] \in Int
      BY <1>0, <2>2
    <3>3. SumOf(f, B) = f[y] + SumOf(f, B \ {y})
      BY <3>1, <3>2, SumWithout
    <3>4. SumOf(f, A) = SumOf(f, B \ {y}) + SumOf(f, C)
      BY <2>3, <3>1, Zenon
    <3>5. SumOf(f, s) = SumOf(f, B) + SumOf(f, C)
      BY <2>4, <2>5, <3>3, <3>4
    <3> QED
      BY <2>2, <3>5, Zenon
  <2>7. CASE y \notin T
    <3>1. A \ T = C \ {y} /\ A \cap T = B /\ y \in C
      BY <2>2, <2>7
    <3>2. IsFiniteSet(C) /\ \A z \in C : f[z] \in Int
      BY <1>0, <2>2
    <3>3. SumOf(f, C) = f[y] + SumOf(f, C \ {y})
      BY <3>1, <3>2, SumWithout
    <3>4. SumOf(f, A) = SumOf(f, B) + SumOf(f, C \ {y})
      BY <2>3, <3>1, Zenon
    <3>5. SumOf(f, s) = SumOf(f, B) + SumOf(f, C)
      BY <2>4, <2>5, <3>3, <3>4
    <3> QED
      BY <2>2, <3>5, Zenon
  <2> QED
    BY <2>6, <2>7
<1>3. \A s \in SUBSET S : s \in H
  <2> HIDE DEF H
  <2> QED
    BY <1>1, <1>2, SetInduction
<1>4. S \in SUBSET S /\ S \cap T = T
  OBVIOUS
<1> QED
  BY <1>3, <1>4

\* The sum of nothing.
LEMMA SumOfZeros ==
  ASSUME NEW S, IsFiniteSet(S), NEW f, \A x \in S : f[x] = 0
  PROVE  SumOf(f, S) = 0
<1> DEFINE H == {s \in SUBSET S : SumOf(f, s) = 0}
<1>1. {} \in H
  BY FS_EmptySet, SumPicks
<1>2. \A s \in SUBSET S : s # {} /\ (\A y \in s : s \ {y} \in H) => s \in H
  <2> SUFFICES ASSUME NEW s \in SUBSET S, s # {}, \A y \in s : s \ {y} \in H
               PROVE  SumOf(f, s) = 0
    OBVIOUS
  <2>1. PICK y \in s : TRUE
    OBVIOUS
  <2>2. IsFiniteSet(s) /\ \A x \in s : f[x] \in Int /\ f[x] = 0
    BY FS_Subset
  <2>3. SumOf(f, s) = f[y] + SumOf(f, s \ {y}) /\ f[y] = 0 /\ SumOf(f, s \ {y}) = 0
    BY <2>2, SumWithout
  <2> QED
    BY <2>3
<1>3. \A s \in SUBSET S : s \in H
  <2> HIDE DEF H
  <2> QED
    BY <1>1, <1>2, SetInduction
<1>4. S \in SUBSET S
  OBVIOUS
<1> QED
  BY <1>3, <1>4

\* The sum of two sums, part by part.
LEMMA SumOfSums ==
  ASSUME NEW S, IsFiniteSet(S), NEW f, NEW g, NEW h,
         \A x \in S : f[x] \in Int /\ g[x] \in Int /\ h[x] = f[x] + g[x]
  PROVE  SumOf(h, S) = SumOf(f, S) + SumOf(g, S)
<1> DEFINE H == {s \in SUBSET S : SumOf(h, s) = SumOf(f, s) + SumOf(g, s)}
<1>0. \A s \in SUBSET S :
        /\ IsFiniteSet(s)
        /\ \A y \in s : f[y] \in Int /\ g[y] \in Int /\ h[y] \in Int /\ h[y] = f[y] + g[y]
  BY FS_Subset
<1>1. {} \in H
  <2>1. SumOf(f, {}) = 0 /\ SumOf(g, {}) = 0 /\ SumOf(h, {}) = 0
    BY FS_EmptySet, SumPicks
  <2> QED
    BY <2>1
<1>2. \A s \in SUBSET S : s # {} /\ (\A y \in s : s \ {y} \in H) => s \in H
  <2> SUFFICES ASSUME NEW s \in SUBSET S, s # {}, \A y \in s : s \ {y} \in H
               PROVE  SumOf(h, s) = SumOf(f, s) + SumOf(g, s)
    OBVIOUS
  <2>1. PICK y \in s : TRUE
    OBVIOUS
  <2>2. SumOf(h, s \ {y}) = SumOf(f, s \ {y}) + SumOf(g, s \ {y})
    BY <2>1
  <2>3. f[y] \in Int /\ g[y] \in Int /\ h[y] = f[y] + g[y] /\ IsFiniteSet(s)
    BY <1>0
  <2>4. SumOf(f, s) = f[y] + SumOf(f, s \ {y}) /\ SumOf(f, s \ {y}) \in Int
    BY <1>0, <2>3, SumWithout
  <2>5. SumOf(g, s) = g[y] + SumOf(g, s \ {y}) /\ SumOf(g, s \ {y}) \in Int
    BY <1>0, <2>3, SumWithout
  <2>6. SumOf(h, s) = h[y] + SumOf(h, s \ {y})
    BY <1>0, <2>3, SumWithout
  <2> QED
    BY <2>2, <2>3, <2>4, <2>5, <2>6
<1>3. \A s \in SUBSET S : s \in H
  <2> HIDE DEF H
  <2> QED
    BY <1>1, <1>2, SetInduction
<1>4. S \in SUBSET S
  OBVIOUS
<1> QED
  BY <1>3, <1>4

\* The part of a set that is named v, and the parts with a name in W.
PartOf(E, part, v) == {e \in E : part[e] = v}
PartsOf(E, part, W) == {e \in E : part[e] \in W}

\* A sum over a set in parts, each with a name in W.
LEMMA SumByParts ==
  ASSUME NEW E, IsFiniteSet(E), NEW f, \A e \in E : f[e] \in Nat,
         NEW part, NEW W, IsFiniteSet(W),
         NEW g, \A v \in W : g[v] = SumOf(f, PartOf(E, part, v))
  PROVE  SumOf(g, W) = SumOf(f, PartsOf(E, part, W))
<1> USE DEF PartOf, PartsOf
<1> DEFINE Over(s) == {e \in E : part[e] \in s}
           H == {s \in SUBSET W : SumOf(g, s) = SumOf(f, Over(s))}
<1>0. /\ \A s : IsFiniteSet(Over(s)) /\ SumOf(f, Over(s)) \in Nat
                /\ \A e \in Over(s) : f[e] \in Int
      /\ \A v : SumOf(f, {e \in E : part[e] = v}) \in Nat
      /\ \A s \in SUBSET W : IsFiniteSet(s)
  <2>1. \A s : Over(s) \in SUBSET E
    OBVIOUS
  <2>2. \A v : {e \in E : part[e] = v} \in SUBSET E
    OBVIOUS
  <2>3. \A T \in SUBSET E : IsFiniteSet(T) /\ SumOf(f, T) \in Nat
    BY FS_Subset, SumsGrow
  <2>4. \A s : \A e \in Over(s) : f[e] \in Int
    OBVIOUS
  <2>5. \A s \in SUBSET W : IsFiniteSet(s)
    BY FS_Subset
  <2> HIDE DEF Over
  <2> QED
    BY <2>1, <2>2, <2>3, <2>4, <2>5
<1>1. {} \in H
  <2>1. Over({}) = {}
    OBVIOUS
  <2>2. SumOf(g, {}) = 0 /\ SumOf(f, {}) = 0
    BY FS_EmptySet, SumPicks
  <2>3. SumOf(g, {}) = SumOf(f, Over({}))
    BY <2>1, <2>2, Zenon
  <2> QED
    BY <2>3
<1>2. \A s \in SUBSET W : s # {} /\ (\A y \in s : s \ {y} \in H) => s \in H
  <2> SUFFICES ASSUME NEW s \in SUBSET W, s # {}, \A y \in s : s \ {y} \in H
               PROVE  SumOf(g, s) = SumOf(f, Over(s))
    OBVIOUS
  <2>1. PICK y \in s : TRUE
    OBVIOUS
  <2>2. PICK A : A = s \ {y}
    OBVIOUS
  <2>3. SumOf(g, A) = SumOf(f, Over(A))
    BY <2>1, <2>2
  <2>4. PICK B : B = {e \in E : part[e] = y}
    OBVIOUS
  <2>5. g[y] = SumOf(f, B) /\ \A v \in s : g[v] \in Int
    <3>1. y \in W /\ s \subseteq W
      BY <2>1
    <3>2. \A v \in W : g[v] \in Nat
      <4> TAKE v \in W
      <4>1. g[v] = SumOf(f, {e \in E : part[e] = v})
        OBVIOUS
      <4>2. SumOf(f, {e \in E : part[e] = v}) \in Nat
        BY <1>0
      <4> QED
        BY <4>1, <4>2, Zenon
    <3> QED
      BY <2>4, <3>1, <3>2
  <2>6. SumOf(g, s) = g[y] + SumOf(g, A)
    <3>1. IsFiniteSet(s)
      BY <1>0
    <3> HIDE DEF H
    <3> QED
      BY <2>1, <2>2, <2>5, <3>1, SumWithout
  <2>7. Over(A) \subseteq Over(s) /\ Over(s) \ Over(A) = B
    BY <2>1, <2>2, <2>4
  <2>8. PICK C, D : C = Over(s) /\ D = Over(A)
    OBVIOUS
  <2>9. /\ IsFiniteSet(C) /\ \A e \in C : f[e] \in Int
        /\ SumOf(f, D) \in Nat /\ SumOf(f, B) \in Nat
    BY <1>0, <2>4, <2>8
  <2>10. D \subseteq C /\ C \ D = B
    BY <2>7, <2>8, Zenon
  <2>11. SumOf(f, C) = SumOf(f, D) + SumOf(f, C \ D)
    BY <2>9, <2>10, SumUnion
  <2>12. SumOf(f, C) = SumOf(f, D) + SumOf(f, B)
    BY <2>10, <2>11, Zenon
  <2>13. SumOf(g, A) = SumOf(f, D)
    BY <2>3, <2>8, Zenon
  <2>14. SumOf(g, s) = SumOf(f, C)
    BY <2>5, <2>6, <2>9, <2>12, <2>13
  <2> QED
    BY <2>8, <2>14, Zenon
<1>3. W \in H
  <2> HIDE DEF H
  <2>1. \A s \in SUBSET W : s \in H
    BY <1>1, <1>2, SetInduction
  <2> QED
    BY <2>1
<1> QED
  BY <1>3

\* The sum over a set that is in another but for elements that count nothing.
LEMMA SumButZeros ==
  ASSUME NEW S, IsFiniteSet(S), NEW f, \A x \in S : f[x] \in Nat,
         NEW A, A \subseteq S, NEW B, B \subseteq S, \A x \in A \ B : f[x] = 0
  PROVE  SumOf(f, A) <= SumOf(f, B)
<1>1. /\ IsFiniteSet(A) /\ IsFiniteSet(B) /\ \A x \in A : f[x] \in Int
      /\ \A x \in B : f[x] \in Nat
  BY FS_Subset
<1>2. PICK C, D : C = A \cap B /\ D = A \ C
  OBVIOUS
<1>3. C \subseteq A /\ C \in SUBSET B /\ D \subseteq A /\ \A x \in D : f[x] = 0
  BY <1>2
<1>4. SumOf(f, A) = SumOf(f, C) + SumOf(f, A \ C)
  BY <1>1, <1>3, SumUnion
<1>5. IsFiniteSet(D)
  BY <1>1, <1>3, FS_Subset
<1>6. SumOf(f, D) = 0
  BY <1>3, <1>5, SumOfZeros
<1>7. SumOf(f, C) <= SumOf(f, B) /\ SumOf(f, C) \in Nat
  BY <1>1, <1>3, SumsGrow
<1>8. SumOf(f, A) = SumOf(f, C) + SumOf(f, D)
  BY <1>2, <1>4, Zenon
<1> QED
  BY <1>6, <1>7, <1>8

\* A fold that follows the equation of a sum is the sum.
LEMMA FoldIsSum ==
  ASSUME NEW S, IsFiniteSet(S), NEW f, \A x \in S : f[x] \in Int,
         NEW g, SumsOver(g, f, S)
  PROVE  g[S] = SumOf(f, S)
<1>1. PICK h : SumsOver(h, f, S) /\ SumOf(f, S) = h[S]
  BY SumFolds
<1>2. S \subseteq S
  OBVIOUS
<1>3. g[S] = h[S]
  BY <1>1, <1>2, SumsAgree
<1> QED
  BY <1>1, <1>3

=============================================================================
