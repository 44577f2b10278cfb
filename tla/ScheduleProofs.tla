--------------------------- MODULE ScheduleProofs ---------------------------
(***************************************************************************)
(* Facts about schedules that the proofs of several components rest on:    *)
(* the least solution of a lag graph and the number of rounds in which it  *)
(* is found, the usage and its peak, and the earliest and the latest       *)
(* schedule of an instance.                                                *)
(***************************************************************************)
EXTENDS LagSchedules, SumProofs

-----------------------------------------------------------------------------
(* Bounds of what is given for every job                                   *)

\* Values of jobs have a bound: there are finitely many jobs.
LEMMA JobsBounded ==
  ASSUME NEW y \in [Job -> Int]
  PROVE  \E high \in Int : \A v \in Job : y[v] <= high
<1> DEFINE H == {n \in 0 .. JobCount : \E high \in Int : \A v \in 1 .. n : y[v] <= high}
<1>0. JobCount \in Nat /\ \A n \in 0 .. JobCount : \A v \in 1 .. n : v \in Job
  BY JobCountAssumption DEF Job
<1>1. 0 \in H
  <2>1. 0 \in Int /\ \A v \in 1 .. 0 : y[v] <= 0
    OBVIOUS
  <2> QED
    BY <1>0, <2>1
<1>2. ASSUME NEW n \in 1 .. JobCount, n - 1 \in H PROVE n \in H
  <2>1. PICK high \in Int : \A v \in 1 .. n - 1 : y[v] <= high
    BY <1>2
  <2>2. n \in Job /\ n \in 0 .. JobCount /\ y[n] \in Int
    BY <1>0 DEF Job
  <2>3. PICK top \in Int : high <= top /\ y[n] <= top
    <3>1. CASE high <= y[n]
      BY <2>2, <3>1
    <3>2. CASE ~ (high <= y[n])
      BY <2>2, <3>2
    <3> QED
      BY <3>1, <3>2
  <2>4. \A v \in 1 .. n : y[v] <= top
    <3>1. TAKE v \in 1 .. n
    <3>2. CASE v = n
      BY <2>3, <3>2
    <3>3. CASE v # n
      <4>1. v \in 1 .. n - 1 /\ v \in Job
        BY <1>0, <2>2, <3>3
      <4>2. y[v] <= high /\ y[v] \in Int
        BY <2>1, <4>1
      <4> QED
        BY <2>3, <4>2
    <3> QED
      BY <3>2, <3>3
  <2> QED
    BY <2>2, <2>4
<1>3. \A n \in 0 .. JobCount : n \in H
  <2> HIDE DEF H
  <2> QED
    BY <1>0, <1>1, <1>2, Induction
<1>4. JobCount \in H
  <2>1. JobCount \in 0 .. JobCount
    BY <1>0
  <2> HIDE DEF H
  <2> QED
    BY <1>3, <2>1
<1> QED
  BY <1>4 DEF Job

-----------------------------------------------------------------------------
(* Least solutions of a graph                                              *)

\* T starts no job before its base, and after the ends of the jobs before it.
Solves(T, base, d, R) ==
  /\ T \in [Job -> Int]
  /\ \A v \in Job : base[v] <= T[v]
  /\ \A u, v \in Job : <<u, v>> \in R => T[u] + d[u] <= T[v]

IsLeast(L, base, d, R) ==
  /\ Solves(L, base, d, R)
  /\ \A T : Solves(T, base, d, R) => \A v \in Job : L[v] <= T[v]

\* The solutions are closed under minima: if there is one there is a least.
LEMMA LeastExists ==
  ASSUME NEW base \in [Job -> Int], NEW d \in [Job -> Nat], NEW R,
         NEW T, Solves(T, base, d, R)
  PROVE  \E L : IsLeast(L, base, d, R)
<1> DEFINE Values(v) == {y \in Int : \E U : Solves(U, base, d, R) /\ U[v] = y}
           L == [v \in Job |-> Min(Values(v))]
<1>1. ASSUME NEW v \in Job
      PROVE  Min(Values(v)) \in Values(v) /\ \A y \in Values(v) : Min(Values(v)) <= y
  <2>1. Values(v) # {}
    <3>1. T[v] \in Values(v)
      BY DEF Solves
    <3> QED
      BY <3>1
  <2>2. base[v] \in Int /\ \A y \in Values(v) : base[v] <= y
    BY DEF Solves
  <2> HIDE DEF Values
  <2>3. Values(v) \subseteq Int
    BY DEF Values
  <2> QED
    BY <2>1, <2>2, <2>3, MinBounded
<1> HIDE DEF Values
<1>2. ASSUME NEW v \in Job
      PROVE  L[v] \in Int /\ \E U : Solves(U, base, d, R) /\ U[v] = L[v]
  BY <1>1 DEF Values
<1>3. ASSUME NEW U, Solves(U, base, d, R), NEW v \in Job PROVE L[v] <= U[v]
  <2>1. U[v] \in Values(v)
    BY <1>3 DEF Values, Solves
  <2> QED
    BY <1>1, <2>1
<1>4. L \in [Job -> Int]
  BY <1>2
<1> HIDE DEF L
<1>5. ASSUME NEW v \in Job PROVE base[v] <= L[v]
  BY <1>2 DEF Solves
<1>6. ASSUME NEW u \in Job, NEW v \in Job, <<u, v>> \in R PROVE L[u] + d[u] <= L[v]
  <2>1. PICK U : Solves(U, base, d, R) /\ U[v] = L[v]
    BY <1>2
  <2>2. U[u] + d[u] <= U[v] /\ L[u] <= U[u]
    BY <1>3, <1>6, <2>1 DEF Solves
  <2>3. U[u] \in Int /\ U[v] \in Int /\ L[u] \in Int /\ d[u] \in Nat
    BY <1>4, <2>1 DEF Solves
  <2> QED
    BY <2>1, <2>2, <2>3
<1>7. Solves(L, base, d, R)
  BY <1>4, <1>5, <1>6 DEF Solves
<1> QED
  BY <1>3, <1>7 DEF IsLeast

\* As long as some jobs are not where the least solution has them, one of them
\* is held there by a job that is: otherwise all of them could start earlier.
Holds(L, d, u, v) == L[u] + d[u] = L[v]

LEMMA OneIsHeld ==
  ASSUME NEW base \in [Job -> Int], NEW d \in [Job -> Nat], NEW R,
         NEW L, IsLeast(L, base, d, R),
         NEW G, G \subseteq Job, G # {}, \A v \in G : base[v] # L[v]
  PROVE  \E v \in G, u \in Job \ G : <<u, v>> \in R /\ Holds(L, d, u, v)
<1>1. SUFFICES ASSUME \A v \in G, u \in Job \ G :
                        ~ (<<u, v>> \in R /\ L[u] + d[u] = L[v])
               PROVE  FALSE
  BY DEF Holds
<1>2. /\ L \in [Job -> Int] /\ \A v \in Job : base[v] <= L[v]
      /\ \A u, v \in Job : <<u, v>> \in R => L[u] + d[u] <= L[v]
  BY DEF IsLeast, Solves
<1> DEFINE U == [v \in Job |-> IF v \in G THEN L[v] - 1 ELSE L[v]]
<1>3. U \in [Job -> Int] /\ \A v \in Job : base[v] <= U[v]
  BY <1>2
<1>4. ASSUME NEW u \in Job, NEW v \in Job, <<u, v>> \in R PROVE U[u] + d[u] <= U[v]
  <2>1. L[u] + d[u] <= L[v] /\ L[u] \in Int /\ L[v] \in Int /\ d[u] \in Int
    BY <1>2, <1>4
  <2>2. CASE v \in G /\ u \notin G
    BY <1>1, <1>4, <2>1, <2>2
  <2>3. CASE v \in G /\ u \in G
    BY <2>1, <2>3
  <2>4. CASE v \notin G
    BY <2>1, <2>4
  <2> QED
    BY <2>2, <2>3, <2>4
<1>5. Solves(U, base, d, R)
  <2> HIDE DEF U
  <2> QED
    BY <1>3, <1>4 DEF Solves
<1>6. PICK v \in G : TRUE
  OBVIOUS
<1>7. L[v] <= U[v]
  BY <1>5 DEF IsLeast
<1> QED
  BY <1>2, <1>7

\* f[n] has every job where the jobs before it had to be in f[n - 1], or where it
\* was: after as many rounds as there are jobs it is the least solution.  In
\* every round one job more is where it belongs.
Rounds(f, d, R) ==
  /\ f \in [0 .. JobCount -> [Job -> Int]]
  /\ \A n \in 1 .. JobCount : \A v \in Job :
       /\ f[n - 1][v] <= f[n][v]
       /\ \A u \in Job : <<u, v>> \in R => f[n - 1][u] + d[u] <= f[n][v]
       /\ \/ f[n][v] = f[n - 1][v]
          \/ \E u \in Job : <<u, v>> \in R /\ f[n][v] = f[n - 1][u] + d[u]

LEMMA LeastIsReached ==
  ASSUME NEW d \in [Job -> Nat], NEW R, NEW f, Rounds(f, d, R),
         NEW T, Solves(T, f[0], d, R)
  PROVE  IsLeast(f[JobCount], f[0], d, R)
<1> DEFINE base == f[0]
<1>0. JobCount \in Nat /\ \A n \in 1 .. JobCount : n - 1 \in 0 .. JobCount /\ n \in 0 .. JobCount
  BY JobCountAssumption
<1>1. /\ \A n \in 0 .. JobCount : f[n] \in [Job -> Int]
      /\ base \in [Job -> Int]
  BY <1>0 DEF Rounds
<1>2. PICK L : IsLeast(L, base, d, R)
  BY <1>1, LeastExists
<1>3. /\ L \in [Job -> Int] /\ \A v \in Job : base[v] <= L[v]
      /\ \A u, v \in Job : <<u, v>> \in R => L[u] + d[u] <= L[v]
  BY <1>2 DEF IsLeast, Solves
<1> DEFINE Below == {n \in 0 .. JobCount : \A v \in Job : base[v] <= f[n][v] /\ f[n][v] <= L[v]}
<1>4. \A n \in 0 .. JobCount : n \in Below
  <2>1. 0 \in Below
    BY <1>0, <1>1, <1>3
  <2>2. ASSUME NEW n \in 1 .. JobCount, n - 1 \in Below PROVE n \in Below
    <3>1. SUFFICES ASSUME NEW v \in Job PROVE base[v] <= f[n][v] /\ f[n][v] <= L[v]
      BY <1>0
    <3>2. /\ f[n - 1][v] \in Int /\ f[n][v] \in Int /\ base[v] \in Int /\ L[v] \in Int
          /\ base[v] <= f[n - 1][v] /\ f[n - 1][v] <= L[v]
          /\ f[n - 1][v] <= f[n][v]
      BY <1>0, <1>1, <1>3, <2>2 DEF Rounds
    <3>3. CASE f[n][v] = f[n - 1][v]
      <4> HIDE DEF base
      <4> QED
        BY <3>2, <3>3
    <3>4. ASSUME NEW u \in Job, <<u, v>> \in R, f[n][v] = f[n - 1][u] + d[u]
          PROVE  f[n][v] <= L[v]
      <4>1. /\ f[n - 1][u] \in Int /\ L[u] \in Int /\ d[u] \in Nat
            /\ f[n - 1][u] <= L[u] /\ L[u] + d[u] <= L[v]
        BY <1>0, <1>1, <1>3, <2>2, <3>4
      <4> QED
        BY <3>2, <3>4, <4>1
    <3>5. \/ f[n][v] = f[n - 1][v]
          \/ \E u \in Job : <<u, v>> \in R /\ f[n][v] = f[n - 1][u] + d[u]
      BY DEF Rounds
    <3>6. f[n][v] <= L[v]
      <4>1. CASE \E u \in Job : <<u, v>> \in R /\ f[n][v] = f[n - 1][u] + d[u]
        BY <3>4, <4>1, Zenon
      <4> QED
        BY <3>3, <3>5, <4>1, Zenon
    <3> HIDE DEF base
    <3> QED
      BY <3>2, <3>6
  <2> HIDE DEF Below
  <2> QED
    BY <1>0, <2>1, <2>2, Induction
<1> DEFINE Done(n) == {v \in Job : f[n][v] = L[v]}
           Enough == {n \in 0 .. JobCount : Cardinality(Done(n)) >= n}
<1>5. /\ IsFiniteSet(Job) /\ Cardinality(Job) = JobCount
      /\ \A n \in 0 .. JobCount : /\ Done(n) \subseteq Job /\ IsFiniteSet(Done(n))
                                  /\ Cardinality(Done(n)) \in Nat
                                  /\ Cardinality(Done(n)) <= JobCount
                                  /\ Cardinality(Done(n)) = JobCount => Done(n) = Job
  <2>1. IsFiniteSet(Job) /\ Cardinality(Job) = JobCount
    BY JobCountAssumption, FS_Interval DEF Job
  <2>2. ASSUME NEW S, S \subseteq Job
        PROVE  /\ IsFiniteSet(S) /\ Cardinality(S) \in Nat /\ Cardinality(S) <= JobCount
               /\ Cardinality(S) = JobCount => S = Job
    BY <2>1, <2>2, FS_Subset, FS_CardinalityType
  <2>3. \A n \in 0 .. JobCount : Done(n) \subseteq Job
    OBVIOUS
  <2> HIDE DEF Done
  <2> QED
    BY <2>1, <2>2, <2>3
<1>6. ASSUME NEW n \in 1 .. JobCount, n - 1 \in Enough PROVE n \in Enough
  <2>1. Done(n - 1) \subseteq Done(n)
    <3>1. SUFFICES ASSUME NEW v \in Job, f[n - 1][v] = L[v] PROVE f[n][v] = L[v]
      OBVIOUS
    <3>2. f[n - 1][v] <= f[n][v] /\ f[n][v] <= L[v] /\ f[n][v] \in Int /\ L[v] \in Int
      BY <1>0, <1>1, <1>3, <1>4 DEF Rounds
    <3> QED
      BY <3>1, <3>2
  <2>2. CASE Done(n - 1) = Job
    <3>1. Done(n) = Job
      BY <2>1, <2>2
    <3> HIDE DEF Done
    <3> QED
      BY <1>0, <1>5, <3>1
  <2>3. CASE Done(n - 1) # Job
    <3> DEFINE G == Job \ Done(n - 1)
    <3>1. G \subseteq Job /\ G # {}
      BY <2>3
    <3>2. \A v \in G : base[v] # L[v]
      <4>1. TAKE v \in G
      <4>2. /\ base[v] <= f[n - 1][v] /\ f[n - 1][v] <= L[v] /\ f[n - 1][v] # L[v]
            /\ base[v] \in Int /\ f[n - 1][v] \in Int /\ L[v] \in Int
        BY <1>0, <1>1, <1>3, <1>4
      <4> QED
        BY <4>2
    <3>3. PICK v \in G, u \in Job \ G : <<u, v>> \in R /\ L[u] + d[u] = L[v]
      <4> HIDE DEF G, base
      <4>1. \E v \in G, u \in Job \ G : <<u, v>> \in R /\ Holds(L, d, u, v)
        BY <1>1, <1>2, <3>1, <3>2, OneIsHeld
      <4> QED
        BY <4>1 DEF Holds
    <3>4. f[n - 1][u] = L[u]
      BY <3>3
    <3>5. f[n][v] = L[v]
      <4>1. /\ f[n - 1][u] + d[u] <= f[n][v] /\ f[n][v] <= L[v]
            /\ f[n][v] \in Int /\ L[v] \in Int
        BY <1>0, <1>1, <1>3, <1>4, <3>3 DEF Rounds
      <4> QED
        BY <3>3, <3>4, <4>1
    <3>6. v \in Done(n) /\ v \notin Done(n - 1)
      BY <3>3, <3>5
    <3>7. Cardinality(Done(n - 1)) < Cardinality(Done(n))
      <4> HIDE DEF Done
      <4>1. Cardinality(Done(n - 1)) <= Cardinality(Done(n))
             /\ (Cardinality(Done(n - 1)) = Cardinality(Done(n)) => Done(n - 1) = Done(n))
        BY <1>0, <1>5, <2>1, FS_Subset
      <4> QED
        BY <1>0, <1>5, <3>6, <4>1
    <3> HIDE DEF Done
    <3> QED
      BY <1>0, <1>5, <1>6, <3>7
  <2> QED
    BY <2>2, <2>3
<1>7. JobCount \in Enough
  <2>1. 0 \in Enough
    <3> HIDE DEF Done
    <3> QED
      BY <1>0, <1>5
  <2> HIDE DEF Enough
  <2>2. \A n \in 0 .. JobCount : n \in Enough
    BY <1>0, <1>6, <2>1, Induction
  <2> QED
    BY <1>0, <2>2
<1>8. Done(JobCount) = Job
  <2> HIDE DEF Done
  <2> QED
    BY <1>0, <1>5, <1>7
<1>9. f[JobCount] = L
  <2>1. f[JobCount] \in [Job -> Int]
    BY <1>0, <1>1
  <2>2. \A v \in Job : f[JobCount][v] = L[v]
    BY <1>8
  <2> QED
    BY <1>3, <2>1, <2>2
<1> QED
  BY <1>2, <1>9

\* A graph without cycles: every set of jobs has one that none of them precedes
\* and one that none of them follows.
Grounded(R) ==
  \A G \in SUBSET Job : G # {} =>
    /\ \E v \in G : \A u \in G : <<u, v>> \notin R
    /\ \E v \in G : \A u \in G : <<v, u>> \notin R

\* Where every job is held by its base or by a job before it, and no jobs hold
\* each other in a circle, no job is behind a solution.
LEMMA HeldIsLeast ==
  ASSUME NEW base \in [Job -> Int], NEW d \in [Job -> Nat], NEW R,
         \A G \in SUBSET Job : G # {} => \E v \in G : \A u \in G : <<u, v>> \notin R,
         NEW x \in [Job -> Int],
         \A v \in Job : \/ x[v] <= base[v]
                        \/ \E u \in Job : <<u, v>> \in R /\ x[v] <= x[u] + d[u],
         NEW T, Solves(T, base, d, R)
  PROVE  \A v \in Job : x[v] <= T[v]
<1> DEFINE G == {v \in Job : T[v] < x[v]}
<1>1. /\ T \in [Job -> Int] /\ \A v \in Job : base[v] <= T[v]
      /\ \A u, v \in Job : <<u, v>> \in R => T[u] + d[u] <= T[v]
  BY DEF Solves
<1>2. SUFFICES ASSUME G # {} PROVE FALSE
  BY <1>1
<1>3. PICK v \in G : \A u \in G : <<u, v>> \notin R
  BY <1>2
<1>4. v \in Job /\ T[v] < x[v] /\ x[v] \in Int /\ T[v] \in Int /\ base[v] \in Int /\ base[v] <= T[v]
  BY <1>1
<1>5. PICK u \in Job : <<u, v>> \in R /\ x[v] <= x[u] + d[u]
  <2>1. \/ x[v] <= base[v]
        \/ \E u \in Job : <<u, v>> \in R /\ x[v] <= x[u] + d[u]
    BY <1>4, Zenon
  <2>2. ~ (x[v] <= base[v])
    BY <1>4
  <2> QED
    BY <2>1, <2>2
<1>6. T[u] + d[u] <= T[v] /\ T[u] \in Int /\ x[u] \in Int /\ d[u] \in Int
  BY <1>1, <1>4, <1>5
<1>7. u \in G
  BY <1>4, <1>5, <1>6
<1> QED
  BY <1>3, <1>5, <1>7

\* A graph that a schedule respects has no cycle, if the edges between jobs that
\* take no time have none: along all others the time goes on.
LEMMA TimeGoesOn ==
  ASSUME NEW R, Grounded(R), NEW Q, NEW d \in [Job -> Nat], NEW T \in [Job -> Nat],
         \A u, v \in Job : <<u, v>> \in Q => T[u] + d[u] <= T[v],
         \A u, v \in Job : <<u, v>> \in Q /\ d[u] = 0 /\ d[v] = 0 => <<u, v>> \in R
  PROVE  Grounded(Q)
<1>1. SUFFICES ASSUME NEW G \in SUBSET Job, G # {}
               PROVE  /\ \E v \in G : \A u \in G : <<u, v>> \notin Q
                      /\ \E v \in G : \A u \in G : <<v, u>> \notin Q
  BY DEF Grounded
<1>2. \E v \in G : \A u \in G : <<u, v>> \notin Q
  <2> DEFINE Times == {T[v] : v \in G}
  <2>1. PICK m \in Times : \A x \in Times : m <= x
    <3>1. Times \subseteq Nat /\ Times # {}
      BY <1>1
    <3> HIDE DEF Times
    <3> QED
      BY <3>1, LeastNumber
  <2>2. PICK a \in G : T[a] = m
    BY <2>1
  <2>3. \A x \in G : m <= T[x]
    BY <2>1
  <2> DEFINE Z == {v \in G : T[v] = m /\ d[v] = 0}
  <2>4. ASSUME NEW u \in G, NEW v \in G, T[v] = m, <<u, v>> \in Q PROVE u \in Z
    <3>1. /\ T[u] + d[u] <= T[v] /\ m <= T[u]
          /\ T[u] \in Nat /\ d[u] \in Nat /\ T[v] \in Nat
      BY <2>3, <2>4
    <3>2. T[u] = m /\ d[u] = 0
      BY <2>4, <3>1
    <3> QED
      BY <3>2
  <2>5. CASE Z = {}
    BY <2>2, <2>4, <2>5
  <2>6. CASE Z # {}
    <3>1. PICK v \in Z : \A u \in Z : <<u, v>> \notin R
      BY <2>6 DEF Grounded
    <3>2. ASSUME NEW u \in G, <<u, v>> \in Q PROVE FALSE
      <4>1. u \in Z
        BY <2>4, <3>2
      <4> QED
        BY <3>1, <3>2, <4>1
    <3> QED
      BY <3>2
  <2> QED
    BY <2>5, <2>6
<1>3. \E v \in G : \A u \in G : <<v, u>> \notin Q
  <2> DEFINE end == [v \in Job |-> T[v] + d[v]]
             Times == {end[v] : v \in G}
  <2>0. end \in [Job -> Int] /\ \A v \in Job : end[v] = T[v] + d[v]
    OBVIOUS
  <2> HIDE DEF end
  <2>1. PICK m \in Times : \A x \in Times : m >= x
    <3>1. PICK high \in Int : \A v \in Job : end[v] <= high
      BY <2>0, JobsBounded
    <3>2. Times \subseteq Int /\ Times # {} /\ \A x \in Times : x <= high
      BY <1>1, <2>0, <3>1
    <3> HIDE DEF Times
    <3> QED
      BY <3>2, MaxBounded
  <2>2. PICK a \in G : end[a] = m
    BY <2>1
  <2>3. \A x \in G : m >= end[x]
    BY <2>1
  <2> DEFINE Z == {v \in G : end[v] = m /\ d[v] = 0}
  <2>4. ASSUME NEW u \in G, NEW v \in G, end[v] = m, <<v, u>> \in Q PROVE u \in Z
    <3>1. /\ T[v] + d[v] <= T[u] /\ m >= end[u]
          /\ T[u] \in Nat /\ d[u] \in Nat /\ T[v] \in Nat /\ d[v] \in Nat
      BY <2>3, <2>4
    <3>2. end[u] = T[u] + d[u] /\ m = T[v] + d[v]
      BY <2>0, <2>4
    <3>3. end[u] = m /\ d[u] = 0
      BY <3>1, <3>2
    <3> QED
      BY <3>3
  <2>5. CASE Z = {}
    BY <2>2, <2>4, <2>5
  <2>6. CASE Z # {}
    <3>1. PICK v \in Z : \A u \in Z : <<v, u>> \notin R
      BY <2>6 DEF Grounded
    <3>2. ASSUME NEW u \in G, <<v, u>> \in Q PROVE FALSE
      <4>1. u \in Z
        BY <2>4, <3>2
      <4> QED
        BY <3>1, <3>2, <4>1
    <3> QED
      BY <3>2
  <2> QED
    BY <2>5, <2>6
<1> QED
  BY <1>2, <1>3

\* Jobs that are numbered along the edges: a graph without cycles.
Numbered(R) == \E number \in [Job -> Nat] :
  \A u, v \in Job : <<u, v>> \in R => number[u] < number[v]

LEMMA NumberedIsGrounded ==
  ASSUME NEW R, Numbered(R)
  PROVE  Grounded(R)
<1>1. PICK number \in [Job -> Nat] :
        \A u, v \in Job : <<u, v>> \in R => number[u] < number[v]
  BY DEF Numbered
<1>2. Grounded({})
  BY DEF Grounded
<1> DEFINE d == [v \in Job |-> 1]
<1>3. d \in [Job -> Nat] /\ \A v \in Job : d[v] = 1
  OBVIOUS
<1> HIDE DEF d
<1>4. \A u, v \in Job : <<u, v>> \in R => number[u] + d[u] <= number[v]
  <2>1. TAKE u, v \in Job
  <2>2. HAVE <<u, v>> \in R
  <2>3. number[u] < number[v] /\ number[u] \in Nat /\ number[v] \in Nat
    BY <1>1, <2>2
  <2> QED
    BY <1>3, <2>3
<1>5. \A u, v \in Job : <<u, v>> \in R /\ d[u] = 0 /\ d[v] = 0 => <<u, v>> \in {}
  BY <1>3
<1> QED
  BY <1>2, <1>3, <1>4, <1>5, TimeGoesOn

LEMMA GroundedSubset ==
  ASSUME NEW R, Grounded(R), NEW Q, \A u, v \in Job : <<u, v>> \in Q => <<u, v>> \in R
  PROVE  Grounded(Q)
BY DEF Grounded

-----------------------------------------------------------------------------
(* Usage and peaks                                                         *)

\* There are finitely many jobs.
LEMMA JobsFinite == IsFiniteSet(Job)
  BY JobCountAssumption, FS_Interval DEF Job

\* The usage at one time step, as a sum.
LEMMA UsageIsSum ==
  ASSUME NEW i, i.usage \in [Job -> Nat], NEW start, NEW x
  PROVE  /\ UsageAt(i, start, x) =
              SumOf(i.usage, {v \in Job : start[v] <= x /\ x < start[v] + i.duration[v]})
         /\ UsageAt(i, start, x) \in Nat
         /\ UsageAt(i, start, x) <= SumOf(i.usage, Job)
<1> DEFINE Running == {v \in Job : start[v] <= x /\ x < start[v] + i.duration[v]}
<1>1. UsageAt(i, start, x) = SumOf(i.usage, Running)
  BY DEF UsageAt, SumOf
<1>2. Running \in SUBSET Job /\ IsFiniteSet(Job) /\ \A v \in Job : i.usage[v] \in Nat
  BY JobsFinite
<1> HIDE DEF Running
<1>3. SumOf(i.usage, Running) \in Nat /\ SumOf(i.usage, Running) <= SumOf(i.usage, Job)
  BY <1>2, SumsGrow
<1> QED
  BY <1>1, <1>3 DEF Running

\* The peak is the usage at one of the events, and at none it is higher.
LEMMA PeakFacts ==
  ASSUME NEW i, i.usage \in [Job -> Nat], NEW start
  PROVE  /\ Peak(i, start) \in Nat
         /\ \E x \in Events(i, start) : Peak(i, start) = UsageAt(i, start, x)
         /\ \A x \in Events(i, start) : UsageAt(i, start, x) <= Peak(i, start)
<1> DEFINE U == {UsageAt(i, start, x) : x \in Events(i, start)}
<1>1. \A x \in Events(i, start) : /\ UsageAt(i, start, x) \in Nat
                                  /\ UsageAt(i, start, x) <= SumOf(i.usage, Job)
  BY UsageIsSum
<1>2. U # {}
  <2>1. 1 \in Job
    BY JobCountAssumption DEF Job
  <2> QED
    BY <2>1 DEF Events
<1>3. SumOf(i.usage, Job) \in Int
  <2>1. IsFiniteSet(Job) /\ \A v \in Job : i.usage[v] \in Nat
    BY JobsFinite
  <2> QED
    BY <2>1, SumsGrow
<1>4. U \subseteq Int /\ \A y \in U : y <= SumOf(i.usage, Job)
  BY <1>1
<1>5. Max(U) \in U /\ \A y \in U : Max(U) >= y
  <2> HIDE DEF U
  <2> QED
    BY <1>2, <1>3, <1>4, MaxBounded
<1>6. Peak(i, start) = Max(U)
  BY DEF Peak
<1>7. \E x \in Events(i, start) : Peak(i, start) = UsageAt(i, start, x)
  BY <1>5, <1>6
<1>8. Peak(i, start) \in Nat
  BY <1>1, <1>7
<1>9. ASSUME NEW x \in Events(i, start) PROVE UsageAt(i, start, x) <= Peak(i, start)
  <2>1. UsageAt(i, start, x) \in U
    OBVIOUS
  <2>2. Peak(i, start) >= UsageAt(i, start, x)
    BY <1>5, <1>6, <2>1
  <2> QED
    BY <1>1, <1>8, <2>2
<1> QED
  BY <1>7, <1>8, <1>9

\* The greatest of the values of jobs.
LEMMA MaxOfJobs ==
  ASSUME NEW y \in [Job -> Nat]
  PROVE  /\ Max(Range(y)) \in Nat
         /\ \A v \in Job : y[v] \in Nat /\ y[v] <= Max(Range(y))
<1>1. \A u \in Job : y[u] \in Nat
  OBVIOUS
<1>2. y \in [Job -> Int]
  BY <1>1
<1>3. PICK high \in Int : \A u \in Job : y[u] <= high
  BY <1>2, JobsBounded
<1>4. Range(y) = {y[u] : u \in Job}
  BY DEF Range
<1>5. 1 \in Job
  BY JobCountAssumption DEF Job
<1>6. Range(y) \subseteq Int /\ Range(y) # {} /\ \A x \in Range(y) : x <= high
  BY <1>1, <1>3, <1>4, <1>5
<1>7. Max(Range(y)) \in Range(y) /\ \A x \in Range(y) : Max(Range(y)) >= x
  BY <1>3, <1>6, MaxBounded
<1>8. Max(Range(y)) \in Nat
  BY <1>1, <1>4, <1>7
<1> QED
  BY <1>1, <1>4, <1>7, <1>8

\* What runs at a time step.
RunningAt(i, start, x) == {v \in Job : start[v] <= x /\ x < start[v] + i.duration[v]}

-----------------------------------------------------------------------------
(* The earliest starts and the latest finishs                              *)

\* The parts of an instance.
LEMMA InstanceTypes ==
  ASSUME NEW i \in LagInstance
  PROVE  /\ i.release \in [Job -> Nat] /\ i.deadline \in [Job -> Nat]
         /\ i.duration \in [Job -> Nat] /\ i.usage \in [Job -> Nat]
         /\ \A e \in i.lags : e[1] \in Job /\ e[2] \in Job /\ e[3] \in Int
  BY DEF LagInstance, Lag

\* The usage is highest where some job starts, if any job ever runs.
LEMMA PeakAtStart ==
  ASSUME NEW i \in LagInstance, NEW start \in [Job -> Nat]
  PROVE  \/ Peak(i, start) = 0
         \/ \E a \in Job : /\ i.duration[a] > 0
                           /\ Peak(i, start) <= UsageAt(i, start, start[a])
<1> DEFINE Running(x) == {v \in Job : start[v] <= x /\ x < start[v] + i.duration[v]}
<1>0. /\ i.usage \in [Job -> Nat] /\ \A v \in Job : i.usage[v] \in Nat
      /\ \A v \in Job : start[v] \in Nat /\ i.duration[v] \in Nat
  BY InstanceTypes
<1>1. PICK x \in Events(i, start) : Peak(i, start) = UsageAt(i, start, x)
  BY <1>0, PeakFacts
<1>2. x \in Nat /\ x \in Int
  BY <1>0, <1>1 DEF Events
<1>3. /\ UsageAt(i, start, x) = SumOf(i.usage, Running(x))
      /\ \A y : UsageAt(i, start, y) = SumOf(i.usage, Running(y))
  BY <1>0, UsageIsSum
<1>4. CASE Running(x) = {}
  <2>1. SumOf(i.usage, Running(x)) = 0
    BY <1>4, FS_EmptySet, SumPicks
  <2> QED
    BY <1>1, <1>3, <2>1
<1>5. CASE Running(x) # {}
  <2> DEFINE Begun == {start[v] : v \in Running(x)}
  <2>1. Begun \subseteq Int /\ Begun # {} /\ \A y \in Begun : y <= x
    BY <1>0, <1>5
  <2>2. Max(Begun) \in Begun /\ \A y \in Begun : Max(Begun) >= y
    <3> HIDE DEF Begun
    <3> QED
      BY <1>2, <2>1, MaxBounded
  <2>3. PICK a \in Running(x) : \A v \in Running(x) : start[v] <= start[a]
    <3>1. PICK a \in Running(x) : Max(Begun) = start[a]
      BY <2>2
    <3>2. \A v \in Running(x) : Max(Begun) >= start[v]
      BY <2>2
    <3> QED
      BY <1>0, <3>1, <3>2
  <2>4. a \in Job /\ start[a] <= x /\ x < start[a] + i.duration[a]
    BY <2>3
  <2>5. Running(x) \in SUBSET Running(start[a])
    BY <1>0, <1>2, <2>3, <2>4
  <2>6. IsFiniteSet(Running(start[a])) /\ \A v \in Running(start[a]) : i.usage[v] \in Nat
    <3>1. Running(start[a]) \in SUBSET Job
      OBVIOUS
    <3> QED
      BY <1>0, <3>1, JobsFinite, FS_Subset
  <2> HIDE DEF Running
  <2>7. SumOf(i.usage, Running(x)) <= SumOf(i.usage, Running(start[a]))
    BY <2>5, <2>6, SumsGrow
  <2>8. Peak(i, start) <= UsageAt(i, start, start[a])
    BY <1>1, <1>3, <2>7
  <2>9. i.duration[a] > 0
    BY <1>0, <1>2, <2>4
  <2> QED
    BY <2>4, <2>8, <2>9
<1> QED
  BY <1>4, <1>5

\* One of the deadlines is the last: if that were false for the first n jobs and
\* true for fewer, the last of those or that of job n would be one.
LEMMA LastDeadlineType ==
  ASSUME NEW i \in LagInstance
  PROVE  LastDeadline(i) \in Nat
<1> DEFINE d == i.deadline
           HasLast(n) == \E k \in 1 .. n : \A j \in 1 .. n : d[j] <= d[k]
           Bad == {n \in Job : ~ HasLast(n)}
<1>1. \A v \in Job : d[v] \in Nat
  BY InstanceTypes
<1>2. Bad = {}
  <2>1. SUFFICES ASSUME Bad # {} PROVE FALSE
    OBVIOUS
  <2>2. PICK n \in Bad : \A m \in Bad : n <= m
    <3>1. Bad \subseteq Nat
      BY DEF Job
    <3> HIDE DEF Bad
    <3>2. QED
      BY <2>1, <3>1, LeastNumber
  <2>3. n \in 1 .. JobCount /\ ~ HasLast(n) /\ n \in Nat
    BY JobCountAssumption DEF Job
  <2>4. CASE n = 1
    BY <1>1, <2>3, <2>4 DEF Job
  <2>5. CASE n # 1
    <3>1. n - 1 \in Job /\ n - 1 \notin Bad
      <4>1. n - 1 \in Job /\ ~ (n <= n - 1)
        BY <2>3, <2>5, JobCountAssumption DEF Job
      <4> HIDE DEF Bad
      <4>2. QED
        BY <2>2, <4>1
    <3>2. PICK k \in 1 .. n - 1 : \A j \in 1 .. n - 1 : d[j] <= d[k]
      BY <3>1
    <3>3. d[k] \in Nat /\ d[n] \in Nat /\ \A j \in 1 .. n : d[j] \in Nat
      BY <1>1, <2>3, JobCountAssumption DEF Job
    <3>4. \A j \in 1 .. n : j = n \/ j \in 1 .. n - 1
      <4>1. n \in Nat
        BY <2>3
      <4>2. QED
        BY <4>1
    <3>5. CASE d[k] <= d[n]
      BY <2>3, <3>2, <3>3, <3>4, <3>5
    <3>6. CASE d[n] <= d[k]
      BY <2>3, <3>2, <3>3, <3>4, <3>6
    <3>7. QED
      BY <3>3, <3>5, <3>6
  <2>6. QED
    BY <2>4, <2>5
<1>3. PICK k \in Job : \A j \in Job : d[j] <= d[k]
  <2>1. JobCount \in Job /\ Job = 1 .. JobCount
    BY JobCountAssumption DEF Job
  <2>2. HasLast(JobCount)
    BY <1>2, <2>1
  <2>3. QED
    BY <2>1, <2>2
<1>4. Range(d) = {d[v] : v \in Job}
  BY InstanceTypes DEF Range
<1>5. Range(d) \subseteq Int /\ Range(d) # {} /\ \A x \in Range(d) : x <= d[k]
  BY <1>1, <1>3, <1>4
<1>6. Max(Range(d)) \in Range(d)
  <2>1. d[k] \in Int
    BY <1>1
  <2> HIDE DEF d
  <2>2. QED
    BY <1>5, <2>1, MaxBounded
<1>7. QED
  BY <1>1, <1>4, <1>6 DEF LastDeadline

\* If there is a schedule, there is an earliest one: every job at the least start
\* it has in any of them.  Could it start earlier on its own, it would.
LEMMA EarliestExists ==
  ASSUME NEW i \in LagInstance, LagSchedules(i) # {}
  PROVE  \E start \in LagSchedules(i) : Earliest(i, start)
<1> DEFINE Starts(v) == {s[v] : s \in LagSchedules(i)}
           first == [v \in Job |-> Min(Starts(v))]
<1>1. \A s \in LagSchedules(i) : \A v \in Job : s[v] \in Nat /\ s[v] \in 0 .. LastDeadline(i)
  BY DEF LagSchedules
<1>2. \A v \in Job : first[v] \in Starts(v) /\ \A x \in Starts(v) : first[v] <= x
  <2>1. TAKE v \in Job
  <2>2. /\ Starts(v) \subseteq Int /\ Starts(v) # {}
        /\ \A x \in Starts(v) : 0 <= x
    BY <1>1
  <2>3. Min(Starts(v)) \in Starts(v) /\ \A x \in Starts(v) : Min(Starts(v)) <= x
    <3> HIDE DEF Starts
    <3>1. QED
      BY <2>2, MinBounded
  <2>4. QED
    BY <2>3
<1>3. \A v \in Job : \E s \in LagSchedules(i) : s[v] = first[v]
  BY <1>2
<1>4. \A s \in LagSchedules(i) : \A v \in Job : first[v] <= s[v]
  BY <1>2
<1> HIDE DEF first
<1>5. first \in [Job -> 0 .. LastDeadline(i)]
  <2>1. \A v \in Job : first[v] \in 0 .. LastDeadline(i)
    BY <1>1, <1>3
  <2>2. QED
    BY <2>1 DEF first
<1>6. LagFeasible(i, first)
  <2>1. \A v \in Job : /\ i.release[v] <= first[v]
                       /\ first[v] + i.duration[v] <= i.deadline[v]
    BY <1>3 DEF LagSchedules, LagFeasible
  <2>2. \A e \in i.lags : first[e[1]] + e[3] <= first[e[2]]
    <3>1. TAKE e \in i.lags
    <3>2. PICK s \in LagSchedules(i) : s[e[2]] = first[e[2]]
      BY <1>3, InstanceTypes
    <3>3. s[e[1]] + e[3] <= s[e[2]] /\ first[e[1]] <= s[e[1]]
      BY <1>4, InstanceTypes DEF LagSchedules, LagFeasible
    <3>4. e[3] \in Int /\ s[e[1]] \in Nat /\ first[e[1]] \in Nat /\ first[e[2]] \in Nat
      BY <1>1, <1>5, InstanceTypes
    <3>5. QED
      BY <3>2, <3>3, <3>4
  <2>3. QED
    BY <2>1, <2>2 DEF LagFeasible
<1>7. first \in LagSchedules(i)
  BY <1>5, <1>6 DEF LagSchedules
<1>8. \A v \in Job : \/ first[v] = i.release[v]
                     \/ \E e \in i.lags : e[2] = v /\ first[v] = first[e[1]] + e[3]
  <2>1. SUFFICES ASSUME NEW v \in Job, first[v] # i.release[v],
                        \A e \in i.lags : e[2] = v => first[v] # first[e[1]] + e[3]
                 PROVE  FALSE
    OBVIOUS
  <2> DEFINE less == [first EXCEPT ![v] = @ - 1]
  <2>2. /\ \A u \in Job : first[u] \in Nat /\ i.release[u] \in Nat
                          /\ i.duration[u] \in Nat /\ i.deadline[u] \in Nat
        /\ \A u \in Job : less[u] = IF u = v THEN first[u] - 1 ELSE first[u]
        /\ \A e \in i.lags : e[1] \in Job /\ e[2] \in Job /\ e[3] \in Int
    BY <1>5, InstanceTypes
  <2>3. first[v] - 1 \in 0 .. LastDeadline(i) /\ i.release[v] <= first[v] - 1
    <3>1. i.release[v] <= first[v]
      BY <1>6 DEF LagFeasible
    <3>2. i.release[v] <= first[v] - 1
      BY <2>1, <2>2, <3>1
    <3>3. first[v] \in 0 .. LastDeadline(i) /\ first[v] - 1 >= 0
      BY <1>5, <2>2, <3>2
    <3>4. QED
      BY <3>2, <3>3, LastDeadlineType
  <2>4. less \in [Job -> 0 .. LastDeadline(i)]
    BY <1>5, <2>3
  <2> HIDE DEF less
  <2>5. \A u \in Job : /\ i.release[u] <= less[u]
                       /\ less[u] + i.duration[u] <= i.deadline[u]
    BY <1>6, <2>2, <2>3 DEF LagFeasible
  <2>6. \A e \in i.lags : less[e[1]] + e[3] <= less[e[2]]
    <3>1. TAKE e \in i.lags
    <3>2. first[e[1]] + e[3] <= first[e[2]]
      BY <1>6 DEF LagFeasible
    <3>3. CASE e[2] # v
      BY <2>2, <3>2, <3>3
    <3>4. CASE e[2] = v
      BY <2>1, <2>2, <3>2, <3>4
    <3>5. QED
      BY <3>3, <3>4
  <2>7. less \in LagSchedules(i)
    BY <2>4, <2>5, <2>6 DEF LagSchedules, LagFeasible
  <2>8. first[v] <= less[v]
    BY <1>4, <2>7
  <2>9. QED
    BY <2>2, <2>8
<1>9. QED
  BY <1>6, <1>7, <1>8 DEF Earliest, NotTooEarly, LagFeasible

\* Whatever respects the releases and the lags starts no job before its earliest
\* start.
LEMMA EarliestBelow ==
  ASSUME NEW i \in LagInstance, Acyclic(i),
         NEW start \in [Job -> Int], Earliest(i, start),
         NEW s \in [Job -> Int], NotTooEarly(i, s), NEW v \in Job
  PROVE  start[v] <= s[v]
<1> DEFINE Bad == {u \in Job : ~ (start[u] <= s[u])}
<1>1. SUFFICES ASSUME Bad # {} PROVE FALSE
  OBVIOUS
<1>2. PICK number \in [Job -> Job] : \A e \in i.lags : number[e[1]] < number[e[2]]
  BY DEF Acyclic
<1>3. /\ {number[u] : u \in Bad} \subseteq Nat
      /\ {number[u] : u \in Bad} # {}
  <2>1. \A u \in Job : number[u] \in Nat
    BY <1>2 DEF Job
  <2>2. QED
    BY <1>1, <2>1
<1>4. PICK u \in Bad : \A w \in Bad : number[u] <= number[w]
  <2>1. PICK m \in {number[w] : w \in Bad} : \A x \in {number[w] : w \in Bad} : m <= x
    BY <1>3, LeastNumber
  <2>2. QED
    BY <2>1
<1>5. /\ \A w \in Job : s[w] \in Int /\ start[w] \in Int /\ i.release[w] \in Nat
      /\ \A e \in i.lags : e[1] \in Job /\ e[2] \in Job /\ e[3] \in Int
  BY InstanceTypes
<1>6. CASE start[u] = i.release[u]
  <2>1. i.release[u] <= s[u]
    BY DEF NotTooEarly
  <2>2. QED
    BY <1>6, <2>1
<1>7. CASE \E e \in i.lags : e[2] = u /\ start[u] = start[e[1]] + e[3]
  <2>1. PICK e \in i.lags : e[2] = u /\ start[u] = start[e[1]] + e[3]
    BY <1>7
  <2>2. s[e[1]] + e[3] <= s[u]
    BY <2>1 DEF NotTooEarly
  <2>3. ~ (start[e[1]] <= s[e[1]])
    BY <1>5, <2>1, <2>2
  <2>4. e[1] \in Bad
    BY <1>5, <2>3
  <2>5. number[e[1]] < number[u]
    BY <1>2, <2>1
  <2>6. number[e[1]] \in Int /\ number[u] \in Int
    <3>1. number[e[1]] \in Job /\ number[u] \in Job
      BY <1>2, <1>5
    <3>2. \A x \in Job : x \in Int
      BY JobCountAssumption DEF Job
    <3> QED
      BY <3>1, <3>2
  <2>7. QED
    BY <1>4, <2>4, <2>5, <2>6
<1>8. QED
  BY <1>6, <1>7 DEF Earliest

\* Without cycles, no schedule has a job before its earliest start.
LEMMA EarliestIsLeast ==
  ASSUME NEW i \in LagInstance, Acyclic(i),
         NEW start \in [Job -> Int], Earliest(i, start),
         NEW s \in LagSchedules(i), NEW v \in Job
  PROVE  start[v] <= s[v]
<1>1. s \in [Job -> Int] /\ NotTooEarly(i, s)
  BY DEF LagSchedules, LagFeasible, NotTooEarly
<1> QED
  BY <1>1, EarliestBelow

\* Without cycles, the earliest starts are a feasible schedule.
LEMMA EarliestIsFeasible ==
  ASSUME NEW i \in LagInstance, Acyclic(i), LagSchedules(i) # {}
  PROVE  EarliestStarts(i) \in [Job -> Nat] /\ LagFeasible(i, EarliestStarts(i))
<1> DEFINE start == EarliestStarts(i)
<1>1. \E x \in [Job -> 0 .. LastDeadline(i)] : Earliest(i, x)
  BY EarliestExists DEF LagSchedules
<1>2. start \in [Job -> 0 .. LastDeadline(i)] /\ Earliest(i, start)
  BY <1>1 DEF EarliestStarts
<1> HIDE DEF start
<1>3. start \in [Job -> Nat]
  BY <1>2
<1>4. PICK s \in LagSchedules(i) : TRUE
  OBVIOUS
<1>5. \A v \in Job : start[v] + i.duration[v] <= i.deadline[v]
  <2>1. TAKE v \in Job
  <2>2. start[v] <= s[v]
    BY <1>2, <1>3, EarliestIsLeast
  <2>3. s[v] + i.duration[v] <= i.deadline[v] /\ s[v] \in Nat
    BY DEF LagSchedules, LagFeasible
  <2>4. start[v] \in Nat /\ i.duration[v] \in Nat /\ i.deadline[v] \in Nat
    BY <1>3, InstanceTypes
  <2>5. QED
    BY <2>2, <2>3, <2>4
<1>6. QED
  BY <1>2, <1>3, <1>5 DEF Earliest, NotTooEarly, LagFeasible, start

\* No deadline is later than the last.
LEMMA LastDeadlineIsLast ==
  ASSUME NEW i \in LagInstance, NEW v \in Job
  PROVE  i.deadline[v] <= LastDeadline(i)
<1>1. PICK d : d = i.deadline
  OBVIOUS
<1>2. d \in [Job -> Int] /\ \A u \in Job : d[u] \in Nat
  BY <1>1, InstanceTypes
<1>3. PICK high \in Int : \A u \in Job : d[u] <= high
  BY <1>2, JobsBounded
<1>4. Range(d) = {d[u] : u \in Job}
  BY <1>2 DEF Range
<1>5. Range(d) \subseteq Int /\ d[v] \in Range(d) /\ \A x \in Range(d) : x <= high
  BY <1>2, <1>3, <1>4
<1>6. Max(Range(d)) >= d[v] /\ Max(Range(d)) \in Range(d)
  BY <1>5, MaxBounded
<1>7. LastDeadline(i) >= d[v] /\ LastDeadline(i) \in Nat
  BY <1>1, <1>6, LastDeadlineType DEF LastDeadline
<1> QED
  BY <1>1, <1>2, <1>7

\* If there is a schedule, there are latest finishs.
LEMMA LatestExists ==
  ASSUME NEW i \in LagInstance, LagSchedules(i) # {}
  PROVE  \E finish \in [Job -> 0 .. LastDeadline(i)] : Latest(i, finish)
<1> DEFINE Ends(v) == {s[v] + i.duration[v] : s \in LagSchedules(i)}
           last == [v \in Job |-> Max(Ends(v))]
<1>0. /\ \A u \in Job : /\ i.release[u] \in Nat /\ i.duration[u] \in Nat
                        /\ i.deadline[u] \in Nat /\ i.deadline[u] <= LastDeadline(i)
      /\ \A e \in i.lags : e[1] \in Job /\ e[2] \in Job /\ e[3] \in Int
      /\ LastDeadline(i) \in Nat
  BY InstanceTypes, LastDeadlineIsLast, LastDeadlineType
<1>1. \A s \in LagSchedules(i) : \A v \in Job :
        /\ s[v] \in Nat /\ s[v] \in 0 .. LastDeadline(i)
        /\ i.release[v] <= s[v] /\ s[v] + i.duration[v] <= i.deadline[v]
  BY DEF LagSchedules, LagFeasible
<1>2. \A v \in Job : last[v] \in Ends(v) /\ \A x \in Ends(v) : last[v] >= x
  <2>1. TAKE v \in Job
  <2>2. /\ Ends(v) \subseteq Int /\ Ends(v) # {}
        /\ \A x \in Ends(v) : x <= i.deadline[v]
        /\ i.deadline[v] \in Int
    BY <1>0, <1>1
  <2>3. Max(Ends(v)) \in Ends(v) /\ \A x \in Ends(v) : Max(Ends(v)) >= x
    <3> HIDE DEF Ends
    <3>1. QED
      BY <2>2, MaxBounded
  <2>4. QED
    BY <2>3
<1>3. \A v \in Job : \E s \in LagSchedules(i) : s[v] + i.duration[v] = last[v]
  BY <1>2
<1>4. \A s \in LagSchedules(i) : \A v \in Job : s[v] + i.duration[v] <= last[v]
  <2> TAKE s \in LagSchedules(i)
  <2> TAKE v \in Job
  <2>1. last[v] >= s[v] + i.duration[v]
    BY <1>2
  <2>2. PICK t \in LagSchedules(i) : t[v] + i.duration[v] = last[v]
    BY <1>3
  <2> HIDE DEF last
  <2> QED
    BY <1>0, <1>1, <2>1, <2>2
<1>5. last \in [Job -> 0 .. LastDeadline(i)]
  <2>1. \A v \in Job : last[v] \in 0 .. LastDeadline(i)
    <3> TAKE v \in Job
    <3>1. PICK s \in LagSchedules(i) : s[v] + i.duration[v] = last[v]
      BY <1>3
    <3> HIDE DEF last
    <3> QED
      BY <1>0, <1>1, <3>1
  <2>2. QED
    BY <2>1 DEF last
<1> HIDE DEF last
<1>6. \A v \in Job : /\ last[v] \in Nat /\ last[v] <= i.deadline[v]
                     /\ i.release[v] <= last[v] - i.duration[v]
  <2> TAKE v \in Job
  <2>1. PICK s \in LagSchedules(i) : s[v] + i.duration[v] = last[v]
    BY <1>3
  <2> QED
    BY <1>0, <1>1, <2>1
<1>7. \A e \in i.lags : last[e[1]] - i.duration[e[1]] + e[3] <= last[e[2]] - i.duration[e[2]]
  <2> TAKE e \in i.lags
  <2>1. PICK s \in LagSchedules(i) : s[e[1]] + i.duration[e[1]] = last[e[1]]
    BY <1>0, <1>3
  <2>2. s[e[1]] + e[3] <= s[e[2]] /\ s[e[2]] + i.duration[e[2]] <= last[e[2]]
    BY <1>0, <1>4 DEF LagSchedules, LagFeasible
  <2>3. s[e[1]] \in Nat /\ s[e[2]] \in Nat /\ last[e[1]] \in Nat /\ last[e[2]] \in Nat
        /\ i.duration[e[1]] \in Nat /\ i.duration[e[2]] \in Nat /\ e[3] \in Int
    BY <1>0, <1>1, <1>6
  <2> QED
    BY <2>1, <2>2, <2>3
<1>8. \A v \in Job :
        \/ last[v] = i.deadline[v]
        \/ \E e \in i.lags : /\ e[1] = v
                             /\ last[v] - i.duration[v] + e[3] = last[e[2]] - i.duration[e[2]]
  <2>1. SUFFICES ASSUME NEW v \in Job, last[v] # i.deadline[v],
                        \A e \in i.lags :
                          e[1] = v => last[v] - i.duration[v] + e[3] # last[e[2]] - i.duration[e[2]]
                 PROVE  FALSE
    OBVIOUS
  <2> DEFINE more == [u \in Job |-> IF u = v THEN last[u] - i.duration[u] + 1
                                    ELSE last[u] - i.duration[u]]
  <2>2. \A u \in Job : more[u] = IF u = v THEN last[u] - i.duration[u] + 1
                                 ELSE last[u] - i.duration[u]
    OBVIOUS
  <2>3. more \in [Job -> 0 .. LastDeadline(i)]
    <3>1. \A u \in Job : more[u] \in 0 .. LastDeadline(i)
      <4> TAKE u \in Job
      <4>1. last[u] # i.deadline[u] \/ u # v
        BY <2>1
      <4> HIDE DEF more
      <4> QED
        BY <1>0, <1>6, <2>2, <4>1
    <3> QED
      BY <3>1
  <2> HIDE DEF more
  <2>4. \A u \in Job : /\ i.release[u] <= more[u]
                       /\ more[u] + i.duration[u] <= i.deadline[u]
    <3> TAKE u \in Job
    <3>1. last[u] # i.deadline[u] \/ u # v
      BY <2>1
    <3> QED
      BY <1>0, <1>6, <2>2, <3>1
  <2>5. \A e \in i.lags : more[e[1]] + e[3] <= more[e[2]]
    <3> TAKE e \in i.lags
    <3>1. last[e[1]] - i.duration[e[1]] + e[3] <= last[e[2]] - i.duration[e[2]]
      BY <1>7
    <3>2. last[e[1]] \in Nat /\ last[e[2]] \in Nat /\ e[3] \in Int
          /\ i.duration[e[1]] \in Nat /\ i.duration[e[2]] \in Nat
      BY <1>0, <1>6
    <3>3. more[e[1]] = IF e[1] = v THEN last[e[1]] - i.duration[e[1]] + 1
                       ELSE last[e[1]] - i.duration[e[1]]
      BY <1>0, <2>2
    <3>4. more[e[2]] = IF e[2] = v THEN last[e[2]] - i.duration[e[2]] + 1
                       ELSE last[e[2]] - i.duration[e[2]]
      BY <1>0, <2>2
    <3>5. CASE e[1] # v
      BY <3>1, <3>2, <3>3, <3>4, <3>5
    <3>6. CASE e[1] = v
      <4>1. last[e[1]] - i.duration[e[1]] + e[3] # last[e[2]] - i.duration[e[2]]
        BY <2>1, <3>6
      <4> QED
        BY <3>1, <3>2, <3>3, <3>4, <4>1
    <3> QED
      BY <3>5, <3>6
  <2>6. more \in LagSchedules(i)
    BY <2>3, <2>4, <2>5 DEF LagSchedules, LagFeasible
  <2>7. more[v] + i.duration[v] <= last[v]
    BY <1>4, <2>6
  <2>8. QED
    BY <1>0, <1>6, <2>2, <2>7
<1>9. Latest(i, last)
  BY <1>6, <1>7, <1>8 DEF Latest, NotTooLate
<1> QED
  BY <1>5, <1>9

\* Likewise for the deadlines: no job ends after its latest finish.
LEMMA LatestAbove ==
  ASSUME NEW i \in LagInstance, Acyclic(i),
         NEW finish \in [Job -> Int], Latest(i, finish),
         NEW f \in [Job -> Int], NotTooLate(i, f), NEW v \in Job
  PROVE  f[v] <= finish[v]
<1> DEFINE Bad == {u \in Job : ~ (f[u] <= finish[u])}
<1>1. SUFFICES ASSUME Bad # {} PROVE FALSE
  OBVIOUS
<1>2. PICK number \in [Job -> Job] : \A e \in i.lags : number[e[1]] < number[e[2]]
  BY DEF Acyclic
<1> DEFINE Left == {JobCount - number[u] : u \in Bad}
<1>3. Left \subseteq Nat /\ Left # {} /\ \A u \in Job : number[u] \in Nat
  <2>1. \A u \in Job : JobCount - number[u] \in Nat /\ number[u] \in Nat
    <3>1. \A x \in Job : JobCount - x \in Nat /\ x \in Nat
      BY JobCountAssumption DEF Job
    <3>2. \A u \in Job : number[u] \in Job
      BY <1>2
    <3> QED
      BY <3>1, <3>2
  <2>2. QED
    BY <1>1, <2>1
<1>4. PICK u \in Bad : \A w \in Bad : number[w] <= number[u]
  <2>1. PICK m \in Left : \A x \in Left : m <= x
    <3> HIDE DEF Left
    <3> QED
      BY <1>3, LeastNumber
  <2>2. PICK u \in Bad : m = JobCount - number[u]
    BY <2>1
  <2>3. \A w \in Bad : JobCount - number[u] <= JobCount - number[w]
    BY <2>1, <2>2
  <2>4. \A w \in Bad : number[w] <= number[u]
    BY <1>3, <2>2, <2>3, JobCountAssumption
  <2> QED
    BY <2>4
<1>5. /\ \A w \in Job : f[w] \in Int /\ finish[w] \in Int /\ i.deadline[w] \in Nat
                        /\ i.duration[w] \in Nat
      /\ \A e \in i.lags : e[1] \in Job /\ e[2] \in Job /\ e[3] \in Int
  BY InstanceTypes
<1>6. CASE finish[u] = i.deadline[u]
  <2>1. f[u] <= i.deadline[u]
    BY DEF NotTooLate
  <2>2. QED
    BY <1>6, <2>1
<1>7. CASE \E e \in i.lags :
             e[1] = u /\ finish[u] - i.duration[u] + e[3] = finish[e[2]] - i.duration[e[2]]
  <2>1. PICK e \in i.lags :
          e[1] = u /\ finish[u] - i.duration[u] + e[3] = finish[e[2]] - i.duration[e[2]]
    BY <1>7
  <2>2. f[u] - i.duration[u] + e[3] <= f[e[2]] - i.duration[e[2]]
    BY <2>1 DEF NotTooLate
  <2>3. ~ (f[e[2]] <= finish[e[2]])
    BY <1>5, <2>1, <2>2
  <2>4. e[2] \in Bad
    BY <1>5, <2>3
  <2>5. number[u] < number[e[2]]
    BY <1>2, <2>1
  <2>6. number[e[2]] \in Int /\ number[u] \in Int
    BY <1>3, <1>5
  <2>7. QED
    BY <1>4, <2>4, <2>5, <2>6
<1>8. QED
  BY <1>6, <1>7 DEF Latest

\* Without cycles, no schedule has a job end after its latest finish.
LEMMA LatestIsGreatest ==
  ASSUME NEW i \in LagInstance, Acyclic(i),
         NEW finish \in [Job -> Int], Latest(i, finish),
         NEW s \in LagSchedules(i), NEW v \in Job
  PROVE  s[v] + i.duration[v] <= finish[v]
<1> DEFINE f == [u \in Job |-> s[u] + i.duration[u]]
<1>1. /\ \A u \in Job : s[u] \in Int /\ i.duration[u] \in Nat
      /\ \A e \in i.lags : e[1] \in Job /\ e[2] \in Job /\ e[3] \in Int
  BY InstanceTypes DEF LagSchedules
<1>2. f \in [Job -> Int] /\ \A u \in Job : f[u] = s[u] + i.duration[u]
  BY <1>1
<1> HIDE DEF f
<1>3. NotTooLate(i, f)
  <2>1. \A u \in Job : f[u] <= i.deadline[u]
    BY <1>2 DEF LagSchedules, LagFeasible
  <2>2. ASSUME NEW e \in i.lags
        PROVE  f[e[1]] - i.duration[e[1]] + e[3] <= f[e[2]] - i.duration[e[2]]
    <3>1. s[e[1]] + e[3] <= s[e[2]]
      BY DEF LagSchedules, LagFeasible
    <3>2. /\ f[e[1]] = s[e[1]] + i.duration[e[1]] /\ f[e[2]] = s[e[2]] + i.duration[e[2]]
          /\ s[e[1]] \in Int /\ s[e[2]] \in Int /\ e[3] \in Int
          /\ i.duration[e[1]] \in Nat /\ i.duration[e[2]] \in Nat
      BY <1>1, <1>2
    <3> QED
      BY <3>1, <3>2
  <2> QED
    BY <2>1, <2>2 DEF NotTooLate
<1> QED
  BY <1>2, <1>3, LatestAbove

\* Every schedule lies between the earliest starts and the latest finishs.
LEMMA BetweenEarliestAndLatest ==
  ASSUME NEW i \in LagInstance, Acyclic(i), NEW s \in LagSchedules(i), NEW v \in Job
  PROVE  /\ EarliestStarts(i)[v] \in Nat /\ LatestFinishs(i)[v] \in Nat
         /\ EarliestStarts(i)[v] <= s[v]
         /\ s[v] + i.duration[v] <= LatestFinishs(i)[v]
<1>1. \E x \in [Job -> 0 .. LastDeadline(i)] : Earliest(i, x)
  BY EarliestExists DEF LagSchedules
<1>2. PICK start \in [Job -> 0 .. LastDeadline(i)] :
        start = EarliestStarts(i) /\ Earliest(i, start)
  BY <1>1 DEF EarliestStarts
<1>3. PICK finish \in [Job -> 0 .. LastDeadline(i)] :
        finish = LatestFinishs(i) /\ Latest(i, finish)
  BY LatestExists DEF LatestFinishs
<1>4. start \in [Job -> Int] /\ finish \in [Job -> Int]
      /\ start[v] \in Nat /\ finish[v] \in Nat
  BY <1>2, <1>3
<1>5. start[v] <= s[v] /\ s[v] + i.duration[v] <= finish[v]
  BY <1>2, <1>3, <1>4, EarliestIsLeast, LatestIsGreatest
<1> QED
  BY <1>2, <1>3, <1>4, <1>5

=============================================================================
