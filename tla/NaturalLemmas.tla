---------------------------- MODULE NaturalLemmas ----------------------------
(***************************************************************************)
(* What the proofs about loops need of natural numbers, stated with sets   *)
(* and functions instead of predicates: induction, the existence of the    *)
(* function that a recursive definition stands for, and the number of      *)
(* elements of a set that lie in front of one of them.                     *)
(***************************************************************************)
EXTENDS Naturals, FiniteSets, FiniteSetTheorems, WellFoundedInduction, TLAPS

\* Every set of natural numbers has a least element.
LEMMA LeastElement ==
    ASSUME NEW T, T \subseteq Nat, T # {}
    PROVE  \E m \in T : \A n \in T : m <= n
<1>. DEFINE R == {ss \in Nat \X Nat : ss[1] < ss[2]}
<1>1. IsWellFoundedOn(R, Nat)
  BY NatLessThanWellFounded, Zenon DEF OpToRel
<1>2. \E x \in T : \A y \in T : ~ (<<y, x>> \in R)
  <2>. HIDE DEF R
  <2>. QED BY <1>1, WFMin
<1>3. PICK x \in T : \A y \in T : ~ (<<y, x>> \in R)
  BY <1>2
<1>4. ASSUME NEW y \in T PROVE x <= y
  <2>1. x \in Nat /\ y \in Nat
    OBVIOUS
  <2>2. y < x => <<y, x>> \in R
    BY <2>1
  <2>3. ~ (<<y, x>> \in R)
    BY <1>3
  <2>. QED BY <2>1, <2>2, <2>3
<1>. QED BY <1>4

\* A set of natural numbers with 0 and with every successor is all of them.
LEMMA SetInduction ==
    ASSUME NEW T, T \subseteq Nat, 0 \in T, \A n \in T : n + 1 \in T
    PROVE  T = Nat
<1>. SUFFICES ASSUME Nat \ T # {} PROVE FALSE
  OBVIOUS
<1>1. PICK m \in Nat \ T : \A n \in Nat \ T : m <= n
  BY LeastElement
<1>2. m # 0
  OBVIOUS
<1>3. m - 1 \in Nat /\ m - 1 \in T
  BY <1>1, <1>2
<1>. QED BY <1>3

-----------------------------------------------------------------------------
\* A recursive definition over S with values in V: it ends in B, where v gives the value;
\* otherwise c makes the value of s from that of R[s], and the measure m goes down.
Descends(S, V, B, v, R, c, m) ==
    /\ v \in [S -> V] /\ R \in [S -> S] /\ c \in [S -> [V -> V]] /\ m \in [S -> Nat]
    /\ \A s \in S \ B : m[R[s]] < m[s]

\* f is a solution of it.
Recursion(f, S, B, v, R, c) ==
    \A s \in S : f[s] = IF s \in B THEN v[s] ELSE c[s][f[R[s]]]

\* f is a solution as far as the measure is below n.
Solves(f, n, S, B, v, R, c, m) ==
    \A s \in S : m[s] < n => f[s] = IF s \in B THEN v[s] ELSE c[s][f[R[s]]]

\* A recursive definition whose recursion goes down has a solution.
LEMMA RecursionExists ==
    ASSUME NEW S, NEW V, NEW B, NEW v, NEW R, NEW c, NEW m, Descends(S, V, B, v, R, c, m)
    PROVE  \E f \in [S -> V] : Recursion(f, S, B, v, R, c)
<1>0. /\ v \in [S -> V] /\ R \in [S -> S] /\ c \in [S -> [V -> V]] /\ m \in [S -> Nat]
      /\ \A s \in S \ B : m[R[s]] < m[s]
  BY DEF Descends
<1>. USE <1>0
<1>. DEFINE T == {n \in Nat : \E f \in [S -> V] : Solves(f, n, S, B, v, R, c, m)}
<1>1. 0 \in T
  BY DEF Solves
<1>2. ASSUME NEW n \in T PROVE n + 1 \in T
  <2>1. PICK f \in [S -> V] : Solves(f, n, S, B, v, R, c, m)
    OBVIOUS
  <2>. DEFINE g == [s \in S |-> IF s \in B THEN v[s] ELSE c[s][f[R[s]]]]
  <2>2. g \in [S -> V]
    OBVIOUS
  <2>3. \A s \in S : m[s] < n => g[s] = f[s]
    BY <2>1 DEF Solves
  <2>4. ASSUME NEW s \in S, m[s] < n + 1
        PROVE  g[s] = IF s \in B THEN v[s] ELSE c[s][g[R[s]]]
    <3>1. s \notin B => R[s] \in S /\ m[R[s]] < n
      BY <2>4
    <3>. QED
      BY <2>3, <3>1
  <2>5. Solves(g, n + 1, S, B, v, R, c, m)
    BY <2>4, Zenon DEF Solves
  <2>. HIDE DEF g
  <2>. QED
    BY <2>2, <2>5
<1>3. T = Nat
  <2>. HIDE DEF T
  <2>. QED
    BY <1>1, <1>2, SetInduction DEF T
<1>4. ASSUME NEW n \in Nat, NEW f \in [S -> V], NEW g \in [S -> V],
             Solves(f, n, S, B, v, R, c, m), Solves(g, n, S, B, v, R, c, m)
      PROVE  \A s \in S : m[s] < n => f[s] = g[s]
  <2>. DEFINE A == {k \in Nat : \A s \in S : m[s] < k /\ m[s] < n => f[s] = g[s]}
  <2>1. 0 \in A
    OBVIOUS
  <2>2. ASSUME NEW k \in A PROVE k + 1 \in A
    <3>. SUFFICES ASSUME NEW s \in S, m[s] < k + 1, m[s] < n PROVE f[s] = g[s]
      OBVIOUS
    <3>1. CASE s \in B
      BY <1>4, <3>1 DEF Solves
    <3>2. CASE s \notin B
      <4>1. R[s] \in S /\ m[R[s]] < k /\ m[R[s]] < n
        BY <3>2
      <4>2. f[R[s]] = g[R[s]]
        BY <4>1
      <4>. QED
        BY <1>4, <3>2, <4>2 DEF Solves
    <3>. QED
      BY <3>1, <3>2
  <2>3. A = Nat
    <3>. HIDE DEF A
    <3>. QED
      BY <2>1, <2>2, SetInduction DEF A
  <2>. QED
    BY <2>3
<1>. DEFINE part(n) == CHOOSE f \in [S -> V] : Solves(f, n, S, B, v, R, c, m)
            h == [s \in S |-> part(m[s] + 1)[s]]
<1>5. \A n \in Nat : part(n) \in [S -> V] /\ Solves(part(n), n, S, B, v, R, c, m)
  BY <1>3, Zenon
<1>. HIDE DEF part
<1>6. h \in [S -> V]
  <2>1. \A s \in S : m[s] + 1 \in Nat
    OBVIOUS
  <2>. QED
    BY <1>5, <2>1
<1>7. ASSUME NEW s \in S PROVE h[s] = IF s \in B THEN v[s] ELSE c[s][h[R[s]]]
  <2>. DEFINE n == m[s] + 1
  <2>1. n \in Nat /\ m[s] < n
    OBVIOUS
  <2>2. /\ h[s] = part(n)[s]
        /\ part(n)[s] = IF s \in B THEN v[s] ELSE c[s][part(n)[R[s]]]
    BY <1>5, <2>1 DEF Solves
  <2>3. CASE s \notin B
    <3>. DEFINE r == R[s]
                k == m[r] + 1
    <3>1. r \in S /\ k \in Nat /\ m[r] < k /\ k < n
      BY <2>3
    <3>2. /\ Solves(part(n), n, S, B, v, R, c, m) /\ part(n) \in [S -> V]
          /\ Solves(part(k), k, S, B, v, R, c, m) /\ part(k) \in [S -> V]
      BY <1>5, <2>1, <3>1
    <3>3. h[r] = part(k)[r]
      BY <3>1
    <3>4. part(n)[r] = part(k)[r]
      <4>. HIDE DEF n, k, r
      <4>1. \A q \in S : m[q] < k => m[q] < n
        BY <2>1, <3>1
      <4>2. Solves(part(n), k, S, B, v, R, c, m)
        BY <3>2, <4>1 DEF Solves
      <4>3. \A q \in S : m[q] < k => part(n)[q] = part(k)[q]
        BY <1>4, <3>1, <3>2, <4>2
      <4>. QED
        BY <3>1, <4>3
    <3>. QED
      BY <2>2, <2>3, <3>3, <3>4
  <2>. QED
    BY <2>2, <2>3
<1>. HIDE DEF h
<1>. QED
  BY <1>6, <1>7 DEF Recursion

-----------------------------------------------------------------------------
\* A set of numbers below n + 1, and the parts of it, are finite.
LEMMA FiniteParts ==
    ASSUME NEW n \in Nat, NEW S \in SUBSET (0 .. n)
    PROVE  /\ IsFiniteSet(S) /\ Cardinality(S) \in Nat
           /\ \A U \in SUBSET S : /\ IsFiniteSet(U) /\ Cardinality(U) \in Nat
                                  /\ Cardinality(U) <= Cardinality(S)
                                  /\ Cardinality(U) = Cardinality(S) => U = S
<1>1. IsFiniteSet(0 .. n)
  BY FS_Interval
<1>2. IsFiniteSet(S) /\ Cardinality(S) \in Nat
  BY <1>1, FS_Subset, FS_CardinalityType
<1>. QED
  BY <1>2, FS_Subset, FS_CardinalityType

\* The number of elements in front of x + 1: x counts if it is an element.
LEMMA CountNext ==
    ASSUME NEW n \in Nat, NEW S \in SUBSET (0 .. n), NEW x \in Nat
    PROVE  /\ Cardinality({y \in S : y < x}) \in Nat
           /\ x \in S => Cardinality({y \in S : y < x + 1}) = Cardinality({y \in S : y < x}) + 1
           /\ x \notin S => {y \in S : y < x + 1} = {y \in S : y < x}
<1>. DEFINE U == {y \in S : y < x}
<1>1. IsFiniteSet(U) /\ Cardinality(U) \in Nat
  BY FiniteParts
<1>2. x \notin U /\ \A y \in S : y \in Nat
  OBVIOUS
<1>3. \A y \in S : y < x + 1 <=> (y < x \/ y = x)
  BY <1>2
<1>4. /\ x \in S => {y \in S : y < x + 1} = U \cup {x}
      /\ x \notin S => {y \in S : y < x + 1} = U
  BY <1>3, Zenon
<1>5. Cardinality(U \cup {x}) = Cardinality(U) + 1
  BY <1>1, <1>2, FS_AddElement
<1>. QED
  BY <1>1, <1>4, <1>5

\* The more elements are in front, the larger the element.
LEMMA CountGrows ==
    ASSUME NEW n \in Nat, NEW S \in SUBSET (0 .. n), NEW x \in S, NEW y \in Nat, x < y
    PROVE  Cardinality({z \in S : z < x}) < Cardinality({z \in S : z < y})
<1>0. \A z \in S : z < x => z < y
  <2>1. \A z \in S : z \in Nat
    OBVIOUS
  <2>. QED
    BY <2>1
<1>1. /\ {z \in S : z < x} \subseteq {z \in S : z < y}
      /\ x \in {z \in S : z < y} /\ x \notin {z \in S : z < x}
  <2>1. ~ (x < x)
    OBVIOUS
  <2>. QED
    BY <1>0, <2>1, Zenon
<1>2. {z \in S : z < y} \in SUBSET (0 .. n)
  OBVIOUS
<1>. QED
  BY <1>1, <1>2, FiniteParts

\* Sets are of one size if a function takes the elements of one to those of the other,
\* each to one of its own and none left out.
LEMMA SameSize ==
    ASSUME NEW S, NEW T, IsFiniteSet(S), NEW f \in [S -> T],
           \A x, y \in S : f[x] = f[y] => x = y,
           \A z \in T : \E x \in S : f[x] = z
    PROVE  IsFiniteSet(T) /\ Cardinality(T) = Cardinality(S)
<1>1. ExistsBijection(S, T)
  BY DEF ExistsBijection, Bijection, Injection, IsInjective, Surjection
<1>. QED
  BY <1>1, FS_Bijection
=============================================================================
