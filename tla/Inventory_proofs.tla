-------------------------- MODULE Inventory_proofs --------------------------
(***************************************************************************)
(* The inventory objects are those of the table, for any tables, any       *)
(* limits and any coming and going of other services' objects.             *)
(*                                                                         *)
(* The first part is about the walks over a table: what each of them finds *)
(* is said with the set of the structures that a walk can reach.           *)
(***************************************************************************)
EXTENDS Inventory, NaturalLemmas

\* A walk for structures of a type comes past this structure.
Passes(t, typeId, r) ==
    IF t[r].type = typeId THEN t[r].strings < mdrSMBIOSSize ELSE CanSkip(t[r])

\* A walk can be at position p.
Reaches(t, typeId, p) ==
    p \in 1 .. (Len(t) + 1) /\ \A r \in 1 .. (p - 1) : Passes(t, typeId, r)

\* The structures of the type that a walk finds.
Visible(t, typeId) == {q \in OfType(t, typeId) : Reaches(t, typeId, q)}

\* q is the first element of S from p on, or null if there is none.
FirstFrom(S, p, q) ==
    \/ q = nullptr /\ \A v \in S : v < p
    \/ q \in S /\ q >= p /\ \A v \in S : v >= p => v >= q

\* The number of elements of S in front of p.
Before(S, p) == Cardinality({v \in S : v < p})
-----------------------------------------------------------------------------
\* What is in a table.
LEMMA VisibleFacts ==
    ASSUME NEW t, IsTable(t), NEW typeId
    PROVE  /\ Len(t) \in Nat /\ Len(t) + 1 \in Nat
           /\ OfType(t, typeId) \in SUBSET (1 .. Len(t))
           /\ Visible(t, typeId) \in SUBSET (1 .. Len(t))
           /\ Visible(t, typeId) \subseteq OfType(t, typeId)
           /\ \A q \in OfType(t, typeId) : q \in Nat /\ 1 <= q /\ q <= Len(t)
           /\ \A q \in OfType(t, typeId), v \in Visible(t, typeId) :
                  q < v => q \in Visible(t, typeId)
           /\ Reaches(t, typeId, 1)
<1>1. /\ Len(t) \in Nat /\ Len(t) + 1 \in Nat
      /\ OfType(t, typeId) \in SUBSET (1 .. Len(t))
      /\ Visible(t, typeId) \subseteq OfType(t, typeId)
      /\ \A q \in OfType(t, typeId) : q \in Nat /\ 1 <= q /\ q <= Len(t)
  BY DEF IsTable, OfType, Visible
<1>2. ASSUME NEW q \in OfType(t, typeId), NEW v \in Visible(t, typeId), q < v
      PROVE  q \in Visible(t, typeId)
  BY <1>1, <1>2 DEF Visible, Reaches
<1>3. Reaches(t, typeId, 1)
  BY <1>1 DEF Reaches
<1>. QED
  BY <1>1, <1>2, <1>3

\* In a well-formed table every structure can be reached.
LEMMA AllVisible ==
    ASSUME NEW t, IsTable(t), NEW typeId, WellFormed(t)
    PROVE  Visible(t, typeId) = OfType(t, typeId)
<1>1. ASSUME NEW q \in OfType(t, typeId) PROVE Reaches(t, typeId, q)
  BY TableAssumption DEF OfType, IsTable, WellFormed, Reaches, Passes, CanSkip
<1>. QED
  BY <1>1 DEF Visible

\* A search answers with a number; from null it answers null.
LEMMA SearchType ==
    ASSUME NEW t, IsTable(t), NEW typeId, NEW p \in Nat, NEW size \in Nat
    PROVE  LET q == getSMBIOSTypePtr(t, p, typeId, size)
           IN  /\ q \in Nat /\ smbiosNextPtr(t, q) \in Nat
               /\ p = nullptr => q = nullptr
               /\ q # nullptr => /\ q >= p /\ q <= Len(t)
                                 /\ q = getSMBIOSTypePtr(t, p, typeId, 0)
               /\ smbiosNextPtr(t, q) # nullptr => q # nullptr /\ smbiosNextPtr(t, q) = q + 1
<1>. DEFINE Found(q) == /\ t[q].type = typeId
                        /\ \A r \in p .. (q - 1) : t[r].type # typeId /\ CanSkip(t[r])
            found == {q \in p .. Len(t) : Found(q)}
            c == CHOOSE q \in found : TRUE
            res == getSMBIOSTypePtr(t, p, typeId, size)
<1>1. /\ res = IF p = nullptr \/ found = {} THEN nullptr
               ELSE IF t[c].length < size THEN nullptr ELSE c
      /\ getSMBIOSTypePtr(t, p, typeId, 0) = IF p = nullptr \/ found = {} THEN nullptr
                                             ELSE IF t[c].length < 0 THEN nullptr ELSE c
  BY DEF getSMBIOSTypePtr
<1>2. \A q \in found : q \in Nat /\ q >= p /\ q <= Len(t) /\ (p # 0 => t[q].length \in Nat)
  BY DEF IsTable
<1>3. found # {} => c \in found
  OBVIOUS
<1>. HIDE DEF found, c, res
<1>4. /\ res \in Nat /\ (p = nullptr => res = nullptr)
      /\ res # nullptr => /\ res >= p /\ res <= Len(t)
                          /\ res = getSMBIOSTypePtr(t, p, typeId, 0)
  BY <1>1, <1>2, <1>3 DEF nullptr
<1>5. /\ smbiosNextPtr(t, res) \in Nat
      /\ smbiosNextPtr(t, res) # nullptr => res # nullptr /\ smbiosNextPtr(t, res) = res + 1
  BY <1>4 DEF smbiosNextPtr, nullptr
<1>. QED
  BY <1>4, <1>5 DEF res

\* A search from where a walk can be finds the first structure from there on.
LEMMA SearchFinds ==
    ASSUME NEW t, IsTable(t), NEW typeId, NEW p, Reaches(t, typeId, p)
    PROVE  FirstFrom(Visible(t, typeId), p, getSMBIOSTypePtr(t, p, typeId, 0))
<1>. DEFINE V == Visible(t, typeId)
            Found(q) == /\ t[q].type = typeId
                        /\ \A r \in p .. (q - 1) : t[r].type # typeId /\ CanSkip(t[r])
            found == {q \in p .. Len(t) : Found(q)}
            c == CHOOSE q \in found : TRUE
            res == getSMBIOSTypePtr(t, p, typeId, 0)
<1>0. Len(t) \in Nat /\ p \in Nat /\ p >= 1 /\ p <= Len(t) + 1
  BY DEF IsTable, Reaches
<1>1. /\ res = IF p = nullptr \/ found = {} THEN nullptr
               ELSE IF t[c].length < 0 THEN nullptr ELSE c
  BY DEF getSMBIOSTypePtr
<1>2. ASSUME NEW q \in found PROVE q \in V /\ q >= p /\ t[q].length \in Nat
  <2>1. q \in 1 .. Len(t) /\ q >= p
    BY <1>0
  <2>2. ASSUME NEW r \in 1 .. (q - 1) PROVE Passes(t, typeId, r)
    BY <1>0, <2>1 DEF Reaches, Passes
  <2>. QED
    BY <1>0, <2>1, <2>2 DEF Visible, OfType, Reaches, IsTable
<1>3. ASSUME NEW q \in found, NEW v \in V, v >= p, v < q PROVE FALSE
  <2>1. v \in p .. (q - 1) /\ t[v].type = typeId
    BY <1>0, <1>3 DEF Visible, OfType
  <2>. QED
    BY <2>1
<1>4. ASSUME found = {}, NEW u \in V, u >= p PROVE FALSE
  <2>. DEFINE W == {v \in V : v >= p}
  <2>1. W \subseteq Nat /\ W # {}
    BY <1>4 DEF Visible, OfType
  <2>2. PICK w \in W : \A v \in W : w <= v
    BY <2>1, LeastElement
  <2>3. w \in Nat /\ w \in p .. Len(t) /\ t[w].type = typeId
    BY <1>0, <2>2 DEF Visible, OfType
  <2>4. ASSUME NEW r \in p .. (w - 1) PROVE t[r].type # typeId /\ CanSkip(t[r])
    <3>1. r \in 1 .. (w - 1) /\ r \in 1 .. Len(t) /\ r < w /\ r >= p
      BY <1>0, <2>3
    <3>2. Passes(t, typeId, r) /\ \A x \in 1 .. (r - 1) : Passes(t, typeId, x)
      BY <2>3, <3>1 DEF Visible, Reaches
    <3>3. t[r].type = typeId => r \in V
      BY <1>0, <3>1, <3>2 DEF Visible, OfType, Reaches
    <3>4. t[r].type # typeId
      BY <2>2, <2>3, <3>1, <3>3
    <3>. QED
      BY <3>2, <3>4 DEF Passes
  <2>5. w \in found
    BY <2>3, <2>4
  <2>. QED
    BY <1>4, <2>5
<1>5. found # {} => c \in found
  OBVIOUS
<1>6. \A v \in V : v \in Nat
  BY DEF Visible, OfType
<1>. HIDE DEF found, c, res, V
<1>7. CASE found = {}
  <2>1. res = nullptr /\ \A v \in V : v < p
    BY <1>0, <1>1, <1>4, <1>6, <1>7
  <2>. QED
    BY <2>1 DEF FirstFrom, res, V
<1>8. CASE found # {}
  <2>1. c \in V /\ c >= p /\ t[c].length \in Nat /\ c \in Nat
    BY <1>2, <1>5, <1>6, <1>8
  <2>2. res = c
    BY <1>0, <1>1, <1>8, <2>1 DEF nullptr
  <2>3. ASSUME NEW v \in V, v >= p PROVE v >= c
    <3>1. ~ (v < c)
      BY <1>3, <1>5, <1>8, <2>3
    <3>. QED
      BY <1>6, <2>1, <3>1
  <2>. QED
    BY <2>1, <2>2, <2>3 DEF FirstFrom, res, V
<1>. QED
  BY <1>7, <1>8

\* A walk goes on behind the structure it is at, or gives up where there is no other.
LEMMA WalkGoesOn ==
    ASSUME NEW t, IsTable(t), NEW typeId, NEW q \in Visible(t, typeId)
    PROVE  \/ smbiosNextPtr(t, q) = q + 1 /\ Reaches(t, typeId, q + 1)
           \/ smbiosNextPtr(t, q) = nullptr /\ \A v \in Visible(t, typeId) : v < q + 1
<1>1. q \in 1 .. Len(t) /\ q \in Nat /\ Len(t) \in Nat /\ t[q].type = typeId /\ t[q].strings \in Nat
  BY DEF IsTable, Visible, OfType
<1>2. mdrSMBIOSSize \in Nat
  BY TableAssumption
<1>3. CASE t[q].strings < mdrSMBIOSSize
  <2>. DEFINE p == q + 1
  <2>1. ASSUME NEW r \in 1 .. (p - 1) PROVE Passes(t, typeId, r)
    <3>1. r = q \/ r \in 1 .. (q - 1)
      BY <1>1
    <3>. QED
      BY <1>1, <1>3, <3>1 DEF Visible, Reaches, Passes
  <2>2. p \in 1 .. (Len(t) + 1)
    BY <1>1
  <2>3. smbiosNextPtr(t, q) = q + 1
    BY <1>1, <1>2, <1>3 DEF smbiosNextPtr, nullptr
  <2>4. Reaches(t, typeId, p)
    <3>. HIDE DEF p
    <3>. QED
      BY <2>1, <2>2 DEF Reaches
  <2>. QED
    BY <2>3, <2>4
<1>4. CASE ~ (t[q].strings < mdrSMBIOSSize)
  <2>1. ASSUME NEW v \in Visible(t, typeId) PROVE v < q + 1
    <3>1. v \in Nat /\ \A r \in 1 .. (v - 1) : Passes(t, typeId, r)
      BY DEF Visible, OfType, Reaches
    <3>2. ~ (q \in 1 .. (v - 1))
      BY <1>1, <1>4, <3>1 DEF Passes
    <3>. QED
      BY <1>1, <3>1, <3>2
  <2>2. smbiosNextPtr(t, q) = nullptr
    BY <1>1, <1>2, <1>4 DEF smbiosNextPtr
  <2>. QED
    BY <2>1, <2>2
<1>. QED
  BY <1>3, <1>4

\* The structure behind one of the visible ones.
LEMMA StepFinds ==
    ASSUME NEW t, IsTable(t), NEW typeId, NEW q \in Visible(t, typeId)
    PROVE  FirstFrom(Visible(t, typeId), q + 1,
                     getSMBIOSTypePtr(t, smbiosNextPtr(t, q), typeId, 0))
<1>1. CASE smbiosNextPtr(t, q) = q + 1 /\ Reaches(t, typeId, q + 1)
  BY <1>1, SearchFinds
<1>2. CASE smbiosNextPtr(t, q) = nullptr /\ \A v \in Visible(t, typeId) : v < q + 1
  <2>1. getSMBIOSTypePtr(t, nullptr, typeId, 0) = nullptr
    BY SearchType DEF nullptr
  <2>. QED
    BY <1>2, <2>1 DEF FirstFrom
<1>. QED
  BY <1>1, <1>2, WalkGoesOn

\* What is in front of the element that a search finds.
LEMMA CountToFirst ==
    ASSUME NEW n \in Nat, NEW S \in SUBSET (1 .. n), NEW K \in SUBSET S
    PROVE  \A p \in Nat : \A q : FirstFrom(S, p, q) =>
               /\ q # nullptr => q \in S /\ q >= p /\ Before(K, q) = Before(K, p)
               /\ q = nullptr => Before(K, p) = Cardinality(K)
<1>. SUFFICES ASSUME NEW p \in Nat, NEW q, FirstFrom(S, p, q)
              PROVE  /\ q # nullptr => q \in S /\ q >= p /\ Before(K, q) = Before(K, p)
                     /\ q = nullptr => Before(K, p) = Cardinality(K)
  OBVIOUS
<1>1. K \in SUBSET (0 .. n) /\ \A v \in S : v \in Nat /\ v # 0
  OBVIOUS
<1>2. Before(K, p) \in Nat
  BY <1>1, CountNext DEF Before
<1>3. CASE q = nullptr
  <2>1. \A v \in K : v < p
    BY <1>1, <1>3 DEF FirstFrom, nullptr
  <2>2. {v \in K : v < p} = K
    BY <2>1, Zenon
  <2>. QED
    BY <1>2, <1>3, <2>2 DEF Before
<1>4. CASE q # nullptr
  <2>1. q \in S /\ q \in Nat /\ q >= p /\ \A v \in S : v >= p => v >= q
    BY <1>1, <1>4 DEF FirstFrom
  <2>2. \A v \in K : v < q <=> v < p
    BY <1>1, <2>1
  <2>3. {v \in K : v < q} = {v \in K : v < p}
    BY <2>2, Zenon
  <2>. QED
    BY <1>2, <1>4, <2>1, <2>3 DEF Before
<1>. QED
  BY <1>3, <1>4

\* What is in front of the position behind an element.
LEMMA CountBehind ==
    ASSUME NEW n \in Nat, NEW S \in SUBSET (1 .. n), NEW K \in SUBSET S, NEW p \in Nat
    PROVE  /\ Before(K, p) \in Nat /\ Before(K, p) <= Cardinality(K) /\ Cardinality(K) \in Nat
           /\ Before(K, p + 1) = Before(K, p) + (IF p \in K THEN 1 ELSE 0)
           /\ Before(K, 1) = 0
<1>1. K \in SUBSET (0 .. n) /\ \A v \in K : v \in Nat /\ ~ (v < 1)
  OBVIOUS
<1>2. Before(K, p) \in Nat
  BY <1>1, CountNext DEF Before
<1>3. {v \in K : v < p} \in SUBSET K /\ {v \in K : v < 1} = {}
  BY <1>1, Zenon
<1>4. Before(K, p) <= Cardinality(K) /\ Cardinality(K) \in Nat
  BY <1>1, <1>3, FiniteParts DEF Before
<1>5. Before(K, 1) = 0
  BY <1>3, FS_EmptySet DEF Before
<1>6. Before(K, p + 1) = Before(K, p) + (IF p \in K THEN 1 ELSE 0)
  <2>1. CASE p \in K
    <3>1. Before(K, p + 1) = Before(K, p) + 1
      BY <1>1, <2>1, CountNext DEF Before
    <3>. QED
      BY <2>1, <3>1
  <2>2. CASE p \notin K
    <3>1. Before(K, p + 1) = Before(K, p)
      BY <1>1, <2>2, CountNext DEF Before
    <3>. QED
      BY <1>2, <2>2, <3>1
  <2>. QED
    BY <2>1, <2>2
<1>. QED
  BY <1>2, <1>4, <1>5, <1>6

\* An element is known by the number of those in front of it.
LEMMA RankIsUnique ==
    ASSUME NEW n \in Nat, NEW S \in SUBSET (1 .. n), NEW x \in S, NEW y \in S,
           Before(S, x) = Before(S, y)
    PROVE  x = y
<1>1. S \in SUBSET (0 .. n) /\ x \in Nat /\ y \in Nat
  OBVIOUS
<1>2. Before(S, x) \in Nat /\ Before(S, y) \in Nat
  BY CountBehind, <1>1
<1>3. x < y => Before(S, x) < Before(S, y)
  BY <1>1, CountGrows DEF Before
<1>4. y < x => Before(S, y) < Before(S, x)
  BY <1>1, CountGrows DEF Before
<1>. QED
  BY <1>1, <1>2, <1>3, <1>4

\* The same for the structures of a table.
LEMMA WalkCounts ==
    ASSUME NEW t, IsTable(t), NEW typeId, NEW K \in SUBSET Visible(t, typeId)
    PROVE  /\ Cardinality(K) \in Nat /\ Before(K, 1) = 0
           /\ \A v \in Visible(t, typeId) : v \in Nat /\ v + 1 \in Nat /\ v # nullptr
           /\ \A p \in Nat : /\ Before(K, p) \in Nat /\ Before(K, p) <= Cardinality(K)
                             /\ Before(K, p + 1) = Before(K, p) + (IF p \in K THEN 1 ELSE 0)
           /\ \A p \in Nat : \A q : FirstFrom(Visible(t, typeId), p, q) =>
                  /\ q # nullptr => /\ q \in Visible(t, typeId) /\ q >= p
                                    /\ Before(K, q) = Before(K, p)
                  /\ q = nullptr => Before(K, p) = Cardinality(K)
<1>. DEFINE V == Visible(t, typeId)
            n == Len(t)
<1>1. n \in Nat /\ V \in SUBSET (1 .. n) /\ K \in SUBSET V
  BY VisibleFacts
<1>. HIDE DEF V, n
<1>2. \A v \in V : v \in Nat /\ v + 1 \in Nat /\ v # nullptr
  BY <1>1 DEF nullptr
<1>3. \A p \in Nat : /\ Before(K, p) \in Nat /\ Before(K, p) <= Cardinality(K)
                     /\ Before(K, p + 1) = Before(K, p) + (IF p \in K THEN 1 ELSE 0)
  BY <1>1, CountBehind
<1>4. Cardinality(K) \in Nat /\ Before(K, 1) = 0
  <2>1. 0 \in Nat
    OBVIOUS
  <2>. QED
    BY <1>1, <2>1, CountBehind
<1>5. \A p \in Nat : \A q : FirstFrom(V, p, q) =>
          /\ q # nullptr => q \in V /\ q >= p /\ Before(K, q) = Before(K, p)
          /\ q = nullptr => Before(K, p) = Cardinality(K)
  BY <1>1, CountToFirst, Zenon
<1>. QED
  BY <1>2, <1>3, <1>4, <1>5 DEF V

-----------------------------------------------------------------------------
\* The pointer with an index: the structure with that many in front of it, or null if
\* there are not so many.
LEMMA IndexFinds ==
    ASSUME NEW t, IsTable(t), NEW typeId, NEW i \in Nat
    PROVE  LET V == Visible(t, typeId)
               q == getSMBIOSTypeIndexPtr(t, typeId, i)
           IN  \/ q = nullptr /\ i >= Cardinality(V)
               \/ q \in V /\ Before(V, q) = i /\ i < Cardinality(V)
<1>. DEFINE V == Visible(t, typeId)
            Step(w) == getSMBIOSTypePtr(t, smbiosNextPtr(t, w), typeId, 0)
            at[j \in Nat] == IF j = 0 THEN getSMBIOSTypePtr(t, 1, typeId, 0)
                             ELSE getSMBIOSTypePtr(t, smbiosNextPtr(t, at[j - 1]), typeId, 0)
            first == getSMBIOSTypePtr(t, 1, typeId, 0)
<1>0. getSMBIOSTypeIndexPtr(t, typeId, i) = at[i]
  BY DEF getSMBIOSTypeIndexPtr
<1>1. first \in Nat /\ \A w \in Nat : Step(w) \in Nat
  <2>1. \A w \in Nat : smbiosNextPtr(t, w) \in Nat
    BY DEF smbiosNextPtr, nullptr
  <2>. QED
    BY <2>1, SearchType
<1>2. \E f \in [Nat -> Nat] : f = [j \in Nat |-> IF j = 0 THEN first ELSE Step(f[j - 1])]
  <2>. DEFINE v == [j \in Nat |-> first]
              R == [j \in Nat |-> IF j = 0 THEN 0 ELSE j - 1]
              c == [j \in Nat |-> [w \in Nat |-> Step(w)]]
              m == [j \in Nat |-> j]
              B == {0}
  <2>0. v \in [Nat -> Nat] /\ c \in [Nat -> [Nat -> Nat]]
    <3>. HIDE DEF Step, first
    <3>. QED
      BY <1>1
  <2>1. R \in [Nat -> Nat] /\ m \in [Nat -> Nat] /\ \A j \in Nat \ B : m[R[j]] < m[j]
    OBVIOUS
  <2>2. \A j \in Nat : /\ v[j] = first /\ (j # 0 => R[j] = j - 1) /\ (j \in B <=> j = 0)
                       /\ \A w \in Nat : c[j][w] = Step(w)
    <3>. HIDE DEF Step, first
    <3>. QED
      OBVIOUS
  <2>. HIDE DEF v, R, c, m, B, Step, first
  <2>3. Descends(Nat, Nat, B, v, R, c, m)
    BY <2>0, <2>1 DEF Descends
  <2>4. PICK f \in [Nat -> Nat] : Recursion(f, Nat, B, v, R, c)
    BY <2>3, RecursionExists
  <2>5. ASSUME NEW j \in Nat PROVE f[j] = IF j = 0 THEN first ELSE Step(f[j - 1])
    <3>1. j # 0 => j - 1 \in Nat /\ f[j - 1] \in Nat
      OBVIOUS
    <3>. QED
      BY <2>2, <2>4, <3>1 DEF Recursion
  <2>. QED
    BY <2>5
<1>3. at = [j \in Nat |-> IF j = 0 THEN first ELSE Step(at[j - 1])]
  BY <1>2
<1>4. at[0] = first /\ \A j \in Nat : at[j + 1] = Step(at[j])
  <2>. HIDE DEF at, Step, first
  <2>1. \A j \in Nat : at[j] = IF j = 0 THEN first ELSE Step(at[j - 1])
    BY <1>3, Zenon
  <2>2. ASSUME NEW j \in Nat, NEW k \in Nat, k = j + 1 PROVE at[k] = Step(at[j])
    <3>1. k # 0 /\ k - 1 = j
      BY <2>2
    <3>. QED
      BY <2>1, <3>1, Zenon
  <2>3. \A j \in Nat : j + 1 \in Nat
    OBVIOUS
  <2>. QED
    BY <2>1, <2>2, <2>3, Zenon
<1>. DEFINE card == Cardinality(V)
            T == {j \in Nat : \/ at[j] = nullptr /\ j >= card
                              \/ at[j] \in V /\ Before(V, at[j]) = j /\ j < card}
<1>5. /\ card \in Nat /\ Before(V, 1) = 0
      /\ \A v \in V : v \in Nat /\ v + 1 \in Nat /\ v # nullptr
      /\ \A p \in Nat : /\ Before(V, p) \in Nat /\ Before(V, p) <= card
                        /\ Before(V, p + 1) = Before(V, p) + (IF p \in V THEN 1 ELSE 0)
      /\ \A p \in Nat : \A q : FirstFrom(V, p, q) =>
             /\ q # nullptr => q \in V /\ q >= p /\ Before(V, q) = Before(V, p)
             /\ q = nullptr => Before(V, p) = card
  <2>1. V \in SUBSET V
    OBVIOUS
  <2>. QED
    BY <2>1, WalkCounts
<1>6. FirstFrom(V, 1, first) /\ (\A w \in V : FirstFrom(V, w + 1, Step(w))) /\ Step(nullptr) = nullptr
  <2>1. smbiosNextPtr(t, nullptr) = nullptr
    BY DEF smbiosNextPtr
  <2>2. getSMBIOSTypePtr(t, nullptr, typeId, 0) = nullptr
    BY SearchType DEF nullptr
  <2>3. Reaches(t, typeId, 1)
    BY VisibleFacts
  <2>. QED
    BY <2>1, <2>2, <2>3, SearchFinds, StepFinds
<1>. HIDE DEF at, V, first, Step, card
<1>8. 0 \in T
  <2>1. CASE first = nullptr
    BY <1>4, <1>5, <1>6, <2>1
  <2>2. CASE first # nullptr
    <3>1. first \in V /\ Before(V, first) = 0
      BY <1>5, <1>6, <2>2
    <3>2. Before(V, first + 1) = 1 /\ Before(V, first + 1) <= card
      BY <1>5, <3>1
    <3>. QED
      BY <1>4, <1>5, <3>1, <3>2
  <2>. QED
    BY <2>1, <2>2
<1>9. ASSUME NEW j \in T PROVE j + 1 \in T
  <2>1. j \in Nat /\ j + 1 \in Nat /\ at[j + 1] = Step(at[j])
    BY <1>4
  <2>2. CASE at[j] = nullptr /\ j >= card
    BY <1>5, <1>6, <2>1, <2>2
  <2>3. CASE at[j] \in V /\ Before(V, at[j]) = j /\ j < card
    <3>. DEFINE a == at[j]
                b == at[j + 1]
    <3>1. a \in V /\ Before(V, a) = j /\ FirstFrom(V, a + 1, b)
      BY <1>6, <2>1, <2>3
    <3>. HIDE DEF a, b
    <3>2. a + 1 \in Nat /\ Before(V, a + 1) = j + 1
      BY <1>5, <3>1
    <3>3. CASE b = nullptr
      <4>1. card = j + 1
        BY <1>5, <3>1, <3>2, <3>3
      <4>. QED
        BY <1>5, <2>1, <3>3, <4>1 DEF b
    <3>4. CASE b # nullptr
      <4>1. b \in V /\ Before(V, b) = j + 1
        BY <1>5, <3>1, <3>2, <3>4
      <4>2. Before(V, b + 1) = j + 1 + 1 /\ Before(V, b + 1) <= card
        BY <1>5, <2>1, <4>1
      <4>3. j + 1 < card
        BY <1>5, <2>1, <4>2
      <4>. QED
        BY <2>1, <4>1, <4>3 DEF b
    <3>. QED
      BY <3>3, <3>4
  <2>. QED
    BY <2>2, <2>3
<1>10. T = Nat
  <2>. HIDE DEF T
  <2>. QED
    BY <1>8, <1>9, SetInduction DEF T
<1>. QED
  BY <1>0, <1>10 DEF V, card

-----------------------------------------------------------------------------
\* The loop of the counting methods, with f for what is left of it.
CountBody(t, typeId, counted, f) ==
    [s \in Nat \X Nat |->
        LET q == getSMBIOSTypePtr(t, s[1], typeId, 0)
            n == s[2] + (IF q \in counted THEN 1 ELSE 0)
            next == smbiosNextPtr(t, q)
        IN  IF q = nullptr THEN s[2]
            ELSE IF next = nullptr \/ n >= limitEntryLen THEN n
            ELSE f[<<next, n>>]]

\* The loop ends, and its value is a number.
LEMMA CountLoop ==
    ASSUME NEW t, IsTable(t), NEW typeId, NEW counted
    PROVE  \E f \in [Nat \X Nat -> Nat] : f = CountBody(t, typeId, counted, f)
<1>. DEFINE S == Nat \X Nat
            Q(s) == getSMBIOSTypePtr(t, s[1], typeId, 0)
            N(s) == s[2] + (IF Q(s) \in counted THEN 1 ELSE 0)
            X(s) == smbiosNextPtr(t, Q(s))
            B == {s \in S : Q(s) = nullptr \/ X(s) = nullptr \/ N(s) >= limitEntryLen}
            v == [s \in S |-> IF Q(s) = nullptr THEN s[2] ELSE N(s)]
            R == [s \in S |-> <<X(s), N(s)>>]
            c == [s \in S |-> [w \in Nat |-> w]]
            m == [s \in S |-> IF s[1] > Len(t) THEN 0 ELSE Len(t) + 1 - s[1]]
<1>1. \A s \in S : s[1] \in Nat /\ s[2] \in Nat
  OBVIOUS
<1>2. ASSUME NEW s \in S
      PROVE  /\ Q(s) \in Nat /\ X(s) \in Nat
             /\ X(s) # nullptr => Q(s) >= s[1] /\ Q(s) <= Len(t) /\ X(s) = Q(s) + 1
  BY <1>1, SearchType
<1>3. \A s \in S : N(s) \in Nat
  BY <1>1
<1>. HIDE DEF Q, X
<1>4. v \in [S -> Nat] /\ R \in [S -> S] /\ c \in [S -> [Nat -> Nat]]
  <2>. HIDE DEF N
  <2>. QED
    BY <1>1, <1>2, <1>3
<1>5. Len(t) \in Nat /\ m \in [S -> Nat]
  BY <1>1 DEF IsTable
<1>6. /\ \A s \in S : /\ v[s] = IF Q(s) = nullptr THEN s[2] ELSE N(s)
                      /\ R[s] = <<X(s), N(s)>>
                      /\ s \in B <=> Q(s) = nullptr \/ X(s) = nullptr \/ N(s) >= limitEntryLen
                      /\ \A w \in Nat : c[s][w] = w
      /\ \A a, b \in Nat : m[<<a, b>>] = IF a > Len(t) THEN 0 ELSE Len(t) + 1 - a
      /\ \A s \in S : m[s] = IF s[1] > Len(t) THEN 0 ELSE Len(t) + 1 - s[1]
  <2>. HIDE DEF N
  <2>. QED
    OBVIOUS
<1>. HIDE DEF B, v, R, c, m, N, S
<1>7. ASSUME NEW s \in S \ B PROVE m[R[s]] < m[s]
  <2>1. X(s) # nullptr /\ X(s) \in Nat /\ N(s) \in Nat /\ Q(s) \in Nat /\ s[1] \in Nat
        /\ Q(s) >= s[1] /\ Q(s) <= Len(t) /\ X(s) = Q(s) + 1
    BY <1>1, <1>2, <1>3, <1>6
  <2>2. m[R[s]] = IF X(s) > Len(t) THEN 0 ELSE Len(t) + 1 - X(s)
    <3>1. R[s] = <<X(s), N(s)>>
      BY <1>6
    <3>2. m[<<X(s), N(s)>>] = IF X(s) > Len(t) THEN 0 ELSE Len(t) + 1 - X(s)
      BY <1>6, <2>1, Zenon
    <3>. QED
      BY <3>1, <3>2
  <2>3. m[s] = IF s[1] > Len(t) THEN 0 ELSE Len(t) + 1 - s[1]
    BY <1>6
  <2>. QED
    BY <1>5, <2>1, <2>2, <2>3
<1>8. Descends(S, Nat, B, v, R, c, m)
  BY <1>4, <1>5, <1>7 DEF Descends
<1>9. PICK f \in [S -> Nat] : Recursion(f, S, B, v, R, c)
  BY <1>8, RecursionExists
<1>10. ASSUME NEW s \in S
       PROVE  f[s] = IF Q(s) = nullptr THEN s[2]
                     ELSE IF X(s) = nullptr \/ N(s) >= limitEntryLen THEN N(s)
                     ELSE f[<<X(s), N(s)>>]
  <2>1. R[s] \in S /\ f[R[s]] \in Nat
    BY <1>4
  <2>. QED
    BY <1>6, <1>9, <2>1 DEF Recursion
<1>. QED
  BY <1>10 DEF S, Q, N, X, CountBody

\* The counting methods: as many as a walk can reach, up to the limit.
LEMMA CountFinds ==
    ASSUME NEW t, IsTable(t), NEW typeId, NEW counted
    PROVE  LET n == CountAll(t, typeId, counted)
               card == Cardinality(Visible(t, typeId) \cap counted)
           IN  /\ n \in Nat /\ n <= limitEntryLen /\ n <= card
               /\ n = limitEntryLen \/ n = card
<1>. DEFINE walk[s \in Nat \X Nat] ==
                LET q == getSMBIOSTypePtr(t, s[1], typeId, 0)
                    n == s[2] + (IF q \in counted THEN 1 ELSE 0)
                    next == smbiosNextPtr(t, q)
                IN  IF q = nullptr THEN s[2]
                    ELSE IF next = nullptr \/ n >= limitEntryLen THEN n
                    ELSE walk[<<next, n>>]
            V == Visible(t, typeId)
            K == V \cap counted
            card == Cardinality(K)
            Exact(n) == /\ n \in Nat /\ n <= limitEntryLen /\ n <= card
                        /\ n = limitEntryLen \/ n = card
            Q(p) == getSMBIOSTypePtr(t, p, typeId, 0)
            N(p, k) == k + (IF Q(p) \in counted THEN 1 ELSE 0)
            X(p) == smbiosNextPtr(t, Q(p))
<1>1. CountAll(t, typeId, counted) = walk[<<1, 0>>]
  BY DEF CountAll
<1>2. walk = [s \in Nat \X Nat |->
                  LET q == getSMBIOSTypePtr(t, s[1], typeId, 0)
                      n == s[2] + (IF q \in counted THEN 1 ELSE 0)
                      next == smbiosNextPtr(t, q)
                  IN  IF q = nullptr THEN s[2]
                      ELSE IF next = nullptr \/ n >= limitEntryLen THEN n
                      ELSE walk[<<next, n>>]]
  <2>1. walk = CHOOSE f : f = CountBody(t, typeId, counted, f)
    BY DEF CountBody
  <2>. HIDE DEF walk
  <2>2. walk = CountBody(t, typeId, counted, walk)
    BY <2>1, CountLoop, Zenon
  <2>. QED
    BY <2>2 DEF CountBody
<1>. HIDE DEF walk
<1>3. \A p, k \in Nat : walk[<<p, k>>] =
          IF Q(p) = nullptr THEN k
          ELSE IF X(p) = nullptr \/ N(p, k) >= limitEntryLen THEN N(p, k)
          ELSE walk[<<X(p), N(p, k)>>]
  <2>1. \A p, k \in Nat : <<p, k>> \in Nat \X Nat /\ <<p, k>>[1] = p /\ <<p, k>>[2] = k
    OBVIOUS
  <2>2. \A s \in Nat \X Nat : walk[s] =
            IF Q(s[1]) = nullptr THEN s[2]
            ELSE IF X(s[1]) = nullptr \/ N(s[1], s[2]) >= limitEntryLen THEN N(s[1], s[2])
            ELSE walk[<<X(s[1]), N(s[1], s[2])>>]
    BY <1>2, Zenon
  <2>. HIDE DEF Q, N, X
  <2>. QED
    BY <2>1, <2>2
<1>4. /\ card \in Nat /\ Before(K, 1) = 0
      /\ \A q \in V : q \in Nat /\ q + 1 \in Nat /\ q # nullptr
      /\ \A p \in Nat : /\ Before(K, p) \in Nat /\ Before(K, p) <= card
                        /\ Before(K, p + 1) = Before(K, p) + (IF p \in K THEN 1 ELSE 0)
      /\ \A p \in Nat : \A q : FirstFrom(V, p, q) =>
             /\ q # nullptr => q \in V /\ q >= p /\ Before(K, q) = Before(K, p)
             /\ q = nullptr => Before(K, p) = card
  <2>1. K \in SUBSET V
    OBVIOUS
  <2>. HIDE DEF K
  <2>. QED
    BY <2>1, WalkCounts
<1>5. Len(t) \in Nat /\ Reaches(t, typeId, 1) /\ limitEntryLen \in Nat /\ limitEntryLen # 0
  BY VisibleFacts, TableAssumption
<1>6. \A p : Reaches(t, typeId, p) => /\ p \in Nat /\ p >= 1 /\ p <= Len(t) + 1
                                      /\ FirstFrom(V, p, Q(p))
  <2>1. \A p : Reaches(t, typeId, p) => p \in Nat /\ p >= 1 /\ p <= Len(t) + 1
    BY <1>5 DEF Reaches
  <2>. QED
    BY <2>1, SearchFinds
<1>7. \A q \in V : \/ smbiosNextPtr(t, q) = q + 1 /\ Reaches(t, typeId, q + 1)
                   \/ smbiosNextPtr(t, q) = nullptr /\ FirstFrom(V, q + 1, nullptr)
  BY WalkGoesOn DEF FirstFrom
<1>8. \A q \in V : q \in counted <=> q \in K
  OBVIOUS
<1>. DEFINE T == {d \in Nat : \A p, k \in Nat :
                     Reaches(t, typeId, p) /\ k = Before(K, p) /\ k < limitEntryLen
                         /\ Len(t) + 1 - p < d => Exact(walk[<<p, k>>])}
<1>. HIDE DEF V, K, card, Q
<1>9. 0 \in T
  <2>1. \A p \in Nat : Reaches(t, typeId, p) => ~ (Len(t) + 1 - p < 0)
    BY <1>5, <1>6
  <2>. QED
    BY <2>1
<1>10. ASSUME NEW d \in T PROVE d + 1 \in T
  <2>. SUFFICES ASSUME NEW p \in Nat, NEW k \in Nat, Reaches(t, typeId, p), k = Before(K, p),
                       k < limitEntryLen, Len(t) + 1 - p < d + 1
                PROVE  Exact(walk[<<p, k>>])
    OBVIOUS
  <2>. DEFINE q == Q(p)
              n == N(p, k)
  <2>1. FirstFrom(V, p, q) /\ d \in Nat /\ p >= 1 /\ p <= Len(t) + 1
    BY <1>6
  <2>2. CASE q = nullptr
    <3>1. k = card
      BY <1>4, <2>1, <2>2
    <3>2. walk[<<p, k>>] = k
      BY <1>3, <2>2
    <3>. QED
      BY <1>5, <3>1, <3>2
  <2>3. CASE q # nullptr
    <3>1. q \in V /\ q \in Nat /\ q >= p /\ Before(K, q) = k
      BY <1>4, <2>1, <2>3
    <3>2. n = Before(K, q + 1) /\ n \in Nat /\ n <= card /\ n <= limitEntryLen
      <4>1. Before(K, q + 1) = k + (IF q \in K THEN 1 ELSE 0)
        BY <1>4, <3>1
      <4>2. n = k + (IF q \in K THEN 1 ELSE 0)
        BY <1>8, <3>1
      <4>3. q + 1 \in Nat /\ Before(K, q + 1) <= card
        BY <1>4, <3>1
      <4>. HIDE DEF n
      <4>. QED
        BY <1>5, <4>1, <4>2, <4>3
    <3>3. CASE X(p) = nullptr
      <4>1. FirstFrom(V, q + 1, nullptr)
        <5>1. smbiosNextPtr(t, q) = nullptr /\ q + 1 # nullptr
          BY <3>1, <3>3 DEF nullptr
        <5>. QED
          BY <1>7, <3>1, <5>1
      <4>2. n = card
        BY <1>4, <3>1, <3>2, <4>1
      <4>3. walk[<<p, k>>] = n
        BY <1>3, <2>3, <3>3
      <4>. QED
        BY <3>2, <4>2, <4>3
    <3>4. CASE X(p) # nullptr
      <4>1. X(p) = q + 1 /\ Reaches(t, typeId, q + 1)
        BY <1>7, <3>1, <3>4
      <4>2. CASE n >= limitEntryLen
        <5>1. walk[<<p, k>>] = n
          BY <1>3, <2>3, <3>4, <4>2
        <5>. QED
          BY <1>5, <3>2, <4>2, <5>1
      <4>3. CASE ~ (n >= limitEntryLen)
        <5>1. walk[<<p, k>>] = walk[<<q + 1, n>>]
          BY <1>3, <2>3, <3>4, <4>1, <4>3
        <5>2. q + 1 \in Nat /\ n < limitEntryLen /\ Len(t) + 1 - (q + 1) < d
          BY <1>5, <2>1, <3>1, <3>2, <4>3
        <5>3. Exact(walk[<<q + 1, n>>])
          BY <3>2, <4>1, <5>2
        <5>. QED
          BY <5>1, <5>3
      <4>. QED
        BY <4>2, <4>3
    <3>. QED
      BY <3>3, <3>4
  <2>. QED
    BY <2>2, <2>3
<1>11. T = Nat
  <2>. HIDE DEF T
  <2>. QED
    BY <1>9, <1>10, SetInduction DEF T
<1>12. Exact(walk[<<1, 0>>])
  <2>1. Len(t) + 1 \in T
    <3>. HIDE DEF T
    <3>. QED
      BY <1>5, <1>11
  <2>2. Len(t) + 1 - 1 < Len(t) + 1
    BY <1>5
  <2>3. 1 \in Nat /\ 0 \in Nat /\ 0 = Before(K, 1) /\ 0 < limitEntryLen
    BY <1>4, <1>5
  <2>. QED
    BY <1>5, <2>1, <2>2, <2>3, Zenon
<1>. QED
  BY <1>1, <1>12 DEF card, K, V

-----------------------------------------------------------------------------
\* The loop of Pcie::pcieInfoUpdate, with f for what is left of it.
SlotBody(t, pcieNum, f) ==
    [s \in Nat \X Nat |->
        LET q == getSMBIOSTypePtr(t, smbiosNextPtr(t, s[1]), systemSlots, 0)
        IN  IF s[2] >= pcieNum /\ s[1] \in PcieSlots(t) THEN s[1]
            ELSE IF q = nullptr THEN nullptr
            ELSE f[<<q, s[2] + (IF q \in PcieSlots(t) THEN 1 ELSE 0)>>]]

\* The loop ends, and its value is a number.
LEMMA SlotLoop ==
    ASSUME NEW t, IsTable(t), NEW pcieNum \in Nat
    PROVE  \E f \in [Nat \X Nat -> Nat] : f = SlotBody(t, pcieNum, f)
<1>. DEFINE S == Nat \X Nat
            Q(s) == getSMBIOSTypePtr(t, smbiosNextPtr(t, s[1]), systemSlots, 0)
            N(s) == s[2] + (IF Q(s) \in PcieSlots(t) THEN 1 ELSE 0)
            Done(s) == s[2] >= pcieNum /\ s[1] \in PcieSlots(t)
            B == {s \in S : Done(s) \/ Q(s) = nullptr}
            v == [s \in S |-> IF Done(s) THEN s[1] ELSE nullptr]
            R == [s \in S |-> <<Q(s), N(s)>>]
            c == [s \in S |-> [w \in Nat |-> w]]
            m == [s \in S |-> IF s[1] > Len(t) THEN 0 ELSE Len(t) + 1 - s[1]]
<1>1. \A s \in S : s[1] \in Nat /\ s[2] \in Nat
  OBVIOUS
<1>2. ASSUME NEW s \in S
      PROVE  /\ Q(s) \in Nat
             /\ Q(s) # nullptr => Q(s) >= s[1] + 1 /\ Q(s) <= Len(t)
  <2>. DEFINE p == smbiosNextPtr(t, s[1])
  <2>1. p \in Nat /\ (p # nullptr => p = s[1] + 1)
    BY <1>1 DEF smbiosNextPtr, nullptr
  <2>. HIDE DEF p
  <2>2. LET q == getSMBIOSTypePtr(t, p, systemSlots, 0)
        IN  /\ q \in Nat /\ (p = nullptr => q = nullptr)
            /\ q # nullptr => q >= p /\ q <= Len(t)
    <3>1. 0 \in Nat
      OBVIOUS
    <3>. QED
      BY <2>1, <3>1, SearchType
  <2>. QED
    BY <2>1, <2>2 DEF p
<1>3. \A s \in S : N(s) \in Nat
  BY <1>1
<1>. HIDE DEF Q, Done
<1>4. v \in [S -> Nat] /\ R \in [S -> S] /\ c \in [S -> [Nat -> Nat]]
  <2>. HIDE DEF N
  <2>. QED
    BY <1>1, <1>2, <1>3 DEF nullptr
<1>5. Len(t) \in Nat /\ m \in [S -> Nat]
  BY <1>1 DEF IsTable
<1>6. /\ \A s \in S : /\ v[s] = IF Done(s) THEN s[1] ELSE nullptr
                      /\ R[s] = <<Q(s), N(s)>>
                      /\ s \in B <=> Done(s) \/ Q(s) = nullptr
                      /\ \A w \in Nat : c[s][w] = w
      /\ \A a, b \in Nat : m[<<a, b>>] = IF a > Len(t) THEN 0 ELSE Len(t) + 1 - a
      /\ \A s \in S : m[s] = IF s[1] > Len(t) THEN 0 ELSE Len(t) + 1 - s[1]
  <2>. HIDE DEF N
  <2>. QED
    OBVIOUS
<1>. HIDE DEF B, v, R, c, m, N, S
<1>7. ASSUME NEW s \in S \ B PROVE m[R[s]] < m[s]
  <2>1. Q(s) # nullptr /\ N(s) \in Nat /\ Q(s) \in Nat /\ s[1] \in Nat
        /\ Q(s) >= s[1] + 1 /\ Q(s) <= Len(t)
    BY <1>1, <1>2, <1>3, <1>6
  <2>2. m[R[s]] = IF Q(s) > Len(t) THEN 0 ELSE Len(t) + 1 - Q(s)
    <3>1. R[s] = <<Q(s), N(s)>>
      BY <1>6
    <3>2. m[<<Q(s), N(s)>>] = IF Q(s) > Len(t) THEN 0 ELSE Len(t) + 1 - Q(s)
      BY <1>6, <2>1, Zenon
    <3>. QED
      BY <3>1, <3>2
  <2>3. m[s] = IF s[1] > Len(t) THEN 0 ELSE Len(t) + 1 - s[1]
    BY <1>6
  <2>. QED
    BY <1>5, <2>1, <2>2, <2>3
<1>8. Descends(S, Nat, B, v, R, c, m)
  BY <1>4, <1>5, <1>7 DEF Descends
<1>9. PICK f \in [S -> Nat] : Recursion(f, S, B, v, R, c)
  BY <1>8, RecursionExists
<1>10. ASSUME NEW s \in S
       PROVE  f[s] = IF Done(s) THEN s[1]
                     ELSE IF Q(s) = nullptr THEN nullptr ELSE f[<<Q(s), N(s)>>]
  <2>1. R[s] \in S /\ f[R[s]] \in Nat
    BY <1>4
  <2>. QED
    BY <1>6, <1>9, <2>1 DEF Recursion
<1>. QED
  BY <1>10 DEF S, Q, N, Done, SlotBody

\* A PCIe object whose number is below the count finds a PCIe slot that a walk can reach,
\* and the one with its number if the first slot of the table is a PCIe slot.
LEMMA SlotFinds ==
    ASSUME NEW t, IsTable(t), NEW pcieNum \in Nat,
           pcieNum < Cardinality(Visible(t, systemSlots) \cap PcieSlots(t))
    PROVE  LET K == Visible(t, systemSlots) \cap PcieSlots(t)
               y == PcieSlotPtr(t, pcieNum)
           IN  /\ y \in K /\ y # nullptr
               /\ getSMBIOSTypePtr(t, 1, systemSlots, 0) \in K => Before(K, y) = pcieNum
<1>. DEFINE walk[s \in Nat \X Nat] ==
                LET q == getSMBIOSTypePtr(t, smbiosNextPtr(t, s[1]), systemSlots, 0)
                IN  IF s[2] >= pcieNum /\ s[1] \in PcieSlots(t) THEN s[1]
                    ELSE IF q = nullptr THEN nullptr
                    ELSE walk[<<q, s[2] + (IF q \in PcieSlots(t) THEN 1 ELSE 0)>>]
            first == getSMBIOSTypePtr(t, 1, systemSlots, 0)
            V == Visible(t, systemSlots)
            K == V \cap PcieSlots(t)
            card == Cardinality(K)
            Step(p) == getSMBIOSTypePtr(t, smbiosNextPtr(t, p), systemSlots, 0)
            d == IF first \in K THEN 1 ELSE 0
            Good(y) == y \in K /\ (d = 1 => Before(K, y) = pcieNum)
<1>1. PcieSlotPtr(t, pcieNum) = IF first = nullptr THEN nullptr ELSE walk[<<first, 0>>]
  BY DEF PcieSlotPtr
<1>2. walk = SlotBody(t, pcieNum, walk)
  <2>1. walk = CHOOSE f : f = SlotBody(t, pcieNum, f)
    BY DEF SlotBody
  <2>. HIDE DEF walk
  <2>. QED
    BY <2>1, SlotLoop, Zenon
<1>. HIDE DEF walk
<1>3. \A p, i \in Nat : walk[<<p, i>>] =
          IF i >= pcieNum /\ p \in PcieSlots(t) THEN p
          ELSE IF Step(p) = nullptr THEN nullptr
          ELSE walk[<<Step(p), i + (IF Step(p) \in PcieSlots(t) THEN 1 ELSE 0)>>]
  <2>1. \A p, i \in Nat : <<p, i>> \in Nat \X Nat /\ <<p, i>>[1] = p /\ <<p, i>>[2] = i
    OBVIOUS
  <2>2. \A s \in Nat \X Nat : walk[s] =
            IF s[2] >= pcieNum /\ s[1] \in PcieSlots(t) THEN s[1]
            ELSE IF Step(s[1]) = nullptr THEN nullptr
            ELSE walk[<<Step(s[1]), s[2] + (IF Step(s[1]) \in PcieSlots(t) THEN 1 ELSE 0)>>]
    BY <1>2, Zenon DEF SlotBody
  <2>. HIDE DEF Step
  <2>. QED
    BY <2>1, <2>2
<1>4. /\ card \in Nat /\ Before(K, 1) = 0
      /\ \A q \in V : q \in Nat /\ q + 1 \in Nat /\ q # nullptr
      /\ \A p \in Nat : /\ Before(K, p) \in Nat /\ Before(K, p) <= card
                        /\ Before(K, p + 1) = Before(K, p) + (IF p \in K THEN 1 ELSE 0)
      /\ \A p \in Nat : \A q : FirstFrom(V, p, q) =>
             /\ q # nullptr => q \in V /\ q >= p /\ Before(K, q) = Before(K, p)
             /\ q = nullptr => Before(K, p) = card
  <2>1. K \in SUBSET V
    OBVIOUS
  <2>. HIDE DEF K
  <2>2. /\ card \in Nat /\ Before(K, 1) = 0
        /\ \A q \in V : q \in Nat /\ q + 1 \in Nat /\ q # nullptr
    BY <2>1, WalkCounts
  <2>3. \A p \in Nat : /\ Before(K, p) \in Nat /\ Before(K, p) <= card
                       /\ Before(K, p + 1) = Before(K, p) + (IF p \in K THEN 1 ELSE 0)
    BY <2>1, WalkCounts
  <2>4. \A p \in Nat : \A q : FirstFrom(V, p, q) =>
            /\ q # nullptr => q \in V /\ q >= p /\ Before(K, q) = Before(K, p)
            /\ q = nullptr => Before(K, p) = card
    <3>1. Len(t) \in Nat /\ V \in SUBSET (1 .. Len(t))
      BY VisibleFacts
    <3>. HIDE DEF V
    <3>. QED
      BY <2>1, <3>1, CountToFirst, Zenon
  <2>. QED
    BY <2>2, <2>3, <2>4
<1>5. Len(t) \in Nat /\ FirstFrom(V, 1, first) /\ \A q \in V : FirstFrom(V, q + 1, Step(q))
  BY VisibleFacts, SearchFinds, StepFinds
<1>6. \A q \in V : q <= Len(t) /\ (q \in PcieSlots(t) <=> q \in K)
  BY VisibleFacts
<1>7. d \in {0, 1} /\ pcieNum < card
  OBVIOUS
<1>8. \A q \in K : q \in V
  OBVIOUS
<1>. DEFINE T == {e \in Nat : \A p \in V, i \in Nat :
                     /\ i + d = Before(K, p + 1)
                     /\ Before(K, p) < pcieNum + d \/ Before(K, p) = 0
                     /\ Len(t) - p < e
                     => Good(walk[<<p, i>>])}
<1>. HIDE DEF V, K, card, Step, d, first
<1>9. 0 \in T
  <2>1. \A p \in V : ~ (Len(t) - p < 0)
    BY <1>4, <1>5, <1>6
  <2>. QED
    BY <2>1
<1>10. ASSUME NEW e \in T PROVE e + 1 \in T
  <2>. SUFFICES ASSUME NEW p \in V, NEW i \in Nat, i + d = Before(K, p + 1),
                       Before(K, p) < pcieNum + d \/ Before(K, p) = 0, Len(t) - p < e + 1
                PROVE  Good(walk[<<p, i>>])
    OBVIOUS
  <2>. DEFINE q == Step(p)
              n == i + (IF q \in PcieSlots(t) THEN 1 ELSE 0)
              b == Before(K, p)
  <2>1. p \in Nat /\ b \in Nat /\ i + d = b + (IF p \in K THEN 1 ELSE 0) /\ FirstFrom(V, p + 1, q)
    BY <1>4, <1>5
  <2>2. p \in PcieSlots(t) <=> p \in K
    BY <1>6
  <2>3. CASE i >= pcieNum /\ p \in K
    <3>1. walk[<<p, i>>] = p
      BY <1>3, <2>1, <2>2, <2>3
    <3>2. d = 1 => b = pcieNum
      <4>. HIDE DEF b
      <4>. QED
        BY <1>7, <2>1, <2>3 DEF b
    <3>. QED
      BY <2>3, <3>1, <3>2
  <2>4. CASE ~ (i >= pcieNum /\ p \in K)
    <3>1. walk[<<p, i>>] = IF q = nullptr THEN nullptr ELSE walk[<<q, n>>]
      BY <1>3, <2>1, <2>2, <2>4
    <3>2. i + d < pcieNum + d \/ i + d = 0
      <4>1. CASE p \in K
        BY <1>7, <2>1, <2>4, <4>1
      <4>2. CASE p \notin K
        BY <1>7, <2>1, <4>2
      <4>. QED
        BY <4>1, <4>2
    <3>3. q # nullptr
      <4>1. q = nullptr => card = i + d
        BY <1>4, <2>1
      <4>. QED
        BY <1>4, <1>7, <3>2, <4>1
    <3>4. q \in V /\ q >= p + 1 /\ Before(K, q) = i + d
      BY <1>4, <2>1, <3>3
    <3>5. q \in Nat /\ n \in Nat /\ n + d = Before(K, q + 1)
      <4>1. n = i + (IF q \in K THEN 1 ELSE 0) /\ q \in Nat
        BY <1>4, <1>6, <3>4
      <4>2. Before(K, q + 1) = i + d + (IF q \in K THEN 1 ELSE 0)
        BY <1>4, <3>4, <4>1
      <4>. HIDE DEF n, q
      <4>. QED
        BY <1>7, <4>1, <4>2
    <3>6. Len(t) - q < e
      BY <1>5, <2>1, <3>4, <3>5
    <3>. HIDE DEF n, q, b
    <3>7. Good(walk[<<q, n>>])
      BY <3>2, <3>4, <3>5, <3>6
    <3>. QED
      BY <3>1, <3>3, <3>7
  <2>. QED
    BY <2>3, <2>4
<1>11. T = Nat
  <2>. HIDE DEF T
  <2>. QED
    BY <1>9, <1>10, SetInduction DEF T
<1>12. first # nullptr
  BY <1>4, <1>5, <1>7
<1>13. first \in V /\ first \in Nat /\ Before(K, first) = 0
  BY <1>4, <1>5, <1>12
<1>14. Good(walk[<<first, 0>>])
  <2>1. Len(t) + 1 \in T
    <3>. HIDE DEF T
    <3>. QED
      BY <1>5, <1>11
  <2>2. Len(t) - first < Len(t) + 1
    BY <1>5, <1>13
  <2>3. 0 + d = Before(K, first + 1)
    BY <1>4, <1>13 DEF d
  <2>4. 0 \in Nat
    OBVIOUS
  <2>. HIDE DEF Good
  <2>. QED
    BY <1>13, <2>1, <2>2, <2>3, <2>4, Zenon
<1>15. PcieSlotPtr(t, pcieNum) = walk[<<first, 0>>]
  BY <1>1, <1>12
<1>16. \A q \in K : q # nullptr
  BY <1>4, <1>8
<1>17. first \in K => d = 1
  BY DEF d
<1>. QED
  BY <1>14, <1>15, <1>16, <1>17 DEF K, V, first

-----------------------------------------------------------------------------
\* An element in front of a sequence.
LEMMA ConsFacts ==
    ASSUME NEW U, NEW a \in U, NEW w \in Seq(U)
    PROVE  /\ <<a>> \o w \in Seq(U) /\ Len(<<a>> \o w) = Len(w) + 1 /\ Len(w) \in Nat
           /\ (<<a>> \o w)[1] = a
           /\ \A j \in 1 .. Len(w) : (<<a>> \o w)[j + 1] = w[j]
  OBVIOUS

\* The loop of getRecordType, with f for what is left of it.
RecordBody(t, f) ==
    [p \in Nat |->
        LET q == getSMBIOSTypePtr(t, p, memoryDeviceType, MemoryInfoSize)
        IN  IF q = nullptr THEN <<>> ELSE <<t[q]>> \o f[smbiosNextPtr(t, q)]]

\* The loop ends, and its value is a sequence of structures.
LEMMA RecordLoop ==
    ASSUME NEW t, IsTable(t)
    PROVE  \E f \in [Nat -> Seq({t[q] : q \in 1 .. Len(t)})] : f = RecordBody(t, f)
<1>. DEFINE U == {t[q] : q \in 1 .. Len(t)}
            Q(p) == getSMBIOSTypePtr(t, p, memoryDeviceType, MemoryInfoSize)
            X(p) == smbiosNextPtr(t, Q(p))
            B == {p \in Nat : Q(p) = nullptr}
            v == [p \in Nat |-> <<>>]
            R == [p \in Nat |-> X(p)]
            c == [p \in Nat |-> [w \in Seq(U) |->
                      IF Q(p) = nullptr THEN w ELSE <<t[Q(p)]>> \o w]]
            m == [p \in Nat |-> IF p = 0 \/ p > Len(t) THEN 0 ELSE Len(t) + 1 - p]
<1>1. Len(t) \in Nat
  BY DEF IsTable
<1>2. ASSUME NEW p \in Nat
      PROVE  /\ Q(p) \in Nat /\ X(p) \in Nat
             /\ p = 0 => Q(p) = nullptr
             /\ Q(p) # nullptr => Q(p) >= p /\ Q(p) <= Len(t) /\ t[Q(p)] \in U
             /\ X(p) # nullptr => X(p) = Q(p) + 1
  <2>1. MemoryInfoSize \in Nat
    BY TableAssumption
  <2>2. /\ Q(p) \in Nat /\ X(p) \in Nat
        /\ p = nullptr => Q(p) = nullptr
        /\ Q(p) # nullptr => Q(p) >= p /\ Q(p) <= Len(t)
        /\ X(p) # nullptr => X(p) = Q(p) + 1
    BY <2>1, SearchType
  <2>. HIDE DEF Q, X
  <2>3. Q(p) # nullptr => Q(p) \in 1 .. Len(t)
    BY <1>1, <2>2 DEF nullptr
  <2>. QED
    BY <2>2, <2>3 DEF nullptr
<1>. HIDE DEF Q, X, U
<1>3. v \in [Nat -> Seq(U)] /\ R \in [Nat -> Nat] /\ m \in [Nat -> Nat]
  <2>1. << >> \in Seq(U)
    OBVIOUS
  <2>2. m \in [Nat -> Nat]
    BY <1>1
  <2>3. \A p \in Nat : X(p) \in Nat
    BY <1>2
  <2>. QED
    BY <2>1, <2>2, <2>3
<1>4. c \in [Nat -> [Seq(U) -> Seq(U)]]
  <2>1. ASSUME NEW p \in Nat, NEW w \in Seq(U)
        PROVE  (IF Q(p) = nullptr THEN w ELSE <<t[Q(p)]>> \o w) \in Seq(U)
    BY <1>2, ConsFacts
  <2>. QED
    BY <2>1
<1>5. \A p \in Nat : /\ v[p] = <<>> /\ R[p] = X(p) /\ (p \in B <=> Q(p) = nullptr)
                     /\ \A w \in Seq(U) : c[p][w] = IF Q(p) = nullptr THEN w ELSE <<t[Q(p)]>> \o w
                     /\ m[p] = IF p = 0 \/ p > Len(t) THEN 0 ELSE Len(t) + 1 - p
  OBVIOUS
<1>. HIDE DEF B, v, R, c, m
<1>6. ASSUME NEW p \in Nat \ B PROVE m[R[p]] < m[p]
  <2>1. Q(p) # nullptr /\ R[p] = X(p) /\ R[p] \in Nat
    BY <1>2, <1>5
  <2>2. /\ m[R[p]] = IF R[p] = 0 \/ R[p] > Len(t) THEN 0 ELSE Len(t) + 1 - R[p]
        /\ m[p] = IF p = 0 \/ p > Len(t) THEN 0 ELSE Len(t) + 1 - p
    BY <1>5, <2>1
  <2>3. p # 0 /\ Q(p) \in Nat /\ Q(p) >= p /\ Q(p) <= Len(t) /\ (R[p] # 0 => R[p] = Q(p) + 1)
    BY <1>2, <2>1 DEF nullptr
  <2>. QED
    BY <1>1, <2>1, <2>2, <2>3
<1>7. Descends(Nat, Seq(U), B, v, R, c, m)
  BY <1>3, <1>4, <1>6 DEF Descends
<1>8. PICK f \in [Nat -> Seq(U)] : Recursion(f, Nat, B, v, R, c)
  BY <1>7, RecursionExists
<1>9. ASSUME NEW p \in Nat
      PROVE  f[p] = IF Q(p) = nullptr THEN <<>> ELSE <<t[Q(p)]>> \o f[X(p)]
  <2>1. R[p] = X(p) /\ X(p) \in Nat /\ f[X(p)] \in Seq(U)
    BY <1>2, <1>5
  <2>2. f[p] = IF p \in B THEN v[p] ELSE c[p][f[X(p)]]
    BY <1>8, <2>1 DEF Recursion
  <2>3. c[p][f[X(p)]] = IF Q(p) = nullptr THEN f[X(p)] ELSE <<t[Q(p)]>> \o f[X(p)]
    BY <1>5, <2>1, Zenon
  <2>4. v[p] = <<>> /\ (p \in B <=> Q(p) = nullptr)
    BY <1>5, Zenon
  <2>. QED
    BY <2>2, <2>3, <2>4, Zenon
<1>. QED
  BY <1>9 DEF U, Q, X, RecordBody

\* The records that GetRecordType answers with: the structures in their order.
LEMMA RecordsFound ==
    ASSUME NEW t, IsTable(t)
    PROVE  LET V == Visible(t, memoryDeviceType)
               r == getRecordType(t)
           IN  /\ Len(r) \in Nat
               /\ \A i \in 1 .. Len(r) : \E v \in V : r[i] = t[v] /\ Before(V, v) = i - 1
<1>. DEFINE walk[p \in Nat] ==
                LET q == getSMBIOSTypePtr(t, p, memoryDeviceType, MemoryInfoSize)
                IN  IF q = nullptr THEN <<>>
                    ELSE <<t[q]>> \o walk[smbiosNextPtr(t, q)]
            U == {t[q] : q \in 1 .. Len(t)}
            V == Visible(t, memoryDeviceType)
            Q(p) == getSMBIOSTypePtr(t, p, memoryDeviceType, MemoryInfoSize)
            X(p) == smbiosNextPtr(t, Q(p))
            Lists(p) == \A j \in 1 .. Len(walk[p]) :
                           \E v \in V : walk[p][j] = t[v] /\ Before(V, v) = Before(V, p) + j - 1
<1>1. getRecordType(t) = walk[1]
  BY DEF getRecordType
<1>2. walk = RecordBody(t, walk)
  <2>1. walk = CHOOSE f : f = RecordBody(t, f)
    BY DEF RecordBody
  <2>. HIDE DEF walk
  <2>. QED
    BY <2>1, RecordLoop, Zenon
<1>. HIDE DEF walk
<1>3. \A p \in Nat : walk[p] = IF Q(p) = nullptr THEN <<>> ELSE <<t[Q(p)]>> \o walk[X(p)]
  BY <1>2, Zenon DEF RecordBody
<1>4. /\ Before(V, 1) = 0
      /\ \A q \in V : q \in Nat /\ q + 1 \in Nat /\ q # nullptr
      /\ \A p \in Nat : /\ Before(V, p) \in Nat
                        /\ p \in V => Before(V, p + 1) = Before(V, p) + 1
      /\ \A p \in Nat : \A q : FirstFrom(V, p, q) /\ q # nullptr =>
             q \in V /\ q >= p /\ Before(V, q) = Before(V, p)
  <2>1. V \in SUBSET V
    OBVIOUS
  <2>2. Len(t) \in Nat /\ V \in SUBSET (1 .. Len(t))
    BY VisibleFacts
  <2>3. /\ Before(V, 1) = 0
        /\ \A q \in V : q \in Nat /\ q + 1 \in Nat /\ q # nullptr
    BY <2>1, WalkCounts
  <2>4. \A p \in Nat : /\ Before(V, p) \in Nat
                       /\ p \in V => Before(V, p + 1) = Before(V, p) + 1
    BY <2>1, WalkCounts
  <2>5. \A p \in Nat : \A q : FirstFrom(V, p, q) /\ q # nullptr =>
            q \in V /\ q >= p /\ Before(V, q) = Before(V, p)
    <3>. HIDE DEF V
    <3>1. \A p \in Nat : \A q : FirstFrom(V, p, q) =>
              /\ q # nullptr => q \in V /\ q >= p /\ Before(V, q) = Before(V, p)
              /\ q = nullptr => Before(V, p) = Cardinality(V)
      BY <2>1, <2>2, CountToFirst, Zenon
    <3>. QED
      BY <3>1, Zenon
  <2>. QED
    BY <2>3, <2>4, <2>5
<1>5. ASSUME NEW p \in Nat, Reaches(t, memoryDeviceType, p), Q(p) # nullptr
      PROVE  /\ Q(p) \in V /\ Q(p) \in Nat /\ Q(p) >= p /\ Before(V, Q(p)) = Before(V, p)
             /\ t[Q(p)] \in U
             /\ X(p) = nullptr \/ (X(p) = Q(p) + 1 /\ Reaches(t, memoryDeviceType, Q(p) + 1))
  <2>1. Q(p) = getSMBIOSTypePtr(t, p, memoryDeviceType, 0)
    BY <1>5, SearchType, TableAssumption
  <2>2. FirstFrom(V, p, Q(p))
    BY <1>5, <2>1, SearchFinds
  <2>3. Q(p) \in V /\ Q(p) \in Nat /\ Q(p) >= p /\ Before(V, Q(p)) = Before(V, p)
    <3>. HIDE DEF V, Q
    <3>. QED
      BY <1>4, <1>5, <2>2
  <2>4. t[Q(p)] \in U
    <3>1. Q(p) \in 1 .. Len(t)
      BY <2>3, VisibleFacts
    <3>. QED
      BY <3>1
  <2>5. X(p) = nullptr \/ (X(p) = Q(p) + 1 /\ Reaches(t, memoryDeviceType, Q(p) + 1))
    BY <2>3, WalkGoesOn
  <2>. QED
    BY <2>3, <2>4, <2>5
<1>6. /\ Len(t) \in Nat /\ Reaches(t, memoryDeviceType, 1)
      /\ \A p : Reaches(t, memoryDeviceType, p) => p \in Nat /\ p <= Len(t) + 1
  BY VisibleFacts DEF Reaches
<1>7. walk[nullptr] = <<>>
  <2>1. Q(nullptr) = nullptr /\ nullptr \in Nat
    <3>1. nullptr \in Nat /\ MemoryInfoSize \in Nat
      BY TableAssumption DEF nullptr
    <3>. QED
      BY <3>1, SearchType
  <2>. QED
    BY <1>3, <2>1, Zenon
<1>. DEFINE T == {e \in Nat : \A p \in Nat :
                     Reaches(t, memoryDeviceType, p) /\ Len(t) + 1 - p < e
                         => walk[p] \in Seq(U) /\ Lists(p)}
<1>. HIDE DEF V, Q, X, U
<1>8. 0 \in T
  <2>1. \A p \in Nat : Reaches(t, memoryDeviceType, p) => ~ (Len(t) + 1 - p < 0)
    BY <1>6
  <2>. QED
    BY <2>1
<1>9. ASSUME NEW e \in T PROVE e + 1 \in T
  <2>. SUFFICES ASSUME NEW p \in Nat, Reaches(t, memoryDeviceType, p), Len(t) + 1 - p < e + 1
                PROVE  walk[p] \in Seq(U) /\ Lists(p)
    OBVIOUS
  <2>1. CASE Q(p) = nullptr
    <3>1. walk[p] = <<>> /\ <<>> \in Seq(U) /\ 1 .. Len(<<>>) = {}
      <4>1. walk[p] = <<>>
        BY <1>3, <2>1, Zenon
      <4>. QED
        BY <4>1
    <3>. QED
      BY <3>1
  <2>2. CASE Q(p) # nullptr
    <3>. DEFINE q == Q(p)
                w == walk[X(p)]
                b == Before(V, p)
    <3>1. /\ q \in V /\ q \in Nat /\ q >= p /\ Before(V, q) = b /\ t[q] \in U
          /\ X(p) = nullptr \/ (X(p) = q + 1 /\ Reaches(t, memoryDeviceType, q + 1))
      BY <1>5, <2>2
    <3>2. walk[p] = <<t[q]>> \o w
      BY <1>3, <2>2
    <3>3. b \in Nat /\ q + 1 \in Nat /\ Before(V, q + 1) = b + 1
      BY <1>4, <3>1
    <3>4. w \in Seq(U) /\ \A j \in 1 .. Len(w) :
              \E v \in V : w[j] = t[v] /\ Before(V, v) = b + 1 + j - 1
      <4>1. CASE X(p) = nullptr
        <5>1. w = <<>> /\ <<>> \in Seq(U) /\ 1 .. Len(<<>>) = {}
          BY <1>7, <4>1
        <5>. QED
          BY <5>1
      <4>2. CASE X(p) = q + 1 /\ Reaches(t, memoryDeviceType, q + 1)
        <5>1. Len(t) + 1 - (q + 1) < e /\ e \in Nat
          BY <1>6, <3>1, <3>3
        <5>2. walk[q + 1] \in Seq(U) /\ Lists(q + 1)
          BY <3>3, <4>2, <5>1
        <5>3. w = walk[q + 1]
          BY <4>2
        <5>. QED
          BY <3>3, <5>2, <5>3
      <4>. QED
        BY <3>1, <4>1, <4>2
    <3>. HIDE DEF q, w, b
    <3>5. /\ <<t[q]>> \o w \in Seq(U) /\ Len(<<t[q]>> \o w) = Len(w) + 1 /\ Len(w) \in Nat
          /\ (<<t[q]>> \o w)[1] = t[q]
          /\ \A j \in 1 .. Len(w) : (<<t[q]>> \o w)[j + 1] = w[j]
      BY <3>1, <3>4, ConsFacts
    <3>6. ASSUME NEW j \in 1 .. Len(walk[p])
          PROVE  \E v \in V : walk[p][j] = t[v] /\ Before(V, v) = b + j - 1
      <4>1. CASE j = 1
        BY <3>1, <3>2, <3>3, <3>5, <4>1
      <4>2. CASE j # 1
        <5>. DEFINE i == j - 1
        <5>1. i \in 1 .. Len(w) /\ j = i + 1 /\ i \in Nat
          BY <3>2, <3>5, <4>2
        <5>. HIDE DEF i
        <5>2. PICK v \in V : w[i] = t[v] /\ Before(V, v) = b + 1 + i - 1
          BY <3>4, <5>1
        <5>3. walk[p][j] = t[v]
          BY <3>2, <3>5, <5>1, <5>2
        <5>4. Before(V, v) = b + j - 1
          BY <3>3, <5>1, <5>2
        <5>. QED
          BY <5>3, <5>4
      <4>. QED
        BY <4>1, <4>2
    <3>. QED
      BY <3>2, <3>5, <3>6 DEF b
  <2>. QED
    BY <2>1, <2>2
<1>10. T = Nat
  <2>. HIDE DEF T
  <2>. QED
    BY <1>8, <1>9, SetInduction DEF T
<1>11. walk[1] \in Seq(U) /\ Lists(1)
  <2>1. Len(t) + 1 \in T
    <3>. HIDE DEF T
    <3>. QED
      BY <1>6, <1>10
  <2>2. Len(t) + 1 - 1 < Len(t) + 1 /\ 1 \in Nat
    BY <1>6
  <2>. HIDE DEF Lists
  <2>. QED
    BY <1>6, <2>1, <2>2, Zenon
<1>12. ASSUME NEW i \in 1 .. Len(walk[1])
       PROVE  \E v \in V : walk[1][i] = t[v] /\ Before(V, v) = i - 1
  <2>1. PICK v \in V : walk[1][i] = t[v] /\ Before(V, v) = Before(V, 1) + i - 1
    BY <1>11
  <2>2. i \in Nat /\ Before(V, v) = i - 1
    BY <1>4, <1>11, <2>1
  <2>. QED
    BY <2>1, <2>2
<1>13. Len(walk[1]) \in Nat
  BY <1>11
<1>. QED
  BY <1>1, <1>12, <1>13 DEF V

-----------------------------------------------------------------------------
(***************************************************************************)
(* The objects that are made from a table.                                 *)
(***************************************************************************)

\* What ShowsTheFirst says, of any table.
ShowsFirst(t, objs, structures) ==
    /\ \A k \in 1 .. Len(objs) :
           \E p \in structures : objs[k].shows = t[p] /\ Before(structures, p) = k - 1
    /\ WellFormed(t) => Len(objs) = Min({limitEntryLen, Cardinality(structures)})

\* The length of a sequence that is given as a function.
LEMMA LengthIs ==
    ASSUME NEW n \in Nat, NEW f, f = [k \in 1 .. n |-> f[k]]
    PROVE  Len(f) = n
<1>1. f \in Seq({f[k] : k \in 1 .. n})
  <2>1. f \in [1 .. n -> {f[k] : k \in 1 .. n}]
    OBVIOUS
  <2>. QED
    BY <2>1
<1>2. DOMAIN f = 1 .. n
  OBVIOUS
<1>. QED
  BY <1>1, <1>2

\* The smaller of two numbers.
LEMMA MinIs ==
    ASSUME NEW a \in Nat, NEW b \in Nat, NEW n \in Nat, n <= a, n <= b, n = a \/ n = b
    PROVE  n = Min({a, b})
<1>1. n \in {a, b} /\ \A y \in {a, b} : n <= y
  OBVIOUS
<1>2. \A x \in {a, b} : (\A y \in {a, b} : x <= y) => x = n
  OBVIOUS
<1>. QED
  BY <1>1, <1>2, Zenon DEF Min

\* The least element of a set of numbers.
LEMMA MinOf ==
    ASSUME NEW S \in SUBSET Nat, S # {}
    PROVE  Min(S) \in S /\ \A y \in S : Min(S) <= y
<1>1. \E x \in S : \A y \in S : x <= y
  BY LeastElement
<1>. QED
  BY <1>1, Zenon DEF Min

\* Structures that a walk cannot reach are not in front of one that it can.
LEMMA SameRank ==
    ASSUME NEW t, IsTable(t), NEW typeId, NEW C \in SUBSET OfType(t, typeId),
           NEW p \in Visible(t, typeId)
    PROVE  Before(Visible(t, typeId) \cap C, p) = Before(C, p)
<1>1. \A q \in C : q < p => q \in Visible(t, typeId)
  BY VisibleFacts
<1>2. {q \in Visible(t, typeId) \cap C : q < p} = {q \in C : q < p}
  BY <1>1, Zenon
<1>. QED
  BY <1>2 DEF Before

\* Objects made for the structures that were counted, each for its own.
LEMMA ShownInOrder ==
    ASSUME NEW t, IsTable(t), NEW typeId, NEW C \in SUBSET OfType(t, typeId), NEW objs,
           objs = [k \in 1 .. CountAll(t, typeId, C) |-> objs[k]],
           \A k \in 1 .. CountAll(t, typeId, C) :
               \E p \in Visible(t, typeId) \cap C :
                   /\ objs[k].shows = t[p]
                   /\ Before(Visible(t, typeId) \cap C, p) = k - 1
    PROVE  ShowsFirst(t, objs, C)
<1>. DEFINE n == CountAll(t, typeId, C)
            K == Visible(t, typeId) \cap C
<1>1. /\ n \in Nat /\ n <= limitEntryLen /\ n <= Cardinality(K)
      /\ n = limitEntryLen \/ n = Cardinality(K)
  BY CountFinds
<1>2. Len(objs) = n
  <2>. HIDE DEF n
  <2>. QED
    BY <1>1, LengthIs DEF n
<1>3. ASSUME NEW k \in 1 .. Len(objs)
      PROVE  \E p \in C : objs[k].shows = t[p] /\ Before(C, p) = k - 1
  <2>1. PICK p \in K : objs[k].shows = t[p] /\ Before(K, p) = k - 1
    BY <1>2
  <2>2. Before(K, p) = Before(C, p)
    BY SameRank
  <2>. QED
    BY <2>1, <2>2
<1>4. ASSUME WellFormed(t) PROVE n = Min({limitEntryLen, Cardinality(C)})
  <2>1. K = C
    BY <1>4, AllVisible, Zenon
  <2>2. Cardinality(C) \in Nat
    <3>1. Len(t) \in Nat /\ OfType(t, typeId) \in SUBSET (1 .. Len(t))
      BY VisibleFacts
    <3>2. C \in SUBSET (0 .. Len(t))
      BY <3>1
    <3>. QED
      BY <3>1, <3>2, FiniteParts
  <2>3. limitEntryLen \in Nat
    BY TableAssumption
  <2>. HIDE DEF n, K
  <2>. QED
    BY <1>1, <2>1, <2>2, <2>3, MinIs
<1>. HIDE DEF n, K
<1>. QED
  BY <1>2, <1>3, <1>4 DEF ShowsFirst

\* The structure that an object with a number below the count is made from.
LEMMA IndexShown ==
    ASSUME NEW t, IsTable(t), NEW typeId, NEW k \in 1 .. getTotalNum(t, typeId)
    PROVE  /\ getSMBIOSTypeIndexPtr(t, typeId, k - 1) \in Visible(t, typeId) \cap OfType(t, typeId)
           /\ Before(Visible(t, typeId) \cap OfType(t, typeId),
                     getSMBIOSTypeIndexPtr(t, typeId, k - 1)) = k - 1
<1>. DEFINE V == Visible(t, typeId)
            n == getTotalNum(t, typeId)
<1>1. V \cap OfType(t, typeId) = V
  BY VisibleFacts, Zenon
<1>2. n \in Nat /\ n <= Cardinality(V)
  <2>1. LET m == CountAll(t, typeId, OfType(t, typeId))
            card == Cardinality(V \cap OfType(t, typeId))
        IN  m \in Nat /\ m <= card
    BY CountFinds
  <2>. QED
    BY <1>1, <2>1, Zenon DEF getTotalNum
<1>3. Cardinality(V) \in Nat
  BY VisibleFacts, CountBehind
<1>4. k - 1 \in Nat /\ ~ (k - 1 >= Cardinality(V))
  <2>. HIDE DEF V, n
  <2>1. k \in 1 .. n
    BY DEF n
  <2>. QED
    BY <1>2, <1>3, <2>1
<1>5. LET q == getSMBIOSTypeIndexPtr(t, typeId, k - 1)
      IN  \/ q = nullptr /\ k - 1 >= Cardinality(V)
          \/ q \in V /\ Before(V, q) = k - 1 /\ k - 1 < Cardinality(V)
  BY <1>4, IndexFinds, Zenon
<1>. QED
  BY <1>1, <1>4, <1>5, Zenon

\* The PCIe slot that a Pcie object with a number below the count is made from.
LEMMA SlotShown ==
    ASSUME NEW t, IsTable(t), NEW k \in 1 .. getTotalPcieSlot(t)
    PROVE  /\ PcieSlotPtr(t, k - 1) # nullptr
           /\ PcieSlotPtr(t, k - 1) \in Visible(t, systemSlots) \cap PcieSlots(t)
           /\ (OfType(t, systemSlots) # {} => Min(OfType(t, systemSlots)) \in PcieSlots(t))
                  => Before(Visible(t, systemSlots) \cap PcieSlots(t), PcieSlotPtr(t, k - 1)) = k - 1
<1>. DEFINE V == Visible(t, systemSlots)
            O == OfType(t, systemSlots)
            P == PcieSlots(t)
            K == V \cap P
            n == getTotalPcieSlot(t)
            first == getSMBIOSTypePtr(t, 1, systemSlots, 0)
<1>1. n \in Nat /\ n <= Cardinality(K)
  BY CountFinds DEF getTotalPcieSlot
<1>2. Len(t) \in Nat /\ V \in SUBSET (1 .. Len(t)) /\ K \in SUBSET V /\ V \subseteq O
      /\ O \in SUBSET (1 .. Len(t))
  BY VisibleFacts
<1>3. Cardinality(K) \in Nat
  <2>. HIDE DEF K, V
  <2>. QED
    BY <1>2, CountBehind
<1>4. k - 1 \in Nat /\ k - 1 < Cardinality(K)
  <2>. HIDE DEF K, n
  <2>1. k \in 1 .. n
    BY DEF n
  <2>. QED
    BY <1>1, <1>3, <2>1
<1>5. LET y == PcieSlotPtr(t, k - 1)
      IN  /\ y \in K /\ y # nullptr
          /\ first \in K => Before(K, y) = k - 1
  BY <1>4, SlotFinds, Zenon
<1>6. ASSUME O # {} => Min(O) \in P PROVE first \in K
  <2>1. FirstFrom(V, 1, first)
    BY VisibleFacts, SearchFinds
  <2>. HIDE DEF first
  <2>2. PICK v \in V : v \in O
    BY <1>2, <1>5
  <2>3. first \in V /\ \A w \in V : w >= 1 => w >= first
    BY <1>2, <2>1, <2>2 DEF FirstFrom
  <2>4. Min(O) \in O /\ \A w \in O : Min(O) <= w
    BY <1>2, <2>2, MinOf
  <2>5. Min(O) < first => Min(O) \in V
    BY <2>3, <2>4, VisibleFacts
  <2>6. Min(O) = first
    <3>. HIDE DEF V, O
    <3>1. first \in O
      BY <1>2, <2>3
    <3>2. first \in Nat /\ Min(O) \in Nat /\ Min(O) >= 1
      <4>1. \A w \in O : w \in Nat /\ w >= 1
        BY <1>2
      <4>. QED
        BY <2>4, <3>1, <4>1, Zenon
    <3>. QED
      BY <2>3, <2>4, <2>5, <3>1, <3>2
  <2>. QED
    BY <1>6, <2>2, <2>3, <2>6
<1>. QED
  BY <1>5, <1>6, Zenon

-----------------------------------------------------------------------------
\* The processors and memory devices that systemInfoUpdate makes.
LEMMA NewObjectsShow ==
    ASSUME NEW t, IsTable(t), NEW boards, NEW board, NEW modules
    PROVE  /\ ShowsFirst(t, NewCpus(t, board, modules), OfType(t, processorsType))
           /\ ShowsFirst(t, NewDimms(t, boards, board), OfType(t, memoryDeviceType))
<1>1. ShowsFirst(t, NewCpus(t, board, modules), OfType(t, processorsType))
  <2>. DEFINE objs == NewCpus(t, board, modules)
              X == processorsType
              O == OfType(t, X)
              n == CountAll(t, X, O)
  <2>1. getTotalNum(t, X) = n /\ objs = [k \in 1 .. n |-> NewCpu(t, k - 1, board, modules)]
    BY DEF NewCpus, getTotalCpuSlot, getTotalNum
  <2>2. \A k \in 1 .. n : NewCpu(t, k - 1, board, modules).shows
                              = t[getSMBIOSTypeIndexPtr(t, X, k - 1)]
    BY DEF NewCpu, Object
  <2>3. \A k \in 1 .. n : objs[k] = NewCpu(t, k - 1, board, modules)
    BY <2>1
  <2>4. objs = [k \in 1 .. n |-> objs[k]]
    BY <2>1
  <2>. HIDE DEF objs, n, X
  <2>5. ASSUME NEW k \in 1 .. n
        PROVE  \E p \in Visible(t, X) \cap O : objs[k].shows = t[p]
                                               /\ Before(Visible(t, X) \cap O, p) = k - 1
    <3>1. objs[k].shows = t[getSMBIOSTypeIndexPtr(t, X, k - 1)]
      BY <2>2, <2>3, Zenon
    <3>. QED
      BY <2>1, <3>1, IndexShown, Zenon
  <2>6. O \in SUBSET OfType(t, X)
    OBVIOUS
  <2>. HIDE DEF O
  <2>. QED
    BY <2>4, <2>5, <2>6, ShownInOrder, Zenon DEF objs, n, X, O
<1>2. ShowsFirst(t, NewDimms(t, boards, board), OfType(t, memoryDeviceType))
  <2>. DEFINE objs == NewDimms(t, boards, board)
              X == memoryDeviceType
              O == OfType(t, X)
              n == CountAll(t, X, O)
  <2>1. getTotalNum(t, X) = n /\ objs = [k \in 1 .. n |-> NewDimm(t, k - 1, boards, board)]
    BY DEF NewDimms, getTotalDimmSlot, getTotalNum
  <2>2. \A k \in 1 .. n : NewDimm(t, k - 1, boards, board).shows
                              = t[getSMBIOSTypeIndexPtr(t, X, k - 1)]
    BY DEF NewDimm, Object
  <2>3. \A k \in 1 .. n : objs[k] = NewDimm(t, k - 1, boards, board)
    BY <2>1
  <2>4. objs = [k \in 1 .. n |-> objs[k]]
    BY <2>1
  <2>. HIDE DEF objs, n, X
  <2>5. ASSUME NEW k \in 1 .. n
        PROVE  \E p \in Visible(t, X) \cap O : objs[k].shows = t[p]
                                               /\ Before(Visible(t, X) \cap O, p) = k - 1
    <3>1. objs[k].shows = t[getSMBIOSTypeIndexPtr(t, X, k - 1)]
      BY <2>2, <2>3, Zenon
    <3>. QED
      BY <2>1, <3>1, IndexShown, Zenon
  <2>6. O \in SUBSET OfType(t, X)
    OBVIOUS
  <2>. HIDE DEF O
  <2>. QED
    BY <2>4, <2>5, <2>6, ShownInOrder, Zenon DEF objs, n, X, O
<1>. QED
  BY <1>1, <1>2

\* The PCIe objects that systemInfoUpdate makes or updates, each from a slot.
LEMMA NewPciesFound ==
    ASSUME NEW t, IsTable(t), NEW board, NEW k \in 1 .. getTotalPcieSlot(t)
    PROVE  LET old == IF k > Len(pcies) THEN Object(PciePath(board, k - 1), Nothing, NoPath)
                      ELSE pcies[k]
           IN  /\ NewPcies(t, board)[k].path = old.path
               /\ NewPcies(t, board)[k].shows = t[PcieSlotPtr(t, k - 1)]
               /\ NewPcies(t, board)[k].chassis = IF board = NoPath THEN old.chassis ELSE board
<1>. DEFINE old == IF k > Len(pcies) THEN Object(PciePath(board, k - 1), Nothing, NoPath)
                   ELSE pcies[k]
<1>1. NewPcies(t, board)[k] = pcieInfoUpdate(old, t, k - 1, board)
  BY DEF NewPcies
<1>2. PcieSlotPtr(t, k - 1) # nullptr
  BY SlotShown
<1>. HIDE DEF old
<1>3. pcieInfoUpdate(old, t, k - 1, board)
          = Object(old.path, t[PcieSlotPtr(t, k - 1)], IF board = NoPath THEN old.chassis ELSE board)
  BY <1>2, Zenon DEF pcieInfoUpdate
<1>. QED
  BY <1>1, <1>3 DEF Object, old

\* They show the PCIe slots, if the first slot of the table is one.
LEMMA NewPciesShow ==
    ASSUME NEW t, IsTable(t), NEW board,
           OfType(t, systemSlots) # {} => Min(OfType(t, systemSlots)) \in PcieSlots(t)
    PROVE  ShowsFirst(t, NewPcies(t, board), PcieSlots(t))
<1>. DEFINE objs == NewPcies(t, board)
            X == systemSlots
            P == PcieSlots(t)
            n == CountAll(t, X, P)
<1>1. getTotalPcieSlot(t) = n
  BY DEF getTotalPcieSlot
<1>2. objs = [k \in 1 .. n |-> objs[k]]
  BY <1>1 DEF NewPcies
<1>3. P \in SUBSET OfType(t, X)
  BY DEF PcieSlots
<1>. HIDE DEF objs, n, P
<1>4. ASSUME NEW k \in 1 .. n
      PROVE  \E p \in Visible(t, X) \cap P : objs[k].shows = t[p]
                                             /\ Before(Visible(t, X) \cap P, p) = k - 1
  <2>1. objs[k].shows = t[PcieSlotPtr(t, k - 1)]
    BY <1>1, NewPciesFound DEF objs
  <2>2. /\ PcieSlotPtr(t, k - 1) \in Visible(t, X) \cap P
        /\ Before(Visible(t, X) \cap P, PcieSlotPtr(t, k - 1)) = k - 1
    BY <1>1, SlotShown DEF P
  <2>. QED
    BY <2>1, <2>2
<1>. HIDE DEF X
<1>. QED
  BY <1>2, <1>3, <1>4, ShownInOrder, Zenon DEF objs, n, P, X

-----------------------------------------------------------------------------
\* The table is one that a host sent or the file held, or there is none.
TableKnown == table \in Tables \cup StartTables \cup {<<>>}

\* Whatever is in the storage is a table.
LEMMA KnownIsTable ==
    ASSUME TableKnown
    PROVE  IsTable(table)
<1>1. IsTable(<<>>)
  BY DEF IsTable
<1>. QED
  BY <1>1, InventoryAssumption DEF TableKnown

\* The two ways of saying that objects show the first structures.
LEMMA ShowsSame ==
    ASSUME NEW objs, NEW structures
    PROVE  ShowsTheFirst(objs, structures) <=> ShowsFirst(table, objs, structures)
  BY DEF ShowsTheFirst, ShowsFirst, Before

\* What systemInfoUpdate makes of a table is what the table has.
LEMMA UpdateMatches ==
    ASSUME TableKnown, table' = table, NEW failed, systemInfoUpdate(failed)
    PROVE  InventoryMatchesTable'
<1>. DEFINE known == Answer(failed)
            board == FindMotherboard(known.anchors)
            slots == OfType(table, systemSlots)
<1>1. /\ cpus' = NewCpus(table, board, known.modules)
      /\ dimms' = NewDimms(table, NewBaseboards(table), board)
      /\ pcies' = NewPcies(table, board)
  BY DEF systemInfoUpdate
<1>2. IsTable(table)
  BY KnownIsTable
<1>. HIDE DEF known, board
<1>3. ShowsFirst(table, cpus', OfType(table, processorsType))
  BY <1>1, <1>2, NewObjectsShow
<1>4. ShowsFirst(table, dimms', OfType(table, memoryDeviceType))
  BY <1>1, <1>2, NewObjectsShow
<1>5. (slots # {} => Min(slots) \in PcieSlots(table)) => ShowsFirst(table, pcies', PcieSlots(table))
  BY <1>1, <1>2, NewPciesShow
<1>. QED
  BY <1>3, <1>4, <1>5, Zenon DEF InventoryMatchesTable, ShowsTheFirst, ShowsFirst, Before

\* Without a table there are no objects.
LEMMA NothingShown ==
    ASSUME Init
    PROVE  InventoryMatchesTable
<1>. SUFFICES ASSUME ~ publication PROVE InventoryMatchesTable
  BY DEF InventoryMatchesTable
<1>1. table = <<>> /\ cpus = <<>> /\ dimms = <<>> /\ pcies = <<>>
  BY DEF Init
<1>2. Len(<<>>) = 0 /\ 1 .. 0 = {}
  OBVIOUS
<1>3. \A typeId : OfType(table, typeId) = {}
  BY <1>1, <1>2 DEF OfType
<1>4. PcieSlots(table) = {}
  BY <1>3 DEF PcieSlots
<1>5. Len(<<>>) = Min({limitEntryLen, Cardinality({})})
  <2>1. Cardinality({}) = 0
    BY FS_EmptySet
  <2>2. 0 = Min({limitEntryLen, 0})
    BY MinIs, TableAssumption
  <2>. QED
    BY <1>2, <2>1, <2>2
<1>6. ShowsTheFirst(<<>>, {})
  BY <1>2, <1>5 DEF ShowsTheFirst
<1>. QED
  BY <1>1, <1>3, <1>4, <1>6, Zenon DEF InventoryMatchesTable

\* The objects change with a publication or a signal only.
LEMMA OtherSteps ==
    ASSUME Next, TableKnown
    PROVE  /\ TableKnown'
           /\ \/ publication' /\ UNCHANGED objects
              \/ UNCHANGED <<table, publication, objects>>
              \/ table' = table /\ \E failed \in Failures : systemInfoUpdate(failed)
<1>1. TableKnown'
  BY DEF Next, TableKnown, agentSynchronizeData, Publish, InterfacesAdded, Appear, Disappear,
     VersionsChange
<1>2. CASE agentSynchronizeData
  BY <1>1, <1>2 DEF agentSynchronizeData
<1>3. CASE Publish
  BY <1>1, <1>3 DEF Publish
<1>4. CASE InterfacesAdded
  BY <1>1, <1>4 DEF InterfacesAdded
<1>5. CASE Appear \/ Disappear \/ VersionsChange
  BY <1>1, <1>5 DEF Appear, Disappear, VersionsChange
<1>. QED
  BY <1>2, <1>3, <1>4, <1>5 DEF Next

\* The invariant: the table is one of the known ones, and its objects match it.
LEMMA InventoryInvariant == Spec => [](TableKnown /\ InventoryMatchesTable)
<1>. DEFINE Inv == TableKnown /\ InventoryMatchesTable
<1>1. Init => Inv
  BY NothingShown DEF Init, TableKnown
<1>2. Inv /\ [Next]_vars => Inv'
  <2>. SUFFICES ASSUME Inv, [Next]_vars PROVE Inv'
    OBVIOUS
  <2>1. CASE UNCHANGED vars
    BY <2>1 DEF vars, objects, TableKnown, InventoryMatchesTable, ShowsTheFirst
  <2>2. CASE Next
    <3>1. TableKnown'
      BY <2>2, OtherSteps
    <3>2. CASE publication' /\ UNCHANGED objects
      BY <3>1, <3>2 DEF InventoryMatchesTable
    <3>3. CASE UNCHANGED <<table, publication, objects>>
      BY <3>1, <3>3 DEF objects, InventoryMatchesTable, ShowsTheFirst
    <3>4. CASE table' = table /\ \E failed \in Failures : systemInfoUpdate(failed)
      BY <3>1, <3>4, UpdateMatches
    <3>. QED
      BY <2>2, <3>2, <3>3, <3>4, OtherSteps
  <2>. QED
    BY <2>1, <2>2
<1>. QED
  BY <1>1, <1>2, PTL DEF Spec

\* Once a table is published the objects are those of the table, one for each structure
\* and in its order (systemInfoUpdate), for every table and every history of tables,
\* signals and failed lookups.
THEOREM InventoryAlwaysMatches == Spec => []InventoryMatchesTable
  BY InventoryInvariant, PTL

\* Records and memory objects that are in the order of the structures are the same.
LEMMA RecordsMatch ==
    ASSUME TableKnown, InventoryMatchesTable
    PROVE  RecordsMatchDimms
<1>. DEFINE X == memoryDeviceType
            O == OfType(table, X)
            V == Visible(table, X)
            records == getRecordType(table)
<1>. SUFFICES ASSUME ~ publication, NEW i \in (1 .. Len(records)) \cap (1 .. Len(dimms))
              PROVE  records[i] = dimms[i].shows
  BY DEF RecordsMatchDimms
<1>1. IsTable(table)
  BY KnownIsTable
<1>2. ShowsFirst(table, dimms, O)
  BY ShowsSame DEF InventoryMatchesTable
<1>3. PICK p \in O : dimms[i].shows = table[p] /\ Before(O, p) = i - 1
  BY <1>2 DEF ShowsFirst
<1>4. PICK v \in V : records[i] = table[v] /\ Before(V, v) = i - 1
  BY <1>1, RecordsFound
<1>5. Len(table) \in Nat /\ O \in SUBSET (1 .. Len(table)) /\ V \subseteq O
  BY <1>1, VisibleFacts
<1>6. V \cap O = V /\ O \in SUBSET O /\ v \in O
  BY <1>5, Zenon
<1>7. Before(O, v) = i - 1
  BY <1>1, <1>4, <1>6, SameRank
<1>8. p = v
  <2>. HIDE DEF O, V
  <2>. QED
    BY <1>3, <1>5, <1>6, <1>7, RankIsUnique
<1>. QED
  BY <1>3, <1>4, <1>8

\* The answer of GetRecordType, which walks over the storage by itself, agrees with the
\* memory objects that systemInfoUpdate made, record by record.
THEOREM RecordsAlwaysMatch == Spec => []RecordsMatchDimms
  BY InventoryInvariant, RecordsMatch, PTL

-----------------------------------------------------------------------------
\* What systemInfoUpdate leaves in the PCIe and memory objects.
LEMMA UpdateObjects ==
    ASSUME TableKnown, NEW failed, systemInfoUpdate(failed)
    PROVE  \E board :
               /\ Len(pcies') = getTotalPcieSlot(table) /\ Len(pcies') \in Nat
               /\ Len(dimms') = getTotalDimmSlot(table) /\ Len(dimms') \in Nat
               /\ \A k \in 1 .. Len(pcies') :
                      LET old == IF k > Len(pcies)
                                 THEN Object(PciePath(board, k - 1), Nothing, NoPath)
                                 ELSE pcies[k]
                      IN  /\ pcies'[k].path = old.path
                          /\ pcies'[k].chassis = IF board = NoPath THEN old.chassis ELSE board
               /\ \A k \in 1 .. Len(dimms') :
                      dimms'[k] = NewDimm(table, k - 1, NewBaseboards(table), board)
<1>. DEFINE board == FindMotherboard(Answer(failed).anchors)
            boards == NewBaseboards(table)
            n == getTotalPcieSlot(table)
            m == getTotalDimmSlot(table)
<1>1. dimms' = NewDimms(table, boards, board) /\ pcies' = NewPcies(table, board)
  BY DEF systemInfoUpdate
<1>2. IsTable(table)
  BY KnownIsTable
<1>3. n \in Nat /\ m \in Nat
  BY <1>2, CountFinds DEF getTotalPcieSlot, getTotalDimmSlot, getTotalNum
<1>. HIDE DEF board, boards
<1>4. /\ pcies' = [k \in 1 .. n |-> pcies'[k]]
      /\ dimms' = [k \in 1 .. m |-> dimms'[k]]
      /\ \A k \in 1 .. m : dimms'[k] = NewDimm(table, k - 1, boards, board)
  BY <1>1 DEF NewPcies, NewDimms
<1>5. Len(pcies') = n /\ Len(dimms') = m
  <2>. HIDE DEF n, m
  <2>. QED
    BY <1>3, <1>4, LengthIs
<1>6. ASSUME NEW k \in 1 .. n
      PROVE  LET old == IF k > Len(pcies) THEN Object(PciePath(board, k - 1), Nothing, NoPath)
                        ELSE pcies[k]
             IN  /\ pcies'[k].path = old.path
                 /\ pcies'[k].chassis = IF board = NoPath THEN old.chassis ELSE board
  BY <1>1, <1>2, NewPciesFound
<1>. QED
  BY <1>3, <1>4, <1>5, <1>6 DEF boards

\* The slots and memory devices that name a chassis name the same one: for any coming
\* and going of system objects and any failed lookups, though pcieInfoUpdate keeps the
\* association of a slot where it finds no motherboard.
THEOREM OneChassisAlways == Spec => []OneChassis
<1>. DEFINE Inv == TableKnown /\ Len(pcies) \in Nat /\ OneChassis
<1>1. Init => Inv
  <2>. SUFFICES ASSUME Init PROVE Inv
    OBVIOUS
  <2>1. pcies = <<>> /\ dimms = <<>> /\ Len(<<>>) = 0 /\ 1 .. 0 = {}
    BY DEF Init
  <2>. QED
    BY <2>1 DEF Init, TableKnown, OneChassis
<1>2. Inv /\ [Next]_vars => Inv'
  <2>. SUFFICES ASSUME Inv, [Next]_vars PROVE Inv'
    OBVIOUS
  <2>1. CASE UNCHANGED vars
    BY <2>1 DEF vars, objects, TableKnown, OneChassis
  <2>2. CASE Next
    <3>1. TableKnown'
      BY <2>2, OtherSteps
    <3>2. CASE UNCHANGED objects
      BY <3>1, <3>2 DEF objects, OneChassis
    <3>3. ASSUME NEW failed \in Failures, systemInfoUpdate(failed) PROVE Inv'
      <4>1. PICK board :
               /\ Len(pcies') = getTotalPcieSlot(table) /\ Len(pcies') \in Nat
               /\ Len(dimms') = getTotalDimmSlot(table) /\ Len(dimms') \in Nat
               /\ \A k \in 1 .. Len(pcies') :
                      LET old == IF k > Len(pcies)
                                 THEN Object(PciePath(board, k - 1), Nothing, NoPath)
                                 ELSE pcies[k]
                      IN  /\ pcies'[k].path = old.path
                          /\ pcies'[k].chassis = IF board = NoPath THEN old.chassis ELSE board
               /\ \A k \in 1 .. Len(dimms') :
                      dimms'[k] = NewDimm(table, k - 1, NewBaseboards(table), board)
        BY <3>3, UpdateObjects
      <4>2. \A k \in 1 .. Len(dimms') : dimms'[k].chassis = board
        <5>1. \A k, boards : NewDimm(table, k - 1, boards, board).chassis = board
          BY DEF NewDimm, Object
        <5>. QED
          BY <4>1, <5>1, Zenon
      <4>3. ASSUME NEW k \in 1 .. Len(pcies'), pcies'[k].chassis # NoPath
            PROVE  \/ board # NoPath /\ pcies'[k].chassis = board
                   \/ board = NoPath /\ k \in 1 .. Len(pcies) /\ pcies'[k].chassis = pcies[k].chassis
        <5>1. CASE board # NoPath
          BY <4>1, <5>1
        <5>2. CASE board = NoPath /\ k > Len(pcies)
          BY <4>1, <4>3, <5>2 DEF Object
        <5>3. CASE board = NoPath /\ ~ (k > Len(pcies))
          <6>1. k \in 1 .. Len(pcies)
            BY <5>3
          <6>. QED
            BY <4>1, <5>3, <6>1
        <5>. QED
          BY <5>1, <5>2, <5>3
      <4>4. OneChassis'
        BY <4>2, <4>3 DEF OneChassis
      <4>. QED
        BY <3>1, <4>1, <4>4
    <3>. QED
      BY <2>2, <3>2, <3>3, OtherSteps DEF objects
  <2>. QED
    BY <2>1, <2>2
<1>. QED
  BY <1>1, <1>2, PTL DEF Spec

-----------------------------------------------------------------------------
\* Handles are distinct, as SMBIOS demands.
HandlesDistinct(t) == \A p, q \in 1 .. Len(t) : t[p].handle = t[q].handle => p = q

\* A board that a memory device is on: its name, as a pair.
LEMMA BoardNames ==
    ASSUME NEW t, IsTable(t), NEW b \in 1 .. getTotalNum(t, baseboardType)
    PROVE  LET M(x) == t[getSMBIOSTypeIndexPtr(t, baseboardType, x)].module
           IN  /\ NewBaseboards(t)[b] = Baseboard(t, b - 1)
               /\ Baseboard(t, b - 1).name =
                      IF M(b - 1) THEN <<"ProcessorModule", Cardinality({x \in 0 .. (b - 1 - 1) : M(x)})>>
                      ELSE <<"Board", b - 1>>
<1>1. NewBaseboards(t)[b] = Baseboard(t, b - 1)
  BY DEF NewBaseboards
<1>. QED
  BY <1>1 DEF Baseboard

\* Boards have names of their own.
LEMMA BoardNamesDiffer ==
    ASSUME NEW t, IsTable(t), NEW b \in 1 .. getTotalNum(t, baseboardType),
           NEW c \in 1 .. getTotalNum(t, baseboardType), b < c
    PROVE  \/ NewBaseboards(t)[b].name[1] # NewBaseboards(t)[c].name[1]
           \/ NewBaseboards(t)[b].name[2] # NewBaseboards(t)[c].name[2]
<1>. DEFINE n == getTotalNum(t, baseboardType)
            M(x) == t[getSMBIOSTypeIndexPtr(t, baseboardType, x)].module
            S == {x \in 0 .. n : M(x)}
            F(x) == {y \in 0 .. (x - 1 - 1) : M(y)}
<1>1. n \in Nat
  BY CountFinds DEF getTotalNum
<1>2. /\ NewBaseboards(t)[b].name =
             IF M(b - 1) THEN <<"ProcessorModule", Cardinality(F(b))>> ELSE <<"Board", b - 1>>
      /\ NewBaseboards(t)[c].name =
             IF M(c - 1) THEN <<"ProcessorModule", Cardinality(F(c))>> ELSE <<"Board", c - 1>>
  BY BoardNames
<1>. HIDE DEF M, n
<1>3. b \in Nat /\ c \in Nat /\ b - 1 \in 0 .. n /\ c - 1 \in Nat /\ c - 1 <= n /\ b - 1 < c - 1
  BY <1>1 DEF n
<1>4. F(b) = {y \in S : y < b - 1} /\ F(c) = {y \in S : y < c - 1}
  <2>1. \A y : y \in 0 .. (b - 1 - 1) <=> y \in 0 .. n /\ y < b - 1
    BY <1>1, <1>3
  <2>2. \A y : y \in 0 .. (c - 1 - 1) <=> y \in 0 .. n /\ y < c - 1
    BY <1>1, <1>3
  <2>. QED
    BY <2>1, <2>2, Zenon
<1>5. CASE M(b - 1) /\ M(c - 1)
  <2>1. S \in SUBSET (0 .. n) /\ b - 1 \in S
    BY <1>3, <1>5
  <2>2. Cardinality(F(b)) < Cardinality(F(c))
    <3>. HIDE DEF S, F
    <3>. QED
      BY <1>1, <1>3, <1>4, <2>1, CountGrows
  <2>3. Cardinality(F(b)) \in Nat
    <3>. DEFINE x == b - 1
    <3>1. F(b) = {y \in S : y < x} /\ x \in Nat
      BY <1>3, <1>4
    <3>. HIDE DEF S, F, x
    <3>2. Cardinality({y \in S : y < x}) \in Nat
      BY <1>1, <2>1, <3>1, CountNext
    <3>. QED
      BY <3>1, <3>2
  <2>. HIDE DEF F
  <2>. QED
    BY <1>2, <1>5, <2>2, <2>3
<1>6. CASE ~ M(b - 1) \/ ~ M(c - 1)
  <2>. HIDE DEF F
  <2>. QED
    BY <1>2, <1>3, <1>6
<1>. QED
  BY <1>5, <1>6

\* A handle leads to the structure that has it.
LEMMA HandleFinds ==
    ASSUME NEW t, IsTable(t), HandlesDistinct(t), NEW v \in 1 .. Len(t),
           smbiosHandlePtr(t, t[v].handle) # nullptr
    PROVE  smbiosHandlePtr(t, t[v].handle) = v
<1>. DEFINE h == t[v].handle
            found == {q \in 1 .. Len(t) :
                         /\ t[q].handle = h
                         /\ \A r \in 1 .. (q - 1) : /\ t[r].handle # h
                                                    /\ smbiosNextPtr(t, r) # nullptr}
<1>1. smbiosHandlePtr(t, h) = IF found = {} THEN nullptr ELSE CHOOSE q \in found : TRUE
  BY DEF smbiosHandlePtr
<1>2. \A q \in found : q = v
  BY DEF HandlesDistinct
<1>. HIDE DEF found
<1>. QED
  BY <1>1, <1>2

\* Where a memory device is among the objects of a board: the place counts the memory
\* devices in front of it.
LEMMA PlaceOnBoard ==
    ASSUME NEW t, IsTable(t), HandlesDistinct(t), NEW b \in 1 .. getTotalNum(t, baseboardType),
           NEW v \in OfType(t, memoryDeviceType),
           Contains(NewBaseboards(t)[b], t[v].handle)
    PROVE  LET objs == NewBaseboards(t)[b].containedObjects
               E == {i \in DOMAIN objs : objs[i].type = memoryDeviceType}
           IN  \E at \in E : /\ objs[at].handle = t[v].handle
                             /\ findIndexOfType(NewBaseboards(t)[b], t[v].handle) = Before(E, at)
<1>. DEFINE board == NewBaseboards(t)[b]
            objs == board.containedObjects
            h == t[v].handle
            p == getSMBIOSTypeIndexPtr(t, baseboardType, b - 1)
            raw == t[p]
            Found(i) == smbiosHandlePtr(t, raw.contains[i])
            known == {i \in 1 .. Len(raw.contains) : Found(i) # nullptr}
            E == {i \in DOMAIN objs : objs[i].type = memoryDeviceType}
            A == {i \in DOMAIN objs : objs[i].handle = h}
            at == Min(A)
<1>1. objs = [i \in known |-> [handle |-> raw.contains[i], type |-> t[Found(i)].type]]
  <2>1. board = Baseboard(t, b - 1)
    BY BoardNames
  <2>2. Baseboard(t, b - 1).containedObjects
            = [i \in known |-> [handle |-> raw.contains[i], type |-> t[Found(i)].type]]
    BY DEF Baseboard
  <2>. QED
    BY <2>1, <2>2, Zenon
<1>2. Len(raw.contains) \in Nat
  BY IndexShown DEF OfType, IsTable, baseboardType
<1>3. v \in 1 .. Len(t) /\ t[v].type = memoryDeviceType
  BY DEF OfType
<1>4. DOMAIN objs = known /\ \A i \in known : objs[i].handle = raw.contains[i]
                                              /\ objs[i].type = t[Found(i)].type
  <2>. HIDE DEF known, raw, Found, objs
  <2>. QED
    BY <1>1
<1>5. \A i \in A : i \in E
  <2>. SUFFICES ASSUME NEW i \in A PROVE i \in E
    OBVIOUS
  <2>. HIDE DEF objs, raw
  <2>1. i \in known /\ raw.contains[i] = h
    BY <1>4
  <2>2. Found(i) = v
    BY <1>3, <2>1, HandleFinds
  <2>. QED
    BY <1>3, <1>4, <2>1, <2>2
<1>6. A # {}
  BY DEF Contains
<1>7. A \in SUBSET Nat
  <2>. HIDE DEF objs, raw
  <2>. QED
    BY <1>2, <1>4
<1>8. at \in A
  <2>. HIDE DEF A
  <2>. QED
    BY <1>6, <1>7, MinOf
<1>9. findIndexOfType(board, h)
          = Cardinality({i \in DOMAIN objs : i < at /\ objs[i].type = objs[at].type})
  BY DEF findIndexOfType
<1>10. objs[at].type = memoryDeviceType /\ objs[at].handle = h /\ at \in E
  BY <1>5, <1>8
<1>. HIDE DEF at, objs
<1>11. {i \in DOMAIN objs : i < at /\ objs[i].type = objs[at].type} = {i \in E : i < at}
  BY <1>10, Zenon
<1>. HIDE DEF E, board
<1>. QED
  BY <1>9, <1>10, <1>11 DEF Before, objs, E, board

\* Memory devices on one board have places of their own.
LEMMA PlacesDiffer ==
    ASSUME NEW t, IsTable(t), HandlesDistinct(t), NEW b \in 1 .. getTotalNum(t, baseboardType),
           NEW v \in OfType(t, memoryDeviceType), NEW w \in OfType(t, memoryDeviceType), v # w,
           Contains(NewBaseboards(t)[b], t[v].handle), Contains(NewBaseboards(t)[b], t[w].handle)
    PROVE  findIndexOfType(NewBaseboards(t)[b], t[v].handle)
               # findIndexOfType(NewBaseboards(t)[b], t[w].handle)
<1>. DEFINE board == NewBaseboards(t)[b]
            objs == board.containedObjects
            E == {i \in DOMAIN objs : objs[i].type = memoryDeviceType}
<1>0. ASSUME NEW u \in OfType(t, memoryDeviceType), Contains(board, t[u].handle)
      PROVE  \E x \in E : objs[x].handle = t[u].handle
                          /\ findIndexOfType(board, t[u].handle) = Before(E, x)
  BY <1>0, PlaceOnBoard
<1>. HIDE DEF E, objs
<1>1. PICK x \in E : objs[x].handle = t[v].handle
                     /\ findIndexOfType(board, t[v].handle) = Before(E, x)
  BY <1>0
<1>2. PICK y \in E : objs[y].handle = t[w].handle
                     /\ findIndexOfType(board, t[w].handle) = Before(E, y)
  BY <1>0
<1>3. x # y
  <2>1. t[v].handle # t[w].handle
    BY DEF HandlesDistinct, OfType
  <2>. QED
    BY <1>1, <1>2, <2>1
<1>4. PICK n \in Nat : E \in SUBSET (1 .. n)
  <2>. DEFINE raw == t[getSMBIOSTypeIndexPtr(t, baseboardType, b - 1)]
  <2>1. Len(raw.contains) \in Nat
    BY IndexShown DEF OfType, IsTable, baseboardType
  <2>2. board = Baseboard(t, b - 1)
    BY BoardNames
  <2>3. DOMAIN Baseboard(t, b - 1).containedObjects \subseteq 1 .. Len(raw.contains)
    BY DEF Baseboard
  <2>. QED
    BY <2>1, <2>2, <2>3 DEF E, objs
<1>. HIDE DEF board
<1>5. Before(E, x) # Before(E, y)
  BY <1>3, <1>4, RankIsUnique
<1>. QED
  BY <1>1, <1>2, <1>5 DEF board

\* A name that is made of a board's name and a place.
LEMMA NameParts ==
    ASSUME NEW a, NEW b, NEW c
    PROVE  LET s == <<a, b>> \o <<c>> IN s[1] = a /\ s[2] = b /\ s[3] = c
  OBVIOUS

\* The name of a memory object: its place on the first board that has it, or its number.
LEMMA DimmName ==
    ASSUME NEW t, IsTable(t), NEW k \in 1 .. getTotalDimmSlot(t), NEW chassis
    PROVE  \E v, name :
               LET boards == NewBaseboards(t)
               IN  /\ v \in OfType(t, memoryDeviceType)
                   /\ Before(Visible(t, memoryDeviceType), v) = k - 1 /\ v \in Visible(t, memoryDeviceType)
                   /\ NewDimm(t, k - 1, boards, chassis).path = <<"DIMM", name>>
                   /\ \/ name = <<"Memory", k - 1>>
                      \/ \E b \in 1 .. getTotalNum(t, baseboardType) :
                             /\ Contains(boards[b], t[v].handle)
                             /\ name[1] = boards[b].name[1] /\ name[2] = boards[b].name[2]
                             /\ name[3] = findIndexOfType(boards[b], t[v].handle)
                             /\ name[1] \in {"ProcessorModule", "Board"}
<1>. DEFINE boards == NewBaseboards(t)
            v == getSMBIOSTypeIndexPtr(t, memoryDeviceType, k - 1)
            holders == {i \in 1 .. Len(boards) : Contains(boards[i], t[v].handle)}
            holder == boards[Min(holders)]
            name == IF holders = {} THEN <<"Memory", k - 1>>
                    ELSE holder.name \o <<findIndexOfType(holder, t[v].handle)>>
            n == getTotalNum(t, baseboardType)
            V == Visible(t, memoryDeviceType)
<1>1. v \in OfType(t, memoryDeviceType) /\ v \in V /\ Before(V, v) = k - 1
  <2>1. /\ v \in V \cap OfType(t, memoryDeviceType)
        /\ Before(V \cap OfType(t, memoryDeviceType), v) = k - 1
    BY IndexShown DEF getTotalDimmSlot
  <2>2. V \cap OfType(t, memoryDeviceType) = V
    BY VisibleFacts, Zenon
  <2>. QED
    BY <2>1, <2>2, Zenon
<1>2. NewDimm(t, k - 1, boards, chassis).path = <<"DIMM", name>>
  <2>1. NewDimm(t, k - 1, boards, chassis) = Object(<<"DIMM", name>>, t[v], chassis)
    BY DEF NewDimm
  <2>. HIDE DEF name
  <2>. QED
    BY <2>1 DEF Object
<1>3. n \in Nat /\ Len(boards) = n
  <2>1. n \in Nat
    BY CountFinds DEF getTotalNum
  <2>2. boards = [i \in 1 .. n |-> boards[i]]
    BY DEF NewBaseboards
  <2>. HIDE DEF n, boards
  <2>. QED
    BY <2>1, <2>2, LengthIs
<1>4. ASSUME holders # {}
      PROVE  \E b \in 1 .. n : /\ Contains(boards[b], t[v].handle)
                               /\ name[1] = boards[b].name[1] /\ name[2] = boards[b].name[2]
                               /\ name[3] = findIndexOfType(boards[b], t[v].handle)
                               /\ name[1] \in {"ProcessorModule", "Board"}
  <2>. DEFINE b == Min(holders)
  <2>1. b \in holders
    <3>1. holders \in SUBSET Nat
      BY <1>3
    <3>. HIDE DEF holders
    <3>. QED
      BY <1>4, <3>1, MinOf
  <2>2. b \in 1 .. n /\ Contains(boards[b], t[v].handle)
    BY <1>3, <2>1
  <2>. HIDE DEF b
  <2>3. PICK x, y : boards[b].name = <<x, y>> /\ x \in {"ProcessorModule", "Board"}
    BY <2>2, BoardNames
  <2>4. name = <<x, y>> \o <<findIndexOfType(boards[b], t[v].handle)>>
    BY <1>4, <2>3 DEF b
  <2>. HIDE DEF name, boards, v
  <2>5. name[1] = x /\ name[2] = y /\ name[3] = findIndexOfType(boards[b], t[v].handle)
    BY <2>4, NameParts
  <2>. QED
    BY <2>2, <2>3, <2>5
<1>5. holders = {} => name = <<"Memory", k - 1>>
  OBVIOUS
<1>. HIDE DEF name, holders
<1>. QED
  BY <1>1, <1>2, <1>4, <1>5, Zenon

\* Memory objects have names of their own.
LEMMA DimmNamesDiffer ==
    ASSUME NEW t, IsTable(t), HandlesDistinct(t), NEW j \in 1 .. getTotalDimmSlot(t),
           NEW k \in 1 .. getTotalDimmSlot(t), j # k, NEW chassis
    PROVE  NewDimm(t, j - 1, NewBaseboards(t), chassis).path
               # NewDimm(t, k - 1, NewBaseboards(t), chassis).path
<1>. DEFINE boards == NewBaseboards(t)
            V == Visible(t, memoryDeviceType)
            n == getTotalNum(t, baseboardType)
            OnBoard(name, v, b) == /\ Contains(boards[b], t[v].handle)
                                   /\ name[1] = boards[b].name[1] /\ name[2] = boards[b].name[2]
                                   /\ name[3] = findIndexOfType(boards[b], t[v].handle)
                                   /\ name[1] \in {"ProcessorModule", "Board"}
<1>1. PICK v, name :
          /\ v \in OfType(t, memoryDeviceType)
          /\ Before(V, v) = j - 1 /\ v \in V
          /\ NewDimm(t, j - 1, boards, chassis).path = <<"DIMM", name>>
          /\ name = <<"Memory", j - 1>> \/ \E b \in 1 .. n : OnBoard(name, v, b)
  BY DimmName
<1>2. PICK w, other :
          /\ w \in OfType(t, memoryDeviceType)
          /\ Before(V, w) = k - 1 /\ w \in V
          /\ NewDimm(t, k - 1, boards, chassis).path = <<"DIMM", other>>
          /\ other = <<"Memory", k - 1>> \/ \E b \in 1 .. n : OnBoard(other, w, b)
  BY DimmName
<1>3. n \in Nat /\ getTotalDimmSlot(t) \in Nat
  BY CountFinds DEF getTotalNum, getTotalDimmSlot
<1>4. j - 1 # k - 1
  BY <1>3
<1>5. v # w
  BY <1>1, <1>2, <1>4
<1>6. ASSUME name = other PROVE FALSE
  <2>1. CASE name = <<"Memory", j - 1>>
    <3>1. name[1] = "Memory" /\ name[2] = j - 1
      BY <2>1
    <3>2. other # <<"Memory", k - 1>>
      BY <1>4, <1>6, <3>1
    <3>. QED
      BY <1>2, <1>6, <3>1, <3>2
  <2>2. CASE other = <<"Memory", k - 1>>
    <3>1. other[1] = "Memory" /\ other[2] = k - 1
      BY <2>2
    <3>2. name # <<"Memory", j - 1>>
      BY <1>4, <1>6, <3>1
    <3>. QED
      BY <1>1, <1>6, <3>1, <3>2
  <2>3. ASSUME NEW b \in 1 .. n, NEW c \in 1 .. n, OnBoard(name, v, b), OnBoard(other, w, c)
        PROVE  FALSE
    <3>1. boards[b].name[1] = boards[c].name[1] /\ boards[b].name[2] = boards[c].name[2]
      BY <1>6, <2>3
    <3>2. ~ (b < c) /\ ~ (c < b)
      BY <3>1, BoardNamesDiffer
    <3>3. b = c
      <4>. HIDE DEF n
      <4>. QED
        BY <1>3, <3>2
    <3>. QED
      BY <1>1, <1>2, <1>5, <1>6, <2>3, <3>3, PlacesDiffer
  <2>. QED
    BY <1>1, <1>2, <2>1, <2>2, <2>3
<1>. HIDE DEF boards
<1>. QED
  BY <1>1, <1>2, <1>6 DEF boards

-----------------------------------------------------------------------------
\* The path of a PCIe object ends in its number, also after it was kept over tables and
\* motherboards.
PciesNumbered == Len(pcies) \in Nat /\ \A i \in 1 .. Len(pcies) : pcies[i].path[3] = i - 1

\* What systemInfoUpdate makes has paths of its own.
LEMMA UpdateUnique ==
    ASSUME TableKnown, HandlesDistinct(table), PciesNumbered, NEW failed, systemInfoUpdate(failed)
    PROVE  PciesNumbered' /\ PathsUnique'
<1>1. PICK board :
          /\ Len(pcies') = getTotalPcieSlot(table) /\ Len(pcies') \in Nat
          /\ Len(dimms') = getTotalDimmSlot(table) /\ Len(dimms') \in Nat
          /\ \A k \in 1 .. Len(pcies') :
                 LET old == IF k > Len(pcies)
                            THEN Object(PciePath(board, k - 1), Nothing, NoPath)
                            ELSE pcies[k]
                 IN  /\ pcies'[k].path = old.path
                     /\ pcies'[k].chassis = IF board = NoPath THEN old.chassis ELSE board
          /\ \A k \in 1 .. Len(dimms') :
                 dimms'[k] = NewDimm(table, k - 1, NewBaseboards(table), board)
  BY UpdateObjects
<1>2. IsTable(table)
  BY KnownIsTable
<1>3. ASSUME NEW k \in 1 .. Len(pcies') PROVE pcies'[k].path[3] = k - 1
  <2>1. CASE k > Len(pcies)
    <3>1. pcies'[k].path = PciePath(board, k - 1)
      BY <1>1, <2>1 DEF Object
    <3>. QED
      BY <3>1 DEF PciePath
  <2>2. CASE ~ (k > Len(pcies))
    <3>1. k \in 1 .. Len(pcies)
      BY <1>1, <2>2 DEF PciesNumbered
    <3>. QED
      BY <1>1, <2>2, <3>1 DEF PciesNumbered
  <2>. QED
    BY <2>1, <2>2
<1>4. PciesNumbered'
  BY <1>1, <1>3 DEF PciesNumbered
<1>5. ASSUME NEW i \in 1 .. Len(pcies'), NEW j \in 1 .. Len(pcies'), i # j
      PROVE  pcies'[i].path # pcies'[j].path
  <2>1. i - 1 # j - 1
    BY <1>1, <1>5
  <2>. QED
    BY <1>3, <2>1
<1>6. ASSUME NEW i \in 1 .. Len(dimms'), NEW j \in 1 .. Len(dimms'), i # j
      PROVE  dimms'[i].path # dimms'[j].path
  <2>1. i \in 1 .. getTotalDimmSlot(table) /\ j \in 1 .. getTotalDimmSlot(table)
    BY <1>1
  <2>2. NewDimm(table, i - 1, NewBaseboards(table), board).path
            # NewDimm(table, j - 1, NewBaseboards(table), board).path
    BY <1>2, <1>6, <2>1, DimmNamesDiffer
  <2>. QED
    BY <1>1, <2>2
<1>7. ASSUME NEW i \in 1 .. Len(cpus'), NEW j \in 1 .. Len(cpus'), i # j
      PROVE  cpus'[i].path # cpus'[j].path
  <2>. DEFINE motherboard == FindMotherboard(Answer(failed).anchors)
              modules == Answer(failed).modules
              n == getTotalCpuSlot(table)
  <2>1. cpus' = [k \in 1 .. n |-> NewCpu(table, k - 1, motherboard, modules)]
    BY DEF systemInfoUpdate, NewCpus
  <2>2. n \in Nat
    BY <1>2, CountFinds DEF getTotalCpuSlot, getTotalNum
  <2>3. \A k : NewCpu(table, k - 1, motherboard, modules).path[3] = k - 1
    BY DEF NewCpu, Object
  <2>. HIDE DEF n, motherboard, modules
  <2>4. cpus' = [k \in 1 .. n |-> cpus'[k]] /\ \A k \in 1 .. n : cpus'[k].path[3] = k - 1
    BY <2>1, <2>3
  <2>5. Len(cpus') = n
    BY <2>2, <2>4, LengthIs
  <2>6. i - 1 # j - 1
    BY <1>7, <2>2, <2>5
  <2>. QED
    BY <2>4, <2>5, <2>6
<1>. QED
  BY <1>4, <1>5, <1>6, <1>7 DEF PathsUnique

\* No two objects of a kind have one path (Cpu, Dimm and Pcie constructors), provided that
\* the handles within each table are distinct: names by board, by place on the board and
\* by number never meet, and a slot that is kept has the path that its number gave it.
THEOREM PathsAlwaysUnique ==
    ASSUME \A t \in Tables \cup StartTables : HandlesDistinct(t)
    PROVE  Spec => []PathsUnique
<1>. DEFINE Inv == TableKnown /\ PciesNumbered /\ PathsUnique
<1>1. Init => Inv
  <2>. SUFFICES ASSUME Init PROVE Inv
    OBVIOUS
  <2>1. cpus = <<>> /\ pcies = <<>> /\ dimms = <<>> /\ Len(<<>>) = 0 /\ 1 .. 0 = {}
    BY DEF Init
  <2>. QED
    BY <2>1 DEF Init, TableKnown, PciesNumbered, PathsUnique
<1>2. Inv /\ [Next]_vars => Inv'
  <2>. SUFFICES ASSUME Inv, [Next]_vars PROVE Inv'
    OBVIOUS
  <2>1. CASE UNCHANGED vars
    BY <2>1 DEF vars, objects, TableKnown, PciesNumbered, PathsUnique
  <2>2. CASE Next
    <3>1. TableKnown'
      BY <2>2, OtherSteps
    <3>2. CASE UNCHANGED objects
      BY <3>1, <3>2 DEF objects, PciesNumbered, PathsUnique
    <3>3. ASSUME NEW failed \in Failures, systemInfoUpdate(failed) PROVE Inv'
      <4>1. HandlesDistinct(<<>>)
        BY DEF HandlesDistinct
      <4>2. HandlesDistinct(table)
        BY <4>1 DEF TableKnown
      <4>. QED
        BY <3>1, <3>3, <4>2, UpdateUnique
    <3>. QED
      BY <2>2, <3>2, <3>3, OtherSteps DEF objects
  <2>. QED
    BY <2>1, <2>2
<1>. QED
  BY <1>1, <1>2, PTL DEF Spec
=============================================================================
