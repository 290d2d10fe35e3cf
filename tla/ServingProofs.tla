--------------------------- MODULE ServingProofs ----------------------------
(***************************************************************************)
(* Proofs about what serves requests: Retrieval for every set of records,  *)
(* envelopes and sessions, Capabilities for all lists, and ServerRun for   *)
(* every number of connections.  What the code computes from its data is   *)
(* a function of sets and sequences here, and induction over it is over    *)
(* sets of numbers.                                                        *)
(***************************************************************************)
EXTENDS Retrieval, Capabilities, ServerRun, Integers, FiniteSetTheorems,
        WellFoundedInduction, TLAPS

-----------------------------------------------------------------------------
(* Numbers.                                                                *)

Less == {p \in Nat \X Nat : p[1] < p[2]}

\* Every set of natural numbers has a least element.
LEMMA LeastNatural ==
    ASSUME NEW T \in SUBSET Nat, T # {}
    PROVE  \E n \in T : \A m \in T : n <= m
  <1>1. IsWellFoundedOn(Less, Nat)
    BY NatLessThanWellFounded DEF Less, OpToRel
  <1>2. T \subseteq Nat
    OBVIOUS
  <1>3. ASSUME NEW R, NEW S, IsWellFoundedOn(R, S), NEW U, U \subseteq S, U # {}
        PROVE  \E x \in U : \A y \in U : ~(<<y, x>> \in R)
    BY <1>3, WFMin, Zenon
  <1>4. PICK n \in T : \A y \in T : ~(<<y, n>> \in Less)
    BY <1>1, <1>2, <1>3, Zenon
  <1>5. ASSUME NEW m \in T PROVE n <= m
    <2>1. n \in Nat /\ m \in Nat /\ <<m, n>> \notin Less
      BY <1>2, <1>4
    <2>2. QED
      BY <2>1 DEF Less
  <1>6. QED
    BY <1>5

\* Induction: a set that has 0, and n + 1 whenever it has n, has every number.
LEMMA NaturalInduction ==
    ASSUME NEW S, 0 \in S, \A n \in Nat : n \in S => n + 1 \in S
    PROVE  Nat \subseteq S
  <1> SUFFICES ASSUME Nat \ S # {} PROVE FALSE
    OBVIOUS
  <1>1. PICK n \in Nat \ S : \A m \in Nat \ S : n <= m
    BY LeastNatural
  <1>2. n - 1 \in Nat /\ n - 1 \in S
    BY <1>1
  <1>3. QED
    BY <1>1, <1>2

\* A bounded set of numbers has a greatest element, which is what Max chooses.
LEMMA Greatest ==
    ASSUME NEW n \in Nat, NEW T \in SUBSET (0 .. n), T # {}
    PROVE  Max(T) \in T /\ \A x \in T : x <= Max(T)
  <1> DEFINE Bounds == {u \in Nat : \A x \in T : x <= u}
  <1>1. n \in Bounds
    OBVIOUS
  <1>2. PICK u \in Bounds : \A w \in Bounds : u <= w
    BY <1>1, LeastNatural
  <1>3. u \in T
    <2>1. SUFFICES ASSUME u \notin T PROVE FALSE
      OBVIOUS
    <2>2. \A x \in T : x \in Nat /\ x < u
      BY <2>1
    <2>3. u - 1 \in Bounds
      <3>0. PICK y \in T : TRUE
        OBVIOUS
      <3>1. u \in Nat /\ u - 1 \in Nat
        BY <2>2, <3>0
      <3>2. \A x \in T : x <= u - 1
        BY <2>2, <3>1
      <3>3. QED
        BY <3>1, <3>2
    <2>4. QED
      BY <1>2, <2>3
  <1>4. \A x \in T : u >= x /\ x \in Nat
    OBVIOUS
  <1>5. \E m \in T : \A x \in T : m >= x
    BY <1>3, <1>4
  <1>6. Max(T) \in T /\ \A x \in T : Max(T) >= x
    BY <1>5, Zenon DEF Max
  <1>7. QED
    BY <1>4, <1>6

\* The greatest of the first numbers is the last of them.
LEMMA GreatestOfFirst ==
    ASSUME NEW n \in Nat
    PROVE  Max(1 .. n + 1) = n + 1 /\ (1 .. n + 1) \ {n + 1} = 1 .. n
  <1> DEFINE T == 1 .. n + 1
  <1>1. T \in SUBSET (0 .. n + 1) /\ T # {} /\ n + 1 \in Nat
    OBVIOUS
  <1> HIDE DEF T
  <1>2. Max(T) \in T /\ \A x \in T : x <= Max(T)
    BY <1>1, Greatest
  <1>3. QED
    BY <1>2 DEF T

\* Min of two numbers is one of them, and not greater than either.
LEMMA LeastOfTwo ==
    ASSUME NEW a \in Nat, NEW b \in Nat
    PROVE  Min({a, b}) = IF a <= b THEN a ELSE b
  <1>1. \E x \in {a, b} : \A y \in {a, b} : x <= y
    OBVIOUS
  <1>2. Min({a, b}) \in {a, b} /\ \A y \in {a, b} : Min({a, b}) <= y
    BY <1>1, Zenon DEF Min
  <1>3. QED
    BY <1>2

-----------------------------------------------------------------------------
(* Enumerations of sets of numbers.                                        *)

Increasing(u, m) == \A j, k \in 1 .. m : j < k => u[j] < u[k]

\* u lists the least L members of S, or all if there are no more.
Lists(u, m, S, L) ==
    /\ u \in [1 .. m -> S]
    /\ Increasing(u, m)
    /\ \A x \in S : \/ \E k \in 1 .. m : u[k] = x
                    \/ m = L /\ \A k \in 1 .. m : u[k] < x

\* Where one of two such lists has gone as far as the other, its next number is
\* not the greater one.
LEMMA ListsAreLeast ==
    ASSUME NEW S \in SUBSET Nat, NEW L \in Nat, NEW m \in Nat, NEW n \in Nat,
           NEW u, NEW v,
           Lists(u, m, S, L), Lists(v, n, S, L),
           NEW k \in 1 .. m, k \in 1 .. n,
           \A j \in 1 .. k - 1 : u[j] = v[j]
    PROVE  u[k] <= v[k]
  <1>1. u[k] \in Nat /\ v[k] \in Nat /\ v[k] \in S
    BY DEF Lists
  <1>2. SUFFICES ASSUME v[k] < u[k] PROVE FALSE
    BY <1>1
  <1>3. PICK j \in 1 .. m : u[j] = v[k]
    BY <1>1, <1>2 DEF Lists
  <1>4. j < k
    BY <1>1, <1>2, <1>3 DEF Lists, Increasing
  <1>5. v[j] = v[k] /\ v[j] < v[k]
    BY <1>3, <1>4 DEF Lists, Increasing
  <1>6. QED
    BY <1>1, <1>5

\* A list that agrees with a longer one is not the complete one.
LEMMA ListsAreAsLong ==
    ASSUME NEW S \in SUBSET Nat, NEW L \in Nat, NEW m \in Nat, NEW n \in Nat,
           NEW u, NEW v,
           Lists(u, m, S, L), Lists(v, n, S, L), n <= L,
           \A j \in 1 .. m : j \in 1 .. n => u[j] = v[j]
    PROVE  ~ (m < n)
  <1>1. SUFFICES ASSUME m < n PROVE FALSE
    OBVIOUS
  <1>2. m + 1 \in 1 .. n /\ v[m + 1] \in S /\ m # L
    BY <1>1 DEF Lists
  <1>3. PICK j \in 1 .. m : u[j] = v[m + 1]
    BY <1>2 DEF Lists
  <1>4. j \in 1 .. n /\ j < m + 1
    BY <1>1
  <1>5. v[j] = v[m + 1]
    BY <1>3, <1>4
  <1>6. v[j] < v[m + 1]
    BY <1>2, <1>4 DEF Lists, Increasing
  <1>7. v[m + 1] \in Nat
    BY <1>2
  <1>8. QED
    BY <1>5, <1>6, <1>7

\* There is one list of the least L members of a set.
LEMMA ListsAreUnique ==
    ASSUME NEW S \in SUBSET Nat, NEW L \in Nat,
           NEW m \in 0 .. L, NEW n \in 0 .. L, NEW u, NEW v,
           Lists(u, m, S, L), Lists(v, n, S, L)
    PROVE  m = n /\ u = v
  <1> DEFINE Differ == {k \in Nat : k \in 1 .. m /\ k \in 1 .. n /\ u[k] # v[k]}
  <1>0. m \in Nat /\ n \in Nat /\ m <= L /\ n <= L
    OBVIOUS
  <1>1. \A k \in 1 .. m : k \in 1 .. n => u[k] = v[k]
    <2>1. SUFFICES ASSUME Differ # {} PROVE FALSE
      OBVIOUS
    <2>2. PICK k \in Differ : \A j \in Differ : k <= j
      BY <2>1, LeastNatural
    <2>3. \A j \in 1 .. k - 1 : u[j] = v[j] /\ v[j] = u[j]
      BY <2>2
    <2>4. k \in 1 .. m /\ k \in 1 .. n /\ u[k] # v[k]
      BY <2>2
    <2>5. u[k] <= v[k]
      BY <1>0, <2>3, <2>4, ListsAreLeast
    <2>6. v[k] <= u[k]
      BY <1>0, <2>3, <2>4, ListsAreLeast
    <2>7. u[k] \in Nat /\ v[k] \in Nat
      BY <2>4 DEF Lists
    <2>8. QED
      BY <2>4, <2>5, <2>6, <2>7
  <1>2. ~ (m < n)
    BY <1>0, <1>1, ListsAreAsLong
  <1>3. ~ (n < m)
    <2>1. \A k \in 1 .. n : k \in 1 .. m => v[k] = u[k]
      BY <1>1
    <2>2. QED
      BY <1>0, <2>1, ListsAreAsLong
  <1>4. m = n
    BY <1>0, <1>2, <1>3
  <1>5. QED
    BY <1>1, <1>4 DEF Lists

-----------------------------------------------------------------------------
(* Sorting.                                                                *)

Injective(key, n) == \A j, k \in 1 .. n : key[j] = key[k] => j = k

\* p puts the keys in order.
Sorts(p, key, n) ==
    /\ p \in [1 .. n -> 1 .. n]
    /\ \A w \in 1 .. n : \E v \in 1 .. n : p[v] = w
    /\ \A j, k \in 1 .. n : j < k => key[p[j]] < key[p[k]]

\* A permutation of n numbers that sorts all but the greatest key, with that
\* put last, sorts them all.
LEMMA SortOneMore ==
    ASSUME NEW n \in Nat, NEW key \in [1 .. n + 1 -> Nat], Injective(key, n + 1),
           NEW g \in 1 .. n + 1, \A k \in 1 .. n + 1 : key[k] <= key[g],
           NEW rest, rest = [k \in 1 .. n |-> IF k = g THEN key[n + 1] ELSE key[k]],
           NEW q, Sorts(q, rest, n)
    PROVE  \E p : Sorts(p, key, n + 1)
  <1> DEFINE at(k) == IF q[k] = g THEN n + 1 ELSE q[k]
             p == [k \in 1 .. n + 1 |-> IF k = n + 1 THEN g ELSE at(k)]
  <1>1. /\ q \in [1 .. n -> 1 .. n]
        /\ \A w \in 1 .. n : \E v \in 1 .. n : q[v] = w
        /\ \A j, k \in 1 .. n : j < k => rest[q[j]] < rest[q[k]]
    BY DEF Sorts
  <1>2. \A k \in 1 .. n : at(k) \in 1 .. n + 1 /\ at(k) # g /\ key[at(k)] = rest[q[k]]
    <2> SUFFICES ASSUME NEW k \in 1 .. n
                 PROVE  at(k) \in 1 .. n + 1 /\ at(k) # g /\ key[at(k)] = rest[q[k]]
      OBVIOUS
    <2>0. q[k] \in 1 .. n
      BY <1>1, Zenon
    <2>1. q[k] \in 1 .. n /\ q[k] \in 1 .. n + 1
      BY <2>0
    <2>2. rest[q[k]] = IF q[k] = g THEN key[n + 1] ELSE key[q[k]]
      BY <2>1
    <2>3. q[k] = g => g # n + 1
      BY <2>1
    <2>4. QED
      BY <2>1, <2>2, <2>3
  <1>3. p \in [1 .. n + 1 -> 1 .. n + 1]
    BY <1>2
  <1>4. ASSUME NEW w \in 1 .. n + 1 PROVE \E v \in 1 .. n + 1 : p[v] = w
    <2>1. CASE w = g
      BY <2>1
    <2>2. CASE w # g /\ w = n + 1
      <3>1. PICK v \in 1 .. n : q[v] = g
        BY <1>1, <2>2
      <3>2. v \in 1 .. n + 1 /\ p[v] = w
        BY <2>2, <3>1
      <3>3. QED
        BY <3>2
    <2>3. CASE w # g /\ w # n + 1
      <3>1. PICK v \in 1 .. n : q[v] = w
        BY <1>1, <2>3
      <3>2. v \in 1 .. n + 1 /\ p[v] = w
        BY <2>3, <3>1
      <3>3. QED
        BY <3>2
    <2>4. QED
      BY <2>1, <2>2, <2>3
  <1>5. ASSUME NEW j \in 1 .. n + 1, NEW k \in 1 .. n + 1, j < k
        PROVE  key[p[j]] < key[p[k]]
    <2>1. j \in 1 .. n /\ p[j] = at(j)
      BY <1>5
    <2>2. CASE k = n + 1
      <3>1. key[at(j)] <= key[g] /\ key[at(j)] # key[g]
        BY <1>2, <2>1 DEF Injective
      <3>2. key[at(j)] \in Nat /\ key[g] \in Nat
        BY <1>2, <2>1
      <3>3. QED
        BY <2>1, <2>2, <3>1, <3>2
    <2>3. CASE k # n + 1
      <3>1. k \in 1 .. n /\ p[k] = at(k)
        BY <2>3
      <3>2. QED
        BY <1>1, <1>2, <1>5, <2>1, <3>1
    <2>4. QED
      BY <2>2, <2>3
  <1>6. Sorts(p, key, n + 1)
    BY <1>3, <1>4, <1>5 DEF Sorts
  <1>7. QED
    BY <1>6

\* One of finitely many keys is the greatest.
LEMMA GreatestKey ==
    ASSUME NEW n \in Nat, NEW key \in [1 .. n + 1 -> Nat]
    PROVE  \E g \in 1 .. n + 1 : \A k \in 1 .. n + 1 : key[k] <= key[g]
  <1> DEFINE Done == {i \in Nat : i + 1 \in 1 .. n + 1 =>
                          \E g \in 1 .. i + 1 : \A k \in 1 .. i + 1 : key[k] <= key[g]}
  <1>1. 0 \in Done
    OBVIOUS
  <1>2. ASSUME NEW i \in Nat, i \in Done PROVE i + 1 \in Done
    <2> SUFFICES ASSUME i + 2 \in 1 .. n + 1
                 PROVE  \E g \in 1 .. i + 2 : \A k \in 1 .. i + 2 : key[k] <= key[g]
      OBVIOUS
    <2>1. PICK g \in 1 .. i + 1 : \A k \in 1 .. i + 1 : key[k] <= key[g]
      BY <1>2
    <2>2. \A k \in 1 .. i + 2 : k \in 1 .. i + 1 \/ k = i + 2
      OBVIOUS
    <2>3. key[g] \in Nat /\ key[i + 2] \in Nat /\ \A k \in 1 .. i + 1 : key[k] \in Nat
      OBVIOUS
    <2>4. CASE key[i + 2] <= key[g]
      BY <2>1, <2>2, <2>4
    <2>5. CASE key[g] < key[i + 2]
      <3>1. \A k \in 1 .. i + 2 : key[k] <= key[i + 2]
        BY <2>1, <2>2, <2>3, <2>5
      <3>2. QED
        BY <3>1
    <2>6. QED
      BY <2>3, <2>4, <2>5
  <1>3. Nat \subseteq Done
    <2> HIDE DEF Done
    <2>1. QED
      BY <1>1, <1>2, NaturalInduction
  <1>4. n \in Done
    BY <1>3
  <1>5. QED
    BY <1>4

\* Keys that are all different can be put in order.
LEMMA SortingExists ==
    ASSUME NEW n \in Nat, NEW key \in [1 .. n -> Nat], Injective(key, n)
    PROVE  \E p : Sorts(p, key, n)
  <1> DEFINE Done == {i \in Nat : \A f \in [1 .. i -> Nat] :
                          Injective(f, i) => \E p : Sorts(p, f, i)}
  <1>1. 0 \in Done
    <2>1. ASSUME NEW f \in [1 .. 0 -> Nat] PROVE Sorts(f, f, 0)
      BY DEF Sorts
    <2>2. QED
      BY <2>1
  <1>2. ASSUME NEW i \in Nat, i \in Done PROVE i + 1 \in Done
    <2> SUFFICES ASSUME NEW f \in [1 .. i + 1 -> Nat], Injective(f, i + 1)
                 PROVE  \E p : Sorts(p, f, i + 1)
      OBVIOUS
    <2>1. PICK g \in 1 .. i + 1 : \A k \in 1 .. i + 1 : f[k] <= f[g]
      BY GreatestKey
    <2> DEFINE rest == [k \in 1 .. i |-> IF k = g THEN f[i + 1] ELSE f[k]]
    <2>2. rest \in [1 .. i -> Nat] /\ Injective(rest, i)
      BY DEF Injective
    <2>3. PICK q : Sorts(q, rest, i)
      BY <1>2, <2>2
    <2> HIDE DEF rest
    <2>4. QED
      BY <2>1, <2>3, SortOneMore DEF rest
  <1>3. Nat \subseteq Done
    <2> HIDE DEF Done
    <2>1. QED
      BY <1>1, <1>2, NaturalInduction
  <1>4. QED
    BY <1>3

\* Some sequence lists a finite set in the order of its keys, each member once.
LEMMA SomeListing ==
    ASSUME NEW S, IsFiniteSet(S), NEW key \in [S -> Nat],
           \A x, y \in S : key[x] = key[y] => x = y,
           NEW n, n = Cardinality(S)
    PROVE  /\ n \in Nat
           /\ \E s \in [1 .. n -> S] :
                 /\ \A e \in S : \E k \in 1 .. n : s[k] = e
                 /\ \A j, k \in 1 .. n : j < k => key[s[j]] < key[s[k]]
  <1>1. n \in Nat /\ ExistsBijection(1 .. n, S)
    BY FS_CardinalityType
  <1>2. PICK b \in [1 .. n -> S] :
           /\ \A j, k \in 1 .. n : b[j] = b[k] => j = k
           /\ \A e \in S : \E k \in 1 .. n : b[k] = e
    BY <1>1 DEF ExistsBijection, Bijection, Injection, Surjection, IsInjective
  <1> DEFINE keys == [k \in 1 .. n |-> key[b[k]]]
  <1>3. keys \in [1 .. n -> Nat] /\ Injective(keys, n)
    BY <1>2 DEF Injective
  <1>4. PICK p : Sorts(p, keys, n)
    BY <1>1, <1>3, SortingExists
  <1> DEFINE s == [k \in 1 .. n |-> b[p[k]]]
  <1>5. s \in [1 .. n -> S]
    BY <1>2, <1>4 DEF Sorts
  <1>6. \A e \in S : \E k \in 1 .. n : s[k] = e
    <2> SUFFICES ASSUME NEW e \in S PROVE \E k \in 1 .. n : s[k] = e
      OBVIOUS
    <2>1. PICK w \in 1 .. n : b[w] = e
      BY <1>2
    <2>2. PICK k \in 1 .. n : p[k] = w
      BY <1>4 DEF Sorts
    <2>3. s[k] = e
      BY <2>1, <2>2
    <2>4. QED
      BY <2>3
  <1>7. \A j, k \in 1 .. n : j < k => key[s[j]] < key[s[k]]
    BY <1>4 DEF Sorts
  <1>8. QED
    BY <1>1, <1>5, <1>6, <1>7

\* InOrder is such a listing.
LEMMA InOrderLists ==
    ASSUME NEW S, IsFiniteSet(S), NEW key \in [S -> Nat],
           \A x, y \in S : key[x] = key[y] => x = y
    PROVE  LET n == Cardinality(S)
               s == InOrder(S, key)
           IN  /\ n \in Nat
               /\ s \in [1 .. n -> S]
               /\ \A e \in S : \E k \in 1 .. n : s[k] = e
               /\ \A j, k \in 1 .. n : j < k => key[s[j]] < key[s[k]]
  <1> DEFINE n == Cardinality(S)
             Below(e) == {x \in S : key[x] < key[e]}
  <1>1. n \in Nat
    BY SomeListing
  <1>2. PICK s \in [1 .. n -> S] :
           /\ \A e \in S : \E k \in 1 .. n : s[k] = e
           /\ \A j, k \in 1 .. n : j < k => key[s[j]] < key[s[k]]
    BY SomeListing
  <1>3. ASSUME NEW k \in 1 .. n PROVE Cardinality(Below(s[k])) = k - 1
    <2> DEFINE f == [j \in 1 .. k - 1 |-> s[j]]
    <2>1. k - 1 \in Nat /\ \A j \in 1 .. k - 1 : j \in 1 .. n /\ j < k
      BY <1>1
    <2>2. \A j \in 1 .. n : key[s[j]] \in Nat
      BY <1>2
    <2>3. f \in [1 .. k - 1 -> Below(s[k])]
      BY <1>2, <2>1
    <2>4. \A i, j \in 1 .. k - 1 : f[i] = f[j] => i = j
      <3> SUFFICES ASSUME NEW i \in 1 .. k - 1, NEW j \in 1 .. k - 1, f[i] = f[j]
                   PROVE  i = j
        OBVIOUS
      <3>1. key[s[i]] = key[s[j]] /\ ~ (key[s[i]] < key[s[j]]) /\ ~ (key[s[j]] < key[s[i]])
        BY <2>1, <2>2
      <3>2. ~ (i < j) /\ ~ (j < i)
        BY <1>2, <2>1, <3>1
      <3>3. QED
        BY <3>2
    <2>5. \A e \in Below(s[k]) : \E j \in 1 .. k - 1 : f[j] = e
      <3> SUFFICES ASSUME NEW e \in Below(s[k]) PROVE \E j \in 1 .. k - 1 : f[j] = e
        OBVIOUS
      <3>1. PICK j \in 1 .. n : s[j] = e
        BY <1>2
      <3>2. ~ (k <= j)
        <4>1. key[s[j]] < key[s[k]]
          BY <3>1
        <4>2. j = k => FALSE
          BY <4>1, <2>2
        <4>3. k < j => FALSE
          BY <1>2, <4>1, <2>2
        <4>4. QED
          BY <4>2, <4>3
      <3>3. j \in 1 .. k - 1
        BY <3>2
      <3>4. QED
        BY <3>1, <3>3
    <2>6. ExistsBijection(1 .. k - 1, Below(s[k]))
      <3> HIDE DEF f, Below
      <3>1. f \in Bijection(1 .. k - 1, Below(s[k]))
        BY <2>3, <2>4, <2>5 DEF Bijection, Injection, Surjection, IsInjective
      <3>2. QED
        BY <3>1 DEF ExistsBijection
    <2>7. QED
      BY <2>1, <2>6, FS_CountingElements
  <1>4. ASSUME NEW k \in 1 .. n
        PROVE  (CHOOSE e \in S : Cardinality(Below(e)) = k - 1) = s[k]
    <2>1. s[k] \in S /\ Cardinality(Below(s[k])) = k - 1
      BY <1>2, <1>3
    <2>2. ASSUME NEW e \in S, Cardinality(Below(e)) = k - 1 PROVE e = s[k]
      <3>1. PICK j \in 1 .. n : s[j] = e
        BY <1>2
      <3>2. j - 1 = k - 1
        BY <1>3, <2>2, <3>1
      <3>3. QED
        BY <3>1, <3>2
    <2> HIDE DEF Below
    <2>3. QED
      BY <2>1, <2>2
  <1>5. InOrder(S, key) = [k \in 1 .. n |-> s[k]]
    BY <1>4 DEF InOrder
  <1>6. InOrder(S, key) = s
    BY <1>2, <1>5
  <1>7. QED
    BY <1>1, <1>2, <1>6

-----------------------------------------------------------------------------
(* Retrieval: the scan, one envelope at a time.                            *)

\* What one envelope makes of the candidates.
ScanStep(a, l, cs, e) ==
    IF AfterCursor(e, a) THEN RetainPageCandidate(cs, e, l) ELSE cs

\* The recursion that FoldLeft stands for: over sets of positions, last first.
Scans(g, f, a, l, n) ==
    g = [s \in SUBSET (1 .. n) |->
            IF s = {} THEN <<>>
            ELSE ScanStep(a, l, g[s \ {Max(s)}], f[Max(s)])]

\* There is a function that follows the recursion.
LEMMA ScanExists ==
    ASSUME NEW n \in Nat, NEW f, NEW a, NEW l
    PROVE  \E g : Scans(g, f, a, l, n)
  <1> DEFINE Done == {i \in Nat : \E g : Scans(g, f, a, l, i)}
  <1>1. 0 \in Done
    <2> DEFINE g == [s \in SUBSET (1 .. 0) |-> <<>>]
    <2>1. \A s \in SUBSET (1 .. 0) : s = {}
      OBVIOUS
    <2>2. Scans(g, f, a, l, 0)
      BY <2>1 DEF Scans
    <2>3. QED
      BY <2>2
  <1>2. ASSUME NEW i \in Nat, i \in Done PROVE i + 1 \in Done
    <2>1. PICK h : Scans(h, f, a, l, i)
      BY <1>2
    <2> DEFINE g == [s \in SUBSET (1 .. i + 1) |->
                        IF i + 1 \in s
                        THEN ScanStep(a, l, h[s \ {i + 1}], f[i + 1])
                        ELSE h[s]]
    <2>2. ASSUME NEW s \in SUBSET (1 .. i + 1), s # {}
          PROVE  g[s] = ScanStep(a, l, g[s \ {Max(s)}], f[Max(s)])
      <3>1. Max(s) \in s /\ \A x \in s : x <= Max(s)
        <4>1. s \in SUBSET (0 .. i + 1) /\ i + 1 \in Nat
          OBVIOUS
        <4>2. QED
          BY <2>2, <4>1, Greatest
      <3>2. CASE i + 1 \in s
        <4>1. Max(s) = i + 1
          <5>1. Max(s) \in 1 .. i + 1 /\ i + 1 <= Max(s)
            BY <3>1, <3>2
          <5>2. QED
            BY <5>1
        <4>2. s \ {i + 1} \in SUBSET (1 .. i + 1) /\ i + 1 \notin s \ {i + 1}
          OBVIOUS
        <4>3. g[s \ {i + 1}] = h[s \ {i + 1}]
          BY <4>2
        <4>4. QED
          BY <3>2, <4>1, <4>3
      <3>3. CASE i + 1 \notin s
        <4>1. s \in SUBSET (1 .. i)
          BY <3>3
        <4>2. s \ {Max(s)} \in SUBSET (1 .. i + 1) /\ i + 1 \notin s \ {Max(s)}
          BY <3>3
        <4>3. g[s] = h[s] /\ g[s \ {Max(s)}] = h[s \ {Max(s)}]
          BY <3>3, <4>2
        <4>4. h[s] = ScanStep(a, l, h[s \ {Max(s)}], f[Max(s)])
          BY <2>1, <2>2, <4>1, Zenon DEF Scans
        <4>5. QED
          BY <4>3, <4>4
      <3>4. QED
        BY <3>2, <3>3
    <2>3. g[{}] = <<>>
      <3>1. {} \in SUBSET (1 .. i) /\ {} \in SUBSET (1 .. i + 1) /\ i + 1 \notin {}
        OBVIOUS
      <3>2. g[{}] = h[{}]
        BY <3>1
      <3>3. h[{}] = <<>>
        BY <2>1, <3>1, Zenon DEF Scans
      <3>4. QED
        BY <3>2, <3>3
    <2>4. Scans(g, f, a, l, i + 1)
      <3>1. g = [s \in SUBSET (1 .. i + 1) |-> g[s]]
        OBVIOUS
      <3> HIDE DEF g
      <3>2. \A s \in SUBSET (1 .. i + 1) :
               g[s] = IF s = {} THEN <<>>
                      ELSE ScanStep(a, l, g[s \ {Max(s)}], f[Max(s)])
        BY <2>2, <2>3
      <3>3. QED
        BY <3>1, <3>2, Zenon DEF Scans
    <2>5. QED
      BY <2>4
  <1>3. Nat \subseteq Done
    <2> HIDE DEF Done
    <2>1. QED
      BY <1>1, <1>2, NaturalInduction
  <1>4. QED
    BY <1>3

\* The candidates after all of the file are reached from none by one step for
\* each envelope, in the order of the file.
LEMMA ScanRuns ==
    ASSUME NEW f, NEW n \in Nat, DOMAIN f = 1 .. n, NEW a, NEW l
    PROVE  \E c : /\ c[0] = <<>>
                  /\ \A k \in 1 .. n : c[k] = ScanStep(a, l, c[k - 1], f[k])
                  /\ Candidates(f, a, l) = c[n]
  <1> DEFINE g == CHOOSE g : Scans(g, f, a, l, n)
  <1>1. Scans(g, f, a, l, n)
    BY ScanExists, Zenon
  <1>2. Candidates(f, a, l) = g[1 .. n]
    BY Zenon DEF Candidates, FoldLeft, MapThenFoldSet, Scans, ScanStep
  <1> HIDE DEF g
  <1> DEFINE c == [k \in 0 .. n |-> g[1 .. k]]
  <1>3. c[0] = <<>>
    <2>1. 1 .. 0 = {} /\ {} \in SUBSET (1 .. n)
      OBVIOUS
    <2>2. g[{}] = <<>>
      BY <1>1, <2>1, Zenon DEF Scans
    <2>3. QED
      BY <2>1, <2>2
  <1>4. ASSUME NEW k \in 1 .. n PROVE c[k] = ScanStep(a, l, c[k - 1], f[k])
    <2>1. k - 1 \in Nat /\ k - 1 \in 0 .. n /\ k \in 0 .. n /\ (k - 1) + 1 = k
      OBVIOUS
    <2>2. Max(1 .. k) = k /\ (1 .. k) \ {k} = 1 .. k - 1
      BY <2>1, GreatestOfFirst
    <2>3. 1 .. k \in SUBSET (1 .. n) /\ 1 .. k # {}
      <3>1. k \in 1 .. k /\ \A x \in 1 .. k : x \in 1 .. n
        OBVIOUS
      <3>2. QED
        BY <3>1
    <2>4. g[1 .. k] = ScanStep(a, l, g[(1 .. k) \ {Max(1 .. k)}], f[Max(1 .. k)])
      BY <1>1, <2>3, Zenon DEF Scans
    <2>5. g[1 .. k] = ScanStep(a, l, g[1 .. k - 1], f[k])
      BY <2>2, <2>4
    <2>6. QED
      BY <2>1, <2>5
  <1>5. Candidates(f, a, l) = c[n]
    BY <1>2
  <1>6. QED
    BY <1>3, <1>4, <1>5
-----------------------------------------------------------------------------
(* Retrieval: the map a file decodes to, as far as the file has been read. *)

\* A record has its own identifier.
IsTable(R) ==
    /\ R \in [RecordIDs -> RecordEnvelope \cup {NoRecord}]
    /\ \A i \in RecordIDs : R[i] # NoRecord => R[i].recordID = i

\* The places, up to k, where the file has the record.
Places(f, k, i) == {j \in 1 .. k : f[j].recordID = i}

LoadedTo(f, k) ==
    [i \in RecordIDs |->
        IF Places(f, k, i) = {} THEN NoRecord ELSE f[Max(Places(f, k, i))]]

\* The last of the places, if there is one.
LEMMA LastPlace ==
    ASSUME NEW f, NEW k \in Nat, NEW i, Places(f, k, i) # {}
    PROVE  /\ Max(Places(f, k, i)) \in 1 .. k
           /\ f[Max(Places(f, k, i))].recordID = i
           /\ \A j \in Places(f, k, i) : j <= Max(Places(f, k, i))
  <1> DEFINE P == Places(f, k, i)
  <1>1. P \in SUBSET (0 .. k) /\ \A j \in P : j \in 1 .. k /\ f[j].recordID = i
    BY DEF Places
  <1>2. P # {}
    OBVIOUS
  <1> HIDE DEF P
  <1>3. Max(P) \in P /\ \A j \in P : j <= Max(P)
    BY <1>1, <1>2, Greatest
  <1>4. QED
    BY <1>1, <1>3 DEF P

\* What load makes of the first entries of a file is a table.
LEMMA LoadedIsTable ==
    ASSUME NEW f \in Seq(RecordEnvelope), NEW k \in 0 .. Len(f)
    PROVE  IsTable(LoadedTo(f, k))
  <1> SUFFICES ASSUME NEW i \in RecordIDs
               PROVE  \/ LoadedTo(f, k)[i] = NoRecord
                      \/ /\ LoadedTo(f, k)[i] \in RecordEnvelope
                         /\ LoadedTo(f, k)[i].recordID = i
    BY DEF IsTable, LoadedTo
  <1>1. CASE Places(f, k, i) = {}
    BY <1>1 DEF LoadedTo
  <1>2. CASE Places(f, k, i) # {}
    <2>1. k \in Nat
      OBVIOUS
    <2>2. /\ Max(Places(f, k, i)) \in 1 .. k
          /\ f[Max(Places(f, k, i))].recordID = i
      BY <1>2, <2>1, LastPlace
    <2>3. f[Max(Places(f, k, i))] \in RecordEnvelope
      BY <2>2
    <2>4. QED
      BY <1>2, <2>2, <2>3 DEF LoadedTo
  <1>3. QED
    BY <1>1, <1>2

\* Reading one more envelope sets its record.
LEMMA LoadedStep ==
    ASSUME NEW f \in Seq(RecordEnvelope), NEW k \in 1 .. Len(f)
    PROVE  LoadedTo(f, k) = [LoadedTo(f, k - 1) EXCEPT ![f[k].recordID] = f[k]]
  <1>0. k \in Nat /\ k - 1 \in Nat
    OBVIOUS
  <1>1. ASSUME NEW i \in RecordIDs
        PROVE  LoadedTo(f, k)[i] = IF i = f[k].recordID THEN f[k] ELSE LoadedTo(f, k - 1)[i]
    <2>1. CASE i = f[k].recordID
      <3>1. k \in Places(f, k, i)
        BY <2>1 DEF Places
      <3>2. Max(Places(f, k, i)) \in 1 .. k /\ k <= Max(Places(f, k, i))
        BY <1>0, <3>1, LastPlace
      <3>3. Max(Places(f, k, i)) = k
        BY <3>2
      <3>4. QED
        BY <2>1, <3>1, <3>3 DEF LoadedTo
    <2>2. CASE i # f[k].recordID
      <3>1. Places(f, k, i) = Places(f, k - 1, i)
        BY <1>0, <2>2 DEF Places
      <3>2. QED
        BY <2>2, <3>1 DEF LoadedTo
    <2>3. QED
      BY <2>1, <2>2
  <1>2. QED
    BY <1>1 DEF LoadedTo

\* Load reads the whole file.
LEMMA LoadIsLoaded ==
    ASSUME NEW f \in Seq(RecordEnvelope)
    PROVE  Load(f) = LoadedTo(f, Len(f))
  <1>1. ASSUME NEW i \in RecordIDs
        PROVE  LET k == SelectLastInSeq(f, LAMBDA e : e.recordID = i)
               IN  (IF k = 0 THEN NoRecord ELSE f[k]) = LoadedTo(f, Len(f))[i]
    <2> DEFINE P == Places(f, Len(f), i)
    <2>1. SelectLastInSeq(f, LAMBDA e : e.recordID = i) = IF P # {} THEN Max(P) ELSE 0
      BY Zenon DEF SelectLastInSeq, Places
    <2>2. CASE P = {}
      BY <2>1, <2>2 DEF LoadedTo
    <2>3. CASE P # {}
      <3>1. Max(P) \in 1 .. Len(f)
        BY <2>3, LastPlace
      <3>2. Max(P) # 0
        BY <3>1
      <3>3. QED
        BY <2>1, <2>3, <3>2 DEF LoadedTo
    <2>4. QED
      BY <2>2, <2>3
  <1>2. QED
    BY <1>1, Zenon DEF Load, LoadedTo
-----------------------------------------------------------------------------
(* Retrieval: the window over the records after the cursor.                *)

IDsOf(w) == [k \in 1 .. Len(w) |-> w[k].recordID]

After(R, a) == {i \in RecordIDs : i > a /\ R[i] # NoRecord}

\* w holds the first L records of R after the cursor, or all if there are fewer.
IsPage(w, R, a, L) ==
    /\ w \in Seq(RecordEnvelope) /\ Len(w) <= L
    /\ Lists(IDsOf(w), Len(w), After(R, a), L)
    /\ \A k \in 1 .. Len(w) : R[w[k].recordID] = w[k]

\* There is one such window.
LEMMA PageIsUnique ==
    ASSUME NEW R, NEW a \in Nat, NEW L \in Nat, NEW v, NEW w,
           IsPage(v, R, a, L), IsPage(w, R, a, L)
    PROVE  v = w
  <1>1. Len(v) \in 0 .. L /\ Len(w) \in 0 .. L
    BY DEF IsPage
  <1>2. After(R, a) \in SUBSET Nat
    BY RetrievalAssumption DEF After
  <1>3. Len(v) = Len(w) /\ IDsOf(v) = IDsOf(w)
    BY <1>1, <1>2, ListsAreUnique DEF IsPage
  <1>4. \A k \in 1 .. Len(v) : v[k] = w[k]
    <2> SUFFICES ASSUME NEW k \in 1 .. Len(v) PROVE v[k] = w[k]
      OBVIOUS
    <2>1. v[k].recordID = w[k].recordID
      BY <1>3 DEF IDsOf
    <2>2. QED
      BY <1>3, <2>1 DEF IsPage
  <1>5. QED
    BY <1>3, <1>4 DEF IsPage

\* An envelope of a table, its identifier and the window's identifiers.
LEMMA WindowFields ==
    ASSUME NEW R, IsTable(R), NEW a \in Nat, NEW L \in Nat, NEW w, IsPage(w, R, a, L)
    PROVE  /\ Len(w) \in Nat /\ Len(w) <= L /\ DOMAIN w = 1 .. Len(w)
           /\ \A k \in 1 .. Len(w) :
                /\ w[k] \in RecordEnvelope /\ w[k].recordID \in RecordIDs
                /\ w[k].recordID \in Nat /\ w[k].recordID > a
                /\ R[w[k].recordID] = w[k] /\ w[k] # NoRecord
           /\ \A j, k \in 1 .. Len(w) : j < k => w[j].recordID < w[k].recordID
           /\ \A i \in RecordIDs : i > a /\ R[i] # NoRecord =>
                \/ \E k \in 1 .. Len(w) : w[k].recordID = i
                \/ Len(w) = L /\ \A k \in 1 .. Len(w) : w[k].recordID < i
  <1>1. w \in Seq(RecordEnvelope) /\ Len(w) <= L
    BY DEF IsPage
  <1>2. \A k \in 1 .. Len(w) : IDsOf(w)[k] = w[k].recordID
    BY DEF IDsOf
  <1>3. \A k \in 1 .. Len(w) : w[k] \in RecordEnvelope
    BY <1>1
  <1>4. \A e \in RecordEnvelope : e.recordID \in RecordIDs /\ e # NoRecord
    BY RetrievalAssumption DEF RecordEnvelope
  <1>5. \A k \in 1 .. Len(w) : w[k].recordID \in After(R, a)
    BY <1>2 DEF IsPage, Lists
  <1>6. \A j, k \in 1 .. Len(w) : j < k => w[j].recordID < w[k].recordID
    BY <1>2 DEF IsPage, Lists, Increasing
  <1>7. \A i \in After(R, a) :
           \/ \E k \in 1 .. Len(w) : w[k].recordID = i
           \/ Len(w) = L /\ \A k \in 1 .. Len(w) : w[k].recordID < i
    BY <1>2 DEF IsPage, Lists
  <1>8. \A k \in 1 .. Len(w) : R[w[k].recordID] = w[k]
    BY DEF IsPage
  <1>9. \A i \in RecordIDs : i \in Nat
    BY RetrievalAssumption
  <1>10. Len(w) \in Nat /\ DOMAIN w = 1 .. Len(w)
    BY <1>1
  <1>11. QED
    BY <1>1, <1>3, <1>4, <1>5, <1>6, <1>7, <1>8, <1>9, <1>10 DEF After

\* The other way round.
LEMMA WindowIsPage ==
    ASSUME NEW R, NEW a \in Nat, NEW L \in Nat, NEW w \in Seq(RecordEnvelope),
           Len(w) <= L,
           \A k \in 1 .. Len(w) : w[k].recordID > a /\ R[w[k].recordID] = w[k],
           \A j, k \in 1 .. Len(w) : j < k => w[j].recordID < w[k].recordID,
           \A i \in RecordIDs : i > a /\ R[i] # NoRecord =>
                \/ \E k \in 1 .. Len(w) : w[k].recordID = i
                \/ Len(w) = L /\ \A k \in 1 .. Len(w) : w[k].recordID < i
    PROVE  IsPage(w, R, a, L)
  <1>1. \A k \in 1 .. Len(w) : IDsOf(w)[k] = w[k].recordID
    BY DEF IDsOf
  <1>2. \A k \in 1 .. Len(w) : w[k] \in RecordEnvelope
    OBVIOUS
  <1>3. \A e \in RecordEnvelope : e.recordID \in RecordIDs /\ e # NoRecord
    BY RetrievalAssumption DEF RecordEnvelope
  <1>4. \A k \in 1 .. Len(w) : w[k].recordID \in After(R, a)
    BY <1>2, <1>3 DEF After
  <1>5. IDsOf(w) \in [1 .. Len(w) -> After(R, a)]
    BY <1>4 DEF IDsOf
  <1>6. Increasing(IDsOf(w), Len(w))
    BY <1>1 DEF Increasing
  <1>7. \A i \in After(R, a) :
           \/ \E k \in 1 .. Len(w) : IDsOf(w)[k] = i
           \/ Len(w) = L /\ \A k \in 1 .. Len(w) : IDsOf(w)[k] < i
    BY <1>1 DEF After
  <1>8. QED
    BY <1>5, <1>6, <1>7 DEF IsPage, Lists

\* The elements of a sequence with one more put in at a place, and its end cut off.
LEMMA Inserted ==
    ASSUME NEW S, NEW w \in Seq(S), NEW e \in S, NEW p \in 1 .. Len(w) + 1,
           NEW n \in 0 .. Len(w) + 1
    PROVE  /\ SubSeq(InsertAt(w, p, e), 1, n) \in Seq(S)
           /\ Len(SubSeq(InsertAt(w, p, e), 1, n)) = n
           /\ \A k \in 1 .. n : SubSeq(InsertAt(w, p, e), 1, n)[k] =
                 IF k < p THEN w[k] ELSE IF k = p THEN e ELSE w[k - 1]
  <1> DEFINE b == SubSeq(w, 1, p - 1)
             c == SubSeq(w, p, Len(w))
             x == b \o <<e>>
             v == x \o c
  <1>0. p \in Nat /\ p >= 1 /\ p <= Len(w) + 1 /\ Len(w) \in Nat
    OBVIOUS
  <1>1. b \in Seq(S) /\ Len(b) = p - 1 /\ \A k \in 1 .. p - 1 : b[k] = w[k]
    <2>1. \A k \in 1 .. p - 1 : k \in 1 .. Len(w)
      BY <1>0
    <2>2. QED
      BY <1>0, <2>1
  <1>2. c \in Seq(S) /\ Len(c) = Len(w) - p + 1
        /\ \A k \in 1 .. Len(w) - p + 1 : c[k] = w[p + k - 1]
    <2>1. \A k \in p .. Len(w) : k \in 1 .. Len(w)
      BY <1>0
    <2>2. QED
      BY <1>0, <2>1
  <1> HIDE DEF b, c
  <1>3. x \in Seq(S) /\ Len(x) = p
        /\ \A k \in 1 .. p : x[k] = IF k < p THEN w[k] ELSE e
    BY <1>0, <1>1
  <1> HIDE DEF x
  <1>4. v \in Seq(S) /\ Len(v) = Len(w) + 1
        /\ (\A k \in 1 .. p : v[k] = x[k])
        /\ (\A k \in 1 .. Len(w) - p + 1 : v[p + k] = c[k])
    <2>0. x \in Seq(S) /\ c \in Seq(S)
      BY <1>2, <1>3
    <2>1. v \in Seq(S) /\ Len(v) = Len(x) + Len(c)
      <3>1. v \in Seq(S)
        BY <2>0
      <3>2. Len(v) = Len(x) + Len(c)
        BY <2>0
      <3>3. QED
        BY <3>1, <3>2
    <2>2. Len(v) = Len(w) + 1
      BY <1>0, <1>2, <1>3, <2>1
    <2>3. \A k \in 1 .. Len(x) : v[k] = x[k]
      BY <1>2, <1>3
    <2>4. \A k \in 1 .. Len(c) : v[Len(x) + k] = c[k]
      BY <1>2, <1>3
    <2>5. QED
      BY <1>2, <1>3, <2>1, <2>2, <2>3, <2>4
  <1> HIDE DEF v
  <1>5. ASSUME NEW k \in 1 .. Len(w) + 1
        PROVE  v[k] = IF k < p THEN w[k] ELSE IF k = p THEN e ELSE w[k - 1]
    <2>1. CASE k <= p
      <3>1. k \in 1 .. p
        BY <1>0, <2>1
      <3>2. QED
        BY <1>0, <1>3, <1>4, <3>1
    <2>2. CASE k > p
      <3>1. k - p \in 1 .. Len(w) - p + 1
        BY <1>0, <2>2
      <3>2. p + (k - p) = k /\ p + (k - p) - 1 = k - 1
        BY <1>0
      <3>3. v[p + (k - p)] = c[k - p] /\ c[k - p] = w[p + (k - p) - 1]
        BY <1>2, <1>4, <3>1
      <3>4. QED
        BY <1>0, <2>2, <3>2, <3>3
    <2>3. QED
      BY <1>0, <2>1, <2>2
  <1>6. InsertAt(w, p, e) = v
    BY DEF InsertAt, b, c, x, v
  <1>7. /\ SubSeq(v, 1, n) \in Seq(S) /\ Len(SubSeq(v, 1, n)) = n
        /\ \A k \in 1 .. n : SubSeq(v, 1, n)[k] = v[k]
    <2>1. \A k \in 1 .. n : k \in 1 .. Len(v)
      BY <1>0, <1>4
    <2>2. n \in Nat /\ n <= Len(v)
      BY <1>0, <1>4
    <2>3. QED
      BY <1>4, <2>1, <2>2
  <1>8. QED
    BY <1>5, <1>6, <1>7

\* The envelopes before a new one are the first ones of a window.
LEMMA PlaceInWindow ==
    ASSUME NEW R, IsTable(R), NEW a \in Nat, NEW L \in Nat, NEW w, IsPage(w, R, a, L),
           NEW e \in RecordEnvelope
    PROVE  LET p == Cardinality({k \in DOMAIN w : Before(w[k], e)}) + 1
           IN  /\ p \in 1 .. Len(w) + 1
               /\ \A k \in 1 .. Len(w) : w[k].recordID < e.recordID <=> k < p
  <1> DEFINE P == {k \in DOMAIN w : Before(w[k], e)}
             m == Len(w)
             i == e.recordID
  <1>0. m \in Nat /\ DOMAIN w = 1 .. m /\ i \in Nat
    <2>1. m \in Nat /\ DOMAIN w = 1 .. m
      BY WindowFields
    <2>2. i \in Nat
      BY RetrievalAssumption DEF RecordEnvelope
    <2>3. QED
      BY <2>1, <2>2
  <1>1. /\ \A k \in 1 .. m : w[k].recordID \in Nat
        /\ \A j, k \in 1 .. m : j < k => w[j].recordID < w[k].recordID
    BY WindowFields
  <1>2. P = {k \in 1 .. m : w[k].recordID < i}
    BY <1>0 DEF Before
  <1> HIDE DEF P
  <1>3. \E q \in 0 .. m : P = 1 .. q
    <2>1. CASE P = {}
      <3>1. 0 \in 0 .. m /\ P = 1 .. 0
        BY <1>0, <2>1
      <3>2. QED
        BY <3>1
    <2>2. CASE P # {}
      <3> DEFINE q == Max(P)
      <3>1. P \in SUBSET (0 .. m)
        BY <1>0, <1>2
      <3>2. q \in P /\ \A k \in P : k <= q
        BY <1>0, <2>2, <3>1, Greatest
      <3> HIDE DEF q
      <3>3. q \in 1 .. m /\ w[q].recordID < i
        BY <1>2, <3>2
      <3>4. \A k \in 1 .. m : k <= q => w[k].recordID <= w[q].recordID
        BY <1>0, <1>1, <3>3
      <3>5. \A k \in 1 .. q : k \in 1 .. m
        BY <1>0, <3>3
      <3>6. \A k \in 1 .. q : k \in P
        BY <1>0, <1>1, <1>2, <3>3, <3>4, <3>5
      <3>7. P = 1 .. q
        BY <1>2, <3>2, <3>6
      <3>8. QED
        BY <3>3, <3>7
    <2>3. QED
      BY <2>1, <2>2
  <1>4. PICK q \in 0 .. m : P = 1 .. q
    BY <1>3
  <1>5. Cardinality(P) = q
    <2>1. q \in Nat /\ 1 \in Int /\ q \in Int
      BY <1>0
    <2>2. Cardinality(1 .. q) = IF 1 > q THEN 0 ELSE q - 1 + 1
      BY <2>1, FS_Interval
    <2>3. QED
      BY <1>4, <2>1, <2>2
  <1>6. \A k \in 1 .. m : w[k].recordID < i <=> k < q + 1
    BY <1>0, <1>2, <1>4
  <1>7. Cardinality(P) + 1 \in 1 .. m + 1
        /\ \A k \in 1 .. m : w[k].recordID < i <=> k < Cardinality(P) + 1
    BY <1>0, <1>5, <1>6
  <1>8. QED
    BY <1>7 DEF P

\* Retaining an envelope keeps the window what it should be: the one of the map
\* with this envelope set.
LEMMA RetainKeepsPage ==
    ASSUME NEW R, IsTable(R), NEW a \in Nat, NEW L \in Nat, NEW w, IsPage(w, R, a, L),
           NEW e \in RecordEnvelope, e.recordID > a
    PROVE  IsPage(RetainPageCandidate(w, e, L), [R EXCEPT ![e.recordID] = e], a, L)
  <1> DEFINE i == e.recordID
             m == Len(w)
             T == [R EXCEPT ![i] = e]
             p == Cardinality({k \in DOMAIN w : Before(w[k], e)}) + 1
             n == Min({L, m + 1})
             v == SubSeq(InsertAt(w, p, e), 1, n)
  <1>1. i \in RecordIDs /\ e # NoRecord
    BY RetrievalAssumption DEF RecordEnvelope
  <1>2. i \in Nat
    BY <1>1, RetrievalAssumption
  <1>3. /\ m \in Nat /\ m <= L /\ w \in Seq(RecordEnvelope)
        /\ \A k \in 1 .. m :
              /\ w[k] \in RecordEnvelope /\ w[k].recordID \in RecordIDs
              /\ w[k].recordID \in Nat /\ w[k].recordID > a
              /\ R[w[k].recordID] = w[k]
    BY WindowFields DEF IsPage
  <1>4. \A j, k \in 1 .. m : j < k => w[j].recordID < w[k].recordID
    BY WindowFields
  <1>5. \A r \in RecordIDs : r > a /\ R[r] # NoRecord =>
           \/ \E k \in 1 .. m : w[k].recordID = r
           \/ m = L /\ \A k \in 1 .. m : w[k].recordID < r
    BY WindowFields
  <1>6. /\ p \in 1 .. m + 1
        /\ \A k \in 1 .. m : w[k].recordID < i <=> k < p
    BY PlaceInWindow
  <1>7. T[i] = e /\ \A r \in RecordIDs : r # i => T[r] = R[r]
    BY <1>1 DEF IsTable
  <1>8. n = IF L <= m + 1 THEN L ELSE m + 1
    BY <1>3, LeastOfTwo
  <1>9. RetainPageCandidate(w, e, L) =
           IF p <= m /\ w[p].recordID = i THEN [w EXCEPT ![p] = e] ELSE v
    BY DEF RetainPageCandidate
  <1>10. \A r \in RecordIDs : r \in Nat
    BY RetrievalAssumption
  <1> HIDE DEF T, p, n
  <1>11. CASE p <= m /\ w[p].recordID = i
    <2> DEFINE u == [w EXCEPT ![p] = e]
    <2>1. /\ u \in Seq(RecordEnvelope) /\ Len(u) = m
          /\ \A k \in 1 .. m : u[k] = IF k = p THEN e ELSE w[k]
      <3>1. p \in 1 .. m
        BY <1>3, <1>6, <1>11
      <3>2. u \in Seq(RecordEnvelope) /\ Len(u) = m
        BY <1>3, <3>1
      <3>3. \A k \in 1 .. m : u[k] = IF k = p THEN e ELSE w[k]
        BY <1>3, <3>1
      <3>4. QED
        BY <3>2, <3>3
    <2>2. \A k \in 1 .. m : u[k].recordID = w[k].recordID
      BY <1>11, <2>1
    <2>3. \A k \in 1 .. m : k # p => w[k].recordID # i
      <3>1. p \in 1 .. m /\ w[p].recordID = i
        BY <1>3, <1>6, <1>11
      <3>2. \A k \in 1 .. m : k # p => k < p \/ p < k
        BY <1>3, <3>1
      <3>3. QED
        BY <1>2, <1>3, <1>4, <3>1, <3>2
    <2>4. \A k \in 1 .. m : T[u[k].recordID] = u[k]
      BY <1>3, <1>7, <1>11, <2>1, <2>2, <2>3
    <2>5. \A r \in RecordIDs : r > a /\ T[r] # NoRecord =>
             \/ \E k \in 1 .. m : u[k].recordID = r
             \/ m = L /\ \A k \in 1 .. m : u[k].recordID < r
      <3> SUFFICES ASSUME NEW r \in RecordIDs, r > a, T[r] # NoRecord
                   PROVE  \/ \E k \in 1 .. m : u[k].recordID = r
                          \/ m = L /\ \A k \in 1 .. m : u[k].recordID < r
        OBVIOUS
      <3>1. CASE r = i
        <4>1. p \in 1 .. m /\ u[p].recordID = r
          BY <1>3, <1>6, <1>11, <2>2, <3>1
        <4>2. QED
          BY <4>1
      <3>2. CASE r # i
        BY <1>5, <1>7, <2>2, <3>2
      <3>3. QED
        BY <3>1, <3>2
    <2> HIDE DEF u
    <2>6. IsPage(u, T, a, L)
      BY <1>3, <1>4, <2>1, <2>2, <2>4, <2>5, WindowIsPage
    <2>7. QED
      BY <1>9, <1>11, <2>6 DEF T, u
  <1>12. CASE ~ (p <= m /\ w[p].recordID = i)
    <2>1. \A k \in 1 .. m : w[k].recordID < i \/ (k >= p /\ i < w[k].recordID)
      <3> SUFFICES ASSUME NEW k \in 1 .. m, ~ (w[k].recordID < i)
                   PROVE  k >= p /\ i < w[k].recordID
        OBVIOUS
      <3>1. k \in Nat /\ k >= p
        BY <1>6
      <3>2. p \in 1 .. m /\ ~ (w[p].recordID < i)
        BY <1>3, <1>6, <3>1
      <3>3. i < w[p].recordID
        BY <1>2, <1>3, <1>12, <3>2
      <3>4. w[p].recordID <= w[k].recordID
        BY <1>3, <1>4, <3>1, <3>2
      <3>5. QED
        BY <1>2, <1>3, <3>1, <3>2, <3>3, <3>4
    <2>2. n \in 0 .. m + 1 /\ n <= L
      BY <1>3, <1>8
    <2>3. /\ v \in Seq(RecordEnvelope) /\ Len(v) = n
          /\ \A k \in 1 .. n : v[k] =
                IF k < p THEN w[k] ELSE IF k = p THEN e ELSE w[k - 1]
      BY <1>3, <1>6, <2>2, Inserted
    <2> HIDE DEF v
    <2>4. \A k \in 1 .. n : v[k].recordID > a /\ T[v[k].recordID] = v[k]
      <3> SUFFICES ASSUME NEW k \in 1 .. n
                   PROVE  v[k].recordID > a /\ T[v[k].recordID] = v[k]
        OBVIOUS
      <3>1. CASE k = p
        BY <1>7, <2>3, <3>1
      <3>2. CASE k < p
        <4>1. k \in 1 .. m /\ v[k] = w[k]
          BY <1>3, <1>6, <2>3, <3>2
        <4>2. w[k].recordID # i
          BY <1>2, <1>3, <1>6, <3>2, <4>1
        <4>3. QED
          BY <1>3, <1>7, <4>1, <4>2
      <3>3. CASE k > p
        <4>1. k - 1 \in 1 .. m /\ v[k] = w[k - 1] /\ ~ (k - 1 < p)
          BY <1>3, <1>6, <2>2, <2>3, <3>3
        <4>2. w[k - 1].recordID # i
          BY <1>2, <1>3, <2>1, <1>6, <4>1
        <4>3. QED
          BY <1>3, <1>7, <4>1, <4>2
      <3>4. QED
        BY <1>6, <3>1, <3>2, <3>3
    <2>5. \A j, k \in 1 .. n : j < k => v[j].recordID < v[k].recordID
      <3> SUFFICES ASSUME NEW j \in 1 .. n, NEW k \in 1 .. n, j < k
                   PROVE  v[j].recordID < v[k].recordID
        OBVIOUS
      <3>0. j \in Nat /\ k \in Nat /\ p \in Nat /\ n <= m + 1 /\ p >= 1
        BY <1>3, <1>6, <2>2
      <3>1. CASE k < p
        <4>1. j \in 1 .. m /\ k \in 1 .. m /\ v[j] = w[j] /\ v[k] = w[k]
          BY <1>3, <1>6, <2>3, <3>0, <3>1
        <4>2. QED
          BY <1>4, <4>1
      <3>2. CASE k = p
        <4>1. j \in 1 .. m /\ v[j] = w[j] /\ v[k] = e /\ j < p
          BY <1>3, <1>6, <2>3, <3>0, <3>2
        <4>2. QED
          BY <1>6, <4>1
      <3>3. CASE k > p /\ j < p
        <4>1. j \in 1 .. m /\ k - 1 \in 1 .. m /\ v[j] = w[j] /\ v[k] = w[k - 1] /\ j < k - 1
          BY <1>3, <1>6, <2>3, <3>0, <3>3
        <4>2. QED
          BY <1>4, <4>1
      <3>4. CASE k > p /\ j = p
        <4>1. k - 1 \in 1 .. m /\ v[j] = e /\ v[k] = w[k - 1] /\ ~ (k - 1 < p)
          BY <1>3, <1>6, <2>3, <3>0, <3>4
        <4>2. QED
          BY <1>6, <2>1, <4>1
      <3>5. CASE k > p /\ j > p
        <4>1. /\ j - 1 \in 1 .. m /\ k - 1 \in 1 .. m /\ j - 1 < k - 1
              /\ v[j] = w[j - 1] /\ v[k] = w[k - 1]
          BY <1>3, <1>6, <2>3, <3>0, <3>5
        <4>2. QED
          BY <1>4, <4>1
      <3>6. QED
        BY <3>0, <3>1, <3>2, <3>3, <3>4, <3>5
    <2>6. \A r \in RecordIDs : r > a /\ T[r] # NoRecord =>
             \/ \E k \in 1 .. n : v[k].recordID = r
             \/ n = L /\ \A k \in 1 .. n : v[k].recordID < r
      <3> SUFFICES ASSUME NEW r \in RecordIDs, r > a, T[r] # NoRecord,
                          \A k \in 1 .. n : v[k].recordID # r
                   PROVE  n = L /\ \A k \in 1 .. n : v[k].recordID < r
        OBVIOUS
      <3>0. r \in Nat /\ n \in Nat /\ p \in Nat /\ \A k \in 1 .. n : v[k].recordID \in Nat
        <4>1. r \in Nat /\ n \in Nat /\ p \in Nat
          BY <1>3, <1>6, <1>10, <2>2
        <4>2. \A k \in 1 .. n : v[k] \in RecordEnvelope
          BY <2>3
        <4>3. \A k \in 1 .. n : v[k].recordID \in Nat
          BY <1>10, <4>2 DEF RecordEnvelope
        <4>4. QED
          BY <4>1, <4>3
      <3>1. CASE r = i
        <4>1. p \notin 1 .. n
          BY <2>3, <3>1
        <4>2. p > n
          BY <1>6, <3>0, <4>1
        <4>3. n = L /\ n <= m
          BY <1>3, <1>6, <1>8, <4>2
        <4>4. \A k \in 1 .. n : k \in 1 .. m /\ k < p /\ v[k] = w[k]
          BY <1>3, <2>3, <3>0, <4>2, <4>3
        <4>5. QED
          BY <1>6, <3>1, <4>3, <4>4
      <3>2. CASE r # i
        <4>1. \/ \E k \in 1 .. m : w[k].recordID = r
              \/ m = L /\ \A k \in 1 .. m : w[k].recordID < r
          BY <1>5, <1>7, <3>2
        <4>2. CASE \E k \in 1 .. m : w[k].recordID = r
          <5>1. PICK k \in 1 .. m : w[k].recordID = r
            BY <4>2
          <5>2. k >= p
            <6>1. SUFFICES ASSUME k < p PROVE FALSE
              BY <3>0
            <6>2. k > n
              <7>1. k \in 1 .. n => v[k] = w[k]
                BY <2>3, <6>1
              <7>2. QED
                BY <3>0, <5>1, <7>1
            <6>3. FALSE
              BY <1>3, <1>6, <1>8, <6>1, <6>2
            <6>4. QED
              BY <6>3
          <5>3. k + 1 \notin 1 .. n
            <6>1. k + 1 \in 1 .. n => v[k + 1] = w[(k + 1) - 1]
              BY <2>3, <3>0, <5>2
            <6>2. (k + 1) - 1 = k
              OBVIOUS
            <6>3. QED
              BY <5>1, <6>1, <6>2
          <5>4. k + 1 > n /\ n = L /\ n <= m
            BY <1>3, <1>8, <3>0, <5>3
          <5>5. ASSUME NEW j \in 1 .. n PROVE v[j].recordID < r
            <6>1. CASE j < p
              <7>1. v[j] = w[j]
                BY <2>3, <6>1
              <7>2. j \in 1 .. m /\ j < k
                BY <1>3, <3>0, <5>2, <5>4, <6>1
              <7>3. QED
                <8>1. w[j].recordID < w[k].recordID
                  BY <1>4, <7>2
                <8>2. QED
                  BY <5>1, <7>1, <8>1
            <6>2. CASE j = p
              <7>1. v[j].recordID = i
                BY <2>3, <6>2
              <7>2. i < w[k].recordID
                BY <1>6, <2>1, <5>2
              <7>3. QED
                BY <5>1, <7>1, <7>2
            <6>3. CASE j > p
              <7>1. j - 1 \in 1 .. m /\ v[j] = w[j - 1] /\ j - 1 < k
                BY <1>3, <1>6, <2>3, <3>0, <5>4, <6>3
              <7>2. QED
                BY <1>4, <5>1, <7>1
            <6>4. QED
              BY <3>0, <6>1, <6>2, <6>3
          <5>6. QED
            BY <5>4, <5>5
        <4>3. CASE m = L /\ \A k \in 1 .. m : w[k].recordID < r
          <5>1. n = L /\ n = m
            BY <1>3, <1>8, <4>3
          <5>2. ASSUME NEW j \in 1 .. n PROVE v[j].recordID < r
            <6>1. CASE j < p
              BY <2>3, <4>3, <5>1, <6>1
            <6>2. CASE j = p
              <7>1. p \in 1 .. m /\ v[j] = e /\ ~ (p < p)
                BY <2>3, <3>0, <5>1, <6>2
              <7>2. i < w[p].recordID /\ w[p].recordID < r
                BY <1>6, <2>1, <4>3, <7>1
              <7>3. QED
                BY <1>2, <1>3, <3>0, <7>1, <7>2
            <6>3. CASE j > p
              <7>1. j - 1 \in 1 .. m /\ v[j] = w[j - 1]
                BY <1>3, <1>6, <2>3, <3>0, <5>1, <6>3
              <7>2. QED
                BY <4>3, <7>1
            <6>4. QED
              BY <3>0, <6>1, <6>2, <6>3
          <5>3. QED
            BY <5>1, <5>2
        <4>4. QED
          BY <4>1, <4>2, <4>3
      <3>3. QED
        BY <3>1, <3>2
    <2>7. IsPage(v, T, a, L)
      BY <2>2, <2>3, <2>4, <2>5, <2>6, WindowIsPage
    <2>8. QED
      BY <1>9, <1>12, <2>7 DEF T, v
  <1>13. QED
    BY <1>11, <1>12

\* One envelope of the file keeps the window what it should be.
LEMMA ScanStepKeepsPage ==
    ASSUME NEW R, IsTable(R), NEW a \in Nat, NEW L \in Nat, NEW w, IsPage(w, R, a, L),
           NEW e \in RecordEnvelope
    PROVE  IsPage(ScanStep(a, L, w, e), [R EXCEPT ![e.recordID] = e], a, L)
  <1>1. e.recordID \in RecordIDs /\ e.recordID \in Nat
    BY RetrievalAssumption DEF RecordEnvelope
  <1>2. CASE e.recordID > a
    BY <1>2, RetainKeepsPage DEF ScanStep, AfterCursor
  <1>3. CASE ~ (e.recordID > a)
    <2> DEFINE T == [R EXCEPT ![e.recordID] = e]
    <2>1. /\ w \in Seq(RecordEnvelope) /\ Len(w) <= L
          /\ \A k \in 1 .. Len(w) :
                w[k].recordID \in RecordIDs /\ w[k].recordID > a /\ R[w[k].recordID] = w[k]
      BY WindowFields DEF IsPage
    <2>2. \A j, k \in 1 .. Len(w) : j < k => w[j].recordID < w[k].recordID
      BY WindowFields
    <2>3. \A i \in RecordIDs : i > a /\ R[i] # NoRecord =>
             \/ \E k \in 1 .. Len(w) : w[k].recordID = i
             \/ Len(w) = L /\ \A k \in 1 .. Len(w) : w[k].recordID < i
      BY WindowFields
    <2>4. \A i \in RecordIDs : i > a => T[i] = R[i]
      BY <1>1, <1>3 DEF IsTable
    <2> HIDE DEF T
    <2>5. IsPage(w, T, a, L)
      BY <2>1, <2>2, <2>3, <2>4, WindowIsPage
    <2>6. QED
      BY <1>3, <2>5 DEF ScanStep, AfterCursor, T
  <1>4. QED
    BY <1>2, <1>3

\* The scan of a whole file ends with the window of the map that the file
\* decodes to.
LEMMA ScanIsPage ==
    ASSUME NEW f \in Seq(RecordEnvelope), NEW a \in Nat, NEW L \in Nat
    PROVE  IsPage(Candidates(f, a, L), Load(f), a, L)
  <1> DEFINE n == Len(f)
  <1>0. n \in Nat /\ DOMAIN f = 1 .. n
    OBVIOUS
  <1>1. PICK c : /\ c[0] = <<>>
                 /\ \A k \in 1 .. n : c[k] = ScanStep(a, L, c[k - 1], f[k])
                 /\ Candidates(f, a, L) = c[n]
    <2>1. \E c : /\ c[0] = <<>>
                 /\ \A k \in 1 .. n : c[k] = ScanStep(a, L, c[k - 1], f[k])
                 /\ Candidates(f, a, L) = c[n]
      <3> HIDE DEF n
      <3>1. QED
        BY <1>0, ScanRuns, SMTT(60)
    <2>2. QED
      BY <2>1
  <1> DEFINE Done == {k \in Nat : k <= n => IsPage(c[k], LoadedTo(f, k), a, L)}
  <1>2. 0 \in Done
    <2>1. \A i \in RecordIDs : LoadedTo(f, 0)[i] = NoRecord
      BY DEF LoadedTo, Places
    <2>2. <<>> \in Seq(RecordEnvelope) /\ Len(<<>>) = 0 /\ 0 <= L
      OBVIOUS
    <2>3. \A k \in 1 .. Len(<<>>) : FALSE
      BY <2>2
    <2> DEFINE w == <<>>
               R == LoadedTo(f, 0)
    <2>4. w \in Seq(RecordEnvelope) /\ Len(w) <= L /\ \A k \in 1 .. Len(w) : FALSE
      BY <2>2, <2>3
    <2>5. w = <<>> /\ \A i \in RecordIDs : R[i] = NoRecord
      BY <2>1
    <2> HIDE DEF w, R
    <2>6. IsPage(w, R, a, L)
      BY <2>4, <2>5, WindowIsPage
    <2>7. QED
      BY <1>1, <2>6 DEF w, R
  <1>3. ASSUME NEW k \in Nat, k \in Done PROVE k + 1 \in Done
    <2> SUFFICES ASSUME k + 1 <= n PROVE IsPage(c[k + 1], LoadedTo(f, k + 1), a, L)
      OBVIOUS
    <2>1. k + 1 \in 1 .. n /\ k \in 0 .. n /\ (k + 1) - 1 = k
      BY <1>0
    <2>2. IsPage(c[k], LoadedTo(f, k), a, L)
      BY <1>3, <2>1
    <2>3. IsTable(LoadedTo(f, k))
      BY <2>1, LoadedIsTable
    <2>4. f[k + 1] \in RecordEnvelope
      BY <2>1
    <2>5. c[k + 1] = ScanStep(a, L, c[k], f[k + 1])
      BY <1>1, <2>1
    <2>6. LoadedTo(f, k + 1) = [LoadedTo(f, k) EXCEPT ![f[k + 1].recordID] = f[k + 1]]
      BY <2>1, LoadedStep
    <2>7. QED
      BY <2>2, <2>3, <2>4, <2>5, <2>6, ScanStepKeepsPage
  <1>4. n \in Done
    <2> HIDE DEF Done
    <2>1. Nat \subseteq Done
      BY <1>2, <1>3, NaturalInduction
    <2>2. QED
      BY <1>0, <2>1
  <1>5. QED
    BY <1>0, <1>1, <1>4, LoadIsLoaded

-----------------------------------------------------------------------------
(* Retrieval: a map's records in the order in which save writes them.      *)

\* Identifiers are finitely many positive numbers.
LEMMA IdentifiersAre ==
    /\ RecordIDs \subseteq Nat \ {0} /\ IsFiniteSet(RecordIDs)
    /\ \A i \in RecordIDs : i \in Nat
  <1>1. RecordIDs \subseteq Nat \ {0} /\ IsFiniteSet(RecordIDs)
    BY RetrievalAssumption, Zenon
  <1>2. QED
    BY <1>1

\* Each record of the map has its place, in order.
LEMMA RecordsInOrder ==
    ASSUME NEW R, IsTable(R), NEW ids \in SUBSET RecordIDs
    PROVE  LET s == ByRecordID(Present(R, ids))
           IN  /\ s \in Seq(RecordEnvelope)
               /\ \A k \in 1 .. Len(s) : s[k].recordID \in ids /\ R[s[k].recordID] = s[k]
               /\ \A j, k \in 1 .. Len(s) : j < k => s[j].recordID < s[k].recordID
               /\ \A i \in ids : R[i] # NoRecord => \E k \in 1 .. Len(s) : s[k].recordID = i
  <1> DEFINE S == Present(R, ids)
             T == {i \in ids : R[i] # NoRecord}
             f == [i \in T |-> R[i]]
             key == [e \in S |-> e.recordID]
             s == InOrder(S, key)
             n == Cardinality(S)
  <1>1. \A i \in RecordIDs : R[i] # NoRecord => R[i] \in RecordEnvelope /\ R[i].recordID = i
    BY DEF IsTable
  <1>2. \A e \in S : e \in RecordEnvelope /\ e.recordID \in T /\ R[e.recordID] = e
    BY <1>1 DEF Present
  <1>3. \A i \in T : R[i] \in S
    BY DEF Present
  <1>4. IsFiniteSet(S)
    <2>1. T \in SUBSET RecordIDs /\ IsFiniteSet(T)
      BY IdentifiersAre, FS_Subset
    <2>2. f \in Surjection(T, S)
      BY <1>2, <1>3 DEF Surjection
    <2> HIDE DEF f, T, S
    <2>3. QED
      BY <2>1, <2>2, FS_Surjection
  <1>5. key \in [S -> Nat] /\ \A x, y \in S : key[x] = key[y] => x = y
    <2>1. \A i \in RecordIDs : i \in Nat
      BY RetrievalAssumption
    <2>2. \A e \in S : e.recordID \in Nat /\ R[e.recordID] = e
      BY <1>2, <2>1
    <2> HIDE DEF S
    <2>3. QED
      BY <2>2
  <1> HIDE DEF S, key
  <1>6. /\ n \in Nat /\ s \in [1 .. n -> S]
        /\ \A e \in S : \E k \in 1 .. n : s[k] = e
        /\ \A j, k \in 1 .. n : j < k => key[s[j]] < key[s[k]]
    BY <1>4, <1>5, InOrderLists
  <1> HIDE DEF s, n
  <1>7. \A k \in 1 .. n : s[k] \in S /\ key[s[k]] = s[k].recordID
    BY <1>6 DEF key
  <1>8. s \in Seq(RecordEnvelope) /\ Len(s) = n
    BY <1>2, <1>6, <1>7
  <1>9. \A j, k \in 1 .. n : j < k => s[j].recordID < s[k].recordID
    BY <1>6, <1>7
  <1>10. \A i \in ids : R[i] # NoRecord => \E k \in 1 .. n : s[k].recordID = i
    BY <1>1, <1>3, <1>6
  <1>11. \A k \in 1 .. n : s[k].recordID \in ids /\ R[s[k].recordID] = s[k]
    BY <1>2, <1>7
  <1>12. s = ByRecordID(Present(R, ids))
    BY DEF ByRecordID, s, S, key
  <1> HIDE DEF T, f
  <1>13. QED
    BY <1>8, <1>9, <1>10, <1>11, <1>12

\* The beginning of the map's records after the cursor is the window.
LEMMA BeginningIsPage ==
    ASSUME NEW R, IsTable(R), NEW a \in Nat, NEW L \in Nat
    PROVE  IsPage(PageOf(R, a, L), R, a, L)
  <1> DEFINE ids == {i \in RecordIDs : i > a}
             s == ByRecordID(Present(R, ids))
             n == Min({L, Len(s)})
             v == SubSeq(s, 1, n)
  <1>1. ids \in SUBSET RecordIDs
    OBVIOUS
  <1>2. /\ s \in Seq(RecordEnvelope)
        /\ \A k \in 1 .. Len(s) : s[k].recordID \in ids /\ R[s[k].recordID] = s[k]
        /\ \A j, k \in 1 .. Len(s) : j < k => s[j].recordID < s[k].recordID
        /\ \A i \in ids : R[i] # NoRecord => \E k \in 1 .. Len(s) : s[k].recordID = i
    <2> HIDE DEF ids
    <2>1. QED
      BY <1>1, RecordsInOrder
  <1> HIDE DEF s
  <1>3. n = IF L <= Len(s) THEN L ELSE Len(s)
    BY <1>2, LeastOfTwo
  <1>4. n \in Nat /\ n <= L /\ n <= Len(s) /\ \A k \in 1 .. n : k \in 1 .. Len(s)
    <2>1. Len(s) \in Nat
      BY <1>2
    <2> HIDE DEF n
    <2>2. n \in Nat /\ n <= L /\ n <= Len(s)
      BY <1>3, <2>1
    <2>3. QED
      BY <2>1, <2>2
  <1> HIDE DEF n
  <1>5. v \in Seq(RecordEnvelope) /\ Len(v) = n /\ \A k \in 1 .. n : v[k] = s[k]
    BY <1>2, <1>4
  <1> HIDE DEF v
  <1>6. \A i \in RecordIDs : i > a /\ R[i] # NoRecord =>
           \/ \E k \in 1 .. n : v[k].recordID = i
           \/ n = L /\ \A k \in 1 .. n : v[k].recordID < i
    <2> SUFFICES ASSUME NEW i \in RecordIDs, i > a, R[i] # NoRecord
                 PROVE  \/ \E k \in 1 .. n : v[k].recordID = i
                        \/ n = L /\ \A k \in 1 .. n : v[k].recordID < i
      OBVIOUS
    <2>1. PICK k \in 1 .. Len(s) : s[k].recordID = i
      BY <1>2
    <2>2. CASE k <= n
      <3>1. k \in 1 .. n /\ v[k].recordID = i
        BY <1>4, <1>5, <2>1, <2>2
      <3>2. QED
        BY <3>1
    <2>3. CASE k > n
      <3>1. n = L
        BY <1>2, <1>3, <2>3
      <3>2. \A j \in 1 .. n : j \in 1 .. Len(s) /\ j < k /\ v[j] = s[j]
        BY <1>4, <1>5, <2>3
      <3>3. QED
        BY <1>2, <2>1, <3>1, <3>2
    <2>4. QED
      BY <1>4, <2>2, <2>3
  <1>7. IsPage(v, R, a, L)
    BY <1>2, <1>4, <1>5, <1>6, WindowIsPage
  <1>8. QED
    BY <1>7 DEF PageOf, v, n, s

\* What is scanned is the beginning of the map, whatever envelopes the file has.
LEMMA ScanIsBeginning ==
    ASSUME NEW f \in Seq(RecordEnvelope), NEW a \in Nat, NEW L \in Nat
    PROVE  Candidates(f, a, L) = PageOf(Load(f), a, L)
  <1>1. IsTable(Load(f))
    <2>1. Len(f) \in 0 .. Len(f)
      OBVIOUS
    <2>2. QED
      BY <2>1, LoadIsLoaded, LoadedIsTable
  <1>2. QED
    BY <1>1, ScanIsPage, BeginningIsPage, PageIsUnique

-----------------------------------------------------------------------------
(* Retrieval: the files and the walk through the pages.                    *)

\* A file may lose a payload with nothing in it, and nothing else of a record.
LEMMA PersistedFields ==
    ASSUME NEW a \in RecordEnvelope
    PROVE  /\ Persisted(a) \in RecordEnvelope
           /\ Persisted(a).dataset = a.dataset
           /\ Persisted(a).recordID = a.recordID
           /\ Persisted(a).revision = a.revision
           /\ Persisted(a).updatedAt = a.updatedAt
           /\ Persisted(a).originDevice = a.originDevice
           /\ Persisted(a).deleted = a.deleted
           /\ Persisted(Persisted(a)) = Persisted(a)
  <1>1. Persisted(a).payload # EmptyPayload
    BY PayloadAssumption DEF Persisted, RecordEnvelope
  <1>2. Persisted(Persisted(a)) = Persisted(a)
    BY <1>1, Zenon DEF Persisted
  <1>3. QED
    BY <1>2 DEF Persisted, RecordEnvelope

\* Hence it covers what it covered before it was saved.
LEMMA PersistedCovers ==
    ASSUME NEW a \in RecordEnvelope, NEW b, Covers(a, b)
    PROVE  Covers(Persisted(a), b)
  <1> DEFINE p == Persisted(a)
  <1>1. /\ p.dataset = a.dataset /\ p.recordID = a.recordID
        /\ p.revision = a.revision /\ p.updatedAt = a.updatedAt
        /\ p.originDevice = a.originDevice /\ p.deleted = a.deleted
    BY PersistedFields
  <1> HIDE DEF p
  <1>2. SameRecord(p, b) /\ ~ Supersedes(b, p)
    BY <1>1 DEF Covers, SameRecord, Supersedes
  <1>3. QED
    BY <1>2 DEF Covers, p

\* What devices send and what the file may have of it are envelopes, of this
\* dataset.
LEMMA EnvelopesAre ==
    ASSUME NEW e \in Stored
    PROVE  /\ e \in RecordEnvelope /\ e # NoRecord /\ e.dataset = Dataset
           /\ e.recordID \in RecordIDs /\ e.recordID \in Nat
           /\ Persisted(e) \in Stored
  <1>1. PICK sent \in Envelopes : e = sent \/ e = Persisted(sent)
    BY DEF Stored
  <1>2. sent \in RecordEnvelope /\ sent.dataset = Dataset
    BY RetrievalAssumption
  <1>3. e \in RecordEnvelope /\ e.dataset = Dataset
    BY <1>1, <1>2, PersistedFields
  <1>4. Persisted(e) = Persisted(sent)
    BY <1>1, <1>2, PersistedFields
  <1>5. e # NoRecord
    BY <1>3, RetrievalAssumption
  <1>6. e.recordID \in RecordIDs
    BY <1>3 DEF RecordEnvelope
  <1>7. e.recordID \in Nat
    BY <1>6, IdentifiersAre
  <1>8. Persisted(e) \in Stored
    BY <1>4 DEF Stored
  <1>9. QED
    BY <1>3, <1>5, <1>6, <1>7, <1>8

\* The map of a file of accepted envelopes has accepted envelopes.
LEMMA FileIsTable ==
    ASSUME NEW f \in Seq(Stored)
    PROVE  /\ f \in Seq(RecordEnvelope)
           /\ IsTable(Load(f))
           /\ \A i \in RecordIDs : Load(f)[i] # NoRecord =>
                 Load(f)[i] \in Stored /\ Load(f)[i].recordID = i
           /\ \A k \in 1 .. Len(f) : Load(f)[f[k].recordID] # NoRecord
  <1>1. f \in Seq(RecordEnvelope)
    <2>1. Len(f) \in Nat /\ f \in [1 .. Len(f) -> Stored]
      OBVIOUS
    <2>2. f \in [1 .. Len(f) -> RecordEnvelope]
      BY <2>1, EnvelopesAre
    <2>3. QED
      BY <2>1, <2>2
  <1>2. Len(f) \in Nat /\ Len(f) \in 0 .. Len(f)
    OBVIOUS
  <1>3. Load(f) = LoadedTo(f, Len(f)) /\ IsTable(Load(f))
    BY <1>1, <1>2, LoadIsLoaded, LoadedIsTable
  <1>4. ASSUME NEW i \in RecordIDs, Places(f, Len(f), i) # {}
        PROVE  Load(f)[i] \in Stored
    <2>1. Max(Places(f, Len(f), i)) \in 1 .. Len(f)
      BY <1>2, <1>4, LastPlace
    <2>2. f[Max(Places(f, Len(f), i))] \in Stored
      BY <2>1
    <2>3. QED
      BY <1>3, <1>4, <2>2 DEF LoadedTo
  <1>5. \A i \in RecordIDs : Places(f, Len(f), i) = {} => Load(f)[i] = NoRecord
    BY <1>3 DEF LoadedTo
  <1>6. \A i \in RecordIDs : Load(f)[i] # NoRecord =>
           Load(f)[i] \in Stored /\ Load(f)[i].recordID = i
    BY <1>3, <1>4, <1>5 DEF IsTable
  <1>7. ASSUME NEW k \in 1 .. Len(f) PROVE Load(f)[f[k].recordID] # NoRecord
    <2>1. f[k] \in Stored
      OBVIOUS
    <2>2. f[k].recordID \in RecordIDs /\ k \in Places(f, Len(f), f[k].recordID)
      BY <2>1, EnvelopesAre DEF Places
    <2>3. Load(f)[f[k].recordID] \in Stored
      BY <1>4, <2>2
    <2>4. QED
      BY <2>3, EnvelopesAre
  <1>8. QED
    BY <1>1, <1>3, <1>6, <1>7

\* A map of accepted envelopes written out in its order: the file decodes to it.
LEMMA WrittenIsLoaded ==
    ASSUME NEW R, IsTable(R), \A i \in RecordIDs : R[i] # NoRecord => R[i] \in Stored,
           file' = ByRecordID(Present(R, RecordIDs))
    PROVE  /\ FileInv'
           /\ table' = R
  <1>1. /\ file' \in Seq(RecordEnvelope)
        /\ \A k \in 1 .. Len(file') :
              file'[k].recordID \in RecordIDs /\ R[file'[k].recordID] = file'[k]
        /\ \A j, k \in 1 .. Len(file') : j < k => file'[j].recordID < file'[k].recordID
        /\ \A i \in RecordIDs : R[i] # NoRecord =>
              \E k \in 1 .. Len(file') : file'[k].recordID = i
    <2> DEFINE s == ByRecordID(Present(R, RecordIDs))
    <2>1. RecordIDs \in SUBSET RecordIDs
      OBVIOUS
    <2>2. /\ s \in Seq(RecordEnvelope)
          /\ \A k \in 1 .. Len(s) : s[k].recordID \in RecordIDs /\ R[s[k].recordID] = s[k]
          /\ \A j, k \in 1 .. Len(s) : j < k => s[j].recordID < s[k].recordID
          /\ \A i \in RecordIDs : R[i] # NoRecord => \E k \in 1 .. Len(s) : s[k].recordID = i
      BY <2>1, RecordsInOrder
    <2>3. file' = s
      OBVIOUS
    <2> HIDE DEF s
    <2>4. QED
      BY <2>2, <2>3
  <1> DEFINE f == file'
             n == Len(f)
  <1>2. n \in Nat /\ DOMAIN f = 1 .. n
    BY <1>1
  <1>3. f \in Seq(Stored)
    <2>1. \A k \in 1 .. n : f[k] \in RecordEnvelope
      BY <1>1
    <2>2. \A k \in 1 .. n : f[k] \in Stored
      <3> SUFFICES ASSUME NEW k \in 1 .. n PROVE f[k] \in Stored
        OBVIOUS
      <3>1. f[k] # NoRecord
        BY <2>1, RetrievalAssumption
      <3>2. f[k].recordID \in RecordIDs /\ R[f[k].recordID] = f[k]
        BY <1>1
      <3>3. R[f[k].recordID] \in Stored
        BY <3>1, <3>2
      <3>4. QED
        BY <3>2, <3>3
    <2>3. QED
      BY <1>1, <1>2, <2>2
  <1>4. FileInv'
    BY <1>1, <1>2, <1>3 DEF FileInv, Before
  <1>5. Load(f) = LoadedTo(f, n)
    BY <1>1, LoadIsLoaded
  <1>6. ASSUME NEW i \in RecordIDs PROVE LoadedTo(f, n)[i] = R[i]
    <2>1. CASE Places(f, n, i) = {}
      <3>1. \A k \in 1 .. n : f[k].recordID # i
        BY <2>1 DEF Places
      <3>2. R[i] = NoRecord
        BY <1>1, <3>1
      <3>3. QED
        BY <2>1, <3>2 DEF LoadedTo
    <2>2. CASE Places(f, n, i) # {}
      <3>1. /\ Max(Places(f, n, i)) \in 1 .. n
            /\ f[Max(Places(f, n, i))].recordID = i
        BY <1>2, <2>2, LastPlace
      <3>2. QED
        BY <1>1, <2>2, <3>1 DEF LoadedTo
    <2>3. QED
      BY <2>1, <2>2
  <1>7. LoadedTo(f, n) = R
    BY <1>6 DEF LoadedTo, IsTable
  <1>8. QED
    BY <1>4, <1>5, <1>7 DEF table

\* The map that the saved file decodes to.
Filed(R) == [i \in RecordIDs |-> IF R[i] = NoRecord THEN NoRecord ELSE Persisted(R[i])]

\* What save writes of a map of accepted envelopes: the file decodes to the same
\* records, as the file keeps them.
LEMMA SavedIsLoaded ==
    ASSUME NEW R, IsTable(R), \A i \in RecordIDs : R[i] # NoRecord => R[i] \in Stored,
           Save(R)
    PROVE  /\ FileInv'
           /\ table' = Filed(R)
  <1>1. ASSUME NEW i \in RecordIDs, R[i] # NoRecord
        PROVE  /\ Filed(R)[i] = Persisted(R[i]) /\ Filed(R)[i] \in Stored
               /\ Filed(R)[i] \in RecordEnvelope /\ Filed(R)[i] # NoRecord
               /\ Filed(R)[i].recordID = i
    <2>1. R[i] \in Stored /\ R[i] \in RecordEnvelope /\ R[i].recordID = i
      BY <1>1, EnvelopesAre DEF IsTable
    <2>2. Filed(R)[i] = Persisted(R[i])
      BY <1>1 DEF Filed
    <2>3. Persisted(R[i]) \in Stored /\ Persisted(R[i]).recordID = i
      BY <2>1, EnvelopesAre, PersistedFields
    <2>4. Persisted(R[i]) \in RecordEnvelope /\ Persisted(R[i]) # NoRecord
      BY <2>3, EnvelopesAre
    <2>5. QED
      BY <2>2, <2>3, <2>4
  <1>2. \A i \in RecordIDs : R[i] = NoRecord => Filed(R)[i] = NoRecord
    BY DEF Filed
  <1>3. Filed(R) \in [RecordIDs -> RecordEnvelope \cup {NoRecord}]
    <2>1. \A i \in RecordIDs : Filed(R)[i] \in RecordEnvelope \cup {NoRecord}
      BY <1>1, <1>2
    <2>2. Filed(R) = [i \in RecordIDs |-> Filed(R)[i]]
      BY DEF Filed
    <2>3. QED
      BY <2>1, <2>2
  <1>4. /\ IsTable(Filed(R))
        /\ \A i \in RecordIDs : Filed(R)[i] # NoRecord => Filed(R)[i] \in Stored
    BY <1>1, <1>2, <1>3 DEF IsTable
  <1>5. {Persisted(e) : e \in Present(R, RecordIDs)} = Present(Filed(R), RecordIDs)
    <2>1. \A i \in RecordIDs : Filed(R)[i] # NoRecord =>
             R[i] # NoRecord /\ Filed(R)[i] = Persisted(R[i])
      BY <1>1, <1>2
    <2>2. ASSUME NEW e \in Present(R, RecordIDs)
          PROVE  Persisted(e) \in Present(Filed(R), RecordIDs)
      <3>1. PICK i \in RecordIDs : e = R[i] /\ R[i] # NoRecord
        BY DEF Present
      <3>2. Persisted(e) = Filed(R)[i] /\ Filed(R)[i] # NoRecord
        BY <1>1, <3>1
      <3>3. QED
        BY <3>2 DEF Present
    <2>3. ASSUME NEW p \in Present(Filed(R), RecordIDs)
          PROVE  \E e \in Present(R, RecordIDs) : p = Persisted(e)
      <3>1. PICK i \in RecordIDs : p = Filed(R)[i] /\ Filed(R)[i] # NoRecord
        BY DEF Present
      <3>2. R[i] \in Present(R, RecordIDs) /\ p = Persisted(R[i])
        BY <2>1, <3>1 DEF Present
      <3>3. QED
        BY <3>2
    <2>4. QED
      BY <2>2, <2>3
  <1>6. file' = ByRecordID(Present(Filed(R), RecordIDs))
    BY <1>5 DEF Save
  <1>7. QED
    BY <1>4, <1>6, WrittenIsLoaded

\* A record that covers another one still does as the file keeps it.
LEMMA FiledCovers ==
    ASSUME NEW R, NEW i \in RecordIDs, NEW b,
           R[i] \in Stored, Covers(R[i], b)
    PROVE  Filed(R)[i] # NoRecord /\ Covers(Filed(R)[i], b)
  <1>1. R[i] # NoRecord /\ R[i] \in RecordEnvelope /\ Persisted(R[i]) \in Stored
    BY EnvelopesAre
  <1>2. Filed(R)[i] = Persisted(R[i])
    BY <1>1 DEF Filed
  <1>3. Persisted(R[i]) # NoRecord
    BY <1>1, EnvelopesAre
  <1>4. QED
    BY <1>1, <1>2, <1>3, PersistedCovers

\* Versions of a record: a later one may stand in for an earlier one.
LEMMA LaterVersionCovers ==
    ASSUME NEW a \in RecordEnvelope, NEW b \in RecordEnvelope, NEW c \in RecordEnvelope
    PROVE  /\ Covers(a, a)
           /\ /\ SameRecord(a, b) /\ ResolveConflict(b, a) = "remote"
              /\ Covers(b, c)
              => Covers(a, c)
  <1>1. \A e \in RecordEnvelope : /\ e.revision \in Nat /\ e.updatedAt \in Nat
                                  /\ e.deleted \in BOOLEAN /\ e.originDevice \in Nat
    BY DevicesAssumption DEF RecordEnvelope
  <1>2. Covers(a, a)
    BY <1>1 DEF Covers, SameRecord, Supersedes
  <1>3. ASSUME SameRecord(a, b), ResolveConflict(b, a) = "remote", Covers(b, c)
        PROVE  Covers(a, c)
    <2>1. Supersedes(a, b)
      BY <1>3 DEF ResolveConflict
    <2>2. ~ Supersedes(c, b)
      BY <1>3 DEF Covers
    <2>3. ~ Supersedes(c, a)
      BY <1>1, <2>1, <2>2 DEF Supersedes
    <2>4. QED
      BY <1>3, <2>3 DEF Covers, SameRecord
  <1>4. QED
    BY <1>2, <1>3

-----------------------------------------------------------------------------
(* Retrieval: the invariant.                                               *)

\* The invariant holds of an empty store that nobody reads.
LEMMA RetrievalInitially == Init => RetrievalInv
  <1> SUFFICES ASSUME Init PROVE RetrievalInv
    OBVIOUS
  <1>1. FileInv
    BY DEF Init, FileInv
  <1>2. GotInv
    BY DEF Init, GotInv
  <1>3. \A i \in RecordIDs : since[i] = NoRecord
    BY DEF Init, Nothing
  <1>4. SinceInv /\ WalkIsComplete
    BY <1>3 DEF Init, SinceInv, WalkIsComplete, Nothing
  <1>5. QED
    BY <1>1, <1>2, <1>4 DEF RetrievalInv

\* AcceptAndPersist replaces a record by a version that wins over it.
LEMMA AcceptKeeps ==
    ASSUME RetrievalInv, NEW e \in Envelopes, AcceptAndPersist(e)
    PROVE  RetrievalInv'
  <1> DEFINE T == [table EXCEPT ![e.recordID] = e]
  <1>1. /\ IsTable(table)
        /\ \A i \in RecordIDs : table[i] # NoRecord =>
              table[i] \in Stored /\ table[i].recordID = i
    BY FileIsTable DEF RetrievalInv, FileInv, table
  <1>2. e \in RecordEnvelope /\ e # NoRecord /\ e.dataset = Dataset /\ e.recordID \in RecordIDs
    <2>1. e \in Stored
      BY DEF Stored
    <2>2. QED
      BY <2>1, EnvelopesAre
  <1>3. \A i \in RecordIDs : T[i] = IF i = e.recordID THEN e ELSE table[i]
    BY <1>1 DEF IsTable
  <1>4. IsTable(T) /\ \A i \in RecordIDs : T[i] # NoRecord => T[i] \in Stored
    <2>1. T \in [RecordIDs -> RecordEnvelope \cup {NoRecord}]
      BY <1>1, <1>2 DEF IsTable
    <2>2. e \in Stored
      BY DEF Stored
    <2>3. QED
      BY <1>1, <1>2, <1>3, <2>1, <2>2 DEF IsTable
  <1>5. FileInv' /\ table' = Filed(T)
    <2>1. Save(T)
      BY DEF AcceptAndPersist
    <2> HIDE DEF T
    <2>2. QED
      BY <1>4, <2>1, SavedIsLoaded
  <1>6. ASSUME NEW i \in RecordIDs, since[i] # NoRecord
        PROVE  T[i] # NoRecord /\ Covers(T[i], since[i])
    <2>1. table[i] # NoRecord /\ Covers(table[i], since[i])
      BY <1>6 DEF RetrievalInv, SinceInv
    <2>2. CASE i # e.recordID
      BY <1>3, <2>1, <2>2
    <2>3. CASE i = e.recordID
      <3>1. ResolveConflict(table[i], e) = "remote"
        BY <2>1, <2>3 DEF AcceptAndPersist
      <3>2. /\ table[i] \in RecordEnvelope /\ table[i].dataset = Dataset
            /\ table[i].recordID = i
        BY <1>1, <2>1, EnvelopesAre
      <3>3. since[i] \in RecordEnvelope
        BY <1>6, EnvelopesAre DEF RetrievalInv, SinceInv
      <3>4. SameRecord(e, table[i])
        BY <1>2, <2>3, <3>2 DEF SameRecord
      <3>5. Covers(e, since[i])
        BY <1>2, <2>1, <3>1, <3>2, <3>3, <3>4, LaterVersionCovers
      <3>6. QED
        BY <1>2, <1>3, <2>3, <3>5
    <2>4. QED
      BY <2>2, <2>3
  <1> HIDE DEF T
  <1>7. UNCHANGED <<walk, got, since>>
    BY DEF AcceptAndPersist
  <1>8. SinceInv'
    <2>1. ASSUME NEW i \in RecordIDs, since[i] # NoRecord
          PROVE  Filed(T)[i] # NoRecord /\ Covers(Filed(T)[i], since[i])
      <3>1. T[i] # NoRecord /\ Covers(T[i], since[i])
        BY <1>6, <2>1
      <3>2. T[i] \in Stored
        BY <1>4, <3>1
      <3>3. QED
        BY <3>1, <3>2, FiledCovers
    <2>2. QED
      BY <1>5, <1>7, <2>1 DEF RetrievalInv, SinceInv
  <1>9. GotInv' /\ WalkIsComplete'
    BY <1>7 DEF RetrievalInv, GotInv, WalkIsComplete, Passed
  <1>10. QED
    BY <1>5, <1>8, <1>9 DEF RetrievalInv

\* Compact removes records, and then the walk need not have them.
LEMMA CompactKeeps ==
    ASSUME RetrievalInv, Compact
    PROVE  RetrievalInv'
  <1>1. PICK ids \in SUBSET RecordIDs :
           /\ Save([i \in RecordIDs |-> IF i \in ids THEN NoRecord ELSE table[i]])
           /\ since' = [i \in RecordIDs |-> IF i \in ids THEN NoRecord ELSE since[i]]
           /\ UNCHANGED <<walk, got>>
    BY DEF Compact
  <1> DEFINE T == [i \in RecordIDs |-> IF i \in ids THEN NoRecord ELSE table[i]]
  <1>2. /\ IsTable(table)
        /\ \A i \in RecordIDs : table[i] # NoRecord => table[i] \in Stored
    BY FileIsTable DEF RetrievalInv, FileInv, table
  <1>3. IsTable(T) /\ \A i \in RecordIDs : T[i] # NoRecord => T[i] \in Stored
    BY <1>2 DEF IsTable
  <1>4. FileInv' /\ table' = Filed(T)
    <2>1. Save(T)
      BY <1>1
    <2> HIDE DEF T
    <2>2. QED
      BY <1>3, <2>1, SavedIsLoaded
  <1>5. SinceInv'
    <2>1. /\ since \in [RecordIDs -> Stored \cup {NoRecord}]
          /\ \A i \in RecordIDs : since[i] # NoRecord =>
                table[i] # NoRecord /\ Covers(table[i], since[i])
      BY DEF RetrievalInv, SinceInv
    <2>2. ASSUME NEW i \in RecordIDs, since'[i] # NoRecord
          PROVE  Filed(T)[i] # NoRecord /\ Covers(Filed(T)[i], since'[i])
      <3>1. since'[i] = since[i] /\ since[i] # NoRecord /\ i \notin ids
        BY <1>1, <2>2
      <3>2. T[i] = table[i] /\ table[i] \in Stored /\ Covers(T[i], since'[i])
        BY <1>2, <2>1, <3>1
      <3> HIDE DEF T
      <3>3. QED
        BY <3>2, FiledCovers
    <2>3. since' \in [RecordIDs -> Stored \cup {NoRecord}]
      BY <1>1, <2>1
    <2>4. QED
      BY <1>4, <2>2, <2>3 DEF SinceInv
  <1>6. GotInv'
    BY <1>1 DEF RetrievalInv, GotInv
  <1>7. WalkIsComplete'
    BY <1>1 DEF RetrievalInv, WalkIsComplete, Passed
  <1>8. QED
    BY <1>4, <1>5, <1>6, <1>7 DEF RetrievalInv

\* A walk starts from what is there.
LEMMA StartWalkKeeps ==
    ASSUME RetrievalInv, StartWalk
    PROVE  RetrievalInv'
  <1>1. /\ IsTable(table)
        /\ \A i \in RecordIDs : table[i] # NoRecord => table[i] \in Stored
    BY FileIsTable DEF RetrievalInv, FileInv, table
  <1>2. /\ walk' = [on |-> TRUE, after |-> 0] /\ got' = <<>> /\ since' = table
        /\ file' = file /\ table' = table
    BY DEF StartWalk, table
  <1>3. FileInv'
    BY <1>2 DEF RetrievalInv, FileInv
  <1>4. GotInv'
    BY <1>2 DEF GotInv
  <1>5. SinceInv'
    <2>1. \A i \in RecordIDs : table[i] # NoRecord => Covers(table[i], table[i])
      BY <1>1, EnvelopesAre, LaterVersionCovers
    <2>2. table \in [RecordIDs -> Stored \cup {NoRecord}]
      BY <1>1 DEF IsTable
    <2>3. QED
      BY <1>2, <2>1, <2>2 DEF SinceInv
  <1>6. WalkIsComplete'
    <2>1. \A i \in RecordIDs : ~ (i <= 0)
      BY RetrievalAssumption
    <2>2. QED
      BY <1>2, <2>1 DEF WalkIsComplete, Passed
  <1>7. QED
    BY <1>3, <1>4, <1>5, <1>6 DEF RetrievalInv

\* A page that goes out after the cursor a: it has the records up to its last, if
\* there is more, and all of them otherwise, each as the store has it.
IsAnswer(page, R, a, more) ==
    /\ page \in Seq(RecordEnvelope)
    /\ \A k \in 1 .. Len(page) :
          /\ page[k].recordID \in RecordIDs /\ page[k].recordID > a
          /\ R[page[k].recordID] = page[k]
    /\ \A j, k \in 1 .. Len(page) : j < k => page[j].recordID < page[k].recordID
    /\ more => /\ Len(page) >= 1
               /\ Last(page).recordID \in RecordIDs
               /\ \A k \in 1 .. Len(page) : page[k].recordID <= Last(page).recordID
    /\ \A i \in RecordIDs :
          i > a /\ (more => i <= Last(page).recordID) /\ R[i] # NoRecord
          => \E k \in 1 .. Len(page) : page[k].recordID = i

\* The beginning of the window is such a page, and the window tells whether there
\* is more.
LEMMA PageIsAnswer ==
    ASSUME NEW R, IsTable(R), NEW a \in Nat, NEW limit \in Nat \ {0}, NEW w,
           IsPage(w, R, a, Window(limit)),
           NEW page, page = SubSeq(w, 1, Min({limit, Len(w)}))
    PROVE  IsAnswer(page, R, a, Len(w) > limit)
  <1> DEFINE L == limit + 1
             m == Len(w)
             n == Min({limit, m})
  <1>0. L \in Nat /\ Window(limit) = L /\ IsPage(w, R, a, L)
    BY DEF Window
  <1> HIDE DEF L
  <1>1. /\ m \in Nat /\ m <= L /\ w \in Seq(RecordEnvelope)
        /\ \A k \in 1 .. m :
              /\ w[k].recordID \in RecordIDs /\ w[k].recordID \in Nat /\ w[k].recordID > a
              /\ R[w[k].recordID] = w[k]
    BY <1>0, WindowFields DEF IsPage
  <1>2. \A j, k \in 1 .. m : j < k => w[j].recordID < w[k].recordID
    BY <1>0, WindowFields
  <1>3. \A i \in RecordIDs : i > a /\ R[i] # NoRecord =>
           \/ \E k \in 1 .. m : w[k].recordID = i
           \/ m = L /\ \A k \in 1 .. m : w[k].recordID < i
    BY <1>0, WindowFields
  <1>4. n = IF limit <= m THEN limit ELSE m
    BY <1>1, LeastOfTwo
  <1> HIDE DEF n
  <1>5. n \in Nat /\ n <= m
    BY <1>1, <1>4
  <1>6. \A k \in 1 .. n : k \in 1 .. m
    BY <1>1, <1>5
  <1>7. page \in Seq(RecordEnvelope) /\ Len(page) = n /\ \A k \in 1 .. n : page[k] = w[k]
    <2>1. page = SubSeq(w, 1, n)
      BY DEF n
    <2>2. w \in Seq(RecordEnvelope) /\ n \in Nat /\ n <= Len(w)
          /\ \A k \in 1 .. n : k \in 1 .. Len(w)
      BY <1>1, <1>5, <1>6
    <2> HIDE DEF m
    <2>3. SubSeq(w, 1, n) \in Seq(RecordEnvelope)
      BY <2>2
    <2>4. Len(SubSeq(w, 1, n)) = n /\ \A k \in 1 .. n : SubSeq(w, 1, n)[k] = w[k]
      BY <2>2
    <2>5. QED
      BY <2>1, <2>3, <2>4
  <1>8. \A k \in 1 .. n :
           /\ page[k].recordID \in RecordIDs /\ page[k].recordID > a
           /\ R[page[k].recordID] = page[k]
    BY <1>1, <1>6, <1>7
  <1>9. \A j, k \in 1 .. n : j < k => page[j].recordID < page[k].recordID
    BY <1>2, <1>6, <1>7
  <1>10. CASE m > limit
    <2>1. n = limit /\ m = L /\ n >= 1 /\ n \in 1 .. n /\ n \in 1 .. m
      BY <1>1, <1>4, <1>10 DEF L
    <2>2. Last(page) = w[n]
      BY <1>7, <2>1 DEF Last
    <2>3. Last(page).recordID \in RecordIDs
      BY <1>1, <2>1, <2>2
    <2>4. \A k \in 1 .. n : page[k].recordID <= w[n].recordID
      <3> SUFFICES ASSUME NEW k \in 1 .. n PROVE w[k].recordID <= w[n].recordID
        BY <1>7
      <3>1. w[k].recordID \in Nat /\ w[n].recordID \in Nat
        BY <1>1, <1>6, <2>1
      <3>2. k = n \/ k < n
        BY <1>5
      <3>3. QED
        BY <1>2, <1>6, <2>1, <3>1, <3>2
    <2>5. ASSUME NEW i \in RecordIDs, i > a, i <= w[n].recordID, R[i] # NoRecord
          PROVE  \E k \in 1 .. n : page[k].recordID = i
      <3>1. i \in Nat /\ w[n].recordID \in Nat
        BY <1>1, <2>1, RetrievalAssumption
      <3>2. ~ (w[n].recordID < i)
        BY <2>5, <3>1
      <3>3. PICK k \in 1 .. m : w[k].recordID = i
        BY <1>3, <2>1, <2>5, <3>2
      <3>4. ~ (n < k)
        BY <1>2, <2>1, <3>2, <3>3
      <3>5. k \in 1 .. n
        BY <1>5, <3>4
      <3>6. QED
        BY <1>7, <3>3, <3>5
    <2>6. QED
      BY <1>7, <1>8, <1>9, <1>10, <2>1, <2>2, <2>3, <2>4, <2>5 DEF IsAnswer
  <1>11. CASE ~ (m > limit)
    <2>1. n = m /\ m # L
      BY <1>1, <1>4, <1>11 DEF L
    <2>2. \A i \in RecordIDs : i > a /\ R[i] # NoRecord
             => \E k \in 1 .. n : page[k].recordID = i
      BY <1>3, <1>7, <2>1
    <2>3. QED
      BY <1>7, <1>8, <1>9, <1>11, <2>2 DEF IsAnswer
  <1>12. QED
    BY <1>10, <1>11

\* Retrieve appends the records up to the next cursor: those that the walk found
\* are among them, in no older version.
LEMMA RetrieveKeeps ==
    ASSUME RetrievalInv, Retrieve
    PROVE  RetrievalInv'
  <1> DEFINE a == walk.after
  <1>1. /\ file \in Seq(Stored) /\ file \in Seq(RecordEnvelope)
        /\ IsTable(table)
        /\ \A i \in RecordIDs : table[i] # NoRecord =>
              table[i] \in Stored /\ table[i].recordID = i
    BY FileIsTable DEF RetrievalInv, FileInv, table
  <1>2. /\ got \in Seq(Stored) /\ a \in Nat /\ walk.on
        /\ \A k \in 1 .. Len(got) : got[k].recordID <= a
        /\ \A j, k \in 1 .. Len(got) : j < k => got[j].recordID < got[k].recordID
    <2>1. walk.on
      BY DEF Retrieve
    <2>2. got \in Seq(Stored) /\ DOMAIN got = 1 .. Len(got)
      BY DEF RetrievalInv, GotInv
    <2>3. a \in Nat
      BY RetrievalAssumption DEF RetrievalInv, GotInv
    <2>4. QED
      BY <2>1, <2>2, <2>3 DEF RetrievalInv, GotInv, WalkIsComplete, Before
  <1>3. /\ since \in [RecordIDs -> Stored \cup {NoRecord}]
        /\ \A i \in RecordIDs : since[i] # NoRecord =>
              table[i] # NoRecord /\ Covers(table[i], since[i])
    BY DEF RetrievalInv, SinceInv
  <1>4. \A i \in RecordIDs : since[i] # NoRecord /\ i <= a =>
           \E k \in 1 .. Len(got) : got[k].recordID = i /\ Covers(got[k], since[i])
    BY <1>2 DEF RetrievalInv, WalkIsComplete, Passed
  <1>5. PICK limit \in Limits : \E candidates, page :
           /\ candidates = Candidates(file, a, Window(limit))
           /\ page = SubSeq(candidates, 1, Min({limit, Len(candidates)}))
           /\ got' = got \o page
           /\ walk' = IF Len(candidates) > limit
                      THEN [walk EXCEPT !.after = Last(page).recordID]
                      ELSE [on |-> FALSE, after |-> 0]
    BY DEF Retrieve
  <1>6. PICK w, page :
           /\ w = Candidates(file, a, Window(limit))
           /\ page = SubSeq(w, 1, Min({limit, Len(w)}))
           /\ got' = got \o page
           /\ walk' = IF Len(w) > limit
                      THEN [walk EXCEPT !.after = Last(page).recordID]
                      ELSE [on |-> FALSE, after |-> 0]
    BY <1>5
  <1>7. limit \in Nat \ {0} /\ Window(limit) \in Nat
    BY RetrievalAssumption DEF Window
  <1>8. IsPage(w, table, a, Window(limit))
    BY <1>1, <1>2, <1>6, <1>7, ScanIsPage DEF table
  <1> DEFINE more == Len(w) > limit
             next == Last(page).recordID
  <1>9. /\ page \in Seq(RecordEnvelope)
        /\ \A k \in 1 .. Len(page) :
              /\ page[k].recordID \in RecordIDs /\ page[k].recordID > a
              /\ table[page[k].recordID] = page[k]
        /\ \A j, k \in 1 .. Len(page) : j < k => page[j].recordID < page[k].recordID
        /\ more => /\ Len(page) >= 1
                   /\ next \in RecordIDs
                   /\ \A k \in 1 .. Len(page) : page[k].recordID <= next
        /\ \A i \in RecordIDs : i > a /\ (more => i <= next) /\ table[i] # NoRecord
              => \E k \in 1 .. Len(page) : page[k].recordID = i
    <2>1. IsAnswer(page, table, a, more)
      BY <1>1, <1>2, <1>6, <1>7, <1>8, PageIsAnswer
    <2>2. QED
      BY <2>1 DEF IsAnswer
  <1>10. \A i \in RecordIDs : i \in Nat
    BY RetrievalAssumption
  <1>11. page \in Seq(Stored)
    <2>1. \A k \in 1 .. Len(page) : page[k] \in Stored
      <3> SUFFICES ASSUME NEW k \in 1 .. Len(page) PROVE page[k] \in Stored
        OBVIOUS
      <3>1. page[k] \in RecordEnvelope
        BY <1>9
      <3>2. page[k] # NoRecord
        BY <3>1, RetrievalAssumption
      <3>3. QED
        BY <1>1, <1>9, <3>2
    <2>2. QED
      BY <1>9, <2>1
  <1> DEFINE g == Len(got)
             q == Len(page)
             all == got \o page
  <1>12. /\ all \in Seq(Stored) /\ Len(all) = g + q /\ g \in Nat /\ q \in Nat
         /\ \A k \in 1 .. g : all[k] = got[k]
         /\ \A k \in 1 .. q : all[g + k] = page[k]
    BY <1>2, <1>11
  <1>13. \A k \in 1 .. g + q : k \in 1 .. g \/ (k - g \in 1 .. q /\ all[k] = page[k - g])
    <2> SUFFICES ASSUME NEW k \in 1 .. g + q, ~ (k <= g)
                 PROVE  k - g \in 1 .. q /\ all[k] = page[k - g]
      BY <1>12
    <2>1. k - g \in 1 .. q /\ g + (k - g) = k
      BY <1>12
    <2>2. QED
      BY <1>12, <2>1
  <1>14. walk.after = a /\ walk \in [on: BOOLEAN, after: RecordIDs \cup {0}]
    BY DEF RetrievalInv, GotInv
  <1>15. /\ walk'.on <=> more
         /\ more => walk'.after = next
         /\ (more => next \in RecordIDs) => walk' \in [on: BOOLEAN, after: RecordIDs \cup {0}]
    <2>1. CASE more
      <3>1. walk' = [walk EXCEPT !.after = next]
        BY <1>6, <2>1
      <3> HIDE DEF next, more
      <3>2. walk'.on = walk.on /\ walk'.after = next
        BY <1>14, <3>1
      <3>3. next \in RecordIDs => walk' \in [on: BOOLEAN, after: RecordIDs \cup {0}]
        BY <1>14, <3>1
      <3>4. QED
        BY <1>2, <2>1, <3>2, <3>3
    <2>2. CASE ~ more
      <3>1. walk' = [on |-> FALSE, after |-> 0]
        BY <1>6, <2>2
      <3> HIDE DEF next, more
      <3>2. QED
        BY <2>2, <3>1
    <2>3. QED
      BY <2>1, <2>2
  <1>16. \A k \in 1 .. g : got[k].recordID \in Nat
    BY <1>2, EnvelopesAre
  <1>17. UNCHANGED <<file, since>> /\ table' = table
    BY DEF Retrieve, table
  <1>18. got' = all
    BY <1>6
  <1> HIDE DEF all, more, next, a, g, q
  <1>19. GotInv'
    <2>1. more => \A k \in 1 .. g + q : all[k].recordID <= next
      <3> SUFFICES ASSUME more, NEW k \in 1 .. g + q PROVE all[k].recordID <= next
        OBVIOUS
      <3>1. next \in Nat /\ a < next
        <4>1. q >= 1 /\ 1 \in 1 .. q
          BY <1>9, <1>12 DEF q
        <4>2. page[1].recordID \in Nat /\ page[1].recordID > a /\ page[1].recordID <= next
              /\ next \in Nat
          BY <1>9, <1>10, <4>1 DEF q
        <4>3. QED
          BY <1>2, <4>2
      <3>2. CASE k \in 1 .. g
        <4>1. all[k] = got[k] /\ got[k].recordID \in Nat /\ got[k].recordID <= a
          BY <1>2, <1>12, <1>16, <3>2 DEF g
        <4>2. QED
          BY <1>2, <3>1, <4>1
      <3>3. CASE k - g \in 1 .. q /\ all[k] = page[k - g]
        BY <1>9, <3>3 DEF q
      <3>4. QED
        BY <1>13, <3>2, <3>3
    <2>2. DOMAIN all = 1 .. g + q
      BY <1>12
    <2>3. more => next \in RecordIDs
      BY <1>9
    <2>4. /\ got' \in Seq(Stored)
          /\ walk' \in [on: BOOLEAN, after: RecordIDs \cup {0}]
      BY <1>12, <1>15, <1>18, <2>3
    <2>5. walk'.on => \A k \in DOMAIN got' : got'[k].recordID <= walk'.after
      BY <1>15, <1>18, <2>1, <2>2
    <2>6. QED
      BY <2>4, <2>5 DEF GotInv
  <1>20. ASSUME NEW j \in 1 .. g + q, NEW k \in 1 .. g + q, j < k
         PROVE  all[j].recordID < all[k].recordID
    <2>0. j \in Nat /\ k \in Nat
      BY <1>12
    <2>1. CASE k \in 1 .. g
      <3>1. j \in 1 .. g /\ all[j] = got[j] /\ all[k] = got[k]
        BY <1>12, <1>20, <2>0, <2>1
      <3>2. QED
        BY <1>2, <1>20, <2>1, <3>1 DEF g
    <2>2. CASE k - g \in 1 .. q /\ all[k] = page[k - g]
      <3>0. all[k].recordID \in Nat /\ all[k].recordID > a
        BY <1>9, <1>10, <2>2 DEF q
      <3>1. CASE j \in 1 .. g
        <4>1. all[j] = got[j] /\ got[j].recordID \in Nat /\ got[j].recordID <= a
          BY <1>2, <1>12, <1>16, <3>1 DEF g
        <4>2. QED
          BY <1>2, <3>0, <4>1
      <3>2. CASE j - g \in 1 .. q /\ all[j] = page[j - g]
        <4>1. j - g < k - g
          BY <1>12, <1>20, <2>0
        <4>2. QED
          BY <1>9, <2>2, <3>2, <4>1 DEF q
      <3>3. QED
        BY <1>13, <3>1, <3>2
    <2>3. QED
      BY <1>13, <2>1, <2>2
  <1>21. ASSUME NEW i \in RecordIDs, since[i] # NoRecord, more => i <= next
         PROVE  \E k \in 1 .. g + q : all[k].recordID = i /\ Covers(all[k], since[i])
    <2>0. i \in Nat
      BY <1>10
    <2>1. CASE i <= a
      <3>1. PICK k \in 1 .. g : got[k].recordID = i /\ Covers(got[k], since[i])
        BY <1>4, <1>21, <2>1 DEF g, a
      <3>2. k \in 1 .. g + q /\ all[k] = got[k]
        BY <1>12
      <3>3. QED
        BY <3>1, <3>2
    <2>2. CASE i > a
      <3>1. table[i] # NoRecord /\ Covers(table[i], since[i])
        BY <1>3, <1>21
      <3>2. PICK k \in 1 .. q : page[k].recordID = i
        BY <1>9, <1>21, <2>2, <3>1 DEF q
      <3>3. page[k] = table[i]
        BY <1>9, <3>2 DEF q
      <3>4. g + k \in 1 .. g + q /\ all[g + k] = page[k]
        BY <1>12
      <3>5. QED
        BY <3>1, <3>2, <3>3, <3>4
    <2>3. QED
      BY <1>2, <2>0, <2>1, <2>2
  <1>22. WalkIsComplete'
    <2>1. DOMAIN all = 1 .. g + q
      BY <1>12
    <2>2. \A i \in RecordIDs : Passed(i)' => (more => i <= next)
      BY <1>15 DEF Passed
    <2>3. \A j, k \in DOMAIN got' : j < k => Before(got'[j], got'[k])
      BY <1>18, <1>20, <2>1 DEF Before
    <2>4. \A i \in RecordIDs : since'[i] # NoRecord /\ Passed(i)' =>
             \E k \in DOMAIN got' : got'[k].recordID = i /\ Covers(got'[k], since'[i])
      BY <1>17, <1>18, <1>21, <2>1, <2>2
    <2>5. QED
      BY <2>3, <2>4 DEF WalkIsComplete
  <1>23. FileInv' /\ SinceInv'
    BY <1>17 DEF RetrievalInv, FileInv, SinceInv
  <1>24. QED
    BY <1>19, <1>22, <1>23 DEF RetrievalInv

\* The invariant holds in every state.
LEMMA RetrievalInvariant == Spec => []RetrievalInv
  <1>1. Init => RetrievalInv
    BY RetrievalInitially
  <1>2. RetrievalInv /\ [Next]_vars => RetrievalInv'
    <2> SUFFICES ASSUME RetrievalInv, [Next]_vars PROVE RetrievalInv'
      OBVIOUS
    <2>1. CASE \E e \in Envelopes : AcceptAndPersist(e)
      BY <2>1, AcceptKeeps
    <2>2. CASE Compact
      BY <2>2, CompactKeeps
    <2>3. CASE StartWalk
      BY <2>3, StartWalkKeeps
    <2>4. CASE Retrieve
      BY <2>4, RetrieveKeeps
    <2>5. CASE UNCHANGED vars
      BY <2>5 DEF vars, RetrievalInv, FileInv, GotInv, SinceInv, WalkIsComplete, Passed, table
    <2>6. QED
      BY <2>1, <2>2, <2>3, <2>4, <2>5 DEF Next
  <1>3. QED
    BY <1>1, <1>2, PTL DEF Spec

\* The answers of handleDatasetRetrieve add up to what was there throughout, for
\* pages of any size and whatever is accepted and compacted between them.
THEOREM WalksAreComplete == Spec => []WalkIsComplete
  <1>1. RetrievalInv => WalkIsComplete
    BY DEF RetrievalInv
  <1>2. QED
    BY <1>1, RetrievalInvariant, PTL

\* The bounded window of RetainPageCandidate finds the beginning of the map that
\* the file decodes to, in any file of envelopes and for any cursor and page size.
THEOREM AnyFileScans ==
    ASSUME file \in Seq(Stored)
    PROVE  ScanNeedsNoOrder
  <1>1. file \in Seq(RecordEnvelope)
    BY FileIsTable
  <1>2. \A after \in RecordIDs \cup {0} : after \in Nat
    BY RetrievalAssumption
  <1>3. \A limit \in Limits : limit \in Nat
    BY RetrievalAssumption
  <1>4. QED
    BY <1>1, <1>2, <1>3, ScanIsBeginning DEF ScanNeedsNoOrder, table

\* So does the scan of what save has written, whatever was accepted and compacted.
THEOREM ScansAreRight == Spec => []ScanNeedsNoOrder
  <1>1. RetrievalInv => ScanNeedsNoOrder
    BY AnyFileScans DEF RetrievalInv, FileInv
  <1>2. QED
    BY <1>1, RetrievalInvariant, PTL

\* A sequence of envelopes in the order of their identifiers is no longer than
\* there are identifiers.
LEMMA InOrderIsShort ==
    ASSUME NEW s \in Seq(Stored),
           \A j, k \in DOMAIN s : j < k => Before(s[j], s[k])
    PROVE  Len(s) <= Cardinality(RecordIDs)
  <1> DEFINE n == Len(s)
             f == [k \in 1 .. n |-> s[k].recordID]
  <1>1. n \in Nat /\ DOMAIN s = 1 .. n /\ \A k \in 1 .. n : s[k] \in Stored
    OBVIOUS
  <1>2. \A k \in 1 .. n : f[k] = s[k].recordID /\ f[k] \in RecordIDs /\ f[k] \in Nat
    BY <1>1, EnvelopesAre
  <1>3. \A j, k \in 1 .. n : f[j] = f[k] => j = k
    <2> SUFFICES ASSUME NEW j \in 1 .. n, NEW k \in 1 .. n, f[j] = f[k] PROVE j = k
      OBVIOUS
    <2>1. ~ (j < k) /\ ~ (k < j)
      BY <1>1, <1>2 DEF Before
    <2>2. QED
      BY <2>1
  <1>4. f \in Injection(1 .. n, RecordIDs)
    <2>1. f \in [1 .. n -> RecordIDs]
      BY <1>2
    <2> HIDE DEF f
    <2>2. QED
      BY <1>3, <2>1 DEF Injection, IsInjective
  <1>5. Cardinality(1 .. n) <= Cardinality(RecordIDs)
    BY <1>4, RetrievalAssumption, FS_Injection
  <1>6. Cardinality(1 .. n) = n
    <2>1. 1 \in Int /\ n \in Int
      BY <1>1
    <2>2. Cardinality(1 .. n) = IF 1 > n THEN 0 ELSE n - 1 + 1
      BY <2>1, FS_Interval
    <2>3. QED
      BY <1>1, <2>2
  <1>7. QED
    BY <1>5, <1>6

\* File, walk and answers hold what they can hold, and no record twice.
THEOREM RetrievalTypes == Spec => []TypeOK
  <1>1. RetrievalInv => TypeOK
    BY InOrderIsShort DEF RetrievalInv, FileInv, GotInv, SinceInv, WalkIsComplete, TypeOK
  <1>2. QED
    BY <1>1, RetrievalInvariant, PTL

-----------------------------------------------------------------------------
(* Capabilities.                                                           *)

\* The fields of an offer that Negotiate compares.
LEMMA OfferFields ==
    ASSUME NEW c \in Offers
    PROVE  /\ c \in Capability /\ c.dataset \in Nat /\ c.schemaVersion \in Nat
           /\ c.read \in BOOLEAN /\ c.write \in BOOLEAN /\ c.delete \in BOOLEAN
  BY CapabilitiesAssumption DEF Capability

\* In a list that names a dataset once, the map has the entry itself.
LEMMA OnlyEntry ==
    ASSUME NEW list \in Seq(Offers), Once(list), NEW i \in 1 .. Len(list)
    PROVE  RemoteByDataset(list, list[i].dataset) = list[i]
  <1> DEFINE d == list[i].dataset
             P == {j \in 1 .. Len(list) : list[j].dataset = d}
  <1>1. SelectLastInSeq(list, LAMBDA c : c.dataset = d) = IF P # {} THEN Max(P) ELSE 0
    BY Zenon DEF SelectLastInSeq
  <1>2. Len(list) \in Nat /\ P \in SUBSET (0 .. Len(list)) /\ i \in P
    OBVIOUS
  <1>3. Max(P) \in P
    <2>1. P # {}
      BY <1>2
    <2> HIDE DEF P
    <2>2. QED
      BY <1>2, <2>1, Greatest
  <1>4. Max(P) = i
    BY <1>3 DEF Once
  <1>5. QED
    BY <1>1, <1>2, <1>4, Zenon DEF RemoteByDataset

\* Entries that can be used together.
Fits(a, b) ==
    /\ a.dataset = b.dataset
    /\ a.schemaVersion >= 1 /\ b.schemaVersion >= 1
    /\ Mutual(a, b).read \/ Mutual(a, b).write \/ Mutual(a, b).delete

\* What two entries of a dataset make: whoever puts them together, the same but
\* for the application, which is the first one's.
LEMMA MutualIsSymmetric ==
    ASSUME NEW a \in Offers, NEW b \in Offers
    PROVE  /\ Fits(a, b) <=> Fits(b, a)
           /\ a.dataset = b.dataset => Agreed(Mutual(a, b)) = Agreed(Mutual(b, a))
           /\ Mutual(a, b).dataset = a.dataset
           /\ Mutual(a, b).application = a.application
  <1>1. Version(a, b) = Version(b, a)
    BY OfferFields DEF Version
  <1>2. /\ (a.read /\ b.read) = (b.read /\ a.read)
        /\ (a.write /\ b.write) = (b.write /\ a.write)
        /\ (a.delete /\ b.delete) = (b.delete /\ a.delete)
    BY OfferFields
  <1>3. a.dataset = b.dataset => Agreed(Mutual(a, b)) = Agreed(Mutual(b, a))
    BY <1>1, <1>2 DEF Agreed, Mutual
  <1>4. Fits(a, b) <=> Fits(b, a)
    BY <1>2 DEF Fits, Mutual
  <1>5. Mutual(a, b).dataset = a.dataset /\ Mutual(a, b).application = a.application
    BY DEF Mutual
  <1>6. QED
    BY <1>3, <1>4, <1>5

\* The result's entries before they are sorted.
Entries(ours, theirs) ==
    LET kept == Kept(ours, theirs)
    IN  [k \in DOMAIN kept |->
            Mutual(ours[kept[k]], RemoteByDataset(theirs, ours[kept[k]].dataset))]

\* The entries are what both lists make together, whoever computes them.
LEMMA EntriesAre ==
    ASSUME NEW ours \in Seq(Offers), NEW theirs \in Seq(Offers), Once(theirs), NEW c
    PROVE  c \in ToSet(Entries(ours, theirs)) <=>
              \E i \in 1 .. Len(ours), j \in 1 .. Len(theirs) :
                 Fits(ours[i], theirs[j]) /\ c = Mutual(ours[i], theirs[j])
  <1> DEFINE places == {i \in DOMAIN ours : Usable(ours[i], theirs)}
             key == [i \in places |-> i]
             n == Cardinality(places)
             kept == InOrder(places, key)
  <1>1. Len(ours) \in Nat /\ DOMAIN ours = 1 .. Len(ours) /\ DOMAIN theirs = 1 .. Len(theirs)
    OBVIOUS
  <1>2. IsFiniteSet(places)
    <2>1. 1 \in Int /\ Len(ours) \in Int
      BY <1>1
    <2>2. IsFiniteSet(1 .. Len(ours))
      BY <2>1, FS_Interval
    <2>3. places \in SUBSET (1 .. Len(ours))
      BY <1>1
    <2> HIDE DEF places
    <2>4. QED
      BY <2>2, <2>3, FS_Subset
  <1>3. key \in [places -> Nat] /\ \A x, y \in places : key[x] = key[y] => x = y
    BY <1>1
  <1>4. /\ n \in Nat /\ kept \in [1 .. n -> places]
        /\ \A i \in places : \E k \in 1 .. n : kept[k] = i
        /\ \A j, k \in 1 .. n : j < k => key[kept[j]] < key[kept[k]]
    <2> HIDE DEF places, key
    <2>1. QED
      BY <1>2, <1>3, InOrderLists
  <1>5. kept = Kept(ours, theirs)
    BY DEF Kept
  <1>6. ASSUME NEW i \in 1 .. Len(ours), NEW j \in 1 .. Len(theirs),
               ours[i].dataset = theirs[j].dataset
        PROVE  /\ RemoteByDataset(theirs, ours[i].dataset) = theirs[j]
               /\ i \in places <=> Fits(ours[i], theirs[j])
    <2>1. RemoteByDataset(theirs, ours[i].dataset) = theirs[j]
      BY <1>6, OnlyEntry
    <2>2. \E c1 \in ToSet(theirs) : c1.dataset = ours[i].dataset
      BY <1>1, <1>6 DEF ToSet
    <2>3. Usable(ours[i], theirs) <=> Fits(ours[i], theirs[j])
      BY <1>6, <2>1, <2>2 DEF Usable, Fits
    <2>4. QED
      BY <1>1, <2>1, <2>3
  <1>7. \A i \in places : \E j \in 1 .. Len(theirs) : ours[i].dataset = theirs[j].dataset
    BY <1>1 DEF Usable, ToSet
  <1>8. \A i \in places : i \in 1 .. Len(ours)
    BY <1>1
  <1> DEFINE At(i) == Mutual(ours[i], RemoteByDataset(theirs, ours[i].dataset))
  <1> HIDE DEF places, key, n, kept
  <1>9. c \in ToSet(Entries(ours, theirs)) <=> \E i \in places : c = At(i)
    <2>1. Entries(ours, theirs) = [k \in DOMAIN kept |-> At(kept[k])]
      BY <1>5 DEF Entries
    <2>2. DOMAIN kept = 1 .. n
      BY <1>4
    <2>3. c \in ToSet(Entries(ours, theirs)) <=> \E k \in 1 .. n : c = At(kept[k])
      BY <2>1, <2>2 DEF ToSet
    <2>4. QED
      BY <1>4, <2>3
  <1>10. ASSUME NEW i \in places, c = At(i)
         PROVE  \E l \in 1 .. Len(ours), j \in 1 .. Len(theirs) :
                   Fits(ours[l], theirs[j]) /\ c = Mutual(ours[l], theirs[j])
    <2>1. PICK j \in 1 .. Len(theirs) : ours[i].dataset = theirs[j].dataset
      BY <1>7
    <2>2. i \in 1 .. Len(ours)
      BY <1>8
    <2>3. Fits(ours[i], theirs[j]) /\ c = Mutual(ours[i], theirs[j])
      BY <1>6, <1>10, <2>1, <2>2
    <2>4. QED
      BY <2>2, <2>3
  <1>11. ASSUME NEW i \in 1 .. Len(ours), NEW j \in 1 .. Len(theirs),
                Fits(ours[i], theirs[j]), c = Mutual(ours[i], theirs[j])
         PROVE  \E l \in places : c = At(l)
    <2>1. ours[i].dataset = theirs[j].dataset
      BY <1>11 DEF Fits
    <2>2. i \in places /\ c = At(i)
      BY <1>6, <1>11, <2>1
    <2>3. QED
      BY <2>2
  <1>12. QED
    BY <1>9, <1>10, <1>11

\* What Negotiate gives, if neither list repeats a dataset: what each pair of
\* entries makes, in the order of the datasets.
IsNegotiated(s, u, v) ==
    /\ Len(s) \in Nat /\ DOMAIN s = 1 .. Len(s)
    /\ \A k \in 1 .. Len(s) : \E i \in 1 .. Len(u), j \in 1 .. Len(v) :
          Fits(u[i], v[j]) /\ s[k] = Mutual(u[i], v[j])
    /\ \A i \in 1 .. Len(u), j \in 1 .. Len(v) : Fits(u[i], v[j]) =>
          \E k \in 1 .. Len(s) : s[k] = Mutual(u[i], v[j])
    /\ \A j, k \in 1 .. Len(s) : j < k => s[j].dataset < s[k].dataset

\* In a list that names a dataset once, an entry is an offer and has its dataset
\* for itself.
LEMMA EntryOf ==
    ASSUME NEW u \in Seq(Offers), Once(u)
    PROVE  \A i \in 1 .. Len(u) :
              /\ u[i] \in Offers /\ u[i] \in ToSet(u) /\ u[i].dataset \in Nat
              /\ \A j \in 1 .. Len(u) : u[i].dataset = u[j].dataset => i = j
  <1>1. DOMAIN u = 1 .. Len(u) /\ \A i \in 1 .. Len(u) : u[i] \in Offers
    OBVIOUS
  <1>2. \A i \in 1 .. Len(u) : u[i].dataset \in Nat
    BY <1>1, OfferFields
  <1>3. \A i, j \in 1 .. Len(u) : u[i].dataset = u[j].dataset => i = j
    BY <1>1 DEF Once
  <1>4. QED
    BY <1>1, <1>2, <1>3 DEF ToSet

LEMMA NegotiateLists ==
    ASSUME NEW u \in Seq(Offers), NEW v \in Seq(Offers), Once(u), Once(v)
    PROVE  IsNegotiated(Negotiate(u, v), u, v)
  <1> DEFINE S == ToSet(Entries(u, v))
             key == [c \in S |-> c.dataset]
             s == InOrder(S, key)
             n == Cardinality(S)
             I == 1 .. Len(u)
             J == 1 .. Len(v)
             f == [i \in {h \in I : \E j \in J : Fits(u[h], v[j])} |->
                      Mutual(u[i], RemoteByDataset(v, u[i].dataset))]
  <1>1. \A c : c \in S <=> \E i \in I, j \in J : Fits(u[i], v[j]) /\ c = Mutual(u[i], v[j])
    BY EntriesAre
  <1>2. s = Negotiate(u, v)
    BY DEF Negotiate, Entries, ByDataset
  <1>3. \A i \in I, j \in J : Mutual(u[i], v[j]).dataset = u[i].dataset
    BY DEF Mutual
  <1>4. \A c \in S : c.dataset \in Nat
    BY <1>1, <1>3, EntryOf
  <1>5. ASSUME NEW x \in S, NEW y \in S, x.dataset = y.dataset
        PROVE  x = y
    <2>1. PICK i \in I, j \in J : Fits(u[i], v[j]) /\ x = Mutual(u[i], v[j])
      BY <1>1
    <2>2. PICK k \in I, l \in J : Fits(u[k], v[l]) /\ y = Mutual(u[k], v[l])
      BY <1>1
    <2>3. u[i].dataset = u[k].dataset
      BY <1>3, <1>5, <2>1, <2>2
    <2>4. i = k
      BY <2>3, EntryOf
    <2>5. v[j].dataset = v[l].dataset
      BY <2>1, <2>2, <2>3 DEF Fits
    <2>6. j = l
      BY <2>5, EntryOf
    <2>7. QED
      BY <2>1, <2>2, <2>4, <2>6
  <1>6. IsFiniteSet(S)
    <2>1. \A i \in I, j \in J : Fits(u[i], v[j]) => f[i] = Mutual(u[i], v[j])
      <3> SUFFICES ASSUME NEW i \in I, NEW j \in J, Fits(u[i], v[j])
                   PROVE  f[i] = Mutual(u[i], v[j])
        OBVIOUS
      <3>1. RemoteByDataset(v, u[i].dataset) = v[j]
        BY OnlyEntry DEF Fits
      <3>2. QED
        BY <3>1
    <2>2. f \in Surjection(DOMAIN f, S)
      <3>0. \A i : i \in DOMAIN f <=> i \in I /\ \E j \in J : Fits(u[i], v[j])
        OBVIOUS
      <3>1. \A i \in DOMAIN f : f[i] \in S
        <4> HIDE DEF f, S
        <4>1. QED
          BY <1>1, <2>1, <3>0
      <3>2. \A c \in S : \E i \in DOMAIN f : f[i] = c
        <4> HIDE DEF f, S
        <4>1. QED
          BY <1>1, <2>1, <3>0
      <3>3. f = [i \in DOMAIN f |-> f[i]]
        OBVIOUS
      <3> HIDE DEF f, S
      <3>4. f \in [DOMAIN f -> S]
        BY <3>1, <3>3
      <3>5. QED
        BY <3>2, <3>4 DEF Surjection
    <2>3. IsFiniteSet(DOMAIN f)
      <3>1. Len(u) \in Int /\ 1 \in Int /\ DOMAIN f \in SUBSET I
        OBVIOUS
      <3>2. IsFiniteSet(I)
        BY <3>1, FS_Interval
      <3> HIDE DEF f, I
      <3>3. QED
        BY <3>1, <3>2, FS_Subset
    <2> HIDE DEF f, S
    <2>4. QED
      BY <2>2, <2>3, FS_Surjection
  <1> HIDE DEF S, f
  <1>7. key \in [S -> Nat] /\ \A x, y \in S : key[x] = key[y] => x = y
    BY <1>4, <1>5
  <1>8. /\ n \in Nat /\ s \in [1 .. n -> S]
        /\ \A c \in S : \E k \in 1 .. n : s[k] = c
        /\ \A j, k \in 1 .. n : j < k => key[s[j]] < key[s[k]]
    <2> HIDE DEF key
    <2>1. QED
      BY <1>6, <1>7, InOrderLists
  <1>9. \A k \in 1 .. n : s[k] \in S /\ key[s[k]] = s[k].dataset
    BY <1>8
  <1> HIDE DEF s, n, key
  <1>10. Len(s) = n /\ DOMAIN s = 1 .. n
    <2>1. s \in Seq(S)
      BY <1>8
    <2>2. QED
      BY <1>8, <2>1
  <1>11. \A j, k \in 1 .. n : j < k => s[j].dataset < s[k].dataset
    BY <1>8, <1>9
  <1>12. \A k \in 1 .. n : \E i \in I, j \in J : Fits(u[i], v[j]) /\ s[k] = Mutual(u[i], v[j])
    BY <1>1, <1>9
  <1>13. \A i \in I, j \in J : Fits(u[i], v[j]) => \E k \in 1 .. n : s[k] = Mutual(u[i], v[j])
    BY <1>1, <1>8
  <1>14. IsNegotiated(s, u, v)
    BY <1>8, <1>10, <1>11, <1>12, <1>13 DEF IsNegotiated
  <1>15. QED
    BY <1>2, <1>14

\* The two ends' results are of one length and agree entry by entry, because the
\* datasets that both can use have one order.
LEMMA NegotiateIsSymmetric ==
    ASSUME NEW u \in Seq(Offers), NEW v \in Seq(Offers), Once(u), Once(v),
           NEW s, IsNegotiated(s, u, v), NEW t, IsNegotiated(t, v, u)
    PROVE  /\ Len(s) = Len(t)
           /\ \A k \in 1 .. Len(s) : Agreed(s[k]) = Agreed(t[k])
           /\ OwnApplications(s, u)
  <1> DEFINE I == 1 .. Len(u)
             J == 1 .. Len(v)
             m == Len(s)
             n == Len(t)
             D == {d \in Nat : \E i \in I, j \in J : Fits(u[i], v[j]) /\ d = u[i].dataset}
             here == [k \in 1 .. m |-> s[k].dataset]
             there == [k \in 1 .. n |-> t[k].dataset]
  <1>1. \A i \in I, j \in J :
           /\ Fits(u[i], v[j]) <=> Fits(v[j], u[i])
           /\ u[i].dataset = v[j].dataset
              => Agreed(Mutual(u[i], v[j])) = Agreed(Mutual(v[j], u[i]))
           /\ Mutual(u[i], v[j]).dataset = u[i].dataset
           /\ Mutual(u[i], v[j]).application = u[i].application
           /\ Mutual(v[j], u[i]).dataset = v[j].dataset
    BY EntryOf, MutualIsSymmetric
  <1>2. /\ m \in Nat /\ DOMAIN s = 1 .. m
        /\ \A k \in 1 .. m : \E i \in I, j \in J :
              Fits(u[i], v[j]) /\ s[k] = Mutual(u[i], v[j])
        /\ \A i \in I, j \in J : Fits(u[i], v[j]) =>
              \E k \in 1 .. m : s[k] = Mutual(u[i], v[j])
        /\ \A j, k \in 1 .. m : j < k => s[j].dataset < s[k].dataset
    BY DEF IsNegotiated
  <1>3. /\ n \in Nat
        /\ \A k \in 1 .. n : \E j \in J, i \in I :
              Fits(v[j], u[i]) /\ t[k] = Mutual(v[j], u[i])
        /\ \A j \in J, i \in I : Fits(v[j], u[i]) =>
              \E k \in 1 .. n : t[k] = Mutual(v[j], u[i])
        /\ \A j, k \in 1 .. n : j < k => t[j].dataset < t[k].dataset
    BY DEF IsNegotiated
  <1> HIDE DEF m, n
  <1>4. \A i \in I, j \in J : Fits(u[i], v[j]) => u[i].dataset = v[j].dataset /\ u[i].dataset \in D
    BY EntryOf DEF Fits
  <1>5. Lists(here, m, D, m + n)
    <2>1. \A k \in 1 .. m : s[k].dataset \in D
      <3> SUFFICES ASSUME NEW k \in 1 .. m PROVE s[k].dataset \in D
        OBVIOUS
      <3>1. PICK i \in I, j \in J : Fits(u[i], v[j]) /\ s[k] = Mutual(u[i], v[j])
        BY <1>2
      <3> HIDE DEF D
      <3>2. QED
        BY <1>1, <1>4, <3>1
    <2>2. ASSUME NEW d \in D PROVE \E k \in 1 .. m : here[k] = d
      <3>1. PICK i \in I, j \in J : Fits(u[i], v[j]) /\ d = u[i].dataset
        BY DEF D
      <3>2. PICK k \in 1 .. m : s[k] = Mutual(u[i], v[j])
        BY <1>2, <3>1
      <3>3. QED
        BY <1>1, <3>1, <3>2
    <2> HIDE DEF D
    <2>3. here \in [1 .. m -> D]
      BY <2>1
    <2>4. Increasing(here, m)
      BY <1>2 DEF Increasing
    <2> HIDE DEF here
    <2>5. QED
      BY <2>2, <2>3, <2>4 DEF Lists
  <1>6. Lists(there, n, D, m + n)
    <2>1. \A k \in 1 .. n : t[k].dataset \in D
      <3> SUFFICES ASSUME NEW k \in 1 .. n PROVE t[k].dataset \in D
        OBVIOUS
      <3>1. PICK j \in J, i \in I : Fits(v[j], u[i]) /\ t[k] = Mutual(v[j], u[i])
        BY <1>3
      <3>2. Fits(u[i], v[j]) /\ t[k].dataset = v[j].dataset
        BY <1>1, <3>1
      <3> HIDE DEF D
      <3>3. QED
        BY <1>4, <3>2
    <2>2. ASSUME NEW d \in D PROVE \E k \in 1 .. n : there[k] = d
      <3>1. PICK i \in I, j \in J : Fits(u[i], v[j]) /\ d = u[i].dataset
        BY DEF D
      <3>2. PICK k \in 1 .. n : t[k] = Mutual(v[j], u[i])
        BY <1>1, <1>3, <3>1
      <3>3. t[k].dataset = v[j].dataset /\ v[j].dataset = d
        BY <1>1, <1>4, <3>1, <3>2
      <3>4. QED
        BY <3>3
    <2> HIDE DEF D
    <2>3. there \in [1 .. n -> D]
      BY <2>1
    <2>4. Increasing(there, n)
      BY <1>3 DEF Increasing
    <2> HIDE DEF there
    <2>5. QED
      BY <2>2, <2>3, <2>4 DEF Lists
  <1>7. m = n /\ here = there
    <2>1. D \in SUBSET Nat
      BY DEF D
    <2>2. m + n \in Nat /\ m \in 0 .. m + n /\ n \in 0 .. m + n
      BY <1>2, <1>3
    <2> HIDE DEF D, here, there
    <2>3. QED
      BY <1>5, <1>6, <2>1, <2>2, ListsAreUnique
  <1>8. \A k \in 1 .. m : s[k].dataset = t[k].dataset
    <2> SUFFICES ASSUME NEW k \in 1 .. m PROVE s[k].dataset = t[k].dataset
      OBVIOUS
    <2>1. k \in 1 .. n /\ here[k] = there[k]
      BY <1>7
    <2>2. here[k] = s[k].dataset /\ there[k] = t[k].dataset
      BY <2>1
    <2>3. QED
      BY <2>1, <2>2
  <1>9. ASSUME NEW k \in 1 .. m PROVE Agreed(s[k]) = Agreed(t[k])
    <2>1. PICK i \in I, j \in J : Fits(u[i], v[j]) /\ s[k] = Mutual(u[i], v[j])
      BY <1>2
    <2>2. PICK l \in J, h \in I : Fits(v[l], u[h]) /\ t[k] = Mutual(v[l], u[h])
      BY <1>3, <1>7
    <2>3. Fits(u[h], v[l])
      BY <1>1, <2>2
    <2>4. u[i].dataset = v[j].dataset /\ u[h].dataset = v[l].dataset
      BY <1>4, <2>1, <2>3
    <2>5. u[i].dataset = v[l].dataset
      BY <1>1, <1>8, <2>1, <2>2
    <2>6. u[i].dataset = u[h].dataset /\ v[j].dataset = v[l].dataset
      BY <2>4, <2>5
    <2>7. i = h /\ j = l
      BY <2>6, EntryOf
    <2>8. QED
      BY <1>1, <2>1, <2>2, <2>4, <2>7
  <1>10. OwnApplications(s, u)
    <2> SUFFICES ASSUME NEW k \in 1 .. m
                 PROVE  \E c \in ToSet(u) : /\ c.dataset = s[k].dataset
                                            /\ c.application = s[k].application
      BY <1>2 DEF OwnApplications
    <2>1. PICK i \in I, j \in J : Fits(u[i], v[j]) /\ s[k] = Mutual(u[i], v[j])
      BY <1>2
    <2>2. u[i] \in ToSet(u)
      BY EntryOf
    <2>3. QED
      BY <1>1, <2>1, <2>2
  <1>11. QED
    BY <1>7, <1>9, <1>10 DEF m, n

\* Announcing keeps the lists what they are.
LEMMA ListsInvariant == NegotiationSpec => []ListsInv
  <1>1. NegotiationInit => ListsInv
    BY DEF NegotiationInit, ListsInv, Once
  <1>2. ListsInv /\ [NegotiationNext]_listVars => ListsInv'
    <2> SUFFICES ASSUME ListsInv, [NegotiationNext]_listVars PROVE ListsInv'
      OBVIOUS
    <2>1. CASE AnnounceLocal
      BY <2>1 DEF AnnounceLocal, ListsInv, Once
    <2>2. CASE AnnounceRemote
      BY <2>2 DEF AnnounceRemote, ListsInv, Once
    <2>3. CASE UNCHANGED listVars
      BY <2>3 DEF listVars, ListsInv, Once
    <2>4. QED
      BY <2>1, <2>2, <2>3 DEF NegotiationNext
  <1>3. QED
    BY <1>1, <1>2, PTL DEF NegotiationSpec

\* The two ends agree on what the session may do, entry by entry, and each has
\* its own applications in it, for lists of any length.
THEOREM EndsAgree == NegotiationSpec => []BothEndsAgree
  <1>1. ASSUME ListsInv, Once(remote) PROVE BothEndsAgree
    <2> DEFINE here == Negotiate(local, remote)
               there == Negotiate(remote, local)
    <2>1. local \in Seq(Offers) /\ remote \in Seq(Offers) /\ Once(local)
      BY <1>1 DEF ListsInv
    <2>2. IsNegotiated(here, local, remote) /\ IsNegotiated(there, remote, local)
      BY <1>1, <2>1, NegotiateLists
    <2> HIDE DEF here, there
    <2>3. /\ Len(here) = Len(there)
          /\ \A k \in 1 .. Len(here) : Agreed(here[k]) = Agreed(there[k])
          /\ OwnApplications(here, local) /\ OwnApplications(there, remote)
      BY <1>1, <2>1, <2>2, NegotiateIsSymmetric
    <2>4. DOMAIN here = 1 .. Len(here)
      BY <2>2 DEF IsNegotiated
    <2>5. QED
      BY <2>3, <2>4 DEF BothEndsAgree, here, there
  <1>2. ListsInv => BothEndsAgree
    BY <1>1 DEF BothEndsAgree
  <1>3. QED
    BY <1>2, ListsInvariant, PTL

-----------------------------------------------------------------------------
(* ServerRun.                                                              *)

\* At first Run waits, and nothing is served.
LEMMA ServerInitially == ServerInit => ServerInv
  <1> SUFFICES ASSUME ServerInit PROVE ServerInv
    OBVIOUS
  <1>1. ServerTypeOK
    BY DEF ServerInit, ServerTypeOK, Results, Errors
  <1>2. EndIsSent /\ MarkedByRun /\ QuietAfterShutdown
    BY DEF ServerInit, EndIsSent, MarkedByRun, QuietAfterShutdown
  <1>3. QED
    BY <1>1, <1>2 DEF ServerInv

\* The channel is empty or holds what the goroutine has ended with.
LEMMA OneValue ==
    ASSUME ServerInv
    PROVE  /\ errCh = <<>> \/ (errCh = <<serve.err>> /\ serve.pc = "ended")
           /\ Room <=> errCh = <<>>
           /\ errCh # <<>> => Head(errCh) = serve.err /\ Tail(errCh) = <<>>
           /\ Append(<<>>, serve.err) = <<serve.err>> /\ <<serve.err>> # <<>>
           /\ serve.err \in Results
  <1>1. errCh = <<>> \/ (errCh = <<serve.err>> /\ serve.pc = "ended")
    BY DEF ServerInv, ServerTypeOK, EndIsSent
  <1>2. serve.err \in Results
    BY DEF ServerInv, ServerTypeOK
  <1>3. ASSUME NEW e \in Results
        PROVE  /\ <<e>> # <<>> /\ Len(<<e>>) = 1 /\ Append(<<>>, e) = <<e>>
               /\ Head(<<e>>) = e /\ Tail(<<e>>) = <<>>
    OBVIOUS
  <1>4. Room <=> errCh = <<>>
    BY <1>1, <1>2, <1>3 DEF Room
  <1>5. QED
    BY <1>1, <1>2, <1>3, <1>4

\* The goroutine that serves.
LEMMA GoroutineKeeps ==
    ASSUME ServerInv, Goroutine
    PROVE  ServerInv'
  <1> USE DEF ServerInv, ServerTypeOK, EndIsSent, MarkedByRun, QuietAfterShutdown,
              Quiet, Results, Errors
  <1>1. CASE Listen
    BY <1>1 DEF Listen, EndWith
  <1>2. CASE StopServing
    BY <1>2 DEF StopServing, EndWith
  <1>3. CASE Send
    <2>1. /\ serve.pc = "send" /\ serve.err \in Errors
          /\ serve' = [serve EXCEPT !.pc = "ended"]
          /\ UNCHANGED <<ctx, run, marked, timeUp, conn>>
      BY <1>3 DEF Send
    <2>2. errCh = <<>> /\ errCh' = <<serve.err>> /\ errCh' # <<>>
      <3>1. errCh = <<>>
        BY <1>3, OneValue DEF Send
      <3>2. errCh' = Append(<<>>, serve.err)
        BY <1>3, <3>1 DEF Send
      <3> HIDE DEF ServerInv
      <3>3. errCh' = <<serve.err>> /\ <<serve.err>> # <<>>
        BY <3>2, OneValue
      <3>4. QED
        BY <3>1, <3>3
    <2>3. serve'.pc = "ended" /\ serve'.err = serve.err
      BY <2>1
    <2>4. ServerTypeOK'
      BY <2>1, <2>2, <2>3
    <2>5. QED
      BY <2>1, <2>2, <2>3, <2>4
  <1>4. QED
    BY <1>1, <1>2, <1>3 DEF Goroutine

\* Run itself.
LEMMA CallerKeeps ==
    ASSUME ServerInv, Caller
    PROVE  ServerInv'
  <1> USE DEF ServerInv, ServerTypeOK, EndIsSent, MarkedByRun, QuietAfterShutdown,
              Quiet, Results, Errors
  <1>1. CASE TakeError
    <2>1. /\ run.pc \in {"select", "await"} /\ errCh = <<serve.err>>
          /\ serve.pc = "ended" /\ serve.err \in Errors \ {"deadline"}
          /\ errCh' = <<>>
          /\ run' = [pc |-> "returned", result |-> Reported(serve.err)]
          /\ UNCHANGED <<ctx, serve, marked, timeUp, conn>>
      BY <1>1, OneValue DEF TakeError, ReturnWith
    <2>2. /\ Reported(serve.err) \in Results \ {"deadline"}
          /\ Reported(serve.err) = "nil" => serve.err = "closed"
      BY <2>1 DEF Reported
    <2>3. /\ run'.pc = "returned" /\ run'.result = Reported(serve.err)
          /\ run' \in [pc: {"select", "shutdown", "await", "returned"}, result: Results]
      BY <2>1, <2>2
    <2>4. ServerTypeOK' /\ EndIsSent' /\ MarkedByRun'
      BY <2>1, <2>2, <2>3
    <2>5. QuietAfterShutdown'
      BY <2>1, <2>2, <2>3
    <2>6. QED
      BY <2>4, <2>5
  <1>2. CASE BeginShutdown
    BY <1>2 DEF BeginShutdown
  <1>3. CASE Shutdown
    BY <1>3 DEF Shutdown, Drained
  <1>4. CASE ShutdownFails
    BY <1>4 DEF ShutdownFails, ReturnWith
  <1>5. QED
    BY <1>1, <1>2, <1>3, <1>4 DEF Caller

\* Connections, the signal and the clock.
LEMMA RestKeeps ==
    ASSUME ServerInv,
           \/ \E c \in Conns : Connect(c) \/ Respond(c) \/ Reuse(c)
           \/ Cancel \/ Timeout
    PROVE  ServerInv'
  <1> USE DEF ServerInv, ServerTypeOK, EndIsSent, MarkedByRun, QuietAfterShutdown,
              Quiet, Results, Errors
  <1>1. ASSUME NEW c \in Conns, Connect(c) PROVE ServerInv'
    BY <1>1 DEF Connect
  <1>2. ASSUME NEW c \in Conns, Respond(c) PROVE ServerInv'
    BY <1>2 DEF Respond
  <1>3. ASSUME NEW c \in Conns, Reuse(c) PROVE ServerInv'
    BY <1>3 DEF Reuse
  <1>4. CASE Cancel
    BY <1>4 DEF Cancel
  <1>5. CASE Timeout
    BY <1>5 DEF Timeout
  <1>6. QED
    BY <1>1, <1>2, <1>3, <1>4, <1>5

\* The inductive invariant: with the types, that the goroutine sends what it ended
\* with, and that after a shutdown that succeeded no connection is served.
LEMMA ServerInvariant == ServerInit /\ [][ServerNext]_serverVars => []ServerInv
  <1>1. ServerInv /\ [ServerNext]_serverVars => ServerInv'
    <2> SUFFICES ASSUME ServerInv, [ServerNext]_serverVars PROVE ServerInv'
      OBVIOUS
    <2>1. CASE UNCHANGED serverVars
      BY <2>1 DEF serverVars, ServerInv, ServerTypeOK, EndIsSent, MarkedByRun,
                  QuietAfterShutdown, Quiet
    <2>2. QED
      BY <2>1, GoroutineKeeps, CallerKeeps, RestKeeps DEF ServerNext
  <1>2. QED
    BY <1>1, ServerInitially, PTL

\* The channel holds at most one error, and Run returns one of its results.
THEOREM ServerTypes == ServerSpec => []ServerTypeOK
  BY ServerInvariant, PTL DEF ServerSpec, ServerInv

\* Run returns nil only after a shutdown that left no request unanswered, for any
\* number of connections.
THEOREM ServerTellsTheTruth == ServerSpec => []RunTellsTheTruth
  <1>1. ServerInv => RunTellsTheTruth
    BY DEF ServerInv, QuietAfterShutdown, Quiet, RunTellsTheTruth, Active
  <1>2. QED
    BY <1>1, ServerInvariant, PTL DEF ServerSpec
=============================================================================
