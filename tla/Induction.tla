------------------------------- MODULE Induction -------------------------------
(***************************************************************************)
(* Facts about numbers, finite sets and orders that the proofs about       *)
(* reports and about configurations rest on.  An induction over data is    *)
(* made from LeastNat: the set of the numbers that have not the property   *)
(* has no least member, so it is empty.                                    *)
(***************************************************************************)
EXTENDS Ordering, Sequences, FiniteSetsExt, FiniteSetTheorems, TLAPS

\* A set of natural numbers that has a member has a least one.
LEMMA LeastNat ==
    ASSUME NEW T, T \subseteq Nat, T # {}
    PROVE  \E m \in T : \A n \in T : m <= n
<1> DEFINE R == OpToRel(<, Nat)
<1>1. IsWellFoundedOn(R, Nat)
  BY NatLessThanWellFounded
<1>2. \A m, n \in Nat : <<n, m>> \in R <=> n < m
  BY DEF OpToRel
<1> HIDE DEF R
<1>3. \E m \in T : \A n \in T : <<n, m>> \notin R
  BY <1>1, WFMin
<1>4. PICK m \in T : \A n \in T : <<n, m>> \notin R
  BY <1>3
<1>5. ASSUME NEW n \in T PROVE m <= n
  <2>1. m \in Nat /\ n \in Nat
    OBVIOUS
  <2>2. ~(n < m)
    BY <1>2, <1>4, <2>1
  <2> QED
    BY <2>1, <2>2
<1> QED
  BY <1>5

\* And a greatest one, if it is bounded.
LEMMA GreatestNat ==
    ASSUME NEW T, T \subseteq Nat, T # {}, NEW b \in Nat, \A n \in T : n <= b
    PROVE  \E m \in T : \A n \in T : n <= m
<1> DEFINE U == {k \in Nat : \A n \in T : n <= k}
<1>1. PICK k \in U : \A n \in U : k <= n
  BY LeastNat
<1>2. CASE k \in T
  BY <1>1, <1>2
<1>3. CASE k \notin T
  <2>1. \A n \in T : n <= k - 1
    BY <1>1, <1>3
  <2>2. k - 1 \in Nat
    <3>1. PICK t \in T : TRUE
      OBVIOUS
    <3>2. t \in Nat /\ k \in Nat /\ t <= k /\ t # k
      BY <1>1, <1>3, <3>1
    <3> QED
      BY <3>2
  <2> QED
    BY <1>1, <2>1, <2>2
<1> QED
  BY <1>2, <1>3

\* A set that goes on from one number of an interval to the next.
Inductive(G, a, b) == a \in G /\ \A n \in a..(b - 1) : n \in G => n + 1 \in G

\* A set that holds the first number of an interval and, with each number of it,
\* the next, holds the interval.
LEMMA Climb ==
    ASSUME NEW a \in Int, NEW b \in Int, NEW G, Inductive(G, a, b)
    PROVE  a..b \subseteq G
<1> USE DEF Inductive
<1> DEFINE Bad == {m \in Nat : a + m <= b /\ a + m \notin G}
<1>1. Bad = {}
  <2> SUFFICES ASSUME Bad # {} PROVE FALSE
    OBVIOUS
  <2>1. PICK m \in Bad : \A n \in Bad : m <= n
    BY LeastNat
  <2>2. m \in Nat /\ a + m <= b /\ a + m \notin G /\ m # 0
    BY <2>1
  <2>3. m - 1 \in Nat /\ m - 1 \notin Bad
    BY <2>1, <2>2
  <2>4. a + (m - 1) \in G /\ a + (m - 1) \in a..(b - 1)
    BY <2>2, <2>3
  <2>5. (a + (m - 1)) + 1 \in G
    BY <2>4
  <2> QED
    BY <2>2, <2>5
<1>2. ASSUME NEW k \in a..b PROVE k \in G
  <2>1. k - a \in Nat /\ a + (k - a) = k /\ k <= b
    OBVIOUS
  <2> QED
    BY <1>1, <2>1
<1> QED
  BY <1>2

\* A finite set of integers that has a member has a greatest and a least one.
LEMMA Extremes ==
    ASSUME NEW S, S \subseteq Int, IsFiniteSet(S), S # {}
    PROVE  /\ Max(S) \in S /\ \A y \in S : y <= Max(S)
           /\ Min(S) \in S /\ \A y \in S : Min(S) <= y
<1> DEFINE Ends(U) == \E x, z \in U : \A y \in U : x <= y /\ y <= z
           Bad == {n \in Nat : \E U \in SUBSET S : Cardinality(U) = n /\ U # {} /\ ~Ends(U)}
<1>1. Bad = {}
  <2> SUFFICES ASSUME Bad # {} PROVE FALSE
    OBVIOUS
  <2>1. PICK n \in Bad : \A k \in Bad : n <= k
    BY LeastNat
  <2>2. PICK U \in SUBSET S : Cardinality(U) = n /\ U # {} /\ ~Ends(U)
    BY <2>1
  <2>3. PICK u \in U : TRUE
    BY <2>2
  <2>4. IsFiniteSet(U)
    BY FS_Subset
  <2>5. IsFiniteSet(U \ {u}) /\ Cardinality(U \ {u}) = n - 1 /\ n - 1 \in Nat
    <3>1. IsFiniteSet(U \ {u}) /\ Cardinality(U \ {u}) = n - 1
      BY <2>2, <2>3, <2>4, FS_RemoveElement
    <3>2. n - 1 \in Nat
      BY <3>1, FS_CardinalityType
    <3> QED
      BY <3>1, <3>2
  <2>6. CASE U \ {u} = {}
    <3>1. U = {u} /\ u \in Int
      BY <2>3, <2>6
    <3> QED
      BY <2>2, <3>1
  <2>7. CASE U \ {u} # {}
    <3>1. n - 1 \notin Bad
      BY <2>1, <2>5
    <3>2. Ends(U \ {u})
      BY <2>5, <2>7, <3>1
    <3>3. PICK x \in U \ {u}, z \in U \ {u} : \A y \in U \ {u} : x <= y /\ y <= z
      BY <3>2
    <3>4. u \in Int /\ x \in Int /\ z \in Int /\ U \subseteq Int
      BY <2>3, <3>3
    <3> DEFINE low == IF u <= x THEN u ELSE x
               high == IF z <= u THEN u ELSE z
    <3>5. low \in U /\ high \in U
      BY <2>3, <3>3
    <3>6. ASSUME NEW y \in U PROVE low <= y /\ y <= high
      <4>1. y \in Int
        BY <3>4
      <4>2. CASE y = u
        BY <3>4, <4>2
      <4>3. CASE y # u
        <5>1. x <= y /\ y <= z
          BY <3>3, <4>3
        <5> QED
          BY <3>4, <4>1, <5>1
      <4> QED
        BY <4>2, <4>3
    <3> QED
      BY <2>2, <3>5, <3>6
  <2> QED
    BY <2>6, <2>7
<1>2. Cardinality(S) \in Nat
  BY FS_CardinalityType
<1>3. Ends(S)
  BY <1>1, <1>2
<1>4. PICK x \in S, z \in S : \A y \in S : x <= y /\ y <= z
  BY <1>3
<1>5. \E w \in S : \A y \in S : w >= y
  BY <1>4
<1>6. Max(S) \in S /\ \A y \in S : Max(S) >= y
  BY <1>5 DEF Max
<1>7. Min(S) \in S /\ \A y \in S : Min(S) <= y
  BY <1>4 DEF Min
<1> QED
  BY <1>6, <1>7

-------------------------------------------------------------------------------
(***************************************************************************)
(* What Ordered and Arranged return.                                       *)
(***************************************************************************)

\* The order of places by their keys.
Before(key, j, i) == key[j] < key[i] \/ (key[j] = key[i] /\ j < i)

\* The places of a key are those of the order, each of them once, and one that is
\* before another in the order is so by its key.
LEMMA OrderedIs ==
    ASSUME NEW key, IsFiniteSet(DOMAIN key), DOMAIN key \subseteq Int,
           \A i \in DOMAIN key : key[i] \in Int
    PROVE  /\ Cardinality(DOMAIN key) \in Nat
           /\ Ordered(key) \in [1..Cardinality(DOMAIN key) -> DOMAIN key]
           /\ \A i \in DOMAIN key : \E k \in 1..Cardinality(DOMAIN key) : Ordered(key)[k] = i
           /\ \A j, k \in 1..Cardinality(DOMAIN key) :
                 j < k <=> Before(key, Ordered(key)[j], Ordered(key)[k])
<1> DEFINE D == DOMAIN key
           n == Cardinality(D)
           Lower(i) == {j \in D : Before(key, j, i)}
           rank == [i \in D |-> Cardinality(Lower(i))]
           order == Ordered(key)
<1>1. n \in Nat
  BY FS_CardinalityType
<1>2. ASSUME NEW i \in D
      PROVE  IsFiniteSet(Lower(i)) /\ Cardinality(Lower(i)) \in 0..(n - 1)
  <2>1. IsFiniteSet(Lower(i)) /\ Cardinality(Lower(i)) <= n /\ (n = Cardinality(Lower(i)) => D = Lower(i))
    BY FS_Subset
  <2>2. i \notin Lower(i)
    BY DEF Before
  <2>3. Cardinality(Lower(i)) \in Nat
    BY <2>1, FS_CardinalityType
  <2> QED
    BY <1>1, <2>1, <2>2, <2>3
<1>2a. ASSUME NEW i \in D
      PROVE  rank[i] = Cardinality(Lower(i)) /\ rank[i] \in Int
  <2>1. rank[i] = Cardinality(Lower(i))
    OBVIOUS
  <2> HIDE DEF rank, Lower, n
  <2> QED
    BY <1>1, <1>2, <2>1
<1> HIDE DEF rank
<1>3. ASSUME NEW i \in D, NEW j \in D, Before(key, j, i)
      PROVE  rank[j] < rank[i]
  <2>1. Lower(j) \subseteq Lower(i)
    BY <1>3 DEF Before
  <2>2. j \in Lower(i) /\ j \notin Lower(j)
    BY <1>3 DEF Before
  <2>3. Cardinality(Lower(j)) <= Cardinality(Lower(i))
        /\ (Cardinality(Lower(i)) = Cardinality(Lower(j)) => Lower(i) = Lower(j))
    BY <1>2, <2>1, FS_Subset
  <2> QED
    BY <1>2a, <2>2, <2>3
<1>4. ASSUME NEW i \in D, NEW j \in D, i # j
      PROVE  rank[i] # rank[j] /\ (Before(key, j, i) <=> rank[j] < rank[i])
  <2>1. Before(key, i, j) \/ Before(key, j, i)
    BY <1>4 DEF Before
  <2>2. rank[i] \in Int /\ rank[j] \in Int
    BY <1>2a
  <2>3. CASE Before(key, i, j)
    <3>1. rank[i] < rank[j] /\ ~Before(key, j, i)
      BY <1>3, <2>3 DEF Before
    <3> QED
      BY <2>2, <3>1
  <2>4. CASE Before(key, j, i)
    BY <1>3, <2>2, <2>4
  <2> QED
    BY <2>1, <2>3, <2>4
<1>5. rank \in [D -> 0..(n - 1)]
  BY <1>2a, <1>2 DEF rank
<1>6. rank \in Surjection(D, 0..(n - 1))
  <2>1. rank \in Injection(D, 0..(n - 1))
    BY <1>4, <1>5 DEF Injection, IsInjective
  <2>2. IsFiniteSet(0..(n - 1)) /\ Cardinality(0..(n - 1)) = n
    BY <1>1, FS_Interval
  <2> QED
    BY <2>1, <2>2, FS_Injection
<1>7. order = [k \in 1..n |-> CHOOSE i \in D : Cardinality(Lower(i)) = k - 1]
  BY DEF Ordered, Before
<1>8. ASSUME NEW k \in 1..n PROVE order[k] \in D /\ rank[order[k]] = k - 1
  <2>1. k - 1 \in 0..(n - 1)
    BY <1>1
  <2>2. \E i \in D : Cardinality(Lower(i)) = k - 1
    BY <1>6, <1>2a, <2>1 DEF Surjection
  <2>3. order[k] \in D /\ Cardinality(Lower(order[k])) = k - 1
    BY <1>7, <2>2
  <2> QED
    BY <1>2a, <2>3
<1>9. order \in [1..n -> D]
  BY <1>7, <1>8
<1>10. ASSUME NEW i \in D PROVE \E k \in 1..n : order[k] = i
  <2>1. rank[i] \in 0..(n - 1) /\ rank[i] + 1 \in 1..n
    BY <1>1, <1>5
  <2>2. rank[order[rank[i] + 1]] = rank[i] /\ order[rank[i] + 1] \in D
    BY <1>1, <1>8, <2>1
  <2>3. order[rank[i] + 1] = i
    BY <1>4, <2>2
  <2> QED
    BY <2>1, <2>3
<1>11. ASSUME NEW j \in 1..n, NEW k \in 1..n
       PROVE  j < k <=> Before(key, order[j], order[k])
  <2>1. CASE order[j] = order[k]
    <3>1. j = k
      BY <1>8, <2>1
    <3> QED
      BY <1>8, <2>1, <3>1 DEF Before
  <2>2. CASE order[j] # order[k]
    BY <1>1, <1>4, <1>8, <2>2
  <2> QED
    BY <2>1, <2>2
<1> QED
  BY <1>1, <1>9, <1>10, <1>11

\* Some of the places of a sequence have keys.
Keyed(key, s) == DOMAIN key \subseteq 1..Len(s) /\ \A i \in DOMAIN key : key[i] \in Int

\* A sequence of the elements of another that have keys, in the order of the keys.
ByKey(t, order, key, s) ==
    /\ Len(t) = Cardinality(DOMAIN key)
    /\ Len(t) \in Nat
    /\ order \in [1..Len(t) -> DOMAIN key]
    /\ \A k \in 1..Len(t) : t[k] = s[order[k]]
    /\ \A i \in DOMAIN key : \E k \in 1..Len(t) : order[k] = i
    /\ \A j, k \in 1..Len(t) : j < k <=> Before(key, order[j], order[k])

\* The elements with a key, each of them once, in the order of the keys.
LEMMA ArrangedByKey ==
    ASSUME NEW X, NEW s \in Seq(X), NEW key, Keyed(key, s)
    PROVE  /\ IsFiniteSet(DOMAIN key)
           /\ Arranged(s, key) \in Seq(X)
           /\ ByKey(Arranged(s, key), Ordered(key), key, s)
<1> DEFINE n == Cardinality(DOMAIN key)
           order == Ordered(key)
           a == Arranged(s, key)
<1>0. DOMAIN key \subseteq 1..Len(s) /\ \A i \in DOMAIN key : key[i] \in Int
  BY DEF Keyed
<1>1. IsFiniteSet(DOMAIN key) /\ DOMAIN key \subseteq Int
  <2>1. IsFiniteSet(1..Len(s))
    BY FS_Interval
  <2> QED
    BY <1>0, <2>1, FS_Subset
<1>2. /\ n \in Nat /\ order \in [1..n -> DOMAIN key]
      /\ \A i \in DOMAIN key : \E k \in 1..n : order[k] = i
      /\ \A j, k \in 1..n : j < k <=> Before(key, order[j], order[k])
  BY <1>0, <1>1, OrderedIs
<1>3. a = [k \in 1..n |-> s[order[k]]]
  BY <1>2 DEF Arranged
<1> HIDE DEF n, order, a
<1>4. \A k \in 1..n : s[order[k]] \in X
  BY <1>0, <1>2
<1>5. a \in Seq(X) /\ Len(a) = n
  BY <1>2, <1>3, <1>4
<1>6. \A k \in 1..n : a[k] = s[order[k]]
  BY <1>3
<1>7. ByKey(a, order, key, s)
  BY <1>2, <1>5, <1>6 DEF ByKey, n
<1> QED
  BY <1>1, <1>5, <1>7 DEF order, a

\* The same, said in full.
LEMMA ArrangedIs ==
    ASSUME NEW X, NEW s \in Seq(X), NEW key, DOMAIN key \subseteq 1..Len(s),
           \A i \in DOMAIN key : key[i] \in Int
    PROVE  /\ IsFiniteSet(DOMAIN key)
           /\ Arranged(s, key) \in Seq(X)
           /\ Len(Arranged(s, key)) = Cardinality(DOMAIN key)
           /\ Len(Arranged(s, key)) \in Nat
           /\ Ordered(key) \in [1..Len(Arranged(s, key)) -> DOMAIN key]
           /\ \A k \in 1..Len(Arranged(s, key)) : Arranged(s, key)[k] = s[Ordered(key)[k]]
           /\ \A i \in DOMAIN key : \E k \in 1..Len(Arranged(s, key)) : Ordered(key)[k] = i
           /\ \A j, k \in 1..Len(Arranged(s, key)) :
                 j < k <=> Before(key, Ordered(key)[j], Ordered(key)[k])
<1>1. Keyed(key, s)
  BY DEF Keyed
<1>2. /\ IsFiniteSet(DOMAIN key) /\ Arranged(s, key) \in Seq(X)
      /\ ByKey(Arranged(s, key), Ordered(key), key, s)
  BY <1>1, ArrangedByKey
<1> QED
  BY <1>2 DEF ByKey

\* A sequence is made of the elements of another at some places, in their order.
Picks(order, t, s, places) ==
    /\ order \in [1..Len(t) -> places]
    /\ \A k \in 1..Len(t) : order[k] \in places /\ t[k] = s[order[k]]
    /\ \A i \in places : \E k \in 1..Len(t) : order[k] = i
    /\ \A j, k \in 1..Len(t) : j < k <=> order[j] < order[k]

\* Those at some places keep the order they are in.
LEMMA ChosenIs ==
    ASSUME NEW X, NEW s \in Seq(X), NEW places \in SUBSET (1..Len(s))
    PROVE  /\ Chosen(s, places) \in Seq(X)
           /\ Len(Chosen(s, places)) = Cardinality(places)
           /\ \E order : Picks(order, Chosen(s, places), s, places)
<1> DEFINE key == [i \in places |-> i]
<1>1. DOMAIN key = places /\ \A i \in places : key[i] = i /\ i \in Int
  OBVIOUS
<1> HIDE DEF key
<1>2. Chosen(s, places) = Arranged(s, key)
  BY DEF Chosen, key
<1>3. Keyed(key, s)
  BY <1>1 DEF Keyed
<1> DEFINE t == Arranged(s, key)
           order == Ordered(key)
<1>4. t \in Seq(X) /\ ByKey(t, order, key, s)
  BY <1>3, ArrangedByKey
<1> HIDE DEF t, order
<1>5. \A i, j \in places : Before(key, j, i) <=> j < i
  BY <1>1 DEF Before
<1>6. \A j, k \in 1..Len(t) : j < k <=> order[j] < order[k]
  BY <1>1, <1>4, <1>5 DEF ByKey
<1>7. Picks(order, t, s, places)
  BY <1>1, <1>4, <1>6 DEF Picks, ByKey
<1>8. Len(t) = Cardinality(places)
  BY <1>1, <1>4 DEF ByKey
<1> QED
  BY <1>2, <1>4, <1>7, <1>8 DEF t

-------------------------------------------------------------------------------
(***************************************************************************)
(* Recursion along a sequence.                                             *)
(***************************************************************************)

Stepping(F, N, W) == F \in [1..N -> [W -> W]]

Iterates(g, F, N, W, base) ==
    /\ g \in [0..N -> W] /\ g[0] = base
    /\ \A n \in 1..N : g[n] = F[n][g[n - 1]]

\* A function that says what follows from each value at each place defines one
\* that starts with a base and follows it.
LEMMA Recursion ==
    ASSUME NEW N \in Nat, NEW W, NEW base \in W, NEW F, Stepping(F, N, W)
    PROVE  \E g : Iterates(g, F, N, W, base)
<1> USE DEF Stepping
<1> DEFINE Follows(g, m) == /\ g \in [0..m -> W] /\ g[0] = base
                            /\ \A n \in 1..m : g[n] = F[n][g[n - 1]]
           Bad == {m \in Nat : m <= N /\ ~ \E g : Follows(g, m)}
<1>1. Bad = {}
  <2> SUFFICES ASSUME Bad # {} PROVE FALSE
    OBVIOUS
  <2>1. PICK m \in Bad : \A n \in Bad : m <= n
    BY LeastNat
  <2>2. CASE m = 0
    <3>1. Follows([n \in 0..0 |-> base], 0)
      OBVIOUS
    <3> QED
      BY <2>1, <2>2, <3>1
  <2>3. CASE m # 0
    <3>1. m \in 1..N /\ m - 1 \in 0..N /\ ~(m <= m - 1)
      BY <2>3
    <3>1a. m - 1 \in Nat /\ m - 1 <= N /\ m - 1 \notin Bad
      <4> HIDE DEF Bad
      <4> QED
        BY <2>1, <3>1
    <3>2. PICK g : Follows(g, m - 1)
      <4> HIDE DEF Follows
      <4> QED
        BY <3>1a
    <3> DEFINE h == [n \in 0..m |-> IF n < m THEN g[n] ELSE F[m][g[m - 1]]]
    <3>3. \A n \in 0..(m - 1) : h[n] = g[n] /\ g[n] \in W
      BY <3>1, <3>2
    <3>4. h[m] = F[m][g[m - 1]] /\ g[m - 1] \in W /\ h[m] \in W
      BY <3>1, <3>2
    <3>5. h \in [0..m -> W]
      BY <3>1, <3>2, <3>4
    <3>6. ASSUME NEW n \in 1..m PROVE h[n] = F[n][h[n - 1]]
      <4>1. CASE n = m
        BY <3>1, <3>3, <3>4, <4>1
      <4>2. CASE n # m
        BY <3>1, <3>2, <3>3, <4>2
      <4> QED
        BY <4>1, <4>2
    <3>7. h[0] = base
      BY <3>1, <3>2, <3>3
    <3> HIDE DEF h
    <3>8. Follows(h, m)
      BY <3>5, <3>6, <3>7
    <3> QED
      BY <2>1, <3>8
  <2> QED
    BY <2>2, <2>3
<1>2. \E g : Follows(g, N)
  BY <1>1
<1> QED
  BY <1>2 DEF Iterates

-------------------------------------------------------------------------------
(***************************************************************************)
(* Finite sets of numbers.                                                 *)
(***************************************************************************)

\* What a function on a finite set takes on is finite.
LEMMA FiniteImage ==
    ASSUME NEW f, IsFiniteSet(DOMAIN f)
    PROVE  /\ IsFiniteSet({f[x] : x \in DOMAIN f})
           /\ Cardinality({f[x] : x \in DOMAIN f}) <= Cardinality(DOMAIN f)
<1> DEFINE T == {f[x] : x \in DOMAIN f}
           g == [x \in DOMAIN f |-> f[x]]
<1>1. g \in Surjection(DOMAIN f, T)
  BY DEF Surjection
<1> QED
  BY <1>1, FS_Surjection

\* The ends of an interval.
LEMMA Interval ==
    ASSUME NEW f \in Int, NEW l \in Int, f <= l
    PROVE  /\ Min(f..l) = f /\ Max(f..l) = l
           /\ IsFiniteSet(f..l) /\ Cardinality(f..l) = l - f + 1
<1>1. IsFiniteSet(f..l) /\ Cardinality(f..l) = l - f + 1
  BY FS_Interval
<1>2. f \in f..l /\ l \in f..l /\ f..l \subseteq Int
  OBVIOUS
<1>3. /\ Max(f..l) \in f..l /\ \A y \in f..l : y <= Max(f..l)
      /\ Min(f..l) \in f..l /\ \A y \in f..l : Min(f..l) <= y
  BY <1>1, <1>2, Extremes
<1> QED
  BY <1>1, <1>2, <1>3

\* A function to the integers that grows from each number to the next is increasing.
LEMMA Increasing ==
    ASSUME NEW a \in Int, NEW b \in Int, NEW F, \A k \in a..b : F[k] \in Int,
           \A k \in a..(b - 1) : F[k] < F[k + 1]
    PROVE  \A j, k \in a..b : j < k => F[j] < F[k]
<1> SUFFICES ASSUME NEW j \in a..b, NEW k \in a..b, j < k PROVE F[j] < F[k]
  OBVIOUS
<1> DEFINE G == {n \in (j + 1)..b : F[j] < F[n]}
<1>1. j + 1 \in G
  OBVIOUS
<1>2. ASSUME NEW n \in (j + 1)..(b - 1), n \in G PROVE n + 1 \in G
  <2>1. n \in a..(b - 1) /\ n \in a..b /\ n + 1 \in a..b /\ n + 1 \in (j + 1)..b
    OBVIOUS
  <2>2. F[n] < F[n + 1] /\ F[j] < F[n] /\ F[n] \in Int /\ F[n + 1] \in Int /\ F[j] \in Int
    BY <1>2, <2>1
  <2> QED
    BY <2>1, <2>2
<1> HIDE DEF G
<1>3. Inductive(G, j + 1, b)
  BY <1>1, <1>2 DEF Inductive
<1>4. (j + 1)..b \subseteq G
  BY <1>3, Climb
<1> QED
  BY <1>4 DEF G

-------------------------------------------------------------------------------
(***************************************************************************)
(* Sequences.                                                              *)
(***************************************************************************)

\* One sequence after another.
LEMMA Joined ==
    ASSUME NEW S, NEW one \in Seq(S), NEW other \in Seq(S)
    PROVE  /\ one \o other \in Seq(S)
           /\ Len(one \o other) = Len(one) + Len(other)
           /\ \A i \in 1..Len(one) : (one \o other)[i] = one[i]
           /\ \A i \in 1..Len(other) : (one \o other)[Len(one) + i] = other[i]
  OBVIOUS
===============================================================================
