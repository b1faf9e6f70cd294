------------------------ MODULE AgentDelegationProofs ------------------------
(***************************************************************************)
(* What canonical_order and validate_contribution promise for lists of     *)
(* every length: the order in which a contribution arrives does not matter *)
(* for its payload, and the check of neighbours finds every duplicate.     *)
(***************************************************************************)
EXTENDS AgentDelegation, FunctionTheorems, FiniteSetTheorems, WellFoundedInduction, TLAPS

-----------------------------------------------------------------------------
(* The lexicographic order of number tuples.                               *)

\* No tuple comes before itself.
LEMMA BeforeIrreflexive ==
  ASSUME NEW m \in Nat, NEW a \in [1..m -> Nat]
  PROVE  ~Before(a, a)
BY DEF Before

\* The order is transitive.
LEMMA BeforeTransitive ==
  ASSUME NEW m \in Nat, NEW a \in [1..m -> Nat], NEW b \in [1..m -> Nat],
         NEW c \in [1..m -> Nat], Before(a, b), Before(b, c)
  PROVE  Before(a, c)
<1>1. PICK i \in 1..m : a[i] < b[i] /\ \A j \in 1..(i - 1) : a[j] = b[j]
  BY DEF Before
<1>2. PICK k \in 1..m : b[k] < c[k] /\ \A j \in 1..(k - 1) : b[j] = c[j]
  BY DEF Before
<1>3. CASE i <= k
  <2>1. a[i] < c[i]
    BY <1>1, <1>2, <1>3
  <2>2. \A j \in 1..(i - 1) : a[j] = c[j]
    BY <1>1, <1>2, <1>3
  <2>. QED  BY <2>1, <2>2 DEF Before
<1>4. CASE k < i
  <2>1. a[k] < c[k]
    BY <1>1, <1>2, <1>4
  <2>2. \A j \in 1..(k - 1) : a[j] = c[j]
    BY <1>1, <1>2, <1>4
  <2>. QED  BY <2>1, <2>2 DEF Before
<1>. QED  BY <1>3, <1>4

\* Two tuples of one length are equal or one comes before the other: they are
\* compared at the least place where they differ.
LEMMA BeforeTotal ==
  ASSUME NEW m \in Nat, NEW a \in [1..m -> Nat], NEW b \in [1..m -> Nat], a # b
  PROVE  Before(a, b) \/ Before(b, a)
<1>. DEFINE D == {i \in 1..m : a[i] # b[i]}
<1>1. D # {}
  OBVIOUS
<1>. D \subseteq Nat
  OBVIOUS
<1>. HIDE DEF D
<1>2. PICK i \in D : \A j \in D : ~(<<j, i>> \in OpToRel(<, Nat))
  BY <1>1, NatLessThanWellFounded, WFMin
<1>. USE DEF D
<1>3. \A j \in 1..(i - 1) : a[j] = b[j]
  <2>1. SUFFICES ASSUME NEW j \in 1..(i - 1), a[j] # b[j] PROVE FALSE
    OBVIOUS
  <2>2. j \in D /\ j < i /\ j \in Nat /\ i \in Nat
    BY <2>1
  <2>. QED  BY <1>2, <2>2 DEF OpToRel
<1>4. a[i] < b[i] \/ b[i] < a[i]
  BY a[i] \in Nat, b[i] \in Nat
<1>. QED  BY <1>3, <1>4 DEF Before

-----------------------------------------------------------------------------
(* Ranks.                                                                  *)

KeyLists(n, m) == [1..n -> [1..m -> Nat]]

Comes(key, j, k) == Before(key[j], key[k]) \/ (key[j] = key[k] /\ j < k)

UpTo(key, j) ==
  {k \in DOMAIN key : Before(key[k], key[j]) \/ (key[k] = key[j] /\ k <= j)}

\* The set a rank counts is finite, and its size is the rank.
LEMMA UpToFinite ==
  ASSUME NEW n \in Nat, NEW m \in Nat, NEW key \in KeyLists(n, m), NEW j \in 1..n
  PROVE  /\ UpTo(key, j) \subseteq 1..n /\ j \in UpTo(key, j)
         /\ IsFiniteSet(UpTo(key, j)) /\ Rank(key, j) = Cardinality(UpTo(key, j))
         /\ Rank(key, j) \in 1..n
<1>1. UpTo(key, j) \subseteq 1..n /\ j \in UpTo(key, j)
  BY DEF UpTo, KeyLists
<1>2. IsFiniteSet(1..n) /\ Cardinality(1..n) = n
  BY FS_Interval
<1>3. IsFiniteSet(UpTo(key, j)) /\ Cardinality(UpTo(key, j)) <= n
  BY <1>1, <1>2, FS_Subset
<1>4. Cardinality(UpTo(key, j)) \in Nat /\ Cardinality(UpTo(key, j)) # 0
  BY <1>1, <1>3, FS_CardinalityType, FS_EmptySet
<1>5. Rank(key, j) = Cardinality(UpTo(key, j))
  BY DEF Rank, UpTo
<1>. QED  BY <1>1, <1>3, <1>4, <1>5

\* What comes first has the smaller rank.
LEMMA RankFollowsOrder ==
  ASSUME NEW n \in Nat, NEW m \in Nat, NEW key \in KeyLists(n, m), NEW j \in 1..n, NEW k \in 1..n,
         Comes(key, j, k)
  PROVE  Rank(key, j) < Rank(key, k)
<1>0. /\ key[j] \in [1..m -> Nat] /\ key[k] \in [1..m -> Nat] /\ DOMAIN key = 1..n
      /\ \A i \in 1..n : key[i] \in [1..m -> Nat]
  BY DEF KeyLists
<1>1. UpTo(key, j) \subseteq UpTo(key, k)
  <2>. SUFFICES ASSUME NEW i \in UpTo(key, j) PROVE i \in UpTo(key, k)
    OBVIOUS
  <2>1. i \in 1..n /\ (Before(key[i], key[j]) \/ (key[i] = key[j] /\ i <= j))
    BY <1>0 DEF UpTo
  <2>t. Before(key[i], key[j]) /\ Before(key[j], key[k]) => Before(key[i], key[k])
    BY <1>0, <2>1, BeforeTransitive
  <2>2. Before(key[i], key[k]) \/ (key[i] = key[k] /\ i <= k)
    <3>1. CASE Before(key[i], key[j])
      BY <2>t, <3>1 DEF Comes
    <3>2. CASE key[i] = key[j] /\ i <= j
      <4>1. j < k => i <= k
        BY <2>1, <3>2
      <4>. QED  BY <3>2, <4>1 DEF Comes
    <3>. QED  BY <2>1, <3>1, <3>2
  <2>. QED  BY <1>0, <2>1, <2>2 DEF UpTo
<1>2. k \notin UpTo(key, j)
  <2>1. SUFFICES ASSUME Before(key[k], key[j]) \/ (key[k] = key[j] /\ k <= j) PROVE FALSE
    BY DEF UpTo
  <2>i. ~Before(key[j], key[j])
    BY <1>0, BeforeIrreflexive
  <2>2. CASE Before(key[k], key[j])
    <3>1. Before(key[j], key[k]) => Before(key[j], key[j])
      BY <1>0, <2>2, BeforeTransitive
    <3>. QED  BY <2>2, <2>i, <3>1 DEF Comes
  <2>3. CASE key[k] = key[j] /\ k <= j
    <3>1. ~(j < k)
      BY <2>3
    <3>. QED  BY <2>3, <2>i, <3>1 DEF Comes
  <2>. QED  BY <2>1, <2>2, <2>3
<1>3. k \in UpTo(key, k) /\ IsFiniteSet(UpTo(key, k)) /\ IsFiniteSet(UpTo(key, j))
  BY UpToFinite
<1>4. Cardinality(UpTo(key, j)) <= Cardinality(UpTo(key, k))
      /\ Cardinality(UpTo(key, j)) # Cardinality(UpTo(key, k))
  BY <1>1, <1>2, <1>3, FS_Subset
<1>5. Cardinality(UpTo(key, j)) = Rank(key, j) /\ Cardinality(UpTo(key, k)) = Rank(key, k)
      /\ Rank(key, j) \in Nat /\ Rank(key, k) \in Nat
  BY UpToFinite
<1>. QED  BY <1>4, <1>5

\* The ranks decide the order, and no two elements have the same one.
LEMMA RankDecides ==
  ASSUME NEW n \in Nat, NEW m \in Nat, NEW key \in KeyLists(n, m), NEW j \in 1..n, NEW k \in 1..n
  PROVE  /\ Rank(key, j) = Rank(key, k) => j = k
         /\ Rank(key, j) < Rank(key, k) => ~Before(key[k], key[j])
<1>0. key[j] \in [1..m -> Nat] /\ key[k] \in [1..m -> Nat]
  BY DEF KeyLists
<1>1. Rank(key, j) \in Nat /\ Rank(key, k) \in Nat
  BY UpToFinite
<1>2. j # k => Comes(key, j, k) \/ Comes(key, k, j)
  <2>1. key[j] # key[k] => Before(key[j], key[k]) \/ Before(key[k], key[j])
    BY <1>0, BeforeTotal
  <2>2. j # k => j < k \/ k < j
    OBVIOUS
  <2>. QED  BY <2>1, <2>2 DEF Comes
<1>3. Rank(key, j) = Rank(key, k) => j = k
  BY <1>1, <1>2, RankFollowsOrder
<1>4. Before(key[k], key[j]) => Comes(key, k, j)
  BY DEF Comes
<1>. QED  BY <1>1, <1>3, <1>4, RankFollowsOrder

\* Every place of the sorted list is the rank of one element.
LEMMA RankBijection ==
  ASSUME NEW n \in Nat, NEW m \in Nat, NEW key \in KeyLists(n, m), NEW i \in 1..n
  PROVE  \E j \in 1..n : Rank(key, j) = i
<1>. DEFINE r == [j \in 1..n |-> Rank(key, j)]
<1>1. r \in [1..n -> 1..n]
  BY UpToFinite
<1>2. \A j, k \in 1..n : r[j] = r[k] => j = k
  BY RankDecides
<1>3. r \in Injection(1..n, 1..n)
  BY <1>1, <1>2, Fun_IsInj
<1>4. r \in Surjection(1..n, 1..n)
  BY <1>3, FS_Interval, FS_Injection
<1>5. \E j \in 1..n : r[j] = i
  BY <1>4 DEF Surjection
<1>. QED  BY <1>5

AtRank(seq, key, n, i) == \E j \in 1..n : Rank(key, j) = i /\ SortBy(seq, key)[i] = seq[j]

\* SortBy puts at each place the element of that rank.
LEMMA SortByAt ==
  ASSUME NEW n \in Nat, NEW m \in Nat, NEW key \in KeyLists(n, m), NEW seq, DOMAIN seq = 1..n,
         NEW i \in 1..n
  PROVE  AtRank(seq, key, n, i)
<1>0. \E k \in 1..n : Rank(key, k) = i
  BY RankBijection
<1>. DEFINE j == CHOOSE j \in DOMAIN seq : Rank(key, j) = i
<1>1. \E k \in DOMAIN seq : Rank(key, k) = i
  BY <1>0
<1>2. j \in 1..n /\ Rank(key, j) = i
  BY <1>1
<1>3. SortBy(seq, key)[i] = seq[j]
  BY DEF SortBy
<1>. QED  BY <1>2, <1>3 DEF AtRank

\* Sorting a list gives a list of the same length and of its elements.
LEMMA SortByType ==
  ASSUME NEW n \in Nat, NEW m \in Nat, NEW key \in KeyLists(n, m), NEW T, NEW seq \in [1..n -> T]
  PROVE  SortBy(seq, key) \in [1..n -> T]
<1>0. DOMAIN seq = 1..n
  OBVIOUS
<1>1. \A i \in 1..n : AtRank(seq, key, n, i)
  BY <1>0, SortByAt
<1>2. \A i \in 1..n : SortBy(seq, key)[i] \in T
  BY <1>1 DEF AtRank
<1>3. SortBy(seq, key) = [i \in 1..n |-> SortBy(seq, key)[i]]
  BY <1>0 DEF SortBy
<1>. QED  BY <1>2, <1>3

-----------------------------------------------------------------------------
(* Lists with the same elements.                                           *)

\* The elements of a list are what it has at its places.
LEMMA ElementsAt ==
  ASSUME NEW list, NEW x
  PROVE  x \in Elements(list) <=> \E i \in DOMAIN list : list[i] = x
BY DEF Elements

Distinct(list) == \A i, j \in DOMAIN list : list[i] = list[j] => i = j

\* A list whose length is the number of its elements repeats none of them.
LEMMA CountedOnce ==
  ASSUME NEW n \in Nat, NEW T, NEW list \in [1..n -> T]
  PROVE  /\ IsFiniteSet(Elements(list))
         /\ Cardinality(Elements(list)) = n <=> Distinct(list)
<1>1. DOMAIN list = 1..n /\ list = [i \in 1..n |-> list[i]]
  OBVIOUS
<1>2. list \in Surjection(1..n, Elements(list))
  <2>1. \A x \in Elements(list) : \E i \in 1..n : list[i] = x
    BY <1>1, ElementsAt
  <2>2. list \in [1..n -> Elements(list)]
    BY <1>1, ElementsAt
  <2>. QED  BY <2>1, <2>2 DEF Surjection
<1>3. IsFiniteSet(1..n) /\ Cardinality(1..n) = n
  BY FS_Interval
<1>4. /\ IsFiniteSet(Elements(list))
      /\ Cardinality(Elements(list)) = n <=> list \in Injection(1..n, Elements(list))
  BY <1>2, <1>3, FS_Surjection
<1>5. list \in Injection(1..n, Elements(list)) <=> Distinct(list)
  BY <1>1, <1>2 DEF Surjection, Injection, IsInjective, Distinct
<1>. QED  BY <1>4, <1>5

\* A permutation of the places of a list.
Permutes(place, n) ==
  /\ place \in [1..n -> 1..n]
  /\ \A i, j \in 1..n : place[i] = place[j] => i = j
  /\ \A j \in 1..n : \E i \in 1..n : place[i] = j

Placed(c, d, n) ==
  \E place : Permutes(place, n) /\ \A i \in 1..n : d[place[i]] = c[i]

\* Where the elements of a list are in another list of the same elements.
LEMMA Places ==
  ASSUME NEW n \in Nat, NEW T, NEW c \in [1..n -> T], NEW d \in [1..n -> T],
         Elements(c) = Elements(d), Distinct(c)
  PROVE  Distinct(d) /\ Placed(c, d, n)
<1>. DEFINE place == [i \in 1..n |-> CHOOSE j \in 1..n : d[j] = c[i]]
<1>1. DOMAIN c = 1..n /\ DOMAIN d = 1..n
  OBVIOUS
<1>2. \A i \in 1..n : \E j \in 1..n : d[j] = c[i]
  BY <1>1, ElementsAt
<1>3. \A j \in 1..n : \E i \in 1..n : d[j] = c[i]
  BY <1>1, ElementsAt
<1>4. Distinct(d)
  BY CountedOnce
<1>5. \A i \in 1..n : place[i] \in 1..n /\ d[place[i]] = c[i]
  BY <1>2
<1>6. place \in [1..n -> 1..n]
  BY <1>5
<1>7. \A i, j \in 1..n : place[i] = place[j] => i = j
  BY <1>1, <1>5 DEF Distinct
<1>8. \A j \in 1..n : \E i \in 1..n : place[i] = j
  BY <1>1, <1>3, <1>4, <1>5 DEF Distinct
<1>. QED
  <2>. HIDE DEF place
  <2>. QED  BY <1>4, <1>5, <1>6, <1>7, <1>8 DEF Permutes, Placed

\* Equal elements of two lists have equal keys.
KeyedAlike(c, d, kc, kd) ==
  \A i \in DOMAIN c, j \in DOMAIN d : c[i] = d[j] => kc[i] = kd[j]

\* Elements with different keys have the same rank in two lists of them.
LEMMA RankedAlike ==
  ASSUME NEW n \in Nat, NEW m \in Nat, NEW kc \in KeyLists(n, m), NEW kd \in KeyLists(n, m),
         Distinct(kc), NEW place, Permutes(place, n),
         \A i \in 1..n : kd[place[i]] = kc[i],
         NEW i \in 1..n
  PROVE  Rank(kd, place[i]) = Rank(kc, i)
<1>. DEFINE f == [k \in UpTo(kc, i) |-> place[k]]
<1>1. DOMAIN kc = 1..n /\ DOMAIN kd = 1..n
  BY DEF KeyLists
<1>2. \A k \in UpTo(kc, i) : k \in 1..n /\ (Before(kc[k], kc[i]) \/ k = i)
  BY <1>1 DEF UpTo, Distinct
<1>3. \A k \in 1..n : Before(kc[k], kc[i]) \/ k = i => k \in UpTo(kc, i)
  BY <1>1 DEF UpTo
<1>4. \A k \in UpTo(kd, place[i]) : k \in 1..n /\ (Before(kd[k], kd[place[i]]) \/ k = place[i])
  <2>1. SUFFICES ASSUME NEW k \in UpTo(kd, place[i]), kd[k] = kd[place[i]] PROVE k = place[i]
    BY <1>1 DEF UpTo
  <2>2. PICK l \in 1..n : place[l] = k
    BY <1>1 DEF UpTo, Permutes
  <2>3. kc[l] = kc[i]
    BY <2>1, <2>2
  <2>4. l = i
    BY <1>1, <2>3 DEF Distinct
  <2>. QED  BY <2>2, <2>4
<1>5. \A k \in 1..n : Before(kd[k], kd[place[i]]) \/ k = place[i] => k \in UpTo(kd, place[i])
  BY <1>1 DEF UpTo
<1>6. \A k \in 1..n : k \in UpTo(kc, i) <=> place[k] \in UpTo(kd, place[i])
  <2>. TAKE k \in 1..n
  <2>1. place[k] \in 1..n /\ kd[place[k]] = kc[k] /\ kd[place[i]] = kc[i]
        /\ (place[k] = place[i] <=> k = i)
    BY DEF Permutes
  <2>. QED  BY <1>2, <1>3, <1>4, <1>5, <2>1
<1>7. f \in [UpTo(kc, i) -> UpTo(kd, place[i])]
  BY <1>2, <1>6
<1>8. \A k, l \in UpTo(kc, i) : f[k] = f[l] => k = l
  BY <1>2 DEF Permutes
<1>9. \A k \in UpTo(kd, place[i]) : \E l \in UpTo(kc, i) : f[l] = k
  BY <1>4, <1>6 DEF Permutes
<1>10. f \in Bijection(UpTo(kc, i), UpTo(kd, place[i]))
  BY <1>7, <1>8, <1>9, Fun_IsBij
<1>11. ExistsBijection(UpTo(kc, i), UpTo(kd, place[i]))
  BY <1>10 DEF ExistsBijection
<1>12. IsFiniteSet(UpTo(kc, i)) /\ Rank(kc, i) = Cardinality(UpTo(kc, i))
       /\ Rank(kd, place[i]) = Cardinality(UpTo(kd, place[i]))
  BY UpToFinite, place[i] \in 1..n DEF Permutes
<1>. QED  BY <1>11, <1>12, FS_Bijection

\* Two lists of the same elements, with keys that are different.
Sortable(n, m, T, c, d, kc, kd) ==
  /\ n \in Nat /\ m \in Nat /\ c \in [1..n -> T] /\ d \in [1..n -> T]
  /\ Elements(c) = Elements(d) /\ kc \in KeyLists(n, m) /\ kd \in KeyLists(n, m)
  /\ KeyedAlike(c, d, kc, kd) /\ Distinct(kc)

\* Lists with the same elements and with different keys have one sorted form.
LEMMA SortedAlike ==
  ASSUME NEW n, NEW m, NEW T, NEW c, NEW d, NEW kc, NEW kd, Sortable(n, m, T, c, d, kc, kd)
  PROVE  SortBy(c, kc) = SortBy(d, kd)
<1>. /\ n \in Nat /\ m \in Nat /\ c \in [1..n -> T] /\ d \in [1..n -> T]
     /\ Elements(c) = Elements(d) /\ kc \in KeyLists(n, m) /\ kd \in KeyLists(n, m)
     /\ KeyedAlike(c, d, kc, kd) /\ Distinct(kc)
  BY DEF Sortable
<1>1. DOMAIN c = 1..n /\ DOMAIN d = 1..n /\ DOMAIN kc = 1..n
  BY DEF KeyLists
<1>2. \A i \in 1..n : \E j \in 1..n : d[j] = c[i]
  BY <1>1, ElementsAt
<1>3. Distinct(c)
  <2>1. SUFFICES ASSUME NEW i \in 1..n, NEW j \in 1..n, c[i] = c[j] PROVE i = j
    BY <1>1 DEF Distinct
  <2>2. PICK l \in 1..n : d[l] = c[i]
    BY <1>2
  <2>3. kc[i] = kd[l] /\ kc[j] = kd[l]
    BY <1>1, <2>1, <2>2 DEF KeyedAlike
  <2>. QED  BY <1>1, <2>3 DEF Distinct
<1>4. PICK place : Permutes(place, n) /\ \A i \in 1..n : d[place[i]] = c[i]
  <2>1. Placed(c, d, n)
    BY <1>3, Places
  <2>. QED  BY <2>1 DEF Placed
<1>5. \A i \in 1..n : kd[place[i]] = kc[i] /\ place[i] \in 1..n
  BY <1>1, <1>4 DEF KeyedAlike, Permutes
<1>6. \A i \in 1..n : Rank(kd, place[i]) = Rank(kc, i)
  BY <1>4, <1>5, RankedAlike
<1>7. \A i \in 1..n : SortBy(c, kc)[i] = SortBy(d, kd)[i]
  <2>. TAKE i \in 1..n
  <2>0. AtRank(c, kc, n, i) /\ AtRank(d, kd, n, i)
    BY <1>1, SortByAt
  <2>1. PICK j \in 1..n : Rank(kc, j) = i /\ SortBy(c, kc)[i] = c[j]
    BY <2>0 DEF AtRank
  <2>2. PICK k \in 1..n : Rank(kd, k) = i /\ SortBy(d, kd)[i] = d[k]
    BY <2>0 DEF AtRank
  <2>3. Rank(kd, place[j]) = Rank(kd, k) /\ place[j] \in 1..n
    BY <1>5, <1>6, <2>1, <2>2
  <2>4. place[j] = k
    BY <2>3, RankDecides
  <2>. QED  BY <1>4, <2>1, <2>2, <2>4
<1>8. SortBy(c, kc) = [i \in 1..n |-> SortBy(c, kc)[i]]
      /\ SortBy(d, kd) = [i \in 1..n |-> SortBy(d, kd)[i]]
  BY <1>1 DEF SortBy
<1>. QED  BY <1>7, <1>8

\* When the sorted list has no two neighbours with the same first component of
\* their keys, no two elements of the list have the same one, however far apart
\* they are: what lies between two equal components is equal to them.
LEMMA NeighboursSuffice ==
  ASSUME NEW n \in Nat, NEW m \in Nat, m >= 1, NEW key \in KeyLists(n, m),
         \A x, z \in 1..n : Rank(key, z) = Rank(key, x) + 1 => key[x][1] # key[z][1]
  PROVE  \A x, y \in 1..n : key[x][1] = key[y][1] => x = y
<1>0. \A x \in 1..n : key[x][1] \in Nat /\ DOMAIN key[x] = 1..m
  BY DEF KeyLists
<1>1. \A x, y \in 1..n : Rank(key, x) < Rank(key, y) => key[x][1] <= key[y][1]
  <2>. SUFFICES ASSUME NEW x \in 1..n, NEW y \in 1..n, Rank(key, x) < Rank(key, y),
                       ~(key[x][1] <= key[y][1])
                PROVE  FALSE
    OBVIOUS
  <2>1. key[y][1] < key[x][1] /\ \A j \in 1..(1 - 1) : key[y][j] = key[x][j]
    BY <1>0
  <2>2. Before(key[y], key[x])
    BY <1>0, <2>1 DEF Before
  <2>. QED  BY <2>2, RankDecides
<1>2. ASSUME NEW x \in 1..n, NEW y \in 1..n, key[x][1] = key[y][1], Rank(key, x) < Rank(key, y)
      PROVE  FALSE
  <2>1. Rank(key, x) + 1 \in 1..n /\ Rank(key, x) + 1 <= Rank(key, y)
    BY <1>2, UpToFinite
  <2>2. PICK z \in 1..n : Rank(key, z) = Rank(key, x) + 1
    BY <2>1, RankBijection
  <2>r. Rank(key, x) \in Nat /\ Rank(key, y) \in Nat
    BY UpToFinite
  <2>3. key[x][1] <= key[z][1]
    BY <1>1, <2>2, <2>r
  <2>4. key[z][1] <= key[y][1]
    <3>1. CASE Rank(key, z) = Rank(key, y)
      <4>1. z = y
        BY <3>1, RankDecides
      <4>. QED  BY <1>0, <4>1
    <3>2. CASE Rank(key, z) < Rank(key, y)
      BY <1>1, <3>2
    <3>. QED  BY <2>1, <2>2, <2>r, <3>1, <3>2
  <2>. QED  BY <1>0, <1>2, <2>2, <2>3, <2>4
<1>3. \A x, y \in 1..n : x # y => Rank(key, x) < Rank(key, y) \/ Rank(key, y) < Rank(key, x)
  <2>1. \A x, y \in 1..n : /\ Rank(key, x) \in Nat /\ Rank(key, y) \in Nat
                           /\ Rank(key, x) = Rank(key, y) => x = y
    BY UpToFinite, RankDecides
  <2>. QED  BY <2>1
<1>. QED  BY <1>2, <1>3

\* A list with no two equal neighbours.
LEMMA NoNeighbours ==
  ASSUME NEW n \in Nat, NEW w \in [1..n -> Nat], ~windows_equal(w)
  PROVE  \A i \in 1..(n - 1) : w[i] # w[i + 1]
<1>1. w \in Seq(Nat) /\ Len(w) = n
  OBVIOUS
<1>. QED  BY <1>1 DEF windows_equal

ColumnOf(w, n, seq, col) == w = [i \in 1..n |-> col[seq[i]]]
FirstKey(key, seq, col) == \A i \in DOMAIN seq : key[i][1] = col[seq[i]]
\* A list, the keys that sort it, one column of it and that column of the sorted list.
SortedColumn(n, m, key, T, seq, col, w) ==
  /\ n \in Nat /\ m \in Nat /\ m >= 1 /\ key \in KeyLists(n, m)
  /\ seq \in [1..n -> T] /\ col \in [T -> Nat]
  /\ FirstKey(key, seq, col) /\ ColumnOf(w, n, SortBy(seq, key), col)
DistinctIn(seq, col) == \A x, y \in DOMAIN seq : col[seq[x]] = col[seq[y]] => x = y

\* The check of has_duplicates on one list, sorted by keys that begin with the
\* column it compares: no two elements of the list agree in that column.
LEMMA ColumnDistinct ==
  ASSUME NEW n, NEW m, NEW key, NEW T, NEW seq, NEW col, NEW w,
         SortedColumn(n, m, key, T, seq, col, w), ~windows_equal(w)
  PROVE  DistinctIn(seq, col)
<1>. /\ n \in Nat /\ m \in Nat /\ m >= 1 /\ key \in KeyLists(n, m)
     /\ seq \in [1..n -> T] /\ col \in [T -> Nat]
     /\ FirstKey(key, seq, col) /\ ColumnOf(w, n, SortBy(seq, key), col)
  BY DEF SortedColumn
<1>0. DOMAIN seq = 1..n
  OBVIOUS
<1>1. SortBy(seq, key) \in [1..n -> T]
  BY SortByType
<1>2. w \in [1..n -> Nat] /\ \A i \in 1..n : w[i] = col[SortBy(seq, key)[i]]
  BY <1>1 DEF ColumnOf
<1>3. \A i \in 1..(n - 1) : w[i] # w[i + 1]
  BY <1>2, NoNeighbours
<1>4. \A i \in 1..n : AtRank(seq, key, n, i)
  BY <1>0, SortByAt
<1>5. \A x \in 1..n : Rank(key, x) \in 1..n /\ SortBy(seq, key)[Rank(key, x)] = seq[x]
  <2>. TAKE x \in 1..n
  <2>1. Rank(key, x) \in 1..n
    BY UpToFinite
  <2>2. PICK j \in 1..n : Rank(key, j) = Rank(key, x) /\ SortBy(seq, key)[Rank(key, x)] = seq[j]
    BY <1>4, <2>1 DEF AtRank
  <2>3. j = x
    BY <2>2, RankDecides
  <2>. QED  BY <2>1, <2>2, <2>3
<1>6. \A x, z \in 1..n : Rank(key, z) = Rank(key, x) + 1 => key[x][1] # key[z][1]
  <2>1. SUFFICES ASSUME NEW x \in 1..n, NEW z \in 1..n, Rank(key, z) = Rank(key, x) + 1
                 PROVE  key[x][1] # key[z][1]
    OBVIOUS
  <2>2. Rank(key, x) \in 1..n /\ Rank(key, z) \in 1..n
    BY <1>5
  <2>3. Rank(key, x) \in 1..(n - 1)
    BY <2>1, <2>2
  <2>4. w[Rank(key, x)] # w[Rank(key, x) + 1]
    BY <1>3, <2>3
  <2>5. w[Rank(key, x)] = col[seq[x]] /\ w[Rank(key, z)] = col[seq[z]]
    BY <1>2, <1>5, <2>2
  <2>6. key[x][1] = col[seq[x]] /\ key[z][1] = col[seq[z]]
    BY <1>0 DEF FirstKey
  <2>. QED  BY <2>1, <2>4, <2>5, <2>6
<1>7. \A x, y \in 1..n : key[x][1] = key[y][1] => x = y
  BY <1>6, NeighboursSuffice
<1>. QED  BY <1>0, <1>7 DEF FirstKey, DistinctIn

-----------------------------------------------------------------------------
(* The lists of a contribution.                                            *)

\* The lists are functions of their places.
LEMMA ListsTyped ==
  ASSUME NEW T, NEW list \in Seq(T)
  PROVE  Len(list) \in Nat /\ DOMAIN list = 1..Len(list) /\ list \in [1..Len(list) -> T]
OBVIOUS

\* The keys of the mappings, and that they begin with the environment name.
LEMMA MappingKeysTyped ==
  ASSUME NEW n \in Nat, NEW list \in [1..n -> MappingRecord]
  PROVE  /\ MappingKeys(list) \in KeyLists(n, 5)
         /\ \A i \in 1..n : MappingKeys(list)[i][1] = list[i].environment_name
<1>1. \A i \in 1..n : /\ list[i].environment_name \in Nat /\ list[i].field_group \in Nat
                      /\ list[i].vault \in Nat /\ list[i].item \in Nat /\ list[i].field \in Nat
  BY DEF MappingRecord
<1>. QED  BY <1>1 DEF MappingKeys, KeyLists

\* The keys of the grants, and that they begin with the vault.
LEMMA GrantKeysTyped ==
  ASSUME NEW n \in Nat, NEW list \in [1..n -> GrantRecord]
  PROVE  /\ GrantKeys(list) \in KeyLists(n, 2)
         /\ \A i \in 1..n : GrantKeys(list)[i][1] = list[i].vault
<1>1. \A i \in 1..n : list[i].vault \in Nat /\ list[i].level \in Nat
  BY DEF GrantRecord, AccessLevels, Read, Write, Admin
<1>. QED  BY <1>1 DEF GrantKeys, KeyLists

\* A number is its own key.
LEMMA NumberKeysTyped ==
  ASSUME NEW n \in Nat, NEW list \in [1..n -> Nat]
  PROVE  Keys(list) \in KeyLists(n, 1) /\ \A i \in 1..n : Keys(list)[i][1] = list[i]
BY DEF Keys, KeyLists

\* The keys of provisioned vaults.
LEMMA VaultKeysTyped ==
  ASSUME NEW n \in Nat, NEW list \in [1..n -> [key : Nat, vault : Nat]]
  PROVE  VaultKeys(list) \in KeyLists(n, 1) /\ \A i \in 1..n : VaultKeys(list)[i][1] = list[i].key
BY DEF VaultKeys, KeyLists

\* The lists of a contribution.
LEMMA ContributionLists ==
  ASSUME NEW c \in ContributionRecord
  PROVE  /\ c.levels \in Seq(Nat) /\ c.mappings \in Seq(MappingRecord)
         /\ c.grants \in Seq(GrantRecord)
         /\ c.provisioning = None \/ c.provisioning \in ProvisioningRecord
<1>1. /\ c.levels \in Seq(AccessLevels) /\ c.mappings \in Seq(MappingRecord)
      /\ c.grants \in Seq(GrantRecord)
      /\ c.provisioning \in ProvisioningRecord \cup {None}
  BY DEF ContributionRecord
<1>2. c.levels \in Seq(Nat)
  <2>1. AccessLevels \subseteq Nat
    BY DEF AccessLevels, Read, Write, Admin
  <2>2. /\ Len(c.levels) \in Nat /\ DOMAIN c.levels = 1..Len(c.levels)
        /\ c.levels \in [1..Len(c.levels) -> AccessLevels]
    BY <1>1, ListsTyped
  <2>3. c.levels \in [1..Len(c.levels) -> Nat]
    BY <2>1, <2>2
  <2>. QED  BY <2>2, <2>3
<1>. QED  BY <1>1, <1>2

\* What the canonical form does to the lists.
LEMMA CanonicalLists ==
  ASSUME NEW c \in ContributionRecord
  PROVE  /\ canonical_order(c).levels = SortBy(c.levels, Keys(c.levels))
         /\ canonical_order(c).mappings = SortBy(c.mappings, MappingKeys(c.mappings))
         /\ canonical_order(c).grants = SortBy(c.grants, GrantKeys(c.grants))
         /\ canonical_order(c).provisioning = canonical_provisioning(c.provisioning)
BY DEF canonical_order, ContributionRecord

ListFields == {"levels", "mappings", "grants", "provisioning"}

\* Contributions that agree in all but their lists, and whose lists have the same
\* canonical form, have the same canonical form.
LEMMA CanonicalAlike ==
  ASSUME NEW c, NEW d, DOMAIN d = DOMAIN c,
         \A f \in DOMAIN c \ ListFields : d[f] = c[f],
         SortBy(d.levels, Keys(d.levels)) = SortBy(c.levels, Keys(c.levels)),
         SortBy(d.mappings, MappingKeys(d.mappings)) = SortBy(c.mappings, MappingKeys(c.mappings)),
         SortBy(d.grants, GrantKeys(d.grants)) = SortBy(c.grants, GrantKeys(c.grants)),
         canonical_provisioning(d.provisioning) = canonical_provisioning(c.provisioning)
  PROVE  canonical_order(d) = canonical_order(c)
BY DEF canonical_order, ListFields

\* A contribution whose canonical form has no equal neighbours names every
\* level, every environment name and every vault once.
LEMMA DuplicatesFound ==
  ASSUME NEW c \in ContributionRecord, ~has_duplicates(canonical_order(c))
  PROVE  /\ \A i, j \in DOMAIN c.levels : c.levels[i] = c.levels[j] => i = j
         /\ \A i, j \in DOMAIN c.mappings :
              c.mappings[i].environment_name = c.mappings[j].environment_name => i = j
         /\ \A i, j \in DOMAIN c.grants : c.grants[i].vault = c.grants[j].vault => i = j
<1>0. /\ c.levels \in Seq(Nat) /\ c.mappings \in Seq(MappingRecord)
      /\ c.grants \in Seq(GrantRecord)
  BY ContributionLists
<1>. DEFINE kl == Keys(c.levels)
            km == MappingKeys(c.mappings)
            kg == GrantKeys(c.grants)
            sl == SortBy(c.levels, kl)
            sm == SortBy(c.mappings, km)
            sg == SortBy(c.grants, kg)
<1>f. canonical_order(c).levels = sl /\ canonical_order(c).mappings = sm
      /\ canonical_order(c).grants = sg
  BY CanonicalLists
<1>1. /\ ~windows_equal(sl)
      /\ ~windows_equal([i \in DOMAIN sm |-> sm[i].environment_name])
      /\ ~windows_equal([i \in DOMAIN sg |-> sg[i].vault])
  BY <1>f DEF has_duplicates
<1>2. ASSUME NEW n, n = Len(c.levels)
      PROVE  \A i, j \in DOMAIN c.levels : c.levels[i] = c.levels[j] => i = j
  <2>. DEFINE col == [x \in Nat |-> x]
  <2>1. n \in Nat /\ DOMAIN c.levels = 1..n /\ c.levels \in [1..n -> Nat]
    BY <1>0, <1>2, ListsTyped
  <2>2. kl \in KeyLists(n, 1) /\ FirstKey(kl, c.levels, col)
    BY <2>1, NumberKeysTyped DEF FirstKey
  <2>3. sl \in [1..n -> Nat]
    BY <2>1, <2>2, SortByType
  <2>4. [i \in 1..n |-> col[sl[i]]] = sl
    BY <2>3
  <2>5. col \in [Nat -> Nat]
    OBVIOUS
  <2>6. DistinctIn(c.levels, col)
    <3>. DEFINE w == sl
    <3>1. ~windows_equal(w) /\ ColumnOf(w, n, SortBy(c.levels, kl), col)
      BY <1>1, <2>4 DEF ColumnOf
    <3>. HIDE DEF w, col, kl, sl, sm, sg
    <3>2. SortedColumn(n, 1, kl, Nat, c.levels, col, w)
      <4>1. 1 \in Nat /\ 1 >= 1
        OBVIOUS
      <4>. QED  BY <2>1, <2>2, <2>5, <3>1, <4>1, Zenon DEF SortedColumn
    <3>. QED  BY <3>1, <3>2, ColumnDistinct
  <2>. QED  BY <2>1, <2>6 DEF DistinctIn
<1>3. ASSUME NEW n, n = Len(c.mappings)
      PROVE  \A i, j \in DOMAIN c.mappings :
               c.mappings[i].environment_name = c.mappings[j].environment_name => i = j
  <2>. DEFINE col == [x \in MappingRecord |-> x.environment_name]
  <2>1. n \in Nat /\ DOMAIN c.mappings = 1..n /\ c.mappings \in [1..n -> MappingRecord]
    BY <1>0, <1>3, ListsTyped
  <2>2. km \in KeyLists(n, 5) /\ FirstKey(km, c.mappings, col)
    BY <2>1, MappingKeysTyped DEF FirstKey
  <2>3. sm \in [1..n -> MappingRecord]
    BY <2>1, <2>2, SortByType
  <2>4. [i \in 1..n |-> col[sm[i]]] = [i \in DOMAIN sm |-> sm[i].environment_name]
    BY <2>3
  <2>5. col \in [MappingRecord -> Nat]
    BY DEF MappingRecord
  <2>6. DistinctIn(c.mappings, col)
    <3>. DEFINE w == [i \in DOMAIN sm |-> sm[i].environment_name]
    <3>1. ~windows_equal(w) /\ ColumnOf(w, n, SortBy(c.mappings, km), col)
      BY <1>1, <2>4 DEF ColumnOf
    <3>. HIDE DEF w, col, km, sl, sm, sg
    <3>2. SortedColumn(n, 5, km, MappingRecord, c.mappings, col, w)
      BY <2>1, <2>2, <2>5, <3>1 DEF SortedColumn
    <3>. QED  BY <3>1, <3>2, ColumnDistinct
  <2>. QED  BY <2>1, <2>6 DEF DistinctIn
<1>4. ASSUME NEW n, n = Len(c.grants)
      PROVE  \A i, j \in DOMAIN c.grants : c.grants[i].vault = c.grants[j].vault => i = j
  <2>. DEFINE col == [x \in GrantRecord |-> x.vault]
  <2>1. n \in Nat /\ DOMAIN c.grants = 1..n /\ c.grants \in [1..n -> GrantRecord]
    BY <1>0, <1>4, ListsTyped
  <2>2. kg \in KeyLists(n, 2) /\ FirstKey(kg, c.grants, col)
    BY <2>1, GrantKeysTyped DEF FirstKey
  <2>3. sg \in [1..n -> GrantRecord]
    BY <2>1, <2>2, SortByType
  <2>4. [i \in 1..n |-> col[sg[i]]] = [i \in DOMAIN sg |-> sg[i].vault]
    BY <2>3
  <2>5. col \in [GrantRecord -> Nat]
    BY DEF GrantRecord
  <2>6. DistinctIn(c.grants, col)
    <3>. DEFINE w == [i \in DOMAIN sg |-> sg[i].vault]
    <3>1. ~windows_equal(w) /\ ColumnOf(w, n, SortBy(c.grants, kg), col)
      BY <1>1, <2>4 DEF ColumnOf
    <3>. HIDE DEF w, col, kg, sl, sm, sg
    <3>2. SortedColumn(n, 2, kg, GrantRecord, c.grants, col, w)
      BY <2>1, <2>2, <2>5, <3>1 DEF SortedColumn
    <3>. QED  BY <3>1, <3>2, ColumnDistinct
  <2>. QED  BY <2>1, <2>6 DEF DistinctIn
<1>. QED  BY <1>2, <1>3, <1>4

-----------------------------------------------------------------------------
(* A contribution whose lists arrive in another order.                     *)

Reordered(list, other) == Len(list) = Len(other) /\ Elements(list) = Elements(other)

ReorderedProvisioning(p, q) ==
  /\ (p = None) <=> (q = None)
  /\ p # None => /\ q.vault_count = p.vault_count
                 /\ Reordered(p.keys, q.keys) /\ Reordered(p.vaults, q.vaults)

ReorderedContribution(c, d) ==
  /\ DOMAIN d = DOMAIN c /\ \A f \in DOMAIN c \ ListFields : d[f] = c[f]
  /\ Reordered(c.levels, d.levels) /\ Reordered(c.mappings, d.mappings)
  /\ Reordered(c.grants, d.grants)
  /\ ReorderedProvisioning(c.provisioning, d.provisioning)

\* A reordered list has the same columns.
LEMMA ColumnsReordered ==
  ASSUME NEW c, NEW d, Elements(c) = Elements(d), NEW f
  PROVE  Column(c, f) = Column(d, f)
<1>1. \A i \in DOMAIN c : \E j \in DOMAIN d : d[j] = c[i]
  BY ElementsAt
<1>2. \A i \in DOMAIN d : \E j \in DOMAIN c : c[j] = d[i]
  BY ElementsAt
<1>. QED  BY <1>1, <1>2 DEF Column

\* The empty list and a list of one element have one order.
LEMMA ShortReordered ==
  ASSUME NEW T, NEW d \in Seq(T), NEW c, Reordered(c, d)
  PROVE  /\ c = <<>> => d = <<>>
         /\ \A x : c = <<x>> => d = <<x>>
<1>1. c = <<>> => d = <<>>
  BY DEF Reordered
<1>2. ASSUME NEW x, c = <<x>> PROVE d = <<x>>
  <2>1. Len(d) = 1
    BY <1>2 DEF Reordered
  <2>2. x \in Elements(c) /\ \A y \in Elements(c) : y = x
    BY <1>2 DEF Elements
  <2>3. DOMAIN d = {1} /\ d[1] \in Elements(d)
    BY <2>1, ElementsAt
  <2>4. d[1] = x
    BY <2>2, <2>3 DEF Reordered
  <2>. QED  BY <2>1, <2>4
<1>. QED  BY <1>1, <1>2

\* validate_contribution does not look at the order of the lists.
LEMMA ValidReordered ==
  ASSUME NEW c \in ContributionRecord, NEW d \in ContributionRecord,
         ReorderedContribution(c, d), validate_contribution(c)
  PROVE  validate_contribution(d)
<1>1. /\ d.scope = c.scope /\ d.target = c.target /\ d.deployment_id = c.deployment_id
      /\ d.deployment_revision_id = c.deployment_revision_id
      /\ d.within_bounds = c.within_bounds /\ d.decision = c.decision
  BY DEF ContributionRecord, ReorderedContribution, ListFields
<1>2. /\ Reordered(c.levels, d.levels) /\ Reordered(c.mappings, d.mappings)
      /\ Reordered(c.grants, d.grants)
      /\ ReorderedProvisioning(c.provisioning, d.provisioning)
  BY DEF ReorderedContribution
<1>3. /\ d.levels \in Seq(Nat) /\ d.mappings \in Seq(MappingRecord)
      /\ d.grants \in Seq(GrantRecord)
      /\ d.provisioning = None \/ d.provisioning \in ProvisioningRecord
  BY ContributionLists
<1>4. /\ c.levels = <<>> <=> d.levels = <<>>
      /\ \A x : c.levels = <<x>> => d.levels = <<x>>
      /\ c.mappings = <<>> => d.mappings = <<>>
      /\ c.grants = <<>> => d.grants = <<>>
  <2>1. d.levels = <<>> => c.levels = <<>>
    BY <1>2, <1>3, ContributionLists DEF Reordered
  <2>. QED  BY <1>2, <1>3, <2>1, ShortReordered
<1>5. /\ \A i \in DOMAIN d.mappings : \E j \in DOMAIN c.mappings : d.mappings[i] = c.mappings[j]
      /\ \A i \in DOMAIN d.grants : \E j \in DOMAIN c.grants : d.grants[i] = c.grants[j]
  BY <1>2, ElementsAt, ZenonT(60) DEF Reordered
<1>6. ASSUME c.provisioning # None, validate_vault_provisioning(c, c.provisioning)
      PROVE  validate_vault_provisioning(d, d.provisioning)
  <2>. DEFINE p == c.provisioning
              q == d.provisioning
  <2>1. /\ q # None /\ q \in ProvisioningRecord /\ q.vault_count = p.vault_count
        /\ Reordered(p.keys, q.keys) /\ Reordered(p.vaults, q.vaults)
    BY <1>2, <1>3, <1>6 DEF ReorderedProvisioning
  <2>2. q.keys \in Seq(Nat) /\ q.vaults \in Seq([key : Nat, vault : Nat])
    BY <2>1 DEF ProvisioningRecord
  <2>p. p \in ProvisioningRecord /\ p.keys \in Seq(Nat)
    BY <1>6, ContributionLists DEF ProvisioningRecord
  <2>3. p.vaults = <<>> => q.vaults = <<>>
    BY <2>1, <2>2, ShortReordered
  <2>4. p.keys # <<>> => q.keys # <<>>
    BY <2>1, <2>2, <2>p DEF Reordered
  <2>5. /\ Elements(q.keys) = Elements(p.keys) /\ Len(q.keys) = Len(p.keys)
        /\ Len(q.vaults) = Len(p.vaults) /\ Len(d.grants) = Len(c.grants)
        /\ Column(q.vaults, "key") = Column(p.vaults, "key")
        /\ Column(q.vaults, "vault") = Column(p.vaults, "vault")
        /\ Column(d.grants, "vault") = Column(c.grants, "vault")
    BY <1>2, <2>1, ColumnsReordered DEF Reordered
  <2>6. binding_valid(q)
    BY <1>6, <2>1, <2>4, <2>5 DEF binding_valid, validate_vault_provisioning
  <2>7. d.deployment_id /\ d.deployment_revision_id /\ d.target = "existing"
    BY <1>1, <1>6 DEF validate_vault_provisioning
  <2>8. d.levels = <<Write>> /\ d.mappings = <<>>
    BY <1>4, <1>6 DEF validate_vault_provisioning
  <2>9. CASE d.decision = "decline"
    <3>1. q.vaults = <<>> /\ d.grants = <<>>
      BY <1>1, <1>4, <1>6, <2>3, <2>9 DEF validate_vault_provisioning
    <3>. QED  BY <2>6, <2>7, <2>8, <2>9, <3>1 DEF validate_vault_provisioning
  <2>10. CASE d.decision # "decline"
    <3>1. /\ Elements(p.keys) = Column(p.vaults, "key")
          /\ Len(p.vaults) = Cardinality(Elements(p.keys))
          /\ Cardinality(Column(p.vaults, "vault")) = Cardinality(Elements(p.keys))
          /\ Len(c.grants) = Cardinality(Elements(p.keys))
          /\ Column(p.vaults, "vault") = Column(c.grants, "vault")
          /\ \A i \in DOMAIN c.grants : c.grants[i].level = Write
      BY <1>1, <1>6, <2>10 DEF validate_vault_provisioning
    <3>2. \A i \in DOMAIN d.grants : d.grants[i].level = Write
      BY <1>5, <3>1
    <3>. QED  BY <2>5, <2>6, <2>7, <2>8, <2>10, <3>1, <3>2 DEF validate_vault_provisioning
  <2>. QED  BY <2>9, <2>10
<1>7. valid_scope(d)
  <2>0. valid_scope(c)
    BY DEF validate_contribution
  <2>1. CASE c.scope = "secret_fields"
    <3>1. /\ c.provisioning = None /\ c.target = "existing" /\ c.levels = <<Read>>
          /\ c.deployment_id /\ c.deployment_revision_id
      BY <2>0, <2>1 DEF valid_scope
    <3>2. d.provisioning = None /\ d.target = "existing" /\ d.levels = <<Read>>
      BY <1>1, <1>2, <1>4, <3>1 DEF ReorderedProvisioning
    <3>3. d.deployment_id /\ d.deployment_revision_id
      BY <1>1, <3>1
    <3>. QED  BY <1>1, <2>1, <3>2, <3>3 DEF valid_scope
  <2>2. CASE c.scope # "secret_fields" /\ c.provisioning # None
    <3>1. validate_vault_provisioning(d, d.provisioning)
      BY <1>6, <2>0, <2>2 DEF valid_scope
    <3>2. d.provisioning # None
      BY <1>2, <2>2 DEF ReorderedProvisioning
    <3>. QED  BY <1>1, <2>2, <3>1, <3>2 DEF valid_scope
  <2>3. CASE c.scope # "secret_fields" /\ c.provisioning = None
    <3>1. ~c.deployment_id /\ ~c.deployment_revision_id /\ c.levels # <<>>
      BY <2>0, <2>3 DEF valid_scope
    <3>2. d.provisioning = None /\ d.levels # <<>>
      BY <1>2, <1>4, <2>3, <3>1 DEF ReorderedProvisioning
    <3>3. ~d.deployment_id /\ ~d.deployment_revision_id
      BY <1>1, <3>1
    <3>. QED  BY <1>1, <2>3, <3>2, <3>3 DEF valid_scope
  <2>. QED  BY <2>1, <2>2, <2>3
<1>8. Len(d.mappings) <= MAX_MAPPINGS /\ Len(d.grants) <= MAX_VAULT_GRANTS
  BY <1>2 DEF validate_contribution, Reordered
<1>9. /\ \A i \in DOMAIN d.mappings : d.mappings[i].wrap # None
      /\ \A i \in DOMAIN d.grants : d.grants[i].level \in Elements(d.levels)
                                    /\ d.grants[i].wrap # None
  <2>1. /\ \A i \in DOMAIN c.mappings : c.mappings[i].wrap # None
        /\ \A i \in DOMAIN c.grants : c.grants[i].level \in Elements(c.levels)
                                      /\ c.grants[i].wrap # None
    BY DEF validate_contribution
  <2>2. Elements(d.levels) = Elements(c.levels)
    BY <1>2 DEF Reordered
  <2>. QED  BY <1>5, <2>1, <2>2
<1>10. d.within_bounds
  BY <1>1 DEF validate_contribution
<1>. QED  BY <1>7, <1>8, <1>9, <1>10 DEF validate_contribution

\* A column of a list has as many values as the list is long exactly when no
\* value is in it twice.
LEMMA ColumnOnce ==
  ASSUME NEW n \in Nat, NEW list, DOMAIN list = 1..n, NEW f
  PROVE  /\ IsFiniteSet(Column(list, f))
         /\ Cardinality(Column(list, f)) = n
              <=> \A i, j \in 1..n : list[i][f] = list[j][f] => i = j
<1>. DEFINE values == [i \in 1..n |-> list[i][f]]
<1>1. Column(list, f) = Elements(values)
  BY DEF Column, Elements
<1>2. values \in [1..n -> Elements(values)]
  BY DEF Elements
<1>3. IsFiniteSet(Elements(values)) /\ (Cardinality(Elements(values)) = n <=> Distinct(values))
  <2>. HIDE DEF values
  <2>. QED  BY <1>2, CountedOnce
<1>4. Distinct(values) <=> \A i, j \in 1..n : list[i][f] = list[j][f] => i = j
  BY DEF Distinct
<1>. QED  BY <1>1, <1>3, <1>4

\* An accepted proposal maps every key once, and its vaults have distinct keys.
LEMMA ProvisionedOnce ==
  ASSUME NEW c, NEW p \in ProvisioningRecord, validate_vault_provisioning(c, p)
  PROVE  /\ \A i, j \in DOMAIN p.keys : p.keys[i] = p.keys[j] => i = j
         /\ \A i, j \in DOMAIN p.vaults : p.vaults[i].key = p.vaults[j].key => i = j
<1>1. p.keys \in Seq(Nat) /\ p.vaults \in Seq([key : Nat, vault : Nat])
  BY DEF ProvisioningRecord
<1>2. ASSUME NEW n, n = Len(p.keys)
      PROVE  \A i, j \in DOMAIN p.keys : p.keys[i] = p.keys[j] => i = j
  <2>1. n \in Nat /\ p.keys \in [1..n -> Nat]
    BY <1>1, <1>2, ListsTyped
  <2>2. Cardinality(Elements(p.keys)) = n
    BY <1>2 DEF validate_vault_provisioning, binding_valid
  <2>. QED  BY <2>1, <2>2, CountedOnce DEF Distinct
<1>3. ASSUME NEW n, n = Len(p.vaults)
      PROVE  \A i, j \in DOMAIN p.vaults : p.vaults[i].key = p.vaults[j].key => i = j
  <2>1. n \in Nat /\ DOMAIN p.vaults = 1..n
    BY <1>1, <1>3, ListsTyped
  <2>2. CASE c.decision = "decline"
    <3>1. p.vaults = <<>>
      BY <2>2 DEF validate_vault_provisioning
    <3>. QED  BY <3>1
  <2>3. CASE c.decision # "decline"
    <3>1. Cardinality(Column(p.vaults, "key")) = n
      BY <1>3, <2>3 DEF validate_vault_provisioning
    <3>2. \A i, j \in 1..n : p.vaults[i]["key"] = p.vaults[j]["key"] => i = j
      BY <2>1, <3>1, ColumnOnce
    <3>. QED  BY <2>1, <3>2
  <2>. QED  BY <2>2, <2>3
<1>. QED  BY <1>2, <1>3

\* A reordered list of different numbers has the same sorted form.
LEMMA NumbersSortedAlike ==
  ASSUME NEW c \in Seq(Nat), NEW d \in Seq(Nat), Reordered(c, d),
         \A i, j \in DOMAIN c : c[i] = c[j] => i = j
  PROVE  SortBy(d, Keys(d)) = SortBy(c, Keys(c))
<1>1. PICK n \in Nat : n = Len(c)
  OBVIOUS
<1>2. DOMAIN c = 1..n /\ c \in [1..n -> Nat] /\ d \in [1..n -> Nat] /\ DOMAIN d = 1..n
  BY <1>1, ListsTyped DEF Reordered
<1>3. Keys(c) \in KeyLists(n, 1) /\ Keys(d) \in KeyLists(n, 1)
  BY <1>2, NumberKeysTyped
<1>4. KeyedAlike(c, d, Keys(c), Keys(d)) /\ Distinct(Keys(c))
  BY <1>2 DEF KeyedAlike, Distinct, Keys
<1>5. Sortable(n, 1, Nat, c, d, Keys(c), Keys(d))
  <2>1. n \in Nat /\ 1 \in Nat /\ Elements(c) = Elements(d)
    BY <1>1 DEF Reordered
  <2>. QED  BY <1>2, <1>3, <1>4, <2>1, Zenon DEF Sortable
<1>. QED  BY <1>5, SortedAlike

\* The same for mappings with different environment names.
LEMMA MappingsSortedAlike ==
  ASSUME NEW c \in Seq(MappingRecord), NEW d \in Seq(MappingRecord), Reordered(c, d),
         \A i, j \in DOMAIN c : c[i].environment_name = c[j].environment_name => i = j
  PROVE  SortBy(d, MappingKeys(d)) = SortBy(c, MappingKeys(c))
<1>1. PICK n \in Nat : n = Len(c)
  OBVIOUS
<1>2. DOMAIN c = 1..n /\ DOMAIN d = 1..n /\ c \in [1..n -> MappingRecord]
      /\ d \in [1..n -> MappingRecord]
  BY <1>1, ListsTyped DEF Reordered
<1>3. MappingKeys(c) \in KeyLists(n, 5) /\ MappingKeys(d) \in KeyLists(n, 5)
  BY <1>2, MappingKeysTyped
<1>4. KeyedAlike(c, d, MappingKeys(c), MappingKeys(d)) /\ Distinct(MappingKeys(c))
  BY <1>2 DEF KeyedAlike, Distinct, MappingKeys
<1>5. Sortable(n, 5, MappingRecord, c, d, MappingKeys(c), MappingKeys(d))
  <2>1. n \in Nat /\ 5 \in Nat /\ Elements(c) = Elements(d)
    BY <1>1 DEF Reordered
  <2>. QED  BY <1>2, <1>3, <1>4, <2>1, Zenon DEF Sortable
<1>. QED  BY <1>5, SortedAlike

\* The same for grants of different vaults.
LEMMA GrantsSortedAlike ==
  ASSUME NEW c \in Seq(GrantRecord), NEW d \in Seq(GrantRecord), Reordered(c, d),
         \A i, j \in DOMAIN c : c[i].vault = c[j].vault => i = j
  PROVE  SortBy(d, GrantKeys(d)) = SortBy(c, GrantKeys(c))
<1>1. PICK n \in Nat : n = Len(c)
  OBVIOUS
<1>2. DOMAIN c = 1..n /\ DOMAIN d = 1..n /\ c \in [1..n -> GrantRecord]
      /\ d \in [1..n -> GrantRecord]
  BY <1>1, ListsTyped DEF Reordered
<1>3. GrantKeys(c) \in KeyLists(n, 2) /\ GrantKeys(d) \in KeyLists(n, 2)
  BY <1>2, GrantKeysTyped
<1>4. KeyedAlike(c, d, GrantKeys(c), GrantKeys(d)) /\ Distinct(GrantKeys(c))
  BY <1>2 DEF KeyedAlike, Distinct, GrantKeys
<1>5. Sortable(n, 2, GrantRecord, c, d, GrantKeys(c), GrantKeys(d))
  <2>1. n \in Nat /\ 2 \in Nat /\ Elements(c) = Elements(d)
    BY <1>1 DEF Reordered
  <2>. QED  BY <1>2, <1>3, <1>4, <2>1, Zenon DEF Sortable
<1>. QED  BY <1>5, SortedAlike

\* The same for provisioned vaults with different keys.
LEMMA VaultsSortedAlike ==
  ASSUME NEW c \in Seq([key : Nat, vault : Nat]), NEW d \in Seq([key : Nat, vault : Nat]),
         Reordered(c, d), \A i, j \in DOMAIN c : c[i].key = c[j].key => i = j
  PROVE  SortBy(d, VaultKeys(d)) = SortBy(c, VaultKeys(c))
<1>1. PICK n \in Nat : n = Len(c)
  OBVIOUS
<1>2. DOMAIN c = 1..n /\ DOMAIN d = 1..n /\ c \in [1..n -> [key : Nat, vault : Nat]]
      /\ d \in [1..n -> [key : Nat, vault : Nat]]
  BY <1>1, ListsTyped DEF Reordered
<1>3. VaultKeys(c) \in KeyLists(n, 1) /\ VaultKeys(d) \in KeyLists(n, 1)
  BY <1>2, VaultKeysTyped
<1>4. KeyedAlike(c, d, VaultKeys(c), VaultKeys(d)) /\ Distinct(VaultKeys(c))
  BY <1>2 DEF KeyedAlike, Distinct, VaultKeys
<1>5. Sortable(n, 1, [key : Nat, vault : Nat], c, d, VaultKeys(c), VaultKeys(d))
  <2>1. n \in Nat /\ 1 \in Nat /\ Elements(c) = Elements(d)
    BY <1>1 DEF Reordered
  <2>. QED  BY <1>2, <1>3, <1>4, <2>1, Zenon DEF Sortable
<1>. QED  BY <1>5, SortedAlike

\* The provisioning of a valid contribution has one canonical form.
LEMMA ProvisioningAlike ==
  ASSUME NEW c \in ContributionRecord, NEW d \in ContributionRecord,
         ReorderedContribution(c, d), validate_contribution(c)
  PROVE  canonical_provisioning(d.provisioning) = canonical_provisioning(c.provisioning)
<1>. DEFINE p == c.provisioning
            q == d.provisioning
<1>0. ReorderedProvisioning(p, q)
  BY DEF ReorderedContribution
<1>1. CASE p = None
  BY <1>0, <1>1 DEF ReorderedProvisioning, canonical_provisioning
<1>2. CASE p # None
  <2>1. /\ p # None /\ p \in ProvisioningRecord /\ q # None /\ q \in ProvisioningRecord
        /\ q.vault_count = p.vault_count
        /\ Reordered(p.keys, q.keys) /\ Reordered(p.vaults, q.vaults)
    BY <1>0, <1>2, ContributionLists DEF ReorderedProvisioning
  <2>2. validate_vault_provisioning(c, p)
    BY <2>1 DEF validate_contribution, valid_scope
  <2>3. /\ \A i, j \in DOMAIN p.keys : p.keys[i] = p.keys[j] => i = j
        /\ \A i, j \in DOMAIN p.vaults : p.vaults[i].key = p.vaults[j].key => i = j
    BY <2>1, <2>2, ProvisionedOnce
  <2>. HIDE DEF p, q
  <2>4. /\ p.keys \in Seq(Nat) /\ p.vaults \in Seq([key : Nat, vault : Nat])
        /\ q.keys \in Seq(Nat) /\ q.vaults \in Seq([key : Nat, vault : Nat])
    BY <2>1 DEF ProvisioningRecord
  <2>5. SortBy(q.keys, Keys(q.keys)) = SortBy(p.keys, Keys(p.keys))
    BY <2>1, <2>3, <2>4, NumbersSortedAlike
  <2>6. SortBy(q.vaults, VaultKeys(q.vaults)) = SortBy(p.vaults, VaultKeys(p.vaults))
    BY <2>1, <2>3, <2>4, VaultsSortedAlike
  <2>7. /\ canonical_provisioning(p) =
             [keys |-> SortBy(p.keys, Keys(p.keys)), vault_count |-> p.vault_count,
              vaults |-> SortBy(p.vaults, VaultKeys(p.vaults))]
        /\ canonical_provisioning(q) =
             [keys |-> SortBy(q.keys, Keys(q.keys)), vault_count |-> q.vault_count,
              vaults |-> SortBy(q.vaults, VaultKeys(q.vaults))]
    BY <2>1 DEF canonical_provisioning, ProvisioningRecord
  <2>8. canonical_provisioning(q) = canonical_provisioning(p)
    BY <2>1, <2>5, <2>6, <2>7
  <2>. QED  BY <2>8 DEF p, q
<1>. QED  BY <1>1, <1>2

\* "Callers cannot accidentally sign a semantically identical contribution in a
\* wire order the verifier will normalize differently": the payload of a
\* contribution is the payload of every reordering of its lists, of any length.
THEOREM PayloadIgnoresOrder ==
  ASSUME NEW c \in ContributionRecord, NEW d \in ContributionRecord,
         ReorderedContribution(c, d), agent_delegation_contribution_payload(c) # None
  PROVE  agent_delegation_contribution_payload(d) = agent_delegation_contribution_payload(c)
<1>1. validate_contribution(c) /\ ~has_duplicates(canonical_order(c))
  BY DEF agent_delegation_contribution_payload
<1>2. validate_contribution(d)
  BY <1>1, ValidReordered
<1>3. /\ Reordered(c.levels, d.levels) /\ Reordered(c.mappings, d.mappings)
      /\ Reordered(c.grants, d.grants)
  BY DEF ReorderedContribution
<1>4. /\ c.levels \in Seq(Nat) /\ c.mappings \in Seq(MappingRecord)
      /\ c.grants \in Seq(GrantRecord)
      /\ d.levels \in Seq(Nat) /\ d.mappings \in Seq(MappingRecord)
      /\ d.grants \in Seq(GrantRecord)
  BY ContributionLists
<1>5. /\ \A i, j \in DOMAIN c.levels : c.levels[i] = c.levels[j] => i = j
      /\ \A i, j \in DOMAIN c.mappings :
           c.mappings[i].environment_name = c.mappings[j].environment_name => i = j
      /\ \A i, j \in DOMAIN c.grants : c.grants[i].vault = c.grants[j].vault => i = j
  BY <1>1, DuplicatesFound
<1>6. SortBy(d.levels, Keys(d.levels)) = SortBy(c.levels, Keys(c.levels))
  BY <1>3, <1>4, <1>5, NumbersSortedAlike
<1>7. SortBy(d.mappings, MappingKeys(d.mappings)) = SortBy(c.mappings, MappingKeys(c.mappings))
  BY <1>3, <1>4, <1>5, MappingsSortedAlike
<1>8. SortBy(d.grants, GrantKeys(d.grants)) = SortBy(c.grants, GrantKeys(c.grants))
  BY <1>3, <1>4, <1>5, GrantsSortedAlike
<1>9. canonical_provisioning(d.provisioning) = canonical_provisioning(c.provisioning)
  BY <1>1, ProvisioningAlike
<1>10. DOMAIN d = DOMAIN c /\ \A f \in DOMAIN c \ ListFields : d[f] = c[f]
  BY DEF ReorderedContribution
<1>11. canonical_order(d) = canonical_order(c)
  BY <1>6, <1>7, <1>8, <1>9, <1>10, CanonicalAlike
<1>. QED  BY <1>1, <1>2, <1>11 DEF agent_delegation_contribution_payload

\* A contribution with a payload names every environment name and every vault
\* once, and grants at the levels it allows.
LEMMA PayloadHasNoDuplicates ==
  ASSUME NEW c \in ContributionRecord, agent_delegation_contribution_payload(c) # None
  PROVE  /\ Cardinality(Column(c.mappings, "environment_name")) = Len(c.mappings)
         /\ Cardinality(Column(c.grants, "vault")) = Len(c.grants)
         /\ Column(c.grants, "level") \subseteq Elements(c.levels)
<1>1. validate_contribution(c) /\ ~has_duplicates(canonical_order(c))
  BY DEF agent_delegation_contribution_payload
<1>2. c.mappings \in Seq(MappingRecord) /\ c.grants \in Seq(GrantRecord)
  BY ContributionLists
<1>3. /\ \A i, j \in DOMAIN c.mappings :
           c.mappings[i].environment_name = c.mappings[j].environment_name => i = j
      /\ \A i, j \in DOMAIN c.grants : c.grants[i].vault = c.grants[j].vault => i = j
  BY <1>1, DuplicatesFound
<1>4. ASSUME NEW n, n = Len(c.mappings)
      PROVE  Cardinality(Column(c.mappings, "environment_name")) = n
  <2>1. n \in Nat /\ DOMAIN c.mappings = 1..n
    BY <1>2, <1>4, ListsTyped
  <2>2. \A i, j \in 1..n :
          c.mappings[i]["environment_name"] = c.mappings[j]["environment_name"] => i = j
    BY <1>3, <2>1
  <2>. QED  BY <2>1, <2>2, ColumnOnce
<1>5. ASSUME NEW n, n = Len(c.grants)
      PROVE  Cardinality(Column(c.grants, "vault")) = n
  <2>1. n \in Nat /\ DOMAIN c.grants = 1..n
    BY <1>2, <1>5, ListsTyped
  <2>2. \A i, j \in 1..n : c.grants[i]["vault"] = c.grants[j]["vault"] => i = j
    BY <1>3, <2>1
  <2>. QED  BY <2>1, <2>2, ColumnOnce
<1>6. \A i \in DOMAIN c.grants : c.grants[i].level \in Elements(c.levels)
  BY <1>1 DEF validate_contribution
<1>. QED  BY <1>4, <1>5, <1>6 DEF Column

\* In a list whose column repeats no value, a value of the column is at one place.
LEMMA OnePlace ==
  ASSUME NEW n \in Nat, NEW list, DOMAIN list = 1..n, NEW f,
         \A i, j \in 1..n : list[i][f] = list[j][f] => i = j, NEW x \in Column(list, f)
  PROVE  Cardinality({i \in DOMAIN list : list[i][f] = x}) = 1
<1>1. PICK i \in 1..n : list[i][f] = x
  BY DEF Column
<1>2. {j \in DOMAIN list : list[j][f] = x} = {i}
  BY <1>1
<1>. QED  BY <1>2, FS_Singleton

\* The proposal of a valid contribution: a declined one has no vaults, another one
\* pairs keys, vaults and write grants one to one.
LEMMA ValidProvisioning ==
  ASSUME NEW c \in ContributionRecord, validate_contribution(c), c.provisioning # None
  PROVE  LET p == c.provisioning
         IN  IF c.decision = "decline" THEN p.vaults = <<>> /\ c.grants = <<>>
             ELSE /\ \A k \in Elements(p.keys) :
                       Cardinality({i \in DOMAIN p.vaults : p.vaults[i].key = k}) = 1
                  /\ \A i \in DOMAIN p.vaults :
                       /\ p.vaults[i].key \in Elements(p.keys)
                       /\ Cardinality({j \in DOMAIN p.vaults :
                                         p.vaults[j].vault = p.vaults[i].vault}) = 1
                       /\ Cardinality({j \in DOMAIN c.grants :
                                         c.grants[j].vault = p.vaults[i].vault
                                         /\ c.grants[j].level = Write}) = 1
                  /\ Len(c.grants) = Len(p.keys)
<1>. DEFINE p == c.provisioning
<1>1. validate_vault_provisioning(c, p)
  BY DEF validate_contribution, valid_scope
<1>2. p \in ProvisioningRecord /\ c.grants \in Seq(GrantRecord)
  BY ContributionLists
<1>. HIDE DEF p
<1>3. CASE c.decision = "decline"
  BY <1>1, <1>3 DEF validate_vault_provisioning, p
<1>4. CASE c.decision # "decline"
  <2>1. /\ Elements(p.keys) = Column(p.vaults, "key")
        /\ Len(p.vaults) = Cardinality(Elements(p.keys))
        /\ Cardinality(Column(p.vaults, "vault")) = Cardinality(Elements(p.keys))
        /\ Len(c.grants) = Cardinality(Elements(p.keys))
        /\ Column(p.vaults, "vault") = Column(c.grants, "vault")
        /\ \A i \in DOMAIN c.grants : c.grants[i].level = Write
        /\ Cardinality(Elements(p.keys)) = Len(p.keys)
    BY <1>1, <1>4 DEF validate_vault_provisioning, binding_valid
  <2>2. PICK n : n = Len(p.vaults)
    OBVIOUS
  <2>3. n \in Nat /\ DOMAIN p.vaults = 1..n /\ DOMAIN c.grants = 1..n
    BY <1>2, <2>1, <2>2, ListsTyped DEF ProvisioningRecord
  <2>4. /\ \A i, j \in 1..n : p.vaults[i]["key"] = p.vaults[j]["key"] => i = j
        /\ \A i, j \in 1..n : p.vaults[i]["vault"] = p.vaults[j]["vault"] => i = j
        /\ \A i, j \in 1..n : c.grants[i]["vault"] = c.grants[j]["vault"] => i = j
    BY <2>1, <2>2, <2>3, ColumnOnce
  <2>5. \A k \in Elements(p.keys) :
          Cardinality({i \in DOMAIN p.vaults : p.vaults[i]["key"] = k}) = 1
    BY <2>1, <2>3, <2>4, OnePlace
  <2>a. \A v \in Column(p.vaults, "vault") :
          Cardinality({j \in DOMAIN p.vaults : p.vaults[j]["vault"] = v}) = 1
    BY <2>3, <2>4, OnePlace
  <2>b. \A v \in Column(c.grants, "vault") :
          Cardinality({j \in DOMAIN c.grants : c.grants[j]["vault"] = v}) = 1
    BY <2>3, <2>4, OnePlace
  <2>6. \A v \in Column(p.vaults, "vault") :
          /\ Cardinality({j \in DOMAIN p.vaults : p.vaults[j]["vault"] = v}) = 1
          /\ Cardinality({j \in DOMAIN c.grants : c.grants[j]["vault"] = v}) = 1
    BY <2>1, <2>a, <2>b
  <2>7. \A v : {j \in DOMAIN c.grants : c.grants[j].vault = v /\ c.grants[j].level = Write}
               = {j \in DOMAIN c.grants : c.grants[j]["vault"] = v}
    BY <2>1
  <2>8. \A i \in DOMAIN p.vaults : /\ p.vaults[i].key \in Elements(p.keys)
                                   /\ p.vaults[i].vault \in Column(p.vaults, "vault")
    BY <2>1 DEF Column
  <2>9. \A i \in DOMAIN p.vaults :
          /\ Cardinality({j \in DOMAIN p.vaults : p.vaults[j].vault = p.vaults[i].vault}) = 1
          /\ Cardinality({j \in DOMAIN c.grants : c.grants[j].vault = p.vaults[i].vault
                                                  /\ c.grants[j].level = Write}) = 1
    BY <2>6, <2>7, <2>8
  <2>. QED  BY <1>4, <2>1, <2>5, <2>8, <2>9 DEF p
<1>. QED  BY <1>3, <1>4
=============================================================================
