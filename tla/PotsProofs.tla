----------------------------- MODULE PotsProofs -----------------------------
(***************************************************************************)
(* Proofs about the draw of a caldron of gifts and the shopping runs.      *)
(*                                                                         *)
(* First the rule by which both choose: the order of the keys does not     *)
(* depend on how the items were read, a shuffle is a permutation, and what *)
(* is taken fits into the budget and leaves nothing out that would fit.    *)
(* Then two inductive invariants: DrawInv, that what a call has drawn can  *)
(* be repeated before it is recorded, and ShoppingInv, that a run's choice *)
(* is within its budget and its orders are of what it has paid for.        *)
(***************************************************************************)
EXTENDS Pots, AmountsProofs, WellFoundedInduction

\* Induction over a range of numbers.
LEMMA RangeInduction ==
  ASSUME NEW n \in Nat, NEW P, 0 \in P, \A k \in 1..n : k - 1 \in P => k \in P
  PROVE  \A k \in 0..n : k \in P
<1> DEFINE T == {k \in 0..n : k \notin P}
<1> SUFFICES ASSUME T # {} PROVE FALSE
  OBVIOUS
<1>1. T \subseteq Nat
  OBVIOUS
<1>2. PICK m \in T : \A k \in T : ~(<<k, m>> \in OpToRel(<, Nat))
  BY <1>1, NatLessThanWellFounded, WFMin
<1>3. m \in 1..n
  OBVIOUS
<1>4. \A k \in T : ~(k < m)
  BY <1>1, <1>2 DEF OpToRel
<1>5. m - 1 \in 0..n /\ m - 1 < m
  BY <1>3
<1>6. m - 1 \in P
  BY <1>4, <1>5
<1> QED
  BY <1>3, <1>6

\* Values that follow one from another.
Follows(g, n, base, step) ==
  g[0] = base /\ \A k \in 1..n : g[k] = step[k][g[k - 1]]

\* A function may be defined by what it is at 0 and by what it is at a number
\* from what it is at the number before.
LEMMA Steps ==
  ASSUME NEW n \in Nat, NEW U, NEW base \in U, NEW step \in [1..n -> [U -> U]]
  PROVE  \E g \in [0..n -> U] : Follows(g, n, base, step)
<1> DEFINE NotAfter(g, m) ==
             g \in [0..m -> U] /\ Follows(g, m, base, step)
           P == {m \in 0..n : \E g \in [0..m -> U] : NotAfter(g, m)}
<1>1. 0 \in P
  <2> DEFINE h == [k \in 0..0 |-> base]
  <2>1. h \in [0..0 -> U] /\ h[0] = base /\ 1..0 = {}
    OBVIOUS
  <2>2. NotAfter(h, 0)
    BY <2>1 DEF Follows
  <2>3. 0 \in 0..n
    OBVIOUS
  <2> QED
    BY <2>1, <2>2, <2>3
<1>2. ASSUME NEW m \in 1..n, m - 1 \in P PROVE m \in P
  <2>1. PICK g \in [0..(m - 1) -> U] : NotAfter(g, m - 1)
    BY <1>2
  <2>2. step[m][g[m - 1]] \in U
    OBVIOUS
  <2> DEFINE h == [k \in 0..m |-> IF k = m THEN step[m][g[m - 1]] ELSE g[k]]
  <2>3. h \in [0..m -> U]
    BY <2>2
  <2>4. h[0] = base
    BY <2>1 DEF Follows
  <2>5. ASSUME NEW k \in 1..m PROVE h[k] = step[k][h[k - 1]]
    <3>1. k - 1 \in 0..m /\ k - 1 # m /\ h[k - 1] = g[k - 1]
      OBVIOUS
    <3>2. CASE k = m
      BY <3>1, <3>2
    <3>3. CASE k # m
      <4>1. k \in 1..(m - 1) /\ h[k] = g[k]
        BY <3>3
      <4>2. g[k] = step[k][g[k - 1]]
        BY <2>1, <4>1 DEF Follows
      <4> QED
        BY <3>1, <4>1, <4>2
    <3> QED
      BY <3>2, <3>3
  <2>6. NotAfter(h, m)
    BY <2>3, <2>4, <2>5 DEF Follows
  <2> HIDE DEF h, NotAfter
  <2>7. m \in 0..n
    OBVIOUS
  <2> QED
    BY <2>3, <2>6, <2>7
<1>3. n \in P
  <2> HIDE DEF P
  <2>1. \A k \in 1..n : k - 1 \in P => k \in P
    BY <1>2
  <2>2. \A k \in 0..n : k \in P
    BY <1>1, <2>1, RangeInduction
  <2>3. n \in 0..n
    OBVIOUS
  <2> QED
    BY <2>2, <2>3
<1>4. PICK g \in [0..n -> U] : NotAfter(g, n)
  BY <1>3
<1> QED
  BY <1>4

-----------------------------------------------------------------------------
(* The order of the keys.                                                  *)

\* The items that do not come after one of them.
NotAfter(items, i) ==
  {j \in DOMAIN items : items[j] < items[i] \/ (items[j] = items[i] /\ j <= i)}

\* A place is a position.
LEMMA PlaceIsPosition ==
  ASSUME NEW n \in Nat, NEW items \in [1..n -> Int], NEW i \in 1..n
  PROVE  Place(items, i) \in 1..n
<1>1. NotAfter(items, i) \subseteq 1..n /\ i \in NotAfter(items, i)
  BY DEF NotAfter
<1>2. IsFiniteSet(1..n) /\ Cardinality(1..n) = n
  BY FS_Interval
<1>3. IsFiniteSet(NotAfter(items, i)) /\ Cardinality(NotAfter(items, i)) <= n
  BY <1>1, <1>2, FS_Subset
<1>4. Cardinality(NotAfter(items, i)) \in Nat /\ Cardinality(NotAfter(items, i)) # 0
  BY <1>1, <1>3, FS_CardinalityType, FS_EmptySet
<1>5. Place(items, i) = Cardinality(NotAfter(items, i))
  BY DEF Place, NotAfter
<1> QED
  BY <1>3, <1>4, <1>5

\* Two items have two places.
LEMMA PlacesDiffer ==
  ASSUME NEW n \in Nat, NEW items \in [1..n -> Int], NEW i \in 1..n, NEW j \in 1..n, i # j
  PROVE  Place(items, i) # Place(items, j)
<1>1. ASSUME NEW a \in 1..n, NEW b \in 1..n, a # b,
             items[a] < items[b] \/ (items[a] = items[b] /\ a < b)
      PROVE  Place(items, a) # Place(items, b)
  <2>1. NotAfter(items, a) \subseteq NotAfter(items, b) /\ NotAfter(items, b) \subseteq 1..n
    BY <1>1 DEF NotAfter
  <2>2. b \in NotAfter(items, b) /\ b \notin NotAfter(items, a)
    BY <1>1 DEF NotAfter
  <2>3. IsFiniteSet(NotAfter(items, b))
    BY <2>1, FS_Interval, FS_Subset
  <2>4. Cardinality(NotAfter(items, b)) # Cardinality(NotAfter(items, a))
    BY <2>1, <2>2, <2>3, FS_Subset
  <2> QED
    BY <2>4 DEF Place, NotAfter
<1>2. items[i] \in Int /\ items[j] \in Int
  OBVIOUS
<1> QED
  BY <1>1, <1>2

\* Every position is the place of an item.
LEMMA PlacesAreTaken ==
  ASSUME NEW n \in Nat, NEW items \in [1..n -> Int], NEW k \in 1..n
  PROVE  \E i \in 1..n : Place(items, i) = k
<1> DEFINE f == [i \in 1..n |-> Place(items, i)]
<1>1. f \in [1..n -> 1..n]
  BY PlaceIsPosition
<1>2. \A i, j \in 1..n : f[i] = f[j] => i = j
  BY PlacesDiffer
<1>3. f \in Injection(1..n, 1..n)
  BY <1>1, <1>2 DEF Injection, IsInjective
<1>4. IsFiniteSet(1..n)
  BY FS_Interval
<1>5. f \in Surjection(1..n, 1..n)
  BY <1>3, <1>4, FS_Injection
<1> QED
  BY <1>5 DEF Surjection

\* The items are put into order by a permutation of them.
LEMMA CanonicalPermutes ==
  ASSUME NEW n \in Nat, NEW items \in [1..n -> Int]
  PROVE  \E p \in Bijection(1..n, 1..n) :
           /\ Canonical(items) = [k \in 1..n |-> items[p[k]]]
           /\ \A k \in 1..n : Place(items, p[k]) = k
<1> DEFINE p == [k \in 1..n |-> CHOOSE i \in 1..n : Place(items, i) = k]
<1>1. \A k \in 1..n : p[k] \in 1..n /\ Place(items, p[k]) = k
  BY PlacesAreTaken
<1>2. p \in [1..n -> 1..n] /\ DOMAIN items = 1..n
  BY <1>1
<1>3. Canonical(items) = [k \in 1..n |-> items[p[k]]]
  BY <1>2 DEF Canonical
<1> HIDE DEF p
<1>4. \A i, j \in 1..n : p[i] = p[j] => i = j
  BY <1>1
<1>4a. p \in Injection(1..n, 1..n)
  BY <1>2, <1>4 DEF Injection, IsInjective
<1>5. ASSUME NEW i \in 1..n PROVE \E k \in 1..n : p[k] = i
  <2>1. Place(items, i) \in 1..n
    BY PlaceIsPosition
  <2>2. Place(items, p[Place(items, i)]) = Place(items, i) /\ p[Place(items, i)] \in 1..n
    BY <1>1, <2>1
  <2>3. p[Place(items, i)] = i
    BY <2>2, PlacesDiffer
  <2> QED
    BY <2>1, <2>3
<1>6. p \in Bijection(1..n, 1..n)
  BY <1>2, <1>4a, <1>5 DEF Bijection, Surjection
<1> QED
  BY <1>1, <1>3, <1>6

\* A sequence of the elements of a finite set has each of them once.
LEMMA SequenceOfSet ==
  ASSUME NEW T, IsFiniteSet(T), NEW items \in SetToSeqs(T)
  PROVE  /\ Cardinality(T) \in Nat /\ items \in [1..Cardinality(T) -> T]
         /\ \A i, j \in 1..Cardinality(T) : items[i] = items[j] => i = j
         /\ \A x \in T : \E i \in 1..Cardinality(T) : items[i] = x
<1>1. Cardinality(T) \in Nat
  BY FS_CardinalityType
<1>2. /\ items \in [1..Cardinality(T) -> T]
      /\ \A i, j \in 1..Cardinality(T) : items[i] = items[j] => i = j
  BY DEF SetToSeqs
<1>3. items \in Injection(1..Cardinality(T), T)
  BY <1>2 DEF Injection, IsInjective
<1>4. Cardinality(1..Cardinality(T)) = Cardinality(T)
  BY <1>1, FS_Interval
<1>5. items \in Surjection(1..Cardinality(T), T)
  BY <1>3, <1>4, FS_Injection
<1> QED
  BY <1>1, <1>2, <1>5 DEF Surjection

\* How many elements of a set are not greater.
Rank(T, x) == Cardinality({y \in T : y <= x})

\* Two elements have two ranks.
LEMMA RanksDiffer ==
  ASSUME NEW T \in SUBSET Int, IsFiniteSet(T), NEW x \in T, NEW y \in T, Rank(T, x) = Rank(T, y)
  PROVE  x = y
<1>0. x \in Int /\ y \in Int
  OBVIOUS
<1>1. ASSUME NEW a \in T, NEW b \in T, a < b PROVE Rank(T, a) # Rank(T, b)
  <2> DEFINE A == {z \in T : z <= a}
             B == {z \in T : z <= b}
  <2>0. a \in Int /\ b \in Int /\ \A z \in T : z \in Int
    OBVIOUS
  <2>1. A \subseteq B
    <3>1. ASSUME NEW z \in T, z <= a PROVE z <= b
      BY <1>1, <2>0, <3>1
    <3> QED
      BY <3>1
  <2>1a. b \in B /\ b \notin A
    BY <1>1, <2>0
  <2>2. IsFiniteSet(B)
    BY FS_Subset
  <2>3. Cardinality(A) # Cardinality(B)
    BY <2>1, <2>1a, <2>2, FS_Subset
  <2> QED
    BY <2>3 DEF Rank
<1> QED
  BY <1>0, <1>1

\* Without equal items, the place of an item is its rank.
LEMMA PlaceIsRank ==
  ASSUME NEW T \in SUBSET Int, IsFiniteSet(T), NEW items \in SetToSeqs(T),
         NEW i \in 1..Cardinality(T)
  PROVE  Place(items, i) = Rank(T, items[i])
<1> DEFINE n == Cardinality(T)
           A == NotAfter(items, i)
           B == {y \in T : y <= items[i]}
           f == [j \in A |-> items[j]]
<1>1. /\ n \in Nat /\ items \in [1..n -> T]
      /\ \A j, k \in 1..n : items[j] = items[k] => j = k
      /\ \A x \in T : \E j \in 1..n : items[j] = x
  BY SequenceOfSet
<1> HIDE DEF n
<1>2. A = {j \in 1..n : items[j] <= items[i]}
  <2>1. i \in 1..n
    BY DEF n
  <2>2. \A j \in 1..n : items[j] \in Int
    BY <1>1
  <2>3. \A j \in 1..n : items[j] <= items[i] <=> items[j] < items[i] \/ (items[j] = items[i] /\ j <= i)
    BY <1>1, <2>1, <2>2
  <2> QED
    BY <1>1, <2>3 DEF NotAfter
<1>3. f \in [A -> B]
  BY <1>1, <1>2
<1>4. \A j, k \in A : f[j] = f[k] => j = k
  BY <1>1, <1>2
<1>5. \A y \in B : \E j \in A : f[j] = y
  BY <1>1, <1>2
<1>6. f \in Bijection(A, B)
  BY <1>3, <1>4, <1>5 DEF Bijection, Injection, IsInjective, Surjection
<1>7. IsFiniteSet(A)
  BY <1>1, <1>2, FS_Interval, FS_Subset
<1>8. Cardinality(A) = Cardinality(B)
  BY <1>6, <1>7, FS_Bijection DEF ExistsBijection
<1> QED
  BY <1>8 DEF Place, NotAfter, Rank

\* The order does not depend on how the items were read.
LEMMA CanonicalOfSet ==
  ASSUME NEW T \in SUBSET Int, IsFiniteSet(T),
         NEW items \in SetToSeqs(T), NEW others \in SetToSeqs(T)
  PROVE  Canonical(items) = Canonical(others)
<1> DEFINE n == Cardinality(T)
<1>1. n \in Nat /\ items \in [1..n -> T] /\ others \in [1..n -> T]
  BY SequenceOfSet
<1>2. items \in [1..n -> Int] /\ others \in [1..n -> Int]
  BY <1>1
<1>3. PICK p \in Bijection(1..n, 1..n) :
        /\ Canonical(items) = [k \in 1..n |-> items[p[k]]]
        /\ \A k \in 1..n : Place(items, p[k]) = k
  BY <1>1, <1>2, CanonicalPermutes
<1>4. PICK q \in Bijection(1..n, 1..n) :
        /\ Canonical(others) = [k \in 1..n |-> others[q[k]]]
        /\ \A k \in 1..n : Place(others, q[k]) = k
  BY <1>1, <1>2, CanonicalPermutes
<1>5. ASSUME NEW k \in 1..n PROVE items[p[k]] = others[q[k]]
  <2>1. p[k] \in 1..n /\ q[k] \in 1..n
    BY <1>3, <1>4 DEF Bijection, Injection
  <2>2. Rank(T, items[p[k]]) = k /\ Rank(T, others[q[k]]) = k
    BY <1>3, <1>4, <2>1, PlaceIsRank
  <2>3. items[p[k]] \in T /\ others[q[k]] \in T
    BY <1>1, <2>1
  <2> QED
    <3> DEFINE x == items[p[k]]
               y == others[q[k]]
    <3>1. Rank(T, x) = Rank(T, y) /\ x \in T /\ y \in T
      BY <2>2, <2>3
    <3> HIDE DEF x, y
    <3>2. x = y
      BY <3>1, RanksDiffer
    <3> QED
      BY <3>2 DEF x, y
<1> QED
  BY <1>3, <1>4, <1>5

-----------------------------------------------------------------------------
(* Streams.                                                                *)

\* A set of numbers has a least one.
LEMMA LeastExists ==
  ASSUME NEW A \in SUBSET Nat, A # {}
  PROVE  Min(A) \in A
<1>1. PICK m \in A : \A k \in A : ~(<<k, m>> \in OpToRel(<, Nat))
  BY NatLessThanWellFounded, WFMin
<1>2. \A k \in A : m <= k
  <2>1. ASSUME NEW k \in A PROVE m <= k
    <3>1. ~(k < m)
      BY <1>1 DEF OpToRel
    <3> QED
      BY <3>1
  <2> QED
    BY <2>1
<1> QED
  BY <1>2 DEF Min

\* As long as a stream lasts, the next index is below the number of items,
\* and what is left of the stream lasts as long.
LEMMA IndexFits ==
  ASSUME NEW most \in Nat, NEW n \in 1..most, NEW stream, Lasts(stream, most)
  PROVE  /\ Index(n, stream).at \in 0..n - 1
         /\ Lasts(Index(n, stream).rest, most)
<1>1. CASE n = 1
  <2>1. Index(n, stream) = [at |-> 0, rest |-> stream]
    BY <1>1 DEF Index
  <2> QED
    BY <1>1, <2>1
<1>2. CASE n # 1
  <2> DEFINE A == {i \in 1..Len(stream) : Accepted(n, stream[i])}
             k == Min(A)
             rest == SubSeq(stream, k + 1, Len(stream)) \o SubSeq(stream, 1, k)
  <2>1. stream \in Seq(Values) /\ n \in 2..most /\ Len(stream) \in Nat
    BY <1>2 DEF Lasts
  <2>2. A # {} /\ A \in SUBSET Nat
    BY <2>1 DEF Lasts
  <2>3. k \in 1..Len(stream)
    BY <2>2, LeastExists
  <2>4. Index(n, stream) = [at |-> stream[k] % n, rest |-> rest]
    <3>1. ~(n <= 1)
      BY <2>1
    <3> QED
      BY Zenon, <2>2, <3>1 DEF Index, SelectInSeq
  <2> HIDE DEF k
  <2>5. stream[k] \in Nat
    <3>1. stream[k] \in Values
      BY <2>1, <2>3
    <3>2. 2^Width \in Nat
      BY KeysAssumption
    <3> DEFINE w == 2^Width
    <3> HIDE DEF w
    <3>3. w \in Nat /\ stream[k] \in 0..w - 1
      BY <3>1, <3>2 DEF Values, w
    <3> QED
      BY <3>3
  <2>6. stream[k] % n \in 0..n - 1
    <3> DEFINE v == stream[k]
    <3> HIDE DEF v
    <3>1. v \in Nat /\ n \in Nat /\ n > 0
      BY <2>1, <2>5 DEF v
    <3>2. v % n \in 0..n - 1
      BY <3>1
    <3> QED
      BY <3>2 DEF v
  <2>7. rest \in Seq(Values)
    BY <2>1, <2>3
  <2>8. ASSUME NEW j \in DOMAIN stream PROVE \E i \in DOMAIN rest : rest[i] = stream[j]
    <3>1. j \in 1..Len(stream) /\ Len(rest) = Len(stream) /\ DOMAIN rest = 1..Len(stream)
      BY <2>1, <2>3
    <3>2. CASE j > k
      <4>1. rest[j - k] = stream[j]
        BY <2>1, <2>3, <3>1, <3>2
      <4> QED
        BY <2>3, <3>1, <3>2, <4>1
    <3>3. CASE j <= k
      <4>1. rest[Len(stream) - k + j] = stream[j]
        BY <2>1, <2>3, <3>1, <3>3
      <4>2. Len(stream) - k + j \in 1..Len(stream)
        BY <2>1, <2>3, <3>1, <3>3
      <4> QED
        BY <3>1, <4>1, <4>2
    <3> QED
      BY <2>3, <3>1, <3>2, <3>3
  <2> HIDE DEF rest
  <2>9. Lasts(rest, most)
    <3>1. ASSUME NEW m \in 2..most PROVE \E i \in DOMAIN rest : Accepted(m, rest[i])
      <4>1. PICK j \in DOMAIN stream : Accepted(m, stream[j])
        BY DEF Lasts
      <4>2. PICK i \in DOMAIN rest : rest[i] = stream[j]
        BY <2>8
      <4> QED
        BY <4>1, <4>2
    <3> QED
      BY <2>7, <3>1 DEF Lasts
  <2> QED
    BY <2>4, <2>6, <2>9
<1> QED
  BY <1>1, <1>2

-----------------------------------------------------------------------------
(* Exchanges of items.                                                     *)

\* What every exchange keeps, a shuffle keeps.
LEMMA ExchangesKeep ==
  ASSUME NEW n \in Nat \ {0}, NEW T, NEW X \in SUBSET [1..n -> T], NEW items \in X,
         \A f \in X : \A i, j \in 1..n : Exchange(f, i, j) \in X,
         NEW most \in Nat, n <= most, NEW stream, Lasts(stream, most)
  PROVE  Exchanges(stream, items)[n - 1].items \in X
<1> DEFINE R == {s \in Seq(Values) : Lasts(s, most)}
           U == [items : X, stream : R]
           base == [items |-> items, stream |-> stream]
           Next1(u, k) ==
             [items  |-> Exchange(u.items, n + 1 - k, Index(n + 1 - k, u.stream).at + 1),
              stream |-> Index(n + 1 - k, u.stream).rest]
           step == [k \in 1..n - 1 |-> [u \in U |-> Next1(u, k)]]
<1>1. base \in U
  BY DEF Lasts
<1>2. ASSUME NEW u \in U, NEW k \in 1..n - 1 PROVE Next1(u, k) \in U
  <2>1. u.items \in X /\ Lasts(u.stream, most) /\ n + 1 - k \in 1..most /\ n + 1 - k \in 1..n
    OBVIOUS
  <2> DEFINE index == Index(n + 1 - k, u.stream)
  <2>2. index.at \in 0..n - k /\ Lasts(index.rest, most)
    <3>1. index.at \in 0..(n + 1 - k) - 1 /\ Lasts(index.rest, most)
      BY <2>1, IndexFits
    <3>2. (n + 1 - k) - 1 = n - k
      OBVIOUS
    <3> QED
      BY <3>1, <3>2
  <2> HIDE DEF index
  <2>3. index.at + 1 \in 1..n
    <3> DEFINE at == index.at
    <3> HIDE DEF at
    <3>1. at \in 0..n - k
      BY <2>2 DEF at
    <3>2. at + 1 \in 1..n
      BY <3>1
    <3> QED
      BY <3>2 DEF at
  <2>4. Exchange(u.items, n + 1 - k, index.at + 1) \in X
    BY <2>1, <2>3
  <2>5. index.rest \in R
    BY <2>2 DEF Lasts
  <2> QED
    BY <2>4, <2>5 DEF index
<1>3. step \in [1..n - 1 -> [U -> U]]
  <2> HIDE DEF U, Next1
  <2> QED
    BY <1>2
<1>4. n - 1 \in Nat
  OBVIOUS
<1>5. PICK g \in [0..n - 1 -> U] : Follows(g, n - 1, base, step)
  <2> DEFINE m == n - 1
  <2> HIDE DEF U, step, base, m
  <2>1. m \in Nat /\ base \in U /\ step \in [1..m -> [U -> U]]
    BY <1>1, <1>3, <1>4 DEF m
  <2>2. \E g \in [0..m -> U] : Follows(g, m, base, step)
    BY <2>1, Steps
  <2> QED
    BY <2>2 DEF m
<1>6. g = [k \in 0..n - 1 |-> IF k = 0 THEN base ELSE Next1(g[k - 1], k)]
  <2>1. ASSUME NEW k \in 0..n - 1, k # 0 PROVE g[k] = Next1(g[k - 1], k)
    <3>1. k \in 1..n - 1 /\ k - 1 \in 0..n - 1
      BY <2>1
    <3>2. g[k - 1] \in U
      BY <3>1
    <3> HIDE DEF U, Next1
    <3> QED
      BY <1>5, <3>1, <3>2 DEF Follows
  <2> HIDE DEF U, step, base, Next1
  <2> QED
    BY <1>5, <2>1 DEF Follows
<1> DEFINE Is(after) == after = [k \in 0..n - 1 |-> IF k = 0 THEN base ELSE Next1(after[k - 1], k)]
<1>7. Exchanges(stream, items) = CHOOSE after : Is(after)
  <2>1. Len(items) = n
    OBVIOUS
  <2> QED
    BY Zenon, <2>1 DEF Exchanges
<1>8. Is(g)
  BY <1>6
<1>9. Is(Exchanges(stream, items))
  <2> HIDE DEF Is
  <2> QED
    BY Zenon, <1>7, <1>8
<1> DEFINE after == Exchanges(stream, items)
<1> HIDE DEF after
<1>10. after[0] = base /\ \A k \in 1..n - 1 : after[k] = Next1(after[k - 1], k)
  <2> HIDE DEF base, Next1
  <2>1. after = [k \in 0..n - 1 |-> IF k = 0 THEN base ELSE Next1(after[k - 1], k)]
    BY <1>9 DEF after
  <2>2. 0 \in 0..n - 1 /\ \A k \in 1..n - 1 : k \in 0..n - 1 /\ k # 0
    OBVIOUS
  <2> QED
    BY <2>1, <2>2
<1> DEFINE P == {k \in 0..n - 1 : after[k] \in U}
<1>11. 0 \in P
  BY <1>1, <1>10
<1>12. ASSUME NEW k \in 1..n - 1, k - 1 \in P PROVE k \in P
  <2> HIDE DEF Next1, U
  <2>1. k \in 0..n - 1
    OBVIOUS
  <2> QED
    BY <1>2, <1>10, <1>12, <2>1
<1>13. n - 1 \in P
  <2> DEFINE m == n - 1
  <2> HIDE DEF P, m
  <2>1. m \in Nat /\ \A k \in 1..m : k - 1 \in P => k \in P
    BY <1>4, <1>12 DEF m
  <2>2. \A k \in 0..m : k \in P
    BY <1>11, <2>1, RangeInduction
  <2>3. m \in 0..m
    BY <2>1
  <2> QED
    BY <2>2, <2>3 DEF m
<1> QED
  BY <1>13 DEF after

-----------------------------------------------------------------------------
(* Choices within a budget.                                                *)

\* What the products at the first k positions cost.
CostOf(chosen, price) == [i \in 1..Len(chosen) |-> price[chosen[i]]]

\* What is taken of the first k items: the total is what it costs and within
\* the budget, and whatever was passed over is not worth anything or would
\* be too much.
TakenOf(items, price, budget, k, u) ==
  /\ u.total = Total(1..Len(u.chosen), CostOf(u.chosen, price)) /\ u.total <= budget
  /\ Len(u.chosen) <= k
  /\ \A i \in 1..Len(u.chosen) : price[u.chosen[i]] > 0 /\ \E j \in 1..k : u.chosen[i] = items[j]
  /\ \A j \in 1..k :
       \/ \E i \in 1..Len(u.chosen) : u.chosen[i] = items[j]
       \/ price[items[j]] <= 0 \/ u.total + price[items[j]] > budget
  /\ (\A i, j \in DOMAIN items : items[i] = items[j] => i = j) =>
       \A i, j \in 1..Len(u.chosen) : u.chosen[i] = u.chosen[j] => i = j

\* One product more costs its price more.
LEMMA CostOfAppend ==
  ASSUME NEW T, NEW price \in [T -> Int], NEW chosen \in Seq(T), NEW x \in T, price[x] > 0,
         \A i \in 1..Len(chosen) : price[chosen[i]] > 0
  PROVE  Total(1..Len(Append(chosen, x)), CostOf(Append(chosen, x), price))
           = Total(1..Len(chosen), CostOf(chosen, price)) + price[x]
<1> DEFINE n == Len(chosen)
           more == Append(chosen, x)
           v == CostOf(more, price)
<1>1. n \in Nat /\ Len(more) = n + 1 /\ more[n + 1] = x /\ \A i \in 1..n : more[i] = chosen[i]
  OBVIOUS
<1>2. \A i \in 1..n : chosen[i] \in T
  OBVIOUS
<1> HIDE DEF n, more
<1>3. v = [i \in 1..n + 1 |-> price[more[i]]]
  BY <1>1 DEF CostOf
<1>4. v[n + 1] = price[x] /\ \A i \in 1..n : v[i] = price[chosen[i]]
  BY <1>1, <1>3
<1> HIDE DEF v
<1>5. \A i \in 1..n + 1 : v[i] \in Nat
  <2>1. \A i \in 1..n : v[i] \in Nat
    BY <1>2, <1>4 DEF n
  <2>2. v[n + 1] \in Nat
    BY <1>4
  <2> QED
    BY <1>1, <2>1, <2>2
<1>6. 1..n + 1 = (1..n) \cup {n + 1} /\ n + 1 \notin 1..n
  BY <1>1
<1>7. Total((1..n) \cup {n + 1}, v) = Total(1..n, v) + v[n + 1]
  <2> DEFINE D == 1..n
             m == n + 1
  <2>1. IsFiniteSet(D)
    BY <1>1, FS_Interval
  <2>2. m \notin D /\ \A i \in D \cup {m} : v[i] \in Nat
    BY <1>5, <1>6
  <2> HIDE DEF D, m
  <2>3. Total(D \cup {m}, v) = Total(D, v) + v[m]
    BY <2>1, <2>2, TotalAdd
  <2> QED
    BY <2>3 DEF D, m
<1>8. Total(1..n, v) = Total(1..n, CostOf(chosen, price))
  <2>1. \A i \in 1..n : v[i] = CostOf(chosen, price)[i]
    BY <1>4 DEF CostOf, n
  <2> QED
    BY <2>1, TotalSame
<1> QED
  BY <1>1, <1>4, <1>6, <1>7, <1>8 DEF n, more, v

\* What a step of Takes makes of the choice before it.
Taking(items, price, budget, k, u) ==
  IF Fits(price[items[k]], u.total, budget)
  THEN [chosen |-> Append(u.chosen, items[k]), total |-> u.total + price[items[k]]]
  ELSE u

\* One item after the other is taken or passed over.
LEMMA TakesOne ==
  ASSUME NEW n \in Nat, NEW T, NEW items \in [1..n -> T], NEW price \in [T -> Int],
         NEW budget \in Nat, NEW k \in 1..n,
         NEW u \in [chosen : Seq(T), total : Nat], TakenOf(items, price, budget, k - 1, u),
         NEW w, w = Taking(items, price, budget, k, u)
  PROVE  w \in [chosen : Seq(T), total : Nat] /\ TakenOf(items, price, budget, k, w)
<1> DEFINE x == items[k]
           cost == price[x]
           m == Len(u.chosen)
<1>0. \A b \in 1..k - 1 : b \in 1..n /\ b # k
  OBVIOUS
<1>1. x \in T /\ cost \in Int /\ DOMAIN items = 1..n
  OBVIOUS
<1>2. /\ u.chosen \in Seq(T) /\ u.total \in Nat /\ m \in Nat
      /\ \A i \in 1..m : u.chosen[i] \in T
  OBVIOUS
<1>3. CASE ~Fits(cost, u.total, budget)
  <2>1. w = u
    BY <1>3 DEF Taking
  <2>2. cost <= 0 \/ u.total + cost > budget
    BY <1>1, <1>2, <1>3 DEF Fits
  <2>3. \A j \in 1..k : j \in 1..k - 1 \/ j = k
    OBVIOUS
  <2>4. \A j \in 1..k - 1 : j \in 1..k
    OBVIOUS
  <2>5. Len(u.chosen) <= k
    BY <1>2 DEF TakenOf
  <2> HIDE DEF cost
  <2>6. \A j \in 1..k :
          \/ \E i \in 1..Len(u.chosen) : u.chosen[i] = items[j]
          \/ price[items[j]] <= 0 \/ u.total + price[items[j]] > budget
    BY <2>2, <2>3 DEF TakenOf, cost
  <2>7. \A i \in 1..Len(u.chosen) : price[u.chosen[i]] > 0 /\ \E j \in 1..k : u.chosen[i] = items[j]
    BY <2>4 DEF TakenOf
  <2>8. TakenOf(items, price, budget, k, u)
    BY <2>5, <2>6, <2>7 DEF TakenOf
  <2> QED
    BY <2>1, <2>8
<1>4. CASE Fits(cost, u.total, budget)
  <2> DEFINE more == Append(u.chosen, x)
  <2>1. w = [chosen |-> more, total |-> u.total + cost]
    BY <1>4 DEF Taking
  <2>2. cost > 0 /\ u.total + cost <= budget
    BY <1>4 DEF Fits
  <2>3. more \in Seq(T) /\ Len(more) = m + 1 /\ more[m + 1] = x /\ \A i \in 1..m : more[i] = u.chosen[i]
    BY <1>1, <1>2
  <2>4. Total(1..Len(more), CostOf(more, price)) = u.total + cost
    <3>1. \A i \in 1..Len(u.chosen) : price[u.chosen[i]] > 0
      BY DEF TakenOf
    <3>2. u.total = Total(1..Len(u.chosen), CostOf(u.chosen, price))
      BY DEF TakenOf
    <3> DEFINE c == u.chosen
    <3>3. c \in Seq(T) /\ x \in T /\ price[x] > 0
      BY <1>1, <1>2, <2>2
    <3> HIDE DEF c, x, cost, more
    <3>4. Total(1..Len(Append(c, x)), CostOf(Append(c, x), price))
            = Total(1..Len(c), CostOf(c, price)) + price[x]
      BY <3>1, <3>3, CostOfAppend DEF c
    <3> QED
      BY <3>2, <3>4 DEF c, cost, more
  <2> HIDE DEF x, cost, m, more
  <2>5. /\ \A i \in 1..m : price[u.chosen[i]] > 0 /\ \E j \in 1..k - 1 : u.chosen[i] = items[j]
        /\ m <= k - 1
        /\ \A j \in 1..k - 1 :
             \/ \E i \in 1..m : u.chosen[i] = items[j]
             \/ price[items[j]] <= 0 \/ u.total + price[items[j]] > budget
        /\ (\A i, j \in DOMAIN items : items[i] = items[j] => i = j) =>
             \A i, j \in 1..m : u.chosen[i] = u.chosen[j] => i = j
    BY DEF TakenOf, m
  <2>6. \A i \in 1..m + 1 : i \in 1..m \/ i = m + 1
    BY <1>2
  <2>6a. m + 1 \in 1..m + 1 /\ \A i \in 1..m : i \in 1..m + 1
    BY <1>2
  <2>7. \A j \in 1..k : j \in 1..k - 1 \/ j = k
    OBVIOUS
  <2>8. \A j \in 1..k - 1 : j \in 1..k
    OBVIOUS
  <2>9. ASSUME NEW i \in 1..m + 1 PROVE price[more[i]] > 0 /\ \E j \in 1..k : more[i] = items[j]
    <3>1. CASE i = m + 1
      <4>1. more[i] = items[k] /\ k \in 1..k
        BY <2>3, <3>1 DEF x
      <4> QED
        BY <2>2, <4>1 DEF cost, x
    <3>2. CASE i \in 1..m
      BY <2>3, <2>5, <2>8, <3>2
    <3> QED
      BY <2>6, <3>1, <3>2
  <2>10. ASSUME NEW j \in 1..k
         PROVE  \/ \E i \in 1..m + 1 : more[i] = items[j]
                \/ price[items[j]] <= 0 \/ (u.total + cost) + price[items[j]] > budget
    <3>1. CASE j = k
      BY <2>3, <2>6a, <3>1 DEF x
    <3>2. CASE j \in 1..k - 1
      <4>1. CASE \E i \in 1..m : u.chosen[i] = items[j]
        BY <2>3, <2>6a, <4>1
      <4>2. CASE price[items[j]] <= 0
        BY <4>2
      <4>3. CASE u.total + price[items[j]] > budget
        <5>1. price[items[j]] \in Int
          <6>1. j \in 1..n
            BY <3>2
          <6> QED
            BY <6>1
        <5> QED
          BY <1>1, <1>2, <2>2, <4>3, <5>1 DEF cost
      <4> QED
        BY <2>5, <3>2, <4>1, <4>2, <4>3
    <3> QED
      BY <2>7, <3>1, <3>2
  <2>11. ASSUME \A i, j \in DOMAIN items : items[i] = items[j] => i = j,
                NEW i \in 1..m + 1, NEW j \in 1..m + 1, more[i] = more[j]
         PROVE  i = j
    <3>1. \A a \in 1..m : u.chosen[a] # x
      <4> SUFFICES ASSUME NEW a \in 1..m, u.chosen[a] = x PROVE FALSE
        BY Zenon
      <4>1. PICK b \in 1..k - 1 : u.chosen[a] = items[b]
        BY <2>5
      <4>2. b \in 1..n /\ b # k
        BY ONLY <1>0, b \in 1..k - 1
      <4> QED
        BY <1>1, <2>11, <4>1, <4>2 DEF x
    <3>2. i = m + 1 <=> j = m + 1
      BY <2>3, <2>6, <2>11, <3>1
    <3>3. i \in 1..m /\ j \in 1..m => i = j
      BY <2>3, <2>5, <2>11
    <3> QED
      BY <2>6, <3>2, <3>3
  <2>12. TakenOf(items, price, budget, k, [chosen |-> more, total |-> u.total + cost])
    <3> DEFINE z == [chosen |-> more, total |-> u.total + cost]
    <3>1. z.chosen = more /\ z.total = u.total + cost /\ Len(z.chosen) = m + 1
      BY <2>3
    <3>2. m + 1 <= k
      BY <1>2, <2>5
    <3> HIDE DEF z
    <3>3. (\A i, j \in DOMAIN items : items[i] = items[j] => i = j) =>
             \A i, j \in 1..m + 1 : more[i] = more[j] => i = j
      BY <2>11
    <3>4. TakenOf(items, price, budget, k, z)
      BY <2>2, <2>3, <2>4, <2>9, <2>10, <3>1, <3>2, <3>3 DEF TakenOf
    <3> QED
      BY <3>4 DEF z
  <2>13. u.total + cost \in Nat
    BY <1>1, <1>2, <2>2 DEF cost, x
  <2>14. w \in [chosen : Seq(T), total : Nat]
    BY <2>1, <2>3, <2>13
  <2> QED
    BY <2>1, <2>12, <2>14
<1> QED
  BY <1>3, <1>4

\* Everything is taken or passed over, and only as much as fits.
LEMMA TakesFit ==
  ASSUME NEW n \in Nat, NEW T, NEW items \in [1..n -> T], NEW price \in [T -> Int],
         NEW budget \in Nat
  PROVE  /\ Takes(items, price, budget)[n] \in [chosen : Seq(T), total : Nat]
         /\ TakenOf(items, price, budget, n, Takes(items, price, budget)[n])
<1> DEFINE U == [chosen : Seq(T), total : Int]
           Next1(u, k) == Taking(items, price, budget, k, u)
           step == [k \in 1..n |-> [u \in U |-> Next1(u, k)]]
<1>1. NoItems \in U
  BY DEF NoItems
<1>2. ASSUME NEW u \in U, NEW k \in 1..n PROVE Next1(u, k) \in U
  <2>1. u.chosen \in Seq(T) /\ u.total \in Int /\ items[k] \in T /\ price[items[k]] \in Int
    OBVIOUS
  <2>2. Append(u.chosen, items[k]) \in Seq(T) /\ u.total + price[items[k]] \in Int
    BY <2>1
  <2>3. [chosen |-> Append(u.chosen, items[k]), total |-> u.total + price[items[k]]] \in U
    BY <2>2
  <2> HIDE DEF U
  <2> QED
    BY <2>3 DEF Taking
<1>3. step \in [1..n -> [U -> U]]
  <2> HIDE DEF U, Next1
  <2> QED
    BY <1>2
<1>4. PICK g \in [0..n -> U] : Follows(g, n, NoItems, step)
  <2> HIDE DEF U, step
  <2> QED
    BY <1>1, <1>3, Steps
<1>5. g = [k \in 0..n |-> IF k = 0 THEN NoItems ELSE Next1(g[k - 1], k)]
  <2>1. ASSUME NEW k \in 0..n, k # 0 PROVE g[k] = Next1(g[k - 1], k)
    <3>1. k \in 1..n /\ k - 1 \in 0..n
      BY <2>1
    <3>2. g[k - 1] \in U
      BY <3>1
    <3> HIDE DEF U, Next1
    <3> QED
      BY <1>4, <3>1, <3>2 DEF Follows
  <2> HIDE DEF U, step, Next1
  <2> QED
    BY <1>4, <2>1 DEF Follows
<1> DEFINE Is(after) == after = [k \in 0..n |-> IF k = 0 THEN NoItems ELSE Next1(after[k - 1], k)]
<1>6. Takes(items, price, budget) = CHOOSE after : Is(after)
  <2>1. Len(items) = n
    OBVIOUS
  <2> QED
    BY Zenon, <2>1 DEF Takes, Taking
<1>7. Is(Takes(items, price, budget))
  <2> HIDE DEF Is
  <2>1. Is(g)
    BY <1>5 DEF Is
  <2> QED
    BY Zenon, <1>6, <2>1
<1> DEFINE after == Takes(items, price, budget)
<1> HIDE DEF after
<1>8. after[0] = NoItems /\ \A k \in 1..n : after[k] = Next1(after[k - 1], k)
  <2> HIDE DEF Next1
  <2>1. after = [k \in 0..n |-> IF k = 0 THEN NoItems ELSE Next1(after[k - 1], k)]
    BY <1>7 DEF after
  <2>2. 0 \in 0..n /\ \A k \in 1..n : k \in 0..n /\ k # 0
    OBVIOUS
  <2> QED
    BY <2>1, <2>2
<1> DEFINE V == [chosen : Seq(T), total : Nat]
           P == {k \in 0..n : after[k] \in V /\ TakenOf(items, price, budget, k, after[k])}
<1>9. 0 \in P
  <2>1. NoItems \in V /\ NoItems.chosen = <<>> /\ NoItems.total = 0 /\ Len(NoItems.chosen) = 0
    BY DEF NoItems
  <2>2. 1..0 = {}
    OBVIOUS
  <2>3. Total({}, CostOf(<<>>, price)) = 0
    BY TotalEmpty
  <2>4. TakenOf(items, price, budget, 0, NoItems)
    BY <2>1, <2>2, <2>3 DEF TakenOf
  <2>5. 0 \in 0..n
    OBVIOUS
  <2> HIDE DEF V
  <2> QED
    BY <1>8, <2>1, <2>4, <2>5
<1>10. ASSUME NEW k \in 1..n, k - 1 \in P PROVE k \in P
  <2>1. after[k - 1] \in V /\ TakenOf(items, price, budget, k - 1, after[k - 1])
    BY <1>10
  <2>2. after[k] = Next1(after[k - 1], k)
    BY <1>8
  <2> DEFINE u == after[k - 1]
             w == after[k]
  <2> HIDE DEF u, w
  <2>3. u \in [chosen : Seq(T), total : Nat] /\ TakenOf(items, price, budget, k - 1, u)
    BY <2>1 DEF u
  <2>4. w = Taking(items, price, budget, k, u)
    BY <2>2 DEF u, w, Taking
  <2>5. w \in [chosen : Seq(T), total : Nat] /\ TakenOf(items, price, budget, k, w)
    BY <2>3, <2>4, TakesOne
  <2>6. k \in 0..n
    OBVIOUS
  <2> QED
    BY <2>5, <2>6 DEF w
<1>11. n \in P
  <2> HIDE DEF P
  <2>1. \A k \in 1..n : k - 1 \in P => k \in P
    BY <1>10
  <2>2. \A k \in 0..n : k \in P
    BY <1>9, <2>1, RangeInduction
  <2>3. n \in 0..n
    OBVIOUS
  <2> QED
    BY <2>2, <2>3
<1> QED
  BY <1>11 DEF after

-----------------------------------------------------------------------------
(* Shuffles.                                                               *)

\* Products in some order stay products.
LEMMA ShuffleStays ==
  ASSUME NEW n \in Nat \ {0}, NEW T \in SUBSET Int, NEW items \in [1..n -> T],
         NEW most \in Nat, n <= most, NEW stream, Lasts(stream, most)
  PROVE  Shuffle(stream, items) \in [1..n -> T]
<1>1. items \in [1..n -> Int] /\ Len(items) = n /\ n \in Nat
  <2>1. items \in [1..n -> Int] /\ n \in Nat
    OBVIOUS
  <2> QED
    BY <2>1
<1>2. PICK p \in Bijection(1..n, 1..n) : Canonical(items) = [k \in 1..n |-> items[p[k]]]
  BY <1>1, CanonicalPermutes
<1>3. \A k \in 1..n : p[k] \in 1..n
  BY DEF Bijection, Injection
<1>4. Canonical(items) \in [1..n -> T]
  BY <1>2, <1>3
<1> DEFINE X == [1..n -> T]
<1>5. X \in SUBSET [1..n -> T]
  OBVIOUS
<1>6. \A f \in X : \A i, j \in 1..n : Exchange(f, i, j) \in X
  BY DEF Exchange
<1> HIDE DEF X
<1>7. Exchanges(stream, Canonical(items))[n - 1].items \in X
  <2>1. Canonical(items) \in X
    BY <1>4 DEF X
  <2> QED
    BY <1>5, <1>6, <2>1, ExchangesKeep
<1> QED
  BY <1>1, <1>7 DEF Shuffle, X

\* The elements of a set, shuffled, are still all there, each of them once.
LEMMA ShuffleOfSet ==
  ASSUME NEW T \in SUBSET Int, IsFiniteSet(T), T # {}, NEW items \in SetToSeqs(T),
         NEW most \in Nat, Cardinality(T) <= most, NEW stream, Lasts(stream, most)
  PROVE  /\ Cardinality(T) \in Nat
         /\ Shuffle(stream, items) \in [1..Cardinality(T) -> T]
         /\ \A i, j \in 1..Cardinality(T) :
              Shuffle(stream, items)[i] = Shuffle(stream, items)[j] => i = j
         /\ \A x \in T : \E i \in 1..Cardinality(T) : Shuffle(stream, items)[i] = x
<1> DEFINE n == Cardinality(T)
           X == Injection(1..n, T)
<1>1. n \in Nat \ {0}
  BY FS_CardinalityType, FS_EmptySet
<1>2. /\ items \in [1..n -> T]
      /\ \A i, j \in 1..n : items[i] = items[j] => i = j
  BY SequenceOfSet
<1> HIDE DEF n
<1>3. items \in [1..n -> Int] /\ Len(items) = n /\ n \in Nat
  <2>1. items \in [1..n -> Int] /\ n \in Nat
    BY <1>1, <1>2
  <2> QED
    BY <2>1
<1>4. PICK p \in Bijection(1..n, 1..n) : Canonical(items) = [k \in 1..n |-> items[p[k]]]
  <2>1. n \in Nat /\ items \in [1..n -> Int]
    BY <1>3
  <2>2. \E p \in Bijection(1..n, 1..n) :
          /\ Canonical(items) = [k \in 1..n |-> items[p[k]]]
          /\ \A k \in 1..n : Place(items, p[k]) = k
    BY <2>1, CanonicalPermutes
  <2> QED
    BY <2>2
<1>5. /\ \A k \in 1..n : p[k] \in 1..n
      /\ \A i, j \in 1..n : p[i] = p[j] => i = j
  BY DEF Bijection, Injection, IsInjective
<1>6. Canonical(items) \in X
  <2> DEFINE c == Canonical(items)
  <2>1. c \in [1..n -> T]
    BY <1>2, <1>4, <1>5
  <2>2. \A i, j \in 1..n : c[i] = c[j] => i = j
    BY <1>2, <1>4, <1>5
  <2> HIDE DEF c
  <2>3. c \in X
    BY <2>1, <2>2 DEF Injection, IsInjective
  <2> QED
    BY <2>3 DEF c
<1>7. X \in SUBSET [1..n -> T]
  BY DEF Injection
<1>8. ASSUME NEW f \in X, NEW i \in 1..n, NEW j \in 1..n PROVE Exchange(f, i, j) \in X
  <2> DEFINE e == Exchange(f, i, j)
  <2>1. f \in [1..n -> T] /\ \A a, b \in 1..n : f[a] = f[b] => a = b
    BY DEF Injection, IsInjective
  <2>2. e \in [1..n -> T]
    BY <2>1 DEF Exchange
  <2>3. \A a \in 1..n : e[a] = IF a = j THEN f[i] ELSE IF a = i THEN f[j] ELSE f[a]
    BY <2>1 DEF Exchange
  <2> HIDE DEF e
  <2>4. \A a, b \in 1..n : e[a] = e[b] => a = b
    BY <2>1, <2>3
  <2>5. e \in X
    BY <2>2, <2>4 DEF Injection, IsInjective
  <2> QED
    BY <2>5 DEF e
<1> HIDE DEF X
<1>9. Exchanges(stream, Canonical(items))[n - 1].items \in X
  <2>1. n <= most
    BY DEF n
  <2> QED
    BY <1>1, <1>6, <1>7, <1>8, <2>1, ExchangesKeep
<1> DEFINE s == Shuffle(stream, items)
<1>10. s \in X
  BY <1>3, <1>9 DEF Shuffle
<1> HIDE DEF s
<1>11. s \in [1..n -> T] /\ \A i, j \in 1..n : s[i] = s[j] => i = j
  BY <1>10 DEF X, Injection, IsInjective
<1>12. s \in Surjection(1..n, T)
  <2>1. Cardinality(1..n) = n
    BY <1>1, FS_Interval
  <2> QED
    BY <1>10, <2>1, FS_Injection DEF X, n
<1> QED
  BY <1>1, <1>11, <1>12 DEF s, n, Surjection

-----------------------------------------------------------------------------
(* The draw and the shopping runs choose by the same rule.                 *)

\* The instances of a module's operators are those of module Pick.
LEMMA SameChoice ==
  /\ \A n, s : G!Index(n, s) = Index(n, s)
  /\ \A i : G!Canonical(i) = Canonical(i)
  /\ \A i, p, b : G!Takes(i, p, b) = Takes(i, p, b) /\ S!Takes(i, p, b) = Takes(i, p, b)
<1>1. \A n, s : G!Index(n, s) = Index(n, s)
  BY Zenon DEF G!Accepted, Accepted, G!Index, Index, G!SelectInSeq, SelectInSeq, G!Min, Min
<1>2. \A i : G!Canonical(i) = Canonical(i)
  BY Zenon DEF G!Canonical, Canonical, G!Place, Place, G!Cardinality, Cardinality
<1>3. \A i, p, b : G!Takes(i, p, b) = Takes(i, p, b)
  BY Zenon DEF G!Takes, Takes, G!Fits, Fits, G!NoItems, NoItems
<1>4. \A i, p, b : S!Takes(i, p, b) = Takes(i, p, b)
  BY Zenon DEF S!Takes, Takes, S!Fits, Fits, S!NoItems, NoItems
<1> QED
  BY <1>1, <1>2, <1>3, <1>4

\* The shuffle is that of module Pick in both.
LEMMA SameShuffle ==
  /\ \A s, i : G!Shuffle(s, i) = Shuffle(s, i)
  /\ \A s, i : S!Shuffle(s, i) = Shuffle(s, i)
<1>1. \A s, i : G!Exchanges(s, i) = Exchanges(s, i)
  BY Zenon DEF G!Exchanges, Exchanges, G!Exchange, Exchange, G!Accepted, Accepted, G!Index, Index,
     G!SelectInSeq, SelectInSeq, G!Min, Min
<1>2. \A s, i : S!Exchanges(s, i) = Exchanges(s, i)
  BY Zenon DEF S!Exchanges, Exchanges, S!Exchange, Exchange, S!Accepted, Accepted, S!Index, Index,
     S!SelectInSeq, SelectInSeq, S!Min, Min
<1>3. \A i : G!Canonical(i) = Canonical(i)
  BY Zenon DEF G!Canonical, Canonical, G!Place, Place, G!Cardinality, Cardinality
<1>4. \A i : S!Canonical(i) = Canonical(i)
  BY Zenon DEF S!Canonical, Canonical, S!Place, Place, S!Cardinality, Cardinality
<1> QED
  BY Zenon, <1>1, <1>2, <1>3, <1>4 DEF G!Shuffle, S!Shuffle, Shuffle

\* The choice within a budget is that of module Pick in both.
LEMMA SameWithin ==
  \A s, i, p, b : G!Within(s, i, p, b) = Within(s, i, p, b) /\ S!Within(s, i, p, b) = Within(s, i, p, b)
BY Zenon, SameChoice, SameShuffle DEF G!Within, S!Within, Within, G!NoItems, S!NoItems, NoItems

\* Sequences of sets and sums are the same in both.
LEMMA SameSums ==
  /\ \A T : G!SetToSeqs(T) = SetToSeqs(T) /\ G!Cardinality(T) = Cardinality(T)
  /\ \A s : G!ToSet(s) = ToSet(s)
  /\ \A T, v : G!Total(T, v) = Total(T, v) /\ S!Total(T, v) = Total(T, v)
<1>1. \A T : G!Cardinality(T) = Cardinality(T) /\ S!Cardinality(T) = Cardinality(T)
  BY Zenon DEF G!Cardinality, S!Cardinality, Cardinality
<1>2. \A s : G!ToSet(s) = ToSet(s)
  BY DEF G!ToSet, ToSet
<1>3. \A T : G!SetToSeqs(T) = SetToSeqs(T)
  BY Zenon, <1>1 DEF G!SetToSeqs, SetToSeqs
<1>4. \A T, v : G!Total(T, v) = Total(T, v) /\ S!Total(T, v) = Total(T, v)
  BY Zenon, <1>1 DEF G!Total, S!Total, Total, G!Units, S!Units, Units
<1> QED
  BY <1>1, <1>2, <1>3, <1>4

-----------------------------------------------------------------------------
(* A draw that can be repeated.                                            *)

\* The member that a stream chooses of the members as they were read.
Winner(stream, members) == Canonical(members)[Index(Len(members), stream).at + 1]

\* The winner is a member, whoever reads the members in whatever order.
LEMMA WinnerRepeats ==
  ASSUME NEW members \in Groups, NEW seed \in Seeds,
         NEW ms \in SetToSeqs(members), NEW others \in SetToSeqs(members)
  PROVE  /\ Winner(seed.winner, ms) \in members
         /\ Winner(seed.winner, ms) = Winner(seed.winner, others)
<1> DEFINE n == Cardinality(members)
           T == members
<1>1. T \in SUBSET Int /\ IsFiniteSet(T) /\ T # {}
  BY GroupsAssumption, KeysAssumption
<1>2. n \in Nat \ {0}
  BY <1>1, FS_CardinalityType, FS_EmptySet
<1>3. ms \in [1..n -> T] /\ others \in [1..n -> T]
  BY <1>1, SequenceOfSet
<1>4. Canonical(ms) = Canonical(others)
  BY <1>1, CanonicalOfSet
<1> HIDE DEF n
<1>5. ms \in [1..n -> Int] /\ others \in [1..n -> Int]
  BY <1>1, <1>3
<1>6. Len(ms) = n /\ Len(others) = n
  BY <1>2, <1>3
<1>7. Lasts(seed.winner, n)
  BY StreamsAssumption DEF n
<1>8. Index(n, seed.winner).at \in 0..n - 1
  <2>1. n \in Nat /\ n \in 1..n
    BY <1>2
  <2> QED
    BY <1>7, <2>1, IndexFits
<1>9. \E p \in Bijection(1..n, 1..n) :
        /\ Canonical(ms) = [k \in 1..n |-> ms[p[k]]]
        /\ \A k \in 1..n : Place(ms, p[k]) = k
  <2>1. n \in Nat
    BY <1>2
  <2> QED
    BY <1>5, <2>1, CanonicalPermutes
<1>10. PICK p \in Bijection(1..n, 1..n) : Canonical(ms) = [k \in 1..n |-> ms[p[k]]]
  BY <1>9
<1>11. \A k \in 1..n : Canonical(ms)[k] \in T
  <2>1. \A k \in 1..n : p[k] \in 1..n
    BY DEF Bijection, Injection
  <2> QED
    BY <1>3, <1>10, <2>1
<1>12. Index(n, seed.winner).at + 1 \in 1..n
  <2> DEFINE a == Index(n, seed.winner).at
  <2> HIDE DEF a
  <2>1. a \in 0..n - 1
    BY <1>8 DEF a
  <2>2. a + 1 \in 1..n
    BY <1>2, <2>1
  <2> QED
    BY <2>2 DEF a
<1> QED
  BY <1>4, <1>6, <1>11, <1>12 DEF Winner

\* The gifts cost what was paid for them, no more than the budget, and
\* nothing more would fit.
Fitting(offer, chosen, total, budget) ==
  /\ chosen \in Seq(DOMAIN offer) /\ total \in Nat /\ total <= budget
  /\ total = Total(ToSet(chosen), [g \in ToSet(chosen) |-> offer[g]])
  /\ \A g \in DOMAIN offer \ ToSet(chosen) : offer[g] = 0 \/ total + offer[g] > budget

\* Nothing is chosen of nothing, or for nothing.
LEMMA NothingFits ==
  ASSUME NEW T, NEW offer \in [T -> Nat], NEW budget \in Nat, T = {} \/ budget = 0
  PROVE  Fitting(offer, <<>>, 0, budget)
<1>1. ToSet(<<>>) = {}
  BY DEF ToSet
<1>2. Total({}, [g \in {} |-> offer[g]]) = 0
  BY TotalEmpty
<1>3. \A g \in T : offer[g] = 0 \/ 0 + offer[g] > budget
  OBVIOUS
<1>4. <<>> \in Seq(DOMAIN offer) /\ DOMAIN offer = T
  OBVIOUS
<1> DEFINE o == [g \in {} |-> offer[g]]
<1>5. \A g \in DOMAIN offer \ {} : offer[g] = 0 \/ 0 + offer[g] > budget
  BY <1>3, <1>4
<1>6. 0 = Total({}, o)
  BY <1>2
<1> HIDE DEF o
<1>7. 0 = Total(ToSet(<<>>), [g \in ToSet(<<>>) |-> offer[g]])
  BY <1>1, <1>6 DEF o
<1> QED
  BY <1>1, <1>4, <1>5, <1>7 DEF Fitting

\* The gifts are the same however the list is ordered.
LEMMA GiftsRepeat ==
  ASSUME NEW T \in SUBSET Products, NEW offer \in [T -> Nat], NEW seed \in Seeds,
         NEW members \in Groups, NEW budget \in Nat,
         NEW items \in SetToSeqs(T), NEW others \in SetToSeqs(T)
  PROVE  /\ Within(seed.gifts, items, offer, budget) = Within(seed.gifts, others, offer, budget)
         /\ Fitting(offer, Within(seed.gifts, items, offer, budget).chosen,
                    Within(seed.gifts, items, offer, budget).total, budget)
<1> DEFINE n == Cardinality(T)
<1>1. T \in SUBSET Int /\ IsFiniteSet(T) /\ IsFiniteSet(Products)
  BY KeysAssumption, FS_Subset
<1>2. n \in Nat /\ n <= Cardinality(Products) /\ Cardinality(Products) \in Nat
  BY <1>1, FS_CardinalityType, FS_Subset
<1>3. items \in [1..n -> T] /\ others \in [1..n -> T]
  BY <1>1, SequenceOfSet
<1>4. n = 0 <=> T = {}
  BY <1>1, FS_EmptySet
<1>5. Canonical(items) = Canonical(others)
  BY <1>1, CanonicalOfSet
<1>6. Lasts(seed.gifts, Cardinality(Products))
  BY StreamsAssumption
<1> HIDE DEF n
<1>7. Len(items) = n /\ Len(others) = n /\ (items = <<>> <=> n = 0) /\ (others = <<>> <=> n = 0)
  BY <1>2, <1>3
<1>8. CASE n = 0 \/ budget = 0
  <2>1. items = <<>> \/ budget <= 0
    BY <1>7, <1>8
  <2>2. others = <<>> \/ budget <= 0
    BY <1>7, <1>8
  <2>3. /\ Within(seed.gifts, items, offer, budget) = NoItems
        /\ Within(seed.gifts, others, offer, budget) = NoItems
    BY <2>1, <2>2 DEF Within
  <2>4. Fitting(offer, <<>>, 0, budget)
    BY <1>4, <1>8, NothingFits
  <2> QED
    BY <2>3, <2>4 DEF NoItems
<1>9. CASE n # 0 /\ budget # 0
  <2> DEFINE s == Shuffle(seed.gifts, items)
             w == Takes(s, offer, budget)[n]
  <2>1. s = Shuffle(seed.gifts, others)
    BY <1>5, <1>7 DEF Shuffle
  <2>2. ~(items = <<>> \/ budget <= 0) /\ ~(others = <<>> \/ budget <= 0)
    BY <1>7, <1>9
  <2>3. Within(seed.gifts, items, offer, budget) = w
    BY <1>7, <2>2 DEF Within
  <2>4. Within(seed.gifts, others, offer, budget) = w
    BY <1>7, <2>1, <2>2 DEF Within
  <2>5. /\ s \in [1..n -> T]
        /\ \A i, j \in 1..n : s[i] = s[j] => i = j
        /\ \A x \in T : \E i \in 1..n : s[i] = x
    <3>1. n <= Cardinality(Products) /\ T # {}
      BY <1>2, <1>4, <1>9
    <3> QED
      BY <1>1, <1>2, <1>6, <3>1, ShuffleOfSet DEF n
  <2> HIDE DEF s
  <2>6. w \in [chosen : Seq(T), total : Nat] /\ TakenOf(s, offer, budget, n, w)
    <3>1. offer \in [T -> Int]
      OBVIOUS
    <3> QED
      BY <1>2, <2>5, <3>1, TakesFit
  <2> HIDE DEF w
  <2> DEFINE c == w.chosen
             m == Len(c)
             v == CostOf(c, offer)
             o == [g \in ToSet(c) |-> offer[g]]
             f == [i \in 1..m |-> c[i]]
  <2>7. c \in Seq(T) /\ m \in Nat /\ w.total \in Nat /\ DOMAIN c = 1..m /\ \A i \in 1..m : c[i] \in T
    BY <2>6
  <2>8. /\ w.total = Total(1..m, v) /\ w.total <= budget
        /\ \A j \in 1..n :
             \/ \E i \in 1..m : c[i] = s[j]
             \/ offer[s[j]] <= 0 \/ w.total + offer[s[j]] > budget
        /\ (\A i, j \in DOMAIN s : s[i] = s[j] => i = j) =>
             \A i, j \in 1..m : c[i] = c[j] => i = j
    BY <2>6 DEF TakenOf
  <2> HIDE DEF c, m
  <2>9. ToSet(c) = {c[i] : i \in 1..m} /\ ToSet(c) \in SUBSET T
    BY <2>7 DEF ToSet
  <2>10. f \in Injection(1..m, ToSet(c)) /\ f \in Surjection(1..m, ToSet(c))
    <3>1. \A i, j \in 1..m : c[i] = c[j] => i = j
      BY <2>5, <2>8
    <3>2. f \in [1..m -> ToSet(c)] /\ \A i \in 1..m : f[i] = c[i]
      BY <2>9
    <3> HIDE DEF f
    <3>3. f \in Injection(1..m, ToSet(c))
      BY <3>1, <3>2 DEF Injection, IsInjective
    <3>4. f \in Surjection(1..m, ToSet(c))
      BY <2>9, <3>2 DEF Surjection
    <3> QED
      BY <3>3, <3>4
  <2>11. Total(1..m, v) = Total(ToSet(c), o)
    <3>1. \A i \in 1..m : v[i] = o[f[i]]
      <4>1. \A i \in 1..m : v[i] = offer[c[i]]
        BY DEF CostOf, m
      <4>2. \A i \in 1..m : f[i] = c[i] /\ c[i] \in ToSet(c)
        BY <2>9
      <4> QED
        BY <4>1, <4>2
    <3>2. IsFiniteSet(ToSet(c)) /\ \A g \in ToSet(c) : o[g] \in Nat
      BY <1>1, <2>9, FS_Subset
    <3> DEFINE A == 1..m
               R == ToSet(c)
    <3> HIDE DEF f, v, o, A, R
    <3>3. /\ IsFiniteSet(R) /\ f \in Injection(A, R) /\ f \in Surjection(A, R)
          /\ (\A i \in A : v[i] = o[f[i]]) /\ \A g \in R : o[g] \in Nat
      BY <2>10, <3>1, <3>2 DEF A, R
    <3>4. Total(A, v) = Total(R, o)
      BY <3>3, TotalOfSome
    <3> QED
      BY <3>4 DEF A, R
  <2>12. ASSUME NEW g \in T \ ToSet(c) PROVE offer[g] = 0 \/ w.total + offer[g] > budget
    <3>1. PICK j \in 1..n : s[j] = g
      BY <2>5
    <3>2. ~\E i \in 1..m : c[i] = s[j]
      BY <2>9, <3>1
    <3>3. offer[g] \in Nat
      OBVIOUS
    <3> QED
      BY <2>8, <3>1, <3>2, <3>3
  <2>13. Fitting(offer, c, w.total, budget)
    BY <2>7, <2>8, <2>11, <2>12 DEF Fitting
  <2> QED
    BY <2>3, <2>4, <2>13 DEF c
<1> QED
  BY <1>2, <1>8, <1>9

-----------------------------------------------------------------------------
(* The inductive invariant of the draw.                                    *)

\* A draw from this offer among these members is what the seed makes of them.
Repeats(d, offer, members, seed) ==
  /\ \A ms \in SetToSeqs(members) : Winner(seed.winner, ms) = d.winner
  /\ \A items \in SetToSeqs(DOMAIN offer) :
       Within(seed.gifts, items, offer, Fee * Cardinality(members)).chosen = d.chosen
  /\ Fitting(offer, d.chosen, d.total, Fee * Cardinality(members))
  /\ d.prices = [g \in ToSet(d.chosen) |-> offer[g]]
  /\ d.payout = Fee * Cardinality(members) - d.total

\* The members and the seed stay; every draw, whether a call has only made it
\* or it is recorded, is what the seed makes of its offer.
DrawInv ==
  /\ pot \in [members : Groups, state : {"READY", "SETTLED", "CANCELLED"},
              arbiter : People \cup {0}, seed : Seeds]
  /\ gifts \in [People -> G!Lists] /\ prices \in [Products -> Prices]
  /\ call \in [Calls -> G!Progress] /\ drawn \in G!Draws \cup {G!NoDraw}
  /\ offered \in G!Offers
  /\ drawn # G!NoDraw => Repeats(drawn, offered, pot.members, pot.seed)
  /\ \A p \in Calls :
       call[p].at = "drawn" => Repeats(call[p].draw, call[p].offer, pot.members, pot.seed)

\* Somebody paid in, so that there is at least an amount.
LEMMA CollectedIsNat ==
  ASSUME NEW members \in Groups
  PROVE  Fee * Cardinality(members) \in Nat
<1>1. IsFiniteSet(members)
  BY GroupsAssumption
<1>2. Cardinality(members) \in Nat
  BY <1>1, FS_CardinalityType
<1>3. Fee \in Nat
  BY PricesAssumption
<1> QED
  BY <1>2, <1>3

\* What a step changes is not what the invariant says of the draws.
LEMMA DrawInvKept ==
  ASSUME DrawInv,
         pot' \in [members : Groups, state : {"READY", "SETTLED", "CANCELLED"},
                   arbiter : People \cup {0}, seed : Seeds],
         pot'.members = pot.members, pot'.seed = pot.seed,
         gifts' \in [People -> G!Lists], prices' \in [Products -> Prices],
         \/ UNCHANGED <<drawn, offered>>
         \/ \E p \in Calls : /\ call[p].at = "drawn"
                            /\ drawn' = call[p].draw /\ offered' = call[p].offer,
         \E p \in Calls : \E c \in {G!NoCall} \cup [at : {"begun", "saved", "payout"}] :
            call' = [call EXCEPT ![p] = c] \/ call' = call
  PROVE  DrawInv'
<1>1. call' \in [Calls -> G!Progress]
  BY DEF DrawInv, G!Progress
<1>2. ASSUME NEW p \in Calls, call'[p].at = "drawn" PROVE call[p].at = "drawn" /\ call'[p] = call[p]
  <2>1. PICK q \in Calls, c \in {G!NoCall} \cup [at : {"begun", "saved", "payout"}] :
          call' = [call EXCEPT ![q] = c] \/ call' = call
    OBVIOUS
  <2>2. c.at # "drawn"
    BY DEF G!NoCall
  <2> QED
    BY <1>2, <2>1, <2>2 DEF DrawInv
<1>3. \A p \in Calls :
        call[p].at = "drawn" => call[p].draw \in G!Draws /\ call[p].offer \in G!Offers
  <2> SUFFICES ASSUME NEW p \in Calls, call[p].at = "drawn"
               PROVE  call[p].draw \in G!Draws /\ call[p].offer \in G!Offers
    OBVIOUS
  <2>1. call[p] \in G!Progress
    BY DEF DrawInv
  <2> QED
    BY <2>1 DEF G!Progress, G!NoCall
<1>4. drawn' \in G!Draws \cup {G!NoDraw} /\ offered' \in G!Offers
  BY <1>3 DEF DrawInv
<1>5. drawn' # G!NoDraw => Repeats(drawn', offered', pot.members, pot.seed)
  BY DEF DrawInv
<1>6. \A p \in Calls :
        call'[p].at = "drawn" => Repeats(call'[p].draw, call'[p].offer, pot.members, pot.seed)
  BY <1>2 DEF DrawInv
<1> QED
  BY <1>1, <1>4, <1>5, <1>6 DEF DrawInv

\* The list of a member costs something and no more than was collected.
LEMMA SetGiftsKeeps ==
  ASSUME DrawInv, NEW u \in Bringers, NEW ps \in SUBSET Products, G!SetGifts(u, ps)
  PROVE  gifts' \in [People -> G!Lists]
<1> DEFINE list == [g \in ps |-> prices[g]]
<1>1. (\A g \in DOMAIN list : list[g] > 0) /\ gifts' = [gifts EXCEPT ![u] = list]
  BY DEF G!SetGifts, G!ValidateGifts, G!ReplaceGifts, G!FetchGift
<1>2. \A g \in ps : prices[g] \in Prices /\ prices[g] # 0
  BY <1>1, PricesAssumption DEF DrawInv
<1>3. list \in [ps -> Prices \ {0}]
  BY <1>2
<1> HIDE DEF list
<1>4. list \in G!Lists
  BY <1>3 DEF G!Lists
<1> QED
  BY <1>1, <1>4 DEF DrawInv

\* A draw that a call makes is what the seed makes of its offer.
LEMMA ChooseRepeats ==
  ASSUME DrawInv, NEW p \in Calls, G!Choose(p)
  PROVE  DrawInv'
<1> DEFINE members == pot.members
           seed == pot.seed
           budget == Fee * Cardinality(members)
<1>1. members \in Groups /\ seed \in Seeds /\ budget \in Nat
  BY CollectedIsNat DEF DrawInv
<1>2. PICK ms \in SetToSeqs(members) :
        LET winner == G!SelectWinner(seed.winner, ms) IN
        \E offer \in G!Offers, items \in G!SetToSeqs(DOMAIN gifts[winner]) :
          /\ G!RefreshPrices(gifts[winner], offer)
          /\ LET set == G!SelectGifts(seed.gifts, items, offer) IN
             G!Becomes(p, [at |-> "drawn", offer |-> offer, draw |->
               [winner |-> winner, chosen |-> set.chosen,
                prices |-> [g \in ToSet(set.chosen) |-> offer[g]],
                total |-> set.total, payout |-> G!Collected - set.total]])
  BY SameSums DEF G!Choose
<1>3. UNCHANGED <<pot, gifts, prices, drawn, offered, gifted>>
  BY DEF G!Choose
<1> DEFINE winner == Winner(seed.winner, ms)
<1>4. G!SelectWinner(seed.winner, ms) = winner
  BY Zenon, SameChoice DEF G!SelectWinner, Winner
<1>5. winner \in members /\ \A others \in SetToSeqs(members) : Winner(seed.winner, others) = winner
  BY <1>1, WinnerRepeats
<1>6. winner \in People
  BY <1>1, <1>5, GroupsAssumption
<1> HIDE DEF winner
<1>7. PICK offer \in G!Offers, items \in SetToSeqs(DOMAIN gifts[winner]) :
        /\ G!RefreshPrices(gifts[winner], offer)
        /\ LET set == G!SelectGifts(seed.gifts, items, offer) IN
           G!Becomes(p, [at |-> "drawn", offer |-> offer, draw |->
             [winner |-> winner, chosen |-> set.chosen,
              prices |-> [g \in ToSet(set.chosen) |-> offer[g]],
              total |-> set.total, payout |-> G!Collected - set.total]])
  BY <1>2, <1>4, SameSums
<1>8. G!Collected = budget
  BY SameSums DEF G!Collected
<1> DEFINE T == DOMAIN offer
           w == Within(seed.gifts, items, offer, budget)
           costs == [g \in ToSet(w.chosen) |-> offer[g]]
           d == [winner |-> winner, chosen |-> w.chosen, prices |-> costs,
                 total |-> w.total, payout |-> budget - w.total]
<1>9. G!SelectGifts(seed.gifts, items, offer) = w
  BY <1>8, SameWithin DEF G!SelectGifts
<1>10. call' = [call EXCEPT ![p] = [at |-> "drawn", offer |-> offer, draw |-> d]]
  BY <1>7, <1>8, <1>9 DEF G!Becomes
<1>11. T = DOMAIN gifts[winner]
  BY <1>7 DEF G!RefreshPrices
<1>12. T \in SUBSET Products /\ offer \in [T -> Prices]
  BY DEF G!Offers
<1>13. offer \in [T -> Nat]
  BY <1>12, PricesAssumption
<1>14. items \in SetToSeqs(T)
  BY <1>11
<1> HIDE DEF T, budget
<1>15. /\ \A others \in SetToSeqs(T) : Within(seed.gifts, others, offer, budget) = w
       /\ Fitting(offer, w.chosen, w.total, budget)
  <2>1. ASSUME NEW others \in SetToSeqs(T)
        PROVE  Within(seed.gifts, others, offer, budget) = w
    BY <1>1, <1>12, <1>13, <1>14, GiftsRepeat
  <2>2. Fitting(offer, w.chosen, w.total, budget)
    BY <1>1, <1>12, <1>13, <1>14, GiftsRepeat
  <2> QED
    BY <2>1, <2>2
<1> HIDE DEF w
<1>16. Repeats(d, offer, members, seed)
  BY <1>5, <1>15 DEF Repeats, T, budget
<1>17. d \in G!Draws
  <2>1. w.chosen \in Seq(T) /\ w.total \in Nat /\ w.total <= budget
    BY <1>15 DEF Fitting, T
  <2>2. w.chosen \in Seq(Products)
    BY <1>12, <2>1
  <2>3. budget - w.total \in Nat
    BY <1>1, <2>1
  <2>4. ToSet(w.chosen) \in SUBSET T
    BY <2>1 DEF ToSet
  <2>5. costs \in [ToSet(w.chosen) -> Prices] /\ ToSet(w.chosen) \in SUBSET Products
    BY <1>12, <2>4
  <2>6. costs \in G!Offers
    BY <2>5 DEF G!Offers
  <2> QED
    BY <1>6, <2>1, <2>2, <2>3, <2>6 DEF G!Draws
<1> HIDE DEF d
<1>18. call' \in [Calls -> G!Progress]
  BY <1>10, <1>17 DEF DrawInv, G!Progress
<1>19. \A q \in Calls :
         call'[q].at = "drawn" => Repeats(call'[q].draw, call'[q].offer, members, seed)
  <2> SUFFICES ASSUME NEW q \in Calls, call'[q].at = "drawn"
               PROVE  Repeats(call'[q].draw, call'[q].offer, members, seed)
    OBVIOUS
  <2>1. CASE q = p
    <3>1. call'[q].draw = d /\ call'[q].offer = offer
      BY <1>10, <2>1 DEF DrawInv
    <3> QED
      BY <1>16, <3>1
  <2>2. CASE q # p
    BY <1>10, <2>2 DEF DrawInv
  <2> QED
    BY <2>1, <2>2
<1> QED
  BY <1>3, <1>18, <1>19 DEF DrawInv

\* Every step of the draw.
LEMMA DrawStepKeeps ==
  ASSUME DrawInv, G!Next
  PROVE  DrawInv'
<1> DEFINE Row == [members : Groups, state : {"READY", "SETTLED", "CANCELLED"},
                   arbiter : People \cup {0}, seed : Seeds]
           Others == {G!NoCall} \cup [at : {"begun", "saved", "payout"}]
           PotKept == pot' \in Row /\ pot'.members = pot.members /\ pot'.seed = pot.seed
           DrawnKept == \/ UNCHANGED <<drawn, offered>>
                        \/ \E p \in Calls : /\ call[p].at = "drawn"
                                           /\ drawn' = call[p].draw /\ offered' = call[p].offer
           CallKept == \E p \in Calls : \E c \in Others : call' = [call EXCEPT ![p] = c] \/ call' = call
<1>1. pot \in Row /\ gifts \in [People -> G!Lists] /\ prices \in [Products -> Prices]
  BY DEF DrawInv
<1>2. ASSUME PotKept, gifts' \in [People -> G!Lists], prices' \in [Products -> Prices],
             DrawnKept, CallKept
      PROVE  DrawInv'
  BY <1>2, DrawInvKept
<1>3. ASSUME PotKept, gifts' \in [People -> G!Lists], prices' \in [Products -> Prices],
             UNCHANGED <<drawn, offered, call>>
      PROVE  DrawInv'
  BY <1>3 DEF DrawInv
<1>4. ASSUME NEW u \in Bringers, u \in pot.members, G!SetArbiter(u) PROVE DrawInv'
  <2>1. u \in People
    BY <1>1, <1>4, GroupsAssumption
  <2>2. PotKept
    BY <1>1, <1>4, <2>1 DEF G!SetArbiter
  <2>3. gifts' \in [People -> G!Lists] /\ prices' \in [Products -> Prices] /\ UNCHANGED <<drawn, offered, call>>
    BY <1>1, <1>4 DEF G!SetArbiter
  <2> HIDE DEF PotKept
  <2> QED
    BY <1>3, <2>2, <2>3
<1>5. ASSUME NEW u \in Bringers, NEW ps \in SUBSET Products, G!SetGifts(u, ps) PROVE DrawInv'
  <2>1. gifts' \in [People -> G!Lists]
    BY <1>5, SetGiftsKeeps
  <2>2. UNCHANGED <<pot, prices, drawn, offered, gifted, call>>
    BY <1>5 DEF G!SetGifts
  <2>3. PotKept /\ prices' \in [Products -> Prices]
    BY <1>1, <2>2
  <2> HIDE DEF PotKept
  <2> QED
    BY <1>3, <2>1, <2>2, <2>3
<1>6. ASSUME NEW g \in Products, NEW price \in Prices, G!PriceChanges(g, price) PROVE DrawInv'
  <2>1. UNCHANGED <<pot, gifts, drawn, offered, gifted, call>> /\ prices' \in [Products -> Prices]
    BY <1>1, <1>6 DEF G!PriceChanges
  <2>2. PotKept /\ gifts' \in [People -> G!Lists]
    BY <1>1, <2>1
  <2> HIDE DEF PotKept
  <2> QED
    BY <1>3, <2>1, <2>2
<1>7. ASSUME NEW p \in Calls, NEW c \in Others, call' = [call EXCEPT ![p] = c], PotKept, DrawnKept,
             UNCHANGED <<gifts, prices>>
      PROVE  DrawInv'
  <2>1. CallKept /\ gifts' \in [People -> G!Lists] /\ prices' \in [Products -> Prices]
    BY <1>1, <1>7
  <2> HIDE DEF PotKept, DrawnKept, CallKept
  <2> QED
    BY <1>2, <1>7, <2>1
<1>8. ASSUME UNCHANGED pot PROVE PotKept
  BY <1>1, <1>8
<1>9. ASSUME UNCHANGED <<drawn, offered>> PROVE DrawnKept
  BY <1>9
<1>10. [at |-> "begun"] \in Others /\ [at |-> "saved"] \in Others
       /\ [at |-> "payout"] \in Others /\ G!NoCall \in Others
  OBVIOUS
<1> HIDE DEF PotKept, DrawnKept, CallKept, Others
<1>11. ASSUME NEW p \in Calls, NEW u, G!Begin(p, u) PROVE DrawInv'
  <2>1. UNCHANGED <<pot, gifts, prices, drawn, offered, gifted>>
    BY <1>11 DEF G!Begin
  <2>2. \E c \in Others : call' = [call EXCEPT ![p] = c]
    BY <1>10, <1>11 DEF G!Begin, G!Becomes
  <2> QED
    BY <1>7, <1>8, <1>9, <2>1, <2>2
<1>12. ASSUME NEW p \in Calls, G!Save(p) PROVE DrawInv'
  <2>1. UNCHANGED <<pot, gifts, prices, gifted>>
    BY <1>12 DEF G!Save
  <2>2. call' = [call EXCEPT ![p] = [at |-> "saved"]]
    BY <1>12 DEF G!Save, G!Becomes
  <2>3. DrawnKept
    BY <1>12 DEF G!Save, G!SaveDraw, DrawnKept
  <2> QED
    BY <1>7, <1>8, <1>10, <2>1, <2>2, <2>3
<1>13. ASSUME NEW p \in Calls, G!Order(p) PROVE DrawInv'
  <2>1. UNCHANGED <<pot, gifts, prices, drawn, offered>>
    BY <1>13 DEF G!Order
  <2>2. call' = [call EXCEPT ![p] = [at |-> "payout"]]
    BY <1>13 DEF G!Order, G!Becomes
  <2> QED
    BY <1>7, <1>8, <1>9, <1>10, <2>1, <2>2
<1>14. ASSUME NEW p \in Calls, G!Payout(p) PROVE DrawInv'
  <2>1. UNCHANGED <<gifts, prices, drawn, offered, gifted>>
    BY <1>14 DEF G!Payout
  <2>2. call' = [call EXCEPT ![p] = G!NoCall]
    BY <1>14 DEF G!Payout, G!Becomes
  <2>3. PotKept
    BY <1>1, <1>14 DEF G!Payout, PotKept
  <2> QED
    BY <1>7, <1>9, <1>10, <2>1, <2>2, <2>3
<1>15. ASSUME NEW p \in Calls, G!Stop(p) PROVE DrawInv'
  <2>1. UNCHANGED <<pot, gifts, prices, drawn, offered, gifted>>
    BY <1>15 DEF G!Stop
  <2>2. call' = [call EXCEPT ![p] = G!NoCall]
    BY <1>15 DEF G!Stop, G!Becomes
  <2> QED
    BY <1>7, <1>8, <1>9, <1>10, <2>1, <2>2
<1>16. ASSUME G!Cancel PROVE DrawInv'
  <2>1. UNCHANGED <<gifts, prices, drawn, offered, gifted, call>>
    BY <1>16 DEF G!Cancel
  <2>2. PotKept
    BY <1>1, <1>16 DEF G!Cancel, PotKept
  <2>3. gifts' \in [People -> G!Lists] /\ prices' \in [Products -> Prices]
    BY <1>1, <2>1
  <2> QED
    BY <1>3, <2>1, <2>2, <2>3
<1>17. ASSUME NEW u \in Bringers, G!SetArbiter(u) PROVE DrawInv'
  BY <1>4, <1>17 DEF G!SetArbiter
<1>18. ASSUME NEW p \in Calls, G!Choose(p) PROVE DrawInv'
  BY <1>18, ChooseRepeats
<1> QED
  BY <1>5, <1>6, <1>11, <1>12, <1>13, <1>14, <1>15, <1>16, <1>17, <1>18 DEF G!Next

\* The invariant of the draw holds at the start, and every step keeps it.
LEMMA DrawInvariant == PotsSpec => []DrawInv
<1>1. PotsInit => DrawInv
  <2> SUFFICES ASSUME PotsInit PROVE DrawInv
    OBVIOUS
  <2>1. G!Init
    BY DEF PotsInit
  <2>2. pot \in [members : Groups, state : {"READY", "SETTLED", "CANCELLED"},
                 arbiter : People \cup {0}, seed : Seeds]
    BY <2>1 DEF G!Init
  <2>3. <<>> \in G!Lists
    <3>1. {} \in SUBSET Products /\ <<>> \in [{} -> Prices \ {0}]
      OBVIOUS
    <3> QED
      BY <3>1 DEF G!Lists
  <2>4. gifts \in [People -> G!Lists] /\ prices \in [Products -> Prices] /\ drawn = G!NoDraw
    BY <2>1, <2>3 DEF G!Init
  <2>6. offered \in G!Offers
    <3>1. {} \in SUBSET Products /\ <<>> \in [{} -> Prices]
      OBVIOUS
    <3> QED
      BY <2>1, <3>1 DEF G!Init, G!Offers
  <2>5. call \in [Calls -> G!Progress] /\ \A p \in Calls : call[p].at # "drawn"
    BY <2>1 DEF G!Init, G!Progress, G!NoCall
  <2> QED
    BY <2>2, <2>4, <2>5, <2>6 DEF DrawInv
<1>2. DrawInv /\ [PotsNext]_pots => DrawInv'
  <2> SUFFICES ASSUME DrawInv, [PotsNext]_pots PROVE DrawInv'
    OBVIOUS
  <2>1. CASE G!Next
    BY <2>1, DrawStepKeeps
  <2>2. CASE UNCHANGED drawVars
    BY <2>2 DEF drawVars, DrawInv
  <2> QED
    BY <2>1, <2>2 DEF PotsNext, CaldronStep, DrawStep, ShoppingStep, pots
<1> QED
  BY <1>1, <1>2, PTL DEF PotsSpec

\* Whichever call recorded it, a draw is what the seed makes of the members, of
\* the list of the winner and of its prices as that call read them: the winner
\* and the gifts do not depend on the order in which they are read, the gifts
\* cost what is recorded and no more than was collected, and none of those
\* left out would still fit (SelectWinner, SelectGifts and SaveDraw).
THEOREM DrawsFollowSeed == PotsSpec => []DrawFollowsSeed
<1>1. DrawInv => DrawFollowsSeed
  <2> SUFFICES ASSUME DrawInv, drawn # G!NoDraw PROVE DrawFollowsSeed
    BY DEF DrawFollowsSeed, G!DrawFollowsSeed
  <2>1. Repeats(drawn, offered, pot.members, pot.seed)
    BY DEF DrawInv
  <2>2. G!Collected = Fee * Cardinality(pot.members)
    BY SameSums DEF G!Collected
  <2> DEFINE budget == Fee * Cardinality(pot.members)
  <2> HIDE DEF budget
  <2>3. ASSUME NEW ms \in G!SetToSeqs(pot.members)
        PROVE  G!SelectWinner(pot.seed.winner, ms) = drawn.winner
    <3>1. ms \in SetToSeqs(pot.members)
      BY SameSums
    <3>2. G!SelectWinner(pot.seed.winner, ms) = Winner(pot.seed.winner, ms)
      BY Zenon, SameChoice DEF G!SelectWinner, Winner
    <3> QED
      BY <2>1, <3>1, <3>2 DEF Repeats
  <2>4. ASSUME NEW items \in G!SetToSeqs(DOMAIN offered)
        PROVE  G!SelectGifts(pot.seed.gifts, items, offered).chosen = drawn.chosen
    <3>1. items \in SetToSeqs(DOMAIN offered)
      BY SameSums
    <3>2. G!SelectGifts(pot.seed.gifts, items, offered) = Within(pot.seed.gifts, items, offered, budget)
      BY <2>2, SameWithin DEF G!SelectGifts, budget
    <3> QED
      BY <2>1, <3>1, <3>2 DEF Repeats, budget
  <2> DEFINE o == [g \in ToSet(drawn.chosen) |-> offered[g]]
  <2>5. DOMAIN o = ToSet(drawn.chosen) /\ drawn.prices = o
    BY <2>1 DEF Repeats
  <2>6. Fitting(offered, drawn.chosen, drawn.total, budget)
    BY <2>1 DEF Repeats, budget
  <2>7. drawn.total = Total(DOMAIN o, o)
    BY <2>5, <2>6 DEF Fitting
  <2>8. drawn.total = G!PriceOf(drawn.prices)
    BY Zenon, <2>5, <2>7, SameSums DEF G!PriceOf
  <2>9. /\ drawn.total <= budget
        /\ \A g \in DOMAIN offered \ G!ToSet(drawn.chosen) :
             offered[g] = 0 \/ drawn.total + offered[g] > budget
    BY <2>6, SameSums DEF Fitting
  <2>10. drawn.prices = [g \in G!ToSet(drawn.chosen) |-> offered[g]]
    BY <2>5, SameSums
  <2>11. drawn.payout = budget - drawn.total
    BY <2>1 DEF Repeats, budget
  <2> HIDE DEF o
  <2> QED
    BY <2>2, <2>3, <2>4, <2>8, <2>9, <2>10, <2>11 DEF DrawFollowsSeed, G!DrawFollowsSeed, budget
<1> QED
  BY <1>1, DrawInvariant, PTL

-----------------------------------------------------------------------------
(* Shopping runs.                                                          *)

\* How many products of a run have been passed.
Passed(row) == Len(row.chosen) - Len(row.left)

\* What is chosen is worth something and not more than the budget.
ChosenInv(row) ==
  /\ Len(row.chosen) <= MaxItems
  /\ \A i \in 1..Len(row.chosen) : Price[row.chosen[i]] > 0
  /\ row.total = Total(1..Len(row.chosen), CostOf(row.chosen, Price)) /\ row.total <= row.budget

\* What is left is the end of what was chosen, and only what was passed has
\* been ordered and spent for.
LeftInv(row) ==
  /\ Len(row.left) <= Len(row.chosen)
  /\ \A i \in 1..Len(row.left) : row.left[i] = row.chosen[Passed(row) + i]
  /\ row.spent <= Total(1..Passed(row), CostOf(row.chosen, Price))
  /\ row.ordered <= Passed(row)

\* A run that has ordered as often as it has passed a product has ordered
\* each of them.
OrderedInv(r, row, ors) ==
  /\ row.ordered = Passed(row) => \A i \in 1..Passed(row) : ors[<<r, row.chosen[i]>>] > 0
  /\ row.at \in {"ordered", "paid", "unpaid"} => ors[<<r, Head(row.left)>>] > 0
  /\ row.state = "DONE" => \A i \in 1..Len(row.chosen) : ors[<<r, row.chosen[i]>>] > 0

\* Only what was chosen and ordered is charged, and what was charged is
\* counted as ordered, or will be.
ChargedInv(r, row, ors, ch) ==
  /\ \A p \in Products : <<r, p>> \in ch =>
       (\E i \in 1..Len(row.chosen) : row.chosen[i] = p) /\ ors[<<r, p>>] > 0
  /\ row.at = "paid" => <<r, Head(row.left)>> \in ch
  /\ (\E p \in Products : <<r, p>> \in ch) =>
       row.at \in {"paid", "unpaid", "over"} \/ (row.ordered > 0 /\ row.at # "chosen")
  /\ row.state = "EMPTY" => row.at = "over" /\ \A p \in Products : <<r, p>> \notin ch

\* The last row is that of the product at hand.
PurchasedInv(row, ps) ==
  row.at \in {"recorded", "ordered", "paid", "unpaid"} =>
    row.left # <<>> /\ ps # <<>> /\ ps[Len(ps)].product = Head(row.left)

\* A row that says paid was charged.
PaidInv(r, ps, ch) == \A i \in 1..Len(ps) : ps[i].paid => <<r, ps[i].product>> \in ch

\* All of this, of one run.
RunInv(r, row, ps, ors, ch) ==
  /\ PaidInv(r, ps, ch)
  /\ row = S!NoRun => \A p \in Products : <<r, p>> \notin ch
  /\ row # S!NoRun =>
       /\ ChosenInv(row) /\ LeftInv(row) /\ OrderedInv(r, row, ors)
       /\ ChargedInv(r, row, ors, ch) /\ PurchasedInv(row, ps)

\* The invariant of the shopping runs.
ShoppingInv == S!TypeOK /\ \A r \in Runs : RunInv(r, run[r], purchases[r], bought, charged)

\* A run is not disturbed by what another one orders and is charged for.
LEMMA OthersDoNotDisturb ==
  ASSUME NEW r \in Runs, NEW row \in {S!NoRun} \cup S!RunRow, NEW ps, NEW ors, NEW ch, NEW ors2, NEW ch2,
         RunInv(r, row, ps, ors, ch),
         \A p \in Products : ors[<<r, p>>] > 0 => ors2[<<r, p>>] > 0,
         \A p \in Products : <<r, p>> \in ch <=> <<r, p>> \in ch2,
         ps \in Seq([product : Products, ordered : BOOLEAN, paid : BOOLEAN])
  PROVE  RunInv(r, row, ps, ors2, ch2)
<1>1. \A i \in 1..Len(ps) : ps[i].product \in Products
  <2> DEFINE Rows == [product : Products, ordered : BOOLEAN, paid : BOOLEAN]
  <2> HIDE DEF Rows
  <2>1. ps \in Seq(Rows)
    BY DEF Rows
  <2>2. \A i \in 1..Len(ps) : ps[i] \in Rows
    BY <2>1
  <2> QED
    BY <2>2 DEF Rows
<1>2. PaidInv(r, ps, ch2)
  BY <1>1 DEF RunInv, PaidInv
<1>3. CASE row = S!NoRun
  BY <1>2, <1>3 DEF RunInv
<1>4. CASE row # S!NoRun
  <2>1. row \in S!RunRow /\ row.chosen \in Seq(Products) /\ row.left \in Seq(Products)
    BY <1>4 DEF S!RunRow
  <2>2. ChosenInv(row) /\ LeftInv(row) /\ OrderedInv(r, row, ors) /\ ChargedInv(r, row, ors, ch) /\ PurchasedInv(row, ps)
    BY <1>4 DEF RunInv
  <2>3. Passed(row) \in Nat /\ Passed(row) <= Len(row.chosen)
    <3>1. Len(row.chosen) \in Nat /\ Len(row.left) \in Nat
      BY <2>1
    <3>2. Len(row.left) <= Len(row.chosen)
      BY <2>2 DEF LeftInv
    <3> DEFINE a == Len(row.chosen)
               b == Len(row.left)
    <3> HIDE DEF a, b
    <3>3. a \in Nat /\ b \in Nat /\ b <= a
      BY <3>1, <3>2 DEF a, b
    <3>4. a - b \in Nat /\ a - b <= a
      BY <3>3
    <3> QED
      BY <3>4 DEF Passed, a, b
  <2>4. \A i \in 1..Len(row.chosen) : row.chosen[i] \in Products
    BY <2>1
  <2>4a. \A i \in 1..Passed(row) : i \in 1..Len(row.chosen)
    BY <2>1, <2>3
  <2>5. row.at \in {"ordered", "paid", "unpaid"} => Head(row.left) \in Products
    BY <2>1, <2>2 DEF PurchasedInv
  <2>6. OrderedInv(r, row, ors2)
    BY <2>2, <2>4, <2>4a, <2>5 DEF OrderedInv
  <2>7. ChargedInv(r, row, ors2, ch2)
    BY <2>2, <2>5 DEF ChargedInv
  <2> QED
    BY <1>2, <1>4, <2>2, <2>6, <2>7 DEF RunInv
<1> QED
  BY <1>3, <1>4

\* One run changes.
LEMMA OneRunChanges ==
  ASSUME ShoppingInv, S!TypeOK', NEW r \in Runs, NEW row, run' = [run EXCEPT ![r] = row],
         NEW ps, purchases' = [purchases EXCEPT ![r] = ps],
         \A q \in Runs : \A p \in Products : bought[<<q, p>>] > 0 => bought'[<<q, p>>] > 0,
         \A q \in Runs \ {r} : \A p \in Products : <<q, p>> \in charged <=> <<q, p>> \in charged',
         RunInv(r, row, ps, bought', charged')
  PROVE  ShoppingInv'
<1>1. ASSUME NEW q \in Runs PROVE RunInv(q, run'[q], purchases'[q], bought', charged')
  <2>1. CASE q = r
    <3>1. run'[q] = row /\ purchases'[q] = ps
      BY <2>1 DEF ShoppingInv, S!TypeOK
    <3> QED
      BY <2>1, <3>1
  <2>2. CASE q # r
    <3>1. run'[q] = run[q] /\ purchases'[q] = purchases[q]
      BY <2>2 DEF ShoppingInv, S!TypeOK
    <3>2. /\ run[q] \in {S!NoRun} \cup S!RunRow
          /\ purchases[q] \in Seq([product : Products, ordered : BOOLEAN, paid : BOOLEAN])
      BY DEF ShoppingInv, S!TypeOK
    <3>3. RunInv(q, run[q], purchases[q], bought, charged)
      BY DEF ShoppingInv
    <3>4. RunInv(q, run[q], purchases[q], bought', charged')
      BY <2>2, <3>2, <3>3, OthersDoNotDisturb
    <3> QED
      BY <3>1, <3>4
  <2> QED
    BY <2>1, <2>2
<1> QED
  BY <1>1 DEF ShoppingInv

\* What a seed chooses within a budget.
LEMMA ChoiceWithinBudget ==
  ASSUME NEW n \in 1..MaxItems, NEW items \in [1..n -> Products], NEW stream \in Streams,
         NEW budget \in Budgets,
         NEW w, w = Within(stream, items, Price, budget)
  PROVE  /\ w.chosen \in Seq(Products) /\ w.total \in Nat
         /\ Len(w.chosen) <= MaxItems
         /\ \A i \in 1..Len(w.chosen) : Price[w.chosen[i]] > 0
         /\ w.total = Total(1..Len(w.chosen), CostOf(w.chosen, Price)) /\ w.total <= budget
<1>1. MaxItems \in Nat /\ budget \in Nat \ {0} /\ Price \in [Products -> Int]
  BY PricesAssumption
<1>2. n \in Nat \ {0} /\ n <= MaxItems
  BY <1>1
<1>3. Len(items) = n /\ items # <<>>
  BY <1>2
<1> DEFINE s == Shuffle(stream, items)
<1>4. w = Takes(s, Price, budget)[n]
  BY <1>1, <1>3 DEF Within
<1>5. Lasts(stream, MaxItems)
  BY StreamsAssumption
<1>6. Products \in SUBSET Int
  BY KeysAssumption
<1>7. s \in [1..n -> Products]
  BY <1>1, <1>2, <1>5, <1>6, ShuffleStays
<1> HIDE DEF s
<1>8. w \in [chosen : Seq(Products), total : Nat] /\ TakenOf(s, Price, budget, n, w)
  <2>1. n \in Nat /\ budget \in Nat /\ Price \in [Products -> Int]
    BY <1>1, <1>2
  <2> DEFINE z == Takes(s, Price, budget)[n]
  <2>2. z \in [chosen : Seq(Products), total : Nat] /\ TakenOf(s, Price, budget, n, z)
    BY <1>7, <2>1, TakesFit
  <2> QED
    BY <1>4, <2>2
<1>9. w.chosen \in Seq(Products) /\ w.total \in Nat /\ Len(w.chosen) \in Nat
  BY <1>8
<1> QED
  BY <1>1, <1>2, <1>8, <1>9 DEF TakenOf

\* What is known of a run that has been started.
Started(r, row) ==
  /\ row \in S!RunRow /\ row # S!NoRun
  /\ ChosenInv(row) /\ LeftInv(row) /\ OrderedInv(r, row, bought)
  /\ ChargedInv(r, row, bought, charged) /\ PurchasedInv(row, purchases[r])
  /\ PaidInv(r, purchases[r], charged)

\* A run that is at a product was started.
LEMMA RunIsStarted ==
  ASSUME ShoppingInv, NEW r \in Runs, run[r].at # "none"
  PROVE  Started(r, run[r])
<1>1. run[r] # S!NoRun
  BY DEF S!NoRun
<1>2. run[r] \in S!RunRow
  BY <1>1 DEF ShoppingInv, S!TypeOK
<1>3. RunInv(r, run[r], purchases[r], bought, charged)
  BY DEF ShoppingInv
<1> QED
  BY <1>1, <1>2, <1>3 DEF RunInv, Started

\* The product at hand is the first that has not been passed.
LEMMA AtHand ==
  ASSUME NEW row \in S!RunRow, ChosenInv(row), LeftInv(row)
  PROVE  /\ row.chosen \in Seq(Products) /\ row.left \in Seq(Products)
         /\ Len(row.chosen) \in Nat /\ Len(row.left) \in Nat
         /\ Passed(row) \in Nat /\ Passed(row) <= Len(row.chosen)
         /\ Passed(row) = Len(row.chosen) - Len(row.left)
         /\ row.left = <<>> => Passed(row) = Len(row.chosen)
         /\ row.left # <<>> =>
              /\ Tail(row.left) \in Seq(Products) /\ Len(Tail(row.left)) = Len(row.left) - 1
              /\ Len(row.left) > 0 /\ Passed(row) + 1 <= Len(row.chosen)
              /\ Head(row.left) = row.left[1] /\ Head(row.left) \in Products
              /\ Head(row.left) = row.chosen[Passed(row) + 1]
              /\ Price[Head(row.left)] \in Nat /\ Price[Head(row.left)] > 0
         /\ \A i \in 1..Len(row.chosen) : Price[row.chosen[i]] \in Nat
<1> DEFINE c == row.chosen
           l == row.left
           m == Len(c)
           n == Len(l)
<1>1. c \in Seq(Products) /\ l \in Seq(Products)
  BY DEF S!RunRow
<1>2. m \in Nat /\ n \in Nat /\ (l # <<>> => n > 0) /\ (l = <<>> => n = 0)
  <2> HIDE DEF l, c
  <2> QED
    BY <1>1
<1>3. \A i \in 1..m : c[i] \in Products
  <2> HIDE DEF c
  <2> QED
    BY <1>1
<1>4. l # <<>> => /\ Tail(l) \in Seq(Products) /\ Len(Tail(l)) = n - 1
                  /\ Head(l) = l[1] /\ Head(l) \in Products
  <2> HIDE DEF l
  <2> QED
    BY <1>1
<1>5. /\ n <= m /\ Passed(row) = m - n
      /\ \A i \in 1..n : l[i] = c[Passed(row) + i]
      /\ \A i \in 1..m : Price[c[i]] > 0
  BY DEF LeftInv, ChosenInv, Passed
<1>6. Price \in [Products -> Int]
  BY PricesAssumption
<1> DEFINE d == Passed(row)
<1> HIDE DEF m, n, c, l, d
<1>7. d = m - n /\ d \in Nat /\ d <= m /\ (n = 0 => d = m) /\ (n > 0 => d + 1 <= m)
  BY <1>2, <1>5 DEF d
<1>8. \A i \in 1..m : Price[c[i]] \in Nat
  BY <1>3, <1>5, <1>6
<1>9. n > 0 => l[1] = c[d + 1] /\ Price[l[1]] \in Nat /\ Price[l[1]] > 0
  <2> SUFFICES ASSUME n > 0 PROVE l[1] = c[d + 1] /\ Price[l[1]] \in Nat /\ Price[l[1]] > 0
    OBVIOUS
  <2>1. 1 \in 1..n /\ d + 1 \in 1..m
    BY <1>2, <1>7
  <2>2. l[1] = c[d + 1]
    BY <1>5, <2>1 DEF d
  <2> QED
    BY <1>5, <1>8, <2>1, <2>2
<1> QED
  BY <1>1, <1>2, <1>4, <1>7, <1>8, <1>9 DEF c, l, m, n, d

\* A run keeps what it has chosen.
LEMMA ChosenStays ==
  ASSUME NEW row, NEW new, ChosenInv(row), new.chosen = row.chosen, new.total = row.total,
         new.budget = row.budget
  PROVE  ChosenInv(new)
BY DEF ChosenInv

\* While a product is at hand, nothing is passed.
LEMMA LeftStays ==
  ASSUME NEW row \in S!RunRow, NEW new \in S!RunRow, ChosenInv(row), LeftInv(row), new.chosen = row.chosen,
         new.left = row.left, new.ordered = row.ordered, new.spent <= row.spent
  PROVE  LeftInv(new) /\ Passed(new) = Passed(row)
<1>1. Passed(new) = Passed(row)
  BY DEF Passed
<1> DEFINE t == Total(1..Passed(row), CostOf(row.chosen, Price))
<1>2. row.spent \in Nat /\ new.spent \in Nat /\ row.spent <= t
  BY DEF S!RunRow, LeftInv
<1>3. t \in Nat
  <2> DEFINE d == Passed(row)
             v == CostOf(row.chosen, Price)
  <2>1. d \in Nat /\ d <= Len(row.chosen) /\ Len(row.chosen) \in Nat
        /\ \A i \in 1..Len(row.chosen) : Price[row.chosen[i]] \in Nat
    BY AtHand
  <2> HIDE DEF d
  <2>2. \A i \in 1..d : v[i] \in Nat
    BY <2>1 DEF CostOf
  <2>3. IsFiniteSet(1..d)
    BY <2>1, FS_Interval
  <2> HIDE DEF v
  <2>4. Total(1..d, v) \in Nat
    BY <2>2, <2>3, TotalIsNat
  <2> QED
    BY <2>4 DEF d, v
<1> HIDE DEF t
<1>4. new.spent <= t
  BY <1>2, <1>3
<1> QED
  BY <1>1, <1>4 DEF LeftInv, t

\* A product is passed: what was spent and ordered grows by what it was.
LEMMA LeftMoves ==
  ASSUME NEW row \in S!RunRow, NEW new \in S!RunRow, ChosenInv(row), LeftInv(row), row.left # <<>>,
         new.chosen = row.chosen, new.left = Tail(row.left),
         new.spent <= row.spent + Price[Head(row.left)], new.ordered <= row.ordered + 1
  PROVE  LeftInv(new) /\ Passed(new) = Passed(row) + 1
<1> DEFINE c == row.chosen
           l == row.left
           d == Passed(row)
           v == CostOf(row.chosen, Price)
           cost == Price[Head(row.left)]
<1>1. /\ c \in Seq(Products) /\ l \in Seq(Products) /\ l # <<>>
      /\ Len(c) \in Nat /\ Len(l) \in Nat /\ Len(l) > 0 /\ d \in Nat /\ d + 1 <= Len(c) /\ d = Len(c) - Len(l)
      /\ Len(Tail(l)) = Len(l) - 1 /\ cost = Price[c[d + 1]] /\ cost \in Nat
      /\ \A i \in 1..Len(c) : Price[c[i]] \in Nat
  BY AtHand
<1>2. /\ row.spent \in Nat /\ new.spent \in Nat /\ row.ordered \in Nat /\ new.ordered \in Nat
      /\ row.spent <= Total(1..d, v) /\ row.ordered <= d
      /\ \A i \in 1..Len(l) : l[i] = c[d + i]
  BY PricesAssumption DEF S!RunRow, LeftInv
<1>3. Passed(new) = d + 1
  <2>1. Passed(new) = Len(c) - Len(Tail(l))
    BY DEF Passed
  <2> DEFINE a == Len(c)
             b == Len(l)
  <2> HIDE DEF c, l, d, a, b
  <2>2. a \in Nat /\ b \in Nat /\ d = a - b /\ Passed(new) = a - (b - 1)
    BY <1>1, <2>1 DEF a, b
  <2> QED
    BY <2>2
<1> HIDE DEF c, l, d, cost
<1>4. \A i \in 1..d + 1 : v[i] \in Nat
  <2>1. \A i \in 1..d + 1 : i \in 1..Len(c)
    BY <1>1
  <2> QED
    BY <1>1, <2>1 DEF CostOf, c
<1>5. v[d + 1] = cost
  <2>1. d + 1 \in 1..Len(c)
    BY <1>1
  <2> QED
    BY <1>1, <2>1 DEF CostOf, c
<1> HIDE DEF v
<1>6. Total(1..d + 1, v) = Total(1..d, v) + cost /\ Total(1..d, v) \in Nat
  <2> DEFINE A == 1..d
             k == d + 1
  <2>0. d \in Nat
    BY <1>1
  <2>1a. IsFiniteSet(A)
    BY <2>0, FS_Interval
  <2>1. IsFiniteSet(A) /\ 1..d + 1 = A \cup {k} /\ k \notin A
    BY <2>0, <2>1a
  <2>2. \A i \in A \cup {k} : v[i] \in Nat
    BY <1>4, <2>1
  <2> HIDE DEF A, k
  <2>3. Total(A \cup {k}, v) = Total(A, v) + v[k]
    BY <2>1, <2>2, TotalAdd
  <2>4. Total(A, v) \in Nat
    BY <2>1, <2>2, TotalIsNat
  <2> QED
    BY <1>5, <2>1, <2>3, <2>4 DEF A, k
<1>7. new.spent <= Total(1..d + 1, v)
  BY <1>1, <1>2, <1>6 DEF cost
<1>8. new.ordered <= d + 1
  BY <1>1, <1>2
<1>9. Len(new.left) <= Len(c)
  <2> DEFINE a == Len(c)
             b == Len(l)
  <2>1. a \in Nat /\ b \in Nat /\ b <= a /\ b > 0 /\ Len(new.left) = b - 1
    <3>1. Len(new.left) = Len(l) - 1
      BY <1>1 DEF l
    <3> QED
      BY <1>1, <3>1
  <2> HIDE DEF a, b
  <2>2. b - 1 <= a
    BY <2>1
  <2> QED
    BY <2>1, <2>2 DEF a
<1>10. ASSUME NEW i \in 1..Len(new.left) PROVE new.left[i] = c[(d + 1) + i]
  <2>1. new.left = Tail(l)
    BY DEF l
  <2>2. i \in 1..Len(l) - 1
    BY <1>1, <2>1
  <2>3. Tail(l)[i] = l[i + 1] /\ i + 1 \in 1..Len(l)
    BY <1>1, <2>2
  <2>4. l[i + 1] = c[d + (i + 1)]
    BY <1>2, <2>3
  <2>5. d + (i + 1) = (d + 1) + i
    BY <1>1, <2>2
  <2> QED
    BY <2>1, <2>3, <2>4, <2>5
<1>11. new.chosen = c /\ v = CostOf(new.chosen, Price)
  BY DEF c, v
<1>12. Len(new.left) <= Len(new.chosen)
  BY <1>9, <1>11
<1>13. new.spent <= Total(1..Passed(new), CostOf(new.chosen, Price))
  BY <1>3, <1>7, <1>11
<1>14. new.ordered <= Passed(new)
  BY <1>3, <1>8
<1>15. \A i \in 1..Len(new.left) : new.left[i] = new.chosen[Passed(new) + i]
  BY <1>3, <1>10, <1>11
<1>16. LeftInv(new)
  BY Zenon, <1>12, <1>13, <1>14, <1>15 DEF LeftInv
<1> QED
  BY <1>3, <1>16 DEF d

\* The rows of a run.
PurchaseRow == [product : Products, ordered : BOOLEAN, paid : BOOLEAN]

\* A step of one run keeps the invariant, if it does so for that run.
LEMMA RunChanges ==
  ASSUME ShoppingInv, NEW r \in Runs, NEW new \in S!RunRow, run' = [run EXCEPT ![r] = new],
         NEW ps \in Seq(PurchaseRow), purchases' = [purchases EXCEPT ![r] = ps],
         bought' \in [Runs \X Products -> Nat], charged' \subseteq Runs \X Products, funds' \in 0..MaxFunds,
         \A q \in Runs : \A p \in Products : bought[<<q, p>>] > 0 => bought'[<<q, p>>] > 0,
         \A q \in Runs \ {r} : \A p \in Products : <<q, p>> \in charged <=> <<q, p>> \in charged',
         PaidInv(r, ps, charged'), ChosenInv(new), LeftInv(new), OrderedInv(r, new, bought'),
         ChargedInv(r, new, bought', charged'), PurchasedInv(new, ps), new # S!NoRun
  PROVE  ShoppingInv'
<1>1. RunInv(r, new, ps, bought', charged')
  BY DEF RunInv
<1>2. run' \in [Runs -> {S!NoRun} \cup S!RunRow]
  BY DEF ShoppingInv, S!TypeOK
<1>3. purchases' \in [Runs -> Seq(PurchaseRow)]
  BY DEF ShoppingInv, S!TypeOK, PurchaseRow
<1>4. S!TypeOK'
  BY <1>2, <1>3 DEF S!TypeOK, PurchaseRow
<1> QED
  BY <1>1, <1>4, OneRunChanges

\* A started run has its place.
LEMMA RowHasPlace ==
  ASSUME NEW new \in S!RunRow
  PROVE  new # S!NoRun
BY DEF S!RunRow, S!NoRun, S!Places

\* A run that comes to another place, with nothing ordered or charged.
LEMMA PlaceChanges ==
  ASSUME ShoppingInv, NEW r \in Runs, Started(r, run[r]), NEW new \in S!RunRow,
         run' = [run EXCEPT ![r] = new], UNCHANGED <<purchases, bought, charged, funds>>,
         new.chosen = run[r].chosen, new.left = run[r].left, new.ordered = run[r].ordered,
         new.total = run[r].total, new.budget = run[r].budget, new.spent <= run[r].spent,
         \/ new.at = "over"
         \/ new.at = "buying" /\ \A p \in Products : <<r, p>> \notin charged,
         new.state = "DONE" =>
            run[r].state = "DONE" \/ (run[r].left = <<>> /\ run[r].ordered >= Len(run[r].chosen)),
         new.state = "EMPTY" => new.at = "over" /\ \A p \in Products : <<r, p>> \notin charged
  PROVE  ShoppingInv'
<1> DEFINE row == run[r]
<1>1. ChosenInv(row) /\ LeftInv(row) /\ OrderedInv(r, row, bought) /\ row \in S!RunRow
      /\ ChargedInv(r, row, bought, charged) /\ PaidInv(r, purchases[r], charged)
  BY DEF Started
<1>2. ChosenInv(new)
  BY <1>1, ChosenStays
<1>3. LeftInv(new) /\ Passed(new) = Passed(row)
  BY <1>1, LeftStays
<1>4. ASSUME row.left = <<>>, row.ordered >= Len(row.chosen)
      PROVE  row.ordered = Passed(row) /\ Passed(row) = Len(row.chosen)
  <2>1. Passed(row) = Len(row.chosen) /\ Passed(row) \in Nat
    BY <1>1, <1>4, AtHand
  <2>2. row.ordered <= Passed(row) /\ row.ordered \in Nat
    BY <1>1, PricesAssumption DEF LeftInv, S!RunRow
  <2> QED
    BY <1>4, <2>1, <2>2
<1>5. OrderedInv(r, new, bought)
  <2>1. new.state = "DONE" => \A i \in 1..Len(row.chosen) : bought[<<r, row.chosen[i]>>] > 0
    BY <1>1, <1>4 DEF OrderedInv
  <2> QED
    BY <1>1, <1>3, <2>1 DEF OrderedInv
<1>6. ChargedInv(r, new, bought, charged)
  BY <1>1 DEF ChargedInv
<1>7. PurchasedInv(new, purchases[r])
  BY DEF PurchasedInv
<1>8. purchases[r] \in Seq(PurchaseRow) /\ purchases' = [purchases EXCEPT ![r] = purchases[r]]
      /\ bought' \in [Runs \X Products -> Nat] /\ charged' \subseteq Runs \X Products /\ funds' \in 0..MaxFunds
  BY DEF ShoppingInv, S!TypeOK, PurchaseRow
<1>9. OrderedInv(r, new, bought') /\ ChargedInv(r, new, bought', charged') /\ PaidInv(r, purchases[r], charged')
  BY <1>1, <1>5, <1>6
<1> QED
  BY <1>2, <1>3, <1>7, <1>8, <1>9, RunChanges, RowHasPlace

\* Nothing was chosen: the run is over, and empty.
LEMMA ChooseNothingKeeps ==
  ASSUME ShoppingInv, NEW r \in Runs, S!ChooseNothing(r)
  PROVE  ShoppingInv'
<1> DEFINE row == run[r]
           new == [row EXCEPT !.at = "over", !.state = "EMPTY"]
<1>1. Started(r, row) /\ row.at = "chosen"
  BY RunIsStarted DEF S!ChooseNothing
<1>2. run' = [run EXCEPT ![r] = new] /\ UNCHANGED <<purchases, bought, charged, funds>>
  BY DEF S!ChooseNothing, ShoppingInv, S!TypeOK
<1>3. new \in S!RunRow
  BY <1>1 DEF Started, S!RunRow, S!Places
<1>4. /\ new.chosen = row.chosen /\ new.left = row.left /\ new.ordered = row.ordered
      /\ new.total = row.total /\ new.budget = row.budget /\ new.spent = row.spent
      /\ new.at = "over" /\ new.state = "EMPTY" /\ row.spent \in Nat
  BY <1>1 DEF Started, S!RunRow
<1>5. \A p \in Products : <<r, p>> \notin charged
  BY <1>1 DEF Started, ChargedInv
<1> HIDE DEF new
<1>6. new.spent <= row.spent
  BY <1>4
<1> QED
  BY <1>1, <1>2, <1>3, <1>4, <1>5, <1>6, PlaceChanges

\* The run goes shopping with what was chosen.
LEMMA GoShoppingKeeps ==
  ASSUME ShoppingInv, NEW r \in Runs, S!GoShopping(r)
  PROVE  ShoppingInv'
<1> DEFINE row == run[r]
           new == [row EXCEPT !.at = "buying"]
<1>1. Started(r, row) /\ row.at = "chosen"
  BY RunIsStarted DEF S!GoShopping
<1>2. run' = [run EXCEPT ![r] = new] /\ UNCHANGED <<purchases, bought, charged, funds>>
  BY DEF S!GoShopping, ShoppingInv, S!TypeOK
<1>3. new \in S!RunRow
  BY <1>1 DEF Started, S!RunRow, S!Places
<1>4. /\ new.chosen = row.chosen /\ new.left = row.left /\ new.ordered = row.ordered
      /\ new.total = row.total /\ new.budget = row.budget /\ new.spent = row.spent
      /\ new.at = "buying" /\ new.state = row.state /\ row.spent \in Nat
  BY <1>1 DEF Started, S!RunRow
<1>5. \A p \in Products : <<r, p>> \notin charged
  BY <1>1 DEF Started, ChargedInv
<1>6. row.state # "EMPTY"
  BY <1>1 DEF Started, ChargedInv
<1> HIDE DEF new
<1>7. new.spent <= row.spent
  BY <1>4
<1> QED
  BY <1>1, <1>2, <1>3, <1>4, <1>5, <1>6, <1>7, PlaceChanges

\* The service stops, and a run stays where it is.
LEMMA StopKeeps ==
  ASSUME ShoppingInv, NEW r \in Runs, S!Stop(r)
  PROVE  ShoppingInv'
<1> DEFINE row == run[r]
           new == [row EXCEPT !.at = "over", !.spent = 0]
<1>1. Started(r, row) /\ row.at # "over"
  <2>1. row.at # "none" /\ row.at # "over"
    BY DEF S!Stop, S!Places
  <2> QED
    BY <2>1, RunIsStarted
<1>2. run' = [run EXCEPT ![r] = new] /\ UNCHANGED <<purchases, bought, charged, funds>>
  BY DEF S!Stop, ShoppingInv, S!TypeOK
<1>3. new \in S!RunRow
  BY <1>1 DEF Started, S!RunRow, S!Places
<1>4. /\ new.chosen = row.chosen /\ new.left = row.left /\ new.ordered = row.ordered
      /\ new.total = row.total /\ new.budget = row.budget /\ new.spent = 0
      /\ new.at = "over" /\ new.state = row.state /\ row.spent \in Nat
  BY <1>1 DEF Started, S!RunRow
<1>5. row.state # "EMPTY"
  BY <1>1 DEF Started, ChargedInv
<1> HIDE DEF new
<1>6. new.spent <= row.spent
  BY <1>4
<1> QED
  BY <1>1, <1>2, <1>3, <1>4, <1>5, <1>6, PlaceChanges

\* No product is left, and the run is over.
LEMMA FinishRunKeeps ==
  ASSUME ShoppingInv, NEW r \in Runs, S!FinishRun(r)
  PROVE  ShoppingInv'
<1> DEFINE row == run[r]
           outcome == S!Outcome(row.ordered, Len(row.chosen))
           new == [row EXCEPT !.at = "over", !.state = outcome]
<1>1. Started(r, row) /\ row.at = "buying" /\ row.left = <<>>
  BY RunIsStarted DEF S!FinishRun
<1>2. run' = [run EXCEPT ![r] = new] /\ UNCHANGED <<purchases, bought, charged, funds>>
  BY DEF S!FinishRun, ShoppingInv, S!TypeOK
<1>2a. row.ordered \in Nat /\ Len(row.chosen) \in Nat
  <2>1. row \in S!RunRow /\ ChosenInv(row) /\ LeftInv(row)
    BY <1>1 DEF Started
  <2>2. row.ordered \in Nat
    BY <2>1, PricesAssumption DEF S!RunRow
  <2> QED
    BY <2>1, <2>2, AtHand
<1>3. /\ outcome \in {"EMPTY", "PARTIAL", "DONE"}
      /\ outcome = "EMPTY" => row.ordered = 0
      /\ outcome = "DONE" => row.ordered >= Len(row.chosen)
  <2> DEFINE a == row.ordered
             b == Len(row.chosen)
  <2> HIDE DEF a, b
  <2>1. a \in Nat /\ b \in Nat /\ outcome = S!Outcome(a, b)
    BY <1>2a DEF a, b
  <2>2. CASE a = 0
    BY <2>1, <2>2 DEF S!Outcome, a
  <2>3. CASE a \in 1..b - 1
    <3>1. S!Outcome(a, b) = "PARTIAL"
      BY <2>1, <2>3 DEF S!Outcome
    <3> QED
      BY <2>1, <3>1
  <2>4. CASE a # 0 /\ ~(a \in 1..b - 1)
    <3>1. S!Outcome(a, b) = "DONE"
      BY <2>1, <2>4 DEF S!Outcome
    <3>2. a >= b
      BY <2>1, <2>4
    <3> QED
      BY <2>1, <3>1, <3>2 DEF a, b
  <2> QED
    BY <2>2, <2>3, <2>4
<1> HIDE DEF outcome
<1>4. new \in S!RunRow
  BY <1>1, <1>3 DEF Started, S!RunRow, S!Places
<1>5. /\ new.chosen = row.chosen /\ new.left = row.left /\ new.ordered = row.ordered
      /\ new.total = row.total /\ new.budget = row.budget /\ new.spent = row.spent
      /\ new.at = "over" /\ new.state = outcome /\ row.spent \in Nat
  BY <1>1 DEF Started, S!RunRow
<1>6. outcome = "EMPTY" => \A p \in Products : <<r, p>> \notin charged
  BY <1>1, <1>3 DEF Started, ChargedInv
<1> HIDE DEF new
<1>7. new.spent <= row.spent
  BY <1>5
<1>8. new.state = "DONE" => row.left = <<>> /\ row.ordered >= Len(row.chosen)
  BY <1>1, <1>3, <1>5
<1> QED
  BY <1>1, <1>2, <1>4, <1>5, <1>6, <1>7, <1>8, PlaceChanges

\* The rows of a run, typed.
LEMMA RowsTyped ==
  ASSUME ShoppingInv, NEW r \in Runs
  PROVE  /\ purchases[r] \in Seq(PurchaseRow)
         /\ bought \in [Runs \X Products -> Nat] /\ charged \subseteq Runs \X Products
         /\ funds \in 0..MaxFunds /\ run \in [Runs -> {S!NoRun} \cup S!RunRow]
         /\ purchases \in [Runs -> Seq(PurchaseRow)]
BY DEF ShoppingInv, S!TypeOK, PurchaseRow

\* The numbers of a run.
LEMMA NumbersOfRun ==
  ASSUME NEW row \in S!RunRow
  PROVE  row.spent \in Nat /\ row.ordered \in Nat /\ MaxItems \in Nat
BY PricesAssumption DEF S!RunRow

\* A product is passed that was not ordered, or of which it is not known.
LEMMA ProductIsPassed ==
  ASSUME ShoppingInv, NEW r \in Runs, Started(r, run[r]), run[r].at \in {"buying", "recorded"},
         run[r].left # <<>>, run' = S!NextProduct(r),
         NEW ps \in Seq(PurchaseRow), purchases' = [purchases EXCEPT ![r] = ps], PaidInv(r, ps, charged),
         bought' \in [Runs \X Products -> Nat],
         \A q \in Runs : \A p \in Products : bought[<<q, p>>] > 0 => bought'[<<q, p>>] > 0,
         UNCHANGED <<charged, funds>>
  PROVE  ShoppingInv'
<1> DEFINE row == run[r]
           new == [row EXCEPT !.at = "buying", !.left = Tail(row.left)]
<1>1. /\ row \in S!RunRow /\ ChosenInv(row) /\ LeftInv(row) /\ OrderedInv(r, row, bought)
      /\ ChargedInv(r, row, bought, charged)
  BY DEF Started
<1>2. run' = [run EXCEPT ![r] = new]
  BY RowsTyped DEF S!NextProduct
<1>3. /\ row.left # <<>> /\ Tail(row.left) \in Seq(Products) /\ Price[Head(row.left)] \in Nat
      /\ Passed(row) \in Nat
  BY <1>1, AtHand
<1>4. new \in S!RunRow
  BY <1>1, <1>3 DEF S!RunRow, S!Places
<1>5. /\ new.chosen = row.chosen /\ new.left = Tail(row.left) /\ new.ordered = row.ordered
      /\ new.total = row.total /\ new.budget = row.budget /\ new.spent = row.spent
      /\ new.at = "buying" /\ new.state = row.state /\ row.spent \in Nat /\ row.ordered \in Nat
  BY <1>1, PricesAssumption DEF S!RunRow
<1> HIDE DEF new
<1>6. ChosenInv(new)
  BY <1>1, <1>5, ChosenStays
<1>7. LeftInv(new) /\ Passed(new) = Passed(row) + 1
  <2>1. new.spent <= row.spent + Price[Head(row.left)] /\ new.ordered <= row.ordered + 1
    BY <1>3, <1>5
  <2> QED
    BY <1>1, <1>3, <1>4, <1>5, <2>1, LeftMoves
<1>8. row.chosen \in Seq(Products) /\ \A i \in 1..Len(row.chosen) : row.chosen[i] \in Products
  <2>1. row.chosen \in Seq(Products)
    BY <1>1, AtHand
  <2> DEFINE c == row.chosen
  <2> HIDE DEF c
  <2>2. c \in Seq(Products) /\ \A i \in 1..Len(c) : c[i] \in Products
    BY <2>1 DEF c
  <2> QED
    BY <2>2 DEF c
<1>9. OrderedInv(r, new, bought')
  <2>1. new.ordered # Passed(new)
    BY <1>1, <1>3, <1>5, <1>7 DEF LeftInv
  <2>2. new.state = "DONE" => \A i \in 1..Len(new.chosen) : bought'[<<r, new.chosen[i]>>] > 0
    BY <1>1, <1>5, <1>8 DEF OrderedInv
  <2> QED
    BY <1>5, <2>1, <2>2 DEF OrderedInv
<1>10. ChargedInv(r, new, bought', charged')
  BY <1>1, <1>5 DEF ChargedInv
<1>11. PurchasedInv(new, ps)
  BY <1>5 DEF PurchasedInv
<1>12. charged' \subseteq Runs \X Products /\ funds' \in 0..MaxFunds /\ PaidInv(r, ps, charged')
  BY RowsTyped
<1> QED
  BY <1>2, <1>4, <1>6, <1>7, <1>9, <1>10, <1>11, <1>12, RunChanges, RowHasPlace

\* A step with the product at hand: recorded, ordered, charged or not.
LEMMA ProductIsHandled ==
  ASSUME ShoppingInv, NEW r \in Runs, Started(r, run[r]), run[r].at \in {"buying", "recorded", "ordered"},
         run[r].left # <<>>,
         NEW place \in {"recorded", "ordered", "paid", "unpaid"}, run' = [run EXCEPT ![r].at = place],
         NEW ps \in Seq(PurchaseRow), purchases' = [purchases EXCEPT ![r] = ps],
         PaidInv(r, ps, charged'), ps # <<>>, ps[Len(ps)].product = Head(run[r].left),
         bought' \in [Runs \X Products -> Nat],
         \A q \in Runs : \A p \in Products : bought[<<q, p>>] > 0 => bought'[<<q, p>>] > 0,
         charged' = charged \/ (place \in {"paid", "unpaid"} /\ charged' = charged \cup {<<r, Head(run[r].left)>>}),
         funds' \in 0..MaxFunds,
         place # "recorded" => bought'[<<r, Head(run[r].left)>>] > 0,
         place = "paid" => <<r, Head(run[r].left)>> \in charged'
  PROVE  ShoppingInv'
<1> DEFINE row == run[r]
           new == [row EXCEPT !.at = place]
           hand == Head(row.left)
<1>1. /\ row \in S!RunRow /\ ChosenInv(row) /\ LeftInv(row) /\ OrderedInv(r, row, bought)
      /\ ChargedInv(r, row, bought, charged)
  BY DEF Started
<1>2. run' = [run EXCEPT ![r] = new]
  BY RowsTyped
<1>3. /\ row.chosen \in Seq(Products) /\ Passed(row) \in Nat /\ Passed(row) + 1 <= Len(row.chosen)
      /\ hand \in Products /\ hand = row.chosen[Passed(row) + 1] /\ Len(row.chosen) \in Nat
      /\ Passed(row) <= Len(row.chosen)
  BY <1>1, AtHand
<1>4. new \in S!RunRow
  BY <1>1 DEF S!RunRow, S!Places
<1>5. /\ new.chosen = row.chosen /\ new.left = row.left /\ new.ordered = row.ordered
      /\ new.total = row.total /\ new.budget = row.budget /\ new.spent = row.spent
      /\ new.at = place /\ new.state = row.state /\ row.spent \in Nat /\ row.ordered \in Nat
  <2>1. row.spent \in Nat /\ row.ordered \in Nat
    BY <1>1, NumbersOfRun
  <2>2. /\ new.chosen = row.chosen /\ new.left = row.left /\ new.ordered = row.ordered
        /\ new.total = row.total /\ new.budget = row.budget /\ new.spent = row.spent
        /\ new.at = place /\ new.state = row.state
    BY <1>1 DEF S!RunRow
  <2> QED
    BY <2>1, <2>2
<1> HIDE DEF new
<1>6. ChosenInv(new)
  BY <1>1, <1>5, ChosenStays
<1>7. LeftInv(new) /\ Passed(new) = Passed(row)
  <2>1. new.spent <= row.spent
    BY <1>5
  <2> QED
    BY <1>1, <1>4, <1>5, <2>1, LeftStays
<1>8. \A i \in 1..Len(row.chosen) : row.chosen[i] \in Products
  <2> DEFINE c == row.chosen
  <2> HIDE DEF c
  <2>1. c \in Seq(Products)
    BY <1>3 DEF c
  <2>2. \A i \in 1..Len(c) : c[i] \in Products
    BY <2>1
  <2> QED
    BY <2>2 DEF c
<1>8a. \A i \in 1..Passed(row) : i \in 1..Len(row.chosen)
  <2> DEFINE a == Len(row.chosen)
             d == Passed(row)
  <2> HIDE DEF a, d
  <2>1. a \in Nat /\ d \in Nat /\ d <= a
    BY <1>3 DEF a, d
  <2>2. \A i \in 1..d : i \in 1..a
    BY <2>1
  <2> QED
    BY <2>2 DEF a, d
<1> HIDE DEF hand
<1>9. OrderedInv(r, new, bought')
  <2>1. row.ordered = Passed(row) => \A i \in 1..Passed(row) : bought'[<<r, row.chosen[i]>>] > 0
    BY <1>1, <1>8, <1>8a DEF OrderedInv
  <2>2. row.state = "DONE" => \A i \in 1..Len(row.chosen) : bought'[<<r, row.chosen[i]>>] > 0
    BY <1>1, <1>8 DEF OrderedInv
  <2> QED
    BY <1>5, <1>7, <2>1, <2>2 DEF OrderedInv
<1>10. ChargedInv(r, new, bought', charged')
  <2>1. \E i \in 1..Len(row.chosen) : row.chosen[i] = hand
    <3>1. Passed(row) + 1 \in 1..Len(row.chosen)
      BY <1>3
    <3> QED
      BY <1>3, <3>1
  <2>2. ASSUME NEW p \in Products, <<r, p>> \in charged'
        PROVE  (\E i \in 1..Len(row.chosen) : row.chosen[i] = p) /\ bought'[<<r, p>>] > 0
    <3>1. CASE <<r, p>> \in charged
      BY <1>1, <3>1 DEF ChargedInv
    <3>2. CASE <<r, p>> \notin charged
      <4>1. p = hand /\ place # "recorded"
        BY <2>2, <3>2 DEF hand
      <4> QED
        BY <2>1, <4>1 DEF hand
    <3> QED
      BY <3>1, <3>2
  <2>3. (\E p \in Products : <<r, p>> \in charged') => place \in {"paid", "unpaid"} \/ row.ordered > 0
    BY <1>1 DEF ChargedInv
  <2>4. row.state # "EMPTY"
    BY <1>1 DEF ChargedInv
  <2> QED
    BY <1>5, <2>2, <2>3, <2>4 DEF ChargedInv, hand
<1>11. PurchasedInv(new, ps)
  BY <1>5 DEF PurchasedInv, hand
<1>12. charged' \subseteq Runs \X Products
  BY <1>3, RowsTyped DEF hand
<1>13. \A q \in Runs \ {r} : \A p \in Products : <<q, p>> \in charged <=> <<q, p>> \in charged'
  <2> SUFFICES ASSUME NEW q \in Runs \ {r}, NEW p \in Products
               PROVE  <<q, p>> \in charged <=> <<q, p>> \in charged'
    OBVIOUS
  <2>1. <<q, p>> # <<r, hand>>
    OBVIOUS
  <2> QED
    BY <2>1 DEF hand
<1> QED
  BY <1>2, <1>4, <1>6, <1>7, <1>9, <1>10, <1>11, <1>12, <1>13, RunChanges, RowHasPlace

\* A row more, that does not say paid.
LEMMA RowIsAdded ==
  ASSUME ShoppingInv, NEW r \in Runs, PaidInv(r, purchases[r], charged), NEW p \in Products,
         NEW ps, ps = Append(purchases[r], [product |-> p, ordered |-> FALSE, paid |-> FALSE])
  PROVE  /\ ps \in Seq(PurchaseRow) /\ ps # <<>> /\ ps[Len(ps)].product = p
         /\ PaidInv(r, ps, charged)
<1> DEFINE old == purchases[r]
           x == [product |-> p, ordered |-> FALSE, paid |-> FALSE]
<1>1. old \in Seq(PurchaseRow)
  BY RowsTyped
<1>2. x \in PurchaseRow /\ x.product = p /\ ~x.paid
  BY DEF PurchaseRow
<1> HIDE DEF old, x
<1>3. ps = Append(old, x)
  BY DEF old, x
<1>4. ps \in Seq(PurchaseRow) /\ ps # <<>> /\ Len(ps) = Len(old) + 1 /\ Len(old) \in Nat
      /\ ps[Len(ps)] = x /\ \A i \in 1..Len(old) : ps[i] = old[i]
  <2> DEFINE T == PurchaseRow
  <2> HIDE DEF T
  <2>1. old \in Seq(T) /\ x \in T
    BY <1>1, <1>2 DEF T
  <2>2. Append(old, x) \in Seq(T) /\ Len(Append(old, x)) = Len(old) + 1 /\ Len(old) \in Nat
    BY <2>1
  <2>3. Append(old, x)[Len(old) + 1] = x /\ \A i \in 1..Len(old) : Append(old, x)[i] = old[i]
    BY <2>1
  <2>4. ps # <<>>
    BY <1>3, <2>1
  <2> QED
    BY <1>3, <2>2, <2>3, <2>4 DEF T
<1>5. \A i \in 1..Len(ps) : i \in 1..Len(old) \/ i = Len(ps)
  BY <1>4
<1>6. PaidInv(r, ps, charged)
  BY <1>2, <1>4, <1>5 DEF PaidInv, old
<1> QED
  BY <1>2, <1>4, <1>6

\* A row is added for the product at hand, or it cannot be.
LEMMA AddPurchaseKeeps ==
  ASSUME ShoppingInv, NEW r \in Runs, S!AddPurchase(r)
  PROVE  ShoppingInv'
<1> DEFINE row == run[r]
           ps == Append(purchases[r], [product |-> Head(row.left), ordered |-> FALSE, paid |-> FALSE])
<1>1. Started(r, row) /\ row.at = "buying" /\ row.left # <<>>
  BY RunIsStarted DEF S!AddPurchase
<1>2. Head(row.left) \in Products /\ PaidInv(r, purchases[r], charged)
  BY <1>1, AtHand DEF Started
<1>3. /\ ps \in Seq(PurchaseRow) /\ ps # <<>> /\ ps[Len(ps)].product = Head(row.left)
      /\ PaidInv(r, ps, charged)
  BY <1>2, RowIsAdded
<1>4. \/ purchases' = [purchases EXCEPT ![r] = ps] /\ run' = [run EXCEPT ![r].at = "recorded"]
      \/ purchases' \in {purchases, [purchases EXCEPT ![r] = ps]} /\ run' = S!NextProduct(r)
  BY DEF S!AddPurchase, S!Current
<1>5. UNCHANGED <<bought, charged, funds>>
  BY DEF S!AddPurchase
<1>6. /\ bought' \in [Runs \X Products -> Nat] /\ funds' \in 0..MaxFunds
      /\ \A q \in Runs : \A p \in Products : bought[<<q, p>>] > 0 => bought'[<<q, p>>] > 0
  BY <1>5, RowsTyped
<1> HIDE DEF ps
<1>7. CASE purchases' = [purchases EXCEPT ![r] = ps] /\ run' = [run EXCEPT ![r].at = "recorded"]
  <2>1. PaidInv(r, ps, charged')
    BY <1>3, <1>5
  <2> QED
    BY <1>1, <1>3, <1>5, <1>6, <1>7, <2>1, ProductIsHandled
<1>8. CASE purchases' = [purchases EXCEPT ![r] = ps] /\ run' = S!NextProduct(r)
  BY <1>1, <1>3, <1>5, <1>6, <1>8, ProductIsPassed
<1>9. CASE purchases' = purchases /\ run' = S!NextProduct(r)
  <2>1. purchases[r] \in Seq(PurchaseRow) /\ purchases' = [purchases EXCEPT ![r] = purchases[r]]
    BY <1>9, RowsTyped
  <2> QED
    BY <1>1, <1>2, <1>5, <1>6, <1>9, <2>1, ProductIsPassed
<1> QED
  BY <1>4, <1>7, <1>8, <1>9

\* The marketplace takes the order or refuses it.
LEMMA OrderKeeps ==
  ASSUME ShoppingInv, NEW r \in Runs, S!Order(r)
  PROVE  ShoppingInv'
<1> DEFINE row == run[r]
           hand == Head(row.left)
           more == [bought EXCEPT ![<<r, hand>>] = @ + 1]
<1>1. Started(r, row) /\ row.at = "recorded"
  BY RunIsStarted DEF S!Order
<1>2. row.left # <<>> /\ purchases[r] # <<>> /\ purchases[r][Len(purchases[r])].product = hand
  BY <1>1 DEF Started, PurchasedInv
<1>3. hand \in Products /\ PaidInv(r, purchases[r], charged)
  BY <1>1, <1>2, AtHand DEF Started
<1>4. \/ bought' = more /\ run' = [run EXCEPT ![r].at = "ordered"]
      \/ bought' \in {bought, more} /\ run' = S!NextProduct(r)
  BY DEF S!Order, S!Ordered, S!Current
<1>5. UNCHANGED <<purchases, charged, funds>>
  BY DEF S!Order
<1>6. /\ purchases[r] \in Seq(PurchaseRow) /\ purchases' = [purchases EXCEPT ![r] = purchases[r]]
      /\ funds' \in 0..MaxFunds /\ PaidInv(r, purchases[r], charged')
  BY <1>3, <1>5, RowsTyped
<1> HIDE DEF hand
<1>7. bought \in [Runs \X Products -> Nat] /\ more \in [Runs \X Products -> Nat]
  <2>1. bought \in [Runs \X Products -> Nat] /\ <<r, hand>> \in Runs \X Products
    BY <1>3, RowsTyped
  <2>2. bought[<<r, hand>>] + 1 \in Nat
    BY <2>1
  <2> QED
    BY <2>1, <2>2
<1>8. more[<<r, hand>>] > 0 /\ \A q \in Runs : \A p \in Products : bought[<<q, p>>] > 0 => more[<<q, p>>] > 0
  <2>1. <<r, hand>> \in Runs \X Products
    BY <1>3
  <2>2. \A key \in Runs \X Products : more[key] = IF key = <<r, hand>> THEN bought[key] + 1 ELSE bought[key]
    BY <1>7
  <2>3. \A key \in Runs \X Products : bought[key] \in Nat
    BY <1>7
  <2> HIDE DEF more
  <2>4. \A key \in Runs \X Products : bought[key] > 0 => more[key] > 0
    BY <2>2, <2>3
  <2>5. more[<<r, hand>>] > 0
    BY <2>1, <2>2, <2>3
  <2> QED
    BY <2>4, <2>5
<1> HIDE DEF more
<1>9. /\ bought' \in [Runs \X Products -> Nat]
      /\ \A q \in Runs : \A p \in Products : bought[<<q, p>>] > 0 => bought'[<<q, p>>] > 0
  BY <1>4, <1>7, <1>8
<1>10. CASE bought' = more /\ run' = [run EXCEPT ![r].at = "ordered"]
  BY <1>1, <1>2, <1>5, <1>6, <1>8, <1>9, <1>10, ProductIsHandled DEF hand
<1>11. CASE run' = S!NextProduct(r)
  BY <1>1, <1>2, <1>3, <1>5, <1>6, <1>9, <1>11, ProductIsPassed
<1> QED
  BY <1>4, <1>10, <1>11

\* The wallet pays or it does not, or its answer is lost.
LEMMA TransferKeeps ==
  ASSUME ShoppingInv, NEW r \in Runs, S!Transfer(r)
  PROVE  ShoppingInv'
<1> DEFINE row == run[r]
           hand == Head(row.left)
           key == <<r, hand>>
<1>1. Started(r, row) /\ row.at = "ordered"
  BY RunIsStarted DEF S!Transfer
<1>2. row.left # <<>> /\ purchases[r] # <<>> /\ purchases[r][Len(purchases[r])].product = hand
      /\ bought[key] > 0
  BY <1>1 DEF Started, PurchasedInv, OrderedInv
<1>3. hand \in Products /\ Price[hand] \in Nat /\ Price[hand] > 0 /\ PaidInv(r, purchases[r], charged)
  BY <1>1, <1>2, AtHand DEF Started
<1>4. UNCHANGED <<purchases, bought>>
  BY DEF S!Transfer
<1>5. ASSUME S!Moved(r) PROVE key \in charged' /\ charged' = charged \cup {key} /\ funds' \in 0..MaxFunds
  <2>1. CASE key \in charged /\ UNCHANGED <<charged, funds>>
    BY <2>1, RowsTyped
  <2>2. CASE funds >= Price[hand] /\ charged' = charged \cup {key} /\ funds' = funds - Price[hand]
    <3>1. funds \in 0..MaxFunds /\ MaxFunds \in Nat
      BY RowsTyped, PricesAssumption
    <3>2. funds' \in 0..MaxFunds
      BY <1>3, <2>2, <3>1
    <3> QED
      BY <2>2, <3>2
  <2> QED
    BY <1>5, <2>1, <2>2 DEF S!Moved, S!Current
<1>6. \E place \in {"paid", "unpaid"} :
        /\ run' = [run EXCEPT ![r].at = place]
        /\ S!Moved(r) \/ (place = "unpaid" /\ UNCHANGED <<charged, funds>>)
  BY DEF S!Transfer
<1>7. PICK place \in {"paid", "unpaid"} :
        /\ run' = [run EXCEPT ![r].at = place]
        /\ S!Moved(r) \/ (place = "unpaid" /\ UNCHANGED <<charged, funds>>)
  BY <1>6
<1>8. /\ charged' = charged \/ charged' = charged \cup {key}
      /\ funds' \in 0..MaxFunds /\ (place = "paid" => key \in charged')
  BY <1>5, <1>7, RowsTyped
<1>9. PaidInv(r, purchases[r], charged')
  BY <1>3, <1>8 DEF PaidInv
<1>10. /\ purchases[r] \in Seq(PurchaseRow) /\ purchases' = [purchases EXCEPT ![r] = purchases[r]]
       /\ bought' \in [Runs \X Products -> Nat] /\ bought'[key] > 0
       /\ \A q \in Runs : \A p \in Products : bought[<<q, p>>] > 0 => bought'[<<q, p>>] > 0
  BY <1>2, <1>4, RowsTyped
<1> QED
  BY <1>1, <1>2, <1>7, <1>8, <1>9, <1>10, ProductIsHandled

\* The last row is changed or it is not; it says paid only if it was charged.
LEMMA RowIsSettled ==
  ASSUME ShoppingInv, NEW r \in Runs, NEW paid \in BOOLEAN, PaidInv(r, purchases[r], charged),
         purchases[r] # <<>>, paid => <<r, purchases[r][Len(purchases[r])].product>> \in charged,
         S!SettlePurchase(r, paid)
  PROVE  \E ps \in Seq(PurchaseRow) : purchases' = [purchases EXCEPT ![r] = ps] /\ PaidInv(r, ps, charged)
<1> DEFINE old == purchases[r]
           n == Len(old)
           x == [old[n] EXCEPT !.ordered = TRUE, !.paid = paid]
           ps == [old EXCEPT ![n] = x]
<1>1. old \in Seq(PurchaseRow) /\ purchases \in [Runs -> Seq(PurchaseRow)]
  BY RowsTyped
<1>2. CASE purchases' = purchases
  BY <1>1, <1>2
<1>3. CASE purchases' = [purchases EXCEPT ![r][Len(purchases[r])].ordered = TRUE,
                                           ![r][Len(purchases[r])].paid = paid]
  <2>1. n \in Nat /\ n > 0 /\ DOMAIN old = 1..n
    <3> DEFINE T == PurchaseRow
    <3> HIDE DEF T, old
    <3>1. old \in Seq(T) /\ old # <<>>
      BY <1>1 DEF T, old
    <3> QED
      BY <3>1
  <2>2. n \in 1..n
    BY <2>1
  <2>3. \A i \in 1..n : old[i] \in PurchaseRow
    <3> DEFINE T == PurchaseRow
    <3> HIDE DEF T, old
    <3>1. old \in Seq(T)
      BY <1>1 DEF T, old
    <3> QED
      BY <3>1 DEF T
  <2>4. x \in PurchaseRow /\ x.product = old[n].product /\ x.paid = paid
    BY <2>2, <2>3 DEF PurchaseRow
  <2>5. purchases' = [purchases EXCEPT ![r] = ps]
    BY <1>1, <1>3, <2>2, <2>3 DEF PurchaseRow
  <2> HIDE DEF x
  <2>6. ps \in Seq(PurchaseRow) /\ Len(ps) = n
    <3> DEFINE T == PurchaseRow
    <3> HIDE DEF T
    <3>1. old \in Seq(T) /\ x \in T /\ n \in 1..n
      BY <1>1, <2>2, <2>4 DEF T
    <3> HIDE DEF old
    <3> QED
      BY <3>1 DEF T
  <2>7. \A i \in 1..n : ps[i] = IF i = n THEN x ELSE old[i]
    BY <2>1
  <2> HIDE DEF ps
  <2>8. PaidInv(r, ps, charged)
    BY <2>4, <2>6, <2>7 DEF PaidInv
  <2> QED
    BY <2>5, <2>6, <2>8
<1> QED
  BY <1>2, <1>3 DEF S!SettlePurchase

\* What was paid is noted, and the product is passed.
LEMMA SettlePaidKeeps ==
  ASSUME ShoppingInv, NEW r \in Runs, S!SettlePaid(r)
  PROVE  ShoppingInv'
<1> DEFINE row == run[r]
           hand == Head(row.left)
           new == [row EXCEPT !.at = "buying", !.left = Tail(row.left), !.spent = @ + Price[hand],
                              !.ordered = @ + 1]
<1>1. /\ row \in S!RunRow /\ ChosenInv(row) /\ LeftInv(row) /\ OrderedInv(r, row, bought)
      /\ ChargedInv(r, row, bought, charged) /\ PurchasedInv(row, purchases[r])
      /\ PaidInv(r, purchases[r], charged) /\ row.at = "paid"
  BY RunIsStarted DEF Started, S!SettlePaid
<1>2. run' = [run EXCEPT ![r] = new]
  BY RowsTyped DEF S!SettlePaid, S!NextProduct, S!Current
<1>3. row.left # <<>> /\ purchases[r] # <<>> /\ purchases[r][Len(purchases[r])].product = hand
      /\ <<r, hand>> \in charged /\ bought[<<r, hand>>] > 0
  BY <1>1 DEF PurchasedInv, ChargedInv, OrderedInv
<1>4. PICK ps \in Seq(PurchaseRow) : purchases' = [purchases EXCEPT ![r] = ps] /\ PaidInv(r, ps, charged)
  BY <1>1, <1>3, RowIsSettled DEF S!SettlePaid
<1>5. UNCHANGED <<bought, charged, funds>>
  BY DEF S!SettlePaid
<1>6. /\ Tail(row.left) \in Seq(Products) /\ Price[hand] \in Nat /\ Passed(row) \in Nat
      /\ Passed(row) + 1 <= Len(row.chosen) /\ hand = row.chosen[Passed(row) + 1] /\ Len(row.chosen) \in Nat
  BY <1>1, <1>3, AtHand
<1>7. row.spent \in Nat /\ row.ordered \in Nat /\ MaxItems \in Nat
  BY <1>1, NumbersOfRun
<1>8. row.ordered + 1 \in 0..MaxItems /\ row.ordered <= Passed(row)
  BY <1>1, <1>6, <1>7 DEF ChosenInv, LeftInv
<1>9. /\ new.chosen = row.chosen /\ new.left = Tail(row.left) /\ new.ordered = row.ordered + 1
      /\ new.total = row.total /\ new.budget = row.budget /\ new.spent = row.spent + Price[hand]
      /\ new.at = "buying" /\ new.state = row.state
  BY <1>1 DEF S!RunRow
<1> HIDE DEF hand
<1>10. new \in S!RunRow
  <2>1. row.spent + Price[hand] \in Nat
    BY <1>6, <1>7
  <2> QED
    BY <1>1, <1>6, <1>8, <2>1 DEF S!RunRow, S!Places
<1> HIDE DEF new
<1>11. ChosenInv(new)
  BY <1>1, <1>9, ChosenStays
<1>12. LeftInv(new) /\ Passed(new) = Passed(row) + 1
  <2>1. new.spent <= row.spent + Price[Head(row.left)] /\ new.ordered <= row.ordered + 1
    BY <1>6, <1>7, <1>9 DEF hand
  <2> QED
    BY <1>1, <1>3, <1>9, <1>10, <2>1, LeftMoves
<1>13. OrderedInv(r, new, bought)
  <2>1. ASSUME new.ordered = Passed(new), NEW i \in 1..Passed(new) PROVE bought[<<r, row.chosen[i]>>] > 0
    <3>1. row.ordered = Passed(row)
      BY <1>6, <1>7, <1>9, <1>12, <2>1
    <3>2. i \in 1..Passed(row) \/ i = Passed(row) + 1
      BY <1>6, <1>12
    <3> QED
      BY <1>1, <1>3, <1>6, <3>1, <3>2 DEF OrderedInv
  <2> QED
    BY <1>1, <1>9, <2>1 DEF OrderedInv
<1>14. ChargedInv(r, new, bought, charged)
  <2>1. new.ordered > 0
    BY <1>7, <1>9
  <2> QED
    BY <1>1, <1>9, <2>1 DEF ChargedInv
<1>15. PurchasedInv(new, ps)
  BY <1>9 DEF PurchasedInv
<1>16. /\ bought' \in [Runs \X Products -> Nat] /\ charged' \subseteq Runs \X Products /\ funds' \in 0..MaxFunds
       /\ PaidInv(r, ps, charged') /\ OrderedInv(r, new, bought') /\ ChargedInv(r, new, bought', charged')
  BY <1>4, <1>5, <1>13, <1>14, RowsTyped
<1>17. /\ \A q \in Runs : \A p \in Products : bought[<<q, p>>] > 0 => bought'[<<q, p>>] > 0
       /\ \A q \in Runs \ {r} : \A p \in Products : <<q, p>> \in charged <=> <<q, p>> \in charged'
  BY <1>5
<1> QED
  BY <1>2, <1>4, <1>10, <1>11, <1>12, <1>15, <1>16, <1>17, RunChanges, RowHasPlace

\* What the first products cost is no more than what all of them cost.
LEMMA FirstCostNoMore ==
  ASSUME NEW row \in S!RunRow, ChosenInv(row), LeftInv(row)
  PROVE  /\ Total(1..Passed(row), CostOf(row.chosen, Price)) <= row.total
         /\ Total(1..Passed(row), CostOf(row.chosen, Price)) \in Nat
         /\ row.total \in Nat /\ row.total <= row.budget
<1> DEFINE d == Passed(row)
           m == Len(row.chosen)
           v == CostOf(row.chosen, Price)
<1>1. d \in Nat /\ m \in Nat /\ d <= m /\ \A i \in 1..m : Price[row.chosen[i]] \in Nat
  BY AtHand
<1>2. \A i \in 1..m : v[i] \in Nat
  BY <1>1 DEF CostOf
<1>3. row.total = Total(1..m, v) /\ row.total <= row.budget
  BY DEF ChosenInv
<1> HIDE DEF d, m, v
<1> DEFINE A == 1..d
           B == 1..m
<1>4. IsFiniteSet(B) /\ IsFiniteSet(A)
  BY <1>1, FS_Interval
<1>5. A \in SUBSET B
  BY <1>1
<1>6. \A i \in B : v[i] \in Nat
  BY <1>2
<1>7. \A i \in A : v[i] \in Nat
  BY <1>5, <1>6
<1> HIDE DEF A, B
<1>8. Total(A, v) <= Total(B, v) /\ Total(B, v) \in Nat /\ Total(A, v) \in Nat
  BY <1>4, <1>5, <1>6, <1>7, TotalSubset, TotalIsNat
<1> QED
  BY <1>3, <1>8 DEF A, B, d, m, v

\* What was not paid ends the shopping.
LEMMA SettleUnpaidKeeps ==
  ASSUME ShoppingInv, NEW r \in Runs, S!SettleUnpaid(r)
  PROVE  ShoppingInv'
<1> DEFINE row == run[r]
           hand == Head(row.left)
           new == [row EXCEPT !.at = "buying", !.left = <<>>, !.ordered = @ + 1]
<1>1. /\ row \in S!RunRow /\ ChosenInv(row) /\ LeftInv(row) /\ OrderedInv(r, row, bought)
      /\ ChargedInv(r, row, bought, charged) /\ PurchasedInv(row, purchases[r])
      /\ PaidInv(r, purchases[r], charged) /\ row.at = "unpaid"
  BY RunIsStarted DEF Started, S!SettleUnpaid
<1>2. run' = [run EXCEPT ![r] = new]
  BY RowsTyped DEF S!SettleUnpaid
<1>3. row.left # <<>> /\ purchases[r] # <<>> /\ bought[<<r, hand>>] > 0
  BY <1>1 DEF PurchasedInv, OrderedInv
<1>4. PICK ps \in Seq(PurchaseRow) : purchases' = [purchases EXCEPT ![r] = ps] /\ PaidInv(r, ps, charged)
  BY <1>1, <1>3, RowIsSettled DEF S!SettleUnpaid
<1>5. UNCHANGED <<bought, charged, funds>>
  BY DEF S!SettleUnpaid
<1>6. /\ Passed(row) \in Nat
      /\ Passed(row) + 1 <= Len(row.chosen) /\ hand = row.chosen[Passed(row) + 1] /\ Len(row.chosen) \in Nat
  BY <1>1, <1>3, AtHand
<1>7. row.spent \in Nat /\ row.ordered \in Nat /\ MaxItems \in Nat
  BY <1>1, NumbersOfRun
<1>8. row.ordered + 1 \in 0..MaxItems /\ row.ordered <= Passed(row)
  BY <1>1, <1>6, <1>7 DEF ChosenInv, LeftInv
<1>9. /\ new.chosen = row.chosen /\ new.left = <<>> /\ new.ordered = row.ordered + 1
      /\ new.total = row.total /\ new.budget = row.budget /\ new.spent = row.spent
      /\ new.at = "buying" /\ new.state = row.state
  BY <1>1 DEF S!RunRow
<1> HIDE DEF hand
<1>10. new \in S!RunRow
  <2>1. <<>> \in Seq(Products)
    OBVIOUS
  <2> QED
    BY <1>1, <1>8, <2>1 DEF S!RunRow, S!Places
<1> HIDE DEF new
<1>11. ChosenInv(new)
  BY <1>1, <1>9, ChosenStays
<1>12. Passed(new) = Len(row.chosen)
  <2>1. Len(new.left) = 0
    BY <1>9
  <2> DEFINE a == Len(row.chosen)
             b == Len(new.left)
  <2>2. Passed(new) = a - b
    BY <1>9 DEF Passed
  <2> HIDE DEF a, b
  <2>3. a \in Nat /\ b = 0
    BY <1>6, <2>1 DEF a, b
  <2> QED
    BY <2>2, <2>3 DEF a
<1>13. LeftInv(new)
  <2>1. new.spent <= Total(1..Passed(new), CostOf(new.chosen, Price))
    <3>1. row.spent <= Total(1..Passed(row), CostOf(row.chosen, Price))
      BY <1>1 DEF LeftInv
    <3>2. row.spent <= row.total
      BY <1>1, <1>7, <3>1, FirstCostNoMore
    <3> QED
      BY <1>1, <1>9, <1>12, <3>2 DEF ChosenInv
  <2>2. new.ordered <= Passed(new)
    BY <1>6, <1>7, <1>8, <1>9, <1>12
  <2>3. Len(new.left) = 0
    BY <1>9
  <2> QED
    BY <1>6, <1>9, <2>1, <2>2, <2>3 DEF LeftInv
<1>14. OrderedInv(r, new, bought)
  <2>1. ASSUME new.ordered = Passed(new), NEW i \in 1..Passed(new) PROVE bought[<<r, row.chosen[i]>>] > 0
    <3>1. row.ordered = Passed(row) /\ Passed(new) = Passed(row) + 1
      BY <1>6, <1>7, <1>8, <1>9, <1>12, <2>1
    <3>2. i \in 1..Passed(row) \/ i = Passed(row) + 1
      BY <1>6, <3>1
    <3> QED
      BY <1>1, <1>3, <1>6, <3>1, <3>2 DEF OrderedInv
  <2> QED
    BY <1>1, <1>9, <2>1 DEF OrderedInv
<1>15. ChargedInv(r, new, bought, charged)
  <2>1. new.ordered > 0
    BY <1>7, <1>9
  <2> QED
    BY <1>1, <1>9, <2>1 DEF ChargedInv
<1>16. PurchasedInv(new, ps)
  BY <1>9 DEF PurchasedInv
<1>17. /\ bought' \in [Runs \X Products -> Nat] /\ charged' \subseteq Runs \X Products /\ funds' \in 0..MaxFunds
       /\ PaidInv(r, ps, charged') /\ OrderedInv(r, new, bought') /\ ChargedInv(r, new, bought', charged')
  BY <1>4, <1>5, <1>14, <1>15, RowsTyped
<1>18. /\ \A q \in Runs : \A p \in Products : bought[<<q, p>>] > 0 => bought'[<<q, p>>] > 0
       /\ \A q \in Runs \ {r} : \A p \in Products : <<q, p>> \in charged <=> <<q, p>> \in charged'
  BY <1>5
<1> QED
  BY <1>2, <1>4, <1>10, <1>11, <1>13, <1>16, <1>17, <1>18, RunChanges, RowHasPlace

\* A run is started: its choice is within its budget.
LEMMA StartRunKeeps ==
  ASSUME ShoppingInv, NEW r \in Runs, NEW budget \in Budgets, NEW stream \in Streams, NEW n \in 1..MaxItems,
         NEW items \in [1..n -> Products], S!StartRun(r, budget, items, stream)
  PROVE  ShoppingInv'
<1> DEFINE set == S!Within(stream, items, Price, budget)
           new == [at |-> "chosen", budget |-> budget, chosen |-> set.chosen, left |-> set.chosen,
                   total |-> set.total, spent |-> 0, ordered |-> 0, state |-> "PENDING"]
<1>1. run[r] = S!NoRun /\ run' = [run EXCEPT ![r] = new] /\ UNCHANGED <<purchases, bought, charged, funds>>
  BY DEF S!StartRun
<1>2. set = Within(stream, items, Price, budget)
  BY SameWithin
<1> HIDE DEF set
<1>3. /\ set.chosen \in Seq(Products) /\ set.total \in Nat
      /\ Len(set.chosen) <= MaxItems
      /\ \A i \in 1..Len(set.chosen) : Price[set.chosen[i]] > 0
      /\ set.total = Total(1..Len(set.chosen), CostOf(set.chosen, Price)) /\ set.total <= budget
  BY <1>2, ChoiceWithinBudget
<1>4. new \in S!RunRow
  <2>1. 0 \in 0..MaxItems
    BY PricesAssumption
  <2> QED
    BY <1>3, <2>1 DEF S!RunRow, S!Places
<1>5. /\ new.chosen = set.chosen /\ new.left = set.chosen /\ new.ordered = 0
      /\ new.total = set.total /\ new.budget = budget /\ new.spent = 0
      /\ new.at = "chosen" /\ new.state = "PENDING"
  OBVIOUS
<1> HIDE DEF new
<1>6. ChosenInv(new)
  BY <1>3, <1>5 DEF ChosenInv
<1>7. Passed(new) = 0 /\ Len(new.chosen) \in Nat /\ Len(new.left) = Len(new.chosen)
  <2>1. Len(set.chosen) \in Nat
    BY <1>3
  <2>2. Passed(new) = Len(set.chosen) - Len(set.chosen)
    BY <1>5 DEF Passed
  <2> DEFINE a == Len(set.chosen)
  <2> HIDE DEF a
  <2>3. a - a = 0
    BY <2>1 DEF a
  <2> QED
    BY <1>5, <2>1, <2>2, <2>3 DEF a
<1>8. LeftInv(new)
  <2>1. 1..Passed(new) = {}
    BY <1>7
  <2>2. Total(1..Passed(new), CostOf(new.chosen, Price)) = 0
    BY <2>1, TotalEmpty
  <2>3. ASSUME NEW i \in 1..Len(new.left) PROVE new.left[i] = new.chosen[Passed(new) + i]
    <3>1. Passed(new) + i = i
      BY <1>7
    <3> QED
      BY <1>5, <3>1
  <2> QED
    BY <1>5, <1>7, <2>2, <2>3 DEF LeftInv
<1>9. \A p \in Products : <<r, p>> \notin charged
  BY <1>1 DEF ShoppingInv, RunInv
<1>10. OrderedInv(r, new, bought')
  <2>1. 1..Passed(new) = {}
    BY <1>7
  <2> QED
    BY <1>5, <2>1 DEF OrderedInv
<1>11. ChargedInv(r, new, bought', charged')
  BY <1>1, <1>5, <1>9 DEF ChargedInv
<1>12. PurchasedInv(new, purchases[r])
  BY <1>5 DEF PurchasedInv
<1>13. PaidInv(r, purchases[r], charged')
  <2>1. PaidInv(r, purchases[r], charged)
    BY DEF ShoppingInv, RunInv
  <2> QED
    BY <1>1, <2>1
<1>14. purchases[r] \in Seq(PurchaseRow) /\ purchases' = [purchases EXCEPT ![r] = purchases[r]]
       /\ bought' \in [Runs \X Products -> Nat] /\ charged' \subseteq Runs \X Products /\ funds' \in 0..MaxFunds
       /\ (\A q \in Runs : \A p \in Products : bought[<<q, p>>] > 0 => bought'[<<q, p>>] > 0)
       /\ (\A q \in Runs \ {r} : \A p \in Products : <<q, p>> \in charged <=> <<q, p>> \in charged')
  BY <1>1, RowsTyped
<1> QED
  BY <1>1, <1>4, <1>6, <1>8, <1>10, <1>11, <1>12, <1>13, <1>14, RunChanges, RowHasPlace

\* Only the funds change.
LEMMA SpendElsewhereKeeps ==
  ASSUME ShoppingInv, S!SpendElsewhere
  PROVE  ShoppingInv'
<1>1. UNCHANGED <<run, purchases, bought, charged>> /\ funds > 0 /\ funds' = funds - 1
  BY DEF S!SpendElsewhere
<1>2. funds \in 0..MaxFunds /\ MaxFunds \in Nat
  BY PricesAssumption DEF ShoppingInv, S!TypeOK
<1>3. funds' \in 0..MaxFunds
  BY <1>1, <1>2
<1> QED
  BY <1>1, <1>3 DEF ShoppingInv, S!TypeOK

\* The invariant of the shopping runs holds at the start, and every step
\* keeps it.
LEMMA ShoppingInvariant == PotsSpec => []ShoppingInv
<1>1. PotsInit => ShoppingInv
  <2> SUFFICES ASSUME PotsInit PROVE ShoppingInv
    OBVIOUS
  <2>1. /\ run = [r \in Runs |-> S!NoRun] /\ purchases = [r \in Runs |-> <<>>]
        /\ bought = [key \in Runs \X Products |-> 0] /\ charged = {} /\ funds \in 0..MaxFunds
    BY DEF PotsInit, S!Init
  <2>2. S!TypeOK
    <3>1. run \in [Runs -> {S!NoRun} \cup S!RunRow]
      BY <2>1
    <3>2. purchases \in [Runs -> Seq(PurchaseRow)]
      <4>1. <<>> \in Seq(PurchaseRow)
        OBVIOUS
      <4> QED
        BY <2>1, <4>1
    <3>3. bought \in [Runs \X Products -> Nat]
      BY <2>1
    <3> QED
      BY <2>1, <3>1, <3>2, <3>3 DEF S!TypeOK, PurchaseRow
  <2>3. ASSUME NEW r \in Runs PROVE RunInv(r, run[r], purchases[r], bought, charged)
    <3>1. run[r] = S!NoRun /\ purchases[r] = <<>> /\ charged = {}
      BY <2>1
    <3>2. PaidInv(r, <<>>, charged)
      BY DEF PaidInv
    <3> QED
      BY <3>1, <3>2 DEF RunInv
  <2> QED
    BY <2>2, <2>3 DEF ShoppingInv
<1>2. ShoppingInv /\ [PotsNext]_pots => ShoppingInv'
  <2> SUFFICES ASSUME ShoppingInv, [PotsNext]_pots PROVE ShoppingInv'
    OBVIOUS
  <2>1. CASE S!Next
    <3>1. ASSUME NEW r \in Runs, NEW budget \in Budgets, NEW stream \in Streams,
                 NEW items \in UNION {[1..n -> Products] : n \in 1..MaxItems},
                 S!StartRun(r, budget, items, stream)
          PROVE  ShoppingInv'
      <4>1. PICK n \in 1..MaxItems : items \in [1..n -> Products]
        OBVIOUS
      <4> QED
        BY <3>1, <4>1, StartRunKeeps
    <3>2. ASSUME NEW r \in Runs,
                 \/ S!ChooseNothing(r) \/ S!GoShopping(r)
                 \/ S!AddPurchase(r) \/ S!Order(r) \/ S!Transfer(r) \/ S!SettlePaid(r) \/ S!SettleUnpaid(r)
                 \/ S!FinishRun(r) \/ S!Stop(r)
          PROVE  ShoppingInv'
      BY <3>2, ChooseNothingKeeps, GoShoppingKeeps, AddPurchaseKeeps, OrderKeeps, TransferKeeps,
         SettlePaidKeeps, SettleUnpaidKeeps, FinishRunKeeps, StopKeeps
    <3> QED
      BY <2>1, <3>1, <3>2, SpendElsewhereKeeps DEF S!Next
  <2>2. CASE UNCHANGED shoppingVars
    BY <2>2 DEF shoppingVars, ShoppingInv, S!TypeOK
  <2> QED
    BY <2>1, <2>2 DEF PotsNext, CaldronStep, DrawStep, ShoppingStep, pots
<1> QED
  BY <1>1, <1>2, PTL DEF PotsSpec

\* What a run was charged for is some of what it chose.
LEMMA ChargedWithinBudget ==
  ASSUME ShoppingInv, NEW r \in Runs, run[r] # S!NoRun
  PROVE  S!ChargedFor(r) <= run[r].budget
<1> DEFINE row == run[r]
           c == row.chosen
           m == Len(c)
           v == CostOf(c, Price)
           B == 1..m
           A == {p \in Products : <<r, p>> \in charged}
           f == [p \in A |-> CHOOSE i \in B : c[i] = p]
<1>1. row \in S!RunRow /\ ChosenInv(row) /\ LeftInv(row) /\ ChargedInv(r, row, bought, charged)
  BY DEF ShoppingInv, S!TypeOK, RunInv
<1>2. m \in Nat /\ \A i \in B : Price[c[i]] \in Nat
  BY <1>1, AtHand
<1>3. \A p \in A : \E i \in B : c[i] = p
  BY <1>1 DEF ChargedInv
<1>4. row.total = Total(B, v) /\ row.total <= row.budget
  BY <1>1 DEF ChosenInv
<1>5. \A i \in B : v[i] = Price[c[i]] /\ v[i] \in Nat
  BY <1>2 DEF CostOf
<1>6. IsFiniteSet(B)
  BY <1>2, FS_Interval
<1> HIDE DEF B, c, m, v, A
<1>7. \A p \in A : f[p] \in B /\ c[f[p]] = p
  BY <1>3
<1>8. f \in Injection(A, B)
  <2>1. f \in [A -> B]
    BY <1>7
  <2> HIDE DEF f
  <2>2. \A p, q \in A : f[p] = f[q] => p = q
    BY <1>7
  <2> QED
    BY <2>1, <2>2 DEF Injection, IsInjective
<1>9. \A p \in A : Price[p] = v[f[p]]
  BY <1>5, <1>7
<1> HIDE DEF f
<1>10. Total(A, Price) <= Total(B, v)
  BY <1>5, <1>6, <1>8, <1>9, TotalOfSome
<1>11. Total(A, Price) \in Nat /\ Total(B, v) \in Nat /\ row.budget \in Nat
  <2>1. IsFiniteSet(A)
    BY <1>6, <1>8, FS_Injection
  <2>2. \A p \in A : Price[p] \in Nat
    BY <1>5, <1>7, <1>9
  <2>3. row.budget \in Nat
    BY <1>1, PricesAssumption DEF S!RunRow
  <2> QED
    BY <1>5, <1>6, <2>1, <2>2, <2>3, TotalIsNat
<1>12. S!ChargedFor(r) = Total(A, Price)
  BY SameSums DEF S!ChargedFor, A
<1> HIDE DEF row
<1>13. Total(A, Price) <= row.budget
  BY <1>4, <1>10, <1>11
<1> QED
  BY <1>12, <1>13 DEF row

\* No run charges or spends more than its budget; only what was ordered is
\* charged, a row that says paid was charged, an empty run has cost nothing
\* and a run that is done has ordered everything, wherever a call fails, is
\* not answered, or the service stops (Run of the shopping worker).
THEOREM BudgetsAreKept == PotsSpec => []BudgetKept
<1>1. ShoppingInv => BudgetKept
  <2> SUFFICES ASSUME ShoppingInv, NEW r \in Runs, run[r] # S!NoRun
               PROVE  /\ S!ChargedFor(r) <= run[r].budget
                      /\ run[r].spent <= run[r].budget
                      /\ \A p \in Products : <<r, p>> \in charged => bought[<<r, p>>] > 0
                      /\ \A i \in DOMAIN purchases[r] :
                           purchases[r][i].paid => <<r, purchases[r][i].product>> \in charged
                      /\ run[r].state = "EMPTY" => S!ChargedFor(r) = 0
                      /\ run[r].state = "DONE" =>
                           \A i \in DOMAIN run[r].chosen : bought[<<r, run[r].chosen[i]>>] > 0
    BY DEF BudgetKept, S!BudgetKept
  <2>1. /\ run[r] \in S!RunRow /\ ChosenInv(run[r]) /\ LeftInv(run[r]) /\ OrderedInv(r, run[r], bought)
        /\ ChargedInv(r, run[r], bought, charged) /\ PaidInv(r, purchases[r], charged)
    BY DEF ShoppingInv, S!TypeOK, RunInv
  <2>2. run[r].spent <= run[r].budget
    <3> DEFINE t == Total(1..Passed(run[r]), CostOf(run[r].chosen, Price))
    <3>1. run[r].spent <= t
      BY <2>1 DEF LeftInv
    <3>2. t <= run[r].total /\ t \in Nat /\ run[r].total \in Nat /\ run[r].total <= run[r].budget
      BY <2>1, FirstCostNoMore
    <3>3. run[r].spent \in Nat
      BY <2>1, NumbersOfRun
    <3>4. run[r].budget \in Nat
      BY <2>1, PricesAssumption DEF S!RunRow
    <3> HIDE DEF t
    <3> QED
      BY <3>1, <3>2, <3>3, <3>4
  <2>3. DOMAIN purchases[r] = 1..Len(purchases[r])
    <3> DEFINE T == PurchaseRow
               ps == purchases[r]
    <3>1. ps \in Seq(T)
      BY RowsTyped
    <3> HIDE DEF T, ps
    <3>2. DOMAIN ps = 1..Len(ps)
      BY <3>1
    <3> QED
      BY <3>2 DEF ps
  <2>4. DOMAIN run[r].chosen = 1..Len(run[r].chosen)
    <3> DEFINE c == run[r].chosen
    <3>1. c \in Seq(Products)
      BY <2>1, AtHand
    <3> HIDE DEF c
    <3>2. DOMAIN c = 1..Len(c)
      BY <3>1
    <3> QED
      BY <3>2 DEF c
  <2>5. run[r].state = "EMPTY" => S!ChargedFor(r) = 0
    <3> SUFFICES ASSUME run[r].state = "EMPTY" PROVE S!ChargedFor(r) = 0
      OBVIOUS
    <3>1. {p \in Products : <<r, p>> \in charged} = {}
      BY <2>1 DEF ChargedInv
    <3>2. S!ChargedFor(r) = Total({}, Price)
      BY <3>1, SameSums DEF S!ChargedFor
    <3> QED
      BY <3>2, TotalEmpty
  <2> QED
    BY <2>1, <2>2, <2>3, <2>4, <2>5, ChargedWithinBudget DEF ChargedInv, PaidInv, OrderedInv
<1> QED
  BY <1>1, ShoppingInvariant, PTL

-----------------------------------------------------------------------------
(* Every member wins as often as any other.                                *)

\* A number is its quotient and its remainder.
LEMMA Division ==
  ASSUME NEW v \in Nat, NEW n \in Nat \ {0}
  PROVE  /\ v % n \in 0..n - 1 /\ v \div n \in Nat
         /\ v = (n * (v \div n)) + (v % n)
OBVIOUS

\* A number has one quotient and one remainder.
LEMMA DivisionIsUnique ==
  ASSUME NEW n \in Nat, NEW a \in Nat, NEW b \in Nat, NEW i \in 0..n - 1, NEW j \in 0..n - 1,
         (n * a) + i = (n * b) + j
  PROVE  a = b /\ i = j
<1>1. ASSUME NEW c \in Nat, NEW d \in Nat, c < d PROVE (n * c) + n <= n * d
  <2>1. n * (d - c - 1) >= 0 /\ d - c - 1 \in Nat
    BY <1>1
  <2>2. n * (d - c - 1) = (n * d) - (n * c) - n
    OBVIOUS
  <2> QED
    BY <2>1, <2>2
<1>2. ~(a < b)
  BY <1>1
<1>3. ~(b < a)
  BY <1>1
<1> QED
  BY <1>2, <1>3

\* Of q full rounds, q numbers have a remainder.
LEMMA Remainders ==
  ASSUME NEW n \in Nat \ {0}, NEW q \in Nat, NEW i \in 0..n - 1
  PROVE  Cardinality({v \in 0..(n * q) - 1 : v % n = i}) = q
<1> DEFINE A == 0..q - 1
           R == {v \in 0..(n * q) - 1 : v % n = i}
           f == [a \in A |-> (n * a) + i]
<1>1. ASSUME NEW a \in A PROVE (n * a) + i \in R
  <2>1. (n * a) + i \in Nat /\ n * a \in Nat
    OBVIOUS
  <2> DEFINE v == (n * a) + i
  <2>2. v \in Nat /\ v = (n * a) + i
    BY <2>1
  <2> HIDE DEF v
  <2>3. v % n = i
    <3>1. v % n \in 0..n - 1 /\ v \div n \in Nat /\ v = (n * (v \div n)) + (v % n)
      BY <2>2, Division
    <3> DEFINE d == v \div n
               r == v % n
    <3> HIDE DEF d, r
    <3>2. r \in 0..n - 1 /\ d \in Nat /\ (n * d) + r = (n * a) + i
      BY <2>2, <3>1 DEF d, r
    <3>3. r = i
      <4>1. a \in Nat /\ n \in Nat
        OBVIOUS
      <4> QED
        BY <3>2, <4>1, DivisionIsUnique
    <3> QED
      BY <3>3 DEF r
  <2>4. v < n * q
    <3>1. n * (q - a - 1) >= 0
      OBVIOUS
    <3>2. n * (q - a - 1) = (n * q) - (n * a) - n
      OBVIOUS
    <3>3. n * q \in Int /\ n * a \in Int
      OBVIOUS
    <3> QED
      BY <2>2, <3>1, <3>2, <3>3
  <2>5. n * q \in Int
    OBVIOUS
  <2> QED
    BY <2>2, <2>3, <2>4, <2>5 DEF v
<1>2. ASSUME NEW a \in A, NEW b \in A, (n * a) + i = (n * b) + i PROVE a = b
  BY <1>2, DivisionIsUnique
<1>3. ASSUME NEW v \in R PROVE \E a \in A : (n * a) + i = v
  <2>1. v \in Nat /\ v % n = i /\ v < n * q
    <3>1. n * q \in Int
      OBVIOUS
    <3> QED
      BY <3>1
  <2>2. v \div n \in Nat /\ v = (n * (v \div n)) + i
    BY <2>1, Division
  <2> DEFINE d == v \div n
  <2> HIDE DEF d
  <2>3. d \in Nat /\ v = (n * d) + i
    BY <2>2 DEF d
  <2>4. d < q
    <3>1. SUFFICES ASSUME q <= d PROVE FALSE
      BY <2>3
    <3>2. n * (d - q) >= 0
      BY <2>3, <3>1
    <3>3. n * (d - q) = (n * d) - (n * q)
      BY <2>3
    <3>4. n * d \in Int /\ n * q \in Int
      BY <2>3
    <3> QED
      BY <2>1, <2>3, <3>2, <3>3, <3>4
  <2> QED
    BY <2>3, <2>4
<1>4. f \in [A -> R]
  BY <1>1
<1>5. \A a, b \in A : f[a] = f[b] => a = b
  BY <1>2
<1>6. \A v \in R : \E a \in A : f[a] = v
  BY <1>3
<1> HIDE DEF f, R
<1>7. f \in Bijection(A, R)
  BY <1>4, <1>5, <1>6 DEF Bijection, Injection, IsInjective, Surjection
<1>8. IsFiniteSet(A) /\ Cardinality(A) = q
  BY FS_Interval
<1>9. Cardinality(R) = Cardinality(A)
  BY <1>7, <1>8, FS_Bijection DEF ExistsBijection
<1> QED
  BY <1>8, <1>9 DEF R

\* The values that are not thrown away are full rounds.
LEMMA RoundsAreHeard ==
  ASSUME NEW n \in Nat \ {0}
  PROVE  \E q \in Nat : {v \in Values : Accepted(n, v)} = 0..(n * q) - 1
<1> DEFINE w == 2^Width
           q == (w - 1) \div n
           r == (w - 1) % n
<1>1. w \in Nat \ {0}
  BY KeysAssumption
<1>2. /\ \A v : v \in Values <=> v \in 0..w - 1
      /\ \A v : Accepted(n, v) <=> v <= (w - 1) - r - 1
  BY DEF Values, Accepted
<1> HIDE DEF w
<1>3. r \in 0..n - 1 /\ q \in Nat /\ w - 1 = (n * q) + r
  <2>1. w - 1 \in Nat
    BY <1>1
  <2> DEFINE x == w - 1
  <2> HIDE DEF x
  <2>2. x % n \in 0..n - 1 /\ x \div n \in Nat /\ x = (n * (x \div n)) + (x % n)
    BY <2>1, Division DEF x
  <2> QED
    BY <2>2 DEF x
<1> HIDE DEF q, r
<1>4. n * q \in Nat
  BY <1>3
<1> DEFINE m == n * q
<1>5. m \in Nat /\ w - 1 = m + r
  BY <1>3, <1>4
<1> HIDE DEF m
<1>6. \A v : v \in Values /\ Accepted(n, v) <=> v \in 0..m - 1
  BY <1>1, <1>2, <1>3, <1>5
<1>7. {v \in Values : Accepted(n, v)} = 0..m - 1
  BY <1>6
<1> QED
  BY <1>3, <1>7 DEF m

\* Of a value that is not thrown away the remainder is the index.
LEMMA IndexIsRemainder ==
  ASSUME NEW n \in Nat, n > 1, NEW v, Accepted(n, v)
  PROVE  Index(n, <<v>>).at = v % n
<1> DEFINE s == <<v>>
           A == {i \in 1..Len(s) : Accepted(n, s[i])}
<1>1. A = {1} /\ s[1] = v
  OBVIOUS
<1>2. Min(A) = 1
  <2>1. \A y \in {1} : 1 <= y
    OBVIOUS
  <2> QED
    BY <1>1, <2>1 DEF Min
<1>3. SelectInSeq(s, LAMBDA x : Accepted(n, x)) = 1
  BY Zenon, <1>1, <1>2 DEF SelectInSeq
<1>4. ~(n <= 1)
  OBVIOUS
<1>5. Index(n, s).at = s[1] % n
  BY <1>3, <1>4 DEF Index
<1> QED
  BY <1>1, <1>5

\* The members are put into an order in which each has one position.
LEMMA MembersInOrder ==
  ASSUME NEW T \in SUBSET Int, IsFiniteSet(T), NEW items \in SetToSeqs(T), NEW u \in T
  PROVE  \E i \in 1..Cardinality(T) :
           \A k \in 1..Cardinality(T) : Canonical(items)[k] = u <=> k = i
<1> DEFINE n == Cardinality(T)
<1>1. /\ n \in Nat /\ items \in [1..n -> T]
      /\ \A i, j \in 1..n : items[i] = items[j] => i = j
      /\ \A x \in T : \E i \in 1..n : items[i] = x
  BY SequenceOfSet
<1> HIDE DEF n
<1>2. items \in [1..n -> Int]
  BY <1>1
<1>3. \E p \in Bijection(1..n, 1..n) :
        /\ Canonical(items) = [k \in 1..n |-> items[p[k]]]
        /\ \A k \in 1..n : Place(items, p[k]) = k
  BY <1>1, <1>2, CanonicalPermutes
<1>4. PICK p \in Bijection(1..n, 1..n) : Canonical(items) = [k \in 1..n |-> items[p[k]]]
  BY <1>3
<1>5. /\ \A k \in 1..n : p[k] \in 1..n
      /\ \A i, j \in 1..n : p[i] = p[j] => i = j
      /\ \A j \in 1..n : \E i \in 1..n : p[i] = j
  BY DEF Bijection, Injection, IsInjective, Surjection
<1>6. PICK j \in 1..n : items[j] = u
  BY <1>1
<1>7. PICK i \in 1..n : p[i] = j
  BY <1>5
<1>8. \A k \in 1..n : Canonical(items)[k] = items[p[k]]
  BY <1>4
<1>9. ASSUME NEW k \in 1..n PROVE items[p[k]] = u <=> k = i
  <2>1. items[p[k]] = u <=> p[k] = j
    BY <1>1, <1>5, <1>6
  <2>2. p[k] = j <=> k = i
    BY <1>5, <1>7
  <2> QED
    BY <2>1, <2>2
<1> QED
  BY <1>8, <1>9 DEF n

\* A finite set is put into a sequence that has each element once.
LEMMA SetHasSequence ==
  ASSUME NEW T, IsFiniteSet(T)
  PROVE  G!SetToSeq(T) \in SetToSeqs(T)
<1>1. ExistsBijection(1..Cardinality(T), T)
  BY FS_CardinalityType
<1>2. PICK f : f \in Bijection(1..Cardinality(T), T)
  BY <1>1 DEF ExistsBijection
<1>3. f \in [1..Cardinality(T) -> T] /\ \A i, j \in 1..Cardinality(T) : f[i] = f[j] => i = j
  BY <1>2 DEF Bijection, Injection, IsInjective
<1>4. G!SetToSeq(T) = CHOOSE g \in [1..Cardinality(T) -> T] : G!IsInjective(g)
  BY Zenon, SameSums DEF G!SetToSeq
<1>5. G!IsInjective(f)
  BY <1>3 DEF G!IsInjective
<1>6. G!SetToSeq(T) \in [1..Cardinality(T) -> T] /\ G!IsInjective(G!SetToSeq(T))
  BY <1>3, <1>4, <1>5
<1>7. \A i, j \in 1..Cardinality(T) : G!SetToSeq(T)[i] = G!SetToSeq(T)[j] => i = j
  BY <1>6 DEF G!IsInjective
<1> QED
  BY <1>6, <1>7 DEF SetToSeqs

\* Of the values that are heard, each member wins the same part.
LEMMA EqualParts ==
  ASSUME NEW T \in SUBSET Int, IsFiniteSet(T), Cardinality(T) > 1, NEW u \in T,
         NEW items \in SetToSeqs(T)
  PROVE  LET Heard == {v \in Values : Accepted(Cardinality(T), v)}
         IN Cardinality(T) * Cardinality({v \in Heard : Winner(<<v>>, items) = u})
              = Cardinality(Heard)
<1> DEFINE n == Cardinality(T)
           Heard == {v \in Values : Accepted(n, v)}
<1>1. n \in Nat \ {0} /\ n > 1 /\ items \in [1..n -> T]
  BY SequenceOfSet
<1>2. PICK i \in 1..n : \A k \in 1..n : Canonical(items)[k] = u <=> k = i
  BY MembersInOrder
<1> HIDE DEF n
<1>3. PICK q \in Nat : Heard = 0..(n * q) - 1
  BY <1>1, RoundsAreHeard
<1>4. ASSUME NEW v \in Heard PROVE Winner(<<v>>, items) = u <=> v % n = i - 1
  <2>1. Accepted(n, v)
    OBVIOUS
  <2>2. v \in Nat
    <3>1. n * q \in Nat
      BY <1>1
    <3> QED
      BY <1>3, <3>1
  <2>3. Index(n, <<v>>).at = v % n
    BY <1>1, <2>1, IndexIsRemainder
  <2>4. v % n \in 0..n - 1
    BY <1>1, <2>2, Division
  <2> DEFINE r == v % n
  <2> HIDE DEF r
  <2>5. r + 1 \in 1..n /\ (r + 1 = i <=> r = i - 1)
    BY <1>1, <2>4 DEF r
  <2>6. Len(items) = n
    BY <1>1
  <2>7. Winner(<<v>>, items) = Canonical(items)[r + 1]
    BY <2>3, <2>6 DEF Winner, r
  <2> QED
    BY <1>2, <2>5, <2>7 DEF r
<1>5. {v \in Heard : Winner(<<v>>, items) = u} = {v \in 0..(n * q) - 1 : v % n = i - 1}
  BY <1>3, <1>4
<1>6. Cardinality({v \in 0..(n * q) - 1 : v % n = i - 1}) = q
  <2>1. i - 1 \in 0..n - 1
    BY <1>1
  <2> QED
    BY <1>1, <2>1, Remainders
<1>7. Cardinality(Heard) = n * q
  <2>1. n * q \in Nat
    BY <1>1
  <2>2. Cardinality(0..(n * q) - 1) = n * q
    BY <2>1, FS_Interval
  <2> QED
    BY <1>3, <2>2
<1>8. Cardinality({v \in Heard : Winner(<<v>>, items) = u}) = q
  BY <1>5, <1>6
<1>9. n * Cardinality({v \in Heard : Winner(<<v>>, items) = u}) = Cardinality(Heard)
  BY <1>7, <1>8
<1> QED
  BY <1>9 DEF n

\* Of the random values that are not thrown away, each member wins with the
\* same number of values: no member is more likely than another (Index of the
\* draw, which rejects the tail of the range).
THEOREM MembersAreAlike == PotsSpec => []EveryMemberAlike
<1>1. DrawInv => EveryMemberAlike
  <2> SUFFICES ASSUME DrawInv PROVE EveryMemberAlike
    OBVIOUS
  <2> DEFINE T == pot.members
             items == G!SetToSeq(T)
             n == Cardinality(T)
  <2>1. T \in SUBSET Int /\ IsFiniteSet(T)
    BY GroupsAssumption, KeysAssumption DEF DrawInv
  <2>2. items \in SetToSeqs(T)
    BY <2>1, SetHasSequence
  <2>3. n \in Nat /\ Len(items) = n
    BY <2>1, <2>2, SequenceOfSet
  <2>4. /\ G!Values = Values /\ \A m, v : G!Accepted(m, v) = Accepted(m, v)
        /\ \A s, m : G!SelectWinner(s, m) = Winner(s, m)
        /\ \A A : G!Cardinality(A) = Cardinality(A)
    BY Zenon, SameChoice, SameSums DEF G!Values, Values, G!Accepted, Accepted, G!SelectWinner, Winner
  <2>5. ASSUME NEW u \in T, n > 1
        PROVE  LET Heard == {v \in Values : Accepted(n, v)}
                   w     == [v \in Heard |-> Winner(<<v>>, items)]
               IN n * Cardinality({v \in Heard : w[v] = u}) = Cardinality(Heard)
    <3> DEFINE Heard == {v \in Values : Accepted(n, v)}
               w     == [v \in Heard |-> Winner(<<v>>, items)]
    <3>1. n * Cardinality({v \in Heard : Winner(<<v>>, items) = u}) = Cardinality(Heard)
      BY <2>1, <2>2, <2>5, EqualParts
    <3>2. {v \in Heard : w[v] = u} = {v \in Heard : Winner(<<v>>, items) = u}
      OBVIOUS
    <3> QED
      BY <3>1, <3>2
  <2> QED
    BY Zenon, <2>3, <2>4, <2>5 DEF EveryMemberAlike, G!EveryMemberAlike
<1> QED
  BY <1>1, DrawInvariant, PTL

=============================================================================
