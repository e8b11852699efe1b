--------------------------- MODULE AmountsProofs ---------------------------
(***************************************************************************)
(* What Total does with one row more, one row less, fewer rows.  These are *)
(* the facts on sums that the invariants of the services rest on.          *)
(***************************************************************************)
EXTENDS Amounts, FiniteSetTheorems, TLAPS

\* A finite set of rows holds finitely many units, so its sum is a number.
LEMMA TotalIsNat ==
  ASSUME NEW S, IsFiniteSet(S), NEW value, \A s \in S : value[s] \in Nat
  PROVE  IsFiniteSet(Units(S, value)) /\ Total(S, value) \in Nat
<1> DEFINE f == [r \in S |-> {r} \X (1..value[r])]
           T == {{r} \X (1..value[r]) : r \in S}
<1>1. f \in Surjection(S, T)
  BY DEF Surjection
<1>2. IsFiniteSet(T)
  BY <1>1, FS_Surjection
<1>3. ASSUME NEW U \in T PROVE IsFiniteSet(U)
  <2>1. PICK r \in S : U = {r} \X (1..value[r])
    BY <1>3
  <2>2. 1 \in Int /\ value[r] \in Int
    OBVIOUS
  <2>3. IsFiniteSet({r}) /\ IsFiniteSet(1..value[r])
    BY <2>2, FS_Singleton, FS_Interval
  <2> QED
    BY <2>1, <2>3, FS_Product
<1>4. IsFiniteSet(UNION T)
  BY <1>2, <1>3, FS_UNION
<1> QED
  BY <1>4, FS_CardinalityType DEF Units, Total

\* The sum looks at the values of its own rows only.
LEMMA TotalSame ==
  ASSUME NEW S, NEW v, NEW w, \A r \in S : v[r] = w[r]
  PROVE  Total(S, v) = Total(S, w)
<1>1. Units(S, v) = Units(S, w)
  BY DEF Units
<1> QED
  BY <1>1 DEF Total

\* No rows, no money.
LEMMA TotalEmpty ==
  ASSUME NEW value
  PROVE  Total({}, value) = 0
<1>1. Units({}, value) = {}
  BY DEF Units
<1> QED
  BY <1>1, FS_EmptySet DEF Total

\* A row more adds its value.
LEMMA TotalAdd ==
  ASSUME NEW S, IsFiniteSet(S), NEW r, r \notin S, NEW value,
         \A s \in S \cup {r} : value[s] \in Nat
  PROVE  Total(S \cup {r}, value) = Total(S, value) + value[r]
<1> DEFINE own == {r} \X (1..value[r])
<1>1. Total(S \cup {r}, value) = Cardinality(Units(S, value) \cup own)
  <2>1. Units(S \cup {r}, value) = Units(S, value) \cup own
    BY DEF Units
  <2> QED
    BY <2>1 DEF Total
<1>2. Units(S, value) \cap own = {}
  BY DEF Units
<1>3. IsFiniteSet(Units(S, value)) /\ Total(S, value) \in Nat
  BY TotalIsNat
<1>4. IsFiniteSet(own) /\ Cardinality(own) = value[r]
  <2>1. IsFiniteSet({r}) /\ Cardinality({r}) = 1
    BY FS_Singleton
  <2>2. IsFiniteSet(1..value[r]) /\ Cardinality(1..value[r]) = value[r]
    BY FS_Interval
  <2> QED
    BY <2>1, <2>2, FS_Product
<1>5. Cardinality(Units(S, value) \cup own) =
        Cardinality(Units(S, value)) + Cardinality(own) - Cardinality({})
  BY <1>2, <1>3, <1>4, FS_Union
<1>6. Cardinality({}) = 0
  BY FS_EmptySet
<1>7. Cardinality(Units(S, value)) = Total(S, value)
  BY DEF Total
<1>8. value[r] \in Nat
  OBVIOUS
<1> HIDE DEF own
<1> QED
  BY <1>1, <1>3, <1>4, <1>5, <1>6, <1>7, <1>8

\* A row less takes its value away, and a row is worth at most the whole.
LEMMA TotalRemove ==
  ASSUME NEW S, IsFiniteSet(S), NEW r \in S, NEW value,
         \A s \in S : value[s] \in Nat
  PROVE  /\ Total(S \ {r}, value) = Total(S, value) - value[r]
         /\ value[r] <= Total(S, value)
<1>1. IsFiniteSet(S \ {r})
  BY FS_RemoveElement
<1>2. (S \ {r}) \cup {r} = S
  OBVIOUS
<1>3. Total(S, value) = Total(S \ {r}, value) + value[r]
  BY <1>1, <1>2, TotalAdd
<1>4. Total(S \ {r}, value) \in Nat
  BY <1>1, TotalIsNat
<1> QED
  BY <1>3, <1>4

\* Fewer rows never hold more.
LEMMA TotalSubset ==
  ASSUME NEW S, IsFiniteSet(S), NEW T \in SUBSET S, NEW value,
         \A s \in S : value[s] \in Nat
  PROVE  Total(T, value) <= Total(S, value)
<1>1. Units(T, value) \in SUBSET Units(S, value)
  BY DEF Units
<1>2. IsFiniteSet(Units(S, value))
  BY TotalIsNat
<1> QED
  BY <1>1, <1>2, FS_Subset DEF Total

\* Rows that are worth no more hold no more.
LEMMA TotalAtMost ==
  ASSUME NEW S, IsFiniteSet(S), NEW v, NEW w,
         \A s \in S : v[s] \in Nat /\ w[s] \in Nat /\ v[s] <= w[s]
  PROVE  Total(S, v) <= Total(S, w)
<1>1. Units(S, v) \in SUBSET Units(S, w)
  <2> SUFFICES ASSUME NEW s \in S, NEW i \in 1..v[s]
               PROVE  i \in 1..w[s]
    BY DEF Units
  <2> QED
    OBVIOUS
<1>2. IsFiniteSet(Units(S, w))
  BY TotalIsNat
<1> QED
  BY <1>1, <1>2, FS_Subset DEF Total

\* Rows that are worth nothing hold nothing.
LEMMA TotalOfNothing ==
  ASSUME NEW S, NEW value, \A s \in S : value[s] = 0
  PROVE  Total(S, value) = 0
<1>1. Units(S, value) = {}
  BY DEF Units
<1> QED
  BY <1>1, FS_EmptySet DEF Total

\* Rows that are some of other rows are worth no more.
LEMMA TotalOfSome ==
  ASSUME NEW S, NEW R, IsFiniteSet(R), NEW f \in Injection(S, R), NEW v, NEW w,
         \A s \in S : v[s] = w[f[s]], \A r \in R : w[r] \in Nat
  PROVE  /\ Total(S, v) <= Total(R, w)
         /\ f \in Surjection(S, R) => Total(S, v) = Total(R, w)
<1> DEFINE A == Units(S, v)
           B == Units(R, w)
           g == [u \in A |-> <<f[u[1]], u[2]>>]
<1>1. \A s \in S : f[s] \in R
  BY DEF Injection
<1>1a. \A s, t \in S : f[s] = f[t] => s = t
  BY DEF Injection, IsInjective
<1>2. ASSUME NEW u \in A PROVE \E s \in S : \E i \in 1..v[s] : u = <<s, i>>
  BY DEF Units
<1>3. ASSUME NEW s \in S, NEW i \in 1..v[s] PROVE <<f[s], i>> \in B
  <2>1. f[s] \in R /\ i \in 1..w[f[s]]
    BY <1>1
  <2> QED
    BY <2>1 DEF Units
<1>4. ASSUME NEW u \in A PROVE g[u] \in B
  <2>1. PICK s \in S : \E i \in 1..v[s] : u = <<s, i>>
    BY <1>2
  <2>2. PICK i \in 1..v[s] : u = <<s, i>>
    BY <2>1
  <2> HIDE DEF A, B
  <2>3. g[u] = <<f[s], i>>
    BY <2>2
  <2> QED
    BY <1>3, <2>3
<1>5. ASSUME NEW a \in A, NEW b \in A, g[a] = g[b] PROVE a = b
  <2>1. PICK s \in S : \E i \in 1..v[s] : a = <<s, i>>
    BY <1>2
  <2>2. PICK i \in 1..v[s] : a = <<s, i>>
    BY <2>1
  <2>3. PICK t \in S : \E j \in 1..v[t] : b = <<t, j>>
    BY <1>2
  <2>4. PICK j \in 1..v[t] : b = <<t, j>>
    BY <2>3
  <2> HIDE DEF A, B
  <2>5. g[a] = <<f[s], i>> /\ g[b] = <<f[t], j>>
    BY <2>2, <2>4
  <2>6. f[s] = f[t] /\ i = j
    BY <1>5, <2>5
  <2> QED
    BY <1>1a, <2>2, <2>4, <2>6
<1>6. IsFiniteSet(B)
  BY TotalIsNat
<1>7. g \in Injection(A, B)
  <2> HIDE DEF A, B
  <2>1. g \in [A -> B]
    BY <1>4
  <2>2. \A a, b \in A : g[a] = g[b] => a = b
    BY <1>5
  <2> HIDE DEF g
  <2> QED
    BY <2>1, <2>2 DEF Injection, IsInjective
<1>8. Cardinality(A) <= Cardinality(B) /\ (g \in Surjection(A, B) => Cardinality(A) = Cardinality(B))
  <2> HIDE DEF A, B, g
  <2> QED
    BY <1>6, <1>7, FS_Injection
<1>9. ASSUME f \in Surjection(S, R) PROVE g \in Surjection(A, B)
  <2>1. ASSUME NEW z \in B PROVE \E u \in A : g[u] = z
    <3>1. PICK r \in R : \E i \in 1..w[r] : z = <<r, i>>
      BY DEF Units
    <3>2. PICK i \in 1..w[r] : z = <<r, i>>
      BY <3>1
    <3>3. PICK s \in S : f[s] = r
      BY <1>9 DEF Surjection
    <3>4. <<s, i>> \in A
      <4>1. i \in 1..v[s]
        BY <3>3
      <4> QED
        BY <4>1 DEF Units
    <3> HIDE DEF A, B
    <3>5. g[<<s, i>>] = z
      BY <3>2, <3>3, <3>4
    <3> QED
      BY <3>4, <3>5
  <2> HIDE DEF A, B
  <2>2. g \in [A -> B]
    BY <1>4
  <2> HIDE DEF g
  <2> QED
    BY <2>1, <2>2 DEF Surjection
<1> QED
  BY <1>8, <1>9 DEF Total
=============================================================================
