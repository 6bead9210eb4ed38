--------------------------- MODULE ExchangeProofs ---------------------------
(***************************************************************************)
(* Proofs about the discovery of pools, for every page size and cap, and   *)
(* however the factory and the subgraph grow while a call runs: the list   *)
(* of v2 is exactly the pairs of the block asked for, and the call fails   *)
(* for one reason only; the list of v3 is the subgraph's when nothing was  *)
(* indexed meanwhile, and repeats a pool no more often than others were.   *)
(* Then about the records that fetch_pools makes of a list, for every list *)
(* and size of its pages: each is made of what was read of its own pool,   *)
(* and arrives at another process as it was.                               *)
(***************************************************************************)
EXTENDS DexView, ExchangeClient, FiniteSetTheorems, FunctionTheorems,
        WellFoundedInduction, TLAPS

-----------------------------------------------------------------------------
(* Lists that are joined up from pages.                                    *)

(* A set of natural numbers that is not empty has a least element: this is *)
(* what the inductions below rest on.                                      *)
LEMMA Least ==
  ASSUME NEW T \in SUBSET Nat, T # {}
  PROVE  \E n \in T : \A m \in T : n <= m
<1>1. PICK n \in T : \A m \in T : ~(<<m, n>> \in OpToRel(<, Nat))
  BY NatLessThanWellFounded, WFMin
<1>2. ASSUME NEW m \in T, m < n PROVE FALSE
  <2>1. <<m, n>> \in Nat \X Nat /\ <<m, n>>[1] = m /\ <<m, n>>[2] = n
    OBVIOUS
  <2>2. <<m, n>> \in OpToRel(<, Nat)
    BY <1>2, <2>1 DEF OpToRel
  <2>3. QED
    BY <1>1, <2>2
<1>3. QED
  BY <1>2

(* f joins up the first m parts, a part at a time. *)
Joins(f, parts, m) ==
  \A k \in 1..m : f[k] = IF k = 1 THEN parts[1] ELSE f[k - 1] \o parts[k]

(* The library's concatenation is such an f. *)
LEMMA FlattenJoins ==
  ASSUME NEW X, NEW parts \in Seq(Seq(X)), Len(parts) > 0
  PROVE  \E f \in [1..Len(parts) -> Seq(X)] :
           Joins(f, parts, Len(parts)) /\ FlattenSeq(parts) = f[Len(parts)]
<1>1. PICK n \in Nat : n = Len(parts) /\ n > 0
  OBVIOUS
<1>2. \A k \in 1..n : parts[k] \in Seq(X)
  BY <1>1
<1> DEFINE Step(g, k) == IF k = 1 THEN parts[k] ELSE g[k - 1] \o parts[k]
           T == {m \in 1..n : ~\E g \in [1..n -> Seq(X)] : Joins(g, parts, m)}
<1>3. T = {}
  <2>1. SUFFICES ASSUME T # {} PROVE FALSE
    OBVIOUS
  <2>2. T \in SUBSET Nat
    BY <1>1
  <2>3. PICK m \in T : \A j \in T : m <= j
    BY <2>1, <2>2, Least
  <2>4. m # 1
    <3>1. PICK g : g = [k \in 1..n |-> parts[1]]
      OBVIOUS
    <3>2. 1 \in 1..n /\ parts[1] \in Seq(X)
      BY <1>1, <1>2
    <3>3. g \in [1..n -> Seq(X)] /\ Joins(g, parts, 1)
      BY <3>1, <3>2 DEF Joins
    <3>4. QED
      BY <3>3
  <2>5. m \in 2..n /\ m - 1 \in 1..n
    BY <1>1, <2>4
  <2>6. m - 1 \notin T
    <3> HIDE DEF T
    <3>1. QED
      BY <1>1, <2>3, <2>5
  <2>7. PICK g \in [1..n -> Seq(X)] : Joins(g, parts, m - 1)
    BY <2>5, <2>6
  <2>8. Step(g, m) \in Seq(X)
    BY <1>2, <2>5, <2>7
  <2>9. PICK h : h = [g EXCEPT ![m] = Step(g, m)]
    OBVIOUS
  <2>10. h \in [1..n -> Seq(X)]
    BY <2>8, <2>9
  <2>11. Joins(h, parts, m)
    <3>1. ASSUME NEW k \in 1..m
          PROVE  h[k] = IF k = 1 THEN parts[1] ELSE h[k - 1] \o parts[k]
      <4>1. CASE k = m
        BY <2>5, <2>9, <4>1
      <4>2. CASE k # m
        <5>1. /\ k \in 1..(m - 1) /\ k \in 1..n /\ (k # 1 => k - 1 \in 1..n /\ k - 1 # m)
          BY <1>1, <2>5, <4>2
        <5>2. g[k] = IF k = 1 THEN parts[1] ELSE g[k - 1] \o parts[k]
          BY <2>7, <5>1 DEF Joins
        <5>3. h[k] = g[k] /\ (k # 1 => h[k - 1] = g[k - 1])
          BY <2>9, <4>2, <5>1
        <5>4. QED
          BY <5>2, <5>3
      <4>3. QED
        BY <4>1, <4>2
    <3>2. QED
      BY <3>1 DEF Joins
  <2>12. QED
    BY <2>10, <2>11
<1>4. PICK g \in [1..n -> Seq(X)] : Joins(g, parts, n)
  <2>1. n \in 1..n
    BY <1>1
  <2>2. QED
    BY <1>3, <2>1
<1>5. g = [k \in 1..n |-> Step(g, k)]
  <2>1. g = [k \in 1..n |-> g[k]]
    BY <1>4
  <2>2. \A k \in 1..n : g[k] = Step(g, k)
    BY <1>4 DEF Joins
  <2>3. QED
    BY <2>1, <2>2
<1> DEFINE F == CHOOSE f : f = [k \in 1..Len(parts) |->
                                 IF k = 1 THEN parts[k] ELSE f[k - 1] \o parts[k]]
<1>6. F = [k \in 1..Len(parts) |-> IF k = 1 THEN parts[k] ELSE F[k - 1] \o parts[k]]
  BY <1>1, <1>5
<1>7. FlattenSeq(parts) = F[n]
  BY <1>1 DEF FlattenSeq
<1> HIDE DEF F
<1>8. \A k \in 1..n : F[k] = IF k = 1 THEN parts[1] ELSE F[k - 1] \o parts[k]
  BY <1>1, <1>6
<1> DEFINE U == {m \in 1..n : F[m] \notin Seq(X)}
<1>9. U = {}
  <2>1. SUFFICES ASSUME U # {} PROVE FALSE
    OBVIOUS
  <2>2. U \in SUBSET Nat
    BY <1>1
  <2>3. PICK m \in U : \A j \in U : m <= j
    BY <2>1, <2>2, Least
  <2>4. m # 1
    BY <1>2, <1>8
  <2>5. m \in 2..n /\ m - 1 \in 1..n
    BY <1>1, <2>4
  <2>6. m - 1 \notin U
    <3> HIDE DEF U
    <3>1. QED
      BY <1>1, <2>3, <2>5
  <2>7. F[m - 1] \in Seq(X) /\ parts[m] \in Seq(X)
    BY <1>2, <2>5, <2>6
  <2>8. F[m] \in Seq(X)
    <3>1. F[m] = F[m - 1] \o parts[m]
      BY <1>8, <2>4, <2>3
    <3>2. QED
      BY <2>7, <3>1
  <2>9. QED
    BY <2>8
<1>10. F \in [1..n -> Seq(X)]
  <2>1. \A k \in 1..n : F[k] \in Seq(X)
    BY <1>9
  <2>2. F = [k \in 1..n |-> F[k]]
    BY <1>1, <1>6
  <2>3. QED
    BY <2>1, <2>2
<1>11. QED
  BY <1>1, <1>7, <1>8, <1>10 DEF Joins

LEMMA SameSequence ==
  ASSUME NEW X, NEW s \in Seq(X), NEW t \in Seq(X), Len(s) = Len(t),
         \A i \in 1..Len(s) : s[i] = t[i]
  PROVE  s = t
OBVIOUS

(* The elements of L after the a-th, up to the b-th. *)
Part(L, a, b) == SubSeq(L, a + 1, Lesser(b, Len(L)))

LEMMA PartOf ==
  ASSUME NEW X, NEW L \in Seq(X), NEW a \in Nat, NEW b \in Nat
  PROVE  /\ Part(L, a, b) \in Seq(X)
         /\ Len(Part(L, a, b)) = IF Lesser(b, Len(L)) > a THEN Lesser(b, Len(L)) - a ELSE 0
         /\ \A i \in 1..Len(Part(L, a, b)) : Part(L, a, b)[i] = L[a + i]
<1>1. PICK l, m : l = Len(L) /\ m = Lesser(b, l)
  OBVIOUS
<1>2. l \in Nat /\ m \in Nat /\ m <= l /\ DOMAIN L = 1..l /\ \A i \in 1..l : L[i] \in X
  BY <1>1 DEF Lesser
<1>3. PICK q : q = SubSeq(L, a + 1, m)
  OBVIOUS
<1>4. CASE m > a
  <2>1. q = [i \in 1..(m - a) |-> L[a + i]]
    BY <1>2, <1>3, <1>4
  <2>2. \A i \in 1..(m - a) : L[a + i] \in X
    BY <1>2, <1>4
  <2>3. q \in Seq(X) /\ Len(q) = m - a
    BY <1>2, <1>4, <2>1, <2>2
  <2>4. QED
    BY <1>1, <1>3, <1>4, <2>1, <2>3 DEF Part
<1>5. CASE ~(m > a)
  <2>1. q = <<>>
    BY <1>2, <1>3, <1>5
  <2>2. q \in Seq(X) /\ Len(q) = 0
    BY <2>1
  <2>3. QED
    BY <1>1, <1>3, <1>5, <2>2 DEF Part
<1>6. QED
  BY <1>4, <1>5

LEMMA PartFromStart ==
  ASSUME NEW X, NEW L \in Seq(X), NEW b \in Nat
  PROVE  /\ Part(L, 0, b) \in Seq(X) /\ Len(Part(L, 0, b)) = Lesser(b, Len(L))
         /\ \A i \in 1..Len(Part(L, 0, b)) : Part(L, 0, b)[i] = L[i]
<1>1. PICK x, m : x = Part(L, 0, b) /\ m = Lesser(b, Len(L))
  OBVIOUS
<1>2. m \in Nat
  <2>1. Len(L) \in Nat
    OBVIOUS
  <2>2. QED
    BY <1>1, <2>1 DEF Lesser
<1>3. x \in Seq(X) /\ Len(x) = (IF m > 0 THEN m - 0 ELSE 0) /\ \A i \in 1..Len(x) : x[i] = L[0 + i]
  <2>1. 0 \in Nat
    OBVIOUS
  <2>2. /\ Part(L, 0, b) \in Seq(X)
        /\ Len(Part(L, 0, b)) = IF Lesser(b, Len(L)) > 0 THEN Lesser(b, Len(L)) - 0 ELSE 0
        /\ \A i \in 1..Len(Part(L, 0, b)) : Part(L, 0, b)[i] = L[0 + i]
    BY <2>1, PartOf
  <2>3. QED
    BY <1>1, <2>2
<1>4. Len(x) = m
  BY <1>2, <1>3
<1>5. \A i \in 1..Len(x) : x[i] = L[i]
  <2>1. TAKE i \in 1..Len(x)
  <2>2. 0 + i = i
    BY <1>2, <1>4
  <2>3. QED
    BY <1>3, <2>2
<1>6. QED
  BY <1>1, <1>3, <1>4, <1>5

LEMMA PartsJoin ==
  ASSUME NEW X, NEW L \in Seq(X), NEW a \in Nat, NEW b \in Nat, a <= b
  PROVE  Part(L, 0, a) \o Part(L, a, b) = Part(L, 0, b)
<1>1. PICK l \in Nat : l = Len(L)
  OBVIOUS
<1>2. PICK x, y, z : x = Part(L, 0, a) /\ y = Part(L, a, b) /\ z = Part(L, 0, b)
  OBVIOUS
<1>3. /\ x \in Seq(X) /\ Len(x) = Lesser(a, l) /\ \A i \in 1..Len(x) : x[i] = L[i]
      /\ y \in Seq(X) /\ Len(y) = (IF Lesser(b, l) > a THEN Lesser(b, l) - a ELSE 0)
      /\ \A i \in 1..Len(y) : y[i] = L[a + i]
      /\ z \in Seq(X) /\ Len(z) = Lesser(b, l) /\ \A i \in 1..Len(z) : z[i] = L[i]
  <2>1. x \in Seq(X) /\ Len(x) = Lesser(a, l) /\ \A i \in 1..Len(x) : x[i] = L[i]
    BY <1>1, <1>2, PartFromStart
  <2>2. /\ y \in Seq(X) /\ Len(y) = (IF Lesser(b, l) > a THEN Lesser(b, l) - a ELSE 0)
        /\ \A i \in 1..Len(y) : y[i] = L[a + i]
    BY <1>1, <1>2, PartOf
  <2>3. z \in Seq(X) /\ Len(z) = Lesser(b, l) /\ \A i \in 1..Len(z) : z[i] = L[i]
    BY <1>1, <1>2, PartFromStart
  <2>4. QED
    BY <2>1, <2>2, <2>3
<1>4. Len(x) + Len(y) = Len(z) /\ Len(x) \in Nat /\ Len(y) \in Nat
      /\ (Len(y) > 0 => Len(x) = a)
  <2>1. PICK u, v, w : u = Len(x) /\ v = Len(y) /\ w = Len(z)
    OBVIOUS
  <2>2. /\ u = Lesser(a, l) /\ v = (IF Lesser(b, l) > a THEN Lesser(b, l) - a ELSE 0)
        /\ w = Lesser(b, l)
    BY <1>3, <2>1
  <2>3. u + v = w /\ u \in Nat /\ v \in Nat /\ (v > 0 => u = a)
    <3>1. PICK q, r : q = Lesser(a, l) /\ r = Lesser(b, l)
      OBVIOUS
    <3>2. /\ q \in Nat /\ r \in Nat /\ q <= r
          /\ (r > a => q = a) /\ (r <= a => q = r)
      BY <3>1 DEF Lesser
    <3>3. u = q /\ v = (IF r > a THEN r - a ELSE 0) /\ w = r
      BY <2>2, <3>1
    <3>4. CASE r > a
      BY <3>2, <3>3, <3>4
    <3>5. CASE ~(r > a)
      BY <3>2, <3>3, <3>5
    <3>6. QED
      BY <3>4, <3>5
  <2>4. QED
    BY <2>1, <2>3
<1>5. \A i \in 1..Len(z) : (x \o y)[i] = z[i]
  <2>1. TAKE i \in 1..Len(z)
  <2>2. CASE i <= Len(x)
    <3>1. i \in 1..Len(x)
      BY <1>4, <2>2
    <3>2. (x \o y)[i] = x[i]
      BY <1>3, <1>4, <3>1
    <3>3. QED
      BY <1>3, <3>1, <3>2
  <2>3. CASE ~(i <= Len(x))
    <3>1. i - Len(x) \in 1..Len(y) /\ Len(x) = a
      BY <1>4, <2>3
    <3>2. (x \o y)[i] = y[i - Len(x)]
      <4>1. x \in Seq(X) /\ y \in Seq(X) /\ Len(x) \in Nat /\ Len(y) \in Nat
        BY <1>3
      <4>2. i \in (Len(x) + 1)..(Len(x) + Len(y))
        BY <2>3, <3>1, <4>1
      <4>3. QED
        BY <4>1, <4>2
    <3>3. y[i - a] = L[a + (i - a)] /\ a + (i - a) = i
      BY <1>3, <3>1
    <3>4. QED
      BY <1>3, <3>1, <3>2, <3>3
  <2>4. QED
    BY <2>2, <2>3
<1>6. x \o y \in Seq(X) /\ Len(x \o y) = Len(z)
  <2>1. x \in Seq(X) /\ y \in Seq(X)
    BY <1>3
  <2>2. x \o y \in Seq(X) /\ Len(x \o y) = Len(x) + Len(y)
    BY <2>1
  <2>3. QED
    BY <1>4, <2>2
<1>7. x \o y = z
  BY <1>3, <1>5, <1>6, SameSequence
<1>8. QED
  BY <1>2, <1>7

(* Pages of the same size that are parts of one list join up to it. *)
LEMMA PagesJoin ==
  ASSUME NEW X, NEW L \in Seq(X), NEW parts \in Seq(Seq(X)), NEW P \in Nat \ {0},
         \A k \in 1..Len(parts) : parts[k] = Part(L, (k - 1) * P, k * P)
  PROVE  FlattenSeq(parts) = Part(L, 0, Len(parts) * P)
<1>1. PICK n \in Nat : n = Len(parts)
  OBVIOUS
<1>2. CASE n = 0
  <2>1. parts = <<>> /\ FlattenSeq(parts) = parts
    <3>1. Len(parts) = 0
      BY <1>1, <1>2
    <3>2. parts = <<>>
      BY <3>1
    <3>3. QED
      BY <3>1, <3>2 DEF FlattenSeq
  <2>2. n * P = 0 /\ 0 \in Nat
    BY <1>2
  <2>3. PICK q : q = Part(L, 0, 0)
    OBVIOUS
  <2>4. q \in Seq(X) /\ Len(q) = 0
    <3>1. Lesser(0, Len(L)) = 0
      BY DEF Lesser
    <3>2. QED
      BY <2>2, <2>3, <3>1, PartOf
  <2>5. q = <<>>
    BY <2>4
  <2>6. QED
    BY <1>1, <2>1, <2>2, <2>3, <2>5
<1>3. CASE n # 0
  <2>1. PICK f \in [1..n -> Seq(X)] : Joins(f, parts, n) /\ FlattenSeq(parts) = f[n]
    BY <1>1, <1>3, FlattenJoins
  <2> DEFINE T == {m \in 1..n : f[m] # Part(L, 0, m * P)}
  <2>2. T = {}
    <3>1. SUFFICES ASSUME T # {} PROVE FALSE
      OBVIOUS
    <3>2. T \in SUBSET Nat
      BY <1>1
    <3>3. PICK m \in T : \A j \in T : m <= j
      BY <3>1, <3>2, Least
    <3>4. m # 1
      <4>1. 1 \in 1..n /\ (1 - 1) * P = 0
        BY <1>1, <1>3
      <4>2. f[1] = Part(L, 0, 1 * P)
        BY <1>1, <2>1, <4>1 DEF Joins
      <4>3. QED
        BY <4>2
    <3>5. m \in 2..n /\ m - 1 \in 1..n /\ m \in 1..n
      BY <1>1, <3>4
    <3>6. m - 1 \notin T
      <4> HIDE DEF T
      <4>1. QED
        BY <1>1, <3>3, <3>5
    <3>7. f[m] = f[m - 1] \o parts[m]
      BY <2>1, <3>4, <3>5 DEF Joins
    <3>8. f[m - 1] = Part(L, 0, (m - 1) * P) /\ parts[m] = Part(L, (m - 1) * P, m * P)
      BY <1>1, <3>5, <3>6
    <3>9. PICK a, b : a = (m - 1) * P /\ b = m * P
      OBVIOUS
    <3>10. a \in Nat /\ b \in Nat /\ a <= b
      <4>1. b = a + P
        BY <3>5, <3>9
      <4>2. a \in Nat
        BY <3>5, <3>9
      <4>3. QED
        BY <4>1, <4>2
    <3>11. f[m] = Part(L, 0, b)
      <4>1. Part(L, 0, a) \o Part(L, a, b) = Part(L, 0, b)
        BY <3>10, PartsJoin
      <4>2. QED
        BY <3>7, <3>8, <3>9, <4>1
    <3>12. QED
      BY <3>9, <3>11
  <2>3. n \in 1..n
    BY <1>1, <1>3
  <2>4. f[n] = Part(L, 0, n * P)
    BY <2>2, <2>3
  <2>5. QED
    BY <1>1, <2>1, <2>4
<1>4. QED
  BY <1>2, <1>3

-----------------------------------------------------------------------------
(* Lists in an order, and the starts of pages.                             *)

(* The library's operators are the same behind the instance of the module. *)
LEMMA SameOperators ==
  ASSUME NEW S
  PROVE  /\ V3!Cardinality(S) = Cardinality(S)
         /\ V3!FlattenSeq(S) = FlattenSeq(S)
         /\ V3!ToSet(S) = ToSet(S)
BY DEF V3!Cardinality, Cardinality, V3!FlattenSeq, FlattenSeq, V3!ToSet, ToSet

(* How many of S come before x. *)
Rank(S, x) == Cardinality({y \in S : y < x})

LEMMA RankBelow ==
  ASSUME NEW S \in SUBSET Nat, IsFiniteSet(S), NEW x \in S
  PROVE  Rank(S, x) \in Nat /\ Rank(S, x) < Cardinality(S)
<1>1. PICK T : T = {y \in S : y < x}
  OBVIOUS
<1>2. T \in SUBSET S /\ x \notin T
  BY <1>1
<1>3. IsFiniteSet(T) /\ Cardinality(T) <= Cardinality(S) /\ Cardinality(T) # Cardinality(S)
  BY <1>2, FS_Subset
<1>4. Cardinality(T) \in Nat /\ Cardinality(S) \in Nat
  BY <1>3, FS_CardinalityType
<1>5. QED
  BY <1>1, <1>3, <1>4 DEF Rank

LEMMA RankOrder ==
  ASSUME NEW S \in SUBSET Nat, IsFiniteSet(S), NEW x \in S, NEW y \in S, x < y
  PROVE  Rank(S, x) < Rank(S, y)
<1>1. PICK T : T = {z \in S : z < y}
  OBVIOUS
<1>2. T \in SUBSET Nat /\ T \in SUBSET S /\ x \in T
  BY <1>1
<1>3. IsFiniteSet(T)
  BY <1>2, FS_Subset
<1>4. {z \in T : z < x} = {z \in S : z < x}
  <2>1. \A z \in S : z < x => z < y
    OBVIOUS
  <2>2. QED
    BY <1>1, <2>1
<1>5. Rank(T, x) < Cardinality(T)
  BY <1>2, <1>3, RankBelow
<1>6. QED
  BY <1>1, <1>4, <1>5 DEF Rank

(* The listing of S has every element of S at the place of its rank. *)
LEMMA ListingRanks ==
  ASSUME NEW S \in SUBSET Nat, IsFiniteSet(S)
  PROVE  /\ V3!Listing(S) \in Seq(S)
         /\ Len(V3!Listing(S)) = Cardinality(S) /\ Cardinality(S) \in Nat
         /\ \A x \in S : V3!Listing(S)[Rank(S, x) + 1] = x
         /\ \A k \in 1..Cardinality(S) : Rank(S, V3!Listing(S)[k]) = k - 1
<1>1. PICK n : n = Cardinality(S)
  OBVIOUS
<1>2. n \in Nat
  BY <1>1, FS_CardinalityType
<1>3. PICK f : f = [x \in S |-> Rank(S, x) + 1]
  OBVIOUS
<1>4. f \in [S -> 1..n]
  <2>1. \A x \in S : Rank(S, x) + 1 \in 1..n
    BY <1>1, <1>2, RankBelow
  <2>2. QED
    BY <1>3, <2>1
<1>5. \A x, y \in S : f[x] = f[y] => x = y
  <2>1. TAKE x, y \in S
  <2>2. Rank(S, x) \in Nat /\ Rank(S, y) \in Nat
    BY RankBelow
  <2>3. x < y => Rank(S, x) < Rank(S, y)
    BY RankOrder
  <2>4. y < x => Rank(S, y) < Rank(S, x)
    BY RankOrder
  <2>5. x \in Nat /\ y \in Nat
    OBVIOUS
  <2>6. f[x] = Rank(S, x) + 1 /\ f[y] = Rank(S, y) + 1
    BY <1>3
  <2>7. QED
    BY <2>2, <2>3, <2>4, <2>5, <2>6
<1>6. f \in Injection(S, 1..n)
  BY <1>4, <1>5, Fun_IsInj
<1>7. IsFiniteSet(1..n) /\ Cardinality(1..n) = n
  <2>1. 1 \in Int /\ n \in Int
    BY <1>2
  <2>2. IsFiniteSet(1..n) /\ Cardinality(1..n) = (IF 1 > n THEN 0 ELSE n - 1 + 1)
    BY <2>1, FS_Interval
  <2>3. QED
    BY <1>2, <2>2
<1>8. f \in Surjection(S, 1..n)
  BY <1>1, <1>6, <1>7, FS_Injection
<1>9. \A k \in 1..n : \E x \in S : Rank(S, x) = k - 1
  <2>1. TAKE k \in 1..n
  <2>2. PICK x \in S : f[x] = k
    <3>1. \A t \in 1..n : \E s \in S : f[s] = t
      BY <1>8, Fun_SurjectionProperties
    <3>2. QED
      BY <3>1
  <2>3. Rank(S, x) \in Nat /\ Rank(S, x) + 1 = k
    BY <1>3, <2>2, RankBelow
  <2>4. Rank(S, x) = k - 1
    BY <2>3
  <2>5. QED
    BY <2>4
<1>10. PICK q : q = V3!Listing(S)
  OBVIOUS
<1>11. q = [k \in 1..n |-> CHOOSE x \in S : Rank(S, x) = k - 1]
  <2>1. q = [k \in 1..V3!Cardinality(S) |->
               CHOOSE x \in S : V3!Cardinality({y \in S : y < x}) = k - 1]
    BY <1>10 DEF V3!Listing
  <2>2. \A x : V3!Cardinality({y \in S : y < x}) = Rank(S, x)
    BY SameOperators DEF Rank
  <2>3. V3!Cardinality(S) = n
    BY <1>1, SameOperators
  <2>4. QED
    BY <2>1, <2>2, <2>3
<1>12. \A k \in 1..n : q[k] \in S /\ Rank(S, q[k]) = k - 1
  BY <1>9, <1>11
<1>13. q \in Seq(S) /\ Len(q) = n
  BY <1>2, <1>11, <1>12
<1>14. ASSUME NEW x \in S PROVE q[Rank(S, x) + 1] = x
  <2>1. Rank(S, x) \in Nat /\ Rank(S, x) + 1 \in 1..n /\ f[x] = Rank(S, x) + 1
    BY <1>1, <1>2, <1>3, RankBelow
  <2>2. PICK y : y = q[Rank(S, x) + 1]
    OBVIOUS
  <2>3. y \in S /\ Rank(S, y) = (Rank(S, x) + 1) - 1
    BY <1>12, <2>1, <2>2
  <2>4. f[y] = f[x]
    <3>1. Rank(S, y) = Rank(S, x)
      BY <2>1, <2>3
    <3>2. QED
      BY <1>3, <2>3, <3>1
  <2>5. QED
    BY <1>5, <2>2, <2>3, <2>4
<1>15. QED
  BY <1>1, <1>2, <1>10, <1>12, <1>13, <1>14

(* The starts of the pages that begin before n. *)
Starts(n) == {o \in 0..n : o % PageSize = 0 /\ o < n}

LEMMA StartsCounted ==
  ASSUME NEW n \in Nat
  PROVE  LET c == (n + PageSize - 1) \div PageSize
         IN  /\ c \in Nat /\ IsFiniteSet(Starts(n)) /\ Cardinality(Starts(n)) = c
             /\ \A k \in Nat \ {0} : k <= c <=> (k - 1) * PageSize \in Starts(n)
             /\ n <= c * PageSize /\ (n > 0 => (c - 1) * PageSize < n)
<1>1. PICK P \in Nat \ {0} : P = PageSize
  BY PageAssumption
<1>2. PICK c : c = (n + P - 1) \div P
  OBVIOUS
<1>3. c \in Nat /\ P * c <= n + P - 1 /\ n + P - 1 < P * c + P
  BY <1>1, <1>2
<1>4. ASSUME NEW k \in Nat \ {0}
      PROVE  /\ (k - 1) * P \in Nat /\ ((k - 1) * P) % P = 0
             /\ k <= c <=> (k - 1) * P < n
  <2>1. PICK j \in Nat : j = k - 1
    OBVIOUS
  <2>2. j * P \in Nat /\ (j * P) % P = 0
    BY <1>1
  <2>3. ASSUME k <= c PROVE j * P < n
    <3>1. PICK d \in Nat : d = c - k
      BY <1>3, <2>3
    <3>2. c = j + 1 + d
      BY <1>3, <2>1, <3>1
    <3>3. P * c = j * P + P + d * P /\ d * P \in Nat
      BY <1>1, <3>1, <3>2
    <3>4. QED
      BY <1>1, <1>3, <2>2, <3>3
  <2>4. ASSUME k > c PROVE ~(j * P < n)
    <3>1. PICK d \in Nat : d = j - c
      BY <1>3, <2>1, <2>4
    <3>2. j = c + d
      BY <1>3, <2>1, <3>1
    <3>3. j * P = P * c + d * P /\ d * P \in Nat
      BY <1>1, <1>3, <3>1, <3>2
    <3>4. QED
      BY <1>1, <1>3, <2>2, <3>3
  <2>5. k <= c <=> j * P < n
    BY <1>3, <2>3, <2>4
  <2>6. QED
    BY <2>1, <2>2, <2>5
<1>5. PICK T : T = Starts(n)
  OBVIOUS
<1>6. \A k \in Nat \ {0} : k <= c <=> (k - 1) * P \in T
  BY <1>1, <1>4, <1>5 DEF Starts
<1>7. PICK g : g = [k \in 1..c |-> (k - 1) * P]
  OBVIOUS
<1>8. g \in [1..c -> T]
  <2>1. \A k \in 1..c : k \in Nat \ {0} /\ k <= c
    BY <1>3
  <2>2. \A k \in 1..c : (k - 1) * P \in T
    BY <1>6, <2>1
  <2>3. QED
    BY <1>7, <2>2
<1>9. \A k, l \in 1..c : g[k] = g[l] => k = l
  <2>1. TAKE k, l \in 1..c
  <2>2. HAVE g[k] = g[l]
  <2>3. PICK i, j \in Nat : i = k - 1 /\ j = l - 1
    BY <1>3
  <2>4. i * P = j * P
    BY <1>7, <2>2, <2>3
  <2>5. i = j
    BY <1>1, <2>4
  <2>6. QED
    BY <1>3, <2>3, <2>5
<1>10. \A o \in T : \E k \in 1..c : g[k] = o
  <2>1. TAKE o \in T
  <2>2. o \in Nat /\ o % P = 0 /\ o < n
    BY <1>1, <1>5 DEF Starts
  <2>3. PICK j \in Nat : j = o \div P
    BY <1>1, <2>2
  <2>4. o = j * P
    BY <1>1, <2>2, <2>3
  <2>5. j + 1 \in Nat \ {0} /\ (j + 1) - 1 = j
    BY <2>3
  <2>6. j + 1 <= c
    BY <1>4, <2>2, <2>4, <2>5
  <2>7. j + 1 \in 1..c
    BY <1>3, <2>5, <2>6
  <2>8. g[j + 1] = o
    BY <1>7, <2>4, <2>5, <2>7
  <2>9. QED
    BY <2>7, <2>8
<1>11. g \in Bijection(1..c, T)
  BY <1>8, <1>9, <1>10, Fun_IsBij
<1>12. IsFiniteSet(1..c) /\ Cardinality(T) = c
  <2>1. ExistsBijection(1..c, T)
    BY <1>11, Fun_ExistsBij
  <2>2. Cardinality(T) = c
    BY <1>3, <2>1, FS_CountingElements
  <2>3. IsFiniteSet(1..c)
    BY <1>3, FS_Interval
  <2>4. QED
    BY <2>2, <2>3
<1>13. IsFiniteSet(T)
  BY <1>3, <1>11, FS_NatBijection, Fun_ExistsBij
<1>14. n <= c * P /\ (n > 0 => (c - 1) * P < n)
  BY <1>1, <1>3
<1>15. QED
  BY <1>1, <1>2, <1>3, <1>5, <1>6, <1>12, <1>13, <1>14

-----------------------------------------------------------------------------
(* The pairs of a factory.                                                 *)

(* A factory never gets shorter. *)
Grows ==
  /\ lengths \in Seq(0..MaxPairs) /\ Height \in Nat \ {0}
  /\ \A b, c \in 1..Height : b <= c => lengths[b] <= lengths[c]

(* What a call in progress knows of the factory: its count is not below    *)
(* the block asked for and not above the head.                             *)
CallInv ==
  /\ pc \in {"idle", "count", "page", "done", "reverted", "failed"}
  /\ pc # "idle" => block \in 1..Height
  /\ pc \in {"page", "done", "reverted"} =>
       /\ count \in 0..MaxPairs
       /\ lengths[block] <= count /\ count <= lengths[Height]
       /\ pending \subseteq OffsetsBelow(count)

(* A page ends where the next one starts, or with the last pair.           *)
PageOf(o) == Span(o, Lesser(o + PageSize, lengths[block]))

(* Every page that is answered is right, and the others are pending.       *)
PagesInv ==
  /\ pc = "count" => DOMAIN pages = {}
  /\ pc \in {"page", "done"} =>
       /\ DOMAIN pages = OffsetsBelow(count) \ pending
       /\ \A o \in DOMAIN pages : pages[o] = PageOf(o) /\ o <= lengths[block]

IInv ==
  /\ Grows
  /\ CallInv
  /\ PagesInv
  /\ pc = "done" => pending = {}
  /\ RevertsForPageBehind

(* A list that is returned is made of pages none of which holds a pair of  *)
(* another one, and which leave no pair of the block asked for out.        *)
PagesExact ==
  pc = "done" =>
    /\ \A o \in DOMAIN pages : o % PageSize = 0 /\ pages[o] = PageOf(o)
    /\ \A k \in 0..(lengths[block] - 1) :
         \E o \in DOMAIN pages : o <= k /\ k < o + PageSize

-----------------------------------------------------------------------------
LEMMA LengthsAreNat ==
  ASSUME Grows
  PROVE  \A b \in 1..Height : lengths[b] \in 0..MaxPairs /\ lengths[b] \in Nat
BY PageAssumption DEF Grows, Height

LEMMA InitIInv == Init => IInv
<1> SUFFICES ASSUME Init PROVE IInv
  OBVIOUS
<1>1. PICK n \in 0..MaxPairs : lengths = <<n>>
  BY DEF Init
<1>2. lengths \in Seq(0..MaxPairs) /\ Height = 1 /\ lengths[1] = n /\ n \in Nat
  BY <1>1, PageAssumption DEF Height
<1>3. Grows
  BY <1>2 DEF Grows
<1>4. QED
  BY <1>3 DEF Init, IInv, CallInv, PagesInv, RevertsForPageBehind

(* A block is mined: the blocks before it stay as they are.                *)
LEMMA MineEffect ==
  ASSUME Grows, Mine
  PROVE  /\ Grows'
         /\ Height' = Height + 1
         /\ \A b \in 1..Height : lengths'[b] = lengths[b]
         /\ lengths[Height] <= lengths'[Height']
<1>1. Height \in Nat \ {0} /\ Height \in 1..Height
  BY DEF Grows
<1>2. PICK n \in lengths[Height]..MaxPairs : lengths' = Append(lengths, n)
  BY DEF Mine
<1>3. lengths[Height] \in Nat /\ n \in 0..MaxPairs /\ lengths[Height] <= n
  BY <1>1, LengthsAreNat, PageAssumption
<1>4. /\ lengths' \in Seq(0..MaxPairs) /\ Len(lengths') = Len(lengths) + 1
      /\ lengths'[Len(lengths) + 1] = n
      /\ \A b \in 1..Len(lengths) : lengths'[b] = lengths[b]
  BY <1>2, <1>3 DEF Grows
<1>5. /\ Height' = Height + 1 /\ lengths'[Height + 1] = n
      /\ \A b \in 1..Height : lengths'[b] = lengths[b]
  BY <1>4 DEF Height
<1>6. \A b, c \in 1..(Height + 1) : b <= c => lengths'[b] <= lengths'[c]
  <2>1. TAKE b, c \in 1..(Height + 1)
  <2>2. HAVE b <= c
  <2>3. CASE c \in 1..Height
    <3>1. b \in 1..Height
      BY <1>1, <2>2, <2>3
    <3>2. QED
      BY <1>5, <2>2, <2>3, <3>1 DEF Grows
  <2>4. CASE c = Height + 1 /\ b \in 1..Height
    <3>1. lengths[b] <= lengths[Height] /\ lengths[b] \in Nat
      BY <1>1, <2>4, LengthsAreNat DEF Grows
    <3>2. QED
      BY <1>3, <1>5, <2>4, <3>1
  <2>5. CASE b = Height + 1 /\ c = Height + 1
    BY <1>3, <1>5, <2>5
  <2>6. QED
    BY <1>1, <2>2, <2>3, <2>4, <2>5
<1>7. QED
  BY <1>1, <1>3, <1>4, <1>5, <1>6 DEF Grows

LEMMA MineIInv == ASSUME IInv, Mine PROVE IInv'
<1>1. /\ Grows' /\ Height' = Height + 1 /\ Height \in Nat \ {0}
      /\ \A b \in 1..Height : lengths'[b] = lengths[b]
      /\ lengths[Height] <= lengths'[Height']
  BY MineEffect DEF IInv, Grows
<1>2. UNCHANGED <<pc, block, count, pending, pages>>
  BY DEF Mine, client
<1>3. pc # "idle" => block \in 1..Height /\ lengths'[block] = lengths[block]
  BY <1>1 DEF IInv, CallInv
<1>4. lengths[Height] \in Nat /\ lengths'[Height'] \in Nat /\ Height \in 1..Height
  <2>1. Height \in 1..Height /\ Height' \in 1..Height'
    BY <1>1
  <2>2. lengths'[Height'] \in Nat
    BY <1>1, <2>1, PageAssumption DEF Grows, Height
  <2>3. QED
    BY <2>1, <2>2, LengthsAreNat DEF IInv
<1>5. CallInv'
  BY <1>1, <1>2, <1>3, <1>4 DEF IInv, CallInv, OffsetsBelow, Offsets
<1>6. PagesInv'
  BY <1>2, <1>3 DEF IInv, PagesInv, PageOf, OffsetsBelow, Offsets
<1>7. RevertsForPageBehind'
  BY <1>2, <1>3 DEF IInv, RevertsForPageBehind, PageBehindPairs, Offsets
<1>8. QED
  BY <1>1, <1>2, <1>5, <1>6, <1>7 DEF IInv

(* Steps of the client leave the factory alone. *)
LEMMA GrowsUnchanged ==
  ASSUME Grows, UNCHANGED lengths
  PROVE  Grows' /\ Height' = Height
BY DEF Grows, Height

LEMMA CallIInv == ASSUME IInv, NEW b \in 1..Height, Call(b) PROVE IInv'
<1>1. Grows' /\ Height' = Height
  BY GrowsUnchanged DEF IInv, Call
<1>2. pc' = "count" /\ block' = b /\ pages' = <<>>
  BY DEF Call
<1>3. DOMAIN pages' = {}
  BY <1>2
<1>4. QED
  BY <1>1, <1>2, <1>3 DEF IInv, CallInv, PagesInv, RevertsForPageBehind

(* The count is read at the head, which is not before the block asked for. *)
LEMMA CountIInv == ASSUME IInv, Count PROVE IInv'
<1>1. Grows' /\ Height' = Height
  BY GrowsUnchanged DEF IInv, Count
<1>2. /\ pc' = "page" /\ block' = block /\ count' = lengths[Height]
      /\ pending' = OffsetsBelow(lengths[Height]) /\ lengths' = lengths
      /\ pages' = pages /\ block \in 1..Height
  BY DEF Count, IInv, CallInv
<1>3. Height \in 1..Height /\ lengths[block] <= lengths[Height]
  BY <1>2 DEF IInv, Grows
<1>4. CallInv'
  BY <1>1, <1>2, <1>3, LengthsAreNat DEF IInv, CallInv, OffsetsBelow, Offsets
<1>5. PagesInv'
  <2>1. DOMAIN pages' = {}
    BY <1>2 DEF Count, IInv, PagesInv
  <2>2. QED
    BY <1>2, <2>1 DEF PagesInv, OffsetsBelow, Offsets
<1>6. QED
  BY <1>1, <1>2, <1>4, <1>5 DEF IInv, RevertsForPageBehind

(* A page that is asked for up to the count ends where it would if it had  *)
(* been asked for in full.                                                 *)
LEMMA PageReadIInv == ASSUME IInv, NEW o \in Offsets, PageRead(o) PROVE IInv'
<1>1. Grows' /\ Height' = Height
  BY GrowsUnchanged DEF IInv, PageRead
<1>2. /\ pc = "page" /\ pc' = pc /\ block' = block /\ count' = count /\ lengths' = lengths
      /\ pending' = pending \ {o} /\ o \in pending
      /\ pages' = [x \in DOMAIN pages \cup {o} |->
                     IF x = o THEN Span(o, PageEnd(o)) ELSE pages[x]]
  BY DEF PageRead
<1>3. PageEnd(o) = Lesser(o + PageSize, lengths[block])
  <2>1. lengths[block] \in Nat /\ count \in Nat /\ lengths[block] <= count
    BY <1>2, LengthsAreNat, PageAssumption DEF IInv, CallInv
  <2>2. o \in Nat /\ PageSize \in Nat
    BY PageAssumption DEF Offsets
  <2>3. QED
    BY <2>1, <2>2 DEF PageEnd, PageAsked, PairsAtBlock, Lesser
<1>4. PagesInv'
  <2>1. DOMAIN pages' = OffsetsBelow(count) \ (pending \ {o})
    BY <1>2 DEF IInv, CallInv, PagesInv
  <2>2. \A x \in DOMAIN pages' : pages'[x] = PageOf(x)
    BY <1>2, <1>3 DEF IInv, PagesInv, PageOf
  <2>3. \A x \in DOMAIN pages' : x <= lengths[block]
    BY <1>2 DEF IInv, PagesInv, PageRead, PairsAtBlock
  <2>4. QED
    BY <1>2, <2>1, <2>2, <2>3 DEF PagesInv, PageOf, OffsetsBelow, Offsets
<1>5. CallInv'
  BY <1>1, <1>2 DEF IInv, CallInv, OffsetsBelow, Offsets
<1>6. QED
  BY <1>1, <1>2, <1>4, <1>5 DEF IInv, RevertsForPageBehind

LEMMA PageRevertsIInv == ASSUME IInv, NEW o \in Offsets, PageReverts(o) PROVE IInv'
<1>1. Grows' /\ Height' = Height
  BY GrowsUnchanged DEF IInv, PageReverts
<1>2. /\ pc = "page" /\ pc' = "reverted" /\ block' = block /\ lengths' = lengths
      /\ o \in pending /\ o > lengths[block] /\ count' = count /\ pending' = {}
  BY DEF PageReverts, PairsAtBlock
<1>3. /\ o < count /\ count \in Nat /\ o \in Nat
      /\ block \in 1..Height /\ lengths[block] \in Nat
  BY <1>2, LengthsAreNat, PageAssumption DEF IInv, CallInv, OffsetsBelow, Offsets
<1>4. lengths[block] < o /\ count > lengths[block] + 1
  BY <1>2, <1>3
<1>5. RevertsForPageBehind'
  BY <1>2, <1>3, <1>4 DEF RevertsForPageBehind, PageBehindPairs, Offsets
<1>6. CallInv'
  BY <1>1, <1>2 DEF IInv, CallInv
<1>7. QED
  BY <1>1, <1>2, <1>5, <1>6 DEF IInv, PagesInv

(* A request fails: nothing is known of the list any more. *)
LEMMA FailIInv == ASSUME IInv, Fail PROVE IInv'
<1>1. Grows' /\ Height' = Height
  BY GrowsUnchanged DEF IInv, Fail
<1>2. pc \in {"count", "page"} /\ pc' = "failed" /\ block' = block
  BY DEF Fail
<1>3. QED
  BY <1>1, <1>2 DEF IInv, CallInv, PagesInv, RevertsForPageBehind

(* All pages are in, so none of them starts behind the pairs. *)
LEMMA ReturnIInv == ASSUME IInv, Return PROVE IInv'
<1>1. Grows' /\ Height' = Height
  BY GrowsUnchanged DEF IInv, Return
<1>2. /\ pc = "page" /\ pc' = "done" /\ pending = {}
      /\ UNCHANGED <<lengths, block, count, pending, pages>>
  BY DEF Return
<1>3. CallInv' /\ PagesInv'
  BY <1>1, <1>2 DEF IInv, CallInv, PagesInv, PageOf, OffsetsBelow, Offsets
<1>4. ~PageBehindPairs
  <2>1. SUFFICES ASSUME NEW o \in Offsets, lengths[block] < o, o < count PROVE FALSE
    BY DEF PageBehindPairs
  <2>2. o \in DOMAIN pages
    BY <1>2, <2>1 DEF IInv, PagesInv, OffsetsBelow
  <2>3. o <= lengths[block] /\ block \in 1..Height
    BY <1>2, <2>2 DEF IInv, CallInv, PagesInv
  <2>4. lengths[block] \in Nat /\ o \in Nat
    BY <2>3, LengthsAreNat DEF IInv, Offsets
  <2>5. QED
    BY <2>1, <2>3, <2>4
<1>5. RevertsForPageBehind'
  BY <1>2, <1>4 DEF RevertsForPageBehind, PageBehindPairs, Offsets
<1>6. QED
  BY <1>1, <1>2, <1>3, <1>5 DEF IInv

LEMMA NextIInv == IInv /\ [Next]_vars => IInv'
<1> SUFFICES ASSUME IInv, [Next]_vars PROVE IInv'
  OBVIOUS
<1>1. CASE Mine
  BY <1>1, MineIInv
<1>2. ASSUME NEW b \in 1..Height, Call(b) PROVE IInv'
  BY <1>2, CallIInv
<1>3. CASE Count
  BY <1>3, CountIInv
<1>4. ASSUME NEW o \in Offsets, PageRead(o) PROVE IInv'
  BY <1>4, PageReadIInv
<1>5. ASSUME NEW o \in Offsets, PageReverts(o) PROVE IInv'
  BY <1>5, PageRevertsIInv
<1>6. CASE Return
  BY <1>6, ReturnIInv
<1>7. CASE UNCHANGED vars
  <2>1. UNCHANGED <<lengths, pc, block, count, pending, pages>>
    BY <1>7 DEF vars, client
  <2>2. Grows' /\ Height' = Height
    BY <2>1, GrowsUnchanged DEF IInv
  <2>3. CallInv' /\ PagesInv'
    BY <2>1, <2>2 DEF IInv, CallInv, PagesInv, PageOf, OffsetsBelow, Offsets
  <2>4. QED
    BY <2>1, <2>2, <2>3 DEF IInv, RevertsForPageBehind, PageBehindPairs, Offsets
<1>8. CASE Fail
  BY <1>8, FailIInv
<1>9. QED
  BY <1>1, <1>2, <1>3, <1>4, <1>5, <1>6, <1>7, <1>8 DEF Next, Client, Answered

-----------------------------------------------------------------------------
(* Every reachable state satisfies the inductive invariant.                *)
THEOREM Invariance == Spec => []IInv
BY InitIInv, NextIInv, PTL DEF Spec

(* A call whose requests are answered is lost exactly when a page starts   *)
(* behind the pairs of the block and before the number that was read.      *)
THEOREM RevertsForPageBehindCorrect == Spec => []RevertsForPageBehind
<1>1. IInv => RevertsForPageBehind
  BY DEF IInv
<1>2. QED
  BY <1>1, Invariance, PTL

(* Every index has its page: the one that starts at the multiple of the    *)
(* page size below it.                                                     *)
LEMMA OffsetOfIndex ==
  ASSUME NEW k \in Nat
  PROVE  \E o \in 0..k : o % PageSize = 0 /\ k < o + PageSize
<1>1. PageSize \in Nat \ {0}
  BY PageAssumption
<1>2. PICK q \in Nat : q = k \div PageSize
  BY <1>1
<1>3. PageSize * q \in 0..k /\ (PageSize * q) % PageSize = 0 /\ k < PageSize * q + PageSize
  BY <1>1, <1>2
<1>4. QED
  BY <1>3

(* The pages of a call that returns are, to the last pair, those of the    *)
(* factory at the block asked for, although their number is of a later one *)
(* and the factory grew between the pages.                                 *)
THEOREM PagesExactCorrect == Spec => []PagesExact
<1>1. IInv => PagesExact
  <2>1. SUFFICES ASSUME IInv, pc = "done" PROVE PagesExact
    BY DEF PagesExact
  <2>2. /\ DOMAIN pages = OffsetsBelow(count) /\ block \in 1..Height
        /\ \A o \in DOMAIN pages : pages[o] = PageOf(o)
        /\ count \in 0..MaxPairs /\ lengths[block] <= count
    BY <2>1 DEF IInv, CallInv, PagesInv
  <2>3. lengths[block] \in Nat /\ count \in Nat /\ MaxPairs \in Nat /\ count <= MaxPairs
    <3>1. lengths[block] \in Nat
      BY <2>1, <2>2, LengthsAreNat DEF IInv
    <3>2. QED
      BY <2>2, <3>1, PageAssumption
  <2>4. ASSUME NEW k \in 0..(lengths[block] - 1)
        PROVE  \E o \in DOMAIN pages : o <= k /\ k < o + PageSize
    <3>1. k \in Nat /\ k < count
      BY <2>2, <2>3
    <3>2. PICK o \in 0..k : o % PageSize = 0 /\ k < o + PageSize
      BY <3>1, OffsetOfIndex
    <3>3. o \in 0..MaxPairs /\ o < count /\ o <= k
      BY <2>3, <3>1, <3>2
    <3>4. o \in DOMAIN pages
      BY <2>2, <3>2, <3>3 DEF OffsetsBelow, Offsets
    <3>5. QED
      BY <3>2, <3>3, <3>4
  <2>5. \A o \in DOMAIN pages : o % PageSize = 0
    BY <2>2 DEF OffsetsBelow, Offsets
  <2>6. QED
    BY <2>2, <2>4, <2>5 DEF PagesExact
<1>2. QED
  BY <1>1, Invariance, PTL
-----------------------------------------------------------------------------

-----------------------------------------------------------------------------
(* A part of the first n pairs is the pairs of that part. *)
LEMMA SpanPart ==
  ASSUME NEW n \in Nat, NEW a \in Nat, NEW b \in Nat, a <= b
  PROVE  /\ Span(0, n) \in Seq(Nat) /\ Len(Span(0, n)) = n
         /\ Part(Span(0, n), a, b) = Span(a, Lesser(b, n))
<1>1. PICK L : L = Span(0, n)
  OBVIOUS
<1>2. L = [i \in 1..n |-> i - 1]
  <2>1. \A i \in 1..n : 0 + i - 1 = i - 1
    OBVIOUS
  <2>2. QED
    BY <1>1, <2>1 DEF Span
<1>3. L \in Seq(Nat) /\ Len(L) = n
  <2>1. \A i \in 1..n : i - 1 \in Nat
    OBVIOUS
  <2>2. QED
    BY <1>2, <2>1
<1>4. PICK m \in Nat : m = Lesser(b, n) /\ m <= n
  BY DEF Lesser
<1>5. PICK p, s : p = Part(L, a, b) /\ s = Span(a, m)
  OBVIOUS
<1>6. /\ p \in Seq(Nat) /\ Len(p) = (IF m > a THEN m - a ELSE 0)
      /\ \A i \in 1..Len(p) : p[i] = L[a + i]
  BY <1>3, <1>4, <1>5, PartOf
<1>7. s = [i \in 1..(m - a) |-> a + i - 1]
  BY <1>5 DEF Span
<1>8. CASE m > a
  <2>1. \A i \in 1..(m - a) : a + i \in 1..n /\ a + i - 1 \in Nat /\ (a + i) - 1 = a + i - 1
    BY <1>4, <1>8
  <2>2. s \in Seq(Nat) /\ Len(s) = m - a
    BY <1>4, <1>7, <1>8, <2>1
  <2>3. Len(p) = Len(s)
    BY <1>6, <1>8, <2>2
  <2>4. \A i \in 1..Len(p) : p[i] = s[i]
    BY <1>2, <1>6, <1>7, <2>1, <2>2, <2>3
  <2>5. p = s
    BY <1>6, <2>2, <2>3, <2>4, SameSequence
  <2>6. QED
    BY <1>1, <1>3, <1>4, <1>5, <2>5
<1>9. CASE ~(m > a)
  <2>1. 1..(m - a) = {}
    BY <1>4, <1>9
  <2>2. s = <<>>
    BY <1>7, <2>1
  <2>3. p = <<>>
    BY <1>6, <1>9
  <2>4. QED
    BY <1>1, <1>3, <1>4, <1>5, <2>2, <2>3
<1>10. QED
  BY <1>8, <1>9

(* The pages join up to the pairs of the block asked for, in the order of  *)
(* creation.                                                               *)
LEMMA PagesMakeTheList == ASSUME IInv, pc = "done" PROVE Addresses = Span(0, lengths[block])
<1>1. /\ DOMAIN pages = OffsetsBelow(count) /\ block \in 1..Height
      /\ \A o \in DOMAIN pages : pages[o] = PageOf(o)
      /\ count \in 0..MaxPairs /\ lengths[block] <= count
  BY DEF IInv, CallInv, PagesInv
<1>2. PICK P \in Nat \ {0} : P = PageSize
  BY PageAssumption
<1>3. PICK n, m : n = lengths[block] /\ m = count
  OBVIOUS
<1>4. n \in Nat /\ m \in Nat /\ m <= MaxPairs /\ MaxPairs \in Nat /\ n <= m
  <2>1. lengths[block] \in Nat
    BY <1>1, LengthsAreNat DEF IInv
  <2>2. QED
    BY <1>1, <1>3, <2>1, PageAssumption
<1>5. DOMAIN pages = Starts(m)
  <2>1. DOMAIN pages = {o \in {x \in 0..MaxPairs : x % PageSize = 0} : o < m}
    BY <1>1, <1>3 DEF OffsetsBelow, Offsets
  <2>2. QED
    BY <1>4, <2>1 DEF Starts
<1>6. PICK c : c = (m + P - 1) \div P
  OBVIOUS
<1>7. /\ c \in Nat /\ Cardinality(Starts(m)) = c /\ m <= c * P
      /\ \A k \in Nat \ {0} : k <= c <=> (k - 1) * P \in Starts(m)
  BY <1>2, <1>4, <1>6, StartsCounted
<1>8. PICK parts : parts = [k \in 1..c |-> pages[(k - 1) * P]]
  OBVIOUS
<1>9. Addresses = FlattenSeq(parts)
  BY <1>2, <1>5, <1>7, <1>8 DEF Addresses
<1>10. PICK L \in Seq(Nat) : L = Span(0, n) /\ Len(L) = n
  BY <1>4, SpanPart
<1>11. ASSUME NEW k \in 1..c
       PROVE  /\ (k - 1) * P \in Nat /\ k * P \in Nat
              /\ parts[k] = Part(L, (k - 1) * P, k * P)
  <2>1. PICK a, b : a = (k - 1) * P /\ b = k * P
    OBVIOUS
  <2>2. a \in Nat /\ b = a + P
    BY <1>2, <1>7, <2>1
  <2>3. k \in Nat \ {0} /\ k <= c
    BY <1>7
  <2>4. a \in DOMAIN pages
    BY <1>5, <1>7, <2>1, <2>3
  <2>5. parts[k] = Span(a, Lesser(a + P, n))
    BY <1>1, <1>2, <1>3, <1>8, <2>1, <2>4 DEF PageOf
  <2>6. Part(L, a, b) = Span(a, Lesser(b, n))
    BY <1>2, <1>4, <1>10, <2>2, SpanPart
  <2>7. QED
    BY <1>2, <2>1, <2>2, <2>5, <2>6
<1>12. parts \in Seq(Seq(Nat)) /\ Len(parts) = c
  <2>1. \A k \in 1..c : Part(L, (k - 1) * P, k * P) \in Seq(Nat)
    BY <1>11, PartOf
  <2>2. \A k \in 1..c : parts[k] \in Seq(Nat)
    BY <1>11, <2>1
  <2>3. QED
    BY <1>7, <1>8, <2>2
<1>13. FlattenSeq(parts) = Part(L, 0, c * P)
  <2>1. \A k \in 1..Len(parts) : parts[k] = Part(L, (k - 1) * PageSize, k * PageSize)
    BY <1>2, <1>11, <1>12
  <2>2. QED
    BY <1>2, <1>12, <2>1, PagesJoin
<1>14. c * P \in Nat /\ n <= c * P
  BY <1>2, <1>4, <1>7
<1>15. Lesser(c * P, n) = n
  BY <1>4, <1>14 DEF Lesser
<1>16. Part(L, 0, c * P) = Span(0, n)
  <2>1. 0 <= c * P /\ 0 \in Nat
    BY <1>14
  <2>2. Part(L, 0, c * P) = Span(0, Lesser(c * P, n))
    BY <1>4, <1>10, <1>14, <2>1, SpanPart
  <2>3. QED
    BY <1>15, <2>2
<1>17. QED
  BY <1>3, <1>9, <1>13, <1>16

(* A list that is returned is exactly the pairs of the factory at the      *)
(* block asked for, in the order of creation, none missing and none twice, *)
(* for every page size and however the factory grew during the call.       *)
THEOREM DiscoveryExactCorrect == Spec => []DiscoveryExact
<1>1. IInv => DiscoveryExact
  BY PagesMakeTheList DEF DiscoveryExact
<1>2. QED
  BY <1>1, Invariance, PTL

(* The view's integration of v2 is this one, with v3 beside it. *)
LEMMA ViewHoldsPairs == DexSpec => Spec
<1>1. DexInit => Init
  BY DEF DexInit
<1>2. [DexNext]_<<dex, vars, v3vars>> => [Next]_vars
  BY DEF DexNext
<1>3. QED
  BY <1>1, <1>2, PTL DEF DexSpec, Spec

-----------------------------------------------------------------------------
(* The pools of a subgraph.                                                *)

(* The page at s of a subgraph that knows T. *)
Slice(T, s) == Part(V3!Listing(T), s, s + PageSize)

(* Every answer is a page of what the subgraph knew at some moment after   *)
(* the count.                                                              *)
AnswersInv ==
  /\ before \subseteq indexed
  /\ total = Lesser(Cardinality(before), Cap)
  /\ open \subseteq Starts(total)
  /\ DOMAIN answers = Starts(total) \ open
  /\ \A s \in DOMAIN answers :
       \E T \in SUBSET indexed : before \subseteq T /\ answers[s] = Slice(T, s)

(* The answers in the order of the queries. *)
JoinedAnswers ==
  FlattenSeq([k \in 1..Cardinality(DOMAIN answers) |-> answers[(k - 1) * PageSize]])

SubgraphInv ==
  /\ indexed \subseteq Ids
  /\ request \in {"idle", "count", "page", "done"}
  /\ request = "count" => DOMAIN answers = {}
  /\ request = "page" \/ (request = "done" /\ subgraph) => AnswersInv
  /\ request = "done" /\ subgraph => open = {} /\ result = JoinedAnswers

(* The set of pools the subgraph knows is finite, and of natural numbers. *)
LEMMA KnownFinite ==
  ASSUME NEW T, T \subseteq Ids
  PROVE  /\ T \in SUBSET Nat /\ IsFiniteSet(T) /\ Cardinality(T) \in Nat
         /\ Cardinality(T) <= Cardinality(Ids) /\ Cardinality(Ids) \in Nat
         /\ V3!Listing(T) \in Seq(T) /\ Len(V3!Listing(T)) = Cardinality(T)
<1>1. T \in SUBSET Nat /\ IsFiniteSet(Ids) /\ T \in SUBSET Ids
  BY DiscoveryAssumption
<1>2. IsFiniteSet(T) /\ Cardinality(T) <= Cardinality(Ids)
  BY <1>1, FS_Subset
<1>3. Cardinality(T) \in Nat /\ Cardinality(Ids) \in Nat
  BY <1>1, <1>2, FS_CardinalityType
<1>4. V3!Listing(T) \in Seq(T) /\ Len(V3!Listing(T)) = Cardinality(T)
  BY <1>1, <1>2, ListingRanks
<1>5. QED
  BY <1>1, <1>2, <1>3, <1>4

(* The queries below n are the starts of the pages. *)
LEMMA SkipsAreStarts ==
  ASSUME NEW n \in Nat, n <= Cardinality(Ids)
  PROVE  V3!SkipsBelow(n) = Starts(n)
<1>1. PICK M : M = Cardinality(Ids)
  OBVIOUS
<1>2. M \in Nat /\ V3!MaxIndexed = M
  BY <1>1, KnownFinite DEF V3!MaxIndexed
<1>3. V3!SkipsBelow(n) = {s \in {x \in 0..M : x % PageSize = 0} : s < n}
  BY <1>2 DEF V3!SkipsBelow, V3!Skips
<1>4. {s \in {x \in 0..M : x % PageSize = 0} : s < n} = {s \in 0..n : s % PageSize = 0 /\ s < n}
  BY <1>1, <1>2
<1>5. QED
  BY <1>3, <1>4 DEF Starts

LEMMA CountedIsLesser ==
  ASSUME indexed \subseteq Ids
  PROVE  /\ V3!Counted = Lesser(Cardinality(indexed), Cap)
         /\ V3!Counted \in Nat /\ V3!Counted <= Cardinality(Ids)
<1>1. PICK n : n = Cardinality(indexed)
  OBVIOUS
<1>2. /\ n \in Nat /\ n <= Cardinality(Ids) /\ Cardinality(Ids) \in Nat
      /\ Len(V3!Listing(indexed)) = n /\ Cap \in Nat
  BY <1>1, KnownFinite, DiscoveryAssumption
<1>3. V3!Counted = IF n <= Cap THEN n ELSE Cap
  BY <1>2 DEF V3!Counted
<1>4. QED
  BY <1>1, <1>2, <1>3 DEF Lesser

LEMMA PageIsSlice ==
  ASSUME NEW s \in Nat
  PROVE  V3!Page(s) = Slice(indexed, s)
<1>1. PICK all : all = V3!Listing(indexed)
  OBVIOUS
<1>2. V3!Page(s) = SubSeq(all, s + 1, IF s + PageSize <= Len(all) THEN s + PageSize ELSE Len(all))
  BY <1>1 DEF V3!Page, V3!Listed
<1>3. QED
  BY <1>1, <1>2 DEF Slice, Part, Lesser

(* In the order of the queries, the k-th page starts at k - 1 pages. *)
LEMMA OrderOfStarts ==
  ASSUME NEW n \in Nat
  PROVE  /\ V3!Listing(Starts(n)) = [k \in 1..Cardinality(Starts(n)) |-> (k - 1) * PageSize]
         /\ Cardinality(Starts(n)) \in Nat
<1>0. PICK P \in Nat \ {0} : P = PageSize
  BY PageAssumption
<1>1. PICK S, c, q : S = Starts(n) /\ c = Cardinality(S) /\ q = V3!Listing(S)
  OBVIOUS
<1>2. /\ c \in Nat /\ IsFiniteSet(S) /\ S \in SUBSET Nat
      /\ \A k \in Nat \ {0} : k <= c <=> (k - 1) * P \in S
  <2>1. S \in SUBSET Nat
    BY <1>1 DEF Starts
  <2>2. QED
    BY <1>0, <1>1, <2>1, StartsCounted
<1>3. q \in Seq(S) /\ Len(q) = c /\ \A x \in S : q[Rank(S, x) + 1] = x
  BY <1>1, <1>2, ListingRanks
<1>4. ASSUME NEW k \in 1..c PROVE q[k] = (k - 1) * P
  <2>1. PICK o : o = (k - 1) * P
    OBVIOUS
  <2>2. k \in Nat \ {0} /\ k <= c
    BY <1>2
  <2>3. o \in S /\ o \in Nat /\ o < n
    BY <1>1, <1>2, <2>1, <2>2 DEF Starts
  <2>4. {y \in S : y < o} = Starts(o)
    BY <1>1, <2>3 DEF Starts
  <2>5. Cardinality(Starts(o)) = (o + P - 1) \div P
    BY <1>0, <2>3, StartsCounted
  <2>6. (o + P - 1) \div P = k - 1
    <3>1. PICK j \in Nat : j = k - 1
      BY <2>2
    <3>2. (j * P + P - 1) \div P = j
      <4>1. PICK e \in 0..(P - 1) : e = P - 1
        BY <1>0
      <4>2. j * P \in Nat /\ j * P + P - 1 = P * j + e
        BY <1>0, <3>1, <4>1
      <4>3. PICK d : d = (P * j + e) \div P
        OBVIOUS
      <4>4. d \in Int /\ P * d <= P * j + e /\ P * j + e < P * d + P
        BY <1>0, <3>1, <4>1, <4>3
      <4>5. ~(d < j)
        <5>1. SUFFICES ASSUME d < j PROVE FALSE
          OBVIOUS
        <5>2. PICK x \in Nat : x = j - d - 1
          BY <3>1, <4>4, <5>1
        <5>3. j = d + 1 + x
          BY <3>1, <4>4, <5>2
        <5>4. P * j = P * d + P + P * x /\ P * x \in Nat
          BY <1>0, <4>4, <5>2, <5>3
        <5>5. QED
          BY <1>0, <3>1, <4>1, <4>4, <5>4
      <4>6. ~(d > j)
        <5>1. SUFFICES ASSUME d > j PROVE FALSE
          OBVIOUS
        <5>2. PICK x \in Nat : x = d - j - 1
          BY <3>1, <4>4, <5>1
        <5>3. d = j + 1 + x
          BY <3>1, <4>4, <5>2
        <5>4. P * d = P * j + P + P * x /\ P * x \in Nat
          BY <1>0, <3>1, <5>2, <5>3
        <5>5. QED
          BY <1>0, <3>1, <4>1, <4>4, <5>4
      <4>7. d = j
        BY <3>1, <4>4, <4>5, <4>6
      <4>8. QED
        BY <4>2, <4>3, <4>7
    <3>3. QED
      BY <2>1, <3>1, <3>2
  <2>7. Rank(S, o) = k - 1
    BY <2>4, <2>5, <2>6 DEF Rank
  <2>8. (k - 1) + 1 = k
    BY <2>2
  <2>9. QED
    BY <1>3, <2>1, <2>3, <2>7, <2>8
<1>5. q = [k \in 1..c |-> q[k]]
  BY <1>3
<1>6. q = [k \in 1..c |-> (k - 1) * P]
  BY <1>4, <1>5
<1>7. QED
  BY <1>0, <1>1, <1>2, <1>6

LEMMA InitSubgraph == V3!Init => SubgraphInv
BY DEF V3!Init, SubgraphInv

LEMMA IndexPoolSubgraph ==
  ASSUME SubgraphInv, NEW id \in Ids, V3!IndexPool(id)
  PROVE  SubgraphInv'
<1>1. /\ indexed' = indexed \cup {id} /\ id \in Ids
      /\ UNCHANGED <<subgraph, request, total, open, answers, before, result>>
  BY DEF V3!IndexPool, V3!client
<1>2. ASSUME AnswersInv PROVE AnswersInv'
  <2>1. Starts(total)' = Starts(total)
    BY <1>1 DEF Starts
  <2>2. \A T, x : Slice(T, x)' = Slice(T, x)
    BY DEF Slice, Part, V3!Listing
  <2>3. ASSUME NEW x \in DOMAIN answers
        PROVE  \E T \in SUBSET indexed' : before \subseteq T /\ answers[x] = Slice(T, x)
    <3>1. PICK T \in SUBSET indexed : before \subseteq T /\ answers[x] = Slice(T, x)
      BY <1>2 DEF AnswersInv
    <3>2. T \in SUBSET indexed'
      BY <1>1
    <3>3. QED
      BY <3>1, <3>2
  <2>4. QED
    BY <1>1, <1>2, <2>1, <2>2, <2>3 DEF AnswersInv
<1>3. JoinedAnswers' = JoinedAnswers
  BY <1>1 DEF JoinedAnswers
<1>4. QED
  BY <1>1, <1>2, <1>3 DEF SubgraphInv

LEMMA CallSubgraph == ASSUME SubgraphInv, V3!Call PROVE SubgraphInv'
<1>1. /\ indexed' = indexed /\ answers' = <<>> /\ subgraph' = subgraph
      /\ \/ request' = "count"
         \/ request' = "done" /\ ~subgraph
  BY DEF V3!Call
<1>2. DOMAIN answers' = {}
  BY <1>1
<1>3. QED
  BY <1>1, <1>2 DEF SubgraphInv

LEMMA CountSubgraph == ASSUME SubgraphInv, V3!Count PROVE SubgraphInv'
<1>1. /\ request = "count" /\ request' = "page" /\ indexed' = indexed /\ before' = indexed
      /\ total' = V3!Counted /\ open' = V3!SkipsBelow(V3!Counted)
      /\ answers' = answers /\ DOMAIN answers = {} /\ indexed \subseteq Ids
  BY DEF V3!Count, SubgraphInv
<1>2. /\ V3!Counted = Lesser(Cardinality(indexed), Cap)
      /\ V3!SkipsBelow(V3!Counted) = Starts(V3!Counted)
  BY <1>1, CountedIsLesser, SkipsAreStarts
<1>3. AnswersInv'
  BY <1>1, <1>2 DEF AnswersInv, Starts
<1>4. QED
  BY <1>1, <1>3 DEF SubgraphInv

LEMMA PageReadSubgraph ==
  ASSUME SubgraphInv, NEW s \in V3!Skips, V3!PageRead(s)
  PROVE  SubgraphInv'
<1>1. /\ request = "page" /\ s \in open
      /\ UNCHANGED <<subgraph, indexed, request, total, before, result>>
      /\ answers' = [x \in DOMAIN answers \cup {s} |-> IF x = s THEN V3!Page(s) ELSE answers[x]]
      /\ open' = open \ {s} /\ AnswersInv /\ indexed \subseteq Ids
  BY DEF V3!PageRead, SubgraphInv
<1>2. s \in Nat /\ s \in Starts(total)
  BY <1>1 DEF V3!Skips, AnswersInv
<1>3. V3!Page(s) = Slice(indexed, s)
  BY <1>2, PageIsSlice
<1>4. AnswersInv'
  <2>1. Starts(total)' = Starts(total)
    BY <1>1 DEF Starts
  <2>2. DOMAIN answers' = Starts(total) \ (open \ {s})
    BY <1>1, <1>2 DEF AnswersInv
  <2>3. ASSUME NEW x \in DOMAIN answers'
        PROVE  \E T \in SUBSET indexed : before \subseteq T /\ answers'[x] = Slice(T, x)
    <3>1. CASE x = s
      <4>1. answers'[x] = Slice(indexed, x) /\ before \subseteq indexed
        BY <1>1, <1>3, <3>1 DEF AnswersInv
      <4>2. QED
        BY <4>1
    <3>2. CASE x # s
      <4>1. x \in DOMAIN answers /\ answers'[x] = answers[x]
        BY <1>1, <2>3, <3>2
      <4>2. QED
        BY <1>1, <4>1 DEF AnswersInv
    <3>3. QED
      BY <3>1, <3>2
  <2>4. \A T, x : Slice(T, x)' = Slice(T, x)
    BY DEF Slice, Part, V3!Listing
  <2>5. QED
    BY <1>1, <2>1, <2>2, <2>3, <2>4 DEF AnswersInv
<1>5. QED
  BY <1>1, <1>4 DEF SubgraphInv

LEMMA FailSubgraph == ASSUME SubgraphInv, V3!Fail PROVE SubgraphInv'
BY DEF V3!Fail, SubgraphInv

LEMMA ReturnSubgraph == ASSUME SubgraphInv, V3!Return PROVE SubgraphInv'
<1>1. /\ request = "page" /\ open = {} /\ request' = "done"
      /\ UNCHANGED <<subgraph, indexed, total, open, answers, before>>
      /\ result' = V3!FlattenSeq([k \in DOMAIN V3!Listing(DOMAIN answers) |->
                                    answers[V3!Listing(DOMAIN answers)[k]]])
      /\ AnswersInv /\ indexed \subseteq Ids
  BY DEF V3!Return, SubgraphInv
<1>2. DOMAIN answers = Starts(total) /\ total \in Nat
  <2>1. Cardinality(before) \in Nat /\ Cap \in Nat
    BY <1>1, KnownFinite, DiscoveryAssumption DEF AnswersInv
  <2>2. total \in Nat
    BY <1>1, <2>1 DEF AnswersInv, Lesser
  <2>3. QED
    BY <1>1, <2>2 DEF AnswersInv
<1>3. /\ DOMAIN V3!Listing(DOMAIN answers) = 1..Cardinality(DOMAIN answers)
      /\ \A k \in 1..Cardinality(DOMAIN answers) :
           V3!Listing(DOMAIN answers)[k] = (k - 1) * PageSize
  BY <1>2, OrderOfStarts
<1>4. result' = JoinedAnswers
  BY <1>1, <1>3, SameOperators DEF JoinedAnswers
<1>5. JoinedAnswers' = JoinedAnswers
  BY <1>1 DEF JoinedAnswers
<1>6. AnswersInv'
  BY <1>1 DEF AnswersInv, Starts, Slice, Part, V3!Listing
<1>7. QED
  BY <1>1, <1>4, <1>5, <1>6 DEF SubgraphInv

LEMMA SubgraphUnchanged == ASSUME SubgraphInv, UNCHANGED v3vars PROVE SubgraphInv'
<1>1. UNCHANGED <<subgraph, indexed, before, result, request, total, open, answers>>
  BY DEF v3vars
<1>2. AnswersInv => AnswersInv'
  BY <1>1 DEF AnswersInv, Starts, Slice, Part, V3!Listing
<1>3. JoinedAnswers' = JoinedAnswers
  BY <1>1 DEF JoinedAnswers
<1>4. QED
  BY <1>1, <1>2, <1>3 DEF SubgraphInv

LEMMA NextSubgraph == SubgraphInv /\ [DexNext]_<<dex, vars, v3vars>> => SubgraphInv'
<1> SUFFICES ASSUME SubgraphInv, [DexNext]_<<dex, vars, v3vars>> PROVE SubgraphInv'
  OBVIOUS
<1>1. CASE UNCHANGED v3vars
  BY <1>1, SubgraphUnchanged
<1>2. CASE V3!Next
  <2>1. ASSUME NEW id \in Ids, V3!IndexPool(id) PROVE SubgraphInv'
    BY <2>1, IndexPoolSubgraph
  <2>2. CASE V3!Call
    BY <2>2, CallSubgraph
  <2>3. CASE V3!Count
    BY <2>3, CountSubgraph
  <2>4. ASSUME NEW s \in V3!Skips, V3!PageRead(s) PROVE SubgraphInv'
    BY <2>4, PageReadSubgraph
  <2>5. CASE V3!Fail
    BY <2>5, FailSubgraph
  <2>6. CASE V3!Return
    BY <2>6, ReturnSubgraph
  <2>7. QED
    BY <1>2, <2>1, <2>2, <2>3, <2>4, <2>5, <2>6 DEF V3!Next
<1>3. QED
  BY <1>1, <1>2 DEF DexNext

(* Every reachable state of the view keeps the invariant of the subgraph's *)
(* answers.                                                                *)
THEOREM SubgraphInvariance == DexSpec => []SubgraphInv
<1>1. DexInit => SubgraphInv
  BY InitSubgraph DEF DexInit
<1>2. QED
  BY <1>1, NextSubgraph, PTL DEF DexSpec

-----------------------------------------------------------------------------
(* What a call returns, page by page. *)
LEMMA ReturnedPages ==
  ASSUME SubgraphInv, request = "done", subgraph
  PROVE  /\ before \subseteq indexed /\ indexed \subseteq Ids
         /\ total \in Nat /\ total = Lesser(Cardinality(before), Cap)
         /\ \E parts \in Seq(Seq(Ids)) :
              /\ result = FlattenSeq(parts) /\ Len(parts) = (total + PageSize - 1) \div PageSize
              /\ \A k \in 1..Len(parts) :
                   \E T \in SUBSET indexed :
                     before \subseteq T /\ parts[k] = Slice(T, (k - 1) * PageSize)
<1>0. PICK P \in Nat \ {0} : P = PageSize
  BY PageAssumption
<1>1. /\ AnswersInv /\ open = {} /\ result = JoinedAnswers /\ indexed \subseteq Ids
      /\ before \subseteq indexed /\ total = Lesser(Cardinality(before), Cap)
      /\ DOMAIN answers = Starts(total)
  BY DEF SubgraphInv, AnswersInv
<1>2. total \in Nat
  <2>1. Cardinality(before) \in Nat /\ Cap \in Nat
    BY <1>1, KnownFinite, DiscoveryAssumption
  <2>2. QED
    BY <1>1, <2>1 DEF Lesser
<1>3. PICK c : c = (total + P - 1) \div P
  OBVIOUS
<1>4. /\ c \in Nat /\ Cardinality(Starts(total)) = c
      /\ \A k \in Nat \ {0} : k <= c <=> (k - 1) * P \in Starts(total)
  BY <1>0, <1>2, <1>3, StartsCounted
<1>5. PICK parts : parts = [k \in 1..c |-> answers[(k - 1) * P]]
  OBVIOUS
<1>6. result = FlattenSeq(parts)
  BY <1>0, <1>1, <1>4, <1>5 DEF JoinedAnswers
<1>7. ASSUME NEW k \in 1..c
      PROVE  /\ parts[k] \in Seq(Ids)
             /\ \E T \in SUBSET indexed :
                  before \subseteq T /\ parts[k] = Slice(T, (k - 1) * P)
  <2>1. PICK a : a = (k - 1) * P
    OBVIOUS
  <2>2. k \in Nat \ {0} /\ k <= c
    BY <1>4
  <2>3. a \in DOMAIN answers /\ a \in Nat
    BY <1>0, <1>1, <1>4, <2>1, <2>2
  <2>4. PICK T \in SUBSET indexed : before \subseteq T /\ answers[a] = Slice(T, a)
    BY <1>1, <2>3 DEF AnswersInv
  <2>5. V3!Listing(T) \in Seq(T) /\ T \subseteq Ids
    BY <1>1, KnownFinite
  <2>6. V3!Listing(T) \in Seq(Ids)
    BY <2>5
  <2>7. a + P \in Nat
    BY <1>0, <2>3
  <2>8. Slice(T, a) \in Seq(Ids)
    BY <1>0, <2>3, <2>6, <2>7, PartOf DEF Slice
  <2>9. parts[k] = answers[a]
    BY <1>5, <2>1
  <2>10. QED
    BY <2>1, <2>4, <2>8, <2>9
<1>8. parts \in Seq(Seq(Ids)) /\ Len(parts) = c
  <2>1. parts \in [1..c -> Seq(Ids)]
    BY <1>5, <1>7
  <2>2. QED
    BY <1>4, <2>1
<1>9. QED
  BY <1>0, <1>1, <1>2, <1>3, <1>6, <1>7, <1>8

LEMMA QuietList == ASSUME SubgraphInv PROVE V3!QuietListExact
<1> SUFFICES ASSUME request = "done", subgraph, indexed = before
             PROVE  result = SubSeq(V3!Listing(before), 1,
                      IF Len(V3!Listing(before)) <= Cap THEN Len(V3!Listing(before))
                      ELSE IF V3!WholePages(Cap) <= Len(V3!Listing(before))
                           THEN V3!WholePages(Cap) ELSE Len(V3!Listing(before)))
  BY DEF V3!QuietListExact
<1>0. PICK P \in Nat \ {0} : P = PageSize
  BY PageAssumption
<1>1. /\ before \subseteq Ids /\ total \in Nat /\ total = Lesser(Cardinality(before), Cap)
  BY ReturnedPages
<1>2. PICK parts \in Seq(Seq(Ids)) :
        /\ result = FlattenSeq(parts) /\ Len(parts) = (total + P - 1) \div P
        /\ \A k \in 1..Len(parts) : parts[k] = Slice(before, (k - 1) * P)
  <2>1. \A T \in SUBSET indexed : before \subseteq T => T = before
    OBVIOUS
  <2>2. QED
    BY <1>0, <2>1, ReturnedPages
<1>3. PICK L : L = V3!Listing(before)
  OBVIOUS
<1>4. PICK n : n = Len(L)
  OBVIOUS
<1>5. L \in Seq(Ids) /\ n \in Nat /\ n = Cardinality(before) /\ Cap \in Nat
  <2>1. L \in Seq(before) /\ n = Cardinality(before) /\ n \in Nat
    BY <1>1, <1>3, <1>4, KnownFinite
  <2>2. L \in Seq(Ids)
    BY <1>1, <2>1
  <2>3. Cap \in Nat
    BY DiscoveryAssumption
  <2>4. QED
    BY <2>1, <2>2, <2>3
<1>6. PICK c : c = (total + P - 1) \div P
  OBVIOUS
<1>7. c \in Nat /\ total <= c * P
  BY <1>0, <1>1, <1>6, StartsCounted
<1>8. \A k \in 1..Len(parts) : parts[k] = Part(L, (k - 1) * P, k * P)
  <2>1. TAKE k \in 1..Len(parts)
  <2>2. k \in Nat /\ (k - 1) * P + P = k * P
    BY <1>0, <1>2, <1>6, <1>7
  <2>3. parts[k] = Part(L, (k - 1) * P, (k - 1) * P + P)
    BY <1>0, <1>2, <1>3 DEF Slice
  <2>4. QED
    BY <1>0, <2>2, <2>3
<1>9. result = Part(L, 0, c * P)
  <2>1. FlattenSeq(parts) = Part(L, 0, Len(parts) * P)
    <3>1. /\ L \in Seq(Ids) /\ parts \in Seq(Seq(Ids))
          /\ \A k \in 1..Len(parts) : parts[k] = Part(L, (k - 1) * P, k * P)
      BY <1>5, <1>8, Zenon
    <3>2. P \in Nat \ {0}
      OBVIOUS
    <3>3. QED
      BY <3>1, <3>2, PagesJoin, Zenon
  <2>2. QED
    BY <1>0, <1>2, <1>6, <2>1
<1>10. PICK m : m = c * P
  OBVIOUS
<1>11. m \in Nat /\ total <= m
  BY <1>0, <1>7, <1>10
<1>12. result = SubSeq(L, 1, Lesser(m, n))
  BY <1>4, <1>9, <1>10 DEF Part
<1>13. CASE n <= Cap
  <2>1. total = n
    BY <1>1, <1>5, <1>13 DEF Lesser
  <2>2. Lesser(m, n) = n
    BY <1>5, <1>11, <2>1 DEF Lesser
  <2>3. QED
    BY <1>3, <1>4, <1>12, <1>13, <2>2
<1>14. CASE ~(n <= Cap)
  <2>1. total = Cap
    BY <1>1, <1>5, <1>14 DEF Lesser
  <2>2. V3!WholePages(Cap) = m
    BY <1>0, <1>6, <1>10, <2>1 DEF V3!WholePages
  <2>3. Lesser(m, n) = IF m <= n THEN m ELSE n
    BY DEF Lesser
  <2>4. QED
    BY <1>3, <1>4, <1>12, <1>14, <2>2, <2>3
<1>15. QED
  BY <1>13, <1>14

(* If nothing was indexed while the pages were read, the list is the       *)
(* subgraph's, in its order, up to the cap rounded up to a whole page, for *)
(* every page size and cap.                                                *)
THEOREM QuietListExactCorrect == DexSpec => []QuietListExact
<1>1. SubgraphInv => QuietListExact
  BY QuietList DEF QuietListExact
<1>2. QED
  BY <1>1, SubgraphInvariance, PTL

(* Every element of q is in one place of one of the first m parts, and no  *)
(* two of them are in the same.                                            *)
Places(part, place, q, parts, m) ==
  /\ part \in [1..Len(q) -> 1..m] /\ place \in [1..Len(q) -> Nat \ {0}]
  /\ \A i \in 1..Len(q) :
       place[i] <= Len(parts[part[i]]) /\ q[i] = parts[part[i]][place[i]]
  /\ \A i, j \in 1..Len(q) : part[i] = part[j] /\ place[i] = place[j] => i = j

LEMMA PlacesOfNext ==
  ASSUME NEW X, NEW n \in Nat, NEW parts \in [1..n -> Seq(X)], NEW m \in Nat, m + 1 \in 1..n,
         NEW q \in Seq(X), NEW part, NEW place, Places(part, place, q, parts, m)
  PROVE  \E a, b : Places(a, b, q \o parts[m + 1], parts, m + 1)
<1>1. PICK l, r, s : l = Len(q) /\ s = parts[m + 1] /\ r = Len(s)
  OBVIOUS
<1>2. l \in Nat /\ r \in Nat /\ s \in Seq(X)
  BY <1>1
<1>3. PICK z : z = q \o s
  OBVIOUS
<1>4. /\ Len(z) = l + r
      /\ \A i \in 1..(l + r) : z[i] = IF i <= l THEN q[i] ELSE s[i - l]
  BY <1>1, <1>2, <1>3
<1>5. PICK a, b : /\ a = [i \in 1..(l + r) |-> IF i <= l THEN part[i] ELSE m + 1]
                  /\ b = [i \in 1..(l + r) |-> IF i <= l THEN place[i] ELSE i - l]
  OBVIOUS
<1>6. /\ part \in [1..l -> 1..m] /\ place \in [1..l -> Nat \ {0}]
      /\ \A i \in 1..l : place[i] <= Len(parts[part[i]]) /\ q[i] = parts[part[i]][place[i]]
      /\ \A i, j \in 1..l : part[i] = part[j] /\ place[i] = place[j] => i = j
  BY <1>1 DEF Places
<1>7. ASSUME NEW i \in 1..(l + r)
      PROVE  /\ a[i] \in 1..(m + 1) /\ b[i] \in Nat \ {0}
             /\ b[i] <= Len(parts[a[i]]) /\ z[i] = parts[a[i]][b[i]]
  <2>1. CASE i <= l
    <3>1. i \in 1..l
      BY <1>2, <2>1
    <3>2. a[i] = part[i] /\ b[i] = place[i] /\ z[i] = q[i]
      BY <1>4, <1>5, <2>1
    <3>3. part[i] \in 1..m /\ place[i] \in Nat \ {0}
      BY <1>6, <3>1
    <3>4. part[i] \in 1..(m + 1)
      BY <3>3
    <3>5. QED
      BY <1>6, <3>1, <3>2, <3>3, <3>4
  <2>2. CASE ~(i <= l)
    <3>1. a[i] = m + 1 /\ b[i] = i - l /\ z[i] = s[i - l]
      BY <1>4, <1>5, <2>2
    <3>2. m + 1 \in 1..(m + 1) /\ i - l \in Nat \ {0} /\ i - l <= r
      BY <1>2, <2>2
    <3>3. QED
      BY <1>1, <3>1, <3>2
  <2>3. QED
    BY <2>1, <2>2
<1>8. ASSUME NEW i \in 1..(l + r), NEW j \in 1..(l + r), a[i] = a[j], b[i] = b[j]
      PROVE  i = j
  <2>1. \A k \in 1..l : part[k] # m + 1
    BY <1>6
  <2>2. CASE i <= l /\ j <= l
    <3>1. i \in 1..l /\ j \in 1..l
      BY <1>2, <2>2
    <3>2. part[i] = part[j] /\ place[i] = place[j]
      BY <1>5, <1>8, <2>2
    <3>3. QED
      BY <1>6, <3>1, <3>2
  <2>3. CASE i <= l /\ ~(j <= l)
    <3>1. i \in 1..l /\ a[i] = part[i] /\ a[j] = m + 1
      BY <1>2, <1>5, <2>3
    <3>2. QED
      BY <1>8, <2>1, <3>1
  <2>4. CASE ~(i <= l) /\ j <= l
    <3>1. j \in 1..l /\ a[j] = part[j] /\ a[i] = m + 1
      BY <1>2, <1>5, <2>4
    <3>2. QED
      BY <1>8, <2>1, <3>1
  <2>5. CASE ~(i <= l) /\ ~(j <= l)
    <3>1. b[i] = i - l /\ b[j] = j - l
      BY <1>5, <2>5
    <3>2. i - l = j - l
      BY <1>8, <3>1
    <3>3. i \in Int /\ j \in Int
      BY <1>2
    <3>4. QED
      BY <1>2, <3>2, <3>3
  <2>6. QED
    BY <2>2, <2>3, <2>4, <2>5
<1>9. a \in [1..(l + r) -> 1..(m + 1)] /\ b \in [1..(l + r) -> Nat \ {0}]
  <2>1. \A i \in 1..(l + r) : a[i] \in 1..(m + 1) /\ b[i] \in Nat \ {0}
    BY <1>7
  <2>2. a = [i \in 1..(l + r) |-> a[i]] /\ b = [i \in 1..(l + r) |-> b[i]]
    BY <1>5
  <2>3. QED
    BY <2>1, <2>2
<1>10. Places(a, b, z, parts, m + 1)
  BY <1>4, <1>7, <1>8, <1>9 DEF Places
<1>11. QED
  BY <1>1, <1>3, <1>10

LEMMA FlattenPlaces ==
  ASSUME NEW X, NEW parts \in Seq(Seq(X))
  PROVE  /\ FlattenSeq(parts) \in Seq(X)
         /\ \E part, place : Places(part, place, FlattenSeq(parts), parts, Len(parts))
<1>1. PICK n \in Nat : n = Len(parts)
  OBVIOUS
<1>2. parts \in [1..n -> Seq(X)]
  BY <1>1
<1>3. CASE n = 0
  <2>1. parts = <<>> /\ FlattenSeq(parts) = parts
    <3>1. Len(parts) = 0
      BY <1>1, <1>3
    <3>2. parts = <<>>
      BY <3>1
    <3>3. QED
      BY <3>1, <3>2 DEF FlattenSeq
  <2>2. PICK q : q = FlattenSeq(parts)
    OBVIOUS
  <2>3. q = <<>> /\ q \in Seq(X) /\ Len(q) = 0 /\ 1..Len(q) = {}
    BY <2>1, <2>2
  <2>4. PICK a : a = [i \in {} |-> 1]
    OBVIOUS
  <2>5. a \in [1..Len(q) -> 1..n] /\ a \in [1..Len(q) -> Nat \ {0}]
    BY <2>3, <2>4
  <2>6. Places(a, a, q, parts, n)
    BY <2>3, <2>5 DEF Places
  <2>7. QED
    BY <1>1, <2>2, <2>3, <2>6
<1>4. CASE n # 0
  <2>1. PICK f \in [1..n -> Seq(X)] : Joins(f, parts, n) /\ FlattenSeq(parts) = f[n]
    BY <1>1, <1>4, FlattenJoins
  <2> DEFINE T == {m \in 1..n : ~\E a, b : Places(a, b, f[m], parts, m)}
  <2>2. T = {}
    <3>1. SUFFICES ASSUME T # {} PROVE FALSE
      OBVIOUS
    <3>2. T \in SUBSET Nat
      BY <1>1
    <3>3. PICK m \in T : \A j \in T : m <= j
      BY <3>1, <3>2, Least
    <3>4. m # 1
      <4>1. 1 \in 1..n
        BY <1>1, <1>4
      <4>2. PICK q : q = f[1]
        OBVIOUS
      <4>3. q = parts[1] /\ q \in Seq(X)
        BY <1>2, <2>1, <4>1, <4>2 DEF Joins
      <4>4. PICK a, b : a = [i \in 1..Len(q) |-> 1] /\ b = [i \in 1..Len(q) |-> i]
        OBVIOUS
      <4>5. a \in [1..Len(q) -> 1..1] /\ b \in [1..Len(q) -> Nat \ {0}] /\ Len(q) \in Nat
        BY <4>3, <4>4
      <4>6. \A i \in 1..Len(q) : a[i] = 1 /\ b[i] = i /\ i <= Len(q)
        BY <4>4, <4>5
      <4>7. \A i \in 1..Len(q) : b[i] <= Len(parts[a[i]]) /\ q[i] = parts[a[i]][b[i]]
        BY <4>3, <4>6, Zenon
      <4>8. \A i, j \in 1..Len(q) : a[i] = a[j] /\ b[i] = b[j] => i = j
        BY <4>6, Zenon
      <4>9. Places(a, b, q, parts, 1)
        BY <4>5, <4>7, <4>8, Zenon DEF Places
      <4>10. QED
        BY <4>2, <4>9
    <3>5. m \in 2..n /\ m - 1 \in 1..n /\ m - 1 \in Nat /\ (m - 1) + 1 = m
      BY <1>1, <3>4
    <3>6. m - 1 \notin T
      <4> HIDE DEF T
      <4>1. QED
        BY <1>1, <3>3, <3>5
    <3>7. PICK a, b : Places(a, b, f[m - 1], parts, m - 1)
      BY <3>5, <3>6
    <3>8. f[m] = f[m - 1] \o parts[m]
      BY <2>1, <3>4, <3>5 DEF Joins
    <3>9. f[m - 1] \in Seq(X)
      BY <3>5
    <3>10. \E d, e : Places(d, e, f[m - 1] \o parts[(m - 1) + 1], parts, (m - 1) + 1)
      BY <1>2, <3>5, <3>7, <3>9, PlacesOfNext
    <3>11. QED
      BY <3>5, <3>8, <3>10
  <2>3. n \in 1..n
    BY <1>1, <1>4
  <2>4. \E a, b : Places(a, b, f[n], parts, n)
    BY <2>2, <2>3
  <2>5. QED
    BY <1>1, <2>1, <2>3, <2>4
<1>5. QED
  BY <1>3, <1>4

(* A pool that is indexed moves another one by one place at most. *)
LEMMA RankGrows ==
  ASSUME NEW T \in SUBSET indexed, before \subseteq T, indexed \subseteq Ids, NEW x
  PROVE  /\ Rank(before, x) \in Nat /\ Rank(T, x) \in Nat
         /\ Cardinality(indexed \ before) \in Nat
         /\ Rank(before, x) <= Rank(T, x)
         /\ Rank(T, x) <= Rank(before, x) + Cardinality(indexed \ before)
<1>1. PICK A, B, D : /\ A = {y \in before : y < x} /\ B = {y \in T : y < x}
                     /\ D = indexed \ before
  OBVIOUS
<1>2. /\ A \in SUBSET B /\ B \in SUBSET (A \cup D)
      /\ B \subseteq Ids /\ A \subseteq Ids /\ D \subseteq Ids
  BY <1>1
<1>3. /\ IsFiniteSet(A) /\ IsFiniteSet(B) /\ IsFiniteSet(D)
      /\ Cardinality(A) \in Nat /\ Cardinality(B) \in Nat /\ Cardinality(D) \in Nat
  BY <1>2, KnownFinite
<1>4. Cardinality(A) <= Cardinality(B)
  BY <1>2, <1>3, FS_Subset
<1>5. /\ IsFiniteSet(A \cup D)
      /\ Cardinality(A \cup D) = Cardinality(A) + Cardinality(D) - Cardinality(A \cap D)
  BY <1>3, FS_Union
<1>6. A \cap D = {}
  BY <1>1
<1>7. Cardinality(A \cup D) = Cardinality(A) + Cardinality(D)
  <2>1. Cardinality(A \cap D) = 0
    BY <1>6, FS_EmptySet
  <2>2. QED
    BY <1>3, <1>5, <2>1
<1>8. Cardinality(B) <= Cardinality(A \cup D)
  BY <1>2, <1>5, FS_Subset
<1>9. QED
  BY <1>1, <1>3, <1>4, <1>7, <1>8 DEF Rank

(* In a page, the place of a pool tells its rank. *)
LEMMA SliceRank ==
  ASSUME NEW T \in SUBSET indexed, indexed \subseteq Ids, NEW s \in Nat,
         NEW j \in Nat \ {0}, j <= Len(Slice(T, s))
  PROVE  j <= PageSize /\ Slice(T, s)[j] \in T /\ Rank(T, Slice(T, s)[j]) = s + j - 1
<1>0. PICK P \in Nat \ {0} : P = PageSize
  BY PageAssumption
<1>1. PICK L, n, m : L = V3!Listing(T) /\ n = Cardinality(T) /\ m = Lesser(s + P, n)
  OBVIOUS
<1>2. /\ L \in Seq(T) /\ Len(L) = n /\ n \in Nat /\ T \in SUBSET Nat /\ IsFiniteSet(T)
  <2>1. T \subseteq Ids
    OBVIOUS
  <2>2. QED
    BY <1>1, <2>1, KnownFinite
<1>3. \A k \in 1..n : Rank(T, L[k]) = k - 1
  BY <1>1, <1>2, ListingRanks
<1>4. PICK p : p = Slice(T, s)
  OBVIOUS
<1>5. Len(p) = (IF m > s THEN m - s ELSE 0) /\ \A i \in 1..Len(p) : p[i] = L[s + i]
  <2>1. s + P \in Nat
    BY <1>0
  <2>2. p = Part(L, s, s + P)
    BY <1>0, <1>1, <1>4 DEF Slice
  <2>3. QED
    BY <1>1, <1>2, <2>1, <2>2, PartOf
<1>6. m \in Nat /\ m <= n /\ m <= s + P
  BY <1>0, <1>1, <1>2 DEF Lesser
<1>7. j <= P /\ s + j \in 1..n /\ j \in 1..Len(p)
  BY <1>0, <1>2, <1>4, <1>5, <1>6
<1>8. p[j] = L[s + j] /\ L[s + j] \in T /\ Rank(T, L[s + j]) = s + j - 1
  BY <1>2, <1>3, <1>5, <1>7
<1>9. QED
  BY <1>0, <1>4, <1>7, <1>8

LEMMA FewDuplicates ==
  ASSUME SubgraphInv, request = "done", subgraph, NEW id
  PROVE  Cardinality({i \in DOMAIN result : result[i] = id})
           <= 1 + Cardinality(indexed \ before)
<1>0. PICK P \in Nat \ {0} : P = PageSize
  BY PageAssumption
<1>1. before \subseteq indexed /\ indexed \subseteq Ids
  BY ReturnedPages
<1>2. PICK parts \in Seq(Seq(Ids)) :
        /\ result = FlattenSeq(parts)
        /\ \A k \in 1..Len(parts) :
             \E T \in SUBSET indexed : before \subseteq T /\ parts[k] = Slice(T, (k - 1) * P)
  BY <1>0, ReturnedPages
<1>3. PICK n \in Nat : n = Len(parts)
  OBVIOUS
<1>4. PICK q : q = result
  OBVIOUS
<1>5. PICK a, b : q \in Seq(Ids) /\ Places(a, b, q, parts, n)
  BY <1>2, <1>3, <1>4, FlattenPlaces
<1>6. PICK D : D = {i \in DOMAIN q : q[i] = id}
  OBVIOUS
<1>7. PICK lo, d : lo = Rank(before, id) /\ d = Cardinality(indexed \ before)
  OBVIOUS
<1>8. lo \in Nat /\ d \in Nat
  BY <1>1, <1>7, RankGrows
<1>9. ASSUME NEW i \in D
      PROVE  /\ i \in 1..Len(q) /\ a[i] \in 1..n /\ b[i] \in Nat \ {0} /\ b[i] <= P
             /\ (a[i] - 1) * P + b[i] - 1 \in lo..(lo + d)
  <2>1. i \in 1..Len(q) /\ q[i] = id
    BY <1>5, <1>6
  <2>2. /\ a[i] \in 1..n /\ b[i] \in Nat \ {0} /\ b[i] <= Len(parts[a[i]])
        /\ parts[a[i]][b[i]] = id
    BY <1>5, <2>1 DEF Places
  <2>3. PICK s : s = (a[i] - 1) * P
    OBVIOUS
  <2>4. s \in Nat
    <3>1. a[i] - 1 \in Nat
      BY <2>2
    <3>2. QED
      BY <1>0, <2>3, <3>1
  <2>5. PICK T \in SUBSET indexed : before \subseteq T /\ parts[a[i]] = Slice(T, s)
    BY <1>2, <1>3, <2>2, <2>3
  <2>6. b[i] <= P /\ id \in T /\ Rank(T, id) = s + b[i] - 1
    <3>1. PICK j : j = b[i]
      OBVIOUS
    <3>2. j \in Nat \ {0} /\ j <= Len(Slice(T, s)) /\ Slice(T, s)[j] = id
      BY <2>2, <2>5, <3>1
    <3>3. j <= PageSize /\ Slice(T, s)[j] \in T /\ Rank(T, Slice(T, s)[j]) = s + j - 1
      BY <1>1, <2>4, <3>2, SliceRank
    <3>4. QED
      BY <1>0, <3>1, <3>2, <3>3
  <2>7. lo <= Rank(T, id) /\ Rank(T, id) <= lo + d /\ Rank(T, id) \in Nat
    BY <1>1, <1>7, <2>5, RankGrows
  <2>8. s + b[i] - 1 \in lo..(lo + d)
    BY <1>8, <2>6, <2>7
  <2>9. QED
    BY <2>1, <2>2, <2>3, <2>6, <2>8
<1>10. PICK g : g = [i \in D |-> (a[i] - 1) * P + b[i] - 1]
  OBVIOUS
<1>11. g \in [D -> lo..(lo + d)]
  BY <1>9, <1>10
<1>12. ASSUME NEW i \in D, NEW j \in D, g[i] = g[j] PROVE i = j
  <2>1. PICK u, v, x, y : u = a[i] /\ v = a[j] /\ x = b[i] /\ y = b[j]
    OBVIOUS
  <2>2. /\ u \in 1..n /\ v \in 1..n /\ x \in 1..P /\ y \in 1..P
        /\ (u - 1) * P + x - 1 = (v - 1) * P + y - 1
    <3>1. u \in 1..n /\ x \in Nat \ {0} /\ x <= P /\ v \in 1..n /\ y \in Nat \ {0} /\ y <= P
      BY <1>9, <2>1
    <3>2. g[i] = (u - 1) * P + x - 1 /\ g[j] = (v - 1) * P + y - 1
      BY <1>10, <2>1
    <3>3. (u - 1) * P + x - 1 = (v - 1) * P + y - 1
      BY <1>12, <3>2
    <3>4. x \in 1..P /\ y \in 1..P
      BY <1>0, <3>1
    <3>5. QED
      BY <3>1, <3>3, <3>4
  <2>3. ASSUME NEW k \in 1..n, NEW l \in 1..n, k < l PROVE (k - 1) * P + P <= (l - 1) * P
    <3>1. PICK e \in Nat : e = l - k - 1
      BY <1>3, <2>3
    <3>2. l - 1 = (k - 1) + 1 + e /\ k - 1 \in Nat
      BY <1>3, <3>1
    <3>3. PICK w \in Nat : w = k - 1
      BY <3>2
    <3>4. (w + 1 + e) * P = w * P + P + e * P /\ e * P \in Nat /\ w * P \in Nat
      BY <1>0, <3>1, <3>3
    <3>5. QED
      BY <1>0, <3>2, <3>3, <3>4
  <2>4. (u - 1) * P \in Int /\ (v - 1) * P \in Int
    BY <1>0, <1>3, <2>2
  <2>5. ~(u < v)
    <3>1. u < v => (u - 1) * P + P <= (v - 1) * P
      BY <2>2, <2>3
    <3>2. PICK h, k : h = (u - 1) * P /\ k = (v - 1) * P
      OBVIOUS
    <3>3. h \in Int /\ k \in Int /\ h + x - 1 = k + y - 1 /\ (u < v => h + P <= k)
      BY <2>2, <2>4, <3>1, <3>2
    <3>4. QED
      BY <1>0, <2>2, <3>3
  <2>6. ~(v < u)
    <3>1. v < u => (v - 1) * P + P <= (u - 1) * P
      BY <2>2, <2>3
    <3>2. PICK h, k : h = (u - 1) * P /\ k = (v - 1) * P
      OBVIOUS
    <3>3. h \in Int /\ k \in Int /\ h + x - 1 = k + y - 1 /\ (v < u => k + P <= h)
      BY <2>2, <2>4, <3>1, <3>2
    <3>4. QED
      BY <1>0, <2>2, <3>3
  <2>7. u = v
    BY <1>3, <2>2, <2>5, <2>6
  <2>8. x = y
    <3>1. PICK h : h = (u - 1) * P
      OBVIOUS
    <3>2. h \in Int /\ h + x - 1 = h + y - 1
      BY <2>2, <2>4, <2>7, <3>1
    <3>3. QED
      BY <1>0, <2>2, <3>2
  <2>9. i \in 1..Len(q) /\ j \in 1..Len(q)
    BY <1>9
  <2>10. QED
    BY <1>5, <2>1, <2>7, <2>8, <2>9 DEF Places
<1>13. g \in Injection(D, lo..(lo + d))
  BY <1>11, <1>12, Fun_IsInj
<1>14. IsFiniteSet(lo..(lo + d)) /\ Cardinality(lo..(lo + d)) = d + 1
  <2>1. PICK hi \in Nat : hi = lo + d
    BY <1>8
  <2>2. lo \in Int /\ hi \in Int
    BY <1>8, <2>1
  <2>3. IsFiniteSet(lo..hi) /\ Cardinality(lo..hi) = IF lo > hi THEN 0 ELSE hi - lo + 1
    BY <2>2, FS_Interval
  <2>4. ~(lo > hi) /\ hi - lo + 1 = d + 1
    BY <1>8, <2>1
  <2>5. QED
    BY <2>1, <2>3, <2>4
<1>15. Cardinality(D) <= d + 1
  BY <1>13, <1>14, FS_Injection
<1>16. QED
  BY <1>4, <1>6, <1>7, <1>8, <1>15

(* However the pages interleave with indexing, an address is listed twice  *)
(* only because pools were indexed meanwhile, and at most once more for    *)
(* each of them, for every page size and cap.                              *)
THEOREM DuplicatesBoundedCorrect == DexSpec => []DuplicatesBounded
<1>1. ASSUME SubgraphInv PROVE DuplicatesBounded
  <2>1. SUFFICES ASSUME request = "done", subgraph, NEW id
                 PROVE  V3!Cardinality({i \in DOMAIN result : result[i] = id})
                          <= 1 + V3!Cardinality(indexed \ before)
    BY DEF DuplicatesBounded, V3!DuplicatesBounded
  <2>2. Cardinality({i \in DOMAIN result : result[i] = id})
          <= 1 + Cardinality(indexed \ before)
    BY <1>1, <2>1, FewDuplicates
  <2>3. /\ V3!Cardinality({i \in DOMAIN result : result[i] = id})
             = Cardinality({i \in DOMAIN result : result[i] = id})
        /\ V3!Cardinality(indexed \ before) = Cardinality(indexed \ before)
    BY SameOperators
  <2>4. QED
    BY <2>2, <2>3
<1>2. QED
  BY <1>1, SubgraphInvariance, PTL

-----------------------------------------------------------------------------
(* fetch_pools: from a list of addresses to the records of its pools.      *)

(* kept is the table of the filter, up to the first n addresses. *)
Keeps(kept, addrs, n) ==
  \A k \in 0..n :
    kept[k] = IF k = 0 THEN <<>>
              ELSE IF IsDefault(addrs[k]) THEN Append(kept[k - 1], addrs[k]) ELSE kept[k - 1]

LEMMA FilterTable ==
  ASSUME NEW X, NEW addrs \in Seq(X)
  PROVE  \E kept \in [0..Len(addrs) -> Seq(X)] :
           Keeps(kept, addrs, Len(addrs)) /\ Filtered(addrs) = kept[Len(addrs)]
<1>1. PICK n \in Nat : n = Len(addrs)
  OBVIOUS
<1>2. \A k \in 1..n : addrs[k] \in X
  BY <1>1
<1> DEFINE Step(g, k) == IF k = 0 THEN <<>>
                         ELSE IF IsDefault(addrs[k]) THEN Append(g[k - 1], addrs[k]) ELSE g[k - 1]
           T == {m \in 0..n : ~\E g \in [0..n -> Seq(X)] : Keeps(g, addrs, m)}
<1>3. T = {}
  <2>1. SUFFICES ASSUME T # {} PROVE FALSE
    OBVIOUS
  <2>2. T \in SUBSET Nat
    BY <1>1
  <2>3. PICK m \in T : \A j \in T : m <= j
    BY <2>1, <2>2, Least
  <2>4. m # 0
    <3>1. PICK g : g = [k \in 0..n |-> <<>>]
      OBVIOUS
    <3>2. g \in [0..n -> Seq(X)] /\ Keeps(g, addrs, 0)
      BY <3>1 DEF Keeps
    <3>3. QED
      BY <3>2
  <2>5. m \in 1..n /\ m - 1 \in 0..n
    BY <1>1, <2>4
  <2>6. m - 1 \notin T
    <3> HIDE DEF T
    <3>1. QED
      BY <1>1, <2>3, <2>5
  <2>7. PICK g \in [0..n -> Seq(X)] : Keeps(g, addrs, m - 1)
    BY <2>5, <2>6
  <2>8. Step(g, m) \in Seq(X)
    <3>1. g[m - 1] \in Seq(X) /\ addrs[m] \in X
      BY <1>2, <2>5, <2>7
    <3>2. QED
      BY <2>5, <3>1
  <2>9. PICK h : h = [g EXCEPT ![m] = Step(g, m)]
    OBVIOUS
  <2>10. h \in [0..n -> Seq(X)]
    BY <2>8, <2>9
  <2>11. Keeps(h, addrs, m)
    <3>1. ASSUME NEW k \in 0..m PROVE h[k] = Step(h, k)
      <4>1. CASE k = m
        <5>1. m \in 0..n /\ m - 1 # m
          BY <2>5
        <5>2. h[m] = Step(g, m) /\ h[m - 1] = g[m - 1]
          BY <2>5, <2>9, <5>1
        <5>3. QED
          BY <4>1, <5>2
      <4>2. CASE k # m
        <5>1. k \in 0..(m - 1) /\ k \in 0..n /\ (k # 0 => k - 1 \in 0..n /\ k - 1 # m)
          BY <1>1, <2>5, <4>2
        <5>2. g[k] = Step(g, k)
          BY <2>7, <5>1 DEF Keeps
        <5>3. h[k] = g[k] /\ (k # 0 => h[k - 1] = g[k - 1])
          BY <2>9, <4>2, <5>1
        <5>4. QED
          BY <5>2, <5>3
      <4>3. QED
        BY <4>1, <4>2
    <3>2. QED
      BY <3>1 DEF Keeps
  <2>12. QED
    BY <2>10, <2>11
<1>4. PICK g \in [0..n -> Seq(X)] : Keeps(g, addrs, n)
  <2>1. n \in 0..n
    BY <1>1
  <2>2. QED
    BY <1>3, <2>1
<1>5. g = [k \in 0..n |-> Step(g, k)]
  <2>1. g = [k \in 0..n |-> g[k]]
    BY <1>4
  <2>2. \A k \in 0..n : g[k] = Step(g, k)
    BY <1>4 DEF Keeps
  <2>3. QED
    BY <2>1, <2>2
<1> DEFINE F == CHOOSE f : f = [k \in 0..Len(addrs) |-> Step(f, k)]
<1>6. F = [k \in 0..Len(addrs) |-> Step(F, k)]
  BY <1>1, <1>5
<1>7. Filtered(addrs) = F[n]
  BY <1>1 DEF Filtered
<1> HIDE DEF F
<1>8. \A k \in 0..n : F[k] = Step(F, k)
  BY <1>1, <1>6
<1> DEFINE U == {m \in 0..n : F[m] \notin Seq(X)}
<1>9. U = {}
  <2>1. SUFFICES ASSUME U # {} PROVE FALSE
    OBVIOUS
  <2>2. U \in SUBSET Nat
    BY <1>1
  <2>3. PICK m \in U : \A j \in U : m <= j
    BY <2>1, <2>2, Least
  <2>4. m # 0
    <3>1. 0 \in 0..n
      BY <1>1
    <3>2. F[0] = <<>>
      BY <1>8, <3>1
    <3>3. F[0] \in Seq(X)
      BY <3>2
    <3>4. QED
      BY <2>3, <3>3
  <2>5. m \in 1..n /\ m - 1 \in 0..n
    BY <1>1, <2>4
  <2>6. m - 1 \notin U
    <3> HIDE DEF U
    <3>1. QED
      BY <1>1, <2>3, <2>5
  <2>7. F[m - 1] \in Seq(X) /\ addrs[m] \in X
    BY <1>2, <2>5, <2>6
  <2>8. F[m] \in Seq(X)
    <3>1. F[m] = Step(F, m)
      BY <1>8, <2>5
    <3>2. QED
      BY <2>4, <2>7, <3>1
  <2>9. QED
    BY <2>8
<1>10. F \in [0..n -> Seq(X)]
  <2>1. \A k \in 0..n : F[k] \in Seq(X)
    BY <1>9
  <2>2. F = [k \in 0..n |-> F[k]]
    BY <1>1, <1>6
  <2>3. QED
    BY <2>1, <2>2
<1>11. Keeps(F, addrs, n)
  BY <1>8 DEF Keeps
<1>12. QED
  BY <1>1, <1>7, <1>10, <1>11

(* The list is not made longer, and begins as the addresses do while they  *)
(* are all kept.                                                           *)
LEMMA FilterKeeps ==
  ASSUME NEW X, NEW addrs \in Seq(X)
  PROVE  /\ Filtered(addrs) \in Seq(X) /\ Len(Filtered(addrs)) <= Len(addrs)
         /\ \A i \in 1..Len(addrs) :
              (\A j \in 1..i : IsDefault(addrs[j])) =>
                i <= Len(Filtered(addrs)) /\ Filtered(addrs)[i] = addrs[i]
<1>1. PICK n \in Nat : n = Len(addrs)
  OBVIOUS
<1>2. PICK kept \in [0..n -> Seq(X)] : Keeps(kept, addrs, n) /\ Filtered(addrs) = kept[n]
  BY <1>1, FilterTable
<1> DEFINE Leads(m) == /\ Len(kept[m]) <= m
                       /\ \A i \in 1..m : (\A j \in 1..i : IsDefault(addrs[j])) =>
                            i <= Len(kept[m]) /\ kept[m][i] = addrs[i]
           T == {m \in 0..n : ~Leads(m)}
<1>3. T = {}
  <2>1. SUFFICES ASSUME T # {} PROVE FALSE
    OBVIOUS
  <2>2. T \in SUBSET Nat
    BY <1>1
  <2>3. PICK m \in T : \A j \in T : m <= j
    BY <2>1, <2>2, Least
  <2>4. m # 0
    <3>1. kept[0] = <<>>
      BY <1>1, <1>2 DEF Keeps
    <3>2. Leads(0)
      BY <3>1
    <3>3. QED
      BY <3>2
  <2>5. m \in 1..n /\ m - 1 \in 0..n /\ m \in 0..n
    BY <1>1, <2>4
  <2>6. m - 1 \notin T
    <3> HIDE DEF T
    <3>1. QED
      BY <1>1, <2>3, <2>5
  <2>7. PICK s, t : s = kept[m - 1] /\ t = kept[m]
    OBVIOUS
  <2>8. s \in Seq(X) /\ t \in Seq(X) /\ addrs[m] \in X
    BY <1>1, <1>2, <2>5, <2>7
  <2>9. /\ Len(s) <= m - 1
        /\ \A i \in 1..(m - 1) : (\A j \in 1..i : IsDefault(addrs[j])) =>
             i <= Len(s) /\ s[i] = addrs[i]
    BY <2>5, <2>6, <2>7
  <2>10. t = IF IsDefault(addrs[m]) THEN Append(s, addrs[m]) ELSE s
    BY <1>2, <2>4, <2>5, <2>7 DEF Keeps
  <2>11. Len(t) <= m /\ Len(t) >= Len(s) /\ \A i \in 1..Len(s) : t[i] = s[i]
    <3>1. CASE IsDefault(addrs[m])
      BY <2>5, <2>8, <2>9, <2>10, <3>1
    <3>2. CASE ~IsDefault(addrs[m])
      BY <2>5, <2>8, <2>9, <2>10, <3>2
    <3>3. QED
      BY <3>1, <3>2
  <2>12. ASSUME NEW i \in 1..m, \A j \in 1..i : IsDefault(addrs[j])
         PROVE  i <= Len(t) /\ t[i] = addrs[i]
    <3>1. CASE i <= m - 1
      <4>1. i \in 1..(m - 1)
        BY <2>5, <3>1
      <4>2. i <= Len(s) /\ s[i] = addrs[i]
        BY <2>9, <2>12, <4>1
      <4>3. i \in 1..Len(s) /\ Len(s) \in Nat /\ Len(t) \in Nat
        BY <2>8, <4>1, <4>2
      <4>4. QED
        BY <2>11, <4>2, <4>3
    <3>2. CASE ~(i <= m - 1)
      <4>1. i = m /\ m \in 1..i
        BY <2>5, <3>2
      <4>2. IsDefault(addrs[m])
        BY <2>12, <4>1
      <4>3. Len(s) = m - 1
        <5> HIDE DEF T
        <5>1. CASE m = 1
          <6>1. Len(s) \in Nat /\ Len(s) <= m - 1
            BY <2>8, <2>9
          <6>2. QED
            BY <5>1, <6>1
        <5>2. CASE m # 1
          <6>1. m - 1 \in 1..(m - 1) /\ \A j \in 1..(m - 1) : j \in 1..i
            BY <2>5, <4>1, <5>2
          <6>2. m - 1 <= Len(s)
            BY <2>9, <2>12, <6>1
          <6>3. Len(s) \in Nat /\ Len(s) <= m - 1
            BY <2>8, <2>9
          <6>4. QED
            BY <2>5, <6>2, <6>3
        <5>3. QED
          BY <5>1, <5>2
      <4>4. t = Append(s, addrs[m])
        BY <2>10, <4>2
      <4>5. Len(t) = m /\ t[m] = addrs[m]
        BY <2>5, <2>8, <4>3, <4>4
      <4>6. QED
        BY <4>1, <4>5
    <3>3. QED
      BY <3>1, <3>2
  <2>13. Leads(m)
    BY <2>7, <2>11, <2>12
  <2>14. QED
    BY <2>13
<1>4. n \in 0..n
  BY <1>1
<1>5. Leads(n)
  BY <1>3, <1>4
<1>6. QED
  BY <1>1, <1>2, <1>4, <1>5

-----------------------------------------------------------------------------
(* fetch_pools: the answers of a phase, joined, are one for each address   *)
(* asked for, in their order.                                              *)

KnownAddress == [kind : Kinds, pool : DOMAIN FeeOf]
ReadPhases == {"params", "states", "ticks"}
Answers(p) == [i \in 1..Len(Asked(p)) |-> ReadOf(p, Asked(p)[i])]

(* A page is answered in full, or not yet. *)
RepliesInv ==
  /\ replies = [c \in DOMAIN Requests(phase) |-> replies[c]]
  /\ \A c \in DOMAIN replies :
       \/ replies[c] = <<>>
       \/ replies[c] = [i \in DOMAIN Requests(phase)[c] |-> ReadOf(phase, Requests(phase)[c][i])]

LEMMA AskedIsSeq ==
  ASSUME asked \in Lists, NEW p
  PROVE  /\ Asked(p) \in Seq(KnownAddress) /\ asked \in Seq(KnownAddress)
         /\ DefaultAddresses \in Seq(KnownAddress) /\ Len(DefaultAddresses) <= Len(asked)
<1>1. asked \in Seq(KnownAddress)
  BY RecordsAssumption DEF KnownAddress
<1>2. DefaultAddresses \in Seq(KnownAddress) /\ Len(DefaultAddresses) <= Len(asked)
  BY <1>1, FilterKeeps DEF DefaultAddresses
<1>3. QED
  BY <1>1, <1>2 DEF Asked

LEMMA SizesPositive == \A p : SizeOf(p) \in Nat \ {0}
BY RecordsAssumption DEF SizeOf

LEMMA SamePart ==
  ASSUME NEW X, NEW L \in Seq(X), NEW a \in Nat, NEW b \in Nat
  PROVE  SubSeq(L, a + 1, Shorter(b, Len(L))) = Part(L, a, b)
<1>1. Len(L) \in Nat
  OBVIOUS
<1>2. Shorter(b, Len(L)) = Lesser(b, Len(L))
  BY <1>1 DEF Shorter, Lesser
<1>3. QED
  BY <1>2 DEF Part

(* The chunks of a list are its parts of one size. *)
LEMMA ChunksAreParts ==
  ASSUME NEW X, NEW L \in Seq(X), NEW P \in Nat \ {0}
  PROVE  /\ (Len(L) + P - 1) \div P \in Nat
         /\ Len(L) <= ((Len(L) + P - 1) \div P) * P
         /\ \A k \in 1..((Len(L) + P - 1) \div P) : (k - 1) * P < Len(L) /\ (k - 1) * P \in Nat
<1>1. PICK n \in Nat : n = Len(L)
  OBVIOUS
<1>2. PICK q, r : q = (n + P - 1) \div P /\ r = (n + P - 1) % P
  OBVIOUS
<1>3. n + P - 1 \in Nat
  OBVIOUS
<1>4. q \in Nat /\ r \in 0..(P - 1) /\ n + P - 1 = P * q + r
  BY <1>2, <1>3
<1>5. P * q = q * P /\ q * P \in Nat
  BY <1>4
<1>6. n <= q * P
  BY <1>4, <1>5
<1>7. ASSUME NEW k \in 1..q PROVE (k - 1) * P < n /\ (k - 1) * P \in Nat
  <2>1. PICK d \in Nat : q = (k - 1) + 1 + d
    <3>1. q - k \in Nat /\ q = (k - 1) + 1 + (q - k)
      BY <1>4
    <3>2. QED
      BY <3>1
  <2>2. PICK j \in Nat : j = k - 1
    BY <1>4
  <2>3. q * P = j * P + P + d * P /\ j * P \in Nat /\ d * P \in Nat
    BY <2>1, <2>2
  <2>4. QED
    BY <1>4, <1>5, <2>2, <2>3
<1>8. QED
  BY <1>1, <1>2, <1>4, <1>6, <1>7

LEMMA RepliesJoin ==
  ASSUME asked \in Lists, phase \in ReadPhases, RepliesInv, AllAnswered
  PROVE  Joined = Answers(phase)
<1>1. PICK L \in Seq(KnownAddress) : L = Asked(phase)
  BY AskedIsSeq
<1>2. PICK P \in Nat \ {0} : P = SizeOf(phase)
  BY SizesPositive
<1>3. PICK n \in Nat : n = Len(L)
  OBVIOUS
<1>4. PICK q : q = (n + P - 1) \div P
  OBVIOUS
<1>5. /\ q \in Nat /\ n <= q * P
      /\ \A k \in 1..q : (k - 1) * P < n /\ (k - 1) * P \in Nat
  BY <1>3, <1>4, ChunksAreParts
<1> DEFINE X == {ReadOf(phase, a) : a \in KnownAddress}
<1>6. PICK A : A = Answers(phase)
  OBVIOUS
<1>7. /\ A = [i \in 1..n |-> ReadOf(phase, L[i])]
      /\ \A i \in 1..n : L[i] \in KnownAddress
  BY <1>1, <1>3, <1>6 DEF Answers
<1>8. \A i \in 1..n : A[i] = ReadOf(phase, L[i]) /\ A[i] \in X
  BY <1>7
<1> HIDE DEF X
<1>9. A \in Seq(X) /\ Len(A) = n
  BY <1>7, <1>8
<1>10. Requests(phase) = [c \in 1..q |-> SubSeq(L, (c - 1) * P + 1, Shorter(c * P, n))]
  BY <1>1, <1>2, <1>3, <1>4 DEF Requests, Chunks
<1>11. ASSUME NEW c \in 1..q PROVE replies[c] = Part(A, (c - 1) * P, c * P)
  <2>1. PICK a \in Nat, b \in Nat : a = (c - 1) * P /\ b = c * P
    BY <1>5
  <2>2. PICK r, s : r = Part(L, a, b) /\ s = Part(A, a, b)
    OBVIOUS
  <2>3. a < n /\ a < b
    <3>1. b = a + P
      BY <1>5, <2>1
    <3>2. QED
      BY <1>5, <2>1, <3>1
  <2>4. Lesser(b, n) > a /\ Lesser(b, n) \in Nat /\ Lesser(b, n) <= n
    BY <2>3 DEF Lesser
  <2>5. PICK m \in Nat : m = Lesser(b, n) - a
    BY <2>4
  <2>6. m > 0 /\ \A i \in 1..m : a + i \in 1..n
    BY <2>4, <2>5
  <2>7. /\ r \in Seq(KnownAddress) /\ Len(r) = m /\ \A i \in 1..m : r[i] = L[a + i]
    BY <1>3, <2>2, <2>4, <2>5, PartOf
  <2>8. /\ s \in Seq(X) /\ Len(s) = m /\ \A i \in 1..m : s[i] = A[a + i]
    BY <1>9, <2>2, <2>4, <2>5, PartOf
  <2>9. Requests(phase)[c] = r
    <3>1. Requests(phase)[c] = SubSeq(L, a + 1, Shorter(b, n))
      BY <1>10, <2>1
    <3>2. QED
      BY <1>3, <2>2, <3>1, SamePart
  <2>10. replies[c] # <<>> /\ c \in DOMAIN replies
    BY <1>10 DEF RepliesInv, AllAnswered
  <2>11. replies[c] = [i \in DOMAIN r |-> ReadOf(phase, r[i])]
    BY <2>9, <2>10 DEF RepliesInv
  <2>12. replies[c] = [i \in 1..m |-> ReadOf(phase, r[i])]
    BY <2>7, <2>11
  <2>13. \A i \in 1..m : ReadOf(phase, r[i]) = s[i] /\ s[i] \in X
    BY <1>8, <2>6, <2>7, <2>8
  <2>14. PICK u : u = replies[c]
    OBVIOUS
  <2>15. u = [i \in 1..m |-> s[i]]
    BY <2>12, <2>13, <2>14
  <2>16. u \in Seq(X) /\ Len(u) = m
    BY <2>13, <2>15
  <2>17. u = s
    BY <2>8, <2>15, <2>16, SameSequence
  <2>18. QED
    BY <2>1, <2>2, <2>14, <2>17
<1>12. ASSUME NEW c \in 1..q PROVE replies[c] \in Seq(X)
  <2>1. (c - 1) * P \in Nat /\ c * P \in Nat
    BY <1>5
  <2>2. Part(A, (c - 1) * P, c * P) \in Seq(X)
    BY <1>9, <2>1, PartOf
  <2>3. QED
    BY <1>11, <2>2

<1>13. replies = [c \in 1..q |-> replies[c]]
  BY <1>10 DEF RepliesInv
<1>14. replies \in Seq(Seq(X)) /\ Len(replies) = q
  <2>1. PICK u, v, Y : u = replies /\ v = replies /\ Y = Seq(X)
    OBVIOUS
  <2>2. u = [c \in 1..q |-> v[c]] /\ \A c \in 1..q : v[c] \in Y
    BY <1>12, <1>13, <2>1
  <2>3. u \in Seq(Y) /\ Len(u) = q
    BY <1>5, <2>2
  <2>4. QED
    BY <2>1, <2>3
<1>15. FlattenSeq(replies) = Part(A, 0, q * P)
  BY <1>9, <1>11, <1>14, PagesJoin
<1>16. Part(A, 0, q * P) = A
  <2>1. PICK b \in Nat : b = q * P /\ n <= b
    BY <1>5
  <2>2. PICK w : w = Part(A, 0, b)
    OBVIOUS
  <2>3. Lesser(b, n) = n
    BY <2>1 DEF Lesser
  <2>4. w \in Seq(X) /\ Len(w) = n /\ \A i \in 1..Len(w) : w[i] = A[i]
    BY <1>9, <2>2, <2>3, PartFromStart
  <2>5. w = A
    BY <1>9, <2>4, SameSequence
  <2>6. QED
    BY <2>1, <2>2, <2>5
<1>17. QED
  BY <1>6, <1>15, <1>16 DEF Joined

-----------------------------------------------------------------------------
(* The records, once all is answered: what was read for each address.      *)
Fetched ==
  [i \in 1..Len(DefaultAddresses) |->
     IF exchange = "UniV2"
     THEN UniV2Record(Answers("params")[i], Answers("states")[i])
     ELSE UniV3Record(Answers("params")[i], Answers("states")[i], Answers("ticks")[i])]

FetchInv ==
  /\ exchange \in {"UniV2", "UniV3"} /\ asked \in Lists
  /\ phase \in ReadPhases \cup {"fetched", "failed"}
  /\ phase = "ticks" => exchange = "UniV3"
  /\ phase \in ReadPhases => RepliesInv
  /\ phase = "params" => lists = <<>>
  /\ phase = "states" => lists = <<Answers("params")>>
  /\ phase = "ticks" => lists = <<Answers("params"), Answers("states")>>
  /\ phase = "fetched" => records = Fetched

(* What is sent of the k-th record. *)
MessageOf(k, missing) ==
  [outcome |-> "message", of |-> k, type |-> records[k].type,
   fields |-> [f \in DOMAIN ToMessage(records[k]) |->
                 IF f \in missing THEN Absent ELSE ToMessage(records[k])[f]]]
JsonOf(k, form) ==
  [outcome |-> "json", of |-> k, type |-> records[k].type,
   form |-> form, fields |-> [f \in DOMAIN records[k] \ {"type"} |-> records[k][f]]]

SentInv ==
  /\ \/ sent = None
     \/ phase = "fetched" /\ sent = [outcome |-> "unknown"]
     \/ /\ phase = "fetched"
        /\ \E k \in DOMAIN records :
             \/ \E missing \in SUBSET Fields : sent = MessageOf(k, missing)
             \/ \E form \in {"object", "text"} : sent = JsonOf(k, form)
  /\ back # None => sent # None


LEMMA Kept ==
  ASSUME UNCHANGED <<exchange, asked>>
  PROVE  /\ DefaultAddresses' = DefaultAddresses
         /\ \A p : Requests(p)' = Requests(p) /\ Answers(p)' = Answers(p)
         /\ \A p, a : ReadOf(p, a)' = ReadOf(p, a)
<1>1. DefaultAddresses' = DefaultAddresses /\ exchange' = exchange /\ asked' = asked
  BY DEF DefaultAddresses
<1>2. \A p : Asked(p)' = Asked(p)
  BY <1>1 DEF Asked
<1>3. \A p, a : ReadOf(p, a)' = ReadOf(p, a)
  BY <1>1 DEF ReadOf, RustFields, SolidityFields
<1>4. \A p : Requests(p)' = Requests(p)
  BY <1>2 DEF Requests, SizeOf
<1>5. \A p : Answers(p)' = Answers(p)
  BY <1>2, <1>3 DEF Answers
<1>6. QED
  BY <1>1, <1>3, <1>4, <1>5

LEMMA WaitingReplies ==
  ASSUME UNCHANGED <<exchange, asked>>, replies' = Waiting(phase')
  PROVE  RepliesInv'
<1>1. Requests(phase)' = Requests(phase')
  BY Kept
<1>2. QED
  BY <1>1 DEF RepliesInv, Waiting

LEMMA InitFetch == RecordsInit => FetchInv
<1> SUFFICES ASSUME RecordsInit PROVE FetchInv
  OBVIOUS
<1>1. replies = [c \in DOMAIN Requests(phase) |-> <<>>]
  BY DEF RecordsInit, Waiting
<1>2. RepliesInv
  BY <1>1 DEF RepliesInv
<1>3. QED
  BY <1>2 DEF RecordsInit, FetchInv, ReadPhases

LEMMA AnswerFetch == ASSUME FetchInv, NEW c \in DOMAIN replies, AnswerPage(c) PROVE FetchInv'
<1>1. /\ UNCHANGED <<exchange, asked>> /\ phase \in ReadPhases /\ UNCHANGED <<phase, lists, records>>
      /\ replies' = [replies EXCEPT ![c] =
           [i \in DOMAIN Requests(phase)[c] |-> ReadOf(phase, Requests(phase)[c][i])]]
  BY DEF AnswerPage, ReadPhases
<1>2. Requests(phase)' = Requests(phase) /\ \A a : ReadOf(phase, a)' = ReadOf(phase, a)
  BY <1>1, Kept
<1>3. RepliesInv
  BY <1>1 DEF FetchInv
<1>4. replies' = [d \in DOMAIN Requests(phase) |-> replies'[d]]
  BY <1>1, <1>3 DEF RepliesInv
<1>5. ASSUME NEW d \in DOMAIN replies'
      PROVE  \/ replies'[d] = <<>>
             \/ replies'[d] = [i \in DOMAIN Requests(phase)[d] |-> ReadOf(phase, Requests(phase)[d][i])]
  BY <1>1, <1>3 DEF RepliesInv
<1>6. RepliesInv'
  BY <1>1, <1>2, <1>4, <1>5 DEF RepliesInv
<1>7. Answers("params")' = Answers("params") /\ Answers("states")' = Answers("states")
  BY <1>1, Kept
<1>8. phase # "fetched"
  BY <1>1 DEF ReadPhases
<1>9. QED
  BY <1>1, <1>6, <1>7, <1>8 DEF FetchInv

LEMMA FailFetch == ASSUME FetchInv, NEW c \in DOMAIN replies, FailPage(c) PROVE FetchInv'
BY DEF FetchInv, FailPage, ReadPhases

LEMMA TwoInOrder ==
  ASSUME NEW x, NEW y
  PROVE  Append(<<x>>, y) = <<x, y>>
<1>1. PICK s, t, X : s = Append(<<x>>, y) /\ t = <<x, y>> /\ X = {x, y}
  OBVIOUS
<1>2. x \in X /\ y \in X
  BY <1>1
<1>3. <<x>> \in Seq(X) /\ Len(<<x>>) = 1 /\ <<x>>[1] = x
  BY <1>2
<1>4. s \in Seq(X) /\ Len(s) = 2 /\ s[1] = x /\ s[2] = y
  BY <1>1, <1>2, <1>3
<1>5. t \in Seq(X) /\ Len(t) = 2 /\ t[1] = x /\ t[2] = y
  BY <1>1, <1>2
<1>6. s = t
  BY <1>4, <1>5, SameSequence
<1>7. QED
  BY <1>1, <1>6

LEMMA JoinFetch == ASSUME FetchInv, Join PROVE FetchInv'
<1>1. /\ UNCHANGED <<exchange, asked>> /\ phase \in ReadPhases /\ ~IsLast(phase) /\ AllAnswered
      /\ lists' = Append(lists, Joined) /\ phase' = NextPhase(phase)
      /\ replies' = Waiting(phase')
  BY DEF Join, ReadPhases
<1>2. RepliesInv'
  BY <1>1, WaitingReplies
<1>3. Joined = Answers(phase)
  BY <1>1, RepliesJoin DEF FetchInv
<1>4. Answers("params")' = Answers("params") /\ Answers("states")' = Answers("states")
  BY <1>1, Kept
<1>5. exchange \in {"UniV2", "UniV3"} /\ asked \in Lists
  BY DEF FetchInv
<1>6. CASE phase = "params"
  <2>1. lists = <<>>
    BY <1>6 DEF FetchInv
  <2>2. lists' = <<Answers("params")>>
    BY <1>1, <1>3, <1>6, <2>1
  <2>3. QED
    BY <1>1, <1>2, <1>4, <1>5, <1>6, <2>2 DEF FetchInv, NextPhase, ReadPhases
<1>7. CASE phase = "states"
  <2>1. lists = <<Answers("params")>> /\ exchange = "UniV3"
    BY <1>1, <1>7 DEF FetchInv, IsLast
  <2>2. lists' = <<Answers("params"), Answers("states")>>
    <3>1. PICK x, y : x = Answers("params") /\ y = Answers("states")
      OBVIOUS
    <3>2. Append(<<x>>, y) = <<x, y>>
      BY TwoInOrder
    <3>3. QED
      BY <1>1, <1>3, <1>7, <2>1, <3>1, <3>2
  <2>3. QED
    BY <1>1, <1>2, <1>4, <1>5, <1>7, <2>1, <2>2 DEF FetchInv, NextPhase, ReadPhases
<1>8. phase # "ticks"
  BY <1>1 DEF FetchInv, IsLast
<1>9. QED
  BY <1>1, <1>6, <1>7, <1>8 DEF ReadPhases

LEMMA AnswersLength ==
  ASSUME asked \in Lists, NEW p
  PROVE  /\ Len(Answers(p)) = Len(Asked(p)) /\ Len(Asked(p)) \in Nat
         /\ Answers(p) \in Seq({ReadOf(p, a) : a \in KnownAddress})
<1>1. PICK L \in Seq(KnownAddress) : L = Asked(p)
  BY AskedIsSeq
<1>2. PICK n \in Nat : n = Len(L)
  OBVIOUS
<1> DEFINE X == {ReadOf(p, a) : a \in KnownAddress}
<1>3. PICK A : A = Answers(p)
  OBVIOUS
<1>4. A = [i \in 1..n |-> ReadOf(p, L[i])] /\ \A i \in 1..n : L[i] \in KnownAddress
  BY <1>1, <1>2, <1>3 DEF Answers
<1>5. \A i \in 1..n : A[i] \in X
  BY <1>4
<1> HIDE DEF X
<1>6. A \in Seq(X) /\ Len(A) = n
  BY <1>4, <1>5
<1> USE DEF X
<1>7. QED
  BY <1>1, <1>2, <1>3, <1>6

LEMMA FetchedUnchanged ==
  ASSUME UNCHANGED <<exchange, asked>>
  PROVE  Fetched' = Fetched
<1>1. exchange' = exchange /\ asked' = asked
  OBVIOUS
<1>2. \A a, b : UniV2Record(a, b)' = UniV2Record(a, b)
  BY <1>1 DEF UniV2Record
<1>3. \A a, b, c : UniV3Record(a, b, c)' = UniV3Record(a, b, c)
  BY <1>1 DEF UniV3Record
<1>4. /\ DefaultAddresses' = DefaultAddresses
      /\ \A p : Answers(p)' = Answers(p)
  BY Kept
<1>5. QED
  BY <1>1, <1>2, <1>3, <1>4 DEF Fetched

LEMMA FinishUniV2Fetch == ASSUME FetchInv, FinishUniV2 PROVE FetchInv'
<1>1. /\ UNCHANGED <<exchange, asked>> /\ exchange = "UniV2" /\ phase = "states" /\ AllAnswered
      /\ phase' = "fetched"
      /\ records' = [i \in 1..Shorter(Len(lists[1]), Len(Joined)) |->
                       UniV2Record(lists[1][i], Joined[i])]
  BY DEF FinishUniV2
<1>2. Joined = Answers("states") /\ lists[1] = Answers("params") /\ asked \in Lists
  BY <1>1, RepliesJoin DEF FetchInv, ReadPhases
<1>3. Len(lists[1]) = Len(DefaultAddresses) /\ Len(Joined) = Len(DefaultAddresses)
  BY <1>1, <1>2, AnswersLength DEF Asked
<1>4. records' = Fetched
  BY <1>1, <1>2, <1>3 DEF Fetched, Shorter
<1>5. QED
  BY <1>1, <1>4, FetchedUnchanged DEF FetchInv, ReadPhases

LEMMA FinishUniV3Fetch == ASSUME FetchInv, FinishUniV3 PROVE FetchInv'
<1>1. /\ UNCHANGED <<exchange, asked>> /\ exchange = "UniV3" /\ phase = "ticks" /\ AllAnswered
      /\ phase' = "fetched"
      /\ records' = [i \in 1..Shorter(Len(lists[1]), Shorter(Len(lists[2]), Len(Joined))) |->
                       UniV3Record(lists[1][i], lists[2][i], Joined[i])]
  BY DEF FinishUniV3
<1>2. /\ Joined = Answers("ticks") /\ lists = <<Answers("params"), Answers("states")>>
      /\ asked \in Lists
  BY <1>1, RepliesJoin DEF FetchInv, ReadPhases
<1>3. lists[1] = Answers("params") /\ lists[2] = Answers("states")
  BY <1>2
<1>4. PICK k, n \in Nat : k = Len(DefaultAddresses) /\ n = Len(asked)
  BY <1>2, AskedIsSeq
<1>5. k <= n
  BY <1>2, <1>4, AskedIsSeq
<1>6. Len(lists[1]) = k /\ Len(lists[2]) = n /\ Len(Joined) = n
  <2>1. Asked("params") = DefaultAddresses /\ Asked("states") = asked /\ Asked("ticks") = asked
    BY <1>1 DEF Asked
  <2>2. \A p : Len(Answers(p)) = Len(Asked(p))
    BY <1>2, AnswersLength
  <2>3. Len(Answers("params")) = k /\ Len(Answers("states")) = n /\ Len(Answers("ticks")) = n
    BY <1>4, <2>1, <2>2
  <2>4. Joined = Answers("ticks")
    BY <1>2
  <2>5. QED
    BY <1>3, <2>3, <2>4
<1>7. Shorter(k, Shorter(n, n)) = k
  BY <1>4, <1>5 DEF Shorter
<1>8. records' = Fetched
  BY <1>1, <1>2, <1>3, <1>4, <1>6, <1>7 DEF Fetched
<1>9. QED
  BY <1>1, <1>8, FetchedUnchanged DEF FetchInv, ReadPhases

LEMMA SameFetch ==
  ASSUME FetchInv, UNCHANGED <<exchange, asked, phase, replies, lists, records>>
  PROVE  FetchInv'
<1>1. /\ Requests(phase)' = Requests(phase) /\ \A a : ReadOf(phase, a)' = ReadOf(phase, a)
      /\ Answers("params")' = Answers("params") /\ Answers("states")' = Answers("states")
  BY Kept
<1>2. RepliesInv => RepliesInv'
  BY <1>1 DEF RepliesInv
<1>3. Fetched' = Fetched
  BY FetchedUnchanged
<1>4. QED
  BY <1>1, <1>2, <1>3 DEF FetchInv

-----------------------------------------------------------------------------
(* The bindings list the fields of the structs as Solidity does, so that a *)
(* field is read under its own name.                                       *)
LEMMA FieldsAgree == \A p : RustFields(p) = SolidityFields(p)
BY DEF RustFields, SolidityFields, V2Abi!UniV2PoolParamsResponse, V2Abi!UniV2PoolStateResponse,
       V3Abi!UniV3PoolParamsResponse, V3Abi!UniV3PoolStateResponse,
       UniV2PoolParamsFields, UniV2PoolStateFields, UniV3PoolParamsFields, UniV3PoolStateFields

LEMMA ReadByName ==
  ASSUME NEW p, NEW a, NEW name \in ToSet(RustFields(p))
  PROVE  ReadOf(p, a)[name] = [pool |-> a.pool, of |-> <<name>>]
<1>1. PICK F : F = RustFields(p) /\ F = SolidityFields(p)
  BY FieldsAgree
<1>2. \E i \in DOMAIN F : F[i] = name
  BY <1>1 DEF ToSet
<1>3. PICK k : k = CHOOSE i \in DOMAIN F : F[i] = name
  OBVIOUS
<1>4. F[k] = name
  BY <1>2, <1>3
<1>5. ReadOf(p, a)[name] = [pool |-> a.pool, of |-> <<F[CHOOSE i \in DOMAIN F : F[i] = name]>>]
  BY <1>1 DEF ReadOf
<1>6. QED
  BY <1>3, <1>4, <1>5

(* The names that the records are made of are fields of the structs. *)
LEMMA FieldNames ==
  /\ exchange = "UniV2" =>
       /\ {"pool", "tokenList", "fees"} \subseteq ToSet(RustFields("params"))
       /\ "balances" \in ToSet(RustFields("states"))
  /\ exchange = "UniV3" =>
       /\ {"pool", "tokenList", "fee", "tickSpacing"} \subseteq ToSet(RustFields("params"))
       /\ {"sqrtPriceX96", "liquidity", "tick"} \subseteq ToSet(RustFields("states"))
       /\ "ticks" \in ToSet(RustFields("ticks"))
<1>1. ASSUME NEW s, NEW i \in DOMAIN s PROVE s[i] \in ToSet(s)
  BY DEF ToSet
<1>2. CASE exchange = "UniV2"
  <2>1. PICK s, t : s = RustFields("params") /\ t = RustFields("states")
    OBVIOUS
  <2>2. s = <<"fees", "pool", "factory", "tokenList">> /\ t = <<"balances", "totalSupply", "paused">>
    BY <1>2, <2>1 DEF RustFields, V2Abi!UniV2PoolParamsResponse, V2Abi!UniV2PoolStateResponse
  <2>3. /\ DOMAIN s = 1..4 /\ s[1] = "fees" /\ s[2] = "pool" /\ s[4] = "tokenList"
        /\ DOMAIN t = 1..3 /\ t[1] = "balances"
    BY <2>2
  <2>4. s[1] \in ToSet(s) /\ s[2] \in ToSet(s) /\ s[4] \in ToSet(s) /\ t[1] \in ToSet(t)
    BY <1>1, <2>3
  <2>5. QED
    BY <1>2, <2>1, <2>3, <2>4
<1>3. CASE exchange = "UniV3"
  <2>1. PICK s, t, u : s = RustFields("params") /\ t = RustFields("states") /\ u = RustFields("ticks")
    OBVIOUS
  <2>2. /\ s = <<"pool", "tickSpacing", "fee", "maxLiquidityPerTick", "factory", "tokenList">>
        /\ t = <<"sqrtPriceX96", "blockTimestamp", "feeProtocol", "tick", "observationIndex",
                 "observationCardinality", "liquidity", "observationCardinalityNext">>
        /\ u = <<"ticks">>
    BY <1>3, <2>1 DEF RustFields, V3Abi!UniV3PoolParamsResponse, V3Abi!UniV3PoolStateResponse
  <2>3. /\ DOMAIN s = 1..6 /\ s[1] = "pool" /\ s[2] = "tickSpacing" /\ s[3] = "fee"
        /\ s[6] = "tokenList"
        /\ DOMAIN t = 1..8 /\ t[1] = "sqrtPriceX96" /\ t[4] = "tick" /\ t[7] = "liquidity"
        /\ DOMAIN u = 1..1 /\ u[1] = "ticks"
    BY <2>2
  <2>4. /\ s[1] \in ToSet(s) /\ s[2] \in ToSet(s) /\ s[3] \in ToSet(s) /\ s[6] \in ToSet(s)
        /\ t[1] \in ToSet(t) /\ t[4] \in ToSet(t) /\ t[7] \in ToSet(t) /\ u[1] \in ToSet(u)
    BY <1>1, <2>3
  <2>5. QED
    BY <1>3, <2>1, <2>3, <2>4
<1>4. QED
  BY <1>2, <1>3

LEMMA ElementOf ==
  ASSUME NEW a, NEW name, NEW i
  PROVE  Element([pool |-> a, of |-> <<name>>], i) = [pool |-> a, of |-> <<name, i>>]
BY TwoInOrder DEF Element

LEMMA UniV2Own ==
  ASSUME exchange = "UniV2", NEW a, NEW r,
         r = UniV2Record(ReadOf("params", a), ReadOf("states", a))
  PROVE  r.type = exchange /\ Holds(r, Identity, a.pool) /\ Holds(r, State, a.pool)
<1>1. PICK p : p = a.pool
  OBVIOUS
<1>2. /\ ReadOf("params", a)["pool"] = [pool |-> p, of |-> <<"pool">>]
      /\ ReadOf("params", a)["tokenList"] = [pool |-> p, of |-> <<"tokenList">>]
      /\ ReadOf("params", a)["fees"] = [pool |-> p, of |-> <<"fees">>]
      /\ ReadOf("states", a)["balances"] = [pool |-> p, of |-> <<"balances">>]
  BY <1>1, FieldNames, ReadByName
<1>3. PICK P, S : P = ReadOf("params", a) /\ S = ReadOf("states", a)
  OBVIOUS
<1>4. /\ DOMAIN r = {"type", "address", "dex_id", "gasfee", "token_a", "token_b", "balance_a",
                     "balance_b", "fee_numerator", "fee_denominator"}
      /\ r.type = "UniV2" /\ r.address = P["pool"]
      /\ r.token_a = Element(P["tokenList"], 0) /\ r.token_b = Element(P["tokenList"], 1)
      /\ r.balance_a = Element(S["balances"], 0) /\ r.balance_b = Element(S["balances"], 1)
      /\ r.fee_numerator = Element(P["fees"], 0) /\ r.fee_denominator = Element(P["fees"], 1)
  BY <1>3 DEF UniV2Record
<1>5. /\ r.address = [pool |-> p, of |-> <<"pool">>]
      /\ r.token_a = [pool |-> p, of |-> <<"tokenList", 0>>]
      /\ r.token_b = [pool |-> p, of |-> <<"tokenList", 1>>]
      /\ r.balance_a = [pool |-> p, of |-> <<"balances", 0>>]
      /\ r.balance_b = [pool |-> p, of |-> <<"balances", 1>>]
      /\ r.fee_numerator = [pool |-> p, of |-> <<"fees", 0>>]
      /\ r.fee_denominator = [pool |-> p, of |-> <<"fees", 1>>]
  BY <1>2, <1>3, <1>4, ElementOf
<1>6. Holds(r, Identity, p)
  <2>1. ASSUME NEW f \in DOMAIN Identity \cap DOMAIN r
        PROVE  r[f] = [pool |-> p, of |-> Identity[f]]
    <3>1. f \in {"address", "token_a", "token_b", "fee_numerator", "fee_denominator"}
      BY <1>4, <2>1 DEF Identity
    <3>2. QED
      BY <1>5, <3>1 DEF Identity
  <2>2. QED
    BY <2>1 DEF Holds
<1>7. Holds(r, State, p)
  <2>1. ASSUME NEW f \in DOMAIN State \cap DOMAIN r
        PROVE  r[f] = [pool |-> p, of |-> State[f]]
    <3>1. f \in {"balance_a", "balance_b"}
      BY <1>4, <2>1 DEF State
    <3>2. QED
      BY <1>5, <3>1 DEF State
  <2>2. QED
    BY <2>1 DEF Holds
<1>8. QED
  BY <1>1, <1>4, <1>6, <1>7

LEMMA UniV3Own ==
  ASSUME exchange = "UniV3", NEW a, NEW b, NEW r,
         r = UniV3Record(ReadOf("params", a), ReadOf("states", b), ReadOf("ticks", b))
  PROVE  /\ r.type = exchange /\ Holds(r, Identity, a.pool) /\ r.fee = FeeOf[a.pool]
         /\ Holds(r, State, b.pool)
<1>1. PICK p, q : p = a.pool /\ q = b.pool
  OBVIOUS
<1>2. PICK P, S, T : P = ReadOf("params", a) /\ S = ReadOf("states", b) /\ T = ReadOf("ticks", b)
  OBVIOUS
<1>3. /\ P["pool"] = [pool |-> p, of |-> <<"pool">>]
      /\ P["tokenList"] = [pool |-> p, of |-> <<"tokenList">>]
      /\ P["fee"] = [pool |-> p, of |-> <<"fee">>]
      /\ P["tickSpacing"] = [pool |-> p, of |-> <<"tickSpacing">>]
  BY <1>1, <1>2, FieldNames, ReadByName
<1>4. /\ S["liquidity"] = [pool |-> q, of |-> <<"liquidity">>]
      /\ S["sqrtPriceX96"] = [pool |-> q, of |-> <<"sqrtPriceX96">>]
      /\ S["tick"] = [pool |-> q, of |-> <<"tick">>]
      /\ T["ticks"] = [pool |-> q, of |-> <<"ticks">>]
  BY <1>1, <1>2, FieldNames, ReadByName
<1>5. /\ DOMAIN r = {"type", "address", "dex_id", "gasfee", "token_a", "token_b", "fee",
                     "tickspacing", "tick2liquidity_net", "liquidity", "slot0_sqrt_price_x96",
                     "slot0_tick"}
      /\ r.type = "UniV3" /\ r.address = P["pool"]
      /\ r.token_a = Element(P["tokenList"], 0) /\ r.token_b = Element(P["tokenList"], 1)
      /\ r.fee = FeeOf[P["fee"].pool] /\ r.tickspacing = P["tickSpacing"]
      /\ r.tick2liquidity_net = T["ticks"] /\ r.liquidity = S["liquidity"]
      /\ r.slot0_sqrt_price_x96 = S["sqrtPriceX96"] /\ r.slot0_tick = S["tick"]
  BY <1>2 DEF UniV3Record
<1>6. /\ r.address = [pool |-> p, of |-> <<"pool">>]
      /\ r.token_a = [pool |-> p, of |-> <<"tokenList", 0>>]
      /\ r.token_b = [pool |-> p, of |-> <<"tokenList", 1>>]
      /\ r.tickspacing = [pool |-> p, of |-> <<"tickSpacing">>]
      /\ r.fee = FeeOf[p]
  BY <1>3, <1>5, ElementOf
<1>7. /\ r.tick2liquidity_net = [pool |-> q, of |-> <<"ticks">>]
      /\ r.liquidity = [pool |-> q, of |-> <<"liquidity">>]
      /\ r.slot0_sqrt_price_x96 = [pool |-> q, of |-> <<"sqrtPriceX96">>]
      /\ r.slot0_tick = [pool |-> q, of |-> <<"tick">>]
  BY <1>4, <1>5
<1>8. Holds(r, Identity, p)
  <2>1. ASSUME NEW f \in DOMAIN Identity \cap DOMAIN r
        PROVE  r[f] = [pool |-> p, of |-> Identity[f]]
    <3>1. f \in {"address", "token_a", "token_b", "tickspacing"}
      BY <1>5, <2>1 DEF Identity
    <3>2. QED
      BY <1>6, <3>1 DEF Identity
  <2>2. QED
    BY <2>1 DEF Holds
<1>9. Holds(r, State, q)
  <2>1. ASSUME NEW f \in DOMAIN State \cap DOMAIN r
        PROVE  r[f] = [pool |-> q, of |-> State[f]]
    <3>1. f \in {"liquidity", "slot0_sqrt_price_x96", "slot0_tick", "tick2liquidity_net"}
      BY <1>5, <2>1 DEF State
    <3>2. QED
      BY <1>7, <3>1 DEF State
  <2>2. QED
    BY <2>1 DEF Holds
<1>10. QED
  BY <1>1, <1>5, <1>6, <1>8, <1>9

(* The records at hand are those of the addresses they were asked for.     *)
LEMMA FetchedOwn == ASSUME FetchInv PROVE RecordsOwn
<1> SUFFICES ASSUME phase = "fetched"
             PROVE  /\ Len(records) = Len(DefaultAddresses)
                    /\ \A i \in DOMAIN records :
                         LET pool == DefaultAddresses[i].pool
                         IN /\ records[i].type = exchange /\ Holds(records[i], Identity, pool)
                            /\ exchange = "UniV3" => records[i].fee = FeeOf[pool]
                            /\ (exchange = "UniV2" \/ \A j \in 1..i : IsDefault(asked[j])) =>
                                 Holds(records[i], State, pool)
  BY DEF RecordsOwn
<1>1. records = Fetched /\ asked \in Lists /\ exchange \in {"UniV2", "UniV3"}
  BY DEF FetchInv
<1>2. PICK k, n \in Nat : k = Len(DefaultAddresses) /\ n = Len(asked)
  BY <1>1, AskedIsSeq
<1>3. k <= n
  BY <1>1, <1>2, AskedIsSeq
<1>4. Len(records) = k /\ DOMAIN records = 1..k
  BY <1>1, <1>2 DEF Fetched
<1>5. ASSUME NEW i \in 1..k
      PROVE  /\ records[i].type = exchange /\ Holds(records[i], Identity, DefaultAddresses[i].pool)
             /\ exchange = "UniV3" => records[i].fee = FeeOf[DefaultAddresses[i].pool]
             /\ (exchange = "UniV2" \/ \A j \in 1..i : IsDefault(asked[j])) =>
                  Holds(records[i], State, DefaultAddresses[i].pool)
  <2>1. i \in 1..n
    BY <1>2, <1>3
  <2>2. Asked("params") = DefaultAddresses
    BY DEF Asked
  <2>3. Answers("params")[i] = ReadOf("params", DefaultAddresses[i])
    BY <1>2, <2>2 DEF Answers
  <2>4. CASE exchange = "UniV2"
    <3>1. Answers("states")[i] = ReadOf("states", DefaultAddresses[i])
      BY <1>2, <2>4 DEF Answers, Asked
    <3>2. records[i] = UniV2Record(ReadOf("params", DefaultAddresses[i]),
                                   ReadOf("states", DefaultAddresses[i]))
      BY <1>1, <1>2, <2>3, <2>4, <3>1 DEF Fetched
    <3>3. QED
      BY <2>4, <3>2, UniV2Own
  <2>5. CASE exchange = "UniV3"
    <3>1. /\ Answers("states")[i] = ReadOf("states", asked[i])
          /\ Answers("ticks")[i] = ReadOf("ticks", asked[i])
      BY <1>2, <2>1, <2>5 DEF Answers, Asked
    <3>2. records[i] = UniV3Record(ReadOf("params", DefaultAddresses[i]),
                                   ReadOf("states", asked[i]), ReadOf("ticks", asked[i]))
      BY <1>1, <1>2, <2>3, <2>5, <3>1 DEF Fetched
    <3>3. (\A j \in 1..i : IsDefault(asked[j])) => DefaultAddresses[i] = asked[i]
      <4>1. asked \in Seq(KnownAddress)
        BY <1>1, AskedIsSeq
      <4>2. QED
        BY <1>2, <2>1, <4>1, FilterKeeps DEF DefaultAddresses
    <3>4. QED
      BY <2>5, <3>2, <3>3, UniV3Own
  <2>6. QED
    BY <1>1, <2>4, <2>5
<1>6. QED
  BY <1>2, <1>4, <1>5

-----------------------------------------------------------------------------
(* A record on its way to another process.                                 *)

LEMMA FeeBack == ASSUME NEW n \in 0..(FeeRange - 1) PROVE AsU32(AsI32(n)) = n
<1>1. PICK R \in Nat \ {0} : R = FeeRange
  BY RecordsAssumption
<1>2. n \in 0..(R - 1)
  BY <1>1
<1>3. n % R = n
  BY <1>2
<1>4. (n - R) % R = n
  <2>1. PICK q, r : q = (n - R) \div R /\ r = (n - R) % R
    OBVIOUS
  <2>2. q \in Int /\ r \in 0..(R - 1) /\ n - R = R * q + r
    BY <1>2, <2>1
  <2>3. q = -1
    <3>1. CASE q <= -2
      <4>1. PICK d \in Nat : q = -2 - d
        <5>1. -2 - q \in Nat /\ q = -2 - (-2 - q)
          BY <2>2, <3>1
        <5>2. QED
          BY <5>1
      <4>2. R * q = -(2 * R) - R * d /\ R * d \in Nat
        BY <4>1
      <4>3. QED
        BY <1>2, <2>2, <4>2
    <3>2. CASE q >= 0
      <4>1. R * q \in Nat
        BY <2>2, <3>2
      <4>2. QED
        BY <1>2, <2>2, <4>1
    <3>3. QED
      BY <2>2, <3>1, <3>2
  <2>4. R * q = -R
    BY <2>3
  <2>5. QED
    BY <2>1, <2>2, <2>4
<1>5. QED
  BY <1>1, <1>3, <1>4 DEF AsU32, AsI32

(* Each field of a record is written in one way, and it has those fields   *)
(* without which a message is refused.                                     *)
LEMMA RecordShape ==
  ASSUME FetchInv, phase = "fetched", NEW k \in DOMAIN records, NEW r, r = records[k]
  PROVE  /\ DOMAIN r \subseteq Fields \cup {"type"}
         /\ AddressFields \cup {"gasfee"} \subseteq DOMAIN r
         /\ "fee" \in DOMAIN r => r["fee"] \in 0..(FeeRange - 1)
<1>1. records = Fetched /\ asked \in Lists /\ exchange \in {"UniV2", "UniV3"}
  BY DEF FetchInv
<1>2. PICK n \in Nat : n = Len(DefaultAddresses)
  BY <1>1, AskedIsSeq
<1>3. k \in 1..n
  BY <1>1, <1>2 DEF Fetched
<1>4. DefaultAddresses[k] \in KnownAddress
  BY <1>1, <1>2, <1>3, AskedIsSeq
<1>5. CASE exchange = "UniV2"
  <2>1. r = UniV2Record(Answers("params")[k], Answers("states")[k])
    BY <1>1, <1>2, <1>3, <1>5 DEF Fetched
  <2>2. DOMAIN r = {"type", "address", "dex_id", "gasfee", "token_a", "token_b", "balance_a",
                    "balance_b", "fee_numerator", "fee_denominator"}
    BY <2>1 DEF UniV2Record
  <2>3. QED
    BY <2>2 DEF Fields, AddressFields, DecimalFields, PlainFields
<1>6. CASE exchange = "UniV3"
  <2>1. PICK P, S, T : P = Answers("params")[k] /\ r = UniV3Record(P, S, T)
    BY <1>1, <1>2, <1>3, <1>6 DEF Fetched
  <2>2. /\ DOMAIN r = {"type", "address", "dex_id", "gasfee", "token_a", "token_b", "fee",
                       "tickspacing", "tick2liquidity_net", "liquidity",
                       "slot0_sqrt_price_x96", "slot0_tick"}
        /\ r.fee = FeeOf[P["fee"].pool]
    BY <2>1 DEF UniV3Record
  <2>3. P = ReadOf("params", DefaultAddresses[k])
    BY <1>2, <1>3, <2>1 DEF Answers, Asked
  <2>4. P["fee"].pool = DefaultAddresses[k].pool
    <3>1. "fee" \in ToSet(RustFields("params"))
      BY <1>6, FieldNames
    <3>2. P["fee"] = [pool |-> DefaultAddresses[k].pool, of |-> <<"fee">>]
      BY <2>3, <3>1, ReadByName
    <3>3. QED
      BY <3>2
  <2>5. P["fee"].pool \in DOMAIN FeeOf
    BY <1>4, <2>4 DEF KnownAddress
  <2>6. r.fee \in 0..(FeeRange - 1)
    BY <2>2, <2>5, RecordsAssumption
  <2>7. QED
    BY <2>2, <2>6 DEF Fields, AddressFields, DecimalFields, PlainFields
<1>7. QED
  BY <1>1, <1>5, <1>6

LEMMA TextParts == \A form, value : Text(form, value).form = form /\ Text(form, value).value = value
BY DEF Text

(* Each field of a message is read as it was, or is missing. *)
LEMMA TextBack ==
  ASSUME NEW r, NEW missing, NEW m,
         DOMAIN r \subseteq Fields \cup {"type"},
         "fee" \in DOMAIN r => r["fee"] \in 0..(FeeRange - 1),
         m = [f \in DOMAIN ToMessage(r) |-> IF f \in missing THEN Absent ELSE ToMessage(r)[f]]
  PROVE  \A f \in DOMAIN m :
           FromText(m[f], f) = IF Missing(m, f) THEN Zero ELSE r[f]
<1>1. DOMAIN m = DOMAIN r \ {"type"} /\ DOMAIN ToMessage(r) = DOMAIN r \ {"type"}
  BY DEF ToMessage
<1>2. ASSUME NEW f \in DOMAIN m PROVE FromText(m[f], f) = IF Missing(m, f) THEN Zero ELSE r[f]
  <2>1. m[f] = IF f \in missing THEN Absent ELSE ToMessage(r)[f]
    BY <1>1, <1>2
  <2>2. CASE f \in missing
    <3>1. m[f] = Absent /\ Missing(m, f) /\ m[f].form = "absent"
      BY <2>1, <2>2 DEF Missing, Absent, Text
    <3>2. FromText(m[f], f) = Zero
      BY <3>1 DEF FromText
    <3>3. QED
      BY <3>1, <3>2
  <2>3. CASE f \notin missing
    <3>1. m[f] = ToMessage(r)[f] /\ f \in DOMAIN r \ {"type"} /\ f \in Fields
      BY <1>1, <2>1, <2>3
    <3>2. CASE f \in AddressFields
      <4>1. f \notin DecimalFields /\ f # "fee"
        BY <3>2 DEF AddressFields, DecimalFields
      <4>2. m[f] = Text("hex", r[f])
        BY <3>1, <3>2 DEF ToMessage, AddressFields, DecimalFields, PlainFields
      <4>3. m[f].form = "hex" /\ m[f].value = r[f]
        BY <4>2, TextParts
      <4>4. QED
        BY <4>1, <4>3 DEF FromText, Missing
    <3>3. CASE f \in DecimalFields
      <4>1. m[f] = Text("decimal", r[f])
        BY <3>1, <3>3 DEF ToMessage, AddressFields, DecimalFields, PlainFields
      <4>2. f # "fee"
        BY <3>3 DEF DecimalFields
      <4>3. m[f].form = "decimal" /\ m[f].value = r[f]
        BY <4>1, TextParts
      <4>4. QED
        BY <3>3, <4>2, <4>3 DEF FromText, Missing
    <3>4. CASE f \in PlainFields
      <4>1. f \notin DecimalFields /\ f # "fee"
        BY <3>4 DEF PlainFields, DecimalFields
      <4>2. m[f] = Text("plain", r[f])
        BY <3>1, <3>4 DEF ToMessage, AddressFields, DecimalFields, PlainFields
      <4>3. m[f].form = "plain" /\ m[f].value = r[f]
        BY <4>2, TextParts
      <4>4. QED
        BY <4>1, <4>3 DEF FromText, Missing
    <3>5. CASE f = "gasfee"
      <4>1. f \notin DecimalFields /\ f # "fee"
        BY <3>5 DEF DecimalFields
      <4>2. m[f] = Text("float", r[f])
        BY <3>1, <3>5 DEF ToMessage, AddressFields, DecimalFields, PlainFields
      <4>3. m[f].form = "float" /\ m[f].value = r[f]
        BY <4>2, TextParts
      <4>4. QED
        BY <4>1, <4>3 DEF FromText, Missing
    <3>6. CASE f = "fee"
      <4>1. f \notin DecimalFields
        BY <3>6 DEF DecimalFields
      <4>2. m[f] = Text("i32", AsI32(r[f]))
        BY <3>1, <3>6 DEF ToMessage, AddressFields, DecimalFields, PlainFields
      <4>3. AsU32(AsI32(r[f])) = r[f]
        BY <3>1, <3>6, FeeBack
      <4>4. QED
        BY <3>6, <4>1, <4>2, <4>3 DEF FromText, Missing, Text
    <3>7. QED
      BY <3>1, <3>2, <3>3, <3>4, <3>5, <3>6 DEF Fields
  <2>4. QED
    BY <2>2, <2>3
<1>3. QED
  BY <1>2

LEMMA QuietSent ==
  ASSUME SentInv, phase # "fetched", UNCHANGED <<sent, back>>
  PROVE  SentInv' /\ ReadBack'
BY DEF SentInv, ReadBack

LEMMA MessageUnchanged ==
  ASSUME records' = records
  PROVE  \A k, missing, form :
           MessageOf(k, missing)' = MessageOf(k, missing) /\ JsonOf(k, form)' = JsonOf(k, form)
BY DEF MessageOf, JsonOf

LEMMA SameSent ==
  ASSUME SentInv, ReadBack, UNCHANGED <<phase, records, sent, back>>
  PROVE  SentInv' /\ ReadBack'
<1>1. SentInv'
  BY MessageUnchanged DEF SentInv
<1>2. ReadBack'
  BY DEF ReadBack, Missing
<1>3. QED
  BY <1>1, <1>2

LEMMA SendSent ==
  ASSUME SentInv, NEW k \in DOMAIN records, NEW missing \in SUBSET Fields, Send(k, missing)
  PROVE  SentInv' /\ ReadBack'
<1>1. /\ phase' = "fetched" /\ UNCHANGED <<records, back>> /\ sent = None
      /\ sent' = MessageOf(k, missing)
  BY DEF Send, MessageOf
<1>2. back = None
  BY <1>1 DEF SentInv
<1>3. sent' = MessageOf(k, missing)' /\ k \in DOMAIN records'
  BY <1>1, MessageUnchanged
<1>4. QED
  BY <1>1, <1>2, <1>3 DEF SentInv, ReadBack

LEMMA SendUnknownSent == ASSUME SentInv, SendUnknown PROVE SentInv' /\ ReadBack'
BY DEF SentInv, ReadBack, SendUnknown

LEMMA SendJsonSent ==
  ASSUME SentInv, NEW k \in DOMAIN records, NEW form \in {"object", "text"}, SendJson(k, form)
  PROVE  SentInv' /\ ReadBack'
<1>1. /\ phase' = "fetched" /\ UNCHANGED <<records, back>> /\ sent = None
      /\ sent' = JsonOf(k, form)
  BY DEF SendJson, JsonOf
<1>2. back = None
  BY <1>1 DEF SentInv
<1>3. sent' = JsonOf(k, form)' /\ k \in DOMAIN records'
  BY <1>1, MessageUnchanged
<1>4. QED
  BY <1>1, <1>2, <1>3 DEF SentInv, ReadBack

(* Once something is sent, it stays, whatever the receiver makes of it. *)
LEMMA StaysSent ==
  ASSUME SentInv, sent # None, UNCHANGED <<phase, records, sent>>
  PROVE  SentInv'
<1>1. sent' = sent /\ phase' = phase /\ records' = records
  OBVIOUS
<1>2. QED
  BY <1>1, MessageUnchanged DEF SentInv

LEMMA SentOutcomes ==
  /\ None.outcome = "none"
  /\ \A k, missing :
       /\ MessageOf(k, missing).outcome = "message" /\ MessageOf(k, missing).of = k
       /\ MessageOf(k, missing).type = records[k].type
       /\ MessageOf(k, missing).fields = [f \in DOMAIN ToMessage(records[k]) |->
            IF f \in missing THEN Absent ELSE ToMessage(records[k])[f]]
  /\ \A k, form :
       /\ JsonOf(k, form).outcome = "json" /\ JsonOf(k, form).of = k
       /\ JsonOf(k, form).type = records[k].type
       /\ JsonOf(k, form).fields = [f \in DOMAIN records[k] \ {"type"} |-> records[k][f]]
BY DEF None, MessageOf, JsonOf

LEMMA ReceiveSent == ASSUME FetchInv, SentInv, Receive PROVE SentInv' /\ ReadBack'
<1>1. sent.outcome = "message" /\ UNCHANGED <<phase, records, sent>>
  BY DEF Receive
<1>2. sent # None /\ sent # [outcome |-> "unknown"]
  BY <1>1, SentOutcomes
<1>3. PICK k \in DOMAIN records, missing \in SUBSET Fields :
        phase = "fetched" /\ sent = MessageOf(k, missing)
  <2>1. \A k, form : sent # JsonOf(k, form)
    BY <1>1, SentOutcomes
  <2>2. QED
    BY <1>2, <2>1 DEF SentInv
<1>4. PICK r, m : r = records[k] /\ m = sent.fields
  OBVIOUS
<1>5. /\ m = [f \in DOMAIN ToMessage(r) |-> IF f \in missing THEN Absent ELSE ToMessage(r)[f]]
      /\ sent.of = k /\ sent.type = r.type
  BY <1>3, <1>4, SentOutcomes
<1>6. /\ DOMAIN r \subseteq Fields \cup {"type"} /\ AddressFields \cup {"gasfee"} \subseteq DOMAIN r
      /\ "fee" \in DOMAIN r => r["fee"] \in 0..(FeeRange - 1)
  BY <1>3, <1>4, RecordShape
<1>7. \A f \in DOMAIN m : FromText(m[f], f) = IF Missing(m, f) THEN Zero ELSE r[f]
  BY <1>5, <1>6, TextBack
<1>8. AddressFields \cup {"gasfee"} \subseteq DOMAIN m
  <2>1. DOMAIN m = DOMAIN r \ {"type"}
    BY <1>5 DEF ToMessage
  <2>2. "type" \notin AddressFields \cup {"gasfee"}
    BY DEF AddressFields
  <2>3. QED
    BY <1>6, <2>1, <2>2
<1>9. PICK b : b = back'
  OBVIOUS
<1>10. b = CASE Missing(m, "gasfee") -> [outcome |-> "error"]
             [] ~Missing(m, "gasfee") /\ \E f \in AddressFields : Missing(m, f)
                  -> [outcome |-> "panic"]
             [] OTHER -> [outcome |-> "read", type |-> sent.type,
                          fields |-> [f \in DOMAIN m |-> FromText(m[f], f)]]
  BY <1>4, <1>9 DEF Receive
<1>11. CASE Missing(m, "gasfee")
  <2>1. b = [outcome |-> "error"]
    BY <1>10, <1>11
  <2>2. b.outcome # "read" /\ \E f \in DOMAIN m : Missing(m, f)
    BY <1>8, <1>11, <2>1
  <2>3. ReadBack'
    BY <1>1, <1>4, <1>9, <2>2 DEF ReadBack, Missing
  <2>4. QED
    BY <1>1, <1>2, <2>3, StaysSent
<1>12. CASE ~Missing(m, "gasfee") /\ \E f \in AddressFields : Missing(m, f)
  <2>1. b = [outcome |-> "panic"]
    BY <1>10, <1>12
  <2>2. b.outcome # "read" /\ \E f \in DOMAIN m : Missing(m, f)
    BY <1>8, <1>12, <2>1
  <2>3. ReadBack'
    BY <1>1, <1>4, <1>9, <2>2 DEF ReadBack, Missing
  <2>4. QED
    BY <1>1, <1>2, <2>3, StaysSent
<1>13. CASE ~Missing(m, "gasfee") /\ ~\E f \in AddressFields : Missing(m, f)
  <2>1. b = [outcome |-> "read", type |-> sent.type,
             fields |-> [f \in DOMAIN m |-> FromText(m[f], f)]]
    BY <1>10, <1>13
  <2>2. b.outcome = "read" /\ b.type = sent.type /\ DOMAIN b.fields = DOMAIN m
        /\ \A f \in DOMAIN m : b.fields[f] = FromText(m[f], f)
    BY <2>1
  <2>3. \A f \in DOMAIN b.fields : b.fields[f] = IF Missing(m, f) THEN Zero ELSE r[f]
    BY <1>7, <2>2
  <2>4. /\ b.type = records[sent.of].type
        /\ \A f \in DOMAIN b.fields :
             b.fields[f] = IF sent.outcome = "message" /\ Missing(sent.fields, f)
                           THEN Zero ELSE records[sent.of][f]
    BY <1>1, <1>4, <1>5, <2>2, <2>3
  <2>5. ReadBack'
    BY <1>1, <1>9, <2>2, <2>4 DEF ReadBack, Missing
  <2>6. QED
    BY <1>1, <1>2, <2>5, StaysSent
<1>14. QED
  BY <1>11, <1>12, <1>13

LEMMA ReceiveUnknownSent == ASSUME SentInv, ReceiveUnknown PROVE SentInv' /\ ReadBack'
<1>1. /\ sent.outcome = "unknown" /\ UNCHANGED <<phase, records, sent>>
      /\ back' = [outcome |-> "error"]
  BY DEF ReceiveUnknown
<1>2. sent # None
  BY <1>1, SentOutcomes
<1>3. back'.outcome # "read" /\ sent'.outcome # "message"
  BY <1>1
<1>4. ReadBack'
  BY <1>3 DEF ReadBack
<1>5. QED
  BY <1>1, <1>2, <1>4, StaysSent

LEMMA ReceiveJsonSent == ASSUME SentInv, ReceiveJson PROVE SentInv' /\ ReadBack'
<1>1. sent.outcome = "json" /\ UNCHANGED <<phase, records, sent>>
  BY DEF ReceiveJson
<1>2. sent # None /\ sent # [outcome |-> "unknown"]
  BY <1>1, SentOutcomes
<1>3. PICK k \in DOMAIN records, form \in {"object", "text"} : sent = JsonOf(k, form)
  <2>1. \A k, missing : sent # MessageOf(k, missing)
    BY <1>1, SentOutcomes
  <2>2. QED
    BY <1>2, <2>1 DEF SentInv
<1>4. PICK r, b : r = records[k] /\ b = back'
  OBVIOUS
<1>5. /\ sent.of = k /\ sent.type = r.type
      /\ sent.fields = [f \in DOMAIN r \ {"type"} |-> r[f]]
  BY <1>3, <1>4 DEF JsonOf
<1>6. CASE Readable(sent)
  <2>1. b = [outcome |-> "read", type |-> sent.type, fields |-> sent.fields]
    BY <1>4, <1>6 DEF ReceiveJson
  <2>2. /\ b.outcome = "read" /\ b.type = records[sent.of].type
        /\ \A f \in DOMAIN b.fields : b.fields[f] = records[sent.of][f]
    BY <1>4, <1>5, <2>1
  <2>3. ReadBack'
    BY <1>1, <1>4, <2>2 DEF ReadBack
  <2>4. QED
    BY <1>1, <1>2, <2>3, StaysSent
<1>7. CASE ~Readable(sent)
  <2>1. b = [outcome |-> "error"]
    BY <1>4, <1>7 DEF ReceiveJson
  <2>2. b.outcome # "read" /\ sent'.outcome # "message"
    BY <1>1, <2>1
  <2>3. ReadBack'
    BY <1>4, <2>2 DEF ReadBack
  <2>4. QED
    BY <1>1, <1>2, <2>3, StaysSent
<1>8. QED
  BY <1>6, <1>7

-----------------------------------------------------------------------------
(* What holds of the records in every state. *)
RecordsInv == FetchInv /\ SentInv /\ ReadBack

LEMMA InitRecords == RecordsInit => RecordsInv
<1> SUFFICES ASSUME RecordsInit PROVE RecordsInv
  OBVIOUS
<1>1. FetchInv
  BY InitFetch
<1>2. SentInv /\ ReadBack
  BY DEF RecordsInit, SentInv, ReadBack
<1>3. QED
  BY <1>1, <1>2 DEF RecordsInv

LEMMA NextRecords == RecordsInv /\ [RecordsNext]_recordVars => RecordsInv'
<1> SUFFICES ASSUME FetchInv, SentInv, ReadBack, [RecordsNext]_recordVars PROVE RecordsInv'
  BY DEF RecordsInv
<1>1. ASSUME NEW c \in DOMAIN replies, AnswerPage(c) PROVE RecordsInv'
  <2>1. phase # "fetched" /\ UNCHANGED <<sent, back>>
    BY <1>1 DEF AnswerPage
  <2>2. QED
    BY <1>1, <2>1, AnswerFetch, QuietSent DEF RecordsInv
<1>2. ASSUME NEW c \in DOMAIN replies, FailPage(c) PROVE RecordsInv'
  <2>1. phase # "fetched" /\ UNCHANGED <<sent, back>>
    BY <1>2 DEF FailPage
  <2>2. QED
    BY <1>2, <2>1, FailFetch, QuietSent DEF RecordsInv
<1>3. CASE Join
  <2>1. phase # "fetched" /\ UNCHANGED <<sent, back>>
    BY <1>3 DEF Join
  <2>2. QED
    BY <1>3, <2>1, JoinFetch, QuietSent DEF RecordsInv
<1>4. CASE FinishUniV2
  <2>1. phase # "fetched" /\ UNCHANGED <<sent, back>>
    BY <1>4 DEF FinishUniV2
  <2>2. QED
    BY <1>4, <2>1, FinishUniV2Fetch, QuietSent DEF RecordsInv
<1>5. CASE FinishUniV3
  <2>1. phase # "fetched" /\ UNCHANGED <<sent, back>>
    BY <1>5 DEF FinishUniV3
  <2>2. QED
    BY <1>5, <2>1, FinishUniV3Fetch, QuietSent DEF RecordsInv
<1>6. ASSUME NEW k \in DOMAIN records, NEW form \in {"object", "text"}, SendJson(k, form)
      PROVE  RecordsInv'
  <2>1. FetchInv'
    BY <1>6, SameFetch DEF SendJson
  <2>2. QED
    BY <1>6, <2>1, SendJsonSent DEF RecordsInv
<1>7. ASSUME NEW k \in DOMAIN records, NEW missing \in SUBSET Fields, Send(k, missing)
      PROVE  RecordsInv'
  <2>1. FetchInv'
    BY <1>7, SameFetch DEF Send
  <2>2. QED
    BY <1>7, <2>1, SendSent DEF RecordsInv
<1>8. CASE SendUnknown
  <2>1. FetchInv'
    BY <1>8, SameFetch DEF SendUnknown
  <2>2. QED
    BY <1>8, <2>1, SendUnknownSent DEF RecordsInv
<1>9. CASE Receive
  <2>1. FetchInv'
    BY <1>9, SameFetch DEF Receive
  <2>2. QED
    BY <1>9, <2>1, ReceiveSent DEF RecordsInv
<1>10. CASE ReceiveUnknown
  <2>1. FetchInv'
    BY <1>10, SameFetch DEF ReceiveUnknown
  <2>2. QED
    BY <1>10, <2>1, ReceiveUnknownSent DEF RecordsInv
<1>11. CASE ReceiveJson
  <2>1. FetchInv'
    BY <1>11, SameFetch DEF ReceiveJson
  <2>2. QED
    BY <1>11, <2>1, ReceiveJsonSent DEF RecordsInv
<1>12. CASE UNCHANGED recordVars
  <2>1. FetchInv'
    BY <1>12, SameFetch DEF recordVars
  <2>2. SentInv' /\ ReadBack'
    BY <1>12, SameSent DEF recordVars
  <2>3. QED
    BY <2>1, <2>2 DEF RecordsInv
<1>13. \A f \in Fields : {f} \in SUBSET Fields
  OBVIOUS
<1>14. QED
  BY <1>1, <1>2, <1>3, <1>4, <1>5, <1>6, <1>7, <1>8, <1>9, <1>10, <1>11, <1>12, <1>13
     DEF RecordsNext

(* Calls and logs of single contracts leave the records alone. *)
LEMMA ClientKeepsRecords ==
  /\ ClientInit => RecordsInit
  /\ [ClientNext]_<<looksAt, recordVars, callVars>> => [RecordsNext]_recordVars
BY DEF ClientInit, ClientNext

THEOREM RecordsInvariance == ClientSpec => []RecordsInv
<1>1. ClientInit => RecordsInv
  BY InitRecords, ClientKeepsRecords
<1>2. RecordsInv /\ [ClientNext]_<<looksAt, recordVars, callVars>> => RecordsInv'
  BY NextRecords, ClientKeepsRecords
<1>3. QED
  BY <1>1, <1>2, PTL DEF ClientSpec

(***************************************************************************)
(* fetch_pools: whatever the lists, the sizes of the pages and the order   *)
(* of their answers, there is one record for each address of 20 bytes, in  *)
(* their order, and each field of it is what was read of that pool.        *)
(***************************************************************************)
THEOREM RecordsOwnCorrect == ClientSpec => []RecordsOwn
<1>1. RecordsInv => RecordsOwn
  BY FetchedOwn DEF RecordsInv
<1>2. QED
  BY <1>1, RecordsInvariance, PTL

(***************************************************************************)
(* The conversions of a pool to protobuf and to JSON and back: for every   *)
(* record that fetch_pools returns, and for fees of the whole width of the *)
(* field, what arrives is what was sent, but for a field that was missing. *)
(***************************************************************************)
THEOREM ReadBackCorrect == ClientSpec => []ReadBack
<1>1. RecordsInv => ReadBack
  BY DEF RecordsInv
<1>2. QED
  BY <1>1, RecordsInvariance, PTL
=============================================================================
