-------------------------- MODULE UniV2RouterProofs --------------------------
(***************************************************************************)
(* Proofs about the v2 router, for any users, tokens, pairs, fees and      *)
(* amounts, and paths of any length: a trade takes from the payer, and     *)
(* gives to the recipient, what it says and nothing else moves; what it    *)
(* pays over different pairs, to somebody who is none of them, is what     *)
(* could be worked out beforehand; and it is undone only if nothing could. *)
(***************************************************************************)
EXTENDS UniV2Router, FiniteSetTheorems, WellFoundedInduction, TLAPS

Parties == Users \cup {This}
Ledgers == [bal : [Tokens -> [Accounts -> Nat]], permits : [Tokens -> [Users -> Nat]]]

-----------------------------------------------------------------------------
(* Sums.                                                                   *)

(* A set of natural numbers that is not empty has a least element: this is *)
(* what the inductions below rest on.                                      *)
LEMMA Least ==
  ASSUME NEW T \in SUBSET Nat, T # {}
  PROVE  \E n \in T : \A m \in T : n <= m
<1>1. PICK n \in T : \A m \in T : ~(<<m, n>> \in OpToRel(<, Nat))
  BY NatLessThanWellFounded, WFMin
<1>2. ASSUME NEW m \in T, m < n PROVE FALSE
  <2>1. <<m, n>> \in Nat \X Nat /\ <<m, n>>[1] = m /\ <<m, n>>[2] = n
    OBVIOUS
  <2>2. <<m, n>> \in OpToRel(<, Nat)
    BY <1>2, <2>1 DEF OpToRel
  <2>3. QED
    BY <1>1, <2>2
<1>3. QED
  BY <1>2

Pick(s) == CHOOSE x \in s : TRUE

(* g sums up the values of h over the subsets of S, an element at a time. *)
Summing(g, h, S) ==
  /\ g \in [SUBSET S -> Int]
  /\ g[{}] = 0
  /\ \A s \in SUBSET S : s # {} => g[s] = h[Pick(s)] + g[s \ {Pick(s)}]

Sum(h, S) == MapThenSumSet(LAMBDA x : h[x], S)

LEMMA Picked ==
  ASSUME NEW S, IsFiniteSet(S), NEW s \in SUBSET S, s # {}
  PROVE  /\ Pick(s) \in s /\ s \ {Pick(s)} \in SUBSET S
         /\ Cardinality(s) \in Nat /\ Cardinality(s \ {Pick(s)}) = Cardinality(s) - 1
<1>1. Pick(s) \in s
  BY DEF Pick
<1>2. IsFiniteSet(s)
  BY FS_Subset
<1>3. QED
  BY <1>1, <1>2, FS_RemoveElement, FS_CardinalityType

LEMMA PickedNat ==
  ASSUME NEW S, IsFiniteSet(S), NEW s \in SUBSET S, s # {}
  PROVE  /\ Pick(s) \in s /\ Pick(s) \in S /\ s \ {Pick(s)} \in SUBSET S
         /\ Cardinality(s) - 1 \in Nat
         /\ Cardinality(s \ {Pick(s)}) = Cardinality(s) - 1
<1>1. Cardinality(s \ {Pick(s)}) \in Nat
  BY Picked, FS_Subset, FS_CardinalityType
<1>2. QED
  BY <1>1, Picked

(* The library's sum is such a g. *)
LEMMA SumDefined ==
  ASSUME NEW S, IsFiniteSet(S), NEW h \in [S -> Int]
  PROVE  \E g : Summing(g, h, S) /\ Sum(h, S) = g[S]
<1> DEFINE Value(g, s) == IF s = {} THEN 0 ELSE h[Pick(s)] + g[s \ {Pick(s)}]
           UpTo(g, n) == \A s \in SUBSET S : Cardinality(s) <= n => g[s] = Value(g, s)
           T == {n \in Nat : ~\E g \in [SUBSET S -> Int] : UpTo(g, n)}
<1>1. \A s \in SUBSET S : Cardinality(s) \in Nat
  BY FS_Subset, FS_CardinalityType
<1>2. 0 \notin T
  <2>1. PICK g : g = [s \in SUBSET S |-> 0]
    OBVIOUS
  <2>4. g \in [SUBSET S -> Int]
    BY <2>1
  <2>2. ASSUME NEW s \in SUBSET S, Cardinality(s) <= 0 PROVE g[s] = Value(g, s)
    <3>1. s = {}
      BY <1>1, <2>2, FS_Subset, FS_EmptySet
    <3>2. QED
      BY <2>1, <3>1
  <2>3. QED
    BY <2>2, <2>4
<1>3. T = {}
  <2>1. SUFFICES ASSUME T # {} PROVE FALSE
    OBVIOUS
  <2>2. PICK n \in T : \A m \in T : n <= m
    BY <2>1, Least
  <2>3. n \in Nat /\ n # 0 /\ n - 1 \in Nat /\ n - 1 \notin T
    <3>1. n \in Nat /\ n # 0
      BY <1>2, <2>2
    <3> HIDE DEF T
    <3>2. QED
      BY <2>2, <3>1
  <2>4. PICK g \in [SUBSET S -> Int] : UpTo(g, n - 1)
    BY <2>3
  <2>5. PICK k : k = [s \in SUBSET S |-> IF Cardinality(s) <= n - 1 THEN g[s] ELSE Value(g, s)]
    OBVIOUS
  <2>6. ASSUME NEW s \in SUBSET S, s # {}
        PROVE  h[Pick(s)] + g[s \ {Pick(s)}] \in Int
    BY <2>6, Picked
  <2>7. k \in [SUBSET S -> Int]
    BY <2>5, <2>6
  <2>8. ASSUME NEW s \in SUBSET S, Cardinality(s) <= n PROVE k[s] = Value(k, s)
    <3>1. k[s] = Value(g, s)
      BY <2>4, <2>5
    <3>2. CASE s = {}
      BY <3>1, <3>2
    <3>3. CASE s # {}
      <4>1. s \ {Pick(s)} \in SUBSET S /\ Cardinality(s \ {Pick(s)}) <= n - 1
        BY <1>1, <2>3, <2>8, <3>3, Picked
      <4>2. k[s \ {Pick(s)}] = g[s \ {Pick(s)}]
        BY <2>5, <4>1
      <4>3. QED
        BY <3>1, <3>3, <4>2
    <3>4. QED
      BY <3>2, <3>3
  <2>9. n \notin T
    BY <2>7, <2>8
  <2>10. QED
    BY <2>2, <2>9
<1>4. Cardinality(S) \in Nat
  BY FS_CardinalityType
<1>5. PICK g \in [SUBSET S -> Int] : UpTo(g, Cardinality(S))
  BY <1>3, <1>4
<1>6. \A s \in SUBSET S : g[s] = Value(g, s)
  <2>1. \A s \in SUBSET S : Cardinality(s) <= Cardinality(S)
    BY FS_Subset
  <2>2. QED
    BY <1>5, <2>1
<1>7. g = [s \in SUBSET S |-> Value(g, s)]
  <2>1. g = [s \in SUBSET S |-> g[s]]
    BY <1>5
  <2>2. QED
    BY <1>6, <2>1
<1> DEFINE sum == CHOOSE k : k = [s \in SUBSET S |-> Value(k, s)]
<1>8. Sum(h, S) = sum[S]
  BY DEF Sum, MapThenSumSet, MapThenFoldSet, Pick
<1>9. sum = [s \in SUBSET S |-> Value(sum, s)]
  BY <1>7
<1> HIDE DEF sum
<1>10. \A s \in SUBSET S : sum[s] = Value(sum, s)
  BY <1>9
<1>11. sum \in [SUBSET S -> Int]
  <2> DEFINE U == {n \in Nat : \E s \in SUBSET S : Cardinality(s) = n /\ sum[s] \notin Int}
  <2>1. U = {}
    <3>1. SUFFICES ASSUME U # {} PROVE FALSE
      OBVIOUS
    <3>2. PICK n \in U : \A m \in U : n <= m
      BY <3>1, Least
    <3>3. PICK s \in SUBSET S : Cardinality(s) = n /\ sum[s] \notin Int
      BY <3>2
    <3>4. sum[s] = Value(sum, s)
      BY <1>10
    <3>5. s # {}
      BY <3>3, <3>4
    <3>6. PICK x, r : x = Pick(s) /\ r = s \ {Pick(s)}
      OBVIOUS
    <3>7. x \in S /\ r \in SUBSET S /\ Cardinality(r) = n - 1 /\ n - 1 \in Nat
      BY <3>3, <3>5, <3>6, PickedNat
    <3>8. sum[r] \in Int
      BY <3>2, <3>7
    <3>9. h[x] \in Int /\ sum[s] = h[x] + sum[r]
      BY <3>4, <3>5, <3>6, <3>7
    <3>10. QED
      BY <3>3, <3>8, <3>9
  <2>2. \A s \in SUBSET S : sum[s] \in Int
    BY <1>1, <2>1
  <2>3. QED
    BY <1>9, <2>2
<1>12. Summing(sum, h, S)
  BY <1>10, <1>11 DEF Summing
<1>13. QED
  BY <1>8, <1>12

(* One value more or less changes the sum by the difference.               *)
LEMMA SumChanges ==
  ASSUME NEW S, IsFiniteSet(S), NEW h \in [S -> Int], NEW a \in S, NEW d \in Int
  PROVE  Sum(h, S) \in Int /\ Sum([h EXCEPT ![a] = h[a] + d], S) = Sum(h, S) + d
<1>1. PICK h2 : h2 = [h EXCEPT ![a] = h[a] + d]
  OBVIOUS
<1>0. h2 \in [S -> Int]
  BY <1>1
<1>2. PICK g : Summing(g, h, S) /\ Sum(h, S) = g[S]
  BY SumDefined
<1>3. PICK g2 : Summing(g2, h2, S) /\ Sum(h2, S) = g2[S]
  BY <1>0, SumDefined
<1> DEFINE With(s) == IF a \in s THEN d ELSE 0
           T == {n \in Nat : \E s \in SUBSET S : Cardinality(s) = n /\ g2[s] # g[s] + With(s)}
<1>4. T = {}
  <2>1. SUFFICES ASSUME T # {} PROVE FALSE
    OBVIOUS
  <2>2. PICK n \in T : \A m \in T : n <= m
    BY <2>1, Least
  <2>3. PICK s \in SUBSET S : Cardinality(s) = n /\ g2[s] # g[s] + With(s)
    BY <2>2
  <2>4. s # {}
    <3>1. g2[{}] = g[{}] + With({})
      BY <1>2, <1>3 DEF Summing
    <3>2. QED
      BY <2>3, <3>1
  <2>5. PICK x, r : x = Pick(s) /\ r = s \ {Pick(s)}
    OBVIOUS
  <2>6. x \in s /\ x \in S /\ r \in SUBSET S /\ Cardinality(r) = n - 1 /\ n - 1 \in Nat
    BY <2>3, <2>4, <2>5, PickedNat
  <2>7. g2[r] = g[r] + With(r)
    <3>1. n - 1 \notin T
      BY <2>2, <2>6
    <3>2. QED
      BY <2>6, <3>1
  <2>8. g2[s] = h2[x] + g2[r] /\ g[s] = h[x] + g[r]
    BY <1>2, <1>3, <2>4, <2>5 DEF Summing
  <2>9. g[r] \in Int /\ g2[r] \in Int /\ h[x] \in Int /\ h2[x] \in Int
    BY <1>0, <1>2, <1>3, <2>6 DEF Summing
  <2>10. CASE x = a
    <3>1. a \notin r /\ a \in s /\ h2[x] = h[x] + d
      BY <1>1, <2>5, <2>6, <2>10
    <3>2. QED
      BY <2>3, <2>7, <2>8, <2>9, <3>1
  <2>11. CASE x # a
    <3>1. (a \in r) = (a \in s) /\ h2[x] = h[x]
      BY <1>1, <2>5, <2>6, <2>11
    <3>2. QED
      BY <2>3, <2>7, <2>8, <2>9, <3>1
  <2>12. QED
    BY <2>10, <2>11
<1>5. g2[S] = g[S] + d
  <2>1. Cardinality(S) \in Nat
    BY FS_CardinalityType
  <2>2. QED
    BY <1>4, <2>1
<1>6. g[S] \in Int
  BY <1>2 DEF Summing
<1>7. QED
  BY <1>1, <1>2, <1>3, <1>5, <1>6

(* What one account has is no more than what all of them have.             *)
LEMMA SumAbove ==
  ASSUME NEW S, IsFiniteSet(S), NEW h \in [S -> Nat], NEW a \in S
  PROVE  Sum(h, S) \in Nat /\ h[a] <= Sum(h, S)
<1>1. PICK g : Summing(g, h, S) /\ Sum(h, S) = g[S]
  BY SumDefined
<1> DEFINE Held1(s) == IF a \in s THEN h[a] ELSE 0
           T == {n \in Nat : \E s \in SUBSET S : Cardinality(s) = n /\ ~(g[s] \in Nat /\ Held1(s) <= g[s])}
<1>2. T = {}
  <2>1. SUFFICES ASSUME T # {} PROVE FALSE
    OBVIOUS
  <2>2. PICK n \in T : \A m \in T : n <= m
    BY <2>1, Least
  <2>3. PICK s \in SUBSET S : Cardinality(s) = n /\ ~(g[s] \in Nat /\ Held1(s) <= g[s])
    BY <2>2
  <2>4. s # {}
    <3>1. g[{}] = 0 /\ Held1({}) = 0
      BY <1>1 DEF Summing
    <3>2. QED
      BY <2>3, <3>1
  <2>5. PICK x, r : x = Pick(s) /\ r = s \ {Pick(s)}
    OBVIOUS
  <2>6. x \in s /\ x \in S /\ r \in SUBSET S /\ Cardinality(r) = n - 1 /\ n - 1 \in Nat
    BY <2>3, <2>4, <2>5, PickedNat
  <2>7. g[r] \in Nat /\ Held1(r) <= g[r]
    <3>1. n - 1 \notin T
      BY <2>2, <2>6
    <3>2. QED
      BY <2>6, <3>1
  <2>8. g[s] = h[x] + g[r] /\ h[x] \in Nat /\ h[a] \in Nat
    BY <1>1, <2>4, <2>5, <2>6 DEF Summing
  <2>9. CASE x = a
    BY <2>3, <2>7, <2>8, <2>9
  <2>10. CASE x # a
    <3>1. Held1(r) = Held1(s)
      BY <2>5, <2>6, <2>10
    <3>2. QED
      BY <2>3, <2>7, <2>8, <3>1
  <2>11. QED
    BY <2>9, <2>10
<1>3. Cardinality(S) \in Nat
  BY FS_CardinalityType
<1>4. g[S] \in Nat /\ Held1(S) <= g[S]
  BY <1>2, <1>3
<1>5. QED
  BY <1>1, <1>4

-----------------------------------------------------------------------------
(* The amount out.                                                         *)

(* A product of natural numbers does not shrink when a factor grows. *)
LEMMA ProductMonotone ==
  ASSUME NEW a \in Nat, NEW b \in Nat, NEW c \in Nat, a <= b
  PROVE  a * c \in Nat /\ b * c \in Nat /\ a * c <= b * c
<1>1. PICK d \in Nat : b = a + d
  <2>1. b - a \in Nat /\ b = a + (b - a)
    OBVIOUS
  <2>2. QED
    BY <2>1
<1>2. b * c = a * c + d * c /\ d * c \in Nat /\ a * c \in Nat
  BY <1>1
<1>3. QED
  BY <1>2

(* A positive factor can be cancelled. *)
LEMMA ProductCancels ==
  ASSUME NEW a \in Nat, NEW b \in Nat, NEW c \in Nat \ {0}, a * c <= b * c
  PROVE  a <= b
<1>1. SUFFICES ASSUME b + 1 <= a PROVE FALSE
  OBVIOUS
<1>2. (b + 1) * c <= a * c
  BY <1>1, ProductMonotone
<1>3. (b + 1) * c = b * c + c /\ b * c \in Nat
  OBVIOUS
<1>4. QED
  BY <1>2, <1>3

(* Division rounds down. *)
LEMMA QuotientBelow ==
  ASSUME NEW n \in Nat, NEW d \in Nat \ {0}
  PROVE  n \div d \in Nat /\ (n \div d) * d <= n
OBVIOUS

(* A number that divides another one is not the larger of the two. *)
LEMMA DivisorBelow ==
  ASSUME NEW n \in Nat \ {0}, NEW d \in Nat \ {0}, n % d = 0
  PROVE  d <= n
OBVIOUS

(* The steps of the facet fit the base, so that a denominator is positive. *)
LEMMA StepFits ==
  ASSUME NEW f \in Nat
  PROVE  StepOf(f) \in Nat \ {0} /\ FeeBase \div StepOf(f) \in Nat \ {0}
<1>1. /\ Coarse \in Nat \ {0} /\ Mid \in Nat \ {0} /\ Fine \in Nat \ {0}
      /\ FeeBase \in Nat \ {0}
  BY QuoteAssumption
<1>2. Coarse <= FeeBase /\ Mid <= Coarse /\ Fine <= Mid
  BY <1>1, DivisorBelow, QuoteAssumption
<1>3. StepOf(f) \in Nat \ {0} /\ StepOf(f) <= FeeBase
  BY <1>1, <1>2 DEF StepOf
<1>4. QED
  BY <1>1, <1>3

(* What divides a divisor of a number divides the number.                  *)
LEMMA DividesTransitive ==
  ASSUME NEW n \in Nat, NEW d \in Nat \ {0}, NEW e \in Nat \ {0},
         n % d = 0, d % e = 0
  PROVE  n % e = 0
<1>1. PICK i \in Nat : n = d * i
  <2>1. n = d * (n \div d) /\ n \div d \in Nat
    OBVIOUS
  <2>2. QED
    BY <2>1
<1>2. PICK j \in Nat : d = e * j
  <2>1. d = e * (d \div e) /\ d \div e \in Nat
    OBVIOUS
  <2>2. QED
    BY <2>1
<1>3. n = e * (j * i) /\ j * i \in Nat
  BY <1>1, <1>2
<1>4. PICK m \in Nat : n = e * m
  BY <1>3
<1>5. QED
  BY <1>4

(* The fee and its base in steps: the fee is never rounded up.             *)
LEMMA FeeSteps ==
  ASSUME NEW f \in 0..FeeBase
  PROVE  /\ StepOf(f) \in Nat \ {0}
         /\ FeeBase \div StepOf(f) \in Nat \ {0}
         /\ FeeBase = (FeeBase \div StepOf(f)) * StepOf(f)
         /\ FeeInSteps(f, StepOf(f)) \in Nat
         /\ FeeInSteps(f, StepOf(f)) * StepOf(f) <= f
         /\ f % Fine = 0 => FeeInSteps(f, StepOf(f)) * StepOf(f) = f
<1>1. /\ Coarse \in Nat \ {0} /\ Mid \in Nat \ {0} /\ Fine \in Nat \ {0}
      /\ FeeBase \in Nat \ {0} /\ f \in Nat
  BY QuoteAssumption
<1>2. FeeBase % Coarse = 0 /\ FeeBase % Mid = 0 /\ FeeBase % Fine = 0
  BY <1>1, DividesTransitive, QuoteAssumption
<1>3. PICK s \in Nat \ {0} : s = StepOf(f)
  BY <1>1, StepFits
<1>4. FeeBase % s = 0 /\ (f % Fine = 0 => f % s = 0)
  BY <1>2, <1>3 DEF StepOf
<1>5. FeeBase \div s \in Nat \ {0}
  BY <1>1, <1>3, StepFits
<1>6. FeeBase = (FeeBase \div s) * s
  BY <1>1, <1>4
<1>7. f \div s \in Nat /\ (f \div s) * s <= f
  BY <1>1, QuotientBelow
<1>8. f % s = 0 => (f \div s) * s = f
  BY <1>1
<1>9. QED
  BY <1>3, <1>4, <1>5, <1>6, <1>7, <1>8 DEF FeeInSteps

(* The amount out, w being what counts of the input in units of 1/base:    *)
(* less than the reserve, and the product with the fee taken off is kept,  *)
(* also when k times w is counted as more, z.                              *)
LEMMA OutKeepsProduct ==
  ASSUME NEW x \in Nat \ {0}, NEW y \in Nat \ {0}, NEW base \in Nat \ {0}, NEW w \in Nat,
         NEW out, out = (w * y) \div (x * base + w)
  PROVE  /\ out \in Nat /\ out < y
         /\ \A k \in Nat \ {0}, z \in Nat :
              k * w <= z => (x * (base * k) + z) * (y - out) >= (x * y) * (base * k)
<1> DEFINE d == x * base + w
<1>1. x * base \in Nat \ {0} /\ d \in Nat \ {0} /\ w * y \in Nat
  OBVIOUS
<1>2. out \in Nat /\ out * d <= w * y
  BY <1>1, QuotientBelow
<1> HIDE DEF d
<1>3. d * y = (x * base) * y + w * y
  BY <1>1 DEF d
<1>4. (x * base) * y \in Nat \ {0}
  BY <1>1
<1>5. out < y
  <2>1. SUFFICES ASSUME y <= out PROVE FALSE
    BY <1>2
  <2>2. y * d <= out * d
    BY <1>1, <1>2, <2>1, ProductMonotone
  <2>3. y * d = d * y
    BY <1>1
  <2>4. QED
    BY <1>1, <1>2, <1>3, <1>4, <2>2, <2>3
<1>6. PICK rest \in Nat : rest = y - out
  BY <1>2, <1>5
<1>7. (x * base) * y <= rest * d
  <2>1. y = rest + out
    BY <1>2, <1>6
  <2>2. d * y = rest * d + out * d
    BY <1>1, <1>2, <2>1
  <2>3. rest * d \in Nat /\ out * d \in Nat
    BY <1>1, <1>2
  <2>4. QED
    BY <1>1, <1>2, <1>3, <1>4, <2>2, <2>3
<1>8. ASSUME NEW k \in Nat \ {0}, NEW z \in Nat, k * w <= z
      PROVE  (x * (base * k) + z) * rest >= (x * y) * (base * k)
  <2>1. ((x * base) * y) * k <= (rest * d) * k
    BY <1>1, <1>4, <1>7, ProductMonotone
  <2>2. ((x * base) * y) * k = (x * y) * (base * k)
    OBVIOUS
  <2>3. (rest * d) * k = (x * (base * k) + k * w) * rest
    <3>1. d * k = x * (base * k) + k * w
      BY DEF d
    <3>2. (rest * d) * k = (d * k) * rest
      BY <1>1
    <3>3. QED
      BY <3>1, <3>2
  <2>4. x * (base * k) \in Nat /\ k * w \in Nat
    OBVIOUS
  <2>5. PICK e \in Nat, c \in Nat : e = x * (base * k) + k * w /\ c = x * (base * k) + z
    BY <2>4
  <2>6. e <= c
    BY <1>8, <2>4, <2>5
  <2>7. e * rest <= c * rest /\ e * rest \in Nat /\ c * rest \in Nat
    BY <2>5, <2>6, ProductMonotone
  <2>8. (x * y) * (base * k) \in Nat
    OBVIOUS
  <2>9. QED
    BY <2>1, <2>2, <2>3, <2>5, <2>7, <2>8
<1>9. QED
  BY <1>2, <1>5, <1>6, <1>8

(* The fee the facet takes, a multiple of its step.                        *)
FeeTaken(fee) == FeeInSteps(fee, StepOf(fee)) * StepOf(fee)

(* getAmountOut, when it answers: less than the reserve, and the product   *)
(* with a fee that is no larger taken off the input is kept.               *)
LEMMA AmountOutKeepsProduct ==
  ASSUME NEW x \in Nat, NEW y \in Nat, NEW amount \in Nat, NEW f \in 0..FeeBase,
         GetAmountOut(x, y, amount, f) # NoAmount
  PROVE  /\ x # 0 /\ y # 0
         /\ GetAmountOut(x, y, amount, f) \in Nat
         /\ GetAmountOut(x, y, amount, f) < y
         /\ amount = 0 => GetAmountOut(x, y, amount, f) = 0
         /\ \A fee \in Nat : fee <= FeeTaken(f) =>
              ((x + amount) * FeeBase - amount * fee) * (y - GetAmountOut(x, y, amount, f))
                >= (x * y) * FeeBase
<1> DEFINE k == StepOf(f)
           base == FeeBase \div StepOf(f)
           fee2 == FeeInSteps(f, StepOf(f))
           w == amount * (base - fee2)
           out == GetAmountOut(x, y, amount, f)
<1>1. /\ k \in Nat \ {0} /\ base \in Nat \ {0} /\ fee2 \in Nat
      /\ FeeBase = base * k
  BY FeeSteps
<1>2. /\ x # 0 /\ y # 0 /\ fee2 <= base
      /\ out = (w * y) \div (x * base + w)
  BY DEF GetAmountOut, AmountOut, WithoutFee
<1>3. FeeTaken(f) = fee2 * k
  BY DEF FeeTaken
<1> HIDE DEF k, base, fee2, out
<1>4. PICK net \in Nat : net = base - fee2
  BY <1>1, <1>2
<1>5. w = amount * net /\ w \in Nat
  BY <1>4
<1> HIDE DEF w
<1>6. /\ out \in Nat /\ out < y
      /\ \A j \in Nat \ {0}, z \in Nat :
           j * w <= z => (x * (base * j) + z) * (y - out) >= (x * y) * (base * j)
  BY <1>1, <1>2, <1>5, OutKeepsProduct
<1>7. ASSUME amount = 0 PROVE out = 0
  <2>1. w = 0 /\ w * y = 0
    BY <1>5, <1>7
  <2>2. x * base + w \in Nat \ {0}
    BY <1>1, <1>2, <2>1
  <2>3. PICK d \in Nat \ {0} : d = x * base + w
    BY <2>2
  <2>4. 0 \div d = 0
    OBVIOUS
  <2>5. QED
    BY <1>2, <2>1, <2>3, <2>4
<1>8. ASSUME NEW fee \in Nat, fee <= fee2 * k
      PROVE  ((x + amount) * FeeBase - amount * fee) * (y - out) >= (x * y) * FeeBase
  <2>1. FeeBase = (net + fee2) * k
    BY <1>1, <1>4
  <2>2. PICK g \in Nat : fee2 * k = fee + g
    <3>1. fee2 * k \in Nat /\ (fee2 * k) - fee \in Nat
      BY <1>1, <1>8
    <3>2. QED
      BY <3>1
  <2>3. FeeBase = net * k + fee + g /\ net * k \in Nat
    <3>1. (net + fee2) * k = net * k + fee2 * k
      BY <1>1
    <3>2. QED
      BY <1>1, <2>1, <2>2, <3>1
  <2>4. PICK n \in Nat : n = net * k
    BY <2>3
  <2>5. PICK z \in Nat : z = amount * n + amount * g
    OBVIOUS
  <2>6. (x + amount) * FeeBase - amount * fee = x * FeeBase + z
    <3>1. FeeBase = n + fee + g
      BY <2>3, <2>4
    <3>2. (x + amount) * FeeBase = x * FeeBase + amount * FeeBase
      BY <3>1
    <3>3. amount * FeeBase = amount * n + amount * fee + amount * g
      BY <3>1
    <3>4. amount * n \in Nat /\ amount * fee \in Nat /\ amount * g \in Nat /\ x * FeeBase \in Nat
      BY <3>1
    <3>5. QED
      BY <2>5, <3>2, <3>3, <3>4
  <2>7. k * w <= z
    <3>1. k * w = amount * n
      BY <1>1, <1>5, <2>4
    <3>2. amount * n \in Nat /\ amount * g \in Nat
      OBVIOUS
    <3>3. QED
      BY <2>5, <3>1, <3>2
  <2>8. (x * (base * k) + z) * (y - out) >= (x * y) * (base * k)
    BY <1>1, <1>6, <2>7
  <2>9. QED
    BY <1>1, <2>6, <2>8
<1>9. QED
  BY <1>2, <1>3, <1>6, <1>7, <1>8 DEF out

-----------------------------------------------------------------------------
(* Transfers.                                                              *)

Conserved(l) == \A t \in Tokens : Sum(l.bal[t], Accounts) = Supply(t)

(* A pair holds at least its reserves. *)
Covered(l, res) ==
  \A p \in Pairs : \A k \in 1..2 : res[p][k] <= l.bal[PairTokens[p][k]][p]

(* From l to m, v of token went from one account to another. *)
Moves(l, m, token, from, to, v) ==
  \A t \in Tokens, x \in Accounts :
    m.bal[t][x] = l.bal[t][x] + (IF t = token /\ x = to THEN v ELSE 0)
                              - (IF t = token /\ x = from THEN v ELSE 0)

LEMMA MovedEffect ==
  ASSUME NEW h \in [Accounts -> Int], NEW from \in Accounts, NEW to \in Accounts,
         NEW v \in Nat
  PROVE  /\ Moved(h, from, to, v) \in [Accounts -> Int]
         /\ from = to => Moved(h, from, to, v) = h
         /\ from # to => /\ Moved(h, from, to, v)[from] = h[from] - v
                         /\ Moved(h, from, to, v)[to] = h[to] + v
         /\ \A x \in Accounts \ {from, to} : Moved(h, from, to, v)[x] = h[x]
<1>1. PICK f : f = [h EXCEPT ![from] = h[from] - v]
  OBVIOUS
<1>2. PICK g : g = [f EXCEPT ![to] = f[to] + v]
  OBVIOUS
<1>3. Moved(h, from, to, v) = g
  BY <1>1, <1>2 DEF Moved
<1>4. f \in [Accounts -> Int] /\ f[from] = h[from] - v /\ h[from] \in Int
      /\ \A x \in Accounts \ {from} : f[x] = h[x]
  BY <1>1
<1>5. g \in [Accounts -> Int] /\ g[to] = f[to] + v
      /\ \A x \in Accounts \ {to} : g[x] = f[x]
  BY <1>2, <1>4
<1>6. from = to => \A x \in Accounts : g[x] = h[x]
  BY <1>4, <1>5
<1>7. from = to => g = h
  <2>1. g = [x \in Accounts |-> g[x]] /\ h = [x \in Accounts |-> h[x]]
    BY <1>5
  <2>2. QED
    BY <1>6, <2>1
<1>8. QED
  BY <1>3, <1>4, <1>5, <1>7

(* What is moved stays in the sum. *)
LEMMA MovedSum ==
  ASSUME NEW h \in [Accounts -> Int], NEW from \in Accounts, NEW to \in Accounts,
         NEW v \in Nat
  PROVE  Sum(Moved(h, from, to, v), Accounts) = Sum(h, Accounts)
<1>1. PICK f : f = [h EXCEPT ![from] = h[from] + (0 - v)]
  OBVIOUS
<1>2. PICK g : g = [f EXCEPT ![to] = f[to] + v]
  OBVIOUS
<1>3. 0 - v \in Int /\ v \in Int /\ h[from] + (0 - v) = h[from] - v
  OBVIOUS
<1>4. Moved(h, from, to, v) = g
  BY <1>1, <1>2, <1>3 DEF Moved
<1>5. f \in [Accounts -> Int]
  BY <1>1, <1>3
<1>6. Sum(h, Accounts) \in Int /\ Sum(f, Accounts) = Sum(h, Accounts) + (0 - v)
  BY <1>1, <1>3, SupplyAssumption, SumChanges
<1>7. Sum(g, Accounts) = Sum(f, Accounts) + v
  BY <1>2, <1>3, <1>5, SupplyAssumption, SumChanges
<1>8. QED
  BY <1>4, <1>6, <1>7

(* No account holds more than a word, or as much as the flag.              *)
LEMMA BalanceFits ==
  ASSUME NEW l \in Ledgers, Conserved(l), NEW t \in Tokens, NEW x \in Accounts
  PROVE  l.bal[t][x] \in Nat /\ l.bal[t][x] <= MaxUint /\ l.bal[t][x] < ContractBalance
<1>1. l.bal[t] \in [Accounts -> Nat]
  BY DEF Ledgers
<1>2. Sum(l.bal[t], Accounts) \in Nat /\ l.bal[t][x] <= Sum(l.bal[t], Accounts)
  BY <1>1, SupplyAssumption, SumAbove
<1>3. Supply(t) <= MaxUint /\ Supply(t) < ContractBalance /\ MaxUint \in Nat /\ ContractBalance \in Nat
  BY SupplyAssumption, QuoteAssumption, TransferAssumption
<1>4. QED
  BY <1>1, <1>2, <1>3 DEF Conserved

LEMMA TransferEffect ==
  ASSUME NEW l \in Ledgers, NEW token \in Tokens,
         NEW from \in Accounts, NEW to \in Accounts, NEW v \in Nat,
         NEW m \in Transfer(l, token, from, to, v)
  PROVE  /\ m \in Ledgers /\ m.permits = l.permits /\ v <= l.bal[token][from]
         /\ Conserved(l) => Conserved(m)
         /\ Moves(l, m, token, from, to, v)
<1>1. /\ m = [l EXCEPT !.bal[token] = Moved(l.bal[token], from, to, v)]
      /\ ~(v > l.bal[token][from])
  BY DEF Transfer
<1>2. PICK f \in [Accounts -> Nat] : f = l.bal[token]
  BY DEF Ledgers
<1>3. PICK h : h = Moved(f, from, to, v)
  OBVIOUS
<1>4. f \in [Accounts -> Int] /\ f[from] \in Nat /\ f[to] \in Nat /\ v <= f[from]
  BY <1>1, <1>2
<1>5. /\ h \in [Accounts -> Int]
      /\ from = to => h = f
      /\ from # to => h[from] = f[from] - v /\ h[to] = f[to] + v
      /\ \A x \in Accounts \ {from, to} : h[x] = f[x]
  BY <1>3, <1>4, MovedEffect
<1>6. \A x \in Accounts : h[x] \in Nat
  <2>1. TAKE x \in Accounts
  <2>2. f[x] \in Nat
    OBVIOUS
  <2>3. QED
    BY <1>4, <1>5, <2>2
<1>7. h \in [Accounts -> Nat]
  BY <1>5, <1>6
<1>8. m.bal = [l.bal EXCEPT ![token] = h] /\ m.permits = l.permits /\ m \in Ledgers
  BY <1>1, <1>2, <1>3, <1>7 DEF Ledgers
<1>9. m.bal[token] = h /\ \A t \in Tokens \ {token} : m.bal[t] = l.bal[t]
  BY <1>8 DEF Ledgers
<1>10. ASSUME Conserved(l) PROVE Conserved(m)
  <2>1. Sum(h, Accounts) = Sum(f, Accounts)
    BY <1>3, <1>4, MovedSum
  <2>2. QED
    BY <1>2, <1>9, <1>10, <2>1 DEF Conserved
<1>11. Moves(l, m, token, from, to, v)
  <2>1. SUFFICES ASSUME NEW t \in Tokens, NEW x \in Accounts
                 PROVE  m.bal[t][x] = l.bal[t][x] + (IF t = token /\ x = to THEN v ELSE 0)
                                                  - (IF t = token /\ x = from THEN v ELSE 0)
    BY DEF Moves
  <2>2. l.bal[t][x] \in Nat
    BY DEF Ledgers
  <2>3. CASE t # token
    BY <1>9, <2>2, <2>3
  <2>4. CASE t = token
    <3>1. m.bal[t][x] = h[x] /\ l.bal[t][x] = f[x]
      BY <1>2, <1>9, <2>4
    <3>2. CASE x \notin {from, to}
      BY <1>5, <2>2, <3>1, <3>2
    <3>3. CASE x = from /\ from # to
      BY <1>5, <2>2, <2>4, <3>1, <3>3
    <3>4. CASE x = to /\ from # to
      BY <1>5, <2>2, <2>4, <3>1, <3>4
    <3>5. CASE x = to /\ from = to
      BY <1>5, <2>2, <2>4, <3>1, <3>5
    <3>6. QED
      BY <3>2, <3>3, <3>4, <3>5
  <2>5. QED
    BY <2>3, <2>4
<1>12. v <= l.bal[token][from]
  BY <1>2, <1>4
<1>13. QED
  BY <1>8, <1>10, <1>11, <1>12

(* The reserves of the pairs stay covered when no pair pays.               *)
LEMMA StillCovered ==
  ASSUME NEW l \in Ledgers, NEW m \in Ledgers, NEW res \in [Pairs -> [1..2 -> Nat]],
         Covered(l, res), NEW token \in Tokens, NEW from \in Accounts \ Pairs,
         NEW to \in Accounts, NEW v \in Nat, Moves(l, m, token, from, to, v)
  PROVE  Covered(m, res)
<1>1. SUFFICES ASSUME NEW p \in Pairs, NEW k \in 1..2
               PROVE  res[p][k] <= m.bal[PairTokens[p][k]][p]
  BY DEF Covered
<1>2. PICK t : t = PairTokens[p][k]
  OBVIOUS
<1>3. t \in Tokens /\ p \in Accounts /\ p # from
  BY <1>2, RouterAssumption DEF Accounts
<1>4. l.bal[t][p] \in Nat /\ m.bal[t][p] \in Nat /\ res[p][k] \in Nat /\ res[p][k] <= l.bal[t][p]
  BY <1>2, <1>3 DEF Ledgers, Covered
<1>5. m.bal[t][p] = l.bal[t][p] + (IF t = token /\ p = to THEN v ELSE 0)
  BY <1>3, <1>4 DEF Moves
<1>6. m.bal[t][p] >= l.bal[t][p]
  BY <1>4, <1>5
<1>7. QED
  BY <1>2, <1>4, <1>6

LEMMA NothingMoves ==
  ASSUME NEW l \in Ledgers, NEW token, NEW from, NEW to, NEW v \in Int, v = 0 \/ from = to
  PROVE  Moves(l, l, token, from, to, v)
<1>1. \A t \in Tokens, x \in Accounts : l.bal[t][x] \in Nat
  BY DEF Ledgers
<1>2. QED
  BY <1>1 DEF Moves

(* What the payer is asked for, from a user through Permit2 or from the    *)
(* contract itself, goes to the first pair or to the contract.             *)
LEMMA InputEffect ==
  ASSUME ledger \in Ledgers, Conserved(ledger), NEW path, path[1] \in Tokens,
         NEW from \in Parties, NEW to \in Pairs \cup {This}, NEW a \in Nat,
         NEW m \in InputPaid(from, path[1], to, a)
  PROVE  /\ m \in Ledgers /\ Conserved(m)
         /\ Paid(ledger, path, a) \in Nat
         /\ Moves(ledger, m, path[1], from, to, Paid(ledger, path, a))
         /\ (from # This /\ a # 0) => Paid(ledger, path, a) = a
<1> DEFINE t == path[1]
           v == Paid(ledger, path, a)
<1>1. /\ ledger.bal[t][This] \in Nat /\ MaxUint160 \in Nat /\ MaxUint160 < ContractBalance
      /\ ContractBalance \in Nat /\ ContractBalance # 0 /\ t # Eth /\ t \in Tokens
  <2>1. ledger.bal \in [Tokens -> [Accounts -> Nat]] /\ This \in Accounts /\ t \in Tokens
    BY DEF Ledgers, Accounts
  <2>2. t # Eth
    BY <2>1, RouterAssumption
  <2>3. QED
    BY <2>1, <2>2, TransferAssumption
<1>2. v \in Nat
  BY <1>1 DEF Paid
<1>3. from \in Accounts /\ to \in Accounts
  BY DEF Parties, Accounts
<1>4. CASE a = 0
  <2>1. m = ledger /\ v = 0
    BY <1>1, <1>4 DEF InputPaid, Paid
  <2>2. QED
    BY <1>2, <1>4, <2>1, NothingMoves
<1>5. CASE a # 0 /\ from = This
  <2>1. m \in Pay(ledger, t, to, a)
    BY <1>5 DEF InputPaid, PayOrPermit2Transfer
  <2>2. CASE to = This
    <3>1. m = ledger
      BY <2>1, <2>2 DEF Pay
    <3>2. QED
      BY <1>2, <1>5, <2>2, <3>1, NothingMoves
  <2>3. CASE to # This
    <3>1. m \in Transfer(ledger, t, This, to, v)
      BY <1>1, <2>1, <2>3 DEF Pay, IsETH, UniBalanceOf, Paid
    <3>2. QED
      BY <1>1, <1>2, <1>3, <1>5, <3>1, TransferEffect
  <2>4. QED
    BY <2>2, <2>3
<1>6. CASE a # 0 /\ from # This
  <2>1. a <= MaxUint160 /\ m \in PayFrom(ledger, t, from, to, a)
    BY <1>1, <1>6 DEF InputPaid, PayOrPermit2Transfer
  <2>2. a # ContractBalance /\ v = a
    BY <1>1, <2>1 DEF Paid
  <2>3. from \in Users /\ from # to
    BY <1>6, PartiesApart DEF Parties
  <2>4. m \in Permit2Transfer(ledger, t, from, to, a)
    BY <1>1, <2>1, <2>3 DEF PayFrom, IsETH
  <2>5. PICK k : k = [ledger EXCEPT !.permits[t][from] = ledger.permits[t][from] - a]
    OBVIOUS
  <2>6. m \in Transfer(k, t, from, to, a) /\ ~(a > ledger.permits[t][from])
    BY <2>3, <2>4, <2>5 DEF Permit2Transfer
  <2>7. ledger.permits[t] \in [Users -> Nat] /\ ledger.permits[t][from] - a \in Nat
    BY <1>1, <2>3, <2>6 DEF Ledgers
  <2>8. k \in Ledgers /\ k.bal = ledger.bal
    BY <1>1, <2>3, <2>5, <2>7 DEF Ledgers
  <2>9. m \in Ledgers /\ Conserved(k) => Conserved(m)
    BY <1>1, <1>3, <2>6, <2>8, TransferEffect
  <2>10. Moves(k, m, t, from, to, a)
    BY <1>1, <1>3, <2>6, <2>8, TransferEffect
  <2>11. Conserved(m)
    <3>1. Conserved(k)
      BY <2>8 DEF Conserved
    <3>2. QED
      BY <1>1, <1>3, <2>6, <2>8, <3>1, TransferEffect
  <2>12. m \in Ledgers
    BY <1>1, <1>3, <2>6, <2>8, TransferEffect
  <2>13. Moves(ledger, m, t, from, to, a)
    BY <2>8, <2>10 DEF Moves
  <2>14. QED
    BY <1>2, <2>2, <2>11, <2>12, <2>13
<1>7. QED
  BY <1>4, <1>5, <1>6

LEMMA Maps ==
  ASSUME NEW u \in Users, NEW payer, NEW recipient \in Recipients
  PROVE  PayerMap(payer, u) \subseteq Parties /\ RecipientMap(recipient, u) \in Accounts
<1>1. PayerMap(payer, u) \subseteq Parties
  BY DEF PayerMap, Parties
<1>2. RecipientMap(recipient, u) \in Accounts
  <2>1. u \in Accounts /\ This \in Accounts /\ Named \subseteq Accounts
    BY RouterAssumption DEF Accounts
  <2>2. recipient \in {MsgSender, AddressThis, Eth} \cup Named
    BY DEF Recipients
  <2>3. QED
    BY <2>1, <2>2 DEF RecipientMap, IsETH
<1>3. QED
  BY <1>1, <1>2

-----------------------------------------------------------------------------
(* Paths.                                                                  *)

(* A path that ends with a token: its hops, each from one to another.      *)
LEMMA PathShape ==
  ASSUME NEW path \in Paths, Len(path) >= 3, Last(path) \in Tokens
  PROVE  /\ HopCount(path) \in Nat \ {0} /\ Len(path) = 2 * HopCount(path) + 1
         /\ \A k \in 1..HopCount(path) :
              /\ path[2 * k - 1] \in Tokens /\ path[2 * k] \in Factories
              /\ path[2 * k + 1] \in Tokens
<1>1. /\ Len(path) \in Nat /\ Factories \cap Tokens = {}
      /\ \A i \in 1..Len(path) : path[i] \in IF i % 2 = 1 THEN Tokens ELSE Factories
  BY RouterAssumption
<1>2. Len(path) % 2 = 1
  <2>1. Len(path) \in 1..Len(path)
    BY <1>1
  <2>2. path[Len(path)] \in IF Len(path) % 2 = 1 THEN Tokens ELSE Factories
    BY <1>1, <2>1
  <2>3. path[Len(path)] \in Tokens
    BY DEF Last
  <2>4. QED
    BY <1>1, <2>2, <2>3
<1>3. PICK n \in Nat : n = Len(path)
  BY <1>1
<1>4. PICK h : h = HopCount(path)
  OBVIOUS
<1>5. h \in Nat \ {0} /\ n = 2 * h + 1
  BY <1>2, <1>3, <1>4 DEF HopCount
<1>6. ASSUME NEW k \in 1..h
      PROVE  /\ path[2 * k - 1] \in Tokens /\ path[2 * k] \in Factories
             /\ path[2 * k + 1] \in Tokens
  <2>1. /\ 2 * k - 1 \in 1..n /\ 2 * k \in 1..n /\ 2 * k + 1 \in 1..n
        /\ (2 * k - 1) % 2 = 1 /\ (2 * k) % 2 = 0 /\ (2 * k + 1) % 2 = 1
    BY <1>5
  <2>2. QED
    BY <1>1, <1>3, <2>1
<1>7. QED
  BY <1>3, <1>4, <1>5, <1>6

(* The pair of two tokens keeps them in the order of their addresses.      *)
LEMMA PairShape ==
  ASSUME NEW c \in Factories, NEW a \in Tokens, NEW b \in Tokens, GetPair(c, a, b) # NoPair
  PROVE  /\ GetPair(c, a, b) \in Pairs /\ a # b
         /\ Token0(a, b) = a => PairTokens[GetPair(c, a, b)] = <<a, b>>
         /\ Token0(a, b) # a => PairTokens[GetPair(c, a, b)] = <<b, a>>
<1>1. a \in Nat /\ b \in Nat
  BY RouterAssumption
<1>2. CASE a < b
  <2>1. Token0(a, b) = a /\ a + b - a = b
    BY <1>1, <1>2 DEF Token0
  <2>2. GetPair(c, a, b) = PairOf[c][a][b]
    BY <2>1 DEF GetPair
  <2>3. QED
    BY <1>1, <1>2, <2>1, <2>2, RouterAssumption
<1>3. CASE ~(a < b)
  <2>1. Token0(a, b) = b /\ a + b - b = a
    BY <1>1, <1>3 DEF Token0
  <2>2. GetPair(c, a, b) = PairOf[c][b][a]
    BY <2>1 DEF GetPair
  <2>3. GetPair(c, a, b) \in Pairs /\ PairTokens[GetPair(c, a, b)] = <<b, a>>
    BY <2>2, RouterAssumption
  <2>4. PairTokens[GetPair(c, a, b)][1] < PairTokens[GetPair(c, a, b)][2]
    BY <2>3, RouterAssumption
  <2>5. b < a
    BY <2>3, <2>4
  <2>6. QED
    BY <1>1, <2>1, <2>3, <2>5
<1>4. QED
  BY <1>2, <1>3

-----------------------------------------------------------------------------
(* The invariant.                                                          *)

Good(l, res) ==
  /\ l \in Ledgers /\ Conserved(l)
  /\ res \in [Pairs -> [1..2 -> Nat]] /\ Covered(l, res)

TxShape ==
  tx = [path |-> tx.path, amountIn |-> tx.amountIn, payer |-> tx.payer,
        recipient |-> tx.recipient, i |-> tx.i, pair |-> tx.pair,
        token0 |-> tx.token0, balanceBefore |-> tx.balanceBefore]

Hops == HopCount(tx.path)

(* The hops done, of which each moves i on by two. *)
Done == (tx.i - 1) \div 2

RunInv ==
  /\ TxShape /\ last = NoTrade
  /\ tx.path \in Paths /\ Len(tx.path) >= 3 /\ Last(tx.path) \in Tokens
  /\ tx.amountIn \in Nat /\ tx.payer \in Parties /\ tx.recipient \in Accounts
  /\ Good(saved[1], saved[2])
  /\ tx.i = 2 * Done + 1 /\ Done \in 0..Hops
  /\ pc = "hop" => Done < Hops
  /\ pc = "paid" => Done = Hops

(* The pair of this hop is the one the path names. *)
PairInv ==
  pc = "hop" =>
    /\ tx.pair \in Pairs /\ tx.pair = PairAt(tx.path, Done + 1)
    /\ tx.token0 = Token0(Input, Output)

(* What the trade costs x of t. *)
Cost(t, x) ==
  IF t = tx.path[1] /\ x = tx.payer THEN Paid(saved[1], tx.path, tx.amountIn) ELSE 0

(* Until the last pair pays the recipient, the users and the contract have *)
(* what they had, less the input; later all have but the recipient.        *)
PartiesInv ==
  /\ \A t \in Tokens, x \in Parties :
       (pc = "hop" \/ t # Last(tx.path) \/ x # tx.recipient) =>
         ledger.bal[t][x] = saved[1].bal[t][x] - Cost(t, x)
  /\ tx.recipient \in Parties =>
       tx.balanceBefore =
         saved[1].bal[Last(tx.path)][tx.recipient] - Cost(Last(tx.path), tx.recipient)

(* TradeSettles is not inductive: it does not speak of a trade under way. *)
IInv ==
  /\ Good(ledger, reserves)
  /\ listed \in [Contracts -> Fees \cup {NotListed}]
  /\ pc \in {"idle", "hop", "paid"}
  /\ pc # "idle" => RunInv /\ PairInv /\ PartiesInv
  /\ TradeSettles

LEMMA InitIInv == Init => IInv
<1> SUFFICES ASSUME Init PROVE IInv
  OBVIOUS
<1>1. /\ ledger.bal = Holding
      /\ ledger = [bal |-> Holding, permits |-> [t \in Tokens |-> [u \in Users |-> 0]]]
      /\ Holding \in [Tokens -> [Accounts -> Nat]]
  BY RouterAssumption DEF Init
<1>2. ledger \in Ledgers
  BY <1>1 DEF Ledgers
<1>3. Conserved(ledger)
  BY <1>1 DEF Conserved, Supply, Sum
<1>4. ASSUME NEW p \in Pairs, NEW k \in 1..2
      PROVE  PairTokens[p][k] \in Tokens /\ p \in Accounts
  BY RouterAssumption DEF Accounts
<1>5. reserves = [p \in Pairs |-> [k \in 1..2 |-> Holding[PairTokens[p][k]][p]]]
  BY DEF Init
<1>6. \A p \in Pairs : \A k \in 1..2 : Holding[PairTokens[p][k]][p] \in Nat
  BY <1>1, <1>4
<1>7. reserves \in [Pairs -> [1..2 -> Nat]]
  BY <1>5, <1>6
<1>8. Covered(ledger, reserves)
  BY <1>1, <1>5, <1>6 DEF Covered
<1>9. QED
  BY <1>2, <1>3, <1>7, <1>8 DEF Init, IInv, Good, TradeSettles

(* The steps between trades. *)
LEMMA BetweenTrades ==
  ASSUME Good(ledger', reserves'), listed' \in [Contracts -> Fees \cup {NotListed}],
         pc' = "idle", last' = NoTrade
  PROVE  IInv'
BY DEF IInv, Good, TradeSettles, Conserved, Covered, Held

LEMMA PermitIInv ==
  ASSUME IInv, NEW u \in Users, NEW token \in Tokens, NEW v \in Amounts, Permit(u, token, v)
  PROVE  IInv'
<1>1. v \in Nat /\ ledger \in Ledgers
  BY RouterAssumption DEF IInv, Good
<1>2. /\ ledger' = [ledger EXCEPT !.permits[token][u] = v]
      /\ UNCHANGED <<reserves, listed>> /\ pc' = "idle" /\ last' = NoTrade
  BY DEF Permit, Transaction
<1>3. ledger' \in Ledgers /\ ledger'.bal = ledger.bal
  BY <1>1, <1>2 DEF Ledgers
<1>4. Good(ledger', reserves')
  BY <1>2, <1>3 DEF IInv, Good, Conserved, Covered
<1>5. QED
  BY <1>2, <1>4, BetweenTrades DEF IInv

LEMMA SendIInv ==
  ASSUME IInv, NEW u \in Users, NEW token \in Tokens, NEW to \in Pairs \cup {This},
         NEW v \in Amounts, Send(u, token, to, v)
  PROVE  IInv'
<1>1. /\ ledger' \in Transfer(ledger, token, u, to, v)
      /\ UNCHANGED <<reserves, listed>> /\ pc' = "idle" /\ last' = NoTrade
  BY DEF Send, Transaction
<1>2. v \in Nat /\ u \in Accounts \ Pairs /\ to \in Accounts
  BY RouterAssumption, PartiesApart DEF Accounts
<1>3. /\ ledger' \in Ledgers /\ Conserved(ledger')
      /\ Moves(ledger, ledger', token, u, to, v)
  BY <1>1, <1>2, TransferEffect DEF IInv, Good
<1>4. Covered(ledger', reserves)
  BY <1>2, <1>3, StillCovered DEF IInv, Good
<1>5. Good(ledger', reserves')
  BY <1>1, <1>3, <1>4 DEF IInv, Good
<1>6. QED
  BY <1>1, <1>5, BetweenTrades DEF IInv

LEMMA PairHolds ==
  ASSUME NEW l \in Ledgers, NEW p \in Pairs, NEW k \in 1..2
  PROVE  PairTokens[p][k] \in Tokens /\ l.bal[PairTokens[p][k]][p] \in Nat
<1>1. PairTokens[p][k] \in Tokens /\ p \in Accounts
  BY RouterAssumption DEF Accounts
<1>2. l.bal \in [Tokens -> [Accounts -> Nat]]
  BY DEF Ledgers
<1>3. QED
  BY <1>1, <1>2

LEMMA HeldCovers ==
  ASSUME NEW l \in Ledgers, NEW res \in [Pairs -> [1..2 -> Nat]], Covered(l, res),
         NEW p \in Pairs
  PROVE  /\ [res EXCEPT ![p] = Held(l, p)] \in [Pairs -> [1..2 -> Nat]]
         /\ Covered(l, [res EXCEPT ![p] = Held(l, p)])
<1>1. \A k \in 1..2 : l.bal[PairTokens[p][k]][p] \in Nat
  BY PairHolds
<1>2. Held(l, p) \in [1..2 -> Nat]
  BY <1>1 DEF Held
<1>3. \A k \in 1..2 : Held(l, p)[k] <= l.bal[PairTokens[p][k]][p]
  BY <1>1 DEF Held
<1>4. QED
  BY <1>2, <1>3 DEF Covered

LEMMA SyncIInv == ASSUME IInv, NEW p \in Pairs, Sync(p) PROVE IInv'
<1>1. /\ reserves' = [reserves EXCEPT ![p] = Held(ledger, p)]
      /\ UNCHANGED <<ledger, listed>> /\ pc' = "idle" /\ last' = NoTrade
  BY DEF Sync, Transaction
<1>2. reserves' \in [Pairs -> [1..2 -> Nat]] /\ Covered(ledger, reserves')
  BY <1>1, HeldCovers DEF IInv, Good
<1>3. Good(ledger', reserves')
  BY <1>1, <1>2 DEF IInv, Good
<1>4. QED
  BY <1>1, <1>3, BetweenTrades DEF IInv

LEMMA ListIInv ==
  ASSUME IInv, NEW c \in Contracts, NEW entry \in Fees \cup {NotListed}, List(c, entry)
  PROVE  IInv'
<1>1. /\ listed' = [listed EXCEPT ![c] = entry]
      /\ UNCHANGED <<ledger, reserves>> /\ pc' = "idle" /\ last' = NoTrade
  BY DEF List, Transaction
<1>2. listed' \in [Contracts -> Fees \cup {NotListed}] /\ Good(ledger', reserves')
  BY <1>1 DEF IInv
<1>3. QED
  BY <1>1, <1>2, BetweenTrades

-----------------------------------------------------------------------------
(* A trade along pairs.                                                    *)

(* What the first step of a trade does. *)
LEMMA StartEffect ==
  ASSUME IInv, NEW u \in Users, NEW a \in Amounts \cup {0, ContractBalance}, NEW path \in Paths,
         NEW recipient \in Recipients, NEW payer \in Payers,
         UniV2SwapExactInput(u, a, path, recipient, payer)
  PROVE  \E from \in Parties, to \in Accounts :
           /\ PairAt(path, 1) \in Pairs /\ a \in Nat /\ path[1] \in Tokens
           /\ Len(path) >= 3 /\ Last(path) \in Tokens
           /\ tx' = [path |-> path, amountIn |-> a, payer |-> from, recipient |-> to,
                     i |-> 1, pair |-> PairAt(path, 1), token0 |-> Token0(path[1], path[3]),
                     balanceBefore |-> ledger'.bal[Last(path)][to]]
           /\ ledger' \in Ledgers /\ Conserved(ledger')
           /\ Paid(ledger, path, a) \in Nat
           /\ Moves(ledger, ledger', path[1], from, PairAt(path, 1), Paid(ledger, path, a))
           /\ pc' = "hop" /\ saved' = <<ledger, reserves>> /\ last' = NoTrade
           /\ UNCHANGED <<reserves, listed>>
<1>1. Len(path) >= 3 /\ Last(path) \in Tokens
  BY DEF UniV2SwapExactInput
<1>2. /\ HopCount(path) \in Nat \ {0}
      /\ \A k \in 1..HopCount(path) :
              /\ path[2 * k - 1] \in Tokens /\ path[2 * k] \in Factories
              /\ path[2 * k + 1] \in Tokens
  BY <1>1, PathShape
<1>3. path[1] \in Tokens /\ path[2] \in Factories /\ path[3] \in Tokens
  <2>1. 1 \in 1..HopCount(path) /\ 2 * 1 - 1 = 1 /\ 2 * 1 = 2 /\ 2 * 1 + 1 = 3
    BY <1>2
  <2>2. QED
    BY <1>2, <2>1
<1>4. PairAt(path, 1) = GetPair(path[2], path[1], path[3])
  BY DEF PairAt
<1>5. PICK from \in PayerMap(payer, u) :
        /\ PairAt(path, 1) # NoPair
        /\ ledger' \in InputPaid(from, path[1], PairAt(path, 1), a)
        /\ tx' = [path |-> path, amountIn |-> a, payer |-> from,
                  recipient |-> RecipientMap(recipient, u),
                  i |-> 1, pair |-> PairAt(path, 1), token0 |-> Token0(path[1], path[3]),
                  balanceBefore |-> UniBalanceOf(ledger', Last(path), RecipientMap(recipient, u))]
  BY <1>4 DEF UniV2SwapExactInput
<1>6. from \in Parties /\ RecipientMap(recipient, u) \in Accounts
  BY Maps
<1>7. PairAt(path, 1) \in Pairs
  BY <1>3, <1>4, <1>5, PairShape
<1>8. a \in Nat
  BY RouterAssumption, TransferAssumption
<1>9. /\ ledger' \in Ledgers /\ Conserved(ledger')
      /\ Paid(ledger, path, a) \in Nat
      /\ Moves(ledger, ledger', path[1], from, PairAt(path, 1), Paid(ledger, path, a))
  BY <1>3, <1>5, <1>6, <1>7, <1>8, InputEffect DEF IInv, Good
<1>10. /\ pc' = "hop" /\ saved' = <<ledger, reserves>> /\ last' = NoTrade
       /\ UNCHANGED <<reserves, listed>>
  BY DEF UniV2SwapExactInput, Transaction
<1>11. QED
  BY <1>1, <1>3, <1>5, <1>6, <1>7, <1>8, <1>9, <1>10 DEF UniBalanceOf

LEMMA PartyTypes ==
  ASSUME NEW x \in Parties
  PROVE  x \in Accounts /\ x \notin Pairs /\ x \notin Routers /\ x # NoPair
BY PartiesApart DEF Parties, Accounts

LEMMA StartIInv ==
  ASSUME IInv, NEW u \in Users, NEW a \in Amounts \cup {0, ContractBalance}, NEW path \in Paths,
         NEW recipient \in Recipients, NEW payer \in Payers,
         UniV2SwapExactInput(u, a, path, recipient, payer)
  PROVE  IInv'
<1>1. PICK from \in Parties, to \in Accounts :
           /\ PairAt(path, 1) \in Pairs /\ a \in Nat /\ path[1] \in Tokens
           /\ Len(path) >= 3 /\ Last(path) \in Tokens
           /\ tx' = [path |-> path, amountIn |-> a, payer |-> from, recipient |-> to,
                     i |-> 1, pair |-> PairAt(path, 1), token0 |-> Token0(path[1], path[3]),
                     balanceBefore |-> ledger'.bal[Last(path)][to]]
           /\ ledger' \in Ledgers /\ Conserved(ledger')
           /\ Paid(ledger, path, a) \in Nat
           /\ Moves(ledger, ledger', path[1], from, PairAt(path, 1), Paid(ledger, path, a))
           /\ pc' = "hop" /\ saved' = <<ledger, reserves>> /\ last' = NoTrade
           /\ UNCHANGED <<reserves, listed>>
  BY StartEffect
<1>2. /\ tx'.path = path /\ tx'.amountIn = a /\ tx'.payer = from /\ tx'.recipient = to
      /\ tx'.i = 1 /\ tx'.pair = PairAt(path, 1) /\ tx'.token0 = Token0(path[1], path[3])
      /\ tx'.balanceBefore = ledger'.bal[Last(path)][to]
      /\ saved'[1] = ledger /\ saved'[2] = reserves
  BY <1>1
<1>3. Covered(ledger', reserves)
  BY <1>1, PartyTypes, StillCovered DEF IInv, Good, Accounts
<1>4. Good(ledger', reserves')
  BY <1>1, <1>3 DEF IInv, Good
<1>5. HopCount(path) \in Nat \ {0}
  BY <1>1, PathShape
<1>6. Done' = 0 /\ Hops' = HopCount(path)
  BY <1>2 DEF Done, Hops
<1>7. RunInv'
  <2>1. TxShape'
    BY <1>1, <1>2 DEF TxShape
  <2>2. Good(saved'[1], saved'[2])
    BY <1>2 DEF IInv
  <2>3. tx'.i = 2 * Done' + 1 /\ Done' \in 0..Hops' /\ Done' < Hops'
    BY <1>2, <1>5, <1>6
  <2>4. Good(saved[1], saved[2])'
    BY <2>2 DEF Good, Conserved, Covered
  <2>5. QED
    BY <1>1, <1>2, <2>1, <2>3, <2>4 DEF RunInv
<1>8. PairInv'
  <2>1. PairAt(path, 0 + 1) = PairAt(path, 1) /\ Input' = path[1] /\ Output' = path[3]
    BY <1>2 DEF Input, Output
  <2>2. QED
    BY <1>1, <1>2, <1>6, <2>1 DEF PairInv, PairAt
<1>9. ASSUME NEW t \in Tokens, NEW x \in Parties
      PROVE  ledger'.bal[t][x] = saved'[1].bal[t][x] - Cost(t, x)'
  <2>1. x \in Accounts /\ x # PairAt(path, 1) /\ ledger.bal[t][x] \in Nat
    BY <1>1, PartyTypes DEF IInv, Good, Ledgers
  <2>2. ledger'.bal[t][x]
          = ledger.bal[t][x] - (IF t = path[1] /\ x = from THEN Paid(ledger, path, a) ELSE 0)
    BY <1>1, <2>1 DEF Moves
  <2>3. Cost(t, x)' = IF t = path[1] /\ x = from THEN Paid(ledger, path, a) ELSE 0
    BY <1>2 DEF Cost, Paid
  <2>4. QED
    BY <1>2, <2>2, <2>3
<1>10. PartiesInv'
  BY <1>1, <1>2, <1>9 DEF PartiesInv, Last
<1>11. QED
  BY <1>1, <1>4, <1>7, <1>8, <1>10 DEF IInv, TradeSettles, Good, Conserved, Covered

(* Where a hop is: its tokens, its pair, and what comes after it.          *)
LEMMA HopPlace ==
  ASSUME IInv, pc = "hop"
  PROVE  /\ Done + 1 \in 1..Hops
         /\ Input \in Tokens /\ Output \in Tokens /\ Input # Output
         /\ tx.path[tx.i + 1] \in Factories /\ tx.pair \in Pairs
         /\ Input = tx.path[2 * (Done + 1) - 1] /\ Output = tx.path[2 * (Done + 1) + 1]
         /\ tx.path[tx.i + 1] = tx.path[2 * (Done + 1)]
         /\ (tx.token0 = Input /\ PairTokens[tx.pair] = <<Input, Output>>)
              \/ (tx.token0 # Input /\ PairTokens[tx.pair] = <<Output, Input>>)
         /\ LastHop => Done + 1 = Hops /\ Output = Last(tx.path) /\ NextPair = tx.recipient
         /\ ~LastHop => /\ Done + 2 \in 1..Hops /\ NextPair = PairAt(tx.path, Done + 2)
                        /\ NextToken0(NextPair) = Token0(Output, tx.path[tx.i + 4])
                        /\ NextPair # NoPair => NextPair \in Pairs
<1>1. /\ Len(tx.path) >= 3 /\ Last(tx.path) \in Tokens /\ tx.path \in Paths
      /\ tx.i = 2 * Done + 1 /\ Done \in 0..Hops /\ Done < Hops
      /\ tx.pair = PairAt(tx.path, Done + 1) /\ tx.token0 = Token0(Input, Output)
      /\ tx.pair \in Pairs
  BY DEF IInv, RunInv, PairInv
<1>2. /\ Hops \in Nat \ {0} /\ Len(tx.path) = 2 * Hops + 1
      /\ \A k \in 1..Hops : /\ tx.path[2 * k - 1] \in Tokens /\ tx.path[2 * k] \in Factories
                            /\ tx.path[2 * k + 1] \in Tokens
  BY <1>1, PathShape DEF Hops
<1>3. PICK d \in Nat, h \in Nat : d = Done /\ h = Hops /\ d < h
  <2>1. Done \in Nat /\ Hops \in Nat /\ Done < Hops
    BY <1>1, <1>2
  <2> HIDE DEF Done, Hops
  <2>2. QED
    BY <2>1, Zenon
<1>4. d + 1 \in 1..h /\ tx.i = 2 * d + 1
  BY <1>1, <1>3
<1>5. 2 * (d + 1) - 1 = tx.i /\ 2 * (d + 1) = tx.i + 1 /\ 2 * (d + 1) + 1 = tx.i + 2
  BY <1>3, <1>4
<1>6. Input = tx.path[2 * (d + 1) - 1] /\ Output = tx.path[2 * (d + 1) + 1]
      /\ tx.path[tx.i + 1] = tx.path[2 * (d + 1)]
  BY <1>5 DEF Input, Output
<1>7. Input \in Tokens /\ Output \in Tokens /\ tx.path[tx.i + 1] \in Factories
  BY <1>2, <1>3, <1>4, <1>6
<1>8. tx.pair = GetPair(tx.path[tx.i + 1], Input, Output)
  BY <1>1, <1>3, <1>6 DEF PairAt
<1>9. tx.pair # NoPair
  BY <1>1, PartiesApart DEF Accounts
<1>10. /\ Input # Output
       /\ (tx.token0 = Input /\ PairTokens[tx.pair] = <<Input, Output>>)
            \/ (tx.token0 # Input /\ PairTokens[tx.pair] = <<Output, Input>>)
  BY <1>1, <1>7, <1>8, <1>9, PairShape
<1>11. LastHop <=> d + 1 = h
  BY <1>2, <1>3, <1>4 DEF LastHop
<1>12. ASSUME LastHop PROVE Output = Last(tx.path) /\ NextPair = tx.recipient
  BY <1>12 DEF LastHop, Output, Last, NextPair
<1>13. ASSUME ~LastHop
       PROVE  /\ d + 2 \in 1..h /\ NextPair = PairAt(tx.path, d + 2)
              /\ NextToken0(NextPair) = Token0(Output, tx.path[tx.i + 4])
              /\ NextPair # NoPair => NextPair \in Pairs
  <2>1. d + 2 \in 1..h
    BY <1>3, <1>4, <1>11, <1>13
  <2>2. 2 * (d + 2) - 1 = tx.i + 2 /\ 2 * (d + 2) = tx.i + 3 /\ 2 * (d + 2) + 1 = tx.i + 4
    BY <1>3, <1>4
  <2>3. NextPair = GetPair(tx.path[tx.i + 3], Output, tx.path[tx.i + 4])
    BY <1>13 DEF NextPair
  <2>4. NextPair = PairAt(tx.path, d + 2)
    BY <2>2, <2>3 DEF PairAt, Output
  <2>5. tx.path[tx.i + 3] \in Factories /\ tx.path[tx.i + 4] \in Tokens
    BY <1>2, <1>3, <2>1, <2>2
  <2>6. NextPair # NoPair => NextPair \in Pairs
    BY <1>7, <2>3, <2>5, PairShape
  <2>7. QED
    BY <1>13, <2>1, <2>4, <2>6 DEF NextToken0
<1>14. QED
  BY <1>1, <1>3, <1>4, <1>6, <1>7, <1>10, <1>11, <1>12, <1>13

(* What a hop reads: the reserves of its pair, in the order of the trade,  *)
(* and a word that is what the pair was paid.                              *)
LEMMA HopAmounts ==
  ASSUME IInv, pc = "hop"
  PROVE  /\ ReserveInput \in Nat /\ ReserveOutput \in Nat /\ AmountInput \in Nat
         /\ ReserveInput = Reserve(reserves, tx.pair, Input)
         /\ ReserveOutput = Reserve(reserves, tx.pair, Output)
         /\ AmountInput = Surplus(ledger, reserves, tx.pair, Input)
         /\ ReserveInput + AmountInput = ledger.bal[Input][tx.pair]
         /\ ledger.bal[Output][tx.pair] \in Nat /\ ReserveOutput <= ledger.bal[Output][tx.pair]
<1>1. /\ Input \in Tokens /\ Output \in Tokens /\ Input # Output /\ tx.pair \in Pairs
      /\ (tx.token0 = Input /\ PairTokens[tx.pair] = <<Input, Output>>)
           \/ (tx.token0 # Input /\ PairTokens[tx.pair] = <<Output, Input>>)
  BY HopPlace
<1>2. PICK p \in Pairs, a \in Tokens, b \in Tokens : p = tx.pair /\ a = Input /\ b = Output
  BY <1>1
<1>3. /\ reserves[p][1] \in Nat /\ reserves[p][2] \in Nat
      /\ reserves[p][1] <= ledger.bal[PairTokens[p][1]][p]
      /\ reserves[p][2] <= ledger.bal[PairTokens[p][2]][p]
  BY DEF IInv, Good, Covered
<1>4. /\ ReserveInput = Reserve(reserves, p, a) /\ ReserveOutput = Reserve(reserves, p, b)
      /\ ReserveInput \in Nat /\ ReserveOutput \in Nat
      /\ ReserveInput <= ledger.bal[a][p] /\ ReserveOutput <= ledger.bal[b][p]
  <2>1. CASE tx.token0 = a /\ PairTokens[p] = <<a, b>>
    BY <1>1, <1>2, <1>3, <2>1 DEF ReserveInput, ReserveOutput, Reserve
  <2>2. CASE tx.token0 # a /\ PairTokens[p] = <<b, a>>
    BY <1>1, <1>2, <1>3, <2>2 DEF ReserveInput, ReserveOutput, Reserve
  <2>3. QED
    BY <1>1, <1>2, <2>1, <2>2
<1>5. /\ ledger.bal[a][p] \in Nat /\ ledger.bal[a][p] <= MaxUint
      /\ ledger.bal[b][p] \in Nat /\ MaxUint \in Nat
  <2>1. p \in Accounts
    BY DEF Accounts
  <2>2. QED
    BY <2>1, BalanceFits, QuoteAssumption DEF IInv, Good
<1>6. PICK s \in Nat : s = ledger.bal[a][p] - ReserveInput /\ s <= MaxUint
  BY <1>4, <1>5
<1>7. s % (MaxUint + 1) = s
  BY <1>5, <1>6
<1>8. AmountInput = s
  BY <1>2, <1>6, <1>7 DEF AmountInput
<1>9. Surplus(ledger, reserves, p, a) = s
  BY <1>4, <1>6 DEF Surplus
<1>10. QED
  BY <1>2, <1>4, <1>5, <1>6, <1>8, <1>9

LEMMA HopQuotes ==
  ASSUME IInv, pc = "hop", AmountOutput # NoAmount
  PROVE  /\ listed[tx.path[tx.i + 1]] # NotListed
         /\ listed[tx.path[tx.i + 1]] \in Fees
         /\ AmountOutput
              = GetAmountOut(ReserveInput, ReserveOutput, AmountInput, listed[tx.path[tx.i + 1]])
         /\ AmountOutput \in Nat /\ AmountOutput < ReserveOutput /\ ReserveInput # 0
         /\ AmountInput = 0 => AmountOutput = 0
<1>1. PICK c \in Contracts : c = tx.path[tx.i + 1]
  BY HopPlace DEF Contracts
<1>2. /\ listed[c] # NotListed
      /\ AmountOutput = GetAmountOut(ReserveInput, ReserveOutput, AmountInput, listed[c])
  BY <1>1 DEF AmountOutput, ContractIsAllowed, GetFee
<1>3. listed[c] \in Fees /\ listed[c] \in 0..FeeBase
  BY <1>2, RouterAssumption DEF IInv
<1>4. QED
  BY <1>1, <1>2, <1>3, HopAmounts, AmountOutKeepsProduct

(* A swap moves what the hop quotes, of its output, to whoever is next.    *)
LEMMA HopEffect ==
  ASSUME IInv, pc = "hop", NEW l \in Swapped
  PROVE  /\ AmountOutput \in Nat \ {0} /\ NextPair \in Accounts
         /\ NextPair # NoPair /\ AmountOutput # NoAmount
         /\ l \in Ledgers /\ Conserved(l)
         /\ Moves(ledger, l, Output, tx.pair, NextPair, AmountOutput)
<1>1. AmountOutput # NoAmount /\ NextPair # NoPair
  BY DEF Swapped
<1>2. PICK k \in 1..2 :
        /\ AmountsOut[k] > 0
        /\ l \in Transfer(ledger, PairTokens[tx.pair][k], tx.pair, NextPair, AmountsOut[k])
  BY <1>1 DEF Swapped
<1>3. AmountOutput \in Nat
  BY <1>1, HopQuotes
<1>4. PairTokens[tx.pair][k] = Output /\ AmountsOut[k] = AmountOutput
  <2>1. CASE tx.token0 = Input /\ PairTokens[tx.pair] = <<Input, Output>>
    <3>1. AmountsOut = <<0, AmountOutput>>
      BY <2>1 DEF AmountsOut
    <3>2. k = 2
      BY <1>2, <3>1
    <3>3. QED
      BY <2>1, <3>1, <3>2
  <2>2. CASE tx.token0 # Input /\ PairTokens[tx.pair] = <<Output, Input>>
    <3>1. AmountsOut = <<AmountOutput, 0>>
      BY <2>2 DEF AmountsOut
    <3>2. k = 1
      BY <1>2, <3>1
    <3>3. QED
      BY <2>2, <3>1, <3>2
  <2>3. QED
    BY <2>1, <2>2, HopPlace
<1>5. NextPair \in Accounts
  <2>1. tx.recipient \in Accounts
    BY DEF IInv, RunInv
  <2>2. NextPair \in Pairs \/ NextPair = tx.recipient
    BY <1>1, HopPlace
  <2>3. QED
    BY <2>1, <2>2 DEF Accounts
<1>6. tx.pair \in Accounts /\ Output \in Tokens
  BY HopPlace DEF Accounts
<1>7. l \in Ledgers /\ Conserved(l) /\ Moves(ledger, l, Output, tx.pair, NextPair, AmountOutput)
  BY <1>2, <1>3, <1>4, <1>5, <1>6, TransferEffect DEF IInv, Good
<1>8. QED
  BY <1>1, <1>2, <1>3, <1>4, <1>5, <1>7

(* The pair that swapped has what it holds in reserve, no other pair pays. *)
LEMMA SwapCovered ==
  ASSUME NEW l \in Ledgers, NEW m \in Ledgers, NEW res \in [Pairs -> [1..2 -> Nat]],
         Covered(l, res), NEW token \in Tokens, NEW p \in Pairs,
         NEW to \in Accounts, NEW v \in Nat, Moves(l, m, token, p, to, v)
  PROVE  /\ [res EXCEPT ![p] = Held(m, p)] \in [Pairs -> [1..2 -> Nat]]
         /\ Covered(m, [res EXCEPT ![p] = Held(m, p)])
<1>1. \A k \in 1..2 : m.bal[PairTokens[p][k]][p] \in Nat
  BY PairHolds
<1>2. Held(m, p) \in [1..2 -> Nat]
  BY <1>1 DEF Held
<1>3. PICK after : after = [res EXCEPT ![p] = Held(m, p)]
  OBVIOUS
<1>4. after \in [Pairs -> [1..2 -> Nat]] /\ after[p] = Held(m, p)
      /\ \A q \in Pairs \ {p} : after[q] = res[q]
  BY <1>2, <1>3
<1>5. ASSUME NEW q \in Pairs, NEW k \in 1..2
      PROVE  after[q][k] <= m.bal[PairTokens[q][k]][q]
  <2>1. CASE q = p
    BY <1>1, <1>4, <2>1 DEF Held
  <2>2. CASE q # p
    <3>1. PICK t \in Tokens : t = PairTokens[q][k]
      BY PairHolds
    <3>2. /\ l.bal[t][q] \in Nat /\ m.bal[t][q] \in Nat
          /\ res[q][k] \in Nat /\ res[q][k] <= l.bal[t][q]
      BY <3>1, PairHolds DEF Covered
    <3>3. m.bal[t][q] = l.bal[t][q] + (IF t = token /\ q = to THEN v ELSE 0)
      BY <2>2, <3>2 DEF Moves, Accounts
    <3>4. m.bal[t][q] >= l.bal[t][q]
      BY <3>2, <3>3
    <3>5. QED
      BY <1>4, <2>2, <3>1, <3>2, <3>4
  <2>3. QED
    BY <2>1, <2>2
<1>6. QED
  BY <1>3, <1>4, <1>5 DEF Covered

(* The step of a hop.                                                      *)
LEMMA HopNext ==
  ASSUME IInv, Hop
  PROVE  /\ tx'.path = tx.path /\ tx'.amountIn = tx.amountIn /\ tx'.payer = tx.payer
         /\ tx'.recipient = tx.recipient /\ tx'.balanceBefore = tx.balanceBefore
         /\ TxShape' /\ saved' = saved /\ last' = NoTrade /\ listed' = listed
         /\ tx'.i = 2 * Done' + 1 /\ Done' = Done + 1 /\ Hops' = Hops
         /\ tx'.pair = NextPair
         /\ ledger' \in Swapped /\ pc = "hop"
         /\ reserves' = [reserves EXCEPT ![tx.pair] = Held(ledger', tx.pair)]
         /\ LastHop => pc' = "paid" /\ Done + 1 = Hops
         /\ ~LastHop => /\ pc' = "hop" /\ NextPair \in Pairs
                        /\ NextPair = PairAt(tx.path, Done + 2) /\ Done + 2 \in 1..Hops
                        /\ tx'.token0 = Token0(Input', Output')
                        /\ Input' = Output
<1>1. /\ pc = "hop" /\ ledger' \in Swapped /\ saved' = saved /\ listed' = listed /\ last' = NoTrade
      /\ reserves' = [reserves EXCEPT ![tx.pair] = Held(ledger', tx.pair)]
      /\ tx' = [tx EXCEPT !.i = tx.i + 2, !.pair = NextPair, !.token0 = NextToken0(NextPair)]
      /\ pc' = IF LastHop THEN "paid" ELSE "hop"
  BY DEF Hop, IInv, RunInv
<1>2. TxShape /\ tx.i = 2 * Done + 1 /\ Done \in 0..Hops
  BY <1>1 DEF IInv, RunInv
<1>3. /\ tx'.path = tx.path /\ tx'.amountIn = tx.amountIn /\ tx'.payer = tx.payer
      /\ tx'.recipient = tx.recipient /\ tx'.balanceBefore = tx.balanceBefore
      /\ tx'.i = tx.i + 2 /\ tx'.pair = NextPair /\ tx'.token0 = NextToken0(NextPair)
      /\ TxShape'
  BY <1>1, <1>2 DEF TxShape
<1>4. Hops' = Hops
  BY <1>3 DEF Hops, HopCount
<1>5. PICK d \in Nat : d = Done
  <2>1. Done + 1 \in 1..Hops /\ Done \in 0..Hops
    BY <1>1, <1>2, HopPlace
  <2>2. Done \in Nat
    BY <2>1
  <2> HIDE DEF Done
  <2>3. QED
    BY <2>2, Zenon
<1>6. Done' = d + 1
  <2>1. tx.i = 2 * d + 1
    BY <1>2, <1>5
  <2>2. tx'.i = 2 * d + 3
    BY <1>3, <2>1
  <2>3. Done' = (tx'.i - 1) \div 2
    BY DEF Done
  <2>4. (2 * d + 3 - 1) \div 2 = d + 1
    OBVIOUS
  <2>5. QED
    BY <2>2, <2>3, <2>4
<1>7. tx'.i = 2 * Done' + 1
  BY <1>2, <1>3, <1>5, <1>6
<1>8. Input' = Output
  BY <1>3 DEF Input, Output
<1>9. ASSUME ~LastHop
      PROVE  NextPair \in Pairs /\ tx'.token0 = Token0(Input', Output')
  <2>1. NextPair # NoPair
    BY <1>1, HopEffect
  <2>2. tx.i + 2 + 2 = tx.i + 4
    BY <1>2, <1>5
  <2>3. Output' = tx.path[tx.i + 4]
    BY <1>3, <2>2 DEF Output
  <2>4. NextToken0(NextPair) = Token0(Output, tx.path[tx.i + 4]) /\ NextPair \in Pairs
    BY <1>1, <1>9, <2>1, HopPlace
  <2>5. QED
    BY <1>3, <1>8, <2>3, <2>4
<1>10. QED
  BY <1>1, <1>3, <1>4, <1>5, <1>6, <1>7, <1>8, <1>9, HopPlace

LEMMA HopIInv == ASSUME IInv, Hop PROVE IInv'
<1>1. /\ AmountOutput \in Nat \ {0} /\ NextPair \in Accounts
      /\ ledger' \in Ledgers /\ Conserved(ledger')
      /\ Moves(ledger, ledger', Output, tx.pair, NextPair, AmountOutput)
      /\ tx.pair \in Pairs /\ Output \in Tokens /\ Done + 1 \in 1..Hops
      /\ LastHop => Output = Last(tx.path) /\ NextPair = tx.recipient
  BY HopNext, HopEffect, HopPlace
<1>2. /\ Good(saved[1], saved[2]) /\ tx.amountIn \in Nat /\ tx.payer \in Parties
      /\ tx.recipient \in Accounts /\ tx.path \in Paths /\ Len(tx.path) >= 3
      /\ Last(tx.path) \in Tokens /\ PartiesInv
      /\ ledger \in Ledgers /\ reserves \in [Pairs -> [1..2 -> Nat]] /\ Covered(ledger, reserves)
  BY HopNext DEF IInv, RunInv, Good
<1>3. reserves' \in [Pairs -> [1..2 -> Nat]] /\ Covered(ledger', reserves')
  <2>1. PICK m \in Ledgers : m = ledger'
    BY <1>1
  <2>2. Moves(ledger, m, Output, tx.pair, NextPair, AmountOutput)
    BY <1>1, <2>1
  <2>3. PICK after : after = [reserves EXCEPT ![tx.pair] = Held(m, tx.pair)]
    OBVIOUS
  <2>4. after \in [Pairs -> [1..2 -> Nat]] /\ Covered(m, after)
    BY <1>1, <1>2, <2>2, <2>3, SwapCovered
  <2>5. reserves' = after
    BY <2>1, <2>3, HopNext
  <2>6. QED
    BY <2>1, <2>4, <2>5
<1>4. Good(ledger', reserves')
  BY <1>1, <1>3 DEF Good
<1>5. Good(saved[1], saved[2])'
  BY <1>2, HopNext DEF Good, Conserved, Covered
<1>6. Last(tx.path)' = Last(tx.path)
  BY HopNext DEF Last
<1>7. Done \in Nat /\ Hops \in Nat /\ pc' \in {"hop", "paid"}
  <2>1. Hops \in Nat
    BY <1>2, PathShape DEF Hops
  <2>2. Done \in 0..Hops
    BY HopNext DEF IInv, RunInv
  <2>3. QED
    BY <2>1, <2>2, HopNext
<1>8. Done' \in 0..Hops' /\ (pc' = "hop" => Done' < Hops') /\ (pc' = "paid" => Done' = Hops')
  BY <1>1, <1>7, HopNext
<1>9. RunInv'
  BY <1>2, <1>5, <1>6, <1>8, HopNext DEF RunInv
<1>10. PairInv'
  <2>1. SUFFICES ASSUME pc' = "hop"
                 PROVE  /\ tx'.pair \in Pairs /\ tx'.pair = PairAt(tx'.path, Done' + 1)
                        /\ tx'.token0 = Token0(Input', Output')
    BY DEF PairInv, PairAt, GetPair
  <2>2. Done' + 1 = Done + 2
    BY <1>7, HopNext
  <2>3. QED
    BY <2>1, <2>2, HopNext
<1>11. ASSUME NEW t \in Tokens, NEW x \in Parties,
              pc' = "hop" \/ t # Last(tx.path) \/ x # tx.recipient
       PROVE  ledger'.bal[t][x] = saved[1].bal[t][x] - Cost(t, x)
  <2>1. x \in Accounts /\ x # tx.pair /\ ledger.bal[t][x] \in Nat
    <3>1. x \in Accounts /\ x # tx.pair
      BY <1>1, PartyTypes
    <3>2. ledger.bal \in [Tokens -> [Accounts -> Nat]]
      BY <1>2 DEF Ledgers
    <3>3. QED
      BY <3>1, <3>2
  <2>2. ~(t = Output /\ x = NextPair)
    BY <1>1, <1>11, HopNext, PartyTypes
  <2>3. ledger'.bal[t][x] = ledger.bal[t][x]
    BY <1>1, <2>1, <2>2 DEF Moves
  <2>4. QED
    BY <1>2, <2>3, HopNext DEF PartiesInv
<1>12. \A t, x : Cost(t, x)' = Cost(t, x)
  BY HopNext DEF Cost, Paid
<1>13. PartiesInv'
  BY <1>2, <1>6, <1>11, <1>12, HopNext DEF PartiesInv
<1>14. TradeSettles'
  BY HopNext DEF TradeSettles
<1>15. QED
  BY <1>4, <1>7, <1>9, <1>10, <1>13, <1>14, HopNext DEF IInv, Good, Conserved, Covered

LEMMA ReturnIInv == ASSUME IInv, Return PROVE IInv'
<1>1. /\ pc = "paid" /\ UNCHANGED <<ledger, reserves, listed>> /\ pc' = "idle"
      /\ last' = [amountOut |-> AmountOutOf(ledger), path |-> tx.path, amountIn |-> tx.amountIn,
                  payer |-> tx.payer, recipient |-> tx.recipient,
                  ledger |-> saved[1], reserves |-> saved[2]]
  BY DEF Return, chain
<1>2. /\ tx.recipient \in Accounts /\ Last(tx.path) \in Tokens /\ PartiesInv
      /\ saved[1] \in Ledgers /\ ledger \in Ledgers /\ tx.amountIn \in Nat
  BY <1>1 DEF IInv, RunInv, Good
<1>3. /\ last'.amountOut = AmountOutOf(ledger) /\ last'.path = tx.path
      /\ last'.amountIn = tx.amountIn /\ last'.payer = tx.payer
      /\ last'.recipient = tx.recipient /\ last'.ledger = saved[1]
  BY <1>1
<1>4. ASSUME NEW t \in Tokens, NEW x \in Parties
      PROVE  ledger.bal[t][x] - saved[1].bal[t][x]
               = (IF t = Last(tx.path) /\ x = tx.recipient THEN AmountOutOf(ledger) ELSE 0)
                 - Cost(t, x)
  <2>1. x \in Accounts /\ This \in Accounts
    BY PartyTypes DEF Parties
  <2>2. ledger.bal[t][x] \in Nat /\ saved[1].bal[t][x] \in Nat
    BY <1>2, <2>1 DEF Ledgers
  <2>3. Cost(t, x) \in Nat
    <3>1. CASE t = tx.path[1]
      <4>1. saved[1].bal[t][This] \in Nat
        BY <1>2, <2>1 DEF Ledgers
      <4>2. QED
        BY <1>2, <3>1, <4>1 DEF Cost, Paid
    <3>2. CASE t # tx.path[1]
      BY <3>2 DEF Cost
    <3>3. QED
      BY <3>1, <3>2
  <2>4. CASE t = Last(tx.path) /\ x = tx.recipient
    <3>1. AmountOutOf(ledger) = ledger.bal[t][x] - (saved[1].bal[t][x] - Cost(t, x))
      BY <1>2, <2>4 DEF AmountOutOf, UniBalanceOf, PartiesInv
    <3>2. QED
      BY <2>2, <2>3, <2>4, <3>1
  <2>5. CASE ~(t = Last(tx.path) /\ x = tx.recipient)
    <3>1. ledger.bal[t][x] = saved[1].bal[t][x] - Cost(t, x)
      BY <1>2, <2>5 DEF PartiesInv
    <3>2. QED
      BY <2>2, <2>3, <2>5, <3>1
  <2>6. QED
    BY <2>4, <2>5
<1>5. TradeSettles'
  BY <1>1, <1>3, <1>4 DEF TradeSettles, Cost, Parties, Last, Paid
<1>6. QED
  BY <1>1, <1>5 DEF IInv, Good, Conserved, Covered

LEMMA RevertIInv == ASSUME IInv, Revert PROVE IInv'
<1>1. /\ pc # "idle" /\ ledger' = saved[1] /\ reserves' = saved[2] /\ listed' = listed
      /\ pc' = "idle" /\ last' = last
  BY DEF Revert
<1>2. Good(saved[1], saved[2]) /\ last = NoTrade
  BY <1>1 DEF IInv, RunInv
<1>3. Good(ledger', reserves')
  BY <1>1, <1>2
<1>4. listed' \in [Contracts -> Fees \cup {NotListed}]
  BY <1>1 DEF IInv
<1>5. QED
  BY <1>1, <1>2, <1>3, <1>4, BetweenTrades

-----------------------------------------------------------------------------
(* A trade handed to a router.                                             *)

LEMMA ByRouterIInv ==
  ASSUME IInv, NEW u \in Users, NEW a \in Amounts \cup {0, ContractBalance},
         NEW router \in Routers, NEW path \in TokenPaths,
         NEW recipient \in Recipients, NEW payer \in Payers,
         UniV2SwapExactInputByRouter(u, a, router, path, recipient, payer)
  PROVE  IInv'
<1>1. path[1] \in Tokens /\ Last(path) \in Tokens
  <2>1. path \in Seq(Tokens) /\ path # <<>>
    BY RouterAssumption
  <2>2. Len(path) \in 1..Len(path) /\ 1 \in 1..Len(path)
    BY <2>1
  <2>3. QED
    BY <2>1, <2>2 DEF Last
<1>2. a \in Nat /\ pc = "idle" /\ pc' = "idle" /\ UNCHANGED <<reserves, listed>>
  <2>1. a \in Nat
    BY RouterAssumption, TransferAssumption
  <2>2. pc = "idle" /\ pc' = "idle" /\ UNCHANGED <<reserves, listed>>
    BY DEF UniV2SwapExactInputByRouter
  <2>3. QED
    BY <2>1, <2>2
<1>3. PICK from \in PayerMap(payer, u) :
        \E paid \in InputPaid(from, path[1], This, a) :
          \E out \in RouterOuts(paid, router, path) :
            /\ ledger' \in RouterTrades(paid, router, path, a, RecipientMap(recipient, u), out)
            /\ last' = [amountOut |-> out, path |-> path, amountIn |-> a,
                        payer |-> from, recipient |-> RecipientMap(recipient, u),
                        ledger |-> ledger, reserves |-> <<>>]
  BY DEF UniV2SwapExactInputByRouter
<1>4. PICK to \in Accounts : to = RecipientMap(recipient, u)
  BY Maps
<1>paid. PICK paid \in InputPaid(from, path[1], This, a) :
         \E out \in RouterOuts(paid, router, path) :
           /\ ledger' \in RouterTrades(paid, router, path, a, to, out)
           /\ last' = [amountOut |-> out, path |-> path, amountIn |-> a,
                       payer |-> from, recipient |-> to,
                       ledger |-> ledger, reserves |-> <<>>]
  BY <1>3, <1>4
<1>5. PICK out \in RouterOuts(paid, router, path) :
        /\ ledger' \in RouterTrades(paid, router, path, a, to, out)
        /\ last' = [amountOut |-> out, path |-> path, amountIn |-> a,
                    payer |-> from, recipient |-> to,
                    ledger |-> ledger, reserves |-> <<>>]
  BY <1>paid
<1>6. a # 0
  BY <1>5 DEF RouterTrades
<1>7. PICK m \in Transfer(paid, path[1], This, router, a) :
        ledger' \in Transfer(m, Last(path), router, to, out)
  BY <1>5, <1>6 DEF RouterTrades
<1>8. /\ from \in Parties /\ from \in Accounts \ Pairs /\ to \in Accounts
      /\ This \in Accounts \ Pairs /\ router \in Accounts \ Pairs /\ router \notin Parties
  BY <1>4, Maps, PartyTypes, PartiesApart DEF Accounts, Parties
<1>9. /\ ledger \in Ledgers /\ Conserved(ledger) /\ Covered(ledger, reserves)
      /\ reserves \in [Pairs -> [1..2 -> Nat]]
  BY DEF IInv, Good
<1>10. /\ paid \in Ledgers /\ Conserved(paid)
       /\ Moves(ledger, paid, path[1], from, This, Paid(ledger, path, a))
       /\ Paid(ledger, path, a) \in Nat
  BY <1>1, <1>2, <1>8, <1>9, InputEffect
<1>11. /\ m \in Ledgers /\ Conserved(m) /\ a <= paid.bal[path[1]][This]
       /\ Moves(paid, m, path[1], This, router, a)
  BY <1>1, <1>2, <1>7, <1>8, <1>10, TransferEffect
<1>12. out \in Nat
  <2>1. paid.bal \in [Tokens -> [Accounts -> Nat]]
    BY <1>10 DEF Ledgers
  <2>2. UniBalanceOf(paid, Last(path), router) \in Nat
    BY <1>1, <1>8, <2>1 DEF UniBalanceOf
  <2>3. QED
    BY <2>2 DEF RouterOuts
<1>13. /\ ledger' \in Ledgers /\ Conserved(ledger')
       /\ Moves(m, ledger', Last(path), router, to, out)
  BY <1>1, <1>7, <1>8, <1>11, <1>12, TransferEffect
<1>14. Paid(ledger, path, a) = a
  <2>1. a < ContractBalance
    <3>1. /\ paid.bal[path[1]][This] \in Nat /\ ContractBalance \in Nat
          /\ paid.bal[path[1]][This] < ContractBalance
      BY <1>1, <1>8, <1>10, BalanceFits, TransferAssumption
    <3>2. QED
      BY <1>2, <1>11, <3>1
  <2>2. QED
    BY <1>2, <2>1 DEF Paid
<1>15. Covered(ledger', reserves)
  <2>1. Covered(paid, reserves)
    BY <1>1, <1>8, <1>9, <1>10, StillCovered
  <2>2. Covered(m, reserves)
    BY <1>1, <1>2, <1>8, <1>9, <1>10, <1>11, <2>1, StillCovered
  <2>3. QED
    BY <1>1, <1>8, <1>9, <1>11, <1>12, <1>13, <2>2, StillCovered
<1>16. ASSUME NEW t \in Tokens, NEW x \in Parties
       PROVE  ledger'.bal[t][x] - ledger.bal[t][x]
                = (IF t = Last(path) /\ x = to THEN out ELSE 0)
                  - (IF t = path[1] /\ x = from THEN a ELSE 0)
  <2>1. x \in Accounts /\ x # router
    BY <1>8, PartyTypes
  <2>2. PICK n0 \in Nat, n1 \in Nat, n2 \in Nat, n3 \in Nat :
          /\ n0 = ledger.bal[t][x] /\ n1 = paid.bal[t][x]
          /\ n2 = m.bal[t][x] /\ n3 = ledger'.bal[t][x]
    BY <1>9, <1>10, <1>11, <1>13, <2>1 DEF Ledgers
  <2>3. PICK through \in Nat, taken \in Nat, got \in Nat :
          /\ through = (IF t = path[1] /\ x = This THEN a ELSE 0)
          /\ taken = (IF t = path[1] /\ x = from THEN a ELSE 0)
          /\ got = (IF t = Last(path) /\ x = to THEN out ELSE 0)
    BY <1>2, <1>12
  <2>4. n1 = n0 + through - taken
    BY <1>10, <1>14, <2>1, <2>2, <2>3 DEF Moves
  <2>5. n2 = n1 - through
    BY <1>11, <2>1, <2>2, <2>3 DEF Moves
  <2>6. n3 = n2 + got
    BY <1>13, <2>1, <2>2, <2>3 DEF Moves
  <2>7. n3 - n0 = got - taken
    BY <2>4, <2>5, <2>6
  <2>8. QED
    BY <2>2, <2>3, <2>7
<1>17. TradeSettles'
  <2>1. /\ last'.amountOut = out /\ last'.path = path /\ last'.amountIn = a
        /\ last'.payer = from /\ last'.recipient = to /\ last'.ledger = ledger
    BY <1>5
  <2>2. QED
    BY <1>14, <1>16, <2>1 DEF TradeSettles, Parties
<1>18. Good(ledger', reserves')
  BY <1>2, <1>9, <1>13, <1>15 DEF Good
<1>19. QED
  BY <1>2, <1>17, <1>18 DEF IInv, Good, Conserved, Covered

-----------------------------------------------------------------------------
LEMMA NextIInv == ASSUME IInv, [Next]_vars PROVE IInv'
<1>1. CASE UNCHANGED vars
  <2>1. UNCHANGED <<ledger, reserves, listed, approved, tx, pc, saved, last>>
    BY <1>1 DEF vars, chain
  <2>2. RunInv' = RunInv /\ PairInv' = PairInv /\ PartiesInv' = PartiesInv
    BY <2>1 DEF RunInv, PairInv, PartiesInv, TxShape, Done, Hops, Good, Conserved, Covered,
                Cost, Input, Output
  <2>3. TradeSettles' = TradeSettles
    BY <2>1 DEF TradeSettles
  <2>4. QED
    BY <2>1, <2>2, <2>3 DEF IInv, Good, Conserved, Covered
<1>2. CASE \E u \in Users : Trade(u)
  BY <1>2, StartIInv, ByRouterIInv DEF Trade
<1>3. CASE Others
  BY <1>3, PermitIInv, SendIInv, SyncIInv, ListIInv DEF Others
<1>4. CASE Step
  BY <1>4, HopIInv, ReturnIInv, RevertIInv DEF Step
<1>5. QED
  BY <1>1, <1>2, <1>3, <1>4 DEF Next

THEOREM IInvCorrect == Spec => []IInv
<1>1. Init => IInv
  BY InitIInv
<1>2. IInv /\ [Next]_vars => IInv'
  BY NextIInv
<1>3. QED
  BY <1>1, <1>2, PTL DEF Spec

(* A trade, along pairs or by a router, takes the amount from its payer,   *)
(* gives amountOut to its recipient, and no user and not the contract has  *)
(* more or less otherwise.                                                 *)
THEOREM TradeSettlesCorrect == Spec => []TradeSettles
<1>1. IInv => TradeSettles
  BY DEF IInv
<1>2. QED
  BY <1>1, IInvCorrect, PTL

-----------------------------------------------------------------------------
(* Quotes: what comes out of hop k for what came out of the one before, on *)
(* a list of factories, and all of a path.                                 *)
QuoteStep(list, l, res, path, amount, k) ==
  IF \/ amount = NoAmount \/ (k > 1 /\ amount = 0)
     \/ PairAt(path, k) = NoPair \/ list[path[2 * k]] = NotListed
  THEN NoAmount
  ELSE LET p == PairAt(path, k)
           out == GetAmountOut(Reserve(res, p, path[2 * k - 1]), Reserve(res, p, path[2 * k + 1]),
                               amount + Surplus(l, res, p, path[2 * k - 1]),
                               IF list[path[2 * k]] = NotListed THEN 0 ELSE list[path[2 * k]])
       IN IF /\ out # NoAmount
             /\ InReserve(l.bal[path[2 * k - 1]][p] + amount)
             /\ InReserve(l.bal[path[2 * k + 1]][p] - out)
          THEN out ELSE NoAmount

Quotes(list, l, res, path, amountIn) ==
  LET out[k \in 0..HopCount(path)] ==
        IF k = 0 THEN Paid(l, path, amountIn)
        ELSE QuoteStep(list, l, res, path, out[k - 1], k)
  IN out

(* The quote of the router is the last of them.                            *)
LEMMA QuotedIsLast ==
  ASSUME NEW l, NEW res, NEW path, NEW a
  PROVE  Quoted(l, res, path, a) = Quotes(listed, l, res, path, a)[HopCount(path)]
BY DEF Quoted, Quotes, QuoteStep, QuotedHop, GetFee

LEMMA QuotesDefined ==
  ASSUME NEW list, NEW l, NEW res, NEW path, NEW a, HopCount(path) \in Nat
  PROVE  /\ Quotes(list, l, res, path, a)[0] = Paid(l, path, a)
         /\ \A k \in 1..HopCount(path) :
              Quotes(list, l, res, path, a)[k]
                = QuoteStep(list, l, res, path, Quotes(list, l, res, path, a)[k - 1], k)
<1> DEFINE n == HopCount(path)
           Value(q, k) == IF k = 0 THEN Paid(l, path, a)
                          ELSE QuoteStep(list, l, res, path, q[k - 1], k)
           UpTo(q, m) == \A k \in 0..n : k <= m => q[k] = Value(q, k)
           T == {m \in Nat : ~\E q : UpTo(q, m)}
<1>1. 0 \notin T
  <2>1. PICK q : q = [k \in 0..n |-> Paid(l, path, a)]
    OBVIOUS
  <2>2. ASSUME NEW k \in 0..n, k <= 0 PROVE q[k] = Value(q, k)
    <3>1. k = 0
      BY <2>2
    <3>2. QED
      BY <2>1, <3>1
  <2>3. UpTo(q, 0)
    BY <2>2
  <2>4. QED
    BY <2>3
<1>2. T = {}
  <2>1. SUFFICES ASSUME T # {} PROVE FALSE
    OBVIOUS
  <2>2. PICK m \in T : \A j \in T : m <= j
    BY <2>1, Least
  <2>3. m \in Nat /\ m # 0 /\ m - 1 \in Nat /\ m - 1 \notin T
    <3>1. m \in Nat /\ m # 0
      BY <1>1, <2>2
    <3> HIDE DEF T
    <3>2. QED
      BY <2>2, <3>1
  <2>4. PICK q : UpTo(q, m - 1)
    BY <2>3
  <2> HIDE DEF Value
  <2>5. PICK r : r = [k \in 0..n |-> IF k <= m - 1 THEN q[k] ELSE Value(q, k)]
    OBVIOUS
  <2>6. ASSUME NEW k \in 0..n, k <= m PROVE r[k] = Value(r, k)
    <3>1. r[k] = Value(q, k)
      BY <2>4, <2>5
    <3>2. CASE k = 0
      BY <3>1, <3>2 DEF Value
    <3>3. CASE k # 0
      <4>1. k - 1 \in 0..n /\ k - 1 <= m - 1
        BY <2>3, <2>6, <3>3
      <4>2. r[k - 1] = q[k - 1]
        BY <2>5, <4>1
      <4>3. QED
        BY <3>1, <3>3, <4>2 DEF Value
    <3>4. QED
      BY <3>2, <3>3
  <2>7. m \notin T
    BY <2>6
  <2>8. QED
    BY <2>2, <2>7
<1>3. PICK q : UpTo(q, n)
  BY <1>2
<1> DEFINE r == [k \in 0..n |-> q[k]]
<1> HIDE DEF Value
<1>4. ASSUME NEW k \in 0..n PROVE r[k] = Value(r, k)
  <2>1. q[k] = Value(q, k)
    BY <1>3, <1>4
  <2>2. CASE k = 0
    BY <2>1, <2>2 DEF Value
  <2>3. CASE k # 0
    <3>1. k - 1 \in 0..n
      BY <2>3
    <3>2. r[k - 1] = q[k - 1]
      BY <3>1
    <3>3. QED
      BY <2>1, <2>3, <3>2 DEF Value
  <2>4. QED
    BY <2>2, <2>3
<1>5. r = [k \in 0..n |-> Value(r, k)]
  BY <1>4
<1> DEFINE c == Quotes(list, l, res, path, a)
<1>6. c = [k \in 0..n |-> Value(c, k)]
  BY <1>5 DEF Quotes, Value
<1> HIDE DEF c
<1>7. \A k \in 0..n : c[k] = Value(c, k)
  BY <1>6
<1>8. QED
  BY <1>7 DEF Value, c

(* Once there is no quote there is none.                                   *)
LEMMA NoneAfter ==
  ASSUME NEW list, NEW l, NEW res, NEW path, NEW a, HopCount(path) \in Nat,
         NEW k \in 1..HopCount(path), Quotes(list, l, res, path, a)[k] = NoAmount
  PROVE  Quotes(list, l, res, path, a)[HopCount(path)] = NoAmount
<1> DEFINE q == Quotes(list, l, res, path, a)
           T == {j \in Nat : j \in k..HopCount(path) /\ q[j] # NoAmount}
<1>1. \A j \in 1..HopCount(path) : q[j] = QuoteStep(list, l, res, path, q[j - 1], j)
  BY QuotesDefined
<1> HIDE DEF q
<1>2. T = {}
  <2>1. SUFFICES ASSUME T # {} PROVE FALSE
    OBVIOUS
  <2>2. PICK j \in T : \A i \in T : j <= i
    BY <2>1, Least
  <2>3. j # k
    BY <2>2 DEF q
  <2>4. j - 1 \in Nat /\ j - 1 \in k..HopCount(path) /\ j \in 1..HopCount(path) /\ j - 1 \notin T
    BY <2>2, <2>3
  <2>5. q[j - 1] = NoAmount
    BY <2>4
  <2>6. q[j] = NoAmount
    BY <1>1, <2>4, <2>5 DEF QuoteStep
  <2>7. QED
    BY <2>2, <2>6
<1>3. HopCount(path) \in k..HopCount(path)
  OBVIOUS
<1>4. QED
  BY <1>2, <1>3 DEF q

(* What the trade under way was quoted after k hops.                       *)
Quote(k) == Quotes(listed, saved[1], saved[2], tx.path, tx.amountIn)[k]

(* The pairs of the hops after n have the reserves of res0 and hold what   *)
(* they hold in l0, and the next one what the last hop gave as well.       *)
AheadOf(n, hops, path, amount, l, res, l0, res0) ==
  \A j \in (n + 1)..hops : PairAt(path, j) \in Pairs =>
    /\ res[PairAt(path, j)] = res0[PairAt(path, j)]
    /\ \A t \in Tokens :
         l.bal[t][PairAt(path, j)]
           = l0.bal[t][PairAt(path, j)]
             + (IF j = n + 1 /\ t = path[2 * j - 1] THEN amount ELSE 0)

Ahead == AheadOf(Done, Hops, tx.path, Quote(Done), ledger, reserves, saved[1], saved[2])

(* Until the last hop the recipient has what it had when it was noted, and *)
(* the output of the last hop is the quote.                                *)
QuoteInv ==
  (pc # "idle" /\ Straight(tx.path, tx.recipient)) =>
    /\ Quote(Done) \in Nat /\ (Done > 0 => Quote(Done) > 0)
    /\ Ahead
    /\ pc = "hop" => tx.balanceBefore = ledger.bal[Last(tx.path)][tx.recipient]
    /\ pc = "paid" => AmountOutOf(ledger) = Quote(Hops)

(* The pair can keep in reserve what it holds after the hop.               *)
HasRoom ==
  InReserve(ledger.bal[Input][tx.pair]) /\ InReserve(ledger.bal[Output][tx.pair] - AmountOutput)

(* Each hop gives what was quoted for it, if its pair has room for it.     *)
LEMMA HopIsQuoted ==
  ASSUME IInv, QuoteInv, pc = "hop", Straight(tx.path, tx.recipient)
  PROVE  Quote(Done + 1) = IF AmountOutput # NoAmount /\ HasRoom THEN AmountOutput ELSE NoAmount
<1>1. /\ Done + 1 \in 1..Hops /\ Input \in Tokens /\ Output \in Tokens /\ tx.pair \in Pairs
      /\ Input = tx.path[2 * (Done + 1) - 1] /\ Output = tx.path[2 * (Done + 1) + 1]
      /\ tx.path[tx.i + 1] = tx.path[2 * (Done + 1)]
      /\ tx.pair = PairAt(tx.path, Done + 1)
  BY HopPlace DEF IInv, PairInv
<1>2. Hops \in Nat /\ Done \in 0..Hops
  BY PathShape DEF Hops, IInv, RunInv
<1>3. PICK d \in Nat : d = Done
  <2>1. Done \in Nat
    BY <1>2
  <2> HIDE DEF Done
  <2>2. QED
    BY <2>1, Zenon
<1>4. d + 1 \in (d + 1)..Hops /\ d + 1 - 1 = d
  BY <1>1, <1>2, <1>3
<1>5. /\ Quote(d) \in Nat /\ (d > 0 => Quote(d) > 0)
      /\ reserves[tx.pair] = saved[2][tx.pair]
      /\ ledger.bal[Input][tx.pair] = saved[1].bal[Input][tx.pair] + Quote(d)
      /\ ledger.bal[Output][tx.pair] = saved[1].bal[Output][tx.pair]
  <2>1. Quote(d) \in Nat /\ (d > 0 => Quote(d) > 0) /\ Ahead
    BY <1>3 DEF QuoteInv
  <2>2. /\ reserves[tx.pair] = saved[2][tx.pair]
        /\ ledger.bal[Input][tx.pair] = saved[1].bal[Input][tx.pair] + Quote(d)
        /\ ledger.bal[Output][tx.pair]
             = saved[1].bal[Output][tx.pair] + (IF Output = Input THEN Quote(d) ELSE 0)
    BY <1>1, <1>3, <1>4, <2>1 DEF Ahead, AheadOf
  <2>3. Output # Input /\ saved[1].bal[Output][tx.pair] \in Nat
    <3>1. saved[1].bal \in [Tokens -> [Accounts -> Nat]] /\ tx.pair \in Accounts
      BY <1>1 DEF IInv, RunInv, Good, Ledgers, Accounts
    <3>2. QED
      BY <1>1, <3>1, HopPlace
  <2>4. QED
    BY <2>1, <2>2, <2>3
<1>6. AmountInput = Quote(d) + Surplus(saved[1], saved[2], tx.pair, Input)
  <2>1. PICK n \in Nat, n1 \in Nat, r1 \in Nat :
          /\ n = Quote(d) /\ n1 = saved[1].bal[Input][tx.pair]
          /\ r1 = Reserve(saved[2], tx.pair, Input)
    <3>1. saved[1].bal \in [Tokens -> [Accounts -> Nat]] /\ tx.pair \in Accounts
      BY <1>1 DEF IInv, RunInv, Good, Ledgers, Accounts
    <3>2. saved[2] \in [Pairs -> [1..2 -> Nat]]
      BY DEF IInv, RunInv, Good
    <3>3. Reserve(saved[2], tx.pair, Input) \in Nat
      BY <1>1, <3>2 DEF Reserve
    <3>4. QED
      BY <1>1, <1>5, <3>1, <3>3
  <2>2. Reserve(reserves, tx.pair, Input) = r1
    BY <1>5, <2>1 DEF Reserve
  <2>3. AmountInput = n1 + n - r1
    BY <1>5, <2>1, <2>2, HopAmounts DEF Surplus
  <2>4. Surplus(saved[1], saved[2], tx.pair, Input) = n1 - r1
    BY <2>1 DEF Surplus
  <2>5. QED
    BY <2>1, <2>3, <2>4
<1>7. /\ ReserveInput = Reserve(saved[2], tx.pair, Input)
      /\ ReserveOutput = Reserve(saved[2], tx.pair, Output)
  BY <1>5, HopAmounts DEF Reserve
<1>8. Quote(d + 1)
        = QuoteStep(listed, saved[1], saved[2], tx.path, Quote(d), d + 1)
  <2>1. HopCount(tx.path) \in Nat /\ d + 1 \in 1..HopCount(tx.path)
    BY <1>1, <1>2, <1>3 DEF Hops
  <2>2. QED
    BY <1>4, <2>1, QuotesDefined DEF Quote
<1>9. tx.pair # NoPair /\ Quote(d) # NoAmount /\ ~(d + 1 > 1 /\ Quote(d) = 0)
  <2>1. tx.pair # NoPair
    BY <1>1, PartiesApart DEF Accounts
  <2>2. NoAmount \notin Nat
    BY QuoteAssumption
  <2>3. QED
    BY <1>5, <2>1, <2>2
<1>10. CASE listed[tx.path[tx.i + 1]] = NotListed
  BY <1>1, <1>3, <1>8, <1>9, <1>10 DEF QuoteStep, AmountOutput, ContractIsAllowed
<1>11. CASE listed[tx.path[tx.i + 1]] # NotListed
  BY <1>1, <1>3, <1>5, <1>6, <1>7, <1>8, <1>9, <1>11
     DEF QuoteStep, AmountOutput, ContractIsAllowed, GetFee, HasRoom
<1>12. QED
  BY <1>10, <1>11

LEMMA StartQuoteInv ==
  ASSUME IInv, NEW u \in Users, NEW a \in Amounts \cup {0, ContractBalance}, NEW path \in Paths,
         NEW recipient \in Recipients, NEW payer \in Payers,
         UniV2SwapExactInput(u, a, path, recipient, payer)
  PROVE  QuoteInv'
<1>1. PICK from \in Parties, to \in Accounts :
           /\ PairAt(path, 1) \in Pairs /\ a \in Nat /\ path[1] \in Tokens
           /\ Len(path) >= 3 /\ Last(path) \in Tokens
           /\ tx' = [path |-> path, amountIn |-> a, payer |-> from, recipient |-> to,
                     i |-> 1, pair |-> PairAt(path, 1), token0 |-> Token0(path[1], path[3]),
                     balanceBefore |-> ledger'.bal[Last(path)][to]]
           /\ ledger' \in Ledgers /\ Conserved(ledger')
           /\ Paid(ledger, path, a) \in Nat
           /\ Moves(ledger, ledger', path[1], from, PairAt(path, 1), Paid(ledger, path, a))
           /\ pc' = "hop" /\ saved' = <<ledger, reserves>> /\ last' = NoTrade
           /\ UNCHANGED <<reserves, listed>>
  BY StartEffect
<1>2. /\ tx'.path = path /\ tx'.amountIn = a /\ tx'.i = 1
      /\ saved'[1] = ledger /\ saved'[2] = reserves
  BY <1>1
<1>3. HopCount(path) \in Nat \ {0}
  BY <1>1, PathShape
<1>4. Done' = 0 /\ Hops' = HopCount(path)
  BY <1>2 DEF Done, Hops
<1>5. Quote(0)' = Paid(ledger, path, a)
  BY <1>2, <1>3, QuotesDefined DEF Quote
<1>6. SUFFICES ASSUME Distinct(path)
               PROVE  Quote(Done)' \in Nat /\ ~(Done' > 0) /\ Ahead'
  BY <1>1, <1>2 DEF QuoteInv, Straight, Distinct, PairAt, GetPair, HopCount, Last
<1>7. Quote(Done)' = Paid(ledger, path, a)
  BY <1>4, <1>5 DEF Quote
<1>8. ASSUME NEW j \in 1..HopCount(path), PairAt(path, j) \in Pairs, NEW t \in Tokens
      PROVE  ledger'.bal[t][PairAt(path, j)]
               = ledger.bal[t][PairAt(path, j)]
                 + (IF j = 0 + 1 /\ t = path[2 * j - 1] THEN Paid(ledger, path, a) ELSE 0)
  <2>1. PICK p \in Pairs : p = PairAt(path, j)
    BY <1>8
  <2>2. p \in Accounts /\ p # from
    BY PartyTypes, <2>1 DEF Accounts
  <2>3. ledger.bal[t][p] \in Nat
    BY <2>2 DEF IInv, Good, Ledgers
  <2>4. ledger'.bal[t][p]
          = ledger.bal[t][p] + (IF t = path[1] /\ p = PairAt(path, 1)
                                THEN Paid(ledger, path, a) ELSE 0)
    BY <1>1, <2>2, <2>3 DEF Moves
  <2>5. p = PairAt(path, 1) <=> j = 1
    BY <1>3, <1>6, <2>1 DEF Distinct
  <2>6. j = 1 => 2 * j - 1 = 1
    OBVIOUS
  <2>7. QED
    BY <2>1, <2>3, <2>4, <2>5, <2>6
<1>9. Ahead'
  <2>1. SUFFICES ASSUME NEW j \in 1..HopCount(path), PairAt(path, j) \in Pairs
                 PROVE  /\ reserves'[PairAt(path, j)] = reserves[PairAt(path, j)]
                        /\ \A t \in Tokens :
                             ledger'.bal[t][PairAt(path, j)]
                               = ledger.bal[t][PairAt(path, j)]
                                 + (IF j = 0 + 1 /\ t = path[2 * j - 1]
                                    THEN Quote(Done)' ELSE 0)
    <3>1. Ahead' = AheadOf(Done', Hops', tx'.path, Quote(Done)', ledger', reserves',
                           saved'[1], saved'[2])
      BY DEF Ahead, AheadOf
    <3>2. QED
      BY <1>2, <1>4, <3>1 DEF AheadOf
  <2>2. QED
    BY <1>1, <1>7, <1>8, <2>1
<1>10. QED
  BY <1>1, <1>4, <1>7, <1>9

(* A straight trade does not lead a hop back to its pair. *)
LEMMA NoWayBack ==
  ASSUME IInv, pc = "hop", Straight(tx.path, tx.recipient)
  PROVE  /\ NextPair # tx.pair
         /\ NextPair # NoPair => /\ NextPair # PairTokens[tx.pair][1]
                                 /\ NextPair # PairTokens[tx.pair][2]
<1>1. PICK d \in Nat, h \in Nat : d = Done /\ h = Hops
  <2>1. Done \in Nat /\ Hops \in Nat
    BY PathShape DEF IInv, RunInv, Hops
  <2> HIDE DEF Done, Hops
  <2>2. QED
    BY <2>1, Zenon
<1>2. /\ tx.pair \in Pairs /\ tx.pair = PairAt(tx.path, d + 1) /\ d + 1 \in 1..h
      /\ h = HopCount(tx.path) /\ Input \in Tokens /\ Output \in Tokens
      /\ {PairTokens[tx.pair][1], PairTokens[tx.pair][2]} = {Input, Output}
      /\ Len(tx.path) >= 3 /\ tx.i = 2 * d + 1 /\ Last(tx.path) \in Tokens /\ tx.path \in Paths
  <2>1. {PairTokens[tx.pair][1], PairTokens[tx.pair][2]} = {Input, Output}
    BY HopPlace
  <2>2. QED
    BY <1>1, <2>1, HopPlace DEF IInv, RunInv, PairInv, Hops
<1>3. CASE LastHop
  <2>1. NextPair = tx.recipient /\ d + 1 = h /\ Output = Last(tx.path)
    BY <1>1, <1>3, HopPlace
  <2>2. Len(tx.path) - 2 = tx.i
    <3>1. Len(tx.path) = 2 * h + 1
      BY <1>2, PathShape
    <3>2. QED
      BY <1>2, <2>1, <3>1
  <2>3. tx.recipient # Input /\ tx.recipient # Output /\ tx.recipient # tx.pair
    BY <1>2, <2>1, <2>2 DEF Straight, Input
  <2>4. QED
    BY <1>2, <2>1, <2>3
<1>4. CASE ~LastHop
  <2>1. /\ d + 2 \in 1..h /\ NextPair = PairAt(tx.path, d + 2)
        /\ NextPair # NoPair => NextPair \in Pairs
    BY <1>1, <1>4, HopPlace
  <2>2. NextPair # tx.pair
    <3>1. d + 1 # d + 2
      OBVIOUS
    <3>2. QED
      BY <1>2, <2>1, <3>1 DEF Straight, Distinct
  <2>3. Pairs \cap Tokens = {}
    BY PartiesApart
  <2>4. QED
    BY <1>2, <2>1, <2>2, <2>3
<1>5. QED
  BY <1>3, <1>4

(* A pair that swaps has room for what it holds then. *)
LEMMA SwapHasRoom ==
  ASSUME IInv, pc = "hop", NEW l \in Swapped, NextPair # tx.pair
  PROVE  HasRoom
<1>1. /\ Input \in Tokens /\ Output \in Tokens /\ Input # Output /\ tx.pair \in Pairs
      /\ (PairTokens[tx.pair] = <<Input, Output>>) \/ (PairTokens[tx.pair] = <<Output, Input>>)
  BY HopPlace
<1>2. \A k \in 1..2 : InReserve(l.bal[PairTokens[tx.pair][k]][tx.pair])
  <2>1. PairAccepts(tx.pair, NextPair, AmountsOut, Held(l, tx.pair))
    BY DEF Swapped
  <2>2. \A k \in 1..2 : InReserve(Held(l, tx.pair)[k])
    BY <2>1 DEF PairAccepts
  <2>3. QED
    BY <2>2 DEF Held
<1>3. InReserve(l.bal[Input][tx.pair]) /\ InReserve(l.bal[Output][tx.pair])
  <2>1. 1 \in 1..2 /\ 2 \in 1..2
    OBVIOUS
  <2>2. QED
    BY <1>1, <1>2, <2>1
<1>4. /\ AmountOutput \in Nat /\ NextPair \in Accounts /\ tx.pair \in Accounts
      /\ Moves(ledger, l, Output, tx.pair, NextPair, AmountOutput)
  BY <1>1, HopEffect DEF Accounts
<1>5. ledger.bal[Input][tx.pair] \in Nat /\ ledger.bal[Output][tx.pair] \in Nat
  BY <1>1, <1>4 DEF IInv, Good, Ledgers
<1>6. /\ l.bal[Input][tx.pair] = ledger.bal[Input][tx.pair]
      /\ l.bal[Output][tx.pair] = ledger.bal[Output][tx.pair] - AmountOutput
  BY <1>1, <1>4, <1>5 DEF Moves
<1>7. QED
  BY <1>3, <1>6 DEF HasRoom

LEMMA HopQuoteInv == ASSUME IInv, QuoteInv, Hop PROVE QuoteInv'
<1>1. SUFFICES ASSUME Straight(tx.path, tx.recipient)
               PROVE  /\ Quote(Done)' \in Nat /\ (Done' > 0 => Quote(Done)' > 0)
                      /\ Ahead'
                      /\ pc' = "hop" =>
                           tx.balanceBefore = ledger'.bal[Last(tx.path)][tx.recipient]
                      /\ pc' = "paid" => (AmountOutOf(ledger) = Quote(Hops))'
  BY HopNext DEF QuoteInv, Straight, Distinct, PairAt, GetPair, HopCount, Last
<1>noted. tx.balanceBefore = ledger.bal[Last(tx.path)][tx.recipient]
  BY <1>1, HopNext DEF QuoteInv
<1>2. \A k : Quote(k)' = Quote(k)
  BY HopNext DEF Quote
<1>3. AmountOutput = Quote(Done + 1) /\ AmountOutput \in Nat \ {0}
  <2>1. AmountOutput \in Nat \ {0} /\ AmountOutput # NoAmount /\ NextPair # tx.pair
    BY <1>1, HopNext, HopEffect, NoWayBack
  <2>2. HasRoom
    BY <2>1, HopNext, SwapHasRoom
  <2>3. QED
    BY <1>1, <2>1, <2>2, HopNext, HopIsQuoted
<1>4. Quote(Done)' = AmountOutput
  <2>1. Quote(Done)' = Quotes(listed', saved'[1], saved'[2], tx'.path, tx'.amountIn)[Done']
    BY DEF Quote
  <2>2. Quote(Done)' = Quote(Done + 1)
    BY <2>1, HopNext DEF Quote
  <2>3. QED
    BY <1>3, <2>2
<1>5. /\ tx.pair \in Pairs /\ tx.pair = PairAt(tx.path, Done + 1)
      /\ Output = tx.path[2 * (Done + 1) + 1] /\ Output \in Tokens
      /\ ledger' \in Ledgers
      /\ Moves(ledger, ledger', Output, tx.pair, NextPair, AmountOutput)
      /\ ledger \in Ledgers /\ saved[1] \in Ledgers
      /\ reserves \in [Pairs -> [1..2 -> Nat]]
  BY HopNext, HopEffect, HopPlace DEF IInv, RunInv, PairInv, Good
<1>6. PICK d \in Nat, h \in Nat : d = Done /\ h = Hops /\ d < h
  <2>1. Done \in Nat /\ Hops \in Nat /\ Done < Hops
    BY HopNext, PathShape DEF IInv, RunInv, Hops
  <2> HIDE DEF Done, Hops
  <2>2. QED
    BY <2>1, Zenon
<1>7. Done' = d + 1 /\ Hops' = h /\ tx'.path = tx.path /\ saved' = saved
  BY <1>6, HopNext
<1>8. ASSUME NEW j \in (d + 2)..h, PairAt(tx.path, j) \in Pairs
      PROVE  /\ reserves'[PairAt(tx.path, j)] = saved[2][PairAt(tx.path, j)]
             /\ \A t \in Tokens :
                  ledger'.bal[t][PairAt(tx.path, j)]
                    = saved[1].bal[t][PairAt(tx.path, j)]
                      + (IF j = d + 2 /\ t = tx.path[2 * j - 1] THEN AmountOutput ELSE 0)
  <2>1. PICK p \in Pairs : p = PairAt(tx.path, j)
    BY <1>8
  <2>2. /\ j \in (d + 1)..h /\ j # d + 1 /\ j \in 1..h /\ d + 1 \in 1..h /\ d + 2 \in 1..h
        /\ d + 1 + 1 = d + 2
    BY <1>6
  <2>3. \A i, k \in 1..h : PairAt(tx.path, i) = PairAt(tx.path, k) => i = k
    BY <1>1, <1>6 DEF Straight, Distinct, Hops
  <2>4. p # tx.pair
    BY <1>5, <1>6, <2>1, <2>2, <2>3
  <2>5. /\ reserves[p] = saved[2][p]
        /\ \A t \in Tokens : ledger.bal[t][p] = saved[1].bal[t][p] + 0
    BY <1>1, <1>6, <2>1, <2>2, HopNext DEF QuoteInv, Ahead, AheadOf
  <2>6. reserves'[p] = reserves[p]
    BY <1>5, <2>4, HopNext
  <2>7. p = NextPair <=> j = d + 2
    <3>1. CASE LastHop
      <4>1. d + 1 = h
        BY <1>6, <3>1, HopNext
      <4>2. QED
        BY <1>6, <4>1
    <3>2. CASE ~LastHop
      <4>1. NextPair = PairAt(tx.path, d + 2)
        BY <1>6, <3>2, HopNext
      <4>2. QED
        BY <2>1, <2>2, <2>3, <4>1
    <3>3. QED
      BY <3>1, <3>2
  <2>8. ASSUME NEW t \in Tokens
        PROVE  ledger'.bal[t][p]
                 = saved[1].bal[t][p]
                   + (IF j = d + 2 /\ t = tx.path[2 * j - 1] THEN AmountOutput ELSE 0)
    <3>1. p \in Accounts
      BY DEF Accounts
    <3>2. ledger.bal[t][p] \in Nat /\ saved[1].bal[t][p] \in Nat
      BY <1>5, <3>1 DEF Ledgers
    <3>3. ledger'.bal[t][p]
            = ledger.bal[t][p] + (IF t = Output /\ p = NextPair THEN AmountOutput ELSE 0)
      BY <1>3, <1>5, <2>4, <3>1, <3>2 DEF Moves
    <3>4. j = d + 2 => tx.path[2 * j - 1] = Output
      <4>1. 2 * (d + 2) - 1 = 2 * (d + 1) + 1
        BY <1>6
      <4>2. QED
        BY <1>5, <1>6, <4>1
    <3>5. QED
      BY <2>5, <2>7, <3>2, <3>3, <3>4
  <2>9. QED
    BY <2>1, <2>5, <2>6, <2>8
<1>9. Ahead'
  <2>1. d + 1 + 1 = d + 2
    BY <1>6
  <2>2. SUFFICES ASSUME NEW j \in (d + 2)..h, PairAt(tx.path, j) \in Pairs
                 PROVE  /\ reserves'[PairAt(tx.path, j)] = saved[2][PairAt(tx.path, j)]
                        /\ \A t \in Tokens :
                             ledger'.bal[t][PairAt(tx.path, j)]
                               = saved[1].bal[t][PairAt(tx.path, j)]
                                 + (IF j = d + 2 /\ t = tx.path[2 * j - 1]
                                    THEN Quote(Done)' ELSE 0)
    <3>1. Ahead' = AheadOf(Done', Hops', tx'.path, Quote(Done)', ledger', reserves',
                           saved'[1], saved'[2])
      BY DEF Ahead, AheadOf
    <3>2. QED
      BY <1>7, <2>1, <3>1 DEF AheadOf
  <2>3. QED
    BY <1>4, <1>8, <2>2
<1>10. ASSUME pc' = "paid" PROVE (AmountOutOf(ledger) = Quote(Hops))'
  <2>1. LastHop /\ d + 1 = h /\ Output = Last(tx.path) /\ NextPair = tx.recipient
    BY <1>6, <1>10, HopNext, HopPlace
  <2>2. tx.recipient \in Accounts /\ tx.recipient # tx.pair
    BY <1>1, <2>1, HopNext, NoWayBack DEF IInv, RunInv
  <2>3. PICK n \in Nat : n = ledger.bal[Output][tx.recipient]
    BY <1>5, <2>2 DEF Ledgers
  <2>4. ledger'.bal[Output][tx.recipient] = n + AmountOutput
    BY <1>3, <1>5, <2>1, <2>2, <2>3 DEF Moves
  <2>5. tx.balanceBefore = n
    BY <1>noted, <2>1, <2>3
  <2>6. AmountOutOf(ledger)' = ledger'.bal[Output][tx.recipient] - tx.balanceBefore
    BY <2>1, HopNext DEF AmountOutOf, UniBalanceOf, Last
  <2>7. AmountOutOf(ledger)' = AmountOutput
    BY <1>3, <2>3, <2>4, <2>5, <2>6
  <2>8. Quote(Hops)' = Quote(Done)'
    BY <1>7, <2>1 DEF Quote
  <2>9. QED
    BY <1>4, <2>7, <2>8
<1>11. ASSUME pc' = "hop"
       PROVE  tx.balanceBefore = ledger'.bal[Last(tx.path)][tx.recipient]
  <2>1. NextPair = PairAt(tx.path, d + 2) /\ d + 2 \in 1..h /\ d + 1 \in 1..h
    BY <1>6, <1>11, HopNext
  <2>2. tx.recipient # tx.pair /\ tx.recipient # NextPair
    BY <1>1, <1>5, <1>6, <2>1 DEF Straight, Hops
  <2>3. tx.recipient \in Accounts /\ Last(tx.path) \in Tokens
    BY HopNext DEF IInv, RunInv
  <2>4. ledger.bal[Last(tx.path)][tx.recipient] \in Nat
    BY <1>5, <2>3 DEF Ledgers
  <2>5. QED
    BY <1>5, <1>noted, <2>2, <2>3, <2>4 DEF Moves
<1>12. QED
  BY <1>3, <1>4, <1>9, <1>10, <1>11

LEMMA LastQuotedNext ==
  Quoted(last.ledger, last.reserves, last.path, last.amountIn)'
    = Quotes(listed', last'.ledger, last'.reserves, last'.path, last'.amountIn)
        [HopCount(last'.path)]
BY DEF Quoted, Quotes, QuoteStep, QuotedHop, GetFee, PairAt, GetPair, HopCount

LEMMA ReturnIsQuoted == ASSUME IInv, QuoteInv, Return PROVE OutIsQuoted'
<1>1. /\ pc = "paid" /\ listed' = listed
      /\ last' = [amountOut |-> AmountOutOf(ledger), path |-> tx.path, amountIn |-> tx.amountIn,
                  payer |-> tx.payer, recipient |-> tx.recipient,
                  ledger |-> saved[1], reserves |-> saved[2]]
  BY DEF Return, chain
<1>2. /\ last'.amountOut = AmountOutOf(ledger) /\ last'.path = tx.path
      /\ last'.amountIn = tx.amountIn /\ last'.ledger = saved[1] /\ last'.reserves = saved[2]
      /\ last'.recipient = tx.recipient
  BY <1>1
<1>3. Straight(last'.path, last'.recipient) => last'.amountOut = Quote(Hops)
  BY <1>1, <1>2 DEF QuoteInv
<1>4. Quoted(last.ledger, last.reserves, last.path, last.amountIn)'
        = Quotes(listed', last'.ledger, last'.reserves, last'.path, last'.amountIn)
            [HopCount(last'.path)]
  BY LastQuotedNext
<1>5. Quote(Hops)
        = Quotes(listed', last'.ledger, last'.reserves, last'.path, last'.amountIn)
            [HopCount(last'.path)]
  BY <1>1, <1>2 DEF Quote, Hops
<1>6. QED
  BY <1>3, <1>4, <1>5 DEF OutIsQuoted, Straight, Distinct, PairAt, GetPair, HopCount, Last

LEMMA NextQuoteInv ==
  ASSUME IInv, QuoteInv, OutIsQuoted, [Next]_vars
  PROVE  QuoteInv' /\ OutIsQuoted'
<1>1. CASE UNCHANGED vars
  <2>1. UNCHANGED <<ledger, reserves, listed, approved, tx, pc, saved, last>>
    BY <1>1 DEF vars, chain
  <2>2. QuoteInv'
    <3>1. Done' = Done /\ Hops' = Hops /\ (\A k : Quote(k)' = Quote(k))
      BY <2>1 DEF Done, Hops, HopCount, Quote
    <3>2. Quote(Done)' = Quote(Done) /\ Quote(Hops)' = Quote(Hops)
      BY <2>1 DEF Done, Hops, HopCount, Quote
    <3>3. Ahead' = AheadOf(Done', Hops', tx'.path, Quote(Done)', ledger', reserves',
                           saved'[1], saved'[2])
      BY DEF Ahead, AheadOf
    <3>4. Ahead' = Ahead
      BY <2>1, <3>1, <3>2, <3>3 DEF Ahead
    <3>5. /\ AmountOutOf(ledger)' = AmountOutOf(ledger)
          /\ Straight(tx.path, tx.recipient)' = Straight(tx.path, tx.recipient)
      BY <2>1 DEF AmountOutOf, UniBalanceOf, Last, Straight, Distinct, PairAt, GetPair, HopCount
    <3>6. QED
      BY <2>1, <3>1, <3>2, <3>4, <3>5 DEF QuoteInv, Last
  <2>3. OutIsQuoted'
    <3>1. Quoted(last.ledger, last.reserves, last.path, last.amountIn)'
            = Quotes(listed', last'.ledger, last'.reserves, last'.path, last'.amountIn)
                [HopCount(last'.path)]
      BY LastQuotedNext
    <3>2. Quoted(last.ledger, last.reserves, last.path, last.amountIn)
            = Quotes(listed, last.ledger, last.reserves, last.path, last.amountIn)
                [HopCount(last.path)]
      BY QuotedIsLast
    <3>3. Straight(last.path, last.recipient)' = Straight(last.path, last.recipient)
      BY <2>1 DEF Straight, Distinct, PairAt, GetPair, HopCount, Last
    <3>4. QED
      BY <2>1, <3>1, <3>2, <3>3 DEF OutIsQuoted
  <2>4. QED
    BY <2>2, <2>3
<1>2. CASE pc' = "idle" /\ last' = NoTrade
  BY <1>2 DEF QuoteInv, OutIsQuoted
<1>3. ASSUME NEW u \in Users, Trade(u) PROVE QuoteInv' /\ OutIsQuoted'
  <2>1. ASSUME NEW a \in Amounts \cup {0, ContractBalance}, NEW path \in Paths,
               NEW to \in Recipients, NEW from \in Payers, UniV2SwapExactInput(u, a, path, to, from)
        PROVE  QuoteInv' /\ OutIsQuoted'
    <3>1. last' = NoTrade
      BY <2>1 DEF UniV2SwapExactInput, Transaction
    <3>2. QED
      BY <2>1, <3>1, StartQuoteInv DEF OutIsQuoted
  <2>2. ASSUME NEW a \in Amounts \cup {0, ContractBalance}, NEW router \in Routers,
               NEW path \in TokenPaths, NEW to \in Recipients, NEW from \in Payers,
               UniV2SwapExactInputByRouter(u, a, router, path, to, from)
        PROVE  QuoteInv' /\ OutIsQuoted'
    <3>1. pc' = "idle" /\ last'.reserves = <<>>
      BY <2>2 DEF UniV2SwapExactInputByRouter
    <3>2. QED
      BY <3>1 DEF QuoteInv, OutIsQuoted
  <2>3. QED
    BY <1>3, <2>1, <2>2 DEF Trade
<1>4. CASE Others
  <2>1. pc' = "idle" /\ last' = NoTrade
    BY <1>4 DEF Others, Permit, Send, Sync, List, Transaction
  <2>2. QED
    BY <1>2, <2>1
<1>5. CASE Hop
  <2>1. OutIsQuoted'
    BY <1>5, HopNext DEF OutIsQuoted
  <2>2. QED
    BY <1>5, <2>1, HopQuoteInv
<1>6. CASE Return
  <2>1. pc' = "idle"
    BY <1>6 DEF Return
  <2>2. QED
    BY <1>6, <2>1, ReturnIsQuoted DEF QuoteInv
<1>7. CASE Revert
  <2>1. pc' = "idle" /\ last' = NoTrade
    BY <1>7 DEF Revert, IInv, RunInv
  <2>2. QED
    BY <1>2, <2>1
<1>8. QED
  BY <1>1, <1>3, <1>4, <1>5, <1>6, <1>7 DEF Next, Step

(* A trade over different pairs, to somebody who is none of them, pays its *)
(* quote.  The invariant adds to IInv that the pairs ahead are as they     *)
(* were: only then is what a hop reads what the quote was worked out from. *)
THEOREM OutIsQuotedCorrect == Spec => []OutIsQuoted
<1>1. Init => QuoteInv /\ OutIsQuoted
  BY DEF Init, QuoteInv, OutIsQuoted
<1>2. IInv /\ QuoteInv /\ OutIsQuoted /\ [Next]_vars => (QuoteInv /\ OutIsQuoted)'
  BY NextQuoteInv
<1>3. QED
  BY <1>1, <1>2, IInvCorrect, PTL DEF Spec

-----------------------------------------------------------------------------
(* Trades that are undone.                                                 *)

(* A pair accepts what getAmountOut asks it for: x and y are its reserves, *)
(* amount what it was paid, s what it held of the output beyond them.      *)
LEMMA ProductAccepted ==
  ASSUME NEW x \in Nat, NEW y \in Nat, NEW amount \in Nat, NEW s \in Nat, NEW f \in Fees,
         NEW out, out = GetAmountOut(x, y, amount, f), out # NoAmount
  PROVE  ((x + amount) * FeeBase - amount * PairFee) * ((y + s - out) * FeeBase - s * PairFee)
           >= (x * y) * (FeeBase * FeeBase)
<1>1. /\ FeeBase \in Nat \ {0} /\ PairFee \in Nat /\ PairFee <= FeeBase
      /\ PairFee <= FeeTaken(f) /\ f \in 0..FeeBase
  BY QuoteAssumption, RouterAssumption, FeesCover DEF FeeTaken
<1>2. /\ out \in Nat /\ out < y
      /\ ((x + amount) * FeeBase - amount * PairFee) * (y - out) >= (x * y) * FeeBase
  BY <1>1, AmountOutKeepsProduct
<1>3. PICK rest \in Nat : rest = y - out
  BY <1>2
<1>4. PICK left \in Nat : FeeBase = PairFee + left
  <2>1. FeeBase - PairFee \in Nat
    BY <1>1
  <2>2. QED
    BY <1>1, <2>1
<1>5. PICK a \in Nat : a = (x + amount) * FeeBase - amount * PairFee
  <2>1. (x + amount) * FeeBase = x * FeeBase + amount * PairFee + amount * left
    BY <1>1, <1>4
  <2>2. x * FeeBase \in Nat /\ amount * left \in Nat /\ amount * PairFee \in Nat
    BY <1>1
  <2>3. (x + amount) * FeeBase - amount * PairFee = x * FeeBase + amount * left
    BY <2>1, <2>2
  <2>4. QED
    BY <2>2, <2>3
<1>6. PICK b \in Nat : b = (y + s - out) * FeeBase - s * PairFee /\ rest * FeeBase <= b
  <2>1. y + s - out = rest + s
    BY <1>2, <1>3
  <2>2. (rest + s) * FeeBase = rest * FeeBase + s * PairFee + s * left
    BY <1>1, <1>4
  <2>3. rest * FeeBase \in Nat /\ s * left \in Nat /\ s * PairFee \in Nat
    BY <1>1
  <2>4. (y + s - out) * FeeBase - s * PairFee = rest * FeeBase + s * left
    BY <2>1, <2>2, <2>3
  <2>5. QED
    BY <2>3, <2>4
<1>7. a * rest >= (x * y) * FeeBase /\ a * rest \in Nat /\ (x * y) * FeeBase \in Nat
  BY <1>1, <1>2, <1>3, <1>5
<1>8. (a * rest) * FeeBase >= ((x * y) * FeeBase) * FeeBase
  BY <1>1, <1>7, ProductMonotone
<1>9. a * (rest * FeeBase) <= a * b
  <2>1. rest * FeeBase \in Nat
    BY <1>1
  <2>2. (rest * FeeBase) * a <= b * a
    BY <1>6, <2>1, ProductMonotone
  <2>3. QED
    BY <1>1, <2>2
<1>10. a * b >= (x * y) * (FeeBase * FeeBase)
  <2>1. (a * rest) * FeeBase = a * (rest * FeeBase)
    BY <1>1
  <2>2. ((x * y) * FeeBase) * FeeBase = (x * y) * (FeeBase * FeeBase)
    BY <1>1
  <2>3. a * (rest * FeeBase) \in Nat /\ a * b \in Nat /\ (x * y) * (FeeBase * FeeBase) \in Nat
    BY <1>1
  <2>4. QED
    BY <1>8, <1>9, <2>1, <2>2, <2>3
<1>11. QED
  BY <1>5, <1>6, <1>10

(* A hop that can be quoted can be made if its pair has room, unless it    *)
(* leads back to the pair or to one of its tokens.                         *)
LEMMA SwapPossible ==
  ASSUME IInv, pc = "hop", AmountOutput \notin {0, NoAmount}, HasRoom,
         NextPair \notin {NoPair, tx.pair, PairTokens[tx.pair][1], PairTokens[tx.pair][2]}
  PROVE  Swapped # {}
<1> DEFINE p == tx.pair
           out == AmountOutput
<1>1. /\ Input \in Tokens /\ Output \in Tokens /\ Input # Output /\ p \in Pairs
      /\ (tx.token0 = Input /\ PairTokens[p] = <<Input, Output>>)
           \/ (tx.token0 # Input /\ PairTokens[p] = <<Output, Input>>)
  BY HopPlace
<1>2. NextPair \in Accounts
  <2>1. tx.recipient \in Accounts
    BY DEF IInv, RunInv
  <2>2. NextPair \in Pairs \/ NextPair = tx.recipient
    BY HopPlace
  <2>3. QED
    BY <2>1, <2>2 DEF Accounts
<1>3. PICK x \in Nat, y \in Nat, amount \in Nat, f \in Fees :
        /\ x = ReserveInput /\ y = ReserveOutput /\ amount = AmountInput
        /\ out = GetAmountOut(x, y, amount, f)
        /\ out \in Nat \ {0} /\ out < y /\ x # 0 /\ amount # 0
  BY HopAmounts, HopQuotes
<1>4. PICK s \in Nat : ledger.bal[Output][p] = y + s
  <2>1. ledger.bal[Output][p] - y \in Nat
    BY <1>3, HopAmounts
  <2>2. QED
    BY <1>3, <2>1, HopAmounts
<1>5. ledger.bal[Input][p] = x + amount
  BY <1>3, HopAmounts
<1>6. ((x + amount) * FeeBase - amount * PairFee) * ((y + s - out) * FeeBase - s * PairFee)
        >= (x * y) * (FeeBase * FeeBase)
  BY <1>3, QuoteAssumption, ProductAccepted
<1>7. PICK l : l = [ledger EXCEPT !.bal[Output] = Moved(ledger.bal[Output], p, NextPair, out)]
  OBVIOUS
<1>8. Transfer(ledger, Output, p, NextPair, out) = {l}
  <2>1. ~(out > ledger.bal[Output][p])
    BY <1>3, <1>4
  <2>2. QED
    BY <1>7, <2>1 DEF Transfer
<1>9. l.bal[Output][p] = y + s - out /\ l.bal[Input][p] = x + amount
  <2>1. l \in Transfer(ledger, Output, p, NextPair, out)
    BY <1>8
  <2>2. Moves(ledger, l, Output, p, NextPair, out) /\ p \in Accounts /\ p # NextPair
    BY <1>1, <1>2, <1>3, <2>1, TransferEffect DEF IInv, Good, Accounts
  <2>3. QED
    BY <1>1, <1>3, <1>4, <1>5, <2>2 DEF Moves
<1>room. InReserve(y + s - out) /\ InReserve(x + amount)
  <2>1. ledger.bal[Output][p] - out = y + s - out
    BY <1>3, <1>4
  <2>2. InReserve(ledger.bal[Input][p]) /\ InReserve(ledger.bal[Output][p] - out)
    BY DEF HasRoom
  <2> HIDE DEF p, out
  <2>3. QED
    BY <1>5, <2>1, <2>2 DEF InReserve
<1> HIDE DEF out
<1>10. ASSUME NEW k \in 1..2, NEW j \in 1..2, j # k,
              PairTokens[p][k] = Output, PairTokens[p][j] = Input,
              AmountsOut[k] = out, AmountsOut[j] = 0,
              reserves[p][k] = y, reserves[p][j] = x
       PROVE  Swapped # {}
  <2>1. Held(l, p)[k] = y + s - out /\ Held(l, p)[j] = x + amount
    BY <1>9, <1>10 DEF Held
  <2> DEFINE paid == [i \in 1..2 |->
                        IF Held(l, p)[i] > reserves[p][i] - AmountsOut[i]
                        THEN Held(l, p)[i] - (reserves[p][i] - AmountsOut[i]) ELSE 0]
             adjusted == [i \in 1..2 |-> Held(l, p)[i] * FeeBase - paid[i] * PairFee]
  <2>2. paid[k] = s /\ paid[j] = amount
    BY <1>3, <1>10, <2>1
  <2>3. /\ adjusted[k] = (y + s - out) * FeeBase - s * PairFee
        /\ adjusted[j] = (x + amount) * FeeBase - amount * PairFee
    BY <1>10, <2>1, <2>2
  <2> HIDE DEF paid, adjusted
  <2>4. PICK a \in Int, b \in Int : a = adjusted[j] /\ b = adjusted[k]
    <3>1. FeeBase \in Int /\ PairFee \in Int
      BY QuoteAssumption, RouterAssumption
    <3>2. PICK u \in Int, v \in Int : u = y + s - out /\ v = x + amount
      BY <1>3
    <3>3. u * FeeBase - s * PairFee \in Int /\ v * FeeBase - amount * PairFee \in Int
      BY <1>3, <3>1
    <3>4. adjusted[k] \in Int /\ adjusted[j] \in Int
      BY <2>3, <3>2, <3>3
    <3>5. QED
      BY <3>4
  <2>5. a * b >= (x * y) * (FeeBase * FeeBase)
    BY <1>6, <2>3, <2>4
  <2>6. /\ adjusted[1] * adjusted[2] = a * b /\ reserves[p][1] * reserves[p][2] = x * y
        /\ paid[1] + paid[2] = s + amount /\ AmountsOut[1] + AmountsOut[2] = out
    <3>1. CASE k = 1 /\ j = 2
      BY <1>3, <1>10, <2>2, <2>4, <3>1
    <3>2. CASE k = 2 /\ j = 1
      <4>1. a * b = b * a
        OBVIOUS
      <4>2. QED
        BY <1>3, <1>10, <2>2, <2>4, <3>2
    <3>3. QED
      BY <1>10, <3>1, <3>2
  <2>7. (x * y) * (FeeBase * FeeBase) = x * y * FeeBase * FeeBase
    BY QuoteAssumption
  <2>8. AmountsOut[1] < reserves[p][1] /\ AmountsOut[2] < reserves[p][2]
    <3>1. AmountsOut[k] < reserves[p][k] /\ AmountsOut[j] < reserves[p][j]
      BY <1>3, <1>10
    <3>2. QED
      BY <1>10, <3>1
  <2>room. InReserve(Held(l, p)[1]) /\ InReserve(Held(l, p)[2])
    <3>1. InReserve(Held(l, p)[k]) /\ InReserve(Held(l, p)[j])
      BY <1>room, <2>1
    <3>2. QED
      BY <1>10, <3>1
  <2>9. PairAccepts(p, NextPair, AmountsOut, Held(l, p))
    <3>1. /\ AmountsOut[1] + AmountsOut[2] > 0 /\ paid[1] + paid[2] > 0
          /\ adjusted[1] * adjusted[2] >= reserves[p][1] * reserves[p][2] * FeeBase * FeeBase
      BY <1>3, <2>5, <2>6, <2>7
    <3>2. QED
      BY <2>8, <2>room, <3>1 DEF PairAccepts, paid, adjusted
  <2>10. l \in Swapped
    <3>1. AmountsOut[k] > 0
      BY <1>3, <1>10
    <3>2. l \in Transfer(ledger, PairTokens[p][k], p, NextPair, AmountsOut[k])
      BY <1>8, <1>10
    <3>3. AmountOutput # NoAmount /\ NextPair # NoPair
      OBVIOUS
    <3>4. QED
      BY <2>9, <3>1, <3>2, <3>3 DEF Swapped
  <2>11. QED
    BY <2>10
<1>11. CASE tx.token0 = Input /\ PairTokens[p] = <<Input, Output>>
  <2>1. AmountsOut = <<0, out>>
    BY <1>11 DEF AmountsOut, out
  <2>2. reserves[p][1] = x /\ reserves[p][2] = y
    BY <1>3, <1>11 DEF ReserveInput, ReserveOutput
  <2>3. QED
    BY <1>10, <1>11, <2>1, <2>2
<1>12. CASE tx.token0 # Input /\ PairTokens[p] = <<Output, Input>>
  <2>1. AmountsOut = <<out, 0>>
    BY <1>12 DEF AmountsOut, out
  <2>2. reserves[p][1] = y /\ reserves[p][2] = x
    BY <1>3, <1>12 DEF ReserveInput, ReserveOutput
  <2>3. QED
    BY <1>10, <1>12, <2>1, <2>2
<1>13. QED
  BY <1>1, <1>11, <1>12

LEMMA RevertNotQuoted ==
  ASSUME IInv, QuoteInv, Revert, Straight(tx.path, tx.recipient)
  PROVE  Quoted(saved[1], saved[2], tx.path, tx.amountIn) \in {0, NoAmount}
<1>1. pc # "idle" /\ (pc = "hop" => Swapped = {}) /\ (pc = "paid" => AmountOutOf(ledger) <= 0)
  BY DEF Revert
<1>2. /\ Hops \in Nat \ {0} /\ Done \in 0..Hops /\ (pc = "paid" => Done = Hops)
      /\ pc \in {"hop", "paid"} /\ tx.recipient \in Accounts
  BY <1>1, PathShape DEF IInv, RunInv, Hops
<1>3. Quoted(saved[1], saved[2], tx.path, tx.amountIn) = Quote(Hops)
  BY QuotedIsLast DEF Quote, Hops
<1>4. PICK d \in Nat, h \in Nat : d = Done /\ h = Hops
  <2>1. Done \in Nat /\ Hops \in Nat
    BY <1>2
  <2> HIDE DEF Done, Hops
  <2>2. QED
    BY <2>1, Zenon
<1>5. CASE pc = "paid"
  <2>1. Done = Hops /\ Quote(Done) \in Nat /\ Quote(Done) > 0 /\ AmountOutOf(ledger) = Quote(Hops)
    BY <1>2, <1>4, <1>5 DEF QuoteInv
  <2>2. QED
    BY <1>1, <1>5, <2>1
<1>6. CASE pc = "hop"
  <2>1. /\ Quote(d + 1) = IF AmountOutput # NoAmount /\ HasRoom THEN AmountOutput ELSE NoAmount
        /\ d + 1 \in 1..h
    BY <1>4, <1>6, HopIsQuoted, HopPlace
  <2>2. ASSUME NEW k \in 1..h, Quote(k) = NoAmount PROVE Quote(h) = NoAmount
    BY <1>4, <2>2, NoneAfter DEF Quote, Hops
  <2>3. ASSUME ~LastHop
        PROVE  /\ d + 2 \in 1..h /\ NextPair = PairAt(tx.path, d + 2)
               /\ Quote(d + 2)
                    = QuoteStep(listed, saved[1], saved[2], tx.path, Quote(d + 1), d + 2)
    <3>1. d + 2 \in 1..h /\ NextPair = PairAt(tx.path, d + 2) /\ d + 2 - 1 = d + 1
      BY <1>4, <1>6, <2>3, HopPlace
    <3>2. HopCount(tx.path) \in Nat /\ d + 2 \in 1..HopCount(tx.path)
      BY <1>4, <3>1 DEF Hops
    <3>3. QED
      BY <3>1, <3>2, QuotesDefined DEF Quote
  <2>4. CASE AmountOutput = NoAmount \/ ~HasRoom
    BY <1>3, <1>4, <2>1, <2>2, <2>4
  <2>5. CASE AmountOutput = 0 /\ HasRoom
    <3>1. CASE LastHop
      <4>1. d + 1 = h
        BY <1>4, <1>6, <3>1, HopPlace
      <4>2. QED
        BY <1>3, <1>4, <2>1, <2>5, <4>1, QuoteAssumption
    <3>2. CASE ~LastHop
      <4>1. d + 2 > 1 /\ Quote(d + 1) = 0
        BY <2>1, <2>5, QuoteAssumption
      <4>2. Quote(d + 2) = NoAmount
        BY <2>3, <3>2, <4>1 DEF QuoteStep
      <4>3. QED
        BY <1>3, <1>4, <2>2, <2>3, <3>2, <4>2
    <3>3. QED
      BY <3>1, <3>2
  <2>6. CASE NextPair = NoPair
    <3>1. ~LastHop
      BY <1>2, <1>6, <2>6, HopPlace, PartiesApart
    <3>2. Quote(d + 2) = NoAmount
      BY <2>3, <2>6, <3>1 DEF QuoteStep
    <3>3. QED
      BY <1>3, <1>4, <2>2, <2>3, <3>1, <3>2
  <2>7. /\ NextPair # tx.pair
        /\ NextPair # NoPair => NextPair \notin {PairTokens[tx.pair][1], PairTokens[tx.pair][2]}
    BY <1>6, NoWayBack
  <2>8. QED
    BY <1>1, <1>6, <2>4, <2>5, <2>6, <2>7, SwapPossible
<1>7. QED
  BY <1>2, <1>5, <1>6

(* A trade over different pairs, to somebody who is none of them, is       *)
(* undone only if there was nothing to quote for it, when the fees listed  *)
(* cover what the pairs enforce.                                           *)
THEOREM UndoneOnlyIfNotQuotedCorrect == Spec => UndoneOnlyIfNotQuoted
<1> DEFINE Undone == pc # "idle" /\ pc' = "idle" /\ last' = NoTrade
                       /\ Straight(tx.path, tx.recipient)
           A == Undone => Quoted(saved[1], saved[2], tx.path, tx.amountIn) \in {0, NoAmount}
<1>1. IInv /\ QuoteInv /\ [Next]_vars => [A]_vars
  <2>1. SUFFICES ASSUME IInv, QuoteInv, Next, Undone PROVE Revert
    BY RevertNotQuoted
  <2>2. ~\E u \in Users : Trade(u)
    BY <2>1 DEF Trade, UniV2SwapExactInput, UniV2SwapExactInputByRouter, Transaction
  <2>3. ~Others
    BY <2>1 DEF Others, Permit, Send, Sync, List, Transaction
  <2>4. ~Hop
    BY <2>1 DEF Hop
  <2>5. ~Return
    <3>1. SUFFICES ASSUME Return PROVE FALSE
      OBVIOUS
    <3>2. last'.amountOut = AmountOutOf(ledger) /\ AmountOutOf(ledger) > 0
      BY <3>1 DEF Return
    <3>3. last'.amountOut = 0
      BY <2>1 DEF NoTrade
    <3>4. QED
      BY <3>2, <3>3
  <2>6. QED
    BY <2>1, <2>2, <2>3, <2>4, <2>5 DEF Next, Step
<1>2. Init => QuoteInv /\ OutIsQuoted
  BY DEF Init, QuoteInv, OutIsQuoted
<1>3. IInv /\ QuoteInv /\ OutIsQuoted /\ [Next]_vars => (QuoteInv /\ OutIsQuoted)'
  BY NextQuoteInv
<1>4. QED
  BY <1>1, <1>2, <1>3, IInvCorrect, PTL DEF Spec, UndoneOnlyIfNotQuoted
=============================================================================
