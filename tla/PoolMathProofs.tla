--------------------------- MODULE PoolMathProofs ----------------------------
(***************************************************************************)
(* Proofs about the mathematics of the pools.                              *)
(*                                                                         *)
(* UniV2Pool, the constant-product quote, for all reserves, amounts, fees  *)
(* and widths: a simulated trade gives out less than the pool holds, does  *)
(* not lower the product of its balances, and stays within 2^112.          *)
(*                                                                         *)
(* FixedPoint, the integer functions of basic_math, for all arguments,     *)
(* units and widths: the pairs that round up and down, the inverse modulo  *)
(* a power of two, the order of the sorted numbers and the root.           *)
(***************************************************************************)
EXTENDS UniV2Pool, FixedPoint, FiniteSetTheorems, FunctionTheorems, WellFoundedInduction, TLAPS

-----------------------------------------------------------------------------
(* The constant-product quote (UniV2Pool).                                 *)


(* A product of natural numbers does not shrink when a factor grows. *)
LEMMA ProductMonotone ==
  ASSUME NEW a \in Nat, NEW b \in Nat, NEW c \in Nat, a <= b
  PROVE  a * c \in Nat /\ b * c \in Nat /\ a * c <= b * c
<1>1. PICK d \in Nat : b = a + d
  <2>1. b - a \in Nat /\ b = a + (b - a)
    OBVIOUS
  <2>2. QED
    BY <2>1
<1>2. b * c = a * c + d * c /\ d * c \in Nat /\ a * c \in Nat
  BY <1>1
<1>3. QED
  BY <1>2

(* A positive factor can be cancelled. *)
LEMMA ProductCancels ==
  ASSUME NEW a \in Nat, NEW b \in Nat, NEW c \in Nat \ {0}, a * c <= b * c
  PROVE  a <= b
<1>1. SUFFICES ASSUME b + 1 <= a PROVE FALSE
  OBVIOUS
<1>2. (b + 1) * c <= a * c
  BY <1>1, ProductMonotone
<1>3. (b + 1) * c = b * c + c /\ b * c \in Nat
  OBVIOUS
<1>4. QED
  BY <1>2, <1>3

LEMMA ProductAssociates ==
  ASSUME NEW a \in Nat, NEW b \in Nat, NEW c \in Nat
  PROVE  a * (b * c) = (a * b) * c
OBVIOUS

(* Division rounds down. *)
LEMMA QuotientBelow ==
  ASSUME NEW n \in Nat, NEW d \in Nat \ {0}
  PROVE  n \div d \in Nat /\ (n \div d) * d <= n
OBVIOUS

(* The amount that goes out, w of them being the input less the fee, in    *)
(* units of 1/base: less than the pool holds, and the product is kept.     *)
LEMMA OutKeepsProduct ==
  ASSUME NEW x \in Nat \ {0}, NEW y \in Nat \ {0}, NEW amount \in Nat,
         NEW base \in Nat \ {0}, NEW w \in Nat, w <= amount * base,
         NEW out, out = (w * y) \div (x * base + w)
  PROVE  out \in Nat /\ out < y /\ (x + amount) * (y - out) >= x * y
<1> DEFINE d == x * base + w
<1>1. x * base \in Nat \ {0} /\ d \in Nat \ {0} /\ w * y \in Nat
  OBVIOUS
<1>2. out \in Nat /\ out * d <= w * y
  BY <1>1, QuotientBelow
<1> HIDE DEF d
<1>3. d * y = (x * base) * y + w * y
  BY <1>1 DEF d
<1>4. (x * base) * y \in Nat \ {0}
  BY <1>1
<1>5. out < y
  <2>1. SUFFICES ASSUME y <= out PROVE FALSE
    BY <1>2
  <2>2. y * d <= out * d
    BY <1>1, <1>2, <2>1, ProductMonotone
  <2>3. y * d = d * y
    BY <1>1
  <2>4. QED
    BY <1>1, <1>2, <1>3, <1>4, <2>2, <2>3
<1>6. PICK rest \in Nat : rest = y - out
  BY <1>2, <1>5
<1>7. (x * base) * y <= rest * d
  <2>1. y = rest + out
    BY <1>2, <1>6
  <2>2. d * y = rest * d + out * d
    BY <1>1, <1>2, <2>1
  <2>3. rest * d \in Nat /\ out * d \in Nat
    BY <1>1, <1>2
  <2>4. QED
    BY <1>1, <1>2, <1>3, <1>4, <2>2, <2>3
<1>8. rest * d <= rest * ((x + amount) * base)
  <2>1. (x + amount) * base = x * base + amount * base /\ amount * base \in Nat
    OBVIOUS
  <2>2. d <= (x + amount) * base /\ (x + amount) * base \in Nat
    BY <1>1, <2>1 DEF d
  <2>3. d * rest <= ((x + amount) * base) * rest
    BY <1>1, <2>2, ProductMonotone
  <2>4. QED
    BY <1>1, <2>2, <2>3
<1>9. (x * y) * base <= ((x + amount) * rest) * base
  <2>1. (x * base) * y = (x * y) * base
    OBVIOUS
  <2>2. rest * ((x + amount) * base) = ((x + amount) * rest) * base
    OBVIOUS
  <2>3. rest * d \in Nat /\ (x * y) * base \in Nat /\ ((x + amount) * rest) * base \in Nat
    BY <1>1
  <2>4. QED
    BY <1>7, <1>8, <2>1, <2>2, <2>3
<1>10. x * y <= (x + amount) * rest
  <2>1. x * y \in Nat /\ (x + amount) * rest \in Nat
    OBVIOUS
  <2>2. QED
    BY <1>9, <2>1, ProductCancels
<1>11. QED
  BY <1>2, <1>5, <1>6, <1>10

(* calc_uni2_out, when it answers: fewer tokens than the pool holds, and   *)
(* balances whose product is no smaller.                                   *)
LEMMA QuoteKeepsProduct ==
  ASSUME NEW x \in Nat, NEW y \in Nat, NEW amount \in Nat, NEW f \in Nat,
         CalcUni2Out(x, y, amount, f) # NoAmount
  PROVE  /\ x # 0 /\ y # 0
         /\ CalcUni2Out(x, y, amount, f) \in Nat
         /\ CalcUni2Out(x, y, amount, f) < y
         /\ (x + amount) * (y - CalcUni2Out(x, y, amount, f)) >= x * y
<1> DEFINE out == CalcUni2Out(x, y, amount, f)
           w == WithoutFee(amount, f, FeeBase)
<1>1. /\ x # 0 /\ y # 0 /\ f <= FeeBase
      /\ out = AmountOut(x, y, amount, f, FeeBase)
  BY DEF CalcUni2Out
<1>2. FeeBase \in Nat \ {0}
  BY QuoteAssumption
<1>3. FeeBase - f \in Nat /\ FeeBase - f <= FeeBase
  BY <1>1, <1>2
<1>4. w \in Nat /\ w <= amount * FeeBase
  <2>1. (FeeBase - f) * amount <= FeeBase * amount
    BY <1>2, <1>3, ProductMonotone
  <2>2. (FeeBase - f) * amount = amount * (FeeBase - f) /\ FeeBase * amount = amount * FeeBase
        /\ amount * (FeeBase - f) \in Nat
    BY <1>2, <1>3
  <2>3. QED
    BY <2>1, <2>2 DEF WithoutFee
<1>5. out = (w * y) \div (x * FeeBase + w)
  BY <1>1 DEF AmountOut
<1> HIDE DEF out, w
<1>6. out \in Nat /\ out < y /\ (x + amount) * (y - out) >= x * y
  BY <1>1, <1>2, <1>4, <1>5, OutKeepsProduct
<1>7. QED
  BY <1>1, <1>6 DEF out

-----------------------------------------------------------------------------
(* A pair holds less than 2^112 of each token, an entry no more than that. *)
BalancesInv ==
  /\ pair \in [Token -> 0..(Cap - 1)]
  /\ cache \in [Token -> 0..Cap]
  /\ fee \in 0..FeeBase /\ listed \in 0..FeeBase

(* Of two tokens: each is the other of the other. *)
LEMMA Others == \A t \in Token : Other(t) \in Token /\ Other(t) # t
BY DEF Token, Other

LEMMA TradedBalances ==
  ASSUME NEW bal \in [Token -> Nat], NEW t \in Token, NEW amount \in Nat, NEW out \in Int
  PROVE  /\ Traded(bal, t, amount, out) \in [Token -> Int]
         /\ Traded(bal, t, amount, out)[t] = bal[t] + amount
         /\ Traded(bal, t, amount, out)[Other(t)] = bal[Other(t)] - out
BY Others DEF Traded

LEMMA EveryToken ==
  ASSUME NEW t \in Token, NEW u \in Token
  PROVE  u = t \/ u = Other(t)
BY DEF Token, Other

(* One simulated trade: what SimulationKeepsProduct says of a step. *)
LEMMA SimulateEffect ==
  ASSUME BalancesInv, NEW t \in Token, NEW amount \in Nat, Simulate(t, amount)
  PROVE  /\ cache' \in [Token -> 0..Cap]
         /\ Product(cache') >= Product(cache)
         /\ \A u \in Token : cache[u] > 0 => cache'[u] > 0
<1> DEFINE out == Quote(t, amount)
           s == Other(t)
<1>1. /\ s \in Token /\ s # t /\ Cap \in Nat
      /\ cache[t] \in 0..Cap /\ cache[s] \in 0..Cap /\ fee \in Nat
  BY Others, PoolAssumption, QuoteAssumption DEF BalancesInv
<1>2. /\ out # NoAmount /\ cache[t] + amount <= Cap
      /\ cache' = Traded(cache, t, amount, out)
  BY DEF Simulate, BalanceFits
<1>3. /\ cache[t] # 0 /\ cache[s] # 0 /\ out \in Nat /\ out < cache[s]
      /\ (cache[t] + amount) * (cache[s] - out) >= cache[t] * cache[s]
  BY <1>1, <1>2, QuoteKeepsProduct DEF Quote
<1>4. cache \in [Token -> Nat]
  BY PoolAssumption DEF BalancesInv
<1> HIDE DEF out, s
<1>5. /\ cache' \in [Token -> Int]
      /\ cache'[t] = cache[t] + amount /\ cache'[s] = cache[s] - out
  BY <1>2, <1>3, <1>4, TradedBalances DEF s
<1>6. cache'[t] \in 1..Cap /\ cache'[s] \in 1..Cap
  BY <1>1, <1>2, <1>3, <1>5
<1>7. \A u \in Token : cache'[u] \in 1..Cap
  BY <1>6, EveryToken DEF s
<1>8. cache' \in [Token -> 0..Cap]
  <2>1. \A u \in Token : cache'[u] \in 0..Cap
    BY <1>1, <1>7
  <2>2. QED
    BY <1>5, <2>1
<1>9. Product(cache') >= Product(cache)
  <2>1. CASE t = "a"
    <3>1. s = "b"
      BY <2>1 DEF s, Other
    <3>2. QED
      BY <1>3, <1>5, <2>1, <3>1 DEF Product
  <2>2. CASE t = "b"
    <3>1. s = "a"
      BY <2>2 DEF s, Other
    <3>2. /\ cache[t] * cache[s] = cache[s] * cache[t]
          /\ cache'[t] * cache'[s] = cache'[s] * cache'[t]
      BY <1>1, <1>6
    <3>3. cache'[t] * cache'[s] >= cache[t] * cache[s]
      BY <1>3, <1>5
    <3>4. QED
      BY <2>2, <3>1, <3>2, <3>3 DEF Product
  <2>3. QED
    BY <2>1, <2>2 DEF Token
<1>10. QED
  BY <1>7, <1>8, <1>9

(* A number that divides another one is not the larger of the two. *)
LEMMA DivisorBelow ==
  ASSUME NEW n \in Nat \ {0}, NEW d \in Nat \ {0}, n % d = 0
  PROVE  d <= n
OBVIOUS

(* The steps of the facet fit the base, so that a denominator is positive. *)
LEMMA StepFits ==
  ASSUME NEW f \in Nat
  PROVE  StepOf(f) \in Nat \ {0} /\ FeeBase \div StepOf(f) \in Nat \ {0}
<1>1. /\ Coarse \in Nat \ {0} /\ Mid \in Nat \ {0} /\ Fine \in Nat \ {0}
      /\ FeeBase \in Nat \ {0}
  BY QuoteAssumption
<1>2. Coarse <= FeeBase /\ Mid <= Coarse /\ Fine <= Mid
  BY <1>1, DivisorBelow, QuoteAssumption
<1>3. StepOf(f) \in Nat \ {0} /\ StepOf(f) <= FeeBase
  BY <1>1, <1>2 DEF StepOf
<1>4. QED
  BY <1>1, <1>3

(* What the facet asks for is a number. *)
LEMMA FacetOutIsInt ==
  ASSUME BalancesInv, NEW t \in Token, NEW amount \in Nat, FacetOut(t, amount) # NoAmount
  PROVE  FacetOut(t, amount) \in Int
<1>1. /\ pair[t] \in Nat /\ pair[Other(t)] \in Nat /\ listed \in Nat
  BY Others, PoolAssumption, QuoteAssumption DEF BalancesInv
<1>2. StepOf(listed) \in Nat \ {0} /\ FeeBase \div StepOf(listed) \in Nat \ {0}
  BY <1>1, StepFits
<1> DEFINE base == FeeBase \div StepOf(listed)
           fee2 == FeeInSteps(listed, StepOf(listed))
<1>3. base \in Nat \ {0} /\ fee2 \in Nat
  BY <1>1, <1>2 DEF FeeInSteps
<1> HIDE DEF base, fee2
<1>4. /\ pair[t] # 0 /\ fee2 <= base
      /\ FacetOut(t, amount) = AmountOut(pair[t], pair[Other(t)], amount, fee2, base)
  BY DEF FacetOut, GetAmountOut, base, fee2
<1>5. base - fee2 \in Nat
  BY <1>3, <1>4
<1>6. amount * (base - fee2) \in Nat /\ pair[t] * base \in Nat \ {0}
  BY <1>1, <1>3, <1>4, <1>5
<1>7. PICK w \in Nat, d \in Nat \ {0} :
        w = amount * (base - fee2) /\ d = pair[t] * base + w
  BY <1>6
<1>8. FacetOut(t, amount) = (w * pair[Other(t)]) \div d
  BY <1>4, <1>7 DEF AmountOut, WithoutFee
<1>9. w * pair[Other(t)] \in Nat
  BY <1>1, <1>7
<1>10. QED
  BY <1>7, <1>8, <1>9

-----------------------------------------------------------------------------
LEMMA InitBalances == Init => BalancesInv
<1> SUFFICES ASSUME Init PROVE BalancesInv
  OBVIOUS
<1>1. pair \in [Token -> Reserves] /\ cache = pair /\ listed \in Fees /\ fee = listed
  BY DEF Init
<1>2. pair \in [Token -> 0..(Cap - 1)]
  BY <1>1, PoolAssumption
<1>3. cache \in [Token -> 0..Cap]
  BY <1>1, <1>2, PoolAssumption
<1>4. QED
  BY <1>1, <1>2, <1>3, PoolAssumption DEF BalancesInv

(* A trade the pair accepts leaves it with balances it can hold. *)
LEMMA ExecuteBalances ==
  ASSUME BalancesInv, NEW t \in Token, NEW amount \in Nat, Execute(t, amount)
  PROVE  pair' \in [Token -> 0..(Cap - 1)]
<1> DEFINE out == FacetOut(t, amount)
           s == Other(t)
<1>1. s \in Token /\ Cap \in Nat /\ pair[t] \in 0..(Cap - 1) /\ pair[s] \in 0..(Cap - 1)
  BY Others, PoolAssumption DEF BalancesInv
<1>2. /\ out \in Int /\ 0 < out /\ out < pair[s] /\ pair[t] + amount < Cap
      /\ pair' = Traded(pair, t, amount, out)
  BY FacetOutIsInt DEF Execute, PairAccepts
<1>3. pair \in [Token -> Nat]
  BY PoolAssumption DEF BalancesInv
<1> HIDE DEF out, s
<1>4. /\ pair' \in [Token -> Int]
      /\ pair'[t] = pair[t] + amount /\ pair'[s] = pair[s] - out
  BY <1>2, <1>3, TradedBalances DEF s
<1>5. pair'[t] \in 0..(Cap - 1) /\ pair'[s] \in 0..(Cap - 1)
  BY <1>1, <1>2, <1>4
<1>6. \A u \in Token : pair'[u] \in 0..(Cap - 1)
  BY <1>5, EveryToken DEF s
<1>7. QED
  BY <1>4, <1>6

LEMMA NextBalances == BalancesInv /\ [Next]_vars => BalancesInv'
<1> SUFFICES ASSUME BalancesInv, [Next]_vars PROVE BalancesInv'
  OBVIOUS
<1>0. /\ \A amount \in 0..MaxAmount : amount \in Nat
      /\ pair \in [Token -> 0..Cap]
  BY PoolAssumption DEF BalancesInv
<1>1. ASSUME NEW t \in Token, NEW amount \in 0..MaxAmount, Simulate(t, amount)
      PROVE  BalancesInv'
  BY <1>0, <1>1, SimulateEffect DEF BalancesInv, Simulate
<1>2. ASSUME NEW t \in Token, NEW amount \in 0..MaxAmount, Execute(t, amount)
      PROVE  BalancesInv'
  BY <1>0, <1>2, ExecuteBalances DEF BalancesInv, Execute
<1>3. CASE Update
  BY <1>0, <1>3 DEF BalancesInv, Update
<1>4. CASE Fetch
  BY <1>0, <1>4 DEF BalancesInv, Fetch, FetchedFee
<1>5. ASSUME NEW f \in Fees, ListFee(f) PROVE BalancesInv'
  BY <1>5, PoolAssumption DEF BalancesInv, ListFee
<1>6. CASE UNCHANGED vars
  BY <1>6 DEF BalancesInv, vars
<1>7. QED
  BY <1>1, <1>2, <1>3, <1>4, <1>5, <1>6 DEF Next

(* The balances of a pair and of its entry stay within their widths.       *)
THEOREM BalancesCorrect == Spec => []BalancesInv
BY InitBalances, NextBalances, PTL DEF Spec

(* A trade in simulation never lowers the product of the entry's balances, *)
(* never empties a side and never puts more than 2^112 into one.           *)
THEOREM SimulationKeepsProductCorrect == Spec => SimulationKeepsProduct
<1> DEFINE Keeps ==
             cache' \notin {cache, pair}
               => /\ Product(cache') >= Product(cache)
                  /\ \A t \in Token : cache[t] > 0 => cache'[t] > 0
                  /\ \A t \in Token : cache'[t] <= Cap
<1>1. BalancesInv /\ [Next]_vars => [Keeps]_vars
  <2>1. SUFFICES ASSUME BalancesInv, Next, cache' \notin {cache, pair}
                 PROVE  Keeps
    OBVIOUS
  <2>2. PICK t \in Token, amount \in 0..MaxAmount : Simulate(t, amount)
    BY <2>1 DEF Next, Execute, Update, Fetch, ListFee
  <2>3. amount \in Nat
    BY PoolAssumption
  <2>4. /\ cache' \in [Token -> 0..Cap]
        /\ Product(cache') >= Product(cache)
        /\ \A u \in Token : cache[u] > 0 => cache'[u] > 0
    BY <2>1, <2>2, <2>3, SimulateEffect
  <2>5. \A u \in Token : cache'[u] <= Cap
    BY <2>4, PoolAssumption
  <2>6. QED
    BY <2>4, <2>5
<1>2. QED
  BY <1>1, BalancesCorrect, PTL DEF Spec, SimulationKeepsProduct

-----------------------------------------------------------------------------
(* The quotient is the largest number whose product fits.                  *)
LEMMA QuotientIsMax ==
  ASSUME NEW n \in Nat, NEW d \in Nat \ {0}, NEW q \in Nat, q * d <= n
  PROVE  q <= n \div d
<1>1. PICK m \in Nat : m = n \div d
  OBVIOUS
<1>2. n < (m + 1) * d
  BY <1>1
<1>3. SUFFICES ASSUME m + 1 <= q PROVE FALSE
  BY <1>1
<1>4. (m + 1) * d <= q * d
  BY <1>1, <1>3, ProductMonotone
<1>5. (m + 1) * d \in Nat /\ q * d \in Nat
  OBVIOUS
<1>6. QED
  BY <1>2, <1>4, <1>5

(* More of the input that counts, in units k times as fine, never gives    *)
(* less out.                                                               *)
LEMMA MoreInMoreOut ==
  ASSUME NEW x \in Nat \ {0}, NEW y \in Nat \ {0}, NEW base \in Nat \ {0},
         NEW k \in Nat \ {0}, NEW w \in Nat, NEW w2 \in Nat, w <= w2 * k,
         NEW q, q = (w * y) \div (x * (base * k) + w)
  PROVE  q <= (w2 * y) \div (x * base + w2)
<1> DEFINE v == w2 * k
           big == x * (base * k)
           d2 == x * base + w2
<1>1. /\ v \in Nat /\ base * k \in Nat \ {0} /\ big \in Nat \ {0} /\ d2 \in Nat \ {0}
      /\ big + w \in Nat \ {0} /\ w * y \in Nat /\ v * y \in Nat
  OBVIOUS
<1>2. v * y = (w2 * y) * k /\ big + v = d2 * k
  OBVIOUS
<1> HIDE DEF v, big, d2
<1>3. q \in Nat /\ q * (big + w) <= w * y /\ w <= v
  BY <1>1, QuotientBelow DEF big, v
<1>4. q <= y
  <2>1. SUFFICES ASSUME y + 1 <= q PROVE FALSE
    BY <1>3
  <2>2. (y + 1) * (big + w) <= q * (big + w)
    BY <1>1, <1>3, <2>1, ProductMonotone
  <2>3. (y + 1) * (big + w) = y * big + big + w * y + w /\ y * big \in Nat
    BY <1>1
  <2>4. q * (big + w) \in Nat
    BY <1>1, <1>3
  <2>5. QED
    BY <1>1, <1>3, <2>2, <2>3, <2>4
<1>5. PICK r \in Nat : y = q + r
  <2>1. y - q \in Nat /\ y = q + (y - q)
    BY <1>3, <1>4
  <2>2. QED
    BY <2>1
<1>6. q * big <= w * r
  <2>1. q * (big + w) = q * big + w * q /\ w * y = w * q + w * r
    BY <1>1, <1>3, <1>5
  <2>2. q * big \in Nat /\ w * q \in Nat /\ w * r \in Nat
    BY <1>1, <1>3
  <2>3. QED
    BY <1>3, <2>1, <2>2
<1>7. w * r <= v * r /\ w * r \in Nat /\ v * r \in Nat
  BY <1>1, <1>3, ProductMonotone
<1>8. q * (big + v) <= v * y
  <2>1. q * (big + v) = q * big + v * q /\ v * y = v * q + v * r
    BY <1>1, <1>3, <1>5
  <2>2. q * big \in Nat /\ v * q \in Nat
    BY <1>1, <1>3
  <2>3. QED
    BY <1>6, <1>7, <2>1, <2>2
<1>9. (q * d2) * k <= (w2 * y) * k
  <2>1. q * (d2 * k) = (q * d2) * k
    BY <1>1, <1>3, ProductAssociates
  <2>2. q * (big + v) = (q * d2) * k
    BY <1>2, <2>1
  <2>3. QED
    BY <1>2, <1>8, <2>2, SMTT(30)
<1>10. q * d2 <= w2 * y
  <2>1. q * d2 \in Nat /\ w2 * y \in Nat
    BY <1>1, <1>3
  <2>2. QED
    BY <1>9, <2>1, ProductCancels
<1>11. w2 * y \in Nat
  OBVIOUS
<1>12. QED
  BY <1>1, <1>3, <1>10, <1>11, QuotientIsMax DEF d2

(* The same fraction: a common factor of it changes nothing.               *)
LEMMA SameInSameOut ==
  ASSUME NEW x \in Nat \ {0}, NEW y \in Nat \ {0}, NEW base \in Nat \ {0},
         NEW k \in Nat \ {0}, NEW w \in Nat, NEW w2 \in Nat, w = w2 * k,
         NEW q, q = (w2 * y) \div (x * base + w2)
  PROVE  q <= (w * y) \div (x * (base * k) + w)
<1> DEFINE d2 == x * base + w2
           d == x * (base * k) + w
<1>1. /\ d2 \in Nat \ {0} /\ w2 * y \in Nat /\ w * y \in Nat
      /\ base * k \in Nat \ {0}
  OBVIOUS
<1>2. d \in Nat \ {0}
  BY <1>1
<1>3. d = d2 * k /\ w * y = (w2 * y) * k
  OBVIOUS
<1> HIDE DEF d, d2
<1>4. q \in Nat /\ q * d2 <= w2 * y
  BY <1>1, QuotientBelow DEF d2
<1>5. (q * d2) * k <= (w2 * y) * k
  <2>1. q * d2 \in Nat
    BY <1>1, <1>4
  <2>2. QED
    BY <1>1, <1>4, <2>1, ProductMonotone
<1>6. q * d <= w * y
  <2>1. q * (d2 * k) = (q * d2) * k
    BY <1>1, <1>4
  <2>2. QED
    BY <1>3, <1>5, <2>1
<1>7. QED
  BY <1>1, <1>2, <1>4, <1>6, QuotientIsMax DEF d

(* What divides a divisor of a number divides the number.                  *)
LEMMA DividesTransitive ==
  ASSUME NEW n \in Nat, NEW d \in Nat \ {0}, NEW e \in Nat \ {0},
         n % d = 0, d % e = 0
  PROVE  n % e = 0
<1>1. PICK i \in Nat : n = d * i
  <2>1. n = d * (n \div d) /\ n \div d \in Nat
    OBVIOUS
  <2>2. QED
    BY <2>1
<1>2. PICK j \in Nat : d = e * j
  <2>1. d = e * (d \div e) /\ d \div e \in Nat
    OBVIOUS
  <2>2. QED
    BY <2>1
<1>3. n = e * (j * i) /\ j * i \in Nat
  BY <1>1, <1>2
<1>4. PICK m \in Nat : n = e * m
  BY <1>3
<1>5. QED
  BY <1>4

(* The fee and its base in steps: the fee is never rounded up.             *)
LEMMA FeeSteps ==
  ASSUME NEW f \in 0..FeeBase
  PROVE  /\ StepOf(f) \in Nat \ {0}
         /\ FeeBase \div StepOf(f) \in Nat \ {0}
         /\ FeeBase = (FeeBase \div StepOf(f)) * StepOf(f)
         /\ FeeInSteps(f, StepOf(f)) \in Nat
         /\ FeeInSteps(f, StepOf(f)) * StepOf(f) <= f
         /\ f % Fine = 0 => FeeInSteps(f, StepOf(f)) * StepOf(f) = f
<1>1. /\ Coarse \in Nat \ {0} /\ Mid \in Nat \ {0} /\ Fine \in Nat \ {0}
      /\ FeeBase \in Nat \ {0} /\ f \in Nat
  BY QuoteAssumption
<1>2. FeeBase % Coarse = 0 /\ FeeBase % Mid = 0 /\ FeeBase % Fine = 0
  BY <1>1, DividesTransitive, QuoteAssumption
<1>3. PICK s \in Nat \ {0} : s = StepOf(f)
  BY <1>1, StepFits
<1>4. FeeBase % s = 0 /\ (f % Fine = 0 => f % s = 0)
  BY <1>2, <1>3 DEF StepOf
<1>5. FeeBase \div s \in Nat \ {0}
  BY <1>1, <1>3, StepFits
<1>6. FeeBase = (FeeBase \div s) * s
  BY <1>1, <1>4
<1>7. f \div s \in Nat /\ (f \div s) * s <= f
  BY <1>1, QuotientBelow
<1>8. f % s = 0 => (f \div s) * s = f
  BY <1>1
<1>9. QED
  BY <1>3, <1>4, <1>5, <1>6, <1>7, <1>8 DEF FeeInSteps

(* calc_uni2_out and getAmountOut with the same reserves and fee.          *)
LEMMA QuoteAgainstFacet ==
  ASSUME NEW x \in Nat, NEW y \in Nat, NEW amount \in Nat, NEW f \in 0..FeeBase,
         CalcUni2Out(x, y, amount, f) # NoAmount, GetAmountOut(x, y, amount, f) # NoAmount
  PROVE  /\ CalcUni2Out(x, y, amount, f) <= GetAmountOut(x, y, amount, f)
         /\ f % Fine = 0 =>
              CalcUni2Out(x, y, amount, f) = GetAmountOut(x, y, amount, f)
<1> DEFINE k == StepOf(f)
           base == FeeBase \div StepOf(f)
           fee2 == FeeInSteps(f, StepOf(f))
           q == CalcUni2Out(x, y, amount, f)
           p == GetAmountOut(x, y, amount, f)
<1>1. /\ x \in Nat \ {0} /\ y \in Nat \ {0} /\ f \in Nat
      /\ q = (WithoutFee(amount, f, FeeBase) * y)
                \div (x * FeeBase + WithoutFee(amount, f, FeeBase))
  BY QuoteAssumption DEF CalcUni2Out, AmountOut
<1>2. /\ fee2 <= base
      /\ p = (WithoutFee(amount, fee2, base) * y)
                \div (x * base + WithoutFee(amount, fee2, base))
  BY DEF GetAmountOut, AmountOut
<1>3. /\ k \in Nat \ {0} /\ base \in Nat \ {0} /\ FeeBase = base * k
      /\ fee2 \in Nat /\ fee2 * k <= f /\ (f % Fine = 0 => fee2 * k = f)
  BY FeeSteps
<1>4. FeeBase \in Nat \ {0} /\ f <= FeeBase
  BY QuoteAssumption
<1> HIDE DEF k, base, fee2, q, p
<1>5. PICK g \in Nat, g2 \in Nat : g = FeeBase - f /\ g2 = base - fee2
  <2>1. FeeBase - f \in Nat /\ base - fee2 \in Nat
    BY <1>1, <1>2, <1>3, <1>4
  <2>2. QED
    BY <2>1
<1>6. g <= g2 * k /\ (f % Fine = 0 => g = g2 * k)
  <2>1. g2 * k = base * k - fee2 * k
    BY <1>3, <1>5
  <2>2. base * k \in Nat /\ fee2 * k \in Nat
    BY <1>3
  <2>3. QED
    BY <1>1, <1>3, <1>5, <2>1, <2>2
<1>7. PICK w \in Nat, w2 \in Nat : w = amount * g /\ w2 = amount * g2
  <2>1. amount * g \in Nat /\ amount * g2 \in Nat
    OBVIOUS
  <2>2. QED
    BY <2>1
<1>8. w <= w2 * k /\ (f % Fine = 0 => w = w2 * k)
  <2>1. g2 * k \in Nat /\ w2 * k = (g2 * k) * amount /\ w = g * amount
    BY <1>3, <1>7
  <2>2. g * amount <= (g2 * k) * amount
    BY <1>6, <2>1, ProductMonotone
  <2>3. QED
    BY <1>6, <2>1, <2>2
<1>9. /\ q = (w * y) \div (x * (base * k) + w)
      /\ p = (w2 * y) \div (x * base + w2)
  BY <1>1, <1>2, <1>3, <1>5, <1>7 DEF WithoutFee
<1>10. q <= p
  BY <1>1, <1>3, <1>8, <1>9, MoreInMoreOut
<1>11. f % Fine = 0 => p <= q
  BY <1>1, <1>3, <1>8, <1>9, SameInSameOut
<1>12. q \in Nat /\ p \in Nat
  <2>1. /\ w * y \in Nat /\ w2 * y \in Nat /\ base * k \in Nat \ {0}
        /\ x * base + w2 \in Nat \ {0}
    BY <1>1, <1>3
  <2>2. x * (base * k) + w \in Nat \ {0}
    BY <1>1, <2>1
  <2>3. QED
    BY <1>9, <2>1, <2>2, QuotientBelow
<1>13. q <= p /\ (f % Fine = 0 => q = p)
  BY <1>10, <1>11, <1>12
<1>14. QED
  BY <1>13 DEF q, p

LEMMA NextQuoteIsPaid == BalancesInv /\ QuoteIsPaid /\ [Next]_vars => QuoteIsPaid'
<1> SUFFICES ASSUME BalancesInv, QuoteIsPaid, [Next]_vars PROVE QuoteIsPaid'
  OBVIOUS
<1>1. ASSUME NEW t \in Token, NEW amount \in 0..MaxAmount, Execute(t, amount)
      PROVE  QuoteIsPaid'
  <2>1. /\ last'.quoted = IF cache = pair THEN Quote(t, amount) ELSE NoAmount
        /\ last'.paid = FacetOut(t, amount) /\ fee' = fee /\ listed' = listed
    BY <1>1 DEF Execute
  <2>2. SUFFICES ASSUME cache = pair, Quote(t, amount) # NoAmount,
                        FacetOut(t, amount) # NoAmount, fee = listed
                 PROVE  /\ Quote(t, amount) <= FacetOut(t, amount)
                        /\ fee % Fine = 0 => Quote(t, amount) = FacetOut(t, amount)
    BY <2>1 DEF QuoteIsPaid
  <2>3. /\ pair[t] \in Nat /\ pair[Other(t)] \in Nat /\ amount \in Nat
        /\ fee \in 0..FeeBase
    BY Others, PoolAssumption DEF BalancesInv
  <2>4. QED
    BY <2>2, <2>3, QuoteAgainstFacet DEF Quote, FacetOut
<1>2. CASE ~\E t \in Token, amount \in 0..MaxAmount : Execute(t, amount)
  <2>1. CASE UNCHANGED vars
    BY <2>1 DEF QuoteIsPaid, vars
  <2>2. CASE Next
    <3>1. last' = NoTrade
      BY <1>2, <2>2 DEF Next, Simulate, Update, Fetch, ListFee
    <3>2. QED
      BY <3>1 DEF QuoteIsPaid, NoTrade
  <2>3. QED
    BY <2>1, <2>2
<1>3. QED
  BY <1>1, <1>2

(* A fresh entry with the current fee never promises more than the facet   *)
(* asks the pair for, and promises just that when the finest step of the   *)
(* facet divides the fee.                                                  *)
THEOREM QuoteIsPaidCorrect == Spec => []QuoteIsPaid
<1>1. Init => QuoteIsPaid
  BY DEF Init, QuoteIsPaid, NoTrade
<1>2. QED
  BY <1>1, BalancesCorrect, NextQuoteIsPaid, PTL DEF Spec

-----------------------------------------------------------------------------
(* Natural numbers, powers of two and quotients (FixedPoint).              *)

(* A set of natural numbers that is not empty has a least element.         *)
LEMMA Least ==
  ASSUME NEW T \in SUBSET Nat, T # {}
  PROVE  \E n \in T : \A m \in T : n <= m
<1>1. PICK n \in T : \A m \in T : ~(<<m, n>> \in OpToRel(<, Nat))
  BY NatLessThanWellFounded, WFMin
<1>2. ASSUME NEW m \in T, m < n PROVE FALSE
  <2>1. <<m, n>> \in Nat \X Nat /\ <<m, n>>[1] = m /\ <<m, n>>[2] = n
    OBVIOUS
  <2>2. <<m, n>> \in OpToRel(<, Nat)
    BY <1>2, <2>1 DEF OpToRel
  <2>3. QED
    BY <1>1, <2>2
<1>3. QED
  BY <1>2

-----------------------------------------------------------------------------
(* Powers of two.                                                          *)

(* f is a table of the powers of two up to n. *)
Doubles(f, n) ==
  /\ f \in [Nat -> Nat] /\ f[0] = 1
  /\ \A k \in Nat : k < n => f[k + 1] = 2 * f[k]

LEMMA TableExists == \A n \in Nat : \E f : Doubles(f, n)
<1> DEFINE T == {n \in Nat : ~\E f : Doubles(f, n)}
<1>1. SUFFICES ASSUME T # {} PROVE FALSE
  OBVIOUS
<1>2. PICK n \in T : \A m \in T : n <= m
  BY <1>1, Least
<1>3. n # 0
  <2>1. Doubles([k \in Nat |-> 1], 0)
    BY DEF Doubles
  <2>2. QED
    BY <1>2, <2>1
<1>4. n - 1 \in Nat /\ ~(n <= n - 1)
  BY <1>2, <1>3
<1>5. PICK f : Doubles(f, n - 1)
  BY <1>2, <1>4
<1>6. PICK g : g = [k \in Nat |-> IF k = n THEN 2 * f[n - 1] ELSE f[k]]
  OBVIOUS
<1>7. f \in [Nat -> Nat] /\ f[n - 1] \in Nat
  BY <1>4, <1>5 DEF Doubles
<1>8. g \in [Nat -> Nat] /\ g[0] = 1
  BY <1>2, <1>3, <1>5, <1>6, <1>7 DEF Doubles
<1>9. ASSUME NEW k \in Nat, k < n PROVE g[k + 1] = 2 * g[k]
  <2>1. g[k] = f[k]
    BY <1>2, <1>6, <1>9
  <2>2. CASE k = n - 1
    BY <1>2, <1>6, <2>1, <2>2
  <2>3. CASE k < n - 1
    <3>1. k + 1 # n /\ k + 1 \in Nat
      BY <1>2, <2>3
    <3>2. g[k + 1] = f[k + 1]
      BY <1>6, <3>1
    <3>3. QED
      BY <1>5, <2>1, <2>3, <3>2 DEF Doubles
  <2>4. QED
    BY <1>2, <1>9, <2>2, <2>3
<1>10. Doubles(g, n)
  BY <1>8, <1>9 DEF Doubles
<1>11. QED
  BY <1>2, <1>10

(* Two tables agree. *)
LEMMA TableUnique ==
  ASSUME NEW n \in Nat, NEW m \in Nat, NEW f, NEW g, Doubles(f, n), Doubles(g, m)
  PROVE  \A k \in Nat : k <= n /\ k <= m => f[k] = g[k]
<1> DEFINE T == {k \in Nat : k <= n /\ k <= m /\ f[k] # g[k]}
<1>1. SUFFICES ASSUME T # {} PROVE FALSE
  OBVIOUS
<1>2. PICK k \in T : \A j \in T : k <= j
  BY <1>1, Least
<1>3. k # 0
  BY <1>2 DEF Doubles
<1>4. PICK j \in Nat : k = j + 1
  <2>1. k - 1 \in Nat /\ k = (k - 1) + 1
    BY <1>2, <1>3
  <2>2. QED
    BY <2>1
<1>5. j < n /\ j < m /\ ~(k <= j)
  BY <1>2, <1>4
<1>6. f[j] = g[j]
  BY <1>2, <1>5
<1>7. QED
  BY <1>2, <1>4, <1>5, <1>6 DEF Doubles

LEMMA TwoToDefined == TwoTo = [n \in Nat |-> IF n = 0 THEN 1 ELSE 2 * TwoTo[n - 1]]
<1> DEFINE h == [n \in Nat |-> (CHOOSE f : Doubles(f, n))[n]]
           Value(f, n) == IF n = 0 THEN 1 ELSE 2 * f[n - 1]
<1>1. ASSUME NEW n \in Nat PROVE h[n] = Value(h, n)
  <2>1. PICK f : f = CHOOSE g : Doubles(g, n)
    OBVIOUS
  <2>2. Doubles(f, n) /\ h[n] = f[n]
    BY <2>1, TableExists
  <2>3. CASE n = 0
    BY <2>2, <2>3 DEF Doubles
  <2>4. CASE n # 0
    <3>1. PICK k \in Nat : n = k + 1
      <4>1. n - 1 \in Nat /\ n = (n - 1) + 1
        BY <2>4
      <4>2. QED
        BY <4>1
    <3>2. PICK g : g = CHOOSE e : Doubles(e, k)
      OBVIOUS
    <3>3. Doubles(g, k) /\ h[k] = g[k]
      BY <3>2, TableExists
    <3>4. f[k] = g[k]
      BY <2>2, <3>1, <3>3, TableUnique
    <3>5. f[n] = 2 * f[k] /\ n - 1 = k
      BY <2>2, <3>1 DEF Doubles
    <3>6. QED
      BY <2>2, <2>4, <3>3, <3>4, <3>5
  <2>5. QED
    BY <2>3, <2>4
<1>2. h = [n \in Nat |-> Value(h, n)]
  <2>1. h = [n \in Nat |-> h[n]]
    OBVIOUS
  <2> HIDE DEF h
  <2>2. QED
    BY <1>1, <2>1
<1>3. TwoTo = CHOOSE f : f = [n \in Nat |-> Value(f, n)]
  BY DEF TwoTo
<1> HIDE DEF h
<1>4. QED
  BY <1>2, <1>3

LEMMA TwoToStep ==
  /\ TwoTo \in [Nat -> Nat \ {0}] /\ TwoTo[0] = 1
  /\ \A n \in Nat : TwoTo[n + 1] = 2 * TwoTo[n]
<1>1. TwoTo[0] = 1
  BY TwoToDefined
<1>2. ASSUME NEW n \in Nat PROVE TwoTo[n + 1] = 2 * TwoTo[n]
  <2>1. n + 1 \in Nat /\ n + 1 # 0 /\ (n + 1) - 1 = n
    OBVIOUS
  <2>2. QED
    BY <2>1, TwoToDefined
<1>3. \A n \in Nat : TwoTo[n] \in Nat \ {0}
  <2> DEFINE T == {n \in Nat : TwoTo[n] \notin Nat \ {0}}
  <2>1. SUFFICES ASSUME T # {} PROVE FALSE
    OBVIOUS
  <2>2. PICK n \in T : \A m \in T : n <= m
    BY <2>1, Least
  <2>3. n # 0
    BY <1>1, <2>2
  <2>4. n - 1 \in Nat /\ n = (n - 1) + 1 /\ ~(n <= n - 1)
    BY <2>2, <2>3
  <2>5. TwoTo[n - 1] \in Nat \ {0}
    BY <2>2, <2>4
  <2>6. TwoTo[n] = 2 * TwoTo[n - 1]
    BY <1>2, <2>4
  <2>7. QED
    BY <2>2, <2>5, <2>6
<1>4. TwoTo \in [Nat -> Nat \ {0}]
  <2>1. \E e : TwoTo = [n \in Nat |-> IF n = 0 THEN 1 ELSE 2 * e[n - 1]]
    BY TwoToDefined
  <2>2. QED
    BY <1>3, <2>1
<1>5. QED
  BY <1>1, <1>2, <1>4

(* The law of exponents. *)
LEMMA TwoToSum == \A a, b \in Nat : TwoTo[a + b] = TwoTo[a] * TwoTo[b]
<1>1. SUFFICES ASSUME NEW a \in Nat PROVE \A b \in Nat : TwoTo[a + b] = TwoTo[a] * TwoTo[b]
  OBVIOUS
<1> DEFINE T == {b \in Nat : TwoTo[a + b] # TwoTo[a] * TwoTo[b]}
<1>2. SUFFICES ASSUME T # {} PROVE FALSE
  OBVIOUS
<1>3. PICK b \in T : \A m \in T : b <= m
  BY <1>2, Least
<1>4. b # 0
  <2>1. TwoTo[a] \in Nat /\ TwoTo[a + 0] = TwoTo[a] /\ TwoTo[0] = 1
    BY TwoToStep
  <2>2. TwoTo[a + 0] = TwoTo[a] * TwoTo[0]
    BY <2>1
  <2>3. QED
    BY <1>3, <2>2
<1>5. PICK c \in Nat : b = c + 1
  <2>1. b - 1 \in Nat /\ b = (b - 1) + 1
    BY <1>3, <1>4
  <2>2. QED
    BY <2>1
<1>6. TwoTo[a + c] = TwoTo[a] * TwoTo[c]
  BY <1>3, <1>5
<1>7. PICK x \in Nat : x = TwoTo[a]
  BY TwoToStep
<1>8. PICK y \in Nat : y = TwoTo[c]
  BY TwoToStep
<1>9. TwoTo[b] = 2 * y
  BY <1>5, <1>8, TwoToStep
<1>10. TwoTo[a + b] = 2 * (x * y)
  <2>1. a + b = (a + c) + 1 /\ a + c \in Nat
    BY <1>5
  <2>2. QED
    BY <1>6, <1>7, <1>8, <2>1, TwoToStep
<1>11. 2 * (x * y) = x * (2 * y)
  OBVIOUS
<1>12. QED
  BY <1>3, <1>7, <1>9, <1>10, <1>11

-----------------------------------------------------------------------------
(* A quotient, rounded down, and rounded up in the two ways of the code.   *)

LEMMA DivMod ==
  ASSUME NEW n \in Int, NEW d \in Nat \ {0}
  PROVE  /\ n \div d \in Int /\ n % d \in 0..(d - 1)
         /\ n = (n \div d) * d + (n % d)
         /\ n >= 0 => n \div d \in Nat
OBVIOUS

LEMMA QuotientUnique ==
  ASSUME NEW q \in Int, NEW d \in Nat \ {0}, NEW r \in 0..(d - 1)
  PROVE  (q * d + r) \div d = q /\ (q * d + r) % d = r
<1>1. PICK p, s : p = (q * d + r) \div d /\ s = (q * d + r) % d
  OBVIOUS
<1>2. /\ p \in Int /\ s \in 0..(d - 1)
      /\ q * d + r = p * d + s
  BY <1>1, DivMod
<1>3. PICK e \in Int : e = q - p
  BY <1>2
<1>4. e * d = s - r
  <2>1. (q - p) * d = q * d - p * d
    BY <1>2
  <2>2. q * d \in Int /\ p * d \in Int
    BY <1>2
  <2>3. QED
    BY <1>2, <1>3, <2>1, <2>2
<1>5. ~(e >= 1)
  <2>1. SUFFICES ASSUME e >= 1 PROVE FALSE
    OBVIOUS
  <2>2. PICK f \in Nat : e = 1 + f
    <3>1. e - 1 \in Nat /\ e = 1 + (e - 1)
      BY <1>3, <2>1
    <3>2. QED
      BY <3>1
  <2>3. e * d = d + f * d /\ f * d \in Nat
    BY <2>2
  <2>4. QED
    BY <1>2, <1>4, <2>3
<1>6. ~(e <= -1)
  <2>1. SUFFICES ASSUME e <= -1 PROVE FALSE
    OBVIOUS
  <2>2. PICK f \in Nat : e = -1 - f
    <3>1. -1 - e \in Nat /\ e = -1 - (-1 - e)
      BY <1>3, <2>1
    <3>2. QED
      BY <3>1
  <2>3. e * d = -d - f * d /\ f * d \in Nat
    BY <2>2
  <2>4. QED
    BY <1>2, <1>4, <2>3
<1>7. e = 0
  BY <1>3, <1>5, <1>6
<1>8. QED
  BY <1>1, <1>2, <1>3, <1>4, <1>7

LEMMA RoundsDown ==
  ASSUME NEW n \in Nat, NEW d \in Nat \ {0}
  PROVE  n - (n \div d) * d \in 0..(d - 1)
<1>1. PICK q, r : q = n \div d /\ r = n % d
  OBVIOUS
<1>2. q \in Int /\ r \in 0..(d - 1) /\ n = q * d + r
  BY <1>1, DivMod
<1>3. q * d \in Int
  BY <1>2
<1>4. QED
  BY <1>1, <1>2, <1>3

LEMMA RoundsUp ==
  ASSUME NEW n \in Nat, NEW d \in Nat \ {0}
  PROVE  (n \div d + (IF n % d > 0 THEN 1 ELSE 0)) * d - n \in 0..(d - 1)
<1>1. PICK q, r : q = n \div d /\ r = n % d
  OBVIOUS
<1>2. q \in Int /\ r \in 0..(d - 1) /\ n = q * d + r
  BY <1>1, DivMod
<1>3. q * d \in Int /\ (q + 1) * d = q * d + d /\ (q + 0) * d = q * d
  BY <1>2
<1>4. QED
  BY <1>1, <1>2, <1>3

LEMMA RoundsUpFromBelow ==
  ASSUME NEW n \in Nat \ {0}, NEW d \in Nat \ {0}
  PROVE  ((n - 1) \div d + 1) * d - n \in 0..(d - 1)
<1>1. PICK m \in Nat : m = n - 1
  OBVIOUS
<1>2. PICK q, r : q = m \div d /\ r = m % d
  OBVIOUS
<1>3. q \in Int /\ r \in 0..(d - 1) /\ m = q * d + r
  BY <1>2, DivMod
<1>4. q * d \in Int /\ (q + 1) * d = q * d + d
  BY <1>3
<1>5. QED
  BY <1>1, <1>2, <1>3, <1>4

(* What fits is not cut. *)
LEMMA NotCut ==
  ASSUME NEW v \in Nat, InU256(v)
  PROVE  LowerHalf(v) = v
<1>1. PICK w \in Nat \ {0} : w = TwoTo[Bits]
  BY TwoToStep, MathAssumption
<1>2. v \in 0..(w - 1) /\ MaxU256 + 1 = w
  BY <1>1 DEF InU256, MaxU256
<1>3. v % w = v
  <2>1. (0 * w + v) % w = v
    BY <1>1, <1>2, QuotientUnique
  <2>2. 0 * w + v = v
    BY <1>1
  <2>3. QED
    BY <2>1, <2>2
<1>4. QED
  BY <1>2, <1>3 DEF LowerHalf

-----------------------------------------------------------------------------
(* The functions of one step that round.                                   *)

Rounding == Downwards \cup Upwards

(* A call keeps its function and its arguments. *)
CallInv == <<fn, arg>> \in Calls

LEMMA KeepsCall == [MathNext]_mathVars => UNCHANGED <<fn, arg>>
BY DEF MathNext, mathVars, Scaled, UnsafeDivRoundingUp, Mul256, MulDiv, MulDivRoundingUp, Complement,
       GetTwosAndTwosReverse, SqrtCall, SqrtRound, InvCall, InvRound, SortCall, SortShift,
       SortPlace, Returns, Panics, Loops

LEMMA InitCall == MathInit => CallInv /\ pc = "call"
<1> SUFFICES ASSUME MathInit PROVE CallInv /\ pc = "call"
  OBVIOUS
<1>1. PICK c \in Calls : fn = c[1] /\ arg = c[2]
  BY DEF MathInit
<1>2. c = <<c[1], c[2]>>
  BY <1>1 DEF Calls
<1>3. QED
  BY <1>1, <1>2 DEF CallInv, MathInit

LEMMA CallInvariance == MathSpec => []CallInv
<1>1. CallInv /\ [MathNext]_mathVars => CallInv'
  BY KeepsCall DEF CallInv, Calls, Number, Pair, Arrays, MaxU256
<1>2. QED
  BY <1>1, InitCall, PTL DEF MathSpec

LEMMA RoundingArguments ==
  ASSUME CallInv, fn \in Rounding
  PROVE  /\ arg[1] \in Nat /\ arg[2] \in Nat
         /\ fn \in {"muldiv", "muldiv_rounding_up"} => arg[3] \in Nat
<1>1. Numbers \subseteq Nat
  <2>1. MaxU256 \in Int
    BY TwoToStep, MathAssumption DEF MaxU256
  <2>2. QED
    BY <2>1, MathAssumption
<1>2. CASE fn \in {"muldiv", "muldiv_rounding_up"}
  <2>1. arg \in Numbers \X Numbers \X Numbers
    BY <1>2 DEF CallInv, Calls
  <2>2. QED
    BY <1>1, <2>1
<1>3. CASE fn \notin {"muldiv", "muldiv_rounding_up"}
  <2>1. arg \in Numbers \X Numbers
    BY <1>3 DEF CallInv, Calls, Rounding, Downwards, Upwards, Pair
  <2>2. QED
    BY <1>1, <1>3, <2>1
<1>4. QED
  BY <1>2, <1>3

(* The step in which a function that rounds is done. *)
LEMMA RoundingStep ==
  ASSUME CallInv, MathNext, fn \in Rounding, pc' = "done", result' # <<>>,
         InU256(Numerator \div Denominator)
  PROVE  /\ Denominator \in Nat \ {0} /\ Numerator \in Nat
         /\ fn \in Downwards => result'[1] = Numerator \div Denominator
         /\ fn \in Upwards =>
              \/ result'[1] = Numerator \div Denominator
                              + (IF Numerator % Denominator > 0 THEN 1 ELSE 0)
              \/ Numerator > 0 /\ result'[1] = (Numerator - 1) \div Denominator + 1
<1> DEFINE Goal ==
      /\ Denominator \in Nat \ {0} /\ Numerator \in Nat
      /\ fn \in Downwards => result'[1] = Numerator \div Denominator
      /\ fn \in Upwards =>
           \/ result'[1] = Numerator \div Denominator
                           + (IF Numerator % Denominator > 0 THEN 1 ELSE 0)
           \/ Numerator > 0 /\ result'[1] = (Numerator - 1) \div Denominator + 1
<1>1. /\ arg[1] \in Nat /\ arg[2] \in Nat
      /\ fn \in {"muldiv", "muldiv_rounding_up"} => arg[3] \in Nat
  BY RoundingArguments
<1>2. One \in Nat \ {0}
  BY MathAssumption
<1>3. arg[1] * arg[2] \in Nat /\ arg[1] * One \in Nat
  BY <1>1, <1>2
<1>4. CASE fn = "mul_up"
  <2>1. Numerator = arg[1] * arg[2] /\ Denominator = One /\ fn \notin Downwards
    BY <1>4 DEF Numerator, Denominator, Downwards
  <2>2. result' = MulUp(arg[1], arg[2])
    BY <1>4 DEF MathNext, Scaled, UnsafeDivRoundingUp, Mul256, MulDiv, MulDivRoundingUp,
                Complement, GetTwosAndTwosReverse, SqrtCall, SqrtRound, InvCall, InvRound,
                SortCall, SortShift, SortPlace, Called, Looping, Returns
  <2>3. Numerator # 0 /\ result' = <<(Numerator - 1) \div One + 1>>
    BY <2>1, <2>2 DEF MulUp
  <2>4. QED
    BY <1>2, <1>3, <2>1, <2>3
<1>5. CASE fn = "mul_down"
  <2>1. Numerator = arg[1] * arg[2] /\ Denominator = One /\ fn \notin Upwards
    BY <1>5 DEF Numerator, Denominator, Upwards
  <2>2. result' = MulDown(arg[1], arg[2])
    BY <1>5 DEF MathNext, Scaled, UnsafeDivRoundingUp, Mul256, MulDiv, MulDivRoundingUp,
                Complement, GetTwosAndTwosReverse, SqrtCall, SqrtRound, InvCall, InvRound,
                SortCall, SortShift, SortPlace, Called, Looping, Returns
  <2>3. result' = <<Numerator \div One>>
    BY <2>1, <2>2 DEF MulDown
  <2>4. QED
    BY <1>2, <1>3, <2>1, <2>3
<1>6. CASE fn = "div_up"
  <2>1. Numerator = arg[1] * One /\ Denominator = arg[2] /\ fn \notin Downwards
    BY <1>6 DEF Numerator, Denominator, Downwards
  <2>2. result' = DivUp(arg[1], arg[2])
    BY <1>6 DEF MathNext, Scaled, UnsafeDivRoundingUp, Mul256, MulDiv, MulDivRoundingUp,
                Complement, GetTwosAndTwosReverse, SqrtCall, SqrtRound, InvCall, InvRound,
                SortCall, SortShift, SortPlace, Called, Looping, Returns
  <2>3. arg[2] # 0
    BY <2>2 DEF DivUp
  <2>4. CASE arg[1] = 0
    <3>1. result' = <<0>> /\ Numerator = 0
      BY <1>2, <2>1, <2>2, <2>3, <2>4 DEF DivUp
    <3>2. 0 \div arg[2] = 0 /\ 0 % arg[2] = 0
      BY <1>1, <2>3
    <3>3. QED
      BY <1>1, <1>3, <2>1, <2>3, <3>1, <3>2
  <2>5. CASE arg[1] # 0
    <3>1. result' = <<(Numerator - 1) \div arg[2] + 1>>
      BY <2>1, <2>2, <2>3, <2>5 DEF DivUp
    <3>2. Numerator > 0
      BY <1>1, <1>2, <2>1, <2>5
    <3>3. QED
      BY <1>1, <1>3, <2>1, <2>3, <3>1, <3>2
  <2>6. QED
    BY <2>4, <2>5
<1>7. CASE fn = "div_down"
  <2>1. Numerator = arg[1] * One /\ Denominator = arg[2] /\ fn \notin Upwards
    BY <1>7 DEF Numerator, Denominator, Upwards
  <2>2. result' = DivDown(arg[1], arg[2])
    BY <1>7 DEF MathNext, Scaled, UnsafeDivRoundingUp, Mul256, MulDiv, MulDivRoundingUp,
                Complement, GetTwosAndTwosReverse, SqrtCall, SqrtRound, InvCall, InvRound,
                SortCall, SortShift, SortPlace, Called, Looping, Returns
  <2>3. arg[2] # 0
    BY <2>2 DEF DivDown
  <2>4. CASE arg[1] = 0
    <3>1. result' = <<0>> /\ Numerator = 0
      BY <1>2, <2>1, <2>2, <2>3, <2>4 DEF DivDown
    <3>2. 0 \div arg[2] = 0
      BY <1>1, <2>3
    <3>3. QED
      BY <1>1, <1>3, <2>1, <2>3, <3>1, <3>2
  <2>5. CASE arg[1] # 0
    <3>1. result' = <<Numerator \div arg[2]>>
      BY <2>1, <2>2, <2>3, <2>5 DEF DivDown
    <3>2. QED
      BY <1>1, <1>3, <2>1, <2>3, <3>1
  <2>6. QED
    BY <2>4, <2>5
<1>8. CASE fn = "muldiv"
  <2>1. Numerator = arg[1] * arg[2] /\ Denominator = arg[3] /\ fn \notin Upwards
    BY <1>8 DEF Numerator, Denominator, Upwards
  <2>2. arg[3] # 0 /\ result' = <<LowerHalf(Numerator \div Denominator)>>
    BY <1>8, <2>1 DEF MathNext, Scaled, UnsafeDivRoundingUp, Mul256, MulDiv, MulDivRoundingUp,
                Complement, GetTwosAndTwosReverse, SqrtCall, SqrtRound, InvCall, InvRound,
                SortCall, SortShift, SortPlace, Called, Looping, Returns, Panics
  <2>3. arg[3] \in Nat \ {0} /\ Numerator \div Denominator \in Nat
    <3>1. PICK d \in Nat \ {0} : d = arg[3]
      BY <1>1, <1>8, <2>2
    <3>2. PICK n \in Nat : n = Numerator
      BY <1>3, <2>1
    <3>3. n \div d \in Nat
      BY DivMod
    <3>4. QED
      BY <2>1, <3>1, <3>2, <3>3
  <2>4. LowerHalf(Numerator \div Denominator) = Numerator \div Denominator
    BY <2>3, NotCut
  <2>5. QED
    BY <1>3, <2>1, <2>2, <2>3, <2>4
<1>9. CASE fn = "muldiv_rounding_up"
  <2>1. Numerator = arg[1] * arg[2] /\ Denominator = arg[3] /\ fn \notin Downwards
    BY <1>9 DEF Numerator, Denominator, Downwards
  <2>2. /\ arg[3] # 0
        /\ result' = <<LowerHalf(Numerator \div Denominator)
                       + (IF Numerator % Denominator > 0 THEN 1 ELSE 0)>>
    BY <1>9, <2>1 DEF MathNext, Scaled, UnsafeDivRoundingUp, Mul256, MulDiv, MulDivRoundingUp,
                Complement, GetTwosAndTwosReverse, SqrtCall, SqrtRound, InvCall, InvRound,
                SortCall, SortShift, SortPlace, Called, Looping, Returns, Panics
  <2>3. arg[3] \in Nat \ {0} /\ Numerator \div Denominator \in Nat
    <3>1. PICK d \in Nat \ {0} : d = arg[3]
      BY <1>1, <1>9, <2>2
    <3>2. PICK n \in Nat : n = Numerator
      BY <1>3, <2>1
    <3>3. n \div d \in Nat
      BY DivMod
    <3>4. QED
      BY <2>1, <3>1, <3>2, <3>3
  <2>4. LowerHalf(Numerator \div Denominator) = Numerator \div Denominator
    BY <2>3, NotCut
  <2>5. QED
    BY <1>3, <2>1, <2>2, <2>3, <2>4
<1>10. CASE fn = "unsafe_div_rounding_up"
  <2>1. Numerator = arg[1] /\ Denominator = arg[2] /\ fn \notin Downwards
    BY <1>10 DEF Numerator, Denominator, Downwards
  <2>2. /\ arg[2] # 0
        /\ result' = <<Numerator \div Denominator
                       + (IF Numerator % Denominator > 0 THEN 1 ELSE 0)>>
    BY <1>10, <2>1 DEF MathNext, Scaled, UnsafeDivRoundingUp, Mul256, MulDiv, MulDivRoundingUp,
                Complement, GetTwosAndTwosReverse, SqrtCall, SqrtRound, InvCall, InvRound,
                SortCall, SortShift, SortPlace, Called, Looping, Returns, Panics
  <2>3. QED
    BY <1>1, <2>1, <2>2
<1>11. QED
  BY <1>4, <1>5, <1>6, <1>7, <1>8, <1>9, <1>10 DEF Rounding, Downwards, Upwards

(* The functions that round a fraction down or up return it, or the        *)
(* integer next to it on their side, whatever the widths and the numbers.  *)
THEOREM RoundsBothWaysCorrect == MathSpec => []RoundsBothWays
<1>1. MathInit => RoundsBothWays
  BY InitCall DEF RoundsBothWays
<1>2. ASSUME CallInv, RoundsBothWays, [MathNext]_mathVars PROVE RoundsBothWays'
  <2>1. UNCHANGED <<fn, arg>>
    BY <1>2, KeepsCall
  <2>2. Numerator' = Numerator /\ Denominator' = Denominator
    BY <2>1 DEF Numerator, Denominator
  <2>3. CASE UNCHANGED mathVars
    BY <1>2, <2>2, <2>3 DEF RoundsBothWays, mathVars, InU256, MaxU256
  <2>4. CASE MathNext
    <3>1. SUFFICES ASSUME pc' = "done", result' # <<>>, fn \in Rounding,
                          InU256(Numerator \div Denominator)
                   PROVE  (IF fn \in Downwards THEN Numerator - result'[1] * Denominator
                           ELSE result'[1] * Denominator - Numerator) \in 0..(Denominator - 1)
      BY <2>1, <2>2 DEF RoundsBothWays, Rounding, InU256, MaxU256
    <3>2. PICK n, d, r : n = Numerator /\ d = Denominator /\ r = result'[1]
      OBVIOUS
    <3>3. /\ d \in Nat \ {0} /\ n \in Nat
          /\ fn \in Downwards => r = n \div d
          /\ fn \in Upwards =>
               \/ r = n \div d + (IF n % d > 0 THEN 1 ELSE 0)
               \/ n > 0 /\ r = (n - 1) \div d + 1
      BY <1>2, <2>4, <3>1, <3>2, RoundingStep
    <3>4. CASE fn \in Downwards
      BY <3>2, <3>3, <3>4, RoundsDown
    <3>5. CASE fn \notin Downwards
      <4>1. fn \in Upwards
        BY <3>1, <3>5 DEF Rounding
      <4>2. n > 0 => n \in Nat \ {0}
        BY <3>3
      <4>3. QED
        BY <3>2, <3>3, <3>5, <4>1, <4>2, RoundsUp, RoundsUpFromBelow
    <3>6. QED
      BY <3>4, <3>5
  <2>5. QED
    BY <1>2, <2>3, <2>4
<1>3. QED
  BY <1>1, <1>2, CallInvariance, PTL DEF MathSpec

-----------------------------------------------------------------------------
(* The inverse modulo a power of two.                                      *)

LEMMA SmallPowers == TwoTo[1] = 2 /\ TwoTo[5] = 32
<1>1. TwoTo[0 + 1] = 2 * TwoTo[0] /\ TwoTo[1 + 1] = 2 * TwoTo[1] /\ TwoTo[2 + 1] = 2 * TwoTo[2]
      /\ TwoTo[3 + 1] = 2 * TwoTo[3] /\ TwoTo[4 + 1] = 2 * TwoTo[4] /\ TwoTo[0] = 1
  BY TwoToStep
<1>2. QED
  BY <1>1

LEMMA ParityOf ==
  ASSUME NEW k \in Nat
  PROVE  \E j \in Nat : k = 2 * j \/ k = 2 * j + 1
<1>1. k \div 2 \in Nat /\ (k = 2 * (k \div 2) \/ k = 2 * (k \div 2) + 1)
  OBVIOUS
<1>2. QED
  BY <1>1

(* n is one more than a multiple of m. *)
OneMod(n, m) == \E c \in Int : n = 1 + c * m

(* The first guess, 3 * odd XOR 2, is right in five bits. *)
LEMMA FirstGuess ==
  ASSUME NEW odd \in Nat, odd % 2 = 1
  PROVE  /\ XorTwo(3 * odd) \in Nat
         /\ OneMod(odd * XorTwo(3 * odd), 32)
<1>1. PICK h \in Nat : odd = 2 * h + 1
  BY ParityOf
<1>2. PICK k \in Nat : h = 2 * k \/ h = 2 * k + 1
  BY ParityOf
<1>3. PICK j \in Nat : k = 2 * j \/ k = 2 * j + 1
  BY ParityOf
<1>4. CASE h = 2 * k
  <2>1. odd = 4 * k + 1 /\ 3 * odd = 12 * k + 3
    BY <1>1, <1>2, <1>4
  <2>2. ((3 * odd) \div 2) % 2 = 1
    BY <2>1
  <2>3. XorTwo(3 * odd) = 12 * k + 1
    BY <2>1, <2>2 DEF XorTwo
  <2>4. odd * XorTwo(3 * odd) = 1 + 16 * (k * (3 * k + 1))
    BY <2>1, <2>3
  <2>5. \E e \in Nat : k * (3 * k + 1) = 2 * e
    <3>1. CASE k = 2 * j
      <4>1. k * (3 * k + 1) = 2 * (j * (6 * j + 1)) /\ j * (6 * j + 1) \in Nat
        BY <3>1
      <4>2. QED
        BY <4>1
    <3>2. CASE k = 2 * j + 1
      <4>1. k * (3 * k + 1) = 2 * ((2 * j + 1) * (3 * j + 2)) /\ (2 * j + 1) * (3 * j + 2) \in Nat
        BY <3>2
      <4>2. QED
        BY <4>1
    <3>3. QED
      BY <1>3, <3>1, <3>2
  <2>6. PICK e \in Nat : k * (3 * k + 1) = 2 * e
    BY <2>5
  <2>7. odd * XorTwo(3 * odd) = 1 + e * 32
    BY <2>4, <2>6
  <2>8. OneMod(odd * XorTwo(3 * odd), 32)
    <3> SUFFICES \E c \in Int : odd * XorTwo(3 * odd) = 1 + c * 32
      BY DEF OneMod
    <3> WITNESS e \in Int
    <3> QED
      BY <2>7
  <2>9. XorTwo(3 * odd) \in Nat
    BY <2>3
  <2>10. QED
    BY <2>8, <2>9
<1>5. CASE h = 2 * k + 1
  <2>1. odd = 4 * k + 3 /\ 3 * odd = 12 * k + 9
    BY <1>1, <1>2, <1>5
  <2>2. ((3 * odd) \div 2) % 2 = 0
    BY <2>1
  <2>3. XorTwo(3 * odd) = 12 * k + 11
    BY <2>1, <2>2 DEF XorTwo
  <2>4. odd * XorTwo(3 * odd) = 33 + 16 * (k * (3 * k + 5))
    BY <2>1, <2>3
  <2>5. \E e \in Nat : k * (3 * k + 5) = 2 * e
    <3>1. CASE k = 2 * j
      <4>1. k * (3 * k + 5) = 2 * (j * (6 * j + 5)) /\ j * (6 * j + 5) \in Nat
        BY <3>1
      <4>2. QED
        BY <4>1
    <3>2. CASE k = 2 * j + 1
      <4>1. k * (3 * k + 5) = 2 * ((2 * j + 1) * (3 * j + 4)) /\ (2 * j + 1) * (3 * j + 4) \in Nat
        BY <3>2
      <4>2. QED
        BY <4>1
    <3>3. QED
      BY <1>3, <3>1, <3>2
  <2>6. PICK e \in Nat : k * (3 * k + 5) = 2 * e
    BY <2>5
  <2>7. odd * XorTwo(3 * odd) = 1 + (e + 1) * 32
    BY <2>4, <2>6
  <2>9. OneMod(odd * XorTwo(3 * odd), 32)
    <3> SUFFICES \E c \in Int : odd * XorTwo(3 * odd) = 1 + c * 32
      BY DEF OneMod
    <3> WITNESS e + 1 \in Int
    <3> QED
      BY <2>7
  <2>10. XorTwo(3 * odd) \in Nat
    BY <2>3
  <2>11. QED
    BY <2>9, <2>10
<1>6. QED
  BY <1>2, <1>4, <1>5

(* A round of Newton on numbers below w: two products, cut. *)
NewtonRound(odd, inv, w, next) ==
  \E mul, h, g \in Int : odd * inv = h * w + mul /\ inv * (w + 2 - mul) = g * w + next

(* inv is an inverse modulo m; and modulo every divisor of m and w. *)
Inverts(odd, inv, m) == OneMod(odd * inv, m)
InvertsBoth(odd, inv, m, w) == \E d, e \in Int : odd * inv = 1 + d * m + e * w

(* It squares what the product misses one by. *)
LEMMA RoundSquares ==
  ASSUME NEW odd \in Nat, NEW inv \in Nat, NEW w \in Nat \ {0}, NEW m \in Nat, NEW next \in Nat,
         Inverts(odd, inv, m), NewtonRound(odd, inv, w, next)
  PROVE  InvertsBoth(odd, next, m * m, w)
<1>0. PICK c \in Int : odd * inv = 1 + c * m
  BY DEF Inverts, OneMod
<1>00. PICK mul \in Int, h \in Int, g \in Int :
         odd * inv = h * w + mul /\ inv * (w + 2 - mul) = g * w + next
  BY DEF NewtonRound
<1>1. PICK p \in Int : p = c * m
  OBVIOUS
<1>2. PICK n \in Nat : n = odd * inv
  OBVIOUS
<1>3. n = h * w + mul
  BY <1>00, <1>2
<1>5. PICK f \in Int : f = w + 2 - mul
  OBVIOUS
<1>6. PICK t \in Int : t = inv * f
  OBVIOUS
<1>8. t = g * w + next
  BY <1>00, <1>5, <1>6
<1>9. f = 1 - p + (h + 1) * w
  <2>1. n = 1 + p
    BY <1>0, <1>1, <1>2
  <2>2. (h + 1) * w = h * w + w /\ h * w \in Int
    OBVIOUS
  <2>3. QED
    BY <1>3, <1>5, <2>1, <2>2
<1>10. odd * t = (1 + p) * f
  <2>1. odd * (inv * f) = (odd * inv) * f
    BY <1>5
  <2>2. QED
    BY <1>0, <1>1, <1>6, <2>1
<1>11. (1 + p) * f = 1 - p * p + ((1 + p) * (h + 1)) * w
  <2>1. PICK k \in Int : k = h + 1
    OBVIOUS
  <2>2. (1 + p) * (1 - p + k * w) = 1 - p * p + ((1 + p) * k) * w
    OBVIOUS
  <2>3. QED
    BY <1>9, <2>1, <2>2
<1>12. odd * next = odd * t - (odd * g) * w
  <2>1. next = t - g * w
    <3>1. g * w \in Int
      OBVIOUS
    <3>2. QED
      BY <1>8, <3>1
  <2>2. odd * (t - g * w) = odd * t - (odd * g) * w
    OBVIOUS
  <2>3. QED
    BY <2>1, <2>2
<1>13. p * p = (c * c) * (m * m)
  BY <1>1
<1>14. PICK d \in Int : d = -(c * c)
  OBVIOUS
<1>15. PICK e \in Int : e = (1 + p) * (h + 1) - odd * g
  OBVIOUS
<1>16. d * (m * m) = -(p * p)
  BY <1>13, <1>14
<1>17. e * w = ((1 + p) * (h + 1)) * w - (odd * g) * w
  BY <1>15
<1>18. odd * next = 1 + d * (m * m) + e * w
  <2>1. PICK x \in Int : x = ((1 + p) * (h + 1)) * w
    OBVIOUS
  <2>2. PICK y \in Int : y = (odd * g) * w
    OBVIOUS
  <2>3. PICK z \in Int : z = p * p
    OBVIOUS
  <2>4. odd * next = 1 - z + x - y
    BY <1>10, <1>11, <1>12, <2>1, <2>2, <2>3
  <2>5. QED
    BY <1>16, <1>17, <2>1, <2>2, <2>3, <2>4
<1>19. QED
  BY <1>18 DEF InvertsBoth

LEMMA OneModDivides ==
  ASSUME NEW n \in Int, NEW m \in Nat, NEW k \in Nat, OneMod(n, m * k)
  PROVE  OneMod(n, m)
<1>1. PICK c \in Int : n = 1 + c * (m * k)
  BY DEF OneMod
<1>2. c * (m * k) = (c * k) * m /\ c * k \in Int
  OBVIOUS
<1>3. QED
  BY <1>1, <1>2 DEF OneMod

(* After a number of rounds inv is right in Bits bits, or in five bits     *)
(* doubled as often.                                                       *)
RightBits(odd, inv, round) ==
  \/ Inverts(odd, inv, TwoTo[Bits])
  \/ 5 * TwoTo[round] < Bits /\ Inverts(odd, inv, TwoTo[5 * TwoTo[round]])

LEMMA FirstBits ==
  ASSUME NEW odd \in Nat, odd % 2 = 1
  PROVE  XorTwo(3 * odd) \in Nat /\ RightBits(odd, XorTwo(3 * odd), 0)
<1>1. PICK inv \in Nat : inv = XorTwo(3 * odd)
  BY FirstGuess
<1>2. OneMod(odd * inv, 32)
  BY <1>1, FirstGuess
<1>3. 5 * TwoTo[0] = 5 /\ TwoTo[5] = 32 /\ Bits \in Nat
  BY TwoToStep, SmallPowers, MathAssumption
<1>4. CASE 5 < Bits
  BY <1>1, <1>2, <1>3, <1>4 DEF RightBits, Inverts
<1>5. CASE ~(5 < Bits)
  <2>1. 5 - Bits \in Nat /\ Bits + (5 - Bits) = 5
    BY <1>3, <1>5
  <2>2. 32 = TwoTo[Bits] * TwoTo[5 - Bits] /\ TwoTo[Bits] \in Nat /\ TwoTo[5 - Bits] \in Nat
    BY <1>3, <2>1, TwoToSum, TwoToStep
  <2>3. Inverts(odd, inv, TwoTo[Bits])
    BY <1>2, <2>2, OneModDivides DEF Inverts
  <2>4. QED
    BY <1>1, <2>3 DEF RightBits
<1>6. QED
  BY <1>4, <1>5

LEMMA BitsDouble ==
  ASSUME NEW odd \in Nat, NEW inv \in Nat, NEW r \in Nat,
         5 * TwoTo[r] < Bits, Inverts(odd, inv, TwoTo[5 * TwoTo[r]]),
         NEW w \in Nat \ {0}, w = TwoTo[Bits],
         NEW next \in Nat, NewtonRound(odd, inv, w, next)
  PROVE  RightBits(odd, next, r + 1)
<1>1. PICK a \in Nat : a = 5 * TwoTo[r]
  BY TwoToStep
<1>2. PICK m \in Nat : m = TwoTo[a]
  BY TwoToStep
<1>3. Inverts(odd, inv, m)
  BY <1>1, <1>2
<1>4. InvertsBoth(odd, next, m * m, w)
  BY <1>3, RoundSquares
<1>5. PICK d \in Int, e \in Int : odd * next = 1 + d * (m * m) + e * w
  BY <1>4 DEF InvertsBoth
<1>6. 5 * TwoTo[r + 1] = a + a /\ a + a \in Nat /\ TwoTo[a + a] = m * m
  <2>1. TwoTo[r + 1] = 2 * TwoTo[r] /\ TwoTo[r] \in Nat
    BY TwoToStep
  <2>2. TwoTo[a + a] = TwoTo[a] * TwoTo[a]
    BY TwoToSum
  <2>3. QED
    BY <1>1, <1>2, <2>1, <2>2
<1>7. Bits \in Nat
  BY MathAssumption
<1>8. CASE Bits <= a + a
  <2>1. PICK b \in Nat : a + a = Bits + b
    <3>1. a + a - Bits \in Nat /\ a + a = Bits + (a + a - Bits)
      BY <1>6, <1>7, <1>8
    <3>2. QED
      BY <3>1
  <2>2. PICK u \in Nat : u = TwoTo[b]
    BY TwoToStep
  <2>3. m * m = w * u
    BY <1>6, <1>7, <2>1, <2>2, TwoToSum
  <2>4. d * (w * u) = (d * u) * w /\ d * u \in Int
    OBVIOUS
  <2>5. odd * next = 1 + (d * u + e) * w
    BY <1>5, <2>3, <2>4
  <2>6. QED
    BY <1>4, <2>5 DEF RightBits, Inverts, OneMod
<1>9. CASE ~(Bits <= a + a)
  <2>1. PICK b \in Nat : Bits = (a + a) + b
    <3>1. Bits - (a + a) \in Nat /\ Bits = (a + a) + (Bits - (a + a))
      BY <1>6, <1>7, <1>9
    <3>2. QED
      BY <3>1
  <2>2. PICK u \in Nat : u = TwoTo[b]
    BY TwoToStep
  <2>3. w = (m * m) * u
    BY <1>6, <2>1, <2>2, TwoToSum
  <2>4. PICK k \in Nat : k = m * m
    OBVIOUS
  <2>5. e * (k * u) = (e * u) * k /\ e * u \in Int
    OBVIOUS
  <2>6. odd * next = 1 + (d + e * u) * k
    BY <1>5, <2>3, <2>4, <2>5
  <2>7. OneMod(odd * next, TwoTo[a + a])
    <3>1. PICK f \in Int : f = d + e * u
      OBVIOUS
    <3>2. TwoTo[a + a] = k
      BY <1>6, <2>4
    <3>3. odd * next = 1 + f * k
      BY <2>6, <3>1
    <3> SUFFICES \E i \in Int : odd * next = 1 + i * k
      BY <3>2 DEF OneMod
    <3> WITNESS f \in Int
    <3>4. QED
      BY <3>3
  <2>8. QED
    BY <1>4, <1>6, <1>7, <1>9, <2>7 DEF RightBits, Inverts
<1>10. QED
  BY <1>8, <1>9

Word == TwoTo[Bits]

LEMMA WordSize ==
  /\ Word \in Nat \ {0, 1} /\ MaxU256 + 1 = Word /\ MaxU256 = Word - 1
  /\ \A v \in Int : LowerHalf(v) \in 0..(Word - 1) /\ v = (v \div Word) * Word + LowerHalf(v)
                    /\ v \div Word \in Int
<1>1. Word \in Nat \ {0}
  BY TwoToStep, MathAssumption DEF Word
<1>2. MaxU256 + 1 = Word /\ MaxU256 = Word - 1
  BY <1>1 DEF MaxU256, Word
<1>3. Word # 1
  BY <1>1, <1>2, MathAssumption
<1>4. ASSUME NEW v \in Int
      PROVE  /\ LowerHalf(v) \in 0..(Word - 1) /\ v = (v \div Word) * Word + LowerHalf(v)
             /\ v \div Word \in Int
  <2>1. LowerHalf(v) = v % Word
    BY <1>2 DEF LowerHalf
  <2>2. QED
    BY <1>1, <2>1, DivMod
<1>5. QED
  BY <1>1, <1>2, <1>3, <1>4

(* One more than a multiple of the word is one, cut to it. *)
LEMMA InvertsWord ==
  ASSUME NEW odd \in Nat, NEW inv \in Nat, Inverts(odd, inv, Word)
  PROVE  LowerHalf(odd * inv) = 1
<1>1. PICK c \in Int : odd * inv = 1 + c * Word
  BY DEF Inverts, OneMod
<1>2. 1 \in 0..(Word - 1) /\ Word \in Nat \ {0}
  BY WordSize
<1>3. (c * Word + 1) % Word = 1
  BY <1>2, QuotientUnique
<1>4. c * Word \in Int /\ 1 + c * Word = c * Word + 1
  BY <1>2
<1>5. MaxU256 + 1 = Word
  BY WordSize
<1>6. LowerHalf(1 + c * Word) = 1
  BY <1>3, <1>4, <1>5 DEF LowerHalf
<1>7. QED
  BY <1>1, <1>6

InverseInv ==
  fn = "get_inv_256" =>
    /\ arg[1] % 2 = 1
    /\ pc = "loop" =>
         /\ loc.inv \in Nat /\ loc.round \in 0..InvRounds
         /\ RightBits(arg[1], loc.inv, loc.round)

LEMMA NumberGiven ==
  ASSUME CallInv, fn \in {"sqrt_int", "get_inv_256"}
  PROVE  arg[1] \in Nat /\ arg[1] <= MaxU256
<1>1. arg \in Number
  BY DEF CallInv, Calls, Pair
<1>2. MaxU256 \in Nat
  BY WordSize
<1>3. QED
  BY <1>1, <1>2 DEF Number

LEMMA InverseCalled ==
  ASSUME CallInv, InverseInv, InvCall(arg[1])
  PROVE  InverseInv' /\ InverseExact'
<1>1. fn = "get_inv_256" /\ UNCHANGED <<fn, arg>> /\ pc' # "done"
  BY DEF InvCall, Called, Loops, Panics
<1>2. arg[1] \in Nat /\ arg[1] % 2 = 1
  BY <1>1, NumberGiven DEF InverseInv
<1>3. pc' = "loop" => loc'.inv = XorTwo(3 * arg[1]) /\ loc'.round = 0
  BY DEF InvCall, Loops, Panics
<1>4. XorTwo(3 * arg[1]) \in Nat /\ RightBits(arg[1], XorTwo(3 * arg[1]), 0)
  BY <1>2, FirstBits
<1>5. 0 \in 0..InvRounds
  BY MathAssumption
<1>6. QED
  BY <1>1, <1>2, <1>3, <1>4, <1>5 DEF InverseInv, InverseExact, RightBits, Inverts, OneMod

LEMMA InverseRound ==
  ASSUME CallInv, InverseInv, InvRound(arg[1])
  PROVE  InverseInv' /\ InverseExact'
<1>1. fn = "get_inv_256" /\ pc = "loop" /\ UNCHANGED <<fn, arg>>
  BY DEF InvRound, Looping, Loops, Panics, Returns
<1>2. PICK odd \in Nat : odd = arg[1]
  BY <1>1, NumberGiven
<1>3. PICK inv \in Nat, r \in Nat : inv = loc.inv /\ r = loc.round
  BY <1>1 DEF InverseInv
<1>4. odd % 2 = 1 /\ r \in 0..InvRounds /\ RightBits(odd, inv, r)
  BY <1>1, <1>2, <1>3 DEF InverseInv
<1>5. PICK mul \in Int : mul = LowerHalf(odd * inv)
  BY WordSize
<1>6. PICK factor \in Int : factor = Word + 2 - mul
  BY WordSize
<1>7. Newton(mul) = factor
  BY <1>6, WordSize DEF Newton
<1>8. CASE r = InvRounds /\ Returns(<<inv>>)
  <2>1. Inverts(odd, inv, Word)
    <3>1. 5 * TwoTo[InvRounds] >= Bits /\ Bits \in Nat /\ TwoTo[InvRounds] \in Nat
      BY MathAssumption, TwoToStep
    <3>2. QED
      BY <1>4, <1>8, <3>1 DEF RightBits, Word
  <2>2. LowerHalf(odd * inv) = 1
    BY <2>1, InvertsWord
  <2>3. LowerHalf(arg'[1] * result'[1]) = 1 /\ pc' = "done"
    BY <1>1, <1>2, <1>8, <2>2 DEF Returns
  <2>4. QED
    BY <1>1, <1>2, <1>4, <2>3 DEF InverseInv, InverseExact, LowerHalf, MaxU256
<1>9. CASE Panics
  BY <1>1, <1>2, <1>4, <1>9 DEF InverseInv, InverseExact, Panics
<1>10. CASE /\ r < InvRounds /\ InU256(factor)
            /\ Loops([inv |-> LowerHalf(inv * factor), round |-> r + 1])
  <2>1. ~Inverts(odd, inv, Word)
    <3>1. SUFFICES ASSUME Inverts(odd, inv, Word) PROVE FALSE
      OBVIOUS
    <3>2. mul = 1
      BY <1>5, <3>1, InvertsWord
    <3>3. QED
      BY <1>6, <1>10, <3>2, WordSize DEF InU256
  <2>2. 5 * TwoTo[r] < Bits /\ Inverts(odd, inv, TwoTo[5 * TwoTo[r]])
    BY <1>4, <2>1 DEF RightBits, Word
  <2>3. PICK next \in Nat : next = LowerHalf(inv * factor)
    BY WordSize
  <2>4. NewtonRound(odd, inv, Word, next)
    <3>1. PICK n \in Int : n = odd * inv
      OBVIOUS
    <3>2. PICK h \in Int : h = n \div Word
      BY WordSize
    <3>3. n = h * Word + mul
      BY <1>5, <3>1, <3>2, WordSize
    <3>4. PICK t \in Int : t = inv * factor
      OBVIOUS
    <3>5. PICK g \in Int : g = t \div Word
      BY WordSize
    <3>6. t = g * Word + next
      BY <2>3, <3>4, <3>5, WordSize
    <3>7. odd * inv = h * Word + mul /\ inv * (Word + 2 - mul) = g * Word + next
      BY <1>6, <3>1, <3>3, <3>4, <3>6
    <3>8. QED
      BY <3>7 DEF NewtonRound
  <2>5. RightBits(odd, next, r + 1)
    BY <2>2, <2>4, BitsDouble, WordSize DEF Word
  <2>6. /\ pc' = "loop" /\ loc'.inv = next /\ loc'.round = r + 1
        /\ r + 1 \in 0..InvRounds
    BY <1>10, <2>3, MathAssumption DEF Loops
  <2>7. QED
    BY <1>1, <1>2, <1>4, <2>5, <2>6 DEF InverseInv, InverseExact, RightBits, Inverts, OneMod
<1>11. QED
  <2>1. \/ r = InvRounds /\ Returns(<<inv>>)
        \/ Panics
        \/ /\ r < InvRounds /\ InU256(factor)
           /\ Loops([inv |-> LowerHalf(inv * factor), round |-> r + 1])
    BY <1>2, <1>3, <1>5, <1>7 DEF InvRound
  <2>2. QED
    BY <1>8, <1>9, <1>10, <2>1

(* get_inv_256 returns the inverse, for every odd number and every width   *)
(* that its rounds are enough for.                                         *)
THEOREM InverseExactCorrect == MathSpec => []InverseExact
<1>1. MathInit => InverseInv /\ InverseExact
  BY InitCall DEF MathInit, InverseInv, InverseExact
<1>2. ASSUME CallInv, InverseInv, InverseExact, [MathNext]_mathVars
      PROVE  InverseInv' /\ InverseExact'
  <2>1. UNCHANGED <<fn, arg>>
    BY <1>2, KeepsCall
  <2>2. CASE UNCHANGED mathVars
    BY <1>2, <2>2 DEF InverseInv, InverseExact, RightBits, Inverts, OneMod, mathVars,
                      LowerHalf, MaxU256
  <2>3. CASE fn # "get_inv_256"
    BY <2>1, <2>3 DEF InverseInv, InverseExact
  <2>4. CASE MathNext /\ fn = "get_inv_256"
    <3>1. InvCall(arg[1]) \/ InvRound(arg[1])
      BY <2>4 DEF MathNext, Scaled, UnsafeDivRoundingUp, Mul256, MulDiv, MulDivRoundingUp,
                  Complement, GetTwosAndTwosReverse, SqrtCall, SqrtRound, SortCall, SortShift,
                  SortPlace, Called, Looping
    <3>2. QED
      BY <1>2, <3>1, InverseCalled, InverseRound
  <2>5. QED
    BY <1>2, <2>2, <2>3, <2>4
<1>3. QED
  BY <1>1, <1>2, CallInvariance, PTL DEF MathSpec

-----------------------------------------------------------------------------
(* The order of the sorted numbers.                                        *)

(* s is t with its n elements put in another order.                        *)
Permutes(p, n) ==
  /\ \A j, k \in 1..n : p[j] = p[k] => j = k
  /\ \A k \in 1..n : \E j \in 1..n : p[j] = k
Rearranges(s, t, n) ==
  \E p \in [1..n -> 1..n] : Permutes(p, n) /\ \A k \in 1..n : s[k] = t[p[k]]

(* Two elements that change places leave an order of the same elements.    *)
LEMMA SwapRearranges ==
  ASSUME NEW n \in Nat, NEW s, NEW t, NEW u, NEW a \in 1..n, NEW b \in 1..n, a # b,
         Rearranges(s, t, n), u[a] = s[b], u[b] = s[a],
         \A k \in (1..n) \ {a, b} : u[k] = s[k]
  PROVE  Rearranges(u, t, n)
<1>1. PICK p \in [1..n -> 1..n] : Permutes(p, n) /\ \A k \in 1..n : s[k] = t[p[k]]
  BY DEF Rearranges
<1> DEFINE turn == [k \in 1..n |-> IF k = a THEN b ELSE IF k = b THEN a ELSE k]
           q == [k \in 1..n |-> p[turn[k]]]
<1>2. /\ turn \in [1..n -> 1..n]
      /\ turn[a] = b /\ turn[b] = a /\ \A k \in (1..n) \ {a, b} : turn[k] = k
  OBVIOUS
<1>3. \A k \in 1..n : turn[turn[k]] = k
  BY <1>2
<1>4. /\ p \in [1..n -> 1..n]
      /\ \A j, k \in 1..n : p[j] = p[k] => j = k
      /\ \A k \in 1..n : \E j \in 1..n : p[j] = k
  BY <1>1 DEF Permutes
<1> HIDE DEF turn
<1>5. /\ q \in [1..n -> 1..n] /\ \A k \in 1..n : q[k] = p[turn[k]]
  BY <1>2, <1>4
<1> HIDE DEF q
<1>6. ASSUME NEW j \in 1..n, NEW k \in 1..n, q[j] = q[k] PROVE j = k
  <2>1. turn[j] \in 1..n /\ turn[k] \in 1..n /\ p[turn[j]] = p[turn[k]]
    BY <1>2, <1>5, <1>6
  <2>2. turn[j] = turn[k]
    BY <1>4, <2>1
  <2>3. QED
    BY <1>3, <2>2
<1>7. ASSUME NEW k \in 1..n PROVE \E j \in 1..n : q[j] = k
  <2>1. PICK j \in 1..n : p[j] = k
    BY <1>4
  <2>2. turn[j] \in 1..n /\ turn[turn[j]] = j
    BY <1>2, <1>3
  <2>3. q[turn[j]] = k
    BY <1>5, <2>1, <2>2
  <2>4. QED
    BY <2>2, <2>3
<1>8. ASSUME NEW k \in 1..n PROVE u[k] = t[q[k]]
  <2>1. u[k] = s[turn[k]]
    BY <1>2
  <2>2. turn[k] \in 1..n
    BY <1>2
  <2>3. QED
    BY <1>1, <1>5, <2>1, <2>2
<1>9. QED
  BY <1>5, <1>6, <1>7, <1>8 DEF Rearranges, Permutes

LEMMA SameRearranges ==
  ASSUME NEW n \in Nat, NEW s, NEW t, NEW u, Rearranges(s, t, n),
         \A k \in 1..n : u[k] = s[k]
  PROVE  Rearranges(u, t, n)
BY DEF Rearranges

LEMMA ItselfRearranges ==
  ASSUME NEW n \in Nat, NEW s PROVE Rearranges(s, s, n)
<1> DEFINE p == [k \in 1..n |-> k]
<1>1. Permutes(p, n)
  BY DEF Permutes
<1>2. \A k \in 1..n : s[k] = s[p[k]]
  OBVIOUS
<1>3. QED
  BY <1>1, <1>2 DEF Rearranges

(* Every number is as often in the one as in the other.                    *)
LEMMA RearrangedCount ==
  ASSUME NEW n \in Nat, NEW s, NEW t, Rearranges(s, t, n), NEW v,
         DOMAIN s = 1..n, DOMAIN t = 1..n
  PROVE  Count(s, v) = Count(t, v)
<1>1. PICK p \in [1..n -> 1..n] : Permutes(p, n) /\ \A k \in 1..n : s[k] = t[p[k]]
  BY DEF Rearranges
<1> DEFINE S == {i \in DOMAIN s : s[i] = v}
           T == {i \in DOMAIN t : t[i] = v}
           g == [i \in S |-> p[i]]
<1>2. /\ p \in [1..n -> 1..n]
      /\ \A j, k \in 1..n : p[j] = p[k] => j = k
      /\ \A k \in 1..n : \E j \in 1..n : p[j] = k
  BY <1>1 DEF Permutes
<1>3. \A i : i \in S <=> i \in 1..n /\ s[i] = v
  OBVIOUS
<1>4. \A i : i \in T <=> i \in 1..n /\ t[i] = v
  OBVIOUS
<1>5. IsFiniteSet(S)
  <2>1. IsFiniteSet(1..n)
    BY FS_Interval
  <2>2. S \subseteq 1..n
    BY <1>3
  <2>3. QED
    BY <2>1, <2>2, FS_Subset
<1> HIDE DEF S, T
<1>6. \A i \in S : p[i] \in T
  BY <1>1, <1>2, <1>3, <1>4
<1>7. g \in [S -> T]
  BY <1>6
<1>8. \A i \in S : g[i] = p[i]
  OBVIOUS
<1> HIDE DEF g
<1>9. \A j, k \in S : g[j] = g[k] => j = k
  BY <1>2, <1>3, <1>8
<1>10. \A k \in T : \E j \in S : g[j] = k
  <2> SUFFICES ASSUME NEW k \in T PROVE \E j \in S : g[j] = k
    OBVIOUS
  <2>1. PICK j \in 1..n : p[j] = k
    BY <1>2, <1>4
  <2>2. j \in S
    BY <1>1, <1>3, <1>4, <2>1
  <2>3. QED
    BY <1>8, <2>1, <2>2
<1>11. ExistsBijection(S, T)
  BY <1>7, <1>9, <1>10 DEF ExistsBijection, Bijection, Injection, Surjection, IsInjective
<1>12. Cardinality(S) = Cardinality(T)
  BY <1>5, <1>11, FS_Bijection
<1>13. QED
  BY <1>12 DEF Count, S, T

(* The array of the call: numbers from 1 to its length.                    *)
LEMMA ArrayGiven ==
  ASSUME CallInv, fn = "sort_array"
  PROVE  /\ Len(arg) \in Nat
         /\ arg \in [1..Len(arg) -> Nat]
<1>1. arg \in Arrays
  BY DEF CallInv, Calls
<1>2. PICK n \in 0..MaxLength : arg \in [1..n -> ArrayNumbers]
  BY <1>1 DEF Arrays
<1>3. n \in Nat /\ ArrayNumbers \subseteq Nat
  BY <1>2, MathAssumption
<1>4. arg \in [1..n -> Nat]
  BY <1>2, <1>3
<1>5. arg \in Seq(Nat) /\ Len(arg) = n
  BY <1>3, <1>4
<1>6. QED
  BY <1>3, <1>4, <1>5

(* x belongs in the hole at cur: with it there the elements are those of   *)
(* the call.  The first i are in order but for the hole, and what has been *)
(* moved back over it is not larger than x.                                *)
HoleFilled == [loc.sorted EXCEPT ![loc.cur] = loc.x]
SortInv ==
  (fn = "sort_array" /\ pc = "loop") =>
    /\ loc = [sorted |-> loc.sorted, i |-> loc.i, cur |-> loc.cur, x |-> loc.x]
    /\ loc.sorted \in [1..Len(arg) -> Nat] /\ loc.x \in Nat
    /\ loc.i \in 2..Len(arg) /\ loc.cur \in 1..loc.i
    /\ Rearranges(HoleFilled, arg, Len(arg))
    /\ \A j, k \in (1..loc.i) \ {loc.cur} : j < k => loc.sorted[j] >= loc.sorted[k]
    /\ \A k \in (loc.cur + 1)..loc.i : loc.sorted[k] <= loc.x
SortedInv == SortInv /\ SortedHighToLow

LEMMA SortStarts ==
  ASSUME CallInv, fn = "sort_array", UNCHANGED <<fn, arg>>, SortCall(arg)
  PROVE  SortedInv'
<1>1. Len(arg) \in Nat /\ arg \in [1..Len(arg) -> Nat]
  BY ArrayGiven
<1>2. CASE Len(arg) < 2
  <2>1. pc' = "done" /\ result' = <<arg>>
    BY <1>2 DEF SortCall, Returns
  <2>2. result'[1] = arg
    BY <2>1
  <2>3. \A j, k \in DOMAIN arg : j = k
    BY <1>1, <1>2
  <2>4. SortedHighToLow'
    BY <1>1, <2>2, <2>3 DEF SortedHighToLow, Count
  <2>5. SortInv'
    BY <2>1 DEF SortInv
  <2>6. QED
    BY <2>4, <2>5 DEF SortedInv
<1>3. CASE ~(Len(arg) < 2)
  <2>1. pc' = "loop" /\ loc' = [sorted |-> arg, i |-> 2, cur |-> 2, x |-> arg[2]]
    BY <1>3 DEF SortCall, Loops
  <2>2. /\ loc'.sorted = arg /\ loc'.i = 2 /\ loc'.cur = 2 /\ loc'.x = arg[2]
        /\ 2 \in 1..Len(arg) /\ arg[2] \in Nat
    BY <1>1, <1>3, <2>1
  <2>3. \A k \in 1..Len(arg) : HoleFilled'[k] = arg[k]
    BY <1>1, <2>2 DEF HoleFilled
  <2>4. Rearranges(HoleFilled', arg, Len(arg))
    BY <1>1, <2>3, ItselfRearranges, SameRearranges
  <2>5. \A j, k \in (1..loc'.i) \ {loc'.cur} : ~(j < k)
    BY <2>2
  <2>6. SortInv'
    BY <1>1, <1>3, <2>1, <2>2, <2>4, <2>5 DEF SortInv
  <2>7. SortedHighToLow'
    BY <2>1 DEF SortedHighToLow
  <2>8. QED
    BY <2>6, <2>7 DEF SortedInv
<1>4. QED
  BY <1>2, <1>3

(* The hole moves one place to the front.                                  *)
LEMMA HoleMoves ==
  ASSUME CallInv, SortInv, fn = "sort_array", UNCHANGED <<fn, arg>>, SortShift
  PROVE  SortedInv'
<1> DEFINE n == Len(arg)
<1>1. n \in Nat /\ arg \in [1..n -> Nat]
  BY ArrayGiven
<1>2. PICK s, i, c, x : s = loc.sorted /\ i = loc.i /\ c = loc.cur /\ x = loc.x
  OBVIOUS
<1>3. /\ s \in [1..n -> Nat] /\ x \in Nat /\ i \in 2..n /\ c \in 1..i
      /\ \A j, k \in (1..i) \ {c} : j < k => s[j] >= s[k]
      /\ \A k \in (c + 1)..i : s[k] <= x
      /\ Rearranges(HoleFilled, arg, n)
  BY <1>2 DEF SortInv, SortShift, Looping
<1>4. c > 1 /\ s[c - 1] <= x
  BY <1>2 DEF SortShift, GoesForward
<1>5. /\ pc' = "loop"
      /\ loc' = [sorted |-> [s EXCEPT ![c] = s[c - 1]], i |-> i, cur |-> c - 1, x |-> x]
  BY <1>2 DEF SortShift, Loops
<1>6. PICK t : t = [s EXCEPT ![c] = s[c - 1]]
  OBVIOUS
<1>7. /\ c \in 1..n /\ c - 1 \in 1..n /\ c - 1 # c /\ c - 1 \in 1..i
      /\ t \in [1..n -> Nat] /\ t[c] = s[c - 1]
      /\ \A k \in (1..n) \ {c} : t[k] = s[k]
  BY <1>3, <1>4, <1>6
<1>8. loc'.sorted = t /\ loc'.i = i /\ loc'.cur = c - 1 /\ loc'.x = x
      /\ loc' = [sorted |-> t, i |-> i, cur |-> c - 1, x |-> x]
  BY <1>5, <1>6
<1>9. HoleFilled = [s EXCEPT ![c] = x] /\ HoleFilled' = [t EXCEPT ![c - 1] = x]
  BY <1>2, <1>8 DEF HoleFilled
<1>10. /\ HoleFilled[c] = x /\ HoleFilled[c - 1] = s[c - 1]
       /\ HoleFilled'[c] = s[c - 1] /\ HoleFilled'[c - 1] = x
       /\ \A k \in (1..n) \ {c, c - 1} : HoleFilled[k] = s[k] /\ HoleFilled'[k] = s[k]
  BY <1>3, <1>7, <1>9
<1>11. Rearranges(HoleFilled', arg, n)
  BY <1>1, <1>3, <1>7, <1>10, SwapRearranges
<1>12. ASSUME NEW j \in (1..i) \ {c - 1}, NEW k \in (1..i) \ {c - 1}, j < k
       PROVE  t[j] >= t[k]
  <2>1. PICK a : a = IF j = c THEN c - 1 ELSE j
    OBVIOUS
  <2>2. PICK b : b = IF k = c THEN c - 1 ELSE k
    OBVIOUS
  <2>3. a \in (1..i) \ {c} /\ b \in (1..i) \ {c} /\ a < b
    BY <1>3, <1>4, <1>12, <2>1, <2>2
  <2>4. t[j] = s[a] /\ t[k] = s[b]
    BY <1>3, <1>7, <1>12, <2>1, <2>2
  <2>5. QED
    BY <1>3, <2>3, <2>4
<1>13. ASSUME NEW k \in ((c - 1) + 1)..i PROVE t[k] <= x
  BY <1>3, <1>4, <1>7
<1>14. SortInv'
  BY <1>3, <1>7, <1>8, <1>11, <1>12, <1>13 DEF SortInv
<1>15. SortedHighToLow'
  BY <1>5 DEF SortedHighToLow
<1>16. QED
  BY <1>14, <1>15 DEF SortedInv

(* x is put into the hole: the first i are in order.                       *)
LEMMA HoleFills ==
  ASSUME CallInv, SortInv, fn = "sort_array", UNCHANGED <<fn, arg>>, SortPlace
  PROVE  SortedInv'
<1> DEFINE n == Len(arg)
<1>1. n \in Nat /\ arg \in [1..n -> Nat]
  BY ArrayGiven
<1>2. PICK s, i, c, x : s = loc.sorted /\ i = loc.i /\ c = loc.cur /\ x = loc.x
  OBVIOUS
<1>3. /\ s \in [1..n -> Nat] /\ x \in Nat /\ i \in 2..n /\ c \in 1..i
      /\ \A j, k \in (1..i) \ {c} : j < k => s[j] >= s[k]
      /\ \A k \in (c + 1)..i : s[k] <= x
      /\ Rearranges(HoleFilled, arg, n)
  BY <1>2 DEF SortInv, SortPlace, Looping
<1>4. c > 1 => s[c - 1] > x
  <2>1. ~(c > 1 /\ s[c - 1] <= x)
    BY <1>2 DEF SortPlace, GoesForward
  <2>2. c > 1 => s[c - 1] \in Nat
    BY <1>3
  <2>3. QED
    BY <1>3, <2>1, <2>2
<1>5. PICK t : t = [s EXCEPT ![c] = x]
  OBVIOUS
<1>6. /\ t \in [1..n -> Nat] /\ t[c] = x
      /\ \A k \in (1..n) \ {c} : t[k] = s[k]
  BY <1>3, <1>5
<1>7. Rearranges(t, arg, n)
  BY <1>2, <1>3, <1>5 DEF HoleFilled
<1>8. ASSUME NEW j \in 1..i, NEW k \in 1..i, j < k PROVE t[j] >= t[k]
  <2>1. CASE j # c /\ k # c
    BY <1>3, <1>6, <1>8, <2>1
  <2>2. CASE j = c
    <3>1. k \in (c + 1)..i /\ k # c /\ k \in 1..n
      BY <1>3, <1>8, <2>2
    <3>2. QED
      BY <1>3, <1>6, <2>2, <3>1
  <2>3. CASE k = c
    <3>1. c > 1 /\ j <= c - 1 /\ j # c /\ j \in 1..n /\ c - 1 \in (1..i) \ {c}
      BY <1>3, <1>8, <2>3
    <3>2. s[j] >= s[c - 1]
      <4>1. CASE j = c - 1
        BY <1>3, <3>1, <4>1
      <4>2. CASE j # c - 1
        BY <1>3, <1>8, <3>1, <4>2
      <4>3. QED
        BY <4>1, <4>2
    <3>3. s[j] \in Nat /\ s[c - 1] \in Nat
      BY <1>3, <3>1
    <3>4. QED
      BY <1>3, <1>4, <1>6, <2>3, <3>1, <3>2, <3>3
  <2>4. QED
    BY <2>1, <2>2, <2>3
<1>9. Len(t) = n
  <2>1. t \in Seq(Nat)
    BY <1>1, <1>6
  <2>2. QED
    BY <1>1, <1>6, <2>1
<1>10. CASE i = n
  <2>1. pc' = "done" /\ result' = <<t>>
    BY <1>2, <1>5, <1>9, <1>10 DEF SortPlace, Returns
  <2>2. result'[1] = t /\ DOMAIN arg = 1..n /\ DOMAIN t = 1..n
    BY <1>1, <1>6, <2>1
  <2>3. \A v : Count(t, v) = Count(arg, v)
    BY <1>1, <1>7, <2>2, RearrangedCount
  <2>4. /\ \A j, k \in DOMAIN arg : j < k => t[j] >= t[k]
        /\ \A k \in DOMAIN arg : Count(t, arg[k]) = Count(arg, arg[k])
    BY <1>8, <1>10, <2>2, <2>3
  <2>5. SortedHighToLow'
    BY <2>2, <2>4 DEF SortedHighToLow, Count
  <2>6. SortInv'
    BY <2>1 DEF SortInv
  <2>7. QED
    BY <2>5, <2>6 DEF SortedInv
<1>11. CASE i # n
  <2>1. /\ pc' = "loop"
        /\ loc' = [sorted |-> t, i |-> i + 1, cur |-> i + 1, x |-> t[i + 1]]
    BY <1>2, <1>5, <1>9, <1>11 DEF SortPlace, Loops
  <2>2. /\ loc'.sorted = t /\ loc'.i = i + 1 /\ loc'.cur = i + 1 /\ loc'.x = t[i + 1]
        /\ loc' = [sorted |-> t, i |-> i + 1, cur |-> i + 1, x |-> t[i + 1]]
    BY <2>1
  <2>3. i + 1 \in 2..n /\ t[i + 1] \in Nat /\ i + 1 \in 1..(i + 1) /\ i + 1 \in 1..n
    BY <1>3, <1>6, <1>11
  <2>4. \A k \in 1..n : HoleFilled'[k] = t[k]
    BY <1>6, <2>2, <2>3 DEF HoleFilled
  <2>5. Rearranges(HoleFilled', arg, n)
    BY <1>1, <1>7, <2>4, SameRearranges
  <2>6. \A j \in (1..(i + 1)) \ {i + 1} : j \in 1..i
    BY <1>3
  <2>7. \A k \in ((i + 1) + 1)..(i + 1) : FALSE
    BY <1>3
  <2>8. SortInv'
    BY <1>6, <1>8, <2>2, <2>3, <2>5, <2>6, <2>7 DEF SortInv
  <2>9. SortedHighToLow'
    BY <2>1 DEF SortedHighToLow
  <2>10. QED
    BY <2>8, <2>9 DEF SortedInv
<1>12. QED
  BY <1>10, <1>11

(***************************************************************************)
(* sort_array returns the numbers it was given, each as often as it was    *)
(* given, from high to low.                                                *)
(***************************************************************************)
THEOREM SortedHighToLowCorrect == MathSpec => []SortedHighToLow
<1>1. MathInit => SortedInv
  BY InitCall DEF SortedInv, SortInv, SortedHighToLow
<1>2. ASSUME CallInv, SortedInv, [MathNext]_mathVars PROVE SortedInv'
  <2>1. UNCHANGED <<fn, arg>>
    BY <1>2, KeepsCall
  <2>2. CASE UNCHANGED mathVars
    BY <1>2, <2>2 DEF SortedInv, SortInv, SortedHighToLow, HoleFilled, mathVars, Count
  <2>3. CASE fn # "sort_array"
    BY <2>1, <2>3 DEF SortedInv, SortInv, SortedHighToLow
  <2>4. CASE fn = "sort_array" /\ MathNext
    <3>1. SortCall(arg) \/ SortShift \/ SortPlace
      BY <2>4 DEF MathNext, Called, Looping, Scaled, UnsafeDivRoundingUp, Mul256, MulDiv,
         MulDivRoundingUp, Complement, GetTwosAndTwosReverse, SqrtCall, SqrtRound, InvCall, InvRound
    <3>2. QED
      BY <1>2, <2>1, <2>4, <3>1, SortStarts, HoleMoves, HoleFills DEF SortedInv
  <2>5. QED
    BY <1>2, <2>2, <2>3, <2>4
<1>3. QED
  BY <1>1, <1>2, CallInvariance, PTL DEF MathSpec, SortedInv

-----------------------------------------------------------------------------
(* The root.                                                               *)

LEMMA ProductOver ==
  ASSUME NEW a \in Nat, NEW b \in Nat, NEW c \in Nat, NEW d \in Nat, a <= c, b <= d
  PROVE  a * b <= c * d
<1>1. PICK e \in Nat : c = a + e
  <2>1. c - a \in Nat /\ c = a + (c - a)
    OBVIOUS
  <2>2. QED
    BY <2>1
<1>2. PICK f \in Nat : d = b + f
  <2>1. d - b \in Nat /\ d = b + (d - b)
    OBVIOUS
  <2>2. QED
    BY <2>1
<1>3. c * d = a * b + a * f + e * b + e * f
  BY <1>1, <1>2
<1>4. a * f \in Nat /\ e * b \in Nat /\ e * f \in Nat /\ a * b \in Nat
  OBVIOUS
<1>5. QED
  BY <1>3, <1>4

LEMMA RootExists == \A n \in Nat : \E r \in Nat : IsRoot(r, n)
<1> SUFFICES ASSUME NEW n \in Nat PROVE \E r \in Nat : IsRoot(r, n)
  OBVIOUS
<1> DEFINE T == {r \in Nat : n < (r + 1) * (r + 1)}
<1>1. n \in T
  <2>1. (n + 1) * (n + 1) = n * n + 2 * n + 1 /\ n * n \in Nat
    OBVIOUS
  <2>2. QED
    BY <2>1
<1>2. PICK r \in T : \A s \in T : r <= s
  BY <1>1, Least
<1>3. r * r <= n
  <2>1. CASE r = 0
    BY <2>1
  <2>2. CASE r # 0
    <3>1. PICK s \in Nat : r = s + 1
      <4>1. r - 1 \in Nat /\ r = (r - 1) + 1
        BY <2>2
      <4>2. QED
        BY <4>1
    <3>2. ~(r <= s)
      BY <3>1
    <3>3. s \notin T
      BY <1>2, <3>2
    <3>4. ~(n < (s + 1) * (s + 1)) /\ (s + 1) * (s + 1) \in Nat
      BY <3>3
    <3>5. QED
      BY <3>1, <3>4
  <2>3. QED
    BY <2>1, <2>2
<1>4. QED
  BY <1>2, <1>3 DEF IsRoot

(* q is the quotient of n and y, rounded down.                             *)
Quotient(q, n, y) == q * y <= n /\ n < (q + 1) * y

LEMMA DivQuotient ==
  ASSUME NEW n \in Nat, NEW y \in Nat \ {0}
  PROVE  n \div y \in Nat /\ Quotient(n \div y, n, y)
<1>1. PICK q, r : q = n \div y /\ r = n % y
  OBVIOUS
<1>2. q \in Nat /\ r \in 0..(y - 1) /\ n = q * y + r
  <2>1. n \in Int /\ n >= 0
    OBVIOUS
  <2>2. n \div y \in Nat /\ n % y \in 0..(y - 1) /\ n = (n \div y) * y + (n % y)
    BY <2>1, DivMod
  <2>3. QED
    BY <1>1, <2>2
<1>3. (q + 1) * y = q * y + y /\ q * y \in Nat
  BY <1>2
<1>4. q * y <= n /\ n < (q + 1) * y
  BY <1>2, <1>3
<1>5. QED
  BY <1>1, <1>2, <1>4 DEF Quotient

(* The mean of a guess and its quotient is not below the root.             *)
LEMMA MeanAbove ==
  ASSUME NEW n \in Nat, NEW y \in Nat \ {0}, NEW q \in Nat, NEW r \in Nat,
         Quotient(q, n, y), IsRoot(r, n)
  PROVE  q + y >= 2 * r
<1>1. SUFFICES ASSUME q + y < 2 * r PROVE FALSE
  OBVIOUS
<1>2. r * r < (q + 1) * y
  BY DEF Quotient, IsRoot
<1>3. PICK s \in Nat : s = (q + 1) + y
  OBVIOUS
<1>4. s <= 2 * r
  BY <1>1, <1>3
<1>5. s * s <= (2 * r) * (2 * r)
  BY <1>4, ProductOver
<1>6. PICK d \in Int : d = (q + 1) - y
  OBVIOUS
<1>7. d * d >= 0
  BY <1>6
<1>8. s * s = 4 * ((q + 1) * y) + d * d
  BY <1>3, <1>6
<1>9. (2 * r) * (2 * r) = 4 * (r * r)
  OBVIOUS
<1>10. (q + 1) * y \in Nat /\ r * r \in Nat /\ s * s \in Nat
  BY <1>3
<1>11. QED
  BY <1>2, <1>5, <1>7, <1>8, <1>9, <1>10

(* Above the root, the quotient is not above it.                           *)
LEMMA QuotientOfAbove ==
  ASSUME NEW n \in Nat, NEW y \in Nat \ {0}, NEW q \in Nat, NEW r \in Nat,
         Quotient(q, n, y), IsRoot(r, n), y > r
  PROVE  q <= r
<1>1. SUFFICES ASSUME q >= r + 1 PROVE FALSE
  OBVIOUS
<1>2. (r + 1) * (r + 1) <= q * y
  BY <1>1, ProductOver
<1>3. (r + 1) * (r + 1) \in Nat /\ q * y \in Nat
  OBVIOUS
<1>4. QED
  BY <1>2, <1>3 DEF Quotient, IsRoot

(* At the root it is the root or one more, unless n is one below a square. *)
LEMMA QuotientOfRoot ==
  ASSUME NEW n \in Nat, NEW q \in Nat, NEW r \in Nat \ {0},
         Quotient(q, n, r), IsRoot(r, n), (r + 1) * (r + 1) # n + 1
  PROVE  q \in {r, r + 1}
<1>1. q >= r
  <2>1. SUFFICES ASSUME q + 1 <= r PROVE FALSE
    OBVIOUS
  <2>2. (q + 1) * r <= r * r
    BY <2>1, ProductOver
  <2>3. (q + 1) * r \in Nat /\ r * r \in Nat
    OBVIOUS
  <2>4. QED
    BY <2>2, <2>3 DEF Quotient, IsRoot
<1>2. q <= r + 1
  <2>1. SUFFICES ASSUME q >= r + 2 PROVE FALSE
    OBVIOUS
  <2>2. (r + 2) * r <= q * r
    BY <2>1, ProductOver
  <2>3. (r + 1) * (r + 1) = (r + 2) * r + 1
    OBVIOUS
  <2>4. (r + 2) * r \in Nat /\ q * r \in Nat /\ (r + 1) * (r + 1) \in Nat
    OBVIOUS
  <2>5. QED
    BY <2>2, <2>3, <2>4 DEF Quotient, IsRoot
<1>3. QED
  BY <1>1, <1>2

(* Where the iteration stands still it is at the root.                     *)
LEMMA StillAtRoot ==
  ASSUME NEW n \in Nat, NEW y \in Nat \ {0}, NEW q \in Nat, Quotient(q, n, y),
         (q + y) \div 2 = y
  PROVE  IsRoot(y, n)
<1>1. q \in {y, y + 1}
  OBVIOUS
<1>2. y * y <= q * y
  BY <1>1, ProductOver
<1>3. (q + 1) * y <= (y + 2) * y
  BY <1>1, ProductOver
<1>4. (y + 1) * (y + 1) = (y + 2) * y + 1
  OBVIOUS
<1>5. y * y \in Nat /\ q * y \in Nat /\ (q + 1) * y \in Nat /\ (y + 2) * y \in Nat
  OBVIOUS
<1>6. QED
  BY <1>2, <1>3, <1>4, <1>5 DEF Quotient, IsRoot

Radicand == arg[1] * One
OneBelowSquare(n) == \E r \in 0..MaxU256 : r * r = n + 1

(* What is left to the root r is halved in every round: it is gone after   *)
(* m rounds, and one more round sees the iteration stand still.            *)
Converging(r, m, y, z, round) ==
  /\ z >= r
  /\ \/ round <= m /\ z - r < TwoTo[m - round]
     \/ round = m + 1 /\ z = r /\ y = r
Converges(n, y, z, round) ==
  \E r \in Nat, m \in 0..(MaxRounds - 2) : IsRoot(r, n) /\ Converging(r, m, y, z, round)

SqrtInv ==
  (fn = "sqrt_int" /\ pc = "loop") =>
    /\ arg[1] > 0
    /\ loc.y \in Nat \ {0} /\ loc.z \in Nat \ {0} /\ loc.round \in 0..MaxRounds
    /\ loc.z = (Radicand \div loc.y + loc.y) \div 2
    /\ \/ ~InU256(Radicand) \/ OneBelowSquare(Radicand)
       \/ Converges(Radicand, loc.y, loc.z, loc.round)
RootInv == SqrtInv /\ SqrtExact

LEMMA RadicandOf ==
  ASSUME CallInv, fn = "sqrt_int", arg[1] > 0
  PROVE  arg[1] \in Nat \ {0} /\ Radicand \in Nat /\ Radicand >= 2 /\ Radicand >= arg[1]
<1>1. PICK x \in Nat \ {0} : x = arg[1]
  BY NumberGiven
<1>2. PICK o \in Nat : o = One /\ o >= 2
  BY WordSize, MathAssumption
<1>3. 1 * 2 <= x * o /\ x * 1 <= x * o /\ x * o \in Nat
  BY <1>1, <1>2, ProductOver
<1>4. QED
  BY <1>1, <1>2, <1>3 DEF Radicand

LEMMA MeanPositive ==
  ASSUME NEW n \in Nat, n >= 2, NEW y \in Nat \ {0}, NEW q \in Nat, Quotient(q, n, y)
  PROVE  (q + y) \div 2 \in Nat \ {0}
<1>1. q + y >= 2
  <2>1. CASE y = 1
    <3>1. (q + 1) * y = q + 1
      BY <2>1
    <3>2. QED
      BY <2>1, <3>1 DEF Quotient
  <2>2. CASE y # 1
    BY <2>2
  <2>3. QED
    BY <2>1, <2>2
<1>2. QED
  BY <1>1

(* The first guess is right but for what the rounds halve to nothing.      *)
LEMMA GuessConverges ==
  ASSUME NEW x \in Nat \ {0}, InU256(x * One), x * One >= 2
  PROVE  Converges(x * One, x, SqrtGuess(x), 0)
<1>1. PICK o \in Nat : o = One /\ o >= 2
  BY WordSize, MathAssumption
<1>2. PICK n \in Nat : n = x * One
  BY <1>1
<1>3. PICK r \in Nat : IsRoot(r, n)
  BY RootExists
<1>4. r >= 1
  <2>1. SUFFICES ASSUME r = 0 PROVE FALSE
    OBVIOUS
  <2>2. (r + 1) * (r + 1) = 1
    BY <2>1
  <2>3. QED
    BY <1>2, <1>3, <2>2 DEF IsRoot
<1>5. PICK m \in 0..(MaxRounds - 2) : One + (MaxU256 + 1) \div One <= TwoTo[m + 1]
  BY MathAssumption
<1>6. PICK w \in Nat : w = MaxU256 + 1 /\ MaxU256 = w - 1
  BY WordSize
<1>7. PICK q \in Nat : q = w \div o /\ Quotient(q, w, o)
  <2>1. o \in Nat \ {0}
    BY <1>1
  <2>2. w \div o \in Nat /\ Quotient(w \div o, w, o)
    BY <2>1, DivQuotient
  <2>3. QED
    BY <2>2
<1>8. x <= q
  <2>1. SUFFICES ASSUME q + 1 <= x PROVE FALSE
    OBVIOUS
  <2>2. (q + 1) * o <= x * o
    BY <2>1, ProductOver
  <2>3. x * o < w
    BY <1>1, <1>6 DEF InU256
  <2>4. (q + 1) * o \in Nat /\ x * o \in Nat
    OBVIOUS
  <2>5. QED
    BY <1>7, <2>2, <2>3, <2>4 DEF Quotient
<1>9. PICK t \in Nat \ {0} : t = TwoTo[m] /\ TwoTo[m + 1] = 2 * t
  BY TwoToStep
<1>10. x + o <= 2 * t
  BY <1>1, <1>5, <1>6, <1>7, <1>8, <1>9
<1>11. PICK z \in Nat : z = (x + o) \div 2
  OBVIOUS
<1>12. z - r < t
  BY <1>4, <1>10, <1>11
<1>13. z >= r
  <2>1. Quotient(o, n, x)
    <3>1. (o + 1) * x = n + x /\ o * x = n
      BY <1>1, <1>2
    <3>2. QED
      BY <1>2, <3>1 DEF Quotient
  <2>2. o + x >= 2 * r
    BY <1>2, <1>3, <2>1, MeanAbove
  <2>3. QED
    BY <1>11, <2>2
<1>14. m - 0 = m /\ 0 <= m
  OBVIOUS
<1>15. Converging(r, m, x, z, 0)
  BY <1>9, <1>12, <1>13, <1>14 DEF Converging
<1>16. SqrtGuess(x) = z
  BY <1>1, <1>11 DEF SqrtGuess
<1>17. QED
  BY <1>2, <1>3, <1>15, <1>16 DEF Converges

(* A round halves what is left.                                            *)
LEMMA RoundConverges ==
  ASSUME NEW n \in Nat, n >= 2, InU256(n), ~OneBelowSquare(n),
         NEW y, NEW z \in Nat \ {0}, NEW k \in Nat, Converges(n, y, z, k), z # y
  PROVE  Converges(n, z, (n \div z + z) \div 2, k + 1)
<1>1. PICK r \in Nat, m \in 0..(MaxRounds - 2) : IsRoot(r, n) /\ Converging(r, m, y, z, k)
  BY DEF Converges
<1>2. PICK q \in Nat : q = n \div z /\ Quotient(q, n, z)
  BY DivQuotient
<1>3. PICK v \in Nat : v = (q + z) \div 2
  OBVIOUS
<1>4. z >= r /\ k <= m /\ z - r < TwoTo[m - k]
  BY <1>1 DEF Converging
<1>5. v >= r
  <2>1. q + z >= 2 * r
    BY <1>1, <1>2, MeanAbove
  <2>2. QED
    BY <1>3, <2>1
<1>6. (r + 1) * (r + 1) # n + 1
  <2>1. SUFFICES ASSUME (r + 1) * (r + 1) = n + 1 PROVE FALSE
    OBVIOUS
  <2>2. r * 1 <= r * r /\ r * r <= n
    <3>1. CASE r = 0
      BY <3>1
    <3>2. CASE r >= 1
      BY <1>1, <3>2, ProductOver DEF IsRoot
    <3>3. QED
      BY <3>1, <3>2
  <2>3. r >= 2 \/ r = 1 \/ r = 0
    OBVIOUS
  <2>4. r + 1 <= n
    <3>1. CASE r >= 2
      <4>1. r * 2 <= r * r /\ r * r \in Nat
        BY <3>1, ProductOver
      <4>2. QED
        BY <2>2, <3>1, <4>1
    <3>2. CASE r < 2
      BY <3>2
    <3>3. QED
      BY <3>1, <3>2
  <2>5. r + 1 \in 0..MaxU256
    BY <2>4, WordSize DEF InU256
  <2>6. QED
    BY <2>1, <2>5 DEF OneBelowSquare
<1>7. CASE z = r
  <2>1. q \in {r, r + 1}
    BY <1>1, <1>2, <1>6, <1>7, QuotientOfRoot
  <2>2. v = r
    BY <1>3, <1>7, <2>1
  <2>3. CASE k = m
    <3>1. Converging(r, m, z, v, k + 1)
      BY <1>7, <2>2, <2>3 DEF Converging
    <3>2. QED
      BY <1>1, <1>2, <1>3, <3>1 DEF Converges
  <2>4. CASE k # m
    <3>1. m - (k + 1) \in Nat /\ k + 1 <= m
      BY <1>4, <2>4
    <3>2. v - r = 0 /\ TwoTo[m - (k + 1)] \in Nat \ {0}
      BY <2>2, <3>1, TwoToStep
    <3>3. Converging(r, m, z, v, k + 1)
      BY <1>5, <3>1, <3>2 DEF Converging
    <3>4. QED
      BY <1>1, <1>2, <1>3, <3>3 DEF Converges
  <2>5. QED
    BY <2>3, <2>4
<1>8. CASE z # r
  <2>1. z > r
    BY <1>4, <1>8
  <2>2. q <= r
    BY <1>1, <1>2, <2>1, QuotientOfAbove
  <2>3. k # m
    BY <1>4, <2>1, TwoToStep
  <2>4. PICK j \in Nat : j = m - (k + 1)
    BY <1>4, <2>3
  <2>5. m - k = j + 1 /\ k + 1 <= m
    BY <1>4, <2>3, <2>4
  <2>6. PICK t \in Nat \ {0} : t = TwoTo[j] /\ TwoTo[m - k] = 2 * t
    BY <2>5, TwoToStep
  <2>7. v - r < t
    BY <1>3, <1>4, <2>1, <2>2, <2>6
  <2>8. Converging(r, m, z, v, k + 1)
    BY <1>5, <2>4, <2>5, <2>6, <2>7 DEF Converging
  <2>9. QED
    BY <1>1, <1>2, <1>3, <2>8 DEF Converges
<1>9. QED
  BY <1>7, <1>8

LEMMA SqrtStarts ==
  ASSUME CallInv, fn = "sqrt_int", UNCHANGED <<fn, arg>>, SqrtCall(arg[1])
  PROVE  RootInv'
<1>1. arg[1] \in Nat /\ arg[1] <= MaxU256
  BY NumberGiven
<1>2. PICK u \in Nat, o \in Nat : u = MaxU256 /\ o = One /\ o >= 2 /\ o <= u - 1
  BY WordSize, MathAssumption
<1>3. CASE arg[1] = 0
  <2>1. pc' = "done" /\ result' = <<0>>
    BY <1>3 DEF SqrtCall, Returns
  <2>2. IsRoot(0, arg[1] * One)
    BY <1>2, <1>3 DEF IsRoot
  <2>3. QED
    BY <2>1, <2>2 DEF RootInv, SqrtInv, SqrtExact
<1>4. CASE arg[1] > 0
  <2>1. PICK x \in Nat \ {0} : x = arg[1]
    BY <1>1, <1>4
  <2>2. Radicand = x * o /\ Radicand \in Nat /\ Radicand >= 2
    BY <1>2, <1>4, <2>1, RadicandOf DEF Radicand
  <2>3. CASE ~InU256(x + One)
    <3>1. pc' = "done" /\ result' = <<>>
      BY <1>4, <2>1, <2>3 DEF SqrtCall, Returns
    <3>2. x >= 2
      <4>1. ~(x + o <= u)
        BY <1>2, <2>3 DEF InU256
      <4>2. QED
        BY <1>2, <4>1
    <3>3. x + o <= x * o
      <4>1. PICK a \in Nat : x = a + 2
        <5>1. x - 2 \in Nat /\ x = (x - 2) + 2
          BY <3>2
        <5>2. QED
          BY <5>1
      <4>2. PICK b \in Nat : o = b + 2
        <5>1. o - 2 \in Nat /\ o = (o - 2) + 2
          BY <1>2
        <5>2. QED
          BY <5>1
      <4>3. x * o = a * b + 2 * a + 2 * b + 4 /\ a * b \in Nat
        BY <4>1, <4>2
      <4>4. QED
        BY <4>1, <4>2, <4>3
    <3>4. ~InU256(arg[1] * One)
      <4>1. ~(x + o <= u)
        BY <1>2, <2>3 DEF InU256
      <4>2. x * o \in Nat
        OBVIOUS
      <4>3. ~(x * o <= u)
        BY <3>3, <4>1, <4>2
      <4>4. QED
        BY <1>2, <2>1, <4>3 DEF InU256
    <3>5. ~InU256(arg[1] * One)'
      BY <3>4 DEF InU256, MaxU256
    <3>6. QED
      BY <3>1, <3>5 DEF RootInv, SqrtInv, SqrtExact
  <2>4. CASE InU256(x + One)
    <3>1. pc' = "loop" /\ loc' = [y |-> x, z |-> SqrtGuess(x), round |-> 0]
      BY <1>4, <2>1, <2>4 DEF SqrtCall, Loops, Returns
    <3>2. loc'.y = x /\ loc'.z = SqrtGuess(x) /\ loc'.round = 0 /\ 0 \in 0..MaxRounds
      BY <3>1, MathAssumption
    <3>3. Radicand \div x = o /\ Quotient(o, Radicand, x)
      <4>1. o * x + 0 = Radicand /\ 0 \in 0..(x - 1) /\ o \in Int
        BY <2>2
      <4>2. (o * x + 0) \div x = o
        BY <4>1, QuotientUnique
      <4>3. (o + 1) * x = o * x + x /\ o * x = Radicand
        BY <2>2
      <4>4. QED
        BY <2>2, <4>1, <4>2, <4>3 DEF Quotient
    <3>4. SqrtGuess(x) = (Radicand \div x + x) \div 2
      BY <1>2, <3>3 DEF SqrtGuess
    <3>5. SqrtGuess(x) \in Nat \ {0}
      BY <2>2, <3>3, <3>4, MeanPositive
    <3>6. ~InU256(Radicand) \/ Converges(Radicand, x, SqrtGuess(x), 0)
      BY <1>2, <2>2, GuessConverges
    <3>7. Radicand' = Radicand
      BY DEF Radicand
    <3>8. SqrtInv'
      BY <1>4, <2>1, <3>2, <3>4, <3>5, <3>6, <3>7 DEF SqrtInv, InU256, MaxU256
    <3>9. QED
      BY <3>1, <3>8 DEF RootInv, SqrtExact
  <2>5. QED
    BY <2>3, <2>4
<1>5. QED
  BY <1>1, <1>3, <1>4

LEMMA SqrtRounds ==
  ASSUME CallInv, SqrtInv, fn = "sqrt_int", UNCHANGED <<fn, arg>>, SqrtRound(arg[1])
  PROVE  RootInv'
<1>1. PICK y, z, k, n : y = loc.y /\ z = loc.z /\ k = loc.round /\ n = Radicand
  OBVIOUS
<1>2. pc = "loop" /\ arg[1] > 0
  BY DEF SqrtRound, Looping, SqrtInv
<1>3. n \in Nat /\ n >= 2 /\ n = arg[1] * One
  BY <1>1, <1>2, RadicandOf DEF Radicand
<1>4. /\ y \in Nat \ {0} /\ z \in Nat \ {0} /\ k \in 0..MaxRounds
      /\ z = (n \div y + y) \div 2
      /\ ~InU256(n) \/ OneBelowSquare(n) \/ Converges(n, y, z, k)
  BY <1>1, <1>2 DEF SqrtInv
<1>5. MaxRounds \in Nat /\ Radicand' = Radicand
  BY MathAssumption DEF Radicand
<1>6. CASE k = MaxRounds
  <2>1. pc' = "done" /\ result' = <<>>
    BY <1>1, <1>5, <1>6 DEF SqrtRound, Returns
  <2>2. ~Converges(n, y, z, k)
    BY <1>5, <1>6 DEF Converges, Converging
  <2>3. ~InU256(arg[1] * One) \/ OneBelowSquare(arg[1] * One)
    BY <1>3, <1>4, <2>2
  <2>4. QED
    BY <2>1, <2>3 DEF RootInv, SqrtInv, SqrtExact, OneBelowSquare, InU256, MaxU256
<1>7. CASE k # MaxRounds /\ z = y
  <2>1. k < MaxRounds
    BY <1>4, <1>5, <1>7
  <2>2. pc' = "done" /\ result' = <<y>>
    BY <1>1, <1>7, <2>1 DEF SqrtRound, Returns
  <2>3. IsRoot(y, n)
    <3>1. PICK q \in Nat : q = n \div y /\ Quotient(q, n, y)
      BY <1>3, <1>4, DivQuotient
    <3>2. (q + y) \div 2 = y
      BY <1>4, <1>7, <3>1
    <3>3. QED
      BY <1>3, <1>4, <3>1, <3>2, StillAtRoot
  <2>4. result' # <<>> /\ result'[1] = y
    BY <2>2
  <2>5. QED
    BY <1>3, <2>2, <2>3, <2>4 DEF RootInv, SqrtInv, SqrtExact
<1>8. CASE k # MaxRounds /\ z # y
  <2>1. k < MaxRounds
    BY <1>4, <1>5, <1>8
  <2>2. CASE ~InU256(n)
    <3>1. pc' = "done" /\ result' = <<>>
      BY <1>1, <1>3, <1>8, <2>1, <2>2 DEF SqrtRound, Returns
    <3>2. QED
      BY <1>3, <2>2, <3>1 DEF RootInv, SqrtInv, SqrtExact, InU256, MaxU256
  <2>3. CASE InU256(n)
    <3>1. PICK v : v = (n \div z + z) \div 2
      OBVIOUS
    <3>2. pc' = "loop" /\ loc' = [y |-> z, z |-> v, round |-> k + 1]
      BY <1>1, <1>3, <1>8, <2>1, <2>3, <3>1 DEF SqrtRound, Loops
    <3>3. loc'.y = z /\ loc'.z = v /\ loc'.round = k + 1
      BY <3>2
    <3>4. v \in Nat \ {0}
      BY <1>3, <1>4, <3>1, DivQuotient, MeanPositive
    <3>5. OneBelowSquare(n) \/ Converges(n, z, v, k + 1)
      BY <1>3, <1>4, <1>8, <2>3, <3>1, RoundConverges
    <3>6. k + 1 \in 0..MaxRounds
      BY <1>4, <1>5, <2>1
    <3>7. Radicand' = n
      BY <1>1, <1>5
    <3>8. SqrtInv'
      BY <1>2, <1>4, <3>1, <3>3, <3>4, <3>5, <3>6, <3>7 DEF SqrtInv, OneBelowSquare, InU256, MaxU256
    <3>9. QED
      BY <3>2, <3>8 DEF RootInv, SqrtExact
  <2>4. QED
    BY <2>2, <2>3
<1>9. QED
  BY <1>6, <1>7, <1>8

(***************************************************************************)
(* sqrt_int returns the root of x * One rounded down.  It returns None     *)
(* only where x * One does not fit, or is one below a square.              *)
(***************************************************************************)
THEOREM SqrtExactCorrect == MathSpec => []SqrtExact
<1>1. MathInit => RootInv
  BY InitCall DEF RootInv, SqrtInv, SqrtExact
<1>2. ASSUME CallInv, RootInv, [MathNext]_mathVars PROVE RootInv'
  <2>1. UNCHANGED <<fn, arg>>
    BY <1>2, KeepsCall
  <2>2. CASE UNCHANGED mathVars
    BY <1>2, <2>2 DEF RootInv, SqrtInv, SqrtExact, mathVars, Radicand, OneBelowSquare,
                      Converges, InU256, MaxU256
  <2>3. CASE fn # "sqrt_int"
    BY <2>1, <2>3 DEF RootInv, SqrtInv, SqrtExact
  <2>4. CASE MathNext /\ fn = "sqrt_int"
    <3>1. SqrtCall(arg[1]) \/ SqrtRound(arg[1])
      BY <2>4 DEF MathNext, Scaled, UnsafeDivRoundingUp, Mul256, MulDiv, MulDivRoundingUp,
                  Complement, GetTwosAndTwosReverse, InvCall, InvRound, SortCall, SortShift,
                  SortPlace, Called, Looping
    <3>2. QED
      BY <1>2, <2>1, <2>4, <3>1, SqrtStarts, SqrtRounds DEF RootInv
  <2>5. QED
    BY <1>2, <2>2, <2>3, <2>4
<1>3. QED
  BY <1>1, <1>2, CallInvariance, PTL DEF MathSpec, RootInv
=============================================================================
