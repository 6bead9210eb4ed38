---------------------------- MODULE PaymentsProofs ----------------------------
(***************************************************************************)
(* Proofs about the payments, for any users, amounts, permits and fees:    *)
(* whatever sequence of payments, wraps, sweeps and permitted transfers a  *)
(* facet composes, a call costs its sender or the payer it names within    *)
(* its permit, and the contract never pays out more than it holds.         *)
(***************************************************************************)
EXTENDS Payments, FiniteSetTheorems, WellFoundedInduction, TLAPS

(* The contract and WETH9 are accounts of their own, and ETH is not WETH.  *)
AccountsDiffer ==
  /\ This \notin Users /\ Weth \notin Users /\ This # Weth
  /\ Eth \notin {Weth, Token}

Parties == Users \cup {This}
Ledgers == [bal : [Assets -> [Accounts -> Int]],
            permits : [{Weth, Token} -> [Users -> Int]]]

-----------------------------------------------------------------------------
(* Sums.                                                                   *)

(* A set of natural numbers that is not empty has a least element: this is *)
(* what the inductions below rest on.                                      *)
LEMMA Least ==
  ASSUME NEW T \in SUBSET Nat, T # {}
  PROVE  \E n \in T : \A m \in T : n <= m
<1>1. PICK n \in T : \A m \in T : ~(<<m, n>> \in OpToRel(<, Nat))
  BY NatLessThanWellFounded, WFMin
<1>2. ASSUME NEW m \in T, m < n PROVE FALSE
  <2>1. <<m, n>> \in Nat \X Nat /\ <<m, n>>[1] = m /\ <<m, n>>[2] = n
    OBVIOUS
  <2>2. <<m, n>> \in OpToRel(<, Nat)
    BY <1>2, <2>1 DEF OpToRel
  <2>3. QED
    BY <1>1, <2>2
<1>3. QED
  BY <1>2

Pick(s) == CHOOSE x \in s : TRUE

(* g sums up the values of h over the subsets of S, an element at a time. *)
Summing(g, h, S) ==
  /\ g \in [SUBSET S -> Int]
  /\ g[{}] = 0
  /\ \A s \in SUBSET S : s # {} => g[s] = h[Pick(s)] + g[s \ {Pick(s)}]

Sum(h, S) == MapThenSumSet(LAMBDA x : h[x], S)

LEMMA Picked ==
  ASSUME NEW S, IsFiniteSet(S), NEW s \in SUBSET S, s # {}
  PROVE  /\ Pick(s) \in s /\ s \ {Pick(s)} \in SUBSET S
         /\ Cardinality(s) \in Nat /\ Cardinality(s \ {Pick(s)}) = Cardinality(s) - 1
<1>1. Pick(s) \in s
  BY DEF Pick
<1>2. IsFiniteSet(s)
  BY FS_Subset
<1>3. QED
  BY <1>1, <1>2, FS_RemoveElement, FS_CardinalityType

LEMMA PickedNat ==
  ASSUME NEW S, IsFiniteSet(S), NEW s \in SUBSET S, s # {}
  PROVE  /\ Pick(s) \in s /\ Pick(s) \in S /\ s \ {Pick(s)} \in SUBSET S
         /\ Cardinality(s) - 1 \in Nat
         /\ Cardinality(s \ {Pick(s)}) = Cardinality(s) - 1
<1>1. Cardinality(s \ {Pick(s)}) \in Nat
  BY Picked, FS_Subset, FS_CardinalityType
<1>2. QED
  BY <1>1, Picked

(* The library's sum is such a g. *)
LEMMA SumDefined ==
  ASSUME NEW S, IsFiniteSet(S), NEW h \in [S -> Int]
  PROVE  \E g : Summing(g, h, S) /\ Sum(h, S) = g[S]
<1> DEFINE Step(g, s) == IF s = {} THEN 0 ELSE h[Pick(s)] + g[s \ {Pick(s)}]
           UpTo(g, n) == \A s \in SUBSET S : Cardinality(s) <= n => g[s] = Step(g, s)
           T == {n \in Nat : ~\E g \in [SUBSET S -> Int] : UpTo(g, n)}
<1>1. \A s \in SUBSET S : Cardinality(s) \in Nat
  BY FS_Subset, FS_CardinalityType
<1>2. 0 \notin T
  <2>1. PICK g : g = [s \in SUBSET S |-> 0]
    OBVIOUS
  <2>4. g \in [SUBSET S -> Int]
    BY <2>1
  <2>2. ASSUME NEW s \in SUBSET S, Cardinality(s) <= 0 PROVE g[s] = Step(g, s)
    <3>1. s = {}
      BY <1>1, <2>2, FS_Subset, FS_EmptySet
    <3>2. QED
      BY <2>1, <3>1
  <2>3. QED
    BY <2>2, <2>4
<1>3. T = {}
  <2>1. SUFFICES ASSUME T # {} PROVE FALSE
    OBVIOUS
  <2>2. PICK n \in T : \A m \in T : n <= m
    BY <2>1, Least
  <2>3. n \in Nat /\ n # 0 /\ n - 1 \in Nat /\ n - 1 \notin T
    <3>1. n \in Nat /\ n # 0
      BY <1>2, <2>2
    <3> HIDE DEF T
    <3>2. QED
      BY <2>2, <3>1
  <2>4. PICK g \in [SUBSET S -> Int] : UpTo(g, n - 1)
    BY <2>3
  <2>5. PICK k : k = [s \in SUBSET S |-> IF Cardinality(s) <= n - 1 THEN g[s] ELSE Step(g, s)]
    OBVIOUS
  <2>6. ASSUME NEW s \in SUBSET S, s # {}
        PROVE  h[Pick(s)] + g[s \ {Pick(s)}] \in Int
    BY <2>6, Picked
  <2>7. k \in [SUBSET S -> Int]
    BY <2>5, <2>6
  <2>8. ASSUME NEW s \in SUBSET S, Cardinality(s) <= n PROVE k[s] = Step(k, s)
    <3>1. k[s] = Step(g, s)
      BY <2>4, <2>5
    <3>2. CASE s = {}
      BY <3>1, <3>2
    <3>3. CASE s # {}
      <4>1. s \ {Pick(s)} \in SUBSET S /\ Cardinality(s \ {Pick(s)}) <= n - 1
        BY <1>1, <2>3, <2>8, <3>3, Picked
      <4>2. k[s \ {Pick(s)}] = g[s \ {Pick(s)}]
        BY <2>5, <4>1
      <4>3. QED
        BY <3>1, <3>3, <4>2
    <3>4. QED
      BY <3>2, <3>3
  <2>9. n \notin T
    BY <2>7, <2>8
  <2>10. QED
    BY <2>2, <2>9
<1>4. Cardinality(S) \in Nat
  BY FS_CardinalityType
<1>5. PICK g \in [SUBSET S -> Int] : UpTo(g, Cardinality(S))
  BY <1>3, <1>4
<1>6. \A s \in SUBSET S : g[s] = Step(g, s)
  <2>1. \A s \in SUBSET S : Cardinality(s) <= Cardinality(S)
    BY FS_Subset
  <2>2. QED
    BY <1>5, <2>1
<1>7. g = [s \in SUBSET S |-> Step(g, s)]
  <2>1. g = [s \in SUBSET S |-> g[s]]
    BY <1>5
  <2>2. QED
    BY <1>6, <2>1
<1> DEFINE sum == CHOOSE k : k = [s \in SUBSET S |-> Step(k, s)]
<1>8. Sum(h, S) = sum[S]
  BY DEF Sum, MapThenSumSet, MapThenFoldSet, Pick
<1>9. sum = [s \in SUBSET S |-> Step(sum, s)]
  BY <1>7
<1> HIDE DEF sum
<1>10. \A s \in SUBSET S : sum[s] = Step(sum, s)
  BY <1>9
<1>11. sum \in [SUBSET S -> Int]
  <2> DEFINE U == {n \in Nat : \E s \in SUBSET S : Cardinality(s) = n /\ sum[s] \notin Int}
  <2>1. U = {}
    <3>1. SUFFICES ASSUME U # {} PROVE FALSE
      OBVIOUS
    <3>2. PICK n \in U : \A m \in U : n <= m
      BY <3>1, Least
    <3>3. PICK s \in SUBSET S : Cardinality(s) = n /\ sum[s] \notin Int
      BY <3>2
    <3>4. sum[s] = Step(sum, s)
      BY <1>10
    <3>5. s # {}
      BY <3>3, <3>4
    <3>6. PICK x, r : x = Pick(s) /\ r = s \ {Pick(s)}
      OBVIOUS
    <3>7. x \in S /\ r \in SUBSET S /\ Cardinality(r) = n - 1 /\ n - 1 \in Nat
      BY <3>3, <3>5, <3>6, PickedNat
    <3>8. sum[r] \in Int
      BY <3>2, <3>7
    <3>9. h[x] \in Int /\ sum[s] = h[x] + sum[r]
      BY <3>4, <3>5, <3>6, <3>7
    <3>10. QED
      BY <3>3, <3>8, <3>9
  <2>2. \A s \in SUBSET S : sum[s] \in Int
    BY <1>1, <2>1
  <2>3. QED
    BY <1>9, <2>2
<1>12. Summing(sum, h, S)
  BY <1>10, <1>11 DEF Summing
<1>13. QED
  BY <1>8, <1>12

(* One value more or less changes the sum by the difference.               *)
LEMMA SumChanges ==
  ASSUME NEW S, IsFiniteSet(S), NEW h \in [S -> Int], NEW a \in S, NEW d \in Int
  PROVE  Sum(h, S) \in Int /\ Sum([h EXCEPT ![a] = h[a] + d], S) = Sum(h, S) + d
<1>1. PICK h2 : h2 = [h EXCEPT ![a] = h[a] + d]
  OBVIOUS
<1>0. h2 \in [S -> Int]
  BY <1>1
<1>2. PICK g : Summing(g, h, S) /\ Sum(h, S) = g[S]
  BY SumDefined
<1>3. PICK g2 : Summing(g2, h2, S) /\ Sum(h2, S) = g2[S]
  BY <1>0, SumDefined
<1> DEFINE With(s) == IF a \in s THEN d ELSE 0
           T == {n \in Nat : \E s \in SUBSET S : Cardinality(s) = n /\ g2[s] # g[s] + With(s)}
<1>4. T = {}
  <2>1. SUFFICES ASSUME T # {} PROVE FALSE
    OBVIOUS
  <2>2. PICK n \in T : \A m \in T : n <= m
    BY <2>1, Least
  <2>3. PICK s \in SUBSET S : Cardinality(s) = n /\ g2[s] # g[s] + With(s)
    BY <2>2
  <2>4. s # {}
    <3>1. g2[{}] = g[{}] + With({})
      BY <1>2, <1>3 DEF Summing
    <3>2. QED
      BY <2>3, <3>1
  <2>5. PICK x, r : x = Pick(s) /\ r = s \ {Pick(s)}
    OBVIOUS
  <2>6. x \in s /\ x \in S /\ r \in SUBSET S /\ Cardinality(r) = n - 1 /\ n - 1 \in Nat
    BY <2>3, <2>4, <2>5, PickedNat
  <2>7. g2[r] = g[r] + With(r)
    <3>1. n - 1 \notin T
      BY <2>2, <2>6
    <3>2. QED
      BY <2>6, <3>1
  <2>8. g2[s] = h2[x] + g2[r] /\ g[s] = h[x] + g[r]
    BY <1>2, <1>3, <2>4, <2>5 DEF Summing
  <2>9. g[r] \in Int /\ g2[r] \in Int /\ h[x] \in Int /\ h2[x] \in Int
    BY <1>0, <1>2, <1>3, <2>6 DEF Summing
  <2>10. CASE x = a
    <3>1. a \notin r /\ a \in s /\ h2[x] = h[x] + d
      BY <1>1, <2>5, <2>6, <2>10
    <3>2. QED
      BY <2>3, <2>7, <2>8, <2>9, <3>1
  <2>11. CASE x # a
    <3>1. (a \in r) = (a \in s) /\ h2[x] = h[x]
      BY <1>1, <2>5, <2>6, <2>11
    <3>2. QED
      BY <2>3, <2>7, <2>8, <2>9, <3>1
  <2>12. QED
    BY <2>10, <2>11
<1>5. g2[S] = g[S] + d
  <2>1. Cardinality(S) \in Nat
    BY FS_CardinalityType
  <2>2. QED
    BY <1>4, <2>1
<1>6. g[S] \in Int
  BY <1>2 DEF Summing
<1>7. QED
  BY <1>1, <1>2, <1>3, <1>5, <1>6

LEMMA SumOfZeros ==
  ASSUME NEW S, IsFiniteSet(S), NEW h \in [S -> {0}]
  PROVE  Sum(h, S) = 0
<1>1. PICK g : Summing(g, h, S) /\ Sum(h, S) = g[S]
  BY SumDefined
<1> DEFINE T == {n \in Nat : \E s \in SUBSET S : Cardinality(s) = n /\ g[s] # 0}
<1>2. T = {}
  <2>1. SUFFICES ASSUME T # {} PROVE FALSE
    OBVIOUS
  <2>2. PICK n \in T : \A m \in T : n <= m
    BY <2>1, Least
  <2>3. PICK s \in SUBSET S : Cardinality(s) = n /\ g[s] # 0
    BY <2>2
  <2>4. s # {}
    BY <1>1, <2>3 DEF Summing
  <2>5. Pick(s) \in S /\ s \ {Pick(s)} \in SUBSET S /\ Cardinality(s \ {Pick(s)}) = n - 1
        /\ n - 1 \in Nat
    BY <2>3, <2>4, PickedNat
  <2>6. g[s \ {Pick(s)}] = 0
    BY <2>2, <2>5
  <2>7. QED
    BY <1>1, <2>3, <2>4, <2>5, <2>6 DEF Summing
<1>3. Cardinality(S) \in Nat
  BY FS_CardinalityType
<1>4. QED
  BY <1>1, <1>2, <1>3

-----------------------------------------------------------------------------
(* Payments.                                                               *)

(* A ledger in which the contract is not in debt. *)
Solvent(l) == l \in Ledgers /\ \A a \in Assets : l.bal[a][This] >= 0

(* What WETH9 owes less what it holds. *)
Unbacked(l) == Sum(l.bal[Weth], Accounts) - l.bal[Eth][Weth]

(* From l to m no user but x loses anything, and WETH9 is as well backed.  *)
CostsOnly(x, l, m) ==
  /\ Solvent(m) /\ Unbacked(m) = Unbacked(l)
  /\ \A u \in Users \ {x}, a \in Assets : l.bal[a][u] <= m.bal[a][u]

-----------------------------------------------------------------------------
LEMMA MovedEffect ==
  ASSUME NEW h \in [Accounts -> Int], NEW from \in Accounts, NEW to \in Accounts,
         NEW v \in Nat
  PROVE  /\ Moved(h, from, to, v) \in [Accounts -> Int]
         /\ from = to => Moved(h, from, to, v) = h
         /\ from # to => /\ Moved(h, from, to, v)[from] = h[from] - v
                         /\ Moved(h, from, to, v)[to] = h[to] + v
         /\ \A x \in Accounts \ {from, to} : Moved(h, from, to, v)[x] = h[x]
<1>1. PICK f : f = [h EXCEPT ![from] = h[from] - v]
  OBVIOUS
<1>2. PICK g : g = [f EXCEPT ![to] = f[to] + v]
  OBVIOUS
<1>3. Moved(h, from, to, v) = g
  BY <1>1, <1>2 DEF Moved
<1>4. f \in [Accounts -> Int] /\ f[from] = h[from] - v /\ h[from] \in Int
      /\ \A x \in Accounts \ {from} : f[x] = h[x]
  BY <1>1
<1>5. g \in [Accounts -> Int] /\ g[to] = f[to] + v
      /\ \A x \in Accounts \ {to} : g[x] = f[x]
  BY <1>2, <1>4
<1>6. from = to => \A x \in Accounts : g[x] = h[x]
  BY <1>4, <1>5
<1>7. from = to => g = h
  <2>1. g = [x \in Accounts |-> g[x]] /\ h = [x \in Accounts |-> h[x]]
    BY <1>5
  <2>2. QED
    BY <1>6, <2>1
<1>8. QED
  BY <1>3, <1>4, <1>5, <1>7

LEMMA AccountsFinite == IsFiniteSet(Accounts)
<1>1. IsFiniteSet(Users)
  BY PaymentsAssumption
<1>2. Accounts = (Users \cup {This}) \cup {Weth}
  BY DEF Accounts
<1>3. QED
  BY <1>1, <1>2, FS_AddElement

(* What is moved stays in the sum. *)
LEMMA MovedSum ==
  ASSUME NEW h \in [Accounts -> Int], NEW from \in Accounts, NEW to \in Accounts,
         NEW v \in Nat
  PROVE  Sum(Moved(h, from, to, v), Accounts) = Sum(h, Accounts)
<1>1. PICK f : f = [h EXCEPT ![from] = h[from] + (0 - v)]
  OBVIOUS
<1>2. PICK g : g = [f EXCEPT ![to] = f[to] + v]
  OBVIOUS
<1>3. 0 - v \in Int /\ v \in Int /\ h[from] + (0 - v) = h[from] - v
  OBVIOUS
<1>4. Moved(h, from, to, v) = g
  BY <1>1, <1>2, <1>3 DEF Moved
<1>5. f \in [Accounts -> Int]
  BY <1>1, <1>3
<1>6. Sum(h, Accounts) \in Int /\ Sum(f, Accounts) = Sum(h, Accounts) + (0 - v)
  BY <1>1, <1>3, AccountsFinite, SumChanges
<1>7. Sum(g, Accounts) = Sum(f, Accounts) + v
  BY <1>2, <1>3, <1>5, AccountsFinite, SumChanges
<1>8. QED
  BY <1>4, <1>6, <1>7

(* The sum over another holding changes nothing else. *)
LEMMA HoldingSum ==
  ASSUME NEW h \in [Accounts -> Int]
  PROVE  Sum(h, Accounts) \in Int
<1>1. This \in Accounts /\ 0 \in Int
  BY DEF Accounts
<1>2. QED
  BY <1>1, AccountsFinite, SumChanges

(* A transfer out of what an account holds. *)
LEMMA TransferCosts ==
  ASSUME AccountsDiffer, NEW l, Solvent(l), NEW token \in Assets,
         NEW from \in Parties, NEW to \in Parties, NEW v \in Nat,
         NEW m \in Transfer(l, token, from, to, v)
  PROVE  CostsOnly(from, l, m)
<1>1. /\ m = [l EXCEPT !.bal[token] = Moved(l.bal[token], from, to, v)]
      /\ ~(v > l.bal[token][from])
  BY DEF Transfer
<1>2. /\ from \in Accounts /\ to \in Accounts /\ This \in Accounts
      /\ l \in Ledgers /\ l.bal \in [Assets -> [Accounts -> Int]]
      /\ l.bal[token] \in [Accounts -> Int] /\ l.bal[token][from] \in Int
  BY DEF Parties, Accounts, Solvent, Ledgers
<1> DEFINE h == Moved(l.bal[token], from, to, v)
<1>3. /\ h \in [Accounts -> Int]
      /\ from = to => h = l.bal[token]
      /\ from # to => h[from] = l.bal[token][from] - v /\ h[to] = l.bal[token][to] + v
      /\ \A x \in Accounts \ {from, to} : h[x] = l.bal[token][x]
  <2>1. PICK f \in [Accounts -> Int] : f = l.bal[token]
    BY <1>2
  <2>2. /\ Moved(f, from, to, v) \in [Accounts -> Int]
        /\ from = to => Moved(f, from, to, v) = f
        /\ from # to => /\ Moved(f, from, to, v)[from] = f[from] - v
                        /\ Moved(f, from, to, v)[to] = f[to] + v
        /\ \A x \in Accounts \ {from, to} : Moved(f, from, to, v)[x] = f[x]
    BY <1>2, MovedEffect
  <2>3. QED
    BY <2>1, <2>2
<1> HIDE DEF h
<1>4. /\ m.bal = [l.bal EXCEPT ![token] = h] /\ m.permits = l.permits /\ m \in Ledgers
  BY <1>1, <1>2, <1>3 DEF Ledgers, h
<1>5. m.bal[token] = h /\ \A a \in Assets \ {token} : m.bal[a] = l.bal[a]
  BY <1>2, <1>4
<1>6. h[This] >= 0
  <2>1. l.bal[token][This] >= 0 /\ l.bal[token][This] \in Int
    BY <1>2 DEF Solvent
  <2>2. CASE from = to
    BY <1>3, <2>1, <2>2
  <2>3. CASE from # to
    BY <1>1, <1>2, <1>3, <2>1, <2>3
  <2>4. QED
    BY <2>2, <2>3
<1>7. Solvent(m)
  BY <1>4, <1>5, <1>6 DEF Solvent
<1>8. ASSUME NEW u \in Users \ {from}, NEW a \in Assets
      PROVE  l.bal[a][u] <= m.bal[a][u]
  <2>1. u \in Accounts /\ l.bal[a][u] \in Int
    BY <1>2 DEF Accounts
  <2>2. CASE a # token
    BY <1>5, <2>1, <2>2
  <2>3. CASE a = token
    BY <1>2, <1>3, <1>5, <2>1, <2>3
  <2>4. QED
    BY <2>2, <2>3
<1>9. Unbacked(m) = Unbacked(l)
  <2>1. {Eth, Weth} \subseteq Assets /\ Eth # Weth /\ Weth \in Accounts \ {from, to}
    BY DEF Assets, Accounts, Parties, AccountsDiffer
  <2>2. m.bal[Eth][Weth] = l.bal[Eth][Weth]
    BY <1>3, <1>5, <2>1
  <2>3. Sum(m.bal[Weth], Accounts) = Sum(l.bal[Weth], Accounts)
    <3>1. Sum(h, Accounts) = Sum(l.bal[token], Accounts)
      BY <1>2, MovedSum DEF h
    <3>2. QED
      BY <1>5, <2>1, <3>1
  <2>4. QED
    BY <2>2, <2>3 DEF Unbacked
<1>10. QED
  BY <1>7, <1>8, <1>9 DEF CostsOnly

(* Nothing happens at all. *)
LEMMA StayCosts ==
  ASSUME NEW l, Solvent(l), NEW x
  PROVE  CostsOnly(x, l, l)
<1>1. \A u \in Users, a \in Assets : l.bal[a][u] \in Int
  BY DEF Solvent, Ledgers, Accounts
<1>2. QED
  BY <1>1 DEF CostsOnly

(* Permit2 takes from the owner of the permit only. *)
LEMMA Permit2TransferCosts ==
  ASSUME AccountsDiffer, NEW l, Solvent(l), NEW token \in {Weth, Token},
         NEW from \in Users, NEW to \in Parties, NEW v \in Nat,
         NEW m \in Permit2Transfer(l, token, from, to, v)
  PROVE  CostsOnly(from, l, m)
<1>1. CASE from = to
  BY <1>1, StayCosts DEF Permit2Transfer
<1>2. CASE from # to
  <2>1. PICK k : k = [l EXCEPT !.permits[token][from] = l.permits[token][from] - v]
    OBVIOUS
  <2>2. m \in Transfer(k, token, from, to, v)
    BY <1>2, <2>1 DEF Permit2Transfer
  <2>3. k.bal = l.bal /\ k \in Ledgers
    BY <2>1 DEF Solvent, Ledgers
  <2>4. Solvent(k)
    BY <2>3 DEF Solvent
  <2>5. CostsOnly(from, k, m)
    BY <2>2, <2>4, TransferCosts DEF Parties, Assets
  <2>6. Unbacked(k) = Unbacked(l)
    BY <2>3 DEF Unbacked
  <2>7. QED
    BY <2>3, <2>5, <2>6 DEF CostsOnly
<1>3. QED
  BY <1>1, <1>2

(* The payments of a facet: the payer is the sender or the contract.       *)
LEMMA PayCosts ==
  ASSUME AccountsDiffer, NEW l, Solvent(l), NEW token \in Assets,
         NEW to \in Parties, NEW v \in Nat, NEW m \in Pay(l, token, to, v)
  PROVE  CostsOnly(This, l, m)
<1>1. CASE to = This
  BY <1>1, StayCosts DEF Pay
<1>2. CASE to # This
  <2>1. PICK w : /\ w = IF v = ContractBalance /\ ~IsETH(token)
                        THEN UniBalanceOf(l, token, This) ELSE v
                 /\ m \in Transfer(l, token, This, to, w)
    BY <1>2 DEF Pay
  <2>2. UniBalanceOf(l, token, This) \in Nat
    BY DEF Solvent, Ledgers, UniBalanceOf, Accounts
  <2>3. w \in Nat
    BY <2>1, <2>2
  <2>4. QED
    BY <2>1, <2>3, TransferCosts DEF Parties
<1>3. QED
  BY <1>1, <1>2

LEMMA PayOrPermit2TransferCosts ==
  ASSUME AccountsDiffer, NEW l, Solvent(l), NEW token \in Assets,
         NEW from \in Parties, NEW to \in Parties, NEW v \in Nat,
         NEW m \in PayOrPermit2Transfer(l, token, from, to, v)
  PROVE  CostsOnly(from, l, m)
<1>1. CASE from = This
  BY <1>1, PayCosts DEF PayOrPermit2Transfer
<1>2. CASE from # This
  <2>1. from \in Users /\ m \in PayFrom(l, token, from, to, v)
    BY <1>2 DEF PayOrPermit2Transfer, Parties
  <2>2. CASE from = to \/ IsETH(token)
    BY <2>1, <2>2, StayCosts DEF PayFrom
  <2>3. CASE ~(from = to \/ IsETH(token))
    <3>1. token \in {Weth, Token} /\ m \in Permit2Transfer(l, token, from, to, v)
      BY <2>1, <2>3 DEF PayFrom, IsETH, Assets
    <3>2. QED
      BY <2>1, <3>1, Permit2TransferCosts
  <2>4. QED
    BY <2>2, <2>3
<1>3. QED
  BY <1>1, <1>2

LEMMA Maps ==
  ASSUME NEW u \in Users, NEW payer, NEW recipient \in {MsgSender, AddressThis, Eth} \cup Users
  PROVE  PayerMap(payer, u) \subseteq {u, This} /\ RecipientMap(recipient, u) \in Parties
<1>1. PayerMap(payer, u) \subseteq {u, This}
  BY DEF PayerMap
<1>2. RecipientMap(recipient, u) \in Parties
  BY DEF RecipientMap, IsETH, Parties
<1>3. QED
  BY <1>1, <1>2

(* What costs the contract only costs no user at all. *)
LEMMA CostsOfContract ==
  ASSUME AccountsDiffer, NEW l, NEW m, CostsOnly(This, l, m), NEW u
  PROVE  CostsOnly(u, l, m)
BY DEF CostsOnly, AccountsDiffer

-----------------------------------------------------------------------------
(* A batch of two transfers of permitted tokens. *)
LEMMA BatchOfTwo ==
  ASSUME NEW d, NEW e
  PROVE  AfterBatch(<<d, e>>) =
           UNION {Permit2Transfer(l, e.token, e.from, e.to, e.amount) :
                    l \in Permit2Transfer(ledger, d.token, d.from, d.to, d.amount)}
<1> DEFINE batch == <<d, e>>
           Step(f, i) == IF i = 0 THEN {ledger}
                         ELSE UNION {Permit2Transfer(l, batch[i].token, batch[i].from,
                                                     batch[i].to, batch[i].amount) :
                                       l \in f[i - 1]}
           one == Permit2Transfer(ledger, d.token, d.from, d.to, d.amount)
           two == UNION {Permit2Transfer(l, e.token, e.from, e.to, e.amount) : l \in one}
           g == [i \in 0..2 |-> IF i = 0 THEN {ledger} ELSE IF i = 1 THEN one ELSE two]
           after == CHOOSE f : f = [i \in 0..2 |-> Step(f, i)]
<1>1. Len(batch) = 2 /\ batch[1] = d /\ batch[2] = e
  OBVIOUS
<1>2. AfterBatch(batch) = after[2]
  BY <1>1 DEF AfterBatch
<1>3. g = [i \in 0..2 |-> Step(g, i)]
  <2>1. g[0] = {ledger} /\ g[1] = one /\ g[2] = two
    OBVIOUS
  <2>2. UNION {Permit2Transfer(l, d.token, d.from, d.to, d.amount) : l \in {ledger}} = one
    OBVIOUS
  <2>3. Step(g, 0) = {ledger} /\ Step(g, 1) = one /\ Step(g, 2) = two
    BY <1>1, <2>1, <2>2
  <2>4. ASSUME NEW i \in 0..2 PROVE g[i] = Step(g, i)
    <3>1. CASE i = 0
      BY <2>1, <2>3, <3>1
    <3>2. CASE i = 1
      BY <2>1, <2>3, <3>2
    <3>3. CASE i = 2
      BY <2>1, <2>3, <3>3
    <3>4. QED
      BY <3>1, <3>2, <3>3
  <2>5. g = [i \in 0..2 |-> g[i]]
    OBVIOUS
  <2>6. QED
    BY <2>4, <2>5
<1>4. PICK f : f = after /\ f = [i \in 0..2 |-> Step(f, i)]
  BY <1>3
<1>5. f[0] = Step(f, 0) /\ f[1] = Step(f, 1) /\ f[2] = Step(f, 2)
  <2>1. \A i \in 0..2 : f[i] = Step(f, i)
    BY <1>4
  <2>2. 0 \in 0..2 /\ 1 \in 0..2 /\ 2 \in 0..2
    OBVIOUS
  <2>3. QED
    BY <2>1, <2>2, Zenon
<1>6. f[0] = {ledger} /\ f[1] = one
  BY <1>1, <1>5
<1>7. f[2] = two
  BY <1>1, <1>5, <1>6
<1>8. QED
  BY <1>2, <1>4, <1>7

LEMMA BatchCosts ==
  ASSUME AccountsDiffer, Solvent(ledger), NEW u \in Users, NEW d \in Details,
         NEW e \in Details, Permit2TransferFromBatch(u, <<d, e>>)
  PROVE  CostsOnly(u, ledger, ledger')
<1>1. ledger' \in AfterBatch(<<d, e>>) /\ OwnerIsSender(<<d, e>>, u)
  BY DEF Permit2TransferFromBatch
<1>2. d.from = u /\ e.from = u
  <2>1. 1 \in DOMAIN <<d, e>> /\ 2 \in DOMAIN <<d, e>>
    OBVIOUS
  <2>2. <<d, e>>[1].from = u /\ <<d, e>>[2].from = u
    BY <1>1, <2>1 DEF OwnerIsSender
  <2>3. QED
    BY <2>2
<1>3. PICK l \in Permit2Transfer(ledger, d.token, d.from, d.to, d.amount) :
        ledger' \in Permit2Transfer(l, e.token, e.from, e.to, e.amount)
  BY <1>1, BatchOfTwo
<1>4. /\ d.token \in {Weth, Token} /\ d.to \in Parties /\ d.amount \in Nat
      /\ e.token \in {Weth, Token} /\ e.to \in Parties /\ e.amount \in Nat
  BY DEF Details, Recipients, Parties
<1>5. CostsOnly(u, ledger, l)
  BY <1>2, <1>3, <1>4, Permit2TransferCosts
<1>6. CostsOnly(u, l, ledger')
  BY <1>2, <1>3, <1>4, <1>5, Permit2TransferCosts DEF CostsOnly
<1>7. /\ Solvent(ledger) /\ Solvent(l) /\ Solvent(ledger')
      /\ \A x \in Users, a \in Assets :
           ledger.bal[a][x] \in Int /\ l.bal[a][x] \in Int /\ ledger'.bal[a][x] \in Int
  <2>1. Solvent(ledger) /\ Solvent(l) /\ Solvent(ledger')
    BY <1>5, <1>6 DEF CostsOnly
  <2>2. \A k : Solvent(k) => \A x \in Users, a \in Assets : k.bal[a][x] \in Int
    BY DEF Solvent, Ledgers, Accounts
  <2>3. QED
    BY <2>1, <2>2
<1>8. ASSUME NEW x \in Users \ {u}, NEW a \in Assets
      PROVE  ledger.bal[a][x] <= ledger'.bal[a][x]
  <2>1. ledger.bal[a][x] <= l.bal[a][x] /\ l.bal[a][x] <= ledger'.bal[a][x]
    BY <1>5, <1>6 DEF CostsOnly
  <2>2. QED
    BY <1>7, <2>1
<1>9. Unbacked(ledger') = Unbacked(ledger)
  BY <1>5, <1>6 DEF CostsOnly
<1>10. QED
  BY <1>7, <1>8, <1>9 DEF CostsOnly

LEMMA FacetPaysCosts ==
  ASSUME AccountsDiffer, Solvent(ledger), NEW u \in Users, NEW t \in Assets, NEW p,
         NEW r \in {MsgSender, AddressThis, Eth} \cup Users, NEW v \in Nat,
         FacetPays(u, t, p, r, v)
  PROVE  CostsOnly(u, ledger, ledger')
<1>1. PICK from \in PayerMap(p, u) :
        ledger' \in PayOrPermit2Transfer(ledger, t, from, RecipientMap(r, u), v)
  BY DEF FacetPays
<1>2. from \in {u, This} /\ from \in Parties /\ RecipientMap(r, u) \in Parties
  BY <1>1, Maps DEF Parties
<1>3. CostsOnly(from, ledger, ledger')
  BY <1>1, <1>2, PayOrPermit2TransferCosts
<1>4. QED
  BY <1>2, <1>3, CostsOfContract

LEMMA PayPortionCosts ==
  ASSUME AccountsDiffer, Solvent(ledger), NEW u \in Users, NEW t \in Assets,
         NEW r \in Recipients, NEW b \in Bips, PayPortion(u, t, r, b)
  PROVE  CostsOnly(u, ledger, ledger')
<1> DEFINE v == (UniBalanceOf(ledger, t, This) * b) \div FEE_BIPS_BASE
<1>1. UniBalanceOf(ledger, t, This) \in Nat /\ b \in Nat
  BY PaymentsAssumption DEF Solvent, Ledgers, UniBalanceOf, Accounts
<1>2. v \in Nat
  BY <1>1 DEF FEE_BIPS_BASE
<1>3. ledger' \in Transfer(ledger, t, This, r, v)
  BY DEF PayPortion
<1> HIDE DEF v
<1>4. CostsOnly(This, ledger, ledger')
  BY <1>2, <1>3, TransferCosts DEF Recipients, Parties
<1>5. QED
  BY <1>4, CostsOfContract

LEMMA SweepCosts ==
  ASSUME AccountsDiffer, Solvent(ledger), NEW u \in Users, NEW t \in Assets,
         NEW r \in Recipients, NEW v, Sweep(u, t, r, v)
  PROVE  CostsOnly(u, ledger, ledger')
<1>1. UniBalanceOf(ledger, t, This) \in Nat
  BY DEF Solvent, Ledgers, UniBalanceOf, Accounts
<1>2. ledger' \in Transfer(ledger, t, This, r, UniBalanceOf(ledger, t, This))
  BY DEF Sweep
<1>3. CostsOnly(This, ledger, ledger')
  BY <1>1, <1>2, TransferCosts DEF Recipients, Parties
<1>4. QED
  BY <1>3, CostsOfContract

(* A ledger with other holdings of ETH and of WETH. *)
LEMMA TwoHoldings ==
  ASSUME AccountsDiffer, Solvent(ledger), NEW u,
         NEW eth \in [Accounts -> Int], NEW weth \in [Accounts -> Int], NEW m,
         m \in Ledgers, m.bal[Eth] = eth, m.bal[Weth] = weth,
         \A a \in Assets \ {Eth, Weth} : m.bal[a] = ledger.bal[a],
         eth[This] >= 0, weth[This] >= 0,
         Sum(weth, Accounts) - eth[Weth]
           = Sum(ledger.bal[Weth], Accounts) - ledger.bal[Eth][Weth],
         \A x \in Users : ledger.bal[Eth][x] <= eth[x] /\ ledger.bal[Weth][x] <= weth[x]
  PROVE  CostsOnly(u, ledger, m)
<1>1. Solvent(m)
  BY DEF Solvent
<1>2. \A x \in Users, a \in Assets : ledger.bal[a][x] \in Int
  BY DEF Solvent, Ledgers, Accounts
<1>3. ASSUME NEW x \in Users, NEW a \in Assets
      PROVE  ledger.bal[a][x] <= m.bal[a][x]
  <2>1. CASE a \in {Eth, Weth}
    BY <2>1
  <2>2. CASE a \notin {Eth, Weth}
    BY <1>2, <2>2
  <2>3. QED
    BY <2>1, <2>2
<1>4. Unbacked(m) = Unbacked(ledger)
  BY DEF Unbacked
<1>5. QED
  BY <1>1, <1>3, <1>4 DEF CostsOnly

LEMMA HoldingTypes ==
  ASSUME Solvent(ledger)
  PROVE  /\ ledger \in Ledgers
         /\ ledger.bal[Eth] \in [Accounts -> Int] /\ ledger.bal[Weth] \in [Accounts -> Int]
         /\ This \in Accounts /\ Weth \in Accounts /\ Users \subseteq Accounts
         /\ Recipients \subseteq Accounts
         /\ ledger.bal[Eth][This] >= 0 /\ ledger.bal[Weth][This] >= 0
BY DEF Solvent, Ledgers, Assets, Accounts, Recipients

LEMMA WrapCosts ==
  ASSUME AccountsDiffer, Solvent(ledger), NEW u \in Users, NEW r \in Recipients,
         NEW amount \in Nat, WrapETH(u, r, amount)
  PROVE  CostsOnly(u, ledger, ledger')
<1> DEFINE v == WrapAmount(amount)
           eth == Moved(ledger.bal[Eth], This, Weth, v)
           more == [ledger.bal[Weth] EXCEPT ![This] = ledger.bal[Weth][This] + v]
           weth == Moved(more, This, r, v)
<1>1. /\ v <= ledger.bal[Eth][This]
      /\ ledger' = [ledger EXCEPT !.bal[Eth] = eth, !.bal[Weth] = weth]
  BY DEF WrapETH, WrapFits, WethPaid
<1>0. /\ This \in Accounts /\ Weth \in Accounts /\ r \in Accounts /\ This # Weth
      /\ Users \subseteq Accounts
  BY HoldingTypes DEF AccountsDiffer
<1>2. v \in Nat
  BY HoldingTypes DEF WrapAmount
<1> HIDE DEF v
<1>3. /\ eth \in [Accounts -> Int] /\ eth[This] = ledger.bal[Eth][This] - v
      /\ eth[Weth] = ledger.bal[Eth][Weth] + v
      /\ \A x \in Users : eth[x] = ledger.bal[Eth][x]
  <2>1. PICK f \in [Accounts -> Int] : f = ledger.bal[Eth]
    BY HoldingTypes
  <2>2. /\ Moved(f, This, Weth, v) \in [Accounts -> Int]
        /\ Moved(f, This, Weth, v)[This] = f[This] - v
        /\ Moved(f, This, Weth, v)[Weth] = f[Weth] + v
        /\ \A x \in Accounts \ {This, Weth} : Moved(f, This, Weth, v)[x] = f[x]
    BY <1>0, <1>2, MovedEffect
  <2>3. QED
    BY <1>0, <2>1, <2>2 DEF AccountsDiffer
<1>4. /\ more \in [Accounts -> Int] /\ more[This] = ledger.bal[Weth][This] + v
      /\ \A x \in Users : more[x] = ledger.bal[Weth][x]
  BY <1>2, HoldingTypes DEF AccountsDiffer
<1>9. Sum(weth, Accounts) = Sum(ledger.bal[Weth], Accounts) + v
  <2>1. Sum(more, Accounts) = Sum(ledger.bal[Weth], Accounts) + v
    BY <1>0, <1>2, HoldingTypes, AccountsFinite, SumChanges
  <2> HIDE DEF more
  <2>2. Sum(weth, Accounts) = Sum(more, Accounts)
    BY <1>0, <1>2, <1>4, MovedSum
  <2>3. QED
    BY <2>1, <2>2
<1> HIDE DEF eth, more
<1>5. /\ weth \in [Accounts -> Int] /\ weth[This] >= 0
      /\ \A x \in Users : ledger.bal[Weth][x] <= weth[x]
  <2>1. /\ weth \in [Accounts -> Int]
        /\ This = r => weth = more
        /\ This # r => weth[This] = more[This] - v /\ weth[r] = more[r] + v
        /\ \A x \in Accounts \ {This, r} : weth[x] = more[x]
    <3>1. PICK f \in [Accounts -> Int] : f = more
      BY <1>4
    <3>2. /\ Moved(f, This, r, v) \in [Accounts -> Int]
          /\ This = r => Moved(f, This, r, v) = f
          /\ This # r => /\ Moved(f, This, r, v)[This] = f[This] - v
                         /\ Moved(f, This, r, v)[r] = f[r] + v
          /\ \A x \in Accounts \ {This, r} : Moved(f, This, r, v)[x] = f[x]
      BY <1>0, <1>2, MovedEffect
    <3>3. QED
      BY <3>1, <3>2
  <2>2. ledger.bal[Weth][This] \in Int /\ \A x \in Users : ledger.bal[Weth][x] \in Int
    BY HoldingTypes
  <2>3. weth[This] >= 0
    BY <1>2, <1>4, <2>1, <2>2, HoldingTypes
  <2>4. ASSUME NEW x \in Users PROVE ledger.bal[Weth][x] <= weth[x]
    <3>1. x \in Accounts /\ x # This
      BY HoldingTypes DEF AccountsDiffer
    <3>2. CASE x = r
      BY <1>2, <1>4, <2>1, <2>2, <3>1, <3>2
    <3>3. CASE x # r
      BY <1>4, <2>1, <2>2, <3>1, <3>3
    <3>4. QED
      BY <3>2, <3>3
  <2>5. QED
    BY <2>1, <2>3, <2>4
<1> HIDE DEF weth
<1>6. /\ ledger' \in Ledgers /\ ledger'.bal[Eth] = eth /\ ledger'.bal[Weth] = weth
      /\ \A a \in Assets \ {Eth, Weth} : ledger'.bal[a] = ledger.bal[a]
  BY <1>1, <1>3, <1>5, HoldingTypes DEF Ledgers, Assets, AccountsDiffer
<1>7. eth[This] >= 0 /\ \A x \in Users : ledger.bal[Eth][x] <= eth[x]
  BY <1>1, <1>2, <1>3, HoldingTypes
<1>8. Sum(weth, Accounts) - eth[Weth]
        = Sum(ledger.bal[Weth], Accounts) - ledger.bal[Eth][Weth]
  <2>1. ledger.bal[Eth][Weth] \in Int /\ Sum(ledger.bal[Weth], Accounts) \in Int
    BY HoldingTypes, HoldingSum
  <2>2. QED
    BY <1>2, <1>3, <1>9, <2>1
<1>10. QED
  BY <1>3, <1>5, <1>6, <1>7, <1>8, TwoHoldings

LEMMA UnwrapCosts ==
  ASSUME AccountsDiffer, Solvent(ledger), NEW u \in Users, NEW r \in Recipients,
         NEW amount \in Nat, UnwrapWETH9(u, r, amount)
  PROVE  CostsOnly(u, ledger, ledger')
<1> DEFINE eth == Moved(ledger.bal[Eth], Weth, r, amount)
           weth == [ledger.bal[Weth] EXCEPT ![This] = ledger.bal[Weth][This] - amount]
<1>1. /\ ledger.bal[Weth][This] >= amount
      /\ ledger' = [ledger EXCEPT !.bal[Weth] = weth, !.bal[Eth] = eth]
  BY HoldingTypes DEF UnwrapWETH9, AccountsDiffer
<1>0. /\ This \in Accounts /\ Weth \in Accounts /\ r \in Accounts /\ This # Weth
      /\ Users \subseteq Accounts
  BY HoldingTypes DEF AccountsDiffer
<1>2. /\ eth \in [Accounts -> Int] /\ eth[This] >= 0
      /\ \A x \in Users : ledger.bal[Eth][x] <= eth[x]
      /\ eth[Weth] = ledger.bal[Eth][Weth] - amount
  <2>1. PICK f \in [Accounts -> Int] : f = ledger.bal[Eth] /\ f[This] >= 0
    BY HoldingTypes
  <2>2. /\ Moved(f, Weth, r, amount) \in [Accounts -> Int]
        /\ Weth = r => Moved(f, Weth, r, amount) = f
        /\ Weth # r => Moved(f, Weth, r, amount)[r] = f[r] + amount
        /\ Weth # r => Moved(f, Weth, r, amount)[Weth] = f[Weth] - amount
        /\ \A x \in Accounts \ {Weth, r} : Moved(f, Weth, r, amount)[x] = f[x]
    BY <1>0, MovedEffect
  <2>3. ASSUME NEW x \in Parties
        PROVE  f[x] <= Moved(f, Weth, r, amount)[x] /\ f[x] \in Int
    <3>1. x \in Accounts /\ x # Weth /\ f[x] \in Int
      BY <1>0 DEF Parties, AccountsDiffer
    <3>2. CASE x = r
      BY <2>2, <3>1, <3>2
    <3>3. CASE x # r
      BY <2>2, <3>1, <3>3
    <3>4. QED
      BY <3>1, <3>2, <3>3
  <2>4. eth \in [Accounts -> Int] /\ \A x \in Parties : f[x] <= eth[x] /\ f[x] \in Int
    BY <2>1, <2>2, <2>3
  <2>5. This \in Parties /\ Users \subseteq Parties /\ eth[This] \in Int
    BY <1>0, <2>4 DEF Parties
  <2>6. Weth # r
    BY DEF Recipients, AccountsDiffer
  <2>7. QED
    BY <2>1, <2>2, <2>4, <2>5, <2>6
<1>3. /\ weth \in [Accounts -> Int] /\ weth[This] >= 0
      /\ \A x \in Users : ledger.bal[Weth][x] <= weth[x]
  <2>1. ledger.bal[Weth] \in [Accounts -> Int]
    BY HoldingTypes
  <2>2. /\ weth \in [Accounts -> Int] /\ weth[This] = ledger.bal[Weth][This] - amount
        /\ \A x \in Users : weth[x] = ledger.bal[Weth][x]
    BY <1>0, <2>1 DEF AccountsDiffer
  <2>3. QED
    BY <1>0, <1>1, <2>1, <2>2
<1>6. Sum(weth, Accounts) = Sum(ledger.bal[Weth], Accounts) + (0 - amount)
  <2>1. PICK f \in [Accounts -> Int] : f = ledger.bal[Weth]
    BY HoldingTypes
  <2>2. 0 - amount \in Int /\ f[This] - amount = f[This] + (0 - amount)
    BY <1>0
  <2>3. Sum([f EXCEPT ![This] = f[This] + (0 - amount)], Accounts)
          = Sum(f, Accounts) + (0 - amount)
    BY <1>0, <2>2, AccountsFinite, SumChanges
  <2>4. QED
    BY <2>1, <2>2, <2>3
<1> HIDE DEF eth, weth
<1>7. Sum(weth, Accounts) - eth[Weth]
        = Sum(ledger.bal[Weth], Accounts) - ledger.bal[Eth][Weth]
  <2>1. ledger.bal[Eth][Weth] \in Int /\ Sum(ledger.bal[Weth], Accounts) \in Int
    BY HoldingTypes, HoldingSum
  <2>2. QED
    BY <1>2, <1>6, <2>1
<1>4. /\ ledger' \in Ledgers /\ ledger'.bal[Eth] = eth /\ ledger'.bal[Weth] = weth
      /\ \A a \in Assets \ {Eth, Weth} : ledger'.bal[a] = ledger.bal[a]
  BY <1>1, <1>2, <1>3, HoldingTypes DEF Ledgers, Assets, AccountsDiffer
<1>5. QED
  BY <1>2, <1>3, <1>4, <1>7, TwoHoldings

-----------------------------------------------------------------------------
(* A call costs its sender, or the payer it names what that has permitted. *)
CostsPermitted(x, l, m) ==
  \A a \in Assets : m.bal[a][x] < l.bal[a][x] =>
    a # Eth /\ l.bal[a][x] - m.bal[a][x] <= l.permits[a][x]

CallCosts(u) ==
  /\ sender' = u
  /\ \/ CostsOnly(u, ledger, ledger')
     \/ /\ named' \in Users /\ CostsOnly(named', ledger, ledger')
        /\ CostsPermitted(named', ledger, ledger')

LEMMA StayPermitted ==
  ASSUME NEW l, Solvent(l), NEW x \in Users
  PROVE  CostsPermitted(x, l, l)
<1>1. \A a \in Assets : l.bal[a][x] \in Int
  BY DEF Solvent, Ledgers, Accounts
<1>2. QED
  BY <1>1 DEF CostsPermitted

(* Permit2 counts what it takes against the permit. *)
LEMMA Permit2Permitted ==
  ASSUME AccountsDiffer, NEW l, Solvent(l), NEW token \in {Weth, Token}, token # Eth,
         NEW from \in Users, NEW to \in Parties, NEW v \in Nat,
         NEW m \in Permit2Transfer(l, token, from, to, v)
  PROVE  CostsPermitted(from, l, m)
<1>1. CASE from = to
  BY <1>1, StayPermitted DEF Permit2Transfer
<1>2. CASE from # to
  <2>1. PICK k : k = [l EXCEPT !.permits[token][from] = l.permits[token][from] - v]
    OBVIOUS
  <2>2. m \in Transfer(k, token, from, to, v) /\ ~(v > l.permits[token][from])
    BY <1>2, <2>1 DEF Permit2Transfer
  <2>3. k.bal = l.bal /\ k \in Ledgers /\ l \in Ledgers
    BY <2>1 DEF Solvent, Ledgers
  <2>4. PICK h \in [Accounts -> Int] : h = l.bal[token]
    BY <2>3 DEF Ledgers, Assets
  <2>5. m = [k EXCEPT !.bal[token] = Moved(h, from, to, v)]
    BY <2>2, <2>3, <2>4 DEF Transfer
  <2>6. /\ from \in Accounts /\ to \in Accounts
    BY DEF Parties, Accounts
  <2>7. Moved(h, from, to, v)[from] = h[from] - v
    BY <1>2, <2>6, MovedEffect
  <2>8. /\ m.bal[token] = Moved(h, from, to, v)
        /\ \A a \in Assets \ {token} : m.bal[a] = l.bal[a]
    BY <2>3, <2>5 DEF Ledgers, Assets
  <2>9. l.permits[token][from] \in Int /\ h[from] \in Int
    BY <2>3, <2>6 DEF Ledgers
  <2>10. ASSUME NEW a \in Assets, m.bal[a][from] < l.bal[a][from]
         PROVE  a # Eth /\ l.bal[a][from] - m.bal[a][from] <= l.permits[a][from]
    <3>1. CASE a = token
      BY <2>2, <2>4, <2>7, <2>8, <2>9, <3>1
    <3>2. CASE a # token
      <4>1. m.bal[a][from] = l.bal[a][from] /\ l.bal[a][from] \in Int
        BY <2>3, <2>6, <2>8, <3>2 DEF Ledgers
      <4>2. QED
        BY <2>10, <4>1
    <3>3. QED
      BY <3>1, <3>2
  <2>11. QED
    BY <2>10 DEF CostsPermitted
<1>3. QED
  BY <1>1, <1>2

(* payFrom and the single permit2TransferFrom, of a payer that is named. *)
LEMMA PayFromNamedCosts ==
  ASSUME AccountsDiffer, Solvent(ledger), NEW u \in Users, NEW t \in Assets,
         NEW p \in Users, NEW r \in Recipients, NEW v \in Nat, PayFromNamed(u, t, p, r, v)
  PROVE  CallCosts(u)
<1>1. ledger' \in PayFrom(ledger, t, p, r, v) /\ sender' = u /\ named' = p /\ r \in Parties
  BY DEF PayFromNamed, CalledBy, Recipients, Parties
<1>2. CASE p = r \/ IsETH(t)
  BY <1>1, <1>2, StayCosts, StayPermitted DEF PayFrom, CallCosts
<1>3. CASE ~(p = r \/ IsETH(t))
  <2>1. /\ t \in {Weth, Token} /\ t # Eth
        /\ ledger' \in Permit2Transfer(ledger, t, p, r, v)
    BY <1>1, <1>3 DEF PayFrom, IsETH, Assets
  <2>2. CostsOnly(p, ledger, ledger') /\ CostsPermitted(p, ledger, ledger')
    BY <1>1, <2>1, Permit2TransferCosts, Permit2Permitted
  <2>3. QED
    BY <1>1, <2>2 DEF CallCosts
<1>4. QED
  BY <1>2, <1>3

LEMMA Permit2TransferFromCosts ==
  ASSUME AccountsDiffer, Solvent(ledger), NEW u \in Users, NEW t \in {Weth, Token},
         NEW p \in Users, NEW r \in Recipients, NEW v \in Nat,
         Permit2TransferFrom(u, t, p, r, v)
  PROVE  CallCosts(u)
<1>0. t # Eth
  BY DEF AccountsDiffer
<1>1. /\ ledger' \in Permit2Transfer(ledger, t, p, r, v)
      /\ sender' = u /\ named' = p /\ r \in Parties /\ t # Eth
  BY <1>0 DEF Permit2TransferFrom, CalledBy, Recipients, Parties
<1>2. CostsOnly(p, ledger, ledger') /\ CostsPermitted(p, ledger, ledger')
  BY <1>1, Permit2TransferCosts, Permit2Permitted
<1>3. QED
  BY <1>1, <1>2 DEF CallCosts

LEMMA OperationCosts ==
  ASSUME AccountsDiffer, Solvent(ledger), NEW u \in Users, Operation(u)
  PROVE  CallCosts(u)
<1>0. /\ \A v \in Amounts \cup Permits : v \in Nat
      /\ {Weth, Token} \subseteq Assets /\ Recipients = Parties
  BY PaymentsAssumption DEF Assets, Recipients, Parties
<1>1. ASSUME NEW t \in Assets, NEW p, NEW r \in {MsgSender, AddressThis, Eth} \cup Users,
             NEW v \in Amounts, FacetPays(u, t, p, r, v)
      PROVE  CallCosts(u)
  BY <1>0, <1>1, FacetPaysCosts DEF FacetPays, CalledBy, CallCosts
<1>2. ASSUME NEW d \in Details, NEW e \in Details, Permit2TransferFromBatch(u, <<d, e>>)
      PROVE  CallCosts(u)
  BY <1>2, BatchCosts DEF Permit2TransferFromBatch, CalledBy, CallCosts
<1>3. ASSUME NEW t \in Assets, NEW r \in Recipients, NEW b \in Bips, PayPortion(u, t, r, b)
      PROVE  CallCosts(u)
  BY <1>3, PayPortionCosts DEF PayPortion, CalledBy, CallCosts
<1>4. ASSUME NEW t \in Assets, NEW r \in Recipients, NEW v \in Amounts, Sweep(u, t, r, v)
      PROVE  CallCosts(u)
  BY <1>4, SweepCosts DEF Sweep, CalledBy, CallCosts
<1>5. ASSUME NEW r \in Recipients, NEW v \in Amounts, WrapETH(u, r, v)
      PROVE  CallCosts(u)
  BY <1>0, <1>5, WrapCosts DEF WrapETH, CalledBy, CallCosts
<1>6. ASSUME NEW r \in Recipients, NEW v \in Amounts, UnwrapWETH9(u, r, v)
      PROVE  CallCosts(u)
  BY <1>0, <1>6, UnwrapCosts DEF UnwrapWETH9, CalledBy, CallCosts
<1>7. ASSUME NEW t \in {Weth, Token}, NEW v \in Permits, Permit(u, t, v)
      PROVE  CallCosts(u)
  <2>1. ledger' = [ledger EXCEPT !.permits[t][u] = v] /\ sender' = u /\ v \in Nat
    BY <1>0, <1>7 DEF Permit, CalledBy
  <2>2. ledger'.bal = ledger.bal /\ ledger' \in Ledgers
    BY <2>1 DEF Solvent, Ledgers
  <2>3. \A a \in Assets, x \in Users : ledger.bal[a][x] \in Int
    BY DEF Solvent, Ledgers, Accounts
  <2>4. Unbacked(ledger') = Unbacked(ledger)
    BY <2>2 DEF Unbacked
  <2>5. QED
    BY <2>1, <2>2, <2>3, <2>4 DEF CostsOnly, CallCosts, Solvent
<1>8. ASSUME NEW t \in Assets, NEW v \in Amounts, Send(u, t, This, v)
      PROVE  CallCosts(u)
  BY <1>0, <1>8, TransferCosts DEF Send, CalledBy, CallCosts, Parties
<1>9. ASSUME NEW t \in Assets, NEW p \in Users, NEW r \in Recipients, NEW v \in Amounts,
             PayFromNamed(u, t, p, r, v)
      PROVE  CallCosts(u)
  BY <1>0, <1>9, PayFromNamedCosts
<1>10. ASSUME NEW t \in {Weth, Token}, NEW p \in Users, NEW r \in Recipients,
              NEW v \in Amounts, Permit2TransferFrom(u, t, p, r, v)
       PROVE  CallCosts(u)
  BY <1>0, <1>10, Permit2TransferFromCosts
<1>11. QED
  BY <1>1, <1>2, <1>3, <1>4, <1>5, <1>6, <1>7, <1>8, <1>9, <1>10 DEF Operation

LEMMA InitSolvent == ASSUME AccountsDiffer, Init PROVE Solvent(ledger)
<1>1. /\ ledger.bal = [a \in Assets |-> [x \in Accounts |->
                          IF x \in Funded /\ a # Weth THEN Supply ELSE 0]]
      /\ ledger.permits = [t \in {Weth, Token} |-> [x \in Users |-> 0]]
      /\ ledger = [bal |-> ledger.bal, permits |-> ledger.permits]
  BY DEF Init
<1>2. Supply \in Int
  BY PaymentsAssumption
<1>3. ledger.bal \in [Assets -> [Accounts -> Int]]
  BY <1>1, <1>2
<1>4. ledger \in Ledgers
  BY <1>1, <1>3 DEF Ledgers
<1>5. \A a \in Assets : ledger.bal[a][This] = 0
  BY <1>1, PaymentsAssumption DEF AccountsDiffer, Accounts
<1>6. QED
  BY <1>4, <1>5 DEF Solvent

LEMMA NextSolvent ==
  ASSUME AccountsDiffer
  PROVE  Solvent(ledger) /\ [Next]_vars => Solvent(ledger)'
<1> SUFFICES ASSUME Solvent(ledger), [Next]_vars PROVE Solvent(ledger')
  BY DEF Solvent, Ledgers, Accounts, Assets
<1>1. ASSUME NEW u \in Users, Operation(u) PROVE Solvent(ledger')
  BY <1>1, OperationCosts DEF CallCosts, CostsOnly
<1>2. CASE UNCHANGED ledger
  BY <1>2
<1>3. QED
  BY <1>1, <1>2 DEF Next, SetFee, ChangeFeeCollector, InitializePayment, vars, call

(* Nothing has been wrapped at the start, and no step unbacks anything.    *)
LEMMA InitBacked == ASSUME AccountsDiffer, Init PROVE Unbacked(ledger) = 0
<1>1. ledger.bal[Weth] \in [Accounts -> {0}] /\ ledger.bal[Eth][Weth] = 0
  BY PaymentsAssumption DEF Init, Assets, Accounts, AccountsDiffer
<1>2. QED
  BY <1>1, AccountsFinite, SumOfZeros DEF Unbacked

LEMMA NextBacked ==
  ASSUME AccountsDiffer
  PROVE  Solvent(ledger) /\ Unbacked(ledger) = 0 /\ [Next]_vars => (Unbacked(ledger) = 0)'
<1> SUFFICES ASSUME Solvent(ledger), Unbacked(ledger) = 0, [Next]_vars
             PROVE  Unbacked(ledger') = 0
  BY DEF Unbacked
<1>1. ASSUME NEW u \in Users, Operation(u) PROVE Unbacked(ledger') = Unbacked(ledger)
  BY <1>1, OperationCosts DEF CallCosts, CostsOnly
<1>2. CASE UNCHANGED ledger
  BY <1>2
<1>3. QED
  BY <1>1, <1>2 DEF Next, SetFee, ChangeFeeCollector, InitializePayment, vars, call

LEMMA BackedIsWethBacked ==
  ASSUME Solvent(ledger), Unbacked(ledger) = 0
  PROVE  WethBacked
<1>1. ledger.bal[Eth][Weth] \in Int /\ Sum(ledger.bal[Weth], Accounts) \in Int
  BY HoldingTypes, HoldingSum
<1>2. Total(Weth) = Sum(ledger.bal[Weth], Accounts)
  BY DEF Total, Sum
<1>3. QED
  BY <1>1, <1>2 DEF WethBacked, Unbacked

(* Every WETH in circulation is backed by an ETH that WETH9 holds, whoever *)
(* wraps and unwraps and whoever is paid, address(this) as well.           *)
THEOREM WethBackedCorrect == ASSUME AccountsDiffer PROVE Spec => []WethBacked
<1> DEFINE IInv == Solvent(ledger) /\ Unbacked(ledger) = 0
<1>1. Init => IInv
  BY InitSolvent, InitBacked
<1>2. IInv /\ [Next]_vars => IInv'
  BY NextSolvent, NextBacked
<1>3. IInv => WethBacked
  BY BackedIsWethBacked
<1>4. QED
  BY <1>1, <1>2, <1>3, PTL DEF Spec

(* The contract never owes anything: it pays out of what it holds.         *)
THEOREM SolventCorrect == ASSUME AccountsDiffer PROVE Spec => []Solvent(ledger)
<1>1. Init => Solvent(ledger)
  BY InitSolvent
<1>2. Solvent(ledger) /\ [Next]_vars => Solvent(ledger)'
  BY NextSolvent
<1>3. QED
  BY <1>1, <1>2, PTL DEF Spec

(* What a user holds goes down in a call of its own only, or when one of    *)
(* the two functions that take any payer names it, and then by no more     *)
(* than it has permitted.                                                  *)
THEOREM OnlyPayersPayCorrect == ASSUME AccountsDiffer PROVE Spec => OnlyPayersPay
<1> DEFINE Only == \A x \in Users, a \in Assets :
                     ledger'.bal[a][x] < ledger.bal[a][x] => MayLose(x, a)
<1>1. Solvent(ledger) /\ [Next]_vars => [Only]_vars
  <2>1. SUFFICES ASSUME Solvent(ledger), Next, NEW x \in Users, NEW a \in Assets,
                        ledger'.bal[a][x] < ledger.bal[a][x]
                 PROVE  MayLose(x, a)
    OBVIOUS
  <2>2. ledger.bal[a][x] \in Int
    BY <2>1 DEF Solvent, Ledgers, Accounts
  <2>3. ledger' # ledger
    BY <2>1, <2>2
  <2>4. PICK u \in Users : Operation(u)
    BY <2>1, <2>3 DEF Next, SetFee, ChangeFeeCollector, InitializePayment
  <2>5. CallCosts(u)
    BY <2>1, <2>4, OperationCosts
  <2>6. ASSUME NEW y, CostsOnly(y, ledger, ledger') PROVE x = y
    <3>1. ledger'.bal[a][x] \in Int
      BY <2>6 DEF CostsOnly, Solvent, Ledgers, Accounts
    <3>2. ~(ledger.bal[a][x] <= ledger'.bal[a][x])
      BY <2>1, <2>2, <3>1
    <3>3. QED
      BY <2>6, <3>2 DEF CostsOnly
  <2>7. CASE CostsOnly(u, ledger, ledger')
    BY <2>5, <2>6, <2>7 DEF CallCosts, MayLose
  <2>8. CASE CostsOnly(named', ledger, ledger') /\ CostsPermitted(named', ledger, ledger')
    <3>1. x = named'
      BY <2>6, <2>8
    <3>2. a # Eth /\ ledger.bal[a][x] - ledger'.bal[a][x] <= ledger.permits[a][x]
      BY <2>1, <2>8, <3>1 DEF CostsPermitted
    <3>3. QED
      BY <3>1, <3>2 DEF MayLose
  <2>9. QED
    BY <2>5, <2>7, <2>8 DEF CallCosts
<1>2. Spec => []Solvent(ledger)
  BY SolventCorrect
<1>3. QED
  BY <1>1, <1>2, PTL DEF Spec, OnlyPayersPay
=============================================================================
