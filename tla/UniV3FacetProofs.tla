------------------------- MODULE UniV3FacetProofs -------------------------
(***************************************************************************)
(* Proofs about the v3 facet, whatever its parameters.  The router, for    *)
(* any users, tokens, factories, pools and paths of any length: a trade    *)
(* that is done has paid pools of listed factories only and settles with   *)
(* its parties, and the router can always pay for every pool after the     *)
(* first, whatever the pools take of what they are offered.  Its two       *)
(* loops: the scan of any pool lists the initialised ticks of any range,   *)
(* and a path of any length is consumed pool by pool while it moves in     *)
(* memory.                                                                 *)
(***************************************************************************)
EXTENDS UniV3Router, UniV3Loops, WellFoundedInduction, TLAPS

(* The router is neither a pool nor one of its users, and no pool trades. *)
RouterApart == This \notin Pools /\ This \notin Users /\ Users \cap Pools = {}

Parties == Users \cup {This}
Ledgers == [bal : [Tokens -> [Accounts -> Int]], permits : [Tokens -> [Users -> Int]]]

Fill == [token : Tokens, offered : Nat, in : Nat, out : Nat]

(* A ledger in which the router is not in debt. *)
Solvent(l) == l \in Ledgers /\ \A t \in Tokens : l.bal[t][This] >= 0

TxShape ==
  tx = [given |-> tx.given, path |-> tx.path, amountIn |-> tx.amountIn,
        recipient |-> tx.recipient, first |-> tx.first, payer |-> tx.payer,
        deltas |-> tx.deltas, held |-> tx.held, fills |-> tx.fills]

(* The pools that are done with: those before the one of this step. *)
Done == IF pc = "swap" THEN Len(tx.fills) ELSE Len(tx.fills) - 1

(* The path left is that of the pools not done with. *)
PathInv ==
  /\ TxShape /\ tx.given \in Paths
  /\ tx.fills \in Seq(Fill)
  /\ Done \in Nat
  /\ tx.path \in Seq(Tokens \cup Factories)
  /\ Len(tx.path) = Len(tx.given) - 2 * Done
  /\ \A i \in 1..Len(tx.path) : tx.path[i] = tx.given[2 * Done + i]

(* The pools paid so far are of listed factories. *)
ListedInv ==
  \A k \in 1..(IF pc = "callback" THEN Len(tx.fills) - 1 ELSE Len(tx.fills)) :
    tx.given[2 * k] \in listed

(* What the pool took, in the order of the sides of the pool. *)
Taken == IF ZeroForOne THEN tx.deltas[1] ELSE tx.deltas[2]

PoolInv ==
  /\ Len(tx.path) >= 3 /\ Pool \in Pools
  /\ tx.amountIn \in 1..(ContractBalance - 1)
  /\ Taken \in 0..tx.amountIn /\ OutputPaid \in Nat
  /\ tx.deltas = IF ZeroForOne THEN <<Taken, -OutputPaid>> ELSE <<-OutputPaid, Taken>>

(* After the first pool the router pays, and it has what is asked for. *)
FundsInv ==
  /\ tx.payer \in Parties /\ tx.recipient \in Parties
  /\ Done > 0 => tx.payer = This
  /\ (Done > 0 /\ pc = "swap" /\ tx.path # <<>>) =>
       tx.amountIn \in Nat /\ ledger.bal[TokenIn][This] >= tx.amountIn
  /\ (Done > 0 /\ pc = "callback") => ledger.bal[TokenIn][This] >= tx.amountIn
  /\ (pc \in {"callback", "paid"} /\ HasMultiplePools) =>
       ledger.bal[TokenOut][This] >= OutputPaid

(* The fills of the pools that have been paid. *)
PaidFills ==
  IF pc = "callback" THEN SubSeq(tx.fills, 1, Len(tx.fills) - 1) ELSE tx.fills

(* What the trade has given x, taken from x, and left with the router.     *)
Got(t, x) ==
  IF pc \in {"callback", "paid"} /\ ~HasMultiplePools /\ t = TokenOut /\ x = tx.recipient
  THEN OutputPaid ELSE 0
Gave(t, x) ==
  IF PaidFills # <<>> /\ t = tx.given[1] /\ x = tx.first THEN tx.fills[1].in ELSE 0
Passing(t) ==
  (IF Done > 0 /\ pc \in {"swap", "callback"} /\ t = TokenIn THEN tx.amountIn ELSE 0)
  + (IF pc \in {"callback", "paid"} /\ HasMultiplePools /\ t = TokenOut THEN OutputPaid ELSE 0)

(* Every holding but those of the pools is what it was when the trade      *)
(* began, and what the trade has moved since.                              *)
Moves ==
  \A t \in Tokens, x \in Parties :
    ledger.bal[t][x] = saved.bal[t][x] + Got(t, x) - Gave(t, x)
                       + (IF x = This THEN LeftOver(PaidFills, t) + Passing(t) ELSE 0)

(* A pool that was not paid, for its token is ETH, undoes the trade.       *)
SettleInv ==
  /\ last = NoTrade
  /\ tx.first \in Parties /\ (Done = 0 => tx.payer = tx.first)
  /\ (pc = "swap" /\ Done > 0) => Len(tx.path) >= 3
  /\ pc \in {"callback", "paid"} =>
       tx.fills[Len(tx.fills)] = [token |-> TokenIn, offered |-> tx.amountIn,
                                  in |-> Taken, out |-> OutputPaid]
  /\ pc = "callback" => ledger.bal[TokenIn][Pool] = tx.held
  /\ (pc = "paid" => PoolContent) => Moves

IInv ==
  /\ Solvent(ledger)
  /\ pc \in {"idle", "swap", "callback", "paid"}
  /\ pc # "idle" => Solvent(saved) /\ PathInv /\ ListedInv /\ FundsInv
  /\ pc \in {"callback", "paid"} => PoolInv
  /\ OnlyListedPaid

-----------------------------------------------------------------------------
LEMMA MovedEffect ==
  ASSUME NEW h \in [Accounts -> Int], NEW from \in Accounts, NEW to \in Accounts,
         NEW v \in Nat
  PROVE  /\ Moved(h, from, to, v) \in [Accounts -> Int]
         /\ from = to => Moved(h, from, to, v) = h
         /\ from # to => /\ Moved(h, from, to, v)[from] = h[from] - v
                         /\ Moved(h, from, to, v)[to] = h[to] + v
         /\ \A x \in Accounts \ {from, to} : Moved(h, from, to, v)[x] = h[x]
<1>1. PICK f : f = [h EXCEPT ![from] = h[from] - v]
  OBVIOUS
<1>2. PICK g : g = [f EXCEPT ![to] = f[to] + v]
  OBVIOUS
<1>3. Moved(h, from, to, v) = g
  BY <1>1, <1>2 DEF Moved
<1>4. f \in [Accounts -> Int] /\ f[from] = h[from] - v /\ h[from] \in Int
      /\ \A x \in Accounts \ {from} : f[x] = h[x]
  BY <1>1
<1>5. g \in [Accounts -> Int] /\ g[to] = f[to] + v
      /\ \A x \in Accounts \ {to} : g[x] = f[x]
  BY <1>2, <1>4
<1>6. from = to => \A x \in Accounts : g[x] = h[x]
  BY <1>4, <1>5
<1>7. from = to => g = h
  <2>1. g = [x \in Accounts |-> g[x]] /\ h = [x \in Accounts |-> h[x]]
    BY <1>5
  <2>2. QED
    BY <1>6, <2>1
<1>8. QED
  BY <1>3, <1>4, <1>5, <1>7

(* A transfer of one token, out of what its giver has. *)
LEMMA TransferEffect ==
  ASSUME NEW l \in Ledgers, NEW token \in Tokens, NEW from \in Accounts, NEW to \in Accounts,
         NEW v \in Nat, NEW m \in Transfer(l, token, from, to, v)
  PROVE  /\ m \in Ledgers
         /\ l.bal[token][from] >= v
         /\ from = to => m.bal = l.bal
         /\ from # to => /\ m.bal[token][from] = l.bal[token][from] - v
                         /\ m.bal[token][to] = l.bal[token][to] + v
         /\ \A t \in Tokens, x \in Accounts :
              (t # token \/ x \notin {from, to}) => m.bal[t][x] = l.bal[t][x]
<1>1. l.bal[token] \in [Accounts -> Int] /\ l.bal[token][from] \in Int
      /\ l.bal \in [Tokens -> [Accounts -> Int]]
      /\ l = [bal |-> l.bal, permits |-> l.permits]
      /\ l.permits \in [Tokens -> [Users -> Int]]
  BY DEF Ledgers
<1>2. PICK w : w = Moved(l.bal[token], from, to, v)
  OBVIOUS
<1>3. w \in [Accounts -> Int]
      /\ (from = to => w = l.bal[token])
      /\ (from # to => w[from] = l.bal[token][from] - v /\ w[to] = l.bal[token][to] + v)
      /\ \A x \in Accounts \ {from, to} : w[x] = l.bal[token][x]
  BY <1>1, <1>2, MovedEffect
<1>4. ~(v > l.bal[token][from]) /\ m = [l EXCEPT !.bal[token] = w]
  BY <1>2 DEF Transfer
<1>5. m = [bal |-> [l.bal EXCEPT ![token] = w], permits |-> l.permits]
  BY <1>1, <1>4
<1>6. PICK b : b = [l.bal EXCEPT ![token] = w]
  OBVIOUS
<1>7. m.bal = b /\ b \in [Tokens -> [Accounts -> Int]] /\ b[token] = w
      /\ \A t \in Tokens \ {token} : b[t] = l.bal[t]
  BY <1>1, <1>3, <1>5, <1>6
<1>8. from = to => b = l.bal
  <2>1. from = to => \A t \in Tokens : b[t] = l.bal[t]
    BY <1>3, <1>7
  <2>2. b = [t \in Tokens |-> b[t]] /\ l.bal = [t \in Tokens |-> l.bal[t]]
    BY <1>1, <1>7
  <2>3. QED
    BY <2>1, <2>2
<1>9. m \in Ledgers
  BY <1>1, <1>5, <1>6, <1>7 DEF Ledgers
<1>10. l.bal[token][from] >= v
  BY <1>1, <1>4
<1>11. QED
  BY <1>3, <1>7, <1>8, <1>9, <1>10

(* No transfer puts the router in debt. *)
LEMMA TransferSolvent ==
  ASSUME NEW l, Solvent(l), NEW token \in Tokens, NEW from \in Accounts, NEW to \in Accounts,
         NEW v \in Nat, NEW m \in Transfer(l, token, from, to, v)
  PROVE  /\ Solvent(m)
         /\ \A t \in Tokens : (t # token \/ from # This) => m.bal[t][This] >= l.bal[t][This]
<1>0. l \in Ledgers /\ This \in Accounts /\ \A t \in Tokens : l.bal[t][This] \in Int /\ l.bal[t][This] >= 0
  BY DEF Solvent, Ledgers, Accounts
<1>1. /\ m \in Ledgers
      /\ l.bal[token][from] >= v
      /\ from = to => m.bal = l.bal
      /\ from # to => /\ m.bal[token][from] = l.bal[token][from] - v
                      /\ m.bal[token][to] = l.bal[token][to] + v
      /\ \A t \in Tokens, x \in Accounts :
           (t # token \/ x \notin {from, to}) => m.bal[t][x] = l.bal[t][x]
  BY <1>0, TransferEffect
<1>2. ASSUME NEW t \in Tokens
      PROVE  m.bal[t][This] >= 0 /\ ((t # token \/ from # This) => m.bal[t][This] >= l.bal[t][This])
  <2>1. CASE t # token \/ This \notin {from, to}
    BY <1>0, <1>1, <2>1
  <2>2. CASE t = token /\ from = to
    BY <1>0, <1>1, <2>2
  <2>3. CASE t = token /\ from # to /\ from = This
    BY <1>0, <1>1, <2>3
  <2>4. CASE t = token /\ from # to /\ to = This
    BY <1>0, <1>1, <2>4
  <2>5. QED
    BY <2>1, <2>2, <2>3, <2>4
<1>3. QED
  BY <1>1, <1>2 DEF Solvent

(* The same in one formula, for the accounts at both ends too. *)
LEMMA TransferMoves ==
  ASSUME NEW l \in Ledgers, NEW token \in Tokens, NEW from \in Accounts, NEW to \in Accounts,
         NEW v \in Nat, NEW m \in Transfer(l, token, from, to, v),
         NEW t \in Tokens, NEW x \in Accounts
  PROVE  m.bal[t][x] = l.bal[t][x] - (IF t = token /\ x = from THEN v ELSE 0)
                                   + (IF t = token /\ x = to THEN v ELSE 0)
<1>1. /\ from = to => m.bal = l.bal
      /\ from # to => /\ m.bal[token][from] = l.bal[token][from] - v
                      /\ m.bal[token][to] = l.bal[token][to] + v
      /\ (t # token \/ x \notin {from, to}) => m.bal[t][x] = l.bal[t][x]
  BY TransferEffect
<1>2. l.bal[t][x] \in Int
  BY DEF Ledgers
<1>3. CASE t # token \/ x \notin {from, to}
  BY <1>1, <1>2, <1>3
<1>4. CASE t = token /\ from = to
  BY <1>1, <1>2, <1>4
<1>5. CASE t = token /\ from # to /\ x \in {from, to}
  BY <1>1, <1>2, <1>5
<1>6. QED
  BY <1>3, <1>4, <1>5

(* What pays a pool, by the router's own balance or by a permit. *)
LEMMA PoolPaidSolvent ==
  ASSUME RouterApart, NEW l, Solvent(l), NEW token \in Tokens, NEW payer \in Parties,
         NEW payee \in Pools, NEW v \in Nat,
         NEW m \in PayOrPermit2Transfer(l, token, payer, payee, v)
  PROVE  Solvent(m) /\ \A t \in Tokens \ {token} : m.bal[t][This] >= l.bal[t][This]
<1>0. payee \in Accounts /\ payer \in Accounts /\ This \in Accounts /\ payee # This
      /\ l \in Ledgers /\ \A t \in Tokens : l.bal[t][This] \in Int /\ l.bal[t][This] >= 0
  <2>1. payee \in Accounts /\ payer \in Accounts /\ This \in Accounts /\ payee # This
    BY DEF RouterApart, Accounts, Parties
  <2>2. l \in Ledgers /\ \A t \in Tokens : l.bal[t][This] \in Int /\ l.bal[t][This] >= 0
    BY <2>1 DEF Solvent, Ledgers
  <2>3. QED
    BY <2>1, <2>2
<1>1. CASE payer = This
  <2>1. PICK w : w = IF v = ContractBalance /\ ~IsETH(token) THEN UniBalanceOf(l, token, This) ELSE v
    OBVIOUS
  <2>2. w \in Nat
    BY <1>0, <2>1 DEF UniBalanceOf
  <2>3. m \in Transfer(l, token, This, payee, w)
    BY <1>0, <1>1, <2>1 DEF PayOrPermit2Transfer, Pay
  <2>4. QED
    BY <1>0, <2>2, <2>3, TransferSolvent
<1>2. CASE payer # This
  <2>1. m = l \/ m \in Permit2Transfer(l, token, payer, payee, v)
    BY <1>2 DEF PayOrPermit2Transfer, PayFrom
  <2>2. CASE m = l
    BY <1>0, <2>2
  <2>3. CASE m # l
    <3>1. payer \in Users
      BY <1>2 DEF Parties
    <3>2. PICK k : k = [l EXCEPT !.permits[token][payer] = @ - v]
      OBVIOUS
    <3>3. m \in Transfer(k, token, payer, payee, v)
      BY <2>1, <2>3, <3>2 DEF Permit2Transfer
    <3>4. l = [bal |-> l.bal, permits |-> l.permits] /\ l.bal \in [Tokens -> [Accounts -> Int]]
          /\ l.permits \in [Tokens -> [Users -> Int]]
      BY <1>0 DEF Ledgers
    <3>5. PICK q : q = [l.permits EXCEPT ![token][payer] = @ - v]
      OBVIOUS
    <3>6. q \in [Tokens -> [Users -> Int]]
      BY <3>1, <3>4, <3>5
    <3>7. k = [bal |-> l.bal, permits |-> q]
      BY <3>2, <3>4, <3>5
    <3>8. Solvent(k) /\ k.bal = l.bal
      BY <1>0, <3>4, <3>6, <3>7 DEF Solvent, Ledgers
    <3>9. Solvent(m) /\ \A t \in Tokens : m.bal[t][This] >= k.bal[t][This]
      BY <1>0, <1>2, <3>3, <3>8, TransferSolvent
    <3>10. QED
      BY <3>8, <3>9
  <2>4. QED
    BY <2>2, <2>3
<1>3. QED
  BY <1>1, <1>2

(* A pool is paid in full, or, when its token is ETH, not at all. *)
LEMMA PoolPaidMoves ==
  ASSUME RouterApart, NEW l, Solvent(l), NEW token \in Tokens, NEW payer \in Parties,
         NEW payee \in Pools, NEW v \in Nat, v # ContractBalance,
         NEW m \in PayOrPermit2Transfer(l, token, payer, payee, v)
  PROVE  \/ m.bal = l.bal
         \/ \A t \in Tokens, x \in Parties :
              m.bal[t][x] = l.bal[t][x] - (IF t = token /\ x = payer THEN v ELSE 0)
<1>0. payee \in Accounts /\ payer \in Accounts /\ Parties \subseteq Accounts /\ payee \notin Parties
      /\ l \in Ledgers
  BY DEF RouterApart, Accounts, Parties, Solvent
<1>1. ASSUME NEW k \in Ledgers, k.bal = l.bal, m \in Transfer(k, token, payer, payee, v),
             NEW t \in Tokens, NEW x \in Parties
      PROVE  m.bal[t][x] = l.bal[t][x] - (IF t = token /\ x = payer THEN v ELSE 0)
  <2>1. x \in Accounts /\ x # payee /\ l.bal[t][x] \in Int
    BY <1>0 DEF Ledgers
  <2>2. m.bal[t][x] = k.bal[t][x] - (IF t = token /\ x = payer THEN v ELSE 0)
                                   + (IF t = token /\ x = payee THEN v ELSE 0)
    BY <1>0, <1>1, <2>1, TransferMoves
  <2>3. QED
    BY <1>1, <2>1, <2>2
<1>2. CASE payer = This
  <2>1. m \in Transfer(l, token, payer, payee, v)
    BY <1>0, <1>2 DEF PayOrPermit2Transfer, Pay, Parties
  <2>2. QED
    BY <1>0, <1>1, <2>1
<1>3. CASE payer # This
  <2>1. payer \in Users
    BY <1>3 DEF Parties
  <2>2. m = l \/ m \in Permit2Transfer(l, token, payer, payee, v)
    BY <1>3 DEF PayOrPermit2Transfer, PayFrom
  <2>3. CASE m = l
    BY <2>3
  <2>4. CASE m # l
    <3>1. PICK k : k = [l EXCEPT !.permits[token][payer] = @ - v]
      OBVIOUS
    <3>2. m \in Transfer(k, token, payer, payee, v)
      BY <2>2, <2>4, <3>1 DEF Permit2Transfer
    <3>3. l = [bal |-> l.bal, permits |-> l.permits] /\ l.bal \in [Tokens -> [Accounts -> Int]]
          /\ l.permits \in [Tokens -> [Users -> Int]]
      BY <1>0 DEF Ledgers
    <3>4. PICK q : q = [l.permits EXCEPT ![token][payer] = @ - v]
      OBVIOUS
    <3>5. q \in [Tokens -> [Users -> Int]]
      BY <2>1, <3>3, <3>4
    <3>6. k = [bal |-> l.bal, permits |-> q]
      BY <3>1, <3>3, <3>4
    <3>7. k \in Ledgers /\ k.bal = l.bal
      BY <3>3, <3>5, <3>6 DEF Ledgers
    <3>8. QED
      BY <1>1, <3>2, <3>7
  <2>5. QED
    BY <2>3, <2>4
<1>4. QED
  BY <1>2, <1>3

-----------------------------------------------------------------------------
(* What is left over, a pool at a time.                                    *)

(* A set of natural numbers that is not empty has a least element. *)
LEMMA Least ==
  ASSUME NEW T \in SUBSET Nat, T # {}
  PROVE  \E n \in T : \A m \in T : n <= m
<1>1. PICK n \in T : \A m \in T : ~(<<m, n>> \in OpToRel(<, Nat))
  BY NatLessThanWellFounded, WFMin
<1>2. ASSUME NEW m \in T, m < n PROVE FALSE
  <2>1. <<m, n>> \in Nat \X Nat /\ <<m, n>>[1] = m /\ <<m, n>>[2] = n
    OBVIOUS
  <2>2. <<m, n>> \in OpToRel(<, Nat)
    BY <1>2, <2>1 DEF OpToRel
  <2>3. QED
    BY <1>1, <2>2
<1>3. QED
  BY <1>2

(* What one pool did not take, and what the pools up to the k-th did not.  *)
NotTaken(fill, t) == IF fill.token = t THEN fill.offered - fill.in ELSE 0
Adds(left, fills, t, n) ==
  \A k \in 0..n : left[k] = IF k <= 1 THEN 0 ELSE left[k - 1] + NotTaken(fills[k], t)

LEMMA FillTypes ==
  ASSUME NEW fills \in Seq(Fill), NEW t
  PROVE  /\ Len(fills) \in Nat
         /\ \A k \in 1..Len(fills) : fills[k] \in Fill /\ NotTaken(fills[k], t) \in Int
<1>1. \A k \in 1..Len(fills) : fills[k] \in Fill
  OBVIOUS
<1>2. \A e \in Fill : NotTaken(e, t) \in Int
  BY DEF Fill, NotTaken
<1>3. QED
  BY <1>1, <1>2

(* There is one way only to add it up. *)
LEMMA AddsOnce ==
  ASSUME NEW f, NEW g, NEW fills, NEW t, NEW n \in Nat,
         Adds(f, fills, t, n), Adds(g, fills, t, n)
  PROVE  \A k \in 0..n : f[k] = g[k]
<1> DEFINE T == {k \in 0..n : f[k] # g[k]}
<1>1. T = {}
  <2>1. SUFFICES ASSUME T # {} PROVE FALSE
    OBVIOUS
  <2>2. T \in SUBSET Nat
    OBVIOUS
  <2>3. PICK k \in T : \A j \in T : k <= j
    BY <2>1, <2>2, Least
  <2>4. k \in 0..n /\ f[k] # g[k]
    OBVIOUS
  <2>5. k > 1
    BY <2>4 DEF Adds
  <2>6. k - 1 \in 0..n
    BY <2>4, <2>5
  <2>7. f[k - 1] = g[k - 1]
    <3>1. k - 1 \notin T
      <4> HIDE DEF T
      <4>1. QED
        BY <2>3, <2>4
    <3>2. QED
      BY <2>6, <3>1
  <2>8. /\ f[k] = f[k - 1] + NotTaken(fills[k], t)
        /\ g[k] = g[k - 1] + NotTaken(fills[k], t)
    BY <2>4, <2>5 DEF Adds
  <2>9. QED
    BY <2>4, <2>7, <2>8
<1>2. QED
  BY <1>1

(* The recursive function of LeftOver exists, and adds up what it says. *)
LEMMA LeftOverAdds ==
  ASSUME NEW fills \in Seq(Fill), NEW t
  PROVE  \E left \in [0..Len(fills) -> Int] :
           Adds(left, fills, t, Len(fills)) /\ LeftOver(fills, t) = left[Len(fills)]
<1>1. PICK n \in Nat : n = Len(fills)
  OBVIOUS
<1> DEFINE Step(g, k) == IF k <= 1 THEN 0 ELSE g[k - 1] + NotTaken(fills[k], t)
           T == {m \in 0..n : ~\E g \in [0..n -> Int] : Adds(g, fills, t, m)}
<1>2. T = {}
  <2>1. SUFFICES ASSUME T # {} PROVE FALSE
    OBVIOUS
  <2>2. T \in SUBSET Nat
    BY <1>1
  <2>3. PICK m \in T : \A j \in T : m <= j
    BY <2>1, <2>2, Least
  <2>4. m # 0
    <3>1. PICK g : g = [k \in 0..n |-> 0]
      OBVIOUS
    <3>2. g \in [0..n -> Int] /\ Adds(g, fills, t, 0)
      BY <3>1 DEF Adds
    <3>3. QED
      BY <3>2
  <2>5. m \in 1..n /\ m - 1 \in 0..n
    BY <1>1, <2>4
  <2>6. m - 1 \notin T
    <3> HIDE DEF T
    <3>1. QED
      BY <1>1, <2>3, <2>5
  <2>7. PICK g \in [0..n -> Int] : Adds(g, fills, t, m - 1)
    BY <2>5, <2>6
  <2>8. Step(g, m) \in Int
    <3>1. NotTaken(fills[m], t) \in Int
      BY <1>1, <2>5, FillTypes
    <3>2. g[m - 1] \in Int
      BY <2>5, <2>7
    <3>3. QED
      BY <3>1, <3>2
  <2>9. PICK h : h = [g EXCEPT ![m] = Step(g, m)]
    OBVIOUS
  <2>10. h \in [0..n -> Int]
    BY <2>8, <2>9
  <2>11. Adds(h, fills, t, m)
    <3>1. ASSUME NEW k \in 0..m PROVE h[k] = Step(h, k)
      <4>1. CASE k = m
        <5>1. m - 1 \in 0..n /\ m - 1 # m
          BY <2>5
        <5>2. QED
          BY <2>5, <2>9, <4>1, <5>1
      <4>2. CASE k # m
        <5>1. k \in 0..(m - 1) /\ k \in 0..n /\ (k > 1 => k - 1 \in 0..n /\ k - 1 # m)
          BY <1>1, <2>5, <4>2
        <5>2. g[k] = Step(g, k)
          BY <2>7, <5>1 DEF Adds
        <5>3. QED
          BY <2>9, <4>2, <5>1, <5>2
      <4>3. QED
        BY <4>1, <4>2
    <3>2. QED
      BY <3>1 DEF Adds
  <2>12. QED
    BY <2>10, <2>11
<1>3. PICK g \in [0..n -> Int] : Adds(g, fills, t, n)
  BY <1>1, <1>2
<1>4. g = [k \in 0..n |-> Step(g, k)]
  <2>1. g = [k \in 0..n |-> g[k]]
    BY <1>3
  <2>2. \A k \in 0..n : g[k] = Step(g, k)
    BY <1>3 DEF Adds
  <2>3. QED
    BY <2>1, <2>2
<1> DEFINE left == CHOOSE f : f = [k \in 0..n |-> Step(f, k)]
<1>5. LeftOver(fills, t) = left[n]
  BY <1>1 DEF LeftOver, NotTaken
<1>6. left = [k \in 0..n |-> Step(left, k)]
  BY <1>4
<1> HIDE DEF left
<1>7. Adds(left, fills, t, n)
  <2>1. \A k \in 0..n : left[k] = Step(left, k)
    BY <1>6
  <2>2. QED
    BY <2>1 DEF Adds
<1>8. \A k \in 0..n : left[k] = g[k]
  BY <1>1, <1>3, <1>7, AddsOnce
<1>9. left \in [0..n -> Int]
  <2>1. left = [k \in 0..n |-> left[k]]
    BY <1>6
  <2>2. \A k \in 0..n : left[k] \in Int
    BY <1>3, <1>8
  <2>3. QED
    BY <2>1, <2>2
<1>10. QED
  BY <1>1, <1>5, <1>7, <1>9

LEMMA LeftOverEmpty ==
  ASSUME NEW t
  PROVE  LeftOver(<<>>, t) = 0
<1>1. <<>> \in Seq(Fill) /\ Len(<<>>) = 0
  OBVIOUS
<1>2. PICK left \in [0..0 -> Int] : Adds(left, <<>>, t, 0) /\ LeftOver(<<>>, t) = left[0]
  BY <1>1, LeftOverAdds
<1>3. QED
  BY <1>2 DEF Adds

(* Another pool leaves what it does not take, unless it is the first. *)
LEMMA LeftOverAppend ==
  ASSUME NEW fills \in Seq(Fill), NEW e \in Fill, NEW t
  PROVE  /\ LeftOver(fills, t) \in Int
         /\ LeftOver(Append(fills, e), t)
              = LeftOver(fills, t) + (IF fills = <<>> THEN 0 ELSE NotTaken(e, t))
<1>1. PICK more : more = Append(fills, e)
  OBVIOUS
<1>0. more \in Seq(Fill)
  BY <1>1
<1>2. PICK n \in Nat : n = Len(fills)
  OBVIOUS
<1>3. Len(more) = n + 1 /\ more[n + 1] = e /\ \A k \in 1..n : more[k] = fills[k]
  BY <1>1, <1>2
<1>4. PICK f \in [0..n -> Int] : Adds(f, fills, t, n) /\ LeftOver(fills, t) = f[n]
  BY <1>2, LeftOverAdds
<1>5. PICK g \in [0..(n + 1) -> Int] :
        Adds(g, more, t, n + 1) /\ LeftOver(more, t) = g[n + 1]
  BY <1>0, <1>3, LeftOverAdds
<1>6. Adds(g, more, t, n)
  BY <1>5 DEF Adds
<1>7. f[n] = g[n] /\ f[n] \in Int
  <2>0. Adds(f, more, t, n)
    BY <1>3, <1>4 DEF Adds
  <2>1. \A k \in 0..n : f[k] = g[k]
    BY <1>6, <2>0, AddsOnce
  <2>2. QED
    BY <2>1
<1>8. g[n + 1] = IF n + 1 <= 1 THEN 0 ELSE g[n] + NotTaken(e, t)
  BY <1>3, <1>5 DEF Adds
<1>9. n = 0 => f[n] = 0
  BY <1>4 DEF Adds
<1>10. (fills = <<>>) <=> (n = 0)
  BY <1>2
<1>11. CASE n = 0
  BY <1>1, <1>4, <1>5, <1>7, <1>8, <1>9, <1>10, <1>11
<1>12. CASE n # 0
  BY <1>1, <1>4, <1>5, <1>7, <1>8, <1>10, <1>12
<1>13. QED
  BY <1>11, <1>12

-----------------------------------------------------------------------------
(* The tokens and the factory of this step are those of the path as given. *)
LEMMA HopTypes ==
  ASSUME PathInv, Len(tx.path) >= 3
  PROVE  /\ TokenIn \in Tokens /\ TokenOut \in Tokens /\ Factory \in Factories
         /\ TokenIn \in Nat /\ TokenOut \in Nat
         /\ Factory = tx.given[2 * Done + 2]
         /\ Pool # NoPool => Pool \in Pools /\ TokenIn # TokenOut
<1>0. PICK g, d : g = tx.given /\ d = Done
  OBVIOUS
<1>1. d \in Nat /\ g \in Seq(Tokens \cup Factories) /\ Len(tx.path) = Len(g) - 2 * d
      /\ \A i \in DOMAIN g : g[i] \in (IF i % 2 = 1 THEN Tokens ELSE Factories)
  BY <1>0, V3RouterAssumption DEF PathInv
<1>2. TokenIn = g[2 * d + 1] /\ Factory = g[2 * d + 2] /\ TokenOut = g[2 * d + 3]
  <2>1. 1 \in 1..Len(tx.path) /\ 2 \in 1..Len(tx.path) /\ 3 \in 1..Len(tx.path)
    BY DEF PathInv
  <2>2. QED
    BY <1>0, <2>1 DEF PathInv, TokenIn, TokenOut, Factory
<1>3. /\ 2 * d + 1 \in DOMAIN g /\ 2 * d + 2 \in DOMAIN g /\ 2 * d + 3 \in DOMAIN g
      /\ (2 * d + 1) % 2 = 1 /\ (2 * d + 2) % 2 # 1 /\ (2 * d + 3) % 2 = 1
  <2>1. Len(g) \in Nat /\ DOMAIN g = 1..Len(g)
    <3>1. PICK S : g \in Seq(S)
      BY <1>1
    <3>2. QED
      BY <3>1
  <2>2. Len(tx.path) \in Nat
    BY DEF PathInv
  <2>3. 2 * d + 3 <= Len(g)
    BY <1>1, <2>1, <2>2
  <2>4. QED
    BY <1>1, <2>1, <2>3
<1>4. TokenIn \in Tokens /\ TokenOut \in Tokens /\ Factory \in Factories
  BY <1>1, <1>2, <1>3
<1>5. TokenIn \in Nat /\ TokenOut \in Nat
  BY <1>4, V3RouterAssumption
<1>6. ASSUME Pool # NoPool PROVE Pool \in Pools /\ TokenIn # TokenOut
  <2>1. PICK a \in Tokens, b \in Tokens :
          Pool = PoolOf[Factory][a][b] /\ (a = b <=> TokenIn = TokenOut)
    <3>1. CASE TokenIn < TokenOut
      BY <1>4, <1>5, <3>1 DEF Pool, GetPool
    <3>2. CASE ~(TokenIn < TokenOut)
      BY <1>4, <1>5, <3>2 DEF Pool, GetPool
    <3>3. QED
      BY <3>1, <3>2
  <2>2. Pool \in Pools /\ PoolTokens[Pool] = <<a, b>>
    BY <1>4, <1>6, <2>1, V3RouterAssumption
  <2>3. a < b /\ a \in Nat
    BY <2>2, V3RouterAssumption
  <2>4. QED
    BY <2>1, <2>2, <2>3
<1>7. QED
  BY <1>0, <1>2, <1>4, <1>5, <1>6

LEMMA InitIInv == ASSUME RouterApart, Init PROVE IInv
<1>1. ledger \in Ledgers
  BY V3RouterAssumption DEF Init, Ledgers
<1>2. This \in Accounts
  BY DEF Accounts
<1>3. \A t \in Tokens : ledger.bal[t][This] >= 0
  BY <1>2, V3RouterAssumption DEF Init
<1>4. QED
  BY <1>1, <1>3 DEF Init, IInv, Solvent, OnlyListedPaid

(* What happens between the trades. *)
LEMMA BetweenTrades ==
  ASSUME IInv, Transaction, pc' = pc, Solvent(ledger') PROVE IInv'
<1>1. pc' = "idle" /\ last' = NoTrade
  BY DEF Transaction
<1>2. OnlyListedPaid'
  BY <1>1 DEF OnlyListedPaid, NoTrade
<1>3. Solvent(ledger)'
  BY DEF Solvent, Ledgers, Accounts, Pools
<1>4. QED
  BY <1>1, <1>2, <1>3 DEF IInv

LEMMA PermitIInv ==
  ASSUME IInv, NEW u \in Users, NEW t \in Tokens, NEW v \in Amounts, Permit(u, t, v)
  PROVE  IInv'
<1>1. Solvent(ledger) /\ v \in Int /\ ledger.permits \in [Tokens -> [Users -> Int]]
      /\ ledger = [bal |-> ledger.bal, permits |-> ledger.permits]
  BY V3RouterAssumption DEF IInv, Solvent, Ledgers
<1>2. PICK q : q = [ledger.permits EXCEPT ![t][u] = v]
  OBVIOUS
<1>3. q \in [Tokens -> [Users -> Int]]
  BY <1>1, <1>2
<1>4. ledger' = [bal |-> ledger.bal, permits |-> q]
  BY <1>1, <1>2 DEF Permit
<1>5. Solvent(ledger')
  BY <1>1, <1>3, <1>4 DEF Solvent, Ledgers
<1>6. QED
  BY <1>5, BetweenTrades DEF Permit

LEMMA SendIInv ==
  ASSUME IInv, NEW u \in Users, NEW t \in Tokens, NEW v \in Amounts, Send(u, t, v)
  PROVE  IInv'
<1>1. v \in Nat /\ u \in Accounts /\ This \in Accounts /\ Solvent(ledger)
      /\ ledger' \in Transfer(ledger, t, u, This, v)
  BY V3RouterAssumption DEF Accounts, IInv, Send
<1>2. Solvent(ledger')
  BY <1>1, TransferSolvent
<1>3. QED
  BY <1>2, BetweenTrades DEF Send

LEMMA ListIInv == ASSUME IInv, NEW c \in Factories, List(c) PROVE IInv'
<1>1. Solvent(ledger')
  BY DEF IInv, List
<1>2. QED
  BY <1>1, BetweenTrades DEF List

-----------------------------------------------------------------------------
LEMMA StartIInv ==
  ASSUME RouterApart, IInv, NEW u \in Users, NEW a, NEW path \in Paths,
         NEW to \in {MsgSender, AddressThis}, NEW from \in {MsgSender, AddressThis},
         UniV3SwapExactInput(u, a, path, to, from)
  PROVE  IInv'
<1>1. PICK giver \in PayerMap(from, u) :
        tx' = [given |-> path, path |-> path, amountIn |-> AmountAsked(ledger, path[1], a),
               recipient |-> RecipientMap(to, u), first |-> giver, payer |-> giver,
               deltas |-> <<0, 0>>, held |-> 0, fills |-> <<>>]
  BY DEF UniV3SwapExactInput
<1>2. giver \in Parties
  BY <1>1 DEF PayerMap, Parties
<1>3. RecipientMap(to, u) \in Parties
  BY DEF RecipientMap, Parties
<1>4. pc' = "swap" /\ saved' = ledger /\ ledger' = ledger /\ last' = NoTrade
  BY DEF UniV3SwapExactInput, Transaction
<1>5. Solvent(ledger') /\ Solvent(saved')
  BY <1>4 DEF IInv
<1>6. path \in Seq(Tokens \cup Factories)
  BY V3RouterAssumption
<1>7. PathInv'
  BY <1>1, <1>4, <1>6 DEF PathInv, TxShape, Done
<1>8. ListedInv'
  BY <1>1, <1>4 DEF ListedInv
<1>9. FundsInv'
  BY <1>1, <1>2, <1>3, <1>4 DEF FundsInv, Done
<1>10. OnlyListedPaid'
  BY <1>4 DEF OnlyListedPaid, NoTrade
<1>11. Solvent(ledger)' /\ Solvent(saved)'
  BY <1>5 DEF Solvent, Ledgers, Accounts, Pools
<1>12. QED
  BY <1>4, <1>7, <1>8, <1>9, <1>10, <1>11 DEF IInv

(* A pool has paid, from what it has to whom it was told, and asks for its *)
(* own payment.                                                            *)
SwapEffect(took, paid, e, d) ==
  /\ took \in 0..tx.amountIn /\ paid \in Nat /\ e \in Fill
  /\ e = [token |-> TokenIn, offered |-> tx.amountIn, in |-> took, out |-> paid]
  /\ d = IF ZeroForOne THEN <<took, -paid>> ELSE <<-paid, took>>
  /\ tx'.given = tx.given /\ tx'.path = tx.path /\ tx'.amountIn = tx.amountIn
  /\ tx'.recipient = tx.recipient /\ tx'.first = tx.first /\ tx'.payer = tx.payer
  /\ tx'.deltas = d /\ tx'.held = ledger.bal[TokenIn][Pool] /\ tx'.fills = Append(tx.fills, e)
  /\ TxShape'
  /\ tx.fills \in Seq(Fill) /\ tx'.fills \in Seq(Fill)
  /\ Len(tx'.fills) = Len(tx.fills) + 1 /\ Len(tx.fills) \in Nat
  /\ Done = Len(tx.fills) /\ Done' = Done
  /\ TokenIn' = TokenIn /\ TokenOut' = TokenOut /\ Pool' = Pool
  /\ HasMultiplePools' = HasMultiplePools /\ ZeroForOne' = ZeroForOne
  /\ Taken' = took /\ OutputPaid' = paid
  /\ ledger' \in Transfer(ledger, TokenOut, Pool, HopRecipient, paid)

SwapHolds ==
  /\ pc = "swap" /\ pc' = "callback" /\ listed' = listed /\ saved' = saved /\ last' = last
  /\ Len(tx.path) >= 3 /\ Pool # NoPool /\ tx.amountIn \in 1..(ContractBalance - 1)
  /\ PathInv /\ ListedInv /\ FundsInv /\ Solvent(ledger) /\ Solvent(saved) /\ OnlyListedPaid
  /\ TokenIn \in Tokens /\ TokenOut \in Tokens /\ TokenIn \in Nat /\ TokenOut \in Nat
  /\ Pool \in Pools /\ TokenIn # TokenOut
  /\ Pool \in Accounts /\ This \in Accounts /\ Pool # This /\ tx.recipient \in Accounts
  /\ HopRecipient \in Accounts /\ (HasMultiplePools => HopRecipient = This)

LEMMA SwapDoes ==
  ASSUME RouterApart, IInv, Swap
  PROVE  SwapHolds /\ \E took, paid, e, d : SwapEffect(took, paid, e, d)
<1>1. /\ pc = "swap" /\ pc' = "callback" /\ listed' = listed /\ saved' = saved /\ last' = last
      /\ Len(tx.path) >= 3 /\ Pool # NoPool /\ tx.amountIn \in 1..(ContractBalance - 1)
      /\ PathInv /\ ListedInv /\ FundsInv /\ Solvent(ledger) /\ Solvent(saved) /\ OnlyListedPaid
  BY DEF Swap, SwapCalls, IInv
<1>2. /\ TokenIn \in Tokens /\ TokenOut \in Tokens /\ TokenIn \in Nat /\ TokenOut \in Nat
      /\ Pool \in Pools /\ TokenIn # TokenOut
  BY <1>1, HopTypes
<1>3. Pool \in Accounts /\ This \in Accounts /\ Pool # This /\ tx.recipient \in Accounts
  BY <1>1, <1>2 DEF Accounts, RouterApart, FundsInv, Parties
<1>4. /\ ledger.bal[TokenOut][Pool] \in Int
      /\ \A t \in Tokens : ledger.bal[t][This] \in Int /\ ledger.bal[t][This] >= 0
  BY <1>1, <1>2, <1>3 DEF Solvent, Ledgers
<1>5. PICK f \in Fills :
        /\ ledger' \in Transfer(ledger, TokenOut, Pool, HopRecipient, f[2])
        /\ tx' = [tx EXCEPT !.deltas = IF ZeroForOne THEN <<f[1], -f[2]>> ELSE <<-f[2], f[1]>>,
                            !.held = ledger.bal[TokenIn][Pool],
                            !.fills = Append(@, [token |-> TokenIn, offered |-> tx.amountIn,
                                                 in |-> f[1], out |-> f[2]])]
  BY DEF Swap
<1>6. f[1] \in 0..tx.amountIn /\ f[2] \in Nat
  BY <1>1, <1>4, <1>5 DEF Fills
<1>7. PICK e : e = [token |-> TokenIn, offered |-> tx.amountIn, in |-> f[1], out |-> f[2]]
  OBVIOUS
<1>8. e \in Fill
  BY <1>1, <1>2, <1>6, <1>7, TransferAssumption DEF Fill
<1>9. PICK d : d = IF ZeroForOne THEN <<f[1], -f[2]>> ELSE <<-f[2], f[1]>>
  OBVIOUS
<1>10. tx' = [given |-> tx.given, path |-> tx.path, amountIn |-> tx.amountIn,
              recipient |-> tx.recipient, first |-> tx.first, payer |-> tx.payer,
              deltas |-> d, held |-> ledger.bal[TokenIn][Pool], fills |-> Append(tx.fills, e)]
  BY <1>1, <1>5, <1>7, <1>9 DEF PathInv, TxShape
<1>11. /\ tx'.given = tx.given /\ tx'.path = tx.path /\ tx'.amountIn = tx.amountIn
       /\ tx'.recipient = tx.recipient /\ tx'.payer = tx.payer /\ tx'.deltas = d
       /\ tx'.first = tx.first /\ tx'.held = ledger.bal[TokenIn][Pool]
       /\ tx'.fills = Append(tx.fills, e)
       /\ TxShape'
  BY <1>10 DEF TxShape
<1>12. /\ tx.fills \in Seq(Fill)
       /\ tx'.fills \in Seq(Fill)
       /\ Len(tx'.fills) = Len(tx.fills) + 1 /\ Len(tx.fills) \in Nat
  BY <1>1, <1>8, <1>11 DEF PathInv
<1>13. Done = Len(tx.fills) /\ Done' = Done
  BY <1>1, <1>12 DEF Done
<1>14. /\ TokenIn' = TokenIn /\ TokenOut' = TokenOut /\ Pool' = Pool
       /\ HasMultiplePools' = HasMultiplePools /\ ZeroForOne' = ZeroForOne
  BY <1>11 DEF TokenIn, TokenOut, Pool, Factory, HasMultiplePools, ZeroForOne, GetPool
<1>15. Taken' = f[1] /\ OutputPaid' = f[2]
  <2>1. CASE ZeroForOne
    BY <1>6, <1>9, <1>11, <1>14, <2>1 DEF Taken, OutputPaid
  <2>2. CASE ~ZeroForOne
    BY <1>6, <1>9, <1>11, <1>14, <2>2 DEF Taken, OutputPaid
  <2>3. QED
    BY <2>1, <2>2
<1>16. HopRecipient \in Accounts /\ (HasMultiplePools => HopRecipient = This)
  BY <1>3 DEF HopRecipient
<1>17. SwapHolds
  BY <1>1, <1>2, <1>3, <1>16 DEF SwapHolds
<1>18. SwapEffect(f[1], f[2], e, d)
  BY <1>5, <1>6, <1>7, <1>8, <1>9, <1>11, <1>12, <1>13, <1>14, <1>15 DEF SwapEffect
<1>19. QED
  BY <1>17, <1>18

LEMMA SwapIInv == ASSUME RouterApart, IInv, Swap PROVE IInv'
<1>0. PICK took, paid, e, d : SwapEffect(took, paid, e, d)
  BY SwapDoes
<1>1. SwapHolds
  BY SwapDoes
<1>2. /\ pc = "swap" /\ pc' = "callback" /\ listed' = listed /\ saved' = saved /\ last' = last
      /\ Len(tx.path) >= 3 /\ tx.amountIn \in 1..(ContractBalance - 1)
      /\ PathInv /\ ListedInv /\ FundsInv /\ Solvent(ledger) /\ Solvent(saved) /\ OnlyListedPaid
  BY <1>1 DEF SwapHolds
<1>3. /\ TokenIn \in Tokens /\ TokenOut \in Tokens /\ TokenIn # TokenOut
      /\ Pool \in Pools /\ Pool \in Accounts /\ This \in Accounts /\ Pool # This
      /\ HopRecipient \in Accounts /\ (HasMultiplePools => HopRecipient = This)
  BY <1>1 DEF SwapHolds
<1>4. /\ tx'.given = tx.given /\ tx'.path = tx.path /\ tx'.amountIn = tx.amountIn
      /\ tx'.recipient = tx.recipient /\ tx'.payer = tx.payer /\ tx'.deltas = d
      /\ tx'.fills = Append(tx.fills, e) /\ TxShape'
      /\ tx.fills \in Seq(Fill) /\ tx'.fills \in Seq(Fill)
      /\ Len(tx'.fills) = Len(tx.fills) + 1 /\ Len(tx.fills) \in Nat
      /\ Done = Len(tx.fills) /\ Done' = Done
  BY <1>0 DEF SwapEffect
<1>5. /\ took \in 0..tx.amountIn /\ paid \in Nat
      /\ d = IF ZeroForOne THEN <<took, -paid>> ELSE <<-paid, took>>
      /\ TokenIn' = TokenIn /\ TokenOut' = TokenOut /\ Pool' = Pool
      /\ HasMultiplePools' = HasMultiplePools /\ ZeroForOne' = ZeroForOne
      /\ Taken' = took /\ OutputPaid' = paid
      /\ ledger' \in Transfer(ledger, TokenOut, Pool, HopRecipient, paid)
  BY <1>0 DEF SwapEffect
<1>6. /\ ledger.bal[TokenOut][Pool] \in Int
      /\ \A t \in Tokens : ledger.bal[t][This] \in Int /\ ledger.bal[t][This] >= 0
  BY <1>2, <1>3 DEF Solvent, Ledgers
<1>7. PathInv'
  BY <1>2, <1>4 DEF PathInv
<1>8. ListedInv'
  BY <1>2, <1>4 DEF ListedInv
<1>9. PoolInv'
  <2>1. /\ Len(tx'.path) >= 3 /\ Pool' \in Pools /\ tx'.amountIn \in 1..(ContractBalance - 1)
        /\ Taken' \in 0..tx'.amountIn /\ OutputPaid' \in Nat
    BY <1>2, <1>3, <1>4, <1>5
  <2>2. tx'.deltas = IF ZeroForOne' THEN <<Taken', -OutputPaid'>> ELSE <<-OutputPaid', Taken'>>
    BY <1>4, <1>5
  <2>3. QED
    BY <2>1, <2>2 DEF PoolInv, Pools
<1>10. Solvent(ledger')
  BY <1>2, <1>3, <1>5, TransferSolvent
<1>11. HasMultiplePools => ledger'.bal[TokenOut][This] >= paid
  <2>1. ledger \in Ledgers
    BY <1>2 DEF Solvent
  <2>2. HasMultiplePools => ledger'.bal[TokenOut][This] = ledger.bal[TokenOut][This] + paid
    BY <1>3, <1>5, <2>1, TransferEffect
  <2>3. QED
    BY <1>3, <1>5, <1>6, <2>2
<1>12. ledger'.bal[TokenIn][This] >= ledger.bal[TokenIn][This]
  BY <1>2, <1>3, <1>5, TransferSolvent
<1>13. Done > 0 => ledger'.bal[TokenIn][This] >= tx.amountIn
  <2>1. ledger'.bal[TokenIn][This] \in Int
    BY <1>3, <1>10 DEF Solvent, Ledgers
  <2>2. Done > 0 => ledger.bal[TokenIn][This] >= tx.amountIn
    BY <1>2 DEF FundsInv
  <2>3. QED
    BY <1>2, <1>3, <1>6, <1>12, <2>1, <2>2, TransferAssumption
<1>14. FundsInv'
  <2>1. /\ tx'.payer \in Parties /\ tx'.recipient \in Parties
        /\ Done' > 0 => tx'.payer = This
    BY <1>2, <1>4 DEF FundsInv
  <2>2. /\ Done' > 0 => ledger'.bal[TokenIn'][This] >= tx'.amountIn
        /\ HasMultiplePools' => ledger'.bal[TokenOut'][This] >= OutputPaid'
    BY <1>4, <1>5, <1>11, <1>13
  <2>3. QED
    BY <1>2, <2>1, <2>2 DEF FundsInv, Parties
<1>15. Solvent(ledger)' /\ Solvent(saved)'
  BY <1>2, <1>10 DEF Solvent, Ledgers, Accounts, Pools
<1>16. OnlyListedPaid'
  BY <1>2 DEF OnlyListedPaid, NoTrade
<1>17. QED
  BY <1>2, <1>7, <1>8, <1>9, <1>14, <1>15, <1>16 DEF IInv

(* The callback is asked for what the pool took, of the token it was to get. *)
LEMMA CallbackAsks ==
  ASSUME PathInv, PoolInv, CallbackAccepted
  PROVE  /\ (IF IsExactInput THEN TokenIn ELSE TokenOut) = TokenIn
         /\ AmountToPay = Taken /\ Taken \in 1..(ContractBalance - 1)
         /\ TokenIn \in Tokens /\ TokenOut \in Tokens /\ TokenIn # TokenOut /\ Pool \in Pools
<1>1. /\ TokenIn \in Tokens /\ TokenOut \in Tokens /\ TokenIn \in Nat /\ TokenOut \in Nat
      /\ Pool \in Pools /\ TokenIn # TokenOut
  BY HopTypes, V3RouterAssumption DEF PoolInv
<1>2. PICK f, g : f = Taken /\ g = OutputPaid
  OBVIOUS
<1>3. f \in Int /\ f \in 0..tx.amountIn /\ g \in Nat
      /\ tx.amountIn \in 1..(ContractBalance - 1) /\ ContractBalance \in Nat
  BY <1>2, TransferAssumption DEF PoolInv
<1>4. CASE ZeroForOne
  <2>1. tx.deltas[1] = f /\ tx.deltas[2] = -g /\ TokenIn < TokenOut
    BY <1>2, <1>4 DEF PoolInv, ZeroForOne
  <2>2. f > 0
    BY <1>3, <2>1 DEF CallbackAccepted
  <2>3. QED
    BY <1>1, <1>2, <1>3, <2>1, <2>2 DEF IsExactInput, AmountToPay
<1>5. CASE ~ZeroForOne
  <2>1. tx.deltas[1] = -g /\ tx.deltas[2] = f /\ ~(TokenIn < TokenOut)
    BY <1>2, <1>5 DEF PoolInv, ZeroForOne
  <2>2. f > 0 /\ ~(tx.deltas[1] > 0)
    BY <1>3, <2>1 DEF CallbackAccepted
  <2>3. TokenOut < TokenIn
    BY <1>1, <2>1
  <2>4. QED
    BY <1>1, <1>2, <1>3, <2>1, <2>2, <2>3 DEF IsExactInput, AmountToPay
<1>6. QED
  BY <1>4, <1>5

LEMMA CallbackIInv == ASSUME RouterApart, IInv, UniV3SwapCallback PROVE IInv'
<1>1. /\ pc = "callback" /\ pc' = "paid" /\ UNCHANGED <<listed, tx, saved, last>>
      /\ PathInv /\ ListedInv /\ FundsInv /\ PoolInv /\ Solvent(ledger) /\ Solvent(saved)
      /\ OnlyListedPaid
      /\ ledger' \in CallbackPays
  BY DEF UniV3SwapCallback, IInv
<1>2. CallbackAccepted
      /\ ledger' \in PayOrPermit2Transfer(ledger, IF IsExactInput THEN TokenIn ELSE TokenOut,
                                          tx.payer, Pool, AmountToPay)
  BY <1>1 DEF CallbackPays
<1>3. /\ TokenIn \in Tokens /\ TokenOut \in Tokens /\ TokenIn # TokenOut /\ Pool \in Pools
      /\ Taken \in Nat /\ tx.payer \in Parties
      /\ ledger' \in PayOrPermit2Transfer(ledger, TokenIn, tx.payer, Pool, Taken)
  BY <1>1, <1>2, CallbackAsks, TransferAssumption DEF FundsInv
<1>4. /\ Solvent(ledger')
      /\ \A t \in Tokens \ {TokenIn} : ledger'.bal[t][This] >= ledger.bal[t][This]
  BY <1>1, <1>3, PoolPaidSolvent
<1>5. /\ TokenIn' = TokenIn /\ TokenOut' = TokenOut /\ Pool' = Pool /\ ZeroForOne' = ZeroForOne
      /\ HasMultiplePools' = HasMultiplePools /\ OutputPaid' = OutputPaid /\ Taken' = Taken
  BY <1>1 DEF TokenIn, TokenOut, Pool, Factory, ZeroForOne, HasMultiplePools, OutputPaid, Taken,
              GetPool
<1>6. Done' = Done /\ Done = Len(tx.fills) - 1 /\ Done \in Nat /\ Len(tx.fills) \in Nat
  BY <1>1 DEF Done, PathInv
<1>7. PathInv'
  BY <1>1, <1>6 DEF PathInv, TxShape
<1>8. ListedInv'
  <2>1. Factory = tx.given[2 * Done + 2] /\ Factory \in listed
    BY <1>1, <1>2, HopTypes DEF PoolInv, CallbackAccepted, ContractIsAllowed
  <2>2. 2 * Done + 2 = 2 * Len(tx.fills)
    BY <1>6
  <2>3. \A k \in 1..Len(tx.fills) : k \in 1..(Len(tx.fills) - 1) \/ k = Len(tx.fills)
    BY <1>6
  <2>4. QED
    BY <1>1, <2>1, <2>2, <2>3 DEF ListedInv
<1>9. PoolInv'
  BY <1>1, <1>5 DEF PoolInv, Pools
<1>10. HasMultiplePools => ledger'.bal[TokenOut][This] >= OutputPaid
  <2>1. HasMultiplePools => ledger.bal[TokenOut][This] >= OutputPaid
    BY <1>1 DEF FundsInv
  <2>2. /\ ledger.bal[TokenOut][This] \in Int /\ ledger'.bal[TokenOut][This] \in Int
        /\ OutputPaid \in Nat /\ ledger'.bal[TokenOut][This] >= ledger.bal[TokenOut][This]
    BY <1>1, <1>3, <1>4 DEF Solvent, Ledgers, Accounts, PoolInv
  <2>3. QED
    BY <2>1, <2>2
<1>11. FundsInv'
  BY <1>1, <1>5, <1>6, <1>10 DEF FundsInv, Parties
<1>12. Solvent(ledger)' /\ Solvent(saved)'
  BY <1>1, <1>4 DEF Solvent, Ledgers, Accounts, Pools
<1>13. OnlyListedPaid'
  BY <1>1 DEF OnlyListedPaid, NoTrade
<1>14. QED
  BY <1>1, <1>7, <1>8, <1>9, <1>11, <1>12, <1>13 DEF IInv

LEMMA NextHopIInv == ASSUME IInv, NextHop PROVE IInv'
<1>1. /\ pc = "paid" /\ pc' = "swap" /\ UNCHANGED <<ledger, listed, saved, last>>
      /\ HasMultiplePools
      /\ tx' = [tx EXCEPT !.amountIn = OutputPaid, !.payer = NextPayer,
                          !.path = SubSeq(@, 3, Len(@))]
      /\ PathInv /\ ListedInv /\ FundsInv /\ PoolInv /\ Solvent(ledger) /\ Solvent(saved)
      /\ OnlyListedPaid
  BY DEF NextHop, IInv
<1>2. PICK p : p = SubSeq(tx.path, 3, Len(tx.path))
  OBVIOUS
<1>3. /\ Len(tx.path) >= 5 /\ tx.path \in Seq(Tokens \cup Factories)
      /\ p \in Seq(Tokens \cup Factories) /\ Len(p) = Len(tx.path) - 2
      /\ \A i \in 1..Len(p) : p[i] = tx.path[i + 2]
  <2>1. PICK q \in Seq(Tokens \cup Factories) : q = tx.path
    BY <1>1 DEF PathInv
  <2>2. Len(q) >= 5 /\ p = SubSeq(q, 3, Len(q))
    BY <1>1, <1>2, <2>1 DEF HasMultiplePools
  <2>3. p \in Seq(Tokens \cup Factories) /\ Len(p) = Len(q) - 2
        /\ \A i \in 1..Len(p) : p[i] = q[i + 2]
    BY <2>2
  <2>4. QED
    BY <2>1, <2>2, <2>3
<1>4. tx' = [given |-> tx.given, path |-> p, amountIn |-> OutputPaid,
             recipient |-> tx.recipient, first |-> tx.first, payer |-> This,
             deltas |-> tx.deltas, held |-> tx.held, fills |-> tx.fills]
  BY <1>1, <1>2 DEF PathInv, TxShape, NextPayer
<1>5. /\ tx'.given = tx.given /\ tx'.path = p /\ tx'.amountIn = OutputPaid /\ tx'.payer = This
      /\ tx'.recipient = tx.recipient /\ tx'.fills = tx.fills /\ TxShape'
  BY <1>4 DEF TxShape
<1>6. Done' = Done + 1 /\ Done = Len(tx.fills) - 1 /\ Done \in Nat /\ Len(tx.fills) \in Nat
  BY <1>1, <1>5 DEF Done, PathInv
<1>7. PathInv'
  <2>1. PICK d \in Nat : d = Done
    BY <1>6
  <2>0. Done' = d + 1
    BY <1>6, <2>1
  <2>2. Len(p) = Len(tx.given) - 2 * Done'
    <3>1. Len(tx.path) = Len(tx.given) - 2 * d
      BY <1>1, <2>1 DEF PathInv
    <3>2. tx.given \in Seq(Tokens \cup Factories)
      BY <1>1, V3RouterAssumption DEF PathInv
    <3>3. Len(tx.given) \in Nat
      BY <3>2
    <3>4. QED
      <4>1. Len(tx.path) \in Nat /\ Len(p) = Len(tx.path) - 2
        BY <1>3
      <4>2. Len(p) = Len(tx.given) - 2 * (d + 1)
        <5>1. PICK m, n, k : m = Len(p) /\ n = Len(tx.given) /\ k = Len(tx.path)
          OBVIOUS
        <5>2. n \in Nat /\ k \in Nat /\ m = k - 2 /\ k = n - 2 * d
          BY <3>1, <3>3, <4>1, <5>1
        <5>3. m = n - 2 * (d + 1)
          BY <5>2
        <5>4. QED
          BY <5>1, <5>3
      <4>3. QED
        BY <2>0, <4>2
  <2>3. ASSUME NEW i \in 1..Len(p) PROVE p[i] = tx.given[2 * Done' + i]
    <3>1. i + 2 \in 1..Len(tx.path) /\ p[i] = tx.path[i + 2]
      BY <1>3
    <3>2. tx.path[i + 2] = tx.given[2 * d + (i + 2)]
      BY <1>1, <2>1, <3>1 DEF PathInv
    <3>3. 2 * d + (i + 2) = 2 * Done' + i
      <4>1. i \in Int /\ 2 * d + (i + 2) = 2 * (d + 1) + i
        BY <1>3
      <4>2. QED
        BY <2>0, <4>1
    <3>4. QED
      BY <3>1, <3>2, <3>3
  <2>4. QED
    <3>1. tx'.given \in Paths /\ tx'.path \in Seq(Tokens \cup Factories) /\ Done' \in Nat
          /\ tx'.fills \in Seq(Fill)
      <4>1. tx'.given \in Paths /\ tx'.fills \in Seq(Fill)
        BY <1>1, <1>5 DEF PathInv
      <4>2. Done' \in Nat
        BY <1>3, <2>0
      <4>3. tx'.path \in Seq(Tokens \cup Factories)
        BY <1>1, <1>5 DEF PathInv
      <4>4. QED
        BY <4>1, <4>2, <4>3
    <3>2. /\ Len(tx'.path) = Len(tx'.given) - 2 * Done'
          /\ \A i \in 1..Len(tx'.path) : tx'.path[i] = tx'.given[2 * Done' + i]
      BY <1>5, <2>2, <2>3
    <3>3. QED
      BY <1>5, <3>1, <3>2 DEF PathInv
<1>8. ListedInv'
  BY <1>1, <1>5 DEF ListedInv
<1>9. FundsInv'
  <2>1. TokenIn' = TokenOut
    BY <1>3, <1>5 DEF TokenIn, TokenOut
  <2>2. OutputPaid \in Nat /\ ledger.bal[TokenOut][This] >= OutputPaid /\ tx.recipient \in Parties
    BY <1>1 DEF PoolInv, FundsInv
  <2>3. QED
    BY <1>1, <1>5, <2>1, <2>2 DEF FundsInv, Parties
<1>10. Solvent(ledger)' /\ Solvent(saved)'
  BY <1>1 DEF Solvent, Ledgers, Accounts, Pools
<1>11. OnlyListedPaid'
  BY <1>1 DEF OnlyListedPaid, NoTrade
<1>12. QED
  BY <1>1, <1>7, <1>8, <1>9, <1>10, <1>11 DEF IInv

LEMMA ReturnIInv == ASSUME IInv, Return PROVE IInv'
<1>1. /\ pc = "paid" /\ pc' = "idle" /\ UNCHANGED <<ledger, listed>>
      /\ PathInv /\ ListedInv /\ Solvent(ledger)
      /\ last'.path = tx.given /\ last'.fills = tx.fills
  BY DEF Return, IInv
<1>2. DOMAIN tx.fills = 1..Len(tx.fills)
  BY <1>1 DEF PathInv
<1>3. OnlyListedPaid'
  BY <1>1, <1>2 DEF OnlyListedPaid, ListedInv
<1>4. Solvent(ledger)'
  BY <1>1 DEF Solvent, Ledgers, Accounts, Pools
<1>5. QED
  BY <1>1, <1>3, <1>4 DEF IInv

LEMMA RevertIInv == ASSUME IInv, Revert PROVE IInv'
<1>1. /\ pc' = "idle" /\ ledger' = saved /\ UNCHANGED <<listed, last>>
      /\ Solvent(saved) /\ OnlyListedPaid
  BY DEF Revert, IInv
<1>2. Solvent(ledger)'
  BY <1>1 DEF Solvent, Ledgers, Accounts, Pools
<1>3. OnlyListedPaid'
  BY <1>1 DEF OnlyListedPaid, NoTrade
<1>4. QED
  BY <1>1, <1>2, <1>3 DEF IInv

LEMMA NextIInv == ASSUME RouterApart PROVE IInv /\ [Next]_vars => IInv'
<1> SUFFICES ASSUME IInv, [Next]_vars PROVE IInv'
  OBVIOUS
<1>1. ASSUME NEW u \in Users, Trade(u) PROVE IInv'
  BY <1>1, StartIInv DEF Trade
<1>2. CASE Others
  BY <1>2, PermitIInv, SendIInv, ListIInv DEF Others
<1>3. CASE Hop
  BY <1>3, SwapIInv, CallbackIInv, NextHopIInv, ReturnIInv, RevertIInv DEF Hop
<1>4. CASE UNCHANGED vars
  <2>1. /\ ledger' = ledger /\ listed' = listed /\ pc' = pc /\ tx' = tx /\ saved' = saved
        /\ last' = last
    BY <1>4 DEF vars
  <2>2. QED
    BY <2>1 DEF IInv, Solvent, Ledgers, Accounts, Pools, PathInv, TxShape, Done, ListedInv,
                FundsInv, Parties, PoolInv, Taken, OutputPaid, ZeroForOne, TokenIn, TokenOut,
                Factory, Pool, GetPool, HasMultiplePools, OnlyListedPaid, NoTrade
<1>5. QED
  BY <1>1, <1>2, <1>3, <1>4 DEF Next

(* Every reachable state satisfies the inductive invariant. *)
LEMMA Invariance == ASSUME RouterApart PROVE Spec => []IInv
<1>1. Init => IInv
  BY InitIInv
<1>2. IInv /\ [Next]_vars => IInv'
  BY NextIInv
<1>3. QED
  BY <1>1, <1>2, PTL DEF Spec

-----------------------------------------------------------------------------
(* Where everything a trade has moved is.                                  *)

LEMMA PartyTypes ==
  ASSUME IInv
  PROVE  /\ Parties \subseteq Accounts /\ This \in Parties
         /\ \A t \in Tokens, x \in Parties : ledger.bal[t][x] \in Int
         /\ pc # "idle" => \A t \in Tokens, x \in Parties : saved.bal[t][x] \in Int
<1>1. Parties \subseteq Accounts /\ This \in Parties
  BY DEF Parties, Accounts
<1>2. \A l : Solvent(l) => \A t \in Tokens, x \in Parties : l.bal[t][x] \in Int
  BY <1>1 DEF Solvent, Ledgers
<1>3. QED
  BY <1>1, <1>2 DEF IInv

LEMMA FirstFill ==
  ASSUME NEW fills \in Seq(Fill), fills # <<>>
  PROVE  fills[1] \in Fill /\ fills[1].in \in Nat /\ 1 \in 1..Len(fills)
<1>1. fills[1] \in Fill /\ 1 \in 1..Len(fills)
  OBVIOUS
<1>2. QED
  BY <1>1 DEF Fill

LEMMA StartSettles ==
  ASSUME RouterApart, IInv, NEW u \in Users, NEW a, NEW path \in Paths,
         NEW to \in {MsgSender, AddressThis}, NEW from \in {MsgSender, AddressThis},
         UniV3SwapExactInput(u, a, path, to, from)
  PROVE  SettleInv'
<1>1. PICK giver \in PayerMap(from, u) :
        tx' = [given |-> path, path |-> path, amountIn |-> AmountAsked(ledger, path[1], a),
               recipient |-> RecipientMap(to, u), first |-> giver, payer |-> giver,
               deltas |-> <<0, 0>>, held |-> 0, fills |-> <<>>]
  BY DEF UniV3SwapExactInput
<1>2. giver \in Parties
  BY <1>1 DEF PayerMap, Parties
<1>3. pc' = "swap" /\ saved' = ledger /\ ledger' = ledger /\ last' = NoTrade
  BY DEF UniV3SwapExactInput, Transaction
<1>4. tx'.fills = <<>> /\ tx'.first = giver /\ tx'.payer = giver /\ Done' = 0 /\ PaidFills' = <<>>
  BY <1>1, <1>3 DEF Done, PaidFills
<1>5. Moves'
  <2>1. ASSUME NEW t \in Tokens, NEW x \in Parties
        PROVE  ledger'.bal[t][x] = saved'.bal[t][x] + Got(t, x)' - Gave(t, x)'
                                   + (IF x = This THEN LeftOver(PaidFills', t) + Passing(t)' ELSE 0)
    <3>1. Got(t, x)' = 0 /\ Gave(t, x)' = 0 /\ Passing(t)' = 0
      BY <1>3, <1>4 DEF Got, Gave, Passing
    <3>2. LeftOver(PaidFills', t) = 0
      BY <1>4, LeftOverEmpty
    <3>3. ledger.bal[t][x] \in Int
      BY PartyTypes
    <3>4. QED
      BY <1>3, <3>1, <3>2, <3>3
  <2>2. QED
    BY <2>1 DEF Moves, Parties
<1>6. QED
  BY <1>2, <1>3, <1>4, <1>5 DEF SettleInv, NoTrade, Parties

LEMMA SwapSettles ==
  ASSUME RouterApart, IInv, SettleInv, Swap
  PROVE  SettleInv'
<1>0. PICK took, paid, e, d : SwapEffect(took, paid, e, d)
  BY SwapDoes
<1>1. SwapHolds
  BY SwapDoes
<1>2. /\ pc = "swap" /\ pc' = "callback" /\ saved' = saved /\ last' = last
      /\ FundsInv /\ ledger \in Ledgers
      /\ TokenIn \in Tokens /\ TokenOut \in Tokens /\ TokenIn # TokenOut
      /\ Pool \in Pools /\ Pool \in Accounts /\ HopRecipient \in Accounts
  BY <1>1 DEF SwapHolds, Solvent
<1>3. /\ tx'.given = tx.given /\ tx'.recipient = tx.recipient /\ tx'.first = tx.first
      /\ tx'.payer = tx.payer /\ tx'.amountIn = tx.amountIn
      /\ tx'.held = ledger.bal[TokenIn][Pool] /\ tx'.fills = Append(tx.fills, e)
      /\ tx.fills \in Seq(Fill) /\ e \in Fill
      /\ Done = Len(tx.fills) /\ Done' = Done
      /\ e = [token |-> TokenIn, offered |-> tx.amountIn, in |-> took, out |-> paid]
  BY <1>0 DEF SwapEffect
<1>4. /\ paid \in Nat
      /\ TokenIn' = TokenIn /\ TokenOut' = TokenOut /\ Pool' = Pool
      /\ HasMultiplePools' = HasMultiplePools
      /\ Taken' = took /\ OutputPaid' = paid
      /\ ledger' \in Transfer(ledger, TokenOut, Pool, HopRecipient, paid)
  BY <1>0 DEF SwapEffect
<1>5. /\ tx'.fills[Len(tx'.fills)] = e
      /\ PaidFills' = tx.fills /\ PaidFills = tx.fills
      /\ tx.fills # <<>> => tx'.fills[1] = tx.fills[1]
  <2>1. PICK r \in Seq(Fill) : r = tx.fills
    BY <1>3
  <2>2. PICK q : q = Append(r, e)
    OBVIOUS
  <2>3. /\ q[Len(q)] = e /\ Len(q) - 1 = Len(r) /\ (r # <<>> => q[1] = r[1])
        /\ SubSeq(q, 1, Len(q) - 1) = r
    BY <1>3, <2>2
  <2>4. QED
    BY <1>2, <1>3, <2>1, <2>2, <2>3 DEF PaidFills
<1>6. Moves
  BY <1>2 DEF SettleInv
<1>7. Moves'
  <2>1. ASSUME NEW t \in Tokens, NEW x \in Parties
        PROVE  ledger'.bal[t][x] = saved'.bal[t][x] + Got(t, x)' - Gave(t, x)'
                                   + (IF x = This THEN LeftOver(PaidFills', t) + Passing(t)' ELSE 0)
    <3>1. x \in Accounts /\ x # Pool /\ ledger.bal[t][x] \in Int /\ saved.bal[t][x] \in Int
      BY <1>2, PartyTypes DEF Parties, RouterApart
    <3>2. PICK p : p = IF t = TokenOut /\ x = HopRecipient THEN paid ELSE 0
      OBVIOUS
    <3>3. ledger'.bal[t][x] = ledger.bal[t][x] + p
      <4>1. ledger'.bal[t][x] = ledger.bal[t][x]
                                - (IF t = TokenOut /\ x = Pool THEN paid ELSE 0)
                                + (IF t = TokenOut /\ x = HopRecipient THEN paid ELSE 0)
        BY <1>2, <1>4, <3>1, TransferMoves
      <4>2. QED
        BY <1>4, <3>1, <3>2, <4>1
    <3>4. Gave(t, x)' = Gave(t, x)
      BY <1>3, <1>5 DEF Gave
    <3>5. Got(t, x) = 0 /\ Got(t, x)' = IF ~HasMultiplePools /\ t = TokenOut /\ x = tx.recipient
                                         THEN paid ELSE 0
      BY <1>2, <1>3, <1>4 DEF Got
    <3>6. PICK q : q = IF Done > 0 /\ t = TokenIn THEN tx.amountIn ELSE 0
      OBVIOUS
    <3>7. /\ Passing(t) = q + 0
          /\ Passing(t)' = q + (IF HasMultiplePools /\ t = TokenOut THEN paid ELSE 0)
      BY <1>2, <1>3, <1>4, <3>6 DEF Passing
    <3>8. q \in Int /\ LeftOver(tx.fills, t) \in Int /\ Gave(t, x) \in Int
      <4>1. q \in Int
        BY <1>1, <3>6, TransferAssumption DEF SwapHolds
      <4>2. LeftOver(tx.fills, t) \in Int
        BY <1>3, LeftOverAppend
      <4>3. tx.fills # <<>> => tx.fills[1].in \in Nat
        BY <1>3, FirstFill
      <4>4. QED
        BY <1>5, <4>1, <4>2, <4>3 DEF Gave
    <3>9. ledger.bal[t][x] = saved.bal[t][x] + 0 - Gave(t, x)
                             + (IF x = This THEN LeftOver(tx.fills, t) + Passing(t) ELSE 0)
      BY <1>5, <1>6, <3>5 DEF Moves
    <3>10. p = (IF ~HasMultiplePools /\ t = TokenOut /\ x = tx.recipient THEN paid ELSE 0)
               + (IF x = This /\ HasMultiplePools /\ t = TokenOut THEN paid ELSE 0)
      BY <1>4, <3>2 DEF HopRecipient
    <3>11. PICK g, o, z, n, m : /\ g = Gave(t, x) /\ o = LeftOver(tx.fills, t)
                                /\ z = Got(t, x)' /\ n = Passing(t) /\ m = Passing(t)'
      OBVIOUS
    <3>12. /\ ledger.bal[t][x] = saved.bal[t][x] + 0 - g + (IF x = This THEN o + n ELSE 0)
           /\ ledger'.bal[t][x] = ledger.bal[t][x] + p /\ g \in Int /\ o \in Int /\ q \in Int
           /\ p = z + (IF x = This THEN m - n ELSE 0) /\ z \in Int /\ m \in Int /\ n \in Int
      BY <1>4, <3>3, <3>5, <3>7, <3>8, <3>9, <3>10, <3>11
    <3>13. ledger'.bal[t][x] = saved.bal[t][x] + z - g + (IF x = This THEN o + m ELSE 0)
      BY <3>1, <3>12
    <3>14. QED
      BY <1>2, <1>5, <3>4, <3>11, <3>13
  <2>2. QED
    BY <2>1 DEF Moves, Parties
<1>8. ledger'.bal[TokenIn'][Pool'] = tx'.held
  BY <1>2, <1>3, <1>4, TransferEffect
<1>9. tx'.first \in Parties /\ (Done' = 0 => tx'.payer = tx'.first) /\ last' = NoTrade
  BY <1>2, <1>3 DEF SettleInv
<1>10. tx'.fills[Len(tx'.fills)] = [token |-> TokenIn', offered |-> tx'.amountIn,
                                    in |-> Taken', out |-> OutputPaid']
  BY <1>3, <1>4, <1>5
<1>11. QED
  BY <1>2, <1>7, <1>8, <1>9, <1>10 DEF SettleInv, NoTrade, Parties

LEMMA CallbackSettles ==
  ASSUME RouterApart, IInv, SettleInv, UniV3SwapCallback
  PROVE  SettleInv'
<1>1. /\ pc = "callback" /\ pc' = "paid" /\ UNCHANGED <<listed, tx, saved, last>>
      /\ PathInv /\ FundsInv /\ PoolInv /\ Solvent(ledger)
      /\ ledger' \in CallbackPays
  BY DEF UniV3SwapCallback, IInv
<1>2. CallbackAccepted
      /\ ledger' \in PayOrPermit2Transfer(ledger, IF IsExactInput THEN TokenIn ELSE TokenOut,
                                          tx.payer, Pool, AmountToPay)
  BY <1>1 DEF CallbackPays
<1>3. /\ TokenIn \in Tokens /\ TokenOut \in Tokens /\ TokenIn # TokenOut /\ Pool \in Pools
      /\ Taken \in Nat /\ Taken > 0 /\ Taken # ContractBalance /\ tx.payer \in Parties
      /\ AmountToPay = Taken
      /\ ledger' \in PayOrPermit2Transfer(ledger, TokenIn, tx.payer, Pool, Taken)
  BY <1>1, <1>2, CallbackAsks, TransferAssumption DEF FundsInv
<1>4. /\ TokenIn' = TokenIn /\ TokenOut' = TokenOut /\ Pool' = Pool /\ Taken' = Taken
      /\ HasMultiplePools' = HasMultiplePools /\ OutputPaid' = OutputPaid
      /\ AmountToPay' = AmountToPay
  BY <1>1 DEF TokenIn, TokenOut, Pool, Factory, ZeroForOne, HasMultiplePools, OutputPaid, Taken,
              GetPool, AmountToPay
<1>5. /\ Done' = Done /\ Done = Len(tx.fills) - 1 /\ Done \in Nat /\ Len(tx.fills) \in Nat
      /\ tx.fills \in Seq(Fill)
  BY <1>1 DEF Done, PathInv
<1>6. PICK r, e : r = SubSeq(tx.fills, 1, Len(tx.fills) - 1) /\ e = tx.fills[Len(tx.fills)]
  OBVIOUS
<1>7. /\ PaidFills = r /\ PaidFills' = tx.fills
      /\ e = [token |-> TokenIn, offered |-> tx.amountIn, in |-> Taken, out |-> OutputPaid]
  BY <1>1, <1>6 DEF PaidFills, SettleInv
<1>8. /\ tx.fills = Append(r, e) /\ r \in Seq(Fill) /\ e \in Fill
      /\ (r = <<>>) <=> (Done = 0)
      /\ tx.fills # <<>> /\ (Done = 0 => tx.fills[1] = e)
  <2>1. PICK s \in Seq(Fill) : s = tx.fills
    BY <1>5
  <2>2. /\ Len(s) \in Nat /\ Len(s) >= 1 /\ r = SubSeq(s, 1, Len(s) - 1) /\ e = s[Len(s)]
        /\ Done = Len(s) - 1
    BY <1>5, <1>6, <2>1
  <2>3. r \in Seq(Fill) /\ e \in Fill /\ Len(r) = Len(s) - 1
    BY <2>2
  <2>4. s = Append(r, e)
    BY <2>2, <2>3
  <2>5. (r = <<>>) <=> (Len(r) = 0)
    BY <2>3
  <2>6. Len(r) = Done /\ s # <<>> /\ (Done = 0 => s[1] = e)
    BY <2>2, <2>3
  <2>7. QED
    BY <2>1, <2>3, <2>4, <2>5, <2>6
<1>9. Moves
  BY <1>1 DEF SettleInv
<1>10. CASE ledger'.bal = ledger.bal
  <2>1. ledger.bal[TokenIn][Pool] = tx.held /\ tx.held \in Int
    BY <1>1, <1>3 DEF SettleInv, Solvent, Ledgers, Accounts
  <2>2. ~PoolContent'
    BY <1>1, <1>3, <1>4, <1>10, <2>1 DEF PoolContent
  <2>3. QED
    BY <1>1, <1>4, <1>5, <1>7, <2>2 DEF SettleInv, NoTrade, Parties
<1>11. CASE \A t \in Tokens, x \in Parties :
              ledger'.bal[t][x] = ledger.bal[t][x]
                                  - (IF t = TokenIn /\ x = tx.payer THEN Taken ELSE 0)
  <2>1. ASSUME NEW t \in Tokens, NEW x \in Parties
        PROVE  ledger'.bal[t][x] = saved'.bal[t][x] + Got(t, x)' - Gave(t, x)'
                                   + (IF x = This THEN LeftOver(PaidFills', t) + Passing(t)' ELSE 0)
    <3>1. ledger.bal[t][x] \in Int /\ saved.bal[t][x] \in Int
      BY <1>1, PartyTypes
    <3>2. Got(t, x)' = Got(t, x) /\ Got(t, x) \in Int
      BY <1>1, <1>4 DEF Got, PoolInv
    <3>3. Gave(t, x)' = IF t = tx.given[1] /\ x = tx.first THEN tx.fills[1].in ELSE 0
      BY <1>1, <1>7, <1>8 DEF Gave
    <3>4. Gave(t, x) = IF Done # 0 /\ t = tx.given[1] /\ x = tx.first THEN tx.fills[1].in ELSE 0
      BY <1>7, <1>8 DEF Gave
    <3>5. PICK b : b = IF HasMultiplePools /\ t = TokenOut THEN OutputPaid ELSE 0
      OBVIOUS
    <3>6. /\ Passing(t) = (IF Done > 0 /\ t = TokenIn THEN tx.amountIn ELSE 0) + b
          /\ Passing(t)' = 0 + b
      BY <1>1, <1>4, <3>5 DEF Passing
    <3>7. b \in Int /\ tx.amountIn \in Int /\ tx.fills[1].in \in Nat
      BY <1>1, <1>5, <1>8, <3>5, FirstFill, TransferAssumption DEF PoolInv
    <3>8. /\ LeftOver(r, t) \in Int
          /\ LeftOver(tx.fills, t)
               = LeftOver(r, t) + (IF Done # 0 /\ t = TokenIn THEN tx.amountIn - Taken ELSE 0)
      <4>1. /\ LeftOver(r, t) \in Int
            /\ LeftOver(Append(r, e), t) = LeftOver(r, t) + (IF r = <<>> THEN 0 ELSE NotTaken(e, t))
        BY <1>8, LeftOverAppend
      <4>2. NotTaken(e, t) = IF t = TokenIn THEN tx.amountIn - Taken ELSE 0
        BY <1>7 DEF NotTaken
      <4>3. QED
        BY <1>8, <4>1, <4>2
    <3>9. ledger.bal[t][x] = saved.bal[t][x] + Got(t, x) - Gave(t, x)
                             + (IF x = This THEN LeftOver(r, t) + Passing(t) ELSE 0)
      BY <1>7, <1>9 DEF Moves
    <3>10. ledger'.bal[t][x] = ledger.bal[t][x] - (IF t = TokenIn /\ x = tx.payer THEN Taken ELSE 0)
      BY <1>11
    <3>11. PICK o, l, m, g : /\ o = Got(t, x) /\ l = LeftOver(r, t) /\ m = Passing(t)
                             /\ g = Gave(t, x)
      OBVIOUS
    <3>12. CASE Done = 0
      <4>1. tx.payer = tx.first /\ tx.fills[1].in = Taken /\ tx.given[1] = TokenIn
        <5>1. tx.payer = tx.first /\ tx.fills[1].in = Taken
          BY <1>7, <1>8, <3>12 DEF SettleInv
        <5>2. 1 \in 1..Len(tx.path)
          BY <1>1 DEF PoolInv, PathInv
        <5>3. tx.path[1] = tx.given[2 * 0 + 1]
          BY <1>1, <3>12, <5>2 DEF PathInv
        <5>4. QED
          BY <5>1, <5>3 DEF TokenIn
      <4>2. /\ g = 0 /\ Gave(t, x)' = IF t = TokenIn /\ x = tx.payer THEN Taken ELSE 0
            /\ LeftOver(tx.fills, t) = l /\ Passing(t)' = b /\ m = b /\ l \in Int /\ o \in Int
        BY <3>2, <3>3, <3>4, <3>6, <3>7, <3>8, <3>11, <3>12, <4>1
      <4>3. ledger.bal[t][x] = saved.bal[t][x] + o - g + (IF x = This THEN l + m ELSE 0)
        BY <3>9, <3>11
      <4>4. ledger'.bal[t][x] = saved.bal[t][x] + o
                                - (IF t = TokenIn /\ x = tx.payer THEN Taken ELSE 0)
                                + (IF x = This THEN l + b ELSE 0)
        BY <1>3, <3>1, <3>7, <3>10, <4>2, <4>3
      <4>5. QED
        BY <1>1, <1>7, <3>2, <3>11, <4>2, <4>4
    <3>13. CASE Done # 0
      <4>1. tx.payer = This /\ Done > 0
        <5>1. Done > 0
          <6>1. Done \in Nat /\ Done # 0
            <7>1. Done \in Nat
              BY <1>5
            <7>2. QED
              BY <7>1, <3>13
          <6>2. PICK d : d = Done
            OBVIOUS
          <6>3. d \in Nat /\ d # 0
            BY <6>1, <6>2
          <6>4. d > 0
            BY <6>3
          <6>5. QED
            BY <6>2, <6>4
        <5>2. QED
          BY <1>1, <5>1 DEF FundsInv
      <4>2. PICK a : a = IF t = TokenIn THEN tx.amountIn ELSE 0
        OBVIOUS
      <4>3. PICK k : k = IF t = TokenIn THEN Taken ELSE 0
        OBVIOUS
      <4>4. /\ a \in Int /\ k \in Int /\ Gave(t, x)' = g /\ g \in Int /\ m = a + b
            /\ Passing(t)' = b /\ LeftOver(tx.fills, t) = l + (a - k) /\ l \in Int /\ o \in Int
        <5>1. a \in Int /\ k \in Int /\ m = a + b /\ Passing(t)' = b /\ l \in Int /\ o \in Int
          BY <1>3, <3>2, <3>6, <3>7, <3>8, <3>11, <4>1, <4>2, <4>3
        <5>2. Gave(t, x)' = g /\ g \in Int
          BY <3>3, <3>4, <3>7, <3>11, <3>13
        <5>3. LeftOver(tx.fills, t) = l + (a - k)
          BY <1>3, <3>7, <3>8, <3>11, <3>13, <4>2, <4>3
        <5>4. QED
          BY <5>1, <5>2, <5>3
      <4>5. ledger.bal[t][x] = saved.bal[t][x] + o - g + (IF x = This THEN l + m ELSE 0)
        BY <3>9, <3>11
      <4>6. ledger'.bal[t][x] = ledger.bal[t][x] - (IF x = This THEN k ELSE 0)
        BY <3>1, <3>10, <4>1, <4>3
      <4>7. ledger'.bal[t][x] = saved.bal[t][x] + o - g + (IF x = This THEN (l + (a - k)) + b ELSE 0)
        BY <3>1, <3>7, <4>4, <4>5, <4>6
      <4>8. QED
        BY <1>1, <1>7, <3>2, <3>11, <4>4, <4>7
    <3>14. QED
      BY <3>12, <3>13
  <2>2. Moves'
    BY <2>1 DEF Moves, Parties
  <2>3. QED
    BY <1>1, <1>4, <1>5, <1>7, <2>2 DEF SettleInv, NoTrade, Parties
<1>12. QED
  BY <1>1, <1>3, <1>10, <1>11, PoolPaidMoves

LEMMA NextHopSettles ==
  ASSUME IInv, SettleInv, NextHop
  PROVE  SettleInv'
<1>1. /\ pc = "paid" /\ pc' = "swap" /\ UNCHANGED <<ledger, listed, saved, last>>
      /\ HasMultiplePools /\ PoolContent
      /\ tx' = [tx EXCEPT !.amountIn = OutputPaid, !.payer = NextPayer,
                          !.path = SubSeq(@, 3, Len(@))]
      /\ PathInv /\ PoolInv
  BY DEF NextHop, IInv
<1>2. PICK p : p = SubSeq(tx.path, 3, Len(tx.path))
  OBVIOUS
<1>3. Len(p) >= 3 /\ p[1] = tx.path[3]
  <2>1. PICK q \in Seq(Tokens \cup Factories) : q = tx.path
    BY <1>1 DEF PathInv
  <2>2. Len(q) >= 5 /\ p = SubSeq(q, 3, Len(q))
    BY <1>1, <1>2, <2>1 DEF HasMultiplePools
  <2>3. Len(p) = Len(q) - 2 /\ p[1] = q[3]
    BY <2>2
  <2>4. QED
    BY <2>1, <2>2, <2>3
<1>4. tx' = [given |-> tx.given, path |-> p, amountIn |-> OutputPaid,
             recipient |-> tx.recipient, first |-> tx.first, payer |-> This,
             deltas |-> tx.deltas, held |-> tx.held, fills |-> tx.fills]
  BY <1>1, <1>2 DEF PathInv, TxShape, NextPayer
<1>5. /\ tx'.given = tx.given /\ tx'.path = p /\ tx'.amountIn = OutputPaid
      /\ tx'.first = tx.first /\ tx'.fills = tx.fills
  BY <1>4
<1>6. Done' = Done + 1 /\ Done \in Nat
  BY <1>1, <1>5 DEF Done, PathInv
<1>7. TokenIn' = TokenOut /\ PaidFills' = PaidFills
  BY <1>1, <1>3, <1>5 DEF TokenIn, TokenOut, PaidFills
<1>8. Moves
  BY <1>1 DEF SettleInv
<1>9. Moves'
  <2>1. ASSUME NEW t \in Tokens, NEW x \in Parties
        PROVE  ledger'.bal[t][x] = saved'.bal[t][x] + Got(t, x)' - Gave(t, x)'
                                   + (IF x = This THEN LeftOver(PaidFills', t) + Passing(t)' ELSE 0)
    <3>1. Got(t, x)' = Got(t, x) /\ Gave(t, x)' = Gave(t, x)
      BY <1>1, <1>5, <1>7 DEF Got, Gave
    <3>2. PICK b : b = IF t = TokenOut THEN OutputPaid ELSE 0
      OBVIOUS
    <3>3. b \in Int /\ Passing(t) = 0 + b /\ Passing(t)' = b + 0
      BY <1>1, <1>5, <1>6, <1>7, <3>2 DEF Passing, PoolInv
    <3>4. QED
      BY <1>1, <1>7, <1>8, <3>1, <3>3 DEF Moves
  <2>2. QED
    BY <2>1 DEF Moves, Parties
<1>10. QED
  BY <1>1, <1>3, <1>5, <1>6, <1>9 DEF SettleInv, NoTrade, Parties

LEMMA ReturnSettles ==
  ASSUME IInv, SettleInv, Return
  PROVE  TradeSettles'
<1>1. /\ pc = "paid" /\ UNCHANGED ledger /\ PoolContent /\ ~HasMultiplePools
      /\ last' = [amountOut |-> OutputPaid, path |-> tx.given, payer |-> tx.first,
                  recipient |-> tx.recipient, fills |-> tx.fills, ledger |-> saved]
      /\ PathInv /\ PoolInv
  BY DEF Return, IInv
<1>2. Done = Len(tx.fills) - 1 /\ Done \in Nat /\ tx.fills \in Seq(Fill) /\ Len(tx.fills) \in Nat
      /\ tx.fills # <<>> /\ PaidFills = tx.fills
  BY <1>1 DEF Done, PathInv, PaidFills
<1>3. TokenOut = Last(tx.given)
  <2>1. PICK d \in Nat : d = Done
    BY <1>2
  <2>0. tx.given \in Seq(Tokens \cup Factories) /\ tx.path \in Seq(Tokens \cup Factories)
    BY <1>1, V3RouterAssumption DEF PathInv
  <2>8. Len(tx.given) \in Nat /\ Len(tx.path) \in Nat
    BY <2>0
  <2>2. PICK n, k : n = Len(tx.given) /\ k = Len(tx.path)
    OBVIOUS
  <2>9. Len(tx.path) >= 3 /\ ~(Len(tx.path) >= 5) /\ Len(tx.path) = Len(tx.given) - 2 * Done
    BY <1>1 DEF PathInv, PoolInv, HasMultiplePools
  <2>3. n \in Nat /\ k \in 3..4 /\ k = n - 2 * d
    BY <2>1, <2>2, <2>8, <2>9
  <2>4. (IF n % 2 = 1 THEN n ELSE n - 1) = 2 * d + 3
    <3>1. CASE k = 3
      <4>1. n = 2 * d + 3
        BY <2>3, <3>1
      <4>2. n % 2 = 1
        BY <4>1
      <4>3. QED
        BY <4>1, <4>2
    <3>2. CASE k = 4
      <4>1. n = 2 * d + 4
        BY <2>3, <3>2
      <4>2. n % 2 # 1 /\ n - 1 = 2 * d + 3
        BY <4>1
      <4>3. QED
        BY <4>2
    <3>3. QED
      BY <2>3, <3>1, <3>2
  <2>5. tx.path[3] = tx.given[2 * d + 3]
    <3>1. \A i \in 1..Len(tx.path) : tx.path[i] = tx.given[2 * Done + i]
      BY <1>1 DEF PathInv
    <3>2. 3 \in 1..Len(tx.path)
      BY <2>2, <2>3
    <3>3. QED
      BY <2>1, <3>1, <3>2
  <2>6. QED
    BY <2>2, <2>4, <2>5 DEF TokenOut, Last
<1>4. Moves
  BY <1>1 DEF SettleInv
<1>5. ASSUME NEW t \in Tokens, NEW x \in Parties
      PROVE  ledger'.bal[t][x] - saved.bal[t][x]
               = (IF t = Last(tx.given) /\ x = tx.recipient THEN OutputPaid ELSE 0)
                 - (IF t = tx.given[1] /\ x = tx.first THEN tx.fills[1].in ELSE 0)
                 + (IF x = This THEN LeftOver(tx.fills, t) ELSE 0)
  <2>1. ledger.bal[t][x] \in Int /\ saved.bal[t][x] \in Int
    BY <1>1, PartyTypes
  <2>2. /\ Got(t, x) = IF t = Last(tx.given) /\ x = tx.recipient THEN OutputPaid ELSE 0
        /\ Gave(t, x) = IF t = tx.given[1] /\ x = tx.first THEN tx.fills[1].in ELSE 0
        /\ Passing(t) = 0
    BY <1>1, <1>2, <1>3 DEF Got, Gave, Passing
  <2>3. OutputPaid \in Nat /\ tx.fills[1].in \in Nat /\ LeftOver(tx.fills, t) \in Int
    <3>1. OutputPaid \in Nat /\ tx.fills[1] \in Fill /\ tx.fills[1].in \in Nat
      BY <1>1, <1>2, FirstFill DEF PoolInv
    <3>2. QED
      BY <1>2, <3>1, LeftOverAppend
  <2>4. ledger.bal[t][x] = saved.bal[t][x] + Got(t, x) - Gave(t, x)
                           + (IF x = This THEN LeftOver(tx.fills, t) + Passing(t) ELSE 0)
    BY <1>2, <1>4 DEF Moves
  <2>5. PICK o, g, l : o = Got(t, x) /\ g = Gave(t, x) /\ l = LeftOver(tx.fills, t)
    OBVIOUS
  <2>6. o \in Int /\ g \in Int /\ l \in Int
    BY <2>2, <2>3, <2>5
  <2>7. ledger.bal[t][x] - saved.bal[t][x] = o - g + (IF x = This THEN l ELSE 0)
    BY <2>1, <2>2, <2>4, <2>5, <2>6
  <2>8. QED
    BY <1>1, <2>2, <2>5, <2>7
<1>6. QED
  BY <1>1, <1>5 DEF TradeSettles, Parties

Settled == TradeSettles /\ (pc # "idle" => SettleInv)

LEMMA NextSettled ==
  ASSUME RouterApart, IInv, Settled, [Next]_vars
  PROVE  Settled'
<1>1. ASSUME NEW u \in Users, Trade(u) PROVE Settled'
  <2>1. last' = NoTrade
    BY <1>1 DEF Trade, UniV3SwapExactInput, Transaction
  <2>2. SettleInv'
    BY <1>1, StartSettles DEF Trade
  <2>3. TradeSettles'
    BY <2>1 DEF TradeSettles, NoTrade
  <2>4. QED
    BY <2>2, <2>3 DEF Settled
<1>2. CASE Others
  <2>1. last' = NoTrade /\ pc' = "idle"
    BY <1>2 DEF Others, Permit, Send, List, Transaction
  <2>2. TradeSettles'
    BY <2>1 DEF TradeSettles, NoTrade
  <2>3. QED
    BY <2>1, <2>2 DEF Settled
<1>3. CASE Hop
  <2>1. pc # "idle" /\ SettleInv /\ last = NoTrade
    BY <1>3 DEF Hop, Swap, UniV3SwapCallback, NextHop, Return, Revert, Settled, SettleInv
  <2>2. last' = NoTrade => TradeSettles'
    BY DEF TradeSettles, NoTrade
  <2>3. CASE Swap
    BY <2>1, <2>2, <2>3, SwapSettles DEF Settled, Swap
  <2>4. CASE UniV3SwapCallback
    BY <2>1, <2>2, <2>4, CallbackSettles DEF Settled, UniV3SwapCallback
  <2>5. CASE NextHop
    BY <2>1, <2>2, <2>5, NextHopSettles DEF Settled, NextHop
  <2>6. CASE Return
    BY <2>1, <2>6, ReturnSettles DEF Settled, Return
  <2>7. CASE Revert
    BY <2>1, <2>2, <2>7 DEF Settled, Revert
  <2>8. QED
    BY <1>3, <2>3, <2>4, <2>5, <2>6, <2>7 DEF Hop
<1>4. CASE UNCHANGED vars
  <2>1. /\ ledger' = ledger /\ listed' = listed /\ pc' = pc /\ tx' = tx /\ saved' = saved
        /\ last' = last
    BY <1>4 DEF vars
  <2>2. TradeSettles' = TradeSettles
    BY <2>1 DEF TradeSettles, NoTrade
  <2>3. /\ TokenIn' = TokenIn /\ TokenOut' = TokenOut /\ Pool' = Pool
        /\ HasMultiplePools' = HasMultiplePools /\ Done' = Done /\ PaidFills' = PaidFills
        /\ Taken' = Taken /\ OutputPaid' = OutputPaid /\ AmountToPay' = AmountToPay
    BY <2>1 DEF AmountToPay, Taken, OutputPaid, ZeroForOne, TokenIn, TokenOut, Done, Factory,
                Pool, GetPool, HasMultiplePools, PaidFills
  <2>4. PoolContent' = PoolContent
    BY <2>1, <2>3 DEF PoolContent
  <2>5. Moves' = Moves
    <3>1. \A t \in Tokens, x \in Parties :
            Got(t, x)' = Got(t, x) /\ Gave(t, x)' = Gave(t, x) /\ Passing(t)' = Passing(t)
      BY <2>1, <2>3 DEF Got, Gave, Passing
    <3>2. QED
      BY <2>1, <2>3, <3>1 DEF Moves, Parties
  <2>6. SettleInv' = SettleInv
    BY <2>1, <2>3, <2>4, <2>5 DEF SettleInv, NoTrade, Parties
  <2>7. QED
    BY <2>1, <2>2, <2>6 DEF Settled
<1>5. QED
  BY <1>1, <1>2, <1>3, <1>4 DEF Next

(* When a trade is done its payer has paid what the first pool took, its   *)
(* recipient has amountOut, and the router has what the later pools left,  *)
(* for paths of any length and pools that take any part of what they are   *)
(* offered; a token that is ETH is never paid, and the trade is undone.    *)
THEOREM TradeSettlesCorrect == ASSUME RouterApart PROVE Spec => []TradeSettles
<1>1. Init => Settled
  BY DEF Init, Settled, TradeSettles, NoTrade
<1>2. IInv /\ Settled /\ [Next]_vars => Settled'
  BY NextSettled
<1>3. Settled => TradeSettles
  BY DEF Settled
<1>4. QED
  BY <1>1, <1>2, <1>3, Invariance, PTL DEF Spec

(* A trade that is done has paid pools of listed factories only, however   *)
(* many pools its path has and whenever the list was changed before it.    *)
THEOREM OnlyListedPaidCorrect == ASSUME RouterApart PROVE Spec => []OnlyListedPaid
<1>1. IInv => OnlyListedPaid
  BY DEF IInv
<1>2. QED
  BY <1>1, Invariance, PTL

(* After the first pool the callback can always pay: what a pool asks for  *)
(* is covered by what the pool before it has paid to the router.           *)
THEOREM LaterHopsFundedCorrect == ASSUME RouterApart PROVE Spec => []LaterHopsFunded
<1>1. ASSUME IInv PROVE LaterHopsFunded
  <2> SUFFICES ASSUME pc = "callback", Len(tx.fills) > 1, CallbackAccepted
               PROVE  CallbackPays # {}
    BY DEF LaterHopsFunded
  <2>1. PathInv /\ PoolInv /\ FundsInv /\ Solvent(ledger)
    BY <1>1 DEF IInv
  <2>2. Len(tx.fills) \in Nat /\ Done > 0
    BY <2>1 DEF PathInv, Done
  <2>3. tx.payer = This /\ ledger.bal[TokenIn][This] >= tx.amountIn
    BY <2>1, <2>2 DEF FundsInv
  <2>4. /\ TokenIn \in Tokens /\ Taken \in 1..(ContractBalance - 1) /\ Taken <= tx.amountIn
        /\ CallbackPays = PayOrPermit2Transfer(ledger, TokenIn, This, Pool, Taken)
    BY <2>1, <2>3, CallbackAsks DEF CallbackPays, PoolInv
  <2>5. CallbackPays = Pay(ledger, TokenIn, Pool, Taken)
    BY <2>4 DEF PayOrPermit2Transfer
  <2>6. Taken # ContractBalance
    BY <2>4, TransferAssumption
  <2>7. ~(Taken > ledger.bal[TokenIn][This])
    <3>1. ledger.bal[TokenIn][This] \in Int
      BY <2>1, <2>4 DEF Solvent, Ledgers, Accounts
    <3>2. tx.amountIn \in Int /\ Taken \in Int
      BY <2>1, <2>4, TransferAssumption DEF PoolInv
    <3>3. QED
      BY <2>3, <2>4, <3>1, <3>2
  <2>8. QED
    BY <2>5, <2>6, <2>7 DEF Pay, Transfer
<1>2. QED
  BY <1>1, Invariance, PTL

-----------------------------------------------------------------------------
(* Arithmetic of spacings.                                                 *)

LEMMA Multiples ==
  ASSUME NEW s \in Nat \ {0}, NEW j \in Int, NEW k \in Int
  PROVE  j * s < k * s => j < k /\ j * s + s <= k * s
<1>1. SUFFICES ASSUME j * s < k * s PROVE j < k /\ j * s + s <= k * s
  OBVIOUS
<1>2. ASSUME k <= j PROVE FALSE
  <2>1. PICK d \in Nat : j = k + d
    <3>1. j - k \in Nat
      BY <1>2
    <3>2. QED
      BY <3>1
  <2>2. j * s = k * s + d * s /\ d * s \in Nat /\ k * s \in Int
    BY <2>1
  <2>3. QED
    BY <1>1, <2>2
<1>3. PICK d \in Nat : k = j + 1 + d
  <2>1. k - j - 1 \in Nat
    BY <1>2
  <2>2. QED
    BY <2>1
<1>4. k * s = j * s + s + d * s /\ d * s \in Nat /\ j * s \in Int
  BY <1>3
<1>5. QED
  BY <1>2, <1>4

(* Division of integers of either sign: the quotient q of a, towards zero, *)
(* is not above a multiple that is not below a, and the other way round.   *)
LEMMA QuotientBetween ==
  ASSUME NEW s \in Nat \ {0}, NEW a \in Int, NEW k \in Int
  PROVE  /\ Scan!Quotient(a, s) \in Int
         /\ a <= k * s => Scan!Quotient(a, s) <= k
         /\ k * s <= a => k <= Scan!Quotient(a, s)
<1>1. CASE a >= 0
  <2>1. PICK q \in Int : q = a \div s
    OBVIOUS
  <2>2. q * s <= a /\ a < q * s + s /\ q * s \in Int
    BY <1>1, <2>1
  <2>3. k * s \in Int /\ (k + 1) * s = k * s + s /\ (q + 1) * s = q * s + s
    OBVIOUS
  <2>4. a <= k * s => q <= k
    <3>1. SUFFICES ASSUME a <= k * s PROVE q <= k
      OBVIOUS
    <3>2. q * s < (k + 1) * s
      BY <2>2, <2>3, <3>1
    <3>3. QED
      BY <3>2, Multiples
  <2>5. k * s <= a => k <= q
    <3>1. SUFFICES ASSUME k * s <= a PROVE k <= q
      OBVIOUS
    <3>2. k * s < (q + 1) * s
      BY <2>2, <2>3, <3>1
    <3>3. QED
      BY <3>2, Multiples
  <2>6. QED
    BY <1>1, <2>1, <2>4, <2>5 DEF Scan!Quotient
<1>2. CASE a < 0
  <2>1. PICK q \in Int : q = (-a) \div s
    OBVIOUS
  <2>2. q * s <= -a /\ -a < q * s + s /\ q * s \in Int
    BY <1>2, <2>1
  <2>3. /\ k * s \in Int /\ (-q) * s = -(q * s) /\ (-q - 1) * s = -(q * s) - s
        /\ (k + 1) * s = k * s + s /\ (-q + 1) * s = -(q * s) + s
    OBVIOUS
  <2>4. a <= k * s => -q <= k
    <3>1. SUFFICES ASSUME a <= k * s PROVE -q <= k
      OBVIOUS
    <3>2. (-q - 1) * s < k * s
      BY <2>2, <2>3, <3>1
    <3>3. QED
      BY <3>2, Multiples
  <2>5. k * s <= a => k <= -q
    <3>1. SUFFICES ASSUME k * s <= a PROVE k <= -q
      OBVIOUS
    <3>2. k * s < (-q + 1) * s
      BY <2>2, <2>3, <3>1
    <3>3. QED
      BY <3>2, Multiples
  <2>6. Scan!Quotient(a, s) = -q
    BY <1>2, <2>1 DEF Scan!Quotient
  <2>7. QED
    BY <2>4, <2>5, <2>6
<1>3. QED
  BY <1>1, <1>2

(* The tick of a bit of a word, and the place of every tick.               *)
TickAt(w, b, s) == (w * 256 + b) * s
IsBefore(w, b, v, c) == w < v \/ (w = v /\ b < c)
HasPlace(t, s) == \E w \in Int, b \in 0..255 : t = TickAt(w, b, s)

LEMMA TickPlace ==
  ASSUME NEW s \in Nat \ {0}, NEW t \in Int, t % s = 0
  PROVE  HasPlace(t, s)
<1>1. PICK k \in Int : t = k * s
  <2>1. t = (t \div s) * s /\ t \div s \in Int
    OBVIOUS
  <2>2. QED
    BY <2>1
<1>2. PICK w \in Int, b \in 0..255 : k = w * 256 + b
  <2>1. k \div 256 \in Int /\ k % 256 \in 0..255 /\ k = (k \div 256) * 256 + (k % 256)
    OBVIOUS
  <2>2. QED
    BY <2>1
<1>3. QED
  BY <1>1, <1>2 DEF HasPlace, TickAt

LEMMA TickOrder ==
  ASSUME NEW s \in Nat \ {0}, NEW w \in Int, NEW b \in 0..255, NEW v \in Int, NEW c \in 0..255,
         IsBefore(w, b, v, c)
  PROVE  /\ TickAt(w, b, s) \in Int /\ TickAt(v, c, s) \in Int
         /\ TickAt(w, b, s) + s <= TickAt(v, c, s)
<1>1. PICK j \in Int, k \in Int : j = w * 256 + b /\ k = v * 256 + c
  OBVIOUS
<1>2. TickAt(w, b, s) = j * s /\ TickAt(v, c, s) = k * s /\ j * s \in Int /\ k * s \in Int
  BY <1>1 DEF TickAt
<1>3. j * s < k * s => j < k /\ j * s + s <= k * s
  BY Multiples
<1>4. j < k => j * s < k * s
  <2>1. SUFFICES ASSUME j < k PROVE j * s < k * s
    OBVIOUS
  <2>2. PICK d \in Nat : k = j + 1 + d
    <3>1. k - j - 1 \in Nat
      BY <2>1
    <3>2. QED
      BY <3>1
  <2>3. k * s = j * s + s + d * s /\ d * s \in Nat /\ j * s \in Int
    BY <2>2
  <2>4. QED
    BY <2>3
<1>5. j < k
  BY <1>1 DEF IsBefore
<1>6. QED
  BY <1>2, <1>3, <1>4, <1>5

(* The words of the ends of a range are not inside it.                     *)
LEMMA WordsOfRange ==
  ASSUME pool.spacing \in Nat \ {0}, NEW a \in Int, NEW w \in Int, NEW b \in 0..255
  PROVE  /\ Scan!WordOf(a) \in Int
         /\ a <= TickAt(w, b, pool.spacing) => Scan!WordOf(a) <= w
         /\ TickAt(w, b, pool.spacing) <= a => w <= Scan!WordOf(a)
<1>1. PICK k \in Int : k = w * 256 + b
  OBVIOUS
<1>2. PICK q : q = Scan!Quotient(a, pool.spacing)
  OBVIOUS
<1>3. q \in Int /\ (a <= k * pool.spacing => q <= k) /\ (k * pool.spacing <= a => k <= q)
  BY <1>2, QuotientBetween
<1>4. Scan!WordOf(a) = q \div 256
  BY <1>2 DEF Scan!WordOf
<1>5. (q <= k => q \div 256 <= w) /\ (k <= q => w <= q \div 256) /\ q \div 256 \in Int
  BY <1>1, <1>3
<1>6. TickAt(w, b, pool.spacing) = k * pool.spacing
  BY <1>1 DEF TickAt
<1>7. QED
  BY <1>3, <1>4, <1>5, <1>6

-----------------------------------------------------------------------------
(* The lowest bit.                                                         *)
LEMMA LowestBit ==
  ASSUME NEW bits \in SUBSET (0..255), bits # {}
  PROVE  /\ Scan!LeastSignificantBit(bits) \in bits
         /\ \A b \in bits : Scan!LeastSignificantBit(bits) <= b
<1> DEFINE halves == <<128, 64, 32, 16, 8, 4, 2, 1>>
           low == Scan!Min(bits)
           Value(f, i) == IF i = 0 THEN low
                          ELSE IF f[i - 1] >= halves[i] THEN f[i - 1] - halves[i] ELSE f[i - 1]
<1>1. low \in bits /\ \A b \in bits : low <= b
  <2>1. bits \in SUBSET Nat
    OBVIOUS
  <2>2. \E n \in bits : \A m \in bits : n <= m
    BY <2>1, Least
  <2>3. QED
    BY <2>2 DEF Scan!Min
<1>2. low \in 0..255
  BY <1>1
<1> HIDE DEF low
<1>3. \E f : f = [i \in 0..8 |-> Value(f, i)]
  <2>1. PICK a0 \in Nat : a0 = low
    BY <1>2
  <2>11. PICK a1 \in Nat : a1 = (IF a0 >= 128 THEN a0 - 128 ELSE a0)
    OBVIOUS
  <2>12. PICK a2 \in Nat : a2 = (IF a1 >= 64 THEN a1 - 64 ELSE a1)
    OBVIOUS
  <2>13. PICK a3 \in Nat : a3 = (IF a2 >= 32 THEN a2 - 32 ELSE a2)
    OBVIOUS
  <2>14. PICK a4 \in Nat : a4 = (IF a3 >= 16 THEN a3 - 16 ELSE a3)
    OBVIOUS
  <2>15. PICK a5 \in Nat : a5 = (IF a4 >= 8 THEN a4 - 8 ELSE a4)
    OBVIOUS
  <2>16. PICK a6 \in Nat : a6 = (IF a5 >= 4 THEN a5 - 4 ELSE a5)
    OBVIOUS
  <2>17. PICK a7 \in Nat : a7 = (IF a6 >= 2 THEN a6 - 2 ELSE a6)
    OBVIOUS
  <2>18. PICK a8 \in Nat : a8 = (IF a7 >= 1 THEN a7 - 1 ELSE a7)
    OBVIOUS
  <2>2. PICK f : f = [i \in 0..8 |-> CASE i = 0 -> a0 [] i = 1 -> a1 [] i = 2 -> a2
                                      [] i = 3 -> a3 [] i = 4 -> a4 [] i = 5 -> a5
                                      [] i = 6 -> a6 [] i = 7 -> a7 [] OTHER -> a8]
    OBVIOUS
  <2>3. /\ f[0] = a0 /\ f[1] = a1 /\ f[2] = a2 /\ f[3] = a3 /\ f[4] = a4
        /\ f[5] = a5 /\ f[6] = a6 /\ f[7] = a7 /\ f[8] = a8
    BY <2>2
  <2>4. ASSUME NEW i \in 0..8 PROVE f[i] = Value(f, i)
    <3>1. /\ Value(f, 0) = a0 /\ Value(f, 1) = a1 /\ Value(f, 2) = a2 /\ Value(f, 3) = a3
          /\ Value(f, 4) = a4 /\ Value(f, 5) = a5 /\ Value(f, 6) = a6 /\ Value(f, 7) = a7
          /\ Value(f, 8) = a8
      <4>1. Value(f, 0) = a0
        BY <2>1
      <4>2. Value(f, 1) = a1
        <5>1. 1 - 1 = 0 /\ halves[1] = 128
          OBVIOUS
        <5>2. f[1 - 1] = a0
          BY <2>3, <5>1
        <5>3. QED
          BY <2>11, <5>1, <5>2
      <4>3. Value(f, 2) = a2
        <5>1. 2 - 1 = 1 /\ halves[2] = 64
          OBVIOUS
        <5>2. f[2 - 1] = a1
          BY <2>3, <5>1
        <5>3. QED
          BY <2>12, <5>1, <5>2
      <4>4. Value(f, 3) = a3
        <5>1. 3 - 1 = 2 /\ halves[3] = 32
          OBVIOUS
        <5>2. f[3 - 1] = a2
          BY <2>3, <5>1
        <5>3. QED
          BY <2>13, <5>1, <5>2
      <4>5. Value(f, 4) = a4
        <5>1. 4 - 1 = 3 /\ halves[4] = 16
          OBVIOUS
        <5>2. f[4 - 1] = a3
          BY <2>3, <5>1
        <5>3. QED
          BY <2>14, <5>1, <5>2
      <4>6. Value(f, 5) = a5
        <5>1. 5 - 1 = 4 /\ halves[5] = 8
          OBVIOUS
        <5>2. f[5 - 1] = a4
          BY <2>3, <5>1
        <5>3. QED
          BY <2>15, <5>1, <5>2
      <4>7. Value(f, 6) = a6
        <5>1. 6 - 1 = 5 /\ halves[6] = 4
          OBVIOUS
        <5>2. f[6 - 1] = a5
          BY <2>3, <5>1
        <5>3. QED
          BY <2>16, <5>1, <5>2
      <4>8. Value(f, 7) = a7
        <5>1. 7 - 1 = 6 /\ halves[7] = 2
          OBVIOUS
        <5>2. f[7 - 1] = a6
          BY <2>3, <5>1
        <5>3. QED
          BY <2>17, <5>1, <5>2
      <4>9. Value(f, 8) = a8
        <5>1. 8 - 1 = 7 /\ halves[8] = 1
          OBVIOUS
        <5>2. f[8 - 1] = a7
          BY <2>3, <5>1
        <5>3. QED
          BY <2>18, <5>1, <5>2
      <4>10. QED
        BY <4>1, <4>2, <4>3, <4>4, <4>5, <4>6, <4>7, <4>8, <4>9
    <3> HIDE DEF Value
    <3>4. \/ i = 0 \/ i = 1 \/ i = 2 \/ i = 3 \/ i = 4 \/ i = 5 \/ i = 6 \/ i = 7 \/ i = 8
      OBVIOUS
    <3>5. QED
      BY <2>3, <3>1, <3>4
  <2>5. QED
    BY <2>2, <2>4
<1> DEFINE left == CHOOSE f : f = [i \in 0..8 |-> Value(f, i)]
<1>4. left = [i \in 0..8 |-> Value(left, i)]
  BY <1>3
<1> HIDE DEF left
<1>5. left[8] = 0
  <2>1. left[0] \in 0..255
    BY <1>2, <1>4
  <2>2. left[1] \in 0..127
    BY <1>4, <2>1
  <2>3. left[2] \in 0..63
    BY <1>4, <2>2
  <2>4. left[3] \in 0..31
    BY <1>4, <2>3
  <2>5. left[4] \in 0..15
    BY <1>4, <2>4
  <2>6. left[5] \in 0..7
    BY <1>4, <2>5
  <2>7. left[6] \in 0..3
    BY <1>4, <2>6
  <2>8. left[7] \in 0..1
    BY <1>4, <2>7
  <2>9. QED
    BY <1>4, <2>8
<1>6. Scan!LeastSignificantBit(bits) = low - left[8]
  BY DEF Scan!LeastSignificantBit, Scan!Halves, left, low, Value
<1>7. Scan!LeastSignificantBit(bits) = low
  BY <1>2, <1>5, <1>6
<1>8. QED
  BY <1>1, <1>7

-----------------------------------------------------------------------------
(* The scan.                                                               *)

Spacing == pool.spacing

InRangeTicks == {t \in pool.initialized : t >= Scan!FromTick /\ t <= Scan!ToTick}

(* The ticks of the words before this one, and the bits taken of this one. *)
Passed ==
  {t \in pool.initialized :
     \E w \in Int, b \in 0..255 :
       /\ t = TickAt(w, b, Spacing)
       /\ w < pos \/ (scanPc = "bits" /\ w = pos /\ b \notin bm)}

(* Bits are taken from the lowest up. *)
BitsInv ==
  /\ bm \subseteq Scan!TickBitmap(pos)
  /\ \A b \in Scan!TickBitmap(pos) \ bm, c \in bm : b < c

(* The array is ascending, and its i-th tick so many spacings in. *)
ArrayInv ==
  /\ initTicks \in Seq(pool.initialized)
  /\ \A i, j \in 1..Len(initTicks) : i < j => initTicks[i] < initTicks[j]
  /\ \A i \in 1..Len(initTicks) : initTicks[i] >= Scan!FromTick + (i - 1) * Spacing

Listed == {initTicks[i] : i \in DOMAIN initTicks}

ScanInv ==
  /\ pool \in PoolStates /\ range \in Ranges[pool.spacing]
  /\ scanPc \in {"idle", "word", "bits", "returned", "reverted"}
  /\ scanPc = "idle" => initTicks = <<>>
  /\ scanPc \in {"word", "bits"} =>
       /\ Scan!RangeFits /\ Scan!Size > 0
       /\ pos \in Int /\ ArrayInv
       /\ Listed = InRangeTicks \cap Passed
  /\ scanPc = "bits" => BitsInv
  /\ ScanExact

LEMMA ScanFacts ==
  ASSUME pool \in PoolStates, range \in Ranges[pool.spacing]
  PROVE  /\ Spacing \in Nat \ {0} /\ range \in Int /\ pool.tick \in Int
         /\ MinTick \in Int /\ MaxTick \in Int /\ pool.tick \in MinTick..MaxTick
         /\ Scan!Reach \in Int /\ Scan!FromTick \in Int /\ Scan!ToTick \in Int
         /\ range >= 0 => Scan!FromTick <= Scan!ToTick
         /\ \A t \in pool.initialized :
              t \in Int /\ t \in MinTick..MaxTick
              /\ \E w \in Int, b \in 0..255 : t = TickAt(w, b, Spacing)
<1>1. /\ Spacing \in Nat \ {0} /\ range \in Int24 /\ pool.tick \in MinTick..MaxTick
      /\ MinTick \in Int24 /\ MaxTick \in Int24
      /\ \A t \in pool.initialized : t \in MinTick..MaxTick /\ t % pool.spacing = 0
  <2>1. /\ pool.spacing \in DOMAIN Ranges /\ pool.spacing \in Nat /\ 0 < pool.spacing
        /\ pool.tick \in MinTick..MaxTick
        /\ \A t \in pool.initialized : t \in MinTick..MaxTick /\ t % pool.spacing = 0
    BY TickAssumption
  <2>2. pool.spacing \in Nat \ {0}
    BY <2>1
  <2>3. \A s \in DOMAIN Ranges : Ranges[s] \subseteq Int24
    BY TickAssumption
  <2>4. range \in Int24
    BY <2>1, <2>3
  <2>5. MinTick \in Int24 /\ MaxTick \in Int24
    BY TickAssumption
  <2>6. QED
    BY <2>1, <2>2, <2>4, <2>5 DEF Spacing
<1>2. range \in Int /\ MinTick \in Int /\ MaxTick \in Int /\ pool.tick \in Int
  BY <1>1 DEF Int24
<1>3. PICK r \in Int : r = Scan!Reach
  BY <1>1, <1>2 DEF Scan!Reach, Spacing
<1>4. Scan!FromTick \in Int /\ Scan!ToTick \in Int
  BY <1>2, <1>3 DEF Scan!FromTick, Scan!ToTick
<1>5. ASSUME range >= 0 PROVE Scan!FromTick <= Scan!ToTick
  <2>1. range * Spacing \in Nat
    BY <1>1, <1>2, <1>5
  <2>2. r >= 0
    BY <1>3, <2>1 DEF Scan!Reach, Spacing
  <2>3. QED
    BY <1>1, <1>2, <1>3, <2>2 DEF Scan!FromTick, Scan!ToTick
<1>6. ASSUME NEW t \in pool.initialized
      PROVE  /\ t \in Int /\ t \in MinTick..MaxTick
             /\ \E w \in Int, b \in 0..255 : t = TickAt(w, b, Spacing)
  <2>1. t \in Int /\ t \in MinTick..MaxTick /\ t % Spacing = 0
    BY <1>1, <1>2 DEF Spacing
  <2>2. PICK s \in Nat \ {0} : s = Spacing
    BY <1>1
  <2>3. PICK u \in Int : u = t /\ u % s = 0
    BY <2>1, <2>2
  <2>4. HasPlace(u, s)
    BY <2>3, TickPlace
  <2>5. QED
    BY <2>1, <2>2, <2>3, <2>4 DEF HasPlace
<1>7. QED
  BY <1>1, <1>2, <1>3, <1>4, <1>5, <1>6

(* The range clipped to the ticks there can be has the same ticks.         *)
LEMMA NearIsInRange ==
  ASSUME pool \in PoolStates, range \in Ranges[pool.spacing]
  PROVE  Scan!Near = InRangeTicks
<1>1. PICK r \in Int : r = Scan!Reach
  BY ScanFacts
<1>2. ASSUME NEW t \in pool.initialized
      PROVE  (t >= pool.tick - r /\ t <= pool.tick + r)
               <=> (t >= Scan!FromTick /\ t <= Scan!ToTick)
  <2>1. t \in Int /\ t >= MinTick /\ t <= MaxTick /\ MinTick \in Int /\ MaxTick \in Int
        /\ pool.tick \in Int
    BY ScanFacts
  <2>2. Scan!FromTick = (IF pool.tick - r < MinTick THEN MinTick ELSE pool.tick - r)
    BY <1>1 DEF Scan!FromTick
  <2>3. Scan!ToTick = (IF pool.tick + r > MaxTick THEN MaxTick ELSE pool.tick + r)
    BY <1>1 DEF Scan!ToTick
  <2>4. QED
    BY <2>1, <2>2, <2>3
<1>3. QED
  BY <1>1, <1>2 DEF Scan!Near, InRangeTicks

(* A range that can be computed has an array, unless it is negative.       *)
LEMMA SizeEnough ==
  ASSUME pool \in PoolStates, range \in Ranges[pool.spacing], range >= 0
  PROVE  /\ Scan!Size \in Int /\ Scan!Size > 0
         /\ Scan!Size * Spacing > Scan!ToTick - Scan!FromTick
<1>1. PICK n \in Nat, s \in Nat \ {0} : n = Scan!ToTick - Scan!FromTick + 1 /\ s = Spacing /\ n > 0
  <2>1. Scan!FromTick \in Int /\ Scan!ToTick \in Int /\ Scan!FromTick <= Scan!ToTick
    BY ScanFacts
  <2>2. Scan!ToTick - Scan!FromTick + 1 \in Nat /\ Scan!ToTick - Scan!FromTick + 1 > 0
    BY <2>1
  <2>3. QED
    BY <2>2, ScanFacts
<1>2. PICK q \in Nat : q = n \div s /\ n < q * s + s
  <2>1. n \div s \in Nat /\ n < (n \div s) * s + s
    OBVIOUS
  <2>2. QED
    BY <2>1
<1>3. Scan!Size = q + 1
  BY <1>1, <1>2 DEF Scan!Size, Scan!Quotient, Spacing
<1>4. (q + 1) * s = q * s + s /\ q * s \in Nat
  OBVIOUS
<1>5. (q + 1) * s > n
  BY <1>2, <1>4
<1>6. Scan!ToTick - Scan!FromTick = n - 1
  <2>1. Scan!FromTick \in Int /\ Scan!ToTick \in Int
    BY ScanFacts
  <2>2. QED
    BY <1>1, <2>1
<1>7. QED
  BY <1>1, <1>3, <1>4, <1>5, <1>6

(* What stays the same while the pool and the range do. *)
LEMMA SamePool ==
  ASSUME pool' = pool, range' = range
  PROVE  /\ Spacing' = Spacing /\ Scan!FromTick' = Scan!FromTick /\ Scan!ToTick' = Scan!ToTick
         /\ Scan!RangeFits' = Scan!RangeFits /\ Scan!Size' = Scan!Size
         /\ InRangeTicks' = InRangeTicks /\ Scan!Near' = Scan!Near
<1>1. Scan!Reach' = Scan!Reach
  BY DEF Scan!Reach
<1>2. Scan!FromTick' = Scan!FromTick /\ Scan!ToTick' = Scan!ToTick
  BY <1>1 DEF Scan!FromTick, Scan!ToTick
<1>3. Scan!RangeFits' = Scan!RangeFits
  BY <1>1 DEF Scan!RangeFits
<1>4. Scan!Size' = Scan!Size
  BY <1>2 DEF Scan!Size
<1>5. InRangeTicks' = InRangeTicks
  BY <1>2 DEF InRangeTicks
<1>6. Scan!Near' = Scan!Near
  BY <1>1 DEF Scan!Near
<1>7. QED
  BY <1>2, <1>3, <1>4, <1>5, <1>6 DEF Spacing

(* Every initialised tick has a bit, and only they do. *)
LEMMA BitsOfTicks ==
  ASSUME NEW w \in Int, NEW b \in 0..255
  PROVE  b \in Scan!TickBitmap(w) <=> TickAt(w, b, Spacing) \in pool.initialized
BY DEF Scan!TickBitmap, TickAt, Spacing

LEMMA ScanBegins ==
  ASSUME ScanInv, Scan!Call
  PROVE  ScanInv'
<1>1. /\ pool' = pool /\ range' = range /\ scanPc = "idle" /\ scanPc' = "word"
      /\ pos' = Scan!WordOf(Scan!FromTick) /\ initTicks' = initTicks
      /\ Scan!RangeFits /\ Scan!Size > 0
  BY DEF Scan!Call
<1>2. pool \in PoolStates /\ range \in Ranges[pool.spacing] /\ initTicks = <<>>
  BY <1>1 DEF ScanInv
<1>3. Scan!WordOf(Scan!FromTick) \in Int
  BY <1>2, ScanFacts, WordsOfRange DEF Spacing
<1>4. ArrayInv'
  <2>1. initTicks' = <<>> /\ Len(initTicks') = 0
    BY <1>1, <1>2
  <2>2. QED
    BY <2>1 DEF ArrayInv
<1>5. Listed' = {}
  BY <1>1, <1>2 DEF Listed
<1>6. ASSUME NEW t \in InRangeTicks', t \in Passed' PROVE FALSE
  <2>1. PICK w \in Int, b \in 0..255 : t = TickAt(w, b, Spacing) /\ w < pos'
    BY <1>1, <1>6, SamePool DEF Passed
  <2>2. t >= Scan!FromTick
    BY <1>1, <1>6, SamePool DEF InRangeTicks
  <2>3. pos' <= w
    BY <1>1, <1>2, <2>1, <2>2, ScanFacts, WordsOfRange DEF Spacing
  <2>4. QED
    BY <1>1, <1>3, <2>1, <2>3
<1>7. (Listed = InRangeTicks \cap Passed)'
  BY <1>5, <1>6
<1>8. ScanExact'
  BY <1>1 DEF ScanExact, Scan!ScanExact
<1>9. Scan!RangeFits' /\ Scan!Size' > 0
  BY <1>1, SamePool
<1>10. QED
  BY <1>1, <1>2, <1>3, <1>4, <1>7, <1>8, <1>9 DEF ScanInv

LEMMA ScanRefused ==
  ASSUME ScanInv, Scan!CallReverts
  PROVE  ScanInv'
<1>1. /\ pool' = pool /\ range' = range /\ scanPc' = "reverted"
      /\ ~(Scan!RangeFits /\ Scan!Size > 0)
  BY DEF Scan!CallReverts
<1>2. pool \in PoolStates /\ range \in Ranges[pool.spacing]
  BY DEF ScanInv
<1>3. range < 0 \/ ~Scan!RangeFits
  BY <1>1, <1>2, ScanFacts, SizeEnough
<1>4. ScanExact'
  BY <1>1, <1>3, SamePool DEF ScanExact, Scan!ScanExact
<1>5. QED
  BY <1>1, <1>2, <1>4 DEF ScanInv

LEMMA WordIsRead ==
  ASSUME ScanInv, Scan!ReadWord
  PROVE  ScanInv'
<1>1. /\ pool' = pool /\ range' = range /\ scanPc = "word" /\ scanPc' = "bits"
      /\ pos' = pos /\ initTicks' = initTicks /\ bm' = Scan!TickBitmap(pos)
  BY DEF Scan!ReadWord
<1>2. /\ pool \in PoolStates /\ range \in Ranges[pool.spacing] /\ pos \in Int
      /\ Scan!RangeFits /\ Scan!Size > 0 /\ ArrayInv /\ Listed = InRangeTicks \cap Passed
  BY <1>1 DEF ScanInv
<1>3. ArrayInv' /\ Listed' = Listed
  BY <1>1, <1>2, SamePool DEF ArrayInv, Listed
<1>4. Scan!TickBitmap(pos)' = Scan!TickBitmap(pos)
  BY <1>1 DEF Scan!TickBitmap
<1>5. BitsInv'
  BY <1>1, <1>4 DEF BitsInv
<1>6. ASSUME NEW t \in pool.initialized, NEW w \in Int, NEW b \in 0..255,
             t = TickAt(w, b, Spacing), w = pos
      PROVE  b \in bm'
  BY <1>1, <1>6, BitsOfTicks
<1>7. Passed' = Passed
  <2>1. Passed' = {t \in pool.initialized :
                     \E w \in Int, b \in 0..255 :
                       /\ t = TickAt(w, b, Spacing)
                       /\ w < pos \/ (w = pos /\ b \notin bm')}
    BY <1>1, SamePool DEF Passed
  <2>2. Passed = {t \in pool.initialized :
                     \E w \in Int, b \in 0..255 : t = TickAt(w, b, Spacing) /\ w < pos}
    BY <1>1 DEF Passed
  <2>3. QED
    BY <1>6, <2>1, <2>2
<1>8. (Listed = InRangeTicks \cap Passed)'
  BY <1>1, <1>2, <1>3, <1>7, SamePool
<1>9. ScanExact'
  BY <1>1 DEF ScanExact, Scan!ScanExact
<1>10. QED
  BY <1>1, <1>2, <1>3, <1>5, <1>8, <1>9, SamePool DEF ScanInv

LEMMA WordIsDone ==
  ASSUME ScanInv, Scan!NextWord
  PROVE  ScanInv'
<1>1. /\ pool' = pool /\ range' = range /\ scanPc = "bits" /\ scanPc' = "word"
      /\ pos' = pos + 1 /\ initTicks' = initTicks /\ bm = {}
  BY DEF Scan!NextWord
<1>2. /\ pool \in PoolStates /\ range \in Ranges[pool.spacing] /\ pos \in Int
      /\ Scan!RangeFits /\ Scan!Size > 0 /\ ArrayInv /\ Listed = InRangeTicks \cap Passed
  BY <1>1 DEF ScanInv
<1>3. ArrayInv' /\ Listed' = Listed
  BY <1>1, <1>2, SamePool DEF ArrayInv, Listed
<1>4. Passed' = Passed
  <2>1. Passed' = {t \in pool.initialized :
                     \E w \in Int, b \in 0..255 : t = TickAt(w, b, Spacing) /\ w < pos + 1}
    BY <1>1, SamePool DEF Passed
  <2>2. Passed = {t \in pool.initialized :
                     \E w \in Int, b \in 0..255 : t = TickAt(w, b, Spacing) /\ (w < pos \/ w = pos)}
    BY <1>1 DEF Passed
  <2>3. \A w \in Int : w < pos + 1 <=> (w < pos \/ w = pos)
    BY <1>2
  <2>4. QED
    BY <2>1, <2>2, <2>3
<1>5. (Listed = InRangeTicks \cap Passed)'
  BY <1>1, <1>2, <1>3, <1>4, SamePool
<1>6. ScanExact'
  BY <1>1 DEF ScanExact, Scan!ScanExact
<1>7. pos' \in Int
  BY <1>1, <1>2
<1>8. QED
  BY <1>1, <1>2, <1>3, <1>5, <1>6, <1>7, SamePool DEF ScanInv

LEMMA ScanReturns ==
  ASSUME ScanInv, Scan!Return
  PROVE  ScanInv'
<1>1. /\ pool' = pool /\ range' = range /\ scanPc = "word" /\ scanPc' = "returned"
      /\ initTicks' = initTicks /\ pos > Scan!WordOf(Scan!ToTick)
  BY DEF Scan!Return
<1>2. /\ pool \in PoolStates /\ range \in Ranges[pool.spacing] /\ pos \in Int
      /\ ArrayInv /\ Listed = InRangeTicks \cap Passed
  BY <1>1 DEF ScanInv
<1>3. ASSUME NEW t \in InRangeTicks PROVE t \in Passed
  <2>1. t \in pool.initialized /\ t <= Scan!ToTick
    BY DEF InRangeTicks
  <2>2. PICK w \in Int, b \in 0..255 : t = TickAt(w, b, Spacing)
    BY <1>2, <2>1, ScanFacts
  <2>3. w <= Scan!WordOf(Scan!ToTick) /\ Scan!WordOf(Scan!ToTick) \in Int
    BY <1>2, <2>1, <2>2, ScanFacts, WordsOfRange DEF Spacing
  <2>4. w < pos
    BY <1>1, <1>2, <2>3
  <2>5. QED
    BY <2>1, <2>2, <2>4 DEF Passed
<1>4. Listed' = Scan!Near'
  BY <1>1, <1>2, <1>3, SamePool, NearIsInRange DEF Listed
<1>5. \A i \in 1..(Len(initTicks') - 1) : initTicks'[i] < initTicks'[i + 1]
  <2>1. Len(initTicks) \in Nat /\ \A i, j \in 1..Len(initTicks) : i < j => initTicks[i] < initTicks[j]
    BY <1>2 DEF ArrayInv
  <2>2. QED
    BY <1>1, <2>1
<1>6. ScanExact'
  BY <1>1, <1>4, <1>5 DEF ScanExact, Scan!ScanExact, Listed
<1>7. QED
  BY <1>1, <1>2, <1>6 DEF ScanInv

(* The bit that is taken next is a tick after all that are listed. *)
LEMMA TickIsTaken ==
  ASSUME pool \in PoolStates, range \in Ranges[pool.spacing], pos \in Int,
         scanPc = "bits", bm # {}, BitsInv, ArrayInv, Listed = InRangeTicks \cap Passed
  PROVE  /\ Scan!LeastSignificantBit(bm) \in bm /\ Scan!LeastSignificantBit(bm) \in 0..255
         /\ \A c \in bm : Scan!LeastSignificantBit(bm) <= c
         /\ Scan!ExtractedTick = TickAt(pos, Scan!LeastSignificantBit(bm), Spacing)
         /\ Scan!ExtractedTick \in pool.initialized /\ Scan!ExtractedTick \in Int
         /\ \A i \in 1..Len(initTicks) :
              initTicks[i] \in Int /\ initTicks[i] + Spacing <= Scan!ExtractedTick
         /\ Scan!InRange => Scan!ExtractedTick >= Scan!FromTick + Len(initTicks) * Spacing
<1>1. bm \in SUBSET (0..255)
  BY DEF BitsInv, Scan!TickBitmap
<1>2. PICK l \in 0..255 : l = Scan!LeastSignificantBit(bm) /\ l \in bm /\ \A c \in bm : l <= c
  <2>1. Scan!LeastSignificantBit(bm) \in bm /\ \A c \in bm : Scan!LeastSignificantBit(bm) <= c
    BY <1>1, LowestBit
  <2>2. QED
    BY <1>1, <2>1
<1>3. Scan!ExtractedTick = TickAt(pos, l, Spacing)
  BY <1>2 DEF Scan!ExtractedTick, TickAt, Spacing
<1>4. l \in Scan!TickBitmap(pos)
  BY <1>2 DEF BitsInv
<1>5. Scan!ExtractedTick \in pool.initialized
  BY <1>3, <1>4, BitsOfTicks
<1>6. Scan!ExtractedTick \in Int
  BY <1>5, ScanFacts
<1>7. Spacing \in Nat \ {0} /\ Scan!FromTick \in Int
  BY ScanFacts
<1>8. ASSUME NEW i \in 1..Len(initTicks)
      PROVE  initTicks[i] \in Int /\ initTicks[i] + Spacing <= Scan!ExtractedTick
  <2>1. PICK t \in pool.initialized : t = initTicks[i]
    BY DEF ArrayInv
  <2>2. t \in Passed
    <3>1. i \in DOMAIN initTicks
      BY DEF ArrayInv
    <3>2. QED
      BY <2>1, <3>1 DEF Listed
  <2>3. PICK w \in Int, b \in 0..255 :
          t = TickAt(w, b, Spacing) /\ (w < pos \/ (w = pos /\ b \notin bm))
    BY <2>2 DEF Passed
  <2>4. w < pos \/ (w = pos /\ b < l)
    <3>1. CASE w = pos /\ b \notin bm
      <4>1. b \in Scan!TickBitmap(pos) \ bm
        BY <2>1, <2>3, <3>1, BitsOfTicks
      <4>2. QED
        BY <1>2, <3>1, <4>1 DEF BitsInv
    <3>2. QED
      BY <2>3, <3>1
  <2>5. t \in Int /\ t + Spacing <= Scan!ExtractedTick
    <3>1. PICK u \in Int, s \in Nat \ {0}, v \in Int :
            s = Spacing /\ v = pos /\ u = Scan!ExtractedTick /\ u = TickAt(v, l, s)
      BY <1>3, <1>6, <1>7
    <3>2. IsBefore(w, b, v, l)
      BY <2>4, <3>1 DEF IsBefore
    <3>3. TickAt(w, b, s) \in Int /\ TickAt(w, b, s) + s <= TickAt(v, l, s)
      BY <3>2, TickOrder
    <3>4. t = TickAt(w, b, s)
      BY <2>3, <3>1
    <3>5. QED
      BY <3>1, <3>3, <3>4
  <2>6. QED
    BY <2>1, <2>5
<1>9. ASSUME Scan!InRange
      PROVE  Scan!ExtractedTick >= Scan!FromTick + Len(initTicks) * Spacing
  <2>1. PICK n \in Nat : n = Len(initTicks)
    BY DEF ArrayInv
  <2>2. CASE n = 0
    BY <1>7, <1>9, <2>1, <2>2 DEF Scan!InRange
  <2>3. CASE n > 0
    <3>1. n \in 1..Len(initTicks)
      BY <2>1, <2>3
    <3>2. PICK t \in Int : t = initTicks[n]
      BY <1>8, <3>1
    <3>3. t + Spacing <= Scan!ExtractedTick /\ t >= Scan!FromTick + (n - 1) * Spacing
      BY <1>8, <3>1, <3>2 DEF ArrayInv
    <3>4. (n - 1) * Spacing + Spacing = n * Spacing /\ (n - 1) * Spacing \in Int
      BY <1>7
    <3>5. QED
      BY <1>6, <1>7, <2>1, <3>3, <3>4
  <2>4. QED
    BY <2>1, <2>2, <2>3
<1>10. QED
  BY <1>2, <1>3, <1>5, <1>6, <1>8, <1>9

LEMMA BitIsTaken ==
  ASSUME ScanInv, Scan!TakeBit
  PROVE  ScanInv'
<1> DEFINE l == Scan!LeastSignificantBit(bm)
           tick == Scan!ExtractedTick
           n == Len(initTicks)
<1>1. /\ pool' = pool /\ range' = range /\ scanPc = "bits" /\ pos' = pos /\ bm # {}
      /\ bm' = bm \ {l}
      /\ initTicks' = IF Scan!InRange THEN Append(initTicks, tick) ELSE initTicks
      /\ scanPc' = IF Scan!Overrun THEN "reverted" ELSE scanPc
  BY DEF Scan!TakeBit
<1>2. /\ pool \in PoolStates /\ range \in Ranges[pool.spacing] /\ pos \in Int
      /\ Scan!RangeFits /\ Scan!Size > 0 /\ ArrayInv /\ Listed = InRangeTicks \cap Passed
      /\ BitsInv
  BY <1>1 DEF ScanInv
<1>3. /\ l \in bm /\ l \in 0..255 /\ \A c \in bm : l <= c
      /\ tick = TickAt(pos, l, Spacing) /\ tick \in pool.initialized /\ tick \in Int
      /\ \A i \in 1..n : initTicks[i] \in Int /\ initTicks[i] + Spacing <= tick
      /\ Scan!InRange => tick >= Scan!FromTick + n * Spacing
  BY <1>1, <1>2, TickIsTaken
<1>4. Spacing \in Nat \ {0} /\ Scan!FromTick \in Int /\ Scan!ToTick \in Int
  BY <1>2, ScanFacts
<1>5. n \in Nat
  BY <1>2 DEF ArrayInv
<1> HIDE DEF l, tick, n
<1>6. CASE Scan!Overrun
  <2>1. Scan!InRange /\ n >= Scan!Size /\ scanPc' = "reverted"
    BY <1>1, <1>6 DEF Scan!Overrun, n
  <2>2. range < 0
    <3>1. SUFFICES ASSUME ~(range < 0) PROVE FALSE
      OBVIOUS
    <3>2. range >= 0
      BY <1>2, <3>1, ScanFacts
    <3>3. PICK m \in Nat : m = Scan!Size /\ m * Spacing > Scan!ToTick - Scan!FromTick
      <4>1. Scan!Size \in Nat
        BY <1>2, <3>2, SizeEnough
      <4>2. QED
        BY <1>2, <3>2, <4>1, SizeEnough
    <3>4. PICK d \in Nat : n = m + d
      <4>1. n - m \in Nat
        BY <1>5, <2>1, <3>3
      <4>2. QED
        BY <1>5, <3>3, <4>1
    <3>5. n * Spacing = m * Spacing + d * Spacing /\ d * Spacing \in Nat /\ m * Spacing \in Nat
      BY <1>4, <3>3, <3>4
    <3>6. tick <= Scan!ToTick /\ tick >= Scan!FromTick + n * Spacing
      BY <1>3, <2>1 DEF Scan!InRange, tick
    <3>7. QED
      BY <1>3, <1>4, <3>3, <3>5, <3>6
  <2>3. ScanExact'
    BY <1>1, <2>1, <2>2 DEF ScanExact, Scan!ScanExact
  <2>4. QED
    BY <1>1, <1>2, <2>1, <2>3 DEF ScanInv
<1>7. CASE ~Scan!Overrun
  <2>1. scanPc' = "bits"
    BY <1>1, <1>7
  <2>2. Scan!TickBitmap(pos)' = Scan!TickBitmap(pos)
    BY <1>1 DEF Scan!TickBitmap
  <2>3. BitsInv'
    <3>1. bm' \subseteq Scan!TickBitmap(pos) /\ bm \in SUBSET (0..255)
      BY <1>1, <1>2 DEF BitsInv, Scan!TickBitmap
    <3>2. ASSUME NEW b \in Scan!TickBitmap(pos) \ bm', NEW c \in bm' PROVE b < c
      <4>1. c \in bm /\ c # l /\ c \in 0..255
        BY <1>1, <3>1
      <4>2. CASE b \notin bm
        BY <1>2, <3>2, <4>1, <4>2 DEF BitsInv
      <4>3. CASE b \in bm
        <5>1. b = l
          BY <1>1, <3>2, <4>3
        <5>2. l <= c
          BY <1>3, <4>1
        <5>3. QED
          BY <1>3, <4>1, <5>1, <5>2
      <4>4. QED
        BY <4>2, <4>3
    <3>3. QED
      BY <2>2, <3>1, <3>2 DEF BitsInv
  <2>4. Passed' = Passed \cup {tick}
    <3>1. Passed' = {t \in pool.initialized :
                       \E w \in Int, b \in 0..255 :
                         /\ t = TickAt(w, b, Spacing)
                         /\ w < pos \/ (w = pos /\ (b \notin bm \/ b = l))}
      BY <1>1, <2>1, SamePool DEF Passed
    <3>2. Passed = {t \in pool.initialized :
                       \E w \in Int, b \in 0..255 :
                         /\ t = TickAt(w, b, Spacing)
                         /\ w < pos \/ (w = pos /\ b \notin bm)}
      BY <1>1 DEF Passed
    <3>3. ASSUME NEW t \in Passed' PROVE t \in Passed \cup {tick}
      BY <1>3, <3>1, <3>2, <3>3
    <3>4. ASSUME NEW t \in Passed PROVE t \in Passed'
      BY <3>1, <3>2, <3>4
    <3>5. tick \in Passed'
      BY <1>2, <1>3, <3>1
    <3>6. QED
      BY <3>3, <3>4, <3>5
  <2>5. ASSUME Scan!InRange PROVE ArrayInv' /\ (Listed = InRangeTicks \cap Passed)'
    <3>1. initTicks' = Append(initTicks, tick) /\ initTicks \in Seq(pool.initialized)
      BY <1>1, <1>2, <2>5 DEF ArrayInv
    <3>2. /\ initTicks' \in Seq(pool.initialized) /\ Len(initTicks') = n + 1
          /\ \A i \in 1..n : initTicks'[i] = initTicks[i]
          /\ initTicks'[n + 1] = tick /\ DOMAIN initTicks' = 1..(n + 1) /\ DOMAIN initTicks = 1..n
      BY <1>3, <3>1 DEF n
    <3>3. ASSUME NEW i \in 1..(n + 1), NEW j \in 1..(n + 1), i < j
          PROVE  initTicks'[i] < initTicks'[j]
      <4>1. i \in 1..n
        BY <1>5, <3>3
      <4>2. CASE j \in 1..n
        <5>1. initTicks[i] < initTicks[j]
          BY <1>2, <3>3, <4>1, <4>2 DEF ArrayInv, n
        <5>2. QED
          BY <3>2, <4>1, <4>2, <5>1
      <4>3. CASE j = n + 1
        <5>1. PICK t \in Int : t = initTicks[i] /\ t + Spacing <= tick
          BY <1>3, <4>1
        <5>2. t < tick
          BY <1>3, <1>4, <5>1
        <5>3. QED
          BY <3>2, <4>1, <4>3, <5>1, <5>2
      <4>4. QED
        BY <1>5, <4>2, <4>3
    <3>4. ASSUME NEW i \in 1..(n + 1)
          PROVE  initTicks'[i] >= Scan!FromTick + (i - 1) * Spacing
      <4>1. CASE i \in 1..n
        BY <1>2, <3>2, <4>1 DEF ArrayInv, n
      <4>2. CASE i = n + 1
        <5>1. i - 1 = n
          BY <1>5, <4>2
        <5>2. QED
          BY <1>3, <2>5, <3>2, <4>2, <5>1
      <4>3. QED
        BY <1>5, <4>1, <4>2
    <3>5. ArrayInv'
      BY <1>1, <3>2, <3>3, <3>4, SamePool DEF ArrayInv
    <3>6. Listed' = Listed \cup {tick}
      <4>1. Listed' = {initTicks'[i] : i \in 1..(n + 1)} /\ Listed = {initTicks[i] : i \in 1..n}
        BY <3>2 DEF Listed
      <4>2. \A i : i \in 1..(n + 1) <=> i \in 1..n \/ i = n + 1
        BY <1>5
      <4>3. QED
        BY <3>2, <4>1, <4>2
    <3>7. tick \in InRangeTicks
      BY <1>3, <2>5 DEF InRangeTicks, Scan!InRange, tick
    <3>8. (Listed = InRangeTicks \cap Passed)'
      BY <1>1, <1>2, <2>4, <3>6, <3>7, SamePool
    <3>9. QED
      BY <3>5, <3>8
  <2>6. ASSUME ~Scan!InRange PROVE ArrayInv' /\ (Listed = InRangeTicks \cap Passed)'
    <3>1. initTicks' = initTicks
      BY <1>1, <2>6
    <3>2. ArrayInv' /\ Listed' = Listed
      BY <1>1, <1>2, <3>1, SamePool DEF ArrayInv, Listed
    <3>3. tick \notin InRangeTicks
      BY <2>6 DEF InRangeTicks, Scan!InRange, tick
    <3>4. (Listed = InRangeTicks \cap Passed)'
      BY <1>1, <1>2, <2>4, <3>2, <3>3, SamePool
    <3>5. QED
      BY <3>2, <3>4
  <2>7. ArrayInv' /\ (Listed = InRangeTicks \cap Passed)'
    BY <2>5, <2>6
  <2>8. ScanExact'
    BY <2>1 DEF ScanExact, Scan!ScanExact
  <2>9. QED
    BY <1>1, <1>2, <2>1, <2>3, <2>7, <2>8, SamePool DEF ScanInv
<1>8. QED
  BY <1>6, <1>7

(* The scan stays as it is while the path is consumed. *)
LEMMA ScanWaits ==
  ASSUME ScanInv, UNCHANGED scanVars
  PROVE  ScanInv'
<1>1. /\ pool' = pool /\ range' = range /\ scanPc' = scanPc /\ pos' = pos /\ bm' = bm
      /\ initTicks' = initTicks
  BY DEF scanVars
<1>2. ArrayInv' = ArrayInv /\ Listed' = Listed
  BY <1>1, SamePool DEF ArrayInv, Listed
<1>3. Passed' = Passed
  BY <1>1, SamePool DEF Passed
<1>4. BitsInv' = BitsInv
  BY <1>1 DEF BitsInv, Scan!TickBitmap
<1>5. ScanExact' = ScanExact
  BY <1>1, SamePool DEF ScanExact, Scan!ScanExact
<1>6. QED
  BY <1>1, <1>2, <1>3, <1>4, <1>5, SamePool DEF ScanInv

(* Whatever the pool and the range, the ticks that are returned are the    *)
(* initialised ones in range, in order, each once.                         *)
THEOREM ScanExactCorrect == CallSpec => []ScanExact
<1>1. CallInit => ScanInv
  <2>1. SUFFICES ASSUME CallInit PROVE ScanInv
    OBVIOUS
  <2>2. pool \in PoolStates /\ range \in Ranges[pool.spacing] /\ scanPc = "idle" /\ initTicks = <<>>
    BY <2>1 DEF CallInit, Scan!Init
  <2>3. QED
    BY <2>2 DEF ScanInv, ScanExact, Scan!ScanExact
<1>2. ScanInv /\ [CallNext]_<<called, scanVars, pathVars>> => ScanInv'
  <2>1. SUFFICES ASSUME ScanInv, [CallNext]_<<called, scanVars, pathVars>> PROVE ScanInv'
    OBVIOUS
  <2>2. Scan!Next \/ UNCHANGED scanVars
    BY <2>1 DEF CallNext
  <2>3. QED
    BY <2>1, <2>2, ScanBegins, ScanRefused, WordIsRead, BitIsTaken, WordIsDone, ScanReturns, ScanWaits
       DEF Scan!Next
<1>3. ScanInv => ScanExact
  BY DEF ScanInv
<1>4. QED
  BY <1>1, <1>2, <1>3, PTL DEF CallSpec

-----------------------------------------------------------------------------
(* The path in memory.                                                     *)

PoolOfPath(p) ==
  [tokenA  |-> Path!Field(p, 20),
   factory |-> Path!Field(p + 20, 20),
   fee     |-> Path!Field(p + 40, 3),
   tokenB  |-> Path!Field(p + 43, 20)]

(* What is left of the path begins where the last hop ended; while it is   *)
(* moved, the bytes below dest are in their new place and the others in    *)
(* their old one, and whole words are left to be moved.                    *)
MemoryInv ==
  /\ given \in Nat /\ length \in Nat
  /\ hopPc \in {"first", "hop", "copy", "returned", "reverted"}
  /\ hops \in Seq({PoolOfPath(p) : p \in Nat})
  /\ \A k \in 1..Len(hops) : hops[k] = PoolOfPath((k - 1) * 43)
  /\ hopPc = "first" => hops = <<>>
  /\ DOMAIN mem = 0..(given + 31)
  /\ hopPc \in {"first", "hop"} =>
       /\ given = 43 * Len(hops) + length
       /\ \A a \in 32..(31 + length) : mem[a] = a - 32 + 43 * Len(hops)
  /\ hopPc = "copy" =>
       /\ length >= 106 /\ Len(hops) > 0 /\ given = 43 * (Len(hops) - 1) + length
       /\ dest \in Nat /\ \E words \in Nat : dest + 32 * words = length - 11
       /\ \A a \in 32..(31 + length) :
            mem[a] = a - 32 + 43 * (IF a < dest THEN Len(hops) ELSE Len(hops) - 1)
  /\ hopPc = "returned" =>
       /\ Len(hops) = (given - 20) \div 43
       /\ output = Path!Field(Len(hops) * 43, 20)

(* n bytes from a place of the path are bytes of the path given. *)
Holds(m, start, n, p) ==
  \A a \in 1..n : start + a + 31 \in DOMAIN m /\ m[start + a + 31] = start + a - 1 + p

(* A field is read from the bytes it is at.                                *)
LEMMA FieldIsRead ==
  ASSUME NEW m, NEW start \in Nat, NEW n \in Nat, NEW p \in Nat, Holds(m, start, n, p),
         NEW word \in Nat, word = n + start, NEW from \in Nat, from = p + start
  PROVE  Path!LowBytes(m, word, n) = Path!Field(from, n)
<1>1. ASSUME NEW i \in 1..n
      PROVE  Path!At(m, word + 32 - n + i - 1) = from + i - 1
  <2>1. word + 32 - n + i - 1 = start + i + 31
    OBVIOUS
  <2>2. start + i + 31 \in DOMAIN m /\ m[start + i + 31] = from + i - 1
    BY DEF Holds
  <2>3. QED
    BY <2>1, <2>2 DEF Path!At
<1>2. QED
  BY <1>1 DEF Path!LowBytes, Path!Field

(* The first pool of what is left, read from the copy that is sliced off.  *)
LEMMA PoolIsRead ==
  ASSUME NEW m, NEW n \in Nat, NEW p \in Nat, n >= 63,
         \A a \in 32..(31 + n) : a \in DOMAIN m /\ m[a] = a - 32 + p
  PROVE  /\ Path!DecodeFirstPool(Path!SlicePool(m)) = PoolOfPath(p)
         /\ Path!ToAddress(m, 43) = Path!Field(p + 43, 20)
<1>1. PICK slice : slice = Path!SlicePool(m)
  OBVIOUS
<1>2. ASSUME NEW a \in 32..94 PROVE a \in DOMAIN slice /\ slice[a] = a - 32 + p
  <2>1. a \in DOMAIN m /\ m[a] = a - 32 + p
    OBVIOUS
  <2>2. QED
    BY <1>1, <2>1 DEF Path!SlicePool, Path!At, Path!POOL_LENGTH
<1>3. Holds(slice, 0, 20, p) /\ Holds(slice, 20, 20, p) /\ Holds(slice, 40, 3, p) /\ Holds(slice, 43, 20, p)
  <2>1. Holds(slice, 0, 20, p)
    BY <1>2 DEF Holds
  <2>2. Holds(slice, 20, 20, p)
    BY <1>2 DEF Holds
  <2>3. Holds(slice, 40, 3, p)
    BY <1>2 DEF Holds
  <2>4. Holds(slice, 43, 20, p)
    BY <1>2 DEF Holds
  <2>5. QED
    BY <2>1, <2>2, <2>3, <2>4
<1>4. Path!LowBytes(slice, 20, 20) = Path!Field(p, 20)
  BY <1>3, FieldIsRead
<1>5. Path!LowBytes(slice, 40, 20) = Path!Field(p + 20, 20)
  BY <1>3, FieldIsRead
<1>6. Path!LowBytes(slice, 43, 3) = Path!Field(p + 40, 3)
  BY <1>3, FieldIsRead
<1>7. Path!LowBytes(slice, 63, 20) = Path!Field(p + 43, 20)
  BY <1>3, FieldIsRead
<1>8. Path!LowBytes(m, 63, 20) = Path!Field(p + 43, 20)
  <2>1. Holds(m, 43, 20, p)
    BY DEF Holds
  <2>2. QED
    BY <2>1, FieldIsRead
<1>9. /\ Path!ToAddress(slice, 0) = Path!Field(p, 20)
      /\ Path!ToAddress(slice, 20) = Path!Field(p + 20, 20)
      /\ Path!ToUint24(slice, 2 * 20) = Path!Field(p + 40, 3)
      /\ Path!ToAddress(slice, 43) = Path!Field(p + 43, 20)
      /\ Path!ToAddress(m, 43) = Path!Field(p + 43, 20)
  <2>1. 20 + 0 = 20 /\ 20 + 20 = 40 /\ 3 + 2 * 20 = 43 /\ 20 + 43 = 63
    OBVIOUS
  <2>2. QED
    BY <1>4, <1>5, <1>6, <1>7, <1>8, <2>1 DEF Path!ToAddress, Path!ToUint24
<1>10. /\ Path!ADDR_SIZE = 20 /\ Path!NEXT_OFFSET = 43
  BY DEF Path!ADDR_SIZE, Path!FEE_SIZE, Path!NEXT_OFFSET
<1>11. QED
  BY <1>1, <1>9, <1>10 DEF Path!DecodeFirstPool, PoolOfPath

LEMMA PathSizes ==
  /\ Path!ADDR_SIZE = 20 /\ Path!FEE_SIZE = 3 /\ Path!NEXT_OFFSET = 43
  /\ Path!POP_OFFSET = 63 /\ Path!POOL_LENGTH = 63 /\ Path!ADDR_AND_FACTORY_FEE_LENGTH = 43
BY DEF Path!ADDR_SIZE, Path!FEE_SIZE, Path!NEXT_OFFSET, Path!POP_OFFSET, Path!POOL_LENGTH,
       Path!ADDR_AND_FACTORY_FEE_LENGTH

(* Where the moving of the words begins.                                   *)
LEMMA FirstWord ==
  ASSUME length \in Nat, length >= 106
  PROVE  /\ Path!CopyOffset \in 1..32 /\ Path!NewLength = length - 43
         /\ \E words \in Nat : Path!CopyOffset + 32 * words = length - 11
<1>1. PICK n \in Nat : n = length - 43
  OBVIOUS
<1>2. Path!NewLength = n
  BY <1>1, PathSizes DEF Path!NewLength
<1>3. PICK q \in Nat, r \in 0..31 : n = 32 * q + r /\ r = n % 32
  <2>1. n \div 32 \in Nat /\ n % 32 \in 0..31 /\ n = 32 * (n \div 32) + (n % 32)
    OBVIOUS
  <2>2. QED
    BY <2>1
<1>4. CASE r = 0
  <2>1. Path!CopyOffset = 32
    BY <1>2, <1>3, <1>4 DEF Path!CopyOffset
  <2>2. 32 + 32 * q = length - 11
    BY <1>1, <1>3, <1>4
  <2>3. QED
    BY <1>1, <1>2, <2>1, <2>2
<1>5. CASE r # 0
  <2>1. Path!CopyOffset = r
    BY <1>2, <1>3, <1>5 DEF Path!CopyOffset
  <2>2. PICK words \in Nat : words = q + 1
    OBVIOUS
  <2>3. r + 32 * words = length - 11
    BY <1>1, <1>3, <2>2
  <2>4. QED
    BY <1>1, <1>2, <1>5, <2>1, <2>3
<1>6. QED
  BY <1>4, <1>5

LEMMA PathBegins ==
  ASSUME MemoryInv, Path!FirstToken
  PROVE  MemoryInv'
<1>1. /\ given' = given /\ length' = length /\ mem' = mem /\ hops' = hops
      /\ hopPc = "first" /\ hopPc' = "hop"
  BY DEF Path!FirstToken
<1>2. QED
  BY <1>1 DEF MemoryInv

LEMMA PathRefused ==
  ASSUME MemoryInv, Path!Revert
  PROVE  MemoryInv'
<1>1. /\ given' = given /\ length' = length /\ mem' = mem /\ hops' = hops
      /\ hopPc' = "reverted"
  BY DEF Path!Revert
<1>2. QED
  BY <1>1 DEF MemoryInv

LEMMA PoolIsTraded ==
  ASSUME MemoryInv, Path!Hop
  PROVE  MemoryInv'
<1> DEFINE n == Len(hops)
           found == Path!DecodeFirstPool(Path!SlicePool(mem))
<1>1. /\ given' = given /\ length' = length /\ mem' = mem /\ hops' = Append(hops, found)
      /\ hopPc = "hop" /\ length >= 63
  BY PathSizes DEF Path!Hop
<1>2. /\ given \in Nat /\ length \in Nat /\ n \in Nat
      /\ hops \in Seq({PoolOfPath(p) : p \in Nat})
      /\ \A k \in 1..n : hops[k] = PoolOfPath((k - 1) * 43)
      /\ DOMAIN mem = 0..(given + 31)
      /\ given = 43 * n + length
      /\ \A a \in 32..(31 + length) : mem[a] = a - 32 + 43 * n
  BY <1>1 DEF MemoryInv
<1> HIDE DEF n
<1>3. PICK p \in Nat : p = 43 * n
  BY <1>2
<1>4. \A a \in 32..(31 + length) : a \in DOMAIN mem /\ mem[a] = a - 32 + p
  BY <1>2, <1>3
<1>5. found = PoolOfPath(p) /\ Path!ToAddress(mem, 43) = Path!Field(p + 43, 20)
  BY <1>1, <1>2, <1>4, PoolIsRead
<1> HIDE DEF found
<1>6. /\ hops' \in Seq({PoolOfPath(q) : q \in Nat}) /\ Len(hops') = n + 1
      /\ \A k \in 1..n : hops'[k] = hops[k]
      /\ hops'[n + 1] = PoolOfPath(p)
  <2>1. PICK S : S = {PoolOfPath(q) : q \in Nat}
    OBVIOUS
  <2>2. hops \in Seq(S) /\ PoolOfPath(p) \in S
    BY <1>2, <2>1
  <2>3. hops' = Append(hops, PoolOfPath(p))
    BY <1>1, <1>5
  <2>4. /\ hops' \in Seq(S) /\ Len(hops') = n + 1
        /\ \A k \in 1..n : hops'[k] = hops[k]
        /\ hops'[n + 1] = PoolOfPath(p)
    BY <2>2, <2>3 DEF n
  <2>5. QED
    BY <2>1, <2>4
<1>7. \A k \in 1..Len(hops') : hops'[k] = PoolOfPath((k - 1) * 43)
  <2>1. SUFFICES ASSUME NEW k \in 1..(n + 1) PROVE hops'[k] = PoolOfPath((k - 1) * 43)
    BY <1>6
  <2>2. CASE k \in 1..n
    BY <1>2, <1>6, <2>2
  <2>3. CASE k = n + 1
    <3>1. (k - 1) * 43 = p
      BY <1>2, <1>3, <2>3
    <3>2. QED
      BY <1>6, <2>3, <3>1
  <2>4. QED
    BY <1>2, <2>2, <2>3
<1>8. CASE Path!HasMultiplePools
  <2>1. hopPc' = "copy" /\ dest' = Path!CopyOffset /\ length >= 106
    BY <1>8, PathSizes DEF Path!Hop, Path!HasMultiplePools
  <2>2. PICK d \in 1..32 : d = Path!CopyOffset /\ \E words \in Nat : d + 32 * words = length - 11
    BY <1>2, <2>1, FirstWord
  <2>3. dest' \in Nat /\ \E words \in Nat : dest' + 32 * words = length - 11
    BY <2>1, <2>2
  <2>4. ASSUME NEW a \in 32..(31 + length)
        PROVE  mem'[a] = a - 32 + 43 * (IF a < dest' THEN Len(hops') ELSE Len(hops') - 1)
    <3>1. a >= dest' \/ a < dest'
      BY <2>3
    <3>2. CASE a >= dest'
      BY <1>1, <1>2, <1>6, <2>3, <3>2
    <3>3. CASE a < dest'
      BY <2>1, <2>2, <3>3
    <3>4. QED
      BY <3>1, <3>2, <3>3
  <2>5. Len(hops') > 0 /\ given' = 43 * (Len(hops') - 1) + length'
    BY <1>1, <1>2, <1>6
  <2>6. QED
    BY <1>1, <1>2, <1>6, <1>7, <2>1, <2>3, <2>4, <2>5 DEF MemoryInv
<1>9. CASE ~Path!HasMultiplePools
  <2>1. hopPc' = "returned" /\ output' = Path!ToAddress(mem, 43) /\ length < 106
    BY <1>2, <1>9, PathSizes DEF Path!Hop, Path!HasMultiplePools
  <2>2. Len(hops') = (given' - 20) \div 43
    <3>1. PICK r \in 0..42 : length = 63 + r
      <4>1. length - 63 \in 0..42
        BY <1>1, <1>2, <2>1
      <4>2. QED
        BY <1>2, <4>1
    <3>2. PICK m \in Nat : m = n + 1
      BY <1>2
    <3>3. given - 20 = 43 * m + r
      BY <1>2, <3>1, <3>2
    <3>4. (43 * m + r) \div 43 = m
      OBVIOUS
    <3>5. QED
      BY <1>1, <1>6, <3>2, <3>3, <3>4
  <2>3. output' = Path!Field(Len(hops') * 43, 20)
    <3>1. p + 43 = Len(hops') * 43
      BY <1>2, <1>3, <1>6
    <3>2. QED
      BY <1>5, <2>1, <3>1
  <2>4. QED
    BY <1>1, <1>2, <1>6, <1>7, <2>1, <2>2, <2>3 DEF MemoryInv
<1>10. QED
  BY <1>8, <1>9

LEMMA WordIsMoved ==
  ASSUME MemoryInv, Path!CopyWord
  PROVE  MemoryInv'
<1>1. /\ given' = given /\ length' = length /\ hops' = hops
      /\ hopPc = "copy" /\ hopPc' = "copy" /\ dest < Path!EndNewBytes /\ dest' = dest + 32
      /\ mem' = [a \in DOMAIN mem |->
                   IF a \in dest..(dest + 31) THEN Path!At(mem, a + 43) ELSE mem[a]]
  BY PathSizes DEF Path!CopyWord
<1>2. /\ given \in Nat /\ length \in Nat
      /\ hops \in Seq({PoolOfPath(p) : p \in Nat})
      /\ \A k \in 1..Len(hops) : hops[k] = PoolOfPath((k - 1) * 43)
      /\ DOMAIN mem = 0..(given + 31)
      /\ length >= 106 /\ Len(hops) > 0 /\ given = 43 * (Len(hops) - 1) + length /\ dest \in Nat
      /\ \A a \in 32..(31 + length) :
           mem[a] = a - 32 + 43 * (IF a < dest THEN Len(hops) ELSE Len(hops) - 1)
  BY <1>1 DEF MemoryInv
<1>3. PICK n \in Nat : n = Len(hops)
  BY <1>2
<1>4. PICK words \in Nat : dest + 32 * words = length - 11
  BY <1>1 DEF MemoryInv
<1>5. dest <= length - 43 /\ words > 0
  <2>1. Path!CopyOffset \in 1..32 /\ Path!NewLength = length - 43
    BY <1>2, FirstWord
  <2>2. dest < length - 11
    BY <1>1, <1>2, <2>1 DEF Path!EndNewBytes
  <2>3. QED
    BY <1>2, <1>4, <2>2
<1>6. \E left \in Nat : dest' + 32 * left = length' - 11
  <2>1. PICK left \in Nat : words = left + 1
    <3>1. words - 1 \in Nat
      BY <1>5
    <3>2. QED
      BY <3>1
  <2>2. dest' + 32 * left = length' - 11
    BY <1>1, <1>2, <1>4, <2>1
  <2>3. QED
    BY <2>2
<1>7. DOMAIN mem' = DOMAIN mem
  BY <1>1
<1>8. ASSUME NEW a \in 32..(31 + length)
      PROVE  mem'[a] = a - 32 + 43 * (IF a < dest' THEN n ELSE n - 1)
  <2>1. a \in DOMAIN mem
    BY <1>2, <1>3
  <2>2. CASE a \in dest..(dest + 31)
    <3>1. PICK b \in Nat : b = a + 43
      OBVIOUS
    <3>2. b \in 32..(31 + length) /\ ~(b < dest)
      BY <1>2, <1>5, <2>2, <3>1
    <3>3. mem[b] = b - 32 + 43 * (n - 1)
      BY <1>2, <1>3, <3>2
    <3>4. b \in DOMAIN mem
      BY <1>2, <1>3, <3>2
    <3>5. mem'[a] = mem[b]
      BY <1>1, <2>1, <2>2, <3>1, <3>4 DEF Path!At
    <3>6. a < dest'
      BY <1>1, <1>2, <2>2
    <3>7. b - 32 + 43 * (n - 1) = a - 32 + 43 * n
      BY <3>1
    <3>8. QED
      BY <3>3, <3>5, <3>6, <3>7
  <2>3. CASE a \notin dest..(dest + 31)
    <3>1. mem'[a] = mem[a]
      BY <1>1, <2>1, <2>3
    <3>2. a < dest' <=> a < dest
      BY <1>1, <1>2, <2>3
    <3>3. QED
      BY <1>2, <1>3, <3>1, <3>2
  <2>4. QED
    BY <2>2, <2>3
<1>9. dest' \in Nat
  BY <1>1, <1>2
<1>10. Len(hops') = n
  BY <1>1, <1>3
<1>11. length' >= 106 /\ Len(hops') > 0 /\ given' = 43 * (Len(hops') - 1) + length'
  BY <1>1, <1>2
<1>12. \A a \in 32..(31 + length') :
         mem'[a] = a - 32 + 43 * (IF a < dest' THEN Len(hops') ELSE Len(hops') - 1)
  BY <1>1, <1>8, <1>10
<1>13. \A k \in 1..Len(hops') : hops'[k] = PoolOfPath((k - 1) * 43)
  BY <1>1, <1>2
<1>14. given' \in Nat /\ length' \in Nat /\ DOMAIN mem' = 0..(given' + 31)
       /\ hops' \in Seq({PoolOfPath(p) : p \in Nat})
  BY <1>1, <1>2, <1>7
<1>15. QED
  BY <1>1, <1>6, <1>9, <1>11, <1>12, <1>13, <1>14 DEF MemoryInv

LEMMA PathIsShortened ==
  ASSUME MemoryInv, Path!Shorten
  PROVE  MemoryInv'
<1>1. /\ given' = given /\ hops' = hops
      /\ hopPc = "copy" /\ hopPc' = "hop" /\ dest >= Path!EndNewBytes
      /\ length' = Path!NewLength
      /\ mem' = [a \in DOMAIN mem |-> IF a < 32 THEN Junk ELSE mem[a]]
  BY DEF Path!Shorten
<1>2. /\ given \in Nat /\ length \in Nat
      /\ hops \in Seq({PoolOfPath(p) : p \in Nat})
      /\ \A k \in 1..Len(hops) : hops[k] = PoolOfPath((k - 1) * 43)
      /\ DOMAIN mem = 0..(given + 31)
      /\ length >= 106 /\ Len(hops) > 0 /\ given = 43 * (Len(hops) - 1) + length /\ dest \in Nat
      /\ \A a \in 32..(31 + length) :
           mem[a] = a - 32 + 43 * (IF a < dest THEN Len(hops) ELSE Len(hops) - 1)
  BY <1>1 DEF MemoryInv
<1>3. PICK n \in Nat : n = Len(hops)
  BY <1>2
<1>4. PICK words \in Nat : dest + 32 * words = length - 11
  BY <1>1 DEF MemoryInv
<1>5. PICK c \in 1..32 : c = Path!CopyOffset /\ Path!NewLength = length - 43
  BY <1>2, FirstWord
<1>6. dest = length - 11
  <2>1. dest >= c + (length - 43)
    BY <1>1, <1>5 DEF Path!EndNewBytes
  <2>2. QED
    BY <1>2, <1>4, <2>1
<1>7. length' = length - 43 /\ length' \in Nat
  BY <1>1, <1>2, <1>5
<1>8. given' = 43 * n + length'
  BY <1>1, <1>2, <1>3, <1>7
<1>9. ASSUME NEW a \in 32..(31 + length') PROVE mem'[a] = a - 32 + 43 * n
  <2>1. a \in 32..(31 + length) /\ a < dest
    BY <1>2, <1>6, <1>7
  <2>2. a \in DOMAIN mem
    BY <1>2, <1>3, <2>1
  <2>3. mem'[a] = mem[a]
    BY <1>1, <2>1, <2>2
  <2>4. QED
    BY <1>2, <1>3, <2>1, <2>3
<1>10. DOMAIN mem' = DOMAIN mem
  BY <1>1
<1>11. QED
  BY <1>1, <1>2, <1>3, <1>7, <1>8, <1>9, <1>10 DEF MemoryInv

(* However long the path, the k-th pool that is traded with is its k-th    *)
(* pool, and a trade that returns went through all of them.                *)
THEOREM HopsFollowPathCorrect == CallSpec => []HopsFollowPath
<1>1. CallInit => MemoryInv
  <2>1. SUFFICES ASSUME CallInit PROVE MemoryInv
    OBVIOUS
  <2>2. /\ given \in Nat /\ length = given /\ hopPc = "first" /\ hops = <<>>
        /\ mem = [a \in 0..(given + 31) |-> IF a < 32 THEN Junk ELSE a - 32]
    BY <2>1, PathAssumption DEF CallInit, Path!Init
  <2>3. DOMAIN mem = 0..(given + 31)
    BY <2>2
  <2>4. Len(hops) = 0 /\ hops \in Seq({PoolOfPath(p) : p \in Nat})
    BY <2>2
  <2>5. \A a \in 32..(31 + length) : mem[a] = a - 32 + 43 * Len(hops)
    BY <2>2, <2>4
  <2>6. QED
    BY <2>2, <2>3, <2>4, <2>5 DEF MemoryInv
<1>2. MemoryInv /\ [CallNext]_<<called, scanVars, pathVars>> => MemoryInv'
  <2>1. SUFFICES ASSUME MemoryInv, [CallNext]_<<called, scanVars, pathVars>> PROVE MemoryInv'
    OBVIOUS
  <2>2. Path!Next \/ UNCHANGED pathVars
    BY <2>1 DEF CallNext
  <2>3. CASE UNCHANGED pathVars
    BY <2>1, <2>3 DEF pathVars, MemoryInv
  <2>4. QED
    BY <2>1, <2>2, <2>3, PathBegins, PathRefused, PoolIsTraded, WordIsMoved, PathIsShortened
       DEF Path!Next
<1>3. MemoryInv => HopsFollowPath
  <2>1. SUFFICES ASSUME MemoryInv PROVE HopsFollowPath
    OBVIOUS
  <2>2. hops \in Seq({PoolOfPath(p) : p \in Nat}) /\ Len(hops) \in Nat /\ DOMAIN hops = 1..Len(hops)
    BY <2>1 DEF MemoryInv
  <2>3. ASSUME NEW k \in DOMAIN hops
        PROVE  LET p == (k - 1) * Path!NEXT_OFFSET
               IN hops[k] = [tokenA  |-> Path!Field(p, Path!ADDR_SIZE),
                             factory |-> Path!Field(p + Path!ADDR_SIZE, Path!ADDR_SIZE),
                             fee     |-> Path!Field(p + 2 * Path!ADDR_SIZE, Path!FEE_SIZE),
                             tokenB  |-> Path!Field(p + Path!NEXT_OFFSET, Path!ADDR_SIZE)]
    <3>1. hops[k] = PoolOfPath((k - 1) * 43)
      BY <2>1, <2>2 DEF MemoryInv
    <3>2. QED
      BY <3>1, PathSizes DEF PoolOfPath
  <2>4. hopPc = "returned" =>
          /\ Len(hops) = (given - Path!ADDR_SIZE) \div Path!NEXT_OFFSET
          /\ output = Path!Field(Len(hops) * Path!NEXT_OFFSET, Path!ADDR_SIZE)
    BY <2>1, PathSizes DEF MemoryInv
  <2>5. QED
    BY <2>3, <2>4 DEF HopsFollowPath, Path!HopsFollowPath
<1>4. QED
  BY <1>1, <1>2, <1>3, PTL DEF CallSpec
=============================================================================
