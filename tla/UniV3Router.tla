----------------------------- MODULE UniV3Router -----------------------------
(***************************************************************************)
(* UniV3Facet.uniV3SwapExactInput: a trade along a path of v3 pools.  A    *)
(* pool pays its output first, then calls back to be paid its input, and   *)
(* then looks whether it was.  Between two pools the tokens are held by    *)
(* address(this), which pays for every pool but the first.  A pool may     *)
(* take less than it was offered, when the price reaches the limit.  One   *)
(* transaction runs at a time, and whatever fails undoes all of it; before *)
(* and after it accounts permit and send tokens, and the list changes.     *)
(***************************************************************************)
EXTENDS Transfers, Sequences

CONSTANTS
  Users,      \* the accounts that trade
  Tokens,     \* the tokens: numbers, for addresses are compared
  Factories,  \* a factory with one of its fees, as named in paths
  PoolTokens, \* of each pool <<token0, token1>>
  PoolOf,     \* getPool: of a factory and two tokens the pool, or NoPool
  NoPool,     \* address(0)
  Paths,      \* the paths asked for: token, factory, token and so on
  Amounts,    \* the amounts asked for, sent and permitted
  Holding,    \* what each account holds of each token at first
  MaxCalls    \* bound: transactions

Pools == DOMAIN PoolTokens
Accounts == Users \cup Pools \cup {This}

ASSUME V3RouterAssumption ==
  /\ Tokens \subseteq Nat /\ Amounts \subseteq Nat /\ MaxCalls \in Nat
  /\ \A p \in Pools : PoolTokens[p][1] < PoolTokens[p][2]
  /\ NoPool \notin Pools
  /\ \A c \in Factories : \A a, b \in Tokens :
       PoolOf[c][a][b] = NoPool
       \/ (PoolOf[c][a][b] \in Pools /\ PoolTokens[PoolOf[c][a][b]] = <<a, b>>)
  /\ \A path \in Paths :
       path \in Seq(Tokens \cup Factories)
       /\ \A i \in DOMAIN path : path[i] \in (IF i % 2 = 1 THEN Tokens ELSE Factories)
  /\ Holding \in [Tokens -> [Accounts -> Nat]]

VARIABLES
  ledger,  \* balances, and allowances given on Permit2
  listed,  \* LibAllowList: the factories on the list
  pc,      \* idle, or in a trade: swap, callback or paid
  tx,      \* the trade that runs: the locals of the loop
  saved,   \* what a revert goes back to
  last,    \* the last trade, and the ledger it started from
  calls    \* transactions so far

vars == <<ledger, listed, pc, tx, saved, last, calls>>

NoTx == [path |-> <<>>]
NoTrade == [amountOut |-> 0]

Init ==
  /\ ledger = [bal |-> Holding, permits |-> [t \in Tokens |-> [u \in Users |-> 0]]]
  /\ listed \in SUBSET Factories
  /\ pc = "idle" /\ tx = NoTx /\ saved = <<>> /\ last = NoTrade /\ calls = 0

Transaction ==
  /\ pc = "idle" /\ calls < MaxCalls
  /\ calls' = calls + 1 /\ last' = NoTrade

-----------------------------------------------------------------------------
(* CONTRACT_BALANCE is all that address(this) has, whoever pays. *)
AmountAsked(l, token, amountIn) ==
  IF amountIn = ContractBalance THEN UniBalanceOf(l, token, This) ELSE amountIn

UniV3SwapExactInput(u, amountIn, path, recipient, payer) ==
  /\ Transaction
  /\ \E from \in PayerMap(payer, u) :
       tx' = [given |-> path, path |-> path,
              amountIn |-> AmountAsked(ledger, path[1], amountIn),
              recipient |-> RecipientMap(recipient, u), first |-> from, payer |-> from,
              deltas |-> <<0, 0>>, held |-> 0, fills |-> <<>>]
  /\ pc' = "swap" /\ saved' = ledger
  /\ UNCHANGED <<ledger, listed>>

-----------------------------------------------------------------------------
TokenIn == tx.path[1]
Factory == tx.path[2]
TokenOut == tx.path[3]
HasMultiplePools == Len(tx.path) >= 5

GetPool(factory, a, b) == PoolOf[factory][IF a < b THEN a ELSE b][IF a < b THEN b ELSE a]

Pool == GetPool(Factory, TokenIn, TokenOut)
ZeroForOne == TokenIn < TokenOut

\* Mutant: the recipient is sent what every pool pays.
RecipientOfTrade == tx.recipient
(* For intermediate swaps, this contract custodies. *)
HopRecipient == IF HasMultiplePools THEN This ELSE tx.recipient

(* A pool takes at most what it is offered, pays at most what it has, and  *)
(* pays nothing for nothing.                                               *)
Fills ==
  {f \in (0..tx.amountIn) \X (0..ledger.bal[TokenOut][Pool]) : f[1] = 0 => f[2] = 0}

(* toInt256, slicePool, and the pool's own test for an amount of zero *)
SwapCalls ==
  /\ Len(tx.path) >= 3 /\ Pool # NoPool
  /\ tx.amountIn \in 1..(ContractBalance - 1)

(* _uniV3Swap, as far as the callback; deltas are as the pool sees them. *)
Swap ==
  /\ pc = "swap" /\ SwapCalls
  /\ \E f \in Fills :
       /\ ledger' \in Transfer(ledger, TokenOut, Pool, HopRecipient, f[2])
       /\ tx' = [tx EXCEPT !.deltas = IF ZeroForOne THEN <<f[1], -f[2]>> ELSE <<-f[2], f[1]>>,
                           !.held = ledger.bal[TokenIn][Pool],
                           !.fills = Append(@, [token |-> TokenIn, offered |-> tx.amountIn,
                                                in |-> f[1], out |-> f[2]])]
  /\ pc' = "callback"
  /\ UNCHANGED <<listed, saved, last, calls>>

\* Mutant: a pool of any factory is paid.
AnyFactory(factory) == TRUE
ContractIsAllowed(factory) == factory \in listed

(* A pool that swaps nothing is not paid; msg.sender is the pool here. *)
CallbackAccepted ==
  /\ tx.deltas[1] > 0 \/ tx.deltas[2] > 0
  /\ ContractIsAllowed(Factory)

IsExactInput == IF tx.deltas[1] > 0 THEN TokenIn < TokenOut ELSE TokenOut < TokenIn
AmountToPay == IF tx.deltas[1] > 0 THEN tx.deltas[1] ELSE tx.deltas[2]

(* The ledgers after the pool was paid; none if the callback reverts. *)
CallbackPays ==
  IF ~CallbackAccepted THEN {}
  ELSE PayOrPermit2Transfer(ledger, IF IsExactInput THEN TokenIn ELSE TokenOut,
                            tx.payer, Pool, AmountToPay)

UniV3SwapCallback ==
  /\ pc = "callback"
  /\ ledger' \in CallbackPays
  /\ pc' = "paid"
  /\ UNCHANGED <<listed, tx, saved, last, calls>>

(* The pool has been paid what it asked for. *)
PoolContent == ledger.bal[TokenIn][Pool] >= tx.held + AmountToPay

(* What the pool paid, from its own side negative *)
OutputPaid == -(IF ZeroForOne THEN tx.deltas[2] ELSE tx.deltas[1])

\* Mutant: the payer of the first pool pays for all of them.
PayerOfFirst == tx.payer
NextPayer == This

(* The output of this pool is the input of the next; skipBulk. *)
NextHop ==
  /\ pc = "paid" /\ PoolContent /\ HasMultiplePools
  /\ tx' = [tx EXCEPT !.amountIn = OutputPaid, !.payer = NextPayer,
                      !.path = SubSeq(@, 3, Len(@))]
  /\ pc' = "swap"
  /\ UNCHANGED <<ledger, listed, saved, last, calls>>

Return ==
  /\ pc = "paid" /\ PoolContent /\ ~HasMultiplePools /\ OutputPaid # 0
  /\ last' = [amountOut |-> OutputPaid, path |-> tx.given, payer |-> tx.first,
              recipient |-> tx.recipient, fills |-> tx.fills, ledger |-> saved]
  /\ pc' = "idle" /\ tx' = NoTx /\ saved' = <<>>
  /\ UNCHANGED <<ledger, listed, calls>>

Revert ==
  /\ pc # "idle"
  /\ pc = "swap" => ~SwapCalls
  /\ pc = "callback" => CallbackPays = {}
  /\ pc = "paid" => ~(PoolContent /\ (HasMultiplePools \/ OutputPaid # 0))
  /\ ledger' = saved
  /\ pc' = "idle" /\ tx' = NoTx /\ saved' = <<>>
  /\ UNCHANGED <<listed, last, calls>>

-----------------------------------------------------------------------------
(* An owner permits address(this) to take tokens, or sends it some. *)
Permit(u, token, v) ==
  /\ Transaction
  /\ ledger' = [ledger EXCEPT !.permits[token][u] = v]
  /\ UNCHANGED <<listed, pc, tx, saved>>

Send(u, token, v) ==
  /\ Transaction
  /\ ledger' \in Transfer(ledger, token, u, This, v)
  /\ UNCHANGED <<listed, pc, tx, saved>>

(* The allow list changes between transactions. *)
List(f) ==
  /\ Transaction
  /\ listed' \in {listed \cup {f}, listed \ {f}}
  /\ UNCHANGED <<ledger, pc, tx, saved>>

Trade(u) ==
  \E a \in Amounts \cup {0, ContractBalance}, path \in Paths,
     to \in {MsgSender, AddressThis}, from \in {MsgSender, AddressThis} :
    UniV3SwapExactInput(u, a, path, to, from)

Others ==
  \/ \E u \in Users, t \in Tokens, v \in Amounts : Permit(u, t, v) \/ Send(u, t, v)
  \/ \E f \in Factories : List(f)

Hop == Swap \/ UniV3SwapCallback \/ NextHop \/ Return \/ Revert

Next == (\E u \in Users : Trade(u)) \/ Others \/ Hop

Spec == Init /\ [][Next]_vars

-----------------------------------------------------------------------------
(* The last token of a path, which may end with a factory nothing follows. *)
Last(path) == path[IF Len(path) % 2 = 1 THEN Len(path) ELSE Len(path) - 1]

(* What the pools after the first did not take of a token they were offered. *)
LeftOver(fills, t) ==
  LET left[k \in 0..Len(fills)] ==
        IF k <= 1 THEN 0
        ELSE left[k - 1] + (IF fills[k].token = t THEN fills[k].offered - fills[k].in ELSE 0)
  IN left[Len(fills)]

(***************************************************************************)
(* A trade takes from its payer what the first pool took, gives its        *)
(* recipient amountOut, and leaves everybody else but the pools with what  *)
(* they had; address(this) has more, by exactly what later pools did not   *)
(* take of what the earlier ones paid, and never less.                     *)
(***************************************************************************)
TradeSettles ==
  last # NoTrade =>
    \A t \in Tokens, x \in Users \cup {This} :
      ledger.bal[t][x] - last.ledger.bal[t][x] =
        (IF t = Last(last.path) /\ x = last.recipient THEN last.amountOut ELSE 0)
        - (IF t = last.path[1] /\ x = last.payer THEN last.fills[1].in ELSE 0)
        + (IF x = This THEN LeftOver(last.fills, t) ELSE 0)

(***************************************************************************)
(* After the first pool a trade can always pay: what address(this) holds   *)
(* covers whatever a later pool asks for, so that a callback of a listed   *)
(* factory that has swapped something never fails for want of funds or of  *)
(* a permit.                                                               *)
(***************************************************************************)
LaterHopsFunded ==
  (pc = "callback" /\ Len(tx.fills) > 1 /\ CallbackAccepted) => CallbackPays # {}

(***************************************************************************)
(* No pool of a factory that is not on the list has been paid when a trade *)
(* is done, the pools only reached after others were paid included.        *)
(***************************************************************************)
OnlyListedPaid ==
  last # NoTrade =>
    \A k \in DOMAIN last.fills : last.path[2 * k] \in listed

=============================================================================
