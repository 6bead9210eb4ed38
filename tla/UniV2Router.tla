----------------------------- MODULE UniV2Router -----------------------------
(***************************************************************************)
(* UniV2Facet.uniV2SwapExactInput: a trade along a path of pairs, or one   *)
(* handed to an external router.  Along a path the input is paid to the    *)
(* first pair, each pair sends its output straight to the next one, and    *)
(* the last one to the recipient; what a pair was paid is what it holds    *)
(* beyond its reserves.  One transaction runs at a time, hop by hop, and a *)
(* hop that fails undoes all of it; between transactions anybody may send  *)
(* tokens to a pair or have it take them into its reserves.                *)
(***************************************************************************)
EXTENDS Transfers, UniV2Quote, Sequences, FiniteSetsExt

CONSTANTS
  Users,      \* the accounts that trade
  Tokens,     \* the tokens: numbers, for addresses are compared
  Factories,  \* the factories named in paths
  Routers,    \* the external routers
  PairTokens, \* of each pair <<token0, token1>>
  PairOf,     \* getPair: of a factory and two tokens the pair, or NoPair
  NoPair,     \* address(0)
  NotListed,  \* a contract that is not on the allow list
  Fees,       \* the fees a factory may be listed with
  PairFee,    \* the fee the pairs themselves enforce
  Paths,      \* the paths asked for: token, factory, token and so on
  TokenPaths, \* the paths given to external routers
  Amounts,    \* the amounts asked for
  Named,      \* the accounts named as recipients, pairs and tokens among them
  Holding,    \* what each account holds of each token at first
  MaxReserve, \* 2^112 - 1, what a pair can keep in reserve
  MaxCalls    \* bound: transactions

Pairs == DOMAIN PairTokens
Contracts == Factories \cup Routers
Accounts == Users \cup Pairs \cup Routers \cup Tokens \cup {This}

(* A getPair that knows a pair names the one of these two tokens, and a    *)
(* path alternates tokens and factories.  The ETH placeholder is not       *)
(* traded.                                                                 *)
ASSUME RouterAssumption ==
  /\ Tokens \subseteq Nat /\ Eth \notin Tokens /\ Factories \cap Tokens = {}
  /\ PairTokens \in [Pairs -> Tokens \X Tokens]
  /\ \A p \in Pairs : PairTokens[p][1] < PairTokens[p][2]
  /\ \A c \in Factories, a, b \in Tokens :
       PairOf[c][a][b] # NoPair =>
         PairOf[c][a][b] \in Pairs /\ PairTokens[PairOf[c][a][b]] = <<a, b>>
  /\ \A path \in Paths :
       /\ path \in Seq(Tokens \cup Factories)
       /\ \A i \in 1..Len(path) : path[i] \in IF i % 2 = 1 THEN Tokens ELSE Factories
  /\ \A path \in TokenPaths : path \in Seq(Tokens) /\ path # <<>>
  /\ MaxCalls \in Nat /\ Amounts \subseteq Nat /\ Named \subseteq Accounts
  /\ Fees \subseteq 0..FeeBase /\ PairFee \in 0..FeeBase /\ NotListed \notin Nat
  /\ Holding \in [Tokens -> [Accounts -> Nat]] /\ MaxReserve \in Nat
  /\ \A t \in Tokens, p \in Pairs : Holding[t][p] <= MaxReserve

(* Nobody is two of these, and none of them is address(0). *)
ASSUME PartiesApart ==
  /\ NoPair \notin Accounts
  /\ This \notin Users \cup Pairs \cup Routers \cup Tokens
  /\ Users \cap (Pairs \cup Routers \cup Tokens) = {}
  /\ Pairs \cap (Routers \cup Tokens) = {} /\ Routers \cap Tokens = {}

Supply(token) == MapThenSumSet(LAMBDA x : Holding[token][x], Accounts)

(* The supply of a token fits its 256 bits, and is not as much as the flag. *)
ASSUME SupplyAssumption ==
  /\ IsFiniteSet(Accounts)
  /\ \A t \in Tokens : Supply(t) <= MaxUint /\ Supply(t) < ContractBalance

(* A factory is listed with a fee that, in the step the facet rounds it to, *)
(* is not below what its pairs enforce.                                    *)
ASSUME FeesCover == \A f \in Fees : PairFee <= FeeInSteps(f, StepOf(f)) * StepOf(f)

VARIABLES
  ledger,    \* balances, and allowances given on Permit2
  reserves,  \* reserves[p]: <<reserve0, reserve1>> of the pair
  listed,    \* LibAllowList: the fee of each contract on the list
  approved,  \* the tokens a router may take without limit from address(this)
  tx,        \* the trade that runs: its arguments and the locals of _v2Swap
  pc,        \* idle, hop or paid
  saved,     \* what a revert goes back to
  last,      \* the last trade, and the state it started from
  calls      \* transactions so far

chain == <<ledger, reserves, listed, approved>>
vars == <<chain, tx, pc, saved, last, calls>>

NoTx == [path |-> <<>>]
NoTrade == [amountOut |-> 0]

Init ==
  /\ ledger = [bal |-> Holding, permits |-> [t \in Tokens |-> [u \in Users |-> 0]]]
  /\ reserves = [p \in Pairs |-> [k \in 1..2 |-> Holding[PairTokens[p][k]][p]]]
  /\ listed \in [Contracts -> Fees \cup {NotListed}]
  /\ approved = {} /\ tx = NoTx /\ pc = "idle" /\ saved = <<>>
  /\ last = NoTrade /\ calls = 0

-----------------------------------------------------------------------------
(* sortTokens, its first result *)
Token0(a, b) == IF a < b THEN a ELSE b

GetPair(factory, a, b) == PairOf[factory][Token0(a, b)][a + b - Token0(a, b)]

Transaction ==
  /\ pc = "idle" /\ calls < MaxCalls
  /\ calls' = calls + 1 /\ last' = NoTrade

\* Mutant: address(this) pays, whoever the payer is.
PaidByThis(from, token, to, amountIn) == Pay(ledger, token, to, amountIn)
(* ALREADY_PAID, which is 0, says that the pair has the tokens. *)
InputPaid(from, token, to, amountIn) ==
  IF amountIn = 0 THEN {ledger}
  ELSE PayOrPermit2Transfer(ledger, token, from, to, amountIn)

Last(path) == path[Len(path)]

(* router is address(0): the input is paid to the first pair.  A path that *)
(* ends with a factory is refused by the factory, which has no balanceOf.  *)
UniV2SwapExactInput(u, amountIn, path, recipient, payer) ==
  /\ Transaction
  /\ Len(path) >= 3 /\ Last(path) \in Tokens
  /\ \E from \in PayerMap(payer, u) :
       LET to == RecipientMap(recipient, u)
           first == GetPair(path[2], path[1], path[3])
       IN /\ first # NoPair
          /\ ledger' \in InputPaid(from, path[1], first, amountIn)
          /\ tx' = [path |-> path, amountIn |-> amountIn, payer |-> from, recipient |-> to,
                    i |-> 1, pair |-> first, token0 |-> Token0(path[1], path[3]),
                    balanceBefore |-> UniBalanceOf(ledger', Last(path), to)]
  /\ pc' = "hop"
  /\ saved' = <<ledger, reserves>>
  /\ UNCHANGED <<reserves, listed, approved>>

-----------------------------------------------------------------------------
Input == tx.path[tx.i]
Output == tx.path[tx.i + 2]
LastHop == tx.i + 2 = Len(tx.path)

(* pairAndToken0For of the next hop *)
NextToken0(next) == IF LastHop THEN 0 ELSE Token0(Output, tx.path[tx.i + 4])

ReserveInput == IF Input = tx.token0 THEN reserves[tx.pair][1] ELSE reserves[tx.pair][2]
ReserveOutput == IF Input = tx.token0 THEN reserves[tx.pair][2] ELSE reserves[tx.pair][1]

\* Mutant: the first pair is taken to have been paid the amount asked for.
InputAsAsked ==
  IF tx.i = 1 /\ tx.amountIn > 0 THEN tx.amountIn
  ELSE (ledger.bal[Input][tx.pair] - ReserveInput) % (MaxUint + 1)
(* What the pair was paid: unchecked arithmetic. *)
AmountInput == (ledger.bal[Input][tx.pair] - ReserveInput) % (MaxUint + 1)

GetFee(factory) == IF listed[factory] = NotListed THEN 0 ELSE listed[factory]

ContractIsAllowed(c) == listed[c] # NotListed

(* getAmountOut reverts unless the factory is on the list. *)
AmountOutput ==
  LET factory == tx.path[tx.i + 1]
  IN IF ~ContractIsAllowed(factory) THEN NoAmount
     ELSE GetAmountOut(ReserveInput, ReserveOutput, AmountInput, GetFee(factory))

(* The next pair, or the recipient after the last hop. *)
NextPair ==
  IF LastHop THEN tx.recipient ELSE GetPair(tx.path[tx.i + 3], Output, tx.path[tx.i + 4])

(* The balances of a pair, in its own order. *)
Held(l, p) == [k \in 1..2 |-> l.bal[PairTokens[p][k]][p]]

(* A balance is 112 bits wide as a reserve: the pair's _update reverts. *)
InReserve(balance) == balance <= MaxReserve

(* UniswapV2Pair.swap of outs: it refuses to pay nothing or everything, to *)
(* pay one of its tokens, to be paid nothing, to end with a smaller        *)
(* product after its fee, or with more than it can keep in reserve.        *)
PairAccepts(p, to, outs, after) ==
  LET paid == [k \in 1..2 |-> IF after[k] > reserves[p][k] - outs[k]
                              THEN after[k] - (reserves[p][k] - outs[k]) ELSE 0]
      adjusted == [k \in 1..2 |-> after[k] * FeeBase - paid[k] * PairFee]
  IN /\ outs[1] + outs[2] > 0
     /\ outs[1] < reserves[p][1] /\ outs[2] < reserves[p][2]
     /\ to # PairTokens[p][1] /\ to # PairTokens[p][2]
     /\ InReserve(after[1]) /\ InReserve(after[2])
     /\ paid[1] + paid[2] > 0
     /\ adjusted[1] * adjusted[2] >= reserves[p][1] * reserves[p][2] * FeeBase * FeeBase

\* Mutant: the output is asked for on the side of the input.
AmountsOutSwapped == IF Input = tx.token0 THEN <<AmountOutput, 0>> ELSE <<0, AmountOutput>>
(* <<amount0Out, amount1Out>> *)
AmountsOut == IF Input = tx.token0 THEN <<0, AmountOutput>> ELSE <<AmountOutput, 0>>

(* The ledgers after the pair has swapped; none if any of it reverts. *)
Swapped ==
  IF AmountOutput = NoAmount \/ NextPair = NoPair THEN {}
  ELSE UNION {{l \in Transfer(ledger, PairTokens[tx.pair][k], tx.pair, NextPair, AmountsOut[k]) :
                 PairAccepts(tx.pair, NextPair, AmountsOut, Held(l, tx.pair))} :
                k \in {j \in 1..2 : AmountsOut[j] > 0}}

Hop ==
  /\ pc = "hop"
  /\ ledger' \in Swapped
  /\ reserves' = [reserves EXCEPT ![tx.pair] = Held(ledger', tx.pair)]
  /\ tx' = [tx EXCEPT !.i = @ + 2, !.pair = NextPair, !.token0 = NextToken0(NextPair)]
  /\ pc' = IF LastHop THEN "paid" ELSE "hop"
  /\ UNCHANGED <<listed, approved, saved, last, calls>>

(* The output is what the recipient has more than after the payment. *)
AmountOutOf(l) == UniBalanceOf(l, Last(tx.path), tx.recipient) - tx.balanceBefore

Return ==
  /\ pc = "paid" /\ AmountOutOf(ledger) > 0
  /\ last' = [amountOut |-> AmountOutOf(ledger), path |-> tx.path, amountIn |-> tx.amountIn,
              payer |-> tx.payer, recipient |-> tx.recipient,
              ledger |-> saved[1], reserves |-> saved[2]]
  /\ pc' = "idle" /\ tx' = NoTx /\ saved' = <<>>
  /\ UNCHANGED <<chain, calls>>

Revert ==
  /\ pc # "idle"
  /\ pc = "hop" => Swapped = {}
  /\ pc = "paid" => AmountOutOf(ledger) <= 0
  /\ ledger' = saved[1] /\ reserves' = saved[2]
  /\ pc' = "idle" /\ tx' = NoTx /\ saved' = <<>>
  /\ UNCHANGED <<listed, approved, last, calls>>

-----------------------------------------------------------------------------
(* swapExactTokensForTokens of an external router: it takes the input from *)
(* address(this) and pays something for it out of its own liquidity.       *)
RouterOuts(l, router, path) == 1..UniBalanceOf(l, Last(path), router)
RouterTrades(l, router, path, amountIn, recipient, out) ==
  IF amountIn = 0 THEN {}
  ELSE UNION {Transfer(m, Last(path), router, recipient, out) :
                m \in Transfer(l, path[1], This, router, amountIn)}

(* The input is paid to address(this), where the router takes it. *)
UniV2SwapExactInputByRouter(u, amountIn, router, path, recipient, payer) ==
  /\ pc = "idle" /\ calls < MaxCalls /\ calls' = calls + 1
  /\ ContractIsAllowed(router)
  /\ \E from \in PayerMap(payer, u) :
       LET to == RecipientMap(recipient, u)
       IN \E paid \in InputPaid(from, path[1], This, amountIn) :
            \E out \in RouterOuts(paid, router, path) :
              /\ ledger' \in RouterTrades(paid, router, path, amountIn, to, out)
              /\ last' = [amountOut |-> out, path |-> path, amountIn |-> amountIn,
                          payer |-> from, recipient |-> to,
                          ledger |-> ledger, reserves |-> <<>>]
  /\ approved' = approved \cup {<<path[1], router>>}
  /\ UNCHANGED <<reserves, listed, tx, pc, saved>>

-----------------------------------------------------------------------------
(* A user permits address(this) to take tokens, or sends some somewhere. *)
Permit(u, token, v) ==
  /\ Transaction
  /\ ledger' = [ledger EXCEPT !.permits[token][u] = v]
  /\ UNCHANGED <<reserves, listed, approved, tx, pc, saved>>

Send(u, token, to, v) ==
  /\ Transaction
  /\ ledger' \in Transfer(ledger, token, u, to, v)
  /\ UNCHANGED <<reserves, listed, approved, tx, pc, saved>>

(* A pair takes what it holds into its reserves, as when liquidity is added. *)
Sync(p) ==
  /\ Transaction
  /\ \A k \in 1..2 : InReserve(Held(ledger, p)[k])
  /\ reserves' = [reserves EXCEPT ![p] = Held(ledger, p)]
  /\ UNCHANGED <<ledger, listed, approved, tx, pc, saved>>

(* The allow list is changed between transactions. *)
List(c, entry) ==
  /\ Transaction
  /\ listed' = [listed EXCEPT ![c] = entry]
  /\ UNCHANGED <<ledger, reserves, approved, tx, pc, saved>>

-----------------------------------------------------------------------------
Recipients == {MsgSender, AddressThis, Eth} \cup Named
Payers == {MsgSender, AddressThis}

Trade(u) ==
  \E a \in Amounts \cup {0, ContractBalance}, to \in Recipients, from \in Payers :
    \/ \E path \in Paths : UniV2SwapExactInput(u, a, path, to, from)
    \/ \E r \in Routers, path \in TokenPaths :
         UniV2SwapExactInputByRouter(u, a, r, path, to, from)

Others ==
  \/ \E u \in Users, t \in Tokens, v \in Amounts : Permit(u, t, v)
  \/ \E u \in Users, t \in Tokens, to \in Pairs \cup {This}, v \in Amounts : Send(u, t, to, v)
  \/ \E p \in Pairs : Sync(p)
  \/ \E c \in Contracts, entry \in Fees \cup {NotListed} : List(c, entry)

Step == Hop \/ Return \/ Revert

Next == (\E u \in Users : Trade(u)) \/ Others \/ Step

Spec == Init /\ [][Next]_vars

-----------------------------------------------------------------------------
(* What the payer is to pay: CONTRACT_BALANCE is all of address(this). *)
Paid(l, path, amountIn) ==
  IF amountIn = ContractBalance THEN l.bal[path[1]][This] ELSE amountIn

(***************************************************************************)
(* A trade takes exactly the amount from its payer, gives exactly          *)
(* amountOut to its recipient, and leaves everybody else who is not a pair *)
(* or a router with what they had, address(this) included: no hop leaves   *)
(* tokens behind, and nothing but the payer's input is spent.              *)
(***************************************************************************)
TradeSettles ==
  last # NoTrade =>
    \A t \in Tokens, x \in Users \cup {This} :
      ledger.bal[t][x] - last.ledger.bal[t][x] =
        (IF t = Last(last.path) /\ x = last.recipient THEN last.amountOut ELSE 0)
        - (IF t = last.path[1] /\ x = last.payer
           THEN Paid(last.ledger, last.path, last.amountIn) ELSE 0)

(* What a pair has of a token in reserve, and beyond it. *)
Reserve(res, p, t) == IF PairTokens[p][1] = t THEN res[p][1] ELSE res[p][2]
Surplus(l, res, p, t) == l.bal[t][p] - Reserve(res, p, t)

(* The pairs of a path, and what the path pays, worked out beforehand; it  *)
(* pays nothing if a hop has no pair, no listed factory, or no output, or  *)
(* leaves a pair with more than it can keep in reserve.                    *)
HopCount(path) == (Len(path) - 1) \div 2
PairAt(path, k) == GetPair(path[2 * k], path[2 * k - 1], path[2 * k + 1])
Distinct(path) ==
  \A j, k \in 1..HopCount(path) : PairAt(path, j) = PairAt(path, k) => j = k

(* No pair is met twice, and the recipient is none of them and not a token *)
(* of the last: it would be paid, or pay, more than once, or not at all.   *)
Straight(path, recipient) ==
  /\ Distinct(path)
  /\ \A k \in 1..HopCount(path) : recipient # PairAt(path, k)
  /\ recipient # path[Len(path) - 2] /\ recipient # Last(path)

QuotedHop(l, res, p, input, output, factory, amount) ==
  LET out == GetAmountOut(Reserve(res, p, input), Reserve(res, p, output),
                          amount + Surplus(l, res, p, input), GetFee(factory))
  IN IF /\ out # NoAmount
        /\ InReserve(l.bal[input][p] + amount) /\ InReserve(l.bal[output][p] - out)
     THEN out ELSE NoAmount

Quoted(l, res, path, amountIn) ==
  LET out[k \in 0..HopCount(path)] ==
        IF k = 0 THEN Paid(l, path, amountIn)
        ELSE IF \/ out[k - 1] = NoAmount \/ (k > 1 /\ out[k - 1] = 0)
                \/ PairAt(path, k) = NoPair \/ listed[path[2 * k]] = NotListed
             THEN NoAmount
             ELSE QuotedHop(l, res, PairAt(path, k), path[2 * k - 1], path[2 * k + 1],
                            path[2 * k], out[k - 1])
  IN out[HopCount(path)]

(***************************************************************************)
(* A trade over different pairs, to somebody who is none of them, pays     *)
(* what can be worked out before it starts, from the reserves and fees of  *)
(* the pairs in either order of their tokens: the output of each hop, with *)
(* whatever somebody left at the pair, is the input of the next.           *)
(***************************************************************************)
OutIsQuoted ==
  (last # NoTrade /\ last.reserves # <<>> /\ Straight(last.path, last.recipient))
  => last.amountOut = Quoted(last.ledger, last.reserves, last.path, last.amountIn)

(***************************************************************************)
(* A trade over different pairs, to somebody who is none of them, is       *)
(* undone only if nothing could be quoted for it: when there is a positive *)
(* quote, every hop is asked for on the right side of its pair, for an     *)
(* amount the pair accepts.                                                *)
(***************************************************************************)
UndoneOnlyIfNotQuoted ==
  [][(pc # "idle" /\ pc' = "idle" /\ last' = NoTrade /\ Straight(tx.path, tx.recipient))
       => Quoted(saved[1], saved[2], tx.path, tx.amountIn) \in {0, NoAmount}]_vars

=============================================================================
