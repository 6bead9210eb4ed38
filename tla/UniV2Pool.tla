------------------------------ MODULE UniV2Pool ------------------------------
(***************************************************************************)
(* One constant-product pool and its entry in the cache.  The entry is     *)
(* traded against in simulation (UniV2::swap), to find a route; the pair   *)
(* is traded against on chain, by the facet and by others.  The entry is   *)
(* brought up to date by Sync events, which carry the reserves but not the *)
(* fee; the fee is read when the pool is fetched and can be changed by the *)
(* owner of the allow list at any time.                                    *)
(***************************************************************************)
EXTENDS UniV2Quote

CONSTANTS
  Fees,       \* the fees the allow list may hold
  PairFee,    \* the fee the pair itself enforces
  Cap,        \* 2^112
  MaxAmount,  \* bound: the largest amount traded
  Reserves    \* bound: the reserves at the start

ASSUME PoolAssumption ==
  /\ Fees \subseteq 0..FeeBase
  /\ PairFee \in 0..FeeBase
  /\ Cap \in Nat /\ MaxAmount \in Nat /\ Reserves \subseteq 0..(Cap - 1)

VARIABLES
  cache,   \* balance of each token in the entry
  fee,     \* fee.0 of the entry
  pair,    \* reserve of each token in the pair
  listed,  \* LibAllowList.getFee of the pair's factory
  last     \* the last simulated amount, and what the chain gave for the same trade

vars == <<cache, fee, pair, listed, last>>

Token == {"a", "b"}
Other(t) == IF t = "a" THEN "b" ELSE "a"
NoTrade == [quoted |-> NoAmount, paid |-> NoAmount]

Init ==
  /\ pair \in [Token -> Reserves]
  /\ listed \in Fees
  /\ cache = pair /\ fee = listed
  /\ last = NoTrade

-----------------------------------------------------------------------------
(* The balances after amount of t comes in and out of the other goes out. *)
Traded(bal, t, amount, out) ==
  [bal EXCEPT ![t] = @ + amount, ![Other(t)] = @ - out]

Quote(t, amount) == CalcUni2Out(cache[t], cache[Other(t)], amount, fee)

(* swap answers None when the balance would be above 2^112. *)
BalanceFits(t, amount) == cache[t] + amount <= Cap

(* UniV2::swap with t as src_token: the entry changes unless it is None. *)
Simulate(t, amount) ==
  /\ Quote(t, amount) # NoAmount /\ BalanceFits(t, amount)
  /\ cache' = Traded(cache, t, amount, Quote(t, amount))
  /\ last' = NoTrade
  /\ UNCHANGED <<fee, pair, listed>>

(* What the facet asks the pair for. *)
FacetOut(t, amount) == GetAmountOut(pair[t], pair[Other(t)], amount, listed)

(* UniswapV2Pair.swap: something goes out but not everything, the reserves *)
(* fit 112 bits, and the product, with the fee taken off the input, does   *)
(* not go down.                                                            *)
PairAccepts(t, amount, out) ==
  LET in2 == (pair[t] + amount) * FeeBase - amount * PairFee
  IN /\ 0 < out /\ out < pair[Other(t)]
     /\ pair[t] + amount < Cap
     /\ in2 * (pair[Other(t)] - out) >= pair[t] * pair[Other(t)] * FeeBase

(* The same trade is quoted from the cache and executed by the facet. *)
Execute(t, amount) ==
  /\ FacetOut(t, amount) # NoAmount
  /\ PairAccepts(t, amount, FacetOut(t, amount))
  /\ pair' = Traded(pair, t, amount, FacetOut(t, amount))
  /\ last' = [quoted |-> IF cache = pair THEN Quote(t, amount) ELSE NoAmount,
              paid |-> FacetOut(t, amount)]
  /\ UNCHANGED <<cache, fee, listed>>

(* update_pools_mut sees the Sync events of the pair. *)
Update ==
  /\ cache' = pair
  /\ last' = NoTrade
  /\ UNCHANGED <<fee, pair, listed>>

(* uniV2PoolParams: fees[0] is the fee of the allow list *)
FetchedFee == listed

Fetch ==
  /\ cache' = pair /\ fee' = FetchedFee
  /\ last' = NoTrade
  /\ UNCHANGED <<pair, listed>>

(* addAllowedContract(factory, f) *)
ListFee(f) ==
  /\ listed' = f
  /\ last' = NoTrade
  /\ UNCHANGED <<cache, fee, pair>>

Next ==
  \/ \E t \in Token, amount \in 0..MaxAmount : Simulate(t, amount)
  \/ \E t \in Token, amount \in 0..MaxAmount : Execute(t, amount)
  \/ Update
  \/ Fetch
  \/ \E f \in Fees : ListFee(f)

Spec == Init /\ [][Next]_vars

-----------------------------------------------------------------------------
Product(bal) == bal["a"] * bal["b"]

(***************************************************************************)
(* A fresh entry with the current fee never promises more than the facet   *)
(* then asks the pair for, and provided the finest step of the facet       *)
(* divides the fee it quotes what is paid, to the unit: the computations   *)
(* then only differ in the common factor of the fraction.  Rounding the    *)
(* fee down can only make the facet ask for more.                          *)
(***************************************************************************)
QuoteIsPaid ==
  (/\ last.quoted # NoAmount /\ last.paid # NoAmount
   /\ fee = listed) =>
    /\ last.quoted <= last.paid
    /\ fee % Fine = 0 => last.quoted = last.paid

(***************************************************************************)
(* Trades in simulation never lower the product of the balances of the     *)
(* entry, never empty a side of it, and never put more than 2^112 of a     *)
(* token into it.                                                          *)
(***************************************************************************)
SimulationKeepsProduct ==
  [][cache' \notin {cache, pair}   \* the entry is not refreshed but traded
       => /\ Product(cache') >= Product(cache)
          /\ \A t \in Token : cache[t] > 0 => cache'[t] > 0
          /\ \A t \in Token : cache'[t] <= Cap]_vars
=============================================================================
