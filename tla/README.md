# The sherpa-aggregator in TLA+

A specification of the program in this repository, checked with TLC and proved in part with TLAPS.
The repository has two halves. A Rust client (`eisen-exchange`, `lib/domain`, `eisen-ethers`) finds the
pools of a decentralised exchange, keeps a cache of their states in step with a chain and quotes trades
from that cache. Solidity contracts (`eisen-solidity-router`) let the client read many pools in one call,
hold the list of contracts that may be called, and execute the trades.

## 1. Inventory

| Component | State | Operations | Talks to |
|---|---|---|---|
| Allow list (`LibAllowList.sol`) | mapping `allowlist`, mapping `fees`, mapping `selectorAllowList`, array `contracts` | add with and without a fee, remove, add and remove a selector, enumerate | read by both facets |
| Discovery v2 (`uni_v2.rs`, `uniV2Pools`) | the call's count and pages | read the count, read pages concurrently, concatenate | the factory through `UniV2Facet` |
| Discovery v3 (`uni_v3.rs`) | the call's count and pages | read the count, read pages, concatenate | a subgraph |
| Synchroniser v2 (`uni_v2.rs`) | the caller's slice of pools, the window being applied | `fetch_pools`, `update_pools_mut` | `eth_getLogs`, multicalls of `UniV2Facet` |
| Synchroniser v3 (`uni_v3.rs`) | the caller's slice of pools, the window | `fetch_pools`, `update_pools_mut` | `eth_getLogs`, multicalls of `UniV3Facet` |
| Quote (`lib/domain` `pool/uni_v2.rs`, `uni2_math.rs`) | balances and fee of one cache entry | `calc_amount_out`, `swap` | must agree with the router |
| Router v2 (`UniV2Facet.sol`) | none of its own; balances and allowances of tokens | `uniV2SwapExactInput` | pairs, external routers, payments, allow list |
| Router v3 (`UniV3Facet.sol`) | none of its own; balances of tokens | `uniV3SwapExactInput`, `uniswapV3SwapCallback`, `uniV3GetTicks` | pools that call back, payments, allow list |
| Payments (`LibPayments.sol`) | fee, collector, WETH9, PERMIT2, `initialized` | set up, set fee, pay, sweep, wrap, unwrap, permit | Permit2, WETH9, tokens |
| Path decoding (`UniV3Path`, `BytesLib`) | none | slice, skip, decode | used by router v3 |
| Pure mathematics (`basic_math`, `logmath`, `ray_math`) | none | fixed-point functions | called by no pool of this repository |
| Contract bindings (`lib/bindings`) | none; tables generated from the JSON ABIs | encode a call, decode an answer, tell a call or a log | contracts and facets; used by every request of the client |
| Records (`fetch_pools`, `domain` `protobuf`, `general_address`) | the lists of one call | zip the answers to records, write and read messages and JSON | bindings, other processes |
| Configuration, test harness | none | loading, starting a local node | |

How they interact: the caller asks *discovery* for addresses, *fetches* the pools at a block, and from then
on *updates* the slice from the last block to a newer one; quotes are computed on the slice. A trade
built from a quote is executed by a *router* facet, which consults the *allow list* and moves tokens with
*payments*.

What is hard here:

- **Interleaving with the chain.** Every request the client sends is answered by a node whose head moves
  on in the meantime. Some calls are pinned to a block, some are not (`uni_v2_pool_num`, the subgraph),
  and the v3 update reads logs of one window and states of another block.
- **Partial failure.** `?` leaves an update in the middle, with part of the windows already applied.
- **Ordering.** Logs are applied in the order of concatenated chunks, and lists are joined by position.
- **Boundaries.** Windows are half open, pages are clipped at both ends, counts are capped.
- **Two implementations of one function.** The quote and the router compute the amount out separately.
- **Redundant storage.** The allow list keeps a mapping, an array and fees that must agree.
- **Redundant declarations.** An interface is written down in Solidity, in a JSON file, and four times in each binding; the words
  on the wire carry no names, so that two declarations that disagree in an order agree in every type check.

What makes each component correct is listed with its module in section 2 and, per line of code, under
`hazards` in `PROJECT.json`.

## 2. Modules

| Module | Models | Its correctness |
|---|---|---|
| `Registry` | abstract: a set of allowed contracts, their fees, a set of selectors | what `LibAllowList` promises |
| `AllowList` | `LibAllowList.sol`, one action per function that writes | the array enumerates exactly the allowed contracts (`EnumerationExact`), no fee outlives a removal (`NoStaleFee`), refinement of `Registry` |
| `AllowListProofs` | | theorems about `AllowList` for all constants |
| `Chain` | external: a growing chain, the logs and states of its pools | |
| `UpdateContract` | abstract: the cache is a snapshot of one block, or withdrawn | what `Dex` promises to its caller |
| `UniV2Sync` | `fetch_pools` and `update_pools_mut` of `uni_v2.rs` over `Chain` | 3.2 |
| `UniV3Sync` | the same two functions of `uni_v3.rs` | 3.3 |
| `UniV2SyncProofs`, `UniV3SyncProofs` | | theorems about the two synchronisers for all constants |
| `UniV2Discovery` | `fetch_pool_addresses` of `uni_v2.rs` and the viewer `uniV2Pools` | 3.4 |
| `UniV3Discovery` | `fetch_pool_addresses` of `uni_v3.rs` | 3.4 |
| `DexView` | the map of exchanges: a call goes to one of the two integrations | 3.4 |
| `UniV2Quote` | `calc_uni2_out` and `getAmountOut` | operators of `UniV2Pool` and `UniV2Router` |
| `UniV2Pool` | a pair, its cache entry, quotes, simulated trades and executed trades | 3.5 |
| `TickScan` | `uniV3GetTicks`: range, bitmap words, bits, the array of ticks | 3.6 |
| `UniV3Path` | the bytes of a path, decoded and moved down in place by `UniV3Path` and `BytesLib` | 3.6 |
| `UniV3Loops` | the two loops above behind one facet | 3.6 |
| `Transfers` | `UniERC20`, `pay`, `payFrom`, `payOrPermit2Transfer` and the tokens they move | operators of the next three |
| `Payments` | the functions of `LibPayments`, called in any order | 3.7 |
| `UniV2Router` | `uniV2SwapExactInput`, both branches, hop by hop | 3.8 |
| `UniV3Router` | `uniV3SwapExactInput` with the callbacks of its pools | 3.9 |
| `PaymentsProofs`, `UniV2RouterProofs` | | theorems about payments and the router of v2 for all constants |
| `UniV3FacetProofs` | | theorems about the router of v3 and about the two loops of `UniV3Loops` |
| `FixedPoint` | the integer functions of `basic_math` | 3.10 |
| `PoolMathProofs` | | theorems about the quote of `UniV2Pool` and about `FixedPoint`, for all widths, units and amounts |
| `Abi` | how a call, an answer and a log are written as words, and read by position | operators of the next four rows |
| `Erc20Abi`, `UniV2FactoryAbi`, `UniV2PairAbi`, `UniV3FactoryAbi`, `UniV3PoolAbi`, `UniV2FacetAbi`, `UniV3FacetAbi` | one file of `lib/bindings/src` each: ABI, methods, structs of calls, answers and logs, the order they are tried in | 3.11 |
| `FacetInterface` | the facets as Solidity declares them, and what their viewers fill in | the other side of two of these tables |
| `ContractClient` | one call, or one log, through a binding | 3.11 |
| `PoolRecords` | `fetch_pools` of both integrations on lists of any addresses; records to messages and JSON and back | 3.11 |
| `ExchangeClient` | the two modules above, one at a time | 3.11 |
| `ExchangeProofs` | | theorems about both discoveries of `DexView` and about the records of `ExchangeClient`, for all constants |

Composition. `UniV2Sync` and `UniV3Sync` extend `Chain`, and each is shown to implement an instance of `UpdateContract`.
`DexView` extends `UniV2Discovery` and instantiates `UniV3Discovery`: a run is in one of them, because
behind `Arc<dyn Dex>` the integrations share no state, and a product of the two would only multiply states. `UniV3Loops` (a call of
the facet runs one loop) and `ExchangeClient` (a call, or a fetch of records) are put together in the same way. `UniV2Pool` and `UniV2Router` share
the arithmetic of `UniV2Quote`; the three modules that move tokens share `Transfers`. The routers read the
allow list as a variable of their own that changes between transactions, as `AllowList` lets it; `UniV3Router` sees a path as a sequence
of tokens and factories, which is what `UniV3Path` shows that its bytes decode to. `UniV3Sync` takes an entry as the state of the pool with its address, which is what
`PoolRecords` shows about lists of 20-byte addresses; it reads the answers of the facets with the tables of `ContractClient`.

State correspondence. In `AllowList` the variables have the names of the storage fields; `hasCode` is the
set of addresses that `code.length` is positive for. In the two synchronisers `cache` is the caller's
slice, in the caller's order (`Tracked`, in which an address may occur twice), `pc` says which request
the call waits for, `cursor` is the local `block_number`, `target` is `current_block_number`, and `synced`
is what the caller knows: the block of its last `Ok`, or nothing after an `Err`. Every await point of the code is a boundary
between two actions: `MineBlock` may run there and `Fail` may end the call there.
`try_join_all` over chunks becomes one action per chunk in any order, with the results joined in chunk order.

Data are abstracted to what the properties tell apart. The reserves of a pair are a small number, the
state of a v3 pool a pair of a state and the ticks that go with it, and an event is its kind and the
state it leaves behind. Amounts in `UniV2Pool` are small integers over a fee base that is scaled down
together with the steps of the router's denominators. In the tables of the bindings a selector is the name and the types it is the hash of (the
four bytes in the files are the hash of those), names are spelt as in the ABI where Rust spells them otherwise, and a value is the name of
what was read, so that a value in a wrong place is seen.

## 3. What the runs check

### 3.1 `allow_list`
Every sequence of operations on three contracts, two fees and two selectors. The array's removal moves the last element
into the hole and pops, which is where an array of one element, the last element and a removed middle
element differ; three contracts give all of them. The refinement says that the storage is never seen
by its callers as anything but a set with fees.

### 3.2 `v2_sync`
Two pools, one listed twice so that it falls into two chunks; chunks of two; windows of two blocks; up to
three blocks with up to two events each; two failing requests, of the multicalls of the parameters, those of the states or the log queries. Two windows of different length and a
chunk boundary through a repeated pool occur. The answers of a window are joined in the order of the chunks and replayed event by event, so
that a pool that is in two chunks has its events replayed twice, and an order other than that of the chain would be seen. `OkMeansExact`: after `Ok` every entry is
the pool's state at the block asked for. `EntriesReal`: at any other time an entry is a state that pool
had at some block since the last success. `WindowKeepsSnapshot`: applying a window turns a snapshot of its first
block into a snapshot of its last one. `ImplementsContract`: as seen by a caller that uses the slice only after `Ok`, each call is one
atomic step. `CatchesUp`: the cache is exact at the head again and again, whatever failed before.

### 3.3 `v3_sync`, `v3_initialize`
Two initialised pools, the first listed twice, and a third contract that is not in the list but whose logs a node may return in spite of
the filter (the comment at `uni_v3.rs:282`); windows of one block; two blocks with up to two events each; two failing requests; one event that changes a pool (`Burn`) and one
that does not (`Flash`). `EntriesNotTorn`: an entry never joins the state of one block
and the ticks of another. `OkMeansExact`, `ImplementsContract` and `CatchesUp` speak of the first entry of each address, because
the replacement loop stops at the first match.
`v3_initialize` starts with pools that may not be initialised. The README of `eisen-exchange` asks that all events that alter a
pool's state are among those of `update_pools_mut`; `Initialize` is not, and TLC finds an
update that returns `Ok` with an entry that has no price. `v3_sync` starts from initialised pools, and
so states what the code does for them.

### 3.4 `discovery`
A factory of up to seven pairs that grows while its pairs are paged through in threes, with a request that may fail, or a subgraph of six pools with pages of two and a cap of
five (5000 in the code; as there, the last page is not cut at the cap). `DiscoveryExact`: a v2 list that is returned is the pairs of the
block asked for, in order, each once, although the count comes from the latest block. `RevertsForPageBehind`: when its requests are answered, the
v2 call is lost exactly when a page starts behind the pairs of the block, where `end - start` underflows. How far the factory is ahead does not decide that: one pair
never loses the call, and two do when a multiple of the page size lies between (199 pairs at the block, 201 counted, pages of 100), while a whole page more need not.
Pages of three have all of these cases.
`CallerDiscovers`: a caller that asks at the head over and over gets the full list again and again.
`QuietListExact`: when the subgraph indexes nothing during the call, the v3 list is the subgraph's own up to the cap rounded up to a whole page.
`DuplicatesBounded`: with indexing in between, an address is repeated at most once per pool indexed.

### 3.5 `v2_pool`
A pair with reserves below twelve. `QuoteIsPaid`: a quote from a current entry with the listed fee is what the facet trades for,
for fees its denominators can express, and for every other fee the router asks the pair for no less
than the quote. `SimulationKeepsProduct`: a simulated trade never lowers the
product of the balances, empties a side or passes 2^112. The widths are scaled: `MaxUint` is where products overflow and `Cap` stands for 2^112.

### 3.6 `v3_loops`
Two loops of the v3 facet over data packed into bits and bytes. For `uniV3GetTicks`: pools of spacing 1, 60 and 200 with every subset of ticks at the edges of bitmap
words, around zero and at both ends of the real tick range; ranges that fit, that are clipped, negative and too large for int24. `ScanExact`: the answer is exactly the
initialised ticks in range, ascending, and the array allocated from the rounded range is long enough. For paths: lengths from too short to five pools, with remainders on
both sides of a word of 32 bytes and with bytes left over. A byte is its position in the path that was given, so a byte that was
overwritten too early is seen. `HopsFollowPath`: the pools traded with are those of the path as given, in order, all of them, and the output is its last token.

### 3.7 `payments`
Two users, ETH, WETH and a token; two units of ETH, the functions of `LibPayments` in any order, with permits in between.
`WethBacked`: the WETH in circulation is the ETH that its contract holds. `OnlyPayersPay`: a call lowers what a user holds only if the user sent it, in a batch
of permitted transfers too, or is the payer that `payFrom` or the single `permit2TransferFrom` was given. These two compare the payer with nobody: they are internal
and leave that to the code that calls them; the facets of this repository pass a payer that `payerMap` has made the sender or the contract. What they can cost is what the payer has permitted, and no ETH.

### 3.8 `v2_router`
Three pairs in a triangle at two factories, paths of up to three hops (cyclic ones, ones through the same pair twice,
ones without a pair, and one that ends with a factory, which is refused: the facet asks the last element of the path for a balance, and a factory has none), three transactions, and between them permits,
changes of the list, syncs of a pair and tokens left at a pair or at the router. The recipient is one of the codes of `map`, or an address by itself: a pair that may be on the path, or a token.
A pair keeps balances of 112 bits (`MaxReserve`) and refuses a trade that leaves it with more, or that pays one of its own tokens. The reserve of one pair is within a payment of that limit.
`TradeSettles`: payer, recipient and the router end with what the trade says and nobody else loses or gains. `OutIsQuoted`: what is paid is what could be worked out before the trade, when the
path is `Straight`: no pair occurs twice, the recipient is none of the pairs and not one of the last pair's tokens. A recipient on the path is paid on the way, or its pair takes the
output for a payment; those trades are checked by `TradeSettles` alone. `UndoneOnlyIfNotQuoted`: a straight trade is undone only if nothing could be quoted, where a hop that would
leave its pair with more than 112 bits has no quote. The facet itself looks at no such limit: its own output may be positive and the pair still refuses (listed as a hazard).

### 3.9 `v3_router`
Two pools in a row at two factories; a pool takes any part of what it is offered and pays any amount it has. `TradeSettles` as above, with
what later pools did not take left at the router. `LaterHopsFunded`: a callback after the first
pool can always pay. `OnlyListedPaid`: no pool of an unlisted factory is paid in a trade that succeeds.

### 3.10 `fixed_point`
Numbers of twelve bits over a `One` of ten. `SqrtExact` and `InverseExact` take every number of that width; `RoundsBothWays` arguments around the
limits; `SortedHighToLow` arrays of up to four numbers with equal ones. `SqrtExact` also says when there is no answer: a product that
overflows, or a number one below a square, where the iteration alternates until its 255 rounds are over.

### 3.11 `client`
Every function of the seven bindings is called through its method and as the struct of the call, every answer is read, and every log is told.
`CallUnderstood`: the contract runs the function that was named with each argument in its place, each value of the answer is
read under the name it was written under, and calldata is told to be the call it is. The other side of the two facets is the Solidity of the router, including
the struct that `uniV3PoolState` decodes the pool's `slot0` into by selector; of the other contracts it is the ABI in the
binding. `LogUnderstood`: a log is told to be the event it is, whatever part of its arguments is indexed, or refused.
The same run fetches every list of up to three addresses of three kinds (20 bytes; 32 bytes with a pool in the low 20; 32 bytes of something else), and a list with a
repetition, with pages of one and two that are answered in any order or fail.
`RecordsOwn`: every record has the identity and the parameters of the address it stands for, and the state and the ticks of that pool as well for v2, and
for v3 up to the first address that is not 20 bytes long. From there on `uni_v3.rs:205` zips the states of all addresses with
the parameters of some; the lists that discovery returns have no such address. `ReadBack`: what another process reads from a message is what was sent; a field that is missing is zero,
a panic or an error and never another field's value, and the fee comes through the signed field of the message unchanged. A record written as
JSON is refused by the reader, because the derived writer writes an address as an object and the reader wants a text. With the address as a text a record is read back, except
a v3 pool with initialised ticks: the kind of a pool is one of its fields (`#[serde(tag = "type")]`), so the record is buffered before it is read, and the buffer gives the keys of the ticks as texts and
has no number of 128 bits.

## 4. Bounds, fairness, assumptions

Every bound is a constant of its module and is set in the `.cfg` (constants that a `.cfg` cannot write, such as sequences and functions, in an `MC` module that
extends the module; the other modules are run as they are): `MaxHead` blocks, `MaxPerBlock`
events of all pools in a block, `MaxFailures` failing requests, `MaxPairs` and `MaxHeight` of a growing factory, `MaxCalls` transactions of a router, `MaxReserve` for the 112 bits of a balance.
A synchroniser has one loop over windows and one over chunks, both without memory beyond
the cursor and the results so far; two windows of unequal length, two chunks and a failure in each position reach every branch and every
boundary, and more of them repeat the same steps. The state kept between two trades of a router is the ledger, the reserves and the list; three
transactions allow a gift or a permit, a change of the list and a trade. `FixedPoint` scales the width of the numbers: `InvRounds` is tied to `Bits`
by the fact that the first guess has five right bits and a round doubles them (`MathAssumption`), which gives 6 for 256 bits and 2 for 12, and `MaxRounds` to the largest first guess of the root, half of `One + 2^Bits / One`: halving
it to nothing takes fewer than 255 rounds, with two to spare. In `client` a list of three with pages of one and two has a page that is not the last, a full
last page and a short one; a fee is below 8 in a field of 16 numbers (`FeeRange`),
as a uint24 is below 2^24 in one of 2^32.

Fairness. The client is given weak fairness on its steps, taken together: an async task whose future is ready is
polled by the runtime. No fairness is given to `MineBlock` or to `Fail`; failures are bounded, which is the usual reading
of a node that answers in the end. The caller's call for the head is strongly fair in `FairSpec` and `DexSpec`: it stands for a loop that follows the head, also when it makes other calls in between.

Assumptions about what is not in the repository: the chain only grows (neither integration handles a reorganisation), `current_block_number` is not
below the block of the slice, page sizes are positive (`SyncAssumption`), a pair emits
`Sync` whenever its reserves change and the last `Sync` of a block holds its reserves
(`PairAssumption`), and a token is not traded for itself. For the router of v2: users, pairs, external routers and the facet are different accounts and none is
`address(0)` (`PartiesApart`); the supply of a token fits 256 bits and is not the number that stands for "the balance of the contract"
(`SupplyAssumption`, which leaves supplies above 112 bits possible, but no pair starts with more than it can keep); and a factory is listed with a fee that, in the steps the facet rounds it to, is not below the fee of its pairs
(`FeesCover`; with a lower one the pair refuses the amount that the facet asks it for). For the scan: ticks and ranges are
those of int24 and the spacing is between 1 and 16383, as `UniswapV3Factory` enforces (`TickAssumption`).

## 5. What is proved

`AllowListProofs` proves for every set of addresses, fees and selectors:

- `TypeCorrect`, `EnumerationCorrect`, `NoStaleFeeCorrect`: the invariants of the run,
- `AllowListImplementsRegistry`: every step of `LibAllowList` is a step of `Registry` or leaves it unchanged.

`EnumerationExact` says that the range of the array is the allowed set and that no two positions agree. It
is inductive only together with the types and with the fact that a fee belongs to an allowed contract, which
is the invariant `IInv`. The argument rests on two lemmas about sequences: appending a fresh element adds it and keeps the
positions distinct, and overwriting the position of an element with the last one and dropping the last removes exactly that element.
Both are proved from the positions of the sequence, without induction.

`UniV2SyncProofs` proves for any pools, lists (with repetitions), page sizes, numbers of blocks, events and failures, under
`ChainAssumption`, `SyncAssumption` (positive page sizes) and `PairAssumption` (only `Sync` changes reserves):

- `TypeCorrect`, `OkMeansExactCorrect`, `EntriesRealCorrect`, `WindowKeepsSnapshotCorrect`: the invariants and the action property of the run,
- `UniV2ImplementsContract`: every step of `UniV2Sync` is a step of `UpdateContract`, or leaves it unchanged.

`OkMeansExact` says nothing about a call that is under way, so it is not inductive. The invariant `IInv` adds what each stage of a call has achieved: the
chunks answered so far hold the state at the target (`FetchInv`); no entry is older than the cursor (`LoopInv`), although some may
be newer, left by an earlier call that failed further on; and an answered query tells of each of its pools how it got through the window (`QueryInv`).
To tell a way from `v` to `w` (`Leads`) is that the last log of the pool in the sequence says `w`, or that it has none and `w` is `v`. Each block does so for the states
before and after it (`ChainInv`). Parts that lead on from each other, joined, lead from the first state to the last (`PartsLead`, used for the blocks of an answer),
answers that each lead through the whole window do so joined as well, in the order of the chunks (`EventsTell`), and `Replay` takes an entry where the logs lead (`Replayed`).
These are inductions on the place in a sequence, by least counterexample (below).

`UniV3SyncProofs` rests on the fact that a pool without a state-changing log in a range of blocks keeps its state (`Quiet`), an invariant of the chain, and proves:

- `TypeCorrect` and `EntriesNotTornCorrect`, for every list, chain and failure, without a further assumption,
- `OkMeansExactCorrect` and `UniV3ImplementsContract` under `Initialised` (every pool has its first state at the first block) and `AllWatched` (every
  event by which an initialised pool changes is in the filter). `v3_initialize` is the run that shows that the first cannot be left out.

`EntriesNotTorn` needs to know that an answered read is the state of the target (`ReadsInv`). `OkMeansExact` needs `ExactInv`: for the first entry of each address,
either it has been brought to the target already, or its pool was silent from the last success to the cursor (`LoopInv`); that is weaker than
the invariant of v2, because the states are those of the target and not of the window's end. A pool silent over two ranges of
blocks is silent over both together, and a silent pool's entry is exact: those are the two lemmas the loop rests on.

`PoolMathProofs` proves about `UniV2Pool`, for all reserves, amounts, fees and widths, under `QuoteAssumption` and `PoolAssumption`:

- `SimulationKeepsProductCorrect`: the output is the fraction rounded down, so that (x + dx)(y - dy) >= xy also after the fee,
- `QuoteIsPaidCorrect`: a quotient is the largest number whose product does not pass the numerator; that the two fractions are equal up to a common factor, and
  that a smaller fee never gives less, then follow from products alone,

and about `FixedPoint`, for all arguments, units and widths, under `MathAssumption`, which 256 bits, 10^18, 6 and 255 satisfy:

- `SqrtExactCorrect`: with `n = x * One` and `r` its root, a mean of a guess and its quotient is never below `r` (`MeanAbove`), and above `r` the quotient is not
  (`QuotientOfAbove`), so each round at least halves what is left. `SqrtInv` says that it is below a power of two that the rounds use up; at `r` the iteration stands still unless `n + 1` is a square,
- `InverseExactCorrect`: `InverseInv` says that after k rounds the product is one more than a multiple of 2^(5 * 2^k) modulo 2^Bits: the first
  guess gives five bits (`FirstGuess`), and a round squares the error (`NewtonRound`),
- `RoundsBothWaysCorrect`: each function is the quotient rounded down, or one of two ways to round it up; what the cut to `Bits` bits leaves is the
  quotient where it fits (`NotCut`),
- `SortedHighToLowCorrect`: the array with `x` put into the hole is always the array of the call in another order, and in order up to `i` but for the hole (`SortInv`).
  A move of the hole exchanges two elements, and an exchange of two elements keeps how often each occurs (`RearrangedCount`).

`ExchangeProofs` proves about `DexView`, for every page size, every growth of the factory or the subgraph and every order in which the pages are answered:

- `RevertsForPageBehindCorrect` and `PagesExactCorrect`: a reverted call had a page that starts behind the pairs of the block, and a returned list had none; the pages of a v2 list that is returned are the consecutive parts of the pairs of the block (`CallInv`, `PagesInv`),
- `DiscoveryExactCorrect`: joined, they are the pairs of the block in order; the position of a pair in the concatenation is the length of the
  full pages before it,
- `QuietListExactCorrect`: with nothing indexed in between, the answers are slices of one listing, and joined they are its beginning. `SubgraphInv` says
  that an answer is a slice of the listing of some set between the pools known at the start and those known now,
- `DuplicatesBoundedCorrect`: the rank of a pool in the listing never falls and rises by at most one per pool that is indexed, and each place of
  the list at which a pool stands shows another rank of it: so these places are at most one more than the new pools.

and about `ExchangeClient`, for every list of addresses of any kind, all page sizes, fees up to the whole width of their field, and every order in
which pages are answered or fail:

- `RecordsOwnCorrect`: a page is answered in full or not yet (`RepliesInv`), so that the answers of a phase, joined, are one for each address asked for
  (`RepliesJoin`, on the same lemma about joined pages as the discovery of v2); those of the phases before are kept (`FetchInv`), and the three are zipped. The
  bindings list the fields of each struct in the order of Solidity (`FieldsAgree`), so a field is read under its own name (`ReadByName`); a list
  without its other addresses begins as the list does, up to the first of them (`FilterKeeps`),
- `ReadBackCorrect`: what was sent is the message or the JSON of one of the records (`SentInv`), each field of a record is written in one way and read back the
  way it was written (`TextBack`), and the fee survives the signed field (`FeeBack`).

`PaymentsProofs` proves for any users, amounts, permits and fees under `AccountsDiffer` (the contract and WETH9 are no users, and ETH is not WETH):

- `OnlyPayersPayCorrect`: the invariant is `Solvent`: the contract owes nothing, without which a payment out of it could lower what somebody else holds. Each
  operation is shown to cost its sender only, on a lemma about one transfer, and the two that take any payer to cost that payer no more than was permitted
  (`PayFromNamedCosts`, `Permit2TransferFromCosts`),
- `WethBackedCorrect`: a transfer leaves the sum over all accounts as it is, and a wrap or unwrap changes it by what it moves in ETH.

`UniV2RouterProofs` proves under the assumptions of section 4, for paths of any length, any number of pairs, and whatever others do to pairs and list between trades:

- `TradeSettlesCorrect`: the invariant `IInv` says of a trade under way how far along its path it is (`RunInv`), that the pair it goes on with is the one the path names (`PairInv`), and that
  users and the contract have what they had before it, less what the payer has paid (`PartiesInv`); of any ledger that the pairs hold at least their reserves (`Good`),
- `OutIsQuotedCorrect`: `QuoteInv` adds that the pairs ahead of a straight path are as they were when the trade began, except that the next one holds what
  was paid to it, which is the quote so far, and that the recipient, who may be a pair elsewhere, has been paid nothing yet,
- `UndoneOnlyIfNotQuotedCorrect`: with `QuoteInv`, a hop for which a positive amount is quoted meets every check of the facet and of the pair: the
  product the pair compares is not below the old one, by `FeesCover`; the next pair is not a token of this one (`NoWayBack`); and both balances fit the pair's
  reserves, because the quote has asked for that (`SwapHasRoom`).

`UniV3FacetProofs` proves about the router, under `RouterApart` (the router is no pool and no user, and users are no pools) and `V3RouterAssumption` (a factory names pools of two different tokens; a
path alternates tokens and factories), for paths of any length:

- `OnlyListedPaidCorrect`: the invariant ties the rest of the path to the path as given (`PathInv`) and says that the pools called back so far are listed (`ListedInv`),
- `LaterHopsFundedCorrect`: what the pool before has paid is still there when the next one asks (`FundsInv`), because the callback
  in between pays another token, and a pool takes no more than it is offered (`PoolInv`),
- `TradeSettlesCorrect`: `SettleInv` says that the ledger is the one before the trade, moved by the fills noted so far; what the router keeps of a token
  is then the sum of what each later hop did not take (`LeftOver`),

and about the two loops, for any pool, tick range, spacing and length of a path:

- `ScanExactCorrect`: the bisection that finds the lowest bit of a word is right for every word, and the words cover the range that is rounded to
  multiples of the spacing. The invariant `ScanInv` says that what is listed is the ticks in range below the current position, ascending, and that the i-th of them lies
  at least i - 1 spacings into the range: so an array with a place for each multiple of the spacing is long enough,
- `HopsFollowPathCorrect`: in the middle of a move (`MemoryInv`) the bytes below `dest` are in their new place, the others in their old one, and whole words are left
  to be moved; what is still to be read has not been overwritten, because the bytes move by 43 and a word has 32.

Facts about all lengths, such as those on joined pages and replayed logs, sums over accounts and the hops of a path, are proved by least counterexample: the library's well-founded
induction on the naturals gives that a set of naturals that is not empty has a least element (`Least`), and the lemma is applied to the
set of lengths for which the fact fails. A recursive function, such as the one behind a fold, is first shown to exist.

Model-checked only:

- liveness (`CallerDiscovers`, `CatchesUp`), which holds under fairness and is out of the prover's reach,
- `CallUnderstood` and `LogUnderstood` of `client`: they are about given tables and depend on no constant, so that TLC checks every row of them.

## 6. Not modelled

The reason for each part is in `components` of `PROJECT.json`. In short:

- The configuration and the test harness keep no state that changes, and vendored code is not this program. The Solidity base libraries are one external call or one range check per
  function, and are part of the transfers and conversions that use them.
- `calc_amount_out` and `swap` of `pool/uni_v3.rs` are `todo!()` and panic; the dispatch in `pool/mod.rs` answers `None` in their place, although the test in `uni_v3.rs` asserts a
  quote. There is no arithmetic of v3 to model.
- `logmath`, `halfpow`, the geometric mean and the conversions to floating point are approximations for which the code states no bound on the error, and no pool calls them. A model could
  only repeat their steps.
- The sweeps of NFTs in `LibPayments`, the approvals Permit2 is given, its expiry dates and nonces.
- Trades of the ETH placeholder: both facets ask for ETH to be wrapped before. `payFrom` of ETH, which moves nothing, is in `Payments`.
- Reorganisations of the chain, of which neither integration takes note, and callers that go back in time.
- The default `update_pools_mut` of the trait, which both integrations override, and the conversion of tokens, which nothing calls. The bytecode in the bindings, the deployment of the facets, and the reasons of reverts.

## 7. How the project was built

In the order of the table in section 2: the allow list with its refinement, the two synchronisers over one chain, discovery, the quote, the routers on one
ledger, then the loops of the v3 facet, the bindings and the records; proofs followed the runs, from the storage of one contract to the
refinement of both synchronisers, both discoveries, both routers, the loops of the v3 facet, the integer functions and the records of `fetch_pools`. What would come next: a bound on the error of `logmath` and the geometric mean that is first measured
with TLC; and a run that asks which balance the flag `CONTRACT_BALANCE` should have read when the sender pays, listed as a hazard.
