------------------------------ MODULE UniV3Sync ------------------------------
(***************************************************************************)
(* UniV3: the cache of concentrated-liquidity pools.  fetch_pools reads of *)
(* every pool first slot0 and liquidity, then the ticks around the price,  *)
(* all at one block.  update_pools_mut looks, window by window, for pools  *)
(* that emitted one of four events and fetches those again, each time at   *)
(* current_block_number; it replaces the first entry with the address.     *)
(***************************************************************************)
EXTENDS Chain

CONSTANTS
  Tracked,       \* the addresses of the slice of pools, in order
  Unknown,       \* stands for a slice that nothing is promised about
  BlockPageSize, \* block_page_size
  MaxFailures    \* bound: requests that fail

ASSUME SyncAssumption ==
  /\ Tracked \in Seq(Pools)
  /\ BlockPageSize \in Nat \ {0}
  /\ MaxFailures \in Nat

VARIABLES
  cache,     \* pools: &mut [Pool]; slot0 and ticks of each entry
  synced,    \* the caller's: the block of its last call that returned Ok
  ok,        \* the caller's: its last call returned Ok
  pc,        \* where the call is: idle, fetch, loop, logs or refetch
  target,    \* current_block_number (block_number of fetch_pools)
  cursor,    \* block_number of the loop
  wanted,    \* the addresses fetch_pools was called with
  pending,   \* its reads that are not answered yet
  got,       \* its reads that are
  failures   \* requests that failed so far

clientVars ==
  <<cache, synced, ok, pc, target, cursor, wanted, pending, got, failures>>
vars == <<logs, states, clientVars>>

Slots == DOMAIN Tracked
TrackedPools == {Tracked[i] : i \in Slots}

(* What a pool in state v looks like in the slice: the two parts are read  *)
(* by different requests, so an entry could mix two states.                *)
Part == {"slot0", "ticks"}
EntryOf(v) == [q \in Part |-> v]
Snapshot(b) == [i \in Slots |-> EntryOf(states[b][Tracked[i]])]
Nothing == [p \in Pools |-> EntryOf(0)]

TypeOK ==
  /\ ChainTypeOK
  /\ cache \in [Slots -> [Part -> Nat]]
  /\ synced \in 0..Height /\ target \in synced..Height /\ cursor \in 0..target
  /\ ok \in BOOLEAN
  /\ pc \in {"idle", "fetch", "loop", "logs", "refetch"}
  /\ wanted \subseteq TrackedPools
  /\ pending \subseteq Part \X wanted
  /\ got \in [Pools -> [Part -> Nat]]
  /\ failures \in 0..MaxFailures

(* The caller starts with the pools as they were at block 0. *)
Init ==
  /\ ChainInit
  /\ cache = Snapshot(0)
  /\ synced = 0 /\ target = 0 /\ cursor = 0
  /\ ok = TRUE /\ pc = "idle"
  /\ wanted = {} /\ pending = {} /\ got = Nothing
  /\ failures = 0

-----------------------------------------------------------------------------
(* fetch_pools is entered for the addresses ps.  The parameters of a pool  *)
(* never change; the requests for them are left out.  One read per address *)
(* stands for the pages: larger pages only allow fewer interleavings.      *)
Request(ps) ==
  /\ wanted' = ps
  /\ pending' = Part \X ps
  /\ got' = Nothing

\* Mutant: the multicalls are not pinned and read the latest state.
ReadLatest == Height
(* init_call(.., Some(block_number)): every multicall reads at the block *)
ReadBlock == target
(* Slot0 and liquidity, or the ticks: both are versions of the pool. *)
UniV3PoolState(p) == states[ReadBlock][p]

(* One read is answered.  The ticks are asked for when the states are in.  *)
Read(q, p) ==
  /\ pc \in {"fetch", "refetch"} /\ <<q, p>> \in pending
  /\ q = "ticks" => \A r \in pending : r[1] = "ticks"
  /\ pending' = pending \ {<<q, p>>}
  /\ got' = [got EXCEPT ![p][q] = UniV3PoolState(p)]
  /\ UNCHANGED <<chainVars, cache, synced, ok, pc, target, cursor, wanted, failures>>

(* fetch_pools called by the owner of the slice; the caller never goes     *)
(* back to a block before one it has already asked for.                    *)
Fetch(block) ==
  /\ pc = "idle" /\ block \in target..Height
  /\ pc' = "fetch" /\ ok' = FALSE
  /\ target' = block
  /\ Request(TrackedPools)
  /\ UNCHANGED <<chainVars, cache, synced, cursor, failures>>

FetchReturn ==
  /\ pc = "fetch" /\ pending = {}
  /\ cache' = [i \in Slots |-> got[Tracked[i]]]
  /\ synced' = target /\ ok' = TRUE /\ pc' = "idle"
  /\ cursor' = target
  /\ wanted' = {} /\ got' = Nothing
  /\ UNCHANGED <<chainVars, target, pending, failures>>

-----------------------------------------------------------------------------
(* update_pools_mut(prev_block_number, current_block_number, pools), with  *)
(* the block of the last success as prev_block_number.                     *)
Update(current) ==
  /\ pc = "idle" /\ current \in target..Height
  /\ pc' = "loop" /\ ok' = FALSE
  /\ target' = current /\ cursor' = synced
  /\ UNCHANGED <<chainVars, cache, synced, wanted, pending, got, failures>>

\* Mutant: an event that alters the pool is left out of the list.
WatchedWithoutBurn == {"Swap", "Mint", "Flash"}
(* The events the filter asks for. *)
Watched == {"Swap", "Burn", "Mint", "Flash"}

\* Mutant: the window ends where it starts.
ToBlockStuck == cursor
ToBlock == IF cursor + BlockPageSize <= target THEN cursor + BlockPageSize ELSE target

(* while block_number < current_block_number *)
MoreBlocks == cursor < target

QueryWindow ==
  /\ pc = "loop" /\ MoreBlocks
  /\ pc' = "logs"
  /\ UNCHANGED <<chainVars, cache, synced, ok, target, cursor, wanted, pending, got,
                 failures>>

(* from_block is the block after this one *)
AfterBlock == cursor

\* Mutant: addresses that are not of the slice are kept.
KeptAll(addrs) == addrs
(* .filter(|addr| pool_addresses_set.contains(addr)) *)
Kept(addrs) == addrs \cap TrackedPools

(* get_logs is answered.  A node may ignore the address filter and answer  *)
(* with other contracts too.                                               *)
GetLogs ==
  /\ pc = "logs"
  /\ \E extra \in SUBSET (Pools \ TrackedPools) :
       LET emitters == {p \in TrackedPools : Logged(p, AfterBlock, ToBlock, Watched) # {}}
       IN Request(Kept(emitters \cup extra))
  /\ pc' = "refetch"
  /\ UNCHANGED <<chainVars, cache, synced, ok, target, cursor, failures>>

\* Mutant: the last entry with the address is the one that is replaced.
IsLastEntryOf(i, p) == Tracked[i] = p /\ \A j \in Slots : j > i => Tracked[j] # p
(* `break` after the first entry with the address. *)
IsEntryOf(i, p) == Tracked[i] = p /\ \A j \in 1..(i - 1) : Tracked[j] # p

ApplyWindow ==
  /\ pc = "refetch" /\ pending = {}
  /\ cache' = [i \in Slots |->
                 IF \E p \in wanted : IsEntryOf(i, p)
                 THEN got[CHOOSE p \in wanted : IsEntryOf(i, p)] ELSE cache[i]]
  /\ cursor' = ToBlock /\ pc' = "loop"
  /\ wanted' = {} /\ got' = Nothing
  /\ UNCHANGED <<chainVars, synced, ok, target, pending, failures>>

UpdateReturn ==
  /\ pc = "loop" /\ ~MoreBlocks
  /\ synced' = target /\ ok' = TRUE /\ pc' = "idle"
  /\ UNCHANGED <<chainVars, cache, target, cursor, wanted, pending, got, failures>>

(* A request fails: `?` returns the error and leaves the slice as it is. *)
Fail ==
  /\ pc = "logs" \/ (pc \in {"fetch", "refetch"} /\ pending # {})
  /\ failures < MaxFailures
  /\ failures' = failures + 1
  /\ pc' = "idle" /\ wanted' = {} /\ pending' = {} /\ got' = Nothing
  /\ UNCHANGED <<chainVars, cache, synced, ok, target, cursor>>

MineBlock == Mine /\ UNCHANGED clientVars

Client ==
  \/ \E q \in Part, p \in wanted : Read(q, p)
  \/ FetchReturn
  \/ QueryWindow
  \/ GetLogs
  \/ ApplyWindow
  \/ UpdateReturn

Next ==
  \/ MineBlock
  \/ \E b \in 0..Height : Fetch(b)
  \/ \E b \in 0..Height : Update(b)
  \/ Client
  \/ Fail

Spec == Init /\ [][Next]_vars

(* As for UniV2: futures are polled, failures end, the caller keeps asking. *)
FairSpec == Spec /\ WF_vars(Client) /\ SF_vars(Update(Height))

-----------------------------------------------------------------------------
(* Entry i is the first one with its address. *)
FirstEntry(i) == \A j \in 1..(i - 1) : Tracked[j] # Tracked[i]

(***************************************************************************)
(* After Ok the entry of every pool is its state at the block that was     *)
(* asked for.  This is what including "all events altering pool contract   *)
(* states" in the events of update_pools_mut is for.  In a list that holds *)
(* an address twice it goes for the first entry: the others are not        *)
(* refreshed.                                                              *)
(***************************************************************************)
OkMeansExact ==
  ok => \A i \in Slots : FirstEntry(i) => cache[i] = Snapshot(synced)[i]

(***************************************************************************)
(* No entry is torn: price and ticks of an entry, read by different        *)
(* requests with blocks mined in between, are of one and the same state of *)
(* that very pool, also after a failure and in entries never refreshed.    *)
(***************************************************************************)
EntriesNotTorn ==
  \A i \in Slots : \E b \in 0..target : cache[i] = EntryOf(states[b][Tracked[i]])

(***************************************************************************)
(* When requests stop failing, a caller that keeps asking for the head     *)
(* gets, again and again, an exact entry of every pool at the head.        *)
(***************************************************************************)
CatchesUp ==
  []<>(/\ ok /\ synced = Height
       /\ \A i \in Slots : FirstEntry(i) => cache[i] = Snapshot(Height)[i])

(* The entries that are kept exact: the list without its repetitions. *)
FirstSlots == {i \in Slots : FirstEntry(i)}
FirstEntries == [i \in FirstSlots |-> cache[i]]

(* The slice as the contract of the trait sees it. *)
C == INSTANCE UpdateContract WITH
       Tracked <- [i \in FirstSlots |-> Tracked[i]],
       view <- IF ok THEN FirstEntries ELSE Unknown,
       Entry <- EntryOf

(***************************************************************************)
(* On pools that are initialised, and for the first entry of each of them, *)
(* UniV3 implements the contract of fetch_pools and update_pools_mut.      *)
(***************************************************************************)
ImplementsContract == C!Spec
=============================================================================
