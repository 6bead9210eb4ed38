------------------------------ MODULE UniV2Sync ------------------------------
(***************************************************************************)
(* UniV2: the cache of constant-product pools.  fetch_pools reads the      *)
(* parameters and then the reserves of every pool with concurrent          *)
(* multicalls, all at one block; update_pools_mut brings the same slice to *)
(* a later block by replaying the Sync events of the blocks in between,    *)
(* window by window, with concurrent log queries for chunks of the         *)
(* addresses.  Any request may fail (and a call may be dropped at any of   *)
(* its awaits); the slice then keeps what was applied so far, and the      *)
(* caller calls again.                                                     *)
(***************************************************************************)
EXTENDS Chain, SequencesExt

CONSTANTS
  Tracked,       \* the addresses of the slice of pools, in order
  Unknown,       \* stands for a slice that nothing is promised about
  AddrPageSize,  \* addr_page_size
  ParamPageSize, \* param_page_size
  StatePageSize, \* state_page_size
  BlockPageSize, \* block_page_size
  MaxFailures    \* bound: requests that fail

ASSUME SyncAssumption ==
  /\ Tracked \in Seq(Pools)
  /\ AddrPageSize \in Nat \ {0}
  /\ ParamPageSize \in Nat \ {0}
  /\ StatePageSize \in Nat \ {0}
  /\ BlockPageSize \in Nat \ {0}
  /\ MaxFailures \in Nat

(* A pair reports every change of its reserves by a Sync event. *)
ASSUME PairAssumption == Kinds \cap StateKinds \subseteq {"Sync"}

VARIABLES
  cache,     \* pools: &mut [Pool]; the reserves of each entry
  synced,    \* the caller's: the block of its last call that returned Ok
  ok,        \* the caller's: its last call returned Ok
  pc,        \* where the call is: idle, params, fetch, loop or query
  target,    \* current_block_number (block_number of fetch_pools)
  cursor,    \* block_number of the loop
  pending,   \* the requests of try_join_all not answered yet
  got,       \* the reserves read by the multicalls that are
  answers,   \* the logs of the log queries that are, by chunk
  failures   \* requests that failed so far

clientVars ==
  <<cache, synced, ok, pc, target, cursor, pending, got, answers, failures>>
vars == <<logs, states, clientVars>>

Slots == DOMAIN Tracked
Snapshot(b) == [i \in Slots |-> states[b][Tracked[i]]]

(* chunks(page): the chunk of slot i, all chunks, the addresses of one *)
ChunkOf(i, page) == (i - 1) \div page
Chunks(page) == {ChunkOf(i, page) : i \in Slots}
ChunkPools(k, page) == {Tracked[i] : i \in {j \in Slots : ChunkOf(j, page) = k}}

Nothing == [p \in Pools |-> 0]

TypeOK ==
  /\ ChainTypeOK
  /\ cache \in [Slots -> Nat]
  /\ synced \in 0..Height /\ target \in synced..Height /\ cursor \in 0..target
  /\ ok \in BOOLEAN
  /\ pc \in {"idle", "params", "fetch", "loop", "query"}
  /\ pending \subseteq UNION {Chunks(s) : s \in {AddrPageSize, ParamPageSize, StatePageSize}}
  /\ got \in [Pools -> Nat]
  /\ DOMAIN answers \subseteq Chunks(AddrPageSize)
  /\ \A k \in DOMAIN answers : answers[k] \in Seq(Log)
  /\ failures \in 0..MaxFailures

(* The caller starts with the pools as they were at block 0. *)
Init ==
  /\ ChainInit
  /\ cache = Snapshot(0)
  /\ synced = 0 /\ target = 0 /\ cursor = 0
  /\ ok = TRUE /\ pc = "idle"
  /\ pending = {} /\ got = Nothing /\ answers = <<>>
  /\ failures = 0

-----------------------------------------------------------------------------
(* fetch_pools(block_number, addresses of the slice).  The caller never    *)
(* goes back to a block before one it has already asked for.               *)
Fetch(block) ==
  /\ pc = "idle" /\ block \in target..Height
  /\ pc' = "params" /\ ok' = FALSE
  /\ target' = block
  /\ pending' = Chunks(ParamPageSize)
  /\ UNCHANGED <<chainVars, cache, synced, cursor, got, answers, failures>>

(* One multicall of uniV2PoolParams is answered.  Tokens and fees of a     *)
(* pair never change: what is kept of them is that they were read.         *)
ParamChunk(k) ==
  /\ pc = "params" /\ k \in pending
  /\ pending' = pending \ {k}
  /\ UNCHANGED <<chainVars, cache, synced, ok, pc, target, cursor, got, answers, failures>>

(* All parameters are in; only then the states are asked for. *)
QueryStates ==
  /\ pc = "params" /\ pending = {}
  /\ pc' = "fetch" /\ pending' = Chunks(StatePageSize)
  /\ UNCHANGED <<chainVars, cache, synced, ok, target, cursor, got, answers, failures>>

\* Mutant: the multicalls are not pinned and read the latest state.
ReadLatest == Height

(* init_call(.., Some(block_number)): every multicall reads at the block *)
ReadBlock == target
(* The reserves of a pair, as its state stands for them. *)
UniV2PoolState(p) == states[ReadBlock][p]

(* One multicall of uniV2PoolState is answered; they run concurrently. *)
FetchChunk(k) ==
  /\ pc = "fetch" /\ k \in pending
  /\ pending' = pending \ {k}
  /\ got' = [p \in Pools |-> IF p \in ChunkPools(k, StatePageSize)
                             THEN UniV2PoolState(p) ELSE got[p]]
  /\ UNCHANGED <<chainVars, cache, synced, ok, pc, target, cursor, answers, failures>>

FetchReturn ==
  /\ pc = "fetch" /\ pending = {}
  /\ cache' = [i \in Slots |-> got[Tracked[i]]]
  /\ synced' = target /\ ok' = TRUE /\ pc' = "idle"
  /\ cursor' = target /\ got' = Nothing
  /\ UNCHANGED <<chainVars, target, pending, answers, failures>>

-----------------------------------------------------------------------------
(* update_pools_mut(prev_block_number, current_block_number, pools).  The  *)
(* caller passes the block of its last success: an error reports no        *)
(* progress, even when some windows were applied.                          *)
Update(current) ==
  /\ pc = "idle" /\ current \in target..Height
  /\ pc' = "loop" /\ ok' = FALSE
  /\ target' = current /\ cursor' = synced
  /\ UNCHANGED <<chainVars, cache, synced, pending, got, answers, failures>>

Smaller(a, b) == IF a <= b THEN a ELSE b

\* Mutants: the window is empty, as with a page size rounded down to 0; it
\* ends at the head of the chain instead of current_block_number.
ToBlockStuck == Smaller(cursor, target)
ToBlockPastTarget == Smaller(cursor + BlockPageSize, Height)
ToBlock == Smaller(cursor + BlockPageSize, target)

\* Mutant: the loop stops when less than a page of blocks is left.
MoreFullWindows == cursor + BlockPageSize <= target

(* while block_number < current_block_number *)
MoreBlocks == cursor < target

(* One log query per chunk of addresses is sent. *)
QueryWindow ==
  /\ pc = "loop" /\ MoreBlocks
  /\ pc' = "query"
  /\ pending' = Chunks(AddrPageSize)
  /\ UNCHANGED <<chainVars, cache, synced, ok, target, cursor, got, answers, failures>>

\* Mutant: from_block skips the first block after the cursor.
AfterBlockSkipsOne == cursor + 1
(* from_block is the block after this one *)
AfterBlock == cursor

(* The Sync events of pools ps among the logs of a block, in their order. *)
SyncsOf(ps, log) ==
  LET kept[n \in 0..Len(log)] ==
        IF n = 0 THEN <<>>
        ELSE IF log[n].address \in ps /\ log[n].kind = "Sync"
        THEN Append(kept[n - 1], log[n]) ELSE kept[n - 1]
  IN kept[Len(log)]

(* What eth_getLogs answers for a chunk of addresses, from_block..to_block. *)
GetLogs(k) ==
  FlattenSeq([n \in 1..(ToBlock - AfterBlock) |->
                SyncsOf(ChunkPools(k, AddrPageSize), logs[AfterBlock + n])])

(* The log query for one chunk of addresses is answered. *)
QueryChunk(k) ==
  /\ pc = "query" /\ k \in pending
  /\ pending' = pending \ {k}
  /\ answers' = [c \in DOMAIN answers \cup {k} |-> IF c = k THEN GetLogs(k) ELSE answers[c]]
  /\ UNCHANGED <<chainVars, cache, synced, ok, pc, target, cursor, got, failures>>

(* try_join_all(..).concat(): the answers in the order of their chunks *)
SyncEvents == FlattenSeq([k \in 1..Cardinality(DOMAIN answers) |-> answers[k - 1]])

(* Each event in turn sets the reserves of every entry with its address. *)
Replay(events) ==
  LET after[n \in 0..Len(events)] ==
        IF n = 0 THEN cache
        ELSE [i \in Slots |-> IF Tracked[i] = events[n].address THEN events[n].post
                              ELSE after[n - 1][i]]
  IN after[Len(events)]

\* Mutant: the events are applied from the newest to the oldest.
AppliedBackwards == Replay(Reverse(SyncEvents))
Applied == Replay(SyncEvents)

(* All chunks are in, and are applied without an await in between. *)
ApplyWindow ==
  /\ pc = "query" /\ pending = {}
  /\ cache' = Applied
  /\ cursor' = ToBlock /\ pc' = "loop" /\ answers' = <<>>
  /\ UNCHANGED <<chainVars, synced, ok, target, pending, got, failures>>

UpdateReturn ==
  /\ pc = "loop" /\ ~MoreBlocks
  /\ synced' = target /\ ok' = TRUE /\ pc' = "idle"
  /\ UNCHANGED <<chainVars, cache, target, cursor, pending, got, answers, failures>>

(* A request fails: `?` returns the error and leaves the slice as it is. *)
Fail ==
  /\ pc \in {"params", "fetch", "query"} /\ pending # {}
  /\ failures < MaxFailures
  /\ failures' = failures + 1
  /\ pc' = "idle" /\ pending' = {} /\ got' = Nothing /\ answers' = <<>>
  /\ UNCHANGED <<chainVars, cache, synced, ok, target, cursor>>

MineBlock == Mine /\ UNCHANGED clientVars

Client ==
  \/ \E k \in pending : ParamChunk(k)
  \/ QueryStates
  \/ \E k \in pending : FetchChunk(k)
  \/ FetchReturn
  \/ QueryWindow
  \/ \E k \in pending : QueryChunk(k)
  \/ ApplyWindow
  \/ UpdateReturn

Next ==
  \/ MineBlock
  \/ \E b \in 0..Height : Fetch(b)
  \/ \E b \in 0..Height : Update(b)
  \/ Client
  \/ Fail

Spec == Init /\ [][Next]_vars

(* The executor polls the futures and every request is answered or fails;  *)
(* whatever else the caller asks for, it asks for the head again and       *)
(* again.  Failures are bounded, so that they end.                         *)
FairSpec == Spec /\ WF_vars(Client) /\ SF_vars(Update(Height))

-----------------------------------------------------------------------------
(***************************************************************************)
(* After Ok every entry, duplicates included, holds the reserves of its    *)
(* pool at the block that was asked for, whatever was mined while the      *)
(* requests were in flight and however many earlier calls failed half-way. *)
(***************************************************************************)
OkMeansExact == ok => cache = Snapshot(synced)

(***************************************************************************)
(* No call leaves an entry with reserves its pool never had: also between  *)
(* a failure and the next success, each entry is the true state of its     *)
(* pool at some block between the last success and the last block asked    *)
(* for (not the same block for all entries: a retry starts over and may    *)
(* take an entry back).                                                    *)
(***************************************************************************)
EntriesReal ==
  \A i \in Slots : \E b \in synced..target : cache[i] = states[b][Tracked[i]]

(***************************************************************************)
(* A window is applied as a whole: if the slice was one snapshot at the    *)
(* start of the window it is one snapshot at its end, although the answers *)
(* for different chunks of addresses arrive in any order.                  *)
(***************************************************************************)
WindowKeepsSnapshot ==
  [][(pc = "query" /\ cursor' > cursor /\ cache = Snapshot(cursor))
       => cache' = Snapshot(cursor)']_vars

(***************************************************************************)
(* When requests stop failing, a caller that keeps asking for the head     *)
(* gets, again and again, an exact slice at the head.                      *)
(***************************************************************************)
CatchesUp == []<>(ok /\ synced = Height /\ cache = Snapshot(Height))

(* The slice as the contract of the trait sees it. *)
SameState(v) == v
C == INSTANCE UpdateContract WITH
       view <- IF ok THEN cache ELSE Unknown,
       Entry <- SameState

(***************************************************************************)
(* UniV2 implements the contract of fetch_pools and update_pools_mut.      *)
(***************************************************************************)
ImplementsContract == C!Spec
=============================================================================
