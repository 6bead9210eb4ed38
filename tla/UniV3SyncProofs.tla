--------------------------- MODULE UniV3SyncProofs ---------------------------
(***************************************************************************)
(* Proofs about the UniV3 cache, for every list of pools, page size, chain *)
(* and number of failures.  That no entry is torn needs no assumption.     *)
(* That an Ok answer is exact, and that fetch_pools and update_pools_mut   *)
(* implement the contract of the trait, is proved for pools that are       *)
(* initialised: the event that initialises a pool is not in the filter.    *)
(***************************************************************************)
EXTENDS UniV3Sync, FiniteSetTheorems, TLAPS

-----------------------------------------------------------------------------
(* The chain.                                                              *)

(* The events of p in blocks lo+1..hi whose kind changes the state.         *)
Silent(p, lo, hi) == Logged(p, lo, hi, StateKinds) = {}

(* A pool without such events keeps its state.  This would need an         *)
(* induction over blocks; as an invariant it is proved block by block.     *)
Quiet ==
  \A p \in Pools, lo, hi \in 0..Height :
    (lo <= hi /\ Silent(p, lo, hi)) => states[hi][p] = states[lo][p]

ChainInv == ChainTypeOK /\ Quiet

-----------------------------------------------------------------------------
Emitted == [address : Pools, kind : Kinds]

(* States only grow, and without a kind that changes it a state stays. *)
LEMMA VersionProps ==
  ASSUME NEW pre \in [Pools -> Nat], NEW block, NEW p \in Pools, NEW n \in Nat
  PROVE  /\ Version(pre, block, p, n) \in Nat
         /\ Version(pre, block, p, n) >= pre[p]
         /\ (\A i \in 1..n : block[i].address = p => block[i].kind \notin StateKinds)
              => Version(pre, block, p, n) = pre[p]
<1> DEFINE Changes == {j \in 1..n : block[j].address = p /\ block[j].kind \in StateKinds}
<1>1. IsFiniteSet(Changes)
  <2>1. IsFiniteSet(1..n)
    BY FS_Interval
  <2>2. QED
    BY <2>1, FS_Subset
<1>2. Cardinality(Changes) \in Nat
  BY <1>1, FS_CardinalityType
<1>3. Version(pre, block, p, n) = pre[p] + Cardinality(Changes)
  BY DEF Version
<1>4. ASSUME \A i \in 1..n : block[i].address = p => block[i].kind \notin StateKinds
      PROVE  Cardinality(Changes) = 0
  <2>1. Changes = {}
    BY <1>4
  <2>2. QED
    BY <2>1, FS_EmptySet
<1> HIDE DEF Changes
<1>5. QED
  BY <1>2, <1>3, <1>4

(* The logs of a block are well formed and name what was emitted. *)
LEMMA EmitProps ==
  ASSUME NEW pre \in [Pools -> Nat], NEW n \in Nat, NEW block \in [1..n -> Emitted]
  PROVE  /\ Emit(pre, block) \in Seq(Log) /\ DOMAIN Emit(pre, block) = 1..n
         /\ \A i \in 1..n : /\ Emit(pre, block)[i].address = block[i].address
                            /\ Emit(pre, block)[i].kind = block[i].kind
<1> DEFINE E == Emit(pre, block)
<1>1. /\ DOMAIN E = 1..n
      /\ \A i \in 1..n : E[i] = [address |-> block[i].address, kind |-> block[i].kind,
                                post |-> Version(pre, block, block[i].address, i)]
  BY DEF Emit
<1>2. \A i \in 1..n : block[i].address \in Pools /\ block[i].kind \in Kinds
  BY DEF Emitted
<1>3. \A i \in 1..n : E[i] \in Log
  <2>1. TAKE i \in 1..n
  <2>2. PICK v \in Nat : v = Version(pre, block, block[i].address, i)
    <3>1. PICK a \in Pools : a = block[i].address
      BY <1>2
    <3>2. i \in Nat
      OBVIOUS
    <3>3. Version(pre, block, a, i) \in Nat
      BY <3>2, VersionProps
    <3>4. QED
      BY <3>1, <3>3
  <2>3. QED
    BY <1>1, <1>2, <2>2 DEF Log
<1>4. E \in Seq(Log)
  <2>1. E \in [1..n -> Log]
    BY <1>1, <1>3 DEF Emit
  <2>2. QED
    BY <2>1
<1>5. QED
  BY <1>1, <1>4

LEMMA ChainInitInv == ChainInit => ChainInv
<1> SUFFICES ASSUME ChainInit PROVE ChainInv
  OBVIOUS
<1>1. Height = 0 /\ logs = <<>>
  BY DEF ChainInit, Height
<1>2. PICK g \in [Pools -> Genesis] : states = [b \in {0} |-> g]
  BY DEF ChainInit
<1>3. ChainTypeOK
  <2>1. logs \in Seq(Seq(Log))
    BY <1>1
  <2>2. /\ \A p \in Pools : g[p] \in Nat
        /\ g = [p \in Pools |-> g[p]]
    BY ChainAssumption
  <2>3. 0..Height = {0}
    BY <1>1
  <2>4. g \in [Pools -> Nat]
    BY <2>2
  <2>5. QED
    BY <1>2, <2>1, <2>3, <2>4, Zenon DEF ChainTypeOK
<1>4. Quiet
  BY <1>1 DEF Quiet
<1>5. QED
  BY <1>3, <1>4 DEF ChainInv

-----------------------------------------------------------------------------
(* What mining a block does to the variables, in one place. *)
LEMMA MineEffect ==
  ASSUME ChainTypeOK, Mine
  PROVE  /\ Height \in Nat /\ Height' = Height + 1
         /\ states[Height] \in [Pools -> Nat]
         /\ \A b \in 1..Height : logs'[b] = logs[b]
         /\ \A b \in 0..Height : states'[b] = states[b]
         /\ \E n \in Nat : \E block \in [1..n -> Emitted] :
              /\ Legal(states[Height], block)
              /\ logs'[Height + 1] = Emit(states[Height], block)
              /\ \A p \in Pools :
                   states'[Height + 1][p] = Version(states[Height], block, p, n)
         /\ ChainTypeOK'
<1>0. Height \in Nat /\ logs \in Seq(Seq(Log)) /\ states[Height] \in [Pools -> Nat]
  <2>1. Height \in Nat
    BY DEF ChainTypeOK, Height
  <2>2. Height \in 0..Height
    BY <2>1
  <2>3. QED
    BY <2>1, <2>2 DEF ChainTypeOK
<1>1. PICK block \in Blocks :
        /\ Legal(states[Height], block)
        /\ logs' = Append(logs, Emit(states[Height], block))
        /\ states' = [b \in 0..(Height + 1) |->
                        IF b <= Height THEN states[b]
                        ELSE [p \in Pools |-> Version(states[Height], block, p, Len(block))]]
  BY DEF Mine
<1>2. PICK n \in Nat : block \in [1..n -> Emitted]
  BY ChainAssumption DEF Blocks, Emitted
<1>3. Len(block) = n
  BY <1>2
<1>4. PICK pre \in [Pools -> Nat] : pre = states[Height]
  BY <1>0
<1>5. PICK log : log = Emit(pre, block)
  OBVIOUS
<1>6. log \in Seq(Log)
  BY <1>2, <1>5, EmitProps
<1>7. /\ Len(logs') = Len(logs) + 1
      /\ \A b \in 1..Len(logs) : logs'[b] = logs[b]
      /\ logs'[Len(logs) + 1] = log
      /\ logs' \in Seq(Seq(Log))
  BY <1>0, <1>1, <1>4, <1>5, <1>6
<1>8. Height' = Height + 1 /\ logs'[Height + 1] = log /\ \A b \in 1..Height : logs'[b] = logs[b]
  BY <1>7 DEF Height
<1>9. \A b \in 0..Height : states'[b] = states[b]
  BY <1>0, <1>1
<1>10. states'[Height + 1] = [p \in Pools |-> Version(pre, block, p, n)]
  BY <1>0, <1>1, <1>3, <1>4
<1>11. states'[Height + 1] \in [Pools -> Nat]
  <2>1. \A p \in Pools : Version(pre, block, p, n) \in Nat
    BY VersionProps
  <2>2. QED
    BY <1>10, <2>1
<1>12. ChainTypeOK'
  <2>1. states' \in [0..Height' -> [Pools -> Nat]]
    <3>1. \A b \in 0..(Height + 1) : states'[b] \in [Pools -> Nat]
      <4>1. TAKE b \in 0..(Height + 1)
      <4>2. CASE b \in 0..Height
        BY <1>9, <4>2 DEF ChainTypeOK
      <4>3. CASE b = Height + 1
        BY <1>11, <4>3
      <4>4. QED
        BY <1>0, <4>2, <4>3
    <3>2. DOMAIN states' = 0..(Height + 1) /\ states' = [b \in DOMAIN states' |-> states'[b]]
      BY <1>1
    <3>3. QED
      BY <1>8, <3>1, <3>2
  <2>2. QED
    BY <1>7, <2>1 DEF ChainTypeOK
<1>13. \E m \in Nat : \E bl \in [1..m -> Emitted] :
         /\ Legal(states[Height], bl)
         /\ logs'[Height + 1] = Emit(states[Height], bl)
         /\ \A p \in Pools : states'[Height + 1][p] = Version(states[Height], bl, p, m)
  <2>1. logs'[Height + 1] = Emit(states[Height], block)
    BY <1>4, <1>5, <1>8
  <2>2. \A p \in Pools : states'[Height + 1][p] = Version(states[Height], block, p, n)
    BY <1>4, <1>10
  <2>3. QED
    BY <1>1, <1>2, <2>1, <2>2
<1>14. QED
  BY <1>0, <1>8, <1>9, <1>12, <1>13

(* What is known of blocks that exist does not change when one is added. *)
LEMMA LoggedStable ==
  ASSUME ChainTypeOK, Mine,
         NEW p \in Pools, NEW lo \in 0..Height, NEW hi \in 0..Height, NEW kinds
  PROVE  Logged(p, lo, hi, kinds)' = Logged(p, lo, hi, kinds)
<1>1. \A b \in (lo + 1)..hi : logs'[b] = logs[b]
  BY MineEffect
<1>2. QED
  BY <1>1 DEF Logged

(* Of a new block: what it adds to a range that ends there. *)
LEMMA LoggedExtended ==
  ASSUME ChainTypeOK, Mine, NEW p \in Pools, NEW lo \in 0..Height, NEW kinds,
         NEW hi, hi = Height + 1
  PROVE  /\ Logged(p, lo, Height, kinds) \subseteq Logged(p, lo, hi, kinds)'
         /\ Logged(p, lo, hi, kinds)' \subseteq Logged(p, lo, Height, kinds) \cup {hi}
<1>1. Height \in Nat /\ \A b \in 1..Height : logs'[b] = logs[b]
  BY MineEffect
<1>2. \A b \in (lo + 1)..Height : b \in 1..Height /\ b \in (lo + 1)..hi
  BY <1>1
<1>3. \A b \in (lo + 1)..hi : b = hi \/ b \in (lo + 1)..Height
  BY <1>1
<1>4. QED
  BY <1>1, <1>2, <1>3 DEF Logged

LEMMA MineQuiet ==
  ASSUME ChainTypeOK, Quiet, Mine
  PROVE  Quiet'
<1>0. Height \in Nat /\ Height' = Height + 1 /\ Height \in 0..Height
  BY MineEffect
<1> SUFFICES ASSUME NEW p \in Pools, NEW lo \in 0..(Height + 1), NEW hi \in 0..(Height + 1),
                    lo <= hi, Logged(p, lo, hi, StateKinds)' = {}
             PROVE  states'[hi][p] = states'[lo][p]
  BY <1>0 DEF Quiet, Silent
<1>1. CASE hi \in 0..Height
  <2>1. lo \in 0..Height
    BY <1>0, <1>1
  <2>2. Silent(p, lo, hi)
    BY <1>1, <2>1, LoggedStable DEF Silent
  <2>3. states[hi][p] = states[lo][p]
    BY <1>1, <2>1, <2>2 DEF Quiet
  <2>4. QED
    BY <1>1, <2>1, <2>3, MineEffect
<1>2. CASE lo = hi
  BY <1>2
<1>3. CASE lo \in 0..Height /\ hi = Height + 1
  <2>1. Silent(p, lo, Height)
    <3>1. Logged(p, lo, Height, StateKinds) \subseteq Logged(p, lo, hi, StateKinds)'
      BY <1>3, LoggedExtended
    <3>2. QED
      BY <3>1 DEF Silent
  <2>2. states[Height][p] = states[lo][p]
    BY <1>0, <1>3, <2>1 DEF Quiet
  <2>0. PICK n \in Nat : \E block \in [1..n -> Emitted] :
          /\ logs'[Height + 1] = Emit(states[Height], block)
          /\ states'[Height + 1][p] = Version(states[Height], block, p, n)
    BY MineEffect
  <2>3. PICK block \in [1..n -> Emitted] :
          /\ logs'[Height + 1] = Emit(states[Height], block)
          /\ states'[Height + 1][p] = Version(states[Height], block, p, n)
    BY <2>0
  <2>4. PICK pre \in [Pools -> Nat] : pre = states[Height]
    BY MineEffect
  <2>5. \A i \in 1..n : block[i].address = p => block[i].kind \notin StateKinds
    <3>1. hi \notin Logged(p, lo, hi, StateKinds)'
      OBVIOUS
    <3>2. hi \in (lo + 1)..hi
      BY <1>0, <1>3
    <3>3. \A j \in DOMAIN logs'[hi] :
            logs'[hi][j].address = p => logs'[hi][j].kind \notin StateKinds
      BY <3>1, <3>2 DEF Logged
    <3>4. /\ DOMAIN Emit(pre, block) = 1..n
          /\ \A i \in 1..n : /\ Emit(pre, block)[i].address = block[i].address
                             /\ Emit(pre, block)[i].kind = block[i].kind
      BY EmitProps
    <3>5. QED
      BY <1>3, <2>3, <2>4, <3>3, <3>4
  <2>6. states'[Height + 1][p] = states[Height][p]
    <3>1. Version(pre, block, p, n) = pre[p]
      BY <2>5, VersionProps
    <3>2. QED
      BY <2>3, <2>4, <3>1
  <2>7. QED
    BY <1>3, <2>2, <2>6, MineEffect
<1>4. QED
  BY <1>0, <1>1, <1>2, <1>3

(* The chain's invariant holds of every chain. *)
LEMMA MineInv ==
  ASSUME ChainInv, Mine
  PROVE  ChainInv'
BY MineEffect, MineQuiet DEF ChainInv

(* Steps of a client leave the chain, and what is known of it, alone. *)
LEMMA ChainUnchanged ==
  ASSUME ChainInv, UNCHANGED chainVars
  PROVE  ChainInv' /\ Height' = Height
<1>1. logs' = logs /\ states' = states
  BY DEF chainVars
<1>2. Height' = Height
  BY <1>1 DEF Height
<1>3. ASSUME NEW p \in Pools, NEW lo, NEW hi
      PROVE  Silent(p, lo, hi)' = Silent(p, lo, hi)
  BY <1>1 DEF Logged, Silent
<1>4. ChainTypeOK'
  BY <1>1, <1>2 DEF ChainInv, ChainTypeOK
<1>5. Quiet'
  BY <1>1, <1>2, <1>3 DEF ChainInv, Quiet
<1>6. QED
  BY <1>2, <1>4, <1>5 DEF ChainInv

-----------------------------------------------------------------------------
(* The client.                                                             *)

(* All pools had been initialised at the first block. *)
Initialised == 0 \notin Genesis
(* The filter has every event by which an initialised pool changes.        *)
AllWatched == LaterKinds \cap StateKinds \subseteq Watched

(* Every read that is answered is the state of its pool at the target.     *)
ReadsInv ==
  pc \in {"fetch", "refetch"} =>
    \A q \in Part, p \in wanted :
      <<q, p>> \notin pending => got[p][q] = states[target][p]

(* EntriesNotTorn is not inductive: the answers of a call that is under    *)
(* way become entries.  With what is known of the answers it is.           *)
IInv ==
  /\ TypeOK
  /\ pc \notin {"fetch", "refetch"} => pending = {}
  /\ pc = "fetch" => wanted = TrackedPools
  /\ ReadsInv
  /\ EntriesNotTorn

(* The entries that are kept exact: i is the first one of its pool. *)
At(i, b) == cache[i] = EntryOf(states[b][Tracked[i]])

(* An initialised pool stays so, and is not initialised again. *)
NoFirst ==
  /\ \A p \in Pools, b \in 0..Height : states[b][p] # 0
  /\ \A b \in 1..Height : \A j \in DOMAIN logs[b] : logs[b][j].kind \in LaterKinds

(* Failures included, no first entry is older than the last success. *)
RecentInv == \A i \in FirstSlots : \E b \in synced..target : At(i, b)

(* The loop has brought an entry to the target, or its pool has not        *)
(* changed in the windows that are done.                                   *)
LoopInv ==
  pc \in {"loop", "logs", "refetch"} =>
    /\ synced <= cursor
    /\ pc # "loop" => cursor < target
    /\ \A i \in FirstSlots : At(i, target) \/ Silent(Tracked[i], synced, cursor)

(* A pool that is not fetched again emitted none of the watched events.    *)
RefetchInv ==
  pc = "refetch" =>
    \A p \in TrackedPools \ wanted : Logged(p, cursor, ToBlock, Watched) = {}

(* What makes OkMeansExact inductive. *)
ExactInv ==
  /\ ChainInv
  /\ NoFirst
  /\ ok => pc = "idle" /\ synced = target
  /\ OkMeansExact
  /\ RecentInv
  /\ LoopInv
  /\ RefetchInv

-----------------------------------------------------------------------------
LEMMA TrackedInPools == \A i \in Slots : Tracked[i] \in Pools
BY SyncAssumption DEF Slots

LEMMA Numbers ==
  ASSUME TypeOK
  PROVE  /\ Height \in Nat
         /\ synced \in 0..Height /\ target \in 0..Height /\ cursor \in 0..Height
         /\ synced <= target /\ cursor <= target
         /\ ToBlock \in 0..Height /\ cursor <= ToBlock /\ ToBlock <= target
         /\ cursor < target => cursor < ToBlock
<1>1. Height \in Nat
  BY DEF TypeOK, ChainTypeOK, Height
<1>2. BlockPageSize \in Nat \ {0}
  BY SyncAssumption
<1>3. QED
  BY <1>1, <1>2 DEF TypeOK, ToBlock

LEMMA EntryType ==
  ASSUME TypeOK, NEW p \in Pools, NEW b \in 0..Height
  PROVE  states[b][p] \in Nat /\ EntryOf(states[b][p]) \in [Part -> Nat]
<1>1. states[b][p] \in Nat
  BY DEF TypeOK, ChainTypeOK
<1>2. QED
  BY <1>1 DEF EntryOf

(* When all reads are answered, they make up entries that are not torn.    *)
LEMMA AnswersNotTorn ==
  ASSUME IInv, pc \in {"fetch", "refetch"}, pending = {}, NEW p \in wanted
  PROVE  p \in Pools /\ got[p] = EntryOf(states[target][p])
<1>1. p \in Pools
  BY TrackedInPools DEF IInv, TypeOK, TrackedPools
<1>2. \A q \in Part : got[p][q] = states[target][p]
  BY DEF IInv, ReadsInv
<1>3. got[p] \in [Part -> Nat]
  BY <1>1 DEF IInv, TypeOK
<1>4. got[p] = [q \in Part |-> got[p][q]]
  BY <1>3
<1>5. QED
  BY <1>1, <1>2, <1>4 DEF EntryOf

-----------------------------------------------------------------------------
LEMMA InitIInv == Init => IInv
<1> SUFFICES ASSUME Init PROVE IInv
  OBVIOUS
<1>1. ChainTypeOK
  BY ChainInitInv DEF Init, ChainInv
<1>2. Height = 0
  BY DEF Init, ChainInit, Height
<1>3. /\ cache = Snapshot(0) /\ synced = 0 /\ target = 0 /\ cursor = 0 /\ ok = TRUE
      /\ pc = "idle" /\ wanted = {} /\ pending = {} /\ got = Nothing /\ failures = 0
  BY DEF Init
<1>4. cache \in [Slots -> [Part -> Nat]]
  <2>1. \A i \in Slots : EntryOf(states[0][Tracked[i]]) \in [Part -> Nat]
    BY <1>1, <1>2, TrackedInPools DEF ChainTypeOK, EntryOf
  <2>2. QED
    BY <1>3, <2>1 DEF Snapshot
<1>5. got \in [Pools -> [Part -> Nat]]
  BY <1>3 DEF Nothing, EntryOf
<1>6. TypeOK
  BY <1>1, <1>2, <1>3, <1>4, <1>5, SyncAssumption DEF TypeOK
<1>7. EntriesNotTorn
  BY <1>3 DEF EntriesNotTorn, Snapshot
<1>8. QED
  BY <1>3, <1>6, <1>7 DEF IInv, ReadsInv

(* Steps that leave the chain alone leave its types alone. *)
LEMMA ChainTypeUnchanged ==
  ASSUME TypeOK, UNCHANGED chainVars
  PROVE  ChainTypeOK' /\ Height' = Height /\ logs' = logs /\ states' = states
BY DEF TypeOK, ChainTypeOK, chainVars, Height

LEMMA RequestTypes ==
  ASSUME NEW ps \in SUBSET TrackedPools, Request(ps)
  PROVE  /\ wanted' = ps /\ pending' = Part \X ps
         /\ wanted' \subseteq TrackedPools /\ pending' \subseteq Part \X wanted'
         /\ got' \in [Pools -> [Part -> Nat]]
BY DEF Request, Nothing, EntryOf

LEMMA FetchIInv ==
  ASSUME IInv, NEW block \in 0..Height, Fetch(block)
  PROVE  IInv'
<1>1. ChainTypeOK' /\ Height' = Height /\ states' = states
  BY ChainTypeUnchanged DEF IInv, Fetch
<1>2. /\ cache' = cache /\ synced' = synced /\ failures' = failures
      /\ pc' = "fetch" /\ ok' = FALSE /\ target' = block /\ target <= block
      /\ cursor' = cursor
  BY Numbers DEF Fetch, IInv
<1>3. /\ wanted' = TrackedPools /\ pending' = Part \X TrackedPools
      /\ wanted' \subseteq TrackedPools /\ pending' \subseteq Part \X wanted'
      /\ got' \in [Pools -> [Part -> Nat]]
  BY RequestTypes DEF Fetch
<1>4. TypeOK'
  <2>1. synced \in 0..Height /\ block \in synced..Height /\ cursor \in 0..block
    BY <1>2, Numbers DEF IInv
  <2>2. QED
    BY <1>1, <1>2, <1>3, <2>1 DEF IInv, TypeOK
<1>5. EntriesNotTorn'
  <2>1. 0..target \subseteq 0..block
    BY <1>2, Numbers DEF IInv
  <2>2. QED
    BY <1>1, <1>2, <2>1 DEF IInv, EntriesNotTorn
<1>6. ReadsInv'
  BY <1>3 DEF ReadsInv
<1>7. QED
  BY <1>2, <1>3, <1>4, <1>5, <1>6 DEF IInv, TrackedPools, Slots

LEMMA UpdateIInv ==
  ASSUME IInv, NEW current \in 0..Height, Update(current)
  PROVE  IInv'
<1>1. ChainTypeOK' /\ Height' = Height /\ states' = states
  BY ChainTypeUnchanged DEF IInv, Update
<1>2. /\ cache' = cache /\ synced' = synced /\ failures' = failures
      /\ pc = "idle" /\ pc' = "loop" /\ ok' = FALSE /\ target' = current
      /\ target <= current /\ cursor' = synced
      /\ wanted' = wanted /\ pending' = pending /\ got' = got
  BY Numbers DEF Update, IInv
<1>3. TypeOK'
  <2>1. synced \in 0..Height /\ current \in synced..Height /\ synced \in 0..current
    BY <1>2, Numbers DEF IInv
  <2>2. QED
    BY <1>1, <1>2, <2>1 DEF IInv, TypeOK
<1>4. EntriesNotTorn'
  <2>1. 0..target \subseteq 0..current
    BY <1>2, Numbers DEF IInv
  <2>2. QED
    BY <1>1, <1>2, <2>1 DEF IInv, EntriesNotTorn
<1>5. QED
  BY <1>2, <1>3, <1>4 DEF IInv, ReadsInv

LEMMA ReadIInv ==
  ASSUME IInv, NEW q \in Part, NEW p \in wanted, Read(q, p)
  PROVE  IInv'
<1>1. ChainTypeOK' /\ Height' = Height /\ states' = states
  BY ChainTypeUnchanged DEF IInv, Read
<1>2. /\ cache' = cache /\ synced' = synced /\ failures' = failures /\ ok' = ok
      /\ pc \in {"fetch", "refetch"} /\ pc' = pc /\ target' = target /\ cursor' = cursor
      /\ wanted' = wanted /\ pending' = pending \ {<<q, p>>}
      /\ got' = [got EXCEPT ![p][q] = states[target][p]]
  BY DEF Read, ReadBlock, UniV3PoolState
<1>3. p \in Pools /\ wanted \subseteq Pools /\ states[target][p] \in Nat
  <2>1. wanted \subseteq Pools
    BY TrackedInPools DEF IInv, TypeOK, TrackedPools
  <2>2. p \in Pools /\ target \in 0..Height
    BY <2>1, Numbers DEF IInv
  <2>3. QED
    BY <2>1, <2>2, EntryType DEF IInv
<1>4. got' \in [Pools -> [Part -> Nat]]
  BY <1>2, <1>3 DEF IInv, TypeOK
<1>5. TypeOK'
  BY <1>1, <1>2, <1>4 DEF IInv, TypeOK
<1>6. ReadsInv'
  <2>1. SUFFICES ASSUME NEW r \in Part, NEW s \in wanted, <<r, s>> \notin pending \ {<<q, p>>}
                 PROVE  got'[s][r] = states[target][s]
    BY <1>1, <1>2 DEF ReadsInv
  <2>2. CASE r = q /\ s = p
    BY <1>2, <1>3, <2>2 DEF IInv, TypeOK
  <2>3. CASE ~(r = q /\ s = p)
    <3>1. got[s][r] = states[target][s]
      BY <1>2, <2>1, <2>3 DEF IInv, ReadsInv
    <3>2. got'[s][r] = got[s][r]
      BY <1>2, <1>3, <2>3 DEF IInv, TypeOK
    <3>3. QED
      BY <3>1, <3>2
  <2>4. QED
    BY <2>2, <2>3
<1>7. QED
  BY <1>1, <1>2, <1>5, <1>6 DEF IInv, EntriesNotTorn, TrackedPools, Slots

LEMMA FetchReturnIInv ==
  ASSUME IInv, FetchReturn
  PROVE  IInv'
<1>1. ChainTypeOK' /\ Height' = Height /\ states' = states
  BY ChainTypeUnchanged DEF IInv, FetchReturn
<1>2. /\ cache' = [i \in Slots |-> got[Tracked[i]]]
      /\ pc = "fetch" /\ pc' = "idle" /\ ok' = TRUE /\ synced' = target
      /\ target' = target /\ cursor' = target /\ pending = {} /\ pending' = pending
      /\ wanted' = {} /\ got' = Nothing /\ failures' = failures
  BY DEF FetchReturn
<1>3. \A i \in Slots : Tracked[i] \in wanted
  BY <1>2 DEF IInv, TrackedPools
<1>4. \A i \in Slots : cache'[i] = EntryOf(states[target][Tracked[i]])
  BY <1>2, <1>3, AnswersNotTorn
<1>5. cache' \in [Slots -> [Part -> Nat]]
  <2>1. \A i \in Slots : cache'[i] \in [Part -> Nat]
    BY <1>4, EntryType, Numbers, TrackedInPools DEF IInv
  <2>2. QED
    BY <1>2, <2>1
<1>6. TypeOK'
  <2>1. got' \in [Pools -> [Part -> Nat]]
    BY <1>2 DEF Nothing, EntryOf
  <2>2. target \in 0..Height /\ target \in target..Height /\ target \in 0..target
    BY Numbers DEF IInv
  <2>3. QED
    BY <1>1, <1>2, <1>5, <2>1, <2>2 DEF IInv, TypeOK
<1>7. EntriesNotTorn'
  <2>1. target \in 0..target
    BY Numbers DEF IInv
  <2>2. QED
    BY <1>1, <1>2, <1>4, <2>1 DEF EntriesNotTorn
<1>8. QED
  BY <1>2, <1>6, <1>7 DEF IInv, ReadsInv

LEMMA QueryWindowIInv ==
  ASSUME IInv, QueryWindow
  PROVE  IInv'
<1>1. ChainTypeOK' /\ Height' = Height /\ states' = states
  BY ChainTypeUnchanged DEF IInv, QueryWindow
<1>2. /\ pc = "loop" /\ pc' = "logs"
      /\ UNCHANGED <<cache, synced, ok, target, cursor, wanted, pending, got, failures>>
  BY DEF QueryWindow
<1>3. TypeOK'
  BY <1>1, <1>2 DEF IInv, TypeOK
<1>4. QED
  BY <1>1, <1>2, <1>3 DEF IInv, ReadsInv, EntriesNotTorn

(* The emitters of a window are fetched again: of the extra addresses a    *)
(* node may answer with, none is kept.                                     *)
LEMMA GetLogsRequests ==
  ASSUME GetLogs
  PROVE  Request({p \in TrackedPools : Logged(p, cursor, ToBlock, Watched) # {}})
<1> DEFINE emitters == {p \in TrackedPools : Logged(p, cursor, ToBlock, Watched) # {}}
<1>1. PICK extra \in SUBSET (Pools \ TrackedPools) : Request(Kept(emitters \cup extra))
  BY DEF GetLogs, AfterBlock
<1>2. Kept(emitters \cup extra) = emitters
  BY DEF Kept
<1>3. QED
  BY <1>1, <1>2

LEMMA GetLogsIInv ==
  ASSUME IInv, GetLogs
  PROVE  IInv'
<1>1. ChainTypeOK' /\ Height' = Height /\ states' = states
  BY ChainTypeUnchanged DEF IInv, GetLogs
<1>2. /\ pc = "logs" /\ pc' = "refetch"
      /\ UNCHANGED <<cache, synced, ok, target, cursor, failures>>
  BY DEF GetLogs
<1>3. PICK ps \in SUBSET TrackedPools : Request(ps)
  BY GetLogsRequests
<1>4. /\ wanted' = ps /\ pending' = Part \X ps
      /\ wanted' \subseteq TrackedPools /\ pending' \subseteq Part \X wanted'
      /\ got' \in [Pools -> [Part -> Nat]]
  BY <1>3, RequestTypes
<1>5. TypeOK'
  BY <1>1, <1>2, <1>4 DEF IInv, TypeOK
<1>6. ReadsInv'
  BY <1>4 DEF ReadsInv
<1>7. QED
  BY <1>1, <1>2, <1>5, <1>6 DEF IInv, EntriesNotTorn

(* An entry is replaced by what was fetched for its pool, or stays.        *)
LEMMA AppliedEntry ==
  ASSUME IInv, ApplyWindow, NEW i \in Slots
  PROVE  /\ Tracked[i] \in wanted /\ FirstEntry(i) =>
              cache'[i] = EntryOf(states[target][Tracked[i]])
         /\ ~(Tracked[i] \in wanted /\ FirstEntry(i)) => cache'[i] = cache[i]
<1>1. cache'[i] = IF \E p \in wanted : IsEntryOf(i, p)
                  THEN got[CHOOSE p \in wanted : IsEntryOf(i, p)] ELSE cache[i]
  BY DEF ApplyWindow
<1>2. \A p : IsEntryOf(i, p) <=> p = Tracked[i] /\ FirstEntry(i)
  BY DEF IsEntryOf, FirstEntry
<1>3. ASSUME Tracked[i] \in wanted, FirstEntry(i)
      PROVE  cache'[i] = EntryOf(states[target][Tracked[i]])
  <2>1. (CHOOSE p \in wanted : IsEntryOf(i, p)) = Tracked[i]
    BY <1>2, <1>3
  <2>2. cache'[i] = got[Tracked[i]]
    BY <1>1, <1>2, <1>3, <2>1
  <2>3. QED
    BY <1>3, <2>2, AnswersNotTorn DEF ApplyWindow
<1>4. QED
  BY <1>1, <1>2, <1>3

LEMMA ApplyWindowIInv ==
  ASSUME IInv, ApplyWindow
  PROVE  IInv'
<1>1. ChainTypeOK' /\ Height' = Height /\ states' = states
  BY ChainTypeUnchanged DEF IInv, ApplyWindow
<1>2. /\ pc = "refetch" /\ pc' = "loop" /\ pending = {} /\ pending' = pending
      /\ cursor' = ToBlock /\ wanted' = {} /\ got' = Nothing
      /\ UNCHANGED <<synced, ok, target, failures>>
      /\ cache' = [i \in Slots |-> cache'[i]]
  BY DEF ApplyWindow
<1>3. /\ ToBlock \in 0..target /\ target \in 0..target /\ target \in 0..Height
  BY Numbers DEF IInv
<1>4. \A i \in Slots : cache'[i] \in [Part -> Nat]
  <2>1. TAKE i \in Slots
  <2>2. cache'[i] \in {cache[i], EntryOf(states[target][Tracked[i]])}
    BY AppliedEntry
  <2>3. cache[i] \in [Part -> Nat]
    BY DEF IInv, TypeOK
  <2>4. EntryOf(states[target][Tracked[i]]) \in [Part -> Nat]
    BY <1>3, EntryType, TrackedInPools DEF IInv
  <2>5. QED
    BY <2>2, <2>3, <2>4
<1>5. TypeOK'
  <2>1. got' \in [Pools -> [Part -> Nat]]
    BY <1>2 DEF Nothing, EntryOf
  <2>2. cache' \in [Slots -> [Part -> Nat]]
    BY <1>2, <1>4
  <2>3. QED
    BY <1>1, <1>2, <1>3, <2>1, <2>2 DEF IInv, TypeOK
<1>6. EntriesNotTorn'
  <2>1. SUFFICES ASSUME NEW i \in Slots
                 PROVE  \E b \in 0..target : cache'[i] = EntryOf(states[b][Tracked[i]])
    BY <1>1, <1>2 DEF EntriesNotTorn
  <2>2. cache'[i] \in {cache[i], EntryOf(states[target][Tracked[i]])}
    BY AppliedEntry
  <2>3. QED
    BY <1>3, <2>2 DEF IInv, EntriesNotTorn
<1>7. QED
  BY <1>2, <1>5, <1>6 DEF IInv, ReadsInv

LEMMA UpdateReturnIInv ==
  ASSUME IInv, UpdateReturn
  PROVE  IInv'
<1>1. ChainTypeOK' /\ Height' = Height /\ states' = states
  BY ChainTypeUnchanged DEF IInv, UpdateReturn
<1>2. /\ pc = "loop" /\ pc' = "idle" /\ ok' = TRUE /\ synced' = target
      /\ UNCHANGED <<cache, target, cursor, wanted, pending, got, failures>>
  BY DEF UpdateReturn
<1>3. target \in 0..Height /\ target \in target..Height
  BY Numbers DEF IInv
<1>4. TypeOK'
  BY <1>1, <1>2, <1>3 DEF IInv, TypeOK
<1>5. QED
  BY <1>1, <1>2, <1>4 DEF IInv, ReadsInv, EntriesNotTorn

LEMMA FailIInv ==
  ASSUME IInv, Fail
  PROVE  IInv'
<1>1. ChainTypeOK' /\ Height' = Height /\ states' = states
  BY ChainTypeUnchanged DEF IInv, Fail
<1>2. /\ pc' = "idle" /\ wanted' = {} /\ pending' = {} /\ got' = Nothing
      /\ failures < MaxFailures /\ failures' = failures + 1
      /\ UNCHANGED <<cache, synced, ok, target, cursor>>
  BY DEF Fail
<1>3. TypeOK'
  <2>1. got' \in [Pools -> [Part -> Nat]]
    BY <1>2 DEF Nothing, EntryOf
  <2>2. failures' \in 0..MaxFailures
    BY <1>2, SyncAssumption DEF IInv, TypeOK
  <2>3. QED
    BY <1>1, <1>2, <2>1, <2>2 DEF IInv, TypeOK
<1>4. QED
  BY <1>1, <1>2, <1>3 DEF IInv, ReadsInv, EntriesNotTorn

LEMMA MineBlockIInv ==
  ASSUME IInv, MineBlock
  PROVE  IInv'
<1>1. Mine /\ ChainTypeOK
  BY DEF MineBlock, IInv, TypeOK
<1>2. /\ Height \in Nat /\ Height' = Height + 1 /\ ChainTypeOK'
      /\ \A b \in 0..Height : states'[b] = states[b]
  BY <1>1, MineEffect
<1>3. UNCHANGED <<cache, synced, ok, pc, target, cursor, wanted, pending, got, failures>>
  BY DEF MineBlock, clientVars
<1>4. synced \in 0..Height /\ target \in 0..Height /\ \A b \in 0..target : b \in 0..Height
  BY Numbers DEF IInv
<1>5. TypeOK'
  <2>1. synced \in 0..(Height + 1) /\ target \in synced..(Height + 1)
    BY <1>2, Numbers DEF IInv
  <2>2. QED
    BY <1>2, <1>3, <2>1 DEF IInv, TypeOK
<1>6. ReadsInv'
  BY <1>2, <1>3, <1>4 DEF IInv, ReadsInv
<1>7. EntriesNotTorn'
  BY <1>2, <1>3, <1>4 DEF IInv, EntriesNotTorn
<1>8. QED
  BY <1>3, <1>5, <1>6, <1>7 DEF IInv, TrackedPools, Slots

LEMMA NextIInv == IInv /\ [Next]_vars => IInv'
<1> SUFFICES ASSUME IInv, [Next]_vars PROVE IInv'
  OBVIOUS
<1>1. CASE MineBlock
  BY <1>1, MineBlockIInv
<1>2. ASSUME NEW b \in 0..Height, Fetch(b) PROVE IInv'
  BY <1>2, FetchIInv
<1>3. ASSUME NEW b \in 0..Height, Update(b) PROVE IInv'
  BY <1>3, UpdateIInv
<1>4. ASSUME NEW q \in Part, NEW p \in wanted, Read(q, p) PROVE IInv'
  BY <1>4, ReadIInv
<1>5. CASE FetchReturn
  BY <1>5, FetchReturnIInv
<1>6. CASE QueryWindow
  BY <1>6, QueryWindowIInv
<1>7. CASE GetLogs
  BY <1>7, GetLogsIInv
<1>8. CASE ApplyWindow
  BY <1>8, ApplyWindowIInv
<1>9. CASE UpdateReturn
  BY <1>9, UpdateReturnIInv
<1>10. CASE Fail
  BY <1>10, FailIInv
<1>11. CASE UNCHANGED vars
  <2>1. UNCHANGED chainVars /\ UNCHANGED clientVars
    BY <1>11 DEF vars, chainVars
  <2>2. ChainTypeOK' /\ Height' = Height /\ states' = states
    BY <2>1, ChainTypeUnchanged DEF IInv
  <2>3. TypeOK'
    BY <2>1, <2>2 DEF IInv, TypeOK, clientVars
  <2>4. QED
    BY <2>1, <2>2, <2>3 DEF IInv, clientVars, ReadsInv, EntriesNotTorn, TrackedPools, Slots
<1>12. QED
  BY <1>1, <1>2, <1>3, <1>4, <1>5, <1>6, <1>7, <1>8, <1>9, <1>10, <1>11 DEF Next, Client

-----------------------------------------------------------------------------
(* Every reachable state satisfies the inductive invariant.                *)
THEOREM Invariance == Spec => []IInv
BY InitIInv, NextIInv, PTL DEF Spec

(* The state of the client and of the chain keep their types.              *)
THEOREM TypeCorrect == Spec => []TypeOK
<1>1. IInv => TypeOK
  BY DEF IInv
<1>2. QED
  BY <1>1, Invariance, PTL

(* Price and ticks of an entry are of one state of that very pool, whoever *)
(* mines blocks between the requests and whichever of them fail.           *)
THEOREM EntriesNotTornCorrect == Spec => []EntriesNotTorn
<1>1. IInv => EntriesNotTorn
  BY DEF IInv
<1>2. QED
  BY <1>1, Invariance, PTL

-----------------------------------------------------------------------------
(* A window without a watched event of a pool has none that changes it.    *)
LEMMA UnwatchedIsSilent ==
  ASSUME AllWatched, TypeOK, NoFirst, NEW p \in Pools,
         NEW lo \in 0..Height, NEW hi \in 0..Height, Logged(p, lo, hi, Watched) = {}
  PROVE  Silent(p, lo, hi)
<1>1. Height \in Nat
  BY Numbers
<1>2. SUFFICES ASSUME NEW b \in (lo + 1)..hi, NEW j \in DOMAIN logs[b],
                      logs[b][j].address = p, logs[b][j].kind \in StateKinds
               PROVE  FALSE
  BY DEF Silent, Logged
<1>3. b \in 1..Height
  BY <1>1
<1>4. logs[b][j].kind \in LaterKinds
  BY <1>3 DEF NoFirst
<1>5. logs[b][j].kind \in Watched
  BY <1>2, <1>4 DEF AllWatched
<1>6. b \in Logged(p, lo, hi, Watched)
  BY <1>2, <1>5 DEF Logged
<1>7. QED
  BY <1>6

(* Silence of two adjoining ranges is silence of both together. *)
LEMMA SilentJoins ==
  ASSUME NEW p, NEW lo \in Int, NEW mid \in Int, NEW hi \in Int,
         Silent(p, lo, mid), Silent(p, mid, hi)
  PROVE  Silent(p, lo, hi)
<1>1. \A b \in (lo + 1)..hi : b \in (lo + 1)..mid \/ b \in (mid + 1)..hi
  OBVIOUS
<1>2. QED
  BY <1>1 DEF Silent, Logged

(* An entry of a pool that has been silent since is at the target too.     *)
LEMMA SilentIsExact ==
  ASSUME TypeOK, ChainInv, RecentInv, NEW i \in FirstSlots,
         Silent(Tracked[i], synced, target)
  PROVE  At(i, target)
<1>1. PICK b \in synced..target : At(i, b)
  BY DEF RecentInv
<1>2. /\ b \in 0..Height /\ target \in 0..Height /\ synced \in 0..Height
      /\ b <= target /\ Tracked[i] \in Pools
  BY <1>1, Numbers, TrackedInPools DEF FirstSlots
<1>3. Silent(Tracked[i], b, target)
  <2>1. \A c \in (b + 1)..target : c \in (synced + 1)..target
    BY <1>1, <1>2
  <2>2. QED
    BY <2>1 DEF Silent, Logged
<1>4. states[target][Tracked[i]] = states[b][Tracked[i]]
  BY <1>2, <1>3 DEF ChainInv, Quiet
<1>5. QED
  BY <1>1, <1>4 DEF At

(* What a step of the client that leaves the chain alone leaves of the     *)
(* facts about it.                                                         *)
LEMMA FactsUnchanged ==
  ASSUME ChainInv, NoFirst, UNCHANGED chainVars
  PROVE  /\ ChainInv' /\ NoFirst' /\ Height' = Height
         /\ logs' = logs /\ states' = states
         /\ \A p, lo, hi : Silent(p, lo, hi)' <=> Silent(p, lo, hi)
<1>1. logs' = logs /\ states' = states
  BY DEF chainVars
<1>3. ChainInv' /\ Height' = Height
  BY ChainUnchanged
<1>4. NoFirst'
  BY <1>1, <1>3 DEF NoFirst
<1>5. \A p, lo, hi : Silent(p, lo, hi)' <=> Silent(p, lo, hi)
  BY <1>1 DEF Silent, Logged
<1>6. QED
  BY <1>1, <1>3, <1>4, <1>5

-----------------------------------------------------------------------------
LEMMA InitExact ==
  ASSUME Initialised, Init
  PROVE  ExactInv
<1>1. ChainInv /\ IInv /\ TypeOK
  BY ChainInitInv, InitIInv DEF Init, IInv
<1>2. Height = 0
  BY DEF Init, ChainInit, Height
<1>3. cache = Snapshot(0) /\ synced = 0 /\ target = 0 /\ ok = TRUE /\ pc = "idle"
  BY DEF Init
<1>4. NoFirst
  <2>1. PICK g \in [Pools -> Genesis] : states = [b \in {0} |-> g]
    BY DEF Init, ChainInit
  <2>2. \A p \in Pools, b \in 0..Height : states[b][p] # 0
    BY <1>2, <2>1 DEF Initialised
  <2>3. QED
    BY <1>2, <2>2 DEF NoFirst
<1>5. RecentInv
  BY <1>3 DEF RecentInv, At, Snapshot, FirstSlots
<1>6. OkMeansExact
  BY <1>3 DEF OkMeansExact
<1>7. QED
  BY <1>1, <1>3, <1>4, <1>5, <1>6 DEF ExactInv, LoopInv, RefetchInv

LEMMA FetchExact ==
  ASSUME IInv, ExactInv, NEW block \in 0..Height, Fetch(block)
  PROVE  ExactInv'
<1>1. ChainInv' /\ NoFirst' /\ states' = states
  BY FactsUnchanged DEF ExactInv, Fetch
<1>2. /\ cache' = cache /\ synced' = synced /\ pc' = "fetch" /\ ok' = FALSE
      /\ target' = block /\ target <= block /\ cursor' = cursor
  BY Numbers DEF Fetch, IInv
<1>3. RecentInv'
  <2>1. \A b \in synced..target : b \in synced..block
    BY <1>2, Numbers DEF IInv
  <2>2. QED
    BY <1>1, <1>2, <2>1 DEF ExactInv, RecentInv, At
<1>4. QED
  BY <1>1, <1>2, <1>3 DEF ExactInv, OkMeansExact, LoopInv, RefetchInv

LEMMA UpdateExact ==
  ASSUME IInv, ExactInv, NEW current \in 0..Height, Update(current)
  PROVE  ExactInv'
<1>1. ChainInv' /\ NoFirst' /\ states' = states
  BY FactsUnchanged DEF ExactInv, Update
<1>2. /\ cache' = cache /\ synced' = synced /\ pc' = "loop" /\ ok' = FALSE
      /\ target' = current /\ target <= current /\ cursor' = synced
      /\ synced \in Nat
  BY Numbers DEF Update, IInv
<1>3. RecentInv'
  <2>1. \A b \in synced..target : b \in synced..current
    BY <1>2, Numbers DEF IInv
  <2>2. QED
    BY <1>1, <1>2, <2>1 DEF ExactInv, RecentInv, At
<1>4. LoopInv'
  <2>1. (synced + 1)..synced = {}
    BY <1>2
  <2>2. \A p : Silent(p, synced, cursor)'
    BY <1>2, <2>1 DEF Silent, Logged
  <2>3. QED
    BY <1>2, <2>2 DEF LoopInv
<1>5. QED
  BY <1>1, <1>2, <1>3, <1>4 DEF ExactInv, OkMeansExact, RefetchInv

LEMMA ReadExact ==
  ASSUME IInv, ExactInv, NEW q \in Part, NEW p \in wanted, Read(q, p)
  PROVE  ExactInv'
<1>1. /\ ChainInv' /\ NoFirst' /\ states' = states /\ logs' = logs
      /\ \A r, lo, hi : Silent(r, lo, hi)' <=> Silent(r, lo, hi)
  BY FactsUnchanged DEF ExactInv, Read
<1>2. UNCHANGED <<cache, synced, ok, pc, target, cursor, wanted>>
  BY DEF Read
<1>3. OkMeansExact' /\ RecentInv'
  BY <1>1, <1>2 DEF ExactInv, OkMeansExact, Snapshot, RecentInv, At
<1>4. LoopInv' /\ RefetchInv'
  BY <1>1, <1>2 DEF ExactInv, LoopInv, At, RefetchInv, Logged, ToBlock
<1>5. QED
  BY <1>1, <1>2, <1>3, <1>4 DEF ExactInv

(* fetch_pools returns a snapshot at the target. *)
LEMMA FetchReturnsSnapshot ==
  ASSUME IInv, FetchReturn
  PROVE  \A i \in Slots : cache'[i] = EntryOf(states[target][Tracked[i]])
<1>1. pc = "fetch" /\ pending = {} /\ \A i \in Slots : cache'[i] = got[Tracked[i]]
  BY DEF FetchReturn
<1>2. \A i \in Slots : Tracked[i] \in wanted
  BY <1>1 DEF IInv, TrackedPools
<1>3. QED
  BY <1>1, <1>2, AnswersNotTorn

LEMMA FetchReturnExact ==
  ASSUME IInv, ExactInv, FetchReturn
  PROVE  ExactInv'
<1>1. ChainInv' /\ NoFirst' /\ states' = states
  BY FactsUnchanged DEF ExactInv, FetchReturn
<1>2. /\ pc' = "idle" /\ ok' = TRUE /\ synced' = target /\ target' = target
      /\ target \in target..target
  BY Numbers DEF FetchReturn, IInv
<1>3. \A i \in Slots : cache'[i] = EntryOf(states[target][Tracked[i]])
  BY FetchReturnsSnapshot
<1>4. OkMeansExact' /\ RecentInv'
  BY <1>1, <1>2, <1>3 DEF OkMeansExact, Snapshot, RecentInv, At, FirstSlots
<1>5. QED
  BY <1>1, <1>2, <1>4 DEF ExactInv, LoopInv, RefetchInv

LEMMA QueryWindowExact ==
  ASSUME IInv, ExactInv, QueryWindow
  PROVE  ExactInv'
<1>1. /\ ChainInv' /\ NoFirst' /\ states' = states
      /\ \A r, lo, hi : Silent(r, lo, hi)' <=> Silent(r, lo, hi)
  BY FactsUnchanged DEF ExactInv, QueryWindow
<1>2. /\ UNCHANGED <<cache, synced, ok, target, cursor>>
      /\ pc = "loop" /\ pc' = "logs" /\ cursor < target
  BY DEF QueryWindow, MoreBlocks
<1>3. RecentInv' /\ LoopInv'
  BY <1>1, <1>2 DEF ExactInv, RecentInv, At, LoopInv
<1>4. QED
  BY <1>1, <1>2, <1>3 DEF ExactInv, OkMeansExact, RefetchInv

LEMMA GetLogsExact ==
  ASSUME IInv, ExactInv, GetLogs
  PROVE  ExactInv'
<1>1. /\ ChainInv' /\ NoFirst' /\ states' = states /\ logs' = logs
      /\ \A r, lo, hi : Silent(r, lo, hi)' <=> Silent(r, lo, hi)
  BY FactsUnchanged DEF ExactInv, GetLogs
<1>2. /\ UNCHANGED <<cache, synced, ok, target, cursor>>
      /\ pc = "logs" /\ pc' = "refetch"
  BY DEF GetLogs
<1>3. RecentInv' /\ LoopInv'
  BY <1>1, <1>2 DEF ExactInv, RecentInv, At, LoopInv
<1>4. RefetchInv'
  <2>1. wanted' = {p \in TrackedPools : Logged(p, cursor, ToBlock, Watched) # {}}
    BY GetLogsRequests DEF Request
  <2>2. QED
    BY <1>1, <1>2, <2>1 DEF RefetchInv, Logged, ToBlock
<1>5. QED
  BY <1>1, <1>2, <1>3, <1>4 DEF ExactInv, OkMeansExact

LEMMA ApplyWindowExact ==
  ASSUME AllWatched, IInv, ExactInv, ApplyWindow
  PROVE  ExactInv'
<1>1. /\ ChainInv' /\ NoFirst' /\ states' = states
      /\ \A r, lo, hi : Silent(r, lo, hi)' <=> Silent(r, lo, hi)
  BY FactsUnchanged DEF ExactInv, ApplyWindow
<1>2. /\ UNCHANGED <<synced, ok, target>>
      /\ pc = "refetch" /\ pc' = "loop" /\ cursor' = ToBlock
  BY DEF ApplyWindow
<1>3. /\ ToBlock \in 0..Height /\ cursor \in 0..Height /\ synced \in 0..Height
      /\ target \in 0..Height /\ cursor <= ToBlock /\ synced <= target
      /\ Height \in Nat
  BY Numbers DEF IInv
<1>4. ASSUME NEW i \in FirstSlots
      PROVE  /\ \E b \in synced..target : At(i, b)'
             /\ At(i, target)' \/ Silent(Tracked[i], synced, ToBlock)
  <2>1. i \in Slots /\ FirstEntry(i) /\ Tracked[i] \in Pools /\ Tracked[i] \in TrackedPools
    BY TrackedInPools DEF FirstSlots, TrackedPools
  <2>2. CASE Tracked[i] \in wanted
    <3>1. cache'[i] = EntryOf(states[target][Tracked[i]])
      BY <2>1, <2>2, AppliedEntry
    <3>2. At(i, target)' /\ target \in synced..target
      BY <1>1, <1>2, <1>3, <3>1 DEF At
    <3>3. QED
      BY <1>2, <3>2
  <2>3. CASE Tracked[i] \notin wanted
    <3>1. cache'[i] = cache[i]
      BY <2>1, <2>3, AppliedEntry
    <3>2. \A b : At(i, b) => cache'[i] = EntryOf(states'[b][Tracked[i]])
      BY <1>1, <3>1 DEF At
    <3>3. At(i, target) \/ Silent(Tracked[i], synced, cursor)
      BY <1>2 DEF ExactInv, LoopInv
    <3>4. Logged(Tracked[i], cursor, ToBlock, Watched) = {}
      BY <1>2, <2>1, <2>3 DEF ExactInv, RefetchInv
    <3>5. Silent(Tracked[i], cursor, ToBlock)
      BY <1>3, <2>1, <3>4, UnwatchedIsSilent DEF IInv, ExactInv
    <3>6. Silent(Tracked[i], synced, cursor) => Silent(Tracked[i], synced, ToBlock)
      BY <1>3, <3>5, SilentJoins
    <3>7. PICK b \in synced..target : At(i, b)
      BY DEF ExactInv, RecentInv
    <3>8. QED
      BY <1>2, <3>2, <3>3, <3>6, <3>7 DEF At
  <2>4. QED
    BY <2>2, <2>3
<1>5. RecentInv'
  BY <1>2, <1>4 DEF RecentInv, At
<1>6. LoopInv'
  BY <1>1, <1>2, <1>3, <1>4 DEF ExactInv, LoopInv, At
<1>7. ok = FALSE
  BY <1>2 DEF IInv, TypeOK, ExactInv
<1>8. QED
  BY <1>1, <1>2, <1>5, <1>6, <1>7 DEF ExactInv, OkMeansExact, RefetchInv

(* update_pools_mut returns Ok: every first entry is at the target. *)
LEMMA UpdateReturnsSnapshot ==
  ASSUME IInv, ExactInv, UpdateReturn
  PROVE  \A i \in FirstSlots : At(i, target)
<1>1. cursor = target /\ pc = "loop"
  BY Numbers DEF IInv, UpdateReturn, MoreBlocks
<1>2. \A i \in FirstSlots : At(i, target) \/ Silent(Tracked[i], synced, target)
  BY <1>1 DEF ExactInv, LoopInv
<1>3. QED
  BY <1>2, SilentIsExact DEF IInv, ExactInv

LEMMA UpdateReturnExact ==
  ASSUME IInv, ExactInv, UpdateReturn
  PROVE  ExactInv'
<1>1. ChainInv' /\ NoFirst' /\ states' = states
  BY FactsUnchanged DEF ExactInv, UpdateReturn
<1>2. /\ pc' = "idle" /\ ok' = TRUE /\ synced' = target /\ target' = target
      /\ cache' = cache /\ target \in target..target
  BY Numbers DEF UpdateReturn, IInv
<1>3. \A i \in FirstSlots : At(i, target)
  BY UpdateReturnsSnapshot
<1>4. OkMeansExact' /\ RecentInv'
  BY <1>1, <1>2, <1>3 DEF OkMeansExact, Snapshot, RecentInv, At, FirstSlots
<1>5. QED
  BY <1>1, <1>2, <1>4 DEF ExactInv, LoopInv, RefetchInv

LEMMA FailExact ==
  ASSUME IInv, ExactInv, Fail
  PROVE  ExactInv'
<1>1. ChainInv' /\ NoFirst' /\ states' = states
  BY FactsUnchanged DEF ExactInv, Fail
<1>2. /\ UNCHANGED <<cache, synced, ok, target>> /\ pc # "idle" /\ pc' = "idle"
  BY DEF Fail
<1>3. RecentInv'
  BY <1>1, <1>2 DEF ExactInv, RecentInv, At
<1>4. ok = FALSE
  BY <1>2 DEF IInv, TypeOK, ExactInv
<1>5. QED
  BY <1>1, <1>2, <1>3, <1>4 DEF ExactInv, OkMeansExact, LoopInv, RefetchInv

(* An initialised pool never emits the events of the first initialisation. *)
LEMMA MineNoFirst ==
  ASSUME ChainTypeOK, NoFirst, Mine
  PROVE  NoFirst'
<1>0. /\ Height \in Nat /\ Height' = Height + 1
      /\ \A b \in 1..Height : logs'[b] = logs[b]
      /\ \A b \in 0..Height : states'[b] = states[b]
  BY MineEffect
<1>1. PICK n \in Nat : \E block \in [1..n -> Emitted] :
        /\ Legal(states[Height], block)
        /\ logs'[Height + 1] = Emit(states[Height], block)
        /\ \A p \in Pools : states'[Height + 1][p] = Version(states[Height], block, p, n)
  BY MineEffect
<1>2. PICK block \in [1..n -> Emitted] :
        /\ Legal(states[Height], block)
        /\ logs'[Height + 1] = Emit(states[Height], block)
        /\ \A p \in Pools : states'[Height + 1][p] = Version(states[Height], block, p, n)
  BY <1>1
<1>3. PICK pre \in [Pools -> Nat] : pre = states[Height]
  BY MineEffect
<1>4. \A p \in Pools : pre[p] # 0
  BY <1>0, <1>3 DEF NoFirst
<1>5. \A p \in Pools : states'[Height + 1][p] # 0
  <2>1. TAKE p \in Pools
  <2>2. PICK v \in Nat : v = pre[p] /\ v # 0
    BY <1>4
  <2>3. Version(pre, block, p, n) \in Nat /\ Version(pre, block, p, n) >= v
    BY <2>2, VersionProps
  <2>4. QED
    BY <1>2, <1>3, <2>2, <2>3
<1>6. \A i \in 1..n : block[i].kind \in LaterKinds
  <2>1. TAKE i \in 1..n
  <2>2. PICK a \in Pools : a = block[i].address
    BY DEF Emitted
  <2>3. PICK k \in Nat : k = i - 1
    OBVIOUS
  <2>4. PICK v \in Nat : v = pre[a] /\ v # 0
    BY <1>4
  <2>5. Version(pre, block, a, k) \in Nat /\ Version(pre, block, a, k) >= v
    BY <2>4, VersionProps
  <2>6. i \in DOMAIN block
    OBVIOUS
  <2>7. block[i].kind \in IF Version(pre, block, a, k) = 0 THEN FirstKinds ELSE LaterKinds
    BY <1>2, <1>3, <2>2, <2>3, <2>6 DEF Legal
  <2>8. QED
    BY <2>4, <2>5, <2>7
<1>7. \A j \in DOMAIN logs'[Height + 1] : logs'[Height + 1][j].kind \in LaterKinds
  <2>1. /\ DOMAIN Emit(pre, block) = 1..n
        /\ \A i \in 1..n : Emit(pre, block)[i].kind = block[i].kind
    BY EmitProps
  <2>2. QED
    BY <1>2, <1>3, <1>6, <2>1
<1>8. \A p \in Pools, b \in 0..(Height + 1) : states'[b][p] # 0
  <2>1. TAKE p \in Pools, b \in 0..(Height + 1)
  <2>2. b \in 0..Height \/ b = Height + 1
    BY <1>0
  <2>3. QED
    BY <1>0, <1>5, <2>2 DEF NoFirst
<1>9. \A b \in 1..(Height + 1) : \A j \in DOMAIN logs'[b] : logs'[b][j].kind \in LaterKinds
  <2>1. TAKE b \in 1..(Height + 1)
  <2>2. b \in 1..Height \/ b = Height + 1
    BY <1>0
  <2>3. QED
    BY <1>0, <1>7, <2>2 DEF NoFirst
<1>10. QED
  BY <1>0, <1>8, <1>9 DEF NoFirst

(* A block is mined: nothing is said about blocks that do not exist yet.   *)
LEMMA MineBlockExact ==
  ASSUME IInv, ExactInv, MineBlock
  PROVE  ExactInv'
<1>1. Mine /\ ChainTypeOK
  BY DEF MineBlock, IInv, TypeOK
<1>2. Height \in Nat /\ \A b \in 0..Height : states'[b] = states[b]
  BY <1>1, MineEffect
<1>3. UNCHANGED <<cache, synced, ok, pc, target, cursor, wanted>>
  BY DEF MineBlock, clientVars
<1>4. ChainInv' /\ NoFirst'
  BY <1>1, MineInv, MineNoFirst DEF ExactInv
<1>5. /\ synced \in 0..Height /\ target \in 0..Height /\ cursor \in 0..Height
      /\ ToBlock \in 0..Height /\ \A b \in synced..target : b \in 0..Height
  BY Numbers DEF IInv
<1>6. OkMeansExact' /\ RecentInv'
  BY <1>2, <1>3, <1>5 DEF ExactInv, OkMeansExact, Snapshot, RecentInv, At
<1>7. \A kinds : \A p \in Pools, lo, hi \in 0..Height :
        Logged(p, lo, hi, kinds)' = Logged(p, lo, hi, kinds)
  BY <1>1, LoggedStable
<1>8. ToBlock' = ToBlock
  BY <1>3 DEF ToBlock
<1>9. LoopInv'
  <2>1. \A i \in FirstSlots : Silent(Tracked[i], synced, cursor) =>
                               Silent(Tracked[i], synced, cursor)'
    <3>1. TAKE i \in FirstSlots
    <3>2. Tracked[i] \in Pools
      BY TrackedInPools DEF FirstSlots
    <3>3. PICK lo, hi \in 0..Height : lo = synced /\ hi = cursor
      BY <1>5
    <3>4. Logged(Tracked[i], lo, hi, StateKinds)' = Logged(Tracked[i], lo, hi, StateKinds)
      BY <1>7, <3>2
    <3>5. QED
      BY <1>3, <3>3, <3>4 DEF Silent, Logged
  <2>2. QED
    BY <1>2, <1>3, <1>5, <2>1 DEF ExactInv, LoopInv, At
<1>10. RefetchInv'
  <2>1. \A p \in TrackedPools : Logged(p, cursor, ToBlock, Watched)' =
                                 Logged(p, cursor, ToBlock, Watched)
    <3>1. TAKE p \in TrackedPools
    <3>2. p \in Pools
      BY TrackedInPools DEF TrackedPools
    <3>3. PICK lo, hi \in 0..Height : lo = cursor /\ hi = ToBlock
      BY <1>5
    <3>4. Logged(p, lo, hi, Watched)' = Logged(p, lo, hi, Watched)
      BY <1>7, <3>2
    <3>5. QED
      BY <1>3, <1>8, <3>3, <3>4 DEF Logged
  <2>2. QED
    BY <1>3, <2>1 DEF ExactInv, RefetchInv
<1>11. QED
  BY <1>3, <1>4, <1>6, <1>9, <1>10 DEF ExactInv

LEMMA NextExact ==
  ASSUME AllWatched
  PROVE  IInv /\ ExactInv /\ [Next]_vars => ExactInv'
<1> SUFFICES ASSUME IInv, ExactInv, [Next]_vars PROVE ExactInv'
  OBVIOUS
<1>1. CASE MineBlock
  BY <1>1, MineBlockExact
<1>2. ASSUME NEW b \in 0..Height, Fetch(b) PROVE ExactInv'
  BY <1>2, FetchExact
<1>3. ASSUME NEW b \in 0..Height, Update(b) PROVE ExactInv'
  BY <1>3, UpdateExact
<1>4. ASSUME NEW q \in Part, NEW p \in wanted, Read(q, p) PROVE ExactInv'
  BY <1>4, ReadExact
<1>5. CASE FetchReturn
  BY <1>5, FetchReturnExact
<1>6. CASE QueryWindow
  BY <1>6, QueryWindowExact
<1>7. CASE GetLogs
  BY <1>7, GetLogsExact
<1>8. CASE ApplyWindow
  BY <1>8, ApplyWindowExact
<1>9. CASE UpdateReturn
  BY <1>9, UpdateReturnExact
<1>10. CASE Fail
  BY <1>10, FailExact
<1>11. CASE UNCHANGED vars
  <2>1. UNCHANGED chainVars /\ UNCHANGED clientVars
    BY <1>11 DEF vars, chainVars
  <2>2. /\ ChainInv' /\ NoFirst' /\ states' = states /\ logs' = logs
        /\ \A r, lo, hi : Silent(r, lo, hi)' <=> Silent(r, lo, hi)
    BY <2>1, FactsUnchanged DEF ExactInv
  <2>3. UNCHANGED <<cache, synced, ok, pc, target, cursor, wanted>>
    BY <2>1 DEF clientVars
  <2>4. OkMeansExact' /\ RecentInv'
    BY <2>2, <2>3 DEF ExactInv, OkMeansExact, Snapshot, RecentInv, At
  <2>5. LoopInv' /\ RefetchInv'
    BY <2>2, <2>3 DEF ExactInv, LoopInv, At, RefetchInv, Logged, ToBlock
  <2>6. QED
    BY <2>2, <2>3, <2>4, <2>5 DEF ExactInv
<1>12. QED
  BY <1>1, <1>2, <1>3, <1>4, <1>5, <1>6, <1>7, <1>8, <1>9, <1>10, <1>11 DEF Next, Client

LEMMA ExactInvariance ==
  ASSUME Initialised, AllWatched
  PROVE  Spec => [](IInv /\ ExactInv)
<1>1. Init => ExactInv
  BY InitExact
<1>2. IInv /\ ExactInv /\ [Next]_vars => ExactInv'
  BY NextExact
<1>3. QED
  BY <1>1, <1>2, InitIInv, NextIInv, PTL DEF Spec

(* On initialised pools: when fetch_pools or update_pools_mut has returned *)
(* Ok, the first entry of every pool is exactly its state at the block     *)
(* that was asked for.                                                     *)
THEOREM OkMeansExactCorrect ==
  ASSUME Initialised, AllWatched
  PROVE  Spec => []OkMeansExact
<1>1. Spec => [](IInv /\ ExactInv)
  BY ExactInvariance
<1>2. ExactInv => OkMeansExact
  BY DEF ExactInv
<1>3. QED
  BY <1>1, <1>2, PTL

-----------------------------------------------------------------------------
(* The refinement: a step of the client is invisible to the caller, makes  *)
(* the slice unusable, or publishes a snapshot of the first entries.       *)
View == IF ok THEN FirstEntries ELSE Unknown
FirstSnapshot(b) == [i \in FirstSlots |-> EntryOf(states[b][Tracked[i]])]

LEMMA SnapshotsAgree == \A b : C!Snapshot(b) = FirstSnapshot(b)
BY DEF C!Snapshot, C!Slots, FirstSnapshot

LEMMA InitRefines == Init => C!Init
<1> SUFFICES ASSUME Init PROVE C!Init
  OBVIOUS
<1>1. ok = TRUE /\ synced = 0 /\ cache = Snapshot(0) /\ ChainInit
  BY DEF Init
<1>2. FirstEntries = FirstSnapshot(0)
  BY <1>1 DEF FirstEntries, FirstSnapshot, FirstSlots, Snapshot
<1>3. C!ChainInit
  BY <1>1 DEF ChainInit, C!ChainInit
<1>4. QED
  BY <1>1, <1>2, <1>3, SnapshotsAgree DEF C!Init

LEMMA NextRefines ==
  IInv /\ ExactInv /\ [Next]_vars => [C!Next]_(C!contractVars)
<1> SUFFICES ASSUME IInv, ExactInv, [Next]_vars
             PROVE  C!Next \/ UNCHANGED <<logs, states, synced, View>>
  BY DEF C!contractVars, View
<1>0. ok \in BOOLEAN /\ (ok => pc = "idle")
  BY DEF IInv, TypeOK, ExactInv
<1>1. CASE MineBlock
  <2>1. C!Height = Height /\ C!Kinds = Kinds /\ C!Blocks = Blocks
    BY DEF C!Height, Height, C!Kinds, Kinds, C!Blocks, Blocks
  <2>2. \A pre, block, p, n : C!Version(pre, block, p, n) = Version(pre, block, p, n)
    <3>1. \A S : C!Cardinality(S) = Cardinality(S)
      BY Zenon DEF C!Cardinality, Cardinality
    <3>2. QED
      BY <3>1, Zenon DEF C!Version, Version
  <2>3. \A pre, block : C!Legal(pre, block) <=> Legal(pre, block)
    BY <2>2, Zenon DEF C!Legal, Legal
  <2>4. \A pre, block : C!Emit(pre, block) = Emit(pre, block)
    BY <2>2, Zenon DEF C!Emit, Emit
  <2>5. Mine
    BY <1>1 DEF MineBlock
  <2>6. C!Mine
    BY <2>1, <2>2, <2>3, <2>4, <2>5 DEF Mine, C!Mine
  <2>7. ok' = ok /\ FirstEntries' = FirstEntries /\ synced' = synced
    BY <1>1 DEF MineBlock, clientVars, FirstEntries
  <2>8. QED
    BY <2>6, <2>7 DEF C!Next
<1>2. CASE (\E b \in 0..Height : Fetch(b)) \/ (\E b \in 0..Height : Update(b))
  <2>1. C!Withdraw
    BY <1>2 DEF Fetch, Update, C!Withdraw, chainVars
  <2>2. QED
    BY <2>1 DEF C!Next
<1>3. CASE FetchReturn \/ UpdateReturn
  <2>1. FirstEntries' = FirstSnapshot(target)
    <3>1. CASE FetchReturn
      <4>1. \A i \in Slots : cache'[i] = EntryOf(states[target][Tracked[i]])
        BY <3>1, FetchReturnsSnapshot
      <4>2. QED
        BY <4>1 DEF FirstEntries, FirstSnapshot, FirstSlots
    <3>2. CASE UpdateReturn
      <4>1. cache' = cache /\ \A i \in FirstSlots : At(i, target)
        BY <3>2, UpdateReturnsSnapshot DEF UpdateReturn
      <4>2. QED
        BY <4>1 DEF FirstEntries, FirstSnapshot, At
    <3>3. QED
      BY <1>3, <3>1, <3>2
  <2>2. ok' = TRUE /\ synced' = target /\ UNCHANGED chainVars
    BY <1>3 DEF FetchReturn, UpdateReturn
  <2>3. target \in 0..Height /\ target >= synced
    BY Numbers DEF IInv
  <2>4. C!Publish(target)
    BY <2>1, <2>2, <2>3, SnapshotsAgree DEF C!Publish, C!chainVars, chainVars
  <2>5. QED
    BY <2>3, <2>4 DEF C!Next, C!Height, Height
<1>4. CASE \/ \E q \in Part, p \in wanted : Read(q, p)
          \/ QueryWindow \/ GetLogs \/ ApplyWindow \/ Fail
  <2>1. ok = FALSE /\ ok' = FALSE /\ UNCHANGED <<logs, states, synced>>
    BY <1>0, <1>4 DEF Read, QueryWindow, GetLogs, ApplyWindow, Fail, chainVars
  <2>2. QED
    BY <2>1 DEF View
<1>5. CASE UNCHANGED vars
  BY <1>5 DEF vars, clientVars, View, FirstEntries
<1>6. QED
  BY <1>1, <1>2, <1>3, <1>4, <1>5 DEF Next, Client

(* UniV3 implements the contract of fetch_pools and update_pools_mut for   *)
(* the first entry of every initialised pool.                              *)
THEOREM UniV3ImplementsContract ==
  ASSUME Initialised, AllWatched
  PROVE  Spec => ImplementsContract
<1>1. Spec => [](IInv /\ ExactInv)
  BY ExactInvariance
<1>2. QED
  BY <1>1, InitRefines, NextRefines, PTL DEF Spec, ImplementsContract, C!Spec
=============================================================================
