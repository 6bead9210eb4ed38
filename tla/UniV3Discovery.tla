---------------------------- MODULE UniV3Discovery ----------------------------
(***************************************************************************)
(* UniV3::fetch_pool_addresses: without a subgraph the configured list;    *)
(* with one, its pools in concurrent pages of first/skip.  The subgraph    *)
(* orders pools by id and indexes new ones while the pages are read, and   *)
(* no query names a block: a pool indexed in between shifts every pool     *)
(* with a larger id by one place.  Pools are the numbers of their ids.     *)
(***************************************************************************)
EXTENDS Naturals, Sequences, SequencesExt

CONSTANTS
  Ids,        \* the ids of the pools that may ever exist
  Configured, \* the pools of the configuration
  PageSize,   \* addr_page_size
  Cap         \* the most pools that are asked for (5000)

VARIABLES
  subgraph, \* whether subgraph_url is set; it never changes
  indexed, \* the pools the subgraph knows; they are never removed
  pc,      \* idle, count, page or done
  count,   \* pool_count
  pending, \* the values of skip whose page is not answered yet
  pages,   \* pages[s]: the answer for skip = s
  before,  \* history: what was indexed when the count was read
  result   \* the list that was returned

client == <<pc, count, pending, pages, before, result>>
vars == <<subgraph, indexed, client>>

(* In the order of the ids, as the subgraph lists its pools: the k-th of S *)
(* is the one that has k - 1 of S before it.                               *)
Listing(S) ==
  [k \in 1..Cardinality(S) |->
     CHOOSE x \in S : Cardinality({y \in S : y < x}) = k - 1]

MaxIndexed == Len(Listing(Ids))
Skips == {s \in 0..MaxIndexed : s % PageSize = 0}

Init ==
  /\ subgraph \in BOOLEAN
  /\ indexed \in SUBSET Ids
  /\ pc = "idle" /\ count = 0
  /\ pending = {} /\ pages = <<>>
  /\ before = {} /\ result = <<>>

(* The subgraph indexes a new pool. *)
IndexPool(id) ==
  /\ id \in Ids \ indexed
  /\ indexed' = indexed \cup {id}
  /\ UNCHANGED <<subgraph, client>>

(* Without a subgraph the configured pools are returned at once. *)
Call ==
  /\ pc \in {"idle", "done"}
  /\ pending' = {} /\ pages' = <<>> /\ count' = 0 /\ before' = {}
  /\ IF subgraph THEN pc' = "count" /\ result' = <<>>
                 ELSE pc' = "done" /\ result' = Configured
  /\ UNCHANGED <<subgraph, indexed>>

\* Mutant: the first page is skipped.
SkipsAfterFirst(n) == {s \in Skips : 0 < s /\ s < n}
(* (0..pool_count).step_by(addr_page_size) *)
SkipsBelow(n) == {s \in Skips : s < n}

(* total_pool_count.min(5000) *)
Counted == LET n == Len(Listing(indexed)) IN IF n <= Cap THEN n ELSE Cap

Count ==
  /\ pc = "count"
  /\ count' = Counted
  /\ pending' = SkipsBelow(Counted)
  /\ before' = indexed
  /\ pc' = "page"
  /\ UNCHANGED <<subgraph, indexed, pages, result>>

(* pools(first: n, skip: s) of the subgraph as it is now *)
Listed(s, n) ==
  LET all == Listing(indexed)
  IN SubSeq(all, s + 1, IF s + n <= Len(all) THEN s + n ELSE Len(all))

\* Mutant: skip counts pages in place of pools.
PageByNumber(s) == Listed(s \div PageSize, PageSize)
(* one page of the list, which is not cut at pool_count *)
Page(s) == Listed(s, PageSize)

PageRead(s) ==
  /\ pc = "page" /\ s \in pending
  /\ pages' = [x \in DOMAIN pages \cup {s} |-> IF x = s THEN Page(s) ELSE pages[x]]
  /\ pending' = pending \ {s}
  /\ UNCHANGED <<subgraph, indexed, pc, count, before, result>>

(* A query fails: try_join_all drops the others, the list is not returned. *)
Fail ==
  /\ pc \in {"count", "page"}
  /\ pc = "page" => pending # {}
  /\ pc' = "idle" /\ pending' = {}
  /\ UNCHANGED <<subgraph, indexed, count, pages, before, result>>

(* The responses are gone through in the order of the queries. *)
Return ==
  /\ pc = "page" /\ pending = {}
  /\ pc' = "done"
  /\ LET order == Listing(DOMAIN pages)
     IN result' = FlattenSeq([k \in DOMAIN order |-> pages[order[k]]])
  /\ UNCHANGED <<subgraph, indexed, count, pending, pages, before>>

Next ==
  \/ \E id \in Ids : IndexPool(id)
  \/ Call
  \/ Count
  \/ \E s \in Skips : PageRead(s)
  \/ Fail
  \/ Return

Spec == Init /\ [][Next]_vars

-----------------------------------------------------------------------------
(* The number of pools in whole pages up to n. *)
WholePages(n) == ((n + PageSize - 1) \div PageSize) * PageSize

(***************************************************************************)
(* If nothing was indexed while the pages were read, the list is the       *)
(* subgraph's, in its order, up to the cap rounded up to a whole page.     *)
(***************************************************************************)
QuietListExact ==
  (pc = "done" /\ subgraph /\ indexed = before) =>
    result = SubSeq(Listing(before), 1,
                    IF Len(Listing(before)) <= Cap THEN Len(Listing(before))
                    ELSE LET n == WholePages(Cap) IN
                         IF n <= Len(Listing(before)) THEN n ELSE Len(Listing(before)))

(***************************************************************************)
(* However the pages interleave with indexing, an address is listed twice  *)
(* only because pools were indexed meanwhile, and at most once more for    *)
(* each of them: every indexed pool shifts a place by one.                 *)
(***************************************************************************)
DuplicatesBounded ==
  (pc = "done" /\ subgraph) =>
    \A id \in ToSet(result) :
      Cardinality({i \in DOMAIN result : result[i] = id})
        <= 1 + Cardinality(indexed \ before)
=============================================================================
