---------------------------- MODULE UniV2Discovery ----------------------------
(***************************************************************************)
(* UniV2::fetch_pool_addresses: the index of all pairs of a factory, read  *)
(* in concurrent pages.  The number of pairs is read at the latest block,  *)
(* the pages at the block asked for, at which the factory may have been    *)
(* shorter: uniV2Pools clips the end of a page, and reverts when the page  *)
(* starts after the last pair.                                             *)
(***************************************************************************)
EXTENDS Naturals, Sequences, SequencesExt

CONSTANTS
  PageSize,   \* addr_page_size
  MaxPairs,   \* bound: pairs the factory ever creates
  MaxHeight,  \* bound: blocks
  MaxFailures \* bound: requests that fail

ASSUME PageAssumption ==
  /\ PageSize \in Nat \ {0}
  /\ MaxPairs \in Nat /\ MaxHeight \in Nat /\ MaxFailures \in Nat

VARIABLES
  lengths, \* lengths[b]: allPairsLength after block b, from b = 1
  pc,      \* idle, count, page, done, reverted or failed
  block,   \* block_number
  count,   \* pool_count
  pending, \* the offsets whose page is not answered yet
  pages,   \* pages[o]: the pairs, by index, of the page at offset o
  failures \* requests that failed so far

client == <<pc, block, count, pending, pages, failures>>
vars == <<lengths, client>>

Height == Len(lengths)
Offsets == {o \in 0..MaxPairs : o % PageSize = 0}
Lesser(a, b) == IF a <= b THEN a ELSE b

(* The pairs from start up to but not including end, by index. *)
Span(start, end) == [i \in 1..(end - start) |-> start + i - 1]

Init ==
  /\ \E n \in 0..MaxPairs : lengths = <<n>>
  /\ pc = "idle" /\ block = 0 /\ count = 0
  /\ pending = {} /\ pages = <<>> /\ failures = 0

(* A block is mined, in which the factory may create pairs. *)
Mine ==
  /\ Height < MaxHeight
  /\ \E n \in lengths[Height]..MaxPairs : lengths' = Append(lengths, n)
  /\ UNCHANGED client

Call(b) ==
  /\ pc \in {"idle", "done", "reverted", "failed"}
  /\ pc' = "count" /\ block' = b
  /\ count' = 0 /\ pending' = {} /\ pages' = <<>>
  /\ UNCHANGED <<lengths, failures>>

\* Mutant: the step rounds the number of pages down.
OffsetsFloor(n) == {o \in Offsets : o + PageSize <= n}
(* (0..pool_count).step_by(addr_page_size) *)
OffsetsBelow(n) == {o \in Offsets : o < n}

(* uniV2PoolNum, which is not pinned to block_number *)
Count ==
  /\ pc = "count"
  /\ count' = lengths[Height]
  /\ pending' = OffsetsBelow(lengths[Height])
  /\ pc' = "page"
  /\ UNCHANGED <<lengths, block, pages, failures>>

\* Mutants: the pages read the latest block, or the block before.
PairsAtLatest == lengths[Height]
PairsBefore == IF block > 1 THEN lengths[block - 1] ELSE 0
(* allPairsLength as the page sees it: .block(block_number) *)
PairsAtBlock == lengths[block]

(* The last page asked for ends with the count. *)
PageAsked(o) == Lesser(count, o + PageSize)
PageEnd(o) == Lesser(PageAsked(o), PairsAtBlock)

(* One page is answered, in any order. *)
PageRead(o) ==
  /\ pc = "page" /\ o \in pending
  /\ o <= PairsAtBlock
  /\ pages' = [x \in DOMAIN pages \cup {o} |->
                 IF x = o THEN Span(o, PageEnd(o)) ELSE pages[x]]
  /\ pending' = pending \ {o}
  /\ UNCHANGED <<lengths, pc, block, count, failures>>

(* end - start underflows: the call reverts, and all of them are dropped. *)
PageReverts(o) ==
  /\ pc = "page" /\ o \in pending
  /\ o > PairsAtBlock
  /\ pc' = "reverted" /\ pending' = {}
  /\ UNCHANGED <<lengths, block, count, pages, failures>>

(* A request is not answered: `?` returns the error. *)
Fail ==
  /\ pc = "count" \/ (pc = "page" /\ pending # {})
  /\ failures < MaxFailures
  /\ failures' = failures + 1
  /\ pc' = "failed" /\ pending' = {}
  /\ UNCHANGED <<lengths, block, count, pages>>

Return ==
  /\ pc = "page" /\ pending = {}
  /\ pc' = "done"
  /\ UNCHANGED <<lengths, block, count, pending, pages, failures>>

(* What the code does once its requests are answered. *)
Answered ==
  \/ Count
  \/ \E o \in Offsets : PageRead(o)
  \/ \E o \in Offsets : PageReverts(o)
  \/ Return

Client == Answered \/ Fail

Next ==
  \/ Mine
  \/ \E b \in 1..Height : Call(b)
  \/ Client

Spec == Init /\ [][Next]_vars

-----------------------------------------------------------------------------
(* try_join_all(..).concat(): the pages in the order of their offsets *)
Addresses ==
  FlattenSeq([k \in 1..Cardinality(DOMAIN pages) |-> pages[(k - 1) * PageSize]])

(***************************************************************************)
(* A list that is returned is exactly the pairs of the factory at the      *)
(* block asked for, in the order of creation, none missing and none twice, *)
(* although their number was read at a later block and the factory grew    *)
(* between the pages.                                                      *)
(***************************************************************************)
DiscoveryExact == pc = "done" => Addresses = Span(0, lengths[block])

(***************************************************************************)
(* When all requests are answered, the call is lost in one case only, and  *)
(* always in that one: a page starts behind the pairs of the block asked   *)
(* for and before the number that was read.  The distance does not decide  *)
(* it but the multiples of the page size: one pair ahead never reverts,    *)
(* two may (199 pairs at the block, 201 counted, pages of 100), and a      *)
(* whole page ahead need not.                                              *)
(***************************************************************************)
PageBehindPairs == \E o \in Offsets : lengths[block] < o /\ o < count

RevertsForPageBehind ==
  /\ pc = "reverted" => PageBehindPairs /\ count > lengths[block] + 1
  /\ pc = "done" => ~PageBehindPairs

(***************************************************************************)
(* A caller that asks at the head over and over gets the list of the head, *)
(* again and again: its calls are not lost for ever.                       *)
(***************************************************************************)
EventuallyDiscovered == []<>(pc = "done" /\ Addresses = Span(0, lengths[Height]))
=============================================================================
