------------------------------- MODULE DexView -------------------------------
(***************************************************************************)
(* DexView: the exchanges by id, each behind the trait Dex.  A call of     *)
(* fetch_pool_addresses goes to the integration behind the trait object,   *)
(* and integrations share nothing, so that one of them at a time shows all *)
(* that can happen.                                                        *)
(***************************************************************************)
EXTENDS UniV2Discovery

CONSTANTS Ids, Configured, Cap  \* of UniV3Discovery

ASSUME DiscoveryAssumption ==
  IsFiniteSet(Ids) /\ Ids \subseteq Nat /\ Configured \in Seq(Ids) /\ Cap \in Nat

VARIABLES
  dex,                       \* the integration that is called
  subgraph, indexed, before, result,   \* of UniV3Discovery
  request, total, open, answers        \* its pc, count, pending and pages

v3vars == <<subgraph, indexed, before, result, request, total, open, answers>>

V3 == INSTANCE UniV3Discovery WITH
        pc <- request, count <- total, pending <- open, pages <- answers

(* The chain and the subgraph of an exchange that is not called stay empty. *)
DexInit ==
  /\ Init /\ V3!Init
  /\ \/ dex = "UniV2" /\ ~subgraph /\ indexed = {}
     \/ dex = "UniV3" /\ lengths = <<0>>

DexNext ==
  /\ UNCHANGED dex
  /\ \/ dex = "UniV2" /\ Next /\ UNCHANGED v3vars
     \/ dex = "UniV3" /\ V3!Next /\ UNCHANGED vars

(* Requests are answered unless they fail, which they do finitely often,   *)
(* and the caller asks for the head again.                                 *)
DexSpec ==
  /\ DexInit /\ [][DexNext]_<<dex, vars, v3vars>>
  /\ WF_<<dex, vars, v3vars>>(dex = "UniV2" /\ Answered /\ UNCHANGED <<dex, v3vars>>)
  /\ SF_<<dex, vars, v3vars>>(dex = "UniV2" /\ Call(Height) /\ UNCHANGED <<dex, v3vars>>)

(* Of a quiet subgraph the list is its own, up to the cap in whole pages. *)
QuietListExact == V3!QuietListExact

(* An address is listed twice only for pools indexed while the call ran. *)
DuplicatesBounded == V3!DuplicatesBounded

(* A caller of the v2 integration at the head gets the full list. *)
CallerDiscovers == dex = "UniV2" => EventuallyDiscovered
=============================================================================
