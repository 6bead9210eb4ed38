--------------------------- MODULE ExchangeClient ---------------------------
(***************************************************************************)
(* The client side of the exchange: single calls and logs through the      *)
(* generated clients, and fetch_pools, which puts the answers of many such *)
(* calls together.  One of the two is looked at at a time; they share the  *)
(* tables of the bindings and the structs of the facets.                   *)
(***************************************************************************)
EXTENDS PoolRecords

VARIABLES
  looksAt,                                      \* what is looked at
  contract, stage, called, wire, ran, read, told   \* of ContractClient

callVars == <<contract, stage, called, wire, ran, read, told>>

Bindings == INSTANCE ContractClient WITH asked <- called

ClientInit ==
  /\ \/ looksAt = "fetch_pools" /\ contract = "erc20"
     \/ looksAt = "contract" /\ asked = <<>> /\ exchange = "UniV2"
  /\ RecordsInit /\ Bindings!Init

ClientNext ==
  /\ UNCHANGED looksAt
  /\ \/ looksAt = "fetch_pools" /\ RecordsNext /\ UNCHANGED callVars
     \/ looksAt = "contract" /\ Bindings!Next /\ UNCHANGED recordVars

ClientSpec == ClientInit /\ [][ClientNext]_<<looksAt, recordVars, callVars>>

(* A call runs what was named and is read as what was answered. *)
CallUnderstood == looksAt = "contract" => Bindings!CallUnderstood

(* A log is told to be the event it is, or refused. *)
LogUnderstood == looksAt = "contract" => Bindings!LogUnderstood
=============================================================================
