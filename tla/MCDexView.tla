------------------------------ MODULE MCDexView ------------------------------
(* A factory of up to seven pairs or a subgraph of up to six pools, for TLC. *)
EXTENDS DexView

MCConfigured == <<2, 1>>
=============================================================================
