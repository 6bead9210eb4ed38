---------------------------- MODULE MCUniV2Sync ----------------------------
(* The UniV2 cache on two pools, one of them listed twice, for TLC. *)
EXTENDS UniV2Sync, TLC

CONSTANTS p1, p2

MCPools == {p1, p2}
MCTracked == <<p1, p2, p1>>
=============================================================================
