---------------------------- MODULE MCUniV3Sync ----------------------------
(* The UniV3 cache for TLC: two pools, one of them listed twice, beside a  *)
(* contract that is not in the slice.                                      *)
EXTENDS UniV3Sync, TLC

CONSTANTS p1, p2, p3

MCPools == {p1, p2, p3}
MCTracked == <<p1, p2, p1>>
=============================================================================
