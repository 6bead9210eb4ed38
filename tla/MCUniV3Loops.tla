---------------------------- MODULE MCUniV3Loops ----------------------------
(* Pools with ticks at the edges of words and of the tick range, and paths *)
(* of up to five pools, whole and with bytes left over, for TLC.           *)
EXTENDS UniV3Loops

MCPoolStates ==
  UNION {
    {[spacing |-> 1, tick |-> t, initialized |-> i] :
       t \in {-257, -1, 0, 255}, i \in SUBSET {-257, -256, -1, 0, 255, 256}},
    {[spacing |-> 60, tick |-> t, initialized |-> i] :
       t \in {-15361, -61, 59}, i \in SUBSET {-15420, -15360, -60, 60, 15360}},
    {[spacing |-> 200, tick |-> t, initialized |-> i] :
       t \in {-887272, 887271}, i \in SUBSET {-887200, -887000, 887000, 887200}}}

MCJunk == -1
MCMinTick == -887272
MCRanges ==
  [s \in {1, 60, 200} |-> {-1, 0, 1, 256} \cup IF s = 200 THEN {50000} ELSE {2}]
=============================================================================
