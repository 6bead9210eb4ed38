---------------------------- MODULE MCUniV3Router ----------------------------
(* One user, two pools in a row at two factories, for TLC. *)
EXTENDS UniV3Router, TLC

CONSTANTS u, f, g, p12, p23

MCPoolTokens == p12 :> <<1, 2>> @@ p23 :> <<2, 3>>

MCPoolOf ==
  [c \in {f, g} |-> [a \in 1..3 |-> [b \in 1..3 |->
     CASE c = f /\ a = 1 /\ b = 2 -> p12
       [] c = g /\ a = 2 /\ b = 3 -> p23
       [] OTHER -> NoPool]]]

MCPaths == {<<1, f>>, <<1, f, 2>>, <<2, g, 3, f>>, <<1, f, 2, g, 3>>, <<3, g, 2, f, 1>>,
            <<1, f, 2, f, 1>>, <<2, g, 3, f, 1>>}

MCHolding ==
  [t \in Tokens |-> [x \in Accounts |->
     CASE x = u -> IF t = 2 THEN 1 ELSE 2
       [] x = p12 -> IF t = 3 THEN 0 ELSE 2
       [] x = p23 -> IF t = 1 THEN 0 ELSE 2
       [] OTHER -> IF t = 1 THEN 1 ELSE 0]]
=============================================================================
