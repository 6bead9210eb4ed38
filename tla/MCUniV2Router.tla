---------------------------- MODULE MCUniV2Router ----------------------------
(* One user, three pairs in a triangle at two factories, for TLC. *)
EXTENDS UniV2Router, TLC

CONSTANTS u, f, g, r, p12, p23, p13

MCPairTokens == p12 :> <<1, 2>> @@ p23 :> <<2, 3>> @@ p13 :> <<1, 3>>

(* f has the pairs 12 and 23, g the pair 13. *)
MCPairOf ==
  [c \in {f, g} |-> [a \in 1..3 |-> [b \in 1..3 |->
     CASE c = f /\ a = 1 /\ b = 2 -> p12
       [] c = f /\ a = 2 /\ b = 3 -> p23
       [] c = g /\ a = 1 /\ b = 3 -> p13
       [] OTHER -> NoPair]]]

MCPaths == {<<1, f>>, <<1, f, 2, f>>, <<1, f, 2>>, <<2, f, 1>>, <<1, f, 2, f, 3>>, <<3, f, 2, f, 1>>,
            <<1, f, 2, f, 3, g, 1>>, <<1, f, 2, f, 1>>, <<1, f, 2, g, 3>>}

MCTokenPaths == {<<1, 3>>}

MCHolding ==
  [t \in Tokens |-> [x \in Accounts |->
     CASE x = u -> IF t = 1 THEN 12 ELSE 4
       [] x = p12 -> IF t = 3 THEN 0 ELSE 20
       [] x = p23 -> IF t = 1 THEN 0 ELSE IF t = 2 THEN 20 ELSE 30
       [] x = p13 -> IF t = 2 THEN 0 ELSE 40
       [] x = r -> IF t = 3 THEN 1 ELSE 0
       [] OTHER -> 0]]
=============================================================================
