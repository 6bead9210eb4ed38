-------------------------- MODULE MCExchangeClient --------------------------
(* Lists of up to three addresses of each kind, and one with a repetition. *)
EXTENDS ExchangeClient

Address(kind, pool) == [kind |-> kind, pool |-> pool]

MCLists ==
  UNION {{[i \in 1..n |-> Address(kinds[i], i)] : kinds \in [1..n -> Kinds]} : n \in 0..3}
  \cup {<<Address("DefaultAddr", 2), Address("DefaultAddr", 1), Address("DefaultAddr", 2)>>}

MCFeeOf == <<0, 5, 7>>
=============================================================================
