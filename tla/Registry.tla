------------------------------ MODULE Registry ------------------------------
(***************************************************************************)
(* What LibAllowList promises to the facets: one partial function from the *)
(* contracts that are allowed (factories and routers) to the fee of each,  *)
(* and a set of allowed function selectors.  The storage layout of the     *)
(* library (two mappings and an enumeration array that must agree) is not  *)
(* visible here.                                                           *)
(***************************************************************************)
EXTENDS Naturals

CONSTANTS
  Address,    \* the addresses the owner may name
  Fee,        \* the fees a factory may be registered with; 0 is one of them
  Selector    \* the function selectors

VARIABLES
  registered, \* [set of allowed addresses -> Fee]
  selectors   \* the allowed selectors

regVars == <<registered, selectors>>

Init ==
  /\ registered = [c \in {} |-> 0]
  /\ selectors = {}

(* Give c the fee f, whether or not it was registered before. *)
SetFee(c, f) ==
  /\ registered' = [d \in DOMAIN registered \cup {c} |->
                      IF d = c THEN f ELSE registered[d]]
  /\ UNCHANGED selectors

(* A contract that is new to the registry starts without a fee. *)
Register(c) ==
  /\ c \notin DOMAIN registered
  /\ SetFee(c, 0)

Deregister(c) ==
  /\ c \in DOMAIN registered
  /\ registered' = [d \in DOMAIN registered \ {c} |-> registered[d]]
  /\ UNCHANGED selectors

AllowSelector(s) ==
  /\ selectors' = selectors \cup {s}
  /\ UNCHANGED registered

DisallowSelector(s) ==
  /\ selectors' = selectors \ {s}
  /\ UNCHANGED registered

Next ==
  \/ \E c \in Address : Register(c) \/ Deregister(c)
  \/ \E c \in Address, f \in Fee : SetFee(c, f)
  \/ \E s \in Selector : AllowSelector(s) \/ DisallowSelector(s)

Spec == Init /\ [][Next]_regVars
=============================================================================
