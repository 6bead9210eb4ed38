------------------------------ MODULE AllowList ------------------------------
(***************************************************************************)
(* LibAllowList: the storage that says which factories and routers the     *)
(* facets may call, what fee each factory charges, and which selectors are *)
(* allowed.  Membership is kept twice: in the mapping `allowlist`, which   *)
(* the facets read, and in the array `contracts`, which enumerates it and  *)
(* from which entries are removed by moving the last one into the hole.    *)
(***************************************************************************)
EXTENDS Naturals, Sequences, Functions

CONSTANTS
  Address,      \* the addresses the owner may name
  ZeroAddress,  \* address(0)
  Fee,          \* the fees a factory may be registered with
  Selector      \* the function selectors

ASSUME ZeroAssumption == ZeroAddress \in Address
ASSUME FeeAssumption == Fee \subseteq Nat /\ 0 \in Fee

VARIABLES
  allowlist,         \* the addresses whose entry of the mapping is true
  fees,              \* mapping(address => uint256)
  selectorAllowList, \* the selectors whose entry of the mapping is true
  contracts,         \* address[]
  hasCode            \* the addresses with code on chain (not the library's)

store == <<allowlist, fees, selectorAllowList, contracts>>
vars == <<allowlist, fees, selectorAllowList, contracts, hasCode>>

TypeOK ==
  /\ allowlist \subseteq Address \ {ZeroAddress}
  /\ fees \in [Address -> Fee]
  /\ selectorAllowList \subseteq Selector
  /\ contracts \in Seq(Address \ {ZeroAddress})
  /\ hasCode \subseteq Address \ {ZeroAddress}

Init ==
  /\ allowlist = {}
  /\ fees = [c \in Address |-> 0]
  /\ selectorAllowList = {}
  /\ contracts = <<>>
  /\ hasCode \in SUBSET (Address \ {ZeroAddress})

-----------------------------------------------------------------------------
(* _checkAddress: the operation reverts unless c is a contract. *)
CheckAddress(c) == c # ZeroAddress /\ c \in hasCode

(* It returns at once, without effect, if c is allowed. *)
AddAllowedContract(c) ==
  /\ CheckAddress(c)
  /\ c \notin allowlist
  /\ allowlist' = allowlist \cup {c}
  /\ contracts' = Append(contracts, c)
  /\ UNCHANGED <<fees, selectorAllowList, hasCode>>

\* Mutant: a contract that is listed already is pushed again.
PushedAgain(c) == Append(contracts, c)
(* The array after c was added: it is pushed if it was not listed. *)
Pushed(c) == IF c \in allowlist THEN contracts ELSE Append(contracts, c)

(* A listed contract only gets the new fee. *)
AddAllowedContractWithFee(c, fee) ==
  /\ CheckAddress(c)
  /\ fees' = [fees EXCEPT ![c] = fee]
  /\ allowlist' = allowlist \cup {c}
  /\ contracts' = Pushed(c)
  /\ UNCHANGED <<selectorAllowList, hasCode>>

(* The first index at which the loop of removeAllowedContract stops. *)
IndexOf(s, c) ==
  CHOOSE i \in 1..Len(s) : s[i] = c /\ \A j \in 1..(i - 1) : s[j] # c

\* Mutants: the entry is deleted but not popped; the last one is popped
\* but not moved.
DeleteOnly(s, i) == [s EXCEPT ![i] = ZeroAddress]
PopOnly(s, i) == SubSeq(s, 1, Len(s) - 1)
(* contracts[i] = contracts[length - 1]; contracts.pop() *)
SwapAndPop(s, i) ==
  [j \in 1..(Len(s) - 1) |-> IF j = i THEN s[Len(s)] ELSE s[j]]

(* The array after the loop: it is left alone when c is not in it. *)
WithoutContract(s, c) ==
  IF \E i \in 1..Len(s) : s[i] = c THEN SwapAndPop(s, IndexOf(s, c)) ELSE s

\* Mutant: the fee is not reset.
FeesKept(c) == fees
FeesWithout(c) == [fees EXCEPT ![c] = 0]

(* It returns at once, without effect, if c is not allowed. *)
RemoveAllowedContract(c) ==
  /\ c \in allowlist
  /\ allowlist' = allowlist \ {c}
  /\ fees' = FeesWithout(c)
  /\ contracts' = WithoutContract(contracts, c)
  /\ UNCHANGED <<selectorAllowList, hasCode>>

AddAllowedSelector(s) ==
  /\ selectorAllowList' = selectorAllowList \cup {s}
  /\ UNCHANGED <<allowlist, fees, contracts, hasCode>>

RemoveAllowedSelector(s) ==
  /\ selectorAllowList' = selectorAllowList \ {s}
  /\ UNCHANGED <<allowlist, fees, contracts, hasCode>>

(* Contracts are deployed and destroyed by others, whatever the list says. *)
Deploy(c) ==
  /\ c \in Address \ (hasCode \cup {ZeroAddress})
  /\ hasCode' = hasCode \cup {c}
  /\ UNCHANGED store

SelfDestruct(c) ==
  /\ c \in hasCode
  /\ hasCode' = hasCode \ {c}
  /\ UNCHANGED store

Next ==
  \/ \E c \in Address : AddAllowedContract(c)
  \/ \E c \in Address, fee \in Fee : AddAllowedContractWithFee(c, fee)
  \/ \E c \in Address : RemoveAllowedContract(c)
  \/ \E s \in Selector : AddAllowedSelector(s)
  \/ \E s \in Selector : RemoveAllowedSelector(s)
  \/ \E c \in Address : Deploy(c)
  \/ \E c \in Address : SelfDestruct(c)

Spec == Init /\ [][Next]_vars

-----------------------------------------------------------------------------
(* getAllowedContracts, as a set *)
GetAllowedContracts == Range(contracts)

(***************************************************************************)
(* The array enumerates the mapping: getAllowedContracts returns every     *)
(* contract the facets accept, each of them once, and nothing else.  The   *)
(* loop of removeAllowedContract breaks at the first match, so a second    *)
(* entry of one contract would survive its removal.                        *)
(***************************************************************************)
EnumerationExact ==
  /\ GetAllowedContracts = allowlist
  /\ IsInjective(contracts)

(***************************************************************************)
(* No fee outlives its registration: a factory that is not allowed has fee *)
(* 0, so that addAllowedContract(factory), which sets no fee, can not      *)
(* bring back the fee of an earlier registration.                          *)
(***************************************************************************)
NoStaleFee == \A c \in Address \ allowlist : fees[c] = 0

(* The registry as a caller of getAllowedContracts and getFee sees it. *)
R == INSTANCE Registry WITH
       registered <- [c \in GetAllowedContracts |-> fees[c]],
       selectors <- selectorAllowList

(***************************************************************************)
(* The three pieces of storage behave as one registry: seen through the    *)
(* enumeration and the fee mapping, every operation of the library is one  *)
(* operation of the abstract registry, or changes nothing.                 *)
(***************************************************************************)
ImplementsRegistry == R!Spec
=============================================================================
