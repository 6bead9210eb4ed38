--------------------------- MODULE AllowListProofs ---------------------------
(***************************************************************************)
(* Proofs about the allow list, for every set of addresses, fees and       *)
(* selectors: its types, the agreement of the enumeration array with the   *)
(* mapping, the absence of stale fees, and that it implements Registry.    *)
(***************************************************************************)
EXTENDS AllowList, TLAPS

(* What pushing a contract that is not in the array does to it. *)
LEMMA AppendFresh ==
  ASSUME NEW S, NEW s \in Seq(S), IsInjective(s), NEW c \in S, c \notin Range(s)
  PROVE  /\ Append(s, c) \in Seq(S)
         /\ IsInjective(Append(s, c))
         /\ Range(Append(s, c)) = Range(s) \cup {c}
<1>1. Append(s, c) \in Seq(S)
  OBVIOUS
<1>2. /\ Len(Append(s, c)) = Len(s) + 1
      /\ DOMAIN Append(s, c) = 1..(Len(s) + 1)
      /\ DOMAIN s = 1..Len(s)
  OBVIOUS
<1>3. /\ \A j \in 1..Len(s) : Append(s, c)[j] = s[j]
      /\ Append(s, c)[Len(s) + 1] = c
  OBVIOUS
<1>4. \A j \in 1..Len(s) : s[j] # c
  BY DEF Range
<1>5. IsInjective(Append(s, c))
  BY <1>2, <1>3, <1>4 DEF IsInjective
<1>6. Range(Append(s, c)) = Range(s) \cup {c}
  BY <1>2, <1>3 DEF Range
<1>7. QED
  BY <1>1, <1>5, <1>6

(* The loop of removeAllowedContract finds the one index of a contract     *)
(* that the array holds.                                                   *)
LEMMA IndexFound ==
  ASSUME NEW S, NEW s \in Seq(S), IsInjective(s), NEW c \in Range(s)
  PROVE  IndexOf(s, c) \in 1..Len(s) /\ s[IndexOf(s, c)] = c
<1>1. PICK i \in 1..Len(s) : s[i] = c
  BY DEF Range
<1>2. \A j \in 1..(i - 1) : s[j] # c
  BY <1>1 DEF IsInjective
<1>3. \E k \in 1..Len(s) : s[k] = c /\ \A j \in 1..(k - 1) : s[j] # c
  BY <1>1, <1>2
<1>4. QED
  BY <1>3 DEF IndexOf

(* Moving the last entry into the hole and popping removes exactly the     *)
(* entry at i and leaves an array without duplicates.                      *)
LEMMA SwapAndPopRemoves ==
  ASSUME NEW S, NEW s \in Seq(S), IsInjective(s), NEW i \in 1..Len(s)
  PROVE  /\ SwapAndPop(s, i) \in Seq(S)
         /\ IsInjective(SwapAndPop(s, i))
         /\ Range(SwapAndPop(s, i)) = Range(s) \ {s[i]}
<1> DEFINE t == SwapAndPop(s, i)
           n == Len(s)
<1>0. n \in Nat
  OBVIOUS
<1>1. DOMAIN s = 1..n /\ \A j \in 1..n : s[j] \in S
  OBVIOUS
<1>2. /\ DOMAIN t = 1..(n - 1)
      /\ \A j \in 1..(n - 1) : t[j] = IF j = i THEN s[n] ELSE s[j]
  BY DEF SwapAndPop
<1>3. t \in Seq(S)
  <2>1. n - 1 \in Nat /\ t \in [1..(n - 1) -> S]
    BY <1>0, <1>1 DEF SwapAndPop
  <2>2. QED
    BY <2>1
<1>4. \A j, k \in 1..n : s[j] = s[k] => j = k
  BY <1>1 DEF IsInjective
<1>5. IsInjective(t)
  <2>1. SUFFICES ASSUME NEW j \in 1..(n - 1), NEW k \in 1..(n - 1), t[j] = t[k]
                 PROVE  j = k
    BY <1>2, Zenon DEF IsInjective
  <2>2. QED
    BY <1>0, <1>2, <1>4, <2>1
<1>6. Range(t) = Range(s) \ {s[i]}
  <2>1. ASSUME NEW x \in Range(t) PROVE x \in Range(s) \ {s[i]}
    <3>1. PICK j \in 1..(n - 1) : t[j] = x
      BY <1>2, <2>1, Zenon DEF Range
    <3>2. QED
      BY <1>0, <1>1, <1>2, <1>4, <3>1 DEF Range
  <2>2. ASSUME NEW x \in Range(s) \ {s[i]} PROVE x \in Range(t)
    <3>1. PICK j \in 1..n : s[j] = x /\ j # i
      BY <1>1, <2>2 DEF Range
    <3>2. CASE j = n
      <4>0. i # n
        BY <3>1, <3>2
      <4>1. i \in 1..(n - 1)
        BY <1>0, <4>0
      <4>2. t[i] = x
        BY <1>2, <3>1, <3>2, <4>1, Zenon
      <4>3. QED
        BY <1>2, <4>1, <4>2, Zenon DEF Range
    <3>3. CASE j # n
      <4>1. j \in 1..(n - 1)
        BY <1>0, <3>3
      <4>2. t[j] = x
        BY <1>2, <3>1, <4>1, Zenon
      <4>3. QED
        BY <1>2, <4>1, <4>2, Zenon DEF Range
    <3>4. QED
      BY <3>2, <3>3
  <2>3. QED
    BY <2>1, <2>2
<1>7. QED
  BY <1>3, <1>5, <1>6

-----------------------------------------------------------------------------
(* The three invariants of the runs are inductive together: the array can  *)
(* only be changed safely because it enumerates the mapping, and the fee   *)
(* of a contract that is added back is 0 because removal resets it.        *)
IInv == TypeOK /\ EnumerationExact /\ NoStaleFee

USE DEF GetAllowedContracts

LEMMA InitIInv == Init => IInv
<1> SUFFICES ASSUME Init PROVE IInv
  OBVIOUS
<1>1. TypeOK
  BY FeeAssumption DEF Init, TypeOK
<1>2. EnumerationExact
  BY DEF Init, EnumerationExact, Range, IsInjective
<1>3. NoStaleFee
  BY DEF Init, NoStaleFee
<1>4. QED
  BY <1>1, <1>2, <1>3 DEF IInv

(* A fresh contract with fee f, whichever of the two functions added it.   *)
LEMMA AddFreshIInv ==
  ASSUME IInv, NEW c \in Address \ {ZeroAddress}, c \notin allowlist,
         allowlist' = allowlist \cup {c},
         contracts' = Append(contracts, c),
         NEW f \in Fee, fees' = [fees EXCEPT ![c] = f],
         UNCHANGED <<selectorAllowList, hasCode>>
  PROVE  IInv'
<1>1. TypeOK /\ EnumerationExact /\ NoStaleFee
  BY DEF IInv
<1>2. /\ contracts' \in Seq(Address \ {ZeroAddress})
      /\ IsInjective(contracts')
      /\ Range(contracts') = Range(contracts) \cup {c}
  <2>1. contracts \in Seq(Address \ {ZeroAddress}) /\ IsInjective(contracts) /\ c \notin Range(contracts)
    BY <1>1 DEF TypeOK, EnumerationExact
  <2>2. QED
    BY <2>1, AppendFresh
<1>3. TypeOK'
  BY <1>1, <1>2 DEF TypeOK
<1>4. EnumerationExact'
  BY <1>1, <1>2 DEF EnumerationExact
<1>5. NoStaleFee'
  BY <1>1 DEF NoStaleFee, TypeOK
<1>6. QED
  BY <1>3, <1>4, <1>5 DEF IInv

(* What the array is after the removal of an allowed contract.             *)
LEMMA RemovedFromArray ==
  ASSUME TypeOK, EnumerationExact, NEW c \in allowlist
  PROVE  /\ WithoutContract(contracts, c) \in Seq(Address \ {ZeroAddress})
         /\ IsInjective(WithoutContract(contracts, c))
         /\ Range(WithoutContract(contracts, c)) = Range(contracts) \ {c}
<1> DEFINE i == IndexOf(contracts, c)
<1>1. contracts \in Seq(Address \ {ZeroAddress}) /\ IsInjective(contracts) /\ c \in Range(contracts)
  BY DEF TypeOK, EnumerationExact
<1>2. i \in 1..Len(contracts) /\ contracts[i] = c
  BY <1>1, IndexFound, Zenon
<1>3. WithoutContract(contracts, c) = SwapAndPop(contracts, i)
  BY <1>2, Zenon DEF WithoutContract
<1>4. /\ SwapAndPop(contracts, i) \in Seq(Address \ {ZeroAddress})
      /\ IsInjective(SwapAndPop(contracts, i))
      /\ Range(SwapAndPop(contracts, i)) = Range(contracts) \ {contracts[i]}
  BY <1>1, <1>2, SwapAndPopRemoves
<1>5. QED
  BY <1>2, <1>3, <1>4, Zenon

LEMMA NextIInv == IInv /\ [Next]_vars => IInv'
<1> SUFFICES ASSUME IInv, [Next]_vars PROVE IInv'
  OBVIOUS
<1>0. TypeOK /\ EnumerationExact /\ NoStaleFee
  BY DEF IInv
<1>1. ASSUME NEW c \in Address, AddAllowedContract(c) PROVE IInv'
  <2>1. fees' = [fees EXCEPT ![c] = 0]
    BY <1>0, <1>1 DEF AddAllowedContract, NoStaleFee, TypeOK
  <2>2. QED
    BY <1>1, <2>1, AddFreshIInv, FeeAssumption DEF AddAllowedContract, CheckAddress
<1>2. ASSUME NEW c \in Address, NEW f \in Fee, AddAllowedContractWithFee(c, f)
      PROVE  IInv'
  <2>1. CASE c \in allowlist
    <3>1. /\ fees' = [fees EXCEPT ![c] = f]
          /\ UNCHANGED <<allowlist, contracts, selectorAllowList, hasCode>>
      BY <1>2, <2>1 DEF AddAllowedContractWithFee, Pushed
    <3>2. TypeOK'
      BY <1>0, <3>1 DEF TypeOK
    <3>3. EnumerationExact'
      BY <1>0, <3>1 DEF EnumerationExact
    <3>4. NoStaleFee'
      BY <1>0, <2>1, <3>1 DEF NoStaleFee, TypeOK
    <3>5. QED
      BY <3>2, <3>3, <3>4 DEF IInv
  <2>2. CASE c \notin allowlist
    BY <1>2, <2>2, AddFreshIInv DEF AddAllowedContractWithFee, Pushed, CheckAddress
  <2>3. QED
    BY <2>1, <2>2
<1>3. ASSUME NEW c \in Address, RemoveAllowedContract(c) PROVE IInv'
  <2>1. c \in allowlist /\ contracts' = WithoutContract(contracts, c)
    BY <1>3 DEF RemoveAllowedContract
  <2>2. /\ contracts' \in Seq(Address \ {ZeroAddress})
        /\ IsInjective(contracts')
        /\ Range(contracts') = Range(contracts) \ {c}
    BY <1>0, <2>1, RemovedFromArray
  <2>3. TypeOK'
    BY <1>0, <1>3, <2>2, FeeAssumption DEF TypeOK, RemoveAllowedContract, FeesWithout
  <2>4. EnumerationExact'
    BY <1>0, <1>3, <2>2 DEF EnumerationExact, RemoveAllowedContract
  <2>5. NoStaleFee'
    BY <1>0, <1>3 DEF NoStaleFee, TypeOK, RemoveAllowedContract, FeesWithout
  <2>6. QED
    BY <2>3, <2>4, <2>5 DEF IInv
<1>4. ASSUME UNCHANGED <<allowlist, fees, contracts>>,
             selectorAllowList' \subseteq Selector,
             hasCode' \subseteq Address \ {ZeroAddress}
      PROVE  IInv'
  BY <1>0, <1>4 DEF IInv, TypeOK, EnumerationExact, NoStaleFee
<1>5. ASSUME NEW s \in Selector, AddAllowedSelector(s) \/ RemoveAllowedSelector(s)
      PROVE  IInv'
  BY <1>0, <1>4, <1>5 DEF AddAllowedSelector, RemoveAllowedSelector, TypeOK
<1>6. ASSUME NEW c \in Address, Deploy(c) \/ SelfDestruct(c)
      PROVE  IInv'
  BY <1>0, <1>4, <1>6 DEF Deploy, SelfDestruct, TypeOK, store
<1>7. CASE UNCHANGED vars
  BY <1>0, <1>4, <1>7 DEF vars, TypeOK
<1>8. QED
  BY <1>1, <1>2, <1>3, <1>5, <1>6, <1>7 DEF Next

(* Every reachable state satisfies the inductive invariant.                *)
THEOREM Invariance == Spec => []IInv
BY InitIInv, NextIInv, PTL DEF Spec

(* The types of the storage are preserved by every operation.              *)
THEOREM TypeCorrect == Spec => []TypeOK
<1>1. IInv => TypeOK
  BY DEF IInv
<1>2. QED
  BY <1>1, Invariance, PTL

(* The array always enumerates exactly the contracts the facets accept.    *)
THEOREM EnumerationCorrect == Spec => []EnumerationExact
<1>1. IInv => EnumerationExact
  BY DEF IInv
<1>2. QED
  BY <1>1, Invariance, PTL

(* A contract that is not allowed has no fee left.                         *)
THEOREM NoStaleFeeCorrect == Spec => []NoStaleFee
<1>1. IInv => NoStaleFee
  BY DEF IInv
<1>2. QED
  BY <1>1, Invariance, PTL

-----------------------------------------------------------------------------
(* The refinement.  Seen through the array and the fee mapping, a step of  *)
(* the library is a step of the registry.                                  *)
Registered == [c \in GetAllowedContracts |-> fees[c]]

LEMMA InitRefines == Init => R!Init
BY DEF Init, R!Init, Range

(* Adding a fresh contract or setting the fee of a listed one is SetFee.   *)
LEMMA SetFeeRefines ==
  ASSUME IInv, NEW c \in Address, NEW f \in Fee,
         fees' = [fees EXCEPT ![c] = f],
         Range(contracts') = Range(contracts) \cup {c},
         UNCHANGED selectorAllowList
  PROVE  R!SetFee(c, f)
<1>1. fees \in [Address -> Fee] /\ Range(contracts) \subseteq Address
  BY DEF IInv, TypeOK, EnumerationExact
<1>2. DOMAIN Registered = Range(contracts)
  BY DEF Registered
<1>3. Registered' = [d \in Range(contracts) \cup {c} |-> fees'[d]]
  BY DEF Registered
<1>4. \A d \in Range(contracts) \cup {c} :
        fees'[d] = IF d = c THEN f ELSE Registered[d]
  BY <1>1 DEF Registered
<1>5. Registered' = [d \in DOMAIN Registered \cup {c} |->
                       IF d = c THEN f ELSE Registered[d]]
  BY <1>2, <1>3, <1>4
<1>6. QED
  BY <1>5 DEF R!SetFee, Registered

LEMMA NextRefines == IInv /\ IInv' /\ [Next]_vars => [R!Next]_(R!regVars)
<1> SUFFICES ASSUME IInv, IInv', [Next]_vars PROVE R!Next \/ UNCHANGED R!regVars
  OBVIOUS
<1>0. /\ TypeOK /\ EnumerationExact /\ NoStaleFee
      /\ TypeOK' /\ EnumerationExact'
  BY DEF IInv
<1>1. ASSUME NEW c \in Address, AddAllowedContract(c) PROVE R!Next
  <2>1. /\ fees' = [fees EXCEPT ![c] = 0]
        /\ UNCHANGED selectorAllowList
        /\ c \notin Range(contracts)
    BY <1>0, <1>1 DEF AddAllowedContract, NoStaleFee, TypeOK, EnumerationExact
  <2>2. Range(contracts') = Range(contracts) \cup {c}
    BY <1>0, <1>1 DEF AddAllowedContract, EnumerationExact
  <2>3. R!SetFee(c, 0)
    BY <2>1, <2>2, SetFeeRefines, FeeAssumption
  <2>4. QED
    BY <2>3, FeeAssumption DEF R!Next
<1>2. ASSUME NEW c \in Address, NEW f \in Fee, AddAllowedContractWithFee(c, f)
      PROVE  R!Next
  <2>1. /\ fees' = [fees EXCEPT ![c] = f]
        /\ UNCHANGED selectorAllowList
        /\ allowlist' = allowlist \cup {c}
    BY <1>2 DEF AddAllowedContractWithFee
  <2>2. Range(contracts') = Range(contracts) \cup {c}
    BY <1>0, <2>1 DEF EnumerationExact
  <2>3. R!SetFee(c, f)
    BY <2>1, <2>2, SetFeeRefines
  <2>4. QED
    BY <2>3 DEF R!Next
<1>3. ASSUME NEW c \in Address, RemoveAllowedContract(c) PROVE R!Next
  <2>1. /\ c \in Range(contracts)
        /\ Range(contracts') = Range(contracts) \ {c}
        /\ UNCHANGED selectorAllowList
        /\ fees' = [fees EXCEPT ![c] = 0]
    BY <1>0, <1>3 DEF RemoveAllowedContract, FeesWithout, EnumerationExact
  <2>2. fees \in [Address -> Fee] /\ Range(contracts) \subseteq Address
    BY <1>0 DEF TypeOK, EnumerationExact
  <2>3. \A d \in Range(contracts) \ {c} : fees'[d] = Registered[d]
    BY <2>1, <2>2 DEF Registered
  <2>4. Registered' = [d \in Range(contracts) \ {c} |-> fees'[d]]
    BY <2>1 DEF Registered
  <2>5. Registered' = [d \in DOMAIN Registered \ {c} |-> Registered[d]]
    BY <2>3, <2>4 DEF Registered
  <2>6. R!Deregister(c)
    BY <2>1, <2>5 DEF R!Deregister, Registered
  <2>7. QED
    BY <2>6 DEF R!Next
<1>4. ASSUME NEW s \in Selector, AddAllowedSelector(s) PROVE R!Next
  BY <1>4 DEF AddAllowedSelector, R!Next, R!AllowSelector
<1>5. ASSUME NEW s \in Selector, RemoveAllowedSelector(s) PROVE R!Next
  BY <1>5 DEF RemoveAllowedSelector, R!Next, R!DisallowSelector
<1>6. ASSUME NEW c \in Address, Deploy(c) \/ SelfDestruct(c)
      PROVE  UNCHANGED R!regVars
  BY <1>6 DEF Deploy, SelfDestruct, store, R!regVars
<1>7. CASE UNCHANGED vars
  BY <1>7 DEF vars, R!regVars
<1>8. QED
  BY <1>1, <1>2, <1>3, <1>4, <1>5, <1>6, <1>7 DEF Next

(* LibAllowList implements the abstract registry.                          *)
THEOREM AllowListImplementsRegistry == Spec => ImplementsRegistry
<1>1. Spec => []IInv
  BY Invariance
<1>2. QED
  BY <1>1, InitRefines, NextRefines, PTL DEF Spec, ImplementsRegistry, R!Spec
=============================================================================
