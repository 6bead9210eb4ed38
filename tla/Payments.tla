------------------------------ MODULE Payments ------------------------------
(***************************************************************************)
(* LibPayments: the settings of the payments, and the operations a facet   *)
(* composes to take tokens in, wrap and unwrap the native coin, and pay    *)
(* out.  The functions are internal, so that who may call them is up to    *)
(* the facet; a payer and a recipient reach them through payerMap and map. *)
(***************************************************************************)
EXTENDS Transfers, Sequences, FiniteSetsExt

CONSTANTS
  Users,     \* the accounts that call
  Weth,      \* WETH9: a token, and the account that holds the ETH behind it
  Token,     \* another token
  Amounts,   \* the amounts asked for
  Permits,   \* the amounts permitted
  Bips,      \* the portions asked for
  FeeBips,   \* the fees tried
  Funded,    \* the users who have ETH and Token at the start
  Supply     \* how much of each

FEE_BIPS_BASE == 10000

ASSUME PaymentsAssumption ==
  /\ Amounts \cup Permits \cup Bips \cup FeeBips \subseteq Nat
  /\ IsFiniteSet(Users) /\ Funded \subseteq Users /\ Supply \in Nat

VARIABLES
  fee,           \* PaymentStorage
  feeCollector,
  initialized,   \* WETH9 and PERMIT2 are set as well
  ledger,        \* balances, and allowances given on Permit2
  sender,        \* msg.sender of the last call
  named          \* the payer it named that nothing compares with the sender

settings == <<fee, feeCollector, initialized>>
call == <<sender, named>>
vars == <<settings, ledger, call>>

Assets == {Eth, Weth, Token}
Accounts == Users \cup {This, Weth}
Nobody == "nobody"

Init ==
  /\ fee = 0 /\ feeCollector = Nobody /\ initialized = FALSE
  /\ ledger = [bal |-> [a \in Assets |-> [x \in Accounts |->
                          IF x \in Funded /\ a # Weth THEN Supply ELSE 0]],
               permits |-> [t \in {Weth, Token} |-> [u \in Users |-> 0]]]
  /\ sender \in Users /\ named = Nobody

-----------------------------------------------------------------------------
FeeAccepted(f) == f <= FEE_BIPS_BASE \div 10

SetFee(f) ==
  /\ FeeAccepted(f)
  /\ fee' = f
  /\ UNCHANGED <<feeCollector, initialized, ledger, call>>

ChangeFeeCollector(collector) ==
  /\ feeCollector' = collector
  /\ UNCHANGED <<fee, initialized, ledger, call>>

InitializePayment(collector, f) ==
  /\ ~initialized
  /\ initialized' = TRUE /\ feeCollector' = collector /\ fee' = f
  /\ UNCHANGED <<ledger, call>>

-----------------------------------------------------------------------------
(* A call moves tokens and leaves the settings. *)
CalledBy(u, payer) == sender' = u /\ named' = payer /\ UNCHANGED settings

(* How a facet pays: payer.payerMap(), recipient.map(), and a transfer.   *)
(* Without Permit2 a transfer from the sender reverts.                     *)
FacetPays(u, token, payer, recipient, v) ==
  /\ \E from \in PayerMap(payer, u) :
       /\ ledger' \in PayOrPermit2Transfer(ledger, token, from,
                                           RecipientMap(recipient, u), v)
       /\ from = This \/ initialized \/ ledger' = ledger
  /\ CalledBy(u, Nobody)

(* payFrom and the single permit2TransferFrom take any payer that the code *)
(* which calls them names.                                                 *)
PayFromNamed(u, token, payer, recipient, v) ==
  /\ ledger' \in PayFrom(ledger, token, payer, recipient, v)
  /\ payer = recipient \/ IsETH(token) \/ (initialized /\ v <= MaxUint160)
  /\ CalledBy(u, payer)

Permit2TransferFrom(u, token, from, to, v) ==
  /\ v <= MaxUint160
  /\ ledger' \in Permit2Transfer(ledger, token, from, to, v)
  /\ from = to \/ initialized
  /\ CalledBy(u, from)

(* The batch is refused unless it takes from its sender only. *)
\* Mutant: the first transfer of a batch stands for all of them.
FirstIsOwn(batch, u) == batch[1].from = u
OwnerIsSender(batch, u) == \A i \in DOMAIN batch : batch[i].from = u

(* The transfers one after the other. *)
AfterBatch(batch) ==
  LET after[i \in 0..Len(batch)] ==
        IF i = 0 THEN {ledger}
        ELSE UNION {Permit2Transfer(l, batch[i].token, batch[i].from, batch[i].to,
                                    batch[i].amount) : l \in after[i - 1]}
  IN after[Len(batch)]

Permit2TransferFromBatch(u, batch) ==
  /\ initialized /\ OwnerIsSender(batch, u)
  /\ ledger' \in AfterBatch(batch)
  /\ CalledBy(u, Nobody)

PayPortion(u, token, recipient, bips) ==
  /\ bips \in 1..FEE_BIPS_BASE
  /\ ledger' \in Transfer(ledger, token, This, recipient,
                          (UniBalanceOf(ledger, token, This) * bips) \div FEE_BIPS_BASE)
  /\ CalledBy(u, Nobody)

Sweep(u, token, recipient, amountMinimum) ==
  /\ UniBalanceOf(ledger, token, This) >= amountMinimum
  /\ ledger' \in Transfer(ledger, token, This, recipient,
                          UniBalanceOf(ledger, token, This))
  /\ CalledBy(u, Nobody)

(* CONTRACT_BALANCE wraps everything. *)
WrapAmount(amount) ==
  IF amount = ContractBalance THEN ledger.bal[Eth][This] ELSE amount

WrapFits(v) == v <= ledger.bal[Eth][This]

\* Mutant: the recipient is credited once more when it is address(this).
WethPaidTwice(recipient, v) ==
  [ledger.bal[Weth] EXCEPT ![This] = @ + v, ![recipient] = @ + v]
(* deposit credits address(this), which passes it on. *)
WethPaid(recipient, v) ==
  Moved([ledger.bal[Weth] EXCEPT ![This] = @ + v], This, recipient, v)

WrapETH(u, recipient, amount) ==
  LET v == WrapAmount(amount)
  IN /\ WrapFits(v)
     /\ v > 0 => initialized
     /\ ledger' = [ledger EXCEPT !.bal[Eth] = Moved(@, This, Weth, v),
                                 !.bal[Weth] = WethPaid(recipient, v)]
     /\ CalledBy(u, Nobody)

(* withdraw burns exactly the amount; what it pays is passed on. *)
UnwrapWETH9(u, recipient, amount) ==
  /\ initialized
  /\ ledger.bal[Weth][This] >= amount
  /\ ledger' = [ledger EXCEPT !.bal[Weth][This] = @ - amount,
                              !.bal[Eth] = Moved(@, Weth, recipient, amount)]
  /\ CalledBy(u, Nobody)

(* An owner signs a permit; an account sends something of its own. *)
Permit(u, token, v) ==
  /\ initialized
  /\ ledger' = [ledger EXCEPT !.permits[token][u] = v]
  /\ CalledBy(u, Nobody)

Send(u, token, to, v) ==
  /\ ledger' \in Transfer(ledger, token, u, to, v)
  /\ CalledBy(u, Nobody)

-----------------------------------------------------------------------------
Recipients == Users \cup {This}
Details == [token : {Weth, Token}, from : Users, to : Recipients, amount : {1}]

Operation(u) ==
  \/ \E t \in Assets, p \in {MsgSender, AddressThis, Nobody},
        r \in {MsgSender, AddressThis, Eth} \cup Users, v \in Amounts :
       FacetPays(u, t, p, r, v)
  \/ \E t \in Assets, p \in Users, r \in Recipients, v \in Amounts :
       PayFromNamed(u, t, p, r, v)
  \/ \E t \in {Weth, Token}, p \in Users, r \in Recipients, v \in Amounts :
       Permit2TransferFrom(u, t, p, r, v)
  \/ \E d, e \in Details : Permit2TransferFromBatch(u, <<d, e>>)
  \/ \E t \in Assets, r \in Recipients, b \in Bips : PayPortion(u, t, r, b)
  \/ \E t \in Assets, r \in Recipients, v \in Amounts : Sweep(u, t, r, v)
  \/ \E r \in Recipients, v \in Amounts : WrapETH(u, r, v)
  \/ \E r \in Recipients, v \in Amounts : UnwrapWETH9(u, r, v)
  \/ \E t \in {Weth, Token}, v \in Permits : Permit(u, t, v)
  \/ \E t \in Assets, v \in Amounts : Send(u, t, This, v)

Next ==
  \/ \E f \in FeeBips : SetFee(f)
  \/ \E u \in Users : ChangeFeeCollector(u)
  \/ \E u \in Users, f \in FeeBips : InitializePayment(u, f)
  \/ \E u \in Users : Operation(u)

Spec == Init /\ [][Next]_vars

-----------------------------------------------------------------------------
Total(token) == MapThenSumSet(LAMBDA x : ledger.bal[token][x], Accounts)

(***************************************************************************)
(* Every unit of WETH is backed by a unit of ETH that WETH9 holds, whoever *)
(* the wrapped or unwrapped coins are passed on to, address(this) as well. *)
(***************************************************************************)
WethBacked == Total(Weth) = ledger.bal[Eth][Weth]

(***************************************************************************)
(* What a user holds goes down in a call of the user's own, in a batch as  *)
(* well, although Permit2 would let address(this) take from whoever has    *)
(* signed a permit.  The two functions that take any payer can cost that   *)
(* one alone, whoever calls: no ETH, and no more of a token than the payer *)
(* has permitted.                                                          *)
(***************************************************************************)
MayLose(x, a) ==
  \/ x = sender'
  \/ /\ x = named' /\ a # Eth
     /\ ledger.bal[a][x] - ledger'.bal[a][x] <= ledger.permits[a][x]

OnlyPayersPay ==
  [][\A x \in Users, a \in Assets :
       ledger'.bal[a][x] < ledger.bal[a][x] => MayLose(x, a)]_vars

=============================================================================
