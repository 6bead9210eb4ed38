------------------------------ MODULE Transfers ------------------------------
(***************************************************************************)
(* The transfers LibPayments is made of, as operators on a ledger: what    *)
(* every account holds of every asset, and how much of a token its owner   *)
(* lets address(this) take through Permit2.  A transfer is given as the    *)
(* set of ledgers it may lead to, which is empty when it reverts.          *)
(***************************************************************************)
EXTENDS Integers

CONSTANTS
  Eth,              \* the native coin, by any of the names isETH knows
  This,             \* address(this), the contract the facets run in
  MsgSender,        \* the flags of Constants
  AddressThis,
  ContractBalance,  \* CONTRACT_BALANCE, 2^255
  MaxUint160        \* 2^160 - 1

ASSUME TransferAssumption ==
  /\ ContractBalance \in Nat /\ MaxUint160 \in Nat
  /\ MaxUint160 < ContractBalance

IsETH(token) == token = Eth

(* payerMap: the payer is one of two flags *)
PayerMap(payer, sender) ==
  CASE payer = MsgSender -> {sender}
    [] payer = AddressThis -> {This}
    [] OTHER -> {}

(* map: ETH is no recipient and stands for the sender *)
RecipientMap(recipient, sender) ==
  CASE recipient = MsgSender -> sender
    [] recipient = AddressThis -> This
    [] IsETH(recipient) -> sender
    [] OTHER -> recipient

Moved(holding, from, to, v) ==
  LET less == [holding EXCEPT ![from] = @ - v]
  IN [less EXCEPT ![to] = @ + v]

(* safeTransfer and safeTransferETH, of tokens that transfer what they say. *)
Transfer(ledger, token, from, to, v) ==
  IF v > ledger.bal[token][from] THEN {}
  ELSE {[ledger EXCEPT !.bal[token] = Moved(@, from, to, v)]}

(* UniERC20.uniBalanceOf *)
UniBalanceOf(ledger, token, account) == ledger.bal[token][account]

Pay(ledger, token, recipient, v) ==
  IF recipient = This THEN {ledger}
  ELSE Transfer(ledger, token, This, recipient,
                IF v = ContractBalance /\ ~IsETH(token)
                THEN UniBalanceOf(ledger, token, This) ELSE v)

(* Permit2 takes no more than the owner has permitted. *)
Permit2Transfer(ledger, token, from, to, v) ==
  IF from = to THEN {ledger}
  ELSE IF v > ledger.permits[token][from] THEN {}
  ELSE Transfer([ledger EXCEPT !.permits[token][from] = @ - v], token, from, to, v)

(* Nothing is paid in ETH. *)
PayFrom(ledger, token, payer, recipient, v) ==
  IF payer = recipient \/ IsETH(token) THEN {ledger}
  ELSE Permit2Transfer(ledger, token, payer, recipient, v)

PayOrPermit2Transfer(ledger, token, payer, recipient, v) ==
  IF payer = This THEN Pay(ledger, token, recipient, v)
  ELSE IF v > MaxUint160 THEN {}
  ELSE PayFrom(ledger, token, payer, recipient, v)
=============================================================================
