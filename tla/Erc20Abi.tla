------------------------------ MODULE Erc20Abi -------------------------------
(***************************************************************************)
(* bindings/erc20.rs: the contract of the token as the generated client    *)
(* knows it. The same interface is written down several times: the parsed  *)
(* ABI (Functions, Events), the methods, the structs of the calls and the  *)
(* logs and of what they return, and the order in which data is tried on   *)
(* those.                                                                  *)
(***************************************************************************)
EXTENDS Abi, TLC

FunctionsFromDOMAIN_SEPARATOR ==
  [DOMAIN_SEPARATOR |-> Getter(bytes32),
   allowance |-> Fn(<<"", "">>, <<address, address>>, <<"">>, <<uint256>>),
   approve |-> Fn(<<"spender", "amount">>, <<address, uint256>>, <<"">>,
                  <<bool>>),
   balanceOf |-> Fn(<<"">>, <<address>>, <<"">>, <<uint256>>),
   decimals |-> Getter(uint8),
   name |-> Getter(string),
   nonces |-> Fn(<<"">>, <<address>>, <<"">>, <<uint256>>)]

FunctionsFromPermit ==
  [permit |-> Fn(<<"owner", "spender", "value", "deadline", "v", "r", "s">>,
                 <<address, address, uint256, uint256, uint8, bytes32,
                   bytes32>>, <<>>, <<>>),
   symbol |-> Getter(string),
   totalSupply |-> Getter(uint256),
   transfer |-> Fn(<<"to", "amount">>, <<address, uint256>>, <<"">>, <<bool>>),
   transferFrom |-> Fn(<<"from", "to", "amount">>,
                       <<address, address, uint256>>, <<"">>, <<bool>>)]

Functions ==
  FunctionsFromDOMAIN_SEPARATOR @@ FunctionsFromPermit

Events ==
  [Approval |-> Event(<<"owner", "spender", "amount">>,
                      <<address, address, uint256>>, {"owner", "spender"}),
   Transfer |-> Event(<<"from", "to", "amount">>,
                      <<address, address, uint256>>, {"from", "to"})]

Methods ==
  [allowance |-> Sends("allowance", <<address, address>>, <<"", "">>),
   approve |-> Sends("approve", <<address, uint256>>, <<"spender", "amount">>),
   balanceOf |-> Sends("balanceOf", <<address>>, <<"">>),
   nonces |-> Sends("nonces", <<address>>, <<"">>),
   permit |-> Sends("permit",
                    <<address, address, uint256, uint256, uint8, bytes32,
                      bytes32>>,
                    <<"owner", "spender", "value", "deadline", "v", "r",
                      "s">>),
   transfer |-> Sends("transfer", <<address, uint256>>, <<"to", "amount">>),
   transferFrom |-> Sends("transferFrom", <<address, address, uint256>>,
                          <<"from", "to", "amount">>)]
  @@ [f \in {"DOMAIN_SEPARATOR", "decimals", "name", "symbol", "totalSupply"}
        |-> Sends(f, <<>>, <<>>)]

CallsFromDOMAIN_SEPARATOR ==
  [allowance |-> Sends("allowance", <<address, address>>, <<"", "">>),
   approve |-> Sends("approve", <<address, uint256>>, <<"spender", "amount">>),
   balanceOf |-> Sends("balanceOf", <<address>>, <<"">>),
   nonces |-> Sends("nonces", <<address>>, <<"">>)]
  @@ [f \in {"DOMAIN_SEPARATOR", "decimals", "name"} |-> Sends(f, <<>>, <<>>)]

CallsFromPermit ==
  [permit |-> Sends("permit",
                    <<address, address, uint256, uint256, uint8, bytes32,
                      bytes32>>,
                    <<"owner", "spender", "value", "deadline", "v", "r",
                      "s">>),
   transfer |-> Sends("transfer", <<address, uint256>>, <<"to", "amount">>),
   transferFrom |-> Sends("transferFrom", <<address, address, uint256>>,
                          <<"from", "to", "amount">>)]
  @@ [f \in {"symbol", "totalSupply"} |-> Sends(f, <<>>, <<>>)]

Calls ==
  CallsFromDOMAIN_SEPARATOR @@ CallsFromPermit

CallOrder ==
  <<"DOMAIN_SEPARATOR", "allowance", "approve", "balanceOf", "decimals",
    "name", "nonces", "permit", "symbol", "totalSupply", "transfer",
    "transferFrom">>

Returns ==
  [f \in {"DOMAIN_SEPARATOR", "allowance", "approve", "balanceOf", "decimals",
            "name", "nonces", "symbol", "totalSupply", "transfer", "transferFrom"}
     |-> <<"">>]

\* Mutant: the amount is read as a topic, as it is for a token of its own kind.
LogsOfItems ==
  [Approval |-> Logged("Approval", <<address, address, uint256>>,
                       <<"owner", "spender", "amount">>,
                       {"owner", "spender", "amount"}),
   Transfer |-> Logged("Transfer", <<address, address, uint256>>,
                       <<"from", "to", "amount">>,
                       {"from", "to", "amount"})]
Logs ==
  [Approval |-> Logged("Approval", <<address, address, uint256>>,
                       <<"owner", "spender", "amount">>, {"owner", "spender"}),
   Transfer |-> Logged("Transfer", <<address, address, uint256>>,
                       <<"from", "to", "amount">>, {"from", "to"})]

LogOrder ==
  <<"Approval", "Transfer">>
==============================================================================
