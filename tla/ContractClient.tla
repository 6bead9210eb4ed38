--------------------------- MODULE ContractClient ---------------------------
(***************************************************************************)
(* The generated clients of seven contracts.  A call is made through a     *)
(* method or as the struct of the call, the contract finds the function by *)
(* the selector and takes the arguments by position, and the client reads  *)
(* the answer by position again.  Calldata can also be told back into the  *)
(* call it is, and logs into events, by trying one struct after the other. *)
(* The facets are those of the router, whose Solidity is the other side of *)
(* the interface; tokens, pairs, pools and factories are external, and     *)
(* behave as the interface in the bindings says.                           *)
(***************************************************************************)
EXTENDS FacetInterface

Erc20 == INSTANCE Erc20Abi
UniV2Factory == INSTANCE UniV2FactoryAbi
UniV2Pair == INSTANCE UniV2PairAbi
UniV3Factory == INSTANCE UniV3FactoryAbi
UniV3Pool == INSTANCE UniV3PoolAbi
V2FacetAbi == INSTANCE UniV2FacetAbi
V3FacetAbi == INSTANCE UniV3FacetAbi

NoEvents == [events |-> <<>>, logs |-> <<>>, logOrder |-> <<>>]

Bindings ==
  [erc20 |->
     [functions |-> Erc20!Functions, methods |-> Erc20!Methods,
      calls |-> Erc20!Calls, callOrder |-> Erc20!CallOrder, returns |-> Erc20!Returns,
      events |-> Erc20!Events, logs |-> Erc20!Logs, logOrder |-> Erc20!LogOrder],
   uniV2Factory |->   \* with one event, there is nothing to choose between
     [functions |-> UniV2Factory!Functions, methods |-> UniV2Factory!Methods,
      calls |-> UniV2Factory!Calls, callOrder |-> UniV2Factory!CallOrder,
      returns |-> UniV2Factory!Returns, events |-> UniV2Factory!Events,
      logs |-> UniV2Factory!Logs, logOrder |-> <<"PairCreated">>],
   uniV2Pair |->
     [functions |-> UniV2Pair!Functions, methods |-> UniV2Pair!Methods,
      calls |-> UniV2Pair!Calls, callOrder |-> UniV2Pair!CallOrder,
      returns |-> UniV2Pair!Returns, events |-> UniV2Pair!Events,
      logs |-> UniV2Pair!Logs, logOrder |-> UniV2Pair!LogOrder],
   uniV3Factory |->
     [functions |-> UniV3Factory!Functions, methods |-> UniV3Factory!Methods,
      calls |-> UniV3Factory!Calls, callOrder |-> UniV3Factory!CallOrder,
      returns |-> UniV3Factory!Returns, events |-> UniV3Factory!Events,
      logs |-> UniV3Factory!Logs, logOrder |-> UniV3Factory!LogOrder],
   uniV3Pool |->
     [functions |-> UniV3Pool!Functions, methods |-> UniV3Pool!Methods,
      calls |-> UniV3Pool!Calls, callOrder |-> UniV3Pool!CallOrder,
      returns |-> UniV3Pool!Returns, events |-> UniV3Pool!Events,
      logs |-> UniV3Pool!Logs, logOrder |-> UniV3Pool!LogOrder],
   uniV2Facet |-> NoEvents @@
     [functions |-> V2FacetAbi!Functions, methods |-> V2FacetAbi!Methods,
      calls |-> V2FacetAbi!Calls, callOrder |-> V2FacetAbi!CallOrder,
      returns |-> V2FacetAbi!Returns],
   uniV3Facet |-> NoEvents @@
     [functions |-> V3FacetAbi!Functions, methods |-> V3FacetAbi!Methods,
      calls |-> V3FacetAbi!Calls, callOrder |-> V3FacetAbi!CallOrder,
      returns |-> V3FacetAbi!Returns]]

(* What the contracts on the chain offer. *)
Deployed ==
  [c \in DOMAIN Bindings |->
     CASE c = "uniV2Facet" -> UniV2Facet
       [] c = "uniV3Facet" -> UniV3Facet
       [] OTHER -> Bindings[c].functions]

Nothing == [name |-> "", fields |-> <<>>]

VARIABLES
  contract,  \* the contract whose client this is
  stage,     \* idle, sent, ran, answered, read; logged; panicked, reverted, refused
  asked,     \* the function that was called, or the event that happened
  wire,      \* what is on its way: calldata, an answer or a log
  ran,       \* the function the contract ran, with the arguments it took
  read,      \* what the client has read of the answer
  told       \* the call that the calldata is told to be, or the event of the log

vars == <<contract, stage, asked, wire, ran, read, told>>

B == Bindings[contract]

Init ==
  /\ contract \in DOMAIN Bindings
  /\ stage = "idle" /\ asked = "" /\ wire = <<>>
  /\ ran = Nothing /\ read = <<>> /\ told = Nothing

-----------------------------------------------------------------------------
Selector(functions, fn) == <<fn, functions[fn].types>>

(* method_hash: the function with the selector, if the arguments fit it. *)
Encodes(method, fn) ==
  Selector(B.functions, fn) = method.selector
  /\ Len(method.args) = Len(B.functions[fn].types)

CallMethod(m) ==
  /\ stage = "idle" /\ asked' = m
  /\ IF \E fn \in DOMAIN B.functions : Encodes(B.methods[m], fn)
     THEN /\ stage' = "sent"
          /\ wire' = [selector |-> B.methods[m].selector,
                      data |-> Encode(B.methods[m].selector[2], B.methods[m].args)]
     ELSE stage' = "panicked" /\ UNCHANGED wire
  /\ UNCHANGED <<contract, ran, read, told>>

(* AbiEncode of the struct of a call *)
EncodeCall(c) ==
  /\ stage = "idle" /\ asked' = c /\ stage' = "sent"
  /\ wire' = [selector |-> B.calls[c].selector,
              data |-> Encode(B.calls[c].selector[2], B.calls[c].args)]
  /\ UNCHANGED <<contract, ran, read, told>>

(* The contract looks for the selector among its own functions. *)
Run ==
  /\ stage = "sent"
  /\ LET D == Deployed[contract]
         found == {fn \in DOMAIN D : Selector(D, fn) = wire.selector}
     IN IF found = {} THEN stage' = "reverted" /\ UNCHANGED ran
        ELSE \E fn \in found :
               /\ stage' = "ran"
               /\ ran' = [name |-> fn, fields |-> NamedFields(D[fn].names, wire.data)]
  /\ UNCHANGED <<contract, asked, wire, read, told>>

(* What the outputs hold; a facet takes the state of a pool from slot0. *)
Held(fn, outs) ==
  IF fn = "uniV3PoolState"
  THEN [i \in DOMAIN outs |->
          PoolStateSource(Bindings["uniV3Pool"].functions["slot0"], outs[i])]
  ELSE outs

Slot0Decodes ==
  LET slot0 == Bindings["uniV3Pool"].functions["slot0"]
  IN Decodes(Slot0Types, Encode(slot0.outTypes, slot0.outs))

Answer ==
  /\ stage = "ran"
  /\ LET fn == Deployed[contract][ran.name]
     IN IF ran.name = "uniV3PoolState" /\ ~Slot0Decodes
        THEN stage' = "reverted" /\ UNCHANGED wire
        ELSE stage' = "answered" /\ wire' = Encode(fn.outTypes, Held(ran.name, fn.outs))
  /\ UNCHANGED <<contract, asked, ran, read, told>>

(* The words of an answer by the types of the ABI, into the fields of what *)
(* the call returns: structs have to be where the ABI has them.            *)
Names(fn) == IF fn \in DOMAIN B.returns THEN B.returns[fn] ELSE <<>>
Shape(names, types) ==
  /\ Len(names) = Len(types)
  /\ \A i \in DOMAIN types : types[i] \in Marks => names[i] = types[i]

ReadAnswer ==
  /\ stage = "answered"
  /\ LET types == B.functions[asked].outTypes
     IN IF Decodes(types, wire) /\ Shape(Names(asked), types)
        THEN stage' = "read" /\ read' = NamedFields(Names(asked), wire)
        ELSE stage' = "refused" /\ UNCHANGED read
  /\ UNCHANGED <<contract, asked, wire, ran, told>>

(* The first in the order that has the selector and can be read. *)
FirstOf(order, Fits(_)) ==
  LET at == {i \in DOMAIN order : Fits(order[i])}
  IN IF at = {} THEN "" ELSE order[CHOOSE i \in at : \A j \in at : i <= j]

(* AbiDecode of the enum of calls, by whoever has the calldata. *)
DecodeCall ==
  /\ stage = "sent" /\ told = Nothing
  /\ LET fits(c) == /\ B.calls[c].selector = wire.selector
                    /\ Decodes(B.calls[c].selector[2], wire.data)
         c == FirstOf(B.callOrder, fits)
     IN told' = [name |-> c,
                 fields |-> IF c = "" THEN <<>> ELSE NamedFields(B.calls[c].args, wire.data)]
  /\ UNCHANGED <<contract, stage, asked, wire, ran, read>>

-----------------------------------------------------------------------------
(* A contract logs an event; one of another kind may index other arguments *)
(* under the same first topic.                                             *)
MaxTopics == 3
Arguments(e) == {B.events[e].names[i] : i \in DOMAIN B.events[e].names}

Emit(e, indexed) ==
  /\ stage = "idle" /\ Cardinality(indexed) <= MaxTopics
  /\ stage' = "logged" /\ asked' = e
  /\ wire' = LogOf(<<e, B.events[e].types>>, B.events[e].types, B.events[e].names, indexed)
  /\ UNCHANGED <<contract, ran, read, told>>

DecodeLog ==
  /\ stage = "logged"
  /\ LET fits(l) == DecodesLog(B.logs[l], wire)
         l == FirstOf(B.logOrder, fits)
     IN IF l = "" THEN stage' = "refused" /\ UNCHANGED told
        ELSE /\ stage' = "read"
             /\ told' = [name |-> l, fields |-> LogFields(B.logs[l], wire)]
  /\ UNCHANGED <<contract, asked, wire, ran, read>>

Next ==
  \/ \E m \in DOMAIN B.methods : CallMethod(m)
  \/ \E c \in DOMAIN B.calls : EncodeCall(c)
  \/ Run \/ Answer \/ ReadAnswer \/ DecodeCall
  \/ \E e \in DOMAIN B.events : \E indexed \in SUBSET Arguments(e) : Emit(e, indexed)
  \/ DecodeLog

Spec == Init /\ [][Next]_vars

-----------------------------------------------------------------------------
(* What arrives in a field was sent for it; without names, positions tell. *)
Own(fields) ==
  \A i \in DOMAIN fields : "" \in {fields[i].name, fields[i].value}
                           \/ fields[i].name = fields[i].value

(***************************************************************************)
(* A call through a method or a struct runs the function that was named,   *)
(* with every argument in its place, calldata is told to be the call it    *)
(* is, and every field that the client reads was filled from the output,   *)
(* or from the value at the pool, of that name: on the way from the pool   *)
(* through the struct in Solidity, the words of the answer, the ABI and    *)
(* the struct in Rust nothing is swapped, cut off or refused, and a method *)
(* never panics.                                                           *)
(***************************************************************************)
CallUnderstood ==
  asked \in DOMAIN B.functions =>
    /\ stage \notin {"panicked", "reverted", "refused"}
    /\ ran # Nothing => ran.name = asked /\ Own(ran.fields)
    /\ told # Nothing => told.name = asked /\ Own(told.fields)
    /\ stage = "read" =>
         Own(read) /\ Len(read) = Len(Deployed[contract][asked].outs)

IndexesAsDeclared == {wire.topics[i].value : i \in DOMAIN wire.topics} = B.events[asked].indexed
(***************************************************************************)
(* A log of the contract is told to be the event it is, with every field   *)
(* in its place, and a log with the same first topic but another number of *)
(* topics, as other kinds of tokens have it, is refused and never misread. *)
(***************************************************************************)
LogUnderstood ==
  (asked \in DOMAIN B.events /\ stage \in {"read", "refused"}) =>
    /\ IndexesAsDeclared => stage = "read" /\ told.name = asked /\ Own(told.fields)
    /\ Len(wire.topics) # Cardinality(B.events[asked].indexed) => stage = "refused"
=============================================================================
