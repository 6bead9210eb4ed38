----------------------------- MODULE PoolRecords -----------------------------
(***************************************************************************)
(* fetch_pools of both integrations, from a list of addresses to the       *)
(* records of the pools, and the way of a record to another process: to a  *)
(* message of protobuf or to JSON and back.  The parameters, the states    *)
(* and the ticks are asked for one after the other, each in pages that are *)
(* answered in any order; they are matched by position in the end.  A      *)
(* value is named by the pool that it was read from and by its name there, *)
(* as far as it does not matter what it is.                                *)
(***************************************************************************)
EXTENDS FacetInterface, SequencesExt

CONSTANTS
  Lists,     \* the lists of addresses that are asked for
  ParamPage, \* param_page_size
  StatePage, \* state_page_size
  TickPage,  \* tick_page_size
  FeeRange,  \* 2^32: how many numbers the field of the fee holds
  FeeOf,     \* the fee of a pool
  Tickless   \* the pools without an initialised tick in range

V2Abi == INSTANCE UniV2FacetAbi
V3Abi == INSTANCE UniV3FacetAbi

(***************************************************************************)
(* A GeneralAddress is a DefaultAddr of 20 bytes or a BalancerAddr of 32,  *)
(* whose low 20 bytes may be the address of a pool, as they are for an     *)
(* address that was padded, or no pool's.                                  *)
(***************************************************************************)
Kinds == {"DefaultAddr", "Padded", "BalancerAddr"}

ASSUME RecordsAssumption ==
  /\ \A l \in Lists : l \in Seq([kind : Kinds, pool : DOMAIN FeeOf])
  /\ {ParamPage, StatePage, TickPage} \subseteq Nat \ {0}
  /\ FeeRange \in Nat \ {0} /\ FeeOf \in [DOMAIN FeeOf -> 0..(FeeRange - 1)]
  /\ Tickless \subseteq DOMAIN FeeOf

VARIABLES
  exchange,   \* the integration: UniV2 or UniV3
  asked,      \* pool_addresses
  phase,      \* params, states, ticks, fetched or failed
  replies,    \* the answers of the phase, by page; <<>> for one not there yet
  lists,      \* the answers of the phases before, concatenated
  records,    \* the pools that fetch_pools returns
  sent,       \* the message, the JSON, or nothing
  back        \* what the receiver makes of it

recordVars == <<exchange, asked, phase, replies, lists, records, sent, back>>

None == [outcome |-> "none"]

-----------------------------------------------------------------------------
Shorter(n, m) == IF n < m THEN n ELSE m

(* chunks(size) *)
Chunks(seq, size) ==
  [c \in 1..((Len(seq) + size - 1) \div size) |->
     SubSeq(seq, (c - 1) * size + 1, Shorter(c * size, Len(seq)))]

IsDefault(addr) == addr.kind = "DefaultAddr"
(* filter, from the first address on *)
Filtered(addrs) ==
  LET kept[n \in 0..Len(addrs)] ==
        IF n = 0 THEN <<>>
        ELSE IF IsDefault(addrs[n]) THEN Append(kept[n - 1], addrs[n]) ELSE kept[n - 1]
  IN kept[Len(addrs)]
DefaultAddresses == Filtered(asked)

(* The integration for v3 leaves addresses out for the parameters only. *)
Asked(p) ==
  IF exchange = "UniV2" \/ p = "params" THEN DefaultAddresses ELSE asked
SizeOf(p) ==
  CASE p = "params" -> ParamPage [] p = "states" -> StatePage [] OTHER -> TickPage
Requests(p) == Chunks(Asked(p), SizeOf(p))

Waiting(p) == [c \in DOMAIN Requests(p) |-> <<>>]

RecordsInit ==
  /\ exchange \in {"UniV2", "UniV3"} /\ asked \in Lists
  /\ phase = "params" /\ replies = Waiting("params") /\ lists = <<>>
  /\ records = <<>> /\ sent = None /\ back = None

(* What the facet answers, as the fields of the struct in Solidity ... *)
SolidityFields(p) ==
  IF exchange = "UniV2"
  THEN IF p = "params" THEN UniV2PoolParamsFields ELSE UniV2PoolStateFields
  ELSE CASE p = "params" -> UniV3PoolParamsFields
         [] p = "states" -> UniV3PoolStateFields
         [] OTHER -> <<"ticks">>
(* ... and as the client reads it, which goes by the order of the fields. *)
RustFields(p) ==
  IF exchange = "UniV2"
  THEN IF p = "params" THEN V2Abi!UniV2PoolParamsResponse ELSE V2Abi!UniV2PoolStateResponse
  ELSE CASE p = "params" -> V3Abi!UniV3PoolParamsResponse
         [] p = "states" -> V3Abi!UniV3PoolStateResponse
         [] OTHER -> <<"ticks">>

ReadOf(p, addr) ==
  [name \in ToSet(RustFields(p)) |->
     LET i == CHOOSE i \in DOMAIN RustFields(p) : RustFields(p)[i] = name
     IN [pool |-> addr.pool, of |-> <<SolidityFields(p)[i]>>]]

(* A page of a multicall: one call that reverts fails all of them. *)
HasPools(request) == \A i \in DOMAIN request : request[i].kind # "BalancerAddr"

AnswerPage(c) ==
  /\ phase \in {"params", "states", "ticks"}
  /\ c \in DOMAIN replies /\ replies[c] = <<>> /\ HasPools(Requests(phase)[c])
  /\ replies' = [replies EXCEPT ![c] =
       [i \in DOMAIN Requests(phase)[c] |-> ReadOf(phase, Requests(phase)[c][i])]]
  /\ UNCHANGED <<exchange, asked, phase, lists, records, sent, back>>

(* Any page may fail, as the node may; one without a pool has to. *)
FailPage(c) ==
  /\ phase \in {"params", "states", "ticks"}
  /\ c \in DOMAIN replies /\ replies[c] = <<>>
  /\ phase' = "failed"
  /\ UNCHANGED <<exchange, asked, replies, lists, records, sent, back>>

(* try_join_all keeps the order of the requests; concat. *)
Joined == FlattenSeq(replies)
AllAnswered == \A c \in DOMAIN replies : replies[c] # <<>>

NextPhase(p) == IF p = "params" THEN "states" ELSE "ticks"
IsLast(p) == p = (IF exchange = "UniV2" THEN "states" ELSE "ticks")

Join ==
  /\ phase \in {"params", "states", "ticks"} /\ ~IsLast(phase) /\ AllAnswered
  /\ lists' = Append(lists, Joined)
  /\ phase' = NextPhase(phase) /\ replies' = Waiting(NextPhase(phase))
  /\ UNCHANGED <<exchange, asked, records, sent, back>>

-----------------------------------------------------------------------------
Element(value, i) == [pool |-> value.pool, of |-> Append(value.of, i)]

(* The fields of pool::UniV2; the gas fee of an exchange is a constant. *)
UniV2Record(param, state) ==
  [type |-> "UniV2", address |-> param["pool"], dex_id |-> exchange, gasfee |-> 135000,
   token_a |-> Element(param["tokenList"], 0), token_b |-> Element(param["tokenList"], 1),
   balance_a |-> Element(state["balances"], 0), balance_b |-> Element(state["balances"], 1),
   fee_numerator |-> Element(param["fees"], 0), fee_denominator |-> Element(param["fees"], 1)]

\* Mutant: the price and the liquidity are taken for each other.
UniV3RecordSwapped(param, state, ticks) ==
  [type |-> "UniV3", address |-> param["pool"], dex_id |-> exchange, gasfee |-> 250000,
   token_a |-> Element(param["tokenList"], 0), token_b |-> Element(param["tokenList"], 1),
   fee |-> FeeOf[param["fee"].pool], tickspacing |-> param["tickSpacing"],
   tick2liquidity_net |-> ticks["ticks"],
   liquidity |-> state["sqrtPriceX96"], slot0_sqrt_price_x96 |-> state["liquidity"],
   slot0_tick |-> state["tick"]]
(* The fields of pool::UniV3, apart from the two constants of the ticks. *)
UniV3Record(param, state, ticks) ==
  [type |-> "UniV3", address |-> param["pool"], dex_id |-> exchange, gasfee |-> 250000,
   token_a |-> Element(param["tokenList"], 0), token_b |-> Element(param["tokenList"], 1),
   fee |-> FeeOf[param["fee"].pool], tickspacing |-> param["tickSpacing"],
   tick2liquidity_net |-> ticks["ticks"],
   liquidity |-> state["liquidity"], slot0_sqrt_price_x96 |-> state["sqrtPriceX96"],
   slot0_tick |-> state["tick"]]

FinishUniV2 ==
  /\ exchange = "UniV2" /\ phase = "states" /\ AllAnswered
  /\ records' = [i \in 1..Shorter(Len(lists[1]), Len(Joined)) |->
                   UniV2Record(lists[1][i], Joined[i])]
  /\ phase' = "fetched"
  /\ UNCHANGED <<exchange, asked, replies, lists, sent, back>>

(* ticks.zip(states).zip(params), and params.zip(states_with_ticks) *)
FinishUniV3 ==
  /\ exchange = "UniV3" /\ phase = "ticks" /\ AllAnswered
  /\ records' = [i \in 1..Shorter(Len(lists[1]), Shorter(Len(lists[2]), Len(Joined))) |->
                   UniV3Record(lists[1][i], lists[2][i], Joined[i])]
  /\ phase' = "fetched"
  /\ UNCHANGED <<exchange, asked, replies, lists, sent, back>>

-----------------------------------------------------------------------------
(* The fields of a message by how they are written.  In the message they   *)
(* are text, but for small numbers and the map of the ticks.               *)
AddressFields == {"address", "token_a", "token_b"}
DecimalFields ==
  {"balance_a", "balance_b", "fee_numerator", "fee_denominator", "liquidity",
   "slot0_sqrt_price_x96"}
PlainFields == {"dex_id", "tickspacing", "tick2liquidity_net", "slot0_tick"}

AsI32(n) == IF n >= FeeRange \div 2 THEN n - FeeRange ELSE n
\* Mutant: the fee is cut to a part of its width.
AsU16(n) == n % (FeeRange \div 4)
AsU32(n) == n % FeeRange

Text(form, value) == [form |-> form, value |-> value]
(* A field that the sender left out is read as an empty text or as zero. *)
Absent == Text("absent", "")

ToMessage(record) ==
  [f \in DOMAIN record \ {"type"} |->
     CASE f \in AddressFields -> Text("hex", record[f])
       [] f \in DecimalFields -> Text("decimal", record[f])
       [] f = "gasfee" -> Text("float", record[f])
       [] f = "fee" -> Text("i32", AsI32(record[f]))
       [] f \in PlainFields -> Text("plain", record[f])]

(* The message of a pool, by a sender that may not know one of the fields; *)
(* or a message of no kind of pool that the sender or the receiver knows.  *)
Send(k, missing) ==
  /\ phase = "fetched" /\ k \in DOMAIN records /\ sent = None
  /\ LET message == ToMessage(records[k])
     IN sent' = [outcome |-> "message", of |-> k, type |-> records[k].type,
                 fields |-> [f \in DOMAIN message |->
                               IF f \in missing THEN Absent ELSE message[f]]]
  /\ UNCHANGED <<exchange, asked, phase, replies, lists, records, back>>

SendUnknown ==
  /\ phase = "fetched" /\ sent = None
  /\ sent' = [outcome |-> "unknown"]
  /\ UNCHANGED <<exchange, asked, phase, replies, lists, records, back>>

(* GeneralAddress::from_string asserts 32 bytes of what is not 20 bytes    *)
(* long, so that no address at all panics; no decimals at all are zero.    *)
Zero == [pool |-> "none", of |-> <<"zero">>]   \* or an empty name or map
FromText(text, f) ==
  CASE f \in DecimalFields -> IF text.form = "decimal" THEN text.value ELSE Zero
    [] f = "fee" -> IF text.form = "i32" THEN AsU32(text.value) ELSE Zero
    [] OTHER -> IF text.form = "absent" THEN Zero ELSE text.value

Missing(message, f) == message[f].form = "absent"

(* The gas fee comes first: an empty text is no number. *)
Receive ==
  /\ sent.outcome = "message" /\ back = None
  /\ LET m == sent.fields
     IN back' = CASE Missing(m, "gasfee") -> [outcome |-> "error"]
                  [] ~Missing(m, "gasfee") /\ \E f \in AddressFields : Missing(m, f)
                       -> [outcome |-> "panic"]
                  [] OTHER -> [outcome |-> "read", type |-> sent.type,
                               fields |-> [f \in DOMAIN m |-> FromText(m[f], f)]]
  /\ UNCHANGED <<exchange, asked, phase, replies, lists, records, sent>>

(* EmptyOneof *)
ReceiveUnknown ==
  /\ sent.outcome = "unknown" /\ back = None
  /\ back' = [outcome |-> "error"]
  /\ UNCHANGED <<exchange, asked, phase, replies, lists, records, sent>>

(* As JSON, the program writes an address as an object with the kind as    *)
(* its key, others write it as a text.  What reads it takes a text only,   *)
(* and tells the kind from the length.                                     *)
SendJson(k, form) ==
  /\ phase = "fetched" /\ k \in DOMAIN records /\ sent = None
  /\ sent' = [outcome |-> "json", of |-> k, type |-> records[k].type,
              form |-> form, fields |-> [f \in DOMAIN records[k] \ {"type"} |-> records[k][f]]]
  /\ UNCHANGED <<exchange, asked, phase, replies, lists, records, back>>

(* The kind of a pool is one of its fields, so that all of it is buffered  *)
(* before it is read: the buffer holds the keys of a map as texts, and has *)
(* no numbers of 128 bits, so that a pool with ticks cannot be read.       *)
Readable(json) ==
  /\ json.form = "text"
  /\ json.type = "UniV3" => json.fields["tick2liquidity_net"].pool \in Tickless

ReceiveJson ==
  /\ sent.outcome = "json" /\ back = None
  /\ back' = IF Readable(sent)
             THEN [outcome |-> "read", type |-> sent.type, fields |-> sent.fields]
             ELSE [outcome |-> "error"]
  /\ UNCHANGED <<exchange, asked, phase, replies, lists, records, sent>>

Fields == AddressFields \cup DecimalFields \cup PlainFields \cup {"gasfee", "fee"}

RecordsNext ==
  \/ \E c \in DOMAIN replies : AnswerPage(c) \/ FailPage(c)
  \/ Join \/ FinishUniV2 \/ FinishUniV3
  \/ \E k \in DOMAIN records :
       \/ \E form \in {"object", "text"} : SendJson(k, form)
       \/ Send(k, {})
       \/ \E f \in Fields \cap DOMAIN records[k] : Send(k, {f})
  \/ SendUnknown \/ Receive \/ ReceiveUnknown \/ ReceiveJson

-----------------------------------------------------------------------------
(* Which name at the pool a field of a record stands for. *)
Identity ==
  [address |-> <<"pool">>, token_a |-> <<"tokenList", 0>>, token_b |-> <<"tokenList", 1>>,
   fee_numerator |-> <<"fees", 0>>, fee_denominator |-> <<"fees", 1>>,
   tickspacing |-> <<"tickSpacing">>]
State ==
  [balance_a |-> <<"balances", 0>>, balance_b |-> <<"balances", 1>>,
   liquidity |-> <<"liquidity">>, slot0_sqrt_price_x96 |-> <<"sqrtPriceX96">>,
   slot0_tick |-> <<"tick">>, tick2liquidity_net |-> <<"ticks">>]

Holds(record, names, pool) ==
  \A f \in DOMAIN names \cap DOMAIN record : record[f] = [pool |-> pool, of |-> names[f]]

(***************************************************************************)
(* fetch_pools returns one record per address of 20 bytes, in their order, *)
(* and whatever the pages and the order of their answers, each field of it *)
(* holds the value of that name of that pool.  For v3 that goes for the    *)
(* state only up to the first address of another kind: from there on, the  *)
(* records have the state of a pool in front of them in the list.          *)
(***************************************************************************)
RecordsOwn ==
  phase = "fetched" =>
    /\ Len(records) = Len(DefaultAddresses)
    /\ \A i \in DOMAIN records :
         LET pool == DefaultAddresses[i].pool
         IN /\ records[i].type = exchange /\ Holds(records[i], Identity, pool)
            /\ exchange = "UniV3" => records[i].fee = FeeOf[pool]
            /\ (exchange = "UniV2" \/ \A j \in 1..i : IsDefault(asked[j])) =>
                 Holds(records[i], State, pool)

(***************************************************************************)
(* A pool that arrives at another process is the pool that was sent, with  *)
(* its kind and every field: a message that lacks a field is refused, or   *)
(* only that field is zero; all else of it is read as it was written, and  *)
(* a complete message is never refused.                                    *)
(***************************************************************************)
ReadBack ==
  back # None =>
    \/ /\ back.outcome = "read" /\ back.type = records[sent.of].type
       /\ \A f \in DOMAIN back.fields :
            back.fields[f] = IF sent.outcome = "message" /\ Missing(sent.fields, f)
                             THEN Zero ELSE records[sent.of][f]
    \/ /\ back.outcome # "read"
       /\ sent.outcome = "message" => \E f \in DOMAIN sent.fields : Missing(sent.fields, f)
=============================================================================
