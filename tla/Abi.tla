--------------------------------- MODULE Abi ---------------------------------
(***************************************************************************)
(* How contracts and their clients write down calls, answers and logs, as  *)
(* far as the bindings rely on it.  A selector, or the first topic of a    *)
(* log, is written as what it is the hash of: a name with its types.  Data *)
(* is a sequence of words, each with the type it was written as; a list of *)
(* values is one word, and a struct is the words of its fields between two *)
(* marks.  Words carry no names: a name is found again by position alone.  *)
(***************************************************************************)
EXTENDS Sequences, Naturals, FiniteSets

address == "address"   addresses == "address[]"
bool == "bool"         bytes == "bytes"         bytes32 == "bytes32"
string == "string"
uint8 == "uint8"       uint16 == "uint16"       uint24 == "uint24"
uint32 == "uint32"     uint112 == "uint112"     uint128 == "uint128"
uint160 == "uint160"   uint256 == "uint256"
int16 == "int16"       int24 == "int24"         int56 == "int56"
int128 == "int128"     int256 == "int256"
uint32s == "uint32[]"  int56s == "int56[]"      uint160s == "uint160[]"
uint256s == "uint256[]"

(* The marks around a struct, and around the structs of a list. *)
tuple == "tuple"
list == "list"
end == "end"
Marks == {tuple, list, end}

Fn(names, types, outs, outTypes) ==
  [names |-> names, types |-> types, outs |-> outs, outTypes |-> outTypes]
Getter(type) == Fn(<<>>, <<>>, <<"">>, <<type>>)
Event(names, types, indexed) ==
  [names |-> names, types |-> types, indexed |-> indexed]

(* What a method or the struct of a call sends: a selector and arguments. *)
Sends(fn, types, args) == [selector |-> <<fn, types>>, args |-> args]
(* What the struct of a log expects: a first topic, and fields. *)
Logged(e, types, names, indexed) ==
  [topic |-> <<e, types>>, names |-> names, types |-> types, indexed |-> indexed]
OneOf(fields) == <<tuple>> \o fields \o <<end>>
ManyOf(fields) == <<list>> \o fields \o <<end>>

-----------------------------------------------------------------------------
Unsigned ==
  <<uint8, uint16, uint24, uint32, uint112, uint128, uint160, uint256>>
Signed == <<int16, int24, int56, int128, int256>>

(* Numbers fill a word whatever their width: a wider one can be read. *)
CanRead(type, word) ==
  \/ type = word.type
  \/ \E numbers \in {Unsigned, Signed} :
       \E i, j \in DOMAIN numbers :
          i >= j /\ type = numbers[i] /\ word.type = numbers[j]

Encode(types, values) ==
  [i \in 1..Len(types) |-> [type |-> types[i], value |-> values[i]]]

(* Words behind those that are read are left alone. *)
Decodes(types, words) ==
  /\ Len(types) <= Len(words)
  /\ \A i \in DOMAIN types : CanRead(types[i], words[i])

(* The values of the words as fields with these names, in order. *)
NamedFields(names, words) ==
  [i \in DOMAIN names |-> [name |-> names[i], value |-> words[i].value]]

(***************************************************************************)
(* A log has its first topic, a topic per indexed argument, and the other  *)
(* arguments as data; the struct of a log takes them apart by its own      *)
(* fields.                                                                 *)
(***************************************************************************)
Picked(names, indexed, topics) ==
  SelectSeq([i \in DOMAIN names |-> i],
            LAMBDA i : (names[i] \in indexed) <=> topics)

LogOf(topic, types, names, indexed) ==
  LET word(i) == [type |-> types[i], value |-> names[i]]
      words(at) == [k \in DOMAIN at |-> word(at[k])]
  IN [topic |-> topic,
      topics |-> words(Picked(names, indexed, TRUE)),
      data |-> words(Picked(names, indexed, FALSE))]

TypesAt(log, at) == [k \in DOMAIN at |-> log.types[at[k]]]
NamesAt(log, at) == [k \in DOMAIN at |-> log.names[at[k]]]

DecodesLog(struct, log) ==
  LET topics == Picked(struct.names, struct.indexed, TRUE)
      data == Picked(struct.names, struct.indexed, FALSE)
  IN /\ log.topic = struct.topic
     /\ Len(log.topics) = Len(topics) /\ Decodes(TypesAt(struct, topics), log.topics)
     /\ Decodes(TypesAt(struct, data), log.data)

LogFields(struct, log) ==
  LET topics == Picked(struct.names, struct.indexed, TRUE)
      data == Picked(struct.names, struct.indexed, FALSE)
  IN NamedFields(NamesAt(struct, topics), log.topics)
     \o NamedFields(NamesAt(struct, data), log.data)
=============================================================================
