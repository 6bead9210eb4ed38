------------------------------ MODULE UniV3Path ------------------------------
(***************************************************************************)
(* The path of a v3 trade as bytes in memory, and what the loop of         *)
(* uniV3SwapExactInput does with it: token, factory and fee of a pool, the *)
(* next token, and so on.  The first pool is sliced off into a copy, then  *)
(* the path is shortened in place, by moving it down in words of 32 bytes  *)
(* that overlap the bytes still to be moved; the first word is partial.    *)
(* Memory is counted from the word that holds the length of the bytes.  A  *)
(* byte of the path is named by its position in the path as it was given,  *)
(* and so are a token, a factory or a fee by the bytes they are read from. *)
(***************************************************************************)
EXTENDS Integers, Sequences

CONSTANTS
  Lengths,  \* the lengths of the paths given
  Junk      \* a byte of memory that is not a byte of the path

ADDR_SIZE == 20
FEE_SIZE == 3
NEXT_OFFSET == 2 * ADDR_SIZE + FEE_SIZE
POP_OFFSET == NEXT_OFFSET + ADDR_SIZE
POOL_LENGTH == 63
ADDR_AND_FACTORY_FEE_LENGTH == 43

VARIABLES
  given,   \* the length of the path as it was given
  length,  \* its length now
  mem,     \* the memory it is in
  dest,    \* copyDestination of the slice
  pc,      \* first, hop, copy, returned or reverted
  hops,    \* the pools that were traded with
  output   \* outputToken

vars == <<given, length, mem, dest, pc, hops, output>>

At(m, a) == IF a \in DOMAIN m THEN m[a] ELSE Junk

Init ==
  /\ given \in Lengths /\ length = given
  /\ mem = [a \in 0..(given + 31) |-> IF a < 32 THEN Junk ELSE a - 32]
  /\ dest = 0 /\ pc = "first" /\ hops = <<>> /\ output = <<>>

-----------------------------------------------------------------------------
(* The n low bytes of mload(a). *)
LowBytes(m, a, n) == [i \in 1..n |-> At(m, a + 32 - n + i - 1)]

ToAddress(m, start) == LowBytes(m, 20 + start, 20)
ToUint24(m, start) == LowBytes(m, 3 + start, 3)

(* Two words are copied from byte 31 on; the length is written over. *)
SlicePool(m) ==
  [a \in 0..(31 + POOL_LENGTH) |-> IF a < 32 THEN Junk ELSE At(m, a)]

DecodeFirstPool(m) ==
  [tokenA  |-> ToAddress(m, 0),
   factory |-> ToAddress(m, ADDR_SIZE),
   fee     |-> ToUint24(m, 2 * ADDR_SIZE),
   tokenB  |-> ToAddress(m, NEXT_OFFSET)]

HasMultiplePools == length >= POP_OFFSET + NEXT_OFFSET

(* decodeFirstToken, before the loop *)
FirstToken ==
  /\ pc = "first" /\ length >= ADDR_SIZE
  /\ pc' = "hop"
  /\ UNCHANGED <<given, length, mem, dest, hops, output>>

(* skipBulk leaves this many bytes. *)
NewLength == length - NEXT_OFFSET

\* Mutant: lengths that are multiples of the word are not treated apart.
LengthMod == NewLength % 32
(* The end of the first word to be written; it may be a partial one. *)
CopyOffset == IF NewLength % 32 = 0 THEN 32 ELSE NewLength % 32

EndNewBytes == CopyOffset + NewLength

(* One pool is traded with; the path is shortened, or the loop ends. *)
Hop ==
  /\ pc = "hop" /\ length >= POOL_LENGTH
  /\ hops' = Append(hops, DecodeFirstPool(SlicePool(mem)))
  /\ IF HasMultiplePools
     THEN /\ pc' = "copy" /\ dest' = CopyOffset
          /\ UNCHANGED output
     ELSE /\ pc' = "returned" /\ output' = ToAddress(mem, NEXT_OFFSET)
          /\ UNCHANGED dest
  /\ UNCHANGED <<given, length, mem>>

(* mstore(copyDestination, mload(copyFrom)) *)
CopyWord ==
  /\ pc = "copy" /\ dest < EndNewBytes
  /\ mem' = [a \in DOMAIN mem |->
               IF a \in dest..(dest + 31)
               THEN At(mem, a + ADDR_AND_FACTORY_FEE_LENGTH) ELSE mem[a]]
  /\ dest' = dest + 32
  /\ UNCHANGED <<given, length, pc, hops, output>>

(* mstore(_bytes, _length) *)
Shorten ==
  /\ pc = "copy" /\ dest >= EndNewBytes
  /\ length' = NewLength
  /\ mem' = [a \in DOMAIN mem |-> IF a < 32 THEN Junk ELSE mem[a]]
  /\ pc' = "hop"
  /\ UNCHANGED <<given, dest, hops, output>>

(* The bounds of toAddress or slicePool are not met. *)
Revert ==
  /\ \/ pc = "first" /\ length < ADDR_SIZE
     \/ pc = "hop" /\ length < POOL_LENGTH
  /\ pc' = "reverted"
  /\ UNCHANGED <<given, length, mem, dest, hops, output>>

Next == FirstToken \/ Hop \/ CopyWord \/ Shorten \/ Revert

Spec == Init /\ [][Next]_vars

-----------------------------------------------------------------------------
(* The n bytes of the given path from position p. *)
Field(p, n) == [i \in 1..n |-> p + i - 1]

(***************************************************************************)
(* The k-th pool that is traded with is the k-th pool of the path as it    *)
(* was given: no move in place loses or mixes up bytes that a later hop    *)
(* needs, whatever the length of the path.  A trade that returns went      *)
(* through every pool, and outputToken is the token after the last; bytes  *)
(* after it that are too few for another pool are ignored.                 *)
(***************************************************************************)
HopsFollowPath ==
  /\ \A k \in DOMAIN hops :
       LET p == (k - 1) * NEXT_OFFSET
       IN hops[k] = [tokenA  |-> Field(p, ADDR_SIZE),
                     factory |-> Field(p + ADDR_SIZE, ADDR_SIZE),
                     fee     |-> Field(p + 2 * ADDR_SIZE, FEE_SIZE),
                     tokenB  |-> Field(p + NEXT_OFFSET, ADDR_SIZE)]
  /\ pc = "returned" =>
       /\ Len(hops) = (given - ADDR_SIZE) \div NEXT_OFFSET
       /\ output = Field(Len(hops) * NEXT_OFFSET, ADDR_SIZE)
=============================================================================
