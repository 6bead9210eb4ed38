------------------------------ MODULE TickScan ------------------------------
(***************************************************************************)
(* UniV3Facet.uniV3GetTicks: the initialised ticks of a v3 pool within a   *)
(* number of spacings of its current tick.  A pool keeps one bit for every *)
(* multiple of its spacing, in words of 256 bits; the scan reads the words *)
(* that the range touches, takes the bits of each from the lowest up, and  *)
(* writes the ticks into an array that was sized beforehand.  Integers are *)
(* 24 bits wide and division truncates towards zero, while the shift that  *)
(* finds the word of a tick rounds down.                                   *)
(***************************************************************************)
EXTENDS Integers, Sequences, SequencesExt

CONSTANTS
  PoolStates,  \* the pools: their spacing, current tick and initialised ticks
  Ranges,      \* tickRange: the ranges asked for, by spacing
  MinTick,     \* _MIN_TICK
  MaxTick      \* _MAX_TICK

Int24 == (-(2^23))..(2^23 - 1)

VARIABLES
  pool,       \* the pool; it does not change during the call
  range,      \* tickRange
  pc,         \* idle, word, bits, returned or reverted
  pos,        \* the word of the bitmap
  bm,         \* the bits of that word that were not taken yet
  initTicks   \* the first `counter` elements of the array

vars == <<pool, range, pc, pos, bm, initTicks>>

Init ==
  /\ pool \in PoolStates
  /\ range \in Ranges[pool.spacing]
  /\ pc = "idle" /\ pos = 0 /\ bm = {} /\ initTicks = <<>>

-----------------------------------------------------------------------------
(* Division of signed integers. *)
Quotient(a, b) == IF a >= 0 THEN a \div b ELSE -((-a) \div b)

(* tickRange * tickSpacing and the two ends of the range before clipping: *)
(* checked arithmetic.                                                    *)
Reach == range * pool.spacing
RangeFits == {Reach, pool.tick - Reach, pool.tick + Reach} \subseteq Int24

FromTick == IF pool.tick - Reach < MinTick THEN MinTick ELSE pool.tick - Reach
ToTick == IF pool.tick + Reach > MaxTick THEN MaxTick ELSE pool.tick + Reach

(* The length of the array, less than one if it can not be allocated. *)
Size == Quotient(ToTick - FromTick + 1, pool.spacing) + 1

\* Mutant: the word is found by a division instead of a shift.
WordOfQuotient(tick) == Quotient(Quotient(tick, pool.spacing), 256)
(* int16((tick / tickSpacing) >> 8) *)
WordOf(tick) == Quotient(tick, pool.spacing) \div 256

Call ==
  /\ pc = "idle" /\ RangeFits /\ Size > 0
  /\ pc' = "word" /\ pos' = WordOf(FromTick)
  /\ UNCHANGED <<pool, range, bm, initTicks>>

CallReverts ==
  /\ pc = "idle" /\ ~(RangeFits /\ Size > 0)
  /\ pc' = "reverted"
  /\ UNCHANGED <<pool, range, pos, bm, initTicks>>

(* pool.tickBitmap(pos) *)
TickBitmap(w) ==
  {bit \in 0..255 : (w * 256 + bit) * pool.spacing \in pool.initialized}

ReadWord ==
  /\ pc = "word" /\ pos <= WordOf(ToTick)
  /\ pc' = "bits" /\ bm' = TickBitmap(pos)
  /\ UNCHANGED <<pool, range, pos, initTicks>>

(* The shifts that are tried, from half of the word down. *)
Halves == <<128, 64, 32, 16, 8, 4, 2, 1>>

(* Bisection: x & (~x + 1) is the power of two of the lowest bit; it is   *)
(* shifted down by every half that fits, and the result is what it was    *)
(* shifted by in all.                                                     *)
LeastSignificantBit(bits) ==
  LET lowest == Min(bits)
      left[i \in 0..Len(Halves)] ==
        IF i = 0 THEN lowest
        ELSE IF left[i - 1] >= Halves[i] THEN left[i - 1] - Halves[i] ELSE left[i - 1]
  IN lowest - left[Len(Halves)]

(* The tick of the lowest bit left in the word. *)
ExtractedTick == (pos * 256 + LeastSignificantBit(bm)) * pool.spacing
InRange == ExtractedTick >= FromTick /\ ExtractedTick <= ToTick

(* initTicks[counter++] reverts when it is out of bounds. *)
Overrun == InRange /\ Len(initTicks) >= Size

TakeBit ==
  /\ pc = "bits" /\ bm # {}
  /\ bm' = bm \ {LeastSignificantBit(bm)}
  /\ initTicks' = IF InRange THEN Append(initTicks, ExtractedTick) ELSE initTicks
  /\ pc' = IF Overrun THEN "reverted" ELSE pc
  /\ UNCHANGED <<pool, range, pos>>

NextWord ==
  /\ pc = "bits" /\ bm = {}
  /\ pc' = "word" /\ pos' = pos + 1
  /\ UNCHANGED <<pool, range, bm, initTicks>>

Return ==
  /\ pc = "word" /\ pos > WordOf(ToTick)
  /\ pc' = "returned"
  /\ UNCHANGED <<pool, range, pos, bm, initTicks>>

Next == Call \/ CallReverts \/ ReadWord \/ TakeBit \/ NextWord \/ Return

Spec == Init /\ [][Next]_vars

-----------------------------------------------------------------------------
Near == {t \in pool.initialized :
           t >= pool.tick - Reach /\ t <= pool.tick + Reach}

(***************************************************************************)
(* The answer lists exactly the initialised ticks within tickRange         *)
(* spacings of the current tick, in ascending order and each once: on both *)
(* sides of zero, across words, and at the ends of the tick range, where   *)
(* the two roundings differ; and every range that can be computed at all   *)
(* is answered, so that the array which is sized before the scan suffices. *)
(***************************************************************************)
ScanExact ==
  /\ pc = "returned" =>
       /\ {initTicks[i] : i \in DOMAIN initTicks} = Near
       /\ \A i \in 1..(Len(initTicks) - 1) : initTicks[i] < initTicks[i + 1]
  /\ pc = "reverted" => range < 0 \/ ~RangeFits

=============================================================================
