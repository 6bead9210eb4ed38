------------------------------ MODULE UniV2Quote ------------------------------
(***************************************************************************)
(* The constant-product arithmetic, twice: calc_uni2_out, with which the   *)
(* pool cache quotes a trade, and UniV2Facet.getAmountOut, with which the  *)
(* router executes it.  A fee is a number of FeeBase-ths.  The cache uses  *)
(* it as it is; the facet first divides it by the coarsest of three steps  *)
(* that it can, and rounds it down to the finest one otherwise.  Integers  *)
(* are 256 bits wide: the cache answers None, and the facet reverts, when  *)
(* a product does not fit.  Both are NoAmount here.                        *)
(***************************************************************************)
EXTENDS Integers

CONSTANTS
  FeeBase,  \* the denominator of fees (1 000 000)
  Coarse,   \* the three steps of getAmountOut (1000, 100 and 10)
  Mid,
  Fine,
  MaxUint,  \* 2^256 - 1
  NoAmount  \* None in the cache, a revert in the facet

ASSUME QuoteAssumption ==
  /\ FeeBase \in Nat \ {0} /\ MaxUint \in Nat /\ NoAmount \notin Nat
  /\ {Coarse, Mid, Fine} \subseteq Nat \ {0}
  /\ Coarse % Mid = 0 /\ Mid % Fine = 0 /\ FeeBase % Coarse = 0

Fits(n) == n <= MaxUint

(* amountIn less the fee, out of base: the numerator without reserveOut *)
WithoutFee(amountIn, fee, base) == amountIn * (base - fee)

\* Mutant: the fee is taken off in the denominator only.
AmountOutNoFee(balIn, balOut, amountIn, fee, base) ==
  (WithoutFee(amountIn, 0, base) * balOut)
    \div (balIn * base + WithoutFee(amountIn, fee, base))

(* (fee_d - fee_n) dx y / (x fee_d + (fee_d - fee_n) dx), rounded down *)
AmountOut(balIn, balOut, amountIn, fee, base) ==
  (WithoutFee(amountIn, fee, base) * balOut)
    \div (balIn * base + WithoutFee(amountIn, fee, base))

(* The checked products and the sum of either computation fit. *)
NoOverflow(balIn, balOut, amountIn, fee, base) ==
  /\ Fits(WithoutFee(amountIn, fee, base) * balOut)
  /\ Fits(balIn * base + WithoutFee(amountIn, fee, base))

CalcUni2Out(balIn, balOut, amountIn, fee) ==
  IF /\ amountIn # 0 /\ balIn # 0 /\ balOut # 0
     /\ fee <= FeeBase
     /\ NoOverflow(balIn, balOut, amountIn, fee, FeeBase)
  THEN AmountOut(balIn, balOut, amountIn, fee, FeeBase)
  ELSE NoAmount

\* Mutant: the fee is rounded up to a step.
FeeInStepsUp(fee, step) == (fee + step - 1) \div step
FeeInSteps(fee, step) == fee \div step

\* Mutant: the coarsest step is always taken, whatever divides the fee.
AlwaysCoarse(fee) == Coarse
(* fee % 1000 == 0, fee % 100 == 0, or else *)
StepOf(fee) ==
  IF fee % Coarse = 0 THEN Coarse ELSE IF fee % Mid = 0 THEN Mid ELSE Fine

(* getAmountOut of an allowed factory *)
GetAmountOut(balIn, balOut, amountIn, fee) ==
  LET base == FeeBase \div StepOf(fee)
      fee2 == FeeInSteps(fee, StepOf(fee))
  IN IF /\ balIn # 0 /\ balOut # 0
        /\ fee2 <= base
        /\ NoOverflow(balIn, balOut, amountIn, fee2, base)
     THEN AmountOut(balIn, balOut, amountIn, fee2, base)
     ELSE NoAmount
=============================================================================
