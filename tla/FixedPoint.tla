----------------------------- MODULE FixedPoint -----------------------------
(***************************************************************************)
(* basic_math: the integer functions of the pools' mathematics on unsigned *)
(* numbers of Bits bits, and on fixed-point numbers over One.  Each is     *)
(* called with arguments taken from the initial states; a loop takes a     *)
(* step per round.  A checked operation ends its call with None, an        *)
(* operator that overflows or divides by zero panics.                      *)
(***************************************************************************)
EXTENDS Integers, Sequences, FiniteSets

CONSTANTS
  Bits,       \* 256
  One,        \* ONE18
  InvRounds,  \* 6: what Bits needs, from a first guess right in five bits
  MaxRounds,  \* 255
  Numbers,       \* arguments of the functions of two and three numbers
  ArrayNumbers,  \* the elements of the arrays that are sorted
  MaxLength      \* their length

(* 2^n *)
TwoTo[n \in Nat] == IF n = 0 THEN 1 ELSE 2 * TwoTo[n - 1]

MaxU256 == TwoTo[Bits] - 1
InU256(v) == v <= MaxU256

(* The rounds of get_inv_256 give Bits bits, the last of them included;    *)
(* those of sqrt_int halve the largest first guess to nothing.             *)
ASSUME MathAssumption ==
  /\ Bits \in Nat \ {0} /\ One \in 2..(MaxU256 - 1)
  /\ InvRounds \in Nat \ {0}
  /\ 5 * TwoTo[InvRounds] >= Bits /\ 5 * TwoTo[InvRounds - 1] < Bits
  /\ MaxRounds \in Nat
  /\ \E m \in 0..(MaxRounds - 2) : One + (MaxU256 + 1) \div One <= TwoTo[m + 1]
  /\ MaxLength \in Nat /\ ArrayNumbers \subseteq Nat /\ Numbers \subseteq 0..MaxU256

VARIABLES
  fn,      \* the function called
  arg,     \* its arguments
  pc,      \* call, loop, done or panic
  loc,     \* the locals of its loop
  result   \* <<v>> for v and for Some(v), <<>> for None

mathVars == <<fn, arg, pc, loc, result>>

Arrays == UNION {[1..n -> ArrayNumbers] : n \in 0..MaxLength}

Number == {<<x>> : x \in 0..MaxU256}
Pair == Numbers \X Numbers

Calls ==
  {"sqrt_int", "get_inv_256", "get_twos_and_twos_reverse", "complement"} \X Number
  \cup {"mul_up", "mul_down", "div_up", "div_down", "unsafe_div_rounding_up", "mul_256"} \X Pair
  \cup {"muldiv", "muldiv_rounding_up"} \X (Numbers \X Numbers \X Numbers)
  \cup {"sort_array"} \X Arrays

MathInit ==
  /\ \E c \in Calls : fn = c[1] /\ arg = c[2]
  /\ fn = "get_inv_256" => arg[1] % 2 = 1
  /\ pc = "call" /\ loc = <<>> /\ result = <<>>

Called(f) == pc = "call" /\ fn = f
Looping(f) == pc = "loop" /\ fn = f
Returns(r) == pc' = "done" /\ result' = r /\ UNCHANGED <<fn, arg, loc>>
Panics == pc' = "panic" /\ UNCHANGED <<fn, arg, loc, result>>
Loops(l) == pc' = "loop" /\ loc' = l /\ UNCHANGED <<fn, arg, result>>

-----------------------------------------------------------------------------
\* Mutant: the quotient is rounded up even if there is no remainder.
MulUpAlways(a, b) == IF ~InU256(a * b) \/ a * b = 0 THEN <<>> ELSE <<(a * b) \div One + 1>>
(* There is nothing to take from a product of zero: checked_sub. *)
MulUp(a, b) == IF ~InU256(a * b) \/ a * b = 0 THEN <<>> ELSE <<(a * b - 1) \div One + 1>>
MulDown(a, b) == IF InU256(a * b) THEN <<(a * b) \div One>> ELSE <<>>

DivUp(a, b) ==
  CASE b = 0 -> <<>>
    [] b # 0 /\ a = 0 -> <<0>>
    [] OTHER -> IF InU256(a * One) THEN <<(a * One - 1) \div b + 1>> ELSE <<>>
DivDown(a, b) ==
  CASE b = 0 -> <<>>
    [] b # 0 /\ a = 0 -> <<0>>
    [] OTHER -> IF InU256(a * One) THEN <<(a * One) \div b>> ELSE <<>>

Scaled ==
  \/ Called("mul_up") /\ Returns(MulUp(arg[1], arg[2]))
  \/ Called("mul_down") /\ Returns(MulDown(arg[1], arg[2]))
  \/ Called("div_up") /\ Returns(DivUp(arg[1], arg[2]))
  \/ Called("div_down") /\ Returns(DivDown(arg[1], arg[2]))

(* convert_U512_to_U256_tuple, its lower half *)
LowerHalf(v) == v % (MaxU256 + 1)

MulDiv(a, b, denom) ==
  /\ Called("muldiv")
  /\ IF denom = 0 THEN Panics ELSE Returns(<<LowerHalf((a * b) \div denom)>>)

UnsafeDivRoundingUp(x, y) ==
  /\ Called("unsafe_div_rounding_up")
  /\ IF y = 0 THEN Panics
     ELSE Returns(<<x \div y + (IF x % y > 0 THEN 1 ELSE 0)>>)

(* The upper and the lower half of the product. *)
Mul256(a, b) ==
  /\ Called("mul_256")
  /\ Returns(<<(a * b) \div (MaxU256 + 1), LowerHalf(a * b)>>)

(* The quotient is cut before one is added for the remainder. *)
MulDivRoundingUp(a, b, denom) ==
  /\ Called("muldiv_rounding_up")
  /\ IF denom = 0 THEN Panics
     ELSE LET quot == LowerHalf((a * b) \div denom)
              up == IF (a * b) % denom > 0 THEN 1 ELSE 0
          IN IF InU256(quot + up) THEN Returns(<<quot + up>>) ELSE Panics

Complement(x) ==
  /\ Called("complement")
  /\ Returns(<<IF x < One THEN One - x ELSE 0>>)

(* The bitwise and of two numbers, from the last bit. *)
And[ab \in Nat \X Nat] ==
  IF ab[1] = 0 THEN 0
  ELSE (ab[1] % 2) * (ab[2] % 2) + 2 * And[<<ab[1] \div 2, ab[2] \div 2>>]

(* The power of two in num, and its complement to 2^Bits modulo 2^Bits. *)
GetTwosAndTwosReverse(num) ==
  /\ Called("get_twos_and_twos_reverse")
  /\ IF num = 0 THEN Panics
     ELSE LET twos == And[<<MaxU256 - num + 1, num>>]
          IN Returns(<<twos, LowerHalf((MaxU256 - twos + 1) \div twos + 1)>>)

-----------------------------------------------------------------------------
(* sqrt_int, the root of x * One: Newton's iteration until it stands still. *)
\* Mutant: the first guess is what it is compared with.
SqrtGuessX(x) == x
SqrtGuess(x) == (x + One) \div 2

SqrtCall(x) ==
  /\ Called("sqrt_int")
  /\ \/ x = 0 /\ Returns(<<0>>)
     \/ x > 0 /\ ~InU256(x + One) /\ Returns(<<>>)
     \/ x > 0 /\ InU256(x + One) /\ Loops([y |-> x, z |-> SqrtGuess(x), round |-> 0])

SqrtRound(x) ==
  /\ Looping("sqrt_int")
  /\ \/ loc.round = MaxRounds /\ Returns(<<>>)
     \/ loc.round < MaxRounds /\ loc.z = loc.y /\ Returns(<<loc.y>>)
     \/ /\ loc.round < MaxRounds /\ loc.z # loc.y
        /\ IF InU256(x * One)
           THEN Loops([y |-> loc.z, z |-> ((x * One) \div loc.z + loc.z) \div 2,
                       round |-> loc.round + 1])
           ELSE Returns(<<>>)

-----------------------------------------------------------------------------
(* v XOR 2: the last bit but one is turned over. *)
XorTwo(v) == IF (v \div 2) % 2 = 1 THEN v - 2 ELSE v + 2

(* get_inv_256, the inverse of an odd number modulo 2^Bits: every round    *)
(* doubles the number of bits that are right.                              *)
InvCall(odd) ==
  /\ Called("get_inv_256")
  /\ IF InU256(3 * odd) THEN Loops([inv |-> XorTwo(3 * odd), round |-> 0]) ELSE Panics

\* Mutant: two is taken for three, as the complement has one more already.
NewtonTwo(mul) == MaxU256 - mul + 2
(* 2 - mul modulo 2^Bits; the sum overflows when mul is below three. *)
Newton(mul) == MaxU256 - mul + 3

InvRound(odd) ==
  /\ Looping("get_inv_256")
  /\ LET factor == Newton(LowerHalf(odd * loc.inv))
     IN \/ loc.round = InvRounds /\ Returns(<<loc.inv>>)
        \/ loc.round < InvRounds /\ ~InU256(factor) /\ Panics
        \/ /\ loc.round < InvRounds /\ InU256(factor)
           /\ Loops([inv |-> LowerHalf(loc.inv * factor), round |-> loc.round + 1])

-----------------------------------------------------------------------------
(* sort_array: x, the i-th element, is moved forward to its place. *)
SortCall(array) ==
  /\ Called("sort_array")
  /\ IF Len(array) < 2 THEN Returns(<<array>>)
     ELSE Loops([sorted |-> array, i |-> 2, cur |-> 2, x |-> array[2]])

\* Mutant: no element is ever moved to the front.
GoesForwardToTwo == loc.cur > 2 /\ loc.sorted[loc.cur - 1] <= loc.x
(* No `break` yet: the number in front is not larger. *)
GoesForward == loc.cur > 1 /\ loc.sorted[loc.cur - 1] <= loc.x

SortShift ==
  /\ Looping("sort_array") /\ GoesForward
  /\ Loops([sorted |-> [loc.sorted EXCEPT ![loc.cur] = loc.sorted[loc.cur - 1]],
            i |-> loc.i, cur |-> loc.cur - 1, x |-> loc.x])

SortPlace ==
  /\ Looping("sort_array") /\ ~GoesForward
  /\ LET placed == [loc.sorted EXCEPT ![loc.cur] = loc.x]
     IN IF loc.i = Len(placed) THEN Returns(<<placed>>)
        ELSE Loops([sorted |-> placed, i |-> loc.i + 1, cur |-> loc.i + 1,
                    x |-> placed[loc.i + 1]])

-----------------------------------------------------------------------------
MathNext ==
  \/ Scaled
  \/ UnsafeDivRoundingUp(arg[1], arg[2]) \/ Mul256(arg[1], arg[2])
  \/ MulDiv(arg[1], arg[2], arg[3])
  \/ MulDivRoundingUp(arg[1], arg[2], arg[3])
  \/ Complement(arg[1])
  \/ GetTwosAndTwosReverse(arg[1])
  \/ SqrtCall(arg[1]) \/ SqrtRound(arg[1])
  \/ InvCall(arg[1]) \/ InvRound(arg[1])
  \/ SortCall(arg) \/ SortShift \/ SortPlace

MathSpec == MathInit /\ [][MathNext]_mathVars

-----------------------------------------------------------------------------
IsRoot(r, n) == r * r <= n /\ n < (r + 1) * (r + 1)

(***************************************************************************)
(* sqrt_int returns the root of x * One rounded down; it returns None only *)
(* if x * One or the first sum is too large, or if x * One is one below a  *)
(* square, where the iteration goes to and fro for ever.                   *)
(***************************************************************************)
SqrtExact ==
  (fn = "sqrt_int" /\ pc = "done") =>
    IF result # <<>> THEN IsRoot(result[1], arg[1] * One)
    ELSE \/ ~InU256(arg[1] * One)
         \/ \E r \in 0..MaxU256 : r * r = arg[1] * One + 1

(***************************************************************************)
(* What get_inv_256 returns is the inverse: after its rounds every bit is  *)
(* right, and not just the bits of the last but one round.                 *)
(***************************************************************************)
InverseExact ==
  (fn = "get_inv_256" /\ pc = "done") => LowerHalf(arg[1] * result[1]) = 1

Downwards == {"mul_down", "div_down", "muldiv"}
Upwards == {"mul_up", "div_up", "muldiv_rounding_up", "unsafe_div_rounding_up"}
Numerator ==
  CASE fn \in {"div_up", "div_down"} -> arg[1] * One
    [] fn = "unsafe_div_rounding_up" -> arg[1]
    [] OTHER -> arg[1] * arg[2]
Denominator ==
  CASE fn \in {"div_up", "div_down", "unsafe_div_rounding_up"} -> arg[2]
    [] fn \in {"mul_up", "mul_down"} -> One
    [] OTHER -> arg[3]

(***************************************************************************)
(* The functions come in pairs that round the same fraction down and up:   *)
(* what they return is the fraction, or the integer next to it on their    *)
(* side, as long as it has Bits bits.                                      *)
(***************************************************************************)
RoundsBothWays ==
  (pc = "done" /\ result # <<>> /\ fn \in Downwards \cup Upwards
     /\ InU256(Numerator \div Denominator)) =>
    LET over == IF fn \in Downwards THEN Numerator - result[1] * Denominator
                ELSE result[1] * Denominator - Numerator
    IN over \in 0..(Denominator - 1)

(***************************************************************************)
(* sort_array returns the numbers it was given from high to low.           *)
(***************************************************************************)
Count(s, v) == Cardinality({i \in DOMAIN s : s[i] = v})
SortedHighToLow ==
  (fn = "sort_array" /\ pc = "done") =>
    /\ \A i, j \in DOMAIN arg : i < j => result[1][i] >= result[1][j]
    /\ \A i \in DOMAIN arg : Count(result[1], arg[i]) = Count(arg, arg[i])
=============================================================================
