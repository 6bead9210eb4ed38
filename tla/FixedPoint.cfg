SPECIFICATION MathSpec
CONSTANTS
  Bits = 12
  One = 10
  InvRounds = 2
  MaxRounds = 255
  Numbers = {0, 1, 2, 9, 10, 11, 35, 63, 64, 409, 410, 1500, 4095}
  ArrayNumbers = {0, 1, 7, 20, 35}
  MaxLength = 4
INVARIANTS SqrtExact InverseExact RoundsBothWays SortedHighToLow
CHECK_DEADLOCK FALSE
