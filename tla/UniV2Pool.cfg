SPECIFICATION Spec
CONSTANTS
  FeeBase = 16
  Coarse = 8
  Mid = 4
  Fine = 2
  MaxUint = 600
  NoAmount = NoAmount
  Fees = {2, 3, 8}
  PairFee = 1
  Cap = 12
  MaxAmount = 4
  Reserves = {0, 4, 9}
INVARIANTS QuoteIsPaid
PROPERTIES SimulationKeepsProduct
