SPECIFICATION Spec
CONSTANTS
  Address = {c1, c2, c3, zero}
  ZeroAddress = zero
  Fee = {0, 3}
  Selector = {s1}
INVARIANTS TypeOK EnumerationExact NoStaleFee
PROPERTY ImplementsRegistry
