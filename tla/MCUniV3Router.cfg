SPECIFICATION Spec
CONSTANTS
  u = u
  f = f
  g = g
  p12 = p12
  p23 = p23
  Users = {u}
  Tokens = {1, 2, 3}
  Factories = {f, g}
  PoolTokens <- MCPoolTokens
  PoolOf <- MCPoolOf
  NoPool = NoPool
  Paths <- MCPaths
  Amounts = {2}
  Holding <- MCHolding
  MaxCalls = 3
  Eth = Eth
  This = This
  MsgSender = MsgSender
  AddressThis = AddressThis
  ContractBalance = 60
  MaxUint160 = 40
INVARIANTS TradeSettles LaterHopsFunded OnlyListedPaid
CHECK_DEADLOCK FALSE
