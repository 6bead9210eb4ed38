SPECIFICATION Spec
CONSTANTS
  u = u
  f = f
  g = g
  r = r
  p12 = p12
  p23 = p23
  p13 = p13
  Users = {u}
  Tokens = {1, 2, 3}
  Factories = {f, g}
  Routers = {r}
  PairTokens <- MCPairTokens
  PairOf <- MCPairOf
  NoPair = NoPair
  NotListed = NotListed
  NoAmount = NoAmount
  Fees = {2}
  PairFee = 1
  Paths <- MCPaths
  TokenPaths <- MCTokenPaths
  Amounts = {4, 8}
  Named = {p12, p13, 3}
  Holding <- MCHolding
  MaxReserve = 45
  MaxCalls = 3
  FeeBase = 16
  Coarse = 8
  Mid = 4
  Fine = 2
  MaxUint = 2000000
  Eth = Eth
  This = This
  MsgSender = MsgSender
  AddressThis = AddressThis
  ContractBalance = 80
  MaxUint160 = 40
INVARIANTS TradeSettles OutIsQuoted
CHECK_DEADLOCK FALSE
PROPERTIES UndoneOnlyIfNotQuoted
