SPECIFICATION Spec
CONSTANTS
  Users = {u1, u2}
  This = This
  Eth = Eth
  Weth = Weth
  Token = Token
  MsgSender = MsgSender
  AddressThis = AddressThis
  ContractBalance = 50
  MaxUint160 = 40
  Amounts = {0, 1, 2, 50}
  Permits = {1}
  Bips = {0, 5000, 9999, 10001}
  FeeBips = {0, 1001}
  Funded = {u1}
  Supply = 2
INVARIANTS WethBacked
PROPERTIES OnlyPayersPay
