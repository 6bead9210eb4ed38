SPECIFICATION ClientSpec
CONSTANTS
  Lists <- MCLists
  ParamPage = 2
  StatePage = 1
  TickPage = 2
  FeeRange = 16
  FeeOf <- MCFeeOf
  Tickless = {1}
INVARIANTS CallUnderstood LogUnderstood RecordsOwn ReadBack
CHECK_DEADLOCK FALSE
