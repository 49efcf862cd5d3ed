SPECIFICATION LiveSpec
CONSTANTS
  user = user
  c1 = c1
  c2 = c2
  p1 = p1
  NoCode = NoCode
  Contract = Contract
  Addr = {user, c1, c2, p1}
  Precompiles = {p1}
  Data = {0, 1}
  Ops = {"CALL", "CALLCODE", "DELEGATECALL", "STATICCALL"}
  Senders = {user}
  Values = {0, 1}
  Requests = {6}
  Worlds <- MCWorlds
  GasLimit = 6
  OpCost = 1
  AccessCosts = {0}
  ValueCost = 2
  NewAccountCost = 1
  CreateCost = 2
  DepositCosts = {0, 1}
  Stipend = 2
  Fraction = 4
  MaxBalance = 2
  MaxNonce = 3
  DepthLimit = 3
INVARIANTS FailedMessageRestores EtherConserved StaticChangesNothing TracerBalanced
  DeploysOntoEmpty OnlyNewAccountsDie
PROPERTIES HostFailureStays MessageEnds
CHECK_DEADLOCK FALSE
