SPECIFICATION Spec
CONSTANTS
  alice = alice
  bob = bob
  carol = carol
  Addr = {alice, bob, carol}
  NoCode = NoCode
  Contract = Contract
  NoSigner = NoSigner
  NoChain = NoChain
  Worlds <- AllWorlds
  Requests <- MCRequests
  Blocks <- MCBlocks
  Configs <- MCConfigs
  MaxBalance = 20
  MaxNonce = 3
  TxGas = 2
  TokenGas = 1
  FloorTokenGas = 3
  CreateGas = 1
  WordGas = 1
  AccessGas = 1
  AuthorizationGas = 2
  ExistingAuthorityRefund = 1
  RefundQuotient = 5
  GasPerBlob = 1
  MaxBlobs = 2
  MessageRefunds = {0, 3}
  Payments = {1}
INVARIANTS
  OnlyClearingsStop
  OnlyCommitsChange
  EtherAccounted
  NoReplay
  ContractsKeepCode
CHECK_DEADLOCK FALSE
