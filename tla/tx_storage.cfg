SPECIFICATION LiveSpec
CONSTANTS
  a1 = a1
  a2 = a2
  Addr = {a1}
  Slots = {s1}
  Words = {0, 1, 2}
  NoCode = NoCode
  c1 = c1
  Contracts = {c1}
  PresentSets = {{}, {a1}}
  AccountCodes = {c1}
  StoredWords = {0, 1}
  Balances = {}
  Precompiles = {a1}
  Topics = {t1}
  NoSlot = NoSlot
  Uncaptured = Uncaptured
  PreStates <- MCPreStates
  MaxNonce = 0
  MaxJournal = 3
  MaxDepth = 2
  MaxLogs = 1
  MaxRefund = 12500
INVARIANTS TypeOK OriginalIsPreState RefundCoversCleared
PROPERTIES NestedSnapshots RollbackEnds
CHECK_DEADLOCK FALSE
