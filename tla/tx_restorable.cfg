SPECIFICATION Spec
CONSTANTS
  a1 = a1
  a2 = a2
  Addr = {a1, a2}
  Slots = {}
  Words = {0}
  NoCode = NoCode
  c1 = c1
  Contracts = {c1}
  PresentSets = {{a1}}
  AccountCodes = {NoCode}
  StoredWords = {0}
  Balances = {0, 1}
  Precompiles = {}
  Topics = {t1}
  NoSlot = NoSlot
  Uncaptured = Uncaptured
  PreStates <- MCPreStates
  MaxNonce = 1
  MaxJournal = 2
  MaxDepth = 2
  MaxLogs = 1
  MaxRefund = 0
INVARIANTS NeverPanics
CHECK_DEADLOCK FALSE
