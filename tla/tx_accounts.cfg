SPECIFICATION Spec
CONSTANTS
  a1 = a1
  a2 = a2
  Addr = {a1, a2}
  Slots = {}
  Words = {0}
  NoCode = NoCode
  c1 = c1
  Contracts = {c1}
  PresentSets = {{a1}}
  AccountCodes = {NoCode, c1}
  StoredWords = {0}
  Balances = {0, 1}
  Precompiles = {}
  Topics = {}
  NoSlot = NoSlot
  Uncaptured = Uncaptured
  PreStates <- MCPreStates
  MaxNonce = 1
  MaxJournal = 4
  MaxDepth = 2
  MaxLogs = 0
  MaxRefund = 0
INVARIANTS JournalRestores AbsentAccountsAreEmpty
  NoAccountLeftEmptied OnlyAbsentClearPanics
PROPERTIES NestedSnapshots
CHECK_DEADLOCK FALSE
