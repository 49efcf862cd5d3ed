SPECIFICATION Spec
CONSTANTS
  Offsets <- MCOffsets
  Copies <- MCCopies
  Ranges <- MCRanges
  Calls <- MCCalls
  Bytes = {1}
  GasLimits <- MCGasLimits
  MaxDepth = 2
  MaxLogs = 2
PROPERTY ProgramMemory
CHECK_DEADLOCK FALSE
