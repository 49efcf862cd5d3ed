SPECIFICATION Spec
CONSTANTS
  BYTE_BITS = 2
  LIMB_BYTES = 2
  LIMB_BITS = 4
  MAX_LENGTH = 6
  Inputs <- MCInputs
INVARIANTS EstimateNearDigit Powers
CHECK_DEADLOCK FALSE
