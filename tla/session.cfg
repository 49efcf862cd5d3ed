SPECIFICATION LiveSpec
CONSTANTS
  empty = empty
  other = other
  Worlds = {empty, other}
  Empty = empty
  Sizes = {0, 1, 2}
  Pieces = 2
  Capacity = 1
  MaxRequests = 4
INVARIANTS
  HostKnows
PROPERTIES
  Answered
  Ends
CHECK_DEADLOCK FALSE
