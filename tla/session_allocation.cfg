SPECIFICATION Spec
CONSTANTS
  empty = empty
  other = other
  Worlds = {empty, other}
  Empty = empty
  Sizes = {0, 1, 2}
  Pieces = 2
  Capacity = 2
  MaxRequests = 2
PROPERTY NothingChanged
CHECK_DEADLOCK FALSE
