SPECIFICATION Spec
CONSTANTS
  b1 = b1
  b2 = b2
  r1 = r1
  r2 = r2
  a1 = a1
  a2 = a2
  None = None
  Builds = {b1, b2}
  Outs = {o1, o2}
  Targets = {t1, t2}
  Revisions = {r1, r2}
  pinned <- MCPinned
  Parties <- MCParties
  Runners = {a1, a2}
  Levels <- MCLevels
  Cases = 1
  MaxEdits = 1
INVARIANTS  ReportsHold AcceptedIsChecked
PROPERTIES AcceptanceEnds
CHECK_DEADLOCK FALSE
