SPECIFICATION Spec
CONSTANTS
  Addr = {a1, a2, a3}
  Codes <- MCCodes
  MaxArena = 13
  MaxUndo = 2
INVARIANTS Packed JumpdestsOfCode
PROPERTIES UndoNeverFails ImplementsCodeStore
CHECK_DEADLOCK FALSE
