SPECIFICATION Spec
INVARIANTS InputIsRead Agrees AnchorsHold
CHECK_DEADLOCK FALSE
