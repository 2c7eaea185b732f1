\* What is left in the file when a rotation is noticed.
CONSTANTS
  MaxBytes = 1
  MaxInodes = 2
  MaxErrors = 0
  BufSize = 1
  FromStart = FALSE
SPECIFICATION Spec
INVARIANTS NothingLeftAtRotation
CHECK_DEADLOCK FALSE
