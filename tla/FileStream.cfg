\* Rotation, removal, truncation, stop and cancellation, no failing call.
CONSTANTS
  MaxBytes = 3
  MaxInodes = 2
  MaxErrors = 0
  BufSize = 2
  FromStart = FALSE
SPECIFICATION Spec
INVARIANTS TypeOK InOrderOnce NothingSkipped StopDrains
PROPERTIES DecodedKept ImplementsLogStream
CHECK_DEADLOCK FALSE
