\* Reads of two bytes, of a rune of two bytes and of datagrams of up to four.
CONSTANTS
  Kinds = {"pipe", "socket", "other"}
  Texts <- MCTexts
  BufSize = 2
  MaxBytes = 6
  MaxQueue = 4
  MaxErrors = 1
SPECIFICATION FairSpec
INVARIANTS TextKept Drained
PROPERTIES ImplementsLogStream CancelObeyed
CHECK_DEADLOCK FALSE
