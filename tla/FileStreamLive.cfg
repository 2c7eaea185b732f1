\* Reading from the start (one-shot mode), with a failing system call.
CONSTANTS
  MaxBytes = 2
  MaxInodes = 2
  MaxErrors = 1
  BufSize = 1
  FromStart = TRUE
SPECIFICATION FairSpec
PROPERTIES StopObeyed Follows
CHECK_DEADLOCK FALSE
