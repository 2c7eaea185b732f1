\* Two programs, edits, reloads and an unload while lines are handed out, as in
\* the daemon: a program that does not load is left as it was.
CONSTANTS
  NProgs = 2
  Versions = {"a", "b", "bad"}
  Broken = {"bad"}
  Clashing = {}
  Absent = none
  ErrorsAbort = FALSE
  CompileOnly = FALSE
  MaxLines = 2
  MaxEdits = 1
  MaxHups = 1
  MaxUnloads = 1
SPECIFICATION FairSpec
INVARIANTS VMsAccounted EveryLine StatusShown
PROPERTIES ReloadTakes
CHECK_DEADLOCK FALSE
