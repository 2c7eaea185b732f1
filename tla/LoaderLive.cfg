\* Two programs; signals before, during and after a reload and at the end of
\* input; a program that does not load ends the load.
CONSTANTS
  NProgs = 2
  Versions = {"a", "b", "bad"}
  Broken = {}
  Clashing = {"bad"}
  Absent = none
  ErrorsAbort = TRUE
  CompileOnly = FALSE
  MaxLines = 1
  MaxEdits = 1
  MaxHups = 2
  MaxUnloads = 1
SPECIFICATION FairSpec
PROPERTIES ShutsDown ReloadTakes
CHECK_DEADLOCK FALSE
