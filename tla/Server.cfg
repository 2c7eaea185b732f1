\* The whole process in every mode, a signal at any moment, pushes that may fail
\* and requests while programs change their metrics.
SPECIFICATION FairSpec
CONSTANTS
  Metrics = {"count", "hist", "line", "prog", "text"}
  Kind <- MCKind
  Valid = {"count", "hist", "line", "text"}
  Labels = {l1}
  Unlabelled = none
  Bounds <- MCBounds
  Values = {0, 2}
  Inf = 1000
  NTargets = 1
  MaxExports <- MCMaxExports
  MaxFailures = 1
  Directories <- MCDirectories
  MaxLines <- MCMaxLines
INVARIANTS ExportLocks HistogramScraped AllProcessed
PROPERTIES Exits ExportEnds
CHECK_DEADLOCK FALSE
