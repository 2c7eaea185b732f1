\* Two programs that declare two metrics each, of varying kind.
CONSTANTS
  Progs = {"p", "q"}
  NNames = 2
  Texts <- Pairs
  Labels = {"x"}
  Unlabelled = "-"
  GcLoop = FALSE
  MaxLoads = 3
  MaxLVs = 4
  MaxDels = 1
SPECIFICATION Spec
INVARIANTS KindsAgree OncePerSource LiveExported
CHECK_DEADLOCK FALSE
