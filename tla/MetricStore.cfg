\* A metric whose labels come, go and expire, under reloads and gc.
CONSTANTS
  Progs = {"p"}
  NNames = 1
  Texts <- Keyed
  Labels = {"x", "y"}
  Unlabelled = "-"
  GcLoop = TRUE
  MaxLoads = 2
  MaxLVs = 4
  MaxDels = 0
SPECIFICATION FairSpec
INVARIANTS TypeOK NoDuplicateLabels CopyComplete
PROPERTIES GcRemoves
CHECK_DEADLOCK FALSE
