SPECIFICATION LSpec
CONSTANTS
  Programs <- MCPrograms
  Objects <- MCObjects
  Lines <- MCLines
  Regexp <- MCRegexp
  Layouts <- MCLayouts
  Submatch <- MCSubmatch
  ParseLayout <- MCParseLayout
  Before <- MCBefore
  Lower <- MCLower
  Length <- MCLength
  Numeral <- MCNumeral
  Inf = 1000
  MaxDepth = 30
  MaxPattern = 4
  ThisYear = 100
  MemoSize = 1
  MaxLines = 2
  Quirks = {"else", "deco", "memo", "digits", "assign", "twice", "numbers"}
INVARIANT WellTyped
PROPERTIES AsMeant LineEnds
CHECK_DEADLOCK FALSE
