\* A log that comes and goes, cannot be opened once and loses a stream, behind a
\* link to nothing that comes and goes too.
CONSTANTS
  NPaths = 2
  Kind <- DanglingAndLog
  Patterns = {"b"}
  Matches <- MatchesB
  Wakers = {"poll"}
  Streams = {s1, s2}
  NoStream = none
  MaxChanges = 3
  MaxStale = 0
  MaxOpenFails = 1
  MaxLost = 1
SPECIFICATION FairSpec
INVARIANTS LogCountDrift
PROPERTIES EventuallyTailed
CHECK_DEADLOCK FALSE
