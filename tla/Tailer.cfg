\* A log beside a directory: it comes or goes, its stream turns stale or is lost in
\* a rotation, with both loops and in both modes.
CONSTANTS
  NPaths = 2
  Kind <- DirAndLog
  Patterns = {"b"}
  Matches <- MatchesB
  Wakers = {"poll", "gc"}
  Streams = {s1, s2}
  NoStream = none
  MaxChanges = 1
  MaxStale = 1
  MaxOpenFails = 0
  MaxLost = 1
SPECIFICATION FairSpec
INVARIANTS TypeOK NoSendOnClosed OneReader
PROPERTIES AddedWhileCounted ShutsDown
CHECK_DEADLOCK FALSE
