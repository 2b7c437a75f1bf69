CONSTANTS
  BufLen = 2
  Kinds = {"proc", "dev"}
  Lines <- MCLines
  NumEntries = 2
  QueueCap = 1
  RingCap = 2
  MaxLines = 3
SPECIFICATION FairSpec
INVARIANTS EntriesAccounted LinesIntact LostOnlyBehindBadLine
PROPERTIES StopEnds
CHECK_DEADLOCK FALSE
