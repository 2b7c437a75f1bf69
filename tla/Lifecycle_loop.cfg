\* The library starts; nobody uses it.
CONSTANTS
  Adders = {a}
  TargetKinds = {"tty"}
  MaxObjects = 1
  MaxMsgs = 0
  Alone = a
  Fds = {1}
  MaxStreams = 0
  MaxChunks = 1
  MaxTickets = 0
  Scenarios = {"early"}
SPECIFICATION MCSpec
INVARIANTS LibLoopStaysUp
CHECK_DEADLOCK FALSE
