CONSTANTS
  Adders = {a, b}
  TargetKinds = {"tty", "file", "callback"}
  MaxObjects = 3
  MaxMsgs = 2
  Alone = a
  Fds = {1}
  MaxStreams = 2
  MaxChunks = 1
  MaxTickets = 2
  Scenarios = {"starting", "early", "adding", "redirecting"}
SPECIFICATION MCSpec
INVARIANTS RoutedTargetsAlive StartReported RedirectedAsOwn
PROPERTIES StartAnswered DataGetsOut ShutdownReleasesWait
CHECK_DEADLOCK FALSE
