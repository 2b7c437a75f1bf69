\* A process that starts twice; a user thread flushes too.
\* The bounds on writes and starts end behaviours, so the deadlock check is off.
SPECIFICATION MCSpec
CONSTANTS
  MaxRotated = 5
  Asked <- SomeSettings
  Build = "node"
  Lens = {1, 2}
  Logger = logger
  Flushers = {u1}
  MayFail = TRUE
  MayShutdown = TRUE
  MaxWrites = 6
  MaxStarts = 2
  Scenarios = {"users", "alone", "full"}
INVARIANTS FilesInOrder RenamesReplaceNothing QuietWithinLimit
PROPERTIES ClosedOnlyWhenQuiet
CHECK_DEADLOCK FALSE
