\* One message that fits an entry but no bank, two targets.
\* The bound on messages ends behaviours, so the deadlock check is off.
SPECIFICATION MCSpec
CONSTANTS
  NumEntries = 2
  QueueCap = 4
  NumTargets = 2
  Callers = {c1}
  Readers = {}
  Sizes = {"large"}
  MayShutdown = FALSE
  MaxMsgs = 1
  Alone = c1
  Scenarios = {"all"}
INVARIANTS WrittenOnce
CHECK_DEADLOCK FALSE
