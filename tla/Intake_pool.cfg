\* A caller and a reader, or two callers, share two entries and a queue of three.
\* The bound on messages ends behaviours, so the deadlock check is off.
SPECIFICATION MCSpec
CONSTANTS
  NumEntries = 2
  QueueCap = 3
  NumTargets = 2
  Callers = {c1, c2}
  Readers = {r1}
  Sizes = {"small", "large", "huge"}
  MayShutdown = TRUE
  MaxMsgs = 2
  Alone = c1
  Scenarios = {"reader", "callers"}
INVARIANTS EntryConservation NoLostWakeup RefusedOnlyByExtras ProducerOrder OncePerPost
PROPERTIES AcceptedIsHandled EntriesComeBack
CHECK_DEADLOCK FALSE
