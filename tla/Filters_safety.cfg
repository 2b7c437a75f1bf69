\* Two callers, two metas that share a tag, lists of two slots.
\* The bounds on filters and messages end behaviours, so the deadlock check is off.
SPECIFICATION MCSpec
CONSTANTS
  Levels = {1, 2}
  LevelLog = 1
  Tags = {1}
  Origins = {1}
  TargetIds = {1}
  MaxIdentical = 2
  Metas <- TwoMetas
  Masks <- TwoMasks
  Callers = {c1, c2}
  MaxFilters = 3
  MaxMsgs = 2
  Scenarios = {"race", "torn", "lists"}
INVARIANTS CachedListsAreOwn WrittenAsAdded ListsWellFormed RoutesAsRegistered
SYMMETRY CallerSymmetry
CHECK_DEADLOCK FALSE
