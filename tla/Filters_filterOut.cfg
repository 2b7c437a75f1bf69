\* A meta is used twice with defaultFilterOut.
\* The bounds on filters and messages end behaviours, so the deadlock check is off.
SPECIFICATION MCSpec
CONSTANTS
  Levels = {1, 2}
  LevelLog = 1
  Tags = {1}
  Origins = {1}
  TargetIds = {1}
  MaxIdentical = 2
  Metas <- TwoMetas
  Masks <- TwoMasks
  Callers = {c1, c2}
  MaxFilters = 0
  MaxMsgs = 2
  Scenarios = {"race"}
PROPERTIES FilterOutHolds
SYMMETRY CallerSymmetry
CHECK_DEADLOCK FALSE
