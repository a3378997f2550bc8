\* Streams with an ENUM_ARM(key, stmt) arm: the alias it should not get.
CONSTANTS
  FnNames <- MCFnNames
  MaxLine = 4
  WellFormed = TRUE
  MatchVar = MatchVar
  CaseKey = CaseKey
  CaptureName = CaptureName
  NoFn = NoFn
  NoKey = NoKey
SPECIFICATION Spec
CHECK_DEADLOCK FALSE
INVARIANT OnlyCapturingArmsAlias
