\* Event streams of up to MaxLine events into one fiber, well-formed DSL.
CONSTANTS
  FnNames <- MCFnNames
  MaxLine = 6
  WellFormed = TRUE
  MatchVar = MatchVar
  CaseKey = CaseKey
  CaptureName = CaptureName
  NoFn = NoFn
  NoKey = NoKey
SPECIFICATION Spec
\* A stream ends after MaxLine events, possibly inside an open construct.
CHECK_DEADLOCK FALSE
INVARIANT NoInternalError
PROPERTIES BuildsTree
