\* Event streams of up to MaxLine events into one fiber, with IF branches
\* and arms that emit no, one or several units and VARs.
CONSTANTS
  FnNames <- MCFnNames
  MaxLine = 6
  WellFormed = FALSE
  MatchVar = MatchVar
  CaseKey = CaseKey
  CaptureName = CaptureName
  NoFn = NoFn
  NoKey = NoKey
SPECIFICATION Spec
\* A stream ends after MaxLine events, possibly inside an open construct.
CHECK_DEADLOCK FALSE
PROPERTY IfTakesItsBranches
