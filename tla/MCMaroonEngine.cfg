CONSTANTS
  Programs <- MCProgramsPass
  Main = "main"
  NoSlot = NoSlot
  Null = Null
  Width = 3
SPECIFICATION Spec
\* run() returns once the stack empties or an error stops the loop.
CHECK_DEADLOCK FALSE
INVARIANTS
  TypeOK
  NoAbort
  FrameMatchesScope
  TestsPass
PROPERTIES
  Terminates
  RunsTree
