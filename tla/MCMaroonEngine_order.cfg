CONSTANTS
  Programs <- MCProgramsOrder
  Main = "main"
  NoSlot = NoSlot
  Null = Null
  Width = 3
SPECIFICATION Spec
CHECK_DEADLOCK FALSE
INVARIANT
  ReadOutcomeUnique
