CONSTANTS
  Programs <- MCProgramsFall
  Main = "main"
  NoSlot = NoSlot
  Null = Null
  Width = 3
SPECIFICATION Spec
CHECK_DEADLOCK FALSE
INVARIANT
  StepsStayInFunction
