SPECIFICATION Spec
CONSTANTS
  None = None
  Setups <- Adapters
  Actions <- HostActions
  MaxCommands = 1
  MaxFaults = 0
PROPERTIES
  UnchangedIsKept
CHECK_DEADLOCK FALSE
