SPECIFICATION Spec
CONSTANTS
  None = None
  Setups <- EverySetup
  Actions <- HostActions
  MaxCommands = 2
  MaxFaults = 1
INVARIANTS
  DeletedMeansGone
PROPERTIES
  DataKept
  FencedEffects
  ReplayKeepsReplacement
  OutageKeepsRuntime
  SuccessMeansServing FallbackServes
CHECK_DEADLOCK FALSE
