SPECIFICATION Spec
CONSTANTS
  e1 = e1  e2 = e2  c1 = c1  c2 = c2
  Base = Base  None = None
  Endpoints = {e1, e2}
  Configs = {c1, c2}
  MaxCommands = 2
  MaxTries = 2
  MaxFaults = 2
INVARIANTS
  UpdateIsRemembered
PROPERTIES
  RestoreKeepsUpdate
  UpdateIsRestored
CHECK_DEADLOCK FALSE
