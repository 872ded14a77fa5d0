SPECIFICATION Spec
CONSTANTS
  n1 = n1  e1 = e1  e2 = e2  s1 = s1  s2 = s2  None = None
  Nodes = {n1}
  Endpoints = {e1}
  Sessions = {s1, s2}
  Provider <- OneSnowluma
  NodeProvider <- SnowlumaNode
  UserActions = {"restart", "force-restart", "delete", "update-endpoint-proxy"}
  Expiries = {}
  AdminSteps = {}
  AgentBuilds <- Upgrade
  MaxOps = 2
  MaxAttempts = 2
  MaxSequence = 1
  MaxExpiryTries = 0
INVARIANTS
  LeasedCommandIsRunning
  RunningOperationHasCommand
  QueuedOperationHasEvent
  DeletedEndpointIsQuiet
  RetiredSessionStaysOut
  NewestClaimOnly
PROPERTIES
  DeletionIsNotSuperseded
