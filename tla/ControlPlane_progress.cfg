SPECIFICATION FairSpec
CONSTANTS
  n1 = n1  e1 = e1  e2 = e2  s1 = s1  s2 = s2  None = None
  Nodes = {n1}
  Endpoints = {e1}
  Sessions = {s1, s2}
  Provider <- OneSnowluma
  NodeProvider <- SnowlumaNode
  UserActions = {"restart", "delete", "update-endpoint-proxy"}
  Expiries = {}
  AdminSteps = {}
  AgentBuilds <- CurrentBuild
  MaxOps = 2
  MaxAttempts = 2
  MaxSequence = 0
  MaxExpiryTries = 0
PROPERTIES
  StagedOperationEnds
  QueuedOperationMoves
