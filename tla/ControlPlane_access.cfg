SPECIFICATION Spec
CONSTANTS
  n1 = n1  e1 = e1  e2 = e2  s1 = s1  s2 = s2  None = None
  Nodes = {n1}
  Endpoints = {e1, e2}
  Sessions = {s1}
  Provider <- TwoNapcat
  NodeProvider <- NapcatNode
  UserActions = {"start"}
  Expiries = {"expired"}
  AdminSteps = {"share", "unshare", "grantShared", "grant", "revokeGrant", "revokeShared", "deleteNode"}
  AgentBuilds <- CurrentBuild
  MaxOps = 2
  MaxAttempts = 1
  MaxSequence = 0
  MaxExpiryTries = 2
INVARIANTS
  OneActiveOperation
  ActiveOperationIsCurrent
PROPERTIES
  RevocationEndsLeases
  TerminalIsFinal
SYMMETRY Symmetry
