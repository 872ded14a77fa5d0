SPECIFICATION Spec
CONSTANTS
  None = None
  Mounts = {m1, m2}
  Requests = {r1, r2}
  Limit = 2
  Lifetime = 2
  MaxTickets = 3
  MaxFrames = 3
INVARIANTS
  LiveTicketWorks
  FramesKeepOrder
SYMMETRY Symmetry
