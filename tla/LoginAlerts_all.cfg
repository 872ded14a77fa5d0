SPECIFICATION Spec
CONSTANTS
  None = None
  Grace = 1
  ProbeGrace = 1
  MaxRows = 2
  MaxAttempts = 2
  MaxFaults = 1
PROPERTIES
  PagesAfterGrace
  NotificationEnds
