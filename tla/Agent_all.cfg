SPECIFICATION Spec
CONSTANTS
  None = None
  MaxOps = 2
  MaxAttempts = 3
  MaxSequence = 3
  MaxSessions = 2
  MaxFaults = 1
INVARIANTS
  SuccessWasDone
  FencedOnlyWhenSuperseded
  RecordedSuccessStands
PROPERTIES
  RecordedWorkIsNotRepeated
  CommandSettles
