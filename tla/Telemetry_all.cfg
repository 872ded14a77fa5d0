SPECIFICATION Spec
CONSTANTS
  None = None
  Window = 3
  MinSince = 2
  Overlap = 1
  Skew = 2
  TrafficAge = 1
  MaxRead = 2
  Tail = 1
  Slots = {1, 2}
  SnapshotAge = 1
  EnrichAge = 2
  Setups <- EverySetup
INVARIANTS TrafficIsExact MetadataIsOfGeneration
PROPERTY ConfigIsReported
CHECK_DEADLOCK FALSE
