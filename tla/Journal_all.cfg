SPECIFICATION FairSpec
CONSTANTS
  p1 = p1
  p2 = p2
  r1 = r1
  f1 = f1
  ok = ok
  failed = failed
  none = none
  garbage = garbage
  noRecord = noRecord
  Processes = {p1, p2}
  Receipts = {r1}
  EffectIds = {f1}
  Payloads = {ok, failed}
  Failures = {failed}
  NoEffect = none
  MaxQueue = 2
  Garbage = garbage
  NoRecord = noRecord
INVARIANTS
  SoleWriter
  EveryLineReplays
  MemoryIsReplay
PROPERTIES
  ImplementsLedger
  CloseEnds
