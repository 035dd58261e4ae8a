\* A tab creates the session itself: the server attaches it before its panel asks.
SPECIFICATION SafetySpec
CONSTANTS
  Clients = {c1}
  MaxSeq = 2
  MaxRead = 1
  Tails = {0}
  High = 2
  Low = 1
  QueueMax = 1
  MaxOutages = 0
  MaxMessages = 1
  MaxFrames = 9
  MaxBytes = 2
  Overlap = {"create", "restore"}
INVARIANTS
  TextIsOneRun
CHECK_DEADLOCK FALSE
