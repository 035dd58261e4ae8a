\* Two tabs share the catch-up interval. One outage; either tab may create the
\* session, and goes on being minimized and restored while its socket is down.
SPECIFICATION Spec
CONSTANTS
  Clients = {c1, c2}
  MaxSeq = 2
  MaxRead = 1
  Tails = {0}
  High = 1
  Low = 1
  QueueMax = 1
  MaxOutages = 1
  MaxMessages = 2
  MaxFrames = 9
  MaxBytes = 1
  Overlap = {"create", "offline"}
INVARIANTS
  ScrollbackIsTheTail
PROPERTIES
  EverythingIsShown
CHECK_DEADLOCK FALSE
