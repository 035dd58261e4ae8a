SPECIFICATION Spec
CONSTANTS
  Ids = {s1, s2, s3}
  Strangers = {x1}
  Beside = {}
  None = None
  MaxSessions = 2
  MaxExternal = 1
  ExitedKept = 1
  OrphansKept = 2
  Expiring = {"shell"}
  MaxRuns = 2
  MaxWire = 1
  Mishaps = {}
INVARIANTS
  NothingIsLost
  OneAgentEach
SYMMETRY Symmetry
CHECK_DEADLOCK FALSE
