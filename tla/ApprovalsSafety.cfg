\* Three requests of one agent and of anonymous hooks race for two slots.
SPECIFICATION SafetySpec
CONSTANTS
  unruled = unruled
  asked = asked
  allowed = allowed
  Sessions = {s1}
  Shells = {}
  Requests = {1, 2, 3}
  Anonymous = Anonymous
  Calls = {unruled}
  Dirs = {d1}
  Anywhere = Anywhere
  Anything = Anything
  Patterns = {"typed"}
  Policy <- MCPolicy
  MaxPending = 2
  MaxRules = 1
  Writes = {TRUE}
  NestedAgents = FALSE
INVARIANTS
  TypeOK
  OpenEverywhereOrNowhere
  BlockedIsShown
  NoFalseBlock
  NoStaleQuestion
  RulesAreOnDisk
PROPERTIES
  DenyOutranksAllow
  ImplementsGate
CHECK_DEADLOCK FALSE
