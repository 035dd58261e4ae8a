\* Two requests, every kind of policy, a shell whose output moves its status.
SPECIFICATION Spec
CONSTANTS
  unruled = unruled
  asked = asked
  allowed = allowed
  Sessions = {s1}
  Shells = {s1}
  Requests = {1, 2}
  Anonymous = Anonymous
  Calls = {unruled, asked, allowed}
  Dirs = {d1}
  Anywhere = Anywhere
  Anything = Anything
  Patterns = {"observed", "typed"}
  Policy <- MCPolicy
  MaxPending = 2
  MaxRules = 1
  Writes = {TRUE, FALSE}
  NestedAgents = TRUE
PROPERTIES
  NoHookHangs
  ConsentDiesWithSession
CHECK_DEADLOCK FALSE
