\* One folder, and a socket that may be down when the user launches there.
SPECIFICATION Spec
CONSTANTS
  Folders = {f1}
  Home = Home
  None = None
  Books <- MCBooks
  MaxAgents = 1
  MaxSessions = 2
  MaxInputs = 3
INVARIANTS
  NotSentStartsNothing
CHECK_DEADLOCK FALSE
