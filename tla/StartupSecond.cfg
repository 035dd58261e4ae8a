\* A server, and a second start on the same machine.
SPECIFICATION Spec
CONSTANTS
  Procs = {p1, p2}
  MaxRuns = 2
  Ports = {n1}
  Given = {g}
  None = None
  Foreign = Foreign
INVARIANTS
  HooksCanAuthenticate
CHECK_DEADLOCK FALSE
