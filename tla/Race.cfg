\* One race of two variants, and two requests about it at a time.
SPECIFICATION Spec
CONSTANTS
  Races = {r1}
  Variants = {v1, v2}
  Requests = {q1, q2}
  Nobody = Nobody
INVARIANTS
  WinnerIsMerged
  WorkIsKept
  AdoptionClosesAll
  DroppedIsGone
  AgentsHaveTheirTree
SYMMETRY Symmetry
CHECK_DEADLOCK FALSE
