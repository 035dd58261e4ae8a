\* A session of the race is restarted before its variant is adopted.
SPECIFICATION Spec
CONSTANTS
  Races = {r1}
  Variants = {v1, v2}
  Requests = {q1}
  Nobody = Nobody
INVARIANTS
  AdoptionIsAFullStop
SYMMETRY Symmetry
CHECK_DEADLOCK FALSE
