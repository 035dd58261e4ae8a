SPECIFICATION MCSpec
CONSTANTS
  Sessions = {s1}
  Two = {t1, t2}
  Few = {1, 2}
  Handles = {1, 2, 3, 4}
  NoPlan = NoPlan
  MaxAttempts = 2
  Stagger = TRUE
  SlowQuota = TRUE
SYMMETRY Symmetry
INVARIANTS HandfulOfAttempts OneReleaseAtATime
PROPERTIES CancelOutlastsRedraw
CHECK_DEADLOCK FALSE
