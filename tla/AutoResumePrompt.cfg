SPECIFICATION Spec
CONSTANTS
  Sessions = {s1}
  Handles = {1, 2, 3, 4}
  NoPlan = NoPlan
  MaxAttempts = 2
  Stagger = TRUE
  SlowQuota = TRUE
PROPERTY NeverOverAPrompt
CHECK_DEADLOCK FALSE
