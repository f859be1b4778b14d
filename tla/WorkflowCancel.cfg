SPECIFICATION Spec
CONSTANTS
  a = a
  b = b
  c = c
  Node = {a, b, c}
  Plans <- MCPlans
  MaxAttempts <- MCMaxAttempts
  Backed = {b}
  Timed = {}
  Reviewed = {}
  MaxTroubles = 0
INVARIANTS
  CancelReachesRuns
CHECK_DEADLOCK FALSE
