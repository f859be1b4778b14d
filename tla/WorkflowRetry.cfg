SPECIFICATION FairSpec
CONSTANTS
  a = a
  b = b
  c = c
  Node = {a, b, c}
  Plans <- MCPlans
  MaxAttempts <- MCMaxAttempts
  Backed = {b}
  Timed = {}
  Reviewed = {}
  MaxTroubles = 0
PROPERTIES
  RetriesHappen
CHECK_DEADLOCK FALSE
