SPECIFICATION FairSpec
CONSTANTS
  a = a
  b = b
  c = c
  Node = {a, b, c}
  Plans <- MCPlans
  MaxAttempts <- MCMaxAttempts
  Backed = {b}
  Timed = {b}
  Reviewed = {a}
  MaxTroubles = 1
INVARIANTS
  TypeOK
  CreatedIsAcyclic
  AttemptsAddUp
  StatusAgrees
  CompletedNodeHasEndedRun
  LiveRunsAreCurrent
PROPERTIES
  EndedStaysEnded
  ImplementsDag
  WorkflowEnds
CHECK_DEADLOCK FALSE
