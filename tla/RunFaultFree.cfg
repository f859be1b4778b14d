SPECIFICATION FairSpec
CONSTANTS
  a1 = a1
  a2 = a2
  a3 = a3
  w1 = w1
  w2 = w2
  write = write
  erase = erase
  search = search
  forbidden = forbidden
  Execute = Execute
  None = None
  Approval = {a1, a2}
  Tool = {write, erase, search, forbidden}
  Worker = {w1, w2}
  PolicyOf <- ToolPolicies
  MaxFaults = 0
INVARIANTS
  TypeOK
  OneRunPerApproval
  NeverStranded
PROPERTIES
  
  CompletedIsFinal
  ApprovalTakesEffect
CHECK_DEADLOCK FALSE
