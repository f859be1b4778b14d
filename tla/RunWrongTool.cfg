SPECIFICATION Spec
CONSTANTS
  a1 = a1
  a2 = a2
  a3 = a3
  w1 = w1
  w2 = w2
  write = write
  erase = erase
  search = search
  forbidden = forbidden
  Execute = Execute
  None = None
  Approval = {a1, a2, a3}
  Tool = {write, erase}
  Worker = {w1, w2}
  PolicyOf <- ToolPolicies
  MaxFaults = 1
SYMMETRY SymmetryOfTools
INVARIANTS
  OnlyApprovedRuns
CHECK_DEADLOCK FALSE
