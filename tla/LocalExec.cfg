SPECIFICATION FairSpec
CONSTANTS
  t1 = t1
  a1 = a1
  p1 = p1
  v1 = v1
  acpLoop = acpLoop
  toolLoop = toolLoop
  NoRequest = NoRequest
  Tool = {t1}
  Run = {a1}
  Permission = {p1}
  Call = {v1}
  Worker = {acpLoop, toolLoop}
  Serves <- TwoLoops
  MaxTroubles = 1
INVARIANTS
  TypeOK
  AnswersAreFinal
  RequestAgreesWithRun
  WaitingHasApproval
PROPERTIES
  RequestSettles
