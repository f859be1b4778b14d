SPECIFICATION FairSpec
CONSTANTS
  tab = tab
  agent = agent
  other = other
  ann = ann
  bob = bob
  run1 = run1
  run2 = run2
  NoRun = NoRun
  Nobody = Nobody
  Dropped = Dropped
  Session = {tab, agent, other}
  UserOf <- MCUserOf
  RunOf <- MCRunOf
  MaxRequests = 3
  MaxFaults = 1
INVARIANTS
  TypeOK
  NothingOverwritten
  OneStranger
  LockOutlivesWrite
  RevisionsReadable
PROPERTIES
  RequestsAnswered
