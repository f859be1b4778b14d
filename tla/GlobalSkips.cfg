SPECIFICATION Spec
CONSTANTS
  c1 = c1
  c2 = c2
  t1 = t1
  t2 = t2
  t3 = t3
  e1 = e1
  e2 = e2
  NoTxn = NoTxn
  Conversation = {c1, c2}
  EventId = {e1, e2}
  Txn = {t1, t2}
  Batches <- SingleBatches
  MaxOffset = 3
  MaxCrashes = 0
  Mine = {c1, c2}
  GlobalLimit = 2
SYMMETRY Symmetry
INVARIANTS
  NothingSkipped
