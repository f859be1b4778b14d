SPECIFICATION FairSpec
CONSTANTS
  t1 = t1
  t2 = t2
  e1 = e1
  e2 = e2
  NoTxn = NoTxn
  Worker = Worker
  Conversation = {c1}
  EventId = {e1, e2}
  Txn = {t1, t2}
  Batches <- SmallBatches
  BatchLimit = 2
  MaxOffset = 2
  MaxCrashes = 1
INVARIANTS
  OutboxIsHonest
  StreamOnlyCommitted
PROPERTIES
  StoredIsDelivered
