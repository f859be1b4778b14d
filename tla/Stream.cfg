SPECIFICATION FairSpec
CONSTANTS
  c1 = c1
  t1 = t1
  t2 = t2
  e1 = e1
  e2 = e2
  browser = browser
  NoTxn = NoTxn
  Conversation = {c1}
  EventId = {e1, e2}
  Txn = {t1, t2}
  Batches <- SmallBatches
  MaxOffset = 3
  MaxCrashes = 1
  Reader = {browser}
  ReaderConv <- OneConversation
  FetchLimit = 1
INVARIANTS
  NothingLeftBehind
PROPERTIES
  ImplementsEventLog
  OpenStreamCatchesUp
  RevokedStreamEnds
