-------------------------- MODULE EventOutboxProofs --------------------------
(***************************************************************************)
(* The outbox for every number of handlers, events, crashes and failures of *)
(* Redis: nothing is marked delivered that is not in the stream, nothing is *)
(* in the stream that was not committed, nothing committed is forgotten.    *)
(***************************************************************************)
EXTENDS EventOutbox, EventStoreProofs

USE EventStoreAssumption, OutboxAssumption

LEMMA OutboxInit == Init => OutboxInv
<1> SUFFICES ASSUME Init PROVE OutboxInv
  OBVIOUS
<1>1. StoreInv
  BY InitInv DEF Init
<1>2. TypeOK
  BY <1>1 DEF Init, TypeOK, StoreInv, StoreTypeOK, Publisher
<1> QED
  BY <1>1, <1>2 DEF Init, StoreInit, OutboxInv, OutboxIsHonest, StreamOnlyCommitted, Publisher

\* The uncommitted rows of a transaction have seqs the log does not have yet.
LEMMA DraftIsNew ==
  ASSUME StoreInv, NEW t \in Txn
  PROVE  draft[t] \cap runEvents = {}
<1>1. \A r \in draft[t] : r.conv \in Conversation /\ r.seq \in Nat /\ nextSeq[r.conv] \in Nat
                         /\ nextSeq[r.conv] <= r.seq
  BY DEF StoreInv, StoreTypeOK, DraftInv, Row
<1>2. \A r \in runEvents : r.seq < nextSeq[r.conv]
  BY DEF StoreInv, CommittedInv
<1> QED
  BY <1>1, <1>2

\* A step of a transaction: only COMMIT touches the log and the outbox.
LEMMA HandleInv ==
  ASSUME OutboxInv, NEW t \in Txn, Handle(t)
  PROVE  OutboxInv'
<1> USE DEF OutboxInv
<1>1. UNCHANGED <<inFlight, delivered, deferred, redisUp, stream>>
  BY DEF Handle
<1>2. StoreInv'
  <2>1. CASE \E c \in Conversation, b \in Batches : Begin(t, c, b)
    BY <2>1, BeginInv
  <2>2. CASE FindExisting(t)
    BY <2>2, FindExistingInv
  <2>3. CASE AppendEvent(t)
    BY <2>3, AppendInv
  <2>4. CASE Rollback(t)
    BY <2>4, RollbackInv
  <2>5. CASE Commit(t)
    BY <2>5, CommitInv
  <2> QED
    BY <2>1, <2>2, <2>3, <2>4, <2>5 DEF Handle
<1>3. \A u \in Txn : u # t => draft'[u] = draft[u]
  BY DEF Handle, Begin, FindExisting, AppendEvent, Rollback, Commit, Abort, TypeOK, StoreTypeOK
<1>4. t \in Publisher /\ Worker \in Publisher /\ Worker # t
  BY DEF Publisher
<1>5. \A u \in Publisher : u # t => queue'[u] = queue[u]
  BY DEF Handle, TypeOK
<1>6. CASE ~Commit(t)
  <2>1. UNCHANGED <<runEvents, pending>>
    BY <1>6 DEF Handle, Begin, FindExisting, AppendEvent, Rollback, Abort
  <2>2. queue'[t] \subseteq Visible(t)' /\ queue' \in [Publisher -> SUBSET Row]
    <3>1. CASE \E c \in Conversation, b \in Batches : Begin(t, c, b) /\ UNCHANGED queue
      BY <3>1 DEF Begin, Visible, TypeOK
    <3>2. CASE FindExisting(t) /\ queue' = [queue EXCEPT ![t] = @ \cup StoredAs(t)]
      <4>1. StoredAs(t) \subseteq Visible(t) /\ StoredAs(t) \subseteq Row
        BY DEF StoredAs, Visible, TypeOK, StoreTypeOK
      <4> QED
        BY <1>4, <3>2, <4>1 DEF FindExisting, Visible, TypeOK
    <3>3. CASE AppendEvent(t) /\ IdTaken(t) /\ queue' = [queue EXCEPT ![t] = {}]
      BY <1>4, <3>3 DEF TypeOK
    <3>4. CASE AppendEvent(t) /\ ~IdTaken(t) /\ queue' = [queue EXCEPT ![t] = @ \cup {NewRow(t)}]
      <4>1. draft'[t] = draft[t] \cup {NewRow(t)} /\ draft'[t] \subseteq Row
        BY <1>2, <3>4 DEF AppendEvent, TypeOK, StoreTypeOK, StoreInv
      <4> QED
        BY <1>4, <2>1, <3>4, <4>1 DEF Visible, TypeOK
    <3>5. CASE Rollback(t) /\ queue' = [queue EXCEPT ![t] = {}]
      BY <1>4, <3>5 DEF TypeOK
    <3> QED
      BY <1>6, <3>1, <3>2, <3>3, <3>4, <3>5 DEF Handle
  <2>3. \A u \in Txn : queue'[u] \subseteq Visible(u)'
    BY <1>3, <1>5, <2>1, <2>2 DEF Visible, Publisher
  <2> QED
    BY <1>1, <1>2, <1>4, <1>5, <2>1, <2>2, <2>3
       DEF TypeOK, StoreInv, OutboxIsHonest, StreamOnlyCommitted
<1>7. CASE Commit(t)
  <2>1. runEvents' = runEvents \cup draft[t] /\ pending' = pending \cup draft[t]
    BY <1>7 DEF Commit, StoreInv, DraftOutboxInv
  <2>2. draft[t] \cap delivered = {}
    BY DraftIsNew DEF OutboxIsHonest
  <2>3. queue' \in {queue, [queue EXCEPT ![t] = {}]}
    BY <1>7 DEF Handle, Commit, Begin, FindExisting, AppendEvent
  <2>4. draft'[t] = {}
    BY <1>7 DEF Commit, TypeOK, StoreTypeOK
  <2>5. \A u \in Publisher : queue'[u] \subseteq queue[u]
    BY <2>3 DEF TypeOK
  <2>6. \A u \in Txn : Visible(u) \subseteq Visible(u)'
    BY <1>3, <2>1, <2>4 DEF Visible
  <2>7. OutboxIsHonest' /\ StreamOnlyCommitted'
    BY <1>1, <2>1, <2>2 DEF OutboxIsHonest, StreamOnlyCommitted
  <2>8. queue' \in [Publisher -> SUBSET Row]
    BY <2>3 DEF TypeOK
  <2>9. TypeOK'
    BY <1>1, <1>2, <2>8 DEF TypeOK, StoreInv
  <2>10. \A u \in Txn : queue'[u] \subseteq Visible(u)'
    BY <2>5, <2>6 DEF Publisher
  <2>11. queue'[Worker] \subseteq runEvents'
    BY <1>4, <2>1, <2>5
  <2> QED
    BY <1>1, <1>2, <2>7, <2>9, <2>10, <2>11
<1> QED
  BY <1>6, <1>7

LEMMA PublishInv ==
  ASSUME OutboxInv, NEW p \in Publisher, NEW row \in queue[p],
         PublishOk(p, row) \/ PublishFails(p, row)
  PROVE  OutboxInv'
<1> USE DEF OutboxInv
<1>1. UNCHANGED <<storeVars, delivered>> /\ MayPublish(p, row)
  BY DEF PublishOk, PublishFails
<1>2. row \in runEvents /\ row \in Row
  <2>1. CASE p = Worker
    BY <2>1 DEF TypeOK, StoreTypeOK
  <2>2. CASE p \in Txn
    <3>1. pc[p] = "idle"
      BY <1>1, <2>2 DEF MayPublish
    <3>2. draft[p] = {}
      BY <2>2, <3>1 DEF StoreInv, DraftInv, LockInv, StoreTypeOK
    <3> QED
      BY <2>2, <3>2 DEF Visible, TypeOK, StoreTypeOK
  <2> QED
    BY <2>1, <2>2 DEF Publisher
<1>3. StoreInv' /\ \A t \in Txn : Visible(t)' = Visible(t)
  BY <1>1 DEF storeVars, txnVars, StoreInv, StoreTypeOK, CommittedInv, LockInv, DraftInv, OffsetInv,
              Visible, IdInv, DraftOutboxInv
<1>4. /\ stream \subseteq stream' /\ stream' \subseteq stream \cup {row}
      /\ deferred' \subseteq Row /\ redisUp' \in BOOLEAN
      /\ queue' \in {[queue EXCEPT ![p] = @ \ {row}], [queue EXCEPT ![p] = {}]}
      /\ inFlight' = inFlight \/ (inFlight' = [inFlight EXCEPT ![p] = {row}] /\ row \in stream')
  BY <1>2 DEF PublishOk, PublishFails, TypeOK
<1>5. TypeOK'
  BY <1>1, <1>2, <1>3, <1>4 DEF TypeOK, StoreInv, storeVars
<1>6. OutboxIsHonest' /\ StreamOnlyCommitted'
  BY <1>1, <1>2, <1>4 DEF OutboxIsHonest, StreamOnlyCommitted, storeVars
<1>7. \A q \in Publisher : queue'[q] \subseteq queue[q] /\ inFlight'[q] \subseteq stream'
  BY <1>4 DEF TypeOK
<1> QED
  BY <1>1, <1>3, <1>5, <1>6, <1>7 DEF Publisher, storeVars

LEMMA MarkInv ==
  ASSUME OutboxInv, NEW p \in Publisher, MarkDelivered(p) \/ MarkFails(p)
  PROVE  OutboxInv'
<1> USE DEF OutboxInv
<1>1. /\ UNCHANGED <<storeButPending, deferred, redisUp, stream>>
      /\ inFlight' = [inFlight EXCEPT ![p] = {}]
      /\ queue' \in {queue, [queue EXCEPT ![p] = {}]}
  BY DEF MarkDelivered, MarkFails, storeVars, storeButPending
<1>2. pending' \subseteq pending /\ delivered' \subseteq delivered \cup inFlight[p]
      /\ pending' \cup delivered' = pending \cup delivered /\ pending' \cap delivered' = {}
  BY DEF MarkDelivered, MarkFails, storeVars, OutboxIsHonest
<1>3. StoreInv' /\ \A t \in Txn : Visible(t)' = Visible(t)
  BY <1>1, <1>2 DEF storeButPending, txnVars, StoreInv, StoreTypeOK, CommittedInv, LockInv, DraftInv,
                    OffsetInv, Visible, IdInv, DraftOutboxInv
<1>4. TypeOK'
  BY <1>1, <1>2, <1>3 DEF TypeOK, StoreInv
<1>5. OutboxIsHonest' /\ StreamOnlyCommitted'
  BY <1>1, <1>2 DEF OutboxIsHonest, StreamOnlyCommitted, storeButPending
<1>6. \A q \in Publisher : queue'[q] \subseteq queue[q] /\ inFlight'[q] \subseteq stream'
  BY <1>1 DEF TypeOK
<1> QED
  BY <1>1, <1>3, <1>4, <1>5, <1>6 DEF Publisher, storeButPending

\* The steps that move only the worker's batch, its clock or Redis.
LEMMA WorkerInv ==
  ASSUME OutboxInv,
         SelectBatch \/ (\E row \in deferred : BecomeDue(row)) \/ RedisChanges
  PROVE  OutboxInv'
<1> USE DEF OutboxInv
<1>1. UNCHANGED <<storeVars, inFlight, delivered, stream>>
  BY DEF SelectBatch, BecomeDue, RedisChanges
<1>2. StoreInv' /\ \A t \in Txn : Visible(t)' = Visible(t)
  BY <1>1 DEF storeVars, txnVars, StoreInv, StoreTypeOK, CommittedInv, LockInv, DraftInv, OffsetInv,
              Visible, IdInv, DraftOutboxInv
<1>3. /\ queue' \in [Publisher -> SUBSET Row]
      /\ \A t \in Txn : queue'[t] = queue[t]
      /\ queue'[Worker] \subseteq runEvents
  <2>1. CASE SelectBatch
    <3>1. PICK s \in SUBSET (pending \ deferred) : queue' = [queue EXCEPT ![Worker] = s]
      BY <2>1 DEF SelectBatch
    <3>2. s \subseteq runEvents /\ s \subseteq Row
      BY DEF OutboxIsHonest, TypeOK, StoreTypeOK
    <3> QED
      BY <3>1, <3>2 DEF TypeOK, Publisher
  <2>2. CASE (\E row \in deferred : BecomeDue(row)) \/ RedisChanges
    BY <2>2 DEF BecomeDue, RedisChanges, TypeOK, Publisher
  <2> QED
    BY <2>1, <2>2
<1>4. deferred' \subseteq Row /\ redisUp' \in BOOLEAN
  BY DEF SelectBatch, BecomeDue, RedisChanges, TypeOK
<1> QED
  BY <1>1, <1>2, <1>3, <1>4 DEF storeVars, TypeOK, StoreInv, OutboxIsHonest, StreamOnlyCommitted

LEMMA CrashAllInv ==
  ASSUME OutboxInv, CrashAll
  PROVE  OutboxInv'
<1>1. StoreInv'
  BY CrashInv DEF OutboxInv, CrashAll
<1> QED
  BY <1>1 DEF OutboxInv, CrashAll, Crash, TypeOK, StoreInv, OutboxIsHonest, StreamOnlyCommitted, Publisher

LEMMA OutboxNext == OutboxInv /\ [Next]_vars => OutboxInv'
<1> SUFFICES ASSUME OutboxInv, [Next]_vars PROVE OutboxInv'
  OBVIOUS
<1>1. ASSUME NEW t \in Txn, Handle(t) PROVE OutboxInv'
  BY <1>1, HandleInv
<1>2. ASSUME NEW p \in Publisher, PublishStep(p) PROVE OutboxInv'
  BY <1>2, PublishInv, MarkInv DEF PublishStep
<1>3. CASE SelectBatch \/ (\E row \in deferred : BecomeDue(row)) \/ RedisChanges
  BY <1>3, WorkerInv
<1>4. CASE CrashAll
  BY <1>4, CrashAllInv
<1>5. CASE UNCHANGED vars
  BY <1>5 DEF vars, outboxVars, storeVars, txnVars, OutboxInv, TypeOK, OutboxIsHonest,
              StreamOnlyCommitted, StoreInv, StoreTypeOK, CommittedInv, LockInv, DraftInv, OffsetInv,
              Visible, IdInv, DraftOutboxInv
<1> QED
  BY <1>1, <1>2, <1>3, <1>4, <1>5 DEF Next

\* The inductive invariant of the outbox.
THEOREM OutboxInvariant == Spec => []OutboxInv
<1> QED
  BY OutboxInit, OutboxNext, PTL DEF Spec

\* The outbox never calls an event delivered that is not in the Redis stream,
\* and has every committed event once (publish_single_event,
\* publish_pending_outbox and their races).
THEOREM OutboxHonest == Spec => []OutboxIsHonest
<1>1. OutboxInv => OutboxIsHonest
  BY DEF OutboxInv
<1> QED
  BY <1>1, OutboxInvariant, PTL

\* Nothing reaches Redis before its transaction has committed.
THEOREM OutboxStreamCommitted == Spec => []StreamOnlyCommitted
<1>1. OutboxInv => StreamOnlyCommitted
  BY DEF OutboxInv
<1> QED
  BY <1>1, OutboxInvariant, PTL
==============================================================================
