------------------------------ MODULE EventOutbox ------------------------------
(***************************************************************************)
(* Publication of stored events to Redis: publish_single_event, called by   *)
(* every handler after its commit for each row insert_event_tx returned,    *)
(* and publish_pending_outbox in the task of spawn_outbox_publisher.        *)
(* Nothing keeps the two from publishing the same row, so delivery to Redis *)
(* is at least once.                                                        *)
(*                                                                         *)
(* Left out: the attempts counter (next_attempt_at lies in the future or    *)
(* not), the per-run stream, and the order of the rows of one batch         *)
(* (created_at is a transaction's start time, not the order of seq).        *)
(***************************************************************************)
EXTENDS EventStore

CONSTANTS
  Worker,        \* the task started by spawn_outbox_publisher
  BatchLimit     \* LIMIT of publish_pending_outbox

ASSUME OutboxAssumption ==
  /\ Worker \notin Txn
  /\ BatchLimit \in Nat \ {0}

VARIABLES
  queue,         \* rows a publisher has still to publish
  inFlight,      \* the row it has published and not yet marked
  delivered,     \* event_outbox rows with status delivered
  deferred,      \* rows whose next_attempt_at is in the future
  redisUp,       \* Redis reachable
  stream         \* rows XADDed to the conversation stream at least once

outboxVars == <<queue, inFlight, delivered, deferred, redisUp, stream>>
vars == <<storeVars, outboxVars>>

\* All of storeVars but pending, which marking changes.
storeButPending == <<runEvents, nextSeq, seqLock, lastOffset, txnVars, crashes>>

Publisher == Txn \cup {Worker}

Init ==
  /\ StoreInit
  /\ queue = [p \in Publisher |-> {}]
  /\ inFlight = [p \in Publisher |-> {}]
  /\ delivered = {}
  /\ deferred = {}
  /\ redisUp = TRUE
  /\ stream = {}

\* A handler collects the rows insert_event_tx returns, forgets them when it
\* rolls back, and takes a new call only when it is done publishing.
Handle(t) ==
  /\ \/ /\ queue[t] = {} /\ inFlight[t] = {}
        /\ \E c \in Conversation, b \in Batches : Begin(t, c, b)
        /\ UNCHANGED queue
     \/ /\ FindExisting(t)
        /\ queue' = [queue EXCEPT ![t] = @ \cup StoredAs(t)]
     \/ /\ AppendEvent(t)
        /\ queue' = [queue EXCEPT ![t] = IF IdTaken(t) THEN {} ELSE @ \cup {NewRow(t)}]
     \/ /\ Rollback(t)
        /\ queue' = [queue EXCEPT ![t] = {}]
     \/ /\ Commit(t)
        /\ UNCHANGED queue
  /\ UNCHANGED <<inFlight, delivered, deferred, redisUp, stream>>

\* Mutation of MayPublish: a handler publishes before it commits.
MayPublishEarly(p, row) ==
  /\ row \in queue[p]
  /\ inFlight[p] = {}

\* A row of p's list, when p has nothing in flight.
MayPublish(p, row) ==
  /\ row \in queue[p]
  /\ inFlight[p] = {}
  /\ p \in Txn => pc[p] = "idle"

\* Mutation of PublishFails: the error is swallowed and the row marked.
PublishErrorSwallowed(p, row) ==
  /\ MayPublish(p, row)
  /\ ~redisUp
  /\ queue' = [queue EXCEPT ![p] = @ \ {row}]
  /\ inFlight' = [inFlight EXCEPT ![p] = {row}]
  /\ UNCHANGED <<storeVars, delivered, deferred, redisUp, stream>>

\* publish_event_to_redis succeeds.
PublishOk(p, row) ==
  /\ MayPublish(p, row)
  /\ redisUp
  /\ stream' = stream \cup {row}
  /\ queue' = [queue EXCEPT ![p] = @ \ {row}]
  /\ inFlight' = [inFlight EXCEPT ![p] = {row}]
  /\ UNCHANGED <<storeVars, delivered, deferred, redisUp>>

\* publish_event_to_redis fails: before the first XADD, or after it when the
\* connection breaks between the commands.  The handler only logs.  The worker
\* calls increment_outbox_attempt; when that UPDATE fails as well it returns and
\* forgets the rest of its batch, and the row is due at once.
PublishFails(p, row) ==
  /\ MayPublish(p, row)
  /\ \/ ~redisUp /\ UNCHANGED <<redisUp, stream>>
     \/ redisUp /\ redisUp' = FALSE /\ stream' = stream \cup {row}
  /\ \/ /\ queue' = [queue EXCEPT ![p] = @ \ {row}]
        /\ deferred' = IF p = Worker THEN deferred \cup {row} ELSE deferred
     \/ /\ p = Worker
        /\ queue' = [queue EXCEPT ![p] = {}]
        /\ UNCHANGED deferred
  /\ UNCHANGED <<storeVars, inFlight, delivered>>

\* mark_outbox_delivered and mark_pending_outbox_delivered_for_event, both
\* guarded by status = 'pending'.
MarkDelivered(p) ==
  /\ inFlight[p] # {}
  /\ pending' = pending \ inFlight[p]
  /\ delivered' = delivered \cup (inFlight[p] \cap pending)
  /\ inFlight' = [inFlight EXCEPT ![p] = {}]
  /\ UNCHANGED <<storeButPending, queue, deferred, redisUp, stream>>

\* The UPDATE fails: the handler logs and goes on, the worker returns and
\* forgets the rest of its batch.  The row stays pending.
MarkFails(p) ==
  /\ inFlight[p] # {}
  /\ inFlight' = [inFlight EXCEPT ![p] = {}]
  /\ queue' = IF p = Worker THEN [queue EXCEPT ![p] = {}] ELSE queue
  /\ UNCHANGED <<storeVars, delivered, deferred, redisUp, stream>>

\* One tick of the worker reads at most BatchLimit due rows.
SelectBatch ==
  /\ queue[Worker] = {} /\ inFlight[Worker] = {}
  /\ LET due == pending \ deferred
     IN \E s \in SUBSET due :
          /\ s # {}
          /\ s = due \/ Cardinality(s) = BatchLimit
          /\ Cardinality(s) <= BatchLimit
          /\ queue' = [queue EXCEPT ![Worker] = s]
  /\ UNCHANGED <<storeVars, inFlight, delivered, deferred, redisUp, stream>>

\* Mutation of BecomeDue: a failed publication is not tried again.
NeverDue(row) ==
  /\ row \in deferred \cap delivered
  /\ UNCHANGED vars

\* next_attempt_at passes.
BecomeDue(row) ==
  /\ row \in deferred
  /\ deferred' = deferred \ {row}
  /\ UNCHANGED <<storeVars, queue, inFlight, delivered, redisUp, stream>>

\* Redis becomes unreachable or reachable again.
RedisChanges ==
  /\ redisUp' = ~redisUp
  /\ UNCHANGED <<storeVars, queue, inFlight, delivered, deferred, stream>>

\* With the process die the publication lists it held in memory.
CrashAll ==
  /\ Crash
  /\ queue' = [p \in Publisher |-> {}]
  /\ inFlight' = [p \in Publisher |-> {}]
  /\ UNCHANGED <<delivered, deferred, redisUp, stream>>

PublishStep(p) ==
  \/ \E row \in queue[p] : PublishOk(p, row) \/ PublishFails(p, row)
  \/ MarkDelivered(p)
  \/ MarkFails(p)

Next ==
  \/ \E t \in Txn : Handle(t)
  \/ \E p \in Publisher : PublishStep(p)
  \/ SelectBatch
  \/ \E row \in deferred : BecomeDue(row)
  \/ RedisChanges
  \/ CrashAll

Spec == Init /\ [][Next]_vars

\* The worker is a loop on a one-second interval: it keeps ticking, publishing
\* and marking, time passes, and an UPDATE by primary key that is retried for
\* ever succeeds at last.
WorkerFairness ==
  /\ WF_vars(SelectBatch)
  /\ WF_vars(\E row \in queue[Worker] : PublishOk(Worker, row)
                                      \/ PublishFails(Worker, row))
  /\ WF_vars(MarkDelivered(Worker) \/ MarkFails(Worker))
  /\ SF_vars(MarkDelivered(Worker))
  /\ WF_vars(\E row \in deferred : BecomeDue(row))

FairSpec == Spec /\ WorkerFairness

-------------------------------------------------------------------------------
\* Type correctness.
TypeOK ==
  /\ StoreTypeOK
  /\ queue \in [Publisher -> SUBSET Row]
  /\ inFlight \in [Publisher -> SUBSET Row]
  /\ delivered \subseteq Row
  /\ deferred \subseteq Row
  /\ redisUp \in BOOLEAN
  /\ stream \subseteq Row

\* The outbox holds each committed event once, and says "delivered" only of an
\* event that did reach the Redis stream: nothing is stored and then forgotten.
OutboxIsHonest ==
  /\ pending \cup delivered = runEvents
  /\ pending \cap delivered = {}
  /\ delivered \subseteq stream

\* What reaches Redis was committed first: no subscriber is told of an event
\* that a rollback takes back.
StreamOnlyCommitted == stream \subseteq runEvents

\* Once Redis stays reachable every stored event is delivered, whatever
\* crashed or failed between its commit and its publication.
StoredIsDelivered ==
  <>[]redisUp =>
    \A c \in Conversation, e \in EventId :
      (\E r \in pending : r.conv = c /\ r.id = e)
        ~> (\E r \in delivered : r.conv = c /\ r.id = e)

-------------------------------------------------------------------------------
\* What makes them inductive: a handler collects only rows it sees, the worker
\* only committed ones, and what is in flight is in the stream.
OutboxInv ==
  /\ StoreInv
  /\ TypeOK
  /\ OutboxIsHonest
  /\ StreamOnlyCommitted
  /\ \A t \in Txn : queue[t] \subseteq Visible(t)
  /\ queue[Worker] \subseteq runEvents
  /\ \A p \in Publisher : inFlight[p] \subseteq stream
===============================================================================
