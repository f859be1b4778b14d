# Verification of the bibi_work agent platform

TLA+ models, TLC runs and TLAPS proofs of the parts of the platform in which
several actors change shared state: the event store and its subscribers, the
life of an agent run with its approvals, cancels and failures, the scheduler of
workflows, the queue of work for the user's desktop, and the files of a project
with their locks. Paths below are
relative to the repository; `B` stands for
`bibi_work_backend/src/features/agent_platform`, `A` for `bibi_work_agent`, `F`
for `bibi_work_frontend/packages/desktop/src/process`.

## 1. The system

| Part | State | Operations | Interacts with |
|---|---|---|---|
| Event store, `B/event_store.rs` | `run_events`, `conversation_event_sequences`, the identity `stream_offset` | `insert_event_tx`, called inside the transaction of every handler that reports something | Postgres; rows are read by the streams |
| Outbox, `B/event_store.rs` | `event_outbox`, Redis streams and channels | `publish_single_event` after a commit; `publish_pending_outbox` in a task, every second | Redis |
| Conversation streams, `B/event_store.rs` | a cursor per connection | SSE `live_events_to_sse`, WebSocket `handle_conversation_socket` | Postgres, Redis pub/sub, platform sessions, browser |
| Renderer `/ws`, `B/handlers/biwork_ws_service.rs` | a cursor over `stream_offset` | poll | Postgres |
| Run control plane, `B/handlers/run_service.rs`, `B/run_lifecycle.rs` | `runs` | create and dispatch, cancel, `ingest_run_events`, `mark_dispatch_failed` | HTTP to the Python runtime; event store |
| Conversation cancel, `B/handlers/biwork_conversation_service.rs` | `runs`, `approvals`, `interrupts`, `tool_calls` | `biwork_cancel_conversation` | as above |
| Approvals, `B/handlers/approval_service.rs` | `tool_calls`, `approvals`, `interrupts` | `tool_call_authorize`, `decide_approval`, failure of a resume | called by workers and users; calls the runtime |
| Python runtime, `A/api`, `A/workers`, `A/runtime` | broker queue; in Redis the cancel flag, the active task, a resume lease per approval; LangGraph checkpoints | dispatch, resume, cancel, the two Celery tasks | control plane by HTTP |
| Tool wrapper, `A/tools/wrapper.py` | none of its own | authorize, interrupt, execute, report | control plane, LangGraph |
| Workflow scheduler, `B/handlers/workflow_scheduler.rs` | `workflow_runs`, `workflow_node_runs`, dependencies | create, tick, cancel | creates runs; ticked by ingestion |
| Agent teams, `B/handlers/agent_team_service.rs` | `agent_team_runs`, members | start, cancel, state events of members | creates runs |
| Local runtime queue, `B/local_runtime_queue.rs`, `B/handlers/local_exec_service.rs` | `local_exec_requests`, `local_exec_events` | enqueue, claim, complete, wait, expire, ask for a permission, ingest the events of a desktop run | tool handlers, runs, approvals, desktop workers |
| Desktop workers, `F/agent/acp`, `F/gateway`, `F/browser` | the request each poll loop works on | poll, execute, post events, complete | the queue by HTTP; the agent's process |
| File store and locks, `B/file_store.rs`, `B/file_lock.rs`, `B/rustfs.rs` | `file_revisions`, `file_locks`, objects of a versioned bucket | read, write, edit, save, lock, unlock, expiry | object storage; called by the renderer, by runs and by API clients |
| Audit, `B/audit*.rs` | hash chain, archives | append, seal, archive | background workers |
| Cron, `B/handlers/biwork_cron_service.rs` | jobs and their runs | run, resume after a restart | creates runs |
| Memory, credentials, MCP, catalogues, identity, conversations | tables of their own | CRUD, small job queues, HTTP clients | |
| Frontend | | a subscriber of the streams; hosts the desktop workers | |

What is hard here: handlers are concurrent transactions under READ COMMITTED;
what follows a commit (publication, an HTTP call) is not atomic with it; tasks
are delivered at least once; an approval crosses four processes; a cancel races
with all of them; several statements write `runs.status`, and only some of
them look at it first. `PROJECT.json` lists these hazards line by line.

What makes the parts correct, in a sentence each: the log of a conversation is
contiguous, idempotent and append-only; every committed event is published;
every client gets the log in order and exactly once; an outcome of a run is
announced and final; a tool that needs review runs once per approval and never
without one; after a cancel was answered no worker passes its last check before a tool;
nothing that was approved is forgotten; a node of a workflow starts after the nodes it depends
on, and the workflow ends with the status its nodes say; the answer of a
waiting handler is final, and a desktop request ends the way its run did; no
write of a file is lost, and a lock outlives the writes it covers.

## 2. Modules

### EventStore (`B/event_store.rs`, the schema in `migrations/`)

One process per handler call. `Begin`, `FindExisting`, `AppendEvent`, `Commit`
are the statements of `insert_event_tx` and its caller's transaction;
`Rollback` is a statement that fails, `Crash` the death of the server.
`runEvents`, `nextSeq`, `pending` are the committed tables, `draft`, `heldSeq`,
`draftOutbox` what a transaction has written and not committed, `seqLock` the
row lock of `conversation_event_sequences`, `lastOffset` the identity sequence,
which no rollback takes back. `AppendEvent` is one action for the upsert and
the INSERTs that follow it, because the row lock is held between them. The
payload of an event is abstracted away, its idempotency key is `EventId`.

### EventOutbox

Extends the store with publication. A handler collects the rows it inserted
and publishes them after its commit (`queue`), the worker reads due rows
(`SelectBatch`), and both publish and mark in two steps, so both can publish
one row. Redis may go away between any two steps, and in the middle of a
publication. `deferred` stands for `next_attempt_at` in the future.

### EventLog and ConversationStream

`EventLog` is the promise: one append-only log without repetitions per
conversation, and readers that receive a growing prefix. `ConversationStream`
is the code: connections with a cursor, a page limit, Redis wake-ups, backfill
and polling, the session check, reconnection from the last event the client
processed. `Log` instantiates `EventLog` with the log read off `runEvents` and
`clientSeq`; `ImplementsEventLog` is the refinement.

### GlobalStream

The renderer's `/ws`: a cursor over `stream_offset` for all conversations of a
user, starting at the largest committed offset of all users (`start`). There is
no replay: `NothingSkipped` speaks of the events with an offset above `start`,
among them all that are inserted after the connection opened. An event that
drew its offset before and commits after is below the start when a foreign
conversation has committed a larger offset meanwhile, and is never sent; the
property leaves it out, with one conversation of the user as with many.

### RunLifecycle

One run. `status` and `log` are the row of `runs` and its outcome events,
`gate` the rows a review creates (approval and tool call), `dispatchPc`,
`cancelPc`, `decidePc` where the three handlers of the control plane are
between a commit and the HTTP call that follows it. `queue`, `active`, `flag`
and `lease` are broker and Redis, `worker` what each Celery process is doing.
`toRun` is what the checkpoint of the thread holds: the tool node that a resume
repeats. When `interrupt()` is called in a repeated node it returns the value
of the resume; otherwise the graph parks. LangGraph and Celery are not in the
repository and are modelled as the code uses them.

A transaction of the control plane is one action, since its first UPDATE locks
the run (or the approval) and nothing else it reads matters here. What it does
after the commit is another action; a step of a worker between two calls to the
outside is one action. The last cancel check before a tool (`LastCheck`) and the
call of that tool (`ExecuteTool`) are two actions: a cancel can come between
them. The other checks guard a report or a step inside the worker, whose effect
does not read the flag, so a step whose check came before the flag can be placed
before the flag as a whole.

The runtime's `cancel_run` is the flag (`MarkCancelled`), then the order to
terminate the active task and the answer (`Propagate`). The order is a message
to Celery (`revoked`): `Terminate` is its arrival at a worker, at any time after
the answer or never, and leaves the task dropped or redelivered.

Faults are actions of their own and share the budget `MaxFaults`: a dispatch,
resume or propagation call that fails (perhaps after it was accepted, and the
runtime goes on with it), a flag that is not set because Redis fails
(`MarkFails`), the failure of memory injection, a crash of the control plane, a lost worker, a
second delivery, a report that does not get through.

`OneRunPerApproval` and `OnlyApprovedRuns` speak of runs nobody cancels. While
the cancel of a conversation is between its commit and its call of the runtime
a worker can still be executing the tool of an approval that the cancel has
just closed. `CancelStopsTools` is the property for cancelled runs: once a cancel
was answered no worker passes the last check, and of a tool that was checked
before the flag one call at most is still to start. The bound of one does not
hold if the cancel of the conversation took back an approved call (`takenBack`):
a worker that then asks for the same tool opens a second approval, which does not
stop it, and whose resume is a second worker.

### WorkflowDag and WorkflowScheduler

`WorkflowDag` is the promise: a node starts after the nodes it depends on
completed, no more nodes are active than the plan allows, and a node that ended
well stays so. `WorkflowScheduler` is the code: `Create` validates the plan
(`ValidPlan` is the visit of `workflow_plan.rs`, as a recursive function) and
commits the nodes. A tick of the scheduler is three actions, because Postgres
runs under READ COMMITTED and each statement sees what was committed before it:
`TickSweep` are the statements up to the choice of the ready nodes (timeouts
and retries, blocking, readiness), `TickDispatch` creates a run per chosen
node, `TickCommit` computes the status and commits. The row lock of
`workflow_runs` keeps ticks and the commit of a cancel apart, not the events of
runs. Dispatching the created runs follows the commit; runs start, report and
end at any time, also runs of an earlier attempt, and each report may call the
tick. `Run` is a node with an attempt. `CancelSelect` and `CancelCommit` are
the two halves of `cancel_workflow_run`; `FaultStep` are the failures of a
tick, a dispatch, a resume and a crash.

### LocalExec

Work for the user's desktop, in both its kinds. A tool call: `EnqueueTool`,
then `wait_for_result` in its single steps (`WaiterLoads`, `WaiterGivesUp`,
`WaiterCloses` or `WaiterMissesRow`, `WaiterReloads`), since other transactions
commit between them; another call may wait for the same request
(`WaitAgain`). A desktop run: `CreateRun` commits it, `EnqueueRun` enqueues its
request afterwards, and the desktop reports its events. The request of a run
has the run's name, the handler of a tool call that of its request. `Poll` is
`next_local_exec_request`: `mark_expired` and the claim are one action, because
what commits between the two could as well have committed before. A worker
`worker[w]` holds the stage of the work (`start`, `agent`, `finish`, `fail`,
`complete`, `give_up`), what it will report, and whether a post is under way.
A post is served in two steps, `CheckPost` (is the request dispatching?) and
`Ingest` (store the event, move the run), since the check is outside the
transaction. `AfterError` is what an exception does at each stage, taken from
the `try` blocks of the three workers. `Decide`, `CancelRun`,
`CancelConversation` and `ResetConversation` are the handlers that change the
run behind the desktop's back. The late requests of an expiry are any active
ones: the model has no clock.

### FileStore

One file. `revisions` are its rows in `file_revisions`, `lock` its row in
`file_locks`, `objects` the versions in the bucket and `marked` the keys under
a delete marker. A session is a client with one request at a time: `Read`,
`AskWrite` (`file_write`), `AskEdit` (`file_edit`, and `biwork_fs_write`
without a revision), `AskLock`. `write_revision` is `LockFile`, the check
(`CheckRefuses`, `CheckPasses`), `PutObject` and `CommitRevision`; between them
other transactions commit. The check is one action, since the file is locked
and the row is waited for. The requests of locks are one action each, at their
commit. They take another advisory lock than a write does, so only the row of
`file_locks`, which either holds to its end, keeps the two apart (`RowFree`).

`CURRENT_TIMESTAMP` is the beginning of a transaction. A request therefore
carries the lease that had expired when it began (`dead`), and decides
`ExpiredFor` and `LiveFor` by it, while `Expire` may come at any time. A write
that waits in its `SELECT ... FOR UPDATE` for a row that is deleted and
inserted anew sees neither (`missed`).

Faults share `MaxFaults`: a put that fails, perhaps after it stored the object;
a statement that fails; a commit that takes place and reports an error; an
answer that is lost; the death of a handler. A dropped transaction keeps its
locks until `RollBack`. The bucket has versioning, as
`docs/enterprise-agent-platform-architecture.md:860` requires, so the deletion
of a key only adds a marker. Clients send revisions that they have read, or 0.

## 3. Runs

Pass:

| Run | Bounds | What it shows |
|---|---|---|
| `outbox` | 2 transactions, 1 conversation, 2 offsets, batch limit 2, 1 crash, fair worker | the outbox is honest, only committed events reach Redis, every committed event is delivered once Redis stays up |
| `stream` | 2 transactions, 3 offsets, 1 client that chooses SSE or WebSocket at each connection, page limit 1, 1 crash, fair connection | nothing left behind; refinement of EventLog, that is the log once and in order; an open stream catches up, a revoked one ends |
| `global_safety` | 3 transactions, 2 conversations of which the user has 1, 2 ids, 3 offsets, page limit 1, 1 crash | the store: no hole, order of offsets; the renderer's socket: order, and no event above the start of its cursor is passed unsent with one conversation |
| `run_fault_free` | 2 approvals, 4 tools (2 review, 1 allowed, 1 denied), 2 workers, fair handlers and workers | one execution per approval, never stranded, no worker passes the last check before a tool after an answered cancel, completion is final, an approval takes effect |
| `run_faults` | 2 approvals, 1 tool (review), 2 workers, any one fault | resumed once, outcomes announced, changed only by a review |
| `workflow` | 3 nodes; a chain and a join with 2 at a time, a fork with 1, two plans with a cycle; 2 of the nodes are tried twice, one has a backoff and a timeout, one asks for a review; 1 failure | attempts, status, a retry after a reported failure does not overlap with the failed attempt, an ended workflow stays ended, refinement of WorkflowDag (order and limit), every workflow ends |
| `file_store` | a tab and a run of one user, a run of another, 3 requests, 1 failure, fair handlers | no update is lost, one stranger's write at most under a lock, a lock outlives the writes under it, revisions stay readable, every request is answered |
| `local_exec` | 1 tool request with 2 calls that wait for it, 1 desktop run with 1 permission, a poll loop per kind, 1 trouble | answers are final, a request agrees with its run, a run waits only for a pending approval, every request settles |

The bounds are the smallest with the interesting cases. Two transactions are
needed for a race on an event id, a third for one that commits between them;
batches of one and two events that share an id give the rollback of a batch
whose first row was fine; a page limit of 1 makes every fetch partial. Two
approvals let one be reused while the other is open; two workers let a
redelivered task run beside the first delivery. In the outbox the two rows fit
in one batch, so that a batch can be given up after its first row; its LIMIT never
truncates there. Three nodes are the smallest
plan in which a node has two upstreams, or two downstreams, or a downstream of
a downstream; two attempts let the reports of the first one arrive during the
second. In the queue one tool request already has three writers (two waiting
calls and a worker) besides the cancel and the expiry, and requests only meet
in a poll; one run has its events, its completion, its permission and three
cancels. Three requests on a file are a lock, its replacement and a write of a
third party, or two writes and an edit; the three sessions differ in every
comparison the code makes (same user, same run, neither). Identical transactions, workers and approvals are symmetric; runs with
a liveness property use no symmetry. Deadlock is not checked for RunLifecycle
and WorkflowScheduler: a run or workflow that ended has nothing left to do.

Violations, each a disagreement of the code with a text of the repository:

| Run | Property | What happens |
|---|---|---|
| `global_skips` | `NothingSkipped` | two conversations commit in the other order than they drew offsets; the `/ws` cursor passes an event |
| `run_wrong_tool` | `OnlyApprovedRuns` | the redelivered task parks at another tool, whose interrupt the resume answers |
| `workflow_retry` | `RetriesHappen` | a node that failed waits for its backoff, and nothing ticks the workflow when it is over |
| `workflow_cancel` | `CancelReachesRuns` | a tick commits a new run between the selection of the runs to cancel and the commit of the cancel |

### Observed, beside the runs

Streams:

* an event can be stored while a `/ws` is open and never reach it, although the
  user has one conversation: it drew offset 1, a foreign conversation committed
  offset 2, the connection opened with its cursor at 2
  (`B/handlers/biwork_ws_service.rs:552`), and then it committed.

Runs:

* a tool whose last cancel check came before the flag may start after the cancel
  was answered, for the termination of the worker is asynchronous; two may, if
  the cancel of the conversation closed an approved call that was about to be
  used;
* a worker that is lost before the graph parks is enough for a tool to run
  twice for one approval: the redelivered task reuses the approved call and the
  resume of the same approval repeats the tool node. `run_wrong_tool` shows the
  same cause at two tools; with one tool and one fault `OneRunPerApproval` is
  violated.

Workflows:

* the UPDATE of `workflow_runs` in a cancel has no guard on the status;
* a run whose node timed out and is retried is neither failed nor cancelled: the
  `RETURNING` of that UPDATE already gives NULL;
* only the direct downstream nodes of a failed node are blocked, and a failed
  workflow is not ticked again;
* a dispatch failure inside a tick neither retries the node nor ticks the
  workflow, a rejected review leaves its node in `waiting_approval`, and an
  error of memory injection leaves the rest of the created runs queued;
* `workflow.node.queued` of a second attempt has the event id of the first and
  is not stored.

Desktop queue:

* an ACP request that expires leaves its run running: nothing else ends it, and
  the desktop's status poll aborts only on `cancelled`;
* a cancel between the commit of `create_run` and the enqueueing, or a reset of
  the conversation, leaves a request for a cancelled run, which the desktop
  executes;
* when the reply to the final event is lost the worker posts `run.failed` after
  `run.completed`: the status stays, the log has both, and the completion as
  `failed` conflicts until the request expires;
* a handler that waits for a cancelled request polls to its deadline and
  answers `timed_out`.

Files:

* a write that waited for a lock's row while the lock was replaced is committed
  under the new lock, which is another actor's (`OneStranger` allows the one);
* the sessions of one actor share a lock, and the first release removes it for
  all of them;
* a put that fails after it stored the object is not cleaned up, and a cleanup
  leaves its version under the delete marker;
* `biwork_fs_write` without `expected_revision` replaces whatever is there;
* an API client that sends `file_edit` a revision it has not read, and that is
  created between the read and the check, would overwrite that revision.

### Fairness

`WorkerFairness` (outbox): the publisher is a loop on an interval that never
gives up; its UPDATE by primary key, repeated for ever, succeeds at last (the
one strong fairness). `StreamFairness`: the task of a connection runs and its
timers fire, a SELECT that is repeated for ever succeeds at last (`LoopFetch`),
and the client reads what arrives; nothing forces a client to
connect or a handler to store. `RunFairness`: handlers run to their end,
workers take waiting tasks and go on with the one they have; nobody is obliged
to create, to cancel or to decide, and an order to terminate may never arrive. With a fault the liveness properties of the
run fail where the code has no retry: a control plane that dies between
committing an approval and calling the runtime leaves the run waiting, and a
resume whose worker is lost finds its own lease held. An agent may choose to end or to call
another tool for ever; `ApprovalTakesEffect` does not depend on its ending.
`SchedulerFairness`: a tick that began goes on, runs start and end, a backoff
passes; a dispatch and the commit of a cancel, which queue for the row lock of
the workflow, get their turn between ticks (strong fairness). Nobody is obliged
to call the internal tick, and `WorkflowEnds` leaves out what the code gives up:
a review that nobody decides and a workflow after a failure.
`LocalFairness`: some worker of the device goes on, since each stage has a timer
of its own and an exception ends the poll and starts the next; a poll that finds
the active requests late comes again and again (strong fairness), because a
timeout that passed stays passed. One poll loop is enough, it expires the
requests of every kind. A user who closes the desktop for ever is not covered:
only a poll expires requests that nobody waits for.
`HandlerFairness` (files): a handler that can go on does, and one that queues for
an advisory lock or a row gets it at last, since Postgres grants locks in the
order of the requests (strong fairness); the rollback of a dropped transaction
takes place.

## 4. Proofs

For every value of the constants, from the assumptions stated in the modules
(identifiers are distinct, bounds are numbers):

* `EventStoreProofs`: `StoreInvariant` by induction on `StoreInv`. SeqContiguous
  is not inductive: nothing in it says what a transaction has drafted.
  `LockInv` says that only an open transaction holds a row lock, `DraftInv` that
  its drafted rows are exactly the numbers from `nextSeq` to `heldSeq` and that it
  has the lock; so a commit appends without a hole. `OffsetInv` orders the
  offsets of the rows one transaction sees; the lock makes it hold for all.
  `IdInv` keeps ids apart, `DraftOutboxInv` ties outbox rows to events.
  From it follow `StoreTypeCorrect`, `StoreSeqContiguous`,
  `StoreEventIdOnce`, `StoreOffsetFollowsSeq`.
* `EventOutboxProofs`: `OutboxInvariant` adds that a handler's list holds only
  rows it sees, the worker's only committed ones, and that what is in flight is
  in the stream; hence `OutboxHonest` and `OutboxStreamCommitted`. Every step of
  the outbox is a step of the store or leaves its invariant alone.
* `RunLifecycleProofs`: `RunTypeCorrect`; `RunOutcomeAnnounced` and
  `RunOutcomeKept`, for any number of faults, by cases on the actions that write
  the status; `RunResumedOnce` from `LeaseInv`: as long as no failure was
  reported a lease is never given back, so at most one worker is between taking
  a lease and beginning the resume, and it begins it once.
  The others hold as long as no fault has happened (the run `run_fault_free`
  allows none). None of them is inductive, since the code has no token that says
  who acts for a run. `ActorInv` says that there is one nevertheless: until the
  flag of a cancel is set, or the run has its outcome, exactly one of the dispatch, a queued task, an open
  approval, a pending resume and a busy worker has the next step, and after
  the outcome nobody, but in a run cancelled in the database the actor goes on.
  `ApprovedInv` ties an approved call that was not executed to the resume
  or the worker that will execute it, `ToolInv` the stage of a worker to the call
  it works on, and `SpentInv` counts: every execution spent an approval of its
  own. The actor hands these on at each step (`RunHandedOn`), hence
  `RunOncePerApproval`, `RunNeverStranded` and `RunCompletedIsFinal`: the UPDATE of
  the status has no guard, but nobody is left to send it. `RunCancelStopsTools`
  has two halves: the flag is set before the cancel is answered (`FlagInv`), so
  the check refuses whoever comes later; and until the flag one worker is busy at
  most, so one at most has passed the check when it is set (`ClearedInv`).

* `WorkflowSchedulerProofs`: `WorkflowInvariant`. Every action moves a node by
  one of the moves of `NodeMove`, so the invariant is shown per move and not per
  action and node: `ReadyAfterUpstream` (a ready or started node has completed
  upstreams, which never leave `completed`), the sum of attempts, the limit, and
  `TickOwed` (a tick only works on a workflow that has not ended). From it
  `WorkflowOrder`, `WorkflowAttempts`, `WorkflowKeepsLimit`, `WorkflowEndedStays`,
  and `WorkflowImplementsDag`: each step is a step of WorkflowDag or a stutter. The
  run checks order and limit as part of that refinement.
  `WorkflowRuns` adds `RunsInv`, about the runs: they are those of the attempts
  made (`RunsOfAttempts`), a run to be dispatched is in one list and with no worker
  (`ListsApart`), the run that completed a node has no worker that could still
  report (`CompletedRunEnded`), and, until something goes wrong or the workflow is
  cancelled, a task or a place in a list belongs to a live run and a live run to
  an active node (`CalmInv`). Hence `WorkflowCompletedRun` and `WorkflowLiveRuns`.
  A timeout is one of the things that go wrong: `WorkflowLiveRuns` speaks of the
  retries after reported failures, and after a timeout the code and the model let
  the old worker overlap with the new attempt. That its late report does not
  complete the node is `WorkflowCompletedRun`.
  `WorkflowStatusAgrees` follows from the moves: a node that is done stays as it
  is. `WorkflowIsAcyclic` speaks of what a recursive function computes. Instead of
  an induction the proof takes least counterexamples (`LeastNumber`, from the
  well-foundedness of the numbers): the rounds of Kahn's algorithm exist
  (`RoundsExist`), are unique (`RoundsUnique`), and the first one that reaches a
  set of nodes reaches one that waits for none of them (`VisitedIsAcyclic`).
* `LocalExecProofs`: `LocalInvariant`. `WorkerFacts` says what a worker knows at
  each stage, `ResultInv` that the stored result of a request is its status,
  `WaiterInv` that a call which missed the row waits for a request that is over,
  `CreationInv` that a request comes after its run. A step moves a request by
  `RequestMove`, a run by `RunMove` and a waiting call by `WaiterMove`. Hence
  `LocalAnswersFinal` (a settled request has its only move behind it),
  `LocalRequestAgrees` (`RequestEndsWithRun`: who ends the request of a run knows
  how the run ended, and an ended run keeps its outcome) and
  `LocalWaitingHasApproval`.

* `ConversationStreamProofs`: `StreamInvariant` adds to `StoreInv` that the wire of a
  connection holds exactly the numbers after `clientSeq` up to the cursor, also
  after the connection ended, and that the cursor is below `nextSeq`
  (`Delivered`). A page is an interval because the log has no holes
  (`PageIsInterval`), so a fetch extends the wire without one (`FetchMoves`).
  `LogOK` says of `LogOf` what it is entry by entry; with it a commit is an
  `AppendBatch` of EventLog or a stutter, `ClientReceives` is `Receive`, and all
  else stutters. Hence `StreamTypeCorrect`, `StreamLeavesNothingBehind` and the
  refinement, `StreamImplementsEventLog`.

* `GlobalStreamProofs`: `GlobalInvariant` adds to `StoreInv` that no offset is used
  twice, in committed rows or drafts, and `SocketInv`: what was sent is committed
  and rises by offset up to the cursor, which is where it started or at a row of
  the user. `OrderedRows` shows that a page is put in order: the rank of a row
  among finitely many is a bijection. Hence `GlobalTypeCorrect` and, with the
  order of offsets in a conversation, `GlobalConversationOrder` for any number of
  conversations. `GlobalPassesNothing`: a poll sends every committed row that it
  passes, so what `global_skips` shows can only happen to a row that is committed
  later. `GlobalNothingSkipped` has the hypothesis that the user has one
  conversation, as in `global_safety`: while the cursor is at a row of that
  conversation, a row it commits comes after the cursor (`CommittedIsNewer`).
  Without the hypothesis it is false, and it says nothing of rows with an offset
  below the start of the cursor (section 2).

* `FileStoreProofs`: `FileInvariant`, for any sessions, users, runs, requests and
  failures. `HoldInv` says that a session is between the advisory lock and its
  commit exactly when it holds the file, and holds the row when it wrote under a
  lock or deletes one. By it `RevisionInv` keeps the expected revision the latest
  up to the INSERT, hence `FileNothingOverwritten`; and nobody changes a lock
  under a write, hence `FileLockOutlivesWrite`. `OneStranger` is not inductive:
  `StrangerInv` adds that after a stranger's write whoever holds the file has
  permission or removes an expired lock, because the stranger held the file when
  the lock was granted, and who checks later sees the lock. `VersionInv` says
  that what is about to be inserted is in the bucket, hence
  `FileRevisionsReadable`.

Only model-checked: the liveness properties `StoredIsDelivered`,
`OpenStreamCatchesUp`, `RevokedStreamEnds`, `ApprovalTakesEffect`, `WorkflowEnds`,
`RequestSettles` and `RequestsAnswered`, since fairness and ENABLED are out of the
prover's reach. Every invariant and every action property that a run checks, and
both refinements, are theorems. What holds of the fault-free run only up to the
first fault is stated so (`faults = 0`): with one fault TLC finds each of the four
violated.

## 5. Not modelled, and what could follow

Left out of the modelled parts: event payloads and the projection to the
renderer, tenants and authorization of callers, other devices, TTLs in Redis, an
unreachable Redis at a cancel check, the order of locks across tables (a
deadlock that Postgres resolves is a rollback), versions of workflow designs and
the mapping of a node's inputs. The reset and the deletion of a conversation
remove rows of `run_events` without touching the sequence: the properties of
the store and the streams are about conversations that are not reset.
Of the files the search index and its backfill, listing, ranges of contents, the
storage in the row when no bucket is configured, and audit rows are left out.
Catalogues, identity, snapshots, HTTP adapters and the rest of the frontend are
CRUD or I/O.

What could follow: `AgentTeam` (status derived from members by concurrent
transactions); the sealing of the audit chain, cron jobs, the job queues of memory
and credentials; an abstract specification of a run with its approvals, which
RunLifecycle implements up to the first fault.
