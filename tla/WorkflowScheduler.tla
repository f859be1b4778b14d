-------------------------- MODULE WorkflowScheduler --------------------------
(***************************************************************************)
(* One workflow run: the DAG of its nodes, the ticks that move it, the     *)
(* agent runs its nodes are dispatched to, and the reports of these runs.  *)
(*                                                                         *)
(* A transaction of the control plane is one action, except that a tick is *)
(* three: reports of runs do not take the row of workflow_runs that a tick *)
(* locks, so they commit between its statements.  What a tick has written  *)
(* is not shown to others before its commit; here it is, but nobody can    *)
(* use it: its nodes are locked rows and its runs not yet dispatched.      *)
(* cancel_workflow_run is three actions as well, since it reads the        *)
(* workflow and the child runs before it locks anything.  What a handler   *)
(* does after its commit (a tick it owes, the dispatch of a list of runs,  *)
(* a call that propagates a cancel) lives in its memory and is an action   *)
(* of its own.                                                             *)
(*                                                                         *)
(* Run <<n, k>> is the run of attempt k of node n.  Time is abstracted: a  *)
(* started node may be found timed out at any tick, and a backoff that is  *)
(* not zero is over at some later moment.                                  *)
(***************************************************************************)
EXTENDS Naturals, FiniteSets

CONSTANTS
  Node,
  Plans,        \* compiled plans: edges, concurrency_limit (large if there is none)
  MaxAttempts,  \* retry_policy.max_attempts of each node
  Backed,       \* nodes whose retry_policy.backoff_sec is greater than 0
  Timed,        \* nodes with a timeout_sec
  Reviewed,     \* bound: nodes whose agent calls a tool that needs a review
  MaxTroubles   \* bound: failures, timeouts, rejections and single cancels

ASSUMPTION WorkflowAssumption ==
  /\ IsFiniteSet(Node)
  /\ Plans \subseteq [edges : SUBSET (Node \X Node), limit : Nat \ {0}]
  /\ MaxAttempts \in [Node -> 1..10]
  /\ Backed \subseteq Node
  /\ Timed \subseteq Node
  /\ Reviewed \subseteq Node
  /\ MaxTroubles \in Nat

VARIABLES
  plan,         \* compiled_plan of the version; its edges become dependencies
  workflow,     \* workflow_runs.status, "none" before it is created
  status,       \* workflow_node_runs.status
  attempts,     \* workflow_node_runs.attempts
  agentRun,     \* attempt whose run is workflow_node_runs.agent_run_id, 0 if NULL
  due,          \* not_before is NULL or has passed
  runs,         \* runs.status of each run, "none" before it is inserted
  ticking,      \* where the tick is that holds the row of the workflow
  ticksDue,     \* handlers that have committed and are about to tick
  preparing,    \* lists of runs a tick has inserted and not yet prepared
  dispatching,  \* lists of runs a tick is dispatching
  failing,      \* runs whose dispatch failed and that are about to be marked
  worker,       \* what the runtime is doing with each run
  flagged,      \* runs with a cancel flag
  calls,        \* cancels that are to be propagated
  cancelPc,     \* where cancel_workflow_run is
  selected,     \* child_run_ids
  troubles      \* how many troubles there were

nodeVars   == <<status, attempts, agentRun, due>>
tickVars   == <<ticking, ticksDue>>
listVars   == <<preparing, dispatching, failing>>
cancelVars == <<calls, cancelPc, selected>>
vars == <<plan, workflow, nodeVars, runs, tickVars, listVars, worker, flagged,
          cancelVars, troubles>>

Run == {r \in Node \X (1..10) : r[2] <= MaxAttempts[r[1]]}

WorkflowDone == {"completed", "failed", "cancelled"}
NodeActive   == {"queued", "running", "waiting_approval"}
NodeDone     == {"completed", "failed", "cancelled", "blocked"}
NodeStatus   == {"pending", "ready"} \cup NodeActive \cup NodeDone
RunDone      == {"completed", "failed", "cancelled"}
RunLive      == {"queued", "running", "waiting_approval"}
WorkerState  == {"none", "accepted", "working", "parked", "approved", "resumed", "ended"}

Trouble == troubles < MaxTroubles /\ troubles' = troubles + 1

Upstream(n) == {m \in Node : <<m, n>> \in plan.edges}

-----------------------------------------------------------------------------
(* Validation and creation *)

\* Kahn's algorithm, a generation at a time: the nodes whose indegree has
\* reached 0 after the i-th.
Visited(E) ==
  LET visited[i \in Nat] ==
        IF i = 0 THEN {}
        ELSE {n \in Node : \A m \in Node : <<m, n>> \in E => m \in visited[i - 1]}
  IN visited[Cardinality(Node)]

\* Mutation of ValidPlan: only loops of one or two nodes are rejected.
ValidPlanLoops(E) ==
  \A n, m \in Node : ~ (<<n, m>> \in E /\ <<m, n>> \in E)

\* validate: no edge from a node to itself, and every node visited.
ValidPlan(E) ==
  /\ \A n \in Node : <<n, n>> \notin E
  /\ Visited(E) = Node

Init ==
  /\ plan \in Plans
  /\ workflow = "none"
  /\ status = [n \in Node |-> "pending"]
  /\ attempts = [n \in Node |-> 0]
  /\ agentRun = [n \in Node |-> 0]
  /\ due = [n \in Node |-> TRUE]
  /\ runs = [r \in Run |-> "none"]
  /\ ticking = "no" /\ ticksDue = 0
  /\ preparing = {} /\ dispatching = {} /\ failing = {}
  /\ worker = [r \in Run |-> "none"]
  /\ flagged = {}
  /\ calls = {} /\ cancelPc = "idle" /\ selected = {}
  /\ troubles = 0

\* create_workflow_run: the rows of the plan's nodes and edges, and a tick
\* after the commit.
Create ==
  /\ workflow = "none"
  /\ ValidPlan(plan.edges)
  /\ workflow' = "queued"
  /\ ticksDue' = ticksDue + 1
  /\ UNCHANGED <<plan, nodeVars, runs, ticking, listVars, worker, flagged, cancelVars, troubles>>

-----------------------------------------------------------------------------
(* tick_workflow_run *)

\* Nodes that a timeout can end; started_at of such a node is set.
Started == {n \in Timed : status[n] \in {"running", "waiting_approval"}}

\* Mutation of Retried: one attempt too many.
RetriedOnceMore(late) == {n \in late : attempts[n] <= MaxAttempts[n]}

Retried(late) == {n \in late : attempts[n] < MaxAttempts[n]}

AfterTimeout(late) ==
  [n \in Node |-> IF n \notin late THEN status[n]
                  ELSE IF n \in Retried(late) THEN "pending" ELSE "failed"]

DueAfter(late) ==
  [n \in Node |-> IF n \in Retried(late) THEN n \notin Backed ELSE due[n]]

\* Nodes directly below one that failed, by the statuses st.
AfterBlock(st) ==
  [n \in Node |->
     IF st[n] \in {"pending", "ready"}
        /\ \E m \in Upstream(n) : st[m] \in {"failed", "cancelled", "blocked"}
     THEN "blocked" ELSE st[n]]

\* Mutation of AfterReady: one completed upstream node is enough.
AfterReadyAny(st, d) ==
  [n \in Node |->
     IF /\ st[n] = "pending" /\ d[n]
        /\ Upstream(n) = {} \/ \E m \in Upstream(n) : st[m] = "completed"
     THEN "ready" ELSE st[n]]

AfterReady(st, d) ==
  [n \in Node |->
     IF st[n] = "pending" /\ d[n] /\ \A m \in Upstream(n) : st[m] = "completed"
     THEN "ready" ELSE st[n]]

AfterSweep(late) ==
  AfterReady(AfterBlock(AfterTimeout(late)), DueAfter(late))

ReadyNodes(st)  == {n \in Node : st[n] = "ready"}
ActiveNodes(st) == {n \in Node : st[n] \in NodeActive}

\* ready_rows cut to the capacity that remains.  All nodes of a workflow have
\* the same created_at, so which ones remain is open.
Truncated(ready, active) ==
  LET capacity == IF plan.limit > Cardinality(active) THEN plan.limit - Cardinality(active) ELSE 0
  IN IF Cardinality(ready) <= capacity THEN {ready}
     ELSE {go \in SUBSET ready : Cardinality(go) = capacity}

\* Mutation of StatusOf: a workflow none of whose nodes is active is completed.
StatusOfIdle(st) ==
  IF \A n \in Node : st[n] \notin NodeActive THEN "completed" ELSE "running"

\* workflow_status_from_counts; a workflow has nodes.
StatusOf(st) ==
  LET some(S) == \E n \in Node : st[n] \in S
  IN IF ~some(NodeStatus \ {"completed"}) THEN "completed"
     ELSE IF some({"failed", "blocked"}) THEN "failed"
     ELSE IF some({"cancelled"}) THEN "cancelled"
     ELSE "running"

\* agent_run_id of the nodes that timed out, as RETURNING gives it: NULL for
\* those that are retried.
TimedOutRuns(late) == {<<n, agentRun[n]>> : n \in late \ Retried(late)}

\* Mutation of MayTick: a cancelled or failed workflow is ticked again.
MayTickAgain == workflow \notin {"none", "completed"}

\* A workflow that has ended is left alone.
MayTick == workflow \in {"queued", "running"}

\* The first statements of a tick: the row of the workflow is locked, and the
\* nodes late are found timed out.
TickSweep(late) ==
  /\ ticking = "no" /\ ticksDue > 0
  /\ MayTick
  /\ IF late = {} THEN UNCHANGED troubles ELSE Trouble
  /\ ticking' = "swept"
  /\ status' = AfterSweep(late)
  /\ agentRun' = [n \in Node |-> IF n \in Retried(late) THEN 0 ELSE agentRun[n]]
  /\ due' = DueAfter(late)
  /\ runs' = [r \in Run |-> IF r \in TimedOutRuns(late) /\ runs[r] \notin RunDone
                            THEN "failed" ELSE runs[r]]
  /\ UNCHANGED <<plan, workflow, attempts, ticksDue, listVars, worker, flagged, cancelVars>>

\* A run for each of the nodes go.
TickDispatch(go) ==
  LET new == {<<n, attempts[n] + 1>> : n \in go}
  IN /\ ticking = "swept"
     /\ ticking' = "inserted"
     /\ status' = [n \in Node |-> IF n \in go THEN "queued" ELSE status[n]]
     /\ attempts' = [n \in Node |-> IF n \in go THEN attempts[n] + 1 ELSE attempts[n]]
     /\ agentRun' = [n \in Node |-> IF n \in go THEN attempts[n] + 1 ELSE agentRun[n]]
     /\ due' = [n \in Node |-> n \in go \/ due[n]]
     /\ runs' = [r \in Run |-> IF r \in new THEN "queued" ELSE runs[r]]
     /\ preparing' = IF go = {} THEN preparing ELSE preparing \cup {new}
     /\ UNCHANGED <<plan, workflow, ticksDue, dispatching, failing, worker, flagged,
                    cancelVars, troubles>>

\* The status is derived from the nodes as they are now; commit.
TickCommit ==
  /\ ticking = "inserted"
  /\ ticking' = "no"
  /\ workflow' = StatusOf(status)
  /\ ticksDue' = ticksDue - 1
  /\ UNCHANGED <<plan, nodeVars, runs, listVars, worker, flagged, cancelVars, troubles>>

\* The early return: the workflow has ended.
TickNothing ==
  /\ ticking = "no" /\ ticksDue > 0
  /\ ~MayTick
  /\ ticksDue' = ticksDue - 1
  /\ UNCHANGED <<plan, workflow, nodeVars, runs, ticking, listVars, worker, flagged,
                 cancelVars, troubles>>

\* A statement of the tick fails: rollback, as if the tick had never begun, and
\* the handler gives up.
TickFails ==
  /\ ticking = "no" /\ ticksDue > 0
  /\ Trouble
  /\ ticksDue' = ticksDue - 1
  /\ UNCHANGED <<plan, workflow, nodeVars, runs, ticking, listVars, worker, flagged, cancelVars>>

\* internal_workflow_run_tick.  Nothing in the repository calls it.
InternalTick ==
  /\ workflow # "none"
  /\ ticksDue = 0
  /\ ticksDue' = 1
  /\ UNCHANGED <<plan, workflow, nodeVars, runs, ticking, listVars, worker, flagged,
                 cancelVars, troubles>>

\* not_before passes.
BackoffOver(n) ==
  /\ ~due[n]
  /\ due' = [due EXCEPT ![n] = TRUE]
  /\ UNCHANGED <<plan, workflow, status, attempts, agentRun, runs, ticking, ticksDue, listVars,
                 worker, flagged, cancelVars, troubles>>

-----------------------------------------------------------------------------
(* Dispatch, after the commit of a tick *)

\* Memory context and credential for every run of the list, after the commit.
Prepare(list) ==
  /\ ticking # "inserted"
  /\ list \in preparing
  /\ preparing' = preparing \ {list}
  /\ dispatching' = dispatching \cup {list}
  /\ UNCHANGED <<plan, workflow, nodeVars, runs, tickVars, failing, worker, flagged,
                 cancelVars, troubles>>

\* Memory injection fails: the list is given up and nothing is recorded.
PrepareFails(list) ==
  /\ ticking # "inserted"
  /\ list \in preparing
  /\ Trouble
  /\ preparing' = preparing \ {list}
  /\ UNCHANGED <<plan, workflow, nodeVars, runs, tickVars, dispatching, failing, worker,
                 flagged, cancelVars>>

\* The credential of r fails: r will be marked, the rest of the list is given up.
CredentialFails(list, r) ==
  /\ ticking # "inserted"
  /\ list \in preparing
  /\ r \in list
  /\ Trouble
  /\ preparing' = preparing \ {list}
  /\ failing' = failing \cup {r}
  /\ UNCHANGED <<plan, workflow, nodeVars, runs, tickVars, dispatching, worker, flagged,
                 cancelVars>>

\* Mutation of Rest: the loop ends after its first run.
RestNone(list, r) == {}

\* What remains of a list when r has been dispatched.
Rest(list, r) == IF list = {r} THEN {} ELSE {list \ {r}}

\* dispatch_run: the runtime queues the task.
Dispatch(list, r) ==
  /\ list \in dispatching
  /\ r \in list
  /\ dispatching' = (dispatching \ {list}) \cup Rest(list, r)
  /\ worker' = [worker EXCEPT ![r] = "accepted"]
  /\ UNCHANGED <<plan, workflow, nodeVars, runs, tickVars, preparing, failing, flagged,
                 cancelVars, troubles>>

\* dispatch_run fails, before or after the runtime queued the task; the rest
\* of the list is never dispatched.
DispatchFails(list, r, state) ==
  /\ list \in dispatching
  /\ r \in list
  /\ Trouble
  /\ dispatching' = dispatching \ {list}
  /\ failing' = failing \cup {r}
  /\ worker' = [worker EXCEPT ![r] = state]
  /\ UNCHANGED <<plan, workflow, nodeVars, runs, tickVars, preparing, flagged, cancelVars>>

\* Mutation of Current: the node is found by its key and not by its run.
CurrentByKey(r) == status[r[1]] \notin NodeDone

\* Whether r is the run of its node and the node has not ended.
Current(r) == agentRun[r[1]] = r[2] /\ status[r[1]] \notin NodeDone

\* mark_dispatch_failed: run and node fail, without a retry and without a tick.
MarkDispatchFailed(r) ==
  /\ r \in failing
  /\ failing' = failing \ {r}
  /\ runs' = [runs EXCEPT ![r] = IF @ \in RunDone THEN @ ELSE "failed"]
  /\ status' = [status EXCEPT ![r[1]] = IF Current(r) THEN "failed" ELSE @]
  /\ UNCHANGED <<plan, ticking, workflow, attempts, agentRun, due, ticksDue, preparing,
                 dispatching, worker, flagged, cancelVars, troubles>>

-----------------------------------------------------------------------------
(* Reports of the runtime *)

\* Mutation of RunAfter: a failure leaves the run as it was.
RunAfterFailure(was, s) == IF was \in RunDone \/ s = "failed" THEN was ELSE s

\* update_run_status_from_event: an outcome is kept.
RunAfter(was, s) == IF was \in RunDone THEN was ELSE s

\* ingest_run_events of an event that means status s for run r, whose row has
\* status was: the run, then its node, and a tick after the commit if a node
\* has ended.
Ingest(r, was, s) ==
  LET n == r[1]
      retry == s = "failed" /\ attempts[n] < MaxAttempts[n]
  IN /\ runs' = [runs EXCEPT ![r] = RunAfter(was, s)]
     /\ IF Current(r)
        THEN /\ status' = [status EXCEPT ![n] = IF retry THEN "pending" ELSE s]
             /\ agentRun' = [agentRun EXCEPT ![n] = IF retry THEN 0 ELSE @]
             /\ due' = [due EXCEPT ![n] = IF retry THEN n \notin Backed ELSE @]
             /\ ticksDue' = IF s \in RunDone THEN ticksDue + 1 ELSE ticksDue
        ELSE UNCHANGED <<status, agentRun, due, ticksDue>>
     /\ UNCHANGED <<plan, ticking, workflow, attempts, listVars>>

\* A worker takes the task, or the resume task: run.started, or run.cancelled
\* if the flag is set.
Start(r) ==
  /\ worker[r] \in {"accepted", "approved"}
  /\ IF r \in flagged
     THEN worker' = [worker EXCEPT ![r] = "ended"] /\ Ingest(r, runs[r], "cancelled")
     ELSE /\ worker' = [worker EXCEPT ![r] = IF @ = "accepted" THEN "working" ELSE "resumed"]
          /\ Ingest(r, runs[r], "running")
  /\ UNCHANGED <<flagged, cancelVars, troubles>>

\* A tool call that needs a review: tool_call_authorize sets the run to
\* waiting_approval without looking at it, then interrupt.requested is
\* ingested.  Bound: once per run.
Park(r) ==
  /\ worker[r] = "working"
  /\ r[1] \in Reviewed
  /\ r \notin flagged
  /\ worker' = [worker EXCEPT ![r] = "parked"]
  /\ Ingest(r, "waiting_approval", "waiting_approval")
  /\ UNCHANGED <<flagged, cancelVars, troubles>>

\* decide_approval: an approval resumes the run.
Approve(r) ==
  /\ worker[r] = "parked"
  /\ worker' = [worker EXCEPT ![r] = "approved"]
  /\ UNCHANGED <<plan, workflow, nodeVars, runs, tickVars, listVars, flagged, cancelVars,
                 troubles>>

\* decide_approval: a rejection fails the run.  The node is left alone.
Reject(r) ==
  /\ worker[r] = "parked"
  /\ Trouble
  /\ worker' = [worker EXCEPT ![r] = "ended"]
  /\ runs' = [runs EXCEPT ![r] = "failed"]
  /\ UNCHANGED <<plan, workflow, nodeVars, tickVars, listVars, flagged, cancelVars>>

\* mark_approval_resume_failed: the run cannot be resumed.  The node is left
\* alone here too.
ResumeFails(r) ==
  /\ worker[r] = "parked"
  /\ Trouble
  /\ worker' = [worker EXCEPT ![r] = "ended"]
  /\ runs' = [runs EXCEPT ![r] = RunAfter(@, "failed")]
  /\ UNCHANGED <<plan, workflow, nodeVars, tickVars, listVars, flagged, cancelVars>>

\* The agent ends, with an outcome that is reported.
Finish(r, s) ==
  /\ worker[r] \in {"working", "resumed"}
  /\ s = "cancelled" => r \in flagged
  /\ worker' = [worker EXCEPT ![r] = "ended"]
  /\ Ingest(r, runs[r], s)
  /\ UNCHANGED <<flagged, cancelVars, troubles>>

\* The worker is lost, or its report does not get through.
WorkerLost(r) ==
  /\ worker[r] \in {"accepted", "working", "approved", "resumed"}
  /\ Trouble
  /\ worker' = [worker EXCEPT ![r] = "ended"]
  /\ UNCHANGED <<plan, workflow, nodeVars, runs, tickVars, listVars, flagged, cancelVars>>

-----------------------------------------------------------------------------
(* Cancels *)

\* cancel_run of a single run: the node is not told.
CancelRun(r) ==
  /\ runs[r] \in RunLive
  /\ Trouble
  /\ runs' = [runs EXCEPT ![r] = "cancelled"]
  /\ calls' = calls \cup {r}
  /\ UNCHANGED <<plan, workflow, nodeVars, tickVars, listVars, worker, flagged, cancelPc,
                 selected>>

\* cancel_workflow_run reads the workflow; one that has ended is refused.
CancelCheck ==
  /\ cancelPc = "idle"
  /\ workflow \in {"queued", "running"}
  /\ cancelPc' = "checked"
  /\ UNCHANGED <<plan, workflow, nodeVars, runs, tickVars, listVars, worker, flagged,
                 calls, selected, troubles>>

\* It reads the runs of the nodes that have not ended.
CancelSelect ==
  /\ cancelPc = "checked"
  /\ cancelPc' = "selected"
  /\ selected' = {r \in Run : Current(r) /\ runs[r] \notin RunDone}
  /\ UNCHANGED <<plan, workflow, nodeVars, runs, tickVars, listVars, worker, flagged,
                 calls, troubles>>

\* It cancels nodes, these runs and, when no tick has locked it, the workflow,
\* whatever its status is now.
CancelCommit ==
  /\ cancelPc = "selected" /\ ticking = "no"
  /\ cancelPc' = "idle"
  /\ status' = [n \in Node |-> IF status[n] \in NodeDone THEN status[n] ELSE "cancelled"]
  /\ runs' = [r \in Run |->
                IF r \in selected /\ runs[r] \notin RunDone THEN "cancelled" ELSE runs[r]]
  /\ workflow' = "cancelled"
  /\ calls' = calls \cup selected
  /\ selected' = {}
  /\ UNCHANGED <<plan, ticking, attempts, agentRun, due, ticksDue, listVars, worker, flagged,
                 troubles>>

\* The runtime is told: the flag is set, and a worker that executes the task may
\* be killed; the message of a first execution may come back.
Propagate(r, killed, redelivered) ==
  /\ r \in calls
  /\ calls' = calls \ {r}
  /\ flagged' = flagged \cup {r}
  /\ worker' = [worker EXCEPT ![r] =
                  IF ~killed \/ @ \notin {"working", "resumed"} THEN @
                  ELSE IF redelivered /\ @ = "working" THEN "accepted" ELSE "ended"]
  /\ UNCHANGED <<plan, workflow, nodeVars, runs, tickVars, listVars, cancelPc, selected,
                 troubles>>

\* The call fails and is only logged.
PropagateFails(r) ==
  /\ r \in calls
  /\ Trouble
  /\ calls' = calls \ {r}
  /\ UNCHANGED <<plan, workflow, nodeVars, runs, tickVars, listVars, worker, flagged,
                 cancelPc, selected>>

\* The control plane dies with everything its handlers had in memory.  A tick
\* it was in the middle of is rolled back: it never began.
Crash ==
  /\ ticking = "no"
  /\ Trouble
  /\ ticksDue' = 0
  /\ preparing' = {} /\ dispatching' = {} /\ failing' = {}
  /\ calls' = {} /\ cancelPc' = "idle" /\ selected' = {}
  /\ UNCHANGED <<plan, workflow, nodeVars, runs, ticking, worker, flagged>>

-----------------------------------------------------------------------------

TickStep ==
  \/ \E late \in SUBSET Started : TickSweep(late)
  \/ \E go \in Truncated(ReadyNodes(status), ActiveNodes(status)) : TickDispatch(go)
  \/ TickCommit

DispatchStep ==
  \/ \E list \in preparing : Prepare(list)
  \/ \E list \in dispatching, r \in Run : Dispatch(list, r)
  \/ \E r \in Run : MarkDispatchFailed(r)

WorkerStep ==
  \E r \in Run :
     \/ Start(r)
     \/ \E s \in RunDone : Finish(r, s)

CancelStep ==
  \/ CancelCheck
  \/ CancelSelect
  \/ CancelCommit
  \/ \E r \in Run, killed, redelivered \in BOOLEAN : Propagate(r, killed, redelivered)

UserStep ==
  \E r \in Run : Park(r) \/ Approve(r) \/ Reject(r) \/ CancelRun(r)

FaultStep ==
  \/ TickFails
  \/ \E list \in preparing : PrepareFails(list)
  \/ \E list \in preparing, r \in Run : CredentialFails(list, r)
  \/ \E list \in dispatching, r \in Run, state \in {"none", "accepted"} :
        DispatchFails(list, r, state)
  \/ \E r \in Run : ResumeFails(r) \/ WorkerLost(r) \/ PropagateFails(r)
  \/ Crash

Next ==
  \/ Create
  \/ TickStep
  \/ TickNothing
  \/ InternalTick
  \/ \E n \in Node : BackoffOver(n)
  \/ DispatchStep
  \/ WorkerStep
  \/ CancelStep
  \/ UserStep
  \/ FaultStep

Spec == Init /\ [][Next]_vars

\* Handlers run to their end, workers take the tasks of the runtime, and the
\* agent of a run comes to an end.  Nobody is obliged to create, to decide, to
\* cancel, or to call the internal tick.  A cancel and a dispatch get their turn
\* between ticks, which row locks queue for.
SchedulerFairness ==
  /\ WF_vars(TickStep)
  /\ WF_vars(TickNothing)
  /\ SF_vars(DispatchStep)
  /\ \A r \in Run : WF_vars(Start(r)) /\ WF_vars(\E s \in RunDone : Finish(r, s))
  /\ \A n \in Node : WF_vars(BackoffOver(n))
  /\ WF_vars(CancelSelect) /\ SF_vars(CancelCommit)

FairSpec == Spec /\ SchedulerFairness

-----------------------------------------------------------------------------
(* Properties *)

TypeOK ==
  /\ plan \in Plans
  /\ workflow \in {"none", "queued", "running"} \cup WorkflowDone
  /\ status \in [Node -> NodeStatus]
  /\ attempts \in [Node -> 0..10]
  /\ agentRun \in [Node -> 0..10]
  /\ due \in [Node -> BOOLEAN]
  /\ runs \in [Run -> {"none"} \cup RunLive \cup RunDone]
  /\ ticking \in {"no", "swept", "inserted"}
  /\ ticksDue \in Nat
  /\ preparing \in SUBSET SUBSET Run
  /\ dispatching \in SUBSET SUBSET Run
  /\ failing \in SUBSET Run
  /\ worker \in [Run -> WorkerState]
  /\ flagged \in SUBSET Run
  /\ calls \in SUBSET Run
  /\ cancelPc \in {"idle", "checked", "selected"}
  /\ selected \in SUBSET Run
  /\ troubles \in Nat

\* A workflow that was created has no cycle: no set of nodes each of which
\* waits for another of the set (workflow_plan::validate).
CreatedIsAcyclic ==
  workflow # "none" =>
    \A S \in (SUBSET Node) \ {{}} : \E n \in S : Upstream(n) \cap S = {}

\* No more nodes are active than the concurrency limit of the plan, counting
\* queued and waiting ones, whatever was retried in the same tick.
WithinLimit == Cardinality(ActiveNodes(status)) <= plan.limit

\* A node was dispatched only after all its upstream nodes completed, and these
\* stay completed, through retries and cancels.
StartedAfterUpstream ==
  \A n \in Node : attempts[n] > 0 => \A m \in Upstream(n) : status[m] = "completed"

\* A node that waits for a dispatch has an attempt left and no run; one that is
\* active has the run of its last attempt.
AttemptsAddUp ==
  \A n \in Node :
    /\ status[n] \in {"pending", "ready"} => attempts[n] < MaxAttempts[n] /\ agentRun[n] = 0
    /\ status[n] \in NodeActive => attempts[n] > 0 /\ agentRun[n] = attempts[n]

\* The status of the workflow agrees with its nodes when it ends, and still
\* after late reports, late ticks and a cancel that read it before.
StatusAgrees ==
  /\ workflow = "completed" => \A n \in Node : status[n] = "completed"
  /\ workflow = "failed" => \E n \in Node : status[n] \in {"failed", "blocked"}

\* The last run of a completed node has ended, and no later attempt was made.
CompletedNodeHasEndedRun ==
  \A n \in Node :
    status[n] = "completed" =>
      /\ attempts[n] > 0
      /\ runs[<<n, attempts[n]>>] \in RunDone
      /\ \A k \in (attempts[n] + 1)..MaxAttempts[n] : runs[<<n, k>>] = "none"

\* Until something goes wrong or the workflow is cancelled, a run that lives is
\* the run of an active node: an attempt that follows a reported failure does not
\* overlap with the one that failed.  A timeout is something that goes wrong: the
\* attempt after it does overlap with the old worker, whose late report is the
\* concern of CompletedNodeHasEndedRun.
LiveRunsAreCurrent ==
  \/ troubles > 0
  \/ workflow = "cancelled"
  \/ \A r \in Run : runs[r] \in RunLive =>
       agentRun[r[1]] = r[2] /\ status[r[1]] \in NodeActive

\* A workflow that has ended stays so; only a cancel that read it before
\* changes completed or failed, to cancelled.
EndedStaysEnded ==
  [][(workflow \in WorkflowDone) => (workflow' \in {workflow, "cancelled"})]_vars

\* A node that waits for its next attempt.
Retrying(n) == status[n] = "pending" /\ attempts[n] > 0

\* Without troubles a workflow that is created ends, or waits for a decision
\* of a user or for the end of a backoff: no tick is missing, no list is
\* forgotten, no node is skipped, no retry without a backoff is lost.
WorkflowEnds ==
  (workflow # "none") ~>
    \/ workflow \in WorkflowDone
    \/ troubles > 0
    \/ \E r \in Run : worker[r] = "parked"
    \/ \E n \in Backed : Retrying(n)

\* A node that failed and has attempts left is tried again, or its workflow ends.
RetriesHappen ==
  \A n \in Node : Retrying(n) ~> (~Retrying(n) \/ workflow \in WorkflowDone)

\* No run of a cancelled workflow goes on: when its cancel has been answered,
\* every child run that lives is known to the runtime as cancelled.
CancelReachesRuns ==
  workflow = "cancelled" /\ cancelPc = "idle" =>
    \A r \in Run : runs[r] \in RunLive => r \in calls \cup flagged

Phase(n) ==
  IF status[n] \in {"pending", "ready"} THEN "idle"
  ELSE IF status[n] \in NodeActive THEN "active"
  ELSE IF status[n] = "completed" THEN "done" ELSE "dead"

Dag == INSTANCE WorkflowDag WITH phase <- [n \in Node |-> Phase(n)]

\* The scheduler implements WorkflowDag: order, capacity, and ends that last.
ImplementsDag == Dag!Spec
=============================================================================
