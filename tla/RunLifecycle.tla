----------------------------- MODULE RunLifecycle -----------------------------
(***************************************************************************)
(* One run of the Python runtime, from creation to its outcome: the Rust    *)
(* control plane owns the row of runs and decides approvals, Celery carries *)
(* the tasks, workers execute the agent and report by HTTP, Redis holds the *)
(* cancel flag, the active task and one resume lease per approval.          *)
(*                                                                         *)
(* Granularity: a database transaction of the control plane is one action,  *)
(* for the handlers that change the run lock its row; what a handler does   *)
(* after its commit (an HTTP call, another transaction) is another action,  *)
(* and so is each step of a worker between two calls to the outside, but    *)
(* for the last cancel check of a tool and the call of that tool, which are  *)
(* two: a cancel can come between them.                                      *)
(*                                                                         *)
(* Faults (a crash of the control plane, an HTTP call that fails, a worker  *)
(* that is lost, a message delivered again) are actions of their own,       *)
(* bounded together by MaxFaults.                                           *)
(*                                                                         *)
(* Left out: tenants, authorization of the callers, desktop runs, the       *)
(* tables other components keep up to date in the same transactions         *)
(* (workflow nodes, team members, scheduled jobs), events that do not       *)
(* change the run, and TTLs in Redis (24 h for flag and lease).  The agent  *)
(* calls one tool at a time.                                                *)
(***************************************************************************)
EXTENDS Integers, FiniteSets

CONSTANTS
  Approval,   \* bound: the approvals one run can ask for
  Tool,       \* tool calls (name and arguments) the agent can make
  PolicyOf,   \* decision of the authorization service for each of them
  Worker,     \* Celery worker processes
  Execute,    \* the execute_run task; a resume_run task is named by its approval
  None,       \* no task, no tool, no approval
  MaxFaults   \* bound: faults in a behaviour

ASSUME RunAssumption ==
  /\ PolicyOf \in [Tool -> {"allow", "review", "deny"}]
  /\ Execute \notin Approval
  /\ None \notin Approval \cup Tool \cup {Execute}
  /\ MaxFaults \in Nat

Task == Approval \cup {Execute}
Terminal == {"completed", "failed", "cancelled"}
Outcome == {"run.completed", "run.failed", "run.cancelled"}

VARIABLES
  status,     \* runs.status; "none" before the row exists
  log,        \* the outcome events in run_events
  gate,       \* the rows of approvals and tool_calls that a review creates
  dispatchPc, \* create_and_dispatch_conversation_run
  cancelPc,   \* the cancel handler (bound: one at a time)
  answered,   \* history: a cancel of the run has returned
  decidePc,   \* decide_approval, per approval
  queue,      \* tasks waiting in the broker
  active,     \* the task registered as active for the run
  flag,       \* the cancel flag in Redis
  revoked,    \* the tasks Celery was told to terminate
  lease,      \* the resume lease of each approval in Redis
  toRun,      \* the tool node the last checkpoint of the thread has still to run
  worker,     \* what each worker process is doing
  runs,       \* history: executions of each tool that needs review
  bodies,     \* history: how often the resume of an approval was begun
  takenBack,  \* history: approved calls that the cancel of the conversation closed
              \* before they were used
  faults

vars == <<status, log, gate, dispatchPc, cancelPc, answered, decidePc, queue, active,
          flag, revoked, lease, toRun, worker, runs, bodies,
          takenBack, faults>>

dbVars == <<status, log, gate>>
rustVars == <<dispatchPc, cancelPc, answered, decidePc>>
brokerVars == <<queue, active, flag, revoked, lease>>
historyVars == <<runs, bodies, takenBack>>

Idle == [task |-> None, pc |-> "idle", tool |-> None, call |-> None, value |-> FALSE]

Init ==
  /\ status = "none"
  /\ log = {}
  /\ gate = [a \in Approval |-> [status |-> "none", tool |-> None, call |-> "none"]]
  /\ dispatchPc = "idle"
  /\ cancelPc = "idle"
  /\ answered = FALSE
  /\ decidePc = [a \in Approval |-> "idle"]
  /\ queue = {}
  /\ active = None
  /\ flag = FALSE
  /\ revoked = {}
  /\ lease = [a \in Approval |-> "absent"]
  /\ toRun = None
  /\ worker = [w \in Worker |-> Idle]
  /\ runs = [t \in Tool |-> 0]
  /\ bodies = [a \in Approval |-> 0]
  /\ takenBack = {}
  /\ faults = 0

-------------------------------------------------------------------------------
(* Writing the run.                                                          *)

\* Mutation of StatusAfter: the guard on terminal runs is missing.
StatusUnguarded(type) ==
  CASE type = "run.started"         -> "running"
    [] type = "interrupt.requested" -> "waiting_approval"
    [] type = "run.completed"       -> "completed"
    [] type = "run.failed"          -> "failed"
    [] type = "run.cancelled"       -> "cancelled"

\* Mutation of StatusAfter: the status is taken from the name of the event.
StatusFromName(type) == IF status \in Terminal THEN status ELSE type

\* update_run_status_from_event: a terminal run keeps its status.
StatusAfter(type) ==
  IF status \in Terminal THEN status
  ELSE CASE type = "run.started"         -> "running"
         [] type = "interrupt.requested" -> "waiting_approval"
         [] type = "run.completed"       -> "completed"
         [] type = "run.failed"          -> "failed"
         [] type = "run.cancelled"       -> "cancelled"

\* ingest_run_events: the event is stored, whatever becomes of the status.
Report(type) ==
  /\ log' = log \cup ({type} \cap Outcome)
  /\ status' = StatusAfter(type)
  /\ UNCHANGED gate

\* Mutation of MarkFailed: the run fails without an event.
MarkFailedSilently ==
  /\ status' = IF status \in Terminal THEN status ELSE "failed"
  /\ UNCHANGED <<log, gate>>

\* mark_dispatch_failed and mark_approval_resume_failed.
MarkFailed ==
  /\ status' = IF status \in Terminal THEN status ELSE "failed"
  /\ log' = log \cup {"run.failed"}
  /\ UNCHANGED gate

Fault == faults < MaxFaults /\ faults' = faults + 1

-------------------------------------------------------------------------------
(* The control plane.                                                        *)

\* create_and_dispatch_conversation_run up to its commit.
Create ==
  /\ status = "none"
  /\ status' = "queued"
  /\ dispatchPc' = "calling"
  /\ UNCHANGED <<log, gate, cancelPc, answered, decidePc, brokerVars, toRun, worker,
                 historyVars, faults>>

\* dispatch_run: the runtime puts the task on the broker.
DispatchOk ==
  /\ dispatchPc = "calling"
  /\ dispatchPc' = "done"
  /\ queue' = queue \cup {Execute}
  /\ UNCHANGED <<dbVars, cancelPc, answered, decidePc, active, flag, revoked, lease, toRun,
                 worker, historyVars, faults>>

\* The credential is not resolved, or the call fails, perhaps after the runtime
\* accepted it.
DispatchFails ==
  /\ Fault
  /\ dispatchPc = "calling"
  /\ dispatchPc' = "failed"
  /\ queue' \in {queue, queue \cup {Execute}}
  /\ UNCHANGED <<dbVars, cancelPc, answered, decidePc, active, flag, revoked, lease, toRun,
                 worker, historyVars>>

\* inject_memory_context_for_run fails: the handler returns the error, and
\* nothing dispatches the run any more.
DispatchAbandoned ==
  /\ Fault
  /\ dispatchPc = "calling"
  /\ dispatchPc' = "done"
  /\ UNCHANGED <<dbVars, cancelPc, answered, decidePc, brokerVars, toRun, worker,
                 historyVars>>

MarkDispatchFailed ==
  /\ dispatchPc = "failed"
  /\ dispatchPc' = "done"
  /\ MarkFailed
  /\ UNCHANGED <<cancelPc, answered, decidePc, brokerVars, toRun, worker, historyVars,
                 faults>>

\* cancel_run reads the run before it opens its transaction: only a run that
\* has not ended is cancelled.
CancelReads ==
  /\ cancelPc = "idle"
  /\ status \notin Terminal \cup {"none"}
  /\ cancelPc' = "read"
  /\ UNCHANGED <<dbVars, dispatchPc, answered, decidePc, brokerVars, toRun, worker,
                 historyVars, faults>>

\* Its transaction; a run that has ended meanwhile is a conflict.  Pending
\* approvals stay as they are.
CancelRun ==
  /\ cancelPc = "read"
  /\ IF status \in Terminal
     THEN cancelPc' = "idle" /\ UNCHANGED <<status, log>>
     ELSE /\ cancelPc' = "calling"
          /\ status' = "cancelled"
          /\ log' = log \cup {"run.cancelled"}
  /\ UNCHANGED <<gate, dispatchPc, answered, decidePc, brokerVars, toRun, worker,
                 historyVars, faults>>

\* biwork_cancel_conversation: also closes pending approvals and the tool calls
\* that wait, of a run that has ended too.
CancelConversation ==
  /\ cancelPc = "idle"
  /\ status # "none"
  /\ IF status \in Terminal
     THEN UNCHANGED <<cancelPc, status, log, takenBack>>
     ELSE /\ cancelPc' = "calling"
          /\ status' = "cancelled"
          /\ log' = log \cup {"run.cancelled"}
          /\ takenBack' = takenBack \cup {a \in Approval : gate[a].status = "approved"
                                             /\ gate[a].call = "waiting_approval"}
  /\ gate' = [a \in Approval |->
                [gate[a] EXCEPT
                   !.status = IF @ = "pending" THEN "cancelled" ELSE @,
                   !.call = IF @ = "waiting_approval" THEN "cancelled" ELSE @]]
  /\ UNCHANGED <<dispatchPc, answered, decidePc, brokerVars, toRun, worker, runs,
                 bodies, faults>>

\* The handler has called cancel_run of the runtime, which first sets the flag.
MarkCancelled ==
  /\ cancelPc = "calling"
  /\ cancelPc' = "marked"
  /\ flag' = TRUE
  /\ UNCHANGED <<dbVars, dispatchPc, answered, decidePc, queue, active, revoked, lease,
                 toRun, worker, historyVars, faults>>

\* mark_run_cancelled does not reach Redis, and cancel_run goes on.
MarkFails ==
  /\ Fault
  /\ cancelPc = "calling"
  /\ cancelPc' = "marked"
  /\ UNCHANGED <<dbVars, dispatchPc, answered, decidePc, brokerVars, toRun, worker,
                 historyVars>>

\* Then it asks Celery to terminate the active task, clears it and answers.
\* The order to terminate is a message, and nobody waits for what it does.
Propagate ==
  /\ cancelPc = "marked"
  /\ cancelPc' = "idle"
  /\ answered' = TRUE
  /\ revoked' = revoked \cup ({active} \ {None})
  /\ active' = None
  /\ UNCHANGED <<dbVars, dispatchPc, decidePc, queue, flag, lease, toRun, worker,
                 historyVars, faults>>

\* The call fails, and the runtime may go on with what it has begun: the handler
\* logs a warning and answers that the run is cancelled.
PropagateFails ==
  /\ Fault
  /\ cancelPc \in {"calling", "marked"}
  /\ cancelPc' \in {"idle", cancelPc}
  /\ answered' = TRUE
  /\ UNCHANGED <<dbVars, dispatchPc, decidePc, brokerVars, toRun, worker, historyVars>>

\* decide_approval up to its commit.  A rejection fails the run whatever its
\* status; an approval leaves it waiting until the resumed worker reports.
Decide(a, decision) ==
  /\ decidePc[a] = "idle"
  /\ gate[a].status = "pending"
  /\ gate' = [gate EXCEPT ![a].status = decision]
  /\ IF decision = "approved"
     THEN decidePc' = [decidePc EXCEPT ![a] = "resume"] /\ UNCHANGED status
     ELSE status' = "failed" /\ UNCHANGED decidePc
  /\ UNCHANGED <<log, dispatchPc, cancelPc, answered, brokerVars, toRun, worker,
                 historyVars, faults>>

\* Mutation of ResumeOk: the runtime answers and does not queue the task.
ResumeForgotten(a) ==
  /\ decidePc[a] = "resume"
  /\ decidePc' = [decidePc EXCEPT ![a] = "idle"]
  /\ UNCHANGED <<dbVars, dispatchPc, cancelPc, answered, brokerVars, toRun, worker,
                 historyVars, faults>>

\* resume_run: the runtime puts the resume task on the broker.
ResumeOk(a) ==
  /\ decidePc[a] = "resume"
  /\ decidePc' = [decidePc EXCEPT ![a] = "idle"]
  /\ queue' = queue \cup {a}
  /\ UNCHANGED <<dbVars, dispatchPc, cancelPc, answered, active, flag, revoked, lease, toRun,
                 worker, historyVars, faults>>

\* No credential, or the call fails, perhaps after the runtime accepted it.
ResumeFails(a) ==
  /\ Fault
  /\ decidePc[a] = "resume"
  /\ decidePc' = [decidePc EXCEPT ![a] = "failed"]
  /\ queue' \in {queue, queue \cup {a}}
  /\ UNCHANGED <<dbVars, dispatchPc, cancelPc, answered, active, flag, revoked, lease, toRun,
                 worker, historyVars>>

MarkResumeFailed(a) ==
  /\ decidePc[a] = "failed"
  /\ decidePc' = [decidePc EXCEPT ![a] = "idle"]
  /\ MarkFailed
  /\ UNCHANGED <<dispatchPc, cancelPc, answered, brokerVars, toRun, worker,
                 historyVars, faults>>

\* The control plane dies between a commit and what should follow it; nothing
\* takes the interrupted handlers up again, but the runtime may go on with a
\* cancel it was called for.
CrashRust ==
  /\ Fault
  /\ dispatchPc' = IF dispatchPc = "idle" THEN "idle" ELSE "done"
  /\ cancelPc' \in {"idle"} \cup ({cancelPc} \ {"read"})
  /\ decidePc' = [a \in Approval |-> "idle"]
  /\ UNCHANGED <<dbVars, answered, brokerVars, toRun, worker, historyVars>>

-------------------------------------------------------------------------------
(* The workers.                                                              *)

At(w, place) == worker[w].pc = place

Goto(w, place) == worker' = [worker EXCEPT ![w].pc = place]

\* RunCancelled, or a cancel check of the executor: run.cancelled is emitted.
StopCancelled(w) ==
  /\ flag
  /\ Report("run.cancelled")
  /\ Goto(w, "done")
  /\ UNCHANGED <<rustVars, brokerVars, toRun, historyVars, faults>>

\* A worker receives a task and registers it as the active one.
Take(w, t) ==
  /\ At(w, "idle")
  /\ t \in queue
  /\ queue' = queue \ {t}
  /\ active' = t
  /\ worker' = [worker EXCEPT ![w] = [Idle EXCEPT !.task = t, !.pc = "begin"]]
  /\ UNCHANGED <<dbVars, rustVars, flag, revoked, lease, toRun, historyVars, faults>>

\* execute_run_payload: the first cancel check, then run.started.
BeginExecute(w) ==
  /\ At(w, "begin")
  /\ worker[w].task = Execute
  /\ \/ StopCancelled(w)
     \/ /\ ~flag
        /\ Report("run.started")
        /\ Goto(w, "agent")
        /\ UNCHANGED <<rustVars, brokerVars, toRun, historyVars, faults>>

\* Mutation of AcquireLease: a lease that is held is taken over.
TakeOverLease(w) ==
  /\ At(w, "begin")
  /\ worker[w].task # Execute
  /\ lease' = [lease EXCEPT ![worker[w].task] = "running"]
  /\ Goto(w, "leased")
  /\ UNCHANGED <<dbVars, rustVars, queue, active, flag, revoked, toRun, historyVars, faults>>

\* Mutation of AcquireLease: a lease nobody has had counts as held.
LeaseNeverFree(w) ==
  /\ At(w, "begin")
  /\ worker[w].task # Execute
  /\ worker' = [worker EXCEPT ![w] = Idle]
  /\ active' = IF active = worker[w].task THEN None ELSE active
  /\ UNCHANGED <<dbVars, rustVars, queue, flag, revoked, lease, toRun, historyVars, faults>>

\* acquire of ResumeIdempotencyStore; without the lease the task ends at once.
AcquireLease(w) ==
  /\ At(w, "begin")
  /\ worker[w].task # Execute
  /\ LET a == worker[w].task
     IN IF lease[a] \in {"absent", "failed"}
        THEN /\ lease' = [lease EXCEPT ![a] = "running"]
             /\ Goto(w, "leased")
             /\ UNCHANGED active
        ELSE /\ worker' = [worker EXCEPT ![w] = Idle]
             /\ active' = IF active = a THEN None ELSE active
             /\ UNCHANGED lease
  /\ UNCHANGED <<dbVars, rustVars, queue, flag, revoked, toRun, historyVars, faults>>

\* resume_run_payload: the cancel check, run.started, and the graph goes on from
\* the last checkpoint: a tool node it has still to run is repeated, with the
\* decision as the value of its interrupt.
BeginResume(w) ==
  /\ At(w, "leased")
  /\ \/ StopCancelled(w)
     \/ /\ ~flag
        /\ Report("run.started")
        /\ worker' = [worker EXCEPT ![w].pc = "agent", ![w].tool = toRun,
                                      ![w].value = (toRun # None)]
        /\ bodies' = [bodies EXCEPT ![worker[w].task] = @ + 1]
        /\ UNCHANGED <<rustVars, brokerVars, toRun, runs, takenBack, faults>>

\* A cancel check in the stream loop.
StreamCheck(w) ==
  /\ At(w, "agent")
  /\ StopCancelled(w)

\* The agent calls a tool, which the checkpoint now has as its next node; a
\* resumed graph first repeats the call it found there.  PlatformToolWrapper
\* checks the flag before it authorizes.
CallTool(w, t) ==
  /\ At(w, "agent")
  /\ worker[w].value => t = worker[w].tool
  /\ \/ StopCancelled(w)
     \/ /\ ~flag
        /\ worker' = [worker EXCEPT ![w].pc = "authorize", ![w].tool = t]
        /\ toRun' = IF worker[w].value THEN toRun ELSE t
        /\ UNCHANGED <<dbVars, rustVars, brokerVars, historyVars, faults>>

\* Mutation of Reusable: an approved call can be used again.
ReusableForEver(t) ==
  {a \in Approval : gate[a].status = "approved" /\ gate[a].tool = t}

\* What reuse_approved_tool_call finds for tool t.
Reusable(t) ==
  {a \in Approval : gate[a] = [status |-> "approved", tool |-> t,
                               call |-> "waiting_approval"]}

\* reuse_approved_tool_call: an approved call that was not used yet is allowed.
AuthorizeReuse(w) ==
  /\ At(w, "authorize")
  /\ \E a \in Reusable(worker[w].tool) :
       /\ gate' = [gate EXCEPT ![a].call = "authorized"]
       /\ worker' = [worker EXCEPT ![w].pc = "granted", ![w].call = a]
  /\ UNCHANGED <<status, log, rustVars, brokerVars, toRun, historyVars, faults>>

\* tool_call_authorize with the decision allow or deny; ToolDenied is handed to
\* the agent.
AuthorizeOutright(w) ==
  /\ At(w, "authorize")
  /\ Reusable(worker[w].tool) = {}
  /\ \/ /\ PolicyOf[worker[w].tool] = "allow"
        /\ worker' = [worker EXCEPT ![w].pc = "granted", ![w].call = None]
        /\ UNCHANGED toRun
     \/ /\ PolicyOf[worker[w].tool] = "deny"
        /\ worker' = [worker EXCEPT ![w] = [Idle EXCEPT !.task = worker[w].task,
                                                        !.pc = "agent"]]
        /\ toRun' = None
  /\ UNCHANGED <<dbVars, rustVars, brokerVars, historyVars, faults>>

\* tool_call_authorize with the decision review: a tool call, an approval and
\* an interrupt are stored and the run waits, whatever its status was.
AuthorizeReview(w) ==
  /\ At(w, "authorize")
  /\ Reusable(worker[w].tool) = {}
  /\ PolicyOf[worker[w].tool] = "review"
  /\ \E a \in {b \in Approval : gate[b].status = "none"} :
       /\ gate' = [gate EXCEPT ![a] = [status |-> "pending", tool |-> worker[w].tool,
                                       call |-> "waiting_approval"]]
       /\ worker' = [worker EXCEPT ![w].pc = "asked", ![w].call = a]
  /\ status' = "waiting_approval"
  /\ UNCHANGED <<log, rustVars, brokerVars, toRun, historyVars, faults>>

\* interrupt() of LangGraph: in a tool node that a resume repeats it returns the
\* decision of that resume, which is an approval; otherwise the graph parks.
Interrupt(w) ==
  /\ At(w, "asked")
  /\ IF worker[w].value
     THEN worker' = [worker EXCEPT ![w].pc = "granted", ![w].value = FALSE]
     ELSE Goto(w, "parked")
  /\ UNCHANGED <<dbVars, rustVars, brokerVars, toRun, historyVars, faults>>

\* The stream yields the interrupt: interrupt.requested is reported and the
\* task ends.
ReportWaiting(w) ==
  /\ At(w, "parked")
  /\ \/ StopCancelled(w)
     \/ /\ ~flag
        /\ Report("interrupt.requested")
        /\ Goto(w, "done")
        /\ UNCHANGED <<rustVars, brokerVars, toRun, historyVars, faults>>

\* Mutation of LastCheck: the cancel flag is not read again.
NoLastCheck(w) ==
  /\ At(w, "granted")
  /\ Goto(w, "cleared")
  /\ UNCHANGED <<dbVars, rustVars, brokerVars, toRun, historyVars, faults>>

\* _execute_authorized_tool: the last cancel check before the call.
LastCheck(w) ==
  /\ At(w, "granted")
  /\ \/ StopCancelled(w)
     \/ /\ ~flag
        /\ Goto(w, "cleared")
        /\ UNCHANGED <<dbVars, rustVars, brokerVars, toRun, historyVars, faults>>

\* The call itself, whatever happened since the check.
ExecuteTool(w) ==
  /\ At(w, "cleared")
  /\ Goto(w, "executed")
  /\ runs' = IF worker[w].call = None THEN runs
             ELSE [runs EXCEPT ![worker[w].tool] = @ + 1]
  /\ UNCHANGED <<dbVars, rustVars, brokerVars, toRun, bodies, takenBack, faults>>

\* tool.call.completed or tool.call.failed, unless the run was cancelled during
\* the call; apply_tool_call_event_update has no guard.
ReportTool(w) ==
  /\ At(w, "executed")
  /\ \/ StopCancelled(w)
     \/ /\ ~flag
        /\ gate' = IF worker[w].call = None THEN gate
                   ELSE [gate EXCEPT ![worker[w].call].call = "finished"]
        /\ toRun' = None
        /\ worker' = [worker EXCEPT ![w] = [Idle EXCEPT !.task = worker[w].task,
                                                        !.pc = "agent"]]
        /\ UNCHANGED <<status, log, rustVars, brokerVars, historyVars, faults>>

\* The graph ends; a resumed task marks its lease before it reports.
AgentEnds(w) ==
  /\ At(w, "agent")
  /\ ~worker[w].value
  /\ Goto(w, "complete")
  /\ lease' = IF worker[w].task = Execute THEN lease
              ELSE [lease EXCEPT ![worker[w].task] = "completed"]
  /\ UNCHANGED <<dbVars, rustVars, queue, active, flag, revoked, toRun, historyVars, faults>>

ReportCompleted(w) ==
  /\ At(w, "complete")
  /\ Report("run.completed")
  /\ Goto(w, "done")
  /\ UNCHANGED <<rustVars, brokerVars, toRun, historyVars, faults>>

\* The snapshot is invalid, the model or a tool fails, or a call to the
\* control plane is refused: run.failed is reported.
AgentFails(w) ==
  /\ worker[w].pc \in {"agent", "authorize", "executed"}
  /\ Report("run.failed")
  /\ Goto(w, "broken")
  /\ UNCHANGED <<rustVars, brokerVars, toRun, historyVars, faults>>

\* The task ends: a resume marks its lease, the active task is cleared if it is
\* still this one, and the message is acknowledged.
EndTask(w) ==
  /\ worker[w].pc \in {"done", "broken"}
  /\ worker' = [worker EXCEPT ![w] = Idle]
  /\ active' = IF active = worker[w].task THEN None ELSE active
  /\ lease' = IF worker[w].task = Execute THEN lease
              ELSE [lease EXCEPT ![worker[w].task] =
                      IF At(w, "done") THEN "completed" ELSE "failed"]
  /\ UNCHANGED <<dbVars, rustVars, queue, flag, revoked, toRun, historyVars, faults>>

\* The order to terminate reaches a worker that has the task: its process is
\* SIGKILLed, and the message is dropped or comes back.
Terminate(w) ==
  /\ worker[w].task \in revoked
  /\ worker' = [worker EXCEPT ![w] = Idle]
  /\ queue' \in {queue, queue \cup {worker[w].task}}
  /\ UNCHANGED <<dbVars, rustVars, active, flag, revoked, lease, toRun, historyVars, faults>>

\* The worker process dies; task_reject_on_worker_lost and task_acks_late give
\* the message back to the broker.
WorkerLost(w) ==
  /\ Fault
  /\ ~At(w, "idle")
  /\ queue' = queue \cup {worker[w].task}
  /\ worker' = [worker EXCEPT ![w] = Idle]
  /\ UNCHANGED <<dbVars, rustVars, active, flag, revoked, lease, toRun, historyVars>>

\* The task outlives the visibility timeout of the broker, which delivers its
\* message a second time.
DeliveredAgain(w) ==
  /\ Fault
  /\ ~At(w, "idle")
  /\ queue' = queue \cup {worker[w].task}
  /\ UNCHANGED <<dbVars, rustVars, active, flag, revoked, lease, toRun, worker, historyVars>>

\* The control plane cannot be reached for a report, not even for run.failed:
\* the task raises and is acknowledged.
ReportLost(w) ==
  /\ Fault
  /\ ~At(w, "idle")
  /\ worker' = [worker EXCEPT ![w] = Idle]
  /\ active' = IF active = worker[w].task THEN None ELSE active
  /\ UNCHANGED <<dbVars, rustVars, queue, flag, revoked, lease, toRun, historyVars>>

-------------------------------------------------------------------------------
\* What a worker does with the task it has.
WorkerStep(w) ==
  \/ BeginExecute(w)
  \/ AcquireLease(w)
  \/ BeginResume(w)
  \/ StreamCheck(w)
  \/ \E t \in Tool : CallTool(w, t)
  \/ AuthorizeReuse(w)
  \/ AuthorizeOutright(w)
  \/ AuthorizeReview(w)
  \/ Interrupt(w)
  \/ ReportWaiting(w)
  \/ LastCheck(w)
  \/ ExecuteTool(w)
  \/ ReportTool(w)
  \/ AgentEnds(w)
  \/ ReportCompleted(w)
  \/ AgentFails(w)
  \/ EndTask(w)

RustStep ==
  \/ Create
  \/ DispatchOk
  \/ MarkDispatchFailed
  \/ CancelReads
  \/ CancelRun
  \/ CancelConversation
  \/ MarkCancelled
  \/ Propagate
  \/ \E a \in Approval :
       \/ \E decision \in {"approved", "rejected"} : Decide(a, decision)
       \/ ResumeOk(a)
       \/ MarkResumeFailed(a)

FaultStep ==
  \/ DispatchFails
  \/ DispatchAbandoned
  \/ MarkFails
  \/ PropagateFails
  \/ \E a \in Approval : ResumeFails(a)
  \/ CrashRust
  \/ \E w \in Worker : WorkerLost(w) \/ DeliveredAgain(w) \/ ReportLost(w)

Next ==
  \/ RustStep
  \/ \E w \in Worker : WorkerStep(w) \/ Terminate(w) \/ \E t \in Task : Take(w, t)
  \/ FaultStep

Spec == Init /\ [][Next]_vars

\* Handlers run to their end, workers go on with the task they have and take
\* waiting tasks.  Nobody is obliged to create, cancel or decide, and an order to
\* terminate may never arrive.
RunFairness ==
  /\ WF_vars(DispatchOk)
  /\ WF_vars(MarkDispatchFailed)
  /\ WF_vars(CancelRun)
  /\ WF_vars(MarkCancelled)
  /\ WF_vars(Propagate)
  /\ \A a \in Approval : WF_vars(ResumeOk(a)) /\ WF_vars(MarkResumeFailed(a))
  /\ \A w \in Worker :
       /\ WF_vars(\E t \in Task : Take(w, t))
       /\ WF_vars(WorkerStep(w))

FairSpec == Spec /\ RunFairness

-------------------------------------------------------------------------------
RunStatus == Terminal \cup {"none", "queued", "running", "waiting_approval"}

Gate == [status : {"none", "pending", "approved", "rejected", "cancelled"},
         tool   : Tool \cup {None},
         call   : {"none", "waiting_approval", "authorized", "cancelled", "finished"}]

WorkerState ==
  [task  : Task \cup {None},
   pc    : {"idle", "begin", "leased", "agent", "authorize", "asked", "parked", "granted",
            "cleared", "executed", "complete", "done", "broken"},
   tool  : Tool \cup {None},
   call  : Approval \cup {None},
   value : BOOLEAN]

\* Type correctness; a worker has a task exactly when it is not idle.
TypeOK ==
  /\ status \in RunStatus
  /\ log \subseteq Outcome
  /\ gate \in [Approval -> Gate]
  /\ dispatchPc \in {"idle", "calling", "failed", "done"}
  /\ cancelPc \in {"idle", "read", "calling", "marked"}
  /\ answered \in BOOLEAN
  /\ decidePc \in [Approval -> {"idle", "resume", "failed"}]
  /\ queue \subseteq Task
  /\ active \in Task \cup {None}
  /\ flag \in BOOLEAN
  /\ revoked \subseteq Task
  /\ lease \in [Approval -> {"absent", "running", "completed", "failed"}]
  /\ toRun \in Tool \cup {None}
  /\ worker \in [Worker -> WorkerState]
  /\ \A w \in Worker : worker[w].task # None <=> worker[w].pc # "idle"
  /\ runs \in [Tool -> Nat]
  /\ bodies \in [Approval -> Nat]
  /\ takenBack \subseteq Approval
  /\ faults \in Nat

\* The approvals a user has granted for tool t.
Granted(t) == {a \in Approval : gate[a].tool = t /\ gate[a].status = "approved"}

\* In a run that nobody cancels, a tool that needs review is executed at most
\* once for each approval of it: approving once never runs it twice and never
\* runs another tool, over resumes, reuse of the approved call and the
\* repetition of the interrupted node.
OneRunPerApproval ==
  "run.cancelled" \notin log => \A t \in Tool : runs[t] <= Cardinality(Granted(t))

\* In a run that nobody cancels, no tool that needs review has run unless a user
\* approved a call of that tool.
OnlyApprovedRuns ==
  "run.cancelled" \notin log => \A t \in Tool : runs[t] > 0 => Granted(t) # {}

\* The resume of an approval is begun once, however often its message is
\* delivered, unless an earlier one reported that it failed.
ResumedOnce == \A a \in Approval : bodies[a] > 1 => "run.failed" \in log

\* An outcome is one the conversation was told of: every terminal status has
\* its event in the log, but for a run failed by a rejection.
OutcomeIsAnnounced ==
  /\ status = "completed" => "run.completed" \in log
  /\ status = "cancelled" => "run.cancelled" \in log
  /\ status = "failed" => \/ "run.failed" \in log
                          \/ \E a \in Approval : gate[a].status = "rejected"

\* Somebody still has to act on the run.
InProgress ==
  \/ dispatchPc \in {"calling", "failed"}
  \/ cancelPc # "idle"
  \/ queue # {}
  \/ \E w \in Worker : ~At(w, "idle")
  \/ \E a \in Approval : gate[a].status = "pending" \/ decidePc[a] # "idle"

\* A run that has not ended and was not cancelled is never left with nobody to
\* end it: an approval always leads to a resume, a resume to a worker, and a
\* worker to an outcome or to another approval.
NeverStranded ==
  status \notin Terminal \cup {"none"} /\ "run.cancelled" \notin log => InProgress

\* A granted approval takes effect: a worker resumes the run, or the run ends
\* or is cancelled.
ApprovalTakesEffect ==
  \A a \in Approval :
    gate[a].status = "approved"
      ~> (bodies[a] > 0 \/ status \in Terminal \/ "run.cancelled" \in log)

\* Once a cancel of the run has been answered no worker passes the last check
\* before a tool any more.  A tool whose check came before the flag can still
\* start, but only one: no two workers ever stand between check and call, unless
\* the cancel of the conversation took back an approved call on its way.
CancelStopsTools ==
  [][answered =>
       \A w \in Worker :
         /\ worker'[w].pc = "cleared" => At(w, "cleared")
         /\ At(w, "cleared") /\ worker'[w].pc = "executed" /\ takenBack = {} =>
              \A v \in Worker \ {w} : ~At(v, "cleared")]_vars

\* A review that opens, and one that is rejected.
ReviewAsked ==
  /\ status' = "waiting_approval"
  /\ \E a \in Approval : gate[a].status = "none" /\ gate'[a].status = "pending"

ReviewRejected ==
  /\ status' = "failed"
  /\ \E a \in Approval : gate[a].status = "pending" /\ gate'[a].status = "rejected"

\* An outcome is changed only by a new review or by a rejection; no late
\* report, failed dispatch, failed resume or second cancel overwrites it.
OutcomeChangedOnlyByReview ==
  [][(status \in Terminal /\ status' # status) => (ReviewAsked \/ ReviewRejected)]_vars

\* A run that completes, and that nobody cancels, stays completed: no second
\* worker is still working on it, no approval is left that could reopen it.
CompletedIsFinal ==
  [][status = "completed" /\ "run.cancelled" \notin log => status' = "completed"]_vars

-------------------------------------------------------------------------------
\* What makes ResumedOnce inductive: until a failure is reported a lease is
\* never given back, so one worker at most stands between a lease and the
\* resume it is for.
LeaseInv ==
  /\ \A w \in Worker : At(w, "broken") => "run.failed" \in log
  /\ "run.failed" \notin log =>
       /\ \A a \in Approval : /\ lease[a] # "failed"
                              /\ bodies[a] <= 1
                              /\ lease[a] = "absent" => bodies[a] = 0
       /\ \A w \in Worker : At(w, "leased") => /\ worker[w].task \in Approval
                                              /\ lease[worker[w].task] # "absent"
                                              /\ bodies[worker[w].task] = 0
       /\ \A w, v \in Worker :
            At(w, "leased") /\ At(v, "leased") /\ worker[w].task = worker[v].task => w = v
===============================================================================
