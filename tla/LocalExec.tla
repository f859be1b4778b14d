------------------------------- MODULE LocalExec -------------------------------
(***************************************************************************)
(* Work that the control plane hands to the user's desktop through the     *)
(* table local_exec_requests (local_runtime_queue.rs,                      *)
(* local_exec_service.rs).  There are two kinds of request:                *)
(*                                                                         *)
(*   - that of one tool call (mcp_stdio, browser, file IO): a handler      *)
(*     enqueues it and waits for the result (wait_for_result);             *)
(*   - that of a run of a desktop ACP agent: create_run commits the run    *)
(*     and then enqueues it, nobody waits, and the desktop reports the     *)
(*     events of the run itself (acp/worker.ts, acp/runtime.ts).           *)
(*                                                                         *)
(* The workers of one device poll by kind.  An action is one statement or  *)
(* transaction of the control plane or one step of a desktop worker; the   *)
(* two are concurrent, and so are two calls of one worker when it stops    *)
(* waiting for the first.  Left out: other devices and tenants, the        *)
(* payloads, the events that do not change the state of a run, and the     *)
(* order of the queue (SKIP LOCKED may pass the oldest request).           *)
(***************************************************************************)
EXTENDS Naturals

CONSTANTS
  Tool,        \* requests of tool calls
  Run,         \* ACP runs; the request of a run has its name
  Permission,  \* what the agent of a run may ask
  Call,        \* later calls that wait for a tool's request
  Worker,      \* poll loops of the device
  Serves,      \* the kind of request of each worker: "tool" or "acp"
  NoRequest,
  MaxTroubles  \* bound on crashes, lost calls and failed statements

Request == Tool \cup Run

\* Who waits: the handler of a tool call has the name of its request.
Waiter == Tool \cup Call

ASSUME LocalExecAssumption ==
  /\ Tool \cap Run = {}
  /\ NoRequest \notin Request
  /\ Serves \in [Worker -> {"tool", "acp"}]
  /\ MaxTroubles \in Nat

VARIABLES
  run,         \* status of each ACP run
  creating,    \* runs committed by create_run and not enqueued yet
  permission,  \* permission[a][p]: the approval that run a asked; closed is
               \* approved, rejected or cancelled
  request,     \* status of each row of local_exec_requests
  result,      \* types of the local_exec_events of each request
  waiter,      \* waiter[v]: a call of wait_for_result and its answer
  worker,      \* worker[w]: where a poll loop is and the request it works on
  posts,       \* calls of ingest_local_exec_run_events under way
  troubles

vars == <<run, creating, permission, request, result, waiter, worker, posts, troubles>>

RunActive == {"queued", "running", "waiting_approval"}
RunEnded == {"completed", "failed", "cancelled"}
Active == {"queued", "dispatching"}
Results == {"completed", "failed"}

IdleWorker == [pc |-> "idle", on |-> NoRequest, out |-> "", sent |-> FALSE]

Init ==
  /\ run = [a \in Run |-> "absent"]
  /\ creating = {}
  /\ permission = [a \in Run |-> [p \in Permission |-> "absent"]]
  /\ request = [r \in Request |-> "absent"]
  /\ result = [r \in Request |-> {}]
  /\ waiter = [v \in Waiter |-> [pc |-> "idle", on |-> NoRequest, answer |-> ""]]
  /\ worker = [w \in Worker |-> IdleWorker]
  /\ posts = {}
  /\ troubles = 0

Trouble == troubles < MaxTroubles /\ troubles' = troubles + 1

-------------------------------------------------------------------------------
(* The runs of the desktop agent *)

\* create_run commits the run, with its first events.
CreateRun(a) ==
  /\ run[a] = "absent"
  /\ run' = [run EXCEPT ![a] = "queued"]
  /\ creating' = creating \cup {a}
  /\ UNCHANGED <<permission, request, result, waiter, worker, posts, troubles>>

\* Then it enqueues the request, whatever became of the run.
EnqueueRun(a) ==
  /\ a \in creating
  /\ creating' = creating \ {a}
  /\ request' = [request EXCEPT ![a] = "queued"]
  /\ UNCHANGED <<run, permission, result, waiter, worker, posts, troubles>>

\* The insert fails: mark_dispatch_failed.
EnqueueFails(a) ==
  /\ a \in creating
  /\ Trouble
  /\ creating' = creating \ {a}
  /\ run' = [run EXCEPT ![a] = IF @ \in RunEnded THEN @ ELSE "failed"]
  /\ UNCHANGED <<permission, request, result, waiter, worker, posts>>

Cancelled(s) == IF s \in Active THEN "cancelled" ELSE s

\* cancel_run: the run and its request, not its approvals.
CancelRun(a) ==
  /\ run[a] \in RunActive
  /\ run' = [run EXCEPT ![a] = "cancelled"]
  /\ request' = [request EXCEPT ![a] = Cancelled(@)]
  /\ UNCHANGED <<creating, permission, result, waiter, worker, posts, troubles>>

\* The cancel of the conversation: its active runs, its pending approvals and
\* the requests of its cancelled runs, those cancelled before included.
CancelConversation(a) ==
  /\ run[a] # "absent"
  /\ run' = [run EXCEPT ![a] = IF @ \in RunActive THEN "cancelled" ELSE @]
  /\ permission' = [permission EXCEPT ![a] =
                      [p \in Permission |-> IF @[p] = "pending" THEN "closed" ELSE @[p]]]
  /\ request' = IF run'[a] = "cancelled"
                  THEN [request EXCEPT ![a] = Cancelled(@)] ELSE request
  /\ UNCHANGED <<creating, result, waiter, worker, posts, troubles>>

\* The reset of the conversation cancels the run and nothing else.
ResetConversation(a) ==
  /\ run[a] \in RunActive
  /\ run' = [run EXCEPT ![a] = "cancelled"]
  /\ UNCHANGED <<creating, permission, request, result, waiter, worker, posts, troubles>>

\* create_local_exec_permission: the row is locked while it is dispatching; a
\* permission that was asked before is returned as it is.  The call may be
\* served after the agent went on.
AskPermission(w, p) ==
  LET a == worker[w].on IN
  /\ a \in Run
  /\ worker[w].pc \in {"agent", "finish", "complete", "fail"}
  /\ request[a] = "dispatching"
  /\ permission[a][p] = "absent"
  /\ permission' = [permission EXCEPT ![a][p] = "pending"]
  /\ run' = [run EXCEPT ![a] = IF @ \in {"queued", "running"} THEN "waiting_approval" ELSE @]
  /\ UNCHANGED <<creating, request, result, waiter, worker, posts, troubles>>

\* Mutation of Decide: the run is left as it was.
DecideOnly(a, p) ==
  /\ permission[a][p] = "pending"
  /\ permission' = [permission EXCEPT ![a][p] = "closed"]
  /\ UNCHANGED <<run, creating, request, result, waiter, worker, posts, troubles>>

\* decide_approval of a desktop run: approved or rejected, the run goes on.
Decide(a, p) ==
  /\ permission[a][p] = "pending"
  /\ permission' = [permission EXCEPT ![a][p] = "closed"]
  /\ run' = [run EXCEPT ![a] = IF @ = "waiting_approval" THEN "running" ELSE @]
  /\ UNCHANGED <<creating, request, result, waiter, worker, posts, troubles>>

-------------------------------------------------------------------------------
(* The waiting handler *)

Waiting(v, pc) ==
  waiter' = [waiter EXCEPT ![v].pc = pc]

Answer(v, answer) ==
  waiter' = [waiter EXCEPT ![v].pc = "answered", ![v].answer = answer]

\* A handler enqueues the request of its tool call and waits.
EnqueueTool(t) ==
  /\ request[t] = "absent"
  /\ request' = [request EXCEPT ![t] = "queued"]
  /\ waiter' = [waiter EXCEPT ![t].pc = "polling", ![t].on = t]
  /\ UNCHANGED <<run, creating, permission, result, worker, posts, troubles>>

\* The run that made the tool call is cancelled, and with it the request.
CancelTool(t) ==
  /\ request[t] \in Active
  /\ request' = [request EXCEPT ![t] = Cancelled(@)]
  /\ UNCHANGED <<run, creating, permission, result, waiter, worker, posts, troubles>>

\* internal_wait_local_exec_request: another call waits, with its own timeout.
WaitAgain(t, v) ==
  /\ request[t] # "absent"
  /\ waiter[v].pc = "idle"
  /\ waiter' = [waiter EXCEPT ![v].pc = "polling", ![v].on = t]
  /\ UNCHANGED <<run, creating, permission, request, result, worker, posts, troubles>>

\* load_result finds the event of the result.  A cancelled request has none.
WaiterLoads(v) ==
  /\ waiter[v].pc = "polling"
  /\ \E type \in result[waiter[v].on] : Answer(v, type)
  /\ UNCHANGED <<run, creating, permission, request, result, worker, posts, troubles>>

\* It finds none, and the deadline of this call has passed.
WaiterGivesUp(v) ==
  /\ waiter[v].pc = "polling"
  /\ result[waiter[v].on] = {}
  /\ Waiting(v, "closing")
  /\ UNCHANGED <<run, creating, permission, request, result, worker, posts, troubles>>

\* The UPDATE to timed_out ...
WaiterCloses(v) ==
  LET r == waiter[v].on IN
  /\ waiter[v].pc = "closing"
  /\ request[r] \in Active
  /\ request' = [request EXCEPT ![r] = "timed_out"]
  /\ Answer(v, "timed_out")
  /\ UNCHANGED <<run, creating, permission, result, worker, posts, troubles>>

\* ... or it meets no row, and the result is loaded once more.
WaiterMissesRow(v) ==
  /\ waiter[v].pc = "closing"
  /\ request[waiter[v].on] \notin Active
  /\ Waiting(v, "reload")
  /\ UNCHANGED <<run, creating, permission, request, result, worker, posts, troubles>>

\* Mutation of WaiterReloads: it answers without another look.
WaiterTimesOut(v) ==
  /\ waiter[v].pc = "reload"
  /\ Answer(v, "timed_out")
  /\ UNCHANGED <<run, creating, permission, request, result, worker, posts, troubles>>

WaiterReloads(v) ==
  /\ waiter[v].pc = "reload"
  /\ IF result[waiter[v].on] = {}
       THEN Answer(v, "timed_out")
       ELSE \E type \in result[waiter[v].on] : Answer(v, type)
  /\ UNCHANGED <<run, creating, permission, request, result, worker, posts, troubles>>

-------------------------------------------------------------------------------
(* The device polls *)

Becomes(w, x) == worker' = [worker EXCEPT ![w] = x]

\* Mutation of AfterExpiry: only requests that nobody claimed expire.
AfterExpiryOfQueued(late) ==
  [r \in Request |-> IF r \in late /\ request[r] = "queued" THEN "timed_out" ELSE request[r]]

\* mark_expired: the requests of the device, of every kind, whose timeout has
\* passed (created_at + timeout_ms).  The run of a request is left as it is.
AfterExpiry(late) ==
  [r \in Request |-> IF r \in late THEN "timed_out" ELSE request[r]]

ActiveRequests == {r \in Request : request[r] \in Active}

Claimable(w, status) ==
  {r \in IF Serves[w] = "acp" THEN Run ELSE Tool : status[r] = "queued"}

\* next_local_exec_request expires the late requests, any of the active ones as
\* far as the model knows, and claims a queued one of the worker's kind.
Poll(w, late) ==
  /\ worker[w].pc = "idle"
  /\ \/ \E r \in Claimable(w, AfterExpiry(late)) :
          /\ request' = [AfterExpiry(late) EXCEPT ![r] = "dispatching"]
          /\ Becomes(w, [worker[w] EXCEPT !.pc = IF r \in Run THEN "start" ELSE "work", !.on = r])
     \/ /\ Claimable(w, AfterExpiry(late)) = {}
        /\ request' = AfterExpiry(late)
        /\ UNCHANGED worker
  /\ UNCHANGED <<run, creating, permission, result, waiter, posts, troubles>>

-------------------------------------------------------------------------------
(* The desktop works *)

\* What an exception does at each stage.  The ACP worker posts run.failed and
\* completes the request as failed, the MCP worker completes it as failed; an
\* exception on that path only ends the poll.
AfterError(x) ==
  CASE x.pc \in {"start", "agent", "finish"} ->
         [x EXCEPT !.pc = "fail", !.out = "failed", !.sent = FALSE]
    [] x.pc = "complete" ->
         [x EXCEPT !.pc = IF x.on \in Run THEN "fail" ELSE "give_up", !.out = "failed"]
    [] OTHER -> IdleWorker

\* A tool call ends.  The browser worker completes once (give_up), the MCP
\* worker completes a success inside its try block.
ToolEnds(w, out, pc) ==
  /\ worker[w].pc = "work"
  /\ pc = "complete" => out = "completed"
  /\ Becomes(w, [worker[w] EXCEPT !.pc = pc, !.out = out])
  /\ UNCHANGED <<run, creating, permission, request, result, waiter, posts, troubles>>

\* The agent answers the prompt (a refusal counts as failed), or its process
\* or the runtime's timer fails.
AgentStops(w, out) ==
  /\ worker[w].pc = "agent"
  /\ Becomes(w, [worker[w] EXCEPT !.pc = "finish", !.out = out])
  /\ UNCHANGED <<run, creating, permission, request, result, waiter, posts, troubles>>

AgentFails(w) ==
  /\ worker[w].pc \in {"start", "agent", "finish"}
  /\ Becomes(w, AfterError(worker[w]))
  /\ UNCHANGED <<run, creating, permission, request, result, waiter, posts, troubles>>

\* The status poll of the worker sees that the request was cancelled.
Abort(w) ==
  /\ worker[w].pc \in {"start", "agent", "finish"}
  /\ request[worker[w].on] = "cancelled"
  /\ Becomes(w, IdleWorker)
  /\ UNCHANGED <<run, creating, permission, request, result, waiter, posts, troubles>>

\* The state event that an ACP worker posts at its stage.
EventOf(x) == IF x.pc = "start" THEN "started" ELSE x.out

Post(w) ==
  /\ worker[w].pc \in {"start", "finish", "fail"}
  /\ ~worker[w].sent
  /\ posts' = posts \cup {[on |-> worker[w].on, at |-> worker[w].pc,
                         event |-> EventOf(worker[w]), checked |-> FALSE]}
  /\ Becomes(w, [worker[w] EXCEPT !.sent = TRUE])
  /\ UNCHANGED <<run, creating, permission, request, result, waiter, troubles>>

AwaitsReply(x, m) ==
  x.sent /\ x.on = m.on /\ x.pc = m.at

\* The caller of post m, if it still waits, gets an answer or an error.
Replies(m, After(_)) ==
  worker' = [w \in Worker |-> IF AwaitsReply(worker[w], m) THEN After(worker[w]) ELSE worker[w]]

AfterPost(x) ==
  CASE x.pc = "start"  -> [x EXCEPT !.pc = "agent", !.sent = FALSE]
    [] x.pc = "finish" -> [x EXCEPT !.pc = "complete", !.sent = FALSE,
                                    !.out = IF @ = "completed" THEN "completed" ELSE "failed"]
    [] OTHER           -> [x EXCEPT !.pc = "give_up", !.sent = FALSE]

\* ingest_local_exec_run_events looks for a dispatching request, outside the
\* transaction that stores the event.
CheckPost(m) ==
  /\ m \in posts
  /\ ~m.checked
  /\ IF request[m.on] = "dispatching"
       THEN /\ posts' = (posts \ {m}) \cup {[m EXCEPT !.checked = TRUE]}
            /\ UNCHANGED worker
       ELSE /\ posts' = posts \ {m}
            /\ Replies(m, AfterError)
  /\ UNCHANGED <<run, creating, permission, request, result, waiter, troubles>>

\* Mutation of RunAfter: the type of the event becomes the status.
RunAfterAsNamed(s, event) == IF s \in RunEnded THEN s ELSE event

RunAfter(s, event) ==
  IF s \in RunEnded THEN s ELSE IF event = "started" THEN "running" ELSE event

\* ingest_run_events stores the event and moves the run.
Ingest(m) ==
  /\ m \in posts
  /\ m.checked
  /\ posts' = posts \ {m}
  /\ run' = [run EXCEPT ![m.on] = RunAfter(@, m.event)]
  /\ Replies(m, AfterPost)
  /\ UNCHANGED <<creating, permission, request, result, waiter, troubles>>

\* Mutation of MayComplete: the run is not looked at.
MayCompleteAnyRun(r, out) == request[r] \in Active

\* complete_local_exec_request: the row is still active, and the run of an ACP
\* request ended as the completion says.
MayComplete(r, out) ==
  /\ request[r] \in Active
  /\ r \in Run => (run[r] = out \/ (out = "failed" /\ run[r] = "cancelled"))

Store(r, out) ==
  /\ request' = [request EXCEPT ![r] = out]
  /\ result' = [result EXCEPT ![r] = @ \cup {out}]

Complete(w) ==
  LET x == worker[w] IN
  /\ x.pc \in {"complete", "give_up"}
  /\ IF MayComplete(x.on, x.out)
       THEN /\ Store(x.on, x.out)
            /\ Becomes(w, IdleWorker)
       ELSE /\ Becomes(w, AfterError(worker[w]))
            /\ UNCHANGED <<request, result>>
  /\ UNCHANGED <<run, creating, permission, waiter, posts, troubles>>

\* The result of a tool is larger than max_output_bytes: the update is undone.
ResultTooLarge(w) ==
  /\ worker[w].pc \in {"complete", "give_up"}
  /\ worker[w].on \in Tool
  /\ Becomes(w, AfterError(worker[w]))
  /\ UNCHANGED <<run, creating, permission, request, result, waiter, posts, troubles>>

-------------------------------------------------------------------------------
(* Troubles *)

\* The completion is stored and its answer is lost.
CompleteUnanswered(w) ==
  LET x == worker[w] IN
  /\ x.pc \in {"complete", "give_up"}
  /\ Trouble
  /\ MayComplete(x.on, x.out)
  /\ Store(x.on, x.out)
  /\ Becomes(w, AfterError(worker[w]))
  /\ UNCHANGED <<run, creating, permission, waiter, posts>>

\* A post is stored and its answer is lost, or it is not stored.
PostUnanswered(m, stored) ==
  /\ m \in posts
  /\ Trouble
  /\ stored => m.checked
  /\ posts' = posts \ {m}
  /\ run' = IF stored THEN [run EXCEPT ![m.on] = RunAfter(@, m.event)] ELSE run
  /\ Replies(m, AfterError)
  /\ UNCHANGED <<creating, permission, request, result, waiter>>

\* The desktop application stops; its workers start again and know nothing of
\* the request, its calls may still be on their way.
DesktopLost(w) ==
  /\ worker[w].pc # "idle"
  /\ Trouble
  /\ Becomes(w, IdleWorker)
  /\ UNCHANGED <<run, creating, permission, request, result, waiter, posts>>

\* The control plane stops between two of its transactions.
Crash ==
  /\ Trouble
  /\ creating' = {}
  /\ waiter' = [v \in Waiter |->
                  IF waiter[v].pc \in {"idle", "answered"}
                    THEN waiter[v] ELSE [waiter[v] EXCEPT !.pc = "gone"]]
  /\ posts' = {}
  /\ worker' = [w \in Worker |-> IF worker[w].sent THEN AfterError(worker[w]) ELSE worker[w]]
  /\ UNCHANGED <<run, permission, request, result>>

-------------------------------------------------------------------------------
WaiterStep(v) ==
  WaiterLoads(v) \/ WaiterGivesUp(v) \/ WaiterCloses(v) \/ WaiterMissesRow(v) \/ WaiterReloads(v)

WorkerStep(w) ==
  \/ \E late \in SUBSET ActiveRequests : Poll(w, late)
  \/ \E out \in Results : \E pc \in {"complete", "give_up"} : ToolEnds(w, out, pc)
  \/ \E out \in RunEnded : AgentStops(w, out)
  \/ AgentFails(w) \/ Abort(w) \/ Post(w) \/ Complete(w) \/ ResultTooLarge(w)

Next ==
  \/ \E a \in Run : \/ CreateRun(a) \/ EnqueueRun(a) \/ EnqueueFails(a)
                    \/ CancelRun(a) \/ CancelConversation(a) \/ ResetConversation(a)
  \/ \E w \in Worker : \E p \in Permission : AskPermission(w, p)
  \/ \E a \in Run : \E p \in Permission : Decide(a, p)
  \/ \E t \in Tool : EnqueueTool(t) \/ CancelTool(t) \/ \E v \in Call : WaitAgain(t, v)
  \/ \E v \in Waiter : WaiterStep(v)
  \/ \E w \in Worker : WorkerStep(w) \/ CompleteUnanswered(w) \/ DesktopLost(w)
  \/ \E m \in posts : CheckPost(m) \/ Ingest(m)
  \/ \E m \in posts : \E stored \in BOOLEAN : PostUnanswered(m, stored)
  \/ Crash

Spec == Init /\ [][Next]_vars

\* Some poll loop of the device goes on: every stage of a worker is bounded by
\* a timer of its own.  Requests that stay active are late in the end, and then
\* every poll expires them.
LocalFairness ==
  /\ WF_vars(\E w \in Worker : WorkerStep(w))
  /\ SF_vars(\E w \in Worker : Poll(w, ActiveRequests))

FairSpec == Spec /\ LocalFairness

-------------------------------------------------------------------------------
PostState ==
  [on : Run, at : {"start", "finish", "fail"}, event : {"started"} \cup RunEnded,
   checked : BOOLEAN]

WorkerState ==
  [pc   : {"idle", "work", "start", "agent", "finish", "fail", "complete", "give_up"},
   on   : Request \cup {NoRequest},
   out  : {""} \cup RunEnded,
   sent : BOOLEAN]

\* Type correctness.
TypeOK ==
  /\ run \in [Run -> {"absent"} \cup RunActive \cup RunEnded]
  /\ creating \in SUBSET Run
  /\ permission \in [Run -> [Permission -> {"absent", "pending", "closed"}]]
  /\ request \in [Request -> {"absent", "timed_out", "cancelled"} \cup Active \cup Results]
  /\ result \in [Request -> SUBSET Results]
  /\ waiter \in [Waiter -> [pc : {"idle", "polling", "closing", "reload", "answered", "gone"},
                            on : Tool \cup {NoRequest},
                            answer : {"", "timed_out"} \cup Results]]
  /\ worker \in [Worker -> WorkerState]
  /\ posts \in SUBSET PostState
  /\ troubles \in 0 .. MaxTroubles

\* The answer of a waiting handler is final: a request that one handler gave
\* up never gets a result, and all handlers that wait for it answer the same,
\* whatever came between a handler's last look, its UPDATE and its reload.
AnswersAreFinal ==
  \A v \in Waiter : waiter[v].pc = "answered" =>
    LET r == waiter[v].on IN
    /\ request[r] \notin Active
    /\ result[r] = IF waiter[v].answer = "timed_out" THEN {} ELSE {waiter[v].answer}

\* A request that is over agrees with its run for ever: no completion is
\* stored for a run that ended otherwise, although the events of the run, its
\* cancellation and the completion travel on their own.
RequestAgreesWithRun ==
  \A a \in Run :
    /\ request[a] = "completed" => run[a] = "completed"
    /\ request[a] = "failed" => run[a] \in {"failed", "cancelled"}
    /\ request[a] = "cancelled" => run[a] = "cancelled"

\* A run that waits for an approval has one to wait for.
WaitingHasApproval ==
  \A a \in Run : run[a] = "waiting_approval" =>
    \E p \in Permission : permission[a][p] = "pending"

\* Every request is settled in the end, by its waiter, by the device or by the
\* expiry that another poll brings, even when the desktop lost it.
RequestSettles ==
  \A r \in Request : request[r] \in Active ~> request[r] \notin Active
================================================================================
