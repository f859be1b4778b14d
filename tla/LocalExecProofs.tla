---------------------------- MODULE LocalExecProofs ----------------------------
(***************************************************************************)
(* Proofs about LocalExec, for any requests, waiting calls, workers and    *)
(* number of troubles.  The invariant says what a worker knows at each     *)
(* stage, that the result of a request is what its row says, and that a    *)
(* request exists only after its run.                                      *)
(***************************************************************************)
EXTENDS LocalExec, TLAPS

\* What the stage of a worker says of its other fields.
WorkerFacts(x) ==
  /\ x.pc \in {"start", "agent", "finish", "fail"} => x.on \in Run
  /\ x.pc \in {"work", "complete", "give_up"} => x.on \in Request
  /\ x.pc = "finish" => x.out \in RunEnded
  /\ x.pc = "fail" => x.out = "failed"
  /\ x.pc \in {"complete", "give_up"} => x.out \in Results
  /\ x.sent => x.pc \in {"start", "finish", "fail"}

WorkerInv == \A w \in Worker : WorkerFacts(worker[w])

\* A waiting call waits for a request that exists; one that missed the row
\* waits for a request that is over.
WaiterInv ==
  \A v \in Waiter :
    /\ waiter[v].pc \in {"polling", "closing", "reload", "answered"} =>
         /\ waiter[v].on \in Tool
         /\ request[waiter[v].on] # "absent"
    /\ waiter[v].pc = "reload" => request[waiter[v].on] \notin Active

\* The events of a request are those of its row.
ResultInv == \A r \in Request : result[r] = {request[r]} \cap Results

\* A request comes after its run.
CreationInv ==
  \A a \in Run :
    /\ run[a] = "absent" \/ a \in creating => request[a] = "absent"
    /\ a \in creating => run[a] # "absent"

LocalInv ==
  /\ TypeOK
  /\ WorkerInv
  /\ WaiterInv
  /\ ResultInv
  /\ CreationInv
  /\ AnswersAreFinal
  /\ RequestAgreesWithRun
  /\ WaitingHasApproval

\* What one step may do to request r.
RequestMove(r) ==
  \/ request'[r] = request[r] /\ result'[r] = result[r]
  \/ request[r] = "absent" /\ request'[r] = "queued" /\ result'[r] = result[r]
  \/ /\ request[r] \in Active
     /\ request'[r] \in {"dispatching", "timed_out", "cancelled"}
     /\ result'[r] = result[r]
  \/ /\ request[r] \in Active
     /\ request'[r] \in Results
     /\ result'[r] = result[r] \cup {request'[r]}

-----------------------------------------------------------------------------
(* Types *)

LEMMA InitInv ==
  ASSUME LocalExecAssumption, Init
  PROVE  LocalInv
<1>1. TypeOK
  <2>1. IdleWorker \in WorkerState
    BY DEF IdleWorker, WorkerState
  <2>2. worker \in [Worker -> WorkerState] /\ posts \in SUBSET PostState
    BY <2>1 DEF Init
  <2>3. troubles \in 0 .. MaxTroubles
    <3>1. troubles = 0 /\ MaxTroubles \in Nat
      BY DEF Init, LocalExecAssumption
    <3>2. QED
      BY <3>1
  <2>4. permission \in [Run -> [Permission -> {"absent", "pending", "closed"}]]
    BY DEF Init
  <2>5. QED
    BY <2>2, <2>3, <2>4 DEF Init, TypeOK
<1>2. WorkerInv /\ WaiterInv /\ ResultInv /\ CreationInv
  BY DEF Init, WorkerInv, WorkerFacts, IdleWorker, WaiterInv, ResultInv, CreationInv, Results, Request
<1>3. AnswersAreFinal /\ RequestAgreesWithRun /\ WaitingHasApproval
  BY DEF Init, AnswersAreFinal, RequestAgreesWithRun, WaitingHasApproval, Request
<1>4. QED
  BY <1>1, <1>2, <1>3 DEF LocalInv

LEMMA ErrorType ==
  ASSUME NEW x \in WorkerState, WorkerFacts(x)
  PROVE  AfterError(x) \in WorkerState /\ WorkerFacts(AfterError(x)) /\ ~AfterError(x).sent
<1>1. CASE x.pc \in {"start", "agent", "finish"}
  BY <1>1 DEF AfterError, WorkerState, WorkerFacts, RunEnded, Results
<1>2. CASE x.pc = "complete"
  BY <1>2 DEF AfterError, WorkerState, WorkerFacts, RunEnded, Results
<1>3. CASE x.pc \notin {"start", "agent", "finish", "complete"}
  BY <1>3 DEF AfterError, WorkerState, WorkerFacts, IdleWorker
<1>4. QED
  BY <1>1, <1>2, <1>3

LEMMA PostType ==
  ASSUME NEW x \in WorkerState, WorkerFacts(x), x.sent
  PROVE  AfterPost(x) \in WorkerState /\ WorkerFacts(AfterPost(x))
BY DEF AfterPost, WorkerState, WorkerFacts, RunEnded, Results, Request

LEMMA RunType ==
  ASSUME NEW s \in {"absent"} \cup RunActive \cup RunEnded,
         NEW event \in {"started"} \cup RunEnded
  PROVE  /\ RunAfter(s, event) \in RunActive \cup RunEnded
         /\ s \in RunEnded => RunAfter(s, event) = s
         /\ RunAfter(s, event) = "waiting_approval" => FALSE
BY DEF RunAfter, RunActive, RunEnded

LEMMA OneBecomes ==
  ASSUME worker \in [Worker -> WorkerState], WorkerInv,
         NEW w \in Worker, NEW x \in WorkerState, WorkerFacts(x), Becomes(w, x)
  PROVE  worker' \in [Worker -> WorkerState] /\ WorkerInv'
BY DEF Becomes, WorkerInv

LEMMA OneWorkerType ==
  ASSUME worker \in [Worker -> WorkerState], WorkerInv,
         NEW w \in Worker, WorkerStep(w) \/ CompleteUnanswered(w) \/ DesktopLost(w)
  PROVE  worker' \in [Worker -> WorkerState] /\ WorkerInv'
<1>0. worker[w] \in WorkerState /\ WorkerFacts(worker[w])
  BY DEF WorkerInv
<1>i. IdleWorker \in WorkerState /\ WorkerFacts(IdleWorker)
  BY DEF IdleWorker, WorkerState, WorkerFacts
<1>e. AfterError(worker[w]) \in WorkerState /\ WorkerFacts(AfterError(worker[w]))
  BY <1>0, ErrorType
<1>1. CASE \E late \in SUBSET ActiveRequests : Poll(w, late)
  <2>1. CASE UNCHANGED worker
    BY <2>1 DEF WorkerInv
  <2>2. ASSUME NEW r \in Request,
               Becomes(w, [worker[w] EXCEPT !.pc = IF r \in Run THEN "start" ELSE "work", !.on = r]),
               worker[w].pc = "idle"
        PROVE  worker' \in [Worker -> WorkerState] /\ WorkerInv'
    <3> DEFINE x == [worker[w] EXCEPT !.pc = IF r \in Run THEN "start" ELSE "work", !.on = r]
    <3>1. x \in WorkerState /\ WorkerFacts(x)
      BY <1>0, <2>2 DEF WorkerState, WorkerFacts
    <3>2. QED
      BY <2>2, <3>1, OneBecomes
  <2>3. QED
    BY <1>1, <2>1, <2>2 DEF Poll, Claimable, Request
<1>2. ASSUME NEW out \in Results, NEW pc \in {"complete", "give_up"}, ToolEnds(w, out, pc)
      PROVE  worker' \in [Worker -> WorkerState] /\ WorkerInv'
  <2> DEFINE x == [worker[w] EXCEPT !.pc = pc, !.out = out]
  <2>1. x \in WorkerState /\ WorkerFacts(x)
    BY <1>0, <1>2 DEF ToolEnds, WorkerState, WorkerFacts, Results, RunEnded
  <2>2. QED
    BY <1>2, <2>1, OneBecomes DEF ToolEnds
<1>3. ASSUME NEW out \in RunEnded, AgentStops(w, out)
      PROVE  worker' \in [Worker -> WorkerState] /\ WorkerInv'
  <2> DEFINE x == [worker[w] EXCEPT !.pc = "finish", !.out = out]
  <2>1. x \in WorkerState /\ WorkerFacts(x)
    BY <1>0, <1>3 DEF AgentStops, WorkerState, WorkerFacts
  <2>2. QED
    BY <1>3, <2>1, OneBecomes DEF AgentStops
<1>4. CASE AgentFails(w) \/ ResultTooLarge(w) \/ CompleteUnanswered(w)
  BY <1>4, <1>e, OneBecomes DEF AgentFails, ResultTooLarge, CompleteUnanswered
<1>5. CASE Abort(w) \/ DesktopLost(w)
  BY <1>5, <1>i, OneBecomes DEF Abort, DesktopLost
<1>6. CASE Complete(w)
  BY <1>6, <1>i, <1>e, OneBecomes DEF Complete
<1>7. CASE Post(w)
  <2> DEFINE x == [worker[w] EXCEPT !.sent = TRUE]
  <2>1. x \in WorkerState /\ WorkerFacts(x)
    BY <1>0, <1>7 DEF Post, WorkerState, WorkerFacts
  <2>2. QED
    BY <1>7, <2>1, OneBecomes DEF Post
<1>8. QED
  BY <1>1, <1>2, <1>3, <1>4, <1>5, <1>6, <1>7 DEF WorkerStep

PostServed(m) ==
  CheckPost(m) \/ Ingest(m) \/ \E stored \in BOOLEAN : PostUnanswered(m, stored)

LEMMA RepliesType ==
  ASSUME worker \in [Worker -> WorkerState], WorkerInv, NEW m \in posts, PostServed(m)
  PROVE  worker' \in [Worker -> WorkerState] /\ WorkerInv'
<1>0. \A w \in Worker : worker[w] \in WorkerState /\ WorkerFacts(worker[w])
  BY DEF WorkerInv
<1>1. CASE UNCHANGED worker
  BY <1>1 DEF WorkerInv
<1>2. CASE Replies(m, AfterError)
  <2>1. \A w \in Worker : AfterError(worker[w]) \in WorkerState /\ WorkerFacts(AfterError(worker[w]))
    BY <1>0, ErrorType
  <2>2. QED
    BY <1>0, <1>2, <2>1 DEF Replies, WorkerInv
<1>3. CASE Replies(m, AfterPost)
  <2>1. \A w \in Worker : AwaitsReply(worker[w], m) =>
          AfterPost(worker[w]) \in WorkerState /\ WorkerFacts(AfterPost(worker[w]))
    BY <1>0, PostType DEF AwaitsReply
  <2>2. QED
    BY <1>0, <1>3, <2>1 DEF Replies, WorkerInv
<1>4. QED
  BY <1>1, <1>2, <1>3 DEF PostServed, CheckPost, Ingest, PostUnanswered

LEMMA CrashType ==
  ASSUME worker \in [Worker -> WorkerState], WorkerInv, Crash
  PROVE  worker' \in [Worker -> WorkerState] /\ WorkerInv'
<1>1. \A w \in Worker : /\ worker[w] \in WorkerState /\ WorkerFacts(worker[w])
                        /\ AfterError(worker[w]) \in WorkerState
                        /\ WorkerFacts(AfterError(worker[w]))
  BY ErrorType DEF WorkerInv
<1>2. QED
  BY <1>1 DEF Crash, WorkerInv

LEMMA PostsType ==
  ASSUME posts \in SUBSET PostState, worker \in [Worker -> WorkerState], WorkerInv,
         \/ \E w \in Worker : Post(w)
         \/ \E m \in posts : PostServed(m)
         \/ Crash
  PROVE  posts' \in SUBSET PostState
<1>1. ASSUME NEW w \in Worker, Post(w)
      PROVE  posts' \in SUBSET PostState
  <2>1. worker[w] \in WorkerState /\ WorkerFacts(worker[w])
    BY DEF WorkerInv
  <2>2. [on |-> worker[w].on, at |-> worker[w].pc, event |-> EventOf(worker[w]),
         checked |-> FALSE] \in PostState
    BY <1>1, <2>1 DEF Post, EventOf, PostState, WorkerState, WorkerFacts, RunEnded
  <2>3. QED
    BY <1>1, <2>2 DEF Post
<1>2. ASSUME NEW m \in posts, PostServed(m)
      PROVE  posts' \in SUBSET PostState
  <2>1. m \in PostState /\ [m EXCEPT !.checked = TRUE] \in PostState
    BY DEF PostState
  <2>2. QED
    BY <1>2, <2>1 DEF PostServed, CheckPost, Ingest, PostUnanswered
<1>3. QED
  BY <1>1, <1>2 DEF Crash

\* The actions of the control plane that leave the workers and posts alone.
ControlStep ==
  \/ \E a \in Run : \/ CreateRun(a) \/ EnqueueRun(a) \/ EnqueueFails(a)
                    \/ CancelRun(a) \/ CancelConversation(a) \/ ResetConversation(a)
  \/ \E w \in Worker : \E p \in Permission : AskPermission(w, p)
  \/ \E a \in Run : \E p \in Permission : Decide(a, p)
  \/ \E t \in Tool : EnqueueTool(t) \/ CancelTool(t) \/ \E v \in Call : WaitAgain(t, v)
  \/ \E v \in Waiter : WaiterStep(v)

DesktopStep ==
  \E w \in Worker : WorkerStep(w) \/ CompleteUnanswered(w) \/ DesktopLost(w)

LEMMA NextCases ==
  ASSUME Next
  PROVE  ControlStep \/ DesktopStep \/ (\E m \in posts : PostServed(m)) \/ Crash
BY DEF Next, ControlStep, DesktopStep, PostServed

LEMMA ControlLeaves ==
  ASSUME ControlStep
  PROVE  UNCHANGED <<worker, posts, result>>
BY DEF ControlStep, CreateRun, EnqueueRun, EnqueueFails, CancelRun, CancelConversation,
       ResetConversation, AskPermission, Decide, EnqueueTool, CancelTool, WaitAgain,
       WaiterStep, WaiterLoads, WaiterGivesUp, WaiterCloses, WaiterMissesRow, WaiterReloads

LEMMA DesktopLeaves ==
  ASSUME DesktopStep
  PROVE  /\ UNCHANGED <<run, creating, permission, waiter>>
         /\ UNCHANGED posts \/ \E w \in Worker : Post(w)
BY DEF DesktopStep, WorkerStep, Poll, ToolEnds, AgentStops, AgentFails, Abort, Post, Complete,
       ResultTooLarge, CompleteUnanswered, DesktopLost

LEMMA PostLeaves ==
  ASSUME NEW m \in posts, PostServed(m)
  PROVE  UNCHANGED <<creating, permission, request, result, waiter>>
BY DEF PostServed, CheckPost, Ingest, PostUnanswered

-----------------------------------------------------------------------------
(* One request *)

LEMMA EveryRequestMoves ==
  ASSUME LocalExecAssumption, TypeOK, WorkerInv, CreationInv, Next, NEW r \in Request
  PROVE  RequestMove(r)
<1>0. /\ request \in [Request -> {"absent", "timed_out", "cancelled"} \cup Active \cup Results]
      /\ result \in [Request -> SUBSET Results]
      /\ \A w \in Worker : worker[w] \in WorkerState /\ WorkerFacts(worker[w])
      /\ creating \in SUBSET Run
  BY DEF TypeOK, WorkerInv
<1>1. CASE ControlStep
  <2>1. result'[r] = result[r]
    BY <1>1, ControlLeaves
  <2>2. CASE UNCHANGED request
    BY <2>1, <2>2 DEF RequestMove
  <2>3. ASSUME NEW a \in Run, EnqueueRun(a)
        PROVE  RequestMove(r)
    BY <1>0, <2>1, <2>3 DEF EnqueueRun, CreationInv, RequestMove, Request
  <2>4. ASSUME NEW t \in Tool, EnqueueTool(t)
        PROVE  RequestMove(r)
    BY <1>0, <2>1, <2>4 DEF EnqueueTool, RequestMove, Request
  <2>5. ASSUME NEW s \in Request, request' = [request EXCEPT ![s] = Cancelled(@)]
        PROVE  RequestMove(r)
    BY <1>0, <2>1, <2>5 DEF Cancelled, RequestMove
  <2>6. ASSUME NEW v \in Waiter, WaiterStep(v), request' # request
        PROVE  RequestMove(r)
    BY <1>0, <2>1, <2>6 DEF WaiterStep, WaiterLoads, WaiterGivesUp, WaiterCloses,
       WaiterMissesRow, WaiterReloads, RequestMove
  <2>7. QED
    BY <1>1, <2>2, <2>3, <2>4, <2>5, <2>6 DEF ControlStep, CreateRun, EnqueueFails, CancelRun,
       CancelConversation, ResetConversation, AskPermission, Decide, CancelTool, WaitAgain, Request
<1>2. ASSUME NEW w \in Worker, WorkerStep(w) \/ CompleteUnanswered(w) \/ DesktopLost(w)
      PROVE  RequestMove(r)
  <2>1. CASE UNCHANGED <<request, result>>
    BY <2>1 DEF RequestMove
  <2>2. ASSUME NEW late \in SUBSET ActiveRequests, Poll(w, late)
        PROVE  RequestMove(r)
    <3>1. \A s \in Request : AfterExpiry(late)[s] # request[s] =>
            request[s] \in Active /\ AfterExpiry(late)[s] = "timed_out"
      BY <2>2 DEF AfterExpiry, ActiveRequests
    <3>2. AfterExpiry(late) \in [Request -> {AfterExpiry(late)[s] : s \in Request}]
      BY DEF AfterExpiry
    <3>3. result' = result
      BY <2>2 DEF Poll
    <3>4. CASE request' = AfterExpiry(late)
      BY <3>1, <3>3, <3>4 DEF RequestMove
    <3>5. ASSUME NEW s \in Claimable(w, AfterExpiry(late)),
                 request' = [AfterExpiry(late) EXCEPT ![s] = "dispatching"]
          PROVE  RequestMove(r)
      BY <3>1, <3>2, <3>3, <3>5 DEF RequestMove, Claimable, Active, Request
    <3>6. QED
      BY <2>2, <3>4, <3>5 DEF Poll
  <2>3. CASE Complete(w) \/ CompleteUnanswered(w)
    <3>1. CASE UNCHANGED <<request, result>>
      BY <2>1, <3>1
    <3>2. CASE /\ worker[w].pc \in {"complete", "give_up"}
               /\ MayComplete(worker[w].on, worker[w].out)
               /\ Store(worker[w].on, worker[w].out)
      <4>1. worker[w].on \in Request /\ worker[w].out \in Results
        BY <1>0, <3>2 DEF WorkerFacts
      <4>2. QED
        BY <1>0, <3>2, <4>1 DEF MayComplete, Store, RequestMove
    <3>3. QED
      BY <2>3, <3>1, <3>2 DEF Complete, CompleteUnanswered
  <2>4. QED
    BY <1>2, <2>1, <2>2, <2>3 DEF WorkerStep, ToolEnds, AgentStops, AgentFails, Abort, Post,
       ResultTooLarge, DesktopLost
<1>3. CASE (\E m \in posts : PostServed(m)) \/ Crash
  BY <1>3, PostLeaves DEF Crash, RequestMove
<1>4. QED
  BY <1>1, <1>2, <1>3, NextCases DEF DesktopStep

-----------------------------------------------------------------------------
(* One run *)

\* A run that ended keeps its outcome, and only create_run makes a run.
RunMove(a) ==
  /\ run'[a] \in {"absent"} \cup RunActive \cup RunEnded
  /\ run[a] \in RunEnded => run'[a] = run[a]
  /\ run'[a] = "absent" => run[a] = "absent"

LEMMA EveryRunMoves ==
  ASSUME TypeOK, Next, NEW a \in Run
  PROVE  RunMove(a)
<1>0. run \in [Run -> {"absent"} \cup RunActive \cup RunEnded] /\ posts \in SUBSET PostState
  BY DEF TypeOK
<1>1. CASE UNCHANGED run
  BY <1>0, <1>1 DEF RunMove
<1>2. ASSUME NEW b \in Run, \/ CreateRun(b) \/ EnqueueFails(b) \/ CancelRun(b)
                           \/ CancelConversation(b) \/ ResetConversation(b)
      PROVE  RunMove(a)
  BY <1>0, <1>2 DEF CreateRun, EnqueueFails, CancelRun, CancelConversation, ResetConversation,
     RunMove, RunActive, RunEnded
<1>3. ASSUME NEW w \in Worker, NEW p \in Permission, AskPermission(w, p)
      PROVE  RunMove(a)
  BY <1>0, <1>3 DEF AskPermission, RunMove, RunActive, RunEnded
<1>4. ASSUME NEW b \in Run, NEW p \in Permission, Decide(b, p)
      PROVE  RunMove(a)
  BY <1>0, <1>4 DEF Decide, RunMove, RunActive, RunEnded
<1>5. ASSUME NEW m \in posts, PostServed(m)
      PROVE  RunMove(a)
  <2>1. m.on \in Run /\ m.event \in {"started"} \cup RunEnded
    BY <1>0 DEF PostState
  <2>2. CASE UNCHANGED run
    BY <1>1, <2>2
  <2>3. CASE run' = [run EXCEPT ![m.on] = RunAfter(@, m.event)]
    <3>1. RunAfter(run[m.on], m.event) \in RunActive \cup RunEnded
      BY <1>0, <2>1, RunType
    <3>2. run[m.on] \in RunEnded => RunAfter(run[m.on], m.event) = run[m.on]
      BY DEF RunAfter
    <3>3. QED
      BY <1>0, <2>1, <2>3, <3>1, <3>2 DEF RunMove, RunActive, RunEnded
  <2>4. QED
    BY <1>5, <2>2, <2>3 DEF PostServed, CheckPost, Ingest, PostUnanswered
<1>6. ControlStep => \/ UNCHANGED run
                     \/ \E b \in Run : \/ CreateRun(b) \/ EnqueueFails(b) \/ CancelRun(b)
                                       \/ CancelConversation(b) \/ ResetConversation(b)
                     \/ \E w \in Worker : \E p \in Permission : AskPermission(w, p)
                     \/ \E b \in Run : \E p \in Permission : Decide(b, p)
  BY DEF ControlStep, EnqueueRun, EnqueueTool, CancelTool, WaitAgain, WaiterStep, WaiterLoads,
     WaiterGivesUp, WaiterCloses, WaiterMissesRow, WaiterReloads
<1>7. DesktopStep \/ Crash => UNCHANGED run
  BY DesktopLeaves DEF Crash
<1>8. QED
  BY <1>1, <1>2, <1>3, <1>4, <1>5, <1>6, <1>7, NextCases

\* Who ends the request of a run knows how the run ended.
LEMMA RequestEndsWithRun ==
  ASSUME LocalExecAssumption, TypeOK, WorkerInv, Next, NEW a \in Run,
         request'[a] # request[a]
  PROVE  /\ request'[a] = "completed" => run'[a] = "completed"
         /\ request'[a] = "failed" => run'[a] \in {"failed", "cancelled"}
         /\ request'[a] = "cancelled" => run'[a] = "cancelled"
<1>0. /\ request \in [Request -> {"absent", "timed_out", "cancelled"} \cup Active \cup Results]
      /\ run \in [Run -> {"absent"} \cup RunActive \cup RunEnded]
      /\ \A w \in Worker : worker[w] \in WorkerState /\ WorkerFacts(worker[w])
      /\ a \in Request
  BY DEF TypeOK, WorkerInv, Request
<1> DEFINE Agrees == /\ request'[a] = "completed" => run'[a] = "completed"
                     /\ request'[a] = "failed" => run'[a] \in {"failed", "cancelled"}
                     /\ request'[a] = "cancelled" => run'[a] = "cancelled"
<1>1. ASSUME ControlStep PROVE Agrees
  <2>1. ASSUME NEW b \in Run, EnqueueRun(b)
        PROVE  Agrees
    BY <1>0, <2>1 DEF EnqueueRun
  <2>2. ASSUME NEW b \in Run, CancelRun(b)
        PROVE  Agrees
    BY <1>0, <2>2 DEF CancelRun, Cancelled
  <2>3. ASSUME NEW b \in Run, CancelConversation(b)
        PROVE  Agrees
    <3>1. b = a /\ run'[a] = "cancelled"
      BY <1>0, <2>3 DEF CancelConversation
    <3>2. request'[a] = "cancelled"
      BY <1>0, <2>3, <3>1 DEF CancelConversation, Cancelled
    <3>3. QED
      BY <3>1, <3>2
  <2>4. ASSUME NEW t \in Tool, EnqueueTool(t) \/ CancelTool(t)
        PROVE  Agrees
    BY <1>0, <2>4 DEF EnqueueTool, CancelTool, LocalExecAssumption
  <2>5. ASSUME NEW v \in Waiter, WaiterStep(v)
        PROVE  Agrees
    BY <1>0, <2>5 DEF WaiterStep, WaiterLoads, WaiterGivesUp, WaiterCloses, WaiterMissesRow,
       WaiterReloads
  <2>6. \/ UNCHANGED request
        \/ \E b \in Run : EnqueueRun(b) \/ CancelRun(b) \/ CancelConversation(b)
        \/ \E t \in Tool : EnqueueTool(t) \/ CancelTool(t)
        \/ \E v \in Waiter : WaiterStep(v)
    BY <1>1 DEF ControlStep, CreateRun, EnqueueFails, ResetConversation, AskPermission, Decide,
       WaitAgain
  <2>7. QED
    BY <2>1, <2>2, <2>3, <2>4, <2>5, <2>6
<1>2. ASSUME NEW w \in Worker, WorkerStep(w) \/ CompleteUnanswered(w) \/ DesktopLost(w)
      PROVE  Agrees
  <2>1. run' = run
    BY <1>2, DesktopLeaves DEF DesktopStep
  <2>2. CASE UNCHANGED request
    BY <2>2
  <2>3. ASSUME NEW late \in SUBSET ActiveRequests, Poll(w, late)
        PROVE  Agrees
    BY <1>0, <2>3 DEF Poll, AfterExpiry, Claimable
  <2>4. CASE /\ worker[w].pc \in {"complete", "give_up"}
             /\ MayComplete(worker[w].on, worker[w].out)
             /\ Store(worker[w].on, worker[w].out)
    <3>1. worker[w].on = a /\ request'[a] = worker[w].out
      BY <1>0, <2>4 DEF Store
    <3>2. run[a] = worker[w].out \/ (worker[w].out = "failed" /\ run[a] = "cancelled")
      BY <2>4, <3>1 DEF MayComplete
    <3>3. worker[w].out \in Results
      BY <1>0, <2>4 DEF WorkerFacts
    <3>4. QED
      BY <2>1, <3>1, <3>2, <3>3 DEF Results
  <2>5. QED
    BY <1>2, <2>2, <2>3, <2>4 DEF WorkerStep, ToolEnds, AgentStops, AgentFails, Abort, Post,
       ResultTooLarge, DesktopLost, Complete, CompleteUnanswered
<1>3. (\E m \in posts : PostServed(m)) \/ Crash => UNCHANGED request
  BY PostLeaves DEF Crash
<1>4. DesktopStep => Agrees
  BY <1>2 DEF DesktopStep
<1>5. request' # request
  OBVIOUS
<1>6. Agrees
  <2> HIDE DEF Agrees
  <2>1. QED
    BY <1>1, <1>3, <1>4, <1>5, NextCases
<1>7. QED
  BY <1>6

-----------------------------------------------------------------------------
(* The variables, one at a time *)

LEMMA RequestsKept ==
  ASSUME LocalExecAssumption, LocalInv, Next
  PROVE  /\ request' \in [Request -> {"absent", "timed_out", "cancelled"} \cup Active \cup Results]
         /\ result' \in [Request -> SUBSET Results]
         /\ ResultInv'
<1>0. /\ request \in [Request -> {"absent", "timed_out", "cancelled"} \cup Active \cup Results]
      /\ result \in [Request -> SUBSET Results]
      /\ TypeOK /\ WorkerInv /\ CreationInv /\ ResultInv
  BY DEF LocalInv, TypeOK
<1>1. \A r \in Request : RequestMove(r)
  BY <1>0, EveryRequestMoves
<1>2. /\ request' = [r \in Request |-> request'[r]]
      /\ result' = [r \in Request |-> result'[r]]
  <2>1. CASE ControlStep
    <3>1. result' = result
      BY <2>1, ControlLeaves
    <3>2. request' = [r \in Request |-> request'[r]]
      BY <1>0, <2>1 DEF ControlStep, CreateRun, EnqueueRun, EnqueueFails, CancelRun,
         CancelConversation, ResetConversation, AskPermission, Decide, EnqueueTool, CancelTool,
         WaitAgain, WaiterStep, WaiterLoads, WaiterGivesUp, WaiterCloses, WaiterMissesRow,
         WaiterReloads
    <3>3. QED
      BY <1>0, <3>1, <3>2
  <2>2. CASE DesktopStep
    BY <1>0, <2>2 DEF DesktopStep, WorkerStep, Poll, AfterExpiry, ToolEnds, AgentStops,
       AgentFails, Abort, Post, Complete, ResultTooLarge, CompleteUnanswered, DesktopLost, Store
  <2>3. CASE (\E m \in posts : PostServed(m)) \/ Crash
    BY <1>0, <2>3, PostLeaves DEF Crash
  <2>4. QED
    BY <2>1, <2>2, <2>3, NextCases
<1>3. ASSUME NEW r \in Request
      PROVE  /\ request'[r] \in {"absent", "timed_out", "cancelled"} \cup Active \cup Results
             /\ result'[r] = {request'[r]} \cap Results
  <2>1. result[r] = {request[r]} \cap Results
    BY <1>0 DEF ResultInv
  <2>2. RequestMove(r)
    BY <1>1
  <2>3. CASE request'[r] = request[r] /\ result'[r] = result[r]
    BY <1>0, <2>1, <2>3
  <2>4. CASE request[r] = "absent" \/ request[r] \in Active
    <3>1. request[r] \notin Results /\ result[r] = {}
      BY <2>1, <2>4 DEF Active, Results
    <3>2. QED
      BY <2>2, <2>3, <3>1 DEF RequestMove, Active, Results
  <2>5. QED
    BY <2>2, <2>3, <2>4 DEF RequestMove
<1>4. \A r \in Request : result'[r] \in SUBSET Results
  BY <1>3
<1>5. QED
  BY <1>2, <1>3, <1>4 DEF ResultInv

LEMMA RunsKept ==
  ASSUME LocalExecAssumption, LocalInv, Next
  PROVE  run' \in [Run -> {"absent"} \cup RunActive \cup RunEnded]
<1>0. /\ run \in [Run -> {"absent"} \cup RunActive \cup RunEnded]
      /\ TypeOK
  BY DEF LocalInv, TypeOK
<1>1. run' = [a \in Run |-> run'[a]]
  <2>1. CASE ControlStep
    BY <1>0, <2>1 DEF ControlStep, CreateRun, EnqueueRun, EnqueueFails, CancelRun,
       CancelConversation, ResetConversation, AskPermission, Decide, EnqueueTool, CancelTool,
       WaitAgain, WaiterStep, WaiterLoads, WaiterGivesUp, WaiterCloses, WaiterMissesRow,
       WaiterReloads
  <2>2. CASE DesktopStep \/ Crash
    BY <1>0, <2>2, DesktopLeaves DEF Crash
  <2>3. CASE \E m \in posts : PostServed(m)
    BY <1>0, <2>3 DEF PostServed, CheckPost, Ingest, PostUnanswered
  <2>4. QED
    BY <2>1, <2>2, <2>3, NextCases
<1>2. \A a \in Run : run'[a] \in {"absent"} \cup RunActive \cup RunEnded
  BY <1>0, EveryRunMoves DEF RunMove
<1>3. QED
  BY <1>1, <1>2

LEMMA CreationKept ==
  ASSUME LocalExecAssumption, LocalInv, Next
  PROVE  creating' \in SUBSET Run /\ CreationInv'
<1>0. /\ creating \in SUBSET Run
      /\ run \in [Run -> {"absent"} \cup RunActive \cup RunEnded]
      /\ request \in [Request -> {"absent", "timed_out", "cancelled"} \cup Active \cup Results]
      /\ TypeOK /\ WorkerInv /\ CreationInv
      /\ Run \subseteq Request
  BY DEF LocalInv, TypeOK, Request
<1>1. \/ creating' \subseteq creating
      \/ \E a \in Run : CreateRun(a)
  BY DesktopLeaves, PostLeaves, NextCases DEF ControlStep, EnqueueRun, EnqueueFails,
     CancelRun, CancelConversation, ResetConversation, AskPermission, Decide, EnqueueTool,
     CancelTool, WaitAgain, WaiterStep, WaiterLoads, WaiterGivesUp, WaiterCloses,
     WaiterMissesRow, WaiterReloads, Crash
<1>2. ASSUME NEW a \in Run, request[a] = "absent", request'[a] # "absent"
      PROVE  EnqueueRun(a)
  <2>0. a \in Request /\ a \notin Tool
    BY <1>0 DEF LocalExecAssumption
  <2>1. CASE ControlStep
    BY <1>0, <1>2, <2>0, <2>1 DEF ControlStep, CreateRun, EnqueueRun, EnqueueFails, CancelRun,
       CancelConversation, ResetConversation, AskPermission, Decide, EnqueueTool, CancelTool,
       WaitAgain, WaiterStep, WaiterLoads, WaiterGivesUp, WaiterCloses, WaiterMissesRow,
       WaiterReloads, Cancelled, Active
  <2>2. CASE DesktopStep
    <3>1. RequestMove(a) /\ request'[a] = "queued"
      BY <1>0, <1>2, <2>0, EveryRequestMoves DEF RequestMove, Active
    <3>2. ASSUME NEW w \in Worker, NEW late \in SUBSET ActiveRequests, Poll(w, late)
          PROVE  FALSE
      BY <1>2, <2>0, <3>1, <3>2 DEF Poll, AfterExpiry
    <3>3. ASSUME NEW r, NEW out, MayComplete(r, out), Store(r, out)
          PROVE  FALSE
      BY <1>0, <1>2, <2>0, <3>3 DEF MayComplete, Store, Active
    <3>4. QED
      BY <1>2, <2>2, <3>2, <3>3 DEF DesktopStep, WorkerStep, ToolEnds, AgentStops, AgentFails,
         Abort, Post, Complete, ResultTooLarge, CompleteUnanswered, DesktopLost
  <2>3. CASE (\E m \in posts : PostServed(m)) \/ Crash
    BY <1>2, <2>3, PostLeaves DEF Crash
  <2>4. QED
    BY <2>1, <2>2, <2>3, NextCases
<1>3. \A a \in Run : run'[a] = "absent" => run[a] = "absent"
  BY <1>0, EveryRunMoves DEF RunMove
<1>4. ASSUME NEW a \in Run, a \in creating'
      PROVE  request'[a] = "absent" /\ run'[a] # "absent"
  <2>1. CASE a \in creating
    <3>1. ~EnqueueRun(a)
      BY <1>4 DEF EnqueueRun
    <3>2. QED
      BY <1>0, <1>2, <1>3, <2>1, <3>1 DEF CreationInv
  <2>2. CASE a \notin creating
    BY <1>0, <1>1, <1>4, <2>2 DEF CreateRun, CreationInv
  <2>3. QED
    BY <2>1, <2>2
<1>5. ASSUME NEW a \in Run, run'[a] = "absent"
      PROVE  request'[a] = "absent"
  <2>1. run[a] = "absent" /\ request[a] = "absent"
    BY <1>0, <1>3, <1>5 DEF CreationInv
  <2>2. ~EnqueueRun(a)
    BY <1>0, <2>1 DEF EnqueueRun, CreationInv
  <2>3. QED
    BY <1>2, <2>1, <2>2
<1>6. creating' \in SUBSET Run
  BY <1>0, <1>1 DEF CreateRun
<1>7. QED
  BY <1>4, <1>5, <1>6 DEF CreationInv

WaiterState ==
  [pc : {"idle", "polling", "closing", "reload", "answered", "gone"},
   on : Tool \cup {NoRequest}, answer : {"", "timed_out"} \cup Results]

\* What one step may do to a waiting call: it starts, is lost, goes on without
\* an answer, or answers what its last look at the request says.
WaiterMove(v) ==
  \/ waiter'[v] = waiter[v]
  \/ /\ waiter'[v].pc = "polling"
     /\ waiter'[v].on \in Tool
     /\ request'[waiter'[v].on] # "absent"
  \/ waiter'[v].pc = "gone"
  \/ /\ waiter[v].pc \in {"polling", "closing"}
     /\ waiter'[v].on = waiter[v].on
     /\ waiter'[v].pc \in {"closing", "reload"}
     /\ waiter'[v].pc = "reload" => request[waiter[v].on] \notin Active
     /\ UNCHANGED <<request, result>>
  \/ /\ waiter[v].pc \in {"polling", "closing", "reload"}
     /\ waiter'[v].on = waiter[v].on
     /\ waiter'[v].pc = "answered"
     /\ UNCHANGED result
     /\ \/ /\ waiter'[v].answer \in result[waiter[v].on]
           /\ UNCHANGED request
        \/ /\ waiter[v].pc = "reload"
           /\ waiter'[v].answer = "timed_out"
           /\ result[waiter[v].on] = {}
           /\ UNCHANGED request
        \/ /\ waiter[v].pc = "closing"
           /\ waiter'[v].answer = "timed_out"
           /\ request[waiter[v].on] \in Active
           /\ request'[waiter[v].on] = "timed_out"

LEMMA EveryWaiterMoves ==
  ASSUME LocalExecAssumption, LocalInv, Next
  PROVE  (\A v \in Waiter : WaiterMove(v)) /\ waiter' \in [Waiter -> WaiterState]
<1>0. /\ waiter \in [Waiter -> WaiterState]
      /\ request \in [Request -> {"absent", "timed_out", "cancelled"} \cup Active \cup Results]
      /\ result \in [Request -> SUBSET Results]
      /\ WaiterInv
      /\ Tool \subseteq Request /\ Tool \subseteq Waiter
  BY DEF LocalInv, TypeOK, WaiterState, Request, Waiter
<1>1. CASE UNCHANGED waiter
  BY <1>0, <1>1 DEF WaiterMove
<1>2. CASE Crash
  <2>1. \A u \in Waiter : [waiter[u] EXCEPT !.pc = "gone"] \in WaiterState
    BY <1>0 DEF WaiterState
  <2>2. \A u \in Waiter : [waiter[u] EXCEPT !.pc = "gone"].pc = "gone"
    BY <1>0 DEF WaiterState
  <2>3. QED
    BY <1>0, <1>2, <2>1, <2>2 DEF Crash, WaiterMove
<1>3. ASSUME NEW t \in Tool, EnqueueTool(t)
      PROVE  (\A v \in Waiter : WaiterMove(v)) /\ waiter' \in [Waiter -> WaiterState]
  <2>0. waiter[t] \in WaiterState
    BY <1>0
  <2>1. [waiter[t] EXCEPT !.pc = "polling", !.on = t] \in WaiterState
    BY <2>0 DEF WaiterState
  <2>2. request'[t] = "queued"
    BY <1>0, <1>3 DEF EnqueueTool
  <2>3. QED
    BY <1>0, <1>3, <2>1, <2>2 DEF EnqueueTool, WaiterMove, WaiterState
<1>4. ASSUME NEW t \in Tool, NEW u \in Call, WaitAgain(t, u)
      PROVE  (\A v \in Waiter : WaiterMove(v)) /\ waiter' \in [Waiter -> WaiterState]
  <2>0. u \in Waiter /\ waiter[u] \in WaiterState
    BY <1>0 DEF Waiter
  <2>1. [waiter[u] EXCEPT !.pc = "polling", !.on = t] \in WaiterState
    BY <2>0 DEF WaiterState
  <2>2. QED
    BY <1>0, <1>4, <2>0, <2>1 DEF WaitAgain, WaiterMove, WaiterState
<1>5. ASSUME NEW u \in Waiter, WaiterStep(u)
      PROVE  (\A v \in Waiter : WaiterMove(v)) /\ waiter' \in [Waiter -> WaiterState]
  <2>0. /\ waiter[u] \in WaiterState
        /\ waiter[u].on \in Request
        /\ result[waiter[u].on] \subseteq Results
    BY <1>0, <1>5 DEF WaiterInv, WaiterStep, WaiterLoads, WaiterGivesUp, WaiterCloses,
       WaiterMissesRow, WaiterReloads
  <2>1. ASSUME NEW pc \in {"closing", "reload"}, Waiting(u, pc)
        PROVE  /\ waiter' \in [Waiter -> WaiterState]
               /\ waiter'[u].pc = pc /\ waiter'[u].on = waiter[u].on
               /\ \A v \in Waiter : u # v => waiter'[v] = waiter[v]
    BY <1>0, <2>0, <2>1 DEF Waiting, WaiterState
  <2>2. ASSUME NEW answer \in {"timed_out"} \cup Results, Answer(u, answer)
        PROVE  /\ waiter' \in [Waiter -> WaiterState]
               /\ waiter'[u].pc = "answered" /\ waiter'[u].on = waiter[u].on
               /\ waiter'[u].answer = answer
               /\ \A v \in Waiter : u # v => waiter'[v] = waiter[v]
    BY <1>0, <2>0, <2>2 DEF Answer, WaiterState
  <2>3. CASE WaiterLoads(u)
    <3>1. PICK type \in result[waiter[u].on] : Answer(u, type)
      BY <2>3 DEF WaiterLoads
    <3>2. /\ waiter' \in [Waiter -> WaiterState]
          /\ waiter'[u].pc = "answered" /\ waiter'[u].on = waiter[u].on
          /\ waiter'[u].answer = type
          /\ \A v \in Waiter : u # v => waiter'[v] = waiter[v]
      BY <2>0, <2>2, <3>1
    <3>3. QED
      BY <2>3, <3>2 DEF WaiterLoads, WaiterMove
  <2>4. CASE WaiterGivesUp(u)
    BY <2>1, <2>4 DEF WaiterGivesUp, WaiterMove
  <2>5. CASE WaiterCloses(u)
    BY <1>0, <2>0, <2>2, <2>5 DEF WaiterCloses, WaiterMove
  <2>6. CASE WaiterMissesRow(u)
    BY <2>1, <2>6 DEF WaiterMissesRow, WaiterMove
  <2>7. CASE WaiterReloads(u)
    <3>1. CASE result[waiter[u].on] = {}
      BY <2>2, <2>7, <3>1 DEF WaiterReloads, WaiterMove
    <3>2. CASE result[waiter[u].on] # {}
      <4>1. PICK type \in result[waiter[u].on] : Answer(u, type)
        BY <2>7, <3>2 DEF WaiterReloads
      <4>2. /\ waiter' \in [Waiter -> WaiterState]
            /\ waiter'[u].pc = "answered" /\ waiter'[u].on = waiter[u].on
            /\ waiter'[u].answer = type
            /\ \A v \in Waiter : u # v => waiter'[v] = waiter[v]
        BY <2>0, <2>2, <4>1
      <4>3. QED
        BY <2>7, <4>2 DEF WaiterReloads, WaiterMove
    <3>3. QED
      BY <3>1, <3>2
  <2>8. QED
    BY <1>5, <2>3, <2>4, <2>5, <2>6, <2>7 DEF WaiterStep
<1>6. ControlStep => \/ UNCHANGED waiter
                     \/ \E t \in Tool : EnqueueTool(t) \/ \E u \in Call : WaitAgain(t, u)
                     \/ \E u \in Waiter : WaiterStep(u)
  BY DEF ControlStep, CreateRun, EnqueueRun, EnqueueFails, CancelRun, CancelConversation,
     ResetConversation, AskPermission, Decide, CancelTool
<1>7. DesktopStep \/ (\E m \in posts : PostServed(m)) => UNCHANGED waiter
  BY DesktopLeaves, PostLeaves
<1>8. QED
  BY <1>1, <1>2, <1>3, <1>4, <1>5, <1>6, <1>7, NextCases

LEMMA WaitersKept ==
  ASSUME LocalExecAssumption, LocalInv, Next
  PROVE  WaiterInv' /\ AnswersAreFinal'
<1>0. /\ request \in [Request -> {"absent", "timed_out", "cancelled"} \cup Active \cup Results]
      /\ TypeOK /\ WorkerInv /\ CreationInv /\ ResultInv /\ WaiterInv /\ AnswersAreFinal
      /\ Tool \subseteq Request
  BY DEF LocalInv, TypeOK, Request
<1>1. \A r \in Request : RequestMove(r)
  BY <1>0, EveryRequestMoves
<1>2. \A r \in Request :
        /\ request[r] # "absent" => request'[r] # "absent"
        /\ request[r] # "absent" /\ request[r] \notin Active =>
             request'[r] = request[r] /\ result'[r] = result[r]
  BY <1>1 DEF RequestMove, Active, Results
<1>3. ASSUME NEW v \in Waiter
      PROVE  /\ waiter'[v].pc \in {"polling", "closing", "reload", "answered"} =>
                  waiter'[v].on \in Tool /\ request'[waiter'[v].on] # "absent"
             /\ waiter'[v].pc = "reload" => request'[waiter'[v].on] \notin Active
             /\ waiter'[v].pc = "answered" =>
                  /\ request'[waiter'[v].on] \notin Active
                  /\ result'[waiter'[v].on] =
                       IF waiter'[v].answer = "timed_out" THEN {} ELSE {waiter'[v].answer}
  <2>0. WaiterMove(v)
    BY EveryWaiterMoves
  <2> DEFINE r == waiter[v].on
  <2>1. waiter[v].pc \in {"polling", "closing", "reload", "answered"} =>
          r \in Request /\ r \in Tool /\ request[r] # "absent"
    BY <1>0 DEF WaiterInv
  <2>2. waiter[v].pc = "reload" => request[r] \notin Active
    BY <1>0 DEF WaiterInv
  <2>3. r \in Request => result[r] = {request[r]} \cap Results
    BY <1>0 DEF ResultInv
  <2>4. CASE waiter'[v] = waiter[v]
    <3>1. waiter[v].pc = "answered" =>
            /\ request[r] \notin Active
            /\ result[r] = IF waiter[v].answer = "timed_out" THEN {} ELSE {waiter[v].answer}
      BY <1>0 DEF AnswersAreFinal
    <3>2. QED
      BY <1>2, <2>1, <2>2, <2>4, <3>1
  <2>5. CASE waiter'[v] # waiter[v] /\ waiter'[v].pc # "answered"
    BY <1>2, <2>0, <2>1, <2>5 DEF WaiterMove
  <2>6. CASE waiter'[v] # waiter[v] /\ waiter'[v].pc = "answered"
    <3>1. waiter'[v].on = r /\ r \in Request /\ r \in Tool /\ request'[r] # "absent"
      BY <1>2, <2>0, <2>1, <2>6 DEF WaiterMove
    <3>2. request'[r] \notin Active
          /\ result'[r] = IF waiter'[v].answer = "timed_out" THEN {} ELSE {waiter'[v].answer}
      BY <2>0, <2>2, <2>3, <2>6, <3>1 DEF WaiterMove, Active, Results
    <3>3. QED
      BY <2>6, <3>1, <3>2
  <2>7. QED
    BY <2>4, <2>5, <2>6
<1>4. QED
  BY <1>3 DEF WaiterInv, AnswersAreFinal

LEMMA PermissionsKept ==
  ASSUME LocalExecAssumption, LocalInv, Next
  PROVE  /\ permission' \in [Run -> [Permission -> {"absent", "pending", "closed"}]]
         /\ WaitingHasApproval'
<1>0. /\ permission \in [Run -> [Permission -> {"absent", "pending", "closed"}]]
      /\ run \in [Run -> {"absent"} \cup RunActive \cup RunEnded]
      /\ posts \in SUBSET PostState
      /\ WaitingHasApproval
  BY DEF LocalInv, TypeOK
<1>1. CASE UNCHANGED <<run, permission>>
  BY <1>0, <1>1 DEF WaitingHasApproval
<1>2. ASSUME UNCHANGED permission,
             \A a \in Run : run'[a] = "waiting_approval" => run[a] = "waiting_approval"
      PROVE  WaitingHasApproval'
  BY <1>0, <1>2 DEF WaitingHasApproval
<1>3. ASSUME NEW a \in Run,
             CreateRun(a) \/ EnqueueFails(a) \/ CancelRun(a) \/ ResetConversation(a)
      PROVE  UNCHANGED permission /\ WaitingHasApproval'
  <2>1. \A b \in Run : run'[b] = "waiting_approval" => run[b] = "waiting_approval"
    BY <1>0, <1>3 DEF CreateRun, EnqueueFails, CancelRun, ResetConversation
  <2>2. QED
    BY <1>2, <1>3, <2>1 DEF CreateRun, EnqueueFails, CancelRun, ResetConversation
<1>4. ASSUME NEW a \in Run, CancelConversation(a)
      PROVE  /\ permission' \in [Run -> [Permission -> {"absent", "pending", "closed"}]]
             /\ WaitingHasApproval'
  <2>1. \A b \in Run : run'[b] = "waiting_approval" =>
          run[b] = "waiting_approval" /\ permission'[b] = permission[b]
    BY <1>0, <1>4 DEF CancelConversation, RunActive
  <2>2. permission' \in [Run -> [Permission -> {"absent", "pending", "closed"}]]
    BY <1>0, <1>4 DEF CancelConversation
  <2>3. QED
    BY <1>0, <2>1, <2>2 DEF WaitingHasApproval
<1>5. ASSUME NEW w \in Worker, NEW p \in Permission, AskPermission(w, p)
      PROVE  /\ permission' \in [Run -> [Permission -> {"absent", "pending", "closed"}]]
             /\ WaitingHasApproval'
  <2> DEFINE a == worker[w].on
  <2>1. /\ a \in Run
        /\ permission' = [permission EXCEPT ![a][p] = "pending"]
        /\ \A b \in Run : b # a => run'[b] = run[b]
    BY <1>0, <1>5 DEF AskPermission
  <2>2. /\ permission'[a][p] = "pending"
        /\ \A b \in Run : b # a => permission'[b] = permission[b]
    BY <1>0, <2>1
  <2>3. permission' \in [Run -> [Permission -> {"absent", "pending", "closed"}]]
    BY <1>0, <2>1
  <2>4. QED
    BY <1>0, <2>1, <2>2, <2>3 DEF WaitingHasApproval
<1>6. ASSUME NEW a \in Run, NEW p \in Permission, Decide(a, p)
      PROVE  /\ permission' \in [Run -> [Permission -> {"absent", "pending", "closed"}]]
             /\ WaitingHasApproval'
  <2>1. \A b \in Run : run'[b] = "waiting_approval" =>
          run[b] = "waiting_approval" /\ permission'[b] = permission[b]
    BY <1>0, <1>6 DEF Decide
  <2>2. permission' \in [Run -> [Permission -> {"absent", "pending", "closed"}]]
    BY <1>0, <1>6 DEF Decide
  <2>3. QED
    BY <1>0, <2>1, <2>2 DEF WaitingHasApproval
<1>7. ASSUME NEW m \in posts, PostServed(m)
      PROVE  UNCHANGED permission /\ WaitingHasApproval'
  <2>1. UNCHANGED permission
    BY <1>7, PostLeaves
  <2>2. /\ m.on \in Run /\ m.event \in {"started"} \cup RunEnded
        /\ UNCHANGED run \/ run' = [run EXCEPT ![m.on] = RunAfter(@, m.event)]
    BY <1>0, <1>7 DEF PostState, PostServed, CheckPost, Ingest, PostUnanswered
  <2>3. RunAfter(run[m.on], m.event) # "waiting_approval"
    BY <1>0, <2>2, RunType
  <2>4. \A b \in Run : run'[b] = "waiting_approval" => run[b] = "waiting_approval"
    BY <1>0, <2>2, <2>3
  <2>5. QED
    BY <1>2, <2>1, <2>4
<1>8. ControlStep =>
        \/ UNCHANGED <<run, permission>>
        \/ \E a \in Run : \/ CreateRun(a) \/ EnqueueFails(a) \/ CancelRun(a)
                          \/ ResetConversation(a) \/ CancelConversation(a)
        \/ \E w \in Worker : \E p \in Permission : AskPermission(w, p)
        \/ \E a \in Run : \E p \in Permission : Decide(a, p)
  BY DEF ControlStep, EnqueueRun, EnqueueTool, CancelTool, WaitAgain, WaiterStep, WaiterLoads,
     WaiterGivesUp, WaiterCloses, WaiterMissesRow, WaiterReloads
<1>9. DesktopStep \/ Crash => UNCHANGED <<run, permission>>
  BY DesktopLeaves DEF Crash
<1>10. QED
  BY <1>0, <1>1, <1>3, <1>4, <1>5, <1>6, <1>7, <1>8, <1>9, NextCases

LEMMA RunsAgree ==
  ASSUME LocalExecAssumption, LocalInv, Next
  PROVE  RequestAgreesWithRun'
<1>1. ASSUME NEW a \in Run
      PROVE  /\ request'[a] = "completed" => run'[a] = "completed"
             /\ request'[a] = "failed" => run'[a] \in {"failed", "cancelled"}
             /\ request'[a] = "cancelled" => run'[a] = "cancelled"
  <2>0. TypeOK /\ WorkerInv /\ RequestAgreesWithRun
    BY DEF LocalInv
  <2>1. CASE request'[a] # request[a]
    BY <2>0, <2>1, RequestEndsWithRun
  <2>2. CASE request'[a] = request[a]
    <3>1. run[a] \in RunEnded => run'[a] = run[a]
      BY <2>0, EveryRunMoves DEF RunMove
    <3>2. QED
      BY <2>0, <2>2, <3>1 DEF RequestAgreesWithRun, RunEnded
  <2>3. QED
    BY <2>1, <2>2
<1>2. QED
  BY <1>1 DEF RequestAgreesWithRun

LEMMA WorkersKept ==
  ASSUME LocalExecAssumption, LocalInv, Next
  PROVE  worker' \in [Worker -> WorkerState] /\ WorkerInv' /\ posts' \in SUBSET PostState
<1>0. worker \in [Worker -> WorkerState] /\ WorkerInv /\ posts \in SUBSET PostState
  BY DEF LocalInv, TypeOK
<1>1. CASE ControlStep
  BY <1>0, <1>1, ControlLeaves DEF WorkerInv
<1>2. CASE DesktopStep
  <2>1. worker' \in [Worker -> WorkerState] /\ WorkerInv'
    BY <1>0, <1>2, OneWorkerType DEF DesktopStep
  <2>2. posts' \in SUBSET PostState
    BY <1>0, <1>2, DesktopLeaves, PostsType
  <2>3. QED
    BY <2>1, <2>2
<1>3. CASE \E m \in posts : PostServed(m)
  BY <1>0, <1>3, RepliesType, PostsType
<1>4. CASE Crash
  BY <1>0, <1>4, CrashType, PostsType
<1>5. QED
  BY <1>1, <1>2, <1>3, <1>4, NextCases

LEMMA TroublesKept ==
  ASSUME LocalExecAssumption, LocalInv, Next
  PROVE  troubles' \in 0 .. MaxTroubles
<1>0. troubles \in 0 .. MaxTroubles /\ MaxTroubles \in Nat
  BY DEF LocalInv, TypeOK, LocalExecAssumption
<1>1. UNCHANGED troubles \/ Trouble
  BY DEF Next, CreateRun, EnqueueRun, EnqueueFails, CancelRun, CancelConversation,
     ResetConversation, AskPermission, Decide, EnqueueTool, CancelTool, WaitAgain,
     WaiterStep, WaiterLoads, WaiterGivesUp, WaiterCloses, WaiterMissesRow, WaiterReloads,
     WorkerStep, Poll, ToolEnds, AgentStops, AgentFails, Abort, Post, Complete, ResultTooLarge,
     CompleteUnanswered, DesktopLost, CheckPost, Ingest, PostUnanswered, Crash
<1>2. QED
  BY <1>0, <1>1 DEF Trouble

-----------------------------------------------------------------------------
(* The theorems *)

\* The inductive invariant: the stages of the workers, the results and the
\* order of a run and its request, with the four properties of the queue.
THEOREM LocalInvariant == Spec => []LocalInv
<1>1. Init => LocalInv
  BY LocalExecAssumption, InitInv
<1>2. LocalInv /\ [Next]_vars => LocalInv'
  <2>1. ASSUME LocalInv, Next
        PROVE  LocalInv'
    <3>1. waiter' \in [Waiter -> WaiterState]
      BY <2>1, LocalExecAssumption, EveryWaiterMoves
    <3>2. TypeOK'
      BY <2>1, <3>1, LocalExecAssumption, RequestsKept, RunsKept, CreationKept, PermissionsKept,
         WorkersKept, TroublesKept DEF TypeOK, WaiterState
    <3>3. QED
      BY <2>1, <3>2, LocalExecAssumption, RequestsKept, CreationKept, WaitersKept,
         PermissionsKept, RunsAgree, WorkersKept DEF LocalInv
  <2>2. CASE UNCHANGED vars
    BY <2>2 DEF vars, LocalInv, TypeOK, WorkerInv, WaiterInv, ResultInv, CreationInv,
       AnswersAreFinal, RequestAgreesWithRun, WaitingHasApproval, Active
  <2>3. QED
    BY <2>1, <2>2
<1>3. QED
  BY <1>1, <1>2, PTL DEF Spec

\* Type correctness of the local runtime queue and the desktop's workers.
THEOREM LocalTypeCorrect == Spec => []TypeOK
<1>1. LocalInv => TypeOK
  BY DEF LocalInv
<1>2. QED
  BY <1>1, LocalInvariant, PTL

\* What wait_for_result answered stays true of the request, for any number of
\* calls that wait and of workers and requests that are polled.
THEOREM LocalAnswersFinal == Spec => []AnswersAreFinal
<1>1. LocalInv => AnswersAreFinal
  BY DEF LocalInv
<1>2. QED
  BY <1>1, LocalInvariant, PTL

\* A request that complete_local_exec_request or a cancel ended agrees with its
\* run, whatever order events, cancellations and completions come in.
THEOREM LocalRequestAgrees == Spec => []RequestAgreesWithRun
<1>1. LocalInv => RequestAgreesWithRun
  BY DEF LocalInv
<1>2. QED
  BY <1>1, LocalInvariant, PTL

\* A run is only left waiting while one of its approvals is pending.
THEOREM LocalWaitingHasApproval == Spec => []WaitingHasApproval
<1>1. LocalInv => WaitingHasApproval
  BY DEF LocalInv
<1>2. QED
  BY <1>1, LocalInvariant, PTL
================================================================================
