----------------------- MODULE WorkflowSchedulerProofs -----------------------
(***************************************************************************)
(* Proofs about WorkflowScheduler, for any plan, limit, retry policy and   *)
(* number of troubles: types, the order of the dependencies, the limit of  *)
(* active nodes, that the scheduler implements WorkflowDag, what the runs  *)
(* of a node's attempts are doing, what a final status says of the nodes,  *)
(* and that validation finds every cycle.                                  *)
(*                                                                         *)
(* Everything follows from what one step may do to one node (NodeMove).    *)
(* A node that is ready may have become so in an earlier tick, hence       *)
(* ReadyAfterUpstream in the invariant.                                    *)
(***************************************************************************)
EXTENDS WorkflowScheduler, FiniteSetTheorems, WellFoundedInduction, TLAPS

UpstreamCompleted(n) == \A m \in Upstream(n) : status[m] = "completed"

ReadyAfterUpstream == \A n \in Node : status[n] = "ready" => UpstreamCompleted(n)

NodeInv == AttemptsAddUp /\ StartedAfterUpstream /\ ReadyAfterUpstream

\* While a tick holds the row of the workflow it is still owed, and the workflow
\* has not ended.
TickOwed == ticking # "no" => ticksDue > 0 /\ MayTick

WorkflowInv == TypeOK /\ NodeInv /\ WithinLimit /\ TickOwed

-----------------------------------------------------------------------------
(* What one step does to one node *)

SameAttempt(n) == attempts'[n] = attempts[n] /\ agentRun'[n] = agentRun[n]

Stays(n) == status'[n] = status[n] /\ SameAttempt(n)

Ends(n) ==
  /\ status[n] \notin NodeDone
  /\ status'[n] \in NodeDone
  /\ status'[n] = "completed" => status[n] \in NodeActive
  /\ SameAttempt(n)

GoesOn(n) == status[n] \in NodeActive /\ status'[n] \in NodeActive /\ SameAttempt(n)

Retries(n) ==
  /\ status[n] \in NodeActive
  /\ attempts[n] < MaxAttempts[n]
  /\ status'[n] \in {"pending", "ready"}
  /\ attempts'[n] = attempts[n]
  /\ agentRun'[n] = 0
  /\ status'[n] = "ready" => UpstreamCompleted(n)

GetsReady(n) ==
  status[n] = "pending" /\ status'[n] = "ready" /\ UpstreamCompleted(n) /\ SameAttempt(n)

IsDispatched(n) ==
  /\ status'[n] = "queued"
  /\ status[n] \notin NodeDone
  /\ attempts[n] < MaxAttempts[n]
  /\ attempts'[n] = attempts[n] + 1
  /\ agentRun'[n] = attempts[n] + 1
  /\ UpstreamCompleted(n)

QuietMove(n) == Stays(n) \/ Ends(n) \/ GoesOn(n) \/ Retries(n) \/ GetsReady(n)

NodeMove(n) == QuietMove(n) \/ IsDispatched(n)

\* The steps that leave the nodes alone.
LEMMA Unmoved ==
  ASSUME UNCHANGED <<status, attempts, agentRun>>
  PROVE  \A n \in Node : QuietMove(n)
BY DEF QuietMove, Stays, SameAttempt

-----------------------------------------------------------------------------
(* The sweep of a tick *)

\* A timeout touches active nodes, and retries one that has attempts left.
LEMMA TimeoutSweep ==
  ASSUME TypeOK, NEW late \in SUBSET Started, NEW n \in Node
  PROVE  /\ AfterTimeout(late)[n] \in NodeStatus
         /\ AfterTimeout(late)[n] = "completed" <=> status[n] = "completed"
         /\ \/ AfterTimeout(late)[n] = status[n] /\ n \notin late
            \/ /\ status[n] \in NodeActive
               /\ n \in Retried(late)
               /\ AfterTimeout(late)[n] = "pending"
            \/ /\ status[n] \in NodeActive
               /\ n \in late \ Retried(late)
               /\ AfterTimeout(late)[n] = "failed"
BY DEF TypeOK, AfterTimeout, Started, Retried, NodeActive, NodeStatus, NodeDone

\* After the sweep a node is as the timeout left it, blocked by an upstream node
\* that has not completed, or ready with all its upstream nodes completed.
LEMMA Sweep ==
  ASSUME TypeOK, ReadyAfterUpstream, NEW late \in SUBSET Started, NEW n \in Node
  PROVE  /\ AfterSweep(late)[n] \in NodeStatus
         /\ \/ AfterSweep(late)[n] = AfterTimeout(late)[n]
            \/ /\ AfterTimeout(late)[n] \in {"pending", "ready"}
               /\ AfterSweep(late)[n] = "blocked"
               /\ ~UpstreamCompleted(n)
            \/ AfterTimeout(late)[n] = "pending" /\ AfterSweep(late)[n] = "ready"
         /\ AfterSweep(late)[n] = "ready" => UpstreamCompleted(n)
<1> DEFINE t == AfterTimeout(late)
           b == AfterBlock(t)
<1>1. \A m \in Node : t[m] \in NodeStatus /\ (t[m] = "completed" <=> status[m] = "completed")
  BY TimeoutSweep
<1>2. \A m \in Node : \/ b[m] = t[m]
                      \/ /\ t[m] \in {"pending", "ready"} /\ b[m] = "blocked"
                         /\ \E k \in Upstream(m) : t[k] \in {"failed", "cancelled", "blocked"}
  BY DEF AfterBlock
<1>3. \A m \in Node : b[m] = "completed" <=> status[m] = "completed"
  BY <1>1, <1>2
<1>4. \/ AfterSweep(late)[n] = b[n] /\ (b[n] # "pending" \/ AfterSweep(late)[n] = "pending")
      \/ /\ b[n] = "pending" /\ AfterSweep(late)[n] = "ready"
         /\ \A m \in Upstream(n) : b[m] = "completed"
  BY DEF AfterSweep, AfterReady
<1>5. b[n] = "ready" => status[n] = "ready"
  BY <1>2, TimeoutSweep DEF NodeActive
<1>6. AfterSweep(late)[n] = "ready" => UpstreamCompleted(n)
  BY <1>3, <1>4, <1>5 DEF UpstreamCompleted, ReadyAfterUpstream, Upstream
<1>7. b[n] = t[n] \/ ~UpstreamCompleted(n)
  <2>1. ASSUME NEW k \in Upstream(n), t[k] \in {"failed", "cancelled", "blocked"}
        PROVE  ~UpstreamCompleted(n)
    <3>1. k \in Node
      BY DEF Upstream
    <3>2. status[k] # "completed"
      BY <1>1, <2>1, <3>1
    <3>3. QED
      BY <3>2 DEF UpstreamCompleted
  <2>2. QED
    BY <1>2, <2>1
<1>8. QED
  BY <1>1, <1>2, <1>4, <1>6, <1>7 DEF NodeStatus, NodeDone

-----------------------------------------------------------------------------
(* The moves of each action *)

\* The nodes a tick dispatches were ready, and fit into the limit.
LEMMA TruncatedReady ==
  ASSUME NEW ready, NEW active, NEW go \in Truncated(ready, active)
  PROVE  go \subseteq ready
BY DEF Truncated

LEMMA SweepMoves ==
  ASSUME TypeOK, NodeInv, NEW late \in SUBSET Started, TickSweep(late), NEW n \in Node
  PROVE  QuietMove(n)
<1>1. /\ status'[n] = AfterSweep(late)[n]
      /\ attempts'[n] = attempts[n]
      /\ agentRun'[n] = IF n \in Retried(late) THEN 0 ELSE agentRun[n]
  BY DEF TickSweep
<1>2. ReadyAfterUpstream /\ AttemptsAddUp /\ StartedAfterUpstream
  BY DEF NodeInv
<1>3. CASE AfterTimeout(late)[n] = status[n] /\ n \notin late
  <2>1. SameAttempt(n)
    BY <1>1, <1>3 DEF SameAttempt, Retried
  <2>2. QED
    BY <1>1, <1>2, <1>3, <2>1, Sweep
       DEF QuietMove, Stays, Ends, GetsReady, NodeDone
<1>4. CASE status[n] \in NodeActive /\ n \in Retried(late) /\ AfterTimeout(late)[n] = "pending"
  <2>1. attempts[n] > 0 /\ attempts[n] < MaxAttempts[n]
    BY <1>2, <1>4 DEF AttemptsAddUp, Retried
  <2>2. UpstreamCompleted(n)
    BY <1>2, <2>1 DEF StartedAfterUpstream, UpstreamCompleted
  <2>3. status'[n] \in {"pending", "ready"}
    BY <1>1, <1>2, <1>4, <2>2, Sweep
  <2>4. QED
    BY <1>1, <1>4, <2>1, <2>2, <2>3 DEF QuietMove, Retries
<1>5. CASE status[n] \in NodeActive /\ n \in late \ Retried(late) /\ AfterTimeout(late)[n] = "failed"
  <2>1. status'[n] = "failed" /\ SameAttempt(n)
    BY <1>1, <1>2, <1>5, Sweep DEF SameAttempt
  <2>2. QED
    BY <1>5, <2>1 DEF QuietMove, Ends, NodeActive, NodeDone
<1>6. QED
  BY <1>3, <1>4, <1>5, TimeoutSweep

LEMMA DispatchMoves ==
  ASSUME TypeOK, NodeInv,
         NEW go \in Truncated(ReadyNodes(status), ActiveNodes(status)), TickDispatch(go),
         NEW n \in Node
  PROVE  NodeMove(n)
<1>1. CASE n \in go
  <2>1. status[n] = "ready"
    BY <1>1, TruncatedReady DEF ReadyNodes
  <2>2. attempts[n] < MaxAttempts[n] /\ UpstreamCompleted(n)
    BY <2>1 DEF NodeInv, AttemptsAddUp, ReadyAfterUpstream
  <2>3. QED
    BY <1>1, <2>1, <2>2 DEF TickDispatch, NodeMove, IsDispatched, NodeDone
<1>2. CASE n \notin go
  BY <1>2 DEF TickDispatch, NodeMove, QuietMove, Stays, SameAttempt
<1>3. QED
  BY <1>1, <1>2

\* A report moves the node whose run it is about, which is active.
LEMMA IngestMoves ==
  ASSUME TypeOK, NodeInv, WorkflowAssumption, NEW r \in Run, NEW was,
         NEW s \in {"running", "waiting_approval"} \cup RunDone, Ingest(r, was, s),
         NEW n \in Node
  PROVE  QuietMove(n)
<1>1. CASE ~Current(r)
  BY <1>1, Unmoved DEF Ingest
<1>2. CASE Current(r)
  <2>1. r[1] \in Node /\ r[2] \in 1..10
    BY DEF Run
  <2>2. status[r[1]] \in NodeActive
    <3>1. agentRun[r[1]] # 0 /\ status[r[1]] \notin NodeDone
      BY <1>2, <2>1 DEF Current
    <3>2. status[r[1]] \in NodeStatus
      BY <2>1 DEF TypeOK
    <3>3. QED
      BY <2>1, <3>1, <3>2 DEF NodeInv, AttemptsAddUp, NodeStatus
  <2>3. CASE n # r[1]
    BY <1>2, <2>3 DEF Ingest, QuietMove, Stays, SameAttempt, TypeOK
  <2>4. CASE n = r[1] /\ s = "failed" /\ attempts[n] < MaxAttempts[n]
    <3>1. /\ status'[n] = "pending"
          /\ agentRun'[n] = 0
          /\ attempts'[n] = attempts[n]
      BY <1>2, <2>4 DEF Ingest, TypeOK
    <3>2. QED
      BY <2>2, <2>4, <3>1 DEF QuietMove, Retries
  <2>5. CASE n = r[1] /\ ~ (s = "failed" /\ attempts[n] < MaxAttempts[n])
    <3>1. status'[n] = s /\ SameAttempt(n)
      BY <1>2, <2>5 DEF Ingest, TypeOK, SameAttempt
    <3>2. CASE s \in RunDone
      BY <2>2, <2>5, <3>1, <3>2 DEF QuietMove, Ends, RunDone, NodeDone, NodeActive
    <3>3. CASE s \notin RunDone
      BY <2>2, <2>5, <3>1, <3>3 DEF QuietMove, GoesOn, NodeActive
    <3>4. QED
      BY <3>2, <3>3
  <2>6. QED
    BY <2>3, <2>4, <2>5
<1>3. QED
  BY <1>1, <1>2

Dispatched(go) ==
  go \in Truncated(ReadyNodes(status), ActiveNodes(status)) /\ TickDispatch(go)

\* Every step but the dispatch of a tick moves nodes quietly.
LEMMA QuietSteps ==
  ASSUME TypeOK, NodeInv, WorkflowAssumption, Next, ~\E go : Dispatched(go)
  PROVE  (\A n \in Node : QuietMove(n)) /\ plan' = plan
<1>1. CASE TickStep
  <2>1. CASE \E late \in SUBSET Started : TickSweep(late)
    <3>1. plan' = plan
      BY <2>1 DEF TickSweep
    <3>2. QED
      BY <2>1, <3>1, SweepMoves
  <2>2. CASE TickCommit
    BY <2>2, Unmoved DEF TickCommit, nodeVars
  <2>3. QED
    BY <1>1, <2>1, <2>2 DEF TickStep, Dispatched
<1>2. CASE DispatchStep
  <2>1. ASSUME NEW list \in preparing, Prepare(list)
        PROVE  (\A n \in Node : QuietMove(n)) /\ plan' = plan
    BY <2>1, Unmoved DEF Prepare, nodeVars
  <2>2. ASSUME NEW list \in dispatching, NEW r \in Run, Dispatch(list, r)
        PROVE  (\A n \in Node : QuietMove(n)) /\ plan' = plan
    BY <2>2, Unmoved DEF Dispatch, nodeVars
  <2>3. ASSUME NEW r \in Run, MarkDispatchFailed(r), NEW n \in Node
        PROVE  QuietMove(n)
    <3>1. SameAttempt(n)
      BY <2>3 DEF MarkDispatchFailed, SameAttempt
    <3>2. \/ status'[n] = status[n]
          \/ status[n] \notin NodeDone /\ status'[n] = "failed"
      BY <2>3 DEF MarkDispatchFailed, Current, TypeOK
    <3>3. QED
      BY <3>1, <3>2 DEF QuietMove, Stays, Ends, NodeDone
  <2>4. ASSUME NEW r \in Run, MarkDispatchFailed(r)
        PROVE  plan' = plan
    BY <2>4 DEF MarkDispatchFailed
  <2>5. QED
    BY <1>2, <2>1, <2>2, <2>3, <2>4 DEF DispatchStep
<1>3. CASE WorkerStep
  <2>1. ASSUME NEW r \in Run, Start(r), NEW n \in Node
        PROVE  QuietMove(n) /\ plan' = plan
    <3>1. Ingest(r, runs[r], "cancelled") \/ Ingest(r, runs[r], "running")
      BY <2>1 DEF Start
    <3>2. plan' = plan
      BY <3>1 DEF Ingest
    <3>3. QED
      BY <3>1, <3>2, IngestMoves DEF RunDone
  <2>2. ASSUME NEW r \in Run, NEW o \in RunDone, Finish(r, o), NEW n \in Node
        PROVE  QuietMove(n) /\ plan' = plan
    <3>1. Ingest(r, runs[r], o)
      BY <2>2 DEF Finish
    <3>2. plan' = plan
      BY <3>1 DEF Ingest
    <3>3. QED
      BY <3>1, <3>2, IngestMoves
  <2>3. plan' = plan
    BY <1>3 DEF WorkerStep, Start, Finish, Ingest
  <2>4. QED
    BY <1>3, <2>1, <2>2, <2>3 DEF WorkerStep
<1>4. CASE CancelStep
  <2>1. CASE CancelCommit
    <3>1. \A n \in Node : SameAttempt(n)
      BY <2>1 DEF CancelCommit, SameAttempt
    <3>2. \A n \in Node : \/ status'[n] = status[n]
                          \/ status[n] \notin NodeDone /\ status'[n] = "cancelled"
      BY <2>1 DEF CancelCommit
    <3>3. plan' = plan
      BY <2>1 DEF CancelCommit
    <3>4. QED
      BY <3>1, <3>2, <3>3 DEF QuietMove, Stays, Ends, NodeDone
  <2>2. CASE ~CancelCommit
    BY <1>4, <2>2, Unmoved DEF CancelStep, CancelCheck, CancelSelect, Propagate, nodeVars
  <2>3. QED
    BY <2>1, <2>2
<1>5. CASE UserStep
  <2>1. ASSUME NEW r \in Run, Park(r), NEW n \in Node
        PROVE  QuietMove(n)
    <3>1. Ingest(r, "waiting_approval", "waiting_approval")
      BY <2>1 DEF Park
    <3>2. QED
      BY <3>1, IngestMoves
  <2>2. ASSUME NEW r \in Run, Approve(r) \/ Reject(r) \/ CancelRun(r)
        PROVE  \A n \in Node : QuietMove(n)
    BY <2>2, Unmoved DEF Approve, Reject, CancelRun, nodeVars
  <2>3. plan' = plan
    BY <1>5 DEF UserStep, Park, Approve, Reject, CancelRun, Ingest
  <2>4. QED
    BY <1>5, <2>1, <2>2, <2>3 DEF UserStep
<1>6. CASE FaultStep
  BY <1>6, Unmoved
     DEF FaultStep, TickFails, PrepareFails, CredentialFails, DispatchFails, ResumeFails,
         WorkerLost, PropagateFails, Crash, nodeVars
<1>7. CASE Create \/ TickNothing \/ InternalTick \/ \E n \in Node : BackoffOver(n)
  BY <1>7, Unmoved DEF Create, TickNothing, InternalTick, BackoffOver, nodeVars
<1>8. QED
  BY <1>1, <1>2, <1>3, <1>4, <1>5, <1>6, <1>7 DEF Next

LEMMA NextMoves ==
  ASSUME TypeOK, NodeInv, WorkflowAssumption, Next
  PROVE  (\A n \in Node : NodeMove(n)) /\ plan' = plan
<1>1. CASE \E go : Dispatched(go)
  <2>1. plan' = plan
    BY <1>1 DEF Dispatched, TickDispatch
  <2>2. QED
    BY <1>1, <2>1, DispatchMoves DEF Dispatched
<1>2. CASE ~\E go : Dispatched(go)
  BY <1>2, QuietSteps DEF NodeMove
<1>3. QED
  BY <1>1, <1>2

-----------------------------------------------------------------------------
(* The invariant of the nodes *)

\* A node that has completed stays so.
LEMMA CompletedStays ==
  ASSUME NEW n \in Node, NodeMove(n), status[n] = "completed"
  PROVE  status'[n] = "completed"
BY DEF NodeMove, QuietMove, Stays, Ends, GoesOn, Retries, GetsReady, IsDispatched, NodeActive,
       NodeDone

LEMMA MovesKeepNodeInv ==
  ASSUME TypeOK, TypeOK', NodeInv, \A n \in Node : NodeMove(n), plan' = plan,
         WorkflowAssumption
  PROVE  NodeInv'
<1>1. \A n \in Node : Upstream(n)' = Upstream(n) /\ Upstream(n) \subseteq Node
  BY DEF Upstream
<1>2. \A n \in Node : UpstreamCompleted(n) => UpstreamCompleted(n)'
  BY <1>1, CompletedStays DEF UpstreamCompleted
<1>3. ASSUME NEW n \in Node
      PROVE  /\ status'[n] \in {"pending", "ready"} =>
                  attempts'[n] < MaxAttempts[n] /\ agentRun'[n] = 0
             /\ status'[n] \in NodeActive => attempts'[n] > 0 /\ agentRun'[n] = attempts'[n]
  <2>1. /\ status[n] \in {"pending", "ready"} => attempts[n] < MaxAttempts[n] /\ agentRun[n] = 0
        /\ status[n] \in NodeActive => attempts[n] > 0 /\ agentRun[n] = attempts[n]
        /\ attempts[n] \in Nat
    BY DEF NodeInv, AttemptsAddUp, TypeOK
  <2>2. CASE Stays(n)
    BY <2>1, <2>2 DEF Stays, SameAttempt
  <2>3. CASE Ends(n)
    BY <2>3 DEF Ends, NodeDone, NodeActive
  <2>4. CASE GoesOn(n)
    BY <2>1, <2>4 DEF GoesOn, SameAttempt, NodeActive
  <2>5. CASE Retries(n)
    BY <2>5 DEF Retries, NodeActive
  <2>6. CASE GetsReady(n)
    BY <2>1, <2>6 DEF GetsReady, SameAttempt, NodeActive
  <2>7. CASE IsDispatched(n)
    BY <2>1, <2>7 DEF IsDispatched
  <2>8. QED
    BY <2>2, <2>3, <2>4, <2>5, <2>6, <2>7 DEF NodeMove, QuietMove
<1>4. ASSUME NEW n \in Node, attempts'[n] > 0
      PROVE  UpstreamCompleted(n)'
  <2>1. attempts[n] > 0 \/ UpstreamCompleted(n)
    BY <1>4 DEF NodeMove, QuietMove, Stays, Ends, GoesOn, Retries, GetsReady, IsDispatched,
                SameAttempt
  <2>2. UpstreamCompleted(n)
    BY <2>1 DEF NodeInv, StartedAfterUpstream, UpstreamCompleted
  <2>3. QED
    BY <1>2, <2>2
<1>5. ASSUME NEW n \in Node, status'[n] = "ready"
      PROVE  UpstreamCompleted(n)'
  <2>1. status[n] = "ready" \/ UpstreamCompleted(n)
    BY <1>5 DEF NodeMove, QuietMove, Stays, Ends, GoesOn, Retries, GetsReady, IsDispatched,
                NodeDone, NodeActive
  <2>2. UpstreamCompleted(n)
    BY <2>1 DEF NodeInv, ReadyAfterUpstream
  <2>3. QED
    BY <1>2, <2>2
<1>6. AttemptsAddUp'
  BY <1>3 DEF AttemptsAddUp
<1>7. StartedAfterUpstream'
  BY <1>4 DEF StartedAfterUpstream, UpstreamCompleted
<1>8. ReadyAfterUpstream'
  BY <1>5 DEF ReadyAfterUpstream
<1>9. QED
  BY <1>6, <1>7, <1>8 DEF NodeInv

-----------------------------------------------------------------------------
(* Types *)

\* The runs of a dispatch are attempts their nodes have left.
LEMMA NewRuns ==
  ASSUME TypeOK, NodeInv, WorkflowAssumption, NEW go, Dispatched(go), NEW n \in go
  PROVE  n \in Node /\ <<n, attempts[n] + 1>> \in Run /\ attempts[n] + 1 \in 0..10
<1>1. n \in Node /\ status[n] = "ready"
  BY TruncatedReady DEF Dispatched, ReadyNodes
<1>2. attempts[n] \in 0..10 /\ MaxAttempts[n] \in 1..10
  BY <1>1 DEF TypeOK, WorkflowAssumption
<1>3. attempts[n] < MaxAttempts[n]
  BY <1>1 DEF NodeInv, AttemptsAddUp
<1>4. QED
  BY <1>1, <1>2, <1>3 DEF Run

LEMMA TickTypes ==
  ASSUME TypeOK, NodeInv, WorkflowAssumption, TickOwed, TickStep
  PROVE  TypeOK'
<1> USE DEF TypeOK
<1>1. CASE \E late \in SUBSET Started : TickSweep(late)
  <2>1. PICK late \in SUBSET Started : TickSweep(late)
    BY <1>1
  <2>2. status' \in [Node -> NodeStatus]
    <3>1. \A n \in Node : AfterSweep(late)[n] \in NodeStatus
      BY Sweep DEF NodeInv
    <3>2. status' = AfterSweep(late)
      BY <2>1 DEF TickSweep
    <3>3. status' = [n \in Node |-> status'[n]]
      BY <3>2 DEF AfterSweep, AfterReady
    <3>4. QED
      BY <3>1, <3>2, <3>3
  <2>3. agentRun' \in [Node -> 0..10] /\ due' \in [Node -> BOOLEAN]
    <3>1. agentRun' \in [Node -> 0..10]
      BY <2>1 DEF TickSweep
    <3>2. \A n \in Node : DueAfter(late)[n] \in BOOLEAN
      BY DEF DueAfter
    <3>3. due' = [n \in Node |-> DueAfter(late)[n]]
      BY <2>1 DEF TickSweep, DueAfter
    <3>4. QED
      BY <3>1, <3>2, <3>3
  <2>4. runs' \in [Run -> {"none"} \cup RunLive \cup RunDone]
    BY <2>1 DEF TickSweep, RunDone
  <2>5. troubles' \in Nat
    BY <2>1 DEF TickSweep, Trouble
  <2>6. QED
    BY <2>1, <2>2, <2>3, <2>4, <2>5 DEF TickSweep, listVars, cancelVars
<1>2. CASE \E go : Dispatched(go)
  <2>1. PICK go : Dispatched(go)
    BY <1>2
  <2>2. TickDispatch(go)
    BY <2>1 DEF Dispatched
  <2>3. attempts' \in [Node -> 0..10] /\ agentRun' \in [Node -> 0..10]
    BY <2>1, <2>2, NewRuns DEF TickDispatch
  <2>4. status' \in [Node -> NodeStatus] /\ due' \in [Node -> BOOLEAN]
    BY <2>2 DEF TickDispatch, NodeStatus, NodeActive
  <2>5. runs' \in [Run -> {"none"} \cup RunLive \cup RunDone]
    BY <2>2 DEF TickDispatch, RunLive
  <2>6. preparing' \in SUBSET SUBSET Run
    <3> DEFINE new == {<<n, attempts[n] + 1>> : n \in go}
    <3>1. new \subseteq Run
      BY <2>1, NewRuns
    <3>2. preparing' = preparing \/ preparing' = preparing \cup {new}
      BY <2>2 DEF TickDispatch
    <3>3. QED
      BY <3>1, <3>2
  <2>7. QED
    BY <2>2, <2>3, <2>4, <2>5, <2>6 DEF TickDispatch, cancelVars
<1>3. CASE TickCommit
  <2>1. workflow' \in {"none", "queued", "running"} \cup WorkflowDone
    BY <1>3 DEF TickCommit, StatusOf, WorkflowDone
  <2>2. ticksDue' \in Nat
    BY <1>3 DEF TickCommit, TickOwed
  <2>3. QED
    BY <1>3, <2>1, <2>2 DEF TickCommit, nodeVars, listVars, cancelVars
<1>4. QED
  BY <1>1, <1>2, <1>3 DEF TickStep, Dispatched

LEMMA IngestTypes ==
  ASSUME TypeOK, NEW r \in Run, NEW was \in {"none"} \cup RunLive \cup RunDone,
         NEW s \in {"running", "waiting_approval"} \cup RunDone, Ingest(r, was, s)
  PROVE  /\ plan' \in Plans
         /\ workflow' \in {"none", "queued", "running"} \cup WorkflowDone
         /\ status' \in [Node -> NodeStatus]
         /\ attempts' \in [Node -> 0..10]
         /\ agentRun' \in [Node -> 0..10]
         /\ due' \in [Node -> BOOLEAN]
         /\ runs' \in [Run -> {"none"} \cup RunLive \cup RunDone]
         /\ ticking' \in {"no", "swept", "inserted"}
         /\ ticksDue' \in Nat
         /\ preparing' \in SUBSET SUBSET Run
         /\ dispatching' \in SUBSET SUBSET Run
         /\ failing' \in SUBSET Run
<1> USE DEF TypeOK
<1>1. s \in NodeStatus /\ s \in RunLive \cup RunDone /\ "pending" \in NodeStatus
  BY DEF NodeStatus, NodeActive, NodeDone, RunDone, RunLive
<1>2. runs' \in [Run -> {"none"} \cup RunLive \cup RunDone]
  BY <1>1 DEF Ingest, RunAfter
<1>3. status' \in [Node -> NodeStatus]
  BY <1>1 DEF Ingest
<1>4. agentRun' \in [Node -> 0..10]
  <2>1. \/ agentRun' = agentRun
        \/ agentRun' = [agentRun EXCEPT ![r[1]] = 0]
        \/ agentRun' = [agentRun EXCEPT ![r[1]] = @]
    BY DEF Ingest
  <2>2. QED
    BY <2>1
<1>5. due' \in [Node -> BOOLEAN]
  BY DEF Ingest
<1>6. ticksDue' \in Nat
  BY DEF Ingest
<1>7. QED
  BY <1>2, <1>3, <1>4, <1>5, <1>6 DEF Ingest, listVars

LEMMA NextTypes ==
  ASSUME TypeOK, NodeInv, WorkflowAssumption, TickOwed, Next
  PROVE  TypeOK'
<1>1. CASE TickStep
  BY <1>1, TickTypes
<1>2. CASE DispatchStep
  <2> USE DEF TypeOK, tickVars, nodeVars, cancelVars, listVars
  <2>1. ASSUME NEW list \in preparing, Prepare(list)
        PROVE  TypeOK'
    BY <2>1 DEF Prepare
  <2>2. ASSUME NEW list \in dispatching, NEW r \in Run, Dispatch(list, r)
        PROVE  TypeOK'
    <3>1. dispatching' \in SUBSET SUBSET Run
      BY <2>2 DEF Dispatch, Rest
    <3>2. worker' \in [Run -> WorkerState]
      BY <2>2 DEF Dispatch, WorkerState
    <3>3. QED
      BY <2>2, <3>1, <3>2 DEF Dispatch
  <2>3. ASSUME NEW r \in Run, MarkDispatchFailed(r)
        PROVE  TypeOK'
    <3>1. runs' \in [Run -> {"none"} \cup RunLive \cup RunDone]
      BY <2>3 DEF MarkDispatchFailed, RunDone
    <3>2. status' \in [Node -> NodeStatus]
      BY <2>3 DEF MarkDispatchFailed, NodeStatus, NodeDone
    <3>3. QED
      BY <2>3, <3>1, <3>2 DEF MarkDispatchFailed
  <2>4. QED
    BY <1>2, <2>1, <2>2, <2>3 DEF DispatchStep
<1>3. CASE WorkerStep
  <2>1. ASSUME NEW r \in Run, Start(r)
        PROVE  TypeOK'
    <3>1. runs[r] \in {"none"} \cup RunLive \cup RunDone
      BY DEF TypeOK
    <3>2. worker' \in [Run -> WorkerState]
      BY <2>1 DEF Start, TypeOK, WorkerState
    <3>3. CASE Ingest(r, runs[r], "cancelled")
      BY <2>1, <3>1, <3>2, <3>3, IngestTypes DEF Start, TypeOK, cancelVars, RunDone
    <3>4. CASE Ingest(r, runs[r], "running")
      BY <2>1, <3>1, <3>2, <3>4, IngestTypes DEF Start, TypeOK, cancelVars
    <3>5. QED
      BY <2>1, <3>3, <3>4 DEF Start
  <2>2. ASSUME NEW r \in Run, NEW o \in RunDone, Finish(r, o)
        PROVE  TypeOK'
    <3>1. runs[r] \in {"none"} \cup RunLive \cup RunDone
      BY DEF TypeOK
    <3>2. worker' \in [Run -> WorkerState]
      BY <2>2 DEF Finish, TypeOK, WorkerState
    <3>3. Ingest(r, runs[r], o)
      BY <2>2 DEF Finish
    <3>4. /\ <<plan, workflow, status, attempts>>' \in
               Plans \X ({"none", "queued", "running"} \cup WorkflowDone)
                 \X [Node -> NodeStatus] \X [Node -> 0..10]
          /\ agentRun' \in [Node -> 0..10]
          /\ due' \in [Node -> BOOLEAN]
          /\ runs' \in [Run -> {"none"} \cup RunLive \cup RunDone]
          /\ ticking' \in {"no", "swept", "inserted"}
          /\ ticksDue' \in Nat
          /\ preparing' \in SUBSET SUBSET Run
          /\ dispatching' \in SUBSET SUBSET Run
          /\ failing' \in SUBSET Run
      BY <3>1, <3>3, IngestTypes
    <3>5. QED
      BY <2>2, <3>2, <3>4 DEF Finish, TypeOK, cancelVars
  <2>3. QED
    BY <1>3, <2>1, <2>2 DEF WorkerStep
<1>4. CASE CancelStep
  <2> USE DEF TypeOK, tickVars, nodeVars, cancelVars, listVars
  <2>1. CASE CancelCheck \/ CancelSelect
    BY <2>1 DEF CancelCheck, CancelSelect
  <2>2. CASE CancelCommit
    <3>1. status' \in [Node -> NodeStatus]
      BY <2>2 DEF CancelCommit, NodeStatus, NodeDone
    <3>2. runs' \in [Run -> {"none"} \cup RunLive \cup RunDone]
      BY <2>2 DEF CancelCommit, RunDone
    <3>3. QED
      BY <2>2, <3>1, <3>2 DEF CancelCommit, WorkflowDone
  <2>3. ASSUME NEW r \in Run, NEW killed \in BOOLEAN, NEW redelivered \in BOOLEAN,
               Propagate(r, killed, redelivered)
        PROVE  TypeOK'
    <3>1. worker' \in [Run -> WorkerState]
      BY <2>3 DEF Propagate, WorkerState
    <3>2. QED
      BY <2>3, <3>1 DEF Propagate
  <2>4. QED
    BY <1>4, <2>1, <2>2, <2>3 DEF CancelStep
<1>5. CASE UserStep
  <2>1. ASSUME NEW r \in Run, Park(r)
        PROVE  TypeOK'
    <3>1. Ingest(r, "waiting_approval", "waiting_approval")
      BY <2>1 DEF Park
    <3>2. worker' \in [Run -> WorkerState]
      BY <2>1 DEF Park, TypeOK, WorkerState
    <3>3. QED
      BY <2>1, <3>1, <3>2, IngestTypes DEF Park, TypeOK, cancelVars, RunLive
  <2>2. ASSUME NEW r \in Run, Approve(r) \/ Reject(r)
        PROVE  TypeOK'
    BY <2>2 DEF Approve, Reject, Trouble, TypeOK, WorkerState, RunDone, tickVars, nodeVars,
                cancelVars, listVars
  <2>3. ASSUME NEW r \in Run, CancelRun(r)
        PROVE  TypeOK'
    BY <2>3 DEF CancelRun, Trouble, TypeOK, RunDone, tickVars, nodeVars, listVars
  <2>4. QED
    BY <1>5, <2>1, <2>2, <2>3 DEF UserStep
<1>6. CASE FaultStep
  <2> USE DEF TypeOK, Trouble, tickVars, nodeVars, cancelVars, listVars
  <2>1. CASE TickFails \/ Crash
    BY <2>1 DEF TickFails, Crash
  <2>2. ASSUME NEW list \in preparing, NEW r \in Run,
               PrepareFails(list) \/ CredentialFails(list, r)
        PROVE  TypeOK'
    BY <2>2 DEF PrepareFails, CredentialFails
  <2>3. ASSUME NEW list \in preparing, PrepareFails(list)
        PROVE  TypeOK'
    BY <2>3 DEF PrepareFails
  <2>4. ASSUME NEW list \in dispatching, NEW r \in Run, NEW state \in {"none", "accepted"},
               DispatchFails(list, r, state)
        PROVE  TypeOK'
    BY <2>4 DEF DispatchFails, WorkerState
  <2>5. ASSUME NEW r \in Run, ResumeFails(r)
        PROVE  TypeOK'
    BY <2>5 DEF ResumeFails, RunAfter, RunDone, WorkerState
  <2>6. ASSUME NEW r \in Run, WorkerLost(r) \/ PropagateFails(r)
        PROVE  TypeOK'
    BY <2>6 DEF WorkerLost, PropagateFails, WorkerState
  <2>7. QED
    BY <1>6, <2>1, <2>2, <2>3, <2>4, <2>5, <2>6 DEF FaultStep
<1>7. CASE Create \/ TickNothing \/ InternalTick
  BY <1>7 DEF Create, TickNothing, InternalTick, TypeOK, nodeVars, cancelVars, listVars
<1>8. CASE \E n \in Node : BackoffOver(n)
  BY <1>8 DEF BackoffOver, TypeOK, cancelVars, listVars
<1>9. QED
  BY <1>1, <1>2, <1>3, <1>4, <1>5, <1>6, <1>7, <1>8 DEF Next

-----------------------------------------------------------------------------
(* The limit of active nodes *)

\* A quiet step makes no node active.
LEMMA QuietKeepsLimit ==
  ASSUME TypeOK, WithinLimit, WorkflowAssumption, \A n \in Node : QuietMove(n), plan' = plan
  PROVE  WithinLimit'
<1>1. ASSUME NEW n \in Node, status'[n] \in NodeActive
      PROVE  status[n] \in NodeActive
  BY <1>1 DEF QuietMove, Stays, Ends, GoesOn, Retries, GetsReady, NodeActive, NodeDone
<1>2. ActiveNodes(status') \subseteq ActiveNodes(status)
  BY <1>1 DEF ActiveNodes
<1>3. IsFiniteSet(ActiveNodes(status))
  BY FS_Subset DEF ActiveNodes, WorkflowAssumption
<1>4. /\ Cardinality(ActiveNodes(status')) <= Cardinality(ActiveNodes(status))
      /\ IsFiniteSet(ActiveNodes(status'))
  BY <1>2, <1>3, FS_Subset
<1>5. /\ Cardinality(ActiveNodes(status')) \in Nat
      /\ Cardinality(ActiveNodes(status)) \in Nat
      /\ plan.limit \in Nat
  BY <1>3, <1>4, FS_CardinalityType DEF TypeOK, WorkflowAssumption
<1>6. QED
  BY <1>4, <1>5 DEF WithinLimit

\* What a tick dispatches fits into what the active nodes leave of the limit.
LEMMA TruncatedFits ==
  ASSUME NEW ready, IsFiniteSet(ready), NEW active, IsFiniteSet(active),
         NEW go \in Truncated(ready, active),
         plan.limit \in Nat, Cardinality(active) <= plan.limit
  PROVE  Cardinality(go) + Cardinality(active) <= plan.limit
<1> DEFINE capacity == IF plan.limit > Cardinality(active)
                       THEN plan.limit - Cardinality(active) ELSE 0
<1>1. Cardinality(active) \in Nat /\ Cardinality(ready) \in Nat
  BY FS_CardinalityType
<1>2. capacity \in Nat /\ capacity + Cardinality(active) <= plan.limit
  BY <1>1
<1>3. go \subseteq ready /\ Cardinality(go) <= capacity
  <2>1. CASE Cardinality(ready) <= capacity
    BY <2>1 DEF Truncated
  <2>2. CASE ~ (Cardinality(ready) <= capacity)
    <3>1. go \in SUBSET ready /\ Cardinality(go) = capacity
      BY <2>2 DEF Truncated
    <3>2. QED
      BY <1>2, <3>1
  <2>3. QED
    BY <2>1, <2>2
<1>4. Cardinality(go) \in Nat
  BY <1>3, FS_Subset, FS_CardinalityType
<1>5. QED
  BY <1>1, <1>2, <1>3, <1>4

LEMMA DispatchKeepsLimit ==
  ASSUME TypeOK, WithinLimit, WorkflowAssumption, NEW go, Dispatched(go)
  PROVE  WithinLimit'
<1> DEFINE active == ActiveNodes(status)
<1>1. IsFiniteSet(active) /\ IsFiniteSet(ReadyNodes(status))
  BY FS_Subset DEF ActiveNodes, ReadyNodes, WorkflowAssumption
<1>2. go \subseteq ReadyNodes(status)
  BY TruncatedReady DEF Dispatched
<1>3. IsFiniteSet(go)
  BY <1>1, <1>2, FS_Subset
<1>4. ActiveNodes(status') = active \cup go
  BY <1>2 DEF ActiveNodes, ReadyNodes, NodeActive, Dispatched, TickDispatch
<1>5. plan.limit \in Nat /\ plan' = plan
  BY DEF TypeOK, WorkflowAssumption, Dispatched, TickDispatch
<1>6. Cardinality(go) + Cardinality(active) <= plan.limit
  BY <1>1, <1>5, TruncatedFits DEF WithinLimit, Dispatched
<1>7. Cardinality(active \cup go) = Cardinality(active) + Cardinality(go) - Cardinality(active \cap go)
  BY <1>1, <1>3, FS_Union
<1>8. /\ Cardinality(active) \in Nat /\ Cardinality(go) \in Nat
      /\ Cardinality(active \cap go) \in Nat
  BY <1>1, <1>3, FS_Subset, FS_CardinalityType
<1>9. Cardinality(active \cup go) <= plan.limit
  BY <1>5, <1>6, <1>7, <1>8
<1>10. QED
  BY <1>4, <1>5, <1>9 DEF WithinLimit

LEMMA NextKeepsLimit ==
  ASSUME TypeOK, NodeInv, WithinLimit, WorkflowAssumption, Next
  PROVE  WithinLimit'
<1>1. CASE \E go : Dispatched(go)
  BY <1>1, DispatchKeepsLimit
<1>2. CASE ~\E go : Dispatched(go)
  BY <1>2, QuietSteps, QuietKeepsLimit
<1>3. QED
  BY <1>1, <1>2

\* Only the commit of a tick takes back what it owes while it is under way.
LEMMA NextKeepsOwed ==
  ASSUME TypeOK, TickOwed, Next
  PROVE  TickOwed'
<1> USE DEF TypeOK, TickOwed, MayTick, tickVars
<1>1. CASE TickStep
  BY <1>1 DEF TickStep, TickSweep, TickDispatch, TickCommit
<1>2. CASE DispatchStep
  BY <1>2 DEF DispatchStep, Prepare, Dispatch, MarkDispatchFailed
<1>3. CASE WorkerStep
  BY <1>3 DEF WorkerStep, Start, Finish, Ingest
<1>4. CASE CancelStep
  BY <1>4 DEF CancelStep, CancelCheck, CancelSelect, CancelCommit, Propagate
<1>5. CASE UserStep
  BY <1>5 DEF UserStep, Park, Approve, Reject, CancelRun, Ingest
<1>6. CASE FaultStep
  BY <1>6 DEF FaultStep, TickFails, PrepareFails, CredentialFails, DispatchFails, ResumeFails,
              WorkerLost, PropagateFails, Crash
<1>7. CASE Create \/ TickNothing \/ InternalTick \/ \E n \in Node : BackoffOver(n)
  BY <1>7 DEF Create, TickNothing, InternalTick, BackoffOver
<1>8. QED
  BY <1>1, <1>2, <1>3, <1>4, <1>5, <1>6, <1>7 DEF Next

-----------------------------------------------------------------------------
(* Theorems *)

LEMMA InitInv ==
  ASSUME WorkflowAssumption, Init
  PROVE  WorkflowInv
<1>1. TypeOK
  BY DEF Init, TypeOK, NodeStatus, WorkerState, RunLive, WorkflowDone
<1>2. NodeInv
  BY DEF Init, NodeInv, AttemptsAddUp, StartedAfterUpstream, ReadyAfterUpstream, NodeActive,
         WorkflowAssumption
<1>3. ActiveNodes(status) = {}
  BY DEF Init, ActiveNodes, NodeActive
<1>4. Cardinality(ActiveNodes(status)) = 0
  BY <1>3, FS_EmptySet
<1>5. WithinLimit
  BY <1>1, <1>4 DEF WithinLimit, TypeOK, WorkflowAssumption
<1>6. TickOwed
  BY DEF Init, TickOwed
<1>7. QED
  BY <1>1, <1>2, <1>5, <1>6 DEF WorkflowInv

LEMMA StepInv ==
  ASSUME WorkflowAssumption, WorkflowInv, [Next]_vars
  PROVE  WorkflowInv'
<1>1. CASE Next
  <2>1. TypeOK'
    BY <1>1, NextTypes DEF WorkflowInv
  <2>2. NodeInv'
    BY <1>1, <2>1, NextMoves, MovesKeepNodeInv DEF WorkflowInv
  <2>3. WithinLimit'
    BY <1>1, NextKeepsLimit DEF WorkflowInv
  <2>4. TickOwed'
    BY <1>1, NextKeepsOwed DEF WorkflowInv
  <2>5. QED
    BY <2>1, <2>2, <2>3, <2>4 DEF WorkflowInv
<1>2. CASE UNCHANGED vars
  BY <1>2
     DEF vars, nodeVars, tickVars, listVars, cancelVars, WorkflowInv, TypeOK, NodeInv,
         AttemptsAddUp, StartedAfterUpstream, ReadyAfterUpstream, UpstreamCompleted, Upstream,
         WithinLimit, TickOwed, MayTick
<1>3. QED
  BY <1>1, <1>2

\* The inductive invariant, for every plan, retry policy and number of troubles.
THEOREM WorkflowInvariant == Spec => []WorkflowInv
<1>1. Init => WorkflowInv
  BY InitInv, WorkflowAssumption
<1>2. WorkflowInv /\ [Next]_vars => WorkflowInv'
  BY StepInv, WorkflowAssumption
<1>3. QED
  BY <1>1, <1>2, PTL DEF Spec

\* Type correctness of the workflow scheduler.
THEOREM WorkflowTypeCorrect == Spec => []TypeOK
<1>1. WorkflowInv => TypeOK
  BY DEF WorkflowInv
<1>2. QED
  BY <1>1, WorkflowInvariant, PTL

\* A tick dispatches a node only after all its upstream nodes completed, and
\* these stay completed.
THEOREM WorkflowOrder == Spec => []StartedAfterUpstream
<1>1. WorkflowInv => StartedAfterUpstream
  BY DEF WorkflowInv, NodeInv
<1>2. QED
  BY <1>1, WorkflowInvariant, PTL

\* The attempts of a node never exceed its retry policy, and its run is that of
\* its last attempt.
THEOREM WorkflowAttempts == Spec => []AttemptsAddUp
<1>1. WorkflowInv => AttemptsAddUp
  BY DEF WorkflowInv, NodeInv
<1>2. QED
  BY <1>1, WorkflowInvariant, PTL

\* Ticks that run between the reports of many runs keep to the concurrency limit.
THEOREM WorkflowKeepsLimit == Spec => []WithinLimit
<1>1. WorkflowInv => WithinLimit
  BY DEF WorkflowInv
<1>2. QED
  BY <1>1, WorkflowInvariant, PTL

\* A tick leaves a workflow that has ended alone: only a cancel that read it
\* before changes its status.
THEOREM WorkflowEndedStays == Spec => EndedStaysEnded
<1>1. ASSUME WorkflowInv, [Next]_vars, workflow \in WorkflowDone
      PROVE  workflow' \in {workflow, "cancelled"}
  <2>1. CASE CancelCommit
    BY <2>1 DEF CancelCommit
  <2>2. CASE ~CancelCommit
    <3>1. ~TickCommit /\ ~Create
      BY <1>1 DEF WorkflowInv, TickOwed, MayTick, WorkflowDone, TickCommit, Create
    <3>2. CASE Next
      BY <2>2, <3>1, <3>2
         DEF Next, TickStep, TickSweep, TickDispatch, TickNothing, InternalTick, BackoffOver,
             DispatchStep, Prepare, Dispatch, MarkDispatchFailed, WorkerStep, Start, Finish,
             Ingest, CancelStep, CancelCheck, CancelSelect, Propagate, UserStep, Park, Approve,
             Reject, CancelRun, FaultStep, TickFails, PrepareFails, CredentialFails,
             DispatchFails, ResumeFails, WorkerLost, PropagateFails, Crash
    <3>3. CASE UNCHANGED vars
      BY <3>3 DEF vars
    <3>4. QED
      BY <1>1, <3>2, <3>3
  <2>3. QED
    BY <2>1, <2>2
<1>2. WorkflowInv /\ [Next]_vars =>
        [(workflow \in WorkflowDone) => (workflow' \in {workflow, "cancelled"})]_vars
  BY <1>1
<1>3. QED
  BY <1>2, WorkflowInvariant, PTL DEF EndedStaysEnded, Spec

-----------------------------------------------------------------------------
(* The scheduler implements WorkflowDag *)

LEMMA PhaseOf ==
  ASSUME TypeOK, NEW n \in Node
  PROVE  /\ Phase(n) \in {"idle", "active", "done", "dead"}
         /\ Phase(n) = "idle" <=> status[n] \in {"pending", "ready"}
         /\ Phase(n) = "active" <=> status[n] \in NodeActive
         /\ Phase(n) = "done" <=> status[n] = "completed"
BY DEF TypeOK, Phase, NodeStatus, NodeActive, NodeDone

LEMMA DagInit ==
  ASSUME Init
  PROVE  Dag!Init
BY DEF Init, Dag!Init, Phase

LEMMA DagMove ==
  ASSUME TypeOK, TypeOK', NodeInv, NEW n \in Node, NodeMove(n)
  PROVE  /\ Phase(n) \in {"done", "dead"} => Phase(n)' = Phase(n)
         /\ Phase(n) = "idle" => Phase(n)' # "done"
         /\ Phase(n) = "idle" /\ Phase(n)' = "active" =>
              \A m \in Node : <<m, n>> \in plan.edges => Phase(m) = "done"
<1>1. Phase(n) \in {"done", "dead"} => status[n] \in NodeDone
  BY DEF TypeOK, Phase, NodeStatus
<1>2. Phase(n) \in {"done", "dead"} => Phase(n)' = Phase(n)
  BY <1>1 DEF NodeMove, QuietMove, Stays, Ends, GoesOn, Retries, GetsReady, IsDispatched,
              NodeActive, NodeDone, Phase
<1>3. Phase(n) = "idle" => status[n] \in {"pending", "ready"}
  BY PhaseOf
<1>4. Phase(n) = "idle" => Phase(n)' # "done"
  BY <1>3 DEF NodeMove, QuietMove, Stays, Ends, GoesOn, Retries, GetsReady, IsDispatched,
              NodeActive, Phase
<1>5. Phase(n) = "idle" /\ Phase(n)' = "active" => UpstreamCompleted(n)
  BY <1>3 DEF NodeMove, QuietMove, Stays, Ends, GoesOn, Retries, GetsReady, IsDispatched,
              NodeActive, NodeDone, Phase
<1>6. UpstreamCompleted(n) => \A m \in Node : <<m, n>> \in plan.edges => Phase(m) = "done"
  BY PhaseOf DEF UpstreamCompleted, Upstream
<1>7. QED
  BY <1>2, <1>4, <1>5, <1>6

LEMMA DagStep ==
  ASSUME WorkflowAssumption, WorkflowInv, WorkflowInv', [Next]_vars
  PROVE  Dag!Step \/ UNCHANGED <<plan, [n \in Node |-> Phase(n)]>>
<1>1. CASE Next
  <2>1. TypeOK /\ TypeOK' /\ NodeInv /\ WithinLimit'
    BY DEF WorkflowInv
  <2>2. (\A n \in Node : NodeMove(n)) /\ plan' = plan
    BY <1>1, <2>1, NextMoves
  <2>3. \A n \in Node : Phase(n)' \in {"idle", "active", "done", "dead"}
    BY <2>1 DEF TypeOK, Phase
  <2>4. \A n \in Node : Dag!Move(n, Phase(n)')
    BY <2>1, <2>2, DagMove DEF Dag!Move
  <2>5. Dag!ActiveNodes([n \in Node |-> Phase(n)]') = ActiveNodes(status')
    BY DEF Dag!ActiveNodes, ActiveNodes, Phase, NodeActive
  <2>6. Cardinality(Dag!ActiveNodes([n \in Node |-> Phase(n)]')) <= plan.limit
    BY <2>1, <2>2, <2>5 DEF WithinLimit
  <2>7. \A S : Dag!Cardinality(S) = Cardinality(S)
    BY DEF Dag!Cardinality, Cardinality
  <2>8. Dag!Cardinality(Dag!ActiveNodes([n \in Node |-> Phase(n)]')) <= plan.limit
    BY <2>6, <2>7
  <2>9. [n \in Node |-> Phase(n)]' \in [Node -> Dag!Phase]
    BY <2>3 DEF Dag!Phase
  <2>10. \A n \in Node : Dag!Move(n, ([m \in Node |-> Phase(m)]')[n])
    BY <2>4
  <2>11. Dag!Step
    BY <2>2, <2>8, <2>9, <2>10 DEF Dag!Step
  <2>12. QED
    BY <2>11
<1>2. CASE UNCHANGED vars
  BY <1>2 DEF vars, nodeVars, Phase
<1>3. QED
  BY <1>1, <1>2

\* The scheduler implements WorkflowDag.
THEOREM WorkflowImplementsDag == Spec => ImplementsDag
<1>1. Init => Dag!Init
  BY DagInit
<1>2. WorkflowInv /\ WorkflowInv' /\ [Next]_vars =>
        [Dag!Step]_<<plan, [n \in Node |-> Phase(n)]>>
  BY DagStep, WorkflowAssumption
<1>3. QED
  BY <1>1, <1>2, WorkflowInvariant, PTL DEF Spec, ImplementsDag, Dag!Spec

-----------------------------------------------------------------------------
(* The runs of a node                                                      *)

\* The dispatch lists that hold run r.
Listed(r) == \E list \in preparing \cup dispatching : r \in list

\* A run the scheduler or the runtime knows of.
Known(r) == worker[r] # "none" \/ r \in failing \cup selected \/ Listed(r)

LastRun(n) == <<n, attempts[n]>>

\* The runs of a node are those of the attempts it has made.
RunsOfAttempts ==
  /\ \A n \in Node : attempts[n] <= MaxAttempts[n] /\ agentRun[n] \in {0, attempts[n]}
  /\ \A r \in Run : runs[r] # "none" <=> r[2] <= attempts[r[1]]
  /\ \A r \in Run : Known(r) => runs[r] # "none"

Apart(P, D) ==
  /\ \A l \in P, m \in D : l \cap m = {}
  /\ \A l, m \in P : l # m => l \cap m = {}
  /\ \A l, m \in D : l # m => l \cap m = {}

\* A run that is to be dispatched is in one list, and no worker has it.
ListsApart ==
  /\ \A r \in Run : Listed(r) => worker[r] = "none"
  /\ Apart(preparing, dispatching)

\* The run that completed a node has no worker that could still report.
CompletedRunEnded ==
  \A n \in Node : status[n] = "completed" =>
    attempts[n] > 0 /\ worker[LastRun(n)] = "ended" /\ runs[LastRun(n)] \in RunDone

Calm == troubles = 0 /\ workflow # "cancelled"

\* Run r has a task, a worker or a place in a list only while it lives, and it
\* lives only as the run of an active node.
CalmRun(r) ==
  /\ worker[r] \notin {"none", "ended"} \/ Listed(r) => runs[r] \in RunLive
  /\ runs[r] \in RunLive => agentRun[r[1]] = r[2] /\ status[r[1]] \in NodeActive

\* Nothing went wrong and the workflow was not cancelled.
CalmInv ==
  Calm => failing = {} /\ flagged = {} /\ calls = {} /\ \A r \in Run : CalmRun(r)

RunsInv == RunsOfAttempts /\ ListsApart /\ CompletedRunEnded /\ CalmInv

\* What a step other than the dispatch of a tick may do to run r: it inserts no
\* run, and a run that has ended, with its worker, is not brought back.
RunKept(r) ==
  /\ Known(r)' => Known(r) \/ Current(r)
  /\ Listed(r)' => Listed(r) /\ worker'[r] = worker[r]
  /\ worker[r] = "ended" => worker'[r] = "ended"
  /\ runs'[r] = "none" <=> runs[r] = "none"
  /\ runs[r] \in RunDone /\ worker[r] = "ended" => runs'[r] \in RunDone

LEMMA RunsKept ==
  ASSUME TypeOK, NodeInv, RunsOfAttempts, ListsApart, Next, ~\E go : Dispatched(go), NEW r \in Run
  PROVE  RunKept(r)
<1> USE DEF RunKept, Known, Listed, RunsOfAttempts, ListsApart, Apart, RunDone, RunLive, listVars, cancelVars
<1>1. CASE TickStep
  <2>1. CASE TickCommit
    BY <2>1 DEF TickCommit, nodeVars
  <2>2. ASSUME NEW late \in SUBSET Started, TickSweep(late)
        PROVE  RunKept(r)
    <3>1. r \in TimedOutRuns(late) => runs[r] # "none"
      <4> SUFFICES ASSUME NEW n \in late, r = <<n, agentRun[n]>> PROVE runs[r] # "none"
        BY DEF TimedOutRuns
      <4>1. n \in Node /\ status[n] \in NodeActive
        BY WorkflowAssumption DEF Started, NodeActive
      <4>2. agentRun[n] = attempts[n]
        BY <4>1 DEF NodeInv, AttemptsAddUp
      <4>3. attempts[n] <= attempts[n]
        BY <4>1 DEF TypeOK
      <4> QED
        BY <4>2, <4>3
    <3>2. runs'[r] = IF r \in TimedOutRuns(late) /\ runs[r] \notin RunDone THEN "failed" ELSE runs[r]
      BY <2>2 DEF TickSweep
    <3>3. UNCHANGED <<worker, failing, selected, preparing, dispatching>>
      BY <2>2 DEF TickSweep
    <3> QED
      BY <3>1, <3>2, <3>3
  <2> QED
    BY <1>1, <2>1, <2>2 DEF TickStep, Dispatched
<1>2. ASSUME NEW list \in preparing, Prepare(list)
      PROVE  RunKept(r)
  BY <1>2 DEF Prepare
<1>3. ASSUME NEW list \in dispatching, NEW q \in Run, Dispatch(list, q)
      PROVE  RunKept(r)
  BY <1>3 DEF Dispatch, Rest, TypeOK
<1>4. ASSUME NEW q \in Run, MarkDispatchFailed(q)
      PROVE  RunKept(r)
  BY <1>4 DEF MarkDispatchFailed
<1>5. ASSUME NEW q \in Run, Start(q) \/ Park(q) \/ \E o \in RunDone : Finish(q, o)
      PROVE  RunKept(r)
  <2>1. worker[q] \notin {"none", "ended"} /\ runs[q] # "none" /\ ~Listed(q)
    BY <1>5 DEF Start, Park, Finish
  <2>2. /\ \E state \in WorkerState \ {"none"} : worker' = [worker EXCEPT ![q] = state]
        /\ UNCHANGED <<failing, selected, preparing, dispatching>>
    BY <1>5 DEF Start, Park, Finish, Ingest, WorkerState
  <2>3. \E st \in RunLive \cup RunDone :
          runs' = [runs EXCEPT ![q] = st] /\ (runs[q] \in RunDone => st \in RunDone \/ Park(q))
    BY <1>5 DEF Start, Park, Finish, Ingest, RunAfter
  <2>4. CASE r = q
    BY <2>1, <2>2, <2>3, <2>4 DEF TypeOK
  <2>5. CASE r # q
    BY <2>2, <2>3, <2>5 DEF TypeOK
  <2> QED
    BY <2>4, <2>5
<1>6. CASE CancelStep
  BY <1>6 DEF CancelStep, CancelCheck, CancelSelect, CancelCommit, Propagate, TypeOK
<1>7. ASSUME NEW q \in Run, Approve(q) \/ Reject(q) \/ CancelRun(q)
      PROVE  RunKept(r)
  BY <1>7 DEF Approve, Reject, CancelRun, TypeOK
<1>8. ASSUME NEW list \in preparing, NEW q \in Run, PrepareFails(list) \/ CredentialFails(list, q)
      PROVE  RunKept(r)
  BY <1>8 DEF PrepareFails, CredentialFails
<1>9. ASSUME NEW list \in preparing, PrepareFails(list)
      PROVE  RunKept(r)
  BY <1>9 DEF PrepareFails
<1>10. ASSUME NEW list \in dispatching, NEW q \in Run, NEW state \in {"none", "accepted"},
              DispatchFails(list, q, state)
       PROVE  RunKept(r)
  <2>1. Listed(q) /\ runs[q] # "none"
    BY <1>10 DEF DispatchFails
  <2>2. Listed(r)' => Listed(r) /\ r # q
    BY <1>10 DEF DispatchFails
  <2>3. /\ worker' = [worker EXCEPT ![q] = state] /\ failing' = failing \cup {q}
        /\ UNCHANGED <<runs, selected, preparing>> /\ dispatching' \subseteq dispatching
    BY <1>10 DEF DispatchFails
  <2>4. CASE r = q
    BY <2>1, <2>2, <2>3, <2>4 DEF TypeOK
  <2>5. CASE r # q
    BY <2>2, <2>3, <2>5 DEF TypeOK
  <2> QED
    BY <2>4, <2>5
<1>11. ASSUME NEW q \in Run, ResumeFails(q) \/ WorkerLost(q) \/ PropagateFails(q)
       PROVE  RunKept(r)
  <2>1. CASE ResumeFails(q)
    BY <2>1 DEF ResumeFails, RunAfter, TypeOK
  <2>2. CASE WorkerLost(q)
    BY <2>2 DEF WorkerLost, TypeOK
  <2>3. CASE PropagateFails(q)
    BY <2>3 DEF PropagateFails
  <2> QED
    BY <1>11, <2>1, <2>2, <2>3
<1>12. CASE \/ TickFails \/ Crash \/ Create \/ TickNothing \/ InternalTick
            \/ \E n \in Node : BackoffOver(n)
  BY <1>12 DEF TickFails, Crash, Create, TickNothing, InternalTick, BackoffOver
<1> QED
  BY <1>1, <1>2, <1>3, <1>4, <1>5, <1>6, <1>7, <1>8, <1>9, <1>10, <1>11, <1>12
  DEF Next, DispatchStep, WorkerStep, UserStep, FaultStep

\* What the dispatch of a tick does to run r: it inserts r, or leaves it alone.
LEMMA RunsDispatched ==
  ASSUME TypeOK, NodeInv, NEW go, Dispatched(go), NEW r \in Run
  PROVE  /\ UNCHANGED <<worker, failing, selected, flagged, calls, troubles, workflow, dispatching>>
         /\ \A n \in Node : attempts'[n] = IF n \in go THEN attempts[n] + 1 ELSE attempts[n]
         /\ \/ /\ r[1] \in go /\ r[2] = attempts[r[1]] + 1 /\ runs'[r] = "queued"
            \/ /\ ~(r[1] \in go /\ r[2] = attempts[r[1]] + 1) /\ runs'[r] = runs[r]
               /\ Listed(r)' => Listed(r)
<1> DEFINE new == {<<n, attempts[n] + 1>> : n \in go}
<1>1. TickDispatch(go)
  BY DEF Dispatched
<1>2. r \in new <=> r[1] \in go /\ r[2] = attempts[r[1]] + 1
  BY DEF Run
<1>3. runs'[r] = IF r \in new THEN "queued" ELSE runs[r]
  BY <1>1 DEF TickDispatch
<1>4. preparing' \in {preparing, preparing \cup {new}} /\ dispatching' = dispatching
  BY <1>1 DEF TickDispatch
<1>5. r \notin new => (Listed(r)' => Listed(r))
  BY <1>4 DEF Listed
<1>6. UNCHANGED <<worker, failing, selected, flagged, calls, troubles, workflow>>
  BY <1>1 DEF TickDispatch, cancelVars
<1>7. \A n \in Node : attempts'[n] = IF n \in go THEN attempts[n] + 1 ELSE attempts[n]
  BY <1>1 DEF TickDispatch
<1> QED
  BY <1>2, <1>3, <1>4, <1>5, <1>6, <1>7

LEMMA AttemptsNext ==
  ASSUME TypeOK, NodeInv, RunsOfAttempts, WorkflowAssumption, Next, NEW n \in Node
  PROVE  attempts'[n] <= MaxAttempts[n] /\ agentRun'[n] \in {0, attempts'[n]}
BY NextMoves DEF NodeMove, QuietMove, Stays, Ends, GoesOn, Retries, GetsReady, IsDispatched,
   SameAttempt, RunsOfAttempts, TypeOK

LEMMA RunsOfAttemptsNext ==
  ASSUME TypeOK, NodeInv, RunsOfAttempts, ListsApart, WorkflowAssumption, Next
  PROVE  RunsOfAttempts'
<1> SUFFICES ASSUME NEW r \in Run
             PROVE  /\ runs'[r] # "none" <=> r[2] <= attempts'[r[1]]
                    /\ Known(r)' => runs'[r] # "none"
  BY AttemptsNext DEF RunsOfAttempts
<1>1. r[1] \in Node /\ r[2] \in 1..10
  BY DEF Run
<1>2. CASE ~\E go : Dispatched(go)
  <2>1. RunKept(r) /\ attempts'[r[1]] = attempts[r[1]]
    BY <1>1, <1>2, RunsKept, QuietSteps
    DEF QuietMove, Stays, Ends, GoesOn, Retries, GetsReady, SameAttempt
  <2>2. Current(r) => r[2] <= attempts[r[1]]
    BY <1>1 DEF Current, RunsOfAttempts, TypeOK
  <2> QED
    BY <2>1, <2>2 DEF RunKept, RunsOfAttempts
<1>3. ASSUME NEW go, Dispatched(go)
      PROVE  /\ runs'[r] # "none" <=> r[2] <= attempts'[r[1]]
             /\ Known(r)' => runs'[r] # "none"
  <2>1. attempts[r[1]] \in Nat
    BY <1>1 DEF TypeOK
  <2>2. runs'[r] # "none" <=> r[2] <= attempts'[r[1]]
    BY <1>1, <1>3, <2>1, RunsDispatched DEF RunsOfAttempts
  <2>3. Known(r)' => Known(r) \/ runs'[r] = "queued"
    BY <1>3, RunsDispatched DEF Known
  <2>4. runs[r] # "none" => runs'[r] # "none"
    BY <1>3, RunsDispatched
  <2> QED
    BY <2>2, <2>3, <2>4 DEF RunsOfAttempts
<1> QED
  BY <1>2, <1>3

\* Only the report of its current run completes a node.
LEMMA CompletedByReport ==
  ASSUME TypeOK, NodeInv, WorkflowAssumption, Next,
         NEW n \in Node, status[n] # "completed", status'[n] = "completed"
  PROVE  \E r \in Run : r[1] = n /\ Current(r) /\ Finish(r, "completed")
<1>1. ASSUME NEW r \in Run, NEW was, NEW s \in {"running", "waiting_approval"} \cup RunDone,
             Ingest(r, was, s)
      PROVE  s = "completed" /\ Current(r) /\ r[1] = n
  <2>1. Current(r)
    BY <1>1 DEF Ingest
  <2>2. \E t \in {"pending", s} : status' = [status EXCEPT ![r[1]] = t]
    BY <1>1, <2>1 DEF Ingest
  <2> QED
    BY <2>1, <2>2 DEF TypeOK
<1>2. CASE TickStep
  <2>1. ASSUME NEW late \in SUBSET Started, TickSweep(late)
        PROVE  FALSE
    BY <2>1, Sweep, TimeoutSweep DEF TickSweep, NodeInv
  <2> QED
    BY <1>2, <2>1 DEF TickStep, TickDispatch, TickCommit, nodeVars
<1>3. ~DispatchStep
  BY DEF DispatchStep, Prepare, Dispatch, MarkDispatchFailed, nodeVars, TypeOK
<1>4. CASE WorkerStep
  <2>1. ASSUME NEW r \in Run, Start(r)
        PROVE  FALSE
    BY <1>1, <2>1 DEF Start, RunDone
  <2>2. ASSUME NEW r \in Run, NEW s \in RunDone, Finish(r, s)
        PROVE  r[1] = n /\ Current(r) /\ Finish(r, "completed")
    BY <1>1, <2>2 DEF Finish
  <2> QED
    BY <1>4, <2>1, <2>2 DEF WorkerStep
<1>5. ~CancelStep
  BY DEF CancelStep, CancelCheck, CancelSelect, CancelCommit, Propagate, nodeVars
<1>6. ~UserStep
  BY <1>1 DEF UserStep, Park, Approve, Reject, CancelRun, nodeVars
<1>7. ~FaultStep
  BY DEF FaultStep, TickFails, PrepareFails, CredentialFails, DispatchFails, ResumeFails,
         WorkerLost, PropagateFails, Crash, nodeVars
<1>8. ~ (Create \/ TickNothing \/ InternalTick \/ \E m \in Node : BackoffOver(m))
  BY DEF Create, TickNothing, InternalTick, BackoffOver, nodeVars
<1> QED
  BY <1>2, <1>3, <1>4, <1>5, <1>6, <1>7, <1>8 DEF Next

LEMMA CompletedRunEndedNext ==
  ASSUME TypeOK, NodeInv, RunsOfAttempts, ListsApart, CompletedRunEnded, WorkflowAssumption, Next
  PROVE  CompletedRunEnded'
<1> SUFFICES ASSUME NEW n \in Node, status'[n] = "completed"
             PROVE  /\ attempts'[n] > 0 /\ worker'[<<n, attempts'[n]>>] = "ended"
                    /\ runs'[<<n, attempts'[n]>>] \in RunDone
  BY DEF CompletedRunEnded, LastRun
<1>1. CASE status[n] = "completed"
  <2> DEFINE r == <<n, attempts[n]>>
  <2>1. attempts'[n] = attempts[n]
    BY <1>1, NextMoves DEF NodeMove, QuietMove, Stays, Ends, GoesOn, Retries, GetsReady, IsDispatched,
       SameAttempt, NodeActive, NodeDone
  <2>2. attempts[n] > 0 /\ worker[r] = "ended" /\ runs[r] \in RunDone
    BY <1>1 DEF CompletedRunEnded, LastRun
  <2>3. r \in Run
    BY <2>2, WorkflowAssumption DEF Run, RunsOfAttempts, TypeOK
  <2>4. CASE ~\E go : Dispatched(go)
    BY <2>1, <2>2, <2>3, <2>4, RunsKept DEF RunKept
  <2>5. ASSUME NEW go, Dispatched(go)
        PROVE  worker'[r] = "ended" /\ runs'[r] \in RunDone
    <3>1. worker'[r] = "ended"
      BY <2>2, <2>3, <2>5, RunsDispatched
    <3>2. n \notin go
      BY <1>1, <2>5, TruncatedReady DEF Dispatched, ReadyNodes
    <3>3. runs'[r] = runs[r]
      BY <2>3, <2>5, <3>2, RunsDispatched
    <3> QED
      BY <2>2, <3>1, <3>3
  <2> QED
    BY <2>1, <2>2, <2>4, <2>5
<1>2. CASE status[n] # "completed"
  <2>1. PICK r \in Run : r[1] = n /\ Current(r) /\ Finish(r, "completed")
    BY <1>2, CompletedByReport
  <2>2. r[2] = attempts[n] /\ attempts[n] > 0
    BY <2>1 DEF Current, RunsOfAttempts, Run, TypeOK
  <2>3. r = <<n, attempts[n]>>
    BY <2>1, <2>2 DEF Run
  <2>4. attempts' = attempts
    BY <2>1 DEF Finish, Ingest
  <2>5. worker'[r] = "ended" /\ runs'[r] \in RunDone
    BY <2>1 DEF Finish, Ingest, RunAfter, RunDone, TypeOK
  <2> QED
    BY <2>2, <2>3, <2>4, <2>5
<1> QED
  BY <1>1, <1>2

LEMMA ListsApartNext ==
  ASSUME TypeOK, NodeInv, RunsOfAttempts, ListsApart, WorkflowAssumption, Next
  PROVE  ListsApart'
<1>1. ASSUME NEW r \in Run, Listed(r)'
      PROVE  worker'[r] = "none"
  <2>1. CASE ~\E go : Dispatched(go)
    BY <1>1, <2>1, RunsKept DEF RunKept, ListsApart
  <2>2. ASSUME NEW go, Dispatched(go)
        PROVE  worker'[r] = "none"
    <3>1. worker'[r] = worker[r]
      BY <2>2, RunsDispatched
    <3>2. CASE Listed(r)
      BY <3>1, <3>2 DEF ListsApart
    <3>3. CASE ~Listed(r)
      <4>1. r[1] \in go /\ r[2] = attempts[r[1]] + 1
        BY <1>1, <2>2, <3>3, RunsDispatched
      <4>2. ~ (r[2] <= attempts[r[1]])
        BY <4>1 DEF Run, TypeOK
      <4> QED
        BY <3>1, <4>2 DEF RunsOfAttempts, Known
    <3> QED
      BY <3>2, <3>3
  <2> QED
    BY <2>1, <2>2
<1>2. Apart(preparing, dispatching)'
  <2> USE DEF Apart, ListsApart, listVars
  <2>1. ASSUME NEW go, Dispatched(go)
        PROVE  Apart(preparing, dispatching)'
    <3> DEFINE new == {<<n, attempts[n] + 1>> : n \in go}
    <3>1. preparing' \in {preparing, preparing \cup {new}} /\ dispatching' = dispatching
      BY <2>1 DEF Dispatched, TickDispatch
    <3>2. ASSUME NEW l \in preparing \cup dispatching, NEW r \in l \cap new
          PROVE  FALSE
      <4>1. r \in Run /\ runs[r] # "none"
        <5>1. r \in Run
          BY DEF TypeOK
        <5> QED
          BY <5>1 DEF RunsOfAttempts, Known, Listed
      <4>2. r[2] <= attempts[r[1]]
        BY <4>1 DEF RunsOfAttempts
      <4>3. PICK n \in go : r = <<n, attempts[n] + 1>>
        OBVIOUS
      <4>4. n \in Node
        BY <2>1, NewRuns
      <4> QED
        BY <4>2, <4>3, <4>4 DEF TypeOK
    <3>3. \A l \in preparing \cup dispatching : l \cap new = {}
      BY <3>2
    <3> HIDE DEF new
    <3> QED
      BY <3>1, <3>3
  <2>2. CASE TickStep /\ ~\E go : Dispatched(go)
    BY <2>2 DEF TickStep, TickSweep, TickCommit, Dispatched
  <2>3. ASSUME NEW list \in preparing, Prepare(list)
        PROVE  Apart(preparing, dispatching)'
    BY <2>3 DEF Prepare
  <2>4. ASSUME NEW list \in dispatching, NEW r \in Run, Dispatch(list, r)
        PROVE  Apart(preparing, dispatching)'
    <3>1. /\ preparing' = preparing
          /\ \A l \in dispatching' : l \in dispatching \ {list} \/ l = list \ {r}
      BY <2>4 DEF Dispatch, Rest
    <3>2. \A l \in preparing, m \in dispatching : l \cap m = {} /\ l \cap (m \ {r}) = {}
      OBVIOUS
    <3>3. \A m \in dispatching \ {list} : m \cap (list \ {r}) = {} /\ (list \ {r}) \cap m = {}
      OBVIOUS
    <3>4. \A l, m \in dispatching' : l # m => l \cap m = {}
      BY <3>1, <3>3
    <3> QED
      BY <3>1, <3>2, <3>4
  <2>5. CASE \/ WorkerStep \/ UserStep \/ CancelStep \/ \E r \in Run : MarkDispatchFailed(r)
    <3>1. UNCHANGED <<preparing, dispatching>>
      BY <2>5 DEF WorkerStep, UserStep, CancelStep, Start, Finish, Park, Ingest, Approve, Reject, CancelRun,
         CancelCheck, CancelSelect, CancelCommit, Propagate, MarkDispatchFailed
    <3> QED
      BY <3>1
  <2>6. CASE FaultStep
    <3>1. preparing' \subseteq preparing /\ dispatching' \subseteq dispatching
      BY <2>6 DEF FaultStep, TickFails, PrepareFails, CredentialFails, DispatchFails, ResumeFails,
         WorkerLost, PropagateFails, Crash
    <3> QED
      BY <3>1
  <2>7. CASE Create \/ TickNothing \/ InternalTick \/ \E n \in Node : BackoffOver(n)
    BY <2>7 DEF Create, TickNothing, InternalTick, BackoffOver
  <2> QED
    BY <2>1, <2>2, <2>3, <2>4, <2>5, <2>6, <2>7 DEF Next, DispatchStep
<1> QED
  BY <1>1, <1>2 DEF ListsApart

\* A report of q, which a worker has, is about the only run of its node that lives.
LEMMA CalmIngest ==
  ASSUME TypeOK, ListsApart, Calm, CalmInv, NEW q \in Run, worker[q] \notin {"none", "ended"},
         NEW was \in {runs[q], "waiting_approval"},
         NEW s \in {"running", "waiting_approval", "completed", "failed"}, Ingest(q, was, s),
         NEW st \in WorkerState, worker' = [worker EXCEPT ![q] = st], s \in RunDone => st = "ended",
         NEW r \in Run
  PROVE  CalmRun(r)'
<1>1. /\ runs[q] \in RunLive /\ agentRun[q[1]] = q[2] /\ status[q[1]] \in NodeActive
      /\ ~Listed(q)
  BY DEF CalmInv, CalmRun, ListsApart
<1>2. Current(q)
  BY <1>1 DEF Current, NodeActive, NodeDone
<1>3. runs' = [runs EXCEPT ![q] = s]
  BY <1>1 DEF Ingest, RunAfter, RunLive, RunDone
<1>4. UNCHANGED <<preparing, dispatching>>
  BY DEF Ingest, listVars
<1>5. CASE r = q
  <2>1. runs'[q] = s /\ worker'[q] = st
    BY <1>3 DEF TypeOK
  <2>2. CASE s \in RunDone
    BY <1>1, <1>4, <1>5, <2>1, <2>2 DEF CalmRun, Listed, RunDone, RunLive
  <2>3. CASE s \notin RunDone
    <3>1. status'[q[1]] = s /\ agentRun'[q[1]] = q[2]
      BY <1>1, <1>2, <2>3 DEF Ingest, RunDone, TypeOK, Run
    <3>2. s \in RunLive /\ s \in NodeActive
      BY <2>3 DEF RunDone, RunLive, NodeActive
    <3> QED
      BY <1>5, <2>1, <3>1, <3>2 DEF CalmRun
  <2> QED
    BY <2>2, <2>3
<1>6. CASE r # q
  <2>1. runs'[r] = runs[r] /\ worker'[r] = worker[r] /\ Listed(r)' = Listed(r)
    BY <1>3, <1>4, <1>6 DEF TypeOK, Listed
  <2>2. runs[r] \in RunLive => r[1] # q[1]
    BY <1>1, <1>6 DEF CalmInv, CalmRun, Run
  <2>3. r[1] # q[1] => status'[r[1]] = status[r[1]] /\ agentRun'[r[1]] = agentRun[r[1]]
    BY <1>2 DEF Ingest, TypeOK, Run
  <2> QED
    BY <2>1, <2>2, <2>3 DEF CalmInv, CalmRun
<1> QED
  BY <1>5, <1>6

LEMMA CalmBefore ==
  ASSUME WorkflowInv, Next, Calm'
  PROVE  Calm /\ ~FaultStep /\ ~CancelCommit /\ \A r \in Run : ~Reject(r) /\ ~CancelRun(r)
<1> USE DEF Calm, WorkflowInv, TypeOK, Trouble
<1>1. ~FaultStep /\ ~CancelCommit /\ \A r \in Run : ~Reject(r) /\ ~CancelRun(r)
  BY DEF FaultStep, TickFails, PrepareFails, CredentialFails, DispatchFails, ResumeFails,
         WorkerLost, PropagateFails, Crash, CancelCommit, Reject, CancelRun
<1>2. troubles = 0
  BY <1>1 DEF Next, TickStep, TickSweep, TickDispatch, TickCommit, TickNothing, InternalTick,
     BackoffOver, Create, DispatchStep, Prepare, Dispatch, MarkDispatchFailed, WorkerStep, Start,
     Finish, CancelStep, CancelCheck, CancelSelect, Propagate, UserStep, Park, Approve
<1>3. workflow # "cancelled"
  <2>1. TickCommit \/ Create => workflow # "cancelled"
    BY DEF TickCommit, Create, TickOwed, MayTick
  <2> QED
    BY <1>1, <2>1 DEF Next, TickStep, TickSweep, TickDispatch, TickNothing, InternalTick,
     BackoffOver, DispatchStep, Prepare, Dispatch, MarkDispatchFailed, WorkerStep, Start,
     Finish, Ingest, CancelStep, CancelCheck, CancelSelect, Propagate, UserStep, Park, Approve
<1> QED
  BY <1>1, <1>2, <1>3

LEMMA CalmTick ==
  ASSUME WorkflowInv, RunsOfAttempts, ListsApart, Calm, CalmInv, Calm', TickStep, NEW r \in Run
  PROVE  CalmRun(r)'
<1>1. r[1] \in Node
  BY DEF Run
<1>2. CASE TickCommit
  BY <1>2 DEF TickCommit, nodeVars, listVars, CalmInv, CalmRun, Listed
<1>3. ASSUME NEW late \in SUBSET Started, TickSweep(late)
      PROVE  CalmRun(r)'
  <2>1. late = {}
    BY <1>3 DEF TickSweep, Trouble, Calm
  <2>2. TimedOutRuns(late) = {} /\ Retried(late) = {}
    BY <2>1 DEF TimedOutRuns, Retried
  <2>3. /\ UNCHANGED <<worker, preparing, dispatching>> /\ runs'[r] = runs[r]
        /\ agentRun'[r[1]] = agentRun[r[1]] /\ status'[r[1]] = AfterSweep(late)[r[1]]
    BY <1>1, <1>3, <2>2 DEF TickSweep, listVars
  <2>4. status[r[1]] \in NodeActive => status'[r[1]] = status[r[1]]
    <3>1. TypeOK /\ ReadyAfterUpstream
      BY DEF WorkflowInv, NodeInv
    <3>2. AfterTimeout(late)[r[1]] = status[r[1]]
      BY <1>1, <2>1 DEF AfterTimeout
    <3>3. AfterSweep(late)[r[1]] = status[r[1]] \/ status[r[1]] \in {"pending", "ready"}
      BY <1>1, <3>1, <3>2, Sweep
    <3> QED
      BY <2>3, <3>3 DEF NodeActive
  <2> QED
    BY <2>3, <2>4 DEF CalmInv, CalmRun, Listed
<1>4. ASSUME NEW go, Dispatched(go)
      PROVE  CalmRun(r)'
  <2>1. TickDispatch(go) /\ worker' = worker
    BY <1>4, RunsDispatched DEF Dispatched, WorkflowInv
  <2>2. CASE r[1] \in go /\ r[2] = attempts[r[1]] + 1
    <3>1. runs'[r] = "queued"
      BY <1>4, <2>2, RunsDispatched DEF WorkflowInv
    <3>2. status'[r[1]] = "queued" /\ agentRun'[r[1]] = r[2]
      BY <1>1, <2>1, <2>2 DEF TickDispatch
    <3> QED
      BY <3>1, <3>2 DEF CalmRun, RunLive, NodeActive
  <2>3. CASE ~ (r[1] \in go /\ r[2] = attempts[r[1]] + 1)
    <3>1. runs'[r] = runs[r] /\ (Listed(r)' => Listed(r))
      BY <1>4, <2>3, RunsDispatched DEF WorkflowInv
    <3>2. status[r[1]] \in NodeActive => r[1] \notin go
      BY <1>4, TruncatedReady DEF Dispatched, ReadyNodes, NodeActive
    <3>3. r[1] \notin go => status'[r[1]] = status[r[1]] /\ agentRun'[r[1]] = agentRun[r[1]]
      BY <1>1, <2>1 DEF TickDispatch
    <3> QED
      BY <2>1, <3>1, <3>2, <3>3 DEF CalmInv, CalmRun
  <2> QED
    BY <2>2, <2>3
<1> QED
  BY <1>2, <1>3, <1>4 DEF TickStep, Dispatched

LEMMA CalmNext ==
  ASSUME WorkflowAssumption, WorkflowInv, RunsOfAttempts, ListsApart, CalmInv, Next
  PROVE  CalmInv'
<1> SUFFICES ASSUME Calm'
             PROVE  (failing = {} /\ flagged = {} /\ calls = {})' /\ \A r \in Run : CalmRun(r)'
  BY DEF CalmInv
<1>1. Calm /\ ~FaultStep /\ ~CancelCommit /\ \A r \in Run : ~Reject(r) /\ ~CancelRun(r)
  BY CalmBefore
<1>2. failing = {} /\ flagged = {} /\ calls = {} /\ TypeOK
  BY <1>1 DEF CalmInv, WorkflowInv
<1>3. (failing = {} /\ flagged = {} /\ calls = {})'
  BY <1>1, <1>2 DEF Next, TickStep, TickSweep, TickDispatch, TickCommit, TickNothing, InternalTick,
     BackoffOver, Create, DispatchStep, Prepare, Dispatch, MarkDispatchFailed, WorkerStep, Start,
     Finish, Ingest, CancelStep, CancelCheck, CancelSelect, Propagate, UserStep, Park, Approve,
     listVars, cancelVars
<1>4. ASSUME NEW r \in Run
      PROVE  CalmRun(r)'
  <2> USE DEF listVars, nodeVars, CalmInv
  <2>1. CASE TickStep
    BY <1>1, <2>1, CalmTick
  <2>2. ASSUME NEW list \in preparing, Prepare(list)
        PROVE  CalmRun(r)'
    BY <1>1, <2>2 DEF Prepare, CalmRun, Listed
  <2>3. ASSUME NEW list \in dispatching, NEW q \in Run, Dispatch(list, q)
        PROVE  CalmRun(r)'
    <3>1. Listed(q) /\ (Listed(r)' => Listed(r))
      BY <2>3 DEF Dispatch, Rest, Listed
    <3>2. UNCHANGED <<status, agentRun, runs>> /\ worker'[r] \in {worker[r], "accepted"}
          /\ (r # q => worker'[r] = worker[r])
      BY <1>2, <2>3 DEF Dispatch, TypeOK
    <3> QED
      BY <1>1, <3>1, <3>2 DEF CalmRun
  <2>4. ASSUME NEW q \in Run, Start(q)
        PROVE  CalmRun(r)'
    <3>1. Ingest(q, runs[q], "running") /\ worker[q] \in {"accepted", "approved"}
      BY <1>2, <2>4 DEF Start
    <3>2. PICK st \in WorkerState : worker' = [worker EXCEPT ![q] = st]
      BY <1>2, <2>4 DEF Start, WorkerState
    <3> QED
      BY <1>1, <1>2, <3>1, <3>2, CalmIngest DEF RunDone
  <2>5. ASSUME NEW q \in Run, NEW s \in RunDone, Finish(q, s)
        PROVE  CalmRun(r)'
    <3>1. /\ Ingest(q, runs[q], s) /\ worker[q] \in {"working", "resumed"}
          /\ worker' = [worker EXCEPT ![q] = "ended"] /\ s \in {"completed", "failed"}
      BY <1>2, <2>5 DEF Finish, RunDone
    <3> QED
      BY <1>1, <1>2, <3>1, CalmIngest DEF WorkerState
  <2>6. ASSUME NEW q \in Run, Park(q)
        PROVE  CalmRun(r)'
    <3>1. /\ Ingest(q, "waiting_approval", "waiting_approval") /\ worker[q] = "working"
          /\ worker' = [worker EXCEPT ![q] = "parked"]
      BY <2>6 DEF Park
    <3> QED
      BY <1>1, <1>2, <3>1, CalmIngest DEF WorkerState, RunDone
  <2>7. ASSUME NEW q \in Run, Approve(q)
        PROVE  CalmRun(r)'
    <3>1. /\ UNCHANGED <<status, agentRun, runs, preparing, dispatching>> /\ worker[q] = "parked"
          /\ (r # q => worker'[r] = worker[r])
      BY <1>2, <2>7 DEF Approve, TypeOK
    <3> QED
      BY <1>1, <3>1 DEF CalmRun, Listed
  <2>8. CASE \/ CancelCheck \/ CancelSelect \/ TickNothing \/ InternalTick \/ Create
             \/ \E n \in Node : BackoffOver(n)
    BY <1>1, <2>8 DEF CancelCheck, CancelSelect, TickNothing, InternalTick, Create, BackoffOver,
       CalmRun, Listed
  <2>9. /\ \A q \in Run : ~MarkDispatchFailed(q)
        /\ \A q \in Run, killed, redelivered \in BOOLEAN : ~Propagate(q, killed, redelivered)
    BY <1>2 DEF MarkDispatchFailed, Propagate
  <2> QED
    BY <1>1, <2>1, <2>2, <2>3, <2>4, <2>5, <2>6, <2>7, <2>8, <2>9
    DEF Next, DispatchStep, WorkerStep, CancelStep, UserStep
<1> QED
  BY <1>3, <1>4

LEMMA RunsInit ==
  ASSUME WorkflowAssumption, Init
  PROVE  RunsInv
<1>1. \A r \in Run : ~Known(r) /\ ~Listed(r) /\ runs[r] = "none" /\ worker[r] = "none"
  BY DEF Init, Known, Listed
<1>2. \A r \in Run : ~ (r[2] <= attempts[r[1]])
  BY DEF Init, Run
<1>3. RunsOfAttempts
  BY <1>1, <1>2, WorkflowAssumption DEF Init, RunsOfAttempts
<1>4. ListsApart /\ CompletedRunEnded
  BY <1>1 DEF Init, ListsApart, Apart, CompletedRunEnded
<1>5. CalmInv
  BY <1>1 DEF Init, CalmInv, CalmRun, RunLive
<1> QED
  BY <1>3, <1>4, <1>5 DEF RunsInv

LEMMA RunsNext == WorkflowInv /\ RunsInv /\ [Next]_vars => RunsInv'
<1>1. CASE UNCHANGED vars
  BY <1>1 DEF vars, nodeVars, tickVars, listVars, cancelVars, RunsInv, RunsOfAttempts, Known, Listed,
     ListsApart, Apart, CompletedRunEnded, LastRun, CalmInv, Calm, CalmRun
<1>2. ASSUME WorkflowInv, RunsInv, Next
      PROVE  RunsInv'
  BY <1>2, WorkflowAssumption, RunsOfAttemptsNext, ListsApartNext, CompletedRunEndedNext, CalmNext
  DEF RunsInv, WorkflowInv
<1> QED
  BY <1>1, <1>2

\* The runs of a node are those of its attempts, each in one place at a time.
THEOREM WorkflowRuns == Spec => []RunsInv
<1>1. Init => RunsInv
  BY RunsInit, WorkflowAssumption
<1> QED
  BY <1>1, RunsNext, WorkflowInvariant, PTL DEF Spec

\* The last run of a completed node has ended: its worker has reported, no list
\* brings it back, and no later attempt was made.
THEOREM WorkflowCompletedRun == Spec => []CompletedNodeHasEndedRun
<1>1. WorkflowInv /\ RunsInv => CompletedNodeHasEndedRun
  <2> SUFFICES ASSUME WorkflowInv, RunsInv, NEW n \in Node, status[n] = "completed"
               PROVE  /\ attempts[n] > 0 /\ runs[<<n, attempts[n]>>] \in RunDone
                      /\ \A k \in (attempts[n] + 1)..MaxAttempts[n] : runs[<<n, k>>] = "none"
    BY DEF CompletedNodeHasEndedRun
  <2>1. attempts[n] > 0 /\ runs[<<n, attempts[n]>>] \in RunDone
    BY DEF RunsInv, CompletedRunEnded, LastRun
  <2>2. ASSUME NEW k \in (attempts[n] + 1)..MaxAttempts[n]
        PROVE  runs[<<n, k>>] = "none"
    <3>1. attempts[n] \in 0..10 /\ MaxAttempts[n] \in 1..10
      BY WorkflowAssumption DEF WorkflowInv, TypeOK
    <3>2. k \in 1..10 /\ k <= MaxAttempts[n] /\ ~ (k <= attempts[n])
      BY <2>1, <3>1
    <3>3. <<n, k>> \in Run
      BY <3>2 DEF Run
    <3> QED
      BY <3>2, <3>3 DEF RunsInv, RunsOfAttempts
  <2> QED
    BY <2>1, <2>2
<1> QED
  BY <1>1, WorkflowInvariant, WorkflowRuns, PTL

\* Until something goes wrong (a timeout is such a thing) or the workflow is
\* cancelled, the retries are those after reported failures, and the new attempt
\* of a node does not overlap with the one that failed.
THEOREM WorkflowLiveRuns == Spec => []LiveRunsAreCurrent
<1>1. WorkflowInv /\ RunsInv => LiveRunsAreCurrent
  BY DEF RunsInv, CalmInv, Calm, CalmRun, LiveRunsAreCurrent, WorkflowInv, TypeOK
<1> QED
  BY <1>1, WorkflowInvariant, WorkflowRuns, PTL

-----------------------------------------------------------------------------
(* The status of the workflow                                              *)

LEMMA AgreesNext == WorkflowInv /\ StatusAgrees /\ [Next]_vars => StatusAgrees'
<1> SUFFICES ASSUME WorkflowInv, StatusAgrees, [Next]_vars
             PROVE  StatusAgrees'
  OBVIOUS
<1>1. CASE UNCHANGED vars
  BY <1>1 DEF vars, nodeVars, StatusAgrees
<1>2. CASE TickCommit
  <2>1. workflow' = StatusOf(status) /\ status' = status
    BY <1>2 DEF TickCommit, nodeVars
  <2>2. \A n \in Node : status[n] \in NodeStatus
    BY DEF WorkflowInv, TypeOK
  <2>3. /\ StatusOf(status) = "completed" => \A n \in Node : status[n] = "completed"
        /\ StatusOf(status) = "failed" => \E n \in Node : status[n] \in {"failed", "blocked"}
    BY <2>2 DEF StatusOf
  <2> QED
    BY <2>1, <2>3 DEF StatusAgrees
<1>3. CASE Next /\ ~TickCommit
  <2>1. \A n \in Node : status[n] \in NodeDone => status'[n] = status[n]
    <3>1. \A n \in Node : NodeMove(n)
      BY <1>3, WorkflowAssumption, NextMoves DEF WorkflowInv
    <3> QED
      BY <3>1 DEF NodeMove, QuietMove, Stays, Ends, GoesOn, Retries, GetsReady, IsDispatched,
         NodeActive, NodeDone
  <2>2. workflow' \in {workflow, "queued", "cancelled"}
    BY <1>3 DEF Next, TickStep, TickSweep, TickDispatch, TickNothing, InternalTick, BackoffOver,
       Create, DispatchStep, Prepare, Dispatch, MarkDispatchFailed, WorkerStep, Start, Finish, Ingest,
       CancelStep, CancelCheck, CancelSelect, CancelCommit, Propagate, UserStep, Park, Approve,
       Reject, CancelRun, FaultStep, TickFails, PrepareFails, CredentialFails, DispatchFails,
       ResumeFails, WorkerLost, PropagateFails, Crash
  <2> QED
    BY <2>1, <2>2 DEF StatusAgrees, NodeDone
<1> QED
  BY <1>1, <1>2, <1>3

\* A workflow that was found completed or failed stays in agreement with its
\* nodes: what a node has come to, no late report or tick changes.
THEOREM WorkflowStatusAgrees == Spec => []StatusAgrees
<1>1. Init => StatusAgrees
  BY DEF Init, StatusAgrees
<1> QED
  BY <1>1, AgreesNext, WorkflowInvariant, PTL DEF Spec
-----------------------------------------------------------------------------
(* Validation of plans: what the recursive function of Visited computes      *)

\* A non-empty set of numbers has a least one.
LEMMA LeastNumber ==
  ASSUME NEW T \in SUBSET Nat, T # {}
  PROVE  \E x \in T : \A y \in T : x <= y
<1>1. PICK x \in T : \A y \in T : ~ (<<y, x>> \in OpToRel(<, Nat))
  BY NatLessThanWellFounded, WFMin, Zenon
<1>2. \A y \in T : y < x => <<y, x>> \in OpToRel(<, Nat)
  BY Zenon DEF OpToRel
<1>3. \A y \in T : ~ (y < x)
  BY <1>1, <1>2, Zenon
<1>4. \A y \in T : x <= y
  BY <1>3
<1> QED
  BY <1>4

\* One round of Kahn's algorithm: the nodes whose upstreams are visited.
Round(E, done) == {n \in Node : \A m \in Node : <<m, n>> \in E => m \in done}

\* The first k rounds.
IsRounds(E, f, k) ==
  /\ f \in [0 .. k -> SUBSET Node]
  /\ f[0] = {}
  /\ \A i \in 1 .. k : f[i] = Round(E, f[i - 1])

LEMMA RoundsExist ==
  ASSUME NEW E, NEW k \in Nat
  PROVE  \E f : IsRounds(E, f, k)
<1> DEFINE Bad == {i \in Nat : ~ \E f : IsRounds(E, f, i)}
<1> SUFFICES ASSUME Bad # {} PROVE FALSE
  OBVIOUS
<1>1. PICK i \in Bad : \A j \in Bad : i <= j
  BY LeastNumber
<1>2. i # 0
  <2>1. IsRounds(E, [j \in 0 .. 0 |-> {}], 0)
    BY DEF IsRounds
  <2> QED
    BY <1>1, <2>1
<1>3. PICK f : IsRounds(E, f, i - 1)
  BY <1>1, <1>2
<1> DEFINE g == [j \in 0 .. i |-> IF j = i THEN Round(E, f[i - 1]) ELSE f[j]]
<1>4. IsRounds(E, g, i)
  <2>1. i - 1 \in 0 .. (i - 1) /\ i \in Nat
    BY <1>1, <1>2
  <2>2. \A j \in 0 .. i : j # i => j \in 0 .. (i - 1) /\ f[j] \in SUBSET Node
    BY <1>2, <1>3, <2>1 DEF IsRounds
  <2>3. Round(E, f[i - 1]) \in SUBSET Node
    BY DEF Round
  <2>4. g \in [0 .. i -> SUBSET Node]
    BY <2>2, <2>3
  <2>5. g[0] = {}
    BY <1>2, <1>3, <2>1 DEF IsRounds
  <2>6. ASSUME NEW j \in 1 .. i PROVE g[j] = Round(E, g[j - 1])
    <3>1. j \in 0 .. i /\ j - 1 \in 0 .. i /\ j - 1 # i
      BY <2>1
    <3>2. g[j - 1] = f[j - 1]
      BY <3>1
    <3>3. CASE j = i
      BY <3>1, <3>2, <3>3
    <3>4. CASE j # i
      <4>1. j \in 1 .. (i - 1) /\ g[j] = f[j]
        BY <2>1, <3>1, <3>4
      <4> QED
        BY <1>3, <3>2, <4>1 DEF IsRounds
    <3> QED
      BY <3>3, <3>4
  <2> QED
    BY <2>4, <2>5, <2>6 DEF IsRounds
<1> QED
  BY <1>1, <1>4

LEMMA RoundsUnique ==
  ASSUME NEW E, NEW f, NEW g, NEW k \in Nat, NEW l \in Nat,
         IsRounds(E, f, k), IsRounds(E, g, l), NEW i \in Nat, i <= k, i <= l
  PROVE  f[i] = g[i]
<1> DEFINE Bad == {j \in Nat : j <= k /\ j <= l /\ f[j] # g[j]}
<1> SUFFICES ASSUME Bad # {} PROVE FALSE
  OBVIOUS
<1>1. PICK j \in Bad : \A m \in Bad : j <= m
  BY LeastNumber
<1>2. j # 0
  BY <1>1 DEF IsRounds
<1>3. j - 1 \in Nat /\ j - 1 \notin Bad /\ j - 1 <= k /\ j - 1 <= l
  BY <1>1, <1>2
<1>4. f[j - 1] = g[j - 1]
  BY <1>3
<1>5. j \in 1 .. k /\ j \in 1 .. l
  BY <1>1, <1>2
<1>6. f[j] = Round(E, f[j - 1]) /\ g[j] = Round(E, g[j - 1])
  BY <1>5 DEF IsRounds
<1> QED
  BY <1>1, <1>4, <1>6

\* The recursive function of Visited: its rounds, one after the other.
LEMMA VisitedRounds ==
  ASSUME NEW E, IsFiniteSet(Node)
  PROVE  \E v : /\ v[0] = {}
                /\ \A i \in Nat : v[i + 1] = Round(E, v[i])
                /\ Visited(E) = v[Cardinality(Node)]
<1> DEFINE Step(i, f) == IF i = 0 THEN {} ELSE {n \in Node : \A m \in Node : <<m, n>> \in E => m \in f[i - 1]}
           v == CHOOSE f : f = [i \in Nat |-> Step(i, f)]
           rounds(k) == CHOOSE f : IsRounds(E, f, k)
           h == [i \in Nat |-> rounds(i)[i]]
<1>1. \A k \in Nat : IsRounds(E, rounds(k), k)
  BY RoundsExist
<1> HIDE DEF rounds
<1>2. h[0] = {}
  BY <1>1 DEF IsRounds
<1>3. ASSUME NEW i \in Nat, i # 0 PROVE h[i] = Round(E, h[i - 1])
  <2>1. i - 1 \in Nat /\ i \in 1 .. i
    BY <1>3
  <2>2. rounds(i)[i] = Round(E, rounds(i)[i - 1])
    BY <1>1, <2>1 DEF IsRounds
  <2>3. rounds(i)[i - 1] = rounds(i - 1)[i - 1]
    BY <1>1, <2>1, RoundsUnique
  <2> QED
    BY <2>1, <2>2, <2>3
<1>4. h = [i \in Nat |-> Step(i, h)]
  <2> HIDE DEF h
  <2>1. \A i \in Nat : h[i] = Step(i, h)
    BY <1>2, <1>3 DEF Round
  <2>2. h = [i \in Nat |-> h[i]]
    BY DEF h
  <2> QED
    BY <2>1, <2>2
<1>5. v = [i \in Nat |-> Step(i, v)]
  <2> HIDE DEF h
  <2> QED
    BY <1>4
<1>6. Visited(E) = v[Cardinality(Node)]
  BY DEF Visited
<1> HIDE DEF v
<1>7. v[0] = {}
  BY <1>5
<1>8. ASSUME NEW i \in Nat PROVE v[i + 1] = Round(E, v[i])
  <2>1. i + 1 \in Nat /\ i + 1 # 0 /\ (i + 1) - 1 = i
    OBVIOUS
  <2>2. v[i + 1] = Step(i + 1, v)
    BY <1>5, <2>1
  <2>3. Step(i + 1, v) = Round(E, v[i])
    BY <2>1 DEF Round
  <2> QED
    BY <2>2, <2>3
<1> QED
  BY <1>6, <1>7, <1>8

\* What Kahn's algorithm visits has no cycle: the first round that reaches a
\* set of nodes reaches one that waits for none of them.
LEMMA VisitedIsAcyclic ==
  ASSUME NEW E, Visited(E) = Node, NEW S \in SUBSET Node, S # {}
  PROVE  \E n \in S : \A m \in Node : <<m, n>> \in E => m \notin S
<1>1. IsFiniteSet(Node) /\ Cardinality(Node) \in Nat
  BY WorkflowAssumption, FS_CardinalityType
<1>2. PICK v : /\ v[0] = {}
               /\ \A i \in Nat : v[i + 1] = Round(E, v[i])
               /\ Visited(E) = v[Cardinality(Node)]
  BY <1>1, VisitedRounds
<1> DEFINE Reaching == {i \in Nat : v[i] \cap S # {}}
<1>3. Cardinality(Node) \in Reaching
  BY <1>1, <1>2
<1>4. PICK i \in Reaching : \A j \in Reaching : i <= j
  BY <1>3, LeastNumber
<1>5. i \in Nat /\ i # 0
  BY <1>2, <1>4
<1>6. i - 1 \in Nat /\ v[i - 1] \cap S = {} /\ v[i] = Round(E, v[i - 1])
  <2>1. i - 1 \in Nat /\ ~ (i <= i - 1) /\ (i - 1) + 1 = i
    BY <1>5
  <2>2. i - 1 \notin Reaching
    BY <1>4, <2>1
  <2> QED
    BY <1>2, <2>1, <2>2
<1>7. PICK n \in S : n \in v[i]
  BY <1>4
<1> QED
  BY <1>6, <1>7 DEF Round

\* A workflow that exists was validated, and a cancel is about one that exists.
PlanChecked ==
  /\ workflow # "none" => Visited(plan.edges) = Node
  /\ cancelPc # "idle" => workflow # "none"

LEMMA CheckedNext ==
  ASSUME WorkflowInv, PlanChecked, [Next]_vars
  PROVE  PlanChecked'
<1>1. plan' = plan
  <2>1. CASE Next
    BY <2>1, WorkflowAssumption, NextMoves DEF WorkflowInv
  <2>2. CASE UNCHANGED vars
    BY <2>2 DEF vars
  <2> QED
    BY <2>1, <2>2
<1>2. CASE Create
  BY <1>1, <1>2 DEF Create, ValidPlan, PlanChecked, cancelVars
<1>3. ASSUME ~Create
      PROVE  /\ workflow = "none" => workflow' = "none"
             /\ workflow # "none" => workflow' # "none"
             /\ cancelPc' # "idle" => workflow # "none"
  <2> USE DEF PlanChecked, tickVars, cancelVars
  <2>1. CASE TickStep
    <3>1. workflow \in {"queued", "running"} \/ \E late : TickSweep(late)
      BY <2>1 DEF TickStep, TickDispatch, TickCommit, WorkflowInv, TickOwed, MayTick
    <3>2. \A late : TickSweep(late) => UNCHANGED <<workflow, cancelVars>>
      BY DEF TickSweep
    <3>3. StatusOf(status) # "none" /\ StatusOf(status)' # "none"
      BY DEF StatusOf
    <3> QED
      BY <2>1, <3>1, <3>2, <3>3 DEF TickStep, TickDispatch, TickCommit
  <2>2. CASE DispatchStep
    BY <2>2 DEF DispatchStep, Prepare, Dispatch, MarkDispatchFailed
  <2>3. CASE WorkerStep
    BY <2>3 DEF WorkerStep, Start, Finish, Ingest
  <2>4. CASE CancelStep
    BY <2>4 DEF CancelStep, CancelCheck, CancelSelect, CancelCommit, Propagate
  <2>5. CASE UserStep
    BY <2>5 DEF UserStep, Park, Approve, Reject, CancelRun, Ingest
  <2>6. CASE FaultStep
    BY <2>6 DEF FaultStep, TickFails, PrepareFails, CredentialFails, DispatchFails, ResumeFails,
                WorkerLost, PropagateFails, Crash
  <2>7. CASE TickNothing \/ InternalTick \/ \E n \in Node : BackoffOver(n)
    BY <2>7 DEF TickNothing, InternalTick, BackoffOver
  <2>8. CASE UNCHANGED vars
    BY <2>8 DEF vars
  <2> QED
    BY <1>3, <2>1, <2>2, <2>3, <2>4, <2>5, <2>6, <2>7, <2>8 DEF Next
<1> QED
  BY <1>1, <1>2, <1>3 DEF PlanChecked

\* A workflow is created only from a plan without a cycle, of any length:
\* validate, which counts visited nodes, misses none.
THEOREM WorkflowIsAcyclic == Spec => []CreatedIsAcyclic
<1>1. Init => PlanChecked
  BY DEF Init, PlanChecked
<1>2. WorkflowInv /\ PlanChecked /\ [Next]_vars => PlanChecked'
  BY CheckedNext
<1>3. ASSUME PlanChecked PROVE CreatedIsAcyclic
  <2> SUFFICES ASSUME workflow # "none", NEW S \in (SUBSET Node) \ {{}}
               PROVE  \E n \in S : Upstream(n) \cap S = {}
    BY DEF CreatedIsAcyclic
  <2>1. PICK n \in S : \A m \in Node : <<m, n>> \in plan.edges => m \notin S
    <3>1. Visited(plan.edges) = Node
      BY <1>3 DEF PlanChecked
    <3>2. S \in SUBSET Node /\ S # {}
      OBVIOUS
    <3> QED
      BY <3>1, <3>2, VisitedIsAcyclic
  <2> QED
    BY <2>1 DEF Upstream
<1> QED
  BY <1>1, <1>2, <1>3, WorkflowInvariant, PTL DEF Spec
=============================================================================
