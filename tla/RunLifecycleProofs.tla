-------------------------- MODULE RunLifecycleProofs --------------------------
(***************************************************************************)
(* What holds of a run for every number of approvals, tools and workers and *)
(* any number of faults: its type, the events that explain its outcome, the *)
(* steps that may change it, and that an approval is resumed once; and as   *)
(* long as no fault has happened, that an approval is executed once, that a *)
(* run is never stranded, that no worker passes the last check before a     *)
(* tool once a cancel was answered, and that a completed run stays          *)
(* completed.                                                               *)
(*                                                                         *)
(* The proofs go in layers: TypeOK; what a step can write to the row of the *)
(* run (RunWritten); what it can do to the resume leases; without faults,   *)
(* and until the flag of a cancel is set, who will take the next step of    *)
(* the run (ActingInv); and how the flag comes before the answer (FlagInv). *)
(***************************************************************************)
EXTENDS RunLifecycle, FiniteSetTheorems, TLAPS

USE RunAssumption DEF Task, Terminal, Outcome, RunStatus

\* The events that update_run_status_from_event knows.
Kinds == {"run.started", "interrupt.requested", "run.completed", "run.failed", "run.cancelled"}

\* What the cancel of a conversation makes of a row, and a finished call.
Closed(g) == [g EXCEPT !.status = IF @ = "pending" THEN "cancelled" ELSE @,
                       !.call = IF @ = "waiting_approval" THEN "cancelled" ELSE @]

LEMMA GateCancelled ==
  ASSUME NEW g \in Gate
  PROVE  /\ Closed(g) \in Gate
         /\ g.status = "rejected" => Closed(g).status = "rejected"
<1>1. g = [status |-> g.status, tool |-> g.tool, call |-> g.call]
  BY DEF Gate
<1>2. DEFINE s == IF g.status = "pending" THEN "cancelled" ELSE g.status
             c == IF g.call = "waiting_approval" THEN "cancelled" ELSE g.call
<1>3. Closed(g) = [status |-> s, tool |-> g.tool, call |-> c]
  <2>1. Closed(g) = [g EXCEPT !.status = s, !.call = c]
    BY DEF Closed
  <2> HIDE DEF s, c
  <2> QED
    BY <1>1, <2>1
<1>4. s \in {"none", "pending", "approved", "rejected", "cancelled"}
  BY DEF Gate
<1>5. c \in {"none", "waiting_approval", "authorized", "cancelled", "finished"}
  BY DEF Gate
<1>6. g.tool \in Tool \cup {None}
  BY DEF Gate
<1>7. Closed(g) \in Gate
  <2> HIDE DEF s, c
  <2> QED
    BY <1>3, <1>4, <1>5, <1>6 DEF Gate
<1>8. g.status = "rejected" => Closed(g).status = "rejected"
  BY <1>3
<1> QED
  BY <1>7, <1>8

LEMMA ReportType ==
  ASSUME TypeOK, NEW kind \in Kinds, Report(kind)
  PROVE  status' \in RunStatus /\ log' \subseteq Outcome /\ gate' = gate
BY DEF TypeOK, Report, StatusAfter, Kinds

LEMMA MoveType ==
  ASSUME TypeOK, NEW w \in Worker, NEW s \in WorkerState, s.task # None <=> s.pc # "idle",
         worker' = [worker EXCEPT ![w] = s]
  PROVE  /\ worker' \in [Worker -> WorkerState]
         /\ \A v \in Worker : worker'[v].task # None <=> worker'[v].pc # "idle"
BY DEF TypeOK

LEMMA GotoType ==
  ASSUME TypeOK, NEW w \in Worker, ~At(w, "idle"), 
         NEW place \in {"leased", "agent", "parked", "granted", "cleared", "executed", "complete", "done",
                       "broken"},
         Goto(w, place)
  PROVE  /\ worker' \in [Worker -> WorkerState]
         /\ \A v \in Worker : worker'[v].task # None <=> worker'[v].pc # "idle"
<1>1. [worker[w] EXCEPT !.pc = place] \in WorkerState
  <2>1. worker[w] \in WorkerState
    BY DEF TypeOK
  <2> QED
    BY <2>1 DEF WorkerState
<1> QED
  BY <1>1, MoveType DEF Goto, TypeOK, At, WorkerState

LEMMA StopType ==
  ASSUME TypeOK, NEW w \in Worker, ~At(w, "idle"), StopCancelled(w)
  PROVE  TypeOK'
<1>1. status' \in RunStatus /\ log' \subseteq Outcome /\ gate' = gate
  BY ReportType DEF StopCancelled, Kinds
<1>2. /\ worker' \in [Worker -> WorkerState]
      /\ \A v \in Worker : worker'[v].task # None <=> worker'[v].pc # "idle"
  BY GotoType DEF StopCancelled
<1> QED
  BY <1>1, <1>2 DEF TypeOK, StopCancelled, rustVars, brokerVars, historyVars

LEMMA FailedType ==
  ASSUME TypeOK, MarkFailed
  PROVE  status' \in RunStatus /\ log' \subseteq Outcome /\ gate' = gate
BY DEF TypeOK, MarkFailed

LEMMA RustType ==
  ASSUME TypeOK, RustStep
  PROVE  TypeOK'
<1> USE DEF TypeOK, dbVars, brokerVars, historyVars
<1>1. CASE Create
  BY <1>1 DEF Create
<1>2. CASE DispatchOk
  BY <1>2 DEF DispatchOk
<1>3. CASE MarkDispatchFailed
  BY <1>3, FailedType DEF MarkDispatchFailed
<1>4. CASE CancelReads
  BY <1>4 DEF CancelReads
<1>5. CASE CancelRun
  <2>1. status' \in RunStatus /\ log' \subseteq Outcome
    BY <1>5 DEF CancelRun
  <2>2. cancelPc' \in {"idle", "read", "calling", "marked"}
    BY <1>5 DEF CancelRun
  <2> QED
    BY <1>5, <2>1, <2>2 DEF CancelRun
<1>6. CASE CancelConversation
  <2>1. gate' \in [Approval -> Gate]
    <3>1. \A a \in Approval : gate[a] \in Gate
      OBVIOUS
    <3>2. \A a \in Approval : Closed(gate[a]) \in Gate
      BY <3>1, GateCancelled
    <3>3. gate' = [a \in Approval |-> Closed(gate[a])]
      BY <1>6 DEF CancelConversation, Closed
    <3> QED
      BY <3>2, <3>3
  <2>2. status' \in RunStatus /\ log' \subseteq Outcome /\ takenBack' \subseteq Approval
    BY <1>6 DEF CancelConversation
  <2>3. cancelPc' \in {"idle", "read", "calling", "marked"}
    BY <1>6 DEF CancelConversation
  <2> QED
    BY <1>6, <2>1, <2>2, <2>3 DEF CancelConversation
<1>7. CASE Propagate
  BY <1>7 DEF Propagate
<1>7a. CASE MarkCancelled
  BY <1>7a DEF MarkCancelled
<1>8. ASSUME NEW a \in Approval, NEW d \in {"approved", "rejected"}, Decide(a, d) PROVE TypeOK'
  <2>1. [gate[a] EXCEPT !.status = d] \in Gate
    <3>1. gate[a] \in Gate
      OBVIOUS
    <3> QED
      BY <3>1 DEF Gate
  <2>2. gate' \in [Approval -> Gate]
    BY <1>8, <2>1 DEF Decide
  <2> QED
    BY <1>8, <2>2 DEF Decide
<1>9. ASSUME NEW a \in Approval, ResumeOk(a) PROVE TypeOK'
  BY <1>9 DEF ResumeOk
<1>10. ASSUME NEW a \in Approval, MarkResumeFailed(a) PROVE TypeOK'
  BY <1>10, FailedType DEF MarkResumeFailed
<1> QED
  BY <1>1, <1>2, <1>3, <1>4, <1>5, <1>6, <1>7, <1>7a, <1>8, <1>9, <1>10 DEF RustStep

LEMMA FaultType ==
  ASSUME TypeOK, FaultStep
  PROVE  TypeOK'
<1> USE DEF TypeOK, dbVars, rustVars, brokerVars, historyVars, Fault
<1>1. CASE DispatchFails
  BY <1>1 DEF DispatchFails
<1>2. CASE DispatchAbandoned
  BY <1>2 DEF DispatchAbandoned
<1>3. CASE PropagateFails
  BY <1>3 DEF PropagateFails
<1>3a. CASE MarkFails
  BY <1>3a DEF MarkFails
<1>4. ASSUME NEW a \in Approval, ResumeFails(a) PROVE TypeOK'
  BY <1>4 DEF ResumeFails
<1>5. CASE CrashRust
  BY <1>5 DEF CrashRust
<1>6. ASSUME NEW w \in Worker PROVE Idle \in WorkerState /\ Idle.task = None /\ Idle.pc = "idle"
  BY DEF Idle, WorkerState
<1>7. ASSUME NEW w \in Worker, ~At(w, "idle") PROVE worker[w].task \in Task
  BY <1>7 DEF At, WorkerState
<1>8. ASSUME NEW w \in Worker, WorkerLost(w) PROVE TypeOK'
  BY <1>6, <1>7, <1>8, MoveType DEF WorkerLost
<1>9. ASSUME NEW w \in Worker, DeliveredAgain(w) PROVE TypeOK'
  BY <1>7, <1>9 DEF DeliveredAgain
<1>10. ASSUME NEW w \in Worker, ReportLost(w) PROVE TypeOK'
  BY <1>6, <1>10, MoveType DEF ReportLost
<1> QED
  BY <1>1, <1>2, <1>3, <1>3a, <1>4, <1>5, <1>8, <1>9, <1>10 DEF FaultStep

LEMMA WorkerType ==
  ASSUME TypeOK, NEW w \in Worker,
         WorkerStep(w) \/ \E k \in Task : Take(w, k)
  PROVE  TypeOK'
<1> DEFINE WorkerOK == /\ worker' \in [Worker -> WorkerState]
                      /\ \A v \in Worker : worker'[v].task # None <=> worker'[v].pc # "idle"
<1> USE DEF dbVars, rustVars, brokerVars, historyVars
<1>1. ASSUME ~At(w, "idle"), StopCancelled(w) PROVE TypeOK'
  BY <1>1, StopType
<1>2. /\ worker[w] \in WorkerState
      /\ Idle \in WorkerState /\ Idle.task = None /\ Idle.pc = "idle"
  BY DEF TypeOK, Idle, WorkerState
<1>3. ~At(w, "idle") => worker[w].task \in Task
  BY <1>2 DEF TypeOK, At, WorkerState
<1>4. ASSUME NEW k \in Task, Take(w, k) PROVE TypeOK'
  <2>1. [Idle EXCEPT !.task = k, !.pc = "begin"] \in WorkerState
    BY DEF Idle, WorkerState
  <2>2. WorkerOK
    BY <1>4, <2>1, MoveType DEF Take, Idle
  <2>3. queue' \subseteq Task /\ active' \in Task \cup {None}
    BY <1>4 DEF Take, TypeOK
  <2>4. UNCHANGED <<dbVars, rustVars, flag, revoked, lease, toRun, historyVars, faults>>
    BY <1>4 DEF Take
  <2> QED
    BY <2>2, <2>3, <2>4 DEF TypeOK
<1>5. CASE BeginExecute(w)
  <2>1. CASE ~flag /\ Report("run.started") /\ Goto(w, "agent")
    BY <1>5, <2>1, ReportType, GotoType DEF BeginExecute, TypeOK, At, Kinds, StopCancelled
  <2> QED
    BY <1>1, <1>5, <2>1 DEF BeginExecute, At
<1>6. CASE AcquireLease(w)
  <2>1. WorkerOK
    BY <1>2, <1>6, GotoType, MoveType DEF AcquireLease, At
  <2> QED
    BY <1>6, <2>1 DEF AcquireLease, TypeOK
<1>7. CASE BeginResume(w)
  <2>1. CASE ~flag
    <3>1. [worker[w] EXCEPT !.pc = "agent", !.tool = toRun, !.value = (toRun # None)] \in WorkerState
      BY <1>2 DEF WorkerState, TypeOK
    <3>2. worker' = [worker EXCEPT ![w] =
                       [worker[w] EXCEPT !.pc = "agent", !.tool = toRun, !.value = (toRun # None)]]
      BY <1>7, <2>1 DEF BeginResume, StopCancelled, TypeOK, WorkerState
    <3>3. WorkerOK
      BY <1>2, <1>7, <3>1, <3>2, MoveType DEF BeginResume, At, TypeOK, WorkerState
    <3>4. status' \in RunStatus /\ log' \subseteq Outcome /\ gate' = gate
      BY <1>7, <2>1, ReportType DEF BeginResume, StopCancelled, Kinds
    <3> QED
      BY <1>7, <2>1, <3>3, <3>4 DEF BeginResume, StopCancelled, TypeOK
  <2> QED
    BY <1>1, <1>7, <2>1 DEF BeginResume, At, StopCancelled
<1>8. CASE StreamCheck(w)
  BY <1>1, <1>8 DEF StreamCheck, At
<1>9. ASSUME NEW t \in Tool, CallTool(w, t) PROVE TypeOK'
  <2>1. CASE ~flag
    <3>1. [worker[w] EXCEPT !.pc = "authorize", !.tool = t] \in WorkerState
      BY <1>2 DEF WorkerState
    <3>2. WorkerOK
      BY <1>2, <1>9, <2>1, <3>1, MoveType DEF CallTool, StopCancelled, At, TypeOK, WorkerState
    <3> QED
      BY <1>9, <2>1, <3>2 DEF CallTool, StopCancelled, TypeOK
  <2> QED
    BY <1>1, <1>9, <2>1 DEF CallTool, At, StopCancelled
<1>10. CASE AuthorizeReuse(w)
  <2>1. PICK a \in Reusable(worker[w].tool) :
          /\ gate' = [gate EXCEPT ![a].call = "authorized"]
          /\ worker' = [worker EXCEPT ![w].pc = "granted", ![w].call = a]
    BY <1>10 DEF AuthorizeReuse
  <2>2. a \in Approval
    BY DEF Reusable
  <2>3. [worker[w] EXCEPT !.pc = "granted", !.call = a] \in WorkerState
    BY <1>2, <2>2 DEF WorkerState
  <2>4. WorkerOK
    BY <1>2, <1>10, <2>1, <2>3, MoveType DEF AuthorizeReuse, At, TypeOK, WorkerState
  <2>5. gate' \in [Approval -> Gate]
    <3>1. [gate[a] EXCEPT !.call = "authorized"] \in Gate
      BY <2>2 DEF Gate, TypeOK
    <3> QED
      BY <2>1, <2>2, <3>1 DEF TypeOK
  <2> QED
    BY <1>10, <2>4, <2>5 DEF AuthorizeReuse, TypeOK
<1>11. CASE AuthorizeOutright(w)
  <2>1. CASE worker' = [worker EXCEPT ![w].pc = "granted", ![w].call = None]
    <3>1. [worker[w] EXCEPT !.pc = "granted", !.call = None] \in WorkerState
      BY <1>2 DEF WorkerState
    <3>2. WorkerOK
      BY <1>2, <1>11, <2>1, <3>1, MoveType DEF AuthorizeOutright, At, TypeOK, WorkerState
    <3> QED
      BY <1>11, <3>2 DEF AuthorizeOutright, TypeOK
  <2>2. CASE worker' = [worker EXCEPT ![w] = [Idle EXCEPT !.task = worker[w].task, !.pc = "agent"]]
    <3>1. [Idle EXCEPT !.task = worker[w].task, !.pc = "agent"] \in WorkerState
      BY <1>2 DEF WorkerState, Idle
    <3>2. WorkerOK
      BY <1>2, <1>3, <1>11, <2>2, <3>1, MoveType DEF AuthorizeOutright, At, TypeOK, WorkerState, Idle
    <3> QED
      BY <1>11, <3>2 DEF AuthorizeOutright, TypeOK
  <2> QED
    BY <1>11, <2>1, <2>2 DEF AuthorizeOutright
<1>12. CASE AuthorizeReview(w)
  <2>1. PICK a \in Approval :
          /\ gate' = [gate EXCEPT ![a] = [status |-> "pending", tool |-> worker[w].tool,
                                          call |-> "waiting_approval"]]
          /\ worker' = [worker EXCEPT ![w].pc = "asked", ![w].call = a]
    BY <1>12 DEF AuthorizeReview
  <2>2. [worker[w] EXCEPT !.pc = "asked", !.call = a] \in WorkerState
    BY <1>2 DEF WorkerState
  <2>3. WorkerOK
    BY <1>2, <1>12, <2>1, <2>2, MoveType DEF AuthorizeReview, At, TypeOK, WorkerState
  <2>4. gate' \in [Approval -> Gate]
    BY <1>2, <2>1 DEF Gate, WorkerState, TypeOK
  <2> QED
    BY <1>12, <2>3, <2>4 DEF AuthorizeReview, TypeOK
<1>13. CASE Interrupt(w)
  <2>1. [worker[w] EXCEPT !.pc = "granted", !.value = FALSE] \in WorkerState
    BY <1>2 DEF WorkerState
  <2>2. CASE worker' = [worker EXCEPT ![w].pc = "granted", ![w].value = FALSE]
    BY <1>2, <1>13, <2>1, <2>2, MoveType DEF Interrupt, At, TypeOK, WorkerState
  <2>3. CASE Goto(w, "parked")
    BY <1>13, <2>3, GotoType DEF Interrupt, At, TypeOK
  <2> QED
    BY <1>13, <2>2, <2>3 DEF Interrupt
<1>14. CASE ReportWaiting(w)
  <2>1. CASE ~flag /\ Report("interrupt.requested") /\ Goto(w, "done")
    BY <1>14, <2>1, ReportType, GotoType DEF ReportWaiting, TypeOK, At, Kinds, StopCancelled
  <2> QED
    BY <1>1, <1>14, <2>1 DEF ReportWaiting, At
<1>15. CASE LastCheck(w)
  <2>1. CASE ~flag /\ Goto(w, "cleared")
    <3>1. WorkerOK
      BY <1>15, <2>1, GotoType DEF LastCheck, At
    <3> QED
      BY <1>15, <2>1, <3>1 DEF LastCheck, StopCancelled, TypeOK
  <2> QED
    BY <1>1, <1>15, <2>1 DEF LastCheck, At
<1>15a. CASE ExecuteTool(w)
  <2>1. WorkerOK
    BY <1>15a, GotoType DEF ExecuteTool, At
  <2>2. runs' \in [Tool -> Nat]
    <3>1. CASE worker[w].call = None
      BY <1>15a, <3>1 DEF ExecuteTool, TypeOK
    <3>2. CASE worker[w].call # None
      <4>1. runs \in [Tool -> Nat]
        BY DEF TypeOK
      <4>2. runs' = [runs EXCEPT ![worker[w].tool] = @ + 1]
        BY <1>15a, <3>2 DEF ExecuteTool
      <4>3. \A u \in Tool : runs[u] \in Nat /\ runs[u] + 1 \in Nat
        BY <4>1
      <4>4. \A u \in Tool : runs'[u] = IF u = worker[w].tool THEN runs[u] + 1 ELSE runs[u]
        BY <4>1, <4>2
      <4>5. runs' = [u \in Tool |-> runs'[u]]
        BY <4>1, <4>2
      <4> QED
        BY <4>3, <4>4, <4>5
    <3> QED
      BY <3>1, <3>2
  <2> QED
    BY <1>15a, <2>1, <2>2 DEF ExecuteTool, TypeOK
<1>16. CASE ReportTool(w)
  <2>1. CASE ~flag
    <3>1. [Idle EXCEPT !.task = worker[w].task, !.pc = "agent"] \in WorkerState
      BY <1>2 DEF WorkerState, Idle
    <3>2. /\ worker' = [worker EXCEPT ![w] = [Idle EXCEPT !.task = worker[w].task, !.pc = "agent"]]
          /\ worker[w].task \in Task
      BY <1>3, <1>16, <2>1 DEF ReportTool, StopCancelled, At
    <3>3. WorkerOK
      BY <3>1, <3>2, MoveType DEF Idle
    <3>4. gate' \in [Approval -> Gate]
      <4>1. \A a \in Approval : [gate[a] EXCEPT !.call = "finished"] \in Gate
        BY DEF Gate, TypeOK
      <4> QED
        BY <1>16, <2>1, <4>1 DEF ReportTool, StopCancelled, TypeOK
    <3> QED
      BY <1>16, <2>1, <3>3, <3>4 DEF ReportTool, StopCancelled, TypeOK
  <2> QED
    BY <1>1, <1>16, <2>1 DEF ReportTool, At, StopCancelled
<1>17. CASE AgentEnds(w)
  <2>1. WorkerOK
    BY <1>17, GotoType DEF AgentEnds, At
  <2>2. lease \in [Approval -> {"absent", "running", "completed", "failed"}]
    BY DEF TypeOK
  <2>3. lease' \in [Approval -> {"absent", "running", "completed", "failed"}]
    BY <1>17, <2>2 DEF AgentEnds
  <2>4. UNCHANGED <<dbVars, rustVars, queue, active, flag, revoked, toRun, historyVars, faults>>
    BY <1>17 DEF AgentEnds
  <2> QED
    BY <2>1, <2>3, <2>4 DEF TypeOK
<1>18. CASE ReportCompleted(w)
  BY <1>18, ReportType, GotoType DEF ReportCompleted, TypeOK, At, Kinds
<1>19. CASE AgentFails(w)
  BY <1>19, ReportType, GotoType DEF AgentFails, TypeOK, At, Kinds
<1>20. CASE EndTask(w)
  <2>1. WorkerOK
    BY <1>2, <1>20, MoveType DEF EndTask
  <2>2. lease \in [Approval -> {"absent", "running", "completed", "failed"}]
    BY DEF TypeOK
  <2>3. lease' \in [Approval -> {"absent", "running", "completed", "failed"}]
    BY <1>20, <2>2 DEF EndTask
  <2>4. active' \in Task \cup {None}
    BY <1>20 DEF EndTask, TypeOK
  <2>5. UNCHANGED <<dbVars, rustVars, queue, flag, revoked, toRun, historyVars, faults>>
    BY <1>20 DEF EndTask
  <2> QED
    BY <2>1, <2>3, <2>4, <2>5 DEF TypeOK
<1> QED
  BY <1>4, <1>5, <1>6, <1>7, <1>8, <1>9, <1>10, <1>11, <1>12, <1>13, <1>14, <1>15, <1>15a, <1>16,
     <1>17,     <1>18, <1>19, <1>20 DEF WorkerStep

LEMMA TerminateType ==
  ASSUME TypeOK, NEW w \in Worker, Terminate(w)
  PROVE  TypeOK'
<1>1. Idle \in WorkerState /\ Idle.task = None /\ Idle.pc = "idle"
  BY DEF Idle, WorkerState
<1>2. /\ worker' \in [Worker -> WorkerState]
      /\ \A v \in Worker : worker'[v].task # None <=> worker'[v].pc # "idle"
  BY <1>1, MoveType DEF Terminate
<1>3. queue' \subseteq Task
  BY DEF Terminate, TypeOK
<1> QED
  BY <1>2, <1>3 DEF Terminate, TypeOK, dbVars, rustVars, historyVars

LEMMA TypeNext == TypeOK /\ [Next]_vars => TypeOK'
<1> SUFFICES ASSUME TypeOK, [Next]_vars PROVE TypeOK'
  OBVIOUS
<1>1. CASE UNCHANGED vars
  BY <1>1 DEF vars, TypeOK
<1> QED
  BY <1>1, RustType, FaultType, WorkerType, TerminateType DEF Next

LEMMA TypeInit == Init => TypeOK
<1> SUFFICES ASSUME Init PROVE TypeOK
  OBVIOUS
<1>1. worker \in [Worker -> WorkerState] /\ \A w \in Worker : worker[w].task = None /\ worker[w].pc = "idle"
  BY DEF Init, Idle, WorkerState
<1>2. gate \in [Approval -> Gate]
  BY DEF Init, Gate
<1>3. /\ status \in RunStatus /\ log \subseteq Outcome /\ queue \subseteq Task
      /\ decidePc \in [Approval -> {"idle", "resume", "failed"}]
      /\ lease \in [Approval -> {"absent", "running", "completed", "failed"}]
      /\ runs \in [Tool -> Nat] /\ bodies \in [Approval -> Nat]
  BY DEF Init
<1> QED
  BY <1>1, <1>2, <1>3 DEF Init, TypeOK

\* Type correctness.
THEOREM RunTypeCorrect == Spec => []TypeOK
<1> QED
  BY TypeInit, TypeNext, PTL DEF Spec

-------------------------------------------------------------------------------
(* What a step writes to the run.                                            *)

\* CancelRun and CancelConversation, of a run that has not ended.
CancelWrites ==
  /\ status \notin Terminal
  /\ status' = "cancelled"
  /\ log' = log \cup {"run.cancelled"}

\* The ways in which a step writes the row of the run and its log.
RunWritten ==
  \/ UNCHANGED <<status, log>>
  \/ status = "none" /\ status' = "queued" /\ UNCHANGED log
  \/ \E kind \in Kinds : Report(kind)
  \/ MarkFailed
  \/ CancelWrites
  \/ ReviewAsked /\ UNCHANGED log
  \/ ReviewRejected /\ UNCHANGED log

\* A decision against a call is never taken back.
RejectionsKept ==
  \A a \in Approval : gate[a].status = "rejected" => gate'[a].status = "rejected"

LEMMA StopWrites ==
  ASSUME NEW w \in Worker, StopCancelled(w)
  PROVE  RunWritten /\ RejectionsKept
BY DEF StopCancelled, RunWritten, RejectionsKept, Kinds, Report

LEMMA RustWrites ==
  ASSUME TypeOK, RustStep
  PROVE  RunWritten /\ RejectionsKept
<1> USE DEF RunWritten, RejectionsKept, dbVars
<1>1. CASE Create
  BY <1>1 DEF Create
<1>2. CASE DispatchOk \/ CancelReads \/ MarkCancelled \/ Propagate \/ \E a \in Approval : ResumeOk(a)
  BY <1>2 DEF DispatchOk, CancelReads, MarkCancelled, Propagate, ResumeOk
<1>3. CASE MarkDispatchFailed \/ \E a \in Approval : MarkResumeFailed(a)
  BY <1>3 DEF MarkDispatchFailed, MarkResumeFailed, MarkFailed
<1>4. CASE CancelRun
  BY <1>4 DEF CancelRun, CancelWrites
<1>5. CASE CancelConversation
  <2>1. gate' = [a \in Approval |-> Closed(gate[a])]
    BY <1>5 DEF CancelConversation, Closed
  <2>2. \A a \in Approval : gate[a] \in Gate
    BY DEF TypeOK
  <2>3. \A a \in Approval : gate[a].status = "rejected" => gate'[a].status = "rejected"
    BY <2>1, <2>2, GateCancelled
  <2> QED
    BY <1>5, <2>3 DEF CancelConversation, CancelWrites
<1>6. ASSUME NEW a \in Approval, NEW d \in {"approved", "rejected"}, Decide(a, d)
      PROVE  RunWritten /\ RejectionsKept
  <2>1. gate[a].status = "pending" /\ gate'[a].status = d
    BY <1>6 DEF Decide, TypeOK, Gate
  <2>2. \A b \in Approval : b # a => gate'[b] = gate[b]
    BY <1>6 DEF Decide, TypeOK
  <2>3. \/ d = "approved" /\ UNCHANGED <<status, log>>
        \/ d = "rejected" /\ status' = "failed" /\ UNCHANGED log
    BY <1>6 DEF Decide
  <2> QED
    BY <2>1, <2>2, <2>3 DEF ReviewRejected
<1> QED
  BY <1>1, <1>2, <1>3, <1>4, <1>5, <1>6 DEF RustStep

LEMMA FaultWrites ==
  ASSUME FaultStep
  PROVE  RunWritten /\ RejectionsKept
BY DEF FaultStep, DispatchFails, DispatchAbandoned, MarkFails, PropagateFails, ResumeFails, CrashRust,
       WorkerLost, DeliveredAgain, ReportLost, RunWritten, RejectionsKept, dbVars

LEMMA WorkerWrites ==
  ASSUME TypeOK, NEW w \in Worker, WorkerStep(w) \/ \E k \in Task : Take(w, k)
  PROVE  RunWritten /\ RejectionsKept
<1> USE DEF dbVars
<1>1. CASE StopCancelled(w)
  BY <1>1, StopWrites
<1>2. CASE \E kind \in Kinds : Report(kind)
  BY <1>2 DEF RunWritten, RejectionsKept, Report
<1>3. CASE UNCHANGED dbVars
  BY <1>3 DEF RunWritten, RejectionsKept
<1>4. CASE AuthorizeReuse(w) \/ (ReportTool(w) /\ ~StopCancelled(w))
  <2>1. PICK b \in Approval \cup {None}, place \in {"authorized", "finished"} :
          gate' \in {gate, [gate EXCEPT ![b].call = place]}
    BY <1>4 DEF AuthorizeReuse, ReportTool, Reusable, TypeOK, WorkerState
  <2>2. \A a \in Approval : gate'[a].status = gate[a].status
    BY <2>1 DEF TypeOK, Gate
  <2> QED
    BY <1>4, <2>2 DEF AuthorizeReuse, ReportTool, RunWritten, RejectionsKept
<1>5. CASE AuthorizeReview(w)
  <2>1. PICK a \in Approval :
          /\ gate[a].status = "none"
          /\ gate' = [gate EXCEPT ![a] = [status |-> "pending", tool |-> worker[w].tool,
                                          call |-> "waiting_approval"]]
    BY <1>5 DEF AuthorizeReview
  <2>2. gate'[a].status = "pending" /\ \A b \in Approval : b # a => gate'[b] = gate[b]
    BY <2>1 DEF TypeOK
  <2> QED
    BY <1>5, <2>1, <2>2 DEF AuthorizeReview, RunWritten, RejectionsKept, ReviewAsked
<1> QED
  BY <1>1, <1>2, <1>3, <1>4, <1>5
     DEF WorkerStep, Take, BeginExecute, AcquireLease, BeginResume, StreamCheck, CallTool,
         AuthorizeOutright, Interrupt, ReportWaiting, LastCheck, ExecuteTool, AgentEnds, ReportCompleted,
         AgentFails, EndTask, Kinds

LEMMA NextWrites ==
  ASSUME TypeOK, [Next]_vars
  PROVE  RunWritten /\ RejectionsKept
<1>1. CASE UNCHANGED vars
  BY <1>1 DEF vars, RunWritten, RejectionsKept
<1> QED
  BY <1>1, RustWrites, FaultWrites, WorkerWrites DEF Next, Terminate, RunWritten, RejectionsKept, dbVars

LEMMA AnnouncedNext ==
  ASSUME TypeOK, OutcomeIsAnnounced, [Next]_vars
  PROVE  OutcomeIsAnnounced'
<1>1. RunWritten /\ RejectionsKept
  BY NextWrites
<1>2. CASE \E kind \in Kinds : Report(kind)
  BY <1>1, <1>2 DEF OutcomeIsAnnounced, Report, StatusAfter, Kinds, RejectionsKept
<1>3. CASE MarkFailed \/ CancelWrites
  BY <1>1, <1>3 DEF OutcomeIsAnnounced, MarkFailed, CancelWrites, RejectionsKept
<1>4. CASE UNCHANGED log /\ (ReviewAsked \/ ReviewRejected \/ status' = "queued" \/ status' = status)
  BY <1>1, <1>4 DEF OutcomeIsAnnounced, ReviewAsked, ReviewRejected, RejectionsKept
<1> QED
  BY <1>1, <1>2, <1>3, <1>4 DEF RunWritten

\* Every terminal status is explained by an event of the conversation or by a
\* rejected approval, whatever fails, is repeated or races.
THEOREM RunOutcomeAnnounced == Spec => []OutcomeIsAnnounced
<1>1. Init => TypeOK /\ OutcomeIsAnnounced
  BY TypeInit DEF Init, OutcomeIsAnnounced
<1>2. TypeOK /\ OutcomeIsAnnounced /\ [Next]_vars => TypeOK' /\ OutcomeIsAnnounced'
  BY TypeNext, AnnouncedNext
<1> QED
  BY <1>1, <1>2, PTL DEF Spec

\* The guard of update_run_status_from_event, of mark_dispatch_failed, of
\* mark_approval_resume_failed and of the cancels is enough: only a new review
\* and a rejection, which have none, change an outcome.
THEOREM RunOutcomeKept == Spec => OutcomeChangedOnlyByReview
<1>1. TypeOK /\ [Next]_vars
        => [(status \in Terminal /\ status' # status) => (ReviewAsked \/ ReviewRejected)]_vars
  BY NextWrites DEF RunWritten, Report, StatusAfter, MarkFailed, CancelWrites
<1> QED
  BY <1>1, RunTypeCorrect, PTL DEF Spec, OutcomeChangedOnlyByReview

-------------------------------------------------------------------------------
(* The resume of an approval.                                                *)

\* What most steps leave of the leases and of the workers that hold one.
LeasesKept ==
  /\ UNCHANGED bodies
  /\ \A a \in Approval : \/ lease'[a] \in {lease[a], "completed"}
                         \/ lease'[a] = "failed" /\ "run.failed" \in log'
  /\ \A v \in Worker :
       /\ worker'[v].pc = "leased" => worker[v].pc = "leased" /\ worker'[v].task = worker[v].task
       /\ worker'[v].pc = "broken" => worker[v].pc = "broken" \/ "run.failed" \in log'

LEMMA LogGrows == ASSUME RunWritten PROVE log \subseteq log'
BY DEF RunWritten, Report, MarkFailed, CancelWrites

LEMMA KeptInv ==
  ASSUME TypeOK, LeaseInv, log \subseteq log', LeasesKept
  PROVE  LeaseInv'
BY DEF LeaseInv, LeasesKept, At

LEMMA RustLeases == ASSUME TypeOK, RustStep PROVE LeasesKept
<1>1. UNCHANGED <<lease, bodies>>
  BY DEF RustStep, Create, DispatchOk, MarkDispatchFailed, CancelReads, CancelRun,
         CancelConversation, MarkCancelled, Propagate, Decide, ResumeOk, MarkResumeFailed, brokerVars, historyVars
<1>2. UNCHANGED worker
  BY DEF RustStep, Create, DispatchOk, MarkDispatchFailed, CancelReads, CancelRun,
         CancelConversation, MarkCancelled, Propagate, Decide, ResumeOk, MarkResumeFailed
<1> QED
  BY <1>1, <1>2 DEF LeasesKept

LEMMA TerminateLeases == ASSUME TypeOK, NEW w \in Worker, Terminate(w) PROVE LeasesKept
BY DEF Terminate, LeasesKept, Idle, TypeOK, historyVars

LEMMA FaultLeases == ASSUME TypeOK, FaultStep PROVE LeasesKept
<1>1. UNCHANGED <<lease, bodies>>
  BY DEF FaultStep, DispatchFails, DispatchAbandoned, MarkFails, PropagateFails, ResumeFails, CrashRust,
         WorkerLost, DeliveredAgain, ReportLost, brokerVars, historyVars
<1>2. \A v \in Worker : worker'[v] \in {worker[v], Idle}
  BY DEF FaultStep, DispatchFails, DispatchAbandoned, MarkFails, PropagateFails, ResumeFails, CrashRust,
         WorkerLost, DeliveredAgain, ReportLost, TypeOK
<1> QED
  BY <1>1, <1>2 DEF LeasesKept, Idle, TypeOK

LEMMA StopLeases == ASSUME TypeOK, NEW w \in Worker, StopCancelled(w) PROVE LeasesKept
BY DEF StopCancelled, Goto, LeasesKept, TypeOK, WorkerState, brokerVars, historyVars

LEMMA WorkerLeases ==
  ASSUME TypeOK, LeaseInv, NEW w \in Worker, WorkerStep(w) \/ \E k \in Task : Take(w, k)
  PROVE  LeasesKept \/ (AcquireLease(w) /\ At(w, "leased")') \/ (BeginResume(w) /\ ~flag)
<1> USE DEF brokerVars, historyVars
<1>1. CASE StopCancelled(w)
  BY <1>1, StopLeases
<1>2. ASSUME ~StopCancelled(w), ~AcquireLease(w), ~BeginResume(w), ~AgentEnds(w), ~AgentFails(w), ~EndTask(w)
      PROVE  LeasesKept
  <2>1. UNCHANGED <<lease, bodies>>
    BY <1>2 DEF WorkerStep, Take, BeginExecute, StreamCheck, CallTool, AuthorizeReuse,
                AuthorizeOutright, AuthorizeReview, Interrupt, ReportWaiting, LastCheck, ExecuteTool,
                ReportTool, ReportCompleted
  <2>0. /\ \A k \in Task : [Idle EXCEPT !.task = k, !.pc = "begin"].pc = "begin"
        /\ [Idle EXCEPT !.task = worker[w].task, !.pc = "agent"].pc = "agent"
    BY DEF Idle
  <2>2. worker'[w].pc \notin {"leased", "broken"} /\ \A v \in Worker : v # w => worker'[v] = worker[v]
    <3>1. CASE \E place \in {"agent", "parked", "done", "cleared", "executed"} : Goto(w, place)
      BY <3>1 DEF Goto, TypeOK, WorkerState
    <3>2. CASE \E k \in Task : Take(w, k)
      BY <2>0, <3>2 DEF Take, TypeOK
    <3>3. CASE (\E t \in Tool : CallTool(w, t)) \/ AuthorizeReuse(w) \/ AuthorizeReview(w)
      BY <1>2, <3>3 DEF CallTool, AuthorizeReuse, AuthorizeReview, TypeOK, WorkerState
    <3>4. CASE AuthorizeOutright(w)
      <4>1. CASE worker' = [worker EXCEPT ![w].pc = "granted", ![w].call = None]
        BY <4>1 DEF TypeOK, WorkerState
      <4>2. CASE worker' = [worker EXCEPT ![w] = [Idle EXCEPT !.task = worker[w].task, !.pc = "agent"]]
        BY <2>0, <4>2 DEF TypeOK
      <4> QED
        BY <3>4, <4>1, <4>2 DEF AuthorizeOutright
    <3>5. CASE Interrupt(w)
      BY <3>1, <3>5 DEF Interrupt, TypeOK, WorkerState
    <3>6. CASE ReportTool(w)
      BY <1>2, <2>0, <3>6 DEF ReportTool, TypeOK
    <3> QED
      BY <1>2, <3>1, <3>2, <3>3, <3>4, <3>5, <3>6
         DEF WorkerStep, BeginExecute, StreamCheck, ReportWaiting, LastCheck, ExecuteTool, ReportCompleted
  <2> QED
    BY <2>1, <2>2 DEF LeasesKept
<1>3. CASE AcquireLease(w) /\ ~At(w, "leased")'
  BY <1>3 DEF AcquireLease, LeasesKept, Goto, At, Idle, TypeOK, WorkerState
<1>4. CASE AgentEnds(w)
  BY <1>4 DEF AgentEnds, LeasesKept, Goto, TypeOK, WorkerState
<1>5. CASE AgentFails(w)
  BY <1>5 DEF AgentFails, Report, Outcome, LeasesKept, Goto, TypeOK, WorkerState
<1>6. CASE EndTask(w)
  <2>1. ~At(w, "done") => "run.failed" \in log /\ log' = log
    BY <1>6 DEF EndTask, LeaseInv, At, dbVars
  <2> QED
    BY <1>6, <2>1 DEF EndTask, LeasesKept, Idle, At, TypeOK, WorkerState
<1>7. CASE BeginResume(w)
  BY <1>1, <1>7 DEF BeginResume, StopCancelled
<1> QED
  BY <1>1, <1>2, <1>3, <1>4, <1>5, <1>6, <1>7

LEMMA AcquireInv ==
  ASSUME TypeOK, LeaseInv, NEW w \in Worker, AcquireLease(w), At(w, "leased")'
  PROVE  LeaseInv'
<1> DEFINE a == worker[w].task
<1>1. a \in Approval /\ At(w, "begin")
  BY DEF AcquireLease, TypeOK, WorkerState, At
<1>2. /\ lease[a] \in {"absent", "failed"}
      /\ lease' = [lease EXCEPT ![a] = "running"]
      /\ worker' = [worker EXCEPT ![w].pc = "leased"]
      /\ UNCHANGED <<bodies, log>>
  BY DEF AcquireLease, Goto, At, Idle, TypeOK, WorkerState, dbVars, historyVars
<1>3. /\ worker'[w].pc = "leased" /\ worker'[w].task = a
      /\ \A v \in Worker : v # w => worker'[v] = worker[v]
  BY <1>2 DEF TypeOK, WorkerState
<1>4. lease'[a] = "running" /\ \A b \in Approval : b # a => lease'[b] = lease[b]
  BY <1>1, <1>2 DEF TypeOK
<1>5. "run.failed" \notin log => lease[a] = "absent" /\ bodies[a] = 0
  BY <1>1, <1>2 DEF LeaseInv
<1>6. "run.failed" \notin log => \A v \in Worker : At(v, "leased") => worker[v].task # a
  BY <1>5 DEF LeaseInv
<1> QED
  BY <1>1, <1>2, <1>3, <1>4, <1>5, <1>6 DEF LeaseInv, At

LEMMA BeginInv ==
  ASSUME TypeOK, LeaseInv, NEW w \in Worker, BeginResume(w), ~flag
  PROVE  LeaseInv'
<1> DEFINE a == worker[w].task
<1>1. /\ At(w, "leased")
      /\ Report("run.started")
      /\ worker' = [worker EXCEPT ![w].pc = "agent", ![w].tool = toRun, ![w].value = (toRun # None)]
      /\ bodies' = [bodies EXCEPT ![a] = @ + 1]
      /\ UNCHANGED lease
  BY DEF BeginResume, StopCancelled, brokerVars
<1>2. log' = log
  BY <1>1 DEF Report
<1>3. /\ worker'[w].pc = "agent"
      /\ \A v \in Worker : v # w => worker'[v] = worker[v]
  BY <1>1 DEF TypeOK, WorkerState
<1>4. ASSUME "run.failed" \notin log
      PROVE  /\ a \in Approval /\ bodies[a] = 0 /\ lease[a] # "absent"
             /\ \A v \in Worker : v # w /\ At(v, "leased") => worker[v].task # a
  BY <1>1, <1>4 DEF LeaseInv
<1>5. ASSUME "run.failed" \notin log
      PROVE  bodies'[a] = 1 /\ \A b \in Approval : b # a => bodies'[b] = bodies[b]
  BY <1>1, <1>4, <1>5 DEF TypeOK
<1>6. \A v \in Worker : At(v, "leased")' => v # w /\ At(v, "leased") /\ worker'[v] = worker[v]
  BY <1>3 DEF At
<1>7. \A v \in Worker : At(v, "broken")' => "run.failed" \in log'
  BY <1>2, <1>3 DEF LeaseInv, At
<1>8. ASSUME "run.failed" \notin log
      PROVE  \A b \in Approval : /\ lease'[b] # "failed" /\ bodies'[b] <= 1
                                 /\ lease'[b] = "absent" => bodies'[b] = 0
  BY <1>1, <1>4, <1>5, <1>8 DEF LeaseInv
<1>9. ASSUME "run.failed" \notin log
      PROVE  \A v \in Worker : At(v, "leased")' => /\ worker'[v].task \in Approval
                                                   /\ lease'[worker'[v].task] # "absent"
                                                   /\ bodies'[worker'[v].task] = 0
  <2> SUFFICES ASSUME NEW v \in Worker, At(v, "leased")'
               PROVE  /\ worker'[v].task \in Approval
                      /\ lease'[worker'[v].task] # "absent"
                      /\ bodies'[worker'[v].task] = 0
    OBVIOUS
  <2>1. v # w /\ At(v, "leased") /\ worker'[v] = worker[v]
    BY <1>6
  <2>2. /\ worker[v].task \in Approval /\ lease[worker[v].task] # "absent"
        /\ bodies[worker[v].task] = 0 /\ worker[v].task # a
    BY <1>4, <1>9, <2>1 DEF LeaseInv
  <2> QED
    BY <1>1, <1>5, <1>9, <2>1, <2>2
<1>10. ASSUME "run.failed" \notin log
       PROVE  \A u, v \in Worker :
                At(u, "leased")' /\ At(v, "leased")' /\ worker'[u].task = worker'[v].task => u = v
  BY <1>6, <1>10 DEF LeaseInv
<1> QED
  BY <1>2, <1>7, <1>8, <1>9, <1>10 DEF LeaseInv

LEMMA LeaseNext ==
  ASSUME TypeOK, LeaseInv, [Next]_vars
  PROVE  LeaseInv'
<1>1. log \subseteq log'
  BY NextWrites, LogGrows
<1>2. CASE UNCHANGED vars
  BY <1>2 DEF vars, LeaseInv, At
<1> QED
  BY <1>1, <1>2, KeptInv, RustLeases, FaultLeases, TerminateLeases, WorkerLeases, AcquireInv,
     BeginInv DEF Next

\* The resume of an approval is begun once, however often its message is
\* delivered and whoever is lost, unless the run was reported failed
\* (ResumeIdempotencyStore).
THEOREM RunResumedOnce == Spec => []ResumedOnce
<1>1. Init => TypeOK /\ LeaseInv
  BY TypeInit DEF Init, LeaseInv, At, Idle
<1>2. TypeOK /\ LeaseInv /\ [Next]_vars => TypeOK' /\ LeaseInv'
  BY TypeNext, LeaseNext
<1>3. TypeOK /\ LeaseInv => ResumedOnce
  BY DEF TypeOK, LeaseInv, ResumedOnce
<1> QED
  BY <1>1, <1>2, <1>3, PTL DEF Spec

-------------------------------------------------------------------------------
(* A run without faults, up to the flag of a cancel.                         *)

Undisturbed == faults = 0 /\ ~flag /\ takenBack = {}

\* Where a worker can still decide what becomes of the run; one that has asked
\* for a review only has to report and to end.
Working == {"begin", "leased", "agent", "authorize", "granted", "cleared", "executed",
            "complete"}

\* Those who have the next step of the run.
Dispatching == {k \in {Execute} : dispatchPc = "calling"}
Pending == {a \in Approval : gate[a].status = "pending"}
Resuming == {a \in Approval : decidePc[a] = "resume"}
Busy == {w \in Worker : worker[w].pc \in Working}

OneOf(D, Q, P, R, B) ==
  \E x \in D \cup Q \cup P \cup R \cup B :
    \/ D = {x} /\ Q = {} /\ P = {} /\ R = {} /\ B = {}
    \/ D = {} /\ Q = {x} /\ P = {} /\ R = {} /\ B = {}
    \/ D = {} /\ Q = {} /\ P = {x} /\ R = {} /\ B = {}
    \/ D = {} /\ Q = {} /\ P = {} /\ R = {x} /\ B = {}
    \/ D = {} /\ Q = {} /\ P = {} /\ R = {} /\ B = {x}

NoneOf(D, Q, P, R, B) == D = {} /\ Q = {} /\ P = {} /\ R = {} /\ B = {}

OneActs == OneOf(Dispatching, queue, Pending, Resuming, Busy)

NobodyActs == NoneOf(Dispatching, queue, Pending, Resuming, Busy)

\* The run has its outcome (or does not exist), and nobody has cancelled it.
Over == status \in Terminal \cup {"none"} /\ "run.cancelled" \notin log

\* The next step is handed from one to the next, until the run has an outcome; in
\* a run cancelled in the database it may also end with the approval that waited.
ActorInv ==
  /\ ~flag /\ revoked = {} /\ dispatchPc # "failed"
  /\ \A a \in Approval : decidePc[a] # "failed"
  /\ cancelPc # "marked" /\ (cancelPc = "calling" <=> "run.cancelled" \in log)
  /\ IF Over THEN NobodyActs ELSE OneActs \/ (NobodyActs /\ "run.cancelled" \in log)
  /\ status = "none" => Over /\ \A w \in Worker : At(w, "idle")

\* Approval a waits for its decision, its resume or a worker.
Waiting(a) ==
  \/ a \in Pending \cup Resuming \cup queue
  \/ \E w \in Worker : At(w, "begin") /\ worker[w].task = a

\* Only what a user approved is resumed, and the lease of an approval is taken
\* by the one worker that resumes it.
ApprovedInv ==
  \A a \in Approval :
    /\ gate[a].status = "none" \/ Waiting(a) => lease[a] = "absent"
    /\ a \in Resuming \cup queue => gate[a].status = "approved"
    /\ \A w \in Worker : worker[w].task = a =>
         gate[a].status = "approved" /\ (At(w, "begin") \/ lease[a] # "absent")

\* The checkpoint still has the tool that approval a is for, and its call was
\* not used yet.
CallReady(a) ==
  toRun # None /\ gate[a].tool = toRun /\ gate[a].call = "waiting_approval"

OwnTool(w) ==
  /\ At(w, "leased") => worker[w].task \in Approval /\ CallReady(worker[w].task)
  /\ worker[w].pc \in {"agent", "authorize"} /\ worker[w].value =>
       worker[w].tool = toRun /\ Reusable(toRun) # {}
  /\ At(w, "authorize") => worker[w].tool = toRun /\ toRun # None
  /\ worker[w].pc \in {"begin", "leased", "asked"} => ~worker[w].value

\* What is resumed is the tool that was approved.
ToolInv ==
  /\ \A a \in Approval : Waiting(a) => CallReady(a)
  /\ \A w \in Worker : OwnTool(w)

\* The worker has the permission for a call and has not made it.
ToExecute(w) == worker[w].pc \in {"granted", "cleared"}

USE DEF ToExecute

\* An approval is spent when a worker has executed the call.
Spent(t) ==
  {a \in Granted(t) : /\ gate[a].call \in {"authorized", "finished"}
                      /\ \A w \in Worker : ToExecute(w) => worker[w].call # a}

OwnCall(w) ==
  worker[w].pc \in {"granted", "cleared", "executed"} /\ worker[w].call # None =>
    worker[w].call \in Granted(worker[w].tool) /\ gate[worker[w].call].call = "authorized"

\* Each execution of a tool spends an approval of it.
SpentInv ==
  /\ \A w \in Worker : OwnCall(w)
  /\ \A t \in Tool : IsFiniteSet(Granted(t)) /\ runs[t] = Cardinality(Spent(t))

ActingInv == ActorInv /\ ApprovedInv /\ ToolInv /\ SpentInv

UndisturbedInv == Undisturbed => ActingInv

LEMMA OneOfAlone ==
  ASSUME NEW D, NEW Q, NEW P, NEW R, NEW B, OneOf(D, Q, P, R, B)
  PROVE  /\ \A x \in D : D = {x} /\ Q = {} /\ P = {} /\ R = {} /\ B = {}
         /\ \A x \in Q : D = {} /\ Q = {x} /\ P = {} /\ R = {} /\ B = {}
         /\ \A x \in P : D = {} /\ Q = {} /\ P = {x} /\ R = {} /\ B = {}
         /\ \A x \in R : D = {} /\ Q = {} /\ P = {} /\ R = {x} /\ B = {}
         /\ \A x \in B : D = {} /\ Q = {} /\ P = {} /\ R = {} /\ B = {x}
BY DEF OneOf

LEMMA BusyAlone ==
  ASSUME ActorInv, NEW w \in Busy
  PROVE  /\ Busy = {w} /\ Dispatching = {} /\ queue = {} /\ Pending = {} /\ Resuming = {}
         /\ ~Over /\ status # "none"
<1>1. status # "none"
  BY DEF ActorInv, Busy, Working, At
<1> QED
  BY <1>1, OneOfAlone DEF ActorInv, OneActs, NobodyActs, NoneOf

\* What a step of worker w, which goes on acting, leaves to the others.
Stays(w) ==
  /\ worker'[w].pc \in Working \ {"begin"} /\ worker'[w].task = worker[w].task
  /\ \A v \in Worker : v # w => worker'[v] = worker[v]
  /\ UNCHANGED <<log, rustVars, queue, flag, revoked>>
  /\ \A a \in Approval : gate'[a].status = gate[a].status
  /\ ~Over' /\ status' # "none"
  /\ \A a \in Approval : lease'[a] = lease[a] \/ (a = worker[w].task /\ lease'[a] # "absent")
  /\ At(w, "begin") => lease'[worker[w].task] # "absent" \/ worker[w].task \notin Approval

LEMMA StaysActor ==
  ASSUME TypeOK, ActorInv, NEW w \in Busy, Stays(w)
  PROVE  /\ ActorInv'
         /\ \A v \in Worker : v # w => worker[v].pc \notin Working
         /\ \A a \in Approval : ~Waiting(a)'
<1>1. /\ Busy = {w} /\ Dispatching = {} /\ queue = {} /\ Pending = {} /\ Resuming = {}
      /\ ~Over
  BY BusyAlone
<1>2. Dispatching' = {} /\ queue' = {} /\ Pending' = {} /\ Resuming' = {}
  BY <1>1 DEF Stays, Dispatching, Pending, Resuming, rustVars
<1>3. \A v \in Worker : v # w => worker[v].pc \notin Working
  BY <1>1 DEF Busy
<1>4. Busy' = {w}
  BY <1>1, <1>3 DEF Stays, Busy
<1>5. OneActs'
  BY <1>2, <1>4 DEF OneActs, OneOf
<1>6. ActorInv'
  BY <1>1, <1>5 DEF ActorInv, Stays, rustVars, Over
<1>7. \A a \in Approval : ~Waiting(a)'
  BY <1>2, <1>3 DEF Waiting, Stays, At, Working
<1> QED
  BY <1>3, <1>6, <1>7

LEMMA StaysApproved ==
  ASSUME TypeOK, ActorInv, ApprovedInv, NEW w \in Busy, Stays(w)
  PROVE  ApprovedInv'
<1>1. \A a \in Approval : ~Waiting(a)'
  BY StaysActor
<1> SUFFICES ASSUME NEW a \in Approval
             PROVE  /\ gate'[a].status = "none" => lease'[a] = "absent"
                    /\ \A v \in Worker : worker'[v].task = a =>
                         gate'[a].status = "approved" /\ (At(v, "begin")' \/ lease'[a] # "absent")
  BY <1>1 DEF ApprovedInv, Waiting
<1>2. gate'[a].status = gate[a].status
  BY DEF Stays
<1>3. \A v \in Worker : worker'[v].task = worker[v].task
  BY DEF Stays
<1>4. gate[a].status = "none" => worker[w].task # a
  BY DEF ApprovedInv, Busy
<1>5. gate'[a].status = "none" => lease'[a] = "absent"
  BY <1>2, <1>4 DEF ApprovedInv, Stays
<1>6. ASSUME NEW v \in Worker, worker'[v].task = a, v # w
      PROVE  gate'[a].status = "approved" /\ (At(v, "begin")' \/ lease'[a] # "absent")
  BY <1>2, <1>3, <1>6 DEF ApprovedInv, Stays, At
<1>7. ASSUME worker'[w].task = a
      PROVE  gate'[a].status = "approved" /\ lease'[a] # "absent"
  <2>1. gate[a].status = "approved" /\ (At(w, "begin") \/ lease[a] # "absent")
    BY <1>3, <1>7 DEF ApprovedInv, Busy
  <2> QED
    BY <1>2, <1>3, <1>7, <2>1 DEF Stays
<1> QED
  BY <1>5, <1>6, <1>7

LEMMA StaysTool ==
  ASSUME TypeOK, ActorInv, ToolInv, NEW w \in Busy, Stays(w), OwnTool(w)'
  PROVE  ToolInv'
<1>1. /\ \A v \in Worker : v # w => worker[v].pc \notin Working
      /\ \A a \in Approval : ~Waiting(a)'
  BY StaysActor
<1>2. \A v \in Worker : v # w => OwnTool(v)'
  BY <1>1 DEF Stays, ToolInv, OwnTool, At, Working
<1> QED
  BY <1>1, <1>2 DEF ToolInv

LEMMA StaysCall ==
  ASSUME TypeOK, ActorInv, SpentInv, NEW w \in Busy, Stays(w), OwnCall(w)',
         \A t \in Tool : IsFiniteSet(Granted(t)') /\ runs'[t] = Cardinality(Spent(t)')
  PROVE  SpentInv'
<1>1. \A v \in Worker : v # w => worker[v].pc \notin Working
  BY StaysActor
<1>2. \A v \in Worker : v # w => OwnCall(v)'
  BY <1>1 DEF Stays, OwnCall, Working
<1> QED
  BY <1>2 DEF SpentInv

\* A step of w that neither uses nor executes a call spends nothing.
LEMMA StaysSpent ==
  ASSUME TypeOK, ActorInv, SpentInv, NEW w \in Busy, Stays(w), UNCHANGED <<gate, runs>>,
         ~ToExecute(w), ~ToExecute(w)' \/ worker'[w].call = None
  PROVE  \A t \in Tool : IsFiniteSet(Granted(t)') /\ runs'[t] = Cardinality(Spent(t)')
<1>1. \A v \in Worker : v # w => worker[v].pc \notin Working
  BY StaysActor
<1> SUFFICES ASSUME NEW t \in Tool PROVE Granted(t)' = Granted(t) /\ Spent(t)' = Spent(t)
  BY DEF SpentInv
<1>2. Granted(t)' = Granted(t)
  BY DEF Granted
<1>3. \A v \in Worker : v # w => ~ToExecute(v) /\ ~ToExecute(v)'
  BY <1>1 DEF Stays, At, Working
<1>4. ~ToExecute(w)' \/ \A a \in Approval : worker'[w].call # a
  OBVIOUS
<1>5. \A a \in Granted(t) : /\ \A v \in Worker : ToExecute(v) => worker[v].call # a
                            /\ \A v \in Worker : ToExecute(v)' => worker'[v].call # a
  BY <1>3, <1>4 DEF Granted
<1>6. \A a \in Granted(t) : a \in Spent(t) <=> a \in Spent(t)'
  BY <1>2, <1>5 DEF Spent
<1>7. Spent(t) \subseteq Granted(t) /\ Spent(t)' \subseteq Granted(t)'
  BY DEF Spent
<1> QED
  BY <1>2, <1>6, <1>7

LEMMA StaysAll ==
  ASSUME TypeOK, ActingInv, NEW w \in Busy, Stays(w), OwnTool(w)', OwnCall(w)',
         UNCHANGED <<gate, runs>>, ~ToExecute(w), ~ToExecute(w)' \/ worker'[w].call = None
  PROVE  ActingInv'
<1>1. \A t \in Tool : IsFiniteSet(Granted(t)') /\ runs'[t] = Cardinality(Spent(t)')
  BY StaysSpent DEF ActingInv
<1> QED
  BY <1>1, StaysActor, StaysApproved, StaysTool, StaysCall DEF ActingInv

LEMMA Started ==
  ASSUME ActorInv, ~Over, Report("run.started")
  PROVE  ~Over' /\ status' # "none" /\ UNCHANGED <<log, gate>>
BY DEF ActorInv, Report, StatusAfter, Over

LEMMA BeginExecuteActs ==
  ASSUME TypeOK, ActingInv, NEW w \in Worker, BeginExecute(w)
  PROVE  ActingInv'
<1>1. w \in Busy /\ ~Over /\ status # "none" /\ ~flag
  BY BusyAlone DEF BeginExecute, At, Busy, Working, ActingInv, ActorInv
<1>2. /\ worker' = [worker EXCEPT ![w].pc = "agent"]
      /\ worker[w].pc = "begin" /\ worker[w].task = Execute
      /\ Report("run.started")
      /\ UNCHANGED <<rustVars, brokerVars, toRun, historyVars, faults>>
  BY <1>1 DEF BeginExecute, StopCancelled, Goto, At
<1>3. ~Over' /\ status' # "none" /\ UNCHANGED <<log, gate>>
  BY <1>1, <1>2, Started DEF ActingInv
<1>4. /\ worker'[w] = [worker[w] EXCEPT !.pc = "agent"]
      /\ \A v \in Worker : v # w => worker'[v] = worker[v]
  BY <1>2 DEF TypeOK
<1>5. Stays(w) /\ At(w, "agent")'
  BY <1>2, <1>3, <1>4 DEF Stays, Working, TypeOK, WorkerState, At, brokerVars
<1>6. ~worker'[w].value
  BY <1>2, <1>4 DEF ActingInv, ToolInv, OwnTool, TypeOK, WorkerState
<1>7. OwnTool(w)' /\ OwnCall(w)'
  BY <1>5, <1>6 DEF OwnTool, OwnCall, At
<1> QED
  BY <1>1, <1>2, <1>3, <1>5, <1>7, StaysAll DEF historyVars, At

LEMMA AcquireLeaseActs ==
  ASSUME TypeOK, ActingInv, NEW w \in Worker, AcquireLease(w)
  PROVE  ActingInv'
<1> DEFINE a == worker[w].task
<1>1. w \in Busy /\ ~Over /\ status # "none" /\ ~flag
  BY BusyAlone DEF AcquireLease, At, Busy, Working, ActingInv, ActorInv
<1>2. a \in Approval /\ worker[w].pc = "begin"
  BY DEF AcquireLease, TypeOK, WorkerState, At
<1>3. Waiting(a) /\ lease[a] = "absent" /\ CallReady(a)
  BY <1>2 DEF Waiting, At, ActingInv, ApprovedInv, ToolInv
<1>4. /\ lease' = [lease EXCEPT ![a] = "running"]
      /\ worker' = [worker EXCEPT ![w].pc = "leased"]
      /\ UNCHANGED <<dbVars, rustVars, queue, active, flag, revoked, toRun, historyVars, faults>>
  BY <1>3 DEF AcquireLease, Goto
<1>5. /\ worker'[w] = [worker[w] EXCEPT !.pc = "leased"]
      /\ \A v \in Worker : v # w => worker'[v] = worker[v]
  BY <1>4 DEF TypeOK
<1>6. lease'[a] = "running" /\ \A b \in Approval : b # a => lease'[b] = lease[b]
  BY <1>2, <1>4 DEF TypeOK
<1>7. worker'[w].pc = "leased" /\ worker'[w].task = a /\ worker'[w].value = worker[w].value
  BY <1>5 DEF TypeOK, WorkerState
<1>8. Stays(w)
  BY <1>1, <1>2, <1>4, <1>5, <1>6, <1>7 DEF Stays, Working, At, dbVars, Over
<1>9. ~worker[w].value
  BY <1>2 DEF ActingInv, ToolInv, OwnTool
<1>10. CallReady(a)'
  BY <1>3, <1>4 DEF CallReady, dbVars
<1>11. OwnTool(w)'
  BY <1>2, <1>7, <1>9, <1>10 DEF OwnTool, At
<1>12. OwnCall(w)'
  BY <1>7 DEF OwnCall
<1> QED
  BY <1>1, <1>2, <1>4, <1>7, <1>8, <1>11, <1>12, StaysAll DEF historyVars, At, dbVars

LEMMA BeginResumeActs ==
  ASSUME TypeOK, ActingInv, NEW w \in Worker, BeginResume(w)
  PROVE  ActingInv'
<1> DEFINE a == worker[w].task
<1>1. w \in Busy /\ ~Over /\ status # "none" /\ ~flag
  BY BusyAlone DEF BeginResume, At, Busy, Working, ActingInv, ActorInv
<1>2. /\ worker' = [worker EXCEPT ![w].pc = "agent", ![w].tool = toRun, ![w].value = (toRun # None)]
      /\ worker[w].pc = "leased"
      /\ Report("run.started")
      /\ UNCHANGED <<rustVars, brokerVars, toRun, runs, faults>>
  BY <1>1 DEF BeginResume, StopCancelled, At
<1>3. ~Over' /\ status' # "none" /\ UNCHANGED <<log, gate>>
  BY <1>1, <1>2, Started DEF ActingInv
<1>4. /\ worker'[w] = [worker[w] EXCEPT !.pc = "agent", !.tool = toRun, !.value = (toRun # None)]
      /\ \A v \in Worker : v # w => worker'[v] = worker[v]
  BY <1>2 DEF TypeOK, WorkerState
<1>5. worker'[w].pc = "agent" /\ worker'[w].tool = toRun /\ worker'[w].task = a
  BY <1>4 DEF TypeOK, WorkerState
<1>6. a \in Approval /\ CallReady(a)
  BY <1>2 DEF ActingInv, ToolInv, OwnTool, At
<1>7. Stays(w)
  BY <1>2, <1>3, <1>4, <1>5, <1>6 DEF Stays, Working, At, brokerVars
<1>8. gate[a].status = "approved"
  BY <1>2, <1>6 DEF ActingInv, ApprovedInv
<1>9. gate[a] = [status |-> "approved", tool |-> toRun, call |-> "waiting_approval"]
  BY <1>6, <1>8 DEF CallReady, TypeOK, Gate
<1>10. a \in Reusable(toRun)'
  BY <1>2, <1>3, <1>6, <1>9 DEF Reusable
<1>11. OwnTool(w)'
  BY <1>2, <1>5, <1>10 DEF OwnTool, At
<1>12. OwnCall(w)'
  BY <1>5 DEF OwnCall
<1> QED
  BY <1>1, <1>2, <1>3, <1>5, <1>7, <1>11, <1>12, StaysAll DEF At

LEMMA CallToolActs ==
  ASSUME TypeOK, ActingInv, NEW w \in Worker, NEW t \in Tool, CallTool(w, t)
  PROVE  ActingInv'
<1>1. w \in Busy /\ ~Over /\ status # "none" /\ ~flag
  BY BusyAlone DEF CallTool, At, Busy, Working, ActingInv, ActorInv
<1>2. /\ worker' = [worker EXCEPT ![w].pc = "authorize", ![w].tool = t]
      /\ worker[w].pc = "agent" /\ worker[w].value => t = worker[w].tool
      /\ toRun' = IF worker[w].value THEN toRun ELSE t
      /\ UNCHANGED <<dbVars, rustVars, brokerVars, historyVars, faults>>
  BY <1>1 DEF CallTool, StopCancelled, At
<1>3. worker[w].pc = "agent"
  BY DEF CallTool, At
<1>4. /\ worker'[w] = [worker[w] EXCEPT !.pc = "authorize", !.tool = t]
      /\ \A v \in Worker : v # w => worker'[v] = worker[v]
  BY <1>2 DEF TypeOK, WorkerState
<1>5. /\ worker'[w].pc = "authorize" /\ worker'[w].tool = t
      /\ worker'[w].task = worker[w].task /\ worker'[w].value = worker[w].value
  BY <1>4 DEF TypeOK, WorkerState
<1>6. Stays(w)
  BY <1>1, <1>2, <1>3, <1>4, <1>5 DEF Stays, Working, At, brokerVars, dbVars, Over
<1>7. toRun' = t /\ (worker[w].value => toRun = t /\ Reusable(toRun) # {})
  BY <1>2, <1>3 DEF ActingInv, ToolInv, OwnTool
<1>8. worker[w].value => Reusable(toRun)' # {}
  BY <1>2, <1>7 DEF Reusable, dbVars
<1>9. OwnTool(w)'
  BY <1>5, <1>7, <1>8 DEF OwnTool, At
<1>10. OwnCall(w)'
  BY <1>5 DEF OwnCall
<1> QED
  BY <1>1, <1>2, <1>3, <1>5, <1>6, <1>9, <1>10, StaysAll DEF At, historyVars, dbVars

\* The calls that were authorized for an approval of t.
Used(t) == {a \in Granted(t) : gate[a].call \in {"authorized", "finished"}}

LEMMA SpentIsUsed ==
  ASSUME ActorInv, NEW t \in Tool
  PROVE  /\ \A w \in Worker : ToExecute(w) => Spent(t) = Used(t) \ {worker[w].call}
         /\ (\A w \in Worker : ~ToExecute(w)) => Spent(t) = Used(t)
<1>1. ASSUME NEW w \in Worker, ToExecute(w) PROVE Spent(t) = Used(t) \ {worker[w].call}
  <2>1. \A v \in Worker : ToExecute(v) <=> v = w
    <3>1. w \in Busy /\ Busy = {w}
      BY <1>1, BusyAlone DEF Busy, Working, At
    <3> QED
      BY <1>1, <3>1 DEF Busy, Working, At
  <2>2. \A a \in Granted(t) : (\A v \in Worker : ToExecute(v) => worker[v].call # a) <=> a # worker[w].call
    BY <2>1
  <2> QED
    BY <2>2 DEF Spent, Used
<1>2. ASSUME \A w \in Worker : ~ToExecute(w) PROVE Spent(t) = Used(t)
  BY <1>2 DEF Spent, Used
<1> QED
  BY <1>1, <1>2

LEMMA SpentIsUsedNext ==
  ASSUME TypeOK, ActorInv, NEW w \in Busy, Stays(w), NEW t \in Tool
  PROVE  /\ ToExecute(w)' => Spent(t)' = Used(t)' \ {worker'[w].call}
         /\ ~ToExecute(w)' => Spent(t)' = Used(t)'
<1>1. \A v \in Worker : ToExecute(v)' => v = w
  BY StaysActor DEF Stays, At, Working
<1>2. ASSUME ToExecute(w)' PROVE Spent(t)' = Used(t)' \ {worker'[w].call}
  <2>1. \A a \in Granted(t)' :
          (\A v \in Worker : ToExecute(v)' => worker'[v].call # a) <=> a # worker'[w].call
    BY <1>1, <1>2 DEF Busy
  <2> QED
    BY <2>1 DEF Spent, Used
<1>3. ASSUME ~ToExecute(w)' PROVE Spent(t)' = Used(t)'
  BY <1>1, <1>3 DEF Spent, Used
<1> QED
  BY <1>2, <1>3

LEMMA NotGranted ==
  ASSUME ActorInv, NEW w \in Busy, ~ToExecute(w)
  PROVE  \A v \in Worker : ~ToExecute(v)
BY BusyAlone DEF Busy, Working, At

LEMMA AuthorizeReuseActs ==
  ASSUME TypeOK, ActingInv, NEW w \in Worker, AuthorizeReuse(w)
  PROVE  ActingInv'
<1>1. w \in Busy /\ ~Over /\ status # "none" /\ ~flag /\ worker[w].pc = "authorize"
  BY BusyAlone DEF AuthorizeReuse, At, Busy, Working, ActingInv, ActorInv
<1>2. PICK a \in Reusable(worker[w].tool) :
        /\ gate' = [gate EXCEPT ![a].call = "authorized"]
        /\ worker' = [worker EXCEPT ![w].pc = "granted", ![w].call = a]
  BY DEF AuthorizeReuse
<1>3. /\ a \in Approval /\ gate[a].status = "approved" /\ gate[a].tool = worker[w].tool
      /\ gate[a].call = "waiting_approval"
  BY DEF Reusable
<1>4. /\ worker'[w] = [worker[w] EXCEPT !.pc = "granted", !.call = a]
      /\ \A v \in Worker : v # w => worker'[v] = worker[v]
  BY <1>2 DEF TypeOK, WorkerState
<1>5. /\ worker'[w].pc = "granted" /\ worker'[w].call = a
      /\ worker'[w].task = worker[w].task /\ worker'[w].tool = worker[w].tool
  BY <1>4 DEF TypeOK, WorkerState
<1>6. /\ gate'[a] = [gate[a] EXCEPT !.call = "authorized"]
      /\ \A b \in Approval : b # a => gate'[b] = gate[b]
  BY <1>2, <1>3 DEF TypeOK
<1>7. gate'[a].status = "approved" /\ gate'[a].tool = worker[w].tool /\ gate'[a].call = "authorized"
  BY <1>3, <1>6 DEF TypeOK, Gate
<1>8. UNCHANGED <<status, log, rustVars, brokerVars, toRun, historyVars, faults>>
  BY DEF AuthorizeReuse
<1>8a. \A b \in Approval : gate'[b].status = gate[b].status
  BY <1>3, <1>6, <1>7
<1>9. Stays(w)
  BY <1>1, <1>4, <1>5, <1>8, <1>8a DEF Stays, Working, At, brokerVars, Over
<1>10. OwnTool(w)'
  BY <1>5 DEF OwnTool, At
<1>11. a \in Granted(worker[w].tool)'
  BY <1>3, <1>5, <1>7 DEF Granted
<1>12. OwnCall(w)'
  BY <1>5, <1>7, <1>11 DEF OwnCall
<1>13. \A t \in Tool : IsFiniteSet(Granted(t)') /\ runs'[t] = Cardinality(Spent(t)')
  <2> SUFFICES ASSUME NEW t \in Tool PROVE Granted(t)' = Granted(t) /\ Spent(t)' = Spent(t)
    BY <1>8 DEF historyVars, ActingInv, SpentInv
  <2>1. Granted(t)' = Granted(t)
    BY <1>3, <1>6, <1>7 DEF Granted
  <2>2. Spent(t) = Used(t)
    BY <1>1, NotGranted, SpentIsUsed DEF ActingInv, At
  <2>3. Spent(t)' = Used(t)' \ {a}
    BY <1>1, <1>5, <1>9, SpentIsUsedNext DEF ActingInv, At
  <2>4. a \notin Used(t)
    BY <1>3 DEF Used
  <2>5. \A b \in Granted(t) : b # a => (b \in Used(t) <=> b \in Used(t)')
    BY <1>6, <2>1 DEF Used, Granted
  <2>6. Used(t) \subseteq Granted(t) /\ Used(t)' \subseteq Granted(t)'
    BY DEF Used
  <2> QED
    BY <2>1, <2>2, <2>3, <2>4, <2>5, <2>6
<1> QED
  BY <1>1, <1>9, <1>10, <1>12, <1>13, StaysActor, StaysApproved, StaysTool, StaysCall DEF ActingInv

LEMMA AuthorizeOutrightActs ==
  ASSUME TypeOK, ActingInv, NEW w \in Worker, AuthorizeOutright(w)
  PROVE  ActingInv'
<1>1. w \in Busy /\ ~Over /\ status # "none" /\ ~flag /\ worker[w].pc = "authorize"
  BY BusyAlone DEF AuthorizeOutright, At, Busy, Working, ActingInv, ActorInv
<1>2. UNCHANGED <<dbVars, rustVars, brokerVars, historyVars, faults>>
  BY DEF AuthorizeOutright
<1>3. \A v \in Worker : v # w => worker'[v] = worker[v]
  BY DEF AuthorizeOutright, TypeOK
<1>4. /\ worker'[w].task = worker[w].task
      /\ \/ worker'[w].pc = "granted" /\ worker'[w].call = None
         \/ worker'[w].pc = "agent" /\ worker'[w].call = None /\ worker'[w].value = FALSE
  <2>1. CASE worker' = [worker EXCEPT ![w].pc = "granted", ![w].call = None]
    BY <2>1 DEF TypeOK, WorkerState
  <2>2. CASE worker' = [worker EXCEPT ![w] = [Idle EXCEPT !.task = worker[w].task, !.pc = "agent"]]
    BY <2>2 DEF TypeOK, Idle
  <2> QED
    BY <2>1, <2>2 DEF AuthorizeOutright
<1>5. Stays(w)
  BY <1>1, <1>2, <1>3, <1>4 DEF Stays, Working, At, brokerVars, dbVars, Over
<1>6. OwnTool(w)' /\ OwnCall(w)'
  BY <1>4 DEF OwnTool, OwnCall, At
<1> QED
  BY <1>1, <1>2, <1>4, <1>5, <1>6, StaysAll DEF At, historyVars, dbVars

\* Between the check and the call the worker still holds what it is to spend.
LEMMA LastCheckActs ==
  ASSUME TypeOK, ActingInv, NEW w \in Worker, LastCheck(w)
  PROVE  ActingInv'
<1>1. w \in Busy /\ ~Over /\ status # "none" /\ ~flag /\ worker[w].pc = "granted"
  BY BusyAlone DEF LastCheck, At, Busy, Working, ActingInv, ActorInv
<1>2. /\ worker' = [worker EXCEPT ![w].pc = "cleared"]
      /\ UNCHANGED <<dbVars, rustVars, brokerVars, toRun, historyVars, faults>>
  BY <1>1 DEF LastCheck, StopCancelled, Goto
<1>3. /\ worker'[w] = [worker[w] EXCEPT !.pc = "cleared"]
      /\ \A v \in Worker : v # w => worker'[v] = worker[v]
  BY <1>2 DEF TypeOK
<1>4. /\ worker'[w].pc = "cleared" /\ worker'[w].call = worker[w].call
      /\ worker'[w].tool = worker[w].tool /\ worker'[w].task = worker[w].task
  BY <1>3 DEF TypeOK, WorkerState
<1>5. Stays(w)
  BY <1>1, <1>2, <1>3, <1>4 DEF Stays, Working, At, brokerVars, dbVars, Over
<1>6. OwnTool(w)'
  BY <1>4 DEF OwnTool, At
<1>7. OwnCall(w)'
  BY <1>1, <1>2, <1>4 DEF ActingInv, SpentInv, OwnCall, Granted, dbVars
<1>8. \A t \in Tool : IsFiniteSet(Granted(t)') /\ runs'[t] = Cardinality(Spent(t)')
  <2> SUFFICES ASSUME NEW t \in Tool PROVE Granted(t)' = Granted(t) /\ Spent(t)' = Spent(t)
    BY <1>2 DEF historyVars, ActingInv, SpentInv
  <2>1. Granted(t)' = Granted(t) /\ Used(t)' = Used(t)
    BY <1>2 DEF Granted, Used, dbVars
  <2>2. Spent(t) = Used(t) \ {worker[w].call}
    BY <1>1, SpentIsUsed DEF ActingInv, At
  <2>3. Spent(t)' = Used(t)' \ {worker'[w].call}
    BY <1>1, <1>4, <1>5, SpentIsUsedNext DEF ActingInv, At
  <2> QED
    BY <1>4, <2>1, <2>2, <2>3
<1> QED
  BY <1>1, <1>5, <1>6, <1>7, <1>8, StaysActor, StaysApproved, StaysTool, StaysCall DEF ActingInv

LEMMA ExecuteToolActs ==
  ASSUME TypeOK, ActingInv, NEW w \in Worker, ExecuteTool(w)
  PROVE  ActingInv'
<1> DEFINE c == worker[w].call
           u == worker[w].tool
<1>1. w \in Busy /\ ~Over /\ status # "none" /\ worker[w].pc = "cleared"
  BY BusyAlone DEF ExecuteTool, At, Busy, Working, ActingInv
<1>2. /\ worker' = [worker EXCEPT ![w].pc = "executed"]
      /\ runs' = IF c = None THEN runs ELSE [runs EXCEPT ![u] = @ + 1]
      /\ UNCHANGED <<dbVars, rustVars, brokerVars, toRun, bodies, faults>>
  BY DEF ExecuteTool, Goto
<1>3. /\ worker'[w] = [worker[w] EXCEPT !.pc = "executed"]
      /\ \A v \in Worker : v # w => worker'[v] = worker[v]
  BY <1>2 DEF TypeOK
<1>4. /\ worker'[w].pc = "executed" /\ worker'[w].call = c /\ worker'[w].tool = u
      /\ worker'[w].task = worker[w].task
  BY <1>3 DEF TypeOK, WorkerState
<1>5. Stays(w)
  BY <1>1, <1>2, <1>3, <1>4 DEF Stays, Working, At, brokerVars, dbVars, Over
<1>6. OwnTool(w)'
  BY <1>4 DEF OwnTool, At
<1>7. c # None => c \in Granted(u) /\ gate[c].call = "authorized"
  BY <1>1 DEF ActingInv, SpentInv, OwnCall
<1>8. OwnCall(w)'
  BY <1>2, <1>4, <1>7 DEF OwnCall, Granted, dbVars
<1>9. \A t \in Tool : IsFiniteSet(Granted(t)') /\ runs'[t] = Cardinality(Spent(t)')
  <2> SUFFICES ASSUME NEW t \in Tool
               PROVE  IsFiniteSet(Granted(t)') /\ runs'[t] = Cardinality(Spent(t)')
    OBVIOUS
  <2>1. Granted(t)' = Granted(t) /\ Used(t)' = Used(t)
    BY <1>2 DEF Granted, Used, dbVars
  <2>2. Spent(t) = Used(t) \ {c}
    BY <1>1, SpentIsUsed DEF ActingInv, At
  <2>3. Spent(t)' = Used(t)
    BY <1>1, <1>4, <1>5, <2>1, SpentIsUsedNext DEF ActingInv, At
  <2>4. /\ IsFiniteSet(Granted(t)) /\ runs[t] = Cardinality(Spent(t))
        /\ Used(t) \subseteq Granted(t)
    BY DEF ActingInv, SpentInv, Used
  <2>5. CASE c \in Used(t)
    <3>1. c # None /\ t = u
      BY <1>7, <2>5 DEF Used, Granted, Task
    <3>2. runs'[t] = runs[t] + 1
      BY <1>2, <3>1 DEF TypeOK
    <3>3. IsFiniteSet(Used(t) \ {c}) /\ Used(t) = (Used(t) \ {c}) \cup {c}
      BY <2>4, <2>5, FS_Subset
    <3>4. Cardinality(Used(t)) = Cardinality(Used(t) \ {c}) + 1
      BY <3>3, FS_AddElement
    <3> QED
      BY <2>1, <2>2, <2>3, <2>4, <3>2, <3>4
  <2>6. CASE c \notin Used(t)
    <3>1. runs'[t] = runs[t]
      <4>1. c # None => t # u
        BY <1>7, <2>6 DEF Used
      <4> QED
        BY <1>2, <4>1 DEF TypeOK
    <3> QED
      BY <2>1, <2>2, <2>3, <2>4, <2>6, <3>1
  <2> QED
    BY <2>5, <2>6
<1> QED
  BY <1>1, <1>5, <1>6, <1>8, <1>9, StaysActor, StaysApproved, StaysTool, StaysCall DEF ActingInv

LEMMA ReportToolActs ==
  ASSUME TypeOK, ActingInv, NEW w \in Worker, ReportTool(w)
  PROVE  ActingInv'
<1> DEFINE c == worker[w].call
<1>1. w \in Busy /\ ~Over /\ status # "none" /\ ~flag /\ worker[w].pc = "executed"
  BY BusyAlone DEF ReportTool, At, Busy, Working, ActingInv, ActorInv
<1>2. /\ gate' = IF c = None THEN gate ELSE [gate EXCEPT ![c].call = "finished"]
      /\ worker' = [worker EXCEPT ![w] = [Idle EXCEPT !.task = worker[w].task, !.pc = "agent"]]
      /\ UNCHANGED <<status, log, rustVars, brokerVars, historyVars, faults>>
  BY <1>1 DEF ReportTool, StopCancelled
<1>3. /\ worker'[w].pc = "agent" /\ worker'[w].task = worker[w].task
      /\ ~worker'[w].value /\ worker'[w].call = None
      /\ \A v \in Worker : v # w => worker'[v] = worker[v]
  BY <1>2 DEF TypeOK, Idle
<1>4. c # None => c \in Granted(worker[w].tool) /\ gate[c].call = "authorized"
  BY <1>1 DEF ActingInv, SpentInv, OwnCall
<1>5. \A b \in Approval : /\ gate'[b].status = gate[b].status /\ gate'[b].tool = gate[b].tool
                         /\ gate'[b].call = IF b = c THEN "finished" ELSE gate[b].call
  <2> SUFFICES ASSUME NEW b \in Approval
               PROVE  /\ gate'[b].status = gate[b].status /\ gate'[b].tool = gate[b].tool
                      /\ gate'[b].call = IF b = c THEN "finished" ELSE gate[b].call
    OBVIOUS
  <2>1. CASE b = c
    <3>1. gate'[b] = [gate[b] EXCEPT !.call = "finished"]
      BY <1>2, <2>1 DEF TypeOK
    <3> QED
      BY <2>1, <3>1 DEF TypeOK, Gate
  <2>2. CASE b # c
    BY <1>2, <2>2 DEF TypeOK
  <2> QED
    BY <2>1, <2>2
<1>6. Stays(w)
  BY <1>1, <1>2, <1>3, <1>5 DEF Stays, Working, At, brokerVars, Over
<1>7. OwnTool(w)' /\ OwnCall(w)'
  BY <1>3 DEF OwnTool, OwnCall, At
<1>8. \A t \in Tool : IsFiniteSet(Granted(t)') /\ runs'[t] = Cardinality(Spent(t)')
  <2> SUFFICES ASSUME NEW t \in Tool PROVE Granted(t)' = Granted(t) /\ Spent(t)' = Spent(t)
    BY <1>2 DEF historyVars, ActingInv, SpentInv
  <2>1. Granted(t)' = Granted(t)
    BY <1>5 DEF Granted
  <2>2. Spent(t) = Used(t)
    BY <1>1, NotGranted, SpentIsUsed DEF ActingInv, At
  <2>3. Spent(t)' = Used(t)'
    BY <1>1, <1>3, <1>6, SpentIsUsedNext DEF ActingInv, At
  <2>4. \A b \in Granted(t) : b \in Used(t) <=> b \in Used(t)'
    BY <1>4, <1>5, <2>1 DEF Used, Granted
  <2>5. Used(t) \subseteq Granted(t) /\ Used(t)' \subseteq Granted(t)'
    BY DEF Used
  <2> QED
    BY <2>1, <2>2, <2>3, <2>4, <2>5
<1> QED
  BY <1>1, <1>6, <1>7, <1>8, StaysActor, StaysApproved, StaysTool, StaysCall DEF ActingInv

LEMMA AgentEndsActs ==
  ASSUME TypeOK, ActingInv, NEW w \in Worker, AgentEnds(w)
  PROVE  ActingInv'
<1> DEFINE a == worker[w].task
<1>1. w \in Busy /\ ~Over /\ status # "none" /\ ~flag /\ worker[w].pc = "agent"
  BY BusyAlone DEF AgentEnds, At, Busy, Working, ActingInv, ActorInv
<1>2. /\ worker' = [worker EXCEPT ![w].pc = "complete"]
      /\ lease' = IF a = Execute THEN lease ELSE [lease EXCEPT ![a] = "completed"]
      /\ UNCHANGED <<dbVars, rustVars, queue, active, flag, revoked, toRun, historyVars, faults>>
  BY DEF AgentEnds, Goto
<1>3. /\ worker'[w] = [worker[w] EXCEPT !.pc = "complete"]
      /\ \A v \in Worker : v # w => worker'[v] = worker[v]
  BY <1>2 DEF TypeOK
<1>4. worker'[w].pc = "complete" /\ worker'[w].task = a
  BY <1>3 DEF TypeOK, WorkerState
<1>5. \A b \in Approval : lease'[b] = lease[b] \/ (b = a /\ lease'[b] # "absent")
  BY <1>2 DEF TypeOK
<1>6. Stays(w)
  BY <1>1, <1>2, <1>3, <1>4, <1>5 DEF Stays, Working, At, dbVars, Over
<1>7. OwnTool(w)' /\ OwnCall(w)'
  BY <1>4 DEF OwnTool, OwnCall, At
<1> QED
  BY <1>1, <1>2, <1>4, <1>6, <1>7, StaysAll DEF At, historyVars, dbVars

\* What spends no approval: no call starts to be used, and no worker is at one.
LEMMA SpentKept ==
  ASSUME SpentInv, UNCHANGED runs,
         \A t \in Tool : Used(t)' = Used(t) /\ IsFiniteSet(Granted(t)'),
         \A t \in Tool \cup {None} : \A a \in Granted(t) :
           a \in Granted(t)' /\ (gate[a].call = "authorized" => gate'[a].call = "authorized"),
         \A v \in Worker : /\ worker'[v].pc \in {"granted", "cleared", "executed"} => worker'[v] = worker[v]
                           /\ ToExecute(v) => worker'[v] = worker[v],
         TypeOK
  PROVE  SpentInv'
<1>1. \A v \in Worker : OwnCall(v)'
  <2> SUFFICES ASSUME NEW v \in Worker,
                      worker'[v].pc \in {"granted", "cleared", "executed"}, worker'[v].call # None
               PROVE  (worker[v].call \in Granted(worker[v].tool) /\ gate[worker[v].call].call = "authorized")'
    BY DEF OwnCall
  <2>1. worker'[v] = worker[v] /\ worker[v].tool \in Tool \cup {None}
    BY DEF TypeOK, WorkerState
  <2>2. worker[v].call \in Granted(worker[v].tool) /\ gate[worker[v].call].call = "authorized"
    BY <2>1 DEF SpentInv, OwnCall
  <2> QED
    BY <2>1, <2>2
<1>2. \A t \in Tool : Spent(t)' = Spent(t)
  <2> SUFFICES ASSUME NEW t \in Tool PROVE Spent(t)' = Spent(t)
    OBVIOUS
  <2>1. \A a : (\A v \in Worker : ToExecute(v)' => worker'[v].call # a)
                 <=> (\A v \in Worker : ToExecute(v) => worker[v].call # a)
    BY DEF At
  <2>2. /\ Spent(t) = {a \in Used(t) : \A v \in Worker : ToExecute(v) => worker[v].call # a}
        /\ Spent(t)' = {a \in Used(t)' : \A v \in Worker : ToExecute(v)' => worker'[v].call # a}
    BY DEF Spent, Used
  <2> QED
    BY <2>1, <2>2
<1> QED
  BY <1>1, <1>2 DEF SpentInv

LEMMA AuthorizeReviewActs ==
  ASSUME TypeOK, ActingInv, NEW w \in Worker, AuthorizeReview(w)
  PROVE  ActingInv'
<1> DEFINE u == worker[w].tool
<1>1. /\ w \in Busy /\ ~Over /\ status # "none" /\ ~flag /\ worker[w].pc = "authorize"
      /\ Busy = {w} /\ Dispatching = {} /\ queue = {} /\ Pending = {} /\ Resuming = {}
  BY BusyAlone DEF AuthorizeReview, At, Busy, Working, ActingInv, ActorInv
<1>2. PICK a \in Approval :
        /\ gate[a].status = "none"
        /\ gate' = [gate EXCEPT ![a] = [status |-> "pending", tool |-> u, call |-> "waiting_approval"]]
        /\ worker' = [worker EXCEPT ![w].pc = "asked", ![w].call = a]
  BY DEF AuthorizeReview
<1>3. /\ status' = "waiting_approval" /\ Reusable(u) = {}
      /\ UNCHANGED <<log, rustVars, brokerVars, toRun, historyVars, faults>>
  BY DEF AuthorizeReview
<1>4. /\ worker'[w] = [worker[w] EXCEPT !.pc = "asked", !.call = a]
      /\ \A v \in Worker : v # w => worker'[v] = worker[v]
  BY <1>2 DEF TypeOK, WorkerState
<1>5. /\ worker'[w].pc = "asked" /\ worker'[w].task = worker[w].task
      /\ worker'[w].value = worker[w].value
  BY <1>4 DEF TypeOK, WorkerState
<1>6. /\ gate'[a].status = "pending" /\ gate'[a].tool = u /\ gate'[a].call = "waiting_approval"
      /\ \A b \in Approval : b # a => gate'[b] = gate[b]
  BY <1>2 DEF TypeOK
<1>7. u = toRun /\ toRun # None /\ ~worker[w].value
  BY <1>1, <1>3 DEF ActingInv, ToolInv, OwnTool, At
<1>8. \A v \in Worker : v # w => worker[v].pc \notin Working
  BY <1>1 DEF Busy
<1>9. /\ Dispatching' = {} /\ queue' = {} /\ Pending' = {a} /\ Resuming' = {} /\ Busy' = {}
  <2>1. Dispatching' = {} /\ queue' = {} /\ Resuming' = {}
    BY <1>1, <1>3 DEF Dispatching, Resuming, rustVars, brokerVars
  <2>2. Pending' = {a}
    BY <1>1, <1>6 DEF Pending
  <2>3. Busy' = {}
    BY <1>4, <1>5, <1>8 DEF Busy, Working
  <2> QED
    BY <2>1, <2>2, <2>3
<1>10. ActorInv'
  BY <1>3, <1>9 DEF ActingInv, ActorInv, OneActs, OneOf, Over, Terminal, rustVars, brokerVars
<1>11. \A b \in Approval : Waiting(b)' <=> b = a
  BY <1>4, <1>5, <1>8, <1>9 DEF Waiting, At, Working
<1>12. ApprovedInv'
  <2>1. lease' = lease /\ lease[a] = "absent" /\ \A v \in Worker : worker[v].task # a
    BY <1>2, <1>3 DEF ActingInv, ApprovedInv, brokerVars
  <2>2. \A v \in Worker : worker'[v].task = worker[v].task /\ (At(v, "begin")' <=> At(v, "begin"))
    BY <1>1, <1>4, <1>5 DEF At
  <2>3. ASSUME NEW b \in Approval
        PROVE  /\ gate'[b].status = "none" \/ Waiting(b)' => lease'[b] = "absent"
               /\ b \notin (Resuming \cup queue)'
               /\ \A v \in Worker : worker'[v].task = b =>
                    gate'[b].status = "approved" /\ (At(v, "begin")' \/ lease'[b] # "absent")
    <3>1. CASE b = a
      BY <1>6, <1>9, <2>1, <2>2, <3>1
    <3>2. CASE b # a
      <4>1. gate'[b] = gate[b] /\ ~Waiting(b)' /\ b \notin (Resuming \cup queue)'
        BY <1>6, <1>9, <1>11, <3>2
      <4> QED
        BY <4>1, <2>1, <2>2 DEF ActingInv, ApprovedInv
    <3> QED
      BY <3>1, <3>2
  <2> QED
    BY <2>3 DEF ApprovedInv
<1>13. ToolInv'
  <2>1. CallReady(a)'
    BY <1>3, <1>6, <1>7 DEF CallReady
  <2>2. OwnTool(w)'
    BY <1>5, <1>7 DEF OwnTool, At
  <2>3. ASSUME NEW v \in Worker, v # w PROVE OwnTool(v)'
    <3>1. worker'[v] = worker[v] /\ worker[v].pc \notin Working
      BY <1>4, <1>8, <2>3
    <3>2. OwnTool(v)
      BY DEF ActingInv, ToolInv
    <3> QED
      BY <3>1, <3>2 DEF OwnTool, At, Working
  <2> QED
    BY <1>11, <2>1, <2>2, <2>3 DEF ToolInv
<1>14. SpentInv'
  <2>1. \A t \in Tool \cup {None} : Granted(t)' = Granted(t) /\ Used(t)' = Used(t)
    BY <1>2, <1>6 DEF Granted, Used
  <2>2. \A t \in Tool \cup {None} : \A b \in Granted(t) :
           b \in Granted(t)' /\ (gate[b].call = "authorized" => gate'[b].call = "authorized")
    BY <1>2, <1>6, <2>1 DEF Granted
  <2>3. \A v \in Worker : /\ worker'[v].pc \in {"granted", "cleared", "executed"} => worker'[v] = worker[v]
                          /\ ToExecute(v) => worker'[v] = worker[v]
    BY <1>1, <1>4, <1>5
  <2> QED
    BY <1>3, <2>1, <2>2, <2>3, SpentKept DEF ActingInv, SpentInv, historyVars
<1> QED
  BY <1>10, <1>12, <1>13, <1>14 DEF ActingInv

\* A worker reports the outcome of the run.
LEMMA OutcomeActs ==
  ASSUME TypeOK, ActingInv, NEW w \in Busy, ~ToExecute(w), ~At(w, "begin"),
         worker'[w].pc \in {"done", "broken"}, worker'[w].task = worker[w].task,
         \A v \in Worker : v # w => worker'[v] = worker[v],
         UNCHANGED <<gate, rustVars, brokerVars, toRun, historyVars>>,
         status' \in Terminal, "run.cancelled" \in log' <=> "run.cancelled" \in log
  PROVE  ActingInv'
<1>1. Busy = {w} /\ Dispatching = {} /\ queue = {} /\ Pending = {} /\ Resuming = {}
  BY BusyAlone DEF ActingInv
<1>2. \A v \in Worker : v # w => worker[v].pc \notin Working
  BY <1>1 DEF Busy
<1>3. /\ Dispatching' = {} /\ queue' = {} /\ Pending' = {} /\ Resuming' = {} /\ Busy' = {}
  BY <1>1, <1>2 DEF Dispatching, Pending, Resuming, Busy, Working, rustVars, brokerVars
<1>4. ActorInv'
  BY <1>3 DEF ActingInv, ActorInv, Over, NobodyActs, NoneOf, rustVars, brokerVars
<1>5. \A b \in Approval : ~Waiting(b)'
  BY <1>2, <1>3 DEF Waiting, At, Working, Busy
<1>6. ApprovedInv'
  <2>1. \A v \in Worker : worker'[v].task = worker[v].task
    BY DEF Busy
  <2>2. ASSUME NEW a \in Approval, NEW v \in Worker, worker[v].task = a
        PROVE  gate[a].status = "approved" /\ (At(v, "begin")' \/ lease[a] # "absent")
    <3>1. CASE v # w
      BY <2>2, <3>1 DEF ActingInv, ApprovedInv, At
    <3>2. CASE v = w
      BY <2>2, <3>2 DEF ActingInv, ApprovedInv
    <3> QED
      BY <3>1, <3>2
  <2> QED
    BY <1>3, <1>5, <2>1, <2>2 DEF ActingInv, ApprovedInv, brokerVars
<1>7. ToolInv'
  <2>1. \A v \in Worker : OwnTool(v)'
    BY <1>2 DEF OwnTool, ActingInv, ToolInv, At, Working, Busy
  <2> QED
    BY <1>5, <2>1 DEF ToolInv
<1>8. SpentInv'
  <2>1. \A t \in Tool \cup {None} : Granted(t)' = Granted(t) /\ Used(t)' = Used(t)
    BY DEF Granted, Used
  <2>2. \A v \in Worker : /\ worker'[v].pc \in {"granted", "cleared", "executed"} => worker'[v] = worker[v]
                          /\ ToExecute(v) => worker'[v] = worker[v]
    BY DEF At, Busy
  <2> QED
    BY <2>1, <2>2, SpentKept DEF ActingInv, SpentInv, historyVars
<1> QED
  BY <1>4, <1>6, <1>7, <1>8 DEF ActingInv

LEMMA OutcomesAct ==
  ASSUME TypeOK, ActingInv, NEW w \in Worker, ReportCompleted(w) \/ AgentFails(w)
  PROVE  ActingInv'
<1>1. /\ w \in Busy /\ ~Over /\ ~ToExecute(w) /\ ~At(w, "begin")
  BY BusyAlone DEF ReportCompleted, AgentFails, At, Busy, Working, ActingInv
<1>2. \E place \in {"done", "broken"} : worker' = [worker EXCEPT ![w].pc = place]
  BY DEF ReportCompleted, AgentFails, Goto
<1>3. worker'[w].pc \in {"done", "broken"} /\ worker'[w].task = worker[w].task
  BY <1>2 DEF TypeOK, WorkerState
<1>4. \A v \in Worker : v # w => worker'[v] = worker[v]
  BY <1>2 DEF TypeOK
<1>5. Report("run.completed") \/ Report("run.failed")
  BY DEF ReportCompleted, AgentFails
<1>6. /\ status' \in Terminal /\ UNCHANGED gate
      /\ "run.cancelled" \in log' <=> "run.cancelled" \in log
  BY <1>5 DEF Report, StatusAfter
<1>7. UNCHANGED <<rustVars, brokerVars, toRun, historyVars>>
  BY DEF ReportCompleted, AgentFails
<1> QED
  BY <1>1, <1>3, <1>4, <1>6, <1>7, OutcomeActs

\* A worker that no longer acts on the run, or that has no lease to report of.
LEMMA QuietActs ==
  ASSUME TypeOK, ActingInv, NEW w \in Worker, w \notin Busy, ~At(w, "idle"),
         worker'[w].pc \in {"idle", "parked", "done"},
         worker'[w].task \in {worker[w].task, None},
         \A v \in Worker : v # w => worker'[v] = worker[v],
         UNCHANGED <<log, gate, rustVars, queue, flag, revoked, toRun, historyVars>>,
         \A a \in Approval : lease'[a] = lease[a] \/ (a = worker[w].task /\ lease'[a] # "absent"),
         status' \in Terminal <=> status \in Terminal, status' # "none"
  PROVE  ActingInv'
<1>1. worker[w].pc \notin Working /\ worker'[w].pc \notin Working
  BY DEF Busy, Working
<1>2. /\ Dispatching' = Dispatching /\ queue' = queue /\ Pending' = Pending
      /\ Resuming' = Resuming
  BY DEF Dispatching, Pending, Resuming, rustVars
<1>3. Busy' = Busy
  BY <1>1 DEF Busy
<1>4. ActorInv'
  <2>1. status # "none"
    BY DEF ActingInv, ActorInv
  <2>2. OneActs' = OneActs /\ NobodyActs' = NobodyActs
    BY <1>2, <1>3 DEF OneActs, NobodyActs
  <2>3. Over' = Over
    BY <2>1 DEF Over
  <2> QED
    BY <2>1, <2>2, <2>3 DEF ActingInv, ActorInv, rustVars
<1>5. \A b \in Approval : Waiting(b)' = Waiting(b)
  <2>1. \A v \in Worker : At(v, "begin") \/ At(v, "begin")' => v # w
    BY <1>1 DEF At, Working
  <2> QED
    BY <1>2, <2>1 DEF Waiting, At
<1>6. ApprovedInv'
  <2> SUFFICES ASSUME NEW b \in Approval
               PROVE  /\ gate[b].status = "none" \/ Waiting(b) => lease'[b] = "absent"
                      /\ \A v \in Worker : worker'[v].task = b =>
                           gate[b].status = "approved" /\ (At(v, "begin")' \/ lease'[b] # "absent")
    BY <1>2, <1>5 DEF ActingInv, ApprovedInv
  <2>1. worker[w].task = b => gate[b].status = "approved" /\ lease[b] # "absent"
    BY <1>1 DEF ActingInv, ApprovedInv, At, Working
  <2>2. gate[b].status = "none" \/ Waiting(b) => lease[b] = "absent" /\ worker[w].task # b
    BY <2>1 DEF ActingInv, ApprovedInv
  <2>3. lease[b] # "absent" => lease'[b] # "absent"
    OBVIOUS
  <2>4. ASSUME NEW v \in Worker, worker'[v].task = b
        PROVE  gate[b].status = "approved" /\ (At(v, "begin")' \/ lease'[b] # "absent")
    <3>1. CASE v = w
      <4>1. worker[w].task = b
        BY <2>4, <3>1 DEF TypeOK, RunAssumption, Task
      <4> QED
        BY <2>1, <2>3, <4>1
    <3>2. CASE v # w
      BY <2>3, <2>4, <3>2 DEF ActingInv, ApprovedInv, At
    <3> QED
      BY <3>1, <3>2
  <2> QED
    BY <2>2, <2>4
<1>7. ToolInv'
  <2>1. \A b \in Approval : CallReady(b)' = CallReady(b)
    BY DEF CallReady
  <2>2. \A t : Reusable(t)' = Reusable(t)
    BY DEF Reusable
  <2>3. \A v \in Worker : OwnTool(v)'
    <3>1. OwnTool(w)'
      BY DEF OwnTool, At
    <3>2. \A v \in Worker : v # w => OwnTool(v)'
      BY <2>2 DEF OwnTool, At, ActingInv, ToolInv, CallReady
    <3> QED
      BY <3>1, <3>2
  <2> QED
    BY <1>5, <2>1, <2>3 DEF ActingInv, ToolInv
<1>8. SpentInv'
  <2>1. \A t \in Tool \cup {None} : Granted(t)' = Granted(t) /\ Used(t)' = Used(t)
    BY DEF Granted, Used
  <2>2. \A v \in Worker : /\ worker'[v].pc \in {"granted", "cleared", "executed"} => worker'[v] = worker[v]
                          /\ ToExecute(v) => worker'[v] = worker[v]
    BY <1>1 DEF Working
  <2> QED
    BY <2>1, <2>2, SpentKept DEF ActingInv, SpentInv, historyVars
<1> QED
  BY <1>4, <1>6, <1>7, <1>8 DEF ActingInv

LEMMA InterruptActs ==
  ASSUME TypeOK, ActingInv, NEW w \in Worker, Interrupt(w) \/ ReportWaiting(w) \/ EndTask(w)
  PROVE  ActingInv'
<1>1. w \notin Busy /\ ~At(w, "idle")
  BY DEF Interrupt, ReportWaiting, EndTask, At, Busy, Working
<1>2. \A v \in Worker : v # w => worker'[v] = worker[v]
  BY DEF Interrupt, ReportWaiting, EndTask, StopCancelled, Goto, TypeOK
<1>3. CASE Interrupt(w)
  <2>1. worker' = [worker EXCEPT ![w].pc = "parked"]
    BY <1>3 DEF Interrupt, Goto, ActingInv, ToolInv, OwnTool, At
  <2>2. worker'[w].pc = "parked" /\ worker'[w].task = worker[w].task
    BY <2>1 DEF TypeOK, WorkerState
  <2>3. UNCHANGED <<dbVars, rustVars, brokerVars, toRun, historyVars, faults>>
    BY <1>3 DEF Interrupt
  <2> QED
    BY <1>1, <1>2, <2>2, <2>3, QuietActs DEF dbVars, brokerVars, ActingInv, ActorInv
<1>4. CASE ReportWaiting(w)
  <2>1. /\ Report("interrupt.requested") /\ worker' = [worker EXCEPT ![w].pc = "done"]
        /\ UNCHANGED <<rustVars, brokerVars, toRun, historyVars, faults>>
    BY <1>4 DEF ReportWaiting, StopCancelled, Goto, ActingInv, ActorInv
  <2>2. worker'[w].pc = "done" /\ worker'[w].task = worker[w].task
    BY <2>1 DEF TypeOK, WorkerState
  <2>3. (status' \in Terminal <=> status \in Terminal) /\ status' # "none" /\ UNCHANGED <<log, gate>>
    <3>1. status # "none"
      BY <1>1 DEF ActingInv, ActorInv
    <3> QED
      BY <2>1, <3>1 DEF Report, StatusAfter, Over, Terminal
  <2> QED
    BY <1>1, <1>2, <2>1, <2>2, <2>3, QuietActs DEF brokerVars
<1>5. CASE EndTask(w)
  <2>1. worker'[w] = Idle
    BY <1>5 DEF EndTask, TypeOK
  <2>2. \A a \in Approval : lease'[a] = lease[a] \/ (a = worker[w].task /\ lease'[a] # "absent")
    BY <1>5 DEF EndTask, TypeOK
  <2>3. UNCHANGED <<dbVars, rustVars, queue, flag, revoked, toRun, historyVars, faults>>
    BY <1>5 DEF EndTask
  <2> QED
    BY <1>1, <1>2, <2>1, <2>2, <2>3, QuietActs DEF dbVars, Idle, ActingInv, ActorInv
<1> QED
  BY <1>3, <1>4, <1>5

LEMMA TakeActs ==
  ASSUME TypeOK, ActingInv, NEW w \in Worker, NEW k \in Task, Take(w, k)
  PROVE  ActingInv'
<1>1. /\ queue = {k} /\ Dispatching = {} /\ Pending = {} /\ Resuming = {} /\ Busy = {} /\ ~Over
  BY OneOfAlone DEF Take, ActingInv, ActorInv, OneActs, NobodyActs, NoneOf
<1>2. /\ At(w, "idle") /\ queue' = queue \ {k}
      /\ worker' = [worker EXCEPT ![w] = [Idle EXCEPT !.task = k, !.pc = "begin"]]
      /\ UNCHANGED <<dbVars, rustVars, flag, revoked, lease, toRun, historyVars, faults>>
  BY DEF Take
<1>3. /\ worker'[w].pc = "begin" /\ worker'[w].task = k /\ ~worker'[w].value
      /\ \A v \in Worker : v # w => worker'[v] = worker[v]
  BY <1>2 DEF TypeOK, Idle
<1>4. \A v \in Worker : worker[v].pc \notin Working
  BY <1>1 DEF Busy
<1>5. Dispatching' = {} /\ queue' = {} /\ Pending' = {} /\ Resuming' = {}
  BY <1>1, <1>2 DEF Dispatching, Pending, Resuming, rustVars, dbVars
<1>6. Busy' = {w}
  BY <1>3, <1>4 DEF Busy, Working
<1>7. ActorInv'
  <2>1. OneActs'
    BY <1>5, <1>6 DEF OneActs, OneOf
  <2> QED
    BY <1>1, <1>2, <2>1 DEF ActingInv, ActorInv, rustVars, dbVars, Over
<1>8. \A b \in Approval : Waiting(b)' <=> b = k
  BY <1>3, <1>4, <1>5 DEF Waiting, At, Working
<1>9. \A b \in Approval : Waiting(b) <=> b = k
  BY <1>1, <1>4 DEF Waiting, At, Working
<1>10. ApprovedInv'
  <2> SUFFICES ASSUME NEW b \in Approval
               PROVE  \A v \in Worker : worker'[v].task = b =>
                        gate[b].status = "approved" /\ (At(v, "begin")' \/ lease[b] # "absent")
    BY <1>2, <1>5, <1>8, <1>9 DEF ActingInv, ApprovedInv, dbVars
  <2>1. ASSUME NEW v \in Worker, v # w, worker'[v].task = b
        PROVE  gate[b].status = "approved" /\ lease[b] # "absent"
    BY <1>3, <1>4, <2>1 DEF ActingInv, ApprovedInv, At, Working
  <2>2. b = k => gate[b].status = "approved"
    BY <1>1 DEF ActingInv, ApprovedInv
  <2> QED
    BY <1>3, <2>1, <2>2 DEF At
<1>11. ToolInv'
  <2>1. \A b \in Approval : CallReady(b)' = CallReady(b)
    BY <1>2 DEF CallReady, dbVars
  <2>2. \A v \in Worker : OwnTool(v)'
    BY <1>3, <1>4 DEF OwnTool, At, ActingInv, ToolInv, Working
  <2> QED
    BY <1>8, <1>9, <2>1, <2>2 DEF ActingInv, ToolInv
<1>12. SpentInv'
  <2>1. \A t \in Tool \cup {None} : Granted(t)' = Granted(t) /\ Used(t)' = Used(t)
    BY <1>2 DEF Granted, Used, dbVars
  <2>2. \A v \in Worker : /\ worker'[v].pc \in {"granted", "cleared", "executed"} => worker'[v] = worker[v]
                          /\ ToExecute(v) => worker'[v] = worker[v]
    BY <1>3, <1>4 DEF Working
  <2> QED
    BY <1>2, <2>1, <2>2, SpentKept DEF ActingInv, SpentInv, historyVars, dbVars
<1> QED
  BY <1>7, <1>10, <1>11, <1>12 DEF ActingInv

LEMMA WorkerActs ==
  ASSUME TypeOK, ActingInv, NEW w \in Worker, WorkerStep(w) \/ \E k \in Task : Take(w, k)
  PROVE  ActingInv'
<1>1. ~StreamCheck(w)
  BY DEF StreamCheck, StopCancelled, ActingInv, ActorInv
<1> QED
  BY <1>1, BeginExecuteActs, AcquireLeaseActs, BeginResumeActs, CallToolActs,
     AuthorizeReuseActs, AuthorizeOutrightActs, AuthorizeReviewActs, InterruptActs,
     LastCheckActs, ExecuteToolActs, ReportToolActs, AgentEndsActs, OutcomesAct, TakeActs
  DEF WorkerStep

\* A step of the control plane by which no approval starts to wait.
LEMMA WaitsKept ==
  ASSUME TypeOK, ActingInv, UNCHANGED <<gate, lease, toRun, worker, historyVars>>,
         \A a \in Approval : Waiting(a)' => Waiting(a),
         \A a \in Approval : a \in (Resuming \cup queue)' => a \in Resuming \cup queue
  PROVE  ApprovedInv' /\ ToolInv' /\ SpentInv'
<1>1. ApprovedInv'
  BY DEF ActingInv, ApprovedInv, At
<1>2. ToolInv'
  BY DEF ActingInv, ToolInv, CallReady, OwnTool, Reusable, At
<1>3. SpentInv'
  <2>1. \A t \in Tool \cup {None} : Granted(t)' = Granted(t) /\ Used(t)' = Used(t)
    BY DEF Granted, Used
  <2> QED
    BY <2>1, SpentKept DEF ActingInv, SpentInv, historyVars
<1> QED
  BY <1>1, <1>2, <1>3

\* A step of the control plane that leaves an ended run with no approval open.
LEMMA ClosedActs ==
  ASSUME TypeOK, ActingInv, Busy = {}, Dispatching = {}, queue = {}, Resuming = {}, Pending' = {},
         UNCHANGED <<log, dispatchPc, cancelPc, decidePc, brokerVars, toRun, worker, historyVars>>,
         status' \in Terminal,
         \A a \in Approval :
           /\ gate'[a].tool = gate[a].tool
           /\ gate'[a].status = "approved" <=> gate[a].status = "approved"
           /\ gate'[a].status = "none" => gate[a].status = "none"
           /\ \A c \in {"authorized", "finished"} : gate'[a].call = c <=> gate[a].call = c
  PROVE  ActingInv'
<1>1. /\ Dispatching' = {} /\ queue' = {} /\ Resuming' = {} /\ Busy' = {}
  BY DEF Dispatching, Resuming, Busy, brokerVars
<1>2. \A v \in Worker : worker[v].pc \notin Working
  BY DEF Busy
<1>3. ActorInv'
  BY <1>1 DEF ActingInv, ActorInv, Over, NobodyActs, NoneOf, brokerVars
<1>4. \A b \in Approval : ~Waiting(b)'
  BY <1>1, <1>2 DEF Waiting, At, Working
<1>5. ApprovedInv'
  BY <1>1, <1>4 DEF ActingInv, ApprovedInv, At, brokerVars
<1>6. ToolInv'
  BY <1>2, <1>4 DEF ToolInv, ActingInv, OwnTool, At, Working
<1>7. SpentInv'
  <2>1. \A t \in Tool \cup {None} : Granted(t)' = Granted(t) /\ Used(t)' = Used(t)
    BY DEF Granted, Used
  <2>2. \A t \in Tool \cup {None} : \A a \in Granted(t) :
           a \in Granted(t)' /\ (gate[a].call = "authorized" => gate'[a].call = "authorized")
    BY <2>1 DEF Granted
  <2>3. \A t \in Tool : IsFiniteSet(Granted(t)')
    BY <2>1 DEF ActingInv, SpentInv
  <2>4. SpentInv /\ UNCHANGED <<runs, worker>>
    BY DEF ActingInv, historyVars
  <2> QED
    BY <2>1, <2>2, <2>3, <2>4, SpentKept
<1> QED
  BY <1>3, <1>5, <1>6, <1>7 DEF ActingInv

LEMMA CreateActs ==
  ASSUME TypeOK, ActingInv, Create
  PROVE  ActingInv'
<1>1. Dispatching = {} /\ queue = {} /\ Pending = {} /\ Resuming = {} /\ Busy = {}
  BY DEF Create, ActingInv, ActorInv, Over, NobodyActs, NoneOf
<1>2. Dispatching' = {Execute} /\ queue' = {} /\ Pending' = {} /\ Resuming' = {} /\ Busy' = {}
  BY <1>1 DEF Create, Dispatching, Pending, Resuming, Busy, brokerVars
<1>3. ActorInv'
  BY <1>2 DEF Create, ActingInv, ActorInv, OneActs, OneOf, Over, Terminal, brokerVars
<1>4. \A b \in Approval : Waiting(b)' => Waiting(b)
  BY <1>1, <1>2 DEF Create, Waiting, At
<1> QED
  BY <1>1, <1>2, <1>3, <1>4, WaitsKept DEF Create, ActingInv, brokerVars

LEMMA DispatchOkActs ==
  ASSUME TypeOK, ActingInv, DispatchOk
  PROVE  ActingInv'
<1>1. Dispatching = {Execute}
  BY DEF DispatchOk, Dispatching
<1>2. queue = {} /\ Pending = {} /\ Resuming = {} /\ Busy = {} /\ ~Over
  BY <1>1, OneOfAlone DEF ActingInv, ActorInv, OneActs, NobodyActs, NoneOf
<1>3. Dispatching' = {} /\ queue' = {Execute} /\ Pending' = {} /\ Resuming' = {} /\ Busy' = {}
  BY <1>2 DEF DispatchOk, Dispatching, Pending, Resuming, Busy, dbVars
<1>4. ActorInv'
  BY <1>2, <1>3 DEF DispatchOk, ActingInv, ActorInv, OneActs, OneOf, Over, dbVars
<1>5. Execute \notin Approval
  BY RunAssumption
<1>6. \A b \in Approval : Waiting(b)' => Waiting(b)
  BY <1>3, <1>5 DEF DispatchOk, Waiting, At
<1> QED
  BY <1>3, <1>4, <1>5, <1>6, WaitsKept DEF DispatchOk, ActingInv, dbVars

LEMMA CancelReadsActs ==
  ASSUME TypeOK, ActingInv, CancelReads \/ CancelRun
  PROVE  ActingInv'
<1>1. /\ UNCHANGED <<gate, dispatchPc, decidePc, brokerVars, toRun, worker, historyVars>>
      /\ \/ UNCHANGED <<status, log>> /\ cancelPc \in {"idle", "read"} /\ cancelPc' \in {"idle", "read"}
         \/ /\ status' = "cancelled" /\ log' = log \cup {"run.cancelled"}
            /\ cancelPc' = "calling"
  BY DEF CancelReads, CancelRun, dbVars
<1>2. /\ Dispatching' = Dispatching /\ queue' = queue /\ Pending' = Pending
      /\ Resuming' = Resuming /\ Busy' = Busy
  BY <1>1 DEF Dispatching, Pending, Resuming, Busy, brokerVars
<1>3. ActorInv'
  <2>1. OneActs' = OneActs /\ NobodyActs' = NobodyActs
    BY <1>2 DEF OneActs, NobodyActs
  <2> QED
    BY <1>1, <2>1 DEF ActingInv, ActorInv, Over, At, brokerVars
<1>4. \A b \in Approval : Waiting(b)' => Waiting(b)
  BY <1>1, <1>2 DEF Waiting, At
<1> QED
  BY <1>1, <1>2, <1>3, <1>4, WaitsKept DEF ActingInv, brokerVars

\* What the cancel of a conversation makes of the rows.
LEMMA ClosedRows ==
  ASSUME TypeOK, CancelConversation
  PROVE  \A a \in Approval :
           /\ gate'[a].tool = gate[a].tool
           /\ gate'[a].status = IF gate[a].status = "pending" THEN "cancelled" ELSE gate[a].status
           /\ gate'[a].call = IF gate[a].call = "waiting_approval" THEN "cancelled" ELSE gate[a].call
<1> SUFFICES ASSUME NEW a \in Approval
             PROVE  /\ gate'[a].tool = gate[a].tool
                    /\ gate'[a].status =
                         IF gate[a].status = "pending" THEN "cancelled" ELSE gate[a].status
                    /\ gate'[a].call =
                         IF gate[a].call = "waiting_approval" THEN "cancelled" ELSE gate[a].call
  OBVIOUS
<1>1. gate'[a] = [gate[a] EXCEPT
               !.status = IF @ = "pending" THEN "cancelled" ELSE @,
               !.call = IF @ = "waiting_approval" THEN "cancelled" ELSE @]
  BY DEF CancelConversation
<1>2. gate[a] \in Gate
  BY DEF TypeOK
<1> QED
  BY <1>1, <1>2 DEF Gate

\* The cancel of a conversation whose run has ended: nobody acts on it, and
\* nothing is left open.
LEMMA CancelEndedActs ==
  ASSUME TypeOK, ActingInv, CancelConversation, status \in Terminal
  PROVE  ActingInv'
<1>1. /\ status' = status /\ cancelPc = "idle"
      /\ UNCHANGED <<log, dispatchPc, cancelPc, decidePc, brokerVars, toRun, worker, historyVars>>
  BY DEF CancelConversation, historyVars
<1>2. Dispatching = {} /\ queue = {} /\ Pending = {} /\ Resuming = {} /\ Busy = {}
  BY <1>1 DEF ActingInv, ActorInv, Over, NobodyActs, NoneOf
<1>3. Pending' = {}
  BY ClosedRows DEF Pending
<1>4. \A a \in Approval :
         /\ gate'[a].tool = gate[a].tool
         /\ gate'[a].status = "approved" <=> gate[a].status = "approved"
         /\ gate'[a].status = "none" => gate[a].status = "none"
         /\ \A c \in {"authorized", "finished"} : gate'[a].call = c <=> gate[a].call = c
  BY ClosedRows
<1> QED
  BY <1>1, <1>2, <1>3, <1>4, ClosedActs

\* The cancel of a conversation whose run goes on, when it takes no approved call
\* back: then no approval waits for its resume either, only those acting
\* go on until they see the flag.
LEMMA CancelGoingActs ==
  ASSUME TypeOK, ActingInv, CancelConversation, status \notin Terminal, takenBack' = {}
  PROVE  ActingInv'
<1>1. /\ cancelPc' = "calling" /\ status' = "cancelled" /\ log' = log \cup {"run.cancelled"}
      /\ UNCHANGED <<dispatchPc, decidePc, brokerVars, toRun, worker, runs, bodies>>
  BY DEF CancelConversation
<1>2. \A a \in Approval : gate[a].status = "approved" => gate[a].call # "waiting_approval"
  BY DEF CancelConversation
<1>3. \A a \in Approval : gate'[a].status = gate[a].status \/ a \in Pending
  BY ClosedRows DEF Pending
<1>4. Resuming = {} /\ \A a \in Approval : a \notin queue
  BY <1>2 DEF ActingInv, ApprovedInv, ToolInv, Waiting, CallReady, Resuming
<1>5. Pending' = {}
  BY ClosedRows DEF Pending
<1>6. /\ Dispatching' = Dispatching /\ queue' = queue /\ Resuming' = Resuming /\ Busy' = Busy
  BY <1>1 DEF Dispatching, Resuming, Busy, brokerVars
<1>7. ActorInv'
  <2>1. NobodyActs => NobodyActs'
    BY <1>5, <1>6 DEF NobodyActs, NoneOf
  <2>2. OneActs => OneActs' \/ NobodyActs'
    BY <1>5, <1>6, OneOfAlone DEF OneActs, OneOf, NobodyActs, NoneOf
  <2>3. "run.cancelled" \in log' /\ ~Over' /\ status' # "none"
    BY <1>1 DEF Over
  <2> QED
    BY <1>1, <2>1, <2>2, <2>3 DEF ActingInv, ActorInv, Over, brokerVars
<1>8. \A v \in Worker : worker[v].pc \in {"begin", "leased"} => worker[v].task \notin Approval
  <2> SUFFICES ASSUME NEW v \in Worker, worker[v].pc \in {"begin", "leased"}, worker[v].task \in Approval
               PROVE  FALSE
    OBVIOUS
  <2>1. gate[worker[v].task].status = "approved"
    BY DEF ActingInv, ApprovedInv
  <2>2. CallReady(worker[v].task)
    BY DEF ActingInv, ToolInv, OwnTool, Waiting, At
  <2> QED
    BY <1>2, <2>1, <2>2 DEF CallReady
<1>9. \A a \in Approval : ~Waiting(a)'
  BY <1>1, <1>4, <1>5, <1>6, <1>8 DEF Waiting, At
<1>10. ApprovedInv'
  <2> SUFFICES ASSUME NEW a \in Approval
               PROVE  /\ gate'[a].status = "none" => lease[a] = "absent"
                      /\ \A v \in Worker : worker[v].task = a =>
                           gate'[a].status = "approved" /\ (At(v, "begin") \/ lease[a] # "absent")
    BY <1>1, <1>4, <1>6, <1>9 DEF ApprovedInv, At, brokerVars
  <2>1. gate'[a].status = "none" => gate[a].status = "none"
    BY ClosedRows
  <2>2. gate[a].status = "approved" => gate'[a].status = "approved"
    BY ClosedRows
  <2> QED
    BY <2>1, <2>2 DEF ActingInv, ApprovedInv
<1>11. ToolInv'
  <2>1. Reusable(toRun) = {}
    BY <1>2 DEF Reusable
  <2>2. ASSUME NEW v \in Worker PROVE OwnTool(v)'
    <3>1. OwnTool(v) /\ ~At(v, "leased")
      BY <1>8 DEF ActingInv, ToolInv, OwnTool, At
    <3> QED
      BY <1>1, <2>1, <3>1 DEF OwnTool, At
  <2> QED
    BY <1>9, <2>2 DEF ToolInv
<1>12. SpentInv'
  <2>1. \A t \in Tool \cup {None} : Granted(t)' = Granted(t)
    BY ClosedRows DEF Granted
  <2>2. \A t \in Tool : Used(t)' = Used(t)
    BY <2>1, ClosedRows DEF Used, Granted
  <2>3. \A t \in Tool \cup {None} : \A a \in Granted(t) :
           a \in Granted(t)' /\ (gate[a].call = "authorized" => gate'[a].call = "authorized")
    BY <2>1, ClosedRows DEF Granted
  <2>4. \A t \in Tool : IsFiniteSet(Granted(t)')
    BY <2>1 DEF ActingInv, SpentInv
  <2>5. SpentInv /\ UNCHANGED <<runs, worker>>
    BY <1>1 DEF ActingInv
  <2> QED
    BY <2>2, <2>3, <2>4, <2>5, SpentKept
<1> QED
  BY <1>7, <1>10, <1>11, <1>12 DEF ActingInv

LEMMA RejectActs ==
  ASSUME TypeOK, ActingInv, NEW a \in Approval, Decide(a, "rejected")
  PROVE  ActingInv'
<1>1. /\ a \in Pending /\ status' = "failed"
      /\ gate' = [gate EXCEPT ![a].status = "rejected"]
      /\ UNCHANGED <<log, dispatchPc, cancelPc, decidePc, brokerVars, toRun, worker, historyVars>>
  BY DEF Decide, Pending
<1>2. Pending = {a} /\ Dispatching = {} /\ queue = {} /\ Resuming = {} /\ Busy = {}
  BY <1>1, OneOfAlone DEF ActingInv, ActorInv, OneActs, NobodyActs, NoneOf
<1>3. gate'[a] = [gate[a] EXCEPT !.status = "rejected"] /\ \A b \in Approval : b # a => gate'[b] = gate[b]
  BY <1>1 DEF TypeOK
<1>4. gate'[a].status = "rejected" /\ gate'[a].tool = gate[a].tool /\ gate'[a].call = gate[a].call
  BY <1>3 DEF TypeOK, Gate
<1>5. Pending' = {}
  BY <1>2, <1>3, <1>4 DEF Pending
<1>6. gate[a].status = "pending"
  BY <1>1 DEF Pending
<1>8. \A b \in Approval :
           /\ gate'[b].tool = gate[b].tool
           /\ gate'[b].status = "approved" <=> gate[b].status = "approved"
           /\ gate'[b].status = "none" => gate[b].status = "none"
           /\ \A c \in {"authorized", "finished"} : gate'[b].call = c <=> gate[b].call = c
  BY <1>3, <1>4, <1>6
<1> QED
  BY <1>1, <1>2, <1>5, <1>8, ClosedActs

LEMMA ApproveActs ==
  ASSUME TypeOK, ActingInv, NEW a \in Approval, Decide(a, "approved")
  PROVE  ActingInv'
<1>1. /\ a \in Pending
      /\ gate' = [gate EXCEPT ![a].status = "approved"]
      /\ decidePc' = [decidePc EXCEPT ![a] = "resume"]
      /\ UNCHANGED <<status, log, dispatchPc, cancelPc, answered, brokerVars, toRun, worker,
                     historyVars, faults>>
  BY DEF Decide, Pending
<1>2. /\ Pending = {a} /\ Dispatching = {} /\ queue = {} /\ Resuming = {} /\ Busy = {}
      /\ ~Over
  BY <1>1, OneOfAlone DEF ActingInv, ActorInv, OneActs, NobodyActs, NoneOf
<1>3. gate'[a] = [gate[a] EXCEPT !.status = "approved"] /\ \A b \in Approval : b # a => gate'[b] = gate[b]
  BY <1>1 DEF TypeOK
<1>4. gate'[a].status = "approved" /\ gate'[a].tool = gate[a].tool /\ gate'[a].call = gate[a].call
  BY <1>3 DEF TypeOK, Gate
<1>5. gate[a].status = "pending" /\ CallReady(a)
  BY <1>1 DEF Pending, Waiting, ActingInv, ToolInv
<1>6. \A b \in Approval : gate'[b].tool = gate[b].tool /\ gate'[b].call = gate[b].call
  BY <1>3, <1>4
<1>7. decidePc'[a] = "resume" /\ \A b \in Approval : b # a => decidePc'[b] = decidePc[b]
  BY <1>1 DEF TypeOK
<1>8. Dispatching' = {} /\ queue' = {} /\ Pending' = {} /\ Resuming' = {a} /\ Busy' = {}
  <2>1. Dispatching' = {} /\ queue' = {} /\ Busy' = {}
    BY <1>1, <1>2 DEF Dispatching, Busy, brokerVars
  <2>2. Pending' = {}
    BY <1>2, <1>3, <1>4 DEF Pending
  <2>3. Resuming' = {a}
    BY <1>2, <1>7 DEF Resuming
  <2> QED
    BY <2>1, <2>2, <2>3
<1>9. ActorInv'
  BY <1>1, <1>2, <1>7, <1>8 DEF ActingInv, ActorInv, OneActs, OneOf, Over, brokerVars
<1>10. \A b \in Approval : Waiting(b)' <=> Waiting(b)
  BY <1>1, <1>2, <1>8 DEF Waiting, At
<1>11. ApprovedInv'
  BY <1>1, <1>3, <1>4, <1>5, <1>8, <1>10 DEF ActingInv, ApprovedInv, At, brokerVars
<1>12. \A v \in Worker : worker[v].pc \notin Working
  BY <1>2 DEF Busy
<1>13. ToolInv'
  <2>1. \A b \in Approval : CallReady(b)' <=> CallReady(b)
    BY <1>1, <1>6 DEF CallReady
  <2>2. \A v \in Worker : OwnTool(v)'
    BY <1>1, <1>12 DEF OwnTool, At, ActingInv, ToolInv, Working
  <2> QED
    BY <1>10, <2>1, <2>2 DEF ActingInv, ToolInv
<1>14. SpentInv'
  <2>1. \A t \in Tool \cup {None} : Granted(t) \subseteq Granted(t)' /\ Granted(t)' \subseteq Granted(t) \cup {a}
    BY <1>3, <1>4, <1>6 DEF Granted
  <2>2. \A t \in Tool : IsFiniteSet(Granted(t)')
    <3> SUFFICES ASSUME NEW t \in Tool PROVE IsFiniteSet(Granted(t)')
      OBVIOUS
    <3>1. IsFiniteSet(Granted(t) \cup {a})
      BY FS_AddElement DEF ActingInv, SpentInv
    <3> QED
      BY <2>1, <3>1, FS_Subset
  <2>3. \A t \in Tool : Used(t)' = Used(t)
    <3> SUFFICES ASSUME NEW t \in Tool PROVE Used(t)' = Used(t)
      OBVIOUS
    <3>1. a \notin Used(t) /\ a \notin Used(t)'
      BY <1>4, <1>5 DEF Used, CallReady
    <3>2. \A b \in Approval : b # a => (b \in Used(t)' <=> b \in Used(t))
      BY <1>3 DEF Used, Granted
    <3>3. Used(t) \subseteq Approval /\ Used(t)' \subseteq Approval
      BY DEF Used, Granted
    <3> QED
      BY <3>1, <3>2, <3>3
  <2>4. \A t \in Tool \cup {None} : \A b \in Granted(t) :
           b \in Granted(t)' /\ (gate[b].call = "authorized" => gate'[b].call = "authorized")
    BY <1>6, <2>1 DEF Granted
  <2>5. SpentInv /\ UNCHANGED <<runs, worker>>
    BY <1>1 DEF ActingInv, historyVars
  <2> QED
    BY <2>2, <2>3, <2>4, <2>5, SpentKept
<1> QED
  BY <1>9, <1>11, <1>13, <1>14 DEF ActingInv

LEMMA ResumeOkActs ==
  ASSUME TypeOK, ActingInv, NEW a \in Approval, ResumeOk(a)
  PROVE  ActingInv'
<1>1. /\ a \in Resuming /\ queue' = queue \cup {a}
      /\ decidePc' = [decidePc EXCEPT ![a] = "idle"]
      /\ UNCHANGED <<dbVars, dispatchPc, cancelPc, flag, revoked, lease, toRun, worker, historyVars>>
  BY DEF ResumeOk, Resuming
<1>2. /\ Resuming = {a} /\ Dispatching = {} /\ queue = {} /\ Pending = {} /\ Busy = {}
      /\ ~Over
  BY <1>1, OneOfAlone DEF ActingInv, ActorInv, OneActs, NobodyActs, NoneOf
<1>3. decidePc'[a] = "idle" /\ \A b \in Approval : b # a => decidePc'[b] = decidePc[b]
  BY <1>1 DEF TypeOK
<1>4. Dispatching' = {} /\ queue' = {a} /\ Pending' = {} /\ Resuming' = {} /\ Busy' = {}
  <2>1. Dispatching' = {} /\ queue' = {a} /\ Busy' = {} /\ Pending' = {}
    BY <1>1, <1>2 DEF Dispatching, Busy, Pending, dbVars
  <2>2. Resuming' = {}
    BY <1>2, <1>3 DEF Resuming
  <2> QED
    BY <2>1, <2>2
<1>5. ActorInv'
  BY <1>1, <1>2, <1>3, <1>4 DEF ActingInv, ActorInv, OneActs, OneOf, Over, dbVars
<1>6. \A b \in Approval : Waiting(b)' => Waiting(b)
  BY <1>1, <1>2, <1>4 DEF Waiting, At
<1> QED
  BY <1>1, <1>2, <1>4, <1>5, <1>6, WaitsKept DEF ActingInv, dbVars

LEMMA RustActs ==
  ASSUME TypeOK, ActingInv, RustStep, ~flag', takenBack' = {}
  PROVE  ActingInv'
<1>1. ~MarkDispatchFailed /\ ~Propagate /\ ~MarkCancelled /\ \A a \in Approval : ~MarkResumeFailed(a)
  BY DEF MarkDispatchFailed, Propagate, MarkCancelled, MarkResumeFailed, ActingInv, ActorInv
<1> QED
  BY <1>1, CreateActs, DispatchOkActs, CancelReadsActs, CancelEndedActs, CancelGoingActs, RejectActs,
     ApproveActs, ResumeOkActs DEF RustStep

-------------------------------------------------------------------------------
(* From the first state on.                                                  *)

LEMMA UndisturbedInit == Init => UndisturbedInv
<1> SUFFICES ASSUME Init PROVE ActingInv
  BY DEF UndisturbedInv
<1>1. \A v \in Worker : worker[v] = Idle
  BY DEF Init
<1>2. \A v \in Worker : /\ worker[v].pc = "idle" /\ worker[v].task = None
                         /\ worker[v].value = FALSE
  BY <1>1 DEF Idle
<1>3. \A a \in Approval : /\ gate[a].status = "none" /\ gate[a].call = "none"
                           /\ decidePc[a] = "idle" /\ lease[a] = "absent" /\ a # None
  BY RunAssumption DEF Init
<1>4. NobodyActs
  BY <1>2, <1>3 DEF Init, NobodyActs, NoneOf, Dispatching, Pending, Resuming, Busy, Working
<1>5. ActorInv
  BY <1>2, <1>3, <1>4 DEF Init, ActorInv, Over, At
<1>6. \A a \in Approval : ~Waiting(a)
  BY <1>2, <1>3 DEF Init, Waiting, Pending, Resuming, At
<1>7. ApprovedInv
  BY <1>2, <1>3, <1>6 DEF ApprovedInv, Init, Resuming
<1>8. ToolInv
  BY <1>2, <1>6 DEF ToolInv, OwnTool, At
<1>9. SpentInv
  <2>1. \A t \in Tool : Granted(t) = {} /\ Spent(t) = {} /\ runs[t] = 0
    BY <1>3 DEF Granted, Spent, Init
  <2> QED
    BY <1>2, <2>1, FS_EmptySet DEF SpentInv, OwnCall
<1> QED
  BY <1>5, <1>7, <1>8, <1>9 DEF ActingInv

\* What disturbs a run stays with it.
LEMMA RustMarks ==
  ASSUME RustStep
  PROVE  faults' = faults /\ (flag => flag') /\ takenBack \subseteq takenBack'
<1>1. faults' = faults
  BY DEF RustStep, Create, DispatchOk, MarkDispatchFailed, CancelReads, CancelRun,
     CancelConversation, MarkCancelled, Propagate, Decide, ResumeOk, MarkResumeFailed
<1>2. flag => flag'
  BY DEF RustStep, Create, DispatchOk, MarkDispatchFailed, CancelReads, CancelRun,
     CancelConversation, MarkCancelled, Propagate, Decide, ResumeOk, MarkResumeFailed, brokerVars
<1>3. takenBack \subseteq takenBack'
  BY DEF RustStep, Create, DispatchOk, MarkDispatchFailed, CancelReads, CancelRun,
     CancelConversation, MarkCancelled, Propagate, Decide, ResumeOk, MarkResumeFailed, historyVars
<1> QED
  BY <1>1, <1>2, <1>3

LEMMA WorkerMarks ==
  ASSUME NEW w \in Worker, WorkerStep(w) \/ \E k \in Task : Take(w, k)
  PROVE  UNCHANGED <<faults, flag, revoked, cancelPc, answered, takenBack>>
BY DEF WorkerStep, BeginExecute, AcquireLease, BeginResume, StreamCheck, CallTool, AuthorizeReuse,
   AuthorizeOutright, AuthorizeReview, Interrupt, ReportWaiting, LastCheck, ExecuteTool, ReportTool,
   AgentEnds, ReportCompleted, AgentFails, EndTask, Take, StopCancelled, rustVars, brokerVars, historyVars

LEMMA NextMarks ==
  ASSUME TypeOK, [Next]_vars
  PROVE  faults <= faults' /\ (flag => flag') /\ takenBack \subseteq takenBack'
<1>1. CASE UNCHANGED vars
  BY <1>1 DEF vars, TypeOK
<1>2. CASE FaultStep
  BY <1>2 DEF FaultStep, DispatchFails, DispatchAbandoned, MarkFails, PropagateFails, ResumeFails, CrashRust,
     WorkerLost, DeliveredAgain, ReportLost, Fault, TypeOK, brokerVars, historyVars
<1>3. ASSUME NEW w \in Worker, Terminate(w) PROVE UNCHANGED <<faults, flag, takenBack>>
  BY <1>3 DEF Terminate, historyVars
<1> QED
  BY <1>1, <1>2, <1>3, RustMarks, WorkerMarks DEF Next, TypeOK

LEMMA UndisturbedNext == TypeOK /\ UndisturbedInv /\ [Next]_vars => UndisturbedInv'
<1> SUFFICES ASSUME TypeOK, UndisturbedInv, [Next]_vars, Undisturbed'
             PROVE  ActingInv'
  BY DEF UndisturbedInv
<1>1. CASE UNCHANGED vars
  <2>1. Undisturbed /\ UNCHANGED <<dbVars, rustVars, brokerVars, toRun, worker, historyVars, faults>>
    BY <1>1 DEF vars, Undisturbed, dbVars, rustVars, brokerVars, historyVars
  <2>2. ActingInv
    BY <2>1 DEF UndisturbedInv
  <2>3. /\ Dispatching' = Dispatching /\ queue' = queue /\ Pending' = Pending
        /\ Resuming' = Resuming /\ Busy' = Busy
    BY <2>1 DEF Dispatching, Pending, Resuming, Busy, dbVars, brokerVars, rustVars
  <2>4. ActorInv'
    <3>1. OneActs' = OneActs /\ NobodyActs' = NobodyActs
      BY <2>3 DEF OneActs, NobodyActs
    <3> QED
      BY <2>1, <2>2, <3>1 DEF ActingInv, ActorInv, Over, At, dbVars, brokerVars, rustVars
  <2>5. \A b \in Approval : Waiting(b)' => Waiting(b)
    BY <2>1, <2>3 DEF Waiting, At
  <2> QED
    BY <2>1, <2>2, <2>3, <2>4, <2>5, WaitsKept DEF ActingInv, dbVars, brokerVars
<1>2. CASE FaultStep
  <2>1. faults' > 0
    BY <1>2 DEF FaultStep, DispatchFails, DispatchAbandoned, MarkFails, PropagateFails, ResumeFails, CrashRust,
       WorkerLost, DeliveredAgain, ReportLost, Fault, TypeOK
  <2> QED
    BY <2>1 DEF Undisturbed
<1>3. CASE RustStep \/ \E w \in Worker : WorkerStep(w) \/ \E k \in Task : Take(w, k)
  <2>1. /\ faults' = faults /\ (flag => flag') /\ takenBack \subseteq takenBack'
    BY <1>3, RustMarks, WorkerMarks
  <2>2. ActingInv
    BY <2>1 DEF Undisturbed, UndisturbedInv
  <2> QED
    BY <1>3, <2>2, RustActs, WorkerActs DEF Undisturbed
<1>4. ASSUME NEW w \in Worker, Terminate(w) PROVE FALSE
  <2>1. Undisturbed /\ revoked # {}
    BY <1>4 DEF Terminate, Undisturbed, historyVars
  <2> QED
    BY <2>1 DEF UndisturbedInv, ActingInv, ActorInv
<1> QED
  BY <1>1, <1>2, <1>3, <1>4 DEF Next

\* Without faults, and until the flag of a cancel is set, the next step of the
\* run is always with one task, worker or open approval, or the run has its
\* outcome and there is none.
THEOREM RunHandedOn == Spec => []UndisturbedInv
<1>1. TypeOK /\ UndisturbedInv /\ [Next]_vars => TypeOK' /\ UndisturbedInv'
  BY TypeNext, UndisturbedNext
<1> QED
  BY <1>1, TypeInit, UndisturbedInit, PTL DEF Spec

\* A cancel is an event of the run before it is anything else; without faults
\* the flag comes before the order to terminate and before the answer.
FlagInv ==
  /\ flag \/ takenBack # {} \/ cancelPc \in {"calling", "marked"} => "run.cancelled" \in log
  /\ faults = 0 /\ (answered \/ revoked # {} \/ cancelPc = "marked") => flag

LEMMA FlagNext == TypeOK /\ FlagInv /\ [Next]_vars => FlagInv'
<1> SUFFICES ASSUME TypeOK, FlagInv, [Next]_vars PROVE FlagInv'
  OBVIOUS
<1>1. log \subseteq log'
  BY NextWrites, LogGrows
<1> USE DEF rustVars, brokerVars, historyVars, dbVars
<1>2. CASE UNCHANGED vars
  BY <1>2 DEF vars, FlagInv
<1>3. CASE FaultStep
  <2>1. faults' # 0 /\ UNCHANGED <<flag, takenBack>>
    BY <1>3 DEF FaultStep, DispatchFails, DispatchAbandoned, MarkFails, PropagateFails, ResumeFails, CrashRust,
       WorkerLost, DeliveredAgain, ReportLost, Fault, TypeOK
  <2>2. cancelPc' \in {"calling", "marked"} => cancelPc \in {"calling", "marked"}
    BY <1>3 DEF FaultStep, DispatchFails, DispatchAbandoned, MarkFails, PropagateFails, ResumeFails, CrashRust,
       WorkerLost, DeliveredAgain, ReportLost, TypeOK
  <2> QED
    BY <1>1, <2>1, <2>2 DEF FlagInv
<1>4. CASE RustStep
  <2>1. ASSUME ~CancelRun, ~CancelConversation, ~MarkCancelled, ~Propagate, ~CancelReads
        PROVE  UNCHANGED <<faults, flag, revoked, cancelPc, answered, takenBack>>
    BY <1>4, <2>1 DEF RustStep, Create, DispatchOk, MarkDispatchFailed, Decide, ResumeOk, MarkResumeFailed
  <2>2. CASE CancelReads \/ CancelRun
    BY <1>1, <2>2 DEF FlagInv, CancelReads, CancelRun
  <2>3. CASE CancelConversation
    BY <1>1, <2>3 DEF FlagInv, CancelConversation
  <2>4. CASE MarkCancelled \/ Propagate
    BY <1>1, <2>4 DEF FlagInv, MarkCancelled, Propagate
  <2> QED
    BY <1>1, <2>1, <2>2, <2>3, <2>4 DEF FlagInv
<1>5. ASSUME NEW w \in Worker, WorkerStep(w) \/ Terminate(w) \/ \E k \in Task : Take(w, k)
      PROVE  UNCHANGED <<faults, flag, revoked, cancelPc, answered, takenBack>>
  BY <1>5, WorkerMarks DEF Terminate
<1> QED
  BY <1>1, <1>2, <1>3, <1>4, <1>5 DEF Next, FlagInv

LEMMA FlagAlways == Spec => []FlagInv
<1>1. Init => FlagInv
  BY DEF Init, FlagInv
<1> QED
  BY <1>1, FlagNext, RunTypeCorrect, PTL DEF Spec

\* Approving once runs a tool at most once: each execution spends an approval of
\* its tool, through resumes, reuse and the repetition of the interrupted node.
THEOREM RunOncePerApproval == Spec => [](faults = 0 => OneRunPerApproval)
<1>1. TypeOK /\ UndisturbedInv /\ FlagInv => (faults = 0 => OneRunPerApproval)
  <2> SUFFICES ASSUME ActingInv, NEW t \in Tool
               PROVE  runs[t] <= Cardinality(Granted(t))
    BY DEF UndisturbedInv, Undisturbed, FlagInv, OneRunPerApproval
  <2>1. Spent(t) \subseteq Granted(t)
    BY DEF Spent
  <2> QED
    BY <2>1, FS_Subset, FS_CardinalityType DEF ActingInv, SpentInv
<1> QED
  BY <1>1, RunTypeCorrect, RunHandedOn, FlagAlways, PTL

\* A run that has not ended is never left with nobody to end it.
THEOREM RunNeverStranded == Spec => [](faults = 0 => NeverStranded)
<1>1. UndisturbedInv /\ FlagInv => (faults = 0 => NeverStranded)
  <2> SUFFICES ASSUME ActorInv, ~Over, "run.cancelled" \notin log PROVE InProgress
    BY DEF UndisturbedInv, Undisturbed, FlagInv, ActingInv, NeverStranded, Over
  <2>1. \/ Dispatching # {} \/ queue # {} \/ Pending # {} \/ Resuming # {} \/ Busy # {}
    BY DEF ActorInv, OneActs, OneOf
  <2> QED
    BY <2>1 DEF InProgress, Dispatching, Pending, Resuming, Busy, Working, At
<1> QED
  BY <1>1, RunHandedOn, FlagAlways, PTL

LEMMA AskedAtAuthorize ==
  ASSUME TypeOK, [Next]_vars, status = "completed", status' = "waiting_approval"
  PROVE  \E w \in Worker : At(w, "authorize")
<1> USE DEF dbVars, Terminal
<1>1. ~UNCHANGED vars
  BY DEF vars
<1>2. ~FaultStep
  BY DEF FaultStep, DispatchFails, DispatchAbandoned, MarkFails, PropagateFails, ResumeFails, CrashRust,
     WorkerLost, DeliveredAgain, ReportLost
<1>3. ~RustStep
  BY DEF RustStep, Create, DispatchOk, MarkDispatchFailed, MarkFailed, CancelReads, CancelRun,
     CancelConversation, MarkCancelled, Propagate, Decide, ResumeOk, MarkResumeFailed
<1>4. \A kind : ~Report(kind)
  BY DEF Report, StatusAfter
<1>5. ASSUME NEW w \in Worker, WorkerStep(w) \/ \E k \in Task : Take(w, k)
      PROVE  AuthorizeReview(w)
  BY <1>4, <1>5 DEF WorkerStep, Take, BeginExecute, AcquireLease, BeginResume, StreamCheck, CallTool,
         AuthorizeReuse, AuthorizeOutright, Interrupt, ReportWaiting, LastCheck, ExecuteTool, ReportTool,
         AgentEnds, ReportCompleted, AgentFails, EndTask, StopCancelled
<1> QED
  BY <1>1, <1>2, <1>3, <1>5 DEF Next, AuthorizeReview, Terminate

\* A completed run stays completed: nobody is left who could write its status.
THEOREM RunCompletedIsFinal == Spec /\ [](faults = 0) => CompletedIsFinal
<1>1. TypeOK /\ UndisturbedInv /\ FlagInv /\ faults = 0 /\ [Next]_vars
        => [status = "completed" /\ "run.cancelled" \notin log => status' = "completed"]_vars
  <2> SUFFICES ASSUME TypeOK, ActingInv, [Next]_vars, status = "completed", "run.cancelled" \notin log,
                      status' # status
               PROVE  FALSE
    BY DEF UndisturbedInv, Undisturbed, FlagInv
  <2>1. Pending = {} /\ Busy = {}
    BY DEF ActingInv, ActorInv, Over, Terminal, NobodyActs, NoneOf
  <2>2. ReviewAsked \/ ReviewRejected
    BY NextWrites DEF RunWritten, Report, StatusAfter, MarkFailed, CancelWrites, Terminal
  <2>3. ~ReviewRejected
    BY <2>1 DEF ReviewRejected, Pending
  <2>4. ~ReviewAsked
    BY <2>1, AskedAtAuthorize DEF ReviewAsked, Busy, Working, At
  <2> QED
    BY <2>2, <2>3, <2>4
<1> QED
  BY <1>1, RunTypeCorrect, RunHandedOn, FlagAlways, PTL DEF Spec, CompletedIsFinal

\* A worker passes the last check only while the flag is not set.
LEMMA ClearedByCheck ==
  ASSUME TypeOK, [Next]_vars, NEW w \in Worker, ~At(w, "cleared"), worker'[w].pc = "cleared"
  PROVE  ~flag /\ UNCHANGED <<flag, faults, takenBack>>
<1> USE DEF rustVars, brokerVars, historyVars
<1>1. ~UNCHANGED vars
  BY DEF vars, At
<1>2. ~FaultStep
  BY DEF FaultStep, DispatchFails, DispatchAbandoned, MarkFails, PropagateFails, ResumeFails, CrashRust,
     WorkerLost, DeliveredAgain, ReportLost, At, TypeOK, Idle
<1>3. ~RustStep
  BY DEF RustStep, Create, DispatchOk, MarkDispatchFailed, CancelReads, CancelRun, CancelConversation,
     MarkCancelled, Propagate, Decide, ResumeOk, MarkResumeFailed, At
<1>4. \A v \in Worker : ~Terminate(v)
  BY DEF Terminate, At, TypeOK, Idle
<1>5. PICK v \in Worker : WorkerStep(v) \/ \E k \in Task : Take(v, k)
  BY <1>1, <1>2, <1>3, <1>4 DEF Next
<1>6. v = w
  <2> SUFFICES ASSUME v # w PROVE worker'[w] = worker[w]
    BY DEF At
  <2> USE DEF Goto, StopCancelled, TypeOK
  <2>1. CASE \/ BeginExecute(v) \/ AcquireLease(v) \/ BeginResume(v) \/ StreamCheck(v)
             \/ \E t \in Tool : CallTool(v, t)
    BY <2>1 DEF BeginExecute, AcquireLease, BeginResume, StreamCheck, CallTool
  <2>2. CASE AuthorizeReuse(v) \/ AuthorizeOutright(v) \/ AuthorizeReview(v) \/ Interrupt(v)
    BY <2>2 DEF AuthorizeReuse, AuthorizeOutright, AuthorizeReview, Interrupt
  <2>3. CASE ReportWaiting(v) \/ LastCheck(v) \/ ExecuteTool(v) \/ ReportTool(v) \/ AgentEnds(v)
    BY <2>3 DEF ReportWaiting, LastCheck, ExecuteTool, ReportTool, AgentEnds
  <2>4. CASE \/ ReportCompleted(v) \/ AgentFails(v) \/ EndTask(v) \/ \E k \in Task : Take(v, k)
    BY <2>4 DEF ReportCompleted, AgentFails, EndTask, Take
  <2> QED
    BY <1>5, <2>1, <2>2, <2>3, <2>4 DEF WorkerStep
<1>7. LastCheck(w)
  <2>1. ASSUME NEW place \in {"agent", "parked", "granted", "leased", "executed", "done", "complete", "broken"}
        PROVE  ~Goto(w, place)
    BY DEF Goto, TypeOK, WorkerState
  <2>2. ~StopCancelled(w)
    BY <2>1 DEF StopCancelled
  <2>3. /\ \A k \in Task : [Idle EXCEPT !.task = k, !.pc = "begin"].pc = "begin"
        /\ [Idle EXCEPT !.task = worker[w].task, !.pc = "agent"].pc = "agent"
        /\ Idle.pc = "idle"
    BY DEF Idle
  <2>4. ~BeginExecute(w) /\ ~AcquireLease(w) /\ ~StreamCheck(w) /\ ~ReportWaiting(w)
    BY <2>1, <2>2, <2>3 DEF BeginExecute, AcquireLease, StreamCheck, ReportWaiting, TypeOK
  <2>5. ~BeginResume(w) /\ \A t \in Tool : ~CallTool(w, t)
    BY <2>2 DEF BeginResume, CallTool, TypeOK, WorkerState
  <2>6. ~AuthorizeReuse(w) /\ ~AuthorizeReview(w)
    BY DEF AuthorizeReuse, AuthorizeReview, TypeOK, WorkerState
  <2>7. ~AuthorizeOutright(w)
    <3>1. worker' # [worker EXCEPT ![w].pc = "granted", ![w].call = None]
      BY DEF TypeOK, WorkerState
    <3>2. worker' # [worker EXCEPT ![w] = [Idle EXCEPT !.task = worker[w].task, !.pc = "agent"]]
      BY <2>3 DEF TypeOK
    <3> QED
      BY <3>1, <3>2 DEF AuthorizeOutright
  <2>8. ~Interrupt(w)
    BY <2>1 DEF Interrupt, TypeOK, WorkerState
  <2>9. ~ExecuteTool(w) /\ ~AgentEnds(w) /\ ~ReportCompleted(w) /\ ~AgentFails(w)
    BY <2>1 DEF ExecuteTool, AgentEnds, ReportCompleted, AgentFails
  <2>10. ~ReportTool(w) /\ ~EndTask(w) /\ \A k \in Task : ~Take(w, k)
    BY <2>2, <2>3 DEF ReportTool, EndTask, Take, TypeOK
  <2> QED
    BY <1>5, <1>6, <2>4, <2>5, <2>6, <2>7, <2>8, <2>9, <2>10 DEF WorkerStep
<1>8. ~StopCancelled(w)
  BY DEF StopCancelled, Goto, TypeOK, WorkerState
<1> QED
  BY <1>7, <1>8 DEF LastCheck

\* Two workers never stand between check and call of a tool.
AtMostOneCleared == \A u, v \in Worker : At(u, "cleared") /\ At(v, "cleared") => u = v

ClearedInv == faults = 0 /\ takenBack = {} => AtMostOneCleared

LEMMA ClearedNext ==
  ASSUME TypeOK, ClearedInv, [Next]_vars, Undisturbed' => AtMostOneCleared'
  PROVE  ClearedInv'
<1> SUFFICES ASSUME faults' = 0, takenBack' = {}, NEW u \in Worker, NEW v \in Worker,
                    worker'[u].pc = "cleared", worker'[v].pc = "cleared"
             PROVE  u = v
  BY DEF ClearedInv, AtMostOneCleared, At
<1>1. CASE At(u, "cleared") /\ At(v, "cleared")
  <2>1. faults = 0 /\ takenBack = {}
    BY NextMarks DEF TypeOK
  <2> QED
    BY <1>1, <2>1 DEF ClearedInv, AtMostOneCleared
<1>2. CASE ~(At(u, "cleared") /\ At(v, "cleared"))
  <2>1. ~flag'
    BY <1>2, ClearedByCheck
  <2> QED
    BY <2>1 DEF Undisturbed, AtMostOneCleared, At
<1> QED
  BY <1>1, <1>2

\* Once a cancel has been answered no worker passes the last check, for the flag
\* was set before the answer; and of a tool that was checked before, one call at
\* most is still to start, unless the cancel took back an approved call.
THEOREM RunCancelStopsTools == Spec /\ [](faults = 0) => CancelStopsTools
<1>1. TypeOK /\ UndisturbedInv => (Undisturbed => AtMostOneCleared)
  BY BusyAlone DEF UndisturbedInv, ActingInv, AtMostOneCleared, Busy, Working, At
<1>2. Init => ClearedInv
  BY DEF Init, Idle, ClearedInv, AtMostOneCleared, At
<1>3. Spec => []ClearedInv
  BY <1>1, <1>2, ClearedNext, RunTypeCorrect, RunHandedOn, PTL DEF Spec
<1>4. TypeOK /\ FlagInv /\ ClearedInv /\ faults = 0 /\ [Next]_vars
        => [answered =>
              \A w \in Worker :
                /\ worker'[w].pc = "cleared" => At(w, "cleared")
                /\ At(w, "cleared") /\ worker'[w].pc = "executed" /\ takenBack = {} =>
                     \A v \in Worker \ {w} : ~At(v, "cleared")]_vars
  BY ClearedByCheck DEF FlagInv, ClearedInv, AtMostOneCleared
<1> QED
  BY <1>3, <1>4, FlagAlways, RunTypeCorrect, PTL DEF Spec, CancelStopsTools
===============================================================================
