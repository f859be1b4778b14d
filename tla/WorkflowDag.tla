----------------------------- MODULE WorkflowDag -----------------------------
(***************************************************************************)
(* What a workflow run promises, without ticks, runs, events or retries:   *)
(* its nodes start in the order of the dependencies, at most limit of them *)
(* are active, and a node that is done or dead stays so.  A node that is   *)
(* active may become idle again (a retry).  WorkflowScheduler is shown to  *)
(* implement this.                                                         *)
(***************************************************************************)
EXTENDS Naturals, FiniteSets

CONSTANTS Node, Plans

VARIABLES plan,    \* edges, pairs <<upstream, downstream>>, and limit
          phase    \* of each node

Phase == {"idle", "active", "done", "dead"}

ActiveNodes(p) == {n \in Node : p[n] = "active"}

Init ==
  /\ plan \in Plans
  /\ phase = [n \in Node |-> "idle"]

\* What one step may do to node n, whose phase becomes q.
Move(n, q) ==
  /\ phase[n] \in {"done", "dead"} => q = phase[n]
  /\ phase[n] = "idle" => q # "done"
  /\ phase[n] = "idle" /\ q = "active" =>
       \A m \in Node : <<m, n>> \in plan.edges => phase[m] = "done"

Step ==
  /\ phase' \in [Node -> Phase]
  /\ \A n \in Node : Move(n, phase'[n])
  /\ Cardinality(ActiveNodes(phase')) <= plan.limit
  /\ UNCHANGED plan

Spec == Init /\ [][Step]_<<plan, phase>>

=============================================================================
