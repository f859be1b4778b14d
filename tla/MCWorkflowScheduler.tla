------------------------ MODULE MCWorkflowScheduler ------------------------
(* Instances of WorkflowScheduler.                                         *)
EXTENDS WorkflowScheduler, TLC

CONSTANTS a, b, c

\* A chain, a join, a fork one node at a time, and two plans that are refused.
MCPlans ==
  {[edges |-> {<<a, b>>, <<b, c>>}, limit |-> 2],
   [edges |-> {<<a, c>>, <<b, c>>}, limit |-> 2],
   [edges |-> {<<a, b>>, <<a, c>>}, limit |-> 1],
   [edges |-> {<<a, b>>, <<b, a>>}, limit |-> 2],
   [edges |-> {<<a, b>>, <<b, c>>, <<c, a>>}, limit |-> 2]}

\* b and c are tried twice.
MCMaxAttempts == (a :> 1) @@ (b :> 2) @@ (c :> 2)
=============================================================================
