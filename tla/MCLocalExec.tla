------------------------------ MODULE MCLocalExec ------------------------------
(* Instances of LocalExec for TLC. *)
EXTENDS LocalExec

CONSTANTS t1, a1, p1, v1, acpLoop, toolLoop

\* One poll loop per kind of request.
TwoLoops == [w \in Worker |-> IF w = acpLoop THEN "acp" ELSE "tool"]
================================================================================
