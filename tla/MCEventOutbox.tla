----------------------------- MODULE MCEventOutbox -----------------------------
(* Instances of EventOutbox for TLC. *)
EXTENDS EventOutbox, TLC

CONSTANTS t1, t2, e1, e2

\* A batch of one event and one of two that shares it.
SmallBatches == {<<e1>>, <<e2, e1>>}

Symmetry == Permutations({t1, t2})
===============================================================================
