---------------------------- MODULE MCGlobalStream ----------------------------
(* Instances of GlobalStream for TLC. *)
EXTENDS GlobalStream, TLC

CONSTANTS c1, c2, t1, t2, t3, e1, e2

SingleBatches == {<<e1>>, <<e2>>}
SmallBatches == {<<e1>>, <<e2, e1>>}

Symmetry == Permutations(Txn)
===============================================================================
