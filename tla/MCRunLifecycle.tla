---------------------------- MODULE MCRunLifecycle ----------------------------
(* Instances of RunLifecycle for TLC. *)
EXTENDS RunLifecycle, TLC

CONSTANTS a1, a2, a3, w1, w2, write, erase, search, forbidden

\* Two tools that need review, one that does not, one that is denied.
ToolPolicies == [t \in Tool |-> CASE t \in {write, erase} -> "review"
                                  [] t = search           -> "allow"
                                  [] t = forbidden        -> "deny"]

Symmetry == Permutations(Approval) \cup Permutations(Worker)

\* For the instances whose agent can call both tools that need review.
SymmetryOfTools == Symmetry \cup Permutations({write, erase})
===============================================================================
