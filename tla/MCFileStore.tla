------------------------------ MODULE MCFileStore ------------------------------
(* Constants for TLC: a user with a preview tab and a run, and the run of    *)
(* another user.                                                             *)
EXTENDS FileStore, TLC

CONSTANTS tab, agent, other, ann, bob, run1, run2

MCUserOf == tab :> ann @@ agent :> ann @@ other :> bob
MCRunOf == tab :> NoRun @@ agent :> run1 @@ other :> run2
===============================================================================
