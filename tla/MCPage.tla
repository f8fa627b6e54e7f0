------------------------------- MODULE MCPage -------------------------------
(* Instances of WorkflowPage for TLC. *)
EXTENDS WorkflowPage, TLC

\* Names of sessions, loops and requests are interchangeable.
PageSymmetry == Permutations(Sessions) \cup Permutations(Loops) \cup Permutations(Clicks)
=============================================================================
