-------------------------- MODULE MCSessionLedger --------------------------
(* SessionLedger on small instances.                                       *)
EXTENDS SessionLedger, TLC

\* Runs of one kind are interchangeable: only `ResumeRun` tells runs apart.
Symmetry == Permutations(ResumeRun) \cup Permutations(Run \ ResumeRun)
=============================================================================
