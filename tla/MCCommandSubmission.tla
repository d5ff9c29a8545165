------------------------ MODULE MCCommandSubmission ------------------------
(* CommandSubmission on a small instance.                                  *)
EXTENDS CommandSubmission, TLC

\* Symmetry: the slots for calls are interchangeable.
Symmetry == Permutations(Call)
=============================================================================
