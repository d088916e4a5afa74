------------------------- MODULE MCResumeActivation -------------------------
(* TLC instances of ResumeActivation. *)
EXTENDS ResumeActivation, TLC

CONSTANTS j1, q1, q2, w1, g1

MCSymmetry == Permutations(Requests)
=============================================================================
