------------------------------- MODULE MCAward -------------------------------
(* Instances of Award for TLC.                                             *)
EXTENDS Award, TLC

\* Workers and proposals are interchangeable.
Symmetry == Permutations(Workers) \cup Permutations(Responses)
=============================================================================
