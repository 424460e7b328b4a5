-------------------------- MODULE MCCommercialRequests --------------------------
(* Instances of CommercialRequests for TLC.                                *)
EXTENDS CommercialRequests, TLC

\* Line l1 asks request 1 for a new thing; l2 asks request 2 for a known one.
OneEach == [l \in Lines |-> IF l \in NewLines THEN 1 ELSE 2]

Symmetry == Permutations(Workers) \cup Permutations(Rows) \cup Permutations(Catalog)
=============================================================================
