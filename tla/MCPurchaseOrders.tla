--------------------------- MODULE MCPurchaseOrders ---------------------------
(* Instances of PurchaseOrders for TLC.                                    *)
EXTENDS PurchaseOrders, TLC

\* Workers and item slots are interchangeable; the ids of POs are not.
Symmetry == Permutations(Workers) \cup Permutations(Items)
=============================================================================
