--------------------------- MODULE MCSupplierPortal ---------------------------
(* Instances of SupplierPortal for TLC.                                    *)
EXTENDS SupplierPortal, TLC

\* Workers are interchangeable; the ids of rows are not.
Symmetry == Permutations(Workers)
===============================================================================
