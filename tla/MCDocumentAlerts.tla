--------------------------- MODULE MCDocumentAlerts ---------------------------
(* Instance of DocumentAlerts for TLC; liveness is checked, so no symmetry. *)
EXTENDS DocumentAlerts
===============================================================================
