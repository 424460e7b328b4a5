--------------------------- MODULE MCCreditSupport ---------------------------
(* Instances of CreditSupport for TLC.                                     *)
EXTENDS CreditSupport, TLC

\* Every offer is another partner's.
Own == [o \in Offers |-> o]

Symmetry == Permutations(Forwards) \cup Permutations(Workers)
==============================================================================
