------------------------------ MODULE MCReminders ------------------------------
(* Instances of Reminders for TLC.                                         *)
EXTENDS Reminders, TLC

\* Every pair is another supplier's.
Own == [p \in Pairs |-> p]

AddressSymmetry == Permutations(Sweeps) \cup Permutations(Addresses)
===============================================================================
