--------------------------- MODULE MCForecastRegister ---------------------------
(* Instances of ForecastRegister for TLC.                                  *)
EXTENDS ForecastRegister, TLC

Symmetry == Permutations(Products) \cup Permutations(Codes) \cup Permutations(Items)
            \cup Permutations(Workers)
===============================================================================
