-------------------------- MODULE MCGlobalRules --------------------------
(***************************************************************************)
(* Instances of GlobalRules for TLC, and the mutants of its operators.     *)
(***************************************************************************)
EXTENDS GlobalRules, TLC

Symmetry == Permutations(Workers) \cup Permutations(Ticks)
=============================================================================
