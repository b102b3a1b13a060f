-------------------------- MODULE MCConsoleEdits --------------------------
(***************************************************************************)
(* Instances of ConsoleEdits for TLC.                                      *)
(***************************************************************************)
EXTENDS ConsoleEdits, TLC

CONSTANTS t1, t2

TwoRules == [k \in Kinds |-> IF k = "rule" THEN <<t1, t2>> ELSE <<>>]

Symmetry == Permutations(Consoles)
=============================================================================
