--------------------------- MODULE MCConfCache ---------------------------
(***************************************************************************)
(* Instances of ConfCache for TLC.                                         *)
(***************************************************************************)
EXTENDS ConfCache, TLC

Symmetry ==
  Permutations(Instances) \cup Permutations(Addresses) \cup Permutations(Requests)
    \cup Permutations(DiskContents)
=============================================================================
