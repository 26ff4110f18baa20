---------------------------- MODULE MCCanControl ----------------------------
(* CanControl with interchangeable filters: no definition tells one member of *)
(* Filters from another.                                                     *)
EXTENDS CanControl, TLC

Symmetry == Permutations(Filters)
=============================================================================
