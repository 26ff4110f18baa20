---------------------------- MODULE MCCanGateway ----------------------------
(* CanGateway with interchangeable mailboxes: the order in which they leave  *)
(* is that of the requests, not of their numbers.                            *)
EXTENDS CanGateway, TLC

Symmetry == Permutations(Boxes)
=============================================================================
