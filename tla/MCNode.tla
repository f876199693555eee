--------------------------------- MODULE MCNode ---------------------------------
(* Model values and symmetry for Node. *)
EXTENDS Node, TLC

Symmetry == Permutations(Clients) \cup Permutations(Claims)
================================================================================
