---------------------------- MODULE MCGeneration ----------------------------
(* TLC instances of Generation.                                              *)
EXTENDS Generation, TLC

(* Worker slots differ in nothing, nor do polls.                             *)
Symmetry == Permutations(Workers) \cup Permutations(Polls)
=============================================================================
