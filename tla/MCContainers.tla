---------------------------- MODULE MCContainers ----------------------------
(***************************************************************************)
(* Containers for TLC: children and keys are interchangeable.             *)
(***************************************************************************)
EXTENDS Containers, TLC

Symmetry == Permutations(Children) \cup Permutations(Keys)
=============================================================================
