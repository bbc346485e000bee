---------------------------- MODULE MCDocument -----------------------------
(***************************************************************************)
(* Document for TLC: nodes of a kind are interchangeable.                  *)
(***************************************************************************)
EXTENDS Document, TLC

NodeSymmetry == Permutations(VectorNodes) \cup Permutations(BytesNodes)
=============================================================================
