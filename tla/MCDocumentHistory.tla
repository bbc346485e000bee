------------------------- MODULE MCDocumentHistory -------------------------
(***************************************************************************)
(* DocumentHistory for TLC: nodes of a kind are interchangeable.           *)
(***************************************************************************)
EXTENDS DocumentHistory, TLC

NodeSymmetry == Permutations(VectorNodes) \cup Permutations(BytesNodes)
=============================================================================
