------------------------- MODULE MCDocumentWrites -------------------------
(***************************************************************************)
(* DocumentWrites on small instances.                                      *)
(***************************************************************************)
EXTENDS DocumentWrites, TLC

UnitSymmetry == Permutations(Units)
=============================================================================
