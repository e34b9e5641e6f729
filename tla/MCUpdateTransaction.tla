------------------------ MODULE MCUpdateTransaction ------------------------
(***************************************************************************)
(* UpdateTransaction on a small installation: one member that both sets    *)
(* have with other bytes, one that only the new set brings, one that only  *)
(* the old set has.                                                        *)
(***************************************************************************)
EXTENDS UpdateTransaction
=============================================================================
