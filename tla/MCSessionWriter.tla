-------------------------- MODULE MCSessionWriter --------------------------
(***************************************************************************)
(* SessionWriter on small instances.                                       *)
(***************************************************************************)
EXTENDS SessionWriter
=============================================================================
