-------------------------- MODULE MCInstanceClaim --------------------------
(***************************************************************************)
(* InstanceClaim on a small instance: two starts that ask, and a third     *)
(* that may be an update's, and sweeps.  The first two are alike, and so   *)
(* are the files.                                                          *)
(***************************************************************************)
EXTENDS InstanceClaim, TLC

CONSTANTS First, Second, Third

Three     == {First, Second, Third}
Alike     == Permutations({First, Second}) \cup Permutations(Files)
=============================================================================
