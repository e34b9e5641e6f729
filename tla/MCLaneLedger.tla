---------------------------- MODULE MCLaneLedger ----------------------------
(***************************************************************************)
(* LaneLedger with the threads a lane of the application has: the window   *)
(* thread, which asks, withdraws, takes and lets go, and the one worker.   *)
(***************************************************************************)
EXTENDS LaneLedger
=============================================================================
