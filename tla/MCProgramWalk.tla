--------------------------- MODULE MCProgramWalk ---------------------------
(***************************************************************************)
(* The program walk (crates/bt-app/src/programs_lane.rs) as an instance of *)
(* LaneCoalescing: two tables of profiles, so that a request may join the  *)
(* walk waiting or displace it.  The taskbar and font lanes are the same   *)
(* with one table.                                                         *)
(***************************************************************************)
EXTENDS LaneCoalescing
=============================================================================
