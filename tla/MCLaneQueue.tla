---------------------------- MODULE MCLaneQueue ----------------------------
(***************************************************************************)
(* The queue as the lanes that use it use it, chosen in the initial state. *)
(*                                                                         *)
(* The clipboard lane (crates/bt-app/src/clipboard_lane.rs,                *)
(* ClipboardLane::submit, withdraw, supersede, run_clipboard_lane and      *)
(* ClipboardAsks::answered): nothing is related to anything, two windows   *)
(* withdraw and replace their requests, and the worker drops a request     *)
(* that has ended before its work.                                         *)
(*                                                                         *)
(* The resample share of the computation lane                              *)
(* (crates/bt-app/src/computation_lane.rs, ComputationLane::scale_through  *)
(* and ShareOf::ended): a request for the same picture from the same asker *)
(* joins the waiting one at the same size and displaces it at another.     *)
(***************************************************************************)
EXTENDS LaneQueue

CONSTANTS Left, Right, Tab      \* the windows

ScaleJobs == [target : {"pane"}, size : {"small", "large"}]
                \cup {[target |-> "card", size |-> "small"]}

ScaleRelation(waiting, asked) ==
    IF waiting.target # asked.target THEN "Other"
    ELSE IF waiting.size = asked.size THEN "Same"
    ELSE "Displaces"

LanePolicies ==
    [clipboard |->
        [jobs |-> {"read"}, windows |-> {Left, Right},
         relate |-> [pair \in {"read"} \X {"read"} |-> "Other"],
         checksOwed |-> TRUE, withdraws |-> TRUE, takesPast |-> FALSE],
     scale |->
        [jobs |-> ScaleJobs, windows |-> {Tab},
         relate |-> [pair \in ScaleJobs \X ScaleJobs |-> ScaleRelation(pair[1], pair[2])],
         checksOwed |-> FALSE, withdraws |-> FALSE, takesPast |-> TRUE]]
=============================================================================
