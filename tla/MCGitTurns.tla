---------------------------- MODULE MCGitTurns ----------------------------
(***************************************************************************)
(* GitTurns on small instances.  One repository, of which two things are   *)
(* asked, its status and its refs; or two repositories, the status of each.*)
(***************************************************************************)
EXTENDS GitTurns

Here       == {"here"}
HereAsked  == {"status", "refs"}
HereOnly(t) == "here"

Both       == {"here", "there"}
BothAsked  == {"status", "elsewhere"}
HereOrThere(t) == IF t = "elsewhere" THEN "there" ELSE "here"
=============================================================================
