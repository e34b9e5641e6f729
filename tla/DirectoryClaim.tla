--------------------------- MODULE DirectoryClaim ---------------------------
(***************************************************************************)
(* What the claim on one data directory promises, as one kernel object     *)
(* gives it: the Windows arm of crates/bt-platform/src/instance.rs, where  *)
(* the object's name is the claim (CreateMutexW) and closing its handle,   *)
(* or the end of the process, lets it go.  Over it the table of            *)
(* crates/bt-app/src/persist.rs, which keeps each process's first settled  *)
(* answer.  InstanceClaim implements this with files and their locks.      *)
(***************************************************************************)
CONSTANTS Processes, NoProcess

VARIABLES
    holder,     \* the process that has the claim
    row         \* what each process's table says of the directory

vars == <<holder, row>>

Init ==
    /\ holder = NoProcess
    /\ row = [p \in Processes |-> "unasked"]

(* The name did not exist: it is created, and is this process's.           *)
Take(p) ==
    /\ holder = NoProcess
    /\ holder' = p
    /\ UNCHANGED row

(* The claim goes into the table: is_writer_of, adopt_claim.               *)
Keep(p) ==
    /\ holder = p /\ row[p] = "unasked"
    /\ row' = [row EXCEPT ![p] = "writer"]
    /\ UNCHANGED holder

(* Refused, because another holds it or because the kernel did not answer, *)
(* and the refusal remembered.  A process is never refused its own claim.  *)
Refuse(p) ==
    /\ holder # p /\ row[p] = "unasked"
    /\ row' = [row EXCEPT ![p] = "refused"]
    /\ UNCHANGED holder

(* let_go_of_every_claim: the row first says "not the writer" ...          *)
LetGo(p) ==
    /\ row[p] = "writer"
    /\ row' = [row EXCEPT ![p] = "refused"]
    /\ UNCHANGED holder

(* ... and a claim that is not in the table is let go by its handle.       *)
Release(p) ==
    /\ holder = p /\ row[p] # "writer"
    /\ holder' = NoProcess
    /\ UNCHANGED row

(* A process ends, and another of its place starts with an empty table.    *)
Die(p) ==
    /\ holder' = IF holder = p THEN NoProcess ELSE holder
    /\ row' = [row EXCEPT ![p] = "unasked"]

Next ==
    \E p \in Processes :
        Take(p) \/ Keep(p) \/ Refuse(p) \/ LetGo(p) \/ Release(p) \/ Die(p)

Spec == Init /\ [][Next]_vars
=============================================================================
