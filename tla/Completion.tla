----------------------------- MODULE Completion -----------------------------
(***************************************************************************)
(* What the completion seam promises of every request (the module doc of   *)
(* crates/bt-app/src/lane.rs; docs/ARCHITECTURE.md, the lane contract): an *)
(* identity is minted for each admitted request, it ends exactly once, and *)
(* what it ended with reaches exactly one reader, once: the requester that *)
(* still holds the request, or the sink when the requester has let it go.  *)
(* A worker's end ends everything owed and closes the door.                *)
(*                                                                         *)
(* This module knows nothing of threads, locks, lines, joins or marks; the *)
(* modules LaneLedger, LaneQueue and LaneCoalescing are shown to implement *)
(* it.                                                                     *)
(***************************************************************************)
EXTENDS Integers

CONSTANTS MaxMinted,  \* how many requests a behaviour may admit
          Outcomes,   \* what a request may end with while the worker lives
          Gone,       \* what a request ends with when the worker has ended
          NoOutcome   \* not ended

Ids == 1..MaxMinted

VARIABLES
    minted,   \* how many requests have been admitted
    open,     \* whether the door still admits
    stage,    \* where each request stands
    held,     \* whether its requester still holds it
    outcome   \* what it ended with

vars == <<minted, open, stage, held, outcome>>

Stages == {"unasked", "owed", "ended", "answered", "sunk"}

TypeOK ==
    /\ minted \in 0..MaxMinted
    /\ open \in BOOLEAN
    /\ stage \in [Ids -> Stages]
    /\ held \in [Ids -> BOOLEAN]
    /\ outcome \in [Ids -> Outcomes \cup {Gone, NoOutcome}]

Init ==
    /\ minted = 0
    /\ open = TRUE
    /\ stage = [i \in Ids |-> "unasked"]
    /\ held = [i \in Ids |-> TRUE]
    /\ outcome = [i \in Ids |-> NoOutcome]

-----------------------------------------------------------------------------
Owed == {i \in Ids : stage[i] = "owed"}

(* The door admits one request: the next identity, owed.                   *)
Ask ==
    /\ open
    /\ minted < MaxMinted
    /\ minted' = minted + 1
    /\ stage' = [stage EXCEPT ![minted + 1] = "owed"]
    /\ UNCHANGED <<open, held, outcome>>

(* The requests S, owed, end together with o; of those whose requester has *)
(* gone, the sink hears some at once, the others a little later.           *)
EndTogether(S, o) ==
    /\ S \subseteq Owed
    /\ \E heard \in SUBSET {i \in S : ~held[i]} :
          stage' = [i \in Ids |-> IF i \in heard THEN "sunk"
                                  ELSE IF i \in S THEN "ended" ELSE stage[i]]
    /\ outcome' = [i \in Ids |-> IF i \in S THEN o ELSE outcome[i]]
    /\ UNCHANGED <<minted, held>>

(* One operation ends, and every request that is the same operation with   *)
(* it.                                                                     *)
End == \E S \in SUBSET Owed : \E o \in Outcomes :
          S # {} /\ EndTogether(S, o) /\ UNCHANGED open

(* The worker has ended: nothing stays owed, and nothing more is admitted. *)
Close == open' = FALSE /\ EndTogether(Owed, Gone)

(* The requester takes what its request ended with.                        *)
Answer(i) ==
    /\ stage[i] = "ended" /\ held[i]
    /\ stage' = [stage EXCEPT ![i] = "answered"]
    /\ UNCHANGED <<minted, open, held, outcome>>

(* The requester lets its request go, before or after it has ended; what   *)
(* has ended already may reach the sink at once.                           *)
LetGo(i) ==
    /\ stage[i] \in {"owed", "ended"} /\ held[i]
    /\ held' = [held EXCEPT ![i] = FALSE]
    /\ \/ UNCHANGED stage
       \/ stage[i] = "ended" /\ stage' = [stage EXCEPT ![i] = "sunk"]
    /\ UNCHANGED <<minted, open, outcome>>

(* The sink hears what a request let go ended with.                        *)
Sink(i) ==
    /\ stage[i] = "ended" /\ ~held[i]
    /\ stage' = [stage EXCEPT ![i] = "sunk"]
    /\ UNCHANGED <<minted, open, held, outcome>>

Next == Ask \/ End \/ Close \/ \E i \in Ids : Answer(i) \/ LetGo(i) \/ Sink(i)

Spec == Init /\ [][Next]_vars
=============================================================================
