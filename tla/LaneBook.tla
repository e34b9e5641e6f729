------------------------------ MODULE LaneBook ------------------------------
(***************************************************************************)
(* The book of a completion lane's ledger: crates/bt-app/src/lane.rs, the  *)
(* struct Book and the operations of Ledger that change it.                *)
(*                                                                         *)
(* Every operation of the ledger holds its one mutex for a map operation,  *)
(* so each is one operator here, from a book to the next book, together    *)
(* with what leaves the lock with it: the failure lines to say and the     *)
(* identities whose terminal goes to its sink.  The modules LaneLedger,    *)
(* LaneQueue and LaneCoalescing give those operators their threads.        *)
(*                                                                         *)
(* An answer's value, a failure's wording beyond "the same words or not",  *)
(* and the lane's name are abstracted.  An identity delivered is removed   *)
(* from the map in the code; here it keeps its terminal and the place it   *)
(* went to ("taken", "sunk") as history, and Entries leaves it out.        *)
(***************************************************************************)
EXTENDS Integers, FiniteSets

CONSTANTS MaxMinted,   \* how many identities a behaviour may mint (bound of the model)
          Bound,       \* Ledger.bound: how many entries the book may hold
          PerStreak,   \* Ledger.saying: TRUE for Saying::PerStreak, FALSE for PerRequest
          Words,       \* what a failure, or a refused worker start, may say
          NoWord       \* no failure said

ASSUME BookAssumption ==
    /\ MaxMinted \in Nat /\ Bound \in Nat
    /\ PerStreak \in BOOLEAN
    /\ NoWord \notin Words

-----------------------------------------------------------------------------
(* Identities are minted from 1 up; NoId stands for Option::None.          *)
Ids == 1..MaxMinted
NoId == 0

Causes == {"Returned", "Panicked", "NotStarted"}
NoFault == "none"

(* A terminal.  Joined { with, outcome } is flat: a joined identity's twin *)
(* is never itself joined (admit_joined joins the first), so the outcome   *)
(* it carries is the rest of the record, and with = NoId says "not joined".*)
Kinds == {"Done", "Failed", "Cancelled", "Superseded", "WorkerGone"}
Terminals == [kind : Kinds, word : Words \cup {NoWord},
              by : Ids \cup {NoId}, with : Ids \cup {NoId}]

Plain(kind)    == [kind |-> kind, word |-> NoWord, by |-> NoId, with |-> NoId]
Done           == Plain("Done")
Cancelled      == Plain("Cancelled")
WorkerGone     == Plain("WorkerGone")
Failed(w)      == [Plain("Failed") EXCEPT !.word = w]
Superseded(by) == [Plain("Superseded") EXCEPT !.by = by]
Joined(with, outcome) == [outcome EXCEPT !.with = with]
Unended == [kind |-> "Unended", word |-> NoWord, by |-> NoId, with |-> NoId]

Streaks == [of : {"none", "failed", "not_started"}, word : Words \cup {NoWord}]
NoStreak == [of |-> "none", word |-> NoWord]

Places == {"unminted", "owed", "kept", "taken", "sunk"}

Books == [minted   : 0..MaxMinted,
          place    : [Ids -> Places],
          gone     : [Ids -> BOOLEAN],
          twin     : [Ids -> Ids \cup {NoId}],
          terminal : [Ids -> Terminals \cup {Unended}],
          fault    : Causes \cup {NoFault},
          streak   : Streaks]

EmptyBook == [minted   |-> 0,
              place    |-> [i \in Ids |-> "unminted"],
              gone     |-> [i \in Ids |-> FALSE],
              twin     |-> [i \in Ids |-> NoId],
              terminal |-> [i \in Ids |-> Unended],
              fault    |-> NoFault,
              streak   |-> NoStreak]

-----------------------------------------------------------------------------
(* Reading the book.                                                       *)

Owed(b)    == {i \in Ids : b.place[i] = "owed"}
Kept(b)    == {i \in Ids : b.place[i] = "kept"}
Entries(b) == {i \in Ids : b.place[i] \in {"owed", "kept"}}

First(ids) == {i \in ids : \A j \in ids : i <= j}

EarliestOwed(b) == IF Owed(b) = {} THEN NoId ELSE CHOOSE i \in First(Owed(b)) : TRUE

(* Mark.below: every identity, when none was owed at the mark.             *)
Below(mark, id) == mark = NoId \/ id < mark

-----------------------------------------------------------------------------
(* Admission: mint.  The refusal the checks of mint answer, in their order,*)
(* and the book it makes when there is none.                               *)

Refusal(b, with) ==
    IF b.fault # NoFault THEN "Faulted"
    ELSE IF Cardinality(Entries(b)) >= Bound THEN "Full"
    ELSE IF with # NoId /\ with \notin Owed(b) THEN "TwinEnded"
    ELSE "none"

NextId(b) == b.minted + 1

Admitted(b, with) ==
    [b EXCEPT !.minted = @ + 1,
              !.place[NextId(b)] = "owed",
              !.twin[NextId(b)] =
                  IF with = NoId \/ b.twin[with] = NoId THEN with ELSE b.twin[with]]

-----------------------------------------------------------------------------
(* Delivery: what a terminal that reaches its consumer does to the streak, *)
(* and which of the identities delivered in one hold of the lock owe a     *)
(* failure line.  All of them carry the one outcome of t.                  *)

StreakAfter(b, ids, t) ==
    CASE ids # {} /\ t.kind = "Failed" -> [of |-> "failed", word |-> t.word]
      [] ids # {} /\ t.kind = "Done"   -> NoStreak
      [] OTHER                         -> b.streak

LinesOf(b, ids, t, first) ==
    IF ids = {} \/ t.kind # "Failed" THEN {}
    ELSE IF ~PerStreak THEN ids
    ELSE IF b.streak = [of |-> "failed", word |-> t.word] THEN {} ELSE first

-----------------------------------------------------------------------------
(* Ending: end_with_twins and end.                                         *)

Twins(b, id)  == {j \in Owed(b) : b.twin[j] = id}
(* The joined requests forgotten.                                          *)
EndsAlone(b, id) == {id}

EndsWith(b, id) == Twins(b, id) \cup {id}

(* The terminals recorded: kept for the requester that still holds its     *)
(* request, handed out to the sink when it has gone; the twin cut.         *)
Ended(b, terminals) ==
    LET ids == DOMAIN terminals
    IN  [b EXCEPT
            !.place    = [i \in Ids |-> IF i \notin ids THEN b.place[i]
                                        ELSE IF b.gone[i] THEN "sunk" ELSE "kept"],
            !.twin     = [i \in Ids |-> IF i \in ids THEN NoId ELSE b.twin[i]],
            !.terminal = [i \in Ids |-> IF i \in ids THEN terminals[i] ELSE b.terminal[i]]]

(* A late publication accepted while its first answer waits to be taken.   *)
PublishAcceptedLate(b, id) == id \in Entries(b) /\ b.twin[id] = NoId

PublishAccepted(b, id) == id \in Owed(b) /\ b.twin[id] = NoId

(* Handed to the sink though the requester is still there.                 *)
SunkAll(b, ids) == ids

SunkBy(b, ids) == {i \in ids : b.gone[i]}

Published(b, id, t) ==
    [Ended(b, [i \in EndsWith(b, id) |-> IF i = id THEN t ELSE Joined(id, t)])
        EXCEPT !.streak = StreakAfter(b, SunkBy(b, EndsWith(b, id)), t)]

(* A joined identity is ended, and said, before the one it joined.         *)
PublishLines(b, id, t) ==
    LET sunk  == SunkBy(b, EndsWith(b, id))
        twins == sunk \ {id}
    IN  LinesOf(b, sunk, t, IF twins = {} THEN {id} ELSE First(twins))

(* worker_ended: every operation owed ends WorkerGone, its joins with it;  *)
(* the lane is in fault, by the first end reported.                        *)
Operations(b) == {i \in Owed(b) : b.twin[i] = NoId}
EndedByWorker(b) == Operations(b) \cup {j \in Owed(b) : b.twin[j] \in Operations(b)}

GoneTerminal(b, i) == IF b.twin[i] = NoId THEN WorkerGone ELSE Joined(b.twin[i], WorkerGone)

WorkerEnded(b, cause) ==
    [Ended(b, [i \in EndedByWorker(b) |-> GoneTerminal(b, i)])
        EXCEPT !.fault = IF b.fault = NoFault THEN cause ELSE b.fault]

-----------------------------------------------------------------------------
(* The requester's side: Request::take and Drop for Request.               *)

Taken(b, id) ==
    [b EXCEPT !.place[id] = "taken",
              !.streak = StreakAfter(b, {id}, b.terminal[id])]

(* A request let go after its end: its terminal left in the book.          *)
DroppedUnsunk(b, id) == [b EXCEPT !.gone[id] = TRUE]

(* A request let go before its end: sunk without a terminal.               *)
DroppedAtOnce(b, id) == [b EXCEPT !.gone[id] = TRUE, !.place[id] = "sunk"]

Dropped(b, id) ==
    IF id \in Kept(b)
    THEN [b EXCEPT !.gone[id] = TRUE,
                   !.place[id] = "sunk",
                   !.streak = StreakAfter(b, {id}, b.terminal[id])]
    ELSE [b EXCEPT !.gone[id] = TRUE]

DeliveryLines(b, id) == LinesOf(b, {id}, b.terminal[id], {id})

(* say_not_started: the streak a refused start leaves.                     *)
NotStartedStreak(b, w) == [b EXCEPT !.streak = [of |-> "not_started", word |-> w]]

-----------------------------------------------------------------------------
(* The terminals of a book agree with each other and with who holds what.  *)

(* Identities are minted in order, one at a time, and only a minted one is *)
(* anywhere in the book.                                                   *)
MintedInOrder(b) ==
    /\ \A i \in Ids : b.place[i] = "unminted" <=> i > b.minted
    /\ \A i \in Ids : b.twin[i] < i
    /\ \A i \in Ids : i > b.minted => b.twin[i] = NoId /\ ~b.gone[i]

(* An identity has a terminal exactly when it has ended; one that is kept  *)
(* has a requester to take it, one that was sunk has none.                 *)
PlacedByRequester(b) ==
    \A i \in Ids :
        /\ b.terminal[i] = Unended <=> b.place[i] \in {"unminted", "owed"}
        /\ b.place[i] \in {"kept", "taken"} => ~b.gone[i]
        /\ b.place[i] = "sunk" => b.gone[i]

(* What a terminal says, whoever it was joined to.                         *)
Outcome(t) == [t EXCEPT !.with = NoId]

(* A joined identity is owed only while the operation it joined is owed.   *)
TwinIsOwed(b) ==
    \A i \in Ids : b.twin[i] # NoId =>
        /\ i \in Owed(b)
        /\ b.twin[i] \in Owed(b)
        /\ b.twin[b.twin[i]] = NoId

(* An identity that joined another ended with that one's own outcome.      *)
JoinedOutcome(b) ==
    \A i \in Ids : b.terminal[i].with # NoId =>
        /\ b.terminal[b.terminal[i].with] # Unended
        /\ b.terminal[b.terminal[i].with].with = NoId
        /\ b.terminal[i] = Joined(b.terminal[i].with, b.terminal[b.terminal[i].with])

(* A lane whose worker has ended owes nothing.                             *)
FaultOwesNothing(b) == b.fault # NoFault => Owed(b) = {}
=============================================================================
