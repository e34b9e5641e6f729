--------------------------- MODULE LaneCoalescing ---------------------------
(***************************************************************************)
(* A latest-value lane on the completion seam, with its one worker and the *)
(* window thread that asks it and takes its answers:                       *)
(* crates/bt-app/src/lane.rs, Coalescing, over the ledger of LaneBook; its *)
(* workers are taskbar_lane.rs, programs_lane.rs and the font lane of      *)
(* settings.rs.                                                            *)
(*                                                                         *)
(* One run is out, at most one is waiting.  The threads share the lane's   *)
(* own mutex and condition variable, which guard the run waiting and the   *)
(* two counts, the ledger's book, and the wake.  The requests are held in  *)
(* the lane until they are taken, and the lane is never dropped: it lives  *)
(* as long as the process.                                                 *)
(*                                                                         *)
(* What is asked is abstracted to the table it asks about; the rows a walk *)
(* reads first, its trigger and its thread's priority order the work and   *)
(* name it, and change no terminal.                                        *)
(***************************************************************************)
EXTENDS LaneBook, Sequences

CONSTANT Tables      \* what may be asked: two requests are the same operation
                     \* when they ask about the same table

ASSUME TablesAssumption == Tables # {}

VARIABLES
    book,       \* the ledger's book
    waiting,    \* Standing.waiting: the run waiting, or NoRun
    superseded, \* Standing.superseded: displaced requests not counted yet
    app,        \* where the window thread is in the call it makes
    hand,       \* that call's table and identity
    worker,     \* where the worker is
    current,    \* the run the worker has taken, or NoRun
    ringing,    \* whether a wake is in the window thread's event queue
    mark,       \* the mark of the take under way
    shown,      \* history: the identities taken, in order
    began       \* history: per operation run, the last identity minted as it began

askVars  == <<waiting, superseded, app, hand>>
workVars == <<worker, current, began>>
takeVars == <<mark, shown>>
vars == <<book, askVars, workVars, takeVars, ringing>>

Runs == [operation : Ids, newest : Ids, table : Tables, uncounted : 0..MaxMinted]
NoRun == [operation |-> NoId]

NoHand == [table |-> CHOOSE table \in Tables : TRUE, id |-> NoId]

TypeOK ==
    /\ book \in Books
    /\ waiting \in Runs \cup {NoRun}
    /\ superseded \in 0..MaxMinted
    /\ app \in {"idle", "asking", "displacing", "notifying", "draining", "taking"}
    /\ hand \in [table : Tables, id : Ids \cup {NoId}]
    /\ worker \in {"unstarted", "looking", "asleep", "taken", "running", "counting",
                   "waking", "announcing", "ended"}
    /\ current \in Runs \cup {NoRun}
    /\ ringing \in BOOLEAN
    /\ mark \in Ids \cup {NoId}
    /\ shown \in Seq(Ids)
    /\ began \in [Ids -> 0..MaxMinted]

Init ==
    /\ book = EmptyBook
    /\ waiting = NoRun /\ superseded = 0
    /\ app = "idle" /\ hand = NoHand
    /\ worker = "unstarted" /\ current = NoRun
    /\ ringing = FALSE
    /\ mark = NoId /\ shown = <<>>
    /\ began = [i \in Ids |-> 0]

-----------------------------------------------------------------------------
(* The lane's lock is held by an ask until its request is standing, and by *)
(* a take while it takes.                                                  *)
Locked == app \in {"asking", "displacing", "taking"}

Same(run, table) == run.table = table

(* Coalescing::ask takes the lock and finds the worker started, or starts  *)
(* it.  A start the thread door refuses refuses the request, says a line   *)
(* and leaves everything as it was: a stuttering step.                     *)
AskBegins(table) ==
    /\ app = "idle" /\ book.minted < MaxMinted
    /\ app' = "asking"
    /\ hand' = [NoHand EXCEPT !.table = table]
    /\ worker' = IF worker = "unstarted" THEN "looking" ELSE worker
    /\ UNCHANGED <<book, waiting, superseded, current, began, takeVars, ringing>>

JoinsTheWaiting == waiting # NoRun /\ Same(waiting, hand.table)
TheRefusal == Refusal(book, IF JoinsTheWaiting THEN waiting.operation ELSE NoId)

(* The ledger refuses: the run waiting is put back, nothing minted.        *)
AskRefused ==
    /\ app = "asking" /\ TheRefusal # "none"
    /\ app' = "idle" /\ hand' = NoHand
    /\ UNCHANGED <<book, waiting, superseded, workVars, takeVars, ringing>>

(* Joined, and the run's number left what it was.                          *)
AskJoinsUnnumbered ==
    /\ app = "asking" /\ JoinsTheWaiting /\ TheRefusal = "none"
    /\ book' = Admitted(book, waiting.operation)
    /\ waiting' = [waiting EXCEPT !.uncounted = @ + 1]
    /\ app' = "notifying" /\ hand' = NoHand
    /\ UNCHANGED <<superseded, workVars, takeVars, ringing>>

(* The same operation as the run waiting: joined to it, and its newest.    *)
AskJoins ==
    /\ app = "asking" /\ JoinsTheWaiting /\ TheRefusal = "none"
    /\ book' = Admitted(book, waiting.operation)
    /\ waiting' = [waiting EXCEPT !.newest = NextId(book), !.uncounted = @ + 1]
    /\ app' = "notifying" /\ hand' = NoHand
    /\ UNCHANGED <<superseded, workVars, takeVars, ringing>>

RunOf(id, table) == [operation |-> id, newest |-> id, table |-> table, uncounted |-> 1]

(* None is waiting: this one waits.                                        *)
AskStands ==
    /\ app = "asking" /\ waiting = NoRun /\ TheRefusal = "none"
    /\ book' = Admitted(book, NoId)
    /\ waiting' = RunOf(NextId(book), hand.table)
    /\ app' = "notifying" /\ hand' = NoHand
    /\ UNCHANGED <<superseded, workVars, takeVars, ringing>>

(* A different operation: admitted first, ...                              *)
AskDisplaces ==
    /\ app = "asking" /\ waiting # NoRun /\ ~JoinsTheWaiting /\ TheRefusal = "none"
    /\ book' = Admitted(book, NoId)
    /\ hand' = [hand EXCEPT !.id = NextId(book)]
    /\ app' = "displacing"
    /\ UNCHANGED <<waiting, superseded, workVars, takeVars, ringing>>

(* The displaced run's terminal recorded over the one it may have.         *)
DisplaceOver ==
    /\ app = "displacing"
    /\ book' = Published(book, waiting.operation, Superseded(hand.id))
    /\ superseded' = superseded + waiting.uncounted
    /\ waiting' = RunOf(hand.id, hand.table)
    /\ app' = "notifying" /\ hand' = NoHand
    /\ UNCHANGED <<workVars, takeVars, ringing>>

(* ... then the run waiting ends Superseded by it, if the worker's end has *)
(* not ended it meanwhile, its requests to be counted, and the new one     *)
(* waits in its place.  No wake: a run is out, whose end wakes.            *)
Displace ==
    /\ app = "displacing"
    /\ book' = IF PublishAccepted(book, waiting.operation)
               THEN Published(book, waiting.operation, Superseded(hand.id))
               ELSE book
    /\ superseded' = superseded + waiting.uncounted
    /\ waiting' = RunOf(hand.id, hand.table)
    /\ app' = "notifying" /\ hand' = NoHand
    /\ UNCHANGED <<workVars, takeVars, ringing>>

(* The condition variable not signalled.                                   *)
NotifyNobody ==
    /\ app = "notifying"
    /\ app' = "idle"
    /\ UNCHANGED <<book, waiting, superseded, hand, workVars, takeVars, ringing>>

(* The condition variable, after the unlock.                               *)
Notify ==
    /\ app = "notifying"
    /\ worker' = IF worker = "asleep" THEN "looking" ELSE worker
    /\ app' = "idle"
    /\ UNCHANGED <<book, waiting, superseded, hand, current, began,
                   takeVars, ringing>>

-----------------------------------------------------------------------------
(* Coalescing::ended, on the wake's turn or on the window thread's own:    *)
(* the mark read first, then the lock, then every terminal below the mark. *)
Take ==
    /\ app = "idle"
    /\ mark' = EarliestOwed(book)
    /\ app' = "draining"
    /\ UNCHANGED <<book, waiting, superseded, hand, workVars, shown>>

TakeOnTheWake == ringing /\ ringing' = FALSE /\ Take
TakeUnasked == UNCHANGED ringing /\ Kept(book) # {} /\ Take

TakeLocks ==
    /\ app = "draining"
    /\ app' = "taking"
    /\ UNCHANGED <<book, waiting, superseded, hand, workVars, takeVars, ringing>>

(* The take without its mark.                                              *)
TakeableUnmarked == Kept(book)

Takeable == {i \in Kept(book) : Below(mark, i)}

TakeOne ==
    /\ app = "taking"
    /\ \E i \in Takeable :
          /\ \A j \in Takeable : i <= j
          /\ book' = Taken(book, i)
          /\ shown' = Append(shown, i)
    /\ UNCHANGED <<askVars, workVars, mark, ringing>>

TakeEnds ==
    /\ app = "taking" /\ Takeable = {}
    /\ mark' = NoId
    /\ app' = "idle"
    /\ UNCHANGED <<book, waiting, superseded, hand, workVars, shown, ringing>>

-----------------------------------------------------------------------------
(* The worker: Coalescing::next, the lane's body, count_arrivals.          *)

(* The run the worker takes left standing while it is out.                 *)
PopLeavesIt ==
    /\ worker = "looking" /\ ~Locked /\ waiting # NoRun
    /\ current' = waiting
    /\ worker' = "taken"
    /\ UNCHANGED <<book, waiting, superseded, app, hand, began, takeVars, ringing>>

Pop ==
    /\ worker = "looking" /\ ~Locked /\ waiting # NoRun
    /\ current' = waiting
    /\ waiting' = NoRun
    /\ worker' = "taken"
    /\ UNCHANGED <<book, superseded, app, hand, began, takeVars, ringing>>

Sleep ==
    /\ worker = "looking" /\ ~Locked /\ waiting = NoRun
    /\ worker' = "asleep"
    /\ UNCHANGED <<book, askVars, current, began, takeVars, ringing>>

(* A condition variable may wake its waiter for no reason.                 *)
Stir ==
    /\ worker = "asleep"
    /\ worker' = "looking"
    /\ UNCHANGED <<book, askVars, current, began, takeVars, ringing>>

(* The task begins, and from here on it reads the world.                   *)
Begin ==
    /\ worker = "taken"
    /\ began' = [began EXCEPT ![current.operation] = book.minted]
    /\ worker' = "running"
    /\ UNCHANGED <<book, askVars, current, takeVars, ringing>>

(* count_arrivals, when the run ends, before its terminal is published.    *)
CountArrivals ==
    /\ worker = "running" /\ ~Locked
    /\ superseded' = 0
    /\ waiting' = IF waiting = NoRun THEN NoRun ELSE [waiting EXCEPT !.uncounted = 0]
    /\ worker' = "counting"
    /\ UNCHANGED <<book, app, hand, current, began, takeVars, ringing>>

Publish ==
    /\ worker = "counting"
    /\ \E t \in {Done} \cup {Failed(w) : w \in Words} :
          book' = IF PublishAccepted(book, current.operation)
                  THEN Published(book, current.operation, t) ELSE book
    /\ worker' = "waking" /\ current' = NoRun
    /\ UNCHANGED <<askVars, began, takeVars, ringing>>

Wake ==
    /\ worker = "waking"
    /\ ringing' = TRUE
    /\ worker' = "looking"
    /\ UNCHANGED <<book, askVars, current, began, takeVars>>

(* A panic outside any task, before a run begins or between two, reported  *)
(* to the ledger; the body never returns.                                  *)
Panic ==
    /\ worker \in {"looking", "taken"} /\ (worker = "looking" => ~Locked)
    /\ book' = WorkerEnded(book, "Panicked")
    /\ worker' = IF Owed(book) = {} THEN "ended" ELSE "announcing"
    /\ current' = NoRun
    /\ UNCHANGED <<askVars, began, takeVars, ringing>>

Announce ==
    /\ worker = "announcing"
    /\ ringing' = TRUE
    /\ worker' = "ended"
    /\ UNCHANGED <<book, askVars, current, began, takeVars>>

-----------------------------------------------------------------------------
AppGoesOn ==
    \/ AskRefused \/ AskJoins \/ AskStands \/ AskDisplaces \/ Displace \/ Notify
    \/ TakeOnTheWake \/ TakeLocks \/ TakeOne \/ TakeEnds

WorkerGoesOn == Pop \/ Sleep \/ Begin \/ CountArrivals \/ Publish \/ Wake \/ Announce

Next ==
    \/ \E table \in Tables : AskBegins(table)
    \/ TakeUnasked
    \/ AppGoesOn \/ WorkerGoesOn \/ Stir \/ Panic

(* A thread that can run runs and a task ends; the event loop's queue is   *)
(* served in order, so a wake in it is come to however often the window    *)
(* asks; and a worker waiting for the lane's lock gets it between two      *)
(* calls.                                                                  *)
Fairness ==
    /\ WF_vars(AppGoesOn)
    /\ SF_vars(TakeOnTheWake)
    /\ SF_vars(Pop) /\ SF_vars(CountArrivals)
    /\ WF_vars(WorkerGoesOn)

Spec == Init /\ [][Next]_vars
FairSpec == Spec /\ Fairness

-----------------------------------------------------------------------------
(* What the lane keeps true.                                               *)

Answers(run) == {i \in Owed(book) : i = run.operation \/ book.twin[i] = run.operation}

(* One run out, one waiting, and between them they answer everything owed: *)
(* no request is left to a run that was displaced or has ended; and each   *)
(* run is numbered by the newest request it answers, which is the number   *)
(* its answer is kept by (ask, next; the module doc: "coalescing").        *)
StandingAnswersEverything ==
    book.fault = NoFault =>
        /\ Owed(book) \subseteq
              (UNION {Answers(run) : run \in {waiting, current} \ {NoRun}})
                 \cup (IF app = "displacing" THEN {hand.id} ELSE {})
        /\ \A run \in {waiting, current} \ {NoRun} :
              run.newest \in Answers(run) /\ \A i \in Answers(run) : i <= run.newest

(* "A request asked while a run is out waits for the next run, because the *)
(* run out may have read the world before the change the request is        *)
(* about": every answer is of a run that began after its request was made, *)
(* its own or the one it joined.                                           *)
AnswersAreFresh ==
    \A i \in Ids :
        LET t == book.terminal[i]
        IN  t.kind \in {"Done", "Failed"} => i <= began[IF t.with = NoId THEN i ELSE t.with]

(* The terminals are taken in the order the requests were admitted, a      *)
(* displaced one not before the run that was out before it (ended).        *)
TakenInOrder == \A m, n \in 1..Len(shown) : m < n => shown[m] < shown[n]

(* Every request admitted ends and is taken, whatever displaces or joins   *)
(* it, and whether or not the worker dies (C1, C2).                        *)
RequestsAreAnswered == \A i \in Ids : i \in Entries(book) ~> i \notin Entries(book)

-----------------------------------------------------------------------------
(* The lane implements the seam's promise.                                 *)

StageOf(i) ==
    CASE book.place[i] = "unminted" -> "unasked"
      [] book.place[i] = "kept"     -> "ended"
      [] book.place[i] = "taken"    -> "answered"
      [] OTHER                      -> book.place[i]

Promise == INSTANCE Completion WITH
    Outcomes  <- {Done} \cup {Failed(w) : w \in Words} \cup {Superseded(by) : by \in Ids},
    Gone      <- WorkerGone,
    NoOutcome <- Unended,
    minted    <- book.minted,
    open      <- book.fault = NoFault,
    stage     <- [i \in Ids |-> StageOf(i)],
    held      <- [i \in Ids |-> ~book.gone[i]],
    outcome   <- [i \in Ids |-> Outcome(book.terminal[i])]

(* Every request admitted ends exactly once and reaches its requester      *)
(* once.                                                                   *)
KeepsThePromise == Promise!Spec
=============================================================================
