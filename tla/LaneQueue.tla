----------------------------- MODULE LaneQueue -----------------------------
(***************************************************************************)
(* A first-in, first-out lane on the completion seam, with its one worker  *)
(* and the window thread that asks it and drains it:                       *)
(* crates/bt-app/src/lane.rs, Queue, over the ledger of LaneBook.          *)
(*                                                                         *)
(* Two threads.  The window thread asks, withdraws, replaces, lets go and  *)
(* drains; the worker takes jobs, runs them, publishes and wakes.  They    *)
(* share the line (its own mutex and a condition variable), the ledger's   *)
(* book (its mutex: one step is one hold of it) and the wake, an event in  *)
(* the window thread's queue.  The line's mutex is held over several steps *)
(* only by a request being asked: see LineLocked.                          *)
(*                                                                         *)
(* The lanes that use the queue differ in their policies, of which the     *)
(* lane modelled has one set: the clipboard lane's worker asks the ledger  *)
(* whether a job is still owed before it begins it (checksOwed) and its    *)
(* window withdraws and replaces requests (withdraws); the computation     *)
(* lane's drain takes a superseded terminal past its mark (takesPast).  A  *)
(* sink's call and the lines said are part of the step that releases them  *)
(* here; LaneLedger takes them apart.                                      *)
(***************************************************************************)
EXTENDS LaneBook, Sequences

CONSTANTS Policies,              \* the policies of each lane that uses the queue
          NoWindow

ASSUME QueueAssumption ==
    \A l \in DOMAIN Policies :
        LET policy == Policies[l]
        IN  /\ policy.jobs # {} /\ NoWindow \notin policy.windows
            /\ {policy.checksOwed, policy.withdraws, policy.takesPast} \subseteq BOOLEAN
            /\ policy.relate \in
                   [policy.jobs \X policy.jobs -> {"Other", "Same", "Displaces"}]

(* A lane that withdraws relates no job to another: a withdrawal owes no   *)
(* wake, and neither what had joined the request withdrawn nor what waits, *)
(* past a mark, for it to end would be come to.  The clipboard lane, the   *)
(* one that withdraws, asks with the relation Other alone.                 *)
ASSUME WithdrawsAlone ==
    \A l \in DOMAIN Policies :
        LET policy == Policies[l]
        IN  policy.withdraws =>
                \A waiting, asked \in policy.jobs : policy.relate[waiting, asked] = "Other"

VARIABLES
    lane,       \* the lane that uses this queue: never changed
    book,       \* the ledger's book
    line,       \* Line.waiting: what is admitted and not yet taken, as [id, job]
    closed,     \* Line.closed: the lane's owner has let it go
    app,        \* where the window thread is in the call it makes
    hand,       \* that call's window, job, identity and whether it owes a wake
    worker,     \* where the worker is
    current,    \* the identity the worker has taken from the line
    ringing,    \* whether a wake is in the window thread's event queue
    mark,       \* the drain's mark
    todo,       \* the windows the drain has not come to yet
    basket,     \* the identities this drain has taken
    pocket,     \* terminals taken on replacement, to be answered in their turn
    holder,     \* the window that asked for each identity
    shown       \* history: the answers given to the windows, in order

lineVars   == <<lane, line, closed>>
appVars    == <<app, hand, holder>>
drainVars  == <<mark, todo, basket, pocket, shown>>
workVars   == <<worker, current>>
vars == <<book, lineVars, appVars, drainVars, workVars, ringing>>

Jobs    == Policies[lane].jobs       \* what may be asked
Windows == Policies[lane].windows    \* the targets that hold requests
Relate(waiting, asked) == Policies[lane].relate[waiting, asked]
ChecksOwed == Policies[lane].checksOwed
Withdraws  == Policies[lane].withdraws
TakesSupersededPast == Policies[lane].takesPast

AppPlaces == {"idle", "asking", "displacing", "notifying", "waking", "withdrawing",
              "letting_go", "superseding", "taking", "draining", "dropped"}
WorkerPlaces == {"unstarted", "looking", "asleep", "taken", "running",
                 "waking", "announcing", "ended"}
NoHand == [window |-> NoWindow, job |-> CHOOSE j \in Jobs : TRUE, id |-> NoId, wake |-> FALSE]

TypeOK ==
    /\ lane \in DOMAIN Policies
    /\ book \in Books
    /\ line \in Seq([id : Ids, job : Jobs])
    /\ closed \in BOOLEAN
    /\ app \in AppPlaces
    /\ hand \in [window : Windows \cup {NoWindow}, job : Jobs,
                 id : Ids \cup {NoId}, wake : BOOLEAN]
    /\ worker \in WorkerPlaces
    /\ current \in Ids \cup {NoId}
    /\ ringing \in BOOLEAN
    /\ mark \in Ids \cup {NoId}
    /\ todo \in SUBSET Windows
    /\ basket \in SUBSET Ids /\ pocket \in SUBSET Ids
    /\ holder \in [Ids -> Windows \cup {NoWindow}]
    /\ shown \in Seq(Ids)

Init ==
    /\ lane \in DOMAIN Policies
    /\ book = EmptyBook
    /\ line = <<>> /\ closed = FALSE
    /\ app = "idle" /\ hand = NoHand
    /\ holder = [i \in Ids |-> NoWindow]
    /\ worker = "unstarted" /\ current = NoId
    /\ ringing = FALSE
    /\ mark = NoId /\ todo = {} /\ basket = {} /\ pocket = {} /\ shown = <<>>

-----------------------------------------------------------------------------
(* Queue::ask holds the line's lock from its start to the job in line, or  *)
(* to the refusal.                                                         *)
LineLocked == app \in {"asking", "displacing"}

InLine == {line[n].id : n \in 1..Len(line)}

(* Where a job is in line, and the first the asked one is related to: 0    *)
(* when there is none.                                                     *)
FirstOf(at) == IF at = {} THEN 0 ELSE CHOOSE n \in First(at) : TRUE
PlaceInLine(id) == FirstOf({n \in 1..Len(line) : line[n].id = id})
RelatedAt(job)  == FirstOf({n \in 1..Len(line) : Relate(line[n].job, job) # "Other"})

(* The line without its n-th job.                                          *)
LineWithout(n) ==
    IF n = 0 THEN line
    ELSE [k \in 1..(Len(line) - 1) |-> IF k < n THEN line[k] ELSE line[k + 1]]

RelationOf(job) == IF RelatedAt(job) = 0 THEN "Other" ELSE Relate(line[RelatedAt(job)].job, job)

(* The requests a window still holds: minted, not taken, not let go.       *)
Held == {i \in Entries(book) : ~book.gone[i] /\ holder[i] # NoWindow}

(* Queue::ask takes the lock and finds the worker started, or starts it.   *)
(* A start the thread door refuses refuses the request, says a line and    *)
(* leaves everything as it was: a stuttering step.                         *)
AskBegins(w, job) ==
    /\ app = "idle" /\ book.minted < MaxMinted
    /\ app' = "asking"
    /\ hand' = [NoHand EXCEPT !.window = w, !.job = job]
    /\ worker' = IF worker = "unstarted" THEN "looking" ELSE worker
    /\ UNCHANGED <<book, lineVars, holder, drainVars, current, ringing>>

(* The ledger refuses: the request is handed back, nothing minted.         *)
AskRefused ==
    /\ app = "asking"
    /\ LET with == IF RelationOf(hand.job) = "Same" THEN line[RelatedAt(hand.job)].id ELSE NoId
       IN  Refusal(book, with) # "none"
    /\ app' = "idle" /\ hand' = NoHand
    /\ UNCHANGED <<book, lineVars, holder, drainVars, workVars, ringing>>

(* The same operation as one waiting: joined to it, and not put in line.   *)
AskJoins ==
    /\ app = "asking" /\ RelationOf(hand.job) = "Same"
    /\ LET with == line[RelatedAt(hand.job)].id
       IN  Refusal(book, with) = "none" /\ book' = Admitted(book, with)
    /\ holder' = [holder EXCEPT ![NextId(book)] = hand.window]
    /\ app' = "idle" /\ hand' = NoHand
    /\ UNCHANGED <<lineVars, drainVars, workVars, ringing>>

(* Related to none: its job goes to the back of the line.                  *)
AskQueues ==
    /\ app = "asking" /\ RelationOf(hand.job) = "Other"
    /\ Refusal(book, NoId) = "none"
    /\ book' = Admitted(book, NoId)
    /\ holder' = [holder EXCEPT ![NextId(book)] = hand.window]
    /\ line' = Append(line, [id |-> NextId(book), job |-> hand.job])
    /\ app' = "notifying"
    /\ UNCHANGED <<lane, closed, hand, drainVars, workVars, ringing>>

(* A newer, different operation: admitted first, ...                       *)
AskDisplaces ==
    /\ app = "asking" /\ RelationOf(hand.job) = "Displaces"
    /\ Refusal(book, NoId) = "none"
    /\ book' = Admitted(book, NoId)
    /\ holder' = [holder EXCEPT ![NextId(book)] = hand.window]
    /\ hand' = [hand EXCEPT !.id = NextId(book)]
    /\ app' = "displacing"
    /\ UNCHANGED <<lineVars, drainVars, workVars, ringing>>

(* ... then the waiting one leaves the line and ends Superseded by it, if  *)
(* the worker's end has not ended it meanwhile.                            *)
Displace ==
    /\ app = "displacing"
    /\ LET displaced == line[RelatedAt(hand.job)].id
       IN  /\ line' = Append(LineWithout(RelatedAt(hand.job)), [id |-> hand.id, job |-> hand.job])
           /\ book' = IF PublishAccepted(book, displaced)
                      THEN Published(book, displaced, Superseded(hand.id))
                      ELSE book
    /\ hand' = [hand EXCEPT !.wake = TRUE]
    /\ app' = "notifying"
    /\ UNCHANGED <<lane, closed, holder, drainVars, workVars, ringing>>

(* After the unlock: the condition variable, then, for a displacement, the *)
(* wake.                                                                   *)
Notify ==
    /\ app = "notifying"
    /\ worker' = IF worker = "asleep" THEN "looking" ELSE worker
    /\ app' = IF hand.wake THEN "waking" ELSE "idle"
    /\ hand' = IF hand.wake THEN hand ELSE NoHand
    /\ UNCHANGED <<book, lineVars, holder, drainVars, current, ringing>>

WakeSelf ==
    /\ app = "waking"
    /\ ringing' = TRUE
    /\ app' = "idle" /\ hand' = NoHand
    /\ UNCHANGED <<book, lineVars, holder, drainVars, workVars>>

-----------------------------------------------------------------------------
(* Queue::withdraw: the job out of line under the line's lock, then the    *)
(* terminal published.  The clipboard lane then lets the request go        *)
(* (withdraw), or takes its terminal to answer it in its turn              *)
(* (supersede_and_take).                                                   *)

WithdrawBegins(id) ==
    /\ Withdraws /\ app = "idle" /\ id \in Held
    /\ line' = LineWithout(PlaceInLine(id))
    /\ hand' = [NoHand EXCEPT !.id = id]
    /\ app' \in IF id < book.minted THEN {"withdrawing", "superseding"} ELSE {"withdrawing"}
    /\ UNCHANGED <<book, lane, closed, holder, drainVars, workVars, ringing>>

PublishedByAsker(t) ==
    book' = IF PublishAccepted(book, hand.id) THEN Published(book, hand.id, t) ELSE book

WithdrawEnds ==
    /\ app = "withdrawing"
    /\ PublishedByAsker(Cancelled)
    /\ app' = "letting_go"
    /\ UNCHANGED <<lineVars, hand, holder, drainVars, workVars, ringing>>

WithdrawLetsGo ==
    /\ app = "letting_go"
    /\ book' = Dropped(book, hand.id)
    /\ app' = "idle" /\ hand' = NoHand
    /\ UNCHANGED <<lineVars, holder, drainVars, workVars, ringing>>

SupersedeEnds ==
    /\ app = "superseding"
    /\ PublishedByAsker(Superseded(book.minted))
    /\ app' = "taking"
    /\ UNCHANGED <<lineVars, hand, holder, drainVars, workVars, ringing>>

SupersedeTakes ==
    /\ app = "taking" /\ hand.id \in Kept(book)
    /\ book' = Taken(book, hand.id)
    /\ pocket' = pocket \cup {hand.id}
    /\ app' = "idle" /\ hand' = NoHand
    /\ UNCHANGED <<lineVars, holder, mark, todo, basket, shown, workVars, ringing>>

(* A window closes, or the drain finds an asker gone: its request dropped. *)
LetGo(id) ==
    /\ app \in {"idle", "dropped"} /\ id \in Held
    /\ book' = Dropped(book, id)
    /\ UNCHANGED <<lineVars, appVars, drainVars, workVars, ringing>>

(* The lane's owner lets the lane go (Queue::close, Drop of the lane):     *)
(* nothing is asked after it, and what is held goes to the sink.           *)
Close ==
    /\ app = "idle"
    /\ closed' = TRUE
    /\ app' = "dropped"
    /\ worker' = IF worker = "asleep" THEN "looking" ELSE worker
    /\ pocket' = {}
    /\ UNCHANGED <<book, lane, line, hand, holder, mark, todo, basket, shown, current, ringing>>

-----------------------------------------------------------------------------
(* The drain, on the wake's turn: the mark read once, then each window's   *)
(* terminals below it taken, in the order they were minted; what was taken *)
(* is answered at the end, one after another, in admission order across    *)
(* the windows (in_admission_order).                                       *)

DrainBegins ==
    /\ app = "idle" /\ ringing
    /\ ringing' = FALSE
    /\ mark' = EarliestOwed(book)
    /\ todo' = Windows
    /\ app' = "draining"
    /\ UNCHANGED <<book, lineVars, hand, holder, basket, pocket, shown, workVars>>

(* The drain without its mark.                                             *)
MayTakeUnmarked(i) == TRUE

MayTake(i) ==
    \/ Below(mark, i)
    \/ TakesSupersededPast /\ book.terminal[i].kind = "Superseded"
                           /\ book.terminal[i].with = NoId

Takeable(w) ==
    {i \in Held : i \in Kept(book) /\ holder[i] = w /\ MayTake(i)}

DrainTakes(w) ==
    /\ app = "draining" /\ w \in todo
    /\ \E i \in Takeable(w) :
          /\ \A j \in Takeable(w) : i <= j
          /\ book' = Taken(book, i)
          /\ basket' = basket \cup {i}
    /\ UNCHANGED <<lineVars, appVars, mark, todo, pocket, shown, workVars, ringing>>

DrainLeaves(w) ==
    /\ app = "draining" /\ w \in todo
    /\ Takeable(w) = {}
    /\ LET turned == {i \in pocket : holder[i] = w /\ Below(mark, i)}
       IN  basket' = basket \cup turned /\ pocket' = pocket \ turned
    /\ todo' = todo \ {w}
    /\ UNCHANGED <<book, lineVars, appVars, mark, shown, workVars, ringing>>

(* What carries an answer or a failure; a supersession reaches no surface. *)
Answers(ids) == {i \in ids : book.terminal[i].kind # "Superseded"}

(* The next in admission order, answered in the window that asked.         *)
DrainAnswers ==
    /\ app = "draining" /\ todo = {}
    /\ \E i \in First(Answers(basket)) :
          /\ shown' = Append(shown, i)
          /\ basket' = basket \ {i}
    /\ UNCHANGED <<book, lineVars, appVars, mark, todo, pocket, workVars, ringing>>

(* Ended with the wake it heard, and those that came while it ran.         *)
DrainEndsDeaf ==
    /\ app = "draining" /\ todo = {} /\ Answers(basket) = {}
    /\ basket' = {} /\ mark' = NoId
    /\ app' = "idle" /\ ringing' = FALSE
    /\ UNCHANGED <<book, lineVars, hand, holder, todo, pocket, shown, workVars>>

DrainEnds ==
    /\ app = "draining" /\ todo = {} /\ Answers(basket) = {}
    /\ basket' = {} /\ mark' = NoId
    /\ app' = "idle"
    /\ UNCHANGED <<book, lineVars, hand, holder, todo, pocket, shown, workVars, ringing>>

-----------------------------------------------------------------------------
(* The worker: Queue::next, Queue::serve and run_clipboard_lane.           *)

Pop ==
    /\ worker = "looking" /\ ~LineLocked /\ line # <<>>
    /\ current' = Head(line).id
    /\ line' = Tail(line)
    /\ worker' = "taken"
    /\ UNCHANGED <<book, lane, closed, appVars, drainVars, ringing>>

Sleep ==
    /\ worker = "looking" /\ ~LineLocked /\ line = <<>> /\ ~closed
    /\ worker' = "asleep"
    /\ UNCHANGED <<book, lineVars, appVars, drainVars, current, ringing>>

(* A condition variable may wake its waiter for no reason.                 *)
Stir ==
    /\ worker = "asleep"
    /\ worker' = "looking"
    /\ UNCHANGED <<book, lineVars, appVars, drainVars, current, ringing>>

(* Dropped without asking the ledger.                                      *)
SkipUnasked ==
    /\ worker = "taken" /\ ChecksOwed
    /\ worker' = "looking" /\ current' = NoId
    /\ UNCHANGED <<book, lineVars, appVars, drainVars, ringing>>

(* Ended already, by its asker: dropped before its work.                   *)
Skip ==
    /\ worker = "taken" /\ ChecksOwed /\ current \notin Owed(book)
    /\ worker' = "looking" /\ current' = NoId
    /\ UNCHANGED <<book, lineVars, appVars, drainVars, ringing>>

Begin ==
    /\ worker = "taken" /\ (ChecksOwed => current \in Owed(book))
    /\ worker' = "running"
    /\ UNCHANGED <<book, lineVars, appVars, drainVars, current, ringing>>

(* The task's answer, its error or its panic; dropped when it comes late.  *)
Publish ==
    /\ worker = "running"
    /\ \E t \in {Done} \cup {Failed(w) : w \in Words} :
          book' = IF PublishAccepted(book, current) THEN Published(book, current, t) ELSE book
    /\ worker' = "waking" /\ current' = NoId
    /\ UNCHANGED <<lineVars, appVars, drainVars, ringing>>

Wake ==
    /\ worker = "waking"
    /\ ringing' = TRUE
    /\ worker' = "looking"
    /\ UNCHANGED <<book, lineVars, appVars, drainVars, current>>

(* The end reported, and the consumer not woken.                           *)
EndsSilently(cause) ==
    /\ book' = WorkerEnded(book, cause)
    /\ worker' = "ended"
    /\ current' = NoId
    /\ UNCHANGED <<lineVars, appVars, drainVars, ringing>>

(* The worker's end, reported to the ledger: its body returned from a lane *)
(* let go with nothing in line, or panicked outside any task.  The wake is *)
(* owed when it left anything owed, and comes after the terminals.         *)
Ends(cause) ==
    /\ book' = WorkerEnded(book, cause)
    /\ worker' = IF Owed(book) = {} THEN "ended" ELSE "announcing"
    /\ current' = NoId
    /\ UNCHANGED <<lineVars, appVars, drainVars, ringing>>

Return == worker = "looking" /\ ~LineLocked /\ line = <<>> /\ closed /\ Ends("Returned")

(* A panic outside any task, before one begins or between two; publishing  *)
(* and waking are taken not to panic.                                      *)
Panic == worker \in {"looking", "taken"} /\ Ends("Panicked")

Announce ==
    /\ worker = "announcing"
    /\ ringing' = TRUE
    /\ worker' = "ended"
    /\ UNCHANGED <<book, lineVars, appVars, drainVars, current>>

-----------------------------------------------------------------------------
(* What the window thread does of its own accord, and what it goes on with *)
(* once begun.                                                             *)
AppChooses ==
    \/ \E w \in Windows, job \in Jobs : AskBegins(w, job)
    \/ \E id \in Ids : WithdrawBegins(id) \/ LetGo(id)
    \/ Close

AppGoesOn ==
    \/ AskRefused \/ AskJoins \/ AskQueues \/ AskDisplaces \/ Displace
    \/ Notify \/ WakeSelf
    \/ WithdrawEnds \/ WithdrawLetsGo \/ SupersedeEnds \/ SupersedeTakes
    \/ DrainBegins \/ DrainAnswers \/ DrainEnds
    \/ \E w \in Windows : DrainTakes(w) \/ DrainLeaves(w)

WorkerGoesOn == Pop \/ Sleep \/ Skip \/ Begin \/ Publish \/ Wake \/ Return \/ Announce

Next == AppChooses \/ AppGoesOn \/ WorkerGoesOn \/ Stir \/ Panic

(* A thread that can run runs, a task ends, and the event loop's queue is  *)
(* served in order, so a wake in it is come to between two asks however    *)
(* often the window asks.  In the same way a worker waiting for the line's *)
(* lock gets it between two asks.  What is held when the lane is dropped   *)
(* is dropped with it.                                                     *)
Fairness ==
    /\ WF_vars(AppGoesOn)
    /\ SF_vars(DrainBegins)
    /\ SF_vars(Pop)
    /\ WF_vars(WorkerGoesOn)
    /\ WF_vars(app = "dropped" /\ \E id \in Ids : LetGo(id))

Spec == Init /\ [][Next]_vars
FairSpec == Spec /\ Fairness

-----------------------------------------------------------------------------
(* What the lane keeps true.                                               *)

(* No operation is stranded: whatever is owed is in line, with the worker, *)
(* or in the hand of the call that admitted or is ending it (ask, next,    *)
(* withdraw).                                                              *)
OwedIsReachable ==
    Operations(book) \subseteq InLine
        \cup (IF worker \in {"taken", "running"} THEN {current} ELSE {})
        \cup (IF app \in {"displacing", "withdrawing", "superseding"} THEN {hand.id} ELSE {})

(* The answers reach the windows in the order their requests were          *)
(* admitted, whatever the worker did while each drain read its windows     *)
(* (Mark; in_admission_order).                                             *)
AnswersInOrder == \A m, n \in 1..Len(shown) : m < n => shown[m] < shown[n]

(* No answer is missed.  When the window thread waits for an event and     *)
(* none is on its way, and the worker waits for a job or is not there,     *)
(* every request has come to its window or its sink, and no answer taken   *)
(* on a replacement is left behind: whichever thread ended a request, in   *)
(* whatever order with a drain, the wake that follows brings the window to *)
(* every terminal its mark left (Queue::ask, serve, drain; C2).            *)
WindowRests == app = "idle" /\ ~ringing
WorkerRests == worker \in {"unstarted", "asleep", "ended"}

NoAnswerIsMissed ==
    WindowRests /\ WorkerRests => Entries(book) = {} /\ Answers(basket \cup pocket) = {}

(* Every request admitted ends, whatever displaces, joins or withdraws it  *)
(* and whether or not the worker dies, and its terminal is taken by the    *)
(* window that holds it, or sunk: the wake follows the publication (C1,    *)
(* C2).                                                                    *)
RequestsAreAnswered == \A i \in Ids : i \in Entries(book) ~> i \notin Entries(book)

-----------------------------------------------------------------------------
(* The lane implements the seam's promise.                                 *)

StageOf(i) ==
    CASE book.place[i] = "unminted" -> "unasked"
      [] book.place[i] = "kept"     -> "ended"
      [] book.place[i] = "taken"    -> "answered"
      [] OTHER                      -> book.place[i]

Promise == INSTANCE Completion WITH
    Outcomes  <- {Done, Cancelled} \cup {Failed(w) : w \in Words}
                    \cup {Superseded(by) : by \in Ids},
    Gone      <- WorkerGone,
    NoOutcome <- Unended,
    minted    <- book.minted,
    open      <- book.fault = NoFault,
    stage     <- [i \in Ids |-> StageOf(i)],
    held      <- [i \in Ids |-> ~book.gone[i]],
    outcome   <- [i \in Ids |-> Outcome(book.terminal[i])]

(* Every request admitted ends exactly once and reaches exactly one        *)
(* reader, once.                                                           *)
KeepsThePromise == Promise!Spec
=============================================================================
