---------------------------- MODULE SessionWriter ----------------------------
(***************************************************************************)
(* The session document (session.json) and its sentinel (session.lock):    *)
(* crates/bt-app/src/persist.rs, SessionStore and SessionWriter, with the  *)
(* quit's session write of main.rs and quit.rs and the system's end of the *)
(* session of session_end.rs.                                              *)
(*                                                                         *)
(* The threads: the window thread, which records changes, hands documents  *)
(* over, reads receipts, and waits for one only on the way out; and the    *)
(* storage worker, which writes one document at a time and answers each    *)
(* with a receipt.  The system parks its news on the window procedure's    *)
(* stack, between any two of the window thread's turns; all that is parked *)
(* is settled in one turn, which dispatches no message of the system's.    *)
(*                                                                         *)
(* A document is the number of changes it holds.  The other storage jobs   *)
(* of the lane are not modelled.  The process is the writer of record, no  *)
(* update's trial is on, and the sentinel can always be created.  A        *)
(* process that dies does so in any state of a behaviour, so what holds in *)
(* every state is what the next start finds.                               *)
(***************************************************************************)
EXTENDS Naturals, Sequences

CONSTANTS MaxChanges,
          MaxFaults,  \* refusals of the disk and of the system, and bounds run out
          MaxNews,    \* what the system says
          MaxQuits

ASSUME SessionAssumption == {MaxChanges, MaxFaults, MaxNews, MaxQuits} \subseteq Nat

VARIABLES
    session,  \* the document in memory
    store,    \* SessionStore, with its SessionWriter
    lane,     \* StorageLane: the queue, the worker and its receipts
    disk,     \* the document session.json holds
    run,      \* where the process is
    wait,     \* what the window thread stands still for
    held,     \* whether the system's end holds the document
    settled,  \* whether this span's question is settled
    inbox,    \* the system's news not settled yet
    settling, \* whether the turn that settles it is under way
    armed,    \* whether this run's sentinel stands, as far as it knows
    toRearm,  \* whether it went for the system's end
    vouched,  \* history: whether this run removed its sentinel and left it so
    lost,     \* history: a document was let go of without a landing
    changes, faults, news, quits  \* counted against the bounds

system   == <<held, settled, inbox, settling>>
sentinel == <<armed, toRearm, vouched>>
bounds   == <<changes, faults, news, quits>>
vars     == <<session, store, lane, disk, run, wait, system, sentinel, lost, bounds>>

-----------------------------------------------------------------------------
Answers == [generation : Nat, landed : BOOLEAN]
NoAnswer == [generation |-> 0, landed |-> FALSE]

Opened ==
    [dirty |-> FALSE, retry |-> FALSE, again |-> FALSE,
     sent |-> 0, landed |-> 0, answered |-> NoAnswer, ended |-> FALSE, stalled |-> FALSE]

Owes(s)     == s.dirty \/ s.retry \/ s.again
InFlight(s) == s.sent > s.landed
Served      == lane.worker = "running"
Busy(s)     == InFlight(s) /\ Served

Fault ==
    /\ faults < MaxFaults
    /\ faults' = faults + 1

(* A mutant: a stale receipt answers for the document too.                 *)
AppliedStale(s, receipt) ==
    [s EXCEPT !.landed = IF @ < receipt.generation THEN receipt.generation ELSE @,
              !.answered = receipt, !.retry = ~receipt.landed]

(* A receipt, the newest one answering for the document; an older one is   *)
(* stale.                                                                  *)
Applied(s, receipt) ==
    LET heard == [s EXCEPT !.landed = IF @ < receipt.generation THEN receipt.generation ELSE @]
    IN IF receipt.generation < s.sent THEN heard
       ELSE [heard EXCEPT !.answered = receipt, !.retry = ~receipt.landed]

(* take_receipts: every one that came, and the worker's end after them.    *)
HeardAll(s) ==
    LET all[n \in 0..Len(lane.receipts)] ==
            IF n = 0 THEN s ELSE Applied(all[n - 1], lane.receipts[n])
    IN all[Len(lane.receipts)]

Ends(s) ==
    LET gone == [s EXCEPT !.ended = TRUE]
    IN IF InFlight(gone) THEN Applied(gone, [generation |-> gone.sent, landed |-> FALSE])
       ELSE gone

Taken(s) == IF lane.worker = "ended" THEN Ends(HeardAll(s)) ELSE HeardAll(s)

Read(l) == [l EXCEPT !.receipts = <<>>]

(* send_to_the_writer: admitted, by a worker started for it if there was   *)
(* none; or refused at the door, and owed to the next trigger.             *)
Sending(s) == [s EXCEPT !.dirty = FALSE, !.again = FALSE, !.retry = FALSE]

Sent(s) == [Sending(s) EXCEPT !.sent = @ + 1]

Admits(s, l) ==
    [l EXCEPT !.worker = "running",
              !.queue = Append(@, [generation |-> s.sent + 1, document |-> session])]

RefusedAtTheDoor(s) == [Sending(s) EXCEPT !.retry = TRUE]

(* The newest document's answer, come and not read.                        *)
Arrived == {n \in 1..Len(lane.receipts) : lane.receipts[n].generation = store.sent}

DoorRefuses ==
    \/ lane.worker = "ended" /\ UNCHANGED faults
    \/ lane.worker = "waiting" /\ Fault

-----------------------------------------------------------------------------
(* The storage worker.                                                     *)
Job == Head(lane.queue)

WorkerWrites ==
    /\ lane.worker = "running" /\ lane.queue # <<>> /\ lane.step = "idle"
    /\ disk' = Job.document
    /\ lane' = [lane EXCEPT !.step = "landed"]
    /\ UNCHANGED <<session, store, run, wait, system, sentinel, lost, bounds>>

WorkerFails ==
    /\ lane.worker = "running" /\ lane.queue # <<>> /\ lane.step = "idle"
    /\ Fault
    /\ lane' = [lane EXCEPT !.step = "refused"]
    /\ UNCHANGED <<session, store, disk, run, wait, system, sentinel, lost, changes, news, quits>>

WorkerAnswers ==
    /\ lane.worker = "running" /\ lane.step # "idle"
    /\ lane' = [lane EXCEPT !.step = "idle", !.queue = Tail(@),
                            !.receipts = Append(@, [generation |-> Job.generation,
                                                    landed |-> lane.step = "landed"])]
    /\ UNCHANGED <<session, store, disk, run, wait, system, sentinel, lost, bounds>>

(* Its end: nothing is left of a closed queue, or its body has panicked.   *)
WorkerEnds ==
    /\ lane.worker = "running"
    /\ \/ ~lane.open /\ lane.queue = <<>> /\ UNCHANGED faults
       \/ Fault
    /\ lane' = [lane EXCEPT !.worker = "ended", !.step = "idle", !.queue = <<>>]
    /\ UNCHANGED <<session, store, disk, run, wait, system, sentinel, lost, changes, news, quits>>

-----------------------------------------------------------------------------
(* The window thread's turns.                                              *)
AtRest == wait = "none" /\ run \in {"running", "receipt", "left"}
Idle   == AtRest /\ ~settling
Frozen == held \/ run # "running"

Record ==
    /\ Idle /\ ~Frozen /\ changes < MaxChanges
    /\ changes' = changes + 1
    /\ session' = session + 1
    /\ store' = [store EXCEPT !.dirty = TRUE]
    /\ UNCHANGED <<lane, disk, run, wait, system, sentinel, lost, faults, news, quits>>

(* hand_over, of the quiet window's end, of the pending slot, and of a     *)
(* storage pass.                                                           *)
HandOver ==
    \/ /\ Busy(store)
       /\ store' = [store EXCEPT !.dirty = FALSE, !.again = TRUE]
       /\ UNCHANGED <<lane, lost, faults>>
    \/ /\ ~Busy(store) /\ lane.worker # "ended"
       /\ store' = Sent(store)
       /\ lane' = Admits(store, lane)
       /\ UNCHANGED <<lost, faults>>
    \/ /\ ~Busy(store) /\ DoorRefuses
       /\ store' = RefusedAtTheDoor(store)
       /\ lost' = (lost \/ Arrived # {})
       /\ UNCHANGED lane

(* A mutant: the pending slot waits for a change.                          *)
FlushWhenDirty ==
    /\ Idle /\ store.dirty
    /\ HandOver
    /\ UNCHANGED <<session, disk, run, wait, system, sentinel, changes, news, quits>>

FlushIfDue ==
    /\ Idle
    /\ store.dirty \/ (store.again /\ ~Busy(store))
    /\ HandOver
    /\ UNCHANGED <<session, disk, run, wait, system, sentinel, changes, news, quits>>

HearTheStoragePass ==
    /\ Idle /\ store.retry /\ ~store.dirty
    /\ HandOver
    /\ UNCHANGED <<session, disk, run, wait, system, sentinel, changes, news, quits>>

TakeReceipts ==
    /\ Idle
    /\ lane.receipts # <<>> \/ (lane.worker = "ended" /\ ~store.ended)
    /\ store' = Taken(store)
    /\ lane' = Read(lane)
    /\ UNCHANGED <<session, disk, run, wait, system, sentinel, lost, bounds>>

-----------------------------------------------------------------------------
(* What a judged write decides, once its verdict is known: a quit leaves,  *)
(* or is abandoned; the system's end drops the sentinel; the close goes on *)
(* to retire the writer, its verdict heard by nobody.                      *)
Decided(for, verdict) ==
    /\ wait' = IF for = "close" THEN "retire" ELSE "none"
    /\ CASE for = "quit" ->
              /\ run' = IF verdict = "refused" THEN "running" ELSE "left"
              /\ UNCHANGED <<sentinel, lost>>
         [] for = "end" ->
              /\ IF verdict = "landed" /\ armed
                 THEN armed' = FALSE /\ toRearm' = TRUE /\ vouched' = TRUE
                 ELSE UNCHANGED sentinel
              /\ UNCHANGED <<run, lost>>
         [] for = "close" ->
              /\ lost' = (lost \/ verdict = "refused")
              /\ UNCHANGED <<run, sentinel>>

(* wait_for_landing of the newest document: at once if a wait has run out  *)
(* before, and otherwise its verdict is a later step.                      *)
TimedOut(s) ==
    Applied([s EXCEPT !.stalled = TRUE], [generation |-> s.sent, landed |-> FALSE])

WaitsFor(for, s) ==
    IF s.stalled
    THEN store' = TimedOut(s) /\ Decided(for, "timed out")
    ELSE store' = s /\ wait' = for /\ UNCHANGED <<run, sentinel, lost>>

Send(for) ==    \* the document as it stands, judged
    LET s == Taken(store)
    IN \/ /\ lane.worker # "ended"
          /\ lane' = Admits(s, Read(lane))
          /\ WaitsFor(for, Sent(s))
          /\ UNCHANGED faults
       \/ /\ DoorRefuses
          /\ lane' = Read(lane)
          /\ store' = RefusedAtTheDoor(s)
          /\ Decided(for, "refused")

FlushJudged(for) ==
    LET s == Taken(store)
    IN \/ Owes(s) /\ Send(for)
       \/ /\ ~Owes(s)
          /\ lane' = Read(lane)
          /\ IF InFlight(s) THEN WaitsFor(for, s)
             ELSE store' = s /\ Decided(for, "landed")
          /\ UNCHANGED faults

(* The wait's end: the receipt; the bound; the worker's end.               *)
WaitHears ==
    /\ wait \in {"quit", "end", "close"}
    /\ \E n \in Arrived :
          /\ store' = Applied(store, lane.receipts[n])
          /\ Decided(wait, IF lane.receipts[n].landed THEN "landed" ELSE "refused")
    /\ lane' = Read(lane)
    /\ UNCHANGED <<session, disk, system, bounds>>

WaitRunsOut ==
    /\ wait \in {"quit", "end", "close"} /\ Arrived = {}
    /\ Fault
    /\ store' = TimedOut(store)
    /\ lane' = Read(lane)
    /\ Decided(wait, "timed out")
    /\ UNCHANGED <<session, disk, system, changes, news, quits>>

WaitFindsNoWorker ==
    /\ wait \in {"quit", "end", "close"} /\ Arrived = {} /\ lane.worker = "ended"
    /\ store' = Applied([store EXCEPT !.ended = TRUE], [generation |-> store.sent, landed |-> FALSE])
    /\ lane' = Read(lane)
    /\ Decided(wait, "refused")
    /\ UNCHANGED <<session, disk, system, bounds>>

-----------------------------------------------------------------------------
(* A quit's session write: judged, or given up because the quit's bound is *)
(* spent; or, for an update, handed over and its receipt looked for on     *)
(* later turns.                                                            *)
QuitAsked ==
    /\ Idle /\ run = "running" /\ quits < MaxQuits
    /\ quits' = quits + 1

QuitWrites ==
    /\ QuitAsked
    /\ FlushJudged("quit")
    /\ UNCHANGED <<session, disk, system, changes, news>>

QuitGivesUp ==
    /\ QuitAsked
    /\ Fault
    /\ LET s == Taken(store)
           owes == Owes(s) \/ InFlight(s)
       IN /\ store' = IF owes THEN [Sending(s) EXCEPT !.stalled = TRUE] ELSE s
          /\ lost' = (lost \/ owes)
    /\ lane' = Read(lane)
    /\ run' = "left"
    /\ UNCHANGED <<session, disk, wait, system, sentinel, changes, news>>

UpdateQuitSends ==    \* hand_over_final
    /\ QuitAsked
    /\ LET s == Taken(store)
       IN \/ /\ lane.worker # "ended"
             /\ lane' = Admits(s, Read(lane))
             /\ store' = Sent(s)
             /\ run' = "receipt"
             /\ UNCHANGED faults
          \/ /\ DoorRefuses
             /\ lane' = Read(lane)
             /\ store' = RefusedAtTheDoor(s)
             /\ UNCHANGED run
    /\ UNCHANGED <<session, disk, wait, system, sentinel, lost, changes, news>>

UpdateQuitHears ==    \* landing_of
    /\ Idle /\ run = "receipt"
    /\ LET s == Taken(store)
       IN /\ s.answered.generation = s.sent \/ s.ended
          /\ store' = s
          /\ run' = IF s.answered.generation = s.sent /\ s.answered.landed
                    THEN "left" ELSE "running"
    /\ lane' = Read(lane)
    /\ UNCHANGED <<session, disk, wait, system, sentinel, lost, bounds>>

UpdateQuitOverdue ==    \* receipt_overdue
    /\ Idle /\ run = "receipt"
    /\ LET s == Taken(store) IN s.answered.generation # s.sent /\ ~s.ended
    /\ Fault
    /\ store' = TimedOut(Taken(store))
    /\ lane' = Read(lane)
    /\ run' = "left"
    /\ UNCHANGED <<session, disk, wait, system, sentinel, lost, changes, news, quits>>

-----------------------------------------------------------------------------
(* The system ends the session, or takes it back; each is settled on a     *)
(* turn of the window thread, in the order it was said.                    *)
SpanOpen == held /\ (inbox # <<>> => inbox[Len(inbox)] = "asked")

Says(what) ==
    /\ Idle /\ news < MaxNews
    /\ news' = news + 1
    /\ inbox' = Append(inbox, what)
    /\ held' = (held \/ what = "asked")
    /\ UNCHANGED <<session, store, lane, disk, run, wait, settled, settling, sentinel, lost,
                   changes, faults, quits>>

SystemAsks == Says("asked")

SystemTakesBack == SpanOpen /\ Says("taken back")

Settle(what) ==
    /\ AtRest /\ inbox # <<>> /\ Head(inbox) = what
    /\ inbox' = Tail(inbox) /\ settling' = (inbox' # <<>>)

SettleAsked ==
    /\ Settle("asked")
    /\ IF run # "running" \/ settled
       THEN UNCHANGED <<settled, store, lane, wait, run, sentinel, lost, faults>>
       ELSE settled' = TRUE /\ Send("end")
    /\ UNCHANGED <<session, disk, held, changes, news, quits>>

SettleTakenBack ==    \* and what changed under the hold is recorded
    /\ Settle("taken back")
    /\ settled' = FALSE
    /\ held' = (inbox' # <<>> /\ inbox'[Len(inbox')] = "asked")
    /\ toRearm' = FALSE
    /\ armed' = (armed \/ toRearm) /\ vouched' = (vouched /\ ~toRearm)
    /\ LET s == Taken(store)
           waits == s.stalled /\ s.ended
       IN \/ store' = [s EXCEPT !.stalled = waits] /\ UNCHANGED <<session, changes>>
          \/ /\ ~held' /\ run = "running" /\ changes < MaxChanges
             /\ changes' = changes + 1 /\ session' = session + 1
             /\ store' = [s EXCEPT !.stalled = waits, !.dirty = TRUE]
    /\ lane' = Read(lane)
    /\ UNCHANGED <<disk, run, wait, lost, faults, news, quits>>

-----------------------------------------------------------------------------
(* The close: the last window's, or a quit's that leaves.                  *)
Close ==
    /\ Idle /\ run # "receipt"
    /\ FlushJudged("close")
    /\ UNCHANGED <<session, disk, system, changes, news, quits>>

Retire ==    \* the queue closed; with no worker to wait for, the end of it
    /\ wait = "retire" /\ lane.open
    /\ lane' = [lane EXCEPT !.open = FALSE]
    /\ UNCHANGED <<session, store, disk, run, wait, system, sentinel, lost, bounds>>

(* A mutant: the sentinel goes though a wait has run out.                  *)
ClosedAnyway(s) ==
    /\ store' = s
    /\ run' = "closed" /\ wait' = "none"
    /\ armed' = FALSE /\ vouched' = (vouched \/ armed) /\ UNCHANGED toRearm
    /\ UNCHANGED <<session, lane, disk, system, lost, changes, news, quits>>

Closed(s) ==
    /\ store' = s
    /\ run' = "closed" /\ wait' = "none"
    /\ IF armed /\ ~s.stalled
       THEN armed' = FALSE /\ vouched' = TRUE /\ UNCHANGED toRearm
       ELSE UNCHANGED sentinel
    /\ UNCHANGED <<session, lane, disk, system, lost, changes, news, quits>>

Retired ==
    /\ wait = "retire" /\ ~lane.open
    /\ store.stalled \/ lane.worker # "running"
    /\ Closed(store)
    /\ UNCHANGED faults

RetireRunsOut ==
    /\ wait = "retire" /\ ~lane.open /\ ~store.stalled /\ lane.worker = "running"
    /\ Fault
    /\ Closed([store EXCEPT !.stalled = TRUE])

-----------------------------------------------------------------------------
Init ==
    /\ session = 0 /\ disk = 0
    /\ store = Opened
    /\ \E worker \in {"waiting", "running"} :
          lane = [worker |-> worker, open |-> TRUE, queue |-> <<>>, step |-> "idle",
                  receipts |-> <<>>]
    /\ run = "running" /\ wait = "none"
    /\ held = FALSE /\ settled = FALSE /\ inbox = <<>> /\ settling = FALSE
    /\ armed = TRUE /\ toRearm = FALSE /\ vouched = FALSE /\ lost = FALSE
    /\ changes = 0 /\ faults = 0 /\ news = 0 /\ quits = 0

Worker == WorkerWrites \/ WorkerAnswers \/ WorkerEnds
Turn   == FlushIfDue \/ TakeReceipts \/ UpdateQuitHears \/ SettleAsked \/ SettleTakenBack
Waits  == WaitHears \/ WaitFindsNoWorker \/ Retire \/ Retired
Bound  == WaitRunsOut \/ QuitGivesUp \/ UpdateQuitOverdue \/ RetireRunsOut
Person == Record \/ QuitWrites \/ UpdateQuitSends \/ Close

Next ==
    \/ Worker \/ WorkerFails
    \/ Turn \/ HearTheStoragePass \/ Waits \/ Bound
    \/ Person \/ SystemAsks \/ SystemTakesBack

(* A write returns, and the window thread's turns come: the worker wakes   *)
(* it after each receipt, the quiet window's end and the news wake it.     *)
Fairness ==
    /\ WF_vars(WorkerWrites \/ WorkerAnswers)
    /\ WF_vars(FlushIfDue) /\ WF_vars(TakeReceipts)
    /\ WF_vars(WaitHears \/ WaitFindsNoWorker)
    /\ WF_vars(SettleAsked \/ SettleTakenBack)

Spec     == Init /\ [][Next]_vars
FairSpec == Spec /\ Fairness

-----------------------------------------------------------------------------
(* What the store keeps.                                                   *)

Stores == [dirty : BOOLEAN, retry : BOOLEAN, again : BOOLEAN, sent : Nat, landed : Nat,
           answered : Answers, ended : BOOLEAN, stalled : BOOLEAN]

Documents == [generation : Nat, document : Nat]

Lanes == [worker : {"waiting", "running", "ended"}, open : BOOLEAN, queue : Seq(Documents),
          step : {"idle", "landed", "refused"}, receipts : Seq(Answers)]

TypeOK ==
    /\ session \in Nat /\ disk \in Nat
    /\ store \in Stores /\ store.landed <= store.sent
    /\ lane \in Lanes
    /\ run \in {"running", "receipt", "left", "closed"}
    /\ wait \in {"none", "quit", "end", "close", "retire"}
    /\ held \in BOOLEAN /\ settled \in BOOLEAN /\ settling \in BOOLEAN /\ armed \in BOOLEAN
    /\ toRearm \in BOOLEAN /\ vouched \in BOOLEAN /\ lost \in BOOLEAN
    /\ inbox \in Seq({"asked", "taken back"})
    /\ changes \in Nat /\ faults \in Nat /\ news \in Nat /\ quits \in Nat

(* A store that owes nothing and has nothing on its way has its document   *)
(* on disk: no stale receipt, pending slot or refusal lets one go (the     *)
(* doc of SessionWriter; take_receipts, owes_a_write); unless it let go of *)
(* one (see SentinelVouches).                                              *)
NothingOwedIsOnDisk == ~Owes(store) /\ ~InFlight(store) /\ ~lost => disk = session

(* "The sentinel's absence is this run's only claim to have exited         *)
(* cleanly, so it may not be removed until the document it is vouching for *)
(* is on the disk" (SessionStore::close).                                  *)
SentinelVouches == vouched => disk = session

(* The same of every document the store has not let go of: not given up by *)
(* a quit whose bound is spent, refused at the close, or refused at the    *)
(* door while the answer to the one before it waits to be read.            *)
SentinelVouchesUnlessLost == vouched => disk = session \/ lost

(* A change reaches the disk, or was refused and waits for a trigger, while*)
(* the run goes on and its waits have not run out (flush_if_due; "one      *)
(* autosave on the writer at a time").                                     *)
ChangesReachTheDisk ==
    (run = "running" /\ session # disk) ~>
        (session = disk \/ store.retry \/ store.stalled \/ lost \/ run # "running")
=============================================================================
