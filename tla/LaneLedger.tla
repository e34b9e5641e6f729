----------------------------- MODULE LaneLedger -----------------------------
(***************************************************************************)
(* A completion lane's ledger and the threads that call it:                *)
(* crates/bt-app/src/lane.rs, Ledger, Request and the executor's report.   *)
(*                                                                         *)
(* One action is one hold of the ledger's mutex.  What leaves the lock     *)
(* with it (struct Out: the failure lines and the terminals for sinks, and *)
(* for the worker's end the wake) is released by the same thread after the *)
(* unlock, step by step, while other threads use the ledger; until it has  *)
(* released them a thread calls nothing else.                              *)
(*                                                                         *)
(* A call the ledger refuses (a publication for an identity that has ended *)
(* or is joined, an admission at the bound, a take of nothing) changes     *)
(* nothing, and is a stuttering step.                                      *)
(***************************************************************************)
EXTENDS LaneBook

CONSTANTS Requesters,   \* the threads that ask, take and let go
          Worker        \* the lane's one worker thread

ASSUME ThreadAssumption == Worker \notin Requesters

Threads == Requesters \cup {Worker}

VARIABLES
    ledger,     \* its book, under the ledger's mutex
    life,       \* the worker's life: "unstarted", "running", "ended"
    out,        \* per thread, what it has yet to release
    said,       \* per identity, how many failure lines have been said for it
    sank,       \* the identities whose sink has been called
    woken       \* whether the ledger has woken its consumer

ledgerVars == <<ledger, life, out, said, sank, woken>>

Outs == [lines : SUBSET Ids, sunk : SUBSET Ids, wake : BOOLEAN]
Nothing == [lines |-> {}, sunk |-> {}, wake |-> FALSE]

LedgerTypeOK ==
    /\ ledger \in Books
    /\ life \in {"unstarted", "running", "ended"}
    /\ out \in [Threads -> Outs]
    /\ said \in [Ids -> Nat]
    /\ sank \in SUBSET Ids
    /\ woken \in BOOLEAN

LedgerInit ==
    /\ ledger = EmptyBook
    /\ life = "unstarted"
    /\ out = [th \in Threads |-> Nothing]
    /\ said = [i \in Ids |-> 0]
    /\ sank = {}
    /\ woken = FALSE

-----------------------------------------------------------------------------
Free(th) == out[th] = Nothing

(* The sinks forgotten when there is a line to say.                        *)
LeavesLinesAlone(th, lines, sunk, wake) ==
    out' = [out EXCEPT ![th] = [lines |-> lines,
                                sunk |-> IF lines = {} THEN sunk ELSE {}, wake |-> wake]]

Leaves(th, lines, sunk, wake) ==
    out' = [out EXCEPT ![th] = [lines |-> lines, sunk |-> sunk, wake |-> wake]]

(* Executor::start_worker: the thread is started.                          *)
StartWorker(th) ==
    /\ Free(th) /\ life = "unstarted"
    /\ life' = "running"
    /\ UNCHANGED <<ledger, out, said, sank, woken>>

(* The thread door refuses the start, and the lane reports it to the       *)
(* ledger itself: the worker has ended without running.                    *)
StartFaults(th) ==
    /\ Free(th) /\ life = "unstarted"
    /\ life' = "ended"
    /\ ledger' = WorkerEnded(ledger, "NotStarted")
    /\ Leaves(th, {}, SunkBy(ledger, EndedByWorker(ledger)), Owed(ledger) # {})
    /\ UNCHANGED <<said, sank, woken>>

(* The thread door refuses the start of a lane that starts its worker on a *)
(* request (Ran): said, in the words w, and nothing else.                  *)
StartRefused(th, w) ==
    /\ Free(th) /\ life = "unstarted"
    /\ ledger' = NotStartedStreak(ledger, w)
    /\ UNCHANGED <<life, out, said, sank, woken>>

(* Ledger::admit, and admit_joined when with names an identity.  Every     *)
(* lane starts its worker before it admits its first request.              *)
Admit(th, with) ==
    /\ Free(th) /\ life # "unstarted"
    /\ ledger.minted < MaxMinted
    /\ Refusal(ledger, with) = "none"
    /\ ledger' = Admitted(ledger, with)
    /\ UNCHANGED <<life, out, said, sank, woken>>

(* Ledger::publish.                                                        *)
Publishes(th, id, t) ==
    /\ Free(th)
    /\ PublishAccepted(ledger, id)
    /\ ledger' = Published(ledger, id, t)
    /\ Leaves(th, PublishLines(ledger, id, t), SunkBy(ledger, EndsWith(ledger, id)), FALSE)
    /\ UNCHANGED <<life, said, sank, woken>>

(* The worker answers what it ran; a requester withdraws, or replaces with *)
(* a newer request.                                                        *)
WorkerPublishes(id) ==
    /\ life = "running"
    /\ \E t \in {Done} \cup {Failed(w) : w \in Words} : Publishes(Worker, id, t)
RequesterPublishes(th, id) ==
    \E t \in {Cancelled} \cup {Superseded(by) : by \in (id + 1)..ledger.minted} :
        Publishes(th, id, t)

(* Ledger::worker_ended, on the worker's thread after its body.            *)
WorkerEnds(cause) ==
    /\ Free(Worker) /\ life = "running"
    /\ life' = "ended"
    /\ ledger' = WorkerEnded(ledger, cause)
    /\ Leaves(Worker, {}, SunkBy(ledger, EndedByWorker(ledger)), Owed(ledger) # {})
    /\ UNCHANGED <<said, sank, woken>>

(* Request::take of a terminal that stands below the mark.                 *)
Take(th, id) ==
    /\ Free(th)
    /\ id \in Kept(ledger)
    /\ ledger' = Taken(ledger, id)
    /\ Leaves(th, DeliveryLines(ledger, id), {}, FALSE)
    /\ UNCHANGED <<life, said, sank, woken>>

(* Drop for Request, of a request not settled: Ledger::requester_gone.     *)
RequesterGone(th, id) ==
    /\ Free(th)
    /\ id \in Entries(ledger) /\ ~ledger.gone[id]
    /\ ledger' = Dropped(ledger, id)
    /\ IF id \in Kept(ledger)
       THEN Leaves(th, DeliveryLines(ledger, id), {id}, FALSE)
       ELSE UNCHANGED out
    /\ UNCHANGED <<life, said, sank, woken>>

-----------------------------------------------------------------------------
(* Ledger::release, and the wake after it: lines, then sinks, then wake.   *)

Say(th) ==
    \E id \in out[th].lines :
        /\ said' = [said EXCEPT ![id] = @ + 1]
        /\ out' = [out EXCEPT ![th].lines = @ \ {id}]
        /\ UNCHANGED <<ledger, life, sank, woken>>

Sink(th) ==
    /\ out[th].lines = {}
    /\ \E id \in out[th].sunk :
        /\ sank' = sank \cup {id}
        /\ out' = [out EXCEPT ![th].sunk = @ \ {id}]
    /\ UNCHANGED <<ledger, life, said, woken>>

WakeConsumer(th) ==
    /\ out[th].lines = {} /\ out[th].sunk = {} /\ out[th].wake
    /\ woken' = TRUE
    /\ out' = [out EXCEPT ![th].wake = FALSE]
    /\ UNCHANGED <<ledger, life, said, sank>>

Release(th) == Say(th) \/ Sink(th) \/ WakeConsumer(th)

Asks(th) ==
    \/ StartWorker(th) \/ StartFaults(th)
    \/ \E w \in Words : StartRefused(th, w)
    \/ \E with \in Ids \cup {NoId} : Admit(th, with)
    \/ \E id \in Ids : RequesterPublishes(th, id) \/ Take(th, id) \/ RequesterGone(th, id)

Works ==
    \/ \E id \in Ids : WorkerPublishes(id)
    \/ \E cause \in {"Returned", "Panicked"} : WorkerEnds(cause)

LedgerNext ==
    \/ \E th \in Requesters : Asks(th)
    \/ Works
    \/ \E th \in Threads : Release(th)

LedgerSpec == LedgerInit /\ [][LedgerNext]_ledgerVars

(* A thread that has left the lock goes on to release what it holds.       *)
LedgerFairness == \A th \in Threads : WF_ledgerVars(Release(th))
LedgerFairSpec == LedgerSpec /\ LedgerFairness

-----------------------------------------------------------------------------
(* What the ledger keeps true, whatever its threads do.                    *)

(* The book is whole at every unlock: identities minted in order, each     *)
(* terminal recorded once and held by whoever is there to take it; once    *)
(* the worker has ended nothing is owed, and nothing is admitted to be     *)
(* (mint, end, take, requester_gone, worker_ended).                        *)
BookWhole == MintedInOrder(ledger) /\ PlacedByRequester(ledger) /\ FaultOwesNothing(ledger)

(* A joined request is owed exactly as long as the operation it joined,    *)
(* and then carries that operation's own outcome, though the operation may *)
(* have been taken or sunk since (end_with_twins).                         *)
JoinsEndWithTheirTwin == TwinIsOwed(ledger) /\ JoinedOutcome(ledger)

(* A terminal bound for a sink is in exactly one place: with the one       *)
(* thread that is to hand it over, or handed over (end, requester_gone,    *)
(* release).                                                               *)
SunkOnce ==
    \A i \in Ids :
        /\ i \in sank => \A th \in Threads : i \notin out[th].sunk
        /\ \A th, other \in Threads :
              i \in out[th].sunk /\ i \in out[other].sunk => th = other
        /\ ledger.place[i] = "sunk" <=> i \in sank \/ \E th \in Threads : i \in out[th].sunk

(* Every terminal whose requester has gone reaches its sink (C6).          *)
SinkHears == \A i \in Ids : ledger.place[i] = "sunk" ~> i \in sank

-----------------------------------------------------------------------------
(* The ledger implements the seam's promise.                               *)

LedgerStage(i) ==
    CASE ledger.place[i] = "unminted" -> "unasked"
      [] ledger.place[i] = "owed"     -> "owed"
      [] ledger.place[i] = "kept"     -> "ended"
      [] ledger.place[i] = "taken"    -> "answered"
      [] OTHER                      -> IF i \in sank THEN "sunk" ELSE "ended"

Seam == INSTANCE Completion WITH
    Outcomes  <- {Done, Cancelled} \cup {Failed(w) : w \in Words}
                    \cup {Superseded(by) : by \in Ids},
    Gone      <- WorkerGone,
    NoOutcome <- Unended,
    minted    <- ledger.minted,
    open      <- ledger.fault = NoFault,
    stage     <- [i \in Ids |-> LedgerStage(i)],
    held      <- [i \in Ids |-> ~ledger.gone[i]],
    outcome   <- [i \in Ids |-> Outcome(ledger.terminal[i])]

(* Every request admitted ends exactly once and reaches exactly one        *)
(* reader, once (the seam's contract over the whole of Ledger).            *)
KeepsTheSeam == Seam!Spec
=============================================================================
