------------------------- MODULE UpdateTransaction -------------------------
(***************************************************************************)
(* One update of an installed Folio on Windows, from the hand-off of the   *)
(* running build to the transaction's end: update_txn.rs, update_apply.rs, *)
(* update_apply_windows.rs, update_startup.rs and update_trial.rs of       *)
(* crates/bt-app/src.                                                      *)
(*                                                                         *)
(* The processes: the old build O, leaving; the transaction lock's holder, *)
(* the applier P or a rescue copy R of the old build, which moves files    *)
(* and writes the journal one durable step at a time; trials, the new      *)
(* build started to show that it works; the exit guard of a holder that    *)
(* has let its lock go; and a window that is no trial.  Any of them may    *)
(* die between any two steps, and the power may be cut.  The next start of *)
(* Folio, or the next logon while the entrance is armed, brings a new R,   *)
(* which decides from what is on disk.                                     *)
(*                                                                         *)
(* A file is its digest; a trial's process is its number, and its nonce    *)
(* that number too, or the one nonce reserved for the last trial.          *)
(* Deadlines and waits run out when they like.  The set was verified       *)
(* before the hand-off and the journal is read whole.  The list of what    *)
(* runs may be unreadable at any look: trial_runs then says that the trial *)
(* does not run, and a survey defers.  A list that is read is whole, and   *)
(* the start instant of a process just started is read.                    *)
(***************************************************************************)
EXTENDS Naturals

CONSTANTS OldNames, NewNames,  \* the members of the two sets
          Alike,               \* those whose bytes both sets share
          StuckLimit,          \* STUCK_ATTEMPT_LIMIT
          Turns,               \* the turns of settle's loop
          MaxTrials,           \* bounds: processes started as trials,
          MaxFaults            \* refusals, overdue waits, crashes

ASSUME UpdateAssumption ==
    /\ Alike \subseteq OldNames \cap NewNames
    /\ {StuckLimit, Turns, MaxTrials, MaxFaults} \subseteq Nat

VARIABLES
    at,       \* the digest of each member in each folder
    record,   \* the journal
    entrance, \* whether a logon starts R
    holder,   \* the transaction lock's holder, and what it saw
    guard,    \* the exit guard of the holder before
    trials,   \* the trials started
    receipts, \* by nonce: the trial the receipt names, or 0
    window,   \* a Folio that is no trial: "none", "old", "plain" or "rescue"
    faults,   \* counted against the bound
    declared, \* history: the trials a rollback was declared on
    misread,  \* history: whether a receipt that was there was not read
    unseen    \* history: the running trials that a look took for ended

disk    == <<at, record, entrance, receipts>>
history == <<declared, misread, unseen>>
vars    == <<disk, holder, guard, trials, window, faults, history>>

Names  == OldNames \cup NewNames
Trials == 1..MaxTrials
Nobody == 0
Reserved == MaxTrials + 1    \* made once at most, over Moving
Nonces   == Trials \cup {Reserved}

Faults(n) ==
    /\ faults + n <= MaxFaults
    /\ faults' = faults + n

Fault == Faults(1)

-----------------------------------------------------------------------------
(* The sets, and which of them is installed.                               *)
Old(n) == IF n \in Alike THEN "same" ELSE IF n \in OldNames THEN "old" ELSE "none"
New(n) == IF n \in Alike THEN "same" ELSE IF n \in NewNames THEN "new" ELSE "none"

NewIsLive == \A n \in NewNames : at.install[n] = New(n)
OldIsLive ==
    /\ \A n \in OldNames : at.install[n] = Old(n)
    /\ \A n \in NewNames \ OldNames : at.install[n] # New(n)

Moved(n, from, to) ==
    at' = [at EXCEPT ![from][n] = "none", ![to][n] = at[from][n]]

(* activate: the old files out, then the new ones in.                      *)
MovesOut == {n \in OldNames : at.install[n] = Old(n) /\ at.backup[n] = "none"
                              /\ at.set[n] = New(n)}
MovesIn  == {n \in NewNames : at.set[n] = New(n)}

(* rollback_moves: by digest, the new files out, then the old ones back.   *)
MovesAway    == {n \in NewNames : at.install[n] = New(n) /\ New(n) # Old(n)}
MovesBack    == {n \in OldNames : at.install[n] # Old(n)}
Unrestorable == {n \in MovesBack : at.backup[n] # Old(n)}

-----------------------------------------------------------------------------
(* The journal's events.                                                   *)
Destructive == {"Handoff", "Armed", "Moving", "TrialStarting", "Trial", "Committed",
                "RollbackIntent", "Stuck", "RolledBack"}
Over        == {"Abandoned", "Retired"}
Phases      == Destructive \cup Over \cup {"Prepared", "Gone"}

To(phase) == [record EXCEPT !.phase = phase]

TrialPlanned        == [To("TrialStarting") EXCEPT !.nonce = Reserved]
TrialBegan(t)       == [To("Trial") EXCEPT !.nonce = trials[t].nonce, !.trial = t]
RetrialBegan(t)     == [record EXCEPT !.nonce = trials[t].nonce, !.trial = t]
RollbackDeclared    == [To("RollbackIntent") EXCEPT !.nonce = 0]
RollbackFailed      == [To("Stuck") EXCEPT !.nonce = 0, !.tries = @ + 1]
CommitRecorded      == [To("Committed") EXCEPT !.outcome = "committed"]
RollbackRecorded    == [To("RolledBack") EXCEPT !.outcome = "rolled back"]

Answered == record.phase \in {"Trial", "Stuck"} /\ record.nonce # 0
                /\ receipts[record.nonce] # Nobody

-----------------------------------------------------------------------------
(* The processes.                                                          *)
HoldsClaim(t) == trials[t].step \in {"claimed", "granted", "vouched", "released"}
Running(t)   == t # Nobody /\ trials[t].step \notin {"unborn", "ended"}
Claimed      == window # "none" \/ \E t \in Trials : HoldsClaim(t)
Admitted     == window \in {"old", "plain"} \/ \E t \in Trials : Running(t) /\ trials[t].admitted
Moving       == holder.step \in {"moving", "restoring"}   \* under exclusive admission
Adoptable(t) == Running(t) /\ receipts[trials[t].nonce] = t

(* trial_runs: whether a look finds the recorded trial running.  One that  *)
(* runs is overlooked where the list cannot be read, or where its image    *)
(* stands no more at the name that the list is asked by.                   *)
Sights == {Running(record.trial), FALSE}

Overlooked(alive) == Running(record.trial) /\ ~alive
Cost(alive)       == IF Overlooked(alive) /\ NewIsLive THEN 1 ELSE 0
Marks(alive)      == unseen' = IF Overlooked(alive) THEN unseen \cup {record.trial} ELSE unseen

Unborn == {t \in Trials : /\ trials[t].step = "unborn"
                          /\ \A u \in Trials : u < t => trials[u].step # "unborn"}

Launched(t, nonce) == trials' = [trials EXCEPT ![t] = [@ EXCEPT !.step = "launched", !.nonce = nonce]]
Ended(t)           == trials' = [trials EXCEPT ![t].step = "ended"]

LaunchRefused == IF Unborn = {} THEN UNCHANGED faults ELSE Fault

NoHolder == [who |-> "none", step |-> "none", person |-> FALSE, from |-> Nobody, alive |-> FALSE,
             ready |-> FALSE, heard |-> FALSE, late |-> FALSE, retried |-> FALSE,
             successor |-> Nobody, turn |-> 0]

Goes(step) == holder' = [holder EXCEPT !.step = step]
Settles    == holder' = [holder EXCEPT !.step = "looking"]

(* The road's end: the lock let go, and the window the exit guard owes; at *)
(* a logon, or for a trial's watch, only where the transaction was tried.  *)
Waiting == holder.who = "P" \/ holder.person

Leaves(owed) ==
    /\ holder' = NoHolder
    /\ guard' = IF owed /\ ~Running(holder.successor) THEN "owed" ELSE guard

TurnsSpent  == holder.step = "looking" /\ holder.turn = Turns
MaySayStuck == record.phase \in {"RollbackIntent", "Stuck"}

(* A look, a flush or a record refused, or the turns spent where no failure *)
(* of a rollback can be recorded: the journal stays as it was.             *)
RoadFails ==
    /\ holder.who # "none"
    /\ IF TurnsSpent /\ ~MaySayStuck THEN UNCHANGED faults ELSE Fault
    /\ Leaves(Waiting \/ holder.step \notin {"retiring", "deleting"})
    /\ UNCHANGED <<disk, trials, window, history>>

Record(next, step) ==
    /\ record' = next
    /\ Goes(step)

-----------------------------------------------------------------------------
(* P, from the hand-off to its trial.                                      *)
Applier(step) == holder.who = "P" /\ holder.step = step

OldLeaves ==
    /\ window = "old"
    /\ window' = "none"
    /\ UNCHANGED <<disk, holder, guard, trials, faults, history>>

OldStays ==
    /\ Applier("waiting") /\ ~entrance /\ window = "old"
    /\ Fault
    /\ record' = To("Abandoned")
    /\ Leaves(Waiting)
    /\ UNCHANGED <<at, entrance, receipts, trials, window, history>>

EntranceFound ==    \* of an earlier attempt
    /\ Applier("waiting") /\ entrance
    /\ Goes("reverting")
    /\ UNCHANGED <<disk, guard, trials, window, faults, history>>

Arms ==
    /\ Applier("waiting") /\ ~entrance /\ ~Claimed
    /\ entrance' = TRUE
    /\ Goes("arming")
    /\ UNCHANGED <<at, record, receipts, guard, trials, window, faults, history>>

EntranceFails ==    \* or the staged set is not what was verified
    /\ Applier("waiting") /\ ~entrance /\ ~Claimed
    /\ Fault
    /\ record' = To("Abandoned")
    /\ Leaves(Waiting)
    /\ UNCHANGED <<at, entrance, receipts, trials, window, history>>

RecordsArmed ==
    /\ Applier("arming")
    /\ Record(To("Armed"), "armed")
    /\ UNCHANGED <<at, entrance, receipts, guard, trials, window, faults, history>>

Admits ==    \* exclusive admission, and the install found ready
    /\ Applier("armed") /\ ~Admitted
    /\ Record(To("Moving"), "moving")
    /\ UNCHANGED <<at, entrance, receipts, guard, trials, window, faults, history>>

NotAdmitted ==
    /\ Applier("armed")
    /\ IF Admitted THEN UNCHANGED faults ELSE Fault
    /\ Goes("reverting")
    /\ UNCHANGED <<disk, guard, trials, window, history>>

Activates ==
    /\ Applier("moving")
    /\ \/ \E n \in MovesOut : Moved(n, "install", "backup")
       \/ MovesOut = {} /\ \E n \in MovesIn : Moved(n, "set", "install")
    /\ UNCHANGED <<record, entrance, receipts, holder, guard, trials, window, faults, history>>

AdmissionDropped ==
    /\ Applier("moving") /\ MovesOut \cup MovesIn = {}
    /\ Goes("trying")
    /\ UNCHANGED <<disk, guard, trials, window, faults, history>>

ActivationCut ==
    /\ Applier("moving")
    /\ Fault
    /\ Record(RollbackDeclared, "looking")
    /\ UNCHANGED <<at, entrance, receipts, guard, trials, window, history>>

LaunchesTrial(t) ==
    /\ Applier("trying") /\ t \in Unborn
    /\ Launched(t, t)
    /\ holder' = [holder EXCEPT !.step = "launched", !.successor = t]
    /\ UNCHANGED <<disk, guard, window, faults, history>>

TrialNotLaunched ==
    /\ Applier("trying")
    /\ LaunchRefused
    /\ Record(RollbackDeclared, "looking")
    /\ UNCHANGED <<at, entrance, receipts, guard, trials, window, history>>

RecordsTrial ==
    /\ Applier("launched")
    /\ Record(TrialBegan(holder.successor), "watching")
    /\ UNCHANGED <<at, entrance, receipts, guard, trials, window, faults, history>>

TrialNotRecorded ==    \* ended, or taken for ended; by RoadFails, left running
    /\ Applier("launched")
    /\ Fault
    /\ Ended(holder.successor) \/ UNCHANGED trials
    /\ Record(RollbackDeclared, "looking")
    /\ UNCHANGED <<at, entrance, receipts, guard, window, history>>

-----------------------------------------------------------------------------
(* The watch of a recorded trial.                                          *)
Watching == holder.step = "watching"

WatchCommits ==
    /\ Watching /\ Answered
    /\ Record(CommitRecorded, "retiring")
    /\ UNCHANGED <<at, entrance, receipts, guard, trials, window, faults, history>>

(* No receipt: the trial has ended, or its deadline has passed; or the     *)
(* receipt could not be read, and one of these.                            *)
WatchGivesUp ==
    /\ Watching
    /\ IF Answered THEN Fault /\ misread' = TRUE ELSE UNCHANGED <<faults, misread>>
    /\ IF record.phase = "Trial"
       THEN Record(RollbackDeclared, "looking") /\ declared' = declared \cup {record.trial}
       ELSE Goes("ending") /\ UNCHANGED <<record, declared>>
    /\ UNCHANGED <<at, entrance, receipts, guard, trials, window, unseen>>

-----------------------------------------------------------------------------
(* settle: a look at the recorded trial and its receipt, ...               *)
Look ==
    /\ holder.step = "looking" /\ ~TurnsSpent
    /\ \E heard \in {Answered, FALSE}, alive \in Sights, late \in BOOLEAN :
          /\ holder' = [holder EXCEPT !.step = "deciding", !.turn = @ + 1, !.heard = heard,
                                      !.alive = alive, !.late = late]
          /\ Faults((IF heard # Answered THEN 1 ELSE 0) + Cost(alive))
          /\ misread' = (misread \/ heard # Answered)
          /\ Marks(alive)
    /\ UNCHANGED <<disk, guard, trials, window, declared>>

(* ... a survey of what runs, before a decision over a whole new set and   *)
(* before a trial is started over Stuck, ...                               *)
MayRetry ==
    /\ holder.step = "ending" /\ ~holder.retried /\ Waiting
    /\ record.phase = "Stuck" /\ NewIsLive

(* A mutant: whether the recorded trial still runs is not asked.            *)
RetryUnlooked ==
    /\ MayRetry
    /\ Goes("retrying")
    /\ UNCHANGED <<disk, guard, trials, window, faults, history>>

RetryLooks ==
    /\ MayRetry
    /\ FALSE \in Sights
    /\ Faults(Cost(FALSE)) /\ Marks(FALSE)
    /\ Goes("retrying")
    /\ UNCHANGED <<disk, guard, trials, window, declared, misread>>

Retrying == holder.step = "retrying"

Surveyed ==
    \/ Retrying
    \/ /\ holder.step = "deciding" /\ NewIsLive
       /\ \/ record.phase \in {"Moving", "TrialStarting"}
          \/ record.phase = "Stuck" /\ ~holder.alive

(* Over Stuck the recorded trial is left out of the survey, the one that   *)
(* handed back never is.                                                   *)
Others == {t \in Trials : Running(t)}
Found  == Others \ (IF record.phase = "Stuck" THEN {record.trial} \ {holder.from} ELSE {})

Vouchers == {t \in Found : Adoptable(t)}

Adopts(t) ==
    /\ Surveyed /\ t \in Vouchers
    /\ record.phase = "TrialStarting" => trials[t].nonce = record.nonce
    /\ record' = IF record.phase = "Stuck" THEN RetrialBegan(t) ELSE TrialBegan(t)
    /\ holder' = [holder EXCEPT !.step = "looking", !.successor = t,
                                !.retried = @ \/ Retrying,
                                !.turn = IF Retrying THEN 0 ELSE @]
    /\ UNCHANGED <<at, entrance, receipts, guard, trials, window, faults, history>>

AdoptionRefused(t) ==    \* another nonce than the one planned
    /\ Surveyed /\ t \in Vouchers
    /\ record.phase = "TrialStarting" /\ trials[t].nonce # record.nonce
    /\ Leaves(FALSE)
    /\ UNCHANGED <<disk, trials, window, faults, history>>

EndsHandedBack ==
    /\ Surveyed /\ Vouchers = {}
    /\ holder.from \in Found /\ ~holder.ready
    /\ Ended(holder.from)
    /\ UNCHANGED <<disk, holder, guard, window, faults, history>>

Defers ==
    /\ Surveyed /\ Vouchers = {}
    /\ holder.from \notin Found \/ holder.ready
    /\ Found # {} \/ Claimed
    /\ \E came \in BOOLEAN : Leaves(Waiting /\ ~came)   \* the window deferred to
    /\ UNCHANGED <<disk, trials, window, faults, history>>

(* The list, a receipt or the claim cannot be read, or the trial that      *)
(* handed back does not end or is wrongly taken for ended.                 *)
Unlisted ==
    /\ Surveyed
    /\ Fault
    /\ \E held \in {Running(holder.from), FALSE} : Leaves(Waiting /\ ~held)
    /\ UNCHANGED <<disk, trials, window, history>>

(* ... and the step decide names.                                          *)
Free    == Found = {} /\ ~Claimed
Decides == holder.step = "deciding" /\ (Surveyed => Free)

Forward == holder.heard /\ (record.phase = "Stuck" => record.nonce # 0)

InTime ==
    /\ record.phase = "Trial" \/ (record.phase = "Stuck" /\ record.nonce # 0)
    /\ holder.alive /\ ~holder.late

Back ==
    /\ record.phase \in {"RollbackIntent", "Stuck"} /\ ~Forward /\ ~InTime
    /\ (record.phase = "Stuck" /\ record.tries >= StuckLimit => holder.alive)

(* A mutant: moves cut short are taken for an update not begun.             *)
RevertsMoving ==
    /\ Decides /\ record.phase \in {"Handoff", "Armed", "Moving"}
    /\ Goes("reverting")
    /\ UNCHANGED <<disk, guard, trials, window, faults, history>>

Reverts ==
    /\ Decides /\ record.phase \in {"Handoff", "Armed"}
    /\ Goes("reverting")
    /\ UNCHANGED <<disk, guard, trials, window, faults, history>>

DeclaresRollback ==
    /\ Decides
    /\ \/ record.phase \in {"Moving", "TrialStarting"}
       \/ record.phase = "Trial" /\ ~Forward /\ ~InTime
    /\ Record(RollbackDeclared, "looking")
    /\ declared' = IF record.phase = "Trial" THEN declared \cup {record.trial} ELSE declared
    /\ UNCHANGED <<at, entrance, receipts, guard, trials, window, faults, misread, unseen>>

Commits ==
    /\ Decides /\ Forward
    /\ Record(CommitRecorded, "retiring")
    /\ UNCHANGED <<at, entrance, receipts, guard, trials, window, faults, history>>

Awaits ==
    /\ Decides /\ ~Forward /\ InTime
    /\ Goes("watching")
    /\ UNCHANGED <<disk, guard, trials, window, faults, history>>

GivesUp ==
    /\ Decides /\ record.phase = "Stuck" /\ ~Forward /\ ~InTime /\ ~Back
    /\ Goes("ending")
    /\ UNCHANGED <<disk, guard, trials, window, faults, history>>

StopsTrial ==
    /\ Decides /\ Back /\ holder.alive
    /\ \/ Ended(record.trial) /\ UNCHANGED faults
       \/ Fault /\ UNCHANGED trials    \* taken for ended
    /\ Settles
    /\ UNCHANGED <<disk, guard, window, history>>

Sticks ==    \* the trial will not stop, a file is not there or not readable,
    /\ \/ /\ Decides /\ Back
          /\ IF ~holder.alive /\ Unrestorable # {} THEN UNCHANGED faults ELSE Fault
       \/ TurnsSpent /\ MaySayStuck /\ UNCHANGED faults    \* or the turns are spent
    /\ Record(RollbackFailed, "ending")
    /\ UNCHANGED <<at, entrance, receipts, guard, trials, window, history>>

Restorable == Decides /\ Back /\ ~holder.alive /\ Unrestorable = {}

DeclaresRolledBack ==
    /\ Restorable /\ MovesAway \cup MovesBack = {}
    /\ Record(RollbackRecorded, "looking")
    /\ UNCHANGED <<at, entrance, receipts, guard, trials, window, faults, history>>

HoldsAdmission ==
    /\ Restorable /\ MovesAway \cup MovesBack # {} /\ ~Admitted
    /\ Goes("restoring")
    /\ UNCHANGED <<disk, guard, trials, window, faults, history>>

RollbackWaits ==
    /\ Restorable /\ MovesAway \cup MovesBack # {} /\ Admitted
    /\ Goes("ending")
    /\ UNCHANGED <<disk, guard, trials, window, faults, history>>

ActivatesBack ==
    /\ holder.step = "restoring"
    /\ \/ \E n \in MovesAway : Moved(n, "install", "rolledout")
       \/ MovesAway = {} /\ \E n \in MovesBack : Moved(n, "backup", "install")
    /\ UNCHANGED <<record, entrance, receipts, holder, guard, trials, window, faults, history>>

(* A mutant: the old set moved back ends the road, before it is recorded.   *)
RestoredAtOnce ==
    /\ holder.step = "restoring" /\ MovesAway \cup MovesBack = {}
    /\ Goes("finishing")
    /\ UNCHANGED <<disk, guard, trials, window, faults, history>>

Restored ==
    /\ holder.step = "restoring" /\ MovesAway \cup MovesBack = {}
    /\ Settles
    /\ UNCHANGED <<disk, guard, trials, window, faults, history>>

RestoringCut ==
    /\ holder.step = "restoring"
    /\ Fault
    /\ Record(RollbackFailed, "ending")
    /\ UNCHANGED <<at, entrance, receipts, guard, trials, window, history>>

Finishes ==
    /\ Decides /\ record.phase \in {"Committed", "RolledBack"}
    /\ Goes(IF record.phase = "Committed" THEN "retiring" ELSE "finishing")
    /\ UNCHANGED <<disk, guard, trials, window, faults, history>>

NothingToDecide ==
    /\ Decides /\ record.phase \notin Destructive
    /\ entrance' = (entrance /\ record.phase \notin Over)
    /\ Leaves(Waiting)
    /\ UNCHANGED <<at, record, receipts, trials, window, faults, history>>

-----------------------------------------------------------------------------
(* The ends of the roads.                                                  *)
TrialHasDecided ==
    /\ holder.step = "retiring" /\ (NewIsLive => \A t \in Trials : ~Adoptable(t))
    /\ Goes("deleting")
    /\ UNCHANGED <<disk, guard, trials, window, faults, history>>

Disarms ==
    /\ holder.step \in {"reverting", "finishing", "deleting"} /\ entrance
    /\ entrance' = FALSE
    /\ UNCHANGED <<at, record, receipts, holder, guard, trials, window, faults, history>>

Ends(from, to, owed) ==
    /\ holder.step = from /\ ~entrance
    /\ record' = To(to)
    /\ Leaves(owed)
    /\ UNCHANGED <<at, entrance, receipts, trials, window, faults, history>>

EndsReverted   == Ends("reverting", "Prepared", TRUE)
EndsRolledBack == Ends("finishing", "Retired", TRUE)

DeletesOld(n) ==
    /\ holder.step = "deleting" /\ ~entrance
    /\ n \in OldNames /\ at.backup[n] = Old(n)
    /\ at' = [at EXCEPT !.backup[n] = "none"]
    /\ UNCHANGED <<record, entrance, receipts, holder, guard, trials, window, faults, history>>

EndsCommitted ==
    /\ \A n \in OldNames : at.backup[n] # Old(n)
    /\ Ends("deleting", "Retired", Waiting)

RetriesAsTrial(t) ==
    /\ Retrying /\ Free /\ t \in Unborn
    /\ Launched(t, t)
    /\ holder' = [holder EXCEPT !.step = "relaunched", !.retried = TRUE, !.successor = t]
    /\ UNCHANGED <<disk, guard, window, faults, history>>

RecordsRetrial ==
    /\ holder.step = "relaunched"
    /\ Record(RetrialBegan(holder.successor), "watching")
    /\ UNCHANGED <<at, entrance, receipts, guard, trials, window, faults, history>>

RoadEnds ==
    /\ \/ holder.step = "ending" /\ (MayRetry => Running(record.trial)) /\ UNCHANGED faults
       \/ Retrying /\ Free /\ LaunchRefused
    /\ Leaves(TRUE)
    /\ UNCHANGED <<disk, trials, window, history>>

-----------------------------------------------------------------------------
(* The exit guard: what the disk names, read and then started.             *)
OpensNow ==
    CASE record.phase \notin Destructive                 -> "plain"
      [] record.phase = "Committed"                      ->
            IF NewIsLive \/ OldIsLive THEN "plain" ELSE "rescue"
      [] record.phase \in Destructive \ {"Committed"}    ->
            IF NewIsLive THEN (IF record.phase = "TrialStarting" THEN "last" ELSE "trial")
            ELSE IF OldIsLive THEN "plain" ELSE "rescue"

GuardReads ==
    /\ guard = "owed"
    /\ guard' = OpensNow
    /\ UNCHANGED <<disk, holder, trials, window, faults, history>>

GuardStartsTrial(t) ==
    /\ guard \in {"trial", "last", "reserved"} /\ NewIsLive /\ t \in Unborn
    /\ Launched(t, IF guard = "trial" THEN t ELSE Reserved)
    /\ guard' \in {"none"} \cup (IF guard = "reserved" THEN {} ELSE {"rescue"})   \* not acknowledged
    /\ UNCHANGED <<disk, holder, window, faults, history>>

GuardStarts ==    \* the installed build, or the rescue copy
    /\ guard \in {"plain", "rescue", "fallback"}
    /\ window' = IF Claimed THEN window ELSE IF guard = "plain" THEN "plain" ELSE "rescue"
    /\ guard' = "none"
    /\ UNCHANGED <<disk, holder, trials, faults, history>>

(* The system refuses the start, then (one fault) its fallback; then the   *)
(* last trial is reserved, with the lock taken again.                      *)
GuardRefused ==
    /\ guard \in {"plain", "trial", "last", "reserved"}
    /\ IF guard # "plain" /\ ~NewIsLive THEN UNCHANGED faults ELSE LaunchRefused
    /\ guard' = IF guard = "reserved" THEN "none" ELSE "fallback"
    /\ UNCHANGED <<disk, holder, trials, window, history>>

ReservesLastTrial ==
    /\ guard = "fallback"
    /\ IF holder.who = "none" /\ record.phase = "Moving" /\ NewIsLive
       THEN record' = TrialPlanned /\ guard' = "reserved"
       ELSE guard' = "none" /\ UNCHANGED record
    /\ UNCHANGED <<at, entrance, receipts, holder, trials, window, faults, history>>

-----------------------------------------------------------------------------
(* A trial: its start, its first text and its receipt.                     *)
MayVouch == record.phase \in {"Moving", "TrialStarting", "Trial", "Stuck"}

Step(t, step) == trials' = [trials EXCEPT ![t].step = step]

TrialStarts(t) ==
    /\ trials[t].step = "launched"
    /\ record.phase \in Destructive
    /\ record.phase = "TrialStarting" => trials[t].nonce = record.nonce
    /\ trials' = [trials EXCEPT ![t] = [@ EXCEPT !.step = "started", !.admitted = ~Moving]]
    /\ UNCHANGED <<disk, holder, guard, window, faults, history>>

StartsAsNoTrial(t) ==    \* the transaction is over, or another's trial is planned
    /\ trials[t].step = "launched"
    /\ \/ record.phase \notin Destructive
       \/ record.phase = "TrialStarting" /\ trials[t].nonce # record.nonce
    /\ Ended(t)
    /\ window' = IF record.phase \notin Destructive /\ ~Claimed THEN "plain" ELSE window
    /\ UNCHANGED <<disk, holder, guard, faults, history>>

TrialClaims(t) ==
    /\ trials[t].step = "started" /\ ~Claimed
    /\ Step(t, "claimed")
    /\ UNCHANGED <<disk, holder, guard, window, faults, history>>

ReceiptGranted(t) ==
    /\ trials[t].step = "claimed" /\ MayVouch
    /\ Step(t, "granted")
    /\ UNCHANGED <<disk, holder, guard, window, faults, history>>

WritesReceipt(t) ==
    /\ trials[t].step = "granted"
    /\ Step(t, "vouched")
    /\ receipts' = [receipts EXCEPT ![trials[t].nonce] = IF Running(@) THEN @ ELSE t]
    /\ UNCHANGED <<at, record, entrance, holder, guard, window, faults, history>>

CommitsLastTrial(t) ==
    /\ trials[t].step = "vouched" /\ holder.who = "none"
    /\ record.phase = "TrialStarting" /\ record.nonce = trials[t].nonce /\ Adoptable(t)
    /\ record' = CommitRecorded
    /\ UNCHANGED <<at, entrance, receipts, holder, guard, trials, window, faults, history>>

TrialReleases(t) ==    \* it has read the commit
    /\ HoldsClaim(t) /\ trials[t].step # "released" /\ record.outcome = "committed"
    /\ Step(t, "released")
    /\ receipts' = [receipts EXCEPT ![trials[t].nonce] = Nobody]
    /\ UNCHANGED <<at, record, entrance, holder, guard, window, faults, history>>

TrialEnds(t) ==
    /\ Running(t)
    /\ Ended(t)
    /\ UNCHANGED <<disk, holder, guard, window, faults, history>>

-----------------------------------------------------------------------------
(* Starts of Folio: R for a journal seen destructive, at a person's start, *)
(* at a logon, or handed back by a trial; or what goes on without R.  The  *)
(* journal may be over by the time R has the lock.                         *)
Recovers(person, from, ready) ==
    /\ holder.who = "none"
    /\ holder' = [NoHolder EXCEPT !.who = "R", !.step = "looking", !.person = person,
                                  !.from = from, !.ready = ready]
    /\ UNCHANGED <<disk, guard, trials, window, faults, history>>

StartRecovers == record.phase # "Gone" /\ Recovers(TRUE, Nobody, FALSE)
LogonRecovers == entrance /\ window = "none" /\ Others = {} /\ Recovers(FALSE, Nobody, FALSE)

HandsBack(t) ==
    /\ trials[t].step \in {"claimed", "granted", "vouched"}
    /\ record.phase \in Destructive \ {"Committed"}
    /\ \E ready \in {TRUE, trials[t].step = "vouched"} : Recovers(FALSE, t, ready)

StandsIn(t) ==    \* the rescue copy refused, over a reserved trial
    /\ record.phase = "TrialStarting" /\ NewIsLive /\ t \in Unborn
    /\ Launched(t, record.nonce)
    /\ UNCHANGED <<disk, holder, guard, window, faults, history>>

GoesOnWithout ==
    /\ record.phase \in Destructive \ {"TrialStarting"} /\ ~Claimed
    /\ Fault
    /\ window' = "plain"
    /\ UNCHANGED <<disk, holder, guard, trials, history>>

StartRetires ==
    /\ record.phase \in Over /\ holder.who = "none"
    /\ entrance' = FALSE
    /\ record' = To("Gone")
    /\ at' = [place \in DOMAIN at |-> IF place = "install" THEN at[place]
                                      ELSE [n \in Names |-> "none"]]
    /\ UNCHANGED <<receipts, holder, guard, trials, window, faults, history>>

WindowCloses ==
    /\ window \in {"plain", "rescue"}
    /\ window' = "none"
    /\ UNCHANGED <<disk, holder, guard, trials, faults, history>>

HolderDies ==
    /\ holder.who # "none"
    /\ Fault
    /\ holder' = NoHolder
    /\ UNCHANGED <<disk, guard, trials, window, history>>

PowerCut ==
    /\ Fault
    /\ holder' = NoHolder /\ guard' = "none" /\ window' = "none"
    /\ trials' = [t \in Trials |-> IF Running(t) THEN [trials[t] EXCEPT !.step = "ended"]
                                   ELSE trials[t]]
    /\ UNCHANGED <<disk, history>>

-----------------------------------------------------------------------------
Init ==
    /\ at = [install |-> [n \in Names |-> Old(n)], set |-> [n \in Names |-> New(n)],
             backup |-> [n \in Names |-> "none"], rolledout |-> [n \in Names |-> "none"]]
    /\ record = [phase |-> "Handoff", nonce |-> 0, trial |-> Nobody, tries |-> 0, outcome |-> "none"]
    /\ entrance \in BOOLEAN
    /\ holder = [NoHolder EXCEPT !.who = "P", !.step = "waiting"]
    /\ guard = "none"
    /\ trials = [t \in Trials |-> [step |-> "unborn", nonce |-> 0, admitted |-> FALSE]]
    /\ receipts = [n \in Nonces |-> Nobody]
    /\ window = "old"
    /\ faults = 0 /\ declared = {} /\ misread = FALSE /\ unseen = {}

Applies ==
    \/ EntranceFound \/ Arms \/ RecordsArmed \/ Admits \/ NotAdmitted \/ Activates
    \/ AdmissionDropped \/ TrialNotLaunched \/ RecordsTrial \/ WatchCommits
    \/ \E t \in Trials : LaunchesTrial(t)

Surveys == EndsHandedBack \/ Defers \/ Unlisted \/ \E t \in Trials : Adopts(t) \/ AdoptionRefused(t)

Settling ==
    \/ Look \/ Surveys \/ Reverts \/ DeclaresRollback \/ Commits \/ Awaits
    \/ GivesUp \/ StopsTrial \/ Sticks \/ DeclaresRolledBack \/ HoldsAdmission \/ RollbackWaits
    \/ ActivatesBack \/ Restored \/ Finishes \/ NothingToDecide

RoadGoesOn ==
    \/ TrialHasDecided \/ Disarms \/ EndsReverted \/ EndsRolledBack \/ EndsCommitted
    \/ RetryLooks \/ RecordsRetrial \/ RoadEnds
    \/ (\E n \in OldNames : DeletesOld(n)) \/ \E t \in Trials : RetriesAsTrial(t)

RoadIsCut ==
    \/ RoadFails \/ OldStays \/ EntranceFails \/ ActivationCut \/ TrialNotRecorded
    \/ WatchGivesUp \/ RestoringCut

GuardGoesOn == GuardReads \/ GuardStarts \/ \E t \in Trials : GuardStartsTrial(t)
GuardFails  == GuardRefused \/ ReservesLastTrial

TrialGoesOn(t) ==
    \/ TrialStarts(t) \/ StartsAsNoTrial(t) \/ TrialClaims(t) \/ ReceiptGranted(t)
    \/ WritesReceipt(t) \/ CommitsLastTrial(t) \/ TrialReleases(t)

Person == OldLeaves \/ WindowCloses \/ StartRecovers \/ StartRetires
Deaths == HolderDies \/ PowerCut

Next ==
    \/ Applies \/ Settling \/ RoadGoesOn \/ RoadIsCut
    \/ GuardGoesOn \/ GuardFails
    \/ Person \/ LogonRecovers \/ GoesOnWithout \/ Deaths
    \/ \E t \in Trials : TrialGoesOn(t) \/ TrialEnds(t) \/ HandsBack(t) \/ StandsIn(t)

Spec == Init /\ [][Next]_vars

-----------------------------------------------------------------------------
(* What an update keeps.                                                   *)
HolderSteps ==
    {"none", "waiting", "arming", "armed", "moving", "trying", "launched", "watching", "looking",
     "deciding", "restoring", "reverting", "finishing", "retiring", "deleting", "ending", "retrying",
     "relaunched"}

Digests == {"none", "old", "new", "same"}

Records == [phase : Phases, nonce : {0} \cup Nonces, trial : {Nobody} \cup Trials, tries : Nat,
            outcome : {"none", "committed", "rolled back"}]

Holders == [who : {"none", "P", "R"}, step : HolderSteps, turn : 0..Turns,
            from : {Nobody} \cup Trials, successor : {Nobody} \cup Trials, person : BOOLEAN,
            alive : BOOLEAN, ready : BOOLEAN, heard : BOOLEAN, late : BOOLEAN, retried : BOOLEAN]

Processes == [step : {"unborn", "launched", "started", "claimed", "granted", "vouched", "released",
                      "ended"},
              nonce : {0} \cup Nonces, admitted : BOOLEAN]

(* The state is of its type: a road takes no turn more than its loop has,  *)
(* and a trial planned or begun has its nonce.                             *)
TypeOK ==
    /\ at \in [{"install", "set", "backup", "rolledout"} -> [Names -> Digests]]
    /\ record \in Records
    /\ record.phase \in {"TrialStarting", "Trial"} => record.nonce # 0
    /\ entrance \in BOOLEAN /\ misread \in BOOLEAN
    /\ holder \in Holders
    /\ guard \in {"none", "owed", "plain", "rescue", "fallback", "trial", "last", "reserved"}
    /\ trials \in [Trials -> Processes]
    /\ receipts \in [Nonces -> {Nobody} \cup Trials]
    /\ window \in {"none", "old", "plain", "rescue"}
    /\ faults \in Nat /\ declared \subseteq Trials /\ unseen \subseteq Trials

(* Until a commit is durable, every old file stands in the install or in   *)
(* the backup.                                                             *)
OldSetKept ==
    record.outcome # "committed" =>
        \A n \in OldNames : Old(n) \in {at.install[n], at.backup[n]}

(* A transaction that ended without an update left the old set whole, and  *)
(* one that had not begun to move anything, too.                           *)
EndsOld ==
    \/ record.phase \in {"Handoff", "Armed", "Prepared", "Abandoned"}
    \/ record.outcome = "rolled back"
OldIsWhole == EndsOld => OldIsLive

(* A commit stands over the whole new set.                                 *)
CommittedIsNew == record.outcome = "committed" => NewIsLive

(* Whatever a look misses, the old set is kept until a commit and is whole *)
(* after every end without one.  A commit stands over the whole new set,   *)
(* unless a receipt was misread or its trial was taken for ended while it  *)
(* ran: the rollback, begun on that look, can then have moved files before *)
(* the trial vouches.                                                      *)
WholeSets ==
    /\ OldSetKept /\ OldIsWhole
    /\ misread \/ record.trial \in unseen \/ CommittedIsNew

(* While files may be moved, a logon brings the recovery.                  *)
EntranceStands ==
    record.phase \in {"Moving", "TrialStarting", "Trial", "RollbackIntent", "Stuck"} => entrance

(* "The trial the rollback was declared on is never heard again", as long  *)
(* as no look took it for ended while it ran: one that did lets another    *)
(* trial be recorded beside it, and it is a candidate again.               *)
DeclaredIsNeverHeard == record.outcome = "committed" => record.trial \notin declared \ unseen
=============================================================================
