---------------------- MODULE UpdateTransactionProofs ----------------------
(***************************************************************************)
(* That an update keeps one whole set of files, whatever dies, whenever:   *)
(* for every set of members, every limit and every bound.                  *)
(***************************************************************************)
EXTENDS UpdateTransaction, TLAPS

-----------------------------------------------------------------------------
(* The inductive invariant.                                                *)

(* Where a road stands is where the journal says that it stands.           *)
StepFitsRecord ==
    /\ holder.who = "none" <=> holder.step = "none"
    /\ holder.step \in {"waiting", "arming"} => record.phase = "Handoff"
    /\ holder.step = "armed" => record.phase = "Armed"
    /\ holder.step \in {"moving", "trying", "launched"} => record.phase = "Moving"
    /\ holder.step = "watching" => record.phase \in {"Trial", "Stuck"} /\ record.nonce # 0
    /\ holder.step \in {"restoring", "ending"} => record.phase \in {"RollbackIntent", "Stuck"}
    /\ holder.step = "reverting" => record.phase \in {"Handoff", "Armed"}
    /\ holder.step = "finishing" => record.phase = "RolledBack"
    /\ holder.step \in {"retiring", "deleting"} => record.phase = "Committed"
    /\ holder.step \in {"retrying", "relaunched"} => record.phase = "Stuck"

EntranceFits == EntranceStands /\ (holder.step \in {"arming", "armed"} => entrance)

OutcomeFits ==
    /\ record.outcome = "committed" => record.phase \in {"Committed", "Retired", "Gone"}
    /\ record.outcome = "rolled back" => record.phase \in {"RolledBack", "Retired", "Gone"}
    /\ record.phase \in {"Committed", "RolledBack", "Retired"} => record.outcome # "none"

(* The backup holds old files only, and beside the install stands the rest *)
(* of the new set until it is in.                                          *)
BackupIsOld == \A n \in OldNames : at.backup[n] \in {"none", Old(n)}

NewSetKept == record.phase \in {"Handoff", "Armed", "Moving"} =>
                  \A n \in NewNames : New(n) \in {at.set[n], at.install[n]}

OldSetFits == OldSetKept /\ OldIsWhole /\ BackupIsOld

(* A process started as a trial has its own number for its nonce, or the   *)
(* one reserved; the holder's last one runs over a whole new set.          *)
Born(t) == trials[t].step # "unborn"

NoncesFit == \A t \in Trials : Born(t) => trials[t].nonce \in {t, Reserved}

SuccessorFits == holder.step \in {"launched", "relaunched"} =>
                     /\ holder.successor \in Trials /\ Born(holder.successor)
                     /\ trials[holder.successor].nonce = holder.successor
                     /\ holder.successor \notin declared

(* A trial is started over Stuck where the one recorded has ended, or a    *)
(* look took it for ended.                                                 *)
Overseen  == record.trial \in unseen
RetryFits == holder.step \in {"retrying", "relaunched"} => ~Running(record.trial) \/ Overseen

(* The trial recorded, and the nonce of it that a receipt answers.         *)
RecordedTrialFits ==
    /\ record.trial # Nobody => Born(record.trial)
    /\ record.phase = "TrialStarting" => record.nonce = Reserved
    /\ record.phase = "Trial" => record.trial # Nobody
    /\ record.phase \in {"Trial", "Stuck"} /\ record.nonce \in Trials => record.trial = record.nonce
    /\ record.phase \in {"Trial", "Stuck"} /\ record.nonce = Reserved => receipts[Reserved] # Nobody

(* What a look has found: an answer stays, and a trial found ended, without *)
(* an answer that a look can have missed, gives none.                      *)
Unanswerable == ~Answered /\ ~Running(record.trial)

LookFits ==
    holder.step = "deciding" =>
        /\ holder.heard => Answered
        /\ ~holder.alive => ~Running(record.trial) \/ Overseen
        /\ ~holder.heard /\ ~holder.alive => misread \/ Overseen \/ Unanswerable

(* Where an answer may still come, the new set is in.                      *)
NewSetFits ==
    /\ NewSetKept
    /\ holder.step \in {"trying", "launched", "retrying", "relaunched"} => NewIsLive
    /\ record.phase \in {"TrialStarting", "Trial"} => NewIsLive
    /\ record.phase = "Stuck" /\ record.nonce # 0 => misread \/ Overseen \/ NewIsLive \/ Unanswerable
    /\ holder.step = "restoring" => misread \/ Overseen \/ Unanswerable
    /\ record.outcome = "committed" => misread \/ Overseen \/ NewIsLive

(* A rollback is declared on one trial of a transaction: it is the one     *)
(* recorded, or it has ended, or a look took it for ended.                 *)
DeclaredFits ==
    /\ record.phase \in {"Handoff", "Armed", "Moving", "TrialStarting", "Trial"} => declared = {}
    /\ \A t \in declared : Born(t) /\ (t = record.trial \/ trials[t].step = "ended" \/ t \in unseen)
    /\ record.nonce # 0 \/ record.outcome = "committed" => record.trial \notin declared \ unseen

IInv ==
    /\ TypeOK /\ StepFitsRecord /\ EntranceFits /\ OutcomeFits /\ OldSetFits /\ NewSetFits
    /\ NoncesFit /\ SuccessorFits /\ RetryFits /\ RecordedTrialFits /\ LookFits /\ DeclaredFits

-----------------------------------------------------------------------------
(* The steps, sorted by what they move.                                    *)
FilesMove == Activates \/ ActivatesBack \/ StartRetires \/ \E n \in OldNames : DeletesOld(n)

JournalMoves ==
    \/ OldStays \/ EntranceFails \/ RecordsArmed \/ Admits \/ ActivationCut
    \/ TrialNotLaunched \/ RecordsTrial \/ TrialNotRecorded
    \/ WatchCommits \/ WatchGivesUp
    \/ DeclaresRollback \/ Commits \/ Sticks \/ DeclaresRolledBack
    \/ RecordsRetrial \/ RestoringCut \/ ReservesLastTrial
    \/ EndsReverted \/ EndsRolledBack \/ EndsCommitted
    \/ \E t \in Trials : Adopts(t) \/ CommitsLastTrial(t)

TrialsMove ==
    \/ EndsHandedBack \/ StopsTrial \/ PowerCut
    \/ \E t \in Trials : LaunchesTrial(t) \/ RetriesAsTrial(t)
    \/ \E t \in Trials : GuardStartsTrial(t) \/ StandsIn(t)
    \/ \E t \in Trials : TrialStarts(t) \/ StartsAsNoTrial(t) \/ TrialClaims(t) \/ ReceiptGranted(t)
    \/ \E t \in Trials : WritesReceipt(t) \/ TrialReleases(t) \/ TrialEnds(t)

RoadMoves ==
    \/ EntranceFound \/ Arms \/ NotAdmitted \/ AdmissionDropped
    \/ Look \/ Defers \/ Unlisted \/ RetryLooks \/ (\E t \in Trials : AdoptionRefused(t))
    \/ Reverts \/ Awaits \/ GivesUp \/ HoldsAdmission \/ RollbackWaits \/ Restored
    \/ Finishes \/ NothingToDecide \/ TrialHasDecided \/ Disarms \/ RoadEnds \/ RoadFails
    \/ StartRecovers \/ LogonRecovers \/ (\E t \in Trials : HandsBack(t)) \/ HolderDies

WindowMoves ==
    \/ OldLeaves \/ WindowCloses \/ GoesOnWithout
    \/ GuardReads \/ GuardStarts \/ GuardRefused

LEMMA NextBySort ==
    Next => FilesMove \/ JournalMoves \/ TrialsMove \/ RoadMoves \/ WindowMoves
<1>1. Applies => FilesMove \/ JournalMoves \/ TrialsMove \/ RoadMoves
  BY DEF Applies, FilesMove, JournalMoves, TrialsMove, RoadMoves
<1>2. Settling => FilesMove \/ JournalMoves \/ TrialsMove \/ RoadMoves
  BY DEF Settling, Surveys, FilesMove, JournalMoves, TrialsMove, RoadMoves
<1>3. RoadGoesOn \/ RoadIsCut => FilesMove \/ JournalMoves \/ TrialsMove \/ RoadMoves
  BY DEF RoadGoesOn, RoadIsCut, FilesMove, JournalMoves, TrialsMove, RoadMoves
<1>4. GuardGoesOn \/ GuardFails => JournalMoves \/ TrialsMove \/ WindowMoves
  BY DEF GuardGoesOn, GuardFails, JournalMoves, TrialsMove, WindowMoves
<1>5. Person \/ Deaths => FilesMove \/ TrialsMove \/ RoadMoves \/ WindowMoves
  BY DEF Person, Deaths, FilesMove, TrialsMove, RoadMoves, WindowMoves
<1>6. ASSUME NEW t \in Trials
      PROVE  TrialGoesOn(t) \/ TrialEnds(t) \/ HandsBack(t) \/ StandsIn(t) =>
                 JournalMoves \/ TrialsMove \/ RoadMoves
  BY DEF TrialGoesOn, JournalMoves, TrialsMove, RoadMoves
<1>7. LogonRecovers => RoadMoves
  BY DEF RoadMoves
<1>8. GoesOnWithout => WindowMoves
  BY DEF WindowMoves
<1> QED BY <1>1, <1>2, <1>3, <1>4, <1>5, <1>6, <1>7, <1>8 DEF Next

-----------------------------------------------------------------------------
(* What each sort of step leaves as it is.                                 *)
LEMMA NobodyIsNoTrial ==
    /\ Nobody \notin Trials /\ 0 \notin Nonces /\ Reserved \notin Trials
    /\ Trials \subseteq Nonces /\ Reserved \in Nonces
BY UpdateAssumption DEF Trials, Nonces, Nobody, Reserved

LEMMA RoadLeaves ==
    RoadMoves => UNCHANGED <<at, record, receipts, trials, declared>>
BY DEF RoadMoves, EntranceFound, Arms, NotAdmitted, AdmissionDropped, Look, Defers, Unlisted,
   RetryLooks, AdoptionRefused, Reverts, Awaits, GivesUp, HoldsAdmission, RollbackWaits, Restored, Finishes,
   NothingToDecide, TrialHasDecided, Disarms, RoadEnds, RoadFails, StartRecovers, LogonRecovers,
   HandsBack, Recovers, HolderDies, disk, history

LEMMA WindowsLeave ==
    WindowMoves => UNCHANGED <<disk, holder, trials, history>>
BY DEF WindowMoves, OldLeaves, WindowCloses, GoesOnWithout, GuardReads, GuardStarts, GuardRefused

LEMMA FilesLeave ==
    FilesMove => /\ UNCHANGED <<receipts, holder, guard, trials, window, faults, history>>
                 /\ UNCHANGED <<record, entrance>> \/ StartRetires
BY DEF FilesMove, Activates, ActivatesBack, StartRetires, DeletesOld

LEMMA TrialsLeave ==
    TrialsMove => UNCHANGED <<at, record, entrance, history>>
BY DEF TrialsMove, EndsHandedBack, StopsTrial, PowerCut, LaunchesTrial, RetriesAsTrial,
   GuardStartsTrial, StandsIn, TrialStarts, StartsAsNoTrial, TrialClaims, ReceiptGranted,
   WritesReceipt, TrialReleases, TrialEnds, Step, disk

LEMMA JournalLeaves ==
    JournalMoves => UNCHANGED <<at, entrance, receipts, window>>
BY DEF JournalMoves, OldStays, EntranceFails, RecordsArmed, Admits, ActivationCut,
   TrialNotLaunched, RecordsTrial, TrialNotRecorded, WatchCommits, WatchGivesUp, DeclaresRollback,
   Commits, Sticks, DeclaresRolledBack, RecordsRetrial, RestoringCut, ReservesLastTrial,
   EndsReverted, EndsRolledBack, EndsCommitted, Ends, Adopts, CommitsLastTrial

-----------------------------------------------------------------------------
(* The type.                                                               *)
LEMMA FilesTyped ==
    ASSUME TypeOK, Next
    PROVE  at' \in [{"install", "set", "backup", "rolledout"} -> [Names -> Digests]]
<1> DEFINE Places == {"install", "set", "backup", "rolledout"}
<1>0. at \in [Places -> [Names -> Digests]] /\ "none" \in Digests
  BY DEF TypeOK, Digests
<1>1. ASSUME NEW from \in Places, NEW to \in Places, NEW n \in Names, Moved(n, from, to)
      PROVE  at' \in [Places -> [Names -> Digests]]
  BY <1>0, <1>1 DEF Moved
<1>2. CASE Activates
  BY <1>1, <1>2 DEF Activates, MovesOut, MovesIn, Names
<1>3. CASE ActivatesBack
  BY <1>1, <1>3 DEF ActivatesBack, MovesAway, MovesBack, Names
<1>4. ASSUME NEW n \in OldNames, DeletesOld(n) PROVE at' \in [Places -> [Names -> Digests]]
  BY <1>0, <1>4 DEF DeletesOld, Names
<1>5. CASE StartRetires
  BY <1>0, <1>5 DEF StartRetires
<1>6. CASE at' = at
  BY <1>0, <1>6
<1> QED BY <1>2, <1>3, <1>4, <1>5, <1>6, NextBySort, RoadLeaves, WindowsLeave, TrialsLeave,
           JournalLeaves DEF FilesMove, disk

LEMMA RecordTyped ==
    ASSUME IInv, Next
    PROVE  record' \in Records /\ (record'.phase \in {"TrialStarting", "Trial"} => record'.nonce # 0)
<1> USE DEF Records, Record, To
<1> DEFINE Fits(r) == r \in Records /\ (r.phase \in {"TrialStarting", "Trial"} => r.nonce # 0)
<1>0. /\ Fits(record) /\ trials \in [Trials -> Processes] /\ holder \in Holders
      /\ Phases = Destructive \cup Over \cup {"Prepared", "Gone"}
  BY DEF IInv, TypeOK, Phases
<1>1. ASSUME NEW p \in Phases \ {"TrialStarting", "Trial"} PROVE Fits(To(p))
  BY <1>0
<1>2. ASSUME NEW t \in Trials, Born(t)
      PROVE  Fits(TrialBegan(t)) /\ Fits(RetrialBegan(t))
  <2>1. trials[t].nonce \in Nonces /\ trials[t].nonce # 0
    BY <1>2, NobodyIsNoTrial DEF IInv, NoncesFit
  <2> QED BY <1>0, <2>1 DEF TrialBegan, RetrialBegan, Destructive
<1>3. Fits(RollbackDeclared) /\ Fits(RollbackFailed) /\ Fits(CommitRecorded) /\ Fits(RollbackRecorded)
  <2>1. {"RollbackIntent", "Stuck", "Committed", "RolledBack"} \subseteq Phases
    BY <1>0 DEF Destructive
  <2>2. Fits(RollbackDeclared)
    BY <1>0, <2>1 DEF RollbackDeclared
  <2>3. Fits(RollbackFailed)
    <3>1. ASSUME NEW tries \in Nat
          PROVE  Fits([To("Stuck") EXCEPT !.nonce = 0, !.tries = tries])
      BY <1>0, <2>1
    <3>2. To("Stuck").tries \in Nat
      BY <1>0
    <3>3. To("Stuck").tries + 1 \in Nat
      BY <3>2
    <3> HIDE DEF To, Records
    <3> QED BY <3>1, <3>3 DEF RollbackFailed
  <2>4. Fits(CommitRecorded) /\ Fits(RollbackRecorded)
    BY <1>0, <2>1 DEF CommitRecorded, RollbackRecorded
  <2> QED BY <2>2, <2>3, <2>4
<1>4. Fits(TrialPlanned)
  BY <1>0, NobodyIsNoTrial DEF TrialPlanned, Destructive
<1>5. {"Abandoned", "Armed", "Moving", "Prepared", "Retired", "Gone"}
          \subseteq Phases \ {"TrialStarting", "Trial"}
  BY <1>0 DEF Destructive, Over
<1> SUFFICES Fits(record')
  OBVIOUS
<1> HIDE DEF Fits
<1>6. CASE OldStays \/ EntranceFails \/ RecordsArmed \/ Admits
  BY <1>1, <1>5, <1>6 DEF OldStays, EntranceFails, RecordsArmed, Admits, Record
<1>7. CASE EndsReverted \/ EndsRolledBack \/ EndsCommitted \/ StartRetires
  BY <1>1, <1>5, <1>7 DEF EndsReverted, EndsRolledBack, EndsCommitted, Ends, StartRetires
<1>8. CASE ActivationCut \/ TrialNotLaunched \/ TrialNotRecorded \/ DeclaresRollback \/ Sticks
           \/ RestoringCut \/ DeclaresRolledBack
  BY <1>3, <1>8 DEF ActivationCut, TrialNotLaunched, TrialNotRecorded, DeclaresRollback, Sticks,
     RestoringCut, DeclaresRolledBack
<1>9. CASE WatchCommits \/ WatchGivesUp \/ Commits
  BY <1>0, <1>3, <1>9 DEF WatchCommits, WatchGivesUp, Commits, Fits
<1>10. CASE RecordsTrial \/ RecordsRetrial
  <2>1. holder.successor \in Trials /\ Born(holder.successor)
    BY <1>10 DEF RecordsTrial, RecordsRetrial, Applier, IInv, SuccessorFits
  <2> QED BY <1>2, <1>10, <2>1 DEF RecordsTrial, RecordsRetrial
<1>11. ASSUME NEW t \in Trials, Adopts(t) PROVE Fits(record')
  BY <1>2, <1>11 DEF Adopts, Vouchers, Adoptable, Running, Born
<1>12. CASE ReservesLastTrial
  BY <1>0, <1>4, <1>12 DEF ReservesLastTrial, Fits
<1>13. ASSUME NEW t \in Trials, CommitsLastTrial(t) PROVE Fits(record')
  BY <1>3, <1>13 DEF CommitsLastTrial
<1>14. CASE record' = record
  BY <1>0, <1>14 DEF Fits
<1>15. JournalMoves => Fits(record')
  BY <1>6, <1>7, <1>8, <1>9, <1>10, <1>11, <1>12, <1>13 DEF JournalMoves
<1>16. FilesMove => Fits(record')
  BY <1>7, <1>14, FilesLeave
<1>17. TrialsMove \/ RoadMoves \/ WindowMoves => record' = record
  BY RoadLeaves, WindowsLeave, TrialsLeave DEF disk
<1> QED BY <1>14, <1>15, <1>16, <1>17, NextBySort

LEMMA TrialsTyped ==
    ASSUME TypeOK, Next
    PROVE  trials' \in [Trials -> Processes]
<1>0. trials \in [Trials -> Processes]
  BY DEF TypeOK
<1>1. ASSUME NEW t, NEW s \in {"launched", "started", "claimed", "granted", "vouched", "released", "ended"},
             trials' = [trials EXCEPT ![t].step = s]
      PROVE  trials' \in [Trials -> Processes]
  BY <1>0, <1>1 DEF Processes
<1>2. ASSUME NEW t \in Trials, NEW nonce \in {0} \cup Nonces, Launched(t, nonce)
      PROVE  trials' \in [Trials -> Processes]
  BY <1>0, <1>2 DEF Launched, Processes
<1>3. ASSUME NEW t \in Trials, TrialStarts(t) PROVE trials' \in [Trials -> Processes]
  BY <1>0, <1>3 DEF TrialStarts, Processes, Moving
<1>4. CASE PowerCut
  BY <1>0, <1>4 DEF PowerCut, Processes
<1>5. CASE EndsHandedBack \/ StopsTrial \/ TrialNotRecorded
  BY <1>0, <1>1, <1>5 DEF EndsHandedBack, StopsTrial, TrialNotRecorded, Ended
<1>6. ASSUME NEW t \in Trials,
             LaunchesTrial(t) \/ RetriesAsTrial(t) \/ GuardStartsTrial(t) \/ StandsIn(t)
      PROVE  trials' \in [Trials -> Processes]
  <2>1. t \in Nonces /\ Reserved \in Nonces /\ record.nonce \in {0} \cup Nonces
    BY NobodyIsNoTrial DEF TypeOK, Records
  <2> QED BY <1>2, <1>6, <2>1 DEF LaunchesTrial, RetriesAsTrial, GuardStartsTrial, StandsIn
<1>7. ASSUME NEW t \in Trials,
             \/ StartsAsNoTrial(t) \/ TrialClaims(t) \/ ReceiptGranted(t) \/ WritesReceipt(t)
             \/ TrialReleases(t) \/ TrialEnds(t)
      PROVE  trials' \in [Trials -> Processes]
  BY <1>1, <1>7 DEF StartsAsNoTrial, TrialClaims, ReceiptGranted, WritesReceipt, TrialReleases,
     TrialEnds, Ended, Step
<1>8. TrialsMove => trials' \in [Trials -> Processes]
  BY <1>3, <1>4, <1>5, <1>6, <1>7 DEF TrialsMove
<1>9. JournalMoves => trials' = trials \/ TrialNotRecorded
  BY DEF JournalMoves, OldStays, EntranceFails, RecordsArmed, Admits, ActivationCut,
     TrialNotLaunched, RecordsTrial, WatchCommits, WatchGivesUp, DeclaresRollback,
     Commits, Sticks, DeclaresRolledBack, RecordsRetrial, RestoringCut, ReservesLastTrial,
     EndsReverted, EndsRolledBack, EndsCommitted, Ends, Adopts, CommitsLastTrial
<1> QED BY <1>0, <1>5, <1>8, <1>9, NextBySort, RoadLeaves, WindowsLeave, FilesLeave

LEMMA HolderTyped ==
    ASSUME TypeOK, Next
    PROVE  holder' \in Holders
<1>0. holder \in Holders /\ UpdateAssumption
  BY UpdateAssumption DEF TypeOK
<1>1. NoHolder \in Holders
  BY UpdateAssumption DEF NoHolder, Holders, HolderSteps
<1>2. ASSUME NEW s \in HolderSteps, Goes(s) PROVE holder' \in Holders
  BY <1>0, <1>2 DEF Goes, Holders
<1>3. ASSUME Settles PROVE holder' \in Holders
  BY <1>0, <1>3 DEF Settles, Holders, HolderSteps
<1>4. ASSUME NEW owed, Leaves(owed) PROVE holder' \in Holders
  BY <1>1, <1>4 DEF Leaves
<1>5. ASSUME NEW next, NEW s \in HolderSteps, Record(next, s) PROVE holder' \in Holders
  BY <1>2, <1>5 DEF Record
<1>6. {"arming", "armed", "moving", "trying", "watching", "looking", "restoring", "reverting", "finishing",
       "retiring", "deleting", "ending", "retrying"} \subseteq HolderSteps
  BY DEF HolderSteps
<1>7. JournalMoves => holder' \in Holders
  <2>1. CASE OldStays \/ EntranceFails \/ EndsReverted \/ EndsRolledBack \/ EndsCommitted
    BY <1>4, <2>1 DEF OldStays, EntranceFails, EndsReverted, EndsRolledBack, EndsCommitted, Ends
  <2>2. CASE RecordsArmed \/ Admits \/ ActivationCut \/ TrialNotLaunched \/ RecordsTrial
             \/ TrialNotRecorded \/ WatchCommits \/ DeclaresRollback
    BY <1>5, <1>6, <2>2 DEF RecordsArmed, Admits, ActivationCut, TrialNotLaunched, RecordsTrial,
       TrialNotRecorded, WatchCommits, DeclaresRollback
  <2>3. CASE Commits \/ Sticks \/ DeclaresRolledBack \/ RecordsRetrial \/ RestoringCut
    BY <1>5, <1>6, <2>3 DEF Commits, Sticks, DeclaresRolledBack, RecordsRetrial, RestoringCut
  <2>4. CASE WatchGivesUp
    BY <1>2, <1>5, <1>6, <2>4 DEF WatchGivesUp
  <2>5. ASSUME NEW t \in Trials, Adopts(t) PROVE holder' \in Holders
    <3>1. PICK retried \in BOOLEAN, turn \in 0..Turns :
             holder' = [holder EXCEPT !.step = "looking", !.successor = t, !.retried = retried,
                                      !.turn = turn]
      <4>1. /\ holder' = [holder EXCEPT !.step = "looking", !.successor = t,
                                        !.retried = holder.retried \/ Retrying,
                                        !.turn = IF Retrying THEN 0 ELSE holder.turn]
            /\ 0 \in 0..Turns /\ holder.turn \in 0..Turns
        BY <1>0, <2>5 DEF Adopts, Holders, UpdateAssumption
      <4>2. (holder.retried \/ Retrying) \in BOOLEAN
        OBVIOUS
      <4> QED BY <4>1, <4>2
    <3> QED BY <1>0, <1>6, <3>1 DEF Holders
  <2>6. CASE ReservesLastTrial \/ \E t \in Trials : CommitsLastTrial(t)
    BY <1>0, <2>6 DEF ReservesLastTrial, CommitsLastTrial
  <2> QED BY <2>1, <2>2, <2>3, <2>4, <2>5, <2>6 DEF JournalMoves
<1>8. TrialsMove => holder' \in Holders
  <2>1. ASSUME NEW t \in Trials, LaunchesTrial(t) \/ RetriesAsTrial(t) PROVE holder' \in Holders
    BY <1>0, <2>1 DEF LaunchesTrial, RetriesAsTrial, Holders, HolderSteps
  <2>2. CASE StopsTrial \/ PowerCut
    BY <1>1, <1>3, <2>2 DEF StopsTrial, PowerCut
  <2>3. ASSUME TrialsMove, ~(\E t \in Trials : LaunchesTrial(t) \/ RetriesAsTrial(t)),
               ~StopsTrial, ~PowerCut
        PROVE  holder' = holder
    BY <2>3 DEF TrialsMove, EndsHandedBack, GuardStartsTrial, StandsIn, TrialStarts,
       StartsAsNoTrial, TrialClaims, ReceiptGranted, WritesReceipt, TrialReleases, TrialEnds
  <2> QED BY <1>0, <2>1, <2>2, <2>3
<1>9. RoadMoves => holder' \in Holders
  <2>1. CASE EntranceFound \/ Arms \/ NotAdmitted \/ AdmissionDropped \/ Reverts \/ Awaits
             \/ GivesUp \/ HoldsAdmission \/ RollbackWaits \/ TrialHasDecided \/ RetryLooks
    BY <1>2, <1>6, <2>1 DEF EntranceFound, Arms, NotAdmitted, AdmissionDropped, Reverts, Awaits,
       GivesUp, HoldsAdmission, RollbackWaits, TrialHasDecided, RetryLooks
  <2>2. CASE Look
    <3>1. holder.step = "looking" /\ ~TurnsSpent
      BY <2>2 DEF Look
    <3>2. holder.turn + 1 \in 0..Turns
      BY <1>0, <3>1 DEF TurnsSpent, Holders, UpdateAssumption
    <3>3. PICK heard \in {Answered, FALSE}, alive \in Sights, late \in BOOLEAN :
             holder' = [holder EXCEPT !.step = "deciding", !.turn = holder.turn + 1,
                                      !.heard = heard, !.alive = alive, !.late = late]
      BY <1>0, <2>2 DEF Look, Holders
    <3>4. Answered \in BOOLEAN /\ Sights \subseteq BOOLEAN
      BY DEF Answered, Sights, Running
    <3>5. heard \in BOOLEAN /\ alive \in BOOLEAN
      BY <3>4
    <3> HIDE DEF Answered, Running
    <3> QED BY <1>0, <3>2, <3>3, <3>4, <3>5 DEF Holders, HolderSteps
  <2>3. CASE Defers \/ Unlisted \/ NothingToDecide \/ RoadEnds \/ RoadFails \/ \E t \in Trials : AdoptionRefused(t)
    BY <1>4, <2>3 DEF Defers, Unlisted, NothingToDecide, RoadEnds, RoadFails, AdoptionRefused
  <2>4. CASE Restored \/ Finishes \/ Disarms
    BY <1>0, <1>2, <1>3, <1>6, <2>4 DEF Restored, Finishes, Disarms
  <2>5. ASSUME NEW person \in BOOLEAN, NEW from \in {Nobody} \cup Trials, NEW ready \in BOOLEAN,
               Recovers(person, from, ready)
        PROVE  holder' \in Holders
    BY <1>1, <2>5 DEF Recovers, Holders, HolderSteps
  <2>6. CASE StartRecovers \/ LogonRecovers \/ HolderDies
    BY <1>1, <2>5, <2>6 DEF StartRecovers, LogonRecovers, HolderDies
  <2>7. ASSUME NEW t \in Trials, HandsBack(t) PROVE holder' \in Holders
    <3>1. PICK ready \in {TRUE, trials[t].step = "vouched"} : Recovers(FALSE, t, ready)
      BY <2>7 DEF HandsBack
    <3>2. ready \in BOOLEAN
      OBVIOUS
    <3> QED BY <2>5, <3>1, <3>2
  <2> QED BY <2>1, <2>2, <2>3, <2>4, <2>6, <2>7 DEF RoadMoves
<1> QED BY <1>0, <1>7, <1>8, <1>9, NextBySort, FilesLeave, WindowsLeave

LEMMA RestTyped ==
    ASSUME TypeOK, Next
    PROVE  /\ entrance' \in BOOLEAN /\ misread' \in BOOLEAN
           /\ receipts' \in [Nonces -> {Nobody} \cup Trials]
<1> USE DEF TypeOK
<1>1. entrance' \in BOOLEAN
  <2>1. RoadMoves => entrance' \in BOOLEAN
    BY DEF RoadMoves, EntranceFound, Arms, NotAdmitted, AdmissionDropped, Look, Defers, Unlisted, RetryLooks,
       AdoptionRefused, Reverts, Awaits, GivesUp, HoldsAdmission, RollbackWaits, Restored, Finishes,
       NothingToDecide, TrialHasDecided, Disarms, RoadEnds, RoadFails, StartRecovers, LogonRecovers,
       HandsBack, Recovers, HolderDies, disk
  <2>2. StartRetires => entrance' \in BOOLEAN
    BY DEF StartRetires
  <2> QED BY <2>1, <2>2, NextBySort, FilesLeave, JournalLeaves, TrialsLeave, WindowsLeave DEF disk
<1>2. misread' \in BOOLEAN
  <2>1. misread' \in BOOLEAN
    <3>1. JournalMoves => misread' = misread \/ misread' = TRUE
      BY DEF JournalMoves, OldStays, EntranceFails, RecordsArmed, Admits, ActivationCut,
         TrialNotLaunched, RecordsTrial, TrialNotRecorded, WatchCommits, WatchGivesUp,
         DeclaresRollback, Commits, Sticks, DeclaresRolledBack, RecordsRetrial, RestoringCut,
         ReservesLastTrial, EndsReverted, EndsRolledBack, EndsCommitted, Ends, Adopts,
         CommitsLastTrial, history
    <3>2. Look => misread' \in BOOLEAN
      BY DEF Look
    <3>3. RoadMoves => misread' = misread \/ Look
      BY DEF RoadMoves, EntranceFound, Arms, NotAdmitted, AdmissionDropped, Defers, Unlisted, RetryLooks,
         AdoptionRefused, Reverts, Awaits, GivesUp, HoldsAdmission, RollbackWaits, Restored, Finishes,
         NothingToDecide, TrialHasDecided, Disarms, RoadEnds, RoadFails, StartRecovers,
         LogonRecovers, HandsBack, Recovers, HolderDies, history
    <3> QED BY <3>1, <3>2, <3>3, NextBySort, FilesLeave, TrialsLeave, WindowsLeave DEF history
  <2> QED BY <2>1
<1>3. receipts' \in [Nonces -> {Nobody} \cup Trials]
  <2>1. ASSUME NEW t \in Trials, WritesReceipt(t) \/ TrialReleases(t)
        PROVE  receipts' \in [Nonces -> {Nobody} \cup Trials]
    BY <2>1 DEF WritesReceipt, TrialReleases
  <2>2. StartRetires => receipts' = receipts
    BY DEF StartRetires
  <2>3. ASSUME TrialsMove, ~\E t \in Trials : WritesReceipt(t) \/ TrialReleases(t)
        PROVE  receipts' = receipts
    BY <2>3 DEF TrialsMove, EndsHandedBack, StopsTrial, PowerCut, LaunchesTrial, RetriesAsTrial,
       GuardStartsTrial, StandsIn, TrialStarts, StartsAsNoTrial, TrialClaims, ReceiptGranted,
       TrialEnds, Step, disk
  <2> QED BY <2>1, <2>3, NextBySort, RoadLeaves, FilesLeave, JournalLeaves, WindowsLeave DEF disk
<1> QED BY <1>1, <1>2, <1>3

LEMMA DesktopTyped ==
    ASSUME TypeOK, Next
    PROVE  /\ guard' \in {"none", "owed", "plain", "rescue", "fallback", "trial", "last", "reserved"}
           /\ window' \in {"none", "old", "plain", "rescue"}
           /\ faults' \in Nat
<1> DEFINE Guards == {"none", "owed", "plain", "rescue", "fallback", "trial", "last", "reserved"}
           Fits == guard' \in Guards /\ window' \in {"none", "old", "plain", "rescue"} /\ faults' \in Nat
<1>0. guard \in Guards /\ window \in {"none", "old", "plain", "rescue"} /\ faults \in Nat
  BY DEF TypeOK
<1>1. (\A n \in Nat : Faults(n) => faults' \in Nat) /\ (Fault => faults' \in Nat)
  BY <1>0 DEF Fault, Faults
<1>2. LaunchRefused => faults' \in Nat
  BY <1>0, <1>1 DEF LaunchRefused
<1>3. ASSUME NEW owed, Leaves(owed) PROVE guard' \in Guards
  BY <1>0, <1>3 DEF Leaves
<1> SUFFICES Fits
  OBVIOUS
<1> HIDE DEF Guards
<1>4. FilesMove => Fits
  BY <1>0, FilesLeave
<1>5. JournalMoves => Fits
  <2>1. CASE OldStays \/ EntranceFails \/ EndsReverted \/ EndsRolledBack \/ EndsCommitted
    BY <1>0, <1>1, <1>3, <2>1 DEF OldStays, EntranceFails, EndsReverted, EndsRolledBack, EndsCommitted,
       Ends
  <2>2. CASE RecordsArmed \/ Admits \/ ActivationCut \/ TrialNotLaunched \/ RecordsTrial
             \/ TrialNotRecorded \/ WatchCommits \/ DeclaresRollback
    BY <1>0, <1>1, <1>2, <2>2 DEF RecordsArmed, Admits, ActivationCut, TrialNotLaunched, RecordsTrial,
       TrialNotRecorded, WatchCommits, DeclaresRollback
  <2>3. CASE Commits \/ Sticks \/ DeclaresRolledBack \/ RecordsRetrial \/ RestoringCut \/ WatchGivesUp
    BY <1>0, <1>1, <2>3 DEF Commits, Sticks, DeclaresRolledBack, RecordsRetrial, RestoringCut,
       WatchGivesUp
  <2>4. CASE ReservesLastTrial
    BY <1>0, <2>4 DEF ReservesLastTrial, Guards
  <2>5. ASSUME NEW t \in Trials, Adopts(t) \/ CommitsLastTrial(t) PROVE Fits
    BY <1>0, <2>5 DEF Adopts, CommitsLastTrial
  <2> QED BY <2>1, <2>2, <2>3, <2>4, <2>5 DEF JournalMoves
<1>6. TrialsMove => Fits
  <2>1. CASE EndsHandedBack \/ StopsTrial \/ PowerCut
    BY <1>0, <1>1, <2>1 DEF EndsHandedBack, StopsTrial, PowerCut, Guards
  <2>2. ASSUME NEW t \in Trials,
               LaunchesTrial(t) \/ RetriesAsTrial(t) \/ StandsIn(t) \/ GuardStartsTrial(t)
        PROVE  Fits
    BY <1>0, <2>2 DEF LaunchesTrial, RetriesAsTrial, StandsIn, GuardStartsTrial, Guards
  <2>3. ASSUME NEW t \in Trials,
               \/ TrialStarts(t) \/ StartsAsNoTrial(t) \/ TrialClaims(t) \/ ReceiptGranted(t)
               \/ WritesReceipt(t) \/ TrialReleases(t) \/ TrialEnds(t)
        PROVE  Fits
    BY <1>0, <2>3 DEF TrialStarts, StartsAsNoTrial, TrialClaims, ReceiptGranted, WritesReceipt,
       TrialReleases, TrialEnds
  <2> QED BY <2>1, <2>2, <2>3 DEF TrialsMove
<1>7. RoadMoves => Fits
  <2>1. CASE EntranceFound \/ Arms \/ NotAdmitted \/ AdmissionDropped \/ Reverts \/ Awaits
             \/ GivesUp \/ HoldsAdmission \/ RollbackWaits \/ TrialHasDecided
    BY <1>0, <1>1, <2>1 DEF EntranceFound, Arms, NotAdmitted, AdmissionDropped, Reverts, Awaits,
       GivesUp, HoldsAdmission, RollbackWaits, TrialHasDecided
  <2>2. CASE Defers \/ Unlisted \/ NothingToDecide \/ RoadEnds \/ RoadFails \/ \E t \in Trials : AdoptionRefused(t)
    BY <1>0, <1>1, <1>2, <1>3, <2>2 DEF Defers, Unlisted, NothingToDecide, RoadEnds, RoadFails, AdoptionRefused
  <2>3. CASE Restored \/ Finishes \/ Disarms \/ HolderDies
    BY <1>0, <1>1, <2>3 DEF Restored, Finishes, Disarms, HolderDies
  <2>4. CASE StartRecovers \/ LogonRecovers \/ \E t \in Trials : HandsBack(t)
    BY <1>0, <2>4 DEF StartRecovers, LogonRecovers, HandsBack, Recovers
  <2>5. CASE Look \/ RetryLooks
    <3>1. guard' = guard /\ window' = window
      BY <2>5 DEF Look, RetryLooks
    <3>2. \A alive : Cost(alive) \in Nat
      BY DEF Cost
    <3>3. \E n \in Nat : Faults(n)
      <4>1. CASE Look
        <5>1. PICK heard \in {Answered, FALSE}, alive \in Sights :
                 Faults((IF heard # Answered THEN 1 ELSE 0) + Cost(alive))
          BY <4>1 DEF Look
        <5>2. (IF heard # Answered THEN 1 ELSE 0) + Cost(alive) \in Nat
          BY <3>2
        <5> QED BY <5>1, <5>2
      <4>2. CASE RetryLooks
        BY <3>2, <4>2 DEF RetryLooks
      <4> QED BY <2>5, <4>1, <4>2
    <3> QED BY <1>0, <1>1, <3>1, <3>3
  <2> QED BY <2>1, <2>2, <2>3, <2>4, <2>5 DEF RoadMoves
<1>8. WindowMoves => Fits
  <2>1. CASE OldLeaves \/ WindowCloses \/ GoesOnWithout
    BY <1>0, <1>1, <2>1 DEF OldLeaves, WindowCloses, GoesOnWithout
  <2>2. CASE GuardReads
    <3>1. OpensNow \in {"plain", "trial", "last", "rescue"}
      BY DEF OpensNow
    <3> QED BY <1>0, <2>2, <3>1 DEF GuardReads, Guards
  <2>3. CASE GuardStarts
    BY <1>0, <2>3 DEF GuardStarts, Guards
  <2>4. CASE GuardRefused
    BY <1>0, <1>2, <2>4 DEF GuardRefused, Guards
  <2> QED BY <2>1, <2>2, <2>3, <2>4 DEF WindowMoves
<1> QED BY <1>4, <1>5, <1>6, <1>7, <1>8, NextBySort

(* A rollback is declared on the trial recorded, and on no other.          *)
LEMMA DeclaredGrows ==
    ASSUME Next
    PROVE  \/ declared' = declared
           \/ /\ WatchGivesUp \/ DeclaresRollback
              /\ record.phase = "Trial" /\ record' = RollbackDeclared
              /\ declared' = declared \cup {record.trial}
<1>1. JournalMoves => declared' = declared \/ WatchGivesUp \/ DeclaresRollback
  BY DEF JournalMoves, OldStays, EntranceFails, RecordsArmed, Admits, ActivationCut,
     TrialNotLaunched, RecordsTrial, TrialNotRecorded, WatchCommits, Commits, Sticks,
     DeclaresRolledBack, RecordsRetrial, RestoringCut, ReservesLastTrial, EndsReverted,
     EndsRolledBack, EndsCommitted, Ends, Adopts, CommitsLastTrial, history
<1>2. WatchGivesUp \/ DeclaresRollback =>
          \/ declared' = declared
          \/ /\ record.phase = "Trial" /\ record' = RollbackDeclared
             /\ declared' = declared \cup {record.trial}
  BY DEF WatchGivesUp, DeclaresRollback, Record
<1> QED BY <1>1, <1>2, NextBySort, RoadLeaves, FilesLeave, TrialsLeave, WindowsLeave DEF history

(* A look takes for ended the trial recorded, and no other.                *)
LEMMA UnseenGrows ==
    ASSUME Next
    PROVE  /\ unseen' = unseen \/ (Running(record.trial) /\ unseen' = unseen \cup {record.trial})
           /\ unseen \subseteq unseen'
<1>1. JournalMoves => unseen' = unseen
  BY DEF JournalMoves, OldStays, EntranceFails, RecordsArmed, Admits, ActivationCut,
     TrialNotLaunched, RecordsTrial, TrialNotRecorded, WatchCommits, WatchGivesUp,
     DeclaresRollback, Commits, Sticks, DeclaresRolledBack, RecordsRetrial, RestoringCut,
     ReservesLastTrial, EndsReverted, EndsRolledBack, EndsCommitted, Ends, Adopts,
     CommitsLastTrial, history
<1>2. RoadMoves => unseen' = unseen \/ Look \/ RetryLooks
  BY DEF RoadMoves, EntranceFound, Arms, NotAdmitted, AdmissionDropped, Defers, Unlisted,
     AdoptionRefused, Reverts, Awaits, GivesUp, HoldsAdmission, RollbackWaits, Restored, Finishes,
     NothingToDecide, TrialHasDecided, Disarms, RoadEnds, RoadFails, StartRecovers,
     LogonRecovers, HandsBack, Recovers, HolderDies, history
<1>3. Look \/ RetryLooks => \E alive : Marks(alive)
  BY DEF Look, RetryLooks
<1>4. \A alive : Marks(alive) =>
          unseen' = unseen \/ (Running(record.trial) /\ unseen' = unseen \cup {record.trial})
  BY DEF Marks, Overlooked
<1> QED BY <1>1, <1>2, <1>3, <1>4, NextBySort, FilesLeave, TrialsLeave, WindowsLeave DEF history

LEMMA TypeStep ==
    ASSUME IInv, Next
    PROVE  TypeOK'
<1>1. declared' \subseteq Trials
  BY DeclaredGrows DEF IInv, TypeOK, Records, RecordedTrialFits, Nobody
<1>2. TypeOK
  BY DEF IInv
<1>3. unseen' \subseteq Trials
  BY <1>2, UnseenGrows DEF TypeOK, Records, Running
<1> QED BY <1>1, <1>2, <1>3, FilesTyped, RecordTyped, TrialsTyped, HolderTyped, RestTyped, DesktopTyped
        DEF TypeOK

-----------------------------------------------------------------------------
(* The journal's events, field by field.                                   *)
LEMMA PhaseSays ==
    ASSUME TypeOK, NEW p
    PROVE  /\ To(p).phase = p /\ To(p).nonce = record.nonce /\ To(p).trial = record.trial
           /\ To(p).outcome = record.outcome
BY DEF TypeOK, Records, To

LEMMA RollbackSays ==
    ASSUME TypeOK
    PROVE  /\ /\ RollbackDeclared.phase = "RollbackIntent" /\ RollbackDeclared.nonce = 0
              /\ RollbackDeclared.trial = record.trial /\ RollbackDeclared.outcome = record.outcome
           /\ /\ RollbackFailed.phase = "Stuck" /\ RollbackFailed.nonce = 0
              /\ RollbackFailed.trial = record.trial /\ RollbackFailed.outcome = record.outcome
           /\ /\ RollbackRecorded.phase = "RolledBack" /\ RollbackRecorded.nonce = record.nonce
              /\ RollbackRecorded.trial = record.trial /\ RollbackRecorded.outcome = "rolled back"
<1>0. record \in Records
  BY DEF TypeOK
<1> USE <1>0 DEF Records, To
<1>1. /\ RollbackDeclared.phase = "RollbackIntent" /\ RollbackDeclared.nonce = 0
      /\ RollbackDeclared.trial = record.trial /\ RollbackDeclared.outcome = record.outcome
  BY DEF RollbackDeclared
<1>2. /\ RollbackFailed.phase = "Stuck" /\ RollbackFailed.nonce = 0
      /\ RollbackFailed.trial = record.trial /\ RollbackFailed.outcome = record.outcome
  BY DEF RollbackFailed
<1>3. /\ RollbackRecorded.phase = "RolledBack" /\ RollbackRecorded.nonce = record.nonce
      /\ RollbackRecorded.trial = record.trial /\ RollbackRecorded.outcome = "rolled back"
  BY DEF RollbackRecorded
<1> QED BY <1>1, <1>2, <1>3

LEMMA CommitSays ==
    ASSUME TypeOK
    PROVE  /\ CommitRecorded.phase = "Committed" /\ CommitRecorded.nonce = record.nonce
           /\ CommitRecorded.trial = record.trial /\ CommitRecorded.outcome = "committed"
BY DEF TypeOK, Records, CommitRecorded, To

LEMMA TrialSays ==
    ASSUME TypeOK, NEW t
    PROVE  /\ /\ TrialPlanned.phase = "TrialStarting" /\ TrialPlanned.nonce = Reserved
              /\ TrialPlanned.trial = record.trial /\ TrialPlanned.outcome = record.outcome
           /\ /\ TrialBegan(t).phase = "Trial" /\ TrialBegan(t).nonce = trials[t].nonce
              /\ TrialBegan(t).trial = t /\ TrialBegan(t).outcome = record.outcome
           /\ /\ RetrialBegan(t).phase = record.phase /\ RetrialBegan(t).nonce = trials[t].nonce
              /\ RetrialBegan(t).trial = t /\ RetrialBegan(t).outcome = record.outcome
BY DEF TypeOK, Records, TrialPlanned, TrialBegan, RetrialBegan, To

(* The holder's next step, and who holds the lock.                         *)
LEMMA StepsSay ==
    ASSUME TypeOK
    PROVE  /\ \A s : Goes(s) => holder'.step = s /\ holder'.who = holder.who
           /\ \A r, s : Record(r, s) => record' = r /\ holder'.step = s /\ holder'.who = holder.who
           /\ Settles => holder'.step = "looking" /\ holder'.who = holder.who
           /\ \A owed : Leaves(owed) => holder'.step = "none" /\ holder'.who = "none"
           /\ NoHolder.step = "none" /\ NoHolder.who = "none"
           /\ \A person, from, ready : Recovers(person, from, ready) =>
                  holder.who = "none" /\ holder'.step = "looking" /\ holder'.who = "R"
<1>0. holder \in Holders
  BY DEF TypeOK
<1>1. \A s : Goes(s) => holder'.step = s /\ holder'.who = holder.who
  BY <1>0 DEF Holders, Goes
<1>2. \A r, s : Record(r, s) => record' = r /\ holder'.step = s /\ holder'.who = holder.who
  BY <1>1 DEF Record
<1>3. Settles => holder'.step = "looking" /\ holder'.who = holder.who
  BY <1>0 DEF Holders, Settles
<1>4. NoHolder.step = "none" /\ NoHolder.who = "none"
  BY DEF NoHolder
<1>5. \A owed : Leaves(owed) => holder'.step = "none" /\ holder'.who = "none"
  BY <1>4 DEF Leaves
<1>6. \A person, from, ready : Recovers(person, from, ready) =>
          holder.who = "none" /\ holder'.step = "looking" /\ holder'.who = "R"
  BY DEF Recovers, NoHolder
<1> QED BY <1>1, <1>2, <1>3, <1>4, <1>5, <1>6

-----------------------------------------------------------------------------
(* The road and the journal.                                               *)
LEMMA BornHasNonce ==
    ASSUME IInv, NEW t \in Trials, Born(t)
    PROVE  trials[t].nonce \in Nonces /\ trials[t].nonce # 0
BY NobodyIsNoTrial DEF IInv, NoncesFit

LEMMA StepFitsStep ==
    ASSUME IInv, Next
    PROVE  StepFitsRecord'
<1> USE DEF StepFitsRecord
<1>0. TypeOK /\ StepFitsRecord /\ holder \in Holders
  BY DEF IInv, TypeOK
<1>1. ASSUME NEW s, Goes(s) PROVE holder'.step = s /\ holder'.who = holder.who
  BY <1>0, <1>1, StepsSay
<1>2. ASSUME NEW s, NEW r, Record(r, s)
      PROVE  record' = r /\ holder'.step = s /\ holder'.who = holder.who
  BY <1>1, <1>2 DEF Record
<1>3. CASE UNCHANGED <<record, holder>>
  BY <1>0, <1>3
<1>4. CASE holder'.step = "none" /\ holder'.who = "none"
  BY <1>4
<1>5. CASE holder.who = "none" /\ holder' = holder
  BY <1>0, <1>5
<1>6. CASE holder'.step = "looking" /\ holder'.who # "none"
  BY <1>6
<1>7. JournalMoves => StepFitsRecord'
  <2>1. CASE OldStays \/ EntranceFails \/ EndsReverted \/ EndsRolledBack \/ EndsCommitted
    BY <1>0, <1>4, <2>1, StepsSay DEF OldStays, EntranceFails, EndsReverted, EndsRolledBack,
       EndsCommitted, Ends
  <2>2. CASE RecordsArmed \/ Admits
    BY <1>0, <1>2, <2>2, PhaseSays DEF RecordsArmed, Admits, Applier
  <2>3. CASE WatchCommits \/ Commits
    BY <1>0, <1>2, <2>3, CommitSays DEF WatchCommits, Watching, Commits, Decides
  <2>4. CASE Sticks \/ RestoringCut
    <3>1. Record(RollbackFailed, "ending") /\ holder.step \in {"deciding", "looking", "restoring"}
      BY <2>4 DEF Sticks, Decides, TurnsSpent, RestoringCut
    <3>2. record' = RollbackFailed /\ holder'.step = "ending" /\ holder'.who = holder.who
      BY <1>2, <3>1
    <3>3. RollbackFailed.phase = "Stuck"
      BY <1>0, RollbackSays
    <3> QED BY <1>0, <3>1, <3>2, <3>3
  <2>5. CASE ActivationCut \/ TrialNotLaunched \/ TrialNotRecorded
    BY <1>0, <1>2, <1>6, <2>5 DEF ActivationCut, TrialNotLaunched, TrialNotRecorded, Applier
  <2>6. CASE DeclaresRollback \/ DeclaresRolledBack
    BY <1>0, <1>2, <1>6, <2>6 DEF DeclaresRollback, Decides, DeclaresRolledBack, Restorable
  <2>7. CASE RecordsTrial \/ RecordsRetrial
    <3>1. trials[holder.successor].nonce # 0
      BY <2>7, BornHasNonce DEF RecordsTrial, RecordsRetrial, Applier, IInv, SuccessorFits
    <3>2. CASE RecordsTrial
      BY <1>0, <1>2, <3>1, <3>2, TrialSays DEF RecordsTrial, Applier
    <3>3. CASE RecordsRetrial
      BY <1>0, <1>2, <3>1, <3>3, TrialSays DEF RecordsRetrial
    <3> QED BY <2>7, <3>2, <3>3
  <2>8. CASE WatchGivesUp
    <3>1. CASE record.phase = "Trial"
      BY <1>0, <1>2, <1>6, <2>8, <3>1 DEF WatchGivesUp, Watching
    <3>2. CASE record.phase # "Trial"
      BY <1>0, <1>1, <2>8, <3>2 DEF WatchGivesUp, Watching
    <3> QED BY <3>1, <3>2
  <2>9. ASSUME NEW t \in Trials, Adopts(t) PROVE StepFitsRecord'
    <3>1. holder'.step = "looking" /\ holder'.who = holder.who
      BY <1>0, <2>9 DEF Adopts, Holders
    <3>2. holder.step \in {"deciding", "retrying"}
      BY <2>9 DEF Adopts, Surveyed, Retrying
    <3> QED BY <1>0, <1>6, <3>1, <3>2
  <2>10. CASE ReservesLastTrial
    BY <1>3, <1>5, <2>10 DEF ReservesLastTrial
  <2>11. ASSUME NEW t \in Trials, CommitsLastTrial(t) PROVE StepFitsRecord'
    BY <1>5, <2>11 DEF CommitsLastTrial
  <2> QED BY <2>1, <2>2, <2>3, <2>4, <2>5, <2>6, <2>7, <2>8, <2>9, <2>10, <2>11 DEF JournalMoves
<1>8. TrialsMove => StepFitsRecord'
  <2>1. ASSUME NEW t \in Trials, LaunchesTrial(t) PROVE StepFitsRecord'
    BY <1>0, <2>1 DEF LaunchesTrial, Applier, Holders, disk
  <2>2. ASSUME NEW t \in Trials, RetriesAsTrial(t) PROVE StepFitsRecord'
    BY <1>0, <2>2 DEF RetriesAsTrial, Retrying, Holders, disk
  <2>3. CASE StopsTrial
    BY <1>0, <1>6, <2>3, StepsSay DEF StopsTrial, Decides
  <2>4. CASE PowerCut
    BY <1>4, <2>4, StepsSay, <1>0 DEF PowerCut
  <2>5. ASSUME TrialsMove, ~(\E t \in Trials : LaunchesTrial(t) \/ RetriesAsTrial(t)),
               ~StopsTrial, ~PowerCut
        PROVE  holder' = holder
    BY <2>5 DEF TrialsMove, EndsHandedBack, GuardStartsTrial, StandsIn, TrialStarts,
       StartsAsNoTrial, TrialClaims, ReceiptGranted, WritesReceipt, TrialReleases, TrialEnds
  <2> QED BY <1>3, <2>1, <2>2, <2>3, <2>4, <2>5, TrialsLeave
<1>9. RoadMoves => StepFitsRecord'
  <2> HAVE RoadMoves
  <2>1. record' = record
    BY RoadLeaves
  <2>2. CASE EntranceFound \/ Arms
    BY <1>0, <1>1, <2>1, <2>2 DEF EntranceFound, Arms, Applier
  <2>3. CASE NotAdmitted \/ AdmissionDropped
    BY <1>0, <1>1, <2>1, <2>3 DEF NotAdmitted, AdmissionDropped, Applier
  <2>4. CASE Reverts \/ GivesUp
    BY <1>0, <1>1, <2>1, <2>4 DEF Reverts, GivesUp, Decides
  <2>5. CASE HoldsAdmission \/ RollbackWaits
    BY <1>0, <1>1, <2>1, <2>5 DEF HoldsAdmission, RollbackWaits, Restorable, Back, Decides
  <2>6. CASE Finishes \/ TrialHasDecided
    BY <1>0, <1>1, <2>1, <2>6 DEF Finishes, TrialHasDecided, Decides
  <2>7. CASE Awaits
    BY <1>0, <1>1, <2>1, <2>7 DEF Awaits, Decides, InTime, TypeOK
  <2>8. CASE Look
    <3>1. holder.step = "looking" /\ holder'.step = "deciding" /\ holder'.who = holder.who
      BY <1>0, <2>8 DEF Look, Holders
    <3> QED BY <1>0, <2>1, <3>1
  <2>9. CASE Restored
    BY <1>0, <1>6, <2>9, StepsSay DEF Restored
  <2>10. CASE Disarms
    BY <1>3, <2>10 DEF Disarms
  <2>11. CASE Defers \/ Unlisted \/ NothingToDecide \/ RoadEnds \/ RoadFails \/ HolderDies
              \/ \E t \in Trials : AdoptionRefused(t)
    BY <1>0, <1>4, <2>11, StepsSay DEF Defers, Unlisted, NothingToDecide, RoadEnds, RoadFails, HolderDies,
       AdoptionRefused
  <2>12. CASE StartRecovers \/ LogonRecovers \/ \E t \in Trials : HandsBack(t)
    BY <1>0, <1>6, <2>12, StepsSay DEF StartRecovers, LogonRecovers, HandsBack
  <2>13. CASE RetryLooks
    BY <1>0, <1>1, <2>1, <2>13 DEF RetryLooks, MayRetry
  <2> QED BY <2>2, <2>3, <2>4, <2>5, <2>6, <2>7, <2>8, <2>9, <2>10, <2>11, <2>12, <2>13 DEF RoadMoves
<1>10. FilesMove => StepFitsRecord'
  BY <1>3, <1>5, FilesLeave DEF StartRetires
<1>11. WindowMoves => StepFitsRecord'
  BY <1>3, WindowsLeave DEF disk
<1> QED BY <1>7, <1>8, <1>9, <1>10, <1>11, NextBySort

-----------------------------------------------------------------------------
(* How the journal goes on, and over what.                                 *)
Begins(t) ==
    /\ t \in Trials /\ Born(t) /\ NewIsLive /\ t \notin declared \ unseen
    /\ trials[t].nonce = Reserved => receipts[Reserved] # Nobody

Kept == record'.nonce = record.nonce /\ record'.trial = record.trial /\ record'.outcome = record.outcome

JournalStep ==
    \/ record.phase = "Handoff" /\ record'.phase \in {"Armed", "Abandoned"} /\ Kept
    \/ record.phase = "Armed" /\ entrance /\ record'.phase = "Moving" /\ Kept
    \/ record.phase \in {"Handoff", "Armed"} /\ record'.phase = "Prepared" /\ Kept
    \/ /\ record.phase = "Moving" /\ NewIsLive /\ record'.phase = "TrialStarting"
       /\ record'.nonce = Reserved /\ record'.trial = record.trial /\ record'.outcome = record.outcome
    \/ \E t \in Trials :
          /\ Begins(t)
          /\ \/ record.phase \in {"Moving", "TrialStarting"} /\ record'.phase = "Trial"
             \/ /\ record.phase = "Stuck" /\ record'.phase = "Stuck"
                /\ ~Running(record.trial) \/ Overseen
          /\ record'.nonce = trials[t].nonce /\ record'.trial = t /\ record'.outcome = record.outcome
    \/ /\ Answered \/ (record.phase = "TrialStarting" /\ declared = {})
       /\ misread \/ Overseen \/ NewIsLive
       /\ record'.phase = "Committed" /\ record'.nonce = record.nonce /\ record'.trial = record.trial
       /\ record'.outcome = "committed"
    \/ /\ \/ record.phase \in {"Moving", "TrialStarting", "Trial"} /\ record'.phase = "RollbackIntent"
          \/ record.phase \in {"RollbackIntent", "Stuck"} /\ record'.phase = "Stuck"
       /\ record'.nonce = 0 /\ record'.trial = record.trial /\ record'.outcome = record.outcome
    \/ /\ record.phase \in {"RollbackIntent", "Stuck"} /\ MovesAway \cup MovesBack = {}
       /\ record'.phase = "RolledBack" /\ record'.nonce = record.nonce /\ record'.trial = record.trial
       /\ record'.outcome = "rolled back"
    \/ record.phase \in {"Committed", "RolledBack"} /\ record'.phase = "Retired" /\ Kept
    \/ record.phase \in Over /\ record'.phase = "Gone" /\ Kept

LEMMA RunningIsBorn == ASSUME NEW t, Running(t) PROVE t # Nobody /\ Born(t)
BY DEF Running, Born

(* An answer is given over the whole new set, unless a receipt has been    *)
(* misread, or its trial taken for ended.                                  *)
LEMMA AnswerIsNew ==
    ASSUME IInv, Answered
    PROVE  misread \/ Overseen \/ NewIsLive
<1>1. record.phase = "Trial" \/ (record.phase = "Stuck" /\ record.nonce # 0)
  BY DEF Answered
<1> QED BY <1>1 DEF IInv, NewSetFits, Unanswerable

LEMMA JournalGoes ==
    ASSUME IInv, Next
    PROVE  record' = record \/ JournalStep
<1>0. TypeOK /\ StepFitsRecord /\ holder \in Holders
  BY DEF IInv, TypeOK
<1>1. ASSUME NEW s, NEW r, Record(r, s) PROVE record' = r
  BY <1>1 DEF Record
<1>2. JournalMoves => record' = record \/ JournalStep
  <2>1. CASE OldStays \/ EntranceFails \/ RecordsArmed
    <3>1. record.phase = "Handoff" /\ record' \in {To("Armed"), To("Abandoned")}
      BY <1>0, <1>1, <2>1 DEF OldStays, EntranceFails, RecordsArmed, Applier, StepFitsRecord
    <3> QED BY <1>0, <3>1, PhaseSays DEF JournalStep, Kept
  <2>2. CASE Admits
    <3>1. record.phase = "Armed" /\ entrance /\ record' = To("Moving")
      BY <1>0, <1>1, <2>2 DEF Admits, Applier, StepFitsRecord, IInv, EntranceFits
    <3> QED BY <1>0, <3>1, PhaseSays DEF JournalStep, Kept
  <2>3. CASE ActivationCut \/ TrialNotLaunched \/ TrialNotRecorded
    <3>1. record.phase = "Moving" /\ record' = RollbackDeclared
      BY <1>0, <1>1, <2>3 DEF ActivationCut, TrialNotLaunched, TrialNotRecorded, Applier, StepFitsRecord
    <3> QED BY <1>0, <3>1, RollbackSays DEF JournalStep
  <2>4. CASE WatchGivesUp \/ DeclaresRollback
    <3>1. record' = record \/ (record.phase \in {"Moving", "TrialStarting", "Trial"}
                               /\ record' = RollbackDeclared)
      BY <1>1, <2>4 DEF WatchGivesUp, DeclaresRollback
    <3> QED BY <1>0, <3>1, RollbackSays DEF JournalStep
  <2>5. CASE RecordsTrial \/ RecordsRetrial
    <3> DEFINE t == holder.successor
    <3>1. \/ holder.step = "launched" /\ record' = TrialBegan(t)
          \/ holder.step = "relaunched" /\ record' = RetrialBegan(t)
      BY <2>5 DEF RecordsTrial, RecordsRetrial, Applier, Record
    <3>2. /\ t \in Trials /\ Born(t) /\ trials[t].nonce = t /\ t \notin declared
          /\ holder.step = "relaunched" => ~Running(record.trial) \/ Overseen
      BY <3>1 DEF IInv, SuccessorFits, RetryFits
    <3>3. NewIsLive
      BY <3>1 DEF IInv, NewSetFits
    <3>4. Begins(t)
      BY <3>2, <3>3, NobodyIsNoTrial DEF Begins
    <3>5. /\ holder.step = "launched" => record.phase = "Moving"
          /\ holder.step = "relaunched" => record.phase = "Stuck"
      BY <1>0 DEF StepFitsRecord
    <3>6. /\ record'.nonce = trials[t].nonce /\ record'.trial = t /\ record'.outcome = record.outcome
          /\ holder.step = "launched" => record'.phase = "Trial"
          /\ holder.step = "relaunched" => record'.phase = record.phase
      BY <1>0, <3>1, TrialSays
    <3>7. /\ Begins(t)
          /\ \/ record.phase \in {"Moving", "TrialStarting"} /\ record'.phase = "Trial"
             \/ /\ record.phase = "Stuck" /\ record'.phase = "Stuck"
                /\ ~Running(record.trial) \/ Overseen
      BY <3>1, <3>2, <3>4, <3>5, <3>6
    <3> HIDE DEF t
    <3> QED BY <3>2, <3>6, <3>7 DEF JournalStep
  <2>6. CASE WatchCommits \/ Commits
    <3>1. Answered /\ record' = CommitRecorded
      BY <1>1, <2>6 DEF WatchCommits, Commits, Decides, Forward, IInv, LookFits
    <3> QED BY <1>0, <3>1, AnswerIsNew, CommitSays DEF JournalStep
  <2>7. CASE Sticks \/ RestoringCut
    <3>1. record.phase \in {"RollbackIntent", "Stuck"} /\ record' = RollbackFailed
      BY <1>0, <1>1, <2>7 DEF Sticks, Back, MaySayStuck, RestoringCut, StepFitsRecord
    <3> QED BY <1>0, <3>1, RollbackSays DEF JournalStep
  <2>8. CASE DeclaresRolledBack
    <3>1. /\ record.phase \in {"RollbackIntent", "Stuck"} /\ MovesAway \cup MovesBack = {}
          /\ record' = RollbackRecorded
      BY <1>1, <2>8 DEF DeclaresRolledBack, Restorable, Back
    <3> QED BY <1>0, <3>1, RollbackSays DEF JournalStep
  <2>9. ASSUME NEW t \in Trials, Adopts(t) PROVE JournalStep
    <3>1. /\ Running(t) /\ receipts[trials[t].nonce] = t /\ NewIsLive
          /\ record.phase \in {"Moving", "TrialStarting", "Stuck"}
          /\ record.phase = "Stuck" => Retrying \/ (~holder.alive /\ holder.step = "deciding")
          /\ record' = IF record.phase = "Stuck" THEN RetrialBegan(t) ELSE TrialBegan(t)
      BY <1>0, <2>9 DEF Adopts, Vouchers, Adoptable, Surveyed, Retrying, IInv, NewSetFits, StepFitsRecord
    <3>2. record.phase = "Stuck" => ~Running(record.trial) \/ Overseen
      BY <3>1 DEF Retrying, IInv, LookFits, RetryFits
    <3>3. t \notin declared \ unseen
      BY <3>1, <3>2 DEF IInv, DeclaredFits, Running, Overseen
    <3>4. Begins(t)
      BY <3>1, <3>3, RunningIsBorn DEF Begins
    <3> QED BY <1>0, <3>1, <3>2, <3>4, TrialSays DEF JournalStep
  <2>10. CASE ReservesLastTrial
    BY <1>0, <2>10, TrialSays DEF ReservesLastTrial, JournalStep
  <2>11. CASE EndsReverted
    <3>1. record.phase \in {"Handoff", "Armed"} /\ record' = To("Prepared")
      BY <1>0, <2>11 DEF EndsReverted, Ends, StepFitsRecord
    <3> QED BY <1>0, <3>1, PhaseSays DEF JournalStep, Kept
  <2>12. CASE EndsRolledBack \/ EndsCommitted
    <3>1. record.phase \in {"Committed", "RolledBack"} /\ record' = To("Retired")
      BY <1>0, <2>12 DEF EndsRolledBack, EndsCommitted, Ends, StepFitsRecord
    <3> QED BY <1>0, <3>1, PhaseSays DEF JournalStep, Kept
  <2>13. ASSUME NEW t \in Trials, CommitsLastTrial(t) PROVE JournalStep
    <3>1. /\ record.phase = "TrialStarting" /\ declared = {} /\ NewIsLive /\ record' = CommitRecorded
      BY <2>13 DEF CommitsLastTrial, IInv, DeclaredFits, NewSetFits
    <3> QED BY <1>0, <3>1, CommitSays DEF JournalStep
  <2> QED BY <2>1, <2>2, <2>3, <2>4, <2>5, <2>6, <2>7, <2>8, <2>9, <2>10, <2>11, <2>12, <2>13
          DEF JournalMoves
<1>3. ASSUME StartRetires PROVE JournalStep
  <2>1. record.phase \in Over /\ record' = To("Gone")
    BY <1>3 DEF StartRetires
  <2> QED BY <1>0, <2>1, PhaseSays DEF JournalStep, Kept
<1> QED BY <1>2, <1>3, NextBySort, RoadLeaves, TrialsLeave, FilesLeave, WindowsLeave DEF disk

(* How the road goes on.                                                   *)
RoadStep ==
    \/ holder'.step \in {"none", "looking", "watching", "reverting", "finishing", "retiring",
                         "deleting", "ending"}
    \/ Arms /\ holder'.step = "arming"
    \/ RecordsArmed /\ holder'.step = "armed"
    \/ Admits /\ holder'.step = "moving"
    \/ AdmissionDropped /\ holder'.step = "trying"
    \/ \E t \in Trials : LaunchesTrial(t) /\ holder'.step = "launched" /\ holder'.successor = t
    \/ \E t \in Trials : RetriesAsTrial(t) /\ holder'.step = "relaunched" /\ holder'.successor = t
    \/ RetryLooks /\ holder'.step = "retrying"
    \/ Look /\ holder'.step = "deciding"
    \/ HoldsAdmission /\ holder'.step = "restoring"

LEMMA RoadGoes ==
    ASSUME TypeOK, Next
    PROVE  holder' = holder \/ RoadStep
<1>0. holder \in Holders
  BY DEF TypeOK
<1>1. ASSUME NEW s, Goes(s) PROVE holder'.step = s
  BY <1>1, StepsSay
<1>2. ASSUME NEW s, NEW r, Record(r, s) PROVE holder'.step = s
  BY <1>1, <1>2 DEF Record
<1>3. JournalMoves => holder' = holder \/ RoadStep
  <2>1. CASE OldStays \/ EntranceFails \/ EndsReverted \/ EndsRolledBack \/ EndsCommitted
    BY <2>1, StepsSay DEF OldStays, EntranceFails, EndsReverted, EndsRolledBack, EndsCommitted, Ends,
       RoadStep
  <2>2. CASE RecordsArmed
    <3>1. holder'.step = "armed"
      BY <1>2, <2>2 DEF RecordsArmed
    <3> QED BY <2>2, <3>1 DEF RoadStep
  <2>3. CASE Admits
    <3>1. holder'.step = "moving"
      BY <1>2, <2>3 DEF Admits
    <3> QED BY <2>3, <3>1 DEF RoadStep
  <2>4. CASE ActivationCut \/ TrialNotLaunched \/ TrialNotRecorded \/ DeclaresRollback
             \/ DeclaresRolledBack
    <3>1. holder'.step = "looking"
      BY <1>2, <2>4 DEF ActivationCut, TrialNotLaunched, TrialNotRecorded, DeclaresRollback,
         DeclaresRolledBack
    <3> QED BY <3>1 DEF RoadStep
  <2>5. CASE RecordsTrial \/ RecordsRetrial \/ WatchCommits \/ Commits \/ Sticks \/ RestoringCut
    <3>1. holder'.step \in {"watching", "retiring", "ending"}
      BY <1>2, <2>5 DEF RecordsTrial, RecordsRetrial, WatchCommits, Commits, Sticks, RestoringCut
    <3> QED BY <3>1 DEF RoadStep
  <2>6. CASE WatchGivesUp
    <3>1. holder'.step \in {"looking", "ending"}
      BY <1>1, <1>2, <2>6 DEF WatchGivesUp
    <3> QED BY <3>1 DEF RoadStep
  <2>7. ASSUME NEW t \in Trials, Adopts(t) PROVE RoadStep
    <3>1. holder'.step = "looking"
      BY <1>0, <2>7 DEF Adopts, Holders
    <3> QED BY <3>1 DEF RoadStep
  <2>8. CASE ReservesLastTrial \/ \E t \in Trials : CommitsLastTrial(t)
    BY <2>8 DEF ReservesLastTrial, CommitsLastTrial
  <2> QED BY <2>1, <2>2, <2>3, <2>4, <2>5, <2>6, <2>7, <2>8 DEF JournalMoves
<1>4. TrialsMove => holder' = holder \/ RoadStep
  <2>1. ASSUME NEW t \in Trials, LaunchesTrial(t) PROVE RoadStep
    <3>1. holder'.step = "launched" /\ holder'.successor = t
      BY <1>0, <2>1 DEF LaunchesTrial, Holders
    <3> QED BY <2>1, <3>1 DEF RoadStep
  <2>2. ASSUME NEW t \in Trials, RetriesAsTrial(t) PROVE RoadStep
    <3>1. holder'.step = "relaunched" /\ holder'.successor = t
      BY <1>0, <2>2 DEF RetriesAsTrial, Holders
    <3> QED BY <2>2, <3>1 DEF RoadStep
  <2>3. CASE StopsTrial \/ PowerCut
    BY <2>3, StepsSay DEF StopsTrial, PowerCut, RoadStep
  <2>4. ASSUME TrialsMove, ~(\E t \in Trials : LaunchesTrial(t) \/ RetriesAsTrial(t)),
               ~StopsTrial, ~PowerCut
        PROVE  holder' = holder
    BY <2>4 DEF TrialsMove, EndsHandedBack, GuardStartsTrial, StandsIn, TrialStarts,
       StartsAsNoTrial, TrialClaims, ReceiptGranted, WritesReceipt, TrialReleases, TrialEnds
  <2> QED BY <2>1, <2>2, <2>3, <2>4
<1>5. RoadMoves => holder' = holder \/ RoadStep
  <2>1. CASE Arms
    <3>1. holder'.step = "arming"
      BY <1>1, <2>1 DEF Arms
    <3> QED BY <2>1, <3>1 DEF RoadStep
  <2>2. CASE AdmissionDropped
    <3>1. holder'.step = "trying"
      BY <1>1, <2>2 DEF AdmissionDropped
    <3> QED BY <2>2, <3>1 DEF RoadStep
  <2>3. CASE HoldsAdmission
    <3>1. holder'.step = "restoring"
      BY <1>1, <2>3 DEF HoldsAdmission
    <3> QED BY <2>3, <3>1 DEF RoadStep
  <2>4. CASE Look
    <3>1. holder'.step = "deciding"
      BY <1>0, <2>4 DEF Look, Holders
    <3> QED BY <2>4, <3>1 DEF RoadStep
  <2>5. CASE EntranceFound \/ NotAdmitted \/ Reverts \/ Awaits \/ GivesUp \/ RollbackWaits
             \/ Finishes \/ TrialHasDecided
    <3>1. holder'.step \in {"watching", "reverting", "finishing", "retiring", "deleting", "ending"}
      BY <1>1, <2>5 DEF EntranceFound, NotAdmitted, Reverts, Awaits, GivesUp, RollbackWaits,
         Finishes, TrialHasDecided
    <3> QED BY <3>1 DEF RoadStep
  <2>6. CASE Restored \/ Disarms
    BY <2>6, StepsSay DEF Restored, Disarms, RoadStep
  <2>7. CASE Defers \/ Unlisted \/ NothingToDecide \/ RoadEnds \/ RoadFails \/ HolderDies
             \/ \E t \in Trials : AdoptionRefused(t)
    BY <2>7, StepsSay DEF Defers, Unlisted, NothingToDecide, RoadEnds, RoadFails, HolderDies,
       AdoptionRefused, RoadStep
  <2>8. CASE StartRecovers \/ LogonRecovers \/ \E t \in Trials : HandsBack(t)
    BY <2>8, StepsSay DEF StartRecovers, LogonRecovers, HandsBack, RoadStep
  <2>9. CASE RetryLooks
    <3>1. holder'.step = "retrying"
      BY <1>1, <2>9 DEF RetryLooks
    <3> QED BY <2>9, <3>1 DEF RoadStep
  <2> QED BY <2>1, <2>2, <2>3, <2>4, <2>5, <2>6, <2>7, <2>8, <2>9 DEF RoadMoves
<1> QED BY <1>3, <1>4, <1>5, NextBySort, FilesLeave, WindowsLeave

-----------------------------------------------------------------------------
(* The entrance, the outcome and the old set.                              *)
LEMMA EntranceFitsStep ==
    ASSUME IInv, Next
    PROVE  EntranceFits'
<1> DEFINE MayMove == {"Moving", "TrialStarting", "Trial", "RollbackIntent", "Stuck"}
<1>0. TypeOK /\ StepFitsRecord /\ (record.phase \in MayMove => entrance)
  BY DEF IInv, EntranceFits, EntranceStands
<1>1. record'.phase \in MayMove => entrance
  <2>1. ASSUME JournalStep, record'.phase \in MayMove PROVE entrance
    BY <1>0, <2>1 DEF JournalStep
  <2> QED BY <1>0, <2>1, JournalGoes
<1>2. Disarms => record.phase \notin MayMove /\ holder.step \notin {"arming", "armed"} /\ holder' = holder
  BY <1>0 DEF Disarms, StepFitsRecord
<1>3. NothingToDecide => record.phase \notin MayMove /\ holder'.step = "none"
  BY <1>0, StepsSay DEF NothingToDecide, Destructive
<1>4. StartRetires => record'.phase \notin MayMove /\ holder.step = "none" /\ holder' = holder
  BY <1>0, PhaseSays DEF StartRetires, StepFitsRecord
<1>5. entrance' \/ entrance' = entrance \/ Disarms \/ NothingToDecide \/ StartRetires
  <2>1. RoadMoves => entrance' \/ entrance' = entrance \/ Disarms \/ NothingToDecide
    BY DEF RoadMoves, EntranceFound, Arms, NotAdmitted, AdmissionDropped, Look, Defers, Unlisted, RetryLooks,
       AdoptionRefused, Reverts, Awaits, GivesUp, HoldsAdmission, RollbackWaits, Restored, Finishes,
       TrialHasDecided, RoadEnds, RoadFails, StartRecovers, LogonRecovers, HandsBack, Recovers,
       HolderDies, disk
  <2> QED BY <2>1, NextBySort, FilesLeave, JournalLeaves, TrialsLeave, WindowsLeave DEF disk
<1>6. EntranceStands'
  <2>1. Disarms \/ NothingToDecide => record' = record
    BY DEF Disarms, NothingToDecide
  <2> QED BY <1>1, <1>2, <1>3, <1>4, <1>5, <2>1 DEF EntranceStands
<1>7. holder'.step \in {"arming", "armed"} => entrance'
  <2>1. Arms \/ RecordsArmed => entrance'
    BY DEF Arms, RecordsArmed, Applier, IInv, EntranceFits
  <2>2. holder' = holder => (holder.step \in {"arming", "armed"} => entrance')
    BY <1>2, <1>3, <1>4, <1>5 DEF IInv, EntranceFits
  <2> QED BY <1>0, <2>1, <2>2, RoadGoes DEF RoadStep
<1> QED BY <1>6, <1>7 DEF EntranceFits

LEMMA OutcomeFitsStep ==
    ASSUME IInv, Next
    PROVE  OutcomeFits'
<1>0. TypeOK /\ OutcomeFits
  BY DEF IInv
<1>1. ASSUME JournalStep PROVE OutcomeFits'
  BY <1>0, <1>1 DEF JournalStep, Kept, OutcomeFits, Answered, Over
<1> QED BY <1>0, <1>1, JournalGoes DEF OutcomeFits

LEMMA NothingToMoveIsOld ==
    ASSUME MovesAway \cup MovesBack = {}
    PROVE  OldIsLive
<1>1. \A n \in OldNames : at.install[n] = Old(n)
  BY DEF MovesBack
<1>2. ASSUME NEW n \in NewNames \ OldNames PROVE at.install[n] # New(n)
  <2>1. Old(n) = "none" /\ New(n) = "new"
    BY UpdateAssumption DEF Old, New, UpdateAssumption
  <2> QED BY <2>1 DEF MovesAway
<1> QED BY <1>1, <1>2 DEF OldIsLive

(* A move changes one place of one member in each of two folders.          *)
LEMMA MovedSays ==
    ASSUME TypeOK, NEW n \in Names,
           NEW from \in {"install", "set", "backup"}, NEW to \in {"install", "backup", "rolledout"},
           from # to, Moved(n, from, to)
    PROVE  /\ at'[from][n] = "none" /\ at'[to][n] = at[from][n]
           /\ \A m \in Names \ {n} : at'[from][m] = at[from][m] /\ at'[to][m] = at[to][m]
           /\ \A p \in {"install", "set", "backup", "rolledout"} \ {from, to} : at'[p] = at[p]
BY DEF TypeOK, Moved

LEMMA OldSetFitsStep ==
    ASSUME IInv, Next
    PROVE  OldSetFits'
<1>0. TypeOK /\ StepFitsRecord /\ OutcomeFits /\ OldSetKept /\ OldIsWhole /\ BackupIsOld
  BY DEF IInv, OldSetFits
<1>1. CASE at' = at
  <2>1. BackupIsOld'
    BY <1>0, <1>1 DEF BackupIsOld
  <2>2. record'.outcome # "committed" => record.outcome # "committed"
    BY <1>0, JournalGoes DEF JournalStep, Kept, OutcomeFits
  <2>3. OldSetKept'
    BY <1>0, <1>1, <2>2 DEF OldSetKept
  <2>4. EndsOld' => EndsOld \/ MovesAway \cup MovesBack = {}
    BY <1>0, JournalGoes DEF JournalStep, Kept, EndsOld, OutcomeFits
  <2>5. EndsOld' => OldIsLive
    BY <1>0, <2>4, NothingToMoveIsOld DEF OldIsWhole
  <2>6. OldIsLive => OldIsLive'
    BY <1>1 DEF OldIsLive
  <2> QED BY <2>1, <2>3, <2>5, <2>6 DEF OldSetFits, OldIsWhole
<1>2. ASSUME record' = record, record.phase \in {"Moving", "RollbackIntent", "Stuck"}
      PROVE  ~EndsOld' /\ record.outcome = "none" /\ record'.outcome = "none"
  BY <1>0, <1>2 DEF EndsOld, OutcomeFits, TypeOK, Records
<1>3. CASE Activates
  <2>1. record' = record /\ record.phase = "Moving"
    BY <1>0, <1>3 DEF Activates, Applier, StepFitsRecord
  <2>2. ASSUME NEW n \in MovesOut, Moved(n, "install", "backup") PROVE OldSetKept' /\ BackupIsOld'
    <3>1. n \in OldNames /\ n \in Names /\ at.install[n] = Old(n)
      BY DEF MovesOut, Names
    <3>2. /\ at'.install[n] = "none" /\ at'.backup[n] = Old(n)
          /\ \A m \in OldNames \ {n} : at'.install[m] = at.install[m] /\ at'.backup[m] = at.backup[m]
      BY <1>0, <2>2, <3>1, MovedSays DEF Names
    <3> QED BY <1>0, <1>2, <2>1, <3>2 DEF OldSetKept, BackupIsOld
  <2>3. ASSUME MovesOut = {}, NEW n \in MovesIn, Moved(n, "set", "install")
        PROVE  OldSetKept' /\ BackupIsOld'
    <3>1. n \in NewNames /\ n \in Names /\ at.set[n] = New(n)
      BY DEF MovesIn, Names
    <3>2. /\ at'.backup = at.backup
          /\ \A m \in OldNames \ {n} : at'.install[m] = at.install[m]
      BY <1>0, <2>3, <3>1, MovedSays DEF Names
    <3>3. n \in OldNames => at.backup[n] = Old(n)
      <4>1. CASE n \in OldNames /\ at.install[n] = Old(n)
        BY <1>0, <2>3, <3>1, <4>1 DEF MovesOut, BackupIsOld
      <4>2. CASE n \in OldNames /\ at.install[n] # Old(n)
        BY <1>0, <1>2, <2>1, <4>2 DEF OldSetKept
      <4> QED BY <4>1, <4>2
    <3> QED BY <1>0, <1>2, <2>1, <3>2, <3>3 DEF OldSetKept, BackupIsOld
  <2> QED BY <1>2, <1>3, <2>1, <2>2, <2>3 DEF Activates, OldSetFits, OldIsWhole
<1>4. CASE ActivatesBack
  <2>1. record' = record /\ record.phase \in {"RollbackIntent", "Stuck"}
    BY <1>0, <1>4 DEF ActivatesBack, StepFitsRecord
  <2>2. \A m \in OldNames : Old(m) \in {at.install[m], at.backup[m]}
    BY <1>0, <1>2, <2>1 DEF OldSetKept
  <2>3. ASSUME NEW n \in MovesAway, Moved(n, "install", "rolledout") PROVE OldSetKept' /\ BackupIsOld'
    <3>1. n \in Names /\ at.install[n] # Old(n)
      BY DEF MovesAway, Names
    <3>2. /\ at'.backup = at.backup
          /\ \A m \in OldNames \ {n} : at'.install[m] = at.install[m]
      BY <1>0, <2>3, <3>1, MovedSays DEF Names
    <3> QED BY <1>0, <1>2, <2>1, <2>2, <3>1, <3>2 DEF OldSetKept, BackupIsOld
  <2>4. ASSUME NEW n \in MovesBack, Moved(n, "backup", "install") PROVE OldSetKept' /\ BackupIsOld'
    <3>1. n \in OldNames /\ n \in Names /\ at.install[n] # Old(n) /\ at.backup[n] = Old(n)
      BY <2>2 DEF MovesBack, Names
    <3>2. /\ at'.install[n] = Old(n) /\ at'.backup[n] = "none"
          /\ \A m \in OldNames \ {n} : at'.install[m] = at.install[m] /\ at'.backup[m] = at.backup[m]
      BY <1>0, <2>4, <3>1, MovedSays DEF Names
    <3> QED BY <1>0, <1>2, <2>1, <3>2 DEF OldSetKept, BackupIsOld
  <2>5. record.phase \in {"Moving", "RollbackIntent", "Stuck"}
    BY <2>1
  <2> QED BY <1>2, <1>4, <2>1, <2>3, <2>4, <2>5 DEF ActivatesBack, OldSetFits, OldIsWhole
<1>5. ASSUME NEW n \in OldNames, DeletesOld(n) PROVE OldSetFits'
  <2>1. record' = record /\ record.phase = "Committed"
    BY <1>0, <1>5 DEF DeletesOld, StepFitsRecord
  <2>2. record.outcome = "committed"
    BY <1>0, <2>1 DEF OutcomeFits, TypeOK, Records
  <2>3. /\ at'.backup[n] = "none"
        /\ \A m \in OldNames \ {n} : at'.backup[m] = at.backup[m]
    BY <1>0, <1>5 DEF DeletesOld, TypeOK, Names
  <2>4. BackupIsOld'
    BY <1>0, <2>3 DEF BackupIsOld
  <2> QED BY <2>1, <2>2, <2>4 DEF OldSetFits, OldSetKept, OldIsWhole, EndsOld
<1>6. CASE StartRetires
  <2>1. /\ record.phase \in Over /\ record'.phase = "Gone" /\ record'.outcome = record.outcome
        /\ at'.install = at.install /\ \A n \in Names : at'.backup[n] = "none"
    BY <1>0, <1>6, PhaseSays DEF StartRetires, TypeOK
  <2>2. BackupIsOld'
    BY <2>1 DEF BackupIsOld, Names
  <2>3. record.outcome # "committed" => OldIsLive
    BY <1>0, <2>1 DEF Over, OutcomeFits, TypeOK, Records, OldIsWhole, EndsOld
  <2>4. OldIsLive => OldIsLive' /\ \A n \in OldNames : at'.install[n] = Old(n)
    BY <2>1 DEF OldIsLive
  <2> QED BY <2>1, <2>2, <2>3, <2>4 DEF OldSetFits, OldSetKept, OldIsWhole, EndsOld
<1>7. at' = at \/ FilesMove
  BY NextBySort, RoadLeaves, JournalLeaves, TrialsLeave, WindowsLeave DEF disk
<1> QED BY <1>1, <1>3, <1>4, <1>5, <1>6, <1>7 DEF FilesMove

-----------------------------------------------------------------------------
(* The trials and their receipts.                                          *)
TrialKept(t) ==
    /\ Born(t) => trials'[t].step # "unborn" /\ trials'[t].nonce = trials[t].nonce
    /\ trials[t].step = "ended" => trials'[t].step = "ended"
    /\ trials'[t].step # "unborn" /\ ~Born(t) => trials'[t].nonce \in {t, Reserved}

LEMMA TrialsGo ==
    ASSUME IInv, Next
    PROVE  \A t \in Trials : TrialKept(t)
<1>0. trials \in [Trials -> Processes] /\ trials' \in [Trials -> Processes]
  BY TypeStep DEF IInv, TypeOK
<1>1. ASSUME NEW u, u \in Trials => Born(u),
             NEW s \in {"started", "claimed", "granted", "vouched", "released", "ended"},
             s = "ended" \/ trials[u].step # "ended",
             trials' = [trials EXCEPT ![u].step = s]
      PROVE  \A t \in Trials : TrialKept(t)
  BY <1>0, <1>1 DEF TrialKept, Born, Processes
<1>2. ASSUME NEW u \in Trials, ~Born(u), NEW nonce \in {u, Reserved}, Launched(u, nonce)
      PROVE  \A t \in Trials : TrialKept(t)
  BY <1>0, <1>2 DEF TrialKept, Born, Launched, Processes
<1>3. CASE trials' = trials
  BY <1>3 DEF TrialKept, Born
<1>4. ASSUME NEW u, u \in Trials => Born(u), Ended(u) PROVE \A t \in Trials : TrialKept(t)
  BY <1>1, <1>4 DEF Ended
<1>5. CASE EndsHandedBack
  BY <1>4, <1>5 DEF EndsHandedBack, Found, Others, Running, Born
<1>6. CASE StopsTrial
  <2>1. record.trial \in Trials => Born(record.trial)
    BY NobodyIsNoTrial DEF IInv, RecordedTrialFits
  <2> QED BY <1>3, <1>4, <1>6, <2>1 DEF StopsTrial
<1>7. CASE TrialNotRecorded
  <2>1. holder.successor \in Trials => Born(holder.successor)
    BY <1>7 DEF TrialNotRecorded, Applier, IInv, SuccessorFits
  <2> QED BY <1>3, <1>4, <1>7, <2>1 DEF TrialNotRecorded
<1>8. CASE PowerCut
  BY <1>0, <1>8 DEF PowerCut, TrialKept, Born, Running, Processes
<1>9. ASSUME NEW u \in Trials,
             LaunchesTrial(u) \/ RetriesAsTrial(u) \/ GuardStartsTrial(u) \/ StandsIn(u)
      PROVE  \A t \in Trials : TrialKept(t)
  <2>1. ~Born(u)
    BY <1>9 DEF LaunchesTrial, RetriesAsTrial, GuardStartsTrial, StandsIn, Unborn, Born
  <2>2. \E nonce \in {u, Reserved} : Launched(u, nonce)
    BY <1>9 DEF LaunchesTrial, RetriesAsTrial, GuardStartsTrial, StandsIn, IInv, RecordedTrialFits
  <2> QED BY <1>2, <2>1, <2>2
<1>10. ASSUME NEW u \in Trials, TrialStarts(u) PROVE \A t \in Trials : TrialKept(t)
  BY <1>0, <1>10 DEF TrialStarts, TrialKept, Born, Processes
<1>11. ASSUME NEW u \in Trials, StartsAsNoTrial(u) \/ TrialEnds(u)
       PROVE  \A t \in Trials : TrialKept(t)
  BY <1>4, <1>11 DEF StartsAsNoTrial, TrialEnds, Born, Running
<1>12. ASSUME NEW u \in Trials, TrialClaims(u) \/ ReceiptGranted(u) \/ WritesReceipt(u) \/ TrialReleases(u)
       PROVE  \A t \in Trials : TrialKept(t)
  BY <1>1, <1>12 DEF TrialClaims, ReceiptGranted, WritesReceipt, TrialReleases, HoldsClaim, Step, Born
<1>13. TrialsMove => \A t \in Trials : TrialKept(t)
  BY <1>5, <1>6, <1>8, <1>9, <1>10, <1>11, <1>12 DEF TrialsMove
<1>14. JournalMoves => trials' = trials \/ TrialNotRecorded
  BY DEF JournalMoves, OldStays, EntranceFails, RecordsArmed, Admits, ActivationCut,
     TrialNotLaunched, RecordsTrial, WatchCommits, WatchGivesUp, DeclaresRollback,
     Commits, Sticks, DeclaresRolledBack, RecordsRetrial, RestoringCut, ReservesLastTrial,
     EndsReverted, EndsRolledBack, EndsCommitted, Ends, Adopts, CommitsLastTrial
<1> QED BY <1>3, <1>7, <1>13, <1>14, NextBySort, RoadLeaves, WindowsLeave, FilesLeave

LEMMA ReceiptsGo ==
    ASSUME IInv, Next, NEW n \in Nonces
    PROVE  \/ receipts'[n] = receipts[n]
           \/ \E t \in Trials : Running(t) /\ trials[t].nonce = n /\ receipts'[n] # Nobody
           \/ record.outcome = "committed"
<1>0. TypeOK
  BY DEF IInv
<1>1. ASSUME NEW t \in Trials, WritesReceipt(t)
      PROVE  receipts'[n] = receipts[n] \/ (Running(t) /\ trials[t].nonce = n /\ receipts'[n] # Nobody)
  <2>1. Running(t)
    BY <1>1, NobodyIsNoTrial DEF WritesReceipt, Running
  <2>2. trials[t].nonce # n => receipts'[n] = receipts[n]
    BY <1>0, <1>1 DEF WritesReceipt, TypeOK
  <2>3. trials[t].nonce = n => receipts'[n] = IF Running(receipts[n]) THEN receipts[n] ELSE t
    BY <1>0, <1>1 DEF WritesReceipt, TypeOK
  <2> QED BY <2>1, <2>2, <2>3, RunningIsBorn, NobodyIsNoTrial
<1>2. ASSUME NEW t \in Trials, TrialReleases(t) PROVE record.outcome = "committed"
  BY <1>2 DEF TrialReleases
<1>3. TrialsMove => \/ receipts' = receipts
                    \/ \E t \in Trials : WritesReceipt(t) \/ TrialReleases(t)
  BY DEF TrialsMove, EndsHandedBack, StopsTrial, PowerCut, LaunchesTrial, RetriesAsTrial,
     GuardStartsTrial, StandsIn, TrialStarts, StartsAsNoTrial, TrialClaims, ReceiptGranted,
     TrialEnds, Step, disk
<1> QED BY <1>1, <1>2, <1>3, NextBySort, RoadLeaves, FilesLeave, JournalLeaves, WindowsLeave DEF disk

LEMMA NoncesFitStep ==
    ASSUME IInv, Next
    PROVE  NoncesFit'
BY TrialsGo, Zenon DEF IInv, NoncesFit, TrialKept, Born

(* A trial that has ended, and so has the one recorded, stays ended.       *)
LEMMA NotRunningStays ==
    ASSUME IInv, Next, NEW t \in {Nobody} \cup Trials, t # Nobody => Born(t), ~Running(t)
    PROVE  ~Running(t)'
BY TrialsGo DEF TrialKept, Running, Born

-----------------------------------------------------------------------------
(* While the lock is held, the journal and the moves are its holder's.     *)
LEMMA HeldRecord ==
    ASSUME IInv, Next, holder.step # "none", holder' = holder
    PROVE  record' = record /\ declared' = declared
<1>0. TypeOK /\ StepFitsRecord /\ holder.who # "none"
  BY DEF IInv, StepFitsRecord
<1>1. ASSUME NEW s, NEW r, Record(r, s) PROVE holder'.step = s
  BY <1>0, <1>1, StepsSay
<1>2. ASSUME JournalMoves PROVE record' = record /\ declared' = declared
  <2>1. CASE OldStays \/ EntranceFails \/ EndsReverted \/ EndsRolledBack \/ EndsCommitted
    BY <1>0, <2>1, StepsSay DEF OldStays, EntranceFails, EndsReverted, EndsRolledBack, EndsCommitted,
       Ends
  <2>2. CASE RecordsArmed \/ Admits \/ ActivationCut \/ TrialNotLaunched
    BY <1>1, <2>2 DEF RecordsArmed, Admits, ActivationCut, TrialNotLaunched, Applier
  <2>3. CASE RecordsTrial \/ TrialNotRecorded \/ WatchCommits \/ RecordsRetrial \/ RestoringCut
    BY <1>1, <2>3 DEF RecordsTrial, TrialNotRecorded, WatchCommits, Watching, RecordsRetrial,
       RestoringCut, Applier
  <2>4. CASE DeclaresRollback \/ Commits \/ DeclaresRolledBack
    BY <1>1, <2>4 DEF DeclaresRollback, Commits, DeclaresRolledBack, Restorable, Decides
  <2>5. CASE Sticks
    BY <1>1, <2>5 DEF Sticks, Decides, TurnsSpent
  <2>6. CASE WatchGivesUp
    BY <1>0, <1>1, <2>6, StepsSay DEF WatchGivesUp, Watching
  <2>7. ASSUME NEW t \in Trials, Adopts(t) PROVE FALSE
    <3>1. holder'.step = "looking"
      BY <1>0, <2>7 DEF Adopts, TypeOK, Holders
    <3> QED BY <2>7, <3>1 DEF Adopts, Surveyed, Retrying
  <2>8. ASSUME NEW t \in Trials, CommitsLastTrial(t) PROVE FALSE
    BY <1>0, <2>8 DEF CommitsLastTrial
  <2>9. CASE ReservesLastTrial
    BY <1>0, <2>9 DEF ReservesLastTrial, history
  <2> QED BY <1>2, <2>1, <2>2, <2>3, <2>4, <2>5, <2>6, <2>7, <2>8, <2>9 DEF JournalMoves
<1>3. ~StartRetires
  BY <1>0 DEF StartRetires
<1> QED BY <1>2, <1>3, NextBySort, RoadLeaves, FilesLeave, TrialsLeave, WindowsLeave DEF disk, history

LEMMA HeldFiles ==
    ASSUME IInv, Next, holder.step \notin {"none", "moving", "restoring", "deleting"}
    PROVE  at' = at
<1>1. ~FilesMove
  BY DEF IInv, StepFitsRecord, FilesMove, Activates, ActivatesBack, StartRetires, DeletesOld, Applier
<1> QED BY <1>1, NextBySort, RoadLeaves, JournalLeaves, TrialsLeave, WindowsLeave DEF disk

LEMMA MisreadStays == ASSUME Next, misread PROVE misread'
<1>1. JournalMoves => misread' = misread \/ misread'
  BY DEF JournalMoves, OldStays, EntranceFails, RecordsArmed, Admits, ActivationCut,
     TrialNotLaunched, RecordsTrial, TrialNotRecorded, WatchCommits, WatchGivesUp,
     DeclaresRollback, Commits, Sticks, DeclaresRolledBack, RecordsRetrial, RestoringCut,
     ReservesLastTrial, EndsReverted, EndsRolledBack, EndsCommitted, Ends, Adopts,
     CommitsLastTrial, history
<1>2. RoadMoves => misread' = misread \/ misread'
  BY DEF RoadMoves, EntranceFound, Arms, NotAdmitted, AdmissionDropped, Look, Defers, Unlisted, RetryLooks,
     AdoptionRefused, Reverts, Awaits, GivesUp, HoldsAdmission, RollbackWaits, Restored, Finishes,
     NothingToDecide, TrialHasDecided, Disarms, RoadEnds, RoadFails, StartRecovers,
     LogonRecovers, HandsBack, Recovers, HolderDies, history
<1> QED BY <1>1, <1>2, NextBySort, FilesLeave, TrialsLeave, WindowsLeave DEF history

(* A trial found ended without an answer gives none while the record       *)
(* stands: its nonce is its own, and the reserved one has its answer.      *)
LEMMA UnanswerableStays ==
    ASSUME IInv, Next, record' = record, Unanswerable
    PROVE  Unanswerable'
<1>0. TypeOK /\ OutcomeFits /\ NoncesFit /\ RecordedTrialFits
  BY DEF IInv
<1>1. ~Running(record.trial)'
  <2>1. record.trial \in {Nobody} \cup Trials
    BY <1>0 DEF TypeOK, Records
  <2> DEFINE t == record.trial
  <2>2. ~Running(t)'
    BY <1>0, <2>1, TrialsGo DEF Unanswerable, RecordedTrialFits, TrialKept, Running, Born
  <2> QED BY <2>2 DEF Running
<1>2. ASSUME Answered' PROVE FALSE
  <2> DEFINE n == record.nonce
  <2>1. record.phase \in {"Trial", "Stuck"} /\ n # 0 /\ receipts'[n] # Nobody
    BY <1>2 DEF Answered
  <2>2. receipts[n] = Nobody /\ n \in Nonces /\ record.outcome # "committed"
    BY <1>0, <2>1 DEF Unanswerable, Answered, TypeOK, Records, OutcomeFits
  <2>3. PICK t \in Trials : Running(t) /\ trials[t].nonce = n
    BY <2>1, <2>2, ReceiptsGo
  <2>4. n \in {t, Reserved}
    BY <1>0, <2>3, RunningIsBorn DEF NoncesFit
  <2>5. n # Reserved
    BY <1>0, <2>1, <2>2 DEF RecordedTrialFits
  <2>6. record.trial = t
    BY <1>0, <2>1, <2>4, <2>5 DEF RecordedTrialFits
  <2> QED BY <2>3, <2>6 DEF Unanswerable
<1> QED BY <1>1, <1>2 DEF Unanswerable

LEMMA SuccessorFitsStep ==
    ASSUME IInv, Next
    PROVE  SuccessorFits'
<1>0. TypeOK /\ TypeOK' /\ RecordedTrialFits /\ SuccessorFits /\ DeclaredFits
  BY TypeStep DEF IInv
<1>1. record.trial \in {Nobody} \cup Trials /\ (record.trial # Nobody => Born(record.trial))
  BY <1>0 DEF TypeOK, Records, RecordedTrialFits
<1>2. CASE holder' = holder /\ holder.step \in {"launched", "relaunched"}
  <2> DEFINE t == holder.successor
  <2>1. t \in Trials /\ Born(t) /\ trials[t].nonce = t /\ t \notin declared
    BY <1>0, <1>2 DEF SuccessorFits
  <2>2. record' = record /\ declared' = declared
    BY <1>2, HeldRecord
  <2>3. trials'[t].step # "unborn" /\ trials'[t].nonce = t
    BY <2>1, TrialsGo DEF TrialKept
  <2> QED BY <1>2, <2>1, <2>2, <2>3 DEF SuccessorFits, Born
<1>3. ASSUME NEW t \in Trials, LaunchesTrial(t) \/ RetriesAsTrial(t), holder'.successor = t
      PROVE  SuccessorFits'
  <2>1. ~Born(t) /\ Launched(t, t) /\ UNCHANGED <<record, declared>>
    BY <1>3 DEF LaunchesTrial, RetriesAsTrial, Unborn, Born, disk, history
  <2>2. trials'[t].step = "launched" /\ trials'[t].nonce = t
    BY <1>0, <2>1 DEF Launched, TypeOK, Processes
  <2>3. t \notin declared
    BY <1>0, <2>1 DEF DeclaredFits
  <2> QED BY <1>3, <2>1, <2>2, <2>3 DEF SuccessorFits, Born
<1> QED BY <1>0, <1>2, <1>3, RoadGoes DEF RoadStep, SuccessorFits

LEMMA RetryFitsStep ==
    ASSUME IInv, Next
    PROVE  RetryFits'
<1>0. TypeOK /\ RecordedTrialFits /\ RetryFits
  BY DEF IInv
<1>1. ASSUME record' = record, ~Running(record.trial) \/ Overseen
      PROVE  ~Running(record.trial)' \/ Overseen'
  <2>1. record.trial \in {Nobody} \cup Trials /\ (record.trial # Nobody => Born(record.trial))
    BY <1>0 DEF TypeOK, Records, RecordedTrialFits
  <2>2. ~Running(record.trial) => ~Running(record.trial)'
    BY <1>1, <2>1, TrialsGo DEF TrialKept, Running, Born
  <2>3. Overseen => Overseen'
    BY <1>1, UnseenGrows DEF Overseen
  <2> QED BY <1>1, <2>2, <2>3
<1>2. CASE holder' = holder /\ holder.step \in {"retrying", "relaunched"}
  BY <1>0, <1>1, <1>2, HeldRecord DEF RetryFits
<1>3. ASSUME NEW t \in Trials, RetriesAsTrial(t) PROVE RetryFits'
  BY <1>0, <1>1, <1>3 DEF RetriesAsTrial, Retrying, RetryFits, disk
<1>4. CASE RetryLooks
  <2>1. record' = record /\ trials' = trials /\ Marks(FALSE)
    BY <1>4 DEF RetryLooks, disk
  <2>2. Running(record.trial) => Overseen'
    BY <2>1 DEF Marks, Overlooked, Overseen
  <2>3. Running(record.trial)' = Running(record.trial)
    BY <2>1 DEF Running
  <2> QED BY <2>2, <2>3 DEF RetryFits
<1> QED BY <1>0, <1>2, <1>3, <1>4, RoadGoes DEF RoadStep, RetryFits

LEMMA RecordedTrialFitsStep ==
    ASSUME IInv, Next
    PROVE  RecordedTrialFits'
<1>0. TypeOK /\ RecordedTrialFits /\ OutcomeFits /\ NoncesFit
  BY DEF IInv
<1>1. ASSUME NEW t \in Trials, Born(t) PROVE trials'[t].step # "unborn"
  BY <1>1, TrialsGo DEF TrialKept
<1>2. CASE record' = record
  <2>1. record.phase \in {"Trial", "Stuck"} /\ record.nonce = Reserved => receipts'[Reserved] # Nobody
    BY <1>0, ReceiptsGo, NobodyIsNoTrial DEF RecordedTrialFits, OutcomeFits
  <2>2. record.trial # Nobody => trials'[record.trial].step # "unborn"
    BY <1>0, <1>1 DEF TypeOK, Records, RecordedTrialFits
  <2> QED BY <1>0, <1>2, <2>1, <2>2 DEF RecordedTrialFits, Born
<1>3. CASE record' # record
  <2>1. receipts' = receipts
    BY <1>3, NextBySort, FilesLeave, JournalLeaves, RoadLeaves, TrialsLeave, WindowsLeave DEF disk
  <2>2. ASSUME NEW t \in Trials, Begins(t), record'.phase \in {"Trial", "Stuck"},
               record'.nonce = trials[t].nonce, record'.trial = t
        PROVE  RecordedTrialFits'
    <3>1. trials[t].nonce \in {t, Reserved} /\ trials'[t].step # "unborn"
      BY <1>0, <1>1, <2>2 DEF Begins, NoncesFit
    <3>2. t # Nobody /\ Reserved \notin Trials
      BY NobodyIsNoTrial
    <3> QED BY <2>1, <2>2, <3>1, <3>2 DEF RecordedTrialFits, Begins, Born
  <2>3. ASSUME record'.trial = record.trial,
               \/ record'.phase \notin {"TrialStarting", "Trial", "Stuck"}
               \/ record'.phase = "TrialStarting" /\ record'.nonce = Reserved
               \/ record'.phase = "Stuck" /\ record'.nonce = 0
        PROVE  RecordedTrialFits'
    <3>1. record.trial # Nobody => trials'[record.trial].step # "unborn"
      BY <1>0, <1>1 DEF TypeOK, Records, RecordedTrialFits
    <3>2. 0 \notin Trials /\ Reserved # 0
      BY NobodyIsNoTrial
    <3> QED BY <2>3, <3>1, <3>2 DEF RecordedTrialFits, Born
  <2>4. JournalStep
    BY <1>3, JournalGoes
  <2> QED BY <2>2, <2>3, <2>4 DEF JournalStep, Kept
<1> QED BY <1>2, <1>3

LEMMA LookFitsStep ==
    ASSUME IInv, Next
    PROVE  LookFits'
<1>0. TypeOK /\ LookFits /\ RecordedTrialFits /\ OutcomeFits /\ holder \in Holders
  BY DEF IInv, TypeOK
<1>1. CASE Look
  <2>1. UNCHANGED <<record, receipts, trials>>
    BY <1>1 DEF Look, disk
  <2>2. PICK heard \in {Answered, FALSE}, alive \in Sights :
           /\ holder'.heard = heard /\ holder'.alive = alive /\ Marks(alive)
           /\ heard # Answered => misread'
    BY <1>0, <1>1 DEF Look, Holders
  <2>3. Answered' = Answered
    BY <2>1 DEF Answered
  <2>4. Running(record.trial)' = Running(record.trial)
    BY <2>1 DEF Running
  <2>5. ~alive => ~Running(record.trial) \/ Overseen'
    BY <2>1, <2>2 DEF Marks, Overlooked, Overseen
  <2> HIDE DEF Answered
  <2> QED BY <2>1, <2>2, <2>3, <2>4, <2>5 DEF LookFits, Unanswerable
<1>2. CASE holder' = holder /\ holder.step = "deciding"
  <2>1. record' = record
    BY <1>2, HeldRecord
  <2>2. holder.heard => Answered'
    <3> HAVE holder.heard
    <3>1. record.phase \in {"Trial", "Stuck"} /\ record.nonce # 0 /\ receipts[record.nonce] # Nobody
      BY <1>0, <1>2 DEF LookFits, Answered
    <3>2. record.nonce \in Nonces /\ record.outcome # "committed"
      BY <1>0, <3>1 DEF TypeOK, Records, OutcomeFits
    <3>3. receipts'[record.nonce] # Nobody
      BY <3>1, <3>2, ReceiptsGo
    <3> QED BY <2>1, <3>1, <3>3 DEF Answered
  <2>5. Overseen => Overseen'
    BY <2>1, UnseenGrows DEF Overseen
  <2>3. ~holder.alive => ~Running(record.trial)' \/ Overseen'
    <3>1. record.trial \in {Nobody} \cup Trials /\ (record.trial # Nobody => Born(record.trial))
      BY <1>0 DEF TypeOK, Records, RecordedTrialFits
    <3>2. ~Running(record.trial) => ~Running(record.trial)'
      BY <2>1, <3>1, TrialsGo DEF TrialKept, Running, Born
    <3> QED BY <1>0, <1>2, <2>5, <3>2 DEF LookFits
  <2>4. Unanswerable => Unanswerable'
    BY <2>1, UnanswerableStays
  <2> QED BY <1>0, <1>2, <2>2, <2>3, <2>4, <2>5, MisreadStays DEF LookFits
<1> QED BY <1>0, <1>1, <1>2, RoadGoes DEF RoadStep, LookFits

LEMMA DeclaredFitsStep ==
    ASSUME IInv, Next
    PROVE  DeclaredFits'
<1>0. TypeOK /\ DeclaredFits /\ RecordedTrialFits /\ OutcomeFits
  BY DEF IInv
<1>1. \A t \in declared : t \in Trials /\ trials'[t].step # "unborn" /\
                          (trials[t].step = "ended" => trials'[t].step = "ended")
  BY <1>0, TrialsGo DEF DeclaredFits, TrialKept, TypeOK
<1>2. CASE declared' = declared
  <2>1. CASE record' = record
    BY <1>0, <1>1, <1>2, <2>1, UnseenGrows DEF DeclaredFits, Born
  <2>2. CASE JournalStep
    <3>1. record'.phase \in {"Handoff", "Armed", "Moving", "TrialStarting", "Trial"} => declared = {}
      BY <1>0, <2>2 DEF JournalStep, DeclaredFits, Over
    <3>2. record'.nonce # 0 \/ record'.outcome = "committed" => record'.trial \notin declared \ unseen
      BY <1>0, <2>2 DEF JournalStep, Kept, DeclaredFits, Begins, OutcomeFits, Answered, Over
    <3>3. \A t \in declared : t = record'.trial \/ trials'[t].step = "ended" \/ t \in unseen
      <4>1. \/ record'.trial = record.trial
            \/ declared = {}
            \/ ~Running(record.trial) \/ Overseen
        BY <1>0, <2>2 DEF JournalStep, Kept, DeclaredFits
      <4>2. \A t \in declared : t = record.trial \/ trials[t].step = "ended" \/ t \in unseen
        BY <1>0 DEF DeclaredFits
      <4>3. \A t \in declared : t # Nobody /\ Born(t)
        BY <1>0, NobodyIsNoTrial DEF DeclaredFits, TypeOK
      <4> QED BY <1>1, <4>1, <4>2, <4>3 DEF Running, Born, Overseen
    <3> QED BY <1>1, <1>2, <3>1, <3>2, <3>3, UnseenGrows DEF DeclaredFits, Born
  <2> QED BY <2>1, <2>2, JournalGoes
<1>3. CASE record.phase = "Trial" /\ record' = RollbackDeclared /\ declared' = declared \cup {record.trial}
  <2>1. /\ declared = {} /\ record.trial \in Trials /\ Born(record.trial) /\ record.outcome = "none"
    BY <1>0, <1>3 DEF DeclaredFits, RecordedTrialFits, OutcomeFits, TypeOK, Records
  <2>2. /\ record'.phase = "RollbackIntent" /\ record'.nonce = 0 /\ record'.trial = record.trial
        /\ record'.outcome = "none"
    BY <1>0, <1>3, <2>1, RollbackSays
  <2>3. trials'[record.trial].step # "unborn"
    BY <2>1, TrialsGo DEF TrialKept
  <2> QED BY <1>3, <2>1, <2>2, <2>3 DEF DeclaredFits, Born
<1> QED BY <1>2, <1>3, DeclaredGrows

-----------------------------------------------------------------------------
(* The new set.                                                            *)
LEMMA NewSetKeptStep ==
    ASSUME IInv, Next
    PROVE  NewSetKept'
<1>0. TypeOK /\ StepFitsRecord /\ NewSetKept
  BY DEF IInv, NewSetFits
<1> DEFINE Early == {"Handoff", "Armed", "Moving"}
<1>1. record'.phase \in Early => record.phase \in Early
  BY <1>0, JournalGoes DEF JournalStep, Over
<1>2. CASE at' = at
  BY <1>0, <1>1, <1>2 DEF NewSetKept
<1>3. CASE Activates
  <2>1. record.phase = "Moving" /\ record' = record
    BY <1>0, <1>3 DEF Activates, Applier, StepFitsRecord
  <2>2. \A m \in NewNames : New(m) \in {at.set[m], at.install[m]}
    BY <1>0, <2>1 DEF NewSetKept
  <2>3. ASSUME NEW n \in MovesOut, Moved(n, "install", "backup") PROVE NewSetKept'
    <3>1. n \in Names /\ at.set[n] = New(n)
      BY DEF MovesOut, Names
    <3>2. at'.set = at.set /\ \A m \in NewNames \ {n} : at'.install[m] = at.install[m]
      BY <1>0, <2>3, <3>1, MovedSays DEF Names
    <3> QED BY <2>2, <3>1, <3>2 DEF NewSetKept
  <2>4. ASSUME NEW n \in MovesIn, Moved(n, "set", "install") PROVE NewSetKept'
    <3>1. n \in Names /\ at.set[n] = New(n)
      BY DEF MovesIn, Names
    <3>2. /\ at'.install[n] = New(n)
          /\ \A m \in NewNames \ {n} : at'.install[m] = at.install[m] /\ at'.set[m] = at.set[m]
      BY <1>0, <2>4, <3>1, MovedSays DEF Names
    <3> QED BY <2>2, <3>2 DEF NewSetKept
  <2> QED BY <1>3, <2>3, <2>4 DEF Activates
<1>4. ActivatesBack \/ StartRetires \/ (\E n \in OldNames : DeletesOld(n)) => record.phase \notin Early
  BY <1>0 DEF ActivatesBack, StartRetires, DeletesOld, StepFitsRecord, Over
<1>5. at' = at \/ FilesMove
  BY NextBySort, RoadLeaves, JournalLeaves, TrialsLeave, WindowsLeave DEF disk
<1> QED BY <1>1, <1>2, <1>3, <1>4, <1>5 DEF FilesMove, NewSetKept

LEMMA NewSetFitsStep ==
    ASSUME IInv, Next
    PROVE  NewSetFits'
<1>0. TypeOK /\ StepFitsRecord /\ OutcomeFits /\ LookFits /\ NewSetFits
  BY DEF IInv
<1>1. ASSUME at'.install = at.install PROVE NewIsLive' = NewIsLive
  BY <1>1 DEF NewIsLive
(* Only the rollback moves an installed file of the new set.               *)
<1>2. at'.install = at.install \/ Activates \/ ActivatesBack
  <2>1. ASSUME NEW n \in OldNames, DeletesOld(n) PROVE at'.install = at.install
    BY <1>0, <2>1 DEF DeletesOld, TypeOK
  <2>2. StartRetires => at'.install = at.install
    BY <1>0 DEF StartRetires, TypeOK
  <2> QED BY <2>1, <2>2, NextBySort, RoadLeaves, JournalLeaves, TrialsLeave, WindowsLeave
          DEF FilesMove, disk
<1>3. Activates => record' = record /\ holder' = holder /\ record.phase = "Moving" /\ holder.step = "moving"
  BY <1>0 DEF Activates, Applier, StepFitsRecord
<1>4. ActivatesBack => /\ record' = record /\ record.phase \in {"RollbackIntent", "Stuck"}
                       /\ holder' = holder /\ holder.step = "restoring"
                       /\ misread \/ Overseen \/ Unanswerable
  BY <1>0 DEF ActivatesBack, StepFitsRecord, NewSetFits
<1>10. record'.trial = record.trial /\ Overseen => Overseen'
  BY UnseenGrows DEF Overseen
<1>5. holder'.step \in {"trying", "launched", "retrying", "relaunched"} => NewIsLive'
  <2>1. AdmissionDropped => NewIsLive /\ at' = at
    BY <1>0 DEF AdmissionDropped, Applier, StepFitsRecord, NewSetFits, NewSetKept, MovesIn, NewIsLive, disk
  <2>2. ASSUME NEW t \in Trials, LaunchesTrial(t) \/ RetriesAsTrial(t) PROVE NewIsLive /\ at' = at
    BY <1>0, <2>2 DEF LaunchesTrial, Applier, RetriesAsTrial, Retrying, NewSetFits, disk
  <2>3. holder' = holder /\ holder.step \in {"trying", "launched", "retrying", "relaunched"} =>
            NewIsLive /\ at' = at
    BY <1>0, HeldFiles DEF NewSetFits
  <2>4. RetryLooks => NewIsLive /\ at' = at
    BY DEF RetryLooks, MayRetry, disk
  <2> QED BY <1>0, <1>1, <2>1, <2>2, <2>3, <2>4, RoadGoes DEF RoadStep
<1>6. record'.phase \in {"TrialStarting", "Trial"} => NewIsLive'
  <2>1. record'.phase \in {"TrialStarting", "Trial"} => NewIsLive
    BY <1>0, JournalGoes DEF JournalStep, Kept, Begins, NewSetFits
  <2> QED BY <1>1, <1>2, <1>3, <1>4, <2>1
<1>7. record'.phase = "Stuck" /\ record'.nonce # 0 => misread' \/ Overseen' \/ NewIsLive' \/ Unanswerable'
  <2>1. CASE record' = record
    BY <1>0, <1>1, <1>2, <1>3, <1>4, <1>10, <2>1, UnanswerableStays, MisreadStays DEF NewSetFits
  <2>2. CASE record' # record
    <3>1. record'.phase = "Stuck" /\ record'.nonce # 0 => NewIsLive
      BY <2>2, JournalGoes DEF JournalStep, Kept, Begins
    <3> QED BY <1>1, <1>2, <1>3, <1>4, <2>2, <3>1
  <2> QED BY <2>1, <2>2
<1>8. holder'.step = "restoring" => misread' \/ Overseen' \/ Unanswerable'
  <2>1. CASE HoldsAdmission
    <3>1. misread \/ Overseen \/ Unanswerable
      BY <1>0, <2>1 DEF HoldsAdmission, Restorable, Decides, Back, Forward, LookFits, Answered
    <3>2. record' = record
      BY <2>1 DEF HoldsAdmission, disk
    <3> QED BY <1>10, <3>1, <3>2, UnanswerableStays, MisreadStays
  <2>2. CASE holder' = holder /\ holder.step = "restoring"
    BY <1>0, <1>10, <2>2, HeldRecord, UnanswerableStays, MisreadStays DEF NewSetFits
  <2> QED BY <2>1, <2>2, RoadGoes DEF RoadStep, IInv
<1>9. record'.outcome = "committed" => misread' \/ Overseen' \/ NewIsLive'
  <2>1. record'.outcome = "committed" =>
            misread \/ NewIsLive \/ (Overseen /\ record'.trial = record.trial)
    BY <1>0, JournalGoes DEF JournalStep, Kept, Begins, OutcomeFits, NewSetFits
  <2>2. Activates \/ ActivatesBack => record'.outcome # "committed"
    BY <1>0, <1>3, <1>4 DEF OutcomeFits
  <2> QED BY <1>1, <1>2, <1>10, <2>1, <2>2, MisreadStays
<1> QED BY <1>5, <1>6, <1>7, <1>8, <1>9, NewSetKeptStep DEF NewSetFits

-----------------------------------------------------------------------------
(* The invariant, and what it gives.                                       *)
LEMMA InitIInv == Init => IInv
<1> SUFFICES ASSUME Init PROVE IInv
  OBVIOUS
<1> USE DEF Init
<1>0. /\ record = [phase |-> "Handoff", nonce |-> 0, trial |-> Nobody, tries |-> 0, outcome |-> "none"]
      /\ holder = [NoHolder EXCEPT !.who = "P", !.step = "waiting"]
      /\ trials = [t \in Trials |-> [step |-> "unborn", nonce |-> 0, admitted |-> FALSE]]
      /\ declared = {} /\ UpdateAssumption
  BY UpdateAssumption
<1>1. holder \in Holders /\ holder.step = "waiting" /\ holder.who = "P"
  <2>1. NoHolder \in Holders
    BY UpdateAssumption DEF NoHolder, Holders, HolderSteps
  <2>2. "P" \in {"none", "P", "R"} /\ "waiting" \in HolderSteps
    BY DEF HolderSteps
  <2> HIDE DEF Init
  <2> QED BY <1>0, <2>1, <2>2 DEF Holders
<1>2. record \in Records
  BY DEF Records, Phases, Destructive
<1>3. trials \in [Trials -> Processes]
  BY DEF Processes
<1>4. at \in [{"install", "set", "backup", "rolledout"} -> [Names -> Digests]]
  <2>1. \A n \in Names : Old(n) \in Digests /\ New(n) \in Digests /\ "none" \in Digests
    BY DEF Old, New, Digests
  <2>2. /\ [n \in Names |-> Old(n)] \in [Names -> Digests]
        /\ [n \in Names |-> New(n)] \in [Names -> Digests]
        /\ [n \in Names |-> "none"] \in [Names -> Digests]
    BY <2>1
  <2>3. at = [install |-> [n \in Names |-> Old(n)], set |-> [n \in Names |-> New(n)],
              backup |-> [n \in Names |-> "none"], rolledout |-> [n \in Names |-> "none"]]
    OBVIOUS
  <2> HIDE DEF Init
  <2>4. /\ DOMAIN at = {"install", "set", "backup", "rolledout"}
        /\ at = [f \in DOMAIN at |-> at[f]]
        /\ \A f \in {"install", "set", "backup", "rolledout"} : at[f] \in [Names -> Digests]
    BY <2>2, <2>3
  <2> QED BY <2>4
<1>5. receipts \in [Nonces -> {Nobody} \cup Trials]
  OBVIOUS
<1>6. TypeOK
  BY <1>1, <1>2, <1>3, <1>4, <1>5 DEF TypeOK
<1>7. /\ \A n \in Names : at.install[n] = Old(n) /\ at.set[n] = New(n) /\ at.backup[n] = "none"
      /\ OldNames \subseteq Names /\ NewNames \subseteq Names
  BY DEF Names
<1>8. OldIsLive
  <2>1. ASSUME NEW n \in NewNames \ OldNames PROVE at.install[n] # New(n)
    <3>1. Old(n) = "none" /\ New(n) = "new"
      BY <1>0 DEF Old, New, UpdateAssumption
    <3> QED BY <1>7, <3>1
  <2> QED BY <1>7, <2>1 DEF OldIsLive
<1>9. OldSetFits /\ NewSetKept
  BY <1>7, <1>8 DEF OldSetFits, OldSetKept, OldIsWhole, BackupIsOld, NewSetKept
<1>10. StepFitsRecord /\ EntranceFits /\ OutcomeFits
  BY <1>0, <1>1 DEF StepFitsRecord, EntranceFits, EntranceStands, OutcomeFits
<1>11. NewSetFits /\ RecordedTrialFits /\ DeclaredFits
  BY <1>0, <1>1, <1>9 DEF NewSetFits, RecordedTrialFits, DeclaredFits
<1>12. NoncesFit /\ SuccessorFits /\ RetryFits /\ LookFits
  BY <1>0, <1>1 DEF NoncesFit, Born, SuccessorFits, RetryFits, LookFits
<1> QED BY <1>6, <1>9, <1>10, <1>11, <1>12 DEF IInv

LEMMA NextIInv == IInv /\ [Next]_vars => IInv'
<1>1. ASSUME IInv, Next PROVE IInv'
  BY <1>1, TypeStep, StepFitsStep, EntranceFitsStep, OutcomeFitsStep, OldSetFitsStep, NewSetFitsStep,
     NoncesFitStep, SuccessorFitsStep, RetryFitsStep, RecordedTrialFitsStep, LookFitsStep, DeclaredFitsStep DEF IInv
<1>2. ASSUME IInv, UNCHANGED vars PROVE IInv'
  <2> USE <1>2 DEF vars, disk, history
  <2>1. TypeOK'
    BY DEF IInv, TypeOK
  <2>2. StepFitsRecord'
    BY DEF IInv, StepFitsRecord
  <2>3. EntranceFits' /\ OutcomeFits'
    BY DEF IInv, EntranceFits, EntranceStands, OutcomeFits
  <2>4. OldSetFits' /\ NewSetFits'
    BY DEF IInv, OldSetFits, OldSetKept, OldIsWhole, EndsOld, OldIsLive, BackupIsOld, NewSetFits,
       NewSetKept, NewIsLive, Overseen, Unanswerable, Answered, Running
  <2>5. NoncesFit' /\ SuccessorFits' /\ RetryFits' /\ RecordedTrialFits' /\ LookFits' /\ DeclaredFits'
    BY DEF IInv, NoncesFit, Born, SuccessorFits, RetryFits, RecordedTrialFits, LookFits, DeclaredFits,
       Overseen, Unanswerable, Answered, Running
  <2> QED BY <2>1, <2>2, <2>3, <2>4, <2>5 DEF IInv
<1> QED BY <1>1, <1>2

LEMMA SpecIInv == Spec => []IInv
BY InitIInv, NextIInv, PTL DEF Spec

(* The state is of its type: the turns of a road are bounded, and a trial  *)
(* planned or begun has its nonce (settle, and the journal's events).      *)
THEOREM UpdateTypeCorrect == Spec => []TypeOK
<1>1. IInv => TypeOK
  BY DEF IInv
<1> QED BY <1>1, SpecIInv, PTL

(* While files may be moved, a logon brings the recovery: the entrance is  *)
(* armed before the first move and disarmed after the last record.         *)
THEOREM EntranceAlwaysStands == Spec => []EntranceStands
<1>1. IInv => EntranceStands
  BY DEF IInv, EntranceFits
<1> QED BY <1>1, SpecIInv, PTL

(* Whatever dies and whenever, and whatever a look misses, the old set is  *)
(* in the install or the backup until a commit and whole in the install at *)
(* every end without one.  A commit is over the whole new set, unless a    *)
(* receipt has been misread, or its trial taken for ended while it ran.    *)
THEOREM SetsStayWhole == Spec => []WholeSets
<1>1. IInv => WholeSets
  BY DEF IInv, OldSetFits, NewSetFits, Overseen, WholeSets, CommittedIsNew
<1> QED BY <1>1, SpecIInv, PTL

(* No commit is on the trial that a rollback was declared on, however often *)
(* trials are started, adopted and stopped after it (decide, settle),      *)
(* where no look took that trial for ended while it ran.                   *)
THEOREM DeclaredStaysUnheard == Spec => []DeclaredIsNeverHeard
<1>1. IInv => DeclaredIsNeverHeard
  BY DEF IInv, DeclaredFits, DeclaredIsNeverHeard
<1> QED BY <1>1, SpecIInv, PTL
=============================================================================
