------------------------ MODULE InstanceClaimProofs ------------------------
(***************************************************************************)
(* That a data directory has one writer, whatever processes ask, wait, let *)
(* go, sweep and die, and that the files and their locks behave as one     *)
(* object: for every set of processes and of files, and every number of    *)
(* attempts.                                                               *)
(***************************************************************************)
EXTENDS InstanceClaim, TLAPS

USE DEF pathVars, guardVars, tryVars, startVars, sweepVars

-----------------------------------------------------------------------------
(* The inductive invariant.                                                *)

ClaimOf(p) == <<p, "claim">>
SweepOf(p) == <<p, "sweep">>

Asking(p) == place[p] \in {"opening", "locking", "doubting", "checking", "clearing"}

(* The process has a lock file's lock; and it has the one the name leads   *)
(* to.                                                                     *)
HasLock(p) ==
    \/ place[p] \in {"checking", "clearing", "had", "dropping", "unlinking", "closing"}
    \/ place[p] = "idle" /\ row[p] = "writer"

Holds(p) == HasLock(p) /\ place[p] \notin {"checking", "closing"}

Sweeping(p)  == sweepAt[p] \in {"guarded", "locked", "unlinking", "closing"}
SweepHas(p)  == sweepAt[p] \in {"locked", "unlinking", "closing"}

(* Who asks has no answer yet, who waits has not begun, and who is between *)
(* its answer and its doors is the writer.                                 *)
PlacesFit ==
    \A p \in Processes :
        /\ place[p] # "idle" => row[p] # "writer"
        /\ Asking(p) \/ place[p] = "had" => row[p] = "unasked"
        /\ place[p] = "had" => road[p] = "try"
        /\ (Asking(p) \/ place[p] = "had") /\ road[p] = "try" => stage[p] = "starting"
        /\ stage[p] = "binding" => row[p] = "writer"

(* The guard is with the claims that ask, or with one sweep.               *)
GuardsFit ==
    /\ \A p \in Processes : p \in readers <=> Asking(p)
    /\ \A p \in Processes : sweeper = p <=> Sweeping(p)
    /\ readers = {} \/ sweeper = NoProcess

(* Each lock is with the one that has its file open, where its road says   *)
(* that it has it.                                                         *)
ClaimsLocked ==
    \A p \in Processes :
        /\ \A f \in Files : lock[f] = ClaimOf(p) <=> HasLock(p) /\ fd[p] = f
        /\ HasLock(p) \/ place[p] \in {"locking", "doubting"} => fd[p] # NoFile

SweepsLocked ==
    \A p \in Processes :
        /\ \A f \in Files : lock[f] = SweepOf(p) <=> SweepHas(p) /\ sweepFd[p] = f
        /\ SweepHas(p) => sweepFd[p] # NoFile

(* The name leads to the file of whoever holds the claim, and of whoever   *)
(* is about to unlink it.                                                  *)
HeldIsNamed ==
    \A p \in Processes :
        /\ Holds(p) => name = fd[p]
        /\ place[p] = "closing" => name # fd[p]
        /\ sweepAt[p] = "unlinking" => name = sweepFd[p]

DoorsFit ==
    \A p \in Processes :
        row[p] = "writer" \/ place[p] = "had" => door \in {NoDoor, DoorOf(p)}

(* A process that no sweep turned away has its answer from its first ask.  *)
AnsweredAtOnce ==
    \A p \in Processes : ~told[p] =>
        /\ stage[p] # "starting" => row[p] # "unasked"
        /\ row[p] = "writer" /\ stage[p] \in {"session", "binding", "resident"} => keeps[p]
        /\ row[p] = "writer" /\ stage[p] = "resident" => door = DoorOf(p)

LocksFit == ClaimsLocked /\ SweepsLocked /\ HeldIsNamed

IInv == TypeOK /\ PlacesFit /\ GuardsFit /\ LocksFit /\ DoorsFit /\ AnsweredAtOnce

-----------------------------------------------------------------------------
(* Locks and doors told apart.                                             *)

LEMMA HoldersDiffer ==
    ASSUME NEW p \in Processes, NEW q \in Processes
    PROVE  /\ ClaimOf(p) # SweepOf(q) /\ ClaimOf(p) # Nobody /\ SweepOf(p) # Nobody
           /\ ClaimOf(p) = ClaimOf(q) <=> p = q
           /\ SweepOf(p) = SweepOf(q) <=> p = q
  BY DEF ClaimOf, SweepOf, Nobody

LEMMA DoorsDiffer ==
    ASSUME NEW p \in Processes, NEW q \in Processes
    PROVE  /\ DoorOf(p) # NoDoor /\ DoorOf(p) # Stale /\ NoDoor # Stale
           /\ DoorOf(p) = DoorOf(q) <=> p = q
  BY DEF DoorOf, NoDoor, Stale

(* Two processes do not hold the claim at once: the name leads to one      *)
(* file, and its lock is with one of them.                                 *)
LEMMA OneHolder ==
    ASSUME TypeOK, LocksFit,
           NEW p \in Processes, NEW q \in Processes, Holds(p), Holds(q)
    PROVE  p = q
<1>1. name \in Files
  BY DEF TypeOK, LocksFit, HeldIsNamed, ClaimsLocked, Holds
<1>2. lock[name] = ClaimOf(p) /\ lock[name] = ClaimOf(q)
  BY <1>1 DEF LocksFit, HeldIsNamed, ClaimsLocked, Holds
<1>3. QED
  BY <1>2, HoldersDiffer

LEMMA AnswersTyped ==
    ASSUME TypeOK, NEW p \in Processes, NEW for, NEW answer, Answers(p, for, answer)
    PROVE  /\ readers' \in SUBSET Processes
           /\ row' \in [Processes -> {"unasked", "writer", "refused"}]
           /\ stage' \in [Processes -> Stages]
           /\ keeps' \in [Processes -> BOOLEAN] /\ told' \in [Processes -> BOOLEAN]
<1>1. readers' \in SUBSET Processes /\ told' \in [Processes -> BOOLEAN]
  BY DEF TypeOK, Answers
<1>2. CASE for = "ask"
  <2>1. row' \in [Processes -> {"unasked", "writer", "refused"}]
    BY <1>2 DEF TypeOK, Answers, Remembered
  <2>2. stage' \in [Processes -> Stages]
    BY <1>2 DEF TypeOK, Answers, GoesOn, Stages
  <2>3. keeps' \in [Processes -> BOOLEAN]
    <3>1. (answer = "Ours") \in BOOLEAN
      OBVIOUS
    <3>2. QED
      BY <1>2, <3>1 DEF TypeOK, Answers, GoesOn
  <2>4. QED
    BY <1>1, <2>1, <2>2, <2>3
<1>3. CASE for # "ask"
  BY <1>1, <1>3 DEF TypeOK, Answers
<1>4. QED
  BY <1>2, <1>3

-----------------------------------------------------------------------------
(* Each part is kept by every step of any process.                         *)

(* The types.                                                              *)
LEMMA TypeStep ==
    ASSUME TypeOK, NEW p \in Processes, Step(p)
    PROVE  TypeOK'
<1>1. CASE Ask(p)
  BY <1>1, AnswersTyped, ClaimAssumption
     DEF Ask, Begins, Refused, TypeOK, Places
<1>2. CASE TableAnswers(p)
  BY <1>2, ClaimAssumption DEF TableAnswers, GoesOn, TypeOK, Holders, Nobody, Doors,
      NoDoor, Stale, DoorOf, Places, Stages, SweepPlaces
<1>3. CASE Try(p)
  BY <1>3, AnswersTyped, ClaimAssumption
     DEF Try, Begins, Refused, TypeOK, Places
<1>4. CASE Opens(p)
  BY <1>4, ClaimAssumption DEF Opens, Open, TypeOK, Holders, Nobody, Doors, NoDoor,
      Stale, DoorOf, Places, Stages, SweepPlaces
<1>5. CASE Locks(p)
  BY <1>5, ClaimAssumption DEF Locks, TypeOK, Holders, Nobody, Doors, NoDoor, Stale,
      DoorOf, Places, Stages, SweepPlaces
<1>6. CASE LockRefused(p)
  BY <1>6, ClaimAssumption DEF LockRefused, TypeOK, Holders, Nobody, Doors, NoDoor,
      Stale, DoorOf, Places, Stages, SweepPlaces
<1>7. CASE Denied(p)
  BY <1>7, AnswersTyped, ClaimAssumption
     DEF Denied, Refused, TypeOK, Places
<1>8. CASE Doubts(p)
  BY <1>8, AnswersTyped, ClaimAssumption
     DEF Doubts, OpensAgain, GivesUp, Refused, TypeOK, Places
<1>9. CASE Checks(p)
  BY <1>9, AnswersTyped, ClaimAssumption
     DEF Checks, OpensAgain, GivesUp, Refused, TypeOK, Places, Holders
<1>10. CASE Clears(p)
  BY <1>10, AnswersTyped, ClaimAssumption
     DEF Clears, TypeOK, Places, Doors
<1>11. CASE Adopts(p)
  BY <1>11, ClaimAssumption DEF Adopts, TypeOK, Holders, Nobody, Doors, NoDoor, Stale,
      DoorOf, Places, Stages, SweepPlaces
<1>12. CASE DropsProbe(p)
  BY <1>12, ClaimAssumption DEF DropsProbe, TypeOK, Holders, Nobody, Doors, NoDoor,
      Stale, DoorOf, Places, Stages, SweepPlaces
<1>13. CASE LetsGo(p)
  BY <1>13, ClaimAssumption DEF LetsGo, TypeOK, Holders, Nobody, Doors, NoDoor, Stale,
      DoorOf, Places, Stages, SweepPlaces
<1>14. CASE DropChecks(p)
  BY <1>14, ClaimAssumption DEF DropChecks, TypeOK, Holders, Nobody, Doors, NoDoor,
      Stale, DoorOf, Places, Stages, SweepPlaces
<1>15. CASE DropUnlinks(p)
  BY <1>15, ClaimAssumption DEF DropUnlinks, TypeOK, Holders, Nobody, Doors, NoDoor,
      Stale, DoorOf, Places, Stages, SweepPlaces
<1>16. CASE DropCloses(p)
  BY <1>16, ClaimAssumption DEF DropCloses, TypeOK, Holders, Nobody, Doors, NoDoor,
      Stale, DoorOf, Places, Stages, SweepPlaces
<1>17. CASE BindsDoors(p)
  BY <1>17, ClaimAssumption DEF BindsDoors, TypeOK, Holders, Nobody, Doors, NoDoor,
      Stale, DoorOf, Places, Stages, SweepPlaces
<1>18. CASE SweepStarts(p)
  BY <1>18, ClaimAssumption DEF SweepStarts, SweepTo, TypeOK, Holders, Nobody, Doors,
      NoDoor, Stale, DoorOf, Places, Stages, SweepPlaces
<1>19. CASE SweepOpens(p)
  BY <1>19, ClaimAssumption DEF SweepOpens, SweepTo, TypeOK, Holders, Nobody, Doors,
      NoDoor, Stale, DoorOf, Places, Stages, SweepPlaces
<1>20. CASE SweepGuards(p)
  BY <1>20, ClaimAssumption DEF SweepGuards, SweepTo, TypeOK, Holders, Nobody, Doors,
      NoDoor, Stale, DoorOf, Places, Stages, SweepPlaces
<1>21. CASE SweepLocks(p)
  BY <1>21, ClaimAssumption DEF SweepLocks, SweepTo, TypeOK, Holders, Nobody, Doors,
      NoDoor, Stale, DoorOf, Places, Stages, SweepPlaces
<1>22. CASE SweepChecks(p)
  BY <1>22, ClaimAssumption DEF SweepChecks, SweepTo, TypeOK, Holders, Nobody, Doors,
      NoDoor, Stale, DoorOf, Places, Stages, SweepPlaces
<1>23. CASE SweepUnlinks(p)
  BY <1>23, ClaimAssumption DEF SweepUnlinks, SweepTo, TypeOK, Holders, Nobody, Doors,
      NoDoor, Stale, DoorOf, Places, Stages, SweepPlaces
<1>24. CASE SweepLeaves(p)
  BY <1>24, ClaimAssumption DEF SweepLeaves, SweepTo, TypeOK, Holders, Nobody, Doors,
      NoDoor, Stale, DoorOf, Places, Stages, SweepPlaces
<1>25. CASE Dies(p)
  BY <1>25, ClaimAssumption DEF Dies, TypeOK, Holders, Nobody, Doors, NoDoor, Stale,
      DoorOf, Places, Stages, SweepPlaces
<1>26. QED
  BY <1>1, <1>2, <1>3, <1>4, <1>5, <1>6, <1>7, <1>8, <1>9, <1>10, <1>11, <1>12, <1>13,
      <1>14, <1>15, <1>16, <1>17, <1>18, <1>19, <1>20, <1>21, <1>22, <1>23, <1>24, <1>25
      DEF Step

(* Where a process is in its claim fits what its table says.               *)
LEMMA PlacesStep ==
    ASSUME TypeOK, PlacesFit, NEW p \in Processes, Step(p)
    PROVE  PlacesFit'
<1>1. CASE Ask(p)
  BY <1>1 DEF Ask, Begins, Refused, Answers, GoesOn, Remembered, TypeOK, PlacesFit,
      Asking
<1>2. CASE TableAnswers(p)
  BY <1>2 DEF TableAnswers, GoesOn, TypeOK, PlacesFit, Asking
<1>3. CASE Try(p)
  BY <1>3 DEF Try, Begins, Refused, Answers, GoesOn, Remembered, TypeOK, PlacesFit,
      Asking
<1>4. CASE Opens(p)
  BY <1>4 DEF Opens, Open, TypeOK, PlacesFit, Asking
<1>5. CASE Locks(p)
  BY <1>5 DEF Locks, TypeOK, PlacesFit, Asking
<1>6. CASE LockRefused(p)
  BY <1>6 DEF LockRefused, TypeOK, PlacesFit, Asking
<1>7. CASE Denied(p)
  BY <1>7 DEF Denied, Refused, Answers, GoesOn, Remembered, TypeOK, PlacesFit, Asking
<1>8. CASE Doubts(p)
  BY <1>8 DEF Doubts, OpensAgain, GivesUp, Refused, Answers, GoesOn, Remembered, TypeOK,
      PlacesFit, Asking
<1>9. CASE Checks(p)
  BY <1>9 DEF Checks, OpensAgain, GivesUp, Refused, Answers, GoesOn, Remembered, TypeOK,
      PlacesFit, Asking
<1>10. CASE Clears(p)
  BY <1>10 DEF Clears, Answers, GoesOn, Remembered, TypeOK, PlacesFit, Asking
<1>11. CASE Adopts(p)
  BY <1>11 DEF Adopts, TypeOK, PlacesFit, Asking
<1>12. CASE DropsProbe(p)
  BY <1>12 DEF DropsProbe, TypeOK, PlacesFit, Asking
<1>13. CASE LetsGo(p)
  BY <1>13 DEF LetsGo, TypeOK, PlacesFit, Asking
<1>14. CASE DropChecks(p)
  BY <1>14 DEF DropChecks, TypeOK, PlacesFit, Asking
<1>15. CASE DropUnlinks(p)
  BY <1>15 DEF DropUnlinks, TypeOK, PlacesFit, Asking
<1>16. CASE DropCloses(p)
  BY <1>16 DEF DropCloses, TypeOK, PlacesFit, Asking
<1>17. CASE BindsDoors(p)
  BY <1>17 DEF BindsDoors, TypeOK, PlacesFit, Asking
<1>18. CASE SweepStarts(p)
  BY <1>18 DEF SweepStarts, SweepTo, TypeOK, PlacesFit, Asking
<1>19. CASE SweepOpens(p)
  BY <1>19 DEF SweepOpens, SweepTo, TypeOK, PlacesFit, Asking
<1>20. CASE SweepGuards(p)
  BY <1>20 DEF SweepGuards, SweepTo, TypeOK, PlacesFit, Asking
<1>21. CASE SweepLocks(p)
  BY <1>21 DEF SweepLocks, SweepTo, TypeOK, PlacesFit, Asking
<1>22. CASE SweepChecks(p)
  BY <1>22 DEF SweepChecks, SweepTo, TypeOK, PlacesFit, Asking
<1>23. CASE SweepUnlinks(p)
  BY <1>23 DEF SweepUnlinks, SweepTo, TypeOK, PlacesFit, Asking
<1>24. CASE SweepLeaves(p)
  BY <1>24 DEF SweepLeaves, SweepTo, TypeOK, PlacesFit, Asking
<1>25. CASE Dies(p)
  BY <1>25 DEF Dies, TypeOK, PlacesFit, Asking
<1>26. QED
  BY <1>1, <1>2, <1>3, <1>4, <1>5, <1>6, <1>7, <1>8, <1>9, <1>10, <1>11, <1>12, <1>13,
      <1>14, <1>15, <1>16, <1>17, <1>18, <1>19, <1>20, <1>21, <1>22, <1>23, <1>24, <1>25
      DEF Step

(* The guard shuts claims and sweeps out of each other's files.            *)
LEMMA GuardsStep ==
    ASSUME TypeOK, PlacesFit, GuardsFit, NEW p \in Processes, Step(p)
    PROVE  GuardsFit'
<1>1. CASE Ask(p)
  BY <1>1, ClaimAssumption DEF Ask, Begins, Refused, Answers, GoesOn, Remembered,
      TypeOK, GuardsFit, Asking, Sweeping
<1>2. CASE TableAnswers(p)
  BY <1>2, ClaimAssumption DEF TableAnswers, GoesOn, TypeOK, GuardsFit, Asking, Sweeping
<1>3. CASE Try(p)
  BY <1>3, ClaimAssumption DEF Try, Begins, Refused, Answers, GoesOn, Remembered,
      TypeOK, GuardsFit, Asking, Sweeping
<1>4. CASE Opens(p)
  BY <1>4, ClaimAssumption DEF Opens, Open, TypeOK, GuardsFit, Asking, Sweeping
<1>5. CASE Locks(p)
  BY <1>5, ClaimAssumption DEF Locks, TypeOK, GuardsFit, Asking, Sweeping
<1>6. CASE LockRefused(p)
  BY <1>6, ClaimAssumption DEF LockRefused, TypeOK, GuardsFit, Asking, Sweeping
<1>7. CASE Denied(p)
  BY <1>7, ClaimAssumption DEF Denied, Refused, Answers, GoesOn, Remembered, TypeOK,
      GuardsFit, Asking, Sweeping
<1>8. CASE Doubts(p)
  BY <1>8, ClaimAssumption DEF Doubts, OpensAgain, GivesUp, Refused, Answers, GoesOn,
      Remembered, TypeOK, GuardsFit, Asking, Sweeping
<1>9. CASE Checks(p)
  BY <1>9, ClaimAssumption DEF Checks, OpensAgain, GivesUp, Refused, Answers, GoesOn,
      Remembered, TypeOK, GuardsFit, Asking, Sweeping
<1>10. CASE Clears(p)
  BY <1>10, ClaimAssumption DEF Clears, Answers, GoesOn, Remembered, TypeOK, GuardsFit,
      Asking, Sweeping
<1>11. CASE Adopts(p)
  BY <1>11, ClaimAssumption DEF Adopts, TypeOK, GuardsFit, Asking, Sweeping
<1>12. CASE DropsProbe(p)
  BY <1>12, ClaimAssumption DEF DropsProbe, TypeOK, GuardsFit, Asking, Sweeping
<1>13. CASE LetsGo(p)
  BY <1>13, ClaimAssumption DEF LetsGo, TypeOK, GuardsFit, Asking, Sweeping
<1>14. CASE DropChecks(p)
  BY <1>14, ClaimAssumption DEF DropChecks, TypeOK, GuardsFit, Asking, Sweeping
<1>15. CASE DropUnlinks(p)
  BY <1>15, ClaimAssumption DEF DropUnlinks, TypeOK, GuardsFit, Asking, Sweeping
<1>16. CASE DropCloses(p)
  BY <1>16, ClaimAssumption DEF DropCloses, TypeOK, GuardsFit, Asking, Sweeping
<1>17. CASE BindsDoors(p)
  BY <1>17, ClaimAssumption DEF BindsDoors, TypeOK, GuardsFit, Asking, Sweeping
<1>18. CASE SweepStarts(p)
  BY <1>18, ClaimAssumption DEF SweepStarts, SweepTo, TypeOK, GuardsFit, Asking,
      Sweeping
<1>19. CASE SweepOpens(p)
  BY <1>19, ClaimAssumption DEF SweepOpens, SweepTo, TypeOK, GuardsFit, Asking, Sweeping
<1>20. CASE SweepGuards(p)
  BY <1>20, ClaimAssumption DEF SweepGuards, SweepTo, TypeOK, GuardsFit, Asking,
      Sweeping
<1>21. CASE SweepLocks(p)
  BY <1>21, ClaimAssumption DEF SweepLocks, SweepTo, TypeOK, GuardsFit, Asking, Sweeping
<1>22. CASE SweepChecks(p)
  BY <1>22, ClaimAssumption DEF SweepChecks, SweepTo, TypeOK, GuardsFit, Asking,
      Sweeping
<1>23. CASE SweepUnlinks(p)
  BY <1>23, ClaimAssumption DEF SweepUnlinks, SweepTo, TypeOK, GuardsFit, Asking,
      Sweeping
<1>24. CASE SweepLeaves(p)
  BY <1>24, ClaimAssumption DEF SweepLeaves, SweepTo, TypeOK, GuardsFit, Asking,
      Sweeping
<1>25. CASE Dies(p)
  BY <1>25, ClaimAssumption DEF Dies, TypeOK, GuardsFit, Asking, Sweeping
<1>26. QED
  BY <1>1, <1>2, <1>3, <1>4, <1>5, <1>6, <1>7, <1>8, <1>9, <1>10, <1>11, <1>12, <1>13,
      <1>14, <1>15, <1>16, <1>17, <1>18, <1>19, <1>20, <1>21, <1>22, <1>23, <1>24, <1>25
      DEF Step

(* A claim's lock.                                                         *)
LEMMA ClaimsStep ==
    ASSUME TypeOK, PlacesFit, ClaimsLocked, SweepsLocked, NEW p \in Processes, Step(p)
    PROVE  ClaimsLocked'
<1>1. CASE Ask(p)
  BY <1>1, ClaimAssumption DEF Ask, Begins, Refused, Answers, GoesOn, Remembered,
      TypeOK, PlacesFit, ClaimsLocked, SweepsLocked, Asking, HasLock, SweepHas, ClaimOf,
      SweepOf, Nobody, Holders
<1>2. CASE TableAnswers(p)
  BY <1>2, ClaimAssumption DEF TableAnswers, GoesOn, TypeOK, PlacesFit, ClaimsLocked,
      SweepsLocked, Asking, HasLock, SweepHas, ClaimOf, SweepOf, Nobody, Holders
<1>3. CASE Try(p)
  BY <1>3, ClaimAssumption DEF Try, Begins, Refused, Answers, GoesOn, Remembered,
      TypeOK, PlacesFit, ClaimsLocked, SweepsLocked, Asking, HasLock, SweepHas, ClaimOf,
      SweepOf, Nobody, Holders
<1>4. CASE Opens(p)
  BY <1>4, ClaimAssumption DEF Opens, Open, TypeOK, PlacesFit, ClaimsLocked,
      SweepsLocked, Asking, HasLock, SweepHas, ClaimOf, SweepOf, Nobody, Holders
<1>5. CASE Locks(p)
  BY <1>5, ClaimAssumption DEF Locks, TypeOK, PlacesFit, ClaimsLocked, SweepsLocked,
      Asking, HasLock, SweepHas, ClaimOf, SweepOf, Nobody, Holders
<1>6. CASE LockRefused(p)
  BY <1>6, ClaimAssumption DEF LockRefused, TypeOK, PlacesFit, ClaimsLocked,
      SweepsLocked, Asking, HasLock, SweepHas, ClaimOf, SweepOf, Nobody, Holders
<1>7. CASE Denied(p)
  BY <1>7, ClaimAssumption DEF Denied, Refused, Answers, GoesOn, Remembered, TypeOK,
      PlacesFit, ClaimsLocked, SweepsLocked, Asking, HasLock, SweepHas, ClaimOf,
      SweepOf, Nobody, Holders
<1>8. CASE Doubts(p)
  BY <1>8, ClaimAssumption DEF Doubts, OpensAgain, GivesUp, Refused, Answers, GoesOn,
      Remembered, TypeOK, PlacesFit, ClaimsLocked, SweepsLocked, Asking, HasLock,
      SweepHas, ClaimOf, SweepOf, Nobody, Holders
<1>9. CASE Checks(p)
  BY <1>9, ClaimAssumption DEF Checks, OpensAgain, GivesUp, Refused, Answers, GoesOn,
      Remembered, TypeOK, PlacesFit, ClaimsLocked, SweepsLocked, Asking, HasLock,
      SweepHas, ClaimOf, SweepOf, Nobody, Holders
<1>10. CASE Clears(p)
  BY <1>10, ClaimAssumption DEF Clears, Answers, GoesOn, Remembered, TypeOK, PlacesFit,
      ClaimsLocked, SweepsLocked, Asking, HasLock, SweepHas, ClaimOf, SweepOf, Nobody,
      Holders
<1>11. CASE Adopts(p)
  BY <1>11, ClaimAssumption DEF Adopts, TypeOK, PlacesFit, ClaimsLocked, SweepsLocked,
      Asking, HasLock, SweepHas, ClaimOf, SweepOf, Nobody, Holders
<1>12. CASE DropsProbe(p)
  BY <1>12, ClaimAssumption DEF DropsProbe, TypeOK, PlacesFit, ClaimsLocked,
      SweepsLocked, Asking, HasLock, SweepHas, ClaimOf, SweepOf, Nobody, Holders
<1>13. CASE LetsGo(p)
  BY <1>13, ClaimAssumption DEF LetsGo, TypeOK, PlacesFit, ClaimsLocked, SweepsLocked,
      Asking, HasLock, SweepHas, ClaimOf, SweepOf, Nobody, Holders
<1>14. CASE DropChecks(p)
  BY <1>14, ClaimAssumption DEF DropChecks, TypeOK, PlacesFit, ClaimsLocked,
      SweepsLocked, Asking, HasLock, SweepHas, ClaimOf, SweepOf, Nobody, Holders
<1>15. CASE DropUnlinks(p)
  BY <1>15, ClaimAssumption DEF DropUnlinks, TypeOK, PlacesFit, ClaimsLocked,
      SweepsLocked, Asking, HasLock, SweepHas, ClaimOf, SweepOf, Nobody, Holders
<1>16. CASE DropCloses(p)
  BY <1>16, ClaimAssumption DEF DropCloses, TypeOK, PlacesFit, ClaimsLocked,
      SweepsLocked, Asking, HasLock, SweepHas, ClaimOf, SweepOf, Nobody, Holders
<1>17. CASE BindsDoors(p)
  BY <1>17, ClaimAssumption DEF BindsDoors, TypeOK, PlacesFit, ClaimsLocked,
      SweepsLocked, Asking, HasLock, SweepHas, ClaimOf, SweepOf, Nobody, Holders
<1>18. CASE SweepStarts(p)
  BY <1>18, ClaimAssumption DEF SweepStarts, SweepTo, TypeOK, PlacesFit, ClaimsLocked,
      SweepsLocked, Asking, HasLock, SweepHas, ClaimOf, SweepOf, Nobody, Holders
<1>19. CASE SweepOpens(p)
  BY <1>19, ClaimAssumption DEF SweepOpens, SweepTo, TypeOK, PlacesFit, ClaimsLocked,
      SweepsLocked, Asking, HasLock, SweepHas, ClaimOf, SweepOf, Nobody, Holders
<1>20. CASE SweepGuards(p)
  BY <1>20, ClaimAssumption DEF SweepGuards, SweepTo, TypeOK, PlacesFit, ClaimsLocked,
      SweepsLocked, Asking, HasLock, SweepHas, ClaimOf, SweepOf, Nobody, Holders
<1>21. CASE SweepLocks(p)
  <2>1. \A f \in Files, q \in Processes : lock'[f] = ClaimOf(q) <=> lock[f] = ClaimOf(q)
    BY <1>21, HoldersDiffer DEF SweepLocks, TypeOK, SweepOf
  <2>2. QED
    BY <1>21, <2>1 DEF SweepLocks, ClaimsLocked, HasLock
<1>22. CASE SweepChecks(p)
  BY <1>22, ClaimAssumption DEF SweepChecks, SweepTo, TypeOK, PlacesFit, ClaimsLocked,
      SweepsLocked, Asking, HasLock, SweepHas, ClaimOf, SweepOf, Nobody, Holders
<1>23. CASE SweepUnlinks(p)
  BY <1>23, ClaimAssumption DEF SweepUnlinks, SweepTo, TypeOK, PlacesFit, ClaimsLocked,
      SweepsLocked, Asking, HasLock, SweepHas, ClaimOf, SweepOf, Nobody, Holders
<1>24. CASE SweepLeaves(p)
  BY <1>24, ClaimAssumption DEF SweepLeaves, SweepTo, TypeOK, PlacesFit, ClaimsLocked,
      SweepsLocked, Asking, HasLock, SweepHas, ClaimOf, SweepOf, Nobody, Holders
<1>25. CASE Dies(p)
  BY <1>25, ClaimAssumption DEF Dies, TypeOK, PlacesFit, ClaimsLocked, SweepsLocked,
      Asking, HasLock, SweepHas, ClaimOf, SweepOf, Nobody, Holders
<1>26. QED
  BY <1>1, <1>2, <1>3, <1>4, <1>5, <1>6, <1>7, <1>8, <1>9, <1>10, <1>11, <1>12, <1>13,
      <1>14, <1>15, <1>16, <1>17, <1>18, <1>19, <1>20, <1>21, <1>22, <1>23, <1>24, <1>25
      DEF Step

(* A sweep's lock.                                                         *)
LEMMA SweepsStep ==
    ASSUME TypeOK, ClaimsLocked, SweepsLocked, NEW p \in Processes, Step(p)
    PROVE  SweepsLocked'
<1>1. CASE Ask(p)
  BY <1>1, ClaimAssumption DEF Ask, Begins, Refused, Answers, GoesOn, Remembered,
      TypeOK, ClaimsLocked, SweepsLocked, HasLock, SweepHas, ClaimOf, SweepOf, Nobody,
      Holders
<1>2. CASE TableAnswers(p)
  BY <1>2, ClaimAssumption DEF TableAnswers, GoesOn, TypeOK, ClaimsLocked, SweepsLocked,
      HasLock, SweepHas, ClaimOf, SweepOf, Nobody, Holders
<1>3. CASE Try(p)
  BY <1>3, ClaimAssumption DEF Try, Begins, Refused, Answers, GoesOn, Remembered,
      TypeOK, ClaimsLocked, SweepsLocked, HasLock, SweepHas, ClaimOf, SweepOf, Nobody,
      Holders
<1>4. CASE Opens(p)
  BY <1>4, ClaimAssumption DEF Opens, Open, TypeOK, ClaimsLocked, SweepsLocked, HasLock,
      SweepHas, ClaimOf, SweepOf, Nobody, Holders
<1>5. CASE Locks(p)
  BY <1>5, ClaimAssumption DEF Locks, TypeOK, ClaimsLocked, SweepsLocked, HasLock,
      SweepHas, ClaimOf, SweepOf, Nobody, Holders
<1>6. CASE LockRefused(p)
  BY <1>6, ClaimAssumption DEF LockRefused, TypeOK, ClaimsLocked, SweepsLocked, HasLock,
      SweepHas, ClaimOf, SweepOf, Nobody, Holders
<1>7. CASE Denied(p)
  BY <1>7, ClaimAssumption DEF Denied, Refused, Answers, GoesOn, Remembered, TypeOK,
      ClaimsLocked, SweepsLocked, HasLock, SweepHas, ClaimOf, SweepOf, Nobody, Holders
<1>8. CASE Doubts(p)
  BY <1>8, ClaimAssumption DEF Doubts, OpensAgain, GivesUp, Refused, Answers, GoesOn,
      Remembered, TypeOK, ClaimsLocked, SweepsLocked, HasLock, SweepHas, ClaimOf,
      SweepOf, Nobody, Holders
<1>9. CASE Checks(p)
  BY <1>9, ClaimAssumption DEF Checks, OpensAgain, GivesUp, Refused, Answers, GoesOn,
      Remembered, TypeOK, ClaimsLocked, SweepsLocked, HasLock, SweepHas, ClaimOf,
      SweepOf, Nobody, Holders
<1>10. CASE Clears(p)
  BY <1>10, ClaimAssumption DEF Clears, Answers, GoesOn, Remembered, TypeOK,
      ClaimsLocked, SweepsLocked, HasLock, SweepHas, ClaimOf, SweepOf, Nobody, Holders
<1>11. CASE Adopts(p)
  BY <1>11, ClaimAssumption DEF Adopts, TypeOK, ClaimsLocked, SweepsLocked, HasLock,
      SweepHas, ClaimOf, SweepOf, Nobody, Holders
<1>12. CASE DropsProbe(p)
  BY <1>12, ClaimAssumption DEF DropsProbe, TypeOK, ClaimsLocked, SweepsLocked, HasLock,
      SweepHas, ClaimOf, SweepOf, Nobody, Holders
<1>13. CASE LetsGo(p)
  BY <1>13, ClaimAssumption DEF LetsGo, TypeOK, ClaimsLocked, SweepsLocked, HasLock,
      SweepHas, ClaimOf, SweepOf, Nobody, Holders
<1>14. CASE DropChecks(p)
  BY <1>14, ClaimAssumption DEF DropChecks, TypeOK, ClaimsLocked, SweepsLocked, HasLock,
      SweepHas, ClaimOf, SweepOf, Nobody, Holders
<1>15. CASE DropUnlinks(p)
  BY <1>15, ClaimAssumption DEF DropUnlinks, TypeOK, ClaimsLocked, SweepsLocked,
      HasLock, SweepHas, ClaimOf, SweepOf, Nobody, Holders
<1>16. CASE DropCloses(p)
  <2>1. lock[fd[p]] = ClaimOf(p)
    BY <1>16 DEF DropCloses, TypeOK, ClaimsLocked, HasLock
  <2>2. \A f \in Files, q \in Processes : lock'[f] = SweepOf(q) <=> lock[f] = SweepOf(q)
    BY <1>16, <2>1, HoldersDiffer DEF DropCloses, TypeOK
  <2>3. QED
    BY <1>16, <2>2 DEF DropCloses, SweepsLocked, SweepHas
<1>17. CASE BindsDoors(p)
  BY <1>17, ClaimAssumption DEF BindsDoors, TypeOK, ClaimsLocked, SweepsLocked, HasLock,
      SweepHas, ClaimOf, SweepOf, Nobody, Holders
<1>18. CASE SweepStarts(p)
  BY <1>18, ClaimAssumption DEF SweepStarts, SweepTo, TypeOK, ClaimsLocked,
      SweepsLocked, HasLock, SweepHas, ClaimOf, SweepOf, Nobody, Holders
<1>19. CASE SweepOpens(p)
  BY <1>19, ClaimAssumption DEF SweepOpens, SweepTo, TypeOK, ClaimsLocked, SweepsLocked,
      HasLock, SweepHas, ClaimOf, SweepOf, Nobody, Holders
<1>20. CASE SweepGuards(p)
  BY <1>20, ClaimAssumption DEF SweepGuards, SweepTo, TypeOK, ClaimsLocked,
      SweepsLocked, HasLock, SweepHas, ClaimOf, SweepOf, Nobody, Holders
<1>21. CASE SweepLocks(p)
  BY <1>21, ClaimAssumption DEF SweepLocks, SweepTo, TypeOK, ClaimsLocked, SweepsLocked,
      HasLock, SweepHas, ClaimOf, SweepOf, Nobody, Holders
<1>22. CASE SweepChecks(p)
  BY <1>22, ClaimAssumption DEF SweepChecks, SweepTo, TypeOK, ClaimsLocked,
      SweepsLocked, HasLock, SweepHas, ClaimOf, SweepOf, Nobody, Holders
<1>23. CASE SweepUnlinks(p)
  BY <1>23, ClaimAssumption DEF SweepUnlinks, SweepTo, TypeOK, ClaimsLocked,
      SweepsLocked, HasLock, SweepHas, ClaimOf, SweepOf, Nobody, Holders
<1>24. CASE SweepLeaves(p)
  BY <1>24, ClaimAssumption DEF SweepLeaves, SweepTo, TypeOK, ClaimsLocked,
      SweepsLocked, HasLock, SweepHas, ClaimOf, SweepOf, Nobody, Holders
<1>25. CASE Dies(p)
  BY <1>25, ClaimAssumption DEF Dies, TypeOK, ClaimsLocked, SweepsLocked, HasLock,
      SweepHas, ClaimOf, SweepOf, Nobody, Holders
<1>26. QED
  BY <1>1, <1>2, <1>3, <1>4, <1>5, <1>6, <1>7, <1>8, <1>9, <1>10, <1>11, <1>12, <1>13,
      <1>14, <1>15, <1>16, <1>17, <1>18, <1>19, <1>20, <1>21, <1>22, <1>23, <1>24, <1>25
      DEF Step

(* The name.  Whoever unlinks it has the lock of the file it leads to.     *)
LEMMA NamedStep ==
    ASSUME TypeOK, PlacesFit, LocksFit, NEW p \in Processes, Step(p)
    PROVE  HeldIsNamed'
<1>1. CASE Ask(p)
  BY <1>1, ClaimAssumption DEF Ask, Begins, Refused, Answers, GoesOn, Remembered,
      TypeOK, PlacesFit, LocksFit, ClaimsLocked, SweepsLocked, HeldIsNamed, Asking,
      HasLock, SweepHas, Holds, ClaimOf, SweepOf, Nobody
<1>2. CASE TableAnswers(p)
  BY <1>2, ClaimAssumption DEF TableAnswers, GoesOn, TypeOK, PlacesFit, LocksFit,
      ClaimsLocked, SweepsLocked, HeldIsNamed, Asking, HasLock, SweepHas, Holds,
      ClaimOf, SweepOf, Nobody
<1>3. CASE Try(p)
  BY <1>3, ClaimAssumption DEF Try, Begins, Refused, Answers, GoesOn, Remembered,
      TypeOK, PlacesFit, LocksFit, ClaimsLocked, SweepsLocked, HeldIsNamed, Asking,
      HasLock, SweepHas, Holds, ClaimOf, SweepOf, Nobody
<1>4. CASE Opens(p)
  BY <1>4, ClaimAssumption DEF Opens, Open, TypeOK, PlacesFit, LocksFit, ClaimsLocked,
      SweepsLocked, HeldIsNamed, Asking, HasLock, SweepHas, Holds, ClaimOf, SweepOf,
      Nobody
<1>5. CASE Locks(p)
  BY <1>5, ClaimAssumption DEF Locks, TypeOK, PlacesFit, LocksFit, ClaimsLocked,
      SweepsLocked, HeldIsNamed, Asking, HasLock, SweepHas, Holds, ClaimOf, SweepOf,
      Nobody
<1>6. CASE LockRefused(p)
  BY <1>6, ClaimAssumption DEF LockRefused, TypeOK, PlacesFit, LocksFit, ClaimsLocked,
      SweepsLocked, HeldIsNamed, Asking, HasLock, SweepHas, Holds, ClaimOf, SweepOf,
      Nobody
<1>7. CASE Denied(p)
  BY <1>7, ClaimAssumption DEF Denied, Refused, Answers, GoesOn, Remembered, TypeOK,
      PlacesFit, LocksFit, ClaimsLocked, SweepsLocked, HeldIsNamed, Asking, HasLock,
      SweepHas, Holds, ClaimOf, SweepOf, Nobody
<1>8. CASE Doubts(p)
  BY <1>8, ClaimAssumption DEF Doubts, OpensAgain, GivesUp, Refused, Answers, GoesOn,
      Remembered, TypeOK, PlacesFit, LocksFit, ClaimsLocked, SweepsLocked, HeldIsNamed,
      Asking, HasLock, SweepHas, Holds, ClaimOf, SweepOf, Nobody
<1>9. CASE Checks(p)
  BY <1>9, ClaimAssumption DEF Checks, OpensAgain, GivesUp, Refused, Answers, GoesOn,
      Remembered, TypeOK, PlacesFit, LocksFit, ClaimsLocked, SweepsLocked, HeldIsNamed,
      Asking, HasLock, SweepHas, Holds, ClaimOf, SweepOf, Nobody
<1>10. CASE Clears(p)
  BY <1>10, ClaimAssumption DEF Clears, Answers, GoesOn, Remembered, TypeOK, PlacesFit,
      LocksFit, ClaimsLocked, SweepsLocked, HeldIsNamed, Asking, HasLock, SweepHas,
      Holds, ClaimOf, SweepOf, Nobody
<1>11. CASE Adopts(p)
  BY <1>11, ClaimAssumption DEF Adopts, TypeOK, PlacesFit, LocksFit, ClaimsLocked,
      SweepsLocked, HeldIsNamed, Asking, HasLock, SweepHas, Holds, ClaimOf, SweepOf,
      Nobody
<1>12. CASE DropsProbe(p)
  BY <1>12, ClaimAssumption DEF DropsProbe, TypeOK, PlacesFit, LocksFit, ClaimsLocked,
      SweepsLocked, HeldIsNamed, Asking, HasLock, SweepHas, Holds, ClaimOf, SweepOf,
      Nobody
<1>13. CASE LetsGo(p)
  BY <1>13, ClaimAssumption DEF LetsGo, TypeOK, PlacesFit, LocksFit, ClaimsLocked,
      SweepsLocked, HeldIsNamed, Asking, HasLock, SweepHas, Holds, ClaimOf, SweepOf,
      Nobody
<1>14. CASE DropChecks(p)
  BY <1>14, ClaimAssumption DEF DropChecks, TypeOK, PlacesFit, LocksFit, ClaimsLocked,
      SweepsLocked, HeldIsNamed, Asking, HasLock, SweepHas, Holds, ClaimOf, SweepOf,
      Nobody
<1>15. CASE DropUnlinks(p)
  BY <1>15, ClaimAssumption DEF DropUnlinks, TypeOK, PlacesFit, LocksFit, ClaimsLocked,
      SweepsLocked, HeldIsNamed, Asking, HasLock, SweepHas, Holds, ClaimOf, SweepOf,
      Nobody
<1>16. CASE DropCloses(p)
  BY <1>16, ClaimAssumption DEF DropCloses, TypeOK, PlacesFit, LocksFit, ClaimsLocked,
      SweepsLocked, HeldIsNamed, Asking, HasLock, SweepHas, Holds, ClaimOf, SweepOf,
      Nobody
<1>17. CASE BindsDoors(p)
  BY <1>17, ClaimAssumption DEF BindsDoors, TypeOK, PlacesFit, LocksFit, ClaimsLocked,
      SweepsLocked, HeldIsNamed, Asking, HasLock, SweepHas, Holds, ClaimOf, SweepOf,
      Nobody
<1>18. CASE SweepStarts(p)
  BY <1>18, ClaimAssumption DEF SweepStarts, SweepTo, TypeOK, PlacesFit, LocksFit,
      ClaimsLocked, SweepsLocked, HeldIsNamed, Asking, HasLock, SweepHas, Holds,
      ClaimOf, SweepOf, Nobody
<1>19. CASE SweepOpens(p)
  BY <1>19, ClaimAssumption DEF SweepOpens, SweepTo, TypeOK, PlacesFit, LocksFit,
      ClaimsLocked, SweepsLocked, HeldIsNamed, Asking, HasLock, SweepHas, Holds,
      ClaimOf, SweepOf, Nobody
<1>20. CASE SweepGuards(p)
  BY <1>20, ClaimAssumption DEF SweepGuards, SweepTo, TypeOK, PlacesFit, LocksFit,
      ClaimsLocked, SweepsLocked, HeldIsNamed, Asking, HasLock, SweepHas, Holds,
      ClaimOf, SweepOf, Nobody
<1>21. CASE SweepLocks(p)
  BY <1>21, ClaimAssumption DEF SweepLocks, SweepTo, TypeOK, PlacesFit, LocksFit,
      ClaimsLocked, SweepsLocked, HeldIsNamed, Asking, HasLock, SweepHas, Holds,
      ClaimOf, SweepOf, Nobody
<1>22. CASE SweepChecks(p)
  BY <1>22, ClaimAssumption DEF SweepChecks, SweepTo, TypeOK, PlacesFit, LocksFit,
      ClaimsLocked, SweepsLocked, HeldIsNamed, Asking, HasLock, SweepHas, Holds,
      ClaimOf, SweepOf, Nobody
<1>23. CASE SweepUnlinks(p)
  BY <1>23, ClaimAssumption DEF SweepUnlinks, SweepTo, TypeOK, PlacesFit, LocksFit,
      ClaimsLocked, SweepsLocked, HeldIsNamed, Asking, HasLock, SweepHas, Holds,
      ClaimOf, SweepOf, Nobody
<1>24. CASE SweepLeaves(p)
  BY <1>24, ClaimAssumption DEF SweepLeaves, SweepTo, TypeOK, PlacesFit, LocksFit,
      ClaimsLocked, SweepsLocked, HeldIsNamed, Asking, HasLock, SweepHas, Holds,
      ClaimOf, SweepOf, Nobody
<1>25. CASE Dies(p)
  BY <1>25, ClaimAssumption DEF Dies, TypeOK, PlacesFit, LocksFit, ClaimsLocked,
      SweepsLocked, HeldIsNamed, Asking, HasLock, SweepHas, Holds, ClaimOf, SweepOf,
      Nobody
<1>26. QED
  BY <1>1, <1>2, <1>3, <1>4, <1>5, <1>6, <1>7, <1>8, <1>9, <1>10, <1>11, <1>12, <1>13,
      <1>14, <1>15, <1>16, <1>17, <1>18, <1>19, <1>20, <1>21, <1>22, <1>23, <1>24, <1>25
      DEF Step

(* The doors: only the writer binds and clears them.                       *)
LEMMA DoorsStep ==
    ASSUME TypeOK, PlacesFit, LocksFit, DoorsFit, NEW p \in Processes, Step(p)
    PROVE  DoorsFit'
<1>1. CASE Ask(p)
  BY <1>1, OneHolder, DoorsDiffer DEF Ask, Begins, Refused, Answers, GoesOn, Remembered,
      TypeOK, PlacesFit, DoorsFit, HasLock, Holds
<1>2. CASE TableAnswers(p)
  BY <1>2, OneHolder, DoorsDiffer DEF TableAnswers, GoesOn, TypeOK, PlacesFit, DoorsFit,
      HasLock, Holds
<1>3. CASE Try(p)
  BY <1>3, OneHolder, DoorsDiffer DEF Try, Begins, Refused, Answers, GoesOn, Remembered,
      TypeOK, PlacesFit, DoorsFit, HasLock, Holds
<1>4. CASE Opens(p)
  BY <1>4, OneHolder, DoorsDiffer DEF Opens, Open, TypeOK, PlacesFit, DoorsFit, HasLock,
      Holds
<1>5. CASE Locks(p)
  BY <1>5, OneHolder, DoorsDiffer DEF Locks, TypeOK, PlacesFit, DoorsFit, HasLock, Holds
<1>6. CASE LockRefused(p)
  BY <1>6, OneHolder, DoorsDiffer DEF LockRefused, TypeOK, PlacesFit, DoorsFit, HasLock,
      Holds
<1>7. CASE Denied(p)
  BY <1>7, OneHolder, DoorsDiffer DEF Denied, Refused, Answers, GoesOn, Remembered,
      TypeOK, PlacesFit, DoorsFit, HasLock, Holds
<1>8. CASE Doubts(p)
  BY <1>8, OneHolder, DoorsDiffer DEF Doubts, OpensAgain, GivesUp, Refused, Answers,
      GoesOn, Remembered, TypeOK, PlacesFit, DoorsFit, HasLock, Holds
<1>9. CASE Checks(p)
  BY <1>9, OneHolder, DoorsDiffer DEF Checks, OpensAgain, GivesUp, Refused, Answers,
      GoesOn, Remembered, TypeOK, PlacesFit, DoorsFit, HasLock, Holds
<1>10. CASE Clears(p)
  BY <1>10, OneHolder, DoorsDiffer DEF Clears, Answers, GoesOn, Remembered, TypeOK,
      PlacesFit, DoorsFit, HasLock, Holds
<1>11. CASE Adopts(p)
  BY <1>11, OneHolder, DoorsDiffer DEF Adopts, TypeOK, PlacesFit, DoorsFit, HasLock,
      Holds
<1>12. CASE DropsProbe(p)
  BY <1>12, OneHolder, DoorsDiffer DEF DropsProbe, TypeOK, PlacesFit, DoorsFit, HasLock,
      Holds
<1>13. CASE LetsGo(p)
  BY <1>13, OneHolder, DoorsDiffer DEF LetsGo, TypeOK, PlacesFit, DoorsFit, HasLock,
      Holds
<1>14. CASE DropChecks(p)
  BY <1>14, OneHolder, DoorsDiffer DEF DropChecks, TypeOK, PlacesFit, DoorsFit, HasLock,
      Holds
<1>15. CASE DropUnlinks(p)
  BY <1>15, OneHolder, DoorsDiffer DEF DropUnlinks, TypeOK, PlacesFit, DoorsFit,
      HasLock, Holds
<1>16. CASE DropCloses(p)
  BY <1>16, OneHolder, DoorsDiffer DEF DropCloses, TypeOK, PlacesFit, DoorsFit, HasLock,
      Holds
<1>17. CASE BindsDoors(p)
  BY <1>17, OneHolder, DoorsDiffer DEF BindsDoors, TypeOK, PlacesFit, DoorsFit, HasLock,
      Holds
<1>18. CASE SweepStarts(p)
  BY <1>18, OneHolder, DoorsDiffer DEF SweepStarts, SweepTo, TypeOK, PlacesFit,
      DoorsFit, HasLock, Holds
<1>19. CASE SweepOpens(p)
  BY <1>19, OneHolder, DoorsDiffer DEF SweepOpens, SweepTo, TypeOK, PlacesFit, DoorsFit,
      HasLock, Holds
<1>20. CASE SweepGuards(p)
  BY <1>20, OneHolder, DoorsDiffer DEF SweepGuards, SweepTo, TypeOK, PlacesFit,
      DoorsFit, HasLock, Holds
<1>21. CASE SweepLocks(p)
  BY <1>21, OneHolder, DoorsDiffer DEF SweepLocks, SweepTo, TypeOK, PlacesFit, DoorsFit,
      HasLock, Holds
<1>22. CASE SweepChecks(p)
  BY <1>22, OneHolder, DoorsDiffer DEF SweepChecks, SweepTo, TypeOK, PlacesFit,
      DoorsFit, HasLock, Holds
<1>23. CASE SweepUnlinks(p)
  BY <1>23, OneHolder, DoorsDiffer DEF SweepUnlinks, SweepTo, TypeOK, PlacesFit,
      DoorsFit, HasLock, Holds
<1>24. CASE SweepLeaves(p)
  BY <1>24, OneHolder, DoorsDiffer DEF SweepLeaves, SweepTo, TypeOK, PlacesFit,
      DoorsFit, HasLock, Holds
<1>25. CASE Dies(p)
  BY <1>25, OneHolder, DoorsDiffer DEF Dies, TypeOK, PlacesFit, DoorsFit, HasLock, Holds
<1>26. QED
  BY <1>1, <1>2, <1>3, <1>4, <1>5, <1>6, <1>7, <1>8, <1>9, <1>10, <1>11, <1>12, <1>13,
      <1>14, <1>15, <1>16, <1>17, <1>18, <1>19, <1>20, <1>21, <1>22, <1>23, <1>24, <1>25
      DEF Step

(* What a start was told.                                                  *)
LEMMA AnsweredStep ==
    ASSUME TypeOK, PlacesFit, LocksFit, DoorsFit, AnsweredAtOnce, NEW p \in Processes, Step(p)
    PROVE  AnsweredAtOnce'
<1>1. CASE Ask(p)
  <2>1. CASE sweeper = NoProcess
    BY <1>1, <2>1 DEF Ask, Begins, TypeOK, AnsweredAtOnce
  <2>2. CASE sweeper # NoProcess
    <3>1. told'[p]
      BY <1>1, <2>2 DEF Ask, Begins, Refused, Answers, TypeOK
    <3>2. \A q \in Processes \ {p} :
             /\ told'[q] = told[q] /\ stage'[q] = stage[q]
             /\ row'[q] = row[q] /\ keeps'[q] = keeps[q]
      BY <1>1, <2>2 DEF Ask, Begins, Refused, Answers, GoesOn, Remembered, TypeOK
    <3>3. door' = door
      BY <1>1 DEF Ask, Begins
    <3>4. QED
      BY <3>1, <3>2, <3>3 DEF AnsweredAtOnce
  <2>3. QED
    BY <2>1, <2>2
<1>2. CASE TableAnswers(p)
  BY <1>2, OneHolder, DoorsDiffer DEF TableAnswers, GoesOn, TypeOK, PlacesFit, DoorsFit,
      AnsweredAtOnce, Asking, HasLock, Holds
<1>3. CASE Try(p)
  BY <1>3, OneHolder, DoorsDiffer DEF Try, Begins, Refused, Answers, GoesOn, Remembered,
      TypeOK, PlacesFit, DoorsFit, AnsweredAtOnce, Asking, HasLock, Holds
<1>4. CASE Opens(p)
  BY <1>4, OneHolder, DoorsDiffer DEF Opens, Open, TypeOK, PlacesFit, DoorsFit,
      AnsweredAtOnce, Asking, HasLock, Holds
<1>5. CASE Locks(p)
  BY <1>5, OneHolder, DoorsDiffer DEF Locks, TypeOK, PlacesFit, DoorsFit,
      AnsweredAtOnce, Asking, HasLock, Holds
<1>6. CASE LockRefused(p)
  BY <1>6, OneHolder, DoorsDiffer DEF LockRefused, TypeOK, PlacesFit, DoorsFit,
      AnsweredAtOnce, Asking, HasLock, Holds
<1>7. CASE Denied(p)
  BY <1>7, OneHolder, DoorsDiffer DEF Denied, Refused, Answers, GoesOn, Remembered,
      TypeOK, PlacesFit, DoorsFit, AnsweredAtOnce, Asking, HasLock, Holds
<1>8. CASE Doubts(p)
  BY <1>8, OneHolder, DoorsDiffer DEF Doubts, OpensAgain, GivesUp, Refused, Answers,
      GoesOn, Remembered, TypeOK, PlacesFit, DoorsFit, AnsweredAtOnce, Asking, HasLock,
      Holds
<1>9. CASE Checks(p)
  BY <1>9, OneHolder, DoorsDiffer DEF Checks, OpensAgain, GivesUp, Refused, Answers,
      GoesOn, Remembered, TypeOK, PlacesFit, DoorsFit, AnsweredAtOnce, Asking, HasLock,
      Holds
<1>10. CASE Clears(p)
  BY <1>10, OneHolder, DoorsDiffer DEF Clears, Answers, GoesOn, Remembered, TypeOK,
      PlacesFit, DoorsFit, AnsweredAtOnce, Asking, HasLock, Holds
<1>11. CASE Adopts(p)
  BY <1>11, OneHolder, DoorsDiffer DEF Adopts, TypeOK, PlacesFit, DoorsFit,
      AnsweredAtOnce, Asking, HasLock, Holds
<1>12. CASE DropsProbe(p)
  BY <1>12, OneHolder, DoorsDiffer DEF DropsProbe, TypeOK, PlacesFit, DoorsFit,
      AnsweredAtOnce, Asking, HasLock, Holds
<1>13. CASE LetsGo(p)
  BY <1>13, OneHolder, DoorsDiffer DEF LetsGo, TypeOK, PlacesFit, DoorsFit,
      AnsweredAtOnce, Asking, HasLock, Holds
<1>14. CASE DropChecks(p)
  BY <1>14, OneHolder, DoorsDiffer DEF DropChecks, TypeOK, PlacesFit, DoorsFit,
      AnsweredAtOnce, Asking, HasLock, Holds
<1>15. CASE DropUnlinks(p)
  BY <1>15, OneHolder, DoorsDiffer DEF DropUnlinks, TypeOK, PlacesFit, DoorsFit,
      AnsweredAtOnce, Asking, HasLock, Holds
<1>16. CASE DropCloses(p)
  BY <1>16, OneHolder, DoorsDiffer DEF DropCloses, TypeOK, PlacesFit, DoorsFit,
      AnsweredAtOnce, Asking, HasLock, Holds
<1>17. CASE BindsDoors(p)
  BY <1>17, OneHolder, DoorsDiffer DEF BindsDoors, TypeOK, PlacesFit, DoorsFit,
      AnsweredAtOnce, Asking, HasLock, Holds
<1>18. CASE SweepStarts(p)
  BY <1>18, OneHolder, DoorsDiffer DEF SweepStarts, SweepTo, TypeOK, PlacesFit,
      DoorsFit, AnsweredAtOnce, Asking, HasLock, Holds
<1>19. CASE SweepOpens(p)
  BY <1>19, OneHolder, DoorsDiffer DEF SweepOpens, SweepTo, TypeOK, PlacesFit, DoorsFit,
      AnsweredAtOnce, Asking, HasLock, Holds
<1>20. CASE SweepGuards(p)
  BY <1>20, OneHolder, DoorsDiffer DEF SweepGuards, SweepTo, TypeOK, PlacesFit,
      DoorsFit, AnsweredAtOnce, Asking, HasLock, Holds
<1>21. CASE SweepLocks(p)
  BY <1>21, OneHolder, DoorsDiffer DEF SweepLocks, SweepTo, TypeOK, PlacesFit, DoorsFit,
      AnsweredAtOnce, Asking, HasLock, Holds
<1>22. CASE SweepChecks(p)
  BY <1>22, OneHolder, DoorsDiffer DEF SweepChecks, SweepTo, TypeOK, PlacesFit,
      DoorsFit, AnsweredAtOnce, Asking, HasLock, Holds
<1>23. CASE SweepUnlinks(p)
  BY <1>23, OneHolder, DoorsDiffer DEF SweepUnlinks, SweepTo, TypeOK, PlacesFit,
      DoorsFit, AnsweredAtOnce, Asking, HasLock, Holds
<1>24. CASE SweepLeaves(p)
  BY <1>24, OneHolder, DoorsDiffer DEF SweepLeaves, SweepTo, TypeOK, PlacesFit,
      DoorsFit, AnsweredAtOnce, Asking, HasLock, Holds
<1>25. CASE Dies(p)
  BY <1>25, OneHolder, DoorsDiffer DEF Dies, TypeOK, PlacesFit, DoorsFit,
      AnsweredAtOnce, Asking, HasLock, Holds
<1>26. QED
  BY <1>1, <1>2, <1>3, <1>4, <1>5, <1>6, <1>7, <1>8, <1>9, <1>10, <1>11, <1>12, <1>13,
      <1>14, <1>15, <1>16, <1>17, <1>18, <1>19, <1>20, <1>21, <1>22, <1>23, <1>24, <1>25
      DEF Step

-----------------------------------------------------------------------------
(* The invariant.                                                          *)

LEMMA InitIInv == Init => IInv
<1> SUFFICES ASSUME Init PROVE IInv
  OBVIOUS
<1>1. TypeOK
  BY ClaimAssumption DEF Init, TypeOK, Holders, Nobody, Doors, Places, Stages, SweepPlaces
<1>2. PlacesFit /\ GuardsFit
  BY ClaimAssumption DEF Init, PlacesFit, GuardsFit, Asking, Sweeping
<1>3. LocksFit
  BY HoldersDiffer
     DEF Init, LocksFit, ClaimsLocked, SweepsLocked, HeldIsNamed, HasLock, Holds, SweepHas
<1>4. DoorsFit /\ AnsweredAtOnce
  BY DEF Init, DoorsFit, AnsweredAtOnce
<1>5. QED
  BY <1>1, <1>2, <1>3, <1>4 DEF IInv

LEMMA NextIInv == IInv /\ [Next]_vars => IInv'
<1> SUFFICES ASSUME IInv, [Next]_vars PROVE IInv'
  OBVIOUS
<1>1. CASE Next
  <2>1. PICK p \in Processes : Step(p)
    BY <1>1 DEF Next
  <2>2. TypeOK' /\ PlacesFit' /\ GuardsFit'
    BY <2>1, TypeStep, PlacesStep, GuardsStep DEF IInv
  <2>3. LocksFit'
    BY <2>1, ClaimsStep, SweepsStep, NamedStep DEF IInv, LocksFit
  <2>4. DoorsFit' /\ AnsweredAtOnce'
    BY <2>1, DoorsStep, AnsweredStep DEF IInv
  <2>5. QED
    BY <2>2, <2>3, <2>4 DEF IInv
<1>2. CASE UNCHANGED vars
  BY <1>2 DEF vars, IInv, TypeOK, PlacesFit, GuardsFit, LocksFit, ClaimsLocked, SweepsLocked,
              HeldIsNamed, DoorsFit, AnsweredAtOnce, Asking, HasLock, Holds, Sweeping, SweepHas
<1>3. QED
  BY <1>1, <1>2

LEMMA SpecIInv == Spec => []IInv
  BY InitIInv, NextIInv, PTL DEF Spec

-----------------------------------------------------------------------------

(* The processes, the files and what is remembered of them keep their      *)
(* types; in particular a claim gives up after RELOCK_ATTEMPTS.            *)
THEOREM ClaimTypeCorrect == Spec => []TypeOK
<1>1. IInv => TypeOK
  BY DEF IInv
<1>2. QED
  BY SpecIInv, <1>1, PTL

(* Never two writers of one data directory.                                *)
THEOREM DirectoryHasOneWriter == Spec => []OneWriter
<1>1. IInv => OneWriter
  <2> SUFFICES ASSUME IInv, NEW p \in Processes, NEW q \in Processes,
                      HasClaim(p), HasClaim(q)
               PROVE  p = q
    BY DEF OneWriter
  <2>1. Holds(p) /\ Holds(q)
    BY DEF IInv, PlacesFit, HasClaim, Holds, HasLock
  <2>2. QED
    BY <2>1, OneHolder DEF IInv
<1>2. QED
  BY SpecIInv, <1>1, PTL

(* A claim that is being taken never meets a file a sweep holds.           *)
THEOREM ClaimsMeetNoSweep == Spec => []NoSweepMeetsAClaim
<1>1. IInv => NoSweepMeetsAClaim
  <2> SUFFICES ASSUME IInv, readers # {}, NEW f \in Files, NEW p \in Processes,
                      lock[f] = SweepOf(p)
               PROVE  FALSE
    BY DEF NoSweepMeetsAClaim, SweepOf
  <2>1. sweeper = p
    BY DEF IInv, LocksFit, SweepsLocked, SweepHas, GuardsFit, Sweeping
  <2>2. QED
    BY <2>1, ClaimAssumption DEF IInv, GuardsFit
<1>2. QED
  BY SpecIInv, <1>1, PTL

(* The writer's endpoint is its own, or free for it to bind.               *)
THEOREM WritersDoorsStand == Spec => []DoorsStand
<1>1. IInv => DoorsStand
  BY DEF IInv, DoorsFit, DoorsStand
<1>2. QED
  BY SpecIInv, <1>1, PTL

(* A writer's doors are its own, and one no sweep turned away keeps its    *)
(* session and has its doors open.                                         *)
THEOREM UntoldWriterIsWhole == Spec => []WriterIsWhole
<1>1. IInv => WriterIsWhole
  BY DEF IInv, DoorsFit, AnsweredAtOnce, DoorsStand, WriterIsWhole
<1>2. QED
  BY SpecIInv, <1>1, PTL

-----------------------------------------------------------------------------
(* The files and their locks are one claim.                                *)

LEMMA HolderOfIs ==
    ASSUME NEW path \in Files \cup {NoFile}, NEW locks \in [Files -> Holders]
    PROVE  /\ \A p \in Processes :
                  HolderOf(path, locks) = p <=> path # NoFile /\ locks[path] = ClaimOf(p)
           /\ HolderOf(path, locks) \in Processes \cup {NoProcess}
<1>1. CASE path = NoFile
  BY <1>1, ClaimAssumption DEF HolderOf
<1>2. CASE path # NoFile
  <2>1. locks[path] \in Holders
    BY <1>2
  <2>2. CASE locks[path] = Nobody
    BY <1>2, <2>2, ClaimAssumption DEF HolderOf, Nobody, ClaimOf
  <2>3. CASE \E q \in Processes : locks[path] = ClaimOf(q)
    BY <1>2, <2>3, ClaimAssumption DEF HolderOf, ClaimOf
  <2>4. CASE \E q \in Processes : locks[path] = SweepOf(q)
    BY <1>2, <2>4, ClaimAssumption DEF HolderOf, ClaimOf, SweepOf
  <2>5. QED
    BY <2>1, <2>2, <2>3, <2>4 DEF Holders, ClaimOf, SweepOf
<1>3. QED
  BY <1>1, <1>2

LEMMA HolderIs ==
    ASSUME TypeOK, TypeOK'
    PROVE  /\ \A p \in Processes :
                  /\ Holder = p <=> name # NoFile /\ lock[name] = ClaimOf(p)
                  /\ Holder' = p <=> name' # NoFile /\ lock'[name'] = ClaimOf(p)
           /\ Holder \in Processes \cup {NoProcess} /\ Holder' \in Processes \cup {NoProcess}
  BY HolderOfIs DEF TypeOK, Holder

(* The holder stays when every process is or is not it as before.          *)
LEMMA HolderStays ==
    ASSUME TypeOK, TypeOK',
           \A p \in Processes :
               (name # NoFile /\ lock[name] = ClaimOf(p))
                   <=> (name' # NoFile /\ lock'[name'] = ClaimOf(p))
    PROVE  Holder' = Holder
  BY HolderIs, ClaimAssumption

(* Who asks, and has no lock or one of a file the name does not lead to,   *)
(* is not the holder.                                                      *)
LEMMA NotTheHolder ==
    ASSUME TypeOK, TypeOK', LocksFit, NEW p \in Processes,
           ~HasLock(p) \/ name # fd[p]
    PROVE  Holder # p
  BY HolderIs DEF TypeOK, LocksFit, ClaimsLocked

(* Nobody's lock is the one of a file nobody has open.                     *)
LEMMA UnopenedIsFree ==
    ASSUME TypeOK, LocksFit, NEW f \in Files, ~Open(f)
    PROVE  \A p \in Processes : lock[f] # ClaimOf(p)
  BY DEF Open, LocksFit, ClaimsLocked

(* A refusal remembered, or forgotten.                                     *)
LEMMA RefusedRefines ==
    ASSUME TypeOK, NEW p \in Processes, NEW for, NEW answer,
           Refused(p, for, answer), answer # "Ours",
           row[p] = "unasked", Holder' = Holder, Holder # p
    PROVE  Claim!Refuse(p) \/ UNCHANGED Claim!vars
  BY DEF Refused, Answers, Remembered, Claim!Refuse, Claim!vars, TypeOK

LEMMA StepRefines ==
    ASSUME IInv, TypeOK', NEW p \in Processes, Step(p)
    PROVE  Claim!Next \/ UNCHANGED Claim!vars
<1> USE DEF IInv
<1>1. CASE Ask(p) \/ Try(p)
  <2>1. ~HasLock(p) /\ row[p] = "unasked" /\ name' = name /\ lock' = lock
    BY <1>1 DEF Ask, Try, Begins, HasLock
  <2>2. Holder' = Holder /\ Holder # p
    BY <2>1, NotTheHolder DEF Holder
  <2>3. PICK for : Begins(p, for)
    BY <1>1 DEF Ask, Try
  <2>4. QED
    BY <2>1, <2>2, <2>3, RefusedRefines DEF Begins, Claim!Next, Claim!vars
<1>2. CASE Opens(p)
  <2>1. Holder' = Holder
    BY <1>2, HolderStays, UnopenedIsFree DEF Opens, TypeOK
  <2>2. QED
    BY <1>2, <2>1 DEF Opens, Claim!vars
<1>3. CASE Locks(p)
  <2>1. fd[p] \in Files /\ lock[fd[p]] = Nobody /\ lock' = [lock EXCEPT ![fd[p]] = ClaimOf(p)]
        /\ name' = name /\ row' = row
    BY <1>3 DEF Locks, ClaimOf, TypeOK, LocksFit, ClaimsLocked
  <2>2. CASE name = fd[p]
    <3>1. Holder = NoProcess /\ Holder' = p
      <4>1. name # NoFile /\ name' = name /\ lock[name] = Nobody /\ lock'[name'] = ClaimOf(p)
        BY <2>1, <2>2, ClaimAssumption DEF TypeOK
      <4>2. QED
        BY <4>1, HolderIs, HoldersDiffer
    <3>2. QED
      BY <2>1, <3>1 DEF Claim!Take, Claim!Next
  <2>3. CASE name # fd[p]
    BY <2>1, <2>3, HolderStays DEF TypeOK, Claim!vars
  <2>4. QED
    BY <2>2, <2>3
<1>4. CASE Denied(p) \/ Doubts(p)
  <2>1. ~HasLock(p) /\ row[p] = "unasked" /\ name' = name /\ lock' = lock
    BY <1>4 DEF Denied, Doubts, HasLock, PlacesFit, Asking
  <2>2. Holder' = Holder /\ Holder # p
    BY <2>1, NotTheHolder DEF Holder
  <2>3. QED
    BY <1>4, <2>1, <2>2, RefusedRefines
       DEF Denied, Doubts, OpensAgain, GivesUp, Claim!Next, Claim!vars
<1>5. CASE Checks(p)
  <2>1. CASE name = fd[p]
    BY <1>5, <2>1 DEF Checks, Holder, Claim!vars
  <2>2. CASE name # fd[p]
    <3>1. row[p] = "unasked" /\ lock[fd[p]] = ClaimOf(p) /\ name' = name
          /\ lock' = [lock EXCEPT ![fd[p]] = Nobody]
      BY <1>5, <2>2 DEF Checks, PlacesFit, Asking, LocksFit, ClaimsLocked, HasLock, TypeOK
    <3>2. Holder' = Holder /\ Holder # p
      BY <2>2, <3>1, HolderStays, NotTheHolder DEF TypeOK
    <3>3. QED
      BY <1>5, <2>2, <3>1, <3>2, RefusedRefines
         DEF Checks, OpensAgain, GivesUp, Claim!Next, Claim!vars
  <2>3. QED
    BY <2>1, <2>2
<1>6. CASE Clears(p) \/ Adopts(p)
  <2>1. Holds(p) /\ row[p] = "unasked" /\ name' = name /\ lock' = lock
    BY <1>6 DEF Clears, Adopts, Holds, HasLock, PlacesFit, Asking
  <2>2. Holder = p /\ Holder' = p
    BY <2>1, HolderIs DEF Holder, TypeOK, LocksFit, HeldIsNamed, ClaimsLocked, Holds
  <2>3. QED
    BY <1>6, <2>1, <2>2
       DEF Clears, Adopts, Answers, Remembered, Claim!Keep, Claim!Next, Claim!vars
<1>7. CASE LetsGo(p)
  BY <1>7 DEF LetsGo, Holder, Claim!LetGo, Claim!Next
<1>8. CASE DropUnlinks(p)
  <2>1. Holds(p) /\ row[p] # "writer" /\ name' = NoFile /\ row' = row
    BY <1>8 DEF DropUnlinks, Holds, HasLock, PlacesFit
  <2>2. Holder = p /\ Holder' = NoProcess
    BY <2>1, HolderIs DEF TypeOK, LocksFit, HeldIsNamed, ClaimsLocked, Holds
  <2>3. QED
    BY <2>1, <2>2 DEF Claim!Release, Claim!Next
<1>9. CASE DropCloses(p)
  <2>1. name # fd[p] /\ name' = name /\ row' = row /\ lock' = [lock EXCEPT ![fd[p]] = Nobody]
    BY <1>9 DEF DropCloses, LocksFit, HeldIsNamed
  <2>2. QED
    BY <2>1, HolderStays DEF TypeOK, Claim!vars
<1>10. CASE SweepLocks(p)
  <2>1. \A q \in Processes, f \in Files : lock'[f] = ClaimOf(q) <=> lock[f] = ClaimOf(q)
    BY <1>10, HoldersDiffer DEF SweepLocks, TypeOK, SweepOf
  <2>2. QED
    BY <1>10, <2>1, HolderStays DEF SweepLocks, TypeOK, Claim!vars
<1>11. CASE SweepUnlinks(p)
  <2>1. name \in Files /\ lock[name] = SweepOf(p) /\ name' = NoFile /\ row' = row
    BY <1>11 DEF SweepUnlinks, TypeOK, LocksFit, HeldIsNamed, SweepsLocked, SweepHas
  <2>2. QED
    BY <2>1, HolderStays, HoldersDiffer DEF Claim!vars
<1>12. CASE SweepLeaves(p)
  <2>1. \A q \in Processes, f \in Files : lock'[f] = ClaimOf(q) <=> lock[f] = ClaimOf(q)
    BY <1>12, HoldersDiffer DEF SweepLeaves, TypeOK, SweepOf
  <2>2. QED
    BY <1>12, <2>1, HolderStays DEF SweepLeaves, TypeOK, Claim!vars
<1>13. CASE Dies(p)
  <2>1. name' = name /\ row' = [row EXCEPT ![p] = "unasked"]
    BY <1>13 DEF Dies
  <2>2. \A q \in Processes, f \in Files :
            lock'[f] = ClaimOf(q) <=> lock[f] = ClaimOf(q) /\ q # p
    BY <1>13, ClaimAssumption DEF Dies, TypeOK, Holders, ClaimOf, Nobody
  <2>3. Holder' = IF Holder = p THEN NoProcess ELSE Holder
    BY <2>1, <2>2, HolderIs, ClaimAssumption DEF TypeOK
  <2>4. QED
    BY <2>1, <2>3 DEF Claim!Die, Claim!Next
<1>14. CASE \/ TableAnswers(p) \/ LockRefused(p) \/ DropsProbe(p) \/ DropChecks(p)
            \/ BindsDoors(p) \/ SweepStarts(p) \/ SweepOpens(p) \/ SweepGuards(p)
            \/ SweepChecks(p)
  BY <1>14 DEF TableAnswers, LockRefused, DropsProbe, DropChecks, BindsDoors, SweepStarts,
               SweepOpens, SweepGuards, SweepChecks, Holder, Claim!vars
<1>15. QED
  BY <1>1, <1>2, <1>3, <1>4, <1>5, <1>6, <1>7, <1>8, <1>9, <1>10, <1>11, <1>12, <1>13, <1>14
     DEF Step

(* The files, their locks, the unlinks and the sweeps behave as the one    *)
(* object that the claim is where the kernel keeps names for processes: a  *)
(* claim is taken at the lock of the file the name leads to, and let go at *)
(* its unlink or with its process.                                         *)
THEOREM FilesAreOneClaim == Spec => IsOneClaim
<1>1. Init => Claim!Init
  BY ClaimAssumption DEF Init, Claim!Init, Holder, HolderOf
<1>2. IInv /\ IInv' /\ [Next]_vars => [Claim!Next]_(Claim!vars)
  <2> SUFFICES ASSUME IInv, IInv', [Next]_vars PROVE [Claim!Next]_(Claim!vars)
    OBVIOUS
  <2>1. CASE Next
    BY <2>1, StepRefines DEF Next, IInv
  <2>2. CASE UNCHANGED vars
    BY <2>2 DEF vars, Holder, Claim!vars
  <2>3. QED
    BY <2>1, <2>2
<1>3. QED
  BY <1>1, <1>2, SpecIInv, PTL DEF Spec, IsOneClaim, Claim!Spec
=============================================================================
