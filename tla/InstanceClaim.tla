--------------------------- MODULE InstanceClaim ---------------------------
(***************************************************************************)
(* The claim on one data directory, taken by the locks of files: the Unix  *)
(* arm of crates/bt-platform/src/instance.rs, with the claim table of      *)
(* crates/bt-app/src/persist.rs that remembers its answers and the part of *)
(* a start that asks (crates/bt-app/src/main.rs).                          *)
(*                                                                         *)
(* Many processes.  They share the runtime directory: the lock file's name *)
(* and the file it leads to, which a claim let go and a sweep of stale     *)
(* files unlink and the next claim creates again; the locks the kernel     *)
(* keeps on the files; the sweep's guard, which claims hold shared and a   *)
(* sweep holds exclusive; and the door, the socket a second launch speaks  *)
(* to (the launch and the attention endpoints are bound and cleared        *)
(* together, and are one here).  Each call to the system is a step.        *)
(*                                                                         *)
(* A process that ends, by its own road or killed, is followed by a new    *)
(* one in its place; the kernel closes its files at once.  What a start    *)
(* hands to the door and leaves with is an end like another.               *)
(***************************************************************************)
EXTENDS Naturals, FiniteSets

CONSTANTS Processes, NoProcess,
          Waiters,          \* those that wait for the claim: an update's
          Sweepers,         \* those whose sweep the system starts a thread for
          Files,            \* the files (inodes) the name may lead to
          NoFile,
          Attempts          \* RELOCK_ATTEMPTS

ASSUME ClaimAssumption ==
    /\ NoProcess \notin Processes
    /\ Waiters \subseteq Processes /\ Sweepers \subseteq Processes
    /\ NoFile \notin Files
    /\ Attempts \in Nat \ {0}

VARIABLES
    name,       \* the file the lock's path leads to
    lock,       \* who holds each file's lock, and for what
    readers,    \* the claims that hold the guard shared
    sweeper,    \* the process whose sweep holds the guard exclusive
    door,       \* whose socket the endpoint's path leads to
    place,      \* where each process is in a claim it takes or lets go
    road,       \* for whom it is taken: the table, or a caller that waits
    fd,         \* the lock file it has open for its claim
    tries,      \* how often the name was found to lead elsewhere
    row,        \* its table: asked and settled, or not
    stage,      \* how far its start has come
    keeps,      \* SessionStore.writer_of_record
    told,       \* history: it has been told a sweep was on
    sweepAt,    \* where its sweep is
    sweepFd     \* the file its sweep has open: NoFile for another directory's

pathVars  == <<name, lock>>
guardVars == <<readers, sweeper>>
tryVars   == <<place, road, fd, tries>>
startVars == <<row, stage, keeps, told>>
sweepVars == <<sweepAt, sweepFd>>
vars == <<pathVars, guardVars, door, tryVars, startVars, sweepVars>>

Nobody  == <<NoProcess, "none">>
Holders == {Nobody} \cup (Processes \X {"claim", "sweep"})

NoDoor == <<NoProcess, "none">>
Stale  == <<NoProcess, "stale">>       \* its process is gone, its name is not
DoorOf(p) == <<p, "listens">>
Doors  == {NoDoor, Stale} \cup {DoorOf(p) : p \in Processes}

Places == {"idle", "opening", "locking", "doubting", "checking", "clearing",
           "had", "dropping", "unlinking", "closing"}
Stages == {"starting", "launched", "session", "binding", "resident"}
SweepPlaces == {"none", "listing", "opened", "guarded", "locked", "unlinking",
                "closing", "over"}

TypeOK ==
    /\ name \in Files \cup {NoFile}
    /\ lock \in [Files -> Holders]
    /\ readers \in SUBSET Processes
    /\ sweeper \in Processes \cup {NoProcess}
    /\ door \in Doors
    /\ place \in [Processes -> Places]
    /\ road \in [Processes -> {"ask", "try"}]
    /\ fd \in [Processes -> Files \cup {NoFile}]
    /\ tries \in [Processes -> 0..Attempts]
    /\ row \in [Processes -> {"unasked", "writer", "refused"}]
    /\ stage \in [Processes -> Stages]
    /\ keeps \in [Processes -> BOOLEAN] /\ told \in [Processes -> BOOLEAN]
    /\ sweepAt \in [Processes -> SweepPlaces]
    /\ sweepFd \in [Processes -> Files \cup {NoFile}]

Init ==
    /\ name = NoFile /\ lock = [f \in Files |-> Nobody]
    /\ readers = {} /\ sweeper = NoProcess
    /\ door = NoDoor
    /\ place = [p \in Processes |-> "idle"] /\ road = [p \in Processes |-> "ask"]
    /\ fd = [p \in Processes |-> NoFile] /\ tries = [p \in Processes |-> 0]
    /\ row = [p \in Processes |-> "unasked"]
    /\ stage = [p \in Processes |-> "starting"]
    /\ keeps = [p \in Processes |-> FALSE] /\ told = [p \in Processes |-> FALSE]
    /\ sweepAt = [p \in Processes |-> "none"]
    /\ sweepFd = [p \in Processes |-> NoFile]

-----------------------------------------------------------------------------
(* What a caller does with an answer.                                      *)

(* Only a claim is remembered.                                             *)
RememberedIfOurs(p, answer) ==
    [row EXCEPT ![p] = IF answer = "Ours" THEN "writer" ELSE "unasked"]

(* remember_claim_answer: a sweep is not an answer about the directory.    *)
Remembered(p, answer) ==
    [row EXCEPT ![p] = CASE answer = "Ours"     -> "writer"
                         [] answer = "Sweeping" -> "unasked"
                         [] OTHER               -> "refused"]

(* A start's asks: main's own, the session store's, which keeps what it    *)
(* was told for its life, and the doors', with the settings store's just   *)
(* before it; and the stores that open after the doors.                    *)
GoesOn(p, writer) ==
    /\ stage' = [stage EXCEPT ![p] =
          CASE stage[p] = "starting" -> "launched"
            [] stage[p] = "launched" -> "session"
            [] stage[p] = "session"  -> IF writer THEN "binding" ELSE "resident"
            [] OTHER                 -> stage[p]]
    /\ keeps' = IF stage[p] = "launched" THEN [keeps EXCEPT ![p] = writer] ELSE keeps

(* The try ends with this answer, and lets go of the guard.  One made for  *)
(* the table is remembered; one that waits (try_claim) remembers nothing.  *)
Answers(p, for, answer) ==
    /\ readers' = readers \ {p}
    /\ told' = [told EXCEPT ![p] = @ \/ answer = "Sweeping"]
    /\ IF for = "ask"
       THEN row' = Remembered(p, answer) /\ GoesOn(p, answer = "Ours")
       ELSE UNCHANGED <<row, stage, keeps>>

(* ... refused: its file, if it has one open, is closed.                   *)
Refused(p, for, answer) ==
    /\ place' = [place EXCEPT ![p] = "idle"]
    /\ fd' = [fd EXCEPT ![p] = NoFile]
    /\ tries' = [tries EXCEPT ![p] = 0]
    /\ Answers(p, for, answer)

-----------------------------------------------------------------------------
(* try_claim_data_directory_in.                                            *)

(* The guard, shared: refused at once when a sweep has it.                 *)
Begins(p, for) ==
    /\ place[p] = "idle"
    /\ road' = [road EXCEPT ![p] = for]
    /\ IF sweeper = NoProcess
       THEN /\ readers' = readers \cup {p}
            /\ place' = [place EXCEPT ![p] = "opening"]
            /\ UNCHANGED <<fd, tries, startVars>>
       ELSE Refused(p, for, "Sweeping")
    /\ UNCHANGED <<pathVars, sweeper, door, sweepVars>>

(* is_writer_of asks the platform when its table has no settled answer ... *)
Ask(p) == stage[p] # "binding" /\ row[p] = "unasked" /\ Begins(p, "ask")

(* ... and answers from the table when it has.                             *)
TableAnswers(p) ==
    /\ place[p] = "idle" /\ row[p] # "unasked"
    /\ stage[p] \in {"starting", "launched", "session"}
    /\ GoesOn(p, row[p] = "writer")
    /\ UNCHANGED <<pathVars, guardVars, door, tryVars, row, told, sweepVars>>

(* try_claim, for an update's trial (take_the_claim_within) or its applier *)
(* (wait_for_the_claim), before the start has asked anything.              *)
Try(p) == p \in Waiters /\ stage[p] = "starting" /\ row[p] = "unasked" /\ Begins(p, "try")

Open(f) == \E p \in Processes : f \in {fd[p], sweepFd[p]}

(* The lock file opened, and created when the name leads nowhere.          *)
Opens(p) ==
    /\ place[p] = "opening"
    /\ \E f \in Files :
          /\ IF name = NoFile THEN ~Open(f) ELSE f = name
          /\ name' = f
          /\ fd' = [fd EXCEPT ![p] = f]
    /\ place' = [place EXCEPT ![p] = "locking"]
    /\ UNCHANGED <<lock, guardVars, door, road, tries, startVars, sweepVars>>

Locks(p) ==
    /\ place[p] = "locking" /\ lock[fd[p]] = Nobody
    /\ lock' = [lock EXCEPT ![fd[p]] = <<p, "claim">>]
    /\ place' = [place EXCEPT ![p] = "checking"]
    /\ UNCHANGED <<name, guardVars, door, road, fd, tries, startVars, sweepVars>>

LockRefused(p) ==
    /\ place[p] = "locking" /\ lock[fd[p]] # Nobody
    /\ place' = [place EXCEPT ![p] = "doubting"]
    /\ UNCHANGED <<pathVars, guardVars, door, road, fd, tries, startVars, sweepVars>>

(* The runtime directory, the guard, the file or its lock is refused for a *)
(* reason of the platform's.                                               *)
Denied(p) ==
    /\ place[p] \in {"opening", "locking"}
    /\ Refused(p, road[p], "QueryDenied")
    /\ UNCHANGED <<pathVars, sweeper, door, road, sweepVars>>

(* The name no longer leads to the file: opened again, so many times.      *)
OpensAgain(p) ==
    /\ tries[p] + 1 < Attempts
    /\ tries' = [tries EXCEPT ![p] = @ + 1]
    /\ fd' = [fd EXCEPT ![p] = NoFile]
    /\ place' = [place EXCEPT ![p] = "opening"]
    /\ UNCHANGED <<readers, startVars>>

GivesUp(p, answer) == tries[p] + 1 >= Attempts /\ Refused(p, road[p], answer)

(* Held, unless the file was unlinked under its lock.                      *)
Doubts(p) ==
    /\ place[p] = "doubting"
    /\ \/ name = fd[p] /\ Refused(p, road[p], "Held")
       \/ name # fd[p] /\ (OpensAgain(p) \/ GivesUp(p, "Held"))
    /\ UNCHANGED <<pathVars, sweeper, door, road, sweepVars>>

(* Locked, and not checked.                                                *)
ChecksNothing(p) ==
    /\ place[p] = "checking"
    /\ place' = [place EXCEPT ![p] = "clearing"]
    /\ UNCHANGED <<pathVars, guardVars, door, road, fd, tries, startVars, sweepVars>>

(* Locked: the claim, unless the name leads elsewhere.                     *)
Checks(p) ==
    /\ place[p] = "checking"
    /\ \/ /\ name = fd[p]
          /\ place' = [place EXCEPT ![p] = "clearing"]
          /\ UNCHANGED <<lock, readers, fd, tries, startVars>>
       \/ /\ name # fd[p]
          /\ lock' = [lock EXCEPT ![fd[p]] = Nobody]
          /\ OpensAgain(p) \/ GivesUp(p, "QueryDenied")
    /\ UNCHANGED <<name, sweeper, door, road, sweepVars>>

(* The doors a dead holder left are taken down, and the claim handed back. *)
Clears(p) ==
    /\ place[p] = "clearing"
    /\ door' = NoDoor
    /\ place' = [place EXCEPT ![p] = IF road[p] = "ask" THEN "idle" ELSE "had"]
    /\ tries' = [tries EXCEPT ![p] = 0]
    /\ Answers(p, road[p], "Ours")
    /\ UNCHANGED <<pathVars, sweeper, road, fd, sweepVars>>

-----------------------------------------------------------------------------
(* A claim handed to a caller that waited for it: adopted into the table,  *)
(* or, an applier's, dropped.                                              *)

Adopts(p) ==
    /\ place[p] = "had"
    /\ row' = [row EXCEPT ![p] = "writer"]
    /\ place' = [place EXCEPT ![p] = "idle"]
    /\ UNCHANGED <<pathVars, guardVars, door, road, fd, tries, stage, keeps, told, sweepVars>>

DropsProbe(p) ==
    /\ place[p] = "had"
    /\ place' = [place EXCEPT ![p] = "dropping"]
    /\ UNCHANGED <<pathVars, guardVars, door, road, fd, tries, startVars, sweepVars>>

(* The claim dropped, and its table not told.                              *)
LetsGoUnsaid(p) ==
    /\ place[p] = "idle" /\ stage[p] = "resident" /\ row[p] = "writer"
    /\ place' = [place EXCEPT ![p] = "dropping"]
    /\ UNCHANGED <<pathVars, guardVars, door, road, fd, tries, startVars, sweepVars>>

(* let_go_of_every_claim, at the end of a start that hands over to an      *)
(* update: its table says "not the writer" from here.                      *)
LetsGo(p) ==
    /\ place[p] = "idle" /\ stage[p] = "resident" /\ row[p] = "writer"
    /\ row' = [row EXCEPT ![p] = "refused"]
    /\ place' = [place EXCEPT ![p] = "dropping"]
    /\ UNCHANGED <<pathVars, guardVars, door, road, fd, tries, stage, keeps, told, sweepVars>>

(* DataDirectoryClaim's drop: unlinked while still locked, if the name     *)
(* leads to it, and then closed.                                           *)
DropChecks(p) ==
    /\ place[p] = "dropping"
    /\ place' = [place EXCEPT ![p] = IF name = fd[p] THEN "unlinking" ELSE "closing"]
    /\ UNCHANGED <<pathVars, guardVars, door, road, fd, tries, startVars, sweepVars>>

DropUnlinks(p) ==
    /\ place[p] = "unlinking"
    /\ name' = NoFile
    /\ place' = [place EXCEPT ![p] = "closing"]
    /\ UNCHANGED <<lock, guardVars, door, road, fd, tries, startVars, sweepVars>>

DropCloses(p) ==
    /\ place[p] = "closing"
    /\ lock' = [lock EXCEPT ![fd[p]] = Nobody]
    /\ fd' = [fd EXCEPT ![p] = NoFile]
    /\ place' = [place EXCEPT ![p] = "idle"]
    /\ UNCHANGED <<name, guardVars, door, road, tries, startVars, sweepVars>>

(* open_the_data_directorys_endpoints: bound when the name is free.        *)
BindsDoors(p) ==
    /\ stage[p] = "binding" /\ place[p] = "idle"
    /\ door' = IF door = NoDoor THEN DoorOf(p) ELSE door
    /\ stage' = [stage EXCEPT ![p] = "resident"]
    /\ UNCHANGED <<pathVars, guardVars, tryVars, row, keeps, told, sweepVars>>

-----------------------------------------------------------------------------
(* sweep_stale_claims_in, on a worker of a start that has asked: the files *)
(* of other directories, then this one's.  Any file may be an hour old.    *)

SweepTo(p, at) == sweepAt' = [sweepAt EXCEPT ![p] = at]

SweepStarts(p) ==
    /\ p \in Sweepers /\ stage[p] # "starting" /\ sweepAt[p] = "none"
    /\ SweepTo(p, "listing")
    /\ UNCHANGED <<pathVars, guardVars, door, tryVars, startVars, sweepFd>>

SweepOpens(p) ==
    /\ sweepAt[p] = "listing"
    /\ SweepTo(p, "opened")
    /\ sweepFd' \in {[sweepFd EXCEPT ![p] = f] : f \in {name, NoFile}}
    /\ UNCHANGED <<pathVars, guardVars, door, tryVars, startVars>>

(* The guard taken whoever holds it.                                       *)
SweepGuardsAlone(p) ==
    /\ sweepAt[p] = "opened"
    /\ sweeper' = p /\ SweepTo(p, "guarded")
    /\ UNCHANGED <<pathVars, readers, door, tryVars, startVars, sweepFd>>

(* The guard, exclusive: a claim has it, and the rest is the next start's. *)
SweepGuards(p) ==
    /\ sweepAt[p] = "opened"
    /\ IF readers = {} /\ sweeper = NoProcess
       THEN sweeper' = p /\ SweepTo(p, "guarded") /\ UNCHANGED sweepFd
       ELSE /\ SweepTo(p, "over") /\ sweepFd' = [sweepFd EXCEPT ![p] = NoFile]
            /\ UNCHANGED sweeper
    /\ UNCHANGED <<pathVars, readers, door, tryVars, startVars>>

(* The file's lock; a claim that holds it keeps its file.                  *)
SweepLocks(p) ==
    /\ sweepAt[p] = "guarded" /\ sweepFd[p] # NoFile /\ lock[sweepFd[p]] = Nobody
    /\ lock' = [lock EXCEPT ![sweepFd[p]] = <<p, "sweep">>]
    /\ SweepTo(p, "locked")
    /\ UNCHANGED <<name, guardVars, door, tryVars, startVars, sweepFd>>

SweepChecks(p) ==
    /\ sweepAt[p] = "locked"
    /\ SweepTo(p, IF name = sweepFd[p] THEN "unlinking" ELSE "closing")
    /\ UNCHANGED <<pathVars, guardVars, door, tryVars, startVars, sweepFd>>

SweepUnlinks(p) ==
    /\ sweepAt[p] = "unlinking"
    /\ name' = NoFile
    /\ SweepTo(p, "closing")
    /\ UNCHANGED <<lock, guardVars, door, tryVars, startVars, sweepFd>>

(* Its file closed, its lock with it, and then the guard.                  *)
SweepLeaves(p) ==
    /\ \/ sweepAt[p] = "closing"
       \/ sweepAt[p] = "guarded" /\ (sweepFd[p] # NoFile => lock[sweepFd[p]] # Nobody)
    /\ lock' = [f \in Files |-> IF lock[f] = <<p, "sweep">> THEN Nobody ELSE lock[f]]
    /\ SweepTo(p, IF sweepFd[p] = NoFile THEN "listing" ELSE "over")
    /\ sweepFd' = [sweepFd EXCEPT ![p] = NoFile]
    /\ sweeper' = NoProcess
    /\ UNCHANGED <<name, readers, door, tryVars, startVars>>

-----------------------------------------------------------------------------
(* The process ends, wherever it is: its locks go, and its listeners; the  *)
(* names it made stay.                                                     *)
Dies(p) ==
    /\ lock' = [f \in Files |-> IF lock[f][1] = p THEN Nobody ELSE lock[f]]
    /\ readers' = readers \ {p}
    /\ sweeper' = IF sweeper = p THEN NoProcess ELSE sweeper
    /\ door' = IF door = DoorOf(p) THEN Stale ELSE door
    /\ place' = [place EXCEPT ![p] = "idle"] /\ road' = [road EXCEPT ![p] = "ask"]
    /\ fd' = [fd EXCEPT ![p] = NoFile] /\ tries' = [tries EXCEPT ![p] = 0]
    /\ row' = [row EXCEPT ![p] = "unasked"]
    /\ stage' = [stage EXCEPT ![p] = "starting"]
    /\ keeps' = [keeps EXCEPT ![p] = FALSE] /\ told' = [told EXCEPT ![p] = FALSE]
    /\ sweepAt' = [sweepAt EXCEPT ![p] = "none"]
    /\ sweepFd' = [sweepFd EXCEPT ![p] = NoFile]
    /\ UNCHANGED name

Step(p) ==
    \/ Ask(p) \/ TableAnswers(p) \/ Try(p)
    \/ Opens(p) \/ Locks(p) \/ LockRefused(p) \/ Denied(p)
    \/ Doubts(p) \/ Checks(p) \/ Clears(p)
    \/ Adopts(p) \/ DropsProbe(p) \/ LetsGo(p)
    \/ DropChecks(p) \/ DropUnlinks(p) \/ DropCloses(p)
    \/ BindsDoors(p)
    \/ SweepStarts(p) \/ SweepOpens(p) \/ SweepGuards(p) \/ SweepLocks(p)
    \/ SweepChecks(p) \/ SweepUnlinks(p) \/ SweepLeaves(p)
    \/ Dies(p)

Next == \E p \in Processes : Step(p)

Spec == Init /\ [][Next]_vars

-----------------------------------------------------------------------------
(* What the claim keeps true.                                              *)

HasClaim(p) == row[p] = "writer" \/ place[p] \in {"clearing", "had"}

(* Never two writers of one directory, whatever holders let go, die and    *)
(* are swept between one process's open, lock and check of the file (U-43).*)
OneWriter == \A p, q \in Processes : HasClaim(p) /\ HasClaim(q) => p = q

(* A claim never meets a file a sweep is holding, so none is told Held by  *)
(* a sweep and remembers it (U-43, round 2).                               *)
NoSweepMeetsAClaim ==
    readers # {} => \A f \in Files, p \in Processes : lock[f] # <<p, "sweep">>

(* While a process is the writer the endpoint's name is its own, or free   *)
(* for it to bind: no dead holder's socket and no other process's (M4-7).  *)
DoorsStand == \A p \in Processes : row[p] = "writer" => door \in {NoDoor, DoorOf(p)}

(* A writer's doors are its own; and one that was never told a sweep was   *)
(* on is the writer throughout: its session store keeps the file, and its  *)
(* doors stand open (audit 3 A-3).                                         *)
WriterIsWhole ==
    /\ DoorsStand
    /\ \A p \in Processes :
          stage[p] = "resident" /\ row[p] = "writer" /\ ~told[p]
              => keeps[p] /\ door = DoorOf(p)

(* The files and their locks behave as one object that is the claim.       *)
HolderOf(path, locks) ==
    IF path # NoFile /\ locks[path][2] = "claim" THEN locks[path][1] ELSE NoProcess

Holder == HolderOf(name, lock)

Claim == INSTANCE DirectoryClaim WITH holder <- Holder

IsOneClaim == Claim!Spec
=============================================================================
