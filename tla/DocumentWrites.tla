--------------------------- MODULE DocumentWrites ---------------------------
(***************************************************************************)
(* One hand-editable document (settings.json, keybindings.json,            *)
(* profiles.json or pins.json) between the person, who edits the file with *)
(* any program, and Folio, which writes it conditionally:                  *)
(* crates/bt-app/src/document_request.rs, with the merge of                *)
(* settings_merge.rs, the passes of persist.rs and the quit of quit.rs.    *)
(*                                                                         *)
(* The threads: the window thread, which takes presses, drains the lane's  *)
(* answers, merges and quits; the storage worker, which serves one write   *)
(* and one read of the document at a time, in the order they were sent;    *)
(* and the person's editor, which saves when it likes.  A change of the    *)
(* file stamps the ear's mailbox (storage_watch.rs), and a pass of the ear *)
(* asks for the file to be read again.                                     *)
(*                                                                         *)
(* A document gives each unit a value; its spelling is not modelled, so    *)
(* the bytes of a file are its document, Broken when they do not parse,    *)
(* NoFile when there is none, and a Revision is its bytes.  What is in     *)
(* force (projection) is taken to be desired: every door takes its value.  *)
(* The process is the writer of record, no update's trial is on, every     *)
(* change of the file is heard by the watch, and no other program touches  *)
(* the copies Folio leaves beside the file.  The turns of the window       *)
(* thread are cut at each answer heard and each file merged: they touch    *)
(* the store alone, and the worker and the editor may act in between.      *)
(***************************************************************************)
EXTENDS Naturals, Sequences

CONSTANTS Units,
          Broken, NoFile,
          MaxPresses, MaxSaves,  \* how often Folio and the editor change it,
          MaxChanges,            \* and both together
          MaxFaults,             \* disk and session refusals, bounds run out
          MaxQuits,              \* how often a quit is asked for
          Returns                \* may an editor save again what Folio still holds?

ASSUME DocumentAssumption ==
    /\ Units # {} /\ Broken # NoFile /\ Returns \in BOOLEAN
    /\ Broken \notin [Units -> Nat] /\ NoFile \notin [Units -> Nat]
    /\ {MaxPresses, MaxSaves, MaxChanges, MaxFaults, MaxQuits} \subseteq Nat

VARIABLES
    store,   \* DocumentState
    turn,    \* what the window thread does: "idle", "hearing" or "merging"
    quit,    \* where a quit is
    file,    \* what the document's file holds
    made,    \* how many copies were left beside it
    copies,  \* the copies that stand
    stamped, \* whether the ear's mailbox has news of the file
    saves, presses, faults, quits,  \* counted against the bounds
    claim,   \* history: the person's edit of each unit nothing may undo, or 0
    safe,    \* history: the copies whose units a durable landing carried
    dropped, \* history: whether the person left without a change that was owed
    behind   \* history: whether the last press found the store held by copies
             \* alone, none of which will be merged

bounds  == <<saves, presses, faults, quits>>
history == <<claim, safe, dropped, behind>>
disk    == <<file, made, copies, stamped>>
vars    == <<store, turn, quit, disk, bounds, history>>

-----------------------------------------------------------------------------
Document == [Units -> Nat]
Contents == Document \cup {Broken, NoFile}
Default  == [u \in Units |-> 0]
Parse(c) == IF c \in {Broken, NoFile} THEN Default ELSE c

None  == 0                       \* no file beside the document
Paths == 1..made                 \* those there were, in the order they came
Fresh == presses + saves + 1     \* a value no unit has had

(* The write in flight, and the read; what both are once answered.         *)
NoWrite == [step |-> "none", document |-> Default, base |-> NoFile, version |-> 0,
            kept |-> {}, carries |-> {}, outcome |-> "none", theirs |-> NoFile,
            left |-> None, retired |-> {}]
NoRead  == [step |-> "none", outcome |-> "none", found |-> NoFile]

Opened(c) ==
    [desired |-> Parse(c), revision |-> c, version |-> 0,
     write |-> NoWrite, read |-> NoRead, latest |-> "read",
     readAgain |-> FALSE, sendAgain |-> FALSE, retryOnEar |-> FALSE, refused |-> FALSE,
     held |-> FALSE, merges |-> <<>>, unmerged |-> <<>>, folded |-> FALSE, atQuit |-> FALSE,
     kept |-> {}, landed |-> FALSE, heard |-> FALSE, unread |-> FALSE,
     carries |-> {}, placed |-> {}]

-----------------------------------------------------------------------------
(* The store's doors.                                                      *)
Owed(s)    == s.desired # Parse(s.revision)
Writing(s) == s.write.step # "none"
Reading(s) == s.read.step # "none"

Request(s) == [NoWrite EXCEPT !.step = "queued", !.document = s.desired, !.base = s.revision,
                              !.version = s.version, !.kept = s.kept, !.carries = s.carries]

SendOwed(s) ==
    CASE s.held               -> s
      [] ~s.held /\ Writing(s) -> [s EXCEPT !.sendAgain = TRUE]
      [] ~s.held /\ ~Writing(s) /\ ~Owed(s) -> [s EXCEPT !.sendAgain = FALSE]
      [] ~s.held /\ ~Writing(s) /\ Owed(s) ->
            [s EXCEPT !.sendAgain = FALSE, !.retryOnEar = FALSE, !.refused = FALSE,
                      !.write = Request(s), !.latest = "write"]

(* A mutant: a read asked for while one is on the worker is not asked again. *)
AskReadOnce(s) ==
    IF Reading(s) THEN s
    ELSE [s EXCEPT !.readAgain = FALSE, !.read = [NoRead EXCEPT !.step = "queued"],
                   !.latest = "read"]

AskRead(s) ==
    IF Reading(s) THEN [s EXCEPT !.readAgain = TRUE]
    ELSE [s EXCEPT !.readAgain = FALSE, !.read = [NoRead EXCEPT !.step = "queued"],
                   !.latest = "read"]

Keep(s, merge) ==    \* keep_for_the_merge
    LET n == Len(s.merges)
        replaces == /\ merge.kept = None /\ n > 0
                    /\ s.merges[n].kept = None /\ s.merges[n].base = merge.base
    IN [s EXCEPT !.held = TRUE,
                 !.merges = IF replaces THEN [@ EXCEPT ![n] = merge] ELSE Append(@, merge)]

Moved(s, c) == [base |-> s.revision, theirs |-> c, kept |-> None, written |-> Default]

Refused(s) == [s EXCEPT !.retryOnEar = TRUE, !.refused = TRUE]

(* One write's answer.                                                     *)
OnDocument(s) ==
    LET w == s.write
        after == [s EXCEPT !.write = NoWrite, !.kept = {k \in @ : k.path \notin w.retired}]
        onDisk(t) == [t EXCEPT !.revision = w.document, !.placed = w.carries, !.landed = TRUE]
        obliged(t) == IF w.left = None THEN t
                      ELSE [t EXCEPT !.kept = @ \cup {[path |-> w.left, version |-> w.version + 1]},
                                     !.carries = @ \cup {w.left}]
    IN CASE w.outcome = "landed"    -> obliged(onDisk(after))
         [] w.outcome = "displaced" ->
                onDisk(Keep(after, [base |-> w.base, theirs |-> w.theirs, kept |-> w.left,
                                    written |-> w.document]))
         [] w.outcome = "moved"     -> Keep(after, Moved(s, w.theirs))
         [] w.outcome = "raced"     -> after
         [] w.outcome = "refused"   -> Refused(after)

(* A re-read of a file that Folio did not leave.                           *)
FoliosOwn(s, c) == c = s.revision \/ (Writing(s) /\ c = s.write.document)

OnFound(s, c) ==
    CASE FoliosOwn(s, c)                           -> s
      [] ~FoliosOwn(s, c) /\ s.held                -> [Keep(s, Moved(s, c)) EXCEPT !.revision = c]
      [] ~FoliosOwn(s, c) /\ ~s.held /\ c = Broken -> s
      [] ~FoliosOwn(s, c) /\ ~s.held /\ c # Broken -> Keep(s, Moved(s, c))

OnRead(s) ==
    LET after == [s EXCEPT !.read = NoRead, !.heard = @ \/ s.read.outcome # "failed"]
    IN IF s.read.outcome = "found" THEN OnFound([after EXCEPT !.unread = FALSE], s.read.found)
       ELSE [after EXCEPT !.unread = @ \/ s.read.outcome \in {"unobtained", "failed"}]

AfterAnswers(s) ==
    LET again == IF s.readAgain /\ ~Reading(s) THEN AskRead(s) ELSE s
        sends == /\ ~Writing(s)
                 /\ s.sendAgain \/ (s.landed /\ Owed(s)) \/ (s.heard /\ s.retryOnEar /\ Owed(s))
        sent  == IF sends THEN SendOwed(again) ELSE again
    IN [sent EXCEPT !.landed = FALSE, !.heard = FALSE]

(* The merge, unit by unit; a press laid over it; a file folded in.        *)
(* A mutant: Folio's value wins a conflict.                                *)
MergeOurs(base, ours, theirs) ==
    [u \in Units |-> IF ours[u] = base[u] THEN theirs[u] ELSE ours[u]]

Merge(base, ours, theirs) ==
    [u \in Units |-> IF theirs[u] = base[u] THEN ours[u] ELSE theirs[u]]

ApplyPress(desired, before, next) ==
    [u \in Units |-> IF next[u] # before[u] THEN next[u] ELSE desired[u]]

Fold(s, merge) ==
    LET ours   == IF merge.kept = None THEN s.desired ELSE merge.written
        merged == ApplyPress(Merge(Parse(merge.base), ours, Parse(merge.theirs)), ours, s.desired)
        into   == [s EXCEPT !.desired = merged, !.version = @ + 1, !.folded = TRUE]
    IN IF merge.kept = None THEN [into EXCEPT !.revision = merge.theirs]
       ELSE [into EXCEPT !.kept = @ \cup {[path |-> merge.kept, version |-> into.version]},
                         !.carries = @ \cup {merge.kept}]

(* The head of what waits for the merge.  A moved file that will not parse *)
(* is stored again; a displaced one stays on disk and is let go.           *)
MergeHead(s) ==
    LET merge == Head(s.merges)
        rest  == [s EXCEPT !.merges = Tail(@)]
    IN CASE merge.theirs # Broken -> Fold(rest, merge)
         [] merge.theirs = Broken /\ merge.kept = None ->
                [rest EXCEPT !.unmerged = Append(@, merge)]
         [] merge.theirs = Broken /\ merge.kept # None -> rest

Merged(s) == [s EXCEPT !.merges = s.unmerged, !.unmerged = <<>>, !.held = s.unmerged # <<>>,
                       !.folded = FALSE]

(* Where the document stands in a quit.                                    *)
Standing(s) ==
    CASE ~Owed(s)                -> "settled"
      [] Owed(s) /\ Writing(s)   -> "waiting"
      [] Owed(s) /\ ~Writing(s)  ->
            IF s.held \/ s.merges # <<>> \/ s.refused THEN "terminal" ELSE "unsent"

SendUnsent(s) == IF Standing(s) = "unsent" THEN SendOwed(s) ELSE s

DropOwed(s) ==
    IF ~Owed(s) THEN s
    ELSE [s EXCEPT !.desired = Parse(s.revision), !.version = @ + 1, !.merges = <<>>,
                   !.held = FALSE, !.sendAgain = FALSE, !.carries = s.placed]

-----------------------------------------------------------------------------
(* The person's editor.                                                    *)
Changes == {[Parse(file) EXCEPT ![u] = Fresh] : u \in Units} \cup {Broken, NoFile}

(* What Folio still holds of the file: what it knows, what its write is    *)
(* conditional on, and what it has yet to hear or to merge.                *)
Known ==
    {file, store.revision}
        \cup (IF Writing(store) THEN {store.write.base} ELSE {})
        \cup (IF store.write.outcome = "moved" THEN {store.write.theirs} ELSE {})
        \cup (IF store.read.outcome = "found" THEN {store.read.found} ELSE {})
        \cup {store.merges[i].theirs : i \in 1..Len(store.merges)}

Saves == IF Returns THEN Changes \cup Known ELSE Changes \ Known

(* An edit of a unit stands against every press already sent, and against  *)
(* those not sent unless the write on its way displaces it.                *)
Claims(c) ==
    [u \in Units |->
        CASE c \in {Broken, NoFile}                               -> 0
          [] c \notin {Broken, NoFile} /\ c[u] = Parse(file)[u]   -> claim[u]
          [] c \notin {Broken, NoFile} /\ c[u] # Parse(file)[u]   ->
                IF c[u] = Fresh /\ (Writing(store) => store.desired[u] = store.write.document[u])
                THEN Fresh ELSE 0]

Saved(c) ==
    /\ saves < MaxSaves /\ presses + saves < MaxChanges
    /\ saves' = saves + 1
    /\ file' = c
    /\ stamped' = TRUE
    /\ claim' = Claims(c)

Save(c) ==
    /\ Saved(c)
    /\ UNCHANGED <<store, turn, quit, made, copies, presses, faults, quits, safe, dropped, behind>>

-----------------------------------------------------------------------------
(* The storage worker.                                                     *)
Fault ==
    /\ faults < MaxFaults
    /\ faults' = faults + 1

WriteIs(step) ==
    /\ store.write.step = step
    /\ store.latest = "write" => store.read.step # "queued"

ReadIsNext ==
    /\ store.read.step = "queued"
    /\ store.latest = "read" => store.write.step \notin {"queued", "checked"}

Answered(outcome, theirs, left, retired) ==
    [store EXCEPT !.write.step = "answered", !.write.outcome = outcome, !.write.theirs = theirs,
                  !.write.left = left, !.write.retired = retired]

(* The precondition holds, does not, or is raced by the editor.            *)
Check ==
    /\ WriteIs("queued") /\ file = store.write.base
    /\ store' = [store EXCEPT !.write.step = "checked"]
    /\ UNCHANGED <<turn, quit, disk, bounds, history>>

FindMoved ==
    /\ \/ WriteIs("queued") /\ file # store.write.base
       \/ WriteIs("checked") /\ store.write.base = NoFile /\ file # NoFile
    /\ store' = Answered("moved", file, None, {})
    /\ UNCHANGED <<turn, quit, disk, bounds, history>>

FindRaced(c) ==
    /\ file # NoFile
    /\ WriteIs("queued") \/ (WriteIs("checked") /\ store.write.base = NoFile)
    /\ Saved(c)
    /\ store' = Answered("raced", NoFile, None, {})
    /\ UNCHANGED <<turn, quit, made, copies, presses, faults, quits, safe, dropped, behind>>

Refuse ==
    /\ WriteIs("queued") \/ WriteIs("checked")
    /\ IF store.write.step = "checked" /\ store.write.base # NoFile /\ file = NoFile
       THEN UNCHANGED faults   \* nothing to exchange with
       ELSE Fault
    /\ store' = Answered("refused", NoFile, None, {})
    /\ UNCHANGED <<turn, quit, disk, saves, presses, quits, history>>

(* The bytes placed, durably, with the copies this retires; or not known   *)
(* to be durable.                                                          *)
RetiredBy(kept, version) == {k.path : k \in {j \in kept : j.version <= version}}

LeftAside == made' = made + 1 /\ copies' = copies \cup {made + 1}

Written ==
    /\ file' = store.write.document
    /\ stamped' = TRUE
    /\ UNCHANGED <<turn, quit, saves, presses, quits, dropped, behind>>

Placed == Written /\ UNCHANGED claim

Place ==
    /\ WriteIs("checked") /\ file = store.write.base
    /\ LET gone == RetiredBy(store.write.kept, store.write.version)
       IN /\ store' = Answered("landed", NoFile, None, gone)
          /\ copies' = copies \ gone
    /\ safe' = safe \cup store.write.carries
    /\ Placed
    /\ UNCHANGED <<made, faults>>

(* A mutant: a landing not known to be durable retires the copies.         *)
PlaceRetiring ==
    /\ WriteIs("checked") /\ file = store.write.base
    /\ Fault
    /\ LET gone == RetiredBy(store.write.kept, store.write.version)
       IN store' = Answered("landed", NoFile, None, gone) /\ copies' = copies \ gone
    /\ Placed
    /\ UNCHANGED <<made, safe>>

PlaceUndurably ==
    /\ WriteIs("checked") /\ file = store.write.base
    /\ Fault
    /\ IF file = NoFile
       THEN store' = Answered("landed", NoFile, None, {}) /\ UNCHANGED <<made, copies>>
       ELSE store' = Answered("landed", NoFile, made + 1, {}) /\ LeftAside
    /\ Placed
    /\ UNCHANGED safe

(* The exchange displaced what the editor saved after the precondition,    *)
(* and it was read back.                                                   *)
Displace ==
    /\ WriteIs("checked") /\ NoFile \notin {store.write.base, file} /\ file # store.write.base
    /\ store' = Answered("displaced", file, made + 1, {})
    /\ LeftAside
    /\ Placed
    /\ UNCHANGED <<faults, safe>>

(* What it displaced cannot be read back (moving, unobtained): the write   *)
(* is answered as landed, the copy stays where no rule removes it, and the *)
(* store hears nothing of it.  An edit the copy alone has is claimed no    *)
(* more: the code merges it into nothing.                                  *)
Undisplaced(u) == Parse(file)[u] = Parse(store.write.base)[u]

DisplaceUnread ==
    /\ WriteIs("checked") /\ NoFile \notin {store.write.base, file}
    /\ Fault
    /\ \E durable \in BOOLEAN :
          LET gone == IF durable THEN RetiredBy(store.write.kept, store.write.version) ELSE {}
          IN /\ store' = Answered("landed", NoFile, None, gone)
             /\ copies' = (copies \ gone) \cup {made + 1}
             /\ safe' = IF durable THEN safe \cup store.write.carries ELSE safe
    /\ made' = made + 1
    /\ claim' = [u \in Units |-> IF Undisplaced(u) THEN claim[u] ELSE 0]
    /\ Written

FindFile ==
    /\ ReadIsNext
    /\ store' = [store EXCEPT !.read = [step |-> "answered", outcome |-> "found", found |-> file]]
    /\ UNCHANGED <<turn, quit, disk, bounds, history>>

RaceRead(c) ==
    /\ ReadIsNext /\ file # NoFile
    /\ Saved(c)
    /\ store' = [store EXCEPT !.read = [step |-> "answered", outcome |-> "raced", found |-> NoFile]]
    /\ UNCHANGED <<turn, quit, made, copies, presses, faults, quits, safe, dropped, behind>>

FailRead ==
    /\ ReadIsNext
    /\ Fault
    /\ \E outcome \in {"unobtained", "failed"} :
          store' = [store EXCEPT !.read = [step |-> "answered", outcome |-> outcome,
                                           found |-> NoFile]]
    /\ UNCHANGED <<turn, quit, disk, saves, presses, quits, history>>

-----------------------------------------------------------------------------
(* The window thread.                                                      *)
Free == turn = "idle" /\ quit \in {"none", "cancelled"}

(* A displaced copy that will not parse holds the store, and folds nothing.*)
Matters(merge)  == merge.kept = None \/ merge.theirs # Broken
HeldByCopies(s) == s.held /\ \A i \in 1..Len(s.merges) : ~Matters(s.merges[i])

(* A press sets one unit, to a new value or back to the file's.            *)
Press(u) ==
    /\ Free /\ presses < MaxPresses /\ presses + saves < MaxChanges
    /\ \E v \in {Fresh, Parse(store.revision)[u]} \ {store.desired[u]} :
          store' = SendOwed([store EXCEPT !.desired[u] = v, !.version = @ + 1])
    /\ presses' = presses + 1
    /\ claim' = [claim EXCEPT ![u] = 0]
    /\ behind' = HeldByCopies(store)
    /\ UNCHANGED <<turn, quit, disk, saves, faults, quits, safe, dropped>>

(* A press that changes nothing sends what is owed.                        *)
PressAgain ==
    /\ Free /\ Owed(store)
    /\ store' = SendOwed(store)
    /\ behind' = HeldByCopies(store)
    /\ UNCHANGED <<turn, quit, disk, bounds, claim, safe, dropped>>

EarPass ==
    /\ turn = "idle" /\ quit # "left" /\ stamped
    /\ stamped' = FALSE
    /\ store' = AskRead(store)
    /\ UNCHANGED <<turn, quit, file, made, copies, bounds, history>>

(* A drain: the answers heard in the order of their requests, then what is *)
(* owed after them, then the files that wait merged, unless a quit is past *)
(* its documents.                                                          *)
WriteToHear == store.write.step = "answered" /\ (store.latest = "write" => ~Reading(store))
ReadToHear  == store.read.step = "answered" /\ (store.latest = "read" => ~Writing(store))

BeginDrain ==    \* one that would do nothing is left out
    /\ turn = "idle" /\ quit # "left"
    /\ \/ WriteToHear \/ ReadToHear \/ quit = "documents"
       \/ store.sendAgain \/ store.readAgain \/ store.merges # <<>> \/ store.atQuit
    /\ turn' = "hearing"
    /\ UNCHANGED <<store, quit, disk, bounds, history>>

Hear ==
    /\ turn = "hearing"
    /\ \/ WriteToHear /\ store' = OnDocument(store)
       \/ ReadToHear /\ store' = OnRead(store)
    /\ UNCHANGED <<turn, quit, disk, bounds, history>>

AnswersHeard ==
    /\ turn = "hearing" /\ ~WriteToHear /\ ~ReadToHear
    /\ store' = AfterAnswers(store)
    /\ turn' = IF quit \in {"none", "cancelled", "documents"} THEN "merging" ELSE "idle"
    /\ UNCHANGED <<quit, disk, bounds, history>>

MergeOne ==
    /\ turn = "merging" /\ store.merges # <<>>
    /\ store' = MergeHead(store)
    /\ UNCHANGED <<turn, quit, disk, bounds, history>>

(* A mutant: what a merge folded is not sent.                              *)
EndMergeUnsent ==
    /\ turn = "merging" /\ store.merges = <<>> /\ quit \in {"none", "cancelled"}
    /\ store' = Merged([store EXCEPT !.atQuit = FALSE])
    /\ turn' = "idle"
    /\ UNCHANGED <<quit, disk, bounds, history>>

(* begin_merge answered nothing, or end_merge.                             *)
EndMerge ==
    /\ turn = "merging" /\ store.merges = <<>> /\ quit \in {"none", "cancelled"}
    /\ LET merged == Merged([store EXCEPT !.atQuit = FALSE])
       IN store' = IF store.folded \/ store.atQuit THEN SendOwed(merged) ELSE merged
    /\ turn' = "idle"
    /\ UNCHANGED <<quit, disk, bounds, history>>

-----------------------------------------------------------------------------
(* A quit: its documents, their copies, and the session's write.           *)
QuitBegin ==
    /\ Free /\ quits < MaxQuits
    /\ quits' = quits + 1
    /\ quit' = "documents"
    /\ store' = SendUnsent([store EXCEPT !.refused = FALSE])
    /\ UNCHANGED <<turn, disk, saves, presses, faults, history>>

(* Leave without this change, on the card of a cancelled quit.             *)
LeaveWithout ==
    /\ Free /\ quit = "cancelled" /\ quits < MaxQuits
    /\ quits' = quits + 1
    /\ quit' = "documents"
    /\ store' = SendUnsent([DropOwed(store) EXCEPT !.refused = FALSE])
    /\ claim' = [u \in Units |-> 0]
    /\ dropped' = (dropped \/ Owed(store))
    /\ UNCHANGED <<turn, disk, saves, presses, faults, safe, behind>>

(* The end of a turn of the documents phase: merged without the doors.     *)
QuitTurn ==
    /\ turn = "merging" /\ store.merges = <<>> /\ quit = "documents"
    /\ store' = SendUnsent(Merged([store EXCEPT !.atQuit = @ \/ store.folded]))
    /\ turn' = "idle"
    /\ quit' = CASE Standing(store') = "settled"               -> "leaving"
                 [] Standing(store') = "terminal"              -> "recovery"
                 [] Standing(store') \in {"waiting", "unsent"} -> "documents"
    /\ UNCHANGED <<disk, bounds, history>>

QuitOutOfTime ==
    /\ turn = "idle" /\ quit = "documents" /\ Standing(store) \in {"waiting", "unsent"}
    /\ Fault
    /\ quit' = "cancelled"
    /\ UNCHANGED <<store, turn, disk, saves, presses, quits, history>>

CopyKept ==
    /\ turn = "idle" /\ quit = "recovery"
    /\ quit' = "leaving"
    /\ UNCHANGED <<store, turn, disk, bounds, history>>

CopyRefused ==
    /\ turn = "idle" /\ quit = "recovery"
    /\ Fault
    /\ quit' = "cancelled"
    /\ UNCHANGED <<store, turn, disk, saves, presses, quits, history>>

SessionRefused ==
    /\ turn = "idle" /\ quit = "leaving"
    /\ Fault
    /\ quit' = "none"
    /\ UNCHANGED <<store, turn, disk, saves, presses, quits, history>>

Leave ==
    /\ turn = "idle" /\ quit = "leaving"
    /\ quit' = "left"
    /\ UNCHANGED <<store, turn, disk, bounds, history>>

-----------------------------------------------------------------------------
Init ==
    /\ file \in {NoFile, Default}
    /\ store = Opened(file)
    /\ turn = "idle" /\ quit = "none"
    /\ made = 0 /\ copies = {} /\ stamped = FALSE
    /\ saves = 0 /\ presses = 0 /\ faults = 0 /\ quits = 0
    /\ claim = [u \in Units |-> 0] /\ safe = {} /\ dropped = FALSE /\ behind = FALSE

Editor == \E c \in Saves : Save(c) \/ FindRaced(c) \/ RaceRead(c)

WorkerGoesOn == Check \/ FindMoved \/ Place \/ Displace \/ FindFile \/ Refuse
WorkerFails  == PlaceUndurably \/ DisplaceUnread \/ FailRead

WindowGoesOn == Hear \/ AnswersHeard \/ MergeOne \/ EndMerge \/ QuitTurn
QuitGoesOn   == CopyKept \/ Leave
QuitFails    == QuitOutOfTime \/ CopyRefused \/ SessionRefused
Person       == (\E u \in Units : Press(u)) \/ PressAgain \/ QuitBegin \/ LeaveWithout

Next ==
    \/ Editor \/ WorkerGoesOn \/ WorkerFails
    \/ EarPass \/ BeginDrain \/ WindowGoesOn
    \/ Person \/ QuitGoesOn \/ QuitFails

Spec == Init /\ [][Next]_vars

-----------------------------------------------------------------------------
(* What the document keeps.                                                *)

Kept(paths)   == [path : paths, version : Nat]
Merges(paths) == [base : Contents, theirs : Contents, kept : {None} \cup paths,
                  written : Document]

Writes(paths) ==
    [step : {"none", "queued", "checked", "answered"}, document : Document, base : Contents,
     version : Nat, kept : SUBSET Kept(paths), carries : SUBSET paths,
     outcome : {"none", "landed", "displaced", "moved", "raced", "refused"},
     theirs : Contents, left : {None} \cup paths, retired : SUBSET paths]
Reads == [step : {"none", "queued", "answered"},
          outcome : {"none", "found", "raced", "unobtained", "failed"}, found : Contents]

DocumentState(paths) ==    \* of a document with these copies beside it
    [desired : Document, revision : Contents, version : Nat,
     write : Writes(paths), read : Reads, latest : {"write", "read"},
     readAgain : BOOLEAN, sendAgain : BOOLEAN, retryOnEar : BOOLEAN, refused : BOOLEAN,
     held : BOOLEAN, merges : Seq(Merges(paths)), unmerged : Seq(Merges(paths)),
     folded : BOOLEAN, atQuit : BOOLEAN, kept : SUBSET Kept(paths), landed : BOOLEAN,
     heard : BOOLEAN, unread : BOOLEAN, carries : SUBSET paths, placed : SUBSET paths]

TypeOK ==
    /\ store \in DocumentState(Paths)
    /\ turn \in {"idle", "hearing", "merging"}
    /\ quit \in {"none", "documents", "recovery", "cancelled", "leaving", "left"}
    /\ file \in Contents /\ stamped \in BOOLEAN
    /\ made \in Nat /\ copies \subseteq Paths
    /\ {saves, presses, faults, quits} \subseteq Nat
    /\ claim \in [Units -> Nat] /\ safe \subseteq Paths
    /\ dropped \in BOOLEAN /\ behind \in BOOLEAN

(* What the exchange displaced, or might not survive without, stays beside *)
(* the file until a landing known to be durable holds what it kept         *)
(* (retired_by, KeptFile; settle_exchange); unless the person left without *)
(* a change, which may have been made of it.                               *)
KeptUntilLanded == Paths \subseteq copies \cup safe
HandWorkKept    == dropped \/ KeptUntilLanded

(* Nothing is on the worker, the ear has heard all, nothing is to merge,   *)
(* and nothing that was to be merged was let go with a dropped change.     *)
Quiet ==
    /\ turn = "idle" /\ ~stamped /\ ~Writing(store) /\ ~Reading(store)
    /\ ~store.unread /\ store.merges = <<>> /\ ~dropped

(* An edit the person made of a unit is never undone by what Folio had     *)
(* sent before it: it is what Folio wants on disk once all is heard        *)
(* (unit, merge_stored: only a later press may change it), unless a write  *)
(* displaced it and could not read back what it displaced: the copy beside *)
(* the file then has it, and nothing else does (settle_exchange).          *)
HandEditsStand == Quiet => \A u \in Units : claim[u] # 0 => store.desired[u] = claim[u]

(* Once all is heard, the revision is what the file holds, so the next     *)
(* write is conditional on the right bytes and the next edit is compared   *)
(* with them (Revision::landed, adopt; is_folios_own_write).               *)
RevisionIsTheFile == Quiet /\ file # Broken => store.revision = file

(* Nothing loses the store its next trigger: once all is heard of a file   *)
(* that parses, what is still owed goes with the next drain, or had its    *)
(* write refused and goes with the next pass of the ear (after_answers);   *)
(* unless the last press came while nothing but displaced copies that will *)
(* not parse held the store, which lets them go and sends nothing.         *)
OwedHasATrigger ==
    Quiet /\ file # Broken /\ Owed(store) =>
        store.sendAgain \/ store.retryOnEar \/ behind

(* "A file that moved stays stored, and the store stays held, until a      *)
(* later read finds it parsing" (merge_stored): once all is heard, a       *)
(* document whose file parses is not held.                                 *)
HoldEndsWhenFileParses ==
    turn = "idle" /\ ~stamped /\ ~Writing(store) /\ ~Reading(store) /\ ~store.unread
        /\ file # Broken => ~store.held
=============================================================================
