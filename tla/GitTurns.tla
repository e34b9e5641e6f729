------------------------------ MODULE GitTurns ------------------------------
(***************************************************************************)
(* The turns that the reads and the verbs of a git repository take:        *)
(* crates/bt-app/src/git_mutation_lane.rs (RepoTurns and GitMutationLane), *)
(* git.rs (the read worker) and main.rs (drain_git_answers).               *)
(*                                                                         *)
(* The threads: the window thread, which mails questions to the read       *)
(* worker, presses verbs (writes and checkouts) and drains the answers of  *)
(* both; the read worker; and one worker per share, a share being what one *)
(* repository's verbs are owed on while any is.  They meet in the          *)
(* turnstile (RepoTurns: one mutex and a condition variable), in which     *)
(* only a share's worker ever waits.                                       *)
(*                                                                         *)
(* One action is one hold of the turnstile's lock, of a ledger's or a      *)
(* line's, or one message; a step of one thread on what no other reads is  *)
(* part of the next.  A share's queue and ledger are LaneQueue's with      *)
(* nothing related to anything and nothing withdrawn: its verbs run, and   *)
(* end, in the order they were pressed, so its line and what it owes are   *)
(* read off the verbs.  A verb is named by its press, which orders the     *)
(* verbs of one share as its ledger's numbers do; a question by its mail,  *)
(* which orders every queue it stands in: each is joined at the back, in   *)
(* the order of the mail, and nothing overtakes.  So a queue is the set of *)
(* its questions, its head the least, and a read asked of the turnstile is *)
(* numbered by its question.                                               *)
(***************************************************************************)
EXTENDS Integers, FiniteSets

CONSTANTS Folders,       \* the repositories
          Targets,       \* what may be asked of them (a question's same_target)
          FolderOf(_),   \* the repository a target is about
          NoFolder, NoTarget,
          MaxQuestions, MaxVerbs, MaxShares,   \* bounds of the model
          Bound          \* MUTATION_BOUND

ASSUME GitAssumption ==
    /\ MaxQuestions \in Nat /\ MaxVerbs \in Nat /\ MaxShares \in Nat /\ Bound \in Nat
    /\ NoFolder \notin Folders /\ NoTarget \notin Targets
    /\ \A t \in Targets : FolderOf(t) \in Folders

Questions == 1..MaxQuestions
Verbs     == 1..MaxVerbs
Shares    == 1..MaxShares
None      == 0

VARIABLES
    \* the window thread
    app,        \* where it is in the call it makes
    todo,       \* the shares this drain has not come to yet
    receipts,   \* the verbs whose receipt this drain has taken
    ringing,    \* whether a wake is in its event queue
    responses,  \* the answers in its channel from the read worker
    \* the lane's shares and their workers
    made,       \* Shares.generations: how many shares have been made
    live,       \* Shares.live: the shares the lane holds
    root,       \* per share, its repository
    worker,     \* per share, where its worker is
    current,    \* per share, the verb its worker has in hand
    fault,      \* the shares whose worker has ended
    \* the verbs
    pressed,    \* how many have been pressed
    verb,       \* per verb, where its request is
    shareOf,    \* per verb, the share it was pressed on
    minted,     \* per share, the last verb pressed on it (Ledger::last_minted)
    \* the turnstile
    known,      \* TurnState.shares: the shares it holds the ledger of
    asked,      \* TurnState.asked: the reads asked and not yet run
    reading,    \* TurnState.reading: the repositories a read is running in
    running,    \* TurnState.running: the shares with a verb running
    \* the read worker
    mailed,     \* how many questions have been mailed to it
    target,     \* per question, what it asks
    inbox,      \* the questions in its channel
    nudged,     \* whether a nudge is in its channel
    line,       \* PendingGitRequests.requests
    parked,     \* PendingGitRequests.waiting
    reader,     \* where it is
    question,   \* the question it has in hand
    at,         \* the last of its parked reads it has looked at
    \* history
    before,     \* per question, how many verbs had been pressed when it was mailed
    ran,        \* the verbs whose run is over
    saw,        \* per question, the verbs whose run was over when its reading began
    filed,      \* the questions whose answer has been filed
    told        \* the verbs whose receipt has been filed

drainVars == <<todo, receipts>>
shareVars == <<made, live, root>>
workVars  == <<worker, current, fault>>
verbVars  == <<pressed, verb, shareOf, minted>>
turnVars  == <<known, asked, reading, running>>
mailVars  == <<mailed, target, inbox>>
readVars  == <<line, parked, reader, question, at>>
filedVars == <<filed, told>>
vars == <<app, drainVars, ringing, responses, shareVars, workVars, verbVars, turnVars,
          mailVars, nudged, readVars, before, ran, saw, filedVars>>

WorkerPlaces == {"unstarted", "looking", "asleep", "turning", "waiting", "running",
                 "publishing", "telling", "ringing", "ended"}
ReaderPlaces == {"draining", "looking", "asking", "beginning", "reading", "answered",
                 "waiting", "ended"}
Asked == [question : Questions, folder : Folders, behind : Shares \cup {None},
          last : Verbs \cup {None}, parked : BOOLEAN]

WindowType ==
    /\ app \in {"idle", "pressing", "draining", "forgetting"}
    /\ todo \subseteq Shares /\ receipts \subseteq Verbs
    /\ ringing \in BOOLEAN /\ responses \subseteq Questions

ShareType ==
    /\ made \in 0..MaxShares /\ live \subseteq Shares /\ known \subseteq Shares
    /\ root \in [Shares -> Folders \cup {NoFolder}]

WorkerType ==
    /\ worker \in [Shares -> WorkerPlaces]
    /\ current \in [Shares -> Verbs \cup {None}]
    /\ fault \subseteq Shares /\ running \subseteq Shares

VerbType ==
    /\ pressed \in 0..MaxVerbs
    /\ verb \in [Verbs -> {"unpressed", "owed", "orphan", "kept", "taken", "sunk"}]
    /\ shareOf \in [Verbs -> Shares \cup {None}]
    /\ minted \in [Shares -> Verbs \cup {None}]

ReadType ==
    /\ mailed \in 0..MaxQuestions
    /\ target \in [Questions -> Targets \cup {NoTarget}]
    /\ \A q \in 1..mailed : target[q] \in Targets
    /\ inbox \subseteq 1..mailed /\ line \subseteq 1..mailed /\ parked \subseteq 1..mailed
    /\ nudged \in BOOLEAN /\ reader \in ReaderPlaces
    /\ question \in 0..mailed /\ at \in Questions \cup {None}
    /\ reader \in {"asking", "beginning", "reading", "answered"} => question # None
    /\ asked \subseteq Asked /\ reading \subseteq Folders

HistoryType ==
    /\ before \in [Questions -> 0..MaxVerbs] /\ saw \in [Questions -> SUBSET Verbs]
    /\ ran \subseteq Verbs /\ filed \subseteq Questions /\ told \subseteq Verbs

TypeOK == WindowType /\ ShareType /\ WorkerType /\ VerbType /\ ReadType /\ HistoryType

Init ==
    /\ app = "idle" /\ todo = {} /\ receipts = {} /\ ringing = FALSE /\ responses = {}
    /\ made = 0 /\ live = {} /\ root = [s \in Shares |-> NoFolder]
    /\ worker = [s \in Shares |-> "unstarted"] /\ current = [s \in Shares |-> None]
    /\ fault = {}
    /\ pressed = 0
    /\ verb = [v \in Verbs |-> "unpressed"] /\ shareOf = [v \in Verbs |-> None]
    /\ minted = [s \in Shares |-> None]
    /\ known = {} /\ asked = {} /\ reading = {} /\ running = {}
    /\ mailed = 0 /\ target = [q \in Questions |-> NoTarget]
    /\ inbox = {} /\ nudged = FALSE
    /\ line = {} /\ parked = {} /\ reader = "draining" /\ question = None /\ at = None
    /\ before = [q \in Questions |-> 0] /\ saw = [q \in Questions |-> {}]
    /\ ran = {} /\ filed = {} /\ told = {}

-----------------------------------------------------------------------------
(* Reading a share's ledger, and the turnstile.                            *)

Folder(q)  == FolderOf(target[q])
VerbsOf(s) == {v \in Verbs : shareOf[v] = s}
Owed(s)    == {v \in VerbsOf(s) : verb[v] \in {"owed", "orphan"}}
Entries(s) == {v \in VerbsOf(s) : verb[v] \in {"owed", "orphan", "kept"}}
InLine(s)  == Owed(s) \ {current[s]}

(* Whether a share's ledger's earliest_owed is at or below a number.       *)
OwesUpTo(s, last) == \E v \in Owed(s) : v <= last

IsRunning(f) == \E s \in running : root[s] = f

(* Asked::behind_a_verb and Asked::waits_for.                              *)
BehindAVerb(a) == a.behind # None /\ OwesUpTo(a.behind, a.last)
WaitsFor(a, s) == a.behind = s /\ OwesUpTo(s, a.last)

AskedBefore(a) == \E b \in asked : b.question < a.question /\ b.folder = a.folder

(* Only the verb running, not the verbs owed, holds a read back.           *)
ReadWaitsUnowed(q) ==
    \/ IsRunning(Folder(q))
    \/ \E a \in asked : a.question = q /\ AskedBefore(a)

(* TurnState::read_waits.                                                  *)
ReadWaits(q) ==
    \/ IsRunning(Folder(q))
    \/ \E a \in asked : a.question = q /\ (AskedBefore(a) \/ BehindAVerb(a))

(* A verb waits for the read running only, or for the reads asked only.    *)
VerbWaitsUnasked(s) == root[s] \in reading
VerbWaitsUnread(s) == \E a \in asked : a.folder = root[s] /\ ~WaitsFor(a, s)

(* A verb waits for every read asked, those that wait for it too.          *)
VerbWaitsForAll(s) ==
    root[s] \in reading \/ \E a \in asked : a.folder = root[s]

(* TurnState::verb_waits, of the share whose worker asks.                  *)
VerbWaits(s) ==
    \/ root[s] \in reading
    \/ \E a \in asked : a.folder = root[s] /\ ~WaitsFor(a, s)

(* A place kept by a read that has begun, or will not run; nobody nudged;  *)
(* nobody told.                                                            *)
AskedStill(drop)   == asked
NudgeNobody        == UNCHANGED nudged
ToldNobody(places) == places

AskedWithout(drop) == {a \in asked : a.question \notin drop}
First(q, queue)    == q \in queue /\ \A r \in queue : q <= r

(* nudge_if_parked, and the condition variable's notify_all.               *)
NudgeIfParked == nudged' = (nudged \/ \E a \in asked : a.parked)
Told(places)  == [s \in Shares |-> IF places[s] = "waiting" THEN "turning" ELSE places[s]]

-----------------------------------------------------------------------------
(* The window thread asks: a question mailed to the read worker.           *)
Mail(t) ==
    /\ app = "idle" /\ mailed < MaxQuestions /\ reader # "ended"
    /\ mailed' = mailed + 1
    /\ target' = [target EXCEPT ![mailed + 1] = t]
    /\ inbox' = inbox \cup {mailed + 1}
    /\ before' = [before EXCEPT ![mailed + 1] = pressed]
    /\ UNCHANGED <<app, drainVars, ringing, responses, shareVars, workVars, verbVars, turnVars,
                   nudged, readVars, ran, saw, filedVars>>

(* GitMutationLane::ask_through for a repository the lane holds no share   *)
(* of: one is made and its ledger given to the turnstile; ...              *)
PressMakes(f) ==
    /\ app = "idle" /\ pressed < MaxVerbs /\ made < MaxShares
    /\ \A s \in live : root[s] # f
    /\ made' = made + 1
    /\ root' = [root EXCEPT ![made + 1] = f]
    /\ live' = live \cup {made + 1}
    /\ known' = known \cup {made + 1}
    /\ worker' = Told(worker)
    /\ app' = "pressing"
    /\ UNCHANGED <<drainVars, ringing, responses, current, fault, verbVars, asked, reading,
                   running, mailVars, nudged, readVars, before, ran, saw, filedVars>>

(* ... Queue::ask, of that share or of the one held: admitted and put in   *)
(* line, the worker started by the first (LaneQueue takes it apart).       *)
Press(s) ==
    /\ app = "idle" \/ (app = "pressing" /\ s = made)
    /\ s \in live /\ pressed < MaxVerbs
    /\ s \notin fault /\ Cardinality(Entries(s)) < Bound
    /\ pressed' = pressed + 1
    /\ verb' = [verb EXCEPT ![pressed + 1] = "owed"]
    /\ shareOf' = [shareOf EXCEPT ![pressed + 1] = s]
    /\ minted' = [minted EXCEPT ![s] = pressed + 1]
    /\ worker' = [worker EXCEPT ![s] = IF @ \in {"unstarted", "asleep"} THEN "looking" ELSE @]
    /\ app' = "idle"
    /\ UNCHANGED <<drainVars, ringing, responses, shareVars, current, fault, turnVars,
                   mailVars, nudged, readVars, before, ran, saw, filedVars>>

(* The thread door starts no worker for the share just made: it stays, for *)
(* the next press.  (A press refused by a share that is full, or whose     *)
(* worker has ended, changes nothing.)                                     *)
PressRefused ==
    /\ app = "pressing"
    /\ app' = "idle"
    /\ UNCHANGED <<drainVars, ringing, responses, shareVars, workVars, verbVars, turnVars,
                   mailVars, nudged, readVars, before, ran, saw, filedVars>>

-----------------------------------------------------------------------------
(* The drain, on a wake (drain_git_answers, GitMutationLane::ended).  For  *)
(* each share, the requests whose page has gone are let go, and every      *)
(* terminal below the share's mark is taken; ...                           *)
DrainBegins ==
    /\ app = "idle" /\ ringing
    /\ ringing' = FALSE
    /\ todo' = live
    /\ app' = "draining"
    /\ UNCHANGED <<receipts, responses, shareVars, workVars, verbVars, turnVars,
                   mailVars, nudged, readVars, before, ran, saw, filedVars>>

Takeable(s, gone) ==
    {v \in VerbsOf(s) \ gone : verb[v] = "kept" /\ ~OwesUpTo(s, v)}

DrainTakes(s) ==
    /\ app = "draining" /\ s \in todo
    /\ \E gone \in SUBSET {v \in VerbsOf(s) : verb[v] \in {"owed", "kept"}} :
          /\ verb' = [v \in Verbs |->
                        IF v \in gone THEN (IF verb[v] = "owed" THEN "orphan" ELSE "sunk")
                        ELSE IF v \in Takeable(s, gone) THEN "taken" ELSE verb[v]]
          /\ receipts' = receipts \cup Takeable(s, gone)
    /\ todo' = todo \ {s}
    /\ UNCHANGED <<app, ringing, responses, shareVars, workVars, pressed, shareOf, minted, turnVars,
                   mailVars, nudged, readVars, before, ran, saw, filedVars>>

(* What is owed no longer asked: a share that holds no request is let go.  *)
IdleUnowed == {s \in live : \A v \in VerbsOf(s) : verb[v] \notin {"owed", "kept"}}

(* ... a share that holds nothing and owes nothing is let go, then ...     *)
Idle == {s \in live : Entries(s) = {}}

DrainSettles ==
    /\ app = "draining" /\ todo = {}
    /\ live' = live \ Idle
    /\ app' = "forgetting"
    /\ UNCHANGED <<drainVars, ringing, responses, made, root, workVars, verbVars, turnVars,
                   mailVars, nudged, readVars, before, ran, saw, filedVars>>

(* ... forgotten by the turnstile and its line closed; ...                 *)
Leaving == known \ live

Forget(s) ==
    /\ app = "forgetting" /\ s \in Leaving
    /\ known' = known \ {s}
    /\ worker' = [Told(worker) EXCEPT ![s] = IF @ = "asleep" THEN "looking" ELSE @]
    /\ UNCHANGED <<app, drainVars, ringing, responses, shareVars, current, fault, verbVars,
                   asked, reading, running, mailVars, nudged, readVars, before, ran, saw,
                   filedVars>>

(* One answer taken from the channel, and not all there are.               *)
OneDrained == {q \in responses : \A r \in responses : q <= r}

Drained == responses

(* ... then the read worker's channel is emptied, its answers filed and    *)
(* the receipts last.                                                      *)
File ==
    /\ app = "forgetting" /\ Leaving = {}
    /\ filed' = filed \cup Drained
    /\ saw' = [q \in Questions |-> IF q \in Drained THEN {} ELSE saw[q]]
    /\ responses' = responses \ Drained
    /\ told' = told \cup receipts
    /\ receipts' = {}
    /\ app' = "idle"
    /\ UNCHANGED <<todo, ringing, shareVars, workVars, verbVars, turnVars, mailVars, nudged,
                   readVars, before, ran>>

-----------------------------------------------------------------------------
(* The read worker (run_git_worker, PendingGitRequests).                   *)

(* It empties its channel, at the top of its loop and with a question in   *)
(* hand: each question mailed replaces an older one of its target, in line *)
(* or parked, whose ticket is dropped.  A nudge has only to be there.      *)
Post ==
    /\ reader = "draining"
    /\ \E q \in Questions :
          LET older == {r \in Questions : target[r] = target[q]}
          IN  /\ First(q, inbox)
              /\ inbox' = inbox \ {q}
              /\ line' = (line \ older) \cup {q}
              /\ parked' = parked \ older
              /\ asked' = AskedWithout(parked \cap older)
    /\ worker' = Told(worker)
    /\ UNCHANGED <<app, drainVars, ringing, responses, shareVars, current, fault, verbVars,
                   known, reading, running, mailed, target, nudged, reader, question, at,
                   before, ran, saw, filedVars>>

(* A question in hand that a newer one in line has replaced is dropped.    *)
Posted ==
    /\ reader = "draining" /\ inbox = {}
    /\ nudged' = FALSE
    /\ at' = None
    /\ IF question # None /\ \A r \in line : target[r] # target[question]
       THEN reader' = "asking" /\ UNCHANGED question
       ELSE reader' = "looking" /\ question' = None
    /\ UNCHANGED <<app, drainVars, ringing, responses, shareVars, workVars, verbVars, turnVars,
                   mailVars, line, parked, before, ran, saw, filedVars>>

(* ReadTicket::begin: the read's turn, if it has come (its ticket, dropped,*)
(* tells the verbs); else it is parked.                                    *)
BeginRead(q) ==
    /\ ~ReadWaits(q)
    /\ asked' = AskedWithout({q})
    /\ reading' = reading \cup {Folder(q)}
    /\ worker' = Told(worker)
    /\ saw' = [saw EXCEPT ![q] = ran]
    /\ question' = q /\ at' = None
    /\ reader' = "reading"

(* The read worker waits for the turn itself.                              *)
ParkNever(q) == FALSE

ParkRead(q) ==
    /\ ReadWaits(q)
    /\ asked' = AskedWithout({q}) \cup
                 {[a EXCEPT !.parked = TRUE] : a \in {b \in asked : b.question = q}}
    /\ question' = None
    /\ reader' = "looking"
    /\ UNCHANGED <<reading, worker, saw>>

Unlooked == {q \in parked : at < q}

(* next_turn looks at its parked reads, the earliest parked first.         *)
LookAtParked ==
    /\ reader = "looking"
    /\ \E q \in Questions :
          /\ First(q, Unlooked)
          /\ \/ ParkRead(q) /\ at' = q /\ UNCHANGED parked
             \/ BeginRead(q) /\ parked' = parked \ {q}
    /\ UNCHANGED <<app, drainVars, ringing, responses, shareVars, current, fault, verbVars, known,
                   running, mailVars, nudged, line, before, ran, filedVars>>

(* None began: the next question in line is taken in hand, if there is one;*)
(* else the worker waits for mail.                                         *)
TakeQuestion ==
    /\ reader = "looking" /\ Unlooked = {}
    /\ \E q \in Questions : First(q, line) /\ question' = q /\ line' = line \ {q}
    /\ reader' = "draining"
    /\ UNCHANGED <<app, drainVars, ringing, responses, shareVars, workVars, verbVars, turnVars,
                   mailVars, nudged, parked, at, before, ran, saw, filedVars>>

WaitForMail ==
    /\ reader = "looking" /\ Unlooked = {} /\ line = {}
    /\ reader' = "waiting"
    /\ UNCHANGED <<app, drainVars, ringing, responses, shareVars, workVars, verbVars, turnVars,
                   mailVars, nudged, line, parked, question, at, before, ran, saw, filedVars>>

Receive ==
    /\ reader = "waiting" /\ (inbox # {} \/ nudged)
    /\ reader' = "draining"
    /\ UNCHANGED <<app, drainVars, ringing, responses, shareVars, workVars, verbVars, turnVars,
                   mailVars, nudged, line, parked, question, at, before, ran, saw, filedVars>>

AskedNow(q, s, last) ==
    [question |-> q, folder |-> Folder(q), behind |-> s, last |-> last, parked |-> FALSE]

Holding(f) == {s \in known : root[s] = f /\ minted[s] # None}

(* RepoTurns::ask: the read waits for every verb its repository's share    *)
(* has minted now, and a verb pressed from now on waits for it.            *)
AskTurn ==
    /\ reader = "asking"
    /\ LET held == Holding(Folder(question))
       IN  \/ held = {} /\ asked' = asked \cup {AskedNow(question, None, None)}
           \/ \E s \in held : asked' = asked \cup {AskedNow(question, s, minted[s])}
    /\ reader' = "beginning"
    /\ UNCHANGED <<app, drainVars, ringing, responses, shareVars, workVars, verbVars, known,
                   reading, running, mailVars, nudged, line, parked, question, at,
                   before, ran, saw, filedVars>>

BeginOrPark ==
    /\ reader = "beginning"
    /\ \/ ParkRead(question) /\ parked' = parked \cup {question} /\ at' = None
       \/ BeginRead(question) /\ UNCHANGED parked
    /\ UNCHANGED <<app, drainVars, ringing, responses, shareVars, current, fault, verbVars, known,
                   running, mailVars, nudged, line, before, ran, filedVars>>

(* The answer sent, with the folder still marked, and the loop woken; ...  *)
Answer ==
    /\ reader = "reading"
    /\ responses' = responses \cup {question}
    /\ ringing' = TRUE
    /\ reader' = "answered"
    /\ UNCHANGED <<app, drainVars, shareVars, workVars, verbVars, turnVars, mailVars, nudged,
                   line, parked, question, at, before, ran, saw, filedVars>>

(* ... then the mark comes off (Drop for Reading).                         *)
ReadOver ==
    /\ reader = "answered"
    /\ reading' = reading \ {Folder(question)}
    /\ worker' = Told(worker)
    /\ before' = [before EXCEPT ![question] = 0]
    /\ question' = None
    /\ reader' = "draining"
    /\ UNCHANGED <<app, drainVars, ringing, responses, shareVars, current, fault, verbVars,
                   known, asked, running, mailVars, nudged, line, parked, at, ran, saw,
                   filedVars>>

(* The reading panics: its mark and every ticket parked come off as the    *)
(* worker unwinds, its channels close, and the loop is woken.              *)
ReaderPanics ==
    /\ reader = "reading"
    /\ reading' = reading \ {Folder(question)}
    /\ asked' = AskedWithout(parked)
    /\ worker' = Told(worker)
    /\ inbox' = {} /\ line' = {} /\ parked' = {} /\ question' = None
    /\ reader' = "ended"
    /\ ringing' = TRUE
    /\ UNCHANGED <<app, drainVars, responses, shareVars, current, fault, verbVars, known,
                   running, mailed, target, nudged, at, before, ran, saw, filedVars>>

-----------------------------------------------------------------------------
(* A share's worker (Queue::serve, and verb_turn inside its task).         *)

Pop(s) ==
    /\ worker[s] = "looking"
    /\ \E v \in Verbs : First(v, InLine(s)) /\ current' = [current EXCEPT ![s] = v]
    /\ worker' = [worker EXCEPT ![s] = "turning"]
    /\ UNCHANGED <<app, drainVars, ringing, responses, shareVars, fault, verbVars, turnVars,
                   mailVars, nudged, readVars, before, ran, saw, filedVars>>

Sleep(s) ==
    /\ worker[s] = "looking" /\ InLine(s) = {} /\ s \in known
    /\ worker' = [worker EXCEPT ![s] = "asleep"]
    /\ UNCHANGED <<app, drainVars, ringing, responses, shareVars, current, fault, verbVars,
                   turnVars, mailVars, nudged, readVars, before, ran, saw, filedVars>>

(* verb_turn: the verb waits, or its mark goes on and it runs.             *)
WaitTurn(s) ==
    /\ worker[s] = "turning" /\ VerbWaits(s)
    /\ worker' = [worker EXCEPT ![s] = "waiting"]
    /\ UNCHANGED <<app, drainVars, ringing, responses, shareVars, current, fault, verbVars,
                   turnVars, mailVars, nudged, readVars, before, ran, saw, filedVars>>

(* The condition variable may wake it for no reason: it looks again.       *)
Stir(s) ==
    /\ worker[s] = "waiting"
    /\ worker' = [worker EXCEPT ![s] = "turning"]
    /\ UNCHANGED <<app, drainVars, ringing, responses, shareVars, current, fault, verbVars,
                   turnVars, mailVars, nudged, readVars, before, ran, saw, filedVars>>

TakeTurn(s) ==
    /\ worker[s] = "turning" /\ ~VerbWaits(s)
    /\ worker' = [worker EXCEPT ![s] = "running"]
    /\ running' = running \cup {s}
    /\ UNCHANGED <<app, drainVars, ringing, responses, shareVars, current, fault, verbVars,
                   known, asked, reading, mailVars, nudged, readVars, before, ran, saw,
                   filedVars>>

(* The verb is over, or its work unwound (Drop for Running).               *)
VerbOver(s) ==
    /\ worker[s] = "running"
    /\ running' = running \ {s}
    /\ ran' = ran \cup {current[s]}
    /\ NudgeIfParked
    /\ worker' = [Told(worker) EXCEPT ![s] = "publishing"]
    /\ UNCHANGED <<app, drainVars, ringing, responses, shareVars, current, fault, verbVars,
                   known, asked, reading, mailVars, readVars, before, saw, filedVars>>

(* What a verb's end makes of its request: kept for its page, or sunk.     *)
EndOf(v) == IF verb[v] = "owed" THEN "kept" ELSE "sunk"

Publish(s) ==
    /\ worker[s] = "publishing"
    /\ verb' = [verb EXCEPT ![current[s]] = EndOf(current[s])]
    /\ current' = [current EXCEPT ![s] = None]
    /\ worker' = [worker EXCEPT ![s] = "telling"]
    /\ UNCHANGED <<app, drainVars, ringing, responses, shareVars, fault, pressed, shareOf, minted,
                   turnVars, mailVars, nudged, readVars, before, ran, saw, filedVars>>

(* The wake: the turnstile told first (RepoTurns::changed), then the loop. *)
Tell(s) ==
    /\ worker[s] = "telling"
    /\ NudgeIfParked
    /\ worker' = [Told(worker) EXCEPT ![s] = "ringing"]
    /\ UNCHANGED <<app, drainVars, ringing, responses, shareVars, current, fault, verbVars,
                   turnVars, mailVars, readVars, before, ran, saw, filedVars>>

Ring(s) ==
    /\ worker[s] = "ringing"
    /\ ringing' = TRUE
    /\ worker' = [worker EXCEPT ![s] = IF s \in fault THEN "ended" ELSE "looking"]
    /\ UNCHANGED <<app, drainVars, responses, shareVars, current, fault, verbVars, turnVars,
                   mailVars, nudged, readVars, before, ran, saw, filedVars>>

AfterPanic(s) == IF Owed(s) = {} THEN "ended" ELSE "telling"

(* A panic outside any task: everything owed ends, and its end wakes when  *)
(* it left anything owed (Ledger::worker_ended).                           *)
Panic(s) ==
    /\ worker[s] = "looking"
    /\ fault' = fault \cup {s}
    /\ verb' = [v \in Verbs |-> IF v \in Owed(s) THEN EndOf(v) ELSE verb[v]]
    /\ worker' = [worker EXCEPT ![s] = AfterPanic(s)]
    /\ UNCHANGED <<app, drainVars, ringing, responses, shareVars, current, pressed, shareOf, minted,
                   turnVars, mailVars, nudged, readVars, before, ran, saw, filedVars>>

(* The line closed and empty.                                              *)
Return(s) ==
    /\ worker[s] = "looking" /\ InLine(s) = {} /\ s \notin known
    /\ fault' = fault \cup {s}
    /\ worker' = [worker EXCEPT ![s] = "ended"]
    /\ UNCHANGED <<app, drainVars, ringing, responses, shareVars, current, verbVars, turnVars,
                   mailVars, nudged, readVars, before, ran, saw, filedVars>>

-----------------------------------------------------------------------------
WindowAsks == \/ \E t \in Targets : Mail(t)
              \/ \E f \in Folders : PressMakes(f)
              \/ \E s \in Shares : Press(s)

WindowGoesOn ==
    \/ PressRefused
    \/ DrainBegins \/ DrainSettles \/ File
    \/ \E s \in Shares : DrainTakes(s) \/ Forget(s)

ReaderGoesOn ==
    \/ Post \/ Posted \/ LookAtParked \/ TakeQuestion \/ WaitForMail \/ Receive
    \/ AskTurn \/ BeginOrPark \/ Answer \/ ReadOver

WorkerGoesOn(s) ==
    \/ Pop(s) \/ Sleep(s) \/ WaitTurn(s) \/ TakeTurn(s) \/ VerbOver(s) \/ Publish(s)
    \/ Tell(s) \/ Ring(s) \/ Return(s)

Next ==
    \/ WindowAsks \/ WindowGoesOn
    \/ ReaderGoesOn \/ ReaderPanics
    \/ \E s \in Shares : WorkerGoesOn(s) \/ Stir(s) \/ Panic(s)

(* A thread that can run runs: a reading ends (one git child, bounded by   *)
(* its timeout), and the event loop comes to its wakes.  A verb that has   *)
(* begun may run for ever; what needs it to end says so (VerbsReturn).     *)
Fairness ==
    /\ WF_vars(WindowGoesOn)
    /\ WF_vars(ReaderGoesOn)
    /\ \A s \in Shares : WF_vars(worker[s] # "running" /\ WorkerGoesOn(s))

Spec == Init /\ [][Next]_vars
FairSpec == Spec /\ Fairness

VerbsReturn == \A s \in Shares : []<>(worker[s] # "running")

-----------------------------------------------------------------------------
(* What the turns keep true.                                               *)

(* "One repository never has two workers with verbs": two verbs of one     *)
(* repository never run at once, though its shares come and go             *)
(* (GitMutationLane::ask_through, ended; Queue::serve).                    *)
OneVerbAtATime ==
    \A s, r \in running : root[s] = root[r] => s = r

(* "Whose turn a repository is: the read worker's, or its mutation         *)
(* share's, never both" (RepoTurns).                                       *)
NeverBoth == \A s \in running : root[s] \notin reading

(* "A read asked after a press never runs in the middle of that verb": a   *)
(* reading runs only when every verb of its repository pressed before the  *)
(* question was mailed has ended (RepoTurns::ask, read_waits).             *)
ReadsFollowPresses ==
    reader \in {"reading", "answered"} =>
        \A v \in 1..before[question] :
            root[shareOf[v]] = Folder(question) => v \notin Owed(shareOf[v])

(* "A verb pressed after the read was asked waits for the read": a verb    *)
(* runs only while every read of its repository asked and not run waits    *)
(* for that verb (RepoTurns::ask, verb_waits, forget).                     *)
PressesFollowReads ==
    \A s \in running : \A a \in asked :
        a.folder = root[s] => a.behind = s /\ current[s] <= a.last

(* "No verb waits on a read that will not run": a read asked of the        *)
(* turnstile is one the read worker has in hand or parked (Drop for        *)
(* ReadTicket, push_latest, and the worker's end).                         *)
AskedWillRun ==
    \A a \in asked : \/ a.question \in parked
                     \/ reader = "beginning" /\ a.question = question

(* A worker that waits has a read to wait for, and the read worker, before *)
(* it waits for mail, has seen that each read it parked waits, or will be  *)
(* nudged: what lets a verb or a read go on has told it, and nobody's wake *)
(* is lost (verb_turn, next_turn, nudge_if_parked, changed).               *)
NoTurnIsMissed ==
    /\ \A s \in Shares : worker[s] = "waiting" => VerbWaits(s)
    /\ reader = "waiting" /\ ~nudged =>
          \A q \in parked : \/ ReadWaits(q)
                            \/ \E s \in Shares : worker[s] = "telling" /\ root[s] = Folder(q)

(* The threads with nothing to do but wait.                                *)
ReaderRests == reader = "ended" \/ (reader = "waiting" /\ inbox = {} /\ ~nudged)

WorkerRests(s) ==
    \/ worker[s] \in {"unstarted", "asleep", "waiting", "ended"}
    \/ worker[s] = "turning" /\ VerbWaits(s)
    \/ worker[s] \in {"looking", "ringing"} /\ InLine(s) = {}

(* Reads and verbs of one repository never wait for each other: while a    *)
(* verb of it waits for reads, or a read of it for verbs, the read worker  *)
(* or a worker of that repository goes on, whatever the others do (Asked:  *)
(* the verbs ahead of a read are fixed when it asks; verb_waits lets those *)
(* through, and read_waits no others).                                     *)
NoCircularWait ==
    \A f \in Folders :
        \/ ~ReaderRests
        \/ \E s \in Shares : root[s] = f /\ ~WorkerRests(s)
        \/ /\ \A s \in Shares : root[s] = f =>
                  worker[s] # "waiting" /\ ~(worker[s] = "turning" /\ VerbWaits(s))
           /\ \A q \in parked : Folder(q) # f

(* "A reading taken before a verb never lands after the verb's receipt has *)
(* asked the repository again" (drain_git_answers; the answer is sent with *)
(* the folder marked, receipts are taken first and filed last).            *)
NoStaleReading ==
    [][\A q \in filed' \ filed : \A v \in told \cap ran :
          root[shareOf[v]] = Folder(q) => v \in saw[q]]_vars

(* Every question mailed is answered to its window, or replaced by a newer *)
(* one of its target, unless the read worker dies or a verb never ends: no *)
(* nudge is lost, and no read waits for a verb that waits for it           *)
(* (next_turn, changed).                                                   *)
QuestionsAreAnswered ==
    VerbsReturn => \A q \in Questions :
        q <= mailed ~> \/ q \in filed \/ reader = "ended"
                       \/ \E r \in (q + 1)..mailed : target[r] = target[q]

(* "Another folder's questions are answered meanwhile": while a verb of    *)
(* one repository runs without end, the questions of a repository nothing  *)
(* was pressed on are answered (ReadTicket::begin never waits; next_turn). *)
OthersAreAnsweredMeanwhile ==
    \A q \in Questions :
        q <= mailed ~> \/ q \in filed \/ reader = "ended"
                       \/ \E r \in (q + 1)..mailed : target[r] = target[q]
                       \/ \E v \in 1..pressed : root[shareOf[v]] = Folder(q)

(* Every verb pressed ends when no verb runs for ever, whether or not the  *)
(* read worker or the share's own worker dies (verb_turn, Drop for         *)
(* ReadTicket, worker_ended).                                              *)
VerbsEnd ==
    VerbsReturn => \A v \in Verbs : verb[v] \in {"owed", "orphan"} ~> verb[v] \notin {"owed", "orphan"}
=============================================================================
