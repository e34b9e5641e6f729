# TLA+ for Folio Terminal

Models, model checks and machine-checked proofs of the concurrent core of Folio Terminal.
The terminal draws on one window thread and does everything that may wait (git, the clipboard,
the disk, resampling pictures, walking the installed programs) on lanes: a line of requests, one
worker thread, a ledger of who is owed what, and a wake that brings the window thread back. These
modules say what those lanes promise and show that the code's protocol keeps it. Two more follow
what Folio must not lose through such a lane: the documents a person also edits by hand, and the
session. One follows Folio's own update, from the hand-off to its end, through processes that die
and power that fails, and one the claim by which one Folio is the writer of a data directory.

Paths below are under `crates/bt-app/src/` unless they name another crate.

## 1. The system's parts

| part | state it keeps | operations | talks to | what is hard | what makes it correct |
|---|---|---|---|---|---|
| completion ledger (`lane.rs`: `Ledger`, `Request`, `Mark`) | `Book`: entries by identity (joined to whom, terminal, requester gone), last identity, fault, streak | `admit`, `admit_joined`, `publish`, `worker_ended`, `take`, the drop of a `Request`, `drain_mark` | every lane; a sink; the failure log | three threads' calls interleave; lines, sinks and the wake leave the lock and are released after it | each request ends once and reaches one reader once; a join ends with its operation; a failure is said |
| queue lane (`lane.rs`: `Queue`, `Executor`) | the line, closed | `ask` with joins and displacement, `withdraw`, `supersede_and_take`, `close`, `serve` | ledger, wake | two locks taken one after the other; withdraw against the worker; wake against drain | answers in admission order; nothing stranded; everything answered though the worker dies |
| coalescing lane (`lane.rs`: `Coalescing`) | the run waiting, displaced requests not counted | `ask`, `next`, `count_arrivals`, `ended` | ledger, wake | a run displaced with requests joined to it; a question asked while a run is out | the runs standing answer everything owed; answers are never older than the question |
| computation lane (`computation_lane.rs`) | one queue per share | `scale_through` and its siblings, `ended` | queue lane | displaced requests hold the bound | see queue lane |
| clipboard lane (`clipboard_lane.rs`, `runtime/clipboard.rs`) | each window's owed pastes and copies | `submit`, `withdraw`, `supersede`, `answered`; the paste hold and its deadline | queue lane, windows | withdraw against a late answer; order across windows | see queue lane; a paste lands once and in order |
| program walk, taskbar lane, font lane (`programs_lane.rs`, `taskbar_lane.rs`, `settings.rs`) | the lane's answer kept by the newest identity it answers | `ask`, `take` | coalescing lane | see coalescing lane | see coalescing lane |
| git mutation lane and read turns (`git_mutation_lane.rs`, `git.rs`, the drain in `main.rs`) | the turnstile (shares held, reads asked, repositories being read, verbs running); shares by generation; the read worker's line and parked reads | press (`ask_through`), verb turn, read ask and begin, nudge, answer, drain (`ended`, `drain_git_answers`), forget | a queue lane per share, the read worker's channel, the wake | what a share owes changes outside the turnstile's lock; shares forgotten and made again; a read replaced or its worker dead while verbs wait on it; a nudge against the wait for mail | one verb of a repository at a time and never beside a read of it; turns in the order asked and pressed; nobody waits for ever; an old reading never lands after a receipt |
| document writes (`document_request.rs`, the `*_merge.rs`) | desired and last known document, one write and one read out, merges waiting, the hold, copies kept | `desire`, `send_owed`, `answered`, the conditional write with its exchange, merge, hold, the ear's pass, the quit's documents | storage worker, the person's editor | an answer older than what is desired now; the file changed between the check and the exchange; a file that does not parse | no hand edit undone or lost; an owed change never without a trigger |
| session store (`persist.rs`, `bt-persist`) | the document, the generation sent, receipts, stalled, the sentinel | mark dirty, flush, take receipts, flush for quit, close, the system's end asked and taken back | writer thread, disk | stale receipts; the flush budget at quit; a worker that ended | nothing unowed is missing from the disk; the sentinel goes only over a document on disk |
| self-update (`update_txn.rs`, `update_apply*.rs`, `update_startup.rs`, `update_trial.rs`, `update_recover.rs`, `bt-platform/src/install_*.rs`) | the journal, the transaction lock, the two sets of files in four folders, the entrance at logon, the trials' receipts | arm, move, trial, commit, roll back, stay stuck and retry, retire; survey and adopt; the exit guard's start; the last trial reserved | the next process, the person, the system | any process dies between two durable steps; a receipt comes while its deadline passes; an adopted trial, a planned one and a retried one | always one whole set to start; a commit only over the new set; a logon can always resume |
| instance and launch (`bt-platform/src/instance.rs`, `launch_pipe.rs`, `launch_wire.rs`, `handoff_lane.rs`) | the lock file and its name, the sweep's guard, the sockets' names; each process's table of claims | claim, adopt, let go, sweep; bind the doors; hand over a launch | other processes, an update's waits | open, lock, check and unlink are four system calls of many processes; a refusal is remembered for a process's life | one writer; none refused by a sweep; the doors are the writer's |
| quit (`quit.rs`, `session_end.rs`) | what is waited for | ask, cancel, end | session store, windows | the session ends while something waits | saved or said |
| pty birth (`pty_door.rs`, `bt-pty`) | panes being born | ask, answer, close | the system | the pane closes during the birth | no orphan process |
| attention (`attention_*.rs`) | who owns a notification | raise, own, settle | agents, windows | reports out of order | one owner, cleared once |
| watchers (`watch_steward.rs`, `storage_watch.rs`, `git_watch.rs`, `files_watch.rs`) | ears, numbered reports | want, report, take | file system | a change between arming and reading | no change unheard |
| web host (`webhost.rs`, `web_spare.rs`) | pages, the spare page | create, retire | an embedded browser | callbacks after retirement | external behaviour |
| terminal core (`bt-term`, `bt-transcript`, `bt-viewport`) | grid, scrollback | bytes in | pty | long inputs | sequential; replayed corpora |
| layout (`bt-layout`) | the pane tree | solve, edit | window | arithmetic | property tests |
| detection, mathematics, documents, drawing (`bt-detect`, `bt-math`, `bt-doc`, `bt-compose`, `bt-effects`, `bt-render`, `bt-workbench`, `bt-unicode`) | caches | pure functions | window | large inputs | tests over corpora |
| source guards and build helpers (`bt-source`, `bt-lint-probe`, `bt-testpath`, `bt-winres`) | none at run time | lints | build | | |

How a lane's parts interact. The window thread calls `ask`; under the line's lock the request is
admitted by the ledger (its own lock) and its job put in line; after the unlock the condition
variable is signalled. The worker takes a job under the line's lock, runs it with no lock, publishes
its terminal into the ledger, and then calls the wake, which posts one event to the window thread.
On that event the window thread reads the ledger's *mark*, the earliest identity still owed, and
takes every terminal below it. A requester that goes away drops its `Request`; its terminal then
goes to the lane's sink, now or when it comes. When the worker's body returns or panics the ledger
ends everything owed and the lane admits nothing more.

## 2. Modules

| module | models | kind |
|---|---|---|
| `LaneBook` | `Book` and every operation of `Ledger` on it, as operators from a book to a book | operators, shared by the lanes |
| `LaneLedger` | the ledger and its threads; what leaves the lock released step by step | state machine |
| `LaneQueue` | `Queue`, the executor's worker, a window thread with its drain | state machine over `LaneBook` |
| `LaneCoalescing` | `Coalescing`, its worker, the window thread's take | state machine over `LaneBook` |
| `GitTurns` | the turnstile, the read worker, the shares' workers and the window thread's presses, questions and drain | state machine |
| `DocumentWrites` | one hand-editable document: the store, the storage worker's conditional write and read, the merge, the ear, the quit, and the person's editor | state machine |
| `SessionWriter` | the session document: the store, the writer thread, the quits, the close, the sentinel and the next start's reading of it | state machine |
| `UpdateTransaction` | one update on Windows: the applier, the rescue build, trials, exit guards, the person and the power | state machine |
| `InstanceClaim` | the claim on one data directory by files and their locks (the Unix arm), the table over it, the sweep, the doors, an update's waits | state machine |
| `DirectoryClaim` | the claim as one kernel object (the Windows arm), with the table over it | abstract specification |
| `Completion` | the promise of the module doc of `lane.rs`: admitted, ended once, heard once by one reader | abstract specification |
| `MCLaneLedger`, `MCLaneQueue`, `MCProgramWalk`, `MCGitTurns`, `MCDocumentWrites`, `MCSessionWriter`, `MCUpdateTransaction`, `MCInstanceClaim` | instances of those, with the callers' relations | model checking |
| `LaneBookProofs`, `LaneLedgerProofs`, `LaneCoalescingProofs`, `GitTurnsProofs`, `DocumentWritesProofs`, `SessionWriterProofs`, `UpdateTransactionProofs`, `InstanceClaimProofs` | proofs | TLAPS |

### How state and actions correspond to the code

*The book* (`LaneBook`). `place[i]` says where identity `i` is: `unminted`; `owed` (an entry without
a terminal); `kept` (an entry with one); `taken` or `sunk` (removed from the map; the terminal is
kept as history). `gone`, `twin`, `terminal`, `fault` and `streak` are the fields of the same names.
`Terminal::Joined` is flattened: `with` names the operation and the rest is its outcome, which the
code guarantees because `admit_joined` joins the first of a chain. Answers have no value, and
failures only the words that tell one streak from another. A refused call changes nothing and is a
stutter. `bound: None` is a bound no behaviour reaches.

*Steps.* One action is one hold of one lock, or one effect made outside any lock. `LaneLedger` takes
`Out` apart (each line said, each sink called, the wake); `LaneQueue` and `LaneCoalescing`, whose
subject is the line and the drain, take those as part of the step that releases them.

*The window thread* is a program counter `app`: an `ask` locks the line, admits, joins, displaces,
unlocks, notifies, and wakes for a displacement, each a step of its own; likewise withdrawing and
draining. It does one thing at a time, as one thread does. *The worker* is a program counter
`worker`. The condition variable's wait set is `worker = "asleep"`; spurious wakes are `Stir`. The
wake is one flag `ringing`, because events of one kind fold in the window thread's queue.

*Policies.* The lanes that use the queue differ in `Relate` (joined, displacing or neither),
`ChecksOwed` (`run_clipboard_lane` asks the ledger before the work), `Withdraws` and
`TakesSupersededPast` (`ShareOf::ended`). The constant `Policies` gives each lane its own, and
`lane`, chosen in the initial state and never changed, says which lane a behaviour is of.

*The git turns* (`GitTurns`). `known`, `asked`, `reading` and `running` are `TurnState`'s fields
(`known` its `shares`; `running` names the share where the code keeps its folder, and `reading` is
a set because the one read worker reads one folder at a time); an element of
`asked` is an `Asked` whose `behind` is the share rather than its ledger. One action is one hold of
the turnstile's lock, of a ledger's or of a line's, or one message. What a share *owes*
(`Ledger::earliest_owed`) is read when the turnstile is looked at and changes between two looks, as
in the code. A share's queue and ledger are those of `LaneQueue` with nothing related and nothing
withdrawn, so its verbs run in the order pressed, and its line is read off the verbs instead of being
carried; a verb is named by its press, which orders the verbs of one share as its ledger's numbers
do. A question is named by its mail: every queue it stands in is joined at the back in that order and
nothing overtakes, so a queue is a set whose head is its least member. `Targets` are what
`same_target` tells apart. The read worker is the loop of `run_git_worker` and `next_turn`: `Post`
is one message of `drain_channel`, `Posted` the channel found empty and the question in hand kept or
dropped, `LookAtParked` one parked ticket's `begin`, `AskTurn` and `BeginOrPark` the ask and the
first `begin` of the question in hand. `Answer` sends with the folder still marked; `ReadOver` takes
the mark off. `ReaderPanics` is the worker unwinding while it reads. The window's drain takes each share's terminals
(`DrainTakes`: the mark read and the terminals taken are one step, as only this thread takes), lets
idle shares go (`DrainSettles`), has the turnstile forget each and its line close (`Forget`), and
then empties the read channel and files the receipts last (`File`). Pages that have gone are a
choice at each share's drain. A verb's own outcome, and what a reading says, have no value. A press
that a full or faulted share refuses changes nothing and is no step. A
repository is a folder, as `same_folder` tells folders apart.

*A hand-editable document* (`DocumentWrites`). `store` is `DocumentState` field by field; the write
and the read that are out carry the step they have reached. A document gives each unit a value and
its bytes are the document: spelling, formatting and the migration of old schemas are left out, and
a file that does not parse is `Broken`, one that is missing `NoFile`. `Revision` is the bytes. The
storage worker serves the requests in the order they were sent (`latest` names the newer of the
two), and its conditional write is two steps: the precondition checked (`Check`), then the exchange
(`Place`, `Displace`, `PlaceUndurably`, `DisplaceUnread`), with the editor free in between and able to save under a
read (`FindRaced`, `RaceRead`). A turn of the window thread is cut at each answer heard (`Hear`) and
each file merged (`MergeOne`), because the worker and the editor act between them and the turn
touches nothing but the store. `Place` retires the copies whose version the landing carries;
`Displace` and `PlaceUndurably` leave one, and so does `DisplaceUnread`, where what was displaced cannot be
read back: the store hears of a landing and not of the copy. A read whose job failed or whose worker has
gone (`"failed"`) is not something the ear has heard, and owes no retry. Three of the four history variables say what the code cannot
know: `claim`, the person's edit of a unit that nothing sent before it may undo; `safe`, the copies
whose units a durable landing carried; `dropped`, that the person chose to leave without a change
that was owed. The fourth, `behind`, is whether the last press found the store held by displaced
copies alone, none of which will parse. The person's editor saves any one unit changed, a broken file,
or deletes the file; with `Returns` it may also save again bytes Folio still holds (`Known`: the file's
and the revision, what the write is conditional on, what an answer or the merge's line has of the file),
which the code's comparison by content cannot tell from what it has seen.

*The session* (`SessionWriter`). A document is the number of changes it holds. `store` is
`SessionStore` with its writer's bookkeeping (`sent`, `landed`, `answered`, `ended`, `stalled`),
`lane` the storage lane's queue, worker and receipts. What the window thread stands still for on
the way out is `wait`; a bound that runs out is a fault. `HandOver` is every road to
`send_to_the_writer` that does not wait, `FlushJudged` those that do. The system's news arrive
between two turns (`Says`), and all that has arrived is settled in order in one turn (`settling`), as
`settle_session_end_keeping_in` does: nothing in that turn dispatches a message, and only the end of
a shutdown taken back records what changed under the hold. A process that dies leaves what is on disk, so
what holds of `disk` and `vouched` in every state holds of what the next start reads. `lost` is
history: a document let go of without a landing, where the code says so itself (a quit's bound
spent, the close's flush refused) or where a refusal at the door overwrites an answer not read yet.

*An update* (`UpdateTransaction`). `record` is the journal (`Phase` with the trial it names, the
nonce that may still answer for it, and the attempts counted over `Stuck`); an operator per event
says what `next` makes of it. `at` is the digest of each member in each of the four folders, so a
move is one digest gone from one place and come to another, as a durable rename is; a member both
sets share has one digest (`Alike`). `holder` is the process that holds the transaction lock, `P` the
applier or `R` a rescue copy, with the step of its road; one action is one durable write or one read
that a later write depends on. `Look` is the start of a turn of `settle`, which reads the receipt and
the list of what runs; `Sights` is what `trial_runs` may say of the recorded trial: that it runs, if it
does, and in any case that it does not, which is what an unreadable list says too. `RetryLooks` asks the
same before a trial is started over `Stuck`. A survey is stricter, as in the code: a list it cannot read
defers (`Unlisted`). It leaves out the recorded trial of a `Stuck` (`Found`), whether that has ended or
was taken for ended. To overlook a trial costs a fault where the new set is live; while it is being
moved the list is asked by a name that may have no file, and the overlooking is free. The turns spent, `Sticks` records a failed rollback where `next` takes one and
elsewhere `RoadFails`; `Surveyed` and its four outcomes are `before_deciding`, and the actions under
`Decides` are the arms of `decide`, each with what `settle` does for it. A road that fails, anywhere,
is `RoadFails`. The lock let go, the exit guard may still owe a window: `guard` is what it read from
the disk (`OpensNow`) and has not yet started. A trial goes from `launched` to `started` (its admission
taken, or found held), `claimed`, `granted` (the journal read for its receipt), `vouched` (the receipt
written) and `released`; any may be skipped by `TrialEnds`. A trial's process is its number, and so is
its nonce, but for the one nonce reserved for the last trial. Deadlines are a choice (`late`, and the
watch that gives up): the clock may say anything. `HolderDies` and `PowerCut` keep `disk` and nothing
else. `declared`, `misread` and `unseen` are history: the trials a rollback was declared on, whether a
receipt that was there was once taken for none, and the running trials that a look took for ended.

*The claim on a data directory* (`InstanceClaim`). `name` is the file the lock's path leads to, by
its inode: a path unlinked and created again leads to another. `lock` is what `flock` holds on each
file, `readers` and `sweeper` the two sides of `sweep.guard`. A process is at most in one claim at a
time (its table is locked over an ask; `place`, with the file it has open in `fd` and its retries in
`tries`), and beside it in one sweep, on a worker (`sweepAt`, `sweepFd`). One action is one system
call: `Begins` the guard, `Opens`, `Locks` or `LockRefused`, then `Checks` or `Doubts` (the two places
where the path is compared with the file), `Clears` the sockets' names; `DropChecks`, `DropUnlinks`
and `DropCloses` are the claim's drop; `SweepOpens` to `SweepLeaves` one file of the sweep. `row` is
the process's row of the claim table and `stage` how far its start has come through its asks: main's
own, `SessionStore::open`'s, which keeps its answer (`keeps`), and the doors', which bind when it says
"writer" (`BindsDoors`). `Try` is the ask that remembers nothing: an update's trial adopts what it was
given (`Adopts`), an applier drops it (`DropsProbe`). `LetsGo` is the leaving build's, before it starts
its successor. `Dies` is the end of a process, killed, crashed, handed over to another or quit; the
kernel closes what it had open and another process takes its place.

### Abstractions worth knowing

* In `InstanceClaim`: the launch's door and attention's are one, as they are bound and cleared
  together, and binding a free name does not fail; an endpoint is a `static`, so nothing but the next
  claim takes its name down. Any file may be an hour old when a sweep looks. The files of other
  directories are swept before this one's, and after this one's a sweep is over. A refusal by the
  platform may come at the open or at the lock. The settings store's ask is one with the doors'. The
  first answer of a `QueryDenied` or of a claim that gave up after `RELOCK_ATTEMPTS` is remembered
  like any other refusal: that there is then no writer is what the code chose, and no property
  says otherwise.

* A refused worker start changes nothing but the streak and a line: in `LaneQueue` and
  `LaneCoalescing` it is a stutter, in `LaneLedger` it is `StartRefused`, of which `KeepsTheSeam` says
  that it mints and ends nothing. `RequestsAreAnswered` and `QuestionsAreAnswered` do not speak of it: a
  worker that the next request failed to start would not be noticed by any property.
* The body of a task may answer, fail or panic; a panic in a task is a failure with words (`task`).
  A panic outside any task ends the worker (`Panic`). Publishing and waking are taken not to panic.
* `LaneQueue` lets a window let a request go, and the owner close the lane, at any idle moment;
  what is held then goes to the sink.
* History variables (`shown`, `began`, `said`, `sank`) are read by
  properties only.

## 3. Runs

| run | instance | what it shows |
|---|---|---|
| `ledger` | 3 identities, bound 2, one failure word, one requester and the worker, `PerRequest` | the three invariants of the book and its releases, that every sink hears, and that the ledger implements `Completion` |
| `lane_queue` | 3 identities, bound 2; the clipboard lane with two windows withdrawing and replacing, or the resample share with one window, two sizes of one picture and a second picture (260,808 states) | nothing owed is stranded, answers come in admission order across windows, no wake is lost, every request is answered whatever dies, and the refinement of `Completion` |
| `program_walk` | 4 identities, bound 3, two tables | one run out and one waiting answer everything owed; freshness; order; liveness; the refinement |
| `git_turns` | one repository, its status and its refs asked, 2 questions, 2 presses, 2 shares, bound 2 | one verb at a time; never a read beside a verb; both orders of turns; no verb waits on a read that will not run; no wake lost; nobody waits in a circle; no stale reading filed (3,504,991 states) |
| `git_turns_answered` | two repositories, the status of each, 2 questions, 1 press | every question answered or replaced, every verb ends, though the reader or a worker panics; and while a verb of one never ends, the other's questions are answered |
| `document_writes` | 2 units; 2 presses, 2 saves, 3 changes together, 1 fault, 2 quits (1,962,739 states) | what an exchange displaces is kept until a landing carries it; no hand edit is undone, unless what displaced it could not be read back; the revision is the file; nothing owed is without a trigger |
| `session_writer` | 2 changes, 2 faults, 4 pieces of news, 2 quits (1,046,853 states) | nothing unowed is missing from the disk; the sentinel goes only over a document on disk or one knowingly let go; every change reaches the disk or waits for a trigger |
| `update_transaction` | 2 members a set, one of them in both; 2 trials, 2 faults, `STUCK_ATTEMPT_LIMIT` 2, 4 turns a road (1,173,865 states) | the old set whole until a commit and after every end without one; a commit over the whole new set, unless a receipt was misread or the committed trial was overlooked; the entrance stands while files may be moved; a trial a rollback was declared on is never heard, unless it was overlooked while it ran |
| `instance_claim` | 3 processes, one of which may wait as an update does and sweeps; 3 files at once, 2 attempts (704,951 states) | one writer; no claim meets a file a sweep holds; the doors are the writer's; a writer never told of a sweep is one throughout; the refinement of `DirectoryClaim` |
| `document_held` | 2 units, 1 press, 2 saves, no fault and no quit | violated: see below |
| `session_sentinel` | 2 changes, 1 fault | violated: see below |
| `update_commit_over_old` | as `update_transaction`, 3 faults | violated: see below |

The types of the modules are theorems of section 5 and take no place in a run.

Why the bounds are enough. In the git runs a read and a verb can be asked in either order twice over:
a read behind a verb, a verb behind that read, a second read that coalesces with the first or stands
behind it, and a share forgotten and made again between two presses; two repositories are needed
only for what one must not do to the other. `MaxQuestions`, `MaxVerbs` and `MaxShares` are the
counters capped; the proofs of section 5 do not depend on them. In the lanes' runs the interesting cases need: an operation, one joined to it and a third
that displaces both (3 identities); a run out, one waiting, one joined to it and one that displaces
it, taken later (4); a bound smaller than the number of identities, so that a request is refused and
a later one admitted (2 or 3); two windows, so that answers can be put in order across them. One
failure word is enough to be the same words twice; two tables or two sizes to be different. The
identities grow in order and nothing but the bound counts them, so more of them repeat the same
cases. `MaxMinted` is the one counter that is capped, and admission stops at it: that is why
deadlock is not checked, as a behaviour that has used up its identities and answered them has
nothing left to do.

A document's two units are one edited by the person and one by Folio; three changes are a press, a
save that races with it and a second save during the merge or the re-read, which is where the code's
branches are; one fault is a refusal, a landing that is not known to be durable, something displaced or
asked for that cannot be read, or a bound that runs out, each against every order of the rest; two quits are one cancelled and one that leaves. The
session's two changes are one on the writer and one behind it, its two faults a refusal and a bound
that runs out, its four pieces of news asked, taken back and the same again: with the second pair
heard before the first is settled, the hold is let go while a question is still to be settled.

An update's members are one that both sets have with other bytes, one that only the new set brings and
one that only the old set has; a fourth, shared with the same bytes, was run by hand (1,406,243 states),
and so was a third fault (5,740,763 states), both with the code's eight turns and no error. Two trials are one that a rollback is
declared on and one started, adopted or reserved after it; two faults are a cut in the moves or the
rollback and a refusal or a death in what repairs it, or a process list that cannot be read at one look
and a stop that fails or a second such list: with `misread` alone for an excuse TLC finds a commit over the
old set, and without `unseen` a declared trial heard, both within the run's bounds. The limit of attempts is 2 rather than 3 so that
it is reached, and a road has 4 turns rather than 8 so that it can spend them: with two trials and two faults no
road takes more than six, with three faults none takes eight. The proofs of section 5 hold for any limit and any number of turns.

In `instance_claim` three processes are a holder that lets go or dies, one that has the old file open,
and one that creates the name again, which is what a second writer would take; three files are the old
one, the one that replaced it and one more for a sweep or a second replacement. Two attempts are one
retry and the giving up. Two processes that both wait and sweep (212,000 states), and three of which
two wait (1,371,000), were run by hand without an error; the proofs of section 5 hold for any number of
each. The first two processes are alike, and so are the files: the run's symmetry.

Words are an empty set where failures change nothing the run's properties tell apart
(`lane_queue`, `program_walk`): a failure and an answer take the same steps of the queue.

### Places where the code and its documentation differ

* `document_held` (a bug): `merge_stored` says that "a file that moved stays stored, and the store
  stays held, until a later read finds it parsing". When the write's answer and the ear's re-read
  both found the same broken file, both stand in the merge's line; the person mends the file, the
  mended bytes are merged, but the broken entries are stored again at every merge, the line is never
  empty, and the hold never ends: the document is not written again in this run.
* `session_sentinel` (a bug): `SessionStore::close` says that the sentinel "may not be removed until
  the document it is vouching for is on the disk", and drops its own flush's verdict. When the disk
  refuses the last window's document, nothing is stalled, the writer retires in time, and the
  sentinel goes: the next start takes the run for a clean one and opens an older session.
* `update_commit_over_old` (a bug): `update_txn.rs` says that "a `Stuck` whose new bundle is live
  recovers forward on the receipt of the trial its holder started over it". `settle` takes a receipt
  that cannot be read for none, and `decide` answers `Commit` for a `Stuck` with a retrial without
  looking at the files. A trial started over `Stuck` vouches and ends; the next holder cannot read its
  receipt at one look and moves the old set back; at its next look the receipt reads, and it commits:
  the journal says that the update is in, and the old build is installed. An unreadable list of processes
  at that one look does the same: the trial, not yet admitted, is taken for ended, the old set goes back
  beside it, and the receipt it then writes over `Stuck` is committed.
* Without a run: the same comment says that "the trial the rollback was declared on is never heard again"
  (`update_txn.rs`, 2146). Where the declared trial is not stopped, though it is taken for stopped, and
  the retry that follows cannot read the list either, a second trial is recorded over the first; once the
  second has ended, the survey leaves that one out and finds the first with its receipt: it is recorded
  and committed. A handed-back trial is found sooner, as no survey leaves it out. (Without `unseen` in
  `DeclaredIsNeverHeard`, TLC finds such a trace in twenty-five steps.)
* Without a run: `main.rs` says of the doors that a hook "is speaking to the window whose session is
  being kept", "so they are opened off the same fact". `Sweeping` is not remembered, and a later ask
  asks again. A start told `Sweeping` by main's ask and by `SessionStore::open`'s may be the writer at
  the next: it opens the doors, no card is raised, and its session store, which kept its first
  answer, saves nothing. (Without `~told` in `WriterIsWhole`, TLC finds it in fifteen steps.)
* Without a run: `let_go_of_every_claim` says that "nothing is written after this". The stores keep
  the answer they had when they opened, and a write that outlives the bound of the quit is still on
  the storage worker.
* Without a run: `runtime/clipboard.rs` says of the paste's card that it is modal and "there is never
  a first". A pane's pastes wait for its own card (`advance_the_hold`), and two panes of one tab may
  each have a paste on its way: the second to be answered drops the first's paste, its card
  unanswered.
* Without a run: `Phase::RolledBack` says that `untried` is a transaction in which no trial was ever
  begun, as the journal records it; a trial whose record was refused and that could not be ended has
  run all the same.
* Without a run: `computation_lane.rs` says that the drain takes a superseded terminal past the
  mark so that it leaves the bound. A request *joined* to the displaced one ends
  `Joined { outcome: Superseded }`, which `take_superseded_past` does not match: it keeps its place
  until the run before it ends.
* Without a run: `programs_lane.rs` says that a request refused at the bound is served by "the
  walk already standing". The bound also counts joined requests and answers not yet taken, so the
  refusal can come when no walk stands and the one out has read everything.
* Without a run: `lane.rs` says of a sink that "a failure it receives has been said already". The
  streak is set under the lock and the line said after it, so with `Saying::PerStreak` a second
  thread may find the streak set, owe no line, and call its sink first: the order of two lines of a
  log, and nothing else.

The last three, of the lanes, lose no answer: each is a sentence that promises more than the code does.

### Known limits of what holds

Behaviours met while modelling that the properties are stated around:

* `DocumentWrites` with `Returns` (an editor that saves again bytes Folio still holds): a file
  restored between the write's `Moved` answer and its re-read is taken for Folio's own, and a read
  that found the file moving under it, followed by a touch that leaves the bytes, leaves an owed
  edit without a retry until the next press; and a file deleted, saved and deleted again while the
  merge's line holds the first deletion leaves the revision at what was saved between. Three saves are
  enough for an edit to be lost in one of these ways. The runs and the
  theorems of the revision, the trigger and the edits take `Returns = FALSE`.
* A press made while nothing but displaced copies that will not parse holds the store is not sent
  (`send_owed` waits for the merge), and the drain that lets those copies go folds nothing and so sends
  nothing: the change waits for the next press or the quit. It takes three presses; `OwedHasATrigger`
  excepts it by `behind`.
* After the person leaves a cancelled quit *without* the change that is owed, a landing may retire a
  copy whose units are in no document; `HandWorkKept` and what is said of quiet states except
  `dropped`.
* A press, and a press back while the first is on the worker, leave a document that owes nothing
  while another value is on its way: `Standing` calls it settled (`quit.rs`).
* `SessionWriter`: a quit gives up its document, the system then asks and takes back its end, which
  clears `stalled`, and the close removes the sentinel; and a refusal at the door while the newest
  document's answer is unread is overwritten by that late receipt. Both are `lost` in
  `SentinelVouchesUnlessLost`.
* `DocumentWrites`: where a write displaced an edit and what it displaced cannot be read back, the
  answer is `Landed` and the copy is left beside the file, said in the log and nowhere else
  (`settle_exchange`, `DocumentAnswer.left`). `HandWorkKept` holds, as no rule removes the copy; what
  Folio wants on disk is without the edit. `HandEditsStand` leaves out the units in which what was
  displaced differed from what the write expected, and those alone (`Undisplaced`); without that TLC finds the
  lost edit in twelve steps.
* `UpdateTransaction`: `WholeSets` excepts a commit after a misread receipt, and one of a trial in
  `unseen`; `DeclaredIsNeverHeard` a trial in `unseen`. What it says of the old set before a commit, and
  after an end without one, has no exception.
* `UpdateTransaction`: attempts over `Stuck` may pass `STUCK_ATTEMPT_LIMIT` while a recorded trial
  cannot be stopped, as `decide` gives up only over a trial that has ended.

## 4. Fairness, and why the code justifies it

* A thread that has left a lock goes on: weak fairness of the releases (`LaneLedger`) and of the
  steps of a call already begun (`AppGoesOn`) and of the worker (`WorkerGoesOn`). A task ends: the
  lanes' tasks have their own timeouts, which are not modelled.
* The window thread comes to a wake in its event queue however often it asks in between: strong
  fairness of the drain (`DrainBegins`, `TakeOnTheWake`). The event loop serves its queue in order.
* A worker waiting for the line's lock gets it between two asks: strong fairness of `Pop` and
  `CountArrivals`. The asks are bursts of a user's gestures with idle time between them.
* Nothing obliges a window to ask, withdraw, let go or close, and nothing obliges a worker to panic
  or a condition variable to wake spuriously: these have no fairness. When a lane is dropped, what
  its owner holds is dropped with it (the last conjunct of `LaneQueue`'s fairness).
* In `GitTurns` a thread that can go on does: weak fairness of the window's steps other than mailing
  and pressing (the loop comes to its wakes), of the read worker and of each share's worker. A
  reading and a verb end because each is git children stopped by a timeout (`GIT_COMMAND_TIMEOUT`).
  Weak fairness is enough where a lock is taken, since a step that waits for a turn stays enabled
  until its thread takes it. `OthersAreAnsweredMeanwhile` has the premise that a verb of one
  repository never ends, and says what the code promises of the other without that verb's end.
* In `SessionWriter` a write returns (weak fairness of the worker's write and answer together; the
  disk's refusal is a fault, never owed), and the window thread's turns come: the quiet window's end
  (`FlushIfDue`), the wake after a receipt (`TakeReceipts`), a wait whose receipt is there
  (`WaitHears`), the system's news. Nothing obliges the person to quit or the storage pass to come.
* `UpdateTransaction` states no liveness: the person may open and close Folio for ever, each recovery
  defers to a window that is open, and nothing obliges anybody to start Folio again. That a road
  cannot go round for ever is in the type, which is proved: it takes no turn past the loop's last.
* `InstanceClaim` states no liveness: neither a claim nor a sweep waits for anything (`LOCK_NB`), and a
  process that waits for a claim does so up to its deadline.
* `DocumentWrites` states no liveness. That an owed edit reaches the disk takes an ear's pass, a
  drain and an editor who stops; `OwedHasATrigger` states the part that is the code's, that none of
  its steps loses the trigger.

## 5. Proofs

For every number of identities and requesters, every bound, either way of saying failures and every
set of words (assumptions: `BookAssumption`, `ThreadAssumption`):

| theorem | statement |
|---|---|
| `TypeIsKept` | `LedgerSpec => []LedgerTypeOK` |
| `BookIsWhole` | `LedgerSpec => []BookWhole` |
| `JoinsEnd` | `LedgerSpec => []JoinsEndWithTheirTwin` |
| `SunkIsOnce` | `LedgerSpec => []SunkOnce` |
| `LedgerKeepsThePromise` | `LedgerSpec => KeepsTheSeam`, the refinement of `Completion` |
| `GitTypeCorrect` | `Spec => []TypeOK` (of `GitTurns`) |
| `OneVerbOfARepositoryAtATime` | `Spec => []OneVerbAtATime` |
| `NeverReadWhileWritten` | `Spec => []NeverBoth` |
| `ReadingsFollowPresses` | `Spec => []ReadsFollowPresses` |
| `VerbsFollowReadings` | `Spec => []PressesFollowReads` |
| `ReadsAskedWillRun` | `Spec => []AskedWillRun` |
| `ReadingsAreFiledFresh` | `Spec => NoStaleReading` |
| `TurnsAreNotMissed` | `Spec => []NoTurnIsMissed` |
| `NobodyWaitsInACircle` | `Spec => []NoCircularWait` |
| `DocumentTypeIsKept` | `Spec => []TypeOK` (of `DocumentWrites`) |
| `HandWorkIsKept` | `Spec => []HandWorkKept` |
| `RevisionFollowsTheFile` | `~Returns => (Spec => []RevisionIsTheFile)` |
| `OwedKeepsATrigger` | `~Returns => (Spec => []OwedHasATrigger)` |
| `HandEditsAreKept` | `~Returns => (Spec => []HandEditsStand)` |
| `SessionTypeCorrect` | `Spec => []TypeOK` (of `SessionWriter`) |
| `NothingOwedStaysOnDisk` | `Spec => []NothingOwedIsOnDisk` |
| `SentinelNeverVouchesForLess` | `Spec => []SentinelVouchesUnlessLost` |
| `UpdateTypeCorrect` | `Spec => []TypeOK` (of `UpdateTransaction`) |
| `EntranceAlwaysStands` | `Spec => []EntranceStands` |
| `SetsStayWhole` | `Spec => []WholeSets` |
| `DeclaredStaysUnheard` | `Spec => []DeclaredIsNeverHeard` |
| `ClaimTypeCorrect` | `Spec => []TypeOK` (of `InstanceClaim`) |
| `DirectoryHasOneWriter` | `Spec => []OneWriter` |
| `ClaimsMeetNoSweep` | `Spec => []NoSweepMeetsAClaim` |
| `WritersDoorsStand` | `Spec => []DoorsStand` |
| `UntoldWriterIsWhole` | `Spec => []WriterIsWhole` |
| `FilesAreOneClaim` | `Spec => IsOneClaim`, the refinement of `DirectoryClaim` |
| `LaneTypeCorrect` | `Spec => []TypeOK` (of `LaneCoalescing`) |
| `StandingAnswers` | `Spec => []StandingAnswersEverything` |
| `AnswersStayFresh` | `Spec => []AnswersAreFresh` |
| `TakenAsAdmitted` | `Spec => []TakenInOrder` |
| `LaneKeepsThePromise` | `Spec => KeepsThePromise` (of `LaneCoalescing`) |
| `QueueTypeCorrect` | `Spec => []TypeOK` (of `LaneQueue`) |
| `OwedReachable` | `Spec => []OwedIsReachable` |
| `AnsweredInOrder` | `Spec => []AnswersInOrder` |
| `AnswersAreNotMissed` | `Spec => []NoAnswerIsMissed` |
| `QueueKeepsThePromise` | `Spec => KeepsThePromise` (of `LaneQueue`) |

The first five are of the ledger. The nine of `GitTurns` are for any repositories, targets, numbers
of questions, verbs and shares and any bound (assumption: `GitAssumption`); the five of
`DocumentWrites` for any set of units and any bounds (`DocumentAssumption`), the type and the hand work
whether the editor may return to bytes Folio holds or not, the revision, the trigger and the edits where it may not
(with it they are false: see the known limits); the three of `SessionWriter` for any number of changes, faults, quits and news
(`SessionAssumption`); the four of `UpdateTransaction` for any two sets of members, alike or not,
any limit of attempts, any number of turns, trials and faults (`UpdateAssumption`); the six of
`InstanceClaim` for any number of processes, files and attempts, any of which wait or sweep
(`ClaimAssumption`); the five of `LaneCoalescing` for any number of requests and any set of
tables (`TablesAssumption`, which says that something can be asked); and the five of `LaneQueue` for any
number of requests and windows and any policies of the lanes that use the queue: what is related to
what, whether the worker asks before it begins, whether requests are withdrawn, what a drain takes past
its mark (`QueueAssumption`); the wakes need one thing more, that a lane which withdraws relates no job to
another (`WithdrawsAlone`). The one lane that calls `Queue::withdraw` is the clipboard's, and it asks with
`Relation::Other` alone. Without the assumption the theorem is false, as TLC shows of such a lane: a withdrawal owes
no wake, so what had joined the request withdrawn ends with it and nobody is told, and what waits above a drain's
mark for that request to end is not come to.

The argument. `LaneBookProofs` proves, one lemma per operation of the ledger, that the operator
keeps `BookInv`: the book's type, identities minted in order, terminals held by whoever is there to
take them, joins flat and owed with their operation, joined outcomes equal to the operation's, and
nothing owed in fault. The conjuncts need each other. A join's outcome is right only because it was
owed together with its operation (`TwinIsOwed`) and because both are ended in one step; that step
covers every join only because joins are flat; and `FaultOwesNothing` survives an admission only
because a lane in fault refuses it.

`LaneLedgerProofs` lifts that to the threads: `LedgerInv == LedgerTypeOK /\ BookInv(ledger) /\ SunkOnce`.
`SunkOnce` is in it because what a thread hands to a sink after the unlock must be what it took out
under the lock, and no other thread's; the lemma `HandedOut` states this once for every action that
leaves the lock with sinks. `LedgerInit => LedgerInv`, its preservation by a step (one lemma per group of
actions) and what it implies give the theorems.

The same module maps each action to a step of `Completion` under `LedgerInv`: an admission to
`Ask`, a publication to `End` of the operation and its joins, the worker's end to `Close`, a take to
`Answer`, a drop to `LetGo`, a sink's call to `Sink`, and everything else to a stutter.

Its second half is of the queue, whose machine shares the book's lemmas with the ledger's and no name and
no variable (so the ledger's are `LedgerSpec`, `ledger` and so on). `QInv` is inductive: `TypeOK`, `BookInv`, the two properties, and four
facts they need. `CallFits`: the call under way has what it will use, a waiting job to displace or a
request that is still held; no step of the worker takes it away, for a publication leaves a held request
held (`LosesNone`) and the line is locked while a job is displaced. `HoldersFit`: what is still to come
(`ToCome`: owed, kept, or in a pocket) has a window that asked for it. `DrainFits` is the mark at work:
nothing below it is owed, nothing below it stays behind with a window the drain has left, and only what
is below it will be answered, whatever is published meanwhile. `ShownFirst`: what has been answered was
admitted before everything to come. With these the least answer of a drain precedes everything to come,
which is `AnswersInOrder`. What the worker and the asker do to the book is said once for all steps
(`Shrinks`, `LosesNone`), and `OwedIsReachable` then needs only to see where a job goes: `WithoutKeeps`
says that taking one job out of the line leaves the others in it. The refinement is that of the ledger
with a request let go sunk in the step that ends it. TLC checked `QInv` with 4 identities (3,196,644 states).

`NoAnswerIsMissed` is the safety core of `RequestsAreAnswered`: no state in which both threads wait and
something is left to answer. `WInv`, proved inductive on top of `QInv`, says what each terminal in the book
waits for. `KeptIsHeardOf`: a wake on its way (in the event queue, or owed by a worker or an ask that has
published and not rung yet), the drain under way, an earlier request still owed, or the withdrawal that ended
it. A window leaves only what is past the mark, and `MarkStands` says the mark is still owed or its end has a
wake coming: this is why a drain may read its mark once and take the wake before it. An end then brings its own
wake, but a withdrawal brings none; `InTurn` says that it needs none, because where requests are withdrawn the
worker ends them in their order (`LineInOrder`), so that nothing that is kept waits for an earlier request, and
`PocketIsHeardOf` says the same of an answer taken on a replacement. `WorkerFits` gives the rest: a worker sleeps
only on an empty line or with the notice of a job about to come, and has ended only in fault, so that at rest
nothing is owed and nothing kept can be waiting for an end. TLC checked `WInv` with 4 identities.

`LaneCoalescingProofs` lifts the same lemmas to the latest-value lane. `RunsStand` says that the run
out and the run waiting are two operations, both owed, and that every request owed is one's or the
other's; it holds between the two halves of a displacement only because `DisplacerStands` knows the
new request, admitted and not standing yet, as the newest in the book and nobody's twin.
`RunningIsFresh` carries `AnswersAreFresh` from the moment a task begins to its publication: while a
run is out it is answered for by requests admitted before it, because an ask joins the run waiting
and never the run out. `MarkIsEarliest` is why the order of a take is right: the mark is read before
the lock, and what was the earliest owed stays so because the thread that takes is the thread that
asks; `TakenFirst` then says that whatever is left in the book was admitted after everything taken.
`ArrivalsFit` bounds the two counts by the requests made. The refinement is that of the ledger, of a
lane whose requester never goes (`NobodyGone`).

`GitTurnsProofs` proves `IInv` inductive: `TypeOK`, the properties that are kept themselves, and five
facts they need. `SharesWhole`: the turnstile knows one share per repository. `VerbsWhole`: what is
owed is owed on a live share and was minted by it. `WorkersWhole`: a worker past its line holds the
earliest verb its share owes. `QuestionsWhole`: a question is in one place, and one parked is asked.
`ReadsCover`: a read asked stands behind every verb owed of its repository that was pressed before
it was mailed. The order of turns rests on the last: `RepoTurns::ask` names one ledger and its last
number, and that this covers every earlier press is true only because a share is let go after it
owes nothing (`VerbsWhole`), so the share found is the only one that can owe. `OneVerbAtATime`
follows from the same two facts and needs no step of its own. Frame lemmas (`OwedFrame`,
`AskedFrame`, `MarksFrame`, `MailFrame`, `ReadingFrame`) say once what a step may change, so that
each property's step looks only at the actions that can disturb it: an ask, a begin and a verb's
turn.

`NoStaleReading` is a property of the drain's step, and `FreshInv` is what makes it hold there.
`ReadingSees`: a reading that runs has seen every verb of its repository that is over, since the folder
is marked for as long as it runs and `NeverBoth` lets none end meanwhile. When its answer is sent this
passes to `AnswersSee`, of the answers that wait against the verbs told; and a verb is told only in a
step that leaves no answer waiting, having been taken before, so that it can no longer run
(`ToldAreTaken`).

`WakeInv` is the part of the answers and of the verbs' ends that is safety: `VerbsEnd` and
`QuestionsAreAnswered` need a scheduler, but what their wakes rest on does not. `WaitersTold` and
`ParkedTold` follow every step that can let somebody go on to the wake it gives: the turnstile's steps
tell the verbs that wait; a verb's end nudges; and a terminal, which a worker publishes outside the
turnstile's lock, leaves it "telling" until it has (`Telling`). A nudge is enough because
the read worker forgets its nudges only before it looks at every parked read (`Posted` sets `at` back).
`NoCircularWait` then rests on one order. `MailInOrder` (a question is asked of the turnstile after
every one asked before it was mailed) gives `AsksInOrder`: a read asked later stands behind the same
share and at least the same verbs, as long as the earlier waits for any. So the earliest read asked of a
repository (`EarliestAsk`, the least of a set of naturals) waits for verbs alone; `OwedIsServed` gives
those verbs a worker that has not gone to sleep; and every read it might wait for stands behind its
verb and lets it through (`EarliestWaitsForVerbs`).

`DocumentWritesProofs` proves `IInv == TypeOK /\ Given(store) /\ (dropped \/ Safekeeping)`. That
a copy stands until its units have landed cannot be seen from the copies alone: a landing retires
the copies whose *version* it reaches, and what it carries was fixed when it was sent. `Custody` says
what ties the two together: the units of every copy the store keeps are in what its next write
carries, and the units of every copy the write on its way may retire are in what that write carries.
Each door of the store keeps this (one lemma per door: `SendOwedKeeps`, `OnDocumentKeeps`,
`FoldKeeps` and so on), and `Place` adds what it carried to `safe` before its copies go. `Given`
says that a write that is answered was given an outcome. The type's proof needs `StatesGrow`:
the paths are those made so far, and a state typed over some paths is typed over more of them.

`RevisionIsTheFile` says something of a quiet store only, and nothing the store shows then tells how
it came there. `FInv` says it of every state. `Chain` puts what the store holds of the file (the
revision, the files that wait for the merge, the answers not heard) in the order in which the file had
it: once one of these is what the file holds, so is all that came after it. `Tracked` says that what the
file holds will be known: it is among what the store holds, or a read will be made of it. `Clean` ties
a write whose precondition held to a store that has nothing to merge, which is what lets a landing
take the place of the revision. What could break the order is one link mistaken for another, as bytes
are compared and not times: `Apart` says that no write on its way is of what the file holds already, and
`Seen` that an edit nothing has heard of has a value nothing else has. That is so because values grow
(`Young`) and an editor that does not return brings a fresh one. `Turns` says what the window's turn may
still find at each of its places.

`OwedHasATrigger` adds `Triggered`. `Owing` is the claim itself, of every state: what is owed goes with
the write on its way (`Underway`), by a mark, with the news of the file, or after the merge (`ToFold`).
`Later` says the same of what was wanted after the write was sent; `Marked` what the store's marks mean
in a turn, where several are set and not yet acted upon; `AtLast` what a quit that is called off leaves.
The news of the file is a trigger only because the revision differs from it, which is why the theorem
stands on `FInv`. The exception `behind` was found by this proof: without it the property is false, but
only with a third press.

The four properties were also checked by TLC with one unit and more of the rest than the run has:
3 presses, 2 saves, 4 changes together, 2 faults, 1 quit (10,857,813 states); and with the run's instance and
a second fault (7,671,825).

`HandEditsStand` too is of a quiet store, and about one unit where what precedes is about the document.
`EInv` adds `Edits` to `FInv`: each edit that stands is in one of three places (`Stands`). In the file
alone (`Unheard`): nothing that waits, is wanted or is on its way has its value but what is yet to be
heard. Taken off the disk by a write's exchange, whose answer is yet to be heard (`Aside`). Or heard
(`Heard`): it is what the store wants and no merge that waits takes it away, or a merge that waits will
bring it (`Will`), and a file that moves meanwhile leaves it so (`Comes`). What could lose it is a merge
that takes the old value for the person's, so `Harmless` and `Brings` say of one merge of three values
when it keeps the edit and when it brings it; `FoldIs` says what folding does to a unit, and of several
merges in line the one that brings the edit is followed by harmless ones only. Of two answers not yet
heard the later has the edit once the earlier has it (`InOrder`). A quiet store's revision is the file,
so the edit is not in the file alone, and it is heard. A write that could not read back what it displaced is a landing: an edit of another
unit was in what the write expected, so it is in the document placed (`PlacedStands`).

`SessionWriterProofs` proves `IInv` inductive: `TypeOK`, `Fits` and what is said of the waits, the
system's question and the sentinel. `Fits` relates the store to the lane and the disk. `Numbered`:
receipts and jobs come in the order of their generations and only the last is of the newest document,
so an older receipt cannot answer for it. `NewestFits`: the newest document, in the queue or landed
and its receipt unread, is the session, unless that has changed since or one was let go.
`OverdueIsOwed`: a document that is no longer waited for is still owed. That is why a store that owes
nothing when its receipts are read has an empty queue, and the disk keeps what it has (`TakenFits`).
Each thing the store does keeps `Fits` (a lemma each: sent, refused at the door, heard, given for
refused, changed, let go), and a judged write keeps `Judged`, once for the three that wait.
`QuestionHolds` is why the sentinel's claim stands until it is taken back: a question heard and taken
back and heard again before its turn is settled while nothing is held, but in a turn that also
settles its taking back. `take_receipts` folds the receipts, and a fold's result is an induction over
data: it is made here for this fold alone, by the least receipt after which the store is not what it
should be (`RunHears`) and the least length without such a run of stores (`RunExists`).

`UpdateTransactionProofs` proves `IInv` inductive: `TypeOK`, what is kept itself, and what ties
together the things that no single process sees. `StepFitsRecord` and `EntranceFits` say which step
of a road goes with which journal: every decision rests on the phase having stayed as it was read,
which the lock gives. `OldSetFits` adds that the backup holds old files only, so that a move back is
by digest what it claims. `NewSetFits` says where the new set must be in: from `Moving`'s end on, and
over a `Stuck` for as long as its retrial may still be answered. That is the hard part, for a road
that moves the old set back over such a `Stuck` did so because it saw no receipt and no process, and
no receipt may come after: `Unanswerable` is stable because a receipt is written by the process of
its own nonce (`NoncesFit`, `RecordedTrialFits`) and an ended process is not started again, unless the
look overlooked a process that ran. It is where the exceptions of `WholeSets` are needed, and finding
`update_commit_over_old` is what happens without them; of `OldSetKept` and `OldIsWhole` the same
theorem says without exception. `DeclaredFits` says that a trial a rollback was declared on is recorded
still, has ended or was overlooked, so that neither an adoption nor a retrial brings it back; `RetryFits`
carries what the retry's own look found to the record of the trial it starts. The steps are sorted by what they move (files, journal, trials, road, window), and every
change of the journal is one of the kinds of `JournalStep`, so that a conjunct's proof looks
only at the kinds that can disturb it.

`InstanceClaimProofs` proves `IInv` inductive: `TypeOK`, the properties, and what each place of a
process says of the files it sees. `PlacesFit` says which places have a file open, and `GuardsFit` that
the two sides of the guard exclude each other. `ClaimsLocked` and `SweepsLocked` say that who is past
its lock holds it, and `HeldIsNamed` that a claim that was checked is on the file the name leads to.
The last is the heart. A name is taken away by two steps only, a drop's and a sweep's unlink, and each
is made by whoever holds the lock of the named file: so a checked claim's file keeps its name until
that claim lets go. Two claims that are checked are then on one file, and the lock has one holder
(`OneHolder`), which gives `OneWriter`. `DoorsFit` says whose name the endpoint may have while
somebody has the claim, and `AnsweredAtOnce` that a process that was never told of a sweep was given
one answer by all its asks. The refinement maps the lock of the named file to `holder`: a lock taken
on a file whose name has gone is a stutter, and a claim is released by its unlink, not by the close
that follows it.

Only model-checked: the liveness properties (`SinkHears`, `RequestsAreAnswered`,
`QuestionsAreAnswered`, `VerbsEnd`, `OthersAreAnsweredMeanwhile`,
`ChangesReachTheDisk`; the prover has no backend for fairness and ENABLED). Every safety
invariant, every action property and every refinement that a passing run checks has a theorem; the three of
`DocumentWrites` named above only where the editor may not return to bytes Folio holds.

## 6. Not modelled, and why

The terminal core, layout, detection, mathematics and drawing are sequential functions of large
inputs, better served by the corpora and property tests beside them. The web host is the behaviour
of an external browser. The remaining parts of section 1 are concurrent and worth modelling; they
are the plan's next entries. Of the update, what precedes the hand-off moves nothing, and the macOS
road swaps one bundle where Windows moves members.

## 7. Plan

1. **Done.** The ledger, its proofs and its refinement; the queue and the coalescing lane over it;
   the promise.
2. **Done.** `GitTurns`: the turnstile, the read worker and the shares, with the proofs of its safety
   properties. To be stated yet: an abstract specification, one line of turns per repository, that `GitTurns`
   implements.
3. **Done.** `DocumentWrites`, with the proofs of its safety properties: hand work is kept, the revision is
   the file, what is owed has a trigger, the person's edits stand.
4. **Done.** `SessionWriter`, with the proofs of its invariants. Left out of it: the launch's backup of an older session, the trial of
   an update, a sentinel that cannot be created.
5. **Done.** `UpdateTransaction`, with the proofs of its properties. Left out of it: the macOS bundle swap, the download, staging and
   verification before the hand-off, the election of the window's holder, the mark of changes that
   were not kept, the watchdog's number of asks, journals of other versions.
6. **Done.** `InstanceClaim` and the object it implements, with the proofs of its properties and of
   the refinement. Left out of it: what is said over the launch's door (`launch_wire.rs`) and the lane
   that hands a launch over (`handoff_lane.rs`); the files of other directories.
7. `PasteHold` over `LaneQueue`: the windows' owed pastes, deadlines and order.
8. **Done.** The proofs of `LaneCoalescing` and of `LaneQueue`, all their safety properties and their
   refinements, from the lemmas of `LaneBookProofs`.

## 8. Files

Each run is `<cfg>` checked with its MC module, for example
`tlc -config MCLaneLedger.cfg MCLaneLedger.tla`; each proof module is checked with `tlapm`.
`PROJECT.json` lists the components, the runs, the lines each definition models, the hazards with
the properties that cover them, and for every property a mutation of the model that it detects. The
mutated forms stand in the modules just before what they mutate, each with a line saying what is
wrong with it; nothing else uses them.
