------------------------ MODULE LaneCoalescingProofs ------------------------
(***************************************************************************)
(* What the coalescing lane keeps true for every number of requests, every *)
(* bound of its ledger, every set of tables and of words: the invariance   *)
(* of TypeOK, StandingAnswersEverything, AnswersAreFresh and TakenInOrder  *)
(* of LaneCoalescing, and that the lane implements the seam's promise      *)
(* (Completion).  The book's own lemmas are in LaneBookProofs.             *)
(***************************************************************************)
EXTENDS LaneCoalescing, LaneBookProofs

-----------------------------------------------------------------------------
(* The inductive invariant, by its parts.                                  *)

Uncounted(run) == IF run = NoRun THEN 0 ELSE run.uncounted

(* Every request not counted yet was minted, the displacing one among them;*)
(* an ask under way leaves room for its own.                               *)
ArrivalsFit ==
    /\ superseded + Uncounted(waiting) + (IF app = "displacing" THEN 1 ELSE 0) <= book.minted
    /\ app = "asking" => book.minted < MaxMinted

(* A run is out exactly while the worker is at it, and a lane in fault has *)
(* no worker.                                                              *)
WorkerHoldsARun ==
    /\ current # NoRun <=> worker \in {"taken", "running", "counting"}
    /\ book.fault # NoFault => worker \in {"announcing", "ended"}

(* A run is an operation still owed, numbered by the newest request it     *)
(* answers.                                                                *)
AnsweredBy(b, run, i) == i = run.operation \/ b.twin[i] = run.operation

RunStands(b, run) ==
    run # NoRun =>
        /\ run.operation \in Owed(b) /\ b.twin[run.operation] = NoId
        /\ run.newest \in Owed(b) /\ AnsweredBy(b, run, run.newest)
        /\ \A i \in Owed(b) : AnsweredBy(b, run, i) => i <= run.newest

Apart(one, other) == one # NoRun /\ other # NoRun => one.operation # other.operation

(* The run out and the run waiting are two operations, and every request   *)
(* owed is one's or the other's, or is displacing the one that waits.      *)
RunsStand ==
    book.fault = NoFault =>
        /\ RunStands(book, waiting) /\ RunStands(book, current) /\ Apart(waiting, current)
        /\ \A i \in Owed(book) :
              \/ waiting # NoRun /\ AnsweredBy(book, waiting, i)
              \/ current # NoRun /\ AnsweredBy(book, current, i)
              \/ app = "displacing" /\ i = hand.id

(* Between its admission and the end of the run it displaces, a request is *)
(* the newest, owed, and an operation nobody has joined.                   *)
DisplacerStands ==
    app = "displacing" =>
        /\ waiting # NoRun /\ hand.id \in Ids /\ hand.id = book.minted
        /\ book.fault = NoFault =>
              /\ hand.id \in Owed(book) /\ book.twin[hand.id] = NoId
              /\ waiting.operation # hand.id
              /\ current # NoRun => current.operation # hand.id
              /\ \A i \in Ids : book.twin[i] # hand.id

(* Whatever a run answers was minted before it began.                      *)
RunningIsFresh ==
    worker \in {"running", "counting"} =>
        \A i \in Owed(book) :
            AnsweredBy(book, current, i) => i <= began[current.operation]

(* What has been taken was admitted before everything still in the book.   *)
TakenFirst ==
    \A n \in 1..Len(shown) :
        /\ shown[n] <= book.minted
        /\ \A i \in Entries(book) : shown[n] < i

(* No request is made during a take, so its mark stays the earliest owed.  *)
MarkIsEarliest ==
    app \in {"draining", "taking"} =>
        \A i \in Owed(book) : mark # NoId /\ mark <= i

IInv ==
    /\ TypeOK /\ BookInv(book)
    /\ ArrivalsFit /\ WorkerHoldsARun
    /\ RunsStand /\ DisplacerStands
    /\ RunningIsFresh /\ AnswersAreFresh
    /\ TakenFirst /\ MarkIsEarliest /\ TakenInOrder

-----------------------------------------------------------------------------
(* What an operation of the ledger does to the book's parts.               *)

LEMMA OwedIsMinted ==
    ASSUME NEW b, BookInv(b)
    PROVE  \A i \in Entries(b) : i \in Ids /\ i \in Nat /\ i >= 1 /\ i <= b.minted
BY IdsAreNatural DEF BookInv, MintedInOrder, Entries, Books, Ids

LEMMA AdmittedParts ==
    ASSUME NEW b, BookInv(b), NEW with \in Ids \cup {NoId}, b.minted < MaxMinted,
           with # NoId => with \in Owed(b) /\ b.twin[with] = NoId,
           NEW c, c = Admitted(b, with), NEW id, id = NextId(b)
    PROVE  /\ id \in Ids /\ id = b.minted + 1 /\ c.minted = id
           /\ Owed(c) = Owed(b) \cup {id} /\ Entries(c) = Entries(b) \cup {id}
           /\ id \notin Entries(b) /\ id \notin Owed(b) /\ id # with
           /\ c.twin = [b.twin EXCEPT ![id] = with]
           /\ c.gone = b.gone /\ c.terminal = b.terminal /\ c.fault = b.fault
           /\ \A i \in Ids : b.twin[i] # id
<1>1. b \in Books /\ MintedInOrder(b) /\ TwinIsOwed(b)
  BY DEF BookInv
<1>2. id \in Ids /\ id = b.minted + 1
  BY <1>1, IdsAreNatural DEF NextId, Books, Ids
<1>3. /\ c.minted = id /\ c.gone = b.gone /\ c.terminal = b.terminal /\ c.fault = b.fault
      /\ c.place = [b.place EXCEPT ![id] = "owed"]
      /\ c.twin = [b.twin EXCEPT ![id] = with]
  BY <1>1, <1>2 DEF Admitted, Books
<1>4. id \notin Entries(b) /\ id \notin Owed(b)
  BY <1>1, <1>2, OwedIsMinted DEF Entries, Owed, MintedInOrder, Books
<1>5. Owed(c) = Owed(b) \cup {id} /\ Entries(c) = Entries(b) \cup {id}
  BY <1>1, <1>2, <1>3 DEF Owed, Entries, Books
<1>6. \A i \in Ids : b.twin[i] # id
  BY <1>1, <1>2, <1>4, IdsAreNatural DEF TwinIsOwed
<1>7. id # with
  BY <1>2, <1>4, IdsAreNatural
<1> QED BY <1>2, <1>3, <1>4, <1>5, <1>6, <1>7

LEMMA EndedParts ==
    ASSUME NEW b, BookInv(b), NEW ends \in SUBSET Owed(b), NEW terminals, DOMAIN terminals = ends,
           NEW c, c = Ended(b, terminals)
    PROVE  /\ c.minted = b.minted /\ c.gone = b.gone /\ c.fault = b.fault
           /\ Owed(c) = Owed(b) \ ends /\ Entries(c) \subseteq Entries(b)
           /\ \A i \in Ids :
                 /\ c.twin[i] = IF i \in ends THEN NoId ELSE b.twin[i]
                 /\ c.terminal[i] = IF i \in ends THEN terminals[i] ELSE b.terminal[i]
<1>1. b \in Books
  BY DEF BookInv
<1>2. /\ c.minted = b.minted /\ c.gone = b.gone /\ c.fault = b.fault
      /\ c.place = [i \in Ids |-> IF i \notin ends THEN b.place[i]
                                  ELSE IF b.gone[i] THEN "sunk" ELSE "kept"]
      /\ c.twin = [i \in Ids |-> IF i \in ends THEN NoId ELSE b.twin[i]]
      /\ c.terminal = [i \in Ids |-> IF i \in ends THEN terminals[i] ELSE b.terminal[i]]
  BY <1>1 DEF Ended, Books
<1>3. ends \subseteq Ids
  BY DEF Owed
<1>4. Owed(c) = Owed(b) \ ends
  BY <1>1, <1>2, <1>3 DEF Owed
<1>5. Entries(c) \subseteq Entries(b)
  BY <1>1, <1>2, <1>3 DEF Entries, Owed
<1> QED BY <1>2, <1>4, <1>5

LEMMA PublishedParts ==
    ASSUME NEW b, BookInv(b), NEW id, PublishAccepted(b, id), NEW t \in Publishable,
           NEW c, c = Published(b, id, t), NEW ends, ends = EndsWith(b, id)
    PROVE  /\ c.minted = b.minted /\ c.gone = b.gone /\ c.fault = b.fault
           /\ Owed(c) = Owed(b) \ ends /\ Entries(c) \subseteq Entries(b)
           /\ \A i \in Ids :
                 /\ c.twin[i] = IF i \in ends THEN NoId ELSE b.twin[i]
                 /\ c.terminal[i] = IF i \notin ends THEN b.terminal[i]
                                    ELSE IF i = id THEN t ELSE Joined(id, t)
<1>1. ends \in SUBSET Owed(b) /\ b \in Books
  BY PublishedInv DEF BookInv
<1>2. PICK terminals : terminals = [i \in ends |-> IF i = id THEN t ELSE Joined(id, t)]
  OBVIOUS
<1>3. PICK d : d = Ended(b, terminals)
  OBVIOUS
<1>4. DOMAIN terminals = ends /\ \A i \in ends : terminals[i] = IF i = id THEN t ELSE Joined(id, t)
  BY <1>2
<1>5. /\ d.minted = b.minted /\ d.gone = b.gone /\ d.fault = b.fault
      /\ Owed(d) = Owed(b) \ ends /\ Entries(d) \subseteq Entries(b)
      /\ \A i \in Ids :
            /\ d.twin[i] = IF i \in ends THEN NoId ELSE b.twin[i]
            /\ d.terminal[i] = IF i \in ends THEN terminals[i] ELSE b.terminal[i]
  BY <1>1, <1>3, <1>4, EndedParts
<1>6. c = [d EXCEPT !.streak = StreakAfter(b, SunkBy(b, ends), t)]
  BY <1>2, <1>3 DEF Published
<1>7. /\ c.minted = d.minted /\ c.gone = d.gone /\ c.fault = d.fault
      /\ c.twin = d.twin /\ c.terminal = d.terminal /\ c.place = d.place
  BY <1>1, <1>3, <1>6 DEF Ended, Books
<1>8. Owed(c) = Owed(d) /\ Entries(c) = Entries(d)
  BY <1>7 DEF Owed, Entries
<1> QED BY <1>4, <1>5, <1>7, <1>8

LEMMA WorkerEndedParts ==
    ASSUME NEW b, BookInv(b), NEW cause \in Causes, NEW c, c = WorkerEnded(b, cause)
    PROVE  /\ c.minted = b.minted /\ c.gone = b.gone /\ c.fault # NoFault
           /\ Owed(c) = {} /\ Entries(c) \subseteq Entries(b)
           /\ \A i \in Ids :
                 c.terminal[i] = IF i \in Owed(b) THEN GoneTerminal(b, i) ELSE b.terminal[i]
<1>1. EndedByWorker(b) = Owed(b) /\ b \in Books
  BY WorkerEndedInv DEF BookInv
<1>2. PICK terminals : terminals = [i \in EndedByWorker(b) |-> GoneTerminal(b, i)]
  OBVIOUS
<1>3. PICK d : d = Ended(b, terminals)
  OBVIOUS
<1>4. PICK ends : ends = Owed(b)
  OBVIOUS
<1>5. /\ DOMAIN terminals = ends /\ ends \in SUBSET Owed(b)
      /\ \A i \in ends : terminals[i] = GoneTerminal(b, i)
  BY <1>1, <1>2, <1>4
<1>6. /\ d.minted = b.minted /\ d.gone = b.gone /\ d.fault = b.fault
      /\ Owed(d) = Owed(b) \ ends /\ Entries(d) \subseteq Entries(b)
      /\ \A i \in Ids : d.terminal[i] = IF i \in ends THEN terminals[i] ELSE b.terminal[i]
  BY <1>3, <1>5, EndedParts
<1>7. c = [d EXCEPT !.fault = IF b.fault = NoFault THEN cause ELSE b.fault]
  BY <1>2, <1>3 DEF WorkerEnded
<1>8. /\ c.minted = d.minted /\ c.gone = d.gone /\ c.terminal = d.terminal /\ c.place = d.place
      /\ c.fault = IF b.fault = NoFault THEN cause ELSE b.fault
  BY <1>1, <1>3, <1>7 DEF Ended, Books
<1>9. Owed(c) = Owed(d) /\ Entries(c) = Entries(d)
  BY <1>8 DEF Owed, Entries
<1> QED BY <1>4, <1>5, <1>6, <1>8, <1>9 DEF Causes, NoFault

-----------------------------------------------------------------------------
(* What the ledger's operations do to a run that is not theirs.            *)

LEMMA RunsAreRecords ==
    /\ NoRun \notin Runs
    /\ \A id \in Ids, table \in Tables : RunOf(id, table) \in Runs
    /\ \A id \in Ids, table \in Tables :
          /\ RunOf(id, table) # NoRun
          /\ RunOf(id, table).operation = id /\ RunOf(id, table).newest = id
          /\ RunOf(id, table).uncounted = 1 /\ RunOf(id, table).table = table
BY IdsAreNatural DEF Runs, NoRun, RunOf, NoId, Ids

LEMMA StandsAfterAdmitted ==
    ASSUME NEW b, BookInv(b), NEW with \in Ids \cup {NoId}, b.minted < MaxMinted,
           with # NoId => with \in Owed(b) /\ b.twin[with] = NoId,
           NEW c, c = Admitted(b, with),
           NEW run, RunStands(b, run), run # NoRun => run.operation # with
    PROVE  RunStands(c, run)
<1> SUFFICES ASSUME run # NoRun PROVE RunStands(c, run)
  BY DEF RunStands
<1>1. PICK id : id = NextId(b)
  OBVIOUS
<1>2. /\ id \in Ids /\ Owed(c) = Owed(b) \cup {id} /\ id \notin Owed(b)
      /\ c.twin = [b.twin EXCEPT ![id] = with] /\ b \in Books
  BY <1>1, AdmittedParts DEF BookInv
<1>3. \A i \in Ids : c.twin[i] = IF i = id THEN with ELSE b.twin[i]
  BY <1>2 DEF Books
<1>4. Owed(b) \subseteq Ids /\ run.operation \in Owed(b)
  BY DEF Owed, RunStands
<1> QED BY <1>2, <1>3, <1>4 DEF RunStands, AnsweredBy

LEMMA StandsAfterPublished ==
    ASSUME NEW b, BookInv(b), NEW id, PublishAccepted(b, id), NEW t \in Publishable,
           NEW c, c = Published(b, id, t),
           NEW run, RunStands(b, run), run # NoRun => run.operation # id
    PROVE  RunStands(c, run)
<1> SUFFICES ASSUME run # NoRun PROVE RunStands(c, run)
  BY DEF RunStands
<1>1. PICK ends : ends = EndsWith(b, id)
  OBVIOUS
<1>2. /\ Owed(c) = Owed(b) \ ends
      /\ \A i \in Ids : c.twin[i] = IF i \in ends THEN NoId ELSE b.twin[i]
  BY <1>1, PublishedParts
<1>3. id \in Owed(b) /\ b.twin[id] = NoId /\ Owed(b) \subseteq Ids /\ NoId \notin Ids
  BY IdsAreNatural DEF PublishAccepted, Owed
<1>4. \A i \in Owed(b) : i \in ends <=> i = id \/ b.twin[i] = id
  BY <1>1, <1>3 DEF EndsWith, Twins
<1>5. /\ run.operation \in Owed(b) /\ b.twin[run.operation] = NoId
      /\ run.newest \in Owed(b) /\ AnsweredBy(b, run, run.newest) /\ run.operation # id
      /\ \A i \in Owed(b) : AnsweredBy(b, run, i) => i <= run.newest
  BY DEF RunStands
<1>6. run.operation \notin ends /\ run.newest \notin ends
  BY <1>3, <1>4, <1>5 DEF AnsweredBy
<1>7. \A i \in Owed(c) : i \in Owed(b) /\ i \in Ids /\ c.twin[i] = b.twin[i]
  BY <1>2, <1>3
<1>8. run.operation \in Owed(c) /\ run.newest \in Owed(c)
  BY <1>2, <1>5, <1>6
<1> QED BY <1>5, <1>7, <1>8 DEF RunStands, AnsweredBy

(* What a run answers keeps no request from being answered by the other.   *)
LEMMA AnswersArePublished ==
    ASSUME NEW b, BookInv(b), NEW run, RunStands(b, run), run # NoRun
    PROVE  /\ PublishAccepted(b, run.operation)
           /\ \A i \in Owed(b) : i \in EndsWith(b, run.operation) <=> AnsweredBy(b, run, i)
BY DEF RunStands, PublishAccepted, EndsWith, Twins, AnsweredBy

-----------------------------------------------------------------------------
(* A step that leaves the book, the runs and what was taken as they are.   *)
LEMMA QuietInv ==
    ASSUME IInv, TypeOK',
           UNCHANGED <<book, waiting, superseded, current, began, shown>>,
           app = "displacing" <=> app' = "displacing",
           app' = "displacing" => hand' = hand,
           app' = "asking" => book.minted < MaxMinted,
           current # NoRun <=> worker' \in {"taken", "running", "counting"},
           book.fault # NoFault => worker' \in {"announcing", "ended"},
           worker' \in {"running", "counting"} => worker \in {"running", "counting"},
           MarkIsEarliest'
    PROVE  IInv'
<1>1. BookInv(book') /\ AnswersAreFresh' /\ TakenFirst' /\ TakenInOrder'
  BY DEF IInv, AnswersAreFresh, TakenFirst, TakenInOrder
<1>2. ArrivalsFit' /\ WorkerHoldsARun'
  BY DEF IInv, ArrivalsFit, WorkerHoldsARun
<1>3. RunsStand'
  BY DEF IInv, RunsStand
<1>4. DisplacerStands'
  BY DEF IInv, DisplacerStands
<1>5. RunningIsFresh'
  BY DEF IInv, RunningIsFresh
<1> QED BY <1>1, <1>2, <1>3, <1>4, <1>5 DEF IInv

LEMMA InitInv == Init => IInv
<1> SUFFICES ASSUME Init PROVE IInv
  OBVIOUS
<1> USE IdsAreNatural
<1>1. BookInv(book) /\ book.minted = 0 /\ book.fault = NoFault /\ Owed(book) = {}
      /\ \A i \in Ids : book.terminal[i] = Unended
  BY EmptyBookInv DEF Init, EmptyBook, Owed
<1>2. TypeOK
  <2>1. (CHOOSE table \in Tables : TRUE) \in Tables
    BY TablesAssumption
  <2>2. NoHand \in [table : Tables, id : Ids \cup {NoId}]
    BY <2>1 DEF NoHand
  <2>3. shown \in Seq(Ids)
    BY DEF Init
  <2>4. began \in [Ids -> 0..MaxMinted]
    BY DEF Init
  <2>5. hand \in [table : Tables, id : Ids \cup {NoId}]
    BY <2>2 DEF Init
  <2>6. book \in Books /\ superseded \in 0..MaxMinted
    BY <1>1 DEF Init, BookInv
  <2> QED BY <2>3, <2>4, <2>5, <2>6 DEF Init, TypeOK
<1>3. ArrivalsFit /\ WorkerHoldsARun
  BY <1>1 DEF Init, ArrivalsFit, WorkerHoldsARun, Uncounted
<1>4. RunsStand /\ DisplacerStands /\ RunningIsFresh /\ MarkIsEarliest
  BY <1>1 DEF Init, RunsStand, RunStands, Apart, DisplacerStands, RunningIsFresh, MarkIsEarliest
<1>5. AnswersAreFresh
  <2>1. Unended.kind \notin {"Done", "Failed"}
    BY DEF Unended
  <2> QED BY <1>1, <2>1 DEF AnswersAreFresh
<1>6. TakenFirst /\ TakenInOrder
  BY DEF Init, TakenFirst, TakenInOrder
<1> QED BY <1>1, <1>2, <1>3, <1>4, <1>5, <1>6 DEF IInv

(* What the window thread does without the book: the ends of an ask, and   *)
(* the take's own steps.                                                   *)
LEMMA AskQuietlyInv ==
    ASSUME IInv, (\E table \in Tables : AskBegins(table)) \/ AskRefused \/ Notify
    PROVE  IInv'
<1>1. ASSUME NEW table \in Tables, AskBegins(table) PROVE IInv'
  <2>1. TypeOK'
    BY <1>1, TablesAssumption DEF AskBegins, IInv, TypeOK, NoHand, takeVars
  <2>2. MarkIsEarliest'
    BY <1>1 DEF AskBegins, MarkIsEarliest
  <2>3. /\ current # NoRun <=> worker' \in {"taken", "running", "counting"}
        /\ book.fault # NoFault => worker' \in {"announcing", "ended"}
    BY <1>1 DEF AskBegins, IInv, WorkerHoldsARun
  <2> QED BY <1>1, <2>1, <2>2, <2>3, QuietInv DEF AskBegins, takeVars
<1>2. CASE AskRefused
  <2>1. TypeOK'
    BY <1>2, TablesAssumption, IdsAreNatural
    DEF AskRefused, IInv, TypeOK, NoHand, takeVars, workVars
  <2>2. MarkIsEarliest'
    BY <1>2 DEF AskRefused, MarkIsEarliest
  <2> QED BY <1>2, <2>1, <2>2, QuietInv
          DEF AskRefused, takeVars, workVars, IInv, WorkerHoldsARun
<1>3. CASE Notify
  <2>1. TypeOK'
    BY <1>3 DEF Notify, IInv, TypeOK, takeVars
  <2>2. MarkIsEarliest'
    BY <1>3 DEF Notify, MarkIsEarliest
  <2>3. /\ current # NoRun <=> worker' \in {"taken", "running", "counting"}
        /\ book.fault # NoFault => worker' \in {"announcing", "ended"}
    BY <1>3 DEF Notify, IInv, WorkerHoldsARun
  <2> QED BY <1>3, <2>1, <2>2, <2>3, QuietInv DEF Notify, takeVars
<1> QED BY <1>1, <1>2, <1>3

LEMMA TakeQuietlyInv ==
    ASSUME IInv, TakeOnTheWake \/ TakeUnasked \/ TakeLocks \/ TakeEnds
    PROVE  IInv'
<1>1. CASE TakeOnTheWake \/ TakeUnasked
  <2>1. /\ Take /\ ringing' \in BOOLEAN
    BY <1>1 DEF TakeOnTheWake, TakeUnasked, IInv, TypeOK
  <2>2. mark' \in Ids \cup {NoId} /\ MarkIsEarliest'
    BY <2>1, EarliestOwedIs DEF Take, IInv, MarkIsEarliest
  <2>3. TypeOK'
    BY <2>1, <2>2 DEF Take, IInv, TypeOK, workVars
  <2> QED BY <2>1, <2>2, <2>3, QuietInv DEF Take, workVars, IInv, WorkerHoldsARun
<1>2. CASE TakeLocks
  <2>1. TypeOK'
    BY <1>2 DEF TakeLocks, IInv, TypeOK, takeVars, workVars
  <2>2. MarkIsEarliest'
    BY <1>2 DEF TakeLocks, IInv, MarkIsEarliest, takeVars
  <2> QED BY <1>2, <2>1, <2>2, QuietInv DEF TakeLocks, takeVars, workVars, IInv, WorkerHoldsARun
<1>3. CASE TakeEnds
  <2>1. TypeOK'
    BY <1>3 DEF TakeEnds, IInv, TypeOK, workVars
  <2>2. MarkIsEarliest'
    BY <1>3 DEF TakeEnds, MarkIsEarliest
  <2> QED BY <1>3, <2>1, <2>2, QuietInv DEF TakeEnds, workVars, IInv, WorkerHoldsARun
<1> QED BY <1>1, <1>2, <1>3

LEMMA WorkQuietlyInv ==
    ASSUME IInv, Sleep \/ Stir \/ Wake \/ Announce
    PROVE  IInv'
<1>1. /\ UNCHANGED <<book, waiting, superseded, app, hand, current, began, mark, shown>>
      /\ \/ worker \in {"looking", "asleep", "waking"} /\ worker' \in {"looking", "asleep"}
         \/ worker = "announcing" /\ worker' = "ended"
      /\ ringing' \in BOOLEAN
  BY DEF Sleep, Stir, Wake, Announce, IInv, TypeOK, askVars, takeVars
<1>2. TypeOK'
  BY <1>1 DEF IInv, TypeOK
<1>3. MarkIsEarliest'
  BY <1>1 DEF IInv, MarkIsEarliest
<1>4. /\ current # NoRun <=> worker' \in {"taken", "running", "counting"}
      /\ book.fault # NoFault => worker' \in {"announcing", "ended"}
  BY <1>1 DEF IInv, WorkerHoldsARun
<1>5. app = "asking" => book.minted < MaxMinted
  BY DEF IInv, ArrivalsFit
<1> QED BY <1>1, <1>2, <1>3, <1>4, <1>5, QuietInv

-----------------------------------------------------------------------------
(* A run taken is the one that waited; what waited for it still does.      *)
LEMMA PopInv ==
    ASSUME IInv, Pop
    PROVE  IInv'
<1>1. /\ app \notin {"asking", "displacing", "taking"} /\ waiting # NoRun /\ current = NoRun
      /\ current' = waiting /\ waiting' = NoRun /\ worker' = "taken" /\ book.fault = NoFault
      /\ UNCHANGED <<book, superseded, app, hand, began, mark, shown, ringing>>
  BY DEF Pop, Locked, takeVars, IInv, WorkerHoldsARun
<1>2. TypeOK'
  BY <1>1 DEF IInv, TypeOK
<1>3. ArrivalsFit' /\ WorkerHoldsARun'
  <2>1. superseded \in Nat /\ waiting.uncounted \in Nat /\ book.minted \in Nat
    BY <1>1, IdsAreNatural DEF IInv, TypeOK, Runs, Books
  <2> QED BY <1>1, <2>1 DEF IInv, ArrivalsFit, WorkerHoldsARun, Uncounted
<1>4. RunsStand' /\ DisplacerStands' /\ RunningIsFresh'
  BY <1>1 DEF IInv, RunsStand, RunStands, Apart, DisplacerStands, RunningIsFresh
<1>5. AnswersAreFresh' /\ TakenFirst' /\ MarkIsEarliest' /\ TakenInOrder'
  BY <1>1 DEF IInv, AnswersAreFresh, TakenFirst, MarkIsEarliest, TakenInOrder
<1> QED BY <1>1, <1>2, <1>3, <1>4, <1>5 DEF IInv

(* Everything owed was minted before the task begins, and no answer of the *)
(* operation that begins has been given yet.                               *)
LEMMA BeginInv ==
    ASSUME IInv, Begin
    PROVE  IInv'
<1>1. /\ worker = "taken" /\ worker' = "running" /\ current # NoRun /\ book.fault = NoFault
      /\ began' = [began EXCEPT ![current.operation] = book.minted]
      /\ UNCHANGED <<book, waiting, superseded, app, hand, current, mark, shown, ringing>>
  BY DEF Begin, askVars, takeVars, IInv, WorkerHoldsARun
<1>2. /\ book \in Books /\ BookInv(book) /\ began \in [Ids -> 0..MaxMinted]
      /\ current.operation \in Ids /\ current.operation \in Owed(book)
      /\ book.twin[current.operation] = NoId /\ Owed(book) \subseteq Ids
  BY <1>1 DEF IInv, TypeOK, Runs, RunsStand, RunStands, Owed
<1>3. book.minted \in 0..MaxMinted /\ \A i \in Owed(book) : i <= book.minted
  BY <1>2, OwedIsMinted, OwedIsEntered DEF Books
<1>4. TypeOK'
  BY <1>1, <1>2, <1>3 DEF IInv, TypeOK
<1>5. ArrivalsFit' /\ WorkerHoldsARun' /\ RunsStand' /\ DisplacerStands'
  BY <1>1 DEF IInv, ArrivalsFit, WorkerHoldsARun, RunsStand, DisplacerStands
<1>6. RunningIsFresh'
  BY <1>1, <1>2, <1>3 DEF RunningIsFresh
<1>7. AnswersAreFresh'
  <2> SUFFICES ASSUME NEW i \in Ids, book.terminal[i].kind \in {"Done", "Failed"}
               PROVE  i <= began'[IF book.terminal[i].with = NoId THEN i
                                  ELSE book.terminal[i].with]
    BY <1>1 DEF AnswersAreFresh
  <2>1. i <= began[IF book.terminal[i].with = NoId THEN i ELSE book.terminal[i].with]
    BY DEF IInv, AnswersAreFresh
  <2>2. book.terminal[current.operation] = Unended
    BY <1>2 DEF BookInv, PlacedByRequester, Owed
  <2>3. book.terminal[i] # Unended
    BY DEF Unended
  <2>4. book.terminal[i].with # current.operation
    BY <1>2, <2>2, IdsAreNatural DEF BookInv, JoinedOutcome
  <2>5. i # current.operation
    BY <2>2, <2>3
  <2> QED BY <1>1, <1>2, <2>1, <2>4, <2>5
<1>8. TakenFirst' /\ MarkIsEarliest' /\ TakenInOrder'
  BY <1>1 DEF IInv, TakenFirst, MarkIsEarliest, TakenInOrder
<1> QED BY <1>1, <1>2, <1>4, <1>5, <1>6, <1>7, <1>8 DEF IInv

LEMMA CountArrivalsInv ==
    ASSUME IInv, CountArrivals
    PROVE  IInv'
<1>1. /\ worker = "running" /\ worker' = "counting" /\ superseded' = 0 /\ current # NoRun
      /\ app \notin {"asking", "displacing", "taking"} /\ book.fault = NoFault
      /\ waiting' = IF waiting = NoRun THEN NoRun ELSE [waiting EXCEPT !.uncounted = 0]
      /\ UNCHANGED <<book, app, hand, current, began, mark, shown, ringing>>
  BY DEF CountArrivals, Locked, takeVars, IInv, WorkerHoldsARun
<1>2. /\ waiting' \in Runs \cup {NoRun} /\ (waiting' = NoRun <=> waiting = NoRun)
      /\ waiting # NoRun =>
            /\ waiting'.operation = waiting.operation /\ waiting'.newest = waiting.newest
            /\ waiting'.uncounted = 0
  <2>1. CASE waiting = NoRun
    BY <1>1, <2>1
  <2>2. CASE waiting # NoRun
    <3>1. waiting \in Runs /\ waiting' = [waiting EXCEPT !.uncounted = 0]
      BY <1>1, <2>2 DEF IInv, TypeOK
    <3>2. waiting' \in Runs
      BY <3>1, IdsAreNatural DEF Runs
    <3> QED BY <2>2, <3>1, <3>2, RunsAreRecords DEF Runs
  <2> QED BY <2>1, <2>2
<1>3. TypeOK'
  BY <1>1, <1>2, IdsAreNatural DEF IInv, TypeOK
<1>4. ArrivalsFit' /\ WorkerHoldsARun'
  <2>1. book.minted \in Nat
    BY IdsAreNatural DEF IInv, TypeOK, Books
  <2> QED BY <1>1, <1>2, <2>1 DEF IInv, ArrivalsFit, WorkerHoldsARun, Uncounted
<1>5. RunsStand'
  BY <1>1, <1>2 DEF IInv, RunsStand, RunStands, Apart, AnsweredBy
<1>6. DisplacerStands' /\ RunningIsFresh' /\ AnswersAreFresh'
  BY <1>1 DEF IInv, DisplacerStands, RunningIsFresh, AnswersAreFresh
<1>7. TakenFirst' /\ MarkIsEarliest' /\ TakenInOrder'
  BY <1>1 DEF IInv, TakenFirst, MarkIsEarliest, TakenInOrder
<1> QED BY <1>1, <1>3, <1>4, <1>5, <1>6, <1>7 DEF IInv

-----------------------------------------------------------------------------
(* An admission, joined or not: whatever the ask does with the run that    *)
(* waits, the run out and what was answered and taken stay as they were.   *)
LEMMA AdmissionKeeps ==
    ASSUME IInv, app = "asking", NEW with \in Ids \cup {NoId},
           Refusal(book, with) = "none",
           with # NoId => waiting # NoRun /\ with = waiting.operation,
           book' = Admitted(book, with), app' \notin {"draining", "taking"},
           UNCHANGED <<worker, current, began, mark, shown>>,
           NEW id, id = NextId(book)
    PROVE  /\ BookInv(book') /\ book \in Books /\ book.fault = NoFault /\ book'.fault = NoFault
           /\ id \in Ids /\ id = book.minted + 1 /\ book'.minted = id
           /\ Owed(book') = Owed(book) \cup {id} /\ id \notin Owed(book)
           /\ \A i \in Ids : book'.twin[i] = IF i = id THEN with ELSE book.twin[i]
           /\ \A i \in Ids : book.twin[i] # id
           /\ RunStands(book', current) /\ (with = NoId => RunStands(book', waiting))
           /\ WorkerHoldsARun' /\ RunningIsFresh' /\ AnswersAreFresh'
           /\ TakenFirst' /\ MarkIsEarliest' /\ TakenInOrder'
<1>1. /\ book \in Books /\ BookInv(book) /\ book.minted < MaxMinted /\ book.fault = NoFault
      /\ with # NoId => with \in Owed(book)
  BY DEF IInv, TypeOK, ArrivalsFit, Refusal
<1>2. /\ RunStands(book, waiting) /\ RunStands(book, current) /\ Apart(waiting, current)
      /\ with # NoId => book.twin[with] = NoId
  BY <1>1 DEF IInv, RunsStand, RunStands
<1>3. BookInv(book')
  BY <1>1, AdmittedInv
<1>4. /\ id \in Ids /\ id = book.minted + 1 /\ book'.minted = id
      /\ Owed(book') = Owed(book) \cup {id} /\ Entries(book') = Entries(book) \cup {id}
      /\ id \notin Entries(book) /\ id \notin Owed(book) /\ id # with
      /\ book'.twin = [book.twin EXCEPT ![id] = with]
      /\ book'.terminal = book.terminal /\ book'.fault = book.fault
      /\ \A i \in Ids : book.twin[i] # id
  BY <1>1, <1>2, AdmittedParts
<1>5. \A i \in Ids : book'.twin[i] = IF i = id THEN with ELSE book.twin[i]
  BY <1>1, <1>4 DEF Books
<1>6. current # NoRun => current.operation # with /\ current.operation \in Owed(book)
                         /\ current.operation \in Ids
  BY <1>2, IdsAreNatural DEF Apart, RunStands, Owed
<1>7. RunStands(book', current)
  BY <1>1, <1>2, <1>6, StandsAfterAdmitted
<1>8. with = NoId => RunStands(book', waiting)
  <2> SUFFICES ASSUME with = NoId PROVE RunStands(book', waiting)
    OBVIOUS
  <2>1. waiting # NoRun => waiting.operation # with
    BY <1>2, IdsAreNatural DEF RunStands, Owed
  <2> QED BY <1>1, <1>2, <2>1, StandsAfterAdmitted
<1>9. WorkerHoldsARun'
  BY <1>4 DEF IInv, WorkerHoldsARun
<1>10. RunningIsFresh'
  <2> SUFFICES ASSUME worker \in {"running", "counting"}, NEW i \in Owed(book'),
                      AnsweredBy(book', current, i)
               PROVE  i <= began[current.operation]
    BY DEF RunningIsFresh
  <2>1. current # NoRun
    BY DEF IInv, WorkerHoldsARun
  <2>2. i # id /\ i \in Owed(book) /\ i \in Ids
    BY <1>4, <1>5, <1>6, <2>1 DEF AnsweredBy, Owed
  <2>3. AnsweredBy(book, current, i)
    BY <1>5, <2>2 DEF AnsweredBy
  <2> QED BY <2>2, <2>3 DEF IInv, RunningIsFresh
<1>11. AnswersAreFresh'
  BY <1>4 DEF IInv, AnswersAreFresh
<1>12. TakenFirst'
  <2>1. \A n \in 1..Len(shown) : shown[n] \in Nat
    <3>1. shown \in Seq(Ids)
      BY DEF IInv, TypeOK
    <3>2. \A n \in 1..Len(shown) : shown[n] \in Ids
      BY <3>1
    <3> QED BY <3>2, IdsAreNatural
  <2>2. book.minted \in Nat
    BY <1>1, IdsAreNatural DEF Books
  <2> QED BY <1>4, <2>1, <2>2 DEF IInv, TakenFirst
<1>13. MarkIsEarliest' /\ TakenInOrder'
  BY DEF IInv, MarkIsEarliest, TakenInOrder
<1> QED BY <1>1, <1>3, <1>4, <1>5, <1>7, <1>8, <1>9, <1>10, <1>11, <1>12, <1>13

LEMMA AskJoinsInv ==
    ASSUME IInv, AskJoins
    PROVE  IInv'
<1> DEFINE with == waiting.operation
<1>1. PICK id : id = NextId(book)
  OBVIOUS
<1>2. /\ app = "asking" /\ waiting # NoRun /\ Refusal(book, with) = "none"
      /\ book' = Admitted(book, with) /\ app' = "notifying" /\ hand' = NoHand
      /\ waiting' = [waiting EXCEPT !.newest = id, !.uncounted = waiting.uncounted + 1]
      /\ UNCHANGED <<superseded, worker, current, began, mark, shown, ringing>>
  BY <1>1 DEF AskJoins, JoinsTheWaiting, TheRefusal, workVars, takeVars
<1>3. waiting \in Runs /\ with \in Ids
  BY <1>2 DEF IInv, TypeOK, Runs
<1>4. /\ BookInv(book') /\ book.fault = NoFault /\ book'.fault = NoFault
      /\ id \in Ids /\ id = book.minted + 1 /\ book'.minted = id /\ book \in Books
      /\ Owed(book') = Owed(book) \cup {id}
      /\ \A i \in Ids : book'.twin[i] = IF i = id THEN with ELSE book.twin[i]
      /\ RunStands(book', current)
      /\ WorkerHoldsARun' /\ RunningIsFresh' /\ AnswersAreFresh'
      /\ TakenFirst' /\ MarkIsEarliest' /\ TakenInOrder'
  BY <1>1, <1>2, <1>3, AdmissionKeeps
<1>5. /\ superseded \in Nat /\ waiting.uncounted \in Nat /\ book.minted \in Nat
      /\ superseded + waiting.uncounted <= book.minted /\ id \in Nat /\ id <= MaxMinted
  BY <1>2, <1>3, <1>4, IdsAreNatural
  DEF IInv, TypeOK, Runs, Books, ArrivalsFit, Uncounted, Ids
<1>6. /\ waiting' \in Runs /\ waiting' # NoRun /\ waiting'.operation = with
      /\ waiting'.newest = id /\ waiting'.uncounted = waiting.uncounted + 1
  <2>1. waiting.uncounted + 1 \in 0..MaxMinted
    BY <1>4, <1>5, IdsAreNatural
  <2>2. waiting' \in Runs
    BY <1>2, <1>3, <1>4, <2>1 DEF Runs
  <2> QED BY <1>2, <1>3, <2>2, RunsAreRecords DEF Runs
<1>7. NoHand \in [table : Tables, id : Ids \cup {NoId}]
  BY TablesAssumption DEF NoHand
<1>8. TypeOK'
  BY <1>2, <1>4, <1>6, <1>7 DEF IInv, TypeOK, BookInv
<1>9. ArrivalsFit'
  BY <1>2, <1>4, <1>5, <1>6 DEF ArrivalsFit, Uncounted
<1>10. /\ RunStands(book, waiting) /\ Apart(waiting, current) /\ Owed(book) \subseteq Ids
       /\ \A i \in Owed(book) : \/ AnsweredBy(book, waiting, i)
                                \/ current # NoRun /\ AnsweredBy(book, current, i)
  BY <1>2, <1>4 DEF IInv, RunsStand, Owed
<1>11. RunStands(book', waiting')
  <2>1. \A i \in Owed(book) : i <= book.minted /\ i \in Nat
    BY OwedIsMinted, OwedIsEntered DEF IInv
  <2>2. with \in Owed(book) /\ book.twin[with] = NoId /\ with # id
    BY <1>2, <1>4, <1>5, <1>10, <2>1 DEF RunStands
  <2>3. \A i \in Owed(book') : i <= id
    BY <1>4, <1>5, <2>1
  <2>4. with \in Owed(book') /\ id \in Owed(book')
    BY <1>4, <2>2
  <2>5. book'.twin[with] = NoId /\ book'.twin[id] = with
    BY <1>3, <1>4, <2>2
  <2> QED BY <1>6, <2>3, <2>4, <2>5 DEF RunStands, AnsweredBy
<1>12. RunsStand'
  <2>1. Apart(waiting', current')
    BY <1>2, <1>6, <1>10 DEF Apart
  <2>2. \A i \in Owed(book') : \/ AnsweredBy(book', waiting', i)
                               \/ current' # NoRun /\ AnsweredBy(book', current', i)
    BY <1>2, <1>3, <1>4, <1>6, <1>10 DEF AnsweredBy
  <2> QED BY <1>2, <1>4, <1>6, <1>11, <2>1, <2>2 DEF RunsStand
<1>13. DisplacerStands'
  BY <1>2 DEF DisplacerStands
<1> QED BY <1>4, <1>8, <1>9, <1>12, <1>13 DEF IInv

LEMMA AskStandsInv ==
    ASSUME IInv, AskStands
    PROVE  IInv'
<1>1. PICK id : id = NextId(book)
  OBVIOUS
<1>2. /\ app = "asking" /\ waiting = NoRun /\ Refusal(book, NoId) = "none"
      /\ book' = Admitted(book, NoId) /\ app' = "notifying" /\ hand' = NoHand
      /\ waiting' = RunOf(id, hand.table)
      /\ UNCHANGED <<superseded, worker, current, began, mark, shown, ringing>>
  BY <1>1 DEF AskStands, JoinsTheWaiting, TheRefusal, workVars, takeVars
<1>3. /\ BookInv(book') /\ book.fault = NoFault /\ book'.fault = NoFault
      /\ id \in Ids /\ id = book.minted + 1 /\ book'.minted = id /\ book \in Books
      /\ Owed(book') = Owed(book) \cup {id} /\ id \notin Owed(book)
      /\ \A i \in Ids : book'.twin[i] = IF i = id THEN NoId ELSE book.twin[i]
      /\ \A i \in Ids : book.twin[i] # id
      /\ RunStands(book', current)
      /\ WorkerHoldsARun' /\ RunningIsFresh' /\ AnswersAreFresh'
      /\ TakenFirst' /\ MarkIsEarliest' /\ TakenInOrder'
  BY <1>1, <1>2, AdmissionKeeps
<1>4. /\ waiting' \in Runs /\ waiting' # NoRun /\ waiting'.operation = id
      /\ waiting'.newest = id /\ waiting'.uncounted = 1
  <2>1. hand.table \in Tables
    BY DEF IInv, TypeOK
  <2> QED BY <1>2, <1>3, <2>1, RunsAreRecords
<1>5. NoHand \in [table : Tables, id : Ids \cup {NoId}]
  BY TablesAssumption DEF NoHand
<1>6. TypeOK'
  BY <1>2, <1>3, <1>4, <1>5 DEF IInv, TypeOK, BookInv
<1>7. ArrivalsFit'
  <2>1. superseded \in Nat /\ book.minted \in Nat /\ superseded <= book.minted
    BY <1>2, <1>3, IdsAreNatural DEF IInv, TypeOK, Books, ArrivalsFit, Uncounted
  <2> QED BY <1>2, <1>3, <1>4, <2>1 DEF ArrivalsFit, Uncounted
<1>8. /\ RunStands(book, current) /\ Owed(book) \subseteq Ids
      /\ \A i \in Owed(book) : current # NoRun /\ AnsweredBy(book, current, i)
  BY <1>2, <1>3 DEF IInv, RunsStand, Owed
<1>9. RunStands(book', waiting')
  <2>1. \A i \in Owed(book') : AnsweredBy(book', waiting', i) => i = id
    BY <1>3, <1>4, <1>8 DEF AnsweredBy
  <2> QED BY <1>3, <1>4, <2>1, IdsAreNatural DEF RunStands, AnsweredBy
<1>10. RunsStand'
  <2>1. Apart(waiting', current')
    BY <1>2, <1>3, <1>4, <1>8 DEF Apart, RunStands
  <2>2. \A i \in Owed(book') : \/ AnsweredBy(book', waiting', i)
                               \/ current' # NoRun /\ AnsweredBy(book', current', i)
    BY <1>2, <1>3, <1>4, <1>8 DEF AnsweredBy
  <2> QED BY <1>2, <1>3, <1>4, <1>9, <2>1, <2>2 DEF RunsStand
<1>11. DisplacerStands'
  BY <1>2 DEF DisplacerStands
<1> QED BY <1>3, <1>6, <1>7, <1>10, <1>11 DEF IInv

LEMMA AskDisplacesInv ==
    ASSUME IInv, AskDisplaces
    PROVE  IInv'
<1>1. PICK id : id = NextId(book)
  OBVIOUS
<1>2. /\ app = "asking" /\ waiting # NoRun /\ Refusal(book, NoId) = "none"
      /\ book' = Admitted(book, NoId) /\ app' = "displacing"
      /\ hand' = [hand EXCEPT !.id = id]
      /\ UNCHANGED <<waiting, superseded, worker, current, began, mark, shown, ringing>>
  BY <1>1 DEF AskDisplaces, JoinsTheWaiting, TheRefusal, workVars, takeVars
<1>3. /\ BookInv(book') /\ book.fault = NoFault /\ book'.fault = NoFault
      /\ id \in Ids /\ id = book.minted + 1 /\ book'.minted = id /\ book \in Books
      /\ Owed(book') = Owed(book) \cup {id} /\ id \notin Owed(book)
      /\ \A i \in Ids : book'.twin[i] = IF i = id THEN NoId ELSE book.twin[i]
      /\ \A i \in Ids : book.twin[i] # id
      /\ RunStands(book', current) /\ RunStands(book', waiting)
      /\ WorkerHoldsARun' /\ RunningIsFresh' /\ AnswersAreFresh'
      /\ TakenFirst' /\ MarkIsEarliest' /\ TakenInOrder'
  BY <1>1, <1>2, AdmissionKeeps
<1>4. hand' \in [table : Tables, id : Ids \cup {NoId}] /\ hand'.id = id
  BY <1>2, <1>3 DEF IInv, TypeOK
<1>5. TypeOK'
  BY <1>2, <1>3, <1>4 DEF IInv, TypeOK, BookInv
<1>6. ArrivalsFit'
  <2>1. /\ superseded \in Nat /\ waiting.uncounted \in Nat /\ book.minted \in Nat
        /\ superseded + waiting.uncounted <= book.minted
    BY <1>2, <1>3, IdsAreNatural DEF IInv, TypeOK, Runs, Books, ArrivalsFit, Uncounted
  <2> QED BY <1>2, <1>3, <2>1 DEF ArrivalsFit, Uncounted
<1>7. /\ RunStands(book, waiting) /\ RunStands(book, current) /\ Apart(waiting, current)
      /\ Owed(book) \subseteq Ids
      /\ \A i \in Owed(book) : \/ AnsweredBy(book, waiting, i)
                               \/ current # NoRun /\ AnsweredBy(book, current, i)
  BY <1>2, <1>3 DEF IInv, RunsStand, Owed
<1>8. RunsStand'
  <2>1. \A i \in Owed(book') : \/ AnsweredBy(book', waiting', i)
                               \/ current' # NoRun /\ AnsweredBy(book', current', i)
                               \/ app' = "displacing" /\ i = hand'.id
    BY <1>2, <1>3, <1>4, <1>7 DEF AnsweredBy
  <2> QED BY <1>2, <1>3, <1>7, <2>1 DEF RunsStand, Apart
<1>9. DisplacerStands'
  <2>1. waiting.operation # id /\ (current # NoRun => current.operation # id)
    BY <1>2, <1>3, <1>7 DEF RunStands
  <2>2. \A i \in Ids : book'.twin[i] # id
    BY <1>3, IdsAreNatural
  <2> QED BY <1>2, <1>3, <1>4, <2>1, <2>2 DEF DisplacerStands
<1> QED BY <1>3, <1>5, <1>6, <1>8, <1>9 DEF IInv

-----------------------------------------------------------------------------
(* Ends leave less in the book, and nothing taken behind what is left.     *)
LEMMA EndsKeepTheTaken ==
    ASSUME IInv, BookInv(book'), book'.minted = book.minted,
           Owed(book') \subseteq Owed(book), Entries(book') \subseteq Entries(book),
           app' \in {"draining", "taking"} => app' = app,
           UNCHANGED <<mark, shown>>
    PROVE  TakenFirst' /\ MarkIsEarliest' /\ TakenInOrder'
BY DEF IInv, TakenFirst, MarkIsEarliest, TakenInOrder

LEMMA DisplaceInv ==
    ASSUME IInv, Displace
    PROVE  IInv'
<1> DEFINE id == waiting.operation
           t == Superseded(hand.id)
<1>1. /\ app = "displacing" /\ waiting # NoRun /\ app' = "notifying" /\ hand' = NoHand
      /\ book' = IF PublishAccepted(book, id) THEN Published(book, id, t) ELSE book
      /\ superseded' = superseded + waiting.uncounted
      /\ waiting' = RunOf(hand.id, hand.table)
      /\ UNCHANGED <<worker, current, began, mark, shown, ringing>>
  BY DEF Displace, workVars, takeVars, IInv, DisplacerStands
<1>2. /\ hand.id \in Ids /\ hand.id = book.minted /\ hand.table \in Tables
      /\ waiting \in Runs /\ id \in Ids /\ BookInv(book) /\ book \in Books
  BY <1>1 DEF IInv, TypeOK, DisplacerStands, Runs
<1>3. /\ waiting' \in Runs /\ waiting' # NoRun /\ waiting'.operation = hand.id
      /\ waiting'.newest = hand.id /\ waiting'.uncounted = 1
  BY <1>1, <1>2, RunsAreRecords
<1>4. NoHand \in [table : Tables, id : Ids \cup {NoId}]
  BY TablesAssumption DEF NoHand
<1>5. /\ superseded \in Nat /\ waiting.uncounted \in Nat /\ book.minted \in Nat
      /\ superseded + waiting.uncounted + 1 <= book.minted /\ book.minted <= MaxMinted
  BY <1>1, <1>2, IdsAreNatural DEF IInv, TypeOK, Runs, Books, ArrivalsFit, Uncounted
<1>6. superseded' \in 0..MaxMinted
  BY <1>1, <1>5, IdsAreNatural
<1>7. DisplacerStands'
  BY <1>1 DEF DisplacerStands
<1>8. CASE book.fault = NoFault
  <2>1. /\ RunStands(book, waiting) /\ RunStands(book, current) /\ Apart(waiting, current)
        /\ hand.id \in Owed(book) /\ book.twin[hand.id] = NoId /\ id # hand.id
        /\ current # NoRun => current.operation # hand.id
        /\ \A i \in Ids : book.twin[i] # hand.id
        /\ \A i \in Owed(book) : \/ AnsweredBy(book, waiting, i)
                                 \/ current # NoRun /\ AnsweredBy(book, current, i)
                                 \/ i = hand.id
    BY <1>1, <1>8 DEF IInv, RunsStand, DisplacerStands
  <2>2. /\ PublishAccepted(book, id) /\ t \in Publishable
        /\ \A i \in Owed(book) : i \in EndsWith(book, id) <=> AnsweredBy(book, waiting, i)
    BY <1>1, <1>2, <2>1, AnswersArePublished, PlainTerminals
  <2>3. PICK ends : ends = EndsWith(book, id)
    OBVIOUS
  <2>4. book' = Published(book, id, t)
    BY <1>1, <2>2
  <2> HIDE DEF t
  <2>5. /\ BookInv(book') /\ book'.minted = book.minted /\ book'.fault = NoFault
        /\ Owed(book') = Owed(book) \ ends /\ Entries(book') \subseteq Entries(book)
        /\ ends \subseteq Owed(book) /\ Owed(book) \subseteq Ids
        /\ \A i \in Ids :
              /\ book'.twin[i] = IF i \in ends THEN NoId ELSE book.twin[i]
              /\ book'.terminal[i] = IF i \notin ends THEN book.terminal[i]
                                     ELSE IF i = id THEN t ELSE Joined(id, t)
    BY <1>2, <1>8, <2>2, <2>3, <2>4, PublishedInv, PublishedParts DEF Owed
  <2>6. TypeOK'
    BY <1>1, <1>3, <1>4, <1>6, <2>5 DEF IInv, TypeOK, BookInv
  <2>7. ArrivalsFit' /\ WorkerHoldsARun'
    BY <1>1, <1>3, <1>5, <1>8, <2>5 DEF IInv, ArrivalsFit, Uncounted, WorkerHoldsARun
  <2>8. RunStands(book', current)
    <3>1. current # NoRun => current.operation # id
      BY <1>1, <2>1 DEF Apart
    <3> QED BY <1>2, <2>1, <2>2, <2>4, <3>1, StandsAfterPublished
  <2>9. hand.id \notin ends /\ hand.id \in Owed(book')
    <3>1. ~AnsweredBy(book, waiting, hand.id)
      BY <1>2, <2>1, IdsAreNatural DEF AnsweredBy
    <3> QED BY <2>1, <2>2, <2>3, <2>5, <3>1
  <2>10. RunStands(book', waiting')
    <3>1. \A i \in Owed(book') : AnsweredBy(book', waiting', i) => i = hand.id
      BY <1>2, <1>3, <2>1, <2>5, IdsAreNatural DEF AnsweredBy
    <3>2. book'.twin[hand.id] = NoId
      BY <1>2, <2>1, <2>5
    <3>3. AnsweredBy(book', waiting', waiting'.newest)
      BY <1>3 DEF AnsweredBy
    <3>4. hand.id <= hand.id
      BY <1>2, <1>5
    <3> QED BY <1>3, <2>9, <3>1, <3>2, <3>3, <3>4 DEF RunStands
  <2>11. RunsStand'
    <3>1. Apart(waiting', current')
      BY <1>1, <1>3, <2>1 DEF Apart
    <3>2. \A i \in Owed(book') : \/ AnsweredBy(book', waiting', i)
                                 \/ current' # NoRun /\ AnsweredBy(book', current', i)
      BY <1>1, <1>3, <2>1, <2>2, <2>3, <2>5 DEF AnsweredBy
    <3> QED BY <1>1, <1>3, <2>8, <2>10, <3>1, <3>2 DEF RunsStand
  <2>12. RunningIsFresh'
    BY <1>1, <2>5 DEF IInv, RunningIsFresh, AnsweredBy
  <2>13. AnswersAreFresh'
    <3>1. \A i \in Ids : i \in ends => book'.terminal[i].kind = "Superseded"
      BY <1>2, <2>2, <2>5, JoinedIsATerminal DEF t, Superseded, Plain, Publishable
    <3> QED BY <1>1, <2>5, <3>1 DEF IInv, AnswersAreFresh
  <2>14. TakenFirst' /\ MarkIsEarliest' /\ TakenInOrder'
    BY <1>1, <2>5, EndsKeepTheTaken
  <2> QED BY <1>7, <2>5, <2>6, <2>7, <2>11, <2>12, <2>13, <2>14 DEF IInv
<1>9. CASE book.fault # NoFault
  <2>1. Owed(book) = {} /\ book' = book
    BY <1>1, <1>2, <1>9 DEF BookInv, FaultOwesNothing, PublishAccepted
  <2>2. TypeOK'
    BY <1>1, <1>3, <1>4, <1>6, <2>1 DEF IInv, TypeOK
  <2>3. ArrivalsFit' /\ WorkerHoldsARun'
    BY <1>1, <1>3, <1>5, <2>1 DEF IInv, ArrivalsFit, Uncounted, WorkerHoldsARun
  <2>4. RunsStand' /\ RunningIsFresh' /\ AnswersAreFresh'
    BY <1>1, <1>9, <2>1 DEF IInv, RunsStand, RunningIsFresh, AnswersAreFresh, AnsweredBy
  <2>5. TakenFirst' /\ MarkIsEarliest' /\ TakenInOrder'
    BY <1>1, <2>1 DEF IInv, TakenFirst, MarkIsEarliest, TakenInOrder
  <2> QED BY <1>2, <1>7, <2>1, <2>2, <2>3, <2>4, <2>5 DEF IInv
<1> QED BY <1>8, <1>9

(* Publishing ends the run out and nothing else.                           *)
LEMMA PublishInv ==
    ASSUME IInv, Publish
    PROVE  IInv'
<1> DEFINE id == current.operation
<1>1. /\ worker = "counting" /\ worker' = "waking" /\ current # NoRun /\ current' = NoRun
      /\ book.fault = NoFault
      /\ UNCHANGED <<waiting, superseded, app, hand, began, mark, shown, ringing>>
  BY DEF Publish, askVars, takeVars, IInv, WorkerHoldsARun
<1>2. /\ BookInv(book) /\ id \in Ids /\ RunStands(book, current)
      /\ RunStands(book, waiting) /\ Apart(waiting, current)
      /\ \A i \in Owed(book) : \/ waiting # NoRun /\ AnsweredBy(book, waiting, i)
                               \/ AnsweredBy(book, current, i)
                               \/ app = "displacing" /\ i = hand.id
  BY <1>1 DEF IInv, TypeOK, Runs, RunsStand
<1>3. /\ PublishAccepted(book, id)
      /\ \A i \in Owed(book) : i \in EndsWith(book, id) <=> AnsweredBy(book, current, i)
  BY <1>1, <1>2, AnswersArePublished
<1>4. PICK t \in {Done} \cup {Failed(w) : w \in Words} : book' = Published(book, id, t)
  BY <1>3 DEF Publish
<1>5. t \in Publishable
  BY PlainTerminals
<1>6. PICK ends : ends = EndsWith(book, id)
  OBVIOUS
<1>7. /\ BookInv(book') /\ book'.minted = book.minted /\ book'.fault = NoFault
      /\ Owed(book') = Owed(book) \ ends /\ Entries(book') \subseteq Entries(book)
      /\ ends \subseteq Owed(book) /\ Owed(book) \subseteq Ids
      /\ \A i \in Ids :
            /\ book'.twin[i] = IF i \in ends THEN NoId ELSE book.twin[i]
            /\ book'.terminal[i] = IF i \notin ends THEN book.terminal[i]
                                   ELSE IF i = id THEN t ELSE Joined(id, t)
  BY <1>1, <1>2, <1>3, <1>4, <1>5, <1>6, PublishedInv, PublishedParts DEF Owed
<1>8. TypeOK'
  BY <1>1, <1>7 DEF IInv, TypeOK, BookInv
<1>9. ArrivalsFit' /\ WorkerHoldsARun'
  BY <1>1, <1>7 DEF IInv, ArrivalsFit, WorkerHoldsARun
<1>10. RunStands(book', waiting)
  <2>1. waiting # NoRun => waiting.operation # id
    BY <1>1, <1>2 DEF Apart
  <2> QED BY <1>2, <1>3, <1>4, <1>5, <2>1, StandsAfterPublished
<1>11. RunsStand'
  <2>1. \A i \in Owed(book') : \/ waiting # NoRun /\ AnsweredBy(book', waiting, i)
                               \/ app = "displacing" /\ i = hand.id
    BY <1>2, <1>3, <1>6, <1>7 DEF AnsweredBy
  <2> QED BY <1>1, <1>10, <2>1 DEF RunsStand, RunStands, Apart
<1>12. DisplacerStands'
  <2> SUFFICES ASSUME app = "displacing" PROVE DisplacerStands'
    BY <1>1 DEF DisplacerStands
  <2>1. /\ waiting # NoRun /\ hand.id \in Ids /\ hand.id = book.minted
        /\ hand.id \in Owed(book) /\ book.twin[hand.id] = NoId
        /\ waiting.operation # hand.id /\ id # hand.id
        /\ \A i \in Ids : book.twin[i] # hand.id
    BY <1>1 DEF IInv, DisplacerStands
  <2>2. hand.id \notin ends
    BY <1>2, <1>3, <1>6, <2>1, IdsAreNatural DEF AnsweredBy
  <2> QED BY <1>1, <1>7, <2>1, <2>2, IdsAreNatural DEF DisplacerStands
<1>13. RunningIsFresh'
  BY <1>1 DEF RunningIsFresh
<1>14. AnswersAreFresh'
  <2> SUFFICES ASSUME NEW i \in Ids, book'.terminal[i].kind \in {"Done", "Failed"}
               PROVE  i <= began[IF book'.terminal[i].with = NoId THEN i
                                 ELSE book'.terminal[i].with]
    BY <1>1 DEF AnswersAreFresh
  <2>1. CASE i \notin ends
    <3>1. book'.terminal[i] = book.terminal[i]
      BY <1>7, <2>1
    <3> QED BY <3>1 DEF IInv, AnswersAreFresh
  <2>2. CASE i \in ends
    <3>1. i <= began[id]
      BY <1>1, <1>3, <1>6, <1>7, <2>2 DEF IInv, RunningIsFresh
    <3>2. CASE i = id
      BY <1>5, <1>7, <2>2, <3>1, <3>2 DEF Publishable
    <3>3. CASE i # id
      <4>1. book'.terminal[i] = Joined(id, t)
        BY <1>7, <2>2, <3>3
      <4>2. id \in Ids /\ id # NoId /\ t \in Terminals
        BY <1>2, <1>5, IdsAreNatural DEF Publishable
      <4>3. Joined(id, t).with = id
        BY <4>2, JoinedIsATerminal
      <4> QED BY <3>1, <4>1, <4>2, <4>3
    <3> QED BY <3>2, <3>3
  <2> QED BY <2>1, <2>2
<1>15. TakenFirst' /\ MarkIsEarliest' /\ TakenInOrder'
  BY <1>1, <1>7, EndsKeepTheTaken
<1> QED BY <1>7, <1>8, <1>9, <1>11, <1>12, <1>13, <1>14, <1>15 DEF IInv

LEMMA PanicInv ==
    ASSUME IInv, Panic
    PROVE  IInv'
<1>1. /\ worker \in {"looking", "taken"} /\ worker' \in {"ended", "announcing"}
      /\ current' = NoRun /\ book' = WorkerEnded(book, "Panicked")
      /\ UNCHANGED <<waiting, superseded, app, hand, began, mark, shown, ringing>>
  BY DEF Panic, askVars, takeVars
<1>2. "Panicked" \in Causes /\ BookInv(book)
  BY DEF Causes, IInv
<1>3. /\ BookInv(book') /\ book'.minted = book.minted /\ book'.fault # NoFault
      /\ Owed(book') = {} /\ Entries(book') \subseteq Entries(book)
      /\ \A i \in Ids : book'.terminal[i] = IF i \in Owed(book) THEN GoneTerminal(book, i)
                                            ELSE book.terminal[i]
  BY <1>1, <1>2, WorkerEndedInv, WorkerEndedParts
<1>4. TypeOK'
  BY <1>1, <1>3 DEF IInv, TypeOK, BookInv
<1>5. ArrivalsFit' /\ WorkerHoldsARun'
  BY <1>1, <1>3 DEF IInv, ArrivalsFit, WorkerHoldsARun
<1>6. RunsStand' /\ DisplacerStands' /\ RunningIsFresh'
  BY <1>1, <1>3 DEF IInv, RunsStand, DisplacerStands, RunningIsFresh
<1>7. AnswersAreFresh'
  <2>1. \A i \in Owed(book) : GoneTerminal(book, i).kind = "WorkerGone"
    BY DEF GoneTerminal, WorkerGone, Plain, Joined
  <2> QED BY <1>1, <1>3, <2>1 DEF IInv, AnswersAreFresh
<1>8. TakenFirst' /\ MarkIsEarliest' /\ TakenInOrder'
  BY <1>1, <1>3, EndsKeepTheTaken
<1> QED BY <1>3, <1>4, <1>5, <1>6, <1>7, <1>8 DEF IInv

(* The one taken is the earliest of those below the mark, so everything    *)
(* still in the book was admitted after it.                                *)
LEMMA TakeOneInv ==
    ASSUME IInv, TakeOne
    PROVE  IInv'
<1>1. PICK i \in Takeable : /\ \A j \in Takeable : i <= j
                            /\ book' = Taken(book, i) /\ shown' = Append(shown, i)
  BY DEF TakeOne
<1>2. /\ app = "taking"
      /\ UNCHANGED <<waiting, superseded, app, hand, worker, current, began, mark, ringing>>
  BY DEF TakeOne, askVars, workVars
<1>3. i \in Kept(book) /\ i \in Ids /\ BookInv(book) /\ Below(mark, i)
  BY DEF Takeable, Kept, IInv
<1>4. /\ BookInv(book') /\ book'.minted = book.minted /\ book'.fault = book.fault
      /\ book'.twin = book.twin /\ book'.terminal = book.terminal
      /\ Owed(book') = Owed(book) /\ Entries(book') = Entries(book) \ {i}
  BY <1>1, <1>3, TakenInv, TakenParts
<1>5. shown \in Seq(Ids) /\ shown' \in Seq(Ids) /\ Len(shown) \in Nat
      /\ Len(shown') = Len(shown) + 1 /\ shown'[Len(shown) + 1] = i
      /\ \A n \in 1..Len(shown) : shown'[n] = shown[n] /\ shown[n] \in Ids
  BY <1>1, <1>3 DEF IInv, TypeOK
<1>6. TypeOK'
  BY <1>2, <1>4, <1>5 DEF IInv, TypeOK, BookInv
<1>7. ArrivalsFit' /\ WorkerHoldsARun' /\ RunsStand' /\ DisplacerStands'
  BY <1>2, <1>4 DEF IInv, ArrivalsFit, WorkerHoldsARun, RunsStand, RunStands, AnsweredBy,
                    DisplacerStands
<1>8. RunningIsFresh' /\ AnswersAreFresh' /\ MarkIsEarliest'
  BY <1>2, <1>4 DEF IInv, RunningIsFresh, AnswersAreFresh, MarkIsEarliest, AnsweredBy
<1>9. \A j \in Entries(book') : i < j
  <2> SUFFICES ASSUME NEW j \in Entries(book') PROVE i < j
    OBVIOUS
  <2>1. j \in Entries(book) /\ j # i /\ j \in Nat /\ i \in Nat
    BY <1>3, <1>4, OwedIsMinted, IdsAreNatural
  <2>2. mark \in Nat
    BY IdsAreNatural DEF IInv, TypeOK
  <2>3. CASE j \in Owed(book)
    <3>1. mark # NoId /\ mark <= j
      BY <1>2, <2>3 DEF IInv, MarkIsEarliest
    <3> QED BY <1>3, <2>1, <2>2, <3>1 DEF Below
  <2>4. CASE j \in Kept(book)
    <3>1. CASE Below(mark, j)
      BY <1>1, <2>1, <2>4, <3>1 DEF Takeable
    <3>2. CASE ~Below(mark, j)
      BY <1>3, <2>1, <2>2, <3>2 DEF Below
    <3> QED BY <3>1, <3>2
  <2> QED BY <2>1, <2>3, <2>4, OwedIsEntered
<1>10. i <= book.minted /\ \A n \in 1..Len(shown) : shown[n] < i
  <2>1. i \in Entries(book)
    BY <1>3, OwedIsEntered
  <2> QED BY <1>3, <2>1, OwedIsMinted DEF IInv, TakenFirst
<1>11. TakenFirst'
  <2> SUFFICES ASSUME NEW n \in 1..Len(shown')
               PROVE  /\ shown'[n] <= book'.minted
                      /\ \A j \in Entries(book') : shown'[n] < j
    BY DEF TakenFirst
  <2>1. CASE n = Len(shown) + 1
    BY <1>4, <1>5, <1>9, <1>10, <2>1
  <2>2. CASE n \in 1..Len(shown)
    BY <1>4, <1>5, <2>2 DEF IInv, TakenFirst
  <2> QED BY <1>5, <2>1, <2>2
<1>12. TakenInOrder'
  <2> SUFFICES ASSUME NEW m \in 1..Len(shown'), NEW n \in 1..Len(shown'), m < n
               PROVE  shown'[m] < shown'[n]
    BY DEF TakenInOrder
  <2>1. m \in 1..Len(shown)
    BY <1>5
  <2>2. CASE n = Len(shown) + 1
    BY <1>5, <1>10, <2>1, <2>2
  <2>3. CASE n \in 1..Len(shown)
    BY <1>5, <2>1, <2>3 DEF IInv, TakenInOrder
  <2> QED BY <1>5, <2>2, <2>3
<1> QED BY <1>4, <1>6, <1>7, <1>8, <1>11, <1>12 DEF IInv

-----------------------------------------------------------------------------
LEMMA NextInv == IInv /\ [Next]_vars => IInv'
<1> SUFFICES ASSUME IInv, [Next]_vars PROVE IInv'
  OBVIOUS
<1>1. ASSUME NEW table \in Tables, AskBegins(table) PROVE IInv'
  BY <1>1, AskQuietlyInv
<1>2. CASE AppGoesOn \/ TakeUnasked
  BY <1>2, AskQuietlyInv, TakeQuietlyInv, AskJoinsInv, AskStandsInv, AskDisplacesInv,
     DisplaceInv, TakeOneInv
  DEF AppGoesOn
<1>3. CASE WorkerGoesOn \/ Stir \/ Panic
  BY <1>3, WorkQuietlyInv, PopInv, BeginInv, CountArrivalsInv, PublishInv, PanicInv
  DEF WorkerGoesOn
<1>4. CASE UNCHANGED vars
  <2>1. /\ TypeOK' /\ BookInv(book') /\ ArrivalsFit' /\ WorkerHoldsARun' /\ RunsStand'
    BY <1>4 DEF vars, askVars, workVars, takeVars, IInv, TypeOK, ArrivalsFit, WorkerHoldsARun,
                RunsStand
  <2>2. /\ DisplacerStands' /\ RunningIsFresh' /\ AnswersAreFresh'
    BY <1>4 DEF vars, askVars, workVars, takeVars, IInv, DisplacerStands, RunningIsFresh,
                AnswersAreFresh
  <2>3. /\ TakenFirst' /\ MarkIsEarliest' /\ TakenInOrder'
    BY <1>4 DEF vars, askVars, workVars, takeVars, IInv, TakenFirst, MarkIsEarliest,
                TakenInOrder
  <2> QED BY <2>1, <2>2, <2>3 DEF IInv
<1> QED BY <1>1, <1>2, <1>3, <1>4 DEF Next

LEMMA Invariance == Spec => []IInv
BY InitInv, NextInv, PTL DEF Spec

-----------------------------------------------------------------------------
(* Every state of the lane is of its type: the counts never pass what was  *)
(* asked, the run waiting and the run out are numbered by identities       *)
(* minted.                                                                 *)
THEOREM LaneTypeCorrect == Spec => []TypeOK
<1>1. IInv => TypeOK
  BY DEF IInv
<1> QED BY <1>1, Invariance, PTL

(* However asks join and displace, and whenever the worker takes, ends or  *)
(* dies: while the lane is not in fault every request owed is answered by  *)
(* the run out or the run waiting, each numbered by its newest request.    *)
THEOREM StandingAnswers == Spec => []StandingAnswersEverything
<1>1. ASSUME IInv PROVE StandingAnswersEverything
  <2> SUFFICES ASSUME book.fault = NoFault
      PROVE /\ Owed(book) \subseteq
                  (UNION {Answers(run) : run \in {waiting, current} \ {NoRun}})
                     \cup (IF app = "displacing" THEN {hand.id} ELSE {})
            /\ \A run \in {waiting, current} \ {NoRun} :
                  run.newest \in Answers(run) /\ \A i \in Answers(run) : i <= run.newest
    BY DEF StandingAnswersEverything
  <2>1. \A run : Answers(run) = {i \in Owed(book) : AnsweredBy(book, run, i)}
    BY DEF Answers, AnsweredBy
  <2>2. \A i \in Owed(book) : \/ waiting # NoRun /\ AnsweredBy(book, waiting, i)
                              \/ current # NoRun /\ AnsweredBy(book, current, i)
                              \/ app = "displacing" /\ i = hand.id
    BY <1>1 DEF IInv, RunsStand
  <2>3. \A run \in {waiting, current} \ {NoRun} : RunStands(book, run)
    BY <1>1 DEF IInv, RunsStand
  <2>4. \A run \in {waiting, current} \ {NoRun} :
           run.newest \in Answers(run) /\ \A i \in Answers(run) : i <= run.newest
    BY <2>1, <2>3 DEF RunStands
  <2> DEFINE answered == UNION {Answers(run) : run \in {waiting, current} \ {NoRun}}
             latest == IF app = "displacing" THEN {hand.id} ELSE {}
  <2>5. ASSUME NEW i \in Owed(book) PROVE i \in answered \cup latest
    <3>1. CASE waiting # NoRun /\ AnsweredBy(book, waiting, i)
      <4>1. waiting \in {waiting, current} \ {NoRun} /\ i \in Answers(waiting)
        BY <2>1, <3>1
      <4> QED BY <4>1
    <3>2. CASE current # NoRun /\ AnsweredBy(book, current, i)
      <4>1. current \in {waiting, current} \ {NoRun} /\ i \in Answers(current)
        BY <2>1, <3>2
      <4> QED BY <4>1
    <3>3. CASE app = "displacing" /\ i = hand.id
      BY <3>3
    <3> QED BY <2>2, <3>1, <3>2, <3>3
  <2> HIDE DEF answered, latest
  <2>6. Owed(book) \subseteq answered \cup latest
    BY <2>5
  <2> QED BY <2>4, <2>6 DEF answered, latest
<1> QED BY <1>1, Invariance, PTL

(* No answer is older than its question, for any number of requests joined *)
(* to a run, of runs displaced and of questions asked while one is out.    *)
THEOREM AnswersStayFresh == Spec => []AnswersAreFresh
<1>1. IInv => AnswersAreFresh
  BY DEF IInv
<1> QED BY <1>1, Invariance, PTL

(* The terminals reach the window thread in the order of admission, though *)
(* a displaced request ends before the run that was out before it.         *)
THEOREM TakenAsAdmitted == Spec => []TakenInOrder
<1>1. IInv => TakenInOrder
  BY DEF IInv
<1> QED BY <1>1, Invariance, PTL

-----------------------------------------------------------------------------
(* The lane implements the seam's promise.                                 *)

(* The window thread keeps the requests it makes until it has taken them.  *)
NobodyGone == \A i \in Ids : ~book.gone[i]

StageMap   == [i \in Ids |-> StageOf(i)]
HeldMap    == [i \in Ids |-> ~book.gone[i]]
OutcomeMap == [i \in Ids |-> Outcome(book.terminal[i])]
OpenMap    == book.fault = NoFault

(* Asks: admitted, whatever run the request goes to.                       *)
LEMMA AskRefines ==
    ASSUME IInv, app = "asking", NEW with \in Ids \cup {NoId},
           Refusal(book, with) = "none", book' = Admitted(book, with)
    PROVE  Promise!Ask /\ book'.gone = book.gone
<1> DEFINE id == book.minted + 1
<1>1. book \in Books /\ book.minted < MaxMinted /\ book.fault = NoFault
  BY DEF IInv, TypeOK, ArrivalsFit, Refusal
<1>2. id \in Ids
  BY <1>1, IdsAreNatural DEF Books, Ids
<1>3. /\ book'.minted = id /\ book'.gone = book.gone /\ book'.terminal = book.terminal
      /\ book'.fault = book.fault
      /\ book'.place = [book.place EXCEPT ![id] = "owed"]
  BY <1>1 DEF Admitted, Books, NextId
<1>4. StageMap' = [StageMap EXCEPT ![id] = "owed"]
  BY <1>1, <1>2, <1>3 DEF StageMap, StageOf, Books
<1>5. HeldMap' = HeldMap /\ OutcomeMap' = OutcomeMap /\ OpenMap' = OpenMap /\ OpenMap
  BY <1>1, <1>3 DEF HeldMap, OutcomeMap, OpenMap, Outcome
<1> QED BY <1>1, <1>3, <1>4, <1>5
        DEF Promise!Ask, StageMap, HeldMap, OutcomeMap, OpenMap

(* Requests that end together, with one outcome between them, each kept    *)
(* for the window thread.                                                  *)
LEMMA EndedRefines ==
    ASSUME IInv, NobodyGone, NEW ends \in SUBSET Owed(book),
           NEW terminals, DOMAIN terminals = ends,
           NEW outcome, \A i \in ends : Outcome(terminals[i]) = outcome,
           book'.minted = book.minted, book'.gone = book.gone,
           book'.place = Ended(book, terminals).place,
           book'.terminal = Ended(book, terminals).terminal
    PROVE  Promise!EndTogether(ends, outcome)
<1>1. book \in Books
  BY DEF IInv, BookInv
<1>2. /\ \A i \in Ids : book'.place[i] = IF i \in ends THEN "kept" ELSE book.place[i]
      /\ \A i \in Ids : book'.terminal[i] = IF i \in ends THEN terminals[i]
                                            ELSE book.terminal[i]
  BY <1>1 DEF Ended, Books, NobodyGone
<1>3. \A i \in ends : i \in Ids /\ book.place[i] = "owed"
  BY DEF Owed
<1>4. StageMap' = [i \in Ids |-> IF i \in {} THEN "sunk"
                                ELSE IF i \in ends THEN "ended" ELSE StageMap[i]]
  BY <1>2, <1>3 DEF StageMap, StageOf
<1>5. OutcomeMap' = [i \in Ids |-> IF i \in ends THEN outcome ELSE OutcomeMap[i]]
  BY <1>2 DEF OutcomeMap
<1>6. HeldMap' = HeldMap
  BY DEF HeldMap
<1>7. Promise!Ids = Ids
  BY DEF Promise!Ids, Ids
<1>8. ends \subseteq Promise!Owed
  BY <1>3, <1>7 DEF Promise!Owed, StageOf
<1>9. \E heard \in SUBSET {i \in ends : ~HeldMap[i]} :
         StageMap' = [i \in Ids |-> IF i \in heard THEN "sunk"
                                   ELSE IF i \in ends THEN "ended" ELSE StageMap[i]]
  <2> WITNESS {} \in SUBSET {i \in ends : ~HeldMap[i]}
  <2> QED BY <1>4
<1> QED BY <1>5, <1>6, <1>7, <1>8, <1>9
        DEF Promise!EndTogether, StageMap, OutcomeMap, HeldMap

(* A publication, the worker's or a displacement's, ends an operation and  *)
(* everything joined to it.                                                *)
LEMMA PublishedRefines ==
    ASSUME IInv, NobodyGone, NEW id, PublishAccepted(book, id),
           NEW t \in {Done} \cup {Failed(w) : w \in Words} \cup {Superseded(by) : by \in Ids},
           book' = Published(book, id, t)
    PROVE  Promise!End /\ book'.gone = book.gone
<1> DEFINE ends == EndsWith(book, id)
           terminals == [i \in ends |-> IF i = id THEN t ELSE Joined(id, t)]
<1>1. book \in Books /\ BookInv(book) /\ t \in Publishable
  BY PlainTerminals DEF IInv, BookInv
<1>2. ends \subseteq Owed(book) /\ id \in ends
  BY <1>1, PublishedInv DEF EndsWith
<1>3. \A i \in ends : Outcome(terminals[i]) = t
  BY <1>1 DEF Outcome, Joined, Publishable, Terminals, NoId
<1>4. /\ book'.minted = book.minted /\ book'.gone = book.gone /\ book'.fault = book.fault
      /\ book'.place = Ended(book, terminals).place
      /\ book'.terminal = Ended(book, terminals).terminal
  BY <1>1 DEF Published, Ended, Books
<1>5. DOMAIN terminals = ends
  OBVIOUS
<1> HIDE DEF terminals, ends
<1>6. Promise!EndTogether(ends, t)
  BY <1>2, <1>3, <1>4, <1>5, EndedRefines
<1>7. ends \in SUBSET Promise!Owed /\ ends # {}
  BY <1>2, <1>6 DEF Promise!EndTogether
<1> QED BY <1>4, <1>6, <1>7 DEF Promise!End

LEMMA PanicRefines ==
    ASSUME IInv, NobodyGone, Panic
    PROVE  Promise!Close /\ book'.gone = book.gone
<1> DEFINE ends == EndedByWorker(book)
           terminals == [i \in ends |-> GoneTerminal(book, i)]
<1>1. "Panicked" \in Causes /\ book' = WorkerEnded(book, "Panicked")
  BY DEF Panic, Causes
<1>2. book \in Books /\ BookInv(book) /\ ends = Owed(book)
  BY <1>1, WorkerEndedInv DEF IInv, BookInv
<1>3. \A i \in ends : Outcome(terminals[i]) = WorkerGone
  BY DEF Outcome, GoneTerminal, Joined, WorkerGone, Plain
<1>4. /\ book'.minted = book.minted /\ book'.gone = book.gone
      /\ book'.place = Ended(book, terminals).place
      /\ book'.terminal = Ended(book, terminals).terminal
      /\ book'.fault = IF book.fault = NoFault THEN "Panicked" ELSE book.fault
  BY <1>1, <1>2 DEF WorkerEnded, Ended, Books
<1>5. DOMAIN terminals = ends /\ book'.fault # NoFault
  BY <1>4 DEF NoFault
<1> HIDE DEF terminals, ends
<1>6. Promise!EndTogether(ends, WorkerGone)
  BY <1>2, <1>3, <1>4, <1>5, EndedRefines
<1>7. Promise!Owed = ends
  BY <1>2 DEF Promise!Owed, Promise!Ids, Ids, Owed, StageOf
<1> QED BY <1>4, <1>5, <1>6, <1>7 DEF Promise!Close

LEMMA TakeOneRefines ==
    ASSUME IInv, NobodyGone, TakeOne
    PROVE  (\E i \in Ids : Promise!Answer(i)) /\ book'.gone = book.gone
<1>1. PICK id \in Takeable : book' = Taken(book, id)
  BY DEF TakeOne
<1>2. book \in Books /\ id \in Ids /\ book.place[id] = "kept" /\ ~book.gone[id]
  BY DEF IInv, BookInv, Takeable, Kept, NobodyGone
<1>3. /\ book'.minted = book.minted /\ book'.gone = book.gone
      /\ book'.terminal = book.terminal /\ book'.fault = book.fault
      /\ book'.place = [book.place EXCEPT ![id] = "taken"]
  BY <1>1, <1>2 DEF Taken, Books
<1>4. /\ StageMap[id] = "ended" /\ HeldMap[id]
      /\ StageMap' = [StageMap EXCEPT ![id] = "answered"]
  <2>1. StageMap[id] = "ended" /\ HeldMap[id]
    BY <1>2 DEF StageMap, HeldMap, StageOf
  <2>2. book'.place[id] = "taken" /\ \A i \in Ids \ {id} : book'.place[i] = book.place[i]
    BY <1>2, <1>3 DEF Books
  <2>3. StageOf(id)' = "answered" /\ \A i \in Ids \ {id} : StageOf(i)' = StageOf(i)
    BY <1>2, <2>2 DEF StageOf
  <2> QED BY <2>1, <2>3 DEF StageMap
<1>5. HeldMap' = HeldMap /\ OutcomeMap' = OutcomeMap /\ OpenMap' = OpenMap
  BY <1>3 DEF HeldMap, OutcomeMap, OpenMap, Outcome
<1>6. Promise!Answer(id)
  BY <1>2, <1>3, <1>4, <1>5
  DEF Promise!Answer, StageMap, HeldMap, OutcomeMap, OpenMap
<1> QED BY <1>2, <1>3, <1>6

-----------------------------------------------------------------------------
(* A step that leaves the book alone is a stutter of the promise.          *)
LEMMA Unseen ==
    ASSUME UNCHANGED book
    PROVE  UNCHANGED Promise!vars /\ book'.gone = book.gone
BY DEF Promise!vars, StageOf, Outcome

LEMMA InitRefines == Init => Promise!Init /\ NobodyGone
<1> SUFFICES ASSUME Init PROVE Promise!Init /\ NobodyGone
  OBVIOUS
<1>1. /\ book.minted = 0 /\ book.fault = NoFault
      /\ \A i \in Ids : book.place[i] = "unminted" /\ ~book.gone[i] /\ book.terminal[i] = Unended
  BY DEF Init, EmptyBook
<1>2. \A i \in Ids : StageOf(i) = "unasked" /\ Outcome(book.terminal[i]) = Unended
  BY <1>1 DEF StageOf, Outcome, Unended
<1> QED BY <1>1, <1>2 DEF Promise!Init, Promise!Ids, Ids, NobodyGone

LEMMA StepRefines ==
    ASSUME IInv, NobodyGone, [Next]_vars
    PROVE  [Promise!Next]_(Promise!vars) /\ book'.gone = book.gone
<1>1. CASE AskJoins
  <2>1. waiting.operation \in Ids
    BY <1>1 DEF AskJoins, JoinsTheWaiting, IInv, TypeOK, Runs
  <2>2. /\ app = "asking" /\ Refusal(book, waiting.operation) = "none"
        /\ book' = Admitted(book, waiting.operation)
    BY <1>1 DEF AskJoins, JoinsTheWaiting, TheRefusal
  <2> QED BY <2>1, <2>2, AskRefines DEF Promise!Next
<1>2. CASE AskStands \/ AskDisplaces
  <2>1. /\ app = "asking" /\ Refusal(book, NoId) = "none" /\ book' = Admitted(book, NoId)
    BY <1>2 DEF AskStands, AskDisplaces, JoinsTheWaiting, TheRefusal
  <2> QED BY <2>1, AskRefines DEF Promise!Next
<1>3. CASE Displace
  <2>1. CASE PublishAccepted(book, waiting.operation)
    <3>1. hand.id \in Ids
      BY <1>3 DEF Displace, IInv, DisplacerStands
    <3>2. book' = Published(book, waiting.operation, Superseded(hand.id))
      BY <1>3, <2>1 DEF Displace
    <3> QED BY <2>1, <3>1, <3>2, PublishedRefines DEF Promise!Next
  <2>2. CASE ~PublishAccepted(book, waiting.operation)
    BY <1>3, <2>2, Unseen DEF Displace
  <2> QED BY <2>1, <2>2
<1>4. CASE Publish
  <2>1. CASE PublishAccepted(book, current.operation)
    <3>1. PICK t \in {Done} \cup {Failed(w) : w \in Words} :
             book' = Published(book, current.operation, t)
      BY <1>4, <2>1 DEF Publish
    <3> QED BY <2>1, <3>1, PublishedRefines DEF Promise!Next
  <2>2. CASE ~PublishAccepted(book, current.operation)
    <3>1. UNCHANGED book
      BY <1>4, <2>2 DEF Publish
    <3> QED BY <3>1, Unseen
  <2> QED BY <2>1, <2>2
<1>5. CASE Panic
  BY <1>5, PanicRefines DEF Promise!Next
<1>6. CASE TakeOne
  BY <1>6, TakeOneRefines DEF Promise!Next, Promise!Ids, Ids
<1>7. CASE UNCHANGED book
  BY <1>7, Unseen
<1>8. \/ AskJoins \/ AskStands \/ AskDisplaces \/ Displace \/ Publish \/ Panic \/ TakeOne
      \/ UNCHANGED book
  BY DEF Next, AppGoesOn, WorkerGoesOn, vars, AskBegins, AskRefused, Notify, TakeOnTheWake,
         TakeUnasked, Take, TakeLocks, TakeEnds, Pop, Sleep, Begin, CountArrivals, Wake,
         Announce, Stir
<1> QED BY <1>1, <1>2, <1>3, <1>4, <1>5, <1>6, <1>7, <1>8

(* Every request the lane admits ends exactly once and is taken once,      *)
(* however many are joined, displaced or left behind by a worker's death.  *)
THEOREM LaneKeepsThePromise == Spec => KeepsThePromise
<1>1. IInv /\ NobodyGone /\ [Next]_vars => NobodyGone' /\ [Promise!Next]_(Promise!vars)
  BY StepRefines DEF NobodyGone
<1> QED BY <1>1, InitRefines, Invariance, PTL DEF Spec, KeepsThePromise, Promise!Spec
=============================================================================
