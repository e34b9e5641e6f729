--------------------------- MODULE GitTurnsProofs ---------------------------
(***************************************************************************)
(* Proofs about GitTurns, for any repositories, questions, verbs, shares   *)
(* and bound: its type, that one repository runs one verb at a time and    *)
(* never beside a read of it, that reads and verbs take their turns in the *)
(* order they were asked and pressed, that no stale reading is filed, that *)
(* no wake is lost, and that reads and verbs never wait in a circle.       *)
(***************************************************************************)
EXTENDS GitTurns, WellFoundedInduction, TLAPS

Busy       == {"turning", "waiting", "running", "publishing"}

(* One share per repository is known, and between two drains it is the one *)
(* the lane holds.                                                         *)
SharesWhole ==
    /\ live \subseteq known /\ known \subseteq 1..made
    /\ \A s, r \in known : root[s] = root[r] => s = r
    /\ app # "forgetting" => known = live

(* What is owed is owed on a share the lane holds.                         *)
VerbsWhole ==
    /\ \A v \in Verbs : v > pressed => verb[v] = "unpressed" /\ shareOf[v] = None
    /\ \A v \in Verbs : v <= pressed => shareOf[v] \in 1..made
    /\ \A s \in Shares : minted[s] <= pressed
    /\ \A v \in Verbs : shareOf[v] \in Shares => v <= minted[shareOf[v]]
    /\ \A v \in Verbs : verb[v] \in {"owed", "orphan"} => shareOf[v] \in live

(* A worker past the line has the earliest verb its share owes.            *)
WorkersWhole ==
    /\ \A s \in Shares : s \in running <=> worker[s] = "running"
    /\ \A s \in Shares : worker[s] \in Busy =>
          current[s] \in Owed(s) /\ \A v \in Owed(s) : current[s] <= v
    /\ \A s \in Shares : worker[s] \notin Busy => current[s] = None

(* A question is in one place, and one parked or beginning is asked.       *)
QuestionsWhole ==
    /\ inbox \cap line = {} /\ inbox \cap parked = {} /\ line \cap parked = {}
    /\ question \notin inbox \cup line \cup parked
    /\ \A q \in Questions : before[q] <= pressed
    /\ \A a \in asked : a.question \in 1..mailed /\ a.folder = Folder(a.question)
    /\ \A q \in parked : \E a \in asked : a.question = q
    /\ reader = "beginning" => \E a \in asked : a.question = question

(* A read asked waits for every verb owed that was pressed before it was   *)
(* mailed.                                                                 *)
ReadsCover ==
    \A a \in asked : \A v \in 1..before[a.question] :
        root[shareOf[v]] = a.folder /\ v \in Owed(shareOf[v]) =>
            a.behind = shareOf[v] /\ v <= a.last
-----------------------------------------------------------------------------
(* What each thread leaves alone.                                          *)
USE DEF drainVars, shareVars, workVars, verbVars, turnVars, mailVars, readVars, filedVars

LEMMA WindowLeaves ==
    ASSUME WindowAsks \/ WindowGoesOn
    PROVE  /\ UNCHANGED <<current, fault, running, asked, reading, line, parked, reader, question,
                         at, nudged, ran>>
           /\ worker' = worker \/ worker' = Told(worker)
                \/ \E s \in Shares : Press(s) \/ Forget(s)
BY DEF WindowAsks, Mail, PressMakes, Press, WindowGoesOn, PressRefused, DrainBegins, DrainSettles,
       File, DrainTakes, Forget

LEMMA ReaderLeaves ==
    ASSUME ReaderGoesOn \/ ReaderPanics
    PROVE  /\ UNCHANGED <<app, todo, receipts, made, live, root, known, current, fault, running,
                         pressed, verb, shareOf, minted, mailed, target, ran, filed, told>>
           /\ worker' = worker \/ worker' = Told(worker)
BY DEF ReaderGoesOn, Post, Posted, LookAtParked, BeginRead, ParkRead, TakeQuestion, WaitForMail,
       Receive, AskTurn, BeginOrPark, Answer, ReadOver, ReaderPanics

LEMMA WorkerLeaves ==
    ASSUME NEW s \in Shares, WorkerGoesOn(s) \/ Stir(s) \/ Panic(s)
    PROVE  UNCHANGED <<app, todo, receipts, responses, made, live, root, known, pressed, shareOf,
                       minted, mailed, target, inbox, line, parked, reader, question, at, asked,
                       reading, before, saw, filed, told>>
BY DEF WorkerGoesOn, Pop, Sleep, Stir, WaitTurn, TakeTurn, VerbOver, Publish, Tell, Ring, Panic,
       Return

(* Next, thread by thread.                                                 *)
LEMMA NextByThread ==
    ASSUME [Next]_vars
    PROVE  \/ WindowAsks \/ WindowGoesOn
           \/ ReaderGoesOn \/ ReaderPanics
           \/ \E s \in Shares : WorkerGoesOn(s) \/ Stir(s) \/ Panic(s)
           \/ UNCHANGED vars
BY DEF Next

-----------------------------------------------------------------------------
(* The type of the state.                                                  *)
USE GitAssumption

LEMMA WindowTypeStep == ASSUME TypeOK, [Next]_vars PROVE WindowType'
<1> USE DEF WindowType
<1>0. WindowType
  BY DEF TypeOK
<1>1. CASE WindowAsks \/ WindowGoesOn
  BY <1>0, <1>1 DEF TypeOK, ShareType, Questions, WindowAsks, Mail, PressMakes, Press, WindowGoesOn,
     PressRefused, DrainBegins, DrainSettles, File, Drained, DrainTakes, Takeable, VerbsOf, Forget
<1>2. CASE ReaderGoesOn \/ ReaderPanics
  <2>1. UNCHANGED <<app, todo, receipts>>
    BY <1>2, ReaderLeaves
  <2>2. CASE Answer
    <3>1. question \in Questions
      BY <2>2 DEF TypeOK, ReadType, Questions, None, Answer
    <3> QED BY <1>0, <2>1, <2>2, <3>1 DEF Answer
  <2>3. CASE ~Answer
    BY <1>0, <1>2, <2>1, <2>3 DEF ReaderGoesOn, Post, Posted, LookAtParked, BeginRead, ParkRead,
       TakeQuestion, WaitForMail, Receive, AskTurn, BeginOrPark, ReadOver, ReaderPanics
  <2> QED BY <2>2, <2>3
<1>3. ASSUME NEW s \in Shares, WorkerGoesOn(s) \/ Stir(s) \/ Panic(s) PROVE WindowType'
  <2>1. UNCHANGED <<app, todo, receipts, responses>>
    BY <1>3, WorkerLeaves
  <2>2. ringing' \in BOOLEAN
    BY <1>0, <1>3 DEF WorkerGoesOn, Pop, Sleep, Stir, WaitTurn, TakeTurn, VerbOver, Publish,
       Tell, Ring, Panic, Return
  <2> QED BY <1>0, <2>1, <2>2
<1>4. CASE UNCHANGED vars
  BY <1>0, <1>4 DEF vars
<1> QED BY <1>1, <1>2, <1>3, <1>4, NextByThread

LEMMA ShareTypeStep == ASSUME TypeOK, [Next]_vars PROVE ShareType'
<1> USE DEF ShareType, Shares
<1>0. ShareType
  BY DEF TypeOK
<1>1. CASE WindowAsks \/ WindowGoesOn
  <2>1. CASE \E f \in Folders : PressMakes(f)
    BY <1>0, <2>1 DEF PressMakes
  <2>2. CASE DrainSettles
    BY <1>0, <2>2 DEF DrainSettles
  <2>3. CASE \E s \in Shares : Forget(s)
    BY <1>0, <2>3 DEF Forget
  <2>4. CASE UNCHANGED <<made, live, root, known>>
    BY <1>0, <2>4
  <2>5. CASE (\E t \in Targets : Mail(t)) \/ (\E s \in Shares : Press(s) \/ DrainTakes(s))
             \/ PressRefused \/ DrainBegins \/ File
    BY <2>4, <2>5 DEF Mail, Press, DrainTakes, PressRefused, DrainBegins, File
  <2> QED BY <1>1, <2>1, <2>2, <2>3, <2>5 DEF WindowAsks, WindowGoesOn
<1>2. CASE ReaderGoesOn \/ ReaderPanics
  BY <1>0, <1>2, ReaderLeaves
<1>3. ASSUME NEW s \in Shares, WorkerGoesOn(s) \/ Stir(s) \/ Panic(s) PROVE ShareType'
  BY <1>0, <1>3, WorkerLeaves
<1>4. CASE UNCHANGED vars
  BY <1>0, <1>4 DEF vars
<1> QED BY <1>1, <1>2, <1>3, <1>4, NextByThread

LEMMA ToldType == worker \in [Shares -> WorkerPlaces] => Told(worker) \in [Shares -> WorkerPlaces]
BY DEF Told, WorkerPlaces

LEMMA WorkerTypeStep == ASSUME TypeOK, [Next]_vars PROVE WorkerType'
<1> USE DEF WorkerType
<1>0. WorkerType
  BY DEF TypeOK
<1>1. CASE WindowAsks \/ WindowGoesOn
  <2>1. UNCHANGED <<current, fault, running>>
    BY <1>1, WindowLeaves
  <2>2. ASSUME NEW s \in Shares, Press(s) \/ Forget(s) PROVE worker' \in [Shares -> WorkerPlaces]
    BY <1>0, <2>2, ToldType DEF Press, Forget, WorkerPlaces
  <2> QED BY <1>0, <1>1, <2>1, <2>2, ToldType, WindowLeaves
<1>2. CASE ReaderGoesOn \/ ReaderPanics
  BY <1>0, <1>2, ReaderLeaves, ToldType
<1>3. ASSUME NEW s \in Shares, WorkerGoesOn(s) \/ Stir(s) \/ Panic(s) PROVE WorkerType'
  <2>1. worker' \in [Shares -> WorkerPlaces]
    BY <1>0, <1>3, ToldType DEF WorkerPlaces, WorkerGoesOn, Pop, Sleep, Stir, WaitTurn, TakeTurn,
       VerbOver, Publish, Tell, Ring, Panic, AfterPanic, Return
  <2>2. current' \in [Shares -> Verbs \cup {None}]
    BY <1>0, <1>3 DEF WorkerGoesOn, Pop, Sleep, Stir, WaitTurn, TakeTurn,
       VerbOver, Publish, Tell, Ring, Panic, Return
  <2>3. fault' \subseteq Shares /\ running' \subseteq Shares
    BY <1>0, <1>3 DEF WorkerGoesOn, Pop, Sleep, Stir, WaitTurn, TakeTurn,
       VerbOver, Publish, Tell, Ring, Panic, Return
  <2> QED BY <2>1, <2>2, <2>3
<1>4. CASE UNCHANGED vars
  BY <1>0, <1>4 DEF vars
<1> QED BY <1>1, <1>2, <1>3, <1>4, NextByThread

LEMMA VerbTypeStep == ASSUME TypeOK, [Next]_vars PROVE VerbType'
<1> USE DEF VerbType
<1>0. VerbType
  BY DEF TypeOK
<1>1. CASE WindowAsks \/ WindowGoesOn
  <2>1. ASSUME NEW s \in Shares, Press(s) PROVE VerbType'
    BY <1>0, <2>1 DEF Press, Verbs
  <2>2. ASSUME NEW s \in Shares, DrainTakes(s) PROVE VerbType'
    BY <1>0, <2>2 DEF DrainTakes
  <2>3. ASSUME NEW s \in Shares, Forget(s) PROVE VerbType'
    BY <1>0, <2>3 DEF Forget
  <2>4. CASE (\E t \in Targets : Mail(t)) \/ (\E f \in Folders : PressMakes(f))
    BY <1>0, <2>4 DEF Mail, PressMakes
  <2>5. CASE PressRefused \/ DrainBegins \/ DrainSettles \/ File
    BY <1>0, <2>5 DEF PressRefused, DrainBegins, DrainSettles, File
  <2> QED BY <1>1, <2>1, <2>2, <2>3, <2>4, <2>5 DEF WindowAsks, WindowGoesOn
<1>2. CASE ReaderGoesOn \/ ReaderPanics
  BY <1>0, <1>2, ReaderLeaves
<1>3. ASSUME NEW s \in Shares, WorkerGoesOn(s) \/ Stir(s) \/ Panic(s) PROVE VerbType'
  <2>1. UNCHANGED <<pressed, shareOf, minted>>
    BY <1>3, WorkerLeaves
  <2>2. CASE Publish(s) \/ Panic(s)
    <3>1. \A v : EndOf(v) \in {"kept", "sunk"}
      BY DEF EndOf
    <3> QED BY <1>0, <2>1, <2>2, <3>1 DEF Publish, Panic
  <2>3. CASE ~(Publish(s) \/ Panic(s))
    BY <1>0, <1>3, <2>1, <2>3 DEF WorkerGoesOn, Pop, Sleep, Stir, WaitTurn, TakeTurn, VerbOver,
       Tell, Ring, Return
  <2> QED BY <2>2, <2>3
<1>4. CASE UNCHANGED vars
  BY <1>0, <1>4 DEF vars
<1> QED BY <1>1, <1>2, <1>3, <1>4, NextByThread

LEMMA ReadTypeStep == ASSUME TypeOK, [Next]_vars PROVE ReadType'
<1> USE DEF ReadType, Questions, None, ReaderPlaces
<1>0. ReadType /\ VerbType /\ ShareType
  BY DEF TypeOK
<1>1. CASE \E t \in Targets : Mail(t)
  BY <1>0, <1>1 DEF Mail
<1>2. CASE (WindowAsks \/ WindowGoesOn) /\ ~(\E t \in Targets : Mail(t))
  <2>1. UNCHANGED <<mailed, target, inbox>>
    BY <1>2 DEF WindowAsks, PressMakes, Press, WindowGoesOn, PressRefused, DrainBegins,
       DrainSettles, File, DrainTakes, Forget
  <2> QED BY <1>0, <1>2, <2>1, WindowLeaves
<1>3. CASE Post
  BY <1>0, <1>3 DEF Post, First, AskedWithout
<1>4. CASE Posted \/ TakeQuestion \/ WaitForMail \/ Receive \/ Answer
  <2>1. CASE Posted
    <3>1. question' \in {question, None} /\ (reader' = "asking" => question' # None)
      BY <2>1 DEF Posted
    <3>2. reader' \in {"asking", "looking"} /\ at' = None
      BY <2>1 DEF Posted
    <3>3. nudged' \in BOOLEAN /\ UNCHANGED <<mailed, target, inbox, line, parked, asked, reading>>
      BY <2>1 DEF Posted
    <3>4. question' \in 0..mailed /\ reader' \in ReaderPlaces
          /\ (reader' \in {"asking", "beginning", "reading", "answered"} => question' # None)
      BY <1>0, <3>1, <3>2
    <3> QED BY <1>0, <3>2, <3>3, <3>4
  <2>2. CASE TakeQuestion
    BY <1>0, <2>2 DEF TakeQuestion, First
  <2>3. CASE WaitForMail \/ Receive \/ Answer
    BY <1>0, <2>3 DEF WaitForMail, Receive, Answer
  <2> QED BY <1>4, <2>1, <2>2, <2>3
<1>5. ASSUME NEW q \in 1..mailed, ParkRead(q)
      PROVE  asked' \subseteq Asked /\ question' = None /\ reader' = "looking" /\ reading' = reading
  <2>1. \A a \in asked : [a EXCEPT !.parked = TRUE] \in Asked
    BY <1>0 DEF Asked
  <2> QED BY <1>0, <1>5, <2>1 DEF ParkRead, AskedWithout
<1>6. ASSUME NEW q \in 1..mailed, BeginRead(q)
      PROVE  /\ asked' \subseteq Asked /\ question' = q /\ reader' = "reading"
             /\ reading' \subseteq Folders /\ at' = None
  BY <1>0, <1>6 DEF BeginRead, AskedWithout, Folder
<1>7. CASE LookAtParked
  <2> PICK q \in Questions : /\ First(q, Unlooked)
                            /\ \/ ParkRead(q) /\ at' = q /\ UNCHANGED parked
                               \/ BeginRead(q) /\ parked' = parked \ {q}
    BY <1>7 DEF LookAtParked
  <2>1. q \in 1..mailed
    BY <1>0 DEF First, Unlooked
  <2>2. UNCHANGED <<mailed, target, inbox, line, nudged>> /\ parked' \subseteq parked
    BY <1>7 DEF LookAtParked
  <2> QED BY <1>0, <1>5, <1>6, <2>1, <2>2
<1>8. CASE BeginOrPark
  <2>1. question \in 1..mailed
    BY <1>0, <1>8 DEF BeginOrPark
  <2>2. CASE ParkRead(question) /\ parked' = parked \cup {question} /\ at' = None
    BY <1>0, <1>5, <1>8, <2>1, <2>2 DEF BeginOrPark
  <2>3. CASE BeginRead(question) /\ UNCHANGED parked
    BY <1>0, <1>6, <1>8, <2>1, <2>3 DEF BeginOrPark
  <2> QED BY <1>8, <2>2, <2>3 DEF BeginOrPark
<1>9. CASE AskTurn
  <2>1. question \in 1..mailed /\ Folder(question) \in Folders
    BY <1>0, <1>9 DEF AskTurn, Folder
  <2>2. ASSUME NEW s \in Shares \cup {None}, NEW last \in Verbs \cup {None}
        PROVE  AskedNow(question, s, last) \in Asked
    BY <1>0, <2>1 DEF AskedNow, Asked
  <2>3. \A s \in Holding(Folder(question)) : s \in Shares /\ minted[s] \in Verbs \cup {None}
    BY <1>0 DEF Holding, ShareType, VerbType
  <2>4. asked' \subseteq Asked
    BY <1>0, <1>9, <2>2, <2>3 DEF AskTurn
  <2> QED BY <1>0, <1>9, <2>4 DEF AskTurn
<1>10. CASE ReadOver
  BY <1>0, <1>10 DEF ReadOver
<1>11. CASE ReaderPanics
  BY <1>0, <1>11 DEF ReaderPanics, AskedWithout
<1>12. ASSUME NEW s \in Shares, WorkerGoesOn(s) \/ Stir(s) \/ Panic(s) PROVE ReadType'
  <2>1. nudged' \in BOOLEAN
    BY <1>0, <1>12 DEF WorkerGoesOn, Pop, Sleep, Stir, WaitTurn, TakeTurn, VerbOver, NudgeIfParked,
       Publish, Tell, Ring, Panic, Return
  <2> QED BY <1>0, <1>12, <2>1, WorkerLeaves
<1>13. CASE UNCHANGED vars
  BY <1>0, <1>13 DEF vars
<1> QED BY <1>1, <1>2, <1>3, <1>4, <1>7, <1>8, <1>9, <1>10, <1>11, <1>12, <1>13, NextByThread
        DEF ReaderGoesOn

LEMMA HistoryTypeStep == ASSUME TypeOK, WorkersWhole, [Next]_vars PROVE HistoryType'
<1> USE DEF HistoryType, Questions, Verbs, None
<1>0. HistoryType /\ VerbType /\ WindowType /\ WorkerType /\ ReadType
  BY DEF TypeOK
<1>1. CASE \E t \in Targets : Mail(t)
  <2>1. before' \in [Questions -> 0..MaxVerbs]
    BY <1>0, <1>1 DEF VerbType, Mail
  <2> QED BY <1>0, <1>1, <2>1 DEF Mail
<1>2. CASE File
  BY <1>0, <1>2 DEF WindowType, File, Drained
<1>3. CASE (WindowAsks \/ WindowGoesOn) /\ ~File /\ ~(\E t \in Targets : Mail(t))
  BY <1>0, <1>3 DEF WindowAsks, PressMakes, Press, WindowGoesOn, PressRefused, DrainBegins,
     DrainSettles, DrainTakes, Forget
<1>4. CASE ReaderGoesOn \/ ReaderPanics
  <2>1. UNCHANGED <<ran, filed, told>>
    BY <1>4, ReaderLeaves
  <2>2. before' = before \/ before' = [before EXCEPT ![question] = 0]
    BY <1>4 DEF ReaderGoesOn, Post, Posted, LookAtParked, TakeQuestion, WaitForMail,
       Receive, AskTurn, BeginOrPark, Answer, ReadOver, ReaderPanics
  <2>3. saw' = saw \/ \E q : saw' = [saw EXCEPT ![q] = ran]
    BY <1>4 DEF ReaderGoesOn, Post, Posted, LookAtParked, BeginRead, ParkRead, TakeQuestion,
       WaitForMail, Receive, AskTurn, BeginOrPark, Answer, ReadOver, ReaderPanics
  <2>4. before' \in [Questions -> 0..MaxVerbs]
    BY <1>0, <2>2
  <2>5. saw' \in [Questions -> SUBSET Verbs]
    BY <1>0, <2>3
  <2> QED BY <1>0, <2>1, <2>4, <2>5
<1>5. ASSUME NEW s \in Shares, WorkerGoesOn(s) \/ Stir(s) \/ Panic(s) PROVE HistoryType'
  <2>1. ran' = ran \/ (worker[s] = "running" /\ ran' = ran \cup {current[s]})
    BY <1>5 DEF WorkerGoesOn, Pop, Sleep, Stir, WaitTurn, TakeTurn, VerbOver, Publish, Tell, Ring,
       Panic, Return
  <2>2. worker[s] = "running" => current[s] \in Verbs
    BY <1>5 DEF WorkersWhole, Busy, Owed, VerbsOf
  <2> QED BY <1>0, <1>5, <2>1, <2>2, WorkerLeaves
<1>6. CASE UNCHANGED vars
  BY <1>0, <1>6 DEF vars
<1> QED BY <1>1, <1>2, <1>3, <1>4, <1>5, <1>6, NextByThread

-----------------------------------------------------------------------------
(* Shares, verbs and workers.                                              *)

LEMMA SharesStep ==
    ASSUME TypeOK, SharesWhole, [Next]_vars
    PROVE  SharesWhole'
<1> USE DEF SharesWhole
<1>0. ShareType
  BY DEF TypeOK
<1>1. CASE \E f \in Folders : PressMakes(f)
  <2> PICK f \in Folders : PressMakes(f)
    BY <1>1
  <2>1. /\ made' = made + 1 /\ live' = live \cup {made + 1} /\ known' = known \cup {made + 1}
        /\ root' = [root EXCEPT ![made + 1] = f] /\ app' = "pressing"
        /\ known = live /\ \A s \in live : root[s] # f
        /\ made + 1 \in Shares /\ made + 1 \notin known
    BY <1>0 DEF PressMakes, ShareType, Shares
  <2>2. live' \subseteq known' /\ known' \subseteq 1..made' /\ known' = live'
    BY <1>0, <2>1 DEF ShareType
  <2>3. root'[made + 1] = f /\ \A s \in known : root'[s] = root[s]
    BY <1>0, <2>1 DEF ShareType
  <2> QED BY <2>1, <2>2, <2>3
<1>2. CASE DrainSettles
  BY <1>2 DEF DrainSettles
<1>3. CASE \E s \in Shares : Forget(s)
  BY <1>3 DEF Forget, Leaving
<1>4. CASE File
  BY <1>4 DEF File, Leaving
<1>5. CASE (\E t \in Targets : Mail(t)) \/ (\E s \in Shares : Press(s) \/ DrainTakes(s))
           \/ PressRefused \/ DrainBegins
  BY <1>5 DEF Mail, Press, DrainTakes, PressRefused, DrainBegins
<1>6. CASE ReaderGoesOn \/ ReaderPanics
  BY <1>6, ReaderLeaves
<1>7. CASE \E s \in Shares : WorkerGoesOn(s) \/ Stir(s) \/ Panic(s)
  BY <1>7, WorkerLeaves
<1>8. CASE UNCHANGED vars
  BY <1>8 DEF vars
<1> QED BY <1>1, <1>2, <1>3, <1>4, <1>5, <1>6, <1>7, <1>8, NextByThread
        DEF WindowAsks, WindowGoesOn

(* A step that ends verbs, or moves them among their ends, owes no more.   *)
LEMMA VerbsStep ==
    ASSUME TypeOK, SharesWhole, VerbsWhole, WorkersWhole, [Next]_vars
    PROVE  VerbsWhole'
<1> USE DEF VerbsWhole
<1>0. VerbType /\ ShareType /\ None = 0 /\ Verbs = 1..MaxVerbs /\ Shares = 1..MaxShares
  BY DEF TypeOK, None, Verbs, Shares
<1>1. CASE \E s \in Shares : Press(s)
  <2> PICK s \in Shares : Press(s)
    BY <1>1
  <2>1. /\ pressed' = pressed + 1 /\ s \in live /\ live' = live /\ made' = made
        /\ verb' = [verb EXCEPT ![pressed + 1] = "owed"]
        /\ shareOf' = [shareOf EXCEPT ![pressed + 1] = s]
        /\ minted' = [minted EXCEPT ![s] = pressed + 1]
        /\ pressed + 1 \in Verbs /\ pressed \in Nat
    BY <1>0 DEF Press, VerbType
  <2>2. s \in 1..made
    BY <2>1 DEF SharesWhole
  <2>3. /\ verb'[pressed + 1] = "owed" /\ shareOf'[pressed + 1] = s
        /\ minted'[s] = pressed + 1
        /\ \A v \in Verbs \ {pressed + 1} : verb'[v] = verb[v] /\ shareOf'[v] = shareOf[v]
        /\ \A r \in Shares \ {s} : minted'[r] = minted[r]
    BY <1>0, <2>1 DEF VerbType
  <2>4. \A v \in Verbs : v > pressed' => verb'[v] = "unpressed" /\ shareOf'[v] = None
    BY <1>0, <2>1, <2>3 DEF VerbType
  <2>5. \A v \in Verbs : v <= pressed' => shareOf'[v] \in 1..made'
    BY <1>0, <2>1, <2>2, <2>3 DEF VerbType
  <2>6. \A r \in Shares : minted'[r] <= pressed'
    <3>1. \A r \in Shares : minted[r] \in Int /\ minted[r] <= pressed
      BY <1>0 DEF VerbType
    <3> QED BY <2>1, <2>3, <3>1
  <2>7. ASSUME NEW v \in Verbs, shareOf'[v] \in Shares PROVE v <= minted'[shareOf'[v]]
    <3>1. CASE v = pressed + 1
      BY <2>3, <3>1
    <3>2. CASE v # pressed + 1
      <4>1. v <= pressed
        BY <1>0, <2>1, <2>3, <2>7, <3>2 DEF VerbType
      <4> QED BY <1>0, <2>1, <2>3, <2>7, <3>2, <4>1 DEF VerbType
    <3> QED BY <3>1, <3>2
  <2>8. \A v \in Verbs : verb'[v] \in {"owed", "orphan"} => shareOf'[v] \in live'
    BY <2>1, <2>3
  <2> QED BY <2>4, <2>5, <2>6, <2>7, <2>8
<1>2. ASSUME UNCHANGED <<pressed, shareOf, minted, made, live>>,
             \A v \in Verbs : verb'[v] \in {"owed", "orphan"} => verb[v] \in {"owed", "orphan"},
             \A v \in Verbs : verb[v] = "unpressed" => verb'[v] = "unpressed"
      PROVE  VerbsWhole'
  BY <1>0, <1>2 DEF VerbType
<1>3. CASE \E s \in Shares : DrainTakes(s)
  <2>1. /\ UNCHANGED <<pressed, shareOf, minted, made, live>>
        /\ \A v \in Verbs : verb'[v] \in {"owed", "orphan"} => verb[v] \in {"owed", "orphan"}
        /\ \A v \in Verbs : verb[v] = "unpressed" => verb'[v] = "unpressed"
    BY <1>3 DEF DrainTakes, Takeable, VerbsOf
  <2> QED BY <1>2, <2>1
<1>4. CASE \E s \in Shares : WorkerGoesOn(s) \/ Stir(s) \/ Panic(s)
  <2> PICK s \in Shares : WorkerGoesOn(s) \/ Stir(s) \/ Panic(s)
    BY <1>4
  <2>1. UNCHANGED <<pressed, shareOf, minted, made, live>>
    BY WorkerLeaves
  <2>2. CASE Publish(s)
    <3>1. current[s] \in Verbs /\ verb[current[s]] \in {"owed", "orphan"}
      BY <2>2 DEF WorkersWhole, Busy, Publish, Owed, VerbsOf
    <3>2. /\ \A v \in Verbs : verb'[v] \in {"owed", "orphan"} => verb[v] \in {"owed", "orphan"}
          /\ \A v \in Verbs : verb[v] = "unpressed" => verb'[v] = "unpressed"
      BY <1>0, <2>2, <3>1 DEF VerbType, Publish, EndOf
    <3> QED BY <1>2, <2>1, <3>2
  <2>3. CASE Panic(s)
    <3>1. /\ \A v \in Verbs : verb'[v] \in {"owed", "orphan"} => verb[v] \in {"owed", "orphan"}
          /\ \A v \in Verbs : verb[v] = "unpressed" => verb'[v] = "unpressed"
      BY <2>3 DEF Panic, EndOf, Owed
    <3> QED BY <1>2, <2>1, <3>1
  <2>4. CASE ~Publish(s) /\ ~Panic(s)
    <3>1. verb' = verb
      BY <2>4 DEF WorkerGoesOn, Pop, Sleep, Stir, WaitTurn, TakeTurn, VerbOver, Tell, Ring, Return
    <3> QED BY <1>2, <2>1, <3>1
  <2> QED BY <2>2, <2>3, <2>4
<1>5. CASE \E f \in Folders : PressMakes(f)
  BY <1>0, <1>5 DEF PressMakes, ShareType
<1>6. CASE DrainSettles
  <2>1. \A v \in Verbs : verb[v] \in {"owed", "orphan"} => shareOf[v] \notin Idle
    BY DEF Idle, Entries, VerbsOf
  <2> QED BY <1>6, <2>1 DEF DrainSettles
<1>7. CASE (\E t \in Targets : Mail(t)) \/ (\E s \in Shares : Forget(s))
           \/ PressRefused \/ DrainBegins \/ File
  BY <1>7 DEF Mail, Forget, PressRefused, DrainBegins, File
<1>8. CASE ReaderGoesOn \/ ReaderPanics
  BY <1>8, ReaderLeaves
<1>9. CASE UNCHANGED vars
  BY <1>9 DEF vars
<1> QED BY <1>1, <1>3, <1>4, <1>5, <1>6, <1>7, <1>8, <1>9, NextByThread
        DEF WindowAsks, WindowGoesOn

(* Telling the verbs that wait moves no worker in or out of its verb.      *)
SamePlaces(places) ==
    /\ places \in [Shares -> WorkerPlaces]
    /\ \A s \in Shares : /\ places[s] \in Busy <=> worker[s] \in Busy
                         /\ places[s] = "running" <=> worker[s] = "running"

LEMMA ToldIsSame == worker \in [Shares -> WorkerPlaces] => SamePlaces(Told(worker)) /\ SamePlaces(worker)
BY DEF SamePlaces, Told, Busy, WorkerPlaces

(* A step that owes what was owed, but for a verb just pressed.            *)
LEMMA WorkersKept ==
    ASSUME TypeOK, WorkersWhole, SamePlaces(worker'), UNCHANGED <<running, current>>,
           \A s \in Shares : /\ current[s] \in Owed(s) => current[s] \in Owed(s)'
                            /\ \A v \in Owed(s)' : v \in Owed(s) \/ v > pressed,
           \A s \in Shares : current[s] \in Owed(s) => current[s] <= pressed
    PROVE  WorkersWhole'
<1>1. pressed \in Nat /\ Verbs \subseteq Nat
  BY GitAssumption DEF TypeOK, VerbType, Verbs
<1>2. \A s \in Shares : s \in running' <=> worker'[s] = "running"
  BY DEF WorkersWhole, SamePlaces
<1>3. ASSUME NEW s \in Shares, worker'[s] \in Busy
      PROVE  current'[s] \in Owed(s)' /\ \A v \in Owed(s)' : current'[s] <= v
  <2>1. worker[s] \in Busy /\ current[s] \in Owed(s) /\ \A v \in Owed(s) : current[s] <= v
    BY <1>3 DEF WorkersWhole, SamePlaces
  <2>2. \A v \in Owed(s)' : v \in Nat
    BY <1>1 DEF Owed, VerbsOf
  <2>3. pressed \in Nat /\ current[s] \in Nat
    BY <1>1, <2>1 DEF Owed, VerbsOf
  <2> QED BY <2>1, <2>2, <2>3
<1>4. ASSUME NEW s \in Shares, worker'[s] \notin Busy PROVE current'[s] = None
  BY <1>4 DEF WorkersWhole, SamePlaces
<1> QED BY <1>2, <1>3, <1>4 DEF WorkersWhole

LEMMA WorkersStep ==
    ASSUME TypeOK, VerbsWhole, WorkersWhole, [Next]_vars
    PROVE  WorkersWhole'
<1>0. /\ WorkerType /\ VerbType /\ None = 0 /\ Verbs = 1..MaxVerbs /\ pressed \in Nat
      /\ worker \in [Shares -> WorkerPlaces]
  BY DEF TypeOK, None, Verbs, WorkerType, VerbType
<1>1. \A s \in Shares : current[s] \in Owed(s) => current[s] <= pressed
  BY <1>0 DEF VerbsWhole, Owed, VerbsOf
<1>2. ASSUME SamePlaces(worker'), UNCHANGED <<running, current, shareOf>>,
             \A v \in Verbs : verb'[v] \in {"owed", "orphan"} <=> verb[v] \in {"owed", "orphan"}
      PROVE  WorkersWhole'
  <2>1. \A s \in Shares : Owed(s)' = Owed(s)
    BY <1>2 DEF Owed, VerbsOf
  <2> QED BY <1>1, <1>2, <2>1, WorkersKept
<1>3. CASE \E s \in Shares : Press(s)
  <2> PICK s \in Shares : Press(s)
    BY <1>3
  <2>1. /\ verb' = [verb EXCEPT ![pressed + 1] = "owed"]
        /\ shareOf' = [shareOf EXCEPT ![pressed + 1] = s]
        /\ pressed + 1 \in Verbs /\ UNCHANGED <<running, current>>
    BY <1>0 DEF Press, VerbType
  <2>2. SamePlaces(worker')
    BY <1>0 DEF Press, SamePlaces, Busy, WorkerPlaces
  <2>3. \A v \in Verbs \ {pressed + 1} : verb'[v] = verb[v] /\ shareOf'[v] = shareOf[v]
    BY <1>0, <2>1 DEF VerbType
  <2>4. \A r \in Shares : /\ current[r] \in Owed(r) => current[r] \in Owed(r)'
                          /\ \A v \in Owed(r)' : v \in Owed(r) \/ v > pressed
    <3> TAKE r \in Shares
    <3>1. current[r] \in Owed(r) => current[r] \in Verbs \ {pressed + 1}
      BY <1>0, <1>1 DEF Owed, VerbsOf
    <3>2. ASSUME NEW v \in Owed(r)' PROVE v \in Owed(r) \/ v > pressed
      BY <1>0, <2>3 DEF Owed, VerbsOf
    <3> QED BY <2>3, <3>1, <3>2 DEF Owed, VerbsOf
  <2> QED BY <1>1, <2>1, <2>2, <2>4, WorkersKept
<1>4. CASE \E s \in Shares : DrainTakes(s)
  <2>1. UNCHANGED <<worker, running, current, shareOf>>
    BY <1>4 DEF DrainTakes
  <2>2. \A v \in Verbs : verb'[v] \in {"owed", "orphan"} <=> verb[v] \in {"owed", "orphan"}
    BY <1>4 DEF DrainTakes, Takeable, VerbsOf
  <2> QED BY <1>0, <1>2, <2>1, <2>2, ToldIsSame
<1>5. CASE \E s \in Shares : Forget(s)
  <2>1. UNCHANGED <<running, current, shareOf, verb>>
    BY <1>5 DEF Forget
  <2>2. SamePlaces(worker')
    BY <1>0, <1>5 DEF Forget, Told, SamePlaces, Busy, WorkerPlaces
  <2> QED BY <1>2, <2>1, <2>2
<1>6. CASE (\E t \in Targets : Mail(t)) \/ (\E f \in Folders : PressMakes(f))
           \/ PressRefused \/ DrainBegins \/ DrainSettles \/ File
  <2>1. UNCHANGED <<running, current, shareOf, verb>> /\ worker' \in {worker, Told(worker)}
    BY <1>6 DEF Mail, PressMakes, PressRefused, DrainBegins, DrainSettles, File
  <2> QED BY <1>0, <1>2, <2>1, ToldIsSame
<1>7. CASE ReaderGoesOn \/ ReaderPanics
  BY <1>0, <1>2, <1>7, ReaderLeaves, ToldIsSame
<1>8. ASSUME NEW s \in Shares, Pop(s) PROVE WorkersWhole'
  <2>1. current[s] = None /\ InLine(s) = Owed(s)
    BY <1>0, <1>8 DEF WorkersWhole, Pop, Busy, InLine, Owed, VerbsOf
  <2>2. PICK v \in Verbs : First(v, InLine(s)) /\ current' = [current EXCEPT ![s] = v]
    BY <1>8 DEF Pop
  <2>3. current'[s] \in Owed(s) /\ \A w \in Owed(s) : current'[s] <= w
    BY <1>0, <2>1, <2>2 DEF First, WorkerType
  <2>4. worker' = [worker EXCEPT ![s] = "turning"] /\ UNCHANGED <<running, verb, shareOf>>
        /\ worker[s] = "looking"
    BY <1>8 DEF Pop
  <2>5. \A r \in Shares : Owed(r)' = Owed(r)
    BY <2>4 DEF Owed, VerbsOf
  <2>6. worker'[s] = "turning" /\ \A r \in Shares \ {s} : worker'[r] = worker[r] /\ current'[r] = current[r]
    BY <1>0, <2>2, <2>4 DEF WorkerType
  <2> QED BY <2>3, <2>4, <2>5, <2>6 DEF WorkersWhole, Busy
<1>9. ASSUME NEW s \in Shares, Sleep(s) \/ Stir(s) \/ WaitTurn(s) \/ Ring(s) \/ Return(s) \/ Tell(s)
      PROVE  WorkersWhole'
  <2>1. UNCHANGED <<running, current, shareOf, verb>>
    BY <1>9 DEF Sleep, Stir, WaitTurn, Ring, Return, Tell
  <2>2. SamePlaces(worker')
    BY <1>0, <1>9 DEF Sleep, Stir, WaitTurn, Ring, Return, Tell, Told, SamePlaces, Busy, WorkerPlaces
  <2> QED BY <1>2, <2>1, <2>2
<1>10. ASSUME NEW s \in Shares, TakeTurn(s) PROVE WorkersWhole'
  <2>1. /\ worker[s] = "turning" /\ worker' = [worker EXCEPT ![s] = "running"]
        /\ running' = running \cup {s} /\ UNCHANGED <<current, verb, shareOf>>
    BY <1>10 DEF TakeTurn
  <2>2. worker'[s] = "running" /\ \A r \in Shares \ {s} : worker'[r] = worker[r]
    BY <1>0, <2>1
  <2>3. \A r \in Shares : Owed(r)' = Owed(r)
    BY <2>1 DEF Owed, VerbsOf
  <2> QED BY <2>1, <2>2, <2>3 DEF WorkersWhole, Busy
<1>11. ASSUME NEW s \in Shares, VerbOver(s) PROVE WorkersWhole'
  <2>1. /\ worker[s] = "running" /\ worker' = [Told(worker) EXCEPT ![s] = "publishing"]
        /\ running' = running \ {s} /\ UNCHANGED <<current, verb, shareOf>>
    BY <1>11 DEF VerbOver
  <2>2. worker'[s] = "publishing" /\ \A r \in Shares \ {s} : worker'[r] = Told(worker)[r]
    BY <1>0, <2>1 DEF Told
  <2>3. \A r \in Shares : Owed(r)' = Owed(r)
    BY <2>1 DEF Owed, VerbsOf
  <2>4. SamePlaces(Told(worker))
    BY <1>0, ToldIsSame
  <2> QED BY <2>1, <2>2, <2>3, <2>4 DEF WorkersWhole, Busy, SamePlaces
<1>12. ASSUME NEW s \in Shares, Publish(s) PROVE WorkersWhole'
  <2>1. /\ worker[s] = "publishing" /\ worker' = [worker EXCEPT ![s] = "telling"]
        /\ current' = [current EXCEPT ![s] = None] /\ UNCHANGED <<running, shareOf>>
        /\ verb' = [verb EXCEPT ![current[s]] = EndOf(current[s])]
    BY <1>12 DEF Publish
  <2>2. worker'[s] = "telling" /\ current'[s] = None
        /\ \A r \in Shares \ {s} : worker'[r] = worker[r] /\ current'[r] = current[r]
    BY <1>0, <2>1 DEF WorkerType
  <2>3. current[s] \in Owed(s)
    BY <2>1 DEF WorkersWhole, Busy
  <2>4. \A v \in Verbs \ {current[s]} : verb'[v] = verb[v]
    BY <1>0, <2>1 DEF VerbType
  <2>5. verb'[current[s]] \notin {"owed", "orphan"}
    BY <1>0, <2>1, <2>3 DEF VerbType, EndOf, Owed, VerbsOf
  <2>6. \A r \in Shares \ {s} : Owed(r)' = Owed(r)
    BY <2>1, <2>3, <2>4 DEF Owed, VerbsOf
  <2> QED BY <2>1, <2>2, <2>6 DEF WorkersWhole, Busy
<1>13. ASSUME NEW s \in Shares, Panic(s) PROVE WorkersWhole'
  <2>1. /\ worker[s] = "looking" /\ worker' = [worker EXCEPT ![s] = AfterPanic(s)]
        /\ verb' = [v \in Verbs |-> IF v \in Owed(s) THEN EndOf(v) ELSE verb[v]]
        /\ UNCHANGED <<running, current, shareOf>>
    BY <1>13 DEF Panic
  <2>2. worker'[s] \in {"ended", "telling"} /\ \A r \in Shares \ {s} : worker'[r] = worker[r]
    BY <1>0, <2>1 DEF AfterPanic
  <2>3. \A r \in Shares \ {s} : Owed(r)' = Owed(r)
    BY <2>1 DEF Owed, VerbsOf
  <2> QED BY <2>1, <2>2, <2>3 DEF WorkersWhole, Busy
<1>14. CASE UNCHANGED vars
  BY <1>0, <1>2, <1>14, ToldIsSame DEF vars
<1> QED BY <1>3, <1>4, <1>5, <1>6, <1>7, <1>8, <1>9, <1>10, <1>11, <1>12, <1>13, <1>14, NextByThread
        DEF WindowAsks, WindowGoesOn, WorkerGoesOn

-----------------------------------------------------------------------------
(* What a step may change, for the properties of the turns.                *)
SameAsk(a, b) ==
    a.question = b.question /\ a.folder = b.folder /\ a.behind = b.behind /\ a.last = b.last

(* Only a press gives anything to owe, and only a new share a repository.  *)
LEMMA OwedFrame ==
    ASSUME TypeOK, VerbsWhole, WorkersWhole, [Next]_vars
    PROVE  /\ pressed' \in Nat /\ pressed <= pressed' /\ made <= made'
           /\ \A v \in 1..pressed : shareOf'[v] = shareOf[v]
           /\ \A s \in 1..made : root'[s] = root[s]
           /\ \A v \in 1..pressed : verb'[v] \in {"owed", "orphan"} => verb[v] \in {"owed", "orphan"}
<1>0. /\ VerbType /\ ShareType /\ Verbs = 1..MaxVerbs /\ Shares = 1..MaxShares
      /\ pressed \in Nat /\ made \in Nat /\ \A v \in 1..pressed : v \in Verbs
  BY DEF TypeOK, Verbs, Shares, VerbType, ShareType
<1>1. CASE \E s \in Shares : Press(s)
  BY <1>0, <1>1 DEF Press, VerbType
<1>2. CASE \E f \in Folders : PressMakes(f)
  BY <1>0, <1>2 DEF PressMakes, ShareType
<1>3. ASSUME UNCHANGED <<pressed, made, shareOf, root>>,
             \A v \in Verbs : verb'[v] \in {"owed", "orphan"} => verb[v] \in {"owed", "orphan"}
      PROVE  /\ pressed' \in Nat /\ pressed <= pressed' /\ made <= made'
             /\ \A v \in 1..pressed : shareOf'[v] = shareOf[v]
             /\ \A s \in 1..made : root'[s] = root[s]
             /\ \A v \in 1..pressed :
                    verb'[v] \in {"owed", "orphan"} => verb[v] \in {"owed", "orphan"}
  BY <1>0, <1>3
<1>4. CASE \E s \in Shares : DrainTakes(s)
  <2>1. /\ UNCHANGED <<pressed, made, shareOf, root>>
        /\ \A v \in Verbs : verb'[v] \in {"owed", "orphan"} => verb[v] \in {"owed", "orphan"}
    BY <1>4 DEF DrainTakes, Takeable, VerbsOf
  <2> QED BY <1>3, <2>1
<1>5. CASE (\E t \in Targets : Mail(t)) \/ (\E s \in Shares : Forget(s))
           \/ PressRefused \/ DrainBegins \/ DrainSettles \/ File
  <2>1. UNCHANGED <<pressed, made, shareOf, root, verb>>
    BY <1>5 DEF Mail, Forget, PressRefused, DrainBegins, DrainSettles, File
  <2> QED BY <1>3, <2>1
<1>6. CASE ReaderGoesOn \/ ReaderPanics
  BY <1>3, <1>6, ReaderLeaves
<1>7. ASSUME NEW s \in Shares, WorkerGoesOn(s) \/ Stir(s) \/ Panic(s)
      PROVE  \A v \in Verbs : verb'[v] \in {"owed", "orphan"} => verb[v] \in {"owed", "orphan"}
  <2>1. CASE Publish(s)
    <3>1. current[s] \in Verbs /\ verb[current[s]] \in {"owed", "orphan"}
      BY <2>1 DEF WorkersWhole, Busy, Publish, Owed, VerbsOf
    <3> QED BY <1>0, <2>1, <3>1 DEF VerbType, Publish, EndOf
  <2>2. CASE Panic(s)
    BY <2>2 DEF Panic, EndOf, Owed
  <2>3. CASE ~Publish(s) /\ ~Panic(s)
    <3>1. verb' = verb
      BY <1>7, <2>3 DEF WorkerGoesOn, Pop, Sleep, Stir, WaitTurn, TakeTurn, VerbOver, Tell, Ring, Return
    <3> QED BY <3>1
  <2> QED BY <2>1, <2>2, <2>3
<1>8. ASSUME NEW s \in Shares, WorkerGoesOn(s) \/ Stir(s) \/ Panic(s)
      PROVE  UNCHANGED <<pressed, made, shareOf, root>>
  BY <1>8, WorkerLeaves
<1>9. CASE UNCHANGED vars
  BY <1>3, <1>9 DEF vars
<1> QED BY <1>1, <1>2, <1>3, <1>4, <1>5, <1>6, <1>7, <1>8, <1>9, NextByThread
        DEF WindowAsks, WindowGoesOn

(* Only RepoTurns::ask adds a read to those asked.                         *)
LEMMA AskedFrame ==
    ASSUME TypeOK, [Next]_vars
    PROVE  AskTurn \/ \A a \in asked' : \E b \in asked : SameAsk(a, b)
<1>1. ASSUME NEW q, ParkRead(q) PROVE \A a \in asked' : \E b \in asked : SameAsk(a, b)
  <2>1. \A b \in asked : b \in Asked
    BY DEF TypeOK, ReadType
  <2> QED BY <1>1, <2>1 DEF ParkRead, AskedWithout, SameAsk, Asked
<1>2. CASE LookAtParked \/ BeginOrPark
  <2>1. (\E q : ParkRead(q)) \/ asked' \subseteq asked
    BY <1>2 DEF LookAtParked, BeginOrPark, BeginRead, AskedWithout
  <2> QED BY <1>1, <2>1 DEF SameAsk
<1>3. CASE ReaderPanics \/ Post
  BY <1>3 DEF ReaderPanics, Post, AskedWithout, SameAsk
<1>4. CASE asked' = asked
  BY <1>4 DEF SameAsk
<1>5. CASE Posted \/ TakeQuestion \/ WaitForMail \/ Receive \/ Answer \/ ReadOver
  BY <1>4, <1>5 DEF Posted, TakeQuestion, WaitForMail, Receive, Answer, ReadOver
<1>6. CASE WindowAsks \/ WindowGoesOn
  BY <1>4, <1>6, WindowLeaves
<1>7. ASSUME NEW s \in Shares, WorkerGoesOn(s) \/ Stir(s) \/ Panic(s) PROVE asked' = asked
  BY <1>7, WorkerLeaves
<1> QED BY <1>2, <1>3, <1>4, <1>5, <1>6, <1>7, NextByThread DEF ReaderGoesOn, vars

(* A question keeps its repository, and its mailing is not put off.        *)
LEMMA MailFrame ==
    ASSUME TypeOK, [Next]_vars
    PROVE  /\ mailed <= mailed'
           /\ \A q \in 1..mailed : Folder(q)' = Folder(q) /\ before'[q] \in {before[q], 0}
<1>0. ReadType /\ HistoryType /\ mailed \in Nat /\ \A q \in 1..mailed : q \in Questions
  BY DEF TypeOK, ReadType, Questions
<1>1. CASE \E t \in Targets : Mail(t)
  <2> PICK t \in Targets : Mail(t)
    BY <1>1
  <2>1. mailed' = mailed + 1 /\ target' = [target EXCEPT ![mailed + 1] = t]
        /\ before' = [before EXCEPT ![mailed + 1] = pressed]
    BY DEF Mail
  <2>2. \A q \in 1..mailed : target'[q] = target[q] /\ before'[q] = before[q]
    BY <1>0, <2>1 DEF ReadType, HistoryType
  <2> QED BY <1>0, <2>1, <2>2 DEF Folder
<1>2. CASE ReadOver
  <2>1. mailed' = mailed /\ target' = target /\ before' = [before EXCEPT ![question] = 0]
    BY <1>2 DEF ReadOver
  <2> QED BY <1>0, <2>1 DEF HistoryType, Folder
<1>3. CASE UNCHANGED <<mailed, target, before>>
  BY <1>0, <1>3 DEF Folder
<1>4. CASE (WindowAsks /\ ~\E t \in Targets : Mail(t)) \/ WindowGoesOn
  BY <1>3, <1>4 DEF WindowAsks, PressMakes, Press, WindowGoesOn, PressRefused, DrainBegins,
     DrainTakes, DrainSettles, Forget, File
<1>5. CASE (ReaderGoesOn /\ ~ReadOver) \/ ReaderPanics
  BY <1>3, <1>5 DEF ReaderGoesOn, Post, Posted, LookAtParked, TakeQuestion, WaitForMail, Receive,
     AskTurn, BeginOrPark, Answer, ReaderPanics
<1>6. ASSUME NEW s \in Shares, WorkerGoesOn(s) \/ Stir(s) \/ Panic(s)
      PROVE  UNCHANGED <<mailed, target, before>>
  BY <1>6, WorkerLeaves
<1> QED BY <1>1, <1>2, <1>3, <1>4, <1>5, <1>6, NextByThread DEF ReaderGoesOn, vars

(* A read that looks whether its turn has come.                            *)
Turned(q) == q \in parked \/ (reader = "beginning" /\ q = question)

(* Only verb_turn marks a share as running, and only begin a folder as     *)
(* being read.                                                             *)
LEMMA MarksFrame ==
    ASSUME TypeOK, WorkersWhole, [Next]_vars
    PROVE  /\ \A s \in running' : TakeTurn(s) \/ (s \in running /\ current'[s] = current[s])
           /\ \/ \E q : BeginRead(q) /\ Turned(q) /\ running' = running
              \/ reading' \subseteq reading
           /\ (\E s \in Shares : TakeTurn(s)) \/ running' \subseteq running
<1>0. WorkerType /\ None = 0
  BY DEF TypeOK, None
<1>1. CASE WindowAsks \/ WindowGoesOn
  BY <1>1, WindowLeaves
<1>2. CASE ReaderGoesOn \/ ReaderPanics
  <2>1. UNCHANGED <<running, current>>
    BY <1>2, ReaderLeaves
  <2>2. (\E q : BeginRead(q) /\ Turned(q)) \/ reading' \subseteq reading
    BY <1>2 DEF Turned, First, Unlooked, ReaderGoesOn, Post, Posted, LookAtParked, ParkRead, TakeQuestion, WaitForMail,
       Receive, AskTurn, BeginOrPark, Answer, ReadOver, ReaderPanics
  <2> QED BY <2>1, <2>2
<1>3. ASSUME NEW s \in Shares, WorkerGoesOn(s) \/ Stir(s) \/ Panic(s)
      PROVE  /\ reading' = reading
             /\ \A r \in running' : TakeTurn(r) \/ (r \in running /\ current'[r] = current[r])
             /\ TakeTurn(s) \/ running' \subseteq running
  <2>1. reading' = reading
    BY <1>3, WorkerLeaves
  <2>2. CASE TakeTurn(s)
    BY <2>1, <2>2 DEF TakeTurn
  <2>3. CASE Pop(s) \/ Publish(s)
    <3>1. running' = running /\ s \notin running
      BY <2>3 DEF Pop, Publish, WorkersWhole
    <3>2. \A r \in running : current'[r] = current[r]
      BY <1>0, <2>3, <3>1 DEF Pop, Publish, WorkerType
    <3> QED BY <2>1, <3>1, <3>2
  <2>4. CASE Sleep(s) \/ Stir(s) \/ WaitTurn(s) \/ VerbOver(s) \/ Tell(s) \/ Ring(s) \/ Return(s)
             \/ Panic(s)
    <3>1. running' \subseteq running /\ current' = current
      BY <2>4 DEF Sleep, Stir, WaitTurn, VerbOver, Tell, Ring, Return, Panic
    <3> QED BY <2>1, <3>1
  <2> QED BY <1>3, <2>2, <2>3, <2>4 DEF WorkerGoesOn
<1>4. CASE UNCHANGED vars
  BY <1>4 DEF vars
<1> QED BY <1>1, <1>2, <1>3, <1>4, NextByThread

-----------------------------------------------------------------------------
(* A read that waits is asked still.                                       *)
LEMMA ParkKeepsAsked ==
    ASSUME TypeOK, NEW q, ParkRead(q)
    PROVE  /\ \A a \in asked : \E b \in asked' : b.question = a.question
           /\ \A a \in asked' : \E b \in asked : a.question = b.question
<1>1. \A b \in asked : b \in Asked
  BY DEF TypeOK, ReadType
<1>2. ASSUME NEW a \in asked PROVE \E b \in asked' : b.question = a.question
  <2>1. CASE a.question = q
    <3>1. [a EXCEPT !.parked = TRUE] \in asked'
      BY <2>1 DEF ParkRead
    <3>2. [a EXCEPT !.parked = TRUE].question = a.question
      BY <1>1 DEF Asked
    <3> QED BY <3>1, <3>2
  <2>2. CASE a.question # q
    BY <2>2 DEF ParkRead, AskedWithout
  <2> QED BY <2>1, <2>2
<1>3. \A a \in asked' : \E b \in asked : a.question = b.question
  BY <1>1 DEF ParkRead, AskedWithout, Asked
<1> QED BY <1>2, <1>3

(* Where a question is.                                                    *)
LEMMA QuestionsStep ==
    ASSUME TypeOK, VerbsWhole, WorkersWhole, QuestionsWhole, AskedWillRun, [Next]_vars
    PROVE  QuestionsWhole' /\ AskedWillRun'
<1>0. /\ ReadType /\ HistoryType /\ mailed \in Nat /\ pressed \in Nat /\ Questions = 1..MaxQuestions
      /\ None = 0 /\ \A q \in 1..mailed : q \in Questions
  BY DEF TypeOK, ReadType, VerbType, Questions, None
<1>1. \A q \in Questions : before'[q] <= pressed'
  <2>1. pressed' \in Nat /\ pressed <= pressed'
    BY OwedFrame
  <2>2. \A q \in Questions : before'[q] \in {before[q], 0, pressed}
    <3>1. CASE \E t \in Targets : Mail(t)
      BY <1>0, <3>1 DEF Mail, HistoryType
    <3>2. CASE ReadOver
      BY <1>0, <3>2 DEF ReadOver, HistoryType
    <3>3. CASE before' = before
      BY <3>3
    <3>4. CASE (WindowAsks /\ ~\E t \in Targets : Mail(t)) \/ WindowGoesOn
      BY <3>3, <3>4 DEF WindowAsks, PressMakes, Press, WindowGoesOn, PressRefused, DrainBegins,
         DrainTakes, DrainSettles, Forget, File
    <3>5. CASE (ReaderGoesOn /\ ~ReadOver) \/ ReaderPanics
      BY <3>3, <3>5 DEF ReaderGoesOn, Post, Posted, LookAtParked, TakeQuestion, WaitForMail,
         Receive, AskTurn, BeginOrPark, Answer, ReaderPanics
    <3>6. ASSUME NEW s \in Shares, WorkerGoesOn(s) \/ Stir(s) \/ Panic(s) PROVE before' = before
      BY <3>6, WorkerLeaves
    <3> QED BY <3>1, <3>2, <3>3, <3>4, <3>5, <3>6, NextByThread DEF vars
  <2>3. \A q \in Questions : before[q] \in Nat /\ before[q] <= pressed
    BY <1>0 DEF QuestionsWhole, HistoryType
  <2> QED BY <1>0, <2>1, <2>2, <2>3
<1>2. \A a \in asked' : a.question \in 1..mailed' /\ a.folder = Folder(a.question)'
  <2>1. mailed <= mailed' /\ mailed' \in Nat /\ \A q \in 1..mailed : Folder(q)' = Folder(q)
    BY <1>0, MailFrame, ReadTypeStep DEF ReadType
  <2>2. CASE AskTurn
    <3>1. question \in 1..mailed
      BY <1>0, <2>2 DEF AskTurn, ReadType
    <3>2. \A a \in asked' : a \in asked \/ (a.question = question /\ a.folder = Folder(question))
      BY <2>2 DEF AskTurn, AskedNow
    <3> QED BY <1>0, <2>1, <3>1, <3>2 DEF QuestionsWhole
  <2>3. CASE \A a \in asked' : \E b \in asked : SameAsk(a, b)
    <3> TAKE a \in asked'
    <3> PICK b \in asked : SameAsk(a, b)
      BY <2>3
    <3>1. b.question \in 1..mailed /\ b.folder = Folder(b.question)
      BY DEF QuestionsWhole
    <3> QED BY <1>0, <2>1, <3>1 DEF SameAsk
  <2> QED BY <2>2, <2>3, AskedFrame
<1> DEFINE Places == /\ inbox \cap line = {} /\ inbox \cap parked = {} /\ line \cap parked = {}
                     /\ question \notin inbox \cup line \cup parked
                     /\ \A q \in parked : \E a \in asked : a.question = q
                     /\ reader = "beginning" => \E a \in asked : a.question = question
                     /\ AskedWillRun
<1>3. Places /\ 0 \notin inbox \cup line \cup parked
  BY <1>0 DEF QuestionsWhole, ReadType
<1>4. ASSUME Places' PROVE QuestionsWhole' /\ AskedWillRun'
  BY <1>1, <1>2, <1>4 DEF QuestionsWhole
<1> SUFFICES Places'
  BY <1>4
<1>5. CASE UNCHANGED <<inbox, line, parked, reader, question, asked>>
  BY <1>3, <1>5 DEF AskedWillRun
<1>6. CASE \E t \in Targets : Mail(t)
  <2>1. inbox' = inbox \cup {mailed + 1} /\ UNCHANGED <<line, parked, reader, question, asked>>
    BY <1>6 DEF Mail
  <2>2. mailed + 1 \notin inbox \cup line \cup parked \cup {question}
    BY <1>0 DEF ReadType
  <2> QED BY <1>3, <2>1, <2>2 DEF AskedWillRun
<1>7. CASE (WindowAsks /\ ~\E t \in Targets : Mail(t)) \/ WindowGoesOn
  BY <1>5, <1>7 DEF WindowAsks, PressMakes, Press, WindowGoesOn, PressRefused, DrainBegins,
     DrainTakes, DrainSettles, Forget, File
<1>8. CASE Post
  <2> PICK q \in Questions :
          LET older == {r \in Questions : target[r] = target[q]}
          IN  /\ First(q, inbox)
              /\ inbox' = inbox \ {q}
              /\ line' = (line \ older) \cup {q}
              /\ parked' = parked \ older
              /\ asked' = AskedWithout(parked \cap older)
    BY <1>8 DEF Post
  <2>1. reader = "draining" /\ UNCHANGED <<reader, question>> /\ q \in inbox
    BY <1>8 DEF Post, First
  <2>2. question \notin inbox' \cup line' \cup parked'
    BY <1>3, <2>1
  <2>3. \A p \in parked' : \E a \in asked' : a.question = p
    BY <1>3 DEF AskedWithout
  <2>4. AskedWillRun'
    BY <1>3, <2>1 DEF AskedWillRun, AskedWithout
  <2> QED BY <1>3, <2>1, <2>2, <2>3, <2>4
<1>9. CASE Posted
  <2>1. /\ UNCHANGED <<inbox, line, parked, asked>> /\ reader = "draining"
        /\ \/ reader' = "asking" /\ question' = question
           \/ reader' = "looking" /\ question' = 0
    BY <1>0, <1>9 DEF Posted
  <2> QED BY <1>3, <2>1 DEF AskedWillRun
<1>10. CASE LookAtParked
  <2> PICK q \in Questions :
          /\ First(q, Unlooked)
          /\ \/ ParkRead(q) /\ at' = q /\ UNCHANGED parked
             \/ BeginRead(q) /\ parked' = parked \ {q}
    BY <1>10 DEF LookAtParked
  <2>1. UNCHANGED <<inbox, line>> /\ reader = "looking" /\ q \in parked
    BY <1>10 DEF LookAtParked, First, Unlooked
  <2>2. CASE ParkRead(q) /\ UNCHANGED parked
    <3>1. reader' = "looking" /\ question' = 0
      BY <1>0, <2>2 DEF ParkRead
    <3>3. \A r \in Questions : (\E a \in asked : a.question = r) => \E a \in asked' : a.question = r
      BY <2>2, ParkKeepsAsked
    <3>4. \A a \in asked' : \E b \in asked : a.question = b.question
      BY <2>2, ParkKeepsAsked
    <3>5. \A p \in parked' : \E a \in asked' : a.question = p
      BY <1>0, <1>3, <2>2, <3>3 DEF ReadType
    <3>6. AskedWillRun'
      BY <1>3, <2>1, <2>2, <3>1, <3>4 DEF AskedWillRun
    <3> QED BY <1>3, <2>1, <2>2, <3>1, <3>5, <3>6
  <2>3. CASE BeginRead(q) /\ parked' = parked \ {q}
    <3>1. reader' = "reading" /\ question' = q /\ asked' = AskedWithout({q})
      BY <2>3 DEF BeginRead
    <3> QED BY <1>3, <2>1, <2>3, <3>1 DEF AskedWillRun, AskedWithout
  <2> QED BY <2>2, <2>3
<1>11. CASE TakeQuestion
  <2>1. /\ UNCHANGED <<inbox, parked, asked>> /\ reader = "looking" /\ reader' = "draining"
        /\ \E q \in Questions : q \in line /\ question' = q /\ line' = line \ {q}
    BY <1>11 DEF TakeQuestion, First
  <2> QED BY <1>3, <2>1 DEF AskedWillRun
<1>12. CASE WaitForMail
  BY <1>3, <1>12 DEF WaitForMail, AskedWillRun
<1>13. CASE AskTurn
  <2>1. /\ UNCHANGED <<inbox, line, parked, question>> /\ reader = "asking" /\ reader' = "beginning"
        /\ \E a : a.question = question /\ asked' = asked \cup {a}
    BY <1>13 DEF AskTurn, AskedNow
  <2> QED BY <1>3, <2>1 DEF AskedWillRun
<1>14. CASE BeginOrPark
  <2>1. UNCHANGED <<inbox, line>> /\ reader = "beginning" /\ question # 0
    BY <1>0, <1>14 DEF BeginOrPark, ReadType
  <2>2. CASE ParkRead(question) /\ parked' = parked \cup {question}
    <3>1. reader' = "looking" /\ question' = 0
      BY <1>0, <2>2 DEF ParkRead
    <3>2. \A p \in parked' : \E a \in asked' : a.question = p
      <4>1. \A p \in parked' : \E a \in asked : a.question = p
        BY <1>3, <2>1, <2>2
      <4> QED BY <2>2, <4>1, ParkKeepsAsked
    <3>3. AskedWillRun'
      <4>1. \A a \in asked' : \E b \in asked : a.question = b.question
        BY <2>2, ParkKeepsAsked
      <4> QED BY <1>3, <2>2, <4>1 DEF AskedWillRun
    <3>4. inbox' \cap line' = {} /\ inbox' \cap parked' = {} /\ line' \cap parked' = {}
      BY <1>3, <2>1, <2>2
    <3>5. question' \notin inbox' \cup line' \cup parked'
      BY <1>3, <2>1, <2>2, <3>1
    <3> QED BY <3>1, <3>2, <3>3, <3>4, <3>5
  <2>3. CASE BeginRead(question) /\ parked' = parked
    <3>1. reader' = "reading" /\ question' = question /\ asked' = AskedWithout({question})
      BY <2>3 DEF BeginRead
    <3> QED BY <1>3, <2>1, <2>3, <3>1 DEF AskedWillRun, AskedWithout
  <2> QED BY <1>14, <2>2, <2>3 DEF BeginOrPark
<1>15. CASE Receive \/ Answer
  <2>1. UNCHANGED <<inbox, line, parked, question, asked>>
        /\ \/ reader = "waiting" /\ reader' = "draining"
           \/ reader = "reading" /\ reader' = "answered"
    BY <1>15 DEF Receive, Answer
  <2> QED BY <1>3, <2>1 DEF AskedWillRun
<1>16. CASE ReadOver
  <2>1. /\ UNCHANGED <<inbox, line, parked, asked>> /\ reader = "answered"
        /\ reader' = "draining" /\ question' = 0
    BY <1>0, <1>16 DEF ReadOver
  <2>2. 0 \notin inbox \cup line \cup parked
    BY <1>0 DEF ReadType
  <2> QED BY <1>3, <2>1, <2>2 DEF AskedWillRun
<1>17. CASE ReaderPanics
  <2>1. /\ inbox' = {} /\ line' = {} /\ parked' = {} /\ reader' = "ended" /\ reader = "reading"
        /\ asked' = AskedWithout(parked)
    BY <1>17 DEF ReaderPanics
  <2>2. asked' = {}
    BY <1>3, <2>1 DEF AskedWillRun, AskedWithout
  <2> QED BY <2>1, <2>2 DEF AskedWillRun
<1>18. ASSUME NEW s \in Shares, WorkerGoesOn(s) \/ Stir(s) \/ Panic(s)
       PROVE  UNCHANGED <<inbox, line, parked, reader, question, asked>>
  BY <1>18, WorkerLeaves
<1> QED BY <1>5, <1>6, <1>7, <1>8, <1>9, <1>10, <1>11, <1>12, <1>13, <1>14, <1>15, <1>16, <1>17, <1>18,
        NextByThread DEF ReaderGoesOn, vars

-----------------------------------------------------------------------------
(* The turns.                                                              *)

(* A share running is one the turnstile knows, and owes the verb it runs.  *)
LEMMA RunningOwes ==
    ASSUME TypeOK, SharesWhole, VerbsWhole, WorkersWhole, NEW s \in running
    PROVE  /\ s \in Shares /\ s \in known /\ s \in 1..made
           /\ current[s] \in Owed(s) /\ current[s] \in 1..pressed
           /\ current[s] <= minted[s] /\ \A v \in Owed(s) : current[s] <= v
<1>1. s \in Shares /\ current[s] \in Owed(s) /\ \A v \in Owed(s) : current[s] <= v
  BY DEF TypeOK, WorkerType, WorkersWhole, Busy
<1>2. /\ current[s] \in Verbs /\ shareOf[current[s]] = s
      /\ verb[current[s]] \in {"owed", "orphan"}
  BY <1>1 DEF Owed, VerbsOf
<1>3. s \in live
  BY <1>2 DEF VerbsWhole
<1>4. s \in known /\ s \in 1..made
  BY <1>3 DEF SharesWhole
<1>5. current[s] <= pressed /\ pressed \in Nat
  BY <1>2 DEF VerbsWhole, TypeOK, VerbType, Verbs
<1>6. current[s] <= minted[s]
  BY <1>1, <1>2 DEF VerbsWhole
<1> QED BY <1>1, <1>2, <1>4, <1>5, <1>6 DEF Verbs

(* Two shares running of one repository are one.                           *)
LEMMA OneVerbHolds ==
    ASSUME TypeOK, SharesWhole, VerbsWhole, WorkersWhole
    PROVE  OneVerbAtATime
BY RunningOwes DEF OneVerbAtATime, SharesWhole

LEMMA NeverBothStep ==
    ASSUME TypeOK, SharesWhole, VerbsWhole, WorkersWhole, NeverBoth, [Next]_vars
    PROVE  NeverBoth'
<1>1. \A s \in running : root'[s] = root[s]
  BY OwedFrame, RunningOwes
<1>2. ASSUME NEW q, BeginRead(q), running' = running PROVE NeverBoth'
  <2>1. reading' = reading \cup {Folder(q)} /\ \A s \in running : root[s] # Folder(q)
    BY <1>2 DEF BeginRead, ReadWaits, IsRunning
  <2> QED BY <1>1, <1>2, <2>1 DEF NeverBoth
<1>3. CASE reading' \subseteq reading
  <2> SUFFICES ASSUME NEW s \in running' PROVE root'[s] \notin reading'
    BY DEF NeverBoth
  <2>1. CASE s \in running
    BY <1>1, <1>3, <2>1 DEF NeverBoth
  <2>2. CASE TakeTurn(s)
    BY <2>2 DEF TakeTurn, VerbWaits
  <2> QED BY <2>1, <2>2, MarksFrame
<1> QED BY <1>2, <1>3, MarksFrame

(* A verb owed was pressed on a share the turnstile knows.                 *)
LEMMA OwedIsKnown ==
    ASSUME TypeOK, SharesWhole, VerbsWhole, NEW v \in Verbs, v \in Owed(shareOf[v])
    PROVE  /\ shareOf[v] \in Shares /\ shareOf[v] \in known /\ shareOf[v] \in 1..made
           /\ v \in 1..pressed /\ v <= minted[shareOf[v]]
<1>1. verb[v] \in {"owed", "orphan"}
  BY DEF Owed
<1>2. shareOf[v] \in live
  BY <1>1 DEF VerbsWhole
<1>3. shareOf[v] \in known /\ shareOf[v] \in 1..made /\ shareOf[v] \in Shares
  BY <1>2 DEF SharesWhole, TypeOK, ShareType
<1>4. v <= pressed /\ pressed \in Nat
  BY <1>1 DEF VerbsWhole, TypeOK, VerbType, Verbs
<1> QED BY <1>3, <1>4 DEF VerbsWhole, Verbs

(* What is owed after a step, of what was pressed before it, was owed.     *)
LEMMA OwedWas ==
    ASSUME TypeOK, VerbsWhole, WorkersWhole, [Next]_vars, NEW v \in 1..pressed, v \in Verbs
    PROVE  /\ shareOf'[v] = shareOf[v] /\ root'[shareOf[v]] = root[shareOf[v]]
           /\ (v \in Owed(shareOf[v]))' => v \in Owed(shareOf[v])
<1>1. shareOf[v] \in 1..made
  BY DEF VerbsWhole
<1> QED BY <1>1, OwedFrame DEF Owed, VerbsOf

LEMMA ReadsCoverStep ==
    ASSUME TypeOK, SharesWhole, VerbsWhole, WorkersWhole, QuestionsWhole, ReadsCover, [Next]_vars
    PROVE  ReadsCover'
<1>0. /\ mailed \in Nat /\ pressed \in Nat /\ Verbs = 1..MaxVerbs /\ Questions = 1..MaxQuestions
      /\ \A q \in 1..mailed : q \in Questions /\ before[q] \in 0..MaxVerbs
      /\ None = 0 /\ 0 \notin Shares
  BY DEF TypeOK, ReadType, VerbType, HistoryType, Verbs, Questions, None, Shares
<1>1. ASSUME NEW a \in asked, NEW v \in 1..before'[a.question],
             root'[shareOf'[v]] = a.folder, (v \in Owed(shareOf[v]))'
      PROVE  a.behind = shareOf'[v] /\ v <= a.last
  <2>1. a.question \in 1..mailed
    BY DEF QuestionsWhole
  <2>2. v \in 1..before[a.question] /\ before[a.question] <= pressed
    BY <1>0, <2>1, MailFrame DEF QuestionsWhole
  <2>3. v \in 1..pressed /\ v \in Verbs
    BY <1>0, <2>1, <2>2
  <2>4. shareOf'[v] = shareOf[v] /\ root[shareOf[v]] = a.folder /\ v \in Owed(shareOf[v])
    BY <1>1, <2>3, OwedWas
  <2> QED BY <2>2, <2>4 DEF ReadsCover
<1>2. CASE \A a \in asked' : \E b \in asked : SameAsk(a, b)
  <2> SUFFICES ASSUME NEW a \in asked', NEW v \in 1..before'[a.question],
                      root'[shareOf'[v]] = a.folder, (v \in Owed(shareOf[v]))'
               PROVE  a.behind = shareOf'[v] /\ v <= a.last
    BY DEF ReadsCover
  <2> PICK b \in asked : SameAsk(a, b)
    BY <1>2
  <2> QED BY <1>1 DEF SameAsk
<1>3. CASE AskTurn
  <2>1. UNCHANGED <<verbVars, shareVars, before>> /\ reader = "asking" /\ question \in 1..mailed
    BY <1>0, <1>3 DEF AskTurn, TypeOK, ReadType
  <2>2. \A a \in asked : \A v \in 1..before'[a.question] :
            root'[shareOf'[v]] = a.folder /\ (v \in Owed(shareOf[v]))' =>
               a.behind = shareOf'[v] /\ v <= a.last
    BY <1>1
  <2>3. ASSUME NEW a, a \in asked', a \notin asked, NEW v \in 1..before[question],
               root[shareOf[v]] = Folder(question), v \in Owed(shareOf[v])
        PROVE  a.behind = shareOf[v] /\ v <= a.last
    <3>1. v \in Verbs
      BY <1>0, <2>1
    <3>2. shareOf[v] \in known /\ v <= minted[shareOf[v]] /\ minted[shareOf[v]] # None
      <4>1. shareOf[v] \in known /\ v <= minted[shareOf[v]]
        BY <2>3, <3>1, OwedIsKnown
      <4> QED BY <1>0, <3>1, <4>1
    <3>3. shareOf[v] \in Holding(Folder(question))
      BY <2>3, <3>2 DEF Holding
    <3>4. PICK s \in Holding(Folder(question)) : a = AskedNow(question, s, minted[s])
      BY <1>3, <2>3, <3>3 DEF AskTurn
    <3>5. s = shareOf[v]
      BY <2>3, <3>2, <3>4 DEF Holding, SharesWhole
    <3> QED BY <3>2, <3>4, <3>5 DEF AskedNow
  <2>4. ASSUME NEW a, a \in asked', a \notin asked PROVE a.question = question /\ a.folder = Folder(question)
    BY <1>3, <2>4 DEF AskTurn, AskedNow
  <2>5. \A v : (v \in Owed(shareOf[v]))' <=> v \in Owed(shareOf[v])
    BY <2>1 DEF Owed, VerbsOf
  <2>6. ASSUME NEW a \in asked', NEW v \in 1..before'[a.question],
               root'[shareOf'[v]] = a.folder, (v \in Owed(shareOf[v]))'
        PROVE  a.behind = shareOf'[v] /\ v <= a.last
    <3>1. CASE a \in asked
      BY <2>2, <2>6, <3>1
    <3>2. CASE a \notin asked
      BY <2>1, <2>3, <2>4, <2>5, <2>6, <3>2
    <3> QED BY <3>1, <3>2
  <2> QED BY <2>6 DEF ReadsCover
<1> QED BY <1>2, <1>3, AskedFrame

(* Only begin starts a reading, and it keeps its question to its end.      *)
LEMMA ReadingFrame ==
    ASSUME TypeOK, [Next]_vars, reader' \in {"reading", "answered"}
    PROVE  \/ \E q : BeginRead(q) /\ Turned(q) /\ ran' = ran
           \/ reader \in {"reading", "answered"} /\ question' = question
<1>1. CASE WindowAsks \/ WindowGoesOn
  BY <1>1, WindowLeaves
<1>2. CASE ReaderGoesOn \/ ReaderPanics
  BY <1>2 DEF Turned, First, Unlooked, ReaderGoesOn, Post, Posted, LookAtParked, ParkRead,
     TakeQuestion, WaitForMail, Receive, AskTurn, BeginOrPark, Answer, ReadOver, ReaderPanics
<1>3. ASSUME NEW s \in Shares, WorkerGoesOn(s) \/ Stir(s) \/ Panic(s)
      PROVE  UNCHANGED <<reader, question>>
  BY <1>3, WorkerLeaves
<1>4. CASE UNCHANGED vars
  BY <1>4 DEF vars
<1> QED BY <1>1, <1>2, <1>3, <1>4, NextByThread

LEMMA ReadsFollowStep ==
    ASSUME TypeOK, VerbsWhole, WorkersWhole, QuestionsWhole, ReadsCover,
           ReadsFollowPresses, [Next]_vars
    PROVE  ReadsFollowPresses'
<1>0. /\ mailed \in Nat /\ pressed \in Nat /\ Verbs = 1..MaxVerbs /\ Questions = 1..MaxQuestions
      /\ \A q \in 1..mailed : q \in Questions /\ before[q] \in 0..MaxVerbs /\ before[q] <= pressed
      /\ None = 0 /\ 0 \notin Shares
  BY DEF TypeOK, ReadType, VerbType, HistoryType, Verbs, Questions, None, Shares, QuestionsWhole
<1> SUFFICES ASSUME reader' \in {"reading", "answered"}, NEW v \in 1..before'[question'],
                    root'[shareOf'[v]] = Folder(question)', (v \in Owed(shareOf[v]))'
             PROVE  FALSE
  BY DEF ReadsFollowPresses
<1>1. ASSUME NEW q \in 1..mailed, question' = q
      PROVE  /\ v \in 1..before[q] /\ root[shareOf[v]] = Folder(q)
             /\ shareOf[v] \in Shares /\ v \in Verbs /\ v \in Owed(shareOf[v])
  <2>1. v \in 1..before[q] /\ Folder(question)' = Folder(q)
    BY <1>0, <1>1, MailFrame DEF Folder
  <2>2. v \in 1..pressed /\ v \in Verbs
    BY <1>0, <2>1
  <2>3. root[shareOf[v]] = Folder(q) /\ v \in Owed(shareOf[v])
    BY <2>1, <2>2, OwedWas
  <2>4. shareOf[v] \in Shares
    BY <2>2 DEF VerbsWhole, TypeOK, ShareType, Shares
  <2> QED BY <2>1, <2>2, <2>3, <2>4
<1>2. ASSUME NEW q, BeginRead(q), Turned(q) PROVE FALSE
  <2>1. q \in 1..mailed /\ \E a \in asked : a.question = q
    BY <1>2 DEF Turned, QuestionsWhole, TypeOK, ReadType
  <2>2. PICK a \in asked : a.question = q
    BY <2>1
  <2>3. a.folder = Folder(q) /\ ~BehindAVerb(a)
    BY <1>2, <2>2 DEF QuestionsWhole, BeginRead, ReadWaits
  <2>4. v \in 1..before[q] /\ root[shareOf[v]] = Folder(q)
        /\ shareOf[v] \in Shares /\ v \in Owed(shareOf[v])
    BY <1>1, <1>2, <2>1 DEF BeginRead
  <2>5. a.behind = shareOf[v] /\ v <= a.last
    BY <2>2, <2>3, <2>4 DEF ReadsCover
  <2> QED BY <1>0, <2>3, <2>4, <2>5 DEF BehindAVerb, OwesUpTo
<1>3. CASE reader \in {"reading", "answered"} /\ question' = question
  <2>1. question \in 1..mailed
    BY <1>0, <1>3 DEF TypeOK, ReadType
  <2> QED BY <1>1, <1>3, <2>1 DEF ReadsFollowPresses
<1> QED BY <1>2, <1>3, ReadingFrame

LEMMA PressesFollowStep ==
    ASSUME TypeOK, SharesWhole, VerbsWhole, WorkersWhole, QuestionsWhole, PressesFollowReads,
           [Next]_vars
    PROVE  PressesFollowReads'
<1>0. None = 0 /\ 0 \notin Shares /\ Verbs \subseteq Nat
      /\ \A a \in asked : a.last \in Nat
  BY DEF None, Shares, Verbs, TypeOK, ReadType, Asked
<1>1. \A s \in running : root'[s] = root[s]
  BY OwedFrame, RunningOwes
<1>2. CASE AskTurn
  <2>1. /\ UNCHANGED <<running, current, root, known, minted>>
        /\ LET held == Holding(Folder(question))
           IN  \/ held = {} /\ asked' = asked \cup {AskedNow(question, None, None)}
               \/ \E s \in held : asked' = asked \cup {AskedNow(question, s, minted[s])}
    BY <1>2 DEF AskTurn
  <2> SUFFICES ASSUME NEW s \in running, NEW a \in asked', a \notin asked, a.folder = root[s]
               PROVE  a.behind = s /\ current[s] <= a.last
    BY <2>1 DEF PressesFollowReads
  <2>2. a.folder = Folder(question)
    BY <2>1 DEF AskedNow
  <2>3. s \in known /\ current[s] <= minted[s] /\ minted[s] # None
    <3>1. s \in known /\ s \in Shares /\ current[s] <= minted[s] /\ current[s] \in Verbs
      BY RunningOwes DEF Owed, VerbsOf
    <3>2. current[s] > 0 /\ current[s] \in Nat
      BY <3>1 DEF Verbs
    <3> QED BY <1>0, <3>1, <3>2
  <2>4. s \in Holding(Folder(question))
    BY <2>2, <2>3 DEF Holding
  <2>5. PICK r \in Holding(Folder(question)) : a = AskedNow(question, r, minted[r])
    BY <2>1, <2>4
  <2>6. r = s
    BY <2>2, <2>3, <2>5 DEF Holding, SharesWhole
  <2> QED BY <2>3, <2>5, <2>6 DEF AskedNow
<1>3. CASE \A a \in asked' : \E b \in asked : SameAsk(a, b)
  <2> SUFFICES ASSUME NEW s \in running', NEW a \in asked', a.folder = root'[s]
               PROVE  a.behind = s /\ current'[s] <= a.last
    BY DEF PressesFollowReads
  <2> PICK b \in asked : SameAsk(a, b)
    BY <1>3
  <2>1. CASE s \in running /\ current'[s] = current[s]
    <3>1. b.folder = root[s]
      BY <1>1, <2>1 DEF SameAsk
    <3>2. b.behind = s /\ current[s] <= b.last
      BY <2>1, <3>1 DEF PressesFollowReads
    <3> QED BY <2>1, <3>2 DEF SameAsk
  <2>2. CASE TakeTurn(s)
    <3>1. worker[s] = "turning" /\ ~VerbWaits(s) /\ UNCHANGED <<root, current, asked>>
      BY <2>2 DEF TakeTurn
    <3>2. WaitsFor(a, s) /\ a \in asked
      BY <3>1 DEF VerbWaits
    <3>3. PICK v \in Owed(s) : v <= a.last
      BY <3>2 DEF WaitsFor, OwesUpTo
    <3>4. s \in Shares
      BY <2>2, WorkerTypeStep DEF TypeOK, WorkerType
    <3>5. current[s] \in Owed(s) /\ current[s] <= v
      BY <3>1, <3>4 DEF WorkersWhole, Busy
    <3>6. current[s] \in Nat /\ v \in Nat
      BY <1>0, <3>5 DEF Owed, VerbsOf
    <3> QED BY <1>0, <3>1, <3>2, <3>3, <3>5, <3>6 DEF WaitsFor
  <2> QED BY <2>1, <2>2, MarksFrame
<1> QED BY <1>2, <1>3, AskedFrame

-----------------------------------------------------------------------------
(* The invariant: inductive, where the properties alone are not.           *)
IInv ==
    /\ TypeOK
    /\ SharesWhole /\ VerbsWhole /\ WorkersWhole /\ QuestionsWhole
    /\ AskedWillRun /\ ReadsCover
    /\ NeverBoth /\ ReadsFollowPresses /\ PressesFollowReads

LEMMA InitIInv == Init => IInv
<1> SUFFICES ASSUME Init PROVE IInv
  OBVIOUS
<1> USE DEF Init, None
<1>1. TypeOK
  <2>1. WindowType
    BY DEF WindowType
  <2>2. ShareType
    BY DEF ShareType
  <2>3. WorkerType /\ VerbType
    BY DEF WorkerType, VerbType, WorkerPlaces
  <2>4. ReadType
    <3>1. mailed \in 0..MaxQuestions /\ question \in 0..mailed /\ at \in Questions \cup {None}
      OBVIOUS
    <3>2. /\ target \in [Questions -> Targets \cup {NoTarget}]
          /\ \A q \in 1..mailed : target[q] \in Targets
      OBVIOUS
    <3>3. reader \in ReaderPlaces /\ reader \notin {"asking", "beginning", "reading", "answered"}
      BY DEF ReaderPlaces
    <3>4. /\ inbox \subseteq 1..mailed /\ line \subseteq 1..mailed /\ parked \subseteq 1..mailed
          /\ nudged \in BOOLEAN /\ asked \subseteq Asked /\ reading \subseteq Folders
      OBVIOUS
    <3> QED BY <3>1, <3>2, <3>3, <3>4 DEF ReadType
  <2>5. HistoryType
    BY DEF HistoryType
  <2> QED BY <2>1, <2>2, <2>3, <2>4, <2>5 DEF TypeOK
<1>2. SharesWhole /\ VerbsWhole
  BY DEF SharesWhole, VerbsWhole, Verbs, Shares
<1>3. WorkersWhole
  BY DEF WorkersWhole, Busy
<1>4. QuestionsWhole /\ AskedWillRun /\ ReadsCover
  BY DEF QuestionsWhole, AskedWillRun, ReadsCover
<1>5. NeverBoth /\ ReadsFollowPresses /\ PressesFollowReads
  BY DEF NeverBoth, ReadsFollowPresses, PressesFollowReads
<1> QED BY <1>1, <1>2, <1>3, <1>4, <1>5 DEF IInv

LEMMA IInvStep == IInv /\ [Next]_vars => IInv'
<1> SUFFICES ASSUME IInv, [Next]_vars PROVE IInv'
  OBVIOUS
<1> USE DEF IInv
<1>1. TypeOK'
  BY WindowTypeStep, ShareTypeStep, WorkerTypeStep, VerbTypeStep, ReadTypeStep, HistoryTypeStep
     DEF TypeOK
<1>2. SharesWhole' /\ VerbsWhole' /\ WorkersWhole'
  BY SharesStep, VerbsStep, WorkersStep
<1>3. QuestionsWhole' /\ AskedWillRun'
  BY QuestionsStep
<1>4. ReadsCover' /\ ReadsFollowPresses'
  BY ReadsCoverStep, ReadsFollowStep
<1>5. NeverBoth' /\ PressesFollowReads'
  BY NeverBothStep, PressesFollowStep
<1> QED BY <1>1, <1>2, <1>3, <1>4, <1>5

LEMMA Invariance == Spec => []IInv
<1>1. Init => IInv
  BY InitIInv
<1>2. IInv /\ [Next]_vars => IInv'
  BY IInvStep
<1> QED BY <1>1, <1>2, PTL DEF Spec

(* The state of the window, the lane's shares, the turnstile and the read  *)
(* worker keeps its type, whatever the repositories, questions and verbs.  *)
THEOREM GitTypeCorrect == Spec => []TypeOK
<1>1. IInv => TypeOK
  BY DEF IInv
<1> QED BY <1>1, Invariance, PTL

(* "One repository never has two workers with verbs": a share is let go    *)
(* only when it owes nothing, so a second of its repository is never made  *)
(* while the first may run (ask_through, ended, serve).                    *)
THEOREM OneVerbOfARepositoryAtATime == Spec => []OneVerbAtATime
<1>1. IInv => OneVerbAtATime
  BY OneVerbHolds DEF IInv
<1> QED BY <1>1, Invariance, PTL

(* A repository is never both read and written (read_waits, verb_waits).   *)
THEOREM NeverReadWhileWritten == Spec => []NeverBoth
<1>1. IInv => NeverBoth
  BY DEF IInv
<1> QED BY <1>1, Invariance, PTL

(* A reading runs after every verb of its repository pressed before its    *)
(* question was mailed (RepoTurns::ask, read_waits), though shares come,   *)
(* are forgotten and are made again between the two.                       *)
THEOREM ReadingsFollowPresses == Spec => []ReadsFollowPresses
<1>1. IInv => ReadsFollowPresses
  BY DEF IInv
<1> QED BY <1>1, Invariance, PTL

(* A verb runs only before the reads that wait for it (verb_waits).        *)
THEOREM VerbsFollowReadings == Spec => []PressesFollowReads
<1>1. IInv => PressesFollowReads
  BY DEF IInv
<1> QED BY <1>1, Invariance, PTL

(* A read asked of the turnstile is one the read worker still has, so no   *)
(* verb waits on a read that will not run (push_latest, Drop for           *)
(* ReadTicket, and the worker's end).                                      *)
THEOREM ReadsAskedWillRun == Spec => []AskedWillRun
<1>1. IInv => AskedWillRun
  BY DEF IInv
<1> QED BY <1>1, Invariance, PTL

-----------------------------------------------------------------------------
(* What a reading saw.                                                     *)

Of(v, q) == root[shareOf[v]] = Folder(q)

(* A verb is told, or about to be, once its request is taken, and whatever *)
(* ran was pressed.                                                        *)
ToldAreTaken ==
    /\ \A v \in told \cup receipts : verb[v] = "taken"
    /\ ran \subseteq 1..pressed

(* An answer waits to be filed where its question was, which stays in hand *)
(* for no longer than the mark.                                            *)
AnswersApart ==
    /\ responses \subseteq 1..mailed
    /\ responses \cap (inbox \cup line \cup parked) = {}
    /\ question \in responses => reader = "answered"

(* While it runs no verb of its repository ends, ...                       *)
ReadingSees ==
    /\ reader \in {"reading", "answered"} => Folder(question) \in reading
    /\ reader = "reading" => \A v \in ran : Of(v, question) => v \in saw[question]

(* ... and a verb is told after every answer that did not see it is filed. *)
AnswersSee == \A q \in responses : \A v \in told \cap ran : Of(v, q) => v \in saw[q]

FreshInv == IInv /\ ToldAreTaken /\ AnswersApart /\ ReadingSees /\ AnswersSee

(* A request taken stays so.                                               *)
LEMMA TakenStays ==
    ASSUME TypeOK, VerbsWhole, WorkersWhole, [Next]_vars, NEW v \in Verbs, verb[v] = "taken"
    PROVE  verb'[v] = "taken"
<1>0. VerbType /\ pressed \in Nat
  BY DEF TypeOK, VerbType
<1>1. CASE \E s \in Shares : Press(s)
  <2> PICK s \in Shares : Press(s)
    BY <1>1
  <2>1. verb' = [verb EXCEPT ![pressed + 1] = "owed"]
    BY DEF Press
  <2>2. v # pressed + 1
    BY <1>0 DEF VerbsWhole, Verbs
  <2> QED BY <1>0, <2>1, <2>2 DEF VerbType
<1>2. CASE \E s \in Shares : DrainTakes(s)
  BY <1>2 DEF DrainTakes, Takeable, VerbsOf
<1>3. CASE UNCHANGED verb
  BY <1>3
<1>4. CASE (WindowAsks \/ WindowGoesOn) /\ ~(\E s \in Shares : Press(s) \/ DrainTakes(s))
  BY <1>3, <1>4 DEF WindowAsks, Mail, PressMakes, WindowGoesOn, PressRefused, DrainBegins,
     DrainSettles, File, Forget
<1>5. CASE ReaderGoesOn \/ ReaderPanics
  BY <1>3, <1>5, ReaderLeaves
<1>6. ASSUME NEW s \in Shares, Publish(s) PROVE verb'[v] = "taken"
  <2>1. current[s] \in Owed(s) /\ verb' = [verb EXCEPT ![current[s]] = EndOf(current[s])]
    BY <1>6 DEF Publish, WorkersWhole, Busy
  <2>2. v # current[s]
    BY <2>1 DEF Owed
  <2> QED BY <1>0, <2>1, <2>2 DEF VerbType
<1>7. ASSUME NEW s \in Shares, Panic(s) PROVE verb'[v] = "taken"
  BY <1>7 DEF Panic, Owed
<1>8. ASSUME NEW s \in Shares, WorkerGoesOn(s) \/ Stir(s) PROVE verb'[v] = "taken"
  BY <1>3, <1>6, <1>8 DEF WorkerGoesOn, Pop, Sleep, Stir, WaitTurn, TakeTurn, VerbOver, Tell,
     Ring, Return
<1> QED BY <1>1, <1>2, <1>3, <1>4, <1>5, <1>7, <1>8, NextByThread DEF vars

(* A verb that comes to have run was running, and owed.                    *)
LEMMA RanFrame ==
    ASSUME TypeOK, WorkersWhole, [Next]_vars
    PROVE  \/ ran' = ran
           \/ \E s \in running : /\ ran' = ran \cup {current[s]} /\ current[s] \in Owed(s)
                                 /\ UNCHANGED <<reader, question, responses, told, saw>>
<1>1. CASE WindowAsks \/ WindowGoesOn
  BY <1>1, WindowLeaves
<1>2. CASE ReaderGoesOn \/ ReaderPanics
  BY <1>2, ReaderLeaves
<1>3. ASSUME NEW s \in Shares, VerbOver(s)
      PROVE  /\ s \in running /\ ran' = ran \cup {current[s]} /\ current[s] \in Owed(s)
             /\ UNCHANGED <<reader, question, responses, told, saw>>
  BY <1>3 DEF VerbOver, WorkersWhole, Busy
<1>4. ASSUME NEW s \in Shares, (WorkerGoesOn(s) /\ ~VerbOver(s)) \/ Stir(s) \/ Panic(s)
      PROVE  ran' = ran
  BY <1>4 DEF WorkerGoesOn, Pop, Sleep, Stir, WaitTurn, TakeTurn, Publish, Tell, Ring, Panic,
     Return
<1>5. CASE UNCHANGED vars
  BY <1>5 DEF vars
<1> QED BY <1>1, <1>2, <1>3, <1>4, <1>5, NextByThread

(* Only the drain tells, and files.                                        *)
LEMMA FiledFrame ==
    ASSUME [Next]_vars
    PROVE  \/ File
           \/ /\ UNCHANGED <<told, filed>>
              /\ receipts' = receipts \/ \E s \in Shares : DrainTakes(s)
<1>1. CASE WindowAsks \/ WindowGoesOn
  BY <1>1 DEF WindowAsks, Mail, PressMakes, Press, WindowGoesOn, PressRefused, DrainBegins,
     DrainSettles, DrainTakes, Forget
<1>2. CASE ReaderGoesOn \/ ReaderPanics
  BY <1>2, ReaderLeaves
<1>3. ASSUME NEW s \in Shares, WorkerGoesOn(s) \/ Stir(s) \/ Panic(s)
      PROVE  UNCHANGED <<told, filed, receipts>>
  BY <1>3, WorkerLeaves
<1>4. CASE UNCHANGED vars
  BY <1>4 DEF vars
<1> QED BY <1>1, <1>2, <1>3, <1>4, NextByThread

LEMMA ToldStep ==
    ASSUME TypeOK, VerbsWhole, WorkersWhole, ToldAreTaken, [Next]_vars
    PROVE  ToldAreTaken'
<1>1. \A v \in told \cup receipts : verb'[v] = "taken"
  <2>1. told \cup receipts \subseteq Verbs
    BY DEF TypeOK, WindowType, HistoryType
  <2> QED BY <2>1, TakenStays DEF ToldAreTaken
<1>2. \A v \in told' \cup receipts' : verb'[v] = "taken"
  <2>1. CASE File
    BY <1>1, <2>1 DEF File
  <2>2. ASSUME NEW s \in Shares, DrainTakes(s) PROVE \A v \in told' \cup receipts' : verb'[v] = "taken"
    BY <1>1, <2>2 DEF DrainTakes, Takeable, VerbsOf
  <2>3. CASE UNCHANGED <<told, receipts>>
    BY <1>1, <2>3
  <2> QED BY <2>1, <2>2, <2>3, FiledFrame
<1>3. ran' \subseteq 1..pressed'
  <2>1. pressed \in Nat /\ pressed' \in Nat /\ pressed <= pressed'
    BY OwedFrame DEF TypeOK, VerbType
  <2>2. ASSUME NEW s \in running, current[s] \in Owed(s) PROVE current[s] \in 1..pressed
    BY <2>1, <2>2 DEF Owed, VerbsOf, VerbsWhole, Verbs
  <2>3. ran \subseteq 1..pressed
    BY DEF ToldAreTaken
  <2>4. ran' = ran \/ \E s \in running : ran' = ran \cup {current[s]} /\ current[s] \in Owed(s)
    BY RanFrame
  <2>5. ASSUME NEW s \in running, ran' = ran \cup {current[s]}, current[s] \in Owed(s)
        PROVE  ran' \subseteq 1..pressed
    <3>1. current[s] \in 1..pressed
      BY <2>2, <2>5
    <3> QED BY <2>3, <2>5, <3>1
  <2>6. ran' \subseteq 1..pressed
    BY <2>3, <2>4, <2>5
  <2> QED BY <2>1, <2>6
<1> QED BY <1>2, <1>3 DEF ToldAreTaken

LEMMA ApartStep ==
    ASSUME TypeOK, QuestionsWhole, AnswersApart, [Next]_vars
    PROVE  AnswersApart'
<1> USE DEF AnswersApart
<1>0. /\ ReadType /\ mailed \in Nat /\ None \notin responses
      /\ \A q \in inbox \cup line \cup parked : q \in 1..mailed
  BY DEF TypeOK, ReadType, WindowType, Questions, None
<1>1. CASE \E t \in Targets : Mail(t)
  <2>1. /\ mailed' = mailed + 1 /\ inbox' = inbox \cup {mailed + 1} /\ mailed + 1 \notin responses
        /\ UNCHANGED <<responses, line, parked, question, reader>>
    BY <1>0, <1>1 DEF Mail
  <2> QED BY <1>0, <2>1
<1>2. CASE File
  <2>1. responses' = {} /\ UNCHANGED <<mailed, inbox, line, parked, question, reader>>
    BY <1>2 DEF File, Drained
  <2> QED BY <2>1
<1>3. CASE UNCHANGED <<responses, mailed, inbox, line, parked, question, reader>>
  BY <1>3
<1>4. CASE (WindowAsks \/ WindowGoesOn) /\ ~File /\ ~(\E t \in Targets : Mail(t))
  BY <1>3, <1>4 DEF WindowAsks, PressMakes, Press, WindowGoesOn, PressRefused, DrainBegins,
     DrainSettles, DrainTakes, Forget
<1>5. CASE Post
  BY <1>5 DEF Post, First
<1>6. CASE Posted
  BY <1>0, <1>6 DEF Posted
<1>7. CASE LookAtParked \/ BeginOrPark
  <2>1. /\ UNCHANGED <<mailed, responses, inbox, line>> /\ parked' \subseteq parked \cup {question}
        /\ BeginOrPark \/ parked' \subseteq parked
        /\ BeginOrPark => reader = "beginning"
    BY <1>7 DEF LookAtParked, BeginOrPark
  <2>2. \/ question' = None
        \/ question' \in parked \cup {question} /\ (BeginOrPark \/ question' \in parked)
    BY <1>7 DEF LookAtParked, BeginOrPark, ParkRead, BeginRead, First, Unlooked
  <2> QED BY <1>0, <2>1, <2>2
<1>8. CASE TakeQuestion
  BY <1>8 DEF TakeQuestion, First
<1>9. CASE WaitForMail \/ Receive \/ AskTurn
  BY <1>9 DEF WaitForMail, Receive, AskTurn
<1>10. CASE Answer
  <2>1. question \in 1..mailed /\ question \notin inbox \cup line \cup parked
    BY <1>0, <1>10 DEF Answer, ReadType, QuestionsWhole, None
  <2>2. /\ responses' = responses \cup {question} /\ reader' = "answered"
        /\ UNCHANGED <<mailed, inbox, line, parked, question>>
    BY <1>10 DEF Answer
  <2> QED BY <2>1, <2>2
<1>11. CASE ReadOver
  BY <1>0, <1>11 DEF ReadOver
<1>12. CASE ReaderPanics
  BY <1>0, <1>12 DEF ReaderPanics
<1>13. ASSUME NEW s \in Shares, WorkerGoesOn(s) \/ Stir(s) \/ Panic(s) PROVE AnswersApart'
  BY <1>3, <1>13, WorkerLeaves
<1>14. CASE UNCHANGED vars
  BY <1>3, <1>14 DEF vars
<1> QED BY <1>1, <1>2, <1>4, <1>5, <1>6, <1>7, <1>8, <1>9, <1>10, <1>11, <1>12, <1>13, <1>14,
           NextByThread DEF ReaderGoesOn

(* What a step makes of a verb and a question that relate, and of a        *)
(* question's reading.                                                     *)
LEMMA OfStays ==
    ASSUME TypeOK, VerbsWhole, WorkersWhole, [Next]_vars, NEW v \in 1..pressed, NEW q \in 1..mailed
    PROVE  Of(v, q)' = Of(v, q)
<1>1. v \in Verbs
  BY DEF TypeOK, VerbType, Verbs
<1>2. shareOf'[v] = shareOf[v] /\ root'[shareOf[v]] = root[shareOf[v]]
  BY <1>1, OwedWas
<1>3. Folder(q)' = Folder(q)
  BY MailFrame
<1> QED BY <1>2, <1>3 DEF Of

LEMMA SawFrame ==
    ASSUME TypeOK, [Next]_vars
    PROVE  \/ saw' = saw
           \/ File
           \/ \E q \in parked \cup {question} :
                 /\ reader \in {"looking", "beginning"}
                 /\ saw' = [saw EXCEPT ![q] = ran] /\ q # None
                 /\ UNCHANGED <<ran, told, mailed, target, root, shareOf, responses>>
<1>1. CASE WindowAsks \/ WindowGoesOn
  BY <1>1 DEF WindowAsks, Mail, PressMakes, Press, WindowGoesOn, PressRefused, DrainBegins,
     DrainSettles, DrainTakes, Forget
<1>2. CASE LookAtParked \/ BeginOrPark
  <2>1. None \notin parked /\ (BeginOrPark => question # None)
    BY DEF TypeOK, ReadType, None, BeginOrPark
  <2>2. \/ saw' = saw
        \/ \E q \in parked \cup {question} : saw' = [saw EXCEPT ![q] = ran] /\ q # None
    BY <1>2, <2>1 DEF LookAtParked, BeginOrPark, ParkRead, BeginRead, First, Unlooked
  <2>3. reader \in {"looking", "beginning"} /\ UNCHANGED <<ran, told, mailed, target, root, shareOf, responses>>
    BY <1>2 DEF LookAtParked, BeginOrPark
  <2> QED BY <2>2, <2>3
<1>3. CASE (ReaderGoesOn \/ ReaderPanics) /\ ~LookAtParked /\ ~BeginOrPark
  BY <1>3 DEF ReaderGoesOn, Post, Posted, TakeQuestion, WaitForMail, Receive, AskTurn, Answer,
     ReadOver, ReaderPanics
<1>4. ASSUME NEW s \in Shares, WorkerGoesOn(s) \/ Stir(s) \/ Panic(s) PROVE saw' = saw
  BY <1>4, WorkerLeaves
<1>5. CASE UNCHANGED vars
  BY <1>5 DEF vars
<1> QED BY <1>1, <1>2, <1>3, <1>4, <1>5, NextByThread

(* A mark stays for as long as the reading.                                *)
LEMMA MarkFrame ==
    ASSUME [Next]_vars, reader \in {"reading", "answered"}, reader' \in {"reading", "answered"}
    PROVE  /\ reading' = reading /\ question' = question
           /\ reader' = "reading" => reader = "reading"
<1>1. CASE WindowAsks \/ WindowGoesOn
  BY <1>1, WindowLeaves
<1>2. CASE ReaderGoesOn \/ ReaderPanics
  BY <1>2 DEF ReaderGoesOn, Post, Posted, LookAtParked, TakeQuestion, WaitForMail,
     Receive, AskTurn, BeginOrPark, Answer, ReadOver, ReaderPanics
<1>3. ASSUME NEW s \in Shares, WorkerGoesOn(s) \/ Stir(s) \/ Panic(s)
      PROVE  UNCHANGED <<reader, reading, question>>
  BY <1>3, WorkerLeaves
<1>4. CASE UNCHANGED vars
  BY <1>4 DEF vars
<1> QED BY <1>1, <1>2, <1>3, <1>4, NextByThread

LEMMA SeesStep ==
    ASSUME IInv, ToldAreTaken, AnswersApart, ReadingSees, [Next]_vars
    PROVE  ReadingSees'
<1> USE DEF IInv
<1>0. /\ ReadType /\ HistoryType /\ VerbType /\ mailed \in Nat /\ pressed \in Nat
      /\ \A q \in 1..mailed : q \in Questions
  BY DEF TypeOK, ReadType, VerbType, Questions
<1> SUFFICES ASSUME reader' \in {"reading", "answered"}
             PROVE  /\ Folder(question)' \in reading'
                    /\ reader' = "reading" =>
                          \A v \in ran' : Of(v, question)' => v \in saw'[question']
  BY DEF ReadingSees
<1>1. ASSUME NEW q, BeginRead(q), Turned(q), ran' = ran
      PROVE  /\ Folder(question)' \in reading'
             /\ \A v \in ran' : v \in saw'[question']
  <2>1. q \in 1..mailed
    <3>1. CASE q \in parked
      BY <1>0, <3>1 DEF ReadType
    <3>2. CASE reader = "beginning" /\ q = question
      BY <1>0, <3>2 DEF ReadType, None
    <3> QED BY <1>1, <3>1, <3>2 DEF Turned
  <2>2. question' = q /\ reading' = reading \cup {Folder(q)} /\ saw' = [saw EXCEPT ![q] = ran]
    BY <1>1 DEF BeginRead
  <2>3. Folder(question)' = Folder(q)
    <3>1. Folder(q)' = Folder(q)
      BY <2>1, MailFrame
    <3> QED BY <2>2, <3>1 DEF Folder
  <2>4. saw'[q] = ran
    BY <1>0, <2>1, <2>2 DEF HistoryType
  <2> QED BY <1>1, <2>2, <2>3, <2>4
<1>2. CASE reader \in {"reading", "answered"} /\ question' = question
  <2>1. /\ reading' = reading /\ (reader' = "reading" => reader = "reading")
        /\ question \in 1..mailed
    BY <1>0, <1>2, MarkFrame DEF ReadType, None
  <2>2. Folder(question)' = Folder(question)
    <3>1. \A q \in 1..mailed : Folder(q)' = Folder(q)
      BY MailFrame
    <3> QED BY <1>2, <2>1, <3>1 DEF Folder
  <2>3. Folder(question) \in reading
    BY <1>2 DEF ReadingSees
  <2>4. ASSUME reader' = "reading", NEW v \in ran', Of(v, question)' PROVE v \in saw'[question']
    <3>1. reader = "reading" /\ question \notin responses
      BY <2>1, <2>4 DEF AnswersApart
    <3>2. v \in ran
      <4>1. ASSUME NEW s \in running, current[s] \in Owed(s), v = current[s] PROVE FALSE
        <5>1. v \in 1..pressed /\ shareOf[v] = s
          BY <4>1, RunningOwes DEF Owed, VerbsOf
        <5>2. Of(v, question)
          <6>1. Of(v, question)' = (root'[shareOf'[v]] = Folder(question)')
            BY DEF Of
          <6>2. shareOf'[v] = shareOf[v] /\ root'[shareOf[v]] = root[shareOf[v]]
            BY <1>0, <5>1, OwedWas DEF Verbs, VerbType
          <6> QED BY <2>2, <2>4, <6>1, <6>2 DEF Of
        <5> QED BY <2>3, <5>1, <5>2 DEF Of, NeverBoth
      <4> QED BY <2>4, <4>1, RanFrame
    <3>3. v \in 1..pressed
      BY <3>2 DEF ToldAreTaken
    <3>4. Of(v, question)
      <4>1. shareOf'[v] = shareOf[v] /\ root'[shareOf[v]] = root[shareOf[v]]
        BY <1>0, <3>3, OwedWas DEF Verbs, VerbType
      <4> QED BY <2>2, <2>4, <4>1 DEF Of
    <3>5. v \in saw[question]
      BY <3>1, <3>2, <3>4 DEF ReadingSees
    <3>6. saw'[question] = saw[question]
      <4>1. CASE File
        <5>1. saw' = [q \in Questions |-> IF q \in Drained THEN {} ELSE saw[q]]
          BY <4>1 DEF File
        <5> QED BY <1>0, <2>1, <3>1, <5>1 DEF Drained
      <4> QED BY <3>1, <4>1, SawFrame
    <3> QED BY <1>2, <3>5, <3>6
  <2> QED BY <2>1, <2>2, <2>3, <2>4
<1> QED BY <1>1, <1>2, ReadingFrame

LEMMA AnswersStep ==
    ASSUME IInv, ToldAreTaken, AnswersApart, ReadingSees, AnswersSee, [Next]_vars
    PROVE  AnswersSee'
<1> USE DEF IInv
<1>0. /\ ReadType /\ HistoryType /\ \A q \in 1..mailed : q \in Questions
      /\ \A v \in 1..pressed : v \in Verbs
  BY DEF TypeOK, ReadType, VerbType, Questions, Verbs
<1>1. CASE File
  BY <1>1 DEF File, Drained, AnswersSee
<1>2. CASE ~File
  <2> SUFFICES ASSUME NEW q \in responses', NEW v \in told' \cap ran', Of(v, q)'
               PROVE  v \in saw'[q]
    BY DEF AnswersSee
  <2>1. v \in told /\ verb[v] = "taken"
    BY <1>2, FiledFrame DEF ToldAreTaken
  <2>2. v \in ran
    <3>1. ASSUME NEW s \in running, current[s] \in Owed(s) PROVE v # current[s]
      BY <2>1, <3>1 DEF Owed
    <3> QED BY <3>1, RanFrame
  <2>3. q \in responses \/ (q = question /\ reader = "reading")
    <3>1. CASE WindowAsks \/ WindowGoesOn
      BY <1>2, <3>1 DEF WindowAsks, Mail, PressMakes, Press, WindowGoesOn, PressRefused,
         DrainBegins, DrainSettles, DrainTakes, Forget
    <3>2. CASE ReaderGoesOn \/ ReaderPanics
      BY <3>2 DEF ReaderGoesOn, Post, Posted, LookAtParked, TakeQuestion, WaitForMail,
         Receive, AskTurn, BeginOrPark, Answer, ReadOver, ReaderPanics
    <3>3. ASSUME NEW s \in Shares, WorkerGoesOn(s) \/ Stir(s) \/ Panic(s)
          PROVE  responses' = responses
      BY <3>3, WorkerLeaves
    <3>4. CASE UNCHANGED vars
      BY <3>4 DEF vars
    <3> QED BY <3>1, <3>2, <3>3, <3>4, NextByThread
  <2>4. q \in 1..mailed
    <3>1. CASE q \in responses
      BY <3>1 DEF AnswersApart
    <3>2. CASE q = question /\ reader = "reading"
      BY <1>0, <3>2 DEF ReadType, None
    <3> QED BY <2>3, <3>1, <3>2
  <2>5. Of(v, q)
    <3>1. v \in 1..pressed
      BY <2>2 DEF ToldAreTaken
    <3> QED BY <2>4, <3>1, OfStays
  <2>6. v \in saw[q]
    BY <2>1, <2>2, <2>3, <2>5 DEF AnswersSee, ReadingSees
  <2>7. ASSUME NEW r, saw' = [saw EXCEPT ![r] = ran] PROVE v \in saw'[q]
    BY <1>0, <2>2, <2>4, <2>6, <2>7 DEF HistoryType
  <2> QED BY <1>2, <2>6, <2>7, SawFrame
<1> QED BY <1>1, <1>2

LEMMA FreshInvariance == Spec => []FreshInv
<1>1. Init => ToldAreTaken /\ AnswersApart /\ ReadingSees /\ AnswersSee
  BY DEF Init, ToldAreTaken, AnswersApart, ReadingSees, AnswersSee
<1>2. FreshInv /\ [Next]_vars => FreshInv'
  <2> SUFFICES ASSUME FreshInv, [Next]_vars PROVE FreshInv'
    OBVIOUS
  <2>1. /\ TypeOK /\ VerbsWhole /\ WorkersWhole /\ QuestionsWhole
        /\ IInv /\ ToldAreTaken /\ AnswersApart /\ ReadingSees /\ AnswersSee
    BY DEF FreshInv, IInv
  <2>2. ToldAreTaken' /\ AnswersApart'
    BY <2>1, ToldStep, ApartStep
  <2>3. ReadingSees' /\ AnswersSee'
    BY <2>1, SeesStep, AnswersStep
  <2> QED BY <2>1, <2>2, <2>3, IInvStep DEF FreshInv
<1>3. Init => FreshInv
  BY <1>1, InitIInv DEF FreshInv
<1> QED BY <1>2, <1>3, PTL DEF Spec

(* "A reading taken before a verb never lands after the verb's receipt has *)
(* asked the repository again": what a drain files has seen every verb     *)
(* told before it (drain_git_answers), whatever panics and however the     *)
(* shares come and go between the two.                                     *)
THEOREM ReadingsAreFiledFresh == Spec => NoStaleReading
<1>1. ASSUME FreshInv, [Next]_vars, NEW q \in filed' \ filed, NEW v \in told \cap ran,
             root[shareOf[v]] = Folder(q)
      PROVE  v \in saw[q]
  <2>1. q \in responses
    BY <1>1, FiledFrame DEF File, Drained
  <2> QED BY <1>1, <2>1 DEF FreshInv, AnswersSee, Of
<1>2. FreshInv /\ [Next]_vars =>
        [\A q \in filed' \ filed : \A v \in told \cap ran :
            root[shareOf[v]] = Folder(q) => v \in saw[q]]_vars
  BY <1>1
<1> QED BY <1>2, FreshInvariance, PTL DEF Spec, NoStaleReading

-----------------------------------------------------------------------------
(* Who waits, and for what.                                                *)

(* A read asked of the turnstile stands behind verbs minted already, of    *)
(* its repository's share, and one parked is marked so, to be nudged.      *)
AsksWhole ==
    /\ \A a \in asked : a.last <= pressed
    /\ \A a \in asked : a.behind # None =>
          a.behind \in 1..made /\ root[a.behind] = a.folder /\ a.last <= minted[a.behind]
    /\ \A q \in parked : \E a \in asked : a.question = q /\ a.parked

(* Questions are parked, taken in hand and put in line as they are mailed. *)
InHand == IF reader \in {"draining", "asking", "beginning"} THEN {question} \ {None} ELSE {}

MailInOrder ==
    /\ reader \in {"looking", "waiting"} => question = None
    /\ reader = "ended" => parked = {}
    /\ \A p \in parked, q \in InHand \cup line \cup inbox : p < q
    /\ \A p \in InHand, q \in line \cup inbox : p < q
    /\ \A p \in line, q \in inbox : p < q

(* A repository is marked as read for no longer than the read.             *)
ReadingWhole == \A f \in reading : reader \in {"reading", "answered"} /\ f = Folder(question)

(* A worker that sleeps, or has ended, owes nothing.                       *)
OwedIsServed ==
    /\ \A s \in Shares : worker[s] # "unstarted" => s \in 1..made
    /\ \A s \in Shares : worker[s] = "ended" => s \in fault
    /\ \A s \in Shares :
          worker[s] \in {"unstarted", "asleep"} \/ s \in fault => Owed(s) = {}

(* A read stands behind every verb an earlier read of its repository waits *)
(* for.                                                                    *)
AsksInOrder ==
    \A a, b \in asked : a.folder = b.folder /\ b.question <= a.question /\ BehindAVerb(b) =>
        a.behind = b.behind /\ b.last <= a.last

(* The two wakes: of a verb that waits, and of the read worker for a read  *)
(* it has looked at and parked.                                            *)
WaitersTold == \A s \in Shares : worker[s] = "waiting" => VerbWaits(s)

Telling(f) == \E s \in Shares : worker[s] = "telling" /\ root[s] = f

ParkedTold ==
    \A q \in parked : reader = "waiting" \/ (reader = "looking" /\ q <= at) =>
        ReadWaits(q) \/ nudged \/ Telling(Folder(q))

(* Shares that exist stay as they are, and mint on.                        *)
LEMMA MintedGrows ==
    ASSUME TypeOK, VerbsWhole, [Next]_vars, NEW s \in Shares
    PROVE  minted[s] \in Nat /\ minted'[s] \in Nat /\ minted[s] <= minted'[s]
<1>0. VerbType /\ pressed \in Nat /\ minted[s] \in Nat /\ minted[s] <= pressed
  BY DEF TypeOK, VerbType, Verbs, None, VerbsWhole
<1>1. CASE \E r \in Shares : Press(r)
  BY <1>0, <1>1 DEF Press, VerbType
<1>2. CASE UNCHANGED minted
  BY <1>0, <1>2
<1>3. CASE (WindowAsks /\ ~\E r \in Shares : Press(r)) \/ WindowGoesOn
  BY <1>2, <1>3 DEF WindowAsks, Mail, PressMakes, WindowGoesOn, PressRefused, DrainBegins,
     DrainSettles, DrainTakes, Forget, File
<1>4. CASE ReaderGoesOn \/ ReaderPanics
  BY <1>2, <1>4, ReaderLeaves
<1>5. ASSUME NEW r \in Shares, WorkerGoesOn(r) \/ Stir(r) \/ Panic(r) PROVE UNCHANGED minted
  BY <1>5, WorkerLeaves
<1> QED BY <1>1, <1>2, <1>3, <1>4, <1>5, NextByThread DEF vars

(* What is owed up to a verb pressed already, was.                         *)
LEMMA OwesUpToWas ==
    ASSUME TypeOK, VerbsWhole, WorkersWhole, [Next]_vars, NEW s \in Shares,
           NEW last \in Nat, last <= pressed, OwesUpTo(s, last)'
    PROVE  OwesUpTo(s, last)
<1>0. pressed \in Nat /\ Verbs = 1..MaxVerbs /\ \A v \in Verbs : v \in Nat
  BY DEF TypeOK, VerbType, Verbs
<1>1. PICK v \in Verbs : (v \in Owed(s))' /\ v <= last
  BY DEF OwesUpTo, Owed, VerbsOf
<1>2. v \in 1..pressed
  BY <1>0, <1>1
<1>3. shareOf'[v] = s
  BY <1>1 DEF Owed, VerbsOf
<1>4. shareOf[v] = s /\ v \in Owed(s)
  BY <1>1, <1>2, <1>3, OwedWas
<1> QED BY <1>1, <1>4 DEF OwesUpTo

(* What a step can make of a read asked.                                   *)
LEMMA AskIs ==
    ASSUME TypeOK, NEW a \in asked
    PROVE  /\ a.question \in Nat /\ a.last \in Nat /\ a.folder \in Folders
           /\ a.behind \in Shares \cup {None} /\ None \notin Shares
BY DEF TypeOK, ReadType, Asked, Questions, Verbs, None, Shares

LEMMA AsksBehindStep ==
    ASSUME TypeOK, SharesWhole, VerbsWhole, WorkersWhole, AsksWhole, [Next]_vars
    PROVE  /\ \A a \in asked' : a.last <= pressed'
           /\ \A a \in asked' : a.behind # None =>
                 a.behind \in 1..made' /\ root'[a.behind] = a.folder /\ a.last <= minted'[a.behind]
<1>0. /\ pressed \in Nat /\ pressed' \in Nat /\ pressed <= pressed' /\ made \in Nat /\ made <= made'
      /\ made' \in Nat /\ \A s \in 1..made : s \in Shares /\ root'[s] = root[s]
  BY OwedFrame, ShareTypeStep DEF TypeOK, VerbType, ShareType, Shares
<1>1. ASSUME NEW b \in asked
      PROVE  /\ b.last <= pressed'
             /\ b.behind # None =>
                  b.behind \in 1..made' /\ root'[b.behind] = b.folder /\ b.last <= minted'[b.behind]
  <2>1. b.last \in Nat /\ b.last <= pressed
    BY AskIs DEF AsksWhole
  <2>2. ASSUME b.behind # None
        PROVE  b.behind \in 1..made' /\ root'[b.behind] = b.folder /\ b.last <= minted'[b.behind]
    <3>1. b.behind \in 1..made /\ root[b.behind] = b.folder /\ b.last <= minted[b.behind]
      BY <2>2 DEF AsksWhole
    <3>2. /\ minted[b.behind] \in Nat /\ minted'[b.behind] \in Nat
          /\ minted[b.behind] <= minted'[b.behind]
      BY <1>0, <3>1, MintedGrows
    <3> QED BY <1>0, <2>1, <3>1, <3>2
  <2> QED BY <1>0, <2>1, <2>2
<1>2. CASE AskTurn
  <2>1. UNCHANGED <<pressed, made, root, minted>>
    BY <1>2 DEF AskTurn
  <2>2. ASSUME NEW a \in asked', a \notin asked
        PROVE  /\ a.last <= pressed'
               /\ a.behind # None =>
                    a.behind \in 1..made' /\ root'[a.behind] = a.folder /\ a.last <= minted'[a.behind]
    <3>1. \/ a = AskedNow(question, None, None)
          \/ \E s \in Holding(Folder(question)) : a = AskedNow(question, s, minted[s])
      BY <1>2, <2>2 DEF AskTurn
    <3>2. CASE a = AskedNow(question, None, None)
      BY <1>0, <3>2 DEF AskedNow, None
    <3>3. ASSUME NEW s \in Holding(Folder(question)), a = AskedNow(question, s, minted[s])
          PROVE  /\ a.last <= pressed'
                 /\ a.behind \in 1..made' /\ root'[a.behind] = a.folder /\ a.last <= minted'[a.behind]
      <4>1. s \in 1..made /\ root[s] = Folder(question)
        BY DEF Holding, SharesWhole
      <4>2. s \in Shares /\ minted[s] <= pressed /\ minted[s] \in Nat
        BY <1>0, <4>1, MintedGrows DEF VerbsWhole
      <4> QED BY <2>1, <3>3, <4>1, <4>2 DEF AskedNow
    <3> QED BY <3>1, <3>2, <3>3
  <2> QED BY <1>1, <2>2
<1>3. CASE \A a \in asked' : \E b \in asked : SameAsk(a, b)
  <2> SUFFICES ASSUME NEW a \in asked'
               PROVE  /\ a.last <= pressed'
                      /\ a.behind # None => /\ a.behind \in 1..made' /\ root'[a.behind] = a.folder
                                            /\ a.last <= minted'[a.behind]
    OBVIOUS
  <2> PICK b \in asked : SameAsk(a, b)
    BY <1>3
  <2> QED BY <1>1 DEF SameAsk
<1> QED BY <1>2, <1>3, AskedFrame

(* A read that is parked is marked so.                                     *)
LEMMA ParkMarks ==
    ASSUME TypeOK, NEW q, ParkRead(q), NEW a \in asked
    PROVE  \E b \in asked' : SameAsk(a, b) /\ (a.parked \/ a.question = q => b.parked)
<1>1. a \in Asked
  BY DEF TypeOK, ReadType
<1>2. CASE a.question = q
  <2> DEFINE b == [a EXCEPT !.parked = TRUE]
  <2>1. b \in asked'
    BY <1>2 DEF ParkRead
  <2>2. SameAsk(a, b) /\ b.parked
    BY <1>1 DEF SameAsk, Asked
  <2> QED BY <2>1, <2>2
<1>3. CASE a.question # q
  <2>1. a \in asked'
    BY <1>3 DEF ParkRead, AskedWithout
  <2> QED BY <1>3, <2>1 DEF SameAsk
<1> QED BY <1>2, <1>3

LEMMA MarksStep ==
    ASSUME TypeOK, QuestionsWhole, AsksWhole, [Next]_vars
    PROVE  \A q \in parked' : \E a \in asked' : a.question = q /\ a.parked
<1>0. \A q \in parked : \E a \in asked : a.question = q /\ a.parked
  BY DEF AsksWhole
<1>1. CASE UNCHANGED <<parked, asked>>
  BY <1>0, <1>1
<1>2. CASE WindowAsks \/ WindowGoesOn
  BY <1>1, <1>2, WindowLeaves
<1>3. ASSUME NEW s \in Shares, WorkerGoesOn(s) \/ Stir(s) \/ Panic(s) PROVE UNCHANGED <<parked, asked>>
  BY <1>3, WorkerLeaves
<1>4. CASE Post
  <2> PICK q \in Questions : \E older \in SUBSET Questions :
          parked' = parked \ older /\ asked' = AskedWithout(parked \cap older)
    BY <1>4 DEF Post
  <2> QED BY <1>0 DEF AskedWithout
<1>5. ASSUME NEW q, ParkRead(q), parked' \subseteq parked \cup {q}, q \in parked \/ (reader = "beginning" /\ q = question)
      PROVE  \A p \in parked' : \E a \in asked' : a.question = p /\ a.parked
  <2> TAKE p \in parked'
  <2>1. CASE p = q
    <3>1. PICK a \in asked : a.question = q
      BY <1>5 DEF QuestionsWhole
    <3> QED BY <1>5, <2>1, <3>1, ParkMarks DEF SameAsk
  <2>2. CASE p # q
    <3>1. PICK a \in asked : a.question = p /\ a.parked
      BY <1>0, <1>5, <2>2
    <3> QED BY <1>5, <3>1, ParkMarks DEF SameAsk
  <2> QED BY <2>1, <2>2
<1>6. CASE LookAtParked
  <2> PICK q \in Questions : /\ First(q, Unlooked)
                            /\ \/ ParkRead(q) /\ at' = q /\ UNCHANGED parked
                               \/ BeginRead(q) /\ parked' = parked \ {q}
    BY <1>6 DEF LookAtParked
  <2>1. q \in parked
    BY DEF First, Unlooked
  <2>2. CASE ParkRead(q) /\ UNCHANGED parked
    BY <1>5, <2>1, <2>2
  <2>3. CASE BeginRead(q) /\ parked' = parked \ {q}
    BY <1>0, <2>3 DEF BeginRead, AskedWithout
  <2> QED BY <2>2, <2>3
<1>7. CASE BeginOrPark
  <2>1. reader = "beginning" /\ question \notin parked
    BY <1>7 DEF BeginOrPark, QuestionsWhole
  <2>2. CASE ParkRead(question) /\ parked' = parked \cup {question}
    BY <1>5, <2>1, <2>2
  <2>3. CASE BeginRead(question) /\ UNCHANGED parked
    BY <1>0, <2>1, <2>3 DEF BeginRead, AskedWithout
  <2> QED BY <1>7, <2>2, <2>3 DEF BeginOrPark
<1>8. CASE AskTurn
  BY <1>0, <1>8 DEF AskTurn
<1>9. CASE ReaderPanics
  BY <1>9 DEF ReaderPanics
<1>10. CASE Posted \/ TakeQuestion \/ WaitForMail \/ Receive \/ Answer \/ ReadOver
  BY <1>1, <1>10 DEF Posted, TakeQuestion, WaitForMail, Receive, Answer, ReadOver
<1> QED BY <1>1, <1>2, <1>3, <1>4, <1>6, <1>7, <1>8, <1>9, <1>10, NextByThread DEF ReaderGoesOn, vars

(* The order of the mail.                                                  *)
LEMMA MailOrderStep ==
    ASSUME TypeOK, QuestionsWhole, MailInOrder, [Next]_vars
    PROVE  MailInOrder'
<1>0. /\ mailed \in Nat /\ None = 0 /\ question \in 0..mailed
      /\ inbox \subseteq 1..mailed /\ line \subseteq 1..mailed /\ parked \subseteq 1..mailed
  BY DEF TypeOK, ReadType, None
<1>1. /\ reader \in {"looking", "waiting"} => question = None
      /\ reader = "ended" => parked = {}
      /\ \A p \in parked, q \in InHand \cup line \cup inbox : p < q
      /\ \A p \in InHand, q \in line \cup inbox : p < q
      /\ \A p \in line, q \in inbox : p < q
  BY DEF MailInOrder
<1>2. ASSUME parked' \subseteq parked, InHand' \subseteq InHand, line' \subseteq line, inbox' \subseteq inbox,
             reader' \in {"looking", "waiting"} => question' = None,
             reader' = "ended" => parked' = {}
      PROVE  MailInOrder'
  BY <1>1, <1>2 DEF MailInOrder
<1>3. CASE \E t \in Targets : Mail(t)
  <2>1. inbox' = inbox \cup {mailed + 1} /\ UNCHANGED <<line, parked, reader, question>>
    BY <1>3 DEF Mail
  <2>2. InHand' = InHand /\ \A p \in parked \cup InHand \cup line : p < mailed + 1
    BY <1>0, <2>1 DEF InHand
  <2> QED BY <1>1, <2>1, <2>2 DEF MailInOrder
<1>4. CASE UNCHANGED <<inbox, line, parked, reader, question>>
  BY <1>1, <1>2, <1>4 DEF InHand
<1>5. CASE (WindowAsks /\ ~\E t \in Targets : Mail(t)) \/ WindowGoesOn
  BY <1>4, <1>5 DEF WindowAsks, PressMakes, Press, WindowGoesOn, PressRefused, DrainBegins,
     DrainTakes, DrainSettles, Forget, File
<1>6. CASE Post
  <2> PICK q \in Questions : /\ First(q, inbox) /\ inbox' = inbox \ {q}
                            /\ line' \subseteq line \cup {q} /\ parked' \subseteq parked
    BY <1>6 DEF Post
  <2>1. reader = "draining" /\ UNCHANGED <<reader, question>>
    BY <1>6 DEF Post
  <2>2. InHand' = InHand
    BY <2>1 DEF InHand
  <2>3. q \in inbox /\ \A r \in inbox' : q < r
    BY <1>0 DEF First
  <2>4. \A p \in line', r \in inbox' : p < r
    BY <1>1, <2>3
  <2>5. \A r \in line' \cup inbox' : r \in line \cup inbox
    BY <2>3
  <2>6. \A p \in parked', r \in InHand' \cup line' \cup inbox' : p < r
    BY <1>1, <2>2, <2>5
  <2>7. \A p \in InHand', r \in line' \cup inbox' : p < r
    BY <1>1, <2>2, <2>5
  <2> QED BY <2>1, <2>4, <2>6, <2>7 DEF MailInOrder
<1>7. CASE Posted
  <2>1. UNCHANGED <<inbox, line, parked>> /\ reader = "draining"
    BY <1>7 DEF Posted
  <2>2. \/ reader' = "asking" /\ question' = question
        \/ reader' = "looking" /\ question' = None
    BY <1>7 DEF Posted
  <2>3. InHand' \subseteq InHand
    BY <2>1, <2>2 DEF InHand
  <2> QED BY <1>2, <2>1, <2>2, <2>3
<1>8. CASE LookAtParked
  <2>1. UNCHANGED <<inbox, line>> /\ parked' \subseteq parked
    BY <1>8 DEF LookAtParked
  <2>2. (reader' = "looking" /\ question' = None) \/ reader' = "reading"
    BY <1>8 DEF LookAtParked, ParkRead, BeginRead
  <2>3. InHand' = {}
    BY <2>2 DEF InHand
  <2> QED BY <1>2, <2>1, <2>2, <2>3
<1>9. CASE TakeQuestion
  <2> PICK q \in Questions : First(q, line) /\ question' = q /\ line' = line \ {q}
    BY <1>9 DEF TakeQuestion
  <2>1. UNCHANGED <<inbox, parked>> /\ reader' = "draining"
    BY <1>9 DEF TakeQuestion
  <2>2. InHand' \subseteq {q} /\ q \in line
    BY DEF InHand, First
  <2>3. \A r \in line' : q < r
    BY <1>0 DEF First
  <2>4. \A p \in parked', r \in InHand' \cup line' \cup inbox' : p < r
    BY <1>1, <2>1, <2>2
  <2>5. \A p \in InHand', r \in line' \cup inbox' : p < r
    BY <1>1, <2>1, <2>2, <2>3
  <2>6. \A p \in line', r \in inbox' : p < r
    BY <1>1, <2>1
  <2> QED BY <2>1, <2>4, <2>5, <2>6 DEF MailInOrder
<1>10. CASE AskTurn
  <2>1. UNCHANGED <<inbox, line, parked, question>> /\ reader = "asking" /\ reader' = "beginning"
    BY <1>10 DEF AskTurn
  <2> QED BY <1>2, <2>1 DEF InHand
<1>11. CASE BeginOrPark
  <2>1. /\ UNCHANGED <<inbox, line>> /\ reader = "beginning" /\ question # None
        /\ parked' \subseteq parked \cup {question}
        /\ (reader' = "looking" /\ question' = None) \/ reader' = "reading"
    BY <1>11 DEF BeginOrPark, ParkRead, BeginRead, TypeOK, ReadType
  <2>2. InHand' = {} /\ InHand = {question}
    BY <2>1 DEF InHand
  <2> QED BY <1>1, <2>1, <2>2 DEF MailInOrder
<1>12. CASE WaitForMail \/ Receive
  <2>1. /\ UNCHANGED <<inbox, line, parked, question>>
        /\ reader \in {"looking", "waiting"} /\ reader' \in {"waiting", "draining"}
    BY <1>12 DEF WaitForMail, Receive
  <2> QED BY <1>1, <1>2, <2>1 DEF InHand
<1>13. CASE Answer \/ ReadOver \/ ReaderPanics
  <2>1. /\ inbox' \subseteq inbox /\ line' \subseteq line /\ parked' \subseteq parked
        /\ \/ reader' = "answered" \/ (reader' = "ended" /\ parked' = {})
           \/ reader' = "draining" /\ question' = None
    BY <1>13 DEF Answer, ReadOver, ReaderPanics
  <2> QED BY <1>2, <2>1 DEF InHand
<1>14. ASSUME NEW s \in Shares, WorkerGoesOn(s) \/ Stir(s) \/ Panic(s) PROVE MailInOrder'
  <2>1. /\ UNCHANGED <<line, parked, reader, question>> /\ inbox' = inbox
    BY <1>14, WorkerLeaves
  <2> QED BY <1>4, <2>1
<1> QED BY <1>3, <1>4, <1>5, <1>6, <1>7, <1>8, <1>9, <1>10, <1>11, <1>12, <1>13, <1>14, NextByThread
        DEF ReaderGoesOn, vars

(* The mark of a reading.                                                  *)
LEMMA ReadingStep ==
    ASSUME TypeOK, ReadingWhole, [Next]_vars
    PROVE  ReadingWhole'
<1>0. ReadType /\ mailed \in Nat /\ None = 0
  BY DEF TypeOK, ReadType, None
<1>1. reader \notin {"reading", "answered"} => reading = {}
  BY DEF ReadingWhole
<1>2. CASE \E t \in Targets : Mail(t)
  <2>1. UNCHANGED <<reader, reading, question>>
    BY <1>2 DEF Mail
  <2>2. reader \in {"reading", "answered"} => Folder(question)' = Folder(question)
    <3>1. reader \in {"reading", "answered"} => question \in 1..mailed
      BY <1>0 DEF ReadType
    <3> QED BY <2>1, <3>1, MailFrame DEF Folder
  <2> QED BY <2>1, <2>2 DEF ReadingWhole
<1>3. CASE UNCHANGED <<reader, reading, question, target>>
  BY <1>3 DEF ReadingWhole, Folder
<1>4. CASE (WindowAsks /\ ~\E t \in Targets : Mail(t)) \/ WindowGoesOn
  BY <1>3, <1>4 DEF WindowAsks, PressMakes, Press, WindowGoesOn, PressRefused, DrainBegins,
     DrainTakes, DrainSettles, Forget, File
<1>5. ASSUME reader \notin {"reading", "answered"}, target' = target,
             reading' = reading \/ \E q : BeginRead(q)
      PROVE  ReadingWhole'
  BY <1>1, <1>5 DEF ReadingWhole, BeginRead, Folder
<1>6. CASE LookAtParked \/ BeginOrPark
  BY <1>5, <1>6 DEF LookAtParked, BeginOrPark, ParkRead
<1>7. CASE Post \/ Posted \/ TakeQuestion \/ WaitForMail \/ Receive \/ AskTurn
  BY <1>5, <1>7 DEF Post, Posted, TakeQuestion, WaitForMail, Receive, AskTurn
<1>8. CASE Answer
  BY <1>8 DEF Answer, ReadingWhole, Folder
<1>9. CASE ReadOver \/ ReaderPanics
  <2>1. reading' = reading \ {Folder(question)}
    BY <1>9 DEF ReadOver, ReaderPanics
  <2> QED BY <2>1 DEF ReadingWhole
<1>10. ASSUME NEW s \in Shares, WorkerGoesOn(s) \/ Stir(s) \/ Panic(s) PROVE ReadingWhole'
  BY <1>3, <1>10, WorkerLeaves
<1> QED BY <1>2, <1>3, <1>4, <1>6, <1>7, <1>8, <1>9, <1>10, NextByThread DEF ReaderGoesOn, vars

(* What a share owes, after a step that is no press.                       *)
LEMMA OwedNotPressed ==
    ASSUME TypeOK, VerbsWhole, WorkersWhole, [Next]_vars, NEW s \in Shares, ~Press(s)
    PROVE  Owed(s)' \subseteq Owed(s)
<1>0. VerbType /\ pressed \in Nat /\ Verbs = 1..MaxVerbs /\ None \notin Shares
  BY DEF TypeOK, VerbType, Verbs, Shares, None
<1>1. CASE \E r \in Shares : Press(r)
  <2> PICK r \in Shares : Press(r)
    BY <1>1
  <2>1. /\ r # s /\ shareOf' = [shareOf EXCEPT ![pressed + 1] = r]
        /\ verb' = [verb EXCEPT ![pressed + 1] = "owed"]
    BY DEF Press
  <2> QED BY <1>0, <2>1 DEF VerbType, Owed, VerbsOf
<1>2. ASSUME shareOf' = shareOf, pressed' = pressed PROVE Owed(s)' \subseteq Owed(s)
  <2> SUFFICES ASSUME NEW v \in Owed(s)' PROVE v \in Owed(s)
    OBVIOUS
  <2>1. v \in Verbs /\ shareOf[v] = s /\ verb'[v] \in {"owed", "orphan"}
    BY <1>2 DEF Owed, VerbsOf
  <2>2. v \in 1..pressed
    BY <1>0, <2>1 DEF VerbsWhole
  <2>3. verb[v] \in {"owed", "orphan"}
    BY <2>1, <2>2, OwedFrame
  <2> QED BY <2>1, <2>3 DEF Owed, VerbsOf
<1>3. CASE (WindowAsks /\ ~\E r \in Shares : Press(r)) \/ WindowGoesOn
  BY <1>2, <1>3 DEF WindowAsks, Mail, PressMakes, WindowGoesOn, PressRefused, DrainBegins,
     DrainSettles, DrainTakes, Forget, File
<1>4. CASE ReaderGoesOn \/ ReaderPanics
  BY <1>2, <1>4, ReaderLeaves
<1>5. ASSUME NEW r \in Shares, WorkerGoesOn(r) \/ Stir(r) \/ Panic(r)
      PROVE  shareOf' = shareOf /\ pressed' = pressed
  BY <1>5, WorkerLeaves
<1> QED BY <1>1, <1>2, <1>3, <1>4, <1>5, NextByThread DEF vars

LEMMA ServedStep ==
    ASSUME TypeOK, SharesWhole, VerbsWhole, WorkersWhole, OwedIsServed, [Next]_vars
    PROVE  OwedIsServed'
<1>0. /\ WorkerType /\ worker \in [Shares -> WorkerPlaces] /\ made \in Nat /\ made' \in Nat
      /\ made <= made' /\ None = 0 /\ 0 \notin Verbs /\ Shares = 1..MaxShares
  BY OwedFrame, ShareTypeStep DEF TypeOK, WorkerType, ShareType, None, Verbs, Shares
<1>1. ASSUME UNCHANGED fault, \A s \in Shares : ~Press(s),
             \A s \in Shares : \/ worker'[s] = worker[s]
                               \/ /\ worker[s] # "unstarted"
                                  /\ worker'[s] \notin {"unstarted", "asleep", "ended"}
      PROVE  OwedIsServed'
  <2>1. \A s \in Shares : Owed(s) = {} => Owed(s)' = {}
    BY <1>1, OwedNotPressed
  <2>2. \A s \in 1..made : s \in 1..made'
    BY <1>0
  <2> QED BY <1>1, <2>1, <2>2 DEF OwedIsServed
<1>2. CASE \E s \in Shares : Press(s)
  <2> PICK s \in Shares : Press(s)
    BY <1>2
  <2>1. /\ s \in 1..made /\ s \notin fault /\ UNCHANGED <<fault, made>>
        /\ worker' = [worker EXCEPT ![s] = IF @ \in {"unstarted", "asleep"} THEN "looking" ELSE @]
        /\ shareOf' = [shareOf EXCEPT ![pressed + 1] = s]
    BY DEF Press, SharesWhole
  <2>2. \A r \in Shares \ {s} : worker'[r] = worker[r] /\ ~Press(r)
    <3>1. pressed + 1 \in Verbs
      BY DEF Press, TypeOK, VerbType, Verbs
    <3>2. shareOf'[pressed + 1] = s
      BY <2>1, <3>1 DEF TypeOK, VerbType
    <3>3. \A r \in Shares : Press(r) => shareOf'[pressed + 1] = r
      BY <3>1 DEF Press, TypeOK, VerbType
    <3> QED BY <1>0, <2>1, <3>2, <3>3
  <2>3. worker'[s] \notin {"unstarted", "asleep"} /\ (worker'[s] = "ended" => worker[s] = "ended")
    BY <1>0, <2>1
  <2>4. \A r \in Shares \ {s} : Owed(r) = {} => Owed(r)' = {}
    BY <2>2, OwedNotPressed
  <2> QED BY <1>0, <2>1, <2>2, <2>3, <2>4 DEF OwedIsServed
<1>3. ASSUME worker' \in {worker, Told(worker)}, UNCHANGED fault, \A s \in Shares : ~Press(s)
      PROVE  OwedIsServed'
  <2>1. \A s \in Shares : \/ worker'[s] = worker[s]
                          \/ /\ worker[s] # "unstarted"
                             /\ worker'[s] \notin {"unstarted", "asleep", "ended"}
    BY <1>0, <1>3 DEF Told
  <2> QED BY <1>1, <1>3, <2>1
<1>4. CASE \E s \in Shares : Forget(s)
  <2> PICK s \in Shares : Forget(s)
    BY <1>4
  <2>1. /\ UNCHANGED <<fault, shareOf, verb, pressed>> /\ s \in known
        /\ worker' = [Told(worker) EXCEPT ![s] = IF @ = "asleep" THEN "looking" ELSE @]
    BY DEF Forget, Leaving
  <2>2. \A r \in Shares : \/ worker'[r] = worker[r]
                          \/ /\ worker[r] # "unstarted"
                             /\ worker'[r] \notin {"unstarted", "asleep", "ended"}
    BY <1>0, <2>1 DEF Told
  <2>3. \A r \in Shares : ~Press(r)
    BY <2>1 DEF Press, TypeOK, VerbType
  <2> QED BY <1>1, <2>1, <2>2, <2>3
<1>5. CASE (WindowAsks /\ ~\E s \in Shares : Press(s)) \/ WindowGoesOn
  <2>1. UNCHANGED fault
    BY <1>5, WindowLeaves
  <2>2. CASE \E s \in Shares : Press(s)
    BY <1>2, <2>2
  <2>3. CASE ~\E s \in Shares : Press(s)
    BY <1>3, <1>4, <1>5, <2>1, <2>3, WindowLeaves
  <2> QED BY <2>2, <2>3
<1>6. CASE ReaderGoesOn \/ ReaderPanics
  <2>1. UNCHANGED <<fault, pressed>> /\ worker' \in {worker, Told(worker)}
    BY <1>6, ReaderLeaves
  <2>2. \A r \in Shares : ~Press(r)
    BY <2>1 DEF Press, TypeOK, VerbType
  <2> QED BY <1>3, <2>1, <2>2
<1>7. ASSUME NEW s \in Shares, WorkerGoesOn(s) \/ Stir(s) \/ Panic(s) PROVE OwedIsServed'
  <2>0. pressed' = pressed /\ shareOf' = shareOf /\ made' = made
    BY <1>7, WorkerLeaves
  <2>1. \A r \in Shares : ~Press(r)
    BY <2>0 DEF Press, TypeOK, VerbType
  <2>2. worker[s] = "looking" => InLine(s) = Owed(s)
    BY <1>0 DEF WorkersWhole, Busy, InLine, Owed, VerbsOf
  <2>3. \A r \in Shares : Owed(r) = {} => Owed(r)' = {}
    BY <2>1, OwedNotPressed
  <2>4. CASE Pop(s) \/ Stir(s) \/ WaitTurn(s) \/ TakeTurn(s) \/ VerbOver(s) \/ Publish(s) \/ Tell(s)
    <3>1. UNCHANGED fault
      BY <2>4 DEF Pop, Stir, WaitTurn, TakeTurn, VerbOver, Publish, Tell
    <3>2. \A r \in Shares : \/ worker'[r] = worker[r]
                            \/ /\ worker[r] # "unstarted"
                               /\ worker'[r] \notin {"unstarted", "asleep", "ended"}
      BY <1>0, <2>4 DEF Pop, Stir, WaitTurn, TakeTurn, VerbOver, Publish, Tell, Told
    <3> QED BY <1>1, <2>1, <3>1, <3>2
  <2>5. CASE Sleep(s)
    <3>1. /\ UNCHANGED fault /\ worker[s] = "looking" /\ Owed(s) = {}
          /\ worker' = [worker EXCEPT ![s] = "asleep"]
      BY <2>2, <2>5 DEF Sleep
    <3>2. worker'[s] = "asleep" /\ \A r \in Shares \ {s} : worker'[r] = worker[r]
      BY <1>0, <3>1
    <3> QED BY <2>0, <2>3, <3>1, <3>2 DEF OwedIsServed
  <2>6. CASE Ring(s)
    <3>1. /\ UNCHANGED fault /\ worker[s] = "ringing"
          /\ worker' = [worker EXCEPT ![s] = IF s \in fault THEN "ended" ELSE "looking"]
      BY <2>6 DEF Ring
    <3>2. /\ worker'[s] = (IF s \in fault THEN "ended" ELSE "looking")
          /\ \A r \in Shares \ {s} : worker'[r] = worker[r]
      BY <1>0, <3>1
    <3> QED BY <2>0, <2>3, <3>1, <3>2 DEF OwedIsServed
  <2>7. CASE Panic(s)
    <3>1. /\ fault' = fault \cup {s} /\ worker[s] = "looking"
          /\ worker' = [worker EXCEPT ![s] = AfterPanic(s)]
          /\ verb' = [v \in Verbs |-> IF v \in Owed(s) THEN EndOf(v) ELSE verb[v]]
      BY <2>7 DEF Panic
    <3>2. worker'[s] \in {"ended", "telling"} /\ \A r \in Shares \ {s} : worker'[r] = worker[r]
      BY <1>0, <3>1 DEF AfterPanic
    <3>3. Owed(s)' = {}
      BY <2>0, <3>1 DEF Owed, VerbsOf, EndOf
    <3> QED BY <2>0, <2>3, <3>1, <3>2, <3>3 DEF OwedIsServed
  <2>8. CASE Return(s)
    <3>1. /\ fault' = fault \cup {s} /\ worker[s] = "looking" /\ Owed(s) = {}
          /\ worker' = [worker EXCEPT ![s] = "ended"]
      BY <2>2, <2>8 DEF Return
    <3>2. worker'[s] = "ended" /\ \A r \in Shares \ {s} : worker'[r] = worker[r]
      BY <1>0, <3>1
    <3> QED BY <2>0, <2>3, <3>1, <3>2 DEF OwedIsServed
  <2> QED BY <1>7, <2>4, <2>5, <2>6, <2>7, <2>8 DEF WorkerGoesOn
<1>8. CASE UNCHANGED vars
  <2>1. \A r \in Shares : ~Press(r)
    BY <1>8 DEF vars, Press, TypeOK, VerbType
  <2> QED BY <1>3, <1>8, <2>1 DEF vars
<1> QED BY <1>2, <1>5, <1>6, <1>7, <1>8, NextByThread DEF WindowAsks

(* The reads asked stay in order: one asked now is the last mailed of      *)
(* those asked, and stands behind the share its repository has.            *)
LEMMA AsksInOrderStep ==
    ASSUME TypeOK, SharesWhole, VerbsWhole, WorkersWhole, QuestionsWhole, AskedWillRun, AsksWhole,
           MailInOrder, AsksInOrder, [Next]_vars
    PROVE  AsksInOrder'
<1>0. /\ pressed \in Nat /\ mailed \in Nat /\ \A s \in 1..made : s \in Shares
      /\ \A a \in asked : a.question \in Nat /\ a.last \in Nat /\ a.last <= pressed
  BY AskIs DEF TypeOK, VerbType, ShareType, ReadType, Shares, AsksWhole
<1>1. ASSUME NEW b \in asked, BehindAVerb(b)' PROVE BehindAVerb(b)
  <2>1. b.behind # None /\ b.behind \in Shares /\ OwesUpTo(b.behind, b.last)'
    BY <1>0, <1>1 DEF BehindAVerb, AsksWhole
  <2> QED BY <1>0, <2>1, OwesUpToWas DEF BehindAVerb
<1>2. CASE AskTurn
  <2>1. UNCHANGED <<verb, shareOf, root, known, live>> /\ reader = "asking"
        /\ question \in 1..mailed /\ question # None
    BY <1>2 DEF AskTurn, TypeOK, ReadType, None
  <2>2. \A b \in asked : b.question < question
    BY <1>0, <2>1 DEF AskedWillRun, MailInOrder, InHand
  <2> SUFFICES ASSUME NEW a \in asked', NEW b \in asked', a.folder = b.folder,
                      b.question <= a.question, BehindAVerb(b)'
               PROVE  a.behind = b.behind /\ b.last <= a.last
    BY DEF AsksInOrder
  <2>3. \A c \in asked' : c \in asked \/ (c.question = question /\ c.folder = Folder(question))
    BY <1>2 DEF AskTurn, AskedNow
  <2>4. a = b \/ b \in asked
    <3>1. \A c, d \in asked' : c \notin asked /\ d \notin asked => c = d
      BY <1>2 DEF AskTurn
    <3> QED BY <1>0, <2>1, <2>2, <2>3, <3>1
  <2>5. CASE a = b
    <3>1. b.last \in Verbs \cup {None}
      BY ReadTypeStep DEF ReadType, Asked
    <3> QED BY <2>5, <3>1 DEF Verbs, None
  <2>6. CASE a \in asked /\ a # b
    <3>1. b \in asked /\ BehindAVerb(b)
      BY <1>1, <2>4, <2>6
    <3> QED BY <2>6, <3>1 DEF AsksInOrder
  <2>7. CASE a \notin asked /\ a # b
    <3>0. b \in asked /\ BehindAVerb(b)
      BY <1>1, <2>4, <2>7
    <3>1. b.behind \in 1..made /\ root[b.behind] = b.folder /\ b.last <= minted[b.behind]
      BY <3>0 DEF AsksWhole, BehindAVerb
    <3>2. PICK v \in Owed(b.behind) : v <= b.last
      BY <3>0 DEF BehindAVerb, OwesUpTo
    <3>3. v \in Verbs /\ shareOf[v] = b.behind /\ v \in Owed(shareOf[v])
      BY <3>2 DEF Owed, VerbsOf
    <3>4. b.behind \in known /\ minted[b.behind] # None
      <4>1. b.behind \in known /\ v <= minted[b.behind]
        BY <3>3, OwedIsKnown
      <4>2. v \in Nat /\ v > 0
        BY <3>3 DEF Verbs
      <4>3. minted[b.behind] \in Nat
        BY <1>0, <3>1, MintedGrows
      <4> QED BY <4>1, <4>2, <4>3 DEF None
    <3>5. a.folder = Folder(question)
      BY <2>3, <2>7
    <3>6. b.behind \in Holding(Folder(question))
      BY <3>1, <3>4, <3>5 DEF Holding
    <3>7. PICK s \in Holding(Folder(question)) : a = AskedNow(question, s, minted[s])
      BY <1>2, <2>7, <3>6 DEF AskTurn
    <3>8. s = b.behind
      BY <3>1, <3>4, <3>5, <3>7 DEF Holding, SharesWhole
    <3> QED BY <3>1, <3>7, <3>8 DEF AskedNow
  <2> QED BY <2>5, <2>6, <2>7
<1>3. CASE \A a \in asked' : \E b \in asked : SameAsk(a, b)
  <2> SUFFICES ASSUME NEW a \in asked', NEW b \in asked', a.folder = b.folder,
                      b.question <= a.question, BehindAVerb(b)'
               PROVE  a.behind = b.behind /\ b.last <= a.last
    BY DEF AsksInOrder
  <2> PICK a0 \in asked : SameAsk(a, a0)
    BY <1>3
  <2> PICK b0 \in asked : SameAsk(b, b0)
    BY <1>3
  <2>1. BehindAVerb(b0)'
    BY DEF BehindAVerb, SameAsk, OwesUpTo
  <2>2. BehindAVerb(b0)
    BY <1>1, <2>1
  <2> QED BY <2>2 DEF AsksInOrder, SameAsk
<1> QED BY <1>2, <1>3, AskedFrame

(* What a worker that stays waiting waits for stays, too.                  *)
LEMMA WaitingFrame ==
    ASSUME TypeOK, [Next]_vars, NEW s \in Shares, worker'[s] = "waiting"
    PROVE  \/ WaitTurn(s)
           \/ /\ worker[s] = "waiting" /\ reading \subseteq reading'
              /\ \A a \in asked : \E b \in asked' : SameAsk(a, b)
<1>0. worker \in [Shares -> WorkerPlaces]
  BY DEF TypeOK, WorkerType
<1>1. Told(worker)[s] # "waiting" /\ \A a : SameAsk(a, a)
  BY DEF Told, SameAsk
<1>2. ASSUME worker' = worker, reading \subseteq reading', asked \subseteq asked'
      PROVE  /\ worker[s] = "waiting" /\ reading \subseteq reading'
             /\ \A a \in asked : \E b \in asked' : SameAsk(a, b)
  BY <1>1, <1>2
<1>3. CASE WindowAsks \/ WindowGoesOn
  <2>1. UNCHANGED <<asked, reading>>
    BY <1>3, WindowLeaves
  <2>2. worker[s] = "waiting"
    <3>1. ASSUME NEW r \in Shares, Press(r) \/ Forget(r) PROVE worker[s] = "waiting"
      BY <1>0, <1>1, <3>1 DEF Press, Forget, Told
    <3> QED BY <1>1, <1>3, <3>1, WindowLeaves
  <2> QED BY <1>1, <2>1, <2>2
<1>4. ASSUME NEW q, ParkRead(q)
      PROVE  /\ worker[s] = "waiting" /\ reading \subseteq reading'
             /\ \A a \in asked : \E b \in asked' : SameAsk(a, b)
  BY <1>4, ParkMarks DEF ParkRead
<1>5. ASSUME NEW q, BeginRead(q) PROVE FALSE
  BY <1>1, <1>5 DEF BeginRead
<1>6. CASE LookAtParked \/ BeginOrPark
  <2>1. \E q : ParkRead(q) \/ BeginRead(q)
    BY <1>6 DEF LookAtParked, BeginOrPark
  <2> QED BY <1>4, <1>5, <2>1
<1>7. CASE Post \/ ReadOver \/ ReaderPanics
  BY <1>1, <1>7 DEF Post, ReadOver, ReaderPanics
<1>8. CASE Posted \/ TakeQuestion \/ WaitForMail \/ Receive \/ AskTurn \/ Answer
  BY <1>2, <1>8 DEF Posted, TakeQuestion, WaitForMail, Receive, AskTurn, Answer
<1>9. ASSUME NEW r \in Shares, WorkerGoesOn(r) \/ Stir(r) \/ Panic(r)
      PROVE  WaitTurn(s) \/ (worker[s] = "waiting" /\ UNCHANGED <<asked, reading>>)
  <2>1. UNCHANGED <<asked, reading>>
    BY <1>9, WorkerLeaves
  <2>2. CASE r = s
    BY <1>0, <1>9, <2>2 DEF WorkerGoesOn, Pop, Sleep, Stir, TakeTurn, VerbOver, Publish, Tell,
       Ring, Panic, AfterPanic, Return, Told
  <2>3. CASE r # s
    BY <1>0, <1>1, <1>9, <2>1, <2>3 DEF WorkerGoesOn, Pop, Sleep, Stir, WaitTurn, TakeTurn,
       VerbOver, Publish, Tell, Ring, Panic, Return, Told
  <2> QED BY <2>2, <2>3
<1>10. CASE UNCHANGED vars
  BY <1>2, <1>10 DEF vars
<1> QED BY <1>1, <1>3, <1>6, <1>7, <1>8, <1>9, <1>10, NextByThread DEF ReaderGoesOn

(* A worker with a verb in hand is of a share the turnstile knows.         *)
LEMMA BusyIsKnown ==
    ASSUME TypeOK, SharesWhole, VerbsWhole, WorkersWhole, NEW s \in Shares, worker[s] \in Busy
    PROVE  s \in known /\ s \in 1..made
<1>1. current[s] \in Owed(s)
  BY DEF WorkersWhole
<1>2. s \in live
  BY <1>1 DEF Owed, VerbsOf, VerbsWhole
<1> QED BY <1>2 DEF SharesWhole

LEMMA WaitersStep ==
    ASSUME TypeOK, SharesWhole, VerbsWhole, WorkersWhole, AsksWhole, WaitersTold, [Next]_vars
    PROVE  WaitersTold'
<1> SUFFICES ASSUME NEW s \in Shares, worker'[s] = "waiting" PROVE VerbWaits(s)'
  BY DEF WaitersTold
<1>1. CASE WaitTurn(s)
  BY <1>1 DEF WaitTurn, VerbWaits, WaitsFor, OwesUpTo, Owed, VerbsOf
<1>2. CASE /\ worker[s] = "waiting" /\ reading \subseteq reading'
           /\ \A a \in asked : \E b \in asked' : SameAsk(a, b)
  <2>1. root'[s] = root[s]
    BY <1>2, BusyIsKnown, OwedFrame DEF Busy
  <2>2. VerbWaits(s)
    BY <1>2 DEF WaitersTold
  <2>3. CASE root[s] \in reading
    BY <1>2, <2>1, <2>3 DEF VerbWaits
  <2>4. ASSUME NEW a \in asked, a.folder = root[s], ~WaitsFor(a, s) PROVE VerbWaits(s)'
    <3>1. PICK b \in asked' : SameAsk(a, b)
      BY <1>2
    <3>2. WaitsFor(b, s)' => WaitsFor(a, s)
      <4>1. a.last \in Nat /\ a.last <= pressed
        BY AskIs DEF AsksWhole
      <4>2. OwesUpTo(s, a.last)' => OwesUpTo(s, a.last)
        BY <4>1, OwesUpToWas
      <4> QED BY <3>1, <4>2 DEF WaitsFor, SameAsk, OwesUpTo
    <3> QED BY <2>1, <2>4, <3>1, <3>2 DEF VerbWaits, SameAsk
  <2> QED BY <2>2, <2>3, <2>4 DEF VerbWaits
<1> QED BY <1>1, <1>2, WaitingFrame

(* A read waits on while what it waits for does.                           *)
LEMMA ReadWaitsOn ==
    ASSUME TypeOK, NEW q, ReadWaits(q), Folder(q)' = Folder(q),
           \A s \in running : s \in running' /\ root'[s] = root[s],
           \A a \in asked : \E b \in asked' : SameAsk(a, b),
           \A a \in asked : a.question = q /\ BehindAVerb(a) => BehindAVerb(a)'
    PROVE  ReadWaits(q)'
<1>1. CASE IsRunning(Folder(q))
  BY <1>1 DEF IsRunning, ReadWaits
<1>2. ASSUME NEW a \in asked, a.question = q, AskedBefore(a) PROVE ReadWaits(q)'
  <2>1. PICK c \in asked : c.question < a.question /\ c.folder = a.folder
    BY <1>2 DEF AskedBefore
  <2>2. PICK b \in asked' : SameAsk(a, b)
    OBVIOUS
  <2>3. PICK d \in asked' : SameAsk(c, d)
    OBVIOUS
  <2>4. AskedBefore(b)'
    BY <2>1, <2>2, <2>3 DEF AskedBefore, SameAsk
  <2> QED BY <1>2, <2>2, <2>4 DEF ReadWaits, SameAsk
<1>3. ASSUME NEW a \in asked, a.question = q, BehindAVerb(a) PROVE ReadWaits(q)'
  <2>1. PICK b \in asked' : SameAsk(a, b)
    OBVIOUS
  <2>2. BehindAVerb(b)'
    <3>1. BehindAVerb(a)'
      BY <1>3
    <3> QED BY <2>1, <3>1 DEF SameAsk, BehindAVerb, OwesUpTo
  <2> QED BY <1>3, <2>1, <2>2 DEF ReadWaits, SameAsk
<1> QED BY <1>1, <1>2, <1>3 DEF ReadWaits

(* What ends a verb is told: the read worker is nudged, or will be.        *)
LEMMA ParkedByWorkers ==
    ASSUME TypeOK, SharesWhole, VerbsWhole, WorkersWhole, QuestionsWhole, AsksWhole,
           NEW s \in Shares, WorkerGoesOn(s) \/ Stir(s) \/ Panic(s), [Next]_vars,
           NEW q \in parked, ReadWaits(q) \/ nudged \/ Telling(Folder(q))
    PROVE  ReadWaits(q)' \/ nudged' \/ Telling(Folder(q))'
<1>0. /\ worker \in [Shares -> WorkerPlaces] /\ VerbType /\ None = 0
      /\ UNCHANGED <<parked, asked, target, root, shareOf>> /\ Folder(q)' = Folder(q)
  BY WorkerLeaves DEF TypeOK, WorkerType, None, Folder
<1>1. CASE VerbOver(s) \/ Tell(s)
  <2>1. \E a \in asked : a.parked
    BY DEF AsksWhole
  <2> QED BY <1>1, <2>1 DEF VerbOver, Tell, NudgeIfParked
<1>2. CASE nudged /\ ~VerbOver(s) /\ ~Tell(s)
  BY <1>2 DEF WorkerGoesOn, Pop, Sleep, Stir, WaitTurn, TakeTurn, Publish, Ring, Panic, Return
<1>3. CASE Telling(Folder(q)) /\ ~VerbOver(s) /\ ~Tell(s)
  <2> PICK r \in Shares : worker[r] = "telling" /\ root[r] = Folder(q)
    BY <1>3 DEF Telling
  <2>1. worker'[r] = "telling"
    BY <1>0, <1>3 DEF WorkerGoesOn, Pop, Sleep, Stir, WaitTurn, TakeTurn, Publish, Ring, Panic, Return
  <2> QED BY <1>0, <2>1 DEF Telling
<1>4. CASE ReadWaits(q) /\ ~VerbOver(s) /\ ~Tell(s)
  <2>1. \A r \in running : r \in running' /\ root'[r] = root[r]
    BY <1>0, <1>4 DEF WorkerGoesOn, Pop, Sleep, Stir, WaitTurn, TakeTurn, Publish, Ring, Panic, Return
  <2>2. \A a \in asked : \E b \in asked' : SameAsk(a, b)
    BY <1>0 DEF SameAsk
  <2>3. ASSUME \A r \in Shares : (worker'[s] = "telling" /\ r = s) \/ Owed(r)' = Owed(r)
        PROVE  ReadWaits(q)' \/ Telling(Folder(q))'
    <3>1. CASE \E a \in asked : a.question = q /\ a.behind = s /\ worker'[s] = "telling"
      <4> PICK a \in asked : a.question = q /\ a.behind = s /\ worker'[s] = "telling"
        BY <3>1
      <4>1. root[s] = Folder(q)
        BY AskIs DEF AsksWhole, QuestionsWhole
      <4> QED BY <1>0, <4>1 DEF Telling
    <3>2. CASE ~\E a \in asked : a.question = q /\ a.behind = s /\ worker'[s] = "telling"
      <4>1. ASSUME NEW a \in asked, a.question = q, BehindAVerb(a) PROVE BehindAVerb(a)'
        <5>1. a.behind \in Shares
          BY <4>1, AskIs DEF BehindAVerb
        <5>2. Owed(a.behind)' = Owed(a.behind)
          BY <2>3, <3>2, <4>1, <5>1
        <5> QED BY <4>1, <5>2 DEF BehindAVerb, OwesUpTo
      <4> QED BY <1>0, <1>4, <2>1, <2>2, <4>1, ReadWaitsOn
    <3> QED BY <3>1, <3>2
  <2>4. CASE Publish(s)
    <3>1. worker'[s] = "telling" /\ current[s] \in Owed(s)
      BY <1>0, <2>4 DEF Publish, WorkersWhole, Busy
    <3>2. \A v \in Verbs \ {current[s]} : verb'[v] = verb[v]
      BY <1>0, <2>4 DEF Publish, VerbType
    <3>3. \A r \in Shares \ {s} : Owed(r)' = Owed(r)
      BY <1>0, <3>1, <3>2 DEF Owed, VerbsOf
    <3> QED BY <2>3, <3>1, <3>3
  <2>5. CASE Panic(s)
    <3>1. /\ worker' = [worker EXCEPT ![s] = AfterPanic(s)]
          /\ verb' = [v \in Verbs |-> IF v \in Owed(s) THEN EndOf(v) ELSE verb[v]]
      BY <2>5 DEF Panic
    <3>2. \A r \in Shares \ {s} : Owed(r)' = Owed(r)
      BY <1>0, <3>1 DEF Owed, VerbsOf
    <3>3. worker'[s] = "telling" \/ Owed(s)' = Owed(s)
      <4>1. CASE Owed(s) = {}
        <5>1. verb' = verb
          BY <1>0, <3>1, <4>1 DEF VerbType
        <5> QED BY <1>0, <5>1 DEF Owed, VerbsOf
      <4> QED BY <1>0, <3>1, <4>1 DEF AfterPanic
    <3> QED BY <2>3, <3>2, <3>3
  <2>6. CASE ~Publish(s) /\ ~Panic(s)
    <3>1. verb' = verb
      BY <1>4, <2>6 DEF WorkerGoesOn, Pop, Sleep, Stir, WaitTurn, TakeTurn, Ring, Return
    <3>2. \A r \in Shares : Owed(r)' = Owed(r)
      BY <1>0, <3>1 DEF Owed, VerbsOf
    <3> QED BY <2>3, <3>2
  <2> QED BY <2>4, <2>5, <2>6
<1> QED BY <1>1, <1>2, <1>3, <1>4

(* The window owes what was owed, and moves nobody who tells.              *)
LEMMA ParkedByWindow ==
    ASSUME TypeOK, SharesWhole, VerbsWhole, WorkersWhole, QuestionsWhole, AsksWhole, OwedIsServed,
           WindowAsks \/ WindowGoesOn, [Next]_vars,
           NEW q \in parked, ReadWaits(q) \/ nudged \/ Telling(Folder(q))
    PROVE  ReadWaits(q)' \/ nudged' \/ Telling(Folder(q))'
<1>0. /\ worker \in [Shares -> WorkerPlaces] /\ VerbType /\ None = 0 /\ pressed \in Nat
      /\ UNCHANGED <<parked, asked, running, nudged>> /\ Verbs = 1..MaxVerbs
      /\ \A s \in 1..made : root'[s] = root[s]
  BY WindowLeaves, OwedFrame DEF TypeOK, WorkerType, VerbType, Verbs, None
<1>1. Folder(q)' = Folder(q)
  BY MailFrame DEF TypeOK, ReadType
<1>2. CASE Telling(Folder(q))
  <2> PICK r \in Shares : worker[r] = "telling" /\ root[r] = Folder(q)
    BY <1>2 DEF Telling
  <2>1. worker'[r] = "telling"
    <3>1. Told(worker)[r] = "telling"
      BY DEF Told
    <3>2. ASSUME NEW s \in Shares, Press(s) \/ Forget(s) PROVE worker'[r] = "telling"
      BY <1>0, <3>1, <3>2 DEF Press, Forget, Told
    <3> QED BY <3>1, <3>2, WindowLeaves
  <2>2. root'[r] = root[r]
    BY <1>0 DEF OwedIsServed
  <2> QED BY <1>1, <2>1, <2>2 DEF Telling
<1>3. CASE ReadWaits(q)
  <2>1. \A v \in Verbs : verb[v] \in {"owed", "orphan"} =>
            v <= pressed /\ verb'[v] \in {"owed", "orphan"} /\ shareOf'[v] = shareOf[v]
    <3>0. \A v \in Verbs : verb[v] \in {"owed", "orphan"} => v <= pressed
      BY <1>0 DEF VerbsWhole
    <3>1. CASE \E s \in Shares : Press(s)
      <4> PICK s \in Shares : Press(s)
        BY <3>1
      <4>1. /\ verb' = [verb EXCEPT ![pressed + 1] = "owed"]
            /\ shareOf' = [shareOf EXCEPT ![pressed + 1] = s]
        BY DEF Press
      <4> QED BY <1>0, <3>0, <4>1 DEF VerbType
    <3>2. CASE \E s \in Shares : DrainTakes(s)
      BY <1>0, <3>0, <3>2 DEF DrainTakes, Takeable, VerbsOf
    <3>3. CASE ~(\E s \in Shares : Press(s) \/ DrainTakes(s))
      <4>1. verb' = verb /\ shareOf' = shareOf
        BY <3>3 DEF WindowAsks, Mail, PressMakes, WindowGoesOn, PressRefused, DrainBegins,
           DrainSettles, Forget, File
      <4> QED BY <3>0, <4>1
    <3> QED BY <3>1, <3>2, <3>3
  <2>2. ASSUME NEW a \in asked, BehindAVerb(a) PROVE BehindAVerb(a)'
    BY <2>1, <2>2 DEF BehindAVerb, OwesUpTo, Owed, VerbsOf
  <2>3. \A s \in running : s \in running' /\ root'[s] = root[s]
    BY <1>0, RunningOwes
  <2>4. \A a \in asked : \E b \in asked' : SameAsk(a, b)
    BY <1>0 DEF SameAsk
  <2> QED BY <1>1, <1>3, <2>2, <2>3, <2>4, ReadWaitsOn
<1> QED BY <1>0, <1>2, <1>3

LEMMA ParkedStep ==
    ASSUME TypeOK, SharesWhole, VerbsWhole, WorkersWhole, QuestionsWhole, AsksWhole, OwedIsServed,
           ParkedTold, [Next]_vars
    PROVE  ParkedTold'
<1> SUFFICES ASSUME NEW q \in parked',
                    reader' = "waiting" \/ (reader' = "looking" /\ q <= at')
             PROVE  ReadWaits(q)' \/ nudged' \/ Telling(Folder(q))'
  BY DEF ParkedTold
<1>1. CASE WindowAsks \/ WindowGoesOn
  <2>1. q \in parked /\ (reader = "waiting" \/ (reader = "looking" /\ q <= at))
    BY <1>1, WindowLeaves
  <2> QED BY <1>1, <2>1, ParkedByWindow DEF ParkedTold
<1>2. ASSUME NEW s \in Shares, WorkerGoesOn(s) \/ Stir(s) \/ Panic(s)
      PROVE  ReadWaits(q)' \/ nudged' \/ Telling(Folder(q))'
  <2>1. q \in parked /\ (reader = "waiting" \/ (reader = "looking" /\ q <= at))
    BY <1>2, WorkerLeaves
  <2> QED BY <1>2, <2>1, ParkedByWorkers DEF ParkedTold
<1>3. CASE WaitForMail
  <2>1. /\ reader = "looking" /\ q \in parked /\ at \in Questions \cup {None} /\ ~(at < q)
        /\ q \in Questions
    BY <1>3 DEF WaitForMail, Unlooked, TypeOK, ReadType, Questions
  <2>2. q <= at
    BY <2>1 DEF Questions, None
  <2>3. ReadWaits(q) \/ nudged \/ Telling(Folder(q))
    BY <2>1, <2>2 DEF ParkedTold
  <2> QED BY <1>3, <2>3 DEF WaitForMail, ReadWaits, IsRunning, AskedBefore, BehindAVerb, OwesUpTo,
          Owed, VerbsOf, Folder, Telling
<1>4. CASE LookAtParked
  <2>1. reader = "looking" /\ UNCHANGED <<root, running, shareOf, verb, nudged, target>>
    BY <1>4 DEF LookAtParked
  <2>2. reader' = "looking"
    BY <1>4 DEF LookAtParked, ParkRead, BeginRead
  <2> PICK p \in Questions : First(p, Unlooked) /\ ParkRead(p) /\ at' = p /\ UNCHANGED parked
    BY <1>4, <2>2 DEF LookAtParked, BeginRead
  <2>3. q \in parked /\ q <= p /\ q \in Nat /\ p \in Nat /\ at \in Nat
    BY <2>2 DEF TypeOK, ReadType, Questions, None
  <2>4. ReadWaits(q) \/ nudged \/ Telling(Folder(q))
    <3>1. CASE q = p
      BY <3>1 DEF ParkRead
    <3>2. CASE q # p
      <4>1. q \notin Unlooked
        BY <2>3, <3>2 DEF First
      <4>2. q <= at
        BY <2>3, <4>1 DEF Unlooked
      <4> QED BY <2>1, <2>3, <4>2 DEF ParkedTold
    <3> QED BY <3>1, <3>2
  <2>5. worker' = worker /\ Folder(q)' = Folder(q)
    BY <2>1 DEF ParkRead, Folder
  <2>6. ReadWaits(q) => ReadWaits(q)'
    <3>1. \A a \in asked : \E b \in asked' : SameAsk(a, b)
      BY ParkMarks
    <3>2. \A a \in asked : a.question = q /\ BehindAVerb(a) => BehindAVerb(a)'
      BY <2>1 DEF BehindAVerb, OwesUpTo, Owed, VerbsOf
    <3>3. \A s \in running : s \in running' /\ root'[s] = root[s]
      BY <2>1
    <3> QED BY <2>5, <3>1, <3>2, <3>3, ReadWaitsOn
  <2> QED BY <2>1, <2>4, <2>5, <2>6 DEF Telling
<1>5. CASE Posted \/ BeginOrPark
  <2>1. at' = None \/ reader' = "reading"
    BY <1>5 DEF Posted, BeginOrPark, BeginRead
  <2>2. reader' # "waiting"
    BY <1>5 DEF Posted, BeginOrPark, BeginRead, ParkRead
  <2>3. q \in Nat /\ q > 0
    BY ReadTypeStep DEF ReadType
  <2> QED BY <2>1, <2>2, <2>3 DEF None
<1>6. CASE Post \/ TakeQuestion \/ Receive \/ AskTurn \/ Answer \/ ReadOver \/ ReaderPanics
  BY <1>6 DEF Post, TakeQuestion, Receive, AskTurn, Answer, ReadOver, ReaderPanics
<1>7. CASE UNCHANGED vars
  BY <1>7 DEF vars, ParkedTold, ReadWaits, IsRunning, AskedBefore, BehindAVerb, OwesUpTo,
     Owed, VerbsOf, Folder, Telling
<1> QED BY <1>1, <1>2, <1>3, <1>4, <1>5, <1>6, <1>7, NextByThread DEF ReaderGoesOn

WakeInv ==
    /\ IInv
    /\ AsksWhole /\ MailInOrder /\ ReadingWhole /\ OwedIsServed /\ AsksInOrder
    /\ WaitersTold /\ ParkedTold

LEMMA WakeInvariance == Spec => []WakeInv
<1>1. Init => WakeInv
  <2> SUFFICES ASSUME Init PROVE WakeInv
    OBVIOUS
  <2> USE DEF Init
  <2>1. AsksWhole /\ AsksInOrder /\ ReadingWhole /\ WaitersTold /\ ParkedTold
    BY DEF AsksWhole, AsksInOrder, ReadingWhole, WaitersTold, ParkedTold
  <2>2. MailInOrder
    BY DEF MailInOrder, InHand
  <2>3. OwedIsServed
    BY DEF OwedIsServed, Owed, VerbsOf
  <2> QED BY <2>1, <2>2, <2>3, InitIInv DEF WakeInv
<1>2. WakeInv /\ [Next]_vars => WakeInv'
  <2> SUFFICES ASSUME WakeInv, [Next]_vars PROVE WakeInv'
    OBVIOUS
  <2>1. /\ IInv /\ TypeOK /\ SharesWhole /\ VerbsWhole /\ WorkersWhole /\ QuestionsWhole
        /\ AskedWillRun /\ AsksWhole /\ MailInOrder /\ ReadingWhole /\ OwedIsServed
        /\ AsksInOrder /\ WaitersTold /\ ParkedTold
    BY DEF WakeInv, IInv
  <2>2. AsksWhole'
    BY <2>1, AsksBehindStep, MarksStep DEF AsksWhole
  <2>3. MailInOrder' /\ ReadingWhole' /\ OwedIsServed'
    BY <2>1, MailOrderStep, ReadingStep, ServedStep
  <2>4. AsksInOrder' /\ WaitersTold' /\ ParkedTold'
    BY <2>1, AsksInOrderStep, WaitersStep, ParkedStep
  <2> QED BY <2>1, <2>2, <2>3, <2>4, IInvStep DEF WakeInv
<1> QED BY <1>1, <1>2, PTL DEF Spec

(* A turn that comes is not missed: no worker waits whose turn has come,   *)
(* and the read worker does not wait for mail with a read whose turn has   *)
(* come unless it is being told so (verb_turn, next_turn, changed).        *)
THEOREM TurnsAreNotMissed == Spec => []NoTurnIsMissed
<1>1. WakeInv => NoTurnIsMissed
  BY DEF WakeInv, WaitersTold, ParkedTold, NoTurnIsMissed, Telling
<1> QED BY <1>1, WakeInvariance, PTL

(* The earliest of the reads asked of a repository.                        *)
LEMMA EarliestAsk ==
    ASSUME TypeOK, NEW a \in asked
    PROVE  \E b \in asked : b.folder = a.folder /\ b.question <= a.question /\ ~AskedBefore(b)
<1> DEFINE Mates == {b.question : b \in {c \in asked : c.folder = a.folder}}
<1>1. Mates \subseteq Nat /\ a.question \in Mates
  BY AskIs
<1>2. PICK least \in Mates : \A q \in Mates : <<q, least>> \notin OpToRel(<, Nat)
  <2>1. Mates \subseteq Nat /\ Mates # {}
    BY <1>1
  <2> HIDE DEF Mates
  <2> QED BY <2>1, WFMin, NatLessThanWellFounded, Zenon
<1>3. \A q \in Mates : ~(q < least)
  <2> SUFFICES ASSUME NEW q \in Mates PROVE ~(q < least)
    OBVIOUS
  <2>1. <<q, least>> \notin OpToRel(<, Nat) /\ q \in Nat /\ least \in Nat
    BY <1>1, <1>2
  <2> QED BY <2>1 DEF OpToRel
<1>4. PICK b \in asked : b.folder = a.folder /\ b.question = least
  OBVIOUS
<1>5. b.question <= a.question
  BY <1>1, <1>3, <1>4
<1>6. ~AskedBefore(b)
  <2> SUFFICES ASSUME NEW c \in asked, c.question < b.question, c.folder = b.folder PROVE FALSE
    BY DEF AskedBefore
  <2>1. c.question \in Mates
    BY <1>4
  <2> QED BY <1>3, <1>4, <2>1
<1> QED BY <1>4, <1>5, <1>6

(* With the read worker at rest, the earliest read asked of a repository   *)
(* waits for verbs alone, and the worker of its share does not wait, for   *)
(* every read it might wait for waits for its verb.                        *)
LEMMA EarliestWaitsForVerbs ==
    ASSUME WakeInv, ReaderRests, NEW b \in asked, ~AskedBefore(b)
    PROVE  \E s \in Shares : root[s] = b.folder /\ ~WorkerRests(s)
<1>0. /\ TypeOK /\ SharesWhole /\ VerbsWhole /\ WorkersWhole /\ QuestionsWhole
      /\ AskedWillRun /\ AsksWhole /\ ReadingWhole /\ OwedIsServed /\ AsksInOrder
      /\ WaitersTold /\ ParkedTold /\ worker \in [Shares -> WorkerPlaces]
  BY DEF WakeInv, IInv, TypeOK, WorkerType
<1>1. reader = "waiting" /\ ~nudged /\ b.question \in parked
  BY <1>0 DEF ReaderRests, AskedWillRun, WakeInv, MailInOrder
<1>2. b.folder = Folder(b.question) /\ b.question \in Nat
  BY <1>0, AskIs DEF QuestionsWhole
<1>3. CASE Telling(b.folder)
  BY <1>3 DEF Telling, WorkerRests
<1>4. CASE IsRunning(b.folder)
  <2> PICK s \in running : root[s] = b.folder
    BY <1>4 DEF IsRunning
  <2>1. s \in Shares /\ worker[s] = "running"
    BY <1>0, RunningOwes DEF WorkersWhole
  <2> QED BY <2>1 DEF WorkerRests
<1>5. ASSUME NEW a \in asked, a.question = b.question, AskedBefore(a) \/ BehindAVerb(a)
      PROVE  \E s \in Shares : root[s] = b.folder /\ ~WorkerRests(s)
  <2> DEFINE s == a.behind
  <2>1. a.folder = b.folder
    BY <1>0, <1>2, <1>5 DEF QuestionsWhole
  <2>2. BehindAVerb(a) /\ ~AskedBefore(a)
    BY <1>5, <2>1 DEF AskedBefore
  <2>3. s # None /\ s \in Shares /\ root[s] = b.folder
    BY <1>0, <2>1, <2>2, AskIs DEF AsksWhole, BehindAVerb
  <2>4. PICK v \in Owed(s) : v <= a.last
    BY <2>2 DEF BehindAVerb, OwesUpTo
  <2>5. worker[s] \notin {"unstarted", "asleep", "ended"}
    BY <1>0, <2>3, <2>4 DEF OwedIsServed
  <2>6. ~VerbWaits(s)
    <3>1. root[s] \notin reading
      BY <1>0, <1>1 DEF ReadingWhole
    <3>2. ASSUME NEW c \in asked, c.folder = root[s] PROVE WaitsFor(c, s)
      <4>1. c.question \in Nat /\ a.question \in Nat /\ c.last \in Nat /\ a.last \in Nat
        BY <1>0, AskIs
      <4>2. a.question <= c.question
        BY <2>1, <2>2, <2>3, <3>2, <4>1 DEF AskedBefore
      <4>3. c.behind = s /\ a.last <= c.last
        BY <1>0, <2>1, <2>2, <2>3, <3>2, <4>2 DEF AsksInOrder
      <4>4. v \in Nat
        BY <2>4 DEF Owed, VerbsOf, Verbs
      <4> QED BY <2>4, <4>1, <4>3, <4>4 DEF WaitsFor, OwesUpTo
    <3> QED BY <3>1, <3>2 DEF VerbWaits
  <2>7. worker[s] \in {"looking", "ringing"} => InLine(s) # {}
    <3>1. worker[s] \in {"looking", "ringing"} => current[s] = None
      BY <1>0, <2>3 DEF WorkersWhole, Busy
    <3>2. v # None
      BY <2>4 DEF Owed, VerbsOf, Verbs, None
    <3> QED BY <2>4, <3>1, <3>2 DEF InLine
  <2>8. worker[s] # "waiting"
    BY <1>0, <2>3, <2>6 DEF WaitersTold
  <2>9. ~WorkerRests(s)
    BY <2>5, <2>6, <2>7, <2>8 DEF WorkerRests
  <2> QED BY <2>3, <2>9
<1> QED BY <1>0, <1>1, <1>2, <1>3, <1>4, <1>5 DEF ParkedTold, ReadWaits

(* Reads and verbs of one repository never wait for each other, whatever   *)
(* its shares and whenever its reads were asked (Asked, verb_waits,        *)
(* read_waits): the earliest read asked waits only for verbs owed when it  *)
(* was, and the worker that owes them waits for no read behind them.       *)
THEOREM NobodyWaitsInACircle == Spec => []NoCircularWait
<1>1. ASSUME WakeInv PROVE NoCircularWait
  <2>0. TypeOK /\ SharesWhole /\ QuestionsWhole /\ AskedWillRun /\ ReadingWhole
    BY <1>1 DEF WakeInv, IInv
  <2> SUFFICES ASSUME NEW f \in Folders, ReaderRests, \A s \in Shares : root[s] = f => WorkerRests(s)
               PROVE  /\ \A s \in Shares : root[s] = f =>
                            worker[s] # "waiting" /\ ~(worker[s] = "turning" /\ VerbWaits(s))
                      /\ \A q \in parked : Folder(q) # f
    BY DEF NoCircularWait
  <2>1. \A a \in asked : a.folder # f
    <3> SUFFICES ASSUME NEW a \in asked, a.folder = f PROVE FALSE
      OBVIOUS
    <3> PICK b \in asked : b.folder = a.folder /\ ~AskedBefore(b)
      BY <2>0, EarliestAsk
    <3> QED BY <1>1, EarliestWaitsForVerbs
  <2>2. \A q \in parked : Folder(q) # f
    BY <2>0, <2>1 DEF QuestionsWhole
  <2>3. \A s \in Shares : root[s] = f => ~VerbWaits(s)
    BY <2>0, <2>1 DEF ReadingWhole, ReaderRests, VerbWaits
  <2> QED BY <1>1, <2>2, <2>3 DEF WakeInv, WaitersTold
<1> QED BY <1>1, WakeInvariance, PTL
=============================================================================
