-------------------------- MODULE LaneLedgerProofs --------------------------
(***************************************************************************)
(* What the completion ledger keeps true for every number of identities,   *)
(* every bound, every set of words and every set of requesting threads:    *)
(* the invariance of its type, BookWhole, JoinsEndWithTheirTwin and        *)
(* SunkOnce of LaneLedger, and that it implements the seam's promise.      *)
(* Then the same of the lanes that queue over the ledger, for every policy *)
(* of theirs: the invariance of TypeOK, OwedIsReachable and AnswersInOrder *)
(* of LaneQueue, the promise, and that no answer is missed.  The two       *)
(* machines share the book's lemmas (LaneBookProofs) and no variable.      *)
(***************************************************************************)
EXTENDS LaneLedger, LaneQueue, LaneBookProofs

(* The inductive invariant.                                                *)
LedgerInv == LedgerTypeOK /\ BookInv(ledger) /\ SunkOnce

(* The identities that c has sunk and b has not are those of new.          *)
SinksNew(b, c, new) ==
    /\ \A i \in new : i \in Ids /\ b.place[i] # "sunk"
    /\ \A i \in Ids : c.place[i] = "sunk" <=> b.place[i] = "sunk" \/ i \in new

-----------------------------------------------------------------------------
(* A publication, the worker's end and a drop sink what they hand out.     *)
LEMMA EndedSinks ==
    ASSUME NEW b, BookInv(b), NEW ends \in SUBSET Owed(b), NEW terminals,
           DOMAIN terminals = ends
    PROVE  SinksNew(b, Ended(b, terminals), SunkBy(b, ends))
<1>1. b \in Books
  BY DEF BookInv
<1>2. \A i \in Ids : Ended(b, terminals).place[i] =
          IF i \notin ends THEN b.place[i] ELSE IF b.gone[i] THEN "sunk" ELSE "kept"
  BY <1>1 DEF Ended, Books
<1>3. \A i \in ends : i \in Ids /\ b.place[i] = "owed"
  BY DEF Owed
<1> QED BY <1>2, <1>3 DEF SinksNew, SunkBy

LEMMA PublishedSinks ==
    ASSUME NEW b, BookInv(b), NEW id, PublishAccepted(b, id), NEW t \in Publishable
    PROVE  SinksNew(b, Published(b, id, t), SunkBy(b, EndsWith(b, id)))
<1> DEFINE terminals == [i \in EndsWith(b, id) |-> IF i = id THEN t ELSE Joined(id, t)]
<1>1. EndsWith(b, id) \subseteq Owed(b) /\ b \in Books
  BY PublishedInv DEF BookInv
<1>2. SinksNew(b, Ended(b, terminals), SunkBy(b, EndsWith(b, id)))
  BY <1>1, EndedSinks
<1>3. Published(b, id, t).place = Ended(b, terminals).place
  BY <1>1 DEF Published, Ended, Books
<1> QED BY <1>2, <1>3 DEF SinksNew

LEMMA WorkerEndedSinks ==
    ASSUME NEW b, BookInv(b), NEW cause \in Causes
    PROVE  SinksNew(b, WorkerEnded(b, cause), SunkBy(b, EndedByWorker(b)))
<1> DEFINE terminals == [i \in EndedByWorker(b) |-> GoneTerminal(b, i)]
<1>1. EndedByWorker(b) \subseteq Owed(b) /\ b \in Books
  BY WorkerEndedInv DEF BookInv
<1>2. SinksNew(b, Ended(b, terminals), SunkBy(b, EndedByWorker(b)))
  BY <1>1, EndedSinks
<1>3. WorkerEnded(b, cause).place = Ended(b, terminals).place
  BY <1>1 DEF WorkerEnded, Ended, Books
<1> QED BY <1>2, <1>3 DEF SinksNew

(* The lines an operation leaves are of identities.                        *)
LEMMA LinesAreOfIds ==
    ASSUME NEW b, NEW ids \in SUBSET Ids, NEW t, NEW first \in SUBSET Ids
    PROVE  LinesOf(b, ids, t, first) \in SUBSET Ids
BY DEF LinesOf

-----------------------------------------------------------------------------
(* A thread that holds nothing and leaves the lock with the newly sunk:    *)
(* each is now with it, and with nobody else.                              *)
LEMMA HandedOut ==
    ASSUME LedgerInv, NEW th \in Threads, Free(th),
           NEW lines \in SUBSET Ids, NEW new \in SUBSET Ids, NEW wake \in BOOLEAN,
           Leaves(th, lines, new, wake),
           SinksNew(ledger, ledger', new), BookInv(ledger'),
           UNCHANGED <<sank, said, woken>>,
           life' \in {"unstarted", "running", "ended"}
    PROVE  LedgerInv'
<1>1. /\ out \in [Threads -> Outs] /\ out[th] = Nothing
      /\ out' = [out EXCEPT ![th] = [lines |-> lines, sunk |-> new, wake |-> wake]]
  BY DEF LedgerInv, LedgerTypeOK, Free, Leaves
<1>2. LedgerTypeOK'
  <2>1. out' \in [Threads -> Outs]
    BY <1>1 DEF Outs
  <2> QED BY <2>1 DEF LedgerInv, LedgerTypeOK, BookInv
<1>3. \A i \in new : i \notin sank /\ \A other \in Threads : i \notin out[other].sunk
  BY DEF LedgerInv, SunkOnce, SinksNew
<1>4. /\ \A other \in Threads \ {th} : out'[other].sunk = out[other].sunk
      /\ out'[th].sunk = new /\ out[th].sunk = {}
  BY <1>1 DEF Nothing
<1>5. SunkOnce'
  <2> SUFFICES ASSUME NEW i \in Ids
      PROVE /\ i \in sank' => \A t \in Threads : i \notin out'[t].sunk
            /\ \A t, other \in Threads :
                  i \in out'[t].sunk /\ i \in out'[other].sunk => t = other
            /\ ledger'.place[i] = "sunk" <=> i \in sank' \/ \E t \in Threads : i \in out'[t].sunk
    BY DEF SunkOnce
  <2>1. i \in sank' => \A t \in Threads : i \notin out'[t].sunk
    BY <1>3, <1>4 DEF LedgerInv, SunkOnce
  <2>2. \A t, other \in Threads :
           i \in out'[t].sunk /\ i \in out'[other].sunk => t = other
    BY <1>3, <1>4 DEF LedgerInv, SunkOnce
  <2>3. ledger'.place[i] = "sunk" <=> i \in sank' \/ \E t \in Threads : i \in out'[t].sunk
    BY <1>3, <1>4 DEF LedgerInv, SunkOnce, SinksNew
  <2> QED BY <2>1, <2>2, <2>3
<1> QED BY <1>2, <1>5 DEF LedgerInv

(* A step that sinks nothing and leaves nothing to release.                *)
LEMMA NothingOut ==
    ASSUME LedgerInv, BookInv(ledger'), SinksNew(ledger, ledger', {}),
           UNCHANGED <<out, sank, said, woken>>,
           life' \in {"unstarted", "running", "ended"}
    PROVE  LedgerInv'
<1>1. LedgerTypeOK'
  BY DEF LedgerInv, LedgerTypeOK, BookInv
<1>2. SunkOnce'
  BY DEF LedgerInv, SunkOnce, SinksNew
<1> QED BY <1>1, <1>2 DEF LedgerInv

-----------------------------------------------------------------------------
LEMMA InitInv == LedgerInit => LedgerInv
<1> SUFFICES ASSUME LedgerInit PROVE LedgerInv
  OBVIOUS
<1>1. BookInv(ledger)
  BY EmptyBookInv DEF LedgerInit
<1>2. LedgerTypeOK
  BY <1>1 DEF LedgerInit, LedgerTypeOK, BookInv, Outs, Nothing
<1>3. SunkOnce
  BY DEF LedgerInit, SunkOnce, Nothing, EmptyBook
<1> QED BY <1>1, <1>2, <1>3 DEF LedgerInv

-----------------------------------------------------------------------------
(* Each action keeps the invariant.                                        *)
LEMMA PublishInv ==
    ASSUME LedgerInv, NEW th \in Threads, NEW id, NEW t \in Publishable, Publishes(th, id, t)
    PROVE  LedgerInv'
<1> DEFINE new == SunkBy(ledger, EndsWith(ledger, id))
<1>1. BookInv(ledger) /\ Free(th) /\ PublishAccepted(ledger, id)
      /\ ledger' = Published(ledger, id, t)
      /\ Leaves(th, PublishLines(ledger, id, t), new, FALSE)
  BY DEF Publishes, LedgerInv
<1>2. BookInv(ledger') /\ EndsWith(ledger, id) \subseteq Owed(ledger)
  BY <1>1, PublishedInv
<1>3. SinksNew(ledger, ledger', new)
  BY <1>1, PublishedSinks
<1>4. id \in Ids /\ new \in SUBSET Ids
  BY <1>1, <1>2 DEF PublishAccepted, Owed, SunkBy
<1>5. PublishLines(ledger, id, t) \in SUBSET Ids
  <2>1. (IF new \ {id} = {} THEN {id} ELSE First(new \ {id})) \in SUBSET Ids
    BY <1>4 DEF First
  <2> QED BY <1>4, <2>1, LinesAreOfIds DEF PublishLines
<1>6. UNCHANGED <<life, sank, said, woken>>
  BY DEF Publishes
<1> HIDE DEF new
<1> QED BY <1>1, <1>2, <1>3, <1>4, <1>5, <1>6, HandedOut DEF LedgerInv, LedgerTypeOK

(* What the worker reports, on its thread or, for a start refused, on the  *)
(* asker's.                                                                *)
LEMMA WorkerEndInv ==
    ASSUME LedgerInv, NEW th \in Threads, NEW cause \in Causes, Free(th),
           ledger' = WorkerEnded(ledger, cause), life' = "ended",
           Leaves(th, {}, SunkBy(ledger, EndedByWorker(ledger)), Owed(ledger) # {}),
           UNCHANGED <<said, sank, woken>>
    PROVE  LedgerInv'
<1> DEFINE new == SunkBy(ledger, EndedByWorker(ledger))
           wake == Owed(ledger) # {}
<1>1. BookInv(ledger') /\ EndedByWorker(ledger) = Owed(ledger)
  BY WorkerEndedInv DEF LedgerInv
<1>2. SinksNew(ledger, ledger', new)
  BY WorkerEndedSinks DEF LedgerInv
<1>3. new \in SUBSET Ids /\ {} \in SUBSET Ids /\ wake \in BOOLEAN
  BY <1>1 DEF SunkBy, Owed
<1>4. Leaves(th, {}, new, wake)
  OBVIOUS
<1> HIDE DEF new, wake
<1> QED BY <1>1, <1>2, <1>3, <1>4, HandedOut

LEMMA TakeInv ==
    ASSUME LedgerInv, NEW th \in Threads, NEW id \in Ids, Take(th, id)
    PROVE  LedgerInv'
<1>1. /\ BookInv(ledger) /\ ledger \in Books /\ Free(th) /\ id \in Kept(ledger)
      /\ ledger' = Taken(ledger, id)
      /\ Leaves(th, DeliveryLines(ledger, id), {}, FALSE)
  BY DEF Take, LedgerInv, BookInv
<1>2. BookInv(ledger')
  BY <1>1, TakenInv
<1>3. SinksNew(ledger, ledger', {})
  BY <1>1 DEF SinksNew, Taken, Books, Kept
<1>4. DeliveryLines(ledger, id) \in SUBSET Ids
  BY LinesAreOfIds DEF DeliveryLines
<1>5. UNCHANGED <<life, sank, said, woken>>
  BY DEF Take
<1> QED BY <1>1, <1>2, <1>3, <1>4, <1>5, HandedOut DEF LedgerInv, LedgerTypeOK

LEMMA LetGoInv ==
    ASSUME LedgerInv, NEW th \in Threads, NEW id \in Ids, RequesterGone(th, id)
    PROVE  LedgerInv'
<1>1. /\ BookInv(ledger) /\ ledger \in Books /\ Free(th) /\ id \in Entries(ledger)
      /\ ledger' = Dropped(ledger, id)
      /\ UNCHANGED <<life, sank, said, woken>>
  BY DEF RequesterGone, LedgerInv, BookInv
<1>2. BookInv(ledger')
  BY <1>1, DroppedInv
<1>3. life' \in {"unstarted", "running", "ended"}
  BY <1>1 DEF LedgerInv, LedgerTypeOK
<1>4. CASE id \in Kept(ledger)
  <2>1. SinksNew(ledger, ledger', {id})
    BY <1>1, <1>4 DEF SinksNew, Dropped, Books, Kept
  <2>2. DeliveryLines(ledger, id) \in SUBSET Ids
    BY LinesAreOfIds DEF DeliveryLines
  <2>3. Leaves(th, DeliveryLines(ledger, id), {id}, FALSE)
    BY <1>4 DEF RequesterGone
  <2> QED BY <1>1, <1>2, <1>3, <2>1, <2>2, <2>3, HandedOut
<1>5. CASE id \notin Kept(ledger)
  <2>1. SinksNew(ledger, ledger', {})
    BY <1>1, <1>5 DEF SinksNew, Dropped, Books
  <2>2. UNCHANGED out
    BY <1>5 DEF RequesterGone
  <2> QED BY <1>1, <1>2, <1>3, <2>1, <2>2, NothingOut
<1> QED BY <1>4, <1>5

LEMMA AdmitInv ==
    ASSUME LedgerInv, NEW th \in Threads, NEW with \in Ids \cup {NoId}, Admit(th, with)
    PROVE  LedgerInv'
<1>1. /\ BookInv(ledger) /\ ledger \in Books /\ ledger.minted < MaxMinted
      /\ Refusal(ledger, with) = "none"
      /\ ledger' = Admitted(ledger, with)
      /\ UNCHANGED <<out, life, sank, said, woken>>
  BY DEF Admit, LedgerInv, BookInv
<1>2. BookInv(ledger')
  BY <1>1, AdmittedInv
<1>3. SinksNew(ledger, ledger', {})
  <2>1. NextId(ledger) \in Ids /\ ledger.place[NextId(ledger)] = "unminted"
    BY <1>1, IdsAreNatural DEF NextId, Books, Ids, BookInv, MintedInOrder
  <2> QED BY <1>1, <2>1 DEF SinksNew, Admitted, Books
<1> QED BY <1>1, <1>2, <1>3, NothingOut DEF LedgerInv, LedgerTypeOK

(* Saying, sinking and waking, one at a time.                              *)
LEMMA ReleaseInv ==
    ASSUME LedgerInv, NEW th \in Threads, Release(th)
    PROVE  LedgerInv'
<1>1. CASE Say(th)
  <2> PICK id \in out[th].lines :
        /\ said' = [said EXCEPT ![id] = @ + 1]
        /\ out' = [out EXCEPT ![th].lines = @ \ {id}]
        /\ UNCHANGED <<ledger, life, sank, woken>>
    BY <1>1 DEF Say
  <2>1. out \in [Threads -> Outs] /\ said \in [Ids -> Nat] /\ id \in Ids
    BY DEF LedgerInv, LedgerTypeOK, Outs
  <2>2. out' \in [Threads -> Outs] /\ \A o \in Threads : out'[o].sunk = out[o].sunk
    BY <2>1 DEF Outs
  <2>3. said' \in [Ids -> Nat]
    BY <2>1
  <2> QED BY <2>2, <2>3 DEF LedgerInv, LedgerTypeOK, BookInv, SunkOnce
<1>2. CASE Sink(th)
  <2> PICK id \in out[th].sunk :
        /\ sank' = sank \cup {id}
        /\ out' = [out EXCEPT ![th].sunk = @ \ {id}]
        /\ UNCHANGED <<ledger, life, said, woken>>
    BY <1>2 DEF Sink
  <2>1. out \in [Threads -> Outs] /\ id \in Ids
    BY DEF LedgerInv, LedgerTypeOK, Outs
  <2>2. /\ out' \in [Threads -> Outs]
        /\ out'[th].sunk = out[th].sunk \ {id}
        /\ \A o \in Threads \ {th} : out'[o].sunk = out[o].sunk
    BY <2>1 DEF Outs
  <2>3. LedgerTypeOK' /\ BookInv(ledger')
    BY <2>1, <2>2 DEF LedgerInv, LedgerTypeOK
  <2>4. \A o \in Threads : id \in out[o].sunk => o = th
    BY <2>1 DEF LedgerInv, SunkOnce
  <2>5. SunkOnce'
    <3> SUFFICES ASSUME NEW i \in Ids
        PROVE /\ i \in sank' => \A t \in Threads : i \notin out'[t].sunk
              /\ \A t, other \in Threads :
                    i \in out'[t].sunk /\ i \in out'[other].sunk => t = other
              /\ ledger'.place[i] = "sunk" <=> i \in sank' \/ \E t \in Threads : i \in out'[t].sunk
      BY DEF SunkOnce
    <3>1. CASE i = id
      BY <2>1, <2>2, <2>4, <3>1 DEF LedgerInv, SunkOnce
    <3>2. CASE i # id
      <4>1. \A t \in Threads : i \in out'[t].sunk <=> i \in out[t].sunk
        BY <2>2, <3>2
      <4> QED BY <3>2, <4>1 DEF LedgerInv, SunkOnce
    <3> QED BY <3>1, <3>2
  <2> QED BY <2>3, <2>5 DEF LedgerInv
<1>3. CASE WakeConsumer(th)
  <2>1. out \in [Threads -> Outs]
    BY DEF LedgerInv, LedgerTypeOK
  <2>2. out' \in [Threads -> Outs] /\ \A o \in Threads : out'[o].sunk = out[o].sunk
    BY <1>3, <2>1 DEF WakeConsumer, Outs
  <2> QED BY <1>3, <2>2 DEF WakeConsumer, LedgerInv, LedgerTypeOK, BookInv, SunkOnce
<1> QED BY <1>1, <1>2, <1>3 DEF Release

-----------------------------------------------------------------------------
(* What a requester or the worker does with the ledger.                    *)
LEMMA AsksInv ==
    ASSUME LedgerInv, NEW th \in Requesters, Asks(th)
    PROVE  LedgerInv'
<1>1. th \in Threads
  BY DEF Threads
<1>2. CASE StartWorker(th)
  <2>1. SinksNew(ledger, ledger', {}) /\ BookInv(ledger')
    BY <1>2 DEF StartWorker, SinksNew, LedgerInv
  <2> QED BY <1>2, <2>1, NothingOut DEF StartWorker
<1>3. CASE StartFaults(th)
  BY <1>1, <1>3, WorkerEndInv DEF StartFaults, Causes
<1>4. ASSUME NEW w \in Words, StartRefused(th, w) PROVE LedgerInv'
  <2>1. BookInv(ledger')
    BY <1>4, NotStartedInv DEF StartRefused, LedgerInv
  <2>2. SinksNew(ledger, ledger', {})
    BY <1>4 DEF StartRefused, NotStartedStreak, SinksNew, LedgerInv, BookInv, Books
  <2> QED BY <1>4, <2>1, <2>2, NothingOut DEF StartRefused, LedgerInv, LedgerTypeOK
<1>5. ASSUME NEW with \in Ids \cup {NoId}, Admit(th, with) PROVE LedgerInv'
  BY <1>1, <1>5, AdmitInv
<1>6. ASSUME NEW id \in Ids, RequesterPublishes(th, id) PROVE LedgerInv'
  <2>1. ledger.minted \in 0..MaxMinted /\ id \in Nat
    BY IdsAreNatural DEF LedgerInv, LedgerTypeOK, Books
  <2>2. \A by \in (id + 1)..ledger.minted : by \in Ids
    BY <2>1, IdsAreNatural DEF Ids
  <2>3. PICK t \in {Cancelled} \cup {Superseded(by) : by \in (id + 1)..ledger.minted} :
           Publishes(th, id, t)
    BY <1>6 DEF RequesterPublishes
  <2>4. t \in Publishable
    BY <2>2, <2>3, PlainTerminals
  <2> QED BY <1>1, <2>3, <2>4, PublishInv
<1>7. ASSUME NEW id \in Ids, Take(th, id) PROVE LedgerInv'
  BY <1>1, <1>7, TakeInv
<1>8. ASSUME NEW id \in Ids, RequesterGone(th, id) PROVE LedgerInv'
  BY <1>1, <1>8, LetGoInv
<1> QED BY <1>2, <1>3, <1>4, <1>5, <1>6, <1>7, <1>8 DEF Asks

LEMMA WorksInv ==
    ASSUME LedgerInv, Works
    PROVE  LedgerInv'
<1>1. Worker \in Threads
  BY DEF Threads
<1>2. ASSUME NEW id \in Ids, WorkerPublishes(id) PROVE LedgerInv'
  <2>1. PICK t \in {Done} \cup {Failed(w) : w \in Words} : Publishes(Worker, id, t)
    BY <1>2 DEF WorkerPublishes
  <2>2. t \in Publishable
    BY <2>1, PlainTerminals
  <2> QED BY <1>1, <2>1, <2>2, PublishInv
<1>3. ASSUME NEW cause \in {"Returned", "Panicked"}, WorkerEnds(cause) PROVE LedgerInv'
  BY <1>1, <1>3, WorkerEndInv DEF WorkerEnds, Causes
<1> QED BY <1>2, <1>3 DEF Works

LEMMA NextInv == LedgerInv /\ [LedgerNext]_ledgerVars => LedgerInv'
<1> SUFFICES ASSUME LedgerInv, [LedgerNext]_ledgerVars PROVE LedgerInv'
  OBVIOUS
<1>1. ASSUME NEW th \in Requesters, Asks(th) PROVE LedgerInv'
  BY <1>1, AsksInv
<1>2. CASE Works
  BY <1>2, WorksInv
<1>3. ASSUME NEW th \in Threads, Release(th) PROVE LedgerInv'
  BY <1>3, ReleaseInv
<1>4. CASE UNCHANGED ledgerVars
  BY <1>4 DEF ledgerVars, LedgerInv, LedgerTypeOK, SunkOnce, BookInv
<1> QED BY <1>1, <1>2, <1>3, <1>4 DEF LedgerNext

LEMMA Invariance == LedgerSpec => []LedgerInv
BY InitInv, NextInv, PTL DEF LedgerSpec

(* Every state of the ledger is of its type: no identity past the bound,   *)
(* no terminal that is not one, no line or sink for what was never minted. *)
THEOREM TypeIsKept == LedgerSpec => []LedgerTypeOK
<1>1. LedgerInv => LedgerTypeOK
  BY DEF LedgerInv
<1> QED BY <1>1, Invariance, PTL

(* The book is whole at every unlock, whatever requesters, publications,   *)
(* withdrawals, drops and worker ends interleave.                          *)
THEOREM BookIsWhole == LedgerSpec => []BookWhole
<1>1. LedgerInv => BookWhole
  BY DEF LedgerInv, BookInv, BookWhole
<1> QED BY <1>1, Invariance, PTL

(* A request joined to another is owed as long as that one and ends with   *)
(* its outcome, for any number of requests joined and in any order of      *)
(* joins, publications, drops and the worker's end.                        *)
THEOREM JoinsEnd == LedgerSpec => []JoinsEndWithTheirTwin
<1>1. LedgerInv => JoinsEndWithTheirTwin
  BY DEF LedgerInv, BookInv, JoinsEndWithTheirTwin
<1> QED BY <1>1, Invariance, PTL

(* No terminal reaches a sink twice, or is lost between the lock and it,   *)
(* for any number of threads releasing at once.                            *)
THEOREM SunkIsOnce == LedgerSpec => []SunkOnce
<1>1. LedgerInv => SunkOnce
  BY DEF LedgerInv
<1> QED BY <1>1, Invariance, PTL

-----------------------------------------------------------------------------
(* The ledger implements the seam's promise (Completion): the initial book *)
(* is the promise's initial state, and every hold of the lock, line said,  *)
(* sink called and wake is a step of the promise or a stutter of it.       *)

LedgerStages   == [i \in Ids |-> LedgerStage(i)]
LedgerHeld    == [i \in Ids |-> ~ledger.gone[i]]
LedgerOutcomes == [i \in Ids |-> Outcome(ledger.terminal[i])]
LedgerOpen    == ledger.fault = NoFault

(* The promise sees the place, the holder, the terminal, the fault and who *)
(* has been heard; a step that changes none of them is a stutter.          *)
LEMMA Unseen ==
    ASSUME ledger'.minted = ledger.minted, ledger'.place = ledger.place, ledger'.gone = ledger.gone,
           ledger'.terminal = ledger.terminal, ledger'.fault = ledger.fault, sank' = sank
    PROVE  UNCHANGED Seam!vars
BY DEF Seam!vars, LedgerStage, Outcome

LEMMA InitRefines == LedgerInit => Seam!Init
<1> SUFFICES ASSUME LedgerInit PROVE Seam!Init
  OBVIOUS
<1>1. /\ ledger.minted = 0 /\ ledger.fault = NoFault
      /\ \A i \in Ids : ledger.place[i] = "unminted" /\ ~ledger.gone[i] /\ ledger.terminal[i] = Unended
  BY DEF LedgerInit, EmptyBook
<1>2. \A i \in Ids : LedgerStage(i) = "unasked" /\ Outcome(ledger.terminal[i]) = Unended
  BY <1>1 DEF LedgerStage, Outcome, Unended
<1> QED BY <1>1, <1>2 DEF Seam!Init, Seam!Ids, Ids

-----------------------------------------------------------------------------
LEMMA AdmitRefines ==
    ASSUME LedgerInv, NEW th \in Threads, NEW with \in Ids \cup {NoId}, Admit(th, with)
    PROVE  Seam!Ask
<1>1. /\ ledger \in Books /\ ledger.minted < MaxMinted /\ ledger.fault = NoFault
      /\ ledger' = Admitted(ledger, with) /\ sank' = sank
  BY DEF Admit, LedgerInv, BookInv, Refusal
<1> DEFINE id == ledger.minted + 1
<1>2. id \in Ids
  BY <1>1, IdsAreNatural DEF Books, Ids
<1>3. /\ ledger'.minted = id /\ ledger'.gone = ledger.gone /\ ledger'.terminal = ledger.terminal
      /\ ledger'.fault = ledger.fault
      /\ ledger'.place = [ledger.place EXCEPT ![id] = "owed"]
  BY <1>1 DEF Admitted, Books, NextId
<1>4. LedgerStages' = [LedgerStages EXCEPT ![id] = "owed"]
  BY <1>1, <1>2, <1>3 DEF LedgerStages, LedgerStage, Books
<1>5. LedgerHeld' = LedgerHeld /\ LedgerOutcomes' = LedgerOutcomes /\ LedgerOpen' = LedgerOpen /\ LedgerOpen
  BY <1>1, <1>3 DEF LedgerHeld, LedgerOutcomes, LedgerOpen, Outcome
<1> QED BY <1>1, <1>3, <1>4, <1>5
        DEF Seam!Ask, LedgerStages, LedgerHeld, LedgerOutcomes, LedgerOpen

(* Requests that end together, with one outcome between them; those to be  *)
(* sunk are with a thread, and not heard yet.                              *)
LEMMA EndedRefines ==
    ASSUME LedgerInv, NEW ends \in SUBSET Owed(ledger), NEW terminals, DOMAIN terminals = ends,
           NEW outcome, \A i \in ends : Outcome(terminals[i]) = outcome,
           ledger'.minted = ledger.minted, ledger'.gone = ledger.gone,
           ledger'.place = Ended(ledger, terminals).place,
           ledger'.terminal = Ended(ledger, terminals).terminal,
           sank' = sank
    PROVE  Seam!EndTogether(ends, outcome)
<1>1. ledger \in Books
  BY DEF LedgerInv, BookInv
<1>2. /\ \A i \in Ids : ledger'.place[i] =
             IF i \notin ends THEN ledger.place[i] ELSE IF ledger.gone[i] THEN "sunk" ELSE "kept"
      /\ \A i \in Ids : ledger'.terminal[i] =
             IF i \in ends THEN terminals[i] ELSE ledger.terminal[i]
  BY <1>1 DEF Ended, Books
<1>3. \A i \in ends : i \in Ids /\ ledger.place[i] = "owed" /\ i \notin sank
  BY DEF Owed, LedgerInv, SunkOnce
<1>4. LedgerStages' = [i \in Ids |-> IF i \in {} THEN "sunk"
                                ELSE IF i \in ends THEN "ended" ELSE LedgerStages[i]]
  BY <1>2, <1>3 DEF LedgerStages, LedgerStage
<1>5. LedgerOutcomes' = [i \in Ids |-> IF i \in ends THEN outcome ELSE LedgerOutcomes[i]]
  BY <1>2 DEF LedgerOutcomes
<1>6. \A i \in ends : LedgerStages[i] = "owed"
  BY <1>3 DEF LedgerStages, LedgerStage
<1>7. LedgerHeld' = LedgerHeld
  BY DEF LedgerHeld
<1>8. Seam!Ids = Ids
  BY DEF Seam!Ids, Ids
<1>9. ends \subseteq Seam!Owed
  BY <1>3, <1>6, <1>8 DEF Seam!Owed, LedgerStages
<1>10. \E heard \in SUBSET {i \in ends : ~LedgerHeld[i]} :
         LedgerStages' = [i \in Ids |-> IF i \in heard THEN "sunk"
                                   ELSE IF i \in ends THEN "ended" ELSE LedgerStages[i]]
  <2> WITNESS {} \in SUBSET {i \in ends : ~LedgerHeld[i]}
  <2> QED BY <1>4
<1> QED BY <1>5, <1>7, <1>8, <1>9, <1>10
        DEF Seam!EndTogether, LedgerStages, LedgerOutcomes, LedgerHeld

LEMMA PublishRefines ==
    ASSUME LedgerInv, NEW th \in Threads, NEW id \in Ids,
           NEW t \in {Done, Cancelled} \cup {Failed(w) : w \in Words}
                        \cup {Superseded(by) : by \in Ids},
           Publishes(th, id, t)
    PROVE  Seam!End
<1> DEFINE ends == EndsWith(ledger, id)
           terminals == [i \in ends |-> IF i = id THEN t ELSE Joined(id, t)]
<1>1. /\ ledger \in Books /\ BookInv(ledger) /\ PublishAccepted(ledger, id)
      /\ ledger' = Published(ledger, id, t) /\ sank' = sank
  BY DEF Publishes, LedgerInv, BookInv
<1>2. t \in Publishable
  BY PlainTerminals
<1>3. ends \subseteq Owed(ledger) /\ id \in ends
  BY <1>1, <1>2, PublishedInv DEF EndsWith
<1>4. \A i \in ends : Outcome(terminals[i]) = t
  BY <1>2 DEF Outcome, Joined, Publishable, Terminals, NoId
<1>5. /\ ledger'.minted = ledger.minted /\ ledger'.gone = ledger.gone /\ ledger'.fault = ledger.fault
      /\ ledger'.place = Ended(ledger, terminals).place
      /\ ledger'.terminal = Ended(ledger, terminals).terminal
  BY <1>1 DEF Published, Ended, Books
<1> HIDE DEF terminals, ends
<1>6. DOMAIN terminals = ends
  BY DEF terminals
<1>7. Seam!EndTogether(ends, t)
  BY <1>1, <1>3, <1>4, <1>5, <1>6, EndedRefines
<1>8. ends \in SUBSET Seam!Owed /\ ends # {}
  BY <1>3, <1>7 DEF Seam!EndTogether
<1> QED BY <1>5, <1>7, <1>8 DEF Seam!End

LEMMA WorkerEndRefines ==
    ASSUME LedgerInv, NEW cause \in Causes, ledger' = WorkerEnded(ledger, cause), sank' = sank
    PROVE  Seam!Close
<1> DEFINE ends == EndedByWorker(ledger)
           terminals == [i \in ends |-> GoneTerminal(ledger, i)]
<1>1. ledger \in Books /\ BookInv(ledger) /\ ends = Owed(ledger)
  BY WorkerEndedInv DEF LedgerInv, BookInv
<1>2. \A i \in ends : Outcome(terminals[i]) = WorkerGone
  BY DEF Outcome, GoneTerminal, Joined, WorkerGone, Plain
<1>3. /\ ledger'.minted = ledger.minted /\ ledger'.gone = ledger.gone
      /\ ledger'.place = Ended(ledger, terminals).place
      /\ ledger'.terminal = Ended(ledger, terminals).terminal
      /\ ledger'.fault = IF ledger.fault = NoFault THEN cause ELSE ledger.fault
  BY <1>1 DEF WorkerEnded, Ended, Books
<1>4. DOMAIN terminals = ends
  OBVIOUS
<1>5. ledger'.fault # NoFault
  BY <1>3 DEF Causes, NoFault
<1> HIDE DEF terminals, ends
<1>6. Seam!EndTogether(ends, WorkerGone)
  BY <1>1, <1>2, <1>3, <1>4, EndedRefines
<1>7. Seam!Owed = ends
  BY <1>1 DEF Seam!Owed, Seam!Ids, Ids, Owed, LedgerStage
<1> QED BY <1>5, <1>6, <1>7 DEF Seam!Close

LEMMA TakeRefines ==
    ASSUME LedgerInv, NEW th \in Threads, NEW id \in Ids, Take(th, id)
    PROVE  Seam!Answer(id)
<1>1. /\ ledger \in Books /\ ledger.place[id] = "kept" /\ ~ledger.gone[id]
      /\ ledger' = Taken(ledger, id) /\ sank' = sank
  BY DEF Take, LedgerInv, BookInv, Kept, PlacedByRequester
<1>2. /\ ledger'.minted = ledger.minted /\ ledger'.gone = ledger.gone
      /\ ledger'.terminal = ledger.terminal /\ ledger'.fault = ledger.fault
      /\ ledger'.place = [ledger.place EXCEPT ![id] = "taken"]
  BY <1>1 DEF Taken, Books
<1>3. /\ LedgerStages[id] = "ended" /\ LedgerHeld[id]
      /\ LedgerStages' = [LedgerStages EXCEPT ![id] = "answered"]
  <2>1. LedgerStages[id] = "ended" /\ LedgerHeld[id]
    BY <1>1 DEF LedgerStages, LedgerHeld, LedgerStage
  <2>2. ledger'.place[id] = "taken" /\ \A i \in Ids \ {id} : ledger'.place[i] = ledger.place[i]
    BY <1>1, <1>2 DEF Books
  <2>3. LedgerStage(id)' = "answered" /\ \A i \in Ids \ {id} : LedgerStage(i)' = LedgerStage(i)
    BY <1>1, <2>2 DEF LedgerStage
  <2> QED BY <2>1, <2>3 DEF LedgerStages
<1>4. LedgerHeld' = LedgerHeld /\ LedgerOutcomes' = LedgerOutcomes /\ LedgerOpen' = LedgerOpen
  BY <1>2 DEF LedgerHeld, LedgerOutcomes, LedgerOpen, Outcome
<1> QED BY <1>2, <1>3, <1>4
        DEF Seam!Answer, LedgerStages, LedgerHeld, LedgerOutcomes, LedgerOpen

LEMMA LetGoRefines ==
    ASSUME LedgerInv, NEW th \in Threads, NEW id \in Ids, RequesterGone(th, id)
    PROVE  Seam!LetGo(id)
<1>1. /\ ledger \in Books /\ ledger.place[id] \in {"owed", "kept"} /\ ~ledger.gone[id]
      /\ ledger' = Dropped(ledger, id) /\ sank' = sank /\ id \notin sank
  BY DEF RequesterGone, LedgerInv, BookInv, Entries, SunkOnce
<1>2. /\ ledger'.minted = ledger.minted
      /\ ledger'.gone = [ledger.gone EXCEPT ![id] = TRUE]
      /\ ledger'.terminal = ledger.terminal /\ ledger'.fault = ledger.fault
      /\ ledger'.place = [ledger.place EXCEPT
                          ![id] = IF id \in Kept(ledger) THEN "sunk" ELSE ledger.place[id]]
  BY <1>1 DEF Dropped, Books
<1>3. /\ LedgerStages[id] \in {"owed", "ended"} /\ LedgerHeld[id]
      /\ LedgerStages' = LedgerStages
      /\ LedgerHeld' = [LedgerHeld EXCEPT ![id] = FALSE]
  <2>1. LedgerStages[id] \in {"owed", "ended"} /\ LedgerHeld[id]
    BY <1>1 DEF LedgerStages, LedgerHeld, LedgerStage
  <2>2. LedgerHeld' = [LedgerHeld EXCEPT ![id] = FALSE]
    BY <1>1, <1>2 DEF LedgerHeld, Books
  <2>3. \A i \in Ids : LedgerStage(i)' = LedgerStage(i)
    BY <1>1, <1>2 DEF LedgerStage, Books, Kept
  <2> QED BY <2>1, <2>2, <2>3 DEF LedgerStages
<1>4. LedgerOutcomes' = LedgerOutcomes /\ LedgerOpen' = LedgerOpen
  BY <1>2 DEF LedgerOutcomes, LedgerOpen, Outcome
<1> QED BY <1>2, <1>3, <1>4
        DEF Seam!LetGo, LedgerStages, LedgerHeld, LedgerOutcomes, LedgerOpen

LEMMA SinkRefines ==
    ASSUME LedgerInv, NEW th \in Threads, Sink(th)
    PROVE  \E id \in Ids : Seam!Sink(id)
<1> PICK id \in out[th].sunk : /\ sank' = sank \cup {id}
                              /\ UNCHANGED ledger
  BY DEF Sink
<1>1. /\ id \in Ids /\ ledger.place[id] = "sunk" /\ id \notin sank /\ ledger.gone[id]
  BY DEF LedgerInv, LedgerTypeOK, Outs, BookInv, PlacedByRequester, SunkOnce
<1>2. /\ LedgerStages[id] = "ended" /\ ~LedgerHeld[id]
      /\ LedgerStages' = [LedgerStages EXCEPT ![id] = "sunk"]
  BY <1>1 DEF LedgerStages, LedgerHeld, LedgerStage
<1>3. LedgerHeld' = LedgerHeld /\ LedgerOutcomes' = LedgerOutcomes /\ LedgerOpen' = LedgerOpen
      /\ ledger'.minted = ledger.minted
  BY DEF LedgerHeld, LedgerOutcomes, LedgerOpen, Outcome
<1>4. Seam!Sink(id)
  BY <1>2, <1>3 DEF Seam!Sink, LedgerStages, LedgerHeld, LedgerOutcomes, LedgerOpen
<1> QED BY <1>1, <1>4

-----------------------------------------------------------------------------
LEMMA AsksRefine ==
    ASSUME LedgerInv, NEW th \in Requesters, Asks(th)
    PROVE  [Seam!Next]_(Seam!vars)
<1>1. th \in Threads /\ ledger \in Books
  BY DEF Threads, LedgerInv, BookInv
<1>2. CASE StartWorker(th)
  BY <1>2, Unseen DEF StartWorker
<1>3. CASE StartFaults(th)
  <2>1. Seam!Close
    BY <1>3, WorkerEndRefines DEF StartFaults, Causes
  <2> QED BY <2>1 DEF Seam!Next
<1>4. ASSUME NEW w \in Words, StartRefused(th, w) PROVE UNCHANGED Seam!vars
  <2>1. /\ ledger'.minted = ledger.minted /\ ledger'.place = ledger.place /\ ledger'.gone = ledger.gone
        /\ ledger'.terminal = ledger.terminal /\ ledger'.fault = ledger.fault /\ sank' = sank
    BY <1>1, <1>4 DEF StartRefused, NotStartedStreak, Books
  <2> QED BY <2>1, Unseen
<1>5. ASSUME NEW with \in Ids \cup {NoId}, Admit(th, with) PROVE Seam!Next
  BY <1>1, <1>5, AdmitRefines DEF Seam!Next
<1>6. ASSUME NEW id \in Ids, RequesterPublishes(th, id) PROVE Seam!Next
  <2>1. ledger.minted \in 0..MaxMinted /\ id \in Nat
    BY <1>1, IdsAreNatural DEF Books
  <2>2. \A by \in (id + 1)..ledger.minted : by \in Ids
    BY <2>1, IdsAreNatural DEF Ids
  <2>3. PICK t \in {Cancelled} \cup {Superseded(by) : by \in (id + 1)..ledger.minted} :
           Publishes(th, id, t)
    BY <1>6 DEF RequesterPublishes
  <2>4. t \in {Done, Cancelled} \cup {Failed(w) : w \in Words} \cup {Superseded(by) : by \in Ids}
    BY <2>2, <2>3
  <2>5. Seam!End
    BY <1>1, <2>3, <2>4, PublishRefines
  <2> QED BY <2>5 DEF Seam!Next
<1>7. ASSUME NEW id \in Ids, Take(th, id) PROVE Seam!Next
  BY <1>1, <1>7, TakeRefines DEF Seam!Next, Seam!Ids, Ids
<1>8. ASSUME NEW id \in Ids, RequesterGone(th, id) PROVE Seam!Next
  BY <1>1, <1>8, LetGoRefines DEF Seam!Next, Seam!Ids, Ids
<1> QED BY <1>2, <1>3, <1>4, <1>5, <1>6, <1>7, <1>8 DEF Asks

LEMMA WorksRefines ==
    ASSUME LedgerInv, Works
    PROVE  Seam!Next
<1>1. Worker \in Threads
  BY DEF Threads
<1>2. ASSUME NEW id \in Ids, WorkerPublishes(id) PROVE Seam!Next
  <2>1. PICK t \in {Done} \cup {Failed(w) : w \in Words} : Publishes(Worker, id, t)
    BY <1>2 DEF WorkerPublishes
  <2>2. t \in {Done, Cancelled} \cup {Failed(w) : w \in Words} \cup {Superseded(by) : by \in Ids}
    BY <2>1
  <2>3. Seam!End
    BY <1>1, <2>1, <2>2, PublishRefines
  <2> QED BY <2>3 DEF Seam!Next
<1>3. ASSUME NEW cause \in {"Returned", "Panicked"}, WorkerEnds(cause) PROVE Seam!Next
  <2>1. Seam!Close
    BY <1>3, WorkerEndRefines DEF WorkerEnds, Causes
  <2> QED BY <2>1 DEF Seam!Next
<1> QED BY <1>2, <1>3 DEF Works

LEMMA ReleaseRefines ==
    ASSUME LedgerInv, NEW th \in Threads, Release(th)
    PROVE  [Seam!Next]_(Seam!vars)
<1>1. CASE Say(th)
  BY <1>1, Unseen DEF Say
<1>2. CASE Sink(th)
  BY <1>2, SinkRefines DEF Seam!Next, Seam!Ids, Ids
<1>3. CASE WakeConsumer(th)
  BY <1>3, Unseen DEF WakeConsumer
<1> QED BY <1>1, <1>2, <1>3 DEF Release

LEMMA NextRefines ==
    LedgerInv /\ [LedgerNext]_ledgerVars => [Seam!Next]_(Seam!vars)
<1> SUFFICES ASSUME LedgerInv, [LedgerNext]_ledgerVars PROVE [Seam!Next]_(Seam!vars)
  OBVIOUS
<1>1. CASE UNCHANGED ledgerVars
  BY <1>1, Unseen DEF ledgerVars
<1> QED BY <1>1, AsksRefine, WorksRefines, ReleaseRefines DEF LedgerNext

(* Every request admitted ends exactly once and reaches exactly one        *)
(* reader, once, whatever threads, withdrawals, joins and worker ends      *)
(* there are, and with any number of requests.                             *)
THEOREM LedgerKeepsThePromise == LedgerSpec => KeepsTheSeam
BY InitRefines, NextRefines, Invariance, PTL DEF LedgerSpec, KeepsTheSeam, Seam!Spec

-----------------------------------------------------------------------------
(* What the ledger's operations do to the requests a queue knows: c has no *)
(* operation, nothing owed and no entry that b had not, and what has been  *)
(* taken stays as it is.                                                   *)
Shrinks(b, c) ==
    /\ BookInv(c) /\ c.minted = b.minted
    /\ Operations(c) \subseteq Operations(b) /\ Owed(c) \subseteq Owed(b)
    /\ Entries(c) \subseteq Entries(b)
    /\ \A i \in Ids : b.place[i] = "taken" => c.place[i] = "taken" /\ c.terminal[i] = b.terminal[i]

(* Nobody who holds a request loses it.                                    *)
LosesNone(b, c) == \A i \in Entries(b) : ~b.gone[i] => i \in Entries(c) /\ ~c.gone[i]

LEMMA EndedShrinks ==
    ASSUME NEW b, BookInv(b), NEW ends \in SUBSET Owed(b), NEW terminals, DOMAIN terminals = ends,
           NEW c, BookInv(c), c.minted = b.minted, c.gone = b.gone,
           c.place = Ended(b, terminals).place, c.twin = Ended(b, terminals).twin,
           c.terminal = Ended(b, terminals).terminal,
           \A j \in Owed(b) : b.twin[j] \in ends => j \in ends
    PROVE  Shrinks(b, c) /\ LosesNone(b, c) /\ Operations(c) \cap ends = {}
<1>1. b \in Books /\ TwinIsOwed(b)
  BY DEF BookInv
<1>2. \A i \in Ids :
         /\ c.place[i] = IF i \notin ends THEN b.place[i] ELSE IF b.gone[i] THEN "sunk" ELSE "kept"
         /\ c.twin[i] = IF i \in ends THEN NoId ELSE b.twin[i]
         /\ i \notin ends => c.terminal[i] = b.terminal[i]
  BY <1>1 DEF Ended, Books
<1>3. \A i \in ends : i \in Ids /\ b.place[i] = "owed"
  BY DEF Owed
<1>4. Owed(c) = Owed(b) \ ends
  BY <1>2, <1>3 DEF Owed
<1>5. Entries(c) \subseteq Entries(b)
  BY <1>2, <1>3 DEF Entries
<1>6. Operations(c) \subseteq Operations(b) /\ Operations(c) \cap ends = {}
  BY <1>2, <1>4 DEF Operations, Owed
<1>7. LosesNone(b, c)
  BY <1>2, <1>3 DEF LosesNone, Entries
<1>8. \A i \in Ids : b.place[i] = "taken" => c.place[i] = "taken" /\ c.terminal[i] = b.terminal[i]
  BY <1>2, <1>3
<1> QED BY <1>4, <1>5, <1>6, <1>7, <1>8 DEF Shrinks

LEMMA PublishedShrinks ==
    ASSUME NEW b, BookInv(b), NEW id, PublishAccepted(b, id), NEW t \in Publishable
    PROVE  /\ Shrinks(b, Published(b, id, t)) /\ LosesNone(b, Published(b, id, t))
           /\ id \notin Operations(Published(b, id, t))
<1> DEFINE ends == EndsWith(b, id)
           terminals == [i \in ends |-> IF i = id THEN t ELSE Joined(id, t)]
           c == Published(b, id, t)
<1>1. b \in Books /\ TwinIsOwed(b) /\ BookInv(c) /\ ends \in SUBSET Owed(b)
  BY PublishedInv DEF BookInv
<1>2. /\ c.minted = b.minted /\ c.gone = b.gone
      /\ c.place = Ended(b, terminals).place /\ c.twin = Ended(b, terminals).twin
      /\ c.terminal = Ended(b, terminals).terminal
  BY <1>1 DEF Published, Ended, Books
<1>3. id \in ends /\ id \in Ids
  BY DEF EndsWith, PublishAccepted, Owed
<1>4. \A j \in Owed(b) : b.twin[j] \in ends => j \in ends
  <2> SUFFICES ASSUME NEW j \in Owed(b), b.twin[j] \in ends PROVE j \in ends
    OBVIOUS
  <2>1. j \in Ids /\ b.twin[j] \in Ids /\ b.twin[j] # NoId
    BY <1>1, IdsAreNatural DEF Owed
  <2>2. b.twin[b.twin[j]] = NoId /\ id # NoId
    BY <1>1, <1>3, <2>1, IdsAreNatural DEF TwinIsOwed
  <2>3. b.twin[j] = id
    BY <2>2 DEF EndsWith, Twins
  <2> QED BY <2>3 DEF EndsWith, Twins
<1>5. DOMAIN terminals = ends
  OBVIOUS
<1> HIDE DEF ends, terminals, c
<1>6. Shrinks(b, c) /\ LosesNone(b, c) /\ Operations(c) \cap ends = {}
  BY <1>1, <1>2, <1>4, <1>5, EndedShrinks
<1> QED BY <1>3, <1>6 DEF c

LEMMA WorkerEndedShrinks ==
    ASSUME NEW b, BookInv(b), NEW cause \in Causes
    PROVE  /\ Shrinks(b, WorkerEnded(b, cause)) /\ LosesNone(b, WorkerEnded(b, cause))
           /\ Operations(WorkerEnded(b, cause)) = {}
<1> DEFINE ends == EndedByWorker(b)
           terminals == [i \in ends |-> GoneTerminal(b, i)]
           c == WorkerEnded(b, cause)
<1>1. b \in Books /\ TwinIsOwed(b) /\ BookInv(c) /\ ends = Owed(b)
  BY WorkerEndedInv DEF BookInv
<1>2. /\ c.minted = b.minted /\ c.gone = b.gone
      /\ c.place = Ended(b, terminals).place /\ c.twin = Ended(b, terminals).twin
      /\ c.terminal = Ended(b, terminals).terminal
  BY <1>1 DEF WorkerEnded, Ended, Books
<1>3. DOMAIN terminals = ends
  OBVIOUS
<1> HIDE DEF ends, terminals, c
<1>4. Shrinks(b, c) /\ LosesNone(b, c) /\ Operations(c) \cap ends = {}
  BY <1>1, <1>2, <1>3, EndedShrinks
<1>5. Operations(c) = {}
  BY <1>1, <1>4 DEF Shrinks, Operations
<1> QED BY <1>4, <1>5 DEF c

LEMMA DroppedShrinks ==
    ASSUME NEW b, BookInv(b), NEW id \in Entries(b)
    PROVE  Shrinks(b, Dropped(b, id))
<1> DEFINE c == Dropped(b, id)
<1>1. b \in Books /\ BookInv(c) /\ id \in Ids /\ b.place[id] \in {"owed", "kept"}
  BY DroppedInv DEF BookInv, Entries
<1>2. /\ c.minted = b.minted /\ c.twin = b.twin /\ c.terminal = b.terminal
      /\ \A i \in Ids : c.place[i] = IF i = id /\ b.place[i] = "kept" THEN "sunk" ELSE b.place[i]
  BY <1>1 DEF Dropped, Books, Kept
<1> HIDE DEF c
<1>3. Owed(c) = Owed(b)
  BY <1>2 DEF Owed
<1>4. Entries(c) \subseteq Entries(b)
  BY <1>2 DEF Entries
<1>5. Operations(c) = Operations(b)
  BY <1>2, <1>3 DEF Operations
<1> QED BY <1>1, <1>2, <1>3, <1>4, <1>5 DEF Shrinks, c

LEMMA TakenShrinks ==
    ASSUME NEW b, BookInv(b), NEW id \in Kept(b)
    PROVE  /\ Shrinks(b, Taken(b, id)) /\ Entries(Taken(b, id)) = Entries(b) \ {id}
           /\ Taken(b, id).place[id] = "taken" /\ Taken(b, id).terminal = b.terminal
<1> DEFINE c == Taken(b, id)
<1>1. b \in Books /\ BookInv(c) /\ id \in Ids /\ b.place[id] = "kept"
  BY TakenInv DEF BookInv, Kept
<1>2. /\ c.minted = b.minted /\ c.twin = b.twin /\ c.terminal = b.terminal
      /\ c.place = [b.place EXCEPT ![id] = "taken"]
  BY <1>1 DEF Taken, Books
<1>3. Owed(c) = Owed(b) /\ Entries(c) = Entries(b) \ {id}
  BY <1>1, TakenParts
<1>4. c.place[id] = "taken" /\ \A i \in Ids \ {id} : c.place[i] = b.place[i]
  BY <1>1, <1>2 DEF Books
<1> HIDE DEF c
<1>5. Operations(c) = Operations(b)
  BY <1>2, <1>3 DEF Operations
<1> QED BY <1>1, <1>2, <1>3, <1>4, <1>5 DEF Shrinks, c

(* An admission: one more, which is an operation unless it joins one.      *)
LEMMA AdmittedGrows ==
    ASSUME NEW b, BookInv(b), NEW with \in Ids \cup {NoId}, b.minted < MaxMinted,
           Refusal(b, with) = "none"
    PROVE  LET c  == Admitted(b, with)
               id == b.minted + 1
           IN  /\ BookInv(c) /\ NextId(b) = id /\ id \in Ids /\ id \notin Entries(b)
               /\ c.minted = id /\ c.terminal = b.terminal /\ c.gone = b.gone
               /\ Owed(c) = Owed(b) \cup {id} /\ Entries(c) = Entries(b) \cup {id}
               /\ Operations(c) \subseteq Operations(b) \cup {id}
               /\ with # NoId => Operations(c) \subseteq Operations(b)
               /\ \A i \in Ids : b.place[i] = "taken" => c.place[i] = "taken"
               /\ LosesNone(b, c)
<1> DEFINE c  == Admitted(b, with)
           id == b.minted + 1
<1>1. b \in Books /\ MintedInOrder(b) /\ BookInv(c)
  BY AdmittedInv DEF BookInv
<1>2. id \in Ids /\ NextId(b) = id
  BY <1>1, IdsAreNatural DEF NextId, Books, Ids
<1>3. /\ c.minted = id /\ c.gone = b.gone /\ c.terminal = b.terminal
      /\ c.place = [b.place EXCEPT ![id] = "owed"]
      /\ c.twin = [b.twin EXCEPT ![id] = IF with = NoId \/ b.twin[with] = NoId THEN with
                                         ELSE b.twin[with]]
  BY <1>1, <1>2 DEF Admitted, Books
<1>4. b.place[id] = "unminted" /\ id \notin Entries(b)
  BY <1>1, <1>2 DEF MintedInOrder, Entries, Books
<1>5. c.place[id] = "owed" /\ \A i \in Ids \ {id} : c.place[i] = b.place[i] /\ c.twin[i] = b.twin[i]
  BY <1>1, <1>2, <1>3 DEF Books
<1>6. with # NoId => c.twin[id] # NoId
  BY <1>1, <1>2, <1>3 DEF Books
<1> HIDE DEF c, id
<1>7. Owed(c) = Owed(b) \cup {id} /\ Entries(c) = Entries(b) \cup {id}
  BY <1>2, <1>5 DEF Owed, Entries
<1>8. Operations(c) \subseteq Operations(b) \cup {id}
  BY <1>5, <1>7 DEF Operations, Owed
<1>9. with # NoId => Operations(c) \subseteq Operations(b)
  BY <1>6, <1>8 DEF Operations
<1>10. \A i \in Ids : b.place[i] = "taken" => c.place[i] = "taken"
  BY <1>4, <1>5
<1>11. LosesNone(b, c)
  BY <1>3, <1>7 DEF LosesNone
<1> QED BY <1>1, <1>2, <1>3, <1>4, <1>7, <1>8, <1>9, <1>10, <1>11 DEF c, id
-----------------------------------------------------------------------------
(* The jobs in line.                                                       *)

LEMMA LeastIs ==
    ASSUME NEW S \in SUBSET Nat, S # {}
    PROVE  \E least \in S : \A i \in S : least <= i
<1>1. PICK least \in S : \A i \in S : <<i, least>> \notin OpToRel(<, Nat)
  BY WFMin, NatLessThanWellFounded, Zenon
<1>2. \A i \in S : ~(i < least)
  BY <1>1 DEF OpToRel
<1>3. \A i \in S : least <= i
  BY <1>2
<1> QED BY <1>3

LEMMA FirstIs ==
    ASSUME NEW at \in SUBSET Nat
    PROVE  FirstOf(at) \in at \cup {0} /\ (FirstOf(at) # 0 => at # {})
<1>1. CASE at = {}
  BY <1>1 DEF FirstOf
<1>2. CASE at # {}
  <2>1. First(at) # {}
    BY <1>2, LeastIs DEF First
  <2>2. First(at) # {}
    BY <2>1
  <2>3. FirstOf(at) \in First(at)
    BY <1>2, <2>2 DEF FirstOf
  <2> QED BY <1>2, <2>3 DEF First
<1> QED BY <1>1, <1>2

LEMMA RelatedIs ==
    ASSUME NEW job, line \in Seq([id : Ids, job : Jobs])
    PROVE  RelatedAt(job) \in 0..Len(line)
<1> DEFINE at == {n \in 1..Len(line) : Relate(line[n].job, job) # "Other"}
<1>1. RelatedAt(job) = FirstOf(at)
  BY DEF RelatedAt
<1>2. at \in SUBSET Nat /\ at \subseteq 1..Len(line) /\ Len(line) \in Nat
  OBVIOUS
<1> HIDE DEF at
<1>3. FirstOf(at) \in at \cup {0}
  BY <1>2, FirstIs
<1>4. \A n \in at \cup {0} : n \in 0..Len(line)
  BY <1>2
<1> QED BY <1>1, <1>3, <1>4, Zenon

LEMMA PlaceIs ==
    ASSUME NEW id, line \in Seq([id : Ids, job : Jobs])
    PROVE  /\ PlaceInLine(id) \in 0..Len(line)
           /\ PlaceInLine(id) # 0 => line[PlaceInLine(id)].id = id
<1> DEFINE at == {n \in 1..Len(line) : line[n].id = id}
<1>1. PlaceInLine(id) = FirstOf(at)
  BY DEF PlaceInLine
<1>2. /\ at \in SUBSET Nat /\ at \subseteq 1..Len(line) /\ Len(line) \in Nat
      /\ \A n \in at : line[n].id = id
  OBVIOUS
<1> HIDE DEF at
<1>3. FirstOf(at) \in at \cup {0}
  BY <1>2, FirstIs
<1>4. \A n \in at \cup {0} : n \in 0..Len(line) /\ (n # 0 => line[n].id = id)
  BY <1>2
<1> QED BY <1>1, <1>3, <1>4, Zenon

(* The line without its n-th job has every other one.                      *)
LEMMA WithoutIs ==
    ASSUME NEW T, line \in Seq(T), NEW n \in 0..Len(line)
    PROVE  /\ LineWithout(n) \in Seq(T)
           /\ \A k \in 1..Len(line) :
                 k # n => \E at \in 1..Len(LineWithout(n)) : LineWithout(n)[at] = line[k]
<1> SUFFICES ASSUME NEW rest, rest = LineWithout(n)
             PROVE  /\ rest \in Seq(T)
                    /\ \A k \in 1..Len(line) : k # n => \E at \in 1..Len(rest) : rest[at] = line[k]
  OBVIOUS
<1>1. Len(line) \in Nat
  OBVIOUS
<1>2. CASE n = 0
  <2>1. rest = line
    BY <1>2 DEF LineWithout
  <2> QED BY <1>2, <2>1
<1>3. CASE n # 0
  <2> DEFINE l == Len(line) - 1
  <2>1. n \in 1..(l + 1) /\ l \in Nat /\ Len(line) = l + 1
    BY <1>1, <1>3
  <2>2. rest = [k \in 1..l |-> IF k < n THEN line[k] ELSE line[k + 1]]
    BY <1>3 DEF LineWithout
  <2>3. \A k \in 1..Len(line) : line[k] \in T
    OBVIOUS
  <2> HIDE DEF l
  <2>4. \A k \in 1..l : /\ k \in 1..(l + 1) /\ k + 1 \in 1..(l + 1)
                        /\ rest[k] = IF k < n THEN line[k] ELSE line[k + 1]
    BY <2>1, <2>2
  <2>5. rest \in [1..l -> T]
    BY <2>1, <2>2, <2>3, <2>4
  <2>6. rest \in Seq(T) /\ Len(rest) = l
    BY <2>1, <2>5
  <2>7. ASSUME NEW k \in 1..(l + 1), k # n
        PROVE  \E at \in 1..l : rest[at] = line[k]
    <3>1. CASE k < n
      BY <2>1, <2>4, <3>1
    <3>2. CASE k > n
      <4>1. k - 1 \in 1..l /\ ~(k - 1 < n) /\ k - 1 + 1 = k
        BY <2>1, <3>2
      <4> QED BY <2>4, <4>1, Zenon
    <3> QED BY <2>1, <2>7, <3>1, <3>2
  <2> QED BY <2>1, <2>6, <2>7
<1> QED BY <1>2, <1>3

(* So whoever is in line stays there, but for the one taken out.           *)
LEMMA WithoutKeeps ==
    ASSUME line \in Seq([id : Ids, job : Jobs]), NEW n \in 0..Len(line),
           NEW rest, rest = LineWithout(n), NEW i \in InLine,
           n # 0 => line[n].id # i
    PROVE  \E at \in 1..Len(rest) : rest[at].id = i
<1>1. PICK k \in 1..Len(line) : line[k].id = i
  BY DEF InLine
<1>2. k # n
  BY <1>1
<1>3. \A j \in 1..Len(line) : j # n => \E at \in 1..Len(rest) : rest[at] = line[j]
  <2> DEFINE T == [id : Ids, job : Jobs]
  <2>1. line \in Seq(T)
    OBVIOUS
  <2> HIDE DEF T
  <2>2. \A j \in 1..Len(line) : j # n => \E at \in 1..Len(rest) : rest[at] = line[j]
    BY <2>1, WithoutIs, Zenon
  <2> QED BY <2>2
<1> QED BY <1>1, <1>2, <1>3, Zenon

-----------------------------------------------------------------------------
(* The inductive invariant of the queue, by its parts.                     *)

(* The call under way has what it will use: an identity to mint, a waiting *)
(* job to displace, a request that is still held.                          *)
CallFits ==
    /\ app = "asking" => book.minted < MaxMinted /\ hand.window \in Windows
    /\ app = "displacing" => hand.id \in Ids /\ RelatedAt(hand.job) # 0
    /\ app \in {"withdrawing", "letting_go", "superseding", "taking"} => hand.id \in Held
    /\ app = "superseding" => hand.id < book.minted

(* What no window has been given yet, and can still be.                    *)
ToCome == Entries(book) \cup pocket

HoldersFit ==
    /\ \A i \in ToCome : holder[i] \in Windows
    /\ \A i \in pocket \cup basket : book.place[i] = "taken"

(* What has been shown was admitted before everything still to come.       *)
ShownFirst ==
    \A n \in 1..Len(shown) :
        /\ shown[n] <= book.minted
        /\ \A i \in ToCome \cup Answers(basket) : shown[n] < i

(* During a drain nothing below the mark is owed, nothing below it is left *)
(* behind with a window the drain has come to, and only what is below it   *)
(* will be shown.                                                          *)
DrainFits ==
    /\ app # "draining" => basket = {}
    /\ app = "draining" =>
          /\ \A i \in Owed(book) : mark # NoId /\ mark <= i
          /\ \A i \in ToCome : Below(mark, i) => holder[i] \in todo
          /\ \A i \in Answers(basket) : Below(mark, i)

QInv ==
    /\ TypeOK /\ BookInv(book)
    /\ CallFits /\ HoldersFit /\ ShownFirst /\ DrainFits
    /\ OwedIsReachable /\ AnswersInOrder

-----------------------------------------------------------------------------
(* What a step that only shrinks the book keeps of the drain.              *)
LEMMA DrainStands ==
    ASSUME QInv, Shrinks(book, book'),
           UNCHANGED <<lane, holder, mark, todo, basket, pocket, shown>>,
           app' = "draining" <=> app = "draining"
    PROVE  HoldersFit' /\ ShownFirst' /\ DrainFits' /\ AnswersInOrder'
<1>1. /\ ToCome' \subseteq ToCome /\ Owed(book)' \subseteq Owed(book)
      /\ book'.minted = book.minted
  BY DEF Shrinks, ToCome
<1>2. Windows' = Windows
  BY DEF Windows
<1>3. pocket \subseteq Ids /\ basket \subseteq Ids
  BY DEF QInv, TypeOK
<1>4. \A i \in pocket \cup basket : book'.place[i] = "taken" /\ book'.terminal[i] = book.terminal[i]
  BY <1>3 DEF QInv, HoldersFit, Shrinks
<1>5. Answers(basket)' = Answers(basket)
  BY <1>4 DEF Answers
<1>6. HoldersFit'
  BY <1>1, <1>2, <1>4 DEF QInv, HoldersFit
<1>7. ShownFirst'
  BY <1>1, <1>5 DEF QInv, ShownFirst
<1>8. DrainFits'
  BY <1>1, <1>5 DEF QInv, DrainFits, Below
<1>9. AnswersInOrder'
  BY DEF QInv, AnswersInOrder
<1> QED BY <1>6, <1>7, <1>8, <1>9

(* A book that stays as it is shrinks by nothing.                          *)
LEMMA SameShrinks ==
    ASSUME QInv, book' = book
    PROVE  Shrinks(book, book') /\ LosesNone(book, book')
BY DEF QInv, Shrinks, LosesNone
-----------------------------------------------------------------------------
(* What the call under way relies on is left to it by every other step.    *)
LEMMA CallStands ==
    ASSUME QInv, Shrinks(book, book'), LosesNone(book, book'), UNCHANGED <<lane, app, hand, holder>>,
           app = "displacing" => line' = line
    PROVE  CallFits'
<1>1. Windows' = Windows /\ book'.minted = book.minted
  BY DEF Windows, Shrinks
<1>2. Held \subseteq Held'
  BY DEF Held, LosesNone
<1>3. app = "displacing" => RelatedAt(hand.job)' = RelatedAt(hand.job)
  BY DEF RelatedAt, FirstOf, First, Relate
<1> QED BY <1>1, <1>2, <1>3 DEF QInv, CallFits

LEMMA WorkStands ==
    ASSUME QInv, TypeOK', OwedIsReachable', Shrinks(book, book'), LosesNone(book, book'),
           UNCHANGED <<lane, app, hand, holder, mark, todo, basket, pocket, shown>>,
           app = "displacing" => line' = line
    PROVE  QInv'
<1>1. CallFits'
  BY CallStands
<1>2. HoldersFit' /\ ShownFirst' /\ DrainFits' /\ AnswersInOrder'
  BY DrainStands
<1> QED BY <1>1, <1>2 DEF QInv, Shrinks

(* What the parts of the type say of the variables.                       *)
LEMMA TypedParts ==
    ASSUME QInv
    PROVE  /\ book \in Books /\ line \in Seq([id : Ids, job : Jobs])
           /\ current \in Ids \cup {NoId} /\ hand.id \in Ids \cup {NoId} /\ hand.job \in Jobs
           /\ holder \in [Ids -> Windows \cup {NoWindow}] /\ shown \in Seq(Ids)
           /\ pocket \subseteq Ids /\ basket \subseteq Ids /\ mark \in Ids \cup {NoId}
BY DEF QInv, TypeOK

LEMMA WorkQuietlyKeeps ==
    ASSUME QInv, Sleep \/ Stir \/ Wake \/ Announce \/ Skip \/ Begin
    PROVE  QInv'
<1>1. /\ UNCHANGED <<book, lane, line, closed, app, hand, holder, mark, todo, basket, pocket, shown>>
      /\ ringing' \in BOOLEAN /\ worker' \in WorkerPlaces
      /\ current' \in {current, NoId}
  BY DEF Sleep, Stir, Wake, Announce, Skip, Begin, NoId, lineVars, appVars, drainVars,
         WorkerPlaces, QInv, TypeOK
<1>2. TypeOK'
  BY <1>1
     DEF QInv, TypeOK, Windows, Jobs
<1>3. \/ worker \notin {"taken", "running"}
      \/ worker = "taken" /\ worker' = "running" /\ current' = current
      \/ worker = "taken" /\ current \notin Owed(book)
  BY DEF Sleep, Stir, Wake, Announce, Skip, Begin
<1>4. Operations(book) \subseteq Owed(book)
  BY DEF Operations
<1>5. OwedIsReachable'
  BY <1>1, <1>3, <1>4 DEF QInv, OwedIsReachable, InLine
<1> QED BY <1>1, <1>2, <1>5, SameShrinks, WorkStands

LEMMA TailIs ==
    ASSUME NEW T, NEW s \in Seq(T), s # <<>>
    PROVE  /\ Len(s) \in Nat \ {0} /\ Head(s) = s[1] /\ s[1] \in T
           /\ Tail(s) \in Seq(T) /\ Len(Tail(s)) = Len(s) - 1
           /\ \A k \in 1..(Len(s) - 1) : Tail(s)[k] = s[k + 1]
<1>1. Len(s) \in Nat \ {0} /\ Head(s) = s[1] /\ s[1] \in T
  OBVIOUS
<1>2. Tail(s) \in Seq(T) /\ Len(Tail(s)) = Len(s) - 1
  OBVIOUS
<1>3. \A k \in 1..(Len(s) - 1) : Tail(s)[k] = s[k + 1]
  BY <1>1
<1> QED BY <1>1, <1>2, <1>3

LEMMA PopKeeps ==
    ASSUME QInv, Pop
    PROVE  QInv'
<1>1. /\ UNCHANGED <<book, lane, closed, app, hand, holder, mark, todo, basket, pocket, shown,
                     ringing>>
      /\ app # "displacing" /\ line # <<>> /\ current' = Head(line).id /\ line' = Tail(line)
      /\ worker = "looking" /\ worker' = "taken"
  BY DEF Pop, LineLocked, appVars, drainVars
<1>2. line \in Seq([id : Ids, job : Jobs])
  BY TypedParts
<1>3. /\ Len(line) \in Nat \ {0} /\ Head(line) = line[1] /\ line[1] \in [id : Ids, job : Jobs]
      /\ line' \in Seq([id : Ids, job : Jobs]) /\ Len(line') = Len(line) - 1
      /\ \A k \in 1..(Len(line) - 1) : line'[k] = line[k + 1]
  <2> DEFINE T == [id : Ids, job : Jobs]
  <2>1. line \in Seq(T) /\ line # <<>>
    BY <1>1, <1>2
  <2> HIDE DEF T
  <2>2. /\ Len(line) \in Nat \ {0} /\ Head(line) = line[1] /\ line[1] \in T
        /\ Tail(line) \in Seq(T) /\ Len(Tail(line)) = Len(line) - 1
        /\ \A k \in 1..(Len(line) - 1) : Tail(line)[k] = line[k + 1]
    BY <2>1, TailIs, Zenon
  <2> QED BY <1>1, <2>2, Zenon DEF T
<1>5. TypeOK'
  BY <1>1, <1>3
     DEF QInv, TypeOK, Windows, Jobs, WorkerPlaces
<1>6. ASSUME NEW k \in 1..Len(line), k # 1
      PROVE  line[k].id \in InLine'
  <2>1. k - 1 \in 1..Len(line') /\ line'[k - 1] = line[k]
    BY <1>3, <1>6
  <2> QED BY <2>1 DEF InLine
<1>7. InLine \subseteq InLine' \cup {current'}
  BY <1>1, <1>3, <1>6 DEF InLine
<1>8. OwedIsReachable'
  BY <1>1, <1>7 DEF QInv, OwedIsReachable
<1> QED BY <1>1, <1>5, <1>8, SameShrinks, WorkStands

(* A publication that is accepted, and one that comes late.                *)
LEMMA PublishedOrNot ==
    ASSUME QInv, NEW id, NEW t \in Publishable,
           book' = IF PublishAccepted(book, id) THEN Published(book, id, t) ELSE book
    PROVE  Shrinks(book, book') /\ LosesNone(book, book') /\ id \notin Operations(book')
<1>1. CASE PublishAccepted(book, id)
  BY <1>1, PublishedShrinks DEF QInv
<1>2. CASE ~PublishAccepted(book, id)
  <2>1. id \notin Operations(book)
    BY <1>2 DEF PublishAccepted, Operations
  <2> QED BY <1>2, <2>1, SameShrinks
<1> QED BY <1>1, <1>2

LEMMA PublishKeeps ==
    ASSUME QInv, Publish
    PROVE  QInv'
<1>1. /\ UNCHANGED <<lane, line, closed, app, hand, holder, mark, todo, basket, pocket, shown,
                     ringing>>
      /\ worker = "running" /\ worker' = "waking" /\ current' = NoId
  BY DEF Publish, lineVars, appVars, drainVars
<1>2. PICK t \in Publishable :
          book' = IF PublishAccepted(book, current) THEN Published(book, current, t) ELSE book
  BY PlainTerminals DEF Publish
<1>3. Shrinks(book, book') /\ LosesNone(book, book') /\ current \notin Operations(book')
  BY <1>2, PublishedOrNot
<1>4. TypeOK'
  BY <1>1, <1>3
     DEF QInv, TypeOK, Windows, Jobs, WorkerPlaces, Shrinks, BookInv
<1>5. OwedIsReachable'
  BY <1>1, <1>3 DEF QInv, OwedIsReachable, InLine, Shrinks
<1> QED BY <1>1, <1>3, <1>4, <1>5, WorkStands

LEMMA EndsKeeps ==
    ASSUME QInv, Return \/ Panic
    PROVE  QInv'
<1>1. PICK cause \in Causes : Ends(cause)
  BY DEF Return, Panic, Causes
<1>2. /\ UNCHANGED <<lane, line, closed, app, hand, holder, mark, todo, basket, pocket, shown,
                     ringing>>
      /\ worker' \in {"ended", "announcing"} /\ current' = NoId
      /\ book' = WorkerEnded(book, cause)
  BY <1>1
     DEF Ends, lineVars, appVars, drainVars
<1>3. Shrinks(book, book') /\ LosesNone(book, book') /\ Operations(book') = {}
  BY <1>2, WorkerEndedShrinks DEF QInv
<1>4. TypeOK'
  BY <1>2, <1>3
     DEF QInv, TypeOK, Windows, Jobs, WorkerPlaces, Shrinks, BookInv
<1>5. OwedIsReachable'
  BY <1>3 DEF OwedIsReachable
<1> QED BY <1>2, <1>3, <1>4, <1>5, WorkStands
-----------------------------------------------------------------------------
(* The window thread's steps that change neither the book nor the line.    *)
LEMMA NoHandFits ==
    ASSUME QInv
    PROVE  /\ NoHand.id = NoId /\ ~NoHand.wake
           /\ NoHand \in [window : Windows \cup {NoWindow}, job : Jobs,
                                id : Ids \cup {NoId}, wake : BOOLEAN]
<1>1. Jobs # {}
  BY QueueAssumption DEF QInv, TypeOK, Jobs
<1>2. (CHOOSE j \in Jobs : TRUE) \in Jobs
  BY <1>1
<1> QED BY <1>2 DEF NoHand

LEMMA AppQuietlyKeeps ==
    ASSUME QInv,
           \/ \E w \in Windows, job \in Jobs : AskBegins(w, job)
           \/ AskRefused \/ Notify \/ WakeSelf
    PROVE  QInv'
<1>1. /\ UNCHANGED <<book, lane, line, closed, holder, mark, todo, basket, pocket, shown, current>>
      /\ ringing' \in BOOLEAN /\ worker' \in WorkerPlaces
      /\ worker' \in {"taken", "running"} <=> worker \in {"taken", "running"}
      /\ app \in {"idle", "asking", "notifying", "waking"}
      /\ app' \in {"idle", "asking", "notifying", "waking"}
  BY DEF AskBegins, AskRefused, Notify, WakeSelf, lineVars,
         drainVars, workVars, WorkerPlaces, QInv, TypeOK
<1>2. /\ hand' \in [window : Windows \cup {NoWindow}, job : Jobs,
                    id : Ids \cup {NoId}, wake : BOOLEAN]
      /\ app' = "asking" => book.minted < MaxMinted /\ hand'.window \in Windows
  <2>1. ASSUME NEW w \in Windows, NEW job \in Jobs, AskBegins(w, job)
        PROVE  <1>2!1 /\ <1>2!2
    BY <2>1, NoHandFits DEF AskBegins
  <2>2. CASE AskRefused \/ WakeSelf
    BY <2>2, NoHandFits DEF AskRefused, WakeSelf
  <2>3. CASE Notify
    BY <2>3, NoHandFits DEF Notify, QInv, TypeOK
  <2> QED BY <2>1, <2>2, <2>3
<1>3. TypeOK'
  BY <1>1, <1>2
     DEF QInv, TypeOK, Windows, Jobs, AppPlaces
<1>4. CallFits'
  BY <1>1, <1>2 DEF CallFits, Windows
<1>5. OwedIsReachable'
  BY <1>1 DEF QInv, OwedIsReachable, InLine
<1>6. HoldersFit' /\ ShownFirst' /\ DrainFits' /\ AnswersInOrder'
  BY <1>1, SameShrinks, DrainStands
<1> QED BY <1>1, <1>3, <1>4, <1>5, <1>6 DEF QInv

-----------------------------------------------------------------------------
(* An admission.                                                           *)
LEMMA AdmissionStands ==
    ASSUME QInv, app = "asking", app' # "draining", NEW with \in Ids \cup {NoId},
           Refusal(book, with) = "none", book' = Admitted(book, with),
           holder' = [holder EXCEPT ![NextId(book)] = hand.window],
           UNCHANGED <<lane, mark, todo, basket, pocket, shown>>,
           NEW id, id = NextId(book)
    PROVE  /\ id \in Ids /\ BookInv(book') /\ holder' \in [Ids -> Windows \cup {NoWindow}]
           /\ Operations(book') \subseteq Operations(book) \cup {id}
           /\ with # NoId => Operations(book') \subseteq Operations(book)
           /\ HoldersFit' /\ ShownFirst' /\ DrainFits' /\ AnswersInOrder'
<1>1. /\ BookInv(book) /\ book.minted < MaxMinted /\ hand.window \in Windows
      /\ book.minted \in Nat
  BY DEF QInv, CallFits, BookInv, Books
<1>2. /\ BookInv(book') /\ id = book.minted + 1 /\ id \in Ids /\ book'.minted = id
      /\ Entries(book') = Entries(book) \cup {id} /\ id \notin Entries(book)
      /\ Operations(book') \subseteq Operations(book) \cup {id}
      /\ with # NoId => Operations(book') \subseteq Operations(book)
      /\ \A i \in Ids : book.place[i] = "taken" => book'.place[i] = "taken"
  BY <1>1, AdmittedGrows
<1>3. basket = {} /\ basket' = {}
  BY DEF QInv, DrainFits
<1>4. /\ holder \in [Ids -> Windows \cup {NoWindow}]
      /\ pocket \subseteq Ids /\ shown \in Seq(Ids) /\ Windows' = Windows
  BY TypedParts DEF Windows
<1>5. holder' \in [Ids -> Windows \cup {NoWindow}]
  BY <1>1, <1>4
<1>6. ToCome' = ToCome \cup {id}
  BY <1>2 DEF ToCome
<1>7. HoldersFit'
  BY <1>1, <1>2, <1>3, <1>4, <1>6, OwedIsEntered DEF QInv, HoldersFit, ToCome
<1>8. Answers(basket) = {} /\ Answers(basket)' = {}
  BY <1>3 DEF Answers
<1>9. \A n \in 1..Len(shown) : shown[n] \in Nat
  <2>1. \A n \in 1..Len(shown) : shown[n] \in Ids
    BY <1>4
  <2> QED BY <2>1, IdsAreNatural
<1>10. ShownFirst'
  BY <1>1, <1>2, <1>6, <1>8, <1>9 DEF QInv, ShownFirst
<1>11. DrainFits' /\ AnswersInOrder'
  BY <1>3 DEF DrainFits, QInv, AnswersInOrder
<1> QED BY <1>2, <1>5, <1>7, <1>10, <1>11

(* The waiting job the asked one is related to.                            *)
LEMMA TheRelated ==
    ASSUME QInv, RelationOf(hand.job) # "Other"
    PROVE  /\ RelatedAt(hand.job) \in 1..Len(line)
           /\ line[RelatedAt(hand.job)] \in [id : Ids, job : Jobs]
<1>1. line \in Seq([id : Ids, job : Jobs])
  BY TypedParts
<1>2. RelatedAt(hand.job) \in 0..Len(line) /\ RelatedAt(hand.job) # 0
  BY <1>1, RelatedIs DEF RelationOf
<1> DEFINE T == [id : Ids, job : Jobs]
           n == RelatedAt(hand.job)
<1>3. line \in Seq(T) /\ n \in 1..Len(line)
  BY <1>1, <1>2
<1> HIDE DEF T, n
<1>4. line[n] \in T
  BY <1>3
<1> QED BY <1>3, <1>4 DEF T, n

LEMMA AskJoinsKeeps ==
    ASSUME QInv, AskJoins
    PROVE  QInv'
<1>1. PICK with : with = line[RelatedAt(hand.job)].id
  OBVIOUS
<1>2. /\ app = "asking" /\ app' = "idle" /\ Refusal(book, with) = "none"
      /\ book' = Admitted(book, with) /\ hand' = NoHand
      /\ holder' = [holder EXCEPT ![NextId(book)] = hand.window]
      /\ UNCHANGED <<lane, line, closed, mark, todo, basket, pocket, shown,
                     worker, current, ringing>>
  BY <1>1 DEF AskJoins, lineVars, drainVars, workVars
<1>3. with \in Ids /\ with # NoId
  BY <1>1, TheRelated, IdsAreNatural DEF AskJoins
<1>4. /\ BookInv(book') /\ holder' \in [Ids -> Windows \cup {NoWindow}]
      /\ Operations(book') \subseteq Operations(book)
      /\ HoldersFit' /\ ShownFirst' /\ DrainFits' /\ AnswersInOrder'
  BY <1>2, <1>3, AdmissionStands
<1>5. TypeOK'
  BY <1>2, <1>4, NoHandFits
     DEF QInv, TypeOK, Windows, Jobs, AppPlaces, BookInv
<1>6. CallFits'
  BY <1>2 DEF CallFits
<1>7. OwedIsReachable'
  BY <1>2, <1>4 DEF QInv, OwedIsReachable, InLine
<1> QED BY <1>4, <1>5, <1>6, <1>7 DEF QInv

(* A job put at the back of the line.                                      *)
LEMMA BackOfLine ==
    ASSUME NEW T, NEW s \in Seq(T), NEW e \in T
    PROVE  /\ Append(s, e) \in Seq(T) /\ Len(Append(s, e)) = Len(s) + 1 /\ Len(s) \in Nat
           /\ \A k \in 1..Len(s) : Append(s, e)[k] = s[k]
           /\ Append(s, e)[Len(s) + 1] = e
OBVIOUS

LEMMA Lined ==
    ASSUME NEW rest \in Seq([id : Ids, job : Jobs]), NEW id \in Ids, NEW job \in Jobs,
           line' = Append(rest, [id |-> id, job |-> job])
    PROVE  /\ line' \in Seq([id : Ids, job : Jobs])
           /\ id \in InLine'
           /\ \A k \in 1..Len(rest) : rest[k].id \in InLine'
<1> DEFINE T == [id : Ids, job : Jobs]
           e == [id |-> id, job |-> job]
<1>1. rest \in Seq(T) /\ e \in T /\ e.id = id /\ line' = Append(rest, e)
  OBVIOUS
<1> HIDE DEF T, e
<1>2. /\ line' \in Seq(T) /\ Len(line') = Len(rest) + 1 /\ Len(rest) \in Nat
      /\ \A k \in 1..Len(rest) : line'[k] = rest[k]
      /\ line'[Len(rest) + 1] = e
  BY <1>1, BackOfLine
<1>3. id \in InLine'
  BY <1>1, <1>2 DEF InLine
<1>4. ASSUME NEW k \in 1..Len(rest) PROVE rest[k].id \in InLine'
  BY <1>2, <1>4 DEF InLine
<1> QED BY <1>2, <1>3, <1>4 DEF T

LEMMA AskQueuesKeeps ==
    ASSUME QInv, AskQueues
    PROVE  QInv'
<1>1. PICK id : id = NextId(book)
  OBVIOUS
<1>2. /\ app = "asking" /\ app' = "notifying" /\ Refusal(book, NoId) = "none"
      /\ book' = Admitted(book, NoId)
      /\ holder' = [holder EXCEPT ![NextId(book)] = hand.window]
      /\ line' = Append(line, [id |-> id, job |-> hand.job])
      /\ UNCHANGED <<lane, hand, closed, mark, todo, basket, pocket, shown,
                     worker, current, ringing>>
  BY <1>1 DEF AskQueues, lineVars, drainVars, workVars
<1>3. /\ id \in Ids /\ BookInv(book') /\ holder' \in [Ids -> Windows \cup {NoWindow}]
      /\ Operations(book') \subseteq Operations(book) \cup {id}
      /\ HoldersFit' /\ ShownFirst' /\ DrainFits' /\ AnswersInOrder'
  BY <1>1, <1>2, AdmissionStands
<1>4. /\ line' \in Seq([id : Ids, job : Jobs]) /\ id \in InLine'
      /\ InLine \subseteq InLine'
  <2>1. line \in Seq([id : Ids, job : Jobs]) /\ hand.job \in Jobs
    BY TypedParts
  <2>2. /\ line' \in Seq([id : Ids, job : Jobs]) /\ id \in InLine'
        /\ \A k \in 1..Len(line) : line[k].id \in InLine'
    BY <1>2, <1>3, <2>1, Lined
  <2> QED BY <2>2 DEF InLine
<1>5. TypeOK'
  BY <1>2, <1>3, <1>4
     DEF QInv, TypeOK, Windows, Jobs, AppPlaces, BookInv
<1>6. CallFits'
  BY <1>2 DEF CallFits
<1>7. OwedIsReachable'
  BY <1>2, <1>3, <1>4 DEF QInv, OwedIsReachable
<1> QED BY <1>3, <1>5, <1>6, <1>7 DEF QInv

LEMMA AskDisplacesKeeps ==
    ASSUME QInv, AskDisplaces
    PROVE  QInv'
<1>1. PICK id : id = NextId(book)
  OBVIOUS
<1>2. /\ app = "asking" /\ app' = "displacing" /\ Refusal(book, NoId) = "none"
      /\ book' = Admitted(book, NoId) /\ hand' = [hand EXCEPT !.id = id]
      /\ holder' = [holder EXCEPT ![NextId(book)] = hand.window]
      /\ UNCHANGED <<lane, line, closed, mark, todo, basket, pocket, shown,
                     worker, current, ringing>>
  BY <1>1 DEF AskDisplaces, lineVars, drainVars, workVars
<1>3. /\ id \in Ids /\ BookInv(book') /\ holder' \in [Ids -> Windows \cup {NoWindow}]
      /\ Operations(book') \subseteq Operations(book) \cup {id}
      /\ HoldersFit' /\ ShownFirst' /\ DrainFits' /\ AnswersInOrder'
  BY <1>1, <1>2, AdmissionStands
<1>4. /\ hand' \in [window : Windows \cup {NoWindow}, job : Jobs,
                    id : Ids \cup {NoId}, wake : BOOLEAN]
      /\ hand'.id = id /\ hand'.job = hand.job
  BY <1>2, <1>3 DEF QInv, TypeOK
<1>5. TypeOK'
  BY <1>2, <1>3, <1>4
     DEF QInv, TypeOK, Windows, Jobs, AppPlaces, BookInv
<1>6. RelatedAt(hand.job)' = RelatedAt(hand.job)
  BY <1>2, <1>4 DEF RelatedAt, FirstOf, First, Relate
<1>7. RelatedAt(hand.job) # 0
  BY DEF AskDisplaces, RelationOf
<1>8. CallFits'
  BY <1>2, <1>3, <1>4, <1>6, <1>7 DEF CallFits
<1>9. OwedIsReachable'
  BY <1>2, <1>3, <1>4 DEF QInv, OwedIsReachable, InLine
<1> QED BY <1>3, <1>5, <1>8, <1>9 DEF QInv
-----------------------------------------------------------------------------
(* A job out of the line, by a displacement or a withdrawal.               *)
LEMMA DisplaceKeeps ==
    ASSUME QInv, Displace
    PROVE  QInv'
<1> DEFINE n == RelatedAt(hand.job)
           rest == LineWithout(n)
           displaced == line[n].id
<1>1. /\ app = "displacing" /\ app' = "notifying" /\ hand.id \in Ids
      /\ line' = Append(rest, [id |-> hand.id, job |-> hand.job])
      /\ book' = IF PublishAccepted(book, displaced)
                 THEN Published(book, displaced, Superseded(hand.id)) ELSE book
      /\ hand' = [hand EXCEPT !.wake = TRUE]
      /\ UNCHANGED <<lane, closed, holder, mark, todo, basket, pocket, shown,
                     worker, current, ringing>>
  BY DEF Displace, drainVars, workVars, QInv, CallFits
<1>2. /\ line \in Seq([id : Ids, job : Jobs]) /\ hand.job \in Jobs
  BY TypedParts
<1>3. n \in 0..Len(line) /\ n # 0
  BY <1>1, <1>2, RelatedIs DEF QInv, CallFits
<1>4. Superseded(hand.id) \in Publishable
  BY <1>1, PlainTerminals
<1> HIDE DEF n, rest, displaced
<1>5. Shrinks(book, book') /\ displaced \notin Operations(book')
  BY <1>1, <1>4, PublishedOrNot
<1>6. rest \in Seq([id : Ids, job : Jobs])
  BY <1>2, <1>3, WithoutIs DEF rest
<1>7. /\ line' \in Seq([id : Ids, job : Jobs]) /\ hand.id \in InLine'
      /\ \A k \in 1..Len(rest) : rest[k].id \in InLine'
  BY <1>1, <1>2, <1>6, Lined
<1>8. ASSUME NEW i \in InLine, i # displaced
      PROVE  i \in InLine'
  <2>1. PICK at \in 1..Len(rest) : rest[at].id = i
    BY <1>2, <1>3, <1>8, WithoutKeeps DEF rest, displaced
  <2> QED BY <1>7, <2>1
<1>9. TypeOK'
  BY <1>1, <1>5, <1>7
     DEF QInv, TypeOK, Windows, Jobs, AppPlaces, BookInv, Shrinks
<1>10. CallFits'
  BY <1>1 DEF CallFits
<1>11. OwedIsReachable'
  BY <1>1, <1>5, <1>7, <1>8 DEF QInv, OwedIsReachable, Shrinks
<1>12. HoldersFit' /\ ShownFirst' /\ DrainFits' /\ AnswersInOrder'
  BY <1>1, <1>5, DrainStands
<1> QED BY <1>5, <1>9, <1>10, <1>11, <1>12 DEF QInv, Shrinks

LEMMA WithdrawBeginsKeeps ==
    ASSUME QInv, NEW id \in Ids, WithdrawBegins(id)
    PROVE  QInv'
<1> DEFINE n == PlaceInLine(id)
           rest == LineWithout(n)
<1>1. /\ app = "idle" /\ id \in Held /\ line' = rest
      /\ hand' = [NoHand EXCEPT !.id = id]
      /\ app' \in {"withdrawing", "superseding"} /\ (app' = "superseding" => id < book.minted)
      /\ UNCHANGED <<book, lane, closed, holder, mark, todo, basket, pocket, shown,
                     worker, current, ringing>>
  BY DEF WithdrawBegins, drainVars, workVars
<1>2. line \in Seq([id : Ids, job : Jobs])
  BY TypedParts
<1>3. n \in 0..Len(line) /\ (n # 0 => line[n].id = id)
  BY <1>2, PlaceIs
<1> HIDE DEF n, rest
<1>4. line' \in Seq([id : Ids, job : Jobs])
  BY <1>1, <1>2, <1>3, WithoutIs DEF rest
<1>5. ASSUME NEW i \in InLine, i # id
      PROVE  i \in InLine'
  <2>1. PICK at \in 1..Len(rest) : rest[at].id = i
    BY <1>2, <1>3, <1>5, WithoutKeeps DEF rest
  <2> QED BY <1>1, <2>1 DEF InLine
<1>6. /\ hand' \in [window : Windows \cup {NoWindow}, job : Jobs,
                    id : Ids \cup {NoId}, wake : BOOLEAN]
      /\ hand'.id = id
  BY <1>1, NoHandFits
<1>7. TypeOK'
  BY <1>1, <1>4, <1>6
     DEF QInv, TypeOK, Windows, Jobs, AppPlaces
<1>8. Held' = Held
  BY <1>1 DEF Held, Entries
<1>9. CallFits'
  BY <1>1, <1>6, <1>8 DEF CallFits
<1>10. OwedIsReachable'
  BY <1>1, <1>5, <1>6 DEF QInv, OwedIsReachable
<1>11. HoldersFit' /\ ShownFirst' /\ DrainFits' /\ AnswersInOrder'
  BY <1>1, SameShrinks, DrainStands
<1> QED BY <1>1, <1>7, <1>9, <1>10, <1>11 DEF QInv

(* The terminal a withdrawal publishes.                                    *)
LEMMA AskerEndsKeeps ==
    ASSUME QInv, WithdrawEnds \/ SupersedeEnds
    PROVE  QInv'
<1>1. /\ UNCHANGED <<lane, line, closed, hand, holder, mark, todo, basket, pocket, shown,
                     worker, current, ringing>>
      /\ app \in {"withdrawing", "superseding"} /\ app' \in {"letting_go", "taking"}
  BY DEF WithdrawEnds, SupersedeEnds, lineVars, drainVars, workVars
<1>2. hand.id \in Held
  BY <1>1 DEF QInv, CallFits
<1>3. PICK t \in Publishable :
          book' = IF PublishAccepted(book, hand.id) THEN Published(book, hand.id, t) ELSE book
  <2>1. CASE WithdrawEnds
    BY <2>1, PlainTerminals
       DEF WithdrawEnds, PublishedByAsker
  <2>2. CASE SupersedeEnds
    <3>1. book.minted \in 0..MaxMinted /\ hand.id \in Ids /\ hand.id < book.minted
      BY <1>2, <2>2, OwedIsEntered
         DEF SupersedeEnds, QInv, CallFits, BookInv, Books, Held
    <3>2. book.minted \in Ids
      BY <3>1, IdsAreNatural DEF Ids
    <3> QED BY <2>2, <3>2, PlainTerminals
            DEF SupersedeEnds, PublishedByAsker
  <2> QED BY <2>1, <2>2
<1>4. Shrinks(book, book') /\ LosesNone(book, book') /\ hand.id \notin Operations(book')
  BY <1>3, PublishedOrNot
<1>5. hand.id \in Held'
  BY <1>1, <1>2, <1>4 DEF Held, LosesNone
<1>6. TypeOK'
  BY <1>1, <1>4
     DEF QInv, TypeOK, Windows, Jobs, AppPlaces, BookInv, Shrinks
<1>7. CallFits'
  BY <1>1, <1>5 DEF CallFits
<1>8. OwedIsReachable'
  BY <1>1, <1>4 DEF QInv, OwedIsReachable, InLine, Shrinks
<1>9. HoldersFit' /\ ShownFirst' /\ DrainFits' /\ AnswersInOrder'
  BY <1>1, <1>4, DrainStands
<1> QED BY <1>4, <1>6, <1>7, <1>8, <1>9 DEF QInv, Shrinks

(* A request let go, by its withdrawal or with its window.                 *)
LEMMA DropKeeps ==
    ASSUME QInv,
           WithdrawLetsGo \/ \E id \in Ids : LetGo(id)
    PROVE  QInv'
<1>1. /\ UNCHANGED <<lane, line, closed, holder, mark, todo, basket, pocket, shown,
                     worker, current, ringing>>
      /\ app \in {"letting_go", "idle", "dropped"} /\ app' \in {"idle", "dropped"}
      /\ hand' \in {hand, NoHand}
      /\ \E id \in Held : book' = Dropped(book, id)
  <2>1. CASE WithdrawLetsGo
    BY <2>1
       DEF WithdrawLetsGo, lineVars, drainVars, workVars, QInv, CallFits
  <2>2. ASSUME NEW id \in Ids, LetGo(id) PROVE <1>1!1 /\ <1>1!2 /\ <1>1!3 /\ <1>1!4
    BY <2>2
       DEF LetGo, lineVars, appVars, drainVars, workVars
  <2> QED BY <2>1, <2>2
<1>2. Shrinks(book, book')
  BY <1>1, DroppedShrinks DEF Held, QInv
<1>3. TypeOK'
  BY <1>1, <1>2, NoHandFits
     DEF QInv, TypeOK, Windows, Jobs, AppPlaces, BookInv, Shrinks
<1>4. CallFits'
  BY <1>1 DEF CallFits
<1>5. OwedIsReachable'
  BY <1>1, <1>2 DEF QInv, OwedIsReachable, InLine, Shrinks
<1>6. HoldersFit' /\ ShownFirst' /\ DrainFits' /\ AnswersInOrder'
  BY <1>1, <1>2, DrainStands
<1> QED BY <1>2, <1>3, <1>4, <1>5, <1>6 DEF QInv, Shrinks
-----------------------------------------------------------------------------
(* What is answered of a drain, or of a replacement, in its turn.          *)
LEMMA CloseKeeps ==
    ASSUME QInv, Close
    PROVE  QInv'
<1>1. /\ UNCHANGED <<book, lane, line, hand, holder, mark, todo, basket, shown, current, ringing>>
      /\ app = "idle" /\ app' = "dropped" /\ pocket' = {} /\ closed' = TRUE
      /\ worker' \in WorkerPlaces
      /\ worker' \in {"taken", "running"} <=> worker \in {"taken", "running"}
  BY DEF Close, WorkerPlaces, QInv, TypeOK
<1>2. TypeOK'
  BY <1>1 DEF QInv, TypeOK, Windows, Jobs, AppPlaces
<1>3. ToCome' \subseteq ToCome /\ Answers(basket)' = Answers(basket)
      /\ Windows' = Windows
  BY <1>1 DEF ToCome, Entries, Answers, Windows
<1>4. HoldersFit' /\ ShownFirst' /\ DrainFits' /\ CallFits' /\ AnswersInOrder'
  BY <1>1, <1>3 DEF QInv, HoldersFit, ShownFirst, DrainFits, CallFits, AnswersInOrder
<1>5. OwedIsReachable'
  BY <1>1 DEF QInv, OwedIsReachable, InLine
<1> QED BY <1>1, <1>2, <1>4, <1>5 DEF QInv

LEMMA SupersedeTakesKeeps ==
    ASSUME QInv, SupersedeTakes
    PROVE  QInv'
<1> DEFINE id == hand.id
<1>1. /\ UNCHANGED <<lane, line, closed, holder, mark, todo, basket, shown, worker, current, ringing>>
      /\ app = "taking" /\ app' = "idle" /\ id \in Kept(book) /\ hand' = NoHand
      /\ book' = Taken(book, id) /\ pocket' = pocket \cup {id}
  BY DEF SupersedeTakes, lineVars, workVars
<1> HIDE DEF id
<1>2. /\ Shrinks(book, book') /\ Entries(book') = Entries(book) \ {id}
      /\ book'.place[id] = "taken" /\ book'.terminal = book.terminal
  BY <1>1, TakenShrinks DEF QInv
<1>3. id \in Entries(book) /\ id \in Ids /\ basket = {} /\ pocket \subseteq Ids
  BY <1>1, OwedIsEntered, TypedParts DEF QInv, DrainFits
<1>4. TypeOK'
  BY <1>1, <1>2, <1>3, NoHandFits
     DEF QInv, TypeOK, Windows, Jobs, AppPlaces, BookInv, Shrinks
<1>5. ToCome' \subseteq ToCome /\ Answers(basket)' = {} /\ Windows' = Windows
  BY <1>1, <1>2, <1>3 DEF ToCome, Answers, Windows
<1>6. HoldersFit'
  BY <1>1, <1>2, <1>3, <1>5 DEF QInv, HoldersFit, Shrinks
<1>7. ShownFirst'
  BY <1>1, <1>2, <1>5 DEF QInv, ShownFirst, Shrinks
<1>8. DrainFits' /\ CallFits' /\ AnswersInOrder'
  BY <1>1, <1>3 DEF QInv, DrainFits, CallFits, AnswersInOrder
<1>9. OwedIsReachable'
  BY <1>1, <1>2 DEF QInv, OwedIsReachable, InLine, Shrinks
<1> QED BY <1>2, <1>4, <1>6, <1>7, <1>8, <1>9 DEF QInv, Shrinks

(* The mark is the earliest owed: nothing owed is below it.                *)
LEMMA DrainBeginsKeeps ==
    ASSUME QInv, DrainBegins
    PROVE  QInv'
<1>1. /\ UNCHANGED <<book, lane, line, closed, hand, holder, basket, pocket, shown, worker, current>>
      /\ app = "idle" /\ app' = "draining" /\ ringing' = FALSE
      /\ mark' = EarliestOwed(book) /\ todo' = Windows
  BY DEF DrainBegins, lineVars, workVars
<1>2. /\ EarliestOwed(book) \in Ids \cup {NoId}
      /\ \A i \in Owed(book) : EarliestOwed(book) # NoId /\ EarliestOwed(book) <= i
  BY EarliestOwedIs DEF QInv
<1>3. TypeOK'
  BY <1>1, <1>2 DEF QInv, TypeOK, Windows, Jobs, AppPlaces
<1>4. basket = {} /\ Answers(basket) = {} /\ Answers(basket)' = {}
      /\ ToCome' = ToCome /\ Windows' = Windows /\ Owed(book)' = Owed(book)
  BY <1>1 DEF QInv, DrainFits, Answers, ToCome, Windows
<1>5. HoldersFit' /\ ShownFirst' /\ CallFits' /\ AnswersInOrder'
  BY <1>1, <1>4 DEF QInv, HoldersFit, ShownFirst, CallFits, AnswersInOrder
<1>6. DrainFits'
  BY <1>1, <1>2, <1>4 DEF QInv, HoldersFit, DrainFits
<1>7. OwedIsReachable'
  BY <1>1 DEF QInv, OwedIsReachable, InLine
<1> QED BY <1>1, <1>3, <1>5, <1>6, <1>7 DEF QInv

LEMMA DrainTakesKeeps ==
    ASSUME QInv, NEW w \in Windows, DrainTakes(w)
    PROVE  QInv'
<1>1. PICK i \in Takeable(w) : book' = Taken(book, i) /\ basket' = basket \cup {i}
  BY DEF DrainTakes
<1>2. /\ UNCHANGED <<lane, line, closed, app, hand, holder, mark, todo, pocket, shown,
                     worker, current, ringing>>
      /\ app = "draining"
  BY DEF DrainTakes, lineVars, appVars, workVars
<1>3. /\ i \in Kept(book) /\ i \in Entries(book) /\ i \in Ids
      /\ Below(mark, i) \/ book.terminal[i].kind = "Superseded"
  BY <1>1, OwedIsEntered
     DEF Takeable, MayTake, Held
<1>4. /\ Shrinks(book, book') /\ Entries(book') = Entries(book) \ {i}
      /\ book'.place[i] = "taken" /\ book'.terminal = book.terminal
  BY <1>1, <1>3, TakenShrinks DEF QInv
<1>5. TypeOK'
  BY <1>1, <1>2, <1>3, <1>4
     DEF QInv, TypeOK, Windows, Jobs, AppPlaces, BookInv, Shrinks
<1>6. /\ ToCome' \subseteq ToCome /\ i \in ToCome /\ Windows' = Windows
      /\ \A j \in Answers(basket)' :
            j \in Answers(basket) \/ (j = i /\ Below(mark, i))
  BY <1>1, <1>2, <1>3, <1>4 DEF ToCome, Answers, Windows
<1>7. HoldersFit'
  BY <1>1, <1>2, <1>4, <1>6, TypedParts DEF QInv, HoldersFit, Shrinks
<1>8. ShownFirst'
  BY <1>2, <1>4, <1>6 DEF QInv, ShownFirst, Shrinks
<1>9. DrainFits'
  BY <1>2, <1>4, <1>6 DEF QInv, DrainFits, Shrinks, Below
<1>10. CallFits' /\ AnswersInOrder'
  BY <1>2 DEF QInv, CallFits, AnswersInOrder
<1>11. OwedIsReachable'
  BY <1>2, <1>4 DEF QInv, OwedIsReachable, InLine, Shrinks
<1> QED BY <1>4, <1>5, <1>7, <1>8, <1>9, <1>10, <1>11 DEF QInv, Shrinks

(* A window left: nothing below the mark stays behind with it.             *)
LEMMA DrainLeavesKeeps ==
    ASSUME QInv, NEW w \in Windows, DrainLeaves(w)
    PROVE  QInv'
<1> DEFINE turned == {i \in pocket : holder[i] = w /\ Below(mark, i)}
<1>1. /\ UNCHANGED <<book, lane, line, closed, app, hand, holder, mark, shown,
                     worker, current, ringing>>
      /\ app = "draining" /\ Takeable(w) = {}
      /\ basket' = basket \cup turned /\ pocket' = pocket \ turned /\ todo' = todo \ {w}
  BY DEF DrainLeaves, lineVars, appVars, workVars
<1>2. /\ turned \subseteq pocket /\ \A i \in turned : Below(mark, i)
      /\ \A i \in pocket : holder[i] = w /\ Below(mark, i) => i \in turned
  OBVIOUS
<1> HIDE DEF turned
<1>3. NoWindow \notin Windows
  BY QueueAssumption DEF QInv, TypeOK, Windows
<1>4. TypeOK'
  BY <1>1, <1>2
     DEF QInv, TypeOK, Windows, Jobs, AppPlaces
<1>5. /\ ToCome' \subseteq ToCome /\ Windows' = Windows
      /\ \A i \in Answers(basket)' : i \in Answers(basket) \/ i \in turned
      /\ pocket \subseteq ToCome
  BY <1>1, <1>2 DEF ToCome, Answers, Windows
<1>6. ASSUME NEW i \in Entries(book), Below(mark, i) PROVE holder[i] # w
  <2>1. i \in Ids /\ (i \in Owed(book) => mark # NoId /\ mark <= i)
    BY <1>1, OwedIsEntered DEF QInv, DrainFits
  <2>2. mark \in Ids \cup {NoId}
    BY TypedParts
  <2>3. i \in Kept(book)
    BY <1>6, <2>1, <2>2, OwedIsEntered, IdsAreNatural DEF Below
  <2>4. ~book.gone[i]
    BY <2>1, <2>3 DEF QInv, BookInv, PlacedByRequester, Kept
  <2> QED BY <1>1, <1>3, <1>6, <2>3, <2>4
          DEF Takeable, MayTake, Held
<1>7. HoldersFit'
  BY <1>1, <1>2, <1>5 DEF QInv, HoldersFit
<1>8. ShownFirst'
  BY <1>1, <1>2, <1>5 DEF QInv, ShownFirst
<1>9. DrainFits'
  <2>1. ASSUME NEW i \in ToCome', Below(mark, i) PROVE holder[i] \in todo'
    BY <1>1, <1>2, <1>5, <1>6, <2>1 DEF QInv, DrainFits, ToCome
  <2>2. \A i \in Answers(basket)' : Below(mark, i)
    BY <1>1, <1>2, <1>5 DEF QInv, DrainFits
  <2> QED BY <1>1, <2>1, <2>2 DEF QInv, DrainFits, Below
<1>10. CallFits' /\ AnswersInOrder'
  BY <1>1 DEF QInv, CallFits, AnswersInOrder
<1>11. OwedIsReachable'
  BY <1>1 DEF QInv, OwedIsReachable, InLine
<1> QED BY <1>1, <1>4, <1>7, <1>8, <1>9, <1>10, <1>11 DEF QInv

(* The least of what is to be answered precedes what is still to come, for *)
(* nothing below the mark is.                                              *)
LEMMA DrainAnswersKeeps ==
    ASSUME QInv, DrainAnswers
    PROVE  QInv'
<1>1. PICK i \in Answers(basket) : /\ \A j \in Answers(basket) : i <= j
                                         /\ shown' = Append(shown, i) /\ basket' = basket \ {i}
  BY DEF DrainAnswers, First
<1>2. /\ UNCHANGED <<book, lane, line, closed, app, hand, holder, mark, todo, pocket,
                     worker, current, ringing>>
      /\ app = "draining" /\ todo = {}
  BY DEF DrainAnswers, lineVars, appVars, workVars
<1>3. /\ shown \in Seq(Ids) /\ basket \subseteq Ids /\ pocket \subseteq Ids /\ i \in basket
      /\ mark \in Ids \cup {NoId}
  BY <1>1, TypedParts DEF Answers
<1>4. /\ shown' \in Seq(Ids) /\ Len(shown') = Len(shown) + 1 /\ Len(shown) \in Nat
      /\ \A n \in 1..Len(shown) : shown'[n] = shown[n]
      /\ shown'[Len(shown) + 1] = i
  BY <1>1, <1>3, BackOfLine
<1>5. TypeOK'
  BY <1>1, <1>2, <1>3, <1>4
     DEF QInv, TypeOK, Windows, Jobs, AppPlaces
<1>6. /\ ToCome' = ToCome /\ Windows' = Windows
      /\ \A j \in Answers(basket)' : j \in Answers(basket) /\ j # i
  BY <1>1, <1>2 DEF ToCome, Answers, Windows
<1>7. ASSUME NEW j \in ToCome \cup Answers(basket)' PROVE i < j
  <2>1. Below(mark, i) /\ \A k \in ToCome : ~Below(mark, k)
    BY <1>1, <1>2 DEF QInv, DrainFits
  <2>2. ToCome \subseteq Ids /\ Answers(basket) \subseteq Ids
    BY <1>3, OwedIsEntered DEF ToCome, Answers
  <2>3. j \in Ids /\ i \in Ids
    BY <1>3, <1>6, <2>2
  <2>4. CASE j \in ToCome
    BY <1>3, <2>1, <2>3, <2>4, IdsAreNatural DEF Below
  <2>5. CASE j \in Answers(basket)'
    <3>1. i <= j /\ j # i
      BY <1>1, <1>6, <2>5
    <3> QED BY <2>3, <3>1, IdsAreNatural
  <2> QED BY <2>4, <2>5
<1>8. i <= book.minted
  <2>1. book.place[i] = "taken" /\ i \in Ids /\ book.minted \in Nat
    BY <1>3 DEF QInv, HoldersFit, BookInv, Books
  <2> QED BY <2>1, IdsAreNatural DEF QInv, BookInv, MintedInOrder
<1>9. HoldersFit'
  BY <1>1, <1>2, <1>6 DEF QInv, HoldersFit
<1>10. ShownFirst'
  <2> SUFFICES ASSUME NEW n \in 1..Len(shown')
               PROVE  /\ shown'[n] <= book.minted
                      /\ \A j \in ToCome \cup Answers(basket)' : shown'[n] < j
    BY <1>2, <1>6 DEF ShownFirst
  <2>1. CASE n \in 1..Len(shown)
    BY <1>4, <1>6, <2>1 DEF QInv, ShownFirst
  <2>2. CASE n = Len(shown) + 1
    BY <1>4, <1>7, <1>8, <2>2
  <2> QED BY <1>4, <2>1, <2>2
<1>11. AnswersInOrder'
  <2> SUFFICES ASSUME NEW m \in 1..Len(shown'), NEW n \in 1..Len(shown'), m < n
               PROVE  shown'[m] < shown'[n]
    BY DEF AnswersInOrder
  <2>1. m \in 1..Len(shown)
    BY <1>4
  <2>2. CASE n \in 1..Len(shown)
    BY <1>4, <2>1, <2>2 DEF QInv, AnswersInOrder
  <2>3. CASE n = Len(shown) + 1
    BY <1>1, <1>4, <2>1, <2>3 DEF QInv, ShownFirst
  <2> QED BY <1>4, <2>2, <2>3
<1>12. DrainFits' /\ CallFits'
  BY <1>2, <1>6 DEF QInv, DrainFits, CallFits, Below
<1>13. OwedIsReachable'
  BY <1>2 DEF QInv, OwedIsReachable, InLine
<1> QED BY <1>2, <1>5, <1>9, <1>10, <1>11, <1>12, <1>13 DEF QInv

LEMMA DrainEndsKeeps ==
    ASSUME QInv, DrainEnds
    PROVE  QInv'
<1>1. /\ UNCHANGED <<book, lane, line, closed, hand, holder, todo, pocket, shown,
                     worker, current, ringing>>
      /\ app = "draining" /\ app' = "idle" /\ basket' = {} /\ mark' = NoId
  BY DEF DrainEnds, lineVars, workVars
<1>2. TypeOK'
  BY <1>1 DEF QInv, TypeOK, Windows, Jobs, AppPlaces
<1>3. ToCome' = ToCome /\ Answers(basket)' = {} /\ Windows' = Windows
  BY <1>1 DEF ToCome, Answers, Windows
<1>4. HoldersFit' /\ ShownFirst' /\ DrainFits' /\ CallFits' /\ AnswersInOrder'
  BY <1>1, <1>3 DEF QInv, HoldersFit, ShownFirst, DrainFits, CallFits, AnswersInOrder
<1>5. OwedIsReachable'
  BY <1>1 DEF QInv, OwedIsReachable, InLine
<1> QED BY <1>1, <1>2, <1>4, <1>5 DEF QInv
-----------------------------------------------------------------------------
LEMMA QueueInitInv ==
    ASSUME Init
    PROVE  QInv
<1>1. /\ lane \in DOMAIN Policies /\ book = EmptyBook /\ line = <<>> /\ closed = FALSE
      /\ app = "idle" /\ hand = NoHand /\ holder = [i \in Ids |-> NoWindow]
      /\ worker = "unstarted" /\ current = NoId /\ ringing = FALSE
      /\ mark = NoId /\ todo = {} /\ basket = {} /\ pocket = {} /\ shown = <<>>
  BY DEF Init
<1>2. BookInv(book) /\ book \in Books /\ Owed(book) = {} /\ Entries(book) = {}
  BY <1>1, EmptyBookInv DEF BookInv, EmptyBook, Owed, Entries
<1>3. Jobs # {}
  BY <1>1, QueueAssumption DEF Jobs
<1>4. hand \in [window : Windows \cup {NoWindow}, job : Jobs,
                id : Ids \cup {NoId}, wake : BOOLEAN]
  BY <1>1, <1>3 DEF NoHand
<1>5. TypeOK
  <2>1. line \in Seq([id : Ids, job : Jobs]) /\ shown \in Seq(Ids)
    BY <1>1
  <2>2. holder \in [Ids -> Windows \cup {NoWindow}]
    BY <1>1
  <2>3. \E l \in DOMAIN Policies : lane = l
    BY <1>1
  <2> QED BY <1>1, <1>2, <1>4, <2>1, <2>2, <2>3
          DEF TypeOK, AppPlaces, WorkerPlaces
<1>6. CallFits /\ HoldersFit /\ ShownFirst /\ DrainFits
  BY <1>1, <1>2 DEF CallFits, HoldersFit, ShownFirst, DrainFits, ToCome
<1>7. OwedIsReachable /\ AnswersInOrder
  BY <1>1, <1>2 DEF OwedIsReachable, AnswersInOrder, Operations
<1> QED BY <1>2, <1>5, <1>6, <1>7 DEF QInv

LEMMA QueueStands ==
    ASSUME QInv, UNCHANGED vars
    PROVE  QInv'
<1>1. /\ UNCHANGED <<book, lane, line, closed, app, hand, holder, mark, todo, basket, pocket, shown,
                     worker, current, ringing>>
  BY DEF vars, lineVars, appVars, drainVars, workVars
<1>2. TypeOK'
  BY <1>1 DEF QInv, TypeOK, Windows, Jobs
<1>3. OwedIsReachable'
  BY <1>1 DEF QInv, OwedIsReachable, InLine
<1> QED BY <1>1, <1>2, <1>3, SameShrinks, WorkStands

LEMMA QueueNextInv ==
    ASSUME QInv, [Next]_(vars)
    PROVE  QInv'
<1>1. CASE AppChooses
  <2>1. ASSUME NEW w \in Windows, NEW job \in Jobs, AskBegins(w, job) PROVE QInv'
    BY <2>1, AppQuietlyKeeps
  <2>2. ASSUME NEW id \in Ids, WithdrawBegins(id) \/ LetGo(id) PROVE QInv'
    BY <2>2, WithdrawBeginsKeeps, DropKeeps
  <2> QED BY <1>1, <2>1, <2>2, CloseKeeps DEF AppChooses
<1>2. CASE AppGoesOn
  <2>1. CASE \/ AskRefused \/ AskJoins \/ AskQueues \/ AskDisplaces
             \/ Displace \/ Notify \/ WakeSelf
    BY <2>1, AppQuietlyKeeps, AskJoinsKeeps, AskQueuesKeeps, AskDisplacesKeeps, DisplaceKeeps
  <2>2. CASE \/ WithdrawEnds \/ WithdrawLetsGo \/ SupersedeEnds
             \/ SupersedeTakes
    BY <2>2, AskerEndsKeeps, DropKeeps, SupersedeTakesKeeps
  <2>3. CASE DrainBegins \/ DrainAnswers \/ DrainEnds
    BY <2>3, DrainBeginsKeeps, DrainAnswersKeeps, DrainEndsKeeps
  <2>4. ASSUME NEW w \in Windows, DrainTakes(w) \/ DrainLeaves(w) PROVE QInv'
    BY <2>4, DrainTakesKeeps, DrainLeavesKeeps
  <2> QED BY <1>2, <2>1, <2>2, <2>3, <2>4 DEF AppGoesOn
<1>3. CASE WorkerGoesOn \/ Stir \/ Panic
  BY <1>3, WorkQuietlyKeeps, PopKeeps, PublishKeeps, EndsKeeps DEF WorkerGoesOn
<1>4. CASE UNCHANGED vars
  BY <1>4, QueueStands
<1> QED BY <1>1, <1>2, <1>3, <1>4 DEF Next

LEMMA QueueInvariance == Spec => []QInv
<1>1. Init => QInv
  BY QueueInitInv
<1>2. QInv /\ [Next]_(vars) => QInv'
  BY QueueNextInv
<1> QED BY <1>1, <1>2, PTL DEF Spec

(* Every state of the queue, whatever the policies of its lane, is of its  *)
(* type.                                                                   *)
THEOREM QueueTypeCorrect == Spec => []TypeOK
<1>1. QInv => TypeOK
  BY DEF QInv
<1> QED BY <1>1, QueueInvariance, PTL

(* No operation is stranded: however requests join, displace and are       *)
(* withdrawn, and whenever the worker takes, answers or ends, what is owed *)
(* is in line, with the worker, or in the hand of the call that admitted   *)
(* or is ending it.                                                        *)
THEOREM OwedReachable == Spec => []OwedIsReachable
<1>1. QInv => OwedIsReachable
  BY DEF QInv
<1> QED BY <1>1, QueueInvariance, PTL

(* The answers reach the windows in the order their requests were          *)
(* admitted, whatever is published between two windows of one drain.       *)
THEOREM AnsweredInOrder == Spec => []AnswersInOrder
<1>1. QInv => AnswersInOrder
  BY DEF QInv
<1> QED BY <1>1, QueueInvariance, PTL
-----------------------------------------------------------------------------
(* The queue implements the seam's promise too: here requests are let go,  *)
(* so that what ends with its requester gone is sunk in the same step.     *)
(* What the promise sees of the queue.                                     *)
StagesNow   == [i \in Ids |-> StageOf(i)]
HeldNow     == [i \in Ids |-> ~book.gone[i]]
OutcomesNow == [i \in Ids |-> Outcome(book.terminal[i])]
OpenNow     == book.fault = NoFault

LEMMA QueueUnseen ==
    ASSUME UNCHANGED book
    PROVE  UNCHANGED Promise!vars
BY DEF Promise!vars, StageOf, Outcome

LEMMA QueueInitRefines == Init => Promise!Init
<1> SUFFICES ASSUME Init PROVE Promise!Init
  OBVIOUS
<1>1. /\ book.minted = 0 /\ book.fault = NoFault
      /\ \A i \in Ids : book.place[i] = "unminted" /\ ~book.gone[i] /\ book.terminal[i] = Unended
  BY DEF Init, EmptyBook
<1>2. \A i \in Ids : StageOf(i) = "unasked" /\ Outcome(book.terminal[i]) = Unended
  BY <1>1 DEF StageOf, Outcome, Unended
<1>3. Unended = Unended
  BY DEF Unended
<1>4. /\ StagesNow = [i \in Ids |-> "unasked"] /\ HeldNow = [i \in Ids |-> TRUE]
      /\ OutcomesNow = [i \in Ids |-> Unended] /\ book.fault = NoFault
  <2>1. StagesNow = [i \in Ids |-> "unasked"]
    BY <1>2 DEF StagesNow
  <2>2. HeldNow = [i \in Ids |-> TRUE]
    BY <1>1, Zenon DEF HeldNow
  <2>3. OutcomesNow = [i \in Ids |-> Unended]
    BY <1>2 DEF OutcomesNow
  <2>4. book.fault = NoFault
    BY <1>1 DEF NoFault
  <2> QED BY <2>1, <2>2, <2>3, <2>4
<1> QED BY <1>1, <1>3, <1>4 DEF Promise!Init, StagesNow, HeldNow, OutcomesNow, OpenNow, Promise!Ids, Ids

LEMMA QueueAskRefines ==
    ASSUME QInv, app = "asking", NEW with \in Ids \cup {NoId},
           Refusal(book, with) = "none", book' = Admitted(book, with)
    PROVE  Promise!Ask
<1> DEFINE id == book.minted + 1
<1>1. book \in Books /\ book.minted < MaxMinted /\ book.fault = NoFault
  BY DEF QInv, BookInv, CallFits, Refusal
<1>2. id \in Ids
  BY <1>1, IdsAreNatural DEF Books, Ids
<1>3. /\ book'.minted = id /\ book'.gone = book.gone /\ book'.terminal = book.terminal
      /\ book'.fault = book.fault
      /\ book'.place = [book.place EXCEPT ![id] = "owed"]
  BY <1>1 DEF Admitted, Books, NextId
<1>4. StagesNow' = [StagesNow EXCEPT ![id] = "owed"]
  BY <1>1, <1>2, <1>3 DEF StagesNow, StageOf, Books
<1>5. HeldNow' = HeldNow /\ OutcomesNow' = OutcomesNow /\ OpenNow' = OpenNow /\ OpenNow
  BY <1>1, <1>3 DEF HeldNow, OutcomesNow, OpenNow, Outcome
<1> QED BY <1>1, <1>3, <1>4, <1>5
        DEF Promise!Ask, StagesNow, HeldNow, OutcomesNow, OpenNow, Promise!Ids, Ids

LEMMA QueueEndedRefines ==
    ASSUME QInv, NEW ends \in SUBSET Owed(book), NEW terminals, DOMAIN terminals = ends,
           NEW outcome, \A i \in ends : Outcome(terminals[i]) = outcome,
           book'.minted = book.minted, book'.gone = book.gone,
           book'.place = Ended(book, terminals).place,
           book'.terminal = Ended(book, terminals).terminal
    PROVE  Promise!EndTogether(ends, outcome)
<1>1. book \in Books
  BY DEF QInv, BookInv
<1>2. /\ \A i \in Ids : book'.place[i] = IF i \notin ends THEN book.place[i]
                                        ELSE IF book.gone[i] THEN "sunk" ELSE "kept"
      /\ \A i \in Ids : book'.terminal[i] = IF i \in ends THEN terminals[i]
                                            ELSE book.terminal[i]
  BY <1>1 DEF Ended, Books
<1>3. \A i \in ends : i \in Ids /\ book.place[i] = "owed"
  BY DEF Owed
<1> DEFINE heard == {i \in ends : ~HeldNow[i]}
<1>4. \A i \in ends : i \in heard <=> book.gone[i]
  BY <1>3 DEF HeldNow
<1> HIDE DEF heard
<1>5. StagesNow' = [i \in Ids |-> IF i \in heard THEN "sunk"
                                ELSE IF i \in ends THEN "ended" ELSE StagesNow[i]]
  <2>1. \A i \in heard : i \in ends
    BY DEF heard
  <2>2. \A i \in Ids : StageOf(i)' = IF i \in heard THEN "sunk"
                                   ELSE IF i \in ends THEN "ended" ELSE StageOf(i)
    BY <1>2, <1>3, <1>4, <2>1 DEF StageOf
  <2> QED BY <2>2 DEF StagesNow
<1>6. OutcomesNow' = [i \in Ids |-> IF i \in ends THEN outcome ELSE OutcomesNow[i]]
  BY <1>2 DEF OutcomesNow
<1>7. HeldNow' = HeldNow
  BY DEF HeldNow
<1>8. ends \subseteq Promise!Owed
  <2>1. \A i \in ends : i \in Ids /\ StagesNow[i] = "owed"
    BY <1>3 DEF StagesNow, StageOf
  <2> QED BY <2>1 DEF Promise!Owed, StagesNow, HeldNow, OutcomesNow, OpenNow, Promise!Ids, Ids
<1>9. \E S \in SUBSET {i \in ends : ~HeldNow[i]} :
         StagesNow' = [i \in Ids |-> IF i \in S THEN "sunk"
                                   ELSE IF i \in ends THEN "ended" ELSE StagesNow[i]]
  <2>1. heard \in SUBSET {i \in ends : ~HeldNow[i]}
    BY DEF heard
  <2> QED BY <1>5, <2>1
<1> QED BY <1>6, <1>7, <1>8, <1>9 DEF Promise!EndTogether, StagesNow, HeldNow, OutcomesNow, OpenNow, Promise!Ids, Ids

LEMMA QueuePublishedRefines ==
    ASSUME QInv, NEW id, PublishAccepted(book, id),
           NEW t \in {Done, Cancelled} \cup {Failed(w) : w \in Words}
                        \cup {Superseded(by) : by \in Ids},
           book' = Published(book, id, t)
    PROVE  Promise!End
<1> DEFINE ends == EndsWith(book, id)
           terminals == [i \in ends |-> IF i = id THEN t ELSE Joined(id, t)]
<1>1. book \in Books /\ BookInv(book) /\ t \in Publishable
  BY PlainTerminals DEF QInv, BookInv
<1>2. ends \subseteq Owed(book) /\ id \in ends
  BY <1>1, PublishedInv DEF EndsWith
<1>3. \A i \in ends : Outcome(terminals[i]) = t
  BY <1>1 DEF Outcome, Joined, Publishable, Terminals, NoId
<1>4. /\ book'.minted = book.minted /\ book'.gone = book.gone /\ book'.fault = book.fault
      /\ book'.place = Ended(book, terminals).place
      /\ book'.terminal = Ended(book, terminals).terminal
  BY <1>1 DEF Published, Ended, Books
<1>5. DOMAIN terminals = ends
  OBVIOUS
<1> HIDE DEF terminals, ends
<1>6. Promise!EndTogether(ends, t)
  BY <1>2, <1>3, <1>4, <1>5, QueueEndedRefines
<1>7. ends \in SUBSET Promise!Owed /\ ends # {}
  BY <1>2, <1>6 DEF Promise!EndTogether
<1>8. t \in {Done, Cancelled} \cup {Failed(w) : w \in Words}
                \cup {Superseded(by) : by \in Ids}
  OBVIOUS
<1> QED BY <1>4, <1>6, <1>7, <1>8 DEF Promise!End, StagesNow, HeldNow, OutcomesNow, OpenNow, Promise!Ids, Ids

LEMMA QueueEndsRefines ==
    ASSUME QInv, NEW cause \in Causes, book' = WorkerEnded(book, cause)
    PROVE  Promise!Close
<1> DEFINE ends == EndedByWorker(book)
           terminals == [i \in ends |-> GoneTerminal(book, i)]
<1>1. book \in Books /\ BookInv(book) /\ ends = Owed(book)
  BY WorkerEndedInv DEF QInv, BookInv
<1>2. \A i \in ends : Outcome(terminals[i]) = WorkerGone
  BY DEF Outcome, GoneTerminal, Joined, WorkerGone, Plain
<1>3. /\ book'.minted = book.minted /\ book'.gone = book.gone
      /\ book'.place = Ended(book, terminals).place
      /\ book'.terminal = Ended(book, terminals).terminal
      /\ book'.fault = IF book.fault = NoFault THEN cause ELSE book.fault
  BY <1>1 DEF WorkerEnded, Ended, Books
<1>4. DOMAIN terminals = ends /\ book'.fault # NoFault
  BY <1>3 DEF NoFault, Causes
<1> HIDE DEF terminals, ends
<1>5. Promise!EndTogether(ends, WorkerGone)
  BY <1>1, <1>2, <1>3, <1>4, QueueEndedRefines
<1>6. Promise!Owed = ends
  <2>1. \A i \in Ids : StagesNow[i] = "owed" <=> i \in Owed(book)
    BY <1>1 DEF StagesNow, StageOf, Owed, Books, Places
  <2>2. Owed(book) \subseteq Ids
    BY DEF Owed
  <2> QED BY <1>1, <2>1, <2>2 DEF Promise!Owed, StagesNow, HeldNow, OutcomesNow, OpenNow, Promise!Ids, Ids
<1> QED BY <1>4, <1>5, <1>6 DEF Promise!Close

LEMMA QueueTakenRefines ==
    ASSUME QInv, NEW id \in Kept(book), book' = Taken(book, id)
    PROVE  Promise!Answer(id) /\ id \in Ids
<1>1. book \in Books /\ id \in Ids /\ book.place[id] = "kept" /\ ~book.gone[id]
  BY DEF QInv, BookInv, PlacedByRequester, Kept
<1>2. /\ book'.minted = book.minted /\ book'.gone = book.gone
      /\ book'.terminal = book.terminal /\ book'.fault = book.fault
      /\ book'.place = [book.place EXCEPT ![id] = "taken"]
  BY <1>1 DEF Taken, Books
<1>3. StagesNow[id] = "ended" /\ HeldNow[id]
  BY <1>1 DEF StagesNow, HeldNow, StageOf
<1>4. StagesNow' = [StagesNow EXCEPT ![id] = "answered"]
  <2>1. book'.place[id] = "taken" /\ \A i \in Ids \ {id} : book'.place[i] = book.place[i]
    BY <1>1, <1>2 DEF Books
  <2>2. StageOf(id)' = "answered" /\ \A i \in Ids \ {id} : StageOf(i)' = StageOf(i)
    BY <1>1, <2>1 DEF StageOf
  <2> QED BY <2>2 DEF StagesNow
<1>5. HeldNow' = HeldNow /\ OutcomesNow' = OutcomesNow /\ OpenNow' = OpenNow
  BY <1>2 DEF HeldNow, OutcomesNow, OpenNow, Outcome
<1> QED BY <1>1, <1>2, <1>3, <1>4, <1>5 DEF Promise!Answer, StagesNow, HeldNow, OutcomesNow, OpenNow, Promise!Ids, Ids

LEMMA QueueDroppedRefines ==
    ASSUME QInv, NEW id \in Held, book' = Dropped(book, id)
    PROVE  Promise!LetGo(id) /\ id \in Ids
<1>1. book \in Books /\ id \in Ids /\ book.place[id] \in {"owed", "kept"} /\ ~book.gone[id]
  BY DEF QInv, BookInv, Held, Entries
<1>2. /\ book'.minted = book.minted /\ book'.terminal = book.terminal /\ book'.fault = book.fault
      /\ book'.gone = [book.gone EXCEPT ![id] = TRUE]
      /\ book'.place = [book.place EXCEPT
                          ![id] = IF book.place[id] = "kept" THEN "sunk" ELSE book.place[id]]
  BY <1>1 DEF Dropped, Books, Kept
<1>3. StagesNow[id] = (IF book.place[id] = "kept" THEN "ended" ELSE "owed") /\ HeldNow[id]
  BY <1>1 DEF StagesNow, HeldNow, StageOf
<1>4. HeldNow' = [HeldNow EXCEPT ![id] = FALSE]
  <2>1. book'.gone[id] /\ \A i \in Ids \ {id} : book'.gone[i] <=> book.gone[i]
    BY <1>1, <1>2, Zenon DEF Books
  <2> QED BY <2>1 DEF HeldNow
<1>5. \A i \in Ids \ {id} : StageOf(i)' = StageOf(i)
  BY <1>1, <1>2 DEF StageOf, Books
<1>6. book.place[id] = "kept" => StagesNow' = [StagesNow EXCEPT ![id] = "sunk"]
  <2> SUFFICES ASSUME book.place[id] = "kept" PROVE StagesNow' = [StagesNow EXCEPT ![id] = "sunk"]
    OBVIOUS
  <2>1. StageOf(id)' = "sunk"
    BY <1>1, <1>2 DEF StageOf, Books
  <2> QED BY <1>5, <2>1 DEF StagesNow
<1>7. book.place[id] = "owed" => StagesNow' = StagesNow
  <2> SUFFICES ASSUME book.place[id] = "owed" PROVE StagesNow' = StagesNow
    OBVIOUS
  <2>1. StageOf(id)' = StageOf(id)
    BY <1>1, <1>2 DEF StageOf, Books
  <2> QED BY <1>5, <2>1 DEF StagesNow
<1>8. OutcomesNow' = OutcomesNow /\ OpenNow' = OpenNow
  BY <1>2 DEF OutcomesNow, OpenNow, Outcome
<1> QED BY <1>1, <1>2, <1>3, <1>4, <1>6, <1>7, <1>8 DEF Promise!LetGo, StagesNow, HeldNow, OutcomesNow, OpenNow, Promise!Ids, Ids

-----------------------------------------------------------------------------
LEMMA PublishedOrNotRefines ==
    ASSUME QInv, NEW id,
           NEW t \in {Done, Cancelled} \cup {Failed(w) : w \in Words}
                        \cup {Superseded(by) : by \in Ids},
           book' = IF PublishAccepted(book, id) THEN Published(book, id, t) ELSE book
    PROVE  [Promise!Next]_(Promise!vars)
<1>1. CASE PublishAccepted(book, id)
  BY <1>1, QueuePublishedRefines DEF Promise!Next
<1>2. CASE ~PublishAccepted(book, id)
  BY <1>2, QueueUnseen
<1> QED BY <1>1, <1>2

LEMMA QueueStepRefines ==
    ASSUME QInv, [Next]_(vars)
    PROVE  [Promise!Next]_(Promise!vars)
<1>1. CASE AskJoins
  <2>1. PICK with : with = line[RelatedAt(hand.job)].id
    OBVIOUS
  <2>2. with \in Ids
    BY <1>1, <2>1, TheRelated DEF AskJoins
  <2>3. app = "asking" /\ Refusal(book, with) = "none" /\ book' = Admitted(book, with)
    BY <1>1, <2>1 DEF AskJoins
  <2> QED BY <2>2, <2>3, QueueAskRefines DEF Promise!Next
<1>2. CASE AskQueues \/ AskDisplaces
  <2>1. app = "asking" /\ Refusal(book, NoId) = "none" /\ book' = Admitted(book, NoId)
    BY <1>2 DEF AskQueues, AskDisplaces
  <2> QED BY <2>1, QueueAskRefines DEF Promise!Next
<1>3. CASE Displace
  <2>1. PICK displaced : displaced = line[RelatedAt(hand.job)].id
    OBVIOUS
  <2>2. /\ hand.id \in Ids
        /\ book' = IF PublishAccepted(book, displaced)
                   THEN Published(book, displaced, Superseded(hand.id)) ELSE book
    BY <1>3, <2>1 DEF Displace, QInv, CallFits
  <2> QED BY <2>2, PublishedOrNotRefines
<1>4. CASE WithdrawEnds
  <2>1. book' = IF PublishAccepted(book, hand.id) THEN Published(book, hand.id, Cancelled) ELSE book
    BY <1>4 DEF WithdrawEnds, PublishedByAsker
  <2> QED BY <2>1, PublishedOrNotRefines
<1>5. CASE SupersedeEnds
  <2>1. book.minted \in 0..MaxMinted /\ hand.id \in Ids /\ hand.id < book.minted
    BY <1>5, OwedIsEntered
       DEF SupersedeEnds, QInv, CallFits, BookInv, Books, Held
  <2>2. book.minted \in Ids
    BY <2>1, IdsAreNatural DEF Ids
  <2>3. book' = IF PublishAccepted(book, hand.id)
                THEN Published(book, hand.id, Superseded(book.minted)) ELSE book
    BY <1>5 DEF SupersedeEnds, PublishedByAsker
  <2> QED BY <2>2, <2>3, PublishedOrNotRefines
<1>6. CASE Publish
  <2>1. PICK t \in {Done} \cup {Failed(w) : w \in Words} :
            book' = IF PublishAccepted(book, current) THEN Published(book, current, t) ELSE book
    BY <1>6 DEF Publish
  <2> QED BY <2>1, PublishedOrNotRefines
<1>7. CASE Return \/ Panic
  <2>1. PICK cause \in Causes : Ends(cause)
    BY <1>7 DEF Return, Panic, Causes
  <2>2. book' = WorkerEnded(book, cause)
    BY <2>1 DEF Ends
  <2> QED BY <2>2, QueueEndsRefines DEF Promise!Next
<1>8. CASE SupersedeTakes \/ \E w \in Windows : DrainTakes(w)
  <2>1. PICK id \in Kept(book) : book' = Taken(book, id)
    BY <1>8 DEF SupersedeTakes, DrainTakes, Takeable
  <2> QED BY <2>1, QueueTakenRefines DEF Promise!Next, StagesNow, HeldNow, OutcomesNow, OpenNow, Promise!Ids, Ids
<1>9. CASE WithdrawLetsGo \/ \E id \in Ids : LetGo(id)
  <2>1. PICK id \in Held : book' = Dropped(book, id)
    BY <1>9 DEF WithdrawLetsGo, LetGo, QInv, CallFits
  <2> QED BY <2>1, QueueDroppedRefines DEF Promise!Next, StagesNow, HeldNow, OutcomesNow, OpenNow, Promise!Ids, Ids
<1>10. CASE UNCHANGED book
  BY <1>10, QueueUnseen
<1>11. CASE AppChooses
  BY <1>9, <1>10, <1>11
     DEF AppChooses, AskBegins, WithdrawBegins, Close
<1>12. CASE AppGoesOn
  BY <1>1, <1>2, <1>3, <1>4, <1>5, <1>8, <1>9, <1>10, <1>12
     DEF AppGoesOn, AskRefused, Notify, WakeSelf, DrainBegins,
         DrainAnswers, DrainEnds, DrainLeaves
<1>13. CASE WorkerGoesOn \/ Stir \/ Panic
  BY <1>6, <1>7, <1>10, <1>13
     DEF WorkerGoesOn, Pop, Sleep, Skip, Begin, Wake,
         Announce, Stir
<1>14. CASE UNCHANGED vars
  BY <1>10, <1>14 DEF vars
<1> QED BY <1>11, <1>12, <1>13, <1>14 DEF Next

(* Every request a queue admits ends exactly once and reaches exactly one  *)
(* reader, once, however many are joined, displaced, withdrawn, let go or  *)
(* left behind by a worker's death, whatever the policies of its lane.     *)
THEOREM QueueKeepsThePromise == Spec => KeepsThePromise
<1>1. Init => Promise!Init
  BY QueueInitRefines
<1>2. QInv /\ [Next]_(vars) => [Promise!Next]_(Promise!vars)
  BY QueueStepRefines
<1>3. Spec => []QInv
  BY QueueInvariance
<1> QED BY <1>1, <1>2, <1>3, PTL DEF Spec, KeepsThePromise, Promise!Spec

-----------------------------------------------------------------------------
(* No answer is missed: what a terminal in the book waits for.             *)

(* The window thread will be told of what has ended.                       *)
WakeIsComing ==
    \/ ringing
    \/ worker \in {"waking", "announcing"}
    \/ app = "waking"
    \/ app = "notifying" /\ hand.wake

(* The call under way is about to let the request go, or to take the       *)
(* terminal it ended it with, which answers nobody.                        *)
BeingReplaced(i) ==
    /\ hand.id = i
    /\ \/ app = "letting_go"
       \/ app = "taking" /\ book.terminal[i].kind = "Superseded"

(* What is kept will be come to: by the wake on its way, by the drain      *)
(* under way, by the wake an earlier request owed will bring, or by the    *)
(* call that ended it.                                                     *)
KeptIsHeardOf ==
    \A i \in Kept(book) :
        \/ WakeIsComing
        \/ app = "draining" /\ holder[i] \in todo
        \/ \E j \in Owed(book) : j < i
        \/ BeingReplaced(i)
        \/ app = "dropped"

PocketIsHeardOf ==
    \A i \in Answers(pocket) :
        \/ WakeIsComing
        \/ app = "draining" /\ holder[i] \in todo
        \/ app = "dropped"

(* Where requests are withdrawn the worker ends them in their order, so    *)
(* that no answer waits for an earlier request whose end brings no wake.   *)
InTurn ==
    Withdraws =>
        /\ \A i \in Ids : book.twin[i] = NoId
        /\ \A i \in Kept(book) \cup Answers(pocket), j \in Owed(book) :
              j < i => \/ BeingReplaced(i)
                       \/ app \in {"withdrawing", "superseding"} /\ hand.id = j /\ WakeIsComing

(* The mark of the drain under way is still owed, or its end will be heard.*)
MarkStands == app = "draining" => WakeIsComing \/ mark = NoId \/ mark \in Owed(book)

(* The line is in the order of admission, the worker is at its head and    *)
(* the one that displaces another comes last.                              *)
LineInOrder ==
    /\ \A m, n \in 1..Len(line) : m < n => line[m].id < line[n].id
    /\ \A k \in 1..Len(line) : line[k].id <= book.minted
    /\ worker \in {"taken", "running"} =>
          current <= book.minted /\ \A k \in 1..Len(line) : current < line[k].id
    /\ app = "displacing" =>
          /\ hand.id = book.minted /\ \A k \in 1..Len(line) : line[k].id < hand.id
          /\ worker \in {"taken", "running"} => current < hand.id

(* The worker is there once anything has been asked, sleeps only on an     *)
(* empty line it will be told of, and has ended only in fault; and only    *)
(* where requests are withdrawn is one being withdrawn or replaced.        *)
WorkerFits ==
    /\ worker = "unstarted" => book.minted = 0 /\ app # "asking"
    /\ worker = "asleep" => line = <<>> \/ app = "notifying"
    /\ worker \in {"announcing", "ended"} => book.fault # NoFault
    /\ \/ app \in {"withdrawing", "letting_go", "superseding", "taking"}
       \/ pocket # {}
       => Withdraws

WInv ==
    /\ QInv
    /\ KeptIsHeardOf /\ PocketIsHeardOf /\ InTurn /\ MarkStands
    /\ LineInOrder /\ WorkerFits

-----------------------------------------------------------------------------
(* What the operations of the book do to what is owed and what is kept:    *)
(* the identities of ends have ended, and nothing else has changed.        *)
After(b, c, ends) ==
    /\ c.minted = b.minted
    /\ Owed(c) = Owed(b) \ ends
    /\ Kept(c) \subseteq Kept(b) \cup ends
    /\ \A i \in Ids : i \notin ends => c.terminal[i] = b.terminal[i]
    /\ \A i \in Ids : b.twin[i] = NoId => c.twin[i] = NoId

LEMMA EndedAfter ==
    ASSUME NEW b \in Books, NEW ends \in SUBSET Owed(b), NEW terminals, DOMAIN terminals = ends,
           NEW c, c.minted = b.minted,
           c.place = Ended(b, terminals).place, c.twin = Ended(b, terminals).twin,
           c.terminal = Ended(b, terminals).terminal
    PROVE  After(b, c, ends)
<1>1. \A i \in Ids :
         /\ c.place[i] = IF i \notin ends THEN b.place[i] ELSE IF b.gone[i] THEN "sunk" ELSE "kept"
         /\ c.twin[i] = IF i \in ends THEN NoId ELSE b.twin[i]
         /\ i \notin ends => c.terminal[i] = b.terminal[i]
  BY DEF Ended, Books
<1>2. \A i \in ends : i \in Ids /\ b.place[i] = "owed"
  BY DEF Owed
<1>3. Owed(c) = Owed(b) \ ends
  BY <1>1, <1>2 DEF Owed
<1>4. Kept(c) \subseteq Kept(b) \cup ends
  BY <1>1 DEF Kept
<1> QED BY <1>1, <1>3, <1>4 DEF After

LEMMA PublishedAfter ==
    ASSUME NEW b, BookInv(b), NEW id, PublishAccepted(b, id), NEW t \in Publishable
    PROVE  /\ After(b, Published(b, id, t), EndsWith(b, id))
           /\ Published(b, id, t).fault = b.fault
           /\ Published(b, id, t).terminal[id] = t
           /\ (\A i \in Ids : b.twin[i] = NoId) => EndsWith(b, id) = {id}
<1> DEFINE ends == EndsWith(b, id)
           terminals == [i \in ends |-> IF i = id THEN t ELSE Joined(id, t)]
           c == Published(b, id, t)
<1>1. b \in Books /\ ends \in SUBSET Owed(b) /\ id \in Ids /\ id \in ends
  BY PublishedInv DEF BookInv, PublishAccepted, Owed, EndsWith
<1>2. /\ c.minted = b.minted /\ c.fault = b.fault
      /\ c.place = Ended(b, terminals).place /\ c.twin = Ended(b, terminals).twin
      /\ c.terminal = Ended(b, terminals).terminal
  BY <1>1 DEF Published, Ended, Books
<1>3. DOMAIN terminals = ends
  OBVIOUS
<1>4. c.terminal[id] = t
  BY <1>1, <1>2 DEF Ended, Books
<1>5. (\A i \in Ids : b.twin[i] = NoId) => ends = {id}
  BY <1>1, IdsAreNatural DEF EndsWith, Twins, Owed
<1> HIDE DEF terminals, c, ends
<1>6. After(b, c, ends)
  BY <1>1, <1>2, <1>3, EndedAfter
<1> QED BY <1>2, <1>4, <1>5, <1>6 DEF c, ends

LEMMA WorkerEndedAfter ==
    ASSUME NEW b, BookInv(b), NEW cause \in Causes
    PROVE  /\ After(b, WorkerEnded(b, cause), Owed(b))
           /\ WorkerEnded(b, cause).fault # NoFault
<1> DEFINE ends == EndedByWorker(b)
           terminals == [i \in ends |-> GoneTerminal(b, i)]
           c == WorkerEnded(b, cause)
<1>1. b \in Books /\ ends = Owed(b)
  BY WorkerEndedInv DEF BookInv
<1>2. /\ c.minted = b.minted /\ c.fault = IF b.fault = NoFault THEN cause ELSE b.fault
      /\ c.place = Ended(b, terminals).place /\ c.twin = Ended(b, terminals).twin
      /\ c.terminal = Ended(b, terminals).terminal
  BY <1>1 DEF WorkerEnded, Ended, Books
<1>3. DOMAIN terminals = ends
  OBVIOUS
<1>4. c.fault # NoFault
  BY <1>2 DEF Causes, NoFault
<1> HIDE DEF terminals, c, ends
<1>5. After(b, c, ends)
  BY <1>1, <1>2, <1>3, EndedAfter
<1> QED BY <1>1, <1>4, <1>5 DEF c

LEMMA DroppedAfter ==
    ASSUME NEW b, BookInv(b), NEW id \in Entries(b)
    PROVE  /\ After(b, Dropped(b, id), {}) /\ Dropped(b, id).fault = b.fault
           /\ id \notin Kept(Dropped(b, id))
           /\ \A i \in Ids : Dropped(b, id).terminal[i] = b.terminal[i]
<1> DEFINE c == Dropped(b, id)
<1>1. b \in Books /\ id \in Ids /\ b.place[id] \in {"owed", "kept"}
  BY DEF BookInv, Entries
<1>2. /\ c.minted = b.minted /\ c.twin = b.twin /\ c.terminal = b.terminal /\ c.fault = b.fault
      /\ \A i \in Ids : c.place[i] = IF i = id /\ b.place[i] = "kept" THEN "sunk" ELSE b.place[i]
  BY <1>1 DEF Dropped, Books, Kept
<1> HIDE DEF c
<1>3. Owed(c) = Owed(b) /\ Kept(c) \subseteq Kept(b) /\ id \notin Kept(c)
  BY <1>1, <1>2 DEF Owed, Kept
<1> QED BY <1>2, <1>3 DEF After, c

LEMMA TakenAfter ==
    ASSUME NEW b, BookInv(b), NEW id \in Kept(b)
    PROVE  /\ After(b, Taken(b, id), {}) /\ Taken(b, id).fault = b.fault
           /\ id \notin Kept(Taken(b, id))
           /\ Taken(b, id).terminal = b.terminal
<1> DEFINE c == Taken(b, id)
<1>1. /\ c.minted = b.minted /\ c.fault = b.fault /\ c.twin = b.twin /\ c.terminal = b.terminal
      /\ Owed(c) = Owed(b) /\ Entries(c) = Entries(b) \ {id}
  BY TakenParts
<1> HIDE DEF c
<1>2. Kept(c) = Kept(b) \ {id}
  BY <1>1 DEF Kept, Entries, Owed
<1> QED BY <1>1, <1>2 DEF After, c

LEMMA AdmittedAfter ==
    ASSUME NEW b, BookInv(b), NEW with \in Ids \cup {NoId}, b.minted < MaxMinted,
           Refusal(b, with) = "none"
    PROVE  LET c == Admitted(b, with)
           IN  /\ Kept(c) = Kept(b) /\ c.fault = b.fault
               /\ Owed(c) = Owed(b) \cup {NextId(b)}
               /\ \A i \in Ids : c.terminal[i] = b.terminal[i]
               /\ with = NoId => \A i \in Ids : b.twin[i] = NoId => c.twin[i] = NoId
               /\ c.minted = NextId(b) /\ NextId(b) \in Ids
               /\ \A i \in Ids : b.place[i] # "unminted" => i < NextId(b)
<1> DEFINE c  == Admitted(b, with)
           id == b.minted + 1
<1>1. b \in Books /\ MintedInOrder(b)
  BY DEF BookInv
<1>2. /\ NextId(b) = id /\ id \in Ids /\ id \notin Entries(b)
      /\ c.minted = id /\ c.terminal = b.terminal
      /\ Owed(c) = Owed(b) \cup {id} /\ Entries(c) = Entries(b) \cup {id}
  BY AdmittedGrows
<1>3. c.fault = b.fault
  BY <1>1 DEF Admitted, Books
<1>4. with = NoId => c.twin = [b.twin EXCEPT ![id] = NoId]
  BY <1>1, <1>2 DEF Admitted, Books
<1>5. with = NoId => \A i \in Ids : b.twin[i] = NoId => c.twin[i] = NoId
  BY <1>1, <1>2, <1>4 DEF Books
<1>6. \A i \in Ids : b.place[i] # "unminted" => i < id
  BY <1>1, IdsAreNatural DEF MintedInOrder, Books, Ids
<1> HIDE DEF c, id
<1>7. Kept(c) = Kept(b)
  <2>1. \A d : Kept(d) = Entries(d) \ Owed(d)
    BY DEF Kept, Entries, Owed
  <2> QED BY <1>2, <2>1 DEF Entries, Owed
<1> QED BY <1>2, <1>3, <1>5, <1>6, <1>7 DEF c, id
-----------------------------------------------------------------------------
(* A step that brings a wake leaves nothing unheard.                       *)
LEMMA WakeBrings ==
    ASSUME WakeIsComing'
    PROVE  KeptIsHeardOf' /\ PocketIsHeardOf' /\ MarkStands'
BY DEF KeptIsHeardOf, PocketIsHeardOf, MarkStands

(* Calls that neither drain nor end a request.                             *)
Plainly == app \notin {"draining", "letting_go", "taking", "withdrawing", "superseding", "dropped"}

(* A step that leaves the drain, the book and the wakes to come alone.     *)
LEMMA HeardStands ==
    ASSUME WInv, UNCHANGED <<lane, book, holder, mark, todo, pocket>>,
           WakeIsComing => WakeIsComing',
           UNCHANGED <<app, hand>> \/ (Plainly /\ Plainly')
    PROVE  KeptIsHeardOf' /\ PocketIsHeardOf' /\ InTurn' /\ MarkStands'
<1>1. Answers(pocket)' = Answers(pocket) /\ Withdraws' = Withdraws
  BY DEF Answers, Withdraws
<1>2. CASE UNCHANGED <<app, hand>>
  <2>1. KeptIsHeardOf'
    BY <1>2 DEF WInv, KeptIsHeardOf, BeingReplaced
  <2>2. PocketIsHeardOf' /\ MarkStands'
    BY <1>1, <1>2 DEF WInv, PocketIsHeardOf, MarkStands
  <2>3. InTurn'
    BY <1>1, <1>2 DEF WInv, InTurn, BeingReplaced
  <2> QED BY <2>1, <2>2, <2>3
<1>3. CASE Plainly /\ Plainly'
  <2>1. KeptIsHeardOf'
    BY <1>3 DEF WInv, KeptIsHeardOf, BeingReplaced, Plainly
  <2>2. PocketIsHeardOf' /\ MarkStands'
    BY <1>1, <1>3 DEF WInv, PocketIsHeardOf, MarkStands, Plainly
  <2>3. InTurn'
    BY <1>1, <1>3 DEF WInv, InTurn, BeingReplaced, Plainly
  <2> QED BY <2>1, <2>2, <2>3
<1> QED BY <1>2, <1>3

(* The steps of the worker that leave the book and the line as they are.   *)
LEMMA WorkQuietlyWakes ==
    ASSUME WInv, QInv', Sleep \/ Stir \/ Wake \/ Announce \/ Skip \/ Begin
    PROVE  WInv'
<1>1. /\ UNCHANGED <<book, lane, line, closed, app, hand, holder, mark, todo, basket, pocket, shown>>
      /\ worker # "unstarted" /\ worker' # "unstarted"
      /\ worker' = "asleep" => line = <<>>
      /\ worker' \in {"announcing", "ended"} => worker = "announcing"
      /\ worker' \in {"taken", "running"} => worker = "taken" /\ current' = current
  BY DEF Sleep, Stir, Wake, Announce, Skip, Begin, lineVars, appVars, drainVars
<1>2. WakeIsComing => WakeIsComing'
  BY <1>1 DEF Sleep, Stir, Wake, Announce, Skip, Begin, WakeIsComing
<1>3. KeptIsHeardOf' /\ PocketIsHeardOf' /\ InTurn' /\ MarkStands'
  BY <1>1, <1>2, HeardStands
<1>4. LineInOrder'
  BY <1>1 DEF WInv, LineInOrder
<1>5. WorkerFits'
  BY <1>1 DEF WInv, WorkerFits, Withdraws
<1> QED BY <1>3, <1>4, <1>5 DEF WInv

LEMMA PopWakes ==
    ASSUME WInv, QInv', Pop
    PROVE  WInv'
<1>1. /\ UNCHANGED <<book, lane, closed, app, hand, holder, mark, todo, basket, pocket, shown,
                     ringing>>
      /\ line # <<>> /\ current' = Head(line).id /\ line' = Tail(line)
      /\ worker = "looking" /\ worker' = "taken" /\ app # "displacing"
  BY DEF Pop, LineLocked, appVars, drainVars
<1>2. line \in Seq([id : Ids, job : Jobs]) /\ book.minted \in Nat
  BY TypedParts DEF WInv, Books
<1>3. /\ Len(line) \in Nat \ {0} /\ Head(line) = line[1] /\ line[1] \in [id : Ids, job : Jobs]
      /\ Len(line') = Len(line) - 1
      /\ \A k \in 1..(Len(line) - 1) : line'[k] = line[k + 1]
  <2> DEFINE T == [id : Ids, job : Jobs]
  <2>1. line \in Seq(T) /\ line # <<>>
    BY <1>1, <1>2
  <2> HIDE DEF T
  <2>2. /\ Len(line) \in Nat \ {0} /\ Head(line) = line[1] /\ line[1] \in T
        /\ Len(Tail(line)) = Len(line) - 1
        /\ \A k \in 1..(Len(line) - 1) : Tail(line)[k] = line[k + 1]
    BY <2>1, TailIs, Zenon
  <2> QED BY <1>1, <2>2, Zenon DEF T
<1>4. KeptIsHeardOf' /\ PocketIsHeardOf' /\ InTurn' /\ MarkStands'
  BY <1>1, HeardStands DEF WakeIsComing
<1>5. LineInOrder'
  <2> DEFINE l == Len(line) - 1
  <2>1. l \in Nat /\ Len(line) = l + 1 /\ Len(line') = l
    BY <1>3
  <2>2. \A k \in 1..l : k + 1 \in 1..(l + 1) /\ 1 < k + 1 /\ line'[k] = line[k + 1]
    BY <1>3, <2>1
  <2>3. 1 \in 1..(l + 1)
    BY <2>1
  <2> HIDE DEF l
  <2>4. /\ \A m, n \in 1..(l + 1) : m < n => line[m].id < line[n].id
        /\ \A k \in 1..(l + 1) : line[k].id <= book.minted
    BY <2>1 DEF WInv, LineInOrder
  <2>5. ASSUME NEW m \in 1..l, NEW n \in 1..l, m < n
        PROVE  line'[m].id < line'[n].id
    <3>1. m + 1 < n + 1
      BY <2>1, <2>5
    <3> QED BY <2>2, <2>4, <3>1
  <2>6. \A k \in 1..l : line'[k].id <= book'.minted /\ current' < line'[k].id
    BY <1>1, <1>3, <2>2, <2>3, <2>4
  <2>7. current' <= book'.minted
    BY <1>1, <1>3, <2>3, <2>4
  <2> QED BY <1>1, <2>1, <2>5, <2>6, <2>7 DEF LineInOrder
<1>6. WorkerFits'
  BY <1>1 DEF WInv, WorkerFits, Withdraws
<1> QED BY <1>4, <1>5, <1>6 DEF WInv

(* Nothing is related to anything where requests are withdrawn.            *)
LEMMA NoneRelated ==
    ASSUME QInv, Withdraws, NEW job \in Jobs
    PROVE  RelatedAt(job) = 0
<1>1. lane \in DOMAIN Policies /\ line \in Seq([id : Ids, job : Jobs])
  BY TypedParts DEF QInv, TypeOK
<1>2. \A waiting \in Jobs : Relate(waiting, job) = "Other"
  BY <1>1, WithdrawsAlone, Zenon DEF Withdraws, Jobs, Relate
<1>3. \A n \in 1..Len(line) : line[n].job \in Jobs
  <2> DEFINE T == [id : Ids, job : Jobs]
  <2>1. line \in Seq(T)
    BY <1>1
  <2>2. \A e \in T : e.job \in Jobs
    OBVIOUS
  <2> HIDE DEF T
  <2>3. \A n \in 1..Len(line) : line[n] \in T
    BY <2>1
  <2> QED BY <2>2, <2>3
<1>4. {n \in 1..Len(line) : Relate(line[n].job, job) # "Other"} = {}
  BY <1>2, <1>3
<1> QED BY <1>4 DEF RelatedAt, FirstOf

LEMMA NoneDisplaced ==
    ASSUME QInv, Withdraws
    PROVE  app # "displacing" /\ RelationOf(hand.job) = "Other"
<1>1. RelatedAt(hand.job) = 0
  BY TypedParts, NoneRelated
<1> QED BY <1>1 DEF QInv, CallFits, RelationOf

(* What is owed where requests are withdrawn.                              *)
LEMMA OwedIsWhere ==
    ASSUME QInv, InTurn, Withdraws, NEW j \in Owed(book)
    PROVE  \/ j \in InLine
           \/ worker \in {"taken", "running"} /\ j = current
           \/ app \in {"withdrawing", "superseding"} /\ j = hand.id
<1>1. j \in Operations(book)
  BY DEF Operations, InTurn, Owed
<1>2. j \in InLine \cup (IF worker \in {"taken", "running"} THEN {current} ELSE {})
        \cup (IF app \in {"displacing", "withdrawing", "superseding"} THEN {hand.id} ELSE {})
  BY <1>1 DEF QInv, OwedIsReachable
<1> QED BY <1>2, NoneDisplaced

LEMMA NumbersAre ==
    ASSUME QInv
    PROVE  current \in Nat /\ hand.id \in Nat /\ Owed(book) \subseteq Nat /\ book.minted \in Nat
<1>1. current \in Ids \cup {NoId} /\ hand.id \in Ids \cup {NoId} /\ book \in Books
  BY TypedParts
<1>2. Owed(book) \subseteq Ids
  BY DEF Owed
<1>3. book.minted \in Nat
  BY <1>1, IdsAreNatural DEF Books
<1>4. Ids \cup {NoId} \subseteq Nat
  BY IdsAreNatural
<1> QED BY <1>1, <1>2, <1>3, <1>4, Zenon

LEMMA PublishWakes ==
    ASSUME WInv, QInv', Publish
    PROVE  WInv'
<1>1. /\ UNCHANGED <<lane, line, closed, app, hand, holder, mark, todo, basket, pocket, shown,
                     ringing>>
      /\ worker = "running" /\ worker' = "waking" /\ current' = NoId
  BY DEF Publish, lineVars, appVars, drainVars
<1>2. PICK t \in Publishable :
          book' = IF PublishAccepted(book, current) THEN Published(book, current, t) ELSE book
  BY PlainTerminals DEF Publish
<1>3. WakeIsComing'
  BY <1>1 DEF WakeIsComing
<1>4. KeptIsHeardOf' /\ PocketIsHeardOf' /\ MarkStands'
  BY <1>3, WakeBrings
<1>5. book'.minted = book.minted /\ book'.fault = book.fault
  BY <1>2, PublishedAfter DEF WInv, QInv, After
<1>6. LineInOrder' /\ WorkerFits'
  BY <1>1, <1>5 DEF WInv, LineInOrder, WorkerFits, Withdraws
<1>7. CASE PublishAccepted(book, current)
  <2>1. /\ After(book, book', EndsWith(book, current))
        /\ (\A i \in Ids : book.twin[i] = NoId) => EndsWith(book, current) = {current}
    BY <1>2, <1>7, PublishedAfter DEF WInv, QInv
  <2>2. ASSUME Withdraws
        PROVE  InTurn'
    <3>1. EndsWith(book, current) = {current} /\ After(book, book', {current})
      BY <2>1, <2>2 DEF WInv, InTurn
    <3>2. \A i \in Ids : book'.twin[i] = NoId
      BY <2>2, <3>1 DEF WInv, InTurn, After
    <3>3. ASSUME NEW i \in Kept(book'), NEW j \in Owed(book'), j < i
          PROVE  \/ BeingReplaced(i)'
                 \/ app \in {"withdrawing", "superseding"} /\ hand.id = j
      <4>1. j \in Owed(book) /\ j # current
        BY <3>1, <3>3 DEF After
      <4>2. CASE i = current
        <5>1. j \in InLine \/ (app \in {"withdrawing", "superseding"} /\ j = hand.id)
          <6>1. QInv /\ InTurn
            BY DEF WInv
          <6> QED BY <2>2, <4>1, <6>1, OwedIsWhere, Zenon
        <5>2. j \notin InLine
          <6>1. \A k \in 1..Len(line) : current < line[k].id
            BY <1>1 DEF WInv, LineInOrder
          <6>2. j \in Nat /\ current \in Nat
            BY <4>1, NumbersAre DEF WInv
          <6> QED BY <3>3, <4>2, <6>1, <6>2 DEF InLine
        <5> QED BY <5>1, <5>2
      <4>3. CASE i # current
        <5>1. i \in Kept(book) /\ i \in Ids /\ book'.terminal[i] = book.terminal[i]
          BY <3>1, <3>3, <4>3 DEF After, Kept
        <5> QED BY <1>1, <2>2, <3>3, <4>1, <5>1 DEF WInv, InTurn, BeingReplaced
      <4> QED BY <4>2, <4>3
    <3>4. Answers(pocket)' = Answers(pocket)
      <4>1. \A i \in pocket : i \in Ids /\ i \notin Owed(book)
        BY TypedParts DEF WInv, QInv, HoldersFit, Owed
      <4>2. \A i \in pocket : book'.terminal[i] = book.terminal[i]
        BY <1>7, <3>1, <4>1 DEF After, PublishAccepted
      <4> QED BY <1>1, <4>2 DEF Answers
    <3>5. ASSUME NEW i \in Answers(pocket)', NEW j \in Owed(book'), j < i
          PROVE  \/ BeingReplaced(i)'
                 \/ app \in {"withdrawing", "superseding"} /\ hand.id = j
      <4>1. j \in Owed(book) /\ i \in Answers(pocket)
        BY <3>1, <3>4 DEF After
      <4>2. book'.terminal[i] = book.terminal[i]
        <5>1. i \in Ids /\ i # current
          BY <1>7, <4>1, TypedParts DEF WInv, QInv, HoldersFit, Answers, Owed, PublishAccepted
        <5> QED BY <3>1, <5>1 DEF After
      <4> QED BY <1>1, <2>2, <3>5, <4>1, <4>2 DEF WInv, InTurn, BeingReplaced
    <3> QED BY <1>1, <1>3, <3>2, <3>3, <3>5 DEF InTurn
  <2>3. Withdraws' = Withdraws
    BY <1>1 DEF Withdraws
  <2>4. ~Withdraws => InTurn'
    BY <2>3 DEF InTurn
  <2> QED BY <1>4, <1>6, <2>2, <2>4 DEF WInv
<1>8. CASE ~PublishAccepted(book, current)
  <2>1. InTurn'
    <3>1. book' = book
      BY <1>2, <1>8
    <3>2. Answers(pocket)' = Answers(pocket) /\ Withdraws' = Withdraws
      BY <1>1, <3>1 DEF Answers, Withdraws
    <3> QED BY <1>1, <1>3, <3>1, <3>2 DEF WInv, InTurn, BeingReplaced
  <2> QED BY <1>4, <1>6, <2>1 DEF WInv
<1> QED BY <1>7, <1>8

(* The worker's end.                                                       *)
LEMMA EndsWakes ==
    ASSUME WInv, QInv', Return \/ Panic
    PROVE  WInv'
<1>1. PICK cause \in Causes : Ends(cause)
  BY DEF Return, Panic, Causes
<1>2. /\ UNCHANGED <<lane, line, closed, app, hand, holder, mark, todo, basket, pocket, shown,
                     ringing>>
      /\ worker' = (IF Owed(book) = {} THEN "ended" ELSE "announcing") /\ current' = NoId
      /\ book' = WorkerEnded(book, cause) /\ worker \in {"looking", "taken"}
  BY <1>1 DEF Ends, Return, Panic, lineVars, appVars, drainVars
<1>3. After(book, book', Owed(book)) /\ book'.fault # NoFault
  BY <1>2, WorkerEndedAfter DEF WInv, QInv
<1>4. Owed(book') = {} /\ book'.minted = book.minted
  BY <1>3 DEF After
<1>5. LineInOrder' /\ WorkerFits'
  BY <1>2, <1>3, <1>4 DEF WInv, LineInOrder, WorkerFits, Withdraws
<1>6. InTurn'
  BY <1>2, <1>3, <1>4 DEF WInv, InTurn, After, Withdraws
<1>7. CASE Owed(book) = {}
  <2>1. /\ Kept(book') \subseteq Kept(book) /\ \A i \in Ids : book'.terminal[i] = book.terminal[i]
        /\ WakeIsComing' <=> WakeIsComing
    BY <1>2, <1>3, <1>7 DEF After, WakeIsComing
  <2>2. KeptIsHeardOf'
    BY <1>2, <1>7, <2>1 DEF WInv, KeptIsHeardOf, BeingReplaced, Kept
  <2>3. Answers(pocket)' = Answers(pocket)
    BY <1>2, <2>1, TypedParts DEF WInv, Answers
  <2>4. PocketIsHeardOf'
    BY <1>2, <2>1, <2>3 DEF WInv, PocketIsHeardOf
  <2>5. MarkStands'
    BY <1>2, <1>4, <1>7, <2>1 DEF WInv, MarkStands
  <2> QED BY <1>5, <1>6, <2>2, <2>4, <2>5 DEF WInv
<1>8. CASE Owed(book) # {}
  <2>1. WakeIsComing'
    BY <1>2, <1>8 DEF WakeIsComing
  <2> QED BY <1>5, <1>6, <2>1, WakeBrings DEF WInv
<1> QED BY <1>7, <1>8

-----------------------------------------------------------------------------
(* The window thread's steps that change neither the book nor the line.    *)
LEMMA AppQuietlyWakes ==
    ASSUME WInv, QInv',
           \/ \E w \in Windows, job \in Jobs : AskBegins(w, job)
           \/ AskRefused \/ Notify \/ WakeSelf
    PROVE  WInv'
<1>1. /\ UNCHANGED <<book, lane, line, closed, holder, mark, todo, basket, pocket, shown, current>>
      /\ app \in {"idle", "asking", "notifying", "waking"}
      /\ app' \in {"idle", "asking", "notifying", "waking"}
      /\ worker' = worker \/ (app = "notifying" /\ worker = "asleep" /\ worker' = "looking")
                          \/ (app' = "asking" /\ worker = "unstarted" /\ worker' = "looking")
      /\ app' = "asking" => worker' # "unstarted"
      /\ app = "notifying" => worker' # "asleep"
  BY DEF AskBegins, AskRefused, Notify, WakeSelf, lineVars, drainVars, workVars
<1>2. WakeIsComing => WakeIsComing'
  <2>1. ASSUME NEW w \in Windows, NEW job \in Jobs, AskBegins(w, job)
        PROVE  WakeIsComing => WakeIsComing'
    BY <2>1 DEF AskBegins, WakeIsComing
  <2>2. CASE AskRefused \/ WakeSelf
    BY <2>2 DEF AskRefused, WakeSelf, WakeIsComing, workVars
  <2>3. CASE Notify
    BY <2>3 DEF Notify, WakeIsComing
  <2> QED BY <2>1, <2>2, <2>3
<1>3. KeptIsHeardOf' /\ PocketIsHeardOf' /\ InTurn' /\ MarkStands'
  BY <1>1, <1>2, HeardStands DEF Plainly
<1>4. LineInOrder'
  BY <1>1 DEF WInv, LineInOrder
<1>5. WorkerFits'
  BY <1>1 DEF WInv, WorkerFits, Withdraws
<1> QED BY <1>3, <1>4, <1>5 DEF WInv

(* An admission: what is kept came before it.                              *)
LEMMA AdmissionWakes ==
    ASSUME WInv, QInv', app = "asking", app' \in {"idle", "notifying", "displacing"},
           NEW with \in Ids \cup {NoId}, Refusal(book, with) = "none",
           book' = Admitted(book, with), Withdraws => with = NoId,
           holder' = [holder EXCEPT ![NextId(book)] = hand.window],
           UNCHANGED <<lane, mark, todo, pocket, worker, current, ringing>>
    PROVE  /\ KeptIsHeardOf' /\ PocketIsHeardOf' /\ InTurn' /\ MarkStands'
           /\ book'.minted = NextId(book) /\ NextId(book) = book.minted + 1
           /\ book'.fault = book.fault
<1>1. /\ BookInv(book) /\ book.minted < MaxMinted
  BY DEF WInv, QInv, CallFits
<1>2. /\ Kept(book') = Kept(book) /\ book'.fault = book.fault
      /\ Owed(book') = Owed(book) \cup {NextId(book)}
      /\ \A i \in Ids : book'.terminal[i] = book.terminal[i]
      /\ with = NoId => \A i \in Ids : book.twin[i] = NoId => book'.twin[i] = NoId
      /\ book'.minted = NextId(book) /\ NextId(book) \in Ids
      /\ \A i \in Ids : book.place[i] # "unminted" => i < NextId(book)
  BY <1>1, AdmittedAfter
<1>3. WakeIsComing => WakeIsComing'
  BY DEF WakeIsComing
<1>4. KeptIsHeardOf'
  BY <1>2, <1>3 DEF WInv, KeptIsHeardOf, BeingReplaced
<1>5. Answers(pocket)' = Answers(pocket) /\ Withdraws' = Withdraws
  BY <1>2, TypedParts DEF WInv, Answers, Withdraws
<1>6. PocketIsHeardOf' /\ MarkStands'
  BY <1>3, <1>5 DEF WInv, PocketIsHeardOf, MarkStands
<1>7. InTurn'
  <2> SUFFICES ASSUME Withdraws
               PROVE  InTurn'
    BY <1>5 DEF InTurn
  <2>1. \A i \in Ids : book'.twin[i] = NoId
    BY <1>2 DEF WInv, InTurn
  <2>2. \A i \in Kept(book) \cup Answers(pocket), j \in Owed(book) : ~(j < i)
    BY DEF WInv, InTurn, BeingReplaced
  <2>3. \A i \in Kept(book) \cup Answers(pocket) : i < NextId(book) /\ i \in Nat
    BY <1>2, TypedParts, IdsAreNatural DEF WInv, QInv, HoldersFit, Kept, Answers
  <2>4. \A i \in Kept(book) \cup Answers(pocket) : ~(NextId(book) < i)
    BY <1>2, <2>3, IdsAreNatural
  <2> QED BY <1>2, <1>5, <2>1, <2>2, <2>4 DEF InTurn
<1>8. NextId(book) = book.minted + 1
  BY DEF NextId
<1> QED BY <1>2, <1>4, <1>6, <1>7, <1>8

LEMMA AskJoinsWakes ==
    ASSUME WInv, QInv', AskJoins
    PROVE  WInv'
<1>1. PICK with : with = line[RelatedAt(hand.job)].id
  OBVIOUS
<1>2. /\ app = "asking" /\ app' = "idle" /\ Refusal(book, with) = "none"
      /\ book' = Admitted(book, with) /\ RelationOf(hand.job) = "Same"
      /\ holder' = [holder EXCEPT ![NextId(book)] = hand.window]
      /\ UNCHANGED <<lane, line, closed, mark, todo, basket, pocket, shown,
                     worker, current, ringing>>
  BY <1>1 DEF AskJoins, lineVars, drainVars, workVars
<1>3. with \in Ids /\ ~Withdraws
  BY <1>1, <1>2, TheRelated, NoneDisplaced DEF WInv
<1>4. /\ KeptIsHeardOf' /\ PocketIsHeardOf' /\ InTurn' /\ MarkStands'
      /\ book'.minted = book.minted + 1 /\ book'.fault = book.fault
  BY <1>2, <1>3, AdmissionWakes
<1>5. WorkerFits'
  BY <1>2, <1>4 DEF WInv, WorkerFits, Withdraws
<1>6. LineInOrder'
  <2>1. \A k \in 1..Len(line) : line[k].id \in Nat
    <3> DEFINE T == [id : Ids, job : Jobs]
    <3>1. line \in Seq(T)
      BY TypedParts DEF WInv
    <3>2. \A e \in T : e.id \in Nat
      BY IdsAreNatural
    <3> HIDE DEF T
    <3> QED BY <3>1, <3>2
  <2>2. current \in Nat /\ book.minted \in Nat
    BY NumbersAre DEF WInv
  <2> QED BY <1>2, <1>4, <2>1, <2>2 DEF WInv, LineInOrder
<1> QED BY <1>4, <1>5, <1>6 DEF WInv

(* The jobs that stay in line stay in their order.                         *)
LEMMA WithoutInOrder ==
    ASSUME line \in Seq([id : Ids, job : Jobs]), NEW n \in 0..Len(line),
           \A a, b \in 1..Len(line) : a < b => line[a].id < line[b].id,
           NEW rest, rest = LineWithout(n)
    PROVE  /\ \A a, b \in 1..Len(rest) : a < b => rest[a].id < rest[b].id
           /\ \A k \in 1..Len(rest) : \E m \in 1..Len(line) : rest[k] = line[m]
<1>1. CASE n = 0
  BY <1>1 DEF LineWithout
<1>2. CASE n # 0
  <2> DEFINE l == Len(line) - 1
  <2>1. n \in 1..(l + 1) /\ l \in Nat /\ Len(line) = l + 1
    BY <1>2
  <2>2. rest = [k \in 1..l |-> IF k < n THEN line[k] ELSE line[k + 1]]
    BY <1>2 DEF LineWithout
  <2>3. \A k \in 1..Len(line) : line[k] \in [id : Ids, job : Jobs]
    <3> DEFINE T == [id : Ids, job : Jobs]
    <3>1. line \in Seq(T)
      OBVIOUS
    <3> HIDE DEF T
    <3>2. \A k \in 1..Len(line) : line[k] \in T
      BY <3>1
    <3> QED BY <3>2 DEF T
  <2> HIDE DEF l
  <2>4. \A k \in 1..l : /\ k \in 1..(l + 1) /\ k + 1 \in 1..(l + 1)
                        /\ rest[k] = IF k < n THEN line[k] ELSE line[k + 1]
    BY <2>1, <2>2
  <2>5. Len(rest) = l
    <3> DEFINE T == [id : Ids, job : Jobs]
    <3>1. rest \in Seq(T)
      BY WithoutIs
    <3>2. DOMAIN rest = 1..l
      BY <2>2
    <3> HIDE DEF T
    <3> QED BY <2>1, <3>1, <3>2
  <2>6. ASSUME NEW a \in 1..l, NEW b \in 1..l, a < b
        PROVE  rest[a].id < rest[b].id
    <3>1. /\ a \in 1..(l + 1) /\ a + 1 \in 1..(l + 1)
          /\ b \in 1..(l + 1) /\ b + 1 \in 1..(l + 1)
          /\ a < b + 1 /\ a + 1 < b + 1 /\ (b < n => a < n)
      BY <2>1, <2>4, <2>6
    <3> QED BY <2>1, <2>4, <2>6, <3>1
  <2> QED BY <2>1, <2>4, <2>5, <2>6
<1> QED BY <1>1, <1>2

LEMMA AppendInOrder ==
    ASSUME NEW T, NEW rest \in Seq(T), NEW e \in T, e.id \in Nat,
           \A a, b \in 1..Len(rest) : a < b => rest[a].id < rest[b].id,
           \A k \in 1..Len(rest) : rest[k].id < e.id,
           NEW s, s = Append(rest, e)
    PROVE  /\ \A a, b \in 1..Len(s) : a < b => s[a].id < s[b].id
           /\ \A k \in 1..Len(s) : s[k].id = e.id \/ \E m \in 1..Len(rest) : s[k] = rest[m]
<1>1. /\ Len(s) = Len(rest) + 1 /\ Len(rest) \in Nat
      /\ \A k \in 1..Len(rest) : s[k] = rest[k]
      /\ s[Len(rest) + 1] = e
  BY BackOfLine
<1> DEFINE l == Len(rest)
<1>2. /\ l \in Nat /\ Len(s) = l + 1
      /\ \A k \in 1..l : s[k] = rest[k] /\ s[k].id < e.id
      /\ s[l + 1].id = e.id
      /\ \A a, b \in 1..l : a < b => rest[a].id < rest[b].id
  BY <1>1
<1> HIDE DEF l
<1>3. ASSUME NEW a \in 1..(l + 1), NEW b \in 1..(l + 1), a < b
      PROVE  s[a].id < s[b].id
  <2>1. a \in 1..l /\ (b \in 1..l \/ b = l + 1)
    BY <1>2, <1>3
  <2> QED BY <1>2, <1>3, <2>1
<1>4. ASSUME NEW k \in 1..(l + 1)
      PROVE  s[k].id = e.id \/ \E m \in 1..l : s[k] = rest[m]
  <2>1. k \in 1..l \/ k = l + 1
    BY <1>2
  <2> QED BY <1>2, <2>1
<1> QED BY <1>2, <1>3, <1>4 DEF l

(* The numbers in line.                                                    *)
LEMMA LineNumbers ==
    ASSUME QInv
    PROVE  \A k \in 1..Len(line) : line[k].id \in Nat /\ line[k].id \in Ids
<1> DEFINE T == [id : Ids, job : Jobs]
<1>1. line \in Seq(T)
  BY TypedParts
<1>2. \A e \in T : e.id \in Nat /\ e.id \in Ids
  BY IdsAreNatural
<1> HIDE DEF T
<1> QED BY <1>1, <1>2

LEMMA AskQueuesWakes ==
    ASSUME WInv, QInv', AskQueues
    PROVE  WInv'
<1>1. PICK id : id = NextId(book)
  OBVIOUS
<1>2. /\ app = "asking" /\ app' = "notifying" /\ Refusal(book, NoId) = "none"
      /\ book' = Admitted(book, NoId)
      /\ holder' = [holder EXCEPT ![NextId(book)] = hand.window]
      /\ line' = Append(line, [id |-> id, job |-> hand.job])
      /\ UNCHANGED <<lane, hand, closed, mark, todo, basket, pocket, shown,
                     worker, current, ringing>>
  BY <1>1 DEF AskQueues, lineVars, drainVars, workVars
<1>3. /\ KeptIsHeardOf' /\ PocketIsHeardOf' /\ InTurn' /\ MarkStands'
      /\ book'.minted = id /\ id = book.minted + 1 /\ book'.fault = book.fault
  BY <1>1, <1>2, AdmissionWakes
<1>4. WorkerFits'
  BY <1>2, <1>3 DEF WInv, WorkerFits, Withdraws
<1>5. /\ line \in Seq([id : Ids, job : Jobs]) /\ hand.job \in Jobs
      /\ book.minted \in Nat /\ current \in Nat
      /\ \A k \in 1..Len(line) : line[k].id \in Nat
  BY TypedParts, NumbersAre, LineNumbers DEF WInv
<1>6. id \in Ids
  BY <1>1, <1>2, AdmissionStands DEF WInv
<1>7. /\ \A a, b \in 1..Len(line) : a < b => line[a].id < line[b].id
      /\ \A k \in 1..Len(line) : line[k].id < id
      /\ worker \in {"taken", "running"} =>
            current < id /\ \A k \in 1..Len(line) : current < line[k].id
  BY <1>3, <1>5 DEF WInv, LineInOrder
<1>8. /\ \A a, b \in 1..Len(line') : a < b => line'[a].id < line'[b].id
      /\ \A k \in 1..Len(line') : line'[k].id = id \/ \E m \in 1..Len(line) : line'[k] = line[m]
  <2>1. /\ \A a, b \in 1..Len(line) : a < b => line[a].id < line[b].id
        /\ \A k \in 1..Len(line) : line[k].id < id
    BY <1>7
  <2> DEFINE T == [id : Ids, job : Jobs]
             e == [id |-> id, job |-> hand.job]
  <2>2. line \in Seq(T) /\ e \in T /\ e.id = id /\ id \in Nat /\ line' = Append(line, e)
    BY <1>2, <1>3, <1>5, <1>6
  <2> HIDE DEF T, e
  <2> QED BY <2>1, <2>2, AppendInOrder
<1>9. LineInOrder'
  <2>1. \A k \in 1..Len(line') : /\ line'[k].id <= id
                                 /\ worker \in {"taken", "running"} => current < line'[k].id
    BY <1>3, <1>5, <1>7, <1>8
  <2>2. worker \in {"taken", "running"} => current <= id
    BY <1>3, <1>5, <1>7
  <2> QED BY <1>2, <1>3, <1>8, <2>1, <2>2 DEF LineInOrder
<1> QED BY <1>3, <1>4, <1>9 DEF WInv

LEMMA AskDisplacesWakes ==
    ASSUME WInv, QInv', AskDisplaces
    PROVE  WInv'
<1>1. PICK id : id = NextId(book)
  OBVIOUS
<1>2. /\ app = "asking" /\ app' = "displacing" /\ Refusal(book, NoId) = "none"
      /\ book' = Admitted(book, NoId) /\ hand' = [hand EXCEPT !.id = id]
      /\ holder' = [holder EXCEPT ![NextId(book)] = hand.window]
      /\ RelationOf(hand.job) = "Displaces"
      /\ UNCHANGED <<lane, line, closed, mark, todo, basket, pocket, shown,
                     worker, current, ringing>>
  BY <1>1 DEF AskDisplaces, lineVars, drainVars, workVars
<1>3. /\ KeptIsHeardOf' /\ PocketIsHeardOf' /\ InTurn' /\ MarkStands'
      /\ book'.minted = id /\ id = book.minted + 1 /\ book'.fault = book.fault
  BY <1>1, <1>2, AdmissionWakes
<1>4. line # <<>>
  BY <1>2, TheRelated DEF WInv
<1>5. WorkerFits'
  BY <1>2, <1>3, <1>4 DEF WInv, WorkerFits, Withdraws
<1>6. /\ book.minted \in Nat /\ current \in Nat
      /\ \A k \in 1..Len(line) : line[k].id \in Nat
  BY NumbersAre, LineNumbers DEF WInv
<1>7. hand'.id = id
  BY <1>2, TypedParts DEF WInv, QInv, TypeOK
<1>8. LineInOrder'
  BY <1>2, <1>3, <1>6, <1>7 DEF WInv, LineInOrder
<1> QED BY <1>3, <1>5, <1>8 DEF WInv

(* A displacement owes the wake, and is no lane's that withdraws.          *)
LEMMA DisplaceWakes ==
    ASSUME WInv, QInv', Displace
    PROVE  WInv'
<1> DEFINE n == RelatedAt(hand.job)
           rest == LineWithout(n)
           displaced == line[n].id
<1>1. /\ app = "displacing" /\ app' = "notifying" /\ hand.id \in Ids
      /\ line' = Append(rest, [id |-> hand.id, job |-> hand.job])
      /\ book' = IF PublishAccepted(book, displaced)
                 THEN Published(book, displaced, Superseded(hand.id)) ELSE book
      /\ hand' = [hand EXCEPT !.wake = TRUE]
      /\ UNCHANGED <<lane, closed, holder, mark, todo, basket, pocket, shown,
                     worker, current, ringing>>
  BY DEF Displace, drainVars, workVars, WInv, QInv, CallFits
<1>2. /\ line \in Seq([id : Ids, job : Jobs]) /\ hand.job \in Jobs
  BY TypedParts DEF WInv
<1>3. n \in 0..Len(line)
  BY <1>2, RelatedIs
<1>4. Superseded(hand.id) \in Publishable
  BY <1>1, PlainTerminals
<1> HIDE DEF n, rest, displaced
<1>5. book'.minted = book.minted /\ book'.fault = book.fault
  BY <1>1, <1>4, PublishedAfter DEF WInv, QInv, After
<1>6. hand'.wake
  BY <1>1 DEF WInv, QInv, TypeOK
<1>7. KeptIsHeardOf' /\ PocketIsHeardOf' /\ MarkStands'
  BY <1>1, <1>6, WakeBrings DEF WakeIsComing
<1>8. ~Withdraws /\ ~Withdraws'
  BY <1>1, NoneDisplaced DEF WInv, Withdraws
<1>9. InTurn'
  BY <1>8 DEF InTurn
<1>10. WorkerFits'
  BY <1>1, <1>5 DEF WInv, WorkerFits, Withdraws
<1>11. rest \in Seq([id : Ids, job : Jobs])
  BY <1>2, <1>3, WithoutIs DEF rest
<1>12. /\ \A a, b \in 1..Len(rest) : a < b => rest[a].id < rest[b].id
       /\ \A k \in 1..Len(rest) : \E m \in 1..Len(line) : rest[k] = line[m]
  BY <1>2, <1>3, WithoutInOrder DEF WInv, LineInOrder, rest
<1>13. /\ \A k \in 1..Len(rest) : rest[k].id < hand.id
       /\ hand.id = book.minted /\ (worker \in {"taken", "running"} => current < hand.id)
       /\ worker \in {"taken", "running"} => \A k \in 1..Len(rest) : current < rest[k].id
  BY <1>1, <1>12 DEF WInv, LineInOrder
<1>14. /\ \A a, b \in 1..Len(line') : a < b => line'[a].id < line'[b].id
       /\ \A k \in 1..Len(line') : line'[k].id = hand.id \/ \E m \in 1..Len(rest) : line'[k] = rest[m]
  <2>1. /\ \A a, b \in 1..Len(rest) : a < b => rest[a].id < rest[b].id
        /\ \A k \in 1..Len(rest) : rest[k].id < hand.id
    BY <1>12, <1>13
  <2> DEFINE T == [id : Ids, job : Jobs]
             e == [id |-> hand.id, job |-> hand.job]
  <2>2. /\ rest \in Seq(T) /\ e \in T /\ e.id = hand.id /\ hand.id \in Nat
        /\ line' = Append(rest, e)
    BY <1>1, <1>2, <1>11, IdsAreNatural
  <2> HIDE DEF T, e
  <2> QED BY <2>1, <2>2, AppendInOrder
<1>15. /\ \A k \in 1..Len(line) : line[k].id \in Nat
       /\ current \in Nat /\ hand.id \in Nat
  BY NumbersAre, LineNumbers DEF WInv
<1>16. \A k \in 1..Len(line') : /\ line'[k].id <= hand.id
                                /\ worker \in {"taken", "running"} => current < line'[k].id
  <2>1. \A k \in 1..Len(rest) : rest[k].id \in Nat
    BY <1>12, <1>15
  <2> SUFFICES ASSUME NEW k \in 1..Len(line')
               PROVE  /\ line'[k].id <= hand.id
                      /\ worker \in {"taken", "running"} => current < line'[k].id
    OBVIOUS
  <2>2. CASE line'[k].id = hand.id
    BY <1>13, <1>15, <2>2
  <2>3. ASSUME NEW m \in 1..Len(rest), line'[k] = rest[m]
        PROVE  /\ line'[k].id <= hand.id
               /\ worker \in {"taken", "running"} => current < line'[k].id
    BY <1>13, <1>15, <2>1, <2>3
  <2> QED BY <1>14, <2>2, <2>3
<1>17. LineInOrder'
  BY <1>1, <1>5, <1>13, <1>14, <1>15, <1>16 DEF LineInOrder
<1> QED BY <1>7, <1>9, <1>10, <1>17 DEF WInv

LEMMA WithdrawBeginsWakes ==
    ASSUME WInv, QInv', NEW id \in Ids, WithdrawBegins(id)
    PROVE  WInv'
<1> DEFINE n == PlaceInLine(id)
           rest == LineWithout(n)
<1>1. /\ app = "idle" /\ line' = rest /\ Withdraws
      /\ hand' = [NoHand EXCEPT !.id = id]
      /\ app' \in {"withdrawing", "superseding"}
      /\ UNCHANGED <<book, lane, closed, holder, mark, todo, basket, pocket, shown,
                     worker, current, ringing>>
  BY DEF WithdrawBegins, drainVars, workVars
<1>2. line \in Seq([id : Ids, job : Jobs])
  BY TypedParts DEF WInv
<1>3. n \in 0..Len(line)
  BY <1>2, PlaceIs
<1> HIDE DEF n
<1>4. /\ \A a, b \in 1..Len(rest) : a < b => rest[a].id < rest[b].id
      /\ \A k \in 1..Len(rest) : \E m \in 1..Len(line) : rest[k] = line[m]
  BY <1>2, <1>3, WithoutInOrder DEF WInv, LineInOrder
<1>5. LineInOrder'
  BY <1>1, <1>4 DEF WInv, LineInOrder
<1>6. line = <<>> => line' = <<>>
  BY <1>1, <1>3 DEF LineWithout
<1>7. WorkerFits'
  BY <1>1, <1>6 DEF WInv, WorkerFits, Withdraws
<1>8. (WakeIsComing <=> WakeIsComing') /\ Answers(pocket)' = Answers(pocket) /\ Withdraws'
  BY <1>1 DEF WakeIsComing, Answers, Withdraws
<1>9. KeptIsHeardOf'
  BY <1>1, <1>8 DEF WInv, KeptIsHeardOf, BeingReplaced
<1>10. PocketIsHeardOf' /\ MarkStands'
  BY <1>1, <1>8 DEF WInv, PocketIsHeardOf, MarkStands
<1>11. InTurn'
  BY <1>1, <1>8 DEF WInv, InTurn, BeingReplaced
<1> QED BY <1>5, <1>7, <1>9, <1>10, <1>11 DEF WInv

-----------------------------------------------------------------------------
(* The end a withdrawal publishes: no wake follows it, and none is owed.   *)
LEMMA AskerEndsWakes ==
    ASSUME WInv, QInv', WithdrawEnds \/ SupersedeEnds
    PROVE  WInv'
<1> DEFINE id == hand.id
<1>1. /\ UNCHANGED <<lane, line, closed, hand, holder, mark, todo, basket, pocket, shown,
                     worker, current, ringing>>
      /\ app \in {"withdrawing", "superseding"}
      /\ app' = IF app = "withdrawing" THEN "letting_go" ELSE "taking"
  BY DEF WithdrawEnds, SupersedeEnds, lineVars, drainVars, workVars
<1>2. id \in Held /\ id \in Entries(book) /\ id \in Ids
  BY <1>1, OwedIsEntered DEF WInv, QInv, CallFits, Held
<1>3. PICK t \in Publishable :
         /\ book' = IF PublishAccepted(book, id) THEN Published(book, id, t) ELSE book
         /\ app = "superseding" => t.kind = "Superseded"
  <2>1. CASE WithdrawEnds
    BY <2>1, PlainTerminals DEF WithdrawEnds, PublishedByAsker
  <2>2. CASE SupersedeEnds
    <3>1. book.minted \in 0..MaxMinted /\ id < book.minted
      BY <1>2, <2>2 DEF SupersedeEnds, WInv, QInv, CallFits, BookInv, Books
    <3>2. book.minted \in Ids
      BY <1>2, <3>1, IdsAreNatural DEF Ids
    <3>3. Superseded(book.minted) \in Publishable /\ Superseded(book.minted).kind = "Superseded"
      BY <3>2, PlainTerminals DEF Superseded, Plain
    <3> QED BY <2>2, <3>3 DEF SupersedeEnds, PublishedByAsker
  <2> QED BY <2>1, <2>2
<1>4. Withdraws /\ Withdraws' /\ (\A i \in Ids : book.twin[i] = NoId) /\ app # "displacing"
  BY <1>1 DEF WInv, WorkerFits, InTurn, Withdraws
<1>5. book'.minted = book.minted /\ book'.fault = book.fault
  BY <1>3, PublishedAfter DEF WInv, QInv, After
<1>6. LineInOrder' /\ WorkerFits'
  BY <1>1, <1>4, <1>5 DEF WInv, LineInOrder, WorkerFits
<1>7. /\ WakeIsComing' <=> WakeIsComing
      /\ \A i : i \in pocket => i # id
  BY <1>1, <1>2 DEF WakeIsComing, WInv, QInv, HoldersFit, Entries
<1>8. CASE PublishAccepted(book, id)
  <2>1. /\ After(book, book', {id}) /\ book'.terminal[id] = t /\ id \in Owed(book)
    BY <1>3, <1>4, <1>8, PublishedAfter DEF WInv, QInv, PublishAccepted
  <2>2. \A i \in Kept(book') : i = id => BeingReplaced(i)'
    BY <1>1, <1>3, <2>1 DEF BeingReplaced
  <2>3. ASSUME NEW i \in Kept(book'), i # id
        PROVE  i \in Kept(book) /\ ~BeingReplaced(i)
    BY <1>1, <2>1, <2>3 DEF After, BeingReplaced
  <2>4. ASSUME NEW i \in Kept(book), NEW j \in Owed(book), j < i
        PROVE  j = id /\ WakeIsComing
    BY <1>1, <1>4, <2>4 DEF WInv, InTurn, BeingReplaced
  <2>5. KeptIsHeardOf'
    <3> SUFFICES ASSUME NEW i \in Kept(book'), i # id, ~WakeIsComing
                 PROVE  FALSE
      BY <1>7, <2>2 DEF KeptIsHeardOf
    <3>1. i \in Kept(book) /\ ~BeingReplaced(i)
      BY <2>3
    <3>2. \E j \in Owed(book) : j < i
      BY <1>1, <3>1 DEF WInv, KeptIsHeardOf
    <3> QED BY <2>4, <3>1, <3>2
  <2>6. Answers(pocket)' = Answers(pocket)
    BY <1>1, <1>7, <2>1, TypedParts DEF WInv, Answers, After
  <2>7. PocketIsHeardOf' /\ MarkStands'
    BY <1>1, <1>7, <2>6 DEF WInv, PocketIsHeardOf, MarkStands
  <2>8. InTurn'
    <3>1. \A i \in Ids : book'.twin[i] = NoId
      BY <1>4, <2>1 DEF After
    <3>2. ASSUME NEW i \in Kept(book'), NEW j \in Owed(book'), j < i
          PROVE  BeingReplaced(i)'
      <4>1. j \in Owed(book) /\ j # id
        BY <2>1 DEF After
      <4> QED BY <2>2, <2>3, <2>4, <3>2, <4>1
    <3>3. ASSUME NEW i \in Answers(pocket), NEW j \in Owed(book'), j < i
          PROVE  FALSE
      <4>1. j \in Owed(book) /\ j # id
        BY <2>1 DEF After
      <4> QED BY <1>1, <1>4, <3>3, <4>1 DEF WInv, InTurn, BeingReplaced
    <3> QED BY <2>6, <3>1, <3>2, <3>3 DEF InTurn
  <2> QED BY <1>6, <2>5, <2>7, <2>8 DEF WInv
<1>9. CASE ~PublishAccepted(book, id)
  <2>1. book' = book /\ id \in Kept(book)
    <3>1. book' = book
      BY <1>3, <1>9
    <3>2. id \notin Owed(book)
      BY <1>2, <1>4, <1>9 DEF PublishAccepted
    <3> QED BY <1>2, <3>1, <3>2 DEF Entries, Owed, Kept
  <2>2. \A j \in Owed(book) : j # id
    BY <2>1 DEF Owed, Kept
  <2>3. Answers(pocket)' = Answers(pocket)
    BY <1>1, <2>1 DEF Answers
  <2>4. KeptIsHeardOf'
    BY <1>1, <1>7, <2>1 DEF WInv, KeptIsHeardOf, BeingReplaced
  <2>5. PocketIsHeardOf' /\ MarkStands'
    BY <1>1, <1>7, <2>1, <2>3 DEF WInv, PocketIsHeardOf, MarkStands
  <2>6. InTurn'
    BY <1>1, <1>4, <2>1, <2>2, <2>3 DEF WInv, InTurn, BeingReplaced
  <2> QED BY <1>6, <2>4, <2>5, <2>6 DEF WInv
<1> QED BY <1>8, <1>9

(* A request let go, by its withdrawal or with its window.                 *)
LEMMA DropWakes ==
    ASSUME WInv, QInv', WithdrawLetsGo \/ \E id \in Ids : LetGo(id)
    PROVE  WInv'
<1> DEFINE LetsGo(id) ==
       /\ UNCHANGED <<lane, line, closed, holder, mark, todo, basket, pocket, shown,
                      worker, current, ringing>>
       /\ book' = Dropped(book, id)
       /\ \/ app = "letting_go" /\ app' = "idle" /\ id = hand.id
          \/ app \in {"idle", "dropped"} /\ app' = app /\ hand' = hand
<1>1. PICK id \in Entries(book) : LetsGo(id)
  <2>1. CASE WithdrawLetsGo
    <3>1. hand.id \in Entries(book)
      BY <2>1 DEF WithdrawLetsGo, WInv, QInv, CallFits, Held
    <3> QED BY <2>1, <3>1 DEF WithdrawLetsGo, lineVars, drainVars, workVars
  <2>2. ASSUME NEW id \in Ids, LetGo(id)
        PROVE  id \in Entries(book) /\ LetsGo(id)
    BY <2>2 DEF LetGo, Held, lineVars, appVars, drainVars, workVars
  <2> QED BY <2>1, <2>2
<1>2. /\ After(book, book', {}) /\ book'.fault = book.fault /\ id \notin Kept(book')
      /\ \A i \in Ids : book'.terminal[i] = book.terminal[i]
  BY <1>1, DroppedAfter DEF WInv, QInv
<1>3. /\ book'.minted = book.minted /\ Owed(book') = Owed(book) /\ Kept(book') \subseteq Kept(book)
      /\ Withdraws' = Withdraws /\ (WakeIsComing' <=> WakeIsComing)
  BY <1>1, <1>2 DEF After, Withdraws, WakeIsComing
<1>4. LineInOrder' /\ WorkerFits'
  BY <1>1, <1>2, <1>3 DEF WInv, LineInOrder, WorkerFits
<1>5. \A i \in Kept(book') : BeingReplaced(i)' <=> BeingReplaced(i)
  BY <1>1, <1>2 DEF BeingReplaced
<1>6. KeptIsHeardOf'
  BY <1>1, <1>3, <1>5 DEF WInv, KeptIsHeardOf
<1>7. Answers(pocket)' = Answers(pocket)
  BY <1>1, <1>2, TypedParts DEF WInv, Answers
<1>8. PocketIsHeardOf' /\ MarkStands'
  BY <1>1, <1>3, <1>7 DEF WInv, PocketIsHeardOf, MarkStands
<1>9. InTurn'
  <2>1. Withdraws => \A i \in Ids : book'.twin[i] = NoId
    BY <1>2 DEF WInv, InTurn, After
  <2>2. \A i \in Answers(pocket) : ~BeingReplaced(i)
    BY DEF WInv, QInv, CallFits, HoldersFit, BeingReplaced, Answers, Held, Entries
  <2> QED BY <1>1, <1>3, <1>5, <1>7, <2>1, <2>2 DEF WInv, InTurn
<1> QED BY <1>4, <1>6, <1>8, <1>9 DEF WInv

LEMMA CloseWakes ==
    ASSUME WInv, QInv', Close
    PROVE  WInv'
<1>1. /\ UNCHANGED <<book, lane, line, hand, holder, mark, todo, basket, shown, current, ringing>>
      /\ app = "idle" /\ app' = "dropped" /\ pocket' = {}
      /\ worker' = worker \/ (worker = "asleep" /\ worker' = "looking")
      /\ worker' # "asleep"
  BY DEF Close
<1>2. LineInOrder' /\ WorkerFits'
  BY <1>1 DEF WInv, LineInOrder, WorkerFits, Withdraws
<1>3. KeptIsHeardOf' /\ PocketIsHeardOf' /\ MarkStands'
  BY <1>1 DEF KeptIsHeardOf, PocketIsHeardOf, MarkStands
<1>4. Answers(pocket)' = {} /\ Withdraws' = Withdraws
  BY <1>1 DEF Answers, Withdraws
<1>5. InTurn'
  BY <1>1, <1>4 DEF WInv, InTurn, BeingReplaced
<1> QED BY <1>2, <1>3, <1>5 DEF WInv

(* An answer taken on a replacement waits in the pocket for a wake that is *)
(* on its way.                                                             *)
LEMMA SupersedeTakesWakes ==
    ASSUME WInv, QInv', SupersedeTakes
    PROVE  WInv'
<1> DEFINE id == hand.id
<1>1. /\ UNCHANGED <<lane, line, closed, holder, mark, todo, basket, shown, worker, current, ringing>>
      /\ app = "taking" /\ app' = "idle" /\ id \in Kept(book)
      /\ book' = Taken(book, id) /\ pocket' = pocket \cup {id}
  BY DEF SupersedeTakes, lineVars, workVars
<1>2. /\ After(book, book', {}) /\ book'.fault = book.fault
      /\ id \notin Kept(book') /\ book'.terminal = book.terminal
  BY <1>1, TakenAfter DEF WInv, QInv
<1>3. /\ book'.minted = book.minted /\ Owed(book') = Owed(book) /\ Kept(book') \subseteq Kept(book)
      /\ Withdraws /\ Withdraws' /\ (WakeIsComing' <=> WakeIsComing)
  BY <1>1, <1>2 DEF After, Withdraws, WakeIsComing, WInv, WorkerFits
<1>4. LineInOrder' /\ WorkerFits'
  BY <1>1, <1>2, <1>3 DEF WInv, LineInOrder, WorkerFits
<1>5. \A i \in Kept(book') : i # id /\ ~BeingReplaced(i)
  BY <1>2 DEF BeingReplaced
<1>6. KeptIsHeardOf' /\ MarkStands'
  BY <1>1, <1>3, <1>5 DEF WInv, KeptIsHeardOf, MarkStands
<1>7. Answers(pocket)' \subseteq Answers(pocket) \cup {id}
      /\ (id \in Answers(pocket)' => ~BeingReplaced(id))
  BY <1>1, <1>2 DEF Answers, BeingReplaced
<1>8. \A i \in Answers(pocket) : i # id
  BY <1>1 DEF WInv, QInv, HoldersFit, Answers, Kept
<1>9. ASSUME id \in Answers(pocket)'
      PROVE  WakeIsComing /\ \A j \in Owed(book) : ~(j < id)
  <2>1. \A j \in Owed(book) : ~(j < id)
    BY <1>1, <1>3, <1>7, <1>9 DEF WInv, InTurn
  <2> QED BY <1>1, <1>7, <1>9, <2>1 DEF WInv, KeptIsHeardOf
<1>10. PocketIsHeardOf'
  BY <1>1, <1>3, <1>7, <1>9 DEF WInv, PocketIsHeardOf
<1>11. InTurn'
  <2>1. \A i \in Ids : book'.twin[i] = NoId
    BY <1>2, <1>3 DEF WInv, InTurn, After
  <2>2. \A i \in Answers(pocket) : ~BeingReplaced(i)
    BY <1>8 DEF BeingReplaced
  <2> QED BY <1>1, <1>3, <1>5, <1>7, <1>9, <2>1, <2>2 DEF WInv, InTurn
<1> QED BY <1>4, <1>6, <1>10, <1>11 DEF WInv

-----------------------------------------------------------------------------
(* The drain takes the wake with it, and comes to every window after it.   *)
LEMMA DrainBeginsWakes ==
    ASSUME WInv, QInv', DrainBegins
    PROVE  WInv'
<1>1. /\ UNCHANGED <<book, lane, line, closed, hand, holder, basket, pocket, shown, worker, current>>
      /\ app = "idle" /\ app' = "draining"
      /\ mark' = EarliestOwed(book) /\ todo' = Windows
  BY DEF DrainBegins, lineVars, workVars
<1>2. LineInOrder' /\ WorkerFits'
  BY <1>1 DEF WInv, LineInOrder, WorkerFits, Withdraws
<1>3. Answers(pocket)' = Answers(pocket) /\ Withdraws' = Withdraws
  BY <1>1 DEF Answers, Withdraws
<1>4. \A i \in Kept(book) \cup Answers(pocket) : holder[i] \in todo'
  BY <1>1, OwedIsEntered DEF WInv, QInv, HoldersFit, ToCome, Answers
<1>5. KeptIsHeardOf' /\ PocketIsHeardOf'
  BY <1>1, <1>3, <1>4 DEF KeptIsHeardOf, PocketIsHeardOf
<1>6. MarkStands'
  <2>1. EarliestOwed(book) = NoId \/ EarliestOwed(book) \in Owed(book)
    <3>1. CASE Owed(book) = {}
      BY <3>1 DEF EarliestOwed
    <3>2. CASE Owed(book) # {}
      <4>1. Owed(book) \subseteq Nat
        BY NumbersAre DEF WInv
      <4>2. First(Owed(book)) # {}
        BY <3>2, <4>1, LeastIs DEF First
      <4>3. EarliestOwed(book) \in First(Owed(book))
        BY <3>2, <4>2 DEF EarliestOwed
      <4> QED BY <4>3 DEF First
    <3> QED BY <3>1, <3>2
  <2> QED BY <1>1, <2>1 DEF MarkStands
<1>7. InTurn'
  BY <1>1, <1>3 DEF WInv, InTurn, BeingReplaced
<1> QED BY <1>2, <1>5, <1>6, <1>7 DEF WInv

LEMMA DrainTakesWakes ==
    ASSUME WInv, QInv', NEW w \in Windows, DrainTakes(w)
    PROVE  WInv'
<1>1. PICK i \in Takeable(w) :
         /\ UNCHANGED <<lane, line, closed, app, hand, holder, mark, todo, pocket, shown,
                        worker, current, ringing>>
         /\ app = "draining" /\ i \in Kept(book) /\ book' = Taken(book, i)
  BY DEF DrainTakes, Takeable, lineVars, appVars, workVars
<1>2. /\ After(book, book', {}) /\ book'.fault = book.fault /\ book'.terminal = book.terminal
  BY <1>1, TakenAfter DEF WInv, QInv
<1>3. /\ book'.minted = book.minted /\ Owed(book') = Owed(book) /\ Kept(book') \subseteq Kept(book)
      /\ Withdraws' = Withdraws /\ (WakeIsComing' <=> WakeIsComing)
      /\ Answers(pocket)' = Answers(pocket)
  BY <1>1, <1>2 DEF After, Withdraws, WakeIsComing, Answers
<1>4. LineInOrder' /\ WorkerFits'
  BY <1>1, <1>2, <1>3 DEF WInv, LineInOrder, WorkerFits
<1>5. KeptIsHeardOf' /\ PocketIsHeardOf' /\ MarkStands'
  BY <1>1, <1>3 DEF WInv, KeptIsHeardOf, PocketIsHeardOf, MarkStands, BeingReplaced
<1>6. InTurn'
  <2>1. Withdraws => \A k \in Ids : book'.twin[k] = NoId
    BY <1>2 DEF WInv, InTurn, After
  <2> QED BY <1>1, <1>3, <2>1 DEF WInv, InTurn, BeingReplaced
<1> QED BY <1>4, <1>5, <1>6 DEF WInv

(* What a window leaves is past the mark, whose own end brings a wake.     *)
LEMMA DrainLeavesWakes ==
    ASSUME WInv, QInv', NEW w \in Windows, DrainLeaves(w)
    PROVE  WInv'
<1> DEFINE turned == {i \in pocket : holder[i] = w /\ Below(mark, i)}
<1>1. /\ UNCHANGED <<book, lane, line, closed, app, hand, holder, mark, shown,
                     worker, current, ringing>>
      /\ app = "draining" /\ Takeable(w) = {}
      /\ pocket' = pocket \ turned /\ todo' = todo \ {w}
  BY DEF DrainLeaves, lineVars, appVars, workVars
<1>2. LineInOrder' /\ WorkerFits'
  BY <1>1 DEF WInv, LineInOrder, WorkerFits, Withdraws
<1>3. /\ Answers(pocket)' = Answers(pocket) \ turned /\ Withdraws' = Withdraws
      /\ WakeIsComing' <=> WakeIsComing
  BY <1>1 DEF Answers, Withdraws, WakeIsComing
<1>4. ASSUME NEW i, i \notin Owed(book), i \in Ids, ~Below(mark, i), ~WakeIsComing
      PROVE  \E j \in Owed(book) : j < i
  <2>1. mark \in Owed(book) /\ mark # i /\ ~(i < mark)
    BY <1>1, <1>4 DEF WInv, MarkStands, Below
  <2>2. mark \in Nat /\ i \in Nat
    BY <1>4, <2>1, NumbersAre, IdsAreNatural DEF WInv
  <2> QED BY <2>1, <2>2
<1>5. KeptIsHeardOf'
  <2> SUFFICES ASSUME NEW i \in Kept(book), holder[i] = w, ~WakeIsComing
               PROVE  \E j \in Owed(book) : j < i
    BY <1>1, <1>3 DEF WInv, KeptIsHeardOf, BeingReplaced
  <2>1. i \in Held
    <3>1. i \in Entries(book) /\ i \in Ids /\ book.place[i] = "kept"
      BY OwedIsEntered DEF Kept
    <3>2. ~book.gone[i]
      BY <3>1 DEF WInv, QInv, BookInv, PlacedByRequester
    <3>3. NoWindow \notin Windows
      BY QueueAssumption DEF WInv, QInv, TypeOK, Windows
    <3> QED BY <3>1, <3>2, <3>3 DEF Held
  <2>2. ~Below(mark, i)
    BY <1>1, <2>1 DEF Takeable, MayTake
  <2>3. i \in Ids /\ i \notin Owed(book)
    BY DEF Kept, Owed
  <2> QED BY <1>4, <2>2, <2>3
<1>6. PocketIsHeardOf'
  <2> SUFFICES ASSUME NEW i \in Answers(pocket), i \notin turned, holder[i] = w, ~WakeIsComing
               PROVE  FALSE
    BY <1>1, <1>3 DEF WInv, PocketIsHeardOf
  <2>1. i \in pocket /\ i \in Ids /\ i \notin Owed(book)
    BY TypedParts DEF WInv, QInv, HoldersFit, Answers, Owed
  <2>2. \E j \in Owed(book) : j < i
    BY <1>4, <2>1
  <2>3. Withdraws
    BY <2>1 DEF WInv, WorkerFits
  <2> QED BY <1>1, <2>2, <2>3 DEF WInv, InTurn, BeingReplaced
<1>7. MarkStands'
  BY <1>1, <1>3 DEF WInv, MarkStands
<1>8. InTurn'
  BY <1>1, <1>3 DEF WInv, InTurn, BeingReplaced
<1> QED BY <1>2, <1>5, <1>6, <1>7, <1>8 DEF WInv

LEMMA DrainAnswersWakes ==
    ASSUME WInv, QInv', DrainAnswers
    PROVE  WInv'
<1>1. UNCHANGED <<book, lane, line, app, hand, holder, mark, todo, pocket, worker, current, ringing>>
  BY DEF DrainAnswers, lineVars, appVars, workVars
<1>2. KeptIsHeardOf' /\ PocketIsHeardOf' /\ InTurn' /\ MarkStands'
  BY <1>1, HeardStands DEF WakeIsComing
<1>3. LineInOrder' /\ WorkerFits'
  BY <1>1 DEF WInv, LineInOrder, WorkerFits, Withdraws
<1> QED BY <1>2, <1>3 DEF WInv

LEMMA DrainEndsWakes ==
    ASSUME WInv, QInv', DrainEnds
    PROVE  WInv'
<1>1. /\ UNCHANGED <<book, lane, line, hand, holder, todo, pocket, worker, current, ringing>>
      /\ app = "draining" /\ todo = {} /\ app' = "idle"
  BY DEF DrainEnds, lineVars, workVars
<1>2. /\ Answers(pocket)' = Answers(pocket) /\ Withdraws' = Withdraws
      /\ WakeIsComing' <=> WakeIsComing
  BY <1>1 DEF Answers, Withdraws, WakeIsComing
<1>3. KeptIsHeardOf' /\ PocketIsHeardOf' /\ MarkStands'
  BY <1>1, <1>2 DEF WInv, KeptIsHeardOf, PocketIsHeardOf, MarkStands, BeingReplaced
<1>4. InTurn'
  BY <1>1, <1>2 DEF WInv, InTurn, BeingReplaced
<1>5. LineInOrder' /\ WorkerFits'
  BY <1>1 DEF WInv, LineInOrder, WorkerFits, Withdraws
<1> QED BY <1>3, <1>4, <1>5 DEF WInv

-----------------------------------------------------------------------------
LEMMA WakesInit ==
    ASSUME Init
    PROVE  WInv
<1>1. /\ book = EmptyBook /\ line = <<>> /\ app = "idle" /\ worker = "unstarted"
      /\ pocket = {}
  BY DEF Init
<1>2. /\ Owed(book) = {} /\ Kept(book) = {} /\ Answers(pocket) = {} /\ book.minted = 0
      /\ \A i \in Ids : book.twin[i] = NoId
  BY <1>1 DEF EmptyBook, Owed, Kept, Answers
<1>3. KeptIsHeardOf /\ PocketIsHeardOf /\ InTurn /\ MarkStands /\ LineInOrder /\ WorkerFits
  BY <1>1, <1>2
     DEF KeptIsHeardOf, PocketIsHeardOf, InTurn, MarkStands, LineInOrder, WorkerFits
<1> QED BY <1>3, QueueInitInv DEF WInv

LEMMA WakesStand ==
    ASSUME WInv, QInv', UNCHANGED vars
    PROVE  WInv'
<1>1. UNCHANGED <<book, lane, line, app, hand, holder, mark, todo, pocket, worker, current, ringing>>
  BY DEF vars, lineVars, appVars, drainVars, workVars
<1>2. KeptIsHeardOf' /\ PocketIsHeardOf' /\ InTurn' /\ MarkStands'
  BY <1>1, HeardStands DEF WakeIsComing
<1>3. LineInOrder' /\ WorkerFits'
  BY <1>1 DEF WInv, LineInOrder, WorkerFits, Withdraws
<1> QED BY <1>2, <1>3 DEF WInv

LEMMA WakesNext ==
    ASSUME WInv, [Next]_(vars)
    PROVE  WInv'
<1>q. QInv'
  BY QueueNextInv DEF WInv
<1>1. CASE AppChooses
  <2>1. ASSUME NEW w \in Windows, NEW job \in Jobs, AskBegins(w, job) PROVE WInv'
    BY <1>q, <2>1, AppQuietlyWakes
  <2>2. ASSUME NEW id \in Ids, WithdrawBegins(id) \/ LetGo(id) PROVE WInv'
    BY <1>q, <2>2, WithdrawBeginsWakes, DropWakes
  <2> QED BY <1>1, <1>q, <2>1, <2>2, CloseWakes DEF AppChooses
<1>2. CASE AppGoesOn
  <2>1. CASE \/ AskRefused \/ AskJoins \/ AskQueues \/ AskDisplaces
             \/ Displace \/ Notify \/ WakeSelf
    BY <1>q, <2>1, AppQuietlyWakes, AskJoinsWakes, AskQueuesWakes, AskDisplacesWakes, DisplaceWakes
  <2>2. CASE \/ WithdrawEnds \/ WithdrawLetsGo \/ SupersedeEnds
             \/ SupersedeTakes
    BY <1>q, <2>2, AskerEndsWakes, DropWakes, SupersedeTakesWakes
  <2>3. CASE DrainBegins \/ DrainAnswers \/ DrainEnds
    BY <1>q, <2>3, DrainBeginsWakes, DrainAnswersWakes, DrainEndsWakes
  <2>4. ASSUME NEW w \in Windows, DrainTakes(w) \/ DrainLeaves(w) PROVE WInv'
    BY <1>q, <2>4, DrainTakesWakes, DrainLeavesWakes
  <2> QED BY <1>2, <2>1, <2>2, <2>3, <2>4 DEF AppGoesOn
<1>3. CASE WorkerGoesOn \/ Stir \/ Panic
  BY <1>3, <1>q, WorkQuietlyWakes, PopWakes, PublishWakes, EndsWakes DEF WorkerGoesOn
<1>4. CASE UNCHANGED vars
  BY <1>4, <1>q, WakesStand
<1> QED BY <1>1, <1>2, <1>3, <1>4 DEF Next

(* At rest nothing is owed, so nothing kept waits for an end to come.      *)
LEMMA RestIsHeard ==
    ASSUME WInv
    PROVE  NoAnswerIsMissed
<1> SUFFICES ASSUME WindowRests, WorkerRests
             PROVE  Entries(book) = {} /\ Answers(basket \cup pocket) = {}
  BY DEF NoAnswerIsMissed
<1>1. /\ app = "idle" /\ ~WakeIsComing /\ worker \in {"unstarted", "asleep", "ended"}
  BY DEF WindowRests, WorkerRests, WakeIsComing
<1>2. Owed(book) = {}
  <2>1. CASE worker = "unstarted"
    BY <2>1 DEF WInv, WorkerFits, QInv, BookInv, Books, MintedInOrder, Owed, Ids
  <2>2. CASE worker = "asleep"
    <3>1. line = <<>>
      BY <1>1, <2>2 DEF WInv, WorkerFits
    <3>2. InLine = {}
      BY <3>1 DEF InLine
    <3>3. Operations(book) = {}
      BY <1>1, <2>2, <3>2 DEF WInv, QInv, OwedIsReachable
    <3> QED BY <3>3 DEF Operations, Owed, WInv, QInv, BookInv, TwinIsOwed
  <2>3. CASE worker = "ended"
    BY <2>3 DEF WInv, WorkerFits, QInv, BookInv, FaultOwesNothing
  <2> QED BY <1>1, <2>1, <2>2, <2>3
<1>3. Kept(book) = {}
  BY <1>1, <1>2 DEF WInv, KeptIsHeardOf, BeingReplaced
<1>4. Answers(pocket) = {}
  BY <1>1 DEF WInv, PocketIsHeardOf
<1>5. basket = {}
  BY <1>1 DEF WInv, QInv, DrainFits
<1> QED BY <1>2, <1>3, <1>4, <1>5, OwedIsEntered DEF Answers

LEMMA WakesInvariance == Spec => []WInv
<1>1. Init => WInv
  BY WakesInit
<1>2. WInv /\ [Next]_(vars) => WInv'
  BY WakesNext
<1> QED BY <1>1, <1>2, PTL DEF Spec

(* No answer is missed, whatever the lane's policies, however many windows *)
(* ask, and whenever the worker publishes or dies: when the window and the *)
(* worker both wait, every request has come to its window or its sink.     *)
THEOREM AnswersAreNotMissed == Spec => []NoAnswerIsMissed
<1>1. WInv => NoAnswerIsMissed
  BY RestIsHeard
<1> QED BY <1>1, WakesInvariance, PTL
=============================================================================
