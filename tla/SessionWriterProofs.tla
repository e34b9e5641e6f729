------------------------ MODULE SessionWriterProofs ------------------------
(***************************************************************************)
(* What the session store keeps true for every number of changes, of       *)
(* faults, of quits and of news from the system: the invariance of TypeOK, *)
(* NothingOwedIsOnDisk and SentinelVouchesUnlessLost of SessionWriter.     *)
(***************************************************************************)
EXTENDS SessionWriter, TLAPS, WellFoundedInduction

-----------------------------------------------------------------------------
(* How a store and its lane fit each other, with d on the disk, doc in     *)
(* memory, and gone when a document was let go.                            *)

Newest(s, l) == {n \in 1..Len(l.receipts) : l.receipts[n].generation = s.sent}

(* Receipts and jobs come in the order of their generations, and only the  *)
(* last of them is of the newest document.                                 *)
Numbered(s, l) ==
    /\ \A n \in 1..Len(l.receipts) :
          \/ l.receipts[n].generation < s.sent
          \/ l.receipts[n].generation = s.sent /\ n = Len(l.receipts) /\ l.queue = <<>>
    /\ \A n \in 1..Len(l.queue) :
          /\ l.queue[n].generation <= s.sent
          /\ l.queue[n].generation = s.sent <=> n = Len(l.queue)

(* Only a running worker has a queue, and a document it has written is the *)
(* one on the disk.                                                        *)
WorkerFits(l, d) ==
    /\ l.worker # "running" => l.queue = <<>>
    /\ l.step # "idle" => l.queue # <<>>
    /\ l.step = "landed" => d = l.queue[1].document

(* The newest document sent is the session, unless that has changed since, *)
(* or was let go.                                                          *)
IsSession(s, document, doc, gone) == document = doc \/ s.dirty \/ s.again \/ gone

NewestFits(s, l, d, doc, gone) ==
    /\ l.queue # <<>> => IsSession(s, l.queue[Len(l.queue)].document, doc, gone)
    /\ \A n \in Newest(s, l) : l.receipts[n].landed => IsSession(s, d, doc, gone)

(* A document no longer waited for, its answer not heard, is still owed.   *)
OverdueIsOwed(s, l, gone) ==
    (l.queue # <<>> \/ Newest(s, l) # {}) /\ ~InFlight(s) => s.retry \/ gone

OnDisk(s, d, doc, gone) == ~Owes(s) /\ ~InFlight(s) /\ ~gone => d = doc

Fits(s, l, d, doc, gone) ==
    /\ s \in Stores /\ s.landed <= s.sent
    /\ l \in Lanes /\ d \in Nat /\ doc \in Nat /\ gone \in BOOLEAN
    /\ Numbered(s, l) /\ WorkerFits(l, d)
    /\ NewestFits(s, l, d, doc, gone) /\ OverdueIsOwed(s, l, gone) /\ OnDisk(s, d, doc, gone)

(* Everything that may still be written is the session, as the disk is.    *)
AllSession(l, d, doc) == d = doc /\ \A n \in 1..Len(l.queue) : l.queue[n].document = doc

-----------------------------------------------------------------------------
(* The inductive invariant.                                                *)

(* What a judged write waits for is the session as it stands, and a run    *)
(* that has ended waits for nothing.                                       *)
JudgedStands ==
    /\ wait \in {"quit", "end", "close"} => ~store.dirty /\ ~store.again
    /\ wait # "none" => run # "closed"

(* A store that retires its writer has the session on disk, or knows, or   *)
(* was told, that it may not be.                                           *)
RetiresSaved == wait = "retire" => store.stalled \/ lost \/ AllSession(lane, disk, session)

(* Nothing is recorded while a question stands, or while the turn that     *)
(* settles one taken back meanwhile is under way.                          *)
QuestionHolds ==
    /\ inbox # <<>> /\ inbox[Len(inbox)] = "asked" => held
    /\ wait = "end" => held \/ settling

(* A run that removed its sentinel has the session on disk, and nothing    *)
(* may change it until the sentinel is back.                               *)
VouchesSaved ==
    vouched => /\ lost \/ AllSession(lane, disk, session)
               /\ run # "closed" => toRearm /\ (held \/ settling)

IInv ==
    /\ TypeOK
    /\ Fits(store, lane, disk, session, lost)
    /\ JudgedStands /\ RetiresSaved /\ QuestionHolds /\ VouchesSaved

-----------------------------------------------------------------------------
(* One receipt heard.                                                      *)

LEMMA AppliedParts ==
    ASSUME NEW s \in Stores, s.landed <= s.sent, NEW r \in Answers, r.generation <= s.sent,
           NEW t, t = Applied(s, r)
    PROVE  /\ t \in Stores /\ t.landed <= t.sent
           /\ t.sent = s.sent /\ t.dirty = s.dirty /\ t.again = s.again
           /\ t.ended = s.ended /\ t.stalled = s.stalled
           /\ r.generation < s.sent =>
                 /\ t.retry = s.retry /\ t.answered = s.answered
                 /\ InFlight(t) <=> InFlight(s)
           /\ r.generation = s.sent => t.retry = ~r.landed /\ ~InFlight(t)
<1> DEFINE h == [s EXCEPT !.landed = IF s.landed < r.generation THEN r.generation
                                      ELSE s.landed]
<1>1. /\ h \in Stores /\ h.landed <= h.sent
      /\ h.sent = s.sent /\ h.dirty = s.dirty /\ h.again = s.again /\ h.retry = s.retry
      /\ h.ended = s.ended /\ h.stalled = s.stalled /\ h.answered = s.answered
      /\ h.landed = IF s.landed < r.generation THEN r.generation ELSE s.landed
  BY DEF Stores, Answers
<1> DEFINE refused == ~r.landed
<1>2. t = IF r.generation < s.sent THEN h ELSE [h EXCEPT !.answered = r, !.retry = refused]
  BY DEF Applied
<1>0. refused \in BOOLEAN
  OBVIOUS
<1> HIDE DEF h, refused
<1>3. CASE r.generation < s.sent
  BY <1>1, <1>2, <1>3 DEF InFlight, Stores, Answers
<1>4. CASE r.generation = s.sent
  <2>1. t = [h EXCEPT !.answered = r, !.retry = refused]
    BY <1>2, <1>4 DEF Stores, Answers
  <2>2. /\ t \in Stores /\ t.retry = refused /\ t.landed = h.landed /\ t.sent = h.sent
        /\ t.dirty = h.dirty /\ t.again = h.again /\ t.ended = h.ended /\ t.stalled = h.stalled
    BY <1>0, <1>1, <2>1 DEF Stores
  <2>3. h.landed = s.sent
    BY <1>1, <1>4 DEF Stores, Answers
  <2> QED BY <1>1, <1>4, <2>2, <2>3 DEF InFlight, Stores, Answers, refused
<1> QED BY <1>3, <1>4 DEF Stores, Answers

(* Every receipt heard, in the order they came: what the store is after n  *)
(* of them, and that there is such a run of stores.                        *)
HeardTo(f, n) ==
    f = [m \in 0..n |-> IF m = 0 THEN store ELSE Applied(f[m - 1], lane.receipts[m])]

Heard(t, n) ==
    /\ t \in Stores /\ t.landed <= t.sent
    /\ t.sent = store.sent /\ t.dirty = store.dirty /\ t.again = store.again
    /\ t.ended = store.ended /\ t.stalled = store.stalled
    /\ n \in Newest(store, lane) => t.retry = ~lane.receipts[n].landed /\ ~InFlight(t)
    /\ n \notin Newest(store, lane) => t.retry = store.retry /\ (InFlight(t) <=> InFlight(store))

LEMMA HeardOne ==
    ASSUME store \in Stores, store.landed <= store.sent, lane \in Lanes, Numbered(store, lane),
           NEW n \in Nat, n < Len(lane.receipts), NEW s, Heard(s, n)
    PROVE  Heard(Applied(s, lane.receipts[n + 1]), n + 1)
<1> DEFINE r == lane.receipts[n + 1]
           t == Applied(s, r)
<1>1. n + 1 \in 1..Len(lane.receipts) /\ lane.receipts \in Seq(Answers)
  BY DEF Lanes
<1>2. r \in Answers /\ r.generation <= s.sent /\ store.sent \in Nat
  <2>1. r \in Answers /\ store.sent \in Nat /\ s.sent = store.sent
    BY <1>1 DEF Heard, Stores
  <2>2. r.generation < store.sent \/ r.generation = store.sent
    BY <1>1 DEF Numbered
  <2> QED BY <2>1, <2>2 DEF Answers
<1>3. n \notin Newest(store, lane)
  BY <1>1 DEF Numbered, Newest, Lanes, Stores, Answers
<1>4. n + 1 \in Newest(store, lane) <=> r.generation = s.sent
  BY <1>1 DEF Newest, Heard
<1> HIDE DEF r, t
<1>5. /\ t \in Stores /\ t.landed <= t.sent
      /\ t.sent = s.sent /\ t.dirty = s.dirty /\ t.again = s.again
      /\ t.ended = s.ended /\ t.stalled = s.stalled
      /\ r.generation < s.sent =>
            /\ t.retry = s.retry /\ t.answered = s.answered
            /\ InFlight(t) <=> InFlight(s)
      /\ r.generation = s.sent => t.retry = ~r.landed /\ ~InFlight(t)
  BY <1>2, AppliedParts DEF Heard, t
<1>6. Heard(t, n + 1)
  BY <1>2, <1>3, <1>4, <1>5 DEF Heard, r, Answers, Stores
<1> QED BY <1>6 DEF t, r

(* Each of a run's stores has heard what it should have.                   *)
LEMMA RunHears ==
    ASSUME store \in Stores, store.landed <= store.sent, lane \in Lanes, Numbered(store, lane),
           NEW f, HeardTo(f, Len(lane.receipts))
    PROVE  Heard(f[Len(lane.receipts)], Len(lane.receipts))
<1> DEFINE stuck == {n \in 0..Len(lane.receipts) : ~Heard(f[n], n)}
<1>1. Len(lane.receipts) \in Nat
  BY DEF Lanes
<1>2. \A m \in 0..Len(lane.receipts) :
          f[m] = IF m = 0 THEN store ELSE Applied(f[m - 1], lane.receipts[m])
  BY DEF HeardTo
<1>3. Heard(f[0], 0)
  <2>1. f[0] = store /\ 0 \notin Newest(store, lane)
    BY <1>1, <1>2 DEF Newest
  <2> QED BY <2>1 DEF Heard
<1>4. stuck = {}
  <2> SUFFICES ASSUME stuck # {} PROVE FALSE
    OBVIOUS
  <2>1. stuck \subseteq Nat
    OBVIOUS
  <2>2. PICK least \in stuck : \A n \in stuck : <<n, least>> \notin OpToRel(<, Nat)
    BY <2>1, WFMin, NatLessThanWellFounded, Zenon
  <2>3. least \in 0..Len(lane.receipts) /\ least # 0 /\ ~Heard(f[least], least)
    BY <1>3
  <2>4. PICK n : n = least - 1
    OBVIOUS
  <2>5. n \in Nat /\ n < least /\ n < Len(lane.receipts)
        /\ n \in 0..Len(lane.receipts) /\ n + 1 = least
    BY <1>1, <2>3, <2>4
  <2>6. <<n, least>> \in OpToRel(<, Nat)
    BY <2>1, <2>5 DEF OpToRel
  <2>7. Heard(f[n], n)
    BY <2>2, <2>5, <2>6
  <2>8. f[least] = Applied(f[n], lane.receipts[n + 1])
    BY <1>2, <2>3, <2>4, <2>5
  <2> QED BY <2>3, <2>5, <2>7, <2>8, HeardOne
<1> QED BY <1>1, <1>4

(* There is such a run, whatever came.                                     *)
LEMMA RunExists ==
    ASSUME lane \in Lanes
    PROVE  \E f : HeardTo(f, Len(lane.receipts))
<1> DEFINE Run(n) == \E f : HeardTo(f, n)
           stuck == {n \in 0..Len(lane.receipts) : ~Run(n)}
<1>1. Len(lane.receipts) \in Nat
  BY DEF Lanes
<1>2. Run(0)
  <2> DEFINE f == [m \in 0..0 |-> store]
  <2>1. HeardTo(f, 0)
    BY DEF HeardTo
  <2> QED BY <2>1
<1>3. ASSUME NEW n \in Nat, Run(n)
      PROVE  Run(n + 1)
  <2>1. PICK f : HeardTo(f, n)
    BY <1>3
  <2> DEFINE g == [m \in 0..(n + 1) |->
                     IF m = n + 1 THEN Applied(f[n], lane.receipts[n + 1]) ELSE f[m]]
  <2>2. \A m \in 0..n : g[m] = f[m]
    OBVIOUS
  <2>3. g[n + 1] = Applied(f[n], lane.receipts[n + 1])
    OBVIOUS
  <2>4. \A m \in 0..n : f[m] = IF m = 0 THEN store ELSE Applied(f[m - 1], lane.receipts[m])
    BY <2>1 DEF HeardTo
  <2>5. \A m \in 0..(n + 1) :
            g[m] = IF m = 0 THEN store ELSE Applied(g[m - 1], lane.receipts[m])
    <3> SUFFICES ASSUME NEW m \in 0..(n + 1)
                 PROVE  g[m] = IF m = 0 THEN store ELSE Applied(g[m - 1], lane.receipts[m])
      OBVIOUS
    <3> HIDE DEF g
    <3>1. CASE m = n + 1
      <4>1. m - 1 = n /\ m # 0 /\ n \in 0..n
        BY <3>1
      <4> QED BY <2>2, <2>3, <3>1, <4>1
    <3>2. CASE m # n + 1
      <4>1. m \in 0..n /\ (m # 0 => m - 1 \in 0..n)
        BY <3>2
      <4> QED BY <2>2, <2>4, <4>1
    <3> QED BY <3>1, <3>2
  <2>6. g = [m \in 0..(n + 1) |-> g[m]]
    OBVIOUS
  <2> HIDE DEF g
  <2>7. HeardTo(g, n + 1)
    BY <2>5, <2>6 DEF HeardTo
  <2> QED BY <2>7
<1>4. stuck = {}
  <2> SUFFICES ASSUME stuck # {} PROVE FALSE
    OBVIOUS
  <2>1. stuck \subseteq Nat
    OBVIOUS
  <2>2. PICK least \in stuck : \A n \in stuck : <<n, least>> \notin OpToRel(<, Nat)
    BY <2>1, WFMin, NatLessThanWellFounded, Zenon
  <2>3. least \in 0..Len(lane.receipts) /\ ~Run(least)
    BY <2>2
  <2> HIDE DEF Run
  <2>4. least # 0
    BY <1>2, <2>3
  <2>5. PICK n : n = least - 1
    OBVIOUS
  <2>6. n \in Nat /\ n < least /\ n \in 0..Len(lane.receipts) /\ n + 1 = least
    BY <1>1, <2>3, <2>4, <2>5
  <2>7. <<n, least>> \in OpToRel(<, Nat)
    BY <2>1, <2>6 DEF OpToRel
  <2>8. Run(n)
    BY <2>2, <2>6, <2>7
  <2> QED BY <1>3, <2>3, <2>6, <2>8
<1> QED BY <1>1, <1>4

LEMMA HeardAllParts ==
    ASSUME store \in Stores, store.landed <= store.sent, lane \in Lanes, Numbered(store, lane)
    PROVE  Heard(HeardAll(store), Len(lane.receipts))
<1>1. PICK f : HeardTo(f, Len(lane.receipts))
  BY RunExists
<1>2. PICK all : /\ HeardTo(all, Len(lane.receipts))
                 /\ HeardAll(store) = all[Len(lane.receipts)]
  BY <1>1 DEF HeardAll, HeardTo
<1> QED BY <1>2, RunHears

(* take_receipts: what the store is after it.                              *)
LEMMA TakenParts ==
    ASSUME store \in Stores, store.landed <= store.sent, lane \in Lanes, Numbered(store, lane),
           NEW t, t = Taken(store)
    PROVE  /\ t \in Stores /\ t.landed <= t.sent
           /\ t.sent = store.sent /\ t.dirty = store.dirty /\ t.again = store.again
           /\ t.stalled = store.stalled
           /\ \A n \in Newest(store, lane) :
                 n = Len(lane.receipts) /\ ~InFlight(t) /\ t.retry = ~lane.receipts[n].landed
           /\ Newest(store, lane) = {} =>
                 /\ InFlight(t) => InFlight(store)
                 /\ t.retry # store.retry => t.retry
                 /\ InFlight(store) /\ ~InFlight(t) => t.retry
<1> DEFINE last == Len(lane.receipts)
<1>1. PICK h : h = HeardAll(store) /\ Heard(h, last)
  BY HeardAllParts
<1>2. \A n \in Newest(store, lane) : n = last
  BY DEF Numbered, Newest, Lanes, Stores, Answers
<1>3. CASE lane.worker # "ended"
  <2>1. t = h
    BY <1>1, <1>3 DEF Taken
  <2> QED BY <1>1, <1>2, <2>1 DEF Heard
<1>4. CASE lane.worker = "ended"
  <2>1. PICK g : g = [h EXCEPT !.ended = TRUE]
    OBVIOUS
  <2>2. h \in Stores /\ h.landed <= h.sent
    BY <1>1 DEF Heard
  <2>3. /\ g \in Stores /\ g.landed = h.landed /\ g.sent = h.sent /\ g.dirty = h.dirty
        /\ g.again = h.again /\ g.retry = h.retry /\ g.stalled = h.stalled
    BY <2>1, <2>2 DEF Stores
  <2>4. InFlight(g) <=> InFlight(h)
    BY <2>3 DEF InFlight
  <2>5. t = IF InFlight(g) THEN Applied(g, [generation |-> g.sent, landed |-> FALSE]) ELSE g
    BY <1>1, <1>4, <2>1 DEF Taken, Ends
  <2>6. CASE ~InFlight(g)
    BY <1>1, <1>2, <2>2, <2>3, <2>4, <2>5, <2>6 DEF Heard
  <2>7. CASE InFlight(g)
    <3>1. PICK r : r = [generation |-> g.sent, landed |-> FALSE]
      OBVIOUS
    <3>2. r \in Answers /\ r.generation = g.sent /\ r.generation <= g.sent /\ ~r.landed
      BY <2>3, <3>1 DEF Answers, Stores
    <3>3. /\ t \in Stores /\ t.landed <= t.sent
          /\ t.sent = g.sent /\ t.dirty = g.dirty /\ t.again = g.again /\ t.stalled = g.stalled
          /\ t.retry = ~r.landed /\ ~InFlight(t)
      BY <2>2, <2>3, <2>5, <2>7, <3>1, <3>2, AppliedParts
    <3>4. Newest(store, lane) = {}
      BY <1>1, <1>2, <2>4, <2>7 DEF Heard
    <3> QED BY <1>1, <2>3, <3>2, <3>3, <3>4 DEF Heard
  <2> QED BY <2>6, <2>7
<1> QED BY <1>3, <1>4

LEMMA ReadParts ==
    ASSUME NEW l \in Lanes
    PROVE  /\ Read(l) \in Lanes /\ Read(l).receipts = <<>> /\ Read(l).queue = l.queue
           /\ Read(l).worker = l.worker /\ Read(l).step = l.step /\ Read(l).open = l.open
           /\ \A s : Newest(s, Read(l)) = {}
<1>1. /\ Read(l) \in Lanes /\ Read(l).receipts = <<>> /\ Read(l).queue = l.queue
      /\ Read(l).worker = l.worker /\ Read(l).step = l.step /\ Read(l).open = l.open
  <2>1. <<>> \in Seq(Answers)
    OBVIOUS
  <2>2. PICK none : none = <<>> /\ none \in Seq(Answers)
    BY <2>1
  <2>3. Read(l) = [l EXCEPT !.receipts = none]
    BY <2>2 DEF Read
  <2>4. /\ Read(l) \in Lanes /\ Read(l).receipts = none /\ Read(l).queue = l.queue
        /\ Read(l).worker = l.worker /\ Read(l).step = l.step /\ Read(l).open = l.open
    BY <2>2, <2>3 DEF Lanes
  <2> QED BY <2>2, <2>4
<1>2. \A s : Newest(s, Read(l)) = {}
  BY <1>1 DEF Newest
<1> QED BY <1>1, <1>2

(* A store whose receipts are all heard fits the lane without them.        *)
LEMMA TakenFits ==
    ASSUME Fits(store, lane, disk, session, lost), NEW t, t = Taken(store)
    PROVE  /\ Fits(t, Read(lane), disk, session, lost)
           /\ t.sent = store.sent /\ t.dirty = store.dirty /\ t.again = store.again
           /\ t.stalled = store.stalled
           /\ ~Owes(t) /\ ~InFlight(t) /\ ~lost => lane.queue = <<>>
<1>1. /\ store \in Stores /\ store.landed <= store.sent
      /\ lane \in Lanes /\ disk \in Nat /\ session \in Nat /\ lost \in BOOLEAN
      /\ Numbered(store, lane) /\ WorkerFits(lane, disk)
      /\ NewestFits(store, lane, disk, session, lost)
      /\ OverdueIsOwed(store, lane, lost) /\ OnDisk(store, disk, session, lost)
  BY DEF Fits
<1>2. /\ t \in Stores /\ t.landed <= t.sent
      /\ t.sent = store.sent /\ t.dirty = store.dirty /\ t.again = store.again
      /\ t.stalled = store.stalled
      /\ \A n \in Newest(store, lane) :
            n = Len(lane.receipts) /\ ~InFlight(t) /\ t.retry = ~lane.receipts[n].landed
      /\ Newest(store, lane) = {} =>
            /\ InFlight(t) => InFlight(store)
            /\ t.retry # store.retry => t.retry
            /\ InFlight(store) /\ ~InFlight(t) => t.retry
  BY <1>1, TakenParts
<1>3. PICK l : l = Read(lane)
  OBVIOUS
<1>4. /\ l \in Lanes /\ l.receipts = <<>> /\ l.queue = lane.queue
      /\ l.worker = lane.worker /\ l.step = lane.step /\ Newest(t, l) = {}
  BY <1>1, <1>3, ReadParts
<1>5. \A n \in Newest(store, lane) : lane.queue = <<>> /\ n \in 1..Len(lane.receipts)
  BY <1>1 DEF Numbered, Newest, Stores, Answers, Lanes
<1>6. Numbered(t, l) /\ WorkerFits(l, disk)
  BY <1>1, <1>2, <1>4 DEF Numbered, WorkerFits
<1>7. NewestFits(t, l, disk, session, lost)
  BY <1>1, <1>2, <1>4 DEF NewestFits, IsSession
<1>8. CASE Newest(store, lane) = {}
  <2>1. OverdueIsOwed(t, l, lost)
    BY <1>1, <1>2, <1>4, <1>8 DEF OverdueIsOwed
  <2>2. OnDisk(t, disk, session, lost)
    BY <1>1, <1>2, <1>8 DEF OnDisk, Owes
  <2>3. ~Owes(t) /\ ~InFlight(t) /\ ~lost => lane.queue = <<>>
    BY <1>4, <2>1 DEF OverdueIsOwed, Owes
  <2> QED BY <1>1, <1>2, <1>3, <1>4, <1>6, <1>7, <2>1, <2>2, <2>3 DEF Fits
<1>9. CASE Newest(store, lane) # {}
  <2>1. PICK n : n \in Newest(store, lane)
    BY <1>9
  <2>2. lane.queue = <<>> /\ ~InFlight(t) /\ t.retry = ~lane.receipts[n].landed
    BY <1>2, <1>5, <2>1
  <2>3. OverdueIsOwed(t, l, lost)
    BY <1>4, <2>2 DEF OverdueIsOwed
  <2>4. OnDisk(t, disk, session, lost)
    BY <1>1, <1>2, <2>1, <2>2 DEF OnDisk, Owes, NewestFits, IsSession
  <2> QED BY <1>1, <1>2, <1>3, <1>4, <1>6, <1>7, <2>2, <2>3, <2>4 DEF Fits
<1> QED BY <1>8, <1>9

-----------------------------------------------------------------------------
(* What each thing the store does keeps of the fit.                        *)

LEMMA SequencesOf ==
    ASSUME NEW l \in Lanes
    PROVE  l.queue \in Seq(Documents) /\ l.receipts \in Seq(Answers)
           /\ Len(l.queue) \in Nat /\ Len(l.receipts) \in Nat
BY DEF Lanes

LEMMA SentParts ==
    ASSUME NEW s \in Stores, s.landed <= s.sent, NEW t, t = Sent(s)
    PROVE  /\ t \in Stores /\ t.landed = s.landed /\ t.sent = s.sent + 1
           /\ ~t.dirty /\ ~t.again /\ ~t.retry /\ t.stalled = s.stalled /\ InFlight(t)
<1>1. PICK u : u = Sending(s)
  OBVIOUS
<1>2. /\ u \in Stores /\ u.landed = s.landed /\ u.sent = s.sent
      /\ u.dirty = FALSE /\ u.again = FALSE /\ u.retry = FALSE /\ u.stalled = s.stalled
  BY <1>1 DEF Sending, Stores
<1>3. t = [u EXCEPT !.sent = u.sent + 1]
  BY <1>1 DEF Sent
<1>4. /\ t \in Stores /\ t.landed = s.landed /\ t.sent = s.sent + 1
      /\ t.dirty = FALSE /\ t.again = FALSE /\ t.retry = FALSE /\ t.stalled = s.stalled
  BY <1>2, <1>3 DEF Stores
<1> QED BY <1>4 DEF InFlight, Stores

LEMMA AdmitsParts ==
    ASSUME NEW s \in Stores, session \in Nat, NEW l \in Lanes, NEW m, m = Admits(s, l)
    PROVE  /\ m \in Lanes /\ m.worker = "running" /\ m.open = l.open
           /\ m.step = l.step /\ m.receipts = l.receipts
           /\ Len(m.queue) = Len(l.queue) + 1 /\ m.queue # <<>>
           /\ \A n \in 1..Len(l.queue) : m.queue[n] = l.queue[n]
           /\ m.queue[Len(m.queue)].generation = s.sent + 1
           /\ m.queue[Len(m.queue)].document = session
<1>1. PICK job : job = [generation |-> s.sent + 1, document |-> session]
  OBVIOUS
<1>2. job \in Documents /\ job.generation = s.sent + 1 /\ job.document = session
  BY <1>1 DEF Documents, Stores
<1>3. PICK q : q = Append(l.queue, job)
  OBVIOUS
<1>4. /\ q \in Seq(Documents) /\ Len(q) = Len(l.queue) + 1 /\ q[Len(q)] = job
      /\ \A n \in 1..Len(l.queue) : q[n] = l.queue[n]
  BY <1>2, <1>3, SequencesOf
<1>5. m = [l EXCEPT !.worker = "running", !.queue = q]
  BY <1>1, <1>3 DEF Admits
<1>6. /\ m \in Lanes /\ m.worker = "running" /\ m.open = l.open /\ m.step = l.step
      /\ m.receipts = l.receipts /\ m.queue = q
  BY <1>4, <1>5 DEF Lanes
<1>7. Len(q) # 0
  BY <1>4, SequencesOf
<1> QED BY <1>2, <1>4, <1>6, <1>7

(* The session sent: it is the newest.                                     *)
LEMMA SentFits ==
    ASSUME NEW s, NEW l, NEW d, NEW gone, Fits(s, l, d, session, gone),
           NEW t, t = Sent(s), NEW m, m = Admits(s, l)
    PROVE  /\ Fits(t, m, d, session, gone)
           /\ ~t.dirty /\ ~t.again /\ t.stalled = s.stalled
           /\ AllSession(l, d, session) => AllSession(m, d, session)
<1>1. /\ s \in Stores /\ s.landed <= s.sent
      /\ l \in Lanes /\ d \in Nat /\ session \in Nat /\ gone \in BOOLEAN
      /\ Numbered(s, l) /\ WorkerFits(l, d)
  BY DEF Fits
<1>2. /\ t \in Stores /\ t.landed = s.landed /\ t.sent = s.sent + 1
      /\ ~t.dirty /\ ~t.again /\ ~t.retry /\ t.stalled = s.stalled /\ InFlight(t)
  BY <1>1, SentParts
<1>3. /\ m \in Lanes /\ m.worker = "running" /\ m.step = l.step /\ m.receipts = l.receipts
      /\ Len(m.queue) = Len(l.queue) + 1 /\ m.queue # <<>>
      /\ \A n \in 1..Len(l.queue) : m.queue[n] = l.queue[n]
      /\ m.queue[Len(m.queue)].generation = s.sent + 1
      /\ m.queue[Len(m.queue)].document = session
  BY <1>1, AdmitsParts
<1>4. /\ l.queue \in Seq(Documents) /\ Len(l.queue) \in Nat /\ Len(l.receipts) \in Nat
      /\ s.sent \in Nat /\ s.landed \in Nat /\ l.receipts \in Seq(Answers)
  BY <1>1, SequencesOf DEF Stores
<1>5. \A n \in 1..Len(l.receipts) : l.receipts[n].generation \in Nat
  <2>1. \A n \in 1..Len(l.receipts) : l.receipts[n] \in Answers
    BY <1>4
  <2> QED BY <2>1 DEF Answers
<1>6. \A n \in 1..Len(l.queue) : l.queue[n].generation \in Nat
  <2>1. \A n \in 1..Len(l.queue) : l.queue[n] \in Documents
    BY <1>4
  <2> QED BY <2>1 DEF Documents
<1>7. Numbered(t, m)
  <2>1. \A n \in 1..Len(m.receipts) : m.receipts[n].generation < t.sent
    BY <1>1, <1>2, <1>3, <1>4, <1>5 DEF Numbered
  <2>2. \A n \in 1..Len(m.queue) : n \in 1..Len(l.queue) \/ n = Len(m.queue)
    BY <1>3, <1>4
  <2>3. ASSUME NEW n \in 1..Len(l.queue)
        PROVE  m.queue[n].generation < t.sent /\ n # Len(m.queue)
    <3>1. l.queue[n].generation <= s.sent /\ l.queue[n].generation \in Nat
      BY <1>1, <1>6 DEF Numbered
    <3>2. m.queue[n] = l.queue[n]
      BY <1>3
    <3> QED BY <1>2, <1>3, <1>4, <3>1, <3>2
  <2>4. m.queue[Len(m.queue)].generation = t.sent
    BY <1>2, <1>3
  <2>5. t.sent \in Nat
    BY <1>2 DEF Stores
  <2>6. ASSUME NEW n \in 1..Len(m.queue)
        PROVE  /\ m.queue[n].generation <= t.sent
               /\ m.queue[n].generation = t.sent <=> n = Len(m.queue)
    <3>1. CASE n \in 1..Len(l.queue)
      BY <1>3, <1>6, <2>3, <2>5, <3>1
    <3>2. CASE n = Len(m.queue)
      BY <2>4, <2>5, <3>2
    <3> QED BY <2>2, <3>1, <3>2
  <2> QED BY <2>1, <2>6 DEF Numbered
<1>8. Newest(t, m) = {}
  BY <1>1, <1>2, <1>3, <1>4, <1>5 DEF Numbered, Newest
<1>9. WorkerFits(m, d)
  <2>1. l.queue # <<>> => m.queue[1] = l.queue[1]
    BY <1>3, <1>4
  <2> QED BY <1>1, <1>3, <2>1 DEF WorkerFits
<1>10. NewestFits(t, m, d, session, gone)
  BY <1>3, <1>8 DEF NewestFits, IsSession
<1>11. OverdueIsOwed(t, m, gone) /\ OnDisk(t, d, session, gone)
  BY <1>2 DEF OverdueIsOwed, OnDisk
<1>12. AllSession(l, d, session) => AllSession(m, d, session)
  <2>1. \A n \in 1..Len(m.queue) : n \in 1..Len(l.queue) \/ n = Len(m.queue)
    BY <1>3, <1>4
  <2> QED BY <1>3, <2>1 DEF AllSession
<1> QED BY <1>1, <1>2, <1>3, <1>4, <1>7, <1>9, <1>10, <1>11, <1>12 DEF Fits

(* The same document told apart by its marks alone.                        *)
LEMMA MarkedFits ==
    ASSUME NEW s, NEW l, NEW d, NEW doc, NEW gone, Fits(s, l, d, doc, gone),
           NEW t \in Stores, t.sent = s.sent, t.landed = s.landed,
           t.dirty = s.dirty, t.again = s.again, t.retry = s.retry
    PROVE  Fits(t, l, d, doc, gone)
<1>1. Newest(t, l) = Newest(s, l)
  BY DEF Newest
<1>2. (InFlight(t) <=> InFlight(s)) /\ (Owes(t) <=> Owes(s))
  BY DEF InFlight, Owes
<1>3. Numbered(t, l)
  BY DEF Fits, Numbered
<1>4. NewestFits(t, l, d, doc, gone)
  BY <1>1 DEF Fits, NewestFits, IsSession
<1>5. OverdueIsOwed(t, l, gone) /\ OnDisk(t, d, doc, gone)
  BY <1>1, <1>2 DEF Fits, OverdueIsOwed, OnDisk
<1> QED BY <1>3, <1>4, <1>5 DEF Fits

(* A change: of the session, or heard of while a document is on its way.   *)
LEMMA ChangedFits ==
    ASSUME NEW s, NEW l, NEW d, NEW doc, NEW gone, Fits(s, l, d, doc, gone),
           NEW t \in Stores, t.sent = s.sent, t.landed = s.landed,
           t.dirty \/ t.again, t.retry = s.retry, NEW other \in Nat
    PROVE  Fits(t, l, d, other, gone)
<1>1. Newest(t, l) = Newest(s, l)
  BY DEF Newest
<1>2. (InFlight(t) <=> InFlight(s)) /\ Owes(t)
  BY DEF InFlight, Owes
<1>3. Numbered(t, l)
  BY DEF Fits, Numbered
<1>4. NewestFits(t, l, d, other, gone)
  BY DEF NewestFits, IsSession
<1>5. OverdueIsOwed(t, l, gone) /\ OnDisk(t, d, other, gone)
  BY <1>1, <1>2 DEF Fits, OverdueIsOwed, OnDisk
<1> QED BY <1>3, <1>4, <1>5 DEF Fits

(* A document let go of.                                                   *)
LEMMA LostFits ==
    ASSUME NEW s, NEW l, NEW d, NEW doc, NEW gone, Fits(s, l, d, doc, gone),
           NEW t \in Stores, t.sent = s.sent, t.landed = s.landed
    PROVE  Fits(t, l, d, doc, TRUE)
<1>1. Numbered(t, l)
  BY DEF Fits, Numbered
<1>2. NewestFits(t, l, d, doc, TRUE) /\ OverdueIsOwed(t, l, TRUE) /\ OnDisk(t, d, doc, TRUE)
  BY DEF NewestFits, IsSession, OverdueIsOwed, OnDisk
<1> QED BY <1>1, <1>2 DEF Fits

LEMMA RefusedParts ==
    ASSUME NEW s \in Stores, NEW t, t = RefusedAtTheDoor(s)
    PROVE  /\ t \in Stores /\ t.landed = s.landed /\ t.sent = s.sent
           /\ ~t.dirty /\ ~t.again /\ t.retry /\ t.stalled = s.stalled
<1>1. PICK u : u = Sending(s)
  OBVIOUS
<1>2. /\ u \in Stores /\ u.landed = s.landed /\ u.sent = s.sent
      /\ u.dirty = FALSE /\ u.again = FALSE /\ u.stalled = s.stalled
  BY <1>1 DEF Sending, Stores
<1>3. t = [u EXCEPT !.retry = TRUE]
  BY <1>1 DEF RefusedAtTheDoor
<1> QED BY <1>2, <1>3 DEF Stores

(* Refused at the door: owed, unless an answer not read yet may answer for *)
(* it.                                                                     *)
LEMMA RefusedFits ==
    ASSUME NEW s, NEW l, NEW d, NEW doc, NEW gone, Fits(s, l, d, doc, gone),
           l.worker # "running", Newest(s, l) = {},
           NEW t, t = RefusedAtTheDoor(s)
    PROVE  Fits(t, l, d, doc, gone)
<1>1. /\ t \in Stores /\ t.landed = s.landed /\ t.sent = s.sent /\ t.retry
  BY RefusedParts DEF Fits
<1>2. l.queue = <<>>
  BY DEF Fits, WorkerFits
<1>3. Newest(t, l) = {}
  BY <1>1 DEF Newest
<1>4. Numbered(t, l)
  BY <1>1 DEF Fits, Numbered
<1>5. NewestFits(t, l, d, doc, gone) /\ OverdueIsOwed(t, l, gone) /\ OnDisk(t, d, doc, gone)
  BY <1>1, <1>2, <1>3 DEF NewestFits, OverdueIsOwed, OnDisk, Owes
<1> QED BY <1>1, <1>4, <1>5 DEF Fits

(* The newest document given for refused: a wait run out, no worker.       *)
LEMMA FailedFits ==
    ASSUME NEW s, NEW l, NEW d, NEW doc, NEW gone, Fits(s, l, d, doc, gone),
           NEW t, t = Applied(s, [generation |-> s.sent, landed |-> FALSE])
    PROVE  /\ Fits(t, l, d, doc, gone)
           /\ t.sent = s.sent /\ t.dirty = s.dirty /\ t.again = s.again
           /\ t.stalled = s.stalled /\ t.retry
<1>1. PICK r : r = [generation |-> s.sent, landed |-> FALSE]
  OBVIOUS
<1>2. s \in Stores /\ s.landed <= s.sent
  BY DEF Fits
<1>3. r \in Answers /\ r.generation = s.sent /\ r.generation <= s.sent /\ ~r.landed
  BY <1>1, <1>2 DEF Answers, Stores
<1>4. /\ t \in Stores /\ t.landed <= t.sent
      /\ t.sent = s.sent /\ t.dirty = s.dirty /\ t.again = s.again /\ t.stalled = s.stalled
      /\ t.retry = ~r.landed /\ ~InFlight(t)
  BY <1>1, <1>2, <1>3, AppliedParts
<1>5. t.retry
  BY <1>3, <1>4
<1>6. Newest(t, l) = Newest(s, l)
  BY <1>4 DEF Newest
<1>7. Numbered(t, l)
  BY <1>4 DEF Fits, Numbered
<1>8. NewestFits(t, l, d, doc, gone)
  BY <1>4, <1>6 DEF Fits, NewestFits, IsSession
<1>9. OverdueIsOwed(t, l, gone) /\ OnDisk(t, d, doc, gone)
  BY <1>5 DEF OverdueIsOwed, OnDisk, Owes
<1> QED BY <1>4, <1>5, <1>7, <1>8, <1>9 DEF Fits

(* Receipts dropped unread, none of them the newest document's.            *)
LEMMA ReadDropsFits ==
    ASSUME NEW s, NEW l, NEW d, NEW doc, NEW gone, Fits(s, l, d, doc, gone), Newest(s, l) = {}
    PROVE  Fits(s, Read(l), d, doc, gone)
<1>1. PICK m : m = Read(l)
  OBVIOUS
<1>2. /\ m \in Lanes /\ m.receipts = <<>> /\ m.queue = l.queue
      /\ m.worker = l.worker /\ m.step = l.step /\ Newest(s, m) = {}
  BY <1>1, ReadParts DEF Fits
<1>3. Numbered(s, m) /\ WorkerFits(m, d)
  BY <1>2 DEF Fits, Numbered, WorkerFits
<1>4. NewestFits(s, m, d, doc, gone) /\ OverdueIsOwed(s, m, gone)
  BY <1>2 DEF Fits, NewestFits, OverdueIsOwed
<1> QED BY <1>1, <1>2, <1>3, <1>4 DEF Fits

(* The newest document's answer heard, and the others dropped with it: one *)
(* that landed has put the session on disk.                                *)
LEMMA HeardFits ==
    ASSUME NEW s, NEW l, NEW d, NEW doc, NEW gone, Fits(s, l, d, doc, gone),
           NEW n \in Newest(s, l), NEW t, t = Applied(s, l.receipts[n])
    PROVE  /\ Fits(t, Read(l), d, doc, gone)
           /\ t.dirty = s.dirty /\ t.again = s.again /\ t.stalled = s.stalled
           /\ l.receipts[n].landed /\ ~s.dirty /\ ~s.again => gone \/ AllSession(Read(l), d, doc)
<1>1. /\ s \in Stores /\ s.landed <= s.sent
      /\ l \in Lanes /\ d \in Nat /\ doc \in Nat /\ gone \in BOOLEAN
      /\ Numbered(s, l) /\ WorkerFits(l, d) /\ NewestFits(s, l, d, doc, gone)
  BY DEF Fits
<1>2. PICK r : r = l.receipts[n]
  OBVIOUS
<1>3. r \in Answers /\ r.generation = s.sent /\ n \in 1..Len(l.receipts)
  BY <1>1, <1>2, SequencesOf DEF Newest
<1>4. r.generation <= s.sent
  BY <1>1, <1>3 DEF Stores
<1>5. /\ t \in Stores /\ t.landed <= t.sent
      /\ t.dirty = s.dirty /\ t.again = s.again /\ t.stalled = s.stalled
      /\ t.retry = ~r.landed /\ ~InFlight(t)
  BY <1>1, <1>2, <1>3, <1>4, AppliedParts
<1>6. l.queue = <<>>
  BY <1>1, <1>2, <1>3 DEF Numbered, Stores, Answers
<1>7. PICK m : m = Read(l)
  OBVIOUS
<1>8. /\ m \in Lanes /\ m.receipts = <<>> /\ m.queue = <<>>
      /\ m.worker = l.worker /\ m.step = l.step /\ Newest(t, m) = {}
  BY <1>1, <1>6, <1>7, ReadParts
<1>9. Numbered(t, m) /\ WorkerFits(m, d)
  BY <1>1, <1>6, <1>8 DEF Numbered, WorkerFits
<1>10. NewestFits(t, m, d, doc, gone) /\ OverdueIsOwed(t, m, gone)
  BY <1>8 DEF NewestFits, OverdueIsOwed
<1>11. r.landed => d = doc \/ s.dirty \/ s.again \/ gone
  BY <1>1, <1>2 DEF NewestFits, IsSession
<1>12. OnDisk(t, d, doc, gone)
  BY <1>5, <1>11 DEF OnDisk, Owes
<1>13. d = doc => AllSession(m, d, doc)
  BY <1>8 DEF AllSession
<1> QED BY <1>1, <1>2, <1>5, <1>7, <1>8, <1>9, <1>10, <1>11, <1>12, <1>13 DEF Fits

(* A wait run out.                                                         *)
LEMMA TimedOutFits ==
    ASSUME NEW s, NEW l, NEW d, NEW doc, NEW gone, Fits(s, l, d, doc, gone),
           NEW t, t = TimedOut(s)
    PROVE  Fits(t, l, d, doc, gone) /\ t.stalled
<1>1. PICK u : u = [s EXCEPT !.stalled = TRUE]
  OBVIOUS
<1>2. /\ u \in Stores /\ u.sent = s.sent /\ u.landed = s.landed /\ u.dirty = s.dirty
      /\ u.again = s.again /\ u.retry = s.retry /\ u.stalled
  BY <1>1 DEF Fits, Stores
<1>3. Fits(u, l, d, doc, gone)
  BY <1>2, MarkedFits
<1>4. t = Applied(u, [generation |-> u.sent, landed |-> FALSE])
  BY <1>1, <1>2 DEF TimedOut
<1> QED BY <1>2, <1>3, <1>4, FailedFits

-----------------------------------------------------------------------------
(* The storage worker.                                                     *)
StaysSession(l, m, d, e) == AllSession(l, d, session) => AllSession(m, e, session)

LEMMA WritesFits ==
    ASSUME Fits(store, lane, disk, session, lost), WorkerWrites
    PROVE  Fits(store, lane', disk', session, lost) /\ StaysSession(lane, lane', disk, disk')
<1>1. /\ lane.worker = "running" /\ lane.queue # <<>> /\ disk' = lane.queue[1].document
      /\ lane' = [lane EXCEPT !.step = "landed"]
      /\ store \in Stores /\ lane \in Lanes /\ session \in Nat
  BY DEF WorkerWrites, Job, Fits
<1>2. /\ lane' \in Lanes /\ lane'.worker = "running" /\ lane'.queue = lane.queue
      /\ lane'.receipts = lane.receipts /\ lane'.step = "landed"
  BY <1>1 DEF Lanes
<1>3. lane.queue \in Seq(Documents) /\ 1 \in 1..Len(lane.queue)
  BY <1>1, SequencesOf
<1>4. disk' \in Nat
  <2>1. lane.queue[1] \in Documents
    BY <1>3
  <2> QED BY <1>1, <2>1 DEF Documents
<1>5. Newest(store, lane) = {} /\ Newest(store, lane') = {}
  BY <1>1, <1>2 DEF Fits, Numbered, Newest, Stores
<1>6. Numbered(store, lane') /\ WorkerFits(lane', disk')
  BY <1>1, <1>2 DEF Fits, Numbered, WorkerFits
<1>7. NewestFits(store, lane', disk', session, lost) /\ OverdueIsOwed(store, lane', lost)
  BY <1>2, <1>5 DEF Fits, NewestFits, OverdueIsOwed
<1>8. OnDisk(store, disk', session, lost)
  BY <1>1 DEF Fits, OverdueIsOwed, OnDisk, Owes
<1>9. StaysSession(lane, lane', disk, disk')
  BY <1>1, <1>2, <1>3 DEF StaysSession, AllSession
<1> QED BY <1>2, <1>4, <1>6, <1>7, <1>8, <1>9 DEF Fits

LEMMA FailsFits ==
    ASSUME Fits(store, lane, disk, session, lost), WorkerFails
    PROVE  Fits(store, lane', disk, session, lost) /\ StaysSession(lane, lane', disk, disk)
<1>1. lane.queue # <<>> /\ lane.worker = "running" /\ lane \in Lanes
      /\ lane' = [lane EXCEPT !.step = "refused"]
  BY DEF WorkerFails, Fits
<1>2. /\ lane' \in Lanes /\ lane'.worker = "running" /\ lane'.queue = lane.queue
      /\ lane'.receipts = lane.receipts /\ lane'.step = "refused"
  BY <1>1 DEF Lanes
<1>3. Newest(store, lane') = Newest(store, lane)
  BY <1>2 DEF Newest
<1>4. Numbered(store, lane') /\ WorkerFits(lane', disk)
  BY <1>1, <1>2 DEF Fits, Numbered, WorkerFits
<1>5. NewestFits(store, lane', disk, session, lost) /\ OverdueIsOwed(store, lane', lost)
  BY <1>2, <1>3 DEF Fits, NewestFits, OverdueIsOwed
<1>6. StaysSession(lane, lane', disk, disk)
  BY <1>2 DEF StaysSession, AllSession
<1> QED BY <1>2, <1>4, <1>5, <1>6 DEF Fits

LEMMA EndsFits ==
    ASSUME Fits(store, lane, disk, session, lost), WorkerEnds
    PROVE  Fits(store, lane', disk, session, lost) /\ StaysSession(lane, lane', disk, disk)
<1>1. PICK none : none = <<>> /\ none \in Seq(Documents)
  <2>1. <<>> \in Seq(Documents)
    OBVIOUS
  <2> QED BY <2>1
<1>2. lane' = [lane EXCEPT !.worker = "ended", !.step = "idle", !.queue = none] /\ lane \in Lanes
  BY <1>1 DEF WorkerEnds, Fits
<1>3. /\ lane' \in Lanes /\ lane'.worker = "ended" /\ lane'.queue = none
      /\ lane'.receipts = lane.receipts /\ lane'.step = "idle"
  BY <1>1, <1>2 DEF Lanes
<1>4. lane'.queue = <<>>
  BY <1>1, <1>3
<1>5. Newest(store, lane') = Newest(store, lane)
  BY <1>3 DEF Newest
<1>6. Numbered(store, lane') /\ WorkerFits(lane', disk)
  BY <1>3, <1>4 DEF Fits, Numbered, WorkerFits
<1>7. NewestFits(store, lane', disk, session, lost) /\ OverdueIsOwed(store, lane', lost)
  BY <1>3, <1>4, <1>5 DEF Fits, NewestFits, OverdueIsOwed
<1>8. StaysSession(lane, lane', disk, disk)
  BY <1>4 DEF StaysSession, AllSession
<1> QED BY <1>3, <1>6, <1>7, <1>8 DEF Fits

(* The worker's answer: the head of the queue becomes the last receipt.    *)
LEMMA AnswersParts ==
    ASSUME lane \in Lanes, WorkerAnswers, WorkerFits(lane, disk)
    PROVE  /\ lane' \in Lanes /\ lane'.worker = "running" /\ lane'.step = "idle"
           /\ lane.worker = "running" /\ lane.queue # <<>>
           /\ Len(lane.queue) \in Nat \ {0} /\ Len(lane'.queue) = Len(lane.queue) - 1
           /\ \A n \in 1..Len(lane'.queue) :
                 lane'.queue[n] = lane.queue[n + 1] /\ n + 1 \in 1..Len(lane.queue)
           /\ Len(lane.receipts) \in Nat /\ Len(lane'.receipts) = Len(lane.receipts) + 1
           /\ \A n \in 1..Len(lane.receipts) : lane'.receipts[n] = lane.receipts[n]
           /\ lane'.receipts[Len(lane.receipts) + 1].generation = lane.queue[1].generation
           /\ lane'.receipts[Len(lane.receipts) + 1].landed <=> lane.step = "landed"
<1>1. lane.worker = "running" /\ lane.queue # <<>>
  BY DEF WorkerAnswers, WorkerFits
<1>2. /\ lane.queue \in Seq(Documents) /\ lane.receipts \in Seq(Answers)
      /\ Len(lane.queue) \in Nat /\ Len(lane.receipts) \in Nat
  BY SequencesOf
<1>3. Len(lane.queue) # 0 /\ 1 \in 1..Len(lane.queue)
  BY <1>1, <1>2
<1>4. lane.queue[1] \in Documents
  BY <1>2, <1>3
<1> DEFINE landed == lane.step = "landed"
<1>5. landed \in BOOLEAN
  OBVIOUS
<1>6. PICK r : r = [generation |-> lane.queue[1].generation, landed |-> landed]
  OBVIOUS
<1>7. r \in Answers /\ r.generation = lane.queue[1].generation /\ r.landed = landed
  <2>1. lane.queue[1].generation \in Nat
    BY <1>4 DEF Documents
  <2> HIDE DEF landed
  <2> QED BY <1>5, <1>6, <2>1 DEF Answers
<1>8. PICK q : q = Tail(lane.queue)
  OBVIOUS
<1>9. /\ q \in Seq(Documents) /\ Len(q) = Len(lane.queue) - 1
      /\ \A n \in 1..Len(q) : q[n] = lane.queue[n + 1]
  BY <1>1, <1>2, <1>8
<1>10. PICK a : a = Append(lane.receipts, r)
  OBVIOUS
<1>11. /\ a \in Seq(Answers) /\ Len(a) = Len(lane.receipts) + 1
       /\ a[Len(lane.receipts) + 1] = r
       /\ \A n \in 1..Len(lane.receipts) : a[n] = lane.receipts[n]
  BY <1>2, <1>7, <1>10
<1>12. lane' = [lane EXCEPT !.step = "idle", !.queue = q, !.receipts = a]
  BY <1>6, <1>8, <1>10 DEF WorkerAnswers, Job
<1>13. /\ lane' \in Lanes /\ lane'.worker = "running" /\ lane'.step = "idle"
       /\ lane'.queue = q /\ lane'.receipts = a
  BY <1>1, <1>9, <1>11, <1>12 DEF Lanes
<1>14. /\ lane'.receipts[Len(lane.receipts) + 1].generation = lane.queue[1].generation
       /\ lane'.receipts[Len(lane.receipts) + 1].landed <=> landed
  BY <1>7, <1>11, <1>13, Zenon
<1>15. \A n \in 1..Len(q) : q[n] = lane.queue[n + 1] /\ n + 1 \in 1..Len(lane.queue)
  BY <1>2, <1>3, <1>9
<1> QED BY <1>1, <1>2, <1>3, <1>9, <1>11, <1>13, <1>14, <1>15

LEMMA AnswersFits ==
    ASSUME Fits(store, lane, disk, session, lost), WorkerAnswers
    PROVE  Fits(store, lane', disk, session, lost) /\ StaysSession(lane, lane', disk, disk)
<1> DEFINE last == Len(lane.receipts) + 1
           size == Len(lane.queue)
<1>1. /\ store \in Stores /\ lane \in Lanes /\ Numbered(store, lane) /\ WorkerFits(lane, disk)
      /\ NewestFits(store, lane, disk, session, lost) /\ OverdueIsOwed(store, lane, lost)
      /\ store.sent \in Nat
  BY DEF Fits, Stores
<1>2. /\ lane' \in Lanes /\ lane'.worker = "running" /\ lane'.step = "idle"
      /\ lane.worker = "running" /\ lane.queue # <<>>
      /\ size \in Nat \ {0} /\ Len(lane'.queue) = size - 1
      /\ \A n \in 1..Len(lane'.queue) :
            lane'.queue[n] = lane.queue[n + 1] /\ n + 1 \in 1..size
      /\ Len(lane.receipts) \in Nat /\ Len(lane'.receipts) = last
      /\ \A n \in 1..Len(lane.receipts) : lane'.receipts[n] = lane.receipts[n]
      /\ lane'.receipts[last].generation = lane.queue[1].generation
      /\ lane'.receipts[last].landed <=> lane.step = "landed"
  BY <1>1, AnswersParts
<1> HIDE DEF last
<1>3. last = Len(lane.receipts) + 1
  BY DEF last
<1>4. \A n \in 1..last : n \in 1..Len(lane.receipts) \/ n = last
  BY <1>2, <1>3
<1>5. \A n \in 1..Len(lane.receipts) : lane'.receipts[n].generation < store.sent
  BY <1>1, <1>2 DEF Numbered
<1>6. /\ lane'.receipts[last].generation <= store.sent
      /\ lane'.receipts[last].generation = store.sent <=> size = 1
  <2>1. 1 \in 1..size
    BY <1>2
  <2> QED BY <1>1, <1>2, <2>1 DEF Numbered
<1>7. lane.queue[1] \in Documents
  BY <1>1, <1>2, SequencesOf
<1>8. lane'.receipts[last].generation \in Nat
  BY <1>2, <1>7 DEF Documents
<1>9. size = 1 => lane'.queue = <<>>
  BY <1>2, SequencesOf
<1>10. Numbered(store, lane')
  <2>1. ASSUME NEW n \in 1..Len(lane'.receipts)
        PROVE  \/ lane'.receipts[n].generation < store.sent
               \/ lane'.receipts[n].generation = store.sent
                  /\ n = Len(lane'.receipts) /\ lane'.queue = <<>>
    <3>1. CASE n \in 1..Len(lane.receipts)
      BY <1>5, <3>1
    <3>2. CASE n = last
      BY <1>1, <1>2, <1>6, <1>8, <1>9, <3>2
    <3> QED BY <1>2, <1>4, <3>1, <3>2
  <2>2. ASSUME NEW n \in 1..Len(lane'.queue)
        PROVE  /\ lane'.queue[n].generation <= store.sent
               /\ lane'.queue[n].generation = store.sent <=> n = Len(lane'.queue)
    <3>1. lane'.queue[n] = lane.queue[n + 1] /\ n + 1 \in 1..size
      BY <1>2
    <3>2. /\ lane.queue[n + 1].generation <= store.sent
          /\ lane.queue[n + 1].generation = store.sent <=> n + 1 = size
      BY <1>1, <3>1 DEF Numbered
    <3> QED BY <1>2, <3>1, <3>2
  <2> QED BY <2>1, <2>2 DEF Numbered
<1>11. \A n \in Newest(store, lane') : n = last /\ size = 1
  BY <1>1, <1>2, <1>4, <1>5, <1>6 DEF Newest
<1>12. NewestFits(store, lane', disk, session, lost)
  <2>1. lane'.queue # <<>> => lane'.queue[Len(lane'.queue)] = lane.queue[size]
    <3>1. lane'.queue # <<>> => Len(lane'.queue) \in 1..Len(lane'.queue)
      BY <1>2, SequencesOf
    <3> QED BY <1>2, <3>1
  <2>2. lane'.queue # <<>> => IsSession(store, lane'.queue[Len(lane'.queue)].document, session, lost)
    BY <1>1, <1>2, <2>1 DEF NewestFits
  <2>3. size = 1 /\ lane.step = "landed" => IsSession(store, disk, session, lost)
    BY <1>1, <1>2 DEF NewestFits, WorkerFits
  <2> QED BY <1>2, <1>11, <2>2, <2>3 DEF NewestFits
<1>13. OverdueIsOwed(store, lane', lost)
  BY <1>1, <1>2 DEF OverdueIsOwed
<1>14. WorkerFits(lane', disk)
  BY <1>2 DEF WorkerFits
<1>15. StaysSession(lane, lane', disk, disk)
  BY <1>2 DEF StaysSession, AllSession
<1> QED BY <1>2, <1>10, <1>12, <1>13, <1>14, <1>15 DEF Fits

(* The worker's steps, whichever.                                          *)
LEMMA WorkerKeeps ==
    ASSUME Fits(store, lane, disk, session, lost), Worker \/ WorkerFails
    PROVE  /\ Fits(store, lane', disk', session, lost)
           /\ StaysSession(lane, lane', disk, disk')
           /\ UNCHANGED <<session, store, run, wait, system, sentinel, lost, changes, news, quits>>
           /\ faults' = faults \/ faults' = faults + 1
<1>1. CASE WorkerWrites
  BY <1>1, WritesFits DEF WorkerWrites, bounds
<1>2. CASE WorkerFails
  BY <1>2, FailsFits DEF WorkerFails, Fault
<1>3. CASE WorkerAnswers
  BY <1>3, AnswersFits DEF WorkerAnswers, bounds
<1>4. CASE WorkerEnds
  BY <1>4, EndsFits DEF WorkerEnds, Fault
<1> QED BY <1>1, <1>2, <1>3, <1>4 DEF Worker

-----------------------------------------------------------------------------
(* The window thread's writes: handed over, or judged.                     *)

(* What may be written was the session, and is.                            *)
KeepsSession == lost \/ AllSession(lane, disk, session) => lost' \/ AllSession(lane', disk, session)

LEMMA HandOverFits ==
    ASSUME Fits(store, lane, disk, session, lost), HandOver
    PROVE  Fits(store', lane', disk, session, lost') /\ KeepsSession
<1>1. store \in Stores /\ lost \in BOOLEAN /\ session \in Nat
  BY DEF Fits
<1>2. CASE /\ store' = [store EXCEPT !.dirty = FALSE, !.again = TRUE]
           /\ UNCHANGED <<lane, lost, faults>>
  <2>1. /\ store' \in Stores /\ store'.sent = store.sent /\ store'.landed = store.landed
        /\ store'.again /\ store'.retry = store.retry
    BY <1>1, <1>2 DEF Stores
  <2>2. Fits(store', lane, disk, session, lost)
    BY <1>1, <2>1, ChangedFits
  <2> QED BY <1>2, <2>2 DEF KeepsSession
<1>3. CASE store' = Sent(store) /\ lane' = Admits(store, lane) /\ UNCHANGED <<lost, faults>>
  <2>1. /\ Fits(store', lane', disk, session, lost)
        /\ AllSession(lane, disk, session) => AllSession(lane', disk, session)
    BY <1>3, SentFits
  <2> QED BY <1>3, <2>1 DEF KeepsSession
<1>4. CASE /\ DoorRefuses /\ store' = RefusedAtTheDoor(store)
           /\ lost' = (lost \/ Arrived # {}) /\ UNCHANGED lane
  <2>1. lane.worker # "running" /\ Arrived = Newest(store, lane)
    BY <1>4 DEF DoorRefuses, Arrived, Newest
  <2>2. CASE Arrived = {}
    <3>1. Fits(store', lane, disk, session, lost) /\ lost' = lost
      BY <1>1, <1>4, <2>1, <2>2, RefusedFits
    <3> QED BY <1>4, <3>1 DEF KeepsSession
  <2>3. CASE Arrived # {}
    <3>1. store' \in Stores /\ store'.sent = store.sent /\ store'.landed = store.landed
      BY <1>1, <1>4, RefusedParts
    <3>2. Fits(store', lane, disk, session, TRUE) /\ lost' = TRUE
      BY <1>4, <2>3, <3>1, LostFits
    <3> QED BY <1>4, <3>2 DEF KeepsSession
  <2> QED BY <2>2, <2>3
<1> QED BY <1>2, <1>3, <1>4 DEF HandOver

(* What a judged write keeps, decided at once or waited for.               *)
Judged(for) ==
    /\ Fits(store', lane', disk, session, lost') /\ KeepsSession
    /\ wait' \in {for, "none", "retire"}
    /\ wait' = for => ~store'.dirty /\ ~store'.again
    /\ wait' = "retire" => store'.stalled \/ lost' \/ AllSession(lane', disk, session)
    /\ UNCHANGED sentinel
    /\ run' = run \/ (for = "quit" /\ run' \in {"running", "left"})

Waited == {"quit", "end", "close"}

(* A store and a lane with nothing new on them that is not the session.    *)
Follows(m) == AllSession(lane, disk, session) => AllSession(m, disk, session)

LEMMA DecidedKeeps ==
    ASSUME NEW for \in Waited, NEW verdict \in {"landed", "timed out", "refused"},
           lost \in BOOLEAN,
           Fits(store', lane', disk, session, lost), Follows(lane'), Decided(for, verdict),
           verdict = "landed" => for # "end" /\ (lost \/ AllSession(lane', disk, session)),
           verdict = "timed out" => store'.stalled
    PROVE  Judged(for)
<1>1. wait' = IF for = "close" THEN "retire" ELSE "none"
  BY DEF Decided
<1>2. UNCHANGED sentinel /\ (run' = run \/ (for = "quit" /\ run' \in {"running", "left"}))
      /\ lost' \in {lost, TRUE} /\ (for = "close" => lost' = (lost \/ verdict = "refused"))
  <2>1. CASE for = "quit"
    BY <2>1 DEF Decided, sentinel
  <2>2. CASE for = "end"
    BY <2>2 DEF Decided, sentinel
  <2>3. CASE for = "close"
    BY <2>3 DEF Decided, sentinel
  <2> QED BY <2>1, <2>2, <2>3 DEF Waited
<1>3. Fits(store', lane', disk, session, lost')
  <2>1. store' \in Stores
    BY DEF Fits
  <2> QED BY <1>2, <2>1, LostFits
<1>4. KeepsSession
  BY <1>2 DEF KeepsSession, Follows
<1>5. for = "close" => store'.stalled \/ lost' \/ AllSession(lane', disk, session)
  BY <1>2
<1> QED BY <1>1, <1>2, <1>3, <1>4, <1>5 DEF Judged, Waited

LEMMA WaitsForKeeps ==
    ASSUME NEW for \in Waited, NEW s, NEW m, lost \in BOOLEAN,
           Fits(s, m, disk, session, lost), ~s.dirty, ~s.again,
           Follows(m), lane' = m, WaitsFor(for, s)
    PROVE  Judged(for)
<1>1. CASE s.stalled
  <2>1. store' = TimedOut(s) /\ Decided(for, "timed out")
    BY <1>1 DEF WaitsFor
  <2>2. Fits(store', lane', disk, session, lost) /\ store'.stalled
    BY <2>1, TimedOutFits
  <2> QED BY <2>1, <2>2, DecidedKeeps
<1>2. CASE ~s.stalled
  <2>1. store' = s /\ wait' = for /\ UNCHANGED <<run, sentinel, lost>>
    BY <1>2 DEF WaitsFor
  <2>2. wait' # "retire"
    BY <2>1 DEF Waited
  <2> QED BY <2>1, <2>2 DEF Judged, KeepsSession, Follows
<1> QED BY <1>1, <1>2

LEMMA SendKeeps ==
    ASSUME NEW for \in Waited, Fits(store, lane, disk, session, lost), Send(for)
    PROVE  Judged(for)
<1>1. PICK s : s = Taken(store)
  OBVIOUS
<1>2. PICK l : l = Read(lane)
  OBVIOUS
<1>3. Fits(s, l, disk, session, lost)
  BY <1>1, <1>2, TakenFits
<1>4. lane \in Lanes /\ lost \in BOOLEAN
  BY DEF Fits
<1>5. l.queue = lane.queue /\ l.worker = lane.worker /\ Newest(s, l) = {}
  BY <1>2, <1>4, ReadParts
<1>6. CASE /\ lane' = Admits(s, l)
           /\ WaitsFor(for, Sent(s))
  <2>1. PICK t : t = Sent(s)
    OBVIOUS
  <2>2. /\ Fits(t, lane', disk, session, lost) /\ ~t.dirty /\ ~t.again
        /\ AllSession(l, disk, session) => AllSession(lane', disk, session)
    BY <1>3, <1>6, <2>1, SentFits
  <2>3. Follows(lane')
    BY <1>5, <2>2 DEF Follows, AllSession
  <2> QED BY <1>4, <1>6, <2>1, <2>2, <2>3, WaitsForKeeps
<1>7. CASE /\ DoorRefuses /\ lane' = l /\ store' = RefusedAtTheDoor(s)
           /\ Decided(for, "refused")
  <2>1. l.worker # "running"
    BY <1>5, <1>7 DEF DoorRefuses
  <2>2. Fits(store', lane', disk, session, lost)
    BY <1>3, <1>5, <1>7, <2>1, RefusedFits
  <2>3. Follows(lane')
    BY <1>5, <1>7 DEF Follows, AllSession
  <2> QED BY <1>4, <1>7, <2>2, <2>3, DecidedKeeps
<1> QED BY <1>1, <1>2, <1>6, <1>7 DEF Send

LEMMA FlushKeeps ==
    ASSUME NEW for \in {"quit", "close"}, Fits(store, lane, disk, session, lost),
           FlushJudged(for)
    PROVE  Judged(for)
<1>1. for \in Waited
  BY DEF Waited
<1>2. PICK s : s = Taken(store)
  OBVIOUS
<1>3. PICK l : l = Read(lane)
  OBVIOUS
<1>4. /\ Fits(s, l, disk, session, lost)
      /\ ~Owes(s) /\ ~InFlight(s) /\ ~lost => lane.queue = <<>>
  BY <1>2, <1>3, TakenFits
<1>5. lane \in Lanes /\ lost \in BOOLEAN
  BY DEF Fits
<1>6. l.queue = lane.queue
  BY <1>3, <1>5, ReadParts
<1>7. Follows(l)
  BY <1>6 DEF Follows, AllSession
<1>8. CASE Send(for)
  BY <1>1, <1>8, SendKeeps
<1>9. CASE ~Owes(s) /\ lane' = l /\ InFlight(s) /\ WaitsFor(for, s)
  <2>1. ~s.dirty /\ ~s.again
    BY <1>9 DEF Owes
  <2> QED BY <1>1, <1>4, <1>5, <1>7, <1>9, <2>1, WaitsForKeeps
<1>10. CASE ~Owes(s) /\ lane' = l /\ ~InFlight(s) /\ store' = s /\ Decided(for, "landed")
  <2>1. lost \/ AllSession(lane', disk, session)
    BY <1>4, <1>6, <1>10 DEF Fits, OnDisk, AllSession
  <2> QED BY <1>1, <1>4, <1>5, <1>7, <1>10, <2>1, DecidedKeeps
<1> QED BY <1>2, <1>3, <1>8, <1>9, <1>10 DEF FlushJudged

-----------------------------------------------------------------------------
(* The invariant is inductive.                                             *)

(* What TypeOK says of the variables that are neither the store's nor the  *)
(* lane's.                                                                 *)
Controls ==
    /\ run \in {"running", "receipt", "left", "closed"}
    /\ wait \in {"none", "quit", "end", "close", "retire"}
    /\ held \in BOOLEAN /\ settled \in BOOLEAN /\ settling \in BOOLEAN /\ armed \in BOOLEAN
    /\ toRearm \in BOOLEAN /\ vouched \in BOOLEAN
    /\ inbox \in Seq({"asked", "taken back"})
    /\ changes \in Nat /\ faults \in Nat /\ news \in Nat /\ quits \in Nat

LEMMA Parts ==
    IInv <=> /\ Controls /\ Fits(store, lane, disk, session, lost)
             /\ JudgedStands /\ RetiresSaved /\ QuestionHolds /\ VouchesSaved
BY DEF IInv, Controls, TypeOK, Fits

LEMMA PartsNext ==
    IInv' <=> /\ Controls' /\ Fits(store', lane', disk', session', lost')
              /\ JudgedStands' /\ RetiresSaved' /\ QuestionHolds' /\ VouchesSaved'
BY DEF IInv, Controls, TypeOK, Fits

Counted == {changes', faults', news', quits'} \subseteq Nat

LEMMA InitInv == Init => IInv
<1> SUFFICES ASSUME Init PROVE IInv
  OBVIOUS
<1>1. PICK none : none = <<>> /\ none \in Seq(Documents) /\ none \in Seq(Answers)
  <2>1. <<>> \in Seq(Documents) /\ <<>> \in Seq(Answers)
    OBVIOUS
  <2> QED BY <2>1
<1>2. store \in Stores /\ store.landed = 0 /\ store.sent = 0 /\ ~Owes(store)
  BY DEF Init, Opened, NoAnswer, Stores, Answers, Owes
<1>3. PICK worker \in {"waiting", "running"} :
         lane = [worker |-> worker, open |-> TRUE, queue |-> none, step |-> "idle",
                 receipts |-> none]
  BY <1>1 DEF Init
<1>4. lane \in Lanes /\ lane.queue = none /\ lane.receipts = none /\ lane.step = "idle"
  BY <1>1, <1>3 DEF Lanes
<1>5. lane.queue = <<>> /\ lane.receipts = <<>>
  BY <1>1, <1>4
<1>6. Fits(store, lane, disk, session, lost)
  <2>1. disk = 0 /\ session = 0 /\ lost = FALSE
    BY DEF Init
  <2>2. Newest(store, lane) = {} /\ Numbered(store, lane)
    BY <1>5 DEF Newest, Numbered
  <2>3. WorkerFits(lane, disk)
    BY <1>4, <1>5 DEF WorkerFits
  <2>4. NewestFits(store, lane, disk, session, lost) /\ OverdueIsOwed(store, lane, lost)
    BY <1>5, <2>2 DEF NewestFits, OverdueIsOwed
  <2>5. OnDisk(store, disk, session, lost)
    BY <2>1 DEF OnDisk
  <2>6. store.landed <= store.sent
    BY <1>2
  <2>7. disk \in Nat /\ session \in Nat /\ lost \in BOOLEAN
    BY <2>1
  <2> QED BY <1>2, <1>4, <2>2, <2>3, <2>4, <2>5, <2>6, <2>7 DEF Fits
<1>7. Controls
  <2>1. <<>> \in Seq({"asked", "taken back"})
    OBVIOUS
  <2>2. inbox \in Seq({"asked", "taken back"})
    BY <2>1 DEF Init
  <2> QED BY <2>2 DEF Init, Controls
<1>8. JudgedStands /\ RetiresSaved /\ QuestionHolds /\ VouchesSaved
  BY DEF Init, JudgedStands, RetiresSaved, QuestionHolds, VouchesSaved
<1> QED BY <1>6, <1>7, <1>8, Parts

(* A step that waits for nothing, says nothing of the system's and leaves  *)
(* the sentinel.                                                           *)
LEMMA PlainKeeps ==
    ASSUME IInv, Idle, UNCHANGED <<session, disk, wait, system, sentinel>>, Counted,
           run' \in {"running", "receipt", "left"},
           Fits(store', lane', disk, session, lost'), KeepsSession
    PROVE  IInv'
<1>1. wait' = "none" /\ wait = "none" /\ run # "closed"
  BY DEF Idle, AtRest
<1>2. Controls'
  BY Parts DEF Controls, Counted, system, sentinel
<1>3. JudgedStands' /\ RetiresSaved' /\ QuestionHolds'
  BY <1>1, Parts DEF JudgedStands, RetiresSaved, QuestionHolds, system
<1>4. VouchesSaved'
  BY <1>1, Parts DEF VouchesSaved, KeepsSession, sentinel, system
<1> QED BY <1>2, <1>3, <1>4, PartsNext

(* A judged write, decided or waited for.                                  *)
LEMMA JudgedKeeps ==
    ASSUME IInv, NEW for \in Waited, Judged(for), run # "closed",
           UNCHANGED <<session, disk>>, Counted,
           held' \in BOOLEAN, settled' \in BOOLEAN, settling' \in BOOLEAN,
           inbox' \in Seq({"asked", "taken back"}),
           inbox' # <<>> /\ inbox'[Len(inbox')] = "asked" => held',
           held \/ settling => held' \/ settling',
           for = "end" => held' \/ settling'
    PROVE  IInv'
<1>1. Controls'
  BY Parts DEF Controls, Counted, Judged, sentinel, Waited
<1>2. JudgedStands' /\ RetiresSaved' /\ QuestionHolds'
  BY Parts DEF JudgedStands, RetiresSaved, QuestionHolds, Judged, Waited
<1>3. VouchesSaved'
  BY Parts DEF VouchesSaved, Judged, KeepsSession, sentinel
<1> QED BY <1>1, <1>2, <1>3, PartsNext DEF Judged

LEMMA WorkerInv ==
    ASSUME IInv, Worker \/ WorkerFails
    PROVE  IInv'
<1>1. /\ Fits(store, lane', disk', session, lost)
      /\ StaysSession(lane, lane', disk, disk')
      /\ UNCHANGED <<session, store, run, wait, system, sentinel, lost, changes, news, quits>>
      /\ faults' = faults \/ faults' = faults + 1
  BY Parts, WorkerKeeps
<1>2. Controls'
  <2>1. Controls /\ faults \in Nat
    BY Parts DEF Controls
  <2>2. faults' \in Nat
    BY <1>1, <2>1
  <2> QED BY <1>1, <2>1, <2>2 DEF Controls, system, sentinel
<1>3. JudgedStands' /\ RetiresSaved' /\ QuestionHolds' /\ VouchesSaved'
  BY <1>1, Parts DEF JudgedStands, RetiresSaved, QuestionHolds, VouchesSaved, StaysSession,
                     system, sentinel
<1> QED BY <1>1, <1>2, <1>3, PartsNext

LEMMA RecordInv ==
    ASSUME IInv, Record
    PROVE  IInv'
<1>1. /\ ~held /\ ~settling /\ run = "running" /\ wait = "none"
      /\ store' = [store EXCEPT !.dirty = TRUE] /\ session' = session + 1
      /\ changes' = changes + 1
      /\ UNCHANGED <<lane, disk, run, wait, system, sentinel, lost, faults, news, quits>>
  BY DEF Record, Idle, AtRest, Frozen
<1>2. store \in Stores /\ session \in Nat
  BY Parts DEF Fits
<1>3. /\ store' \in Stores /\ store'.sent = store.sent /\ store'.landed = store.landed
      /\ store'.dirty /\ store'.retry = store.retry
  BY <1>1, <1>2 DEF Stores
<1>4. Fits(store', lane, disk, session', lost)
  <2>1. session' \in Nat /\ Fits(store, lane, disk, session, lost)
    BY <1>1, <1>2, Parts
  <2> QED BY <1>3, <2>1, ChangedFits
<1>5. Controls'
  <2>1. Controls /\ changes \in Nat
    BY Parts DEF Controls
  <2>2. changes' \in Nat
    BY <1>1, <2>1
  <2> QED BY <1>1, <2>1, <2>2 DEF Controls, system, sentinel
<1>6. JudgedStands' /\ RetiresSaved' /\ QuestionHolds'
  BY <1>1, Parts DEF JudgedStands, RetiresSaved, QuestionHolds, system
<1>7. VouchesSaved'
  BY <1>1, Parts DEF VouchesSaved, sentinel
<1> QED BY <1>1, <1>4, <1>5, <1>6, <1>7, PartsNext

LEMMA TakenKeeps ==
    ASSUME IInv
    PROVE  /\ Fits(Taken(store), Read(lane), disk, session, lost)
           /\ AllSession(lane, disk, session) => AllSession(Read(lane), disk, session)
<1>1. Read(lane).queue = lane.queue
  BY Parts, ReadParts DEF Fits
<1> QED BY <1>1, Parts, TakenFits DEF AllSession

LEMMA HandOverInv ==
    ASSUME IInv, FlushIfDue \/ HearTheStoragePass
    PROVE  IInv'
<1>1. /\ Idle /\ HandOver
      /\ UNCHANGED <<session, disk, run, wait, system, sentinel, changes, news, quits>>
  BY DEF FlushIfDue, HearTheStoragePass
<1>2. Fits(store', lane', disk, session, lost') /\ KeepsSession
  BY <1>1, Parts, HandOverFits
<1>3. faults' = faults \/ faults' = faults + 1
  BY <1>1 DEF HandOver, DoorRefuses, Fault
<1>4. Counted
  <2>1. Controls /\ faults \in Nat
    BY Parts DEF Controls
  <2>2. faults' \in Nat
    BY <1>3, <2>1
  <2> QED BY <1>1, <2>1, <2>2 DEF Controls, Counted
<1> QED BY <1>1, <1>2, <1>4, PlainKeeps DEF Idle, AtRest

LEMMA TakeReceiptsInv ==
    ASSUME IInv, TakeReceipts
    PROVE  IInv'
<1>1. /\ Idle /\ store' = Taken(store) /\ lane' = Read(lane)
      /\ UNCHANGED <<session, disk, run, wait, system, sentinel, lost, bounds>>
  BY DEF TakeReceipts
<1>2. Fits(store', lane', disk, session, lost') /\ KeepsSession
  BY <1>1, TakenKeeps DEF KeepsSession
<1>3. Counted
  BY <1>1, Parts DEF Controls, Counted, bounds
<1> QED BY <1>1, <1>2, <1>3, PlainKeeps DEF Idle, AtRest

(* Each bounded counter counts up or stays.                                *)
LEMMA Counts ==
    ASSUME IInv,
           changes' = changes \/ changes' = changes + 1, faults' = faults \/ faults' = faults + 1,
           news' = news \/ news' = news + 1, quits' = quits \/ quits' = quits + 1
    PROVE  Counted
<1>1. changes \in Nat /\ faults \in Nat /\ news \in Nat /\ quits \in Nat
  BY Parts DEF Controls
<1>2. changes' \in Nat /\ faults' \in Nat /\ news' \in Nat /\ quits' \in Nat
  BY <1>1
<1> QED BY <1>2 DEF Counted

(* Where a judged write may count a fault.                                 *)
LEMMA JudgedFaults ==
    ASSUME NEW for, Send(for) \/ FlushJudged(for)
    PROVE  faults' = faults \/ faults' = faults + 1
BY DEF Send, FlushJudged, DoorRefuses, Fault

LEMMA QuitWritesInv ==
    ASSUME IInv, QuitWrites
    PROVE  IInv'
<1>1. /\ Idle /\ quits' = quits + 1 /\ FlushJudged("quit")
      /\ UNCHANGED <<session, disk, system, changes, news>>
  BY DEF QuitWrites, QuitAsked
<1>2. Judged("quit") /\ Counted
  BY <1>1, Parts, FlushKeeps, JudgedFaults, Counts
<1>3. Controls /\ QuestionHolds /\ run # "closed"
  BY <1>1, Parts DEF Idle, AtRest
<1>4. /\ held' \in BOOLEAN /\ settled' \in BOOLEAN /\ settling' \in BOOLEAN
      /\ inbox' \in Seq({"asked", "taken back"})
      /\ inbox' # <<>> /\ inbox'[Len(inbox')] = "asked" => held'
      /\ held \/ settling => held' \/ settling'
  BY <1>1, <1>3 DEF Controls, QuestionHolds, system
<1> QED BY <1>1, <1>2, <1>3, <1>4, JudgedKeeps DEF Waited

LEMMA CloseInv ==
    ASSUME IInv, Close
    PROVE  IInv'
<1>1. /\ Idle /\ FlushJudged("close")
      /\ UNCHANGED <<session, disk, system, changes, news, quits>>
  BY DEF Close
<1>2. Judged("close") /\ Counted
  BY <1>1, Parts, FlushKeeps, JudgedFaults, Counts
<1>3. Controls /\ QuestionHolds /\ run # "closed"
  BY <1>1, Parts DEF Idle, AtRest
<1>4. /\ held' \in BOOLEAN /\ settled' \in BOOLEAN /\ settling' \in BOOLEAN
      /\ inbox' \in Seq({"asked", "taken back"})
      /\ inbox' # <<>> /\ inbox'[Len(inbox')] = "asked" => held'
      /\ held \/ settling => held' \/ settling'
  BY <1>1, <1>3 DEF Controls, QuestionHolds, system
<1> QED BY <1>1, <1>2, <1>3, <1>4, JudgedKeeps DEF Waited

LEMMA QuitGivesUpInv ==
    ASSUME IInv, QuitGivesUp
    PROVE  IInv'
<1>1. PICK s : s = Taken(store)
  OBVIOUS
<1> DEFINE owes == Owes(s) \/ InFlight(s)
<1>2. /\ Idle /\ quits' = quits + 1 /\ faults' = faults + 1
      /\ store' = IF owes THEN [Sending(s) EXCEPT !.stalled = TRUE] ELSE s
      /\ lost' = (lost \/ owes) /\ lane' = Read(lane) /\ run' = "left"
      /\ UNCHANGED <<session, disk, wait, system, sentinel, changes, news>>
  BY <1>1 DEF QuitGivesUp, QuitAsked, Fault
<1> HIDE DEF owes
<1>3. /\ Fits(s, lane', disk, session, lost) /\ s \in Stores /\ lost \in BOOLEAN
      /\ AllSession(lane, disk, session) => AllSession(lane', disk, session)
  BY <1>1, <1>2, TakenKeeps, Parts DEF Fits
<1>4. Fits(store', lane', disk, session, lost')
  <2>1. CASE owes
    <3>1. store' \in Stores /\ store'.sent = s.sent /\ store'.landed = s.landed
      BY <1>2, <1>3, <2>1 DEF Sending, Stores
    <3>2. lost' = TRUE
      BY <1>2, <2>1
    <3> QED BY <1>3, <3>1, <3>2, LostFits
  <2>2. CASE ~owes
    BY <1>2, <1>3, <2>2
  <2> QED BY <2>1, <2>2
<1>5. KeepsSession
  BY <1>2, <1>3 DEF KeepsSession
<1>6. Counted
  BY <1>2, Counts
<1> QED BY <1>2, <1>4, <1>5, <1>6, PlainKeeps

LEMMA UpdateQuitSendsInv ==
    ASSUME IInv, UpdateQuitSends
    PROVE  IInv'
<1>1. PICK s : s = Taken(store)
  OBVIOUS
<1>2. PICK l : l = Read(lane)
  OBVIOUS
<1>3. /\ Idle /\ run = "running" /\ quits' = quits + 1
      /\ \/ lane' = Admits(s, l) /\ store' = Sent(s) /\ run' = "receipt" /\ UNCHANGED faults
         \/ DoorRefuses /\ lane' = l /\ store' = RefusedAtTheDoor(s) /\ UNCHANGED run
      /\ UNCHANGED <<session, disk, wait, system, sentinel, lost, changes, news>>
  BY <1>1, <1>2 DEF UpdateQuitSends, QuitAsked
<1>4. /\ Fits(s, l, disk, session, lost) /\ lane \in Lanes
      /\ AllSession(lane, disk, session) => AllSession(l, disk, session)
  BY <1>1, <1>2, TakenKeeps, Parts DEF Fits
<1>5. Counted
  BY <1>3, Counts DEF DoorRefuses, Fault
<1>6. Fits(store', lane', disk, session, lost) /\ KeepsSession
  <2>1. CASE lane' = Admits(s, l) /\ store' = Sent(s)
    <3>1. /\ Fits(store', lane', disk, session, lost)
          /\ AllSession(l, disk, session) => AllSession(lane', disk, session)
      BY <1>4, <2>1, SentFits
    <3> QED BY <1>3, <1>4, <3>1 DEF KeepsSession
  <2>2. CASE DoorRefuses /\ lane' = l /\ store' = RefusedAtTheDoor(s)
    <3>1. l.worker # "running" /\ Newest(s, l) = {}
      BY <1>2, <1>4, <2>2, ReadParts DEF DoorRefuses
    <3>2. Fits(store', lane', disk, session, lost)
      BY <1>4, <2>2, <3>1, RefusedFits
    <3> QED BY <1>3, <1>4, <2>2, <3>2 DEF KeepsSession
  <2> QED BY <1>3, <2>1, <2>2
<1> QED BY <1>3, <1>5, <1>6, PlainKeeps

LEMMA UpdateQuitHearsInv ==
    ASSUME IInv, UpdateQuitHears
    PROVE  IInv'
<1>1. /\ Idle /\ store' = Taken(store) /\ lane' = Read(lane)
      /\ run' \in {"left", "running"}
      /\ UNCHANGED <<session, disk, wait, system, sentinel, lost, bounds>>
  BY DEF UpdateQuitHears
<1>2. Fits(store', lane', disk, session, lost') /\ KeepsSession
  BY <1>1, TakenKeeps DEF KeepsSession
<1>3. Counted
  BY <1>1, Counts DEF bounds
<1> QED BY <1>1, <1>2, <1>3, PlainKeeps

LEMMA UpdateQuitOverdueInv ==
    ASSUME IInv, UpdateQuitOverdue
    PROVE  IInv'
<1>1. /\ Idle /\ store' = TimedOut(Taken(store)) /\ lane' = Read(lane) /\ run' = "left"
      /\ faults' = faults + 1
      /\ UNCHANGED <<session, disk, wait, system, sentinel, lost, changes, news, quits>>
  BY DEF UpdateQuitOverdue, Fault
<1>2. Fits(store', lane', disk, session, lost') /\ KeepsSession
  BY <1>1, TakenKeeps, TimedOutFits DEF KeepsSession
<1>3. Counted
  BY <1>1, Counts
<1> QED BY <1>1, <1>2, <1>3, PlainKeeps

(* A wait's end that decides nothing for the sentinel.                     *)
LEMMA WaitEndsKeeps ==
    ASSUME IInv, wait \in Waited, Judged(wait), UNCHANGED <<session, disk, system>>, Counted
    PROVE  IInv'
<1>1. Controls /\ QuestionHolds /\ JudgedStands
  BY Parts
<1>2. run # "closed" /\ (wait = "end" => held \/ settling)
  BY <1>1 DEF JudgedStands, QuestionHolds, Waited
<1>3. /\ held' \in BOOLEAN /\ settled' \in BOOLEAN /\ settling' \in BOOLEAN
      /\ inbox' \in Seq({"asked", "taken back"})
      /\ inbox' # <<>> /\ inbox'[Len(inbox')] = "asked" => held'
      /\ held \/ settling => held' \/ settling'
  BY <1>1 DEF Controls, QuestionHolds, system
<1>4. wait = "end" => held' \/ settling'
  BY <1>2, <1>3
<1> QED BY <1>2, <1>3, <1>4, JudgedKeeps

LEMMA WaitHearsInv ==
    ASSUME IInv, WaitHears
    PROVE  IInv'
<1>1. PICK n \in Arrived :
         /\ store' = Applied(store, lane.receipts[n])
         /\ Decided(wait, IF lane.receipts[n].landed THEN "landed" ELSE "refused")
  BY DEF WaitHears
<1>2. wait \in Waited /\ lane' = Read(lane) /\ UNCHANGED <<session, disk, system, bounds>>
  BY DEF WaitHears, Waited
<1>3. PICK verdict : verdict = IF lane.receipts[n].landed THEN "landed" ELSE "refused"
  OBVIOUS
<1>4. ~store.dirty /\ ~store.again /\ Fits(store, lane, disk, session, lost) /\ lost \in BOOLEAN
  BY <1>2, Parts DEF JudgedStands, Waited, Fits
<1>5. n \in Newest(store, lane)
  BY <1>1 DEF Arrived, Newest
<1>6. /\ Fits(store', lane', disk, session, lost)
      /\ verdict = "landed" => lost \/ AllSession(lane', disk, session)
  BY <1>1, <1>2, <1>3, <1>4, <1>5, HeardFits
<1>7. Follows(lane')
  BY <1>2, TakenKeeps DEF Follows
<1>8. Counted
  BY <1>2, Counts DEF bounds
<1>9. CASE ~(verdict = "landed" /\ wait = "end")
  <2>1. Judged(wait)
    BY <1>1, <1>2, <1>3, <1>4, <1>6, <1>7, <1>9, DecidedKeeps
  <2> QED BY <1>2, <1>8, <2>1, WaitEndsKeeps
<1>10. CASE verdict = "landed" /\ wait = "end"
  <2>1. /\ wait' = "none" /\ UNCHANGED <<run, lost>>
        /\ \/ armed' = FALSE /\ toRearm' = TRUE /\ vouched' = TRUE
           \/ UNCHANGED sentinel
    BY <1>1, <1>3, <1>10 DEF Decided
  <2>2. Controls /\ QuestionHolds /\ VouchesSaved
    BY Parts
  <2>3. Controls'
    BY <1>2, <1>8, <2>1, <2>2 DEF Controls, Counted, system, sentinel
  <2>4. JudgedStands' /\ RetiresSaved' /\ QuestionHolds'
    BY <1>2, <2>1, <2>2 DEF JudgedStands, RetiresSaved, QuestionHolds, system
  <2>5. VouchesSaved'
    BY <1>2, <1>6, <1>10, <2>1, <2>2 DEF VouchesSaved, QuestionHolds, system, sentinel
  <2>6. Fits(store', lane', disk', session', lost')
    BY <1>2, <1>6, <2>1
  <2> QED BY <2>3, <2>4, <2>5, <2>6, PartsNext
<1> QED BY <1>9, <1>10

LEMMA WaitRunsOutInv ==
    ASSUME IInv, WaitRunsOut
    PROVE  IInv'
<1>1. /\ wait \in Waited /\ Newest(store, lane) = {} /\ faults' = faults + 1
      /\ store' = TimedOut(store) /\ lane' = Read(lane) /\ Decided(wait, "timed out")
      /\ UNCHANGED <<session, disk, system, changes, news, quits>>
  BY DEF WaitRunsOut, Waited, Arrived, Newest, Fault
<1>2. Fits(store, Read(lane), disk, session, lost) /\ lost \in BOOLEAN
  BY <1>1, Parts, ReadDropsFits DEF Fits
<1>3. Fits(store', lane', disk, session, lost) /\ store'.stalled
  BY <1>1, <1>2, TimedOutFits
<1>4. Follows(lane')
  BY <1>1, TakenKeeps DEF Follows
<1>5. Judged(wait)
  BY <1>1, <1>2, <1>3, <1>4, DecidedKeeps
<1>6. Counted
  BY <1>1, Counts
<1> QED BY <1>1, <1>5, <1>6, WaitEndsKeeps

LEMMA WaitFindsNoWorkerInv ==
    ASSUME IInv, WaitFindsNoWorker
    PROVE  IInv'
<1>1. PICK u : u = [store EXCEPT !.ended = TRUE]
  OBVIOUS
<1>2. /\ wait \in Waited /\ Newest(store, lane) = {}
      /\ store' = Applied(u, [generation |-> store.sent, landed |-> FALSE])
      /\ lane' = Read(lane) /\ Decided(wait, "refused")
      /\ UNCHANGED <<session, disk, system, bounds>>
  BY <1>1 DEF WaitFindsNoWorker, Waited, Arrived, Newest
<1>3. Fits(store, Read(lane), disk, session, lost) /\ lost \in BOOLEAN /\ store \in Stores
  BY <1>2, Parts, ReadDropsFits DEF Fits
<1>4. /\ u \in Stores /\ u.sent = store.sent /\ u.landed = store.landed
      /\ u.dirty = store.dirty /\ u.again = store.again /\ u.retry = store.retry
  BY <1>1, <1>3 DEF Stores
<1>5. Fits(u, lane', disk, session, lost)
  BY <1>2, <1>3, <1>4, MarkedFits
<1>6. Fits(store', lane', disk, session, lost)
  BY <1>2, <1>4, <1>5, FailedFits
<1>7. Follows(lane')
  BY <1>2, TakenKeeps DEF Follows
<1>8. Judged(wait)
  BY <1>2, <1>3, <1>6, <1>7, DecidedKeeps
<1>9. Counted
  BY <1>2, Counts DEF bounds
<1> QED BY <1>2, <1>8, <1>9, WaitEndsKeeps

LEMMA RetireInv ==
    ASSUME IInv, Retire
    PROVE  IInv'
<1>1. /\ wait = "retire" /\ lane' = [lane EXCEPT !.open = FALSE]
      /\ UNCHANGED <<session, store, disk, run, wait, system, sentinel, lost, bounds>>
  BY DEF Retire
<1>2. Controls /\ Fits(store, lane, disk, session, lost) /\ lane \in Lanes
  BY Parts DEF Fits
<1>3. /\ lane' \in Lanes /\ lane'.queue = lane.queue /\ lane'.receipts = lane.receipts
      /\ lane'.worker = lane.worker /\ lane'.step = lane.step
  BY <1>1, <1>2 DEF Lanes
<1>4. Newest(store, lane') = Newest(store, lane)
  BY <1>3 DEF Newest
<1>5. Fits(store, lane', disk, session, lost)
  BY <1>2, <1>3, <1>4 DEF Fits, Numbered, WorkerFits, NewestFits, OverdueIsOwed
<1>6. Controls'
  BY <1>1, <1>2 DEF Controls, system, sentinel, bounds
<1>7. JudgedStands' /\ RetiresSaved' /\ QuestionHolds' /\ VouchesSaved'
  BY <1>1, <1>3, Parts DEF JudgedStands, RetiresSaved, QuestionHolds, VouchesSaved, AllSession,
                           system, sentinel
<1> QED BY <1>1, <1>5, <1>6, <1>7, PartsNext

LEMMA ClosedInv ==
    ASSUME IInv, wait = "retire", NEW s, s = store \/ s = [store EXCEPT !.stalled = TRUE],
           Closed(s), faults' = faults \/ faults' = faults + 1
    PROVE  IInv'
<1>1. /\ store' = s /\ run' = "closed" /\ wait' = "none"
      /\ \/ armed /\ ~s.stalled /\ armed' = FALSE /\ vouched' = TRUE /\ UNCHANGED toRearm
         \/ UNCHANGED sentinel
      /\ UNCHANGED <<session, lane, disk, system, lost, changes, news, quits>>
  BY DEF Closed
<1>2. Controls /\ Fits(store, lane, disk, session, lost) /\ store \in Stores
  BY Parts DEF Fits
<1>3. /\ s \in Stores /\ s.sent = store.sent /\ s.landed = store.landed
      /\ s.dirty = store.dirty /\ s.again = store.again /\ s.retry = store.retry
      /\ ~s.stalled => ~store.stalled
  BY <1>2 DEF Stores
<1>4. Fits(store', lane', disk', session', lost')
  BY <1>1, <1>2, <1>3, MarkedFits
<1>5. Counted
  BY <1>1, Counts
<1>6. Controls'
  BY <1>1, <1>2, <1>5 DEF Controls, Counted, system, sentinel
<1>7. JudgedStands' /\ RetiresSaved' /\ QuestionHolds'
  BY <1>1, Parts DEF JudgedStands, RetiresSaved, QuestionHolds, system
<1>8. VouchesSaved'
  BY <1>1, <1>3, Parts DEF VouchesSaved, RetiresSaved, sentinel
<1> QED BY <1>4, <1>6, <1>7, <1>8, PartsNext

(* What is heard last stays last, however many before it are settled.      *)
LEMMA AppendLast ==
    \A S : \A q \in Seq(S), x \in S :
        Append(q, x) \in Seq(S) /\ Append(q, x)[Len(Append(q, x))] = x
OBVIOUS

LEMMA TailLast ==
    ASSUME NEW S, NEW q \in Seq(S), q # <<>>, NEW p, p = Tail(q)
    PROVE  /\ p \in Seq(S)
           /\ p = <<>> => q[Len(q)] = Head(q)
           /\ p # <<>> => p[Len(p)] = q[Len(q)]
<1>1. Len(q) \in Nat \ {0} /\ Head(q) = q[1]
  OBVIOUS
<1>2. p \in Seq(S) /\ Len(p) = Len(q) - 1 /\ \A n \in 1..Len(p) : p[n] = q[n + 1]
  OBVIOUS
<1>3. p = <<>> => Len(q) = 1
  <2>1. p = <<>> => Len(p) = 0
    OBVIOUS
  <2> QED BY <1>1, <1>2, <2>1
<1>4. p # <<>> => Len(p) \in 1..Len(p)
  <2>1. p # <<>> => Len(p) # 0
    BY <1>2
  <2> QED BY <1>1, <1>2, <2>1
<1>5. p # <<>> => p[Len(p)] = q[Len(q)]
  BY <1>1, <1>2, <1>4
<1> QED BY <1>1, <1>2, <1>3, <1>5

LEMMA SaysInv ==
    ASSUME IInv, NEW what \in {"asked", "taken back"}, Says(what)
    PROVE  IInv'
<1>1. /\ wait = "none" /\ inbox' = Append(inbox, what) /\ held' = (held \/ what = "asked")
      /\ news' = news + 1
      /\ UNCHANGED <<session, store, lane, disk, run, wait, settled, settling, sentinel, lost,
                     changes, faults, quits>>
  BY DEF Says, Idle, AtRest
<1>2. Controls /\ Fits(store, lane, disk, session, lost)
  BY Parts
<1>3. inbox \in Seq({"asked", "taken back"}) /\ held \in BOOLEAN
  BY <1>2 DEF Controls
<1>4. inbox' \in Seq({"asked", "taken back"}) /\ inbox'[Len(inbox')] = what
  <2>1. /\ Append(inbox, what) \in Seq({"asked", "taken back"})
        /\ Append(inbox, what)[Len(Append(inbox, what))] = what
    BY <1>3, AppendLast, Zenon
  <2> QED BY <1>1, <2>1, Zenon
<1>5. held' \in BOOLEAN /\ (what = "asked" => held') /\ (held => held')
  BY <1>1, <1>3
<1>6. Counted
  BY <1>1, Counts
<1>7. Controls'
  BY <1>1, <1>2, <1>4, <1>5, <1>6 DEF Controls, Counted, sentinel
<1>8. JudgedStands' /\ RetiresSaved' /\ QuestionHolds'
  BY <1>1, <1>4, <1>5 DEF JudgedStands, RetiresSaved, QuestionHolds
<1>9. VouchesSaved'
  BY <1>1, <1>5, Parts DEF VouchesSaved, sentinel
<1>10. Fits(store', lane', disk', session', lost')
  BY <1>1, <1>2
<1> QED BY <1>7, <1>8, <1>9, <1>10, PartsNext

(* A question settled: it is held, or what takes it back is settled in the *)
(* same turn.                                                              *)
LEMMA AskedHeld ==
    ASSUME QuestionHolds, inbox \in Seq({"asked", "taken back"}), Settle("asked"),
           UNCHANGED held
    PROVE  /\ inbox' \in Seq({"asked", "taken back"})
           /\ settling' \in BOOLEAN
           /\ inbox' # <<>> /\ inbox'[Len(inbox')] = "asked" => held'
           /\ held' \/ settling'
<1>1. inbox # <<>> /\ Head(inbox) = "asked" /\ inbox' = Tail(inbox) /\ settling' = (inbox' # <<>>)
  BY DEF Settle
<1>2. /\ inbox' \in Seq({"asked", "taken back"})
      /\ inbox' = <<>> => inbox[Len(inbox)] = "asked"
      /\ inbox' # <<>> => inbox'[Len(inbox')] = inbox[Len(inbox)]
  BY <1>1, TailLast
<1>3. settling' \in BOOLEAN /\ (settling' <=> inbox' # <<>>)
  BY <1>1
<1> QED BY <1>1, <1>2, <1>3 DEF QuestionHolds

LEMMA SettleAskedInv ==
    ASSUME IInv, SettleAsked
    PROVE  IInv'
<1>1. /\ Settle("asked") /\ wait = "none" /\ run # "closed"
      /\ UNCHANGED <<session, disk, held, changes, news, quits>>
  BY DEF SettleAsked, Settle, AtRest
<1>2. Controls /\ QuestionHolds /\ Fits(store, lane, disk, session, lost)
  BY Parts
<1>3. inbox \in Seq({"asked", "taken back"}) /\ held \in BOOLEAN
  BY <1>2 DEF Controls
<1>4. /\ inbox' \in Seq({"asked", "taken back"})
      /\ held' \in BOOLEAN /\ settling' \in BOOLEAN
      /\ inbox' # <<>> /\ inbox'[Len(inbox')] = "asked" => held'
      /\ held' \/ settling'
  BY <1>1, <1>2, <1>3, AskedHeld
<1>5. CASE UNCHANGED <<settled, store, lane, wait, run, sentinel, lost, faults>>
  <2>1. Controls'
    BY <1>1, <1>2, <1>4, <1>5 DEF Controls, sentinel
  <2>2. JudgedStands' /\ RetiresSaved' /\ QuestionHolds'
    BY <1>1, <1>4, <1>5 DEF JudgedStands, RetiresSaved, QuestionHolds
  <2>3. VouchesSaved'
    BY <1>1, <1>4, <1>5, Parts DEF VouchesSaved, sentinel
  <2>4. Fits(store', lane', disk', session', lost')
    BY <1>1, <1>2, <1>5
  <2> QED BY <2>1, <2>2, <2>3, <2>4, PartsNext
<1>6. CASE settled' = TRUE /\ Send("end")
  <2>1. Judged("end") /\ Counted
    BY <1>1, <1>2, <1>6, SendKeeps, JudgedFaults, Counts DEF Waited
  <2>2. settled' \in BOOLEAN
    BY <1>6
  <2> QED BY <1>1, <1>4, <2>1, <2>2, JudgedKeeps DEF Waited
<1> QED BY <1>5, <1>6 DEF SettleAsked

LEMMA SettleTakenBackInv ==
    ASSUME IInv, SettleTakenBack
    PROVE  IInv'
<1>1. PICK s : s = Taken(store)
  OBVIOUS
<1> DEFINE waits == s.stalled /\ s.ended
<1>2. /\ Settle("taken back") /\ wait = "none" /\ run # "closed"
      /\ settled' = FALSE /\ toRearm' = FALSE
      /\ held' = (inbox' # <<>> /\ inbox'[Len(inbox')] = "asked")
      /\ armed' = (armed \/ toRearm) /\ vouched' = (vouched /\ ~toRearm)
      /\ lane' = Read(lane)
      /\ \/ store' = [s EXCEPT !.stalled = waits] /\ UNCHANGED <<session, changes>>
         \/ /\ changes' = changes + 1 /\ session' = session + 1
            /\ store' = [s EXCEPT !.stalled = waits, !.dirty = TRUE]
      /\ UNCHANGED <<disk, run, wait, lost, faults, news, quits>>
  BY <1>1 DEF SettleTakenBack, Settle, AtRest
<1>3. Controls /\ Fits(store, lane, disk, session, lost)
  BY Parts
<1>4. Fits(s, lane', disk, session, lost) /\ s \in Stores /\ session \in Nat
  BY <1>1, <1>2, TakenKeeps DEF Fits
<1>5. waits \in BOOLEAN
  OBVIOUS
<1> HIDE DEF waits
<1>6. Fits(store', lane', disk', session', lost')
  <2>1. CASE store' = [s EXCEPT !.stalled = waits] /\ UNCHANGED session
    <3>1. /\ store' \in Stores /\ store'.sent = s.sent /\ store'.landed = s.landed
          /\ store'.dirty = s.dirty /\ store'.again = s.again /\ store'.retry = s.retry
      BY <1>4, <1>5, <2>1 DEF Stores
    <3> QED BY <1>2, <1>4, <2>1, <3>1, MarkedFits
  <2>2. CASE session' = session + 1 /\ store' = [s EXCEPT !.stalled = waits, !.dirty = TRUE]
    <3>1. /\ store' \in Stores /\ store'.sent = s.sent /\ store'.landed = s.landed
          /\ store'.dirty /\ store'.retry = s.retry
      BY <1>4, <1>5, <2>2 DEF Stores
    <3>2. session' \in Nat
      BY <1>4, <2>2
    <3> QED BY <1>2, <1>4, <3>1, <3>2, ChangedFits
  <2> QED BY <1>2, <2>1, <2>2
<1>7. inbox' \in Seq({"asked", "taken back"}) /\ settling' \in BOOLEAN /\ held' \in BOOLEAN
  <2>1. inbox \in Seq({"asked", "taken back"})
    BY <1>3 DEF Controls
  <2>2. inbox # <<>> /\ inbox' = Tail(inbox) /\ settling' = (inbox' # <<>>)
    BY <1>2 DEF Settle
  <2>3. inbox' \in Seq({"asked", "taken back"})
    BY <2>1, <2>2, TailLast
  <2>4. held' \in BOOLEAN /\ settling' \in BOOLEAN
    BY <1>2, <2>2
  <2> QED BY <2>3, <2>4
<1>8. armed' \in BOOLEAN /\ vouched' \in BOOLEAN /\ toRearm' \in BOOLEAN /\ settled' \in BOOLEAN
  BY <1>2
<1>9. Counted
  BY <1>2, Counts
<1>10. Controls'
  BY <1>2, <1>3, <1>7, <1>8, <1>9 DEF Controls, Counted
<1>11. JudgedStands' /\ RetiresSaved' /\ QuestionHolds'
  BY <1>2 DEF JudgedStands, RetiresSaved, QuestionHolds
<1>12. ~vouched'
  BY <1>2, Parts DEF VouchesSaved
<1> QED BY <1>6, <1>10, <1>11, <1>12, PartsNext DEF VouchesSaved

LEMMA IInvIsInductive == IInv /\ [Next]_vars => IInv'
<1> SUFFICES ASSUME IInv, [Next]_vars PROVE IInv'
  OBVIOUS
<1>1. CASE Worker \/ WorkerFails
  BY <1>1, WorkerInv
<1>2. CASE Turn \/ HearTheStoragePass
  BY <1>2, HandOverInv, TakeReceiptsInv, UpdateQuitHearsInv, SettleAskedInv, SettleTakenBackInv
     DEF Turn
<1>3. CASE Waits
  <2>1. CASE Retired
    BY <2>1, ClosedInv DEF Retired
  <2> QED BY <1>3, <2>1, WaitHearsInv, WaitFindsNoWorkerInv, RetireInv DEF Waits
<1>4. CASE Bound
  <2>1. CASE RetireRunsOut
    BY <2>1, ClosedInv DEF RetireRunsOut, Fault
  <2> QED BY <1>4, <2>1, WaitRunsOutInv, QuitGivesUpInv, UpdateQuitOverdueInv DEF Bound
<1>5. CASE Person
  BY <1>5, RecordInv, QuitWritesInv, UpdateQuitSendsInv, CloseInv DEF Person
<1>6. CASE SystemAsks \/ SystemTakesBack
  BY <1>6, SaysInv DEF SystemAsks, SystemTakesBack
<1>7. CASE UNCHANGED vars
  <2>1. /\ UNCHANGED <<session, store, lane, disk, run, wait, lost>>
        /\ UNCHANGED <<held, settled, inbox, settling, armed, toRearm, vouched>>
        /\ UNCHANGED <<changes, faults, news, quits>>
    BY <1>7 DEF vars, system, sentinel, bounds
  <2>2. Controls' /\ Fits(store', lane', disk', session', lost')
    BY <2>1, Parts DEF Controls
  <2>3. JudgedStands' /\ RetiresSaved' /\ QuestionHolds' /\ VouchesSaved'
    BY <2>1, Parts DEF JudgedStands, RetiresSaved, QuestionHolds, VouchesSaved
  <2> QED BY <2>2, <2>3, PartsNext
<1> QED BY <1>1, <1>2, <1>3, <1>4, <1>5, <1>6, <1>7 DEF Next

LEMMA IInvHolds == Spec => []IInv
<1> QED BY InitInv, IInvIsInductive, PTL DEF Spec

-----------------------------------------------------------------------------
(* The store, the lane and the system's news keep their types, and no more *)
(* documents have landed than were sent (SessionStore, StorageLane).       *)
THEOREM SessionTypeCorrect == Spec => []TypeOK
<1>1. IInv => TypeOK
  BY DEF IInv
<1> QED BY <1>1, IInvHolds, PTL

(* A store that owes nothing, has nothing on its way and has let go of no  *)
(* document has its document on disk (take_receipts, owes_a_write): every  *)
(* document sent is the session or the session has changed since, and a    *)
(* document no longer waited for is still owed.                            *)
THEOREM NothingOwedStaysOnDisk == Spec => []NothingOwedIsOnDisk
<1>1. IInv => NothingOwedIsOnDisk
  BY DEF IInv, Fits, OnDisk, NothingOwedIsOnDisk
<1> QED BY <1>1, IInvHolds, PTL

(* A run that removed its sentinel, at its close or for the system's end,  *)
(* has the session on disk, or has let go of a document: whatever the      *)
(* system says and takes back, and whatever the disk refuses               *)
(* (SessionStore::close, save_for_the_systems_end, settle).                *)
THEOREM SentinelNeverVouchesForLess == Spec => []SentinelVouchesUnlessLost
<1>1. IInv => SentinelVouchesUnlessLost
  BY DEF IInv, VouchesSaved, AllSession, SentinelVouchesUnlessLost
<1> QED BY <1>1, IInvHolds, PTL
=============================================================================
