--------------------------- MODULE LaneBookProofs ---------------------------
(***************************************************************************)
(* Every operation of the ledger's book (LaneBook) keeps the book whole:   *)
(* BookInv is what LaneLedger's BookWhole and JoinsEndWithTheirTwin ask,   *)
(* with the book's type, and each lemma shows that one operation, called   *)
(* where its guard lets it, leads from such a book to such a book.         *)
(***************************************************************************)
EXTENDS LaneBook, TLAPS, WellFoundedInduction

BookInv(b) ==
    /\ b \in Books
    /\ MintedInOrder(b)
    /\ PlacedByRequester(b)
    /\ TwinIsOwed(b)
    /\ JoinedOutcome(b)
    /\ FaultOwesNothing(b)

(* What a request may be ended with by a publication: a terminal that is   *)
(* not itself a joined one.                                                *)
Publishable == {t \in Terminals : t.with = NoId}

(* Bounds, identities and the none-identity are apart.                     *)
LEMMA IdsAreNatural ==
    /\ MaxMinted \in Nat
    /\ Ids \subseteq Nat \ {0}
    /\ NoId = 0
    /\ NoId \notin Ids
BY BookAssumption DEF Ids, NoId

(* A terminal recorded is told from none, and joining one keeps its kind.  *)
LEMMA JoinedIsATerminal ==
    ASSUME NEW t \in Terminals, NEW with \in Ids
    PROVE  /\ Joined(with, t) \in Terminals
           /\ Joined(with, t).with = with
           /\ Joined(with, t).kind = t.kind
           /\ t # Unended
           /\ Joined(with, t) # Unended
BY DEF Joined, Terminals, Kinds, Unended, NoId

(* WorkerGone and the terminals without words are terminals.               *)
LEMMA PlainTerminals ==
    /\ {Done, Cancelled, WorkerGone} \subseteq Publishable
    /\ \A w \in Words : Failed(w) \in Publishable
    /\ \A by \in Ids : Superseded(by) \in Publishable
BY DEF Done, Cancelled, WorkerGone, Failed, Superseded, Plain, Publishable, Terminals, Kinds

(* The empty book is whole.                                                *)
LEMMA EmptyBookInv == BookInv(EmptyBook)
<1> USE IdsAreNatural
<1>1. EmptyBook \in Books
  BY BookAssumption
  DEF EmptyBook, Books, Places, Streaks, NoStreak, NoFault
<1>2. MintedInOrder(EmptyBook)
  BY DEF EmptyBook, MintedInOrder, Ids
<1>3. PlacedByRequester(EmptyBook)
  BY DEF EmptyBook, PlacedByRequester
<1>4. TwinIsOwed(EmptyBook)
  BY DEF EmptyBook, TwinIsOwed
<1>5. JoinedOutcome(EmptyBook)
  BY DEF EmptyBook, JoinedOutcome, Unended
<1>6. FaultOwesNothing(EmptyBook)
  BY DEF EmptyBook, FaultOwesNothing
<1> QED BY <1>1, <1>2, <1>3, <1>4, <1>5, <1>6 DEF BookInv

(* The streak stays a streak.                                              *)
LEMMA StreakAfterType ==
    ASSUME NEW b \in Books, NEW ids, NEW t \in Terminals
    PROVE  StreakAfter(b, ids, t) \in Streaks
BY DEF StreakAfter, Books, Terminals, Streaks, NoStreak

-----------------------------------------------------------------------------
(* mint: an admission that is not refused keeps the book whole.            *)
LEMMA AdmittedInv ==
    ASSUME NEW b, BookInv(b), NEW with \in Ids \cup {NoId},
           b.minted < MaxMinted, Refusal(b, with) = "none"
    PROVE  BookInv(Admitted(b, with))
<1> DEFINE c == Admitted(b, with)
           id == NextId(b)
<1> USE IdsAreNatural
<1>1. /\ b \in Books /\ MintedInOrder(b) /\ PlacedByRequester(b)
      /\ TwinIsOwed(b) /\ JoinedOutcome(b) /\ FaultOwesNothing(b)
  BY DEF BookInv
<1>2. /\ b.fault = NoFault
      /\ with # NoId => with \in Owed(b)
  BY DEF Refusal
<1>3. id \in Ids /\ id = b.minted + 1 /\ id > b.minted
  BY <1>1 DEF NextId, Books, Ids
<1> DEFINE tw == IF with = NoId \/ b.twin[with] = NoId THEN with ELSE b.twin[with]
<1>4. tw \in Ids \cup {NoId}
  BY <1>1 DEF Books
<1>5. /\ c.minted = b.minted + 1
      /\ c.place = [b.place EXCEPT ![id] = "owed"]
      /\ c.twin = [b.twin EXCEPT ![id] = tw]
      /\ c.gone = b.gone /\ c.terminal = b.terminal
      /\ c.fault = b.fault /\ c.streak = b.streak
      /\ c \in Books
  <2>1. c = [b EXCEPT !.minted = b.minted + 1, !.place[id] = "owed", !.twin[id] = tw]
    BY DEF Admitted
  <2>2. /\ c.minted = b.minted + 1
        /\ c.place = [b.place EXCEPT ![id] = "owed"]
        /\ c.twin = [b.twin EXCEPT ![id] = tw]
        /\ c.gone = b.gone /\ c.terminal = b.terminal
        /\ c.fault = b.fault /\ c.streak = b.streak
    BY <1>1, <2>1 DEF Books
  <2>3. c.minted \in 0..MaxMinted /\ c.place \in [Ids -> Places]
        /\ c.twin \in [Ids -> Ids \cup {NoId}]
    BY <1>1, <1>3, <1>4, <2>2 DEF Books, Places
  <2> HIDE DEF tw, id
  <2> QED BY <1>1, <2>1, <2>2, <2>3 DEF Books
<1>6. /\ b.place[id] = "unminted" /\ b.twin[id] = NoId /\ ~b.gone[id]
      /\ b.terminal[id] = Unended
  BY <1>1, <1>3 DEF MintedInOrder, PlacedByRequester
<1>7. tw # NoId => tw \in Owed(b) /\ b.twin[tw] = NoId /\ tw <= b.minted
  <2>1. tw # NoId => tw \in Owed(b) /\ b.twin[tw] = NoId
    BY <1>1, <1>2 DEF TwinIsOwed
  <2>2. \A i \in Owed(b) : i \in Ids /\ i <= b.minted
    BY <1>1 DEF Owed, MintedInOrder, Books, Ids
  <2> QED BY <2>1, <2>2
<1> HIDE DEF c, id, tw
<1>8. Owed(c) = Owed(b) \cup {id}
  BY <1>1, <1>3, <1>5 DEF Owed, Books
<1>9. MintedInOrder(c)
  <2>1. \A i \in Ids : b.minted \in Nat /\ i \in Nat /\ (i > c.minted => i > b.minted /\ i # id)
    BY <1>1, <1>3, <1>5 DEF Books
  <2>2. \A i \in Ids : c.place[i] = "unminted" <=> i > c.minted
    BY <1>1, <1>3, <1>5, <2>1 DEF MintedInOrder, Books
  <2>3. \A i \in Ids : c.twin[i] < i
    BY <1>1, <1>3, <1>4, <1>5, <1>7, <2>1 DEF MintedInOrder, Books
  <2>4. \A i \in Ids : i > c.minted => c.twin[i] = NoId /\ ~c.gone[i]
    BY <1>1, <1>3, <1>5, <2>1 DEF MintedInOrder, Books
  <2> QED BY <2>2, <2>3, <2>4 DEF MintedInOrder
<1>10. PlacedByRequester(c)
  BY <1>1, <1>3, <1>5, <1>6 DEF PlacedByRequester, Books
<1>11. TwinIsOwed(c)
  BY <1>1, <1>3, <1>5, <1>6, <1>7, <1>8 DEF TwinIsOwed, Books, Owed
<1>12. JoinedOutcome(c)
  BY <1>1, <1>5 DEF JoinedOutcome
<1>13. FaultOwesNothing(c)
  BY <1>2, <1>5 DEF FaultOwesNothing
<1> QED BY <1>5, <1>9, <1>10, <1>11, <1>12, <1>13 DEF BookInv, c

-----------------------------------------------------------------------------
(* The streak and the fault bear on no terminal.                           *)
LEMMA StreakInv ==
    ASSUME NEW b, BookInv(b), NEW streak \in Streaks
    PROVE  BookInv([b EXCEPT !.streak = streak])
<1> DEFINE c == [b EXCEPT !.streak = streak]
<1>1. b \in Books
  BY DEF BookInv
<1>2. /\ c \in Books
      /\ c.minted = b.minted /\ c.place = b.place /\ c.twin = b.twin
      /\ c.gone = b.gone /\ c.terminal = b.terminal /\ c.fault = b.fault
  BY <1>1 DEF Books
<1> HIDE DEF c
<1>3. Owed(c) = Owed(b)
  BY <1>2 DEF Owed
<1> QED
  <2>1. MintedInOrder(c) /\ PlacedByRequester(c)
    BY <1>2 DEF BookInv, MintedInOrder, PlacedByRequester
  <2>2. TwinIsOwed(c) /\ FaultOwesNothing(c)
    BY <1>2, <1>3 DEF BookInv, TwinIsOwed, FaultOwesNothing
  <2>3. JoinedOutcome(c)
    BY <1>2 DEF BookInv, JoinedOutcome
  <2> QED BY <1>2, <2>1, <2>2, <2>3 DEF BookInv, c

LEMMA FaultInv ==
    ASSUME NEW b, BookInv(b), Owed(b) = {}, NEW fault \in Causes \cup {NoFault}
    PROVE  BookInv([b EXCEPT !.fault = fault])
<1> DEFINE c == [b EXCEPT !.fault = fault]
<1>1. b \in Books
  BY DEF BookInv
<1>2. /\ c \in Books
      /\ c.minted = b.minted /\ c.place = b.place /\ c.twin = b.twin
      /\ c.gone = b.gone /\ c.terminal = b.terminal
  BY <1>1 DEF Books
<1> HIDE DEF c
<1>3. Owed(c) = {}
  BY <1>2 DEF Owed
<1> QED
  <2>1. MintedInOrder(c) /\ PlacedByRequester(c)
    BY <1>2 DEF BookInv, MintedInOrder, PlacedByRequester
  <2>2. TwinIsOwed(c) /\ FaultOwesNothing(c)
    BY <1>2, <1>3 DEF BookInv, TwinIsOwed, FaultOwesNothing, Owed
  <2>3. JoinedOutcome(c)
    BY <1>2 DEF BookInv, JoinedOutcome
  <2> QED BY <1>2, <2>1, <2>2, <2>3 DEF BookInv, c

-----------------------------------------------------------------------------
(* end, for a set of owed identities that takes the joined ones with it,   *)
(* each given the terminal of the operation it joined.                     *)
LEMMA EndedInv ==
    ASSUME NEW b, BookInv(b), NEW ends \in SUBSET Owed(b),
           NEW terminals \in [ends -> Terminals],
           \A i \in Owed(b) : b.twin[i] \in ends => i \in ends,
           \A i \in ends : b.twin[i] = NoId => terminals[i].with = NoId,
           \A i \in ends : b.twin[i] # NoId =>
               b.twin[i] \in ends /\ terminals[i] = Joined(b.twin[i], terminals[b.twin[i]])
    PROVE  /\ BookInv(Ended(b, terminals))
           /\ Owed(Ended(b, terminals)) = Owed(b) \ ends
<1> DEFINE c == Ended(b, terminals)
<1> USE IdsAreNatural
<1>1. /\ b \in Books /\ MintedInOrder(b) /\ PlacedByRequester(b)
      /\ TwinIsOwed(b) /\ JoinedOutcome(b) /\ FaultOwesNothing(b)
  BY DEF BookInv
<1>2. /\ c.minted = b.minted /\ c.gone = b.gone
      /\ c.fault = b.fault /\ c.streak = b.streak
      /\ c.place = [i \in Ids |-> IF i \notin ends THEN b.place[i]
                                  ELSE IF b.gone[i] THEN "sunk" ELSE "kept"]
      /\ c.twin = [i \in Ids |-> IF i \in ends THEN NoId ELSE b.twin[i]]
      /\ c.terminal = [i \in Ids |-> IF i \in ends THEN terminals[i] ELSE b.terminal[i]]
      /\ DOMAIN b = DOMAIN c
  BY <1>1 DEF Ended, Books
<1>3. c \in Books
  <2>1. /\ c.place \in [Ids -> Places]
        /\ c.twin \in [Ids -> Ids \cup {NoId}]
        /\ c.terminal \in [Ids -> Terminals \cup {Unended}]
    BY <1>1, <1>2 DEF Books, Places, Owed
  <2> QED BY <1>1, <2>1 DEF Books, Ended
<1> HIDE DEF c
<1>4. ends \subseteq Ids /\ \A i \in ends : b.place[i] = "owed" /\ b.terminal[i] = Unended
  BY <1>1 DEF Owed, PlacedByRequester
<1>5. Owed(c) = Owed(b) \ ends
  BY <1>1, <1>2 DEF Owed, Books
<1>6. \A i \in ends : terminals[i] \in Terminals /\ terminals[i] # Unended
  BY JoinedIsATerminal DEF Terminals, Kinds, Unended
<1>7. MintedInOrder(c)
  BY <1>1, <1>2, <1>4 DEF MintedInOrder, Books
<1>8. PlacedByRequester(c)
  BY <1>1, <1>2, <1>4, <1>6 DEF PlacedByRequester, Books
<1>9. TwinIsOwed(c)
  <2> SUFFICES ASSUME NEW i \in Ids, c.twin[i] # NoId
               PROVE  i \in Owed(c) /\ c.twin[i] \in Owed(c) /\ c.twin[c.twin[i]] = NoId
    BY DEF TwinIsOwed
  <2>1. i \notin ends /\ c.twin[i] = b.twin[i]
    BY <1>2
  <2>2. i \in Owed(b) /\ b.twin[i] \in Owed(b) /\ b.twin[b.twin[i]] = NoId
    BY <1>1, <2>1 DEF TwinIsOwed
  <2>3. b.twin[i] \notin ends
    BY <2>1, <2>2
  <2> QED BY <1>2, <1>5, <2>1, <2>2, <2>3 DEF Owed
<1>10. JoinedOutcome(c)
  <2> SUFFICES ASSUME NEW i \in Ids, c.terminal[i].with # NoId
               PROVE  /\ c.terminal[c.terminal[i].with] # Unended
                      /\ c.terminal[c.terminal[i].with].with = NoId
                      /\ c.terminal[i] = Joined(c.terminal[i].with, c.terminal[c.terminal[i].with])
    BY DEF JoinedOutcome
  <2>1. CASE i \in ends
    <3>1. c.terminal[i] = terminals[i] /\ b.twin[i] # NoId
      BY <1>2, <2>1
    <3>2. b.twin[i] \in ends /\ terminals[i] = Joined(b.twin[i], terminals[b.twin[i]])
      BY <2>1, <3>1
    <3>3. PICK w : w = b.twin[i] /\ w \in ends /\ w \in Ids
      BY <1>4, <3>2
    <3>4. PICK t : t = terminals[w] /\ t \in Terminals /\ t # Unended
      BY <1>6, <3>3
    <3>5. c.terminal[i] = Joined(w, t) /\ c.terminal[i].with = w
      BY <3>1, <3>2, <3>3, <3>4, JoinedIsATerminal
    <3>6. c.terminal[w] = t
      BY <1>2, <3>3, <3>4
    <3>7. b.twin[w] = NoId
      BY <1>1, <1>4, <2>1, <3>1, <3>3 DEF TwinIsOwed
    <3>8. t.with = NoId
      BY <3>3, <3>4, <3>7
    <3> QED BY <3>4, <3>5, <3>6, <3>8
  <2>2. CASE i \notin ends
    <3>1. c.terminal[i] = b.terminal[i]
      BY <1>2, <2>2
    <3>2. /\ b.terminal[b.terminal[i].with] # Unended
          /\ b.terminal[b.terminal[i].with].with = NoId
          /\ b.terminal[i] = Joined(b.terminal[i].with, b.terminal[b.terminal[i].with])
      BY <1>1, <3>1 DEF JoinedOutcome
    <3>3. b.terminal[i].with \in Ids
      <4>1. b.terminal[i] # Unended
        BY <3>1 DEF Unended
      <4>2. b.terminal[i] \in Terminals
        BY <1>1, <4>1 DEF Books
      <4> QED BY <3>1, <4>2 DEF Terminals
    <3>4. b.terminal[i].with \notin ends
      BY <1>4, <3>2
    <3> QED BY <1>2, <3>1, <3>2, <3>3, <3>4
  <2> QED BY <2>1, <2>2
<1>11. FaultOwesNothing(c)
  BY <1>1, <1>2, <1>5 DEF FaultOwesNothing
<1> QED BY <1>3, <1>5, <1>7, <1>8, <1>9, <1>10, <1>11 DEF BookInv, c

-----------------------------------------------------------------------------
(* publish: an accepted publication ends the operation and its joins.      *)
LEMMA PublishedInv ==
    ASSUME NEW b, BookInv(b), NEW id, PublishAccepted(b, id), NEW t \in Publishable
    PROVE  /\ BookInv(Published(b, id, t))
           /\ EndsWith(b, id) \subseteq Owed(b)
<1> DEFINE ends == EndsWith(b, id)
           terminals == [i \in ends |-> IF i = id THEN t ELSE Joined(id, t)]
           c == Ended(b, terminals)
<1> USE IdsAreNatural
<1>1. id \in Owed(b) /\ id \in Ids /\ b.twin[id] = NoId
  BY DEF PublishAccepted, Owed
<1>2. ends \subseteq Owed(b)
  BY <1>1 DEF EndsWith, Twins
<1>3. \A i \in ends : i # id => b.twin[i] = id
  BY DEF EndsWith, Twins
<1>4. \A i \in Owed(b) : b.twin[i] \in ends => i \in ends
  <2> SUFFICES ASSUME NEW i \in Owed(b), b.twin[i] \in ends
               PROVE  i \in ends
    OBVIOUS
  <2>1. b.twin[i] \in Ids /\ b.twin[i] # NoId /\ i \in Ids
    BY <1>2 DEF Owed
  <2>2. b.twin[b.twin[i]] = NoId
    BY <2>1 DEF BookInv, TwinIsOwed
  <2>3. b.twin[i] = id
    BY <1>1, <1>3, <2>2
  <2> QED BY <2>3 DEF EndsWith, Twins
<1>5. t \in Terminals /\ t.with = NoId /\ Joined(id, t) \in Terminals
  BY <1>1, JoinedIsATerminal DEF Publishable
<1>6. terminals \in [ends -> Terminals]
  BY <1>5
<1>7. \A i \in ends : b.twin[i] = NoId => terminals[i].with = NoId
  BY <1>1, <1>3, <1>5
<1>8. \A i \in ends : b.twin[i] # NoId =>
          b.twin[i] \in ends /\ terminals[i] = Joined(b.twin[i], terminals[b.twin[i]])
  BY <1>1, <1>3 DEF EndsWith
<1> HIDE DEF terminals, ends
<1>9. BookInv(c)
  BY <1>2, <1>4, <1>6, <1>7, <1>8, EndedInv
<1>10. Published(b, id, t) = [c EXCEPT !.streak = StreakAfter(b, SunkBy(b, EndsWith(b, id)), t)]
  BY DEF Published, ends, terminals
<1>11. StreakAfter(b, SunkBy(b, EndsWith(b, id)), t) \in Streaks
  BY <1>5, StreakAfterType DEF BookInv
<1> HIDE DEF c
<1> QED BY <1>2, <1>9, <1>10, <1>11, StreakInv DEF ends

(* worker_ended: everything owed has ended, and the lane is in fault.      *)
LEMMA WorkerEndedInv ==
    ASSUME NEW b, BookInv(b), NEW cause \in Causes
    PROVE  /\ BookInv(WorkerEnded(b, cause))
           /\ EndedByWorker(b) = Owed(b)
<1> DEFINE ends == EndedByWorker(b)
           terminals == [i \in ends |-> GoneTerminal(b, i)]
           c == Ended(b, terminals)
<1> USE IdsAreNatural
<1>1. b \in Books /\ TwinIsOwed(b)
  BY DEF BookInv
<1>2. \A i \in Owed(b) : i \in Ids /\
          (b.twin[i] # NoId => b.twin[i] \in Owed(b) /\ b.twin[b.twin[i]] = NoId)
  BY <1>1 DEF TwinIsOwed, Owed
<1>3. ends = Owed(b)
  BY <1>2 DEF EndedByWorker, Operations
<1>4. WorkerGone \in Terminals /\ WorkerGone.with = NoId
  BY PlainTerminals DEF Publishable
<1>5. \A i \in ends : GoneTerminal(b, i) \in Terminals
  BY <1>2, <1>3, <1>4, JoinedIsATerminal DEF GoneTerminal, Owed
<1>6. terminals \in [ends -> Terminals]
  BY <1>5
<1>7. \A i \in ends : b.twin[i] = NoId => terminals[i].with = NoId
  BY <1>4 DEF GoneTerminal
<1>8. \A i \in ends : b.twin[i] # NoId =>
          b.twin[i] \in ends /\ terminals[i] = Joined(b.twin[i], terminals[b.twin[i]])
  BY <1>2, <1>3 DEF GoneTerminal
<1>9. WorkerEnded(b, cause) = [c EXCEPT !.fault = IF b.fault = NoFault THEN cause ELSE b.fault]
  BY DEF WorkerEnded
<1> HIDE DEF terminals, ends
<1>10. BookInv(c) /\ Owed(c) = {}
  <2>1. ends \in SUBSET Owed(b) /\ \A i \in Owed(b) : b.twin[i] \in ends => i \in ends
    BY <1>3
  <2>2. BookInv(c) /\ Owed(c) = Owed(b) \ ends
    BY <1>6, <1>7, <1>8, <2>1, EndedInv
  <2> QED BY <1>3, <2>2
<1>11. (IF b.fault = NoFault THEN cause ELSE b.fault) \in Causes \cup {NoFault}
  BY <1>1 DEF Books
<1> HIDE DEF c
<1> QED BY <1>3, <1>9, <1>10, <1>11, FaultInv DEF ends

-----------------------------------------------------------------------------
(* Request::take of a terminal kept.                                       *)
LEMMA TakenInv ==
    ASSUME NEW b, BookInv(b), NEW id \in Kept(b)
    PROVE  BookInv(Taken(b, id))
<1> DEFINE c == [b EXCEPT !.place[id] = "taken"]
<1>1. b \in Books /\ id \in Ids /\ b.place[id] = "kept"
  BY DEF BookInv, Kept
<1>2. /\ c \in Books
      /\ c.minted = b.minted /\ c.twin = b.twin /\ c.gone = b.gone
      /\ c.terminal = b.terminal /\ c.fault = b.fault
      /\ c.place = [b.place EXCEPT ![id] = "taken"]
  BY <1>1 DEF Books, Places
<1>3. Taken(b, id) = [c EXCEPT !.streak = StreakAfter(b, {id}, b.terminal[id])]
  BY <1>1 DEF Taken, Books
<1>4. b.terminal[id] \in Terminals
  BY <1>1 DEF BookInv, PlacedByRequester, Books
<1> HIDE DEF c
<1>5. Owed(c) = Owed(b)
  BY <1>1, <1>2 DEF Owed, Books
<1>6. BookInv(c)
  <2>1. MintedInOrder(c) /\ PlacedByRequester(c)
    BY <1>1, <1>2 DEF BookInv, MintedInOrder, PlacedByRequester, Books
  <2>2. TwinIsOwed(c) /\ FaultOwesNothing(c)
    BY <1>2, <1>5 DEF BookInv, TwinIsOwed, FaultOwesNothing
  <2>3. JoinedOutcome(c)
    BY <1>2 DEF BookInv, JoinedOutcome
  <2> QED BY <1>2, <2>1, <2>2, <2>3 DEF BookInv
<1> QED BY <1>1, <1>3, <1>4, <1>6, StreakInv, StreakAfterType

(* Drop for Request: before its end the requester is gone, after its end   *)
(* its terminal is the sink's.                                             *)
LEMMA DroppedInv ==
    ASSUME NEW b, BookInv(b), NEW id \in Entries(b)
    PROVE  BookInv(Dropped(b, id))
<1> DEFINE c == [b EXCEPT !.gone[id] = TRUE,
                          !.place[id] = IF id \in Kept(b) THEN "sunk" ELSE b.place[id]]
<1>1. b \in Books /\ id \in Ids /\ b.place[id] \in {"owed", "kept"} /\ ~(id > b.minted)
  BY DEF BookInv, Entries, MintedInOrder
<1>2. /\ c \in Books
      /\ c.minted = b.minted /\ c.twin = b.twin
      /\ c.terminal = b.terminal /\ c.fault = b.fault
      /\ c.gone = [b.gone EXCEPT ![id] = TRUE]
      /\ c.place = [b.place EXCEPT ![id] = IF id \in Kept(b) THEN "sunk" ELSE b.place[id]]
  BY <1>1 DEF Books, Places
<1>3. Dropped(b, id) = IF id \in Kept(b)
                       THEN [c EXCEPT !.streak = StreakAfter(b, {id}, b.terminal[id])]
                       ELSE c
  BY <1>1 DEF Dropped, Books
<1>4. id \in Kept(b) => b.terminal[id] \in Terminals
  BY <1>1 DEF BookInv, PlacedByRequester, Books, Kept
<1> HIDE DEF c
<1>5. Owed(c) = Owed(b)
  BY <1>1, <1>2 DEF Owed, Kept, Books
<1>6. BookInv(c)
  <2>1. MintedInOrder(c) /\ PlacedByRequester(c)
    BY <1>1, <1>2 DEF BookInv, MintedInOrder, PlacedByRequester, Books, Kept
  <2>2. TwinIsOwed(c) /\ FaultOwesNothing(c)
    BY <1>2, <1>5 DEF BookInv, TwinIsOwed, FaultOwesNothing
  <2>3. JoinedOutcome(c)
    BY <1>2 DEF BookInv, JoinedOutcome
  <2> QED BY <1>2, <2>1, <2>2, <2>3 DEF BookInv
<1> QED BY <1>1, <1>3, <1>4, <1>6, StreakInv, StreakAfterType

(* say_not_started.                                                        *)
LEMMA NotStartedInv ==
    ASSUME NEW b, BookInv(b), NEW w \in Words
    PROVE  BookInv(NotStartedStreak(b, w))
<1>1. [of |-> "not_started", word |-> w] \in Streaks
  BY DEF Streaks
<1> QED BY <1>1, StreakInv DEF NotStartedStreak

-----------------------------------------------------------------------------
(* What the lanes over the book read of it.                                *)
LEMMA OwedIsEntered ==
    ASSUME NEW b
    PROVE  Owed(b) \subseteq Entries(b) /\ Kept(b) \subseteq Entries(b) /\ Entries(b) \subseteq Ids
           /\ Entries(b) = Owed(b) \cup Kept(b) /\ Owed(b) \cap Kept(b) = {}
BY DEF Owed, Kept, Entries

LEMMA TakenParts ==
    ASSUME NEW b, BookInv(b), NEW id \in Kept(b), NEW c, c = Taken(b, id)
    PROVE  /\ c.minted = b.minted /\ c.gone = b.gone /\ c.fault = b.fault
           /\ c.twin = b.twin /\ c.terminal = b.terminal
           /\ Owed(c) = Owed(b) /\ Entries(c) = Entries(b) \ {id}
<1>1. b \in Books /\ id \in Ids /\ b.place[id] = "kept"
  BY DEF BookInv, Kept
<1>2. /\ c.minted = b.minted /\ c.gone = b.gone /\ c.fault = b.fault
      /\ c.twin = b.twin /\ c.terminal = b.terminal
      /\ c.place = [b.place EXCEPT ![id] = "taken"]
  BY <1>1 DEF Taken, Books
<1>3. Owed(c) = Owed(b) /\ Entries(c) = Entries(b) \ {id}
  BY <1>1, <1>2 DEF Owed, Entries, Books
<1> QED BY <1>2, <1>3

(* The mark a take reads is the earliest identity owed.                    *)
LEMMA EarliestOwedIs ==
    ASSUME NEW b, BookInv(b)
    PROVE  /\ EarliestOwed(b) \in Ids \cup {NoId}
           /\ \A i \in Owed(b) : EarliestOwed(b) # NoId /\ EarliestOwed(b) <= i
<1>1. CASE Owed(b) = {}
  BY <1>1 DEF EarliestOwed
<1>2. CASE Owed(b) # {}
  <2>1. Owed(b) \subseteq Nat /\ Owed(b) # {} /\ Owed(b) \subseteq Ids
    BY <1>2, IdsAreNatural DEF Owed
  <2>2. PICK least \in Owed(b) : \A i \in Owed(b) : <<i, least>> \notin OpToRel(<, Nat)
    BY <2>1, WFMin, NatLessThanWellFounded, Zenon
  <2>3. \A i \in Owed(b) : ~(i < least)
    BY <2>1, <2>2 DEF OpToRel
  <2>4. least \in First(Owed(b))
    BY <2>1, <2>3 DEF First
  <2>5. EarliestOwed(b) \in First(Owed(b))
    BY <1>2, <2>4 DEF EarliestOwed
  <2> QED BY <2>1, <2>5, IdsAreNatural DEF First
<1> QED BY <1>1, <1>2
=============================================================================
