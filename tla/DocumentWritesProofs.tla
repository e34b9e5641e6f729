-------------------------- MODULE DocumentWritesProofs -------------------------
(***************************************************************************)
(* That DocumentWrites keeps its type and what it leaves beside the file,  *)
(* that its revision follows the file, that what it owes has a trigger,    *)
(* and that the person's edits of the file stand, for every set of units   *)
(* and every bound.                                                        *)
(***************************************************************************)
EXTENDS DocumentWrites, TLAPS

-----------------------------------------------------------------------------
(* What each operator of the store makes of it is typed.                   *)

LEMMA ContentsHaveDocuments ==
    ASSUME NEW c \in Contents
    PROVE  Parse(c) \in Document
BY DEF Contents, Parse, Document, Default

LEMMA SentinelsAreContents == Broken \in Contents /\ NoFile \in Contents /\ Default \in Document
BY DEF Contents, Document, Default

(* More copies beside the file leave its state typed.                      *)
LEMMA StatesGrow ==
    ASSUME NEW P, NEW Q, P \subseteq Q
    PROVE  DocumentState(P) \subseteq DocumentState(Q)
<1>1. Kept(P) \subseteq Kept(Q)   BY DEF Kept
<1>2. Merges(P) \subseteq Merges(Q)   BY DEF Merges
<1>3. Seq(Merges(P)) \subseteq Seq(Merges(Q))   BY <1>2
<1>4. Writes(P) \subseteq Writes(Q)   BY <1>1 DEF Writes
<1> QED  BY <1>1, <1>3, <1>4 DEF DocumentState

LEMMA NothingAsked ==
    ASSUME NEW P
    PROVE  NoWrite \in Writes(P) /\ NoRead \in Reads
BY SentinelsAreContents DEF NoWrite, NoRead, Writes, Reads, None

LEMMA SendOwedTyped ==
    ASSUME NEW P, NEW s \in DocumentState(P)
    PROVE  SendOwed(s) \in DocumentState(P)
<1>1. Request(s) \in Writes(P)
  BY NothingAsked DEF Request, DocumentState, Writes
<1> QED  BY <1>1 DEF SendOwed, DocumentState

LEMMA AskReadTyped ==
    ASSUME NEW P, NEW s \in DocumentState(P)
    PROVE  AskRead(s) \in DocumentState(P)
BY NothingAsked DEF AskRead, DocumentState, Reads

LEMMA KeepTyped ==
    ASSUME NEW P, NEW s \in DocumentState(P), NEW merge \in Merges(P)
    PROVE  Keep(s, merge) \in DocumentState(P)
<1> DEFINE n == Len(s.merges)
           all == IF /\ merge.kept = None /\ n > 0
                     /\ s.merges[n].kept = None /\ s.merges[n].base = merge.base
                  THEN [s.merges EXCEPT ![n] = merge] ELSE Append(s.merges, merge)
<1>1. s.merges \in Seq(Merges(P))   BY DEF DocumentState
<1>2. all \in Seq(Merges(P))   BY <1>1
<1>3. Keep(s, merge) = [s EXCEPT !.held = TRUE, !.merges = all]   BY DEF Keep
<1> HIDE DEF all
<1> QED  BY <1>2, <1>3 DEF DocumentState

LEMMA MovedTyped ==
    ASSUME NEW P, NEW s \in DocumentState(P), NEW c \in Contents
    PROVE  Moved(s, c) \in Merges(P)
BY SentinelsAreContents DEF Moved, Merges, DocumentState

LEMMA OnDocumentTyped ==
    ASSUME NEW P, NEW s \in DocumentState(P), s.write.outcome # "none"
    PROVE  OnDocument(s) \in DocumentState(P)
<1> DEFINE w == s.write
           after == [s EXCEPT !.write = NoWrite, !.kept = {k \in @ : k.path \notin w.retired}]
           onDisk(t) == [t EXCEPT !.revision = w.document, !.placed = w.carries, !.landed = TRUE]
           obliged(t) == IF w.left = None THEN t
                         ELSE [t EXCEPT
                                  !.kept = @ \cup {[path |-> w.left, version |-> w.version + 1]},
                                  !.carries = @ \cup {w.left}]
           displaced == [base |-> w.base, theirs |-> w.theirs, kept |-> w.left,
                         written |-> w.document]
<1>1. w \in Writes(P)   BY DEF DocumentState
<1>2. after \in DocumentState(P)   BY NothingAsked DEF DocumentState
<1>3. ASSUME NEW t \in DocumentState(P) PROVE onDisk(t) \in DocumentState(P)
  BY <1>1, <1>3 DEF DocumentState, Writes, Contents
<1>4. ASSUME NEW t \in DocumentState(P) PROVE obliged(t) \in DocumentState(P)
  <2>1. CASE w.left = None   BY <2>1, <1>4
  <2>2. CASE w.left # None
    <3>1. w.left \in P   BY <1>1, <2>2 DEF Writes
    <3>2. [path |-> w.left, version |-> w.version + 1] \in Kept(P)   BY <1>1, <3>1 DEF Writes, Kept
    <3> QED  BY <1>4, <2>2, <3>1, <3>2 DEF DocumentState
  <2> QED  BY <2>1, <2>2
<1>5. displaced \in Merges(P)   BY <1>1 DEF Writes, Merges
<1>6. Keep(after, displaced) \in DocumentState(P)   BY <1>2, <1>5, KeepTyped
<1>7. Keep(after, Moved(s, w.theirs)) \in DocumentState(P)
  <2>1. Moved(s, w.theirs) \in Merges(P)   BY <1>1, MovedTyped DEF Writes
  <2> QED  BY <1>2, <2>1, KeepTyped
<1>8. Refused(after) \in DocumentState(P)
  <2> HIDE DEF after
  <2> QED  BY <1>2 DEF Refused, DocumentState
<1>9. OnDocument(s) = CASE w.outcome = "landed"    -> obliged(onDisk(after))
                        [] w.outcome = "displaced" -> onDisk(Keep(after, displaced))
                        [] w.outcome = "moved"     -> Keep(after, Moved(s, w.theirs))
                        [] w.outcome = "raced"     -> after
                        [] w.outcome = "refused"   -> Refused(after)
  BY DEF OnDocument
<1>10. obliged(onDisk(after)) \in DocumentState(P)   BY <1>2, <1>3, <1>4
<1>11. onDisk(Keep(after, displaced)) \in DocumentState(P)   BY <1>3, <1>6
<1>12. w.outcome \in {"landed", "displaced", "moved", "raced", "refused"}   BY <1>1 DEF Writes
<1> HIDE DEF after, onDisk, obliged, displaced
<1> QED  BY <1>2, <1>7, <1>8, <1>9, <1>10, <1>11, <1>12

LEMMA OnFoundTyped ==
    ASSUME NEW P, NEW s \in DocumentState(P), NEW c \in Contents
    PROVE  OnFound(s, c) \in DocumentState(P)
<1>1. Keep(s, Moved(s, c)) \in DocumentState(P)   BY KeepTyped, MovedTyped
<1>2. [Keep(s, Moved(s, c)) EXCEPT !.revision = c] \in DocumentState(P)   BY <1>1 DEF DocumentState
<1> QED  BY <1>1, <1>2 DEF OnFound

LEMMA OnReadTyped ==
    ASSUME NEW P, NEW s \in DocumentState(P)
    PROVE  OnRead(s) \in DocumentState(P)
<1> DEFINE heard == s.heard \/ s.read.outcome # "failed"
           after == [s EXCEPT !.read = NoRead, !.heard = heard]
           told  == s.unread \/ s.read.outcome \in {"unobtained", "failed"}
<1>1. heard \in BOOLEAN /\ told \in BOOLEAN   OBVIOUS
<1> HIDE DEF heard, told
<1>2. after \in DocumentState(P) /\ after.unread = s.unread
  BY <1>1, NothingAsked DEF DocumentState
<1>3. s.read.found \in Contents   BY DEF DocumentState, Reads
<1> HIDE DEF after
<1>4. [after EXCEPT !.unread = FALSE] \in DocumentState(P)   BY <1>2 DEF DocumentState
<1>5. [after EXCEPT !.unread = told] \in DocumentState(P)   BY <1>1, <1>2 DEF DocumentState
<1>6. OnRead(s) = IF s.read.outcome = "found"
                  THEN OnFound([after EXCEPT !.unread = FALSE], s.read.found)
                  ELSE [after EXCEPT !.unread = told]
  BY DEF OnRead, after, heard, told
<1> QED  BY <1>3, <1>4, <1>5, <1>6, OnFoundTyped

LEMMA AfterAnswersTyped ==
    ASSUME NEW P, NEW s \in DocumentState(P)
    PROVE  AfterAnswers(s) \in DocumentState(P)
<1> DEFINE again == IF s.readAgain /\ ~Reading(s) THEN AskRead(s) ELSE s
           sends == /\ ~Writing(s)
                    /\ s.sendAgain \/ (s.landed /\ Owed(s)) \/ (s.heard /\ s.retryOnEar /\ Owed(s))
           sent  == IF sends THEN SendOwed(again) ELSE again
<1>1. again \in DocumentState(P)   BY AskReadTyped
<1>2. sent \in DocumentState(P)   BY <1>1, SendOwedTyped
<1>3. AfterAnswers(s) = [sent EXCEPT !.landed = FALSE, !.heard = FALSE]   BY DEF AfterAnswers
<1> HIDE DEF sent
<1> QED  BY <1>2, <1>3 DEF DocumentState

LEMMA MergesOfUnits ==
    ASSUME NEW a \in Document, NEW b \in Document, NEW c \in Document
    PROVE  Merge(a, b, c) \in Document /\ ApplyPress(a, b, c) \in Document
BY DEF Document, Merge, ApplyPress

LEMMA FoldTyped ==
    ASSUME NEW P, NEW s \in DocumentState(P), NEW merge \in Merges(P)
    PROVE  Fold(s, merge) \in DocumentState(P)
<1> DEFINE ours   == IF merge.kept = None THEN s.desired ELSE merge.written
           merged == ApplyPress(Merge(Parse(merge.base), ours, Parse(merge.theirs)), ours, s.desired)
           into   == [s EXCEPT !.desired = merged, !.version = @ + 1, !.folded = TRUE]
<1>1. ours \in Document /\ s.desired \in Document   BY DEF DocumentState, Merges
<1>2. Parse(merge.base) \in Document /\ Parse(merge.theirs) \in Document
  BY ContentsHaveDocuments DEF Merges
<1>3. merged \in Document   BY <1>1, <1>2, MergesOfUnits
<1>4. into \in DocumentState(P)
  <2>1. s.version + 1 \in Nat   BY DEF DocumentState
  <2> HIDE DEF merged
  <2> QED  BY <1>3, <2>1 DEF DocumentState
<1> HIDE DEF merged
<1>5. CASE merge.kept = None
  <2>1. [into EXCEPT !.revision = merge.theirs] \in DocumentState(P)
    BY <1>4 DEF DocumentState, Merges
  <2> QED  BY <1>5, <2>1 DEF Fold, merged
<1>6. CASE merge.kept # None
  <2>1. merge.kept \in P   BY <1>6 DEF Merges
  <2>2. [path |-> merge.kept, version |-> into.version] \in Kept(P)
    BY <1>4, <2>1 DEF DocumentState, Kept
  <2> HIDE DEF into
  <2>3. [into EXCEPT !.kept = @ \cup {[path |-> merge.kept, version |-> into.version]},
                     !.carries = @ \cup {merge.kept}] \in DocumentState(P)
    BY <1>4, <2>1, <2>2 DEF DocumentState
  <2> QED  BY <1>6, <2>3 DEF Fold, merged, into
<1> QED  BY <1>5, <1>6

LEMMA MergeHeadTyped ==
    ASSUME NEW P, NEW s \in DocumentState(P), s.merges # <<>>
    PROVE  MergeHead(s) \in DocumentState(P)
<1> DEFINE merge == Head(s.merges)
           rest  == [s EXCEPT !.merges = Tail(@)]
<1>1. s.merges \in Seq(Merges(P)) /\ s.unmerged \in Seq(Merges(P))   BY DEF DocumentState
<1>2. merge \in Merges(P) /\ Tail(s.merges) \in Seq(Merges(P))   BY <1>1
<1>3. rest \in DocumentState(P)   BY <1>2 DEF DocumentState
<1>4. Append(s.unmerged, merge) \in Seq(Merges(P))   BY <1>1, <1>2
<1>5. [rest EXCEPT !.unmerged = Append(@, merge)] \in DocumentState(P)
  <2>1. [rest EXCEPT !.unmerged = Append(@, merge)]
            = [s EXCEPT !.merges = Tail(@), !.unmerged = Append(@, merge)]   BY DEF DocumentState
  <2> QED  BY <1>2, <1>4, <2>1 DEF DocumentState
<1>6. Fold(rest, merge) \in DocumentState(P)   BY <1>2, <1>3, FoldTyped
<1> HIDE DEF merge, rest
<1> QED  BY <1>3, <1>5, <1>6 DEF MergeHead, merge, rest

LEMMA MergedTyped ==
    ASSUME NEW P, NEW s \in DocumentState(P)
    PROVE  Merged(s) \in DocumentState(P)
<1>1. <<>> \in Seq(Merges(P)) /\ (s.unmerged # <<>>) \in BOOLEAN   OBVIOUS
<1>2. ASSUME NEW h \in BOOLEAN
      PROVE  [s EXCEPT !.merges = s.unmerged, !.unmerged = <<>>, !.held = h, !.folded = FALSE]
                 \in DocumentState(P)
  BY <1>1, <1>2 DEF DocumentState
<1> QED  BY <1>1, <1>2 DEF Merged

LEMMA SendUnsentTyped ==
    ASSUME NEW P, NEW s \in DocumentState(P)
    PROVE  SendUnsent(s) \in DocumentState(P)
BY SendOwedTyped DEF SendUnsent

LEMMA DropOwedTyped ==
    ASSUME NEW P, NEW s \in DocumentState(P)
    PROVE  DropOwed(s) \in DocumentState(P)
<1>1. Parse(s.revision) \in Document /\ s.version + 1 \in Nat
  BY ContentsHaveDocuments DEF DocumentState
<1>2. <<>> \in Seq(Merges(P))   OBVIOUS
<1>3. s.placed \in SUBSET P   BY DEF DocumentState
<1>4. [s EXCEPT !.desired = Parse(s.revision), !.version = @ + 1, !.merges = <<>>,
                !.held = FALSE, !.sendAgain = FALSE, !.carries = s.placed] \in DocumentState(P)
  BY <1>1, <1>2, <1>3 DEF DocumentState
<1> QED  BY <1>4 DEF DropOwed

LEMMA AnsweredTyped ==
    ASSUME NEW P, store \in DocumentState(P), NEW theirs \in Contents,
           NEW outcome \in {"landed", "displaced", "moved", "raced", "refused"},
           NEW left \in {None} \cup P, NEW retired \in SUBSET P
    PROVE  Answered(outcome, theirs, left, retired) \in DocumentState(P)
<1> DEFINE w == [store.write EXCEPT !.step = "answered", !.outcome = outcome, !.theirs = theirs,
                                    !.left = left, !.retired = retired]
<1>1. w \in Writes(P)   BY DEF DocumentState, Writes
<1>2. Answered(outcome, theirs, left, retired) = [store EXCEPT !.write = w]
  BY DEF Answered, DocumentState, Writes
<1> HIDE DEF w
<1> QED  BY <1>1, <1>2 DEF DocumentState

-----------------------------------------------------------------------------
(* What the store still owes to what it left beside the file: the units of *)
(* every copy it keeps are in what it wants on disk, and the units of      *)
(* every copy a write may retire are in what that write holds.  A write    *)
(* answered has an outcome.                                                *)

Custody(s) ==
    /\ \A k \in s.kept : k.path \in s.carries
    /\ \A k \in s.write.kept : k.path \in s.write.carries

Given(s) == s.write.step = "answered" => s.write.outcome # "none"

Alike(s, t) == t.write = s.write /\ t.kept = s.kept /\ t.carries = s.carries

LEMMA AlikeKeeps ==
    ASSUME NEW s, NEW t, Alike(s, t)
    PROVE  (Given(s) => Given(t)) /\ (Custody(s) => Custody(t))
BY DEF Alike, Given, Custody

LEMMA SendOwedKeeps ==
    ASSUME NEW P, NEW s \in DocumentState(P), Given(s)
    PROVE  Given(SendOwed(s)) /\ (Custody(s) => Custody(SendOwed(s)))
<1>1. CASE s.held \/ Writing(s) \/ ~Owed(s)
  <2>1. Alike(s, SendOwed(s))   BY <1>1 DEF SendOwed, Alike, DocumentState
  <2> QED  BY <2>1, AlikeKeeps
<1>2. CASE ~s.held /\ ~Writing(s) /\ Owed(s)
  <2>1. /\ SendOwed(s).write = Request(s)
        /\ SendOwed(s).kept = s.kept /\ SendOwed(s).carries = s.carries
    BY <1>2 DEF SendOwed, DocumentState
  <2>2. /\ Request(s).step = "queued"
        /\ Request(s).kept = s.kept /\ Request(s).carries = s.carries
    BY DEF Request, NoWrite
  <2> QED  BY <2>1, <2>2 DEF Given, Custody
<1> QED  BY <1>1, <1>2

LEMMA AskReadKeeps ==
    ASSUME NEW P, NEW s \in DocumentState(P)
    PROVE  Alike(s, AskRead(s))
BY DEF AskRead, Alike, DocumentState

LEMMA KeepKeeps ==
    ASSUME NEW P, NEW s \in DocumentState(P), NEW merge
    PROVE  Alike(s, Keep(s, merge))
BY DEF Keep, Alike, DocumentState

LEMMA OnDocumentKeeps ==
    ASSUME NEW P, NEW s \in DocumentState(P), s.write.outcome # "none"
    PROVE  Given(OnDocument(s)) /\ (Custody(s) => Custody(OnDocument(s)))
<1> DEFINE w == s.write
           after == [s EXCEPT !.write = NoWrite, !.kept = {k \in @ : k.path \notin w.retired}]
           onDisk(t) == [t EXCEPT !.revision = w.document, !.placed = w.carries, !.landed = TRUE]
           obliged(t) == IF w.left = None THEN t
                         ELSE [t EXCEPT
                                  !.kept = @ \cup {[path |-> w.left, version |-> w.version + 1]},
                                  !.carries = @ \cup {w.left}]
           displaced == [base |-> w.base, theirs |-> w.theirs, kept |-> w.left,
                         written |-> w.document]
           Safe(t) == Given(t) /\ (Custody(s) => Custody(t))
<1>1. w \in Writes(P)   BY DEF DocumentState
<1>2. after \in DocumentState(P)   BY NothingAsked DEF DocumentState
<1>3. Safe(after)   BY DEF Given, Custody, NoWrite, DocumentState
<1>4. ASSUME NEW t \in DocumentState(P) PROVE Alike(t, onDisk(t)) /\ onDisk(t) \in DocumentState(P)
  BY <1>1, <1>4 DEF DocumentState, Writes, Contents, Alike
<1>5. ASSUME NEW t \in DocumentState(P), Safe(t) PROVE Safe(obliged(t))
  BY <1>5 DEF Given, Custody, DocumentState
<1>6. Safe(onDisk(after)) /\ onDisk(after) \in DocumentState(P)   BY <1>2, <1>3, <1>4, AlikeKeeps
<1>7. ASSUME NEW m \in Merges(P)
      PROVE  Safe(Keep(after, m)) /\ Keep(after, m) \in DocumentState(P)
  BY <1>2, <1>3, KeepTyped, KeepKeeps, AlikeKeeps
<1>8. displaced \in Merges(P)   BY <1>1 DEF Writes, Merges
<1>9. Moved(s, w.theirs) \in Merges(P)   BY <1>1, MovedTyped DEF Writes
<1>10. Safe(onDisk(Keep(after, displaced)))
  <2>1. Safe(Keep(after, displaced)) /\ Keep(after, displaced) \in DocumentState(P)
    BY <1>7, <1>8
  <2>2. Alike(Keep(after, displaced), onDisk(Keep(after, displaced)))   BY <1>4, <2>1
  <2> HIDE DEF after, onDisk, displaced
  <2> QED  BY <2>1, <2>2, AlikeKeeps
<1>11. Safe(obliged(onDisk(after)))   BY <1>5, <1>6
<1>12. Safe(Keep(after, Moved(s, w.theirs)))   BY <1>7, <1>9
<1>13. Safe(Refused(after))
  <2>1. Alike(after, Refused(after))
    <3> HIDE DEF after
    <3> QED  BY <1>2 DEF Refused, Alike, DocumentState
  <2> QED  BY <1>3, <2>1, AlikeKeeps
<1>14. OnDocument(s) = CASE w.outcome = "landed"    -> obliged(onDisk(after))
                        [] w.outcome = "displaced" -> onDisk(Keep(after, displaced))
                        [] w.outcome = "moved"     -> Keep(after, Moved(s, w.theirs))
                        [] w.outcome = "raced"     -> after
                        [] w.outcome = "refused"   -> Refused(after)
  BY DEF OnDocument
<1>15. w.outcome \in {"landed", "displaced", "moved", "raced", "refused"}   BY <1>1 DEF Writes
<1> HIDE DEF after, onDisk, obliged, displaced
<1> QED  BY <1>3, <1>10, <1>11, <1>12, <1>13, <1>14, <1>15

LEMMA OnReadKeeps ==
    ASSUME NEW P, NEW s \in DocumentState(P)
    PROVE  Alike(s, OnRead(s))
<1>1. ASSUME NEW t \in DocumentState(P), NEW c \in Contents
      PROVE  Alike(t, OnFound(t, c))
  <2>1. Alike(t, Keep(t, Moved(t, c))) /\ Keep(t, Moved(t, c)) \in DocumentState(P)
    BY KeepKeeps, KeepTyped, MovedTyped
  <2>2. Alike(t, [Keep(t, Moved(t, c)) EXCEPT !.revision = c])   BY <2>1 DEF Alike, DocumentState
  <2> QED  BY <2>1, <2>2 DEF OnFound, Alike
<1> DEFINE after == [s EXCEPT !.read = NoRead, !.heard = @ \/ s.read.outcome # "failed"]
           now   == [after EXCEPT !.unread = FALSE]
           ever  == [after EXCEPT !.unread = @ \/ s.read.outcome \in {"unobtained", "failed"}]
<1>2. s.read.found \in Contents   BY DEF DocumentState, Reads
<1>3. now \in DocumentState(P) /\ Alike(s, now) /\ Alike(s, ever)
  BY NothingAsked DEF DocumentState, Alike
<1>4. OnRead(s) = IF s.read.outcome = "found" THEN OnFound(now, s.read.found) ELSE ever
  BY DEF OnRead
<1> HIDE DEF now, ever
<1> QED  BY <1>1, <1>2, <1>3, <1>4 DEF Alike

LEMMA AfterAnswersKeeps ==
    ASSUME NEW P, NEW s \in DocumentState(P), Given(s)
    PROVE  Given(AfterAnswers(s)) /\ (Custody(s) => Custody(AfterAnswers(s)))
<1> DEFINE again == IF s.readAgain /\ ~Reading(s) THEN AskRead(s) ELSE s
           sends == /\ ~Writing(s)
                    /\ s.sendAgain \/ (s.landed /\ Owed(s)) \/ (s.heard /\ s.retryOnEar /\ Owed(s))
           sent  == IF sends THEN SendOwed(again) ELSE again
<1>1. again \in DocumentState(P) /\ Alike(s, again)   BY AskReadTyped, AskReadKeeps DEF Alike
<1>2. Given(again) /\ (Custody(s) => Custody(again))   BY <1>1, AlikeKeeps
<1>3. sent \in DocumentState(P) /\ Given(sent) /\ (Custody(s) => Custody(sent))
  <2> HIDE DEF again, sends
  <2> QED  BY <1>1, <1>2, SendOwedTyped, SendOwedKeeps
<1>4. AfterAnswers(s) = [sent EXCEPT !.landed = FALSE, !.heard = FALSE]   BY DEF AfterAnswers
<1> HIDE DEF sent
<1>5. Alike(sent, AfterAnswers(s))   BY <1>3, <1>4 DEF Alike, DocumentState
<1> QED  BY <1>3, <1>5, AlikeKeeps

LEMMA FoldKeeps ==
    ASSUME NEW P, NEW s \in DocumentState(P), NEW merge \in Merges(P)
    PROVE  Fold(s, merge).write = s.write /\ (Custody(s) => Custody(Fold(s, merge)))
<1> DEFINE ours   == IF merge.kept = None THEN s.desired ELSE merge.written
           merged == ApplyPress(Merge(Parse(merge.base), ours, Parse(merge.theirs)), ours, s.desired)
           into   == [s EXCEPT !.desired = merged, !.version = @ + 1, !.folded = TRUE]
<1> HIDE DEF merged
<1>1. Alike(s, into)   BY DEF Alike, DocumentState
<1>2. CASE merge.kept = None
  <2>1. Fold(s, merge) = [into EXCEPT !.revision = merge.theirs]   BY <1>2 DEF Fold, merged
  <2>2. Alike(s, Fold(s, merge))   BY <2>1 DEF Alike, DocumentState
  <2> QED  BY <2>2, AlikeKeeps DEF Alike
<1>3. CASE merge.kept # None
  <2> DEFINE copy == [path |-> merge.kept, version |-> into.version]
  <2>1. Fold(s, merge) = [into EXCEPT !.kept = @ \cup {copy}, !.carries = @ \cup {merge.kept}]
    BY <1>3 DEF Fold, merged
  <2>2. copy.path = merge.kept   OBVIOUS
  <2> HIDE DEF copy
  <2>3. /\ Fold(s, merge).write = s.write
        /\ Fold(s, merge).kept = s.kept \cup {copy}
        /\ Fold(s, merge).carries = s.carries \cup {merge.kept}
    BY <2>1 DEF DocumentState
  <2> QED  BY <2>2, <2>3 DEF Custody
<1> QED  BY <1>2, <1>3

LEMMA MergeHeadKeeps ==
    ASSUME NEW P, NEW s \in DocumentState(P), s.merges # <<>>, Given(s)
    PROVE  Given(MergeHead(s)) /\ (Custody(s) => Custody(MergeHead(s)))
<1> DEFINE merge == Head(s.merges)
           rest  == [s EXCEPT !.merges = Tail(@)]
           stored == [rest EXCEPT !.unmerged = Append(@, merge)]
<1>1. s.merges \in Seq(Merges(P))   BY DEF DocumentState
<1>2. merge \in Merges(P) /\ Tail(s.merges) \in Seq(Merges(P))   BY <1>1
<1>3. rest \in DocumentState(P)   BY <1>2 DEF DocumentState
<1>4. Alike(s, rest) /\ Alike(s, stored)   BY DEF Alike, DocumentState
<1>5. Fold(rest, merge).write = rest.write /\ (Custody(rest) => Custody(Fold(rest, merge)))
  BY <1>2, <1>3, FoldKeeps
<1>6. MergeHead(s) \in {Fold(rest, merge), stored, rest}   BY DEF MergeHead
<1> HIDE DEF merge, rest, stored
<1> QED  BY <1>4, <1>5, <1>6, AlikeKeeps DEF Alike, Given

LEMMA MergedKeeps ==
    ASSUME NEW P, NEW s \in DocumentState(P)
    PROVE  Alike(s, Merged(s))
BY DEF Merged, Alike, DocumentState

LEMMA SendUnsentKeeps ==
    ASSUME NEW P, NEW s \in DocumentState(P), Given(s)
    PROVE  Given(SendUnsent(s)) /\ (Custody(s) => Custody(SendUnsent(s)))
BY SendOwedKeeps DEF SendUnsent

LEMMA DropOwedKeeps ==
    ASSUME NEW P, NEW s \in DocumentState(P)
    PROVE  DropOwed(s).write = s.write /\ (~Owed(s) => DropOwed(s) = s)
BY DEF DropOwed, DocumentState

LEMMA AnsweredKeeps ==
    ASSUME NEW P, store \in DocumentState(P),
           NEW outcome, outcome # "none", NEW theirs, NEW left, NEW retired
    PROVE  /\ Given(Answered(outcome, theirs, left, retired))
           /\ Custody(store) => Custody(Answered(outcome, theirs, left, retired))
<1>1. /\ Answered(outcome, theirs, left, retired).write.outcome = outcome
      /\ Answered(outcome, theirs, left, retired).write.kept = store.write.kept
      /\ Answered(outcome, theirs, left, retired).write.carries = store.write.carries
      /\ Answered(outcome, theirs, left, retired).kept = store.kept
      /\ Answered(outcome, theirs, left, retired).carries = store.carries
  BY DEF Answered, DocumentState, Writes
<1> QED  BY <1>1 DEF Given, Custody

-----------------------------------------------------------------------------
(* The inductive invariant.                                                *)

Safekeeping == KeptUntilLanded /\ Custody(store)

IInv == TypeOK /\ Given(store) /\ (dropped \/ Safekeeping)

(* The rest of the type: what is not the store, nor beside the file.       *)
Around ==
    /\ turn \in {"idle", "hearing", "merging"}
    /\ quit \in {"none", "documents", "recovery", "cancelled", "leaving", "left"}
    /\ file \in Contents /\ stamped \in BOOLEAN
    /\ {saves, presses, faults, quits} \subseteq Nat
    /\ claim \in [Units -> Nat] /\ dropped \in BOOLEAN /\ behind \in BOOLEAN

(* A step of the store alone, as far as the copies are concerned.          *)
LEMMA StoreStep ==
    ASSUME IInv, Around', UNCHANGED <<made, copies, safe>>, dropped => dropped',
           store' \in DocumentState(Paths), Given(store'),
           Custody(store) => dropped' \/ Custody(store')
    PROVE  IInv'
BY DEF IInv, TypeOK, Around, Safekeeping, KeptUntilLanded, Given, Custody, Paths

LEMMA SavesAreContents ==
    ASSUME TypeOK, NEW c \in Saves
    PROVE  c \in Contents /\ Claims(c) \in [Units -> Nat]
<1>1. Known \subseteq Contents
  <2>1. /\ file \in Contents /\ store.revision \in Contents
        /\ store.write.base \in Contents /\ store.write.theirs \in Contents
        /\ store.read.found \in Contents
    BY DEF TypeOK, DocumentState, Writes, Reads
  <2>2. store.merges \in Seq(Merges(Paths))   BY DEF TypeOK, DocumentState
  <2>3. ASSUME NEW i \in 1..Len(store.merges) PROVE store.merges[i].theirs \in Contents
    <3>1. store.merges[i] \in Merges(Paths)   BY <2>2
    <3> QED  BY <3>1 DEF Merges
  <2> QED  BY <2>1, <2>3 DEF Known
<1>2. Fresh \in Nat   BY DEF TypeOK, Fresh
<1>3. Parse(file) \in Document   BY ContentsHaveDocuments DEF TypeOK
<1>4. Changes \subseteq Contents   BY <1>2, <1>3 DEF Changes, Contents, Document
<1>5. c \in Contents   BY <1>1, <1>4 DEF Saves
<1>6. ASSUME NEW u \in Units PROVE Claims(c)[u] \in Nat
  BY <1>2 DEF Claims, TypeOK
<1>7. Claims(c) \in [Units -> Nat]   BY <1>6 DEF Claims
<1> QED  BY <1>5, <1>7

LEMMA EditorKeeps == IInv /\ Editor => IInv'
<1> SUFFICES ASSUME IInv, NEW c \in Saves, Save(c) \/ FindRaced(c) \/ RaceRead(c)
             PROVE  IInv'
  BY DEF Editor
<1>1. TypeOK /\ store \in DocumentState(Paths)   BY DEF IInv, TypeOK
<1>2. ASSUME Saved(c), UNCHANGED <<turn, quit, presses, faults, quits, dropped, behind>> PROVE Around'
  BY <1>1, <1>2, SavesAreContents DEF Saved, TypeOK, Around
<1>3. CASE Save(c)
  BY <1>1, <1>2, <1>3, StoreStep DEF Save, IInv
<1>4. CASE FindRaced(c)
  <2>1. None \in {None} \cup Paths /\ {} \in SUBSET Paths   OBVIOUS
  <2> QED  BY <1>1, <1>2, <1>4, <2>1, StoreStep, AnsweredTyped, AnsweredKeeps, SentinelsAreContents
           DEF FindRaced
<1>5. CASE RaceRead(c)
  <2>1. store' \in DocumentState(Paths) /\ Alike(store, store')
    BY <1>1, <1>5, SentinelsAreContents DEF RaceRead, DocumentState, Reads, Alike
  <2> QED  BY <1>1, <1>2, <1>5, <2>1, StoreStep, AlikeKeeps DEF RaceRead, IInv
<1> QED  BY <1>3, <1>4, <1>5

LEMMA WorkerStoreKeeps ==
    IInv /\ (Check \/ FindMoved \/ Refuse \/ FindFile \/ FailRead) => IInv'
<1> SUFFICES ASSUME IInv, Check \/ FindMoved \/ Refuse \/ FindFile \/ FailRead
             PROVE  IInv'
  OBVIOUS
<1>1. TypeOK /\ store \in DocumentState(Paths) /\ file \in Contents   BY DEF IInv, TypeOK
<1>2. None \in {None} \cup Paths /\ {} \in SUBSET Paths   OBVIOUS
<1>3. Around'
  BY <1>1 DEF Check, FindMoved, Refuse, Fault, FindFile, FailRead, TypeOK, Around, disk, bounds,
              history
<1>4. CASE Check
  <2>1. store' \in DocumentState(Paths)   BY <1>1, <1>4 DEF Check, DocumentState, Writes
  <2>2. /\ store'.write.step = "checked"
        /\ store'.write.kept = store.write.kept /\ store'.write.carries = store.write.carries
        /\ store'.kept = store.kept /\ store'.carries = store.carries
    BY <1>1, <1>4 DEF Check, DocumentState, Writes
  <2>3. Given(store') /\ (Custody(store) => Custody(store'))   BY <2>2 DEF Given, Custody
  <2> QED  BY <1>3, <1>4, <2>1, <2>3, StoreStep DEF Check, disk, history
<1>5. CASE FindMoved
  BY <1>1, <1>2, <1>3, <1>5, StoreStep, AnsweredTyped, AnsweredKeeps DEF FindMoved, disk, history
<1>6. CASE Refuse
  BY <1>1, <1>2, <1>3, <1>6, StoreStep, AnsweredTyped, AnsweredKeeps, SentinelsAreContents
     DEF Refuse, disk, history
<1>7. CASE FindFile \/ FailRead
  <2>1. ASSUME NEW r \in Reads, store' = [store EXCEPT !.read = r]
        PROVE  store' \in DocumentState(Paths) /\ Alike(store, store')
    BY <1>1, <2>1 DEF DocumentState, Alike
  <2>2. \E r \in Reads : store' = [store EXCEPT !.read = r]
    BY <1>1, <1>7, SentinelsAreContents DEF FindFile, FailRead, Reads
  <2>3. store' \in DocumentState(Paths) /\ Alike(store, store')   BY <2>1, <2>2
  <2> QED  BY <1>3, <1>7, <2>3, StoreStep, AlikeKeeps DEF FindFile, FailRead, IInv, disk, history
<1> QED  BY <1>4, <1>5, <1>6, <1>7

(* Where a copy is left: one more path, and a store typed over it.         *)
LEMMA LeftAsideKeeps ==
    ASSUME IInv, Around', LeftAside, NEW theirs \in Contents,
           NEW outcome \in {"landed", "displaced"},
           store' = Answered(outcome, theirs, made + 1, {}),
           UNCHANGED <<safe, dropped>>
    PROVE  IInv'
<1>1. store \in DocumentState(Paths) /\ made \in Nat   BY DEF IInv, TypeOK
<1>2. Paths \subseteq 1..(made + 1) /\ made + 1 \in 1..(made + 1)   BY <1>1 DEF Paths
<1>3. Paths' = 1..(made + 1)   BY DEF LeftAside, Paths
<1>4. store \in DocumentState(1..(made + 1))   BY <1>1, <1>2, StatesGrow
<1>5. {} \in SUBSET (1..(made + 1))   OBVIOUS
<1>6. store' \in DocumentState(Paths')
  BY <1>2, <1>3, <1>4, <1>5, AnsweredTyped
<1>7. Given(store') /\ (Custody(store) => Custody(store'))   BY <1>1, AnsweredKeeps
<1>8. TypeOK'
  <2>1. made' \in Nat /\ copies' \subseteq Paths' /\ safe' \subseteq Paths'
    BY <1>1, <1>2, <1>3 DEF IInv, TypeOK, LeftAside
  <2> QED  BY <1>6, <2>1 DEF TypeOK, Around
<1>9. KeptUntilLanded => KeptUntilLanded'
  <2>1. 1..(made + 1) \subseteq Paths \cup {made + 1}   BY <1>1 DEF Paths
  <2> QED  BY <1>3, <2>1 DEF KeptUntilLanded, LeftAside
<1> QED  BY <1>7, <1>8, <1>9 DEF IInv, Safekeeping

(* A copy left beside the file that the store is not told of.              *)
LEMMA DisplaceUnreadKeeps ==
    ASSUME IInv, Around', DisplaceUnread
    PROVE  IInv'
<1>1. /\ TypeOK /\ store \in DocumentState(Paths) /\ store.write \in Writes(Paths)
      /\ made \in Nat /\ copies \subseteq Paths /\ safe \subseteq Paths
  BY DEF IInv, TypeOK, DocumentState
<1>2. PICK durable \in BOOLEAN :
          LET gone == IF durable THEN RetiredBy(store.write.kept, store.write.version) ELSE {}
          IN /\ store' = Answered("landed", NoFile, None, gone)
             /\ copies' = (copies \ gone) \cup {made + 1}
             /\ safe' = IF durable THEN safe \cup store.write.carries ELSE safe
  BY DEF DisplaceUnread
<1> DEFINE gone == IF durable THEN RetiredBy(store.write.kept, store.write.version) ELSE {}
<1>3. made' = made + 1 /\ dropped' = dropped   BY DEF DisplaceUnread, Written
<1>4. Paths' = 1..(made + 1)   BY <1>3 DEF Paths
<1>5. Paths \subseteq Paths' /\ made + 1 \in Paths' /\ Paths' \subseteq Paths \cup {made + 1}
  <2>1. 1..made \subseteq 1..(made + 1) /\ made + 1 \in 1..(made + 1)
        /\ 1..(made + 1) \subseteq (1..made) \cup {made + 1}
    BY <1>1
  <2>2. Paths = 1..made   BY DEF Paths
  <2> QED  BY <1>4, <2>1, <2>2
<1>6. gone \in SUBSET Paths /\ store.write.carries \subseteq Paths
  BY <1>1 DEF RetiredBy, Writes, Kept
<1>7. /\ store' = Answered("landed", NoFile, None, gone)
      /\ copies' = (copies \ gone) \cup {made + 1}
      /\ safe' = IF durable THEN safe \cup store.write.carries ELSE safe
  BY <1>2
<1>8. Custody(store) => gone \subseteq store.write.carries   BY DEF Custody, RetiredBy
<1>9. ~durable => gone = {}   OBVIOUS
<1> HIDE DEF gone
<1>10. store' \in DocumentState(Paths')
  <2>1. store \in DocumentState(1..(made + 1))   BY <1>1, <1>4, <1>5, StatesGrow
  <2>2. gone \in SUBSET (1..(made + 1)) /\ None \in {None} \cup (1..(made + 1))
    BY <1>4, <1>5, <1>6
  <2> QED  BY <1>4, <1>7, <2>1, <2>2, AnsweredTyped, SentinelsAreContents
<1>11. Given(store') /\ (Custody(store) => Custody(store'))   BY <1>1, <1>7, AnsweredKeeps
<1>12. TypeOK'
  <2>1. made' \in Nat /\ copies' \subseteq Paths' /\ safe' \subseteq Paths'
    BY <1>1, <1>3, <1>5, <1>6, <1>7
  <2> QED  BY <1>10, <2>1 DEF TypeOK, Around
<1>13. KeptUntilLanded /\ Custody(store) => KeptUntilLanded'
  <2> SUFFICES ASSUME KeptUntilLanded, Custody(store), NEW p \in Paths'
               PROVE  p \in copies' \/ p \in safe'
    BY DEF KeptUntilLanded
  <2>1. CASE p = made + 1   BY <1>7, <2>1
  <2>2. CASE p \in Paths
    <3>1. p \in copies \/ p \in safe   BY <2>2 DEF KeptUntilLanded
    <3>2. p \in gone => durable /\ p \in store.write.carries   BY <1>8, <1>9
    <3> QED  BY <1>7, <3>1, <3>2
  <2> QED  BY <1>5, <2>1, <2>2
<1> QED  BY <1>3, <1>11, <1>12, <1>13 DEF IInv, Safekeeping

LEMMA WorkerPlacesKeeps ==
    IInv /\ (Place \/ PlaceUndurably \/ Displace \/ DisplaceUnread) => IInv'
<1> SUFFICES ASSUME IInv, Place \/ PlaceUndurably \/ Displace \/ DisplaceUnread
             PROVE  IInv'
  OBVIOUS
<1>1. TypeOK /\ store \in DocumentState(Paths) /\ file \in Contents   BY DEF IInv, TypeOK
<1>2. store.write \in Writes(Paths)   BY <1>1 DEF DocumentState
<1>3. Around'
  <2>1. Written /\ faults' \in Nat
    BY <1>1 DEF Place, PlaceUndurably, Displace, DisplaceUnread, Placed, Fault, TypeOK
  <2>2. store.write.document \in Contents   BY <1>2 DEF Writes, Contents
  <2>3. claim' \in [Units -> Nat]
    BY <1>1 DEF Place, PlaceUndurably, Displace, DisplaceUnread, Placed, TypeOK
  <2> QED  BY <1>1, <2>1, <2>2, <2>3 DEF Written, TypeOK, Around
<1>4. None \in {None} \cup Paths   OBVIOUS
<1>5. CASE Place
  <2> DEFINE gone == RetiredBy(store.write.kept, store.write.version)
  <2>1. gone \subseteq Paths   BY <1>2 DEF RetiredBy, Writes, Kept
  <2>2. store' = Answered("landed", NoFile, None, gone) /\ copies' = copies \ gone
    BY <1>5 DEF Place
  <2>3. safe' = safe \cup store.write.carries /\ made' = made /\ dropped' = dropped
    BY <1>5 DEF Place, Placed, Written
  <2>4. store' \in DocumentState(Paths)
    BY <1>1, <1>4, <2>1, <2>2, AnsweredTyped, SentinelsAreContents
  <2>5. Given(store') /\ (Custody(store) => Custody(store'))   BY <1>1, <2>2, AnsweredKeeps
  <2>6. Custody(store) => gone \subseteq store.write.carries   BY DEF Custody, RetiredBy
  <2>7. TypeOK'
    <3>1. Paths' = Paths /\ copies' \subseteq Paths /\ safe' \subseteq Paths
      BY <1>1, <1>2, <2>2, <2>3 DEF Paths, TypeOK, Writes
    <3> QED  BY <1>1, <1>3, <2>3, <2>4, <3>1 DEF TypeOK, Around
  <2> HIDE DEF gone
  <2>8. KeptUntilLanded /\ Custody(store) => KeptUntilLanded'
    BY <2>2, <2>3, <2>6 DEF KeptUntilLanded, Paths
  <2> QED  BY <2>3, <2>5, <2>7, <2>8 DEF IInv, Safekeeping
<1>6. CASE PlaceUndurably
  <2>1. CASE file = NoFile
    <3>1. {} \in SUBSET Paths   OBVIOUS
    <3> QED  BY <1>1, <1>3, <1>4, <1>6, <2>1, <3>1, StoreStep, AnsweredTyped, AnsweredKeeps,
                SentinelsAreContents DEF PlaceUndurably, Placed, Written
  <2>2. CASE file # NoFile
    BY <1>3, <1>6, <2>2, LeftAsideKeeps, SentinelsAreContents
       DEF PlaceUndurably, Placed, Written
  <2> QED  BY <2>1, <2>2
<1>7. CASE Displace
  BY <1>1, <1>3, <1>7, LeftAsideKeeps DEF Displace, Placed, Written
<1>8. CASE DisplaceUnread   BY <1>3, <1>8, DisplaceUnreadKeeps
<1> QED  BY <1>5, <1>6, <1>7, <1>8

LEMMA DrainKeeps == IInv /\ (EarPass \/ BeginDrain \/ Hear \/ AnswersHeard \/ MergeOne) => IInv'
<1> SUFFICES ASSUME IInv, EarPass \/ BeginDrain \/ Hear \/ AnswersHeard \/ MergeOne
             PROVE  IInv'
  OBVIOUS
<1>1. TypeOK /\ store \in DocumentState(Paths) /\ Given(store)   BY DEF IInv, TypeOK
<1>2. Around' /\ UNCHANGED <<made, copies, history>>
  BY <1>1 DEF EarPass, BeginDrain, Hear, AnswersHeard, MergeOne, TypeOK, Around, disk, bounds, history
<1>3. CASE EarPass
  <2>1. store' = AskRead(store)   BY <1>3 DEF EarPass
  <2> QED  BY <1>1, <1>2, <2>1, StoreStep, AskReadTyped, AskReadKeeps, AlikeKeeps DEF history
<1>4. CASE BeginDrain
  BY <1>1, <1>2, <1>4, StoreStep DEF BeginDrain, history
<1>5. CASE Hear
  <2>1. CASE WriteToHear /\ store' = OnDocument(store)
    <3>1. store.write.outcome # "none"   BY <1>1, <2>1 DEF Given, WriteToHear
    <3> QED  BY <1>1, <1>2, <2>1, <3>1, StoreStep, OnDocumentTyped, OnDocumentKeeps DEF history
  <2>2. CASE ReadToHear /\ store' = OnRead(store)
    BY <1>1, <1>2, <2>2, StoreStep, OnReadTyped, OnReadKeeps, AlikeKeeps DEF history
  <2> QED  BY <1>5, <2>1, <2>2 DEF Hear
<1>6. CASE AnswersHeard
  <2>1. store' = AfterAnswers(store)   BY <1>6 DEF AnswersHeard
  <2> QED  BY <1>1, <1>2, <2>1, StoreStep, AfterAnswersTyped, AfterAnswersKeeps DEF history
<1>7. CASE MergeOne
  <2>1. store.merges # <<>> /\ store' = MergeHead(store)   BY <1>7 DEF MergeOne
  <2> QED  BY <1>1, <1>2, <2>1, StoreStep, MergeHeadTyped, MergeHeadKeeps DEF history
<1> QED  BY <1>3, <1>4, <1>5, <1>6, <1>7

(* Neither a flag of the store nor what a press desires is among what the  *)
(* copies are kept by.                                                     *)
LEMMA FlagsTyped ==
    ASSUME NEW P, NEW s \in DocumentState(P), NEW b \in BOOLEAN
    PROVE  /\ [s EXCEPT !.atQuit = b] \in DocumentState(P)
           /\ Alike(s, [s EXCEPT !.atQuit = b])
           /\ [s EXCEPT !.refused = b] \in DocumentState(P)
           /\ Alike(s, [s EXCEPT !.refused = b])
BY DEF DocumentState, Alike

LEMMA PressTyped ==
    ASSUME NEW P, NEW s \in DocumentState(P), NEW u \in Units, NEW v \in Nat
    PROVE  /\ [s EXCEPT !.desired[u] = v, !.version = @ + 1] \in DocumentState(P)
           /\ Alike(s, [s EXCEPT !.desired[u] = v, !.version = @ + 1])
<1>1. [s.desired EXCEPT ![u] = v] \in Document /\ s.version + 1 \in Nat
  BY DEF DocumentState, Document
<1> QED  BY <1>1 DEF DocumentState, Alike

LEMMA EndMergeKeeps == IInv /\ (EndMerge \/ QuitTurn) => IInv'
<1> SUFFICES ASSUME IInv, EndMerge \/ QuitTurn
             PROVE  IInv'
  OBVIOUS
<1>1. TypeOK /\ store \in DocumentState(Paths) /\ Given(store)   BY DEF IInv, TypeOK
<1>2. ASSUME NEW b \in BOOLEAN
      PROVE  LET t == Merged([store EXCEPT !.atQuit = b])
             IN  t \in DocumentState(Paths) /\ Given(t) /\ (Custody(store) => Custody(t))
  BY <1>1, FlagsTyped, MergedTyped, MergedKeeps, AlikeKeeps
<1>3. CASE EndMerge
  <2> DEFINE t == Merged([store EXCEPT !.atQuit = FALSE])
  <2>1. t \in DocumentState(Paths) /\ Given(t) /\ (Custody(store) => Custody(t))   BY <1>2
  <2>2. store' \in {SendOwed(t), t}   BY <1>3 DEF EndMerge
  <2> HIDE DEF t
  <2>3. store' \in DocumentState(Paths) /\ Given(store') /\ (Custody(store) => Custody(store'))
    BY <2>1, <2>2, SendOwedTyped, SendOwedKeeps
  <2>4. Around' /\ UNCHANGED <<made, copies, history>>
    BY <1>1, <1>3 DEF EndMerge, TypeOK, Around, disk, bounds, history
  <2> QED  BY <2>3, <2>4, StoreStep DEF history
<1>4. CASE QuitTurn
  <2> DEFINE t == Merged([store EXCEPT !.atQuit = store.atQuit \/ store.folded])
  <2>1. t \in DocumentState(Paths) /\ Given(t) /\ (Custody(store) => Custody(t))
    <3>1. (store.atQuit \/ store.folded) \in BOOLEAN   OBVIOUS
    <3> QED  BY <1>2, <3>1
  <2>2. store' = SendUnsent(t)   BY <1>1, <1>4 DEF QuitTurn, DocumentState
  <2> HIDE DEF t
  <2>3. store' \in DocumentState(Paths) /\ Given(store') /\ (Custody(store) => Custody(store'))
    BY <2>1, <2>2, SendUnsentTyped, SendUnsentKeeps
  <2>4. quit' \in {"leaving", "recovery", "documents"}
    <3>1. Standing(store') \in {"settled", "waiting", "terminal", "unsent"}   BY DEF Standing
    <3> QED  BY <1>4, <3>1 DEF QuitTurn
  <2>5. Around' /\ UNCHANGED <<made, copies, history>>
    BY <1>1, <1>4, <2>4 DEF QuitTurn, TypeOK, Around, disk, bounds, history
  <2> QED  BY <2>3, <2>5, StoreStep DEF history
<1> QED  BY <1>3, <1>4

LEMMA PersonKeeps == IInv /\ Person => IInv'
<1> SUFFICES ASSUME IInv, Person
             PROVE  IInv'
  OBVIOUS
<1>1. TypeOK /\ store \in DocumentState(Paths) /\ Given(store)   BY DEF IInv, TypeOK
<1>2. ASSUME NEW u \in Units, Press(u) PROVE IInv'
  <2>1. Fresh \in Nat /\ Parse(store.revision)[u] \in Nat
    BY <1>1, ContentsHaveDocuments DEF TypeOK, Fresh, DocumentState, Document
  <2>2. PICK v \in Nat :
           store' = SendOwed([store EXCEPT !.desired[u] = v, !.version = @ + 1])
    BY <1>2, <2>1 DEF Press
  <2> DEFINE pressed == [store EXCEPT !.desired[u] = v, !.version = @ + 1]
  <2>3. pressed \in DocumentState(Paths) /\ Alike(store, pressed)   BY <1>1, PressTyped
  <2>4. store' = SendOwed(pressed)   BY <2>2
  <2> HIDE DEF pressed
  <2>5. store' \in DocumentState(Paths) /\ Given(store') /\ (Custody(store) => Custody(store'))
    BY <1>1, <2>3, <2>4, AlikeKeeps, SendOwedTyped, SendOwedKeeps
  <2>6. Around' /\ UNCHANGED <<made, copies, safe, dropped>>
    BY <1>1, <1>2 DEF Press, HeldByCopies, TypeOK, Around, disk
  <2> QED  BY <2>5, <2>6, StoreStep
<1>3. CASE PressAgain
  <2>1. store' = SendOwed(store) /\ Around' /\ UNCHANGED <<made, copies, safe, dropped>>
    BY <1>1, <1>3 DEF PressAgain, HeldByCopies, TypeOK, Around, disk, bounds
  <2> QED  BY <1>1, <2>1, StoreStep, SendOwedTyped, SendOwedKeeps
<1>4. CASE QuitBegin
  <2> DEFINE t == [store EXCEPT !.refused = FALSE]
  <2>1. t \in DocumentState(Paths) /\ Alike(store, t)   BY <1>1, FlagsTyped
  <2>2. store' = SendUnsent(t) /\ Around' /\ UNCHANGED <<made, copies, history>>
    BY <1>1, <1>4 DEF QuitBegin, TypeOK, Around, disk, history
  <2> HIDE DEF t
  <2> QED  BY <1>1, <2>1, <2>2, StoreStep, AlikeKeeps, SendUnsentTyped, SendUnsentKeeps DEF history
<1>5. CASE LeaveWithout
  <2> DEFINE t == [DropOwed(store) EXCEPT !.refused = FALSE]
  <2>1. DropOwed(store) \in DocumentState(Paths)   BY <1>1, DropOwedTyped
  <2>2. t \in DocumentState(Paths) /\ Alike(DropOwed(store), t)   BY <2>1, FlagsTyped
  <2>3. Given(t) /\ (~Owed(store) => (Custody(store) => Custody(t)))
    <3>1. DropOwed(store).write = store.write /\ (~Owed(store) => DropOwed(store) = store)
      BY <1>1, DropOwedKeeps
    <3> QED  BY <1>1, <2>2, <3>1, AlikeKeeps DEF Given
  <2>4. store' = SendUnsent(t) /\ UNCHANGED <<made, copies, safe>>   BY <1>5 DEF LeaveWithout, disk
  <2>5. Around'
    <3>1. claim' \in [Units -> Nat] /\ quits' \in Nat   BY <1>1, <1>5 DEF LeaveWithout, TypeOK
    <3> QED  BY <1>1, <1>5, <3>1 DEF LeaveWithout, TypeOK, Around, disk
  <2>6. (dropped => dropped') /\ (Owed(store) => dropped')   BY <1>5 DEF LeaveWithout
  <2> HIDE DEF t
  <2>7. store' \in DocumentState(Paths) /\ Given(store')
        /\ (~Owed(store) => (Custody(store) => Custody(store')))
    BY <2>2, <2>3, <2>4, SendUnsentTyped, SendUnsentKeeps
  <2> QED  BY <2>4, <2>5, <2>6, <2>7, StoreStep
<1> QED  BY <1>2, <1>3, <1>4, <1>5 DEF Person

LEMMA QuitKeeps == IInv /\ (QuitGoesOn \/ QuitFails) => IInv'
<1> SUFFICES ASSUME IInv, QuitGoesOn \/ QuitFails
             PROVE  IInv'
  OBVIOUS
<1>1. TypeOK /\ store \in DocumentState(Paths) /\ Given(store)   BY DEF IInv, TypeOK
<1>2. Around' /\ UNCHANGED <<store, made, copies, history>>
  BY <1>1 DEF QuitGoesOn, QuitFails, CopyKept, Leave, QuitOutOfTime, CopyRefused, SessionRefused,
              Fault, TypeOK, Around, disk, bounds, history
<1> QED  BY <1>1, <1>2, StoreStep DEF history

LEMMA InitIsSafe == Init => IInv
<1> SUFFICES ASSUME Init
             PROVE  IInv
  OBVIOUS
<1>1. file \in Contents /\ Parse(file) \in Document
  BY SentinelsAreContents, ContentsHaveDocuments DEF Init, Contents
<1>2. store \in DocumentState(Paths)
  <2>1. <<>> \in Seq(Merges(Paths))   OBVIOUS
  <2> QED  BY <1>1, <2>1, NothingAsked DEF Init, Opened, DocumentState
<1>3. store.write.step = "none" /\ store.write.kept = {} /\ store.kept = {}
  BY DEF Init, Opened, NoWrite
<1>4. Paths = {}   BY DEF Init, Paths
<1>5. claim \in [Units -> Nat] /\ made \in Nat /\ {saves, presses, faults, quits} \subseteq Nat
  BY DEF Init
<1>6. TypeOK   BY <1>1, <1>2, <1>5 DEF Init, TypeOK
<1>7. Given(store) /\ Safekeeping
  BY <1>3, <1>4 DEF Given, Safekeeping, KeptUntilLanded, Custody
<1> QED  BY <1>6, <1>7 DEF IInv

LEMMA StepKeeps == IInv /\ [Next]_vars => IInv'
<1> SUFFICES ASSUME IInv, [Next]_vars
             PROVE  IInv'
  OBVIOUS
<1>1. CASE Next
  BY <1>1, EditorKeeps, WorkerStoreKeeps, WorkerPlacesKeeps, DrainKeeps, EndMergeKeeps, PersonKeeps,
     QuitKeeps DEF Next, WorkerGoesOn, WorkerFails, WindowGoesOn
<1>2. CASE UNCHANGED vars
  BY <1>2 DEF vars, disk, bounds, history, IInv, TypeOK, Given, Safekeeping, KeptUntilLanded,
              Custody, Paths
<1> QED  BY <1>1, <1>2

(* A document's store, its file and the copies beside it are of the types  *)
(* the code gives them, whatever the editor, the worker and the window     *)
(* thread do (document_request.rs, DocumentStore).                         *)
THEOREM DocumentTypeIsKept == Spec => []TypeOK
<1>1. IInv => TypeOK   BY DEF IInv
<1> QED  BY InitIsSafe, StepKeeps, <1>1, PTL DEF Spec

(* Every copy an exchange left beside the file stands until a durable      *)
(* landing held its units, unless the person left without a change that    *)
(* was owed (settle_exchange, retired_by, KeptFile): for every set of      *)
(* units, every number of saves and presses, and every fault.              *)
THEOREM HandWorkIsKept == Spec => []HandWorkKept
<1>1. IInv => HandWorkKept   BY DEF IInv, HandWorkKept, Safekeeping
<1> QED  BY InitIsSafe, StepKeeps, <1>1, PTL DEF Spec

-----------------------------------------------------------------------------
(* What the store holds of the file: its revision, what waits to be folded *)
(* in, and what it has yet to hear.                                        *)

OnDisk(w)   == w.step = "answered" /\ w.outcome \in {"landed", "displaced"}
MovedTo(w)  == w.step = "answered" /\ w.outcome = "moved"
Found(r)    == r.step = "answered" /\ r.outcome = "found"
Foldable(m) == m.kept = None /\ m.theirs # Broken
Pending(s)  == {i \in 1..Len(s.merges) : Foldable(s.merges[i])}

Knows(s, c) == s.revision = c \/ \E i \in Pending(s) : s.merges[i].theirs = c

(* What the revision is once all that waits has been folded in.            *)
Becomes(s, c) ==
    \/ Pending(s) = {} /\ s.revision = c
    \/ \E i \in Pending(s) : \A j \in Pending(s) : i =< j => s.merges[j].theirs = c

(* A store that has something to merge is held, and the revision is broken *)
(* only while a broken file waits.                                         *)
Waits(m)  == m.kept = None /\ m.theirs = Broken /\ m.base # Broken
Stored(s) ==
    /\ s.merges # <<>> \/ s.unmerged # <<>> => s.held
    /\ \A i \in 1..Len(s.unmerged) : s.unmerged[i].theirs = Broken
    /\ s.revision = Broken => \/ \E i \in 1..Len(s.merges) : Waits(s.merges[i])
                              \/ \E i \in 1..Len(s.unmerged) : Waits(s.unmerged[i])

(* The worker serves the two requests in the order they were sent.         *)
Served(s) ==
    /\ s.read.step = "answered" => s.read.outcome # "none"
    /\ s.write.outcome = "displaced" => s.write.left # None
    /\ s.latest = "write" /\ s.write.step \in {"checked", "answered"} => s.read.step # "queued"
    /\ s.read.step = "answered" /\ s.write.step \in {"queued", "checked"} => s.latest = "write"
    /\ Writing(s) => s.write.document # Parse(s.write.base)

(* A write whose precondition holds or held is of what the store knows.    *)
Conditional(s, f) ==
    (s.write.step = "queued" /\ f = s.write.base) \/ s.write.step = "checked" \/ OnDisk(s.write)
Clean(s, f) ==
    /\ Conditional(s, f) => /\ ~s.held /\ s.revision = s.write.base
                            /\ Found(s.read) /\ s.latest = "write" => s.read.found = s.write.base
    /\ OnDisk(s.write) => f # s.write.base

(* What the store holds of the file is in the order the file held it: once *)
(* one of it is what the file holds, so is all that came later.            *)
Chain(s, f) ==
    /\ s.revision = f => Becomes(s, f)
    /\ \A i \in Pending(s) : \A j \in Pending(s) :
           s.merges[i].theirs = f /\ i =< j => s.merges[j].theirs = f
    /\ Knows(s, f) /\ MovedTo(s.write) => s.write.theirs = f
    /\ Knows(s, f) /\ Found(s.read) => s.read.found = f
    /\ Found(s.read) /\ s.latest = "read" /\ MovedTo(s.write) /\ s.write.theirs = f
           => s.read.found = f
    /\ Found(s.read) /\ s.latest = "read" /\ OnDisk(s.write) /\ s.write.document = f
           => s.read.found = f
    /\ Found(s.read) /\ s.latest = "write" /\ MovedTo(s.write) /\ s.read.found = f
           => s.write.theirs = f

(* A file the store does not hold will be read.                            *)
Stale(s, f, news) ==
    s.read.step = "answered" /\ (s.read.outcome = "raced" \/ (Found(s.read) /\ s.read.found # f))
        => news \/ s.readAgain
WillRead(s, f) ==
    \/ s.read.step = "queued"
    \/ s.read.step = "answered" /\ (s.read.outcome # "found" \/ s.read.found = f)
Tracked(s, f, news) ==
    \/ news \/ s.readAgain
    \/ OnDisk(s.write) /\ s.write.document = f
    \/ MovedTo(s.write) /\ s.write.theirs = f
    \/ /\ OnDisk(s.write) \/ MovedTo(s.write)
       /\ s.latest = "read" /\ WillRead(s, f)
    \/ /\ ~OnDisk(s.write) /\ ~MovedTo(s.write)
       /\ s.unread \/ WillRead(s, f) \/ Becomes(s, f)

(* Whatever the editor saved and the store has not seen has a value of its *)
(* own: no write the store sends is of it.                                 *)
Apart(s, f) == Writing(s) /\ ~OnDisk(s.write) => s.write.document # f

Within(s, u, f, V) ==    \* the values of unit u in all but f
    /\ 0 \in V /\ s.desired[u] \in V /\ Parse(s.revision)[u] \in V
    /\ s.write.document[u] \in V /\ Parse(s.write.base)[u] \in V
    /\ (s.write.outcome # "displaced" /\ s.write.theirs = f) \/ Parse(s.write.theirs)[u] \in V
    /\ s.read.found = f \/ Parse(s.read.found)[u] \in V
    /\ \A i \in 1..Len(s.merges) :
          LET m == s.merges[i]
          IN  m.theirs # Broken =>
                  /\ m.written[u] \in V /\ Parse(m.base)[u] \in V
                  /\ (m.kept = None /\ m.theirs = f) \/ Parse(m.theirs)[u] \in V

Alien(s, f, u) == Within(s, u, f, Nat \ {f[u]})
Seen(s, f) ==
    f \in Document => \/ Becomes(s, f)
                      \/ OnDisk(s.write) /\ s.write.document = f
                      \/ \E u \in Units : Alien(s, f, u)

Faithful(s, f, news) ==
    /\ Stored(s) /\ Served(s) /\ Clean(s, f) /\ Stale(s, f, news)
    /\ f # Broken => Chain(s, f) /\ Tracked(s, f, news)
    /\ Apart(s, f) /\ Seen(s, f)

-----------------------------------------------------------------------------
(* What each operator of the store makes of it.                            *)

Merging(s, t) ==    \* t is to merge what s is
    t.revision = s.revision /\ t.held = s.held /\ t.merges = s.merges /\ t.unmerged = s.unmerged
Asking(s, t)  ==    \* t is to hear what s is
    /\ t.write = s.write /\ t.latest = s.latest
    /\ t.read = s.read /\ t.readAgain = s.readAgain /\ t.unread = s.unread

LEMMA MergingAlike ==
    ASSUME NEW s, NEW t, NEW f, Merging(s, t)
    PROVE  /\ Stored(t) = Stored(s) /\ Pending(t) = Pending(s)
           /\ Knows(t, f) = Knows(s, f) /\ Becomes(t, f) = Becomes(s, f)
BY DEF Merging, Stored, Pending, Knows, Becomes

LEMMA AskingAlike ==
    ASSUME NEW s, NEW t, NEW f, NEW news, Merging(s, t), Asking(s, t)
    PROVE  /\ Served(t) = Served(s) /\ Clean(t, f) = Clean(s, f)
           /\ Stale(t, f, news) = Stale(s, f, news) /\ Chain(t, f) = Chain(s, f)
           /\ Tracked(t, f, news) = Tracked(s, f, news) /\ Apart(t, f) = Apart(s, f)
<1>1. /\ Pending(t) = Pending(s) /\ Knows(t, f) = Knows(s, f) /\ Becomes(t, f) = Becomes(s, f)
  BY MergingAlike
<1>2. Served(t) = Served(s)   BY DEF Asking, Served, Writing
<1>3. Clean(t, f) = Clean(s, f)   BY DEF Merging, Asking, Clean, Conditional
<1>4. Stale(t, f, news) = Stale(s, f, news) /\ Apart(t, f) = Apart(s, f)
  BY DEF Asking, Stale, Apart, Writing
<1>5. Chain(t, f) = Chain(s, f)   BY <1>1 DEF Merging, Asking, Chain
<1>6. Tracked(t, f, news) = Tracked(s, f, news)   BY <1>1 DEF Asking, Tracked, WillRead
<1> QED  BY <1>2, <1>3, <1>4, <1>5, <1>6

LEMMA FaithfulAlike ==
    ASSUME NEW s, NEW t, NEW f, NEW news, Merging(s, t), Asking(s, t), t.desired = s.desired,
           Faithful(s, f, news)
    PROVE  Faithful(t, f, news)
<1>1. Seen(t, f) = Seen(s, f)
  <2>1. Becomes(t, f) = Becomes(s, f)   BY MergingAlike
  <2>2. ASSUME NEW u, NEW V PROVE Within(t, u, f, V) = Within(s, u, f, V)
    BY DEF Merging, Asking, Within
  <2> QED  BY <2>1, <2>2 DEF Asking, Seen, Alien
<1> QED  BY <1>1, MergingAlike, AskingAlike DEF Faithful

LEMMA SendOwedEffect ==
    ASSUME NEW P, NEW s \in DocumentState(P)
    PROVE  /\ Merging(s, SendOwed(s)) /\ SendOwed(s).desired = s.desired
           /\ SendOwed(s).read = s.read /\ SendOwed(s).readAgain = s.readAgain
           /\ SendOwed(s).unread = s.unread
           /\ \/ SendOwed(s).write = s.write /\ SendOwed(s).latest = s.latest
              \/ /\ ~s.held /\ ~Writing(s) /\ Owed(s)
                 /\ SendOwed(s).write = Request(s) /\ SendOwed(s).latest = "write"
<1>1. CASE s.held \/ Writing(s) \/ ~Owed(s)
  BY <1>1 DEF SendOwed, Merging, DocumentState
<1>2. CASE ~s.held /\ ~Writing(s) /\ Owed(s)
  BY <1>2 DEF SendOwed, Merging, DocumentState
<1> QED  BY <1>1, <1>2

LEMMA RequestIs ==
    ASSUME NEW s
    PROVE  /\ Request(s).step = "queued" /\ Request(s).document = s.desired
           /\ Request(s).base = s.revision /\ Request(s).outcome = "none"
           /\ Request(s).theirs = NoFile /\ Request(s).left = None
BY DEF Request, NoWrite

LEMMA NoFileIsDefault ==
    Parse(NoFile) = Default /\ Parse(Broken) = Default /\ \A u \in Units : Default[u] = 0
BY DEF Parse, Default

LEMMA DocumentsParse ==
    ASSUME NEW d \in Document
    PROVE  Parse(d) = d /\ d # Broken /\ d # NoFile
BY DocumentAssumption DEF Parse, Document

LEMMA SendOwedWithin ==
    ASSUME NEW P, NEW s \in DocumentState(P), NEW u \in Units, NEW f, NEW V, Within(s, u, f, V)
    PROVE  Within(SendOwed(s), u, f, V)
<1> DEFINE t == SendOwed(s)
<1>1. Merging(s, t) /\ t.desired = s.desired /\ t.read = s.read
      /\ (t.write = s.write \/ t.write = Request(s))
  BY SendOwedEffect
<1> HIDE DEF t
<1>2. ASSUME t.write = s.write PROVE Within(t, u, f, V)   BY <1>1, <1>2 DEF Within, Merging
<1>3. ASSUME t.write = Request(s) PROVE Within(t, u, f, V)
  BY <1>1, <1>3, RequestIs, NoFileIsDefault DEF Within, Merging
<1> QED  BY <1>1, <1>2, <1>3 DEF t

(* A request is of what is not yet on disk, conditional on the revision.   *)
LEMMA SendOwedFaithful ==
    ASSUME NEW P, NEW s \in DocumentState(P), NEW f \in Contents, NEW news, Faithful(s, f, news)
    PROVE  Faithful(SendOwed(s), f, news)
<1> DEFINE t == SendOwed(s)
<1>1. /\ Merging(s, t) /\ t.desired = s.desired
      /\ t.read = s.read /\ t.readAgain = s.readAgain /\ t.unread = s.unread
      /\ \/ t.write = s.write /\ t.latest = s.latest
         \/ /\ ~s.held /\ ~Writing(s) /\ Owed(s)
            /\ t.write = Request(s) /\ t.latest = "write"
  BY SendOwedEffect
<1>w. ASSUME NEW u \in Units, NEW V, Within(s, u, f, V) PROVE Within(t, u, f, V)
  BY <1>w, SendOwedWithin
<1> HIDE DEF t
<1>2. CASE t.write = s.write /\ t.latest = s.latest
  BY <1>1, <1>2, FaithfulAlike DEF Asking, t
<1>3. CASE ~s.held /\ ~Writing(s) /\ Owed(s) /\ t.write = Request(s) /\ t.latest = "write"
  <2>1. t.write.step = "queued" /\ t.write.document = s.desired /\ t.write.base = s.revision
        /\ t.write.outcome = "none"
    BY <1>3, RequestIs
  <2>2. s.merges = <<>> /\ s.unmerged = <<>> /\ Pending(s) = {}
    <3>1. s.merges = <<>> /\ s.unmerged = <<>>   BY <1>3 DEF Faithful, Stored
    <3> QED  BY <3>1 DEF Pending
  <2>3. s.revision # Broken   BY <2>2 DEF Faithful, Stored
  <2>4. /\ Stored(t) = Stored(s) /\ Pending(t) = Pending(s)
        /\ Knows(t, f) = Knows(s, f) /\ Becomes(t, f) = Becomes(s, f)
    BY <1>1, MergingAlike
  <2>5. Served(t)
    BY <1>1, <1>3, <2>1 DEF Faithful, Served, Writing, Owed
  <2>6. Clean(t, f)
    <3>1. f = s.revision => (Found(s.read) => s.read.found = f)
      BY <2>3 DEF Faithful, Chain, Knows
    <3> QED  BY <1>1, <1>3, <2>1, <3>1 DEF Clean, Conditional, OnDisk, Merging
  <2>7. Stale(t, f, news)   BY <1>1 DEF Faithful, Stale
  <2>8. ASSUME f # Broken PROVE Chain(t, f)
    <3>1. Chain(s, f)   BY <2>8 DEF Faithful
    <3> QED  BY <1>1, <2>1, <2>4, <3>1 DEF Chain, MovedTo, OnDisk, Merging
  <2>9. ASSUME f # Broken PROVE Tracked(t, f, news)
    <3>1. Tracked(s, f, news)   BY <2>9 DEF Faithful
    <3> QED  BY <1>1, <1>3, <2>1, <2>4, <3>1 DEF Tracked, MovedTo, OnDisk, WillRead, Writing
  <2>10. Apart(t, f)
    <3>1. s.desired \in Document   BY DEF DocumentState
    <3>2. ASSUME f = s.desired PROVE FALSE
      <4>1. f \in Document /\ Parse(f) = f   BY <3>1, <3>2, DocumentsParse
      <4>2. s.revision # f   BY <1>3, <3>2, <4>1 DEF Owed
      <4>3. ~Becomes(s, f)   BY <2>2, <4>2 DEF Becomes
      <4>4. ~OnDisk(s.write)   BY <1>3 DEF Writing, OnDisk
      <4>5. PICK u \in Units : Alien(s, f, u)   BY <4>1, <4>3, <4>4 DEF Faithful, Seen
      <4> QED  BY <3>2, <4>5 DEF Alien, Within
    <3> QED  BY <2>1, <3>2 DEF Apart
  <2>11. Seen(t, f)
    <3>1. ~OnDisk(s.write)   BY <1>3 DEF Writing, OnDisk
    <3>2. Seen(s, f)   BY DEF Faithful
    <3> QED  BY <1>w, <2>4, <3>1, <3>2 DEF Seen, Alien
  <2> QED  BY <2>4, <2>5, <2>6, <2>7, <2>8, <2>9, <2>10, <2>11 DEF Faithful, t
<1> QED  BY <1>1, <1>2, <1>3 DEF t

LEMMA AskReadEffect ==
    ASSUME NEW P, NEW s \in DocumentState(P)
    PROVE  /\ Merging(s, AskRead(s)) /\ AskRead(s).desired = s.desired
           /\ AskRead(s).write = s.write /\ AskRead(s).unread = s.unread
           /\ \/ /\ Reading(s) /\ AskRead(s).readAgain = TRUE
                 /\ AskRead(s).read = s.read /\ AskRead(s).latest = s.latest
              \/ /\ ~Reading(s) /\ AskRead(s).readAgain = FALSE
                 /\ AskRead(s).read.step = "queued" /\ AskRead(s).read.found = NoFile
                 /\ AskRead(s).latest = "read"
<1>1. CASE Reading(s)   BY <1>1 DEF AskRead, Merging, DocumentState
<1>2. CASE ~Reading(s)   BY <1>2 DEF AskRead, Merging, DocumentState, NoRead
<1> QED  BY <1>1, <1>2

LEMMA AskReadWithin ==
    ASSUME NEW P, NEW s \in DocumentState(P), NEW u \in Units, NEW f, NEW V, Within(s, u, f, V)
    PROVE  Within(AskRead(s), u, f, V)
<1> DEFINE t == AskRead(s)
<1>1. Merging(s, t) /\ t.desired = s.desired /\ t.write = s.write
      /\ (t.read = s.read \/ t.read.found = NoFile)
  BY AskReadEffect
<1> HIDE DEF t
<1> QED  BY <1>1, NoFileIsDefault DEF Within, Merging, t

(* Once a read is asked for, news are no longer needed.                    *)
LEMMA AskReadFaithful ==
    ASSUME NEW P, NEW s \in DocumentState(P), NEW f, NEW news, NEW later, Faithful(s, f, news)
    PROVE  Faithful(AskRead(s), f, later)
<1> DEFINE t == AskRead(s)
<1>1. /\ Merging(s, t) /\ t.desired = s.desired /\ t.write = s.write /\ t.unread = s.unread
      /\ \/ Reading(s) /\ t.readAgain = TRUE /\ t.read = s.read /\ t.latest = s.latest
         \/ ~Reading(s) /\ t.read.step = "queued" /\ t.latest = "read"
  BY AskReadEffect
<1>w. ASSUME NEW u \in Units, NEW V, Within(s, u, f, V) PROVE Within(t, u, f, V)
  BY <1>w, AskReadWithin
<1> HIDE DEF t
<1>2. /\ Stored(t) = Stored(s) /\ Pending(t) = Pending(s)
      /\ Knows(t, f) = Knows(s, f) /\ Becomes(t, f) = Becomes(s, f)
  BY <1>1, MergingAlike
<1>3. Served(t)   BY <1>1 DEF Faithful, Served, Writing, Reading
<1>4. Clean(t, f)   BY <1>1 DEF Faithful, Clean, Conditional, Found, Merging
<1>5. Stale(t, f, later)   BY <1>1 DEF Stale
<1>6. ASSUME f # Broken PROVE Chain(t, f)
  <2>1. Chain(s, f)   BY <1>6 DEF Faithful
  <2> QED  BY <1>1, <1>2, <2>1 DEF Chain, Found, Merging
<1>7. Tracked(t, f, later)
  BY <1>1 DEF Tracked, WillRead
<1>8. Apart(t, f)   BY <1>1 DEF Faithful, Apart, Writing
<1>9. Seen(t, f)
  <2>1. Seen(s, f)   BY DEF Faithful
  <2> QED  BY <1>w, <1>1, <1>2, <2>1 DEF Seen, Alien
<1> QED  BY <1>2, <1>3, <1>4, <1>5, <1>6, <1>7, <1>8, <1>9 DEF Faithful, t

(* What waits once m is kept: m is the last of it, n files in all.         *)
Keeps(s, t, m, n) ==
    /\ Len(t.merges) = n /\ t.merges[n] = m
    /\ \A i \in 1..(n - 1) : i \in 1..Len(s.merges) /\ t.merges[i] = s.merges[i]
    /\ \/ n = Len(s.merges) + 1
       \/ n = Len(s.merges) /\ s.merges[n].base = m.base /\ s.merges[n].kept = None

LEMMA KeepEffect ==
    ASSUME NEW P, NEW s \in DocumentState(P), NEW m \in Merges(P)
    PROVE  /\ Keep(s, m).held = TRUE /\ Keep(s, m).revision = s.revision
           /\ Keep(s, m).unmerged = s.unmerged /\ Keep(s, m).desired = s.desired
           /\ Asking(s, Keep(s, m))
           /\ \E n \in Nat \ {0} : Keeps(s, Keep(s, m), m, n)
<1> DEFINE n == Len(s.merges)
           t == Keep(s, m)
           replaces == /\ m.kept = None /\ n > 0
                       /\ s.merges[n].kept = None /\ s.merges[n].base = m.base
           all == IF replaces THEN [s.merges EXCEPT ![n] = m] ELSE Append(s.merges, m)
<1>1. s.merges \in Seq(Merges(P)) /\ n \in Nat   BY DEF DocumentState
<1>2. t = [s EXCEPT !.held = TRUE, !.merges = all]   BY DEF Keep
<1>3. \E k \in Nat \ {0} :
          /\ Len(all) = k /\ all[k] = m
          /\ \A i \in 1..(k - 1) : i \in 1..n /\ all[i] = s.merges[i]
          /\ \/ k = n + 1
             \/ k = n /\ s.merges[k].base = m.base /\ s.merges[k].kept = None
  <2>1. CASE replaces
    <3>1. Len(all) = n /\ n \in Nat \ {0} /\ all[n] = m   BY <1>1, <2>1
    <3>2. \A i \in 1..(n - 1) : i \in 1..n /\ all[i] = s.merges[i]   BY <1>1, <2>1
    <3> QED  BY <2>1, <3>1, <3>2
  <2>2. CASE ~replaces
    <3>1. Len(all) = n + 1 /\ n + 1 \in Nat \ {0} /\ all[n + 1] = m   BY <1>1, <2>2
    <3>2. \A i \in 1..((n + 1) - 1) : i \in 1..n /\ all[i] = s.merges[i]   BY <1>1, <2>2
    <3> QED  BY <3>1, <3>2
  <2> QED  BY <2>1, <2>2
<1> HIDE DEF all, n
<1>4. /\ t.held = TRUE /\ t.revision = s.revision /\ t.unmerged = s.unmerged
      /\ t.desired = s.desired /\ Asking(s, t) /\ t.merges = all
  <2> DEFINE h == TRUE
  <2>1. h = TRUE   OBVIOUS
  <2>2. t = [s EXCEPT !.held = h, !.merges = all]   BY <1>2
  <2> HIDE DEF h
  <2> QED  BY <2>1, <2>2 DEF DocumentState, Asking
<1> HIDE DEF t
<1>5. PICK k \in Nat \ {0} :
          /\ Len(all) = k /\ all[k] = m
          /\ \A i \in 1..(k - 1) : i \in 1..n /\ all[i] = s.merges[i]
          /\ \/ k = n + 1
             \/ k = n /\ s.merges[k].base = m.base /\ s.merges[k].kept = None
  BY <1>3
<1>6. Keeps(s, t, m, k)   BY <1>4, <1>5 DEF Keeps, n
<1> QED  BY <1>4, <1>5, <1>6 DEF t

(* What a file that moved adds to what waits: it is the last of it.        *)
LEMMA MovedIsLast ==
    ASSUME NEW P, NEW s \in DocumentState(P), NEW m \in Merges(P), m.kept = None,
           NEW f, f # Broken
    PROVE  LET t == Keep(s, m)
           IN  /\ m.theirs # Broken => Becomes(t, m.theirs)
               /\ \A i \in Pending(t) : t.merges[i].theirs = f => Knows(s, f) \/ m.theirs = f
               /\ /\ \A i \in Pending(s) : \A j \in Pending(s) :
                         s.merges[i].theirs = f /\ i =< j => s.merges[j].theirs = f
                  /\ Knows(s, f) => m.theirs = f
                  => \A i \in Pending(t) : \A j \in Pending(t) :
                         t.merges[i].theirs = f /\ i =< j => t.merges[j].theirs = f
<1> DEFINE t == Keep(s, m)
<1>1. PICK n \in Nat \ {0} : Keeps(s, t, m, n)   BY KeepEffect
<1> HIDE DEF t
<1> USE DEF Keeps
<1>2. ASSUME NEW i \in Pending(t), i # n
      PROVE  i \in Pending(s) /\ t.merges[i] = s.merges[i] /\ i < n
  <2>1. i \in 1..(n - 1)   BY <1>1, <1>2 DEF Pending
  <2> QED  BY <1>1, <2>1 DEF Pending
<1>3. ASSUME m.theirs # Broken PROVE Becomes(t, m.theirs)
  <2>1. n \in Pending(t)   BY <1>1, <1>3 DEF Pending, Foldable
  <2>2. \A j \in Pending(t) : n =< j => j = n   BY <1>1 DEF Pending
  <2> QED  BY <1>1, <2>1, <2>2 DEF Becomes
<1>4. \A i \in Pending(t) : t.merges[i].theirs = f => Knows(s, f) \/ m.theirs = f
  BY <1>1, <1>2 DEF Knows
<1>5. ASSUME \A i \in Pending(s) : \A j \in Pending(s) :
                 s.merges[i].theirs = f /\ i =< j => s.merges[j].theirs = f,
             Knows(s, f) => m.theirs = f,
             NEW i \in Pending(t), NEW j \in Pending(t), t.merges[i].theirs = f, i =< j
      PROVE  t.merges[j].theirs = f
  <2>1. CASE j = n   BY <1>1, <1>4, <1>5, <2>1
  <2>2. CASE j # n
    <3>1. i # n   BY <1>2, <1>5, <2>2 DEF Pending
    <3> QED  BY <1>2, <1>5, <2>2, <3>1
  <2> QED  BY <2>1, <2>2
<1> QED  BY <1>3, <1>4, <1>5 DEF t

LEMMA KeepStored ==
    ASSUME NEW P, NEW s \in DocumentState(P), NEW m \in Merges(P), m.base = s.revision, Stored(s)
    PROVE  /\ Stored(Keep(s, m))
           /\ m.kept = None /\ m.theirs = Broken /\ s.revision # Broken
              => \E i \in 1..Len(Keep(s, m).merges) : Waits(Keep(s, m).merges[i])
<1> DEFINE t == Keep(s, m)
<1>1. /\ t.held = TRUE /\ t.revision = s.revision /\ t.unmerged = s.unmerged
  BY KeepEffect
<1>2. PICK n \in Nat \ {0} : Keeps(s, t, m, n)   BY KeepEffect
<1>3. s.merges \in Seq(Merges(P))   BY DEF DocumentState
<1> HIDE DEF t
<1> USE DEF Keeps
<1>4. ASSUME s.revision = Broken, NEW i \in 1..Len(s.merges), Waits(s.merges[i])
      PROVE  i \in 1..Len(t.merges) /\ Waits(t.merges[i])
  <2>1. i # n \/ n = Len(s.merges) + 1   BY <1>2, <1>4 DEF Waits
  <2>2. i \in 1..(n - 1)   BY <1>2, <1>3, <2>1
  <2> QED  BY <1>2, <1>4, <2>2
<1>5. Stored(t)   BY <1>1, <1>4 DEF Stored
<1>6. ASSUME m.kept = None, m.theirs = Broken, s.revision # Broken
      PROVE  \E i \in 1..Len(t.merges) : Waits(t.merges[i])
  <2>1. n \in 1..Len(t.merges) /\ Waits(t.merges[n])   BY <1>2, <1>6 DEF Waits
  <2> QED  BY <2>1
<1> QED  BY <1>5, <1>6 DEF t

LEMMA KeepWithin ==
    ASSUME NEW P, NEW s \in DocumentState(P), NEW m \in Merges(P), NEW u, NEW f, NEW V,
           Within(s, u, f, V),
           m.theirs # Broken => /\ m.written[u] \in V /\ Parse(m.base)[u] \in V
                                /\ (m.kept = None /\ m.theirs = f) \/ Parse(m.theirs)[u] \in V
    PROVE  Within(Keep(s, m), u, f, V)
<1> DEFINE t == Keep(s, m)
<1>1. t.revision = s.revision /\ t.desired = s.desired /\ Asking(s, t)   BY KeepEffect
<1>2. PICK n \in Nat \ {0} : Keeps(s, t, m, n)   BY KeepEffect
<1> HIDE DEF t
<1> USE DEF Keeps
<1>3. ASSUME NEW i \in 1..Len(t.merges), t.merges[i].theirs # Broken
      PROVE  LET k == t.merges[i]
             IN  /\ k.written[u] \in V /\ Parse(k.base)[u] \in V
                 /\ (k.kept = None /\ k.theirs = f) \/ Parse(k.theirs)[u] \in V
  <2>1. CASE i = n   BY <1>2, <1>3, <2>1
  <2>2. CASE i # n
    <3>1. i \in 1..(n - 1)   BY <1>2, <2>2
    <3>2. i \in 1..Len(s.merges) /\ t.merges[i] = s.merges[i]   BY <1>2, <3>1
    <3> QED  BY <1>3, <3>2 DEF Within
  <2> QED  BY <2>1, <2>2
<1>4. Within(t, u, f, V)   BY <1>1, <1>3 DEF Within, Asking
<1> QED  BY <1>4 DEF t

(* A read's answer taken, before what it found is looked at.               *)
ReadTaken(s, t) ==
    /\ t.write = s.write /\ t.latest = s.latest /\ t.desired = s.desired
    /\ t.readAgain = s.readAgain /\ t.read = NoRead

LEMMA ReadTakenFaithful ==
    ASSUME NEW s, NEW t, NEW f, NEW news, Faithful(s, f, news), ReadTaken(s, t), Merging(s, t)
    PROVE  /\ Stored(t) /\ Served(t) /\ Clean(t, f) /\ Stale(t, f, news) /\ Apart(t, f) /\ Seen(t, f)
           /\ f # Broken => Chain(t, f)
<1>1. t.read.step = "none" /\ t.read.outcome = "none" /\ t.read.found = NoFile
  BY DEF ReadTaken, NoRead
<1>2. /\ Stored(t) = Stored(s) /\ Pending(t) = Pending(s)
      /\ Knows(t, f) = Knows(s, f) /\ Becomes(t, f) = Becomes(s, f)
  BY MergingAlike
<1>3. Served(t)   BY <1>1 DEF Faithful, Served, ReadTaken, Writing
<1>4. Clean(t, f)   BY <1>1 DEF Faithful, Clean, Conditional, ReadTaken, Merging, Found
<1>5. Stale(t, f, news) /\ Apart(t, f)
  BY <1>1 DEF Faithful, Stale, Apart, ReadTaken, Writing
<1>6. Seen(t, f)
  <2>1. ASSUME NEW u \in Units, NEW V, Within(s, u, f, V) PROVE Within(t, u, f, V)
    BY <1>1, <2>1, NoFileIsDefault DEF Within, ReadTaken, Merging
  <2>2. Seen(s, f)   BY DEF Faithful
  <2> QED  BY <1>2, <2>1, <2>2 DEF Seen, Alien, ReadTaken
<1>7. ASSUME f # Broken PROVE Chain(t, f)
  <2>1. Chain(s, f)   BY <1>7 DEF Faithful
  <2> QED  BY <1>1, <1>2, <2>1 DEF Chain, Found, ReadTaken, Merging
<1> QED  BY <1>2, <1>3, <1>4, <1>5, <1>6, <1>7 DEF Faithful

(* What a read's answer is, once heard: nothing that lasts, or a file that *)
(* moved.                                                                  *)
LEMMA OnReadEffect ==
    ASSUME NEW P, NEW s \in DocumentState(P)
    PROVE  \/ /\ s.read.outcome # "found"
              /\ ReadTaken(s, OnRead(s)) /\ Merging(s, OnRead(s))
              /\ OnRead(s).unread = (s.unread \/ s.read.outcome \in {"unobtained", "failed"})
           \/ /\ s.read.outcome = "found"
              /\ FoliosOwn(s, s.read.found) \/ (~s.held /\ s.read.found = Broken)
              /\ ReadTaken(s, OnRead(s)) /\ Merging(s, OnRead(s))
           \/ /\ s.read.outcome = "found" /\ ~FoliosOwn(s, s.read.found)
              /\ s.held \/ s.read.found # Broken
              /\ \E a \in DocumentState(P) :
                    /\ ReadTaken(s, a) /\ Merging(s, a)
                    /\ OnRead(s) = IF s.held
                                   THEN [Keep(a, Moved(a, s.read.found)) EXCEPT
                                             !.revision = s.read.found]
                                   ELSE Keep(a, Moved(a, s.read.found))
<1> DEFINE after == [s EXCEPT !.read = NoRead, !.heard = @ \/ s.read.outcome # "failed"]
           now   == [after EXCEPT !.unread = FALSE]
           ever  == [after EXCEPT !.unread = @ \/ s.read.outcome \in {"unobtained", "failed"}]
           c     == s.read.found
<1>1. now \in DocumentState(P) /\ ReadTaken(s, now) /\ Merging(s, now) /\ now.held = s.held
  BY NothingAsked DEF DocumentState, ReadTaken, Merging
<1>2. ReadTaken(s, ever) /\ Merging(s, ever)
      /\ ever.unread = (s.unread \/ s.read.outcome \in {"unobtained", "failed"})
  BY DEF DocumentState, ReadTaken, Merging
<1>3. OnRead(s) = IF s.read.outcome = "found" THEN OnFound(now, c) ELSE ever
  BY DEF OnRead
<1>4. FoliosOwn(now, c) = FoliosOwn(s, c)
  BY <1>1 DEF FoliosOwn, Writing, ReadTaken, Merging
<1> HIDE DEF now, ever, c
<1>5. /\ FoliosOwn(s, c) \/ (~s.held /\ c = Broken) => OnFound(now, c) = now
      /\ ~FoliosOwn(s, c) /\ (s.held \/ c # Broken) =>
             OnFound(now, c) = IF s.held THEN [Keep(now, Moved(now, c)) EXCEPT !.revision = c]
                               ELSE Keep(now, Moved(now, c))
  BY <1>1, <1>4 DEF OnFound
<1> QED  BY <1>1, <1>2, <1>3, <1>5 DEF c

LEMMA MovedIs ==
    ASSUME NEW s, NEW c
    PROVE  /\ Moved(s, c).base = s.revision /\ Moved(s, c).theirs = c
           /\ Moved(s, c).kept = None /\ Moved(s, c).written = Default
BY DEF Moved

LEMMA OnReadWithin ==
    ASSUME NEW P, NEW s \in DocumentState(P), NEW u \in Units, NEW f, NEW V, Within(s, u, f, V),
           s.read.step = "answered"
    PROVE  \/ Within(OnRead(s), u, f, V)
           \/ OnRead(s).revision = f /\ s.read.found = f /\ Parse(f)[u] \notin V
<1> DEFINE c == s.read.found
           t == OnRead(s)
<1>1. ASSUME NEW a, ReadTaken(s, a), Merging(s, a) PROVE Within(a, u, f, V)
  BY <1>1, NoFileIsDefault DEF Within, ReadTaken, Merging, NoRead
<1>2. CASE ReadTaken(s, t) /\ Merging(s, t)   BY <1>1, <1>2
<1>3. ASSUME NEW a \in DocumentState(P), ReadTaken(s, a), Merging(s, a),
             t = IF s.held THEN [Keep(a, Moved(a, c)) EXCEPT !.revision = c]
                 ELSE Keep(a, Moved(a, c))
      PROVE  Within(t, u, f, V) \/ (t.revision = f /\ c = f /\ Parse(f)[u] \notin V)
  <2> DEFINE m == Moved(a, c)
             k == Keep(a, m)
  <2>1. c \in Contents   BY DEF DocumentState, Reads
  <2>2. m \in Merges(P)   BY <1>3, <2>1, MovedTyped
  <2>3. Within(a, u, f, V)   BY <1>1, <1>3
  <2>4. m.written[u] \in V /\ Parse(m.base)[u] \in V /\ (m.theirs = f \/ Parse(m.theirs)[u] \in V)
    BY <2>3, MovedIs, NoFileIsDefault DEF Within, Merging, ReadTaken
  <2>5. Within(k, u, f, V)
    <3> HIDE DEF m
    <3> QED  BY <1>3, <2>2, <2>3, <2>4, KeepWithin, MovedIs DEF m
  <2>6. k \in DocumentState(P)   BY <1>3, <2>2, KeepTyped
  <2> HIDE DEF k, m
  <2>7. CASE ~s.held   BY <1>3, <2>5, <2>7 DEF k, m
  <2>8. CASE s.held
    <3>1. t = [k EXCEPT !.revision = c]   BY <1>3, <2>8 DEF k, m
    <3>2. CASE Parse(c)[u] \notin V
      <4>1. c = f   BY <3>2 DEF Within
      <4> QED  BY <2>6, <3>1, <3>2, <4>1 DEF DocumentState
    <3>3. CASE Parse(c)[u] \in V
      <4> QED  BY <2>5, <2>6, <3>1, <3>3 DEF Within, DocumentState
    <3> QED  BY <3>2, <3>3
  <2> QED  BY <2>7, <2>8
<1> QED  BY <1>2, <1>3, OnReadEffect

(* The answer to a read asked before the write on its way, or of a store   *)
(* that writes nothing: what it found is the last of what waits, unless it *)
(* is what Folio left.                                                     *)
LEMMA OnReadFaithful ==
    ASSUME NEW P, NEW s \in DocumentState(P), NEW f \in Contents, NEW news, Faithful(s, f, news),
           s.read.step = "answered", s.latest = "read" => ~Writing(s)
    PROVE  Faithful(OnRead(s), f, news)
<1> DEFINE c == s.read.found
           t == OnRead(s)
<1>a. /\ Stored(s) /\ Served(s) /\ Clean(s, f) /\ Stale(s, f, news)
      /\ f # Broken => Chain(s, f) /\ Tracked(s, f, news)
      /\ Apart(s, f) /\ Seen(s, f)
  BY DEF Faithful
<1>b. s.latest = "read" => ~OnDisk(s.write) /\ ~MovedTo(s.write)   BY DEF OnDisk, MovedTo, Writing
<1>l. s.latest \in {"read", "write"}   BY DEF DocumentState
<1>1. CASE ReadTaken(s, t) /\ Merging(s, t)
           /\ (f # Broken => Tracked(t, f, news))
  BY <1>1, ReadTakenFaithful DEF Faithful
<1>2. CASE s.read.outcome # "found" /\ ReadTaken(s, t) /\ Merging(s, t)
           /\ t.unread = (s.unread \/ s.read.outcome \in {"unobtained", "failed"})
  <2>1. s.read.outcome \in {"raced", "unobtained", "failed"}
    <3>1. s.read.outcome \in {"none", "found", "raced", "unobtained", "failed"}
      BY DEF DocumentState, Reads
    <3> QED  BY <1>a, <1>2, <3>1 DEF Served
  <2>2. Becomes(t, f) = Becomes(s, f)   BY <1>2, MergingAlike
  <2>3. s.read.outcome = "raced" => news \/ s.readAgain   BY <1>a DEF Stale
  <2>4. ASSUME f # Broken PROVE Tracked(t, f, news)
    <3>1. Tracked(s, f, news)   BY <1>a, <2>4
    <3> HIDE DEF t
    <3> QED  BY <1>b, <1>2, <2>1, <2>2, <2>3, <3>1 DEF Tracked, WillRead, ReadTaken
  <2> QED  BY <1>1, <1>2, <2>4
<1>3. CASE /\ s.read.outcome = "found"
           /\ FoliosOwn(s, c) \/ (~s.held /\ c = Broken)
           /\ ReadTaken(s, t) /\ Merging(s, t)
  <2>1. Becomes(t, f) = Becomes(s, f)   BY <1>3, MergingAlike
  <2>2. ASSUME f # Broken PROVE Tracked(t, f, news)
    <3>1. Tracked(s, f, news) /\ Chain(s, f)   BY <1>a, <2>2
    <3>2. c # f => news \/ s.readAgain   BY <1>3, <1>a DEF Stale, Found
    <3>3. c = f => Becomes(s, f) \/ OnDisk(s.write)
      <4>1. c = f => FoliosOwn(s, c)   BY <1>3, <2>2
      <4>2. s.revision = f => Becomes(s, f)   BY <3>1 DEF Chain
      <4>3. Writing(s) /\ s.write.document = f => OnDisk(s.write)   BY <1>a DEF Apart
      <4> QED  BY <4>1, <4>2, <4>3 DEF FoliosOwn
    <3>4. c = f /\ Knows(s, f) /\ MovedTo(s.write) => s.write.theirs = f   BY <3>1 DEF Chain
    <3>5. Becomes(s, f) => Knows(s, f)   BY DEF Becomes, Knows, Pending
    <3> HIDE DEF t, c
    <3> QED  BY <1>b, <1>3, <2>1, <3>1, <3>2, <3>3, <3>4, <3>5 DEF Tracked, WillRead, ReadTaken
  <2> QED  BY <1>1, <1>3, <2>2
<1>4. ASSUME s.read.outcome = "found", ~FoliosOwn(s, c), s.held \/ c # Broken,
             NEW a \in DocumentState(P), ReadTaken(s, a), Merging(s, a),
             t = IF s.held THEN [Keep(a, Moved(a, c)) EXCEPT !.revision = c]
                 ELSE Keep(a, Moved(a, c))
      PROVE  Faithful(t, f, news)
  <2> DEFINE m == Moved(a, c)
             k == Keep(a, m)
  <2>1. c \in Contents   BY DEF DocumentState, Reads
  <2>2. m \in Merges(P) /\ m.base = a.revision /\ m.theirs = c /\ m.kept = None
    BY <1>4, <2>1, MovedTyped, MovedIs
  <2>3. k \in DocumentState(P)   BY <1>4, <2>2, KeepTyped
  <2>4. /\ Stored(a) /\ Served(a) /\ Clean(a, f) /\ Stale(a, f, news) /\ Apart(a, f) /\ Seen(a, f)
        /\ f # Broken => Chain(a, f)
    BY <1>4, ReadTakenFaithful
  <2>5. /\ k.held = TRUE /\ k.revision = a.revision /\ k.unmerged = a.unmerged
        /\ k.desired = a.desired /\ Asking(a, k)
    <3> HIDE DEF m
    <3> QED  BY <1>4, <2>2, KeepEffect
  <2>6. /\ Stored(k)
        /\ c = Broken => \E i \in 1..Len(k.merges) : Waits(k.merges[i])
    <3>1. c = Broken => a.revision # Broken   BY <1>4 DEF FoliosOwn, Merging
    <3> HIDE DEF m
    <3> QED  BY <1>4, <2>2, <2>4, <3>1, KeepStored
  <2>7. ASSUME f # Broken
        PROVE  /\ c # Broken => Becomes(k, c)
               /\ \A i \in Pending(k) : k.merges[i].theirs = f => Knows(a, f) \/ c = f
               /\ /\ \A i \in Pending(a) : \A j \in Pending(a) :
                         a.merges[i].theirs = f /\ i =< j => a.merges[j].theirs = f
                  /\ Knows(a, f) => c = f
                  => \A i \in Pending(k) : \A j \in Pending(k) :
                         k.merges[i].theirs = f /\ i =< j => k.merges[j].theirs = f
    <3> HIDE DEF m
    <3> QED  BY <1>4, <2>2, <2>7, MovedIsLast
  <2>8. \* t is k, and so is its revision unless s is held
        /\ t.merges = k.merges /\ t.unmerged = k.unmerged /\ t.held = TRUE
        /\ t.desired = s.desired /\ ReadTaken(s, t) /\ t.unread = a.unread
        /\ t.revision = IF s.held THEN c ELSE s.revision
    <3> HIDE DEF m
    <3>1. t = IF s.held THEN [k EXCEPT !.revision = c] ELSE k   BY <1>4 DEF m
    <3> HIDE DEF k, t, c
    <3>2. CASE s.held
      <4>1. t = [k EXCEPT !.revision = c]   BY <3>1, <3>2
      <4>2. k.held = TRUE /\ ReadTaken(s, k) /\ k.unread = a.unread
        BY <1>4, <2>5 DEF ReadTaken, Asking
      <4> QED  BY <2>3, <3>2, <4>1, <4>2 DEF DocumentState, ReadTaken
    <3>3. CASE ~s.held
      BY <1>4, <2>5, <3>1, <3>3 DEF ReadTaken, Asking, Merging
    <3> QED  BY <3>2, <3>3
  <2> HIDE DEF k, m
  <2>9. t.read.step = "none"   BY <2>8 DEF ReadTaken, NoRead
  <2>10. Pending(t) = Pending(k)   BY <2>8 DEF Pending
  <2>11. Stored(t)
    <3>1. \A i \in 1..Len(t.unmerged) : t.unmerged[i].theirs = Broken   BY <2>6, <2>8 DEF Stored
    <3>2. t.revision = Broken => \/ \E i \in 1..Len(t.merges) : Waits(t.merges[i])
                                 \/ \E i \in 1..Len(t.unmerged) : Waits(t.unmerged[i])
      BY <1>4, <2>5, <2>6, <2>8 DEF Stored, Merging
    <3> QED  BY <2>8, <3>1, <3>2 DEF Stored
  <2>12. Served(t)   BY <1>a, <2>8, <2>9 DEF Served, ReadTaken, Writing
  <2>13. ~Conditional(s, f)
    <3>1. SUFFICES ASSUME Conditional(s, f) PROVE FALSE
      OBVIOUS
    <3>2. Writing(s)   BY <3>1 DEF Conditional, Writing, OnDisk
    <3>3. s.latest = "write"   BY <1>l, <3>2
    <3>4. c = s.revision   BY <1>4, <1>a, <3>1, <3>3 DEF Clean, Found
    <3> QED  BY <1>4, <3>4 DEF FoliosOwn
  <2>14. Clean(t, f)   BY <1>a, <2>8, <2>13 DEF Clean, Conditional, ReadTaken
  <2>15. Stale(t, f, news)   BY <2>9 DEF Stale
  <2>16. Apart(t, f)   BY <1>a, <2>8 DEF Apart, ReadTaken, Writing
  <2>17. Chain(s, f) /\ f # Broken => (Knows(a, f) => c = f)
    <3>1. Knows(a, f) = Knows(s, f)   BY <1>4, MergingAlike
    <3> QED  BY <1>4, <3>1 DEF Chain, Found
  <2>18. f # Broken /\ c = f => Becomes(t, f)
    <3>1. SUFFICES ASSUME f # Broken, c = f PROVE Becomes(t, f)
      OBVIOUS
    <3>2. Becomes(k, f)   BY <2>7, <3>1
    <3>3. CASE Pending(k) = {}
      <4>1. k.revision = f   BY <3>2, <3>3 DEF Becomes
      <4> QED  BY <1>4, <2>5, <2>8, <2>10, <3>1, <3>3, <4>1 DEF Becomes, Merging
    <3>4. CASE Pending(k) # {}
      BY <2>8, <2>10, <3>2, <3>4 DEF Becomes
    <3> QED  BY <3>3, <3>4
  <2>19. ASSUME f # Broken PROVE Chain(t, f)
    <3>1. Chain(s, f) /\ Chain(a, f)   BY <1>a, <2>4, <2>19
    <3>2. Knows(a, f) => c = f   BY <2>17, <2>19, <3>1
    <3>3. t.revision = f => c = f
      <4>1. ~s.held => t.revision = a.revision   BY <1>4, <2>8 DEF Merging
      <4> QED  BY <2>8, <3>2, <4>1 DEF Knows
    <3>4. t.revision = f => Becomes(t, f)   BY <2>18, <2>19, <3>3
    <3>5. \A i \in Pending(t) : \A j \in Pending(t) :
              t.merges[i].theirs = f /\ i =< j => t.merges[j].theirs = f
      <4>1. \A i \in Pending(a) : \A j \in Pending(a) :
                a.merges[i].theirs = f /\ i =< j => a.merges[j].theirs = f
        BY <3>1 DEF Chain
      <4> QED  BY <2>7, <2>8, <2>10, <2>19, <3>2, <4>1
    <3>6. Knows(t, f) => c = f   BY <2>7, <2>8, <2>10, <2>19, <3>2, <3>3 DEF Knows
    <3>7. c = f /\ MovedTo(s.write) => s.write.theirs = f
      <4>1. MovedTo(s.write) => s.latest = "write"   BY <1>b, <1>l
      <4> QED  BY <1>4, <3>1, <4>1 DEF Chain, Found
    <3> QED  BY <2>8, <2>9, <3>4, <3>5, <3>6, <3>7 DEF Chain, ReadTaken, Found
  <2>20. ASSUME f # Broken PROVE Tracked(t, f, news)
    <3>1. Tracked(s, f, news)   BY <1>a, <2>20
    <3>2. c # f => news \/ s.readAgain   BY <1>4, <1>a DEF Stale, Found
    <3> HIDE DEF t, c
    <3> QED  BY <1>b, <2>8, <2>18, <2>20, <3>1, <3>2 DEF Tracked, ReadTaken
  <2>21. Seen(t, f)
    <3>1. SUFFICES ASSUME f \in Document
                   PROVE  \/ Becomes(t, f) \/ (OnDisk(t.write) /\ t.write.document = f)
                          \/ \E u \in Units : Alien(t, f, u)
      BY DEF Seen
    <3>2. f # Broken   BY <3>1, DocumentsParse
    <3>3. c = f => Becomes(t, f)   BY <2>18, <3>2
    <3>4. CASE Becomes(s, f)
      <4>1. Becomes(s, f) => Knows(s, f)   BY DEF Becomes, Knows, Pending
      <4>2. Knows(a, f)   BY <1>4, <3>4, <4>1, MergingAlike
      <4>3. c = f   BY <1>a, <2>17, <3>2, <4>2
      <4> QED  BY <3>3, <4>3
    <3>5. CASE OnDisk(s.write) /\ s.write.document = f   BY <2>8, <3>5 DEF ReadTaken
    <3>6. ASSUME NEW u \in Units, Alien(s, f, u) PROVE Becomes(t, f) \/ Alien(t, f, u)
      <4>1. Within(t, u, f, Nat \ {f[u]}) \/ c = f   BY <3>6, OnReadWithin DEF Alien
      <4> QED  BY <3>3, <4>1 DEF Alien
    <3> QED  BY <1>a, <3>1, <3>4, <3>5, <3>6 DEF Seen
  <2> QED  BY <2>11, <2>12, <2>14, <2>15, <2>16, <2>19, <2>20, <2>21 DEF Faithful
<1> QED  BY <1>2, <1>3, <1>4, OnReadEffect

(* A write's answer taken, before what it says is looked at.               *)
WriteTaken(s, t) ==
    /\ t.read = s.read /\ t.latest = s.latest /\ t.desired = s.desired
    /\ t.readAgain = s.readAgain /\ t.unread = s.unread /\ t.write = NoWrite

Displaced(w) ==
    [base |-> w.base, theirs |-> w.theirs, kept |-> w.left, written |-> w.document]

LEMMA OnDocumentEffect ==
    ASSUME NEW P, NEW s \in DocumentState(P), s.write.outcome # "none"
    PROVE  LET t == OnDocument(s)
           IN  /\ WriteTaken(s, t)
               /\ \/ /\ s.write.outcome = "landed" /\ t.revision = s.write.document
                     /\ t.held = s.held /\ t.merges = s.merges /\ t.unmerged = s.unmerged
                  \/ /\ s.write.outcome = "displaced"
                     /\ \E a \in DocumentState(P) :
                           /\ WriteTaken(s, a) /\ Merging(s, a)
                           /\ t.merges = Keep(a, Displaced(s.write)).merges
                           /\ t.held = TRUE /\ t.unmerged = s.unmerged
                           /\ t.revision = s.write.document
                  \/ /\ s.write.outcome = "moved"
                     /\ \E a \in DocumentState(P) :
                           /\ WriteTaken(s, a) /\ Merging(s, a)
                           /\ t = Keep(a, Moved(a, s.write.theirs))
                  \/ /\ s.write.outcome \in {"raced", "refused"} /\ Merging(s, t)
<1> DEFINE w == s.write
           t == OnDocument(s)
           after == [s EXCEPT !.write = NoWrite, !.kept = {k \in @ : k.path \notin w.retired}]
           onDisk(x) == [x EXCEPT !.revision = w.document, !.placed = w.carries, !.landed = TRUE]
           obliged(x) == IF w.left = None THEN x
                         ELSE [x EXCEPT
                                  !.kept = @ \cup {[path |-> w.left, version |-> w.version + 1]},
                                  !.carries = @ \cup {w.left}]
<1>1. w \in Writes(P)   BY DEF DocumentState
<1>2. after \in DocumentState(P)   BY NothingAsked DEF DocumentState
<1>3. WriteTaken(s, after) /\ Merging(s, after)   BY DEF DocumentState, WriteTaken, Merging
<1>4. ASSUME NEW x \in DocumentState(P), WriteTaken(s, x)
      PROVE  /\ WriteTaken(s, onDisk(x)) /\ onDisk(x).revision = w.document
             /\ onDisk(x).held = x.held /\ onDisk(x).merges = x.merges
             /\ onDisk(x).unmerged = x.unmerged /\ onDisk(x) \in DocumentState(P)
  BY <1>1, <1>4 DEF DocumentState, Writes, Contents, WriteTaken
<1>5. ASSUME NEW x \in DocumentState(P), WriteTaken(s, x)
      PROVE  WriteTaken(s, obliged(x)) /\ Merging(x, obliged(x))
  BY <1>5 DEF DocumentState, WriteTaken, Merging
<1>6. t = CASE w.outcome = "landed"    -> obliged(onDisk(after))
            [] w.outcome = "displaced" -> onDisk(Keep(after, Displaced(w)))
            [] w.outcome = "moved"     -> Keep(after, Moved(s, w.theirs))
            [] w.outcome = "raced"     -> after
            [] w.outcome = "refused"   -> Refused(after)
  BY DEF OnDocument, Displaced
<1>7. w.outcome \in {"landed", "displaced", "moved", "raced", "refused"}   BY <1>1 DEF Writes
<1>8. Displaced(w) \in Merges(P)   BY <1>1 DEF Writes, Merges, Displaced
<1>9. Moved(after, w.theirs) = Moved(s, w.theirs)   BY <1>3 DEF Moved, Merging
<1>10. Moved(after, w.theirs) \in Merges(P)   BY <1>1, <1>2, MovedTyped DEF Writes
<1> HIDE DEF w, t, after, onDisk, obliged
<1>11. ASSUME NEW m \in Merges(P)
       PROVE  /\ WriteTaken(s, Keep(after, m)) /\ Keep(after, m) \in DocumentState(P)
              /\ Keep(after, m).unmerged = s.unmerged /\ Keep(after, m).held = TRUE
  <2>1. Keep(after, m) \in DocumentState(P)   BY <1>2, KeepTyped
  <2>2. /\ Keep(after, m).held = TRUE /\ Keep(after, m).unmerged = after.unmerged
        /\ Keep(after, m).desired = after.desired /\ Asking(after, Keep(after, m))
    BY <1>2, KeepEffect
  <2>3. WriteTaken(s, Keep(after, m))   BY <1>3, <2>2 DEF WriteTaken, Asking
  <2> QED  BY <1>3, <2>1, <2>2, <2>3 DEF Merging
<1>12. CASE w.outcome = "landed"
  <2>1. t = obliged(onDisk(after))   BY <1>6, <1>12
  <2>2. /\ WriteTaken(s, onDisk(after)) /\ onDisk(after) \in DocumentState(P)
        /\ onDisk(after).revision = w.document /\ onDisk(after).held = s.held
        /\ onDisk(after).merges = s.merges /\ onDisk(after).unmerged = s.unmerged
    BY <1>2, <1>3, <1>4 DEF Merging
  <2>3. WriteTaken(s, t) /\ Merging(onDisk(after), t)   BY <1>5, <2>1, <2>2
  <2> QED  BY <1>12, <2>2, <2>3 DEF Merging, w, t
<1>13. CASE w.outcome = "displaced"
  <2> DEFINE k == Keep(after, Displaced(w))
  <2>1. t = onDisk(k)   BY <1>6, <1>13
  <2>2. /\ WriteTaken(s, k) /\ k \in DocumentState(P)
        /\ k.unmerged = s.unmerged /\ k.held = TRUE
    BY <1>8, <1>11
  <2> HIDE DEF k
  <2>3. /\ WriteTaken(s, t) /\ t.revision = w.document /\ t.held = TRUE
        /\ t.merges = k.merges /\ t.unmerged = s.unmerged
    BY <1>4, <2>1, <2>2
  <2>4. \E a \in DocumentState(P) :
            /\ WriteTaken(s, a) /\ Merging(s, a) /\ t.merges = Keep(a, Displaced(w)).merges
    BY <1>2, <1>3, <2>3 DEF k
  <2> QED  BY <1>13, <2>3, <2>4 DEF w, t
<1>14. CASE w.outcome = "moved"
  <2>1. t = Keep(after, Moved(after, w.theirs))   BY <1>6, <1>9, <1>14
  <2>2. WriteTaken(s, t)   BY <1>10, <1>11, <2>1
  <2> QED  BY <1>2, <1>3, <1>14, <2>1, <2>2 DEF w, t
<1>15. CASE w.outcome = "raced"
  BY <1>3, <1>6, <1>15 DEF w, t
<1>16. CASE w.outcome = "refused"
  <2>1. t = Refused(after)   BY <1>6, <1>16
  <2>2. WriteTaken(s, t) /\ Merging(s, t)
    BY <1>2, <1>3, <2>1 DEF Refused, DocumentState, WriteTaken, Merging
  <2> QED  BY <1>16, <2>2 DEF w, t
<1> QED  BY <1>7, <1>12, <1>13, <1>14, <1>15, <1>16

LEMMA OnDocumentWithin ==
    ASSUME NEW P, NEW s \in DocumentState(P), s.write.outcome # "none",
           NEW u \in Units, NEW f, NEW V, Within(s, u, f, V)
    PROVE  Within(OnDocument(s), u, f, V)
<1> DEFINE t == OnDocument(s)
           w == s.write
<1>1. WriteTaken(s, t)   BY OnDocumentEffect
<1>2. w \in Writes(P)   BY DEF DocumentState
<1>3. /\ t.desired[u] \in V /\ 0 \in V
      /\ t.write.document[u] \in V /\ Parse(t.write.base)[u] \in V
      /\ Parse(t.write.theirs)[u] \in V
      /\ t.read.found = f \/ Parse(t.read.found)[u] \in V
  BY <1>1, NoFileIsDefault DEF Within, WriteTaken, NoWrite
<1>4. ASSUME NEW a, WriteTaken(s, a), Merging(s, a) PROVE Within(a, u, f, V)
  BY <1>4, NoFileIsDefault DEF Within, WriteTaken, Merging, NoWrite
<1>5. w.document \in Document /\ Parse(w.document) = w.document
  BY <1>2, DocumentsParse DEF Writes
<1> HIDE DEF t
<1>6. ASSUME w.outcome = "landed", t.revision = w.document, t.merges = s.merges
      PROVE  Within(t, u, f, V)
  <2>1. Parse(t.revision)[u] \in V   BY <1>5, <1>6 DEF Within
  <2> QED  BY <1>3, <1>6, <2>1 DEF Within
<1>7. ASSUME w.outcome = "displaced", NEW a \in DocumentState(P), WriteTaken(s, a), Merging(s, a),
             t.merges = Keep(a, Displaced(w)).merges, t.revision = w.document
      PROVE  Within(t, u, f, V)
  <2>1. Displaced(w) \in Merges(P)   BY <1>2 DEF Writes, Merges, Displaced
  <2>2. /\ Displaced(w).written[u] \in V /\ Parse(Displaced(w).base)[u] \in V
        /\ Parse(Displaced(w).theirs)[u] \in V
    BY <1>7 DEF Within, Displaced
  <2>3. Within(Keep(a, Displaced(w)), u, f, V)   BY <1>4, <1>7, <2>1, <2>2, KeepWithin
  <2>4. Parse(t.revision)[u] \in V   BY <1>5, <1>7 DEF Within
  <2> QED  BY <1>3, <1>7, <2>3, <2>4 DEF Within
<1>8. ASSUME w.outcome = "moved", NEW a \in DocumentState(P), WriteTaken(s, a), Merging(s, a),
             t = Keep(a, Moved(a, w.theirs))
      PROVE  Within(t, u, f, V)
  <2>1. Moved(a, w.theirs) \in Merges(P)   BY <1>2, <1>8, MovedTyped DEF Writes
  <2>2. Within(a, u, f, V)   BY <1>4, <1>8
  <2>3. LET m == Moved(a, w.theirs)
        IN  /\ m.written[u] \in V /\ Parse(m.base)[u] \in V
            /\ (m.kept = None /\ m.theirs = f) \/ Parse(m.theirs)[u] \in V
    BY <2>2, MovedIs, NoFileIsDefault DEF Within
  <2> QED  BY <1>8, <2>1, <2>2, <2>3, KeepWithin
<1> QED  BY <1>4, <1>6, <1>7, <1>8, OnDocumentEffect DEF t

LEMMA BecomesKnown ==
    ASSUME NEW s, NEW c, Becomes(s, c)
    PROVE  Knows(s, c)
BY DEF Becomes, Knows, Pending

(* What the answer to a write leaves: nothing of it is on its way.         *)
LEMMA WriteTakenFaithful ==
    ASSUME NEW s, NEW t, NEW f, NEW news, Faithful(s, f, news), WriteTaken(s, t)
    PROVE  /\ Served(t) /\ Clean(t, f) /\ Stale(t, f, news) /\ Apart(t, f)
           /\ ~OnDisk(t.write) /\ ~MovedTo(t.write)
<1>1. t.write.step = "none" /\ t.write.outcome = "none"   BY DEF WriteTaken, NoWrite
<1>2. Served(t)   BY <1>1 DEF Faithful, Served, WriteTaken, Writing
<1>3. Clean(t, f) /\ Apart(t, f)   BY <1>1 DEF Clean, Conditional, OnDisk, Apart, Writing
<1>4. Stale(t, f, news)   BY DEF Faithful, Stale, WriteTaken
<1> QED  BY <1>1, <1>2, <1>3, <1>4 DEF OnDisk, MovedTo

(* What a landed write leaves: the revision is what it placed.             *)
LEMMA LandedFaithful ==
    ASSUME NEW P, NEW s \in DocumentState(P), NEW f \in Contents, NEW news, Faithful(s, f, news),
           NEW t, WriteTaken(s, t), OnDisk(s.write), s.latest = "write" => ~Reading(s),
           \A u \in Units : \A V : Within(s, u, f, V) => Within(t, u, f, V),
           t.revision = s.write.document, Pending(t) = {}, t.unmerged = <<>>,
           t.merges # <<>> => t.held
    PROVE  Faithful(t, f, news)
<1>1. ~s.held /\ s.revision = s.write.base /\ f # s.write.base
  BY DEF Faithful, Clean, Conditional
<1>2. s.write.document \in Document   BY DEF DocumentState, Writes
<1>3. s.merges = <<>> /\ s.unmerged = <<>>   BY <1>1 DEF Faithful, Stored
<1>4. Served(t) /\ Clean(t, f) /\ Stale(t, f, news) /\ Apart(t, f)
      /\ ~OnDisk(t.write) /\ ~MovedTo(t.write)
  BY WriteTakenFaithful
<1>5. Stored(t)
  <2>1. t.revision # Broken   BY <1>2, DocumentsParse
  <2> QED  BY <2>1 DEF Stored
<1>6. /\ Becomes(t, f) = (t.revision = f) /\ Knows(t, f) = (t.revision = f)
  BY DEF Becomes, Knows
<1>7. ASSUME f # Broken PROVE Chain(t, f) /\ Tracked(t, f, news)
  <2>1. Chain(s, f) /\ Tracked(s, f, news)   BY <1>7 DEF Faithful
  <2>2. Found(s.read) => s.latest = "read"
    <3>1. s.latest \in {"read", "write"}   BY DEF DocumentState
    <3> QED  BY <3>1 DEF Found, Reading
  <2>3. Chain(t, f)
    BY <1>4, <1>6, <2>1, <2>2 DEF Chain, WriteTaken
  <2>4. Tracked(t, f, news)
    <3>1. ~MovedTo(s.write)   BY DEF OnDisk, MovedTo
    <3> QED  BY <1>4, <1>6, <2>1, <3>1 DEF Tracked, WriteTaken, WillRead
  <2> QED  BY <2>3, <2>4
<1>8. Seen(t, f)
  <2>1. ~Becomes(s, f)
    <3>1. Pending(s) = {}   BY <1>3 DEF Pending
    <3> QED  BY <1>1, <3>1 DEF Becomes
  <2>2. Seen(s, f)   BY DEF Faithful
  <2>3. ASSUME NEW u \in Units, Alien(s, f, u) PROVE Alien(t, f, u)   BY <2>3 DEF Alien
  <2>4. s.write.document = f => Becomes(t, f)   BY <1>6
  <2> QED  BY <2>1, <2>2, <2>3, <2>4 DEF Seen
<1> QED  BY <1>4, <1>5, <1>7, <1>8 DEF Faithful

(* What a write that found the file moved leaves: the file is the last of  *)
(* what waits.                                                             *)
LEMMA MovedFaithful ==
    ASSUME NEW P, NEW s \in DocumentState(P), NEW f \in Contents, NEW news, Faithful(s, f, news),
           NEW a \in DocumentState(P), WriteTaken(s, a), Merging(s, a),
           MovedTo(s.write), s.latest = "write" => ~Reading(s),
           NEW m \in Merges(P), m.kept = None, m.base = s.revision, m.theirs = s.write.theirs,
           \A u \in Units : \A V : Within(s, u, f, V) => Within(Keep(a, m), u, f, V)
    PROVE  Faithful(Keep(a, m), f, news)
<1> DEFINE t == Keep(a, m)
<1>1. /\ t.held = TRUE /\ t.revision = a.revision /\ t.unmerged = a.unmerged
      /\ t.desired = a.desired /\ Asking(a, t)
  BY KeepEffect
<1>2. WriteTaken(s, t)   BY <1>1 DEF WriteTaken, Asking
<1>3. Served(t) /\ Clean(t, f) /\ Stale(t, f, news) /\ Apart(t, f)
      /\ ~OnDisk(t.write) /\ ~MovedTo(t.write)
  BY <1>2, WriteTakenFaithful
<1>4. Stored(a) /\ Pending(a) = Pending(s) /\ Knows(a, f) = Knows(s, f)
  BY MergingAlike DEF Faithful
<1>5. Stored(t)
  <2>1. m.base = a.revision   BY DEF Merging
  <2> QED  BY <1>4, <2>1, KeepStored
<1>6. ASSUME f # Broken
      PROVE  /\ m.theirs = f => Becomes(t, f)
             /\ \A i \in Pending(t) : t.merges[i].theirs = f => Knows(a, f) \/ m.theirs = f
             /\ /\ \A i \in Pending(a) : \A j \in Pending(a) :
                       a.merges[i].theirs = f /\ i =< j => a.merges[j].theirs = f
                /\ Knows(a, f) => m.theirs = f
                => \A i \in Pending(t) : \A j \in Pending(t) :
                       t.merges[i].theirs = f /\ i =< j => t.merges[j].theirs = f
  BY <1>6, MovedIsLast
<1> HIDE DEF t
<1>7. ~OnDisk(s.write)   BY DEF OnDisk, MovedTo
<1>8. ASSUME f # Broken PROVE Chain(t, f) /\ Tracked(t, f, news)
  <2>1. Chain(s, f) /\ Tracked(s, f, news)   BY <1>8 DEF Faithful
  <2>2. Found(s.read) => s.latest = "read"
    <3>1. s.latest \in {"read", "write"}   BY DEF DocumentState
    <3> QED  BY <3>1 DEF Found, Reading
  <2>3. Knows(s, f) => m.theirs = f   BY <2>1 DEF Chain
  <2>4. Knows(t, f) => m.theirs = f
    BY <1>1, <1>4, <1>6, <1>8, <2>3 DEF Knows
  <2>5. t.revision = f => Becomes(t, f)
    BY <1>6, <1>8, <2>4 DEF Knows
  <2>6. \A i \in Pending(t) : \A j \in Pending(t) :
            t.merges[i].theirs = f /\ i =< j => t.merges[j].theirs = f
    <3>1. \A i \in Pending(a) : \A j \in Pending(a) :
              a.merges[i].theirs = f /\ i =< j => a.merges[j].theirs = f
      BY <1>4, <2>1 DEF Chain, Merging
    <3> QED  BY <1>4, <1>6, <1>8, <2>3, <3>1
  <2>7. Found(s.read) /\ m.theirs = f => s.read.found = f
    BY <2>1, <2>2 DEF Chain
  <2>8. Chain(t, f)
    BY <1>2, <1>3, <2>4, <2>5, <2>6, <2>7 DEF Chain, WriteTaken
  <2>9. Tracked(t, f, news)
    BY <1>2, <1>3, <1>6, <1>7, <1>8, <2>1 DEF Tracked, WriteTaken, WillRead
  <2> QED  BY <2>8, <2>9
<1>9. Seen(t, f)
  <2>1. SUFFICES ASSUME f \in Document
                 PROVE  Becomes(t, f) \/ \E u \in Units : Alien(t, f, u)
    BY DEF Seen
  <2>2. f # Broken /\ Chain(s, f)   BY <2>1, DocumentsParse DEF Faithful
  <2>3. Becomes(s, f) => Becomes(t, f)   BY <1>6, <2>2, BecomesKnown DEF Chain
  <2>4. Seen(s, f)   BY DEF Faithful
  <2> QED  BY <1>7, <2>1, <2>3, <2>4 DEF Seen, Alien, t
<1> QED  BY <1>3, <1>5, <1>8, <1>9 DEF Faithful, t

LEMMA OnDocumentFaithful ==
    ASSUME NEW P, NEW s \in DocumentState(P), NEW f \in Contents, NEW news, Faithful(s, f, news),
           s.write.step = "answered", s.write.outcome # "none", s.latest = "write" => ~Reading(s)
    PROVE  Faithful(OnDocument(s), f, news)
<1> DEFINE t == OnDocument(s)
           w == s.write
<1>0. \A u \in Units : \A V : Within(s, u, f, V) => Within(t, u, f, V)
  BY OnDocumentWithin
<1>1. w \in Writes(P)   BY DEF DocumentState
<1>2. /\ WriteTaken(s, t)
      /\ \/ /\ w.outcome = "landed" /\ t.revision = w.document
            /\ t.held = s.held /\ t.merges = s.merges /\ t.unmerged = s.unmerged
         \/ /\ w.outcome = "displaced"
            /\ \E a \in DocumentState(P) :
                  /\ WriteTaken(s, a) /\ Merging(s, a)
                  /\ t.merges = Keep(a, Displaced(w)).merges
                  /\ t.held = TRUE /\ t.unmerged = s.unmerged
                  /\ t.revision = w.document
         \/ /\ w.outcome = "moved"
            /\ \E a \in DocumentState(P) :
                  /\ WriteTaken(s, a) /\ Merging(s, a)
                  /\ t = Keep(a, Moved(a, w.theirs))
         \/ /\ w.outcome \in {"raced", "refused"} /\ Merging(s, t)
  BY OnDocumentEffect
<1> HIDE DEF t
<1>3. OnDisk(w) => s.merges = <<>> /\ s.unmerged = <<>>
  BY DEF Faithful, Clean, Conditional, Stored
<1>4. ASSUME w.outcome = "landed", t.revision = w.document, t.held = s.held, t.merges = s.merges,
             t.unmerged = s.unmerged
      PROVE  Faithful(t, f, news)
  <2>1. OnDisk(w)   BY <1>4 DEF OnDisk
  <2>2. t.merges = <<>> /\ Pending(t) = {} /\ t.unmerged = <<>>   BY <1>3, <1>4, <2>1 DEF Pending
  <2> QED  BY <1>0, <1>2, <1>4, <2>1, <2>2, LandedFaithful
<1>5. ASSUME w.outcome = "displaced", NEW a \in DocumentState(P), WriteTaken(s, a), Merging(s, a),
             t.merges = Keep(a, Displaced(w)).merges, t.held = TRUE, t.unmerged = s.unmerged,
             t.revision = w.document
      PROVE  Faithful(t, f, news)
  <2>1. OnDisk(w)   BY <1>5 DEF OnDisk
  <2>2. w.left # None   BY <1>5 DEF Faithful, Served
  <2>3. Displaced(w) \in Merges(P)   BY <1>1 DEF Writes, Merges, Displaced
  <2>4. PICK n \in Nat \ {0} : Keeps(a, Keep(a, Displaced(w)), Displaced(w), n)
    BY <2>3, KeepEffect
  <2>5. Len(t.merges) = 1 /\ t.merges[1] = Displaced(w)
    <3>1. Len(a.merges) = 0   BY <1>3, <1>5, <2>1 DEF Merging
    <3> QED  BY <1>5, <2>4, <3>1 DEF Keeps
  <2>6. Pending(t) = {}
    BY <2>2, <2>5 DEF Pending, Foldable, Displaced
  <2> QED  BY <1>0, <1>2, <1>3, <1>5, <2>1, <2>6, LandedFaithful
<1>6. ASSUME w.outcome = "moved", NEW a \in DocumentState(P), WriteTaken(s, a), Merging(s, a),
             t = Keep(a, Moved(a, w.theirs))
      PROVE  Faithful(t, f, news)
  <2> DEFINE m == Moved(a, w.theirs)
  <2>1. MovedTo(w)   BY <1>6 DEF MovedTo
  <2>2. m \in Merges(P) /\ m.kept = None /\ m.base = s.revision /\ m.theirs = w.theirs
    BY <1>1, <1>6, MovedTyped, MovedIs DEF Writes, Merging
  <2> HIDE DEF m
  <2>3. t = Keep(a, m)   BY <1>6 DEF m
  <2> QED  BY <1>0, <1>6, <2>1, <2>2, <2>3, MovedFaithful
<1>7. ASSUME w.outcome \in {"raced", "refused"}, Merging(s, t) PROVE Faithful(t, f, news)
  <2>1. ~OnDisk(w) /\ ~MovedTo(w)   BY <1>7 DEF OnDisk, MovedTo
  <2>2. /\ Stored(t) = Stored(s) /\ Pending(t) = Pending(s)
        /\ Knows(t, f) = Knows(s, f) /\ Becomes(t, f) = Becomes(s, f)
    BY <1>7, MergingAlike
  <2>3. Served(t) /\ Clean(t, f) /\ Stale(t, f, news) /\ Apart(t, f)
        /\ ~OnDisk(t.write) /\ ~MovedTo(t.write)
    BY <1>2, WriteTakenFaithful
  <2>4. ASSUME f # Broken PROVE Chain(t, f) /\ Tracked(t, f, news)
    <3>1. Chain(s, f) /\ Tracked(s, f, news)   BY <2>4 DEF Faithful
    <3>2. Chain(t, f)   BY <1>2, <1>7, <2>2, <2>3, <3>1 DEF Chain, WriteTaken, Merging
    <3>3. Tracked(t, f, news)   BY <1>2, <2>1, <2>2, <2>3, <3>1 DEF Tracked, WriteTaken, WillRead
    <3> QED  BY <3>2, <3>3
  <2>5. Seen(t, f)
    <3>1. Seen(s, f)   BY DEF Faithful
    <3> QED  BY <1>0, <2>1, <2>2, <3>1 DEF Seen, Alien
  <2> QED  BY <2>2, <2>3, <2>4, <2>5 DEF Faithful
<1> QED  BY <1>2, <1>4, <1>5, <1>6, <1>7 DEF t

LEMMA AfterAnswersEffect ==
    ASSUME NEW P, NEW s \in DocumentState(P)
    PROVE  \E a \in DocumentState(P) : \E b \in DocumentState(P) :
              /\ a = s \/ a = AskRead(s)
              /\ s.readAgain /\ ~Reading(s) => a = AskRead(s)
              /\ b = a \/ b = SendOwed(a)
              /\ Merging(b, AfterAnswers(s)) /\ Asking(b, AfterAnswers(s))
              /\ AfterAnswers(s).desired = b.desired
<1> DEFINE again == IF s.readAgain /\ ~Reading(s) THEN AskRead(s) ELSE s
           sends == /\ ~Writing(s)
                    /\ s.sendAgain \/ (s.landed /\ Owed(s)) \/ (s.heard /\ s.retryOnEar /\ Owed(s))
           sent  == IF sends THEN SendOwed(again) ELSE again
<1>1. again \in DocumentState(P)   BY AskReadTyped
<1>2. sent \in DocumentState(P)   BY <1>1, SendOwedTyped
<1>3. AfterAnswers(s) = [sent EXCEPT !.landed = FALSE, !.heard = FALSE]   BY DEF AfterAnswers
<1>4. sent = again \/ sent = SendOwed(again)   OBVIOUS
<1>5. (again = s \/ again = AskRead(s)) /\ (s.readAgain /\ ~Reading(s) => again = AskRead(s))
  OBVIOUS
<1> HIDE DEF sent, again
<1>6. Merging(sent, AfterAnswers(s)) /\ Asking(sent, AfterAnswers(s))
      /\ AfterAnswers(s).desired = sent.desired
  BY <1>2, <1>3 DEF DocumentState, Merging, Asking
<1> QED  BY <1>1, <1>2, <1>4, <1>5, <1>6

LEMMA AfterAnswersFaithful ==
    ASSUME NEW P, NEW s \in DocumentState(P), NEW f \in Contents, NEW news, Faithful(s, f, news)
    PROVE  /\ Faithful(AfterAnswers(s), f, news)
           /\ AfterAnswers(s).unmerged = s.unmerged
           /\ AfterAnswers(s).readAgain => Reading(AfterAnswers(s))
           /\ \A u \in Units : \A g, V : Within(s, u, g, V) => Within(AfterAnswers(s), u, g, V)
<1> DEFINE t == AfterAnswers(s)
<1>1. PICK a \in DocumentState(P), b \in DocumentState(P) :
              /\ a = s \/ a = AskRead(s)
              /\ s.readAgain /\ ~Reading(s) => a = AskRead(s)
              /\ b = a \/ b = SendOwed(a)
              /\ Merging(b, t) /\ Asking(b, t) /\ t.desired = b.desired
  BY AfterAnswersEffect
<1> HIDE DEF t
<1>2. /\ Faithful(a, f, news) /\ a.unmerged = s.unmerged /\ (a.readAgain => Reading(a))
      /\ \A u \in Units : \A g, V : Within(s, u, g, V) => Within(a, u, g, V)
  <2>1. CASE a = s /\ ~(s.readAgain /\ ~Reading(s))   BY <2>1
  <2>2. CASE a = AskRead(s)
    <3>1. Faithful(a, f, news)   BY <2>2, AskReadFaithful
    <3>2. a.unmerged = s.unmerged /\ (a.readAgain => Reading(a))
      BY <2>2, AskReadEffect DEF Merging, Reading
    <3>3. \A u \in Units : \A g, V : Within(s, u, g, V) => Within(a, u, g, V)
      BY <2>2, AskReadWithin
    <3> QED  BY <3>1, <3>2, <3>3
  <2> QED  BY <1>1, <2>1, <2>2
<1>3. /\ Faithful(b, f, news) /\ b.unmerged = s.unmerged /\ (b.readAgain => Reading(b))
      /\ \A u \in Units : \A g, V : Within(s, u, g, V) => Within(b, u, g, V)
  <2>1. CASE b = a   BY <1>2, <2>1
  <2>2. CASE b = SendOwed(a)
    <3>1. Faithful(b, f, news)   BY <1>2, <2>2, SendOwedFaithful
    <3>2. b.unmerged = s.unmerged /\ (b.readAgain => Reading(b))
      BY <1>2, <2>2, SendOwedEffect DEF Merging, Reading
    <3>3. \A u \in Units : \A g, V : Within(s, u, g, V) => Within(b, u, g, V)
      BY <1>2, <2>2, SendOwedWithin
    <3> QED  BY <3>1, <3>2, <3>3
  <2> QED  BY <1>1, <2>1, <2>2
<1>4. Faithful(t, f, news)   BY <1>1, <1>3, FaithfulAlike
<1>5. t.unmerged = s.unmerged /\ (t.readAgain => Reading(t))
  BY <1>1, <1>3 DEF Merging, Asking, Reading
<1>6. ASSUME NEW u \in Units, NEW g, NEW V, Within(s, u, g, V) PROVE Within(t, u, g, V)
  <2>1. Within(b, u, g, V)   BY <1>3, <1>6
  <2> QED  BY <1>1, <2>1 DEF Within, Merging, Asking
<1> QED  BY <1>4, <1>5, <1>6 DEF t

-----------------------------------------------------------------------------
(* One file of what waits, taken from the front of it.                     *)

Heads(s, t, m) ==
    /\ m = s.merges[1] /\ 1 \in 1..Len(s.merges)
    /\ \A i \in 1..Len(t.merges) : i + 1 \in 1..Len(s.merges) /\ t.merges[i] = s.merges[i + 1]
    /\ \A i \in 1..Len(s.merges) : i # 1 => i - 1 \in 1..Len(t.merges)
    /\ Asking(s, t) /\ t.held = s.held
    /\ \/ /\ m.theirs # Broken /\ t.unmerged = s.unmerged
          /\ t.revision = IF m.kept = None THEN m.theirs ELSE s.revision
          /\ \A u \in Units : t.desired[u] \in {s.desired[u], m.written[u], Parse(m.theirs)[u]}
       \/ /\ m.theirs = Broken /\ t.revision = s.revision /\ t.desired = s.desired
          /\ t.unmerged = IF m.kept = None THEN Append(s.unmerged, m) ELSE s.unmerged

LEMMA FoldEffect ==
    ASSUME NEW P, NEW s \in DocumentState(P), NEW m \in Merges(P)
    PROVE  LET t == Fold(s, m)
           IN  /\ Asking(s, t) /\ t.held = s.held /\ t.merges = s.merges
               /\ t.unmerged = s.unmerged
               /\ t.revision = IF m.kept = None THEN m.theirs ELSE s.revision
               /\ \A u \in Units : t.desired[u] \in {s.desired[u], m.written[u], Parse(m.theirs)[u]}
<1> DEFINE ours   == IF m.kept = None THEN s.desired ELSE m.written
           merged == ApplyPress(Merge(Parse(m.base), ours, Parse(m.theirs)), ours, s.desired)
           h == TRUE
           v == s.version + 1
           into   == [s EXCEPT !.desired = merged, !.version = v, !.folded = h]
           t == Fold(s, m)
<1>1. \A u \in Units : merged[u] \in {s.desired[u], m.written[u], Parse(m.theirs)[u]}
  <2>1. TAKE u \in Units
  <2>2. merged[u] \in {s.desired[u], Merge(Parse(m.base), ours, Parse(m.theirs))[u]}
    BY DEF ApplyPress
  <2>3. Merge(Parse(m.base), ours, Parse(m.theirs))[u] \in {ours[u], Parse(m.theirs)[u]}
    BY DEF Merge
  <2>4. ours[u] \in {s.desired[u], m.written[u]}   OBVIOUS
  <2> HIDE DEF merged, ours
  <2> QED  BY <2>2, <2>3, <2>4
<1>2. t = IF m.kept = None THEN [into EXCEPT !.revision = m.theirs]
          ELSE [into EXCEPT !.kept = @ \cup {[path |-> m.kept, version |-> into.version]},
                            !.carries = @ \cup {m.kept}]
  BY DEF Fold
<1> HIDE DEF merged, h, v, t
<1>3. /\ into.desired = merged /\ Asking(s, into) /\ Merging(s, into)
      /\ DOMAIN into = DOMAIN s
  BY DEF DocumentState, Asking, Merging
<1> HIDE DEF into
<1>4. DOMAIN s = {"desired", "revision", "version", "write", "read", "latest", "readAgain",
                  "sendAgain", "retryOnEar", "refused", "held", "merges", "unmerged", "folded",
                  "atQuit", "kept", "landed", "heard", "unread", "carries", "placed"}
  BY DEF DocumentState
<1>5. /\ t.desired = into.desired /\ Asking(into, t) /\ t.held = into.held
      /\ t.merges = into.merges /\ t.unmerged = into.unmerged
      /\ t.revision = IF m.kept = None THEN m.theirs ELSE into.revision
  <2>1. CASE m.kept = None
    <3>1. t = [into EXCEPT !.revision = m.theirs]   BY <1>2, <2>1
    <3> QED  BY <1>3, <1>4, <2>1, <3>1 DEF Asking
  <2>2. CASE m.kept # None
    <3>1. t = [into EXCEPT !.kept = @ \cup {[path |-> m.kept, version |-> into.version]},
                           !.carries = @ \cup {m.kept}]
      BY <1>2, <2>2
    <3> QED  BY <1>3, <1>4, <2>2, <3>1 DEF Asking
  <2> QED  BY <2>1, <2>2
<1> QED  BY <1>1, <1>3, <1>5 DEF Asking, Merging, t

LEMMA MergeHeadEffect ==
    ASSUME NEW P, NEW s \in DocumentState(P), s.merges # <<>>
    PROVE  Heads(s, MergeHead(s), Head(s.merges))
<1> DEFINE m == Head(s.merges)
           rest == [s EXCEPT !.merges = Tail(@)]
           t == MergeHead(s)
<1>1. s.merges \in Seq(Merges(P)) /\ s.unmerged \in Seq(Merges(P))   BY DEF DocumentState
<1>2. m \in Merges(P) /\ Tail(s.merges) \in Seq(Merges(P))   BY <1>1
<1>3. /\ m = s.merges[1] /\ 1 \in 1..Len(s.merges) /\ Len(s.merges) \in Nat
      /\ Len(Tail(s.merges)) = Len(s.merges) - 1
      /\ \A i \in 1..Len(Tail(s.merges)) : Tail(s.merges)[i] = s.merges[i + 1]
  BY <1>1
<1>4. /\ rest \in DocumentState(P) /\ rest.merges = Tail(s.merges)
      /\ rest.desired = s.desired /\ Asking(s, rest)
      /\ rest.held = s.held /\ rest.revision = s.revision /\ rest.unmerged = s.unmerged
  BY <1>2 DEF DocumentState, Asking
<1>5. t = CASE m.theirs # Broken -> Fold(rest, m)
            [] m.theirs = Broken /\ m.kept = None ->
                   [rest EXCEPT !.unmerged = Append(@, m)]
            [] m.theirs = Broken /\ m.kept # None -> rest
  BY DEF MergeHead
<1> HIDE DEF m, rest, t
<1>6. /\ t.merges = Tail(s.merges) /\ Asking(s, t) /\ t.held = s.held
      /\ \/ /\ m.theirs # Broken /\ t.unmerged = s.unmerged
            /\ t.revision = IF m.kept = None THEN m.theirs ELSE s.revision
            /\ \A u \in Units : t.desired[u] \in {s.desired[u], m.written[u], Parse(m.theirs)[u]}
         \/ /\ m.theirs = Broken /\ t.revision = s.revision /\ t.desired = s.desired
            /\ t.unmerged = IF m.kept = None THEN Append(s.unmerged, m) ELSE s.unmerged
  <2>1. CASE m.theirs # Broken
    <3>1. t = Fold(rest, m)   BY <1>5, <2>1
    <3> QED  BY <1>2, <1>4, <2>1, <3>1, FoldEffect DEF Asking
  <2>2. CASE m.theirs = Broken /\ m.kept = None
    <3>1. t = [rest EXCEPT !.unmerged = Append(@, m)]   BY <1>5, <2>2
    <3>2. /\ t.unmerged = Append(rest.unmerged, m) /\ t.merges = rest.merges
          /\ t.held = rest.held /\ t.revision = rest.revision /\ t.desired = rest.desired
          /\ Asking(rest, t)
      BY <1>4, <3>1 DEF DocumentState, Asking
    <3> QED  BY <1>4, <2>2, <3>2 DEF Asking
  <2>3. CASE m.theirs = Broken /\ m.kept # None
    <3>1. t = rest   BY <1>5, <2>3
    <3> QED  BY <1>4, <2>3, <3>1
  <2> QED  BY <2>1, <2>2, <2>3
<1>7. /\ \A i \in 1..Len(t.merges) : i + 1 \in 1..Len(s.merges) /\ t.merges[i] = s.merges[i + 1]
      /\ \A i \in 1..Len(s.merges) : i # 1 => i - 1 \in 1..Len(t.merges)
  <2>1. Len(t.merges) = Len(s.merges) - 1   BY <1>3, <1>6
  <2>2. \A i \in 1..Len(t.merges) : t.merges[i] = s.merges[i + 1]   BY <1>3, <1>6
  <2> QED  BY <1>3, <2>1, <2>2
<1> QED  BY <1>3, <1>6, <1>7 DEF Heads, m, t

LEMMA MergeHeadWithin ==
    ASSUME NEW s, NEW t, NEW m, Heads(s, t, m),
           NEW u \in Units, NEW f, NEW V, Within(s, u, f, V)
    PROVE  Within(t, u, f, V) \/ (Foldable(m) /\ m.theirs = f)
<1> SUFFICES ASSUME ~(Foldable(m) /\ m.theirs = f) PROVE Within(t, u, f, V)
  OBVIOUS
<1> USE DEF Heads
<1>1. m.theirs # Broken => m.written[u] \in V /\ Parse(m.theirs)[u] \in V
  BY DEF Within, Foldable
<1>2. t.desired[u] \in V /\ Parse(t.revision)[u] \in V
  <2>1. t.desired[u] \in V   BY <1>1 DEF Within
  <2>2. Parse(t.revision)[u] \in V   BY <1>1 DEF Within
  <2> QED  BY <2>1, <2>2
<1>3. ASSUME NEW i \in 1..Len(t.merges), t.merges[i].theirs # Broken
      PROVE  LET k == t.merges[i]
             IN  /\ k.written[u] \in V /\ Parse(k.base)[u] \in V
                 /\ (k.kept = None /\ k.theirs = f) \/ Parse(k.theirs)[u] \in V
  <2>1. i + 1 \in 1..Len(s.merges) /\ t.merges[i] = s.merges[i + 1]   OBVIOUS
  <2> QED  BY <1>3, <2>1 DEF Within
<1> QED  BY <1>2, <1>3 DEF Within, Asking

(* What has been folded in was of what the store knew, and what the        *)
(* revision becomes stays as it is.                                        *)
LEMMA MergeHeadKnows ==
    ASSUME NEW s, NEW t, NEW m, Heads(s, t, m), NEW c
    PROVE  /\ Knows(t, c) => Knows(s, c)
           /\ Becomes(s, c) => Becomes(t, c)
           /\ Foldable(m) => 1 \in Pending(s)
           /\ ~Foldable(m) => t.revision = s.revision
<1> USE DEF Heads
<1>1. \A i \in Pending(t) : i + 1 \in Pending(s) /\ t.merges[i] = s.merges[i + 1]
  BY DEF Pending
<1>2. \A i \in Pending(s) : i # 1 => i - 1 \in Pending(t) /\ t.merges[i - 1] = s.merges[i]
  <2>1. TAKE i \in Pending(s)
  <2>2. HAVE i # 1
  <2>3. i \in 1..Len(s.merges) /\ i - 1 \in 1..Len(t.merges)   BY <2>2 DEF Pending
  <2>4. t.merges[i - 1] = s.merges[(i - 1) + 1]   BY <2>3
  <2>5. (i - 1) + 1 = i   BY <2>3
  <2> QED  BY <2>1, <2>3, <2>4, <2>5 DEF Pending
<1>3. /\ Foldable(m) => 1 \in Pending(s) /\ t.revision = m.theirs
      /\ ~Foldable(m) => 1 \notin Pending(s) /\ t.revision = s.revision
  BY DEF Pending, Foldable
<1>4. ASSUME Knows(t, c) PROVE Knows(s, c)
  BY <1>1, <1>3, <1>4 DEF Knows
<1>5. ASSUME Becomes(s, c) PROVE Becomes(t, c)
  <2>1. CASE Pending(s) = {}   BY <1>1, <1>3, <1>5, <2>1 DEF Becomes
  <2>2. ASSUME NEW i \in Pending(s), \A j \in Pending(s) : i =< j => s.merges[j].theirs = c
        PROVE  Becomes(t, c)
    <3>i. i \in Nat /\ i >= 1   BY DEF Pending
    <3>1. CASE i # 1
      <4>1. i - 1 \in Pending(t)   BY <1>2, <3>1
      <4>2. ASSUME NEW j \in Pending(t), i - 1 =< j PROVE t.merges[j].theirs = c
        <5>1. j + 1 \in Pending(s) /\ i =< j + 1 /\ t.merges[j] = s.merges[j + 1]
          BY <1>1, <3>i, <4>2 DEF Pending
        <5> QED  BY <2>2, <5>1
      <4> QED  BY <4>1, <4>2 DEF Becomes
    <3>2. CASE i = 1
      <4>1. \A j \in Pending(t) : t.merges[j].theirs = c
        <5>1. TAKE j \in Pending(t)
        <5>2. j + 1 \in Pending(s) /\ i =< j + 1 /\ t.merges[j] = s.merges[j + 1]
          BY <1>1, <3>2 DEF Pending
        <5> QED  BY <2>2, <5>2
      <4>2. Pending(t) = {} => t.revision = c
        <5>1. s.merges[1].theirs = c   BY <2>2, <3>2
        <5> QED  BY <1>3, <3>2, <5>1
      <4> QED  BY <4>1, <4>2 DEF Becomes
    <3> QED  BY <3>1, <3>2
  <2> QED  BY <1>5, <2>1, <2>2 DEF Becomes
<1> QED  BY <1>3, <1>4, <1>5

LEMMA MergeHeadFaithful ==
    ASSUME NEW P, NEW s \in DocumentState(P), NEW f \in Contents, NEW news, Faithful(s, f, news),
           NEW t, NEW m, Heads(s, t, m)
    PROVE  Faithful(t, f, news)
<1>a. /\ Stored(s) /\ Served(s) /\ Clean(s, f) /\ Stale(s, f, news)
      /\ f # Broken => Chain(s, f) /\ Tracked(s, f, news)
      /\ Apart(s, f) /\ Seen(s, f)
  BY DEF Faithful
<1>b. s.unmerged \in Seq(Merges(P)) /\ s.merges \in Seq(Merges(P))   BY DEF DocumentState
<1>c. s.held
  <2>1. s.merges # <<>>   BY <1>b DEF Heads
  <2> QED  BY <1>a, <2>1 DEF Stored
<1>d. Asking(s, t) /\ t.held = s.held   BY DEF Heads
<1>e. /\ Knows(t, f) => Knows(s, f)
      /\ Becomes(s, f) => Becomes(t, f)
      /\ Foldable(m) => 1 \in Pending(s)
      /\ ~Foldable(m) => t.revision = s.revision
  BY MergeHeadKnows
<1>f. m = s.merges[1] /\ m \in Merges(P)   BY <1>b DEF Heads
<1>g. m.theirs = Broken /\ m.kept = None =>
          /\ Len(t.unmerged) = Len(s.unmerged) + 1 /\ t.unmerged[Len(s.unmerged) + 1] = m
          /\ \A i \in 1..Len(s.unmerged) : t.unmerged[i] = s.unmerged[i]
  BY <1>b, <1>f DEF Heads
<1>h. ~(m.theirs = Broken /\ m.kept = None) => t.unmerged = s.unmerged
  BY DEF Heads
<1>n. Len(s.unmerged) \in Nat   BY <1>b
<1>1. Stored(t)
  <2>1. \A i \in 1..Len(t.unmerged) : t.unmerged[i].theirs = Broken
    <3>1. TAKE i \in 1..Len(t.unmerged)
    <3>2. CASE m.theirs = Broken /\ m.kept = None
      <4>1. i = Len(s.unmerged) + 1 \/ i \in 1..Len(s.unmerged)   BY <1>g, <1>n, <3>2
      <4> QED  BY <1>a, <1>g, <3>2, <4>1 DEF Stored
    <3>3. CASE ~(m.theirs = Broken /\ m.kept = None)   BY <1>a, <1>h, <3>3 DEF Stored
    <3> QED  BY <3>2, <3>3
  <2>2. ASSUME t.revision = Broken
        PROVE  \/ \E i \in 1..Len(t.merges) : Waits(t.merges[i])
               \/ \E i \in 1..Len(t.unmerged) : Waits(t.unmerged[i])
    <3>1. s.revision = Broken
      <4>1. ~Foldable(m)   BY <2>2 DEF Heads, Foldable
      <4> QED  BY <1>e, <2>2, <4>1
    <3>2. ASSUME NEW i \in 1..Len(s.unmerged), Waits(s.unmerged[i])
          PROVE  i \in 1..Len(t.unmerged) /\ Waits(t.unmerged[i])
      <4>1. CASE m.theirs = Broken /\ m.kept = None   BY <1>g, <1>n, <3>2, <4>1
      <4>2. CASE ~(m.theirs = Broken /\ m.kept = None)   BY <1>h, <3>2, <4>2
      <4> QED  BY <4>1, <4>2
    <3>3. ASSUME NEW i \in 1..Len(s.merges), Waits(s.merges[i]), i # 1
          PROVE  i - 1 \in 1..Len(t.merges) /\ Waits(t.merges[i - 1])
      <4>1. i - 1 \in 1..Len(t.merges)   BY <3>3 DEF Heads
      <4>2. t.merges[i - 1] = s.merges[(i - 1) + 1]   BY <4>1 DEF Heads
      <4>3. (i - 1) + 1 = i   OBVIOUS
      <4> QED  BY <3>3, <4>1, <4>2, <4>3
    <3>4. ASSUME Waits(m)
          PROVE  Len(s.unmerged) + 1 \in 1..Len(t.unmerged) /\ Waits(t.unmerged[Len(s.unmerged) + 1])
      BY <1>g, <1>n, <3>4 DEF Waits
    <3> QED  BY <1>a, <1>f, <3>1, <3>2, <3>3, <3>4 DEF Stored
  <2> QED  BY <1>c, <1>d, <2>1, <2>2 DEF Stored
<1>2. Served(t)   BY <1>a, <1>d DEF Served, Asking, Writing
<1>3. Clean(t, f)   BY <1>a, <1>c, <1>d DEF Clean, Conditional, Asking
<1>4. Stale(t, f, news) /\ Apart(t, f)   BY <1>a, <1>d DEF Stale, Apart, Asking, Writing
<1>5. ASSUME f # Broken, Foldable(m), m.theirs = f PROVE Becomes(t, f)
  <2>1. 1 \in Pending(s) /\ s.merges[1].theirs = f   BY <1>e, <1>f, <1>5
  <2>2. \A j \in Pending(s) : 1 =< j => s.merges[j].theirs = f   BY <1>a, <1>5, <2>1 DEF Chain
  <2>3. Becomes(s, f)   BY <2>1, <2>2 DEF Becomes
  <2> QED  BY <1>e, <2>3
<1>6. ASSUME f # Broken PROVE Chain(t, f) /\ Tracked(t, f, news)
  <2>1. Chain(s, f) /\ Tracked(s, f, news)   BY <1>a, <1>6
  <2>2. t.revision = f => Becomes(t, f)
    <3>1. CASE Foldable(m)
      <4>1. t.revision = m.theirs   BY <3>1 DEF Heads, Foldable
      <4> QED  BY <1>5, <1>6, <3>1, <4>1
    <3>2. CASE ~Foldable(m)   BY <1>e, <2>1, <3>2 DEF Chain
    <3> QED  BY <3>1, <3>2
  <2>3. ASSUME NEW i \in Pending(t), NEW j \in Pending(t), t.merges[i].theirs = f, i =< j
        PROVE  t.merges[j].theirs = f
    <3>1. i \in 1..Len(t.merges) /\ j \in 1..Len(t.merges)   BY DEF Pending
    <3>2. /\ i + 1 \in Pending(s) /\ t.merges[i] = s.merges[i + 1]
          /\ j + 1 \in Pending(s) /\ t.merges[j] = s.merges[j + 1]
      BY <3>1 DEF Heads, Pending
    <3>3. i + 1 =< j + 1   BY <2>3, <3>1
    <3> QED  BY <2>1, <2>3, <3>2, <3>3 DEF Chain
  <2>4. Chain(t, f)   BY <1>d, <1>e, <2>1, <2>2, <2>3 DEF Chain, Asking
  <2>5. Tracked(t, f, news)   BY <1>d, <1>e, <2>1 DEF Tracked, WillRead, Asking
  <2> QED  BY <2>4, <2>5
<1>7. Seen(t, f)
  <2>1. SUFFICES ASSUME f \in Document
                 PROVE  \/ Becomes(t, f) \/ (OnDisk(t.write) /\ t.write.document = f)
                        \/ \E u \in Units : Alien(t, f, u)
    BY DEF Seen
  <2>2. f # Broken   BY <2>1, DocumentsParse
  <2>3. ASSUME NEW u \in Units, Alien(s, f, u) PROVE Becomes(t, f) \/ Alien(t, f, u)
    <3>1. Within(t, u, f, Nat \ {f[u]}) \/ (Foldable(m) /\ m.theirs = f)
      BY <2>3, MergeHeadWithin DEF Alien
    <3> QED  BY <1>5, <2>2, <3>1 DEF Alien
  <2> QED  BY <1>a, <1>d, <1>e, <2>1, <2>3 DEF Seen, Asking
<1> QED  BY <1>1, <1>2, <1>3, <1>4, <1>6, <1>7 DEF Faithful

-----------------------------------------------------------------------------
(* The end of a merge: what did not parse waits again.                     *)

LEMMA MergedEffect ==
    ASSUME NEW P, NEW s \in DocumentState(P)
    PROVE  LET t == Merged(s)
           IN  /\ Asking(s, t) /\ t.desired = s.desired /\ t.revision = s.revision
               /\ t.merges = s.unmerged /\ t.unmerged = <<>> /\ t.held = (s.unmerged # <<>>)
<1> DEFINE h == s.unmerged # <<>>
<1>1. PICK e : e = <<>>   OBVIOUS
<1>2. PICK g : g = FALSE   OBVIOUS
<1>3. Merged(s) = [s EXCEPT !.merges = s.unmerged, !.unmerged = e, !.held = h, !.folded = g]
  BY <1>1, <1>2 DEF Merged
<1> DEFINE t == Merged(s)
<1> HIDE DEF h, t
<1>4. /\ Asking(s, t) /\ t.desired = s.desired /\ t.revision = s.revision
      /\ t.merges = s.unmerged /\ t.unmerged = e /\ t.held = h
  BY <1>3 DEF DocumentState, Asking, t
<1> QED  BY <1>1, <1>4 DEF h, t

LEMMA MergedFaithful ==
    ASSUME NEW P, NEW s \in DocumentState(P), NEW f, NEW news, Faithful(s, f, news), s.merges = <<>>
    PROVE  /\ Faithful(Merged(s), f, news)
           /\ \A u \in Units : \A g, V : Within(s, u, g, V) => Within(Merged(s), u, g, V)
<1> DEFINE t == Merged(s)
<1>1. /\ Asking(s, t) /\ t.desired = s.desired /\ t.revision = s.revision
      /\ t.merges = s.unmerged /\ t.unmerged = <<>> /\ t.held = (s.unmerged # <<>>)
  BY MergedEffect
<1> HIDE DEF t
<1>2. \A i \in 1..Len(t.merges) : t.merges[i].theirs = Broken   BY <1>1 DEF Faithful, Stored
<1>3. Pending(t) = {} /\ Pending(s) = {}   BY <1>2 DEF Pending, Foldable
<1>4. Knows(t, f) = Knows(s, f) /\ Becomes(t, f) = Becomes(s, f)
  BY <1>1, <1>3 DEF Knows, Becomes
<1>5. Stored(t)
  <2>1. Len(t.unmerged) = 0   BY <1>1
  <2>2. ASSUME t.revision = Broken PROVE \E i \in 1..Len(t.merges) : Waits(t.merges[i])
    <3>1. ~\E i \in 1..Len(s.merges) : Waits(s.merges[i])   OBVIOUS
    <3> QED  BY <1>1, <2>2, <3>1 DEF Faithful, Stored
  <2>3. t.merges # <<>> \/ t.unmerged # <<>> => t.held   BY <1>1
  <2>4. \A i \in 1..Len(t.unmerged) : t.unmerged[i].theirs = Broken   BY <2>1
  <2> QED  BY <2>2, <2>3, <2>4 DEF Stored
<1>6. Served(t)   BY <1>1 DEF Faithful, Served, Asking, Writing
<1>7. Clean(t, f)
  <2>1. ~s.held => ~t.held   BY <1>1 DEF Faithful, Stored
  <2> QED  BY <1>1, <2>1 DEF Faithful, Clean, Conditional, Asking
<1>8. Stale(t, f, news) /\ Apart(t, f)   BY <1>1 DEF Faithful, Stale, Apart, Asking, Writing
<1>9. ASSUME f # Broken PROVE Chain(t, f) /\ Tracked(t, f, news)
  <2>1. Chain(s, f) /\ Tracked(s, f, news)   BY <1>9 DEF Faithful
  <2>2. Chain(t, f)   BY <1>1, <1>3, <1>4, <2>1 DEF Chain, Asking
  <2>3. Tracked(t, f, news)   BY <1>1, <1>4, <2>1 DEF Tracked, WillRead, Asking
  <2> QED  BY <2>2, <2>3
<1>10. ASSUME NEW u \in Units, NEW g, NEW V, Within(s, u, g, V) PROVE Within(t, u, g, V)
  BY <1>1, <1>2, <1>10 DEF Within, Asking
<1>11. Seen(t, f)
  <2>1. Seen(s, f)   BY DEF Faithful
  <2> QED  BY <1>1, <1>4, <1>10, <2>1 DEF Seen, Alien, Asking
<1> QED  BY <1>5, <1>6, <1>7, <1>8, <1>9, <1>10, <1>11 DEF Faithful, t

LEMMA SendUnsentFaithful ==
    ASSUME NEW P, NEW s \in DocumentState(P), NEW f \in Contents, NEW news, Faithful(s, f, news)
    PROVE  /\ Faithful(SendUnsent(s), f, news)
           /\ Merging(s, SendUnsent(s))
           /\ SendUnsent(s).read = s.read /\ SendUnsent(s).readAgain = s.readAgain
           /\ \A u \in Units : \A g, V : Within(s, u, g, V) => Within(SendUnsent(s), u, g, V)
<1>1. CASE SendUnsent(s) = s   BY <1>1 DEF Merging
<1>2. CASE SendUnsent(s) = SendOwed(s)
  BY <1>2, SendOwedFaithful, SendOwedEffect, SendOwedWithin
<1> QED  BY <1>1, <1>2 DEF SendUnsent

(* Every value is one Folio or the editor has set: at most n.              *)
Young(s, f, n) == \A u \in Units : Within(s, u, Broken, 0..n) /\ Parse(f)[u] \in 0..n

LEMMA YoungStays ==
    ASSUME NEW s, NEW t, NEW f, NEW n, Young(s, f, n),
           \A u \in Units : \A V : Within(s, u, Broken, V) => Within(t, u, Broken, V)
    PROVE  Young(t, f, n)
BY DEF Young

LEMMA YoungGrows ==
    ASSUME NEW s, NEW f, NEW n \in Nat, Young(s, f, n)
    PROVE  Young(s, f, n + 1)
<1> SUFFICES ASSUME NEW u \in Units PROVE Within(s, u, Broken, 0..(n + 1)) /\ Parse(f)[u] \in 0..(n + 1)
  BY DEF Young
<1>1. 0..n \subseteq 0..(n + 1)   OBVIOUS
<1>2. Within(s, u, Broken, 0..n) /\ Parse(f)[u] \in 0..n   BY DEF Young
<1> DEFINE A == 0..n
           B == 0..(n + 1)
<1>3. A \subseteq B /\ Within(s, u, Broken, A)   BY <1>1, <1>2
<1> HIDE DEF A, B
<1>4. Within(s, u, Broken, B)   BY <1>3 DEF Within
<1> QED  BY <1>1, <1>2, <1>4 DEF B

(* What the editor saved, of what Folio does not hold: no value of its own *)
(* is in what Folio holds, so it is neither what Folio sends nor sent.     *)
Unheld(s, c) ==
    /\ c # s.revision /\ (Writing(s) => c # s.write.base)
    /\ s.write.outcome = "moved" => c # s.write.theirs
    /\ s.read.outcome = "found" => c # s.read.found
    /\ \A i \in 1..Len(s.merges) : s.merges[i].theirs # c

New(f, c, n) == c \in {Broken, NoFile} \/ \E u \in Units : c = [Parse(f) EXCEPT ![u] = n + 1]

LEMMA SavedFaithful ==
    ASSUME NEW P, NEW s \in DocumentState(P), NEW f \in Contents, NEW news, Faithful(s, f, news),
           NEW n \in Nat, Young(s, f, n), NEW c \in Contents, Unheld(s, c), New(f, c, n)
    PROVE  Faithful(s, c, TRUE) /\ Young(s, c, n + 1)
<1>0. Parse(f) \in Document   BY ContentsHaveDocuments
<1>1. /\ c # s.write.document /\ Seen(s, c)
      /\ \A u \in Units : Parse(c)[u] \in 0..(n + 1)
  <2>1. CASE c \in {Broken, NoFile}
    <3>1. Parse(c) = Default /\ c \notin Document
      BY <2>1, DocumentAssumption DEF Parse, Document
    <3>2. s.write.document \in Document   BY DEF DocumentState, Writes
    <3>3. \A u \in Units : Parse(c)[u] = 0   BY <3>1, NoFileIsDefault
    <3>4. 0 \in 0..(n + 1)   OBVIOUS
    <3> QED  BY <3>1, <3>2, <3>3, <3>4 DEF Seen
  <2>2. ASSUME NEW u \in Units, c = [Parse(f) EXCEPT ![u] = n + 1]
        PROVE  /\ c # s.write.document /\ Seen(s, c)
               /\ \A v \in Units : Parse(c)[v] \in 0..(n + 1)
    <3>1. c[u] = n + 1 /\ \A v \in Units \ {u} : c[v] = Parse(f)[v]
      BY <1>0, <2>2 DEF Document
    <3>2. c \in Document   BY <1>0, <2>2 DEF Document
    <3>3. Parse(c) = c   BY <3>2, DocumentsParse
    <3>4. ASSUME NEW v \in Units PROVE Parse(c)[v] \in 0..(n + 1)
      <4>1. Parse(f)[v] \in 0..n   BY DEF Young
      <4>2. Parse(c)[v] = n + 1 \/ Parse(c)[v] = Parse(f)[v]   BY <3>1, <3>3
      <4> QED  BY <4>1, <4>2
    <3> DEFINE A == 0..n
               B == Nat \ {c[u]}
    <3>5. A \subseteq B /\ 0 \in B /\ n + 1 \notin A   BY <3>1
    <3>6. Within(s, u, Broken, A)   BY DEF Young
    <3>7. s.write.document[u] \in A   BY <3>6 DEF Within
    <3>8. Within(s, u, c, B)
      <4> HIDE DEF A, B
      <4>1. /\ 0 \in B /\ s.desired[u] \in B /\ Parse(s.revision)[u] \in B
            /\ s.write.document[u] \in B /\ Parse(s.write.base)[u] \in B
        BY <3>5, <3>6 DEF Within
      <4>2. Parse(s.write.theirs)[u] \in B /\ Parse(s.read.found)[u] \in B
        BY <3>5, <3>6, NoFileIsDefault DEF Within
      <4>3. ASSUME NEW i \in 1..Len(s.merges), s.merges[i].theirs # Broken
            PROVE  /\ s.merges[i].written[u] \in B /\ Parse(s.merges[i].base)[u] \in B
                   /\ Parse(s.merges[i].theirs)[u] \in B
        BY <3>5, <3>6, <4>3 DEF Within
      <4> QED  BY <4>1, <4>2, <4>3 DEF Within
    <3>9. Alien(s, c, u)   BY <3>8 DEF Alien
    <3>10. c # s.write.document   BY <3>1, <3>5, <3>7
    <3> QED  BY <3>4, <3>9, <3>10 DEF Seen
  <2> QED  BY <2>1, <2>2 DEF New
<1>2. Young(s, c, n + 1)
  <2>1. Young(s, f, n + 1)   BY YoungGrows
  <2> QED  BY <1>1, <2>1 DEF Young
<1>3. Clean(s, c)
  <2>1. Conditional(s, c) => Conditional(s, f)
    BY DEF Conditional, Unheld, Writing
  <2>2. OnDisk(s.write) => c # s.write.base   BY DEF Unheld, Writing, OnDisk
  <2> QED  BY <2>1, <2>2 DEF Faithful, Clean
<1>4. Stale(s, c, TRUE) /\ Tracked(s, c, TRUE)   BY DEF Stale, Tracked
<1>5. Chain(s, c)
  <2>1. ~Knows(s, c)   BY DEF Knows, Unheld, Pending
  <2>2. MovedTo(s.write) => s.write.theirs # c   BY DEF MovedTo, Unheld
  <2>3. Found(s.read) => s.read.found # c   BY DEF Found, Unheld
  <2>4. s.revision # c /\ \A i \in Pending(s) : s.merges[i].theirs # c   BY <2>1 DEF Knows
  <2> QED  BY <1>1, <2>1, <2>2, <2>3, <2>4 DEF Chain
<1>6. Apart(s, c)   BY <1>1 DEF Apart
<1> QED  BY <1>1, <1>2, <1>3, <1>4, <1>5, <1>6 DEF Faithful

-----------------------------------------------------------------------------
(* The worker's steps.                                                     *)

(* t is s with another write, or another read.                             *)
Rewrites(s, t) ==
    /\ Merging(s, t) /\ t.desired = s.desired /\ t.latest = s.latest
    /\ t.read = s.read /\ t.readAgain = s.readAgain /\ t.unread = s.unread
    /\ t.write.document = s.write.document /\ t.write.base = s.write.base
Rereads(s, t) ==
    /\ Merging(s, t) /\ t.desired = s.desired /\ t.latest = s.latest
    /\ t.write = s.write /\ t.readAgain = s.readAgain /\ t.unread = s.unread

WriteIsNext(s) == s.latest = "write" => s.read.step # "queued"

LEMMA AnsweredIs ==
    ASSUME NEW P, store \in DocumentState(P),
           NEW outcome, NEW theirs, NEW left, NEW retired
    PROVE  LET t == Answered(outcome, theirs, left, retired)
           IN  /\ Rewrites(store, t)
               /\ t.write.step = "answered" /\ t.write.outcome = outcome
               /\ t.write.theirs = theirs /\ t.write.left = left
<1> DEFINE w == [store.write EXCEPT !.step = "answered", !.outcome = outcome, !.theirs = theirs,
                                    !.left = left, !.retired = retired]
           t == Answered(outcome, theirs, left, retired)
<1>1. /\ w.step = "answered" /\ w.outcome = outcome /\ w.theirs = theirs /\ w.left = left
      /\ w.document = store.write.document /\ w.base = store.write.base
  BY DEF DocumentState, Writes
<1>2. t = [store EXCEPT !.write = w]
  BY DEF Answered, DocumentState, Writes
<1> HIDE DEF w, t
<1>3. t.write = w /\ Merging(store, t) /\ t.desired = store.desired /\ t.latest = store.latest
      /\ t.read = store.read /\ t.readAgain = store.readAgain /\ t.unread = store.unread
  BY <1>2 DEF DocumentState, Merging
<1> QED  BY <1>1, <1>3 DEF Rewrites, t

LEMMA AnsweredWithin ==
    ASSUME NEW s, NEW t, Rewrites(s, t), NEW u \in Units, NEW f, NEW V, Within(s, u, f, V),
           (t.write.outcome # "displaced" /\ t.write.theirs = f) \/ Parse(t.write.theirs)[u] \in V
    PROVE  Within(t, u, f, V)
BY DEF Rewrites, Merging, Within

(* A write refused, or raced, leaves the file as it was.                   *)
LEMMA RefusedFaithful ==
    ASSUME NEW s, NEW t, NEW f, NEW news, Faithful(s, f, news), Rewrites(s, t),
           s.write.step \in {"queued", "checked"}, WriteIsNext(s),
           t.write.step = "answered", t.write.outcome \in {"raced", "refused"},
           t.write.theirs = NoFile
    PROVE  /\ Faithful(t, f, news)
           /\ \A u \in Units : \A g, V : Within(s, u, g, V) => Within(t, u, g, V)
<1>1. /\ Stored(t) = Stored(s) /\ Pending(t) = Pending(s)
      /\ Knows(t, f) = Knows(s, f) /\ Becomes(t, f) = Becomes(s, f)
  BY MergingAlike DEF Rewrites
<1>2. ~OnDisk(s.write) /\ ~MovedTo(s.write) /\ ~OnDisk(t.write) /\ ~MovedTo(t.write)
  BY DEF OnDisk, MovedTo
<1>3. Served(t)   BY DEF Faithful, Served, WriteIsNext, Rewrites, Writing
<1>4. Clean(t, f)   BY <1>2 DEF Clean, Conditional
<1>5. Stale(t, f, news)   BY DEF Faithful, Stale, Rewrites
<1>6. Apart(t, f)   BY <1>2 DEF Faithful, Apart, Rewrites, Writing
<1>7. ASSUME f # Broken PROVE Chain(t, f) /\ Tracked(t, f, news)
  <2>1. Chain(s, f) /\ Tracked(s, f, news)   BY <1>7 DEF Faithful
  <2>2. Chain(t, f)   BY <1>1, <1>2, <2>1 DEF Chain, Rewrites, Merging
  <2>3. Tracked(t, f, news)   BY <1>1, <1>2, <2>1 DEF Tracked, WillRead, Rewrites
  <2> QED  BY <2>2, <2>3
<1>8. ASSUME NEW u \in Units, NEW g, NEW V, Within(s, u, g, V) PROVE Within(t, u, g, V)
  <2>1. Parse(t.write.theirs)[u] \in V   BY <1>8, NoFileIsDefault DEF Within
  <2> QED  BY <1>8, <2>1, AnsweredWithin
<1>9. Seen(t, f)
  <2>1. Seen(s, f)   BY DEF Faithful
  <2> QED  BY <1>1, <1>2, <1>8, <2>1 DEF Seen, Alien
<1> QED  BY <1>1, <1>3, <1>4, <1>5, <1>6, <1>7, <1>8, <1>9 DEF Faithful

(* A write that found the file moved says what the file holds.             *)
LEMMA FindMovedFaithful ==
    ASSUME NEW P, NEW s \in DocumentState(P), NEW t, NEW f, NEW news, Faithful(s, f, news),
           Rewrites(s, t),
           s.write.step \in {"queued", "checked"}, WriteIsNext(s),
           t.write.step = "answered", t.write.outcome = "moved", t.write.theirs = f
    PROVE  Faithful(t, f, news)
<1>1. /\ Stored(t) = Stored(s) /\ Pending(t) = Pending(s)
      /\ Knows(t, f) = Knows(s, f) /\ Becomes(t, f) = Becomes(s, f)
  BY MergingAlike DEF Rewrites
<1>2. ~OnDisk(s.write) /\ ~MovedTo(s.write) /\ ~OnDisk(t.write) /\ MovedTo(t.write)
  BY DEF OnDisk, MovedTo
<1>3. Served(t)   BY DEF Faithful, Served, WriteIsNext, Rewrites, Writing
<1>4. Clean(t, f)   BY <1>2 DEF Clean, Conditional
<1>5. Stale(t, f, news)   BY DEF Faithful, Stale, Rewrites
<1>6. Apart(t, f)   BY <1>2 DEF Faithful, Apart, Rewrites, Writing
<1>7. ASSUME f # Broken PROVE Chain(t, f) /\ Tracked(t, f, news)
  <2>1. Chain(s, f)   BY <1>7 DEF Faithful
  <2>2. Found(s.read) => s.latest = "write"   BY DEF Faithful, Served, Found
  <2>3. Chain(t, f)   BY <1>1, <1>2, <2>1, <2>2 DEF Chain, Rewrites, Merging
  <2>4. Tracked(t, f, news)   BY <1>2 DEF Tracked
  <2> QED  BY <2>3, <2>4
<1>8. Seen(t, f)
  <2>1. ASSUME NEW u \in Units, Alien(s, f, u) PROVE Alien(t, f, u)
    BY <2>1, AnsweredWithin DEF Alien
  <2>2. Seen(s, f)   BY DEF Faithful
  <2> QED  BY <1>1, <1>2, <2>1, <2>2 DEF Seen
<1> QED  BY <1>1, <1>3, <1>4, <1>5, <1>6, <1>7, <1>8 DEF Faithful

(* A write whose precondition held goes on.                                *)
LEMMA CheckFaithful ==
    ASSUME NEW s, NEW t, NEW f, NEW news, Faithful(s, f, news), Rewrites(s, t),
           s.write.step = "queued", WriteIsNext(s), s.write.base = f,
           t.write.step = "checked", t.write.outcome = s.write.outcome,
           t.write.theirs = s.write.theirs, t.write.left = s.write.left
    PROVE  /\ Faithful(t, f, news)
           /\ \A u \in Units : \A g, V : Within(s, u, g, V) => Within(t, u, g, V)
<1>1. /\ Stored(t) = Stored(s) /\ Pending(t) = Pending(s)
      /\ Knows(t, f) = Knows(s, f) /\ Becomes(t, f) = Becomes(s, f)
  BY MergingAlike DEF Rewrites
<1>2. ~OnDisk(s.write) /\ ~MovedTo(s.write) /\ ~OnDisk(t.write) /\ ~MovedTo(t.write)
  BY DEF OnDisk, MovedTo
<1>3. Served(t)   BY DEF Faithful, Served, WriteIsNext, Rewrites, Writing
<1>4. Clean(t, f)
  <2>1. Conditional(s, f)   BY DEF Conditional
  <2> QED  BY <1>2, <2>1 DEF Faithful, Clean, Rewrites, Merging
<1>5. Stale(t, f, news)   BY DEF Faithful, Stale, Rewrites
<1>6. Apart(t, f)   BY <1>2 DEF Faithful, Apart, Rewrites, Writing
<1>7. ASSUME f # Broken PROVE Chain(t, f) /\ Tracked(t, f, news)
  <2>1. Chain(s, f) /\ Tracked(s, f, news)   BY <1>7 DEF Faithful
  <2>2. Chain(t, f)   BY <1>1, <1>2, <2>1 DEF Chain, Rewrites, Merging
  <2>3. Tracked(t, f, news)   BY <1>1, <1>2, <2>1 DEF Tracked, WillRead, Rewrites
  <2> QED  BY <2>2, <2>3
<1>8. ASSUME NEW u \in Units, NEW g, NEW V, Within(s, u, g, V) PROVE Within(t, u, g, V)
  BY <1>8 DEF Rewrites, Merging, Within
<1>9. Seen(t, f)
  <2>1. Seen(s, f)   BY DEF Faithful
  <2> QED  BY <1>1, <1>2, <1>8, <2>1 DEF Seen, Alien
<1> QED  BY <1>1, <1>3, <1>4, <1>5, <1>6, <1>7, <1>8, <1>9 DEF Faithful

(* A write placed: the file is its document, which the store does not hold.*)
LEMMA PlacedFaithful ==
    ASSUME NEW P, NEW s \in DocumentState(P), NEW t, NEW f, NEW news, Faithful(s, f, news),
           Rewrites(s, t), s.write.step = "checked", WriteIsNext(s),
           t.write.step = "answered", t.write.outcome \in {"landed", "displaced"},
           t.write.outcome = "displaced" => t.write.left # None
    PROVE  Faithful(t, s.write.document, TRUE)
<1> DEFINE d == s.write.document
<1>1. d \in Document /\ Parse(d) = d
  <2>1. d \in Document   BY DEF DocumentState, Writes
  <2> QED  BY <2>1, DocumentsParse
<1>2. /\ ~s.held /\ s.revision = s.write.base
      /\ Found(s.read) /\ s.latest = "write" => s.read.found = s.write.base
  BY DEF Faithful, Clean, Conditional
<1>3. d # s.write.base
  <2>1. d # Parse(s.write.base)   BY DEF Faithful, Served, Writing
  <2> QED  BY <1>1, <2>1
<1>4. /\ Stored(t) = Stored(s) /\ Pending(t) = Pending(s)
      /\ Knows(t, d) = Knows(s, d) /\ Becomes(t, d) = Becomes(s, d)
  BY MergingAlike DEF Rewrites
<1>5. OnDisk(t.write) /\ ~MovedTo(t.write) /\ t.write.document = d   BY DEF OnDisk, MovedTo, Rewrites
<1>6. Served(t)   BY DEF Faithful, Served, WriteIsNext, Rewrites, Writing
<1>7. Clean(t, d)   BY <1>2, <1>3 DEF Clean, Rewrites, Merging
<1>8. Stale(t, d, TRUE) /\ Tracked(t, d, TRUE) /\ Apart(t, d) /\ Seen(t, d)
  BY <1>5 DEF Stale, Tracked, Apart, Seen
<1>9. Chain(t, d)
  <2>1. Pending(s) = {}
    <3>1. s.merges = <<>>   BY <1>2 DEF Faithful, Stored
    <3> QED  BY <3>1 DEF Pending
  <2>2. ~Knows(t, d)   BY <1>2, <1>3, <1>4, <2>1 DEF Knows
  <2>3. Found(s.read) => s.latest = "write"   BY DEF Faithful, Served, Found
  <2> HIDE DEF d
  <2> QED  BY <1>4, <1>5, <2>1, <2>2, <2>3 DEF Chain, Rewrites, Knows
<1> QED  BY <1>4, <1>6, <1>7, <1>8, <1>9 DEF Faithful

LEMMA RereadsWithin ==
    ASSUME NEW s, NEW t, Rereads(s, t), NEW u \in Units, NEW f, NEW V, Within(s, u, f, V),
           t.read.found = f \/ Parse(t.read.found)[u] \in V
    PROVE  Within(t, u, f, V)
BY DEF Rereads, Merging, Within

LEMMA AnswersAreOrdered ==
    ASSUME NEW P, NEW s \in DocumentState(P), NEW f, NEW news, Faithful(s, f, news),
           s.read.step = "queued", s.latest = "read" => s.write.step \notin {"queued", "checked"}
    PROVE  /\ s.latest = "write" => s.write.step = "queued" \/ s.write.step = "none"
           /\ s.write.step \in {"queued", "checked"} => s.latest = "write"
<1>1. s.latest \in {"read", "write"} /\ s.write.step \in {"none", "queued", "checked", "answered"}
  BY DEF DocumentState, Writes
<1> QED  BY <1>1 DEF Faithful, Served

(* A read that found the file says what it holds.                          *)
LEMMA FindFileFaithful ==
    ASSUME NEW P, NEW s \in DocumentState(P), NEW t, NEW f, NEW news, Faithful(s, f, news),
           s.read.step = "queued", s.latest = "read" => s.write.step \notin {"queued", "checked"},
           Rereads(s, t), t.read = [step |-> "answered", outcome |-> "found", found |-> f]
    PROVE  Faithful(t, f, news)
<1>1. /\ Stored(t) = Stored(s) /\ Pending(t) = Pending(s)
      /\ Knows(t, f) = Knows(s, f) /\ Becomes(t, f) = Becomes(s, f)
  BY MergingAlike DEF Rereads
<1>2. /\ s.latest = "write" => s.write.step = "queued" \/ s.write.step = "none"
      /\ s.write.step \in {"queued", "checked"} => s.latest = "write"
  BY AnswersAreOrdered
<1>3. /\ t.read.step = "answered" /\ t.read.outcome = "found" /\ t.read.found = f
      /\ Found(t.read)
  BY DEF Found
<1>4. Served(t)   BY <1>2, <1>3 DEF Faithful, Served, Rereads, Writing
<1>5. Clean(t, f)
  BY <1>2, <1>3 DEF Faithful, Clean, Conditional, OnDisk, Rereads, Merging
<1>6. Stale(t, f, news) /\ Apart(t, f)   BY <1>3 DEF Faithful, Stale, Apart, Rereads, Writing
<1>7. ASSUME f # Broken PROVE Chain(t, f) /\ Tracked(t, f, news)
  <2>1. Chain(s, f) /\ Tracked(s, f, news)   BY <1>7 DEF Faithful
  <2>2. s.latest = "write" => ~MovedTo(s.write)   BY <1>2 DEF MovedTo
  <2>3. Chain(t, f)   BY <1>1, <1>3, <2>1, <2>2 DEF Chain, Rereads, Merging
  <2>4. Tracked(t, f, news)   BY <1>1, <1>3, <2>1 DEF Tracked, WillRead, Rereads
  <2> QED  BY <2>3, <2>4
<1>8. Seen(t, f)
  <2>1. ASSUME NEW u \in Units, Alien(s, f, u) PROVE Alien(t, f, u)
    BY <1>3, <2>1, RereadsWithin DEF Alien
  <2>2. Seen(s, f)   BY DEF Faithful
  <2> QED  BY <1>1, <2>1, <2>2 DEF Seen, Rereads
<1> QED  BY <1>1, <1>4, <1>5, <1>6, <1>7, <1>8 DEF Faithful

(* A read that found nothing is asked for again: by the pass of the ear    *)
(* that the news of the file makes, or by the next.                        *)
LEMMA FailReadFaithful ==
    ASSUME NEW P, NEW s \in DocumentState(P), NEW t, NEW f, NEW news, Faithful(s, f, news),
           s.read.step = "queued", s.latest = "read" => s.write.step \notin {"queued", "checked"},
           Rereads(s, t), t.read.step = "answered", t.read.found = NoFile,
           \/ t.read.outcome \in {"unobtained", "failed"}
           \/ t.read.outcome = "raced" /\ news
    PROVE  /\ Faithful(t, f, news)
           /\ \A u \in Units : \A g, V : Within(s, u, g, V) => Within(t, u, g, V)
<1>1. /\ Stored(t) = Stored(s) /\ Pending(t) = Pending(s)
      /\ Knows(t, f) = Knows(s, f) /\ Becomes(t, f) = Becomes(s, f)
  BY MergingAlike DEF Rereads
<1>2. /\ s.latest = "write" => s.write.step = "queued" \/ s.write.step = "none"
      /\ s.write.step \in {"queued", "checked"} => s.latest = "write"
  BY AnswersAreOrdered
<1>3. ~Found(t.read) /\ ~Found(s.read) /\ t.read.outcome \notin {"found", "none"}
  BY DEF Found
<1>4. Served(t)   BY <1>2, <1>3 DEF Faithful, Served, Rereads, Writing
<1>5. Clean(t, f)
  BY <1>3 DEF Faithful, Clean, Conditional, Rereads, Merging
<1>6. Stale(t, f, news) /\ Apart(t, f)   BY <1>3 DEF Faithful, Stale, Apart, Rereads, Writing
<1>7. ASSUME f # Broken PROVE Chain(t, f) /\ Tracked(t, f, news)
  <2>1. Chain(s, f) /\ Tracked(s, f, news)   BY <1>7 DEF Faithful
  <2>2. Chain(t, f)   BY <1>1, <1>3, <2>1 DEF Chain, Rereads, Merging
  <2>3. Tracked(t, f, news)   BY <1>1, <1>3, <2>1 DEF Tracked, WillRead, Rereads
  <2> QED  BY <2>2, <2>3
<1>8. ASSUME NEW u \in Units, NEW g, NEW V, Within(s, u, g, V) PROVE Within(t, u, g, V)
  <2>1. Parse(t.read.found)[u] \in V   BY <1>8, NoFileIsDefault DEF Within
  <2> QED  BY <1>8, <2>1, RereadsWithin
<1>9. Seen(t, f)
  <2>1. Seen(s, f)   BY DEF Faithful
  <2> QED  BY <1>1, <1>8, <2>1 DEF Seen, Alien, Rereads
<1> QED  BY <1>1, <1>4, <1>5, <1>6, <1>7, <1>8, <1>9 DEF Faithful

(* A press: the file keeps a value of its own, because what is pressed is  *)
(* a value no unit has had, or the revision's.                             *)
LEMMA PressFaithful ==
    ASSUME NEW P, NEW s \in DocumentState(P), NEW f \in Contents, NEW news, Faithful(s, f, news),
           NEW n \in Nat, Young(s, f, n),
           NEW u \in Units, NEW v \in {n + 1, Parse(s.revision)[u]},
           NEW t, Merging(s, t), Asking(s, t), t.desired = [s.desired EXCEPT ![u] = v]
    PROVE  Faithful(t, f, news) /\ Young(t, f, n + 1)
<1>0. s.desired \in Document   BY DEF DocumentState
<1>1. ASSUME NEW x \in Units, NEW g, NEW V, Within(s, x, g, V), n + 1 \in V
      PROVE  Within(t, x, g, V)
  <2>1. t.desired[x] \in {s.desired[x], v} /\ (x # u => t.desired[x] = s.desired[x])
    BY <1>0 DEF Document
  <2>2. t.desired[x] \in V   BY <1>1, <2>1 DEF Within
  <2> QED  BY <1>1, <2>2 DEF Within, Merging, Asking
<1>2. Young(t, f, n + 1)
  <2>1. Young(s, f, n + 1) /\ n + 1 \in 0..(n + 1)   BY YoungGrows
  <2> QED  BY <1>1, <2>1 DEF Young
<1>3. Seen(t, f)
  <2>1. SUFFICES ASSUME f \in Document
                 PROVE  \/ Becomes(t, f) \/ (OnDisk(t.write) /\ t.write.document = f)
                        \/ \E x \in Units : Alien(t, f, x)
    BY DEF Seen
  <2>2. Parse(f) = f   BY <2>1, DocumentsParse
  <2>3. ASSUME NEW x \in Units, Alien(s, f, x) PROVE Alien(t, f, x)
    <3>1. f[x] \in 0..n   BY <2>2 DEF Young
    <3>2. n + 1 \in Nat \ {f[x]}   BY <3>1
    <3> QED  BY <1>1, <2>3, <3>2 DEF Alien
  <2>4. Becomes(t, f) = Becomes(s, f)   BY MergingAlike
  <2> QED  BY <2>1, <2>3, <2>4 DEF Faithful, Seen, Asking
<1> QED  BY <1>2, <1>3, MergingAlike, AskingAlike DEF Faithful

-----------------------------------------------------------------------------
(* The inductive invariant of what the store holds of the file.  A read is *)
(* to be asked for again only while one is on its way, or in the turn that *)
(* has just heard one; what does not parse is set aside only in a merge.   *)

Turns(s, tn) ==
    /\ s.readAgain => Reading(s) \/ tn = "hearing"
    /\ tn # "merging" => s.unmerged = <<>>

Follows == Faithful(store, file, stamped) /\ Turns(store, turn) /\ Young(store, file, presses + saves)

FInv == IInv /\ (dropped \/ Follows)

LEMMA TurnsStay ==
    ASSUME NEW s, NEW t, NEW tn, Turns(s, tn), t.unmerged = s.unmerged,
           t.readAgain = s.readAgain, Reading(s) => Reading(t)
    PROVE  Turns(t, tn)
BY DEF Turns

LEMMA Numbers ==
    ASSUME TypeOK
    PROVE  /\ presses + saves \in Nat /\ presses \in Nat /\ saves \in Nat
           /\ Fresh = (presses + saves) + 1
BY DEF TypeOK, Fresh

LEMMA EditorFollows ==
    ASSUME IInv, Follows, ~Returns, Editor
    PROVE  Follows'
<1>1. PICK c \in Saves : Save(c) \/ FindRaced(c) \/ RaceRead(c)   BY DEF Editor
<1>2. TypeOK /\ store \in DocumentState(Paths) /\ file \in Contents   BY DEF IInv, TypeOK
<1> DEFINE n == presses + saves
<1>3. /\ Faithful(store, file, stamped) /\ Turns(store, turn) /\ Young(store, file, n)
      /\ n \in Nat /\ Fresh = n + 1
  BY <1>2, Numbers DEF Follows
<1>4. c \in Contents /\ c \in Changes /\ c \notin Known   BY <1>2, SavesAreContents DEF Saves
<1>5. Unheld(store, c)   BY <1>4 DEF Unheld, Known
<1>6. New(file, c, n)   BY <1>3, <1>4 DEF New, Changes
<1>7. file' = c /\ stamped' = TRUE /\ turn' = turn /\ (presses + saves)' = n + 1
  <2>1. Saved(c) /\ turn' = turn /\ presses' = presses   BY <1>1 DEF Save, FindRaced, RaceRead
  <2>2. presses' + saves' = (presses + saves) + 1   BY <1>2, <2>1, Numbers DEF Saved
  <2> QED  BY <2>1, <2>2 DEF Saved
<1> HIDE DEF n
<1>8. Faithful(store, c, TRUE) /\ Young(store, c, n + 1)
  BY <1>2, <1>3, <1>4, <1>5, <1>6, SavedFaithful
<1>9. ASSUME Faithful(store', c, TRUE), Turns(store', turn), Young(store', c, n + 1)
      PROVE  Follows'
  BY <1>7, <1>9 DEF Follows
<1>10. CASE Save(c)
  <2>1. store' = store   BY <1>10 DEF Save
  <2> QED  BY <1>3, <1>8, <1>9, <2>1
<1>11. CASE FindRaced(c)
  <2>1. store' = Answered("raced", NoFile, None, {})   BY <1>11 DEF FindRaced
  <2>2. Rewrites(store, store') /\ store'.write.step = "answered"
        /\ store'.write.outcome = "raced" /\ store'.write.theirs = NoFile
    BY <1>2, <2>1, AnsweredIs
  <2>3. store.write.step \in {"queued", "checked"} /\ WriteIsNext(store)
    BY <1>11 DEF FindRaced, WriteIs, WriteIsNext
  <2>4. /\ Faithful(store', c, TRUE)
        /\ \A u \in Units : \A g, V : Within(store, u, g, V) => Within(store', u, g, V)
    BY <1>8, <2>2, <2>3, RefusedFaithful
  <2>5. Young(store', c, n + 1)   BY <1>8, <2>4, YoungStays
  <2>6. Turns(store', turn)   BY <1>3, <2>2, TurnsStay DEF Rewrites, Merging, Reading
  <2> QED  BY <1>9, <2>4, <2>5, <2>6
<1>12. CASE RaceRead(c)
  <2>1. store' = [store EXCEPT !.read = [step |-> "answered", outcome |-> "raced",
                                         found |-> NoFile]]
    BY <1>12 DEF RaceRead
  <2>2. /\ Rereads(store, store') /\ store'.read.step = "answered"
        /\ store'.read.outcome = "raced" /\ store'.read.found = NoFile
    BY <1>2, <2>1 DEF DocumentState, Rereads, Merging
  <2>3. store.read.step = "queued" /\ (store.latest = "read" => store.write.step \notin {"queued", "checked"})
    BY <1>12 DEF RaceRead, ReadIsNext
  <2>4. /\ Faithful(store', c, TRUE)
        /\ \A u \in Units : \A g, V : Within(store, u, g, V) => Within(store', u, g, V)
    BY <1>2, <1>8, <2>2, <2>3, FailReadFaithful
  <2>5. Young(store', c, n + 1)   BY <1>8, <2>4, YoungStays
  <2>6. Turns(store', turn)   BY <1>3, <2>2, TurnsStay DEF Rereads, Merging, Reading
  <2> QED  BY <1>9, <2>4, <2>5, <2>6
<1> QED  BY <1>1, <1>10, <1>11, <1>12

(* A step that leaves the file, and the values there were.                 *)
LEMMA StoreFollows ==
    ASSUME Follows, UNCHANGED <<file, stamped, presses, saves>>,
           Faithful(store', file, stamped), Turns(store', turn'),
           Young(store', file, presses + saves)
    PROVE  Follows'
BY DEF Follows

LEMMA WorkerFollows ==
    ASSUME IInv, Follows, Check \/ FindMoved \/ Refuse \/ FindFile \/ FailRead
    PROVE  Follows'
<1>1. TypeOK /\ store \in DocumentState(Paths) /\ file \in Contents   BY DEF IInv, TypeOK
<1> DEFINE n == presses + saves
<1>2. /\ Faithful(store, file, stamped) /\ Turns(store, turn) /\ Young(store, file, n)
      /\ n \in Nat
  BY <1>1, Numbers DEF Follows
<1>3. UNCHANGED <<turn, file, stamped, presses, saves>>
  BY DEF Check, FindMoved, Refuse, FindFile, FailRead, disk, bounds
<1> HIDE DEF n
<1>4. ASSUME Faithful(store', file, stamped), Turns(store', turn), Young(store', file, n)
      PROVE  Follows'
  BY <1>3, <1>4, StoreFollows DEF n
<1>5. ASSUME Rewrites(store, store') PROVE Turns(store', turn)
  BY <1>2, <1>5, TurnsStay DEF Rewrites, Merging, Reading
<1>6. ASSUME Rereads(store, store'), Reading(store') PROVE Turns(store', turn)
  BY <1>2, <1>6, TurnsStay DEF Rereads, Merging
<1>7. CASE Check
  <2> DEFINE w == [store.write EXCEPT !.step = "checked"]
  <2>1. /\ w.step = "checked" /\ w.document = store.write.document /\ w.base = store.write.base
        /\ w.outcome = store.write.outcome /\ w.theirs = store.write.theirs
        /\ w.left = store.write.left
    BY <1>1 DEF DocumentState, Writes
  <2>2. store' = [store EXCEPT !.write = w]   BY <1>1, <1>7 DEF Check, DocumentState, Writes
  <2> HIDE DEF w
  <2>3. Rewrites(store, store') /\ store'.write = w
    BY <1>1, <2>1, <2>2 DEF DocumentState, Rewrites, Merging
  <2>4. store.write.step = "queued" /\ WriteIsNext(store) /\ store.write.base = file
    BY <1>7 DEF Check, WriteIs, WriteIsNext
  <2>5. /\ Faithful(store', file, stamped)
        /\ \A u \in Units : \A g, V : Within(store, u, g, V) => Within(store', u, g, V)
    BY <1>2, <2>1, <2>3, <2>4, CheckFaithful
  <2> QED  BY <1>2, <1>4, <1>5, <2>3, <2>5, YoungStays
<1>8. CASE FindMoved
  <2>1. store' = Answered("moved", file, None, {})   BY <1>8 DEF FindMoved
  <2>2. Rewrites(store, store') /\ store'.write.step = "answered"
        /\ store'.write.outcome = "moved" /\ store'.write.theirs = file
    BY <1>1, <2>1, AnsweredIs
  <2>3. store.write.step \in {"queued", "checked"} /\ WriteIsNext(store)
    BY <1>8 DEF FindMoved, WriteIs, WriteIsNext
  <2>4. Faithful(store', file, stamped)   BY <1>1, <1>2, <2>2, <2>3, FindMovedFaithful
  <2>5. Young(store', file, n)
    <3>1. ASSUME NEW u \in Units PROVE Within(store', u, Broken, 0..n)
      <4>1. Within(store, u, Broken, 0..n) /\ Parse(store'.write.theirs)[u] \in 0..n
        BY <1>2, <2>2 DEF Young
      <4> QED  BY <2>2, <4>1, AnsweredWithin
    <3> QED  BY <1>2, <3>1 DEF Young
  <2> QED  BY <1>4, <1>5, <2>2, <2>4, <2>5
<1>9. CASE Refuse
  <2>1. store' = Answered("refused", NoFile, None, {})   BY <1>9 DEF Refuse
  <2>2. Rewrites(store, store') /\ store'.write.step = "answered"
        /\ store'.write.outcome = "refused" /\ store'.write.theirs = NoFile
    BY <1>1, <2>1, AnsweredIs
  <2>3. store.write.step \in {"queued", "checked"} /\ WriteIsNext(store)
    BY <1>9 DEF Refuse, WriteIs, WriteIsNext
  <2>4. /\ Faithful(store', file, stamped)
        /\ \A u \in Units : \A g, V : Within(store, u, g, V) => Within(store', u, g, V)
    BY <1>2, <2>2, <2>3, RefusedFaithful
  <2> QED  BY <1>2, <1>4, <1>5, <2>2, <2>4, YoungStays
<1>10. ASSUME FindFile \/ FailRead, NEW r, store' = [store EXCEPT !.read = r], r.step = "answered"
       PROVE  /\ Rereads(store, store') /\ store'.read = r /\ Reading(store')
              /\ store.read.step = "queued"
              /\ store.latest = "read" => store.write.step \notin {"queued", "checked"}
  BY <1>1, <1>10 DEF DocumentState, Rereads, Merging, Reading, FindFile, FailRead, ReadIsNext
<1>11. CASE FindFile
  <2> DEFINE r == [step |-> "answered", outcome |-> "found", found |-> file]
  <2>1. store' = [store EXCEPT !.read = r] /\ r.step = "answered" /\ r.found = file
    BY <1>11 DEF FindFile
  <2> HIDE DEF r
  <2>2. /\ Rereads(store, store') /\ store'.read = r /\ Reading(store')
        /\ store.read.step = "queued"
        /\ store.latest = "read" => store.write.step \notin {"queued", "checked"}
    BY <1>10, <1>11, <2>1
  <2>3. Faithful(store', file, stamped)   BY <1>1, <1>2, <2>2, FindFileFaithful DEF r
  <2>4. Young(store', file, n)
    <3>1. ASSUME NEW u \in Units PROVE Within(store', u, Broken, 0..n)
      <4>1. Within(store, u, Broken, 0..n) /\ Parse(store'.read.found)[u] \in 0..n
        BY <1>2, <2>1, <2>2 DEF Young
      <4> QED  BY <2>2, <4>1, RereadsWithin
    <3> QED  BY <1>2, <3>1 DEF Young
  <2> QED  BY <1>4, <1>6, <2>2, <2>3, <2>4
<1>12. CASE FailRead
  <2>1. PICK outcome \in {"unobtained", "failed"} :
            store' = [store EXCEPT !.read = [step |-> "answered", outcome |-> outcome,
                                             found |-> NoFile]]
    BY <1>12 DEF FailRead
  <2> DEFINE r == [step |-> "answered", outcome |-> outcome, found |-> NoFile]
  <2>a. /\ store' = [store EXCEPT !.read = r] /\ r.step = "answered"
        /\ r.outcome \in {"unobtained", "failed"} /\ r.found = NoFile
    BY <2>1
  <2> HIDE DEF r
  <2>2. /\ Rereads(store, store') /\ store'.read = r /\ Reading(store')
        /\ store.read.step = "queued"
        /\ store.latest = "read" => store.write.step \notin {"queued", "checked"}
    BY <1>10, <1>12, <2>a
  <2>3. /\ Faithful(store', file, stamped)
        /\ \A u \in Units : \A g, V : Within(store, u, g, V) => Within(store', u, g, V)
    BY <1>1, <1>2, <2>a, <2>2, FailReadFaithful
  <2> QED  BY <1>2, <1>4, <1>6, <2>2, <2>3, YoungStays
<1> QED  BY <1>7, <1>8, <1>9, <1>11, <1>12

LEMMA PlacesFollow ==
    ASSUME IInv, Follows, Place \/ PlaceUndurably \/ Displace \/ DisplaceUnread
    PROVE  Follows'
<1>1. TypeOK /\ store \in DocumentState(Paths) /\ file \in Contents /\ made \in Nat
  BY DEF IInv, TypeOK
<1> DEFINE n == presses + saves
<1>2. /\ Faithful(store, file, stamped) /\ Turns(store, turn) /\ Young(store, file, n)
      /\ n \in Nat
  BY <1>1, Numbers DEF Follows
<1>3. /\ file' = store.write.document /\ stamped' = TRUE
      /\ UNCHANGED <<turn, presses, saves>>
      /\ store.write.step = "checked" /\ WriteIsNext(store)
  BY DEF Place, PlaceUndurably, Displace, DisplaceUnread, Placed, Written, WriteIs, WriteIsNext
<1> DEFINE gone == RetiredBy(store.write.kept, store.write.version)
<1>4. \E outcome \in {"landed", "displaced"}, theirs \in {NoFile, file},
         left \in {None, made + 1}, retired \in {{}, gone} :
          /\ outcome = "displaced" => left # None
          /\ store' = Answered(outcome, theirs, left, retired)
  <2>1. made + 1 # None   BY <1>1 DEF None
  <2> QED  BY <2>1 DEF Place, PlaceUndurably, Displace, DisplaceUnread
<1>5. PICK outcome \in {"landed", "displaced"}, theirs \in {NoFile, file},
           left \in {None, made + 1}, retired \in {{}, gone} :
          /\ outcome = "displaced" => left # None
          /\ store' = Answered(outcome, theirs, left, retired)
  BY <1>4
<1> HIDE DEF n, gone
<1>6. /\ Rewrites(store, store')
      /\ store'.write.step = "answered" /\ store'.write.outcome = outcome
      /\ store'.write.theirs = theirs /\ store'.write.left = left
  BY <1>1, <1>5, AnsweredIs
<1>7. Faithful(store', store.write.document, TRUE)
  BY <1>1, <1>2, <1>3, <1>5, <1>6, PlacedFaithful
<1>8. Turns(store', turn)   BY <1>2, <1>6, TurnsStay DEF Rewrites, Merging, Reading
<1>9. Young(store', store.write.document, n)
  <2>1. ASSUME NEW u \in Units
        PROVE  Within(store', u, Broken, 0..n) /\ Parse(store.write.document)[u] \in 0..n
    <3>1. Within(store, u, Broken, 0..n) /\ Parse(file)[u] \in 0..n   BY <1>2 DEF Young
    <3>2. Parse(NoFile)[u] \in 0..n   BY <3>1, NoFileIsDefault DEF Within
    <3>3. Parse(store'.write.theirs)[u] \in 0..n   BY <1>6, <3>1, <3>2
    <3>4. Within(store', u, Broken, 0..n)   BY <1>6, <3>1, <3>3, AnsweredWithin
    <3>5. store.write.document \in Document   BY <1>1 DEF DocumentState, Writes
    <3>6. Parse(store.write.document) = store.write.document   BY <3>5, DocumentsParse
    <3> QED  BY <3>1, <3>4, <3>6 DEF Within
  <2> QED  BY <2>1 DEF Young
<1> QED  BY <1>3, <1>7, <1>8, <1>9 DEF Follows, n

LEMMA AnswersKeepUnmerged ==
    ASSUME NEW P, NEW s \in DocumentState(P)
    PROVE  /\ s.write.outcome # "none" =>
                  /\ OnDocument(s).unmerged = s.unmerged
                  /\ OnDocument(s).read = s.read /\ OnDocument(s).readAgain = s.readAgain
           /\ OnRead(s).unmerged = s.unmerged
<1>1. ASSUME s.write.outcome # "none"
      PROVE  /\ OnDocument(s).unmerged = s.unmerged
             /\ OnDocument(s).read = s.read /\ OnDocument(s).readAgain = s.readAgain
  <2> DEFINE t == OnDocument(s)
  <2>1. WriteTaken(s, t)   BY <1>1, OnDocumentEffect
  <2>2. \/ t.unmerged = s.unmerged
        \/ \E a \in DocumentState(P) :
              /\ Merging(s, a) /\ t = Keep(a, Moved(a, s.write.theirs))
    BY <1>1, OnDocumentEffect DEF Merging
  <2>3. ASSUME NEW a \in DocumentState(P), Merging(s, a), t = Keep(a, Moved(a, s.write.theirs))
        PROVE  t.unmerged = s.unmerged
    <3>1. s.write.theirs \in Contents   BY DEF DocumentState, Writes
    <3>2. Moved(a, s.write.theirs) \in Merges(P)   BY <3>1, MovedTyped
    <3> HIDE DEF t
    <3> QED  BY <2>3, <3>2, KeepEffect DEF Merging
  <2> QED  BY <2>1, <2>2, <2>3 DEF WriteTaken
<1>2. OnRead(s).unmerged = s.unmerged
  <2> DEFINE t == OnRead(s)
             c == s.read.found
  <2>1. \/ t.unmerged = s.unmerged
        \/ \E a \in DocumentState(P) :
              /\ Merging(s, a)
              /\ t = IF s.held THEN [Keep(a, Moved(a, c)) EXCEPT !.revision = c]
                     ELSE Keep(a, Moved(a, c))
    BY OnReadEffect DEF Merging
  <2>2. ASSUME NEW a \in DocumentState(P), Merging(s, a),
               t = IF s.held THEN [Keep(a, Moved(a, c)) EXCEPT !.revision = c]
                   ELSE Keep(a, Moved(a, c))
        PROVE  t.unmerged = s.unmerged
    <3> DEFINE k == Keep(a, Moved(a, c))
    <3>1. c \in Contents   BY DEF DocumentState, Reads
    <3>2. Moved(a, c) \in Merges(P)   BY <3>1, MovedTyped
    <3>3. k \in DocumentState(P) /\ k.unmerged = a.unmerged   BY <3>2, KeepTyped, KeepEffect
    <3> HIDE DEF t, k
    <3>4. t = IF s.held THEN [k EXCEPT !.revision = c] ELSE k   BY <2>2 DEF k
    <3>5. [k EXCEPT !.revision = c].unmerged = k.unmerged   BY <3>3 DEF DocumentState
    <3> QED  BY <2>2, <3>3, <3>4, <3>5 DEF Merging
  <2> QED  BY <2>1, <2>2
<1> QED  BY <1>1, <1>2

LEMMA DrainFollows ==
    ASSUME IInv, Follows, EarPass \/ BeginDrain \/ Hear \/ AnswersHeard \/ MergeOne
    PROVE  Follows'
<1>1. TypeOK /\ store \in DocumentState(Paths) /\ file \in Contents /\ Given(store)
  BY DEF IInv, TypeOK
<1> DEFINE n == presses + saves
<1>2. /\ Faithful(store, file, stamped) /\ Turns(store, turn) /\ Young(store, file, n)
      /\ n \in Nat
  BY <1>1, Numbers DEF Follows
<1>3. UNCHANGED <<file, presses, saves>>
  BY DEF EarPass, BeginDrain, Hear, AnswersHeard, MergeOne, disk, bounds
<1> HIDE DEF n
<1>4. ASSUME Faithful(store', file, stamped), stamped' = stamped, Turns(store', turn'),
             Young(store', file, n)
      PROVE  Follows'
  BY <1>3, <1>4, StoreFollows DEF n
<1>5. CASE EarPass
  <2>1. store' = AskRead(store) /\ stamped' = FALSE /\ turn' = turn /\ turn = "idle"
    BY <1>5 DEF EarPass
  <2>2. Faithful(store', file, FALSE)   BY <1>1, <1>2, <2>1, AskReadFaithful
  <2>3. \A u \in Units : \A V : Within(store, u, Broken, V) => Within(store', u, Broken, V)
    BY <1>1, <2>1, AskReadWithin
  <2>4. Young(store', file, n)   BY <1>2, <2>3, YoungStays
  <2>5. Turns(store', turn)   BY <1>1, <1>2, <2>1, AskReadEffect DEF Turns, Merging, Reading
  <2> QED  BY <1>3, <2>1, <2>2, <2>4, <2>5 DEF Follows, n
<1>6. CASE BeginDrain
  <2>1. store' = store /\ stamped' = stamped /\ turn' = "hearing" /\ turn = "idle"
    BY <1>6 DEF BeginDrain, disk
  <2>2. Turns(store', turn')   BY <1>2, <2>1 DEF Turns
  <2> QED  BY <1>2, <1>4, <2>1, <2>2
<1>7. CASE Hear
  <2>0. stamped' = stamped /\ turn' = turn /\ turn = "hearing"   BY <1>7 DEF Hear, disk
  <2>1. CASE WriteToHear /\ store' = OnDocument(store)
    <3>1. store.write.step = "answered" /\ store.write.outcome # "none"
          /\ (store.latest = "write" => ~Reading(store))
      BY <1>1, <2>1 DEF Given, WriteToHear
    <3>2. Faithful(store', file, stamped)   BY <1>1, <1>2, <2>1, <3>1, OnDocumentFaithful
    <3>3. \A u \in Units : \A V : Within(store, u, Broken, V) => Within(store', u, Broken, V)
      BY <1>1, <2>1, <3>1, OnDocumentWithin
    <3>4. Young(store', file, n)   BY <1>2, <3>3, YoungStays
    <3>5. Turns(store', turn')
      BY <1>1, <1>2, <2>0, <2>1, <3>1, AnswersKeepUnmerged DEF Turns
    <3> QED  BY <1>4, <2>0, <3>2, <3>4, <3>5
  <2>2. CASE ReadToHear /\ store' = OnRead(store)
    <3>1. store.read.step = "answered" /\ (store.latest = "read" => ~Writing(store))
      BY <2>2 DEF ReadToHear
    <3>2. Faithful(store', file, stamped)   BY <1>1, <1>2, <2>2, <3>1, OnReadFaithful
    <3>3. Young(store', file, n)
      <4>1. ASSUME NEW u \in Units PROVE Within(store', u, Broken, 0..n)
        <5>1. Within(store, u, Broken, 0..n)   BY <1>2 DEF Young
        <5>2. Parse(Broken)[u] \in 0..n   BY <5>1, NoFileIsDefault DEF Within
        <5> QED  BY <1>1, <2>2, <3>1, <5>1, <5>2, OnReadWithin
      <4> QED  BY <1>2, <4>1 DEF Young
    <3>4. Turns(store', turn')   BY <1>1, <1>2, <2>0, <2>2, AnswersKeepUnmerged DEF Turns
    <3> QED  BY <1>4, <2>0, <3>2, <3>3, <3>4
  <2> QED  BY <1>7, <2>1, <2>2 DEF Hear
<1>8. CASE AnswersHeard
  <2>1. store' = AfterAnswers(store) /\ stamped' = stamped /\ turn = "hearing"
    BY <1>8 DEF AnswersHeard, disk
  <2>2. /\ Faithful(store', file, stamped)
        /\ store'.unmerged = store.unmerged
        /\ store'.readAgain => Reading(store')
        /\ \A u \in Units : \A g, V : Within(store, u, g, V) => Within(store', u, g, V)
    BY <1>1, <1>2, <2>1, AfterAnswersFaithful
  <2>3. Young(store', file, n)   BY <1>2, <2>2, YoungStays
  <2>4. Turns(store', turn')   BY <1>2, <2>1, <2>2 DEF Turns
  <2> QED  BY <1>4, <2>1, <2>2, <2>3, <2>4
<1>9. CASE MergeOne
  <2>1. store' = MergeHead(store) /\ store.merges # <<>> /\ stamped' = stamped
        /\ turn = "merging" /\ turn' = "merging"
    BY <1>9 DEF MergeOne, disk
  <2>2. PICK m : Heads(store, store', m)   BY <1>1, <2>1, MergeHeadEffect
  <2>3. Faithful(store', file, stamped)   BY <1>1, <1>2, <2>2, MergeHeadFaithful
  <2>4. Young(store', file, n)
    <3>1. ASSUME NEW u \in Units PROVE Within(store', u, Broken, 0..n)
      <4>1. Within(store, u, Broken, 0..n)   BY <1>2 DEF Young
      <4> QED  BY <2>2, <4>1, MergeHeadWithin DEF Foldable
    <3> QED  BY <1>2, <3>1 DEF Young
  <2>5. Turns(store', turn')   BY <1>2, <2>1, <2>2 DEF Turns, Heads, Asking, Reading
  <2> QED  BY <1>4, <2>1, <2>3, <2>4, <2>5
<1> QED  BY <1>5, <1>6, <1>7, <1>8, <1>9

(* Nothing of what the store holds of the file is in its flags.            *)
LEMMA FlagsAlike ==
    ASSUME NEW P, NEW s \in DocumentState(P), NEW b \in BOOLEAN
    PROVE  /\ LET t == [s EXCEPT !.atQuit = b]
              IN  Merging(s, t) /\ Asking(s, t) /\ t.desired = s.desired
           /\ LET t == [s EXCEPT !.refused = b]
              IN  Merging(s, t) /\ Asking(s, t) /\ t.desired = s.desired
BY DEF DocumentState, Merging, Asking

LEMMA AlikeFollows ==
    ASSUME NEW s, NEW t, NEW f, NEW news, NEW tn, NEW n, Merging(s, t), Asking(s, t),
           t.desired = s.desired, Faithful(s, f, news), Turns(s, tn), Young(s, f, n)
    PROVE  Faithful(t, f, news) /\ Turns(t, tn) /\ Young(t, f, n)
<1>1. Faithful(t, f, news)   BY FaithfulAlike
<1>2. Turns(t, tn)   BY TurnsStay DEF Merging, Asking, Reading
<1>3. ASSUME NEW u \in Units, NEW V, Within(s, u, Broken, V) PROVE Within(t, u, Broken, V)
  BY <1>3 DEF Within, Merging, Asking
<1>4. Young(t, f, n)   BY <1>3, YoungStays
<1> QED  BY <1>1, <1>2, <1>4

LEMMA SendFollows ==
    ASSUME NEW P, NEW s \in DocumentState(P), NEW f \in Contents, NEW news, NEW tn, NEW n,
           Faithful(s, f, news), Turns(s, tn), Young(s, f, n),
           NEW t \in {s, SendOwed(s)}
    PROVE  Faithful(t, f, news) /\ Turns(t, tn) /\ Young(t, f, n)
<1>1. CASE t = SendOwed(s)
  <2>1. Faithful(t, f, news)   BY <1>1, SendOwedFaithful
  <2>2. Turns(t, tn)   BY <1>1, SendOwedEffect, TurnsStay DEF Merging, Reading
  <2>3. \A u \in Units : \A V : Within(s, u, Broken, V) => Within(t, u, Broken, V)
    BY <1>1, SendOwedWithin
  <2>4. Young(t, f, n)   BY <2>3, YoungStays
  <2> QED  BY <2>1, <2>2, <2>4
<1> QED  BY <1>1

LEMMA EndMergeFollows ==
    ASSUME IInv, Follows, EndMerge \/ QuitTurn
    PROVE  Follows'
<1>1. TypeOK /\ store \in DocumentState(Paths) /\ file \in Contents
  BY DEF IInv, TypeOK
<1> DEFINE n == presses + saves
<1>2. /\ Faithful(store, file, stamped) /\ Turns(store, turn) /\ Young(store, file, n)
  BY DEF Follows
<1>3. UNCHANGED <<file, stamped, presses, saves>> /\ turn = "merging" /\ turn' = "idle"
      /\ store.merges = <<>>
  BY DEF EndMerge, QuitTurn, disk, bounds
<1>4. \E b \in BOOLEAN : LET t == Merged([store EXCEPT !.atQuit = b])
                         IN  store' \in {t, SendOwed(t)}
  <2>1. (store.atQuit \/ store.folded) \in BOOLEAN   OBVIOUS
  <2>2. CASE EndMerge   BY <2>2 DEF EndMerge
  <2>3. CASE QuitTurn
    <3> DEFINE t == Merged([store EXCEPT !.atQuit = store.atQuit \/ store.folded])
    <3>1. store' = SendUnsent(t)   BY <1>1, <2>3 DEF QuitTurn, DocumentState
    <3> HIDE DEF t
    <3>2. store' \in {t, SendOwed(t)}   BY <3>1 DEF SendUnsent
    <3> QED  BY <2>1, <3>2 DEF t
  <2> QED  BY <2>2, <2>3
<1>5. PICK b \in BOOLEAN : LET t == Merged([store EXCEPT !.atQuit = b])
                           IN  store' \in {t, SendOwed(t)}
  BY <1>4
<1> DEFINE s == [store EXCEPT !.atQuit = b]
           t == Merged(s)
<1> HIDE DEF n
<1>6. /\ s \in DocumentState(Paths) /\ Merging(store, s) /\ Asking(store, s)
      /\ s.desired = store.desired
  BY <1>1, FlagsTyped, FlagsAlike
<1>7. store' \in {t, SendOwed(t)}   BY <1>5
<1> HIDE DEF s
<1>8. Faithful(s, file, stamped) /\ Turns(s, turn) /\ Young(s, file, n)
  BY <1>2, <1>6, AlikeFollows
<1>9. s.merges = <<>>   BY <1>3, <1>6 DEF Merging
<1>10. t \in DocumentState(Paths)   BY <1>6, MergedTyped
<1>11. /\ Faithful(t, file, stamped)
       /\ \A u \in Units : \A g, V : Within(s, u, g, V) => Within(t, u, g, V)
  BY <1>6, <1>8, <1>9, MergedFaithful
<1>12. Young(t, file, n)   BY <1>8, <1>11, YoungStays
<1>13. Turns(t, "idle")
  BY <1>3, <1>6, <1>8, MergedEffect DEF Turns, Asking, Reading
<1> HIDE DEF t
<1>14. Faithful(store', file, stamped) /\ Turns(store', "idle") /\ Young(store', file, n)
  BY <1>1, <1>7, <1>10, <1>11, <1>12, <1>13, SendFollows
<1> QED  BY <1>3, <1>14, StoreFollows DEF n

LEMMA PersonFollows ==
    ASSUME IInv, Follows, Person, ~dropped'
    PROVE  Follows'
<1>1. TypeOK /\ store \in DocumentState(Paths) /\ file \in Contents
  BY DEF IInv, TypeOK
<1> DEFINE n == presses + saves
<1>2. /\ Faithful(store, file, stamped) /\ Turns(store, turn) /\ Young(store, file, n)
      /\ n \in Nat /\ Fresh = n + 1
  BY <1>1, Numbers DEF Follows
<1>3. UNCHANGED <<file, stamped, saves, turn>>
  BY DEF Person, Press, PressAgain, QuitBegin, LeaveWithout, disk, bounds
<1>4. ASSUME presses' = presses,
             Faithful(store', file, stamped), Turns(store', turn), Young(store', file, n)
      PROVE  Follows'
  BY <1>3, <1>4, StoreFollows
<1>5. ASSUME NEW u \in Units, Press(u) PROVE Follows'
  <2>1. PICK v \in {Fresh, Parse(store.revision)[u]} :
           store' = SendOwed([store EXCEPT !.desired[u] = v, !.version = @ + 1])
    BY <1>5 DEF Press
  <2> DEFINE t == [store EXCEPT !.desired[u] = v, !.version = @ + 1]
  <2>2. presses' + saves' = n + 1
    <3>1. presses' = presses + 1 /\ saves' = saves   BY <1>3, <1>5 DEF Press
    <3> QED  BY <1>1, <3>1, Numbers
  <2>3. v \in Nat
    BY <1>1, <1>2, ContentsHaveDocuments DEF DocumentState, Document
  <2>4. t \in DocumentState(Paths)   BY <1>1, <2>3, PressTyped
  <2>5. Merging(store, t) /\ Asking(store, t) /\ t.desired = [store.desired EXCEPT ![u] = v]
    BY <1>1 DEF DocumentState, Merging, Asking
  <2>6. store' = SendOwed(t)   BY <2>1
  <2> HIDE DEF t, n
  <2>7. v \in {n + 1, Parse(store.revision)[u]}   BY <1>2
  <2>8. Faithful(t, file, stamped) /\ Young(t, file, n + 1)
    BY <1>1, <1>2, <2>5, <2>7, PressFaithful
  <2>9. Turns(t, turn)   BY <1>2, <2>5, TurnsStay DEF Merging, Asking, Reading
  <2>10. Faithful(store', file, stamped) /\ Turns(store', turn) /\ Young(store', file, n + 1)
    BY <1>1, <2>4, <2>6, <2>8, <2>9, SendFollows
  <2> QED  BY <1>3, <2>2, <2>10 DEF Follows
<1> HIDE DEF n
<1>6. CASE PressAgain
  <2>1. store' = SendOwed(store) /\ presses' = presses   BY <1>6 DEF PressAgain, bounds
  <2> QED  BY <1>1, <1>2, <1>4, <2>1, SendFollows
<1>7. ASSUME store' = SendUnsent([store EXCEPT !.refused = FALSE]), presses' = presses
      PROVE  Follows'
  <2> DEFINE s == [store EXCEPT !.refused = FALSE]
  <2>1. /\ s \in DocumentState(Paths) /\ Merging(store, s) /\ Asking(store, s)
        /\ s.desired = store.desired
    BY <1>1, FlagsTyped, FlagsAlike
  <2>2. store' = SendUnsent(s)   BY <1>7
  <2> HIDE DEF s
  <2>3. store' \in {s, SendOwed(s)}   BY <2>2 DEF SendUnsent
  <2>4. Faithful(s, file, stamped) /\ Turns(s, turn) /\ Young(s, file, n)
    BY <1>2, <2>1, AlikeFollows
  <2> QED  BY <1>1, <1>4, <1>7, <2>1, <2>3, <2>4, SendFollows
<1>8. CASE QuitBegin   BY <1>7, <1>8 DEF QuitBegin
<1>9. CASE LeaveWithout
  <2>1. ~Owed(store)   BY <1>9 DEF LeaveWithout
  <2>2. DropOwed(store) = store   BY <1>1, <2>1, DropOwedKeeps
  <2> QED  BY <1>7, <1>9, <2>2 DEF LeaveWithout
<1> QED  BY <1>5, <1>6, <1>8, <1>9 DEF Person

LEMMA QuitFollows ==
    ASSUME Follows, QuitGoesOn \/ QuitFails
    PROVE  Follows'
BY DEF QuitGoesOn, QuitFails, CopyKept, Leave, QuitOutOfTime, CopyRefused, SessionRefused,
       Fault, disk, bounds, Follows

LEMMA OpenedFollows == Init => FInv
<1> SUFFICES ASSUME Init
             PROVE  Faithful(store, file, stamped) /\ Turns(store, turn)
                    /\ Young(store, file, presses + saves)
  BY InitIsSafe DEF FInv, Follows
<1> DEFINE s == Opened(file)
<1>1. file \in {NoFile, Default} /\ store = s /\ stamped = FALSE /\ turn = "idle"
      /\ presses = 0 /\ saves = 0
  BY DEF Init
<1>2. Parse(file) = Default /\ file # Broken
  BY <1>1, SentinelsAreContents, DocumentsParse, NoFileIsDefault, DocumentAssumption
<1>3. /\ s.desired = Default /\ s.revision = file /\ s.write = NoWrite /\ s.read = NoRead
      /\ s.readAgain = FALSE /\ s.merges = <<>> /\ s.unmerged = <<>>
  BY <1>2 DEF Opened
<1>4. /\ s.write.step = "none" /\ s.write.outcome = "none" /\ s.write.document = Default
      /\ s.write.base = NoFile /\ s.write.theirs = NoFile
      /\ s.read.step = "none" /\ s.read.found = NoFile
  BY <1>3 DEF NoWrite, NoRead
<1> HIDE DEF s
<1>5. Pending(s) = {} /\ Becomes(s, file)   BY <1>3 DEF Pending, Becomes
<1>6. Stored(s)
  <2>1. Len(s.unmerged) = 0 /\ s.revision # Broken   BY <1>2, <1>3
  <2> QED  BY <1>3, <2>1 DEF Stored
<1>7. Served(s) /\ Clean(s, file) /\ Stale(s, file, FALSE) /\ Apart(s, file)
  <2>1. ~OnDisk(s.write) /\ ~Conditional(s, file) /\ ~Writing(s)
    BY <1>4 DEF OnDisk, Conditional, Writing
  <2>2. Served(s)   BY <1>4, <2>1 DEF Served
  <2>3. Clean(s, file) /\ Apart(s, file)   BY <2>1 DEF Clean, Apart
  <2>4. Stale(s, file, FALSE)   BY <1>4 DEF Stale
  <2> QED  BY <2>2, <2>3, <2>4
<1>8. Chain(s, file)   BY <1>4, <1>5 DEF Chain, Found, OnDisk, MovedTo
<1>9. Tracked(s, file, FALSE) /\ Seen(s, file)   BY <1>4, <1>5 DEF Tracked, OnDisk, MovedTo, Seen
<1>10. Turns(s, turn)   BY <1>3 DEF Turns
<1>11. Young(s, file, 0)
  <2>1. Len(s.merges) = 0   BY <1>3
  <2>2. ASSUME NEW u \in Units PROVE Within(s, u, Broken, 0..0) /\ Parse(file)[u] \in 0..0
    <3>1. PICK V : V = 0..0   OBVIOUS
    <3>2. 0 \in V   BY <3>1
    <3>3. Default[u] = 0   BY NoFileIsDefault
    <3>4. Parse(file)[u] \in V /\ Parse(NoFile)[u] \in V   BY <1>2, <3>2, <3>3, NoFileIsDefault
    <3>5. Within(s, u, Broken, V)   BY <1>3, <1>4, <2>1, <3>2, <3>3, <3>4 DEF Within
    <3> QED  BY <3>1, <3>4, <3>5
  <2> QED  BY <2>2 DEF Young
<1>12. Faithful(store, file, stamped)   BY <1>1, <1>6, <1>7, <1>8, <1>9 DEF Faithful
<1>13. presses + saves = 0   BY <1>1
<1> QED  BY <1>1, <1>10, <1>11, <1>12, <1>13

LEMMA LeavingIsKept == Next /\ dropped => dropped'
BY DEF Next, Editor, Save, FindRaced, RaceRead, WorkerGoesOn, WorkerFails, Check, FindMoved,
       Place, Displace, DisplaceUnread, Placed, Written, FindFile, Refuse, PlaceUndurably, FailRead,
       EarPass, BeginDrain,
       WindowGoesOn, Hear, AnswersHeard, MergeOne, EndMerge, QuitTurn, Person, Press, PressAgain,
       QuitBegin, LeaveWithout, QuitGoesOn, CopyKept, Leave, QuitFails, QuitOutOfTime, CopyRefused,
       SessionRefused, history

LEMMA StepFollows == FInv /\ ~Returns /\ [Next]_vars => FInv'
<1> SUFFICES ASSUME FInv, ~Returns, [Next]_vars
             PROVE  FInv'
  OBVIOUS
<1>1. IInv /\ IInv'   BY StepKeeps DEF FInv
<1>2. CASE UNCHANGED vars
  BY <1>1, <1>2 DEF vars, disk, bounds, history, FInv, Follows
<1>3. CASE Next
  <2>1. dropped => dropped'   BY <1>3, LeavingIsKept
  <2>2. SUFFICES ASSUME ~dropped' PROVE Follows'
    BY <1>1 DEF FInv
  <2>3. Follows   BY <2>1, <2>2 DEF FInv
  <2> QED  BY <1>1, <1>3, <2>2, <2>3, EditorFollows, WorkerFollows, PlacesFollow, DrainFollows,
              EndMergeFollows, PersonFollows, QuitFollows
           DEF Next, WorkerGoesOn, WorkerFails, WindowGoesOn
<1> QED  BY <1>2, <1>3

LEMMA FollowsReaches == FInv => RevisionIsTheFile
<1> SUFFICES ASSUME FInv, Quiet, file # Broken
             PROVE  store.revision = file
  BY DEF RevisionIsTheFile
<1>1. Tracked(store, file, stamped) /\ Turns(store, turn)
  BY DEF FInv, Follows, Faithful, Quiet
<1>2. ~OnDisk(store.write) /\ ~MovedTo(store.write) /\ ~WillRead(store, file)
      /\ ~store.readAgain
  BY <1>1 DEF Quiet, OnDisk, MovedTo, WillRead, Turns, Writing, Reading
<1>3. Becomes(store, file)   BY <1>1, <1>2 DEF Tracked, Quiet
<1>4. Pending(store) = {}   BY DEF Pending, Quiet
<1> QED  BY <1>3, <1>4 DEF Becomes

(* Once all is heard, a document's revision is what its file holds, so the *)
(* next write is conditional on the right bytes (Revision::landed, adopt,  *)
(* is_folios_own_write): for every set of units, every number of presses   *)
(* and saves and every fault, if the editor saves nothing again that Folio *)
(* still holds.                                                            *)
THEOREM RevisionFollowsTheFile == ~Returns => (Spec => []RevisionIsTheFile)
<1> SUFFICES ASSUME ~Returns PROVE Spec => []RevisionIsTheFile
  OBVIOUS
<1>1. FInv /\ [Next]_vars => FInv'   BY StepFollows
<1> QED  BY OpenedFollows, <1>1, FollowsReaches, PTL DEF Spec

-----------------------------------------------------------------------------
(* What still goes by itself.                                              *)

(* A file waits that its merge will fold in, or store again.               *)
ToFold(s)   == (\E i \in 1..Len(s.merges) : Matters(s.merges[i])) \/ s.unmerged # <<>>
Underway(s) == Writing(s) /\ s.write.outcome # "raced"
WillMerge(q)  == q \in {"none", "cancelled", "documents"}    \* a drain merges

(* What the marks of the store say of the turn, and of what waits.         *)
Marked(s, tn) ==
    /\ s.landed => tn = "hearing" /\ ~Writing(s)
    /\ s.folded => tn = "merging"
    /\ s.refused => s.retryOnEar
    /\ tn # "merging" /\ s.held => s.merges # <<>>
    /\ \A i \in 1..Len(s.unmerged) : s.unmerged[i].kept = None

(* What was wanted since the write was sent is sent after it.              *)
Later(s, late) ==
    Writing(s) /\ s.desired # s.write.document =>
        s.sendAgain \/ s.atQuit \/ s.folded \/ ToFold(s) \/ late

(* What is owed goes after an answer, a merge, or the news of the file.    *)
Goes(s, f, late) == Underway(s) \/ s.sendAgain \/ s.retryOnEar \/ late \/ f # s.revision
Owing(s, f, late) ==
    Owed(s) => \/ Goes(s, f, late) \/ s.folded \/ s.atQuit \/ ToFold(s)
               \/ s.landed /\ ~s.held

(* What a quit merged goes with the quit, or once it is called off.        *)
AtLast(s, tn, q, f, late) ==
    tn # "merging" /\ Owed(s) /\ ~s.held =>
        \/ Goes(s, f, late) \/ s.landed
        \/ s.atQuit /\ WillMerge(q) /\ (Writing(s) \/ tn = "hearing")

Triggered(s, tn, q, f, late) ==
    Marked(s, tn) /\ Later(s, late) /\ Owing(s, f, late) /\ AtLast(s, tn, q, f, late)

Flagged(s, t) ==    \* t has the flags of s
    /\ t.sendAgain = s.sendAgain /\ t.retryOnEar = s.retryOnEar /\ t.refused = s.refused
    /\ t.folded = s.folded /\ t.atQuit = s.atQuit

LEMMA KeepFlags ==
    ASSUME NEW P, NEW s \in DocumentState(P), NEW m \in Merges(P)
    PROVE  LET t == Keep(s, m)
           IN  /\ Flagged(s, t) /\ t.landed = s.landed /\ t.merges # <<>>
               /\ Matters(m) => ToFold(t)
<1> DEFINE n == Len(s.merges)
           t == Keep(s, m)
           all == IF /\ m.kept = None /\ n > 0
                     /\ s.merges[n].kept = None /\ s.merges[n].base = m.base
                  THEN [s.merges EXCEPT ![n] = m] ELSE Append(s.merges, m)
           h == TRUE
<1>1. t = [s EXCEPT !.held = h, !.merges = all]   BY DEF Keep
<1>2. PICK k \in Nat \ {0} : Keeps(s, t, m, k)   BY KeepEffect
<1> HIDE DEF all, h
<1>3. Flagged(s, t) /\ t.landed = s.landed   BY <1>1 DEF DocumentState, Flagged
<1> HIDE DEF t
<1>4. Len(t.merges) = k /\ t.merges[k] = m   BY <1>2 DEF Keeps
<1>5. k \in 1..Len(t.merges)   BY <1>4
<1>6. t.merges # <<>>
  <2>1. Len(<<>>) = 0   OBVIOUS
  <2> QED  BY <1>4, <2>1
<1>7. Matters(m) => ToFold(t)   BY <1>4, <1>5 DEF ToFold
<1> QED  BY <1>3, <1>6, <1>7 DEF t

LEMMA OnDocumentFlags ==
    ASSUME NEW P, NEW s \in DocumentState(P), s.write.outcome # "none"
    PROVE  LET t == OnDocument(s)
           IN  /\ \/ /\ s.write.outcome = "landed"
                     /\ Flagged(s, t) /\ t.landed = TRUE
                  \/ /\ s.write.outcome = "displaced"
                     /\ Flagged(s, t) /\ t.merges # <<>>
                  \/ /\ s.write.outcome = "moved"
                     /\ Flagged(s, t) /\ t.landed = s.landed /\ t.merges # <<>> /\ ToFold(t)
                     /\ t.held = TRUE /\ t.revision = s.revision
                  \/ /\ s.write.outcome = "raced"
                     /\ Flagged(s, t) /\ t.landed = s.landed
                  \/ /\ s.write.outcome = "refused"
                     /\ t.retryOnEar = TRUE /\ t.sendAgain = s.sendAgain
                     /\ t.folded = s.folded /\ t.atQuit = s.atQuit /\ t.landed = s.landed
               /\ t.unmerged = s.unmerged
<1> DEFINE w == s.write
           t == OnDocument(s)
           after == [s EXCEPT !.write = NoWrite, !.kept = {k \in @ : k.path \notin w.retired}]
           h == TRUE
           onDisk(x) == [x EXCEPT !.revision = w.document, !.placed = w.carries, !.landed = h]
           obliged(x) == IF w.left = None THEN x
                         ELSE [x EXCEPT
                                  !.kept = @ \cup {[path |-> w.left, version |-> w.version + 1]},
                                  !.carries = @ \cup {w.left}]
<1>1. w \in Writes(P)   BY DEF DocumentState
<1>2. after \in DocumentState(P)   BY NothingAsked DEF DocumentState
<1>3. Flagged(s, after) /\ after.landed = s.landed /\ after.revision = s.revision
  BY DEF DocumentState, Flagged
<1>4. w.outcome \in {"landed", "displaced", "moved", "raced", "refused"}   BY <1>1 DEF Writes
<1>5. t = CASE w.outcome = "landed"    -> obliged(onDisk(after))
            [] w.outcome = "displaced" -> onDisk(Keep(after, Displaced(w)))
            [] w.outcome = "moved"     -> Keep(after, Moved(s, w.theirs))
            [] w.outcome = "raced"     -> after
            [] w.outcome = "refused"   -> Refused(after)
  BY DEF OnDocument, Displaced
<1>6. Displaced(w) \in Merges(P)   BY <1>1 DEF Writes, Merges, Displaced
<1>7. Moved(s, w.theirs) \in Merges(P) /\ Matters(Moved(s, w.theirs))
  BY <1>1, MovedTyped, MovedIs DEF Writes, Matters
<1>8. h = TRUE   OBVIOUS
<1>9. t.unmerged = s.unmerged   BY AnswersKeepUnmerged
<1> HIDE DEF h
<1>10. ASSUME NEW x \in DocumentState(P)
       PROVE  /\ Flagged(x, onDisk(x)) /\ onDisk(x).landed = h /\ onDisk(x).merges = x.merges
              /\ onDisk(x) \in DocumentState(P)
  BY <1>1, <1>8 DEF DocumentState, Writes, Contents, Flagged
<1>11. ASSUME NEW x \in DocumentState(P)
       PROVE  Flagged(x, obliged(x)) /\ obliged(x).landed = x.landed
  BY DEF DocumentState, Flagged
<1> HIDE DEF w, t, after, onDisk, obliged
<1>12. CASE w.outcome = "landed"
  <2>1. t = obliged(onDisk(after))   BY <1>5, <1>12
  <2>2. /\ Flagged(after, onDisk(after)) /\ onDisk(after).landed = h
        /\ onDisk(after) \in DocumentState(P)
    BY <1>2, <1>10
  <2>3. Flagged(onDisk(after), t) /\ t.landed = onDisk(after).landed   BY <1>11, <2>1, <2>2
  <2>4. Flagged(s, t) /\ t.landed = TRUE   BY <1>3, <1>8, <2>2, <2>3 DEF Flagged
  <2> QED  BY <1>9, <1>12, <2>4 DEF w, t
<1>13. CASE w.outcome = "displaced"
  <2> DEFINE k == Keep(after, Displaced(w))
  <2>1. t = onDisk(k)   BY <1>5, <1>13
  <2>2. Flagged(after, k) /\ k.merges # <<>> /\ k \in DocumentState(P)
    BY <1>2, <1>6, KeepFlags, KeepTyped
  <2> HIDE DEF k
  <2>3. Flagged(k, t) /\ t.merges = k.merges   BY <1>10, <2>1, <2>2
  <2>4. Flagged(s, t) /\ t.merges # <<>>   BY <1>3, <2>2, <2>3 DEF Flagged
  <2> QED  BY <1>9, <1>13, <2>4 DEF w, t
<1>14. CASE w.outcome = "moved"
  <2>1. t = Keep(after, Moved(s, w.theirs))   BY <1>5, <1>14
  <2>2. Flagged(after, t) /\ t.landed = after.landed /\ t.merges # <<>> /\ ToFold(t)
    BY <1>2, <1>7, <2>1, KeepFlags
  <2>3. t.held = TRUE /\ t.revision = after.revision   BY <1>2, <1>7, <2>1, KeepEffect
  <2>4. Flagged(s, t)   BY <1>3, <2>2 DEF Flagged
  <2> QED  BY <1>3, <1>9, <1>14, <2>2, <2>3, <2>4 DEF w, t
<1>15. CASE w.outcome = "raced"
  <2>1. t = after   BY <1>5, <1>15
  <2> QED  BY <1>3, <1>9, <1>15, <2>1 DEF w, t
<1>16. CASE w.outcome = "refused"
  <2>1. t = Refused(after)   BY <1>5, <1>16
  <2>2. t = [after EXCEPT !.retryOnEar = h, !.refused = h]   BY <1>8, <2>1 DEF Refused
  <2>3. /\ t.retryOnEar = h /\ t.sendAgain = after.sendAgain /\ t.folded = after.folded
        /\ t.atQuit = after.atQuit /\ t.landed = after.landed
    BY <1>2, <2>2 DEF DocumentState
  <2> QED  BY <1>3, <1>8, <1>9, <1>16, <2>3 DEF Flagged, w, t
<1> QED  BY <1>4, <1>12, <1>13, <1>14, <1>15, <1>16

LEMMA OnReadFlags ==
    ASSUME NEW P, NEW s \in DocumentState(P)
    PROVE  LET t == OnRead(s)
           IN  /\ Flagged(s, t) /\ t.landed = s.landed /\ t.unmerged = s.unmerged
               /\ t.write = s.write /\ t.desired = s.desired
               /\ \/ Merging(s, t)
                  \/ t.held = TRUE /\ t.merges # <<>> /\ ToFold(t)
<1> DEFINE t == OnRead(s)
           c == s.read.found
           h == s.heard \/ s.read.outcome # "failed"
           after == [s EXCEPT !.read = NoRead, !.heard = h]
           now   == [after EXCEPT !.unread = FALSE]
           ever  == [after EXCEPT !.unread = @ \/ s.read.outcome \in {"unobtained", "failed"}]
<1>1. c \in Contents   BY DEF DocumentState, Reads
<1>2. /\ now \in DocumentState(P) /\ Flagged(s, now) /\ now.landed = s.landed
      /\ Merging(s, now) /\ now.write = s.write /\ now.desired = s.desired
  BY NothingAsked DEF DocumentState, Flagged, Merging
<1>3. /\ Flagged(s, ever) /\ ever.landed = s.landed
      /\ Merging(s, ever) /\ ever.write = s.write /\ ever.desired = s.desired
  BY DEF DocumentState, Flagged, Merging
<1>4. t = IF s.read.outcome = "found" THEN OnFound(now, c) ELSE ever
  BY DEF OnRead
<1>5. Moved(now, c) \in Merges(P) /\ Matters(Moved(now, c))
  BY <1>1, <1>2, MovedTyped, MovedIs DEF Matters
<1> DEFINE k == Keep(now, Moved(now, c))
<1> HIDE DEF t, c, now, ever
<1>6. /\ k \in DocumentState(P) /\ Flagged(now, k) /\ k.landed = now.landed
      /\ k.merges # <<>> /\ ToFold(k)
      /\ k.held = TRUE /\ k.unmerged = now.unmerged /\ k.desired = now.desired
      /\ Asking(now, k)
  BY <1>2, <1>5, KeepTyped, KeepFlags, KeepEffect
<1> DEFINE r == [k EXCEPT !.revision = c]
<1>7. OnFound(now, c) \in {now, k, r}   BY DEF OnFound
<1> HIDE DEF k
<1>8. /\ Flagged(k, r) /\ r.landed = k.landed /\ r.merges = k.merges /\ r.unmerged = k.unmerged
      /\ r.held = k.held /\ r.desired = k.desired /\ r.write = k.write
  BY <1>6 DEF DocumentState, Flagged
<1> HIDE DEF r
<1>9. ToFold(r)   BY <1>6, <1>8 DEF ToFold
<1>10. ASSUME t \in {now, ever}
       PROVE  /\ Flagged(s, t) /\ t.landed = s.landed /\ t.unmerged = s.unmerged
              /\ t.write = s.write /\ t.desired = s.desired /\ Merging(s, t)
  BY <1>2, <1>3, <1>10 DEF Merging
<1>11. ASSUME t \in {k, r}
       PROVE  /\ Flagged(s, t) /\ t.landed = s.landed /\ t.unmerged = s.unmerged
              /\ t.write = s.write /\ t.desired = s.desired
              /\ t.held = TRUE /\ t.merges # <<>> /\ ToFold(t)
  BY <1>2, <1>6, <1>8, <1>9, <1>11 DEF Flagged, Merging, Asking
<1> QED  BY <1>4, <1>7, <1>10, <1>11 DEF t

LEMMA SendOwedFlags ==
    ASSUME NEW P, NEW s \in DocumentState(P)
    PROVE  LET t == SendOwed(s)
           IN  /\ t.folded = s.folded /\ t.atQuit = s.atQuit /\ t.landed = s.landed
               /\ \/ s.held /\ t = s
                  \/ /\ ~s.held /\ Writing(s) /\ t.write = s.write /\ t.sendAgain = TRUE
                     /\ t.retryOnEar = s.retryOnEar /\ t.refused = s.refused
                  \/ /\ ~s.held /\ ~Writing(s) /\ ~Owed(s) /\ t.write = s.write
                     /\ t.retryOnEar = s.retryOnEar /\ t.refused = s.refused
                  \/ /\ ~s.held /\ ~Writing(s) /\ Owed(s) /\ t.write = Request(s)
                     /\ t.refused = FALSE
<1> DEFINE t == SendOwed(s)
           h == TRUE
           g == FALSE
<1>1. h = TRUE /\ g = FALSE   OBVIOUS
<1>2. t = CASE s.held               -> s
            [] ~s.held /\ Writing(s) -> [s EXCEPT !.sendAgain = h]
            [] ~s.held /\ ~Writing(s) /\ ~Owed(s) -> [s EXCEPT !.sendAgain = g]
            [] ~s.held /\ ~Writing(s) /\ Owed(s) ->
                  [s EXCEPT !.sendAgain = g, !.retryOnEar = g, !.refused = g,
                            !.write = Request(s), !.latest = "write"]
  BY DEF SendOwed
<1> HIDE DEF t, h, g
<1>3. CASE s.held   BY <1>2, <1>3 DEF t
<1>4. CASE ~s.held /\ Writing(s)
  <2>1. t = [s EXCEPT !.sendAgain = h]   BY <1>2, <1>4
  <2>2. /\ t.folded = s.folded /\ t.atQuit = s.atQuit /\ t.landed = s.landed /\ t.write = s.write
        /\ t.sendAgain = h /\ t.retryOnEar = s.retryOnEar /\ t.refused = s.refused
    BY <2>1 DEF DocumentState
  <2> QED  BY <1>1, <1>4, <2>2 DEF t
<1>5. CASE ~s.held /\ ~Writing(s) /\ ~Owed(s)
  <2>1. t = [s EXCEPT !.sendAgain = g]   BY <1>2, <1>5
  <2>2. /\ t.folded = s.folded /\ t.atQuit = s.atQuit /\ t.landed = s.landed /\ t.write = s.write
        /\ t.retryOnEar = s.retryOnEar /\ t.refused = s.refused
    BY <2>1 DEF DocumentState
  <2> QED  BY <1>5, <2>2 DEF t
<1>6. CASE ~s.held /\ ~Writing(s) /\ Owed(s)
  <2>1. t = [s EXCEPT !.sendAgain = g, !.retryOnEar = g, !.refused = g,
                      !.write = Request(s), !.latest = "write"]
    BY <1>2, <1>6
  <2>2. /\ t.folded = s.folded /\ t.atQuit = s.atQuit /\ t.landed = s.landed
        /\ t.write = Request(s) /\ t.refused = g
    BY <2>1 DEF DocumentState
  <2> QED  BY <1>1, <1>6, <2>2 DEF t
<1> QED  BY <1>3, <1>4, <1>5, <1>6

LEMMA AskReadFlags ==
    ASSUME NEW P, NEW s \in DocumentState(P)
    PROVE  Flagged(s, AskRead(s)) /\ AskRead(s).landed = s.landed
BY DEF AskRead, DocumentState, Flagged

LEMMA FoldFlags ==
    ASSUME NEW P, NEW s \in DocumentState(P), NEW m
    PROVE  Fold(s, m).folded = TRUE /\ Fold(s, m).landed = s.landed
           /\ Fold(s, m).refused = s.refused /\ Fold(s, m).retryOnEar = s.retryOnEar
<1> DEFINE ours   == IF m.kept = None THEN s.desired ELSE m.written
           merged == ApplyPress(Merge(Parse(m.base), ours, Parse(m.theirs)), ours, s.desired)
           h == TRUE
           v == s.version + 1
           into   == [s EXCEPT !.desired = merged, !.version = v, !.folded = h]
           t == Fold(s, m)
<1>1. t = IF m.kept = None THEN [into EXCEPT !.revision = m.theirs]
          ELSE [into EXCEPT !.kept = @ \cup {[path |-> m.kept, version |-> into.version]},
                            !.carries = @ \cup {m.kept}]
  BY DEF Fold
<1>2. h = TRUE   OBVIOUS
<1> HIDE DEF merged, h, v, t
<1>3. /\ into.folded = h /\ into.landed = s.landed /\ into.refused = s.refused
      /\ into.retryOnEar = s.retryOnEar /\ DOMAIN into = DOMAIN s
  BY DEF DocumentState
<1> HIDE DEF into
<1>4. DOMAIN s = {"desired", "revision", "version", "write", "read", "latest", "readAgain",
                  "sendAgain", "retryOnEar", "refused", "held", "merges", "unmerged", "folded",
                  "atQuit", "kept", "landed", "heard", "unread", "carries", "placed"}
  BY DEF DocumentState
<1>5. t.folded = into.folded /\ t.landed = into.landed /\ t.refused = into.refused
      /\ t.retryOnEar = into.retryOnEar
  BY <1>1, <1>3, <1>4
<1> QED  BY <1>2, <1>3, <1>5 DEF t

LEMMA MergeHeadFlags ==
    ASSUME NEW P, NEW s \in DocumentState(P), s.merges # <<>>
    PROVE  LET t == MergeHead(s)
               m == Head(s.merges)
           IN  /\ t.landed = s.landed /\ t.refused = s.refused /\ t.retryOnEar = s.retryOnEar
               /\ IF m.theirs # Broken THEN t.folded = TRUE ELSE Flagged(s, t)
<1> DEFINE m == Head(s.merges)
           rest == [s EXCEPT !.merges = Tail(@)]
           t == MergeHead(s)
<1>1. s.merges \in Seq(Merges(P)) /\ s.unmerged \in Seq(Merges(P))   BY DEF DocumentState
<1>2. m \in Merges(P) /\ Tail(s.merges) \in Seq(Merges(P))   BY <1>1
<1>3. rest \in DocumentState(P) /\ Flagged(s, rest) /\ rest.landed = s.landed
  BY <1>2 DEF DocumentState, Flagged
<1>4. t = CASE m.theirs # Broken -> Fold(rest, m)
            [] m.theirs = Broken /\ m.kept = None ->
                   [rest EXCEPT !.unmerged = Append(@, m)]
            [] m.theirs = Broken /\ m.kept # None -> rest
  BY DEF MergeHead
<1> HIDE DEF m, rest, t
<1>5. CASE m.theirs # Broken
  <2>1. t = Fold(rest, m)   BY <1>4, <1>5
  <2>2. t.folded = TRUE /\ t.landed = rest.landed /\ t.refused = rest.refused
        /\ t.retryOnEar = rest.retryOnEar
    BY <1>3, <2>1, FoldFlags
  <2> QED  BY <1>3, <1>5, <2>2 DEF Flagged, m, t
<1>6. CASE m.theirs = Broken /\ m.kept = None
  <2>1. t = [rest EXCEPT !.unmerged = Append(@, m)]   BY <1>4, <1>6
  <2>2. Flagged(rest, t) /\ t.landed = rest.landed   BY <1>3, <2>1 DEF DocumentState, Flagged
  <2> QED  BY <1>3, <1>6, <2>2 DEF Flagged, m, t
<1>7. CASE m.theirs = Broken /\ m.kept # None
  <2>1. t = rest   BY <1>4, <1>7
  <2> QED  BY <1>3, <1>7, <2>1 DEF Flagged, m, t
<1> QED  BY <1>5, <1>6, <1>7

LEMMA MergedFlags ==
    ASSUME NEW P, NEW s \in DocumentState(P)
    PROVE  LET t == Merged(s)
           IN  /\ t.sendAgain = s.sendAgain /\ t.retryOnEar = s.retryOnEar
               /\ t.refused = s.refused /\ t.atQuit = s.atQuit /\ t.landed = s.landed
               /\ t.folded = FALSE
<1> DEFINE h == s.unmerged # <<>>
           t == Merged(s)
<1>1. PICK e : e = <<>>   OBVIOUS
<1>2. PICK g : g = FALSE   OBVIOUS
<1>3. t = [s EXCEPT !.merges = s.unmerged, !.unmerged = e, !.held = h, !.folded = g]
  BY <1>1, <1>2 DEF Merged
<1> HIDE DEF h, t
<1>4. /\ t.sendAgain = s.sendAgain /\ t.retryOnEar = s.retryOnEar
      /\ t.refused = s.refused /\ t.atQuit = s.atQuit /\ t.landed = s.landed
      /\ t.folded = g
  BY <1>3 DEF DocumentState
<1> QED  BY <1>2, <1>4 DEF t

LEMMA AfterAnswersFlags ==
    ASSUME NEW P, NEW s \in DocumentState(P)
    PROVE  LET t == AfterAnswers(s)
               sends == /\ ~Writing(s)
                        /\ \/ s.sendAgain \/ (s.landed /\ Owed(s))
                           \/ (s.heard /\ s.retryOnEar /\ Owed(s))
           IN  \E a \in {s, AskRead(s)} : \E b \in DocumentState(P) :
                  /\ b = (IF sends THEN SendOwed(a) ELSE a)
                  /\ Flagged(b, t) /\ t.landed = FALSE /\ Merging(b, t) /\ t.write = b.write
                  /\ t.desired = b.desired
<1> DEFINE t == AfterAnswers(s)
           again == IF s.readAgain /\ ~Reading(s) THEN AskRead(s) ELSE s
           sends == /\ ~Writing(s)
                    /\ \/ s.sendAgain \/ (s.landed /\ Owed(s))
                       \/ (s.heard /\ s.retryOnEar /\ Owed(s))
           sent  == IF sends THEN SendOwed(again) ELSE again
           g == FALSE
<1>1. again \in DocumentState(P) /\ again \in {s, AskRead(s)}   BY AskReadTyped
<1>2. sent \in DocumentState(P)   BY <1>1, SendOwedTyped
<1>3. t = [sent EXCEPT !.landed = g, !.heard = g]   BY DEF AfterAnswers
<1>4. g = FALSE   OBVIOUS
<1>5. sent = IF sends THEN SendOwed(again) ELSE again   OBVIOUS
<1> HIDE DEF again, sent, g, t
<1>6. /\ Flagged(sent, t) /\ t.landed = g /\ Merging(sent, t) /\ t.write = sent.write
      /\ t.desired = sent.desired
  BY <1>2, <1>3 DEF DocumentState, Flagged, Merging
<1> QED  BY <1>1, <1>2, <1>4, <1>5, <1>6 DEF t

-----------------------------------------------------------------------------
(* A step that neither asks nor takes anything of the store, or moves the  *)
(* file away from it.                                                      *)

LEMMA MarkedStays ==
    ASSUME NEW s, NEW t, NEW tn, NEW tn2, Flagged(s, t), t.landed = s.landed, Merging(s, t),
           Writing(t) = Writing(s), Marked(s, tn), tn2 = tn \/ (tn = "idle" /\ tn2 = "hearing")
    PROVE  Marked(t, tn2)
BY DEF Flagged, Merging, Marked

LEMMA TriggersStay ==
    ASSUME NEW s, NEW t, NEW tn, NEW tn2, NEW q, NEW q2, NEW f, NEW late,
           Flagged(s, t), t.landed = s.landed, Merging(s, t), t.desired = s.desired,
           t.write.document = s.write.document, Writing(t) = Writing(s),
           Underway(s) => Underway(t), Triggered(s, tn, q, f, late),
           tn2 = tn \/ (tn = "idle" /\ tn2 = "hearing"), WillMerge(q) => WillMerge(q2)
    PROVE  Triggered(t, tn2, q2, f, late)
<1>1. Marked(t, tn2)   BY MarkedStays DEF Triggered
<1>2. ToFold(t) = ToFold(s) /\ Owed(t) = Owed(s)   BY DEF Merging, ToFold, Owed
<1>3. Later(t, late)   BY <1>2 DEF Triggered, Later, Flagged
<1>4. Goes(s, f, late) => Goes(t, f, late)   BY DEF Goes, Flagged, Merging
<1>5. Owing(t, f, late)   BY <1>2, <1>4 DEF Triggered, Owing, Flagged, Merging
<1>6. AtLast(t, tn2, q2, f, late)   BY <1>2, <1>4 DEF Triggered, AtLast, Flagged, Merging
<1> QED  BY <1>1, <1>3, <1>5, <1>6 DEF Triggered

LEMMA MovedAway ==
    ASSUME NEW s, NEW t, NEW tn, NEW q, NEW q2, NEW f, NEW late,
           Flagged(s, t), t.landed = s.landed, Merging(s, t), t.desired = s.desired,
           t.write.document = s.write.document, Writing(t) = Writing(s),
           Marked(s, tn), Later(s, late), f # t.revision
    PROVE  Triggered(t, tn, q, f, late)
<1>1. Marked(t, tn)   BY MarkedStays
<1>2. ToFold(t) = ToFold(s)   BY DEF Merging, ToFold
<1>3. Later(t, late)   BY <1>2 DEF Later, Flagged
<1>4. Owing(t, f, late) /\ AtLast(t, tn, q, f, late)   BY DEF Owing, AtLast, Goes
<1> QED  BY <1>1, <1>3, <1>4 DEF Triggered

(* What is asked to be sent is sent, or goes after the write on its way,   *)
(* unless the store is held.                                               *)
LEMMA SentTriggers ==
    ASSUME NEW P, NEW s \in DocumentState(P), NEW tn, NEW q, NEW f, NEW late,
           s.held => ToFold(s) \/ late
    PROVE  LET t == SendOwed(s)
           IN  Later(t, late) /\ Owing(t, f, late) /\ AtLast(t, tn, q, f, late)
<1> DEFINE t == SendOwed(s)
<1>1. Merging(s, t) /\ t.desired = s.desired   BY SendOwedEffect
<1>2. ToFold(t) = ToFold(s) /\ Owed(t) = Owed(s)   BY <1>1 DEF Merging, ToFold, Owed
<1>3. \/ s.held /\ t = s
      \/ ~s.held /\ Writing(t) /\ t.sendAgain
      \/ ~s.held /\ ~Writing(t) /\ ~Owed(t)
      \/ ~s.held /\ Writing(t) /\ t.write.document = t.desired /\ t.write.outcome = "none"
  <2>1. Request(s).step = "queued" /\ Request(s).document = s.desired
        /\ Request(s).outcome = "none"
    BY RequestIs
  <2> QED  BY <1>1, <1>2, <2>1, SendOwedFlags DEF Writing
<1> HIDE DEF t
<1>4. Later(t, late)   BY <1>1, <1>2, <1>3 DEF Later, Merging
<1>5. Owing(t, f, late) /\ AtLast(t, tn, q, f, late)
  BY <1>1, <1>2, <1>3 DEF Owing, AtLast, Goes, Underway, Merging
<1> QED  BY <1>4, <1>5 DEF t

LEMMA SentMarked ==
    ASSUME NEW P, NEW s \in DocumentState(P), NEW tn, Marked(s, tn), ~s.landed
    PROVE  Marked(SendOwed(s), tn)
<1> DEFINE t == SendOwed(s)
<1>1. Merging(s, t)   BY SendOwedEffect
<1>2. /\ t.folded = s.folded /\ t.landed = s.landed
      /\ t.refused => s.refused /\ t.retryOnEar = s.retryOnEar
  BY SendOwedFlags
<1> HIDE DEF t
<1> QED  BY <1>1, <1>2 DEF Marked, Merging, t

LEMMA OnDocumentTriggers ==
    ASSUME NEW P, NEW s \in DocumentState(P), NEW q, NEW f, NEW late,
           s.write.step = "answered", s.write.outcome # "none",
           Stored(s), Clean(s, f), Triggered(s, "hearing", q, f, late)
    PROVE  Triggered(OnDocument(s), "hearing", q, f, late)
<1> DEFINE t == OnDocument(s)
           w == s.write
<1>1. WriteTaken(s, t) /\ ~Writing(t)
  <2>1. WriteTaken(s, t)   BY OnDocumentEffect
  <2> QED  BY <2>1 DEF WriteTaken, Writing, NoWrite
<1>2. t.unmerged = s.unmerged   BY OnDocumentFlags
<1>3. /\ ~s.folded /\ Writing(s)
      /\ s.refused => s.retryOnEar
      /\ s.held => s.merges # <<>>
      /\ \A i \in 1..Len(s.unmerged) : s.unmerged[i].kept = None
  BY DEF Triggered, Marked, Writing
<1> HIDE DEF t
<1>4. Later(t, late)   BY <1>1 DEF Later
<1>5. w.outcome \in {"landed", "displaced", "moved", "raced", "refused"}
  BY DEF DocumentState, Writes
<1>6. OnDisk(w) => /\ ~s.held /\ ~ToFold(s) /\ s.revision = w.base
  <2> SUFFICES ASSUME OnDisk(w) PROVE ~s.held /\ ~ToFold(s) /\ s.revision = w.base
    OBVIOUS
  <2>1. ~s.held /\ s.revision = w.base   BY DEF Clean, Conditional
  <2>2. s.merges = <<>> /\ s.unmerged = <<>>   BY <2>1 DEF Stored
  <2>3. Len(s.merges) = 0   BY <2>2
  <2> QED  BY <2>1, <2>2, <2>3 DEF ToFold
<1>7. ASSUME Flagged(s, t), t.held => t.merges # <<>> PROVE Marked(t, "hearing")
  BY <1>1, <1>2, <1>3, <1>7 DEF Marked, Flagged
<1>8. CASE w.outcome = "landed"
  <2>1. /\ Flagged(s, t) /\ t.landed = TRUE   BY <1>8, OnDocumentFlags DEF t
  <2>2. t.held = s.held   BY <1>8, OnDocumentEffect DEF t
  <2>3. ~t.held   BY <1>6, <1>8, <2>2 DEF OnDisk
  <2>4. Marked(t, "hearing")   BY <1>7, <2>1, <2>3
  <2>5. Owing(t, f, late) /\ AtLast(t, "hearing", q, f, late)
    BY <2>1, <2>3 DEF Owing, AtLast
  <2> QED  BY <1>4, <2>4, <2>5 DEF Triggered, t
<1>9. CASE w.outcome = "displaced"
  <2>1. Flagged(s, t) /\ t.merges # <<>>   BY <1>9, OnDocumentFlags DEF t
  <2>2. t.held = TRUE /\ t.revision = w.document   BY <1>9, OnDocumentEffect DEF t
  <2>3. Marked(t, "hearing")   BY <1>7, <2>1
  <2>4. w.document \in Document   BY DEF DocumentState, Writes
  <2>5. Owed(t) => s.desired # w.document
    BY <1>1, <2>2, <2>4, DocumentsParse DEF Owed, WriteTaken
  <2>6. ~ToFold(s)   BY <1>6, <1>9 DEF OnDisk
  <2>7. Owed(t) => s.sendAgain \/ s.atQuit \/ late
    BY <1>3, <2>5, <2>6 DEF Triggered, Later
  <2>8. Owing(t, f, late)   BY <2>1, <2>7 DEF Owing, Goes, Flagged
  <2>9. AtLast(t, "hearing", q, f, late)   BY <2>2 DEF AtLast
  <2> QED  BY <1>4, <2>3, <2>8, <2>9 DEF Triggered, t
<1>10. CASE w.outcome = "moved"
  <2>1. Flagged(s, t) /\ t.merges # <<>> /\ ToFold(t) /\ t.held = TRUE
    BY <1>10, OnDocumentFlags DEF t
  <2>2. Marked(t, "hearing")   BY <1>7, <2>1
  <2>3. Owing(t, f, late) /\ AtLast(t, "hearing", q, f, late)   BY <2>1 DEF Owing, AtLast
  <2> QED  BY <1>4, <2>2, <2>3 DEF Triggered, t
<1>11. CASE w.outcome = "raced"
  <2>1. Flagged(s, t) /\ t.landed = s.landed   BY <1>11, OnDocumentFlags DEF t
  <2>2. Merging(s, t)   BY <1>11, OnDocumentEffect DEF t
  <2>3. Marked(t, "hearing")   BY <1>3, <1>7, <2>1, <2>2 DEF Merging
  <2>4. ToFold(t) = ToFold(s) /\ Owed(t) = Owed(s)
    BY <1>1, <2>2 DEF Merging, WriteTaken, ToFold, Owed
  <2>5. Goes(s, f, late) => Goes(t, f, late)
    BY <1>11, <2>1, <2>2 DEF Goes, Underway, Flagged, Merging
  <2>6. Owing(t, f, late)   BY <2>1, <2>2, <2>4, <2>5 DEF Triggered, Owing, Flagged, Merging
  <2>7. AtLast(t, "hearing", q, f, late)
    BY <2>1, <2>2, <2>4, <2>5 DEF Triggered, AtLast, Flagged, Merging
  <2> QED  BY <1>4, <2>3, <2>6, <2>7 DEF Triggered, t
<1>12. CASE w.outcome = "refused"
  <2>1. t.retryOnEar = TRUE /\ t.folded = s.folded   BY <1>12, OnDocumentFlags DEF t
  <2>2. Merging(s, t)   BY <1>12, OnDocumentEffect DEF t
  <2>3. Marked(t, "hearing")   BY <1>1, <1>2, <1>3, <2>1, <2>2 DEF Marked, Merging
  <2>4. Owing(t, f, late) /\ AtLast(t, "hearing", q, f, late)   BY <2>1 DEF Owing, AtLast, Goes
  <2> QED  BY <1>4, <2>3, <2>4 DEF Triggered, t
<1> QED  BY <1>5, <1>8, <1>9, <1>10, <1>11, <1>12

LEMMA OnReadTriggers ==
    ASSUME NEW P, NEW s \in DocumentState(P), NEW q, NEW f, NEW late,
           Triggered(s, "hearing", q, f, late)
    PROVE  Triggered(OnRead(s), "hearing", q, f, late)
<1> DEFINE t == OnRead(s)
<1>1. /\ Flagged(s, t) /\ t.landed = s.landed /\ t.unmerged = s.unmerged
      /\ t.write = s.write /\ t.desired = s.desired
      /\ \/ Merging(s, t)
         \/ t.held = TRUE /\ t.merges # <<>> /\ ToFold(t)
  BY OnReadFlags
<1> HIDE DEF t
<1>2. Writing(t) = Writing(s) /\ Underway(t) = Underway(s)   BY <1>1 DEF Writing, Underway
<1>3. CASE Merging(s, t)   BY <1>1, <1>2, <1>3, TriggersStay DEF t
<1>4. CASE t.held = TRUE /\ t.merges # <<>> /\ ToFold(t)
  <2>1. Marked(t, "hearing")   BY <1>1, <1>2, <1>4 DEF Triggered, Marked, Flagged
  <2>2. Later(t, late) /\ Owing(t, f, late) /\ AtLast(t, "hearing", q, f, late)
    BY <1>4 DEF Later, Owing, AtLast
  <2> QED  BY <2>1, <2>2 DEF Triggered, t
<1> QED  BY <1>1, <1>3, <1>4

LEMMA AfterAnswersTriggers ==
    ASSUME NEW P, NEW s \in DocumentState(P), NEW q, NEW f, NEW late, NEW tn \in {"idle", "merging"},
           WillMerge(q) => tn = "merging", Triggered(s, "hearing", q, f, late)
    PROVE  Triggered(AfterAnswers(s), tn, q, f, late)
<1> DEFINE t == AfterAnswers(s)
           sends == /\ ~Writing(s)
                    /\ \/ s.sendAgain \/ (s.landed /\ Owed(s))
                       \/ (s.heard /\ s.retryOnEar /\ Owed(s))
<1>1. PICK a \in {s, AskRead(s)} : \E b \in DocumentState(P) :
          /\ b = (IF sends THEN SendOwed(a) ELSE a)
          /\ Flagged(b, t) /\ t.landed = FALSE /\ Merging(b, t) /\ t.write = b.write
          /\ t.desired = b.desired
  BY AfterAnswersFlags
<1>2. PICK b \in DocumentState(P) :
          /\ b = (IF sends THEN SendOwed(a) ELSE a)
          /\ Flagged(b, t) /\ t.landed = FALSE /\ Merging(b, t) /\ t.write = b.write
          /\ t.desired = b.desired
  BY <1>1
<1>3. /\ a \in DocumentState(P) /\ Merging(s, a) /\ a.desired = s.desired /\ a.write = s.write
      /\ Flagged(s, a) /\ a.landed = s.landed
  BY AskReadTyped, AskReadEffect, AskReadFlags DEF Merging, Flagged
<1>4. Writing(a) = Writing(s) /\ Owed(a) = Owed(s)   BY <1>3 DEF Writing, Owed, Merging
<1>5. ~sends /\ s.landed => ~Owed(s)   BY DEF Triggered, Marked
<1>6. ~sends /\ s.sendAgain => Writing(s)   OBVIOUS
<1> HIDE DEF t, sends
<1>7. /\ ToFold(t) = ToFold(b) /\ Owed(t) = Owed(b) /\ Writing(t) = Writing(b)
      /\ Underway(t) = Underway(b)
  BY <1>2 DEF Merging, ToFold, Owed, Writing, Underway
<1>8. ToFold(a) = ToFold(s) /\ Underway(a) = Underway(s)
  BY <1>3 DEF Merging, ToFold, Writing, Underway
<1>9. /\ ~s.folded /\ (s.refused => s.retryOnEar) /\ (s.held => s.merges # <<>>)
      /\ \A i \in 1..Len(s.unmerged) : s.unmerged[i].kept = None
  BY DEF Triggered, Marked
<1>10. ASSUME Merging(a, b), b.folded = a.folded, b.refused => b.retryOnEar PROVE Marked(t, tn)
  BY <1>2, <1>3, <1>9, <1>10 DEF Marked, Merging, Flagged
<1>11. ASSUME ~sends \/ s.held PROVE Triggered(t, tn, q, f, late)
  <2>1. b = a   BY <1>2, <1>3, <1>11 DEF SendOwed, Merging
  <2>2. Marked(t, tn)   BY <1>3, <1>9, <1>10, <2>1 DEF Flagged, Merging
  <2>3. Later(t, late)
    BY <1>2, <1>3, <1>4, <1>7, <1>8, <2>1 DEF Triggered, Later, Flagged
  <2>4. Goes(s, f, late) => Goes(t, f, late)
    BY <1>2, <1>3, <1>7, <1>8, <2>1 DEF Goes, Flagged, Merging
  <2>5. s.landed /\ ~s.held => ~Owed(s)   BY <1>5, <1>11
  <2>6. Owing(t, f, late)
    BY <1>2, <1>3, <1>4, <1>7, <1>8, <2>1, <2>4, <2>5 DEF Triggered, Owing, Flagged, Merging
  <2>7. AtLast(t, tn, q, f, late)
    BY <1>2, <1>3, <1>4, <1>7, <2>1, <2>4, <2>5 DEF Triggered, AtLast, Flagged, Merging
  <2> QED  BY <2>2, <2>3, <2>6, <2>7 DEF Triggered
<1>12. ASSUME sends, ~s.held PROVE Triggered(t, tn, q, f, late)
  <2>1. b = SendOwed(a) /\ ~a.held   BY <1>2, <1>3, <1>12 DEF Merging
  <2>2. Merging(a, b) /\ b.folded = a.folded /\ (b.refused => b.retryOnEar)
    BY <1>3, <1>9, <2>1, SendOwedEffect, SendOwedFlags DEF Flagged
  <2>3. Marked(t, tn)   BY <1>10, <2>2
  <2>4. Later(b, late) /\ Owing(b, f, late) /\ AtLast(b, "idle", "left", f, late)
    BY <1>3, <2>1, SentTriggers
  <2>5. ~WillMerge("left")   BY DEF WillMerge
  <2>6. ~Writing(s)   BY <1>12 DEF sends
  <2>7. b.landed => ~Owed(b) \/ Writing(b)
    <3>1. Owed(b) = Owed(a)   BY <2>2, SendOwedEffect, <1>3, <2>1 DEF Owed, Merging
    <3>2. \/ Writing(a) /\ b.write = a.write
          \/ ~Owed(a)
          \/ b.write = Request(a)
      BY <1>3, <2>1, SendOwedFlags
    <3>3. Request(a).step = "queued"   BY RequestIs
    <3> QED  BY <3>1, <3>2, <3>3 DEF Writing
  <2>8. Writing(b) => Underway(b)
    BY <1>3, <1>4, <2>1, <2>6, SendOwedFlags, RequestIs DEF Underway, Writing
  <2>9. Goes(b, f, late) => Goes(t, f, late)   BY <1>2, <1>7 DEF Goes, Flagged, Merging
  <2>10. Later(t, late)   BY <1>2, <1>7, <2>4 DEF Later, Flagged
  <2>11. Owing(t, f, late)
    BY <1>2, <1>7, <2>4, <2>7, <2>8, <2>9 DEF Owing, Goes, Flagged, Merging
  <2>12. AtLast(t, tn, q, f, late)
    BY <1>2, <1>7, <2>4, <2>5, <2>7, <2>8, <2>9 DEF AtLast, Goes, Flagged, Merging
  <2> QED  BY <2>3, <2>10, <2>11, <2>12 DEF Triggered
<1> QED  BY <1>11, <1>12 DEF t

LEMMA MergeHeadTriggers ==
    ASSUME NEW P, NEW s \in DocumentState(P), s.merges # <<>>, NEW q, NEW f, NEW late,
           Triggered(s, "merging", q, f, late)
    PROVE  Triggered(MergeHead(s), "merging", q, f, late)
<1> DEFINE t == MergeHead(s)
           m == Head(s.merges)
<1>1. Heads(s, t, m)   BY MergeHeadEffect
<1>2. /\ t.landed = s.landed /\ t.refused = s.refused /\ t.retryOnEar = s.retryOnEar
      /\ IF m.theirs # Broken THEN t.folded = TRUE ELSE Flagged(s, t)
  BY MergeHeadFlags
<1>3. t.unmerged = s.unmerged \/ (m.kept = None /\ t.unmerged = Append(s.unmerged, m))
  BY <1>1 DEF Heads
<1>4. s.unmerged \in Seq(Merges(P))   BY DEF DocumentState
<1> HIDE DEF t, m
<1>5. \A i \in 1..Len(t.unmerged) : t.unmerged[i].kept = None
  <2>1. \A i \in 1..Len(s.unmerged) : s.unmerged[i].kept = None   BY DEF Triggered, Marked
  <2>2. CASE m.kept = None /\ t.unmerged = Append(s.unmerged, m)
    <3>1. TAKE i \in 1..Len(t.unmerged)
    <3>2. (i \in 1..Len(s.unmerged) /\ t.unmerged[i] = s.unmerged[i]) \/ t.unmerged[i] = m
      BY <1>4, <2>2, <3>1
    <3> QED  BY <2>1, <2>2, <3>2
  <2> QED  BY <1>3, <2>1, <2>2
<1>6. Writing(t) = Writing(s) /\ Underway(t) = Underway(s) /\ t.write = s.write
  BY <1>1 DEF Heads, Asking, Writing, Underway
<1>7. Marked(t, "merging")
  <2>1. s.landed => ~Writing(s)   BY DEF Triggered, Marked
  <2>2. ~s.landed /\ (s.refused => s.retryOnEar)   BY DEF Triggered, Marked
  <2> QED  BY <1>2, <1>5, <2>2 DEF Marked
<1>8. AtLast(t, "merging", q, f, late)   BY DEF AtLast
<1>9. CASE m.theirs # Broken
  <2>1. t.folded   BY <1>2, <1>9
  <2> QED  BY <1>7, <1>8, <2>1 DEF Triggered, Later, Owing, t
<1>10. CASE m.theirs = Broken
  <2>1. /\ Flagged(s, t) /\ t.revision = s.revision /\ t.desired = s.desired /\ t.held = s.held
        /\ t.unmerged = IF m.kept = None THEN Append(s.unmerged, m) ELSE s.unmerged
    BY <1>1, <1>2, <1>10 DEF Heads
  <2>2. ToFold(s) => ToFold(t)
    <3>1. ASSUME m.kept = None PROVE t.unmerged # <<>>
      <4>1. Len(t.unmerged) = Len(s.unmerged) + 1 /\ Len(s.unmerged) \in Nat
        BY <1>4, <2>1, <3>1
      <4>2. Len(<<>>) = 0   OBVIOUS
      <4> QED  BY <4>1, <4>2
    <3>2. ASSUME m.kept # None, NEW i \in 1..Len(s.merges), Matters(s.merges[i]) PROVE ToFold(t)
      <4>1. i # 1   BY <1>1, <1>10, <3>2 DEF Heads, Matters
      <4>2. i - 1 \in 1..Len(t.merges)   BY <1>1, <4>1 DEF Heads
      <4>3. t.merges[i - 1] = s.merges[(i - 1) + 1]   BY <1>1, <4>2 DEF Heads
      <4>4. (i - 1) + 1 = i   OBVIOUS
      <4> QED  BY <3>2, <4>2, <4>3, <4>4 DEF ToFold
    <3>3. ASSUME m.kept # None, s.unmerged # <<>> PROVE ToFold(t)   BY <2>1, <3>3 DEF ToFold
    <3> QED  BY <3>1, <3>2, <3>3 DEF ToFold
  <2>3. Owed(t) = Owed(s)   BY <2>1 DEF Owed
  <2>4. Goes(s, f, late) => Goes(t, f, late)   BY <1>6, <2>1 DEF Goes, Flagged
  <2>5. Later(t, late)   BY <1>6, <2>1, <2>2 DEF Triggered, Later, Flagged
  <2>6. Owing(t, f, late)   BY <1>2, <2>1, <2>2, <2>3, <2>4 DEF Triggered, Owing, Flagged
  <2> QED  BY <1>7, <1>8, <2>5, <2>6 DEF Triggered, t
<1> QED  BY <1>9, <1>10

LEMMA MergedTriggers ==
    ASSUME NEW P, NEW s \in DocumentState(P), s.merges = <<>>, NEW b \in BOOLEAN,
           NEW q, NEW f, NEW late, Triggered(s, "merging", q, f, late)
    PROVE  LET t == Merged([s EXCEPT !.atQuit = b])
           IN  /\ t \in DocumentState(P) /\ Marked(t, "idle")
               /\ t.atQuit = b /\ t.landed = FALSE /\ t.folded = FALSE
               /\ t.held => ToFold(t)
               /\ ~t.held => ~ToFold(t) /\ t.merges = <<>>
               /\ Writing(t) /\ t.desired # t.write.document =>
                      t.sendAgain \/ s.atQuit \/ s.folded \/ ToFold(t) \/ late
               /\ Owed(t) => Goes(t, f, late) \/ s.folded \/ s.atQuit \/ ToFold(t)
<1> DEFINE a == [s EXCEPT !.atQuit = b]
           t == Merged(a)
<1>1. /\ a \in DocumentState(P) /\ Merging(s, a) /\ Asking(s, a)
      /\ a.desired = s.desired
  BY FlagsTyped, FlagsAlike
<1>2. /\ a.sendAgain = s.sendAgain /\ a.retryOnEar = s.retryOnEar /\ a.refused = s.refused
      /\ a.landed = s.landed /\ a.atQuit = b
  BY DEF DocumentState
<1> HIDE DEF a
<1>3. /\ Asking(a, t) /\ t.desired = a.desired /\ t.revision = a.revision
      /\ t.merges = a.unmerged /\ t.unmerged = <<>> /\ t.held = (a.unmerged # <<>>)
  BY <1>1, MergedEffect
<1>4. /\ t.sendAgain = a.sendAgain /\ t.retryOnEar = a.retryOnEar
      /\ t.refused = a.refused /\ t.atQuit = a.atQuit /\ t.landed = a.landed
      /\ t.folded = FALSE
  BY <1>1, MergedFlags
<1>5. t \in DocumentState(P)   BY <1>1, MergedTyped
<1> HIDE DEF t
<1>6. /\ ~s.landed /\ (s.refused => s.retryOnEar)
      /\ \A i \in 1..Len(s.unmerged) : s.unmerged[i].kept = None
  BY DEF Triggered, Marked
<1>7. s.landed \in BOOLEAN /\ s.unmerged \in Seq(Merges(P))   BY DEF DocumentState
<1>8. t.merges = s.unmerged /\ t.held = (s.unmerged # <<>>)   BY <1>1, <1>3 DEF Merging
<1>9. Len(t.unmerged) = 0   BY <1>3
<1>10. Marked(t, "idle")
  <2>1. ~t.landed /\ ~t.folded   BY <1>2, <1>4, <1>6
  <2>2. t.refused => t.retryOnEar   BY <1>2, <1>4, <1>6
  <2>3. t.held => t.merges # <<>>   BY <1>8
  <2> QED  BY <1>9, <2>1, <2>2, <2>3 DEF Marked
<1>11. s.unmerged # <<>> => ToFold(t)
  <2> SUFFICES ASSUME s.unmerged # <<>> PROVE ToFold(t)   OBVIOUS
  <2>1. 1 \in 1..Len(s.unmerged)   BY <1>7
  <2>2. Matters(t.merges[1])   BY <1>6, <1>8, <2>1 DEF Matters
  <2> QED  BY <1>8, <2>1, <2>2 DEF ToFold
<1>12. s.unmerged = <<>> => ~ToFold(t)
  <2> SUFFICES ASSUME s.unmerged = <<>> PROVE ~ToFold(t)   OBVIOUS
  <2>1. Len(t.merges) = 0   BY <1>8
  <2> QED  BY <1>3, <2>1 DEF ToFold
<1>13. ToFold(s) => ToFold(t)
  <2>1. Len(s.merges) = 0   OBVIOUS
  <2> QED  BY <1>11, <2>1 DEF ToFold
<1>14. t.write = s.write /\ Writing(t) = Writing(s) /\ Underway(t) = Underway(s)
  BY <1>1, <1>3 DEF Asking, Writing, Underway
<1>15. Writing(t) /\ t.desired # t.write.document =>
          t.sendAgain \/ s.atQuit \/ s.folded \/ ToFold(t) \/ late
  BY <1>1, <1>2, <1>3, <1>4, <1>13, <1>14 DEF Triggered, Later
<1>16. Owed(t) = Owed(s)   BY <1>1, <1>3 DEF Owed, Merging
<1>17. Goes(s, f, late) => Goes(t, f, late)
  BY <1>1, <1>2, <1>3, <1>4, <1>14 DEF Goes, Merging
<1>18. Owed(t) => Goes(t, f, late) \/ s.folded \/ s.atQuit \/ ToFold(t)
  BY <1>6, <1>13, <1>16, <1>17 DEF Triggered, Owing
<1> QED  BY <1>2, <1>4, <1>5, <1>6, <1>7, <1>8, <1>10, <1>11, <1>12, <1>15, <1>18 DEF t, a

LEMMA UnsentTriggers ==    \* a quit sends what is owed that nothing else sends
    ASSUME NEW P, NEW s \in DocumentState(P), NEW q, NEW f, NEW late,
           Marked(s, "idle"),
           Standing(s) # "unsent" => Triggered(s, "idle", q, f, late)
    PROVE  Triggered(SendUnsent(s), "idle", q, f, late)
<1>1. CASE Standing(s) = "unsent"
  <2>1. SendUnsent(s) = SendOwed(s)   BY <1>1 DEF SendUnsent
  <2>2. ~s.held /\ ~s.landed   BY <1>1 DEF Standing, Marked
  <2> QED  BY <2>1, <2>2, SentTriggers, SentMarked DEF Triggered
<1>2. CASE Standing(s) # "unsent"   BY <1>2 DEF SendUnsent
<1> QED  BY <1>1, <1>2
-----------------------------------------------------------------------------
Triggers == Triggered(store, turn, quit, file, behind)

TInv == FInv /\ (dropped \/ Triggers)

LEMMA EndMergeTriggers ==
    ASSUME IInv, Triggers, EndMerge \/ QuitTurn
    PROVE  Triggers'
<1>1. store \in DocumentState(Paths)   BY DEF IInv, TypeOK
<1>2. /\ turn = "merging" /\ turn' = "idle" /\ store.merges = <<>>
      /\ UNCHANGED <<file, behind>>
  BY DEF EndMerge, QuitTurn, disk, history
<1>3. Triggered(store, "merging", quit, file, behind)   BY <1>2 DEF Triggers
<1>4. ASSUME Triggered(store', "idle", quit', file, behind) PROVE Triggers'
  BY <1>2, <1>4 DEF Triggers
<1>5. CASE EndMerge
  <2> DEFINE t == Merged([store EXCEPT !.atQuit = FALSE])
  <2>1. /\ t \in DocumentState(Paths) /\ Marked(t, "idle")
        /\ t.atQuit = FALSE /\ t.landed = FALSE /\ t.folded = FALSE
        /\ t.held => ToFold(t)
        /\ ~t.held => ~ToFold(t) /\ t.merges = <<>>
        /\ Writing(t) /\ t.desired # t.write.document =>
               t.sendAgain \/ store.atQuit \/ store.folded \/ ToFold(t) \/ behind
        /\ Owed(t) => Goes(t, file, behind) \/ store.folded \/ store.atQuit \/ ToFold(t)
    BY <1>1, <1>2, <1>3, MergedTriggers
  <2>2. store' = IF store.folded \/ store.atQuit THEN SendOwed(t) ELSE t
    BY <1>5 DEF EndMerge
  <2> HIDE DEF t
  <2>3. CASE store.folded \/ store.atQuit
    <3>1. store' = SendOwed(t)   BY <2>2, <2>3
    <3>2. Triggered(store', "idle", quit', file, behind)
      BY <2>1, <3>1, SentTriggers, SentMarked DEF Triggered
    <3> QED  BY <1>4, <3>2
  <2>4. CASE ~(store.folded \/ store.atQuit)
    <3>1. store' = t   BY <2>2, <2>4
    <3>2. Later(t, behind)   BY <2>1, <2>4 DEF Later
    <3>3. Owing(t, file, behind)   BY <2>1, <2>4 DEF Owing
    <3>4. AtLast(t, "idle", quit', file, behind)   BY <2>1, <2>4 DEF AtLast
    <3> QED  BY <1>4, <2>1, <3>1, <3>2, <3>3, <3>4 DEF Triggered
  <2> QED  BY <2>3, <2>4
<1>6. CASE QuitTurn
  <2>1. \E b \in BOOLEAN : /\ b = (store.atQuit \/ store.folded)
                           /\ store' = SendUnsent(Merged([store EXCEPT !.atQuit = b]))
    BY <1>1, <1>6 DEF QuitTurn, DocumentState
  <2>2. PICK b \in BOOLEAN : /\ b = (store.atQuit \/ store.folded)
                             /\ store' = SendUnsent(Merged([store EXCEPT !.atQuit = b]))
    BY <2>1
  <2> DEFINE t == Merged([store EXCEPT !.atQuit = b])
  <2>3. /\ t \in DocumentState(Paths) /\ Marked(t, "idle")
        /\ t.atQuit = b /\ t.landed = FALSE /\ t.folded = FALSE
        /\ t.held => ToFold(t)
        /\ ~t.held => ~ToFold(t) /\ t.merges = <<>>
        /\ Writing(t) /\ t.desired # t.write.document =>
               t.sendAgain \/ store.atQuit \/ store.folded \/ ToFold(t) \/ behind
        /\ Owed(t) => Goes(t, file, behind) \/ store.folded \/ store.atQuit \/ ToFold(t)
    BY <1>1, <1>2, <1>3, MergedTriggers
  <2>4. store' = SendUnsent(t)   BY <2>2
  <2> HIDE DEF t
  <2>5. ASSUME Standing(t) # "unsent" PROVE Triggered(t, "idle", quit', file, behind)
    <3>1. Later(t, behind)   BY <2>2, <2>3 DEF Later
    <3>2. Owing(t, file, behind)   BY <2>2, <2>3 DEF Owing
    <3>3. store' = t   BY <2>4, <2>5 DEF SendUnsent
    <3>4. ASSUME Owed(t), ~t.held, Writing(t) PROVE quit' = "documents"
      <4>1. Standing(store') = "waiting"   BY <3>3, <3>4 DEF Standing
      <4> QED  BY <1>6, <4>1 DEF QuitTurn
    <3>5. ASSUME Owed(t), ~t.held, ~Writing(t) PROVE t.retryOnEar
      BY <2>3, <2>5, <3>5 DEF Standing, Marked
    <3>6. AtLast(t, "idle", quit', file, behind)
      BY <2>2, <2>3, <3>4, <3>5 DEF AtLast, Goes, WillMerge
    <3> QED  BY <2>3, <3>1, <3>2, <3>6 DEF Triggered
  <2> QED  BY <1>4, <2>3, <2>4, <2>5, UnsentTriggers
<1> QED  BY <1>5, <1>6

LEMMA RewriteFlags ==
    ASSUME NEW P, NEW s \in DocumentState(P), NEW w, NEW r
    PROVE  /\ Flagged(s, [s EXCEPT !.write = w]) /\ [s EXCEPT !.write = w].landed = s.landed
           /\ Flagged(s, [s EXCEPT !.read = r]) /\ [s EXCEPT !.read = r].landed = s.landed
BY DEF DocumentState, Flagged

LEMMA AnsweredFlags ==
    ASSUME NEW P, store \in DocumentState(P),
           NEW outcome, NEW theirs, NEW left, NEW retired, Writing(store)
    PROVE  LET t == Answered(outcome, theirs, left, retired)
           IN  /\ Flagged(store, t) /\ t.landed = store.landed /\ Merging(store, t)
               /\ t.desired = store.desired /\ t.write.document = store.write.document
               /\ Writing(t) /\ t.write.outcome = outcome
<1> DEFINE t == Answered(outcome, theirs, left, retired)
<1>1. /\ Rewrites(store, t) /\ t.write.step = "answered" /\ t.write.outcome = outcome
  BY AnsweredIs
<1>2. PICK w : t = [store EXCEPT !.write = w]
  BY DEF Answered
<1> HIDE DEF t
<1>3. Flagged(store, t) /\ t.landed = store.landed   BY <1>2, RewriteFlags
<1> QED  BY <1>1, <1>3 DEF Rewrites, Writing, t

LEMMA EditorTriggers ==
    ASSUME IInv, Triggers, ~Returns, Editor
    PROVE  Triggers'
<1>1. PICK c \in Saves : Save(c) \/ FindRaced(c) \/ RaceRead(c)   BY DEF Editor
<1>2. store \in DocumentState(Paths)   BY DEF IInv, TypeOK
<1>3. Triggered(store, turn, quit, file, behind)   BY DEF Triggers
<1>4. c # store.revision   BY DEF Saves, Known
<1>5. file' = c /\ UNCHANGED <<turn, quit, behind>>
  BY <1>1 DEF Save, FindRaced, RaceRead, Saved
<1>6. ASSUME Flagged(store, store'), store'.landed = store.landed, Merging(store, store'),
             store'.desired = store.desired, store'.write.document = store.write.document,
             Writing(store') = Writing(store)
      PROVE  Triggers'
  <2>1. Marked(store, turn) /\ Later(store, behind)   BY <1>3 DEF Triggered
  <2>2. c # store'.revision   BY <1>4, <1>6 DEF Merging
  <2>3. Triggered(store', turn, quit, c, behind)   BY <1>6, <2>1, <2>2, MovedAway
  <2> QED  BY <1>5, <2>3 DEF Triggers
<1>7. CASE Save(c)
  <2>1. store' = store   BY <1>7 DEF Save
  <2>2. Flagged(store, store') /\ Merging(store, store') /\ Writing(store') = Writing(store)
    BY <2>1 DEF Flagged, Merging
  <2> QED  BY <1>6, <2>1, <2>2
<1>8. CASE FindRaced(c)
  <2>1. store' = Answered("raced", NoFile, None, {}) /\ Writing(store)
    BY <1>8 DEF FindRaced, WriteIs, Writing
  <2>2. /\ Flagged(store, store') /\ store'.landed = store.landed /\ Merging(store, store')
        /\ store'.desired = store.desired /\ store'.write.document = store.write.document
        /\ Writing(store')
    BY <1>2, <2>1, AnsweredFlags
  <2>3. Writing(store') = Writing(store)   BY <2>1, <2>2 DEF Writing
  <2> QED  BY <1>6, <2>2, <2>3
<1>9. CASE RaceRead(c)
  <2>1. store' = [store EXCEPT !.read = [step |-> "answered", outcome |-> "raced",
                                         found |-> NoFile]]
    BY <1>9 DEF RaceRead
  <2>2. Flagged(store, store') /\ store'.landed = store.landed   BY <1>2, <2>1, RewriteFlags
  <2>3. Merging(store, store') /\ store'.desired = store.desired /\ store'.write = store.write
    BY <1>2, <2>1 DEF DocumentState, Merging
  <2> QED  BY <1>6, <2>2, <2>3 DEF Writing
<1> QED  BY <1>1, <1>7, <1>8, <1>9

LEMMA WorkerTriggers ==
    ASSUME IInv, Triggers, Check \/ FindMoved \/ Refuse \/ FindFile \/ FailRead
    PROVE  Triggers'
<1>1. store \in DocumentState(Paths)   BY DEF IInv, TypeOK
<1>2. Triggered(store, turn, quit, file, behind)   BY DEF Triggers
<1>3. UNCHANGED <<turn, quit, file, behind>>
  BY DEF Check, FindMoved, Refuse, FindFile, FailRead, disk, history
<1>4. ASSUME Flagged(store, store'), store'.landed = store.landed, Merging(store, store'),
             store'.desired = store.desired, store'.write.document = store.write.document,
             Writing(store') = Writing(store), Underway(store) => Underway(store')
      PROVE  Triggers'
  <2>1. Triggered(store', turn, quit, file, behind)   BY <1>2, <1>4, TriggersStay
  <2> QED  BY <1>3, <2>1 DEF Triggers
<1>5. CASE Check
  <2> DEFINE w == [store.write EXCEPT !.step = "checked"]
  <2>1. /\ w.step = "checked" /\ w.document = store.write.document
        /\ w.outcome = store.write.outcome
    BY <1>1 DEF DocumentState, Writes
  <2>2. store' = [store EXCEPT !.write = w]   BY <1>1, <1>5 DEF Check, DocumentState, Writes
  <2>3. store.write.step = "queued"   BY <1>5 DEF Check, WriteIs
  <2> HIDE DEF w
  <2>4. Flagged(store, store') /\ store'.landed = store.landed   BY <1>1, <2>2, RewriteFlags
  <2>5. Merging(store, store') /\ store'.desired = store.desired /\ store'.write = w
    BY <1>1, <2>2 DEF DocumentState, Merging
  <2> QED  BY <1>4, <2>1, <2>3, <2>4, <2>5 DEF Writing, Underway
<1>6. ASSUME NEW outcome \in {"moved", "refused"}, NEW theirs,
             store' = Answered(outcome, theirs, None, {}), Writing(store)
      PROVE  Triggers'
  <2>1. /\ Flagged(store, store') /\ store'.landed = store.landed /\ Merging(store, store')
        /\ store'.desired = store.desired /\ store'.write.document = store.write.document
        /\ Writing(store') /\ store'.write.outcome = outcome
    BY <1>1, <1>6, AnsweredFlags
  <2>2. Underway(store')   BY <1>6, <2>1 DEF Underway
  <2>3. Writing(store') = Writing(store)   BY <1>6, <2>1 DEF Writing
  <2> QED  BY <1>4, <2>1, <2>2, <2>3
<1>7. CASE FindMoved   BY <1>6, <1>7 DEF FindMoved, WriteIs, Writing
<1>8. CASE Refuse   BY <1>6, <1>8 DEF Refuse, WriteIs, Writing
<1>9. CASE FindFile \/ FailRead
  <2>1. \E r : store' = [store EXCEPT !.read = r]   BY <1>9 DEF FindFile, FailRead
  <2>2. PICK r : store' = [store EXCEPT !.read = r]   BY <2>1
  <2>3. Flagged(store, store') /\ store'.landed = store.landed   BY <1>1, <2>2, RewriteFlags
  <2>4. Merging(store, store') /\ store'.desired = store.desired /\ store'.write = store.write
    BY <1>1, <2>2 DEF DocumentState, Merging
  <2> QED  BY <1>4, <2>3, <2>4 DEF Writing, Underway
<1> QED  BY <1>5, <1>7, <1>8, <1>9

LEMMA PlacesTrigger ==
    ASSUME IInv, Follows, Triggers, Place \/ PlaceUndurably \/ Displace \/ DisplaceUnread
    PROVE  Triggers'
<1>1. store \in DocumentState(Paths)   BY DEF IInv, TypeOK
<1>2. Triggered(store, turn, quit, file, behind)   BY DEF Triggers
<1>3. /\ file' = store.write.document /\ UNCHANGED <<turn, quit, behind>>
      /\ store.write.step = "checked"
  BY DEF Place, PlaceUndurably, Displace, DisplaceUnread, Placed, Written, WriteIs
<1> DEFINE gone == RetiredBy(store.write.kept, store.write.version)
<1>4. \E outcome \in {"landed", "displaced"}, theirs \in {NoFile, file},
         left \in {None, made + 1}, retired \in {{}, gone} :
          store' = Answered(outcome, theirs, left, retired)
  BY DEF Place, PlaceUndurably, Displace, DisplaceUnread
<1>5. PICK outcome \in {"landed", "displaced"}, theirs \in {NoFile, file},
           left \in {None, made + 1}, retired \in {{}, gone} :
          store' = Answered(outcome, theirs, left, retired)
  BY <1>4
<1> HIDE DEF gone
<1>6. Writing(store)   BY <1>3 DEF Writing
<1>7. /\ Flagged(store, store') /\ store'.landed = store.landed /\ Merging(store, store')
      /\ store'.desired = store.desired /\ store'.write.document = store.write.document
      /\ Writing(store') = Writing(store)
  <2>1. /\ Flagged(store, store') /\ store'.landed = store.landed /\ Merging(store, store')
        /\ store'.desired = store.desired /\ store'.write.document = store.write.document
        /\ Writing(store')
    BY <1>1, <1>5, <1>6, AnsweredFlags
  <2>2. Writing(store') = Writing(store)   BY <1>6, <2>1 DEF Writing
  <2> QED  BY <2>1, <2>2
<1>8. store.write.document # store.revision
  <2>1. store.revision = store.write.base /\ store.write.document # Parse(store.write.base)
    BY <1>3, <1>6 DEF Follows, Faithful, Clean, Conditional, Served
  <2>2. store.write.document \in Document   BY <1>1 DEF DocumentState, Writes
  <2> QED  BY <2>1, <2>2, DocumentsParse
<1>9. Marked(store, turn) /\ Later(store, behind)   BY <1>2 DEF Triggered
<1>10. store.write.document # store'.revision   BY <1>7, <1>8 DEF Merging
<1>11. Triggered(store', turn, quit, store.write.document, behind)
  BY <1>7, <1>9, <1>10, MovedAway
<1> QED  BY <1>3, <1>11 DEF Triggers

LEMMA DrainTriggers ==
    ASSUME IInv, Follows, Triggers, EarPass \/ BeginDrain \/ Hear \/ AnswersHeard \/ MergeOne
    PROVE  Triggers'
<1>1. store \in DocumentState(Paths) /\ Given(store)   BY DEF IInv, TypeOK
<1>2. Triggered(store, turn, quit, file, behind) /\ Stored(store) /\ Clean(store, file)
  BY DEF Triggers, Follows, Faithful
<1>3. UNCHANGED <<file, quit, behind>>
  BY DEF EarPass, BeginDrain, Hear, AnswersHeard, MergeOne, disk, history
<1>4. ASSUME Triggered(store', turn', quit, file, behind) PROVE Triggers'
  BY <1>3, <1>4 DEF Triggers
<1>5. CASE EarPass
  <2>1. store' = AskRead(store) /\ turn' = turn   BY <1>5 DEF EarPass
  <2>2. /\ Flagged(store, store') /\ store'.landed = store.landed /\ Merging(store, store')
        /\ store'.desired = store.desired /\ store'.write = store.write
    BY <1>1, <2>1, AskReadEffect, AskReadFlags
  <2>3. Triggered(store', turn, quit, file, behind)
    BY <1>2, <2>2, TriggersStay DEF Writing, Underway
  <2> QED  BY <1>4, <2>1, <2>3
<1>6. CASE BeginDrain
  <2>1. store' = store /\ turn = "idle" /\ turn' = "hearing"   BY <1>6 DEF BeginDrain
  <2>2. Triggered(store, "hearing", quit, file, behind)
    BY <1>2, <2>1, TriggersStay DEF Flagged, Merging
  <2> QED  BY <1>4, <2>1, <2>2
<1>7. CASE Hear
  <2>1. turn = "hearing" /\ turn' = turn   BY <1>7 DEF Hear
  <2>2. CASE WriteToHear /\ store' = OnDocument(store)
    <3>1. store.write.step = "answered" /\ store.write.outcome # "none"
      BY <1>1, <2>2 DEF WriteToHear, Given
    <3> QED  BY <1>1, <1>2, <1>4, <2>1, <2>2, <3>1, OnDocumentTriggers
  <2>3. CASE ReadToHear /\ store' = OnRead(store)
    BY <1>1, <1>2, <1>4, <2>1, <2>3, OnReadTriggers
  <2> QED  BY <1>7, <2>2, <2>3 DEF Hear
<1>8. CASE AnswersHeard
  <2>1. store' = AfterAnswers(store) /\ turn = "hearing"   BY <1>8 DEF AnswersHeard
  <2>2. turn' \in {"idle", "merging"} /\ (WillMerge(quit) => turn' = "merging")
    BY <1>8 DEF AnswersHeard, WillMerge
  <2> QED  BY <1>1, <1>2, <1>4, <2>1, <2>2, AfterAnswersTriggers
<1>9. CASE MergeOne
  BY <1>1, <1>2, <1>4, <1>9, MergeHeadTriggers DEF MergeOne
<1> QED  BY <1>5, <1>6, <1>7, <1>8, <1>9

LEMMA RefusedNot ==    \* a quit forgets that a write was refused
    ASSUME NEW P, NEW s \in DocumentState(P), NEW q, NEW f, NEW late, Triggered(s, "idle", q, f, late),
           WillMerge(q)
    PROVE  LET t == [s EXCEPT !.refused = FALSE]
           IN  /\ t \in DocumentState(P) /\ Merging(s, t) /\ t.desired = s.desired
               /\ Triggered(t, "idle", "documents", f, late)
<1> DEFINE g == FALSE
           t == [s EXCEPT !.refused = g]
<1>1. g = FALSE   OBVIOUS
<1>2. t \in DocumentState(P) /\ Merging(s, t) /\ Asking(s, t) /\ t.desired = s.desired
  BY FlagsTyped, FlagsAlike
<1> HIDE DEF g
<1>3. /\ t.sendAgain = s.sendAgain /\ t.retryOnEar = s.retryOnEar /\ t.refused = g
      /\ t.folded = s.folded /\ t.atQuit = s.atQuit /\ t.landed = s.landed
  BY DEF DocumentState
<1> HIDE DEF t
<1>4. /\ ToFold(t) = ToFold(s) /\ Owed(t) = Owed(s) /\ Writing(t) = Writing(s)
      /\ Underway(t) = Underway(s) /\ t.write = s.write
  BY <1>2 DEF Merging, Asking, ToFold, Owed, Writing, Underway
<1>5. Marked(t, "idle")   BY <1>1, <1>2, <1>3, <1>4 DEF Triggered, Marked, Merging
<1>6. Later(t, late)   BY <1>2, <1>3, <1>4 DEF Triggered, Later
<1>7. Goes(s, f, late) => Goes(t, f, late)   BY <1>2, <1>3, <1>4 DEF Goes, Merging
<1>8. Owing(t, f, late)   BY <1>2, <1>3, <1>4, <1>7 DEF Triggered, Owing, Merging
<1>9. WillMerge("documents")   BY DEF WillMerge
<1>10. AtLast(t, "idle", "documents", f, late)
  BY <1>2, <1>3, <1>4, <1>7, <1>9 DEF Triggered, AtLast, Merging
<1> QED  BY <1>1, <1>2, <1>5, <1>6, <1>8, <1>10 DEF Triggered, t

LEMMA PersonTriggers ==
    ASSUME IInv, Triggers, Person, ~dropped'
    PROVE  Triggers'
<1>1. store \in DocumentState(Paths) /\ TypeOK   BY DEF IInv, TypeOK
<1>2. turn = "idle" /\ WillMerge(quit) /\ UNCHANGED <<turn, file>>
  BY DEF Person, Press, PressAgain, QuitBegin, LeaveWithout, Free, WillMerge, disk
<1>3. Triggered(store, "idle", quit, file, behind)   BY <1>2 DEF Triggers
<1>4. ASSUME Triggered(store', "idle", quit', file, behind') PROVE Triggers'
  BY <1>2, <1>4 DEF Triggers
<1>5. Marked(store, "idle") /\ ~store.landed   BY <1>3 DEF Triggered, Marked
<1>6. ASSUME NEW s \in DocumentState(Paths), store' = SendOwed(s), Marked(s, "idle"), ~s.landed,
             Merging(store, s), behind' = HeldByCopies(store)
      PROVE  Triggers'
  <2>1. s.held => ToFold(s) \/ behind'   BY <1>6 DEF Merging, HeldByCopies, ToFold
  <2>2. Later(store', behind') /\ Owing(store', file, behind')
        /\ AtLast(store', "idle", quit', file, behind')
    BY <1>6, <2>1, SentTriggers
  <2>3. Marked(store', "idle")   BY <1>6, SentMarked
  <2> QED  BY <1>4, <2>2, <2>3 DEF Triggered
<1>7. ASSUME NEW u \in Units, Press(u) PROVE Triggers'
  <2>1. PICK v \in {Fresh, Parse(store.revision)[u]} :
           store' = SendOwed([store EXCEPT !.desired[u] = v, !.version = @ + 1])
    BY <1>7 DEF Press
  <2> DEFINE t == [store EXCEPT !.desired[u] = v, !.version = @ + 1]
  <2>2. v \in Nat
    <3>1. Fresh \in Nat   BY <1>1, Numbers
    <3>2. Parse(store.revision) \in Document   BY <1>1, ContentsHaveDocuments DEF DocumentState
    <3> QED  BY <3>1, <3>2 DEF Document
  <2>3. t \in DocumentState(Paths)   BY <1>1, <2>2, PressTyped
  <2>4. /\ Merging(store, t) /\ Flagged(store, t) /\ t.landed = store.landed /\ t.write = store.write
    BY <1>1 DEF DocumentState, Merging, Flagged
  <2>5. store' = SendOwed(t) /\ behind' = HeldByCopies(store)   BY <1>7, <2>1 DEF Press
  <2> HIDE DEF t
  <2>6. Marked(t, "idle")   BY <1>5, <2>4, MarkedStays DEF Writing
  <2> QED  BY <1>5, <1>6, <2>3, <2>4, <2>5, <2>6
<1>8. CASE PressAgain
  <2>1. store' = SendOwed(store) /\ behind' = HeldByCopies(store)   BY <1>8 DEF PressAgain
  <2>2. Merging(store, store)   BY DEF Merging
  <2> QED  BY <1>1, <1>5, <1>6, <2>1, <2>2
<1>9. ASSUME store' = SendUnsent([store EXCEPT !.refused = FALSE]), quit' = "documents",
             behind' = behind
      PROVE  Triggers'
  <2> DEFINE t == [store EXCEPT !.refused = FALSE]
  <2>1. t \in DocumentState(Paths) /\ Triggered(t, "idle", "documents", file, behind)
    BY <1>1, <1>2, <1>3, RefusedNot
  <2>2. store' = SendUnsent(t)   BY <1>9
  <2> HIDE DEF t
  <2>3. Triggered(store', "idle", "documents", file, behind)
    BY <2>1, <2>2, UnsentTriggers DEF Triggered
  <2> QED  BY <1>4, <1>9, <2>3
<1>10. CASE QuitBegin   BY <1>9, <1>10 DEF QuitBegin, history
<1>11. CASE LeaveWithout
  <2>1. ~Owed(store)   BY <1>11 DEF LeaveWithout
  <2>2. DropOwed(store) = store   BY <1>1, <2>1, DropOwedKeeps
  <2> QED  BY <1>9, <1>11, <2>2 DEF LeaveWithout
<1> QED  BY <1>7, <1>8, <1>10, <1>11 DEF Person

LEMMA QuitTriggers ==
    ASSUME Triggers, QuitGoesOn \/ QuitFails
    PROVE  Triggers'
<1>1. UNCHANGED <<store, turn, file, behind>>
  BY DEF QuitGoesOn, QuitFails, CopyKept, Leave, QuitOutOfTime, CopyRefused, SessionRefused,
         disk, history
<1>2. WillMerge(quit) => WillMerge(quit')
  BY DEF QuitGoesOn, QuitFails, CopyKept, Leave, QuitOutOfTime, CopyRefused, SessionRefused,
         WillMerge
<1>3. Triggered(store, turn, quit', file, behind)
  BY <1>2, TriggersStay DEF Triggers, Flagged, Merging
<1> QED  BY <1>1, <1>3 DEF Triggers

LEMMA OpenedTriggers == Init => TInv
<1> SUFFICES ASSUME Init PROVE Triggers
  BY OpenedFollows DEF TInv
<1>1. file \in {NoFile, Default} /\ store = Opened(file) /\ turn = "idle"   BY DEF Init
<1>2. Parse(file) = Default
  BY <1>1, SentinelsAreContents, DocumentsParse, NoFileIsDefault
<1> DEFINE s == Opened(file)
<1>3. /\ s.desired = Default /\ s.revision = file /\ s.write = NoWrite
      /\ s.landed = FALSE /\ s.folded = FALSE /\ s.refused = FALSE /\ s.held = FALSE
      /\ s.unmerged = <<>>
  BY <1>2 DEF Opened
<1> HIDE DEF s
<1>4. ~Writing(s)   BY <1>3 DEF Writing, NoWrite
<1>5. ~Owed(s)   BY <1>2, <1>3 DEF Owed
<1>6. Len(s.unmerged) = 0   BY <1>3
<1>7. Triggered(s, "idle", quit, file, behind)
  BY <1>3, <1>4, <1>5, <1>6 DEF Triggered, Marked, Later, Owing, AtLast
<1> QED  BY <1>1, <1>7 DEF Triggers, s

LEMMA StepTriggers == TInv /\ ~Returns /\ [Next]_vars => TInv'
<1> SUFFICES ASSUME TInv, ~Returns, [Next]_vars
             PROVE  TInv'
  OBVIOUS
<1>1. FInv /\ FInv' /\ IInv   BY StepFollows DEF TInv, FInv
<1>2. CASE UNCHANGED vars
  BY <1>1, <1>2 DEF vars, disk, bounds, history, TInv, Triggers
<1>3. CASE Next
  <2>1. SUFFICES ASSUME ~dropped' PROVE Triggers'
    BY <1>1 DEF TInv
  <2>2. dropped => dropped'   BY <1>3, LeavingIsKept
  <2>3. Follows /\ Triggers   BY <1>1, <2>1, <2>2 DEF TInv, FInv
  <2> QED  BY <1>1, <1>3, <2>1, <2>3, EditorTriggers, WorkerTriggers, PlacesTrigger, DrainTriggers,
              EndMergeTriggers, PersonTriggers, QuitTriggers
           DEF Next, WorkerGoesOn, WorkerFails, WindowGoesOn
<1> QED  BY <1>2, <1>3

(* Nothing loses the store its next trigger: once all is heard of a file   *)
(* that parses, what is still owed goes with the next drain or the next    *)
(* pass of the ear, unless the last press came while the store was held by *)
(* copies alone, none of which will be merged (send_owed, after_answers,   *)
(* end_merge): for every set of units, every number of presses, saves and  *)
(* quits and every fault, if the editor saves nothing again that Folio     *)
(* still holds.                                                            *)
THEOREM OwedKeepsATrigger == ~Returns => (Spec => []OwedHasATrigger)
<1> SUFFICES ASSUME ~Returns PROVE Spec => []OwedHasATrigger
  OBVIOUS
<1>1. TInv /\ [Next]_vars => TInv'   BY StepTriggers
<1>2. TInv => OwedHasATrigger
  <2> SUFFICES ASSUME TInv, Quiet, file # Broken, Owed(store)
               PROVE  store.sendAgain \/ store.retryOnEar \/ behind
    BY DEF OwedHasATrigger
  <2>1. Triggered(store, "idle", quit, file, behind)   BY DEF TInv, Triggers, Quiet
  <2>2. store.revision = file   BY FollowsReaches DEF TInv, RevisionIsTheFile
  <2>3. ~store.held /\ ~store.landed   BY <2>1 DEF Triggered, Marked, Quiet
  <2> QED  BY <2>1, <2>2, <2>3 DEF Triggered, AtLast, Goes, Underway, Quiet
<1> QED  BY OpenedTriggers, <1>1, <1>2, PTL DEF Spec

-----------------------------------------------------------------------------
(* The person's edit of one unit: x, which stands against all that Folio   *)
(* sent before it.  Either it is in the file alone, and nothing that waits *)
(* or is on its way has it but what the store has yet to hear; or a write  *)
(* took it off the disk, and the store has yet to hear that; or the store  *)
(* wants it on disk, or will once all that waits is folded in.             *)

Is(c, u, x) == Parse(c)[u] = x    \* what c gives unit u is x

(* Of two answers to hear, the later has the edit once the earlier has it. *)
InOrder(s, u, x) ==
    Found(s.read) /\ MovedTo(s.write) =>
        /\ s.latest = "read" /\ Is(s.write.theirs, u, x) => Is(s.read.found, u, x)
        /\ s.latest = "write" /\ Is(s.read.found, u, x) => Is(s.write.theirs, u, x)

Without(m, u, x) ==
    m.theirs # Broken => m.written[u] # x /\ ~Is(m.base, u, x) /\ ~Is(m.theirs, u, x)
Absent(s, u, x) ==
    /\ s.desired[u] # x /\ ~Is(s.revision, u, x)
    /\ s.write.document[u] # x /\ ~Is(s.write.base, u, x)
    /\ s.write.outcome = "displaced" => ~Is(s.write.theirs, u, x)
    /\ \A i \in 1..Len(s.merges) : Without(s.merges[i], u, x)

Unheard(s, f, u, x) ==    \* the edit is in the file alone
    /\ Absent(s, u, x) /\ InOrder(s, u, x) /\ Is(f, u, x)
    /\ s.write.step = "checked" => s.desired[u] = s.write.document[u]

Aside(s, f, u, x) ==    \* a write displaced it
    /\ s.write.step = "answered" /\ s.write.outcome = "displaced"
    /\ Is(s.write.theirs, u, x) /\ ~Is(s.write.base, u, x)
    /\ s.write.document[u] # x /\ s.desired[u] = s.write.document[u]
    /\ Is(f, u, s.desired[u])
    /\ Found(s.read) /\ s.latest = "read" => Is(s.read.found, u, s.desired[u])

(* What a merge makes of a unit whose value in the store is d: the edit    *)
(* stays, or comes.                                                        *)
Harmless(m, u, x) ==
    m.theirs # Broken =>
        \/ Is(m.theirs, u, Parse(m.base)[u]) \/ Is(m.theirs, u, x)
        \/ m.kept # None /\ m.written[u] # x
Brings(m, u, x, d) ==
    /\ m.theirs # Broken /\ Is(m.theirs, u, x) /\ ~Is(m.base, u, x)
    /\ m.kept # None => m.written[u] = d

Will(s, u, x) ==
    \/ s.desired[u] = x /\ \A i \in 1..Len(s.merges) : Harmless(s.merges[i], u, x)
    \/ \E i \in 1..Len(s.merges) :
          /\ Brings(s.merges[i], u, x, s.desired[u])
          /\ s.merges[i].kept # None => i = 1
          /\ \A j \in 1..Len(s.merges) : i < j => Harmless(s.merges[j], u, x)

Comes(s, c, u, x) ==    \* a file that moves to c leaves the edit
    \/ Is(c, u, x)
    \/ /\ Is(c, u, Parse(s.revision)[u])
       /\ \A i \in Pending(s) : Is(s.merges[i].theirs, u, Parse(c)[u])

Heard(s, f, u, x) ==    \* the store has heard of it
    /\ Will(s, u, x) /\ InOrder(s, u, x) /\ Comes(s, f, u, x)
    /\ MovedTo(s.write) => /\ Comes(s, s.write.theirs, u, x)
                           /\ Is(s.write.theirs, u, x) => Is(f, u, x)
    /\ Found(s.read) => /\ Comes(s, s.read.found, u, x)
                        /\ Is(s.read.found, u, x) => Is(f, u, x)
    /\ Conditional(s, f) => s.write.document[u] = x
    /\ OnDisk(s.write) =>
          /\ Is(f, u, x)
          /\ s.write.outcome = "displaced" =>
                Is(s.write.theirs, u, Parse(s.write.base)[u]) \/ Is(s.write.theirs, u, x)
          /\ Found(s.read) /\ s.latest = "read" => Is(s.read.found, u, x)

Stands(s, f, u, x) == Unheard(s, f, u, x) \/ Aside(s, f, u, x) \/ Heard(s, f, u, x)

(* t is s for unit u.                                                      *)
Same(s, t, u) ==
    /\ t.revision = s.revision /\ t.merges = s.merges /\ t.desired[u] = s.desired[u]

LEMMA SameStands ==
    ASSUME NEW s, NEW t, NEW f, NEW u, NEW x, Same(s, t, u)
    PROVE  /\ (Will(t, u, x) <=> Will(s, u, x))
           /\ \A c : Comes(t, c, u, x) <=> Comes(s, c, u, x)
           /\ Asking(s, t) => (Unheard(t, f, u, x) <=> Unheard(s, f, u, x))
                              /\ (Aside(t, f, u, x) <=> Aside(s, f, u, x))
                              /\ (Heard(t, f, u, x) <=> Heard(s, f, u, x))
<1>1. (Will(t, u, x) <=> Will(s, u, x))   BY DEF Same, Will
<1>2. Pending(t) = Pending(s)   BY DEF Same, Pending
<1>3. ASSUME NEW c PROVE (Comes(t, c, u, x) <=> Comes(s, c, u, x))   BY <1>2 DEF Same, Comes
<1>4. ASSUME Asking(s, t)
      PROVE  (Unheard(t, f, u, x) <=> Unheard(s, f, u, x)) /\ (Aside(t, f, u, x) <=> Aside(s, f, u, x))
             /\ (Heard(t, f, u, x) <=> Heard(s, f, u, x))
  <2>1. (InOrder(t, u, x) <=> InOrder(s, u, x)) /\ (Absent(t, u, x) <=> Absent(s, u, x))
    BY <1>4 DEF Same, Asking, InOrder, Absent
  <2>2. (Conditional(t, f) <=> Conditional(s, f))   BY <1>4 DEF Asking, Conditional
  <2>3. (Unheard(t, f, u, x) <=> Unheard(s, f, u, x))   BY <1>4, <2>1 DEF Same, Asking, Unheard
  <2>4. (Aside(t, f, u, x) <=> Aside(s, f, u, x))   BY <1>4 DEF Same, Asking, Aside
  <2>5. (Heard(t, f, u, x) <=> Heard(s, f, u, x))
    <3>1. t.write = s.write /\ t.read = s.read /\ t.latest = s.latest   BY <1>4 DEF Asking
    <3>2. /\ (Comes(t, f, u, x) <=> Comes(s, f, u, x))
          /\ (Comes(t, s.write.theirs, u, x) <=> Comes(s, s.write.theirs, u, x))
          /\ (Comes(t, s.read.found, u, x) <=> Comes(s, s.read.found, u, x))
      BY <1>3
    <3>3. ASSUME Heard(s, f, u, x) PROVE Heard(t, f, u, x)
      BY <1>1, <2>1, <2>2, <3>1, <3>2, <3>3 DEF Heard
    <3>4. ASSUME Heard(t, f, u, x) PROVE Heard(s, f, u, x)
      BY <1>1, <2>1, <2>2, <3>1, <3>2, <3>4 DEF Heard
    <3> QED  BY <3>3, <3>4
  <2> QED  BY <2>3, <2>4, <2>5
<1> QED  BY <1>1, <1>3, <1>4

LEMMA AlikeStands ==
    ASSUME NEW s, NEW t, NEW f, NEW u, NEW x, Merging(s, t), Asking(s, t),
           t.desired[u] = s.desired[u], Stands(s, f, u, x)
    PROVE  Stands(t, f, u, x)
BY SameStands DEF Merging, Same, Stands

(* Nothing that waits has the edit, or nothing waits.                      *)
LEMMA NothingWaits ==
    ASSUME NEW s, NEW u, NEW x, s.merges = <<>>
    PROVE  Pending(s) = {} /\ (Will(s, u, x) <=> s.desired[u] = x)
<1>1. 1..Len(s.merges) = {}   OBVIOUS
<1>2. Pending(s) = {}   BY <1>1 DEF Pending
<1>3. Will(s, u, x) <=> s.desired[u] = x   BY <1>1 DEF Will
<1> QED  BY <1>2, <1>3

LEMMA SendOwedStands ==
    ASSUME NEW P, NEW s \in DocumentState(P), NEW f, NEW u \in Units, NEW x, Stored(s),
           Stands(s, f, u, x)
    PROVE  Stands(SendOwed(s), f, u, x)
<1> DEFINE t == SendOwed(s)
<1>1. /\ Merging(s, t) /\ t.desired = s.desired
      /\ t.read = s.read /\ t.readAgain = s.readAgain /\ t.unread = s.unread
      /\ \/ t.write = s.write /\ t.latest = s.latest
         \/ /\ ~s.held /\ ~Writing(s) /\ Owed(s)
            /\ t.write = Request(s) /\ t.latest = "write"
  BY SendOwedEffect
<1> HIDE DEF t
<1>2. CASE t.write = s.write /\ t.latest = s.latest
  <2>1. Asking(s, t)   BY <1>1, <1>2 DEF Asking
  <2> QED  BY <1>1, <2>1, AlikeStands DEF t
<1>3. CASE ~s.held /\ ~Writing(s) /\ t.write = Request(s)
  <2>1. /\ t.write.step = "queued" /\ t.write.document = s.desired /\ t.write.base = s.revision
        /\ t.write.outcome = "none"
    BY <1>3, RequestIs
  <2>2. ~MovedTo(t.write) /\ ~OnDisk(t.write)   BY <2>1 DEF MovedTo, OnDisk
  <2>3. Same(s, t, u) /\ s.merges = <<>>   BY <1>1, <1>3 DEF Same, Merging, Stored
  <2>4. InOrder(t, u, x)   BY <2>2 DEF InOrder
  <2>5. ~Aside(s, f, u, x)   BY <1>3 DEF Aside, Writing
  <2>6. CASE Unheard(s, f, u, x)
    <3>1. Absent(t, u, x)   BY <1>1, <2>1, <2>6 DEF Unheard, Absent, Merging
    <3> QED  BY <2>1, <2>4, <2>6, <3>1 DEF Unheard, Stands, t
  <2>7. CASE Heard(s, f, u, x)
    <3>1. Will(t, u, x) /\ \A c : Comes(t, c, u, x) <=> Comes(s, c, u, x)
      BY <2>3, <2>7, SameStands DEF Heard
    <3>2. t.write.document[u] = x   BY <2>1, <2>3, <2>7, NothingWaits DEF Heard
    <3>3. Heard(t, f, u, x)   BY <1>1, <2>2, <2>4, <2>7, <3>1, <3>2 DEF Heard
    <3> QED  BY <3>3 DEF Stands, t
  <2> QED  BY <2>5, <2>6, <2>7 DEF Stands
<1> QED  BY <1>1, <1>2, <1>3

(* A read that has nothing to say, or that is gone.                        *)
LEMMA UnreadStands ==
    ASSUME NEW s, NEW t, NEW f, NEW u, NEW x, Merging(s, t), t.desired = s.desired,
           t.write = s.write, ~Found(t.read), Stands(s, f, u, x)
    PROVE  Stands(t, f, u, x)
<1>1. Same(s, t, u)   BY DEF Same, Merging
<1>2. /\ (Will(t, u, x) <=> Will(s, u, x))
      /\ \A c : Comes(t, c, u, x) <=> Comes(s, c, u, x)
  BY <1>1, SameStands
<1>3. InOrder(t, u, x) /\ (Conditional(t, f) <=> Conditional(s, f))   BY DEF InOrder, Conditional
<1>4. ASSUME Unheard(s, f, u, x) PROVE Unheard(t, f, u, x)
  BY <1>1, <1>3, <1>4 DEF Unheard, Absent, Same
<1>5. ASSUME Aside(s, f, u, x) PROVE Aside(t, f, u, x)   BY <1>5 DEF Aside
<1>6. ASSUME Heard(s, f, u, x) PROVE Heard(t, f, u, x)
  <2>1. Comes(t, f, u, x) /\ (MovedTo(t.write) => Comes(t, s.write.theirs, u, x))
    BY <1>2, <1>6 DEF Heard
  <2> QED  BY <1>2, <1>3, <1>6, <2>1 DEF Heard
<1> QED  BY <1>4, <1>5, <1>6 DEF Stands

LEMMA AskReadStands ==
    ASSUME NEW P, NEW s \in DocumentState(P), NEW f, NEW u, NEW x, Stands(s, f, u, x)
    PROVE  Stands(AskRead(s), f, u, x)
<1> DEFINE t == AskRead(s)
<1>1. /\ Merging(s, t) /\ t.desired = s.desired /\ t.write = s.write /\ t.unread = s.unread
      /\ \/ t.read = s.read /\ t.latest = s.latest
         \/ t.read.step = "queued"
  BY AskReadEffect
<1> HIDE DEF t
<1>2. CASE t.read.step = "queued"
  <2>1. ~Found(t.read)   BY <1>2 DEF Found
  <2> QED  BY <1>1, <2>1, UnreadStands DEF t
<1>3. CASE t.read = s.read /\ t.latest = s.latest
  <2>1. (Unheard(t, f, u, x) <=> Unheard(s, f, u, x))
    BY <1>1, <1>3 DEF Unheard, Absent, InOrder, Merging
  <2>2. (Aside(t, f, u, x) <=> Aside(s, f, u, x))   BY <1>1, <1>3 DEF Aside
  <2>3. (Heard(t, f, u, x) <=> Heard(s, f, u, x))
    <3>1. Same(s, t, u)   BY <1>1 DEF Same, Merging
    <3>2. /\ (Will(t, u, x) <=> Will(s, u, x))
          /\ \A c : Comes(t, c, u, x) <=> Comes(s, c, u, x)
      BY <3>1, SameStands
    <3>3. /\ (Comes(t, f, u, x) <=> Comes(s, f, u, x))
          /\ (Comes(t, s.write.theirs, u, x) <=> Comes(s, s.write.theirs, u, x))
          /\ (Comes(t, s.read.found, u, x) <=> Comes(s, s.read.found, u, x))
      BY <3>2
    <3>4. (InOrder(t, u, x) <=> InOrder(s, u, x)) /\ (Conditional(t, f) <=> Conditional(s, f))
      BY <1>1, <1>3 DEF InOrder, Conditional
    <3> QED  BY <1>1, <1>3, <3>2, <3>3, <3>4 DEF Heard
  <2> QED  BY <2>1, <2>2, <2>3 DEF Stands, t
<1> QED  BY <1>1, <1>2, <1>3

(* What a file that moved makes of what is to come.                        *)
LEMMA MovedWill ==
    ASSUME NEW P, NEW a \in DocumentState(P), NEW c \in Contents, NEW u \in Units,
           NEW x \in Nat \ {0}
    PROVE  LET k == Keep(a, Moved(a, c))
           IN  /\ Absent(a, u, x) /\ Is(c, u, x) => Will(k, u, x)
               /\ Will(a, u, x) /\ Comes(a, c, u, x) => Will(k, u, x)
<1> DEFINE m == Moved(a, c)
           k == Keep(a, m)
<1>1. m \in Merges(P)   BY MovedTyped
<1>2. m.base = a.revision /\ m.theirs = c /\ m.kept = None   BY MovedIs
<1>3. k.desired = a.desired   BY <1>1, KeepEffect
<1>4. PICK n \in Nat \ {0} : Keeps(a, k, m, n)   BY <1>1, KeepEffect
<1>5. Is(c, u, x) => c # Broken   BY NoFileIsDefault DEF Is
<1>6. n \in 1..Len(k.merges) /\ k.merges[n] = m   BY <1>4 DEF Keeps
<1> HIDE DEF m, k
<1>7. ASSUME Is(c, u, x), ~Is(a.revision, u, x) PROVE Will(k, u, x)
  <2>1. Brings(k.merges[n], u, x, k.desired[u])   BY <1>2, <1>5, <1>6, <1>7 DEF Brings
  <2>2. \A j \in 1..Len(k.merges) : ~(n < j)   BY <1>4 DEF Keeps
  <2> QED  BY <1>2, <1>6, <2>1, <2>2 DEF Will
<1>8. ASSUME Is(c, u, x) \/ Is(c, u, Parse(a.revision)[u]) PROVE Harmless(m, u, x)
  BY <1>2, <1>8 DEF Harmless
<1>9. ASSUME Will(a, u, x), Comes(a, c, u, x) PROVE Will(k, u, x)
  <2>1. Harmless(m, u, x)   BY <1>8, <1>9 DEF Comes
  <2>2. \A j \in 1..Len(k.merges) :
            j = n \/ (j \in 1..(n - 1) /\ j \in 1..Len(a.merges) /\ k.merges[j] = a.merges[j])
    BY <1>4 DEF Keeps
  <2>3. CASE a.desired[u] = x /\ \A i \in 1..Len(a.merges) : Harmless(a.merges[i], u, x)
    <3>1. \A j \in 1..Len(k.merges) : Harmless(k.merges[j], u, x)   BY <1>6, <2>1, <2>2, <2>3
    <3> QED  BY <1>3, <2>3, <3>1 DEF Will
  <2>4. ASSUME NEW i \in 1..Len(a.merges),
               Brings(a.merges[i], u, x, a.desired[u]), a.merges[i].kept # None => i = 1,
               \A j \in 1..Len(a.merges) : i < j => Harmless(a.merges[j], u, x)
        PROVE  Will(k, u, x)
    <3>l. Len(a.merges) \in Nat   BY DEF DocumentState
    <3>1. CASE i \in 1..(n - 1)
      <4>1. i \in 1..Len(k.merges) /\ k.merges[i] = a.merges[i]   BY <1>4, <3>1 DEF Keeps
      <4>2. \A j \in 1..Len(k.merges) : i < j => Harmless(k.merges[j], u, x)
        BY <1>6, <2>1, <2>2, <2>4
      <4> QED  BY <1>3, <2>4, <4>1, <4>2 DEF Will
    <3>2. CASE i \notin 1..(n - 1)
      <4>1. i = n /\ a.merges[n].base = m.base /\ a.merges[n].kept = None
        BY <1>4, <3>2, <3>l DEF Keeps
      <4>2. ~Is(a.revision, u, x) /\ Is(a.merges[i].theirs, u, x) /\ a.merges[i].theirs # Broken
        BY <1>2, <2>4, <4>1 DEF Brings
      <4>3. i \in Pending(a)   BY <4>1, <4>2 DEF Pending, Foldable
      <4>4. Is(c, u, x)   BY <1>9, <4>2, <4>3 DEF Comes, Is
      <4> QED  BY <1>7, <4>2, <4>4
    <3> QED  BY <3>1, <3>2
  <2> QED  BY <1>9, <2>3, <2>4 DEF Will
<1> QED  BY <1>7, <1>9 DEF Absent, k, m

LEMMA MovedComes ==
    ASSUME NEW P, NEW a \in DocumentState(P), NEW c \in Contents, NEW u \in Units, NEW x,
           NEW t, t.merges = Keep(a, Moved(a, c)).merges, t.revision \in {a.revision, c},
           NEW d, Comes(a, c, u, x), Comes(a, d, u, x), Is(c, u, x) => Is(d, u, x)
    PROVE  Comes(t, d, u, x)
<1> DEFINE m == Moved(a, c)
           k == Keep(a, m)
<1>1. m \in Merges(P)   BY MovedTyped
<1>2. m.theirs = c   BY MovedIs
<1>3. PICK n \in Nat \ {0} : Keeps(a, k, m, n)   BY <1>1, KeepEffect
<1>4. t.merges = k.merges   OBVIOUS
<1> HIDE DEF m, k
<1>5. SUFFICES ASSUME ~Is(d, u, x) PROVE Comes(t, d, u, x)
  BY DEF Comes
<1>6. /\ Is(c, u, Parse(a.revision)[u]) /\ Is(d, u, Parse(a.revision)[u])
      /\ \A i \in Pending(a) : Is(a.merges[i].theirs, u, Parse(d)[u])
  BY <1>5 DEF Comes
<1>7. Is(d, u, Parse(t.revision)[u])   BY <1>6 DEF Is
<1>8. ASSUME NEW j \in Pending(t) PROVE Is(t.merges[j].theirs, u, Parse(d)[u])
  <2>1. j \in 1..Len(k.merges) /\ Foldable(k.merges[j])   BY <1>4 DEF Pending
  <2>2. CASE j = n   BY <1>2, <1>3, <1>4, <1>6, <2>2 DEF Keeps, Is
  <2>3. CASE j # n
    <3>1. j \in 1..(n - 1)   BY <1>3, <2>1, <2>3 DEF Keeps
    <3>2. j \in 1..Len(a.merges) /\ k.merges[j] = a.merges[j]   BY <1>3, <3>1 DEF Keeps
    <3>3. j \in Pending(a)   BY <2>1, <3>2 DEF Pending
    <3> QED  BY <1>4, <1>6, <3>2, <3>3
  <2> QED  BY <2>2, <2>3
<1> QED  BY <1>7, <1>8 DEF Comes

LEMMA KeepAbsent ==
    ASSUME NEW P, NEW a \in DocumentState(P), NEW m \in Merges(P), NEW u, NEW x,
           Absent(a, u, x), Without(m, u, x)
    PROVE  Absent(Keep(a, m), u, x)
<1> DEFINE k == Keep(a, m)
<1>1. k.revision = a.revision /\ k.desired = a.desired /\ Asking(a, k)   BY KeepEffect
<1>2. PICK n \in Nat \ {0} : Keeps(a, k, m, n)   BY KeepEffect
<1> HIDE DEF k
<1>3. ASSUME NEW i \in 1..Len(k.merges) PROVE Without(k.merges[i], u, x)
  <2>1. CASE i = n   BY <1>2, <2>1 DEF Keeps
  <2>2. CASE i # n
    <3>1. i \in 1..(n - 1)   BY <1>2, <2>2 DEF Keeps
    <3>2. i \in 1..Len(a.merges) /\ k.merges[i] = a.merges[i]   BY <1>2, <3>1 DEF Keeps
    <3> QED  BY <3>2 DEF Absent
  <2> QED  BY <2>1, <2>2
<1>4. Absent(k, u, x)   BY <1>1, <1>3 DEF Absent, Asking
<1> QED  BY <1>4 DEF k

LEMMA MovedWithout ==
    ASSUME NEW a, NEW c, NEW u \in Units, NEW x \in Nat \ {0}, Absent(a, u, x), ~Is(c, u, x)
    PROVE  Without(Moved(a, c), u, x)
BY MovedIs, NoFileIsDefault DEF Without, Absent

(* What the answer to a read makes of the edit.                            *)
LEMMA OnReadStands ==
    ASSUME NEW P, NEW s \in DocumentState(P), NEW f, NEW news, Faithful(s, f, news),
           s.read.step = "answered", s.latest = "read" => ~Writing(s),
           NEW u \in Units, NEW x \in Nat \ {0}, Stands(s, f, u, x)
    PROVE  Stands(OnRead(s), f, u, x)
<1> DEFINE t == OnRead(s)
           c == s.read.found
<1>1. ASSUME NEW a, ReadTaken(s, a), Merging(s, a)
      PROVE  Stands(a, f, u, x) /\ ~Found(a.read)
  <2>1. ~Found(a.read)   BY <1>1 DEF ReadTaken, NoRead, Found
  <2> QED  BY <1>1, <2>1, UnreadStands DEF ReadTaken
<1>2. SUFFICES ASSUME s.read.outcome = "found", ~FoliosOwn(s, c),
                      NEW a \in DocumentState(P), ReadTaken(s, a), Merging(s, a),
                      t = IF s.held THEN [Keep(a, Moved(a, c)) EXCEPT !.revision = c]
                          ELSE Keep(a, Moved(a, c))
               PROVE  Stands(t, f, u, x)
  BY <1>1, OnReadEffect
<1> DEFINE m == Moved(a, c)
           k == Keep(a, m)
<1>3. c \in Contents   BY DEF DocumentState, Reads
<1>4. m \in Merges(P) /\ k \in DocumentState(P)   BY <1>3, MovedTyped, KeepTyped
<1>5. k.revision = a.revision /\ k.desired = a.desired /\ Asking(a, k)   BY <1>4, KeepEffect
<1>6. Found(s.read) /\ s.latest \in {"read", "write"}   BY <1>2 DEF Found, DocumentState
<1>7. ASSUME Absent(a, u, x), Is(c, u, x) PROVE Will(k, u, x)   BY <1>3, <1>7, MovedWill
<1>8. ASSUME Will(a, u, x), Comes(a, c, u, x) PROVE Will(k, u, x)   BY <1>3, <1>8, MovedWill
<1>9. ASSUME NEW d, Comes(a, c, u, x), Comes(a, d, u, x), Is(c, u, x) => Is(d, u, x),
             t.merges = k.merges, t.revision \in {a.revision, c}
      PROVE  Comes(t, d, u, x)
  BY <1>3, <1>9, MovedComes
<1>10. ASSUME Absent(a, u, x), ~Is(c, u, x) PROVE Absent(k, u, x)
  BY <1>4, <1>10, MovedWithout, KeepAbsent
<1>11. t = IF s.held THEN [k EXCEPT !.revision = c] ELSE k   BY <1>2
<1> HIDE DEF m, k, t
<1>12. /\ t.merges = k.merges /\ t.desired = s.desired /\ t.revision \in {a.revision, c}
       /\ t.write = s.write /\ t.latest = s.latest /\ t.read = NoRead
  <2>1. k.desired = s.desired /\ k.write = s.write /\ k.latest = s.latest /\ k.read = NoRead
    BY <1>2, <1>5 DEF ReadTaken, Asking
  <2>2. CASE s.held
    <3>1. t = [k EXCEPT !.revision = c]   BY <1>11, <2>2
    <3> QED  BY <1>4, <2>1, <3>1 DEF DocumentState
  <2>3. CASE ~s.held   BY <1>5, <1>11, <2>1, <2>3
  <2> QED  BY <2>2, <2>3
<1>13. /\ a.desired = s.desired /\ a.revision = s.revision /\ a.write = s.write
       /\ Stands(a, f, u, x)
  BY <1>1, <1>2 DEF ReadTaken, Merging
<1>14. ~Found(t.read) /\ InOrder(t, u, x) /\ (Conditional(t, f) <=> Conditional(s, f))
  BY <1>12 DEF Found, NoRead, InOrder, Conditional
<1>15. Will(k, u, x) => Will(t, u, x)   BY <1>5, <1>12, <1>13 DEF Will
<1>16. ~Aside(s, f, u, x)
  <2>1. SUFFICES ASSUME s.write.step = "answered", s.write.outcome = "displaced" PROVE FALSE
    BY DEF Aside
  <2>2. OnDisk(s.write) /\ s.latest = "write"   BY <1>6, <2>1 DEF OnDisk, Writing
  <2>3. c = s.revision   BY <1>6, <2>2 DEF Faithful, Clean, Conditional
  <2> QED  BY <1>2, <2>3 DEF FoliosOwn
<1>17. CASE Unheard(s, f, u, x)
  <2>1. Absent(a, u, x)   BY <1>2, <1>13, <1>17 DEF Unheard, Absent, Merging
  <2>2. CASE Is(c, u, x)
    <3>1. Will(t, u, x)   BY <1>7, <1>15, <2>1, <2>2
    <3>2. Is(f, u, x)   BY <1>17 DEF Unheard
    <3>3. ~Conditional(s, f)
      <4>1. SUFFICES ASSUME Conditional(s, f) PROVE FALSE   OBVIOUS
      <4>2. Writing(s) /\ s.latest = "write"   BY <1>6, <4>1 DEF Conditional, OnDisk, Writing
      <4>3. c = s.write.base   BY <1>6, <4>1, <4>2 DEF Faithful, Clean
      <4> QED  BY <1>17, <2>2, <4>3 DEF Unheard, Absent
    <3>4. ASSUME MovedTo(s.write) PROVE Is(s.write.theirs, u, x)
      <4>1. s.latest = "write"   BY <1>6, <3>4 DEF MovedTo, Writing
      <4> QED  BY <1>6, <1>17, <2>2, <3>4, <4>1 DEF Unheard, InOrder
    <3>5. ~OnDisk(s.write)   BY <3>3 DEF Conditional
    <3>6. Heard(t, f, u, x)
      BY <1>12, <1>14, <3>1, <3>2, <3>3, <3>4, <3>5 DEF Heard, Comes
    <3> QED  BY <3>6 DEF Stands
  <2>3. CASE ~Is(c, u, x)
    <3>1. Absent(k, u, x)   BY <1>10, <2>1, <2>3
    <3>2. Absent(t, u, x)   BY <1>5, <1>12, <1>13, <2>3, <3>1 DEF Absent, Asking
    <3> QED  BY <1>12, <1>14, <1>17, <3>2 DEF Unheard, Stands
  <2> QED  BY <2>2, <2>3
<1>18. CASE Heard(s, f, u, x)
  <2>1. Same(s, a, u)   BY <1>2, <1>13 DEF Same, Merging
  <2>2. /\ Will(a, u, x) /\ Comes(a, f, u, x) /\ Comes(a, c, u, x)
        /\ MovedTo(s.write) => Comes(a, s.write.theirs, u, x)
    <3>1. /\ Will(a, u, x) <=> Will(s, u, x)
          /\ \A d : Comes(a, d, u, x) <=> Comes(s, d, u, x)
      BY <2>1, SameStands
    <3> QED  BY <1>6, <1>18, <3>1 DEF Heard
  <2>3. Will(t, u, x)   BY <1>8, <1>15, <2>2
  <2>4. Is(c, u, x) => Is(f, u, x)   BY <1>6, <1>18 DEF Heard
  <2>5. Comes(t, f, u, x)   BY <1>9, <1>12, <2>2, <2>4
  <2>6. ASSUME MovedTo(s.write) PROVE Comes(t, s.write.theirs, u, x)
    <3>1. s.latest = "write"   BY <1>6, <2>6 DEF MovedTo, Writing
    <3>2. Is(c, u, x) => Is(s.write.theirs, u, x)
      BY <1>6, <1>18, <2>6, <3>1 DEF Heard, InOrder
    <3> QED  BY <1>9, <1>12, <2>2, <2>6, <3>2
  <2>7. Heard(t, f, u, x)   BY <1>12, <1>14, <1>18, <2>3, <2>5, <2>6 DEF Heard
  <2> QED  BY <2>7 DEF Stands
<1> QED  BY <1>16, <1>17, <1>18 DEF Stands

(* A write's answer heard, of which nothing is on its way any more.        *)
LEMMA WriteHeard ==
    ASSUME NEW t, NEW f, NEW u \in Units, NEW x \in Nat \ {0}, t.write = NoWrite
    PROVE  /\ InOrder(t, u, x)
           /\ Will(t, u, x) /\ Comes(t, f, u, x)
                /\ (Found(t.read) => Comes(t, t.read.found, u, x)
                                     /\ (Is(t.read.found, u, x) => Is(f, u, x)))
              => Heard(t, f, u, x)
           /\ Absent(t, u, x) /\ Is(f, u, x) => Unheard(t, f, u, x)
<1>1. t.write.step = "none" /\ t.write.outcome = "none"   BY DEF NoWrite
<1>2. ~MovedTo(t.write) /\ ~OnDisk(t.write) /\ ~Conditional(t, f)
  BY <1>1 DEF MovedTo, OnDisk, Conditional
<1>3. InOrder(t, u, x)   BY <1>2 DEF InOrder
<1> QED  BY <1>1, <1>2, <1>3 DEF Heard, Unheard

(* What the answer to a write makes of the edit.                           *)
LEMMA OnDocumentStands ==
    ASSUME NEW P, NEW s \in DocumentState(P), NEW f, NEW news, Faithful(s, f, news),
           s.write.step = "answered", s.write.outcome # "none",
           s.latest = "write" => ~Reading(s),
           NEW u \in Units, NEW x \in Nat \ {0}, Stands(s, f, u, x)
    PROVE  Stands(OnDocument(s), f, u, x)
<1> DEFINE t == OnDocument(s)
           w == s.write
<1>1. WriteTaken(s, t)   BY OnDocumentEffect
<1>2. w \in Writes(P) /\ w.document \in Document /\ Parse(w.document) = w.document
  BY DocumentsParse DEF DocumentState, Writes
<1>3. Found(s.read) => s.latest = "read"
  BY DEF Found, Reading, DocumentState
<1>4. OnDisk(w) => s.merges = <<>> /\ s.revision = w.base
  BY DEF Faithful, Clean, Conditional, Stored
<1>5. Served(s)   BY DEF Faithful
<1> HIDE DEF t
<1>6. t.write = NoWrite /\ t.read = s.read /\ t.desired = s.desired
  BY <1>1 DEF WriteTaken
<1>7. ASSUME Will(t, u, x), Comes(t, f, u, x),
             Found(s.read) => Comes(t, s.read.found, u, x) /\ (Is(s.read.found, u, x) => Is(f, u, x))
      PROVE  Stands(t, f, u, x)
  BY <1>6, <1>7, WriteHeard DEF Stands
<1>8. ASSUME Absent(t, u, x), Is(f, u, x) PROVE Stands(t, f, u, x)
  BY <1>6, <1>8, WriteHeard DEF Stands
<1>9. t.write.document[u] # x /\ ~Is(t.write.base, u, x) /\ t.write.outcome # "displaced"
  BY <1>6, NoFileIsDefault DEF NoWrite, Is
<1>10. ASSUME w.outcome = "landed", t.revision = w.document, t.merges = s.merges
       PROVE  Stands(t, f, u, x)
  <2>1. OnDisk(w)   BY <1>10 DEF OnDisk
  <2>2. CASE Unheard(s, f, u, x)
    <3>1. ~Is(t.revision, u, x)   BY <1>2, <1>10, <2>2 DEF Unheard, Absent, Is
    <3>2. Absent(t, u, x)   BY <1>6, <1>9, <1>10, <2>2, <3>1 DEF Unheard, Absent
    <3> QED  BY <1>8, <2>2, <3>2 DEF Unheard
  <2>3. CASE Heard(s, f, u, x)
    <3>1. Will(t, u, x)   BY <1>6, <1>10, <2>3 DEF Heard, Will
    <3>2. Is(f, u, x) /\ (Found(s.read) => Is(s.read.found, u, x))
      BY <1>3, <2>1, <2>3 DEF Heard
    <3> QED  BY <1>7, <3>1, <3>2 DEF Comes
  <2> QED  BY <1>10, <2>2, <2>3 DEF Stands, Aside
<1>11. ASSUME w.outcome = "displaced", NEW a \in DocumentState(P), Merging(s, a),
              t.merges = Keep(a, Displaced(w)).merges, t.revision = w.document
       PROVE  Stands(t, f, u, x)
  <2> DEFINE m == Displaced(w)
             k == Keep(a, m)
  <2>1. OnDisk(w) /\ s.merges = <<>> /\ s.revision = w.base   BY <1>4, <1>11 DEF OnDisk
  <2>2. m \in Merges(P)   BY <1>2 DEF Writes, Merges, Displaced
  <2>3. m.base = w.base /\ m.theirs = w.theirs /\ m.kept = w.left /\ m.written = w.document
    BY DEF Displaced
  <2>4. PICK n \in Nat \ {0} : Keeps(a, k, m, n)   BY <1>11, <2>2, KeepEffect
  <2>5. Len(a.merges) = 0   BY <1>11, <2>1 DEF Merging
  <2>6. n = 1   BY <2>4, <2>5 DEF Keeps
  <2>7. Len(t.merges) = 1 /\ t.merges[1] = m /\ \A i \in 1..Len(t.merges) : i = 1
    BY <1>11, <2>4, <2>6 DEF Keeps
  <2>8. m.kept # None   BY <1>5, <1>11, <2>3 DEF Served
  <2>9. Pending(t) = {}   BY <2>7, <2>8 DEF Pending, Foldable
  <2> HIDE DEF m, k
  <2>10. CASE Unheard(s, f, u, x)
    <3>1. ~Is(t.revision, u, x)   BY <1>2, <1>11, <2>10 DEF Unheard, Absent, Is
    <3>2. Without(m, u, x)   BY <1>11, <2>3, <2>10 DEF Unheard, Absent, Without
    <3>3. Absent(t, u, x)   BY <1>6, <1>9, <2>7, <2>10, <3>1, <3>2 DEF Unheard, Absent
    <3> QED  BY <1>8, <2>10, <3>3 DEF Unheard
  <2>11. CASE Aside(s, f, u, x)
    <3>1. m.theirs # Broken   BY <2>3, <2>11, NoFileIsDefault DEF Aside, Is
    <3>2. Brings(m, u, x, t.desired[u])   BY <1>6, <2>3, <2>11, <3>1 DEF Aside, Brings
    <3>3. Will(t, u, x)
      <4>1. 1 \in 1..Len(t.merges) /\ \A j \in 1..Len(t.merges) : ~(1 < j)   BY <2>7
      <4> QED  BY <2>7, <3>2, <4>1 DEF Will
    <3>4. Parse(t.revision)[u] = s.desired[u]   BY <1>2, <1>11, <2>11 DEF Aside
    <3>5. ASSUME NEW c, Is(c, u, s.desired[u]) PROVE Comes(t, c, u, x)
      BY <2>9, <3>4, <3>5 DEF Comes, Is
    <3>6. s.desired[u] # x   BY <2>11 DEF Aside
    <3> QED  BY <1>3, <1>7, <2>11, <3>3, <3>5, <3>6 DEF Aside, Is
  <2>12. CASE Heard(s, f, u, x)
    <3>1. t.desired[u] = x   BY <1>6, <2>1, <2>12, NothingWaits DEF Heard
    <3>2. Harmless(m, u, x)   BY <1>11, <2>1, <2>3, <2>12 DEF Heard, Harmless
    <3>3. Will(t, u, x)   BY <2>7, <3>1, <3>2 DEF Will
    <3>4. Is(f, u, x) /\ (Found(s.read) => Is(s.read.found, u, x))
      BY <1>3, <2>1, <2>12 DEF Heard
    <3> QED  BY <1>7, <3>3, <3>4 DEF Comes
  <2> QED  BY <2>10, <2>11, <2>12 DEF Stands
<1>12. ASSUME w.outcome = "moved", NEW a \in DocumentState(P), WriteTaken(s, a), Merging(s, a),
              t = Keep(a, Moved(a, w.theirs))
       PROVE  Stands(t, f, u, x)
  <2> DEFINE c == w.theirs
             m == Moved(a, c)
  <2>1. c \in Contents /\ m \in Merges(P)   BY <1>2, MovedTyped DEF Writes
  <2>2. MovedTo(w)   BY <1>12 DEF MovedTo
  <2>3. t.revision = a.revision /\ a.desired = s.desired /\ a.write = NoWrite
    BY <1>12, <2>1, KeepEffect DEF WriteTaken
  <2>4. Found(s.read) /\ Is(c, u, x) /\ InOrder(s, u, x) => Is(s.read.found, u, x)
    BY <1>3, <2>2 DEF InOrder
  <2>5. CASE Unheard(s, f, u, x)
    <3>1. Absent(a, u, x)
      <4>1. a.write.document[u] # x /\ ~Is(a.write.base, u, x) /\ a.write.outcome # "displaced"
        BY <2>3, NoFileIsDefault DEF NoWrite, Is
      <4> QED  BY <1>12, <2>3, <2>5, <4>1 DEF Unheard, Absent, Merging
    <3>2. CASE Is(c, u, x)
      <4>1. Will(t, u, x)   BY <1>12, <2>1, <3>1, <3>2, MovedWill
      <4> QED  BY <1>7, <2>4, <2>5, <3>2, <4>1 DEF Unheard, Comes
    <3>3. CASE ~Is(c, u, x)
      <4>1. Without(m, u, x)   BY <3>1, <3>3, MovedWithout
      <4>2. Absent(t, u, x)   BY <1>12, <2>1, <3>1, <4>1, KeepAbsent
      <4> QED  BY <1>8, <2>5, <4>2 DEF Unheard
    <3> QED  BY <3>2, <3>3
  <2>6. CASE Heard(s, f, u, x)
    <3>1. Same(s, a, u)   BY <1>12, <2>3 DEF Same, Merging
    <3>2. /\ Will(a, u, x) /\ Comes(a, f, u, x) /\ Comes(a, c, u, x)
          /\ Found(s.read) => Comes(a, s.read.found, u, x)
      <4>1. /\ Will(a, u, x) <=> Will(s, u, x)
            /\ \A d : Comes(a, d, u, x) <=> Comes(s, d, u, x)
        BY <3>1, SameStands
      <4> QED  BY <2>2, <2>6, <4>1 DEF Heard
    <3>3. Will(t, u, x)   BY <1>12, <2>1, <3>2, MovedWill
    <3>4. ASSUME NEW d, Comes(a, d, u, x), Is(c, u, x) => Is(d, u, x) PROVE Comes(t, d, u, x)
      BY <1>12, <2>1, <2>3, <3>2, <3>4, MovedComes
    <3>5. Comes(t, f, u, x)   BY <2>2, <2>6, <3>2, <3>4 DEF Heard
    <3>6. Found(s.read) => Comes(t, s.read.found, u, x)
      BY <2>4, <2>6, <3>2, <3>4 DEF Heard
    <3> QED  BY <1>7, <2>6, <3>3, <3>5, <3>6 DEF Heard
  <2> QED  BY <1>12, <2>5, <2>6 DEF Stands, Aside
<1>13. ASSUME w.outcome \in {"raced", "refused"}, Merging(s, t)
       PROVE  Stands(t, f, u, x)
  <2>1. CASE Unheard(s, f, u, x)
    <3>1. Absent(t, u, x)   BY <1>6, <1>9, <1>13, <2>1 DEF Unheard, Absent, Merging
    <3> QED  BY <1>8, <2>1, <3>1 DEF Unheard
  <2>2. CASE Heard(s, f, u, x)
    <3>1. Same(s, t, u)   BY <1>6, <1>13 DEF Same, Merging
    <3>2. /\ Will(t, u, x) <=> Will(s, u, x)
          /\ \A d : Comes(t, d, u, x) <=> Comes(s, d, u, x)
      BY <3>1, SameStands
    <3>3. Will(t, u, x) /\ Comes(t, f, u, x)
          /\ (Found(s.read) => Comes(t, s.read.found, u, x))
      BY <2>2, <3>2 DEF Heard
    <3> QED  BY <1>7, <2>2, <3>3 DEF Heard
  <2> QED  BY <1>13, <2>1, <2>2 DEF Stands, Aside
<1>14. \/ w.outcome = "landed" /\ t.revision = w.document /\ t.merges = s.merges
       \/ /\ w.outcome = "displaced"
          /\ \E a \in DocumentState(P) :
                Merging(s, a) /\ t.merges = Keep(a, Displaced(w)).merges /\ t.revision = w.document
       \/ /\ w.outcome = "moved"
          /\ \E a \in DocumentState(P) :
                WriteTaken(s, a) /\ Merging(s, a) /\ t = Keep(a, Moved(a, w.theirs))
       \/ w.outcome \in {"raced", "refused"} /\ Merging(s, t)
  BY OnDocumentEffect DEF t
<1> QED  BY <1>10, <1>11, <1>12, <1>13, <1>14 DEF t

LEMMA AfterAnswersStands ==
    ASSUME NEW P, NEW s \in DocumentState(P), NEW f, NEW u \in Units, NEW x, Stored(s),
           Stands(s, f, u, x)
    PROVE  Stands(AfterAnswers(s), f, u, x)
<1> DEFINE t == AfterAnswers(s)
<1>1. PICK a \in DocumentState(P), b \in DocumentState(P) :
              /\ a = s \/ a = AskRead(s)
              /\ b = a \/ b = SendOwed(a)
              /\ Merging(b, t) /\ Asking(b, t) /\ t.desired = b.desired
  BY AfterAnswersEffect
<1> HIDE DEF t
<1>2. Stored(a) /\ Stands(a, f, u, x)
  <2>1. CASE a = AskRead(s)
    <3>1. Merging(s, a)   BY <2>1, AskReadEffect
    <3>2. Stored(a)   BY <3>1, MergingAlike
    <3>3. Stands(a, f, u, x)   BY <2>1, AskReadStands
    <3> QED  BY <3>2, <3>3
  <2>2. CASE a = s   BY <2>2
  <2> QED  BY <1>1, <2>1, <2>2
<1>3. Stands(b, f, u, x)
  <2>1. CASE b = SendOwed(a)   BY <1>2, <2>1, SendOwedStands
  <2>2. CASE b = a   BY <1>2, <2>2
  <2> QED  BY <1>1, <2>1, <2>2
<1> QED  BY <1>1, <1>3, AlikeStands DEF t

(* What folding a file in makes of a unit.                                 *)
LEMMA FoldIs ==
    ASSUME NEW P, NEW s \in DocumentState(P), NEW m \in Merges(P), NEW u \in Units
    PROVE  Fold(s, m).desired[u]
               = IF \/ m.kept # None /\ s.desired[u] # m.written[u]
                    \/ Is(m.theirs, u, Parse(m.base)[u])
                 THEN s.desired[u] ELSE Parse(m.theirs)[u]
<1> DEFINE ours   == IF m.kept = None THEN s.desired ELSE m.written
           merge  == Merge(Parse(m.base), ours, Parse(m.theirs))
           merged == ApplyPress(merge, ours, s.desired)
           into   == [s EXCEPT !.desired = merged, !.version = @ + 1, !.folded = TRUE]
<1>1. merged[u] = IF s.desired[u] # ours[u] THEN s.desired[u] ELSE merge[u]
  BY DEF ApplyPress
<1>2. merge[u] = IF Parse(m.theirs)[u] = Parse(m.base)[u] THEN ours[u] ELSE Parse(m.theirs)[u]
  BY DEF Merge
<1> HIDE DEF merge
<1>3. merged[u] = IF \/ m.kept # None /\ s.desired[u] # m.written[u]
                     \/ Is(m.theirs, u, Parse(m.base)[u])
                  THEN s.desired[u] ELSE Parse(m.theirs)[u]
  BY <1>1, <1>2 DEF Is
<1>4. Fold(s, m) = IF m.kept = None THEN [into EXCEPT !.revision = m.theirs]
                   ELSE [into EXCEPT !.kept = @ \cup {[path |-> m.kept, version |-> into.version]},
                                     !.carries = @ \cup {m.kept}]
  BY DEF Fold, merge
<1> HIDE DEF merged
<1>5. into.desired = merged   BY DEF DocumentState
<1> HIDE DEF into
<1>6. Fold(s, m).desired = into.desired   BY <1>4
<1> QED  BY <1>3, <1>5, <1>6

LEMMA MergeHeadIs ==
    ASSUME NEW P, NEW s \in DocumentState(P), s.merges # <<>>, Head(s.merges).theirs # Broken,
           NEW u \in Units
    PROVE  LET m == Head(s.merges)
           IN  MergeHead(s).desired[u]
                   = IF \/ m.kept # None /\ s.desired[u] # m.written[u]
                        \/ Is(m.theirs, u, Parse(m.base)[u])
                     THEN s.desired[u] ELSE Parse(m.theirs)[u]
<1> DEFINE m == Head(s.merges)
           rest == [s EXCEPT !.merges = Tail(@)]
<1>1. m \in Merges(P) /\ Tail(s.merges) \in Seq(Merges(P))   BY DEF DocumentState
<1>2. rest \in DocumentState(P) /\ rest.desired = s.desired   BY <1>1 DEF DocumentState
<1>3. MergeHead(s) = Fold(rest, m)   BY DEF MergeHead
<1> HIDE DEF m, rest
<1> QED  BY <1>1, <1>2, <1>3, FoldIs DEF m

(* What merging the first of what waits makes of the edit.                 *)
LEMMA MergeHeadStands ==
    ASSUME NEW P, NEW s \in DocumentState(P), NEW f, NEW news, Faithful(s, f, news),
           s.merges # <<>>, NEW u \in Units, NEW x \in Nat \ {0}, Stands(s, f, u, x)
    PROVE  Stands(MergeHead(s), f, u, x)
<1> DEFINE t == MergeHead(s)
           m == Head(s.merges)
<1>1. Heads(s, t, m)   BY MergeHeadEffect
<1>2. m.theirs # Broken =>
          t.desired[u] = IF \/ m.kept # None /\ s.desired[u] # m.written[u]
                            \/ Is(m.theirs, u, Parse(m.base)[u])
                         THEN s.desired[u] ELSE Parse(m.theirs)[u]
  BY MergeHeadIs
<1> HIDE DEF t, m
<1>3. m = s.merges[1] /\ 1 \in 1..Len(s.merges) /\ Asking(s, t)   BY <1>1 DEF Heads
<1>4. /\ m.theirs = Broken => t.desired = s.desired
      /\ t.revision = IF m.theirs # Broken /\ m.kept = None THEN m.theirs ELSE s.revision
  BY <1>1 DEF Heads
<1>5. ASSUME NEW i \in 1..Len(t.merges)
      PROVE  i + 1 \in 1..Len(s.merges) /\ t.merges[i] = s.merges[i + 1]
  BY <1>1 DEF Heads
<1>6. ASSUME NEW i \in 1..Len(s.merges), i # 1
      PROVE  i - 1 \in 1..Len(t.merges) /\ t.merges[i - 1] = s.merges[i]
  <2>1. i - 1 \in 1..Len(t.merges) /\ (i - 1) + 1 = i   BY <1>1, <1>6 DEF Heads
  <2> QED  BY <1>5, <2>1
<1>7. /\ t.write = s.write /\ t.read = s.read /\ t.latest = s.latest
      /\ (InOrder(t, u, x) <=> InOrder(s, u, x))
  BY <1>3 DEF Asking, InOrder
<1>8. ~Conditional(s, f) /\ ~Conditional(t, f)
  <2>1. s.held   BY DEF Faithful, Stored
  <2>2. ~Conditional(s, f)   BY <2>1 DEF Faithful, Clean
  <2> QED  BY <1>7, <2>2 DEF Conditional
<1>9. ~OnDisk(s.write) /\ s.write.step # "checked"   BY <1>8 DEF Conditional
<1>10. CASE Unheard(s, f, u, x)
  <2>1. Without(m, u, x)   BY <1>3, <1>10 DEF Unheard, Absent
  <2>2. t.desired[u] # x /\ ~Is(t.revision, u, x)
    BY <1>2, <1>4, <1>10, <2>1 DEF Unheard, Absent, Without, Is
  <2>3. \A i \in 1..Len(t.merges) : Without(t.merges[i], u, x)
    BY <1>5, <1>10 DEF Unheard, Absent
  <2>4. Absent(t, u, x)   BY <1>7, <1>10, <2>2, <2>3 DEF Unheard, Absent
  <2> QED  BY <1>7, <1>9, <1>10, <2>4 DEF Unheard, Stands, t
<1>11. CASE Heard(s, f, u, x)
  <2>1. ASSUME s.desired[u] = x, \A i \in 1..Len(s.merges) : Harmless(s.merges[i], u, x)
        PROVE  Will(t, u, x)
    <3>1. Harmless(m, u, x)   BY <1>3, <2>1
    <3>2. t.desired[u] = x   BY <1>2, <1>4, <2>1, <3>1 DEF Harmless, Is
    <3>3. \A i \in 1..Len(t.merges) : Harmless(t.merges[i], u, x)   BY <1>5, <2>1
    <3> QED  BY <3>2, <3>3 DEF Will
  <2>2. ASSUME NEW i \in 1..Len(s.merges),
               Brings(s.merges[i], u, x, s.desired[u]), s.merges[i].kept # None => i = 1,
               \A j \in 1..Len(s.merges) : i < j => Harmless(s.merges[j], u, x)
        PROVE  Will(t, u, x)
    <3>1. CASE i = 1
      <4>1. t.desired[u] = x   BY <1>2, <1>3, <2>2, <3>1 DEF Brings, Is
      <4>2. ASSUME NEW j \in 1..Len(t.merges) PROVE Harmless(t.merges[j], u, x)
        <5>1. j + 1 \in 1..Len(s.merges) /\ t.merges[j] = s.merges[j + 1] /\ i < j + 1
          BY <1>5, <3>1
        <5> QED  BY <2>2, <5>1
      <4> QED  BY <4>1, <4>2 DEF Will
    <3>2. CASE i # 1
      <4>1. i - 1 \in 1..Len(t.merges) /\ t.merges[i - 1] = s.merges[i]   BY <1>6, <3>2
      <4>2. s.merges[i].kept = None   BY <2>2, <3>2
      <4>3. Brings(t.merges[i - 1], u, x, t.desired[u])   BY <2>2, <4>1, <4>2 DEF Brings
      <4>4. ASSUME NEW j \in 1..Len(t.merges), i - 1 < j PROVE Harmless(t.merges[j], u, x)
        <5>1. j + 1 \in 1..Len(s.merges) /\ t.merges[j] = s.merges[j + 1] /\ i < j + 1
          BY <1>5, <4>4
        <5> QED  BY <2>2, <5>1
      <4> QED  BY <4>1, <4>2, <4>3, <4>4 DEF Will
    <3> QED  BY <3>1, <3>2
  <2>3. Will(t, u, x)   BY <1>11, <2>1, <2>2 DEF Heard, Will
  <2>4. ASSUME NEW c, Comes(s, c, u, x) PROVE Comes(t, c, u, x)
    <3>1. SUFFICES ASSUME Is(c, u, Parse(s.revision)[u]),
                          \A i \in Pending(s) : Is(s.merges[i].theirs, u, Parse(c)[u])
                   PROVE  Comes(t, c, u, x)
      BY <2>4 DEF Comes
    <3>2. Is(c, u, Parse(t.revision)[u])
      <4>1. CASE m.theirs # Broken /\ m.kept = None
        <5>1. 1 \in Pending(s)   BY <1>3, <4>1 DEF Pending, Foldable
        <5>2. Is(m.theirs, u, Parse(c)[u])   BY <1>3, <3>1, <5>1
        <5> QED  BY <1>4, <4>1, <5>2 DEF Is
      <4>2. CASE ~(m.theirs # Broken /\ m.kept = None)   BY <1>4, <3>1, <4>2
      <4> QED  BY <4>1, <4>2
    <3>3. ASSUME NEW i \in Pending(t) PROVE Is(t.merges[i].theirs, u, Parse(c)[u])
      <4>1. i \in 1..Len(t.merges) /\ Foldable(t.merges[i])   BY DEF Pending
      <4>2. i + 1 \in Pending(s) /\ t.merges[i] = s.merges[i + 1]   BY <1>5, <4>1 DEF Pending
      <4> QED  BY <3>1, <4>2
    <3> QED  BY <3>2, <3>3 DEF Comes
  <2>5. /\ Comes(t, f, u, x)
        /\ MovedTo(s.write) => Comes(t, s.write.theirs, u, x)
        /\ Found(s.read) => Comes(t, s.read.found, u, x)
    BY <1>11, <2>4 DEF Heard
  <2>6. Heard(t, f, u, x)   BY <1>7, <1>8, <1>9, <1>11, <2>3, <2>5 DEF Heard
  <2> QED  BY <2>6 DEF Stands, t
<1>12. ~Aside(s, f, u, x)   BY <1>9 DEF Aside, OnDisk
<1> QED  BY <1>10, <1>11, <1>12 DEF Stands, t

(* Only what does not parse waits on, once all has been merged.            *)
LEMMA MergedStands ==
    ASSUME NEW P, NEW s \in DocumentState(P), NEW f, Stored(s), s.merges = <<>>,
           NEW u \in Units, NEW x, Stands(s, f, u, x)
    PROVE  Stands(Merged(s), f, u, x)
<1> DEFINE t == Merged(s)
<1>1. /\ Asking(s, t) /\ t.desired = s.desired /\ t.revision = s.revision
      /\ t.merges = s.unmerged
  BY MergedEffect
<1> HIDE DEF t
<1>2. \A i \in 1..Len(t.merges) : t.merges[i].theirs = Broken   BY <1>1 DEF Stored
<1>3. Pending(t) = {} /\ Pending(s) = {}
  BY <1>2, NothingWaits DEF Pending, Foldable
<1>4. /\ t.write = s.write /\ t.read = s.read /\ t.latest = s.latest
      /\ (InOrder(t, u, x) <=> InOrder(s, u, x)) /\ (Conditional(t, f) <=> Conditional(s, f))
  BY <1>1 DEF Asking, InOrder, Conditional
<1>5. ASSUME Unheard(s, f, u, x) PROVE Unheard(t, f, u, x)
  <2>1. Absent(t, u, x)   BY <1>1, <1>2, <1>4, <1>5 DEF Unheard, Absent, Without
  <2> QED  BY <1>1, <1>4, <1>5, <2>1 DEF Unheard
<1>6. ASSUME Aside(s, f, u, x) PROVE Aside(t, f, u, x)   BY <1>1, <1>4, <1>6 DEF Aside
<1>7. ASSUME Heard(s, f, u, x) PROVE Heard(t, f, u, x)
  <2>1. s.desired[u] = x   BY <1>7, NothingWaits DEF Heard
  <2>2. Will(t, u, x)   BY <1>1, <1>2, <2>1 DEF Will, Harmless
  <2>3. ASSUME NEW c, Comes(s, c, u, x) PROVE Comes(t, c, u, x)
    BY <1>1, <1>3, <2>3 DEF Comes
  <2>4. /\ Comes(t, f, u, x)
        /\ MovedTo(s.write) => Comes(t, s.write.theirs, u, x)
        /\ Found(s.read) => Comes(t, s.read.found, u, x)
    BY <1>7, <2>3 DEF Heard
  <2> QED  BY <1>4, <1>7, <2>2, <2>4 DEF Heard
<1> QED  BY <1>5, <1>6, <1>7 DEF Stands, t

LEMMA SendUnsentStands ==
    ASSUME NEW P, NEW s \in DocumentState(P), NEW f, NEW u \in Units, NEW x, Stored(s),
           Stands(s, f, u, x)
    PROVE  Stands(SendUnsent(s), f, u, x)
BY SendOwedStands DEF SendUnsent

-----------------------------------------------------------------------------
(* What the worker's steps make of the edit.                               *)

(* A write refused, or raced, or that found the file moved.                *)
LEMMA RefusedStands ==
    ASSUME NEW s, NEW t, NEW f, NEW news, Faithful(s, f, news), Rewrites(s, t),
           s.write.step \in {"queued", "checked"}, WriteIsNext(s),
           t.write.step = "answered",
           \/ t.write.outcome \in {"raced", "refused"}
           \/ t.write.outcome = "moved" /\ t.write.theirs = f,
           s.latest \in {"read", "write"},
           NEW u, NEW x, Stands(s, f, u, x)
    PROVE  Stands(t, f, u, x)
<1>1. Same(s, t, u)   BY DEF Same, Rewrites, Merging
<1>2. /\ Will(t, u, x) <=> Will(s, u, x)
      /\ \A c : Comes(t, c, u, x) <=> Comes(s, c, u, x)
  BY <1>1, SameStands
<1>3. ~OnDisk(t.write) /\ ~Conditional(t, f) /\ t.read = s.read /\ t.latest = s.latest
      /\ t.write.document = s.write.document /\ t.write.base = s.write.base
  BY DEF OnDisk, Conditional, Rewrites
<1>4. Found(s.read) => s.latest = "write"   BY DEF Faithful, Served, Found
<1>5. ASSUME MovedTo(t.write) PROVE t.write.theirs = f   BY <1>5 DEF MovedTo
<1>6. CASE Unheard(s, f, u, x)
  <2>1. Absent(t, u, x)   BY <1>1, <1>3, <1>6 DEF Unheard, Absent, Same
  <2>2. InOrder(t, u, x)   BY <1>3, <1>4, <1>5, <1>6 DEF Unheard, InOrder
  <2> QED  BY <1>6, <2>1, <2>2 DEF Unheard, Stands
<1>7. CASE Heard(s, f, u, x)
  <2>1. InOrder(t, u, x)   BY <1>3, <1>4, <1>5, <1>7 DEF Heard, InOrder
  <2>2. Will(t, u, x) /\ Comes(t, f, u, x) /\ (Found(s.read) => Comes(t, s.read.found, u, x))
    BY <1>2, <1>7 DEF Heard
  <2>3. Heard(t, f, u, x)   BY <1>3, <1>5, <1>7, <2>1, <2>2 DEF Heard
  <2> QED  BY <2>3 DEF Stands
<1>8. ~Aside(s, f, u, x)   BY DEF Aside
<1> QED  BY <1>6, <1>7, <1>8 DEF Stands

(* A write whose precondition holds is not of a file that has an edit the  *)
(* store has not heard of.                                                 *)
LEMMA CheckStands ==
    ASSUME NEW s, NEW t, NEW f, Rewrites(s, t), s.write.step = "queued", s.write.base = f,
           t.write.step = "checked", NEW u, NEW x, Stands(s, f, u, x)
    PROVE  Stands(t, f, u, x)
<1>1. Same(s, t, u)   BY DEF Same, Rewrites, Merging
<1>2. /\ Will(t, u, x) <=> Will(s, u, x)
      /\ \A c : Comes(t, c, u, x) <=> Comes(s, c, u, x)
  BY <1>1, SameStands
<1>3. ~OnDisk(t.write) /\ ~MovedTo(t.write) /\ InOrder(t, u, x)
  BY DEF OnDisk, MovedTo, InOrder
<1>4. Conditional(s, f)   BY DEF Conditional
<1>5. ~Unheard(s, f, u, x) /\ ~Aside(s, f, u, x)   BY DEF Unheard, Absent, Aside
<1>6. Heard(s, f, u, x)   BY <1>5 DEF Stands
<1>7. Will(t, u, x) /\ Comes(t, f, u, x) /\ (Found(s.read) => Comes(t, s.read.found, u, x))
  BY <1>2, <1>6 DEF Heard
<1>8. Heard(t, f, u, x)   BY <1>3, <1>4, <1>6, <1>7 DEF Heard, Rewrites
<1> QED  BY <1>8 DEF Stands

(* A write placed has the edit, or has displaced it.                       *)
LEMMA PlacedStands ==
    ASSUME NEW P, NEW s \in DocumentState(P), NEW t, NEW f, NEW news, Faithful(s, f, news),
           Rewrites(s, t), s.write.step = "checked", t.write.step = "answered",
           NEW u, NEW x, Stands(s, f, u, x),
           \/ t.write.outcome = "landed" /\ Is(f, u, Parse(s.write.base)[u])
           \/ t.write.outcome = "displaced" /\ t.write.theirs = f
    PROVE  Stands(t, s.write.document, u, x)
<1> DEFINE d == s.write.document
<1>1. Same(s, t, u)   BY DEF Same, Rewrites, Merging
<1>2. /\ Will(t, u, x) <=> Will(s, u, x)
      /\ \A c : Comes(t, c, u, x) <=> Comes(s, c, u, x)
  BY <1>1, SameStands
<1>3. d \in Document /\ Parse(d) = d   BY DocumentsParse DEF DocumentState, Writes
<1>4. s.revision = s.write.base   BY DEF Faithful, Clean, Conditional
<1>5. /\ ~MovedTo(t.write) /\ InOrder(t, u, x) /\ OnDisk(t.write)
      /\ t.read = s.read /\ t.latest = s.latest /\ t.desired = s.desired
      /\ t.write.document = d /\ t.write.base = s.write.base
  BY DEF OnDisk, MovedTo, InOrder, Rewrites
<1>6. Found(s.read) => s.latest # "read"   BY DEF Faithful, Served, Found
<1> HIDE DEF d
<1>7. CASE Unheard(s, f, u, x)
  <2>1. t.write.outcome = "displaced" /\ t.write.theirs = f   BY <1>7 DEF Unheard, Absent, Is
  <2>2. Is(d, u, t.desired[u])   BY <1>3, <1>5, <1>7 DEF Unheard, Is, d
  <2>3. t.desired[u] = t.write.document[u]   BY <1>5, <1>7 DEF Unheard, d
  <2>4. Aside(t, d, u, x)   BY <1>5, <1>6, <1>7, <2>1, <2>2, <2>3 DEF Unheard, Absent, Aside
  <2> QED  BY <2>4 DEF Stands, d
<1>8. CASE Heard(s, f, u, x)
  <2>1. Is(d, u, x)   BY <1>3, <1>8 DEF Heard, Conditional, Is, d
  <2>2. Will(t, u, x) /\ Comes(t, d, u, x) /\ (Found(s.read) => Comes(t, s.read.found, u, x))
    BY <1>2, <1>8, <2>1 DEF Heard, Comes
  <2>3. t.write.outcome = "displaced" =>
            Is(t.write.theirs, u, Parse(t.write.base)[u]) \/ Is(t.write.theirs, u, x)
    BY <1>4, <1>5, <1>8 DEF Heard, Comes
  <2>4. t.write.document[u] = x   BY <1>3, <1>5, <2>1 DEF Is
  <2>5. Heard(t, d, u, x)   BY <1>5, <1>6, <2>1, <2>2, <2>3, <2>4 DEF Heard
  <2> QED  BY <2>5 DEF Stands, d
<1>9. ~Aside(s, f, u, x)   BY DEF Aside
<1> QED  BY <1>7, <1>8, <1>9 DEF Stands

(* A read that found the file says what it holds.                          *)
LEMMA FindFileStands ==
    ASSUME NEW P, NEW s \in DocumentState(P), NEW t, NEW f, NEW news, Faithful(s, f, news),
           s.read.step = "queued", s.latest = "read" => s.write.step \notin {"queued", "checked"},
           Rereads(s, t), t.read = [step |-> "answered", outcome |-> "found", found |-> f],
           NEW u, NEW x, Stands(s, f, u, x)
    PROVE  Stands(t, f, u, x)
<1>1. Same(s, t, u)   BY DEF Same, Rereads, Merging
<1>2. /\ Will(t, u, x) <=> Will(s, u, x)
      /\ \A c : Comes(t, c, u, x) <=> Comes(s, c, u, x)
  BY <1>1, SameStands
<1>3. s.latest = "write" => s.write.step = "queued" \/ s.write.step = "none"
  BY AnswersAreOrdered
<1>4. /\ t.read.found = f /\ t.write = s.write /\ t.latest = s.latest /\ t.desired = s.desired
      /\ (Conditional(t, f) <=> Conditional(s, f))
  BY DEF Rereads, Conditional
<1>5. s.latest = "write" => ~MovedTo(s.write)   BY <1>3 DEF MovedTo
<1>6. CASE Unheard(s, f, u, x)
  <2>1. Absent(t, u, x)   BY <1>1, <1>4, <1>6 DEF Unheard, Absent, Same
  <2>2. InOrder(t, u, x)   BY <1>4, <1>5, <1>6 DEF Unheard, InOrder
  <2> QED  BY <1>4, <1>6, <2>1, <2>2 DEF Unheard, Stands
<1>7. CASE Aside(s, f, u, x)
  <2>1. Aside(t, f, u, x)   BY <1>4, <1>7 DEF Aside
  <2> QED  BY <2>1 DEF Stands
<1>8. CASE Heard(s, f, u, x)
  <2>1. InOrder(t, u, x)   BY <1>4, <1>5, <1>8 DEF Heard, InOrder
  <2>2. Will(t, u, x) /\ Comes(t, f, u, x) /\ (MovedTo(s.write) => Comes(t, s.write.theirs, u, x))
    BY <1>2, <1>8 DEF Heard
  <2>3. Heard(t, f, u, x)   BY <1>4, <1>8, <2>1, <2>2 DEF Heard
  <2> QED  BY <2>3 DEF Stands
<1> QED  BY <1>6, <1>7, <1>8 DEF Stands

(* The editor saves what Folio does not hold: the edits of the units it    *)
(* leaves stand.                                                           *)
LEMMA SavedStands ==
    ASSUME NEW s, NEW f, NEW c, Unheld(s, c), NEW u, NEW x, Stands(s, f, u, x),
           Parse(c)[u] = Parse(f)[u]
    PROVE  Stands(s, c, u, x)
<1>1. Conditional(s, c) => Conditional(s, f)   BY DEF Conditional, Unheld, Writing
<1>2. \A v : Is(c, u, v) <=> Is(f, u, v)   BY DEF Is
<1>3. Unheard(s, f, u, x) => Unheard(s, c, u, x)   BY <1>2 DEF Unheard
<1>4. Aside(s, f, u, x) => Aside(s, c, u, x)   BY <1>2 DEF Aside
<1>5. ASSUME Heard(s, f, u, x) PROVE Heard(s, c, u, x)
  <2>1. Comes(s, c, u, x)   BY <1>5 DEF Heard, Comes, Is
  <2> QED  BY <1>1, <1>2, <1>5, <2>1 DEF Heard
<1> QED  BY <1>3, <1>4, <1>5 DEF Stands

(* An edit that has just been made is a value no unit has had.             *)
LEMMA MadeStands ==
    ASSUME NEW P, NEW s \in DocumentState(P), NEW f, NEW n \in Nat, Young(s, f, n),
           NEW u \in Units, NEW c, Is(c, u, n + 1),
           Writing(s) => s.desired[u] = s.write.document[u]
    PROVE  Stands(s, c, u, n + 1)
<1> DEFINE V == 0..n
<1>1. Within(s, u, Broken, V) /\ n + 1 \notin V   BY DEF Young
<1>2. Parse(Broken)[u] \in V   BY <1>1, NoFileIsDefault DEF Within
<1> HIDE DEF V
<1>3. Absent(s, u, n + 1)
  <2>1. \A i \in 1..Len(s.merges) : Without(s.merges[i], u, n + 1)
    BY <1>1 DEF Within, Without, Is
  <2> QED  BY <1>1, <1>2, <2>1 DEF Within, Absent, Is
<1>4. ~Is(s.read.found, u, n + 1)   BY <1>1, <1>2 DEF Within, Is
<1>5. ASSUME s.write.outcome = "moved" PROVE ~Is(s.write.theirs, u, n + 1)
  BY <1>1, <1>2, <1>5 DEF Within, Is
<1>6. InOrder(s, u, n + 1)   BY <1>4, <1>5 DEF InOrder, MovedTo
<1> QED  BY <1>3, <1>6 DEF Unheard, Stands, Writing

-----------------------------------------------------------------------------
(* The inductive invariant of the edits that stand.                        *)

Edits ==
    \A u \in Units : claim[u] # 0 => file \in Document /\ Stands(store, file, u, claim[u])

EInv == FInv /\ (dropped \/ Edits)

LEMMA ClaimsAreValues ==
    ASSUME TypeOK, NEW u \in Units, claim[u] # 0
    PROVE  claim[u] \in Nat \ {0}
BY DEF TypeOK

LEMMA EditorEdits ==
    ASSUME IInv, Follows, Edits, ~Returns, Editor
    PROVE  Edits'
<1>1. PICK c \in Saves : Save(c) \/ FindRaced(c) \/ RaceRead(c)   BY DEF Editor
<1>2. TypeOK /\ store \in DocumentState(Paths) /\ file \in Contents   BY DEF IInv, TypeOK
<1> DEFINE n == presses + saves
<1>3. /\ Faithful(store, file, stamped) /\ Young(store, file, n) /\ n \in Nat /\ Fresh = n + 1
  BY <1>2, Numbers DEF Follows
<1>4. c \in Contents /\ c \in Changes /\ c \notin Known   BY <1>2, SavesAreContents DEF Saves
<1>5. Unheld(store, c)   BY <1>4 DEF Unheld, Known
<1>6. New(file, c, n)   BY <1>3, <1>4 DEF New, Changes
<1>7. file' = c /\ claim' = Claims(c)   BY <1>1 DEF Save, FindRaced, RaceRead, Saved
<1> HIDE DEF n
<1>8. Faithful(store, c, TRUE)   BY <1>2, <1>3, <1>4, <1>5, <1>6, SavedFaithful
<1>9. ASSUME NEW u \in Units, claim'[u] # 0
      PROVE  /\ c \in Document /\ claim'[u] \in Nat \ {0}
             /\ Stands(store, c, u, claim'[u])
  <2>1. claim'[u] = CASE c \in {Broken, NoFile}                               -> 0
                      [] c \notin {Broken, NoFile} /\ c[u] = Parse(file)[u]   -> claim[u]
                      [] c \notin {Broken, NoFile} /\ c[u] # Parse(file)[u]   ->
                            IF c[u] = Fresh
                               /\ (Writing(store) => store.desired[u] = store.write.document[u])
                            THEN Fresh ELSE 0
    BY <1>7 DEF Claims
  <2>2. c \notin {Broken, NoFile}   BY <1>9, <2>1
  <2>3. c \in Document /\ Parse(c) = c   BY <1>4, <2>2 DEF Contents, Parse
  <2>4. CASE c[u] = Parse(file)[u]
    <3>1. claim'[u] = claim[u]   BY <2>1, <2>2, <2>4
    <3>2. Stands(store, file, u, claim[u])   BY <1>9, <3>1 DEF Edits
    <3>3. Stands(store, c, u, claim[u])   BY <1>5, <2>3, <2>4, <3>2, SavedStands
    <3> QED  BY <1>2, <1>9, <2>3, <3>1, <3>3, ClaimsAreValues
  <2>5. CASE c[u] # Parse(file)[u]
    <3>1. /\ c[u] = Fresh /\ claim'[u] = Fresh
          /\ Writing(store) => store.desired[u] = store.write.document[u]
      BY <1>9, <2>1, <2>2, <2>5
    <3>2. Is(c, u, n + 1)   BY <1>3, <2>3, <3>1 DEF Is
    <3>3. Stands(store, c, u, n + 1)   BY <1>2, <1>3, <3>1, <3>2, MadeStands
    <3> QED  BY <1>3, <2>3, <3>1, <3>3
  <2> QED  BY <2>4, <2>5
<1>10. SUFFICES ASSUME NEW u \in Units, claim'[u] # 0
                PROVE  Stands(store', c, u, claim'[u])
  BY <1>7, <1>9 DEF Edits
<1>11. Stands(store, c, u, claim'[u])   BY <1>9, <1>10
<1>12. CASE Save(c)   BY <1>11, <1>12 DEF Save
<1>13. CASE FindRaced(c)
  <2>1. store' = Answered("raced", NoFile, None, {})   BY <1>13 DEF FindRaced
  <2>2. Rewrites(store, store') /\ store'.write.step = "answered"
        /\ store'.write.outcome = "raced"
    BY <1>2, <2>1, AnsweredIs
  <2>3. store.write.step \in {"queued", "checked"} /\ WriteIsNext(store)
    BY <1>13 DEF FindRaced, WriteIs, WriteIsNext
  <2>4. store.latest \in {"read", "write"}   BY <1>2 DEF DocumentState
  <2> QED  BY <1>8, <1>11, <2>2, <2>3, <2>4, RefusedStands
<1>14. CASE RaceRead(c)
  <2>1. store' = [store EXCEPT !.read = [step |-> "answered", outcome |-> "raced",
                                         found |-> NoFile]]
    BY <1>14 DEF RaceRead
  <2>2. Rereads(store, store') /\ ~Found(store'.read)
    BY <1>2, <2>1 DEF DocumentState, Rereads, Merging, Found
  <2> QED  BY <1>11, <2>2, UnreadStands DEF Rereads
<1> QED  BY <1>1, <1>12, <1>13, <1>14

(* A step that leaves the file, and what the person has edited.            *)
LEMMA StoreEdits ==
    ASSUME TypeOK, Edits, file' = file, claim' = claim,
           \A u \in Units : \A x \in Nat \ {0} :
               Stands(store, file, u, x) => Stands(store', file, u, x)
    PROVE  Edits'
<1> SUFFICES ASSUME NEW u \in Units, claim[u] # 0
             PROVE  file \in Document /\ Stands(store', file, u, claim[u])
  BY DEF Edits
<1>1. file \in Document /\ Stands(store, file, u, claim[u])   BY DEF Edits
<1> QED  BY <1>1, ClaimsAreValues

LEMMA WorkerEdits ==
    ASSUME IInv, Follows, Edits, Check \/ FindMoved \/ Refuse \/ FindFile \/ FailRead
    PROVE  Edits'
<1>1. TypeOK /\ store \in DocumentState(Paths) /\ store.latest \in {"read", "write"}
  BY DEF IInv, TypeOK, DocumentState
<1>2. Faithful(store, file, stamped)   BY DEF Follows
<1>3. file' = file /\ claim' = claim
  BY DEF Check, FindMoved, Refuse, FindFile, FailRead, disk, history
<1>4. SUFFICES ASSUME NEW u \in Units, NEW x, Stands(store, file, u, x)
               PROVE  Stands(store', file, u, x)
  BY <1>1, <1>3, StoreEdits
<1>5. CASE Check
  <2> DEFINE w == [store.write EXCEPT !.step = "checked"]
  <2>1. w.step = "checked" /\ w.document = store.write.document /\ w.base = store.write.base
    BY <1>1 DEF DocumentState, Writes
  <2>2. store' = [store EXCEPT !.write = w]   BY <1>1, <1>5 DEF Check, DocumentState, Writes
  <2> HIDE DEF w
  <2>3. Rewrites(store, store') /\ store'.write = w
    BY <1>1, <2>1, <2>2 DEF DocumentState, Rewrites, Merging
  <2>4. store.write.step = "queued" /\ store.write.base = file   BY <1>5 DEF Check, WriteIs
  <2> QED  BY <1>4, <2>1, <2>3, <2>4, CheckStands
<1>6. CASE FindMoved \/ Refuse
  <2>1. PICK outcome \in {"moved", "refused"}, theirs \in {file, NoFile} :
            /\ outcome = "moved" => theirs = file
            /\ store' = Answered(outcome, theirs, None, {})
    BY <1>6 DEF FindMoved, Refuse
  <2>2. Rewrites(store, store') /\ store'.write.step = "answered"
        /\ store'.write.outcome = outcome /\ store'.write.theirs = theirs
    BY <1>1, <2>1, AnsweredIs
  <2>3. store.write.step \in {"queued", "checked"} /\ WriteIsNext(store)
    BY <1>6 DEF FindMoved, Refuse, WriteIs, WriteIsNext
  <2> QED  BY <1>1, <1>2, <1>4, <2>1, <2>2, <2>3, RefusedStands
<1>7. CASE FindFile
  <2> DEFINE r == [step |-> "answered", outcome |-> "found", found |-> file]
  <2>1. store' = [store EXCEPT !.read = r]   BY <1>7 DEF FindFile
  <2> HIDE DEF r
  <2>2. Rereads(store, store') /\ store'.read = r
    BY <1>1, <2>1 DEF DocumentState, Rereads, Merging
  <2>3. /\ store.read.step = "queued"
        /\ store.latest = "read" => store.write.step \notin {"queued", "checked"}
    BY <1>7 DEF FindFile, ReadIsNext
  <2> QED  BY <1>1, <1>2, <1>4, <2>2, <2>3, FindFileStands DEF r
<1>8. CASE FailRead
  <2>1. PICK outcome \in {"unobtained", "failed"} :
            store' = [store EXCEPT !.read = [step |-> "answered", outcome |-> outcome,
                                             found |-> NoFile]]
    BY <1>8 DEF FailRead
  <2>2. Rereads(store, store') /\ ~Found(store'.read)
    BY <1>1, <2>1 DEF DocumentState, Rereads, Merging, Found
  <2> QED  BY <1>4, <2>2, UnreadStands DEF Rereads
<1> QED  BY <1>5, <1>6, <1>7, <1>8

LEMMA PlacesEdit ==
    ASSUME IInv, Follows, Edits, Place \/ PlaceUndurably \/ Displace \/ DisplaceUnread
    PROVE  Edits'
<1>1. TypeOK /\ store \in DocumentState(Paths)   BY DEF IInv, TypeOK
<1>2. Faithful(store, file, stamped)   BY DEF Follows
<1>3. file' = store.write.document /\ store.write.step = "checked"
  BY DEF Place, PlaceUndurably, Displace, DisplaceUnread, Placed, Written, WriteIs
<1> DEFINE gone == RetiredBy(store.write.kept, store.write.version)
<1>4. \E outcome \in {"landed", "displaced"}, theirs \in {NoFile, file},
         left \in {None, made + 1}, retired \in {{}, gone} :
          /\ \/ outcome = "landed" /\ \A u \in Units : claim'[u] # 0 => Undisplaced(u)
             \/ outcome = "displaced" /\ theirs = file
          /\ \A u \in Units : claim'[u] # 0 => claim'[u] = claim[u]
          /\ store' = Answered(outcome, theirs, left, retired)
  BY DEF Place, PlaceUndurably, Displace, DisplaceUnread, Placed, Undisplaced
<1>5. PICK outcome \in {"landed", "displaced"}, theirs \in {NoFile, file},
           left \in {None, made + 1}, retired \in {{}, gone} :
          /\ \/ outcome = "landed" /\ \A u \in Units : claim'[u] # 0 => Undisplaced(u)
             \/ outcome = "displaced" /\ theirs = file
          /\ \A u \in Units : claim'[u] # 0 => claim'[u] = claim[u]
          /\ store' = Answered(outcome, theirs, left, retired)
  BY <1>4
<1> HIDE DEF gone
<1>6. /\ Rewrites(store, store') /\ store'.write.step = "answered"
      /\ store'.write.outcome = outcome /\ store'.write.theirs = theirs
  BY <1>1, <1>5, AnsweredIs
<1>7. file' \in Document   BY <1>1, <1>3 DEF DocumentState, Writes
<1>8. ASSUME NEW u \in Units, claim'[u] # 0 PROVE Stands(store', file', u, claim'[u])
  <2>1. claim'[u] = claim[u] /\ Stands(store, file, u, claim[u])   BY <1>5, <1>8 DEF Edits
  <2>2. \/ outcome = "landed" /\ Is(file, u, Parse(store.write.base)[u])
        \/ outcome = "displaced" /\ theirs = file
    BY <1>5, <1>8 DEF Undisplaced, Is
  <2> QED  BY <1>1, <1>2, <1>3, <1>6, <2>1, <2>2, PlacedStands
<1> QED  BY <1>3, <1>7, <1>8 DEF Edits

LEMMA DrainEdits ==
    ASSUME IInv, Follows, Edits, EarPass \/ BeginDrain \/ Hear \/ AnswersHeard \/ MergeOne
    PROVE  Edits'
<1>1. TypeOK /\ store \in DocumentState(Paths) /\ Given(store)   BY DEF IInv, TypeOK
<1>2. Faithful(store, file, stamped) /\ Stored(store)   BY DEF Follows, Faithful
<1>3. file' = file /\ claim' = claim
  BY DEF EarPass, BeginDrain, Hear, AnswersHeard, MergeOne, disk, history
<1>4. SUFFICES ASSUME NEW u \in Units, NEW x \in Nat \ {0}, Stands(store, file, u, x)
               PROVE  Stands(store', file, u, x)
  BY <1>1, <1>3, StoreEdits
<1>5. CASE EarPass   BY <1>1, <1>4, <1>5, AskReadStands DEF EarPass
<1>6. CASE BeginDrain   BY <1>4, <1>6 DEF BeginDrain
<1>7. CASE Hear
  <2>1. CASE WriteToHear /\ store' = OnDocument(store)
    BY <1>1, <1>2, <1>4, <2>1, OnDocumentStands DEF Given, WriteToHear
  <2>2. CASE ReadToHear /\ store' = OnRead(store)
    BY <1>1, <1>2, <1>4, <2>2, OnReadStands DEF ReadToHear
  <2> QED  BY <1>7, <2>1, <2>2 DEF Hear
<1>8. CASE AnswersHeard   BY <1>1, <1>2, <1>4, <1>8, AfterAnswersStands DEF AnswersHeard
<1>9. CASE MergeOne   BY <1>1, <1>2, <1>4, <1>9, MergeHeadStands DEF MergeOne
<1> QED  BY <1>5, <1>6, <1>7, <1>8, <1>9

LEMMA EndMergeEdits ==
    ASSUME IInv, Follows, Edits, EndMerge \/ QuitTurn
    PROVE  Edits'
<1>1. TypeOK /\ store \in DocumentState(Paths)   BY DEF IInv, TypeOK
<1>2. Faithful(store, file, stamped)   BY DEF Follows
<1>3. file' = file /\ claim' = claim /\ store.merges = <<>>
  BY DEF EndMerge, QuitTurn, disk, history
<1>4. \E b \in BOOLEAN : LET t == Merged([store EXCEPT !.atQuit = b])
                         IN  store' \in {t, SendOwed(t)}
  <2>1. (store.atQuit \/ store.folded) \in BOOLEAN   OBVIOUS
  <2>2. CASE EndMerge   BY <2>2 DEF EndMerge
  <2>3. CASE QuitTurn
    <3> DEFINE t == Merged([store EXCEPT !.atQuit = store.atQuit \/ store.folded])
    <3>1. store' = SendUnsent(t)   BY <1>1, <2>3 DEF QuitTurn, DocumentState
    <3> HIDE DEF t
    <3>2. store' \in {t, SendOwed(t)}   BY <3>1 DEF SendUnsent
    <3> QED  BY <2>1, <3>2 DEF t
  <2> QED  BY <2>2, <2>3
<1>5. PICK b \in BOOLEAN : LET t == Merged([store EXCEPT !.atQuit = b])
                           IN  store' \in {t, SendOwed(t)}
  BY <1>4
<1> DEFINE s == [store EXCEPT !.atQuit = b]
           t == Merged(s)
<1>6. /\ s \in DocumentState(Paths) /\ Merging(store, s) /\ Asking(store, s)
      /\ s.desired = store.desired
  BY <1>1, FlagsTyped, FlagsAlike
<1>7. store' \in {t, SendOwed(t)}   BY <1>5
<1> HIDE DEF s
<1>8. Faithful(s, file, stamped) /\ s.merges = <<>>   BY <1>2, <1>3, <1>6, FaithfulAlike DEF Merging
<1>9. t \in DocumentState(Paths) /\ Stored(t) /\ Stored(s)
  <2>1. Faithful(t, file, stamped)   BY <1>6, <1>8, MergedFaithful
  <2> QED  BY <1>6, <1>8, <2>1, MergedTyped DEF Faithful
<1> HIDE DEF t
<1>10. ASSUME NEW u \in Units, NEW x \in Nat \ {0}, Stands(store, file, u, x)
       PROVE  Stands(store', file, u, x)
  <2>1. Stands(s, file, u, x)   BY <1>6, <1>10, AlikeStands
  <2>2. Stands(t, file, u, x)   BY <1>6, <1>8, <1>9, <2>1, MergedStands DEF t
  <2> QED  BY <1>7, <1>9, <2>2, SendOwedStands
<1> QED  BY <1>1, <1>3, <1>10, StoreEdits

LEMMA PersonEdits ==
    ASSUME IInv, Follows, Edits, Person
    PROVE  Edits'
<1>1. TypeOK /\ store \in DocumentState(Paths)   BY DEF IInv, TypeOK
<1>2. Faithful(store, file, stamped) /\ Stored(store)   BY DEF Follows, Faithful
<1>3. file' = file   BY DEF Person, Press, PressAgain, QuitBegin, LeaveWithout, disk
<1>4. ASSUME NEW v \in Units, Press(v) PROVE Edits'
  <2>1. PICK y \in {Fresh, Parse(store.revision)[v]} :
           store' = SendOwed([store EXCEPT !.desired[v] = y, !.version = @ + 1])
    BY <1>4 DEF Press
  <2> DEFINE t == [store EXCEPT !.desired[v] = y, !.version = @ + 1]
  <2>2. y \in Nat
    BY <1>1, Numbers, ContentsHaveDocuments DEF DocumentState, Document
  <2>3. t \in DocumentState(Paths)   BY <1>1, <2>2, PressTyped
  <2>4. Merging(store, t) /\ Asking(store, t) /\ t.desired = [store.desired EXCEPT ![v] = y]
    BY <1>1 DEF DocumentState, Merging, Asking
  <2>5. store' = SendOwed(t)   BY <2>1
  <2> HIDE DEF t
  <2>6. claim' = [claim EXCEPT ![v] = 0]   BY <1>4 DEF Press
  <2>7. SUFFICES ASSUME NEW u \in Units, claim'[u] # 0
                 PROVE  file \in Document /\ Stands(store', file, u, claim'[u])
    BY <1>3 DEF Edits
  <2>8. u # v /\ claim'[u] = claim[u]   BY <1>1, <2>6, <2>7 DEF TypeOK
  <2>9. file \in Document /\ Stands(store, file, u, claim[u])   BY <2>7, <2>8 DEF Edits
  <2>10. t.desired[u] = store.desired[u]   BY <1>1, <2>4, <2>8 DEF DocumentState, Document
  <2>11. Stands(t, file, u, claim[u])   BY <2>4, <2>9, <2>10, AlikeStands
  <2>12. Stored(t)   BY <1>2, <2>4, MergingAlike
  <2> QED  BY <2>3, <2>5, <2>8, <2>9, <2>11, <2>12, SendOwedStands
<1>5. CASE PressAgain
  <2>1. store' = SendOwed(store) /\ claim' = claim   BY <1>5 DEF PressAgain
  <2> QED  BY <1>1, <1>2, <1>3, <2>1, SendOwedStands, StoreEdits
<1>6. CASE QuitBegin
  <2> DEFINE s == [store EXCEPT !.refused = FALSE]
  <2>1. /\ s \in DocumentState(Paths) /\ Merging(store, s) /\ Asking(store, s)
        /\ s.desired = store.desired
    BY <1>1, FlagsTyped, FlagsAlike
  <2>2. store' = SendUnsent(s) /\ claim' = claim   BY <1>6 DEF QuitBegin, history
  <2> HIDE DEF s
  <2>3. Stored(s)   BY <1>2, <2>1, MergingAlike
  <2>4. ASSUME NEW u \in Units, NEW x \in Nat \ {0}, Stands(store, file, u, x)
        PROVE  Stands(store', file, u, x)
    <3>1. Stands(s, file, u, x)   BY <2>1, <2>4, AlikeStands
    <3> QED  BY <2>1, <2>2, <2>3, <3>1, SendUnsentStands
  <2> QED  BY <1>1, <1>3, <2>2, <2>4, StoreEdits
<1>7. CASE LeaveWithout   BY <1>7 DEF LeaveWithout, Edits
<1> QED  BY <1>4, <1>5, <1>6, <1>7 DEF Person

LEMMA QuitEdits ==
    ASSUME Edits, QuitGoesOn \/ QuitFails
    PROVE  Edits'
BY DEF QuitGoesOn, QuitFails, CopyKept, Leave, QuitOutOfTime, CopyRefused, SessionRefused,
       Fault, disk, history, Edits

LEMMA StepEdits == EInv /\ ~Returns /\ [Next]_vars => EInv'
<1> SUFFICES ASSUME EInv, ~Returns, [Next]_vars
             PROVE  EInv'
  OBVIOUS
<1>1. FInv /\ FInv' /\ IInv   BY StepFollows DEF EInv, FInv
<1>2. CASE UNCHANGED vars
  BY <1>1, <1>2 DEF vars, disk, history, EInv, Edits
<1>3. CASE Next
  <2>1. dropped => dropped'   BY <1>3, LeavingIsKept
  <2>2. SUFFICES ASSUME ~dropped' PROVE Edits'
    BY <1>1 DEF EInv
  <2>3. Follows /\ Edits   BY <1>1, <2>1, <2>2 DEF EInv, FInv
  <2> QED  BY <1>1, <1>3, <2>3, EditorEdits, WorkerEdits, PlacesEdit, DrainEdits, EndMergeEdits,
              PersonEdits, QuitEdits
           DEF Next, WorkerGoesOn, WorkerFails, WindowGoesOn
<1> QED  BY <1>2, <1>3

LEMMA OpenedEdits == Init => EInv
<1> SUFFICES ASSUME Init PROVE Edits
  BY OpenedFollows DEF EInv
<1>1. \A u \in Units : claim[u] = 0   BY DEF Init
<1> QED  BY <1>1 DEF Edits

(* Once all is heard, nothing is on its way and the revision is the file:  *)
(* an edit is not in the file alone.                                       *)
LEMMA EditsStand == EInv => HandEditsStand
<1> SUFFICES ASSUME EInv, Quiet, NEW u \in Units, claim[u] # 0
             PROVE  store.desired[u] = claim[u]
  BY DEF HandEditsStand
<1>1. FInv /\ TypeOK /\ ~dropped   BY DEF EInv, FInv, IInv, Quiet
<1>2. file \in Document /\ Stands(store, file, u, claim[u])   BY <1>1 DEF EInv, Edits
<1>3. store.revision = file
  BY <1>1, <1>2, DocumentsParse, FollowsReaches DEF RevisionIsTheFile
<1>4. ~Unheard(store, file, u, claim[u])   BY <1>3 DEF Unheard, Absent
<1>5. ~Aside(store, file, u, claim[u])   BY DEF Aside, Quiet, Writing
<1>6. Heard(store, file, u, claim[u])   BY <1>2, <1>4, <1>5 DEF Stands
<1> QED  BY <1>6, NothingWaits DEF Heard, Quiet

(* An edit the person made of a unit is never undone by what Folio had     *)
(* sent before it: once all is heard, it is what Folio wants on disk, and  *)
(* only a later press changes it (unit, merge_stored): for every set of    *)
(* units, every number of presses and saves and every fault, if the editor *)
(* saves nothing again that Folio still holds.                             *)
THEOREM HandEditsAreKept == ~Returns => (Spec => []HandEditsStand)
<1> SUFFICES ASSUME ~Returns PROVE Spec => []HandEditsStand
  OBVIOUS
<1>1. EInv /\ [Next]_vars => EInv'   BY StepEdits
<1> QED  BY OpenedEdits, <1>1, EditsStand, PTL DEF Spec
=============================================================================
