----------------------------- MODULE BookProofs -----------------------------
(***************************************************************************)
(* What OrderBook's operations preserve, for every venue and every future. *)
(***************************************************************************)
EXTENDS DepthSync, LoopLemmas

(* A diff that a book accepts starts at or before the book's id and ends   *)
(* at or after it (book.py, apply_delta: the bracket rule, or pu).         *)
LEMMA AcceptedDiffSpans ==
  ASSUME NEW b \in Book, NEW d \in Msg, IsDiff(d), Verdict(b, d) = "applied"
  PROVE  b.last \in UpdateId /\ d.pu <= b.last /\ b.last <= d.u
<1>1. b.last # NoId /\ (d.pu = b.last \/ Brackets(d, b.last))
  BY DEF Verdict
<1>2. QED
  BY <1>1, VenueAssumption DEF Brackets, IsDiff, Book, Msg, UpdateId, NoId

(* A snapshot gives the venue's book at its id (apply_snapshot).           *)
THEOREM SnapshotIsFaithful ==
  ASSUME NEW L \in UpdateId
  PROVE  /\ ApplySnapshot(L) \in Book
         /\ Faithful(ApplySnapshot(L))
<1> DEFINE lv == [p \in Level |-> IF p \in Visible[L] THEN History[L][p] ELSE 0]
<1>1. lv \in [Level -> Nat] /\ Visible[L] \in SUBSET Level
  BY VenueAssumption DEF UpdateId
<1>2. ApplySnapshot(L) \in Book
  BY <1>1 DEF ApplySnapshot, Book
<1>3. Faithful(ApplySnapshot(L))
  BY DEF ApplySnapshot, Faithful
<1>4. QED
  BY <1>2, <1>3

(* Whatever diff a faithful book accepts leaves it faithful: no level that *)
(* the diff does not carry changed since the book's id (apply_delta).      *)
THEOREM AcceptedDiffKeepsFaithful ==
  ASSUME NEW b \in Book, NEW d \in Msg, IsDiff(d),
         Verdict(b, d) = "applied", Faithful(b)
  PROVE  /\ ApplyDelta(b, d) \in Book
         /\ Faithful(ApplyDelta(b, d))
<1> DEFINE lv == [p \in Level |-> IF p \in Touched(d) THEN History[d.u][p] ELSE b.levels[p]]
<1>1. ApplyDelta(b, d) = SetLevels(b, d)
  BY DEF ApplyDelta
<1>2. b.last \in d.pu .. d.u /\ d.u \in UpdateId
  BY AcceptedDiffSpans, VenueAssumption DEF Msg, UpdateId
<1>3. lv \in [Level -> Nat] /\ Touched(d) \in SUBSET Level
  BY <1>2, VenueAssumption DEF UpdateId, Book, Touched
<1>4. SetLevels(b, d) = [last |-> d.u, levels |-> lv, known |-> b.known \cup Touched(d),
                         seqReady |-> TRUE, isSynced |-> b.isSynced]
  BY DEF SetLevels
<1>5. SetLevels(b, d) \in Book
  BY <1>2, <1>3, <1>4 DEF Book
<1>6. ASSUME NEW p \in Level
      PROVE  lv[p] = IF p \in b.known \cup Touched(d) THEN History[d.u][p] ELSE 0
  <2>1. CASE p \in Touched(d)
    BY <2>1
  <2>2. CASE p \notin Touched(d)
    <3>1. History[b.last][p] = History[d.u][p]
      BY <1>2, <2>2 DEF Touched
    <3>2. b.levels[p] = IF p \in b.known THEN History[b.last][p] ELSE 0
      BY <1>2, VenueAssumption DEF Faithful, UpdateId, NoId, Msg
    <3>3. QED
      BY <2>2, <3>1, <3>2
  <2>3. QED
    BY <2>1, <2>2
<1>7. Faithful(SetLevels(b, d))
  <2>1. /\ SetLevels(b, d).last = d.u /\ SetLevels(b, d).levels = lv
        /\ SetLevels(b, d).known = b.known \cup Touched(d)
    BY <1>4
  <2> HIDE DEF lv
  <2>2. QED
    BY <1>6, <2>1 DEF Faithful
<1>8. QED
  BY <1>1, <1>5, <1>7

(* Applying any message keeps the book a book, and never takes its id past *)
(* h when neither book nor message is.                                     *)
LEMMA AppliedType ==
  ASSUME NEW b \in Book, NEW d \in Msg
  PROVE  /\ ApplyDelta(b, d) \in Book
         /\ ApplyDelta(b, d).last \in {b.last, d.u}
<1>1. d.u \in UpdateId
  BY DEF Msg
<1>2. SetLevels(b, d) \in Book /\ SetLevels(b, d).last = d.u
  <2> DEFINE lv == [p \in Level |-> IF p \in Touched(d) THEN History[d.u][p] ELSE b.levels[p]]
  <2>1. lv \in [Level -> Nat] /\ b.known \cup Touched(d) \in SUBSET Level
    BY <1>1, VenueAssumption DEF UpdateId, Book, Touched
  <2> HIDE DEF lv
  <2>2. SetLevels(b, d) = [last |-> d.u, levels |-> lv, known |-> b.known \cup Touched(d),
                           seqReady |-> TRUE, isSynced |-> b.isSynced]
    BY DEF SetLevels, lv
  <2>3. QED
    BY <1>1, <2>1, <2>2 DEF Book
<1>3. MarkUnsynced(b) \in Book /\ MarkUnsynced(b).last = b.last
  BY DEF MarkUnsynced, Book
<1>4. QED
  BY <1>2, <1>3 DEF ApplyDelta

(* Losing the synced flag changes nothing else.                            *)
LEMMA MarkedType ==
  ASSUME NEW b \in Book
  PROVE  /\ MarkUnsynced(b) \in Book
         /\ MarkUnsynced(b).last = b.last /\ MarkUnsynced(b).seqReady = b.seqReady
         /\ MarkUnsynced(b).levels = b.levels /\ MarkUnsynced(b).known = b.known
         /\ ~MarkUnsynced(b).isSynced
         /\ Faithful(b) => Faithful(MarkUnsynced(b))
  BY DEF MarkUnsynced, Book, Faithful

(* What the validator lets through, a book at the same position accepts:   *)
(* the book's own checks never refuse after DepthSequenceValidator.        *)
THEOREM ValidatorImpliesBook ==
  ASSUME NEW b \in Book, NEW d \in Msg, NEW v \in Validator, IsDiff(d),
         b.last # NoId, v.last = b.last, v.synced = b.seqReady,
         Judge(v, d) = "apply"
  PROVE  Verdict(b, d) = "applied"
<1>1. CASE v.synced
  BY <1>1 DEF Judge, Verdict, Validator
<1>2. CASE ~v.synced
  <2>1. Brackets(d, b.last)
    BY <1>2 DEF Judge, Validator
  <2>2. b.last \in Int /\ d.pu \in Int /\ d.U \in Int /\ d.u \in Int
    BY VenueAssumption DEF Book, Msg, UpdateId, NoId
  <2>3. d.pu # b.last /\ ~(d.u < b.last)
    BY <2>1, <2>2 DEF Brackets, IsDiff
  <2>4. QED
    BY <1>2, <2>1, <2>3 DEF Verdict
<1>3. QED
  BY <1>1, <1>2
=============================================================================
