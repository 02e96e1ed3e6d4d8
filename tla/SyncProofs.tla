----------------------------- MODULE SyncProofs -----------------------------
(***************************************************************************)
(* The synchronizer with its own buffer, for every history of the venue,   *)
(* every size of the buffer and every moment a snapshot arrives: what it   *)
(* tells its caller to apply keeps the caller's book faithful.             *)
(***************************************************************************)
EXTENDS SyncEpochs, BookProofs, SequenceTheorems

\* What a synchronizer holds: diffs of the venue, in order, none past id hi.
Held(s, hi) ==
  /\ s \in Synchronizer /\ Len(s.buffer) <= MaxBuffer
  /\ \A i \in 1..Len(s.buffer) : IsDiff(s.buffer[i]) /\ s.buffer[i].u <= hi
  /\ \A i, j \in 1..Len(s.buffer) : i < j => s.buffer[i].u <= s.buffer[j].pu

\* A synchronizer and the book of its caller stand at the same place.
Together(s, b, hi) ==
  /\ Held(s, hi)
  /\ b \in Book /\ Faithful(b)
  /\ ~Awaiting(s) => /\ s.validator.last = b.last
                     /\ s.validator.synced = b.seqReady
                     /\ b.isSynced

Caller(b) == [book |-> b, refused |-> {}]

SyncIInv ==
  /\ head \in UpdateId /\ batchEnd \in 0..head
  /\ refused = {}
  /\ Together(sync, book, batchEnd)

(* Nothing held is no later than anything.                                 *)
LEMMA NothingHeld ==
  ASSUME NEW v \in Validator, NEW hi
  PROVE  Held([validator |-> v, buffer |-> << >>], hi)
<1>1. [validator |-> v, buffer |-> << >>] \in Synchronizer
  BY DEF Synchronizer
<1> QED
  BY <1>1, MaxBufferAssumption DEF Held

LEMMA EpochStarts ==
  ASSUME NEW L \in UpdateId, NEW hi
  PROVE  Together(Fresh(L), ApplySnapshot(L), hi)
<1>1. NewValidator(L) \in Validator
  BY DEF NewValidator, Validator
<1>2. ApplySnapshot(L) \in Book /\ Faithful(ApplySnapshot(L))
  BY SnapshotIsFaithful
<1>3. Held(Fresh(L), hi)
  BY <1>1, NothingHeld DEF Fresh
<1> QED
  BY <1>2, <1>3 DEF Together, Fresh, NewValidator, ApplySnapshot

LEMMA EpochEnds ==
  ASSUME NEW b \in Book, Faithful(b), NEW hi
  PROVE  Together(NoEpoch, MarkUnsynced(b), hi)
<1>1. NoValidator \in Validator /\ Awaiting(NoEpoch)
  BY DEF NoValidator, Validator, Awaiting, NoEpoch
<1>2. Held(NoEpoch, hi)
  BY <1>1, NothingHeld DEF NoEpoch
<1> QED
  BY <1>1, <1>2, MarkedType DEF Together

\* d held behind what s holds, if there is room.
Holding(s, d) == [s EXCEPT !.buffer = IF Len(@) < MaxBuffer THEN Append(@, d) ELSE @]

LEMMA DiffHeld ==
  ASSUME NEW s, NEW hi \in Int, Held(s, hi), NEW d \in Msg, IsDiff(d), hi <= d.pu
  PROVE  /\ Held(Holding(s, d), d.u)
         /\ Holding(s, d).validator = s.validator
<1> DEFINE q == IF Len(s.buffer) < MaxBuffer THEN Append(s.buffer, d) ELSE s.buffer
<1>1. s = [validator |-> s.validator, buffer |-> s.buffer] /\ s.validator \in Validator
      /\ s.buffer \in Seq(Msg)
  BY DEF Held, Synchronizer
<1>2. Holding(s, d) = [validator |-> s.validator, buffer |-> q]
  BY <1>1 DEF Holding
<1>3. hi <= d.u /\ d.pu \in Int /\ d.u \in Int
  BY DEF IsDiff, Msg, UpdateId
<1>4. /\ q \in Seq(Msg) /\ Len(q) <= MaxBuffer
      /\ \A i \in 1..Len(q) : q[i] = IF i \in 1..Len(s.buffer) THEN s.buffer[i] ELSE d
      /\ Len(q) \in {Len(s.buffer), Len(s.buffer) + 1} /\ Len(s.buffer) \in Nat
  BY <1>1, MaxBufferAssumption DEF Held
<1> HIDE DEF q
<1>5. \A i \in 1..Len(q) : q[i] \in Msg
  BY <1>4
<1>6. \A m \in Msg : m.u \in Int /\ m.pu \in Int
  BY DEF Msg, UpdateId
<1>7. \A i \in 1..Len(s.buffer) : s.buffer[i] \in Msg /\ IsDiff(s.buffer[i]) /\ s.buffer[i].u <= hi
  BY <1>1 DEF Held
<1>8. ASSUME NEW i \in 1..Len(q)
      PROVE  IsDiff(q[i]) /\ q[i].u <= d.u
  BY <1>3, <1>4, <1>6, <1>7, SMTT(30)
<1>9. ASSUME NEW i \in 1..Len(q), NEW j \in 1..Len(q), i < j
      PROVE  q[i].u <= q[j].pu
  <2>1. i \in 1..Len(s.buffer) /\ q[i] = s.buffer[i]
    BY <1>4, <1>9
  <2>2. CASE j \in 1..Len(s.buffer)
    BY <1>4, <1>9, <2>1, <2>2 DEF Held
  <2>3. CASE j \notin 1..Len(s.buffer)
    BY <1>3, <1>4, <1>6, <1>7, <2>1, <2>3
  <2> QED
    BY <2>2, <2>3
<1>10. Holding(s, d) \in Synchronizer
  BY <1>1, <1>2, <1>4 DEF Synchronizer
<1> QED
  BY <1>2, <1>4, <1>8, <1>9, <1>10 DEF Held

LEMMA HeldLater ==
  ASSUME NEW s, NEW hi \in Int, NEW later \in Int, hi <= later, Held(s, hi)
  PROVE  Held(s, later)
<1>1. s.buffer \in Seq(Msg)
  BY DEF Held, Synchronizer
<1>2. \A i \in 1..Len(s.buffer) : s.buffer[i] \in Msg
  BY <1>1
<1>3. \A m \in Msg : m.u \in Int
  BY DEF Msg, UpdateId
<1> QED
  BY <1>2, <1>3 DEF Held

(* A diff decided upon: the caller is never told to apply one that its     *)
(* book refuses, and the two still stand together.                         *)
LEMMA DecidedTogether ==
  ASSUME NEW s, NEW b, NEW hi \in Int, Together(s, b, hi),
         NEW d \in Msg, IsDiff(d), hi <= d.pu
  PROVE  /\ Together(Decide(s, d), Obey(Caller(b), d, Decision(s, d)).book, d.u)
         /\ Obey(Caller(b), d, Decision(s, d)).refused = {}
<1> DEFINE to == Obey(Caller(b), d, Decision(s, d))
<1>1. hi <= d.u /\ d.u \in Int /\ d.u \in UpdateId
  BY DEF IsDiff, Msg, UpdateId
<1>2. Held(s, d.u) /\ b \in Book /\ Faithful(b) /\ s \in Synchronizer
  BY <1>1, HeldLater DEF Together, Held
<1>3. CASE Awaiting(s)
  <2>1. Decision(s, d) = "buffer"
    BY <1>3 DEF Decision
  <2>2. Decide(s, d) = Holding(s, d)
    BY <2>1 DEF Decide, Holding
  <2>3. to = Caller(b)
    BY <2>1 DEF Obey
  <2>4. Held(Holding(s, d), d.u) /\ Awaiting(Holding(s, d))
    BY <1>3, DiffHeld DEF Together, Awaiting
  <2> QED
    BY <1>2, <2>2, <2>3, <2>4 DEF Together, Caller
<1>4. CASE ~Awaiting(s) /\ Judge(s.validator, d) = "apply"
  <2>1. Decision(s, d) = "apply"
    BY <1>4 DEF Decision
  <2>2. /\ s.validator \in Validator /\ s.validator.last = b.last
        /\ s.validator.synced = b.seqReady /\ b.last # NoId /\ b.isSynced
    BY <1>2, <1>4 DEF Together, Awaiting, Synchronizer
  <2>3. Verdict(b, d) = "applied"
    BY <1>2, <1>4, <2>2, ValidatorImpliesBook
  <2>4. to = [book |-> ApplyDelta(b, d), refused |-> {}]
    BY <2>1, <2>3 DEF Obey, Caller
  <2>5. ApplyDelta(b, d) \in Book /\ Faithful(ApplyDelta(b, d))
    BY <1>2, <2>3, AcceptedDiffKeepsFaithful
  <2>6. ApplyDelta(b, d).last = d.u /\ ApplyDelta(b, d).seqReady /\ ApplyDelta(b, d).isSynced
    BY <2>2, <2>3 DEF ApplyDelta, SetLevels
  <2> DEFINE v == [last |-> d.u, synced |-> TRUE]
  <2>7. Decide(s, d) = [validator |-> v, buffer |-> s.buffer]
    BY <1>2, <2>1 DEF Decide, Synchronizer
  <2>8. v \in Validator
    BY <1>1 DEF Validator
  <2>9. Held(Decide(s, d), d.u)
    BY <1>2, <2>7, <2>8 DEF Held, Synchronizer
  <2>10. Together(Decide(s, d), ApplyDelta(b, d), d.u)
    <3> DEFINE ns == Decide(s, d)
               nb == ApplyDelta(b, d)
    <3>1. ns.validator.last = d.u /\ ns.validator.synced = TRUE /\ Held(ns, d.u)
      BY <2>7, <2>9
    <3>2. nb \in Book /\ Faithful(nb) /\ nb.last = d.u /\ nb.seqReady = TRUE /\ nb.isSynced
      BY <2>5, <2>6 DEF Book
    <3> HIDE DEF ns, nb
    <3>3. Together(ns, nb, d.u)
      BY <3>1, <3>2 DEF Together
    <3> QED
      BY <3>3 DEF ns, nb
  <2>11. to.book = ApplyDelta(b, d) /\ to.refused = {}
    BY <2>4
  <2> HIDE DEF to
  <2>12. Together(Decide(s, d), to.book, d.u) /\ to.refused = {}
    BY <2>10, <2>11
  <2> QED
    BY <2>12 DEF to
<1>5. CASE ~Awaiting(s) /\ Judge(s.validator, d) = "stale"
  <2>1. Decision(s, d) = "drop_stale"
    BY <1>5 DEF Decision
  <2>2. Decide(s, d) = s /\ to = Caller(b)
    BY <2>1 DEF Decide, Obey
  <2>3. to.book = b /\ to.refused = {}
    BY <2>2 DEF Caller
  <2>4. Together(s, b, d.u)
    BY <1>2 DEF Together
  <2> HIDE DEF to
  <2>5. Together(Decide(s, d), to.book, d.u)
    BY <2>2, <2>3, <2>4
  <2> QED
    BY <2>3, <2>5 DEF to
<1>6. CASE ~Awaiting(s) /\ Judge(s.validator, d) \notin {"apply", "stale"}
  <2>1. Decision(s, d) = "resync"
    BY <1>6 DEF Decision
  <2>2. Decide(s, d) = NoEpoch /\ to = [book |-> MarkUnsynced(b), refused |-> {}]
    BY <2>1 DEF Decide, Obey, Caller
  <2> QED
    BY <1>2, <2>2, EpochEnds
<1> QED
  BY <1>3, <1>4, <1>5, <1>6

-----------------------------------------------------------------------------
\* The replay of the held diffs, on both sides.

CallerType == [book : Book, refused : SUBSET Msg]

LEMMA DecideType ==
  ASSUME NEW s \in Synchronizer, NEW d \in Msg
  PROVE  Decide(s, d) \in Synchronizer
<1>1. s.validator \in Validator /\ s.buffer \in Seq(Msg) /\ Append(s.buffer, d) \in Seq(Msg)
  BY DEF Synchronizer
<1>2. [last |-> d.u, synced |-> TRUE] \in Validator /\ NoValidator \in Validator
  BY DEF Validator, NoValidator, Msg
<1>3. \A v \in Validator, q \in Seq(Msg) : [validator |-> v, buffer |-> q] \in Synchronizer
  BY DEF Synchronizer
<1>4. NoEpoch \in Synchronizer
  <2>1. << >> \in Seq(Msg)
    OBVIOUS
  <2> QED
    BY <1>2, <1>3, <2>1 DEF NoEpoch
<1>5. [s EXCEPT !.validator = [last |-> d.u, synced |-> TRUE]] \in Synchronizer
  BY <1>2 DEF Synchronizer
<1>6. [s EXCEPT !.buffer = IF Len(@) < MaxBuffer THEN Append(@, d) ELSE @] \in Synchronizer
  BY <1>1 DEF Synchronizer
<1> QED
  BY <1>4, <1>5, <1>6 DEF Decide

LEMMA ObeyType ==
  ASSUME NEW c \in CallerType, NEW d \in Msg, NEW decision
  PROVE  Obey(c, d, decision) \in CallerType
<1>1. c.book \in Book /\ c.refused \in SUBSET Msg
  BY DEF CallerType
<1>2. ApplyDelta(c.book, d) \in Book /\ MarkUnsynced(c.book) \in Book
  BY <1>1, AppliedType, MarkedType
<1>3. [c EXCEPT !.book = MarkUnsynced(@)] \in CallerType
  BY <1>2 DEF CallerType
<1> QED
  BY <1>1, <1>2, <1>3 DEF Obey, CallerType

(* The loop of install_snapshot over the held diffs.                       *)
LEMMA ReplayLoop ==
  ASSUME NEW s \in Synchronizer, NEW L \in UpdateId
  PROVE  /\ ReplayTable(s, L)[0] = Fresh(L)
         /\ \A i \in 1..Len(s.buffer) : ReplayTable(s, L)[i] = Decide(ReplayTable(s, L)[i - 1], s.buffer[i])
         /\ \A i \in 0..Len(s.buffer) : ReplayTable(s, L)[i] \in Synchronizer
<1> DEFINE n == Len(s.buffer)
           start == Fresh(L)
           step == [i \in 1..n |-> [x \in Synchronizer |-> Decide(x, s.buffer[i])]]
           Is(f) == f = [i \in 0..n |-> IF i = 0 THEN Fresh(L) ELSE Decide(f[i - 1], s.buffer[i])]
<1>1. n \in Nat /\ \A i \in 1..n : s.buffer[i] \in Msg
  BY DEF Synchronizer
<1>2. start \in Synchronizer
  <2>1. NewValidator(L) \in Validator /\ << >> \in Seq(Msg)
    BY DEF NewValidator, Validator
  <2> QED
    BY <2>1 DEF Fresh, Synchronizer
<1>3. \A i \in 1..n, x \in Synchronizer :
        /\ Decide(x, s.buffer[i]) \in Synchronizer
        /\ step[i][x] = Decide(x, s.buffer[i])
  BY <1>1, DecideType
<1>4. step \in [1..n -> [Synchronizer -> Synchronizer]]
  BY <1>3
<1>5. ReplayTable(s, L) = CHOOSE f : Is(f)
  BY DEF ReplayTable
<1> HIDE DEF n, step, start
<1>6. PICK f : LoopTable(f, n, Synchronizer, start, step)
  BY <1>1, <1>2, <1>4, LoopFound
<1>7. /\ f = [i \in 0..n |-> f[i]] /\ f[0] = start
      /\ \A i \in 1..n : f[i] = step[i][f[i - 1]]
      /\ \A i \in 0..n : f[i] \in Synchronizer
  BY <1>6 DEF LoopTable
<1>8. Is(f)
  <2>1. ASSUME NEW i \in 0..n
        PROVE  f[i] = IF i = 0 THEN Fresh(L) ELSE Decide(f[i - 1], s.buffer[i])
    <3>1. CASE i = 0
      BY <1>7, <3>1 DEF start
    <3>2. CASE i # 0
      <4>1. i \in 1..n /\ i - 1 \in 0..n
        BY <1>1, <3>2
      <4>2. f[i] = step[i][f[i - 1]] /\ f[i - 1] \in Synchronizer
        BY <1>7, <4>1
      <4>3. step[i][f[i - 1]] = Decide(f[i - 1], s.buffer[i])
        BY <1>3, <4>1, <4>2
      <4> QED
        BY <3>2, <4>2, <4>3
    <3> QED
      BY <3>1, <3>2
  <2> QED
    BY <1>7, <2>1
<1>9. PICK g : g = ReplayTable(s, L) /\ Is(g)
  <2> HIDE DEF Is
  <2> QED
    BY <1>5, <1>8
<1>10. g[0] = Fresh(L) /\ \A i \in 1..n : g[i] = Decide(g[i - 1], s.buffer[i])
  BY <1>1, <1>9
<1>11. \A i \in 1..n : g[i - 1] \in Synchronizer => g[i] \in Synchronizer
  BY <1>3, <1>10
<1>12. \A i \in 0..n : g[i] \in Synchronizer
  BY <1>1, <1>2, <1>10, <1>11, LoopStays DEF start
<1> QED
  BY <1>9, <1>10, <1>12 DEF n

(* The loop of a caller over what install_snapshot returned.               *)
LEMMA FollowLoop ==
  ASSUME NEW c \in CallerType, NEW ds, NEW n \in Nat, Len(ds) = n, \A i \in 1..n : ds[i].diff \in Msg
  PROVE  /\ FollowTable(c, ds)[0] = c
         /\ \A i \in 1..n : FollowTable(c, ds)[i] = Obey(FollowTable(c, ds)[i - 1], ds[i].diff, ds[i].decision)
         /\ \A i \in 0..n : FollowTable(c, ds)[i] \in CallerType
<1> DEFINE step == [i \in 1..n |-> [x \in CallerType |-> Obey(x, ds[i].diff, ds[i].decision)]]
           Is(f) == f = [i \in 0..n |-> IF i = 0 THEN c ELSE Obey(f[i - 1], ds[i].diff, ds[i].decision)]
<1>1. \A i \in 1..n, x \in CallerType :
        /\ Obey(x, ds[i].diff, ds[i].decision) \in CallerType
        /\ step[i][x] = Obey(x, ds[i].diff, ds[i].decision)
  BY ObeyType
<1>2. step \in [1..n -> [CallerType -> CallerType]]
  BY <1>1
<1>3. FollowTable(c, ds) = CHOOSE f : Is(f)
  BY DEF FollowTable
<1> HIDE DEF step
<1>4. PICK f : LoopTable(f, n, CallerType, c, step)
  BY <1>2, LoopFound
<1>5. /\ f = [i \in 0..n |-> f[i]] /\ f[0] = c
      /\ \A i \in 1..n : f[i] = step[i][f[i - 1]]
      /\ \A i \in 0..n : f[i] \in CallerType
  BY <1>4 DEF LoopTable
<1>6. Is(f)
  <2>1. ASSUME NEW i \in 0..n
        PROVE  f[i] = IF i = 0 THEN c ELSE Obey(f[i - 1], ds[i].diff, ds[i].decision)
    <3>1. CASE i = 0
      BY <1>5, <3>1
    <3>2. CASE i # 0
      <4>1. i \in 1..n /\ i - 1 \in 0..n
        BY <3>2
      <4>2. f[i] = step[i][f[i - 1]] /\ f[i - 1] \in CallerType
        BY <1>5, <4>1
      <4>3. step[i][f[i - 1]] = Obey(f[i - 1], ds[i].diff, ds[i].decision)
        BY <1>1, <4>1, <4>2
      <4> QED
        BY <3>2, <4>2, <4>3
    <3> QED
      BY <3>1, <3>2
  <2> QED
    BY <1>5, <2>1
<1>7. PICK g : g = FollowTable(c, ds) /\ Is(g)
  <2> HIDE DEF Is
  <2> QED
    BY <1>3, <1>6
<1>8. g[0] = c /\ \A i \in 1..n : g[i] = Obey(g[i - 1], ds[i].diff, ds[i].decision)
  BY <1>7
<1>9. \A i \in 1..n : g[i - 1] \in CallerType => g[i] \in CallerType
  BY <1>1, <1>8
<1>10. \A i \in 0..n : g[i] \in CallerType
  BY <1>8, <1>9, LoopStays
<1> QED
  BY <1>7, <1>8, <1>10

(* A snapshot arrives: after the replay of the held diffs, however many of *)
(* them met a gap, the synchronizer and the caller's book stand together.  *)
LEMMA ReplayTogether ==
  ASSUME NEW s, NEW hi \in Nat, Held(s, hi), NEW L \in UpdateId
  PROVE  /\ Together(InstallSnapshot(s, L), Follow(Caller(ApplySnapshot(L)), Decisions(s, L)).book, hi)
         /\ Follow(Caller(ApplySnapshot(L)), Decisions(s, L)).refused = {}
<1> DEFINE n == Len(s.buffer)
           at == ReplayTable(s, L)
           ds == Decisions(s, L)
           c == FollowTable(Caller(ApplySnapshot(L)), ds)
           upTo(i) == IF i = 0 THEN 0 ELSE s.buffer[i].u
           Q == {i \in 0..n : Together(at[i], c[i].book, upTo(i)) /\ c[i].refused = {}}
<1>1. /\ s \in Synchronizer /\ n \in Nat
      /\ \A i \in 1..n : /\ s.buffer[i] \in Msg /\ IsDiff(s.buffer[i]) /\ s.buffer[i].u <= hi
                         /\ s.buffer[i].u \in Nat /\ s.buffer[i].pu \in Nat
      /\ \A i, j \in 1..n : i < j => s.buffer[i].u <= s.buffer[j].pu
  <2>1. s \in Synchronizer /\ s.buffer \in Seq(Msg)
    BY DEF Held, Synchronizer
  <2>2. \A m \in Msg : m.u \in Nat /\ m.pu \in Nat
    BY DEF Msg, UpdateId
  <2> QED
    BY <2>1, <2>2 DEF Held
<1>2. /\ at[0] = Fresh(L)
      /\ \A i \in 1..n : at[i] = Decide(at[i - 1], s.buffer[i])
      /\ \A i \in 0..n : at[i] \in Synchronizer
  BY <1>1, ReplayLoop
<1>3. /\ Len(ds) = n
      /\ \A i \in 1..n : ds[i].diff = s.buffer[i] /\ ds[i].decision = Decision(at[i - 1], s.buffer[i])
  BY <1>1 DEF Decisions
<1>4. Caller(ApplySnapshot(L)) \in CallerType
  BY SnapshotIsFaithful DEF Caller, CallerType
<1>5. /\ c[0] = Caller(ApplySnapshot(L))
      /\ \A i \in 1..n : c[i] = Obey(c[i - 1], ds[i].diff, ds[i].decision)
      /\ \A i \in 0..n : c[i] \in CallerType
  <2> HIDE DEF ds, n
  <2>1. \A i \in 1..n : ds[i].diff \in Msg
    BY <1>1, <1>3
  <2> QED
    BY <1>1, <1>3, <1>4, <2>1, FollowLoop
<1>6. \A i \in 1..n : c[i] = Obey(c[i - 1], s.buffer[i], Decision(at[i - 1], s.buffer[i]))
  BY <1>3, <1>5
<1>7. InstallSnapshot(s, L) = at[n]
  <2>1. CASE s.buffer = << >>
    BY <1>2, <2>1 DEF InstallSnapshot
  <2>2. CASE s.buffer # << >>
    BY <2>2 DEF InstallSnapshot
  <2> QED
    BY <2>1, <2>2
<1>8. Follow(Caller(ApplySnapshot(L)), Decisions(s, L)) = c[n]
  BY <1>3 DEF Follow
<1> HIDE DEF at, ds, c, n
<1>9. 0 \in Q
  BY <1>1, <1>2, <1>5, EpochStarts DEF Caller
<1>10. ASSUME NEW i \in 1..n, i - 1 \in Q
       PROVE  i \in Q
  <2>1. /\ i \in 0..n /\ i - 1 \in 0..n
        /\ Together(at[i - 1], c[i - 1].book, upTo(i - 1)) /\ c[i - 1].refused = {}
    BY <1>1, <1>10
  <2>2. c[i - 1] = Caller(c[i - 1].book)
    BY <1>5, <2>1 DEF Caller, CallerType
  <2>3. s.buffer[i] \in Msg /\ IsDiff(s.buffer[i]) /\ upTo(i - 1) \in Int /\ upTo(i - 1) <= s.buffer[i].pu
    BY <1>1, <2>1
  <2>4. /\ Together(at[i], Obey(Caller(c[i - 1].book), s.buffer[i], Decision(at[i - 1], s.buffer[i])).book,
                    s.buffer[i].u)
        /\ Obey(Caller(c[i - 1].book), s.buffer[i], Decision(at[i - 1], s.buffer[i])).refused = {}
    <3> HIDE DEF upTo
    <3>1. at[i] = Decide(at[i - 1], s.buffer[i])
      BY <1>2
    <3> QED
      BY <2>1, <2>3, <3>1, DecidedTogether
  <2>5. c[i] = Obey(Caller(c[i - 1].book), s.buffer[i], Decision(at[i - 1], s.buffer[i]))
    BY <1>6, <2>2
  <2>6. Together(at[i], c[i].book, s.buffer[i].u) /\ c[i].refused = {}
    BY <2>4, <2>5
  <2>7. upTo(i) = s.buffer[i].u
    OBVIOUS
  <2> HIDE DEF upTo
  <2> QED
    BY <2>1, <2>6, <2>7
<1>11. n \in Q
  <2>1. n \in 0..n
    BY <1>1
  <2> HIDE DEF Q
  <2> QED
    BY <1>1, <1>9, <1>10, <2>1, CountUp
<1>12. upTo(n) \in Int /\ upTo(n) <= hi
  BY <1>1
<1>13. Together(at[n], c[n].book, upTo(n)) /\ c[n].refused = {}
  BY <1>11
<1> HIDE DEF upTo
<1>14. Together(at[n], c[n].book, hi)
  <2>1. Held(at[n], hi)
    BY <1>12, <1>13, HeldLater DEF Together
  <2> QED
    BY <1>13, <2>1 DEF Together
<1> QED
  BY <1>7, <1>8, <1>13, <1>14

-----------------------------------------------------------------------------
LEMMA SyncStart == Init => SyncIInv
<1> SUFFICES ASSUME Init PROVE SyncIInv
  OBVIOUS
<1>1. EmptyBook \in Book /\ Faithful(EmptyBook)
  BY DEF EmptyBook, Book, Faithful, NoId
<1>2. NoValidator \in Validator /\ Awaiting(NoEpoch)
  BY DEF NoValidator, Validator, Awaiting, NoEpoch
<1>3. Held(NoEpoch, 0)
  BY <1>2, NothingHeld DEF NoEpoch
<1>4. Together(NoEpoch, EmptyBook, 0)
  BY <1>1, <1>2, <1>3 DEF Together
<1> QED
  BY <1>4, VenueAssumption DEF Init, SyncIInv, UpdateId

LEMMA SyncStep == SyncIInv /\ [Next]_vars => SyncIInv'
<1> SUFFICES ASSUME SyncIInv, [Next]_vars PROVE SyncIInv'
  OBVIOUS
<1>1. /\ head \in UpdateId /\ batchEnd \in 0..head /\ head \in Nat /\ batchEnd \in Nat /\ head \in 0..MaxId
      /\ refused = {} /\ Together(sync, book, batchEnd)
      /\ Held(sync, batchEnd) /\ book \in Book /\ Faithful(book)
  BY VenueAssumption DEF SyncIInv, Together, UpdateId
<1>2. CASE VenueUpdate
  BY <1>1, <1>2, VenueAssumption DEF VenueUpdate, SyncIInv, UpdateId
<1>3. CASE Lost
  <2>1. Held(sync, head)
    BY <1>1, <1>3, HeldLater
  <2>2. Together(sync, book, head)
    BY <1>1, <2>1 DEF Together
  <2> QED
    BY <1>1, <1>3, <2>2 DEF Lost, SyncIInv
<1>4. CASE Decided
  <2>1. PICK U \in (batchEnd + 1) .. head :
           /\ IsDiff(Diff(U, head, batchEnd))
           /\ sync' = Decide(sync, Diff(U, head, batchEnd))
           /\ CallerBecomes(Obey([book |-> book, refused |-> refused], Diff(U, head, batchEnd),
                                 Decision(sync, Diff(U, head, batchEnd))))
    BY <1>4 DEF Decided
  <2> DEFINE d == Diff(U, head, batchEnd)
  <2>2. d \in Msg /\ d.pu = batchEnd /\ d.u = head
    <3>1. U \in UpdateId /\ batchEnd \in UpdateId
      BY <1>1, VenueAssumption DEF UpdateId
    <3> QED
      BY <1>1, <3>1 DEF Diff, Msg, Kind
  <2>3. /\ Together(Decide(sync, d), Obey(Caller(book), d, Decision(sync, d)).book, d.u)
        /\ Obey(Caller(book), d, Decision(sync, d)).refused = {}
    <3>1. IsDiff(d) /\ batchEnd <= d.pu /\ batchEnd \in Int
      BY <1>1, <2>1, <2>2
    <3> HIDE DEF d
    <3> QED
      BY <1>1, <2>2, <3>1, DecidedTogether
  <2>4. /\ book' = Obey(Caller(book), d, Decision(sync, d)).book
        /\ refused' = Obey(Caller(book), d, Decision(sync, d)).refused
    BY <1>1, <2>1 DEF CallerBecomes, Caller
  <2>5. Together(sync', book', head)
    BY <2>1, <2>2, <2>3, <2>4
  <2> QED
    BY <1>1, <1>4, <2>3, <2>4, <2>5 DEF Decided, SyncIInv
<1>5. CASE SnapshotArrives
  <2>1. PICK L \in 0..head :
           /\ sync' = InstallSnapshot(sync, L)
           /\ CallerBecomes(Follow([book |-> ApplySnapshot(L), refused |-> refused], Decisions(sync, L)))
    BY <1>5 DEF SnapshotArrives
  <2>2. L \in UpdateId
    BY <1>1, VenueAssumption DEF UpdateId
  <2>3. /\ Together(InstallSnapshot(sync, L),
                    Follow(Caller(ApplySnapshot(L)), Decisions(sync, L)).book, batchEnd)
        /\ Follow(Caller(ApplySnapshot(L)), Decisions(sync, L)).refused = {}
    BY <1>1, <2>2, ReplayTogether
  <2>4. /\ book' = Follow(Caller(ApplySnapshot(L)), Decisions(sync, L)).book
        /\ refused' = Follow(Caller(ApplySnapshot(L)), Decisions(sync, L)).refused
    BY <1>1, <2>1 DEF CallerBecomes, Caller
  <2>5. Together(sync', book', batchEnd) /\ refused' = {}
    BY <2>1, <2>3, <2>4
  <2> QED
    BY <1>1, <1>5, <2>5 DEF SnapshotArrives, SyncIInv
<1>6. CASE Disconnected
  <2>1. Together(NoEpoch, MarkUnsynced(book), batchEnd)
    BY <1>1, EpochEnds
  <2> QED
    BY <1>1, <1>6, <2>1 DEF Disconnected, OnDisconnect, SyncIInv
<1>7. CASE UNCHANGED vars
  BY <1>7 DEF vars, SyncIInv
<1> QED
  BY <1>2, <1>3, <1>4, <1>5, <1>6, <1>7 DEF Next

(* The synchronizer, what it holds and its caller's book stand together in *)
(* every state.                                                            *)
THEOREM SyncInvariant == Spec => []SyncIInv
BY SyncStart, SyncStep, PTL DEF Spec

(* Whatever was held, dropped by a full buffer, cut off by a gap in a      *)
(* replay and replayed once more, the book a caller builds shows the       *)
(* venue's quantities at its id (sync.py, install_snapshot and decide).    *)
THEOREM ReplayIsFaithful == Spec => []ReplayFaithful
<1>1. SyncIInv => ReplayFaithful
  BY DEF SyncIInv, Together, ReplayFaithful
<1> QED
  BY <1>1, SyncInvariant, PTL

(* The book never refuses what the synchronizer says to apply, what is     *)
(* held is in order and within the buffer, and an epoch stands where the   *)
(* book stands (sync.py, validate and install_snapshot).                   *)
THEOREM SyncHolds == Spec => []SyncInv
<1>1. SyncIInv => SyncInv
  <2> SUFFICES ASSUME SyncIInv PROVE SyncInv
    OBVIOUS
  <2>1. TypeOK
    BY DEF SyncIInv, Together, Held, TypeOK
  <2>2. NothingRefused /\ HeldInOrder
    BY DEF SyncIInv, Together, Held, NothingRefused, HeldInOrder
  <2>3. EpochIsBook
    BY DEF SyncIInv, Together, EpochIsBook
  <2> QED
    BY <2>1, <2>2, <2>3 DEF SyncInv
<1> QED
  BY <1>1, SyncInvariant, PTL
=============================================================================
