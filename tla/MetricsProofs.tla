--------------------------- MODULE MetricsProofs ----------------------------
(***************************************************************************)
(* The metrics, for every set of books and trades, depth, window, bucket   *)
(* and order of events: the flow of a book is one function of two books    *)
(* and favours neither side; the stream computes what the replay of the    *)
(* tape computes; a bar holds what the replay found in its time, and knows *)
(* the resyncs around it; and the buckets and bars of the trades are those *)
(* the batch functions cut from the tape.                                  *)
(***************************************************************************)
EXTENDS Metrics, LoopLemmas, FiniteSetTheorems

(* The two touches of a level of a book the feed may show.                 *)
LEMMA QuoteType ==
  ASSUME NEW b \in Books, NEW m \in 1..Levels
  PROVE  Quote(b, m) \in Quotes
<1>1. /\ b.bids \in Seq(Int \X Int) /\ b.asks \in Seq(Int \X Int)
  BY MetricsAssumption
<1>2. /\ m <= Len(b.bids) => b.bids[m] \in Int \X Int
      /\ m <= Len(b.asks) => b.asks[m] \in Int \X Int
  BY <1>1, ImbalanceAssumption
<1>. QED
  BY <1>2, ImbalanceAssumption DEF Quote, Quotes

(* A level that is there has numbers for prices and quantities.            *)
LEMMA WholeIsNumeric ==
  ASSUME NEW q \in Quotes, Whole(q)
  PROVE  q.bp \in Int /\ q.bq \in Int /\ q.ap \in Int /\ q.aq \in Int
  BY ImbalanceAssumption DEF Quotes, Whole

(* A contribution is a number where both levels are there, else NaN.       *)
LEMMA ContributionType ==
  ASSUME NEW p \in Quotes, NEW q \in Quotes
  PROVE  /\ Contribution(p, q) \in Int \cup {NaN}
         /\ Whole(p) /\ Whole(q) => Contribution(p, q) \in Int
  BY WholeIsNumeric DEF Contribution, Gained

(* The step back returns what the step took.                               *)
LEMMA StepBack ==
  ASSUME NEW p \in Quotes, NEW q \in Quotes, Whole(p), Whole(q)
  PROVE  Contribution(q, p) = -Contribution(p, q)
<1>1. /\ p.bp \in Int /\ p.bq \in Int /\ p.ap \in Int /\ p.aq \in Int
      /\ q.bp \in Int /\ q.bq \in Int /\ q.ap \in Int /\ q.aq \in Int
  BY WholeIsNumeric
<1>. QED
  BY <1>1 DEF Contribution, Gained

(* Asks for bids, the flow changes sign.                                   *)
LEMMA MirroredFlow ==
  ASSUME NEW p \in Quotes, NEW q \in Quotes, Whole(p), Whole(q)
  PROVE  Contribution(Mirrored(p), Mirrored(q)) = -Contribution(p, q)
<1>1. /\ p.bp \in Int /\ p.bq \in Int /\ p.ap \in Int /\ p.aq \in Int
      /\ q.bp \in Int /\ q.bq \in Int /\ q.ap \in Int /\ q.aq \in Int
  BY WholeIsNumeric
<1>2. Whole(Mirrored(p)) /\ Whole(Mirrored(q))
  BY <1>1, ImbalanceAssumption DEF Whole, Mirrored
<1>. QED
  BY <1>1, <1>2 DEF Contribution, Gained, Mirrored

-----------------------------------------------------------------------------
BookEvent == [kind : {"snapshot", "depth", "gap"}, book : Books, ts : Int]

Result == [l1 : Int \cup {None},
           lm : [1..Levels -> Int \cup {NaN}] \cup {None}]

(* The two accumulators keep a state of the same book, or none.            *)
StatesAgree ==
  /\ prev.l1 = None <=> prev.lm = None
  /\ prev.l1 # None => /\ prev.l1 \in Quotes /\ Whole(prev.l1)
                       /\ prev.lm \in [1..Levels -> Quotes]
                       /\ prev.lm[1] = prev.l1

(* What they returned so far agreed.                                       *)
ResultsAgree ==
  \A n \in 1..Len(streamed) :
    IF streamed[n].lm = None THEN streamed[n].l1 = None
    ELSE streamed[n].l1 \in Int /\ streamed[n].l1 = streamed[n].lm[1]

FlowInv ==
  /\ feed = "book" => tape \in Seq(BookEvent)
  /\ feed = "book" \/ feed \in Classes
  /\ streamed \in Seq(Result)
  /\ StatesAgree /\ ResultsAgree

(* One call of both accumulators.                                          *)
LEMMA ObservedAlike ==
  ASSUME StatesAgree, NEW b \in Books, NEW isSynced \in BOOLEAN
  PROVE  LET l1 == ObserveL1(prev.l1, b, isSynced)
             lm == ObserveLm(prev.lm, b, isSynced)
         IN  /\ l1.prev = None <=> lm.prev = None
             /\ l1.prev # None => /\ l1.prev \in Quotes /\ Whole(l1.prev)
                                  /\ lm.prev \in [1..Levels -> Quotes]
                                  /\ lm.prev[1] = l1.prev
             /\ l1.e \in Int \cup {None}
             /\ lm.e \in [1..Levels -> Int \cup {NaN}] \cup {None}
             /\ IF lm.e = None THEN l1.e = None
                ELSE l1.e \in Int /\ l1.e = lm.e[1]
<1>. DEFINE l1 == ObserveL1(prev.l1, b, isSynced)
            lm == ObserveLm(prev.lm, b, isSynced)
            now == [m \in 1..Levels |-> Quote(b, m)]
            e   == [m \in 1..Levels |-> Contribution(prev.lm[m], now[m])]
<1>1. CASE ~isSynced \/ ~ValidL1(b)
  <2>1. l1 = [prev |-> None, e |-> None] /\ lm = [prev |-> None, e |-> None]
    BY <1>1 DEF ObserveL1, ObserveLm, Skipped
  <2>. QED
    BY <2>1
<1>2. CASE isSynced /\ ValidL1(b)
  <2>1. 1 \in 1..Levels
    BY ImbalanceAssumption
  <2>2. now \in [1..Levels -> Quotes] /\ now[1] = Quote(b, 1) /\ Quote(b, 1) \in Quotes
    BY <2>1, QuoteType
  <2>3. Whole(Quote(b, 1))
    BY <1>2 DEF ValidL1
  <2>4. now # None /\ Quote(b, 1) # None
    BY <2>2, MetricsAssumption
  <2>5. /\ l1.prev = Quote(b, 1) /\ lm.prev = now
        /\ l1.e = IF prev.l1 = None THEN None ELSE Contribution(prev.l1, Quote(b, 1))
        /\ lm.e = IF prev.lm = None THEN None ELSE e
    BY <1>2 DEF ObserveL1, ObserveLm
  <2>6. CASE prev.l1 = None
    BY <2>2, <2>3, <2>4, <2>5, <2>6 DEF StatesAgree
  <2>7. CASE prev.l1 # None
    <3>1. /\ prev.l1 \in Quotes /\ Whole(prev.l1) /\ prev.lm \in [1..Levels -> Quotes]
          /\ prev.lm[1] = prev.l1 /\ prev.lm # None
      BY <2>7 DEF StatesAgree
    <3>2. Contribution(prev.l1, Quote(b, 1)) \in Int
      BY <3>1, <2>2, <2>3, ContributionType
    <3>3. \A m \in 1..Levels : Contribution(prev.lm[m], now[m]) \in Int \cup {NaN}
      BY <3>1, <2>2, ContributionType
    <3>4. e \in [1..Levels -> Int \cup {NaN}] /\ e[1] = Contribution(prev.l1, Quote(b, 1))
      BY <3>1, <3>3, <2>1, <2>2
    <3>5. e # None
      BY <3>4, MetricsAssumption
    <3>6. l1.e = Contribution(prev.l1, Quote(b, 1)) /\ lm.e = e
      BY <2>5, <2>7, <3>1
    <3>7. /\ l1.prev # None /\ lm.prev # None
          /\ l1.prev \in Quotes /\ Whole(l1.prev)
          /\ lm.prev \in [1..Levels -> Quotes] /\ lm.prev[1] = l1.prev
      BY <2>2, <2>3, <2>4, <2>5
    <3>8. /\ l1.e \in Int /\ lm.e \in [1..Levels -> Int \cup {NaN}]
          /\ lm.e # None /\ l1.e = lm.e[1]
      BY <3>2, <3>4, <3>5, <3>6
    <3>. HIDE DEF l1, lm
    <3>. QED
      BY <3>7, <3>8 DEF l1, lm
  <2>. QED
    BY <2>6, <2>7
<1>. QED
  BY <1>1, <1>2

(* A book event keeps all of it.                                           *)
LEMMA ObservedKeeps ==
  ASSUME FlowInv, feed = "book",
         NEW kind \in {"snapshot", "depth", "gap"}, NEW b \in Books, NEW ts \in Int,
         NEW isSynced \in BOOLEAN, Observe(kind, b, ts, isSynced)
  PROVE  FlowInv'
<1>. DEFINE l1 == ObserveL1(prev.l1, b, isSynced)
            lm == ObserveLm(prev.lm, b, isSynced)
            r  == [l1 |-> l1.e, lm |-> lm.e]
<1>1. /\ prev' = [l1 |-> l1.prev, lm |-> lm.prev] /\ streamed' = Append(streamed, r)
      /\ tape' = Append(tape, [kind |-> kind, book |-> b, ts |-> ts]) /\ feed' = feed
  BY DEF Observe
<1>2. /\ l1.prev = None <=> lm.prev = None
      /\ l1.prev # None => /\ l1.prev \in Quotes /\ Whole(l1.prev)
                           /\ lm.prev \in [1..Levels -> Quotes]
                           /\ lm.prev[1] = l1.prev
      /\ r \in Result
      /\ IF r.lm = None THEN r.l1 = None ELSE r.l1 \in Int /\ r.l1 = r.lm[1]
  BY ObservedAlike DEF FlowInv, Result
<1>. HIDE DEF l1, lm, r
<1>3. StatesAgree'
  BY <1>1, <1>2 DEF StatesAgree
<1>4. tape' \in Seq(BookEvent)
  BY <1>1 DEF FlowInv, BookEvent
<1>5. streamed' \in Seq(Result) /\ ResultsAgree'
  <2>1. streamed \in Seq(Result) /\ ResultsAgree
    BY DEF FlowInv
  <2>2. /\ streamed' \in Seq(Result) /\ Len(streamed') = Len(streamed) + 1
        /\ \A n \in 1..Len(streamed') :
             streamed'[n] = IF n <= Len(streamed) THEN streamed[n] ELSE r
    BY <1>1, <1>2, <2>1
  <2>. QED
    BY <1>2, <2>1, <2>2 DEF ResultsAgree
<1>. QED
  BY <1>1, <1>3, <1>4, <1>5 DEF FlowInv

(* The time of the next book event is a number.                            *)
LEMMA LaterIsATime == FlowInv => \A ts \in Later : feed = "book" => ts \in Int
<1> SUFFICES ASSUME FlowInv, feed = "book", NEW step \in Steps
             PROVE  (IF tape = << >> THEN Window - 1 ELSE Last(tape).ts) + step \in Int
  BY DEF Later
<1>1. tape # << >> => Last(tape) \in BookEvent
  BY DEF FlowInv, Last
<1> QED
  BY <1>1, ImbalanceAssumption, MetricsAssumption DEF BookEvent

LEMMA FlowInvInitially == Init => FlowInv
  BY DEF Init, FlowInv, StatesAgree, ResultsAgree

LEMMA FlowInvStep == FlowInv /\ [Next]_vars => FlowInv'
<1>. SUFFICES ASSUME FlowInv, [Next]_vars
              PROVE  FlowInv'
  OBVIOUS
<1>1. \A ts \in Later : feed = "book" => ts \in Int
  BY LaterIsATime
<1>2. CASE SnapshotSeen
  BY <1>1, <1>2, ObservedKeeps DEF SnapshotSeen, BookFeed
<1>3. CASE DiffApplied
  BY <1>1, <1>3, ObservedKeeps DEF DiffApplied, BookFeed
<1>4. CASE GapSeen
  <2>1. feed = "book" /\ tape # << >>
    BY <1>4 DEF GapSeen, BookFeed
  <2>2. Last(tape) \in BookEvent
    BY <2>1 DEF FlowInv, Last
  <2>. QED
    BY <1>4, <2>1, <2>2, ObservedKeeps DEF GapSeen, BookEvent
<1>5. CASE TradeSeen
  BY <1>5 DEF TradeSeen, FlowInv, StatesAgree, ResultsAgree, Classes
<1>6. CASE UNCHANGED vars
  BY <1>6 DEF vars, FlowInv, StatesAgree, ResultsAgree
<1>. QED
  BY <1>2, <1>3, <1>4, <1>5, <1>6 DEF Next

(* For every set of books, every depth and every order of snapshots, diffs *)
(* and gaps, level 1 of the multi-level accumulator is the OFI accumulator,*)
(* and the flow favours neither side (stream.py, _common.py).              *)
THEOREM FlowAlwaysSound == Spec => []FlowIsSound
<1>1. FlowInv => TopLevelIsOfi
  <2>. SUFFICES ASSUME FlowInv, NEW n \in DOMAIN streamed
                PROVE  IF streamed[n].lm = None THEN streamed[n].l1 = None
                       ELSE /\ streamed[n].l1 = streamed[n].lm[1]
                            /\ NaN # streamed[n].l1
    BY DEF TopLevelIsOfi
  <2>1. n \in 1..Len(streamed)
    BY DEF FlowInv
  <2>. QED
    BY <2>1, ImbalanceAssumption DEF FlowInv, ResultsAgree
<1>2. FlowInv => FlowIsAntisymmetric
  <2>. SUFFICES ASSUME FlowInv, feed = "book", NEW n \in 2..Len(tape), NEW m \in 1..Levels,
                       Whole(Quote(tape[n - 1].book, m)), Whole(Quote(tape[n].book, m))
                PROVE  LET p == Quote(tape[n - 1].book, m)
                           q == Quote(tape[n].book, m)
                       IN  /\ Contribution(q, p) = -Contribution(p, q)
                           /\ Contribution(Mirrored(p), Mirrored(q)) = -Contribution(p, q)
    BY DEF FlowIsAntisymmetric
  <2>1. tape[n - 1] \in BookEvent /\ tape[n] \in BookEvent
    BY DEF FlowInv
  <2>2. tape[n - 1].book \in Books /\ tape[n].book \in Books
    BY <2>1 DEF BookEvent
  <2>. QED
    BY <2>2, QuoteType, StepBack, MirroredFlow
<1>. QED
  BY <1>1, <1>2, FlowInvInitially, FlowInvStep, PTL DEF Spec, FlowIsSound

-----------------------------------------------------------------------------
\* The replay of a tape, which the batch metrics read.

Tick   == [n : Nat, ts : Int, epoch : Nat, book : Books]
Reader == [epoch : Nat, ticks : Seq(Tick)]

NoTicks == [epoch |-> 0, ticks |-> << >>]

IsTape(t)  == t \in Seq(BookEvent)
Reading(t) == TickTable(t)[Len(t)]

\* The tick an event makes, and whether it makes one.
TickOf(acc, event, n) ==
  [n |-> n, ts |-> event.ts,
   epoch |-> IF event.kind = "snapshot" /\ acc.ticks # << >> THEN acc.epoch + 1 ELSE acc.epoch,
   book |-> event.book]

Ticks1(event) == event.kind # "gap" /\ ValidL1(event.book)

(* An event of the tape keeps the reader's type.                           *)
LEMMA TickedIs ==
  ASSUME NEW acc \in Reader, NEW event \in BookEvent, NEW n \in Nat
  PROVE  /\ Ticked(acc, event, n) \in Reader
         /\ TickOf(acc, event, n) \in Tick
         /\ Ticked(acc, event, n).epoch = TickOf(acc, event, n).epoch
         /\ Ticked(acc, event, n).ticks = IF Ticks1(event) THEN Append(acc.ticks, TickOf(acc, event, n))
                                          ELSE acc.ticks
<1>1. /\ acc.epoch \in Nat /\ acc.ticks \in Seq(Tick)
      /\ event.ts \in Int /\ event.book \in Books
  BY DEF Reader, BookEvent
<1>2. TickOf(acc, event, n) \in Tick
  BY <1>1 DEF TickOf, Tick
<1> DEFINE k == TickOf(acc, event, n)
<1>3. /\ k.epoch \in Nat
      /\ Ticked(acc, event, n) = [epoch |-> k.epoch,
                                  ticks |-> IF Ticks1(event) THEN Append(acc.ticks, k) ELSE acc.ticks]
  BY <1>1 DEF Ticked, TickOf, Ticks1
<1> HIDE DEF k
<1>4. (IF Ticks1(event) THEN Append(acc.ticks, k) ELSE acc.ticks) \in Seq(Tick)
  BY <1>1, <1>2 DEF k
<1> QED
  BY <1>2, <1>3, <1>4 DEF Reader, k

(* The replay as a loop over the tape.                                     *)
LEMMA TickLoop ==
  ASSUME NEW t, IsTape(t)
  PROVE  /\ TickTable(t)[0] = NoTicks
         /\ \A i \in 1..Len(t) : TickTable(t)[i] = Ticked(TickTable(t)[i - 1], t[i], i)
         /\ \A i \in 0..Len(t) : TickTable(t)[i] \in Reader
<1> DEFINE n == Len(t)
           step == [i \in 1..n |-> [x \in Reader |-> Ticked(x, t[i], i)]]
           Is(f) == f = [i \in 0..n |-> IF i = 0 THEN [epoch |-> 0, ticks |-> << >>]
                                        ELSE Ticked(f[i - 1], t[i], i)]
<1>1. n \in Nat /\ \A i \in 1..n : t[i] \in BookEvent
  BY DEF IsTape
<1>2. NoTicks \in Reader
  <2>1. << >> \in Seq(Tick)
    OBVIOUS
  <2> QED
    BY <2>1 DEF NoTicks, Reader
<1>3. \A i \in 1..n, x \in Reader :
        /\ Ticked(x, t[i], i) \in Reader
        /\ step[i][x] = Ticked(x, t[i], i)
  BY <1>1, TickedIs
<1>4. step \in [1..n -> [Reader -> Reader]]
  BY <1>3
<1>5. TickTable(t) = CHOOSE f : Is(f)
  BY DEF TickTable
<1> HIDE DEF n, step
<1>6. PICK f : LoopTable(f, n, Reader, NoTicks, step)
  BY <1>1, <1>2, <1>4, LoopFound
<1>7. /\ f = [i \in 0..n |-> f[i]] /\ f[0] = NoTicks
      /\ \A i \in 1..n : f[i] = step[i][f[i - 1]]
      /\ \A i \in 0..n : f[i] \in Reader
  BY <1>6 DEF LoopTable
<1>8. Is(f)
  <2>1. ASSUME NEW i \in 0..n
        PROVE  f[i] = IF i = 0 THEN [epoch |-> 0, ticks |-> << >>] ELSE Ticked(f[i - 1], t[i], i)
    <3>1. CASE i = 0
      BY <1>7, <3>1 DEF NoTicks
    <3>2. CASE i # 0
      <4>1. i \in 1..n /\ i - 1 \in 0..n
        BY <1>1, <3>2
      <4>2. f[i] = step[i][f[i - 1]] /\ f[i - 1] \in Reader
        BY <1>7, <4>1
      <4> QED
        BY <1>3, <3>2, <4>1, <4>2
    <3> QED
      BY <3>1, <3>2
  <2> QED
    BY <1>7, <2>1
<1> DEFINE g == TickTable(t)
<1>9. Is(g)
  BY <1>5, <1>8
<1> HIDE DEF g
<1>10. /\ g[0] = NoTicks
       /\ \A i \in 1..n : g[i] = Ticked(g[i - 1], t[i], i)
  <2>1. ASSUME NEW i \in 1..n PROVE g[i] = Ticked(g[i - 1], t[i], i)
    BY <1>1, <1>9
  <2> QED
    BY <1>1, <1>9, <2>1 DEF NoTicks
<1>11. \A i \in 1..n : g[i - 1] \in Reader => g[i] \in Reader
  BY <1>3, <1>10
<1>12. \A i \in 0..n : g[i] \in Reader
  BY <1>1, <1>2, <1>10, <1>11, LoopStays
<1> QED
  BY <1>10, <1>12 DEF g, n

(* The replay of a longer tape goes on where the shorter one ended.        *)
LEMMA ReadingOn ==
  ASSUME NEW t, IsTape(t), NEW event \in BookEvent
  PROVE  /\ IsTape(Append(t, event))
         /\ Reading(t) \in Reader
         /\ Reading(Append(t, event)) = Ticked(Reading(t), event, Len(t) + 1)
<1> DEFINE u == Append(t, event)
           f == TickTable(t)
           g == TickTable(u)
<1>1. /\ IsTape(u) /\ Len(t) \in Nat /\ Len(u) = Len(t) + 1 /\ u[Len(t) + 1] = event
      /\ \A i \in 1..Len(t) : u[i] = t[i]
  BY DEF IsTape
<1>2. /\ f[0] = NoTicks /\ \A i \in 1..Len(t) : f[i] = Ticked(f[i - 1], t[i], i)
      /\ \A i \in 0..Len(t) : f[i] \in Reader
  BY TickLoop
<1>3. g[0] = NoTicks /\ \A i \in 1..Len(u) : g[i] = Ticked(g[i - 1], u[i], i)
  BY <1>1, TickLoop
<1> HIDE DEF f, g, u
<1> DEFINE Q == {i \in 0..Len(t) : g[i] = f[i]}
<1>4. 0 \in Q
  BY <1>1, <1>2, <1>3
<1>5. \A i \in 1..Len(t) : i - 1 \in Q => i \in Q
  <2> SUFFICES ASSUME NEW i \in 1..Len(t), g[i - 1] = f[i - 1]
               PROVE  g[i] = f[i]
    BY <1>1
  <2>1. i \in 1..Len(u) /\ u[i] = t[i]
    BY <1>1
  <2> QED
    BY <1>2, <1>3, <2>1
<1> HIDE DEF Q
<1>6. \A i \in 0..Len(t) : i \in Q
  BY <1>1, <1>4, <1>5, CountUp
<1>7. g[Len(t)] = f[Len(t)]
  BY <1>1, <1>6 DEF Q
<1>8. g[Len(t) + 1] = Ticked(g[Len(t)], event, Len(t) + 1)
  <2>1. Len(t) + 1 \in 1..Len(u) /\ (Len(t) + 1) - 1 = Len(t)
    BY <1>1
  <2> QED
    BY <1>1, <1>3, <2>1
<1>9. f[Len(t)] \in Reader
  BY <1>1, <1>2
<1> QED
  BY <1>1, <1>7, <1>8, <1>9 DEF Reading, f, g, u

-----------------------------------------------------------------------------
\* Ticks come in the order of the tape, and no epoch of theirs is ahead.
Ordered(acc, len) ==
  /\ \A i \in 1..Len(acc.ticks) : acc.ticks[i].n \in 1..len /\ acc.ticks[i].epoch <= acc.epoch
  /\ \A i, j \in 1..Len(acc.ticks) : i < j => acc.ticks[i].n < acc.ticks[j].n

InOrder(ticks) == \A i, j \in 1..Len(ticks) : i < j => ticks[i].n < ticks[j].n

\* The ticks that have one before them in their epoch.
Followers(ticks) == {i \in 2..Len(ticks) : ticks[i].epoch = ticks[i - 1].epoch}

(* The batch has a contribution for a follower, and for nothing else.      *)
LEMMA BatchHas ==
  ASSUME NEW ticks \in Seq(Tick), InOrder(ticks), NEW m, NEW i \in Followers(ticks)
  PROVE  At(Batch(ticks, m), ticks[i].n) = Contribution(Quote(ticks[i - 1].book, m), Quote(ticks[i].book, m))
<1> DEFINE c == CHOOSE j \in Followers(ticks) : ticks[j].n = ticks[i].n
<1>1. c \in Followers(ticks) /\ ticks[c].n = ticks[i].n
  BY Zenon
<1>2. /\ c \in 1..Len(ticks) /\ i \in 1..Len(ticks)
      /\ ticks[c].n \in Nat /\ ticks[i].n \in Nat
  <2>1. \A j \in Followers(ticks) : j \in 1..Len(ticks) /\ ticks[j] \in Tick
    BY DEF Followers
  <2> QED
    BY <1>1, <2>1 DEF Tick
<1>3. c = i
  BY <1>1, <1>2 DEF InOrder
<1>4. ticks[i].n \in {ticks[j].n : j \in Followers(ticks)}
  OBVIOUS
<1>5. Batch(ticks, m) = [n \in {ticks[j].n : j \in Followers(ticks)} |->
         LET k == CHOOSE j \in Followers(ticks) : ticks[j].n = n
         IN  Contribution(Quote(ticks[k - 1].book, m), Quote(ticks[k].book, m))]
  BY DEF Batch, Followers
<1> QED
  BY <1>3, <1>4, <1>5 DEF At

LEMMA BatchHasNot ==
  ASSUME NEW ticks, NEW m, NEW n, \A i \in Followers(ticks) : ticks[i].n # n
  PROVE  At(Batch(ticks, m), n) = None
<1>1. DOMAIN Batch(ticks, m) = {ticks[j].n : j \in Followers(ticks)}
  BY DEF Batch, Followers
<1> QED
  BY <1>1 DEF At

(* One more tick adds at most its own contribution.                        *)
LEMMA BatchOn ==
  ASSUME NEW ticks \in Seq(Tick), NEW k \in Tick, InOrder(Append(ticks, k)), NEW m
  PROVE  /\ \A n : n # k.n => At(Batch(Append(ticks, k), m), n) = At(Batch(ticks, m), n)
         /\ At(Batch(Append(ticks, k), m), k.n) =
              IF ticks # << >> /\ ticks[Len(ticks)].epoch = k.epoch
              THEN Contribution(Quote(ticks[Len(ticks)].book, m), Quote(k.book, m))
              ELSE None
<1> DEFINE more == Append(ticks, k)
           last == Len(ticks) + 1
<1>1. /\ more \in Seq(Tick) /\ Len(more) = last /\ Len(ticks) \in Nat /\ more[last] = k
      /\ \A i \in 1..Len(ticks) : more[i] = ticks[i]
      /\ last - 1 = Len(ticks) /\ (ticks # << >> <=> Len(ticks) >= 1)
  OBVIOUS
<1>2. InOrder(more)
  OBVIOUS
<1> HIDE DEF more
<1>3. InOrder(ticks)
  BY <1>1, <1>2 DEF InOrder
<1>4. \A i : i \in Followers(more) <=>
        \/ i \in Followers(ticks)
        \/ i = last /\ ticks # << >> /\ ticks[Len(ticks)].epoch = k.epoch
  <2>1. ASSUME NEW i \in 2..Len(ticks)
        PROVE  more[i] = ticks[i] /\ more[i - 1] = ticks[i - 1]
    BY <1>1
  <2>2. \A i : i \in 2..Len(more) <=> i \in 2..Len(ticks) \/ (i = last /\ ticks # << >>)
    BY <1>1
  <2>3. last \notin 2..Len(ticks) /\ (ticks # << >> => more[last - 1] = ticks[Len(ticks)])
    BY <1>1
  <2> HIDE DEF last
  <2> QED
    BY <1>1, <2>1, <2>2, <2>3 DEF Followers
<1>5. \A i \in Followers(ticks) :
        /\ i \in 1..Len(ticks) /\ i - 1 \in 1..Len(ticks) /\ i < last
        /\ more[i] = ticks[i] /\ more[i - 1] = ticks[i - 1]
        /\ ticks[i].n # k.n
  <2> SUFFICES ASSUME NEW i \in Followers(ticks)
               PROVE  /\ i \in 1..Len(ticks) /\ i - 1 \in 1..Len(ticks) /\ i < last
                      /\ more[i] = ticks[i] /\ more[i - 1] = ticks[i - 1]
                      /\ ticks[i].n # k.n
    OBVIOUS
  <2>1. i \in 1..Len(ticks) /\ i - 1 \in 1..Len(ticks) /\ i < last /\ i \in 1..Len(more) /\ last \in 1..Len(more)
    BY <1>1 DEF Followers
  <2>2. more[i].n < more[last].n
    BY <2>1, <1>2 DEF InOrder
  <2>3. more[i] \in Tick /\ more[last] \in Tick
    BY <2>1, <1>1
  <2>4. more[i].n \in Nat /\ more[last].n \in Nat
    BY <2>3 DEF Tick
  <2> QED
    BY <2>1, <2>2, <2>4, <1>1
<1>6. ASSUME NEW n, n # k.n PROVE At(Batch(more, m), n) = At(Batch(ticks, m), n)
  <2>1. CASE \E i \in Followers(ticks) : ticks[i].n = n
    <3>1. PICK i \in Followers(ticks) : ticks[i].n = n
      BY <2>1
    <3>2. i \in Followers(more) /\ more[i].n = n
      BY <1>4, <1>5, <3>1
    <3> QED
      BY <1>1, <1>2, <1>3, <1>5, <3>1, <3>2, BatchHas
  <2>2. CASE \A i \in Followers(ticks) : ticks[i].n # n
    <3>1. \A i \in Followers(more) : more[i].n # n
      BY <1>1, <1>4, <1>5, <1>6, <2>2
    <3> QED
      BY <2>2, <3>1, BatchHasNot
  <2> QED
    BY <2>1, <2>2
<1>7. At(Batch(more, m), k.n) = IF ticks # << >> /\ ticks[Len(ticks)].epoch = k.epoch
                               THEN Contribution(Quote(ticks[Len(ticks)].book, m), Quote(k.book, m))
                               ELSE None
  <2>1. CASE ticks # << >> /\ ticks[Len(ticks)].epoch = k.epoch
    <3>1. last \in Followers(more) /\ more[last - 1] = ticks[Len(ticks)]
      BY <1>1, <1>4, <2>1
    <3>2. At(Batch(more, m), more[last].n) = Contribution(Quote(more[last - 1].book, m), Quote(more[last].book, m))
      BY <1>1, <1>2, <3>1, BatchHas
    <3> QED
      BY <1>1, <2>1, <3>1, <3>2
  <2>2. CASE ~(ticks # << >> /\ ticks[Len(ticks)].epoch = k.epoch)
    <3>1. \A i \in Followers(more) : more[i].n # k.n
      BY <1>4, <1>5, <2>2
    <3>2. At(Batch(more, m), k.n) = None
      BY <3>1, BatchHasNot
    <3> QED
      BY <2>2, <3>2
  <2> QED
    BY <2>1, <2>2
<1> QED
  BY <1>6, <1>7 DEF more

-----------------------------------------------------------------------------
\* Extremes of sets of numbers.

LEMMA MaxIs ==
  ASSUME NEW S \in SUBSET Int, NEW x \in S, \A y \in S : y <= x
  PROVE  Max(S) = x
<1> DEFINE m == Max(S)
<1>1. m \in S /\ \A y \in S : m >= y
  BY Zenon DEF Max
<1> HIDE DEF m
<1>2. m \in Int /\ x \in Int
  BY <1>1
<1>3. m = x
  BY <1>1, <1>2
<1> QED
  BY <1>3 DEF m

LEMMA MinIs ==
  ASSUME NEW S \in SUBSET Int, NEW x \in S, \A y \in S : x <= y
  PROVE  Min(S) = x
<1> DEFINE m == Min(S)
<1>1. m \in S /\ \A y \in S : m <= y
  BY Zenon DEF Min
<1> HIDE DEF m
<1>2. m \in Int /\ x \in Int
  BY <1>1
<1>3. m = x
  BY <1>1, <1>2
<1> QED
  BY <1>3 DEF m

LEMMA MaxExists ==
  ASSUME NEW S \in SUBSET Nat, S # {}, NEW top \in Nat, \A y \in S : y <= top
  PROVE  Max(S) \in S /\ \A y \in S : y <= Max(S)
<1> DEFINE T == {m \in Nat : top - m \in S}
<1>1. T # {}
  <2>1. PICK y \in S : TRUE
    OBVIOUS
  <2>2. top - y \in T
    BY <2>1
  <2> QED
    BY <2>2
<1>2. PICK x \in T : \A y \in T : x <= y
  BY <1>1, SmallestNat
<1>3. top - x \in S /\ x \in Nat
  BY <1>2
<1>4. ASSUME NEW y \in S PROVE y <= top - x
  <2>1. top - y \in T
    BY <1>4
  <2> QED
    BY <1>2, <1>3, <2>1
<1> HIDE DEF T
<1>5. Max(S) = top - x
  BY <1>3, <1>4, MaxIs
<1> QED
  BY <1>3, <1>4, <1>5

LEMMA MinExists ==
  ASSUME NEW S \in SUBSET Nat, S # {}
  PROVE  Min(S) \in S /\ \A y \in S : Min(S) <= y
<1>1. PICK x \in S : \A y \in S : x <= y
  BY SmallestNat
<1>2. Min(S) = x
  BY <1>1, MinIs
<1> QED
  BY <1>1, <1>2

-----------------------------------------------------------------------------
\* The two OFIs of an event, told from the tape alone.
StreamForm(t, st, n) ==
  st[n].l1 = IF n > 1 /\ Quoted(t, n - 1) /\ Quoted(t, n) THEN Flow(t, n - 1, n) ELSE None

BatchForm(t, batch, n) ==
  At(batch, n) = IF Quoted(t, n) /\ Recent(t, n) # {} THEN Flow(t, Max(Recent(t, n)), n) ELSE None

\* What the accumulator remembers is the quote of the last event, if it has one.
Held(l1, t) ==
  l1 = IF t # << >> /\ Quoted(t, Len(t)) THEN Quote(t[Len(t)].book, 1) ELSE None

\* The last tick is the last quoted event; no snapshot since, and its epoch goes on.
Reaches(last, epoch, t) ==
  /\ last.n \in 1..Len(t) /\ Quoted(t, last.n) /\ last.book = t[last.n].book
  /\ \A j \in (last.n + 1)..Len(t) : ~Quoted(t, j)
  /\ (last.epoch = epoch) <=> (\A j \in (last.n + 1)..Len(t) : t[j].kind # "snapshot")

Furthest(read, t) ==
  /\ read.ticks = << >> => \A j \in 1..Len(t) : ~Quoted(t, j)
  /\ read.ticks # << >> => Reaches(read.ticks[Len(read.ticks)], read.epoch, t)

StreamInv ==
  feed = "book" =>
    LET read == Reading(tape)
    IN  /\ Len(streamed) = Len(tape)
        /\ Ordered(read, Len(tape))
        /\ Held(prev.l1, tape)
        /\ Furthest(read, tape)
        /\ \A n \in 1..Len(tape) : /\ StreamForm(tape, streamed, n)
                                   /\ BatchForm(tape, Batch(read.ticks, 1), n)

(* The last quoted event before n is the latest recent one, if any is.     *)
LEMMA LatestRecent ==
  ASSUME NEW t, NEW n \in Nat, NEW last \in 1..(n - 1), Quoted(t, last),
         \A j \in (last + 1)..(n - 1) : ~Quoted(t, j)
  PROVE  /\ (Recent(t, n) # {}) <=> (\A i \in (last + 1)..n : t[i].kind # "snapshot")
         /\ Recent(t, n) # {} => Max(Recent(t, n)) = last
<1>1. \A j \in Recent(t, n) : j \in 1..last
  BY DEF Recent
<1>2. last \in Recent(t, n) <=> \A i \in (last + 1)..n : t[i].kind # "snapshot"
  BY DEF Recent
<1>3. ASSUME NEW j \in Recent(t, n) PROVE last \in Recent(t, n)
  <2>1. j \in 1..last /\ \A i \in (j + 1)..n : t[i].kind # "snapshot"
    BY <1>1 DEF Recent
  <2>2. \A i \in (last + 1)..n : t[i].kind # "snapshot"
    BY <2>1
  <2> QED
    BY <1>2, <2>2
<1>4. last \in Recent(t, n) => Max(Recent(t, n)) = last
  <2>1. Recent(t, n) \in SUBSET Int /\ \A j \in Recent(t, n) : j <= last
    BY <1>1
  <2> QED
    BY <2>1, MaxIs
<1> QED
  BY <1>2, <1>3, <1>4

(* A longer tape tells the same of the events it had.                      *)
LEMMA FormsStay ==
  ASSUME NEW t, NEW more, NEW n \in Nat, n >= 1, \A i \in 1..n : more[i] = t[i]
  PROVE  /\ Quoted(more, n) = Quoted(t, n) /\ Recent(more, n) = Recent(t, n)
         /\ \A j \in 1..n : Quoted(more, j) = Quoted(t, j) /\ Flow(more, j, n) = Flow(t, j, n)
<1>1. \A j \in 1..n : Quoted(more, j) = Quoted(t, j) /\ Flow(more, j, n) = Flow(t, j, n)
  BY DEF Quoted, Flow
<1>2. ASSUME NEW j \in 1..(n - 1)
      PROVE  j \in Recent(more, n) <=> j \in Recent(t, n)
  <2>1. \A i \in (j + 1)..n : more[i] = t[i]
    OBVIOUS
  <2>2. Quoted(more, j) <=> Quoted(t, j)
    BY <1>1
  <2> QED
    BY <2>1, <2>2 DEF Recent
<1> QED
  BY <1>1, <1>2 DEF Recent

(* One more tick, placed behind the others, keeps them in order.           *)
LEMMA OrderedOn ==
  ASSUME NEW acc \in Reader, NEW event \in BookEvent, NEW len \in Nat, Ordered(acc, len)
  PROVE  /\ Ordered(Ticked(acc, event, len + 1), len + 1)
         /\ Ticks1(event) => InOrder(Append(acc.ticks, TickOf(acc, event, len + 1)))
<1> DEFINE more == Ticked(acc, event, len + 1)
           k == TickOf(acc, event, len + 1)
<1>1. /\ more \in Reader /\ k \in Tick /\ more.epoch = k.epoch
      /\ more.ticks = IF Ticks1(event) THEN Append(acc.ticks, k) ELSE acc.ticks
  BY TickedIs
<1>2. acc.ticks \in Seq(Tick) /\ acc.epoch \in Nat /\ more.epoch \in Nat
  BY <1>1 DEF Reader
<1>3. k.n = len + 1 /\ acc.epoch <= k.epoch
  BY <1>2 DEF TickOf
<1> HIDE DEF more, k
<1>4. \A i \in 1..Len(acc.ticks) :
        /\ acc.ticks[i].n \in 1..(len + 1) /\ acc.ticks[i].n < len + 1
        /\ acc.ticks[i].epoch <= more.epoch
  <2> SUFFICES ASSUME NEW i \in 1..Len(acc.ticks)
               PROVE  /\ acc.ticks[i].n \in 1..(len + 1) /\ acc.ticks[i].n < len + 1
                      /\ acc.ticks[i].epoch <= more.epoch
    OBVIOUS
  <2>1. acc.ticks[i] \in Tick
    BY <1>2
  <2>2. acc.ticks[i].epoch \in Nat
    BY <2>1 DEF Tick
  <2>3. acc.ticks[i].n \in 1..len /\ acc.ticks[i].epoch <= acc.epoch
    BY DEF Ordered
  <2> QED
    BY <2>2, <2>3, <1>1, <1>2, <1>3
<1>5. CASE ~Ticks1(event)
  BY <1>1, <1>4, <1>5 DEF Ordered, more, k
<1>6. CASE Ticks1(event)
  <2> DEFINE tk == Append(acc.ticks, k)
  <2>1. /\ Len(acc.ticks) \in Nat /\ Len(tk) = Len(acc.ticks) + 1 /\ tk[Len(acc.ticks) + 1] = k
        /\ \A i \in 1..Len(acc.ticks) : tk[i] = acc.ticks[i]
    BY <1>1, <1>2
  <2>2. more.ticks = tk
    BY <1>1, <1>6
  <2> HIDE DEF tk
  <2>3. \A i \in 1..Len(tk) : tk[i].n \in 1..(len + 1) /\ tk[i].epoch <= more.epoch
    <3>1. \A i \in 1..Len(tk) : i = Len(acc.ticks) + 1 \/ i \in 1..Len(acc.ticks)
      BY <2>1
    <3>2. k.n \in 1..(len + 1) /\ k.epoch <= more.epoch
      <4>1. k.epoch \in Nat
        BY <1>1, <1>2
      <4> QED
        BY <1>1, <1>3, <4>1
    <3> QED
      BY <1>4, <2>1, <3>1, <3>2
  <2>4. \A i, j \in 1..Len(tk) : i < j => tk[i].n < tk[j].n
    <3> SUFFICES ASSUME NEW i \in 1..Len(tk), NEW j \in 1..Len(tk), i < j
                 PROVE  tk[i].n < tk[j].n
      OBVIOUS
    <3>1. i \in 1..Len(acc.ticks) /\ tk[i] = acc.ticks[i]
      BY <2>1
    <3>2. CASE j = Len(acc.ticks) + 1
      BY <1>3, <1>4, <2>1, <3>1, <3>2
    <3>3. CASE j \in 1..Len(acc.ticks)
      BY <2>1, <3>1, <3>3 DEF Ordered
    <3> QED
      BY <2>1, <3>2, <3>3
  <2> QED
    BY <2>2, <2>3, <2>4 DEF Ordered, InOrder, more, k, tk
<1> QED
  BY <1>5, <1>6

(* The ticks of an ordered reading lie on the tape, so the batch has no    *)
(* contribution past its end.                                              *)
LEMMA NothingAhead ==
  ASSUME NEW acc \in Reader, NEW len \in Nat, Ordered(acc, len), NEW m
  PROVE  At(Batch(acc.ticks, m), len + 1) = None
<1>1. acc.ticks \in Seq(Tick)
  BY DEF Reader
<1>2. ASSUME NEW i \in Followers(acc.ticks) PROVE acc.ticks[i].n # len + 1
  <2>1. i \in 1..Len(acc.ticks)
    BY <1>1 DEF Followers
  <2>2. acc.ticks[i].n \in 1..len
    BY <2>1 DEF Ordered
  <2> QED
    BY <2>2
<1> QED
  BY <1>2, BatchHasNot

(* A book event keeps the two series beside each other.                    *)
LEMMA StreamObserved ==
  ASSUME FlowInv, StreamInv, feed = "book",
         NEW kind \in {"snapshot", "depth", "gap"}, NEW b \in Books, NEW ts \in Int,
         NEW isSynced \in BOOLEAN, Observe(kind, b, ts, isSynced),
         isSynced <=> kind # "gap"
  PROVE  StreamInv'
<1> DEFINE event == [kind |-> kind, book |-> b, ts |-> ts]
           len == Len(tape)
           read == Reading(tape)
           more == Reading(tape')
           k == TickOf(read, event, len + 1)
           l1 == ObserveL1(prev.l1, b, isSynced)
           lm == ObserveLm(prev.lm, b, isSynced)
           r  == [l1 |-> l1.e, lm |-> lm.e]
           last == read.ticks[Len(read.ticks)]
<1>1. /\ tape' = Append(tape, event) /\ feed' = feed /\ synced' = isSynced
      /\ prev' = [l1 |-> l1.prev, lm |-> lm.prev] /\ streamed' = Append(streamed, r)
  BY DEF Observe
<1>2. event \in BookEvent /\ IsTape(tape) /\ len \in Nat /\ streamed \in Seq(Result)
  BY DEF BookEvent, IsTape, FlowInv
<1>3. read \in Reader /\ more = Ticked(read, event, len + 1)
  BY <1>1, <1>2, ReadingOn
<1>4. /\ Len(streamed) = len /\ Ordered(read, len) /\ Held(prev.l1, tape)
      /\ read.ticks = << >> => \A j \in 1..len : ~Quoted(tape, j)
      /\ read.ticks # << >> => Reaches(last, read.epoch, tape)
      /\ \A n \in 1..len : StreamForm(tape, streamed, n) /\ BatchForm(tape, Batch(read.ticks, 1), n)
  BY DEF StreamInv, Furthest
<1>5. /\ more \in Reader /\ k \in Tick /\ more.epoch = k.epoch
      /\ more.ticks = IF Ticks1(event) THEN Append(read.ticks, k) ELSE read.ticks
  <2>1. len + 1 \in Nat
    BY <1>2
  <2> HIDE DEF event, read, len
  <2> QED
    BY <1>2, <1>3, <2>1, TickedIs
<1>6. Ordered(more, len + 1) /\ (Ticks1(event) => InOrder(Append(read.ticks, k)))
  BY <1>2, <1>3, <1>4, OrderedOn
<1>7. /\ Len(tape') = len + 1 /\ tape'[len + 1] = event
      /\ \A n \in 1..len : tape'[n] = tape[n]
      /\ Len(streamed') = len + 1 /\ streamed'[len + 1] = r
      /\ \A n \in 1..len : streamed'[n] = streamed[n]
  <2>1. r \in Result
    BY ObservedAlike DEF FlowInv, Result
  <2> HIDE DEF r, event
  <2> QED
    BY <1>1, <1>2, <1>4, <2>1 DEF IsTape
<1>8. /\ Ticks1(event) <=> isSynced /\ ValidL1(b)
      /\ l1 = IF isSynced /\ ValidL1(b)
              THEN [prev |-> Quote(b, 1),
                    e |-> IF prev.l1 = None THEN None ELSE Contribution(prev.l1, Quote(b, 1))]
              ELSE [prev |-> None, e |-> None]
  BY DEF Ticks1, ObserveL1, Skipped
<1>9. Quote(b, 1) # None
  BY QuoteType, ImbalanceAssumption, MetricsAssumption
<1>10. read.ticks \in Seq(Tick) /\ read.epoch \in Nat
  BY <1>3 DEF Reader
<1>11. /\ k.n = len + 1 /\ k.book = b
       /\ k.epoch = IF kind = "snapshot" /\ read.ticks # << >> THEN read.epoch + 1 ELSE read.epoch
  BY DEF TickOf
<1>12. /\ event.kind = kind /\ event.book = b /\ r.l1 = l1.e
       /\ prev'.l1 = l1.prev
  BY <1>1
<1>13. At(Batch(read.ticks, 1), len + 1) = None
  BY <1>2, <1>3, <1>4, NothingAhead
<1> HIDE DEF event, len, read, more, k, r, last
<1>14. \A n \in 1..len : At(Batch(more.ticks, 1), n) = At(Batch(read.ticks, 1), n)
  <2>1. CASE Ticks1(event)
    BY <1>2, <1>5, <1>6, <1>10, <1>11, <2>1, BatchOn
  <2>2. CASE ~Ticks1(event)
    BY <1>5, <2>2
  <2> QED
    BY <2>1, <2>2
<1>15. At(Batch(more.ticks, 1), len + 1) =
         IF Ticks1(event) /\ read.ticks # << >> /\ last.epoch = k.epoch
         THEN Contribution(Quote(last.book, 1), Quote(b, 1)) ELSE None
  <2>1. CASE Ticks1(event)
    <3>1. At(Batch(Append(read.ticks, k), 1), k.n) =
            IF read.ticks # << >> /\ last.epoch = k.epoch
            THEN Contribution(Quote(last.book, 1), Quote(k.book, 1)) ELSE None
      BY <1>5, <1>6, <1>10, <2>1, BatchOn DEF last
    <3> QED
      BY <1>5, <1>11, <2>1, <3>1
  <2>2. CASE ~Ticks1(event)
    BY <1>5, <1>13, <2>2
  <2> QED
    BY <2>1, <2>2
<1>16. /\ Quoted(tape', len + 1) <=> Ticks1(event)
       /\ len >= 1 => (Quoted(tape', len) <=> Quoted(tape, len))
       /\ \A j \in 1..len : Quoted(tape', j) <=> Quoted(tape, j)
       /\ \A j \in 1..len : Flow(tape', j, len + 1) = Contribution(Quote(tape[j].book, 1), Quote(b, 1))
       /\ tape # << >> <=> len >= 1
  BY <1>2, <1>7, <1>12 DEF Quoted, Flow, Ticks1, IsTape, len
<1>17. StreamForm(tape', streamed', len + 1)
  <2>1. streamed'[len + 1].l1 = l1.e
    BY <1>7, <1>12
  <2>2. prev.l1 = IF len >= 1 /\ Quoted(tape, len) THEN Quote(tape[len].book, 1) ELSE None
    BY <1>4, <1>16 DEF Held, len
  <2>3. len >= 1 => Quote(tape[len].book, 1) # None
    <3>1. len >= 1 => tape[len] \in BookEvent
      BY <1>2 DEF IsTape, len
    <3>2. len >= 1 => tape[len].book \in Books
      BY <3>1 DEF BookEvent
    <3>3. 1 \in 1..Levels /\ None \notin Quotes
      BY ImbalanceAssumption, MetricsAssumption
    <3>4. \A book \in Books : Quote(book, 1) \in Quotes
      BY <3>3, QuoteType
    <3> QED
      BY <3>2, <3>3, <3>4
  <2>4. l1.e = IF Ticks1(event) /\ prev.l1 # None THEN Contribution(prev.l1, Quote(b, 1)) ELSE None
    BY <1>8
  <2>5. (len + 1) - 1 = len /\ (len + 1 > 1 <=> len >= 1) /\ (len >= 1 => len \in 1..len)
    BY <1>2
  <2> HIDE DEF l1
  <2>6. CASE len >= 1 /\ Quoted(tape, len)
    BY <1>16, <2>1, <2>2, <2>3, <2>4, <2>5, <2>6 DEF StreamForm
  <2>7. CASE ~(len >= 1 /\ Quoted(tape, len))
    BY <1>16, <2>1, <2>2, <2>4, <2>5, <2>7 DEF StreamForm
  <2> QED
    BY <2>6, <2>7
<1>18. BatchForm(tape', Batch(more.ticks, 1), len + 1)
  <2>0. len + 1 \in Nat /\ (len + 1) - 1 = len
    BY <1>2
  <2>1. CASE read.ticks = << >>
    <3>1. \A j \in 1..len : ~Quoted(tape', j)
      BY <1>4, <1>16, <2>1
    <3>2. Recent(tape', len + 1) = {}
      BY <2>0, <3>1 DEF Recent
    <3> QED
      BY <1>15, <2>1, <3>2 DEF BatchForm
  <2>2. CASE read.ticks # << >>
    <3> DEFINE at == last.n
    <3>1. /\ at \in 1..len /\ Quoted(tape, at) /\ last.book = tape[at].book
          /\ \A j \in (at + 1)..len : ~Quoted(tape, j)
          /\ (last.epoch = read.epoch) <=> (\A j \in (at + 1)..len : tape[j].kind # "snapshot")
      BY <1>4, <2>2 DEF Reaches, len
    <3>2. last \in Tick /\ last.epoch <= read.epoch
      BY <1>4, <1>10, <2>2 DEF Ordered, last
    <3> HIDE DEF at
    <3>3. (last.epoch = k.epoch) <=> (last.epoch = read.epoch /\ kind # "snapshot")
      BY <1>10, <1>11, <2>2, <3>2 DEF Tick
    <3>4. \A j \in (at + 1)..len : tape'[j] = tape[j]
      BY <1>2, <1>7, <3>1
    <3>5. (last.epoch = k.epoch) <=> (\A j \in (at + 1)..(len + 1) : tape'[j].kind # "snapshot")
      <4>1. \A j : j \in (at + 1)..(len + 1) <=> j \in (at + 1)..len \/ j = len + 1
        BY <1>2, <3>1
      <4>2. tape'[len + 1].kind = kind
        BY <1>7, <1>12
      <4> QED
        BY <3>1, <3>3, <3>4, <4>1, <4>2
    <3>6. at \in 1..((len + 1) - 1) /\ Quoted(tape', at)
          /\ \A j \in (at + 1)..((len + 1) - 1) : ~Quoted(tape', j)
      BY <1>2, <1>16, <3>1
    <3>7. /\ (Recent(tape', len + 1) # {}) <=> (last.epoch = k.epoch)
          /\ Recent(tape', len + 1) # {} => Max(Recent(tape', len + 1)) = at
      BY <2>0, <3>5, <3>6, LatestRecent
    <3>8. Flow(tape', at, len + 1) = Contribution(Quote(last.book, 1), Quote(b, 1))
      BY <1>16, <3>1
    <3> QED
      BY <1>15, <1>16, <2>2, <3>7, <3>8 DEF BatchForm
  <2> QED
    BY <2>1, <2>2
<1>19. ASSUME NEW n \in 1..len
       PROVE  StreamForm(tape', streamed', n) /\ BatchForm(tape', Batch(more.ticks, 1), n)
  <2>1. n \in Nat /\ n >= 1 /\ (n > 1 => n - 1 \in 1..n) /\ \A i \in 1..n : tape'[i] = tape[i]
    BY <1>2, <1>7
  <2>2. /\ Quoted(tape', n) = Quoted(tape, n) /\ Recent(tape', n) = Recent(tape, n)
        /\ \A j \in 1..n : Quoted(tape', j) = Quoted(tape, j) /\ Flow(tape', j, n) = Flow(tape, j, n)
    BY <2>1, FormsStay
  <2>3. StreamForm(tape, streamed, n) /\ BatchForm(tape, Batch(read.ticks, 1), n)
    BY <1>4
  <2>4. streamed'[n] = streamed[n]
    BY <1>7
  <2>5. StreamForm(tape', streamed', n)
    BY <2>1, <2>2, <2>3, <2>4 DEF StreamForm
  <2>6. Recent(tape, n) # {} => Max(Recent(tape, n)) \in 1..n
    <3>1. Recent(tape, n) \in SUBSET Nat /\ \A y \in Recent(tape, n) : y \in 1..n
      BY <2>1 DEF Recent
    <3>2. \A y \in Recent(tape, n) : y <= n
      BY <2>1, <3>1
    <3>3. ASSUME Recent(tape, n) # {} PROVE Max(Recent(tape, n)) \in Recent(tape, n)
      <4> DEFINE S == Recent(tape, n)
      <4> HIDE DEF S
      <4>1. S \in SUBSET Nat /\ S # {} /\ n \in Nat /\ \A y \in S : y <= n
        BY <2>1, <3>1, <3>2, <3>3 DEF S
      <4>2. Max(S) \in S
        BY <4>1, MaxExists
      <4> QED
        BY <4>2 DEF S
    <3> QED
      BY <3>1, <3>3
  <2>7. At(Batch(more.ticks, 1), n) = At(Batch(read.ticks, 1), n)
    BY <1>14
  <2>8. BatchForm(tape', Batch(more.ticks, 1), n)
    BY <2>2, <2>3, <2>6, <2>7 DEF BatchForm
  <2> QED
    BY <2>5, <2>8
<1>20. Held(prev'.l1, tape')
  <2>1. tape' # << >> /\ Len(tape') = len + 1 /\ tape'[len + 1].book = b
    BY <1>1, <1>2, <1>7, <1>12 DEF len
  <2>2. prev'.l1 = IF Ticks1(event) THEN Quote(b, 1) ELSE None
    BY <1>8, <1>12
  <2> QED
    BY <1>16, <2>1, <2>2 DEF Held
<1>21. Furthest(more, tape')
  <2>1. CASE Ticks1(event)
    <3>1. more.ticks = Append(read.ticks, k) /\ more.ticks # << >> /\ more.ticks[Len(more.ticks)] = k
      BY <1>5, <1>10, <2>1
    <3>2. Quoted(tape', k.n) /\ k.book = tape'[k.n].book /\ k.n \in 1..(len + 1)
      BY <1>2, <1>7, <1>11, <1>12, <1>16, <2>1
    <3>3. (k.n + 1)..(len + 1) = {}
      BY <1>2, <1>11
    <3>4. Reaches(k, more.epoch, tape')
      BY <1>5, <1>7, <3>2, <3>3 DEF Reaches
    <3> QED
      BY <3>1, <3>4 DEF Furthest
  <2>2. CASE ~Ticks1(event)
    <3>1. more.ticks = read.ticks /\ ~Quoted(tape', len + 1)
      BY <1>5, <1>16, <2>2
    <3>2. CASE read.ticks = << >>
      <4>1. \A j \in 1..(len + 1) : ~Quoted(tape', j)
        <5>1. \A j \in 1..(len + 1) : j \in 1..len \/ j = len + 1
          BY <1>2
        <5> QED
          BY <1>4, <1>16, <3>1, <3>2, <5>1
      <4> QED
        BY <1>7, <3>1, <3>2, <4>1 DEF Furthest
    <3>3. CASE read.ticks # << >>
      <4> DEFINE at == last.n
      <4>1. /\ at \in 1..len /\ Quoted(tape, at) /\ last.book = tape[at].book
            /\ \A j \in (at + 1)..len : ~Quoted(tape, j)
            /\ (last.epoch = read.epoch) <=> (\A j \in (at + 1)..len : tape[j].kind # "snapshot")
        BY <1>4, <3>3 DEF Reaches, len
      <4>2. last \in Tick /\ last.epoch <= read.epoch
        BY <1>4, <1>10, <3>3 DEF Ordered, last
      <4> HIDE DEF at
      <4>3. (last.epoch = more.epoch) <=> (last.epoch = read.epoch /\ kind # "snapshot")
        BY <1>5, <1>10, <1>11, <3>3, <4>2 DEF Tick
      <4>4. \A j : j \in (at + 1)..(len + 1) <=> j \in (at + 1)..len \/ j = len + 1
        BY <1>2, <4>1
      <4>5. tape'[len + 1].kind = kind /\ (\A j \in (at + 1)..len : tape'[j] = tape[j])
            /\ tape'[at] = tape[at]
        BY <1>2, <1>7, <1>12, <4>1
      <4>6. (last.epoch = more.epoch) <=> (\A j \in (at + 1)..(len + 1) : tape'[j].kind # "snapshot")
        BY <4>1, <4>3, <4>4, <4>5
      <4>7. at \in 1..(len + 1) /\ Quoted(tape', at)
            /\ \A j \in (at + 1)..(len + 1) : ~Quoted(tape', j)
        <5>1. \A j \in (at + 1)..len : j \in 1..len
          BY <1>2, <4>1
        <5> QED
          BY <1>2, <1>16, <3>1, <4>1, <4>4, <5>1
      <4>8. Reaches(last, more.epoch, tape')
        BY <1>7, <4>1, <4>5, <4>6, <4>7 DEF Reaches, at
      <4> QED
        BY <3>1, <3>3, <4>8 DEF Furthest, last
    <3> QED
      BY <3>2, <3>3
  <2> QED
    BY <2>1, <2>2
<1>22. ASSUME NEW n \in 1..(len + 1)
       PROVE  StreamForm(tape', streamed', n) /\ BatchForm(tape', Batch(more.ticks, 1), n)
  <2>1. n \in 1..len \/ n = len + 1
    BY <1>2
  <2> QED
    BY <1>17, <1>18, <1>19, <2>1
<1> QED
  BY <1>6, <1>7, <1>20, <1>21, <1>22 DEF StreamInv, more

LEMMA StreamInvInitially == Init => StreamInv
<1> SUFFICES ASSUME Init PROVE StreamInv
  OBVIOUS
<1>1. tape = << >> /\ streamed = << >> /\ prev.l1 = None
  BY DEF Init
<1>2. IsTape(tape)
  BY <1>1 DEF IsTape
<1>3. Reading(tape) = NoTicks
  BY <1>1, <1>2, TickLoop DEF Reading
<1>4. Ordered(NoTicks, 0)
  BY DEF Ordered, NoTicks
<1> QED
  BY <1>1, <1>3, <1>4 DEF StreamInv, Held, Furthest, NoTicks

LEMMA StreamInvStep == FlowInv /\ StreamInv /\ [Next]_vars => StreamInv'
<1> SUFFICES ASSUME FlowInv, StreamInv, [Next]_vars
              PROVE  StreamInv'
  OBVIOUS
<1>1. \A ts \in Later : feed = "book" => ts \in Int
  BY LaterIsATime
<1>2. CASE SnapshotSeen
  BY <1>1, <1>2, StreamObserved DEF SnapshotSeen, BookFeed
<1>3. CASE DiffApplied
  BY <1>1, <1>3, StreamObserved DEF DiffApplied, BookFeed
<1>4. CASE GapSeen
  <2>1. feed = "book" /\ tape # << >>
    BY <1>4 DEF GapSeen, BookFeed
  <2>2. Last(tape) \in BookEvent
    BY <2>1 DEF FlowInv, Last
  <2>. QED
    BY <1>4, <2>1, <2>2, StreamObserved DEF GapSeen, BookEvent
<1>5. CASE TradeSeen
  BY <1>5 DEF TradeSeen, StreamInv, Classes
<1>6. CASE UNCHANGED vars
  BY <1>6 DEF vars, StreamInv
<1>. QED
  BY <1>2, <1>3, <1>4, <1>5, <1>6 DEF Next

(* For every set of books and every order of snapshots, diffs and gaps,    *)
(* the OFI of the accumulator is that of the replayed tape, event by event,*)
(* but in the two cases the property names, and what the two are in these  *)
(* (stream.py, observe_book; batch.py, ofi_events_from_capture).           *)
THEOREM StreamMatchesTape == Spec => []StreamAgainstBatch
<1>1. FlowInv /\ StreamInv => StreamAgainstBatch
  <2> SUFFICES ASSUME FlowInv, StreamInv, feed = "book", NEW n \in 1..Len(tape)
               PROVE  LET batch == Batch(Ticks(tape), 1)
                          uncut == /\ n > 1 /\ tape[n].kind = "snapshot"
                                   /\ Quoted(tape, n - 1) /\ Quoted(tape, n)
                          bridged == /\ n > 1 /\ tape[n].kind = "depth"
                                     /\ ~Quoted(tape, n - 1) /\ Quoted(tape, n)
                                     /\ Recent(tape, n) # {}
                      IN  /\ uncut => /\ streamed[n].l1 = Flow(tape, n - 1, n)
                                      /\ At(batch, n) = None
                          /\ bridged => /\ streamed[n].l1 = None
                                        /\ At(batch, n) = Flow(tape, Max(Recent(tape, n)), n)
                          /\ ~uncut /\ ~bridged => streamed[n].l1 = At(batch, n)
    <3>1. feed = "book" => DOMAIN tape = 1..Len(tape)
      BY DEF FlowInv
    <3> QED
      BY <3>1 DEF StreamAgainstBatch, OnBook, BatchL1
  <2>1. Ticks(tape) = Reading(tape).ticks
    BY DEF Ticks, Reading
  <2>2. StreamForm(tape, streamed, n) /\ BatchForm(tape, Batch(Ticks(tape), 1), n)
    BY <2>1 DEF StreamInv
  <2>3. tape \in Seq(BookEvent) /\ tape[n] \in BookEvent
    BY DEF FlowInv
  <2>4. tape[n].kind \in {"snapshot", "depth", "gap"} /\ n \in Nat /\ n >= 1
    BY <2>3 DEF BookEvent
  <2>5. CASE tape[n].kind = "snapshot"
    <3>1. Recent(tape, n) = {}
      BY <2>4, <2>5 DEF Recent
    <3> QED
      BY <2>2, <2>5, <3>1 DEF StreamForm, BatchForm
  <2>6. CASE tape[n].kind = "depth" /\ n > 1 /\ Quoted(tape, n - 1)
    <3>1. n - 1 \in 1..(n - 1) /\ \A j \in ((n - 1) + 1)..(n - 1) : ~Quoted(tape, j)
      BY <2>4, <2>6
    <3>2. \A i \in ((n - 1) + 1)..n : tape[i].kind # "snapshot"
      <4>1. \A i \in ((n - 1) + 1)..n : i = n
        BY <2>4
      <4> QED
        BY <2>6, <4>1
    <3>3. Recent(tape, n) # {} /\ Max(Recent(tape, n)) = n - 1
      BY <2>4, <2>6, <3>1, <3>2, LatestRecent
    <3> QED
      BY <2>2, <2>6, <3>3 DEF StreamForm, BatchForm
  <2>7. CASE tape[n].kind = "depth" /\ ~(n > 1 /\ Quoted(tape, n - 1))
    <3>1. ~(n > 1) => Recent(tape, n) = {}
      BY <2>4 DEF Recent
    <3> QED
      BY <2>2, <2>7, <3>1 DEF StreamForm, BatchForm
  <2>8. CASE tape[n].kind = "gap"
    <3>1. ~Quoted(tape, n)
      BY <2>8 DEF Quoted
    <3> QED
      BY <2>2, <2>8, <3>1 DEF StreamForm, BatchForm
  <2> QED
    BY <2>4, <2>5, <2>6, <2>7, <2>8
<1>. QED
  BY <1>1, FlowInvInitially, FlowInvStep, StreamInvInitially, StreamInvStep, PTL DEF Spec

-----------------------------------------------------------------------------
\* A tick is an event of the tape at its place; stamps and epochs ascend.
Ascends(t) == \A i, j \in 1..Len(t) : i <= j => t[i].ts <= t[j].ts

EpochsAscend(ticks) == \A i, j \in 1..Len(ticks) : i <= j => ticks[i].epoch <= ticks[j].epoch

Placed(ticks, t) ==
  \A i \in 1..Len(ticks) : /\ ticks[i].n \in 1..Len(t)
                           /\ ticks[i].ts = t[ticks[i].n].ts
                           /\ ticks[i].book = t[ticks[i].n].book
                           /\ ValidL1(ticks[i].book)

TickInv ==
  feed = "book" =>
    /\ Ascends(tape)
    /\ EpochsAscend(Reading(tape).ticks) /\ Placed(Reading(tape).ticks, tape)

LEMMA TickObserved ==
  ASSUME FlowInv, StreamInv, TickInv, feed = "book", NEW event \in BookEvent,
         tape' = Append(tape, event), feed' = feed,
         tape # << >> => tape[Len(tape)].ts <= event.ts
  PROVE  TickInv'
<1> DEFINE len == Len(tape)
           read == Reading(tape)
           more == Reading(tape')
           k == TickOf(read, event, len + 1)
<1>1. IsTape(tape) /\ len \in Nat /\ len + 1 \in Nat
  BY DEF IsTape, FlowInv
<1>2. read \in Reader /\ more = Ticked(read, event, len + 1)
  BY <1>1, ReadingOn
<1>3. /\ Ascends(tape) /\ EpochsAscend(read.ticks) /\ Placed(read.ticks, tape) /\ Ordered(read, len)
  BY DEF TickInv, StreamInv
<1>4. /\ k \in Tick
      /\ more.ticks = IF Ticks1(event) THEN Append(read.ticks, k) ELSE read.ticks
  <2> HIDE DEF read, len
  <2> QED
    BY <1>1, <1>2, TickedIs
<1>5. /\ Len(tape') = len + 1 /\ tape'[len + 1] = event
      /\ \A n \in 1..len : tape'[n] = tape[n] /\ tape[n] \in BookEvent
      /\ tape # << >> <=> len >= 1
  BY <1>1 DEF IsTape
<1>6. /\ k.n = len + 1 /\ k.book = event.book /\ k.ts = event.ts
      /\ read.ticks \in Seq(Tick) /\ read.epoch \in Nat /\ read.epoch <= k.epoch
  BY <1>2 DEF TickOf, Reader
<1> HIDE DEF len, read, more, k
<1>7. Ascends(tape')
  <2> SUFFICES ASSUME NEW i \in 1..(len + 1), NEW j \in 1..(len + 1), i <= j
               PROVE  tape'[i].ts <= tape'[j].ts
    BY <1>5 DEF Ascends
  <2>1. CASE i \in 1..len /\ j \in 1..len
    BY <1>3, <1>5, <2>1 DEF Ascends, len
  <2>2. CASE i \in 1..len /\ j = len + 1
    <3>1. tape[i].ts <= tape[len].ts /\ tape[i].ts \in Int /\ tape[len].ts \in Int
      BY <1>1, <1>3, <1>5, <2>2 DEF Ascends, len, BookEvent
    <3>2. tape[len].ts <= event.ts /\ event.ts \in Int
      BY <1>1, <1>5, <2>2 DEF len, BookEvent
    <3> QED
      BY <1>5, <2>2, <3>1, <3>2
  <2>3. CASE i = len + 1 /\ j = len + 1
    <3>1. event.ts \in Int
      BY DEF BookEvent
    <3> QED
      BY <1>5, <2>3, <3>1
  <2>4. \/ i \in 1..len /\ j \in 1..len
        \/ i \in 1..len /\ j = len + 1
        \/ i = len + 1 /\ j = len + 1
    BY <1>1
  <2> HIDE DEF Ascends
  <2> QED
    BY <2>1, <2>2, <2>3, <2>4
<1>8. CASE ~Ticks1(event)
  <2>1. Placed(more.ticks, tape')
    BY <1>1, <1>3, <1>4, <1>5, <1>8 DEF Placed, len
  <2> QED
    BY <1>3, <1>4, <1>7, <1>8, <2>1 DEF TickInv, more
<1>9. CASE Ticks1(event)
  <2> DEFINE tk == Append(read.ticks, k)
  <2>1. /\ Len(read.ticks) \in Nat /\ Len(tk) = Len(read.ticks) + 1 /\ tk[Len(read.ticks) + 1] = k
        /\ \A i \in 1..Len(read.ticks) : tk[i] = read.ticks[i]
    BY <1>4, <1>6
  <2>2. more.ticks = tk
    BY <1>4, <1>9
  <2> HIDE DEF tk
  <2>3. \A i \in 1..Len(tk) : i = Len(read.ticks) + 1 \/ i \in 1..Len(read.ticks)
    BY <2>1
  <2>4. Placed(tk, tape')
    <3> SUFFICES ASSUME NEW i \in 1..Len(tk)
                 PROVE  /\ tk[i].n \in 1..(len + 1) /\ tk[i].ts = tape'[tk[i].n].ts
                        /\ tk[i].book = tape'[tk[i].n].book /\ ValidL1(tk[i].book)
      BY <1>5 DEF Placed
    <3>1. CASE i = Len(read.ticks) + 1
      BY <1>1, <1>5, <1>6, <1>9, <2>1, <3>1 DEF Ticks1
    <3>2. CASE i \in 1..Len(read.ticks)
      <4>1. tk[i] = read.ticks[i] /\ tk[i].n \in 1..len
        BY <1>3, <2>1, <3>2 DEF Placed, len
      <4> QED
        BY <1>1, <1>3, <1>5, <3>2, <4>1 DEF Placed
    <3> QED
      BY <2>3, <3>1, <3>2
  <2>5. EpochsAscend(tk)
    <3> SUFFICES ASSUME NEW i \in 1..Len(tk), NEW j \in 1..Len(tk), i <= j
                 PROVE  tk[i].epoch <= tk[j].epoch
      BY DEF EpochsAscend
    <3>1. CASE j \in 1..Len(read.ticks)
      <4>1. i \in 1..Len(read.ticks)
        BY <2>1, <3>1
      <4> QED
        BY <1>3, <2>1, <3>1, <4>1 DEF EpochsAscend
    <3>2. CASE j = Len(read.ticks) + 1
      <4>1. CASE i = Len(read.ticks) + 1
        <5>1. k.epoch \in Nat
          BY <1>4 DEF Tick
        <5> QED
          BY <2>1, <3>2, <4>1, <5>1
      <4>2. CASE i \in 1..Len(read.ticks)
        <5>1. read.ticks[i] \in Tick /\ read.ticks[i].epoch <= read.epoch
          BY <1>3, <1>6, <4>2 DEF Ordered
        <5>2. read.ticks[i].epoch \in Nat /\ k.epoch \in Nat
          BY <1>4, <5>1 DEF Tick
        <5> QED
          BY <1>6, <2>1, <3>2, <4>2, <5>1, <5>2
      <4> QED
        BY <2>3, <4>1, <4>2
    <3> QED
      BY <2>3, <3>1, <3>2
  <2> QED
    BY <1>7, <2>2, <2>4, <2>5 DEF TickInv, more
<1> QED
  BY <1>8, <1>9

LEMMA TickInvInitially == Init => TickInv
<1> SUFFICES ASSUME Init PROVE TickInv
  OBVIOUS
<1>1. tape = << >> /\ IsTape(tape)
  BY DEF Init, IsTape
<1>2. Reading(tape).ticks = << >>
  BY <1>1, TickLoop DEF Reading, NoTicks
<1> QED
  BY <1>1, <1>2 DEF TickInv, Ascends, EpochsAscend, Placed

LEMMA TickInvStep == FlowInv /\ StreamInv /\ TickInv /\ [Next]_vars => TickInv'
<1> SUFFICES ASSUME FlowInv, StreamInv, TickInv, [Next]_vars
              PROVE  TickInv'
  OBVIOUS
<1>0. ASSUME feed = "book", tape # << >> 
      PROVE  Last(tape) = tape[Len(tape)] /\ Last(tape) \in BookEvent /\ Last(tape).ts \in Int
  <2>1. tape \in Seq(BookEvent) /\ tape # << >>
    BY <1>0 DEF FlowInv
  <2>2. Last(tape) = tape[Len(tape)] /\ Last(tape) \in BookEvent
    BY <2>1 DEF Last
  <2> QED
    BY <2>2 DEF BookEvent
<1>1. ASSUME NEW ts \in Later, feed = "book"
      PROVE  ts \in Int /\ (tape # << >> => tape[Len(tape)].ts <= ts)
  <2>1. PICK step \in Steps : ts = (IF tape = << >> THEN Window - 1 ELSE Last(tape).ts) + step
    BY <1>1 DEF Later
  <2>2. step \in Nat
    BY MetricsAssumption
  <2>3. ts \in Int
    BY <1>1, LaterIsATime
  <2> QED
    BY <1>0, <1>1, <2>1, <2>2, <2>3
<1>2. ASSUME feed = "book", NEW kind \in {"snapshot", "depth"}, NEW b \in Books, NEW ts \in Later,
             Observe(kind, b, ts, TRUE)
      PROVE  TickInv'
  <2>1. [kind |-> kind, book |-> b, ts |-> ts] \in BookEvent
    BY <1>1, <1>2 DEF BookEvent
  <2> QED
    BY <1>1, <1>2, <2>1, TickObserved DEF Observe
<1>3. CASE SnapshotSeen
  BY <1>2, <1>3 DEF SnapshotSeen, BookFeed
<1>4. CASE DiffApplied
  BY <1>2, <1>4 DEF DiffApplied, BookFeed
<1>5. CASE GapSeen
  <2>1. feed = "book" /\ tape # << >>
    BY <1>5 DEF GapSeen, BookFeed
  <2>2. [kind |-> "gap", book |-> Last(tape).book, ts |-> Last(tape).ts] \in BookEvent
    BY <1>0, <2>1 DEF BookEvent
  <2>. QED
    BY <1>0, <1>5, <2>1, <2>2, TickObserved DEF GapSeen, Observe
<1>6. CASE TradeSeen
  BY <1>6 DEF TradeSeen, TickInv, Classes
<1>7. CASE UNCHANGED vars
  BY <1>7 DEF vars, TickInv
<1>. QED
  BY <1>3, <1>4, <1>5, <1>6, <1>7 DEF Next

-----------------------------------------------------------------------------
\* Stamps divided by the window.

Slot(ts) == ts \div Window

LEMMA SlotIs ==
  ASSUME NEW ts \in Int
  PROVE  /\ Slot(ts) \in Int
         /\ Slot(ts) * Window <= ts /\ ts < (Slot(ts) + 1) * Window
<1>1. Window \in Nat \ {0}
  BY ImbalanceAssumption
<1> QED
  BY <1>1 DEF Slot

\* A slot is what starts before the stamp and ends after it.
LEMMA SlotOrder ==
  ASSUME NEW ts \in Int, NEW q \in Int
  PROVE  /\ q <= Slot(ts) <=> q * Window <= ts
         /\ Slot(ts) <= q <=> ts < (q + 1) * Window
<1>1. Window \in Nat \ {0}
  BY ImbalanceAssumption
<1> DEFINE s == Slot(ts)
<1>2. s \in Int /\ s * Window <= ts /\ ts < (s + 1) * Window
  BY SlotIs
<1> HIDE DEF s
<1>3. \A a, b \in Int : a <= b => a * Window <= b * Window
  BY <1>1
<1>4. CASE q <= s
  <2>1. q * Window <= s * Window
    BY <1>2, <1>3, <1>4
  <2>2. q * Window <= ts
    BY <1>1, <1>2, <2>1
  <2>3. q < s => (q + 1) * Window <= ts
    <3>1. q < s => (q + 1) * Window <= s * Window
      BY <1>2, <1>3
    <3> QED
      BY <1>1, <1>2, <3>1
  <2> QED
    BY <1>1, <1>2, <1>4, <2>2, <2>3 DEF s
<1>5. CASE s < q
  <2>1. (s + 1) * Window <= q * Window
    BY <1>2, <1>3, <1>5
  <2>2. ts < q * Window
    BY <1>1, <1>2, <2>1
  <2>3. ts < (q + 1) * Window
    BY <1>1, <2>2
  <2> QED
    BY <1>1, <1>2, <1>5, <2>2, <2>3 DEF s
<1> QED
  BY <1>2, <1>4, <1>5

LEMMA SlotAscends ==
  ASSUME NEW a \in Int, NEW b \in Int, a <= b
  PROVE  Slot(a) <= Slot(b)
<1>1. Window \in Nat \ {0} /\ Slot(a) \in Int /\ Slot(a) * Window <= a
  BY SlotIs, ImbalanceAssumption
<1>2. Slot(a) * Window <= b
  BY <1>1
<1> QED
  BY <1>1, <1>2, SlotOrder

-----------------------------------------------------------------------------
\* The events of the time bars, in order of stamp and epoch.

TimedEvent == [ts : Int, epoch : Nat, e : Int]

Timed(ev) ==
  /\ ev \in Seq(TimedEvent) /\ ev # << >>
  /\ \A i, j \in 1..Len(ev) : i <= j => ev[i].ts <= ev[j].ts /\ ev[i].epoch <= ev[j].epoch

TicksAscend(ticks) ==
  \A i, j \in 1..Len(ticks) : i <= j => ticks[i].ts <= ticks[j].ts /\ ticks[i].epoch <= ticks[j].epoch

Bar(ev, i) == BarOf(ev, ev[i].ts)

(* The ticks of a replay ascend.                                           *)
LEMMA ReadTicksAscend ==
  ASSUME FlowInv, StreamInv, TickInv, feed = "book"
  PROVE  Ticks(tape) \in Seq(Tick) /\ TicksAscend(Ticks(tape))
<1> DEFINE tk == Ticks(tape)
<1>1. tk = Reading(tape).ticks /\ IsTape(tape)
  BY DEF Ticks, Reading, IsTape, FlowInv
<1>2. Reading(tape) \in Reader
  <2>1. Len(tape) \in 0..Len(tape)
    BY <1>1 DEF IsTape
  <2> QED
    BY <1>1, <2>1, TickLoop DEF Reading
<1>3. /\ tk \in Seq(Tick) /\ EpochsAscend(tk) /\ Placed(tk, tape) /\ Ascends(tape)
      /\ InOrder(tk)
  BY <1>1, <1>2 DEF Reader, TickInv, StreamInv, Ordered, InOrder
<1> HIDE DEF tk
<1>4. ASSUME NEW i \in 1..Len(tk), NEW j \in 1..Len(tk), i <= j PROVE tk[i].ts <= tk[j].ts
  <2>1. tk[i].n <= tk[j].n
    <3>1. tk[i] \in Tick /\ tk[j] \in Tick
      BY <1>3
    <3>2. tk[i].n \in Nat /\ tk[j].n \in Nat
      BY <3>1 DEF Tick
    <3> QED
      BY <1>3, <1>4, <3>2 DEF InOrder
  <2> QED
    BY <1>3, <2>1 DEF Placed, Ascends
<1> QED
  BY <1>3, <1>4 DEF TicksAscend, EpochsAscend, tk

(* The events of ascending ticks: one for each tick but the first.         *)
LEMMA EventsAre ==
  ASSUME NEW ticks \in Seq(Tick), TicksAscend(ticks), NEW m \in 1..Levels
  PROVE  LET ev == Events(ticks, m)
         IN  /\ Len(ticks) <= 1 => ev = << >>
             /\ Len(ticks) > 1 =>
                  /\ Timed(ev) /\ Len(ev) = Len(ticks) - 1
                  /\ \A i \in 1..Len(ev) : ev[i] = Event(ticks[i], ticks[i + 1], m)
<1> DEFINE ev == Events(ticks, m)
           n == Len(ticks) - 1
<1>1. ev = [i \in 1..n |-> Event(ticks[i], ticks[i + 1], m)]
  BY DEF Events
<1>2. Len(ticks) \in Nat /\ n \in Int
  OBVIOUS
<1>3. ASSUME NEW i \in 1..n
      PROVE  /\ Event(ticks[i], ticks[i + 1], m) \in TimedEvent
             /\ Event(ticks[i], ticks[i + 1], m).ts = ticks[i + 1].ts
             /\ Event(ticks[i], ticks[i + 1], m).epoch = ticks[i + 1].epoch
  <2>1. ticks[i] \in Tick /\ ticks[i + 1] \in Tick
    BY <1>2
  <2>2. /\ ticks[i].book \in Books /\ ticks[i + 1].book \in Books
        /\ ticks[i + 1].ts \in Int /\ ticks[i + 1].epoch \in Nat
    BY <2>1 DEF Tick
  <2> DEFINE c == Contribution(Quote(ticks[i].book, m), Quote(ticks[i + 1].book, m))
  <2>3. c \in Int \cup {NaN}
    BY <2>2, QuoteType, ContributionType
  <2> HIDE DEF c
  <2>4. Event(ticks[i], ticks[i + 1], m) =
          [ts |-> ticks[i + 1].ts, epoch |-> ticks[i + 1].epoch,
           e |-> IF ticks[i].epoch # ticks[i + 1].epoch \/ c = NaN THEN 0 ELSE c]
    BY DEF Event, c
  <2> QED
    BY <2>2, <2>3, <2>4 DEF TimedEvent
<1> HIDE DEF ev, n
<1>4. CASE Len(ticks) <= 1
  <2>1. 1..n = {}
    BY <1>2, <1>4 DEF n
  <2>2. ev = << >>
    BY <1>1, <2>1
  <2> QED
    BY <1>2, <1>4, <2>2 DEF ev
<1>5. CASE Len(ticks) > 1
  <2>1. n \in Nat /\ n >= 1
    BY <1>2, <1>5 DEF n
  <2>2. ev \in Seq(TimedEvent) /\ Len(ev) = n /\ ev # << >>
    BY <1>1, <1>3, <2>1, SMTT(30)
  <2>3. \A i \in 1..n : /\ ev[i] = Event(ticks[i], ticks[i + 1], m)
                        /\ ev[i].ts = ticks[i + 1].ts /\ ev[i].epoch = ticks[i + 1].epoch
                        /\ i + 1 \in 1..Len(ticks)
    BY <1>1, <1>2, <1>3 DEF n
  <2>4. \A i, j \in 1..n : i <= j => ev[i].ts <= ev[j].ts /\ ev[i].epoch <= ev[j].epoch
    <3> SUFFICES ASSUME NEW i \in 1..n, NEW j \in 1..n, i <= j
                 PROVE  ev[i].ts <= ev[j].ts /\ ev[i].epoch <= ev[j].epoch
      OBVIOUS
    <3>1. i + 1 <= j + 1 /\ i + 1 \in 1..Len(ticks) /\ j + 1 \in 1..Len(ticks)
      BY <2>1, <2>3
    <3> QED
      BY <2>3, <3>1 DEF TicksAscend
  <2> QED
    BY <1>5, <2>2, <2>3, <2>4 DEF Timed, ev, n
<1> QED
  BY <1>2, <1>4, <1>5

(* Bars are counted from the first event's, and ascend with the events.    *)
LEMMA BarsCount ==
  ASSUME NEW ev, Timed(ev)
  PROVE  /\ FirstBar(ev) = Slot(ev[1].ts)
         /\ Len(ev) \in Nat /\ Len(ev) >= 1
         /\ \A i \in 1..Len(ev) : Bar(ev, i) \in Nat /\ Bar(ev, i) <= Bar(ev, Len(ev))
         /\ Bar(ev, 1) = 0
         /\ \A i, j \in 1..Len(ev) : i <= j => Bar(ev, i) <= Bar(ev, j)
         /\ Bars(ev) = 0..Bar(ev, Len(ev))
<1> DEFINE N == Len(ev)
           S == {x.ts : x \in ToSet(ev)}
<1>1. /\ N \in Nat /\ N >= 1 /\ 1 \in 1..N /\ N \in 1..N /\ ev # << >>
      /\ \A i \in 1..N : ev[i] \in TimedEvent
  BY DEF Timed
<1>2. \A i \in 1..N : ev[i].ts \in Int /\ ev[i].epoch \in Nat
  BY <1>1 DEF TimedEvent
<1>3. ToSet(ev) = {ev[i] : i \in 1..N}
  BY DEF ToSet, Timed
<1>4. S \in SUBSET Int /\ ev[1].ts \in S /\ \A y \in S : ev[1].ts <= y
  BY <1>1, <1>2, <1>3 DEF Timed
<1>5. FirstBar(ev) = Slot(ev[1].ts)
  <2> HIDE DEF S
  <2>1. Min(S) = ev[1].ts
    BY <1>4, MinIs
  <2> QED
    BY <2>1 DEF FirstBar, Slot, S
<1>6. \A i \in 1..N : Bar(ev, i) = Slot(ev[i].ts) - Slot(ev[1].ts) /\ Slot(ev[i].ts) \in Int
  BY <1>2, <1>5, SlotIs DEF Bar, BarOf, Slot
<1>7. \A i, j \in 1..N : i <= j => Slot(ev[i].ts) <= Slot(ev[j].ts)
  BY <1>2, SlotAscends DEF Timed
<1>8. /\ \A i \in 1..N : Bar(ev, i) \in Int
      /\ \A i, j \in 1..N : i <= j => Bar(ev, i) <= Bar(ev, j)
      /\ Bar(ev, 1) = 0
  BY <1>1, <1>6, <1>7
<1>9. \A i \in 1..N : Bar(ev, i) \in Nat /\ Bar(ev, i) <= Bar(ev, N)
  BY <1>1, <1>8
<1>10. Bars(ev) = 0..Bar(ev, N)
  <2> DEFINE B == {BarOf(ev, x.ts) : x \in ToSet(ev)}
  <2>1. B = {Bar(ev, i) : i \in 1..N}
    BY <1>3 DEF Bar
  <2>2. B \in SUBSET Int /\ Bar(ev, N) \in B /\ \A y \in B : y <= Bar(ev, N)
    <3> HIDE DEF B, N
    <3>1. \A y \in B : \E i \in 1..N : y = Bar(ev, i)
      BY <2>1
    <3>2. Bar(ev, N) \in B
      BY <1>1, <2>1
    <3>3. \A y \in B : y \in Int /\ y <= Bar(ev, N)
      BY <1>9, <3>1
    <3> QED
      BY <3>2, <3>3
  <2> HIDE DEF B
  <2>3. Max(B) = Bar(ev, N)
    BY <2>2, MaxIs
  <2> QED
    BY <1>1, <2>3 DEF Bars, B
<1> QED
  BY <1>1, <1>5, <1>8, <1>9, <1>10

(* Between two events of different epochs there are two neighbours of      *)
(* different epochs.                                                       *)
LEMMA JumpBetween ==
  ASSUME NEW ev, Timed(ev), NEW i \in 1..Len(ev), NEW j \in 1..Len(ev), i <= j,
         \A l \in 1..(Len(ev) - 1) : i <= l /\ l < j => ev[l].epoch = ev[l + 1].epoch
  PROVE  ev[i].epoch = ev[j].epoch
<1> DEFINE Q == {d \in 0..(j - i) : ev[i + d].epoch = ev[i].epoch}
<1>1. Len(ev) \in Nat /\ i \in Int /\ j \in Int /\ j - i \in Nat
  BY DEF Timed
<1>2. 0 \in Q
  BY <1>1
<1>3. \A d \in 1..(j - i) : d - 1 \in Q => d \in Q
  <2> SUFFICES ASSUME NEW d \in 1..(j - i), d - 1 \in Q
               PROVE  d \in Q
    OBVIOUS
  <2> DEFINE l == i + (d - 1)
  <2>1. l \in 1..(Len(ev) - 1) /\ i <= l /\ l < j /\ l + 1 = i + d /\ d \in 0..(j - i)
    BY <1>1
  <2>2. ev[l].epoch = ev[i].epoch
    OBVIOUS
  <2> HIDE DEF l
  <2>3. ev[l].epoch = ev[l + 1].epoch
    BY <2>1
  <2> QED
    BY <2>1, <2>2, <2>3
<1> HIDE DEF Q
<1>4. \A d \in 0..(j - i) : d \in Q
  BY <1>1, <1>2, <1>3, CountUp
<1>5. j - i \in Q /\ i + (j - i) = j
  BY <1>1, <1>4
<1> QED
  BY <1>5 DEF Q

(* An empty bar has one event before it whose successor is after it.       *)
LEMMA EdgeOfEmpty ==
  ASSUME NEW ev, Timed(ev), NEW k \in Bars(ev), Inside(ev, k) = {}
  PROVE  \E i \in 1..(Len(ev) - 1) : Bar(ev, i) < k /\ k < Bar(ev, i + 1)
<1> DEFINE N == Len(ev)
           Q == {i \in 0..(N - 1) : Bar(ev, i + 1) < k}
<1>1. /\ N \in Nat /\ N >= 1 /\ N - 1 \in Nat /\ k \in 0..Bar(ev, N)
      /\ \A i \in 1..N : Bar(ev, i) \in Nat
      /\ Bar(ev, 1) = 0
  BY BarsCount
<1>2. \A i \in 1..N : Bar(ev, i) # k
  BY DEF Inside, Bar, Timed
<1> HIDE DEF N
<1> SUFFICES ASSUME \A i \in 1..(N - 1) : ~(Bar(ev, i) < k /\ k < Bar(ev, i + 1))
             PROVE  FALSE
  BY DEF N
<1>3. 0 \in Q
  BY <1>1, <1>2
<1>4. \A i \in 1..(N - 1) : i - 1 \in Q => i \in Q
  <2> SUFFICES ASSUME NEW i \in 1..(N - 1), i - 1 \in Q
               PROVE  Bar(ev, i + 1) < k
    BY <1>1
  <2>1. i \in 1..N /\ i + 1 \in 1..N /\ (i - 1) + 1 = i
    BY <1>1
  <2>2. Bar(ev, i) < k /\ Bar(ev, i + 1) \in Nat /\ Bar(ev, i + 1) # k /\ k \in Int
    BY <1>1, <1>2, <2>1
  <2> QED
    BY <2>2
<1> HIDE DEF Q
<1>5. N - 1 \in Q
  BY <1>1, <1>3, <1>4, CountUp
<1>6. (N - 1) + 1 = N
  BY <1>1
<1>7. Bar(ev, N) < k /\ Bar(ev, N) \in Nat
  BY <1>1, <1>5, <1>6 DEF Q
<1> QED
  BY <1>1, <1>7

(* Two such events are one.                                                *)
LEMMA EdgeIsUnique ==
  ASSUME NEW ev, Timed(ev), NEW k \in Bars(ev), NEW i \in 1..(Len(ev) - 1), NEW l \in 1..Len(ev),
         Bar(ev, i) < k, k < Bar(ev, i + 1)
  PROVE  /\ Bar(ev, l) < k <=> l <= i
         /\ k < Bar(ev, l) <=> i + 1 <= l
<1>1. /\ Len(ev) \in Nat /\ \A j \in 1..Len(ev) : Bar(ev, j) \in Nat
      /\ \A j, m \in 1..Len(ev) : j <= m => Bar(ev, j) <= Bar(ev, m)
      /\ k \in Int
  BY BarsCount
<1>2. i \in 1..Len(ev) /\ i + 1 \in 1..Len(ev)
  BY <1>1
<1>3. CASE l <= i
  <2>1. Bar(ev, l) <= Bar(ev, i) /\ Bar(ev, l) \in Nat /\ Bar(ev, i) \in Nat
    BY <1>1, <1>2, <1>3
  <2> QED
    BY <1>1, <1>3, <2>1
<1>4. CASE i + 1 <= l
  <2>1. Bar(ev, i + 1) <= Bar(ev, l) /\ Bar(ev, l) \in Nat /\ Bar(ev, i + 1) \in Nat
    BY <1>1, <1>2, <1>4
  <2> QED
    BY <1>1, <1>4, <2>1
<1> QED
  BY <1>1, <1>3, <1>4

(* The epochs of a bar's events, least and greatest.                       *)
LEMMA EpochsOfBar ==
  ASSUME NEW ev, Timed(ev), NEW k, Inside(ev, k) # {}
  PROVE  LET S == EpochsIn(ev, k)
         IN  /\ S \in SUBSET Nat /\ S # {}
             /\ Min(S) \in S /\ Max(S) \in S /\ \A y \in S : Min(S) <= y /\ y <= Max(S)
<1> DEFINE S == EpochsIn(ev, k)
<1>1. /\ Inside(ev, k) \subseteq 1..Len(ev) /\ Len(ev) \in Nat /\ Len(ev) >= 1
      /\ \A i \in 1..Len(ev) : ev[i].epoch \in Nat /\ ev[i].epoch <= ev[Len(ev)].epoch
  <2>1. Len(ev) \in Nat /\ Len(ev) >= 1 /\ \A i \in 1..Len(ev) : ev[i] \in TimedEvent
    BY DEF Timed
  <2>2. \A i \in 1..Len(ev) : ev[i].epoch \in Nat
    BY <2>1 DEF TimedEvent
  <2> QED
    BY <2>1, <2>2 DEF Timed, Inside
<1>2. S \in SUBSET Nat /\ S # {} /\ \A y \in S : y <= ev[Len(ev)].epoch
  BY <1>1 DEF EpochsIn
<1>3. ev[Len(ev)].epoch \in Nat
  BY <1>1
<1> HIDE DEF S
<1>4. /\ Max(S) \in S /\ \A y \in S : y <= Max(S)
      /\ Min(S) \in S /\ \A y \in S : Min(S) <= y
  BY <1>2, <1>3, MaxExists, MinExists
<1> QED
  BY <1>2, <1>4 DEF S

\* Neighbouring events of two epochs.
Jump(ev, i) == ev[i].epoch # ev[i + 1].epoch

(* A bar with events is valid when no jump lies inside it.                 *)
LEMMA FilledBar ==
  ASSUME NEW ev, Timed(ev), NEW k, Inside(ev, k) # {}
  PROVE  BarValid(ev, k) <=>
           \A l \in 1..(Len(ev) - 1) : Bar(ev, l) = k /\ Bar(ev, l + 1) = k => ~Jump(ev, l)
<1> DEFINE S == EpochsIn(ev, k)
<1>1. /\ S \in SUBSET Nat /\ Min(S) \in S /\ Max(S) \in S
      /\ \A y \in S : Min(S) <= y /\ y <= Max(S)
  BY EpochsOfBar
<1>2. BarValid(ev, k) <=> Min(S) = Max(S)
  BY DEF BarValid
<1>3. /\ Len(ev) \in Nat /\ \A i \in 1..Len(ev) : Bar(ev, i) \in Nat
      /\ \A i, j \in 1..Len(ev) : i <= j => Bar(ev, i) <= Bar(ev, j)
      /\ DOMAIN ev = 1..Len(ev)
  BY BarsCount DEF Timed
<1>4. \A i \in 1..Len(ev) : Bar(ev, i) = k => ev[i].epoch \in S
  BY <1>3 DEF EpochsIn, Inside, Bar
<1>5. \A y \in S : \E i \in 1..Len(ev) : Bar(ev, i) = k /\ y = ev[i].epoch
  BY <1>3 DEF EpochsIn, Inside, Bar
<1> HIDE DEF S
<1>6. ASSUME Min(S) = Max(S), NEW l \in 1..(Len(ev) - 1), Bar(ev, l) = k, Bar(ev, l + 1) = k
      PROVE  ~Jump(ev, l)
  <2>1. l \in 1..Len(ev) /\ l + 1 \in 1..Len(ev)
    BY <1>3
  <2>2. ev[l].epoch \in S /\ ev[l + 1].epoch \in S
    BY <1>4, <1>6, <2>1
  <2>3. \A y \in S : y = Min(S)
    <3>1. ASSUME NEW y \in S PROVE y = Min(S)
      <4>1. y \in Nat /\ Min(S) \in Nat /\ Min(S) <= y /\ y <= Min(S)
        BY <1>1, <1>6
      <4> QED
        BY <4>1
    <3> QED
      BY <3>1
  <2> QED
    BY <2>2, <2>3 DEF Jump
<1>7. ASSUME \A l \in 1..(Len(ev) - 1) : Bar(ev, l) = k /\ Bar(ev, l + 1) = k => ~Jump(ev, l)
      PROVE  Min(S) = Max(S)
  <2>1. PICK i \in 1..Len(ev) : Bar(ev, i) = k /\ Min(S) = ev[i].epoch
    BY <1>1, <1>5
  <2>2. PICK j \in 1..Len(ev) : Bar(ev, j) = k /\ Max(S) = ev[j].epoch
    BY <1>1, <1>5
  <2>3. ASSUME NEW p \in 1..Len(ev), NEW q \in 1..Len(ev), p <= q, Bar(ev, p) = k, Bar(ev, q) = k
        PROVE  ev[p].epoch = ev[q].epoch
    <3>1. ASSUME NEW l \in 1..(Len(ev) - 1), p <= l, l < q
          PROVE  ev[l].epoch = ev[l + 1].epoch
      <4>1. /\ l \in 1..Len(ev) /\ l + 1 \in 1..Len(ev) /\ l + 1 <= q /\ p <= l + 1 /\ l <= q
        BY <1>3, <3>1
      <4>2. /\ Bar(ev, p) <= Bar(ev, l) /\ Bar(ev, l) <= Bar(ev, q)
            /\ Bar(ev, p) <= Bar(ev, l + 1) /\ Bar(ev, l + 1) <= Bar(ev, q)
            /\ Bar(ev, l) \in Nat /\ Bar(ev, l + 1) \in Nat /\ k \in Nat
        BY <1>3, <2>3, <3>1, <4>1
      <4>3. Bar(ev, l) = k /\ Bar(ev, l + 1) = k
        BY <2>3, <4>2
      <4> QED
        BY <1>7, <4>3 DEF Jump
    <3> QED
      BY <2>3, <3>1, JumpBetween
  <2>4. CASE i <= j
    BY <2>1, <2>2, <2>3, <2>4
  <2>5. CASE j <= i
    BY <2>1, <2>2, <2>3, <2>5
  <2> QED
    BY <1>3, <2>4, <2>5
<1> QED
  BY <1>2, <1>6, <1>7

(* A bar without events is valid when the events around it are of one      *)
(* epoch.                                                                  *)
LEMMA EmptyBar ==
  ASSUME NEW ev, Timed(ev), NEW k \in Bars(ev), Inside(ev, k) = {},
         NEW i \in 1..(Len(ev) - 1), Bar(ev, i) < k, k < Bar(ev, i + 1)
  PROVE  BarValid(ev, k) <=> ~Jump(ev, i)
<1> DEFINE filled == {j \in Bars(ev) : Inside(ev, j) # {}}
           lower == {j \in filled : j < k}
           upper == {j \in filled : j > k}
           N == Len(ev)
<1>1. /\ N \in Nat /\ \A l \in 1..N : Bar(ev, l) \in Nat /\ Bar(ev, l) <= Bar(ev, N)
      /\ \A l, m \in 1..N : l <= m => Bar(ev, l) <= Bar(ev, m)
      /\ Bars(ev) = 0..Bar(ev, N) /\ k \in Int
      /\ DOMAIN ev = 1..N
  BY BarsCount DEF Timed
<1>2. i \in 1..N /\ i + 1 \in 1..N
  BY <1>1
<1>3. \A l \in 1..N : (Bar(ev, l) < k <=> l <= i) /\ (k < Bar(ev, l) <=> i + 1 <= l)
  BY EdgeIsUnique
<1>4. \A l \in 1..N : l \in Inside(ev, Bar(ev, l)) /\ Bar(ev, l) \in Bars(ev)
  <2>1. \A l \in 1..N : Bar(ev, l) \in 0..Bar(ev, N)
    BY <1>1
  <2> QED
    BY <1>1, <2>1 DEF Inside, Bar
<1>5. \A j \in filled : \E l \in 1..N : Bar(ev, l) = j
  BY <1>1 DEF Inside, Bar
<1>6. \A l \in 1..N : Bar(ev, l) \in filled
  BY <1>4
<1>7. filled \in SUBSET Int
  BY <1>1
<1> HIDE DEF filled, N
<1>8. Max(lower) = Bar(ev, i)
  <2>1. Bar(ev, i) \in lower
    BY <1>2, <1>6
  <2>2. ASSUME NEW j \in lower PROVE j <= Bar(ev, i)
    <3>1. PICK l \in 1..N : Bar(ev, l) = j
      BY <1>5
    <3>2. l <= i
      BY <1>3, <3>1
    <3> QED
      BY <1>1, <1>2, <3>1, <3>2
  <2>3. lower \in SUBSET Int
    BY <1>7
  <2> HIDE DEF lower
  <2> QED
    BY <2>1, <2>2, <2>3, MaxIs
<1>9. Min(upper) = Bar(ev, i + 1)
  <2>1. Bar(ev, i + 1) \in upper
    BY <1>1, <1>2, <1>6
  <2>2. ASSUME NEW j \in upper PROVE Bar(ev, i + 1) <= j
    <3>1. PICK l \in 1..N : Bar(ev, l) = j
      BY <1>5
    <3>2. j \in Int /\ k < j
      BY <1>1, <3>1
    <3>3. i + 1 <= l
      BY <1>3, <3>1, <3>2
    <3> QED
      BY <1>1, <1>2, <3>1, <3>3
  <2>3. upper \in SUBSET Int
    BY <1>7
  <2> HIDE DEF upper
  <2> QED
    BY <2>1, <2>2, <2>3, MinIs
<1>10. \A l \in 1..N : ev[l].epoch \in Nat
  <2>1. \A l \in 1..N : ev[l] \in TimedEvent
    BY DEF Timed, N
  <2> QED
    BY <2>1 DEF TimedEvent
<1>11. Max(EpochsIn(ev, Bar(ev, i))) = ev[i].epoch
  <2> DEFINE S == EpochsIn(ev, Bar(ev, i))
  <2>1. ev[i].epoch \in S
    BY <1>2, <1>4 DEF EpochsIn
  <2>2. \A y \in S : \E l \in 1..N : Bar(ev, l) = Bar(ev, i) /\ y = ev[l].epoch
    BY <1>1 DEF EpochsIn, Inside, Bar
  <2> HIDE DEF S
  <2>3. ASSUME NEW y \in S PROVE y \in Int /\ y <= ev[i].epoch
    <3>1. PICK l \in 1..N : Bar(ev, l) = Bar(ev, i) /\ y = ev[l].epoch
      BY <2>2
    <3>2. l <= i
      BY <1>3, <3>1
    <3>3. ev[l].epoch <= ev[i].epoch
      BY <1>2, <3>2 DEF Timed, N
    <3> QED
      BY <1>10, <3>1, <3>3
  <2>4. Max(S) = ev[i].epoch
    BY <2>1, <2>3, MaxIs
  <2> QED
    BY <2>4 DEF S
<1>12. Min(EpochsIn(ev, Bar(ev, i + 1))) = ev[i + 1].epoch
  <2> DEFINE S == EpochsIn(ev, Bar(ev, i + 1))
  <2>1. ev[i + 1].epoch \in S
    BY <1>2, <1>4 DEF EpochsIn
  <2>2. \A y \in S : \E l \in 1..N : Bar(ev, l) = Bar(ev, i + 1) /\ y = ev[l].epoch
    BY <1>1 DEF EpochsIn, Inside, Bar
  <2> HIDE DEF S
  <2>3. ASSUME NEW y \in S PROVE y \in Int /\ ev[i + 1].epoch <= y
    <3>1. PICK l \in 1..N : Bar(ev, l) = Bar(ev, i + 1) /\ y = ev[l].epoch
      BY <2>2
    <3>2. i + 1 <= l
      BY <1>3, <3>1
    <3>3. ev[i + 1].epoch <= ev[l].epoch
      BY <1>2, <3>2 DEF Timed, N
    <3> QED
      BY <1>10, <3>1, <3>3
  <2>4. Min(S) = ev[i + 1].epoch
    BY <2>1, <2>3, MinIs
  <2> QED
    BY <2>4 DEF S
<1>13. BetweenEpochs(ev, k) <=> Max(EpochsIn(ev, Max(lower))) # Min(EpochsIn(ev, Min(upper)))
  BY DEF BetweenEpochs, filled
<1>14. BarValid(ev, k) <=> ~BetweenEpochs(ev, k)
  BY DEF BarValid
<1> QED
  BY <1>8, <1>9, <1>11, <1>12, <1>13, <1>14 DEF Jump

\* What BarsKnowResyncs says of a bar.
KnowsResyncs(ev, k) ==
  BarValid(ev, k) <=>
    \A i \in 1..(Len(ev) - 1) :
      Jump(ev, i) => /\ ~(Bar(ev, i) = k /\ Bar(ev, i + 1) = k)
                     /\ ~(Bar(ev, i) < k /\ k < Bar(ev, i + 1))

LEMMA BarKnows ==
  ASSUME NEW ev, Timed(ev), NEW k \in Bars(ev)
  PROVE  KnowsResyncs(ev, k)
<1>1. /\ Len(ev) \in Nat /\ \A l \in 1..Len(ev) : Bar(ev, l) \in Nat
      /\ \A l, m \in 1..Len(ev) : l <= m => Bar(ev, l) <= Bar(ev, m)
      /\ DOMAIN ev = 1..Len(ev) /\ k \in Int
  BY BarsCount DEF Timed
<1>2. CASE Inside(ev, k) # {}
  <2>1. PICK j \in 1..Len(ev) : Bar(ev, j) = k
    BY <1>1, <1>2 DEF Inside, Bar
  <2>2. ASSUME NEW i \in 1..(Len(ev) - 1) PROVE ~(Bar(ev, i) < k /\ k < Bar(ev, i + 1))
    <3>1. i \in 1..Len(ev) /\ i + 1 \in 1..Len(ev) /\ (j <= i \/ i + 1 <= j)
      BY <1>1
    <3> QED
      BY <1>1, <2>1, <3>1
  <2> QED
    BY <1>2, <2>2, FilledBar DEF KnowsResyncs
<1>3. CASE Inside(ev, k) = {}
  <2>1. PICK i \in 1..(Len(ev) - 1) : Bar(ev, i) < k /\ k < Bar(ev, i + 1)
    BY <1>3, EdgeOfEmpty
  <2>2. BarValid(ev, k) <=> ~Jump(ev, i)
    BY <1>3, <2>1, EmptyBar
  <2>3. \A l \in 1..Len(ev) : Bar(ev, l) # k
    BY <1>1, <1>3 DEF Inside, Bar
  <2>4. ASSUME NEW l \in 1..(Len(ev) - 1), Bar(ev, l) < k, k < Bar(ev, l + 1)
        PROVE  l = i
    <3>1. l \in 1..Len(ev) /\ l + 1 \in 1..Len(ev)
      BY <1>1
    <3>2. l <= i /\ i + 1 <= l + 1
      BY <2>1, <2>4, <3>1, EdgeIsUnique
    <3> QED
      BY <1>1, <3>2
  <2>5. \A l \in 1..(Len(ev) - 1) : l \in 1..Len(ev)
    BY <1>1
  <2> QED
    BY <2>1, <2>2, <2>3, <2>4, <2>5 DEF KnowsResyncs
<1> QED
  BY <1>2, <1>3

(* The last tick a bar has by its end is that of the last event up to it.  *)
LEMMA ClosingEvent ==
  ASSUME NEW tk \in Seq(Tick), TicksAscend(tk), Len(tk) > 1,
         NEW m \in 1..Levels, NEW k \in Bars(Events(tk, m))
  PROVE  LET ev == Events(tk, m)
         IN  \E j \in 1..Len(ev) : /\ LastTick(tk, ev, k) = j + 1
                                   /\ tk[j + 1].epoch = ev[j].epoch
                                   /\ Bar(ev, j) <= k
                                   /\ \A i \in (j + 1)..Len(ev) : k < Bar(ev, i)
<1> DEFINE ev == Events(tk, m)
           S == {i \in 1..Len(tk) : BarOf(ev, tk[i].ts) \in 0..k}
           last == Max(S)
           j == last - 1
<1>1. /\ Timed(ev) /\ Len(ev) = Len(tk) - 1 /\ Len(tk) \in Nat
      /\ \A i \in 1..Len(ev) : ev[i] = Event(tk[i], tk[i + 1], m)
  BY EventsAre
<1>2. k \in Nat /\ (\A i \in 1..Len(ev) : Bar(ev, i) \in Nat) /\ Bar(ev, 1) = 0
  BY <1>1, BarsCount
<1>3. LastTick(tk, ev, k) = last
  BY DEF LastTick
<1> HIDE DEF ev
<1>4. ASSUME NEW i \in 1..Len(ev)
      PROVE  /\ i + 1 \in 1..Len(tk) /\ BarOf(ev, tk[i + 1].ts) = Bar(ev, i)
             /\ tk[i + 1].epoch = ev[i].epoch
  <2>1. ev[i] = Event(tk[i], tk[i + 1], m) /\ i + 1 \in 1..Len(tk)
    BY <1>1
  <2>2. ev[i].ts = tk[i + 1].ts /\ ev[i].epoch = tk[i + 1].epoch
    BY <2>1 DEF Event
  <2> QED
    BY <2>1, <2>2 DEF Bar
<1>5. ASSUME NEW i \in 1..Len(ev) PROVE i + 1 \in S <=> Bar(ev, i) <= k
  <2>1. i + 1 \in S <=> Bar(ev, i) \in 0..k
    BY <1>4
  <2> QED
    BY <1>2, <2>1
<1>6. 2 \in S /\ S \in SUBSET Nat /\ \A y \in S : y <= Len(tk)
  <2>1. 1 \in 1..Len(ev) /\ 1 + 1 = 2
    BY <1>1
  <2>2. 2 \in S
    BY <1>2, <1>5, <2>1
  <2> QED
    BY <1>1, <2>2
<1>7. last \in S /\ \A y \in S : y <= last
  <2> HIDE DEF S
  <2> QED
    BY <1>1, <1>6, MaxExists
<1> HIDE DEF S, last
<1>8. j \in 1..Len(ev) /\ j + 1 = last /\ last \in Nat
  <2>1. last \in Nat /\ 2 <= last /\ last <= Len(tk)
    BY <1>6, <1>7
  <2> QED
    BY <1>1, <2>1
<1>9. Bar(ev, j) <= k
  BY <1>5, <1>7, <1>8
<1>10. ASSUME NEW i \in (j + 1)..Len(ev) PROVE k < Bar(ev, i)
  <2>1. i \in 1..Len(ev) /\ last < i + 1 /\ i + 1 \in Nat
    BY <1>1, <1>8
  <2>2. i + 1 \notin S
    BY <1>7, <1>8, <2>1
  <2> QED
    BY <1>2, <1>5, <2>1, <2>2
<1> HIDE DEF j
<1>11. tk[j + 1].epoch = ev[j].epoch
  BY <1>4, <1>8
<1> QED
  BY <1>3, <1>8, <1>9, <1>10, <1>11 DEF ev

\* What ObservationsSpanEpochs says of the mids of a bar and the next.
SpansResync(tk, ev, k) ==
  k \in Paired(ev) =>
    ((tk[LastTick(tk, ev, k)].epoch # tk[LastTick(tk, ev, k + 1)].epoch)
       <=> \E i \in 2..Len(ev) : ev[i].epoch # ev[i - 1].epoch /\ Bar(ev, i) = k + 1)

(* From the end of a bar to the end of the next the mid runs over a resync *)
(* exactly when the next opens with one.                                   *)
LEMMA BarSpans ==
  ASSUME NEW tk \in Seq(Tick), TicksAscend(tk), Len(tk) > 1,
         NEW m \in 1..Levels, NEW k \in Bars(Events(tk, m))
  PROVE  SpansResync(tk, Events(tk, m), k)
<1> DEFINE ev == Events(tk, m)
<1> SUFFICES ASSUME k \in Paired(ev)
             PROVE  (tk[LastTick(tk, ev, k)].epoch # tk[LastTick(tk, ev, k + 1)].epoch)
                      <=> \E i \in 2..Len(ev) : ev[i].epoch # ev[i - 1].epoch /\ Bar(ev, i) = k + 1
  BY DEF SpansResync
<1>1. Timed(ev) /\ k + 1 \in Bars(ev) /\ BarValid(ev, k + 1)
  BY EventsAre DEF Paired
<1>2. PICK a \in 1..Len(ev) : /\ LastTick(tk, ev, k) = a + 1 /\ tk[a + 1].epoch = ev[a].epoch
                              /\ Bar(ev, a) <= k
                              /\ \A i \in (a + 1)..Len(ev) : k < Bar(ev, i)
  BY ClosingEvent
<1>3. PICK b \in 1..Len(ev) : /\ LastTick(tk, ev, k + 1) = b + 1 /\ tk[b + 1].epoch = ev[b].epoch
                              /\ Bar(ev, b) <= k + 1
                              /\ \A i \in (b + 1)..Len(ev) : k + 1 < Bar(ev, i)
  BY <1>1, ClosingEvent
<1>4. k \in Nat /\ Len(ev) \in Nat
      /\ (\A i \in 1..Len(ev) : Bar(ev, i) \in Nat)
      /\ \A i, l \in 1..Len(ev) : i <= l => Bar(ev, i) <= Bar(ev, l)
  BY <1>1, BarsCount DEF Timed
<1>5. KnowsResyncs(ev, k + 1)
  BY <1>1, BarKnows
<1> HIDE DEF ev
<1>6. \A i \in 1..(Len(ev) - 1) : Bar(ev, i) = k + 1 /\ Bar(ev, i + 1) = k + 1 => ~Jump(ev, i)
  BY <1>1, <1>5 DEF KnowsResyncs
<1>7. \A i \in 1..Len(ev) : Bar(ev, i) = k + 1 <=> a < i /\ i <= b
  <2> SUFFICES ASSUME NEW i \in 1..Len(ev) PROVE Bar(ev, i) = k + 1 <=> a < i /\ i <= b
    OBVIOUS
  <2>1. Bar(ev, i) \in Nat /\ Bar(ev, a) \in Nat /\ Bar(ev, b) \in Nat
    BY <1>4
  <2>2. i <= a => Bar(ev, i) <= k
    BY <1>2, <1>4, <2>1
  <2>3. a < i => k < Bar(ev, i)
    BY <1>2, <1>4
  <2>4. i <= b => Bar(ev, i) <= k + 1
    BY <1>3, <1>4, <2>1
  <2>5. b < i => k + 1 < Bar(ev, i)
    BY <1>3, <1>4
  <2> QED
    BY <1>4, <2>1, <2>2, <2>3, <2>4, <2>5
<1>8. a <= b
  <2>1. b < a => a \in (b + 1)..Len(ev)
    BY <1>4
  <2> QED
    BY <1>2, <1>3, <1>4, <2>1
<1>9. CASE a = b
  <2>1. \A i \in 2..Len(ev) : Bar(ev, i) # k + 1
    BY <1>7, <1>9
  <2> QED
    BY <1>2, <1>3, <1>9, <2>1
<1>10. CASE a < b
  <2>1. a + 1 \in 1..Len(ev) /\ a + 1 \in 2..Len(ev) /\ (a + 1) - 1 = a /\ a \in 1..(Len(ev) - 1)
        /\ a < a + 1 /\ a + 1 <= b
    BY <1>4, <1>10
  <2>2. ASSUME NEW l \in 1..(Len(ev) - 1), a + 1 <= l, l < b
        PROVE  ev[l].epoch = ev[l + 1].epoch
    <3>1. l \in 1..Len(ev) /\ l + 1 \in 1..Len(ev) /\ a < l /\ l <= b /\ a < l + 1 /\ l + 1 <= b
      BY <1>4, <2>2
    <3> QED
      BY <1>6, <1>7, <3>1 DEF Jump
  <2>3. ev[a + 1].epoch = ev[b].epoch
    BY <1>1, <2>1, <2>2, JumpBetween
  <2>4. ASSUME NEW i \in 2..Len(ev), ev[i].epoch # ev[i - 1].epoch, Bar(ev, i) = k + 1
        PROVE  i = a + 1
    <3>1. i \in 1..Len(ev) /\ i - 1 \in 1..(Len(ev) - 1) /\ i - 1 \in 1..Len(ev) /\ (i - 1) + 1 = i
      BY <1>4
    <3>2. Bar(ev, i - 1) # k + 1
      BY <1>6, <2>4, <3>1 DEF Jump
    <3>3. a < i /\ i <= b /\ ~(a < i - 1 /\ i - 1 <= b)
      BY <1>7, <2>4, <3>1, <3>2
    <3> QED
      BY <1>4, <3>1, <3>3
  <2>5. Bar(ev, a + 1) = k + 1
    BY <1>7, <2>1
  <2>6. (\E i \in 2..Len(ev) : ev[i].epoch # ev[i - 1].epoch /\ Bar(ev, i) = k + 1)
          <=> ev[a + 1].epoch # ev[a].epoch
    BY <2>1, <2>4, <2>5
  <2> QED
    BY <1>2, <1>3, <2>3, <2>6
<1> QED
  BY <1>4, <1>8, <1>9, <1>10

\* What ObservationsSpanEpochs says of the flows of a bar and the next.
KeepsEpochs(ev, k) ==
  /\ k \in Paired(ev) =>
       \A i \in 2..Len(ev) :
         ev[i].epoch # ev[i - 1].epoch /\ Bar(ev, i) \in {k, k + 1} =>
           i = 1 \/ Bar(ev, i - 1) < Bar(ev, i)
  /\ (/\ Inside(ev, k) # {} /\ Inside(ev, k + 1) # {}
      /\ Cardinality(EpochsIn(ev, k) \cup EpochsIn(ev, k + 1)) = 1) => k \in Paired(ev)

LEMMA BarKeeps ==
  ASSUME NEW ev, Timed(ev), NEW k \in Bars(ev)
  PROVE  KeepsEpochs(ev, k)
<1>1. /\ Len(ev) \in Nat /\ \A l \in 1..Len(ev) : Bar(ev, l) \in Nat /\ Bar(ev, l) <= Bar(ev, Len(ev))
      /\ \A l, m \in 1..Len(ev) : l <= m => Bar(ev, l) <= Bar(ev, m)
      /\ Bars(ev) = 0..Bar(ev, Len(ev))
      /\ DOMAIN ev = 1..Len(ev) /\ k \in Nat
  BY BarsCount DEF Timed
<1>2. ASSUME k \in Paired(ev), NEW i \in 2..Len(ev), ev[i].epoch # ev[i - 1].epoch,
             Bar(ev, i) \in {k, k + 1}
      PROVE  Bar(ev, i - 1) < Bar(ev, i)
  <2>1. /\ i - 1 \in 1..(Len(ev) - 1) /\ i - 1 \in 1..Len(ev) /\ i \in 1..Len(ev)
        /\ (i - 1) + 1 = i
    BY <1>1
  <2>2. Bar(ev, i - 1) <= Bar(ev, i) /\ Bar(ev, i - 1) \in Nat /\ Bar(ev, i) \in Nat
    BY <1>1, <2>1
  <2>3. CASE Bar(ev, i - 1) = Bar(ev, i)
    <3> DEFINE b == Bar(ev, i)
    <3>1. b \in Bars(ev) /\ BarValid(ev, b)
      BY <1>2 DEF Paired
    <3>2. KnowsResyncs(ev, b)
      BY <3>1, BarKnows
    <3>3. Jump(ev, i - 1)
      BY <1>2, <2>1 DEF Jump
    <3> QED
      BY <2>1, <2>3, <3>1, <3>2, <3>3 DEF KnowsResyncs
  <2> QED
    BY <2>2, <2>3
<1>3. ASSUME NEW j, Inside(ev, j) # {} PROVE j \in Bars(ev)
  <2>1. PICK l \in 1..Len(ev) : Bar(ev, l) = j
    BY <1>1, <1>3 DEF Inside, Bar
  <2> QED
    BY <1>1, <2>1
<1>4. ASSUME NEW j, Inside(ev, j) # {}, \E x : EpochsIn(ev, j) \subseteq {x} PROVE BarValid(ev, j)
  <2>1. Min(EpochsIn(ev, j)) = Max(EpochsIn(ev, j))
    BY <1>4, EpochsOfBar
  <2> QED
    BY <1>4, <2>1 DEF BarValid
<1>5. ASSUME Inside(ev, k) # {}, Inside(ev, k + 1) # {},
             Cardinality(EpochsIn(ev, k) \cup EpochsIn(ev, k + 1)) = 1
      PROVE  k \in Paired(ev)
  <2> DEFINE U == EpochsIn(ev, k) \cup EpochsIn(ev, k + 1)
  <2>1. \E x : U = {x}
    <3>1. \A i \in 1..Len(ev) : ev[i] \in TimedEvent
      BY DEF Timed
    <3>2. Len(ev) \in 1..Len(ev)
      BY <1>1, <1>3, <1>5 DEF Inside
    <3>3. \A i \in 1..Len(ev) : ev[i].epoch \in Nat /\ ev[i].epoch <= ev[Len(ev)].epoch
      BY <1>1, <3>1, <3>2 DEF Timed, TimedEvent
    <3>4. IsFiniteSet(U)
      <4>1. U \in SUBSET Nat /\ \A y \in U : y <= ev[Len(ev)].epoch
        BY <1>1, <3>3 DEF EpochsIn, Inside
      <4>2. ev[Len(ev)].epoch \in Nat
        BY <3>2, <3>3
      <4> HIDE DEF U
      <4> QED
        BY <4>1, <4>2, FS_BoundedSetOfNaturals
    <3> HIDE DEF U
    <3>5. Cardinality(U) = 1
      BY <1>5 DEF U
    <3> QED
      BY <3>4, <3>5, FS_Singleton
  <2>2. PICK x : U = {x}
    BY <2>1
  <2>3. EpochsIn(ev, k) \subseteq {x} /\ EpochsIn(ev, k + 1) \subseteq {x}
    BY <2>2
  <2>4. BarValid(ev, k) /\ BarValid(ev, k + 1) /\ k + 1 \in Bars(ev)
    BY <1>3, <1>4, <1>5, <2>3
  <2> QED
    BY <2>4 DEF Paired
<1> QED
  BY <1>2, <1>5 DEF KeepsEpochs

(* For every window and every order of snapshots, diffs and gaps, a bar is *)
(* invalid exactly when a resync comes between two of its events or ends   *)
(* the empty stretch it lies in; the flow of an observed bar is of one     *)
(* epoch; and the change of the mid it is held against runs over a resync  *)
(* exactly when the second bar opens with one (windows.py,                 *)
(* sum_in_time_windows; validate_ofi.py, evaluate_capture).                *)
THEOREM BarsKnowTheResyncs == Spec => []BarsAroundResyncs
<1>1. FlowInv /\ StreamInv /\ TickInv => BarsAroundResyncs
  <2> SUFFICES ASSUME FlowInv, StreamInv, TickInv, feed = "book"
               PROVE  LET tk == Ticks(tape)
                          ev == Events(tk, 1)
                      IN  \A k \in Bars(ev) : /\ KnowsResyncs(ev, k) /\ KeepsEpochs(ev, k)
                                              /\ SpansResync(tk, ev, k)
    <3>1. (\A k \in Bars(Events(Ticks(tape), 1)) : KnowsResyncs(Events(Ticks(tape), 1), k))
          => BarsKnowResyncs
      BY DEF BarsKnowResyncs, OnBook, KnowsResyncs, Jump, Bar
    <3>2. (\A k \in Bars(Events(Ticks(tape), 1)) :
             /\ KeepsEpochs(Events(Ticks(tape), 1), k)
             /\ SpansResync(Ticks(tape), Events(Ticks(tape), 1), k))
          => ObservationsSpanEpochs
      BY DEF ObservationsSpanEpochs, OnBook, KeepsEpochs, SpansResync, Bar
    <3> QED
      BY <3>1, <3>2 DEF BarsAroundResyncs, BarsKnowResyncs, ObservationsSpanEpochs, OnBook
  <2> DEFINE tk == Ticks(tape)
             ev == Events(tk, 1)
  <2>1. tk \in Seq(Tick) /\ TicksAscend(tk) /\ 1 \in 1..Levels
    BY ReadTicksAscend, ImbalanceAssumption
  <2>2. Len(tk) \in Nat /\ (Len(tk) <= 1 => ev = << >>) /\ (Len(tk) > 1 => Timed(ev))
    BY <2>1, EventsAre
  <2>3. ev = << >> => Bars(ev) = {}
    BY DEF Bars
  <2>4. Len(tk) > 1 => \A k \in Bars(ev) : SpansResync(tk, ev, k)
    BY <2>1, BarSpans
  <2> HIDE DEF ev, tk
  <2>5. \A k \in Bars(ev) : KnowsResyncs(ev, k) /\ KeepsEpochs(ev, k) /\ SpansResync(tk, ev, k)
    BY <2>2, <2>3, <2>4, BarKnows, BarKeeps
  <2> QED
    BY <2>5 DEF ev, tk
<1>. QED
  BY <1>1, FlowInvInitially, FlowInvStep, StreamInvInitially, StreamInvStep,
     TickInvInitially, TickInvStep, PTL DEF Spec

-----------------------------------------------------------------------------
\* What a bar holds, against the batch of the same tape.

\* Where bar k starts.
StartOf(ev, k) == (FirstBar(ev) + k) * Window

\* The events of the tape the batch has a flow for, within bar k.
CountedIn(t, ticks, m, k) ==
  {n \in DOMAIN Batch(ticks, m) :
     /\ t[n].ts \in StartOf(Events(ticks, m), k) .. (StartOf(Events(ticks, m), k + 1) - 1)
     /\ Batch(ticks, m)[n] # NaN}

TickBefore(ticks, ev, k) == {i \in DOMAIN ticks : ticks[i].ts < StartOf(ev, k + 1)}

(* A stamp lies between the edges of its bar.                              *)
LEMMA BarEdges ==
  ASSUME NEW ev, Timed(ev), NEW ts \in Int, NEW k \in Int
  PROVE  /\ BarOf(ev, ts) \in Int
         /\ BarOf(ev, ts) <= k <=> ts < StartOf(ev, k + 1)
         /\ BarOf(ev, ts) = k <=> ts \in StartOf(ev, k) .. (StartOf(ev, k + 1) - 1)
<1> DEFINE first == FirstBar(ev)
           a == StartOf(ev, k)
           b == StartOf(ev, k + 1)
<1>1. first \in Int /\ Window \in Nat \ {0}
  <2>1. FirstBar(ev) = Slot(ev[1].ts) /\ ev[1] \in TimedEvent
    BY BarsCount DEF Timed
  <2>2. ev[1].ts \in Int
    BY <2>1 DEF TimedEvent
  <2> QED
    BY <2>1, <2>2, SlotIs, ImbalanceAssumption
<1>2. BarOf(ev, ts) = Slot(ts) - first /\ Slot(ts) \in Int
  BY SlotIs DEF BarOf, Slot
<1> HIDE DEF first
<1>3. /\ first + k <= Slot(ts) <=> a <= ts
      /\ Slot(ts) <= first + k <=> ts < b
  <2>1. first + k \in Int /\ (first + k) + 1 = first + (k + 1)
    BY <1>1
  <2>2. /\ first + k <= Slot(ts) <=> (first + k) * Window <= ts
        /\ Slot(ts) <= first + k <=> ts < ((first + k) + 1) * Window
    BY <2>1, SlotOrder
  <2> QED
    BY <2>1, <2>2 DEF StartOf, first
<1>4. a \in Int /\ b \in Int
  BY <1>1 DEF StartOf, first
<1> HIDE DEF a, b
<1>5. /\ BarOf(ev, ts) \in Int
      /\ BarOf(ev, ts) <= k <=> ts < b
      /\ BarOf(ev, ts) = k <=> a <= ts /\ ts < b
  BY <1>1, <1>2, <1>3
<1>6. ts \in a..(b - 1) <=> a <= ts /\ ts < b
  BY <1>4
<1> QED
  BY <1>5, <1>6 DEF a, b

LEMMA EventIs ==
  ASSUME NEW p, NEW q, NEW m
  PROVE  LET c == Contribution(Quote(p.book, m), Quote(q.book, m))
         IN  /\ Event(p, q, m).ts = q.ts
             /\ Event(p, q, m).e = IF p.epoch # q.epoch \/ c = NaN THEN 0 ELSE c
  BY DEF Event

LEMMA BatchDomain ==
  ASSUME NEW ticks, NEW m
  PROVE  DOMAIN Batch(ticks, m) = {ticks[j].n : j \in Followers(ticks)}
  BY DEF Batch, Followers

(* A bar holds what the batch counted within it.                           *)
LEMMA BarHolds ==
  ASSUME NEW t, IsTape(t), NEW tk \in Seq(Tick), TicksAscend(tk), InOrder(tk), Placed(tk, t),
         Len(tk) > 1, NEW m \in 1..Levels, NEW k \in Bars(Events(tk, m))
  PROVE  BarSum(Events(tk, m), k) =
           Total([n \in DOMAIN t |-> IF n \in CountedIn(t, tk, m, k) THEN Batch(tk, m)[n] ELSE 0])
<1> DEFINE ev == Events(tk, m)
           batch == Batch(tk, m)
           N == Len(ev)
           L == Len(t)
           counted == CountedIn(t, tk, m, k)
           f == [i \in 1..N |-> IF BarOf(ev, ev[i].ts) = k THEN ev[i].e ELSE 0]
           g == [n \in 1..L |-> IF n \in counted THEN batch[n] ELSE 0]
           p == [i \in 1..N |-> tk[i + 1].n]
           flow(i) == Contribution(Quote(tk[i].book, m), Quote(tk[i + 1].book, m))
<1>1. /\ Timed(ev) /\ N = Len(tk) - 1 /\ N \in Nat /\ L \in Nat
      /\ \A i \in 1..N : ev[i] = Event(tk[i], tk[i + 1], m)
      /\ DOMAIN ev = 1..N /\ DOMAIN t = 1..L
  BY EventsAre DEF Timed, IsTape
<1>2. k \in Nat
  BY <1>1, BarsCount
<1>3. DOMAIN batch = {tk[j].n : j \in Followers(tk)}
  BY BatchDomain
<1>4. BarSum(ev, k) = Total(f)
  BY <1>1 DEF BarSum
<1>5. Total([n \in DOMAIN t |-> IF n \in counted THEN batch[n] ELSE 0]) = Total(g)
  BY <1>1
<1>6. \A n : n \in counted <=> /\ n \in DOMAIN batch /\ batch[n] # NaN
                                /\ t[n].ts \in StartOf(ev, k) .. (StartOf(ev, k + 1) - 1)
  BY DEF CountedIn
<1> HIDE DEF ev, batch, N, L, counted, f, g, p, flow
<1>7. ASSUME NEW i \in 1..N
      PROVE  /\ i \in 1..Len(tk) /\ i + 1 \in 1..Len(tk)
             /\ p[i] = tk[i + 1].n /\ p[i] \in 1..L /\ t[p[i]].ts = tk[i + 1].ts
             /\ tk[i + 1].ts \in Int
             /\ flow(i) \in Int \cup {NaN}
             /\ ev[i].ts = tk[i + 1].ts
             /\ ev[i].e = IF tk[i].epoch # tk[i + 1].epoch \/ flow(i) = NaN THEN 0 ELSE flow(i)
  <2>1. i \in 1..Len(tk) /\ i + 1 \in 1..Len(tk) /\ p[i] = tk[i + 1].n
    BY <1>1 DEF p
  <2>2. tk[i] \in Tick /\ tk[i + 1] \in Tick
    BY <2>1
  <2>3. tk[i].book \in Books /\ tk[i + 1].book \in Books /\ tk[i + 1].ts \in Int
    BY <2>2 DEF Tick
  <2>4. flow(i) \in Int \cup {NaN}
    BY <2>3, QuoteType, ContributionType DEF flow
  <2>5. tk[i + 1].n \in 1..L /\ tk[i + 1].ts = t[tk[i + 1].n].ts
    BY <2>1 DEF Placed, L
  <2>6. /\ ev[i].ts = tk[i + 1].ts
        /\ ev[i].e = IF tk[i].epoch # tk[i + 1].epoch \/ flow(i) = NaN THEN 0 ELSE flow(i)
    BY <1>1, EventIs DEF flow
  <2> QED
    BY <2>1, <2>3, <2>4, <2>5, <2>6
<1>8. ASSUME NEW i \in 1..N
      PROVE  BarOf(ev, ev[i].ts) = k <=> t[p[i]].ts \in StartOf(ev, k) .. (StartOf(ev, k + 1) - 1)
  <2>1. ev[i].ts = tk[i + 1].ts /\ t[p[i]].ts = tk[i + 1].ts /\ tk[i + 1].ts \in Int
    BY <1>7
  <2>2. \A ts \in Int : BarOf(ev, ts) = k <=> ts \in StartOf(ev, k) .. (StartOf(ev, k + 1) - 1)
    <3>1. Timed(ev) /\ k \in Int
      BY <1>1, <1>2
    <3> QED
      BY <3>1, BarEdges, Zenon
  <2> QED
    BY <2>1, <2>2
<1>9. ASSUME NEW i \in 1..N
      PROVE  g[p[i]] = f[i] /\ f[i] \in Int
  <2>1. /\ f[i] = IF BarOf(ev, ev[i].ts) = k THEN ev[i].e ELSE 0
        /\ g[p[i]] = IF p[i] \in counted THEN batch[p[i]] ELSE 0
    BY <1>7 DEF f, g
  <2>2. CASE tk[i + 1].epoch = tk[i].epoch
    <3>1. i + 1 \in Followers(tk) /\ (i + 1) - 1 = i
      BY <1>1, <2>2 DEF Followers
    <3>2. At(batch, p[i]) = flow(i)
      BY <1>7, <3>1, BatchHas DEF batch, flow
    <3>3. p[i] \in DOMAIN batch
      BY <1>3, <1>7, <3>1
    <3>4. batch[p[i]] = flow(i)
      BY <3>2, <3>3 DEF At
    <3>5. /\ ev[i].e = IF flow(i) = NaN THEN 0 ELSE flow(i)
          /\ flow(i) \in Int \cup {NaN}
      BY <1>7, <2>2
    <3> QED
      BY <1>6, <1>8, <2>1, <3>3, <3>4, <3>5
  <2>3. CASE tk[i + 1].epoch # tk[i].epoch
    <3>1. ev[i].e = 0
      BY <1>7, <2>3
    <3>2. p[i] \notin DOMAIN batch
      <4> SUFFICES ASSUME NEW j \in Followers(tk), tk[j].n = p[i] PROVE FALSE
        BY <1>3
      <4>1. /\ j \in 1..Len(tk) /\ j # i + 1 /\ (i + 1) - 1 = i
            /\ Len(tk) \in Nat
        BY <1>1, <2>3 DEF Followers
      <4>2. i + 1 \in 1..Len(tk)
        BY <1>7
      <4>2a. tk[j] \in Tick /\ tk[i + 1] \in Tick
        BY <4>1, <4>2
      <4>3. tk[j].n \in Nat /\ tk[i + 1].n \in Nat
        BY <4>2a DEF Tick
      <4>4. tk[j].n = tk[i + 1].n
        BY <1>7
      <4>5. j < i + 1 \/ i + 1 < j
        BY <4>1
      <4> QED
        BY <4>1, <4>2, <4>3, <4>4, <4>5 DEF InOrder
    <3> QED
      BY <1>6, <2>1, <3>1, <3>2
  <2> QED
    BY <2>2, <2>3
<1>10. ASSUME NEW n \in 1..L, n \in DOMAIN batch
       PROVE  \E i \in 1..N : p[i] = n
  <2>1. PICK j \in Followers(tk) : tk[j].n = n
    BY <1>3, <1>10
  <2>2. j - 1 \in 1..N /\ (j - 1) + 1 = j
    BY <1>1 DEF Followers
  <2>3. p[j - 1] = n
    BY <1>7, <2>1, <2>2
  <2> QED
    BY <2>2, <2>3
<1>11. ASSUME NEW n \in 1..L
       PROVE  g[n] \in Int /\ ((\A i \in 1..N : p[i] # n) => g[n] = 0)
  <2>1. g[n] = IF n \in counted THEN batch[n] ELSE 0
    BY DEF g
  <2>2. CASE n \in DOMAIN batch
    <3>1. PICK i \in 1..N : p[i] = n
      BY <1>10, <2>2
    <3> QED
      BY <1>9, <3>1
  <2>3. CASE n \notin DOMAIN batch
    BY <1>6, <2>1, <2>3
  <2> QED
    BY <2>2, <2>3
<1>12. \A i, j \in 1..N : i < j => p[i] < p[j]
  <2> SUFFICES ASSUME NEW i \in 1..N, NEW j \in 1..N, i < j PROVE p[i] < p[j]
    OBVIOUS
  <2>1. i + 1 \in 1..Len(tk) /\ j + 1 \in 1..Len(tk) /\ i + 1 < j + 1
    BY <1>1
  <2>2. tk[i + 1].n < tk[j + 1].n
    BY <2>1 DEF InOrder
  <2> QED
    BY <1>7, <2>2
<1>13. Lies(f, g, p, N, L)
  BY <1>7, <1>9, <1>11, <1>12 DEF Lies
<1>14. f \in [1..N -> Int] /\ g \in [1..L -> Int]
  <2>1. f = [i \in 1..N |-> f[i]] /\ g = [n \in 1..L |-> g[n]]
    BY DEF f, g
  <2> QED
    BY <1>9, <1>11, <2>1
<1>15. Total(g) = Total(f)
  <2>1. N \in Nat /\ L \in Nat
    BY <1>1
  <2> QED
    BY <1>13, <1>14, <2>1, SumOfPlaces, ZenonT(30)
<1> QED
  BY <1>4, <1>5, <1>15 DEF ev, batch, counted

(* A bar ends with the last tick before its end.                           *)
LEMMA BarEnds ==
  ASSUME NEW tk \in Seq(Tick), TicksAscend(tk), Len(tk) > 1,
         NEW m \in 1..Levels, NEW k \in Bars(Events(tk, m))
  PROVE  BarMid2(tk, Events(tk, m), k) = Mid2(tk[Max(TickBefore(tk, Events(tk, m), k))].book)
<1> DEFINE ev == Events(tk, m)
           S == {i \in 1..Len(tk) : BarOf(ev, tk[i].ts) \in 0..k}
           T == TickBefore(tk, ev, k)
<1>1. /\ Timed(ev) /\ Len(ev) = Len(tk) - 1 /\ Len(tk) \in Nat /\ DOMAIN tk = 1..Len(tk)
      /\ \A i \in 1..Len(ev) : ev[i] = Event(tk[i], tk[i + 1], m)
  BY EventsAre
<1>2. k \in Nat /\ \A i \in 1..Len(ev) : Bar(ev, i) \in Nat
  BY <1>1, BarsCount
<1>2a. Bar(ev, 1) = 0
  BY <1>1, BarsCount
<1>3. BarMid2(tk, ev, k) = Mid2(tk[Max(S)].book)
  BY DEF BarMid2, LastTick
<1> HIDE DEF ev
<1>4. ASSUME NEW i \in 2..Len(tk)
      PROVE  BarOf(ev, tk[i].ts) \in Nat /\ (i = 2 => BarOf(ev, tk[i].ts) = 0)
  <2>1. i - 1 \in 1..Len(ev) /\ (i - 1) + 1 = i
    BY <1>1
  <2>2. ev[i - 1].ts = tk[i].ts
    BY <1>1, <2>1, EventIs
  <2>3. BarOf(ev, tk[i].ts) = Bar(ev, i - 1)
    BY <2>2 DEF Bar
  <2> QED
    BY <1>2, <1>2a, <2>1, <2>3
<1>5. \A i \in 1..Len(tk) : tk[i].ts \in Int
  <2>1. \A i \in 1..Len(tk) : tk[i] \in Tick
    OBVIOUS
  <2> QED
    BY <2>1 DEF Tick
<1>6. \A i \in 1..Len(tk) : BarOf(ev, tk[i].ts) \in Int /\ (BarOf(ev, tk[i].ts) <= k <=> i \in T)
  <2> SUFFICES ASSUME NEW i \in 1..Len(tk)
               PROVE  BarOf(ev, tk[i].ts) \in Int /\ (BarOf(ev, tk[i].ts) <= k <=> i \in T)
    OBVIOUS
  <2>1. /\ BarOf(ev, tk[i].ts) \in Int
        /\ BarOf(ev, tk[i].ts) <= k <=> tk[i].ts < StartOf(ev, k + 1)
    <3>1. Timed(ev) /\ k \in Int /\ tk[i].ts \in Int
      BY <1>1, <1>2, <1>5
    <3> QED
      BY <3>1, BarEdges, Zenon
  <2>2. i \in T <=> tk[i].ts < StartOf(ev, k + 1)
    BY <1>1 DEF TickBefore
  <2> QED
    BY <2>1, <2>2
<1>7. T \subseteq 1..Len(tk)
  BY <1>1 DEF TickBefore
<1> HIDE DEF T
<1>8. /\ 2 \in S /\ S \in SUBSET Nat /\ \A y \in S : y <= Len(tk)
      /\ \A y \in S : y \in T
      /\ \A y \in T : y = 1 \/ y \in S
  <2>1. 2 \in 2..Len(tk) /\ 0 \in 0..k
    BY <1>1, <1>2
  <2>2. 2 \in S
    BY <1>4, <2>1
  <2>3. ASSUME NEW y \in S PROVE y \in T
    <3>1. y \in 1..Len(tk) /\ BarOf(ev, tk[y].ts) <= k
      BY <1>2
    <3> QED
      BY <1>6, <3>1
  <2>4. ASSUME NEW y \in T, y # 1 PROVE y \in S
    <3>1. y \in 2..Len(tk) /\ y \in 1..Len(tk)
      BY <1>1, <1>7, <2>4
    <3>2. BarOf(ev, tk[y].ts) \in Nat /\ BarOf(ev, tk[y].ts) <= k
      BY <1>4, <1>6, <3>1
    <3> QED
      BY <1>2, <3>1, <3>2
  <2> QED
    BY <1>1, <2>2, <2>3, <2>4
<1> HIDE DEF S
<1>9. Max(S) \in S /\ \A y \in S : y <= Max(S)
  BY <1>1, <1>8, MaxExists
<1>10. Max(T) = Max(S)
  <2>1. T \in SUBSET Int /\ Max(S) \in T /\ Max(S) \in Nat /\ 2 <= Max(S)
    <3>1. 1..Len(tk) \subseteq Int
      BY <1>1
    <3> QED
      BY <1>7, <1>8, <1>9, <3>1
  <2>2. \A y \in T : y <= Max(S)
    BY <1>8, <1>9, <2>1
  <2> QED
    BY <2>1, <2>2, MaxIs
<1> QED
  BY <1>3, <1>10 DEF T, ev

(* For every window, depth and order of snapshots, diffs and gaps, a bar's *)
(* flow is the sum of what the replay found in its time, and its mid the   *)
(* last one before its end (ofi.py, compute_ofi_time_windows).             *)
THEOREM BarsMatchTheTape == Spec => []BarsAreExact
<1>1. FlowInv /\ StreamInv /\ TickInv => BarsAreExact
  <2> SUFFICES ASSUME FlowInv, StreamInv, TickInv, feed = "book",
                      NEW m \in 1..Levels, NEW k \in Bars(Events(Ticks(tape), m))
               PROVE  /\ BarSum(Events(Ticks(tape), m), k) =
                           Total([n \in DOMAIN tape |-> IF n \in CountedIn(tape, Ticks(tape), m, k)
                                                        THEN Batch(Ticks(tape), m)[n] ELSE 0])
                      /\ BarMid2(Ticks(tape), Events(Ticks(tape), m), k) =
                           Mid2(Ticks(tape)[Max(TickBefore(Ticks(tape), Events(Ticks(tape), m), k))].book)
    BY DEF BarsAreExact, OnBook, CountedIn, TickBefore, StartOf
  <2> DEFINE tk == Ticks(tape)
  <2>1. tk \in Seq(Tick) /\ TicksAscend(tk)
    BY ReadTicksAscend
  <2>2. tk = Reading(tape).ticks /\ IsTape(tape)
    BY DEF Ticks, Reading, IsTape, FlowInv
  <2>3. InOrder(tk) /\ Placed(tk, tape)
    BY <2>2 DEF TickInv, StreamInv, Ordered, InOrder
  <2>4. Len(tk) > 1
    <3>1. Len(tk) \in Nat
      BY <2>1
    <3>2. Len(tk) <= 1 => Bars(Events(tk, m)) = {}
      BY <2>1, EventsAre DEF Bars
    <3> QED
      BY <3>1, <3>2
  <2> HIDE DEF tk
  <2> SUFFICES /\ BarSum(Events(tk, m), k) =
                    Total([n \in DOMAIN tape |-> IF n \in CountedIn(tape, tk, m, k)
                                                 THEN Batch(tk, m)[n] ELSE 0])
               /\ BarMid2(tk, Events(tk, m), k) = Mid2(tk[Max(TickBefore(tk, Events(tk, m), k))].book)
    BY DEF tk
  <2>5. k \in Bars(Events(tk, m))
    BY DEF tk
  <2> QED
    BY <2>1, <2>2, <2>3, <2>4, <2>5, BarHolds, BarEnds
<1>. QED
  BY <1>1, FlowInvInitially, FlowInvStep, StreamInvInitially, StreamInvStep,
     TickInvInitially, TickInvStep, PTL DEF Spec

-----------------------------------------------------------------------------
\* The trades, as they are printed and as they are kept.

Prices == {t.px : t \in Trades}
Printed == [px : Prices, qty : Nat, sign : {-1, 1}, ts : Int]
Filled == {t \in Printed : t.qty > 0}

(* The trades with volume, one after another.                              *)
LEMMA KeptLoop ==
  ASSUME NEW s \in Seq(Printed)
  PROVE  /\ Kept(s) = KeptTable(s)[Len(s)] /\ KeptTable(s)[0] = << >>
         /\ \A i \in 1..Len(s) :
              KeptTable(s)[i] = IF s[i].qty > 0 THEN Append(KeptTable(s)[i - 1], s[i])
                                ELSE KeptTable(s)[i - 1]
         /\ \A i \in 0..Len(s) : KeptTable(s)[i] \in Seq(Filled)
<1> DEFINE n == Len(s)
           T == Seq(Filled)
           start == << >>
           step == [i \in 1..n |-> [c \in T |-> IF s[i].qty > 0 THEN Append(c, s[i]) ELSE c]]
           Is(t) == t = [i \in 0..n |-> IF i = 0 THEN << >>
                                        ELSE IF s[i].qty > 0 THEN Append(t[i - 1], s[i]) ELSE t[i - 1]]
<1>1. n \in Nat /\ start \in T /\ \A i \in 1..n : s[i] \in Printed
  OBVIOUS
<1>2. ASSUME NEW i \in 1..n, NEW c \in T
      PROVE  (IF s[i].qty > 0 THEN Append(c, s[i]) ELSE c) \in T
  <2>1. s[i].qty > 0 => s[i] \in Filled
    BY <1>1 DEF Filled
  <2> QED
    BY <2>1
<1>3. step \in [1..n -> [T -> T]]
  <2> HIDE DEF T
  <2> QED
    BY <1>2
<1>4. \A i \in 1..n, c \in T : step[i][c] = IF s[i].qty > 0 THEN Append(c, s[i]) ELSE c
  <2> HIDE DEF T
  <2> QED
    OBVIOUS
<1>5. KeptTable(s) = CHOOSE t : Is(t)
  BY DEF KeptTable
<1> HIDE DEF n, T, start, step
<1>6. PICK t : LoopTable(t, n, T, start, step)
  BY <1>1, <1>3, LoopFound
<1>7. /\ t = [i \in 0..n |-> t[i]] /\ t[0] = start
      /\ \A i \in 1..n : t[i] = step[i][t[i - 1]]
      /\ \A i \in 0..n : t[i] \in T
  BY <1>6 DEF LoopTable
<1>8. Is(t)
  <2>1. ASSUME NEW i \in 0..n
        PROVE  t[i] = IF i = 0 THEN << >>
                      ELSE IF s[i].qty > 0 THEN Append(t[i - 1], s[i]) ELSE t[i - 1]
    <3>1. CASE i = 0
      BY <1>7, <3>1 DEF start
    <3>2. CASE i # 0
      <4>1. i \in 1..n /\ i - 1 \in 0..n
        BY <1>1, <3>2
      <4>2. t[i] = step[i][t[i - 1]] /\ t[i - 1] \in T
        BY <1>7, <4>1
      <4> QED
        BY <1>4, <3>2, <4>1, <4>2
    <3> QED
      BY <3>1, <3>2
  <2> QED
    BY <1>7, <2>1
<1>9. PICK g : g = KeptTable(s) /\ Is(g)
  <2> HIDE DEF Is
  <2> QED
    BY <1>5, <1>8
<1>10. /\ g[0] = << >>
       /\ \A i \in 1..n : g[i] = IF s[i].qty > 0 THEN Append(g[i - 1], s[i]) ELSE g[i - 1]
  <2>1. \A i \in 0..n : g[i] = IF i = 0 THEN << >>
                               ELSE IF s[i].qty > 0 THEN Append(g[i - 1], s[i]) ELSE g[i - 1]
    BY <1>9
  <2>2. 0 \in 0..n /\ \A i \in 1..n : i \in 0..n /\ i # 0
    BY <1>1
  <2> HIDE DEF Is
  <2> QED
    BY <2>1, <2>2
<1>11. \A i \in 0..n : g[i] \in T
  <2>1. g[0] \in T
    BY <1>1, <1>10 DEF start
  <2>2. \A i \in 1..n : g[i - 1] \in T => g[i] \in T
    BY <1>2, <1>10
  <2> QED
    BY <1>1, <2>1, <2>2, LoopStays
<1>12. Kept(s) = g[n]
  BY <1>9 DEF Kept, n
<1> QED
  BY <1>9, <1>10, <1>11, <1>12 DEF n, T

(* One more trade: kept when it has volume.                                *)
LEMMA KeptOn ==
  ASSUME NEW s \in Seq(Printed), NEW t \in Printed
  PROVE  /\ Kept(s) \in Seq(Filled)
         /\ Kept(Append(s, t)) = IF t.qty > 0 THEN Append(Kept(s), t) ELSE Kept(s)
<1> DEFINE n == Len(s)
           u == Append(s, t)
           S == KeptTable(s)
           U == KeptTable(u)
           Q == {i \in 0..n : U[i] = S[i]}
<1>1. n \in Nat /\ u \in Seq(Printed) /\ Len(u) = n + 1 /\ u[n + 1] = t /\ \A i \in 1..n : u[i] = s[i]
  OBVIOUS
<1>2. /\ Kept(s) = S[n] /\ S[0] = << >>
      /\ \A i \in 1..n : S[i] = IF s[i].qty > 0 THEN Append(S[i - 1], s[i]) ELSE S[i - 1]
      /\ \A i \in 0..n : S[i] \in Seq(Filled)
  BY KeptLoop
<1> HIDE DEF u, n
<1>3. /\ Kept(u) = U[n + 1] /\ U[0] = << >>
      /\ \A i \in 1..(n + 1) : U[i] = IF u[i].qty > 0 THEN Append(U[i - 1], u[i]) ELSE U[i - 1]
  BY <1>1, KeptLoop
<1> HIDE DEF S, U
<1>4. 0 \in Q
  BY <1>1, <1>2, <1>3
<1>5. ASSUME NEW i \in 1..n, i - 1 \in Q PROVE i \in Q
  <2>1. i \in 0..n /\ i \in 1..(n + 1) /\ U[i - 1] = S[i - 1] /\ u[i] = s[i]
    BY <1>1, <1>5
  <2> QED
    BY <1>2, <1>3, <2>1
<1> HIDE DEF Q
<1>6. n \in Q
  <2>1. \A i \in 0..n : i \in Q
    BY <1>1, <1>4, <1>5, CountUp
  <2> QED
    BY <1>1, <2>1
<1>7. U[n] = S[n]
  BY <1>6 DEF Q
<1>8. U[n + 1] = IF t.qty > 0 THEN Append(U[n], t) ELSE U[n]
  <2>1. n + 1 \in 1..(n + 1) /\ (n + 1) - 1 = n
    BY <1>1
  <2> QED
    BY <1>1, <1>3, <2>1
<1>9. S[n] \in Seq(Filled)
  BY <1>1, <1>2
<1> QED
  BY <1>2, <1>3, <1>7, <1>8, <1>9 DEF u

(* Before the first trade.                                                 *)
LEMMA NoneKept == Kept(<< >>) = << >>
<1>1. << >> \in Seq(Printed) /\ Len(<< >>) = 0
  OBVIOUS
<1> QED
  BY <1>1, KeptLoop

-----------------------------------------------------------------------------
\* The volume so far, and what was bought of it.

(* The cumulative volume, trade by trade.                                  *)
LEMMA VolumeIs ==
  ASSUME NEW s \in Seq(Filled)
  PROVE  /\ Volume(s, 0) = 0 /\ \A i \in 0..Len(s) : Volume(s, i) \in Nat
         /\ \A i \in 1..Len(s) : Volume(s, i) = Volume(s, i - 1) + s[i].qty
<1> DEFINE n == Len(s)
           qty == [i \in 1..n |-> s[i].qty]
           V == TotalTable(qty)
<1>1. n \in Nat /\ \A i \in 1..n : s[i].qty \in Nat
  BY DEF Filled, Printed
<1>2. qty \in [1..n -> Int] /\ \A i \in 1..n : qty[i] = s[i].qty
  BY <1>1
<1>3. ASSUME NEW i \in 0..n PROVE Volume(s, i) = V[i]
  <2> DEFINE f == [j \in 1..i |-> s[j].qty]
  <2>1. i \in Nat /\ i <= n /\ f \in [1..i -> Int] /\ \A j \in 1..i : qty[j] = f[j]
    BY <1>1
  <2>2. Volume(s, i) = Total(f)
    BY DEF Volume
  <2> HIDE DEF f, qty, n
  <2> QED
    BY <1>1, <1>2, <2>1, <2>2, SumBegins
<1> HIDE DEF qty
<1>4. /\ V \in [0..n -> Int] /\ V[0] = 0
      /\ \A i \in 1..n : V[i] = V[i - 1] + qty[i]
  BY <1>1, <1>2, SumLoop
<1> HIDE DEF V
<1>5. \A i \in 0..n : V[i] \in Nat
  <2>1. V[0] \in Nat /\ \A i \in 1..n : V[i - 1] \in Nat => V[i] \in Nat
    BY <1>1, <1>2, <1>4
  <2> QED
    BY <1>1, <2>1, LoopStays
<1>6. ASSUME NEW i \in 1..n PROVE Volume(s, i) = Volume(s, i - 1) + s[i].qty
  <2>1. i \in 0..n /\ i - 1 \in 0..n
    BY <1>1
  <2> QED
    BY <1>2, <1>3, <1>4, <2>1
<1>7. 0 \in 0..n
  BY <1>1
<1> QED
  BY <1>3, <1>4, <1>5, <1>6, <1>7 DEF n

(* It never falls.                                                         *)
LEMMA VolumeGrows ==
  ASSUME NEW s \in Seq(Filled), NEW i \in 0..Len(s), NEW j \in 0..Len(s), i <= j
  PROVE  Volume(s, i) <= Volume(s, j)
<1> DEFINE n == Len(s)
           v == [k \in 0..n |-> Volume(s, k)]
           Q == {k \in 0..(n - i) : v[i] <= v[i + k]}
<1>1. n \in Nat /\ i \in 0..n /\ j \in 0..n /\ \A k \in 1..n : s[k].qty \in Nat
  BY DEF Filled, Printed
<1>2. /\ \A k \in 0..n : v[k] = Volume(s, k) /\ v[k] \in Nat
      /\ \A k \in 1..n : v[k] = v[k - 1] + s[k].qty
  BY VolumeIs
<1> HIDE DEF v, n
<1>3. n - i \in Nat /\ 0 \in Q
  BY <1>1, <1>2
<1>4. ASSUME NEW k \in 1..(n - i), k - 1 \in Q PROVE k \in Q
  <2>1. i + k \in 1..n /\ (i + k) - 1 = i + (k - 1) /\ i + (k - 1) \in 0..n /\ k \in 0..(n - i)
    BY <1>1
  <2>2. v[i] <= v[i + (k - 1)]
    BY <1>4
  <2>3. v[i + k] = v[i + (k - 1)] + s[i + k].qty /\ s[i + k].qty \in Nat
    BY <1>1, <1>2, <2>1
  <2>4. v[i] \in Nat /\ v[i + (k - 1)] \in Nat
    BY <1>1, <1>2, <2>1
  <2>5. v[i] <= v[i + k]
    BY <2>2, <2>3, <2>4
  <2> QED
    BY <2>1, <2>5
<1> HIDE DEF Q
<1>5. \A k \in 0..(n - i) : k \in Q
  BY <1>3, <1>4, CountUp
<1>6. j - i \in 0..(n - i) /\ i + (j - i) = j
  BY <1>1
<1>7. v[i] <= v[j]
  BY <1>5, <1>6 DEF Q
<1> QED
  BY <1>1, <1>2, <1>7

(* One more trade leaves the volumes before it.                            *)
LEMMA VolumeOn ==
  ASSUME NEW s \in Seq(Filled), NEW t \in Filled, NEW i \in 0..Len(s)
  PROVE  Volume(Append(s, t), i) = Volume(s, i)
<1>1. \A j \in 1..i : Append(s, t)[j] = s[j]
  OBVIOUS
<1>2. [j \in 1..i |-> Append(s, t)[j].qty] = [j \in 1..i |-> s[j].qty]
  BY <1>1
<1> QED
  BY <1>2 DEF Volume

\* What of the first x was bought in trade i.
Part(buy, q, a, x) == IF buy /\ x > a THEN Least(q, x - a) ELSE 0

Share(s, x, i) == Part(s[i].sign > 0, s[i].qty, Volume(s, i - 1), x)

(* What a trade has bought grows with the volume looked at, no faster than *)
(* it.                                                                     *)
LEMMA ShareGrows ==
  ASSUME NEW x \in Nat, NEW y \in Nat, x <= y, NEW a \in Nat, NEW q \in Nat, NEW buy \in BOOLEAN
  PROVE  /\ Part(buy, q, a, x) \in Nat /\ Part(buy, q, a, y) \in Nat
         /\ Part(buy, q, a, x) <= Part(buy, q, a, y)
         /\ Part(buy, q, a, y) - Part(buy, q, a, x)
              <= (Least(y, a + q) - Least(x, a + q)) - (Least(y, a) - Least(x, a))
<1>1. /\ Part(buy, q, a, x) \in Nat /\ Part(buy, q, a, y) \in Nat
      /\ Part(buy, q, a, x) <= Part(buy, q, a, y)
  BY DEF Part, Least
<1>2. CASE buy
  BY <1>2, SMTT(30) DEF Part, Least
<1>3. CASE ~buy
  BY <1>3, SMTT(30) DEF Part, Least
<1> QED
  BY <1>1, <1>2, <1>3

(* The bought volume grows with the volume, and no faster.                 *)
LEMMA BoughtGrows ==
  ASSUME NEW s \in Seq(Filled), NEW x \in Nat, NEW y \in Nat, x <= y
  PROVE  /\ BoughtAt(s, x) \in Int /\ BoughtAt(s, y) \in Int
         /\ BoughtAt(s, x) <= BoughtAt(s, y) /\ BoughtAt(s, y) - BoughtAt(s, x) <= y - x
<1> DEFINE n == Len(s)
           v == [i \in 0..n |-> Volume(s, i)]
           f == [i \in 1..n |-> Share(s, x, i)]
           g == [i \in 1..n |-> Share(s, y, i)]
           F == TotalTable(f)
           G == TotalTable(g)
           grown == [i \in 0..n |-> Least(y, v[i]) - Least(x, v[i])]
           Q == {i \in 0..n : F[i] <= G[i] /\ G[i] - F[i] <= grown[i]}
<1>1. n \in Nat /\ \A i \in 1..n : s[i].qty \in Nat
  BY DEF Filled, Printed
<1>2. /\ v[0] = 0 /\ \A i \in 0..n : v[i] \in Nat /\ v[i] = Volume(s, i)
      /\ \A i \in 1..n : v[i] = v[i - 1] + s[i].qty
  BY VolumeIs
<1>3. BoughtAt(s, x) = Total(f) /\ BoughtAt(s, y) = Total(g)
  BY DEF BoughtAt, Share, Part
<1> HIDE DEF v, n
<1>4. ASSUME NEW i \in 1..n
      PROVE  /\ f[i] \in Nat /\ g[i] \in Nat /\ f[i] <= g[i]
             /\ grown[i] \in Int /\ grown[i - 1] \in Int
             /\ g[i] - f[i] <= grown[i] - grown[i - 1]
  <2> DEFINE a == v[i - 1]
             q == s[i].qty
             buy == s[i].sign > 0
  <2>1. i - 1 \in 0..n /\ a \in Nat /\ q \in Nat /\ v[i] = a + q /\ a = Volume(s, i - 1)
    BY <1>1, <1>2
  <2>2. f[i] = Part(buy, q, a, x) /\ g[i] = Part(buy, q, a, y)
    BY <2>1 DEF Share
  <2>3. buy \in BOOLEAN
    OBVIOUS
  <2> HIDE DEF a, q, buy, f, g
  <2>4. /\ Part(buy, q, a, x) \in Nat /\ Part(buy, q, a, y) \in Nat
        /\ Part(buy, q, a, x) <= Part(buy, q, a, y)
        /\ Part(buy, q, a, y) - Part(buy, q, a, x)
             <= (Least(y, a + q) - Least(x, a + q)) - (Least(y, a) - Least(x, a))
    BY <2>1, <2>3, ShareGrows
  <2>5. /\ Least(y, a + q) - Least(x, a + q) = grown[i]
        /\ Least(y, a) - Least(x, a) = grown[i - 1]
    BY <1>1, <2>1 DEF a
  <2>6. grown[i] \in Int /\ grown[i - 1] \in Int
    BY <1>1, <2>1 DEF a, Least
  <2> DEFINE d == grown[i]
             d1 == grown[i - 1]
             gi == g[i]
             fi == f[i]
  <2>7. /\ fi \in Nat /\ gi \in Nat /\ fi <= gi /\ d \in Int /\ d1 \in Int
        /\ Least(y, a + q) - Least(x, a + q) = d /\ Least(y, a) - Least(x, a) = d1
        /\ gi - fi <= (Least(y, a + q) - Least(x, a + q)) - (Least(y, a) - Least(x, a))
    BY <2>2, <2>4, <2>5, <2>6
  <2> HIDE DEF d, d1, gi, fi, grown
  <2>8. gi - fi <= d - d1
    BY <2>7
  <2>9. fi \in Nat /\ gi \in Nat /\ fi <= gi /\ d \in Int /\ d1 \in Int
    BY <2>7
  <2> QED
    BY <2>8, <2>9 DEF d, d1, gi, fi
<1>5. f \in [1..n -> Int] /\ g \in [1..n -> Int]
  <2>1. f = [i \in 1..n |-> f[i]] /\ g = [i \in 1..n |-> g[i]]
    OBVIOUS
  <2> HIDE DEF f, g, grown
  <2>2. ASSUME NEW i \in 1..n PROVE f[i] \in Int /\ g[i] \in Int
    BY <1>4
  <2> QED
    BY <2>1, <2>2
<1> HIDE DEF f, g
<1>6. /\ F \in [0..n -> Int] /\ F[0] = 0 /\ Total(f) = F[n]
      /\ \A i \in 1..n : F[i] = F[i - 1] + f[i]
  BY <1>1, <1>5, SumLoop
<1>7. /\ G \in [0..n -> Int] /\ G[0] = 0 /\ Total(g) = G[n]
      /\ \A i \in 1..n : G[i] = G[i - 1] + g[i]
  BY <1>1, <1>5, SumLoop
<1> HIDE DEF F, G
<1>8. 0 \in Q
  BY <1>1, <1>2, <1>6, <1>7 DEF Least
<1>9. ASSUME NEW i \in 1..n, i - 1 \in Q PROVE i \in Q
  <2>1. i - 1 \in 0..n /\ i \in 0..n /\ F[i - 1] <= G[i - 1] /\ G[i - 1] - F[i - 1] <= grown[i - 1]
    BY <1>1, <1>9
  <2>2. /\ F[i] = F[i - 1] + f[i] /\ G[i] = G[i - 1] + g[i] /\ F[i - 1] \in Int /\ G[i - 1] \in Int
        /\ v[i] \in Nat /\ v[i - 1] \in Nat
    BY <1>2, <1>6, <1>7, <2>1
  <2>3. f[i] \in Nat /\ g[i] \in Nat /\ f[i] <= g[i] /\ g[i] - f[i] <= grown[i] - grown[i - 1]
        /\ grown[i] \in Int /\ grown[i - 1] \in Int
    BY <1>4
  <2>4. F[i] <= G[i] /\ G[i] - F[i] <= grown[i]
    <3> DEFINE F1 == F[i - 1]
               G1 == G[i - 1]
               d1 == grown[i - 1]
    <3>1. F1 <= G1 /\ G1 - F1 <= d1 /\ F1 \in Int /\ G1 \in Int /\ d1 \in Int
      BY <2>1, <2>2, <2>3
    <3>2. F[i] = F1 + f[i] /\ G[i] = G1 + g[i] /\ g[i] - f[i] <= grown[i] - d1
      BY <2>2, <2>3
    <3> DEFINE fi == f[i]
               gi == g[i]
               Fi == F[i]
               Gi == G[i]
               d == grown[i]
    <3>3. /\ fi \in Nat /\ gi \in Nat /\ fi <= gi /\ d \in Int
      BY <2>3
    <3>4. Fi = F1 + fi /\ Gi = G1 + gi /\ gi - fi <= d - d1
      BY <3>2
    <3> HIDE DEF F1, G1, d1, grown, fi, gi, Fi, Gi, d
    <3>5. Fi <= Gi
      BY <3>1, <3>3, <3>4
    <3>6. Gi - Fi <= d
      BY <3>1, <3>3, <3>4
    <3> QED
      BY <3>5, <3>6 DEF Fi, Gi, d
  <2> QED
    BY <2>1, <2>4
<1>10. n \in Q
  <2> HIDE DEF Q
  <2>1. \A i \in 0..n : i \in Q
    BY <1>1, <1>8, <1>9, CountUp
  <2> QED
    BY <1>1, <2>1
<1>11. F[n] \in Int /\ G[n] \in Int /\ F[n] <= G[n] /\ G[n] - F[n] <= grown[n] /\ v[n] \in Nat
  BY <1>1, <1>2, <1>6, <1>7, <1>10
<1>12. grown[n] <= y - x /\ grown[n] \in Int
  BY <1>1, <1>11 DEF Least
<1> QED
  BY <1>3, <1>6, <1>7, <1>11, <1>12

(* One more trade changes nothing of what was bought before it, and what is *)
(* bought in it is bought evenly.                                          *)
LEMMA BoughtOn ==
  ASSUME NEW s \in Seq(Filled), NEW t \in Filled, NEW x \in Nat, NEW v, v = Volume(s, Len(s))
  PROVE  /\ x <= v => BoughtAt(Append(s, t), x) = BoughtAt(s, x)
         /\ v <= x /\ x <= v + t.qty =>
              BoughtAt(Append(s, t), x) = BoughtAt(s, v) + (IF t.sign > 0 THEN x - v ELSE 0)
<1> DEFINE n == Len(s)
           u == Append(s, t)
           f(y) == [i \in 1..n |-> Share(s, y, i)]
           g == [i \in 1..(n + 1) |-> Share(u, x, i)]
<1>1. /\ n \in Nat /\ u \in Seq(Filled) /\ Len(u) = n + 1 /\ u[n + 1] = t
      /\ \A i \in 1..n : u[i] = s[i] /\ s[i] \in Filled
      /\ \A r \in Filled : r.qty \in Nat /\ r.qty > 0
      /\ n \in 0..n /\ \A i \in 1..n : i - 1 \in 0..n
  BY DEF Filled, Printed
<1>2. v \in Nat /\ \A i \in 0..n : Volume(s, i) \in Nat
  BY <1>1, VolumeIs
<1>3. ASSUME NEW y \in Nat
      PROVE  f(y) \in [1..n -> Int] /\ BoughtAt(s, y) = Total(f(y))
  <2>1. ASSUME NEW i \in 1..n PROVE Share(s, y, i) \in Int
    <3>1. s[i].qty \in Nat /\ Volume(s, i - 1) \in Nat
      BY <1>1, <1>2
    <3> QED
      BY <3>1 DEF Share, Part, Least
  <2>2. BoughtAt(s, y) = Total(f(y))
    BY DEF BoughtAt, Share, Part
  <2> QED
    BY <2>1, <2>2
<1>4. BoughtAt(u, x) = Total(g)
  BY <1>1 DEF BoughtAt, Share, Part
<1> HIDE DEF u
<1>5. \A i \in 0..n : Volume(u, i) = Volume(s, i)
  BY VolumeOn DEF u
<1>6. \A i \in 1..n : Share(u, x, i) = Share(s, x, i)
  BY <1>1, <1>5 DEF Share
<1>7. Share(u, x, n + 1) = Part(t.sign > 0, t.qty, v, x)
  <2>1. (n + 1) - 1 = n /\ Volume(u, n) = v
    BY <1>1, <1>5
  <2> QED
    BY <1>1, <2>1 DEF Share
<1>8. BoughtAt(u, x) = BoughtAt(s, x) + Part(t.sign > 0, t.qty, v, x)
  <2>1. t.qty \in Nat /\ Part(t.sign > 0, t.qty, v, x) \in Int
    BY <1>1, <1>2 DEF Part, Least
  <2> DEFINE h == f(x)
  <2>2. h \in [1..n -> Int] /\ BoughtAt(s, x) = Total(h) /\ \A i \in 1..n : h[i] = Share(s, x, i)
    BY <1>3
  <2>3. /\ g[n + 1] = Part(t.sign > 0, t.qty, v, x)
        /\ \A i \in 1..n : g[i] = h[i]
    BY <1>1, <1>6, <1>7
  <2>4. g = [i \in 1..(n + 1) |-> g[i]] /\ \A i \in 1..(n + 1) : i \in 1..n \/ i = n + 1
    BY <1>1
  <2> HIDE DEF h, g
  <2>5. g \in [1..(n + 1) -> Int]
    BY <2>1, <2>2, <2>3, <2>4
  <2>6. Total(g) = Total(h) + g[n + 1]
    BY <1>1, <2>2, <2>3, <2>5, SumOneMore
  <2> QED
    BY <1>4, <2>2, <2>3, <2>6
<1>9. CASE x <= v
  <2>1. Part(t.sign > 0, t.qty, v, x) = 0 /\ BoughtAt(s, x) \in Int
    BY <1>2, <1>9, BoughtGrows DEF Part
  <2>2. BoughtAt(u, x) = BoughtAt(s, x)
    BY <1>8, <2>1
  <2>3. v <= x /\ x <= v + t.qty => x = v /\ x - v = 0
    BY <1>2, <1>9
  <2> QED
    BY <2>1, <2>2, <2>3 DEF u
<1>10. CASE v < x
  <2>1. ASSUME NEW i \in 1..n PROVE Share(s, x, i) = Share(s, v, i)
    <3>1. /\ s[i].qty \in Nat /\ s[i].qty > 0 /\ Volume(s, i - 1) \in Nat
          /\ Volume(s, i) = Volume(s, i - 1) + s[i].qty
      BY <1>1, <1>2, VolumeIs
    <3>2. Volume(s, i) <= v
      BY <1>1, VolumeGrows
    <3> DEFINE a == Volume(s, i - 1)
               q == s[i].qty
    <3>3. q \in Nat /\ q > 0 /\ a \in Nat /\ a + q <= v
      BY <3>1, <3>2
    <3>4. Share(s, x, i) = Part(s[i].sign > 0, q, a, x) /\ Share(s, v, i) = Part(s[i].sign > 0, q, a, v)
      BY DEF Share
    <3> HIDE DEF a, q
    <3>5. x > a /\ v > a /\ Least(q, x - a) = q /\ Least(q, v - a) = q
      BY <1>2, <1>10, <3>3 DEF Least
    <3> QED
      BY <3>4, <3>5 DEF Part
  <2>2. f(x) = f(v)
    BY <2>1
  <2>3. BoughtAt(s, x) = BoughtAt(s, v)
    BY <1>2, <1>3, <2>2
  <2>4. x <= v + t.qty => Part(t.sign > 0, t.qty, v, x) = IF t.sign > 0 THEN x - v ELSE 0
    BY <1>1, <1>2, <1>10 DEF Part, Least
  <2> QED
    BY <1>2, <1>8, <1>10, <2>3, <2>4 DEF u
<1> QED
  BY <1>2, <1>9, <1>10

-----------------------------------------------------------------------------
\* The rolling series and the open bucket.

Rolls(n) == IF n >= VpinWindow THEN n - VpinWindow + 1 ELSE 0

(* The rolling series has a number for every full window of buckets.       *)
LEMMA RollingIs ==
  ASSUME NEW a \in Seq(Int)
  PROVE  Rolling(a) \in Seq(Int) /\ Len(Rolling(a)) = Rolls(Len(a))
<1> DEFINE W == VpinWindow
           n == Len(a)
           r == Rolls(n)
           f(i) == [j \in 1..W |-> Imbalanced(a[i + j - 1])]
<1>1. W \in Nat /\ W > 0 /\ n \in Nat /\ r \in Nat /\ BucketSize \in Nat
      /\ 1..(n - W + 1) = 1..r
  BY TradeFlowAssumption DEF Rolls
<1>2. ASSUME NEW i \in 1..r PROVE Total(f(i)) \in Int
  <2>1. ASSUME NEW j \in 1..W PROVE Imbalanced(a[i + j - 1]) \in Int
    <3>1. i + j - 1 \in 1..n
      BY <1>1 DEF Rolls
    <3>2. a[i + j - 1] \in Int
      BY <3>1
    <3> QED
      BY <1>1, <3>2 DEF Imbalanced, Distance
  <2> DEFINE h == f(i)
  <2>2. h \in [1..W -> Int]
    BY <2>1
  <2> HIDE DEF h, W
  <2>3. TotalTable(h) \in [0..W -> Int] /\ Total(h) = TotalTable(h)[W]
    BY <1>1, <2>2, SumLoop
  <2>4. Total(h) \in Int
    BY <1>1, <2>3
  <2> QED
    BY <2>4 DEF h
<1>3. Rolling(a) = [i \in 1..r |-> Total(f(i))]
  BY <1>1 DEF Rolling
<1> HIDE DEF f, r
<1>4. Rolling(a) \in [1..r -> Int]
  BY <1>2, <1>3
<1> QED
  BY <1>1, <1>4 DEF r

(* More buckets leave the values before them.                              *)
LEMMA RollingOn ==
  ASSUME NEW a \in Seq(Int), NEW b \in Seq(Int), Len(a) <= Len(b),
         \A i \in 1..Len(a) : b[i] = a[i]
  PROVE  /\ Len(Rolling(a)) <= Len(Rolling(b))
         /\ \A i \in 1..Len(Rolling(a)) : Rolling(b)[i] = Rolling(a)[i]
<1> DEFINE W == VpinWindow
           f(s, i) == [j \in 1..W |-> Imbalanced(s[i + j - 1])]
<1>1. W \in Nat /\ W > 0 /\ Len(a) \in Nat /\ Len(b) \in Nat
  BY TradeFlowAssumption
<1>2. /\ Len(Rolling(a)) = Rolls(Len(a)) /\ Len(Rolling(b)) = Rolls(Len(b))
      /\ Rolls(Len(a)) <= Rolls(Len(b)) /\ Rolls(Len(a)) \in Nat /\ Rolls(Len(b)) \in Nat
  <2>1. Len(Rolling(a)) = Rolls(Len(a)) /\ Len(Rolling(b)) = Rolls(Len(b))
    BY RollingIs
  <2>2. Rolls(Len(a)) <= Rolls(Len(b)) /\ Rolls(Len(a)) \in Nat /\ Rolls(Len(b)) \in Nat
    BY <1>1 DEF Rolls
  <2> QED
    BY <2>1, <2>2
<1>3. ASSUME NEW i \in 1..Rolls(Len(a)) PROVE Rolling(b)[i] = Rolling(a)[i]
  <2>1. i \in 1..(Len(a) - W + 1) /\ i \in 1..(Len(b) - W + 1)
    BY <1>1 DEF Rolls
  <2>2. \A j \in 1..W : b[i + j - 1] = a[i + j - 1]
    <3> SUFFICES ASSUME NEW j \in 1..W PROVE b[i + j - 1] = a[i + j - 1]
      OBVIOUS
    <3>1. i + j - 1 \in 1..Len(a)
      BY <1>1, <2>1
    <3> QED
      BY <3>1
  <2>3. f(b, i) = f(a, i)
    BY <2>2
  <2>4. Rolling(a)[i] = Total(f(a, i)) /\ Rolling(b)[i] = Total(f(b, i))
    BY <2>1 DEF Rolling
  <2> HIDE DEF f
  <2> QED
    BY <2>3, <2>4
<1> QED
  BY <1>2, <1>3

\* The buckets' closing prices with the price before the first.
Closing(first, closes) == closes \in Seq(Prices) /\ (closes = << >> \/ first \in Prices)

(* The bulk classification of the closed buckets, close by close.          *)
LEMMA BulkBuysAre ==
  ASSUME NEW first, NEW closes, Closing(first, closes)
  PROVE  /\ BulkBuys(first, closes) \in Seq(Int) /\ Len(BulkBuys(first, closes)) = Len(closes)
         /\ \A j \in 1..Len(closes) :
              BulkBuys(first, closes)[j]
                = Phi(closes[j] - (IF j = 1 THEN first ELSE closes[j - 1]))
<1>1. closes \in Seq(Prices) /\ DOMAIN closes = 1..Len(closes) /\ Len(closes) \in Nat
      /\ \A j \in 1..Len(closes) : closes[j] \in Prices
  BY DEF Closing
<1>2. ASSUME NEW j \in 1..Len(closes)
      PROVE  Phi(closes[j] - (IF j = 1 THEN first ELSE closes[j - 1])) \in Int
  <2>1. closes[j] \in Prices /\ (IF j = 1 THEN first ELSE closes[j - 1]) \in Prices
    <3>1. closes # << >>
      BY <1>1
    <3>2. j # 1 => j - 1 \in 1..Len(closes)
      BY <1>1
    <3> QED
      BY <1>1, <3>1, <3>2 DEF Closing
  <2>2. PICK s \in Trades : s.px = closes[j]
    BY <2>1 DEF Prices
  <2>3. PICK t \in Trades : t.px = IF j = 1 THEN first ELSE closes[j - 1]
    BY <2>1 DEF Prices
  <2>4. Phi(s.px - t.px) \in 0..BucketSize
    BY MetricsAssumption
  <2> QED
    BY <2>2, <2>3, <2>4, TradeFlowAssumption
<1>3. BulkBuys(first, closes) =
        [j \in 1..Len(closes) |-> Phi(closes[j] - (IF j = 1 THEN first ELSE closes[j - 1]))]
  BY <1>1 DEF BulkBuys
<1>4. BulkBuys(first, closes) \in [1..Len(closes) -> Int]
  BY <1>2, <1>3
<1> QED
  BY <1>1, <1>3, <1>4, SMTT(30)

\* A sound accumulator: its open bucket is not full, it has a price before the
\* first close, and it has emitted its series.
Account == [vol : Nat, bought : Nat, buys : Seq(Nat), closes : Seq(Prices),
            first : Prices \cup {NoPrice}, emitted : Seq(Int)]

Kind(acc, class) ==
  /\ acc \in Account /\ Len(acc.buys) = Len(acc.closes)
  /\ acc.closes = << >> \/ acc.first \in Prices
  /\ acc.bought <= acc.vol
  /\ acc.emitted = Series(acc, class)

Sound(acc, class) == Kind(acc, class) /\ acc.vol + Tol < BucketSize

\* What the series is made of.
BuysOf(acc, class) == IF class = "bvc" THEN BulkBuys(acc.first, acc.closes) ELSE acc.buys

(* The rolling series is made of one buy volume for every closed bucket.   *)
LEMMA SeriesIs ==
  ASSUME NEW acc \in Account, NEW class, Len(acc.buys) = Len(acc.closes),
         acc.closes = << >> \/ acc.first \in Prices
  PROVE  /\ BuysOf(acc, class) \in Seq(Int) /\ Len(BuysOf(acc, class)) = Len(acc.closes)
         /\ Series(acc, class) = Rolling(BuysOf(acc, class)) /\ Series(acc, class) \in Seq(Int)
<1>1. acc.closes \in Seq(Prices) /\ acc.buys \in Seq(Int)
  <2>1. acc.buys \in Seq(Nat)
    BY DEF Account
  <2> QED
    BY <2>1 DEF Account
<1>2. Closing(acc.first, acc.closes)
  BY <1>1 DEF Closing
<1>3. BuysOf(acc, class) \in Seq(Int) /\ Len(BuysOf(acc, class)) = Len(acc.closes)
  BY <1>1, <1>2, BulkBuysAre DEF BuysOf
<1>4. Series(acc, class) = Rolling(BuysOf(acc, class))
  BY DEF Series, BuysOf
<1> QED
  BY <1>3, <1>4, RollingIs

(* One more bucket only adds to what the series is made of.                *)
LEMMA BulkOn ==
  ASSUME NEW first \in Prices, NEW c \in Seq(Prices), NEW px \in Prices
  PROVE  /\ BulkBuys(first, Append(c, px)) \in Seq(Int)
         /\ Len(BulkBuys(first, Append(c, px))) = Len(c) + 1
         /\ \A j \in 1..Len(c) : BulkBuys(first, Append(c, px))[j] = BulkBuys(first, c)[j]
<1> DEFINE n == Len(c)
           d == Append(c, px)
           A == BulkBuys(first, c)
           B == BulkBuys(first, d)
<1>1. /\ n \in Nat /\ d \in Seq(Prices) /\ Len(d) = n + 1 /\ \A i \in 1..n : d[i] = c[i]
      /\ Closing(first, c) /\ Closing(first, d)
  BY DEF Closing
<1> HIDE DEF d
<1>2. /\ A \in Seq(Int) /\ Len(A) = n
      /\ \A j \in 1..n : A[j] = Phi(c[j] - (IF j = 1 THEN first ELSE c[j - 1]))
  BY <1>1, BulkBuysAre
<1>3. /\ B \in Seq(Int) /\ Len(B) = Len(d)
      /\ \A j \in 1..Len(d) : B[j] = Phi(d[j] - (IF j = 1 THEN first ELSE d[j - 1]))
  BY <1>1, BulkBuysAre
<1> HIDE DEF A, B, n
<1>4. ASSUME NEW j \in 1..n PROVE B[j] = A[j]
  <2>1. j \in 1..Len(d) /\ d[j] = c[j] /\ (j # 1 => d[j - 1] = c[j - 1])
    BY <1>1
  <2>2. (IF j = 1 THEN first ELSE d[j - 1]) = IF j = 1 THEN first ELSE c[j - 1]
    BY <2>1
  <2>3. /\ A[j] = Phi(c[j] - (IF j = 1 THEN first ELSE c[j - 1]))
        /\ B[j] = Phi(d[j] - (IF j = 1 THEN first ELSE d[j - 1]))
    BY <1>2, <1>3, <2>1
  <2> QED
    BY <2>1, <2>2, <2>3
<1> QED
  BY <1>1, <1>3, <1>4 DEF A, B, d, n

(* One more closed bucket leaves the buy volumes of the others as they are.*)
LEMMA BuysOn ==
  ASSUME NEW acc \in Account, NEW class, NEW px \in Prices, NEW buy \in Nat,
         Len(acc.buys) = Len(acc.closes), acc.first \in Prices, NEW closed,
         closed.closes = Append(acc.closes, px), closed.buys = Append(acc.buys, buy),
         closed.first = acc.first
  PROVE  /\ BuysOf(closed, class) \in Seq(Int)
         /\ Len(BuysOf(closed, class)) = Len(BuysOf(acc, class)) + 1
         /\ \A i \in 1..Len(BuysOf(acc, class)) : BuysOf(closed, class)[i] = BuysOf(acc, class)[i]
<1>1. acc.closes \in Seq(Prices) /\ acc.buys \in Seq(Nat)
  BY DEF Account
<1>2. CASE class = "bvc"
  <2> DEFINE c == acc.closes
             A == BulkBuys(acc.first, c)
             B == BulkBuys(acc.first, Append(c, px))
  <2>1. /\ B \in Seq(Int) /\ Len(B) = Len(c) + 1
        /\ \A j \in 1..Len(c) : B[j] = A[j]
    BY <1>1, BulkOn
  <2>2. Len(A) = Len(c)
    <3>1. Closing(acc.first, c)
      BY <1>1 DEF Closing
    <3> QED
      BY <3>1, BulkBuysAre
  <2>3. BuysOf(acc, class) = A /\ BuysOf(closed, class) = B
    BY <1>2 DEF BuysOf
  <2> HIDE DEF A, B, c
  <2> QED
    BY <2>1, <2>2, <2>3
<1>3. CASE class # "bvc"
  <2> DEFINE A == acc.buys
             B == Append(A, buy)
  <2>1. BuysOf(acc, class) = A /\ BuysOf(closed, class) = B
    BY <1>3 DEF BuysOf
  <2>2. B \in Seq(Int) /\ Len(B) = Len(A) + 1 /\ \A i \in 1..Len(A) : B[i] = A[i]
    BY <1>1
  <2> HIDE DEF A, B
  <2> QED
    BY <2>1, <2>2
<1> QED
  BY <1>2, <1>3

(* What a closing bucket does.                                             *)
LEMMA CloseIs ==
  ASSUME NEW acc, NEW class, NEW px \in Prices, Kind(acc, class), acc.first \in Prices,
         acc.vol <= BucketSize
  PROVE  /\ Kind(Close(acc, px, class), class)
         /\ Close(acc, px, class).vol = 0 /\ Close(acc, px, class).bought = 0
         /\ Close(acc, px, class).first = acc.first
         /\ Close(acc, px, class).buys = Append(acc.buys, acc.bought)
         /\ Close(acc, px, class).closes = Append(acc.closes, px)
<1> DEFINE closed == [acc EXCEPT !.vol = 0, !.bought = 0,
                                 !.buys = Append(@, Least(acc.bought, BucketSize)),
                                 !.closes = Append(@, px)]
           series == Series(closed, class)
           done == [closed EXCEPT !.emitted = @ \o SubSeq(series, Len(@) + 1, Len(series))]
<1>1. Close(acc, px, class) = done
  BY DEF Close
<1>2. acc \in Account /\ Len(acc.buys) = Len(acc.closes) /\ acc.bought <= acc.vol
      /\ acc.emitted = Series(acc, class)
  BY DEF Kind
<1>3. /\ acc.vol \in Nat /\ acc.bought \in Nat /\ acc.buys \in Seq(Nat) /\ acc.closes \in Seq(Prices)
      /\ acc.first \in Prices \cup {NoPrice} /\ acc.emitted \in Seq(Int)
  BY <1>2 DEF Account
<1>3a. Least(acc.bought, BucketSize) = acc.bought
  BY <1>2, <1>3, TradeFlowAssumption DEF Least
<1>4. closed = [acc EXCEPT !.vol = 0, !.bought = 0, !.buys = Append(@, acc.bought),
                           !.closes = Append(@, px)]
  BY <1>3a
<1> DEFINE buys == Append(acc.buys, acc.bought)
           closes == Append(acc.closes, px)
<1>4a. /\ closed.emitted = acc.emitted /\ closed.first = acc.first
       /\ closed.closes = closes /\ closed.buys = buys
       /\ closed.vol = 0 /\ closed.bought = 0
  <2> HIDE DEF buys, closes
  <2>1. closed = [acc EXCEPT !.vol = 0, !.bought = 0, !.buys = buys, !.closes = closes]
    BY <1>4 DEF buys, closes
  <2> HIDE DEF closed
  <2> QED
    BY <1>2, <2>1 DEF Account
<1>4b. /\ buys \in Seq(Nat) /\ closes \in Seq(Prices) /\ closes # << >>
       /\ Len(buys) = Len(acc.buys) + 1 /\ Len(closes) = Len(acc.closes) + 1
  <2>1. buys \in Seq(Nat) /\ Len(buys) = Len(acc.buys) + 1
    BY <1>3
  <2>2. closes \in Seq(Prices) /\ Len(closes) = Len(acc.closes) + 1 /\ Len(acc.closes) \in Nat
    BY <1>3
  <2>3. closes # << >>
    BY <2>2
  <2> QED
    BY <2>1, <2>2, <2>3
<1>4c. closed \in Account
  <2>1. closed = [acc EXCEPT !.vol = 0, !.bought = 0, !.buys = buys, !.closes = closes]
    BY <1>4
  <2> DEFINE A == Seq(Nat)
             B == Seq(Prices)
             C == Prices \cup {NoPrice}
             D == Seq(Int)
  <2>2. Account = [vol : Nat, bought : Nat, buys : A, closes : B, first : C, emitted : D]
    BY DEF Account
  <2>3. buys \in A /\ closes \in B
    BY <1>4b
  <2> HIDE DEF closed, buys, closes, A, B, C, D
  <2> QED
    BY <1>2, <2>1, <2>2, <2>3
<1> HIDE DEF closed
<1>5. Len(closed.buys) = Len(closed.closes) /\ closed.closes # << >>
  BY <1>2, <1>4a, <1>4b
<1> DEFINE a == BuysOf(acc, class)
           b == BuysOf(closed, class)
<1>6. b \in Seq(Int) /\ Len(b) = Len(a) + 1 /\ \A i \in 1..Len(a) : b[i] = a[i]
  BY <1>2, <1>3, <1>4a, BuysOn, SMTT(30)
<1>6a. acc.closes = << >> \/ acc.first \in Prices
  OBVIOUS
<1>7. /\ a \in Seq(Int) /\ acc.emitted = Rolling(a) /\ acc.emitted \in Seq(Int)
      /\ series = Rolling(b) /\ series \in Seq(Int)
  <2>1. a \in Seq(Int) /\ acc.emitted = Rolling(a)
    BY <1>2, <1>6a, SeriesIs
  <2>2. series = Rolling(b) /\ series \in Seq(Int)
    BY <1>4a, <1>4c, <1>5, SeriesIs
  <2> QED
    BY <1>3, <2>1, <2>2
<1> HIDE DEF a, b
<1>8. /\ Len(acc.emitted) <= Len(series)
      /\ \A i \in 1..Len(acc.emitted) : series[i] = acc.emitted[i]
  <2>1. Len(a) <= Len(b)
    BY <1>6, <1>7
  <2> HIDE DEF series
  <2>2. /\ Len(Rolling(a)) <= Len(Rolling(b))
        /\ \A i \in 1..Len(Rolling(a)) : Rolling(b)[i] = Rolling(a)[i]
    BY <1>6, <1>7, <2>1, RollingOn
  <2> QED
    BY <1>7, <2>2
<1> HIDE DEF series
<1>9. acc.emitted \o SubSeq(series, Len(acc.emitted) + 1, Len(series)) = series
  <2> DEFINE e == acc.emitted
             tail == SubSeq(series, Len(e) + 1, Len(series))
  <2>1. /\ e \in Seq(Int) /\ series \in Seq(Int) /\ Len(e) <= Len(series)
        /\ Len(e) \in Nat /\ Len(series) \in Nat
        /\ \A i \in 1..Len(e) : series[i] = e[i]
    BY <1>7, <1>8
  <2> HIDE DEF e
  <2>2. /\ tail \in Seq(Int) /\ Len(tail) = Len(series) - Len(e)
        /\ \A i \in 1..Len(tail) : tail[i] = series[Len(e) + i]
    BY <2>1, SMTT(30)
  <2> HIDE DEF tail
  <2>3. /\ e \o tail \in Seq(Int) /\ Len(e \o tail) = Len(series)
        /\ \A i \in 1..Len(series) :
             (e \o tail)[i] = IF i <= Len(e) THEN e[i] ELSE tail[i - Len(e)]
    BY <2>1, <2>2
  <2>4. \A i \in 1..Len(series) : (e \o tail)[i] = series[i]
    <3> SUFFICES ASSUME NEW i \in 1..Len(series) PROVE (e \o tail)[i] = series[i]
      OBVIOUS
    <3>1. CASE i <= Len(e)
      BY <2>1, <2>3, <3>1
    <3>2. CASE ~(i <= Len(e))
      <4>1. i - Len(e) \in 1..Len(tail) /\ Len(e) + (i - Len(e)) = i
        BY <2>1, <2>2, <3>2
      <4> QED
        BY <2>2, <2>3, <3>2, <4>1
    <3> QED
      BY <3>1, <3>2
  <2>5. e \o tail = series
    <3> DEFINE n == Len(series)
               w == e \o tail
    <3>1. w \in Seq(Int) /\ Len(w) = n /\ \A i \in 1..n : w[i] = series[i]
      BY <2>3, <2>4
    <3> HIDE DEF w
    <3>2. w = [i \in 1..n |-> w[i]]
      BY <3>1
    <3>3. series = [i \in 1..n |-> series[i]]
      BY <2>1
    <3>4. w = series
      <4> HIDE DEF n
      <4> QED
        BY <3>1, <3>2, <3>3
    <3> QED
      BY <3>4 DEF w
  <2> QED
    BY <2>5 DEF e, tail
<1>10. done = [closed EXCEPT !.emitted = series]
  BY <1>4, <1>4a, <1>9
<1>11. /\ done \in Account /\ done.emitted = series /\ done.closes = closed.closes
       /\ done.buys = closed.buys /\ done.first = closed.first
       /\ done.vol = 0 /\ done.bought = 0
  BY <1>4a, <1>4c, <1>7, <1>10 DEF Account
<1>12. Series(done, class) = series
  BY <1>11 DEF Series, series
<1> HIDE DEF done
<1> QED
  BY <1>1, <1>2, <1>4a, <1>5, <1>11, <1>12 DEF Kind

OneMore(s, e) == Append(s, e)

(* What pouring a part of a trade into the open bucket does.               *)
LEMMA FillIs ==
  ASSUME NEW acc, NEW class, NEW t \in Printed, Sound(acc, class), acc.first \in Prices,
         NEW left \in Nat, left > 0,
         NEW take, take = Least(left, BucketSize - acc.vol),
         NEW buy, buy = acc.bought + (IF t.sign > 0 THEN take ELSE 0),
         NEW a, a = Fill(acc, t, take, class)
  PROVE  /\ take \in Nat /\ 0 < take /\ take <= left /\ acc.vol + take <= BucketSize
         /\ take = left \/ acc.vol + take = BucketSize
         /\ Sound(a, class) /\ a.first = acc.first
         /\ Full(acc.vol + take) =>
              /\ a.vol = 0 /\ a.bought = 0
              /\ a.buys = OneMore(acc.buys, buy) /\ a.closes = OneMore(acc.closes, t.px)
         /\ ~Full(acc.vol + take) =>
              /\ a.vol = acc.vol + take /\ a.bought = buy
              /\ a.buys = acc.buys /\ a.closes = acc.closes
<1> DEFINE f == [acc EXCEPT !.vol = @ + take, !.bought = @ + (IF t.sign > 0 THEN take ELSE 0)]
<1>1. /\ acc \in Account /\ Len(acc.buys) = Len(acc.closes) /\ acc.bought <= acc.vol
      /\ acc.emitted = Series(acc, class) /\ acc.vol + Tol < BucketSize
  BY DEF Sound, Kind
<1>2. acc.vol \in Nat /\ acc.bought \in Nat
  BY <1>1 DEF Account
<1>3. BucketSize \in Nat /\ Tol \in Nat /\ Tol < BucketSize
  BY TradeFlowAssumption
<1>4. /\ take \in Nat /\ 0 < take /\ take <= left /\ acc.vol + take <= BucketSize
      /\ take = left \/ acc.vol + take = BucketSize
  <2> DEFINE space == BucketSize - acc.vol
  <2>1. space \in Nat /\ space > 0
    BY <1>1, <1>2, <1>3
  <2>2. take = Least(left, space)
    OBVIOUS
  <2> HIDE DEF space
  <2>3. take \in Nat /\ 0 < take /\ take <= left /\ take <= space /\ (take = left \/ take = space)
    BY <2>1, <2>2 DEF Least
  <2> QED
    BY <1>2, <1>3, <2>3 DEF space
<1>5. buy \in Nat /\ buy <= acc.vol + take
  BY <1>1, <1>2, <1>4
<1> DEFINE v == acc.vol + take
<1>6. v \in Nat /\ v <= BucketSize /\ buy <= v
  BY <1>2, <1>4, <1>5
<1>7. f = [acc EXCEPT !.vol = v, !.bought = buy]
  OBVIOUS
<1>8. t.px \in Prices
  BY DEF Printed
<1>9. a = IF Full(v) THEN Close(f, t.px, class) ELSE f
  <2>1. f.vol = v
    BY <1>1 DEF Account
  <2> HIDE DEF f, v
  <2> QED
    BY <2>1, <1>7 DEF Fill, f
<1> HIDE DEF f, v
<1>10. /\ f \in Account /\ f.vol = v /\ f.bought = buy /\ f.buys = acc.buys
       /\ f.closes = acc.closes /\ f.first = acc.first /\ f.emitted = acc.emitted
  <2> DEFINE A == Seq(Nat)
             B == Seq(Prices)
             C == Prices \cup {NoPrice}
             D == Seq(Int)
  <2>1. Account = [vol : Nat, bought : Nat, buys : A, closes : B, first : C, emitted : D]
    BY DEF Account
  <2> HIDE DEF A, B, C, D
  <2> QED
    BY <1>1, <1>5, <1>6, <1>7, <2>1
<1>11. Kind(f, class)
  <2>1. Series(f, class) = Series(acc, class)
    BY <1>10 DEF Series
  <2> QED
    BY <1>1, <1>6, <1>10, <2>1 DEF Kind
<1>12. CASE Full(v)
  <2> DEFINE c == Close(f, t.px, class)
  <2>1. Kind(c, class) /\ c.vol = 0 /\ c.bought = 0 /\ c.first = f.first
        /\ c.buys = Append(f.buys, f.bought) /\ c.closes = Append(f.closes, t.px)
    BY <1>6, <1>8, <1>10, <1>11, CloseIs, SMTT(30)
  <2>2. a = c
    BY <1>9, <1>12
  <2> HIDE DEF c
  <2>3. Sound(a, class)
    BY <1>3, <2>1, <2>2 DEF Sound
  <2> QED
    <3>1. a.vol = 0 /\ a.bought = 0 /\ a.first = acc.first
      BY <1>10, <2>1, <2>2
    <3>2. a.buys = OneMore(acc.buys, buy) /\ a.closes = OneMore(acc.closes, t.px)
      <4>1. a.buys = Append(f.buys, f.bought) /\ a.closes = Append(f.closes, t.px)
        BY <2>1, <2>2
      <4> QED
        BY <1>10, <4>1 DEF OneMore
    <3> QED
      BY <1>4, <1>12, <2>3, <3>1, <3>2 DEF v
<1>13. CASE ~Full(v)
  <2>1. a = f
    BY <1>9, <1>13
  <2>2. v + Tol < BucketSize
    BY <1>3, <1>6, <1>13 DEF Full
  <2>3. Sound(a, class)
    BY <1>10, <1>11, <2>1, <2>2 DEF Sound
  <2> QED
    BY <1>4, <1>10, <1>13, <2>1, <2>3 DEF v
<1> QED
  BY <1>12, <1>13

\* One turn of the loop of observe.
Turn(p, t, class) ==
  LET take == Least(p.left, BucketSize - p.acc.vol)
  IN  IF p.left = 0 THEN p ELSE [acc |-> Fill(p.acc, t, take, class), left |-> p.left - take]

Turning(class) == {p \in [acc : Account, left : Nat] : Sound(p.acc, class) /\ p.acc.first \in Prices}

(* A turn keeps the accumulator sound and takes nothing it does not have.  *)
LEMMA TurnStays ==
  ASSUME NEW class, NEW t \in Printed, NEW p \in Turning(class)
  PROVE  Turn(p, t, class) \in Turning(class)
<1>1. /\ p = [acc |-> p.acc, left |-> p.left] /\ p.acc \in Account /\ p.left \in Nat
      /\ Sound(p.acc, class) /\ p.acc.first \in Prices
  BY DEF Turning
<1>2. CASE p.left = 0
  BY <1>2 DEF Turn
<1>3. CASE p.left # 0
  <2> DEFINE take == Least(p.left, BucketSize - p.acc.vol)
             a == Fill(p.acc, t, take, class)
             buy == p.acc.bought + (IF t.sign > 0 THEN take ELSE 0)
  <2>1. Turn(p, t, class) = [acc |-> a, left |-> p.left - take]
    BY <1>3 DEF Turn
  <2>2. p.left > 0
    BY <1>1, <1>3
  <2>3. take \in Nat /\ take <= p.left /\ Sound(a, class) /\ a.first = p.acc.first
    <3> DEFINE acc == p.acc
               left == p.left
    <3>1. Sound(acc, class) /\ acc.first \in Prices /\ left \in Nat /\ left > 0
      BY <1>1, <2>2
    <3>2. /\ take = Least(left, BucketSize - acc.vol) /\ a = Fill(acc, t, take, class)
          /\ buy = acc.bought + (IF t.sign > 0 THEN take ELSE 0)
      OBVIOUS
    <3> HIDE DEF acc, left, take, a, buy
    <3>3. take \in Nat /\ take <= left /\ Sound(a, class) /\ a.first = acc.first
      BY <3>1, <3>2, FillIs
    <3> QED
      BY <3>3 DEF acc, left
  <2> HIDE DEF take, a
  <2>4. p.left - take \in Nat /\ a \in Account
    BY <1>1, <2>3 DEF Sound, Kind
  <2> QED
    BY <1>1, <2>1, <2>3, <2>4 DEF Turning
<1> QED
  BY <1>2, <1>3

(* Without a close there is no series yet.                                 *)
LEMMA NothingBulk == \A first : BulkBuys(first, << >>) = << >>
<1> SUFFICES ASSUME NEW first PROVE BulkBuys(first, << >>) = << >>
  OBVIOUS
<1>1. Closing(first, << >>)
  BY DEF Closing
<1>2. BulkBuys(first, << >>) \in Seq(Int) /\ Len(BulkBuys(first, << >>)) = 0
  BY <1>1, BulkBuysAre
<1> QED
  BY <1>2

(* The first price is taken before the first trade is poured.              *)
LEMMA PriceTaken ==
  ASSUME NEW acc, NEW class, NEW t \in Printed, Sound(acc, class),
         NEW a, a = [acc EXCEPT !.first = IF @ = NoPrice THEN t.px ELSE @]
  PROVE  /\ Sound(a, class) /\ a.first \in Prices
         /\ a.first = IF acc.first = NoPrice THEN t.px ELSE acc.first
         /\ a.vol = acc.vol /\ a.bought = acc.bought /\ a.buys = acc.buys
         /\ a.closes = acc.closes /\ a.emitted = acc.emitted
<1>1. /\ acc \in Account /\ Len(acc.buys) = Len(acc.closes) /\ acc.bought <= acc.vol
      /\ acc.emitted = Series(acc, class) /\ acc.vol + Tol < BucketSize
      /\ acc.closes = << >> \/ acc.first \in Prices
  BY DEF Sound, Kind
<1>2. t.px \in Prices /\ acc.first \in Prices \cup {NoPrice}
  BY <1>1 DEF Printed, Account
<1>3. NoPrice \notin Prices
  BY TradeFlowAssumption, MetricsAssumption DEF Prices
<1> DEFINE first == IF acc.first = NoPrice THEN t.px ELSE acc.first
           C == Prices \cup {NoPrice}
           A == Seq(Nat)
           B == Seq(Prices)
           D == Seq(Int)
<1>4. Account = [vol : Nat, bought : Nat, buys : A, closes : B, first : C, emitted : D]
  BY DEF Account
<1>5. first \in Prices /\ first \in C /\ a = [acc EXCEPT !.first = first]
  BY <1>2
<1>6. a.first = first
  <2> HIDE DEF first, A, B, C, D
  <2> QED
    BY <1>1, <1>4, <1>5
<1>7. /\ a \in Account /\ a.vol = acc.vol /\ a.bought = acc.bought
      /\ a.buys = acc.buys /\ a.closes = acc.closes /\ a.emitted = acc.emitted
  <2> HIDE DEF first, A, B, C, D
  <2> QED
    BY <1>1, <1>4, <1>5
<1>8. Series(a, class) = Series(acc, class)
  <2>1. CASE acc.closes = << >>
    BY <1>7, <2>1, NothingBulk DEF Series
  <2>2. CASE acc.closes # << >>
    <3>1. a.first = acc.first
      BY <1>1, <1>3, <1>6, <2>2
    <3> QED
      BY <1>7, <3>1 DEF Series
  <2> QED
    BY <2>1, <2>2
<1> HIDE DEF first
<1> QED
  BY <1>1, <1>5, <1>6, <1>7, <1>8 DEF Sound, Kind, first

Turns(t) == t.qty \div (BucketSize - Tol) + 2

\* The table of the loop of observe, for a trade with volume.
Poured(g, acc, t, class) ==
  /\ g[0] = [acc |-> [acc EXCEPT !.first = IF @ = NoPrice THEN t.px ELSE @], left |-> t.qty]
  /\ \A i \in 1..Turns(t) : g[i] = Turn(g[i - 1], t, class)
  /\ \A i \in 0..Turns(t) : g[i] \in Turning(class)
  /\ ObserveTrade(acc, t, class) = g[Turns(t)].acc

(* There are turns enough for the whole trade.                             *)
LEMMA TurnsAreEnough ==
  ASSUME NEW q \in Nat
  PROVE  LET m == q \div (BucketSize - Tol) IN m \in Nat /\ q < (m + 1) * BucketSize
<1> DEFINE W == BucketSize - Tol
           m == q \div W
<1>1. BucketSize \in Nat /\ Tol \in Nat /\ W \in Nat /\ W > 0 /\ BucketSize = W + Tol
  BY TradeFlowAssumption
<1> HIDE DEF W
<1>2. m \in Nat /\ q < m * W + W
  BY <1>1
<1> HIDE DEF m
<1>3. (m + 1) * BucketSize = (m * W + W) + (m + 1) * Tol
  BY <1>1, <1>2
<1>4. (m + 1) * Tol \in Nat /\ m * W \in Nat
  BY <1>1, <1>2
<1> QED
  BY <1>1, <1>2, <1>3, <1>4 DEF m, W

(* The turns of a trade, one after another, are defined.                   *)
LEMMA PouredExists ==
  ASSUME NEW acc, NEW class, NEW t \in Filled, Sound(acc, class)
  PROVE  Turns(t) \in Nat /\ \E g : Poured(g, acc, t, class)
<1> DEFINE n == Turns(t)
           S == Turning(class)
           a == [acc EXCEPT !.first = IF @ = NoPrice THEN t.px ELSE @]
           start == [acc |-> a, left |-> t.qty]
           step == [i \in 1..n |-> [p \in S |-> Turn(p, t, class)]]
           Is(g) == g = [i \in 0..n |-> IF i = 0 THEN start ELSE Turn(g[i - 1], t, class)]
<1>1. t \in Printed /\ t.qty \in Nat /\ t.qty > 0 /\ ~(t.qty <= 0)
  BY DEF Filled, Printed
<1>2. n \in Nat
  BY <1>1, TurnsAreEnough DEF Turns
<1>3. start \in S
  <2>1. Sound(a, class) /\ a.first \in Prices
    BY <1>1, PriceTaken
  <2> HIDE DEF a
  <2>2. a \in Account
    BY <2>1 DEF Sound, Kind
  <2> QED
    BY <1>1, <2>1, <2>2 DEF Turning
<1>4. \A p \in S : Turn(p, t, class) \in S
  BY <1>1, TurnStays
<1>5. ObserveTrade(acc, t, class) = (CHOOSE g : Is(g))[n].acc
  BY <1>1 DEF ObserveTrade, Turn, Turns
<1> HIDE DEF n, S, start
<1>6. step \in [1..n -> [S -> S]] /\ \A i \in 1..n, p \in S : step[i][p] = Turn(p, t, class)
  BY <1>4
<1> HIDE DEF step
<1>7. PICK h : LoopTable(h, n, S, start, step)
  BY <1>2, <1>3, <1>6, LoopFound
<1>8. /\ h = [i \in 0..n |-> h[i]] /\ h[0] = start
      /\ \A i \in 1..n : h[i] = step[i][h[i - 1]]
      /\ \A i \in 0..n : h[i] \in S
  BY <1>7 DEF LoopTable
<1>9. Is(h)
  <2>1. ASSUME NEW i \in 0..n
        PROVE  h[i] = IF i = 0 THEN start ELSE Turn(h[i - 1], t, class)
    <3>1. CASE i = 0
      BY <1>8, <3>1
    <3>2. CASE i # 0
      <4>1. i \in 1..n /\ i - 1 \in 0..n
        BY <1>2, <3>2
      <4>2. h[i] = step[i][h[i - 1]] /\ h[i - 1] \in S
        BY <1>8, <4>1
      <4> QED
        BY <1>6, <3>2, <4>1, <4>2
    <3> QED
      BY <3>1, <3>2
  <2> QED
    BY <1>8, <2>1
<1>10. PICK g : g = (CHOOSE x : Is(x)) /\ Is(g)
  <2> HIDE DEF Is
  <2> QED
    BY <1>9
<1>11. g[0] = start /\ \A i \in 1..n : g[i] = Turn(g[i - 1], t, class)
  <2>1. \A i \in 0..n : g[i] = IF i = 0 THEN start ELSE Turn(g[i - 1], t, class)
    BY <1>10
  <2>2. 0 \in 0..n /\ \A i \in 1..n : i \in 0..n /\ i # 0
    BY <1>2
  <2> HIDE DEF Is
  <2> QED
    BY <2>1, <2>2
<1>12. \A i \in 0..n : g[i] \in S
  <2>1. g[0] \in S /\ \A i \in 1..n : g[i - 1] \in S => g[i] \in S
    BY <1>3, <1>4, <1>11
  <2> QED
    BY <1>2, <2>1, LoopStays
<1>13. ObserveTrade(acc, t, class) = g[n].acc
  <2> HIDE DEF Is
  <2> QED
    BY <1>5, <1>10
<1> QED
  BY <1>2, <1>11, <1>12, <1>13 DEF Poured, n, S, start, a

(* What one turn does while there is volume left.                          *)
LEMMA TurnIs ==
  ASSUME NEW class, NEW t \in Printed, NEW left \in Nat, left > 0,
         NEW acc, Sound(acc, class), acc.first \in Prices,
         NEW take, take = Least(left, BucketSize - acc.vol),
         NEW buy, buy = acc.bought + (IF t.sign > 0 THEN take ELSE 0),
         NEW r, r = Turn([acc |-> acc, left |-> left], t, class), NEW a, a = r.acc
  PROVE  /\ r.left = left - take /\ take \in Nat /\ 0 < take /\ take <= left
         /\ acc.vol + take <= BucketSize /\ (take = left \/ acc.vol + take = BucketSize)
         /\ a.first = acc.first
         /\ Full(acc.vol + take) =>
              /\ a.vol = 0 /\ a.bought = 0
              /\ a.buys = OneMore(acc.buys, buy) /\ a.closes = OneMore(acc.closes, t.px)
         /\ ~Full(acc.vol + take) =>
              /\ a.vol = acc.vol + take /\ a.bought = buy
              /\ a.buys = acc.buys /\ a.closes = acc.closes
<1> DEFINE f == Fill(acc, t, take, class)
           l == left - take
<1>1. f = Fill(acc, t, take, class)
  OBVIOUS
<1>2. r = [acc |-> f, left |-> l]
  BY DEF Turn
<1> HIDE DEF f
<1>3a. /\ take \in Nat /\ 0 < take /\ take <= left /\ acc.vol + take <= BucketSize
       /\ take = left \/ acc.vol + take = BucketSize
  BY <1>1, FillIs
<1>3b. f.first = acc.first
  BY <1>1, FillIs
<1>3c. Full(acc.vol + take) =>
         /\ f.vol = 0 /\ f.bought = 0
         /\ f.buys = OneMore(acc.buys, buy) /\ f.closes = OneMore(acc.closes, t.px)
  BY <1>1, FillIs
<1>3d. ~Full(acc.vol + take) =>
         /\ f.vol = acc.vol + take /\ f.bought = buy
         /\ f.buys = acc.buys /\ f.closes = acc.closes
  BY <1>1, FillIs
<1> HIDE DEF l
<1>4. r.left = l /\ a = f
  BY <1>2
<1> QED
  BY <1>3a, <1>3b, <1>3c, <1>3d, <1>4 DEF l

(* The turns are enough to pour the whole trade.                           *)
LEMMA PouredWhole ==
  ASSUME NEW acc, NEW class, NEW t \in Filled, NEW g, Poured(g, acc, t, class)
  PROVE  g[Turns(t)].left = 0
<1> DEFINE n == Turns(t)
           m == t.qty \div (BucketSize - Tol)
           L == [i \in 0..n |-> g[i].left]
           v == [i \in 0..n |-> g[i].acc.vol]
           W == [i \in 0..n |-> (i - 1) * BucketSize]
           Q == {i \in 0..n : i = 0 \/ L[i] = 0 \/ (v[i] = 0 /\ L[i] + W[i] <= t.qty)}
<1>1. t \in Printed /\ t.qty \in Nat /\ BucketSize \in Nat /\ Tol \in Nat
  BY TradeFlowAssumption DEF Filled, Printed
<1>2. m \in Nat /\ t.qty < (m + 1) * BucketSize /\ n = m + 2
  BY <1>1, TurnsAreEnough DEF Turns
<1>3. /\ \A i \in 1..n : g[i] = Turn(g[i - 1], t, class)
      /\ \A i \in 0..n : g[i] \in Turning(class)
      /\ g[0].left = t.qty
  BY DEF Poured
<1>4. \A i \in 0..n : L[i] \in Nat /\ L[i] = g[i].left /\ v[i] = g[i].acc.vol /\ v[i] \in Nat
  BY <1>3 DEF Turning, Account
<1>5. /\ \A i \in 0..n : W[i] \in Int
      /\ \A i \in 1..n : W[i] = W[i - 1] + BucketSize
      /\ 1 \in 1..n => W[1] = 0
  <2> HIDE DEF W
  <2> SUFFICES ASSUME NEW i \in 0..n PROVE W[i] \in Int /\ (i > 0 => W[i] = W[i - 1] + BucketSize) /\ (i = 1 => W[i] = 0)
    BY <1>2
  <2>1. (i - 1) * BucketSize = ((i - 1) - 1) * BucketSize + BucketSize
    BY <1>1, <1>2
  <2>2. i > 0 => i - 1 \in 0..n
    BY <1>2
  <2>3. W[i] = (i - 1) * BucketSize /\ (i > 0 => W[i - 1] = ((i - 1) - 1) * BucketSize)
    BY <2>2 DEF W
  <2>4. (i - 1) * BucketSize \in Int /\ (i = 1 => (i - 1) * BucketSize = 0)
    BY <1>1, <1>2
  <2> QED
    BY <2>1, <2>3, <2>4
<1>5a. W[n] = (m + 1) * BucketSize
  <2>1. n \in 0..n /\ n - 1 = m + 1
    BY <1>2
  <2> QED
    BY <2>1
<1>5b. n \in Nat /\ n > 1
  BY <1>2
<1> HIDE DEF L, v, W, n, m
<1>6. 0 \in Q
  BY <1>5b
<1>7. ASSUME NEW i \in 1..n, i - 1 \in Q PROVE i \in Q
  <2> DEFINE j == i - 1
             p == g[j]
             take == Least(L[j], BucketSize - v[j])
  <2>1. /\ i \in 0..n /\ j \in 0..n /\ i = j + 1 /\ g[i] = Turn(p, t, class) /\ p \in Turning(class)
        /\ j = 0 \/ L[j] = 0 \/ (v[j] = 0 /\ L[j] + W[j] <= t.qty)
        /\ L[j] \in Nat /\ v[j] \in Nat /\ L[i] \in Nat
        /\ L[j] = p.left /\ v[j] = p.acc.vol /\ L[i] = g[i].left /\ v[i] = g[i].acc.vol
    BY <1>3, <1>4, <1>5b, <1>7
  <2> HIDE DEF p
  <2>2. CASE L[j] = 0
    <3>1. g[i] = p
      BY <2>1, <2>2 DEF Turn
    <3> QED
      BY <2>1, <2>2, <3>1
  <2>3. CASE L[j] # 0
    <3> DEFINE left == p.left
               acc0 == p.acc
               buy == acc0.bought + (IF t.sign > 0 THEN take ELSE 0)
               r == g[i]
               a == r.acc
    <3>1. /\ take = Least(left, BucketSize - acc0.vol) /\ a = r.acc
          /\ buy = acc0.bought + (IF t.sign > 0 THEN take ELSE 0)
      BY <2>1
    <3>1a. left = L[j] /\ acc0.vol = v[j] /\ L[i] = r.left /\ v[i] = a.vol
      BY <2>1
    <3>1b. /\ Sound(acc0, class) /\ acc0.first \in Prices /\ left \in Nat /\ left > 0
           /\ p = [acc |-> acc0, left |-> left]
      BY <2>1, <2>3 DEF Turning
    <3>1c. r = Turn([acc |-> acc0, left |-> left], t, class)
      BY <2>1, <3>1b
    <3> HIDE DEF left, acc0, buy, a, r, take
    <3>2. /\ r.left = left - take /\ take \in Nat /\ 0 < take /\ take <= left
          /\ acc0.vol + take <= BucketSize /\ (take = left \/ acc0.vol + take = BucketSize)
          /\ Full(acc0.vol + take) => a.vol = 0
      BY <1>1, <3>1, <3>1b, <3>1c, TurnIs
    <3> DEFINE Lj == L[j]
               vj == v[j]
               Li == L[i]
               vi == v[i]
               Wj == W[j]
               Wi == W[i]
               q == t.qty
    <3>3. /\ Li = Lj - take /\ (take = Lj \/ vj + take = BucketSize)
          /\ vj + take = BucketSize => vi = 0
          /\ take \in Nat /\ take <= Lj /\ Lj \in Nat /\ vj \in Nat
      <4>1. acc0.vol + take = BucketSize => Full(acc0.vol + take)
        BY <1>1 DEF Full
      <4>2. acc0.vol = vj /\ left = Lj /\ r.left = Li /\ a.vol = vi
        BY <3>1a
      <4> QED
        BY <2>1, <3>2, <4>1, <4>2
    <3>4. Wi = Wj + BucketSize /\ Wi \in Int /\ Wj \in Int /\ (i = 1 => Wi = 0) /\ q \in Nat
      BY <1>1, <1>5, <2>1
    <3>5. j = 0 => Lj = q
      BY <1>3, <1>4, <2>1
    <3>6. j # 0 => vj = 0 /\ Lj + Wj <= q
      BY <2>1, <2>3
    <3>7. (j = 0 <=> i = 1)
      BY <2>1
    <3>8. Li = 0 \/ (vi = 0 /\ Li + Wi <= q)
      <4> HIDE DEF Lj, vj, Li, vi, Wj, Wi, q, j
      <4>1. CASE take = Lj
        BY <3>3, <4>1
      <4>2. CASE take # Lj /\ i = 1
        BY <1>1, <3>3, <3>4, <3>5, <3>7, <4>2
      <4>3. CASE take # Lj /\ i # 1
        BY <1>1, <3>3, <3>4, <3>6, <3>7, <4>3
      <4> QED
        BY <4>1, <4>2, <4>3
    <3> QED
      BY <2>1, <3>8
  <2> QED
    BY <2>2, <2>3
<1> HIDE DEF Q
<1>8. \A i \in 0..n : i \in Q
  BY <1>5b, <1>6, <1>7, CountUp
<1>9. L[n] = 0 \/ L[n] + W[n] <= t.qty
  BY <1>5b, <1>8 DEF Q
<1>10. L[n] \in Nat /\ L[n] = g[n].left
  BY <1>4, <1>5b
<1> DEFINE Ln == L[n]
           Wn == W[n]
<1>11. Ln \in Nat /\ (Ln = 0 \/ Ln + Wn <= t.qty) /\ t.qty < Wn /\ Wn \in Int
  BY <1>2, <1>5, <1>5a, <1>5b, <1>9, <1>10
<1>12. Ln = 0
  <2> HIDE DEF Ln, Wn
  <2> QED
    BY <1>1, <1>11
<1> QED
  BY <1>10, <1>12 DEF n

-----------------------------------------------------------------------------
\* The boundaries of the buckets, and the trades that reach them.

Edge(k) == k * BucketSize

Slack(k) == k * Tol

(* The boundaries are a bucket apart, and the boundary's own tolerance is   *)
(* no less than a bucket's.                                                *)
LEMMA EdgeIs ==
  ASSUME NEW k \in Nat
  PROVE  /\ Edge(k) \in Nat /\ Edge(0) = 0 /\ Edge(k + 1) = Edge(k) + BucketSize
         /\ Slack(k) \in Nat /\ Slack(0) = 0 /\ Slack(k + 1) = Slack(k) + Tol
         /\ k > 0 => Tol <= Slack(k) /\ BucketSize <= Edge(k)
         /\ k > 1 => 2 * Tol <= Slack(k)
<1>1. BucketSize \in Nat /\ Tol \in Nat
  BY TradeFlowAssumption
<1>2. Edge(k) \in Nat /\ Edge(0) = 0 /\ Slack(k) \in Nat /\ Slack(0) = 0
  BY <1>1 DEF Edge, Slack
<1>3. Edge(k + 1) = Edge(k) + BucketSize /\ Slack(k + 1) = Slack(k) + Tol
  BY <1>1 DEF Edge, Slack
<1>4. ASSUME k > 0 PROVE Tol <= Slack(k) /\ BucketSize <= Edge(k)
  <2>1. k * Tol = (k - 1) * Tol + Tol /\ (k - 1) * Tol \in Nat
    BY <1>1, <1>4
  <2>2. k * BucketSize = (k - 1) * BucketSize + BucketSize /\ (k - 1) * BucketSize \in Nat
    BY <1>1, <1>4
  <2> QED
    BY <1>1, <2>1, <2>2 DEF Edge, Slack
<1>5. ASSUME k > 1 PROVE 2 * Tol <= Slack(k)
  <2>1. k * Tol = (k - 2) * Tol + 2 * Tol /\ (k - 2) * Tol \in Nat
    BY <1>1, <1>5
  <2> QED
    BY <1>1, <2>1 DEF Slack
<1> QED
  BY <1>2, <1>3, <1>4, <1>5

\* No trade ends between the two tolerances of a boundary.
Apart(s) ==
  \A i \in 1..Len(s), k \in Nat \ {0} :
    Edge(k) <= Volume(s, i) + Slack(k) => Edge(k) <= Volume(s, i) + Tol

(* Where the two tolerances agree, no trade ends between them.             *)
LEMMA AgreeingIsApart ==
  ASSUME NEW trades \in Seq(Printed), TolerancesAgree(trades)
  PROVE  Apart(Kept(trades))
<1> DEFINE s == Kept(trades)
<1> SUFFICES ASSUME NEW i \in 1..Len(s), NEW k \in Nat \ {0}, Edge(k) <= Volume(s, i) + Slack(k)
             PROVE  Edge(k) <= Volume(s, i) + Tol
  BY DEF Apart
<1> DEFINE v == Volume(s, i)
           W == BucketSize - Tol
<1>1. s \in Seq(Filled)
  <2>1. Kept(trades) = KeptTable(trades)[Len(trades)] /\ Len(trades) \in 0..Len(trades)
        /\ \A j \in 0..Len(trades) : KeptTable(trades)[j] \in Seq(Filled)
    BY KeptLoop
  <2> QED
    BY <2>1
<1>2. v \in Nat /\ i \in DOMAIN s
  BY <1>1, VolumeIs
<1>3. v \div W = (v + Tol) \div BucketSize
  BY <1>2 DEF TolerancesAgree, Complete
<1>4. BucketSize \in Nat /\ Tol \in Nat /\ W \in Nat /\ W > 0 /\ BucketSize = W + Tol /\ BucketSize > 0
  BY TradeFlowAssumption
<1>5. Edge(k) <= v + Slack(k)
  OBVIOUS
<1> HIDE DEF v, s, W
<1>6. k * W <= v
  <2>1. k * BucketSize = k * W + k * Tol /\ k * W \in Nat /\ k * Tol \in Nat
    BY <1>4
  <2> QED
    BY <1>2, <1>5, <2>1 DEF Edge, Slack
<1>7. k <= v \div W
  <2> DEFINE d == v \div W
  <2>1. d \in Nat /\ v < d * W + W
    BY <1>2, <1>4
  <2> HIDE DEF d
  <2>2. ASSUME ~(k <= d) PROVE FALSE
    <3>1. k * W = (d + 1) * W + (k - (d + 1)) * W /\ k - (d + 1) \in Nat
      BY <1>4, <2>1, <2>2
    <3>2. (k - (d + 1)) * W \in Nat /\ (d + 1) * W = d * W + W /\ d * W \in Nat
      BY <1>4, <2>1, <3>1
    <3> QED
      BY <1>2, <1>4, <1>6, <2>1, <3>1, <3>2
  <2> QED
    BY <2>2 DEF d
<1>8. k * BucketSize <= v + Tol
  <2> DEFINE d == (v + Tol) \div BucketSize
  <2>1. d \in Nat /\ d * BucketSize <= v + Tol /\ k <= d
    BY <1>2, <1>3, <1>4, <1>7
  <2> HIDE DEF d
  <2>2. d * BucketSize = k * BucketSize + (d - k) * BucketSize /\ (d - k) * BucketSize \in Nat
    BY <1>4, <2>1
  <2>3. k * BucketSize \in Nat
    BY <1>4
  <2> QED
    BY <1>2, <1>4, <2>1, <2>2, <2>3
<1> QED
  BY <1>8 DEF Edge, v

(* A longer tape was so before its last trade.                             *)
LEMMA ApartBefore ==
  ASSUME NEW s \in Seq(Filled), NEW t \in Filled, Apart(Append(s, t))
  PROVE  Apart(s)
<1> SUFFICES ASSUME NEW i \in 1..Len(s), NEW k \in Nat \ {0}, Edge(k) <= Volume(s, i) + Slack(k)
             PROVE  Edge(k) <= Volume(s, i) + Tol
  BY DEF Apart
<1>1. i \in 0..Len(s) /\ i \in 1..Len(Append(s, t))
  OBVIOUS
<1>2. Volume(Append(s, t), i) = Volume(s, i)
  BY <1>1, VolumeOn
<1> QED
  BY <1>1, <1>2 DEF Apart

\* The trades that reach boundary k, by the boundary's own tolerance.
Reach(s, k) == {i \in 1..Len(s) : Volume(s, i) + Slack(k) >= Edge(k)}

(* The close price of a boundary is that of the first trade that reaches   *)
(* it.                                                                     *)
LEMMA PriceIs ==
  ASSUME NEW s, NEW k
  PROVE  ClosePrice(s, k) = s[IF Reach(s, k) = {} THEN Len(s) ELSE Min(Reach(s, k))].px
BY DEF ClosePrice, Reach, Edge, Slack

(* A boundary that was reached keeps its price.                            *)
LEMMA PriceStays ==
  ASSUME NEW s \in Seq(Filled), NEW t \in Filled, NEW k \in Nat \ {0},
         Edge(k) <= Volume(s, Len(s)) + Tol
  PROVE  ClosePrice(Append(s, t), k) = ClosePrice(s, k)
<1> DEFINE n == Len(s)
           u == Append(s, t)
           S == Reach(s, k)
           U == Reach(u, k)
<1>1. /\ n \in Nat /\ u \in Seq(Filled) /\ Len(u) = n + 1 /\ \A i \in 1..n : u[i] = s[i]
      /\ BucketSize \in Nat /\ Tol \in Nat /\ Tol < BucketSize
  BY TradeFlowAssumption
<1>2. /\ Volume(s, 0) = 0 /\ \A i \in 0..n : Volume(s, i) \in Nat
      /\ \A i \in 0..n : Volume(u, i) = Volume(s, i)
      /\ \A i \in 0..(n + 1) : Volume(u, i) \in Nat
  BY <1>1, VolumeIs, VolumeOn
<1>3. /\ Edge(k) \in Nat /\ Slack(k) \in Nat /\ Tol <= Slack(k) /\ BucketSize <= Edge(k)
  BY EdgeIs
<1>4. n # 0
  BY <1>1, <1>2, <1>3
<1> HIDE DEF u
<1>5. n \in S /\ S \in SUBSET Nat
  BY <1>1, <1>2, <1>3, <1>4 DEF Reach
<1>6. /\ \A i \in S : i \in U /\ i \in 1..n
      /\ \A i \in U : i \in S \/ i = n + 1
      /\ U \in SUBSET Int
  BY <1>1, <1>2 DEF Reach
<1> HIDE DEF S, U
<1>7. Min(S) \in S /\ \A i \in S : Min(S) <= i
  BY <1>5, MinExists
<1>8. Min(U) = Min(S)
  <2>1. Min(S) \in U /\ Min(S) \in 1..n
    BY <1>6, <1>7
  <2>2. \A i \in U : Min(S) <= i
    BY <1>1, <1>6, <1>7, <2>1
  <2> QED
    BY <1>6, <2>1, <2>2, MinIs
<1>9. ClosePrice(s, k) = s[Min(S)].px /\ ClosePrice(u, k) = u[Min(U)].px
  BY <1>5, <1>6, PriceIs DEF S, U
<1> QED
  BY <1>1, <1>6, <1>7, <1>8, <1>9 DEF u

(* A boundary beyond the trades so far gets the price of the next trade,    *)
(* if it gets one.                                                         *)
LEMMA PriceNow ==
  ASSUME NEW s \in Seq(Filled), NEW t \in Filled, NEW k \in Nat \ {0},
         Apart(s), Volume(s, Len(s)) + Tol < Edge(k)
  PROVE  ClosePrice(Append(s, t), k) = t.px
<1> DEFINE n == Len(s)
           u == Append(s, t)
           U == Reach(u, k)
<1>1. /\ n \in Nat /\ u \in Seq(Filled) /\ Len(u) = n + 1 /\ u[n + 1] = t /\ Tol \in Nat
  BY TradeFlowAssumption
<1>2. /\ \A i \in 0..n : Volume(s, i) \in Nat
      /\ \A i \in 0..n : Volume(u, i) = Volume(s, i)
      /\ \A i \in 0..n : Volume(s, i) <= Volume(s, n)
  BY <1>1, VolumeIs, VolumeOn, VolumeGrows
<1>3. /\ Edge(k) \in Nat /\ Slack(k) \in Nat
  BY EdgeIs
<1> HIDE DEF u
<1>4. ASSUME NEW i \in 1..n PROVE i \notin U
  <2>1. i \in 0..n /\ n \in 0..n
    BY <1>1
  <2> DEFINE vi == Volume(s, i)
             vn == Volume(s, n)
             e == Edge(k)
             l == Slack(k)
  <2>2. vi \in Nat /\ vn \in Nat /\ vi <= vn /\ vn + Tol < e /\ e \in Nat /\ l \in Nat
    BY <1>2, <1>3, <2>1
  <2>3. e <= vi + l => e <= vi + Tol
    BY DEF Apart
  <2>4. i \in U => vi + l >= e
    BY <1>2, <2>1 DEF Reach
  <2> HIDE DEF vi, vn, e, l
  <2> QED
    BY <1>1, <2>2, <2>3, <2>4
<1>5. \A i \in U : i \in 1..(n + 1)
  BY <1>1 DEF Reach
<1> HIDE DEF U
<1>6. \A i \in U : i = n + 1
  BY <1>1, <1>4, <1>5
<1>7. U # {} => Min(U) = n + 1
  <2> SUFFICES ASSUME U # {} PROVE Min(U) = n + 1
    OBVIOUS
  <2>1. n + 1 \in U /\ U \in SUBSET Int /\ \A i \in U : n + 1 <= i
    BY <1>1, <1>6
  <2> QED
    BY <2>1, MinIs
<1> QED
  BY <1>1, <1>7, PriceIs DEF U, u

-----------------------------------------------------------------------------
\* The buckets of an accumulator, cut from the tape: the k-th ended at volume
\* p[k], no more than Tol before its boundary; x is poured so far.
Aligned(acc, s, x, p) ==
  LET c == Len(acc.closes)
  IN  /\ p \in [0..c -> Nat] /\ p[0] = 0
      /\ \A k \in 1..c : p[k] <= Edge(k) /\ Edge(k) <= p[k] + Tol /\ p[k] <= x
      /\ p[c] + acc.vol = x
      /\ acc.bought = BoughtAt(s, x) - BoughtAt(s, p[c])
      /\ \A k \in 1..c : /\ acc.buys[k] = BoughtAt(s, p[k]) - BoughtAt(s, p[k - 1])
                         /\ acc.closes[k] = ClosePrice(s, k)

(* One more trade on the tape leaves the buckets as they are.              *)
LEMMA AlignedOn ==
  ASSUME NEW s \in Seq(Filled), NEW t \in Filled, NEW p, NEW acc, acc.closes \in Seq(Prices),
         NEW v, v = Volume(s, Len(s)), Aligned(acc, s, v, p), NEW a,
         a.vol = acc.vol, a.bought = acc.bought, a.buys = acc.buys, a.closes = acc.closes
  PROVE  Aligned(a, Append(s, t), v, p)
<1> DEFINE c == Len(acc.closes)
           u == Append(s, t)
<1>1. c \in Nat /\ v \in Nat
  BY VolumeIs
<1>2. /\ p \in [0..c -> Nat] /\ p[0] = 0
      /\ \A k \in 1..c : p[k] <= Edge(k) /\ Edge(k) <= p[k] + Tol /\ p[k] <= v
  BY DEF Aligned
<1>2a. p[c] + a.vol = v /\ acc.bought = BoughtAt(s, v) - BoughtAt(s, p[c])
  BY DEF Aligned
<1>2b. \A k \in 1..c : /\ acc.buys[k] = BoughtAt(s, p[k]) - BoughtAt(s, p[k - 1])
                       /\ acc.closes[k] = ClosePrice(s, k)
  BY DEF Aligned
<1>2c. c = Len(a.closes)
  OBVIOUS
<1> HIDE DEF c
<1>3. \A k \in 0..c : p[k] \in Nat /\ p[k] <= v
  <2> SUFFICES ASSUME NEW k \in 0..c PROVE p[k] \in Nat /\ p[k] <= v
    OBVIOUS
  <2>1. p[k] \in Nat /\ (k = 0 => p[k] = 0) /\ (k # 0 => k \in 1..c)
    BY <1>1, <1>2
  <2> QED
    BY <1>1, <1>2, <2>1
<1> HIDE DEF u
<1>4. ASSUME NEW y \in Nat, y <= v PROVE BoughtAt(u, y) = BoughtAt(s, y)
  BY <1>4, BoughtOn DEF u
<1>5. BoughtAt(u, v) = BoughtAt(s, v)
  BY <1>1, <1>4
<1>6. \A k \in 0..c : BoughtAt(u, p[k]) = BoughtAt(s, p[k])
  BY <1>3, <1>4
<1>7. ASSUME NEW k \in 1..c PROVE ClosePrice(u, k) = ClosePrice(s, k)
  <2>1. k \in Nat \ {0} /\ k \in 0..c
    BY <1>1
  <2> DEFINE pk == p[k]
             e == Edge(k)
  <2>2. e <= pk + Tol /\ pk <= v /\ pk \in Nat /\ e \in Nat /\ Tol \in Nat
    BY <1>2, <1>3, <2>1, EdgeIs, TradeFlowAssumption
  <2> HIDE DEF pk, e
  <2>3. e <= v + Tol
    BY <1>1, <2>2
  <2> QED
    BY <2>1, <2>3, PriceStays DEF e, u
<1>8. c \in 0..c /\ \A k \in 1..c : k \in 0..c /\ k - 1 \in 0..c
  BY <1>1
<1>9. a.bought = BoughtAt(u, v) - BoughtAt(u, p[c])
  BY <1>2a, <1>5, <1>6, <1>8
<1>10. \A k \in 1..c : /\ a.buys[k] = BoughtAt(u, p[k]) - BoughtAt(u, p[k - 1])
                       /\ a.closes[k] = ClosePrice(u, k)
  BY <1>2b, <1>6, <1>7, <1>8
<1> QED
  BY <1>2, <1>2a, <1>2c, <1>9, <1>10 DEF Aligned, u

\* x is poured when left of trade t is not.
Pours(s, t, left, x) == left <= t.qty /\ x = Volume(s, Len(s)) + t.qty - left

\* In the middle of a trade t on the tape s: left of it is still to be poured.
Between(acc, s, t, left, p) ==
  \E x : /\ Pours(s, t, left, x) /\ Aligned(acc, Append(s, t), x, p)
         /\ Volume(s, Len(s)) + Tol < Edge(Len(acc.closes) + 1)

\* The trade's share of what is poured, by its side.
Side(t, take) == IF t.sign > 0 THEN take ELSE 0

\* What a turn does to an open bucket that stays open, or closes.
Opened(acc, t, take, a) ==
  /\ a.vol = acc.vol + take /\ a.bought = acc.bought + Side(t, take)
  /\ a.buys = acc.buys /\ a.closes = acc.closes

Closed(acc, t, take, a) ==
  /\ a.vol = 0 /\ a.bought = 0
  /\ a.buys = OneMore(acc.buys, acc.bought + Side(t, take))
  /\ a.closes = OneMore(acc.closes, t.px)

(* The volume bought while a trade is poured.                              *)
LEMMA SideIs ==
  ASSUME NEW s \in Seq(Filled), NEW t \in Filled,
         NEW left \in Nat, NEW take \in Nat, take <= left,
         NEW x, Pours(s, t, left, x), NEW y, y = x + take
  PROVE  /\ BoughtAt(Append(s, t), x) \in Int /\ BoughtAt(Append(s, t), y) \in Int
         /\ BoughtAt(Append(s, t), y) = BoughtAt(Append(s, t), x) + Side(t, take)
         /\ Volume(s, Len(s)) \in Nat /\ x \in Nat /\ y \in Nat /\ Volume(s, Len(s)) <= x /\ x <= y
         /\ Pours(s, t, left - take, y) /\ Side(t, take) \in Int
<1> DEFINE u == Append(s, t)
           q == t.qty
           v == Volume(s, Len(s))
<1>1. v \in Nat /\ u \in Seq(Filled)
  BY VolumeIs
<1>2. q \in Nat
  BY DEF Filled, Printed
<1>3. left <= q /\ x = v + q - left
  BY DEF Pours
<1> HIDE DEF q, u, v
<1>4. /\ x \in Nat /\ y \in Nat /\ y = v + q - (left - take) /\ v <= x /\ x <= y /\ v <= y
      /\ x <= v + q /\ y <= v + q /\ left - take <= q
  <2>1. x \in Nat /\ v <= x /\ x <= v + q
    BY <1>1, <1>2, <1>3
  <2>2. y \in Nat /\ x <= y /\ v <= y
    BY <1>1, <2>1
  <2>3. y = v + q - (left - take) /\ left - take <= q
    BY <1>1, <1>2, <1>3
  <2> QED
    BY <1>1, <1>2, <2>1, <2>2, <2>3
<1>5. /\ BoughtAt(u, x) = BoughtAt(s, v) + (IF t.sign > 0 THEN x - v ELSE 0)
      /\ BoughtAt(u, y) = BoughtAt(s, v) + (IF t.sign > 0 THEN y - v ELSE 0)
  BY <1>1, <1>2, <1>4, BoughtOn DEF u, v, q
<1>6. BoughtAt(s, v) \in Int /\ BoughtAt(u, x) \in Int /\ BoughtAt(u, y) \in Int
  BY <1>1, <1>4, BoughtGrows
<1>7. BoughtAt(u, y) = BoughtAt(u, x) + Side(t, take)
  <2> DEFINE b == BoughtAt(s, v)
             bx == BoughtAt(u, x)
             by == BoughtAt(u, y)
  <2>1. b \in Int
    BY <1>6
  <2>2. /\ t.sign > 0 => bx = b + (x - v) /\ by = b + (y - v) /\ Side(t, take) = take
        /\ ~(t.sign > 0) => bx = b + 0 /\ by = b + 0 /\ Side(t, take) = 0
    BY <1>5 DEF Side
  <2> HIDE DEF b, bx, by
  <2>3. by = bx + Side(t, take)
    BY <1>1, <1>4, <2>1, <2>2
  <2> QED
    BY <2>3 DEF bx, by
<1>8. Side(t, take) \in Int
  BY DEF Side
<1> QED
  BY <1>1, <1>2, <1>4, <1>6, <1>7, <1>8 DEF Pours, q, u, v

(* A turn keeps the buckets aligned, when it does not close one.           *)
LEMMA BetweenOpen ==
  ASSUME NEW s \in Seq(Filled), NEW t \in Filled, NEW acc \in Account,
         NEW left \in Nat, NEW take \in Nat, take <= left,
         NEW p, Between(acc, s, t, left, p), NEW a, Opened(acc, t, take, a)
  PROVE  Between(a, s, t, left - take, p)
<1>1. PICK x : /\ Pours(s, t, left, x) /\ Aligned(acc, Append(s, t), x, p)
               /\ Volume(s, Len(s)) + Tol < Edge(Len(acc.closes) + 1)
  BY DEF Between
<1> DEFINE c == Len(acc.closes)
           u == Append(s, t)
           y == x + take
           pc == p[c]
           vol == acc.vol
           bought == acc.bought
           bx == BoughtAt(u, x)
           by == BoughtAt(u, y)
           bp == BoughtAt(u, pc)
           av == a.vol
           ab == a.bought
<1>2. /\ p \in [0..c -> Nat] /\ p[0] = 0
      /\ \A k \in 1..c : p[k] <= Edge(k) /\ Edge(k) <= p[k] + Tol /\ p[k] <= x
      /\ pc + vol = x /\ bought = bx - bp
  BY <1>1 DEF Aligned
<1>3. \A k \in 1..c : /\ acc.buys[k] = BoughtAt(u, p[k]) - BoughtAt(u, p[k - 1])
                      /\ acc.closes[k] = ClosePrice(u, k)
  BY <1>1 DEF Aligned
<1>4. /\ Len(a.closes) = c /\ a.buys = acc.buys /\ a.closes = acc.closes
      /\ av = vol + take /\ ab = bought + Side(t, take)
  BY DEF Opened
<1>5. c \in Nat /\ vol \in Nat /\ bought \in Nat /\ u \in Seq(Filled)
  BY DEF Account
<1>6. /\ bx \in Int /\ by = bx + Side(t, take) /\ Side(t, take) \in Int
      /\ x \in Nat /\ y \in Nat /\ x <= y /\ Pours(s, t, left - take, y)
  BY <1>1, SideIs
<1>7. pc \in Nat
  BY <1>2, <1>5
<1>8. bp \in Int
  <2> HIDE DEF u, pc
  <2> QED
    BY <1>5, <1>7, BoughtGrows
<1>8a. y = x + take
  OBVIOUS
<1> HIDE DEF c, y, pc, vol, bought, bx, by, bp, av, ab, u
<1>9. ab = by - bp
  BY <1>2, <1>4, <1>6, <1>8
<1>10. pc + av = y
  BY <1>2, <1>4, <1>5, <1>6, <1>7, <1>8a
<1>11. \A k \in 1..c : p[k] <= y
  <2> SUFFICES ASSUME NEW k \in 1..c PROVE p[k] <= y
    OBVIOUS
  <2>1. p[k] \in Nat /\ p[k] <= x
    BY <1>2, <1>5
  <2> QED
    BY <1>6, <2>1
<1>12. Aligned(a, u, y, p)
  BY <1>2, <1>3, <1>4, <1>9, <1>10, <1>11 DEF Aligned, pc, av, ab, by, bp
<1> QED
  BY <1>1, <1>4, <1>6, <1>12 DEF Between, u, c

(* Where the buckets end whose boundaries are counted.                     *)
LEMMA ClosesNear ==
  ASSUME NEW c \in Nat, NEW pc \in Nat, NEW vol \in Nat, NEW take \in Nat,
         pc <= Edge(c), Edge(c) <= pc + Tol, c = 0 => pc = 0,
         vol + take <= BucketSize, BucketSize <= vol + take + Tol,
         NEW y, y = pc + vol + take,
         vol + take = BucketSize \/ (Edge(c + 1) <= y + Slack(c + 1) => Edge(c + 1) <= y + Tol)
  PROVE  y <= Edge(c + 1) /\ Edge(c + 1) <= y + Tol
<1> DEFINE e == Edge(c)
           f == Edge(c + 1)
           l == Slack(c)
           m == Slack(c + 1)
<1>1. /\ e \in Nat /\ f = e + BucketSize /\ l \in Nat /\ m = l + Tol /\ (c > 0 => Tol <= l)
      /\ (c = 0 => e = 0 /\ l = 0)
  BY EdgeIs
<1>2. BucketSize \in Nat /\ Tol \in Nat
  BY TradeFlowAssumption
<1>3. /\ pc <= e /\ e <= pc + Tol
      /\ vol + take = BucketSize \/ (f <= y + m => f <= y + Tol)
  OBVIOUS
<1> HIDE DEF e, f, l, m
<1>4. y <= f
  BY <1>1, <1>2, <1>3
<1>5. f <= y + Tol
  <2>1. CASE vol + take = BucketSize
    BY <1>1, <1>2, <1>3, <2>1
  <2>2. CASE c = 0
    BY <1>1, <1>2, <1>3, <2>2
  <2>3. CASE vol + take # BucketSize /\ c # 0
    <3>1. f <= y + m
      BY <1>1, <1>2, <1>3, <2>3
    <3> QED
      BY <1>3, <2>3, <3>1
  <2> QED
    BY <2>1, <2>2, <2>3
<1> QED
  BY <1>4, <1>5 DEF f

(* A turn that closes a bucket keeps them aligned: the new one ends where   *)
(* the pouring stands.                                                     *)
LEMMA BetweenClosed ==
  ASSUME NEW s \in Seq(Filled), NEW t \in Filled, Apart(Append(s, t)),
         NEW acc \in Account, Len(acc.buys) = Len(acc.closes),
         NEW left \in Nat, NEW take \in Nat, take <= left,
         acc.vol + take <= BucketSize, BucketSize <= acc.vol + take + Tol,
         take = left \/ acc.vol + take = BucketSize,
         NEW p, Between(acc, s, t, left, p), NEW a, Closed(acc, t, take, a)
  PROVE  \E w : Between(a, s, t, left - take, w)
<1>1. PICK x : /\ Pours(s, t, left, x) /\ Aligned(acc, Append(s, t), x, p)
               /\ Volume(s, Len(s)) + Tol < Edge(Len(acc.closes) + 1)
  BY DEF Between
<1> DEFINE c == Len(acc.closes)
           d == c + 1
           n == Len(s)
           u == Append(s, t)
           y == x + take
           pc == p[c]
           vol == acc.vol
           bought == acc.bought
           bx == BoughtAt(u, x)
           by == BoughtAt(u, y)
           bp == BoughtAt(u, pc)
           buy == bought + Side(t, take)
           w == [k \in 0..d |-> IF k <= c THEN p[k] ELSE y]
<1>2. /\ p \in [0..c -> Nat] /\ p[0] = 0
      /\ \A k \in 1..c : p[k] <= Edge(k) /\ Edge(k) <= p[k] + Tol /\ p[k] <= x
      /\ pc + vol = x /\ bought = bx - bp
  BY <1>1 DEF Aligned
<1>3. \A k \in 1..c : /\ acc.buys[k] = BoughtAt(u, p[k]) - BoughtAt(u, p[k - 1])
                      /\ acc.closes[k] = ClosePrice(u, k)
  BY <1>1 DEF Aligned
<1>4. /\ a.vol = 0 /\ a.bought = 0 /\ a.buys = OneMore(acc.buys, buy)
      /\ a.closes = OneMore(acc.closes, t.px)
  BY DEF Closed
<1>5. c \in Nat /\ vol \in Nat /\ bought \in Nat /\ u \in Seq(Filled)
      /\ acc.buys \in Seq(Nat) /\ acc.closes \in Seq(Prices) /\ Len(acc.buys) = c
  BY DEF Account
<1>6. /\ bx \in Int /\ by \in Int /\ by = bx + Side(t, take) /\ Side(t, take) \in Int
      /\ x \in Nat /\ y \in Nat /\ x <= y /\ Pours(s, t, left - take, y)
      /\ Volume(s, n) \in Nat
  BY <1>1, SideIs
<1>7. /\ Len(a.closes) = d
      /\ \A k \in 1..c : a.closes[k] = acc.closes[k] /\ a.buys[k] = acc.buys[k]
      /\ a.closes[d] = t.px /\ a.buys[d] = buy
  <2> HIDE DEF buy
  <2>1. Len(a.closes) = d /\ a.closes[d] = t.px /\ \A k \in 1..c : a.closes[k] = acc.closes[k]
    BY <1>4, <1>5 DEF OneMore
  <2>2. a.buys[d] = buy /\ \A k \in 1..c : a.buys[k] = acc.buys[k]
    BY <1>4, <1>5 DEF OneMore
  <2> QED
    BY <2>1, <2>2
<1>8. /\ vol + take <= BucketSize /\ BucketSize <= vol + take + Tol
      /\ take = left \/ vol + take = BucketSize
      /\ y = x + take /\ buy = bought + Side(t, take) /\ d = c + 1
      /\ Volume(s, n) + Tol < Edge(d)
  BY <1>1
<1>9. pc \in Nat
  BY <1>2, <1>5
<1>10. bp \in Int
  <2> HIDE DEF u, pc
  <2> QED
    BY <1>5, <1>9, BoughtGrows
<1>11. /\ w = [k \in 0..d |-> w[k]] /\ \A k \in 0..d : w[k] = IF k <= c THEN p[k] ELSE y
  OBVIOUS
<1>12. \A k \in 0..d : k \in 0..c \/ k = d
  BY <1>5
<1>13. \A k \in 1..d : k \in 1..c \/ k = d
  BY <1>5
<1>13a. d \in Nat \ {0} /\ d \in 1..d /\ d \in 0..d /\ ~(d <= c) /\ 0 \in 0..d /\ c \in 0..d
        /\ \A k \in 1..c : k <= c /\ k - 1 <= c /\ k \in 0..d /\ k - 1 \in 0..d
  BY <1>5, SMTT(30)
<1> HIDE DEF c, d, y, pc, vol, bought, bx, by, bp, buy, u, w, n
<1>14. pc <= Edge(c) /\ Edge(c) <= pc + Tol /\ (c = 0 => pc = 0)
  <2>1. CASE c = 0
    <3>1. pc = 0 /\ Edge(c) = 0
      BY <1>2, <2>1, EdgeIs DEF pc
    <3> QED
      BY <2>1, <3>1, TradeFlowAssumption
  <2>2. CASE c # 0
    <3>1. c \in 1..c
      BY <1>5, <2>2
    <3> QED
      BY <1>2, <2>2, <3>1 DEF pc
  <2> QED
    BY <2>1, <2>2
<1>15. vol + take = BucketSize \/ (Edge(d) <= y + Slack(d) => Edge(d) <= y + Tol)
  <2> SUFFICES ASSUME take = left PROVE Edge(d) <= y + Slack(d) => Edge(d) <= y + Tol
    BY <1>8
  <2>1. Volume(u, n + 1) = y
    <3>1. Len(u) = n + 1 /\ n \in Nat /\ u[n + 1] = t
      BY DEF u, n
    <3>2. n + 1 \in 1..Len(u) /\ (n + 1) - 1 = n /\ n \in 0..n
      BY <3>1
    <3>3. Volume(u, n + 1) = Volume(u, n) + t.qty
      BY <1>5, <3>1, <3>2, VolumeIs
    <3>4. Volume(u, n) = Volume(s, n)
      BY <3>2, VolumeOn DEF u, n
    <3> DEFINE q == t.qty
               v == Volume(s, n)
    <3>5. y = v + q - (left - take) /\ q \in Nat /\ v \in Nat
      BY <1>6 DEF Pours, n, Filled, Printed
    <3> HIDE DEF q, v
    <3>6. y = v + q
      BY <3>5
    <3> QED
      BY <3>3, <3>4, <3>6 DEF q, v
  <2>2. n + 1 \in 1..Len(u)
    BY DEF u, n
  <2>3. Apart(u)
    BY DEF u
  <2> QED
    BY <1>13a, <2>1, <2>2, <2>3 DEF Apart
<1>16. y <= Edge(d) /\ Edge(d) <= y + Tol
  <2>1. y = pc + vol + take
    BY <1>2, <1>5, <1>8, <1>9
  <2>2. vol + take = BucketSize \/ (Edge(c + 1) <= y + Slack(c + 1) => Edge(c + 1) <= y + Tol)
    BY <1>8, <1>15
  <2>3. vol + take <= BucketSize /\ BucketSize <= vol + take + Tol
    BY <1>8
  <2>4. y <= Edge(c + 1) /\ Edge(c + 1) <= y + Tol
    BY <1>5, <1>9, <1>14, <2>1, <2>2, <2>3, ClosesNear
  <2> QED
    BY <1>8, <2>4
<1>17. ClosePrice(u, d) = t.px
  <2>1. Apart(s)
    BY ApartBefore
  <2> QED
    BY <1>8, <1>13a, <2>1, PriceNow DEF u, n
<1>18. w \in [0..d -> Nat] /\ w[0] = 0 /\ w[d] = y /\ w[c] = pc
       /\ \A k \in 1..c : w[k] = p[k] /\ w[k - 1] = p[k - 1]
  <2>1. \A k \in 0..d : w[k] \in Nat
    BY <1>2, <1>6, <1>11, <1>12, <1>13a
  <2>2. w[0] = 0 /\ w[d] = y /\ w[c] = pc
    BY <1>2, <1>5, <1>11, <1>13a DEF pc
  <2>3. \A k \in 1..c : w[k] = p[k] /\ w[k - 1] = p[k - 1]
    BY <1>11, <1>13a
  <2> QED
    BY <1>11, <2>1, <2>2, <2>3
<1>19. ASSUME NEW k \in 1..d
       PROVE  w[k] <= Edge(k) /\ Edge(k) <= w[k] + Tol /\ w[k] <= y
  <2>1. CASE k = d
    BY <1>6, <1>16, <1>18, <2>1
  <2>2. CASE k \in 1..c
    <3>1. p[k] <= Edge(k) /\ Edge(k) <= p[k] + Tol /\ p[k] <= x /\ w[k] = p[k] /\ p[k] \in Nat
      BY <1>2, <1>5, <1>18, <2>2
    <3>2. p[k] <= y
      BY <1>6, <3>1
    <3> QED
      BY <3>1, <3>2
  <2> QED
    BY <1>13, <2>1, <2>2
<1>20. ASSUME NEW k \in 1..d
       PROVE  a.buys[k] = BoughtAt(u, w[k]) - BoughtAt(u, w[k - 1]) /\ a.closes[k] = ClosePrice(u, k)
  <2>1. CASE k = d
    <3>1. k - 1 = c
      BY <1>5, <1>8, <2>1
    <3>2. buy = by - bp
      <4> DEFINE side == Side(t, take)
      <4>1. /\ bought = bx - bp /\ buy = bought + side /\ by = bx + side
            /\ bx \in Int /\ bp \in Int /\ side \in Int
        BY <1>2, <1>6, <1>8, <1>10
      <4> HIDE DEF side
      <4> QED
        BY <4>1
    <3> QED
      BY <1>7, <1>17, <1>18, <2>1, <3>1, <3>2 DEF by, bp
  <2>2. CASE k \in 1..c
    BY <1>3, <1>7, <1>18, <2>2
  <2> QED
    BY <1>13, <2>1, <2>2
<1>21. w[d] + a.vol = y /\ a.bought = BoughtAt(u, y) - BoughtAt(u, w[d])
  BY <1>4, <1>6, <1>18 DEF by
<1>22. Aligned(a, u, y, w)
  BY <1>7, <1>18, <1>19, <1>20, <1>21 DEF Aligned
<1>23. Volume(s, n) + Tol < Edge(d + 1)
  <2> DEFINE e == Edge(d)
             f == Edge(d + 1)
             v == Volume(s, n)
  <2>1. e \in Nat /\ f = e + BucketSize /\ BucketSize \in Nat /\ Tol \in Nat /\ v \in Nat /\ v + Tol < e
    BY <1>6, <1>8, <1>13a, EdgeIs, TradeFlowAssumption
  <2> HIDE DEF e, f, v
  <2>2. v + Tol < f
    BY <2>1
  <2> QED
    BY <2>2 DEF f, v
<1> QED
  BY <1>6, <1>7, <1>22, <1>23 DEF Between, u, n

(* A turn takes some of the rest, and the bucket stays open or closes.     *)
LEMMA TurnDoes ==
  ASSUME NEW class, NEW t \in Printed, NEW p \in Turning(class), p.left # 0,
         NEW r, r = Turn(p, t, class)
  PROVE  \E take \in Nat :
           /\ take <= p.left /\ r.left = p.left - take /\ p.acc.vol + take <= BucketSize
           /\ take = p.left \/ p.acc.vol + take = BucketSize
           /\ r.acc.first = p.acc.first
           /\ \/ BucketSize <= p.acc.vol + take + Tol /\ Closed(p.acc, t, take, r.acc)
              \/ Opened(p.acc, t, take, r.acc)
<1> DEFINE left == p.left
           acc == p.acc
           take == Least(left, BucketSize - acc.vol)
           buy == acc.bought + (IF t.sign > 0 THEN take ELSE 0)
           a == r.acc
<1>1. /\ left \in Nat /\ left > 0 /\ Sound(acc, class) /\ acc.first \in Prices
      /\ p = [acc |-> acc, left |-> left]
  BY DEF Turning
<1>2. r = Turn([acc |-> acc, left |-> left], t, class)
  BY <1>1
<1>3. /\ take = Least(left, BucketSize - acc.vol) /\ a = r.acc
      /\ buy = acc.bought + (IF t.sign > 0 THEN take ELSE 0)
  OBVIOUS
<1> HIDE DEF left, acc, take, buy, a
<1>4. /\ r.left = left - take /\ take \in Nat /\ take <= left
      /\ acc.vol + take <= BucketSize /\ (take = left \/ acc.vol + take = BucketSize)
      /\ a.first = acc.first
  BY <1>1, <1>2, <1>3, TurnIs
<1>5. /\ Full(acc.vol + take) =>
           /\ a.vol = 0 /\ a.bought = 0
           /\ a.buys = OneMore(acc.buys, buy) /\ a.closes = OneMore(acc.closes, t.px)
      /\ ~Full(acc.vol + take) =>
           /\ a.vol = acc.vol + take /\ a.bought = buy
           /\ a.buys = acc.buys /\ a.closes = acc.closes
  BY <1>1, <1>2, <1>3, TurnIs
<1>6. buy = acc.bought + Side(t, take)
  BY <1>3 DEF Side
<1>7. Full(acc.vol + take) => BucketSize <= acc.vol + take + Tol /\ Closed(acc, t, take, a)
  <2>1. Full(acc.vol + take) => BucketSize <= acc.vol + take + Tol
    <3> DEFINE v == acc.vol + take
    <3>1. v \in Nat
      BY <1>1, <1>4 DEF Sound, Kind, Account
    <3> HIDE DEF v
    <3>2. Full(v) => BucketSize <= v + Tol
      BY <3>1, TradeFlowAssumption DEF Full
    <3> QED
      BY <3>2 DEF v
  <2> QED
    BY <1>5, <1>6, <2>1 DEF Closed
<1>8. ~Full(acc.vol + take) => Opened(acc, t, take, a)
  BY <1>5, <1>6 DEF Opened
<1> QED
  BY <1>4, <1>7, <1>8 DEF left, acc, a

(* Observing a trade keeps the accumulator sound, and its first price.     *)
LEMMA ObserveKeeps ==
  ASSUME NEW acc, NEW class, NEW t \in Filled, Sound(acc, class),
         NEW a, a = ObserveTrade(acc, t, class)
  PROVE  Sound(a, class) /\ a.first = IF acc.first = NoPrice THEN t.px ELSE acc.first
<1>1. t \in Printed
  BY DEF Filled
<1>2. Turns(t) \in Nat /\ \E g : Poured(g, acc, t, class)
  BY PouredExists
<1>3. PICK g : Poured(g, acc, t, class)
  BY <1>2
<1> DEFINE n == Turns(t)
           start == [acc EXCEPT !.first = IF @ = NoPrice THEN t.px ELSE @]
           first == start.first
           Q == {i \in 0..n : g[i].acc.first = first}
<1>4. /\ g[0].acc = start
      /\ \A i \in 1..n : g[i] = Turn(g[i - 1], t, class)
      /\ \A i \in 0..n : g[i] \in Turning(class)
      /\ a = g[n].acc
  BY <1>3 DEF Poured
<1>5. first = IF acc.first = NoPrice THEN t.px ELSE acc.first
  BY <1>1, PriceTaken
<1>6. n \in Nat
  BY <1>2
<1> HIDE DEF n, start
<1>7. 0 \in Q
  BY <1>4, <1>6
<1>8. ASSUME NEW i \in 1..n, i - 1 \in Q PROVE i \in Q
  <2>1. i \in 0..n /\ i - 1 \in 0..n /\ g[i - 1].acc.first = first
    BY <1>6, <1>8
  <2> DEFINE p == g[i - 1]
             r == g[i]
  <2>2. p \in Turning(class) /\ r = Turn(p, t, class)
    BY <1>4, <2>1
  <2> HIDE DEF p, r
  <2>3. r.acc.first = p.acc.first
    <3>1. CASE p.left = 0
      BY <2>2, <3>1 DEF Turn
    <3>2. CASE p.left # 0
      BY <1>1, <2>2, <3>2, TurnDoes
    <3> QED
      BY <3>1, <3>2
  <2> QED
    BY <2>1, <2>3 DEF p, r
<1> HIDE DEF Q
<1>9. \A i \in 0..n : i \in Q
  BY <1>6, <1>7, <1>8, CountUp
<1>10. n \in 0..n
  BY <1>6
<1>11. g[n].acc.first = first /\ g[n] \in Turning(class)
  BY <1>4, <1>9, <1>10 DEF Q
<1> QED
  BY <1>4, <1>5, <1>11 DEF Turning

(* Observing a trade keeps the buckets aligned with the tape.              *)
LEMMA ObserveAligned ==
  ASSUME NEW acc, NEW class, NEW s \in Seq(Filled), NEW t \in Filled, Sound(acc, class),
         Apart(Append(s, t)), NEW p, Aligned(acc, s, Volume(s, Len(s)), p),
         NEW a, a = ObserveTrade(acc, t, class)
  PROVE  \E w : Aligned(a, Append(s, t), Volume(Append(s, t), Len(s) + 1), w)
<1>1. t \in Printed /\ t.qty \in Nat
  BY DEF Filled, Printed
<1>2. Turns(t) \in Nat /\ \E g : Poured(g, acc, t, class)
  BY PouredExists
<1>3. PICK g : Poured(g, acc, t, class)
  BY <1>2
<1> DEFINE n == Turns(t)
           start == [acc EXCEPT !.first = IF @ = NoPrice THEN t.px ELSE @]
           Q == {i \in 0..n : \E w : Between(g[i].acc, s, t, g[i].left, w)}
<1>4. /\ g[0] = [acc |-> start, left |-> t.qty]
      /\ \A i \in 1..n : g[i] = Turn(g[i - 1], t, class)
      /\ \A i \in 0..n : g[i] \in Turning(class)
      /\ a = g[n].acc
  BY <1>3 DEF Poured
<1>5. n \in Nat
  BY <1>2
<1>6. /\ start.vol = acc.vol /\ start.bought = acc.bought
      /\ start.buys = acc.buys /\ start.closes = acc.closes
  BY <1>1, PriceTaken
<1>7. acc.closes \in Seq(Prices) /\ acc.vol \in Nat /\ acc.vol + Tol < BucketSize
  BY DEF Sound, Kind, Account
<1> HIDE DEF n, start
<1>8. Between(start, s, t, t.qty, p)
  <2> DEFINE v == Volume(s, Len(s))
             u == Append(s, t)
             c == Len(acc.closes)
             pc == p[c]
             e == Edge(c)
             f == Edge(c + 1)
             vol == acc.vol
             q == t.qty
  <2>1. Aligned(start, u, v, p)
    BY <1>6, <1>7, AlignedOn
  <2>2. v \in Nat /\ c \in Nat
    BY <1>7, VolumeIs
  <2>3. Pours(s, t, q, v)
    <3>1. q \in Nat /\ v = Volume(s, Len(s)) /\ q = t.qty
      BY <1>1
    <3> HIDE DEF q, v
    <3>2. v + q - q = v /\ q <= q
      BY <1>1, <2>2, <3>1
    <3> QED
      BY <3>1, <3>2 DEF Pours
  <2>4. p \in [0..c -> Nat] /\ pc + vol = v /\ (c # 0 => pc <= e) /\ (c = 0 => pc = 0)
    BY <2>2 DEF Aligned
  <2>5. pc \in Nat
    BY <2>2, <2>4
  <2>6. e \in Nat /\ f = e + BucketSize /\ BucketSize \in Nat /\ Tol \in Nat
    <3>1. c \in Nat
      BY <2>2
    <3> HIDE DEF c
    <3>2. Edge(c) \in Nat /\ Edge(c + 1) = Edge(c) + BucketSize
      BY <3>1, EdgeIs
    <3> QED
      BY <3>2, TradeFlowAssumption
  <2>7. vol \in Nat /\ vol + Tol < BucketSize
    BY <1>7
  <2>8. v + Tol < f
    <3> HIDE DEF v, c, pc, e, f, vol
    <3> QED
      BY <2>2, <2>4, <2>5, <2>6, <2>7
  <2> QED
    BY <1>6, <2>1, <2>3, <2>8 DEF Between
<1>9. 0 \in Q
  <2>1. g[0].acc = start /\ g[0].left = t.qty /\ 0 \in 0..n
    BY <1>4, <1>5
  <2> QED
    BY <1>8, <2>1
<1>10. ASSUME NEW i \in 1..n, i - 1 \in Q PROVE i \in Q
  <2>1. i \in 0..n /\ i - 1 \in 0..n
    BY <1>5, <1>10
  <2> DEFINE k == g[i - 1]
             r == g[i]
             b == k.acc
             left == k.left
  <2>2. k \in Turning(class) /\ r = Turn(k, t, class)
    BY <1>4, <2>1
  <2>3. PICK w : Between(b, s, t, left, w)
    BY <1>10
  <2> HIDE DEF k, r
  <2>4. b \in Account /\ Len(b.buys) = Len(b.closes) /\ left \in Nat
    BY <2>2 DEF Turning, Sound, Kind
  <2>5. CASE left = 0
    <3>1. r = k
      BY <2>2, <2>5 DEF Turn
    <3> QED
      BY <2>1, <2>3, <3>1 DEF r
  <2>6. CASE left # 0
    <3>1. PICK take \in Nat :
            /\ take <= left /\ r.left = left - take /\ b.vol + take <= BucketSize
            /\ take = left \/ b.vol + take = BucketSize
            /\ r.acc.first = b.first
            /\ \/ BucketSize <= b.vol + take + Tol /\ Closed(b, t, take, r.acc)
               \/ Opened(b, t, take, r.acc)
      BY <1>1, <2>2, <2>6, TurnDoes
    <3> HIDE DEF b, left
    <3>2. CASE BucketSize <= b.vol + take + Tol /\ Closed(b, t, take, r.acc)
      <4>1. PICK x : Between(r.acc, s, t, left - take, x)
        BY <2>3, <2>4, <3>1, <3>2, BetweenClosed
      <4> QED
        BY <2>1, <3>1, <4>1 DEF r
    <3>3. CASE Opened(b, t, take, r.acc)
      <4>1. Between(r.acc, s, t, left - take, w)
        BY <2>3, <2>4, <3>1, <3>3, BetweenOpen
      <4> QED
        BY <2>1, <3>1, <4>1 DEF r
    <3> QED
      BY <3>1, <3>2, <3>3
  <2> QED
    BY <2>5, <2>6
<1> HIDE DEF Q
<1>11. \A i \in 0..n : i \in Q
  BY <1>5, <1>9, <1>10, CountUp
<1>12. n \in 0..n
  BY <1>5
<1>13. PICK w : Between(g[n].acc, s, t, g[n].left, w)
  BY <1>11, <1>12 DEF Q
<1>14. g[n].left = 0
  BY <1>3, PouredWhole DEF n
<1>15. PICK x : Pours(s, t, 0, x) /\ Aligned(a, Append(s, t), x, w)
  BY <1>4, <1>13, <1>14 DEF Between
<1>16. x = Volume(Append(s, t), Len(s) + 1)
  <2> DEFINE u == Append(s, t)
             m == Len(s)
             q == t.qty
             v == Volume(s, m)
  <2>1. Len(u) = m + 1 /\ m \in Nat /\ u[m + 1] = t /\ u \in Seq(Filled)
    OBVIOUS
  <2>2. m + 1 \in 1..Len(u) /\ (m + 1) - 1 = m /\ m \in 0..m
    BY <2>1
  <2> HIDE DEF u
  <2>3. Volume(u, m + 1) = Volume(u, m) + t.qty
    BY <2>1, <2>2, VolumeIs
  <2>4. Volume(u, m) = Volume(s, m) /\ v \in Nat
    BY <2>2, VolumeOn, VolumeIs DEF u
  <2>5. x = v + q - 0 /\ q \in Nat
    BY <1>1, <1>15 DEF Pours
  <2> HIDE DEF q, v
  <2>6. x = v + q
    BY <2>4, <2>5
  <2> QED
    BY <2>3, <2>4, <2>6 DEF q, v, u
<1> QED
  BY <1>15, <1>16

-----------------------------------------------------------------------------
\* The signed volume by time bar.

Upright(trades) == trades \in Seq(Printed)
                   /\ \A i, j \in 1..Len(trades) : i <= j => trades[i].ts <= trades[j].ts

SignedOf(trades, n) == [i \in 1..n |-> Signed(trades[i])]

(* The signed volume of a trade is a number, and one more trade adds its.   *)
LEMMA CvdOn ==
  ASSUME NEW s \in Seq(Printed), NEW t \in Printed
  PROVE  /\ CvdFromCapture(s, Len(s)) \in Int /\ Signed(t) \in Int
         /\ CvdFromCapture(Append(s, t), Len(s) + 1) = CvdFromCapture(s, Len(s)) + Signed(t)
<1> DEFINE n == Len(s)
           u == Append(s, t)
           f == SignedOf(s, n)
           g == SignedOf(u, n + 1)
<1>1. \A r \in Printed : Signed(r) \in Int
  BY DEF Printed, Signed
<1>2. /\ n \in Nat /\ u[n + 1] = t /\ u \in Seq(Printed) /\ Len(u) = n + 1
      /\ \A i \in 1..n : u[i] = s[i] /\ s[i] \in Printed
  OBVIOUS
<1> HIDE DEF u, n
<1>3. f \in [1..n -> Int] /\ \A i \in 1..n : f[i] = Signed(s[i])
  BY <1>1, <1>2 DEF SignedOf
<1>4. /\ g \in [1..(n + 1) -> Int] /\ g[n + 1] = Signed(t)
      /\ \A i \in 1..n : g[i] = Signed(s[i])
  <2>1. \A i \in 1..(n + 1) : u[i] \in Printed
    BY <1>2
  <2>2. \A i \in 1..(n + 1) : Signed(u[i]) \in Int
    BY <1>1, <2>1
  <2>3. n + 1 \in 1..(n + 1) /\ \A i \in 1..n : i \in 1..(n + 1)
    BY <1>2
  <2> QED
    BY <1>2, <2>2, <2>3 DEF SignedOf
<1>5. CvdFromCapture(s, n) = Total(f) /\ CvdFromCapture(u, n + 1) = Total(g)
  BY DEF CvdFromCapture, SignedOf
<1> HIDE DEF f, g
<1>6. Total(f) \in Int /\ Total(g) = Total(f) + g[n + 1]
  BY <1>2, <1>3, <1>4, SumOneMore
<1> QED
  BY <1>1, <1>4, <1>5, <1>6 DEF u, n

(* What is past by the end of a bar is a beginning of the tape.            *)
LEMMA PastIs ==
  ASSUME NEW s, Upright(s), NEW top \in Int,
         NEW past, past = {i \in 1..Len(s) : s[i].ts < top}
  PROVE  /\ Cardinality(past) \in 0..Len(s)
         /\ \A i \in 1..Len(s) : s[i].ts < top <=> i <= Cardinality(past)
<1> DEFINE n == Len(s)
           left == {m \in 0..n : m = n \/ ~(s[m + 1].ts < top)}
<1>1. n \in Nat /\ \A i, j \in 1..n : i <= j => s[i].ts <= s[j].ts
  BY DEF Upright
<1>2. \A i \in 1..n : s[i].ts \in Int
  <2>1. \A i \in 1..n : s[i] \in Printed
    BY DEF Upright
  <2> QED
    BY <2>1 DEF Printed
<1>3. PICK m \in left : \A y \in left : m <= y
  <2>1. left \in SUBSET Nat /\ n \in left
    BY <1>1
  <2> HIDE DEF left
  <2> QED
    BY <2>1, SmallestNat
<1>4. m \in 0..n /\ (m = n \/ ~(s[m + 1].ts < top))
  BY <1>3
<1>5. ASSUME NEW i \in 1..n, i <= m PROVE s[i].ts < top
  <2>1. i - 1 \in 0..n /\ ~(m <= i - 1) /\ (i - 1) + 1 = i
    BY <1>1, <1>4, <1>5
  <2>2. i - 1 \notin left
    BY <1>3, <2>1
  <2> QED
    BY <2>1, <2>2
<1>6. ASSUME NEW i \in 1..n, ~(i <= m) PROVE ~(s[i].ts < top)
  <2>1. m + 1 \in 1..n /\ m + 1 <= i /\ m # n
    BY <1>1, <1>4, <1>6
  <2>2. s[m + 1].ts <= s[i].ts /\ ~(s[m + 1].ts < top)
    BY <1>1, <1>4, <2>1
  <2> DEFINE x == s[m + 1].ts
             y == s[i].ts
  <2>3. x \in Int /\ y \in Int /\ x <= y /\ ~(x < top)
    BY <1>2, <2>1, <2>2
  <2> HIDE DEF x, y
  <2>4. ~(y < top)
    BY <2>3
  <2> QED
    BY <2>4 DEF y
<1>7. past = 1..m
  <2>1. \A i \in 1..n : i \in past <=> i \in 1..m
    BY <1>1, <1>4, <1>5, <1>6
  <2>2. \A i \in 1..m : i \in 1..n
    BY <1>1, <1>4
  <2>3. \A i \in past : i \in 1..n
    OBVIOUS
  <2> QED
    BY <2>1, <2>2, <2>3
<1>8. Cardinality(past) = m
  <2>1. m \in Int /\ 1 \in Int /\ (IF 1 > m THEN 0 ELSE m - 1 + 1) = m
    BY <1>1, <1>4
  <2>2. Cardinality(1..m) = IF 1 > m THEN 0 ELSE m - 1 + 1
    BY <2>1, FS_Interval
  <2> QED
    BY <1>7, <2>1, <2>2
<1> QED
  BY <1>1, <1>4, <1>5, <1>6, <1>8

BarAt(s, i) == s[i].ts \div BarLength

BarSigned(s, k) == [i \in DOMAIN s |-> IF BarAt(s, i) = k THEN Signed(s[i]) ELSE 0]

Bars0(s) == {BarAt(s, i) : i \in DOMAIN s}

BarDeltas(s) == [k \in Min(Bars0(s))..Max(Bars0(s)) |-> Total(BarSigned(s, k))]

(* The running sum of the resampled series, spelt out.                     *)
LEMMA CvdBarsAre ==
  ASSUME NEW s
  PROVE  CvdBars(s).cvd = [k \in Min(Bars0(s))..Max(Bars0(s)) |->
           Total([j \in 1..(k - Min(Bars0(s)) + 1) |-> BarDeltas(s)[Min(Bars0(s)) + j - 1]])]
BY DEF CvdBars, BarAt, BarSigned, Bars0, BarDeltas

(* The bars of the resampled series reach from the first trade's to the     *)
(* last one's.                                                             *)
LEMMA BarSpan ==
  ASSUME NEW s, Upright(s), s # << >>
  PROVE  /\ Min(Bars0(s)) = BarAt(s, 1) /\ Max(Bars0(s)) = BarAt(s, Len(s))
         /\ BarAt(s, 1) \in Int /\ BarAt(s, Len(s)) \in Int
         /\ \A i \in 1..Len(s) : BarAt(s, i) \in Int /\ BarAt(s, 1) <= BarAt(s, i)
<1> DEFINE n == Len(s)
           bar == [i \in 1..n |-> BarAt(s, i)]
           all == Bars0(s)
           first == Min(Bars0(s))
           last == Max(Bars0(s))
<1>1. /\ s \in Seq(Printed) /\ n \in Nat /\ DOMAIN s = 1..n /\ n > 0
      /\ \A i, j \in 1..n : i <= j => s[i].ts <= s[j].ts
      /\ \A i \in 1..n : s[i] \in Printed
  BY DEF Upright
<1>3. \A i \in 1..n : bar[i] = BarAt(s, i) /\ bar[i] \in Int /\ bar[1] <= bar[i] /\ bar[i] <= bar[n]
  <2>1. ASSUME NEW x \in Int, NEW y \in Int, x <= y
        PROVE  x \div BarLength \in Int /\ x \div BarLength <= y \div BarLength
    <3>1. BarLength \in Nat /\ BarLength > 0
      BY TradeFlowAssumption
    <3> DEFINE a == x \div BarLength
               b == y \div BarLength
    <3>2. a \in Int /\ b \in Int /\ a * BarLength <= x /\ y < b * BarLength + BarLength
      BY <3>1
    <3> HIDE DEF a, b
    <3>3. ASSUME ~(a <= b) PROVE FALSE
      <4>1. a * BarLength = (b * BarLength + BarLength) + (a - (b + 1)) * BarLength
        BY <3>1, <3>2
      <4>2. (a - (b + 1)) * BarLength \in Nat /\ b * BarLength \in Int
        BY <3>1, <3>2, <3>3
      <4> QED
        BY <2>1, <3>1, <3>2, <4>1, <4>2
    <3> QED
      BY <3>2, <3>3 DEF a, b
  <2>2. \A i \in 1..n : s[i].ts \in Int
    BY <1>1 DEF Printed
  <2>3. \A i \in 1..n : s[1].ts <= s[i].ts /\ s[i].ts <= s[n].ts
    BY <1>1
  <2>4. 1 \in 1..n /\ n \in 1..n
    BY <1>1
  <2> QED
    BY <2>1, <2>2, <2>3, <2>4 DEF BarAt
<1>4. all = {bar[i] : i \in 1..n}
  BY <1>1 DEF Bars0
<1>5. first = bar[1] /\ last = bar[n]
  <2>1. 1 \in 1..n /\ n \in 1..n
    BY <1>1
  <2>2. all \in SUBSET Int /\ bar[1] \in all /\ bar[n] \in all
    BY <1>3, <1>4, <2>1
  <2>3. \A y \in all : bar[1] <= y /\ y <= bar[n]
    BY <1>3, <1>4
  <2> HIDE DEF all, bar
  <2> QED
    BY <2>2, <2>3, MinIs, MaxIs DEF all
<1>6. first \in Int /\ last \in Int
  <2>1. 1 \in 1..n /\ n \in 1..n
    BY <1>1
  <2> QED
    BY <1>3, <1>5, <2>1
<1>7. bar[1] = BarAt(s, 1) /\ bar[n] = BarAt(s, n)
  <2>1. 1 \in 1..n /\ n \in 1..n
    BY <1>1
  <2> QED
    BY <2>1
<1> HIDE DEF bar, first, last
<1> QED
  BY <1>3, <1>5, <1>6, <1>7 DEF first, last

(* The bars of the resampled series, and their running sum.                *)
LEMMA BarsRun ==
  ASSUME NEW s, Upright(s), s # << >>, NEW k \in DOMAIN CvdBars(s).cvd,
         NEW m \in 0..Len(s), \A i \in 1..Len(s) : BarAt(s, i) <= k <=> i <= m
  PROVE  CvdBars(s).cvd[k] = CvdFromCapture(s, m)
<1> DEFINE n == Len(s)
           bar == [i \in 1..n |-> BarAt(s, i)]
           all == Bars0(s)
           first == Min(Bars0(s))
           last == Max(Bars0(s))
           signed == [i \in 1..n |-> Signed(s[i])]
           within == [j \in first..last |-> [i \in 1..n |-> IF bar[i] = j THEN signed[i] ELSE 0]]
           delta == BarDeltas(s)
           size == k - first + 1
           run == [j \in 1..size |-> delta[first + j - 1]]
           sofar == [j \in 0..size |-> [i \in 1..n |-> IF bar[i] <= first + j - 1 THEN signed[i] ELSE 0]]
           R == TotalTable(run)
           Q == {j \in 0..size : R[j] = Total(sofar[j])}
<1>1. /\ s \in Seq(Printed) /\ n \in Nat /\ DOMAIN s = 1..n /\ n > 0
      /\ \A i, j \in 1..n : i <= j => s[i].ts <= s[j].ts
      /\ \A i \in 1..n : s[i] \in Printed
  BY DEF Upright
<1>2. \A i \in 1..n : signed[i] = Signed(s[i]) /\ signed[i] \in Int
  <2>1. \A r \in Printed : Signed(r) \in Int
    BY DEF Printed, Signed
  <2> QED
    BY <1>1, <2>1
<1>3. \A i \in 1..n : bar[i] = BarAt(s, i) /\ bar[i] \in Int /\ bar[1] <= bar[i]
  <2>1. 1 \in 1..n
    BY <1>1
  <2> QED
    BY <2>1, BarSpan
<1>5. first = bar[1]
  <2>1. 1 \in 1..n
    BY <1>1
  <2> QED
    BY <2>1, BarSpan
<1>6. first \in Int /\ last \in Int
  BY BarSpan
<1>7. delta = [j \in first..last |-> Total(BarSigned(s, j))]
  BY DEF BarDeltas
<1>8. ASSUME NEW j PROVE BarSigned(s, j) = [i \in 1..n |-> IF bar[i] = j THEN signed[i] ELSE 0]
  BY <1>1 DEF BarSigned
<1>9. CvdBars(s).cvd = [j \in first..last |-> Total([h \in 1..(j - first + 1) |-> delta[first + h - 1]])]
  BY CvdBarsAre
<1> HIDE DEF first, last, delta, bar, all
<1>10. k \in first..last /\ CvdBars(s).cvd[k] = Total(run)
  BY <1>9
<1>11. k \in Int /\ first <= k /\ size \in Nat /\ size > 0
  BY <1>6, <1>10
<1>12. \A j \in 1..size : first + j - 1 \in first..last
  BY <1>6, <1>10
<1>12a. run = [j \in 1..size |-> run[j]] /\ \A j \in 1..size : run[j] = delta[first + j - 1]
  OBVIOUS
<1>12b. \A j \in 0..size : sofar[j] = [i \in 1..n |-> IF bar[i] <= first + j - 1 THEN signed[i] ELSE 0]
  OBVIOUS
<1>12c. first + size - 1 = k
  BY <1>6, <1>11
<1>12d. m \in 0..n /\ \A i \in 1..n : BarAt(s, i) <= k <=> i <= m
  OBVIOUS
<1> HIDE DEF size, run, signed, sofar, n
<1>13. ASSUME NEW j \in 1..size PROVE run[j] = Total(BarSigned(s, first + j - 1))
  BY <1>7, <1>12, <1>12a
<1>14. \A j : BarSigned(s, j) \in [1..n -> Int]
  BY <1>2, <1>8
<1>15. \A j \in 0..size : sofar[j] \in [1..n -> Int]
  <2> SUFFICES ASSUME NEW j \in 0..size PROVE sofar[j] \in [1..n -> Int]
    OBVIOUS
  <2>1. \A i \in 1..n : (IF bar[i] <= first + j - 1 THEN signed[i] ELSE 0) \in Int
    BY <1>2
  <2>2. sofar[j] = [i \in 1..n |-> IF bar[i] <= first + j - 1 THEN signed[i] ELSE 0]
    BY <1>12b
  <2> QED
    BY <2>1, <2>2
<1>16. run \in [1..size -> Int]
  <2>1. ASSUME NEW j \in 1..size PROVE run[j] \in Int
    <3> DEFINE f == BarSigned(s, first + j - 1)
    <3>1. f \in [1..n -> Int] /\ run[j] = Total(f)
      BY <1>13, <1>14
    <3> HIDE DEF f
    <3>2. TotalTable(f) \in [0..n -> Int] /\ Total(f) = TotalTable(f)[n]
      BY <1>1, <3>1, SumLoop
    <3> QED
      BY <1>1, <3>1, <3>2
  <2> QED
    BY <1>12a, <2>1
<1>17. /\ R \in [0..size -> Int] /\ R[0] = 0 /\ Total(run) = R[size]
       /\ \A j \in 1..size : R[j] = R[j - 1] + run[j]
  BY <1>11, <1>16, SumLoop
<1> HIDE DEF R
<1>18. 0 \in Q
  <2> DEFINE none == [i \in 1..0 |-> 0]
  <2>1. 0 \in 0..size /\ sofar[0] \in [1..n -> Int]
    BY <1>11, <1>15
  <2>2. ASSUME NEW i \in 1..n PROVE sofar[0][i] = 0
    <3>1. ~(bar[i] <= first + 0 - 1)
      BY <1>3, <1>5, <1>6
    <3> QED
      BY <1>12b, <2>1, <3>1
  <2>3. none \in [1..0 -> Int] /\ \A i \in 1..n : ~(i <= 0)
    BY <1>1
  <2> HIDE DEF none
  <2>4. Total(none) = 0
    BY <2>3, SumOfNone
  <2>5. Total(sofar[0]) = Total(none)
    <3> DEFINE z == 0
               g == sofar[0]
    <3>1. z \in Nat /\ z <= n /\ none \in [1..z -> Int] /\ g \in [1..n -> Int]
          /\ \A i \in 1..n : g[i] = IF i <= z THEN none[i] ELSE 0
      BY <1>1, <2>1, <2>2, <2>3
    <3> HIDE DEF z, g
    <3>2. Total(g) = Total(none)
      BY <1>1, <3>1, SumPadded, SMTT(30)
    <3> QED
      BY <3>2 DEF g
  <2> QED
    BY <1>17, <2>1, <2>4, <2>5
<1>19. ASSUME NEW j \in 1..size, j - 1 \in Q PROVE j \in Q
  <2> DEFINE f == sofar[j - 1]
             g == BarSigned(s, first + j - 1)
             h == sofar[j]
  <2>1. j \in 0..size /\ j - 1 \in 0..size /\ R[j - 1] = Total(f)
    BY <1>11, <1>19
  <2>2. f \in [1..n -> Int] /\ g \in [1..n -> Int] /\ h \in [1..n -> Int]
    BY <1>14, <1>15, <2>1
  <2>3. ASSUME NEW i \in 1..n PROVE h[i] = f[i] + g[i]
    <3> DEFINE b == bar[i]
               x == signed[i]
               e == first + j - 1
    <3>1. b \in Int /\ x \in Int /\ e \in Int /\ first + (j - 1) - 1 = e - 1
      BY <1>2, <1>3, <1>6
    <3>2. f[i] = IF b <= e - 1 THEN x ELSE 0
      <4>1. f = [y \in 1..n |-> IF bar[y] <= first + (j - 1) - 1 THEN signed[y] ELSE 0]
        BY <1>12b, <2>1
      <4> HIDE DEF f
      <4> QED
        BY <3>1, <4>1
    <3>2a. g[i] = IF b = e THEN x ELSE 0
      <4>1. g = [y \in 1..n |-> IF bar[y] = e THEN signed[y] ELSE 0]
        BY <1>8
      <4> HIDE DEF g, e
      <4> QED
        BY <4>1
    <3>2b. h[i] = IF b <= e THEN x ELSE 0
      <4>1. h = [y \in 1..n |-> IF bar[y] <= e THEN signed[y] ELSE 0]
        BY <1>12b, <2>1
      <4> HIDE DEF h, e
      <4> QED
        BY <4>1
    <3> DEFINE fi == f[i]
               gi == g[i]
               hi == h[i]
    <3>3. /\ fi = IF b <= e - 1 THEN x ELSE 0
          /\ gi = IF b = e THEN x ELSE 0
          /\ hi = IF b <= e THEN x ELSE 0
      BY <3>2, <3>2a, <3>2b
    <3> HIDE DEF b, x, e, fi, gi, hi
    <3>4. hi = fi + gi
      BY <3>1, <3>3
    <3> QED
      BY <3>4 DEF fi, gi, hi
  <2>4. run[j] = Total(g)
    BY <1>13
  <2> HIDE DEF f, g, h
  <2>5. Total(h) = Total(f) + Total(g)
    BY <1>1, <2>2, <2>3, SumAdds
  <2>6. R[j] = Total(h)
    BY <1>17, <2>1, <2>4, <2>5
  <2> QED
    BY <2>1, <2>6 DEF h
<1> HIDE DEF Q
<1>20. size \in Q
  <2>1. \A j \in 0..size : j \in Q
    BY <1>11, <1>18, <1>19, CountUp
  <2> QED
    BY <1>11, <2>1
<1>21. Total(run) = Total(sofar[size]) /\ sofar[size] \in [1..n -> Int]
  <2>1. size \in 0..size
    BY <1>11
  <2> QED
    BY <1>15, <1>17, <1>20, <2>1 DEF Q
<1>22. Total(sofar[size]) = CvdFromCapture(s, m)
  <2> DEFINE f == SignedOf(s, m)
             g == sofar[size]
  <2>1. m \in Nat /\ m <= n /\ \A i \in 1..m : i \in 1..n
    BY <1>1, <1>12d
  <2>2. f = [i \in 1..m |-> f[i]] /\ \A i \in 1..m : f[i] = signed[i] /\ signed[i] \in Int
    BY <1>2, <2>1 DEF SignedOf
  <2>3. CvdFromCapture(s, m) = Total(f)
    BY DEF CvdFromCapture, SignedOf
  <2> HIDE DEF f
  <2>4. f \in [1..m -> Int]
    BY <2>2
  <2>5. ASSUME NEW i \in 1..n PROVE g[i] = IF i <= m THEN f[i] ELSE 0
    <3>1. g[i] = IF bar[i] <= k THEN signed[i] ELSE 0
      <4>1. size \in 0..size
        BY <1>11
      <4> QED
        BY <1>12b, <1>12c, <4>1
    <3>2. bar[i] <= k <=> i <= m
      BY <1>3, <1>12d
    <3>3. i <= m => i \in 1..m
      BY <2>1
    <3> QED
      BY <2>2, <3>1, <3>2, <3>3
  <2> HIDE DEF g
  <2>6. Total(g) = Total(f)
    <3>1. g \in [1..n -> Int]
      BY <1>21 DEF g
    <3>2. n \in Nat /\ m \in Nat /\ m <= n /\ \A i \in 1..n : g[i] = IF i <= m THEN f[i] ELSE 0
      BY <1>1, <2>1, <2>5
    <3> QED
      BY <2>4, <3>1, <3>2, SumPadded
  <2> QED
    BY <2>3, <2>6 DEF g
<1> QED
  BY <1>10, <1>21, <1>22

-----------------------------------------------------------------------------
\* Aligned buckets are the batch's.

(* How often a number goes into another.                                   *)
LEMMA DivIs ==
  ASSUME NEW x \in Nat, NEW V \in Nat, V > 0, NEW c \in Nat, c * V <= x, x < c * V + V
  PROVE  x \div V = c
<1> DEFINE d == x \div V
<1>1. d \in Nat /\ d * V <= x /\ x < d * V + V
  OBVIOUS
<1> HIDE DEF d
<1>2. ASSUME d < c PROVE FALSE
  <2>1. c * V = (d * V + V) + (c - (d + 1)) * V
    BY <1>1
  <2>2. (c - (d + 1)) * V \in Nat /\ d * V \in Nat
    BY <1>1, <1>2
  <2> QED
    BY <1>1, <2>1, <2>2
<1>3. ASSUME c < d PROVE FALSE
  <2>1. d * V = (c * V + V) + (d - (c + 1)) * V
    BY <1>1
  <2>2. (d - (c + 1)) * V \in Nat /\ c * V \in Nat
    BY <1>1, <1>3
  <2> QED
    BY <1>1, <2>1, <2>2
<1> QED
  BY <1>1, <1>2, <1>3 DEF d

(* The differences of two pairs of numbers, each close.                    *)
LEMMA CloseBuys ==
  ASSUME NEW a \in Int, NEW b \in Int, NEW c \in Int, NEW d \in Int,
         a <= b, b - a <= Tol, c <= d, d - c <= Tol
  PROVE  Distance(a - c, b - d) <= Tol
<1>1. Tol \in Nat
  BY TradeFlowAssumption
<1> QED
  BY <1>1 DEF Distance

(* An accumulator whose buckets are cut from the tape holds the batch's.   *)
LEMMA AlignedIsBatch ==
  ASSUME NEW trades, NEW s \in Seq(Filled), s = Kept(trades), NEW class, NEW acc, Sound(acc, class),
         NEW p, Aligned(acc, s, Volume(s, Len(s)), p),
         acc.first = IF s = << >> THEN NoPrice ELSE s[1].px,
         NEW batch, batch = Buckets(trades, class)
  PROVE  /\ acc.closes = batch.closes
         /\ Distance(acc.vol, batch.remainder) <= Tol
         /\ class = "bvc" => BuysOf(acc, class) = batch.buys
         /\ \A k \in DOMAIN BuysOf(acc, class) : Distance(BuysOf(acc, class)[k], batch.buys[k]) <= Tol
<1> DEFINE c == Len(acc.closes)
           T == Volume(s, Len(s))
           pc == p[c]
           e == Edge(c)
           vol == acc.vol
           closes == [k \in 1..c |-> ClosePrice(s, k)]
           bought == [k \in 1..c |-> BoughtAt(s, k * BucketSize) - BoughtAt(s, (k - 1) * BucketSize)]
<1>1. /\ acc \in Account /\ Len(acc.buys) = Len(acc.closes)
      /\ acc.closes = << >> \/ acc.first \in Prices
      /\ acc.vol + Tol < BucketSize
  BY DEF Sound, Kind
<1>2. acc.vol \in Nat /\ acc.closes \in Seq(Prices) /\ acc.buys \in Seq(Nat)
  BY <1>1 DEF Account
<1>3. c \in Nat /\ T \in Nat
  BY <1>2, VolumeIs
<1>4. /\ p \in [0..c -> Nat] /\ p[0] = 0
      /\ \A k \in 1..c : p[k] <= Edge(k) /\ Edge(k) <= p[k] + Tol /\ p[k] <= T
      /\ pc + vol = T
      /\ \A k \in 1..c : /\ acc.buys[k] = BoughtAt(s, p[k]) - BoughtAt(s, p[k - 1])
                         /\ acc.closes[k] = ClosePrice(s, k)
  BY DEF Aligned
<1>5. batch = [buys |-> IF class = "bvc"
                        THEN BulkBuys(IF s = << >> THEN NoPrice ELSE s[1].px,
                                      [k \in 1..Complete(T) |-> ClosePrice(s, k)])
                        ELSE [k \in 1..Complete(T) |->
                                BoughtAt(s, k * BucketSize) - BoughtAt(s, (k - 1) * BucketSize)],
               closes |-> [k \in 1..Complete(T) |-> ClosePrice(s, k)],
               remainder |-> Remainder(T)]
  BY DEF Buckets
<1>6. BucketSize \in Nat /\ BucketSize > 0 /\ Tol \in Nat
  BY TradeFlowAssumption
<1>7. vol \in Nat /\ vol + Tol < BucketSize
  BY <1>1, <1>2
<1>8. e \in Nat /\ e = c * BucketSize
  BY <1>3, EdgeIs DEF Edge
<1>9. pc \in Nat /\ pc <= e /\ e <= pc + Tol
  <2>1. CASE c = 0
    <3>1. pc = 0 /\ e = 0
      BY <1>3, <1>4, <2>1, EdgeIs
    <3> QED
      BY <1>6, <3>1
  <2>2. CASE c # 0
    <3>1. c \in 1..c /\ c \in 0..c
      BY <1>3, <2>2
    <3> QED
      BY <1>4, <3>1
  <2> QED
    BY <2>1, <2>2
<1>10. pc + vol = T
  BY <1>4
<1>11. \A k \in 0..c : p[k] \in Nat /\ p[k] <= Edge(k) /\ Edge(k) <= p[k] + Tol /\ Edge(k) \in Nat
  <2> SUFFICES ASSUME NEW k \in 0..c
               PROVE  p[k] \in Nat /\ p[k] <= Edge(k) /\ Edge(k) <= p[k] + Tol /\ Edge(k) \in Nat
    OBVIOUS
  <2>1. p[k] \in Nat /\ Edge(k) \in Nat /\ k \in Nat
    <3>1. k \in Nat
      BY <1>3
    <3>2. p \in [0..c -> Nat]
      BY <1>4
    <3> HIDE DEF c
    <3>3. p[k] \in Nat
      BY <3>2
    <3> QED
      BY <3>1, <3>3, EdgeIs
  <2>2. CASE k = 0
    <3>1. p[k] = 0 /\ Edge(k) = 0
      BY <1>4, <2>2, EdgeIs
    <3> QED
      BY <1>6, <2>1, <3>1
  <2>3. CASE k # 0
    <3>1. k \in 1..c
      BY <2>1, <2>3
    <3> QED
      BY <1>4, <2>1, <3>1
  <2> QED
    BY <2>2, <2>3
<1> HIDE DEF c, T, pc, e, vol
<1>12. Complete(T) = c
  <2> DEFINE x == T + Tol
  <2>1. x \in Nat /\ c * BucketSize <= x /\ x < c * BucketSize + BucketSize
    <3>1. e <= x /\ x < e + BucketSize /\ x \in Nat
      BY <1>3, <1>6, <1>7, <1>8, <1>9, <1>10
    <3> QED
      BY <1>8, <3>1
  <2> HIDE DEF x
  <2>2. x \div BucketSize = c
    BY <1>3, <1>6, <2>1, DivIs
  <2> QED
    BY <2>2 DEF Complete, x
<1>13. /\ batch.closes = closes /\ batch.remainder = Remainder(T)
       /\ batch.buys = IF class = "bvc" THEN BulkBuys(acc.first, closes) ELSE bought
  BY <1>5, <1>12
<1>14. acc.closes = closes
  <2>1. acc.closes \in Seq(Prices) /\ Len(acc.closes) = c
    BY <1>2 DEF c
  <2>2. acc.closes = [k \in 1..c |-> acc.closes[k]]
    BY <2>1
  <2> QED
    BY <1>4, <2>2
<1>15. Distance(vol, Remainder(T)) <= Tol
  <2> DEFINE rest == T - e
  <2>1. rest \in Int /\ rest = vol - (e - pc)
    BY <1>3, <1>7, <1>8, <1>9, <1>10
  <2>2. Remainder(T) = IF rest > 0 THEN rest ELSE 0
    BY <1>8, <1>12 DEF Remainder
  <2> HIDE DEF rest
  <2>3. CASE rest > 0
    BY <1>6, <1>7, <1>8, <1>9, <2>1, <2>2, <2>3 DEF Distance
  <2>4. CASE ~(rest > 0)
    <3>1. Remainder(T) = 0 /\ vol <= e - pc /\ vol <= Tol
      BY <1>6, <1>7, <1>8, <1>9, <2>1, <2>2, <2>4
    <3> QED
      BY <1>6, <1>7, <3>1 DEF Distance
  <2> QED
    BY <2>3, <2>4
<1>16. CASE class = "bvc"
  <2>1. BuysOf(acc, class) = batch.buys
    BY <1>13, <1>14, <1>16 DEF BuysOf
  <2>2. BuysOf(acc, class) \in Seq(Int)
    BY <1>1, SeriesIs
  <2>3. \A k \in DOMAIN BuysOf(acc, class) : Distance(BuysOf(acc, class)[k], batch.buys[k]) <= Tol
    <3> DEFINE b == BuysOf(acc, class)
    <3> SUFFICES ASSUME NEW k \in DOMAIN b PROVE Distance(b[k], b[k]) <= Tol
      BY <2>1
    <3> HIDE DEF b
    <3>1. b[k] \in Int
      BY <2>2 DEF b
    <3> QED
      BY <1>6, <3>1 DEF Distance
  <2> QED
    BY <1>13, <1>14, <1>15, <2>1, <2>3 DEF vol
<1>17. CASE class # "bvc"
  <2>1. BuysOf(acc, class) = acc.buys /\ batch.buys = bought /\ DOMAIN acc.buys = 1..c
    BY <1>1, <1>2, <1>13, <1>17 DEF BuysOf, c
  <2>2. ASSUME NEW k \in 1..c PROVE Distance(acc.buys[k], bought[k]) <= Tol
    <3> DEFINE B(x) == BoughtAt(s, x)
               y == p[k]
               z == p[k - 1]
               f == Edge(k)
               g == Edge(k - 1)
    <3>1. k \in 0..c /\ k - 1 \in 0..c
      BY <1>3
    <3>2. /\ y \in Nat /\ f \in Nat /\ y <= f /\ f <= y + Tol
          /\ z \in Nat /\ g \in Nat /\ z <= g /\ g <= z + Tol
      BY <1>11, <3>1
    <3>3. acc.buys[k] = B(y) - B(z) /\ bought[k] = B(f) - B(g)
      BY <1>4 DEF Edge
    <3> HIDE DEF y, z, f, g
    <3>4. B(y) \in Int /\ B(f) \in Int /\ B(y) <= B(f) /\ B(f) - B(y) <= f - y
      BY <3>2, BoughtGrows
    <3>5. B(z) \in Int /\ B(g) \in Int /\ B(z) <= B(g) /\ B(g) - B(z) <= g - z
      BY <3>2, BoughtGrows
    <3> DEFINE By == B(y)
               Bz == B(z)
               Bf == B(f)
               Bg == B(g)
    <3>6. By \in Int /\ Bf \in Int /\ By <= Bf /\ Bf - By <= f - y
      BY <3>4
    <3>7. Bz \in Int /\ Bg \in Int /\ Bz <= Bg /\ Bg - Bz <= g - z
      BY <3>5
    <3> HIDE DEF By, Bz, Bf, Bg
    <3>8. Bf - By <= Tol /\ Bg - Bz <= Tol
      BY <1>6, <3>2, <3>6, <3>7
    <3>9. Distance(By - Bz, Bf - Bg) <= Tol
      BY <3>6, <3>7, <3>8, CloseBuys
    <3> QED
      BY <3>3, <3>9 DEF By, Bz, Bf, Bg
  <2> QED
    BY <1>13, <1>14, <1>15, <1>17, <2>1, <2>2 DEF vol
<1> QED
  BY <1>16, <1>17

-----------------------------------------------------------------------------
\* The accumulators of the trades, beside the tape.

FirstPrice(s) == IF s = << >> THEN NoPrice ELSE s[1].px

CutFrom(acc, s) == \E p : Aligned(acc, s, Volume(s, Len(s)), p)

Traded ==
  /\ tape \in Seq(Printed) /\ Len(tape) <= Len(Clock)
  /\ \A i \in 1..Len(tape) : tape[i].ts = Clock[i]
  /\ streamed = << >>
  /\ cvd = CvdFromCapture(tape, Len(tape))
  /\ vpin.first = FirstPrice(Kept(tape))
  /\ Apart(Kept(tape)) => CutFrom(vpin, Kept(tape))

TradeInv ==
  /\ feed \in Classes \cup {"book"} /\ synced \in BOOLEAN /\ cvd \in Int
  /\ Sound(vpin, feed)
  /\ feed \in Classes => Traded

(* Before the first trade there is nothing in the buckets.                 *)
LEMMA NothingCut ==
  ASSUME NEW class
  PROVE  /\ Sound(NoBuckets, class) /\ CutFrom(NoBuckets, << >>)
         /\ CvdFromCapture(<< >>, 0) = 0
<1>1. /\ NoBuckets \in Account /\ NoBuckets.vol = 0 /\ NoBuckets.bought = 0 /\ NoBuckets.buys = << >>
      /\ NoBuckets.closes = << >> /\ NoBuckets.emitted = << >> /\ NoBuckets.first = NoPrice
  BY DEF NoBuckets, Account
<1>2. << >> \in Seq(Filled) /\ << >> \in Seq(Int) /\ Len(<< >>) = 0 /\ BucketSize \in Nat /\ Tol < BucketSize
  BY TradeFlowAssumption
<1>3. Series(NoBuckets, class) = << >>
  <2>1. BuysOf(NoBuckets, class) \in Seq(Int) /\ Len(BuysOf(NoBuckets, class)) = 0
        /\ Series(NoBuckets, class) = Rolling(BuysOf(NoBuckets, class))
    BY <1>1, <1>2, SeriesIs
  <2>2. Rolling(BuysOf(NoBuckets, class)) \in Seq(Int)
        /\ Len(Rolling(BuysOf(NoBuckets, class))) = Rolls(0)
    BY <2>1, RollingIs
  <2>3. Rolls(0) = 0
    BY TradeFlowAssumption DEF Rolls
  <2> QED
    BY <2>1, <2>2, <2>3
<1>4. Sound(NoBuckets, class)
  BY <1>1, <1>2, <1>3, TradeFlowAssumption DEF Sound, Kind
<1>5. CutFrom(NoBuckets, << >>)
  <2> DEFINE p == [k \in 0..0 |-> 0]
  <2>1. Volume(<< >>, 0) = 0
    BY <1>2, VolumeIs
  <2>2. p \in [0..0 -> Nat] /\ p[0] = 0
    OBVIOUS
  <2>3. BoughtAt(<< >>, 0) \in Int
    <3> DEFINE e == << >>
               z == 0
    <3>1. e \in Seq(Filled) /\ z \in Nat /\ z <= z
      OBVIOUS
    <3> HIDE DEF e, z
    <3>2. BoughtAt(e, z) \in Int
      BY <3>1, BoughtGrows
    <3> QED
      BY <3>2 DEF e, z
  <2> HIDE DEF p
  <2>4. Aligned(NoBuckets, << >>, 0, p)
    BY <1>1, <1>2, <2>2, <2>3 DEF Aligned
  <2> QED
    BY <1>2, <2>1, <2>4 DEF CutFrom
<1>6. CvdFromCapture(<< >>, 0) = 0
  <2> DEFINE f == SignedOf(<< >>, 0)
  <2>1. f \in [1..0 -> Int]
    BY DEF SignedOf
  <2>2. CvdFromCapture(<< >>, 0) = Total(f)
    BY DEF CvdFromCapture, SignedOf
  <2> HIDE DEF f
  <2> QED
    BY <2>1, <2>2, SumOfNone
<1> QED
  BY <1>4, <1>5, <1>6

(* The invariant of the trades holds at the start.                         *)
LEMMA TradeInvInitially == Init => TradeInv
<1> SUFFICES ASSUME Init PROVE TradeInv
  OBVIOUS
<1>1. /\ feed \in Classes \cup {"book"} /\ tape = << >> /\ synced = FALSE /\ streamed = << >>
      /\ cvd = 0 /\ vpin = NoBuckets
  BY DEF Init
<1>2. Sound(NoBuckets, feed) /\ CutFrom(NoBuckets, << >>) /\ CvdFromCapture(<< >>, 0) = 0
  BY NothingCut
<1>3. NoBuckets.first = FirstPrice(<< >>)
  BY DEF NoBuckets, FirstPrice
<1>4. tape \in Seq(Printed) /\ Len(tape) = 0 /\ Len(tape) <= Len(Clock)
  <2>1. Len(Clock) \in Nat
    BY MetricsAssumption
  <2> QED
    BY <1>1, <2>1
<1>5. Traded
  BY <1>1, <1>2, <1>3, <1>4, NoneKept DEF Traded
<1>6. Sound(vpin, feed)
  BY <1>1, <1>2
<1>7. synced \in BOOLEAN
  BY <1>1, Zenon
<1>8. cvd \in Int
  BY <1>1
<1> QED
  BY <1>1, <1>5, <1>6, <1>7, <1>8 DEF TradeInv

(* A trade keeps all of it.                                                *)
LEMMA TradeObserved ==
  ASSUME TradeInv, TradeSeen
  PROVE  TradeInv'
<1>1. PICK r \in Trades :
        LET trade == [px |-> r.px, qty |-> r.qty, sign |-> r.sign, ts |-> Clock[Len(tape) + 1]]
        IN  /\ tape' = Append(tape, trade)
            /\ cvd' = cvd + Signed(trade)
            /\ vpin' = ObserveTrade(vpin, trade, feed)
  BY DEF TradeSeen
<1> DEFINE t == [px |-> r.px, qty |-> r.qty, sign |-> r.sign, ts |-> Clock[Len(tape) + 1]]
           n == Len(tape)
           s == Kept(tape)
<1>2. /\ feed \in Classes /\ n < Len(Clock) /\ feed' = feed /\ synced' = synced
      /\ streamed' = streamed
  BY DEF TradeSeen
<1>3. /\ tape' = Append(tape, t) /\ cvd' = cvd + Signed(t) /\ vpin' = ObserveTrade(vpin, t, feed)
  BY <1>1
<1>4. Traded /\ Sound(vpin, feed) /\ cvd \in Int /\ synced \in BOOLEAN
  BY <1>2 DEF TradeInv
<1>5. tape \in Seq(Printed) /\ n \in Nat
  BY <1>4 DEF Traded
<1>6. t \in Printed /\ t.ts = Clock[n + 1]
  <2>1. r.px \in Prices /\ r.qty \in Nat /\ r.sign \in {-1, 1}
    BY MetricsAssumption DEF Prices
  <2>2. Clock[n + 1] \in Int
    <3>1. Clock \in Seq(Int) /\ n + 1 \in 1..Len(Clock)
      BY <1>2, <1>5, MetricsAssumption
    <3> QED
      BY <3>1
  <2> QED
    BY <2>1, <2>2 DEF Printed
<1> HIDE DEF t, n
<1>7. /\ tape' \in Seq(Printed) /\ Len(tape') = n + 1 /\ n + 1 <= Len(Clock)
      /\ \A i \in 1..(n + 1) : tape'[i].ts = Clock[i]
  <2>1. Len(Clock) \in Nat
    BY MetricsAssumption
  <2>2. tape' \in Seq(Printed) /\ Len(tape') = n + 1 /\ tape'[n + 1] = t
        /\ \A i \in 1..n : tape'[i] = tape[i]
    BY <1>3, <1>5, <1>6 DEF n
  <2>3. \A i \in 1..n : tape[i].ts = Clock[i]
    BY <1>4 DEF Traded, n
  <2>4. \A i \in 1..(n + 1) : i \in 1..n \/ i = n + 1
    BY <1>5
  <2> QED
    BY <1>2, <1>5, <1>6, <2>1, <2>2, <2>3, <2>4
<1>8. cvd' = CvdFromCapture(tape', n + 1) /\ cvd' \in Int
  <2>1. /\ CvdFromCapture(tape, n) \in Int /\ Signed(t) \in Int
        /\ CvdFromCapture(Append(tape, t), n + 1) = CvdFromCapture(tape, n) + Signed(t)
    BY <1>5, <1>6, CvdOn DEF n
  <2>2. cvd = CvdFromCapture(tape, n)
    BY <1>4 DEF Traded, n
  <2>3. cvd' = CvdFromCapture(tape', n + 1)
    BY <1>3, <2>1, <2>2
  <2> QED
    BY <1>3, <1>4, <2>1, <2>3
<1>9. s \in Seq(Filled) /\ Kept(tape') = IF t.qty > 0 THEN Append(s, t) ELSE s
  BY <1>3, <1>5, <1>6, KeptOn
<1>10. vpin.first = FirstPrice(s) /\ (Apart(s) => CutFrom(vpin, s))
  BY <1>4 DEF Traded
<1> HIDE DEF s
<1>11. CASE ~(t.qty > 0)
  <2>1. t.qty <= 0
    <3>1. t.qty \in Nat
      BY <1>6 DEF Printed
    <3> QED
      BY <1>11, <3>1
  <2>2. vpin' = vpin /\ Kept(tape') = s
    BY <1>3, <1>9, <1>11, <2>1 DEF ObserveTrade
  <2>3. Traded'
    BY <1>2, <1>4, <1>7, <1>8, <1>10, <2>2 DEF Traded, CutFrom, FirstPrice, Aligned, Apart
  <2> QED
    BY <1>2, <1>4, <1>8, <2>2, <2>3 DEF TradeInv
<1>12. CASE t.qty > 0
  <2> DEFINE a == vpin'
  <2>1. t \in Filled /\ Kept(tape') = Append(s, t)
    BY <1>6, <1>9, <1>12 DEF Filled
  <2>2. Sound(a, feed) /\ a.first = IF vpin.first = NoPrice THEN t.px ELSE vpin.first
    BY <1>3, <1>4, <2>1, ObserveKeeps
  <2>3. a.first = FirstPrice(Append(s, t))
    <3>1. CASE s = << >>
      <4>1. Append(s, t) # << >> /\ Append(s, t)[1] = t
        BY <1>9, <2>1, <3>1
      <4> QED
        BY <1>10, <2>2, <3>1, <4>1 DEF FirstPrice
    <3>2. CASE s # << >>
      <4>1. Append(s, t) # << >> /\ Append(s, t)[1] = s[1] /\ s[1] \in Filled
        BY <1>9, <2>1, <3>2
      <4>2. s[1].px \in Int
        BY <4>1, MetricsAssumption DEF Filled, Printed, Prices
      <4>3. vpin.first = s[1].px /\ vpin.first # NoPrice
        BY <1>10, <3>2, <4>2, TradeFlowAssumption DEF FirstPrice
      <4> QED
        BY <2>2, <4>1, <4>3 DEF FirstPrice
    <3> QED
      BY <3>1, <3>2
  <2>4. Apart(Append(s, t)) => CutFrom(a, Append(s, t))
    <3> SUFFICES ASSUME Apart(Append(s, t)) PROVE CutFrom(a, Append(s, t))
      OBVIOUS
    <3>1. Apart(s)
      BY <1>9, <2>1, ApartBefore
    <3>2. PICK p : Aligned(vpin, s, Volume(s, Len(s)), p)
      BY <1>10, <3>1 DEF CutFrom
    <3>3. \E w : Aligned(a, Append(s, t), Volume(Append(s, t), Len(s) + 1), w)
      BY <1>3, <1>4, <1>9, <2>1, <3>2, ObserveAligned
    <3>4. Len(Append(s, t)) = Len(s) + 1
      BY <1>9, <2>1
    <3> QED
      BY <3>3, <3>4 DEF CutFrom
  <2>5. Traded'
    <3>1. Kept(tape)' = Kept(tape')
      BY DEF Kept, KeptTable
    <3>2. (vpin.first = FirstPrice(Kept(tape)))'
      BY <2>1, <2>3, <3>1 DEF FirstPrice
    <3>3. (Apart(Kept(tape)) => CutFrom(vpin, Kept(tape)))'
      BY <2>1, <2>4, <3>1 DEF CutFrom, Aligned, Apart
    <3> QED
      BY <1>2, <1>4, <1>7, <1>8, <3>2, <3>3 DEF Traded
  <2> QED
    BY <1>2, <1>4, <1>8, <2>2, <2>5 DEF TradeInv
<1> QED
  BY <1>11, <1>12

(* Every step keeps the invariant of the trades.                           *)
LEMMA TradeInvStep == TradeInv /\ [Next]_vars => TradeInv'
<1> SUFFICES ASSUME TradeInv, [Next]_vars PROVE TradeInv'
  OBVIOUS
<1>1. CASE TradeSeen
  BY <1>1, TradeObserved
<1>2. ASSUME NEW kind, NEW b, NEW ts, NEW isSynced \in BOOLEAN, BookFeed,
             Observe(kind, b, ts, isSynced)
      PROVE  TradeInv'
  <2>1. /\ feed' = feed /\ cvd' = cvd /\ vpin' = vpin /\ synced' = isSynced
        /\ feed = "book"
    BY <1>2 DEF Observe, BookFeed
  <2>2. feed \notin Classes
    BY <2>1 DEF Classes
  <2>3. Sound(vpin, feed)' = Sound(vpin, feed)
    BY <2>1
  <2> QED
    BY <1>2, <2>1, <2>2, <2>3 DEF TradeInv
<1>3. CASE SnapshotSeen
  BY <1>2, <1>3 DEF SnapshotSeen
<1>4. CASE DiffApplied
  BY <1>2, <1>4 DEF DiffApplied
<1>5. CASE GapSeen
  BY <1>2, <1>5 DEF GapSeen
<1>6. CASE UNCHANGED vars
  <2>1. /\ feed' = feed /\ cvd' = cvd /\ vpin' = vpin /\ synced' = synced /\ tape' = tape
        /\ streamed' = streamed
    BY <1>6 DEF vars
  <2>2. Sound(vpin, feed)' = Sound(vpin, feed) /\ Traded' = Traded
    BY <2>1 DEF Traded, Apart, CutFrom, Aligned
  <2> QED
    BY <2>1, <2>2 DEF TradeInv
<1> QED
  BY <1>1, <1>3, <1>4, <1>5, <1>6 DEF Next

(* The tape of the trades is in the order of their stamps.                 *)
LEMMA TapeUpright == Traded => Upright(tape)
<1> SUFFICES ASSUME Traded, NEW i \in 1..Len(tape), NEW j \in 1..Len(tape), i <= j
             PROVE  tape[i].ts <= tape[j].ts
  BY DEF Traded, Upright
<1>1. Clock \in Seq(Int) /\ Len(Clock) \in Nat /\ DOMAIN Clock = 1..Len(Clock)
  BY MetricsAssumption
<1>2. Len(tape) \in Nat /\ Len(tape) <= Len(Clock)
  BY DEF Traded
<1>3. tape[i].ts = Clock[i] /\ tape[j].ts = Clock[j]
  BY DEF Traded
<1>4. i \in DOMAIN Clock /\ j \in DOMAIN Clock
  BY <1>1, <1>2
<1>5. Clock[i] <= Clock[j]
  BY <1>4, MetricsAssumption
<1> QED
  BY <1>3, <1>5

(* A trade before the end of a bar is of that bar or an earlier one.       *)
LEMMA BarBefore ==
  ASSUME NEW x \in Int, NEW k \in Int
  PROVE  x \div BarLength <= k <=> x < (k + 1) * BarLength
<1> DEFINE d == x \div BarLength
<1>1. BarLength \in Nat /\ BarLength > 0
  BY TradeFlowAssumption
<1>2. d \in Int /\ d * BarLength <= x /\ x < d * BarLength + BarLength
  BY <1>1
<1> HIDE DEF d
<1>3. CASE d <= k
  <2>1. (k + 1) * BarLength = (d * BarLength + BarLength) + (k - d) * BarLength
    BY <1>1, <1>2
  <2>2. (k - d) * BarLength \in Nat /\ d * BarLength \in Int
    BY <1>1, <1>2, <1>3
  <2> QED
    BY <1>1, <1>2, <1>3, <2>1, <2>2 DEF d
<1>4. CASE ~(d <= k)
  <2>1. d * BarLength = (k + 1) * BarLength + (d - (k + 1)) * BarLength
    BY <1>1, <1>2
  <2>2. (d - (k + 1)) * BarLength \in Nat /\ (k + 1) * BarLength \in Int
    BY <1>1, <1>2, <1>4
  <2> QED
    BY <1>1, <1>2, <1>4, <2>1, <2>2 DEF d
<1> QED
  BY <1>3, <1>4

(* The bars of the resampled series are numbered.                          *)
LEMMA BarsAreNumbered ==
  ASSUME NEW s, Upright(s), s # << >>, NEW k \in DOMAIN CvdBars(s).cvd
  PROVE  k \in Int
<1> DEFINE first == Min(Bars0(s))
           last == Max(Bars0(s))
<1>1. first \in Int /\ last \in Int
  BY BarSpan
<1>2. k \in first..last
  BY CvdBarsAre
<1> HIDE DEF first, last
<1> QED
  BY <1>1, <1>2

(* The resampled series runs as the tape does.                             *)
LEMMA BarsRunWithTape ==
  ASSUME Traded, feed \in Classes
  PROVE  CvdBarsAreRunning
<1> SUFFICES ASSUME tape # << >>
             PROVE  /\ \A k \in DOMAIN CvdBars(tape).cvd :
                         CvdBars(tape).cvd[k] = CvdFromCapture(tape,
                           Cardinality({i \in DOMAIN tape : tape[i].ts < (k + 1) * BarLength}))
                    /\ cvd = CvdFromCapture(tape, Len(tape))
  BY DEF CvdBarsAreRunning
<1>1. cvd = CvdFromCapture(tape, Len(tape))
  BY DEF Traded
<1>2. Upright(tape)
  BY TapeUpright
<1>3. DOMAIN tape = 1..Len(tape) /\ \A i \in 1..Len(tape) : tape[i].ts \in Int
  <2>1. \A i \in 1..Len(tape) : tape[i] \in Printed
    BY <1>2 DEF Upright
  <2> QED
    BY <1>2, <2>1 DEF Upright, Printed
<1>4. ASSUME NEW k \in DOMAIN CvdBars(tape).cvd
      PROVE  CvdBars(tape).cvd[k] = CvdFromCapture(tape,
               Cardinality({i \in DOMAIN tape : tape[i].ts < (k + 1) * BarLength}))
  <2> DEFINE top == (k + 1) * BarLength
             past == {i \in 1..Len(tape) : tape[i].ts < top}
             m == Cardinality(past)
  <2>1. k \in Int /\ top \in Int
    <3>1. k \in Int
      BY <1>2, <1>4, BarsAreNumbered
    <3> QED
      BY <3>1, TradeFlowAssumption
  <2>2. \A i \in 1..Len(tape) : BarAt(tape, i) <= k <=> tape[i].ts < top
    BY <1>3, <2>1, BarBefore DEF BarAt
  <2>3. past = {i \in DOMAIN tape : tape[i].ts < (k + 1) * BarLength}
    BY <1>3
  <2>4. past = {i \in 1..Len(tape) : tape[i].ts < top}
    OBVIOUS
  <2> HIDE DEF past, top
  <2>5. m \in 0..Len(tape) /\ \A i \in 1..Len(tape) : tape[i].ts < top <=> i <= m
    BY <1>2, <2>1, <2>4, PastIs
  <2>6. \A i \in 1..Len(tape) : BarAt(tape, i) <= k <=> i <= m
    BY <2>2, <2>5
  <2> HIDE DEF m
  <2>7. CvdBars(tape).cvd[k] = CvdFromCapture(tape, m)
    BY <1>2, <1>4, <2>5, <2>6, BarsRun
  <2> QED
    BY <2>3, <2>7 DEF m
<1> QED
  BY <1>1, <1>4

(* What an accumulator that is sound holds, of the type invariant.         *)
LEMMA SoundIsTyped ==
  ASSUME NEW class, NEW acc, Sound(acc, class)
  PROVE  /\ acc.vol \in 0..(BucketSize - 1) /\ acc.bought \in 0..acc.vol
         /\ Len(acc.buys) = Len(acc.closes) /\ acc.emitted = Series(acc, class)
<1> DEFINE v == acc.vol
           b == acc.bought
<1>1. /\ acc \in Account /\ Len(acc.buys) = Len(acc.closes) /\ acc.emitted = Series(acc, class)
      /\ b <= v /\ v + Tol < BucketSize
  BY DEF Sound, Kind
<1>2. v \in Nat /\ b \in Nat
  BY <1>1 DEF Account
<1>3. BucketSize \in Nat /\ Tol \in Nat
  BY TradeFlowAssumption
<1> HIDE DEF v, b
<1>4. v \in 0..(BucketSize - 1) /\ b \in 0..v
  BY <1>1, <1>2, <1>3
<1> QED
  BY <1>1, <1>4 DEF v, b

(* What a trade feed leaves the accumulators in, at any tolerance.         *)
LEMMA SeriesKept ==
  ASSUME TradeInv, FlowInv, StreamInv
  PROVE  /\ TypeOK /\ CvdBarsAreRunning
         /\ feed \in Classes => vpin.emitted = Series(vpin, feed)
<1>1. /\ feed \in Classes \cup {"book"} /\ synced \in BOOLEAN /\ cvd \in Int
      /\ Sound(vpin, feed)
      /\ feed \in Classes => Traded
  BY DEF TradeInv
<1>2. Len(streamed) = IF feed = "book" THEN Len(tape) ELSE 0
  <2>1. CASE feed = "book"
    BY <2>1 DEF StreamInv
  <2>2. CASE feed # "book"
    <3>1. streamed = << >>
      BY <1>1, <2>2 DEF Traded
    <3> QED
      BY <2>2, <3>1
  <2> QED
    BY <2>1, <2>2
<1>3. /\ vpin.vol \in 0..(BucketSize - 1) /\ vpin.bought \in 0..vpin.vol
      /\ Len(vpin.buys) = Len(vpin.closes) /\ vpin.emitted = Series(vpin, feed)
  BY <1>1, SoundIsTyped
<1>4. TypeOK
  BY <1>1, <1>2, <1>3 DEF TypeOK
<1>5. CvdBarsAreRunning
  <2>1. feed \in Classes => CvdBarsAreRunning
    BY <1>1, BarsRunWithTape
  <2> QED
    BY <2>1 DEF CvdBarsAreRunning
<1> QED
  BY <1>3, <1>4, <1>5

(* Where no trade ends between the two tolerances, the accumulators hold    *)
(* what the batch does.                                                    *)
LEMMA BucketsCut ==
  ASSUME TradeInv, feed \in Classes, Apart(Kept(tape))
  PROVE  BucketsAreBatch /\ EmittedOnce
<1> DEFINE s == Kept(tape)
           batch == Buckets(tape, feed)
<1>1. Sound(vpin, feed) /\ Traded
  BY DEF TradeInv
<1>2. /\ tape \in Seq(Printed) /\ vpin.first = FirstPrice(s)
      /\ Apart(s) => CutFrom(vpin, s)
  BY <1>1 DEF Traded
<1>4. PICK p : Aligned(vpin, s, Volume(s, Len(s)), p)
  BY <1>2 DEF CutFrom
<1>5. s \in Seq(Filled)
  <2>1. Kept(tape) = KeptTable(tape)[Len(tape)] /\ Len(tape) \in 0..Len(tape)
        /\ \A j \in 0..Len(tape) : KeptTable(tape)[j] \in Seq(Filled)
    BY <1>2, KeptLoop
  <2> QED
    BY <2>1
<1>6. vpin.first = IF s = << >> THEN NoPrice ELSE s[1].px
  BY <1>2 DEF FirstPrice
<1>7. s = Kept(tape) /\ batch = Buckets(tape, feed)
  OBVIOUS
<1> HIDE DEF s, batch
<1>8. /\ vpin.closes = batch.closes
      /\ Distance(vpin.vol, batch.remainder) <= Tol
      /\ feed = "bvc" => BuysOf(vpin, feed) = batch.buys
      /\ \A k \in DOMAIN BuysOf(vpin, feed) : Distance(BuysOf(vpin, feed)[k], batch.buys[k]) <= Tol
  BY <1>1, <1>4, <1>5, <1>6, <1>7, AlignedIsBatch
<1>9. BucketsAreBatch
  BY <1>7, <1>8 DEF BucketsAreBatch, BuysOf
<1>10. vpin.emitted = Series(vpin, feed)
  BY <1>1, SoundIsTyped
<1>11. ASSUME feed = "bvc" PROVE vpin.emitted = VpinFromCapture(tape, feed)
  <2>1. Series(vpin, feed) = Rolling(BuysOf(vpin, feed))
    BY DEF Series, BuysOf
  <2>2. BuysOf(vpin, feed) = batch.buys
    BY <1>8, <1>11
  <2>3. VpinFromCapture(tape, feed) = Rolling(batch.buys)
    BY <1>7 DEF VpinFromCapture
  <2> QED
    BY <1>10, <2>1, <2>2, <2>3
<1>12. EmittedOnce
  BY <1>10, <1>11 DEF EmittedOnce
<1> QED
  BY <1>9, <1>12

\* Every quantity is a multiple of a lot but for its rounding, no more than Eps
\* and in sum no more than a bucket forgives; a bucket is of whole lots; and a
\* boundary the tape can reach forgives less than a lot.
InLots(Lot, Eps, Top) ==
  /\ \A t \in Trades : t.qty <= Top /\ \E m \in Nat : Distance(t.qty, m * Lot) <= Eps
  /\ \E m \in Nat : BucketSize = m * Lot
  /\ Len(Clock) * Eps <= Tol
  /\ \A k \in Nat : k * (BucketSize - Tol) <= Len(Clock) * Top => k * Tol + Len(Clock) * Eps < Lot

Sizes == {t.qty : t \in Trades}

OfSizes(s) == \A i \in 1..Len(s) : s[i].qty \in Sizes

(* The trades with volume are some of the trades.                          *)
LEMMA KeptSizes ==
  ASSUME NEW s \in Seq(Printed), OfSizes(s)
  PROVE  OfSizes(Kept(s)) /\ Len(Kept(s)) <= Len(s)
<1> DEFINE n == Len(s)
           S == KeptTable(s)
           Q == {i \in 0..n : OfSizes(S[i]) /\ Len(S[i]) <= i}
<1>1. n \in Nat /\ \A i \in 1..n : s[i].qty \in Sizes /\ s[i] \in Printed
  BY DEF OfSizes
<1>2. /\ Kept(s) = S[n] /\ S[0] = << >>
      /\ \A i \in 1..n : S[i] = IF s[i].qty > 0 THEN Append(S[i - 1], s[i]) ELSE S[i - 1]
      /\ \A i \in 0..n : S[i] \in Seq(Filled)
  BY KeptLoop
<1> HIDE DEF S, n
<1>3. 0 \in Q
  BY <1>1, <1>2 DEF OfSizes
<1>4. ASSUME NEW i \in 1..n, i - 1 \in Q PROVE i \in Q
  <2> DEFINE e == S[i - 1]
             g == S[i]
             x == s[i]
  <2>1. i \in 0..n /\ i - 1 \in 0..n /\ e \in Seq(Filled) /\ x \in Printed /\ x.qty \in Sizes
    BY <1>1, <1>2
  <2>2. g = IF x.qty > 0 THEN Append(e, x) ELSE e
    BY <1>2
  <2>3. OfSizes(e) /\ Len(e) <= i - 1
    BY <1>4
  <2> HIDE DEF e, g, x
  <2>4. OfSizes(g) /\ Len(g) <= i
    <3>1. CASE x.qty > 0
      <4> DEFINE h == Append(e, x)
                 c == Len(e)
      <4>1. /\ c \in Nat /\ Len(h) = c + 1 /\ h[c + 1] = x /\ \A j \in 1..c : h[j] = e[j]
        BY <2>1
      <4>2. \A j \in 1..c : e[j].qty \in Sizes
        BY <2>3 DEF OfSizes
      <4> HIDE DEF h, c
      <4>3. \A j \in 1..(c + 1) : j \in 1..c \/ j = c + 1
        BY <4>1
      <4>4. OfSizes(h)
        BY <2>1, <4>1, <4>2, <4>3 DEF OfSizes
      <4>5. c <= i - 1 /\ i \in Nat
        BY <1>1, <2>3 DEF c
      <4> QED
        BY <2>2, <3>1, <4>1, <4>4, <4>5 DEF h
    <3>2. CASE ~(x.qty > 0)
      <4> DEFINE c == Len(e)
      <4>1. c \in Nat /\ c <= i - 1 /\ i \in Nat
        BY <1>1, <2>1, <2>3
      <4> HIDE DEF c
      <4>2. c <= i
        BY <4>1
      <4> QED
        BY <2>2, <2>3, <3>2, <4>2 DEF c
    <3> QED
      BY <3>1, <3>2
  <2> QED
    BY <2>1, <2>4 DEF g
<1> HIDE DEF Q
<1>5. n \in Q
  <2>1. \A i \in 0..n : i \in Q
    BY <1>1, <1>3, <1>4, CountUp
  <2> QED
    BY <1>1, <2>1
<1> QED
  BY <1>2, <1>5 DEF Q, n

(* Their volume is so many lots, but for the rounding.                     *)
LEMMA VolumeInLots ==
  ASSUME NEW Lot \in Nat, NEW Eps \in Nat, NEW Top \in Nat, InLots(Lot, Eps, Top),
         NEW s \in Seq(Filled), OfSizes(s), NEW i \in 0..Len(s)
  PROVE  /\ Volume(s, i) <= i * Top
         /\ \E m \in Nat : Volume(s, i) <= m * Lot + i * Eps /\ m * Lot <= Volume(s, i) + i * Eps
<1> DEFINE n == Len(s)
           In(v, j) == /\ v <= j * Top
                       /\ \E m \in Nat : v <= m * Lot + j * Eps /\ m * Lot <= v + j * Eps
           Q == {j \in 0..n : In(Volume(s, j), j)}
<1>1. n \in Nat /\ i \in 0..n
  OBVIOUS
<1>2. /\ Volume(s, 0) = 0 /\ \A j \in 0..n : Volume(s, j) \in Nat
      /\ \A j \in 1..n : Volume(s, j) = Volume(s, j - 1) + s[j].qty
  BY VolumeIs
<1>3. \A j \in 1..n : s[j].qty \in Sizes
  BY DEF OfSizes
<1> HIDE DEF n
<1>4. 0 \in Q
  <2> DEFINE v == Volume(s, 0)
  <2>1. v = 0 /\ 0 * Top = 0 /\ 0 * Eps = 0 /\ 0 * Lot = 0 /\ 0 \in Nat /\ 0 \in 0..n
    BY <1>1, <1>2
  <2> HIDE DEF v
  <2>2. v <= 0 * Top /\ v <= 0 * Lot + 0 * Eps /\ 0 * Lot <= v + 0 * Eps
    BY <2>1
  <2>3. In(v, 0)
    BY <2>2
  <2> QED
    BY <2>1, <2>3 DEF v
<1>5. ASSUME NEW j \in 1..n, j - 1 \in Q PROVE j \in Q
  <2> DEFINE v == Volume(s, j - 1)
             w == Volume(s, j)
             q == s[j].qty
             A == (j - 1) * Top
             E == (j - 1) * Eps
  <2>1. j \in 0..n /\ j - 1 \in 0..n /\ v \in Nat /\ w = v + q
    BY <1>1, <1>2
  <2>2. PICK t \in Trades : t.qty = q
    BY <1>3 DEF Sizes
  <2>3. q \in Nat /\ q <= Top /\ \E m \in Nat : Distance(q, m * Lot) <= Eps
    BY <2>2, MetricsAssumption DEF InLots
  <2>4. v <= A /\ \E m \in Nat : v <= m * Lot + E /\ m * Lot <= v + E
    BY <1>5
  <2>5. A \in Nat /\ E \in Nat /\ j * Top = A + Top /\ j * Eps = E + Eps
    BY <1>1
  <2> HIDE DEF v, w, q, A, E
  <2>6. PICK a \in Nat : Distance(q, a * Lot) <= Eps
    BY <2>3
  <2>7. PICK b \in Nat : v <= b * Lot + E /\ b * Lot <= v + E
    BY <2>4
  <2> DEFINE x == a * Lot
             y == b * Lot
  <2>8. x \in Nat /\ y \in Nat /\ (a + b) * Lot = x + y /\ a + b \in Nat
    OBVIOUS
  <2>9. Distance(q, x) <= Eps /\ v <= y + E /\ y <= v + E
    BY <2>6, <2>7
  <2> HIDE DEF x, y
  <2>10. q <= x + Eps /\ x <= q + Eps
    BY <2>3, <2>8, <2>9 DEF Distance
  <2>11. w <= A + Top /\ w <= (x + y) + (E + Eps) /\ x + y <= w + (E + Eps)
    BY <2>1, <2>3, <2>4, <2>5, <2>8, <2>9, <2>10, SMTT(30)
  <2>12. In(w, j)
    BY <2>5, <2>8, <2>11
  <2> QED
    BY <2>1, <2>12 DEF w
<1> HIDE DEF Q
<1>6. i \in Q
  BY <1>1, <1>4, <1>5, CountUp
<1> QED
  BY <1>6 DEF Q

(* Trades in lots do not end between the two tolerances of a boundary.     *)
LEMMA LotsAreApart ==
  ASSUME NEW Lot \in Nat, NEW Eps \in Nat, NEW Top \in Nat, InLots(Lot, Eps, Top),
         NEW s \in Seq(Filled), OfSizes(s), Len(s) <= Len(Clock)
  PROVE  Apart(s)
<1> SUFFICES ASSUME NEW i \in 1..Len(s), NEW k \in Nat \ {0}, Edge(k) <= Volume(s, i) + Slack(k)
             PROVE  Edge(k) <= Volume(s, i) + Tol
  BY DEF Apart
<1> DEFINE L == Len(Clock)
           v == Volume(s, i)
           e == Edge(k)
           d == Slack(k)
           A == L * Top
           E == L * Eps
           f == i * Eps
<1>1. L \in Nat /\ i \in 0..Len(s) /\ i \in Nat /\ i <= L
  BY MetricsAssumption
<1>2. v \in Nat /\ v <= i * Top
  BY <1>1, VolumeIs, VolumeInLots
<1>3. PICK m \in Nat : v <= m * Lot + f /\ m * Lot <= v + f
  BY <1>1, VolumeInLots
<1>4. PICK b \in Nat : BucketSize = b * Lot
  BY DEF InLots
<1>5. E <= Tol /\ (k * (BucketSize - Tol) <= A => k * Tol + E < Lot)
  BY DEF InLots
<1>6. Tol \in Nat /\ BucketSize \in Nat /\ e \in Nat /\ d \in Nat /\ d = k * Tol
      /\ e = k * BucketSize /\ e <= v + d
  BY TradeFlowAssumption, EdgeIs DEF Edge, Slack
<1> HIDE DEF L
<1>7. A \in Nat /\ E \in Nat /\ f \in Nat /\ f <= E /\ i * Top <= A
  <2>1. ASSUME NEW y \in Nat PROVE i * y \in Nat /\ L * y \in Nat /\ i * y <= L * y
    <3> DEFINE small == i * y
               rest == (L - i) * y
               all == L * y
    <3>1. L - i \in Nat
      BY <1>1
    <3>2. small \in Nat /\ rest \in Nat /\ all = small + rest
      BY <1>1, <3>1
    <3> HIDE DEF small, rest, all
    <3>3. all \in Nat /\ small <= all
      BY <3>2
    <3> QED
      BY <3>2, <3>3 DEF small, all
  <2> QED
    BY <2>1
<1>8. k * (BucketSize - Tol) = e - d
  BY <1>6
<1> DEFINE x == m * Lot
           h == i * Top
<1>9. x \in Nat /\ h \in Nat /\ v <= x + f /\ x <= v + f /\ v <= h /\ h <= A
  BY <1>1, <1>2, <1>3, <1>7
<1>10. e = (k * b) * Lot /\ k * b \in Nat
  BY <1>4, <1>6
<1> HIDE DEF v, e, d, A, E, f, x, h
<1>11. d + E < Lot
  <2>1. e - d <= A
    <3>1. v \in Nat
      BY <1>2 DEF v
    <3> QED
      BY <1>6, <1>7, <1>9, <3>1
  <2> QED
    BY <1>5, <1>6, <1>8, <2>1
<1> DEFINE c == k * b
<1>12. c \in Nat /\ e = c * Lot
  BY <1>10
<1> HIDE DEF c
<1>13. CASE c <= m
  <2>1. m * Lot = c * Lot + (m - c) * Lot /\ (m - c) * Lot \in Nat
    BY <1>12, <1>13
  <2>2. e <= x
    BY <1>12, <2>1 DEF x
  <2> QED
    BY <1>2, <1>5, <1>6, <1>7, <1>9, <2>2, SMTT(30) DEF v, e
<1>14. CASE ~(c <= m)
  <2>1. c * Lot = (m * Lot + Lot) + (c - (m + 1)) * Lot /\ (c - (m + 1)) * Lot \in Nat
    BY <1>12, <1>14
  <2>2. x + Lot <= e
    BY <1>12, <2>1 DEF x
  <2>3. FALSE
    <3>1. v \in Nat
      BY <1>2 DEF v
    <3> QED
      BY <1>6, <1>7, <1>9, <1>11, <2>2, <3>1
  <2> QED
    BY <2>3
<1> QED
  BY <1>13, <1>14

\* The tape prints the trades of the feed.
TapeSizes == feed \in Classes => OfSizes(tape)

(* An empty tape has no quantities.                                        *)
LEMMA TapeSizesInitially == Init => TapeSizes
  BY DEF Init, TapeSizes, OfSizes

(* A step prints only the feed's quantities.                               *)
LEMMA TapeSizesStep == TradeInv /\ TapeSizes /\ [Next]_vars => TapeSizes'
<1> SUFFICES ASSUME TradeInv, TapeSizes, [Next]_vars PROVE TapeSizes'
  OBVIOUS
<1>1. CASE TradeSeen
  <2>1. PICK r \in Trades :
          tape' = Append(tape, [px |-> r.px, qty |-> r.qty, sign |-> r.sign,
                                ts |-> Clock[Len(tape) + 1]])
    BY <1>1 DEF TradeSeen
  <2> DEFINE t == [px |-> r.px, qty |-> r.qty, sign |-> r.sign, ts |-> Clock[Len(tape) + 1]]
             n == Len(tape)
  <2>2. t.qty \in Sizes /\ tape' = Append(tape, t)
    BY <2>1 DEF Sizes
  <2>3. tape \in Seq(Printed) /\ OfSizes(tape)
    BY <1>1 DEF TradeSeen, TradeInv, Traded, TapeSizes
  <2> HIDE DEF t
  <2>4. /\ n \in Nat /\ Len(tape') = n + 1 /\ tape'[n + 1] = t
        /\ \A i \in 1..n : tape'[i] = tape[i]
    BY <2>2, <2>3
  <2>5. \A i \in 1..n : tape[i].qty \in Sizes
    BY <2>3 DEF OfSizes
  <2> HIDE DEF n
  <2>6. \A i \in 1..(n + 1) : i \in 1..n \/ i = n + 1
    BY <2>4
  <2>7. \A i \in 1..Len(tape') : tape'[i].qty \in Sizes
    BY <2>2, <2>4, <2>5, <2>6
  <2> QED
    BY <2>7 DEF TapeSizes, OfSizes
<1>2. CASE SnapshotSeen \/ DiffApplied \/ GapSeen
  <2>1. feed = "book" /\ feed' = feed
    BY <1>2 DEF SnapshotSeen, DiffApplied, GapSeen, BookFeed, Observe
  <2> QED
    BY <2>1 DEF TapeSizes, Classes
<1>3. CASE UNCHANGED vars
  <2>1. feed' = feed /\ tape' = tape
    BY <1>3 DEF vars
  <2> QED
    BY <2>1 DEF TapeSizes, OfSizes
<1> QED
  BY <1>1, <1>2, <1>3 DEF Next

(* For every bucket, bar, tolerance and order of trades: every value of    *)
(* the rolling series is emitted once and in order, however many buckets a *)
(* trade closes, and the signed volume by time bar runs as the tape does   *)
(* (stream.py, _new_vpin_values; cvd.py, resample_cvd).                    *)
THEOREM TradesKeepTheirSeries ==
  Spec => [](/\ TypeOK /\ CvdBarsAreRunning
             /\ feed \in Classes => vpin.emitted = Series(vpin, feed))
<1>1. TradeInv /\ FlowInv /\ StreamInv => (/\ TypeOK /\ CvdBarsAreRunning
                                           /\ feed \in Classes => vpin.emitted = Series(vpin, feed))
  BY SeriesKept
<1>. QED
  BY <1>1, FlowInvInitially, FlowInvStep, StreamInvInitially, StreamInvStep,
     TradeInvInitially, TradeInvStep, PTL DEF Spec

(* For every bucket, window and order of trades, the accumulators hold     *)
(* bucket by bucket and value by value what the batch functions compute    *)
(* from the tape, as long as the tolerances at a boundary agree on it: one *)
(* bucket's, by which _bucket_grid counts, and as many buckets' as the     *)
(* boundary is away, which _close_prices forgives and the accumulator,     *)
(* bucket by bucket, may have (stream.py, observe; vpin.py, bucket_trades).*)
THEOREM TradesMatchTheTape ==
  Spec => []((feed \in Classes => TolerancesAgree(tape)) => TradeStreamIsBatch)
<1>1. TradeInv /\ FlowInv /\ StreamInv
        => ((feed \in Classes => TolerancesAgree(tape)) => TradeStreamIsBatch)
  <2> SUFFICES ASSUME TradeInv, FlowInv, StreamInv, feed \in Classes => TolerancesAgree(tape)
               PROVE  TradeStreamIsBatch
    OBVIOUS
  <2>1. TypeOK /\ CvdBarsAreRunning
    BY SeriesKept
  <2>2. BucketsAreBatch /\ EmittedOnce
    <3>1. feed \in Classes => BucketsAreBatch /\ EmittedOnce
      BY AgreeingIsApart, BucketsCut DEF TradeInv, Traded
    <3> QED
      BY <3>1 DEF BucketsAreBatch, EmittedOnce
  <2> QED
    BY <2>1, <2>2 DEF TradeStreamIsBatch
<1>. QED
  BY <1>1, FlowInvInitially, FlowInvStep, StreamInvInitially, StreamInvStep,
     TradeInvInitially, TradeInvStep, PTL DEF Spec

(* Trades in lots satisfy it, whatever they are and wherever they fall: for *)
(* every lot, every rounding the tolerance of a bucket covers and every    *)
(* number of trades before the tolerance of a boundary grows to a lot, the *)
(* accumulators hold what the batch functions compute, unconditionally     *)
(* (stream.py, observe; vpin.py, bucket_trades).                           *)
THEOREM TradesInLotsMatchTheTape ==
  ASSUME NEW Lot \in Nat, NEW Eps \in Nat, NEW Top \in Nat, InLots(Lot, Eps, Top)
  PROVE  Spec => []TradeStreamIsBatch
<1>1. TradeInv /\ TapeSizes /\ FlowInv /\ StreamInv => TradeStreamIsBatch
  <2> SUFFICES ASSUME TradeInv, TapeSizes, FlowInv, StreamInv
               PROVE  TradeStreamIsBatch
    OBVIOUS
  <2>1. TypeOK /\ CvdBarsAreRunning
    BY SeriesKept
  <2>2. ASSUME feed \in Classes PROVE Apart(Kept(tape))
    <3>1. tape \in Seq(Printed) /\ Len(tape) <= Len(Clock) /\ OfSizes(tape)
      BY <2>2 DEF TradeInv, Traded, TapeSizes
    <3> DEFINE s == Kept(tape)
               c == Len(s)
               n == Len(tape)
               L == Len(Clock)
    <3>2. s \in Seq(Filled)
      <4>1. Kept(tape) = KeptTable(tape)[Len(tape)] /\ Len(tape) \in 0..Len(tape)
            /\ \A j \in 0..Len(tape) : KeptTable(tape)[j] \in Seq(Filled)
        BY <3>1, KeptLoop
      <4> QED
        BY <4>1
    <3>3. OfSizes(s) /\ c <= n
      BY <3>1, KeptSizes
    <3>4. c <= L
      <4>1. c \in Nat /\ n \in Nat /\ L \in Nat /\ n <= L
        BY <3>1, <3>2, MetricsAssumption
      <4> HIDE DEF c, n, L
      <4> QED
        BY <3>3, <4>1
    <3> HIDE DEF s
    <3>5. Apart(s)
      BY <3>2, <3>3, <3>4, LotsAreApart
    <3> QED
      BY <3>5 DEF s
  <2>3. BucketsAreBatch /\ EmittedOnce
    <3>1. feed \in Classes => BucketsAreBatch /\ EmittedOnce
      BY <2>2, BucketsCut
    <3> QED
      BY <3>1 DEF BucketsAreBatch, EmittedOnce
  <2> QED
    BY <2>1, <2>3 DEF TradeStreamIsBatch
<1>. QED
  BY <1>1, FlowInvInitially, FlowInvStep, StreamInvInitially, StreamInvStep,
     TradeInvInitially, TradeInvStep, TapeSizesInitially, TapeSizesStep, PTL DEF Spec
=============================================================================
