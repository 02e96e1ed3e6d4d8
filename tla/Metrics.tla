------------------------------ MODULE Metrics -------------------------------
(***************************************************************************)
(* The streaming accumulators of metrics/stream.py, driven by the events   *)
(* of one feed, beside the tape of the same events from which              *)
(* metrics/batch.py and metrics/ofi.py compute the same metrics later.     *)
(* Book and trade metrics read nothing of each other, so a behaviour       *)
(* follows one of the two feeds.                                           *)
(***************************************************************************)
EXTENDS Imbalance, TradeFlow

CONSTANTS
  Books,        (* the books the feed may show                             *)
  Trades,       (* the trades it may print, without their time             *)
  Steps,        (* time from an event to the next                          *)
  Clock,        (* times of the trades                                     *)
  MaxEvents     (* bound: book events                                      *)

\* The values Quote can have.
Quotes == {q \in [{"bp", "bq", "ap", "aq"} -> Int \cup {NaN}] :
             (q.bp = NaN <=> q.bq = NaN) /\ (q.ap = NaN <=> q.aq = NaN)}

(* Prices and quantities are numbers; None is no quote and no flow; a      *)
(* tape is read in the order of its stamps; Phi gives part of a bucket.    *)
ASSUME MetricsAssumption ==
  /\ \A b \in Books : {b.bids, b.asks} \subseteq Seq(Int \X Int)
  /\ None \notin Quotes \cup [1..Levels -> Quotes] \cup [1..Levels -> Int \cup {NaN}]
  /\ Steps \subseteq Nat
  /\ \A t \in Trades : t.px \in Int /\ t.qty \in Nat /\ t.sign \in {-1, 1}
  /\ \A s, t \in Trades : Phi(s.px - t.px) \in 0..BucketSize
  /\ Clock \in Seq(Int)
  /\ \A i, j \in DOMAIN Clock : i <= j => Clock[i] <= Clock[j]

VARIABLES
  feed,         (* "book", or the classification of the trades             *)
  tape,         (* the recorded events                                     *)
  synced,       (* is_synced of the consumer's book                        *)
  prev,         (* _prev of the two book accumulators                      *)
  streamed,     (* history: what they returned, by event                   *)
  cvd,          (* total of CvdAccumulator                                 *)
  vpin          (* VpinAccumulator                                         *)

vars == <<feed, tape, synced, prev, streamed, cvd, vpin>>

Classes == {"aggressor", "bvc"}

TypeOK ==
  /\ feed \in Classes \cup {"book"} /\ synced \in BOOLEAN /\ cvd \in Int
  /\ Len(streamed) = IF feed = "book" THEN Len(tape) ELSE 0
  /\ vpin.vol \in 0..(BucketSize - 1) /\ vpin.bought \in 0..vpin.vol
  /\ Len(vpin.buys) = Len(vpin.closes)

Init ==
  /\ feed \in Classes \cup {"book"}
  /\ tape = << >> /\ synced = FALSE
  /\ prev = [l1 |-> None, lm |-> None] /\ streamed = << >>
  /\ cvd = 0 /\ vpin = NoBuckets

\* The event is recorded, the consumer's book has it, the accumulators look.
Observe(kind, b, ts, isSynced) ==
  LET l1 == ObserveL1(prev.l1, b, isSynced)
      lm == ObserveLm(prev.lm, b, isSynced)
  IN  /\ tape' = Append(tape, [kind |-> kind, book |-> b, ts |-> ts])
      /\ synced' = isSynced
      /\ prev' = [l1 |-> l1.prev, lm |-> lm.prev]
      /\ streamed' = Append(streamed, [l1 |-> l1.e, lm |-> lm.e])
      /\ UNCHANGED <<feed, cvd, vpin>>

Later == {(IF tape = << >> THEN Window - 1 ELSE Last(tape).ts) + step : step \in Steps}

BookFeed == feed = "book" /\ Len(tape) < MaxEvents

SnapshotSeen ==
  /\ BookFeed
  /\ \E b \in Books, ts \in Later : Observe("snapshot", b, ts, TRUE)

DiffApplied ==
  /\ BookFeed /\ synced
  /\ \E b \in Books, ts \in Later : Observe("depth", b, ts, TRUE)

\* A diff off the chain: the book stays as it is, unsynced.
GapSeen ==
  /\ BookFeed /\ tape # << >>
  /\ Observe("gap", Last(tape).book, Last(tape).ts, FALSE)

TradeSeen ==
  /\ feed \in Classes /\ Len(tape) < Len(Clock)
  /\ \E t \in Trades :
       LET trade == [px |-> t.px, qty |-> t.qty, sign |-> t.sign, ts |-> Clock[Len(tape) + 1]]
       IN  /\ tape' = Append(tape, trade)
           /\ cvd' = cvd + Signed(trade)
           /\ vpin' = ObserveTrade(vpin, trade, feed)
  /\ UNCHANGED <<feed, synced, prev, streamed>>

Next == SnapshotSeen \/ DiffApplied \/ GapSeen \/ TradeSeen

Spec == Init /\ [][Next]_vars

-----------------------------------------------------------------------------
OnBook(P(_)) == feed = "book" => P(Ticks(tape))

At(batch, n) == IF n \in DOMAIN batch THEN batch[n] ELSE None

\* An event that leaves two sides, the flow from one to another, and the
\* ones before event n that no snapshot separates from it.
Quoted(t, n) == t[n].kind # "gap" /\ ValidL1(t[n].book)

Flow(t, j, n) == Contribution(Quote(t[j].book, 1), Quote(t[n].book, 1))

Recent(t, n) ==
  {j \in 1..(n - 1) : Quoted(t, j) /\ \A i \in (j + 1)..n : t[i].kind # "snapshot"}

(* The streaming OFI of an event is the one the replay of the tape computes *)
(* for it, but in exactly two cases, and there one of the two breaks the    *)
(* rules both are given in docs/math/ofi.md:153-160.  Rule 5, no flow for   *)
(* the first book after a resync: the accumulator forms one, unless a gap   *)
(* was seen by the consumer's book (stream.py, observe_book).  Rule 3, a    *)
(* lost side resets: the replay forms the flow from the last book of the    *)
(* epoch that had both (reconstruct.py, _iter_synced_books).                *)
StreamAgainstBatch ==
  OnBook(LAMBDA ticks :
    LET batch == BatchL1(ticks)
        uncut(n)   == /\ n > 1 /\ tape[n].kind = "snapshot"
                      /\ Quoted(tape, n - 1) /\ Quoted(tape, n)
        bridged(n) == /\ n > 1 /\ tape[n].kind = "depth"
                      /\ ~Quoted(tape, n - 1) /\ Quoted(tape, n) /\ Recent(tape, n) # {}
    IN  \A n \in DOMAIN tape :
          /\ uncut(n) => streamed[n].l1 = Flow(tape, n - 1, n) /\ At(batch, n) = None
          /\ bridged(n) => /\ streamed[n].l1 = None
                           /\ At(batch, n) = Flow(tape, Max(Recent(tape, n)), n)
          /\ ~uncut(n) /\ ~bridged(n) => streamed[n].l1 = At(batch, n))

(* Level 1 of the multi-level metric is OFI, call by call: the two          *)
(* accumulators reset at the same events, and a level that is missing       *)
(* deeper does not touch the first (mlofi.py, "Level 1 reproduces OFI       *)
(* exactly").                                                               *)
TopLevelIsOfi ==
  \A n \in DOMAIN streamed :
    IF streamed[n].lm = None THEN streamed[n].l1 = None
    ELSE /\ streamed[n].l1 = streamed[n].lm[1]
         /\ NaN # streamed[n].l1

(* Level by level the metric takes buyers and sellers alike and owes        *)
(* nothing to the direction of time: the step back from a book returns what *)
(* the step to it took, and the mirrored book, asks for bids, gives the     *)
(* opposite flow.  Of the four weak inequalities of ofi_contributions none  *)
(* may be strict (_common.py).                                              *)
Mirrored(q) == [bp |-> -q.ap, bq |-> q.aq, ap |-> -q.bp, aq |-> q.bq]

FlowIsAntisymmetric ==
  feed = "book" =>
    \A n \in 2..Len(tape), m \in 1..Levels :
      LET p == Quote(tape[n - 1].book, m)
          q == Quote(tape[n].book, m)
      IN  Whole(p) /\ Whole(q) =>
            /\ Contribution(q, p) = -Contribution(p, q)
            /\ Contribution(Mirrored(p), Mirrored(q)) = -Contribution(p, q)

(* Every bar holds the contributions the replay found in its time and the   *)
(* mid of the last tick before its end, at every level; none is lost to a   *)
(* bar's edge and none crosses an epoch (ofi.py, compute_ofi_time_windows). *)
BarsAreExact ==
  OnBook(LAMBDA ticks :
    \A m \in 1..Levels :
      LET events == Events(ticks, m)
          batch == Batch(ticks, m)
          start(k) == (FirstBar(events) + k) * Window
          before(k) == {i \in DOMAIN ticks : ticks[i].ts < start(k + 1)}
          counted(k) == {n \in DOMAIN batch : tape[n].ts \in start(k) .. (start(k + 1) - 1)
                                              /\ batch[n] # NaN}
      IN  \A k \in Bars(events) :
            /\ BarSum(events, k) = Total([n \in DOMAIN tape |-> IF n \in counted(k) THEN batch[n] ELSE 0])
            /\ BarMid2(ticks, events, k) = Mid2(ticks[Max(before(k))].book))

(* A bar is invalid exactly when a resync comes after its first event and   *)
(* before its last, or when it lies in an empty stretch with a resync after *)
(* it, whatever filled bars surround that stretch.  A bar that opens with a *)
(* resync is valid (windows.py, TimeWindowSums and _between_epochs).        *)
BarsKnowResyncs ==
  OnBook(LAMBDA ticks :
    LET events == Events(ticks, 1)
        bar(i) == BarOf(events, events[i].ts)
        resyncs == {i \in 1..(Len(events) - 1) : events[i].epoch # events[i + 1].epoch}
    IN  \A k \in Bars(events) :
          BarValid(events, k) <=>
            \A i \in resyncs : ~(bar(i) = k /\ bar(i + 1) = k) /\ ~(bar(i) < k /\ k < bar(i + 1)))

(* What the regressions observe of two valid bars in a row: the flow of     *)
(* each, all of one epoch, and the change of the mid from the end of the    *)
(* first to the end of the second.  The change runs over a resync exactly   *)
(* when the second bar opens with one: `valid` does not keep that out.  And *)
(* a resync elsewhere costs no observation: two filled bars of one epoch    *)
(* are one (scripts/validate_ofi.py, evaluate_capture).                     *)
ObservationsSpanEpochs ==
  OnBook(LAMBDA ticks :
    LET events == Events(ticks, 1)
        bar(i) == BarOf(events, events[i].ts)
        opens(i) == i = 1 \/ bar(i - 1) < bar(i)
        resyncs == {i \in 2..Len(events) : events[i].epoch # events[i - 1].epoch}
        filled(k) == Inside(events, k) # {} /\ Inside(events, k + 1) # {}
        midEpoch(k) == ticks[LastTick(ticks, events, k)].epoch
    IN  \A k \in Bars(events) :
          /\ k \in Paired(events) =>
               /\ \A i \in resyncs : bar(i) \in {k, k + 1} => opens(i)
               /\ (midEpoch(k) # midEpoch(k + 1)) <=> (\E i \in resyncs : bar(i) = k + 1)
          /\ filled(k) /\ Cardinality(EpochsIn(events, k) \cup EpochsIn(events, k + 1)) = 1
             => k \in Paired(events))

(* The caveat of the reports, "Barras con resync se tiran": no valid bar    *)
(* has in it the first event of a new epoch (scripts/validate_ofi.py:373).  *)
ResyncBarsDropped ==
  OnBook(LAMBDA ticks :
    LET events == Events(ticks, 1)
        resyncs == {i \in 2..Len(events) : events[i].epoch # events[i - 1].epoch}
    IN  \A i \in resyncs : ~BarValid(events, BarOf(events, events[i].ts)))

(* The accumulator closes the buckets the batch closes, at the same prices, *)
(* with the same rest and the same bought volume up to the rounding it was  *)
(* given, however the trades straddle the buckets (stream.py, observe;      *)
(* vpin.py, bucket_trades).                                                 *)
BucketsAreBatch ==
  feed \in Classes =>
    LET batch == Buckets(tape, feed)
        buys  == IF feed = "bvc" THEN BulkBuys(vpin.first, vpin.closes) ELSE vpin.buys
    IN  /\ vpin.closes = batch.closes
        /\ Distance(vpin.vol, batch.remainder) <= Tol
        /\ \A k \in DOMAIN buys : Distance(buys[k], batch.buys[k]) <= Tol

(* Every value of the rolling series is emitted once and in order, also     *)
(* when one trade closes several buckets, and the bulk classified series is *)
(* the batch's, value for value (stream.py, _new_vpin_values).              *)
EmittedOnce ==
  feed \in Classes =>
    /\ vpin.emitted = Series(vpin, feed)
    /\ feed = "bvc" => vpin.emitted = VpinFromCapture(tape, feed)

(* The resampled series is a step function of the trades: at the end of     *)
(* every bar, with or without trades in it, it is the cumulative volume of  *)
(* the batch, which is also what the accumulator holds (cvd.py,             *)
(* resample_cvd; batch.py, cvd_from_capture).                               *)
CvdBarsAreRunning ==
  feed \in Classes /\ tape # << >> =>
    LET bars == CvdBars(tape)
        past(k) == {i \in DOMAIN tape : tape[i].ts < (k + 1) * BarLength}
    IN  /\ \A k \in DOMAIN bars.cvd :
             bars.cvd[k] = CvdFromCapture(tape, Cardinality(past(k)))
        /\ cvd = CvdFromCapture(tape, Len(tape))

(* Level by level and call by call, the flow is one function of two books:  *)
(* its first level is OFI, and it favours neither side.                     *)
FlowIsSound == TopLevelIsOfi /\ FlowIsAntisymmetric

(* What becomes of the bars around a resync, and of the observations made   *)
(* of them.                                                                 *)
BarsAroundResyncs == BarsKnowResyncs /\ ObservationsSpanEpochs

(* The two trade accumulators hold, bucket by bucket and value by value,    *)
(* what the batch functions compute from the tape.                          *)
TradeStreamIsBatch == TypeOK /\ BucketsAreBatch /\ EmittedOnce /\ CvdBarsAreRunning
=============================================================================
