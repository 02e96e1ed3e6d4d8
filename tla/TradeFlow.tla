----------------------------- MODULE TradeFlow ------------------------------
(***************************************************************************)
(* Signed volume and volume buckets (metrics/cvd.py, vpin.py and the two   *)
(* trade accumulators of stream.py).  A trade is [px, qty, sign, ts].      *)
(* Quantities are integers so fine that a rounding error of the doubles is *)
(* a few units of them: a bucket may close up to Tol units short.          *)
(***************************************************************************)
EXTENDS Integers, Sequences, FiniteSets, SequencesExt, FiniteSetsExt, Sums

CONSTANTS
  BucketSize,   (* volume V of a bucket                                    *)
  Tol,          (* V * _REL_TOL                                            *)
  BarLength,    (* time bar of the resampled series                        *)
  VpinWindow,   (* buckets in the rolling mean                             *)
  Phi(_),       (* V * Phi(dP / sigma), for a given sigma                  *)
  NoPrice       (* no trade seen yet                                       *)

ASSUME TradeFlowAssumption ==
  /\ BucketSize \in Nat \ {0} /\ Tol \in 0..(BucketSize - 1)
  /\ BarLength \in Nat \ {0} /\ VpinWindow \in Nat \ {0} /\ NoPrice \notin Int

Least(a, b) == IF a <= b THEN a ELSE b
Distance(a, b) == IF a <= b THEN b - a ELSE a - b

\* |V_S - V_B| of a bucket with this buy volume.
Imbalanced(buy) == Distance(buy, BucketSize - buy)

\* compute_vpin_from_buckets, without the division by window * V.
Rolling(buys) ==
  [i \in 1..(Len(buys) - VpinWindow + 1) |->
     Total([j \in 1..VpinWindow |-> Imbalanced(buys[i + j - 1])])]

\* Bulk classification: from one close to the next, from the first price on.
BulkBuys(first, closes) ==
  [j \in DOMAIN closes |-> Phi(closes[j] - (IF j = 1 THEN first ELSE closes[j - 1]))]

-----------------------------------------------------------------------------
\* VpinAccumulator: the open bucket (volume, of it bought), the closed ones,
\* the first price, the values emitted so far.
NoBuckets == [vol |-> 0, bought |-> 0, buys |-> << >>, closes |-> << >>,
              first |-> NoPrice, emitted |-> << >>]

Series(acc, class) ==
  Rolling(IF class = "bvc" THEN BulkBuys(acc.first, acc.closes) ELSE acc.buys)

\* Mutant: a bucket closes only when it is exactly full.
FullExactly(vol) == vol >= BucketSize

Full(vol) == vol + Tol >= BucketSize

\* The bucket closes and _new_vpin_values returns the values not yet emitted.
Close(acc, px, class) ==
  LET closed == [acc EXCEPT !.vol = 0, !.bought = 0,
                            !.buys = Append(@, Least(acc.bought, BucketSize)),
                            !.closes = Append(@, px)]
      series == Series(closed, class)
  IN  [closed EXCEPT !.emitted = @ \o SubSeq(series, Len(@) + 1, Len(series))]

\* The part of a trade that goes into the open bucket; the bulk classification
\* does not look at what was bought of it.
Fill(acc, t, take, class) ==
  LET filled == [acc EXCEPT !.vol = @ + take, !.bought = @ + (IF t.sign > 0 THEN take ELSE 0)]
  IN  IF Full(filled.vol) THEN Close(filled, t.px, class) ELSE filled

\* observe: the trade is poured into one bucket after another; it touches at
\* most one more than it could fill.
ObserveTrade(acc, t, class) ==
  LET poured[k \in 0..(t.qty \div (BucketSize - Tol) + 2)] ==
        IF k = 0 THEN [acc |-> [acc EXCEPT !.first = IF @ = NoPrice THEN t.px ELSE @], left |-> t.qty]
        ELSE LET p == poured[k - 1]
                 take == Least(p.left, BucketSize - p.acc.vol)
             IN  IF p.left = 0 THEN p
                 ELSE [acc |-> Fill(p.acc, t, take, class), left |-> p.left - take]
  IN  IF t.qty <= 0 THEN acc ELSE poured[t.qty \div (BucketSize - Tol) + 2].acc

-----------------------------------------------------------------------------
\* The batch functions, over all the trades at once; those without volume are
\* masked out.
KeptTable(trades) ==
  LET kept[n \in 0..Len(trades)] ==
        IF n = 0 THEN << >>
        ELSE IF trades[n].qty > 0 THEN Append(kept[n - 1], trades[n]) ELSE kept[n - 1]
  IN  kept

Kept(trades) == KeptTable(trades)[Len(trades)]

Volume(trades, n) == Total([i \in 1..n |-> trades[i].qty])

\* _bucket_grid: the complete buckets and the rest.
Complete(total) == (total + Tol) \div BucketSize

Remainder(total) == LET rest == total - Complete(total) * BucketSize
                    IN  IF rest > 0 THEN rest ELSE 0

\* _close_prices: the first trade that reaches the boundary (its tolerance is
\* relative to the boundary), or the last one.
ClosePrice(trades, k) ==
  LET n == Len(trades)
      reach == {i \in 1..n : Volume(trades, i) + k * Tol >= k * BucketSize}
  IN  trades[IF reach = {} THEN n ELSE Min(reach)].px

\* np.interp of the bought volume at total volume x.
BoughtAt(trades, x) ==
  Total([i \in 1..Len(trades) |->
           IF trades[i].sign > 0 /\ x > Volume(trades, i - 1)
           THEN Least(trades[i].qty, x - Volume(trades, i - 1)) ELSE 0])

\* bucket_trades and bucket_trades_bvc.
Buckets(trades, class) ==
  LET kept == Kept(trades)
      total == Volume(kept, Len(kept))
      closes == [k \in 1..Complete(total) |-> ClosePrice(kept, k)]
  IN  [buys |-> IF class = "bvc" THEN BulkBuys(IF kept = << >> THEN NoPrice ELSE kept[1].px, closes)
                ELSE [k \in 1..Complete(total) |->
                        BoughtAt(kept, k * BucketSize) - BoughtAt(kept, (k - 1) * BucketSize)],
       closes |-> closes,
       remainder |-> Remainder(total)]

\* The tolerances at a boundary agree on every trade: one bucket's, by which
\* _bucket_grid counts it as reached, and as many buckets' as it is away, which
\* _close_prices forgives and VpinAccumulator, bucket by bucket, may have forgiven.
TolerancesAgree(trades) ==
  LET kept == Kept(trades)
  IN  \A i \in DOMAIN kept :
        Volume(kept, i) \div (BucketSize - Tol) = Complete(Volume(kept, i))

\* vpin_from_capture.
VpinFromCapture(trades, class) == Rolling(Buckets(trades, class).buys)

-----------------------------------------------------------------------------
Signed(t) == t.sign * t.qty

\* cvd_from_capture, after the first n trades.
CvdFromCapture(trades, n) == Total([i \in 1..n |-> Signed(trades[i])])

\* resample_cvd: signed volume by time bar and its running sum.
CvdBars(trades) ==
  LET bar(i) == trades[i].ts \div BarLength
      first == Min({bar(i) : i \in DOMAIN trades})
      last == Max({bar(i) : i \in DOMAIN trades})
      delta == [k \in first..last |->
                  Total([i \in DOMAIN trades |-> IF bar(i) = k THEN Signed(trades[i]) ELSE 0])]
  IN  [delta |-> delta,
       cvd |-> [k \in first..last |->
                  Total([j \in 1..(k - first + 1) |-> delta[first + j - 1]])]]
=============================================================================
