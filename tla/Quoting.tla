------------------------------ MODULE Quoting -------------------------------
(***************************************************************************)
(* Quotes and the position (backtest/quotes.py, types.py).  Prices are in  *)
(* ticks; a mid is doubled, so that it is an integer.  Averages and profit *)
(* are fractions [n, d].                                                   *)
(***************************************************************************)
EXTENDS Integers

CONSTANTS
  SpreadTicks,  (* spread_ticks                                            *)
  MaxSkew       (* max_skew                                                *)

ASSUME QuotingAssumption == SpreadTicks \in Nat \ {0} /\ MaxSkew \in Nat

\* skew_ticks, for whatever the rolling OFI is.
Skews == {-MaxSkew, 0, MaxSkew}

Lower(a, b)  == IF a <= b THEN a ELSE b
Higher(a, b) == IF a <= b THEN b ELSE a

\* round(mid / tick): halves go to the even tick.
MidTicks(mid2) ==
  IF mid2 % 2 = 0 THEN mid2 \div 2
  ELSE IF (mid2 \div 2) % 2 = 0 THEN mid2 \div 2 ELSE mid2 \div 2 + 1

\* Mutant: the clamp lets a quote reach the other side's touch.
MakerQuotesTouching(bestBid, bestAsk, skew) ==
  LET mid == MidTicks(bestBid + bestAsk)
  IN  [bid |-> Lower(mid - SpreadTicks + skew, bestAsk),
       ask |-> Higher(mid + SpreadTicks + skew, bestBid)]

\* maker_quotes: around the mid, skewed, then one tick inside the touch.
MakerQuotes(bestBid, bestAsk, skew) ==
  LET mid == MidTicks(bestBid + bestAsk)
  IN  [bid |-> Lower(mid - SpreadTicks + skew, bestAsk - 1),
       ask |-> Higher(mid + SpreadTicks + skew, bestBid + 1)]

AggressiveQuotes(bestBid, bestAsk) == [bid |-> bestAsk, ask |-> bestBid]

-----------------------------------------------------------------------------
Size(x) == IF x < 0 THEN -x ELSE x

Flat == [qty |-> 0, avg |-> [n |-> 0, d |-> 1], realized |-> [n |-> 0, d |-> 1]]

\* apply_fill: a fill of `signed` at px.  Mutant: the position that a larger
\* fill opens on the other side keeps the price of the old one.
Realize(p, closed, px) ==
  LET sign == IF p.qty > 0 THEN 1 ELSE -1
  IN  [n |-> p.realized.n * p.avg.d + closed * sign * (px * p.avg.d - p.avg.n) * p.realized.d,
       d |-> p.realized.d * p.avg.d]

ApplyFillKeepingEntry(p, signed, px) ==
  IF p.qty = 0 \/ (p.qty > 0 <=> signed > 0)
  THEN [p EXCEPT !.qty = @ + signed,
                 !.avg = [n |-> @.n * Size(p.qty) + px * Size(signed) * @.d,
                          d |-> @.d * Size(p.qty + signed)]]
  ELSE [p EXCEPT !.qty = @ + signed,
                 !.realized = Realize(p, Lower(Size(signed), Size(p.qty)), px),
                 !.avg = IF p.qty + signed = 0 THEN [n |-> 0, d |-> 1] ELSE @]

ApplyFill(p, signed, px) ==
  IF p.qty = 0 \/ (p.qty > 0 <=> signed > 0)
  THEN [p EXCEPT !.qty = @ + signed,
                 !.avg = [n |-> @.n * Size(p.qty) + px * Size(signed) * @.d,
                          d |-> @.d * Size(p.qty + signed)]]
  ELSE [p EXCEPT !.qty = @ + signed,
                 !.realized = Realize(p, Lower(Size(signed), Size(p.qty)), px),
                 !.avg = CASE Size(signed) > Size(p.qty) -> [n |-> px, d |-> 1]
                           [] p.qty + signed = 0 -> [n |-> 0, d |-> 1]
                           [] OTHER -> @]
=============================================================================
