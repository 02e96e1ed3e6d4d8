----------------------------- MODULE MCBacktest -----------------------------
(***************************************************************************)
(* Six prices.  Snapshots: a usual book, one that moved down and is        *)
(* shallower, one whose bids are empty; a book after that one is shallower *)
(* than what was there before it.  Diffs: a level deeper than any          *)
(* snapshot's, a touch that falls, one that rises, an empty diff.          *)
(***************************************************************************)
EXTENDS Backtest

Book(bids, asks) == [s \in Side |-> [p \in Price |-> IF p \in (IF s = "bid" THEN bids ELSE asks) THEN 1 ELSE 0]]

MCBooks == {Book({2, 3}, {5}), Book({2}, {3, 4}), Book({}, {5})}

Ch(s, p, q) == [side |-> s, px |-> p, qty |-> q]

MCChanges == {{},
              {Ch("bid", 1, 2), Ch("ask", 6, 1)},
              {Ch("bid", 3, 0), Ch("ask", 3, 1)},
              {Ch("bid", 4, 1), Ch("ask", 3, 0)}}
=============================================================================
