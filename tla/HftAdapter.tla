----------------------------- MODULE HftAdapter -----------------------------
(***************************************************************************)
(* What a backtest engine is fed (backtest/hft_adapter.py, conversion.py,  *)
(* nautilus_factory.py).  The events come from book_stream, in order and   *)
(* with stamps that strictly increase (module Tape, Restamp), so the       *)
(* adapter's sort by time only reorders the rows of one event.  A book is  *)
(* its two sides, quantities by price, 0 for an absent level.              *)
(***************************************************************************)
EXTENDS Integers, Sequences, FiniteSets, SequencesExt

CONSTANT TopPrice     (* bound on the prices, which are in ticks           *)

ASSUME PriceAssumption == TopPrice \in Nat

Price == 1..TopPrice

Side == {"bid", "ask"}

Levels == [Price -> Nat]
EmptyBook == [s \in Side |-> [p \in Price |-> 0]]

Positive(levels) == {p \in Price : levels[p] > 0}

\* The side's price farthest from the touch, and its best one.
Farthest(s, S) == IF s = "bid" THEN Min(S) ELSE Max(S)
BestOf(s, S)   == IF s = "bid" THEN Max(S) ELSE Min(S)

\* A snapshot is [kind, book]; a diff is [kind, changes], a set of
\* [side, px, qty] that names no level twice.  OrderBook replays them like
\* this.
SetLevel(b, x) == [b EXCEPT ![x.side] = [@ EXCEPT ![x.px] = x.qty]]

Naming(changes, s, p) == {x \in changes : x.side = s /\ x.px = p}

Changed(b, changes) ==
  [s \in Side |-> [p \in Price |->
     IF Naming(changes, s, p) = {} THEN b[s][p]
     ELSE (CHOOSE x \in Naming(changes, s, p) : TRUE).qty]]

ReplayEvent(b, e) == IF e.kind = "snapshot" THEN e.book ELSE Changed(b, e.changes)

-----------------------------------------------------------------------------
\* Rows of the hftbacktest feed: [kind, side, px, qty].
Row(kind, s, p, q) == [kind |-> kind, side |-> s, px |-> p, qty |-> q]

LevelRows(b, s) == SetToSeq({Row("snapshot", s, p, b[s][p]) : p \in Positive(b[s])})

\* reach: by side, the deepest price seen since the last snapshot, if any.
NoReach == [s \in Side |-> {}]

ExtendReach(reach, seen) ==
  [s \in Side |-> IF reach[s] \cup seen[s] = {} THEN {} ELSE {Farthest(s, reach[s] \cup seen[s])}]

\* Mutant: the old book's levels beyond the new snapshot are not cleared.
ClearRowShort(b, s, reach) ==
  IF Positive(b[s]) = {} THEN << >>
  ELSE <<Row("clear", s, Farthest(s, Positive(b[s])), 0)>>

\* _resync_rows of a side: CLEAR from the touch out to the farthest price of
\* the old and the new book; nothing for an empty side.
ClearRow(b, s, reach) ==
  IF Positive(b[s]) = {} THEN << >>
  ELSE <<Row("clear", s, Farthest(s, Positive(b[s]) \cup reach[s]), 0)>>

\* Both sides, in the order of the feed's sort by kind rank: every CLEAR
\* comes before every level.
ResyncRows(b, reach) ==
  (ClearRow(b, "bid", reach) \o ClearRow(b, "ask", reach))
    \o (LevelRows(b, "bid") \o LevelRows(b, "ask"))

DiffRows(d) == SetToSeq({Row("depth", x.side, x.px, x.qty) : x \in d.changes})

RowsOf(e, reach) == IF e.kind = "snapshot" THEN ResyncRows(e.book, reach) ELSE DiffRows(e)

Touched(e, s) ==
  IF e.kind = "snapshot" THEN Positive(e.book[s])
  ELSE {x.px : x \in {y \in e.changes : y.side = s /\ y.qty > 0}}

\* _apply_snapshot and _apply_delta: the reach after the event.
ReachAfter(reach, e) ==
  ExtendReach(IF e.kind = "snapshot" THEN NoReach ELSE reach, [s \in Side |-> Touched(e, s)])

-----------------------------------------------------------------------------
\* The counters of HftFeed enter conservation_gap only as differences between
\* what came in and what went out or was dropped for a documented reason; a
\* ledger keeps the differences.  Those of snapshots and trades are counted
\* in the same branch that emits or drops them, and are left out.
Ledger == [levels |-> 0, diffs |-> 0, changes |-> 0]

ConservationGap(l) ==
  LET size(x) == IF x < 0 THEN -x ELSE x
  IN  size(l.levels) + size(l.diffs) + size(l.changes)

CountRows(rows, kind) == Cardinality({i \in DOMAIN rows : rows[i].kind = kind})

\* An event goes in, its rows come out.
Booked(l, e, rows) ==
  IF e.kind = "snapshot"
  THEN [l EXCEPT !.levels = @ + Cardinality(Positive(e.book["bid"]))
                              + Cardinality(Positive(e.book["ask"])) - CountRows(rows, "snapshot")]
  ELSE [l EXCEPT !.diffs = @ + 1 - (IF e.changes = {} THEN 1 ELSE 0) - (IF rows # << >> THEN 1 ELSE 0),
                 !.changes = @ + Cardinality(e.changes) - CountRows(rows, "depth")]

-----------------------------------------------------------------------------
\* hftbacktest's market depth: a CLEAR empties a side from the touch out to
\* its price.
Cleared(s, px) == {p \in Price : IF s = "bid" THEN p >= px ELSE p <= px}

ApplyRow(b, r) ==
  IF r.kind = "clear"
  THEN [b EXCEPT ![r.side] = [p \in Price |-> IF p \in Cleared(r.side, r.px) THEN 0 ELSE @[p]]]
  ELSE SetLevel(b, r)

\* The book after each row of a batch, and after the whole batch.
PlayTable(b, rows) ==
  LET at[i \in 0..Len(rows)] == IF i = 0 THEN b ELSE ApplyRow(at[i - 1], rows[i]) IN at

Play(b, rows) == PlayTable(b, rows)[Len(rows)]

\* The ops of the nautilus feed and the book they build there.
Op(action, s, p, q) == [action |-> action, side |-> s, px |-> p, qty |-> q]

AddOps(b) ==
  SetToSeq(UNION {{Op("add", s, p, b[s][p]) : p \in Positive(b[s])} : s \in Side})

OpsOf(e) ==
  IF e.kind = "snapshot" THEN <<Op("clear", "bid", 0, 0)>> \o AddOps(e.book)
  ELSE SetToSeq({Op(IF x.qty = 0 THEN "delete" ELSE "update", x.side, x.px, x.qty) : x \in e.changes})

ApplyOp(b, op) ==
  CASE op.action = "clear" -> EmptyBook
    [] op.action = "delete" -> SetLevel(b, [op EXCEPT !.qty = 0])
    [] OTHER -> SetLevel(b, op)

OpsTable(b, ops) ==
  LET at[i \in 0..Len(ops)] == IF i = 0 THEN b ELSE ApplyOp(at[i - 1], ops[i]) IN at

PlayOps(b, ops) == OpsTable(b, ops)[Len(ops)]
=============================================================================
