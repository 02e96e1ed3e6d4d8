-------------------------------- MODULE Tape --------------------------------
(***************************************************************************)
(* What readers make of a recorded tape: storage/reconstruct.py and the    *)
(* chain check of storage/quality.py.  A tape is the rows of every part    *)
(* file of every run, by type; the readers sort them, so their order on    *)
(* disk does not matter and a tape is a record of sets (two identical      *)
(* periodic snapshots are one row).                                        *)
(***************************************************************************)
EXTENDS OrderBook, Sequences, SequencesExt, FiniteSets, FiniteSetsExt

\* A snapshot row holds a whole book; a delta row is an event of the stream.
SnapshotRow(b, ts) ==
  [kind |-> "snapshot", u |-> b.last, levels |-> b.levels, known |-> b.known, ts |-> ts]

NoRow == [kind |-> "none", u |-> NoId]

\* apply_snapshot and apply_delta on a row.
ApplyRow(b, r) ==
  IF r.kind = "snapshot"
  THEN [last |-> r.u, levels |-> r.levels, known |-> r.known,
        seqReady |-> FALSE, isSynced |-> TRUE]
  ELSE ApplyDelta(b, r)

\* The readers' sorts by a relation of rows; what it does not tell apart comes
\* in the order it was read in, which may be any.
FirstOf(S, order) == CHOOSE r \in S : \A s \in S : <<r, s>> \in order

SortedOn(done, S, order) == Append(done, FirstOf(S \ Range(done), order))

SortTable(S, order) ==
  LET at[k \in 0..Cardinality(S)] == IF k = 0 THEN << >> ELSE SortedOn(at[k - 1], S, order)
  IN  at

SortedRows(S, order) == SortTable(S, order)[Cardinality(S)]

ById(S) == {p \in S \X S : p[1].u <= p[2].u}

-----------------------------------------------------------------------------
\* _select: the order of replay, by update id, a delta before the snapshots
\* of its id (and among those the order the rows were read in, by time).
ReplayOrder(r, s) ==
  \/ r.u < s.u
  \/ r.u = s.u /\ (r.kind # s.kind => r.kind = "depth")
               /\ (r.kind = s.kind => r.ts <= s.ts)

Ordered(tape) ==
  LET rows == tape.snapshot \cup tape.depth
  IN  SortedRows(rows, {p \in rows \X rows : ReplayOrder(p[1], p[2])})

Unselected == [kept |-> << >>, periodic |-> 0, offChain |-> 0,
               last |-> NoId, bracketing |-> FALSE, held |-> NoRow]

\* Mutant: a diff newer than the last row is taken for its successor.
ContinuesIfNewer(s, d) == s.last # NoId /\ d.U > s.last

Continues(s, d) ==
  s.last # NoId /\ (d.pu = s.last \/ (s.bracketing /\ Brackets(d, s.last)))

\* A snapshot at the id already reached is a periodic copy of the book.
TakeSnapshot(s, r) ==
  IF r.u = s.last THEN [s EXCEPT !.periodic = @ + 1]
  ELSE [s EXCEPT !.kept = Append(@, r), !.last = r.u, !.bracketing = TRUE]

\* A diff off the chain lets the snapshot of the same id go first; without
\* one it is dropped.
TakeDelta(s, d, upcoming) ==
  CASE Continues(s, d) ->
         [s EXCEPT !.kept = Append(@, d), !.last = d.u, !.bracketing = FALSE, !.held = NoRow]
    [] ~Continues(s, d) /\ upcoming.kind = "snapshot" /\ upcoming.u = d.u -> [s EXCEPT !.held = d]
    [] OTHER -> [s EXCEPT !.offChain = @ + 1, !.held = NoRow]

TakeRow(s, r, upcoming) ==
  CASE r.kind = "depth" -> TakeDelta(s, r, upcoming)
    [] r.kind # "depth" /\ s.held = NoRow -> TakeSnapshot(s, r)
    [] OTHER -> TakeDelta(TakeSnapshot(s, r), s.held, upcoming)

RowAfter(rows, i) == IF i < Len(rows) THEN rows[i + 1] ELSE NoRow

SelectTable(rows) ==
  LET at[i \in 0..Len(rows)] ==
        IF i = 0 THEN Unselected ELSE TakeRow(at[i - 1], rows[i], RowAfter(rows, i))
  IN  at

Select(tape) == SelectTable(Ordered(tape))[Len(Ordered(tape))]

\* _iter_synced_books: the books after every replayed event; `refused` tells
\* whether a diff met a gap or was ignored.
Unread == [book |-> EmptyBook, books |-> << >>, refused |-> FALSE]

Yielded(acc, r) ==
  LET b == ApplyRow(acc.book, r)
  IN  [book |-> b, books |-> Append(acc.books, b),
       refused |-> acc.refused \/ (r.kind = "depth" /\ Verdict(acc.book, r) # "applied")]

YieldTable(kept) ==
  LET at[i \in 0..Len(kept)] == IF i = 0 THEN Unread ELSE Yielded(at[i - 1], kept[i]) IN at

Replay(tape) == LET kept == Select(tape).kept IN YieldTable(kept)[Len(kept)]

-----------------------------------------------------------------------------
\* _chain of check_capture: epochs and breaks of the deltas in id order.
Explained(d, ids) == d.pu \in ids \/ \E id \in ids : Brackets(d, id)

Walked(acc, d, ids) ==
  [last |-> d.u,
   breaks |-> IF d.pu = acc.last \/ Explained(d, ids) THEN acc.breaks ELSE acc.breaks + 1]

WalkTable(deltas, ids) ==
  LET at[i \in 0..Len(deltas)] ==
        IF i = 0 THEN [last |-> NoId, breaks |-> 0] ELSE Walked(at[i - 1], deltas[i], ids)
  IN  at

Breaks(tape) ==
  LET deltas == SortedRows(tape.depth, ById(tape.depth))
  IN  WalkTable(deltas, {r.u : r \in tape.snapshot})[Len(deltas)].breaks

-----------------------------------------------------------------------------
\* The result of a reconstruction: a book, or ReconstructionError.
Failed == [ok |-> FALSE, book |-> EmptyBook]
Rebuilt(b) == [ok |-> TRUE, book |-> b]

\* apply_delta in a reconstruction: a gap ends it.
Extend(acc, d) ==
  IF ~acc.ok \/ Verdict(acc.book, d) = "gap" THEN Failed
  ELSE Rebuilt(ApplyDelta(acc.book, d))

\* reconstruct_book_at_update_id: the book at the first stored u >= R.
LatestId(rows) == CHOOSE r \in rows : \A s \in rows : s.u < r.u \/ (s.u = r.u /\ s.ts <= r.ts)

Towards(acc, d, R) == IF acc.ok /\ acc.book.last >= R THEN acc ELSE Extend(acc, d)

TowardsTable(b, deltas, R) ==
  LET at[i \in 0..Len(deltas)] == IF i = 0 THEN Rebuilt(b) ELSE Towards(at[i - 1], deltas[i], R)
  IN  at

BookAtId(tape, R) ==
  LET eligible == {r \in tape.snapshot : r.u <= R}
      chosen   == LatestId(eligible)
      later    == {d \in tape.depth : d.u > chosen.u}
      deltas   == SortedRows(later, ById(later))
      result   == TowardsTable(ApplyRow(EmptyBook, chosen), deltas, R)[Len(deltas)]
  IN  IF eligible = {} \/ result.book.last < R THEN Failed ELSE result

ByTime(S) == {p \in S \X S : p[1].ts < p[2].ts \/ (p[1].ts = p[2].ts /\ p[1].u <= p[2].u)}

LatestTime(rows) == CHOOSE r \in rows : \A s \in rows : s.ts < r.ts \/ (s.ts = r.ts /\ s.u <= r.u)

ExtendTable(b, deltas) ==
  LET at[i \in 0..Len(deltas)] == IF i = 0 THEN Rebuilt(b) ELSE Extend(at[i - 1], deltas[i])
  IN  at

\* reconstruct_book: the book at event time T.  Mutant: diffs stamped after T
\* are replayed too.
BookAtTimeAhead(tape, T) ==
  LET eligible == {r \in tape.snapshot : r.ts <= T}
      chosen   == LatestTime(eligible)
      later    == {d \in tape.depth : chosen.ts < d.ts}
      deltas   == SortedRows(later, ByTime(later))
  IN  IF eligible = {} THEN Failed
      ELSE ExtendTable(ApplyRow(EmptyBook, chosen), deltas)[Len(deltas)]

BookAtTime(tape, T) ==
  LET eligible == {r \in tape.snapshot : r.ts <= T}
      chosen   == LatestTime(eligible)
      later    == {d \in tape.depth : chosen.ts < d.ts /\ d.ts <= T}
      deltas   == SortedRows(later, ByTime(later))
  IN  IF eligible = {} THEN Failed
      ELSE ExtendTable(ApplyRow(EmptyBook, chosen), deltas)[Len(deltas)]

-----------------------------------------------------------------------------
\* _restamp on one of the two clocks: stamps pulled back, from the end, until
\* they strictly increase.
PulledBack(stamp, after) == IF stamp >= after THEN after - 1 ELSE stamp

RestampTable(stamps) ==
  LET n == Len(stamps)
      at[k \in 0..(n - 1)] ==
        IF k = 0 THEN stamps[n] ELSE PulledBack(stamps[n - k], at[k - 1])
  IN  at

Restamp(stamps) ==
  LET n == Len(stamps) IN [i \in 1..n |-> RestampTable(stamps)[n - i]]
=============================================================================
