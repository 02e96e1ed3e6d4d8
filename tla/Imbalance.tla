----------------------------- MODULE Imbalance ------------------------------
(***************************************************************************)
(* Order flow imbalance (metrics/ofi.py, mlofi.py, windows.py, _common.py, *)
(* the two book accumulators of stream.py and the replay of                *)
(* storage/reconstruct.py they are compared with).  A book is its two      *)
(* sides, each the sequence of its levels <<price, quantity>>, best first. *)
(***************************************************************************)
EXTENDS Integers, Sequences, FiniteSets, SequencesExt, FiniteSetsExt, Sums

CONSTANTS
  Levels,       (* depth M of the multi-level metric                       *)
  Window,       (* length of a time bar                                    *)
  NaN,          (* price of a level that is not there                      *)
  None          (* no contribution, no previous state                      *)

ASSUME ImbalanceAssumption ==
  /\ Levels \in Nat \ {0} /\ Window \in Nat \ {0}
  /\ NaN \notin Int /\ None \notin Int /\ NaN # None

-----------------------------------------------------------------------------
\* The two touches of a level, NaN-padded where the book is shallower.
Quote(b, m) ==
  [bp |-> IF m <= Len(b.bids) THEN b.bids[m][1] ELSE NaN,
   bq |-> IF m <= Len(b.bids) THEN b.bids[m][2] ELSE NaN,
   ap |-> IF m <= Len(b.asks) THEN b.asks[m][1] ELSE NaN,
   aq |-> IF m <= Len(b.asks) THEN b.asks[m][2] ELSE NaN]

Whole(q) == NaN \notin {q.bp, q.ap}

ValidL1(b) == Whole(Quote(b, 1))

\* ofi_contributions between two states of one level, as a function of the
\* two quotes: what joined or left the bid, less what joined or left the ask.
Gained(up, now, down, before) ==
  (IF up THEN now ELSE 0) - (IF down THEN before ELSE 0)

\* Mutant: a bid that rises still pays for the queue it left.
ContributionKeepingQueue(p, q) ==
  IF Whole(p) /\ Whole(q)
  THEN Gained(q.bp >= p.bp, q.bq, TRUE, p.bq) - Gained(q.ap <= p.ap, q.aq, q.ap >= p.ap, p.aq)
  ELSE NaN

Contribution(p, q) ==
  IF Whole(p) /\ Whole(q)
  THEN Gained(q.bp >= p.bp, q.bq, q.bp <= p.bp, p.bq)
     - Gained(q.ap <= p.ap, q.aq, q.ap >= p.ap, p.aq)
  ELSE NaN

-----------------------------------------------------------------------------
\* observe_book of the two accumulators: the state kept for the next call and
\* what this call returns.
Skipped == [prev |-> None, e |-> None]

\* Mutant: an unsynced book does not reset the previous state.
ObserveL1Unsynced(prev, b, synced) ==
  IF ~ValidL1(b) THEN Skipped
  ELSE [prev |-> Quote(b, 1),
        e |-> IF prev = None THEN None ELSE Contribution(prev, Quote(b, 1))]

ObserveL1(prev, b, synced) ==
  IF ~synced \/ ~ValidL1(b) THEN Skipped
  ELSE [prev |-> Quote(b, 1),
        e |-> IF prev = None THEN None ELSE Contribution(prev, Quote(b, 1))]

ObserveLm(prev, b, synced) ==
  IF ~synced \/ ~ValidL1(b) THEN Skipped
  ELSE LET now == [m \in 1..Levels |-> Quote(b, m)]
       IN  [prev |-> now,
            e |-> IF prev = None THEN None
                  ELSE [m \in 1..Levels |-> Contribution(prev[m], now[m])]]

-----------------------------------------------------------------------------
\* _iter_synced_books over a tape of snapshots and diffs: a tick for every
\* event that leaves both sides, its epoch, and its place `n` on the tape.  A
\* diff off the chain ("gap") is dropped before the replay.
Ticked(acc, event, n) ==
  LET epoch == IF event.kind = "snapshot" /\ acc.ticks # << >> THEN acc.epoch + 1
               ELSE acc.epoch
  IN  [epoch |-> epoch,
       ticks |-> IF event.kind # "gap" /\ ValidL1(event.book)
                 THEN Append(acc.ticks,
                        [n |-> n, ts |-> event.ts, epoch |-> epoch, book |-> event.book])
                 ELSE acc.ticks]

TickTable(tape) ==
  LET at[n \in 0..Len(tape)] ==
        IF n = 0 THEN [epoch |-> 0, ticks |-> << >>] ELSE Ticked(at[n - 1], tape[n], n)
  IN  at

Ticks(tape) == TickTable(tape)[Len(tape)].ticks

\* mlofi_events_from_capture: within an epoch, the contribution of every tick
\* but the first, by its place on the tape; ofi_events_from_capture.
Batch(ticks, m) ==
  LET later == {i \in 2..Len(ticks) : ticks[i].epoch = ticks[i - 1].epoch}
  IN  [n \in {ticks[i].n : i \in later} |->
         LET i == CHOOSE j \in later : ticks[j].n = n
         IN  Contribution(Quote(ticks[i - 1].book, m), Quote(ticks[i].book, m))]

BatchL1(ticks) == Batch(ticks, 1)

-----------------------------------------------------------------------------
\* Mutant: the event across a resync counts.
EventAcross(p, q, m) ==
  LET e == Contribution(Quote(p.book, m), Quote(q.book, m))
  IN  [ts |-> q.ts, epoch |-> q.epoch, e |-> IF e = NaN THEN 0 ELSE e]

\* compute_ofi_time_windows and compute_mlofi_time_windows.  An event is
\* stamped with its later state; across epochs, or where a level is missing,
\* it counts as 0.
Event(p, q, m) ==
  LET e == Contribution(Quote(p.book, m), Quote(q.book, m))
  IN  [ts |-> q.ts, epoch |-> q.epoch, e |-> IF p.epoch # q.epoch \/ e = NaN THEN 0 ELSE e]

Events(ticks, m) == [i \in 1..(Len(ticks) - 1) |-> Event(ticks[i], ticks[i + 1], m)]

FirstBar(events) == Min({e.ts : e \in ToSet(events)}) \div Window

BarOf(events, ts) == (ts \div Window) - FirstBar(events)

Bars(events) == IF events = << >> THEN {}
                ELSE 0 .. Max({BarOf(events, e.ts) : e \in ToSet(events)})

Inside(events, k) == {i \in DOMAIN events : BarOf(events, events[i].ts) = k}

EpochsIn(events, k) == {events[i].epoch : i \in Inside(events, k)}

\* Mutant: an empty bar between two epochs passes for a quiet one.
BetweenEpochsNever(events, k) == FALSE

\* _between_epochs of an empty bar: the filled bars around it differ.
BetweenEpochs(events, k) ==
  LET filled == {j \in Bars(events) : Inside(events, j) # {}}
      before == Max({j \in filled : j < k})
      after  == Min({j \in filled : j > k})
  IN  Max(EpochsIn(events, before)) # Min(EpochsIn(events, after))

\* np.bincount of sum_in_time_windows: the events of a bar, added in order.
BarSum(events, k) ==
  Total([i \in DOMAIN events |-> IF BarOf(events, events[i].ts) = k THEN events[i].e ELSE 0])

BarValid(events, k) ==
  IF Inside(events, k) = {} THEN ~BetweenEpochs(events, k)
  ELSE Min(EpochsIn(events, k)) = Max(EpochsIn(events, k))

\* last_in_time_windows: the last mid of the bar, or the one carried forward.
\* Mids are doubled, so that they are integers.
Mid2(b) == b.bids[1][1] + b.asks[1][1]

LastTick(ticks, events, k) ==
  Max({i \in 1..Len(ticks) : BarOf(events, ticks[i].ts) \in 0..k})

BarMid2(ticks, events, k) == Mid2(ticks[LastTick(ticks, events, k)].book)

\* The bars k whose pair (k, k + 1) is an observation of the regressions of
\* validate_ofi.py and validate_mlofi.py.
Paired(events) ==
  {k \in Bars(events) : k + 1 \in Bars(events) /\ BarValid(events, k) /\ BarValid(events, k + 1)}
=============================================================================
