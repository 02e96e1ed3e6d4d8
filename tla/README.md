# Order-flow system: a TLA+ verification project

The repository captures the order flow of Binance USD-M futures. It keeps a
local L2 book from a REST snapshot and a stream of depth diffs, publishes the
synchronized stream to a consumer, records it to Parquet, rebuilds books from
the tapes, checks itself against REST, and feeds research code (metrics,
backtests) with it. This directory holds its specification: TLA+ modules that
follow the source line by line of control, TLC configurations that check small
instances, and TLAPS proofs of what matters most for every value of the
constants. `PROJECT.json` maps each definition to the lines it stands for.

## 1. Inventory

Paths are relative to `src/order_flow/` unless they start with `scripts/`.

| Component | State | Operations | Correct when |
|---|---|---|---|
| Venue (external) | its book, update ids, diff stream | diff messages `U..u` with `pu`, REST snapshots of limited depth, trades, disconnections | assumed: `pu` is the previous message's `u`, diffs carry absolute quantities |
| Order book, `orderbook/book.py` | bids, asks, `last_update_id`, `_seq_ready`, `_is_synced` | `apply_snapshot`, `apply_delta`, `mark_unsynced`, queries | shows the venue's quantities at the id it claims |
| Synchronizer, `ingestion/sync.py` | validator (`last`, `synced`), buffer of at most `max_buffer` diffs | `validate`, `decide`, `install_snapshot`, `on_disconnect` | never lets through a diff the book refuses; a replay is ordered and keeps nothing of a dead epoch |
| Feed, `ingestion/binance_futures.py` | one or two sockets, `_stopped`, `_task`, `_sync`, `_book`, published queue, raw queue, pending frames, freeze flag, frozen diffs | `start`, `stop`, `_run_forever`, `_synced_events`, `_pump_frames`, `_merge_raw_streams`, `_fetch_snapshot_retrying`, freeze and thaw | the live book and every replay of the published queue are faithful; it resyncs by itself; backpressure blocks and never loses; `stop` ends it |
| Honesty check, `ingestion/live.py` | copy of the book, diffs drained, report | `run_live_validation`, `_honesty_snapshot`, `_fetch_rest_newer_than`, `compare_top_levels` | a mismatch reported at the answer's own id means corruption |
| Recorder, `scripts/record_l2.py` | book, writer, counters, shutdown event, error | `_record`, `_apply`, signals, periodic snapshots, REST probes, end-of-run checks | nothing received is lost between the queue and the tape |
| Storage, `storage/parquet.py` | rows buffered per type, part files | `write`, `flush`, `flush_async`, `close`, readers | a part is complete or absent; whatever a crash leaves can be replayed |
| Tape replay, `storage/reconstruct.py`, `storage/probe_audit.py` | none (pure) | `_select`, `_restamp`, `_iter_synced_books`, `reconstruct_book`, `reconstruct_book_at_update_id` | the rebuilt book is the venue's at the id asked for |
| Quality, `storage/quality.py` | none (pure) | `check_capture`, `_chain` | accepts exactly the chains the replay can use |
| Sinks, `storage/questdb.py`, `storage/clickhouse.py` | none | raise `NotImplementedError` | - |
| Latency audit, `ingestion/latency_audit.py` | clock samples, events, last `u`, counters | `run_latency_audit`, `_collect_with_reconnect`, `drain_until`, `ingest_raw`, the report | a gap is counted exactly where something was missed, also between connections; the clock samples bracket the record; delays are true up to a round trip |
| Metrics, `metrics/` | last book, open bucket, emitted values | streaming accumulators, batch functions, time bars | streaming equals batch; no flow crosses an epoch |
| Backtest, `backtest/` | what each engine is fed, orders, position | capture conversion, quoting, replace and harvest | both engines trade on the capture's book; every order and fill is accounted for once |
| Instruments, utilities, `scripts/capture_loop.sh` | specification file, settings; supervisor loop | load; restart and relay of signals | - |

**How they interact.** One asyncio loop runs the pump task (socket to raw
queue), the feed task (raw queue to book and published queue), and the
consumer (published queue to its own book and writer). The raw queue and the
published queue are bounded and block; the synchronizer and the book are
owned by the feed task; the freeze flag and the frozen diffs are written by
the honesty check while the feed runs. REST is a request that suspends the
feed task while the pump goes on. Only the Parquet flush leaves the loop, for
a worker thread.

**What is hard.** Diffs that arrive while a snapshot is in flight; a snapshot
older than the stream or newer than what is pending; a lost, unreadable or
late frame; a queue that is full when the task is cancelled; cancellation
arriving during the clean-up of a failed session; a freeze beginning in the
middle of a resync; two independent sequence trackers that must not drift
apart; an end-of-stream sentinel that needs room in a full queue; two sockets that
end independently; a consumer who must be able to replay what it reads although
it never sees the gaps; metrics computed twice, from the stream and from the
tape, by different code; an order replaced before its fill is harvested; clock
samples awaited between the frames they are to judge. `PROJECT.json` lists each
hazard at its line, with the property that catches it.

## 2. Modules

```
Venue <- OrderBook <- DepthSync <- Feed <- FeedProps <- FeedInv <- MCFeed
  ^                       ^         ^        |
  |                       |         |        |
VenueReplica <------------+---------+--------+
                     SyncEpochs  Honesty <- HonestyProps <- MCHonesty
OrderBook <- Publisher, Tape <- Recorder <- RecorderProps <- MCRecorder
FeedProps, Publisher <- FeedPublishes;  MCFeed, FeedPublishes <- MCFeedPublishes
Sockets
Sums <- Imbalance;  Imbalance, TradeFlow <- Metrics <- MCMetrics
HftAdapter, Quoting, Sums <- Backtest <- MCBacktest
Sums <- LatencyMath <- LatencyAudit <- MCLatencyAudit

Proofs:  Sums <- LoopLemmas
         DepthSync, LoopLemmas <- BookProofs
         FeedInv, HonestyProps, FeedPublishes, BookProofs <- FeedProofs
         SyncEpochs, BookProofs <- SyncProofs
         Sockets <- SocketsProofs
         Metrics, LoopLemmas <- MetricsProofs
         Backtest, LoopLemmas <- BacktestProofs
         RecorderProps, LatencyAudit, BookProofs <- ToolProofs
```

- **Venue** (external). Update ids are `0..MaxId`. The venue's whole future is
  a constant, `History[i][level]`, and so is the reach of a REST answer,
  `Visible[i]`. A diff carries its ids only; the levels it touches follow from
  the history. A theorem for every `History` is a theorem for every future.
- **OrderBook**. `book.py` as operators on a record. `Verdict` is the order of
  tests in `apply_delta` (contiguous `pu` first, then the stale and bracketing
  tests of a book that has applied no diff); `ApplyDelta` its effect, a gap
  included. `known` is a history field: the levels that some message has
  mentioned since the last snapshot, which is what a snapshot of limited depth
  lets a book know. `Faithful` is stated over it.
- **DepthSync**. `validate` is `Judge`, `decide` is `Decision` with the next
  state `Decide`, `install_snapshot` is `InstallSnapshot` with its results
  `Decisions`: its loop over the held diffs is the table of the synchronizers
  after each of them (`ReplayTable`). Loops over lists are such tables wherever
  something is proved about them (`CatchUp`, `FollowTable`, `PlayTable`,
  `OpsTable`, `SettleTable`, `TickTable`).
- **Feed**. One variable per field or task position; `pc` is the await point
  of the feed task, `pump` the state of the pump task. Code between two awaits
  is one action.
- **VenueReplica**. The abstract specification: a copy of the venue's book at
  one id which adopts snapshots, advances only while live and only forwards,
  and may lose the venue at any time.
- **SyncEpochs**. The synchronizer driven as its unit tests drive it. The feed
  keeps early diffs in `pending`, so there the synchronizer's own buffer is
  always empty when a snapshot is installed (proved: `EpochGood`); held,
  overflowing and replayed diffs are checked here. `Obey` is what a caller does
  with one decision.
- **Honesty**. `live.py` beside a running `Feed`: every action of the feed
  continues while the check is suspended.
- **Publisher**. What the published queue promises to whoever reads it:
  snapshots at any time, and after one only diffs that follow the last event,
  each message at most once. An event carries its event time, for which the
  venue's id at that moment stands; a REST answer is stamped when it is given,
  which may be later than its id by `RestLag`. **FeedPublishes** is `Feed` with
  the history this needs (a history variable guards nothing), and its run shows
  that `Feed` implements `Publisher`.
- **Tape**. The readers, as operators on the rows found on disk: `_select` is a
  loop that holds a diff back while its snapshot goes first, `_chain` counts
  breaks, the two reconstructions and `_restamp` are theirs. The readers sort
  what they read and identical rows change nothing, so a tape is sets of rows.
  Every sort and every loop is the table of its states, one function on
  `0..n`, which is what the proofs count along.
- **Recorder**. `_record` and `ParquetWriter` composed with `Publisher`: the
  loop between its awaits, the worker that writes one part file after another,
  every way a run ends, and the next run over the same tape.
- **Sockets**. A session on two sockets: the pump of each, the queue of the
  merge, the pump into the raw queue and the owner that reads it. `Feed` has
  the pump of a session on one socket; what its `_pump_frames` puts into the
  raw queue is what `outer` puts there here.
- **Imbalance**. Order flow imbalance as functions of two books, the two book
  accumulators, the replay of a tape into ticks and epochs, the batch series
  and the time bars. A level that is not there has price `NaN`.
- **TradeFlow**. Signed volume and volume buckets, once as the accumulators do
  it and once as the batch functions do it over a whole tape.
- **Metrics**. The accumulators driven by one feed, beside the tape of the same
  events. Book and trade metrics share nothing, so a behaviour has one of them.
- **HftAdapter**. The rows hftbacktest is fed and the ops nautilus is fed for
  one event, and the books the two build of them. `reach` remembers how deep a
  CLEAR must go.
- **Quoting**. `maker_quotes`, `aggressive_quotes`, the tick rounding of the
  mid, and `apply_fill` with exact fractions.
- **Backtest**. A replay through both adapters with the market maker of
  `hft_runner.py` on it. The engine is external: its book is what the rows
  make of it, the strategy's view is some rows behind, an order reaches the
  exchange at once and fills whole. `stale` is a history field: the levels that
  resyncs have left in the engine's book (finding 3). Where they cross it, which
  of the orders that meet it fill is any choice, and the strategy, which does
  not requote on a crossed view, takes no turn on it.
- **LatencyMath, LatencyAudit**. The arithmetic of a report, and an audit from
  its first clock sample to its exit code over as many connections as it takes.
- **Sums**. The sum of a list, as the table of its partial sums.
- **FeedProps, HonestyProps, RecorderProps** hold the properties, **FeedInv** the inductive
  invariant, the **MC** modules the instances.

How an action corresponds to code:

| Action | Code |
|---|---|
| `PumpFrame`, `PumpSentinel`, `PumpCancelled` | `_pump_frames`: `put` of a frame, of `None` at the end, cancellation |
| `Connect`, `ConnectFails`, `Disconnect`, `Retry` | `_run_forever`, the session's `finally` |
| `Stop`, `TaskEnds`, `PumpAwaited` | `stop()`, its cancellation on the way out through the `finally`, the wait for the cancelled pump. `pump` says how the pump ended (`ended`, or `failed` with the socket's error), because awaiting it raises that error |
| `RestOk`, `RestRetry`, `RestFails` | `_fetch_snapshot_retrying`, then drain, `apply_snapshot`, `install_snapshot`, publish |
| `Handle*` (`HandleList`: a JSON frame that is no object, whose `.get` raises) | one turn of the inner loop of `_synced_events`, with `_apply_synced_delta` |
| `PutDone` | the `put` of `_publish` that waited for room |
| `Stale` | `_next_raw` timing out |
| `Consume` | the consumer's `get` and `_apply` of `record_l2.py` |
| `Freeze`, `RestAnswered`, `Replay`, `Finish` | `_honesty_snapshot` between its awaits |
| `RecordEvent`, `WaitForEvent`, `WaitTimesOut`, `EndLoop` (Recorder) | a turn of the loop of `_record`, with the periodic copy and the hand-over of `flush_async`; the end of the loop |
| `WritePart`, `WriteFails`, `BatchWritten` | `_write_batch` in the worker or in `close()`: one file, an exception, the end |
| `Finish`, `Signal`, `Crash`, `NextRun` (Recorder) | the `finally` clause, `install_shutdown_handlers`, the end of the process, `capture_loop.sh` |
| `PumpReads`, `PumpPuts`, `PumpEnds` (Sockets) | `_pump_frames` of a socket: a frame, a `put` that waited, the end with or without an error |
| `OuterFrame`, `OuterPuts`, `OuterFinish`, `OuterEnds` | `_pump_frames` over `_merge_raw_streams` |
| `OwnerReads`, `OwnerEnds`, `OwnerLeaves`, `OwnerCloses` | `_synced_events` and the exit stack of `stream()` |
| `SnapshotSeen`, `DiffApplied`, `GapSeen`, `TradeSeen` (Metrics) | `observe_book` of both accumulators, `observe` of the trade accumulators |
| `SnapshotReplayed`, `DiffReplayed`, `TradeReplayed`, `LocalSees` (Backtest) | the adapters' rows of an event, and the engine playing them |
| `Turn`, `DataEnds` | one turn of the strategy's loop (`_harvest`, then `_replace_side` of both sides), the last harvest |
| `ServerTime`, `RequestFails` (LatencyAudit) | `sample_server_time`, `raise_for_status` |
| `Connect`, `GivesUp`, `SocketEnds`, `Closed`, `Receive` | `_collect_with_reconnect`, `drain_until`, `on_progress` |

**Abstractions.** Time is left out: a watchdog, a back-off or a deadline may
fire at any point where the code waits for it, so every timing is included.
Prices and quantities are levels and naturals. Statistics, latencies, the
attempt number and the trade payload are left out, because no control depends
on them in these handlers. Frames are lost by the venue, arrive unreadable or
are JSON of another shape; a TCP stream does not reorder or duplicate them. A frame is handled in one
step, although `_next_raw` may suspend before it: the step may happen at any
time after the arrival, which gives the same interleavings. A `put` into a
full queue is an await point of its own, because `stop()` can cut it between
the book's update and the event's publication.

In the recorder the intervals of the flush and of the periodic copy are left
out: either may be due at any turn. Midnight may fall between any two rows, so
a batch is split into parts by date anywhere. A second signal and a power cut
are one action, `Crash`: what a cancelled `finally` might still write is what
some other ending writes, and while a flush is awaited nothing new is buffered
that could be written beside it. The REST check at the end only reads; it
appears as something that may raise. In `Publisher` the venue may close a
message over any run of ids, and a message may be lost before the feed sees it.

In `Sockets` a frame is its socket and its place, and the owner only reads:
what it does with a frame is `Feed`. In `Metrics` quantities are integers so
fine that a rounding error of the doubles is a few units (`Tol`), and the
normal distribution of the bulk classification is a constant function. In
`Backtest` prices are ticks and every order is of one lot; `PositionIsFills` asks
besides what one more fill of up to `MaxFill` lots would do. Times of the audit
are integers, percentiles are scaled by a thousand.

**Not modelled in Feed.** `stream()` called directly instead of `start()`, and
`start()` called while a `stop()` is still awaiting the old task: `stop()`
cancels that task before it forgets it, and what a cancelled session still does
touches no state a second loop uses, so the two overlap harmlessly unless the
cancellation is swallowed (finding 1), and then the system is past repair.

## 3. What is checked

Instances of the feed and the recorder use two levels (three for the honesty
check). In the future of the feed the deep level shrinks at id 1, the near one
goes at id 2 and nothing changes at id 3; at id 1 the REST
answer does not reach the deep level. Queues hold one element, so that every
full-queue path is taken; the proofs cover every capacity.

| Run | Bounds | Shows |
|---|---|---|
| `feed` | ids 0..3, diffs that arrive, are lost or are no object, fairness | both books faithful and implementing `VenueReplica`, the stream replays, synchronizer and book agree, the queue implements `Publisher`, the invariant of the proofs holds; a feed that is out of sync is synced again unless stopped, backpressure resolves, a cancelled task ends |
| `feed_stop` | ids 0..1, fairness | finding 1 |
| `sockets` | two frames a socket, queues of one, fairness | two sockets give one whole stream whose end comes last and comes; a session no socket failed in unwinds |
| `sockets_cancel` | one frame a socket, queues of one, fairness | finding 2 |
| `sync_epochs` | ids 0..6, a buffer of two | replays of held diffs, overflow, a gap in the middle of a replay |
| `honesty` | ids 0..2, trades and unreadable frames, one 429, REST up to one id behind, best level compared | the copy is faithful and mismatches come only from the ids past the answer |
| `recorder` | ids 0..2, one trade, two runs, a buffer of two rows, one event in the queue, two REST answers | whatever is on disk when a run is cut anywhere can be replayed, rebuilt and checked; an ending without an error lost nothing it had taken; nothing is written over a hole |
| `metrics` | four events: books out of four, two levels, gaps and resyncs, bars of two; or four trades, buckets of three lots | stream and tape give the same metrics but in two stated cases, bars lose and mix nothing |
| `metrics_resync` | as `metrics` | finding 4 |
| `backtest` | six prices, three snapshots and four diffs to choose from, four book events, one trade, six orders, a view up to two events behind, a further fill of up to three lots | both engines trade on the capture's book, hftbacktest's with the levels a resync left behind; orders, fills and position add up |
| `backtest_resync` | the same events, no trade and no order | finding 3 |
| `audit` | three depth frames out of five updates, two connections, one other frame, clocks five apart, legs of up to one | gaps, clock samples, delays and percentiles of a report are right, and only a connection that stays open without depth outlives the cap |

Two ids suffice for a diff, a bracketing diff and a stale one; three for a gap,
the snapshot after it and the diff that brackets it. What a diff contiguous
after a resync could break is left to the proofs, which hold for every `MaxId`.
`feed` takes the long future with REST answers that are up to date, no 429 and no
freeze: its consumer reads the published queue, and the check freezes the feed
when nobody does. `honesty` is the same feed under freezes with the short future
and everything else: trades, unreadable frames, a 429 and answers that lag. A
future that is long in both and all kinds of frames at once is left to the
proofs.
`recorder` has ids for a snapshot, a diff lost to a crash, the next run's
snapshot and the diff after it; its second id is quiet, so that a diff may skip
it and a REST answer stand on it (`Stranded` is reached); a buffer of two rows is flushed with up to
three, a snapshot, a diff and a copy, so that a batch can be cut between any
two. The readers are tried while a batch is being written, where alone the tape
changes. Four book events have room for an epoch, a resync and an
empty bar between; four trades of up to 2 1/3 buckets close several buckets at
once, exactly, within the tolerance and just beyond it (`Tol` is 10 where a lot
is 100, so that a rounding error is never a trade). Six orders allow three
requotes of both sides, which takes a replacement of an order that has filled
and one that has expired. Three frames put the halfway samples after the first,
so that a connection can end before, during and after them; clocks further apart
than any delay make a wrong sign visible. The recorder, the replay of a
backtest and a tape of metrics are bounded and stop there, and a cancelled
session on two sockets can stop for good (finding 2): deadlock is not checked in
these.

**Properties.**
- `BookFaithful`, `ReplicaFaithful`: what is shown is what the venue had at
  that id. Violating them takes a frame lost, late or misjudged across several
  tasks.
- `StreamReplays`: a consumer never meets a gap, although it sees neither the
  resyncs nor the cancelled `put`.
- `Lockstep`: the two copies of the sequence rules agree. The feed discards
  what `install_snapshot` returns; this is why it may.
- `ReplayFaithful`, and `SyncInv` (`NothingRefused`, `HeldInOrder`,
  `EpochIsBook`): the same of the synchronizer's own buffer.
- `CopyFaithful`, `LiveFaithful`, `ReportInv` (`OnlyOvershootDiffers`): the
  honesty check neither lies nor damages the book it checks.
- `Resyncs`, `WireDrains`, `CancelEnds`: liveness.
- `QueueKeepsItsPromise`: the step simulation of `Publisher` by `Feed`.
- `StreamIsWhole` (`FramesInOrder`, `EndIsLast`), `EndArrives`,
  `CleanUnwindEnds`: the session on two sockets.
- `TapeReplays`, `RebuiltIsFaithful` (`AlignedIsFaithful` at an id,
  `TimedIsFaithful` at a time): books rebuilt from a tape are the venue's,
  after every part file of a recording and after every kind of ending.
- `TapeInOrder`: the order of `_write_batch` (snapshots first) leaves no
  diff without its snapshot, wherever the batch is cut (`NothingOffChain`; with
  diffs first, a crash after the first file breaks it), and a replay drops
  nothing, unless a snapshot stands on a quiet id between two diffs
  (`Stranded`, see the observations); `_chain` finds no break in any of these
  tapes (`ChainIsUnbroken`); `_restamp` is what a definition by a minimum says
  (`ReplayClock`).
- `RecorderInv` (`SilenceMeansComplete`), `NothingAfterAHole`: what a run that
  reports no error has on disk, and what a run with a failed write may still do.
- `StreamAgainstBatch`, `FlowIsSound` (`TopLevelIsOfi`, `FlowIsAntisymmetric`): the
  streaming OFI is the batch's but in two cases, and what each of the two
  computes there is stated. In both one of them breaks the rules that
  `docs/math/ofi.md:153-160` gives for both (see the observations).
- `BarsAreExact`, `BarsAroundResyncs` (`BarsKnowResyncs`,
  `ObservationsSpanEpochs`): time bars against a definition by sets, and which
  observations of the regressions have a mid difference that crosses a resync.
- `TradeStreamIsBatch` (`BucketsAreBatch`, `EmittedOnce`, `CvdBarsAreRunning`).
- `EnginesReplayCapture` (`EngineIsReplay`, `NautilusIsReplay`,
  `ConservationHolds`): what the engines are fed rebuilds the capture's book.
  hftbacktest's has besides exactly the levels that resyncs left behind
  (`stale`, finding 3): none is lost and no other is there.
- `OneOrderPerSide`, `OrdersInv` (`OrdersAccounted`, `QuotesFollowTouch`),
  `PositionIsFills`, `PostOnlyOnlyLags`: the market maker on a view that lags.
- `GapsAreHoles`, `ClockBracketsRecord`, `ReportIsSound` (`AdjustedWithinRtt`,
  `DistributionIsSound`), `AuditInv` (`IncompleteIsExplained`), `AuditEnds`.

A name in parentheses is a conjunct of the property before it, defined and
explained on its own in the module. Each component's type invariant is a
conjunct of one of its properties too.

**Fairness.** `FairSpec` assumes weak fairness of the tasks (the event loop
runs every ready task), of the consumer (it goes on consuming; with a consumer
that stops, the feed rightly blocks) and of the answers of the peers, good or
bad; and strong fairness of a good connection and a good snapshot, that is, a
peer asked again and again eventually answers. Without the latter a reconnect
loop may fail for ever, as it should. Nothing is assumed of the venue's
activity, of disconnections, of the watchdog, or of callers.

`Sockets` assumes weak fairness of its tasks and of an owner that goes on
reading. The audit assumes that it takes its steps and that its clock runs, and
nothing of its peers: a connection that stays open and delivers no depth
outlives the wall-clock cap, and `AuditEnds` says that nothing else does.
websockets' `ping_timeout` would end it only for a peer that is gone.

**Findings** (each has a run that violates a documented statement):
1. `feed_stop`: `stop()` cancels the task once and awaits it. The `finally` of a
   session awaits the pump under `suppress(CancelledError)`, and the
   cancellation is lost there in two ways. If the task is at that moment
   awaiting its cancelled pump after a failed session, its own cancellation is
   suppressed with the pump's. If it is anywhere else in the session while the
   pump has already ended with the socket's error, awaiting the pump raises that
   error, which is not suppressed and takes the place of the cancellation;
   `_run_forever` takes it for a lost connection. Either way the task reconnects,
   finds `_stopped` set, skips the loop and comes round again, for ever, and
   `stop()` never returns.
2. `sockets_cancel`: on two sockets, a cancellation that reaches the pump inside
   `_merge_raw_streams` makes the merge await its own pumps, and the error of a
   socket that had already failed takes the place of the cancellation.
   `_pump_frames` then sees no cancellation and puts its sentinel; when the raw
   queue is full, it waits for ever for an owner that waits for it, which is
   what its docstring says it must not do.
3. `backtest_resync`: a resync writes no CLEAR for a side that its snapshot leaves
   empty, yet forgets how deep that side had been (`hft_adapter.py:310`). The next
   snapshot with levels there clears out to its own farthest price only, and the
   old levels beyond it stay in hftbacktest's book, although "that price must
   also cover the old book" (`_resync_rows`).
4. `metrics_resync`: a bar that opens with the first event of a new epoch is
   valid, so the regressions set its flow, of the new epoch, against a mid
   difference that starts in the old one (`validate_ofi.py:144`), although
   "Barras con resync se tiran" (`validate_ofi.py:373`).

**Observations** made on the way, without a run of their own:
- `stop()` during a session leaves `is_synced` set, since `CancelledError`
  passes by `mark_unsynced` (`docs/architecture.md:35`, `binance_futures.py:624`).
- The slack of the honesty report may be more than the one batch documented: as
  many diffs as REST is ahead of the copy (`docs/ingestion/binance-futures-l2.md:185`,
  `live.py:514`). A freeze that begins while a snapshot request is in flight does
  not keep the book still (the same document, line 150).
- SIGTERM ends the loop before the queue is empty, and `feed.stop()` drops what
  is left (`record_l2.py:466`), while `capture_loop.sh:31` promises no loss.
- An id at which nothing changed belongs to no diff. A REST answer that stands on
  such an id, between the diff before (`pu`) and the next one (`U`), is kept by
  `_select` (`reconstruct.py:91`) as a resync, and the next diff, which continues
  the diff before it, is dropped with all that follow up to the next snapshot;
  `_chain` (`quality.py:78`) compares it with the diff before it and finds
  nothing wrong. It takes a REST answer that lags behind a diff already recorded,
  by this run or the one before. `n_off_chain_deltas` counts the loss; the books
  replayed stay the venue's.
- `reconstruct_book` compares event times, and a REST snapshot's is later than
  its id, so diffs between the two are left out of the book at a time.
- `docs/math/ofi.md:153-160` gives the stream and the batch one list of rules, and
  each breaks one. Rule 5, "Tras un resync [...] la primera L1 válida no produce
  e_n": the accumulator knows resyncs by `is_synced` alone, so after a snapshot
  that no gap announced to the consumer's book it counts from the old epoch
  (`stream.py:58-67`). Rule 3, "Libro vacío o un lado sin BBO: se salta y se
  resetea": the replay skips such a book without a reset and counts from the last
  whole one of the epoch (`reconstruct.py:313-333`). `StreamAgainstBatch` holds
  because it states both.
- A bulk-classified VPIN without a given sigma estimates it
  anew, so that its stream is not its batch.
- The stream forgives a bucket's tolerance in every bucket, the batch once for all
  buckets before a boundary (`stream.py:158`, `vpin.py:99`), so trades that keep
  falling short by it close more buckets in the stream; trades in lots do not
  (section 4).
- At the resync itself, a side that the snapshot leaves empty keeps its levels in
  hftbacktest (`hft_adapter.py:186`), which a test asserts;
  `docs/backtest/hftbacktest_queue.md:54` does not mention it: "Un snapshot con id
  nuevo es resync: `DEPTH_CLEAR` y luego `DEPTH_SNAPSHOT`".
- When the quotes are not defined the hftbacktest strategy leaves its orders and
  the nautilus one cancels all.
- The audit's cap is looked at only between two connections
  (`latency_audit.py:746`), and the frame loop waits without a timeout (392), so a
  peer that answers pings and sends only trades keeps an audit for ever. The
  docstrings promise the cap ("until ``n_events`` depth messages or caps", 743;
  "Safety cap", 727); `AuditEnds` leaves out this case and no other. Frames that queue up while the halfway samples are
  awaited are stamped late; a failed clock request or a refused handshake after
  the start loses the audit.
- The end of one of two sockets goes unnoticed while the other lives; the module
  docstring (`binance_futures.py:18`) calls two sockets the recorder's default,
  `record_l2.py:416` asks for one.

## 4. What is proved

TLAPS checks what follows for every value of the constants: every history,
depth, capacity, price range, window and bound. The feed's theorems rest on
`VenueAssumption`, `MaxBufferAssumption` and `FeedAssumption`, those of the
honesty check on `DepthAssumption` too, the sockets' on `SocketsAssumption`, the
metrics' on `ImbalanceAssumption`, `TradeFlowAssumption` and
`MetricsAssumption`, the backtest's on
`PriceAssumption`, `QuotingAssumption` and `BacktestAssumption`, the trades' on `TradeFlowAssumption` too, the audit's on
`AuditAssumption`, the recorder's on `VenueAssumption`, `PublisherAssumption` and
`RecorderAssumption`.

| Module | Theorems | Inductive invariant |
|---|---|---|
| **BookProofs** | a snapshot makes a book faithful, an accepted diff keeps it so, what the validator lets through a book in the same position applies | - |
| **FeedProofs** | `TypeOK`, `BookFaithful`, `ReplicaFaithful`, `StreamReplays`, `Lockstep`; `VenueReplica!Spec` through either book | `IInv` |
| | `LiveFaithful`, `CopyFaithful`, `ReportInv` of the honesty check, which is also shown to run the feed's own steps (`HonestyRunsTheFeed`) | `HonestyInv` |
| | `QueueKeepsItsPromise`: the queue implements `Publisher` | `PromiseInv` |
| **SyncProofs** | `ReplayFaithful`, `SyncInv` | `SyncIInv` |
| **SocketsProofs** | `StreamIsWhole` | `SocketsInv` |
| **MetricsProofs** | `FlowIsSound`, `StreamAgainstBatch`, `BarsAroundResyncs`, `BarsAreExact` | `FlowInv`, `StreamInv`, `TickInv` |
| | `TradeStreamIsBatch`, of trades in lots or where the batch code's tolerances agree; its series and bars with no condition | `TradeInv`, `TapeSizes` |
| **BacktestProofs** | `PostOnlyOnlyLags`, `OneOrderPerSide`, `OrdersInv`, `EnginesReplayCapture`, `PositionIsFills` | `OrdersExcused`, `OrderInv`, `BookInv`, `MoneyInv` |
| **ToolProofs** | `TapeReplays`, `TapeInOrder`, `RebuiltIsFaithful`, `RecorderInv` and `NothingAfterAHole` of the recorder | `RecorderIInv`, `HoleInv` |
| | `AuditInv`, `GapsAreHoles`, `ClockBracketsRecord`, `ReportIsSound` of the audit | `AuditIInv` |

**LoopLemmas** is what the rest stands on wherever the code loops over a list. A
loop is the table of its states; `SmallestNat` (the naturals are well founded)
gives `CountUp`, an induction along `0..n` for the members of a set, from which
`LoopFound` gets that the table exists and what each step of the loop preserves,
`SumLoop` the same of a sum, `SumOfPlaces` that a sum over chosen places is the
sum of what was chosen, in order, `SumWithin` the bounds of a sum, `SumOneMore`,
`SumPadded` and `SumAdds` how sums grow, what adds nothing and what adds up.

**The feed.** `BookFaithful` is not inductive alone. A diff is safe to
apply because it is a true diff (`FramesGood`: whatever is on the wire, in the
raw queue or pending is one, and no newer than the venue), because the book
stands at an id the venue has reached (`BooksBehind`), and because the
synchronizer, which judges first, stands where the book does (`Lockstep`).
These are `SessionInv`. The consumer's book needs more: at the moment an event
is taken nothing local says that it fits. `PipelineGood` says that the events
in the queue, with the one whose `put` is waiting last, form a chain that
starts where the consumer's book stands and, inside an epoch, ends where the
live book stands. Trades may stand anywhere in the chain, so the chain is
stated over pairs of places with only trades between them. Appending an event
extends the chain, because the event was accepted at its end; consuming one
moves its start; a gap, a lost session or a cut `put` releases its end, and
the next event published is a snapshot, which follows anything.

**The honesty check** keeps the feed frozen from its copy to its report, so every
diff it drains went through `HandleFrozen` and is a true one; the copy stays
faithful however long the answer takes, and what a report counts as a mismatch
at the answer's own id cannot be.

**The promise of the queue** needs what the feed itself never looks at: that the
diffs on their way are in the order of the venue and none of them was published
before (`LineInOrder`, `LineLater`). `Publisher` numbers its trades, which the
feed's frames do not carry, so the theorem is about a feed that is sent none
(`"trade" \notin Extras`), as is its run.

**The synchronizer** alone: held diffs are in order, no older than the epoch and
never refused by the book, also when the buffer overflowed before the snapshot
(`Together`, `Held`).

**Sockets**: what a socket delivered is, in order, what the reader has read, then
what lies in the two queues, then what the hands of two pumps hold; sentinels
are counted along the same way.

**Metrics.** Both book accumulators remember the same book, or neither does
(`FlowInv`); it is the book of the last event, if that left two sides, and the
last tick of the replay is the last whole book since the last snapshot
(`StreamInv`), which gives both series in closed form from the tape: where the
two books are one the flows are equal, and the two other cases are those of
`StreamAgainstBatch`. Ticks are in the order of the tape, of time and of epochs
(`TickInv`). A bar's last tick is its closing event (`ClosingEvent`), and the
epochs in a bar are told by its first and last event (`BarSpans`); so a mid
difference crosses a resync exactly when the later bar opens with it. `BarsAreExact` compares
the batch code's cuts in a list with a definition by sets of events, over
`SumOfPlaces`. That the flow owes nothing to direction or side is a lemma on two
quotes (`StepBack`, `MirroredFlow`), for any prices and quantities.

**Trades.** The accumulator sees one trade at a time, the batch one list of
boundaries `V`, `2V`, ...; what they share is the cumulative volume. `Aligned`
says where the accumulator's buckets were cut on it: bucket `k` ended at `p[k]`,
at most `Tol` before its boundary; what it bought is what the tape bought between
two cuts, and its price is that of the boundary. One turn of the loop in `observe`
keeps this or moves it on by a cut (`BetweenOpen`, `BetweenClosed`), the whole of
a trade is poured (`PouredWhole`), and a trade that comes later changes neither
the bought volume before it nor the price of a boundary already reached
(`BoughtOn`, `PriceStays`). Bought volume grows no faster than volume
(`BoughtGrows`), so cuts off by `Tol` give buckets off by `Tol`.

It needs a condition. At a boundary `kV` the batch's `_bucket_grid` forgives
`V * 1e-9`, but `_close_prices` forgives `kV * 1e-9`, and the accumulator, which
starts every bucket at zero, forgives `V * 1e-9` in each of the `k`. Trades that
each fall short by the tolerance make it run ahead: with `V = 20` and `Tol = 5`,
two trades of 15 close two buckets in the stream and one in the batch. So
`TradesMatchTheTape` supposes `TolerancesAgree(tape)`, and
`TradesInLotsMatchTheTape` what makes it true of a real feed, `InLots`: quantities
in lots, off by roundings that one bucket's tolerance covers in sum, a bucket of
whole lots, and `kV * 1e-9` less than a lot at every boundary the tape can reach.
The instance that TLC checks is one of these (lots of 100, off by 1, at most
four trades of 700), so there the property holds unconditionally. That every
value of the series is emitted once, and that the resampled volume runs as the
tape does, needs nothing (`TradesKeepTheirSeries`).

**Backtest.** Sides have a best price (`ExtremePrices`), so a quote clamped to the
touch of a book never meets that book; an order is marked expired only when it
arrives, and fills, cancellations and harvests keep the mark of its lag
(`OrdersExcused`). `BookInv` says that the farthest price a CLEAR remembers covers
every level of the capture's book, and that hftbacktest's book is the capture's with the levels
of `stale`, on which no diff has put a quantity since. `MoneyInv` ties the
position, its cost and the realized profit to the sums over the executions
harvested, with exact fractions; the lemma under it is of a fill of any size at
any price, the one that closes a position and opens the other side included.

**Recorder.** Two halves meet in `GoodTape`: a finite set of venue snapshots and
diffs in which every diff finds what it follows, the diff before it or a
snapshot it brackets or continues (`Anchored`), and no two diffs overlap
(`InLine`).

Every reader gets along with such a tape. A sort puts the rows in order, whatever
ties it leaves (`SortedIs`). The rows `_select` keeps are linked, each diff to the
row before it (`SelectLoop`), so the book that replays them refuses none
(`YieldLoop`); where no snapshot is stranded, the diff that comes up continues the
row before it or has its snapshot next (`DeltaComesUp`), so none is dropped and
the replay ends at the last row (`NothingDropped`). A walk by id finds no break
(`NoBreaks`). A reconstruction starts from a faithful book and each diff keeps it
so or ends it (`TowardsLoop`, `ExtendLoop`); the one by time passes no diff over,
because a diff's stamp is its id. Stamps are pulled back from the end and are the
minimum they should be (`RestampIs`).

And the recorder leaves no other tape (`RecorderIInv`, checked by TLC on a queue
of two before it was proved). Tapes are cut where nobody chose: the invariant
must say of rows not yet written where they will find their place. A diff in the
buffer follows one in the buffer, with the worker or on disk; one with the worker
follows one with the worker or on disk; one on disk follows one on disk
(`RowsAnchored`). A part of diffs is written when no snapshot is left in the batch
and holds the earliest ones, by their stamps, so the last of the three survives
any cut (`WritePartKeeps`). What makes a new row follow one that is held is that
the recorder's book stands on a row (`BookHeld`), and that the queue is a path
of accepted events from the place of this book to the place of the published
stream (`Leads`), which `Publisher` promises and `FeedProofs` proves of the feed.
While a batch is being written nothing is buffered (`HoleInv`), so when a write
fails nothing of the run is left that could be written after it. A run that ends
without an error has lost nothing it took, so what its book stands on is on
disk, and the replay gets there.

**Audit.** A diff follows the one before it on the venue's side, recorded or not,
and the last id is the record's (`Chained`), so that a gap is counted exactly
when a hole arises (`HolesOn`); samples stand in blocks that tell which phases
are over (`Blocks`); an offset is the clocks' difference plus a part of a round
trip (`Bracketed`), so their rounded mean is that and at most the longest round
trip (`MeanWithin`). A sorted list is known by its ranks: the sample of rank `k`
has fewer than `k` samples under it and at least `k` up to it, there always is one
(`RankedIs`), ranks rise (`RanksRise`) and shift with the samples (`RanksShift`).
A percentile mixes two neighbouring ones (`PercentileIs`), so a larger percentage
never has a smaller percentile (`PercentilesRise`), whether both fall between the
same two ranks or not, and the median halves the samples for even and odd
lengths alike (`MedianHalves`).

**Not proved**, and left to TLC: liveness (`Resyncs`, `WireDrains`,
`CancelEnds`, `CleanUnwindEnds`, `EndArrives`, `AuditEnds`), which is out of the
prover's reach with fairness and `ENABLED`.

## 5. Not modelled, and the plan

Left out for good: the database sinks (they raise `NotImplementedError`), the
instrument file, configuration, logging and benchmarks (no history), the
Markdown reports (text), the numerics of the regressions in `validate_ofi.py`
and `validate_mlofi.py` and of floating point elsewhere, and the third-party
backtest engines. Of modelled components: `probe_audit.py` and the REST probes
of the recorder (they only read), the recorder's REST check, which waits for a
book that nobody advances and whose result changes no state, `ofi_mm.py` (the
same quoting on nautilus' own events), the rolling OFI of the strategies (any
skew may come out of it) and their behaviour on refused submissions, partial
fills and fees.

Next: `ofi_mm.py`, and the probes of the recorder with `probe_audit.py`.
