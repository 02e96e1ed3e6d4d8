------------------------------ MODULE Backtest ------------------------------
(***************************************************************************)
(* A replayed capture and the market maker of backtest/hft_runner.py on    *)
(* it.  The engine (hftbacktest, external) keeps two books: the exchange's *)
(* and the strategy's own view, which sees every event later (local_ts is  *)
(* after exch_ts).  Orders have no latency and fill whole.  The book the   *)
(* nautilus adapter builds from the same events runs beside them.          *)
(***************************************************************************)
EXTENDS HftAdapter, Quoting, Sums

CONSTANTS
  Books,      (* books a snapshot may carry                                *)
  Changes,    (* sets of changes a diff may carry                          *)
  Window,     (* bound on the events the view is behind                    *)
  MaxEvents,  (* bound on the book events of a replay                      *)
  MaxTrades,  (* bound on its public trades                                *)
  MaxOrders,  (* bound on the orders the strategy submits                  *)
  MaxFill     (* bound on the size of a fill, in lots                      *)

ASSUME BacktestAssumption ==
  /\ Books \subseteq [Side -> Levels]
  /\ \A c \in Changes : /\ IsFiniteSet(c) /\ c \subseteq [side : Side, px : Price, qty : Nat]
                        /\ \A x, y \in c : x.side = y.side /\ x.px = y.px => x = y
  /\ {Window, MaxTrades, MaxOrders, MaxFill} \subseteq Nat /\ MaxEvents \in Nat \ {0}

VARIABLES
  cross,     (* cross_spread: take liquidity instead of making it          *)
  events,    (* book events replayed so far                                *)
  trades,    (* public trades replayed so far                              *)
  reach,     (* _BookAcc.reach                                             *)
  ledger,    (* the counters behind conservation_gap                       *)
  replay,    (* the book OrderBook builds from the events                  *)
  nautilus,  (* the book nautilus builds from the ops                      *)
  exch,      (* the engine's book at the exchange                          *)
  stale,     (* prices a snapshot removed and no CLEAR has reached         *)
  wire,      (* row batches on their way to the strategy's view            *)
  local,     (* the strategy's view                                        *)
  orders,    (* the engine's orders not yet cleared                        *)
  executed,  (* every execution so far: [id, side, px]                     *)
  nextOid, live, prevL1, filledIds, canceled, rejected, position,
  ended

tapeVars  == <<events, trades, reach, ledger, replay, nautilus, stale>>
stratVars == <<nextOid, live, prevL1, filledIds, canceled, rejected, position>>
vars == <<cross, tapeVars, exch, wire, local, orders, executed, stratVars, ended>>

-----------------------------------------------------------------------------
Other(s) == IF s = "bid" THEN "ask" ELSE "bid"

HasTouch(b) == \A s \in Side : Positive(b[s]) # {}
Best(b, s)  == BestOf(s, Positive(b[s]))
Touch(b) == [bid |-> Best(b, "bid"), ask |-> Best(b, "ask"),
             bidQty |-> b["bid"][Best(b, "bid")], askQty |-> b["ask"][Best(b, "ask")]]

\* A venue's book never crosses.  The engine's may, on a level that a resync
\* should have removed.
Uncrossed(b) == HasTouch(b) => Best(b, "bid") < Best(b, "ask")

\* A limit at px meets the other side of the book.
Takes(b, s, px) ==
  /\ Positive(b[Other(s)]) # {}
  /\ IF s = "bid" THEN px >= Best(b, "ask") ELSE px <= Best(b, "bid")

Open(s)   == {o \in orders : o.side = s /\ o.status = "new"}
Filled(o) == [o EXCEPT !.status = "filled"]

Executions(os) ==
  executed \cup {[id |-> o.id, side |-> o.side, px |-> o.exec] : o \in {p \in os : p.status = "filled"}}

\* Resting orders the market comes through fill at their own price; which
\* ones do in a book that crosses is the engine's choice.
MayFill(os, b) ==
  LET met == {o \in os : o.status = "new" /\ Takes(b, o.side, o.px)}
  IN  IF Uncrossed(b) THEN {met} ELSE SUBSET met

Matched(os, met) == {IF o \in met THEN Filled(o) ELSE o : o \in os}

NoL1   == [bid |-> 0, ask |-> 0, bidQty |-> 0, askQty |-> 0]
NoLive == [id |-> 0, px |-> 0]

FirstSnapshot(b) == [kind |-> "snapshot", book |-> b]

Init ==
  /\ cross \in BOOLEAN
  /\ events = 1 /\ trades = 0
  /\ replay \in {b \in Books : \E s \in Side : Positive(b[s]) # {}}
  /\ reach = ReachAfter(NoReach, FirstSnapshot(replay))
  /\ ledger = Ledger
  /\ nautilus = replay /\ exch = replay /\ local = replay
  /\ stale = [s \in Side |-> {}]
  /\ wire = << >>
  /\ orders = {} /\ executed = {}
  /\ nextOid = 1 /\ live = [s \in Side |-> NoLive] /\ prevL1 = NoL1
  /\ filledIds = {} /\ canceled = 0 /\ rejected = 0 /\ position = Flat
  /\ ended = FALSE

-----------------------------------------------------------------------------
\* What a resync leaves behind in the engine: a side that the snapshot empties
\* gets no CLEAR, so all of it stays; the next snapshot with levels clears out
\* to what was seen since, which may not reach the old levels.  A level that a
\* diff names is the capture's again.
StaleAfter(e) ==
  [s \in Side |->
     IF e.kind = "diff" THEN stale[s] \ {x.px : x \in {y \in e.changes : y.side = s}}
     ELSE IF Positive(e.book[s]) = {} THEN stale[s] \cup Positive(replay[s])
     ELSE stale[s] \ Cleared(s, Farthest(s, Positive(e.book[s]) \cup reach[s]))]

\* The next book event of the replay, through both adapters.
Replayed(e) ==
  LET rows == RowsOf(e, reach)
  IN  /\ ~ended /\ events < MaxEvents /\ Len(wire) < Window
      /\ events' = events + 1
      /\ reach' = ReachAfter(reach, e)
      /\ ledger' = Booked(ledger, e, rows)
      /\ replay' = ReplayEvent(replay, e)
      /\ nautilus' = PlayOps(nautilus, OpsOf(e))
      /\ exch' = Play(exch, rows)
      /\ Uncrossed(replay')
      /\ stale' = StaleAfter(e)
      /\ wire' = IF rows = << >> THEN wire ELSE Append(wire, rows)
      /\ \E met \in MayFill(orders, exch') : orders' = Matched(orders, met)
      /\ executed' = Executions(orders')
      /\ UNCHANGED <<cross, trades, local, stratVars, ended>>

SnapshotReplayed == \E b \in Books : Replayed([kind |-> "snapshot", book |-> b])
DiffReplayed     == \E c \in Changes : Replayed([kind |-> "diff", changes |-> c])

\* A public trade: orders it runs through fill, orders at its price may.
\* A trade of quantity 0 never reaches the engine.
Hit(o, taker, px) ==
  /\ o.status = "new" /\ o.side # taker
  /\ IF o.side = "bid" THEN o.px >= px ELSE o.px <= px

TradeReplayed ==
  /\ ~ended /\ trades < MaxTrades
  /\ trades' = trades + 1
  /\ \E taker \in Side, px \in Price, qty \in {0, 1} :
       \E atPrice \in SUBSET {o \in orders : Hit(o, taker, px) /\ o.px = px} :
         orders' = IF qty = 0 THEN orders
                   ELSE {IF Hit(o, taker, px) /\ (o.px # px \/ o \in atPrice) THEN Filled(o) ELSE o
                           : o \in orders}
  /\ executed' = Executions(orders')
  /\ UNCHANGED <<cross, events, reach, ledger, replay, nautilus, exch, stale, wire, local,
                 stratVars, ended>>

\* The strategy's view takes the next batch.
LocalSees ==
  /\ wire # << >>
  /\ local' = Play(local, Head(wire))
  /\ wire' = Tail(wire)
  /\ UNCHANGED <<cross, tapeVars, exch, orders, executed, stratVars, ended>>

-----------------------------------------------------------------------------
\* A step of the strategy is a chain of updates of what it owns.
Own == [orders |-> orders, nextOid |-> nextOid, live |-> live, prevL1 |-> prevL1,
        filledIds |-> filledIds, canceled |-> canceled, rejected |-> rejected,
        position |-> position]

SignedQty(o) == IF o.side = "bid" THEN 1 ELSE -1

\* The position after the fills, in the order given.
SettleTable(p, fills) ==
  LET at[i \in 0..Len(fills)] ==
        IF i = 0 THEN p ELSE ApplyFill(at[i - 1], SignedQty(fills[i]), fills[i].exec)
  IN  at

Settled(p, fills) == SettleTable(p, fills)[Len(fills)]

\* _harvest: every fill into the position once, in the order the engine lists
\* them; then the inactive orders are forgotten.  Mutant: expired orders are
\* forgotten without being counted as rejected.
HarvestedUncounted(st, fills) ==
  [st EXCEPT !.orders = {o \in @ : o.status = "new"},
             !.filledIds = @ \cup {fills[i].id : i \in DOMAIN fills},
             !.canceled = @ + Cardinality({o \in st.orders : o.status = "canceled"}),
             !.position = Settled(@, fills)]

Harvested(st, fills) ==
  [st EXCEPT !.orders = {o \in @ : o.status = "new"},
             !.filledIds = @ \cup {fills[i].id : i \in DOMAIN fills},
             !.canceled = @ + Cardinality({o \in st.orders : o.status = "canceled"}),
             !.rejected = @ + Cardinality({o \in st.orders : o.status = "expired"}),
             !.position = Settled(@, fills)]

ToHarvest == SetToSeqs({o \in orders : o.status = "filled" /\ o.id \notin filledIds})

\* A limit order reaches the exchange at once: post-only when making, so that
\* one that would take expires; when crossing it takes at the best price.
Arrived(id, s, px) ==
  LET taking == Takes(exch, s, px)
  IN  [id |-> id, side |-> s, px |-> px,
       exec   |-> IF taking /\ cross THEN Best(exch, Other(s)) ELSE px,
       status |-> CASE taking /\ cross -> "filled" [] taking /\ ~cross -> "expired" [] OTHER -> "new",
       lagged |-> local # exch]

\* _submit.
Submit(st, s, px) ==
  [st EXCEPT !.orders = @ \cup {Arrived(st.nextOid, s, px)},
             !.live[s] = [id |-> st.nextOid, px |-> px],
             !.nextOid = @ + 1]

LiveOrder(st, s) == {o \in st.orders : o.id = st.live[s].id /\ o.status = "new"}

Cancel(st, s) ==
  [st EXCEPT !.orders = {IF o \in LiveOrder(st, s) THEN [o EXCEPT !.status = "canceled"] ELSE o : o \in @}]

\* _replace_side.  Mutant: the old order is not canceled.
ReplaceSideKeepingOld(st, s, px) ==
  IF LiveOrder(st, s) # {} /\ st.live[s].px = px THEN st ELSE Submit(st, s, px)

ReplaceSide(st, s, px) ==
  IF LiveOrder(st, s) # {} /\ st.live[s].px = px THEN st ELSE Submit(Cancel(st, s), s, px)

Quotes(l1, skew) ==
  IF cross THEN AggressiveQuotes(l1.bid, l1.ask) ELSE MakerQuotes(l1.bid, l1.ask, skew)

\* _requote on a touch that changed.
Requoted(st, l1, skew) ==
  LET quotes == Quotes(l1, skew)
  IN  ReplaceSide(ReplaceSide([st EXCEPT !.prevL1 = l1], "bid", quotes.bid), "ask", quotes.ask)

OwnBecomes(st) ==
  /\ orders' = st.orders /\ nextOid' = st.nextOid /\ live' = st.live /\ prevL1' = st.prevL1
  /\ filledIds' = st.filledIds /\ canceled' = st.canceled /\ rejected' = st.rejected
  /\ position' = st.position
  /\ executed' = Executions(st.orders)
  /\ UNCHANGED <<cross, tapeVars, exch, wire, local>>

\* One turn of the run loop, every 100 ms of replayed time.  Left out are the
\* turns during which a stale level crosses a book of the engine: which touch
\* it shows then, and what an order meets, is its own.
Turn ==
  /\ ~ended /\ Uncrossed(local) /\ Uncrossed(exch)
  /\ \E fills \in ToHarvest, skew \in Skews :
       LET st == Harvested(Own, fills)
       IN  IF HasTouch(local) /\ Touch(local) # prevL1
           THEN nextOid + 1 <= MaxOrders /\ OwnBecomes(Requoted(st, Touch(local), skew))
           ELSE OwnBecomes(st)
  /\ UNCHANGED ended

\* The data ends: what is left is harvested.
DataEnds ==
  /\ ~ended /\ wire = << >>
  /\ \E fills \in ToHarvest : OwnBecomes(Harvested(Own, fills))
  /\ ended' = TRUE

Next == SnapshotReplayed \/ DiffReplayed \/ TradeReplayed \/ LocalSees \/ Turn \/ DataEnds

Spec == Init /\ [][Next]_vars

-----------------------------------------------------------------------------
\* Types, and no two orders with one identifier: live orders, fills and
\* cancellations are all found by it.
TypeOK ==
  /\ events \in 1..MaxEvents /\ trades \in 0..MaxTrades /\ Len(wire) <= Window
  /\ {replay, nautilus, exch, local} \subseteq [Side -> Levels]
  /\ reach \in [Side -> SUBSET Price] /\ \A s \in Side : Cardinality(reach[s]) <= 1
  /\ \A o \in orders : o.id \in 1..(nextOid - 1) /\ o.status \in {"new", "filled", "canceled", "expired"}
  /\ \A o, p \in orders : o.id = p.id => o = p
  /\ position.avg.d # 0 /\ position.realized.d # 0

\* The book the engine trades against is the book of the capture and the
\* levels a resync left behind, no fewer and no more: _resync_rows writes no
\* CLEAR for a side without levels, and _apply_snapshot forgets the reach.
EngineIsReplay ==
  \A s \in Side : \A p \in Price :
    IF p \in stale[s] THEN exch[s][p] > 0 /\ replay[s][p] = 0 ELSE exch[s][p] = replay[s][p]

\* The book nautilus builds from the same events has no such exception: two
\* back ends asked about one capture trade on the same levels.
NautilusIsReplay == nautilus = replay

\* Nothing of the capture is lost on the way to the engine without being
\* counted (conservation_gap; run_ofi_mm_hftbacktest refuses to run otherwise).
ConservationHolds == ConservationGap(ledger) = 0

\* The strategy never has two orders resting on one side, whatever fills,
\* expires or is replaced between two turns, and the one it has is the one
\* it knows: else exposure doubles and the old order is never canceled.
OneOrderPerSide ==
  \A s \in Side : \A o \in Open(s) : live[s].id = o.id /\ live[s].px = o.px

\* Every order submitted is counted in exactly one of the result's counters,
\* rests, or waits for the next harvest; each execution is counted once.
OrdersAccounted ==
  LET waiting == {o \in orders : o.status # "new"}
      resting == {o \in orders : o.status = "new"}
  IN  /\ nextOid - 1 = Cardinality(filledIds) + canceled + rejected
                         + Cardinality(waiting) + Cardinality(resting)
      /\ ended => waiting = {} /\ filledIds = {x.id : x \in executed}

\* What the harvested execution with an identifier took in, and bought.
ExecutionOf(id) == CHOOSE x \in executed : x.id = id

CashFlows ==
  [id \in 1..(nextOid - 1) |->
     IF id \in filledIds THEN -SignedQty(ExecutionOf(id)) * ExecutionOf(id).px ELSE 0]
Quantities ==
  [id \in 1..(nextOid - 1) |-> IF id \in filledIds THEN SignedQty(ExecutionOf(id)) ELSE 0]

\* Profit = cash taken + what the open quantity cost.
Accounts(p, cash, qty) ==
  /\ p.qty = qty
  /\ p.realized.n * p.avg.d
       = cash * p.realized.d * p.avg.d + qty * p.avg.n * p.realized.d

\* The position and its realized profit are those of the executions harvested
\* so far, whatever their order.  The runner's own fills are all of one lot,
\* so none of them is larger than the position it reduces: a further fill of
\* any size, one that closes the position and opens the other side among
\* them, would be accounted for as well (Position.apply_fill).
PositionIsFills ==
  LET cash == Total(CashFlows)
      qty  == Total(Quantities)
  IN  /\ Accounts(position, cash, qty)
      /\ \A signed \in (-MaxFill..MaxFill) \ {0}, px \in Price :
           Accounts(ApplyFill(position, signed, px), cash - signed * px, qty + signed)

\* A post-only order expires only because the strategy's view was behind the
\* exchange: one clamped to the touch it sees never crosses it.
PostOnlyOnlyLags == \A o \in orders : o.status = "expired" => o.lagged

\* What rests was quoted from the last touch the strategy acted on, both
\* sides with one skew: no order of an earlier market is left behind.
QuotesFollowTouch ==
  \E skew \in Skews : \A s \in Side : \A o \in Open(s) : o.px = Quotes(prevL1, skew)[s]

(* Of two back ends asked about one capture, nautilus trades on its book    *)
(* and hftbacktest on its book and the levels left behind at a resync, and  *)
(* neither of them loses an event uncounted.                                *)
EnginesReplayCapture == EngineIsReplay /\ NautilusIsReplay /\ ConservationHolds

(* A resync covers the old book ("so that price must also cover the old     *)
(* book", _resync_rows): where the snapshot has levels on a side, the       *)
(* engine's side is the snapshot's afterwards.                              *)
ResyncCovers ==
  [][SnapshotReplayed => \A s \in Side : Positive(replay'[s]) # {} => exch'[s] = replay'[s]]_vars

(* The strategy's book-keeping: identifiers, counters and what rests.       *)
OrdersInv == TypeOK /\ OrdersAccounted /\ QuotesFollowTouch
=============================================================================
