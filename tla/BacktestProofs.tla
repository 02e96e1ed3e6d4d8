--------------------------- MODULE BacktestProofs ---------------------------
(***************************************************************************)
(* The market maker of a backtest and the two engines it runs on, for every *)
(* capture, price range, spread, skew and lag of its view: a post-only     *)
(* order expires only because the view was behind, one order rests per     *)
(* side, both engines replay the capture's book, and the position is the   *)
(* one its fills make.  Three invariants carry it: OrderInv (the orders),  *)
(* BookInv (the books and the reach of a CLEAR), MoneyInv (the accounts).  *)
(***************************************************************************)
EXTENDS Backtest, LoopLemmas, FiniteSetTheorems, FunctionTheorems

-----------------------------------------------------------------------------
(* Some prices have a lowest and a highest one.                            *)
LEMMA ExtremePrices ==
  ASSUME NEW S \in SUBSET Price, S # {}
  PROVE  /\ Min(S) \in S /\ Max(S) \in S
         /\ \A x \in S : Min(S) <= x /\ x <= Max(S)
<1>1. \E x \in S : \A y \in S : x <= y
  <2>1. S \in SUBSET Nat
    BY PriceAssumption DEF Price
  <2>. QED
    BY <2>1, SmallestNat
<1>2. \E x \in S : \A y \in S : x >= y
  <2>. DEFINE D == {TopPrice - x : x \in S}
  <2>1. D \in SUBSET Nat /\ D # {}
    <3>1. \A x \in S : TopPrice - x \in Nat
      BY PriceAssumption DEF Price
    <3>. QED
      BY <3>1
  <2>2. PICK d \in D : \A c \in D : d <= c
    <3>. HIDE DEF D
    <3>. QED
      BY <2>1, SmallestNat
  <2>3. PICK x \in S : d = TopPrice - x
    OBVIOUS
  <2>4. \A y \in S : TopPrice - y \in D
    OBVIOUS
  <2>5. \A y \in S : x >= y
    BY <2>2, <2>3, <2>4, PriceAssumption, SMTT(30) DEF Price
  <2>. QED
    BY <2>5
<1>3. Min(S) \in S /\ \A y \in S : Min(S) <= y
  BY <1>1, Zenon DEF Min
<1>4. Max(S) \in S /\ \A y \in S : Max(S) >= y
  BY <1>2, Zenon DEF Max
<1>5. ASSUME NEW x \in S
      PROVE  x <= Max(S)
  <2>1. S \subseteq Int
    BY PriceAssumption DEF Price
  <2>2. x \in Int /\ Max(S) \in Int /\ Max(S) >= x
    BY <1>4, <2>1, Zenon
  <2>. QED
    BY <2>2
<1>. QED
  BY <1>3, <1>4, <1>5

(* A side that is not empty has a best price.                              *)
LEMMA BestIsPrice ==
  ASSUME NEW b, NEW s \in Side, Positive(b[s]) # {}
  PROVE  Best(b, s) \in Int
<1>1. Positive(b[s]) \in SUBSET Price
  BY DEF Positive
<1>. QED
  BY <1>1, ExtremePrices, PriceAssumption DEF Best, BestOf, Price

(* A quote clamped to the touch of a book never meets that book.           *)
LEMMA ClampedNeverTakes ==
  ASSUME NEW b, HasTouch(b), NEW skew \in Skews,
         NEW s \in Side
  PROVE  ~Takes(b, s, MakerQuotes(Touch(b).bid, Touch(b).ask, skew)[s])
<1>. DEFINE bid == Best(b, "bid")
            ask == Best(b, "ask")
            mid == MidTicks(bid + ask)
<1>1. bid \in Int /\ ask \in Int
  BY BestIsPrice DEF HasTouch, Side
<1>2. mid \in Int
  BY <1>1 DEF MidTicks
<1>3. Touch(b).bid = bid /\ Touch(b).ask = ask
  BY DEF Touch
<1>4. skew \in Int /\ SpreadTicks \in Int
  BY QuotingAssumption DEF Skews
<1>. HIDE DEF bid, ask, mid
<1>5. Lower(mid - SpreadTicks + skew, ask - 1) < ask
  BY <1>1, <1>2, <1>4 DEF Lower
<1>6. Higher(mid + SpreadTicks + skew, bid + 1) > bid
  BY <1>1, <1>2, <1>4 DEF Higher
<1>. USE DEF bid, ask, mid
<1>7. CASE s = "bid"
  <2>1. MakerQuotes(bid, ask, skew)[s] = Lower(mid - SpreadTicks + skew, ask - 1)
    BY <1>7 DEF MakerQuotes
  <2>2. Lower(mid - SpreadTicks + skew, ask - 1) \in Int
    BY <1>1, <1>2, <1>4 DEF Lower
  <2>. QED
    BY <1>1, <1>3, <1>5, <1>7, <2>1, <2>2 DEF Takes, Other
<1>8. CASE s = "ask"
  <2>1. MakerQuotes(bid, ask, skew)[s] = Higher(mid + SpreadTicks + skew, bid + 1)
    BY <1>8 DEF MakerQuotes
  <2>2. Higher(mid + SpreadTicks + skew, bid + 1) \in Int
    BY <1>1, <1>2, <1>4 DEF Higher
  <2>. QED
    BY <1>1, <1>3, <1>6, <1>8, <2>1, <2>2 DEF Takes, Other
<1>. QED
  BY <1>7, <1>8 DEF Side
-----------------------------------------------------------------------------
(* The invariant: an order is a record, and if it expired it was placed by *)
(* a view that lagged.  It is inductive because an order is marked expired *)
(* only when it arrives, and nothing changes a mark of its lag.            *)
Excused(o) ==
  /\ o = [id |-> o.id, side |-> o.side, px |-> o.px, exec |-> o.exec,
          status |-> o.status, lagged |-> o.lagged]
  /\ o.status = "expired" => o.lagged

OrdersExcused == \A o \in orders : Excused(o)

(* The same of the strategy's own state in the middle of a turn.           *)
OwnExcused(st) ==
  /\ st = [orders |-> st.orders, nextOid |-> st.nextOid, live |-> st.live, prevL1 |-> st.prevL1,
           filledIds |-> st.filledIds, canceled |-> st.canceled, rejected |-> st.rejected,
           position |-> st.position]
  /\ \A o \in st.orders : Excused(o)

(* A fill leaves an order excused.                                         *)
LEMMA FilledExcused ==
  ASSUME NEW o, Excused(o)
  PROVE  Excused(Filled(o))
BY DEF Excused, Filled

(* So does a cancellation, of every order of the strategy.                 *)
LEMMA CancelExcused ==
  ASSUME NEW st, OwnExcused(st), NEW s
  PROVE  OwnExcused(Cancel(st, s))
<1>1. \A o : Excused(o) => Excused([o EXCEPT !.status = "canceled"])
  BY DEF Excused
<1>. DEFINE after == {IF o \in LiveOrder(st, s) THEN [o EXCEPT !.status = "canceled"] ELSE o : o \in st.orders}
<1>2. \A o \in after : Excused(o)
  BY <1>1 DEF OwnExcused
<1>3. Cancel(st, s) = [st EXCEPT !.orders = after]
  BY DEF Cancel, OwnExcused
<1>. HIDE DEF after
<1>. QED
  BY <1>2, <1>3 DEF OwnExcused

(* An order quoted from the touch of the view expires only if it lagged.   *)
LEMMA QuoteArrivesExcused ==
  ASSUME HasTouch(local), NEW skew \in Skews, NEW s \in Side, NEW id
  PROVE  Excused(Arrived(id, s, Quotes(Touch(local), skew)[s]))
<1>. DEFINE px == Quotes(Touch(local), skew)[s]
            o  == Arrived(id, s, px)
<1>1. o.status = "expired" => Takes(exch, s, px) /\ ~cross
  BY DEF Arrived
<1>2. o.lagged = (local # exch)
  BY DEF Arrived
<1>3. ~cross => px = MakerQuotes(Touch(local).bid, Touch(local).ask, skew)[s]
  BY DEF Quotes
<1>4. ~cross /\ local = exch => ~Takes(exch, s, px)
  BY <1>3, ClampedNeverTakes
<1>5. o = [id |-> o.id, side |-> o.side, px |-> o.px, exec |-> o.exec,
           status |-> o.status, lagged |-> o.lagged]
  BY DEF Arrived
<1>. HIDE DEF o, px
<1>6. Excused(o)
  BY <1>1, <1>2, <1>4, <1>5 DEF Excused
<1>. QED
  BY <1>6 DEF o, px

(* A submitted order is excused when the order that arrives is.            *)
LEMMA SubmitExcused ==
  ASSUME NEW st, OwnExcused(st), NEW s, NEW px, Excused(Arrived(st.nextOid, s, px))
  PROVE  OwnExcused(Submit(st, s, px))
<1>. DEFINE new == Arrived(st.nextOid, s, px)
<1>1. Submit(st, s, px) = [st EXCEPT !.orders = st.orders \cup {new},
                                     !.live = [st.live EXCEPT ![s] = [id |-> st.nextOid, px |-> px]],
                                     !.nextOid = st.nextOid + 1]
  BY DEF Submit, OwnExcused
<1>. HIDE DEF new
<1>2. \A o \in st.orders \cup {new} : Excused(o)
  BY DEF new, OwnExcused
<1>. QED
  BY <1>1, <1>2 DEF OwnExcused

(* Replacing a side by a quote from the view's touch.                      *)
LEMMA ReplaceExcused ==
  ASSUME NEW st, OwnExcused(st), HasTouch(local), NEW skew \in Skews, NEW s \in Side
  PROVE  OwnExcused(ReplaceSide(st, s, Quotes(Touch(local), skew)[s]))
<1>1. OwnExcused(Cancel(st, s))
  BY CancelExcused
<1>2. OwnExcused(Submit(Cancel(st, s), s, Quotes(Touch(local), skew)[s]))
  BY <1>1, QuoteArrivesExcused, SubmitExcused
<1>. QED
  BY <1>2 DEF ReplaceSide

(* What a requote submits is excused: it is priced from the view's touch.  *)
LEMMA RequoteExcused ==
  ASSUME NEW st, OwnExcused(st), HasTouch(local), NEW skew \in Skews
  PROVE  OwnExcused(Requoted(st, Touch(local), skew))
<1>. DEFINE q == Quotes(Touch(local), skew)
            seen == [st EXCEPT !.prevL1 = Touch(local)]
            half == ReplaceSide(seen, "bid", q["bid"])
<1>1. OwnExcused(seen)
  BY DEF OwnExcused
<1>. HIDE DEF seen
<1>2. OwnExcused(half)
  BY <1>1, ReplaceExcused DEF Side
<1>. HIDE DEF half
<1>3. OwnExcused(ReplaceSide(half, "ask", q["ask"]))
  BY <1>2, ReplaceExcused DEF Side
<1>. QED
  BY <1>3 DEF Requoted, seen, half

(* A harvest only forgets orders.                                          *)
LEMMA HarvestExcused ==
  ASSUME OrdersExcused, NEW fills
  PROVE  OwnExcused(Harvested(Own, fills))
<1>1. Own.orders = orders
  BY DEF Own
<1>2. Harvested(Own, fills).orders = {o \in Own.orders : o.status = "new"}
  BY DEF Harvested, Own
<1>3. \A o \in Harvested(Own, fills).orders : Excused(o)
  BY <1>1, <1>2 DEF OrdersExcused
<1>4. PICK ids, cancels, rejects, pos :
        Harvested(Own, fills)
          = [Own EXCEPT !.orders = {o \in Own.orders : o.status = "new"}, !.filledIds = ids,
                        !.canceled = cancels, !.rejected = rejects, !.position = pos]
  BY Zenon DEF Harvested
<1>. QED
  BY <1>3, <1>4 DEF OwnExcused, Own

(* What a turn makes of the strategy's state becomes the orders.           *)
LEMMA OwnedExcused ==
  ASSUME NEW st, OwnExcused(st), OwnBecomes(st)
  PROVE  OrdersExcused'
BY DEF OwnExcused, OwnBecomes, OrdersExcused, Excused

-----------------------------------------------------------------------------
(* No step leaves an order that expired without the view being behind.     *)
LEMMA OrdersExcusedStep ==
  ASSUME OrdersExcused, [Next]_vars
  PROVE  OrdersExcused'
<1>1. ASSUME NEW e, Replayed(e)
      PROVE  OrdersExcused'
  <2>1. PICK met \in MayFill(orders, exch') : orders' = Matched(orders, met)
    BY <1>1 DEF Replayed
  <2>. QED
    BY <2>1, FilledExcused DEF OrdersExcused, Matched
<1>2. CASE SnapshotReplayed
  BY <1>1, <1>2 DEF SnapshotReplayed
<1>3. CASE DiffReplayed
  BY <1>1, <1>3 DEF DiffReplayed
<1>4. CASE TradeReplayed
  BY <1>4, FilledExcused DEF TradeReplayed, OrdersExcused
<1>5. CASE LocalSees
  BY <1>5 DEF LocalSees, OrdersExcused
<1>6. CASE Turn
  <2>1. PICK fills \in ToHarvest, skew \in Skews :
          LET st == Harvested(Own, fills)
          IN  IF HasTouch(local) /\ Touch(local) # prevL1
              THEN nextOid + 1 <= MaxOrders /\ OwnBecomes(Requoted(st, Touch(local), skew))
              ELSE OwnBecomes(st)
    BY <1>6 DEF Turn
  <2>. DEFINE st == Harvested(Own, fills)
  <2>2. OwnExcused(st)
    BY HarvestExcused
  <2>. HIDE DEF st
  <2>3. CASE OwnBecomes(st)
    BY <2>2, <2>3, OwnedExcused
  <2>4. CASE HasTouch(local) /\ OwnBecomes(Requoted(st, Touch(local), skew))
    BY <2>2, <2>4, RequoteExcused, OwnedExcused
  <2>. QED
    BY <2>1, <2>3, <2>4 DEF st
<1>7. CASE DataEnds
  BY <1>7, HarvestExcused, OwnedExcused DEF DataEnds
<1>8. CASE UNCHANGED vars
  BY <1>8 DEF vars, OrdersExcused
<1>. QED
  BY <1>2, <1>3, <1>4, <1>5, <1>6, <1>7, <1>8 DEF Next

(* However far the view is behind and whatever the market does, the market *)
(* maker's post-only orders expire only because of that lag: the clamp of  *)
(* maker_quotes keeps every quote inside the touch it was computed from,   *)
(* and no later step marks an order expired (hft_runner.py, quotes.py).    *)
THEOREM PostOnlyExpiresOnlyByLag == Spec => []PostOnlyOnlyLags
<1>1. Init => OrdersExcused
  BY DEF Init, OrdersExcused
<1>2. OrdersExcused /\ [Next]_vars => OrdersExcused'
  BY OrdersExcusedStep
<1>3. OrdersExcused => PostOnlyOnlyLags
  BY DEF OrdersExcused, Excused, PostOnlyOnlyLags
<1>. QED
  BY <1>1, <1>2, <1>3, PTL DEF Spec

-----------------------------------------------------------------------------
\* Orders and their identifiers.

Marks == {"new", "filled", "canceled", "expired"}

\* The order a side knows is the only one it can have resting.
Known(os, live_) ==
  \A s \in Side, o \in os :
    o.side = s /\ o.status = "new" => live_[s].id = o.id /\ live_[s].px = o.px

\* What the strategy owns, also in the middle of a turn: identifiers are
\* handed out once, and each is in a counter or still an order.
Kept(st) ==
  /\ OwnExcused(st)
  /\ st.nextOid \in Nat \ {0}
  /\ \A o \in st.orders : /\ o.id \in 1..(st.nextOid - 1) /\ o.id \notin st.filledIds
                          /\ o.side \in Side /\ o.status \in Marks
  /\ \A o, p \in st.orders : o.id = p.id => o = p
  /\ \A s \in Side : st.live[s].id \in 0..(st.nextOid - 1)
  /\ st.live = [s \in Side |-> [id |-> st.live[s].id, px |-> st.live[s].px]]
  /\ Known(st.orders, st.live)
  /\ st.filledIds \subseteq 1..(st.nextOid - 1)
  /\ st.canceled \in Nat /\ st.rejected \in Nat
  /\ IsFiniteSet(st.orders) /\ IsFiniteSet(st.filledIds)
  /\ st.nextOid - 1 = Cardinality(st.filledIds) + st.canceled + st.rejected
                        + Cardinality(st.orders)

\* What rests on a side was quoted at px.
RestsAt(st, s, px) == \A o \in st.orders : o.side = s /\ o.status = "new" => o.px = px

(* A finite set, and its image by a function that tells its members apart. *)
LEMMA SameSize ==
  ASSUME NEW S, IsFiniteSet(S), NEW F, \A x, y \in S : F[x] = F[y] => x = y
  PROVE  /\ IsFiniteSet({F[x] : x \in S})
         /\ Cardinality({F[x] : x \in S}) = Cardinality(S)
<1> DEFINE T == {F[x] : x \in S}
           G == [x \in S |-> F[x]]
<1>1. G \in [S -> T] /\ (\A x, y \in S : G[x] = G[y] => x = y) /\ \A t \in T : \E x \in S : G[x] = t
  OBVIOUS
<1> HIDE DEF G, T
<1>2. G \in Bijection(S, T)
  BY <1>1, Fun_IsBij
<1>3. ExistsBijection(S, T)
  BY <1>2 DEF ExistsBijection
<1> QED
  BY <1>3, FS_Bijection DEF T

Marked(o, x) == [o EXCEPT !.status = x]
WithOrders(st, os) == [st EXCEPT !.orders = os]

(* A status changes nothing else of an order.                              *)
LEMMA MarkedOrder ==
  ASSUME NEW o, Excused(o), NEW x \in {"filled", "canceled"}
  PROVE  /\ Excused(Marked(o, x)) /\ Marked(o, x).id = o.id /\ Marked(o, x).side = o.side
         /\ Marked(o, x).px = o.px /\ Marked(o, x).status = x
  BY DEF Excused, Marked

(* Orders that fill or are canceled keep everything but their mark.        *)
LEMMA MarkedKept ==
  ASSUME NEW st, Kept(st), NEW F,
         \A o \in st.orders : F[o] \in {o, Marked(o, "filled"), Marked(o, "canceled")}
  PROVE  /\ Kept(WithOrders(st, {F[o] : o \in st.orders}))
         /\ \A s, px : RestsAt(st, s, px) => RestsAt(WithOrders(st, {F[o] : o \in st.orders}), s, px)
<1> DEFINE os == {F[o] : o \in st.orders}
           new == WithOrders(st, os)
<1>1. \A o \in st.orders : Excused(o)
  BY DEF Kept, OwnExcused
<1>2. \A o \in st.orders : /\ Excused(F[o]) /\ F[o].id = o.id /\ F[o].side = o.side /\ F[o].px = o.px
                           /\ F[o].status \in {o.status, "filled", "canceled"}
                           /\ (F[o].status = "new" => F[o] = o)
  BY <1>1, MarkedOrder
<1>3. /\ new.orders = os /\ new.nextOid = st.nextOid /\ new.live = st.live
      /\ new.filledIds = st.filledIds /\ new.canceled = st.canceled /\ new.rejected = st.rejected
      /\ new.position = st.position /\ new.prevL1 = st.prevL1
      /\ new = [orders |-> new.orders, nextOid |-> new.nextOid, live |-> new.live, prevL1 |-> new.prevL1,
           filledIds |-> new.filledIds, canceled |-> new.canceled, rejected |-> new.rejected,
           position |-> new.position]
  <2> HIDE DEF os
  <2> QED
    BY DEF Kept, OwnExcused, WithOrders
<1>4. \A x, y \in st.orders : F[x] = F[y] => x = y
  BY <1>2 DEF Kept
<1>5. IsFiniteSet(os) /\ Cardinality(os) = Cardinality(st.orders)
  BY <1>4, SameSize DEF Kept
<1> HIDE DEF new
<1>6. \A x \in os : \E o \in st.orders : x = F[o]
  OBVIOUS
<1> HIDE DEF os
<1>7. OwnExcused(new)
  BY <1>2, <1>3, <1>6 DEF OwnExcused
<1>8. \A o \in os : /\ o.id \in 1..(st.nextOid - 1) /\ o.id \notin st.filledIds
                    /\ o.side \in Side /\ o.status \in Marks
  BY <1>2, <1>6 DEF Kept, Marks
<1>9. \A o, p \in os : o.id = p.id => o = p
  BY <1>2, <1>6 DEF Kept
<1>10. Known(os, st.live)
  BY <1>2, <1>6 DEF Kept, Known
<1>11. Kept(new)
  BY <1>3, <1>5, <1>7, <1>8, <1>9, <1>10 DEF Kept
<1>12. \A s, px : RestsAt(st, s, px) => RestsAt(new, s, px)
  BY <1>2, <1>3, <1>6 DEF RestsAt
<1> QED
  BY <1>11, <1>12 DEF new, os

(* A cancellation leaves nothing resting on its side.                      *)
LEMMA CancelKept ==
  ASSUME NEW st, Kept(st), NEW s \in Side
  PROVE  /\ Kept(Cancel(st, s))
         /\ \A o \in Cancel(st, s).orders : ~(o.side = s /\ o.status = "new")
         /\ \A t, px : RestsAt(st, t, px) => RestsAt(Cancel(st, s), t, px)
<1> DEFINE F == [o \in st.orders |-> IF o \in LiveOrder(st, s) THEN [o EXCEPT !.status = "canceled"] ELSE o]
           os == {F[o] : o \in st.orders}
<1>1. Cancel(st, s) = WithOrders(st, os)
  BY DEF Cancel, Kept, OwnExcused, WithOrders
<1>2. \A o \in st.orders : F[o] \in {o, Marked(o, "filled"), Marked(o, "canceled")}
  BY DEF Marked
<1>3. \A o \in st.orders : F[o].status = "new" /\ F[o].side = s => FALSE
  <2> SUFFICES ASSUME NEW o \in st.orders, F[o].status = "new", F[o].side = s PROVE FALSE
    OBVIOUS
  <2>1. Excused(o)
    BY DEF Kept, OwnExcused
  <2>2. F[o] = o /\ o \notin LiveOrder(st, s)
    BY <2>1 DEF Excused
  <2>3. st.live[s].id = o.id
    BY <2>2 DEF Kept, Known
  <2> QED
    BY <2>2, <2>3 DEF LiveOrder
<1>4. Cancel(st, s).orders = os
  BY <1>1 DEF Kept, OwnExcused, WithOrders
<1> HIDE DEF F
<1>5. /\ Kept(WithOrders(st, os))
      /\ \A t, px : RestsAt(st, t, px) => RestsAt(WithOrders(st, os), t, px)
  BY <1>2, MarkedKept
<1>6. \A o \in os : ~(o.side = s /\ o.status = "new")
  BY <1>3
<1> HIDE DEF os
<1> QED
  BY <1>1, <1>4, <1>5, <1>6

(* An order of a side that has none resting.                               *)
LEMMA SubmitKept ==
  ASSUME NEW st, Kept(st), NEW s \in Side, NEW px, Excused(Arrived(st.nextOid, s, px)),
         \A o \in st.orders : ~(o.side = s /\ o.status = "new")
  PROVE  /\ Kept(Submit(st, s, px)) /\ RestsAt(Submit(st, s, px), s, px)
         /\ \A t, q : t # s /\ RestsAt(st, t, q) => RestsAt(Submit(st, s, px), t, q)
<1> DEFINE a == Arrived(st.nextOid, s, px)
           new == Submit(st, s, px)
<1>1. /\ a.id = st.nextOid /\ a.side = s /\ a.px = px /\ a.status \in Marks
  BY DEF Arrived, Marks
<1>2. /\ new.orders = st.orders \cup {a} /\ new.nextOid = st.nextOid + 1
      /\ new.live = [st.live EXCEPT ![s] = [id |-> st.nextOid, px |-> px]]
      /\ new.filledIds = st.filledIds /\ new.canceled = st.canceled /\ new.rejected = st.rejected
  BY DEF Submit, Kept, OwnExcused
<1>3. OwnExcused(new)
  BY SubmitExcused DEF Kept
<1> HIDE DEF a, new
<1>4. st.nextOid \in Nat /\ st.nextOid > 0
  BY DEF Kept
<1>5. \A o \in st.orders : o.id # st.nextOid /\ o.id \in 1..(st.nextOid - 1)
  BY <1>4 DEF Kept
<1>6. \A o, p \in new.orders : o.id = p.id => o = p
  BY <1>1, <1>2, <1>5 DEF Kept
<1>7. \A o \in new.orders : /\ o.id \in 1..(new.nextOid - 1) /\ o.id \notin new.filledIds
                            /\ o.side \in Side /\ o.status \in Marks
  BY <1>1, <1>2, <1>4, <1>5 DEF Kept
<1>8. /\ \A t \in Side : new.live[t].id \in 0..(new.nextOid - 1)
      /\ new.live = [t \in Side |-> [id |-> new.live[t].id, px |-> new.live[t].px]]
  <2>1. \A t \in Side : new.live[t] = IF t = s THEN [id |-> st.nextOid, px |-> px] ELSE st.live[t]
    BY <1>2 DEF Kept
  <2>2. \A t \in Side : new.live[t] = [id |-> new.live[t].id, px |-> new.live[t].px]
    BY <2>1 DEF Kept
  <2>3. \A t \in Side : new.live[t].id \in 0..(new.nextOid - 1)
    BY <1>2, <1>4, <2>1 DEF Kept
  <2>4. new.live = [t \in Side |-> new.live[t]]
    BY <1>2 DEF Kept
  <2> QED
    BY <2>2, <2>3, <2>4
<1>9. Known(new.orders, new.live)
  <2> SUFFICES ASSUME NEW t \in Side, NEW o \in new.orders, o.side = t, o.status = "new"
               PROVE  new.live[t].id = o.id /\ new.live[t].px = o.px
    BY DEF Known
  <2>1. new.live[t] = IF t = s THEN [id |-> st.nextOid, px |-> px] ELSE st.live[t]
    BY <1>2 DEF Kept
  <2> QED
    BY <1>1, <1>2, <2>1 DEF Kept, Known
<1>10. /\ IsFiniteSet(new.orders) /\ Cardinality(new.orders) = Cardinality(st.orders) + 1
  <2>1. a \notin st.orders
    BY <1>1, <1>5
  <2> QED
    BY <1>2, <2>1, FS_AddElement, SMTT(30) DEF Kept
<1>11. new.nextOid - 1 = Cardinality(new.filledIds) + new.canceled + new.rejected
                           + Cardinality(new.orders)
  <2> DEFINE c == Cardinality(st.orders)
             f == Cardinality(st.filledIds)
  <2>1. c \in Nat /\ f \in Nat
    BY FS_CardinalityType DEF Kept
  <2>2. st.nextOid - 1 = f + st.canceled + st.rejected + c /\ st.canceled \in Nat /\ st.rejected \in Nat
    BY DEF Kept
  <2>3. /\ Cardinality(new.orders) = c + 1 /\ Cardinality(new.filledIds) = f
        /\ new.canceled = st.canceled /\ new.rejected = st.rejected /\ new.nextOid = st.nextOid + 1
    BY <1>2, <1>10
  <2> HIDE DEF c, f
  <2> QED
    BY <1>4, <2>1, <2>2, <2>3
<1>12. new.filledIds \subseteq 1..(new.nextOid - 1) /\ new.nextOid \in Nat \ {0}
  BY <1>2, <1>4 DEF Kept
<1>13. Kept(new)
  BY <1>2, <1>3, <1>6, <1>7, <1>8, <1>9, <1>10, <1>11, <1>12 DEF Kept
<1>14. RestsAt(new, s, px) /\ \A t, q : t # s /\ RestsAt(st, t, q) => RestsAt(new, t, q)
  BY <1>1, <1>2 DEF RestsAt
<1> QED
  BY <1>13, <1>14 DEF new

(* Replacing a side: what rests there afterwards is at the new price.      *)
LEMMA ReplaceKept ==
  ASSUME NEW st, Kept(st), NEW s \in Side, NEW px,
         \A id : Excused(Arrived(id, s, px))
  PROVE  /\ Kept(ReplaceSide(st, s, px)) /\ RestsAt(ReplaceSide(st, s, px), s, px)
         /\ ReplaceSide(st, s, px).prevL1 = st.prevL1
         /\ ReplaceSide(st, s, px).filledIds = st.filledIds
         /\ \A t, q : t # s /\ RestsAt(st, t, q) => RestsAt(ReplaceSide(st, s, px), t, q)
<1>1. CASE LiveOrder(st, s) # {} /\ st.live[s].px = px
  <2>1. ReplaceSide(st, s, px) = st
    BY <1>1 DEF ReplaceSide
  <2>2. RestsAt(st, s, px)
    BY <1>1 DEF Kept, Known, RestsAt
  <2> QED
    BY <2>1, <2>2
<1>2. CASE ~(LiveOrder(st, s) # {} /\ st.live[s].px = px)
  <2> DEFINE c == Cancel(st, s)
  <2>1. ReplaceSide(st, s, px) = Submit(c, s, px)
    BY <1>2 DEF ReplaceSide
  <2>2. /\ Kept(c) /\ \A o \in c.orders : ~(o.side = s /\ o.status = "new")
        /\ \A t, q : RestsAt(st, t, q) => RestsAt(c, t, q)
    BY CancelKept
  <2>3. c.prevL1 = st.prevL1 /\ c.filledIds = st.filledIds
    BY DEF Cancel, Kept, OwnExcused
  <2> HIDE DEF c
  <2>4. /\ Submit(c, s, px).prevL1 = c.prevL1
        /\ Submit(c, s, px).filledIds = c.filledIds
    BY <2>2 DEF Submit, Kept, OwnExcused
  <2>5. /\ Kept(Submit(c, s, px)) /\ RestsAt(Submit(c, s, px), s, px)
        /\ \A t, q : t # s /\ RestsAt(c, t, q) => RestsAt(Submit(c, s, px), t, q)
    BY <2>2, SubmitKept
  <2> QED
    BY <2>1, <2>2, <2>3, <2>4, <2>5
<1> QED
  BY <1>1, <1>2

(* After a requote every side has one resting order, at its quote.         *)
LEMMA RequoteKept ==
  ASSUME NEW st, Kept(st), HasTouch(local), NEW skew \in Skews
  PROVE  /\ Kept(Requoted(st, Touch(local), skew))
         /\ Requoted(st, Touch(local), skew).prevL1 = Touch(local)
         /\ Requoted(st, Touch(local), skew).filledIds = st.filledIds
         /\ \A s \in Side : RestsAt(Requoted(st, Touch(local), skew), s, Quotes(Touch(local), skew)[s])
<1> DEFINE q == Quotes(Touch(local), skew)
           seen == [st EXCEPT !.prevL1 = Touch(local)]
           half == ReplaceSide(seen, "bid", q["bid"])
           both == ReplaceSide(half, "ask", q["ask"])
<1>1. \A s \in Side : \A id : Excused(Arrived(id, s, q[s]))
  BY QuoteArrivesExcused
<1>2. Kept(seen) /\ seen.prevL1 = Touch(local) /\ seen.filledIds = st.filledIds
  <2>1. OwnExcused(seen)
    BY DEF Kept, OwnExcused
  <2>2. /\ seen.orders = st.orders /\ seen.nextOid = st.nextOid /\ seen.live = st.live
        /\ seen.filledIds = st.filledIds /\ seen.canceled = st.canceled
        /\ seen.rejected = st.rejected /\ seen.prevL1 = Touch(local)
    BY DEF Kept, OwnExcused
  <2> HIDE DEF seen
  <2> QED
    BY <2>1, <2>2 DEF Kept
<1> HIDE DEF q, seen
<1>3. "bid" \in Side /\ "ask" \in Side /\ Side = {"bid", "ask"}
  BY DEF Side
<1>4. /\ Kept(half) /\ RestsAt(half, "bid", q["bid"]) /\ half.prevL1 = Touch(local)
      /\ half.filledIds = st.filledIds
  BY <1>1, <1>2, <1>3, ReplaceKept
<1> HIDE DEF half
<1>5. /\ Kept(both) /\ RestsAt(both, "ask", q["ask"]) /\ both.prevL1 = Touch(local)
      /\ both.filledIds = st.filledIds
      /\ RestsAt(both, "bid", q["bid"])
  BY <1>1, <1>3, <1>4, ReplaceKept
<1>6. Requoted(st, Touch(local), skew) = both
  BY DEF Requoted, both, half, seen, q
<1> HIDE DEF both
<1>7. \A s \in Side : RestsAt(both, s, q[s])
  BY <1>3, <1>5
<1> QED
  BY <1>5, <1>6, <1>7 DEF q

Those(os, mark) == {o \in os : o.status = mark}

(* The engine lists the filled orders in some order, each of them once.    *)
LEMMA FillsListed ==
  ASSUME Kept(Own), NEW fills \in ToHarvest
  PROVE  {fills[i].id : i \in DOMAIN fills} = {o.id : o \in Those(orders, "filled")}
<1> DEFINE F == Those(orders, "filled")
           D == 1..Cardinality(F)
<1>1. Own.orders = orders /\ Own.filledIds = filledIds
  BY DEF Own
<1>2. F = {o \in orders : o.status = "filled" /\ o.id \notin filledIds}
  BY <1>1 DEF Kept, Those
<1>3. fills \in [D -> F] /\ \A i, j \in D : i # j => fills[i] # fills[j]
  BY <1>2 DEF ToHarvest, SetToSeqs
<1>4. IsFiniteSet(F)
  BY <1>1, FS_Subset DEF Kept, Those
<1>5. Cardinality(F) \in Nat /\ IsFiniteSet(D) /\ Cardinality(D) = Cardinality(F)
  <2>1. Cardinality(F) \in Nat
    BY <1>4, FS_CardinalityType
  <2> QED
    BY <2>1, FS_Interval
<1> HIDE DEF F, D
<1>6. fills \in Injection(D, F)
  BY <1>3, Fun_IsInj
<1>7. fills \in Surjection(D, F)
  BY <1>4, <1>5, <1>6, FS_Injection
<1>8. \A o \in F : \E i \in D : fills[i] = o
  BY <1>7, Fun_SurjectionProperties
<1>9. DOMAIN fills = D
  BY <1>3
<1> QED
  BY <1>3, <1>8, <1>9 DEF F

(* The sizes of two disjoint sets add up.                                  *)
LEMMA DisjointUnion ==
  ASSUME NEW S, NEW T, IsFiniteSet(S), IsFiniteSet(T), S \cap T = {}
  PROVE  /\ IsFiniteSet(S \cup T) /\ Cardinality(S \cup T) = Cardinality(S) + Cardinality(T)
         /\ Cardinality(S) \in Nat /\ Cardinality(T) \in Nat
<1>1. Cardinality(S) \in Nat /\ Cardinality(T) \in Nat /\ Cardinality(S \cap T) = 0
  BY FS_CardinalityType, FS_EmptySet
<1>2. /\ IsFiniteSet(S \cup T)
      /\ Cardinality(S \cup T) = Cardinality(S) + Cardinality(T) - Cardinality(S \cap T)
  BY FS_Union
<1> QED
  BY <1>1, <1>2

(* A finite set of orders is its new, filled, canceled and expired ones.   *)
LEMMA MarksPartition ==
  ASSUME NEW os, IsFiniteSet(os), \A o \in os : o.status \in Marks
  PROVE  /\ Cardinality(os) = Cardinality(Those(os, "new")) + Cardinality(Those(os, "filled"))
                              + Cardinality(Those(os, "canceled")) + Cardinality(Those(os, "expired"))
         /\ \A m \in Marks : IsFiniteSet(Those(os, m)) /\ Cardinality(Those(os, m)) \in Nat
         /\ Cardinality({o \in os : o.status # "new"})
              = Cardinality(Those(os, "filled")) + Cardinality(Those(os, "canceled"))
                + Cardinality(Those(os, "expired"))
<1> DEFINE N == Those(os, "new")
           F == Those(os, "filled")
           C == Those(os, "canceled")
           E == Those(os, "expired")
<1>1. \A m \in Marks : IsFiniteSet(Those(os, m)) /\ Cardinality(Those(os, m)) \in Nat
  <2> SUFFICES ASSUME NEW m \in Marks
               PROVE  IsFiniteSet(Those(os, m)) /\ Cardinality(Those(os, m)) \in Nat
    OBVIOUS
  <2>1. Those(os, m) \in SUBSET os
    BY DEF Those
  <2> QED
    BY <2>1, FS_Subset, FS_CardinalityType
<1>2. /\ IsFiniteSet(N) /\ IsFiniteSet(F) /\ IsFiniteSet(C) /\ IsFiniteSet(E)
      /\ Cardinality(N) \in Nat /\ Cardinality(F) \in Nat /\ Cardinality(C) \in Nat
      /\ Cardinality(E) \in Nat
  BY <1>1 DEF Marks
<1>3. /\ F \cap C = {} /\ (F \cup C) \cap E = {} /\ N \cap ((F \cup C) \cup E) = {}
      /\ os = N \cup ((F \cup C) \cup E) /\ {o \in os : o.status # "new"} = (F \cup C) \cup E
  BY DEF Those, Marks
<1> HIDE DEF N, F, C, E
<1>4. IsFiniteSet(F \cup C) /\ Cardinality(F \cup C) = Cardinality(F) + Cardinality(C)
  BY <1>2, <1>3, DisjointUnion
<1>5. /\ IsFiniteSet((F \cup C) \cup E)
      /\ Cardinality((F \cup C) \cup E) = Cardinality(F \cup C) + Cardinality(E)
  BY <1>2, <1>3, <1>4, DisjointUnion
<1>6. Cardinality(os) = Cardinality(N) + Cardinality((F \cup C) \cup E)
  BY <1>2, <1>3, <1>5, DisjointUnion
<1>7. /\ Cardinality(os) = Cardinality(N) + Cardinality(F) + Cardinality(C) + Cardinality(E)
      /\ Cardinality({o \in os : o.status # "new"}) = Cardinality(F) + Cardinality(C) + Cardinality(E)
  <2> DEFINE n == Cardinality(N)
             f == Cardinality(F)
             c == Cardinality(C)
             e == Cardinality(E)
  <2>1. n \in Nat /\ f \in Nat /\ c \in Nat /\ e \in Nat
    BY <1>2
  <2>2. /\ Cardinality(os) = n + ((f + c) + e)
        /\ Cardinality({o \in os : o.status # "new"}) = (f + c) + e
    BY <1>3, <1>4, <1>5, <1>6
  <2> HIDE DEF n, f, c, e
  <2>3. n + ((f + c) + e) = n + f + c + e
    BY <2>1
  <2>4. /\ Cardinality(os) = n + f + c + e
        /\ Cardinality({o \in os : o.status # "new"}) = f + c + e
    BY <2>1, <2>2, <2>3
  <2> QED
    BY <2>4 DEF n, f, c, e
<1> QED
  BY <1>1, <1>7 DEF N, F, C, E

(* A harvest moves each inactive order into one counter.                   *)
LEMMA HarvestKept ==
  ASSUME Kept(Own), NEW fills \in ToHarvest
  PROVE  /\ Kept(Harvested(Own, fills))
         /\ Harvested(Own, fills).orders = Those(orders, "new")
         /\ Harvested(Own, fills).filledIds = filledIds \cup {o.id : o \in Those(orders, "filled")}
         /\ Harvested(Own, fills).prevL1 = prevL1
<1> DEFINE st == Harvested(Own, fills)
           ids == {o.id : o \in Those(orders, "filled")}
           gone == Cardinality(Those(orders, "canceled"))
           late == Cardinality(Those(orders, "expired"))
<1>1. /\ Own.orders = orders /\ Own.filledIds = filledIds /\ Own.nextOid = nextOid
      /\ Own.canceled = canceled /\ Own.rejected = rejected /\ Own.live = live
      /\ Own.prevL1 = prevL1
  BY DEF Own
<1>2. {fills[i].id : i \in DOMAIN fills} = ids
  BY FillsListed
<1>3. PICK pos : st = [Own EXCEPT !.orders = {o \in Own.orders : o.status = "new"},
                                  !.filledIds = Own.filledIds \cup {fills[i].id : i \in DOMAIN fills},
                                  !.canceled = Own.canceled + Cardinality({o \in Own.orders : o.status = "canceled"}),
                                  !.rejected = Own.rejected + Cardinality({o \in Own.orders : o.status = "expired"}),
                                  !.position = pos]
  BY Zenon DEF Harvested
<1> HIDE DEF st
<1>4. /\ st.orders = Those(orders, "new") /\ st.filledIds = filledIds \cup ids
      /\ st.canceled = canceled + gone /\ st.rejected = rejected + late
      /\ st.nextOid = nextOid /\ st.live = live /\ st.prevL1 = prevL1
      /\ st = [orders |-> st.orders, nextOid |-> st.nextOid, live |-> st.live, prevL1 |-> st.prevL1,
               filledIds |-> st.filledIds, canceled |-> st.canceled, rejected |-> st.rejected,
               position |-> st.position]
  BY <1>1, <1>2, <1>3 DEF Own, Those
<1>5. \A o \in orders : o.status \in Marks /\ Excused(o) /\ o.id \in 1..(nextOid - 1) /\ o.id \notin filledIds
  BY <1>1 DEF Kept, OwnExcused
<1>6. \A o, p \in orders : o.id = p.id => o = p
  BY <1>1 DEF Kept
<1>7. IsFiniteSet(orders) /\ IsFiniteSet(filledIds)
  BY <1>1 DEF Kept
<1> DEFINE n == Cardinality(Those(orders, "new"))
           f == Cardinality(Those(orders, "filled"))
<1>8. /\ Cardinality(orders) = n + f + gone + late
      /\ n \in Nat /\ f \in Nat /\ gone \in Nat /\ late \in Nat
      /\ IsFiniteSet(Those(orders, "new")) /\ IsFiniteSet(Those(orders, "filled"))
  BY <1>5, <1>7, MarksPartition DEF Marks
<1>9. IsFiniteSet(ids) /\ Cardinality(ids) = f
  <2> DEFINE F == [o \in Those(orders, "filled") |-> o.id]
  <2>1. \A x, y \in Those(orders, "filled") : F[x] = F[y] => x = y
    BY <1>6 DEF Those
  <2>2. {F[x] : x \in Those(orders, "filled")} = ids
    OBVIOUS
  <2> HIDE DEF F
  <2>3. /\ IsFiniteSet({F[x] : x \in Those(orders, "filled")})
        /\ Cardinality({F[x] : x \in Those(orders, "filled")}) = f
    BY <1>8, <2>1, SameSize
  <2> HIDE DEF ids, f
  <2> QED
    BY <2>2, <2>3
<1>10. filledIds \cap ids = {}
  BY <1>5 DEF Those
<1> HIDE DEF ids, n, f
<1>11. /\ IsFiniteSet(st.filledIds)
       /\ Cardinality(st.filledIds) = Cardinality(filledIds) + f /\ Cardinality(filledIds) \in Nat
  <2>1. /\ IsFiniteSet(filledIds \cup ids)
        /\ Cardinality(filledIds \cup ids) = Cardinality(filledIds) + Cardinality(ids)
        /\ Cardinality(filledIds) \in Nat
    BY <1>7, <1>9, <1>10, DisjointUnion
  <2> QED
    BY <1>4, <1>9, <2>1
<1> USE DEF ids, n, f
<1>12. /\ \A o \in st.orders : o \in orders /\ o.status = "new"
       /\ \A o \in st.orders : o.id \notin st.filledIds
  BY <1>4, <1>5, <1>6 DEF Those
<1>13. st.filledIds \subseteq 1..(st.nextOid - 1)
  BY <1>1, <1>4, <1>5 DEF Kept, Those
<1>14. st.nextOid - 1 = Cardinality(st.filledIds) + st.canceled + st.rejected + Cardinality(st.orders)
  <2> DEFINE k == Cardinality(filledIds)
             N == nextOid
             C == canceled
             R == rejected
  <2>1. /\ N - 1 = k + C + R + (n + f + gone + late)
        /\ N \in Nat /\ C \in Nat /\ R \in Nat /\ k \in Nat
    BY <1>1, <1>8, <1>11 DEF Kept
  <2>2. /\ st.nextOid = N /\ Cardinality(st.filledIds) = k + f /\ st.canceled = C + gone
        /\ st.rejected = R + late /\ Cardinality(st.orders) = n
    BY <1>4, <1>11
  <2>3. n \in Nat /\ f \in Nat /\ gone \in Nat /\ late \in Nat
    BY <1>8
  <2> HIDE DEF k, N, C, R, n, f, gone, late
  <2>4. k + C + R + (n + f + gone + late) = (k + f) + (C + gone) + (R + late) + n
    BY <2>1, <2>3
  <2> QED
    BY <2>1, <2>2, <2>4
<1>15. /\ st.canceled \in Nat /\ st.rejected \in Nat
  BY <1>1, <1>4, <1>8 DEF Kept
<1>16. OwnExcused(st)
  BY <1>4, <1>5, <1>12 DEF OwnExcused
<1>17. Known(st.orders, st.live)
  BY <1>1, <1>4, <1>12 DEF Kept, Known
<1>18. Kept(st)
  <2>1. /\ \A o \in st.orders : /\ o.id \in 1..(st.nextOid - 1) /\ o.id \notin st.filledIds
                                /\ o.side \in Side /\ o.status \in Marks
        /\ \A o, p \in st.orders : o.id = p.id => o = p
    BY <1>1, <1>4, <1>12 DEF Kept
  <2>2. /\ st.nextOid \in Nat \ {0} /\ IsFiniteSet(st.orders)
        /\ \A s \in Side : st.live[s].id \in 0..(st.nextOid - 1)
        /\ st.live = [s \in Side |-> [id |-> st.live[s].id, px |-> st.live[s].px]]
    BY <1>1, <1>4, <1>8 DEF Kept
  <2> QED
    BY <1>11, <1>13, <1>14, <1>15, <1>16, <1>17, <2>1, <2>2 DEF Kept
<1> QED
  BY <1>4, <1>18 DEF st

-----------------------------------------------------------------------------
\* The order book-keeping as an inductive invariant.

Quoted(st) == \E skew \in Skews : \A s \in Side : RestsAt(st, s, Quotes(st.prevL1, skew)[s])

FillIds(os) == {o.id : o \in Those(os, "filled")}

OrderInv ==
  /\ Kept(Own)
  /\ Quoted(Own)
  /\ {x.id : x \in executed} = filledIds \cup FillIds(orders)
  /\ ended => \A o \in orders : o.status = "new"

(* The ids executed after a step are the old ones and the filled orders'.  *)
LEMMA ExecutedIds ==
  ASSUME NEW os, executed' = Executions(os)
  PROVE  {x.id : x \in executed'} = {x.id : x \in executed} \cup FillIds(os)
<1> DEFINE X == {[id |-> o.id, side |-> o.side, px |-> o.exec] : o \in {p \in os : p.status = "filled"}}
<1>1. executed' = executed \cup X
  BY DEF Executions
<1>2. {x.id : x \in X} = FillIds(os)
  <2>1. \A x \in X : \E o \in Those(os, "filled") : x.id = o.id
    BY DEF Those
  <2>2. \A o \in Those(os, "filled") : \E x \in X : x.id = o.id
    <3> SUFFICES ASSUME NEW o \in Those(os, "filled") PROVE \E x \in X : x.id = o.id
      OBVIOUS
    <3>1. [id |-> o.id, side |-> o.side, px |-> o.exec] \in X
      BY DEF Those
    <3> QED
      BY <3>1
  <2> HIDE DEF X
  <2> QED
    BY <2>1, <2>2 DEF FillIds
<1> HIDE DEF X
<1> QED
  BY <1>1, <1>2

(* What the strategy makes of its own state at the end of a step.          *)
LEMMA OwnedInv ==
  ASSUME OrderInv, NEW st, Kept(st), OwnBecomes(st), Quoted(st),
         st.filledIds = filledIds \cup FillIds(orders),
         ended' => \A o \in st.orders : o.status = "new"
  PROVE  OrderInv'
<1>1. /\ orders' = st.orders /\ filledIds' = st.filledIds /\ executed' = Executions(st.orders)
      /\ nextOid' = st.nextOid /\ live' = st.live /\ prevL1' = st.prevL1
      /\ canceled' = st.canceled /\ rejected' = st.rejected /\ position' = st.position
      /\ UNCHANGED cross
  BY DEF OwnBecomes
<1>2. Own' = st
  BY <1>1 DEF Own, Kept, OwnExcused
<1>3. Kept(Own)'
  BY <1>2
<1>4. Quoted(Own)'
  BY <1>1, <1>2 DEF Quoted, RestsAt, Quotes
<1>5. {x.id : x \in executed'} = filledIds' \cup FillIds(orders')
  BY <1>1, ExecutedIds DEF OrderInv
<1> QED
  BY <1>1, <1>3, <1>4, <1>5 DEF OrderInv, FillIds, Those

(* What the market makes of the orders.                                    *)
LEMMA MarketInv ==
  ASSUME OrderInv, NEW F, orders' = {F[o] : o \in orders},
         \A o \in orders : F[o] \in {o, Filled(o)},
         executed' = Executions(orders'), UNCHANGED stratVars, UNCHANGED cross, ~ended'
  PROVE  OrderInv'
<1>1. /\ Own.orders = orders /\ Own.filledIds = filledIds
      /\ UNCHANGED <<nextOid, live, prevL1, filledIds, canceled, rejected, position>>
  BY DEF Own, stratVars
<1>2. \A o \in Own.orders : F[o] \in {o, Marked(o, "filled"), Marked(o, "canceled")}
  BY <1>1 DEF Marked, Filled
<1> DEFINE os == {F[o] : o \in Own.orders}
<1>3. /\ Kept(WithOrders(Own, os))
      /\ \A s, px : RestsAt(Own, s, px) => RestsAt(WithOrders(Own, os), s, px)
  BY <1>2, MarkedKept DEF OrderInv
<1>4. Own' = WithOrders(Own, os)
  BY <1>1 DEF Own, WithOrders
<1>5. Kept(Own)'
  <2>1. PICK w : w = WithOrders(Own, os)
    OBVIOUS
  <2> HIDE DEF os
  <2>2. Own' = w /\ Kept(w)
    BY <1>3, <1>4, <2>1
  <2> QED
    BY <2>2 DEF Kept, OwnExcused, Excused, Known, Marks
<1>6. Quoted(Own)'
  <2>1. WithOrders(Own, os).prevL1 = Own.prevL1
    BY DEF WithOrders, Own
  <2>2. \A s, px : RestsAt(Own, s, px) => RestsAt(Own, s, px)'
    BY <1>3, <1>4 DEF RestsAt
  <2>3. PICK skew \in Skews : \A s \in Side : RestsAt(Own, s, Quotes(Own.prevL1, skew)[s])
    BY DEF OrderInv, Quoted
  <2>4. Own'.prevL1 = Own.prevL1
    BY <1>4, <2>1
  <2> QED
    BY <2>2, <2>3, <2>4 DEF Quoted, RestsAt, Quotes
<1>7. FillIds(orders) \subseteq FillIds(orders')
  <2>1. \A o \in orders : o.status = "filled" => F[o].status = "filled" /\ F[o].id = o.id
    <3>1. \A o \in orders : Excused(o)
      BY <1>1 DEF OrderInv, Kept, OwnExcused
    <3>2. \A o \in orders : Excused(o) => Filled(o).status = "filled" /\ Filled(o).id = o.id
      BY DEF Excused, Filled
    <3> QED
      BY <3>1, <3>2
  <2> QED
    BY <2>1 DEF FillIds, Those
<1>8. {x.id : x \in executed'} = filledIds' \cup FillIds(orders')
  BY <1>1, <1>7, ExecutedIds DEF OrderInv
<1> QED
  BY <1>5, <1>6, <1>8 DEF OrderInv, FillIds, Those

(* The strategy starts with no order.                                      *)
LEMMA OrderInit == Init => OrderInv
<1> SUFFICES ASSUME Init PROVE OrderInv
  OBVIOUS
<1>1. /\ orders = {} /\ executed = {} /\ nextOid = 1 /\ live = [s \in Side |-> NoLive]
      /\ filledIds = {} /\ canceled = 0 /\ rejected = 0 /\ ended = FALSE
  BY DEF Init
<1>2. /\ Own.orders = {} /\ Own.nextOid = 1 /\ Own.live = [s \in Side |-> [id |-> 0, px |-> 0]]
      /\ Own.filledIds = {} /\ Own.canceled = 0 /\ Own.rejected = 0
  BY <1>1 DEF Own, NoLive
<1>3. OwnExcused(Own)
  BY <1>2 DEF OwnExcused, Own
<1>4. Kept(Own)
  <2>1. IsFiniteSet({}) /\ Cardinality({}) = 0
    BY FS_EmptySet
  <2> QED
    BY <1>2, <1>3, <2>1 DEF Kept, Known
<1>5. Quoted(Own)
  BY <1>2 DEF Quoted, RestsAt, Skews
<1>6. {x.id : x \in executed} = {} /\ filledIds \cup FillIds(orders) = {}
  BY <1>1 DEF FillIds, Those
<1> QED
  BY <1>1, <1>4, <1>5, <1>6 DEF OrderInv

(* Every step keeps the account of the orders.                             *)
LEMMA OrderStep ==
  ASSUME OrderInv, [Next]_vars
  PROVE  OrderInv'
<1>1. Kept(Own) /\ Own.orders = orders /\ Own.filledIds = filledIds /\ Own.prevL1 = prevL1
  BY DEF OrderInv, Own
<1>2. ASSUME NEW e, Replayed(e)
      PROVE  OrderInv'
  <2>1. /\ executed' = Executions(orders') /\ ~ended /\ ended' = ended
        /\ UNCHANGED stratVars /\ UNCHANGED cross
    BY <1>2 DEF Replayed
  <2>0. PICK met \in MayFill(orders, exch') : orders' = Matched(orders, met)
    BY <1>2 DEF Replayed
  <2> DEFINE F == [o \in orders |-> IF o \in met THEN Filled(o) ELSE o]
  <2>2. orders' = {F[o] : o \in orders}
    BY <2>0 DEF Matched
  <2>3. \A o \in orders : F[o] \in {o, Filled(o)}
    OBVIOUS
  <2> HIDE DEF F
  <2> QED
    BY <2>1, <2>2, <2>3, MarketInv
<1>3. CASE SnapshotReplayed \/ DiffReplayed
  BY <1>2, <1>3 DEF SnapshotReplayed, DiffReplayed
<1>4. CASE TradeReplayed
  <2>1. /\ executed' = Executions(orders') /\ ~ended /\ ended' = ended
        /\ UNCHANGED stratVars /\ UNCHANGED cross
    BY <1>4 DEF TradeReplayed
  <2>2. PICK taker \in Side, px \in Price, qty \in {0, 1} :
          \E atPrice \in SUBSET {o \in orders : Hit(o, taker, px) /\ o.px = px} :
            orders' = IF qty = 0 THEN orders
                      ELSE {IF Hit(o, taker, px) /\ (o.px # px \/ o \in atPrice) THEN Filled(o) ELSE o
                              : o \in orders}
    BY <1>4 DEF TradeReplayed
  <2>3. PICK atPrice \in SUBSET {o \in orders : Hit(o, taker, px) /\ o.px = px} :
          orders' = IF qty = 0 THEN orders
                    ELSE {IF Hit(o, taker, px) /\ (o.px # px \/ o \in atPrice) THEN Filled(o) ELSE o
                            : o \in orders}
    BY <2>2
  <2> DEFINE F == [o \in orders |-> IF qty # 0 /\ Hit(o, taker, px) /\ (o.px # px \/ o \in atPrice)
                                    THEN Filled(o) ELSE o]
  <2>4. orders' = {F[o] : o \in orders}
    <3>1. CASE qty = 0
      <4>1. \A o \in orders : F[o] = o
        BY <3>1
      <4> HIDE DEF F
      <4> QED
        BY <2>3, <3>1, <4>1
    <3>2. CASE qty # 0
      <4>1. orders' = {IF Hit(o, taker, px) /\ (o.px # px \/ o \in atPrice) THEN Filled(o) ELSE o : o \in orders}
        BY <2>3, <3>2
      <4>2. \A o \in orders : F[o] = IF Hit(o, taker, px) /\ (o.px # px \/ o \in atPrice) THEN Filled(o) ELSE o
        BY <3>2
      <4> HIDE DEF F
      <4> QED
        BY <4>1, <4>2
    <3> QED
      BY <3>1, <3>2
  <2>5. \A o \in orders : F[o] \in {o, Filled(o)}
    OBVIOUS
  <2> HIDE DEF F
  <2> QED
    BY <2>1, <2>4, <2>5, MarketInv
<1>5. CASE LocalSees
  BY <1>5 DEF LocalSees, OrderInv, Own, stratVars, Quoted, RestsAt, Quotes
<1>6. CASE Turn
  <2>1. PICK fills \in ToHarvest, skew \in Skews :
          LET st == Harvested(Own, fills)
          IN  IF HasTouch(local) /\ Touch(local) # prevL1
              THEN nextOid + 1 <= MaxOrders /\ OwnBecomes(Requoted(st, Touch(local), skew))
              ELSE OwnBecomes(st)
    BY <1>6 DEF Turn
  <2> DEFINE st == Harvested(Own, fills)
             quoted == Requoted(st, Touch(local), skew)
  <2>2. /\ Kept(st) /\ st.orders = Those(orders, "new")
        /\ st.filledIds = filledIds \cup FillIds(orders) /\ st.prevL1 = prevL1
    BY <1>1, HarvestKept DEF FillIds
  <2>3. ~ended'
    BY <1>6 DEF Turn
  <2> HIDE DEF st
  <2>4. CASE OwnBecomes(st)
    <3>1. Quoted(st)
      BY <1>1, <2>2 DEF OrderInv, Quoted, RestsAt, Those
    <3> QED
      BY <2>2, <2>3, <2>4, <3>1, OwnedInv
  <2>5. CASE HasTouch(local) /\ OwnBecomes(quoted)
    <3>1. /\ Kept(quoted) /\ quoted.prevL1 = Touch(local) /\ quoted.filledIds = st.filledIds
          /\ \A s \in Side : RestsAt(quoted, s, Quotes(Touch(local), skew)[s])
      BY <2>2, <2>5, RequoteKept
    <3> HIDE DEF quoted
    <3>2. Quoted(quoted)
      BY <3>1 DEF Quoted
    <3> QED
      BY <2>2, <2>3, <2>5, <3>1, <3>2, OwnedInv
  <2> QED
    BY <2>1, <2>4, <2>5 DEF st
<1>7. CASE DataEnds
  <2>1. PICK fills \in ToHarvest : OwnBecomes(Harvested(Own, fills))
    BY <1>7 DEF DataEnds
  <2> DEFINE st == Harvested(Own, fills)
  <2>2. /\ Kept(st) /\ st.orders = Those(orders, "new")
        /\ st.filledIds = filledIds \cup FillIds(orders) /\ st.prevL1 = prevL1
    BY <1>1, HarvestKept DEF FillIds
  <2> HIDE DEF st
  <2>3. Quoted(st) /\ \A o \in st.orders : o.status = "new"
    BY <1>1, <2>2 DEF OrderInv, Quoted, RestsAt, Those
  <2> QED
    BY <2>1, <2>2, <2>3, OwnedInv DEF st
<1>8. CASE UNCHANGED vars
  BY <1>8 DEF vars, OrderInv, Own, stratVars, Quoted, RestsAt, Quotes, FillIds, Those
<1> QED
  BY <1>3, <1>4, <1>5, <1>6, <1>7, <1>8 DEF Next

(* The strategy's account of its orders is exact in every state.           *)
THEOREM OrdersInvariant == Spec => []OrderInv
BY OrderInit, OrderStep, PTL DEF Spec

(* Between two turns a side never has two orders resting, and the one it   *)
(* has is the one the strategy remembers, whatever filled, expired or was  *)
(* replaced meanwhile (hft_runner.py, _replace_side and _harvest).         *)
THEOREM OneOrderRests == Spec => []OneOrderPerSide
<1>1. OrderInv => OneOrderPerSide
  BY DEF OrderInv, Kept, Known, OneOrderPerSide, Open, Own
<1> QED
  BY <1>1, OrdersInvariant, PTL

(* Each order submitted is in exactly one counter, rests, or waits for the *)
(* next harvest; what was executed is counted as filled once.              *)
LEMMA OrdersAreAccounted ==
  ASSUME OrderInv
  PROVE  OrdersAccounted
<1> DEFINE n == Cardinality(Those(orders, "new"))
           w == Cardinality({o \in orders : o.status # "new"})
           k == Cardinality(filledIds)
<1>1. /\ nextOid - 1 = k + canceled + rejected + Cardinality(orders)
      /\ IsFiniteSet(orders) /\ IsFiniteSet(filledIds) /\ \A o \in orders : o.status \in Marks
      /\ canceled \in Nat /\ rejected \in Nat
  BY DEF OrderInv, Kept, Own
<1>2. k \in Nat
  BY <1>1, FS_CardinalityType
<1>3. Cardinality(orders) = w + n /\ w \in Nat /\ n \in Nat
  <2> DEFINE f == Cardinality(Those(orders, "filled"))
             c == Cardinality(Those(orders, "canceled"))
             e == Cardinality(Those(orders, "expired"))
  <2>1. /\ Cardinality(orders) = n + f + c + e /\ w = f + c + e
        /\ \A m \in Marks : Cardinality(Those(orders, m)) \in Nat
    BY <1>1, MarksPartition
  <2>2. n \in Nat /\ f \in Nat /\ c \in Nat /\ e \in Nat
    BY <2>1 DEF Marks
  <2> HIDE DEF n, f, c, e, w
  <2> QED
    BY <2>1, <2>2
<1>4. nextOid - 1 = k + canceled + rejected + w + n
  <2> HIDE DEF k, w, n
  <2> QED
    BY <1>1, <1>2, <1>3
<1>5. ended => {o \in orders : o.status # "new"} = {} /\ filledIds = {x.id : x \in executed}
  BY DEF OrderInv, FillIds, Those
<1>6. Those(orders, "new") = {o \in orders : o.status = "new"}
  BY DEF Those
<1> QED
  BY <1>4, <1>5, <1>6 DEF OrdersAccounted

(* Both sides rest where the last touch acted on put them.                 *)
LEMMA QuotesAreCurrent ==
  ASSUME OrderInv
  PROVE  QuotesFollowTouch
BY DEF OrderInv, Quoted, QuotesFollowTouch, RestsAt, Open, Own

-----------------------------------------------------------------------------
\* Books, rows and what playing rows makes of a book.

BookType == [Side -> Levels]
RowType  == [kind : {"clear", "snapshot", "depth"}, side : Side, px : Price, qty : Nat]
Batch(rows) == rows \in Seq(RowType)

(* Setting a level changes that level only.                                *)
LEMMA LevelSet ==
  ASSUME NEW b \in BookType, NEW x, x.side \in Side, x.px \in Price, x.qty \in Nat
  PROVE  /\ SetLevel(b, x) \in BookType
         /\ \A s \in Side, p \in Price :
              SetLevel(b, x)[s][p] = IF s = x.side /\ p = x.px THEN x.qty ELSE b[s][p]
<1>1. b[x.side] \in Levels /\ b \in [Side -> Levels]
  BY DEF BookType
<1> DEFINE l == [b[x.side] EXCEPT ![x.px] = x.qty]
<1>2. l \in Levels /\ \A p \in Price : l[p] = IF p = x.px THEN x.qty ELSE b[x.side][p]
  BY <1>1 DEF Levels
<1>3. SetLevel(b, x) = [b EXCEPT ![x.side] = l]
  BY DEF SetLevel
<1> HIDE DEF l
<1> QED
  BY <1>1, <1>2, <1>3 DEF BookType

\* The clear of one side.
Wiped(b, s, px) == [p \in Price |-> IF p \in Cleared(s, px) THEN 0 ELSE b[s][p]]

(* A CLEAR row wipes its side out to its price, any other sets a level.    *)
LEMMA RowApplied ==
  ASSUME NEW b \in BookType, NEW r \in RowType
  PROVE  /\ ApplyRow(b, r) \in BookType
         /\ r.kind = "clear" =>
              \A s \in Side : ApplyRow(b, r)[s] = IF s = r.side THEN Wiped(b, s, r.px) ELSE b[s]
         /\ r.kind # "clear" => ApplyRow(b, r) = SetLevel(b, r)
<1>1. r.side \in Side /\ r.px \in Price /\ r.qty \in Nat
  BY DEF RowType
<1>2. CASE r.kind = "clear"
  <2> DEFINE l == Wiped(b, r.side, r.px)
  <2>1. ApplyRow(b, r) = [b EXCEPT ![r.side] = l]
    BY <1>2 DEF ApplyRow, Wiped
  <2>2. l \in Levels
    BY <1>1 DEF Wiped, BookType, Levels
  <2> HIDE DEF l
  <2>3. ApplyRow(b, r) \in BookType /\ \A s \in Side : ApplyRow(b, r)[s] = IF s = r.side THEN l ELSE b[s]
    BY <1>1, <2>1, <2>2 DEF BookType
  <2> QED
    BY <1>2, <2>3 DEF l
<1>3. CASE r.kind # "clear"
  BY <1>1, <1>3, LevelSet DEF ApplyRow
<1> QED
  BY <1>2, <1>3

(* The book after each row of a batch.                                     *)
LEMMA PlayLoop ==
  ASSUME NEW b \in BookType, NEW rows, Batch(rows)
  PROVE  /\ PlayTable(b, rows) \in [0..Len(rows) -> BookType]
         /\ PlayTable(b, rows)[0] = b
         /\ \A i \in 1..Len(rows) : PlayTable(b, rows)[i] = ApplyRow(PlayTable(b, rows)[i - 1], rows[i])
<1> DEFINE n == Len(rows)
           start == b
           step == [i \in 1..n |-> [c \in BookType |-> ApplyRow(c, rows[i])]]
           Is(f) == f = [i \in 0..n |-> IF i = 0 THEN b ELSE ApplyRow(f[i - 1], rows[i])]
<1>1. n \in Nat /\ \A i \in 1..n : rows[i] \in RowType
  BY DEF Batch
<1>2. step \in [1..n -> [BookType -> BookType]]
  BY <1>1, RowApplied
<1>3. PlayTable(b, rows) = CHOOSE f : Is(f)
  BY DEF PlayTable
<1>4. start \in BookType /\ \A i \in 1..n, c \in BookType : step[i][c] = ApplyRow(c, rows[i])
  OBVIOUS
<1> HIDE DEF step, n, start
<1>4a. PICK f : LoopTable(f, n, BookType, start, step)
  <2>1. n \in Nat /\ start \in BookType
    BY <1>1, <1>4
  <2> QED
    BY <1>2, <2>1, LoopFound
<1>5. /\ f = [i \in 0..n |-> f[i]] /\ f[0] = start
      /\ \A i \in 1..n : f[i] = step[i][f[i - 1]]
      /\ \A i \in 0..n : f[i] \in BookType
  BY <1>4a DEF LoopTable
<1>6. Is(f)
  <2>1. ASSUME NEW i \in 0..n
        PROVE  f[i] = IF i = 0 THEN b ELSE ApplyRow(f[i - 1], rows[i])
    BY <1>1, <1>4, <1>5 DEF start
  <2> QED
    BY <1>5, <2>1
<1>7. PICK g : g = PlayTable(b, rows) /\ Is(g)
  <2> HIDE DEF Is
  <2> QED
    BY <1>3, <1>6
<1>8. g[0] = b /\ \A i \in 1..n : g[i] = ApplyRow(g[i - 1], rows[i])
  BY <1>1, <1>7
<1>9. \A i \in 1..n : g[i - 1] \in BookType => g[i] \in BookType
  BY <1>1, <1>8, RowApplied
<1>10. \A i \in 0..n : g[i] \in BookType
  BY <1>1, <1>8, <1>9, LoopStays
<1>11. g \in [0..n -> BookType]
  BY <1>7, <1>10
<1> QED
  BY <1>7, <1>8, <1>11 DEF n

(* Playing a batch of rows on a book gives a book.                         *)
LEMMA Played ==
  ASSUME NEW b \in BookType, NEW rows, Batch(rows)
  PROVE  Play(b, rows) \in BookType
<1>1. Len(rows) \in 0..Len(rows)
  BY DEF Batch
<1> QED
  BY <1>1, PlayLoop DEF Play

\* f is the table of the books after each of the first n rows, which set
\* levels, and none of them twice.
Sets(f, rows, n) ==
  \A i \in 1..n : /\ rows[i].side \in Side /\ rows[i].px \in Price /\ rows[i].qty \in Nat
                  /\ f[i] = SetLevel(f[i - 1], rows[i])
Once(rows, n) ==
  \A i, j \in 1..n : rows[i].side = rows[j].side /\ rows[i].px = rows[j].px => i = j

\* The level of f's last book, as the rows and its first book have it.
LevelIs(f, rows, n, s, p) ==
  /\ \A i \in 1..n : rows[i].side = s /\ rows[i].px = p => f[n][s][p] = rows[i].qty
  /\ (\A i \in 1..n : ~(rows[i].side = s /\ rows[i].px = p)) => f[n][s][p] = f[0][s][p]

(* Rows that each name another level leave every level as the row that     *)
(* names it says, and the others alone.                                    *)
LEMMA LevelsSet ==
  ASSUME NEW n \in Nat, NEW f, NEW rows, f \in [0..n -> BookType], Sets(f, rows, n), Once(rows, n)
  PROVE  \A s \in Side, p \in Price : LevelIs(f, rows, n, s, p)
<1> SUFFICES ASSUME NEW s \in Side, NEW p \in Price
             PROVE  LevelIs(f, rows, n, s, p)
  OBVIOUS
<1> USE DEF Sets, Once, LevelIs
<1> DEFINE At(i) == rows[i].side = s /\ rows[i].px = p
           Q == {k \in 0..n : /\ \A i \in 1..k : At(i) => f[k][s][p] = rows[i].qty
                              /\ (\A i \in 1..k : ~At(i)) => f[k][s][p] = f[0][s][p]}
<1>1. 0 \in Q
  OBVIOUS
<1>2. ASSUME NEW k \in 1..n, k - 1 \in Q
      PROVE  k \in Q
  <2>1. k \in 0..n /\ k - 1 \in 0..n /\ \A i \in 1..k : i \in 1..(k - 1) \/ i = k
    OBVIOUS
  <2>2. f[k][s][p] = IF At(k) THEN rows[k].qty ELSE f[k - 1][s][p]
    <3>1. f[k - 1] \in BookType
      BY <2>1
    <3> QED
      BY <3>1, LevelSet
  <2>3. CASE At(k)
    <3>1. ASSUME NEW i \in 1..k, At(i) PROVE i = k
      <4>1. i \in 1..n /\ k \in 1..n
        OBVIOUS
      <4> QED
        BY <2>3, <3>1, <4>1
    <3> QED
      BY <2>1, <2>2, <2>3, <3>1
  <2>4. CASE ~At(k)
    <3>1. \A i \in 1..(k - 1) : i \in 1..k
      OBVIOUS
    <3> QED
      BY <1>2, <2>1, <2>2, <2>4, <3>1
  <2> QED
    BY <2>3, <2>4
<1>3. n \in Q
  <2> HIDE DEF Q
  <2>1. n \in 0..n
    OBVIOUS
  <2> QED
    BY <1>1, <1>2, <2>1, CountUp
<1> QED
  BY <1>3

(* A finite set as a list: each member once.                               *)
LEMMA Listed ==
  ASSUME NEW S, IsFiniteSet(S)
  PROVE  /\ SetToSeq(S) \in [1..Cardinality(S) -> S] /\ Cardinality(S) \in Nat
         /\ Len(SetToSeq(S)) = Cardinality(S) /\ SetToSeq(S) \in Seq(S)
         /\ \A i, j \in 1..Cardinality(S) : SetToSeq(S)[i] = SetToSeq(S)[j] => i = j
         /\ \A x \in S : \E i \in 1..Cardinality(S) : SetToSeq(S)[i] = x
<1> DEFINE n == Cardinality(S)
<1>1. n \in Nat /\ ExistsBijection(1..n, S)
  BY FS_CardinalityType
<1>2. PICK g : g \in Bijection(1..n, S)
  BY <1>1 DEF ExistsBijection
<1>3. g \in [1..n -> S] /\ \A i, j \in 1..n : g[i] = g[j] => i = j
  BY <1>2 DEF Bijection, Injection, IsInjective
<1>4. DOMAIN g = 1..n
  BY <1>3
<1>5. IsInjective(g)
  BY <1>3, <1>4 DEF IsInjective
<1>6. \E f \in [1..n -> S] : IsInjective(f)
  BY <1>3, <1>5
<1>7. SetToSeq(S) \in [1..n -> S] /\ IsInjective(SetToSeq(S))
  BY <1>6, Zenon DEF SetToSeq
<1> DEFINE h == SetToSeq(S)
<1> HIDE DEF n, h
<1>8. h \in [1..n -> S] /\ IsInjective(h)
  BY <1>7 DEF h
<1>9. DOMAIN h = 1..n
  BY <1>8
<1>10. \A i, j \in 1..n : h[i] = h[j] => i = j
  BY <1>8, <1>9 DEF IsInjective
<1>11. h \in Seq(S) /\ Len(h) = n
  BY <1>1, <1>8, <1>9
<1>12. h \in Surjection(1..n, S)
  <2>1. h \in Injection(1..n, S)
    BY <1>8, <1>10, Fun_IsInj
  <2>2. IsFiniteSet(1..n) /\ Cardinality(1..n) = n
    BY <1>1, FS_Interval
  <2> QED
    BY <2>1, <2>2, FS_Injection DEF n
<1>13. \A x \in S : \E i \in 1..n : h[i] = x
  BY <1>12, Zenon DEF Surjection
<1> QED
  BY <1>1, <1>8, <1>10, <1>11, <1>13 DEF n, h

(* Two lists, one after the other.                                         *)
LEMMA Joined ==
  ASSUME NEW S, NEW c \in Seq(S), NEW l \in Seq(S)
  PROVE  /\ c \o l \in Seq(S) /\ Len(c \o l) = Len(c) + Len(l) /\ Len(c) \in Nat /\ Len(l) \in Nat
         /\ \A i \in 1..Len(c) : (c \o l)[i] = c[i] /\ i \in 1..Len(c \o l)
         /\ \A i \in 1..Len(l) : (c \o l)[Len(c) + i] = l[i] /\ Len(c) + i \in 1..Len(c \o l)
         /\ \A i \in 1..Len(c \o l) : i \in 1..Len(c) \/ i - Len(c) \in 1..Len(l)
  OBVIOUS

-----------------------------------------------------------------------------
\* A resync as the engine plays it.

(* The quoted prices of a side are finitely many prices.                   *)
LEMMA PositivePrices ==
  ASSUME NEW b \in BookType, NEW s \in Side
  PROVE  /\ Positive(b[s]) \in SUBSET Price /\ IsFiniteSet(Positive(b[s]))
         /\ Cardinality(Positive(b[s])) \in Nat
         /\ \A p \in Price : b[s][p] \in Nat /\ (p \in Positive(b[s]) <=> b[s][p] > 0)
<1>1. IsFiniteSet(Price)
  BY PriceAssumption, FS_Interval DEF Price
<1>2. Positive(b[s]) \in SUBSET Price
  BY DEF Positive
<1>3. IsFiniteSet(Positive(b[s])) /\ Cardinality(Positive(b[s])) \in Nat
  BY <1>1, <1>2, FS_Subset, FS_CardinalityType
<1>4. \A p \in Price : b[s][p] \in Nat
  BY DEF BookType, Levels
<1> QED
  BY <1>2, <1>3, <1>4 DEF Positive

Reaches == [Side -> SUBSET Price]
Edge(b, s, far) == Farthest(s, Positive(b[s]) \cup far[s])

(* A side that holds something is cleared by one row, at its edge.         *)
LEMMA ClearRowIs ==
  ASSUME NEW b \in BookType, NEW far \in Reaches, NEW s \in Side
  PROVE  /\ Positive(b[s]) = {} => ClearRow(b, s, far) = << >>
         /\ Positive(b[s]) # {} =>
              /\ ClearRow(b, s, far) = <<Row("clear", s, Edge(b, s, far), 0)>>
              /\ Row("clear", s, Edge(b, s, far), 0) \in RowType
<1>1. Positive(b[s]) # {} => Edge(b, s, far) \in Price
  <2>1. Positive(b[s]) \cup far[s] \in SUBSET Price
    BY PositivePrices DEF Reaches
  <2> QED
    BY <2>1, ExtremePrices DEF Edge, Farthest
<1> QED
  BY <1>1 DEF ClearRow, Edge, Row, RowType

LevelSetOf(b, s) == {Row("snapshot", s, p, b[s][p]) : p \in Positive(b[s])}

(* The level rows of a side list its quoted levels, each once.             *)
LEMMA LevelRowsAre ==
  ASSUME NEW b \in BookType, NEW s \in Side
  PROVE  /\ LevelRows(b, s) \in Seq(RowType)
         /\ Len(LevelRows(b, s)) = Cardinality(Positive(b[s]))
         /\ \A i \in 1..Len(LevelRows(b, s)) : LevelRows(b, s)[i] \in LevelSetOf(b, s)
         /\ \A i, j \in 1..Len(LevelRows(b, s)) : LevelRows(b, s)[i] = LevelRows(b, s)[j] => i = j
         /\ \A x \in LevelSetOf(b, s) : \E i \in 1..Len(LevelRows(b, s)) : LevelRows(b, s)[i] = x
<1> DEFINE P == Positive(b[s])
           S == LevelSetOf(b, s)
           F == [p \in P |-> Row("snapshot", s, p, b[s][p])]
<1>1. P \in SUBSET Price /\ IsFiniteSet(P) /\ \A p \in P : b[s][p] \in Nat
  BY PositivePrices
<1>2. S = {F[p] : p \in P}
  BY DEF LevelSetOf
<1>3. \A p, q \in P : F[p] = F[q] => p = q
  BY DEF Row
<1>4. S \in SUBSET RowType
  BY <1>1 DEF LevelSetOf, Row, RowType
<1>5. LevelRows(b, s) = SetToSeq(S)
  BY DEF LevelRows, LevelSetOf
<1> HIDE DEF F, P, S
<1>6. IsFiniteSet(S) /\ Cardinality(S) = Cardinality(P)
  BY <1>1, <1>2, <1>3, SameSize
<1>7. SetToSeq(S) \in Seq(RowType)
  <2>1. SetToSeq(S) \in Seq(S)
    BY <1>6, Listed
  <2> QED
    BY <1>4, <2>1
<1>8. /\ Len(SetToSeq(S)) = Cardinality(S)
      /\ \A i \in 1..Cardinality(S) : SetToSeq(S)[i] \in S
      /\ \A i, j \in 1..Cardinality(S) : SetToSeq(S)[i] = SetToSeq(S)[j] => i = j
      /\ \A x \in S : \E i \in 1..Cardinality(S) : SetToSeq(S)[i] = x
  BY <1>6, Listed
<1> QED
  BY <1>5, <1>6, <1>7, <1>8 DEF S, P

(* Both sides' levels: each level of the book once.                        *)
LEMMA BookRowsAre ==
  ASSUME NEW b \in BookType
  PROVE  LET rows == LevelRows(b, "bid") \o LevelRows(b, "ask")
         IN  /\ rows \in Seq(RowType)
             /\ Len(rows) = Cardinality(Positive(b["bid"])) + Cardinality(Positive(b["ask"]))
             /\ \A i \in 1..Len(rows) :
                  \E s \in Side : \E p \in Positive(b[s]) : rows[i] = Row("snapshot", s, p, b[s][p])
             /\ \A i, j \in 1..Len(rows) : rows[i].side = rows[j].side /\ rows[i].px = rows[j].px => i = j
             /\ \A s \in Side : \A p \in Positive(b[s]) :
                  \E i \in 1..Len(rows) : rows[i] = Row("snapshot", s, p, b[s][p])
<1> DEFINE l1 == LevelRows(b, "bid")
           l2 == LevelRows(b, "ask")
           rows == l1 \o l2
<1>1. "bid" \in Side /\ "ask" \in Side /\ \A s \in Side : s = "bid" \/ s = "ask"
  BY DEF Side
<1>2. /\ l1 \in Seq(RowType) /\ Len(l1) = Cardinality(Positive(b["bid"]))
      /\ \A i \in 1..Len(l1) : l1[i] \in LevelSetOf(b, "bid")
      /\ \A i, j \in 1..Len(l1) : l1[i] = l1[j] => i = j
      /\ \A x \in LevelSetOf(b, "bid") : \E i \in 1..Len(l1) : l1[i] = x
  BY <1>1, LevelRowsAre
<1>3. /\ l2 \in Seq(RowType) /\ Len(l2) = Cardinality(Positive(b["ask"]))
      /\ \A i \in 1..Len(l2) : l2[i] \in LevelSetOf(b, "ask")
      /\ \A i, j \in 1..Len(l2) : l2[i] = l2[j] => i = j
      /\ \A x \in LevelSetOf(b, "ask") : \E i \in 1..Len(l2) : l2[i] = x
  BY <1>1, LevelRowsAre
<1> HIDE DEF l1, l2
<1>4. /\ rows \in Seq(RowType) /\ Len(rows) = Len(l1) + Len(l2) /\ Len(l1) \in Nat /\ Len(l2) \in Nat
      /\ \A i \in 1..Len(l1) : i \in 1..Len(rows) /\ rows[i] = l1[i]
      /\ \A i \in 1..Len(l2) : Len(l1) + i \in 1..Len(rows) /\ rows[Len(l1) + i] = l2[i]
      /\ \A i \in 1..Len(rows) : i \in 1..Len(l1) \/ (i - Len(l1) \in 1..Len(l2) /\ rows[i] = l2[i - Len(l1)])
  BY <1>2, <1>3, SMTT(30)
<1> HIDE DEF rows
<1>5. \A x : /\ x \in LevelSetOf(b, "bid") => \E p \in Positive(b["bid"]) : x = Row("snapshot", "bid", p, b["bid"][p])
             /\ x \in LevelSetOf(b, "ask") => \E p \in Positive(b["ask"]) : x = Row("snapshot", "ask", p, b["ask"][p])
  BY DEF LevelSetOf
<1>6. \A i \in 1..Len(rows) :
        \E s \in Side : \E p \in Positive(b[s]) : rows[i] = Row("snapshot", s, p, b[s][p])
  <2> TAKE i \in 1..Len(rows)
  <2>1. CASE i \in 1..Len(l1)
    <3>1. rows[i] \in LevelSetOf(b, "bid")
      BY <1>2, <1>4, <2>1
    <3>2. \E p \in Positive(b["bid"]) : rows[i] = Row("snapshot", "bid", p, b["bid"][p])
      BY <1>5, <3>1, Zenon
    <3> QED
      BY <1>1, <3>2, Zenon
  <2>2. CASE i - Len(l1) \in 1..Len(l2) /\ rows[i] = l2[i - Len(l1)]
    <3>1. rows[i] \in LevelSetOf(b, "ask")
      BY <1>3, <2>2
    <3>2. \E p \in Positive(b["ask"]) : rows[i] = Row("snapshot", "ask", p, b["ask"][p])
      BY <1>5, <3>1, Zenon
    <3> QED
      BY <1>1, <3>2, Zenon
  <2> QED
    BY <1>4, <2>1, <2>2
<1>7. \A s \in Side : \A p \in Positive(b[s]) :
        \E i \in 1..Len(rows) : rows[i] = Row("snapshot", s, p, b[s][p])
  <2> SUFFICES ASSUME NEW s \in Side, NEW p \in Positive(b[s])
               PROVE  \E i \in 1..Len(rows) : rows[i] = Row("snapshot", s, p, b[s][p])
    OBVIOUS
  <2> DEFINE x == Row("snapshot", s, p, b[s][p])
  <2>1. x \in LevelSetOf(b, s)
    BY DEF LevelSetOf
  <2> HIDE DEF x
  <2>2. CASE s = "bid"
    BY <1>2, <1>4, <2>1, <2>2 DEF x
  <2>3. CASE s = "ask"
    BY <1>3, <1>4, <2>1, <2>3 DEF x
  <2> QED
    BY <1>1, <2>2, <2>3
<1>8. ASSUME NEW i \in 1..Len(rows), NEW j \in 1..Len(rows),
             rows[i].side = rows[j].side, rows[i].px = rows[j].px
      PROVE  i = j
  <2>1. rows[i] = rows[j]
    <3>1. PICK s \in Side : \E p \in Positive(b[s]) : rows[i] = Row("snapshot", s, p, b[s][p])
      BY <1>6
    <3>2. PICK t \in Side : \E q \in Positive(b[t]) : rows[j] = Row("snapshot", t, q, b[t][q])
      BY <1>6
    <3> QED
      BY <1>8, <3>1, <3>2 DEF Row
  <2>2. /\ \A x \in LevelSetOf(b, "bid") : x.side = "bid"
        /\ \A x \in LevelSetOf(b, "ask") : x.side = "ask"
    BY DEF LevelSetOf, Row
  <2>3. CASE i \in 1..Len(l1) /\ j \in 1..Len(l1)
    BY <1>2, <1>4, <2>1, <2>3
  <2>4. CASE i \in 1..Len(l1) /\ j - Len(l1) \in 1..Len(l2) /\ rows[j] = l2[j - Len(l1)]
    <3>1. rows[i] \in LevelSetOf(b, "bid") /\ rows[j] \in LevelSetOf(b, "ask")
      BY <1>2, <1>3, <1>4, <2>4
    <3> QED
      BY <2>1, <2>2, <3>1
  <2>5. CASE j \in 1..Len(l1) /\ i - Len(l1) \in 1..Len(l2) /\ rows[i] = l2[i - Len(l1)]
    <3>1. rows[j] \in LevelSetOf(b, "bid") /\ rows[i] \in LevelSetOf(b, "ask")
      BY <1>2, <1>3, <1>4, <2>5
    <3> QED
      BY <2>1, <2>2, <3>1
  <2>6. CASE /\ i - Len(l1) \in 1..Len(l2) /\ rows[i] = l2[i - Len(l1)]
             /\ j - Len(l1) \in 1..Len(l2) /\ rows[j] = l2[j - Len(l1)]
    <3>1. i - Len(l1) = j - Len(l1)
      BY <1>3, <2>1, <2>6
    <3> QED
      BY <1>4, <3>1
  <2>7. /\ i \in 1..Len(l1) \/ (i - Len(l1) \in 1..Len(l2) /\ rows[i] = l2[i - Len(l1)])
        /\ j \in 1..Len(l1) \/ (j - Len(l1) \in 1..Len(l2) /\ rows[j] = l2[j - Len(l1)])
    BY <1>4
  <2> QED
    BY <2>3, <2>4, <2>5, <2>6, <2>7
<1> QED
  BY <1>2, <1>3, <1>4, <1>6, <1>7, <1>8 DEF rows, l1, l2

Clears(b, far) == ClearRow(b, "bid", far) \o ClearRow(b, "ask", far)

\* t is the table of the books after each of the first n rows.
Runs(t, rows, n) == \A i \in 1..n : t[i] = ApplyRow(t[i - 1], rows[i])
Starts(rows, c)  == \A i \in 1..Len(c) : rows[i] = c[i]

\* After n rows, all clears, the sides that b quotes are wiped out to their edge.
SidesWiped(t, rows, n, old, b, far) ==
  /\ \A i \in 1..n : rows[i].kind = "clear"
  /\ \A s \in Side : t[n][s] = IF Positive(b[s]) = {} THEN old[s]
                                ELSE Wiped(old, s, Edge(b, s, far))

(* The CLEARs that come first: each side that the snapshot does not leave  *)
(* empty is wiped out to its edge.                                         *)
LEMMA ClearsPlayed ==
  ASSUME NEW old \in BookType, NEW b \in BookType, NEW far \in Reaches, NEW t, NEW rows,
         t[0] = old, Starts(rows, Clears(b, far)), Runs(t, rows, Len(Clears(b, far)))
  PROVE  SidesWiped(t, rows, Len(Clears(b, far)), old, b, far)
<1> DEFINE c1 == ClearRow(b, "bid", far)
           c2 == ClearRow(b, "ask", far)
           r1 == Row("clear", "bid", Edge(b, "bid", far), 0)
           r2 == Row("clear", "ask", Edge(b, "ask", far), 0)
           k == Len(Clears(b, far))
<1>1. "bid" \in Side /\ "ask" \in Side /\ \A s \in Side : s = "bid" \/ s = "ask"
  BY DEF Side
<1>2. /\ Positive(b["bid"]) = {} => c1 = << >>
      /\ Positive(b["bid"]) # {} => c1 = <<r1>> /\ r1 \in RowType
      /\ Positive(b["ask"]) = {} => c2 = << >>
      /\ Positive(b["ask"]) # {} => c2 = <<r2>> /\ r2 \in RowType
  BY <1>1, ClearRowIs
<1>3. /\ r1.kind = "clear" /\ r1.side = "bid" /\ r1.px = Edge(b, "bid", far)
      /\ r2.kind = "clear" /\ r2.side = "ask" /\ r2.px = Edge(b, "ask", far)
  BY DEF Row
<1>4. /\ k = Len(c1 \o c2) /\ \A i \in 1..k : rows[i] = (c1 \o c2)[i]
      /\ \A i \in 1..k : t[i] = ApplyRow(t[i - 1], rows[i])
  BY DEF Clears, Starts, Runs
<1> SUFFICES /\ \A i \in 1..k : rows[i].kind = "clear"
             /\ \A s \in Side : t[k][s] = IF Positive(b[s]) = {} THEN old[s]
                                           ELSE Wiped(old, s, Edge(b, s, far))
  BY DEF SidesWiped
<1> HIDE DEF c1, c2, r1, r2, k
<1>5. \A o \in BookType : r1 \in RowType =>
        /\ ApplyRow(o, r1) \in BookType
        /\ ApplyRow(o, r1)["bid"] = Wiped(o, "bid", Edge(b, "bid", far))
        /\ ApplyRow(o, r1)["ask"] = o["ask"]
  BY <1>1, <1>3, RowApplied
<1>6. \A o \in BookType : r2 \in RowType =>
        /\ ApplyRow(o, r2) \in BookType
        /\ ApplyRow(o, r2)["ask"] = Wiped(o, "ask", Edge(b, "ask", far))
        /\ ApplyRow(o, r2)["bid"] = o["bid"]
  BY <1>1, <1>3, RowApplied
<1>7. CASE Positive(b["bid"]) = {} /\ Positive(b["ask"]) = {}
  <2>1. k = 0
    BY <1>2, <1>4, <1>7
  <2> QED
    BY <1>1, <1>7, <2>1
<1>8. CASE Positive(b["bid"]) # {} /\ Positive(b["ask"]) = {}
  <2>1. k = 1 /\ rows[1] = r1
    BY <1>2, <1>4, <1>8
  <2>2. t[1] = ApplyRow(old, r1)
    BY <1>4, <2>1
  <2> QED
    BY <1>1, <1>2, <1>3, <1>5, <1>8, <2>1, <2>2
<1>9. CASE Positive(b["bid"]) = {} /\ Positive(b["ask"]) # {}
  <2>1. k = 1 /\ rows[1] = r2
    BY <1>2, <1>4, <1>9
  <2>2. t[1] = ApplyRow(old, r2)
    BY <1>4, <2>1
  <2> QED
    BY <1>1, <1>2, <1>3, <1>6, <1>9, <2>1, <2>2
<1>10. CASE Positive(b["bid"]) # {} /\ Positive(b["ask"]) # {}
  <2>1. k = 2 /\ rows[1] = r1 /\ rows[2] = r2
    <3>1. c1 = <<r1>> /\ c2 = <<r2>>
      BY <1>2, <1>10
    <3>2. Len(<<r1>> \o <<r2>>) = 2 /\ (<<r1>> \o <<r2>>)[1] = r1 /\ (<<r1>> \o <<r2>>)[2] = r2
      <4> QED
        OBVIOUS
    <3> QED
      BY <1>4, <3>1, <3>2
  <2>2. t[1] = ApplyRow(old, r1) /\ t[2] = ApplyRow(t[1], r2)
    BY <1>4, <2>1
  <2>3. /\ t[1] \in BookType /\ t[1]["bid"] = Wiped(old, "bid", Edge(b, "bid", far))
        /\ t[1]["ask"] = old["ask"]
    BY <1>2, <1>5, <1>10, <2>2
  <2>4. Wiped(t[1], "ask", Edge(b, "ask", far)) = Wiped(old, "ask", Edge(b, "ask", far))
    BY <2>3 DEF Wiped
  <2>5. t[2]["bid"] = t[1]["bid"] /\ t[2]["ask"] = Wiped(t[1], "ask", Edge(b, "ask", far))
    BY <1>2, <1>6, <1>10, <2>2, <2>3
  <2>6. \A i \in 1..k : rows[i].kind = "clear"
    BY <1>2, <1>3, <1>10, <2>1
  <2> QED
    BY <1>1, <1>10, <2>1, <2>3, <2>4, <2>5, <2>6
<1> QED
  BY <1>7, <1>8, <1>9, <1>10

\* A level after a resync.
Resynced(old, b, far, s, p) ==
  IF Positive(b[s]) = {} THEN old[s][p]
  ELSE IF p \in Positive(b[s]) THEN b[s][p]
  ELSE Wiped(old, s, Edge(b, s, far))[p]

(* The rows of a resync, and the book they leave the engine with: of every *)
(* side that is not empty, the snapshot's levels and what lay beyond reach.*)
LEMMA ResyncPlayed ==
  ASSUME NEW old \in BookType, NEW b \in BookType, NEW far \in Reaches
  PROVE  /\ Batch(ResyncRows(b, far))
         /\ CountRows(ResyncRows(b, far), "snapshot")
              = Cardinality(Positive(b["bid"])) + Cardinality(Positive(b["ask"]))
         /\ \A s \in Side, p \in Price : Play(old, ResyncRows(b, far))[s][p] = Resynced(old, b, far, s, p)
<1> DEFINE c == Clears(b, far)
           l == LevelRows(b, "bid") \o LevelRows(b, "ask")
           rows == c \o l
           k == Len(c)
           m == Len(l)
           t == PlayTable(old, rows)
<1>1. ResyncRows(b, far) = rows
  BY DEF ResyncRows, Clears
<1>2. l \in Seq(RowType) /\ m = Cardinality(Positive(b["bid"])) + Cardinality(Positive(b["ask"]))
  BY BookRowsAre
<1>3. \A i \in 1..m : \E s \in Side : \E p \in Positive(b[s]) : l[i] = Row("snapshot", s, p, b[s][p])
  BY BookRowsAre
<1>4. \A i, j \in 1..m : l[i].side = l[j].side /\ l[i].px = l[j].px => i = j
  BY BookRowsAre
<1>5. \A s \in Side : \A p \in Positive(b[s]) : \E i \in 1..m : l[i] = Row("snapshot", s, p, b[s][p])
  BY BookRowsAre
<1>6. c \in Seq(RowType)
  <2>1. << >> \in Seq(RowType) /\ \A r \in RowType : <<r>> \in Seq(RowType)
    OBVIOUS
  <2>2. "bid" \in Side /\ "ask" \in Side
    BY DEF Side
  <2>3. ClearRow(b, "bid", far) \in Seq(RowType)
    BY <2>1, <2>2, ClearRowIs, Zenon
  <2>4. ClearRow(b, "ask", far) \in Seq(RowType)
    BY <2>1, <2>2, ClearRowIs, Zenon
  <2> QED
    BY <2>3, <2>4, Joined DEF Clears
<1>7. \A i \in 1..m : l[i] \in RowType /\ l[i].kind = "snapshot"
  <2> TAKE i \in 1..m
  <2>1. l[i] \in RowType
    <3> HIDE DEF l
    <3> QED
      BY <1>2
  <2>2. PICK s \in Side : \E p \in Positive(b[s]) : l[i] = Row("snapshot", s, p, b[s][p])
    BY <1>3
  <2> HIDE DEF l
  <2> QED
    BY <2>1, <2>2 DEF Row
<1> HIDE DEF c, l
<1>8. /\ rows \in Seq(RowType) /\ Len(rows) = k + m /\ k \in Nat /\ m \in Nat
      /\ \A i \in 1..k : rows[i] = c[i] /\ i \in 1..Len(rows)
      /\ \A i \in 1..m : rows[k + i] = l[i] /\ k + i \in 1..Len(rows)
      /\ \A i \in 1..Len(rows) : i \in 1..k \/ i - k \in 1..m
  BY <1>2, <1>6, Joined
<1>9. Batch(rows) /\ Starts(rows, c)
  BY <1>8 DEF Batch, Starts
<1> HIDE DEF rows
<1>10. /\ t \in [0..Len(rows) -> BookType] /\ t[0] = old /\ Runs(t, rows, Len(rows))
  BY <1>9, PlayLoop DEF Runs
<1> HIDE DEF t
<1>11. Runs(t, rows, k)
  BY <1>8, <1>10 DEF Runs
<1>12. /\ \A i \in 1..k : rows[i].kind = "clear"
       /\ \A s \in Side : t[k][s] = IF Positive(b[s]) = {} THEN old[s]
                                     ELSE Wiped(old, s, Edge(b, s, far))
  <2>1. t[0] = old /\ Starts(rows, Clears(b, far)) /\ Runs(t, rows, Len(Clears(b, far)))
    BY <1>9, <1>10, <1>11 DEF c
  <2> HIDE DEF c, k
  <2>2. SidesWiped(t, rows, Len(Clears(b, far)), old, b, far)
    BY <2>1, ClearsPlayed
  <2> QED
    BY <2>2 DEF c, k, SidesWiped
<1> HIDE DEF k, m
<1> DEFINE f == [j \in 0..m |-> t[k + j]]
<1>13. /\ f \in [0..m -> BookType] /\ f[0] = t[k] /\ f[m] = t[Len(rows)]
       /\ \A i \in 1..m : f[i] = SetLevel(f[i - 1], l[i])
  <2>1. k \in Nat /\ m \in Nat /\ Len(rows) = k + m
    BY <1>8
  <2>2. \A j \in 0..m : k + j \in 0..Len(rows) /\ f[j] = t[k + j]
    BY <2>1
  <2>3. \A j \in 0..Len(rows) : t[j] \in BookType
    BY <1>10
  <2>4. f[0] = t[k] /\ f[m] = t[Len(rows)]
    BY <2>1, <2>2
  <2>5. f \in [0..m -> BookType]
    BY <2>2, <2>3
  <2> HIDE DEF f
  <2>6. ASSUME NEW i \in 1..m
        PROVE  f[i] = SetLevel(f[i - 1], l[i])
    <3>1. /\ k + i \in 1..Len(rows) /\ (k + i) - 1 = k + (i - 1)
          /\ i \in 0..m /\ i - 1 \in 0..m
      BY <2>1
    <3>2. rows[k + i] = l[i]
      BY <1>8
    <3>3. t[k + i] = ApplyRow(t[k + (i - 1)], l[i])
      BY <1>10, <3>1, <3>2 DEF Runs
    <3>4. t[k + (i - 1)] \in BookType /\ l[i] \in RowType /\ l[i].kind # "clear"
      BY <1>7, <2>2, <2>3, <3>1 DEF m
    <3>5. ApplyRow(t[k + (i - 1)], l[i]) = SetLevel(t[k + (i - 1)], l[i])
      BY <3>4, RowApplied
    <3> QED
      BY <2>2, <3>1, <3>3, <3>5
  <2> QED
    BY <2>4, <2>5, <2>6
<1> HIDE DEF f
<1>14. \A s \in Side, p \in Price : LevelIs(f, l, m, s, p)
  <2>1. Sets(f, l, m)
    BY <1>7, <1>13 DEF RowType, m, Sets
  <2>2. Once(l, m)
    BY <1>4 DEF m, l, Once
  <2>3. m \in Nat /\ f \in [0..m -> BookType]
    BY <1>8, <1>13 DEF m
  <2> QED
    BY <2>1, <2>2, <2>3, LevelsSet
<1>15. ASSUME NEW s \in Side, NEW p \in Price
       PROVE  f[m][s][p] = Resynced(old, b, far, s, p)
  <2> USE DEF Resynced
  <2>1. CASE p \in Positive(b[s])
    <3>1. PICK i \in 1..m : l[i] = Row("snapshot", s, p, b[s][p])
      BY <1>5, <2>1 DEF m, l
    <3>2. l[i].side = s /\ l[i].px = p /\ l[i].qty = b[s][p]
      BY <3>1 DEF Row
    <3> QED
      BY <1>14, <2>1, <3>2 DEF LevelIs
  <2>2. CASE p \notin Positive(b[s])
    <3>1. \A i \in 1..m : ~(l[i].side = s /\ l[i].px = p)
      <4>1. \A i \in 1..m : \E r \in Side : \E q \in Positive(b[r]) : l[i].side = r /\ l[i].px = q
        <5> TAKE i \in 1..m
        <5>1. PICK r \in Side : \E q \in Positive(b[r]) : l[i] = Row("snapshot", r, q, b[r][q])
          BY <1>3 DEF m, l
        <5> QED
          BY <5>1 DEF Row
      <4> QED
        BY <2>2, <4>1
    <3>2. f[m][s][p] = t[k][s][p]
      BY <1>13, <1>14, <3>1 DEF LevelIs
    <3> QED
      BY <1>12, <2>2, <3>2 DEF k
  <2> QED
    BY <2>1, <2>2
<1>16. CountRows(rows, "snapshot") = m
  <2> DEFINE S == {i \in DOMAIN rows : rows[i].kind = "snapshot"}
  <2>1. DOMAIN rows = 1..Len(rows)
    BY <1>8
  <2>2. S = (k + 1)..(k + m)
    <3>1. \A i \in 1..m : rows[k + i].kind = "snapshot"
      BY <1>7, <1>8 DEF k, m
    <3>2. \A i \in 1..k : rows[i].kind # "snapshot"
      BY <1>12 DEF k
    <3>3. \A i : i \in (k + 1)..(k + m) <=> i \in 1..Len(rows) /\ i - k \in 1..m
      BY <1>8 DEF k, m
    <3>4. \A i \in 1..Len(rows) : i - k \in 1..m => rows[i].kind = "snapshot"
      <4> TAKE i \in 1..Len(rows)
      <4>1. i = k + (i - k)
        BY <1>8 DEF k
      <4> QED
        BY <3>1, <4>1
    <3>5. \A i \in 1..Len(rows) : i \in 1..k \/ i - k \in 1..m
      BY <1>8 DEF k, m
    <3> QED
      BY <2>1, <3>2, <3>3, <3>4, <3>5
  <2>3. Cardinality((k + 1)..(k + m)) = m
    <3>1. k + 1 \in Int /\ k + m \in Int
      BY <1>8 DEF k, m
    <3>2. Cardinality((k + 1)..(k + m)) = IF k + 1 > k + m THEN 0 ELSE (k + m) - (k + 1) + 1
      BY <3>1, FS_Interval
    <3> QED
      BY <1>8, <3>2 DEF k, m
  <2> QED
    BY <2>2, <2>3 DEF CountRows
<1>17. Play(old, rows) = f[m]
  BY <1>13 DEF Play, t
<1> QED
  BY <1>1, <1>2, <1>9, <1>15, <1>16, <1>17 DEF m, l

-----------------------------------------------------------------------------
\* A diff as either back end plays it, and a resync as nautilus does.

(* Two books with the same quantities everywhere are one.                  *)
LEMMA SameBook ==
  ASSUME NEW a \in BookType, NEW b \in BookType, \A s \in Side, p \in Price : a[s][p] = b[s][p]
  PROVE  a = b
<1>1. \A s \in Side : a[s] \in [Price -> Nat] /\ b[s] \in [Price -> Nat]
  BY DEF BookType, Levels
<1>2. \A s \in Side : a[s] = b[s]
  BY <1>1
<1> QED
  BY <1>2 DEF BookType

\* What a diff carries.
DiffSets == {c \in SUBSET [side : Side, px : Price, qty : Nat] :
               /\ IsFiniteSet(c)
               /\ \A x, y \in c : x.side = y.side /\ x.px = y.px => x = y}

(* The exchange's diffs are sets of changes, one to a price.               *)
LEMMA ChangesAre == Changes \subseteq DiffSets
  BY BacktestAssumption DEF DiffSets

(* A diff sets the levels it names and leaves the others.                  *)
LEMMA ChangedBook ==
  ASSUME NEW b \in BookType, NEW ch \in DiffSets
  PROVE  /\ Changed(b, ch) \in BookType
         /\ \A s \in Side, p \in Price :
              /\ \A x \in ch : x.side = s /\ x.px = p => Changed(b, ch)[s][p] = x.qty
              /\ (\A x \in ch : ~(x.side = s /\ x.px = p)) => Changed(b, ch)[s][p] = b[s][p]
<1> DEFINE V(s, p) == IF Naming(ch, s, p) = {} THEN b[s][p]
                      ELSE (CHOOSE x \in Naming(ch, s, p) : TRUE).qty
<1>1. Changed(b, ch) = [s \in Side |-> [p \in Price |-> V(s, p)]]
  BY DEF Changed
<1>2. ASSUME NEW s \in Side, NEW p \in Price
      PROVE  /\ V(s, p) \in Nat
             /\ \A x \in ch : x.side = s /\ x.px = p => V(s, p) = x.qty
             /\ (\A x \in ch : ~(x.side = s /\ x.px = p)) => V(s, p) = b[s][p]
  <2>1. b[s][p] \in Nat
    BY DEF BookType, Levels
  <2>2. \A x \in Naming(ch, s, p) : x \in ch /\ x.side = s /\ x.px = p /\ x.qty \in Nat
    BY DEF Naming, DiffSets
  <2>3. Naming(ch, s, p) # {} =>
          /\ (CHOOSE x \in Naming(ch, s, p) : TRUE) \in Naming(ch, s, p)
    OBVIOUS
  <2>4. \A x \in ch : x.side = s /\ x.px = p => x \in Naming(ch, s, p)
    BY DEF Naming
  <2>5. \A x, y \in ch : x.side = y.side /\ x.px = y.px => x = y
    BY DEF DiffSets
  <2> QED
    BY <2>1, <2>2, <2>3, <2>4, <2>5
<1> HIDE DEF V
<1> QED
  BY <1>1, <1>2 DEF BookType, Levels

\* Rows that carry a diff's changes, in any order.
Carries(rows, n, ch) ==
  /\ \A i \in 1..n : \E x \in ch : rows[i].side = x.side /\ rows[i].px = x.px /\ rows[i].qty = x.qty
  /\ \A x \in ch : \E i \in 1..n : rows[i].side = x.side /\ rows[i].px = x.px /\ rows[i].qty = x.qty

(* Rows that carry a diff make of a book what the diff makes of it.        *)
LEMMA DiffSet ==
  ASSUME NEW n \in Nat, NEW f, NEW rows, f \in [0..n -> BookType], Sets(f, rows, n), Once(rows, n),
         NEW ch \in DiffSets, Carries(rows, n, ch)
  PROVE  f[n] = Changed(f[0], ch)
<1>1. f[0] \in BookType /\ f[n] \in BookType
  OBVIOUS
<1>2. \A s \in Side, p \in Price : LevelIs(f, rows, n, s, p)
  BY LevelsSet
<1>3. ASSUME NEW s \in Side, NEW p \in Price
      PROVE  f[n][s][p] = Changed(f[0], ch)[s][p]
  <2>1. CASE \E x \in ch : x.side = s /\ x.px = p
    <3>1. PICK x \in ch : x.side = s /\ x.px = p
      BY <2>1
    <3>2. PICK i \in 1..n : rows[i].side = s /\ rows[i].px = p /\ rows[i].qty = x.qty
      BY <3>1 DEF Carries
    <3>3. f[n][s][p] = x.qty
      BY <1>2, <3>2 DEF LevelIs
    <3> QED
      BY <1>1, <3>1, <3>3, ChangedBook
  <2>2. CASE \A x \in ch : ~(x.side = s /\ x.px = p)
    <3>1. \A i \in 1..n : ~(rows[i].side = s /\ rows[i].px = p)
      BY <2>2 DEF Carries
    <3>2. f[n][s][p] = f[0][s][p]
      BY <1>2, <3>1 DEF LevelIs
    <3> QED
      BY <1>1, <2>2, <3>2, ChangedBook
  <2> QED
    BY <2>1, <2>2
<1> QED
  BY <1>1, <1>3, ChangedBook, SameBook

(* A diff's rows for the engine.                                           *)
LEMMA DiffPlayed ==
  ASSUME NEW old \in BookType, NEW ch \in DiffSets, NEW e, e.changes = ch
  PROVE  /\ Batch(DiffRows(e)) /\ Play(old, DiffRows(e)) = Changed(old, ch)
         /\ CountRows(DiffRows(e), "depth") = Cardinality(ch)
         /\ Cardinality(ch) \in Nat /\ (DiffRows(e) = << >> <=> ch = {})
<1> DEFINE F == [x \in ch |-> Row("depth", x.side, x.px, x.qty)]
           S == {F[x] : x \in ch}
           rows == SetToSeq(S)
           n == Cardinality(ch)
           t == PlayTable(old, rows)
<1>1. DiffRows(e) = rows
  <2>1. S = {Row("depth", x.side, x.px, x.qty) : x \in ch}
    OBVIOUS
  <2> HIDE DEF S
  <2> QED
    BY <2>1 DEF DiffRows
<1>2. IsFiniteSet(ch) /\ n \in Nat
  <2>1. IsFiniteSet(ch)
    BY DEF DiffSets
  <2> QED
    BY <2>1, FS_CardinalityType
<1>3. \A x \in ch : /\ F[x] \in RowType /\ F[x].side = x.side /\ F[x].px = x.px /\ F[x].qty = x.qty
                    /\ F[x].kind = "depth"
  BY DEF DiffSets, Row, RowType
<1>4. \A x, y \in ch : F[x].side = F[y].side /\ F[x].px = F[y].px => x = y
  BY <1>3 DEF DiffSets
<1> HIDE DEF F
<1>5. IsFiniteSet(S) /\ Cardinality(S) = n
  <2>1. \A x, y \in ch : F[x] = F[y] => x = y
    BY <1>4
  <2> HIDE DEF S, n
  <2> QED
    BY <1>2, <2>1, SameSize DEF S, n
<1>6. /\ rows \in [1..n -> S] /\ Len(rows) = n /\ rows \in Seq(S)
      /\ \A i, j \in 1..n : rows[i] = rows[j] => i = j
      /\ \A r \in S : \E i \in 1..n : rows[i] = r
  <2> HIDE DEF S, n
  <2> QED
    BY <1>5, Listed
<1> HIDE DEF rows, n
<1>7. \A i \in 1..n : \E x \in ch : rows[i] = F[x]
  BY <1>6
<1>8. Once(rows, n)
  <2> SUFFICES ASSUME NEW i \in 1..n, NEW j \in 1..n, rows[i].side = rows[j].side, rows[i].px = rows[j].px
               PROVE  i = j
    BY DEF Once
  <2>1. PICK x \in ch : rows[i] = F[x]
    BY <1>7
  <2>2. PICK y \in ch : rows[j] = F[y]
    BY <1>7
  <2>3. rows[i] = rows[j]
    BY <1>4, <2>1, <2>2
  <2> QED
    BY <1>6, <2>3
<1>9. Carries(rows, n, ch)
  <2>1. \A x \in ch : F[x] \in S
    OBVIOUS
  <2>2. \A x \in ch : \E i \in 1..n : rows[i] = F[x]
    BY <1>6, <2>1
  <2> QED
    BY <1>3, <1>7, <2>2 DEF Carries
<1>10. \A i \in 1..n : rows[i] \in RowType /\ rows[i].kind = "depth"
  BY <1>3, <1>7
<1>11. Batch(rows)
  <2>1. S \subseteq RowType
    BY <1>3
  <2> HIDE DEF S
  <2> QED
    BY <1>6, <2>1 DEF Batch
<1>12. /\ t \in [0..n -> BookType] /\ t[0] = old
       /\ \A i \in 1..n : t[i] = ApplyRow(t[i - 1], rows[i])
  <2>1. Len(rows) = n
    BY <1>6
  <2>2. /\ t \in [0..Len(rows) -> BookType] /\ t[0] = old
        /\ \A i \in 1..Len(rows) : t[i] = ApplyRow(t[i - 1], rows[i])
    BY <1>11, PlayLoop
  <2> HIDE DEF t, S
  <2> QED
    BY <2>1, <2>2
<1> HIDE DEF t
<1>13. Sets(t, rows, n)
  <2> SUFFICES ASSUME NEW i \in 1..n
               PROVE  /\ rows[i].side \in Side /\ rows[i].px \in Price /\ rows[i].qty \in Nat
                      /\ t[i] = SetLevel(t[i - 1], rows[i])
    BY DEF Sets
  <2>1. rows[i] \in RowType /\ rows[i].kind # "clear" /\ i - 1 \in 0..n
    BY <1>2, <1>10
  <2>2. ApplyRow(t[i - 1], rows[i]) = SetLevel(t[i - 1], rows[i])
    BY <1>12, <2>1, RowApplied
  <2> QED
    BY <1>12, <2>1, <2>2 DEF RowType
<1>14. t[n] = Changed(old, ch)
  <2>1. t[n] = Changed(t[0], ch)
    BY <1>2, <1>8, <1>9, <1>12, <1>13, DiffSet
  <2> QED
    BY <1>12, <2>1
<1>15. CountRows(rows, "depth") = n
  <2>1. {i \in DOMAIN rows : rows[i].kind = "depth"} = 1..n
    BY <1>6, <1>10
  <2>2. Cardinality(1..n) = n
    BY <1>2, FS_Interval
  <2> QED
    BY <2>1, <2>2 DEF CountRows
<1>16. rows = << >> <=> ch = {}
  <2>1. n = 0 <=> ch = {}
    BY <1>2, FS_EmptySet DEF n
  <2> HIDE DEF S
  <2>2. rows = << >> <=> n = 0
    BY <1>2, <1>6
  <2> QED
    BY <2>1, <2>2
<1>17. Play(old, rows) = t[n]
  BY <1>6 DEF Play, t
<1> QED
  BY <1>1, <1>2, <1>11, <1>14, <1>15, <1>16, <1>17 DEF n

-----------------------------------------------------------------------------
\* The nautilus ops and the book they build.

OpType == {o \in [action : {"clear", "add", "update", "delete"}, side : Side, px : Int, qty : Nat] :
             /\ o.action # "clear" => o.px \in Price
             /\ o.action = "delete" => o.qty = 0}
OpBatch(ops) == ops \in Seq(OpType)

(* The empty book is a book.                                               *)
LEMMA EmptyIsBook == EmptyBook \in BookType /\ \A s \in Side, p \in Price : EmptyBook[s][p] = 0
  BY DEF EmptyBook, BookType, Levels

(* A clear empties the book, any other op sets a level.                    *)
LEMMA OpApplied ==
  ASSUME NEW b \in BookType, NEW op \in OpType
  PROVE  /\ ApplyOp(b, op) \in BookType
         /\ op.action = "clear" => ApplyOp(b, op) = EmptyBook
         /\ op.action # "clear" =>
              /\ ApplyOp(b, op) = SetLevel(b, op)
              /\ op.side \in Side /\ op.px \in Price /\ op.qty \in Nat
<1>1. op.side \in Side /\ op.qty \in Nat /\ op.action \in {"clear", "add", "update", "delete"}
  BY DEF OpType
<1>2. CASE op.action = "clear"
  BY <1>2, EmptyIsBook DEF ApplyOp
<1>3. CASE op.action # "clear"
  <2>1. op.px \in Price
    BY <1>3 DEF OpType
  <2>2. op.action = "delete" => [op EXCEPT !.qty = 0] = op
    <3> SUFFICES ASSUME op.action = "delete" PROVE [op EXCEPT !.qty = 0] = op
      OBVIOUS
    <3>1. op \in [action : {"clear", "add", "update", "delete"}, side : Side, px : Int, qty : Nat] /\ op.qty = 0
      BY DEF OpType
    <3> QED
      BY <3>1
  <2>3. ApplyOp(b, op) = SetLevel(b, op)
    BY <1>3, <2>2 DEF ApplyOp
  <2> QED
    BY <1>1, <1>3, <2>1, <2>3, LevelSet
<1> QED
  BY <1>2, <1>3

(* The book after each op of a batch.                                      *)
LEMMA OpsLoop ==
  ASSUME NEW b \in BookType, NEW ops, OpBatch(ops)
  PROVE  /\ OpsTable(b, ops) \in [0..Len(ops) -> BookType]
         /\ OpsTable(b, ops)[0] = b
         /\ \A i \in 1..Len(ops) : OpsTable(b, ops)[i] = ApplyOp(OpsTable(b, ops)[i - 1], ops[i])
<1> DEFINE n == Len(ops)
           start == b
           step == [i \in 1..n |-> [c \in BookType |-> ApplyOp(c, ops[i])]]
           Is(f) == f = [i \in 0..n |-> IF i = 0 THEN b ELSE ApplyOp(f[i - 1], ops[i])]
<1>1. n \in Nat /\ \A i \in 1..n : ops[i] \in OpType
  BY DEF OpBatch
<1>2. step \in [1..n -> [BookType -> BookType]]
  BY <1>1, OpApplied
<1>3. OpsTable(b, ops) = CHOOSE f : Is(f)
  BY DEF OpsTable
<1>4. start \in BookType /\ \A i \in 1..n, c \in BookType : step[i][c] = ApplyOp(c, ops[i])
  OBVIOUS
<1> HIDE DEF step, n, start
<1>4a. PICK f : LoopTable(f, n, BookType, start, step)
  <2>1. n \in Nat /\ start \in BookType
    BY <1>1, <1>4
  <2> QED
    BY <1>2, <2>1, LoopFound
<1>5. /\ f = [i \in 0..n |-> f[i]] /\ f[0] = start
      /\ \A i \in 1..n : f[i] = step[i][f[i - 1]]
      /\ \A i \in 0..n : f[i] \in BookType
  BY <1>4a DEF LoopTable
<1>6. Is(f)
  <2>1. ASSUME NEW i \in 0..n
        PROVE  f[i] = IF i = 0 THEN b ELSE ApplyOp(f[i - 1], ops[i])
    BY <1>1, <1>4, <1>5 DEF start
  <2> QED
    BY <1>5, <2>1
<1>7. PICK g : g = OpsTable(b, ops) /\ Is(g)
  <2> HIDE DEF Is
  <2> QED
    BY <1>3, <1>6
<1>8. g[0] = b /\ \A i \in 1..n : g[i] = ApplyOp(g[i - 1], ops[i])
  BY <1>1, <1>7
<1>9. \A i \in 1..n : g[i - 1] \in BookType => g[i] \in BookType
  BY <1>1, <1>8, OpApplied
<1>10. \A i \in 0..n : g[i] \in BookType
  BY <1>1, <1>8, <1>9, LoopStays
<1>11. g \in [0..n -> BookType]
  BY <1>7, <1>10
<1> QED
  BY <1>7, <1>8, <1>11 DEF n

(* A diff's ops build what OrderBook builds.                               *)
DiffOp(x) == Op(IF x.qty = 0 THEN "delete" ELSE "update", x.side, x.px, x.qty)

(* The ops of a diff do what the diff does.                                *)
LEMMA DiffOpsPlayed ==
  ASSUME NEW old \in BookType, NEW ch \in DiffSets, NEW e, e.kind = "diff", e.changes = ch
  PROVE  PlayOps(old, OpsOf(e)) = Changed(old, ch)
<1> DEFINE F == [x \in ch |-> DiffOp(x)]
           S == {F[x] : x \in ch}
           ops == SetToSeq(S)
           n == Cardinality(ch)
           t == OpsTable(old, ops)
<1>1. OpsOf(e) = ops
  <2>1. S = {Op(IF x.qty = 0 THEN "delete" ELSE "update", x.side, x.px, x.qty) : x \in ch}
    BY DEF DiffOp
  <2> HIDE DEF S
  <2> QED
    BY <2>1 DEF OpsOf
<1>2. IsFiniteSet(ch) /\ n \in Nat
  <2>1. IsFiniteSet(ch)
    BY DEF DiffSets
  <2> QED
    BY <2>1, FS_CardinalityType
<1>3. \A x \in ch : /\ F[x] \in OpType /\ F[x].side = x.side /\ F[x].px = x.px /\ F[x].qty = x.qty
                    /\ F[x].action # "clear"
  BY DEF DiffSets, DiffOp, Op, OpType, Price
<1>4. \A x, y \in ch : F[x].side = F[y].side /\ F[x].px = F[y].px => x = y
  BY <1>3 DEF DiffSets
<1> HIDE DEF F
<1>5. IsFiniteSet(S) /\ Cardinality(S) = n
  <2>1. \A x, y \in ch : F[x] = F[y] => x = y
    BY <1>4
  <2> HIDE DEF S, n
  <2> QED
    BY <1>2, <2>1, SameSize DEF S, n
<1>6. /\ ops \in [1..n -> S] /\ Len(ops) = n /\ ops \in Seq(S)
      /\ \A i, j \in 1..n : ops[i] = ops[j] => i = j
      /\ \A r \in S : \E i \in 1..n : ops[i] = r
  <2> HIDE DEF S, n
  <2> QED
    BY <1>5, Listed
<1> HIDE DEF ops, n
<1>7. \A i \in 1..n : \E x \in ch : ops[i] = F[x]
  BY <1>6
<1>8. Once(ops, n)
  <2> SUFFICES ASSUME NEW i \in 1..n, NEW j \in 1..n, ops[i].side = ops[j].side, ops[i].px = ops[j].px
               PROVE  i = j
    BY DEF Once
  <2>1. PICK x \in ch : ops[i] = F[x]
    BY <1>7
  <2>2. PICK y \in ch : ops[j] = F[y]
    BY <1>7
  <2>3. ops[i] = ops[j]
    BY <1>4, <2>1, <2>2
  <2> QED
    BY <1>6, <2>3
<1>9. Carries(ops, n, ch)
  <2>1. \A x \in ch : F[x] \in S
    OBVIOUS
  <2>2. \A x \in ch : \E i \in 1..n : ops[i] = F[x]
    BY <1>6, <2>1
  <2> QED
    BY <1>3, <1>7, <2>2 DEF Carries
<1>10. \A i \in 1..n : ops[i] \in OpType /\ ops[i].action # "clear"
  BY <1>3, <1>7
<1>11. OpBatch(ops)
  <2>1. S \subseteq OpType
    BY <1>3
  <2> HIDE DEF S
  <2> QED
    BY <1>6, <2>1 DEF OpBatch
<1>12. /\ t \in [0..n -> BookType] /\ t[0] = old
       /\ \A i \in 1..n : t[i] = ApplyOp(t[i - 1], ops[i])
  <2>1. Len(ops) = n
    BY <1>6
  <2>2. /\ t \in [0..Len(ops) -> BookType] /\ t[0] = old
        /\ \A i \in 1..Len(ops) : t[i] = ApplyOp(t[i - 1], ops[i])
    BY <1>11, OpsLoop
  <2> HIDE DEF t, S
  <2> QED
    BY <2>1, <2>2
<1> HIDE DEF t
<1>13. Sets(t, ops, n)
  <2> SUFFICES ASSUME NEW i \in 1..n
               PROVE  /\ ops[i].side \in Side /\ ops[i].px \in Price /\ ops[i].qty \in Nat
                      /\ t[i] = SetLevel(t[i - 1], ops[i])
    BY DEF Sets
  <2>1. ops[i] \in OpType /\ ops[i].action # "clear" /\ i - 1 \in 0..n
    BY <1>2, <1>10
  <2>2. ApplyOp(t[i - 1], ops[i]) = SetLevel(t[i - 1], ops[i])
    BY <1>12, <2>1, OpApplied
  <2> QED
    BY <1>12, <2>1, <2>2, OpApplied
<1>14. t[n] = Changed(old, ch)
  <2>1. t[n] = Changed(t[0], ch)
    BY <1>2, <1>8, <1>9, <1>12, <1>13, DiffSet
  <2> QED
    BY <1>12, <2>1
<1>15. PlayOps(old, ops) = t[n]
  BY <1>6 DEF PlayOps, t
<1> QED
  BY <1>1, <1>14, <1>15

(* A snapshot's ops build the snapshot's book, whatever was there.         *)
AddOpsOf(b, s) == {Op("add", s, p, b[s][p]) : p \in Positive(b[s])}

\* Ops that add a book's levels, each once.
Adds(ops, n, b) ==
  /\ OpBatch(ops) /\ Len(ops) = n /\ Once(ops, n)
  /\ \A i \in 1..n : /\ ops[i] \in OpType /\ ops[i].action = "add"
                     /\ ops[i].qty = b[ops[i].side][ops[i].px]
  /\ \A s \in Side : \A p \in Positive(b[s]) :
       \E i \in 1..n : ops[i].side = s /\ ops[i].px = p

(* The add ops of a snapshot list its quoted levels, each once.            *)
LEMMA AddOpsAre ==
  ASSUME NEW b \in BookType
  PROVE  \E n \in Nat : Adds(AddOps(b), n, b)
<1> DEFINE S == UNION {AddOpsOf(b, s) : s \in Side}
           n == Cardinality(S)
<1>1. AddOps(b) = SetToSeq(S)
  BY DEF AddOps, AddOpsOf
<1>2. S = AddOpsOf(b, "bid") \cup AddOpsOf(b, "ask")
  BY DEF Side
<1>3. \A s \in Side : IsFiniteSet(AddOpsOf(b, s))
  <2> TAKE s \in Side
  <2> DEFINE F == [p \in Positive(b[s]) |-> Op("add", s, p, b[s][p])]
  <2>1. AddOpsOf(b, s) = {F[p] : p \in Positive(b[s])}
    BY DEF AddOpsOf
  <2>2. \A p, q \in Positive(b[s]) : F[p] = F[q] => p = q
    BY DEF Op
  <2>3. IsFiniteSet(Positive(b[s]))
    BY PositivePrices
  <2> HIDE DEF F
  <2> QED
    BY <2>1, <2>2, <2>3, SameSize
<1>4. IsFiniteSet(S)
  <2>1. IsFiniteSet(AddOpsOf(b, "bid")) /\ IsFiniteSet(AddOpsOf(b, "ask"))
    BY <1>3 DEF Side
  <2> HIDE DEF S
  <2> QED
    BY <1>2, <2>1, FS_Union
<1>5. \A o \in S : /\ o \in OpType /\ o.action = "add" /\ o.side \in Side /\ o.px \in Price
                   /\ o.qty = b[o.side][o.px] /\ o = Op("add", o.side, o.px, b[o.side][o.px])
  <2> SUFFICES ASSUME NEW s \in Side, NEW p \in Positive(b[s])
               PROVE  LET o == Op("add", s, p, b[s][p])
                      IN  /\ o \in OpType /\ o.action = "add" /\ o.side \in Side /\ o.px \in Price
                          /\ o.qty = b[o.side][o.px] /\ o = Op("add", o.side, o.px, b[o.side][o.px])
    BY DEF AddOpsOf
  <2>1. p \in Price /\ b[s][p] \in Nat
    BY PositivePrices
  <2> QED
    BY <2>1 DEF Op, OpType, Price
<1>6. \A s \in Side : \A p \in Positive(b[s]) : \E o \in S : o.side = s /\ o.px = p
  <2> SUFFICES ASSUME NEW s \in Side, NEW p \in Positive(b[s])
               PROVE  \E o \in S : o.side = s /\ o.px = p
    OBVIOUS
  <2>1. Op("add", s, p, b[s][p]) \in S
    BY DEF AddOpsOf
  <2>2. Op("add", s, p, b[s][p]).side = s /\ Op("add", s, p, b[s][p]).px = p
    BY DEF Op
  <2> HIDE DEF S
  <2> QED
    BY <2>1, <2>2
<1> DEFINE ops == SetToSeq(S)
<1> HIDE DEF S, n
<1>7. /\ ops \in [1..n -> S] /\ n \in Nat /\ Len(ops) = n /\ ops \in Seq(S)
      /\ \A i, j \in 1..n : ops[i] = ops[j] => i = j
      /\ \A r \in S : \E i \in 1..n : ops[i] = r
  BY <1>4, Listed DEF n
<1> HIDE DEF ops
<1>8. \A i \in 1..n : ops[i] \in S
  BY <1>7
<1>9. Once(ops, n)
  <2> SUFFICES ASSUME NEW i \in 1..n, NEW j \in 1..n, ops[i].side = ops[j].side, ops[i].px = ops[j].px
               PROVE  i = j
    BY DEF Once
  <2>1. ops[i] = ops[j]
    BY <1>5, <1>8
  <2> QED
    BY <1>7, <2>1
<1>10. OpBatch(ops)
  <2>1. S \subseteq OpType
    BY <1>5
  <2> QED
    BY <1>7, <2>1 DEF OpBatch
<1>11. \A s \in Side : \A p \in Positive(b[s]) : \E i \in 1..n : ops[i].side = s /\ ops[i].px = p
  <2> SUFFICES ASSUME NEW s \in Side, NEW p \in Positive(b[s])
               PROVE  \E i \in 1..n : ops[i].side = s /\ ops[i].px = p
    OBVIOUS
  <2>1. PICK o \in S : o.side = s /\ o.px = p
    BY <1>6
  <2>2. PICK i \in 1..n : ops[i] = o
    BY <1>7
  <2> QED
    BY <2>1, <2>2
<1>12. AddOps(b) = ops
  BY <1>1 DEF ops
<1>13. \A i \in 1..n : ops[i] \in OpType /\ ops[i].action = "add" /\ ops[i].qty = b[ops[i].side][ops[i].px]
  BY <1>5, <1>8
<1>14. Adds(ops, n, b)
  BY <1>7, <1>9, <1>10, <1>11, <1>13 DEF Adds
<1> QED
  BY <1>7, <1>12, <1>14

(* The ops of a snapshot make its book of any book.                        *)
LEMMA SnapshotOpsPlayed ==
  ASSUME NEW old \in BookType, NEW b \in BookType, NEW e, e.kind = "snapshot", e.book = b
  PROVE  PlayOps(old, OpsOf(e)) = b
<1> DEFINE clear == <<Op("clear", "bid", 0, 0)>>
           adds == AddOps(b)
           ops == clear \o adds
           t == OpsTable(old, ops)
<1>0. PICK n \in Nat : Adds(adds, n, b)
  BY AddOpsAre
<1>1.   /\ OpBatch(adds) /\ Len(adds) = n /\ Once(adds, n)
        /\ \A i \in 1..n : /\ adds[i] \in OpType /\ adds[i].action = "add"
                           /\ adds[i].qty = b[adds[i].side][adds[i].px]
        /\ \A s \in Side : \A p \in Positive(b[s]) :
             \E i \in 1..n : adds[i].side = s /\ adds[i].px = p
  BY <1>0 DEF Adds
<1>2. OpsOf(e) = ops
  BY DEF OpsOf
<1> HIDE DEF adds
<1>3. /\ OpBatch(ops) /\ Len(ops) = n + 1 /\ ops[1] = Op("clear", "bid", 0, 0)
      /\ \A i \in 1..n : ops[i + 1] = adds[i]
  <2>1. adds \in Seq(OpType) /\ Len(adds) = n
    BY <1>1 DEF OpBatch
  <2>2. Op("clear", "bid", 0, 0) \in OpType /\ clear \in Seq(OpType) /\ Len(clear) = 1
        /\ clear[1] = Op("clear", "bid", 0, 0)
    BY DEF Op, OpType, Side
  <2>3. /\ ops \in Seq(OpType) /\ Len(ops) = 1 + n
        /\ \A i \in 1..1 : ops[i] = clear[i]
        /\ \A i \in 1..n : ops[1 + i] = adds[i]
    <3> HIDE DEF clear
    <3>1. /\ ops \in Seq(OpType) /\ Len(ops) = Len(clear) + Len(adds)
          /\ \A i \in 1..Len(clear) : ops[i] = clear[i]
          /\ \A i \in 1..Len(adds) : ops[Len(clear) + i] = adds[i]
      <4>1. clear \in Seq(OpType) /\ adds \in Seq(OpType)
        BY <2>1, <2>2
      <4>2. ops \in Seq(OpType) /\ Len(ops) = Len(clear) + Len(adds)
        BY <4>1
      <4>3. \A i \in 1..Len(clear) : ops[i] = clear[i]
        BY <4>1
      <4>4. \A i \in 1..Len(adds) : ops[Len(clear) + i] = adds[i]
        BY <4>1
      <4> QED
        BY <4>2, <4>3, <4>4
    <3> HIDE DEF ops
    <3> QED
      BY <2>1, <2>2, <3>1
  <2> HIDE DEF ops, clear
  <2>4. \A i \in 1..n : i + 1 = 1 + i
    OBVIOUS
  <2> QED
    BY <2>2, <2>3, <2>4 DEF OpBatch
<1> HIDE DEF ops
<1>4. /\ t \in [0..(n + 1) -> BookType] /\ t[0] = old
      /\ \A i \in 1..(n + 1) : t[i] = ApplyOp(t[i - 1], ops[i])
  <2>1. Len(ops) = n + 1
    BY <1>3
  <2>2. /\ t \in [0..Len(ops) -> BookType] /\ t[0] = old
        /\ \A i \in 1..Len(ops) : t[i] = ApplyOp(t[i - 1], ops[i])
    BY <1>3, OpsLoop
  <2> HIDE DEF t
  <2> QED
    BY <2>1, <2>2
<1> HIDE DEF t
<1>5. t[1] = EmptyBook
  <2>1. ops[1].action = "clear" /\ ops[1] \in OpType /\ t[0] \in BookType
    <3>1. ops[1] \in OpType
      BY <1>3 DEF Op, OpType, Side
    <3> QED
      BY <1>3, <1>4, <3>1 DEF Op
  <2>2. t[1] = ApplyOp(t[0], ops[1])
    BY <1>4
  <2> QED
    BY <2>1, <2>2, OpApplied
<1> DEFINE f == [i \in 0..n |-> t[i + 1]]
<1>6. f \in [0..n -> BookType] /\ f[0] = EmptyBook /\ f[n] = t[n + 1]
  BY <1>4, <1>5
<1>7. Sets(f, adds, n)
  <2> SUFFICES ASSUME NEW i \in 1..n
               PROVE  /\ adds[i].side \in Side /\ adds[i].px \in Price /\ adds[i].qty \in Nat
                      /\ f[i] = SetLevel(f[i - 1], adds[i])
    BY DEF Sets
  <2>1. i + 1 \in 1..(n + 1) /\ (i + 1) - 1 = i /\ i \in 0..n /\ i - 1 \in 0..n /\ (i - 1) + 1 = i
    OBVIOUS
  <2>2. f[i] = t[i + 1] /\ f[i - 1] = t[i] /\ t[i] \in BookType
    BY <1>4, <2>1
  <2>3. t[i + 1] = ApplyOp(t[i], adds[i])
    BY <1>3, <1>4, <2>1
  <2>4. adds[i] \in OpType /\ adds[i].action # "clear"
    BY <1>1
  <2> HIDE DEF f
  <2> QED
    BY <2>2, <2>3, <2>4, OpApplied
<1> HIDE DEF f
<1>8. \A s \in Side, p \in Price : LevelIs(f, adds, n, s, p)
  BY <1>1, <1>6, <1>7, LevelsSet
<1>9. ASSUME NEW s \in Side, NEW p \in Price
      PROVE  f[n][s][p] = b[s][p]
  <2>1. CASE p \in Positive(b[s])
    <3>1. PICK i \in 1..n : adds[i].side = s /\ adds[i].px = p
      BY <1>1, <2>1
    <3>2. adds[i].qty = b[s][p]
      BY <1>1, <3>1
    <3> QED
      BY <1>8, <3>1, <3>2 DEF LevelIs
  <2>2. CASE p \notin Positive(b[s])
    <3>1. b[s][p] = 0
      BY <2>2, PositivePrices
    <3>2. CASE \E i \in 1..n : adds[i].side = s /\ adds[i].px = p
      <4>1. PICK i \in 1..n : adds[i].side = s /\ adds[i].px = p
        BY <3>2
      <4>2. adds[i].qty = b[s][p]
        BY <1>1, <4>1
      <4> QED
        BY <1>8, <4>1, <4>2 DEF LevelIs
    <3>3. CASE \A i \in 1..n : ~(adds[i].side = s /\ adds[i].px = p)
      <4>1. f[n][s][p] = f[0][s][p]
        BY <1>8, <3>3 DEF LevelIs
      <4> QED
        BY <1>6, <3>1, <4>1, EmptyIsBook
    <3> QED
      BY <3>2, <3>3
  <2> QED
    BY <2>1, <2>2
<1>10. f[n] = b
  <2>1. f[n] \in BookType
    BY <1>6
  <2> QED
    BY <1>9, <2>1, SameBook
<1>11. PlayOps(old, ops) = t[n + 1]
  BY <1>3 DEF PlayOps, t
<1> QED
  BY <1>2, <1>6, <1>10, <1>11

-----------------------------------------------------------------------------
\* The books of the two engines beside the capture's.

Wires(w) == w \in Seq(Seq(RowType)) /\ Len(w) <= Window

AtMostOne(S) == S = {} \/ \E r \in Price : S = {r}

\* The deepest price seen is at least as deep as every level there is.
Covers(far, b) ==
  \A s \in Side : \A p \in Positive(b[s]) : \E r \in far[s] : p \in Cleared(s, r)

\* Two sides with the same levels, save those left in the first one only.
Apart(eng, old, left) ==
  \A p \in Price : IF p \in left THEN eng[p] > 0 /\ old[p] = 0 ELSE eng[p] = old[p]

BookInv ==
  /\ replay \in BookType /\ nautilus = replay /\ exch \in BookType /\ local \in BookType
  /\ events \in 1..MaxEvents /\ trades \in 0..MaxTrades /\ Wires(wire)
  /\ reach \in Reaches /\ \A s \in Side : AtMostOne(reach[s])
  /\ Covers(reach, replay)
  /\ ledger = Ledger
  /\ stale \in Reaches /\ \A s \in Side : Apart(exch[s], replay[s], stale[s])

(* A CLEAR out to the farthest of some prices reaches every one of them.   *)
LEMMA FarthestClears ==
  ASSUME NEW s \in Side, NEW S \in SUBSET Price, S # {}
  PROVE  /\ Farthest(s, S) \in Price
         /\ \A x \in S : x \in Cleared(s, Farthest(s, S))
         /\ \A x \in S : \A p \in Cleared(s, x) : p \in Cleared(s, Farthest(s, S))
<1>1. Min(S) \in S /\ Max(S) \in S /\ \A x \in S : Min(S) <= x /\ x <= Max(S)
  BY ExtremePrices
<1>2. \A x \in S : x \in Int /\ x \in Price
  BY DEF Price
<1>3. \A p \in Price : p \in Int
  BY DEF Price
<1>4. CASE s = "bid"
  BY <1>1, <1>2, <1>3, <1>4 DEF Farthest, Cleared
<1>5. CASE s # "bid"
  BY <1>1, <1>2, <1>3, <1>5 DEF Farthest, Cleared
<1> QED
  BY <1>4, <1>5

\* What an event may be here.
SnapshotOf(e, b) == b \in BookType /\ e.kind = "snapshot" /\ e.book = b
DiffOf(e, ch)    == ch \in DiffSets /\ e.kind = "diff" /\ e.changes = ch

(* The reach after an event covers the book after it.                      *)
LEMMA ReachGrows ==
  ASSUME NEW far \in Reaches, NEW seen \in Reaches
  PROVE  /\ ExtendReach(far, seen) \in Reaches
         /\ \A s \in Side : AtMostOne(ExtendReach(far, seen)[s])
         /\ \A s \in Side : \A p \in seen[s] : \E r \in ExtendReach(far, seen)[s] : p \in Cleared(s, r)
         /\ \A s \in Side : \A x \in far[s] : \A p \in Cleared(s, x) :
              \E r \in ExtendReach(far, seen)[s] : p \in Cleared(s, r)
<1> DEFINE ext == ExtendReach(far, seen)
<1>1. ASSUME NEW s \in Side
      PROVE  /\ ext[s] = IF far[s] \cup seen[s] = {} THEN {} ELSE {Farthest(s, far[s] \cup seen[s])}
             /\ far[s] \cup seen[s] \in SUBSET Price
  BY DEF ExtendReach, Reaches
<1>2. ASSUME NEW s \in Side, far[s] \cup seen[s] # {}
      PROVE  /\ Farthest(s, far[s] \cup seen[s]) \in Price
             /\ \A x \in far[s] \cup seen[s] : x \in Cleared(s, Farthest(s, far[s] \cup seen[s]))
             /\ \A x \in far[s] \cup seen[s] : \A p \in Cleared(s, x) :
                  p \in Cleared(s, Farthest(s, far[s] \cup seen[s]))
  <2> DEFINE S == far[s] \cup seen[s]
  <2>1. S \in SUBSET Price /\ S # {}
    BY <1>1, <1>2
  <2> HIDE DEF S
  <2>2. /\ Farthest(s, S) \in Price
        /\ \A x \in S : x \in Cleared(s, Farthest(s, S))
        /\ \A x \in S : \A p \in Cleared(s, x) : p \in Cleared(s, Farthest(s, S))
    BY <2>1, FarthestClears
  <2> QED
    BY <2>2 DEF S
<1>3. ASSUME NEW s \in Side
      PROVE  ext[s] \in SUBSET Price /\ AtMostOne(ext[s])
  BY <1>1, <1>2 DEF AtMostOne
<1>4. ext \in Reaches
  <2>1. ext = [s \in Side |-> ext[s]]
    BY DEF ExtendReach
  <2> HIDE DEF ext
  <2> QED
    BY <1>3, <2>1 DEF Reaches
<1>5. ASSUME NEW s \in Side, NEW p \in seen[s]
      PROVE  \E r \in ext[s] : p \in Cleared(s, r)
  BY <1>1, <1>2
<1>6. ASSUME NEW s \in Side, NEW x \in far[s], NEW p \in Cleared(s, x)
      PROVE  \E r \in ext[s] : p \in Cleared(s, r)
  BY <1>1, <1>2
<1> HIDE DEF ext
<1>7. /\ ext \in Reaches
      /\ \A s \in Side : AtMostOne(ext[s])
      /\ \A s \in Side : \A p \in seen[s] : \E r \in ext[s] : p \in Cleared(s, r)
      /\ \A s \in Side : \A x \in far[s] : \A p \in Cleared(s, x) : \E r \in ext[s] : p \in Cleared(s, r)
  BY <1>3, <1>4, <1>5, <1>6
<1> QED
  BY <1>7 DEF ext

(* Nothing seen is a reach.                                                *)
LEMMA NoReachIs == NoReach \in Reaches
  BY DEF NoReach, Reaches

(* After a snapshot the reach covers the snapshot's book.                  *)
LEMMA SnapshotReach ==
  ASSUME NEW far, NEW e, NEW b, SnapshotOf(e, b)
  PROVE  /\ ReachAfter(far, e) \in Reaches /\ Covers(ReachAfter(far, e), b)
         /\ \A s \in Side : AtMostOne(ReachAfter(far, e)[s])
<1> DEFINE seen == [s \in Side |-> Touched(e, s)]
<1>1. b \in BookType /\ \A s \in Side : Touched(e, s) = Positive(b[s])
  BY DEF SnapshotOf, Touched
<1>2. seen \in Reaches /\ \A s \in Side : seen[s] = Positive(b[s])
  BY <1>1, PositivePrices DEF Reaches
<1>3. ReachAfter(far, e) = ExtendReach(NoReach, seen)
  BY DEF ReachAfter, SnapshotOf
<1> HIDE DEF seen
<1> QED
  BY <1>2, <1>3, NoReachIs, ReachGrows DEF Covers

(* After a diff the reach covers the book the diff makes.                  *)
LEMMA DiffReach ==
  ASSUME NEW far \in Reaches, NEW old \in BookType, Covers(far, old), NEW e, NEW ch, DiffOf(e, ch)
  PROVE  /\ ReachAfter(far, e) \in Reaches /\ Covers(ReachAfter(far, e), Changed(old, ch))
         /\ \A s \in Side : AtMostOne(ReachAfter(far, e)[s])
<1> DEFINE seen == [s \in Side |-> Touched(e, s)]
           new == Changed(old, ch)
<1>1. ch \in DiffSets /\ \A s \in Side : Touched(e, s) = {x.px : x \in {y \in ch : y.side = s /\ y.qty > 0}}
  BY DEF DiffOf, Touched
<1>2. seen \in Reaches
  <2>1. \A s \in Side : Touched(e, s) \in SUBSET Price
    BY <1>1 DEF DiffSets
  <2> QED
    BY <2>1 DEF Reaches
<1>3. \A s \in Side : \A x \in ch : x.side = s /\ x.qty > 0 => x.px \in seen[s]
  BY <1>1
<1>4. ReachAfter(far, e) = ExtendReach(far, seen)
  BY DEF ReachAfter, DiffOf
<1> HIDE DEF seen
<1>5. ASSUME NEW s \in Side, NEW p \in Positive(new[s])
      PROVE  \E r \in ExtendReach(far, seen)[s] : p \in Cleared(s, r)
  <2>1. new \in BookType /\ p \in Price /\ new[s][p] > 0
    <3>1. new \in BookType
      BY <1>1, ChangedBook
    <3> HIDE DEF new
    <3> QED
      BY <3>1, PositivePrices
  <2>2. CASE \E x \in ch : x.side = s /\ x.px = p
    <3>1. PICK x \in ch : x.side = s /\ x.px = p
      BY <2>2
    <3>2. x.qty > 0
      BY <1>1, <2>1, <3>1, ChangedBook
    <3>3. p \in seen[s]
      BY <1>3, <3>1, <3>2
    <3> QED
      BY <1>2, <3>3, ReachGrows
  <2>3. CASE \A x \in ch : ~(x.side = s /\ x.px = p)
    <3>1. new[s][p] = old[s][p]
      BY <1>1, <2>1, <2>3, ChangedBook
    <3>2. p \in Positive(old[s])
      BY <2>1, <3>1, PositivePrices
    <3>3. PICK r \in far[s] : p \in Cleared(s, r)
      BY <3>2 DEF Covers
    <3> QED
      BY <1>2, <3>3, ReachGrows
  <2> QED
    BY <2>2, <2>3
<1> HIDE DEF new
<1>6. Covers(ExtendReach(far, seen), new)
  BY <1>5 DEF Covers
<1> QED
  BY <1>2, <1>4, <1>6, ReachGrows DEF new

\* The levels a resync leaves in a side: all of an empty snapshot side, and
\* those beyond the CLEAR of any other.
LeftBy(left, old, b, far, s) ==
  IF Positive(b[s]) = {} THEN left \cup Positive(old[s]) ELSE left \ Cleared(s, Edge(b, s, far))

(* What a resync leaves in the engine is the snapshot's book and the       *)
(* levels its CLEAR did not reach.                                         *)
LEMMA SnapshotPlays ==
  ASSUME NEW eng \in BookType, NEW old \in BookType, NEW far \in Reaches, Covers(far, old),
         NEW e, NEW b, SnapshotOf(e, b), NEW s \in Side, NEW left \in SUBSET Price,
         Apart(eng[s], old[s], left)
  PROVE  Apart(Play(eng, RowsOf(e, far))[s], b[s], LeftBy(left, old, b, far, s))
<1> DEFINE rows == ResyncRows(b, far)
           new == Play(eng, rows)
           stay == LeftBy(left, old, b, far, s)
<1>1. b \in BookType /\ RowsOf(e, far) = rows
  BY DEF SnapshotOf, RowsOf
<1>2. \A p \in Price : new[s][p] = Resynced(eng, b, far, s, p)
  BY <1>1, ResyncPlayed
<1> HIDE DEF new, stay
<1>3. ASSUME NEW p \in Price
      PROVE  IF p \in stay THEN new[s][p] > 0 /\ b[s][p] = 0 ELSE new[s][p] = b[s][p]
  <2>1. /\ b[s][p] \in Nat /\ eng[s][p] \in Nat /\ old[s][p] \in Nat
        /\ p \in Positive(b[s]) <=> b[s][p] > 0
        /\ p \in Positive(old[s]) <=> old[s][p] > 0
    BY <1>1, PositivePrices
  <2>2. IF p \in left THEN eng[s][p] > 0 /\ old[s][p] = 0 ELSE eng[s][p] = old[s][p]
    BY DEF Apart
  <2>3. CASE Positive(b[s]) = {}
    <3>1. new[s][p] = eng[s][p] /\ b[s][p] = 0
      BY <1>2, <2>1, <2>3 DEF Resynced
    <3>2. p \in stay <=> p \in left \/ p \in Positive(old[s])
      BY <2>3 DEF stay, LeftBy
    <3> QED
      BY <2>1, <2>2, <3>1, <3>2
  <2>4. CASE Positive(b[s]) # {}
    <3> DEFINE S == Positive(b[s]) \cup far[s]
               edge == Edge(b, s, far)
    <3>1. S \in SUBSET Price /\ S # {}
      BY <1>1, <2>4, PositivePrices DEF Reaches
    <3>2. edge = Farthest(s, S)
      BY DEF Edge
    <3>3. p \in stay <=> p \in left /\ p \notin Cleared(s, edge)
      BY <2>4 DEF stay, LeftBy
    <3>4. new[s][p] = IF p \in Positive(b[s]) THEN b[s][p]
                      ELSE IF p \in Cleared(s, edge) THEN 0 ELSE eng[s][p]
      BY <1>2, <2>4 DEF Resynced, Wiped
    <3>5. p \in Positive(b[s]) => p \in Cleared(s, edge)
      <4> HIDE DEF edge
      <4>1. p \in Positive(b[s]) => p \in S
        OBVIOUS
      <4> HIDE DEF S
      <4> QED
        BY <3>1, <3>2, <4>1, FarthestClears
    <3>6. p \in Positive(old[s]) => p \in Cleared(s, edge)
      <4> SUFFICES ASSUME p \in Positive(old[s]) PROVE p \in Cleared(s, edge)
        OBVIOUS
      <4>1. PICK r \in far[s] : p \in Cleared(s, r)
        BY DEF Covers
      <4>2. r \in S
        OBVIOUS
      <4> HIDE DEF S, edge
      <4> QED
        BY <3>1, <3>2, <4>1, <4>2, FarthestClears
    <3> HIDE DEF S, edge
    <3>7. CASE p \in Cleared(s, edge)
      BY <2>1, <3>3, <3>4, <3>7
    <3>8. CASE p \notin Cleared(s, edge)
      BY <2>1, <2>2, <3>3, <3>4, <3>5, <3>6, <3>8
    <3> QED
      BY <3>7, <3>8
  <2> QED
    BY <2>3, <2>4
<1> QED
  BY <1>1, <1>3 DEF Apart, new, stay

(* A diff keeps two sides as far apart as they were, but for the levels it *)
(* names, which it makes the same.                                         *)
LEMMA DiffKeepsSides ==
  ASSUME NEW eng \in BookType, NEW old \in BookType, NEW ch \in DiffSets, NEW s \in Side,
         NEW left \in SUBSET Price, Apart(eng[s], old[s], left), NEW stay,
         stay = left \ {x.px : x \in {y \in ch : y.side = s}}
  PROVE  Apart(Changed(eng, ch)[s], Changed(old, ch)[s], stay)
<1>1. ASSUME NEW p \in Price
      PROVE  IF p \in stay THEN Changed(eng, ch)[s][p] > 0 /\ Changed(old, ch)[s][p] = 0
             ELSE Changed(eng, ch)[s][p] = Changed(old, ch)[s][p]
  <2>1. CASE \E x \in ch : x.side = s /\ x.px = p
    <3>1. p \notin stay
      BY <2>1
    <3>2. Changed(eng, ch)[s][p] = Changed(old, ch)[s][p]
      BY <2>1, ChangedBook
    <3> QED
      BY <3>1, <3>2
  <2>2. CASE \A x \in ch : ~(x.side = s /\ x.px = p)
    <3>1. Changed(eng, ch)[s][p] = eng[s][p] /\ Changed(old, ch)[s][p] = old[s][p]
      BY <2>2, ChangedBook
    <3>2. p \in stay <=> p \in left
      BY <2>2
    <3> QED
      BY <3>1, <3>2 DEF Apart
  <2> QED
    BY <2>1, <2>2
<1> QED
  BY <1>1 DEF Apart

\* An event, its rows and the books it makes, as Replayed states them.
Plays(e, rows) ==
  /\ Batch(rows)
  /\ Booked(Ledger, e, rows) = Ledger
  /\ \A old \in BookType : /\ ReplayEvent(old, e) \in BookType /\ PlayOps(old, OpsOf(e)) = ReplayEvent(old, e)

(* The rows of an event make what the event says of every book that the    *)
(* reach covers.                                                           *)
LEMMA EventPlays ==
  ASSUME NEW far \in Reaches, NEW e, NEW z, SnapshotOf(e, z) \/ DiffOf(e, z)
  PROVE  Plays(e, RowsOf(e, far))
<1>1. CASE SnapshotOf(e, z)
  <2> DEFINE rows == ResyncRows(z, far)
             nb == Cardinality(Positive(z["bid"]))
             na == Cardinality(Positive(z["ask"]))
  <2>1. z \in BookType /\ e.kind = "snapshot" /\ e.book = z /\ RowsOf(e, far) = rows
    BY <1>1 DEF SnapshotOf, RowsOf
  <2>2. Batch(rows) /\ CountRows(rows, "snapshot") = nb + na
    BY <2>1, ResyncPlayed
  <2>3. nb \in Nat /\ na \in Nat
    BY <2>1, PositivePrices DEF Side
  <2> HIDE DEF rows
  <2>4. Booked(Ledger, e, rows) = [Ledger EXCEPT !.levels = @ + nb + na - CountRows(rows, "snapshot")]
    BY <2>1 DEF Booked
  <2> HIDE DEF nb, na
  <2>5. Ledger.levels + nb + na - CountRows(rows, "snapshot") = 0
    BY <2>2, <2>3 DEF Ledger
  <2>6. Booked(Ledger, e, rows) = Ledger
    BY <2>4, <2>5 DEF Ledger
  <2>7. \A old \in BookType : /\ ReplayEvent(old, e) \in BookType /\ PlayOps(old, OpsOf(e)) = ReplayEvent(old, e)
    BY <2>1, SnapshotOpsPlayed DEF ReplayEvent
  <2> QED
    BY <2>1, <2>2, <2>6, <2>7 DEF Plays
<1>2. CASE DiffOf(e, z)
  <2> DEFINE rows == DiffRows(e)
             n == Cardinality(z)
  <2>1. z \in DiffSets /\ e.kind = "diff" /\ e.changes = z /\ RowsOf(e, far) = rows
    BY <1>2 DEF DiffOf, RowsOf
  <2>2. Batch(rows) /\ CountRows(rows, "depth") = n /\ n \in Nat /\ (rows = << >> <=> z = {})
    <3>1. EmptyBook \in BookType
      BY EmptyIsBook
    <3> QED
      BY <2>1, <3>1, DiffPlayed
  <2> HIDE DEF rows
  <2>3. Booked(Ledger, e, rows)
          = [Ledger EXCEPT !.diffs = @ + 1 - (IF z = {} THEN 1 ELSE 0) - (IF rows # << >> THEN 1 ELSE 0),
                           !.changes = @ + n - CountRows(rows, "depth")]
    BY <2>1 DEF Booked
  <2> HIDE DEF n
  <2>4. /\ Ledger.diffs + 1 - (IF z = {} THEN 1 ELSE 0) - (IF rows # << >> THEN 1 ELSE 0) = 0
        /\ Ledger.changes + n - CountRows(rows, "depth") = 0
    BY <2>2 DEF Ledger
  <2>5. Booked(Ledger, e, rows) = Ledger
    BY <2>3, <2>4 DEF Ledger
  <2>6. \A old \in BookType : /\ ReplayEvent(old, e) \in BookType /\ PlayOps(old, OpsOf(e)) = ReplayEvent(old, e)
    BY <2>1, DiffOpsPlayed, ChangedBook DEF ReplayEvent
  <2> QED
    BY <2>1, <2>2, <2>5, <2>6 DEF Plays
<1> QED
  BY <1>1, <1>2

-----------------------------------------------------------------------------

(* The books the exchange may hold are books.                              *)
LEMMA BooksAre == Books \subseteq BookType
  BY BacktestAssumption DEF BookType

(* Both engines start with the capture's book.                             *)
LEMMA BookInit == Init => BookInv
<1> SUFFICES ASSUME Init PROVE BookInv
  OBVIOUS
<1>1. replay \in BookType /\ nautilus = replay /\ exch = replay /\ local = replay
  BY BooksAre DEF Init
<1>2. events \in 1..MaxEvents /\ trades \in 0..MaxTrades
  BY BacktestAssumption DEF Init
<1>3. Wires(wire)
  <2>1. wire = << >>
    BY DEF Init
  <2>2. Len(<< >>) = 0 /\ << >> \in Seq(Seq(RowType))
    OBVIOUS
  <2> QED
    BY <2>1, <2>2, BacktestAssumption DEF Wires
<1>4. SnapshotOf(FirstSnapshot(replay), replay)
  BY <1>1 DEF SnapshotOf, FirstSnapshot
<1>5. reach \in Reaches /\ Covers(reach, replay) /\ \A s \in Side : AtMostOne(reach[s])
  <2>1. reach = ReachAfter(NoReach, FirstSnapshot(replay))
    BY DEF Init
  <2> QED
    BY <1>4, <2>1, SnapshotReach
<1>6. ledger = Ledger /\ stale \in Reaches /\ \A s \in Side : Apart(exch[s], replay[s], stale[s])
  BY <1>1 DEF Init, Reaches, Apart
<1> QED
  BY <1>1, <1>2, <1>3, <1>5, <1>6 DEF BookInv

(* A batch joins the wire, or the view takes the oldest one.               *)
LEMMA WireGrows ==
  ASSUME NEW w, Wires(w), Len(w) < Window, NEW rows, Batch(rows)
  PROVE  Wires(Append(w, rows))
<1>1. w \in Seq(Seq(RowType)) /\ rows \in Seq(RowType) /\ Len(w) \in Nat /\ Window \in Nat
  BY BacktestAssumption DEF Wires, Batch
<1>2. Append(w, rows) \in Seq(Seq(RowType)) /\ Len(Append(w, rows)) = Len(w) + 1
  BY <1>1
<1> QED
  BY <1>1, <1>2 DEF Wires

(* A batch taken off the wire leaves a wire.                               *)
LEMMA WireShrinks ==
  ASSUME NEW w, Wires(w), w # << >>
  PROVE  Wires(Tail(w)) /\ Batch(Head(w))
<1>1. w \in Seq(Seq(RowType)) /\ Len(w) \in Nat /\ Len(w) <= Window /\ Window \in Nat
  BY BacktestAssumption DEF Wires
<1>2. Tail(w) \in Seq(Seq(RowType)) /\ Len(Tail(w)) = Len(w) - 1 /\ Head(w) \in Seq(RowType)
  BY <1>1
<1> QED
  BY <1>1, <1>2 DEF Wires, Batch

(* An event is replayed alike by the capture and by both engines.          *)
LEMMA EventKeepsBooks ==
  ASSUME BookInv, NEW e, NEW z, SnapshotOf(e, z) \/ DiffOf(e, z), Replayed(e)
  PROVE  BookInv'
<1> DEFINE rows == RowsOf(e, reach)
<1>1. reach \in Reaches /\ replay \in BookType /\ exch \in BookType
  BY DEF BookInv
<1>2. Plays(e, rows)
  BY <1>1, EventPlays
<1>3. replay' \in BookType /\ nautilus' = replay'
  <2>1. replay' = ReplayEvent(replay, e) /\ nautilus' = PlayOps(nautilus, OpsOf(e)) /\ nautilus = replay
    BY DEF Replayed, BookInv
  <2> QED
    BY <1>1, <1>2, <2>1 DEF Plays
<1>4. ledger' = Ledger
  <2>1. ledger' = Booked(ledger, e, rows) /\ ledger = Ledger
    BY DEF Replayed, BookInv
  <2> QED
    BY <1>2, <2>1 DEF Plays
<1>5. exch' = Play(exch, rows) /\ exch' \in BookType /\ Batch(rows)
  <2>1. exch' = Play(exch, rows)
    BY DEF Replayed
  <2>2. Batch(rows)
    BY <1>2 DEF Plays
  <2> QED
    BY <1>1, <2>1, <2>2, Played
<1>6. Wires(wire')
  <2>1. wire' = wire \/ wire' = Append(wire, rows)
    BY DEF Replayed
  <2>2. Wires(wire) /\ Len(wire) < Window
    BY DEF Replayed, BookInv
  <2> HIDE DEF rows
  <2> QED
    BY <1>5, <2>1, <2>2, WireGrows
<1>7. events' \in 1..MaxEvents /\ trades' = trades /\ local' = local
  BY BacktestAssumption DEF Replayed, BookInv
<1>8. reach' \in Reaches /\ Covers(reach', replay') /\ \A s \in Side : AtMostOne(reach'[s])
  <2>1. reach' = ReachAfter(reach, e) /\ replay' = ReplayEvent(replay, e) /\ Covers(reach, replay)
    BY DEF Replayed, BookInv
  <2>2. CASE SnapshotOf(e, z)
    <3>1. replay' = z
      BY <2>1, <2>2 DEF SnapshotOf, ReplayEvent
    <3> QED
      BY <2>1, <2>2, <3>1, SnapshotReach
  <2>3. CASE DiffOf(e, z)
    <3>1. replay' = Changed(replay, z)
      BY <2>1, <2>3 DEF DiffOf, ReplayEvent
    <3> QED
      BY <1>1, <2>1, <2>3, <3>1, DiffReach
  <2> QED
    BY <2>2, <2>3
<1>9. stale \in Reaches /\ stale' = StaleAfter(e) /\ stale' \in Reaches
  <2>1. stale \in Reaches /\ stale' = StaleAfter(e)
    BY DEF BookInv, Replayed
  <2>2. ASSUME NEW s \in Side
        PROVE  StaleAfter(e)[s] \in SUBSET Price
    <3>1. stale[s] \in SUBSET Price /\ Positive(replay[s]) \in SUBSET Price
      BY <1>1, <2>1, PositivePrices DEF Reaches
    <3> QED
      BY <3>1 DEF StaleAfter
  <2>3. StaleAfter(e) \in Reaches
    <3>1. StaleAfter(e) = [s \in Side |-> StaleAfter(e)[s]]
      BY DEF StaleAfter
    <3> QED
      BY <2>2, <3>1 DEF Reaches
  <2> QED
    BY <2>1, <2>3
<1>10. ASSUME NEW s \in Side
       PROVE  Apart(exch'[s], replay'[s], stale'[s])
  <2>1. /\ Apart(exch[s], replay[s], stale[s]) /\ stale[s] \in SUBSET Price
        /\ replay' = ReplayEvent(replay, e) /\ Covers(reach, replay)
    BY <1>9 DEF BookInv, Replayed, Reaches
  <2>2. CASE SnapshotOf(e, z)
    <3>1. replay' = z /\ z \in BookType /\ e.kind = "snapshot" /\ e.book = z
      BY <2>1, <2>2 DEF SnapshotOf, ReplayEvent
    <3>2. Apart(Play(exch, rows)[s], z[s], LeftBy(stale[s], replay, z, reach, s))
      BY <1>1, <2>1, <2>2, SnapshotPlays
    <3>3. stale'[s] = LeftBy(stale[s], replay, z, reach, s)
      BY <1>9, <3>1 DEF StaleAfter, LeftBy, Edge
    <3> QED
      BY <1>5, <3>1, <3>2, <3>3
  <2>3. CASE DiffOf(e, z)
    <3>1. replay' = Changed(replay, z) /\ rows = DiffRows(e) /\ z \in DiffSets /\ e.changes = z /\ e.kind = "diff"
      BY <2>1, <2>3 DEF DiffOf, ReplayEvent, RowsOf
    <3>2. exch' = Changed(exch, z)
      BY <1>1, <1>5, <3>1, DiffPlayed
    <3>3. stale'[s] = stale[s] \ {x.px : x \in {y \in z : y.side = s}}
      BY <1>9, <3>1 DEF StaleAfter
    <3> QED
      BY <1>1, <2>1, <3>1, <3>2, <3>3, DiffKeepsSides
  <2> QED
    BY <2>2, <2>3
<1>11. stale' \in Reaches /\ \A s \in Side : Apart(exch'[s], replay'[s], stale'[s])
  BY <1>9, <1>10
<1>12. local \in BookType /\ trades \in 0..MaxTrades
  BY DEF BookInv
<1> HIDE DEF rows
<1> QED
  BY <1>3, <1>4, <1>5, <1>6, <1>7, <1>8, <1>11, <1>12 DEF BookInv

(* Every step keeps the engines' books beside the capture's.               *)
LEMMA BookStep == BookInv /\ [Next]_vars => BookInv'
<1> SUFFICES ASSUME BookInv, [Next]_vars PROVE BookInv'
  OBVIOUS
<1>1. ASSUME NEW b \in Books, Replayed([kind |-> "snapshot", book |-> b])
      PROVE  BookInv'
  <2>1. SnapshotOf([kind |-> "snapshot", book |-> b], b)
    BY BooksAre DEF SnapshotOf
  <2> QED
    BY <1>1, <2>1, EventKeepsBooks
<1>2. ASSUME NEW c \in Changes, Replayed([kind |-> "diff", changes |-> c])
      PROVE  BookInv'
  <2>1. DiffOf([kind |-> "diff", changes |-> c], c)
    BY ChangesAre DEF DiffOf
  <2> QED
    BY <1>2, <2>1, EventKeepsBooks
<1>3. CASE TradeReplayed
  <2>1. trades' \in 0..MaxTrades
    BY <1>3, BacktestAssumption DEF TradeReplayed, BookInv
  <2>2. UNCHANGED <<events, reach, ledger, replay, nautilus, exch, stale, wire, local>>
    BY <1>3 DEF TradeReplayed
  <2> QED
    BY <2>1, <2>2 DEF BookInv
<1>4. CASE LocalSees
  <2>1. local' = Play(local, Head(wire)) /\ wire' = Tail(wire) /\ wire # << >>
        /\ UNCHANGED <<events, trades, reach, ledger, replay, nautilus, exch, stale>>
    BY <1>4 DEF LocalSees, tapeVars
  <2>2. Wires(wire') /\ local' \in BookType
    <3>1. Wires(wire) /\ local \in BookType
      BY DEF BookInv
    <3> QED
      BY <2>1, <3>1, WireShrinks, Played
  <2> QED
    BY <2>1, <2>2 DEF BookInv
<1>5. CASE UNCHANGED <<tapeVars, exch, wire, local>>
  BY <1>5 DEF BookInv, tapeVars
<1>6. Turn => UNCHANGED <<tapeVars, exch, wire, local>>
  BY DEF Turn, OwnBecomes
<1>7. DataEnds => UNCHANGED <<tapeVars, exch, wire, local>>
  BY DEF DataEnds, OwnBecomes
<1>8. UNCHANGED vars => UNCHANGED <<tapeVars, exch, wire, local>>
  BY DEF vars
<1> QED
  BY <1>1, <1>2, <1>3, <1>4, <1>5, <1>6, <1>7, <1>8 DEF Next, SnapshotReplayed, DiffReplayed

(* The engines' books stay accounted for in every state.                   *)
THEOREM BooksInvariant == Spec => []BookInv
BY BookInit, BookStep, PTL DEF Spec

(* hftbacktest holds the capture's book and, besides, exactly the levels a *)
(* resync left behind; nautilus holds the capture's book, and every event  *)
(* is counted (hft_adapter.py, the CLEAR rows of a resync;                 *)
(* nautilus_factory.py).                                                   *)
THEOREM EnginesReplay == Spec => []EnginesReplayCapture
<1>1. BookInv => EnginesReplayCapture
  <2> SUFFICES ASSUME BookInv PROVE EnginesReplayCapture
    OBVIOUS
  <2>1. EngineIsReplay /\ NautilusIsReplay
    BY DEF BookInv, Apart, EngineIsReplay, NautilusIsReplay
  <2>2. ConservationHolds
    BY DEF BookInv, ConservationHolds, ConservationGap, Ledger
  <2> QED
    BY <2>1, <2>2 DEF EnginesReplayCapture
<1> QED
  BY <1>1, BooksInvariant, PTL

-----------------------------------------------------------------------------
\* Sums.

\* g is f, with v more at k.
GrownBy(f, g, k, v, n) == g[k] = f[k] + v /\ \A i \in 1..n : i # k => g[i] = f[i]

(* One entry more: the sum grows by what that entry grew.                  *)
LEMMA SumChanges ==
  ASSUME NEW n \in Nat, NEW f \in [1..n -> Int], NEW g \in [1..n -> Int],
         NEW k \in 1..n, NEW v \in Int, GrownBy(f, g, k, v, n)
  PROVE  Total(g) = Total(f) + v
<1> DEFINE s == TotalTable(f)
           t == TotalTable(g)
           Q == {i \in 0..n : t[i] = s[i] + (IF i >= k THEN v ELSE 0)}
<1>1. /\ s \in [0..n -> Int] /\ s[0] = 0 /\ Total(f) = s[n]
      /\ \A i \in 1..n : s[i] = s[i - 1] + f[i]
  BY SumLoop
<1>2. /\ t \in [0..n -> Int] /\ t[0] = 0 /\ Total(g) = t[n]
      /\ \A i \in 1..n : t[i] = t[i - 1] + g[i]
  BY SumLoop
<1> HIDE DEF s, t
<1>3. 0 \in Q
  BY <1>1, <1>2
<1>4. ASSUME NEW i \in 1..n, i - 1 \in Q
      PROVE  i \in Q
  <2>0. i \in 0..n /\ i - 1 \in 0..n
    OBVIOUS
  <2>1. s[i - 1] \in Int /\ f[i] \in Int /\ g[i] \in Int
    BY <1>1, <2>0
  <2>2. t[i] = t[i - 1] + g[i] /\ s[i] = s[i - 1] + f[i]
    BY <1>1, <1>2
  <2>3. t[i - 1] = s[i - 1] + (IF i - 1 >= k THEN v ELSE 0)
    BY <1>4
  <2>4. g[i] = f[i] + (IF i = k THEN v ELSE 0)
    BY <2>1 DEF GrownBy
  <2> QED
    BY <2>0, <2>1, <2>2, <2>3, <2>4, SMTT(30)
<1>5. n \in Q
  <2>1. n \in 0..n
    OBVIOUS
  <2> HIDE DEF Q
  <2> QED
    BY <1>3, <1>4, <2>1, CountUp
<1> QED
  BY <1>1, <1>2, <1>5

\* g is f with zeros at the end.
Padded(f, m, g, n) ==
  /\ m \in Nat /\ n \in Nat /\ m <= n
  /\ f \in [1..m -> Int] /\ g \in [1..n -> Int]
  /\ \A i \in 1..n : g[i] = IF i <= m THEN f[i] ELSE 0

(* Zeros at the end add nothing.                                           *)
LEMMA SumExtends ==
  ASSUME NEW f, NEW m, NEW g, NEW n, Padded(f, m, g, n)
  PROVE  Total(g) = Total(f)
<1> USE DEF Padded
<1> DEFINE s == TotalTable(f)
           t == TotalTable(g)
           Q == {i \in 0..n : t[i] = IF i <= m THEN s[i] ELSE s[m]}
<1>1. /\ s \in [0..m -> Int] /\ s[0] = 0 /\ Total(f) = s[m]
      /\ \A i \in 1..m : s[i] = s[i - 1] + f[i]
  BY SumLoop
<1>2. /\ t \in [0..n -> Int] /\ t[0] = 0 /\ Total(g) = t[n]
      /\ \A i \in 1..n : t[i] = t[i - 1] + g[i]
  BY SumLoop
<1> HIDE DEF s, t
<1>3. 0 \in Q
  BY <1>1, <1>2
<1>4. ASSUME NEW i \in 1..n, i - 1 \in Q
      PROVE  i \in Q
  <2>1. t[i] = t[i - 1] + g[i] /\ t[i - 1] \in Int /\ i - 1 \in 0..n
    BY <1>2
  <2>2. t[i - 1] = IF i - 1 <= m THEN s[i - 1] ELSE s[m]
    BY <1>4
  <2>3. CASE i <= m
    <3>1. i \in 1..m /\ g[i] = f[i] /\ s[i] = s[i - 1] + f[i]
      BY <1>1, <2>3
    <3> QED
      BY <2>1, <2>2, <2>3, <3>1
  <2>4. CASE i > m
    <3>1. g[i] = 0
      BY <2>4
    <3>2. t[i - 1] = s[m]
      BY <2>2, <2>4
    <3> QED
      BY <2>1, <2>4, <3>1, <3>2
  <2> QED
    BY <2>3, <2>4
<1>5. n \in Q
  <2>1. n \in 0..n
    OBVIOUS
  <2> HIDE DEF Q
  <2> QED
    BY <1>3, <1>4, <2>1, CountUp
<1>6. t[n] = s[m]
  BY <1>5
<1> QED
  BY <1>1, <1>2, <1>6

-----------------------------------------------------------------------------
Fraction == [n : Int, d : Int \ {0}]
PositionType == [qty : Int, avg : Fraction, realized : Fraction]

(* A product of two numbers that are not zero is not zero.                 *)
LEMMA NotZero == \A a, b \in Int \ {0} : a * b \in Int \ {0}
  OBVIOUS

(* A fill keeps the position's denominators from zero.                     *)
LEMMA FillType ==
  ASSUME NEW p \in PositionType, NEW g \in Int \ {0}, NEW px \in Int
  PROVE  ApplyFill(p, g, px) \in PositionType
<1>1. /\ p.qty \in Int /\ p.avg \in Fraction /\ p.realized \in Fraction
      /\ p = [qty |-> p.qty, avg |-> p.avg, realized |-> p.realized]
  BY DEF PositionType
<1>2. p.avg.n \in Int /\ p.avg.d \in Int \ {0} /\ p.realized.n \in Int /\ p.realized.d \in Int \ {0}
  BY <1>1 DEF Fraction
<1>3. Size(g) \in Int /\ Size(p.qty) \in Int /\ p.qty + g \in Int
  BY <1>1 DEF Size
<1>4. CASE p.qty = 0 \/ (p.qty > 0 <=> g > 0)
  <2> DEFINE avg == [n |-> p.avg.n * Size(p.qty) + px * Size(g) * p.avg.d, d |-> p.avg.d * Size(p.qty + g)]
  <2>1. Size(p.qty + g) \in Int \ {0}
    BY <1>1, <1>4 DEF Size
  <2>2. avg.d \in Int \ {0} /\ avg.n \in Int
    BY <1>2, <1>3, <2>1, NotZero
  <2>3. ApplyFill(p, g, px) = [qty |-> p.qty + g, avg |-> avg, realized |-> p.realized]
    BY <1>1, <1>4 DEF ApplyFill
  <2>4. avg \in Fraction
    BY <2>2 DEF Fraction
  <2> HIDE DEF avg
  <2> QED
    BY <1>1, <1>3, <2>3, <2>4 DEF PositionType
<1>5. CASE ~(p.qty = 0 \/ (p.qty > 0 <=> g > 0))
  <2> DEFINE closed == Lower(Size(g), Size(p.qty))
             r == Realize(p, closed, px)
             avg == CASE Size(g) > Size(p.qty) -> [n |-> px, d |-> 1]
                      [] p.qty + g = 0 -> [n |-> 0, d |-> 1]
                      [] OTHER -> p.avg
  <2>1. closed \in Int
    BY <1>3 DEF Lower
  <2>2. ApplyFill(p, g, px) = [qty |-> p.qty + g, avg |-> avg, realized |-> r]
    BY <1>1, <1>5 DEF ApplyFill
  <2>3. avg \in Fraction
    BY <1>1 DEF Fraction
  <2> HIDE DEF closed, avg
  <2>4. r \in Fraction
    <3>1. p.realized.d * p.avg.d \in Int \ {0}
      BY <1>2, NotZero
    <3>2. \A sign \in {1, -1} :
            p.realized.n * p.avg.d + closed * sign * (px * p.avg.d - p.avg.n) * p.realized.d \in Int
      BY <1>2, <2>1
    <3> QED
      BY <3>1, <3>2 DEF Realize, Fraction
  <2> HIDE DEF r
  <2> QED
    BY <1>3, <2>2, <2>3, <2>4 DEF PositionType
<1> QED
  BY <1>4, <1>5

(* A fill keeps the accounts, whatever its size: it opens or adds to a     *)
(* position, closes some or all of it, or closes it and opens the other    *)
(* side.                                                                   *)
LEMMA FillAccounts ==
  ASSUME NEW p \in PositionType, NEW g \in Int \ {0}, NEW px \in Int, NEW c \in Int, NEW q \in Int,
         Accounts(p, c, q)
  PROVE  /\ ApplyFill(p, g, px) \in PositionType
         /\ Accounts(ApplyFill(p, g, px), c + (-g) * px, q + g)
<1> DEFINE rn == p.realized.n
           rd == p.realized.d
           an == p.avg.n
           ad == p.avg.d
           new == ApplyFill(p, g, px)
<1>1. /\ rn \in Int /\ rd \in Int \ {0} /\ an \in Int /\ ad \in Int \ {0} /\ p.qty = q
      /\ p.realized = [n |-> rn, d |-> rd] /\ p.avg = [n |-> an, d |-> ad]
      /\ p = [qty |-> q, avg |-> p.avg, realized |-> p.realized]
  BY DEF PositionType, Fraction, Accounts
<1>2. rn * ad = c * rd * ad + q * an * rd
  BY <1>1 DEF Accounts
<1>3. new \in PositionType
  BY FillType
<1>4. CASE q = 0 \/ (q > 0 <=> g > 0)
  <2> DEFINE z == Size(q)
             k == Size(g)
             w == Size(q + g)
  <2>1. new = [qty |-> q + g, avg |-> [n |-> an * z + px * k * ad, d |-> ad * w],
               realized |-> [n |-> rn, d |-> rd]]
    BY <1>1, <1>4 DEF ApplyFill
  <2>2. PICK sg \in {1, -1} : q = sg * z /\ g = sg * k /\ w = z + k /\ q + g = sg * w
    <3>1. CASE g > 0
      BY <1>4, <3>1 DEF Size
    <3>2. CASE ~(g > 0)
      BY <1>4, <3>2 DEF Size
    <3> QED
      BY <3>1, <3>2
  <2>3. z \in Int /\ k \in Int /\ w \in Int
    BY DEF Size
  <2> HIDE DEF new, rn, rd, an, ad, z, k, w
  <2>4. rn * (ad * w) = (c + (-g) * px) * rd * (ad * w) + (q + g) * (an * z + px * k * ad) * rd
    <3>1. rn \in Int /\ rd \in Int /\ an \in Int /\ ad \in Int
      BY <1>1
    <3>2. rn * (ad * w) = (c * rd * ad) * w + (q * an * rd) * w
      BY <1>2, <2>3, <3>1
    <3>3. (c + (-g) * px) * rd * (ad * w) = (c * rd * ad) * w - g * (px * rd * ad) * w
      BY <2>3, <3>1
    <3>4. (q + g) * (an * z + px * k * ad) * rd = (q + g) * z * (an * rd) + (q + g) * k * (px * rd * ad)
      BY <2>3, <3>1
    <3>5. (q + g) * z = q * w /\ (q + g) * k = g * w
      BY <2>2, <2>3
    <3>6. (q + g) * z * (an * rd) = (q * an * rd) * w /\ (q + g) * k * (px * rd * ad) = g * (px * rd * ad) * w
      BY <2>3, <3>1, <3>5
    <3> DEFINE A == (c * rd * ad) * w
               B == (q * an * rd) * w
               D == g * (px * rd * ad) * w
    <3>7. A \in Int /\ B \in Int /\ D \in Int
      BY <2>3, <3>1
    <3>8. /\ rn * (ad * w) = A + B
          /\ (c + (-g) * px) * rd * (ad * w) = A - D
          /\ (q + g) * (an * z + px * k * ad) * rd = B + D
      BY <3>2, <3>3, <3>4, <3>6
    <3> HIDE DEF A, B, D
    <3> QED
      BY <3>7, <3>8
  <2> QED
    BY <1>3, <2>1, <2>4 DEF Accounts, new
<1>5. CASE ~(q = 0 \/ (q > 0 <=> g > 0))
  <2> DEFINE closed == Lower(Size(g), Size(q))
             sign == IF q > 0 THEN 1 ELSE -1
             m == closed * sign
             r == rn * ad + m * (px * ad - an) * rd
             e == rd * ad
             avg == CASE Size(g) > Size(q) -> [n |-> px, d |-> 1]
                      [] q + g = 0 -> [n |-> 0, d |-> 1]
                      [] OTHER -> [n |-> an, d |-> ad]
  <2>1. new = [qty |-> q + g, avg |-> avg, realized |-> [n |-> r, d |-> e]]
    <3>1. new = [qty |-> q + g, avg |-> avg, realized |-> Realize(p, closed, px)]
      <4>1. ~(p.qty = 0 \/ (p.qty > 0 <=> g > 0))
        BY <1>1, <1>5
      <4> HIDE DEF rn, rd, an, ad
      <4> QED
        BY <1>1, <4>1 DEF ApplyFill
    <3>2. Realize(p, closed, px) = [n |-> r, d |-> e]
      BY <1>1 DEF Realize
    <3> QED
      BY <3>1, <3>2
  <2>2. /\ Size(g) > Size(q) => m = q
        /\ ~(Size(g) > Size(q)) => m = -g
    BY <1>5 DEF Lower, Size
  <2>3. m \in Int
    BY DEF Lower, Size
  <2> HIDE DEF new, rn, rd, an, ad, m
  <2>4. rn \in Int /\ rd \in Int /\ an \in Int /\ ad \in Int
    BY <1>1
  <2>5. r = c * e + q * an * rd + m * px * e - m * an * rd
    BY <1>2, <2>3, <2>4 DEF r, e
  <2>6. r \in Int /\ e \in Int /\ e = rd * ad
    BY <2>3, <2>4
  <2> HIDE DEF r, e
  <2>7. r * avg.d = (c + (-g) * px) * e * avg.d + (q + g) * avg.n * e
    <3>1. CASE Size(g) > Size(q)
      <4>0. avg = [n |-> px, d |-> 1]
        <5>1. q + g # 0
          BY <3>1 DEF Size
        <5> QED
          BY <3>1, <5>1
      <4>1. avg.d = 1 /\ avg.n = px /\ m = q
        <5>1. m = q
          BY <2>2, <3>1
        <5> HIDE DEF avg
        <5> QED
          BY <4>0, <5>1
      <4>2. r = c * e + q * px * e
        BY <2>3, <2>4, <2>5, <2>6, <4>1
      <4>3. (c + (-g) * px) * e * 1 + (q + g) * px * e = c * e + q * px * e
        BY <2>6
      <4> HIDE DEF avg
      <4> QED
        BY <2>6, <4>1, <4>2, <4>3
    <3>2. CASE ~(Size(g) > Size(q)) /\ q + g = 0
      <4>1. avg.d = 1 /\ avg.n = 0 /\ m = q
        BY <2>2, <3>2
      <4>2. r = c * e + q * px * e
        BY <2>3, <2>4, <2>5, <2>6, <4>1
      <4>3. (c + (-g) * px) * e * 1 + (q + g) * 0 * e = c * e + q * px * e
        <5>1. -g = q /\ q + g = 0
          BY <3>2
        <5>2. (c + (-g) * px) * e * 1 = (c + q * px) * e
          BY <2>6, <5>1
        <5>3. (q + g) * 0 * e = 0
          BY <2>6
        <5>4. (c + q * px) * e = c * e + q * px * e
          BY <2>6
        <5> DEFINE A == (c + (-g) * px) * e * 1
                   B == (q + g) * 0 * e
                   D == c * e + q * px * e
        <5>5. A = D /\ B = 0 /\ D \in Int
          BY <2>6, <5>2, <5>3, <5>4
        <5> HIDE DEF A, B, D
        <5>6. A + B = D
          BY <5>5
        <5> QED
          BY <5>6 DEF A, B, D
      <4> HIDE DEF avg
      <4> QED
        BY <2>6, <4>1, <4>2, <4>3
    <3>3. CASE ~(Size(g) > Size(q)) /\ q + g # 0
      <4>1. avg.d = ad /\ avg.n = an /\ m = -g
        BY <2>2, <3>3
      <4>2. r = c * e + q * an * rd - g * px * e + g * an * rd
        BY <2>3, <2>4, <2>5, <2>6, <4>1
      <4>3. r = (c + (-g) * px) * e + (q + g) * an * rd
        BY <2>4, <2>6, <4>2
      <4>4. r * ad = ((c + (-g) * px) * e) * ad + ((q + g) * an * rd) * ad
        BY <2>4, <2>6, <4>3
      <4>5. ((q + g) * an * rd) * ad = (q + g) * an * e
        BY <2>4, <2>6
      <4> HIDE DEF avg
      <4> QED
        BY <2>4, <2>6, <4>1, <4>4, <4>5
    <3> QED
      BY <3>1, <3>2, <3>3
  <2> HIDE DEF avg
  <2> QED
    BY <1>3, <2>1, <2>7 DEF Accounts, new
<1> QED
  BY <1>4, <1>5

-----------------------------------------------------------------------------
\* The position and the fills it was made from.

PricedFill(o) == o.side \in Side /\ o.exec \in Int
FillCash(o) == -SignedQty(o) * o.exec

(* A fill moves the position, its cash and its quantity together.          *)
LEMMA FillMoves ==
  ASSUME NEW p \in PositionType, NEW o, PricedFill(o)
  PROVE  /\ ApplyFill(p, SignedQty(o), o.exec) \in PositionType
         /\ FillCash(o) \in Int /\ SignedQty(o) \in Int
         /\ \A c, q \in Int : Accounts(p, c, q)
              => Accounts(ApplyFill(p, SignedQty(o), o.exec), c + FillCash(o), q + SignedQty(o))
<1> DEFINE g == SignedQty(o)
<1>1. g \in Int \ {0} /\ o.exec \in Int
  BY DEF PricedFill, SignedQty
<1>2. FillCash(o) = (-g) * o.exec /\ FillCash(o) \in Int /\ g \in Int
  BY <1>1 DEF FillCash
<1> HIDE DEF g
<1>3. ApplyFill(p, g, o.exec) \in PositionType
  BY <1>1, FillType
<1>4. ASSUME NEW c \in Int, NEW q \in Int, Accounts(p, c, q)
      PROVE  Accounts(ApplyFill(p, g, o.exec), c + FillCash(o), q + g)
  <2>1. Accounts(ApplyFill(p, g, o.exec), c + (-g) * o.exec, q + g)
    BY <1>1, <1>4, FillAccounts
  <2> QED
    BY <1>2, <2>1
<1> QED
  BY <1>2, <1>3, <1>4 DEF g

PricedFills(fills, k) == \A i \in 1..k : PricedFill(fills[i])

(* The position after each of the fills.                                   *)
LEMMA SettleLoop ==
  ASSUME NEW p \in PositionType, NEW k \in Nat, NEW fills, Len(fills) = k,
         PricedFills(fills, k)
  PROVE  /\ SettleTable(p, fills) = [i \in 0..k |-> SettleTable(p, fills)[i]]
         /\ SettleTable(p, fills)[0] = p
         /\ \A i \in 1..k : SettleTable(p, fills)[i]
              = ApplyFill(SettleTable(p, fills)[i - 1], SignedQty(fills[i]), fills[i].exec)
         /\ \A i \in 0..k : SettleTable(p, fills)[i] \in PositionType
<1> DEFINE start == p
           step == [i \in 1..k |-> [c \in PositionType |-> ApplyFill(c, SignedQty(fills[i]), fills[i].exec)]]
           Is(f) == f = [i \in 0..k |-> IF i = 0 THEN p ELSE ApplyFill(f[i - 1], SignedQty(fills[i]), fills[i].exec)]
<1>1. \A i \in 1..k, c \in PositionType :
        /\ ApplyFill(c, SignedQty(fills[i]), fills[i].exec) \in PositionType
        /\ step[i][c] = ApplyFill(c, SignedQty(fills[i]), fills[i].exec)
  BY FillMoves DEF PricedFills
<1>1a. step \in [1..k -> [PositionType -> PositionType]] /\ start \in PositionType
  BY <1>1
<1>2. SettleTable(p, fills) = CHOOSE f : Is(f)
  BY DEF SettleTable
<1> HIDE DEF step, start
<1>2a. PICK f : LoopTable(f, k, PositionType, start, step)
  BY <1>1a, LoopFound
<1>3. /\ f = [i \in 0..k |-> f[i]] /\ f[0] = start
      /\ \A i \in 1..k : f[i] = step[i][f[i - 1]]
      /\ \A i \in 0..k : f[i] \in PositionType
  BY <1>2a DEF LoopTable
<1>4. Is(f)
  <2>1. ASSUME NEW i \in 0..k
        PROVE  f[i] = IF i = 0 THEN p ELSE ApplyFill(f[i - 1], SignedQty(fills[i]), fills[i].exec)
    <3>1. CASE i = 0
      BY <1>3, <3>1 DEF start
    <3>2. CASE i # 0
      <4>1. i \in 1..k /\ i - 1 \in 0..k
        BY <3>2
      <4>2. f[i] = step[i][f[i - 1]] /\ f[i - 1] \in PositionType
        BY <1>3, <4>1
      <4>3. step[i][f[i - 1]] = ApplyFill(f[i - 1], SignedQty(fills[i]), fills[i].exec)
        BY <1>1, <4>1, <4>2
      <4> QED
        BY <3>2, <4>2, <4>3
    <3> QED
      BY <3>1, <3>2
  <2> QED
    BY <1>3, <2>1
<1>5. PICK g : g = SettleTable(p, fills) /\ Is(g)
  <2> HIDE DEF Is
  <2> QED
    BY <1>2, <1>4
<1>6. g[0] = p /\ \A i \in 1..k : g[i] = ApplyFill(g[i - 1], SignedQty(fills[i]), fills[i].exec)
  BY <1>5
<1>7. \A i \in 1..k : g[i - 1] \in PositionType => g[i] \in PositionType
  BY <1>6, FillMoves DEF PricedFills
<1>8. \A i \in 0..k : g[i] \in PositionType
  BY <1>6, <1>7, LoopStays
<1>9. g = [i \in 0..k |-> g[i]]
  BY <1>5
<1> QED
  BY <1>5, <1>6, <1>8, <1>9

\* Entries posted to an account, each under an identifier of its own.
Posted(old, new, ids, amounts, k, n) ==
  /\ \A i \in 1..k : /\ ids[i] \in 1..n /\ amounts[i] \in Int
                     /\ old[ids[i]] = 0 /\ new[ids[i]] = amounts[i]
  /\ \A id \in 1..n : (\A i \in 1..k : ids[i] # id) => new[id] = old[id]

Distinct(ids, k) == \A i, j \in 1..k : ids[i] = ids[j] => i = j

\* The account after the first i entries.
Midway(old, new, ids, i, n) ==
  [id \in 1..n |-> IF \E j \in 1..i : ids[j] = id THEN new[id] ELSE old[id]]

OneByOne(old, new, ids, amounts, k, n) ==
  /\ Midway(old, new, ids, 0, n) = old /\ Midway(old, new, ids, k, n) = new
  /\ \A i \in 0..k : Total(Midway(old, new, ids, i, n)) \in Int
  /\ \A i \in 1..k : Total(Midway(old, new, ids, i, n))
                     = Total(Midway(old, new, ids, i - 1, n)) + amounts[i]

(* Entries posted all at once sum to what posting one at a time gives.     *)
LEMMA PostedOneByOne ==
  ASSUME NEW n \in Nat, NEW k \in Nat, NEW old \in [1..n -> Int], NEW new \in [1..n -> Int],
         NEW ids, NEW amounts, Posted(old, new, ids, amounts, k, n), Distinct(ids, k)
  PROVE  OneByOne(old, new, ids, amounts, k, n)
<1>1. \A i : Midway(old, new, ids, i, n) \in [1..n -> Int]
  BY DEF Midway
<1>2. Midway(old, new, ids, 0, n) = old
  BY DEF Midway
<1>3. Midway(old, new, ids, k, n) = new
  <2>1. \A id \in 1..n : ~(\E j \in 1..k : ids[j] = id) => new[id] = old[id]
    BY DEF Posted
  <2>2. \A id \in 1..n : (IF \E j \in 1..k : ids[j] = id THEN new[id] ELSE old[id]) = new[id]
    BY <2>1
  <2> QED
    BY <2>2 DEF Midway
<1>4. \A i \in 0..k : Total(Midway(old, new, ids, i, n)) \in Int
  BY <1>1, SumLoop
<1>5. ASSUME NEW i \in 1..k
      PROVE  Total(Midway(old, new, ids, i, n)) = Total(Midway(old, new, ids, i - 1, n)) + amounts[i]
  <2> DEFINE f == Midway(old, new, ids, i - 1, n)
             g == Midway(old, new, ids, i, n)
             m == ids[i]
             v == amounts[i]
  <2>1. m \in 1..n /\ v \in Int /\ old[m] = 0 /\ new[m] = v
    BY DEF Posted
  <2>2. g[m] = new[m]
    BY <2>1 DEF Midway
  <2>3. f[m] = old[m]
    <3>1. ~(\E j \in 1..(i - 1) : ids[j] = m)
      BY DEF Distinct
    <3> QED
      BY <2>1, <3>1 DEF Midway
  <2>4. ASSUME NEW id \in 1..n, id # m
        PROVE  g[id] = f[id]
    <3>1. (\E j \in 1..i : ids[j] = id) <=> (\E j \in 1..(i - 1) : ids[j] = id)
      <4>1. \A j \in 1..i : j = i \/ j \in 1..(i - 1)
        OBVIOUS
      <4>2. \A j \in 1..(i - 1) : j \in 1..i
        OBVIOUS
      <4> QED
        BY <2>4, <4>1, <4>2
    <3> QED
      BY <3>1 DEF Midway
  <2> HIDE DEF f, g, m, v
  <2>5. f \in [1..n -> Int] /\ g \in [1..n -> Int]
    BY <1>1 DEF f, g
  <2>6. g[m] = f[m] + v
    BY <2>1, <2>2, <2>3
  <2>7. Total(g) = Total(f) + v
    <3>1. GrownBy(f, g, m, v, n)
      BY <2>4, <2>6 DEF GrownBy
    <3>2. m \in 1..n /\ v \in Int
      BY <2>1
    <3> QED
      BY <2>5, <3>1, <3>2, SumChanges
  <2> QED
    BY <2>7 DEF f, g, v
<1> QED
  BY <1>2, <1>3, <1>4, <1>5 DEF OneByOne

\* What the fills take in and buy, under the identifiers of their orders.
IdsOf(fills, k)  == [i \in 1..k |-> fills[i].id]
CashOf(fills, k) == [i \in 1..k |-> FillCash(fills[i])]
QtyOf(fills, k)  == [i \in 1..k |-> SignedQty(fills[i])]

(* Settling a list of fills accounts for every one of them.                *)
LEMMA SettleAccounts ==
  ASSUME NEW n \in Nat, NEW k \in Nat, NEW p \in PositionType, NEW fills, Len(fills) = k,
         PricedFills(fills, k), Distinct(IdsOf(fills, k), k),
         NEW c0 \in [1..n -> Int], NEW c1 \in [1..n -> Int],
         NEW q0 \in [1..n -> Int], NEW q1 \in [1..n -> Int],
         Posted(c0, c1, IdsOf(fills, k), CashOf(fills, k), k, n),
         Posted(q0, q1, IdsOf(fills, k), QtyOf(fills, k), k, n),
         Accounts(p, Total(c0), Total(q0))
  PROVE  /\ Settled(p, fills) \in PositionType
         /\ Accounts(Settled(p, fills), Total(c1), Total(q1))
<1> DEFINE ids == IdsOf(fills, k)
           at == SettleTable(p, fills)
           c(i) == Total(Midway(c0, c1, ids, i, n))
           q(i) == Total(Midway(q0, q1, ids, i, n))
           Q == {i \in 0..k : Accounts(at[i], c(i), q(i))}
<1>1. /\ at[0] = p
      /\ \A i \in 1..k : at[i] = ApplyFill(at[i - 1], SignedQty(fills[i]), fills[i].exec)
      /\ \A i \in 0..k : at[i] \in PositionType
  BY SettleLoop
<1>2. /\ c(0) = Total(c0) /\ c(k) = Total(c1) /\ \A i \in 0..k : c(i) \in Int
      /\ \A i \in 1..k : c(i) = c(i - 1) + FillCash(fills[i])
  <2>1. \A i \in 1..k : CashOf(fills, k)[i] = FillCash(fills[i])
    BY DEF CashOf
  <2> HIDE DEF ids
  <2>2. /\ Midway(c0, c1, ids, 0, n) = c0 /\ Midway(c0, c1, ids, k, n) = c1
        /\ \A i \in 0..k : Total(Midway(c0, c1, ids, i, n)) \in Int
        /\ \A i \in 1..k : Total(Midway(c0, c1, ids, i, n))
                           = Total(Midway(c0, c1, ids, i - 1, n)) + CashOf(fills, k)[i]
    <3>1. OneByOne(c0, c1, IdsOf(fills, k), CashOf(fills, k), k, n)
      BY PostedOneByOne
    <3> QED
      BY <3>1, Zenon DEF OneByOne, ids
  <2> QED
    BY <2>1, <2>2
<1>3. /\ q(0) = Total(q0) /\ q(k) = Total(q1) /\ \A i \in 0..k : q(i) \in Int
      /\ \A i \in 1..k : q(i) = q(i - 1) + SignedQty(fills[i])
  <2>1. \A i \in 1..k : QtyOf(fills, k)[i] = SignedQty(fills[i])
    BY DEF QtyOf
  <2> HIDE DEF ids
  <2>2. /\ Midway(q0, q1, ids, 0, n) = q0 /\ Midway(q0, q1, ids, k, n) = q1
        /\ \A i \in 0..k : Total(Midway(q0, q1, ids, i, n)) \in Int
        /\ \A i \in 1..k : Total(Midway(q0, q1, ids, i, n))
                           = Total(Midway(q0, q1, ids, i - 1, n)) + QtyOf(fills, k)[i]
    <3>1. OneByOne(q0, q1, IdsOf(fills, k), QtyOf(fills, k), k, n)
      BY PostedOneByOne
    <3> QED
      BY <3>1, Zenon DEF OneByOne, ids
  <2> QED
    BY <2>1, <2>2
<1> HIDE DEF at, c, q, ids
<1>4. 0 \in Q
  BY <1>1, <1>2, <1>3
<1>5. ASSUME NEW i \in 1..k, i - 1 \in Q
      PROVE  i \in Q
  <2>1. i - 1 \in 0..k /\ i \in 0..k /\ Accounts(at[i - 1], c(i - 1), q(i - 1))
    BY <1>5
  <2>2. at[i - 1] \in PositionType /\ c(i - 1) \in Int /\ q(i - 1) \in Int /\ PricedFill(fills[i])
    BY <1>1, <1>2, <1>3, <2>1 DEF PricedFills
  <2>3. Accounts(ApplyFill(at[i - 1], SignedQty(fills[i]), fills[i].exec),
                 c(i - 1) + FillCash(fills[i]), q(i - 1) + SignedQty(fills[i]))
    BY <2>1, <2>2, FillMoves
  <2>4. Accounts(at[i], c(i), q(i))
    BY <1>1, <1>2, <1>3, <2>3
  <2> QED
    BY <2>1, <2>4
<1>6. k \in Q
  <2>1. k \in 0..k
    OBVIOUS
  <2> HIDE DEF Q
  <2> QED
    BY <1>4, <1>5, <2>1, CountUp
<1>7. Settled(p, fills) = at[k] /\ at[k] \in PositionType
  BY <1>1 DEF Settled, at
<1> QED
  BY <1>2, <1>3, <1>6, <1>7

-----------------------------------------------------------------------------
\* Executions, and the position that is theirs.

Rec(o) == [id |-> o.id, side |-> o.side, px |-> o.exec]

Registered(X) ==
  /\ \A x \in X : x.side \in Side /\ x.px \in Int
  /\ \A x, y \in X : x.id = y.id => x = y

In(X, id) == CHOOSE x \in X : x.id = id
CashIn(X, ids, n) ==
  [id \in 1..n |-> IF id \in ids THEN -SignedQty(In(X, id)) * In(X, id).px ELSE 0]
QtyIn(X, ids, n) == [id \in 1..n |-> IF id \in ids THEN SignedQty(In(X, id)) ELSE 0]

IdsIn(X) == {x.id : x \in X}

MoneyInv ==
  /\ \A o \in orders : o.px \in Int /\ o.exec \in Int
  /\ Registered(executed)
  /\ \A o \in orders : o.status = "filled" => Rec(o) \in executed
  /\ position \in PositionType
  /\ Accounts(position, Total(CashIn(executed, filledIds, nextOid - 1)),
                        Total(QtyIn(executed, filledIds, nextOid - 1)))

(* An id finds its execution.                                              *)
LEMMA InIs ==
  ASSUME NEW X, Registered(X), NEW x \in X
  PROVE  In(X, x.id) = x
<1>1. \A y \in X : y.id = x.id => y = x
  BY DEF Registered
<1>2. In(X, x.id) \in X /\ In(X, x.id).id = x.id
  BY Zenon DEF In
<1> QED
  BY <1>1, <1>2

(* The entries of an account are numbers.                                  *)
LEMMA FlowsTyped ==
  ASSUME NEW X, Registered(X), NEW ids, ids \subseteq IdsIn(X), NEW n \in Nat
  PROVE  CashIn(X, ids, n) \in [1..n -> Int] /\ QtyIn(X, ids, n) \in [1..n -> Int]
<1>1. ASSUME NEW id \in ids
      PROVE  /\ SignedQty(In(X, id)) \in Int
             /\ -SignedQty(In(X, id)) * In(X, id).px \in Int
  <2>1. PICK x \in X : x.id = id
    BY DEF IdsIn
  <2>2. In(X, id) = x
    BY <2>1, InIs
  <2>3. x.px \in Int /\ SignedQty(x) \in {1, -1}
    BY DEF Registered, SignedQty
  <2> QED
    BY <2>2, <2>3
<1> QED
  BY <1>1 DEF CashIn, QtyIn

(* Executions to come change nothing of the entries there are.             *)
LEMMA FlowsKept ==
  ASSUME NEW X, NEW Y, X \subseteq Y, Registered(Y), NEW ids, ids \subseteq IdsIn(X), NEW n
  PROVE  CashIn(Y, ids, n) = CashIn(X, ids, n) /\ QtyIn(Y, ids, n) = QtyIn(X, ids, n)
<1>1. Registered(X)
  BY DEF Registered
<1>2. ASSUME NEW id \in ids
      PROVE  In(Y, id) = In(X, id)
  <2>1. PICK x \in X : x.id = id
    BY DEF IdsIn
  <2>2. In(X, id) = x
    BY <1>1, <2>1, InIs
  <2>3. In(Y, id) = x
    <3>1. x \in Y
      OBVIOUS
    <3> QED
      BY <2>1, <3>1, InIs
  <2> QED
    BY <2>2, <2>3
<1> QED
  BY <1>2 DEF CashIn, QtyIn

\* Orders that are new, or were there before.
Follows(os) ==
  \A o \in os : /\ o.px \in Int /\ o.exec \in Int /\ o.side \in Side
                /\ \/ o.id \notin 1..(nextOid - 1)
                   \/ \E p \in orders : p.id = o.id /\ p.side = o.side /\ p.exec = o.exec

(* The fills of orders old or new are registered once, and stay.           *)
LEMMA RegisteredStep ==
  ASSUME OrderInv, MoneyInv, NEW os, Follows(os), \A o, p \in os : o.id = p.id => o = p,
         executed' = Executions(os)
  PROVE  /\ Registered(executed') /\ executed \subseteq executed'
         /\ \A o \in os : o.status = "filled" => Rec(o) \in executed'
<1> DEFINE X == {Rec(o) : o \in Those(os, "filled")}
<1>1. executed' = executed \cup X
  BY DEF Executions, Rec, Those
<1>2. \A x \in X : \E o \in os : x = Rec(o)
  BY DEF Those
<1>3. \A o \in os : o.status = "filled" => Rec(o) \in X
  BY DEF Those
<1> HIDE DEF X
<1>4. /\ \A o \in orders : o.id \notin filledIds
      /\ \A o, p \in orders : o.id = p.id => o = p
      /\ filledIds \subseteq 1..(nextOid - 1)
      /\ \A o \in orders : o.id \in 1..(nextOid - 1)
      /\ IdsIn(executed) = filledIds \cup FillIds(orders)
  BY DEF OrderInv, Kept, Own, IdsIn
<1>5. \A o : Rec(o).id = o.id /\ Rec(o).side = o.side /\ Rec(o).px = o.exec
  BY DEF Rec
<1>6. \A x \in executed \cup X : x.side \in Side /\ x.px \in Int
  BY <1>2, <1>5 DEF MoneyInv, Registered, Follows
<1>7. ASSUME NEW x \in executed, NEW y \in X, x.id = y.id
      PROVE  x = y
  <2>1. PICK o \in os : y = Rec(o)
    BY <1>2
  <2>2. x.id = o.id /\ x.id \in IdsIn(executed)
    BY <1>5, <1>7, <2>1 DEF IdsIn
  <2>3. x.id \in 1..(nextOid - 1)
    <3>1. CASE x.id \in filledIds
      BY <1>4, <3>1
    <3>2. CASE x.id \in FillIds(orders)
      <4>1. PICK q \in orders : q.id = x.id
        BY <3>2 DEF FillIds, Those
      <4> QED
        BY <1>4, <4>1
    <3> QED
      BY <1>4, <2>2, <3>1, <3>2
  <2>4. PICK p \in orders : p.id = o.id /\ p.side = o.side /\ p.exec = o.exec
    BY <2>2, <2>3 DEF Follows
  <2>5. x.id \notin filledIds
    BY <1>4, <2>2, <2>4
  <2>6. PICK q \in orders : q.status = "filled" /\ q.id = x.id
    BY <1>4, <2>2, <2>5 DEF FillIds, Those
  <2>7. q = p
    BY <1>4, <2>2, <2>4, <2>6
  <2>8. Rec(p) \in executed /\ Rec(p) = y
    BY <2>1, <2>4, <2>6, <2>7 DEF MoneyInv, Rec
  <2> QED
    BY <1>7, <2>8 DEF MoneyInv, Registered
<1>8. ASSUME NEW x \in X, NEW y \in X, x.id = y.id
      PROVE  x = y
  <2>1. PICK o \in os : x = Rec(o)
    BY <1>2
  <2>2. PICK p \in os : y = Rec(p)
    BY <1>2
  <2> QED
    BY <1>5, <1>8, <2>1, <2>2
<1>9. \A x, y \in executed : x.id = y.id => x = y
  BY DEF MoneyInv, Registered
<1>10. \A x, y \in executed \cup X : x.id = y.id => x = y
  BY <1>7, <1>8, <1>9
<1> QED
  BY <1>1, <1>3, <1>6, <1>10 DEF Registered

(* A flat position accounts for no execution.                              *)
LEMMA MoneyInit == Init => MoneyInv
<1> SUFFICES ASSUME Init PROVE MoneyInv
  OBVIOUS
<1>1. orders = {} /\ executed = {} /\ nextOid = 1 /\ filledIds = {} /\ position = Flat
  BY DEF Init
<1>2. Registered(executed)
  BY <1>1 DEF Registered
<1>3. Flat \in PositionType /\ Accounts(Flat, 0, 0)
  BY DEF Flat, PositionType, Fraction, Accounts
<1>4. ASSUME NEW f \in [1..0 -> Int]
      PROVE  Total(f) = 0
  BY SumLoop
<1>5. CashIn(executed, filledIds, 0) \in [1..0 -> Int] /\ QtyIn(executed, filledIds, 0) \in [1..0 -> Int]
  BY DEF CashIn, QtyIn
<1>6. nextOid - 1 = 0
  BY <1>1
<1> QED
  BY <1>1, <1>2, <1>3, <1>4, <1>5, <1>6 DEF MoneyInv

(* The market fills orders: the money waits for the next harvest.          *)
LEMMA MarketMoney ==
  ASSUME OrderInv, OrderInv', MoneyInv, NEW F, orders' = {F[o] : o \in orders},
         \A o \in orders : F[o] \in {o, Filled(o)},
         executed' = Executions(orders'), UNCHANGED stratVars
  PROVE  MoneyInv'
<1>1. UNCHANGED <<nextOid, filledIds, position>>
  BY DEF stratVars
<1>2. ASSUME NEW o \in orders
      PROVE  /\ F[o].id = o.id /\ F[o].side = o.side /\ F[o].px = o.px /\ F[o].exec = o.exec
             /\ o.side \in Side /\ o.px \in Int /\ o.exec \in Int
  <2>1. Excused(o) /\ o.side \in Side /\ o.px \in Int /\ o.exec \in Int
    BY DEF OrderInv, Kept, OwnExcused, Own, MoneyInv
  <2>2. Filled(o).id = o.id /\ Filled(o).side = o.side /\ Filled(o).px = o.px /\ Filled(o).exec = o.exec
    BY <2>1 DEF Excused, Filled
  <2> QED
    BY <2>1, <2>2
<1> DEFINE os == {F[o] : o \in orders}
<1>3. Follows(os)
  BY <1>2 DEF Follows
<1>4. \A o, p \in orders' : o.id = p.id => o = p
  BY DEF OrderInv, Kept, Own
<1>5. orders' = os
  OBVIOUS
<1> HIDE DEF os
<1>6. /\ Registered(executed') /\ executed \subseteq executed'
      /\ \A o \in os : o.status = "filled" => Rec(o) \in executed'
  BY <1>3, <1>4, <1>5, RegisteredStep
<1>7. filledIds \subseteq IdsIn(executed)
  BY DEF OrderInv, IdsIn
<1>8. /\ CashIn(executed', filledIds, nextOid - 1) = CashIn(executed, filledIds, nextOid - 1)
      /\ QtyIn(executed', filledIds, nextOid - 1) = QtyIn(executed, filledIds, nextOid - 1)
  BY <1>6, <1>7, FlowsKept
<1>9. \A o \in orders' : o.px \in Int /\ o.exec \in Int
  BY <1>3, <1>5 DEF Follows
<1> QED
  BY <1>1, <1>5, <1>6, <1>8, <1>9 DEF MoneyInv, Rec

-----------------------------------------------------------------------------
\* What the strategy makes of the orders carries them on.

Continues(st, pos) ==
  Follows(st.orders) /\ st.nextOid \in Nat /\ st.nextOid >= nextOid /\ st.position = pos

(* A cancellation leaves the executed orders as they were.                 *)
LEMMA CancelContinues ==
  ASSUME NEW st, Kept(st), NEW pos, Continues(st, pos), NEW s
  PROVE  Continues(Cancel(st, s), pos)
<1> DEFINE F == [o \in st.orders |-> IF o \in LiveOrder(st, s) THEN [o EXCEPT !.status = "canceled"] ELSE o]
           os == {F[o] : o \in st.orders}
           c == Cancel(st, s)
<1>1. c.orders = os /\ c.nextOid = st.nextOid /\ c.position = st.position
  BY DEF Cancel, Kept, OwnExcused
<1>2. ASSUME NEW o \in st.orders
      PROVE  F[o].id = o.id /\ F[o].side = o.side /\ F[o].px = o.px /\ F[o].exec = o.exec
  BY DEF Kept, OwnExcused, Excused
<1> HIDE DEF F, c
<1>3. Follows(os)
  BY <1>2 DEF Continues, Follows
<1> QED
  BY <1>1, <1>3 DEF Continues, c

(* An order arrives with its own id, side and price.                       *)
LEMMA ArrivedIs ==
  ASSUME NEW id, NEW s \in Side, NEW px \in Int
  PROVE  LET a == Arrived(id, s, px)
         IN  a.id = id /\ a.side = s /\ a.px = px /\ a.exec \in Int
<1> DEFINE e == IF Takes(exch, s, px) /\ cross THEN Best(exch, Other(s)) ELSE px
<1>1. e \in Int
  <2>1. CASE Takes(exch, s, px) /\ cross
    <3>1. Other(s) \in Side
      BY DEF Other, Side
    <3>2. Positive(exch[Other(s)]) # {}
      BY <2>1 DEF Takes
    <3> QED
      BY <2>1, <3>1, <3>2, BestIsPrice
  <2>2. CASE ~(Takes(exch, s, px) /\ cross)
    BY <2>2
  <2> QED
    BY <2>1, <2>2
<1> HIDE DEF e
<1>2. PICK status, lagged :
        Arrived(id, s, px) = [id |-> id, side |-> s, px |-> px, exec |-> e, status |-> status, lagged |-> lagged]
  BY Zenon DEF Arrived, e
<1> QED
  BY <1>1, <1>2

(* A submission adds an order that was not there before.                   *)
LEMMA SubmitContinues ==
  ASSUME OrderInv, NEW st, Kept(st), NEW pos, Continues(st, pos), NEW s \in Side, NEW px \in Int
  PROVE  Continues(Submit(st, s, px), pos)
<1> DEFINE a == Arrived(st.nextOid, s, px)
           new == Submit(st, s, px)
<1>1. new.orders = st.orders \cup {a} /\ new.nextOid = st.nextOid + 1 /\ new.position = st.position
  BY DEF Submit, Kept, OwnExcused
<1>2. a.id = st.nextOid /\ a.side = s /\ a.px = px /\ a.exec \in Int
  BY ArrivedIs
<1> HIDE DEF a, new
<1>3. nextOid \in Nat /\ st.nextOid \in Nat /\ st.nextOid >= nextOid
  BY DEF OrderInv, Kept, Own, Continues
<1>4. a.id \notin 1..(nextOid - 1)
  BY <1>2, <1>3
<1>5. Follows(st.orders \cup {a})
  BY <1>2, <1>4 DEF Continues, Follows
<1> QED
  BY <1>1, <1>3, <1>5 DEF Continues, new

(* Replacing an order of one side cancels and submits.                     *)
LEMMA ReplaceContinues ==
  ASSUME OrderInv, NEW st, Kept(st), NEW pos, Continues(st, pos), NEW s \in Side, NEW px \in Int
  PROVE  Continues(ReplaceSide(st, s, px), pos)
<1>1. Kept(Cancel(st, s)) /\ Continues(Cancel(st, s), pos)
  BY CancelKept, CancelContinues
<1>2. Continues(Submit(Cancel(st, s), s, px), pos)
  BY <1>1, SubmitContinues
<1> QED
  BY <1>2 DEF ReplaceSide

(* Quotes are prices.                                                      *)
LEMMA QuotesAreInts ==
  ASSUME HasTouch(local), NEW skew \in Skews, NEW s \in Side
  PROVE  Quotes(Touch(local), skew)[s] \in Int
<1> DEFINE bid == Best(local, "bid")
           ask == Best(local, "ask")
<1>1. bid \in Int /\ ask \in Int
  BY BestIsPrice DEF HasTouch, Side
<1>2. Touch(local).bid = bid /\ Touch(local).ask = ask
  BY DEF Touch
<1>3. skew \in Int /\ SpreadTicks \in Int
  BY QuotingAssumption DEF Skews
<1> HIDE DEF bid, ask
<1>4. MidTicks(bid + ask) \in Int
  BY <1>1 DEF MidTicks
<1>5. /\ MakerQuotes(bid, ask, skew).bid \in Int /\ MakerQuotes(bid, ask, skew).ask \in Int
      /\ AggressiveQuotes(bid, ask).bid \in Int /\ AggressiveQuotes(bid, ask).ask \in Int
  BY <1>1, <1>3, <1>4 DEF MakerQuotes, AggressiveQuotes, Lower, Higher
<1>6. \A r : (r.bid \in Int /\ r.ask \in Int) => r[s] \in Int
  BY DEF Side
<1> QED
  BY <1>2, <1>5, <1>6 DEF Quotes

(* A requote cancels and submits on both sides.                            *)
LEMMA RequoteContinues ==
  ASSUME OrderInv, NEW st, Kept(st), NEW pos, Continues(st, pos), HasTouch(local), NEW skew \in Skews
  PROVE  Continues(Requoted(st, Touch(local), skew), pos)
<1> DEFINE q == Quotes(Touch(local), skew)
           seen == [st EXCEPT !.prevL1 = Touch(local)]
           half == ReplaceSide(seen, "bid", q["bid"])
           both == ReplaceSide(half, "ask", q["ask"])
<1>1. /\ \A s \in Side : \A id : Excused(Arrived(id, s, q[s]))
      /\ \A s \in Side : q[s] \in Int
  BY QuoteArrivesExcused, QuotesAreInts
<1>2. Kept(seen) /\ Continues(seen, pos)
  <2>1. OwnExcused(seen)
    BY DEF Kept, OwnExcused
  <2>2. /\ seen.orders = st.orders /\ seen.nextOid = st.nextOid /\ seen.live = st.live
        /\ seen.filledIds = st.filledIds /\ seen.canceled = st.canceled
        /\ seen.rejected = st.rejected /\ seen.position = st.position
    BY DEF Kept, OwnExcused
  <2> HIDE DEF seen
  <2> QED
    BY <2>1, <2>2 DEF Kept, Continues
<1> HIDE DEF q, seen
<1>3. "bid" \in Side /\ "ask" \in Side
  BY DEF Side
<1>4. Kept(half) /\ Continues(half, pos)
  BY <1>1, <1>2, <1>3, ReplaceKept, ReplaceContinues
<1> HIDE DEF half
<1>5. Continues(both, pos)
  BY <1>1, <1>3, <1>4, ReplaceContinues
<1>6. Requoted(st, Touch(local), skew) = both
  BY DEF Requoted, both, half, seen, q
<1> QED
  BY <1>5, <1>6

(* A harvest takes the fills it books off the orders.                      *)
LEMMA HarvestContinues ==
  ASSUME OrderInv, MoneyInv, NEW fills
  PROVE  Continues(Harvested(Own, fills), Settled(position, fills))
<1> DEFINE st == Harvested(Own, fills)
<1>1. st.orders = Those(orders, "new") /\ st.nextOid = nextOid /\ st.position = Settled(position, fills)
  BY DEF Harvested, Own, Those
<1> HIDE DEF st
<1>2. nextOid \in Nat /\ nextOid >= nextOid
  BY DEF OrderInv, Kept, Own
<1>3. \A o \in orders : o.side \in Side /\ o.px \in Int /\ o.exec \in Int
  BY DEF OrderInv, Kept, Own, MoneyInv
<1>4. Follows(Those(orders, "new"))
  BY <1>3 DEF Follows, Those
<1> QED
  BY <1>1, <1>2, <1>4 DEF Continues, st

-----------------------------------------------------------------------------
(* The harvested fills are the filled orders, each once.                   *)
LEMMA FillsAre ==
  ASSUME Kept(Own), NEW fills \in ToHarvest
  PROVE  \E k \in Nat : /\ Len(fills) = k /\ DOMAIN fills = 1..k
                        /\ \A i \in 1..k : fills[i] \in Those(orders, "filled")
                        /\ Distinct(IdsOf(fills, k), k)
<1> DEFINE F == Those(orders, "filled")
           k == Cardinality(F)
<1>1. Own.orders = orders /\ Own.filledIds = filledIds
  BY DEF Own
<1>2. F = {o \in orders : o.status = "filled" /\ o.id \notin filledIds}
  BY <1>1 DEF Kept, Those
<1>3. fills \in [1..k -> F] /\ \A i, j \in 1..k : i # j => fills[i] # fills[j]
  BY <1>2 DEF ToHarvest, SetToSeqs
<1>4. k \in Nat
  <2>1. IsFiniteSet(F)
    BY <1>1, FS_Subset DEF Kept, Those
  <2> QED
    BY <2>1, FS_CardinalityType
<1>5. \A o, p \in F : o.id = p.id => o = p
  BY <1>1 DEF Kept, Those
<1> HIDE DEF F, k
<1>6. Len(fills) = k /\ DOMAIN fills = 1..k
  BY <1>3, <1>4
<1>7. ASSUME NEW i \in 1..k, NEW j \in 1..k, fills[i].id = fills[j].id
      PROVE  i = j
  BY <1>3, <1>5, <1>7
<1>8. Distinct(IdsOf(fills, k), k)
  BY <1>7 DEF Distinct, IdsOf
<1> QED
  BY <1>3, <1>4, <1>6, <1>8 DEF F

(* A harvest posts each fill, and the position follows.                    *)
LEMMA TurnMoney ==
  ASSUME OrderInv, OrderInv', MoneyInv, NEW fills \in ToHarvest,
         NEW st, OwnBecomes(st), Continues(st, Settled(position, fills)),
         st.filledIds = filledIds \cup FillIds(orders)
  PROVE  MoneyInv'
<1>1. /\ orders' = st.orders /\ nextOid' = st.nextOid /\ filledIds' = filledIds \cup FillIds(orders)
      /\ position' = Settled(position, fills) /\ executed' = Executions(st.orders)
      /\ Follows(st.orders) /\ nextOid' \in Nat /\ nextOid' >= nextOid
  BY DEF OwnBecomes, Continues
<1>2. \A o, p \in st.orders : o.id = p.id => o = p
  BY <1>1 DEF OrderInv, Kept, Own
<1>3. /\ Registered(executed') /\ executed \subseteq executed'
      /\ \A o \in st.orders : o.status = "filled" => Rec(o) \in executed'
  BY <1>1, <1>2, RegisteredStep
<1>4. /\ Kept(Own) /\ filledIds \subseteq 1..(nextOid - 1) /\ filledIds' \subseteq 1..(nextOid' - 1)
      /\ nextOid \in Nat \ {0} /\ filledIds \cup FillIds(orders) = IdsIn(executed)
      /\ nextOid' \in Nat \ {0}
      /\ \A o \in orders : o.id \notin filledIds /\ o.side \in Side /\ o.id \in 1..(nextOid - 1)
  BY DEF OrderInv, Kept, Own, IdsIn
<1>5. PICK k \in Nat : /\ Len(fills) = k /\ DOMAIN fills = 1..k
                       /\ \A i \in 1..k : fills[i] \in Those(orders, "filled")
                       /\ Distinct(IdsOf(fills, k), k)
  BY <1>4, FillsAre
<1>6. FillIds(orders) = {fills[i].id : i \in 1..k}
  BY <1>4, <1>5, FillsListed DEF FillIds
<1>7. ASSUME NEW i \in 1..k
      PROVE  /\ PricedFill(fills[i]) /\ fills[i].id \in 1..(nextOid' - 1)
             /\ fills[i].id \notin filledIds /\ fills[i].id \in FillIds(orders)
             /\ In(executed', fills[i].id) = Rec(fills[i])
  <2>1. fills[i] \in orders /\ fills[i].status = "filled"
    BY <1>5 DEF Those
  <2>2. Rec(fills[i]) \in executed' /\ fills[i].side \in Side /\ fills[i].exec \in Int
    BY <1>3, <1>4, <2>1 DEF MoneyInv
  <2>3. Rec(fills[i]).id = fills[i].id
    BY DEF Rec
  <2>4. In(executed', fills[i].id) = Rec(fills[i])
    BY <1>3, <2>2, <2>3, InIs
  <2>5. fills[i].id \in 1..(nextOid' - 1)
    BY <1>1, <1>4, <2>1
  <2> QED
    BY <1>4, <1>6, <2>1, <2>2, <2>4, <2>5 DEF PricedFill
<1> DEFINE m == nextOid - 1
           n == nextOid' - 1
           X == executed'
           ids1 == filledIds \cup FillIds(orders)
           c0 == CashIn(X, filledIds, n)
           c1 == CashIn(X, ids1, n)
           q0 == QtyIn(X, filledIds, n)
           q1 == QtyIn(X, ids1, n)
<1>8. m \in Nat /\ n \in Nat /\ m <= n
  BY <1>1, <1>4
<1>9. filledIds \subseteq IdsIn(executed) /\ filledIds \subseteq IdsIn(X) /\ ids1 \subseteq IdsIn(X)
  BY <1>3, <1>4 DEF IdsIn
<1>10. /\ c0 \in [1..n -> Int] /\ c1 \in [1..n -> Int] /\ q0 \in [1..n -> Int] /\ q1 \in [1..n -> Int]
  <2> HIDE DEF n, X, ids1
  <2> QED
    BY <1>3, <1>8, <1>9, FlowsTyped DEF X
<1>11. /\ Total(c0) = Total(CashIn(executed, filledIds, m))
       /\ Total(q0) = Total(QtyIn(executed, filledIds, m))
  <2> DEFINE cm == CashIn(X, filledIds, m)
             qm == QtyIn(X, filledIds, m)
  <2>1. cm = CashIn(executed, filledIds, m) /\ qm = QtyIn(executed, filledIds, m)
    BY <1>3, <1>9, FlowsKept
  <2>2. cm \in [1..m -> Int] /\ qm \in [1..m -> Int]
    <3> HIDE DEF m, X
    <3> QED
      BY <1>3, <1>8, <1>9, FlowsTyped DEF X
  <2>3. \A i \in 1..n : i > m => i \notin filledIds
    BY <1>4, <1>8
  <2>4. /\ \A i \in 1..n : c0[i] = IF i <= m THEN cm[i] ELSE 0
        /\ \A i \in 1..n : q0[i] = IF i <= m THEN qm[i] ELSE 0
    <3> HIDE DEF m, n, X
    <3>1. \A i \in 1..n : i <= m => i \in 1..m
      BY <1>8
    <3>2. \A i \in 1..n : ~(i <= m) => i > m
      BY <1>8
    <3> QED
      BY <2>3, <3>1, <3>2 DEF CashIn, QtyIn
  <2> HIDE DEF cm, qm, c0, q0, m, n
  <2>4a. Padded(cm, m, c0, n) /\ Padded(qm, m, q0, n)
    BY <1>8, <1>10, <2>2, <2>4 DEF Padded
  <2>5. Total(c0) = Total(cm)
    BY <2>4a, SumExtends, Zenon
  <2>6. Total(q0) = Total(qm)
    BY <2>4a, SumExtends, Zenon
  <2> QED
    BY <2>1, <2>5, <2>6
<1>12. Posted(c0, c1, IdsOf(fills, k), CashOf(fills, k), k, n)
  <2> HIDE DEF n, X
  <2>1. ASSUME NEW i \in 1..k
        PROVE  /\ fills[i].id \in 1..n /\ FillCash(fills[i]) \in Int
               /\ c0[fills[i].id] = 0 /\ c1[fills[i].id] = FillCash(fills[i])
    <3>1. /\ PricedFill(fills[i]) /\ fills[i].id \in 1..n /\ fills[i].id \notin filledIds
          /\ fills[i].id \in ids1 /\ In(X, fills[i].id) = Rec(fills[i])
      BY <1>7 DEF n, X
    <3>2. SignedQty(Rec(fills[i])) = SignedQty(fills[i]) /\ Rec(fills[i]).px = fills[i].exec
      BY DEF Rec, SignedQty
    <3>3. FillCash(fills[i]) \in Int
      BY <3>1 DEF FillCash, PricedFill, SignedQty
    <3> HIDE DEF ids1
    <3> QED
      BY <3>1, <3>2, <3>3 DEF CashIn, FillCash
  <2>2. ASSUME NEW id \in 1..n, \A i \in 1..k : fills[i].id # id
        PROVE  c1[id] = c0[id]
    <3>1. id \notin FillIds(orders)
      BY <1>6, <2>2
    <3> QED
      BY <3>1 DEF CashIn
  <2> HIDE DEF c0, c1
  <2> QED
    BY <2>1, <2>2 DEF Posted, IdsOf, CashOf
<1>13. Posted(q0, q1, IdsOf(fills, k), QtyOf(fills, k), k, n)
  <2> HIDE DEF n, X
  <2>1. ASSUME NEW i \in 1..k
        PROVE  /\ fills[i].id \in 1..n /\ SignedQty(fills[i]) \in Int
               /\ q0[fills[i].id] = 0 /\ q1[fills[i].id] = SignedQty(fills[i])
    <3>1. /\ fills[i].id \in 1..n /\ fills[i].id \notin filledIds
          /\ fills[i].id \in ids1 /\ In(X, fills[i].id) = Rec(fills[i])
      BY <1>7 DEF n, X
    <3>2. SignedQty(Rec(fills[i])) = SignedQty(fills[i]) /\ SignedQty(fills[i]) \in Int
      BY DEF Rec, SignedQty
    <3> HIDE DEF ids1
    <3> QED
      BY <3>1, <3>2 DEF QtyIn
  <2>2. ASSUME NEW id \in 1..n, \A i \in 1..k : fills[i].id # id
        PROVE  q1[id] = q0[id]
    <3>1. id \notin FillIds(orders)
      BY <1>6, <2>2
    <3> QED
      BY <3>1 DEF QtyIn
  <2> HIDE DEF q0, q1
  <2> QED
    BY <2>1, <2>2 DEF Posted, IdsOf, QtyOf
<1>14. PricedFills(fills, k)
  BY <1>7 DEF PricedFills
<1>15. position \in PositionType /\ Accounts(position, Total(c0), Total(q0))
  <2> HIDE DEF c0, q0
  <2> QED
    BY <1>11 DEF MoneyInv
<1>16. position' \in PositionType /\ Accounts(position', Total(c1), Total(q1))
  <2> HIDE DEF c0, c1, q0, q1, n
  <2>1. /\ Settled(position, fills) \in PositionType
        /\ Accounts(Settled(position, fills), Total(c1), Total(q1))
    BY <1>5, <1>8, <1>10, <1>12, <1>13, <1>14, <1>15, SettleAccounts
  <2> QED
    BY <1>1, <2>1
<1>17. /\ \A o \in orders' : o.px \in Int /\ o.exec \in Int
       /\ \A o \in orders' : o.status = "filled" => Rec(o) \in executed'
  BY <1>1, <1>3 DEF Follows
<1>18. Accounts(position', Total(CashIn(executed', filledIds', nextOid' - 1)),
                           Total(QtyIn(executed', filledIds', nextOid' - 1)))
  BY <1>1, <1>16
<1> QED
  BY <1>3, <1>16, <1>17, <1>18 DEF MoneyInv, Rec

(* Every step keeps the position beside its executions.                    *)
LEMMA MoneyStep ==
  ASSUME OrderInv, OrderInv', MoneyInv, [Next]_vars
  PROVE  MoneyInv'
<1>1. Kept(Own)
  BY DEF OrderInv
<1>2. ASSUME NEW e, Replayed(e)
      PROVE  MoneyInv'
  <2>1. executed' = Executions(orders') /\ UNCHANGED stratVars
    BY <1>2 DEF Replayed
  <2>0. PICK met \in MayFill(orders, exch') : orders' = Matched(orders, met)
    BY <1>2 DEF Replayed
  <2> DEFINE F == [o \in orders |-> IF o \in met THEN Filled(o) ELSE o]
  <2>2. orders' = {F[o] : o \in orders}
    BY <2>0 DEF Matched
  <2>3. \A o \in orders : F[o] \in {o, Filled(o)}
    OBVIOUS
  <2> HIDE DEF F
  <2> QED
    BY <2>1, <2>2, <2>3, MarketMoney
<1>3. CASE SnapshotReplayed \/ DiffReplayed
  BY <1>2, <1>3 DEF SnapshotReplayed, DiffReplayed
<1>4. CASE TradeReplayed
  <2>1. executed' = Executions(orders') /\ UNCHANGED stratVars
    BY <1>4 DEF TradeReplayed
  <2>2. PICK taker \in Side, px \in Price, qty \in {0, 1} :
          \E atPrice \in SUBSET {o \in orders : Hit(o, taker, px) /\ o.px = px} :
            orders' = IF qty = 0 THEN orders
                      ELSE {IF Hit(o, taker, px) /\ (o.px # px \/ o \in atPrice) THEN Filled(o) ELSE o
                              : o \in orders}
    BY <1>4 DEF TradeReplayed
  <2>3. PICK atPrice \in SUBSET {o \in orders : Hit(o, taker, px) /\ o.px = px} :
          orders' = IF qty = 0 THEN orders
                    ELSE {IF Hit(o, taker, px) /\ (o.px # px \/ o \in atPrice) THEN Filled(o) ELSE o
                            : o \in orders}
    BY <2>2
  <2> DEFINE F == [o \in orders |-> IF qty # 0 /\ Hit(o, taker, px) /\ (o.px # px \/ o \in atPrice)
                                    THEN Filled(o) ELSE o]
  <2>4. orders' = {F[o] : o \in orders}
    <3>1. CASE qty = 0
      <4>1. \A o \in orders : F[o] = o
        BY <3>1
      <4> HIDE DEF F
      <4> QED
        BY <2>3, <3>1, <4>1
    <3>2. CASE qty # 0
      <4>1. orders' = {IF Hit(o, taker, px) /\ (o.px # px \/ o \in atPrice) THEN Filled(o) ELSE o : o \in orders}
        BY <2>3, <3>2
      <4>2. \A o \in orders : F[o] = IF Hit(o, taker, px) /\ (o.px # px \/ o \in atPrice) THEN Filled(o) ELSE o
        BY <3>2
      <4> HIDE DEF F
      <4> QED
        BY <4>1, <4>2
    <3> QED
      BY <3>1, <3>2
  <2>5. \A o \in orders : F[o] \in {o, Filled(o)}
    OBVIOUS
  <2> HIDE DEF F
  <2> QED
    BY <2>1, <2>4, <2>5, MarketMoney
<1>5. CASE UNCHANGED <<orders, executed, nextOid, filledIds, position>>
  BY <1>5 DEF MoneyInv
<1>6. (LocalSees \/ UNCHANGED vars) => UNCHANGED <<orders, executed, nextOid, filledIds, position>>
  BY DEF LocalSees, vars, stratVars
<1>7. ASSUME NEW fills \in ToHarvest
      PROVE  /\ Kept(Harvested(Own, fills))
             /\ Harvested(Own, fills).filledIds = filledIds \cup FillIds(orders)
             /\ Continues(Harvested(Own, fills), Settled(position, fills))
  BY <1>1, HarvestKept, HarvestContinues DEF FillIds
<1>8. CASE Turn
  <2>1. PICK fills \in ToHarvest, skew \in Skews :
          LET st == Harvested(Own, fills)
          IN  IF HasTouch(local) /\ Touch(local) # prevL1
              THEN nextOid + 1 <= MaxOrders /\ OwnBecomes(Requoted(st, Touch(local), skew))
              ELSE OwnBecomes(st)
    BY <1>8 DEF Turn
  <2> DEFINE st == Harvested(Own, fills)
             quoted == Requoted(st, Touch(local), skew)
  <2>2. Kept(st) /\ st.filledIds = filledIds \cup FillIds(orders) /\ Continues(st, Settled(position, fills))
    BY <1>7
  <2> HIDE DEF st
  <2>3. CASE OwnBecomes(st)
    BY <2>2, <2>3, TurnMoney
  <2>4. CASE HasTouch(local) /\ OwnBecomes(quoted)
    <3>1. quoted.filledIds = st.filledIds /\ Continues(quoted, Settled(position, fills))
      BY <2>2, <2>4, RequoteKept, RequoteContinues
    <3> HIDE DEF quoted
    <3> QED
      BY <2>2, <2>4, <3>1, TurnMoney
  <2> QED
    BY <2>1, <2>3, <2>4 DEF st
<1>9. CASE DataEnds
  <2>1. PICK fills \in ToHarvest : OwnBecomes(Harvested(Own, fills))
    BY <1>9 DEF DataEnds
  <2> QED
    BY <1>7, <2>1, TurnMoney
<1> QED
  BY <1>3, <1>4, <1>5, <1>6, <1>8, <1>9 DEF Next

(* The accounts hold of every replay: whatever fills, in whatever order    *)
(* they are harvested and however often the position changes side.         *)
THEOREM MoneyInvariant == Spec => []MoneyInv
<1>1. Init => MoneyInv
  BY MoneyInit
<1>2. OrderInv /\ OrderInv' /\ MoneyInv /\ [Next]_vars => MoneyInv'
  BY MoneyStep
<1> QED
  BY <1>1, <1>2, OrdersInvariant, PTL DEF Spec

(* The strategy's position and its realized profit are those of the fills  *)
(* it has harvested, each booked once (hft_runner.py, _harvest); from any  *)
(* position it reaches a further fill of any size is accounted for, also   *)
(* one that closes more than the position (types.py, apply_fill).          *)
THEOREM PositionIsTheFills == Spec => []PositionIsFills
<1>1. OrderInv /\ MoneyInv => PositionIsFills
  <2> SUFFICES ASSUME OrderInv, MoneyInv PROVE PositionIsFills
    OBVIOUS
  <2>1. /\ CashFlows = CashIn(executed, filledIds, nextOid - 1)
        /\ Quantities = QtyIn(executed, filledIds, nextOid - 1)
    BY DEF CashFlows, Quantities, ExecutionOf, CashIn, QtyIn, In
  <2> DEFINE cash == Total(CashFlows)
             qty == Total(Quantities)
  <2>2. position \in PositionType /\ cash \in Int /\ qty \in Int /\ Accounts(position, cash, qty)
    <3>1. position \in PositionType /\ Accounts(position, cash, qty)
      BY <2>1 DEF MoneyInv
    <3>2. cash \in Int /\ qty \in Int
      <4>1. nextOid - 1 \in Nat
        BY DEF OrderInv, Kept, Own
      <4>2. Registered(executed) /\ filledIds \subseteq IdsIn(executed)
        BY DEF MoneyInv, OrderInv, IdsIn
      <4>3. CashFlows \in [1..(nextOid - 1) -> Int] /\ Quantities \in [1..(nextOid - 1) -> Int]
        BY <2>1, <4>1, <4>2, FlowsTyped
      <4>4. \A n \in Nat : \A f \in [1..n -> Int] : Total(f) \in Int
        BY SumLoop
      <4> QED
        BY <4>1, <4>3, <4>4
    <3> QED
      BY <3>1, <3>2
  <2> HIDE DEF cash, qty
  <2>3. ASSUME NEW signed \in (-MaxFill..MaxFill) \ {0}, NEW px \in Price
        PROVE  Accounts(ApplyFill(position, signed, px), cash - signed * px, qty + signed)
    <3>1. signed \in Int \ {0} /\ px \in Int /\ cash - signed * px = cash + (-signed) * px
      BY <2>2, BacktestAssumption DEF Price
    <3> QED
      BY <2>2, <3>1, FillAccounts
  <2> QED
    BY <2>2, <2>3 DEF PositionIsFills, cash, qty
<1> QED
  BY <1>1, OrdersInvariant, MoneyInvariant, PTL

(* Types, counters and quotes of the strategy, on every replay.            *)
THEOREM OrdersHold == Spec => []OrdersInv
<1>1. BookInv /\ OrderInv /\ MoneyInv => OrdersInv
  <2> SUFFICES ASSUME BookInv, OrderInv, MoneyInv PROVE OrdersInv
    OBVIOUS
  <2>1. /\ events \in 1..MaxEvents /\ trades \in 0..MaxTrades /\ Len(wire) <= Window
        /\ {replay, nautilus, exch, local} \subseteq [Side -> Levels]
        /\ reach \in [Side -> SUBSET Price]
    BY DEF BookInv, BookType, Wires, Reaches
  <2>2. \A s \in Side : Cardinality(reach[s]) <= 1
    <3> TAKE s \in Side
    <3>1. CASE reach[s] = {}
      BY <3>1, FS_EmptySet
    <3>2. CASE \E r \in Price : reach[s] = {r}
      <4>1. PICK r \in Price : reach[s] = {r}
        BY <3>2
      <4>2. Cardinality({r}) = 1
        BY FS_Singleton
      <4> QED
        BY <4>1, <4>2
    <3> QED
      BY <3>1, <3>2 DEF BookInv, AtMostOne
  <2>3. /\ \A o \in orders : o.id \in 1..(nextOid - 1) /\ o.status \in {"new", "filled", "canceled", "expired"}
        /\ \A o, p \in orders : o.id = p.id => o = p
    BY DEF OrderInv, Kept, Own, Marks
  <2>4. position.avg.d # 0 /\ position.realized.d # 0
    BY DEF MoneyInv, PositionType, Fraction
  <2>5. TypeOK
    BY <2>1, <2>2, <2>3, <2>4 DEF TypeOK
  <2> QED
    BY <2>5, OrdersAreAccounted, QuotesAreCurrent DEF OrdersInv
<1> QED
  BY <1>1, BooksInvariant, OrdersInvariant, MoneyInvariant, PTL
=============================================================================
