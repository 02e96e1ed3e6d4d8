----------------------------- MODULE FeedProofs -----------------------------
(***************************************************************************)
(* Lemmas about the sequences of Feed, raw frames and published events;    *)
(* the proof that Feed keeps IInv, first SessionInv (the tasks and their   *)
(* buffers), then PipelineInv (the published stream leads from the         *)
(* consumer's book to the live book); the theorems that follow from it,    *)
(* and that both books implement VenueReplica.                             *)
(*                                                                         *)
(* Then what those who read the feed rely on.  The honesty check runs the  *)
(* feed and nothing but the feed, the copy it replays is the venue's book, *)
(* and a level it reports as different did change after the REST answer.   *)
(* The queue keeps the promise that Publisher states: every step of the    *)
(* feed is a step of Publisher or leaves its variables alone; the mapping  *)
(* needs an invariant of the line of frames from the socket to the queue:  *)
(* diffs stay in the order of their ids and come after what was published. *)
(***************************************************************************)
EXTENDS FeedInv, HonestyProps, FeedPublishes, BookProofs, SequenceTheorems, FiniteSetTheorems


-----------------------------------------------------------------------------
\* Sequences of messages.

LEMMA MsgFields ==
  ASSUME NEW m \in Msg
  PROVE  /\ m.U \in UpdateId /\ m.u \in UpdateId /\ m.pu \in UpdateId
         /\ m.U \in Nat /\ m.u \in Nat /\ m.pu \in Nat
  BY VenueAssumption DEF Msg, UpdateId

LEMMA GoodAppend ==
  ASSUME NEW s \in Seq(Msg), NEW m \in Msg, NEW kinds, NEW h \in Nat,
         AllGood(s, kinds, h), GoodMsg(m, kinds, h)
  PROVE  Append(s, m) \in Seq(Msg) /\ AllGood(Append(s, m), kinds, h)
  BY DEF AllGood

LEMMA GoodTail ==
  ASSUME NEW s \in Seq(Msg), NEW kinds, NEW h \in Nat,
         AllGood(s, kinds, h), s # << >>
  PROVE  /\ Head(s) \in Msg /\ GoodMsg(Head(s), kinds, h)
         /\ Tail(s) \in Seq(Msg) /\ AllGood(Tail(s), kinds, h)
  BY DEF AllGood

LEMMA GoodConcat ==
  ASSUME NEW s \in Seq(Msg), NEW t \in Seq(Msg), NEW kinds, NEW h \in Nat,
         AllGood(s, kinds, h), AllGood(t, kinds, h)
  PROVE  s \o t \in Seq(Msg) /\ AllGood(s \o t, kinds, h)
  BY DEF AllGood

(* A bounded buffer of good messages takes one more, or gives its first.    *)
LEMMA BufferAppend ==
  ASSUME NEW s, NEW m \in Msg, NEW kinds, NEW h \in Nat, NEW n \in Nat,
         Buffer(s, kinds, h, n), Len(s) < n, GoodMsg(m, kinds, h)
  PROVE  Buffer(Append(s, m), kinds, h, n)
<1>1. s \in Seq(Msg) /\ AllGood(s, kinds, h)
  BY DEF Buffer
<1>2. Append(s, m) \in Seq(Msg) /\ AllGood(Append(s, m), kinds, h)
  BY <1>1, GoodAppend
<1>3. Len(Append(s, m)) = Len(s) + 1 /\ Len(s) \in Nat
  BY <1>1
<1>4. QED
  BY <1>2, <1>3 DEF Buffer

LEMMA BufferTail ==
  ASSUME NEW s, NEW kinds, NEW h \in Nat, NEW n \in Nat,
         Buffer(s, kinds, h, n), s # << >>
  PROVE  /\ Head(s) \in Msg /\ GoodMsg(Head(s), kinds, h)
         /\ Buffer(Tail(s), kinds, h, n)
<1>1. s \in Seq(Msg) /\ AllGood(s, kinds, h) /\ Len(s) <= n
  BY DEF Buffer
<1>2. /\ Head(s) \in Msg /\ GoodMsg(Head(s), kinds, h)
      /\ Tail(s) \in Seq(Msg) /\ AllGood(Tail(s), kinds, h)
  BY <1>1, GoodTail
<1>3. Len(Tail(s)) = Len(s) - 1 /\ Len(s) \in Nat
  BY <1>1
<1>4. QED
  BY <1>1, <1>2, <1>3 DEF Buffer

LEMMA BufferEmpty ==
  ASSUME NEW kinds, NEW h \in Nat, NEW n \in Nat
  PROVE  Buffer(<< >>, kinds, h, n)
  BY DEF Buffer, AllGood

LEMMA GoodLater ==
  ASSUME NEW s \in Seq(Msg), NEW kinds, NEW h \in Nat, NEW h2 \in Nat, h <= h2,
         AllGood(s, kinds, h)
  PROVE  AllGood(s, kinds, h2)
<1>1. ASSUME NEW i \in 1..Len(s) PROVE s[i].u \in Nat
  <2>1. s[i] \in Msg
    OBVIOUS
  <2>2. QED
    BY <2>1, MsgFields
<1>2. QED
  BY <1>1 DEF AllGood, GoodMsg

LEMMA BufferLater ==
  ASSUME NEW s, NEW kinds, NEW h \in Nat, NEW h2 \in Nat, h <= h2, NEW n \in Nat,
         Buffer(s, kinds, h, n)
  PROVE  Buffer(s, kinds, h2, n)
  BY GoodLater DEF Buffer

LEMMA ConcatHead ==
  ASSUME NEW s \in Seq(Msg), NEW t \in Seq(Msg), s \o t # << >>
  PROVE  /\ s # << >> => Head(s \o t) = Head(s)
         /\ s = << >> => t # << >> /\ Head(s \o t) = Head(t)
  OBVIOUS

-----------------------------------------------------------------------------
\* Chains of positions.

Place == [last : UpdateId \cup {NoId}, seqReady : BOOLEAN]

(* One more event: a diff must follow the position t the chain reaches.    *)
LEMMA ChainAppend ==
  ASSUME NEW P \in Seq(Msg), NEW e \in Msg, NEW r \in Place, NEW t \in Place,
         Chained(r, P), e.kind = "depth" => Reaches(r, P, t) /\ Follows(t, e)
  PROVE  Chained(r, Append(P, e))
<1> DEFINE Q == Append(P, e)
<1>1. /\ Len(P) \in Nat /\ Len(Q) = Len(P) + 1 /\ Q[Len(P) + 1] = e
      /\ \A i \in 1..Len(P) : Q[i] = P[i]
  OBVIOUS
<1> HIDE DEF Q
<1>2. ASSUME NEW i \in 0..Len(Q), NEW j \in 1..Len(Q), i < j, Moves(Q, i),
             OnlyTrades(Q, i, j), Q[j].kind = "depth"
      PROVE  Follows(PlaceOf(r, Q, i), Q[j])
  <2>0. i \in 0..Len(P)
    BY <1>1, <1>2
  <2>1. Moves(P, i) /\ PlaceOf(r, P, i) = PlaceOf(r, Q, i) /\ OnlyTrades(P, i, j)
    BY <1>1, <1>2, <2>0 DEF Moves, PlaceOf, OnlyTrades
  <2>2. CASE j \in 1..Len(P)
    BY <1>1, <1>2, <2>0, <2>1, <2>2 DEF Chained
  <2>3. CASE j = Len(P) + 1
    BY <1>1, <1>2, <2>0, <2>1, <2>3 DEF Reaches
  <2>4. QED
    BY <1>1, <2>2, <2>3
<1>3. Chained(r, Q)
  BY <1>2 DEF Chained
<1>4. QED
  BY <1>3 DEF Q

(* An event that is no trade is where the chain ends; a trade ends nothing. *)
LEMMA ReachAppend ==
  ASSUME NEW P \in Seq(Msg), NEW e \in Msg, NEW r \in Place, NEW t \in Place
  PROVE  /\ e.kind # "trade" => Reaches(r, Append(P, e), After(e))
         /\ e.kind = "trade" /\ Reaches(r, P, t) => Reaches(r, Append(P, e), t)
<1> DEFINE Q == Append(P, e)
<1>1. /\ Len(P) \in Nat /\ Len(Q) = Len(P) + 1 /\ Q[Len(P) + 1] = e
      /\ \A i \in 1..Len(P) : Q[i] = P[i]
  OBVIOUS
<1> HIDE DEF Q
<1>2. ASSUME e.kind # "trade", NEW i \in 0..Len(Q), Moves(Q, i),
             OnlyTrades(Q, i, Len(Q) + 1)
      PROVE  PlaceOf(r, Q, i) = After(e)
  BY <1>1, <1>2 DEF Moves, PlaceOf, OnlyTrades
<1>3. ASSUME e.kind = "trade", Reaches(r, P, t), NEW i \in 0..Len(Q), Moves(Q, i),
             OnlyTrades(Q, i, Len(Q) + 1)
      PROVE  PlaceOf(r, Q, i) = t
  <2>1. i \in 0..Len(P)
    BY <1>1, <1>3 DEF Moves
  <2>2. Moves(P, i) /\ PlaceOf(r, P, i) = PlaceOf(r, Q, i) /\ OnlyTrades(P, i, Len(P) + 1)
    BY <1>1, <1>3, <2>1 DEF Moves, PlaceOf, OnlyTrades
  <2>3. QED
    BY <1>3, <2>1, <2>2 DEF Reaches
<1>4. /\ e.kind # "trade" => Reaches(r, Q, After(e))
      /\ e.kind = "trade" /\ Reaches(r, P, t) => Reaches(r, Q, t)
  BY <1>2, <1>3 DEF Reaches
<1>5. QED
  BY <1>4 DEF Q

(* Taking the first event moves the start.                                 *)
LEMMA ChainTail ==
  ASSUME NEW P \in Seq(Msg), P # << >>, NEW r \in Place, NEW r2 \in Place,
         r2 = IF P[1].kind = "trade" THEN r ELSE After(P[1]),
         Chained(r, P)
  PROVE  /\ Chained(r2, Tail(P))
         /\ \A t \in Place : Reaches(r, P, t) => Reaches(r2, Tail(P), t)
<1> DEFINE Q == Tail(P)
           from(i) == IF i = 0 /\ P[1].kind = "trade" THEN 0 ELSE i + 1
<1>1. /\ Len(P) \in Nat /\ Len(P) > 0 /\ Len(Q) = Len(P) - 1
      /\ \A i \in 1..Len(Q) : Q[i] = P[i + 1]
  OBVIOUS
<1> HIDE DEF Q
<1>2. ASSUME NEW i \in 0..Len(Q), Moves(Q, i), NEW j \in 1..(Len(Q) + 1),
             i < j, OnlyTrades(Q, i, j)
      PROVE  /\ from(i) \in 0..Len(P) /\ from(i) < j + 1 /\ Moves(P, from(i))
             /\ PlaceOf(r, P, from(i)) = PlaceOf(r2, Q, i)
             /\ OnlyTrades(P, from(i), j + 1)
  <2>1. from(i) \in 0..Len(P) /\ from(i) < j + 1
    BY <1>1, <1>2
  <2>2. Moves(P, from(i)) /\ PlaceOf(r, P, from(i)) = PlaceOf(r2, Q, i)
    BY <1>1, <1>2 DEF Moves, PlaceOf
  <2>3. ASSUME NEW k \in (from(i) + 1) .. j PROVE P[k].kind = "trade"
    <3>1. CASE k = 1
      BY <1>1, <1>2, <2>3, <3>1
    <3>2. CASE k # 1
      <4>1. k - 1 \in (i + 1) .. (j - 1) /\ k - 1 \in 1..Len(Q) /\ Q[k - 1] = P[k]
        BY <1>1, <1>2, <2>3, <3>2
      <4>2. QED
        BY <1>2, <4>1 DEF OnlyTrades
    <3>3. QED
      BY <3>1, <3>2
  <2>4. QED
    BY <1>1, <2>1, <2>2, <2>3 DEF OnlyTrades
<1>3. ASSUME NEW i \in 0..Len(Q), NEW j \in 1..Len(Q), i < j, Moves(Q, i),
             OnlyTrades(Q, i, j), Q[j].kind = "depth"
      PROVE  Follows(PlaceOf(r2, Q, i), Q[j])
  <2>1. j + 1 \in 1..Len(P) /\ P[j + 1] = Q[j] /\ j \in 1..(Len(Q) + 1)
    BY <1>1
  <2>2. QED
    BY <1>2, <1>3, <2>1 DEF Chained
<1>4. ASSUME NEW t \in Place, Reaches(r, P, t), NEW i \in 0..Len(Q), Moves(Q, i),
             OnlyTrades(Q, i, Len(Q) + 1)
      PROVE  PlaceOf(r2, Q, i) = t
  <2>1. OnlyTrades(P, from(i), Len(P) + 1) /\ Moves(P, from(i))
        /\ from(i) \in 0..Len(P) /\ PlaceOf(r, P, from(i)) = PlaceOf(r2, Q, i)
    BY <1>1, <1>2, <1>4
  <2>2. QED
    BY <1>4, <2>1 DEF Reaches
<1>5. QED
  BY <1>3, <1>4 DEF Chained, Reaches, Q

(* Dropping the last event keeps the chain.                                *)
LEMMA ChainPrefix ==
  ASSUME NEW P \in Seq(Msg), NEW e \in Msg, NEW r \in Place, Chained(r, Append(P, e))
  PROVE  Chained(r, P)
<1> DEFINE Q == Append(P, e)
<1>1. /\ Len(P) \in Nat /\ Len(Q) = Len(P) + 1 /\ \A i \in 1..Len(P) : Q[i] = P[i]
  OBVIOUS
<1> HIDE DEF Q
<1>2. ASSUME NEW i \in 0..Len(P), NEW j \in 1..Len(P), i < j, Moves(P, i),
             OnlyTrades(P, i, j), P[j].kind = "depth"
      PROVE  Follows(PlaceOf(r, P, i), P[j])
  <2>1. Moves(Q, i) /\ PlaceOf(r, P, i) = PlaceOf(r, Q, i) /\ OnlyTrades(Q, i, j)
    BY <1>1, <1>2 DEF Moves, PlaceOf, OnlyTrades
  <2>2. Chained(r, Q)
    BY DEF Q
  <2>3. QED
    BY <1>1, <1>2, <2>1, <2>2 DEF Chained
<1>3. QED
  BY <1>2 DEF Chained

-----------------------------------------------------------------------------
\* Every action keeps SessionInv.

(* SessionInv contains the whole of TypeOK.                                *)
LEMMA SessionTypes == SessionInv => TypeOK
  BY DEF SessionInv, Scalars, FramesGood, EventsGood, Buffer, TypeOK

LEMMA Bounds == MaxWire \in Nat /\ RawMax \in Nat /\ QueueMax \in Nat
  BY FeedAssumption

LEMMA InitSession == Init => SessionInv
<1> SUFFICES ASSUME Init PROVE SessionInv
  OBVIOUS
<1> USE VenueAssumption, FeedAssumption DEF Init
<1>0. NoId \notin Nat /\ 0 \in UpdateId /\ head \in Nat
  BY DEF NoId, UpdateId
<1>1. EmptyBook \in Book
  BY <1>0 DEF EmptyBook, Book
<1>2. NoEpoch \in Synchronizer /\ NoEpoch.buffer = << >> /\ NoEpoch.validator.last = NoId
  BY DEF NoEpoch, Synchronizer, Validator, NoValidator
<1>3. NoMsg \in Msg
  BY <1>0 DEF NoMsg, Mark, Msg, Kind
<1>4. Scalars
  <2>1. batchEnd \in 0..head /\ tries \in 0..MaxRetries
    OBVIOUS
  <2>2. frozenDeltas \in Seq(Msg) /\ pc \in Pc /\ pump \in Pump
    BY DEF Pc, Pump
  <2>3. QED
    BY <1>0, <1>1, <1>2, <1>3, <2>1, <2>2 DEF Scalars
<1>5. FramesGood
  BY <1>0, BufferEmpty, Bounds DEF FramesGood, AllGood
<1>6. EventsGood
  BY <1>0, BufferEmpty, Bounds DEF EventsGood
<1>7. EpochGood
  BY <1>2 DEF EpochGood, InEpoch
<1>8. BooksBehind /\ Lockstep
  BY <1>2 DEF BooksBehind, Lockstep, Awaiting, EmptyBook, NoId
<1>9. BookFaithful
  BY DEF BookFaithful, Faithful, EmptyBook
<1>10. QED
  BY <1>4, <1>5, <1>6, <1>7, <1>8, <1>9 DEF SessionInv

-----------------------------------------------------------------------------
\* SessionInv under the venue and the pump.

LEMMA VenueUpdateSession == SessionInv /\ VenueUpdate => SessionInv'
<1> SUFFICES ASSUME SessionInv, VenueUpdate PROVE SessionInv'
  OBVIOUS
<1> USE VenueAssumption DEF SessionInv, VenueUpdate, venueVars, socketVars, rawVars, freezeVars
<1>1. head \in Nat /\ head' \in Nat /\ head <= head'
  BY DEF Scalars, UpdateId
<1>2. Scalars'
  BY DEF Scalars, UpdateId
<1>3. FramesGood' /\ Buffer(queue', EventKinds, head', QueueMax)
  BY <1>1, Bounds, BufferLater, GoodLater DEF FramesGood, EventsGood
<1>4. out.u \in Nat
  BY MsgFields DEF Scalars
<1>5. EventsGood'
  BY <1>1, <1>3, <1>4 DEF EventsGood, GoodMsg
<1>6. BooksBehind'
  BY <1>1 DEF BooksBehind, Scalars, Book, UpdateId, NoId
<1>7. EpochGood' /\ Lockstep' /\ BookFaithful'
  BY DEF EpochGood, InEpoch, Lockstep, BookFaithful
<1>8. QED
  BY <1>2, <1>3, <1>5, <1>6, <1>7

LEMMA VenueDiffSession == SessionInv /\ VenueDiff => SessionInv'
<1> SUFFICES ASSUME SessionInv, VenueDiff PROVE SessionInv'
  OBVIOUS
<1> USE VenueAssumption DEF SessionInv, venueVars, socketVars, rawVars, freezeVars
<1>1. /\ UNCHANGED <<head, wsOpen, pump, rawVars, pc, tries, out, stopped, sync,
                     book, freezeVars, queue, replica>>
      /\ batchEnd' = head
  BY DEF VenueDiff
<1>2. head \in Nat /\ head \in UpdateId /\ batchEnd \in UpdateId
  BY DEF Scalars, UpdateId
<1>3. \/ wire' = wire
      \/ \E m \in Msg : /\ GoodMsg(m, FrameKinds, head) /\ Len(wire) < MaxWire
                        /\ wire' = Append(wire, m)
  <2>1. PICK U \in (batchEnd + 1) .. head, fate \in {"sent", "garbled", "list", "lost"} :
          LET d == Diff(U, head, batchEnd)
              frame == IF fate = "sent" THEN d ELSE Mark(fate)
          IN  /\ IsDiff(d)
              /\ \/ fate = "lost" /\ UNCHANGED wire
                 \/ fate # "lost" /\ wsOpen /\ Len(wire) < MaxWire /\ wire' = Append(wire, frame)
    BY FeedAssumption DEF VenueDiff
  <2>2. /\ Diff(U, head, batchEnd) \in Msg
        /\ Mark("garbled") \in Msg /\ Mark("list") \in Msg
    BY <1>2 DEF Diff, Mark, Msg, Kind, UpdateId
  <2>3. IsDiff(Diff(U, head, batchEnd)) => GoodMsg(Diff(U, head, batchEnd), FrameKinds, head)
    BY <1>2 DEF GoodMsg, FrameKinds, Diff
  <2>4. GoodMsg(Mark("garbled"), FrameKinds, head) /\ GoodMsg(Mark("list"), FrameKinds, head)
    BY <1>2 DEF GoodMsg, FrameKinds, Mark
  <2>5. QED
    BY <2>1, <2>2, <2>3, <2>4
<1>4. Buffer(wire', FrameKinds, head, MaxWire)
  BY <1>2, <1>3, BufferAppend, Bounds DEF FramesGood
<1>5. Scalars'
  BY <1>1, <1>2 DEF Scalars
<1>6. FramesGood' /\ EventsGood'
  BY <1>1, <1>4 DEF FramesGood, EventsGood
<1>7. EpochGood' /\ BooksBehind' /\ Lockstep' /\ BookFaithful'
  BY <1>1 DEF EpochGood, InEpoch, BooksBehind, Lockstep, BookFaithful
<1>8. QED
  BY <1>5, <1>6, <1>7

LEMMA SocketSession == SessionInv /\ (VenueTrade \/ SocketClose) => SessionInv'
<1> SUFFICES ASSUME SessionInv, VenueTrade \/ SocketClose PROVE SessionInv'
  OBVIOUS
<1> USE VenueAssumption, FeedAssumption
    DEF SessionInv, VenueTrade, SocketClose, venueVars, socketVars, rawVars, freezeVars
<1>1. Mark("trade") \in Msg /\ GoodMsg(Mark("trade"), FrameKinds, head) /\ head \in Nat
  BY DEF Mark, Msg, Kind, UpdateId, GoodMsg, FrameKinds, Scalars
<1>2. Buffer(wire', FrameKinds, head, MaxWire)
  BY <1>1, BufferAppend, Bounds DEF FramesGood
<1>3. Scalars'
  BY DEF Scalars
<1>4. FramesGood' /\ EventsGood'
  BY <1>2 DEF FramesGood, EventsGood
<1>5. EpochGood' /\ BooksBehind' /\ Lockstep' /\ BookFaithful'
  BY DEF EpochGood, InEpoch, BooksBehind, Lockstep, BookFaithful
<1>6. QED
  BY <1>3, <1>4, <1>5

LEMMA PumpSession == SessionInv /\ PumpStep => SessionInv'
<1> SUFFICES ASSUME SessionInv, PumpStep PROVE SessionInv'
  OBVIOUS
<1> USE VenueAssumption, FeedAssumption
    DEF SessionInv, PumpStep, PumpFrame, PumpSentinel, PumpCancelled,
        venueVars, socketVars, rawVars, freezeVars
<1>1. Sentinel \in Msg /\ GoodMsg(Sentinel, FrameKinds, head) /\ head \in Nat
  BY DEF Sentinel, Mark, Msg, Kind, UpdateId, GoodMsg, FrameKinds, Scalars
<1>2. wire # << >> => /\ Head(wire) \in Msg /\ GoodMsg(Head(wire), FrameKinds, head)
                      /\ Buffer(Tail(wire), FrameKinds, head, MaxWire)
  BY <1>1, BufferTail, Bounds DEF FramesGood
<1>3. Buffer(wire', FrameKinds, head, MaxWire)
  BY <1>2 DEF FramesGood
<1>4. Buffer(incoming', FrameKinds, head, RawMax)
  <2>1. ASSUME NEW m \in Msg, GoodMsg(m, FrameKinds, head), Len(incoming) < RawMax
        PROVE  Buffer(Append(incoming, m), FrameKinds, head, RawMax)
    BY ONLY SessionInv, <1>1, <2>1, BufferAppend, Bounds DEF SessionInv, FramesGood
  <2>2. \/ incoming' = incoming
        \/ incoming' = Append(incoming, Sentinel) /\ Len(incoming) < RawMax
        \/ incoming' = Append(incoming, Head(wire)) /\ Len(incoming) < RawMax /\ wire # << >>
    OBVIOUS
  <2>3. QED
    BY ONLY SessionInv, <1>1, <1>2, <2>1, <2>2 DEF SessionInv, FramesGood
<1>5. Scalars'
  <2>1. /\ UNCHANGED <<head, batchEnd, wsOpen, pc, tries, out, stopped, sync, book,
                       replica, frozen, frozenDeltas>>
        /\ pump' \in {"off", "ended", "failed", pump}
    OBVIOUS
  <2>2. QED
    BY ONLY SessionInv, <2>1 DEF SessionInv, Scalars, Pump
<1>6. FramesGood' /\ EventsGood'
  BY <1>3, <1>4 DEF FramesGood, EventsGood
<1>7. EpochGood' /\ BooksBehind' /\ Lockstep' /\ BookFaithful'
  BY DEF EpochGood, InEpoch, BooksBehind, Lockstep, BookFaithful
<1>8. QED
  BY <1>5, <1>6, <1>7

-----------------------------------------------------------------------------
(***************************************************************************)
(* Most steps publish nothing: they move the task, drop or keep frames,    *)
(* and leave the books alone but for losing the epoch.                     *)
(***************************************************************************)
Quiet ==
  /\ UNCHANGED <<head, batchEnd, queue, replica>>
  /\ FramesGood'
  /\ pc' \in Pc /\ pump' \in Pump
  /\ tries' \in 0..MaxRetries /\ out' \in Msg /\ wsOpen' \in BOOLEAN
  /\ stopped' \in BOOLEAN /\ frozen' \in BOOLEAN /\ frozenDeltas' \in Seq(Msg)
  /\ \/ UNCHANGED <<pc, out, sync, book>>
     \/ /\ pc' \notin {"publish", "next"}
        /\ \/ UNCHANGED sync /\ book' \in {book, MarkUnsynced(book)}
           \/ sync' = NoEpoch /\ book' = MarkUnsynced(book)

LEMMA NoEpochType == /\ NoEpoch \in Synchronizer /\ NoEpoch.buffer = << >>
                     /\ NoEpoch.validator.last = NoId /\ Awaiting(NoEpoch)
  BY DEF NoEpoch, Synchronizer, Validator, NoValidator, Awaiting

LEMMA QuietSession == SessionInv /\ Quiet => SessionInv'
<1> SUFFICES ASSUME SessionInv, Quiet PROVE SessionInv'
  OBVIOUS
<1>1. book \in Book /\ book' \in Book /\ replica \in Book /\ sync' \in Synchronizer
  BY NoEpochType, MarkedType DEF SessionInv, Scalars, Quiet
<1>2. /\ book'.last = book.last /\ book'.levels = book.levels /\ book'.known = book.known
      /\ book'.seqReady = book.seqReady
      /\ book' = book \/ book'.isSynced = FALSE
  BY <1>1 DEF Quiet, MarkUnsynced, Book
<1>3. Scalars'
  BY <1>1 DEF SessionInv, Scalars, Quiet
<1>4. EventsGood'
  BY DEF SessionInv, EventsGood, Quiet
<1>5. EpochGood'
  BY NoEpochType DEF SessionInv, EpochGood, InEpoch, Quiet
<1>6. BooksBehind' /\ BookFaithful'
  BY <1>2 DEF SessionInv, BooksBehind, BookFaithful, Faithful, Quiet
<1>7. Lockstep'
  <2>1. ~MarkUnsynced(book).isSynced
    BY ONLY <1>1, MarkedType
  <2>2. sync' = sync \/ (sync' = NoEpoch /\ ~book'.isSynced)
    BY <2>1 DEF Quiet
  <2>3. QED
    BY <1>2, <2>2, NoEpochType DEF SessionInv, Lockstep, Awaiting
<1>8. FramesGood'
  BY DEF Quiet
<1>9. QED
  BY <1>3, <1>4, <1>5, <1>6, <1>7, <1>8 DEF SessionInv

(* The frame a handler takes is good, and so is what stays behind.         *)
LEMMA FrameGood ==
  SessionInv /\ Arrived # << >> => /\ Frame \in Msg /\ GoodMsg(Frame, FrameKinds, head)
                                  /\ Tail(Arrived) \in Seq(Msg)
                                  /\ AllGood(Tail(Arrived), FrameKinds, head)
<1> SUFFICES ASSUME SessionInv, Arrived # << >>
             PROVE  /\ Frame \in Msg /\ GoodMsg(Frame, FrameKinds, head)
                    /\ Tail(Arrived) \in Seq(Msg)
                    /\ AllGood(Tail(Arrived), FrameKinds, head)
  OBVIOUS
<1>1. /\ pending \in Seq(Msg) /\ AllGood(pending, FrameKinds, head) /\ head \in Nat
      /\ incoming \in Seq(Msg) /\ AllGood(incoming, FrameKinds, head)
  BY VenueAssumption DEF SessionInv, FramesGood, Buffer, Scalars, UpdateId
<1>2. Arrived \in Seq(Msg) /\ AllGood(Arrived, FrameKinds, head)
  BY <1>1, GoodConcat DEF Arrived
<1>3. QED
  BY <1>1, <1>2, GoodTail DEF Frame

LEMMA TakeKeepsFrames ==
  SessionInv /\ Arrived # << >> /\ Take /\ UNCHANGED <<head, wire>> => FramesGood'
<1> SUFFICES ASSUME SessionInv, Arrived # << >>, Take, UNCHANGED <<head, wire>>
             PROVE  FramesGood'
  OBVIOUS
<1>1. /\ pending \in Seq(Msg) /\ AllGood(pending, FrameKinds, head) /\ head \in Nat
      /\ Buffer(incoming, FrameKinds, head, RawMax)
      /\ Buffer(wire, FrameKinds, head, MaxWire)
  BY VenueAssumption DEF SessionInv, FramesGood, Buffer, Scalars, UpdateId
<1>2. CASE pending # << >>
  <2>1. pending' = Tail(pending) /\ incoming' = incoming
    BY <1>2 DEF Take
  <2>2. pending' \in Seq(Msg) /\ AllGood(pending', FrameKinds, head)
    BY <1>1, <1>2, <2>1, GoodTail
  <2>3. QED
    BY <1>1, <2>1, <2>2 DEF FramesGood
<1>3. CASE pending = << >>
  <2>1. pending' = pending /\ incoming' = Tail(incoming)
    BY <1>3 DEF Take
  <2>2. incoming # << >>
    BY <1>1, <1>3 DEF Arrived, Buffer
  <2>3. Buffer(incoming', FrameKinds, head, RawMax)
    BY <1>1, <2>1, <2>2, BufferTail, Bounds
  <2>4. QED
    BY <1>1, <2>1, <2>3 DEF FramesGood
<1>4. QED
  BY <1>2, <1>3

-----------------------------------------------------------------------------
\* The quiet steps.

CleanUp == \/ Start \/ Stop \/ LoopStep \/ ConnectFails \/ RestRetry \/ RestFails
           \/ Stale \/ FreezeForHonesty \/ UnfreezeForHonesty

LEMMA CleanUpQuiet == SessionInv /\ CleanUp => Quiet
<1> SUFFICES ASSUME SessionInv, CleanUp PROVE Quiet
  OBVIOUS
<1>1. /\ pc \in Pc /\ pump \in Pump
      /\ tries \in 0..MaxRetries /\ 0 \in 0..MaxRetries
      /\ out \in Msg /\ NoMsg \in Msg /\ wsOpen \in BOOLEAN
      /\ stopped \in BOOLEAN /\ frozen \in BOOLEAN /\ frozenDeltas \in Seq(Msg)
      /\ head \in Nat /\ FramesGood
  BY VenueAssumption, FeedAssumption
     DEF SessionInv, Scalars, NoMsg, Mark, Msg, Kind, UpdateId
<1>2. ASSUME wire' = << >>, incoming' = << >>, pending' = << >>, head' = head
      PROVE  FramesGood'
  BY <1>1, <1>2, BufferEmpty, Bounds DEF FramesGood, AllGood
<1>3. ASSUME UNCHANGED <<wire, incoming, pending, head>> PROVE FramesGood'
  BY <1>1, <1>3 DEF FramesGood
<1>4. CASE Start
  BY <1>1, <1>3, <1>4 DEF Quiet, Start, venueVars, socketVars, rawVars, freezeVars, Pc
<1>5. CASE Stop
  BY <1>1, <1>3, <1>5
     DEF Quiet, Stop, PumpErrorWaits, Cancel, Pump, venueVars, socketVars, rawVars, freezeVars, Pc
<1>6. CASE TaskEnds
  BY <1>1, <1>2, <1>6 DEF Quiet, TaskEnds, DropSession, Pump, venueVars, freezeVars, Pc
<1>7. CASE PumpAwaited
  BY <1>1, <1>3, <1>7 DEF Quiet, PumpAwaited, venueVars, socketVars, rawVars, freezeVars, Pc
<1>8. CASE Disconnect
  BY <1>1, <1>2, <1>8
     DEF Quiet, Disconnect, DropSession, LoseSession, OnDisconnect, Pump, venueVars, freezeVars,
         Pc
<1>9. CASE Retry
  BY <1>1, <1>3, <1>9 DEF Quiet, Retry, venueVars, socketVars, rawVars, freezeVars, Pc
<1>10. CASE ConnectFails
  BY <1>1, <1>3, <1>10
     DEF Quiet, ConnectFails, LoseSession, OnDisconnect, venueVars, socketVars, rawVars,
         freezeVars, Pc
<1>11. CASE RestRetry
  <2>1. tries' \in 0..MaxRetries
    BY <1>1, <1>11, FeedAssumption DEF RestRetry
  <2>2. QED
    BY <1>1, <1>3, <1>11, <2>1
       DEF Quiet, RestRetry, venueVars, socketVars, rawVars, freezeVars, Pc
<1>12. CASE RestFails
  BY <1>1, <1>3, <1>12
     DEF Quiet, RestFails, Unwound, Cancel, Pump, venueVars, socketVars, rawVars, freezeVars, Pc
<1>13. CASE Stale
  <2>1. /\ UNCHANGED <<head, batchEnd, wire, wsOpen, incoming, pending, tries, out, stopped,
                       sync, frozen, frozenDeltas, queue, replica>>
        /\ book' = MarkUnsynced(book)
    BY <1>13 DEF Stale, venueVars, socketVars, rawVars, freezeVars
  <2>2. pc' \in {"unwind", "closing"} /\ pump' \in {"cancelled", pump}
    BY <1>13 DEF Stale, Unwound, Cancel
  <2>3. QED
    BY <1>1, <1>3, <2>1, <2>2 DEF Quiet, Pc, Pump
<1>14. CASE FreezeForHonesty \/ UnfreezeForHonesty
  <2>1. /\ UNCHANGED <<head, batchEnd, wire, wsOpen, pump, incoming, pending, pc, tries,
                       out, stopped, sync, book, queue, replica>>
        /\ frozen' \in BOOLEAN /\ frozenDeltas' = << >>
    BY <1>14 DEF FreezeForHonesty, UnfreezeForHonesty, venueVars, socketVars, rawVars
  <2>2. QED
    BY <1>1, <1>3, <2>1 DEF Quiet
<1>15. QED
  BY <1>4, <1>5, <1>6, <1>7, <1>8, <1>9, <1>10, <1>11, <1>12, <1>13, <1>14
     DEF CleanUp, LoopStep

LEMMA ConnectQuiet == SessionInv /\ Connect => Quiet
<1> SUFFICES ASSUME SessionInv, Connect PROVE Quiet
  OBVIOUS
<1>1. 0 \in 0..MaxRetries /\ head \in Nat
  BY FeedAssumption, VenueAssumption DEF SessionInv, Scalars, UpdateId
<1>2. FramesGood'
  BY <1>1, BufferEmpty, Bounds DEF Connect, FramesGood, AllGood, venueVars
<1>3. QED
  BY <1>1, <1>2 DEF SessionInv, Scalars, Quiet, Connect, Pump, venueVars, freezeVars, Pc

(* While frames are handled the synchronizer never holds a diff, and the   *)
(* book accepts every diff it lets through (_apply_synced_delta).          *)
LEMMA NextAgrees ==
  SessionInv /\ Taking("depth") =>
    /\ Decision(sync, Frame) \in {"apply", "drop_stale", "resync"}
    /\ Decision(sync, Frame) = "apply" => Verdict(book, Frame) = "applied"
    /\ IsDiff(Frame) /\ Frame \in Msg /\ Frame.u <= head
<1> SUFFICES ASSUME SessionInv, Taking("depth")
             PROVE  /\ Decision(sync, Frame) \in {"apply", "drop_stale", "resync"}
                    /\ Decision(sync, Frame) = "apply" => Verdict(book, Frame) = "applied"
                    /\ IsDiff(Frame) /\ Frame \in Msg /\ Frame.u <= head
  OBVIOUS
<1>1. Frame \in Msg /\ GoodMsg(Frame, FrameKinds, head) /\ Frame.kind = "depth"
  BY FrameGood DEF Taking, Frame
<1>2. IsDiff(Frame) /\ Frame.u <= head
  BY <1>1 DEF GoodMsg
<1>3. ~Awaiting(sync) /\ sync.validator \in Validator /\ book \in Book
  BY DEF SessionInv, EpochGood, InEpoch, Taking, Scalars, Synchronizer
<1>4. /\ sync.validator.last = book.last /\ sync.validator.synced = book.seqReady
      /\ book.last # NoId
  BY <1>3 DEF SessionInv, Lockstep, Awaiting
<1>5. Decision(sync, Frame) \in {"apply", "drop_stale", "resync"}
  BY <1>3 DEF Decision
<1>6. Decision(sync, Frame) = "apply" => Judge(sync.validator, Frame) = "apply"
  BY <1>3 DEF Decision
<1>7. QED
  BY <1>1, <1>2, <1>3, <1>4, <1>5, <1>6, ValidatorImpliesBook

QuietHandle == \/ HandleSentinel \/ HandleList \/ HandleGarbled \/ HandleFrozen
               \/ HandleSkipped \/ HandleGap \/ (HandleTrade /\ frozen)

LEMMA HandleQuiet == SessionInv /\ QuietHandle => Quiet
<1> SUFFICES ASSUME SessionInv, QuietHandle PROVE Quiet
  OBVIOUS
<1>1. /\ pc \in Pc /\ pump \in Pump
      /\ tries \in 0..MaxRetries /\ out \in Msg /\ wsOpen \in BOOLEAN
      /\ stopped \in BOOLEAN /\ frozen \in BOOLEAN /\ frozenDeltas \in Seq(Msg)
      /\ head \in Nat
  BY VenueAssumption DEF SessionInv, Scalars, UpdateId
<1>2. ASSUME Arrived # << >>, Take, UNCHANGED <<head, wire>> PROVE FramesGood'
  BY <1>2, TakeKeepsFrames
<1>3. CASE HandleSentinel \/ HandleList
  <2>1. /\ UNCHANGED <<head, batchEnd, wire, wsOpen, tries, out, stopped, sync, book,
                       frozen, frozenDeltas, queue, replica>>
        /\ FramesGood'
    BY <1>2, <1>3 DEF HandleSentinel, HandleList, Taking, venueVars, socketVars, freezeVars
  <2>2. pc' \in {"unwind", "closing"} /\ pump' \in {"cancelled", pump}
    BY <1>3 DEF HandleSentinel, HandleList, Unwound, Cancel
  <2>3. QED
    BY <1>1, <2>1, <2>2 DEF Quiet, Pc, Pump
<1>4. CASE HandleGarbled \/ (HandleTrade /\ frozen)
  <2>1. /\ UNCHANGED <<head, batchEnd, wire, wsOpen, pump, pc, tries, out, stopped, sync, book,
                       frozen, frozenDeltas, queue, replica>>
        /\ FramesGood'
    BY <1>2, <1>4 DEF HandleGarbled, HandleTrade, Taking, venueVars, socketVars, freezeVars
  <2>2. QED
    BY <1>1, <2>1 DEF Quiet
<1>5. CASE HandleFrozen
  <2>1. /\ UNCHANGED <<head, batchEnd, wire, wsOpen, pump, pc, tries, out, stopped, sync, book,
                       frozen, queue, replica>>
        /\ FramesGood'
    BY <1>2, <1>5 DEF HandleFrozen, Taking, venueVars, socketVars
  <2>2. frozenDeltas' \in Seq(Msg)
    BY <1>1, <1>5, FrameGood DEF HandleFrozen, Taking
  <2>3. QED
    BY <1>1, <2>1, <2>2 DEF Quiet
<1>6. CASE HandleSkipped
  <2>1. /\ UNCHANGED <<head, batchEnd, wire, wsOpen, pump, pc, tries, out, stopped, book,
                       frozen, frozenDeltas, queue, replica>>
        /\ FramesGood'
    BY <1>2, <1>6 DEF HandleSkipped, Taking, venueVars, socketVars, freezeVars
  <2>2. Decision(sync, Frame) = "drop_stale"
    BY <1>6, NextAgrees DEF HandleSkipped
  <2>3. sync' = sync
    BY <1>6, <2>2 DEF HandleSkipped, Decide
  <2>4. QED
    BY <1>1, <2>1, <2>3 DEF Quiet
<1>7. CASE HandleGap
  <2>1. UNCHANGED <<head, batchEnd, wire, wsOpen, pump, tries, out, stopped,
                    frozen, frozenDeltas, queue, replica>>
    BY <1>7 DEF HandleGap, venueVars, socketVars, freezeVars
  <2>2. Decision(sync, Frame) = "resync"
    BY <1>7, NextAgrees DEF HandleGap
  <2>3. sync' = NoEpoch /\ book' = MarkUnsynced(book) /\ pc' = "fetch"
    BY <1>7, <2>2 DEF HandleGap, Decide
  <2>4. FramesGood'
    BY <1>1, <1>7, <2>1, FrameGood, BufferEmpty, Bounds
       DEF HandleGap, Taking, SessionInv, FramesGood
  <2>5. tries' \in 0..MaxRetries
    BY <1>1, <2>1 DEF Bounds
  <2>6. QED
    BY <1>1, <2>1, <2>3, <2>4, <2>5 DEF Quiet, Pc
<1>8. QED
  BY <1>3, <1>4, <1>5, <1>6, <1>7 DEF QuietHandle

-----------------------------------------------------------------------------
\* The steps that publish, and the consumer's.

LEMMA PublishKeeps ==
  ASSUME SessionInv, NEW e \in Msg, GoodMsg(e, EventKinds, head), Publish(e), head' = head
  PROVE  EventsGood' /\ out' \in Msg /\ pc' \in {"next", "publish"}
<1>1. Buffer(queue, EventKinds, head, QueueMax) /\ head \in Nat /\ out \in Msg
  BY VenueAssumption DEF SessionInv, EventsGood, Scalars, UpdateId
<1>2. Len(queue) < QueueMax => Buffer(Append(queue, e), EventKinds, head, QueueMax)
  BY <1>1, BufferAppend, Bounds
<1>3. CASE Len(queue) < QueueMax /\ queue' = Append(queue, e) /\ pc' = "next" /\ UNCHANGED out
  BY <1>1, <1>2, <1>3 DEF EventsGood
<1>4. CASE out' = e /\ pc' = "publish" /\ UNCHANGED queue
  BY <1>1, <1>4 DEF EventsGood
<1>5. QED
  BY <1>3, <1>4 DEF Publish

LEMMA PutDoneSession == SessionInv /\ PutDone => SessionInv'
<1> SUFFICES ASSUME SessionInv, PutDone PROVE SessionInv'
  OBVIOUS
<1>1. /\ UNCHANGED <<head, batchEnd, wire, wsOpen, incoming, pending, pump, tries, stopped,
                     sync, book, frozen, frozenDeltas, replica>>
      /\ pc = "publish" /\ pc' = "next" /\ out' = NoMsg /\ NoMsg \in Msg
      /\ Len(queue) < QueueMax /\ queue' = Append(queue, out)
  BY VenueAssumption DEF PutDone, venueVars, socketVars, rawVars, freezeVars, NoMsg, Mark,
     Msg, Kind, UpdateId
<1>2. /\ Buffer(queue, EventKinds, head, QueueMax) /\ head \in Nat /\ out \in Msg
      /\ GoodMsg(out, EventKinds, head)
  BY <1>1, VenueAssumption DEF SessionInv, EventsGood, Scalars, UpdateId
<1>3. Buffer(queue', EventKinds, head, QueueMax)
  BY <1>1, <1>2, BufferAppend, Bounds
<1>4. Scalars'
  BY <1>1 DEF SessionInv, Scalars, Pc
<1>5. FramesGood' /\ EventsGood'
  BY <1>1, <1>3 DEF SessionInv, FramesGood, EventsGood
<1>6. EpochGood' /\ BooksBehind' /\ Lockstep' /\ BookFaithful'
  BY <1>1 DEF SessionInv, EpochGood, InEpoch, BooksBehind, Lockstep, BookFaithful
<1>7. QED
  BY <1>4, <1>5, <1>6 DEF SessionInv

LEMMA ConsumeSession == SessionInv /\ Consume => SessionInv'
<1> SUFFICES ASSUME SessionInv, Consume PROVE SessionInv'
  OBVIOUS
<1>1. /\ UNCHANGED <<head, batchEnd, wire, wsOpen, incoming, pending, pump, pc, tries, out,
                     stopped, sync, book, frozen, frozenDeltas>>
      /\ queue # << >> /\ queue' = Tail(queue)
      /\ replica' = ApplyEvent(replica, Head(queue))
  BY DEF Consume, venueVars, socketVars, rawVars, freezeVars
<1>2. Buffer(queue, EventKinds, head, QueueMax) /\ head \in Nat
  BY VenueAssumption DEF SessionInv, EventsGood, Scalars, UpdateId
<1>3. /\ Head(queue) \in Msg /\ GoodMsg(Head(queue), EventKinds, head)
      /\ Buffer(queue', EventKinds, head, QueueMax)
  BY <1>1, <1>2, BufferTail, Bounds
<1>4. replica' \in Book /\ replica'.last <= head
  <2>1. /\ replica \in Book /\ replica.last <= head
        /\ Head(queue).u \in UpdateId /\ Head(queue).u <= head
    BY <1>3, MsgFields DEF SessionInv, Scalars, BooksBehind, GoodMsg
  <2>2. /\ ApplySnapshot(Head(queue).u) \in Book
        /\ ApplySnapshot(Head(queue).u).last = Head(queue).u
    BY <2>1, SnapshotIsFaithful DEF ApplySnapshot
  <2>3. /\ ApplyDelta(replica, Head(queue)) \in Book
        /\ ApplyDelta(replica, Head(queue)).last \in {replica.last, Head(queue).u}
    BY <1>3, <2>1, AppliedType
  <2>4. QED
    BY <1>1, <2>1, <2>2, <2>3 DEF ApplyEvent
<1>5. Scalars'
  BY <1>1, <1>4 DEF SessionInv, Scalars
<1>6. FramesGood' /\ EventsGood'
  BY <1>1, <1>3 DEF SessionInv, FramesGood, EventsGood
<1>7. EpochGood' /\ BooksBehind' /\ Lockstep' /\ BookFaithful'
  BY <1>1, <1>4 DEF SessionInv, EpochGood, InEpoch, BooksBehind, Lockstep, BookFaithful
<1>8. QED
  BY <1>5, <1>6, <1>7 DEF SessionInv

LEMMA RestOkSession == SessionInv /\ RestOk => SessionInv'
<1> SUFFICES ASSUME SessionInv, RestOk PROVE SessionInv'
  OBVIOUS
<1>1. PICK L \in UpdateId : /\ L <= head /\ book' = ApplySnapshot(L)
                            /\ sync' = InstallSnapshot(sync, L) /\ Publish(Snapshot(L))
  BY DEF RestOk
<1>2. /\ UNCHANGED <<head, batchEnd, wire, wsOpen, pump, stopped,
                     frozen, frozenDeltas, replica>>
      /\ pending' = Arrived /\ incoming' = << >> /\ tries' \in 0..MaxRetries
  BY FeedAssumption DEF RestOk, venueVars, socketVars, freezeVars
<1>3. head \in Nat /\ L \in Nat
  BY VenueAssumption DEF SessionInv, Scalars, UpdateId
<1>4. Snapshot(L) \in Msg /\ GoodMsg(Snapshot(L), EventKinds, head)
  BY <1>1, <1>3, VenueAssumption DEF Snapshot, Msg, Kind, UpdateId, GoodMsg, EventKinds
<1>5. EventsGood' /\ out' \in Msg /\ pc' \in {"next", "publish"}
  BY <1>1, <1>2, <1>4, PublishKeeps
<1>6. FramesGood'
  BY <1>2, <1>3, GoodConcat, BufferEmpty, Bounds
     DEF SessionInv, FramesGood, Buffer, Arrived
<1>7. /\ book' \in Book /\ Faithful(book') /\ book'.last = L /\ book'.isSynced /\ ~book'.seqReady
  BY <1>1, SnapshotIsFaithful DEF ApplySnapshot
<1>8. sync' = Fresh(L)
  BY <1>1 DEF InstallSnapshot, SessionInv, EpochGood
<1>9. /\ sync' \in Synchronizer /\ sync'.buffer = << >>
      /\ sync'.validator.last = L /\ ~sync'.validator.synced
  BY <1>8 DEF Fresh, NewValidator, Synchronizer, Validator
<1>10. ~Awaiting(sync')
  BY <1>3, <1>9 DEF Awaiting, NoId
<1>11. Scalars'
  BY <1>2, <1>5, <1>7, <1>9 DEF SessionInv, Scalars, Pc
<1>12. EpochGood' /\ BooksBehind' /\ BookFaithful'
  BY <1>1, <1>2, <1>7, <1>9, <1>10 DEF SessionInv, EpochGood, BooksBehind, BookFaithful
<1>13. Lockstep'
  <2>1. sync'.validator.synced = book'.seqReady
    BY <1>7, <1>9 DEF Book, Synchronizer, Validator
  <2>2. QED
    BY <1>7, <1>9, <1>10, <2>1 DEF Lockstep
<1>14. QED
  BY <1>5, <1>6, <1>11, <1>12, <1>13 DEF SessionInv

LEMMA HandleAppliedSession == SessionInv /\ HandleApplied => SessionInv'
<1> SUFFICES ASSUME SessionInv, HandleApplied PROVE SessionInv'
  OBVIOUS
<1>1. /\ UNCHANGED <<head, batchEnd, wire, wsOpen, pump, tries, stopped,
                     frozen, frozenDeltas, replica>>
      /\ Taking("depth") /\ Take /\ Publish(Frame)
      /\ Decision(sync, Frame) = "apply" /\ Verdict(book, Frame) = "applied"
      /\ sync' = Decide(sync, Frame) /\ book' = ApplyDelta(book, Frame)
  BY DEF HandleApplied, venueVars, socketVars, freezeVars
<1>2. Frame \in Msg /\ IsDiff(Frame) /\ Frame.u <= head /\ Frame.kind = "depth"
  BY <1>1, NextAgrees DEF Taking, Frame
<1>3. GoodMsg(Frame, EventKinds, head)
  BY <1>2 DEF GoodMsg, EventKinds
<1>4. EventsGood' /\ out' \in Msg /\ pc' \in {"next", "publish"}
  BY <1>1, <1>2, <1>3, PublishKeeps
<1>5. FramesGood'
  BY <1>1, TakeKeepsFrames DEF Taking
<1>6. book \in Book /\ Faithful(book) /\ book.isSynced /\ ~Awaiting(sync) /\ sync \in Synchronizer
  BY <1>1 DEF SessionInv, Scalars, BookFaithful, EpochGood, InEpoch, Taking
<1>7. book' \in Book /\ Faithful(book')
  BY <1>1, <1>2, <1>6, AcceptedDiffKeepsFaithful
<1>8. book'.last = Frame.u /\ book'.isSynced /\ book'.seqReady
  BY <1>1, <1>6 DEF ApplyDelta, SetLevels
<1>9. Frame.u \in UpdateId /\ Frame.u \in Nat
  BY <1>2, MsgFields
<1>10. /\ sync' \in Synchronizer /\ sync'.buffer = sync.buffer
       /\ sync'.validator.last = Frame.u /\ sync'.validator.synced
  BY <1>1, <1>6, <1>9 DEF Decide, Synchronizer, Validator
<1>11. ~Awaiting(sync')
  BY <1>9, <1>10 DEF Awaiting, NoId
<1>12. Scalars'
  BY <1>1, <1>4, <1>7, <1>10 DEF SessionInv, Scalars, Pc
<1>13. EpochGood' /\ BooksBehind' /\ BookFaithful'
  BY <1>1, <1>2, <1>7, <1>8, <1>10, <1>11 DEF SessionInv, EpochGood, BooksBehind, BookFaithful
<1>14. Lockstep'
  <2>1. sync'.validator.synced = book'.seqReady
    BY <1>7, <1>8, <1>10 DEF Book, Synchronizer, Validator
  <2>2. QED
    BY <1>8, <1>10, <1>11, <2>1 DEF Lockstep
<1>15. QED
  BY <1>4, <1>5, <1>12, <1>13, <1>14 DEF SessionInv

LEMMA HandleTradeSession == SessionInv /\ HandleTrade /\ ~frozen => SessionInv'
<1> SUFFICES ASSUME SessionInv, HandleTrade, ~frozen PROVE SessionInv'
  OBVIOUS
<1>1. /\ UNCHANGED <<head, batchEnd, wire, wsOpen, pump, tries, stopped, sync, book,
                     frozen, frozenDeltas, replica>>
      /\ Taking("trade") /\ Take /\ Publish(Frame)
  BY DEF HandleTrade, venueVars, socketVars, freezeVars
<1>2. Frame \in Msg /\ GoodMsg(Frame, EventKinds, head)
  BY <1>1, FrameGood DEF Taking, Frame, GoodMsg, EventKinds
<1>3. EventsGood' /\ out' \in Msg /\ pc' \in {"next", "publish"}
  BY <1>1, <1>2, PublishKeeps
<1>4. FramesGood'
  BY <1>1, TakeKeepsFrames DEF Taking
<1>5. Scalars'
  BY <1>1, <1>3 DEF SessionInv, Scalars, Pc
<1>6. EpochGood' /\ BooksBehind' /\ Lockstep' /\ BookFaithful'
  BY <1>1, <1>3 DEF SessionInv, EpochGood, InEpoch, Taking, BooksBehind, Lockstep, BookFaithful
<1>7. QED
  BY <1>3, <1>4, <1>5, <1>6 DEF SessionInv

-----------------------------------------------------------------------------
\* The published stream.

LEMMA PositionType == ASSUME NEW b \in Book PROVE Position(b) \in Place
  BY DEF Position, Place, Book

(* A book whose position d follows accepts d (apply_delta).                *)
LEMMA FollowsAccepted ==
  ASSUME NEW b \in Book, NEW d \in Msg, IsDiff(d), b.seqReady => b.last # NoId,
         Follows(Position(b), d)
  PROVE  Verdict(b, d) = "applied"
<1>1. b.last # NoId /\ (d.pu = b.last \/ (~b.seqReady /\ Brackets(d, b.last)))
  BY DEF Follows, Position, Book
<1>2. CASE d.pu = b.last
  BY <1>1, <1>2 DEF Verdict
<1>3. CASE d.pu # b.last
  <2>1. b.last \in Int /\ d.pu \in Int /\ d.U \in Int /\ d.u \in Int
    BY VenueAssumption DEF Book, Msg, UpdateId, NoId
  <2>2. ~b.seqReady /\ Brackets(d, b.last) /\ ~(d.u < b.last)
    BY <1>1, <1>3, <2>1 DEF Brackets
  <2>3. QED
    BY <1>1, <1>3, <2>2 DEF Verdict
<1>4. QED
  BY <1>2, <1>3

(* Facts about the pipeline every step starts from.                        *)
LEMMA PipelineFacts ==
  SessionInv => /\ head \in Nat /\ replica \in Book /\ book \in Book
                /\ Position(replica) \in Place /\ Position(book) \in Place
                /\ queue \in Seq(Msg) /\ out \in Msg /\ Pipeline \in Seq(Msg)
<1> SUFFICES ASSUME SessionInv
             PROVE  /\ head \in Nat /\ replica \in Book /\ book \in Book
                    /\ Position(replica) \in Place /\ Position(book) \in Place
                    /\ queue \in Seq(Msg) /\ out \in Msg /\ Pipeline \in Seq(Msg)
  OBVIOUS
<1>1. /\ head \in Nat /\ replica \in Book /\ book \in Book
      /\ queue \in Seq(Msg) /\ out \in Msg
  BY VenueAssumption DEF SessionInv, Scalars, EventsGood, Buffer, UpdateId
<1>2. Append(queue, out) \in Seq(Msg)
  BY <1>1
<1>3. QED
  BY <1>1, <1>2, PositionType DEF Pipeline

LEMMA InitPipeline == Init => PipelineInv
<1> SUFFICES ASSUME Init PROVE PipelineInv
  OBVIOUS
<1>1. Pipeline = << >> /\ ~InEpoch
  BY DEF Init, Pipeline, InEpoch
<1>2. PipelineGood
  BY <1>1 DEF PipelineGood, Chained
<1>3. ReplicaSynced /\ ReplicaFaithful
  BY DEF Init, ReplicaSynced, ReplicaFaithful, Faithful, EmptyBook
<1>4. QED
  BY <1>2, <1>3 DEF PipelineInv

(* The venue, the socket and the pump touch neither book nor queue.        *)
LEMMA RemotePipeline ==
  PipelineInv /\ UNCHANGED <<pc, out, book, queue, replica>> => PipelineInv'
  BY DEF PipelineInv, PipelineGood, Pipeline, Position, InEpoch, ReplicaSynced,
         ReplicaFaithful

(* A quiet step keeps the chain; a put that is cancelled drops its last    *)
(* event (stop() while _publish waits).                                    *)
LEMMA QuietPipeline == SessionInv /\ PipelineInv /\ Quiet => PipelineInv'
<1> SUFFICES ASSUME SessionInv, PipelineInv, Quiet PROVE PipelineInv'
  OBVIOUS
<1>1. queue' = queue /\ replica' = replica
  BY DEF Quiet
<1>2. CASE UNCHANGED <<pc, out, sync, book>>
  BY <1>1, <1>2, RemotePipeline
<1>3. CASE pc' \notin {"publish", "next"}
  <2>1. Chained(Position(replica), queue)
    BY PipelineFacts, ChainPrefix DEF PipelineInv, PipelineGood, Pipeline
  <2>2. PipelineGood'
    BY <1>1, <1>3, <2>1 DEF PipelineGood, Pipeline, InEpoch, Position
  <2>3. QED
    BY <1>1, <2>2 DEF PipelineInv, ReplicaSynced, ReplicaFaithful
<1>4. QED
  BY <1>2, <1>3 DEF Quiet

(* Publishing e lengthens the pipeline by e, put or still waiting.         *)
LEMMA PublishPipeline ==
  ASSUME SessionInv, PipelineInv, NEW e \in Msg, pc # "publish", Publish(e),
         replica' = replica, Position(book)' \in Place,
         e.kind = "depth" => InEpoch /\ Follows(Position(book), e),
         IF e.kind = "trade" THEN InEpoch /\ book' = book ELSE Position(book)' = After(e)
  PROVE  PipelineInv'
<1>1. Pipeline' = Append(queue, e) /\ Pipeline = queue
  BY DEF Publish, Pipeline
<1>2. /\ Position(replica) \in Place /\ Position(book) \in Place /\ queue \in Seq(Msg)
  BY PipelineFacts
<1>3. /\ Chained(Position(replica), queue)
      /\ InEpoch => Reaches(Position(replica), queue, Position(book))
  BY <1>1 DEF PipelineInv, PipelineGood
<1>4. Chained(Position(replica), Append(queue, e))
  BY <1>2, <1>3, ChainAppend
<1>5. Reaches(Position(replica), Append(queue, e), Position(book)')
  BY <1>2, <1>3, ReachAppend DEF Position
<1>6. PipelineGood'
  BY <1>1, <1>4, <1>5 DEF PipelineGood, Position
<1>7. QED
  BY <1>6 DEF PipelineInv, ReplicaSynced, ReplicaFaithful

LEMMA PublishingPipeline ==
  SessionInv /\ PipelineInv /\ (RestOk \/ HandleApplied \/ (HandleTrade /\ ~frozen))
    => PipelineInv'
<1> SUFFICES ASSUME SessionInv, PipelineInv,
                    RestOk \/ HandleApplied \/ (HandleTrade /\ ~frozen)
             PROVE  PipelineInv'
  OBVIOUS
<1>1. /\ head \in Nat /\ book \in Book /\ Position(book) \in Place
      /\ sync \in Synchronizer
  BY PipelineFacts DEF SessionInv, Scalars
<1>2. CASE RestOk
  <2>1. PICK L \in UpdateId : book' = ApplySnapshot(L) /\ Publish(Snapshot(L))
    BY <1>2 DEF RestOk
  <2>2. replica' = replica /\ pc # "publish"
    BY <1>2 DEF RestOk
  <2>3. Snapshot(L) \in Msg /\ Snapshot(L).kind = "snapshot"
    BY VenueAssumption DEF Snapshot, Msg, Kind, UpdateId
  <2>4. Position(book)' = After(Snapshot(L)) /\ Position(book)' \in Place
    BY <2>1 DEF Position, After, Snapshot, ApplySnapshot, Place
  <2>5. QED
    BY <2>1, <2>2, <2>3, <2>4, PublishPipeline
<1>3. CASE HandleApplied
  <2>1. /\ Taking("depth") /\ Decision(sync, Frame) = "apply" /\ Publish(Frame)
        /\ Verdict(book, Frame) = "applied" /\ book' = ApplyDelta(book, Frame)
        /\ replica' = replica /\ pc = "next"
    BY <1>3 DEF HandleApplied, Taking
  <2>2. Frame \in Msg /\ IsDiff(Frame) /\ Frame.kind = "depth" /\ InEpoch
    BY <2>1, NextAgrees DEF Taking, Frame, InEpoch
  <2>3. Judge(sync.validator, Frame) = "apply" /\ ~Awaiting(sync)
    BY <2>1 DEF Decision
  <2>4. /\ sync.validator.last = book.last /\ sync.validator.synced = book.seqReady
        /\ book.last # NoId
    BY <2>3 DEF SessionInv, Lockstep, Awaiting
  <2>5. IF book.seqReady THEN Frame.pu = book.last ELSE Brackets(Frame, book.last)
    BY <1>1, <2>3, <2>4 DEF Judge, Synchronizer, Validator, Book
  <2>6. Follows(Position(book), Frame)
    BY <2>4, <2>5 DEF Follows, Position
  <2>7. Position(book)' = After(Frame)
    BY <2>1, <2>2 DEF Position, After, ApplyDelta, SetLevels
  <2>8. After(Frame) \in Place
    BY <2>2 DEF After, Place, Msg
  <2>9. QED
    BY <2>1, <2>2, <2>6, <2>7, <2>8, PublishPipeline
<1>4. CASE HandleTrade /\ ~frozen
  <2>1. /\ Taking("trade") /\ Publish(Frame) /\ replica' = replica /\ book' = book
        /\ pc = "next"
    BY <1>4 DEF HandleTrade, Taking
  <2>2. Frame \in Msg /\ Frame.kind = "trade" /\ InEpoch
    BY <2>1, FrameGood DEF Taking, Frame, InEpoch
  <2>3. Position(book)' \in Place
    BY <1>1, <2>1 DEF Position
  <2>4. QED
    BY <2>1, <2>2, <2>3, PublishPipeline
<1>5. QED
  BY <1>2, <1>3, <1>4

LEMMA PutDonePipeline == SessionInv /\ PipelineInv /\ PutDone => PipelineInv'
<1> SUFFICES ASSUME SessionInv, PipelineInv, PutDone PROVE PipelineInv'
  OBVIOUS
<1>1. Pipeline' = Pipeline /\ InEpoch /\ book' = book /\ replica' = replica
  BY DEF PutDone, Pipeline, InEpoch
<1>2. QED
  BY <1>1 DEF PipelineInv, PipelineGood, Position, ReplicaSynced, ReplicaFaithful

(* The event a consumer takes fits its book, and what is left of the       *)
(* pipeline follows from the book it then has.                             *)
LEMMA ConsumePipeline == SessionInv /\ PipelineInv /\ Consume => PipelineInv'
<1> SUFFICES ASSUME SessionInv, PipelineInv, Consume PROVE PipelineInv'
  OBVIOUS
<1> DEFINE e == Head(queue)
<1>1. /\ queue # << >> /\ queue' = Tail(queue) /\ replica' = ApplyEvent(replica, e)
      /\ pc' = pc /\ out' = out /\ book' = book
  BY DEF Consume
<1>2. /\ head \in Nat /\ replica \in Book /\ Position(replica) \in Place
      /\ Position(book) \in Place /\ queue \in Seq(Msg) /\ out \in Msg /\ Pipeline \in Seq(Msg)
  BY PipelineFacts
<1>3. e \in Msg /\ GoodMsg(e, EventKinds, head)
  <2>1. Buffer(queue, EventKinds, head, QueueMax)
    BY DEF SessionInv, EventsGood
  <2>2. QED
    BY <1>1, <1>2, <2>1, BufferTail, Bounds
<1>4. Pipeline # << >> /\ Pipeline[1] = e /\ Pipeline' = Tail(Pipeline)
  <2>1. /\ queue[1] = e /\ Append(queue, out)[1] = e /\ Append(queue, out) # << >>
    BY <1>1, <1>2
  <2>2. Tail(Append(queue, out)) = Append(Tail(queue), out)
    BY <1>1, <1>2
  <2> HIDE DEF e
  <2>3. QED
    BY <1>1, <2>1, <2>2 DEF Pipeline
<1>5. Chained(Position(replica), Pipeline)
  BY DEF PipelineInv, PipelineGood
<1>6. ReplicaSynced /\ Faithful(replica)
  BY DEF PipelineInv, ReplicaFaithful
<1>7. e.u \in UpdateId /\ e.u \in Nat /\ (e.kind = "depth" => IsDiff(e))
  BY <1>3, MsgFields DEF GoodMsg
<1> HIDE DEF e
<1>8. e.kind = "depth" => Verdict(replica, e) = "applied"
  <2>1. e.kind = "depth" => Follows(Position(replica), e)
    <3>1. 0 \in 0..Len(Pipeline) /\ 1 \in 1..Len(Pipeline)
      BY <1>2, <1>4
    <3>2. Moves(Pipeline, 0) /\ OnlyTrades(Pipeline, 0, 1)
      BY DEF Moves, OnlyTrades
    <3>3. PlaceOf(Position(replica), Pipeline, 0) = Position(replica)
      BY DEF PlaceOf
    <3>4. QED
      BY <1>4, <1>5, <3>1, <3>2, <3>3 DEF Chained
  <2>2. QED
    BY <1>2, <1>3, <1>6, <1>7, <2>1, FollowsAccepted DEF ReplicaSynced
<1>9. /\ replica' \in Book /\ Faithful(replica') /\ ReplicaSynced'
      /\ Position(replica') = IF e.kind = "trade" THEN Position(replica) ELSE After(e)
  <2>1. CASE e.kind = "depth"
    <3>1. replica' = ApplyDelta(replica, e) /\ replica' = SetLevels(replica, e)
      BY <1>1, <1>8, <2>1 DEF ApplyEvent, ApplyDelta, e
    <3>2. replica.isSynced
      <4>1. replica.last # NoId
        BY <1>8, <2>1 DEF Verdict
      <4>2. QED
        BY <1>6, <4>1 DEF ReplicaSynced
    <3>3. /\ replica'.last = e.u /\ replica'.seqReady = TRUE /\ replica'.isSynced
      BY <3>1, <3>2 DEF SetLevels
    <3>4. replica' \in Book /\ Faithful(replica')
      BY <1>2, <1>3, <1>6, <1>7, <1>8, <2>1, <3>1, AcceptedDiffKeepsFaithful
    <3>5. ReplicaSynced'
      BY <1>7, <3>3 DEF ReplicaSynced, NoId
    <3>6. Position(replica') = After(e)
      BY <2>1, <3>3 DEF Position, After
    <3>7. QED
      BY <2>1, <3>4, <3>5, <3>6
  <2>2. CASE e.kind = "snapshot"
    <3>1. replica' = ApplySnapshot(e.u)
      BY <1>1, <2>2 DEF ApplyEvent, e
    <3>2. replica'.last = e.u /\ replica'.seqReady = FALSE /\ replica'.isSynced
      BY <3>1 DEF ApplySnapshot
    <3>3. QED
      BY <1>7, <2>2, <3>1, <3>2, SnapshotIsFaithful DEF ReplicaSynced, Position, After
  <2>3. CASE e.kind = "trade"
    <3>1. replica' = replica
      BY <1>1, <2>3 DEF ApplyEvent, e
    <3>2. QED
      BY <1>2, <1>6, <2>3, <3>1 DEF ReplicaSynced
  <2>4. QED
    BY <1>3, <2>1, <2>2, <2>3 DEF GoodMsg, EventKinds
<1>10. /\ Chained(Position(replica'), Tail(Pipeline))
       /\ \A t \in Place : Reaches(Position(replica), Pipeline, t)
                           => Reaches(Position(replica'), Tail(Pipeline), t)
  BY <1>2, <1>4, <1>5, <1>9, PositionType, ChainTail
<1>11. PipelineGood'
  <2>1. InEpoch' = InEpoch /\ Position(book)' = Position(book)
    BY <1>1 DEF InEpoch, Position
  <2>2. InEpoch => Reaches(Position(replica), Pipeline, Position(book))
    BY DEF PipelineInv, PipelineGood
  <2>3. QED
    BY <1>2, <1>4, <1>10, <2>1, <2>2 DEF PipelineGood, Position
<1>12. QED
  BY <1>9, <1>11 DEF PipelineInv, ReplicaFaithful

-----------------------------------------------------------------------------
\* The inductive invariant and what follows from it.

LEMMA NextKeepsIInv == IInv /\ [Next]_vars => IInv'
<1> SUFFICES ASSUME IInv, [Next]_vars PROVE IInv'
  OBVIOUS
<1>1. SessionInv /\ PipelineInv
  BY DEF IInv
<1>2. CASE VenueStep
  <2>1. SessionInv'
    BY <1>1, <1>2, VenueUpdateSession, VenueDiffSession, SocketSession DEF VenueStep
  <2>2. UNCHANGED <<pc, out, book, queue, replica>>
    BY <1>2 DEF VenueStep, VenueUpdate, VenueDiff, VenueTrade, SocketClose
  <2>3. QED
    BY <1>1, <2>1, <2>2, RemotePipeline DEF IInv
<1>3. CASE PumpStep
  <2>1. UNCHANGED <<pc, out, book, queue, replica>>
    BY <1>3 DEF PumpStep, PumpFrame, PumpSentinel, PumpCancelled
  <2>2. QED
    BY <1>1, <1>3, <2>1, PumpSession, RemotePipeline DEF IInv
<1>4. CASE CleanUp \/ Connect \/ QuietHandle
  BY <1>1, <1>4, CleanUpQuiet, ConnectQuiet, HandleQuiet, QuietSession, QuietPipeline DEF IInv
<1>5. CASE RestOk \/ HandleApplied \/ (HandleTrade /\ ~frozen)
  BY <1>1, <1>5, RestOkSession, HandleAppliedSession, HandleTradeSession, PublishingPipeline
     DEF IInv
<1>6. CASE PutDone
  BY <1>1, <1>6, PutDoneSession, PutDonePipeline DEF IInv
<1>7. CASE Consume
  BY <1>1, <1>7, ConsumeSession, ConsumePipeline DEF IInv
<1>8. CASE UNCHANGED vars
  <2>1. SessionInv'
    BY <1>1, <1>8 DEF vars, SessionInv, Scalars, FramesGood, EventsGood, EpochGood, InEpoch,
       BooksBehind, Lockstep, BookFaithful
  <2>2. QED
    BY <1>1, <1>8, <2>1, RemotePipeline DEF vars, IInv
<1>9. QED
  BY <1>2, <1>3, <1>4, <1>5, <1>6, <1>7, <1>8
     DEF Next, FeedNext, HandleStep, RestStep, CallStep, CleanUp, QuietHandle

(* IInv holds whatever the venue's future, the levels, the depth of the    *)
(* snapshots and the capacity of every buffer.                             *)
THEOREM Invariance == Spec => []IInv
<1>1. Init => IInv
  BY InitSession, InitPipeline DEF IInv
<1>2. QED
  BY <1>1, NextKeepsIInv, PTL DEF Spec

(* Every variable keeps its type, and every buffer its capacity.           *)
THEOREM TypeCorrect == Spec => []TypeOK
<1>1. IInv => TypeOK
  BY SessionTypes DEF IInv
<1>2. QED
  BY <1>1, Invariance, PTL

(* The live book shows the venue's quantities at its id, however the steps *)
(* of venue, pump, task, watchdog, callers and consumer interleave         *)
(* (binance_futures.py, _synced_events).                                   *)
THEOREM LiveBookFaithful == Spec => []BookFaithful
<1>1. IInv => BookFaithful
  BY DEF IInv, SessionInv
<1>2. QED
  BY <1>1, Invariance, PTL

(* The synchronizer and the book agree on where the stream stands.         *)
THEOREM BothTrackersAgree == Spec => []Lockstep
<1>1. IInv => Lockstep
  BY DEF IInv, SessionInv
<1>2. QED
  BY <1>1, Invariance, PTL

(* The book of a consumer that replays the queue is faithful too.          *)
THEOREM ConsumerFaithful == Spec => []ReplicaFaithful
<1>1. IInv => ReplicaFaithful
  BY DEF IInv, PipelineInv
<1>2. QED
  BY <1>1, Invariance, PTL

LEMMA StreamFits == IInv => StreamReplays
<1> SUFFICES ASSUME IInv, queue # << >>, Head(queue).kind = "depth"
             PROVE  Verdict(replica, Head(queue)) = "applied"
  BY DEF StreamReplays
<1> DEFINE e == Head(queue)
<1>1. SessionInv /\ PipelineInv
  BY DEF IInv
<1>2. /\ head \in Nat /\ replica \in Book /\ queue \in Seq(Msg) /\ out \in Msg
      /\ Pipeline \in Seq(Msg)
  BY <1>1, PipelineFacts
<1>3. e \in Msg /\ IsDiff(e)
  <2>1. Buffer(queue, EventKinds, head, QueueMax)
    BY <1>1 DEF SessionInv, EventsGood
  <2>2. e \in Msg /\ GoodMsg(e, EventKinds, head)
    BY <1>2, <2>1, BufferTail, Bounds
  <2>3. QED
    BY <2>2 DEF GoodMsg
<1>4. Len(Pipeline) >= 1 /\ Pipeline[1] = e
  <2>1. queue[1] = e /\ Len(queue) \in Nat /\ Len(queue) >= 1
    BY <1>2
  <2>2. Append(queue, out)[1] = e /\ Len(Append(queue, out)) = Len(queue) + 1
    BY <1>2, <2>1
  <2> HIDE DEF e
  <2>3. QED
    BY <2>1, <2>2 DEF Pipeline
<1>5. Follows(Position(replica), e)
  <2>1. 0 \in 0..Len(Pipeline) /\ 1 \in 1..Len(Pipeline)
    BY <1>2, <1>4
  <2>2. Moves(Pipeline, 0) /\ OnlyTrades(Pipeline, 0, 1)
    BY DEF Moves, OnlyTrades
  <2>3. PlaceOf(Position(replica), Pipeline, 0) = Position(replica)
    BY DEF PlaceOf
  <2>4. QED
    BY <1>1, <1>4, <2>1, <2>2, <2>3 DEF Chained, PipelineInv, PipelineGood
<1>6. QED
  BY <1>1, <1>2, <1>3, <1>5, FollowsAccepted DEF PipelineInv, ReplicaSynced

(* A consumer never takes a diff its book refuses (record_l2.py, _apply,   *)
(* whose except branch is thus never taken on the published stream).       *)
THEOREM PublishedStreamReplays == Spec => []StreamReplays
  BY StreamFits, Invariance, PTL

-----------------------------------------------------------------------------
\* The live book and the consumer's book as replicas of the venue.

\* One step of a book that starts and ends as the venue's.
Accept(b, c, d) ==
  /\ b.isSynced /\ c.isSynced /\ c.last = d.u /\ b.last <= d.u
  /\ c.known = b.known \cup Touched(d)

LEMMA AcceptedStep ==
  ASSUME NEW b \in Book, NEW d \in Msg, IsDiff(d), Verdict(b, d) = "applied", b.isSynced
  PROVE  Accept(b, ApplyDelta(b, d), d)
<1>1. b.last <= d.u
  BY AcceptedDiffSpans
<1>2. QED
  BY <1>1 DEF Accept, ApplyDelta, SetLevels

(* The levels of a faithful book are the venue's, cut to what it knows.    *)
LEMMA FaithfulLevels ==
  ASSUME NEW b \in Book, Faithful(b), b.last # NoId
  PROVE  b.levels = [p \in Level |-> IF p \in b.known THEN History[b.last][p] ELSE 0]
  BY DEF Faithful, Book

LEMMA LiveInit == Init => LiveBook!Init
  BY DEF Init, LiveBook!Init, EmptyBook, NoId

LEMMA LiveStep == IInv /\ IInv' /\ [Next]_vars => [LiveBook!Next]_(LiveBook!vars)
<1> SUFFICES ASSUME IInv, IInv', [Next]_vars PROVE [LiveBook!Next]_(LiveBook!vars)
  OBVIOUS
<1>1. /\ SessionInv /\ SessionInv' /\ book \in Book /\ book' \in Book
      /\ head \in Nat /\ head' \in Nat
  BY VenueAssumption DEF IInv, SessionInv, Scalars, UpdateId
<1>2. ASSUME UNCHANGED <<head, book>> PROVE [LiveBook!Next]_(LiveBook!vars)
  BY <1>2 DEF LiveBook!vars
<1>3. ASSUME UNCHANGED head, book' = MarkUnsynced(book)
      PROVE  [LiveBook!Next]_(LiveBook!vars)
  <2>1. /\ book'.last = book.last /\ book'.levels = book.levels
        /\ book'.known = book.known /\ book'.isSynced = FALSE
    BY <1>1, <1>3 DEF MarkUnsynced, Book
  <2>2. LiveBook!Lose
    BY <1>3, <2>1 DEF LiveBook!Lose
  <2>3. QED
    BY <2>2 DEF LiveBook!Next
<1>4. CASE VenueUpdate
  <2>1. LiveBook!Grow
    BY <1>4 DEF VenueUpdate, LiveBook!Grow, LiveBook!copyVars
  <2>2. QED
    BY <2>1 DEF LiveBook!Next
<1>5. CASE VenueDiff \/ VenueTrade \/ SocketClose
  BY <1>2, <1>5 DEF VenueDiff, VenueTrade, SocketClose, venueVars
<1>6. CASE PumpStep
  BY <1>2, <1>6 DEF PumpStep, PumpFrame, PumpSentinel, PumpCancelled, venueVars
<1>7. CASE CleanUp \/ Connect \/ QuietHandle
  <2>1. Quiet
    BY <1>1, <1>7, CleanUpQuiet, ConnectQuiet, HandleQuiet
  <2>2. QED
    BY <1>2, <1>3, <2>1 DEF Quiet
<1>8. CASE RestOk
  <2>1. PICK L \in UpdateId : L <= head /\ book' = ApplySnapshot(L)
    BY <1>8 DEF RestOk
  <2>2. /\ book'.last = L /\ book'.known = Visible[L] /\ book'.isSynced = TRUE
        /\ book'.levels = LiveBook!Slice(L, Visible[L])
    BY <2>1 DEF ApplySnapshot, LiveBook!Slice
  <2>3. L \in 0..head /\ head' = head
    BY <1>1, <1>8, <2>1, VenueAssumption DEF RestOk, venueVars, UpdateId
  <2>4. LiveBook!Adopt
    BY <2>2, <2>3 DEF LiveBook!Adopt
  <2>5. QED
    BY <2>4 DEF LiveBook!Next
<1>9. CASE HandleApplied
  <2>1. /\ Taking("depth") /\ Verdict(book, Frame) = "applied"
        /\ book' = ApplyDelta(book, Frame) /\ head' = head
    BY <1>9 DEF HandleApplied, venueVars
  <2>2. IsDiff(Frame) /\ Frame \in Msg /\ Frame.u <= head /\ book.isSynced
    BY <1>1, <2>1, NextAgrees DEF SessionInv, EpochGood, InEpoch, Taking
  <2>3. Accept(book, book', Frame)
    BY <1>1, <2>1, <2>2, AcceptedStep
  <2>4. Frame.u \in Nat /\ book'.last # NoId
    BY <2>2, <2>3, MsgFields DEF Accept, NoId
  <2>5. Frame.u \in 0..head /\ Touched(Frame) \in SUBSET Level
    BY <1>1, <2>2, <2>4 DEF Touched
  <2>6. book'.levels = LiveBook!Slice(Frame.u, book.known \cup Touched(Frame))
    BY <1>1, <2>3, <2>4, FaithfulLevels
       DEF SessionInv, BookFaithful, Accept, LiveBook!Slice
  <2>7. LiveBook!Advance
    <3>1. book'.isSynced = book.isSynced
      BY <1>1, <2>3 DEF Accept, Book
    <3>2. QED
      BY <2>1, <2>2, <2>3, <2>5, <2>6, <3>1 DEF LiveBook!Advance, Accept
  <2>8. QED
    BY <2>7 DEF LiveBook!Next
<1>10. CASE (HandleTrade /\ ~frozen) \/ PutDone \/ Consume
  BY <1>2, <1>10 DEF HandleTrade, PutDone, Consume, venueVars
<1>11. CASE UNCHANGED vars
  BY <1>2, <1>11 DEF vars
<1>12. QED
  BY <1>4, <1>5, <1>6, <1>7, <1>8, <1>9, <1>10, <1>11
     DEF Next, FeedNext, VenueStep, HandleStep, RestStep, CallStep, CleanUp, QuietHandle

(* The feed's live book implements a replica of the venue: it adopts a     *)
(* snapshot, moves forward diff by diff, and once it has lost the sequence *)
(* stays put until the next snapshot.                                      *)
THEOREM LiveBookImplements == Spec => LiveBookIsReplica
<1>1. Spec => []IInv
  BY Invariance
<1>2. QED
  BY <1>1, LiveInit, LiveStep, PTL DEF Spec, LiveBookIsReplica, LiveBook!Spec

-----------------------------------------------------------------------------
LEMMA ConsumerInit == Init => ConsumerBook!Init
  BY DEF Init, ConsumerBook!Init, EmptyBook, NoId

LEMMA ConsumerStep == IInv /\ IInv' /\ [Next]_vars => [ConsumerBook!Next]_(ConsumerBook!vars)
<1> SUFFICES ASSUME IInv, IInv', [Next]_vars
             PROVE  [ConsumerBook!Next]_(ConsumerBook!vars)
  OBVIOUS
<1>1. /\ SessionInv /\ replica \in Book /\ replica' \in Book /\ head \in Nat
      /\ PipelineInv /\ PipelineInv' /\ queue \in Seq(Msg)
  BY PipelineFacts DEF IInv, SessionInv, Scalars
<1>2. CASE VenueUpdate
  <2>1. ConsumerBook!Grow
    BY <1>2 DEF VenueUpdate, ConsumerBook!Grow, ConsumerBook!copyVars
  <2>2. QED
    BY <2>1 DEF ConsumerBook!Next
<1>3. CASE Consume
  <2> DEFINE e == Head(queue)
  <2>1. /\ queue # << >> /\ replica' = ApplyEvent(replica, e) /\ head' = head
    BY <1>3 DEF Consume, venueVars
  <2>2. e \in Msg /\ GoodMsg(e, EventKinds, head)
    <3>1. Buffer(queue, EventKinds, head, QueueMax)
      BY <1>1 DEF SessionInv, EventsGood
    <3>2. QED
      BY <1>1, <2>1, <3>1, BufferTail, Bounds
  <2>3. e.u \in 0..head /\ e.u \in UpdateId
    BY <1>1, <2>2, MsgFields DEF GoodMsg
  <2>4. e.kind = "depth" => Verdict(replica, e) = "applied"
    BY <2>1, StreamFits DEF IInv, StreamReplays
  <2> HIDE DEF e
  <2>5. CASE e.kind = "depth"
    <3>1. IsDiff(e) /\ replica' = ApplyDelta(replica, e) /\ replica.isSynced
      <4>1. replica.last # NoId
        BY <2>4, <2>5 DEF Verdict
      <4>2. QED
        BY <1>1, <2>1, <2>2, <2>5, <4>1 DEF ApplyEvent, GoodMsg, PipelineInv, ReplicaSynced
    <3>2. Accept(replica, replica', e)
      BY <1>1, <2>2, <2>4, <2>5, <3>1, AcceptedStep
    <3>3. replica'.last # NoId /\ Touched(e) \in SUBSET Level
      BY <2>3, <3>2 DEF Accept, NoId, Touched
    <3>4. replica'.levels = ConsumerBook!Slice(e.u, replica.known \cup Touched(e))
      BY <1>1, <3>2, <3>3, FaithfulLevels
         DEF PipelineInv, ReplicaFaithful, Accept, ConsumerBook!Slice
    <3>5. replica'.isSynced = replica.isSynced
      BY <1>1, <3>2 DEF Accept, Book
    <3>6. ConsumerBook!Advance
      BY <2>1, <2>3, <3>1, <3>2, <3>3, <3>4, <3>5 DEF ConsumerBook!Advance, Accept
    <3>7. QED
      BY <3>6 DEF ConsumerBook!Next
  <2>6. CASE e.kind = "snapshot"
    <3>1. replica' = ApplySnapshot(e.u)
      BY <2>1, <2>6 DEF ApplyEvent, e
    <3>2. /\ replica'.last = e.u /\ replica'.known = Visible[e.u] /\ replica'.isSynced = TRUE
          /\ replica'.levels = ConsumerBook!Slice(e.u, Visible[e.u])
      BY <3>1 DEF ApplySnapshot, ConsumerBook!Slice
    <3>3. ConsumerBook!Adopt
      BY <2>1, <2>3, <3>2 DEF ConsumerBook!Adopt
    <3>4. QED
      BY <3>3 DEF ConsumerBook!Next
  <2>7. CASE e.kind = "trade"
    <3>1. replica' = replica
      BY <2>1, <2>7 DEF ApplyEvent, e
    <3>2. QED
      BY <2>1, <3>1 DEF ConsumerBook!vars
  <2>8. QED
    BY <2>2, <2>5, <2>6, <2>7 DEF GoodMsg, EventKinds
<1>4. CASE UNCHANGED <<head, replica>>
  BY <1>4 DEF ConsumerBook!vars
<1>5. VenueUpdate \/ Consume \/ UNCHANGED <<head, replica>>
  <2>1. (VenueDiff \/ VenueTrade \/ SocketClose \/ PumpStep \/ RestOk \/ HandleApplied
         \/ (HandleTrade /\ ~frozen) \/ PutDone) => UNCHANGED <<head, replica>>
    BY DEF VenueDiff, VenueTrade, SocketClose, PumpStep, PumpFrame, PumpSentinel,
           PumpCancelled, RestOk, HandleApplied, HandleTrade, PutDone, venueVars
  <2>2. (CleanUp \/ Connect \/ QuietHandle) => UNCHANGED <<head, replica>>
    BY <1>1, CleanUpQuiet, ConnectQuiet, HandleQuiet DEF Quiet
  <2>3. UNCHANGED vars => UNCHANGED <<head, replica>>
    BY DEF vars
  <2>4. QED
    BY <2>1, <2>2, <2>3
       DEF Next, FeedNext, VenueStep, HandleStep, RestStep, CallStep, CleanUp, QuietHandle
<1>6. QED
  BY <1>2, <1>3, <1>4, <1>5

(* So does the book of whoever replays the published queue, though it may  *)
(* lag the live book by a full queue and be cut off by stop().             *)
THEOREM ConsumerBookImplements == Spec => ConsumerBookIsReplica
<1>1. Spec => []IInv
  BY Invariance
<1>2. QED
  BY <1>1, ConsumerInit, ConsumerStep, PTL DEF Spec, ConsumerBookIsReplica, ConsumerBook!Spec

-----------------------------------------------------------------------------
\* The honesty check.

(* A book has been told at least what one snapshot shows.                  *)
Informed(b) == b.last # NoId => \E j \in UpdateId : Visible[j] \subseteq b.known

(* What a replay may be at: its book and how many diffs it has taken.      *)
GoodPass == {acc \in [book : Book, n : Nat, gap : BOOLEAN] :
               Faithful(acc.book) /\ Informed(acc.book)}

Diffs(s) == s \in Seq(Msg) /\ \A i \in 1..Len(s) : IsDiff(s[i])

Running == hpc \in {"rest", "again", "replay"}

(* The inductive invariant.  The feed stays frozen as long as the check    *)
(* runs, so every diff handed to the copy went through HandleFrozen.       *)
HonestyInv ==
  /\ IInv
  /\ hpc \in {"window", "rest", "again", "replay", "done"}
  /\ Running => frozen
  /\ hpc # "done" => report = NoReport
  /\ Diffs(frozenDeltas)
  /\ Informed(book)
  /\ copy \in Book /\ Faithful(copy) /\ Informed(copy)
  /\ restId \in UpdateId /\ replayed \in Nat
  /\ report.kind \in {"none", "raised", "stale", "compared"}
  /\ report.ahead \in Nat /\ report.batches \in Nat /\ report.mismatches \subseteq Level
  /\ OnlyOvershootDiffers

-----------------------------------------------------------------------------
\* The check takes no step of the feed that the feed does not have.

LEMMA StartsTheFeed == HInit => Init
  BY DEF HInit

(* Every step of the check is a step of the feed or leaves it alone.       *)
LEMMA StepsTheFeed == (Running => frozen) /\ [HNext]_hvars => [Next]_vars
<1> SUFFICES ASSUME Running => frozen, [HNext]_hvars PROVE [Next]_vars
  OBVIOUS
<1>1. CASE Meanwhile
  BY <1>1 DEF Meanwhile, FeedTask, Next, FeedNext, CallStep
<1>2. CASE Taken
  BY <1>2 DEF Taken, Next, FeedNext
<1>3. CASE StopAfter
  BY <1>3 DEF StopAfter, Next, FeedNext, CallStep
<1>4. ASSUME NEW r, Finish(r) PROVE Next
  <2>1. UnfreezeForHonesty
    BY <1>4 DEF Finish, feedVars, UnfreezeForHonesty
  <2> QED
    BY <2>1 DEF Next
<1>5. ASSUME frozen' = TRUE, frozenDeltas' = << >>, UNCHANGED feedVars PROVE Next
  <2>1. FreezeForHonesty
    BY <1>5 DEF feedVars, FreezeForHonesty
  <2> QED
    BY <2>1 DEF Next
<1>6. ASSUME UNCHANGED feedVars, UNCHANGED freezeVars PROVE UNCHANGED vars
  BY <1>6 DEF feedVars, freezeVars, vars, venueVars, socketVars, rawVars
<1>7. CASE Freeze
  BY <1>4, <1>5, <1>7 DEF Freeze
<1>8. CASE RestAnswered
  BY <1>4, <1>6, <1>8 DEF RestAnswered
<1>9. CASE RestRaises
  BY <1>4, <1>9 DEF RestRaises
<1>10. CASE Replay
  <2>1. frozen
    BY <1>10 DEF Replay, Running
  <2>2. (\E r : Finish(r)) \/ (frozenDeltas' = << >> /\ UNCHANGED <<feedVars, frozen>>)
    BY <1>10 DEF Replay
  <2>3. frozen' = frozen => frozen' = TRUE
    BY <2>1
  <2> QED
    BY <1>4, <1>5, <2>2, <2>3
<1>11. CASE CatchUpTimeout
  BY <1>4, <1>11 DEF CatchUpTimeout
<1>12. CASE UNCHANGED hvars
  BY <1>12 DEF hvars
<1> QED
  BY <1>1, <1>2, <1>3, <1>7, <1>8, <1>9, <1>10, <1>11, <1>12 DEF HNext, HonestyStep

-----------------------------------------------------------------------------
\* The copy.

LEMMA InformedStep ==
  SessionInv /\ Informed(book) /\ [LiveBook!Next]_(LiveBook!vars) => Informed(book)'
<1> SUFFICES ASSUME SessionInv, Informed(book), [LiveBook!Next]_(LiveBook!vars), book'.last # NoId
             PROVE  \E j \in UpdateId : Visible[j] \subseteq book'.known
  BY DEF Informed
<1>1. CASE LiveBook!Adopt
  <2>1. PICK L \in 0..head : book'.known = Visible[L]
    BY <1>1 DEF LiveBook!Adopt
  <2>2. L \in UpdateId
    BY VenueAssumption DEF SessionInv, Scalars, UpdateId
  <2> QED
    BY <2>1, <2>2
<1>2. CASE LiveBook!Advance
  <2>1. book.known \subseteq book'.known /\ book.isSynced
    BY <1>2 DEF LiveBook!Advance
  <2>2. book.last # NoId
    BY <2>1 DEF SessionInv, Lockstep, Awaiting
  <2> QED
    BY <2>1, <2>2 DEF Informed
<1>3. CASE LiveBook!Grow \/ LiveBook!Lose \/ UNCHANGED LiveBook!vars
  BY <1>3 DEF LiveBook!Grow, LiveBook!Lose, LiveBook!vars, LiveBook!copyVars, Informed
<1> QED
  BY <1>1, <1>2, <1>3 DEF LiveBook!Next

(* One diff of the replay.                                                 *)
LEMMA CatchUpOneGood ==
  ASSUME NEW acc \in GoodPass, NEW d \in Msg, IsDiff(d), NEW R
  PROVE  CatchUpOne(acc, d, R) \in GoodPass
<1>1. /\ acc.book \in Book /\ acc.n \in Nat /\ acc.gap \in BOOLEAN
      /\ Faithful(acc.book) /\ Informed(acc.book)
  BY DEF GoodPass
<1>2. ApplyDelta(acc.book, d) \in Book
  BY <1>1, AppliedType
<1>3. Faithful(ApplyDelta(acc.book, d)) /\ Informed(ApplyDelta(acc.book, d))
  <2>1. CASE Verdict(acc.book, d) = "applied"
    <3>1. Faithful(ApplyDelta(acc.book, d))
      BY <1>1, <2>1, AcceptedDiffKeepsFaithful
    <3>2. ApplyDelta(acc.book, d).known = acc.book.known \cup Touched(d)
      BY <2>1 DEF ApplyDelta, SetLevels
    <3>3. acc.book.last # NoId
      BY <2>1 DEF Verdict
    <3> QED
      BY <1>1, <3>1, <3>2, <3>3 DEF Informed
  <2>2. CASE Verdict(acc.book, d) = "gap"
    <3>1. ApplyDelta(acc.book, d) = MarkUnsynced(acc.book)
      BY <2>2 DEF ApplyDelta
    <3> QED
      BY <1>1, <3>1, MarkedType DEF Informed
  <2>3. CASE Verdict(acc.book, d) \notin {"applied", "gap"}
    BY <1>1, <2>3 DEF ApplyDelta
  <2> QED
    BY <2>1, <2>2, <2>3
<1>4. [book |-> ApplyDelta(acc.book, d), n |-> acc.n + 1,
       gap |-> Verdict(acc.book, d) = "gap"] \in GoodPass
  BY <1>1, <1>2, <1>3 DEF GoodPass
<1> QED
  BY <1>4 DEF CatchUpOne

(* However many diffs were held, a pass over them leaves a faithful copy.  *)
LEMMA CatchUpGood ==
  ASSUME NEW b \in Book, Faithful(b), Informed(b), NEW k \in Nat,
         NEW deltas, Diffs(deltas), NEW R
  PROVE  CatchUp(b, k, deltas, R) \in GoodPass
<1> DEFINE n == Len(deltas)
           start == [book |-> b, n |-> k, gap |-> FALSE]
           step == [i \in 1..n |-> [acc \in GoodPass |-> CatchUpOne(acc, deltas[i], R)]]
           Is(f) == f = [i \in 0..n |-> IF i = 0 THEN start
                                        ELSE CatchUpOne(f[i - 1], deltas[i], R)]
<1>1. n \in Nat /\ \A i \in 1..n : deltas[i] \in Msg /\ IsDiff(deltas[i])
  BY DEF Diffs
<1>2. start \in GoodPass
  BY DEF GoodPass
<1>3. \A i \in 1..n, acc \in GoodPass : CatchUpOne(acc, deltas[i], R) \in GoodPass
  BY <1>1, CatchUpOneGood
<1>4. step \in [1..n -> [GoodPass -> GoodPass]]
  BY <1>3
<1>5. \A i \in 1..n, acc \in GoodPass : step[i][acc] = CatchUpOne(acc, deltas[i], R)
  OBVIOUS
<1>6. CatchUp(b, k, deltas, R) = (CHOOSE f : Is(f))[n]
  BY DEF CatchUp
<1> HIDE DEF n, start, step
<1>7. PICK f : f = [i \in 0..n |-> IF i = 0 THEN start ELSE step[i][f[i - 1]]]
  BY <1>1, <1>2, <1>4, LoopExists
<1>8. \A i \in 0..n : f[i] \in GoodPass
  <2>1. f[0] \in GoodPass
    BY <1>1, <1>2, <1>7
  <2>2. \A i \in 1..n : f[i] = step[i][f[i - 1]]
    BY <1>1, <1>7
  <2>3. \A i \in 1..n : f[i - 1] \in GoodPass => f[i] \in GoodPass
    BY <1>4, <2>2
  <2> QED
    BY <1>1, <2>1, <2>3, LoopStays
<1>9. Is(f)
  <2>1. ASSUME NEW i \in 0..n
        PROVE  (IF i = 0 THEN start ELSE step[i][f[i - 1]])
               = IF i = 0 THEN start ELSE CatchUpOne(f[i - 1], deltas[i], R)
    BY <1>1, <1>5, <1>8
  <2> QED
    BY <1>7, <2>1
<1>10. PICK g : g = (CHOOSE h : Is(h)) /\ Is(g)
  <2> HIDE DEF Is
  <2> QED
    BY <1>9
<1>11. g[n] \in GoodPass
  <2>1. g[0] \in GoodPass
    BY <1>1, <1>2, <1>10, SMTT(30)
  <2>2. ASSUME NEW i \in 1..n PROVE g[i] = CatchUpOne(g[i - 1], deltas[i], R)
    <3>1. i \in 0..n /\ i # 0
      BY <1>1
    <3>2. Is(g)
      BY <1>10
    <3> QED
      BY <3>1, <3>2
  <2>3. \A i \in 1..n : g[i - 1] \in GoodPass => g[i] \in GoodPass
    BY <1>3, <2>2
  <2>4. \A i \in 0..n : g[i] \in GoodPass
    BY <1>1, <2>1, <2>3, LoopStays
  <2> QED
    BY <1>1, <2>4
<1> QED
  BY <1>6, <1>10, <1>11

-----------------------------------------------------------------------------
\* The report.

(* A level of the top that the copy, level with the answer's id or past    *)
(* it, does not show as the answer does: it or a better level changed in   *)
(* between (compare_top_levels).                                           *)
LEMMA MismatchMeansChange ==
  ASSUME NEW b \in Book, Faithful(b), Informed(b), NEW R \in UpdateId, b.last >= R,
         NEW p \in Mismatches(b, R)
  PROVE  \E i \in R .. b.last, q \in Level :
           Rank[q] <= Rank[p] /\ History[i][q] # History[R][q]
<1> SUFFICES ASSUME \A i \in R .. b.last, q \in Level :
                      Rank[q] <= Rank[p] => History[i][q] = History[R][q]
             PROVE  FALSE
  BY Zenon
<1> DEFINE L == b.last
           above(quantity) == {q \in Level : quantity[q] > 0 /\ Rank[q] < Rank[p]}
<1>1. L \in UpdateId /\ L # NoId /\ L \in R..L
  BY VenueAssumption DEF Book, UpdateId, NoId
<1>2. p \in Top(History[R]) /\ (p \notin Top(b.levels) \/ b.levels[p] # History[R][p])
  BY DEF Mismatches
<1>3. p \in Level /\ History[R][p] > 0 /\ Cardinality(above(History[R])) < TopN
  BY <1>2 DEF Top
<1>4. \A q \in Level : Rank[q] \in Nat
  BY DepthAssumption
<1>5. \A q \in Level : Rank[q] <= Rank[p] => History[L][q] = History[R][q]
  BY <1>1
<1>6. \A q \in Level : b.levels[q] = IF q \in b.known THEN History[L][q] ELSE 0
  BY <1>1 DEF Faithful
<1>7. p \in b.known
  <2>1. PICK j \in UpdateId : Visible[j] \subseteq b.known
    BY <1>1 DEF Informed
  <2>2. Top(History[R]) \subseteq Visible[j]
    BY DepthAssumption
  <2> QED
    BY <1>2, <2>1, <2>2
<1>8. b.levels[p] = History[R][p]
  BY <1>3, <1>4, <1>5, <1>6, <1>7
<1>9. above(b.levels) \subseteq above(History[R])
  <2>1. ASSUME NEW q \in Level, b.levels[q] > 0, Rank[q] < Rank[p]
        PROVE  History[R][q] > 0
    <3>1. b.levels[q] = History[L][q]
      BY <1>6, <2>1
    <3>2. Rank[q] <= Rank[p]
      BY <1>3, <1>4, <2>1
    <3> QED
      BY <1>5, <2>1, <3>1, <3>2
  <2> QED
    BY <2>1
<1>10. /\ Cardinality(above(b.levels)) <= Cardinality(above(History[R]))
       /\ Cardinality(above(b.levels)) \in Nat /\ Cardinality(above(History[R])) \in Nat
  <2>1. above(History[R]) \in SUBSET Level /\ IsFiniteSet(Level)
    BY DepthAssumption
  <2>2. above(b.levels) \in SUBSET above(History[R])
    BY <1>9
  <2> HIDE DEF above
  <2>3. IsFiniteSet(above(History[R]))
    BY <2>1, FS_Subset
  <2>4. IsFiniteSet(above(b.levels))
        /\ Cardinality(above(b.levels)) <= Cardinality(above(History[R]))
    BY <2>2, <2>3, FS_Subset
  <2> QED
    BY <2>3, <2>4, FS_CardinalityType
<1>11. p \in Top(b.levels)
  <2>1. Cardinality(above(b.levels)) < TopN
    <3> HIDE DEF above
    <3> QED
      BY <1>3, <1>10, DepthAssumption
  <2>2. b.levels[p] > 0
    BY <1>3, <1>8
  <2> QED
    BY <1>3, <2>1, <2>2 DEF Top
<1> QED
  BY <1>2, <1>8, <1>11

-----------------------------------------------------------------------------
\* The invariant.

LEMMA HonestyStarts == HInit => HonestyInv
<1> SUFFICES ASSUME HInit PROVE HonestyInv
  OBVIOUS
<1>1. IInv
  BY StartsTheFeed, InitSession, InitPipeline DEF IInv
<1>2. book = EmptyBook /\ copy = EmptyBook /\ frozenDeltas = << >>
  BY DEF HInit, Init
<1>3. EmptyBook \in Book /\ Faithful(EmptyBook) /\ Informed(EmptyBook)
  BY DEF EmptyBook, Book, Faithful, Informed
<1>4. Diffs(<< >>)
  BY DEF Diffs
<1>5. 0 \in UpdateId
  BY VenueAssumption DEF UpdateId
<1> QED
  BY <1>1, <1>2, <1>3, <1>4, <1>5
     DEF HonestyInv, HInit, Running, NoReport, OnlyOvershootDiffers

(* Only a diff is ever held, and the feed never thaws by itself.           *)
LEMMA FeedHoldsDiffs ==
  SessionInv /\ Diffs(frozenDeltas) /\ (FeedTask \/ Consume \/ Stop)
    => frozen' = frozen /\ Diffs(frozenDeltas)'
<1> SUFFICES ASSUME SessionInv, Diffs(frozenDeltas), FeedTask \/ Consume \/ Stop
             PROVE  frozen' = frozen /\ Diffs(frozenDeltas)'
  OBVIOUS
<1>1. HandleFrozen \/ UNCHANGED freezeVars
  BY DEF FeedTask, VenueStep, VenueUpdate, VenueDiff, VenueTrade, SocketClose, PumpStep,
         PumpFrame, PumpSentinel, PumpCancelled, LoopStep, TaskEnds, PumpAwaited, Disconnect,
         Retry, HandleStep, HandleSentinel, HandleList, HandleGarbled, HandleTrade, HandleSkipped,
         HandleGap, HandleApplied, RestStep, RestOk, RestRetry, RestFails, Start, Connect,
         ConnectFails, PutDone, Stale, Consume, Stop
<1>2. CASE HandleFrozen
  <2>1. Frame \in Msg /\ IsDiff(Frame)
    BY <1>2, NextAgrees DEF HandleFrozen
  <2>2. frozen' = frozen /\ frozenDeltas' = Append(frozenDeltas, Frame)
    BY <1>2 DEF HandleFrozen
  <2>3. ASSUME NEW d \in Msg, IsDiff(d) PROVE Diffs(Append(frozenDeltas, d))
    BY <2>3 DEF Diffs
  <2> QED
    BY <2>1, <2>2, <2>3 DEF Diffs
<1>3. CASE UNCHANGED freezeVars
  BY <1>3 DEF freezeVars, Diffs
<1> QED
  BY <1>1, <1>2, <1>3

(* What the finally clause leaves behind, whatever the report says.        *)
LEMMA FinishKeeps ==
  ASSUME HonestyInv, NEW r, Finish(r), IInv', Informed(book)',
         copy' \in Book, Faithful(copy)', Informed(copy)', restId' \in UpdateId,
         replayed' \in Nat, r.kind \in {"none", "raised", "stale", "compared"},
         r.ahead \in Nat, r.batches \in Nat, r.mismatches \subseteq Level,
         OnlyOvershootDiffers'
  PROVE  HonestyInv'
<1>1. Diffs(<< >>)
  BY DEF Diffs
<1>2. hpc' = "done" /\ report' = r /\ frozenDeltas' = << >>
  BY DEF Finish
<1>3. Diffs(frozenDeltas)' /\ ~Running'
  BY <1>1, <1>2 DEF Running, Diffs
<1> QED
  BY <1>2, <1>3 DEF HonestyInv

LEMMA HonestyKept == HonestyInv /\ [HNext]_hvars => HonestyInv'
<1> SUFFICES ASSUME HonestyInv, [HNext]_hvars PROVE HonestyInv'
  OBVIOUS
<1>1. [Next]_vars
  BY StepsTheFeed DEF HonestyInv
<1>2. IInv /\ IInv'
  BY <1>1, NextKeepsIInv DEF HonestyInv
<1>3. Informed(book)'
  BY <1>1, <1>2, LiveStep, InformedStep DEF HonestyInv, IInv
<1>4. Diffs(<< >>)
  BY DEF Diffs
<1>5. Faithful(book)
  BY <1>2 DEF IInv, SessionInv, BookFaithful
<1>6. book \in Book
  BY <1>2 DEF IInv, SessionInv, Scalars
<1>7. ASSUME NEW kind \in {"raised", "stale"}, Finish(Outcome(kind)),
             UNCHANGED <<copy, replayed>>, restId' \in UpdateId
      PROVE  HonestyInv'
  <2> DEFINE r == Outcome(kind)
  <2>1. r.kind = kind /\ r.ahead = 0 /\ r.batches = 0 /\ r.mismatches = {}
    BY DEF Outcome, NoReport
  <2>2. report' = r
    BY <1>7 DEF Finish
  <2>3. OnlyOvershootDiffers'
    BY <2>1, <2>2 DEF OnlyOvershootDiffers
  <2>4. copy' \in Book /\ Faithful(copy)' /\ Informed(copy)' /\ replayed' \in Nat
    BY <1>7 DEF HonestyInv, Faithful, Informed
  <2> HIDE DEF r
  <2> QED
    BY <1>2, <1>3, <1>7, <2>1, <2>3, <2>4, FinishKeeps DEF r
<1>8. CASE Meanwhile \/ Taken \/ StopAfter
  <2>1. FeedTask \/ Consume \/ Stop
    BY <1>8 DEF Meanwhile, Taken, StopAfter
  <2>2. frozen' = frozen /\ Diffs(frozenDeltas)'
    BY <1>2, <2>1, FeedHoldsDiffs DEF HonestyInv, IInv
  <2>3. UNCHANGED <<hpc, copy, restId, replayed, report>>
    BY <1>8 DEF Meanwhile, Taken, StopAfter, honestyVars
  <2> QED
    BY <1>2, <1>3, <2>2, <2>3
       DEF HonestyInv, Running, Faithful, Informed, OnlyOvershootDiffers
<1>9. CASE Freeze
  <2>1. CASE book.last = NoId /\ Finish(Outcome("raised")) /\ UNCHANGED <<copy, restId, replayed>>
    BY <1>7, <2>1 DEF HonestyInv
  <2>2. CASE /\ book.last # NoId /\ frozen' = TRUE /\ frozenDeltas' = << >>
             /\ copy' = book /\ hpc' = "rest"
             /\ UNCHANGED <<feedVars, restId, replayed, report>>
    <3>1. Diffs(frozenDeltas)' /\ hpc = "window"
      BY <1>4, <1>9, <2>2 DEF Diffs, Freeze
    <3>2. copy' \in Book /\ Faithful(copy)' /\ Informed(copy)'
      BY <1>5, <1>6, <2>2 DEF HonestyInv, Faithful, Informed
    <3>3. OnlyOvershootDiffers' /\ report = NoReport
      BY <2>2, <3>1 DEF HonestyInv, OnlyOvershootDiffers, NoReport
    <3> QED
      BY <1>2, <1>3, <2>2, <3>1, <3>2, <3>3 DEF HonestyInv
  <2> QED
    BY <1>9, <2>1, <2>2 DEF Freeze
<1>10. CASE RestAnswered
  <2>1. restId' \in UpdateId /\ hpc \in {"rest", "again"} /\ UNCHANGED <<copy, replayed>>
    BY <1>10 DEF RestAnswered
  <2>2. CASE /\ hpc' \in {"replay", "again"} /\ UNCHANGED <<feedVars, freezeVars, report>>
    <3>1. /\ UNCHANGED <<frozen, frozenDeltas, report>> /\ frozen /\ Diffs(frozenDeltas)'
          /\ report = NoReport
      BY <2>1, <2>2 DEF freezeVars, HonestyInv, Running, Diffs
    <3>2. OnlyOvershootDiffers'
      BY <3>1 DEF OnlyOvershootDiffers, NoReport
    <3>3. copy' \in Book /\ Faithful(copy)' /\ Informed(copy)' /\ replayed' \in Nat
      BY <2>1 DEF HonestyInv, Faithful, Informed
    <3> QED
      BY <1>2, <1>3, <2>1, <2>2, <3>1, <3>2, <3>3 DEF HonestyInv
  <2>3. CASE Finish(Outcome("stale"))
    BY <1>7, <2>1, <2>3
  <2> QED
    BY <1>10, <2>2, <2>3 DEF RestAnswered
<1>11. CASE RestRaises \/ CatchUpTimeout
  BY <1>7, <1>11 DEF RestRaises, CatchUpTimeout, HonestyInv
<1>12. CASE Replay
  <2> DEFINE pass == CatchUp(copy, replayed, frozenDeltas, restId)
  <2>1. /\ hpc = "replay" /\ copy' = pass.book /\ replayed' = pass.n /\ restId' = restId
        /\ \/ Finish(Outcome("stale"))
           \/ copy'.last >= restId /\ Finish(Compared(copy', restId, replayed'))
           \/ frozenDeltas' = << >> /\ UNCHANGED <<feedVars, frozen, hpc, report>>
    BY <1>12 DEF Replay
  <2>2. pass \in GoodPass
    BY CatchUpGood DEF HonestyInv
  <2> HIDE DEF pass
  <2>3. /\ copy' \in Book /\ Faithful(copy)' /\ Informed(copy)' /\ replayed' \in Nat
        /\ restId' \in UpdateId
    BY <2>1, <2>2 DEF GoodPass, Faithful, Informed, HonestyInv
  <2>4. CASE Finish(Outcome("stale"))
    <3>1. Outcome("stale").kind = "stale" /\ Outcome("stale").ahead = 0
          /\ Outcome("stale").batches = 0 /\ Outcome("stale").mismatches = {}
      BY DEF Outcome, NoReport
    <3>2. report' = Outcome("stale")
      BY <2>4 DEF Finish
    <3>3. OnlyOvershootDiffers'
      BY <3>1, <3>2 DEF OnlyOvershootDiffers
    <3> QED
      BY <1>2, <1>3, <2>3, <2>4, <3>1, <3>3, FinishKeeps
  <2>5. CASE copy'.last >= restId /\ Finish(Compared(copy', restId, replayed'))
    <3> DEFINE r == Compared(copy', restId, replayed')
    <3>1. /\ r.kind = "compared" /\ r.ahead = copy'.last - restId /\ r.batches = replayed'
          /\ r.mismatches = Mismatches(copy', restId)
      BY DEF Compared
    <3>2. report' = r
      BY <2>5 DEF Finish
    <3>3. restId \in UpdateId /\ copy'.last \in Nat /\ restId \in Nat
      BY <2>1, <2>3, <2>5, VenueAssumption DEF Book, UpdateId, NoId
    <3>4. r.mismatches \subseteq Level /\ r.ahead \in Nat
      BY <2>5, <3>1, <3>3 DEF Mismatches, Top
    <3> HIDE DEF r
    <3>5. OnlyOvershootDiffers'
      <4> SUFFICES ASSUME NEW p \in r.mismatches
                   PROVE  \E i \in restId .. (restId + r.ahead), q \in Level :
                            Rank[q] <= Rank[p] /\ History[i][q] # History[restId][q]
        BY <2>1, <3>2 DEF OnlyOvershootDiffers
      <4>1. restId + r.ahead = copy'.last
        BY <3>1, <3>3
      <4>2. Faithful(copy') /\ Informed(copy')
        BY <2>3 DEF Faithful, Informed
      <4> QED
        BY <2>3, <2>5, <3>1, <3>3, <4>1, <4>2, MismatchMeansChange
    <3> QED
      BY <1>2, <1>3, <2>3, <2>5, <3>1, <3>4, <3>5, FinishKeeps DEF r
  <2>6. CASE frozenDeltas' = << >> /\ UNCHANGED <<feedVars, frozen, hpc, report>>
    <3>1. Diffs(frozenDeltas)' /\ frozen
      BY <1>4, <2>1, <2>6 DEF Diffs, HonestyInv, Running
    <3>2. OnlyOvershootDiffers' /\ report = NoReport
      BY <2>1, <2>6 DEF HonestyInv, OnlyOvershootDiffers, NoReport
    <3> QED
      BY <1>2, <1>3, <2>1, <2>3, <2>6, <3>1, <3>2 DEF HonestyInv
  <2> QED
    BY <2>1, <2>4, <2>5, <2>6
<1>13. CASE UNCHANGED hvars
  BY <1>2, <1>3, <1>13
     DEF hvars, vars, honestyVars, HonestyInv, Running, Diffs, Faithful, Informed,
         OnlyOvershootDiffers
<1> QED
  BY <1>8, <1>9, <1>10, <1>11, <1>12, <1>13 DEF HNext, HonestyStep

(* Every behaviour of the live run is one of the feed: the check only      *)
(* watches, freezes and thaws it.                                          *)
THEOREM HonestyRunsTheFeed == HSpec => Spec
<1>1. HonestyInv => (Running => frozen)
  BY DEF HonestyInv
<1> QED
  BY <1>1, HonestyStarts, HonestyKept, StartsTheFeed, StepsTheFeed, PTL DEF HSpec, Spec

THEOREM HonestyInvariance == HSpec => []HonestyInv
  BY HonestyStarts, HonestyKept, PTL DEF HSpec

(* The diff that follows the thaw is never applied over the hole that the  *)
(* thrown-away diffs leave.                                                *)
THEOREM LiveStaysFaithful == HSpec => []LiveFaithful
<1>1. HonestyInv => LiveFaithful
  BY DEF HonestyInv, IInv, SessionInv, BookFaithful, LiveFaithful
<1> QED
  BY <1>1, HonestyInvariance, PTL

(* The copy is the venue's book after every pass, whatever was held.       *)
THEOREM CopyStaysFaithful == HSpec => []CopyFaithful
<1>1. HonestyInv => CopyFaithful
  BY DEF HonestyInv, CopyFaithful
<1> QED
  BY <1>1, HonestyInvariance, PTL

(* The report blames no level but one that changed, itself or a better     *)
(* one, after the answer.                                                  *)
THEOREM ReportIsHonest == HSpec => []ReportInv
<1>1. HonestyInv => ReportInv
  BY SessionTypes DEF HonestyInv, IInv, ReportInv, HTypeOK
<1> QED
  BY <1>1, HonestyInvariance, PTL

-----------------------------------------------------------------------------
\* The promise of the queue.

\* Diffs come in the order of their ids, in one buffer and from one to the next.
InOrder(s) ==
  \A i, j \in 1..Len(s) :
    i < j /\ s[i].kind = "depth" /\ s[j].kind = "depth" => s[i].u < s[j].u

Before(s, t) ==
  \A i \in 1..Len(s), j \in 1..Len(t) :
    s[i].kind = "depth" /\ t[j].kind = "depth" => s[i].u < t[j].u

\* Every diff of s was closed by the venue and comes after id n.
Later(s, n, cl) ==
  \A i \in 1..Len(s) : s[i].kind = "depth" => s[i].u > n /\ s[i] \in cl

NoTrade(s) == \A i \in 1..Len(s) : s[i].kind # "trade"

LineInOrder ==
  /\ InOrder(pending) /\ InOrder(incoming) /\ InOrder(wire)
  /\ Before(pending, incoming) /\ Before(pending, wire) /\ Before(incoming, wire)

LineLater(n) == Later(pending, n, closed) /\ Later(incoming, n, closed) /\ Later(wire, n, closed)

NoTrades ==
  /\ NoTrade(pending) /\ NoTrade(incoming) /\ NoTrade(wire)
  /\ pc = "publish" => out.kind # "trade"

\* The messages the venue has closed, the last of which ends at batchEnd.
ClosedGood ==
  /\ closed \subseteq {d \in Msg : IsDiff(d) /\ d.u <= batchEnd}
  /\ IF closed = {} THEN batchEnd = 0 ELSE \E d \in closed : d.u = batchEnd

\* The event whose put waits was not published before, and what it says can
\* be said now.
OutGood ==
  pc = "publish" =>
    /\ out.kind = "depth" => /\ out \in closed /\ out.u > newest /\ LineLater(out.u)
                             /\ Verdict(tip, out) = "applied"
    /\ out.kind = "snapshot" => /\ out = Snapshot(out.u)
                                /\ out.u <= answered /\ answered - out.u <= RestLag

PromiseInv ==
  /\ IInv /\ NoTrades /\ ClosedGood
  /\ LineInOrder /\ LineLater(newest) /\ OutGood
  /\ newest \in UpdateId \cup {NoId} /\ newest <= batchEnd /\ answered \in 0..head
  /\ stamps \in Seq(Int) /\ Len(stamps) = Len(queue)
  /\ tip \in Place /\ (pc = "next" => tip = Position(book))

-----------------------------------------------------------------------------
\* Buffers whose diffs are in order.

LEMMA LineEmpty ==
  ASSUME NEW s, NEW n, NEW cl
  PROVE  /\ InOrder(<< >>) /\ Before(<< >>, s) /\ Before(s, << >>)
         /\ Later(<< >>, n, cl) /\ NoTrade(<< >>)
  BY DEF InOrder, Before, Later, NoTrade

LEMMA LineTail ==
  ASSUME NEW s \in Seq(Msg), s # << >>, NEW t \in Seq(Msg), NEW n \in Int, NEW cl
  PROVE  /\ InOrder(s) => InOrder(Tail(s))
         /\ Before(s, t) => Before(Tail(s), t)
         /\ Before(t, s) => Before(t, Tail(s))
         /\ Later(s, n, cl) => Later(Tail(s), n, cl)
         /\ NoTrade(s) => NoTrade(Tail(s)) /\ Head(s).kind # "trade"
<1> DEFINE r == Tail(s)
<1>1. /\ Len(s) \in Nat /\ Len(s) > 0 /\ Len(r) = Len(s) - 1 /\ Head(s) = s[1]
      /\ \A i \in 1..Len(r) : r[i] = s[i + 1] /\ i + 1 \in 1..Len(s)
  OBVIOUS
<1>2. Len(t) \in Nat
  OBVIOUS
<1> HIDE DEF r
<1>3. InOrder(s) => InOrder(r)
  BY <1>1, SMTT(30) DEF InOrder
<1>4. (Before(s, t) => Before(r, t)) /\ (Before(t, s) => Before(t, r))
  BY <1>1, <1>2 DEF Before
<1>5. /\ Later(s, n, cl) => Later(r, n, cl)
      /\ NoTrade(s) => NoTrade(r) /\ Head(s).kind # "trade"
  <2>1. 1 \in 1..Len(s) /\ Head(s) = s[1] /\ \A i \in 1..Len(r) : i + 1 \in 1..Len(s) /\ r[i] = s[i + 1]
    BY <1>1
  <2> HIDE DEF r
  <2>2. Later(s, n, cl) => Later(r, n, cl)
    BY <2>1 DEF Later
  <2>3. NoTrade(s) => NoTrade(r) /\ Head(s).kind # "trade"
    BY <2>1 DEF NoTrade
  <2> QED
    BY <2>2, <2>3
<1> QED
  BY <1>3, <1>4, <1>5 DEF r

(* The first diff comes before the rest, and before what comes after.      *)
LEMMA LineFirst ==
  ASSUME NEW s \in Seq(Msg), s # << >>, NEW t \in Seq(Msg), NEW n \in Int, NEW cl,
         Later(s, n, cl), Later(t, n, cl), InOrder(s), Before(s, t), Head(s).kind = "depth"
  PROVE  /\ Head(s).u > n /\ Head(s) \in cl
         /\ Later(Tail(s), Head(s).u, cl) /\ Later(t, Head(s).u, cl)
<1> DEFINE r == Tail(s)
           h == Head(s)
<1>1. /\ Len(s) \in Nat /\ Len(s) > 0 /\ Len(r) = Len(s) - 1 /\ h = s[1] /\ 1 \in 1..Len(s)
      /\ \A i \in 1..Len(r) : r[i] = s[i + 1] /\ i + 1 \in 1..Len(s) /\ 1 < i + 1
  OBVIOUS
<1>2. h \in Msg /\ \A i \in 1..Len(s) : s[i] \in Msg
  OBVIOUS
<1>3. \A i \in 1..Len(t) : t[i] \in Msg
  OBVIOUS
<1>4. \A m \in Msg : m.u \in Int
  BY MsgFields
<1> HIDE DEF r, h
<1>5. h.u > n /\ h \in cl
  BY <1>1 DEF Later, h
<1>6. Later(r, h.u, cl)
  <2> SUFFICES ASSUME NEW i \in 1..Len(r), r[i].kind = "depth"
               PROVE  r[i].u > h.u /\ r[i] \in cl
    BY DEF Later
  <2>1. s[i + 1].kind = "depth" /\ s[1].kind = "depth"
    BY <1>1 DEF h
  <2>2. s[1].u < s[i + 1].u
    BY <1>1, <2>1 DEF InOrder
  <2> QED
    BY <1>1, <1>2, <1>4, <2>1, <2>2 DEF Later
<1>7. Later(t, h.u, cl)
  <2> SUFFICES ASSUME NEW i \in 1..Len(t), t[i].kind = "depth"
               PROVE  t[i].u > h.u /\ t[i] \in cl
    BY DEF Later
  <2>1. s[1].u < t[i].u
    BY <1>1 DEF Before, h
  <2> QED
    BY <1>1, <1>2, <1>3, <1>4, <2>1 DEF Later
<1> QED
  BY <1>5, <1>6, <1>7 DEF r, h

LEMMA LineConcat ==
  ASSUME NEW s \in Seq(Msg), NEW t \in Seq(Msg), NEW w \in Seq(Msg), NEW n \in Int, NEW cl
  PROVE  /\ InOrder(s) /\ InOrder(t) /\ Before(s, t) => InOrder(s \o t)
         /\ Before(s, w) /\ Before(t, w) => Before(s \o t, w)
         /\ Later(s, n, cl) /\ Later(t, n, cl) => Later(s \o t, n, cl)
         /\ NoTrade(s) /\ NoTrade(t) => NoTrade(s \o t)
<1> DEFINE r == s \o t
<1>1. Len(s) \in Nat /\ Len(t) \in Nat /\ Len(r) = Len(s) + Len(t)
  OBVIOUS
<1>2. \A i \in 1..Len(r) : \/ i \in 1..Len(s) /\ r[i] = s[i]
                           \/ i - Len(s) \in 1..Len(t) /\ r[i] = t[i - Len(s)]
  OBVIOUS
<1> HIDE DEF r
<1>3. ASSUME InOrder(s), InOrder(t), Before(s, t) PROVE InOrder(r)
  <2> SUFFICES ASSUME NEW i \in 1..Len(r), NEW j \in 1..Len(r), i < j,
                      r[i].kind = "depth", r[j].kind = "depth"
               PROVE  r[i].u < r[j].u
    BY DEF InOrder
  <2>1. CASE j \in 1..Len(s) /\ r[j] = s[j]
    <3>1. i \in 1..Len(s) /\ r[i] = s[i]
      BY <1>1, <1>2, <2>1
    <3> QED
      BY <1>3, <2>1, <3>1 DEF InOrder
  <2>2. CASE j - Len(s) \in 1..Len(t) /\ r[j] = t[j - Len(s)]
    <3>1. CASE i \in 1..Len(s) /\ r[i] = s[i]
      BY <1>3, <2>2, <3>1 DEF Before
    <3>2. CASE i - Len(s) \in 1..Len(t) /\ r[i] = t[i - Len(s)]
      <4>1. i - Len(s) < j - Len(s)
        BY <1>1
      <4> QED
        BY <1>3, <2>2, <3>2, <4>1 DEF InOrder
    <3> QED
      BY <1>2, <3>1, <3>2
  <2> QED
    BY <1>2, <2>1, <2>2
<1>4. ASSUME Before(s, w), Before(t, w) PROVE Before(r, w)
  BY <1>2, <1>4 DEF Before
<1>5. ASSUME Later(s, n, cl), Later(t, n, cl) PROVE Later(r, n, cl)
  BY <1>2, <1>5 DEF Later
<1>6. ASSUME NoTrade(s), NoTrade(t) PROVE NoTrade(r)
  BY <1>2, <1>6 DEF NoTrade
<1> QED
  BY <1>3, <1>4, <1>5, <1>6 DEF r

(* One more message, whose diff is later than those before it.             *)
LEMMA LineAppend ==
  ASSUME NEW s \in Seq(Msg), NEW t \in Seq(Msg), NEW m \in Msg, NEW n \in Int, NEW cl
  PROVE  /\ InOrder(s) /\ (m.kind = "depth" => \A i \in 1..Len(s) : s[i].kind = "depth" => s[i].u < m.u)
              => InOrder(Append(s, m))
         /\ Before(t, s) /\ (m.kind = "depth" => \A i \in 1..Len(t) : t[i].kind = "depth" => t[i].u < m.u)
              => Before(t, Append(s, m))
         /\ Before(s, t) /\ (m.kind = "depth" => \A i \in 1..Len(t) : t[i].kind = "depth" => m.u < t[i].u)
              => Before(Append(s, m), t)
         /\ Later(s, n, cl) /\ (m.kind = "depth" => m.u > n /\ m \in cl)
              => Later(Append(s, m), n, cl)
         /\ NoTrade(s) /\ m.kind # "trade" => NoTrade(Append(s, m))
<1> DEFINE r == Append(s, m)
<1>1. Len(s) \in Nat /\ Len(r) = Len(s) + 1
  OBVIOUS
<1>2. \A i \in 1..Len(r) : \/ i \in 1..Len(s) /\ r[i] = s[i]
                           \/ i = Len(s) + 1 /\ r[i] = m
  OBVIOUS
<1> HIDE DEF r
<1>3. ASSUME InOrder(s), m.kind = "depth" => \A i \in 1..Len(s) : s[i].kind = "depth" => s[i].u < m.u
      PROVE  InOrder(r)
  <2> SUFFICES ASSUME NEW i \in 1..Len(r), NEW j \in 1..Len(r), i < j,
                      r[i].kind = "depth", r[j].kind = "depth"
               PROVE  r[i].u < r[j].u
    BY DEF InOrder
  <2>1. i \in 1..Len(s) /\ r[i] = s[i]
    BY <1>1, <1>2
  <2> QED
    BY <1>2, <1>3, <2>1 DEF InOrder
<1>4. ASSUME Before(t, s), m.kind = "depth" => \A i \in 1..Len(t) : t[i].kind = "depth" => t[i].u < m.u
      PROVE  Before(t, r)
  BY <1>2, <1>4 DEF Before
<1>5. ASSUME Before(s, t), m.kind = "depth" => \A i \in 1..Len(t) : t[i].kind = "depth" => m.u < t[i].u
      PROVE  Before(r, t)
  BY <1>2, <1>5 DEF Before
<1>6. ASSUME Later(s, n, cl), m.kind = "depth" => m.u > n /\ m \in cl PROVE Later(r, n, cl)
  BY <1>2, <1>6 DEF Later
<1>7. ASSUME NoTrade(s), m.kind # "trade" PROVE NoTrade(r)
  BY <1>2, <1>7 DEF NoTrade
<1> QED
  BY <1>3, <1>4, <1>5, <1>6, <1>7 DEF r

(* Queued events keep their times.                                         *)
LEMMA PublishedAppend ==
  ASSUME NEW q \in Seq(Msg), NEW ts \in Seq(Int), Len(ts) = Len(q), NEW m \in Msg, NEW t \in Int
  PROVE  Published(Append(q, m), Append(ts, t)) = Append(Published(q, ts), Stream!Stamped(m, t))
<1> DEFINE Item(x, y) == [kind |-> x.kind, U |-> x.U, u |-> x.u, pu |-> x.pu, ts |-> y]
           P == Published(q, ts)
           A == Published(Append(q, m), Append(ts, t))
           n == Len(q)
<1>1. n \in Nat /\ Len(Append(q, m)) = n + 1 /\ \A i \in 1..n : Append(q, m)[i] = q[i]
      /\ Append(q, m)[n + 1] = m
  OBVIOUS
<1>2. /\ \A i \in 1..n : Append(ts, t)[i] = ts[i]
      /\ Append(ts, t)[n + 1] = t
  OBVIOUS
<1>3. P = [i \in 1..n |-> Item(q[i], ts[i])]
  BY DEF Published
<1>4. A = [i \in 1..(n + 1) |-> Item(Append(q, m)[i], Append(ts, t)[i])]
  BY <1>1 DEF Published
<1>5. Stream!Stamped(m, t) = Item(m, t)
  BY DEF Stream!Stamped
<1> DEFINE D == {Item(q[i], ts[i]) : i \in 1..n} \cup {Item(m, t)}
<1>6. P \in Seq(D) /\ Len(P) = n /\ Item(m, t) \in D
  BY <1>1, <1>3
<1>7. /\ A \in Seq(D) /\ Len(A) = n + 1 /\ A[n + 1] = Item(m, t)
      /\ \A i \in 1..n : A[i] = P[i]
  <2>1. \A i \in 1..(n + 1) : \/ i \in 1..n /\ A[i] = Item(q[i], ts[i]) /\ A[i] = P[i]
                              \/ i = n + 1 /\ A[i] = Item(m, t)
    <3> HIDE DEF Item, A, P, n
    <3>1. \A i \in 1..n : i \in 1..(n + 1) /\ A[i] = Item(q[i], ts[i]) /\ A[i] = P[i]
      BY <1>1, <1>2, <1>3, <1>4
    <3>2. n + 1 \in 1..(n + 1) /\ A[n + 1] = Item(m, t)
      BY <1>1, <1>2, <1>4
    <3> QED
      BY <1>1, <3>1, <3>2
  <2>2. A = [i \in 1..(n + 1) |-> A[i]]
    BY <1>4
  <2> HIDE DEF A, P, Item, n
  <2>3. A \in [1..(n + 1) -> D]
    BY <2>1, <2>2
  <2> HIDE DEF D
  <2>4. A \in Seq(D) /\ n + 1 \in Nat
    BY <1>1, <2>3
  <2>5. Len(A) = n + 1
    BY <2>3, <2>4
  <2> QED
    BY <1>1, <2>1, <2>4, <2>5, SMTT(30)
<1> HIDE DEF Item, A, P, D, n
<1>8. Append(P, Item(m, t)) = A
  <2>1. /\ Append(P, Item(m, t)) \in Seq(D) /\ Len(Append(P, Item(m, t))) = n + 1
        /\ \A i \in 1..n : Append(P, Item(m, t))[i] = P[i]
        /\ Append(P, Item(m, t))[n + 1] = Item(m, t)
    BY <1>6, AppendProperties
  <2>2. \A i \in 1..(n + 1) : Append(P, Item(m, t))[i] = A[i]
    BY <1>1, <1>7, <2>1
  <2> QED
    BY <1>7, <2>1, <2>2, SeqEqual
<1> QED
  BY <1>5, <1>8 DEF A, P

LEMMA PublishedTail ==
  ASSUME NEW q \in Seq(Msg), NEW ts \in Seq(Int), Len(ts) = Len(q), q # << >>
  PROVE  /\ Published(q, ts) # << >>
         /\ Published(Tail(q), Tail(ts)) = Tail(Published(q, ts))
<1> DEFINE Item(x, y) == [kind |-> x.kind, U |-> x.U, u |-> x.u, pu |-> x.pu, ts |-> y]
           P == Published(q, ts)
           A == Published(Tail(q), Tail(ts))
           n == Len(q)
<1>1. n \in Nat /\ n > 0 /\ Len(Tail(q)) = n - 1 /\ \A i \in 1..(n - 1) : Tail(q)[i] = q[i + 1]
  OBVIOUS
<1>2. \A i \in 1..(n - 1) : Tail(ts)[i] = ts[i + 1]
  OBVIOUS
<1>3. P = [i \in 1..n |-> Item(q[i], ts[i])]
  BY DEF Published
<1>4. A = [i \in 1..(n - 1) |-> Item(Tail(q)[i], Tail(ts)[i])]
  BY <1>1 DEF Published
<1> DEFINE D == {Item(q[i], ts[i]) : i \in 1..n}
<1>5. P \in Seq(D) /\ Len(P) = n
  <2>1. P \in [1..n -> D]
    BY <1>3
  <2> HIDE DEF P, D
  <2>2. P \in Seq(D)
    BY <1>1, <2>1
  <2> QED
    BY <1>1, <2>1, <2>2
<1>6. A \in Seq(D) /\ Len(A) = n - 1 /\ \A i \in 1..(n - 1) : A[i] = P[i + 1]
  <2>1. \A i \in 1..(n - 1) : i + 1 \in 1..n
    BY <1>1
  <2>2. \A i \in 1..(n - 1) : Item(Tail(q)[i], Tail(ts)[i]) = Item(q[i + 1], ts[i + 1])
    BY <1>1, <1>2
  <2>3. A = [i \in 1..(n - 1) |-> Item(q[i + 1], ts[i + 1])]
    BY <1>4, <2>2
  <2>4. A \in [1..(n - 1) -> D] /\ \A i \in 1..(n - 1) : A[i] = P[i + 1]
    <3> HIDE DEF Item, A, P, n
    <3> QED
      BY <1>3, <2>1, <2>3
  <2> HIDE DEF A, P, D, Item, n
  <2>5. A \in Seq(D)
    BY <1>1, <2>4
  <2> QED
    BY <1>1, <2>4, <2>5
<1> HIDE DEF Item, A, P, D, n
<1>7. P # << >> /\ A = Tail(P)
  <2>1. P # << >>
    BY <1>1, <1>5
  <2>2. Tail(P) \in Seq(D) /\ Len(Tail(P)) = n - 1 /\ \A i \in 1..(n - 1) : Tail(P)[i] = P[i + 1]
    BY <1>5, <2>1, HeadTailProperties
  <2>3. \A i \in 1..(n - 1) : A[i] = Tail(P)[i]
    BY <1>6, <2>2
  <2> QED
    BY <1>6, <2>1, <2>2, <2>3, SeqEqual
<1> QED
  BY <1>7 DEF A, P

-----------------------------------------------------------------------------
\* The line of frames between the venue and the feed task.

LineVars == <<wire, incoming, pending>>

\* What each action does to the line.
LineMoved ==
  \/ UNCHANGED LineVars
  \/ wire' = << >> /\ incoming' = << >> /\ pending' = << >>
  \/ PumpFrame
  \/ PumpSentinel
  \/ UNCHANGED wire /\ incoming' = << >> /\ pending' = Arrived
  \/ UNCHANGED wire /\ Arrived # << >> /\ Take
  \/ UNCHANGED wire /\ Arrived # << >> /\ incoming' = << >> /\ pending' = Tail(Arrived)

LineGood ==
  /\ LineInOrder /\ NoTrade(pending) /\ NoTrade(incoming) /\ NoTrade(wire)

LEMMA LineTypes ==
  SessionInv => /\ wire \in Seq(Msg) /\ incoming \in Seq(Msg) /\ pending \in Seq(Msg)
                /\ Arrived \in Seq(Msg)
<1> SUFFICES ASSUME SessionInv
             PROVE  /\ wire \in Seq(Msg) /\ incoming \in Seq(Msg) /\ pending \in Seq(Msg)
                    /\ Arrived \in Seq(Msg)
  OBVIOUS
<1>1. wire \in Seq(Msg) /\ incoming \in Seq(Msg) /\ pending \in Seq(Msg)
  BY DEF SessionInv, FramesGood, Buffer
<1> QED
  BY <1>1 DEF Arrived

(* Moving frames along the line keeps the diffs in order.                  *)
LEMMA LineMoves ==
  ASSUME SessionInv, LineGood, LineMoved, NEW n \in Int, LineLater(n)
  PROVE  /\ LineGood'
         /\ Later(pending', n, closed) /\ Later(incoming', n, closed) /\ Later(wire', n, closed)
<1>1. /\ wire \in Seq(Msg) /\ incoming \in Seq(Msg) /\ pending \in Seq(Msg)
      /\ Arrived \in Seq(Msg) /\ << >> \in Seq(Msg)
  BY LineTypes
<1>2. /\ InOrder(pending) /\ InOrder(incoming) /\ InOrder(wire)
      /\ Before(pending, incoming) /\ Before(pending, wire) /\ Before(incoming, wire)
      /\ NoTrade(pending) /\ NoTrade(incoming) /\ NoTrade(wire)
      /\ Later(pending, n, closed) /\ Later(incoming, n, closed) /\ Later(wire, n, closed)
  BY DEF LineGood, LineInOrder, LineLater
<1>3. InOrder(Arrived) /\ Before(Arrived, wire) /\ NoTrade(Arrived) /\ Later(Arrived, n, closed)
  BY <1>1, <1>2, LineConcat DEF Arrived
<1>4. \A s \in Seq(Msg) : /\ InOrder(<< >>) /\ Before(<< >>, s) /\ Before(s, << >>)
                          /\ Later(<< >>, n, closed) /\ NoTrade(<< >>)
  BY LineEmpty
<1> DEFINE Goal(p, i, w) ==
             /\ InOrder(p) /\ InOrder(i) /\ InOrder(w)
             /\ Before(p, i) /\ Before(p, w) /\ Before(i, w)
             /\ NoTrade(p) /\ NoTrade(i) /\ NoTrade(w)
             /\ Later(p, n, closed) /\ Later(i, n, closed) /\ Later(w, n, closed)
<1>5. SUFFICES Goal(pending', incoming', wire')
  BY <1>5 DEF LineGood, LineInOrder
<1>6. CASE UNCHANGED LineVars
  <2>1. pending' = pending /\ incoming' = incoming /\ wire' = wire
    BY <1>6 DEF LineVars
  <2> QED
    BY <1>2, <2>1
<1>7. CASE wire' = << >> /\ incoming' = << >> /\ pending' = << >>
  BY <1>1, <1>4, <1>7
<1>8. CASE PumpFrame
  <2>1. /\ wire # << >> /\ incoming' = Append(incoming, Head(wire)) /\ wire' = Tail(wire)
        /\ pending' = pending
    BY <1>8 DEF PumpFrame
  <2> DEFINE h == Head(wire)
  <2>2. h \in Msg /\ h = wire[1] /\ 1 \in 1..Len(wire) /\ Tail(wire) \in Seq(Msg)
    BY <1>1, <2>1
  <2>3. h.kind # "trade" /\ (h.kind = "depth" => h.u > n /\ h \in closed)
    BY <1>2, <2>2 DEF NoTrade, Later
  <2>4. h.kind = "depth" => /\ \A i \in 1..Len(incoming) : incoming[i].kind = "depth" => incoming[i].u < h.u
                            /\ \A i \in 1..Len(pending) : pending[i].kind = "depth" => pending[i].u < h.u
    BY <1>2, <2>2 DEF Before
  <2>5. h.kind = "depth" => \A i \in 1..Len(Tail(wire)) : Tail(wire)[i].kind = "depth" => h.u < Tail(wire)[i].u
    <3>1. \A i \in 1..Len(Tail(wire)) : Tail(wire)[i] = wire[i + 1] /\ i + 1 \in 1..Len(wire) /\ 1 < i + 1
      BY <1>1, <2>1
    <3> QED
      BY <1>2, <2>2, <3>1 DEF InOrder
  <2> HIDE DEF h
  <2>6. /\ InOrder(Tail(wire)) /\ Before(pending, Tail(wire)) /\ Before(incoming, Tail(wire))
        /\ Later(Tail(wire), n, closed) /\ NoTrade(Tail(wire))
    BY <1>1, <1>2, <2>1, LineTail
  <2>7. /\ InOrder(Append(incoming, h)) /\ Before(pending, Append(incoming, h))
        /\ Before(Append(incoming, h), Tail(wire))
        /\ Later(Append(incoming, h), n, closed) /\ NoTrade(Append(incoming, h))
    BY <1>1, <1>2, <2>2, <2>3, <2>4, <2>5, <2>6, LineAppend
  <2> QED
    BY <1>2, <2>1, <2>6, <2>7 DEF h
<1>9. CASE PumpSentinel
  <2>1. incoming' = Append(incoming, Sentinel) /\ UNCHANGED <<wire, pending>>
    BY <1>9 DEF PumpSentinel, socketVars
  <2>2. Sentinel \in Msg /\ Sentinel.kind = "eof"
    BY VenueAssumption DEF Sentinel, Mark, Msg, Kind, UpdateId
  <2>3. /\ InOrder(Append(incoming, Sentinel)) /\ Before(pending, Append(incoming, Sentinel))
        /\ Before(Append(incoming, Sentinel), wire)
        /\ Later(Append(incoming, Sentinel), n, closed) /\ NoTrade(Append(incoming, Sentinel))
    BY <1>1, <1>2, <2>2, LineAppend
  <2> QED
    BY <1>2, <2>1, <2>3
<1>10. CASE UNCHANGED wire /\ incoming' = << >> /\ pending' = Arrived
  BY <1>1, <1>2, <1>3, <1>4, <1>10
<1>11. CASE UNCHANGED wire /\ Arrived # << >> /\ Take
  <2>1. CASE pending # << >> /\ pending' = Tail(pending) /\ UNCHANGED incoming
    <3>1. /\ InOrder(Tail(pending)) /\ Before(Tail(pending), incoming)
          /\ Before(Tail(pending), wire) /\ Later(Tail(pending), n, closed)
          /\ NoTrade(Tail(pending))
      BY <1>1, <1>2, <2>1, LineTail
    <3> QED
      BY <1>2, <1>11, <2>1, <3>1
  <2>2. CASE pending = << >> /\ incoming' = Tail(incoming) /\ UNCHANGED pending
    <3>1. incoming # << >>
      BY <1>1, <1>11, <2>2 DEF Arrived
    <3>2. /\ InOrder(Tail(incoming)) /\ Before(pending, Tail(incoming))
          /\ Before(Tail(incoming), wire) /\ Later(Tail(incoming), n, closed)
          /\ NoTrade(Tail(incoming))
      BY <1>1, <1>2, <3>1, LineTail
    <3> QED
      BY <1>2, <1>11, <2>2, <3>2
  <2> QED
    BY <1>11, <2>1, <2>2 DEF Take
<1>12. CASE UNCHANGED wire /\ Arrived # << >> /\ incoming' = << >> /\ pending' = Tail(Arrived)
  <2>1. /\ InOrder(Tail(Arrived)) /\ Before(Tail(Arrived), wire) /\ Later(Tail(Arrived), n, closed)
        /\ NoTrade(Tail(Arrived)) /\ Tail(Arrived) \in Seq(Msg)
    BY <1>1, <1>3, <1>12, LineTail
  <2>2. Goal(Tail(Arrived), << >>, wire)
    BY <1>1, <1>2, <1>4, <2>1
  <2>3. pending' = Tail(Arrived) /\ incoming' = << >> /\ wire' = wire
    BY <1>12
  <2> HIDE DEF Goal
  <2> QED
    BY <2>2, <2>3
<1> QED
  BY <1>6, <1>7, <1>8, <1>9, <1>10, <1>11, <1>12 DEF LineMoved

(* The frame the task takes is the first: what is left comes after it.     *)
LEMMA FrameFirst ==
  ASSUME SessionInv, LineGood, NEW n \in Int, LineLater(n), Arrived # << >>,
         Frame.kind = "depth"
  PROVE  /\ Frame \in closed /\ Frame.u > n
         /\ Take /\ UNCHANGED wire =>
              /\ Later(pending', Frame.u, closed) /\ Later(incoming', Frame.u, closed)
              /\ Later(wire', Frame.u, closed)
<1>1. /\ wire \in Seq(Msg) /\ incoming \in Seq(Msg) /\ pending \in Seq(Msg)
  BY LineTypes
<1>2. /\ InOrder(pending) /\ InOrder(incoming)
      /\ Before(pending, incoming) /\ Before(pending, wire) /\ Before(incoming, wire)
      /\ Later(pending, n, closed) /\ Later(incoming, n, closed) /\ Later(wire, n, closed)
  BY DEF LineGood, LineInOrder, LineLater
<1>3. CASE pending # << >>
  <2>1. Frame = Head(pending)
    BY <1>1, <1>3, ConcatHead DEF Frame, Arrived
  <2>2. /\ Frame.u > n /\ Frame \in closed
        /\ Later(Tail(pending), Frame.u, closed) /\ Later(incoming, Frame.u, closed)
    BY <1>1, <1>2, <1>3, <2>1, LineFirst
  <2>3. Later(wire, Frame.u, closed)
    BY <1>1, <1>2, <1>3, <2>1, LineFirst
  <2>4. Take => pending' = Tail(pending) /\ incoming' = incoming
    BY <1>3 DEF Take
  <2> QED
    BY <2>2, <2>3, <2>4
<1>4. CASE pending = << >>
  <2>1. Frame = Head(incoming) /\ incoming # << >>
    BY <1>1, <1>4, ConcatHead DEF Frame, Arrived
  <2>2. /\ Frame.u > n /\ Frame \in closed
        /\ Later(Tail(incoming), Frame.u, closed) /\ Later(wire, Frame.u, closed)
    BY <1>1, <1>2, <2>1, LineFirst
  <2>3. Later(pending, Frame.u, closed)
    BY <1>4, LineEmpty
  <2>4. Take => pending' = pending /\ incoming' = Tail(incoming)
    BY <1>4 DEF Take
  <2> QED
    BY <2>2, <2>3, <2>4
<1> QED
  BY <1>3, <1>4

(* Every action but the venue's closing of a diff moves frames along.      *)
LEMMA NextMovesLine ==
  SessionInv /\ "trade" \notin Extras /\ [Next]_vars => LineMoved \/ VenueDiff
<1> SUFFICES ASSUME SessionInv, "trade" \notin Extras, [Next]_vars PROVE LineMoved \/ VenueDiff
  OBVIOUS
<1>1. (VenueUpdate \/ SocketClose \/ PumpCancelled) => UNCHANGED LineVars
  BY DEF VenueUpdate, SocketClose, PumpCancelled, LineVars, socketVars, rawVars
<1>2. ~VenueTrade
  BY DEF VenueTrade
<1>3. (Start \/ Stop \/ PumpAwaited \/ Retry \/ ConnectFails \/ RestRetry \/ RestFails \/ Stale
       \/ FreezeForHonesty \/ UnfreezeForHonesty \/ PutDone \/ Consume \/ UNCHANGED vars)
      => UNCHANGED LineVars
  BY DEF Start, Stop, PumpAwaited, Retry, ConnectFails, RestRetry, RestFails, Stale,
         FreezeForHonesty, UnfreezeForHonesty, PutDone, Consume, LineVars, socketVars, rawVars, vars
<1>4. (Connect \/ TaskEnds \/ Disconnect)
      => wire' = << >> /\ incoming' = << >> /\ pending' = << >>
  BY DEF Connect, TaskEnds, Disconnect, DropSession
<1>5. RestOk => UNCHANGED wire /\ incoming' = << >> /\ pending' = Arrived
  BY DEF RestOk, socketVars
<1>6. (HandleSentinel \/ HandleList \/ HandleGarbled \/ HandleTrade \/ HandleFrozen
       \/ HandleSkipped \/ HandleApplied)
      => UNCHANGED wire /\ Arrived # << >> /\ Take
  BY DEF HandleSentinel, HandleList, HandleGarbled, HandleTrade, HandleFrozen, HandleSkipped,
         HandleApplied, Taking, socketVars
<1>7. HandleGap => UNCHANGED wire /\ Arrived # << >> /\ incoming' = << >> /\ pending' = Tail(Arrived)
  BY DEF HandleGap, Taking, socketVars
<1> QED
  BY <1>1, <1>2, <1>3, <1>4, <1>5, <1>6, <1>7
     DEF LineMoved, Next, FeedNext, VenueStep, PumpStep, LoopStep, HandleStep, RestStep, CallStep

-----------------------------------------------------------------------------
\* The steps, and what each is to whoever reads the queue.

StreamVars == Stream!streamVars

LEMMA PromiseFacts ==
  PromiseInv => /\ head \in Nat /\ head \in UpdateId /\ batchEnd \in 0..head /\ newest \in Int
                /\ book \in Book /\ queue \in Seq(Msg) /\ out \in Msg /\ LineGood
                /\ SessionInv /\ PipelineInv
                /\ (pc = "publish" => out.kind \in {"depth", "snapshot"})
<1> SUFFICES ASSUME PromiseInv
             PROVE  /\ head \in Nat /\ head \in UpdateId /\ batchEnd \in 0..head /\ newest \in Int
                    /\ book \in Book /\ queue \in Seq(Msg) /\ out \in Msg /\ LineGood
                    /\ SessionInv /\ PipelineInv
                    /\ (pc = "publish" => out.kind \in {"depth", "snapshot"})
  OBVIOUS
<1>1. SessionInv /\ PipelineInv /\ LineGood
  BY DEF PromiseInv, IInv, LineGood, NoTrades
<1>2. head \in UpdateId /\ batchEnd \in 0..head
  BY <1>1 DEF SessionInv, Scalars
<1>3. head \in Nat /\ newest \in Int
  BY <1>2, VenueAssumption DEF PromiseInv, UpdateId, NoId
<1>4. pc = "publish" => out.kind \in {"depth", "snapshot"}
  BY <1>1 DEF PromiseInv, NoTrades, SessionInv, EventsGood, GoodMsg, EventKinds
<1> QED
  BY <1>1, <1>2, <1>3, <1>4, PipelineFacts

(* The last event that waits stands for the live book.                     *)
LEMMA OutReached ==
  ASSUME SessionInv, PipelineInv, pc = "publish", out.kind # "trade"
  PROVE  Position(book) = After(out)
<1> DEFINE P == Append(queue, out)
           k == Len(P)
<1>1. queue \in Seq(Msg) /\ out \in Msg /\ Position(replica) \in Place
  BY PipelineFacts
<1>2. Reaches(Position(replica), P, Position(book))
  BY DEF PipelineInv, PipelineGood, InEpoch, Pipeline
<1>3. k \in Nat /\ k # 0 /\ k \in 0..k /\ P[k] = out
  BY <1>1
<1> HIDE DEF P, k
<1>4. Moves(P, k) /\ OnlyTrades(P, k, k + 1)
  BY <1>3 DEF Moves, OnlyTrades
<1>5. PlaceOf(Position(replica), P, k) = Position(book)
  <2>1. k = Len(P)
    BY DEF k
  <2> QED
    BY <1>2, <1>3, <1>4, <2>1 DEF Reaches
<1> QED
  BY <1>3, <1>5 DEF PlaceOf

(* The messages closed so far end where the next one begins.               *)
LEMMA BatchEndIs == PromiseInv => Stream!BatchEnd = batchEnd
<1> SUFFICES ASSUME PromiseInv PROVE Stream!BatchEnd = batchEnd
  OBVIOUS
<1>1. ClosedGood /\ \A d \in closed : d.u \in Nat /\ d.u <= batchEnd
  BY MsgFields DEF PromiseInv, ClosedGood
<1>2. CASE closed = {}
  BY <1>1, <1>2 DEF Stream!BatchEnd, ClosedGood
<1>3. CASE closed # {}
  <2>1. PICK d \in closed : d.u = batchEnd
    BY <1>1, <1>3 DEF ClosedGood
  <2> DEFINE Us == {c.u : c \in closed}
  <2>2. batchEnd \in Us /\ \A c \in closed : c.u <= batchEnd
    BY <1>1, <2>1
  <2>3. \A u \in Us : (\A c \in closed : c.u <= u) => u = batchEnd
    <3> SUFFICES ASSUME NEW u \in Us, \A c \in closed : c.u <= u PROVE u = batchEnd
      OBVIOUS
    <3>1. u \in Nat /\ u <= batchEnd /\ batchEnd <= u /\ batchEnd \in Nat
      BY <1>1, <2>1
    <3> QED
      BY <3>1
  <2>4. Stream!BatchEnd = CHOOSE u \in Us : \A c \in closed : c.u <= u
    BY <1>3 DEF Stream!BatchEnd
  <2> QED
    BY <2>2, <2>3, <2>4
<1> QED
  BY <1>2, <1>3

LEMMA SameRules ==
  /\ \A b, d : Stream!Verdict(b, d) = Verdict(b, d)
  /\ \A d : Stream!IsDiff(d) = IsDiff(d)
  BY DEF Stream!Verdict, Verdict, Stream!Brackets, Brackets, Stream!NoId, NoId,
         Stream!IsDiff, IsDiff

(* A step that neither closes a diff nor changes the queue.                *)
LEMMA QuietPromise ==
  ASSUME PromiseInv, IInv', Noting, LineMoved, UNCHANGED <<batchEnd, queue>>,
         head' \in Nat, head <= head',
         UNCHANGED <<pc, out, book>> \/ pc' \notin {"publish", "next"}
  PROVE  PromiseInv' /\ UNCHANGED <<closed, stamps, tip, newest>>
<1>1. closed' = closed
  BY DEF Noting, Closing
<1>2. ~Put /\ UNCHANGED <<stamps, tip, newest, answered>>
  <2>1. queue \in Seq(Msg) /\ Len(queue) \in Nat
    BY PromiseFacts
  <2> QED
    BY <2>1 DEF Noting, Put
<1>3. SessionInv /\ LineGood /\ newest \in Int /\ LineLater(newest)
  BY PromiseFacts DEF PromiseInv
<1>4. LineGood' /\ LineLater(newest)'
  BY <1>1, <1>2, <1>3, LineMoves DEF LineLater
<1>5. OutGood'
  <2> SUFFICES ASSUME pc' = "publish" PROVE OutGood'
    BY DEF OutGood
  <2>1. pc = "publish" /\ out' = out /\ out \in Msg /\ out.u \in Int
    BY PromiseFacts, MsgFields
  <2>2. OutGood
    BY DEF PromiseInv
  <2>3. out.kind = "depth" => LineLater(out.u)'
    BY <1>1, <1>3, <2>1, <2>2, LineMoves DEF LineLater, OutGood
  <2> QED
    BY <1>1, <1>2, <2>1, <2>2, <2>3 DEF OutGood
<1>6. pc' = "next" => tip' = Position(book)'
  BY <1>2 DEF PromiseInv, Position
<1>7. ClosedGood'
  BY <1>1 DEF PromiseInv, ClosedGood
<1>8. answered' \in 0..head'
  BY <1>2, PromiseFacts DEF PromiseInv
<1>9. NoTrades'
  BY <1>4 DEF LineGood, NoTrades, PromiseInv
<1> QED
  BY <1>1, <1>2, <1>4, <1>5, <1>6, <1>7, <1>8, <1>9 DEF PromiseInv, LineGood

(* The venue closes a diff: the line grows at its end.                     *)
LEMMA VenueDiffPromise ==
  ASSUME PromiseInv, IInv', Noting, VenueDiff, "trade" \notin Extras
  PROVE  PromiseInv' /\ Stream!VenueDiff /\ UNCHANGED <<stamps, tip, newest>>
<1>1. /\ UNCHANGED <<head, incoming, pending, pc, out, book, queue>>
      /\ batchEnd < head /\ batchEnd' = head
  BY DEF VenueDiff, venueVars, rawVars
<1>2. /\ head \in Nat /\ batchEnd \in Nat /\ batchEnd' # batchEnd /\ head \in UpdateId
      /\ SessionInv /\ LineGood /\ newest \in Int /\ LineLater(newest) /\ newest <= batchEnd
      /\ queue \in Seq(Msg) /\ out \in Msg /\ batchEnd \in UpdateId
  BY <1>1, PromiseFacts, VenueAssumption DEF PromiseInv, UpdateId
<1>3. PICK U \in (batchEnd + 1) .. head :
        /\ IsDiff(Diff(U, head, batchEnd))
        /\ (wire' # wire /\ wire'[Len(wire')].kind = "depth") => wire'[Len(wire')].U = U
        /\ closed' = closed \cup {Diff(U, head, batchEnd)}
  BY <1>2 DEF Noting, Closing
<1> DEFINE d == Diff(U, head, batchEnd)
<1>4. d \in Msg /\ d.u = head /\ d.kind = "depth"
  BY <1>2, VenueAssumption DEF Diff, Msg, Kind, UpdateId
<1>5. UNCHANGED <<stamps, tip, newest, answered>>
  <2>1. Len(queue) \in Nat
    BY <1>2
  <2> QED
    BY <1>1, <2>1 DEF Noting, Put
<1>6. ClosedGood'
  <2>1. \A c \in closed : c \in Msg /\ IsDiff(c) /\ c.u <= head
    <3>1. \A c \in closed : c \in Msg /\ IsDiff(c) /\ c.u <= batchEnd /\ c.u \in Nat
      BY MsgFields DEF PromiseInv, ClosedGood
    <3> QED
      BY <1>1, <1>2, <3>1
  <2> HIDE DEF d
  <2> QED
    BY <1>1, <1>2, <1>3, <1>4, <2>1 DEF ClosedGood, d
<1>7. \/ wire' = wire
      \/ \E m \in Msg : /\ wire' = Append(wire, m) /\ m.kind # "trade"
                        /\ m.kind = "depth" => m = d
  <2>1. PICK V \in (batchEnd + 1) .. head, fate \in {"sent", "garbled", "list", "lost"} :
          LET e == Diff(V, head, batchEnd)
              frame == IF fate = "sent" THEN e ELSE Mark(fate)
          IN  /\ fate # "lost" => wire' = Append(wire, frame)
              /\ fate = "lost" => wire' = wire
    BY FeedAssumption DEF VenueDiff
  <2>2. CASE fate = "lost"
    BY <2>1, <2>2
  <2>3. CASE fate \in {"garbled", "list"}
    <3>1. Mark(fate) \in Msg /\ Mark(fate).kind = fate
      BY <2>3, VenueAssumption DEF Mark, Msg, Kind, UpdateId
    <3> QED
      BY <2>1, <2>3, <3>1
  <2>4. CASE fate = "sent"
    <3> DEFINE e == Diff(V, head, batchEnd)
    <3>1. e \in Msg /\ e.kind = "depth" /\ e.U = V
      BY <1>2, VenueAssumption DEF Diff, Msg, Kind, UpdateId
    <3>2. wire' = Append(wire, e)
      BY <2>1, <2>4
    <3>3. wire \in Seq(Msg)
      BY <1>2, LineTypes
    <3> HIDE DEF e
    <3>4. wire' # wire /\ wire'[Len(wire')] = e
      BY <3>1, <3>2, <3>3
    <3>5. V = U
      BY <1>3, <3>1, <3>4
    <3> QED
      BY <3>1, <3>2, <3>5 DEF e
  <2> QED
    BY <2>2, <2>3, <2>4
<1> HIDE DEF d
<1>8. ASSUME NEW s \in Seq(Msg), NEW n \in Int, Later(s, n, closed)
      PROVE  /\ Later(s, n, closed')
             /\ \A i \in 1..Len(s) : s[i].kind = "depth" => s[i].u < d.u
  <2>1. ASSUME NEW i \in 1..Len(s), s[i].kind = "depth"
        PROVE  s[i] \in closed' /\ s[i].u > n /\ s[i].u < d.u
    <3>1. s[i] \in closed /\ s[i].u > n
      BY <1>8, <2>1 DEF Later
    <3>2. s[i].u <= batchEnd /\ s[i].u \in Nat
      BY <3>1, MsgFields DEF PromiseInv, ClosedGood
    <3> QED
      BY <1>1, <1>2, <1>3, <1>4, <3>1, <3>2
  <2> QED
    BY <2>1 DEF Later
<1>9. ASSUME NEW n \in Int, n <= batchEnd, LineLater(n)
      PROVE  LineGood' /\ Later(pending', n, closed') /\ Later(incoming', n, closed')
             /\ Later(wire', n, closed')
  <2>1. wire \in Seq(Msg) /\ incoming \in Seq(Msg) /\ pending \in Seq(Msg)
    BY <1>2, LineTypes
  <2>2. /\ InOrder(pending) /\ InOrder(incoming) /\ InOrder(wire)
        /\ Before(pending, incoming) /\ Before(pending, wire) /\ Before(incoming, wire)
        /\ NoTrade(pending) /\ NoTrade(incoming) /\ NoTrade(wire)
        /\ Later(pending, n, closed) /\ Later(incoming, n, closed) /\ Later(wire, n, closed)
    BY <1>2, <1>9 DEF LineGood, LineInOrder, LineLater
  <2>3. Later(pending, n, closed') /\ Later(incoming, n, closed') /\ Later(wire, n, closed')
    BY <1>8, <2>1, <2>2
  <2>4. CASE wire' = wire
    BY <1>1, <2>2, <2>3, <2>4 DEF LineGood, LineInOrder
  <2>5. ASSUME NEW m \in Msg, wire' = Append(wire, m), m.kind # "trade", m.kind = "depth" => m = d
        PROVE  LineGood' /\ Later(pending', n, closed') /\ Later(incoming', n, closed')
               /\ Later(wire', n, closed')
    <3>1. m.kind = "depth" => /\ m.u > n /\ m \in closed'
                              /\ \A i \in 1..Len(wire) : wire[i].kind = "depth" => wire[i].u < m.u
                              /\ \A i \in 1..Len(pending) : pending[i].kind = "depth" => pending[i].u < m.u
                              /\ \A i \in 1..Len(incoming) : incoming[i].kind = "depth" => incoming[i].u < m.u
      <4>1. d.u > n /\ d \in closed'
        BY <1>1, <1>2, <1>3, <1>4, <1>9 DEF d
      <4> QED
        BY <1>8, <2>1, <2>2, <2>5, <4>1
    <3>2. /\ InOrder(Append(wire, m)) /\ Before(pending, Append(wire, m))
          /\ Before(incoming, Append(wire, m))
          /\ Later(Append(wire, m), n, closed') /\ NoTrade(Append(wire, m))
      BY <2>1, <2>2, <2>3, <2>5, <3>1, LineAppend
    <3> QED
      BY <1>1, <2>2, <2>3, <2>5, <3>2 DEF LineGood, LineInOrder
  <2>6. CASE wire' # wire
    <3>1. PICK m \in Msg : /\ wire' = Append(wire, m) /\ m.kind # "trade"
                           /\ m.kind = "depth" => m = d
      BY <1>7, <2>6
    <3> QED
      BY <2>5, <3>1
  <2> QED
    BY <2>4, <2>6
<1>10. LineGood' /\ LineLater(newest)'
  BY <1>2, <1>5, <1>9 DEF LineLater
<1>11. OutGood'
  <2> SUFFICES ASSUME pc' = "publish" PROVE OutGood'
    BY DEF OutGood
  <2>1. pc = "publish" /\ out' = out /\ out.u \in Int /\ OutGood
    BY <1>1, <1>2, MsgFields DEF PromiseInv
  <2>2. out.kind = "depth" => LineLater(out.u)' /\ out \in closed'
    <3> SUFFICES ASSUME out.kind = "depth" PROVE LineLater(out.u)' /\ out \in closed'
      OBVIOUS
    <3>1. out \in closed /\ LineLater(out.u) /\ out.u <= batchEnd
      BY <2>1 DEF OutGood, PromiseInv, ClosedGood
    <3> QED
      BY <1>3, <1>9, <2>1, <3>1 DEF LineLater
  <2> QED
    BY <1>5, <2>1, <2>2 DEF OutGood
<1>12. PromiseInv'
  <2>1. NoTrades'
    BY <1>1, <1>10 DEF LineGood, NoTrades, PromiseInv
  <2>2. newest' <= batchEnd' /\ answered' \in 0..head' /\ stamps' \in Seq(Int)
        /\ Len(stamps') = Len(queue') /\ tip' \in Place /\ newest' \in UpdateId \cup {NoId}
    BY <1>1, <1>2, <1>5 DEF PromiseInv
  <2>3. pc' = "next" => tip' = Position(book)'
    BY <1>1, <1>5 DEF PromiseInv, Position
  <2> QED
    BY <1>6, <1>10, <1>11, <2>1, <2>2, <2>3 DEF PromiseInv, LineGood
<1>13. Stream!VenueDiff
  <2>1. Stream!BatchEnd = batchEnd /\ Stream!Diff(U, head, batchEnd) = d
    BY BatchEndIs DEF Stream!Diff, Diff, d
  <2>2. Stream!IsDiff(d)
    BY <1>3, SameRules DEF d
  <2>3. closed' = closed \cup {d}
    BY <1>3 DEF d
  <2>4. Published(queue, stamps)' = Published(queue, stamps)
    BY <1>1, <1>5
  <2> QED
    BY <1>1, <1>5, <2>1, <2>2, <2>3, <2>4 DEF Stream!VenueDiff
<1> QED
  BY <1>5, <1>12, <1>13

(* An event that is put at once; what holds of it is what the reader needs. *)
LEMMA PutPromise ==
  ASSUME PromiseInv, IInv', Noting, UNCHANGED <<head, batchEnd>>,
         NEW e \in Msg, queue' = Append(queue, e), pc' = "next", After(e) = Position(book)',
         LineGood',
         e.kind \in {"depth", "snapshot"},
         e.kind = "depth" => /\ e \in closed /\ e.u > newest /\ Verdict(tip, e) = "applied"
                             /\ Later(pending', e.u, closed) /\ Later(incoming', e.u, closed)
                             /\ Later(wire', e.u, closed),
         e.kind = "snapshot" => /\ e = Snapshot(e.u) /\ e.u <= answered' /\ answered' - e.u <= RestLag
                                /\ (newest' = newest => LineLater(newest)'),
         answered' \in 0..head
  PROVE  PromiseInv' /\ Stream!Publish
<1>1. /\ queue \in Seq(Msg) /\ head \in Nat /\ head \in UpdateId /\ batchEnd \in 0..head
      /\ newest \in Int /\ stamps \in Seq(Int) /\ Len(stamps) = Len(queue) /\ e.u \in UpdateId
      /\ e.u \in Int
  BY PromiseFacts, MsgFields DEF PromiseInv
<1> DEFINE t == IF e.kind = "snapshot" THEN answered' ELSE e.u
<1>2. Put /\ Event = e
  <2>1. Len(queue) \in Nat /\ Len(Append(queue, e)) = Len(queue) + 1
        /\ Append(queue, e)[Len(queue) + 1] = e
    BY <1>1
  <2> QED
    BY <2>1 DEF Put, Event
<1>3. /\ stamps' = Append(stamps, t) /\ tip' = After(e) /\ closed' = closed
      /\ newest' = IF e.kind = "depth" THEN e.u ELSE newest
  BY <1>2 DEF Noting, Closing, After
<1>4. t \in Int
  BY <1>1
<1> HIDE DEF t
<1>5. Published(queue, stamps)' = Append(Published(queue, stamps), Stream!Stamped(e, t))
  <2>1. Published(Append(queue, e), Append(stamps, t))
        = Append(Published(queue, stamps), Stream!Stamped(e, t))
    BY <1>1, <1>4, PublishedAppend
  <2> QED
    BY <1>3, <2>1
<1>6. LineLater(newest)'
  BY <1>3 DEF LineLater
<1>7. After(e) \in Place
  BY <1>1 DEF After, Place
<1>8. stamps' \in Seq(Int) /\ Len(stamps') = Len(queue')
  BY <1>1, <1>3, <1>4
<1>9. newest' \in UpdateId \cup {NoId} /\ newest' <= batchEnd'
  BY <1>1, <1>3 DEF PromiseInv, ClosedGood
<1>10. PromiseInv'
  <2>1. NoTrades' /\ OutGood'
    BY DEF LineGood, NoTrades, OutGood
  <2>2. ClosedGood'
    BY <1>3 DEF PromiseInv, ClosedGood
  <2> QED
    BY <1>3, <1>6, <1>7, <1>8, <1>9, <2>1, <2>2 DEF PromiseInv, LineGood
<1>11. CASE e.kind = "depth"
  <2>1. /\ e \in closed /\ e.u > newest /\ Stream!Verdict(tip, e) = "applied" /\ t = e.u
        /\ newest' = e.u /\ tip' = [last |-> e.u, seqReady |-> TRUE]
    BY <1>3, <1>11, SameRules DEF After, t
  <2>2. Published(queue, stamps)' = Append(Published(queue, stamps), Stream!Stamped(e, e.u))
    BY <1>5, <2>1
  <2>3. Stream!PublishDiff
    BY <1>3, <2>1, <2>2 DEF Stream!PublishDiff
  <2> QED
    BY <1>10, <2>3 DEF Stream!Publish
<1>12. CASE e.kind = "snapshot"
  <2>1. /\ t = answered' /\ newest' = newest /\ tip' = [last |-> e.u, seqReady |-> FALSE]
        /\ Stream!Snapshot(e.u) = e
    BY <1>3, <1>12 DEF After, t, Stream!Snapshot, Snapshot
  <2>2. Published(queue, stamps)' = Append(Published(queue, stamps), Stream!Stamped(Stream!Snapshot(e.u), answered'))
    BY <1>5, <2>1
  <2>3. Stream!PublishSnapshot
    BY <1>1, <1>3, <1>12, <2>1, <2>2 DEF Stream!PublishSnapshot, Stream!UpdateId, UpdateId
  <2> QED
    BY <1>10, <2>3 DEF Stream!Publish
<1> QED
  BY <1>11, <1>12

(* An event that must wait for room.                                       *)
LEMMA WaitPromise ==
  ASSUME PromiseInv, IInv', Noting, UNCHANGED <<head, batchEnd, queue>>,
         pc' = "publish", LineGood', newest' = newest => LineLater(newest)',
         out'.kind \in {"depth", "snapshot"},
         out'.kind = "depth" => /\ out' \in closed /\ out'.u > newest /\ Verdict(tip, out') = "applied"
                                /\ LineLater(out.u)',
         out'.kind = "snapshot" => /\ out' = Snapshot(out'.u)
                                   /\ out'.u <= answered' /\ answered' - out'.u <= RestLag,
         answered' \in 0..head
  PROVE  PromiseInv' /\ UNCHANGED <<closed, stamps, tip, newest>>
<1>1. closed' = closed
  BY DEF Noting, Closing
<1>2. UNCHANGED <<stamps, tip, newest>>
  <2>1. queue \in Seq(Msg) /\ Len(queue) \in Nat
    BY PromiseFacts
  <2> QED
    BY <2>1 DEF Noting, Put
<1>3. LineLater(newest)'
  BY <1>2 DEF PromiseInv
<1>4. OutGood' /\ NoTrades'
  BY <1>1, <1>2 DEF OutGood, NoTrades, LineGood
<1>5. ClosedGood'
  BY <1>1 DEF PromiseInv, ClosedGood
<1> QED
  BY <1>1, <1>2, <1>3, <1>4, <1>5 DEF PromiseInv, LineGood

LEMMA RestOkPromise ==
  ASSUME PromiseInv, IInv', Noting, RestOk
  PROVE  PromiseInv' /\ [Stream!Publish]_StreamVars
<1>1. /\ pc = "fetch" /\ UNCHANGED <<head, batchEnd, wire>> /\ pending' = Arrived /\ incoming' = << >>
  BY DEF RestOk, venueVars, socketVars
<1>2. PICK L \in UpdateId : /\ L <= head /\ head - L <= RestLag
                           /\ book' = ApplySnapshot(L) /\ Publish(Snapshot(L))
  BY DEF RestOk
<1>3. SessionInv /\ LineGood /\ newest \in Int /\ LineLater(newest) /\ head \in Nat
      /\ queue \in Seq(Msg)
  BY PromiseFacts DEF PromiseInv
<1>4. closed' = closed
  BY <1>1 DEF Noting, Closing
<1>5. /\ LineGood' /\ Later(pending', newest, closed) /\ Later(incoming', newest, closed)
      /\ Later(wire', newest, closed)
  BY <1>1, <1>3, LineMoves DEF LineMoved
<1>6. newest' = newest => LineLater(newest)'
  BY <1>4, <1>5 DEF LineLater
<1>7. answered' = head
  BY <1>1, <1>2 DEF Noting, Publish
<1> DEFINE e == Snapshot(L)
<1>8. e \in Msg /\ e.kind = "snapshot" /\ e.u = L /\ After(e) = Position(book)'
  <2>1. e \in Msg /\ e.kind = "snapshot" /\ e.u = L
    BY VenueAssumption DEF Snapshot, Msg, Kind, UpdateId
  <2>2. book'.last = L /\ book'.seqReady = FALSE
    BY <1>2 DEF ApplySnapshot
  <2> HIDE DEF e
  <2> QED
    BY <2>1, <2>2 DEF After, Position
<1>9. e = Snapshot(e.u)
  BY <1>8
<1>10. answered' \in 0..head
  BY <1>3, <1>7
<1> HIDE DEF e
<1>11. CASE queue' = Append(queue, e) /\ pc' = "next"
  <2>1. PromiseInv' /\ Stream!Publish
    BY <1>1, <1>2, <1>5, <1>6, <1>7, <1>8, <1>9, <1>10, <1>11, PutPromise
  <2> QED
    BY <2>1
<1>12. CASE out' = e /\ pc' = "publish" /\ queue' = queue
  <2>1. PromiseInv' /\ UNCHANGED <<closed, stamps, tip, newest>>
    BY <1>1, <1>2, <1>5, <1>6, <1>7, <1>8, <1>9, <1>10, <1>12, WaitPromise
  <2>2. UNCHANGED StreamVars
    BY <1>1, <1>12, <2>1 DEF StreamVars, Stream!streamVars
  <2> QED
    BY <2>1, <2>2
<1> QED
  BY <1>2, <1>11, <1>12 DEF Publish, e

LEMMA AppliedPromise ==
  ASSUME PromiseInv, IInv', Noting, HandleApplied
  PROVE  PromiseInv' /\ [Stream!Publish]_StreamVars
<1>1. /\ Taking("depth") /\ pc = "next" /\ Arrived # << >> /\ Frame.kind = "depth" /\ Take
      /\ Verdict(book, Frame) = "applied" /\ book' = ApplyDelta(book, Frame) /\ Publish(Frame)
      /\ UNCHANGED <<head, batchEnd, wire>>
  BY DEF HandleApplied, Taking, Frame, venueVars, socketVars
<1>2. SessionInv /\ LineGood /\ newest \in Int /\ LineLater(newest) /\ head \in Nat
      /\ queue \in Seq(Msg) /\ book \in Book
  BY PromiseFacts DEF PromiseInv
<1>3. closed' = closed
  BY <1>1 DEF Noting, Closing
<1> DEFINE e == Frame
<1>4. e \in Msg /\ e.u \in Int /\ e \in closed /\ e.u > newest
  BY <1>1, <1>2, NextAgrees, MsgFields, FrameFirst
<1>5. /\ Later(pending', e.u, closed) /\ Later(incoming', e.u, closed) /\ Later(wire', e.u, closed)
  BY <1>1, <1>2, FrameFirst
<1>6. /\ LineGood' /\ Later(pending', newest, closed) /\ Later(incoming', newest, closed)
      /\ Later(wire', newest, closed)
  BY <1>1, <1>2, LineMoves DEF LineMoved
<1>7. newest' = newest => LineLater(newest)'
  BY <1>3, <1>6 DEF LineLater
<1>8. answered' = answered /\ answered' \in 0..head
  BY <1>1 DEF Noting, PromiseInv
<1>9. Verdict(tip, e) = "applied"
  <2>1. tip.last = book.last /\ tip.seqReady = book.seqReady
    BY <1>1 DEF PromiseInv, Position
  <2> QED
    BY <1>1, <2>1 DEF Verdict
<1>10. After(e) = Position(book)'
  BY <1>1 DEF After, Position, ApplyDelta, SetLevels
<1> HIDE DEF e
<1>11. CASE queue' = Append(queue, e) /\ pc' = "next"
  <2>1. e.kind = "depth"
    BY <1>1 DEF e
  <2>2. PromiseInv' /\ Stream!Publish
    BY <1>1, <1>4, <1>5, <1>6, <1>8, <1>9, <1>10, <1>11, <2>1, PutPromise
  <2> QED
    BY <2>2
<1>12. CASE out' = e /\ pc' = "publish" /\ queue' = queue
  <2>1. LineLater(out.u)'
    BY <1>3, <1>5, <1>12 DEF LineLater
  <2>2. PromiseInv' /\ UNCHANGED <<closed, stamps, tip, newest>>
    BY <1>1, <1>4, <1>6, <1>7, <1>8, <1>9, <1>12, <2>1, WaitPromise DEF e
  <2>3. UNCHANGED StreamVars
    BY <1>1, <1>12, <2>2 DEF StreamVars, Stream!streamVars
  <2> QED
    BY <2>2, <2>3
<1> QED
  BY <1>1, <1>11, <1>12 DEF Publish, e

LEMMA PutDonePromise ==
  ASSUME PromiseInv, IInv', Noting, PutDone
  PROVE  PromiseInv' /\ Stream!Publish
<1>1. /\ pc = "publish" /\ queue' = Append(queue, out) /\ pc' = "next"
      /\ UNCHANGED <<head, batchEnd, wire, incoming, pending, book>>
  BY DEF PutDone, venueVars, socketVars, rawVars
<1>2. SessionInv /\ PipelineInv /\ LineGood /\ newest \in Int /\ LineLater(newest) /\ out \in Msg
      /\ out.kind \in {"depth", "snapshot"} /\ OutGood /\ out.u \in Int
  BY <1>1, PromiseFacts, MsgFields DEF PromiseInv
<1>3. closed' = closed /\ answered' = answered /\ answered' \in 0..head
  BY <1>1 DEF Noting, Closing, PromiseInv
<1>4. LineGood' /\ (newest' = newest => LineLater(newest)')
  BY <1>1, <1>2, <1>3 DEF LineGood, LineInOrder, LineLater
<1>5. After(out) = Position(book)'
  BY <1>1, <1>2, OutReached DEF Position
<1> DEFINE e == out
<1>6. e.kind = "snapshot" => /\ e = Snapshot(e.u) /\ e.u <= answered'
                             /\ answered' - e.u <= RestLag
  BY <1>1, <1>2, <1>3 DEF OutGood
<1>7. e.kind = "depth" => /\ e \in closed /\ e.u > newest /\ Verdict(tip, e) = "applied"
                          /\ Later(pending', e.u, closed) /\ Later(incoming', e.u, closed)
                          /\ Later(wire', e.u, closed)
  BY <1>1, <1>2, <1>3 DEF OutGood, LineLater
<1>8. After(e) = Position(book)' /\ queue' = Append(queue, e) /\ e \in Msg
      /\ e.kind \in {"depth", "snapshot"}
  BY <1>1, <1>2, <1>5
<1> HIDE DEF e
<1> QED
  BY <1>1, <1>2, <1>3, <1>4, <1>6, <1>7, <1>8, PutPromise

(* Taking an event changes nothing but the queue.                          *)
LEMMA ConsumePromise ==
  ASSUME PromiseInv, IInv', Noting, Consume
  PROVE  PromiseInv' /\ Stream!Taken
<1>1. /\ queue # << >> /\ queue' = Tail(queue)
      /\ UNCHANGED <<head, batchEnd, wire, incoming, pending, pc, out, book>>
  BY DEF Consume, venueVars, socketVars, rawVars
<1>2. queue \in Seq(Msg) /\ stamps \in Seq(Int) /\ Len(stamps) = Len(queue)
  BY PromiseFacts DEF PromiseInv
<1>3. ~Put /\ queue' # queue /\ stamps' = Tail(stamps) /\ UNCHANGED <<closed, answered, tip, newest>>
  <2>1. Len(queue) \in Nat /\ Len(Tail(queue)) = Len(queue) - 1
    BY <1>1, <1>2
  <2>2. Len(queue') = Len(queue) - 1
    BY <1>1, <2>1
  <2>3. ~(Len(queue') > Len(queue)) /\ queue' # queue
    BY <2>1, <2>2, SMT
  <2>4. ~Put
    BY <2>3 DEF Put
  <2> QED
    BY <1>1, <2>3, <2>4 DEF Noting, Closing
<1>4. stamps' \in Seq(Int) /\ Len(stamps') = Len(queue')
  <2>1. stamps # << >> /\ Len(queue) # 0
    BY <1>1, <1>2
  <2> QED
    BY <1>1, <1>2, <1>3, <2>1
<1>5. PromiseInv'
  <2>1. NoTrades' /\ LineInOrder' /\ LineLater(newest)'
    BY <1>1, <1>3 DEF PromiseInv, NoTrades, LineInOrder, LineLater
  <2>2. OutGood' /\ ClosedGood'
    BY <1>1, <1>3 DEF PromiseInv, OutGood, ClosedGood, LineLater
  <2>3. pc' = "next" => tip' = Position(book)'
    BY <1>1, <1>3 DEF PromiseInv, Position
  <2> QED
    BY <1>1, <1>3, <1>4, <2>1, <2>2, <2>3 DEF PromiseInv
<1>6. Published(queue, stamps) # << >> /\ Published(queue, stamps)' = Tail(Published(queue, stamps))
  BY <1>1, <1>2, <1>3, PublishedTail
<1> QED
  BY <1>1, <1>3, <1>5, <1>6 DEF Stream!Taken

LEMMA PromiseInit == PInit => PromiseInv /\ Stream!StreamInit
<1> SUFFICES ASSUME PInit PROVE PromiseInv /\ Stream!StreamInit
  OBVIOUS
<1>1. /\ Init /\ closed = {} /\ stamps = << >> /\ answered = 0 /\ newest = NoId
      /\ tip = [last |-> NoId, seqReady |-> FALSE]
  BY DEF PInit
<1>2. /\ head = 0 /\ batchEnd = 0 /\ wire = << >> /\ incoming = << >> /\ pending = << >>
      /\ pc = "idle" /\ queue = << >>
  BY <1>1 DEF Init
<1>3. IInv
  BY <1>1, InitSession, InitPipeline DEF IInv
<1>4. NoTrades /\ LineInOrder /\ LineLater(newest)
  BY <1>2 DEF NoTrades, LineInOrder, LineLater, NoTrade, InOrder, Before, Later
<1>5. ClosedGood /\ OutGood
  BY <1>1, <1>2 DEF ClosedGood, OutGood
<1>6. tip \in Place /\ newest \in UpdateId \cup {NoId} /\ newest <= batchEnd /\ answered \in 0..head
  BY <1>1, <1>2 DEF Place, NoId
<1>7. stamps \in Seq(Int) /\ Len(stamps) = Len(queue)
  BY <1>1, <1>2
<1>8. PromiseInv
  BY <1>2, <1>3, <1>4, <1>5, <1>6, <1>7 DEF PromiseInv
<1>9. Published(queue, stamps) = << >>
  BY <1>2 DEF Published
<1> QED
  BY <1>1, <1>2, <1>8, <1>9 DEF Stream!StreamInit, Stream!NoTip, Stream!NoId, NoId

(* Each step of the feed is one of the stream's, or none.                  *)
LEMMA PromiseStep ==
  ASSUME "trade" \notin Extras, PromiseInv, [PNext]_pvars
  PROVE  PromiseInv' /\ [Stream!StreamNext]_StreamVars
<1>1. SessionInv /\ PipelineInv /\ IInv /\ head \in Nat /\ queue \in Seq(Msg)
  BY PromiseFacts DEF PromiseInv
<1>2. CASE UNCHANGED pvars
  <2>1. UNCHANGED <<vars, closed, stamps, answered, tip, newest>>
    BY <1>2 DEF pvars
  <2>2. IInv'
    BY <1>1, <2>1, NextKeepsIInv
  <2>3. UNCHANGED <<head, batchEnd, wire, incoming, pending, pc, out, queue, book>>
    BY <2>1 DEF vars
  <2>4. NoTrades' /\ LineInOrder' /\ LineLater(newest)'
    BY <2>1, <2>3 DEF PromiseInv, NoTrades, LineInOrder, LineLater
  <2>5. OutGood' /\ ClosedGood' /\ (pc' = "next" => tip' = Position(book)')
    BY <2>1, <2>3 DEF PromiseInv, OutGood, ClosedGood, LineLater, Position
  <2>6. PromiseInv'
    BY <2>1, <2>2, <2>3, <2>4, <2>5 DEF PromiseInv
  <2> QED
    BY <2>1, <2>3, <2>6 DEF StreamVars, Stream!streamVars
<1>3. CASE PNext
  <2>1. Next /\ Noting /\ IInv'
    BY <1>1, <1>3, NextKeepsIInv DEF PNext
  <2>2. ASSUME LineMoved, UNCHANGED <<head, batchEnd, queue>>,
               UNCHANGED <<pc, out, book>> \/ pc' \notin {"publish", "next"}
        PROVE  PromiseInv' /\ [Stream!StreamNext]_StreamVars
    <3>1. head' \in Nat /\ head <= head'
      BY <1>1, <2>2
    <3>2. PromiseInv' /\ UNCHANGED <<closed, stamps, tip, newest>>
      BY <2>1, <2>2, <3>1, QuietPromise
    <3> QED
      BY <2>2, <3>2 DEF StreamVars, Stream!streamVars
  <2>3. LineMoved \/ VenueDiff
    BY <1>1, <2>1, NextMovesLine
  <2>4. CASE VenueUpdate
    <3>1. /\ head' = head + 1 /\ head < MaxId
          /\ UNCHANGED <<batchEnd, wire, incoming, pending, queue, pc, out, book>>
      BY <2>4 DEF VenueUpdate, socketVars, rawVars
    <3>2. LineMoved /\ head' \in Nat /\ head <= head'
      BY <1>1, <3>1 DEF LineMoved, LineVars
    <3>3. PromiseInv' /\ UNCHANGED <<closed, stamps, tip, newest>>
      BY <2>1, <3>1, <3>2, QuietPromise
    <3>4. Stream!VenueUpdate
      BY <3>1, <3>3 DEF Stream!VenueUpdate
    <3> QED
      BY <3>3, <3>4 DEF Stream!StreamNext, Stream!VenueMoves
  <2>5. CASE VenueDiff
    <3>1. PromiseInv' /\ Stream!VenueDiff
      BY <2>1, <2>5, VenueDiffPromise
    <3> QED
      BY <3>1 DEF Stream!StreamNext, Stream!VenueMoves
  <2>6. CASE SocketClose \/ PumpStep
    <3>1. UNCHANGED <<head, batchEnd, queue, pc, out, book>> /\ ~VenueDiff
      BY <2>6, <1>1 DEF SocketClose, PumpStep, PumpFrame, PumpSentinel, PumpCancelled, venueVars,
                   VenueDiff
    <3> QED
      BY <2>2, <2>3, <3>1
  <2>7. CASE CleanUp \/ Connect \/ QuietHandle
    <3>1. Quiet
      BY <1>1, <2>7, CleanUpQuiet, ConnectQuiet, HandleQuiet
    <3>2. /\ UNCHANGED <<head, batchEnd, queue>>
          /\ UNCHANGED <<pc, out, book>> \/ pc' \notin {"publish", "next"}
      BY <3>1 DEF Quiet
    <3>3. ~VenueDiff
      <4>1. batchEnd \in Nat
        BY PromiseFacts
      <4> QED
        BY <1>1, <3>2, <4>1 DEF VenueDiff
    <3> QED
      BY <2>2, <2>3, <3>2, <3>3
  <2>8. ASSUME PromiseInv' /\ [Stream!Publish]_StreamVars
        PROVE  PromiseInv' /\ [Stream!StreamNext]_StreamVars
    BY <2>8 DEF Stream!StreamNext
  <2>9. CASE RestOk
    BY <2>1, <2>8, <2>9, RestOkPromise
  <2>10. CASE HandleApplied
    BY <2>1, <2>8, <2>10, AppliedPromise
  <2>11. CASE PutDone
    BY <2>1, <2>8, <2>11, PutDonePromise
  <2>12. CASE Consume
    <3>1. PromiseInv' /\ Stream!Taken
      BY <2>1, <2>12, ConsumePromise
    <3> QED
      BY <3>1 DEF Stream!StreamNext
  <2>13. ~VenueTrade /\ ~(HandleTrade /\ ~frozen)
    <3>1. ~VenueTrade
      BY DEF VenueTrade
    <3>2. Arrived # << >> => Head(Arrived).kind # "trade"
      <4>1. pending \in Seq(Msg) /\ incoming \in Seq(Msg) /\ Arrived \in Seq(Msg)
        BY <1>1, LineTypes
      <4>2. NoTrade(pending) /\ NoTrade(incoming)
        BY DEF PromiseInv, NoTrades
      <4>3. NoTrade(Arrived)
        BY <4>1, <4>2, LineConcat DEF Arrived
      <4> QED
        BY <4>1, <4>3 DEF NoTrade
    <3> QED
      BY <3>1, <3>2 DEF HandleTrade, Taking
  <2> QED
    BY <2>1, <2>4, <2>5, <2>6, <2>7, <2>9, <2>10, <2>11, <2>12, <2>13
       DEF Next, FeedNext, VenueStep, HandleStep, RestStep, CallStep, CleanUp, QuietHandle
<1> QED
  BY <1>2, <1>3

(* The queue keeps the promise the recorder is built on, whatever the      *)
(* venue's future, the capacity of every buffer and the interleaving:      *)
(* a snapshot, and after it each diff at most once and only where the last *)
(* one ended (binance_futures.py, _synced_events and _publish).  Publisher *)
(* numbers its trades, which the feed's frames do not carry, so the        *)
(* theorem is about a feed that is sent none.                              *)
THEOREM QueuePromiseKept ==
  ASSUME "trade" \notin Extras PROVE PSpec => QueueKeepsItsPromise
<1>1. PInit => PromiseInv /\ Stream!StreamInit
  BY PromiseInit
<1>2. PromiseInv /\ [PNext]_pvars => PromiseInv' /\ [Stream!StreamNext]_StreamVars
  BY PromiseStep
<1> QED
  BY <1>1, <1>2, PTL DEF PSpec, QueueKeepsItsPromise, Stream!StreamSpec, StreamVars
=============================================================================
