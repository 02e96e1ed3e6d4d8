------------------------------ MODULE Sockets -------------------------------
(***************************************************************************)
(* A session on two sockets, depth and trades (dual_sockets in             *)
(* ingestion/binance_futures.py): a _pump_frames task for each socket into *)
(* the queue of _merge_raw_streams, and one more from there into the raw   *)
(* queue that _synced_events reads.  One step is what a task does between  *)
(* two awaits; a put into a queue with room does not wait.                 *)
(***************************************************************************)
EXTENDS Integers, Sequences, FiniteSets

CONSTANTS
  MaxFrames,    (* bound: frames of a socket                               *)
  MergedMax,    (* capacity of the queue of the merge                      *)
  RawMax        (* capacity of the raw queue                               *)

ASSUME SocketsAssumption == {MaxFrames, MergedMax, RawMax} \subseteq Nat \ {0}

VARIABLES
  sent,       (* frames each socket has delivered so far                   *)
  wire,       (* of those, the ones its pump has not read                  *)
  sock,       (* "open", or how the socket ended: "eof", "error"           *)
  pump,       (* the pump of each socket                                   *)
  hand,       (* the frame it holds while the merge's queue is full        *)
  merged,     (* the merge's queue                                         *)
  finished,   (* sentinels the merge has taken                             *)
  outer,      (* the pump into the raw queue                               *)
  held,       (* the frame it holds while the raw queue is full            *)
  raw,        (* the raw queue                                             *)
  owner,      (* _synced_events                                            *)
  taken       (* history: the frames it has read                           *)

sockets == <<sent, wire, sock>>
inner   == <<pump, hand, merged>>
vars    == <<sockets, inner, finished, outer, held, raw, owner, taken>>

Stream == {"depth", "trade"}
End    == [stream |-> "none", n |-> 0]       (* _WS_SENTINEL *)
Frame(s, n) == [stream |-> s, n |-> n]

Over == {"done", "raised", "cancelled"}

Init ==
  /\ sent = [s \in Stream |-> 0] /\ wire = [s \in Stream |-> << >>]
  /\ sock = [s \in Stream |-> "open"]
  /\ pump = [s \in Stream |-> "reading"] /\ hand = [s \in Stream |-> << >>]
  /\ merged = << >> /\ finished = 0
  /\ outer = "getting" /\ held = << >> /\ raw = << >>
  /\ owner = "reading" /\ taken = << >>

-----------------------------------------------------------------------------
Delivers(s) ==
  /\ sock[s] = "open" /\ sent[s] < MaxFrames
  /\ sent' = [sent EXCEPT ![s] = @ + 1]
  /\ wire' = [wire EXCEPT ![s] = Append(@, Frame(s, sent[s] + 1))]
  /\ UNCHANGED <<sock, inner, finished, outer, held, raw, owner, taken>>

SocketEnds(s) ==
  /\ sock[s] = "open"
  /\ \E how \in {"eof", "error"} : sock' = [sock EXCEPT ![s] = how]
  /\ UNCHANGED <<sent, wire, inner, finished, outer, held, raw, owner, taken>>

-----------------------------------------------------------------------------
\* _pump_frames of a socket.
Room == Len(merged) < MergedMax

\* Mutant: a frame that finds the queue full is dropped.
PumpReadsOrDrops(s) ==
  /\ pump[s] = "reading" /\ wire[s] # << >>
  /\ wire' = [wire EXCEPT ![s] = Tail(@)]
  /\ merged' = IF Room THEN Append(merged, Head(wire[s])) ELSE merged
  /\ UNCHANGED <<sent, sock, pump, hand, finished, outer, held, raw, owner, taken>>

PumpReads(s) ==
  /\ pump[s] = "reading" /\ wire[s] # << >>
  /\ wire' = [wire EXCEPT ![s] = Tail(@)]
  /\ IF Room
     THEN merged' = Append(merged, Head(wire[s])) /\ UNCHANGED <<pump, hand>>
     ELSE /\ pump' = [pump EXCEPT ![s] = "putting"]
          /\ hand' = [hand EXCEPT ![s] = <<Head(wire[s])>>]
          /\ UNCHANGED merged
  /\ UNCHANGED <<sent, sock, finished, outer, held, raw, owner, taken>>

PumpPuts(s) ==
  /\ pump[s] = "putting" /\ Room
  /\ merged' = merged \o hand[s]
  /\ hand' = [hand EXCEPT ![s] = << >>]
  /\ pump' = [pump EXCEPT ![s] = "reading"]
  /\ UNCHANGED <<sockets, finished, outer, held, raw, owner, taken>>

\* The iterator ends, or raises: the sentinel is put in either case.  Mutant:
\* it is put only when there is room at once.
Ended(s) == IF sock[s] = "error" THEN "raised" ELSE "done"

PumpEndsWithoutWaiting(s) ==
  /\ pump[s] = "reading" /\ wire[s] = << >> /\ sock[s] # "open"
  /\ pump' = [pump EXCEPT ![s] = Ended(s)]
  /\ merged' = IF Room THEN Append(merged, End) ELSE merged
  /\ UNCHANGED <<sockets, hand, finished, outer, held, raw, owner, taken>>

PumpEnds(s) ==
  /\ \/ pump[s] = "reading" /\ wire[s] = << >> /\ sock[s] # "open"
     \/ pump[s] = "ending" /\ Room
  /\ IF Room
     THEN merged' = Append(merged, End) /\ pump' = [pump EXCEPT ![s] = Ended(s)]
     ELSE UNCHANGED merged /\ pump' = [pump EXCEPT ![s] = "ending"]
  /\ UNCHANGED <<sockets, hand, finished, outer, held, raw, owner, taken>>

-----------------------------------------------------------------------------
\* The pump into the raw queue, running the merge: a frame goes on, the last
\* sentinel ends the merge, and with or without an error of a socket the
\* sentinel goes on too.
RawRoom == Len(raw) < RawMax

OuterFrame ==
  /\ outer = "getting" /\ merged # << >> /\ Head(merged) # End
  /\ merged' = Tail(merged)
  /\ IF RawRoom
     THEN raw' = Append(raw, Head(merged)) /\ UNCHANGED <<outer, held>>
     ELSE outer' = "putting" /\ held' = <<Head(merged)>> /\ UNCHANGED raw
  /\ UNCHANGED <<sockets, pump, hand, finished, owner, taken>>

OuterPuts ==
  /\ outer = "putting" /\ RawRoom
  /\ raw' = raw \o held /\ held' = << >> /\ outer' = "getting"
  /\ UNCHANGED <<sockets, inner, finished, owner, taken>>

OuterSentinel ==
  IF RawRoom THEN raw' = Append(raw, End) /\ outer' = "done"
  ELSE UNCHANGED raw /\ outer' = "ending"

AllFinished(n) == n >= Cardinality(Stream)

OuterFinish ==
  /\ outer = "getting" /\ merged # << >> /\ Head(merged) = End
  /\ merged' = Tail(merged) /\ finished' = finished + 1
  /\ IF AllFinished(finished + 1) THEN OuterSentinel ELSE UNCHANGED <<raw, outer>>
  /\ UNCHANGED <<sockets, pump, hand, held, owner, taken>>

OuterEnds ==
  /\ outer = "ending" /\ RawRoom
  /\ OuterSentinel
  /\ UNCHANGED <<sockets, inner, finished, held, owner, taken>>

-----------------------------------------------------------------------------
OwnerReads ==
  /\ owner = "reading" /\ raw # << >> /\ Head(raw) # End
  /\ raw' = Tail(raw) /\ taken' = Append(taken, Head(raw))
  /\ UNCHANGED <<sockets, inner, finished, outer, held, owner>>

\* The pumps the merge cancels when the cancellation reaches it.
Stopped == [s \in Stream |-> IF pump[s] \in Over THEN pump[s] ELSE "cancelled"]

\* The cancellation of the pump.  In the merge it makes the merge cancel and
\* await its own pumps; the error of one that had already failed takes the
\* place of the cancellation, and the sentinel is put after all.
\* Mutant: a cancelled pump puts its sentinel like one that has ended.
CancelOuterWithSentinel ==
  CASE outer = "getting" -> OuterSentinel /\ pump' = Stopped
    [] outer \in {"putting", "ending"} -> OuterSentinel /\ UNCHANGED pump
    [] outer = "done" -> UNCHANGED <<raw, outer, pump>>

CancelOuter ==
  CASE outer = "getting" /\ (\E s \in Stream : pump[s] = "raised") -> OuterSentinel /\ pump' = Stopped
    [] outer = "getting" /\ (\A s \in Stream : pump[s] # "raised") ->
         outer' = "cancelled" /\ pump' = Stopped /\ UNCHANGED raw
    [] outer \in {"putting", "ending"} -> outer' = "cancelled" /\ UNCHANGED <<raw, pump>>
    [] outer = "done" -> UNCHANGED <<raw, outer, pump>>

\* The session ends with the stream, or before it: stop(), the watchdog, a
\* snapshot that cannot be fetched.
OwnerEnds ==
  /\ owner = "reading" /\ raw # << >> /\ Head(raw) = End
  /\ owner' = "unwinding"
  /\ raw' = Tail(raw)
  /\ UNCHANGED <<sockets, inner, finished, outer, held, taken>>

OwnerLeaves ==
  /\ owner = "reading"
  /\ owner' = "unwinding"
  /\ CancelOuter
  /\ UNCHANGED <<sockets, hand, merged, finished, held, taken>>

\* The pump has been awaited; the sockets are closed, and what is left of the
\* merge is finalized.
OwnerCloses ==
  /\ owner = "unwinding" /\ outer \in Over
  /\ owner' = "closed"
  /\ pump' = Stopped
  /\ sock' = [s \in Stream |-> IF sock[s] = "open" THEN "eof" ELSE sock[s]]
  /\ UNCHANGED <<sent, wire, hand, merged, finished, outer, held, raw, taken>>

Gone == owner = "closed" /\ UNCHANGED vars

Pumps == \E s \in Stream : PumpReads(s) \/ PumpPuts(s) \/ PumpEnds(s)
Outer == OuterFrame \/ OuterPuts \/ OuterFinish \/ OuterEnds
Owner == OwnerReads \/ OwnerEnds \/ OwnerCloses

Next ==
  \/ \E s \in Stream : Delivers(s) \/ SocketEnds(s)
  \/ Pumps \/ Outer \/ Owner \/ OwnerLeaves \/ Gone

Spec == Init /\ [][Next]_vars

\* The event loop runs every task that is ready.
FairSpec ==
  /\ Spec
  /\ \A s \in Stream : WF_vars(PumpReads(s) \/ PumpPuts(s) \/ PumpEnds(s))
  /\ WF_vars(Outer) /\ WF_vars(Owner)

-----------------------------------------------------------------------------
TypeOK ==
  /\ sock \in [Stream -> {"open", "eof", "error"}]
  /\ pump \in [Stream -> Over \cup {"reading", "putting", "ending"}]
  /\ outer \in Over \cup {"getting", "putting", "ending"}
  /\ Len(merged) <= MergedMax /\ Len(raw) <= RawMax /\ finished \in 0..2
  /\ \A s \in Stream : Len(hand[s]) = (IF pump[s] = "putting" THEN 1 ELSE 0) \/ pump[s] = "cancelled"

OnTheWay(s) == taken \o raw \o held \o merged \o hand[s] \o wire[s]

\* The frames of stream s in q are the first m of it, each once and in order.
Whole(q, s, m) ==
  /\ \A n \in 1..m : \E i \in DOMAIN q : q[i] = Frame(s, n)
  /\ \A i \in DOMAIN q : q[i].stream = s => q[i].n \in 1..m
  /\ \A i, j \in DOMAIN q : i < j /\ q[i].stream = s /\ q[j].stream = s => q[i].n < q[j].n

\* What a socket has delivered is read once, in its order, or on its way,
\* however the two sockets and the two bounded queues interleave.
FramesInOrder == owner = "reading" => \A s \in Stream : Whole(OnTheWay(s), s, sent[s])

\* The end of the stream is announced behind everything both sockets have
\* delivered: neither socket's end cuts off the other.
EndIsLast ==
  owner = "reading" =>
    \A i \in DOMAIN raw : raw[i] = End =>
      /\ i = Len(raw)
      /\ \A s \in Stream : sock[s] # "open" /\ Whole(taken \o raw, s, sent[s])

\* Two sockets that have ended, cleanly or with an error, end the session,
\* also when every queue is full.
EndArrives == (\A s \in Stream : sock[s] # "open") ~> (owner # "reading")

\* A cancelled session that no socket has failed in ends: a cancelled pump
\* never waits for room in a queue nobody reads (_pump_frames).
CleanUnwindEnds ==
  (owner = "unwinding" /\ \A s \in Stream : pump[s] # "raised") ~> (owner = "closed")

\* binance_futures.py:126: on cancellation the sentinel is skipped, so that
\* the owner of a cancelled pump does not wait for ever.
UnwindEnds == (owner = "unwinding") ~> (owner = "closed")

\* While a session reads, the stream of two sockets is what either of them
\* sent, whole, in order and with its end last, in queues never beyond their
\* bounds.
StreamIsWhole == TypeOK /\ FramesInOrder /\ EndIsLast
=============================================================================
