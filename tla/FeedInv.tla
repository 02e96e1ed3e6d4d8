------------------------------ MODULE FeedInv -------------------------------
(***************************************************************************)
(* The inductive invariant of Feed behind BookFaithful, ReplicaFaithful    *)
(* and StreamReplays, as a conjunction of named parts.                     *)
(***************************************************************************)
EXTENDS FeedProps

\* Messages never overtake the venue's id h, and a diff is a diff wherever
\* it is.
GoodMsg(m, kinds, h) ==
  /\ m.kind \in kinds
  /\ m.u <= h
  /\ m.kind = "depth" => IsDiff(m)

AllGood(s, kinds, h) == \A i \in 1..Len(s) : GoodMsg(s[i], kinds, h)

FrameKinds == {"depth", "trade", "garbled", "list", "eof"}
EventKinds == {"depth", "trade", "snapshot"}

\* A bounded buffer of good messages.
Buffer(s, kinds, h, n) == s \in Seq(Msg) /\ AllGood(s, kinds, h) /\ Len(s) <= n

FramesGood ==
  /\ Buffer(wire, FrameKinds, head, MaxWire)
  /\ Buffer(incoming, FrameKinds, head, RawMax)
  /\ pending \in Seq(Msg) /\ AllGood(pending, FrameKinds, head)

EventsGood ==
  /\ Buffer(queue, EventKinds, head, QueueMax)
  /\ pc = "publish" => GoodMsg(out, EventKinds, head)

\* The rest of TypeOK.
Scalars ==
  /\ head \in UpdateId /\ batchEnd \in 0..head /\ wsOpen \in BOOLEAN
  /\ pump \in Pump
  /\ pc \in Pc /\ tries \in 0..MaxRetries /\ out \in Msg /\ stopped \in BOOLEAN
  /\ sync \in Synchronizer /\ book \in Book /\ replica \in Book
  /\ frozen \in BOOLEAN /\ frozenDeltas \in Seq(Msg)

\* While frames are handled the synchronizer has an epoch and the book is
\* synced; the synchronizer never holds a diff of its own.
InEpoch == pc \in {"publish", "next"}

EpochGood ==
  /\ sync.buffer = << >>
  /\ InEpoch => ~Awaiting(sync) /\ book.isSynced

BooksBehind == book.last <= head /\ replica.last <= head

SessionInv ==
  /\ Scalars /\ FramesGood /\ EventsGood /\ EpochGood /\ BooksBehind
  /\ Lockstep /\ BookFaithful

(***************************************************************************)
(* The published events, the one whose put waits for room last, lead from  *)
(* where the consumer's book stands to where the live book stands.  A      *)
(* position is a last id and whether a diff has been applied there; place  *)
(* 0 is the start, place i is after the i-th event, and a trade moves      *)
(* nothing.                                                                *)
(***************************************************************************)
Pipeline == IF pc = "publish" THEN Append(queue, out) ELSE queue

Position(b) == [last |-> b.last, seqReady |-> b.seqReady]
After(e)    == [last |-> e.u, seqReady |-> e.kind = "depth"]

PlaceOf(r, P, i) == IF i = 0 THEN r ELSE After(P[i])
Moves(P, i) == i = 0 \/ P[i].kind # "trade"
OnlyTrades(P, i, j) == \A k \in (i + 1) .. (j - 1) : P[k].kind = "trade"

\* A book at position r accepts d.
Follows(r, d) ==
  IF r.seqReady THEN d.pu = r.last ELSE r.last # NoId /\ Brackets(d, r.last)

Chained(r, P) ==
  \A i \in 0..Len(P), j \in 1..Len(P) :
    i < j /\ Moves(P, i) /\ OnlyTrades(P, i, j) /\ P[j].kind = "depth"
      => Follows(PlaceOf(r, P, i), P[j])

Reaches(r, P, t) ==
  \A i \in 0..Len(P) :
    Moves(P, i) /\ OnlyTrades(P, i, Len(P) + 1) => PlaceOf(r, P, i) = t

PipelineGood ==
  /\ Chained(Position(replica), Pipeline)
  /\ InEpoch => Reaches(Position(replica), Pipeline, Position(book))

ReplicaSynced == /\ replica.last # NoId => replica.isSynced
                 /\ replica.seqReady => replica.last # NoId

PipelineInv == PipelineGood /\ ReplicaSynced /\ ReplicaFaithful

IInv == SessionInv /\ PipelineInv
=============================================================================
