-------------------------------- MODULE Feed --------------------------------
(***************************************************************************)
(* ingestion/binance_futures.py: BinanceFuturesFeed run by start()/stop(). *)
(* Tasks on one event loop: the pump copies frames from the socket to      *)
(* `incoming`; the feed task fetches a REST snapshot, drains `incoming`    *)
(* into `pending`, and from then on judges each diff, applies it to the    *)
(* live book and publishes it on the bounded `queue`; a consumer replays   *)
(* the published stream into a book of its own.  Code between two awaits   *)
(* is one action.                                                          *)
(***************************************************************************)
EXTENDS DepthSync

CONSTANTS
  MaxWire,      (* bound: frames in flight on the socket                   *)
  RawMax,       (* RAW_QUEUE_MAXSIZE: capacity of `incoming`               *)
  QueueMax,     (* max_queue: capacity of the published queue              *)
  MaxRetries,   (* max_snapshot_retries: answers 429 tolerated in a row    *)
  RestLag,      (* bound: how many ids a REST snapshot may lag the venue   *)
  Extras        (* frames other than good diffs: "trade", "garbled", "list" *)

ASSUME FeedAssumption ==
  /\ MaxWire \in Nat \ {0} /\ RawMax \in Nat \ {0} /\ QueueMax \in Nat \ {0}
  /\ MaxRetries \in Nat /\ RestLag \in Nat
  /\ Extras \subseteq {"trade", "garbled", "list"}

VARIABLES
  head,         (* venue: last update id                                   *)
  batchEnd,     (* venue: u of the last diff message it closed             *)
  wire,         (* frames sent on the socket and not read yet              *)
  wsOpen,       (* the socket is up                                        *)
  pump,         (* pump task: "off", "run", "cancelled", "ended" (the      *)
                (* socket was closed), "failed" (with the socket's error)  *)
  incoming,     (* raw frames the pump has read                            *)
  pending,      (* raw frames drained behind a snapshot                    *)
  pc,           (* await point of the feed task                            *)
  tries,        (* answers 429 of the fetch under way, 0 outside of one    *)
  out,          (* event whose put() waits for room in the queue           *)
  stopped,      (* _stopped                                                *)
  sync,         (* _sync                                                   *)
  book,         (* _book                                                   *)
  frozen,       (* _honesty_freeze                                         *)
  frozenDeltas, (* _frozen_deltas                                          *)
  queue,        (* published events                                        *)
  replica       (* the consumer's book                                     *)

venueVars  == <<head, batchEnd>>
socketVars == <<wire, wsOpen>>
rawVars    == <<incoming, pending>>
freezeVars == <<frozen, frozenDeltas>>
vars == <<head, batchEnd, wire, wsOpen, pump, incoming, pending, pc, tries, out,
          stopped, sync, book, frozen, frozenDeltas, queue, replica>>

(***************************************************************************)
(* Await points of the feed task: "idle" (no task), "connect", "fetch",    *)
(* "publish" (queue full), "next" (waiting for a frame or able to take     *)
(* one), "unwind" (awaiting the cancelled pump after the session failed),  *)
(* "closing" (awaiting the socket's close), "backoff", and "stopping" (a   *)
(* cancellation is on its way out through the same cleanup).               *)
(***************************************************************************)
Pc == {"idle", "connect", "fetch", "publish", "next", "unwind", "closing",
       "backoff", "stopping"}

Pump == {"off", "run", "cancelled", "ended", "failed"}

TypeOK ==
  /\ head \in UpdateId /\ batchEnd \in 0..head
  /\ wire \in Seq(Msg) /\ wsOpen \in BOOLEAN
  /\ pump \in Pump
  /\ incoming \in Seq(Msg) /\ pending \in Seq(Msg)
  /\ pc \in Pc /\ tries \in 0..MaxRetries /\ out \in Msg
  /\ stopped \in BOOLEAN
  /\ sync \in Synchronizer /\ book \in Book
  /\ frozen \in BOOLEAN /\ frozenDeltas \in Seq(Msg)
  /\ queue \in Seq(Msg) /\ replica \in Book
  /\ Len(wire) <= MaxWire /\ Len(incoming) <= RawMax /\ Len(queue) <= QueueMax

Init ==
  /\ head = 0 /\ batchEnd = 0
  /\ wire = << >> /\ wsOpen = FALSE
  /\ pump = "off" /\ incoming = << >> /\ pending = << >>
  /\ pc = "idle" /\ tries = 0 /\ out = NoMsg /\ stopped = FALSE
  /\ sync = NoEpoch /\ book = EmptyBook
  /\ frozen = FALSE /\ frozenDeltas = << >>
  /\ queue = << >> /\ replica = EmptyBook

-----------------------------------------------------------------------------
\* The venue and the network.

VenueUpdate ==
  /\ head < MaxId
  /\ head' = head + 1
  /\ UNCHANGED <<batchEnd, socketVars, pump, rawVars, pc, tries, out, stopped,
                 sync, book, freezeVars, queue, replica>>

\* The venue closes a diff message.  It may reach the socket as sent, reach
\* it unreadable ("garbled") or as JSON that is no object ("list"), or not
\* reach it (no socket, or a message the venue skips).
VenueDiff ==
  /\ batchEnd < head
  /\ \E U \in (batchEnd + 1) .. head :
     \E fate \in {"sent", "lost"} \cup (Extras \ {"trade"}) :
       LET d == Diff(U, head, batchEnd)
           frame == IF fate = "sent" THEN d ELSE Mark(fate)
       IN  /\ IsDiff(d)
           /\ \/ fate = "lost" /\ UNCHANGED wire
              \/ fate # "lost" /\ wsOpen /\ Len(wire) < MaxWire /\ wire' = Append(wire, frame)
  /\ batchEnd' = head
  /\ UNCHANGED <<head, wsOpen, pump, rawVars, pc, tries, out, stopped, sync,
                 book, freezeVars, queue, replica>>

VenueTrade ==
  /\ "trade" \in Extras /\ wsOpen /\ Len(wire) < MaxWire
  /\ wire' = Append(wire, Mark("trade"))
  /\ UNCHANGED <<venueVars, wsOpen, pump, rawVars, pc, tries, out, stopped,
                 sync, book, freezeVars, queue, replica>>

\* The connection ends; frames already received can still be read.
SocketClose ==
  /\ wsOpen
  /\ wsOpen' = FALSE
  /\ UNCHANGED <<venueVars, wire, pump, rawVars, pc, tries, out, stopped, sync,
                 book, freezeVars, queue, replica>>

-----------------------------------------------------------------------------
\* The pump task (_pump_frames).

PumpFrame ==
  /\ pump = "run" /\ wire # << >> /\ Len(incoming) < RawMax
  /\ incoming' = Append(incoming, Head(wire))
  /\ wire' = Tail(wire)
  /\ UNCHANGED <<venueVars, wsOpen, pump, pending, pc, tries, out, stopped,
                 sync, book, freezeVars, queue, replica>>

\* Mutant: the sentinel is forced into `incoming` however full it is.
PumpSentinelForced ==
  /\ pump = "run" /\ wire = << >> /\ ~wsOpen
  /\ incoming' = Append(incoming, Sentinel)
  /\ pump' \in {"ended", "failed"}
  /\ UNCHANGED <<venueVars, socketVars, pending, pc, tries, out, stopped, sync,
                 book, freezeVars, queue, replica>>

\* End of the stream, with the socket's error or without: the sentinel needs
\* room in `incoming` like any frame.
PumpSentinel ==
  /\ pump = "run" /\ wire = << >> /\ ~wsOpen /\ Len(incoming) < RawMax
  /\ incoming' = Append(incoming, Sentinel)
  /\ pump' \in {"ended", "failed"}
  /\ UNCHANGED <<venueVars, socketVars, pending, pc, tries, out, stopped, sync,
                 book, freezeVars, queue, replica>>

\* Mutant: a cancelled pump leaves the sentinel too, and waits for its room.
PumpCancelledPuts ==
  /\ pump = "cancelled" /\ Len(incoming) < RawMax
  /\ incoming' = Append(incoming, Sentinel)
  /\ pump' = "off"
  /\ UNCHANGED <<venueVars, socketVars, pending, pc, tries, out, stopped, sync,
                 book, freezeVars, queue, replica>>

\* A cancelled pump ends without the sentinel, however full `incoming` is.
PumpCancelled ==
  /\ pump = "cancelled"
  /\ pump' = "off"
  /\ UNCHANGED <<venueVars, socketVars, rawVars, pc, tries, out, stopped, sync,
                 book, freezeVars, queue, replica>>

-----------------------------------------------------------------------------
\* Pieces of the feed task.

\* Mutant: put_nowait() that drops the event when the queue is full.
PublishDropping(e) ==
  /\ pc' = "next" /\ UNCHANGED out
  /\ queue' = IF Len(queue) < QueueMax THEN Append(queue, e) ELSE queue

\* _publish(e): put() suspends only when the queue is full.
Publish(e) ==
  \/ /\ Len(queue) < QueueMax
     /\ queue' = Append(queue, e) /\ pc' = "next" /\ UNCHANGED out
  \/ /\ Len(queue) = QueueMax
     /\ out' = e /\ pc' = "publish" /\ UNCHANGED queue

\* Where an exception, or the end of the session, leaves the task: the
\* finally clause cancels the pump and awaits it, which suspends only when
\* the pump has not ended by itself.
Unwound == IF pump = "run" THEN "unwind" ELSE "closing"
Cancel(p) == IF p = "run" THEN "cancelled" ELSE p

\* The oldest raw frame, `pending` first, and the queues once it is taken.
Arrived == pending \o incoming
Taking(k) == pc = "next" /\ Arrived # << >> /\ Head(Arrived).kind = k
Frame == Head(Arrived)
Take ==
  \/ /\ pending # << >>
     /\ pending' = Tail(pending) /\ UNCHANGED incoming
  \/ /\ pending = << >>
     /\ incoming' = Tail(incoming) /\ UNCHANGED pending

-----------------------------------------------------------------------------
\* start(), stop() and the reconnect loop (_run_forever).

Start ==
  /\ pc = "idle"
  /\ pc' = "connect" /\ stopped' = FALSE
  /\ UNCHANGED <<venueVars, socketVars, pump, rawVars, tries, out, sync, book,
                 freezeVars, queue, replica>>

\* The connection is made and the pump started.  A task whose cancellation
\* was swallowed finds `_stopped` set, skips the loop and cleans up.
Connect ==
  /\ pc = "connect"
  /\ wsOpen' = TRUE /\ wire' = << >> /\ incoming' = << >> /\ pending' = << >>
  /\ \/ ~stopped /\ pump' = "run" /\ pc' = "fetch"
     \/ stopped /\ pump' = "cancelled" /\ pc' = "unwind"
  /\ UNCHANGED <<venueVars, tries, out, stopped, sync, book, freezeVars, queue, replica>>

\* Mutant: the book keeps its synced flag when the session is lost.
LoseSessionStillSynced ==
  /\ sync' = OnDisconnect
  /\ pc' = "backoff" /\ UNCHANGED book

\* What every way out of a session but stop() does before the backoff.
LoseSession ==
  /\ sync' = OnDisconnect
  /\ book' = MarkUnsynced(book)
  /\ pc' = "backoff"

ConnectFails ==
  /\ pc = "connect"
  /\ LoseSession
  /\ UNCHANGED <<venueVars, socketVars, pump, rawVars, tries, out, stopped,
                 freezeVars, queue, replica>>

\* stop() cancels the task at its await point; the finally clause cancels the
\* pump and awaits it.  That clause suppresses CancelledError, also the one
\* stop() sends while the task is already there; and where the pump has ended
\* with the socket's error, awaiting it raises that error instead.  In both
\* cases the session is lost as any other, and the task goes on.
PumpErrorWaits == pump = "failed" /\ pc \in {"fetch", "publish", "next"}

Stop ==
  /\ pc \notin {"idle", "stopping"} /\ ~stopped
  /\ stopped' = TRUE /\ tries' = 0
  /\ \/ pc = "unwind" /\ UNCHANGED <<pc, pump, out>>
     \/ PumpErrorWaits /\ pc' = "closing" /\ out' = NoMsg /\ UNCHANGED pump
     \/ /\ pc # "unwind" /\ ~PumpErrorWaits
        /\ pc' = "stopping" /\ pump' = Cancel(pump) /\ out' = NoMsg
  /\ UNCHANGED <<venueVars, socketVars, rawVars, sync, book, freezeVars, queue, replica>>

\* The pump is done, the socket is closed, the session's local state goes.
DropSession ==
  /\ pump' = "off" /\ wsOpen' = FALSE
  /\ wire' = << >> /\ incoming' = << >> /\ pending' = << >>

\* CancelledError leaves _run_forever: neither on_disconnect nor mark_unsynced.
TaskEnds ==
  /\ pc = "stopping" /\ pump \notin {"run", "cancelled"}
  /\ DropSession
  /\ pc' = "idle"
  /\ UNCHANGED <<venueVars, tries, out, stopped, sync, book, freezeVars, queue, replica>>

PumpAwaited ==
  /\ pc = "unwind" /\ pump = "off"
  /\ pc' = "closing"
  /\ UNCHANGED <<venueVars, socketVars, pump, rawVars, tries, out, stopped,
                 sync, book, freezeVars, queue, replica>>

Disconnect ==
  /\ pc = "closing"
  /\ DropSession
  /\ LoseSession
  /\ UNCHANGED <<venueVars, tries, out, stopped, freezeVars, queue, replica>>

Retry ==
  /\ pc = "backoff"
  /\ pc' = "connect"
  /\ UNCHANGED <<venueVars, socketVars, pump, rawVars, tries, out, stopped,
                 sync, book, freezeVars, queue, replica>>

-----------------------------------------------------------------------------
\* The snapshot (_fetch_snapshot_retrying and the head of _synced_events).

\* A good answer: drain, apply, install and publish without an await between.
RestOk ==
  /\ pc = "fetch"
  /\ \E L \in UpdateId :
       /\ L <= head /\ head - L <= RestLag
       /\ book' = ApplySnapshot(L)
       /\ sync' = InstallSnapshot(sync, L)
       /\ Publish(Snapshot(L))
  /\ pending' = Arrived /\ incoming' = << >> /\ tries' = 0
  /\ UNCHANGED <<venueVars, socketVars, pump, stopped, freezeVars, replica>>

\* 429: wait and ask again, up to MaxRetries times.
RestRetry ==
  /\ pc = "fetch" /\ tries < MaxRetries
  /\ tries' = tries + 1
  /\ UNCHANGED <<venueVars, socketVars, pump, rawVars, pc, out, stopped, sync,
                 book, freezeVars, queue, replica>>

\* The last 429, another status, a timeout or an unreadable body: it raises.
RestFails ==
  /\ pc = "fetch"
  /\ pc' = Unwound /\ pump' = Cancel(pump) /\ tries' = 0
  /\ UNCHANGED <<venueVars, socketVars, rawVars, out, stopped, sync, book,
                 freezeVars, queue, replica>>

-----------------------------------------------------------------------------
\* The inner loop of _synced_events: one raw frame at a time.

\* Mutant: the waiting put wants one place more than it needs.
PutDoneOffByOne ==
  /\ pc = "publish"
  /\ Len(queue) + 1 < QueueMax
  /\ queue' = Append(queue, out) /\ out' = NoMsg
  /\ pc' = "next"
  /\ UNCHANGED <<venueVars, socketVars, pump, rawVars, tries, stopped, sync,
                 book, freezeVars, replica>>

PutDone ==
  /\ pc = "publish"
  /\ Len(queue) < QueueMax
  /\ queue' = Append(queue, out) /\ out' = NoMsg
  /\ pc' = "next"
  /\ UNCHANGED <<venueVars, socketVars, pump, rawVars, tries, stopped, sync,
                 book, freezeVars, replica>>

HandleSentinel ==
  /\ Taking("eof")
  /\ Take
  /\ pc' = Unwound /\ pump' = Cancel(pump)
  /\ UNCHANGED <<venueVars, socketVars, tries, out, stopped, sync, book,
                 freezeVars, queue, replica>>

\* A frame that is JSON but no object: its .get raises, out of the session.
HandleList ==
  /\ Taking("list")
  /\ Take
  /\ pc' = Unwound /\ pump' = Cancel(pump)
  /\ UNCHANGED <<venueVars, socketVars, tries, out, stopped, sync, book,
                 freezeVars, queue, replica>>

HandleGarbled ==
  /\ Taking("garbled")
  /\ Take
  /\ UNCHANGED <<venueVars, socketVars, pump, pc, tries, out, stopped, sync,
                 book, freezeVars, queue, replica>>

HandleTrade ==
  /\ Taking("trade")
  /\ Take
  /\ \/ frozen /\ UNCHANGED <<pc, out, queue>>
     \/ ~frozen /\ Publish(Frame)
  /\ UNCHANGED <<venueVars, socketVars, pump, tries, stopped, sync, book,
                 freezeVars, replica>>

\* While frozen a diff is kept aside before the synchronizer sees it.
HandleFrozen ==
  /\ Taking("depth") /\ frozen
  /\ Take
  /\ frozenDeltas' = Append(frozenDeltas, Frame)
  /\ UNCHANGED <<venueVars, socketVars, pump, pc, tries, out, stopped, sync,
                 book, frozen, queue, replica>>

\* _apply_synced_delta: neither applied nor a gap.
HandleSkipped ==
  /\ Taking("depth") /\ ~frozen
  /\ \/ Decision(sync, Frame) \in {"buffer", "drop_stale"}
     \/ Decision(sync, Frame) = "apply" /\ Verdict(book, Frame) = "ignored"
  /\ Take
  /\ sync' = Decide(sync, Frame)
  /\ UNCHANGED <<venueVars, socketVars, pump, pc, tries, out, stopped, book,
                 freezeVars, queue, replica>>

\* Mutant: a gap asks for no snapshot.
HandleGapNoFetch ==
  /\ Taking("depth") /\ ~frozen
  /\ \/ Decision(sync, Frame) = "resync"
     \/ Decision(sync, Frame) = "apply" /\ Verdict(book, Frame) = "gap"
  /\ Take
  /\ sync' = Decide(sync, Frame)
  /\ book' = MarkUnsynced(book)
  /\ UNCHANGED <<venueVars, socketVars, pump, pc, tries, out, stopped, freezeVars,
                 queue, replica>>

\* Mutant: the levels of the diff are set before its sequence is checked.
HandleGapTooLate ==
  /\ Taking("depth") /\ ~frozen
  /\ \/ Decision(sync, Frame) = "resync"
     \/ Decision(sync, Frame) = "apply" /\ Verdict(book, Frame) = "gap"
  /\ pending' = Tail(Arrived) /\ incoming' = << >>
  /\ sync' = Decide(sync, Frame)
  /\ book' = MarkUnsynced(SetLevels(book, Frame))
  /\ pc' = "fetch"
  /\ UNCHANGED <<venueVars, socketVars, pump, tries, out, stopped, freezeVars, queue,
                 replica>>

\* The synchronizer, or after it the book, sees a gap: the diff is dropped,
\* what has arrived is drained, and a new snapshot is asked for.
HandleGap ==
  /\ Taking("depth") /\ ~frozen
  /\ \/ Decision(sync, Frame) = "resync"
     \/ Decision(sync, Frame) = "apply" /\ Verdict(book, Frame) = "gap"
  /\ pending' = Tail(Arrived) /\ incoming' = << >>
  /\ sync' = Decide(sync, Frame)
  /\ book' = MarkUnsynced(book)
  /\ pc' = "fetch"
  /\ UNCHANGED <<venueVars, socketVars, pump, tries, out, stopped, freezeVars, queue,
                 replica>>

HandleApplied ==
  /\ Taking("depth") /\ ~frozen
  /\ Decision(sync, Frame) = "apply" /\ Verdict(book, Frame) = "applied"
  /\ Take
  /\ sync' = Decide(sync, Frame)
  /\ book' = ApplyDelta(book, Frame)
  /\ Publish(Frame)
  /\ UNCHANGED <<venueVars, socketVars, pump, tries, stopped, freezeVars, replica>>

\* _next_raw waited for a frame until depth had been silent for
\* stale_timeout_s; one may reach `incoming` as the timeout fires.
Stale ==
  /\ pc = "next" /\ pending = << >>
  /\ book' = MarkUnsynced(book)
  /\ pc' = Unwound /\ pump' = Cancel(pump)
  /\ UNCHANGED <<venueVars, socketVars, rawVars, tries, out, stopped, sync,
                 freezeVars, queue, replica>>

-----------------------------------------------------------------------------
\* Callers on the same loop.

Consume ==
  /\ queue # << >>
  /\ replica' = ApplyEvent(replica, Head(queue))
  /\ queue' = Tail(queue)
  /\ UNCHANGED <<venueVars, socketVars, pump, rawVars, pc, tries, out, stopped,
                 sync, book, freezeVars>>

FreezeForHonesty ==
  /\ frozen' = TRUE /\ frozenDeltas' = << >>
  /\ UNCHANGED <<venueVars, socketVars, pump, rawVars, pc, tries, out, stopped,
                 sync, book, queue, replica>>

UnfreezeForHonesty ==
  /\ frozen' = FALSE /\ frozenDeltas' = << >>
  /\ UNCHANGED <<venueVars, socketVars, pump, rawVars, pc, tries, out, stopped,
                 sync, book, queue, replica>>

-----------------------------------------------------------------------------
VenueStep == VenueUpdate \/ VenueDiff \/ VenueTrade \/ SocketClose
PumpStep  == PumpFrame \/ PumpSentinel \/ PumpCancelled
LoopStep  == TaskEnds \/ PumpAwaited \/ Disconnect \/ Retry
HandleStep == \/ HandleSentinel \/ HandleList \/ HandleGarbled \/ HandleTrade \/ HandleFrozen
              \/ HandleSkipped \/ HandleGap \/ HandleApplied
RestStep  == RestOk \/ RestRetry \/ RestFails
CallStep  == Start \/ Stop

\* A feed somebody consumes; the honesty check begins when nobody does.
FeedNext ==
  \/ VenueStep \/ PumpStep \/ LoopStep \/ HandleStep \/ RestStep \/ CallStep
  \/ Connect \/ ConnectFails \/ PutDone \/ Stale \/ Consume

Next == FeedNext \/ FreezeForHonesty \/ UnfreezeForHonesty

Spec == Init /\ [][Next]_vars
=============================================================================
