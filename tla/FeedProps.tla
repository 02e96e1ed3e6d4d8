----------------------------- MODULE FeedProps ------------------------------
(***************************************************************************)
(* What the feed is for, as properties of Feed.                            *)
(***************************************************************************)
EXTENDS Feed

(* The live book shows the venue's quantities at last_update_id, whatever  *)
(* was lost, late, stale, frozen or cancelled before                       *)
(* (binance_futures.py, _synced_events and _apply_synced_delta).           *)
BookFaithful == Faithful(book)

(* The book of a consumer that only replays the published queue does too   *)
(* (record_l2.py, _apply; the queue fills, the put waits, stop() may cut   *)
(* it between the apply and the put).                                      *)
ReplicaFaithful == Faithful(replica)

(* Whoever replays the queue never meets a gap, a stale diff or a diff     *)
(* without a snapshot: the feed publishes a new snapshot first.            *)
StreamReplays ==
  queue # << >> /\ Head(queue).kind = "depth" => Verdict(replica, Head(queue)) = "applied"

(* Two components each track the sequence, the synchronizer and the book.  *)
(* While an epoch is installed they agree on the id and on whether its     *)
(* first diff has come, and a book that calls itself synced has an epoch:  *)
(* so the book never refuses what the synchronizer let through, although   *)
(* install_snapshot's answers are thrown away.                             *)
Lockstep ==
  /\ ~Awaiting(sync) => /\ sync.validator.last = book.last
                        /\ sync.validator.synced = book.seqReady
  /\ book.isSynced => ~Awaiting(sync)

(* The live book implements a replica of the venue, and so does the book   *)
(* of a consumer of the queue.                                             *)
LiveBook == INSTANCE VenueReplica WITH
  at <- book.last, copy <- book.levels, known <- book.known, live <- book.isSynced
LiveBookIsReplica == LiveBook!Spec

ConsumerBook == INSTANCE VenueReplica WITH
  at <- replica.last, copy <- replica.levels, known <- replica.known,
  live <- replica.isSynced
ConsumerBookIsReplica == ConsumerBook!Spec

-----------------------------------------------------------------------------
(* Fairness: the loop runs every task that can run, and the consumer keeps *)
(* consuming; a peer that is asked again and again for a connection or a   *)
(* snapshot gives one.  Nothing is assumed of the venue or the callers.    *)
Fairness ==
  /\ WF_vars(PumpStep) /\ WF_vars(LoopStep) /\ WF_vars(HandleStep)
  /\ WF_vars(PutDone) /\ WF_vars(Consume)
  /\ WF_vars(Connect \/ ConnectFails) /\ WF_vars(RestStep)
  /\ SF_vars(Connect) /\ SF_vars(RestOk)

FairSpec == Init /\ [][FeedNext]_vars /\ Fairness

(* A running feed that is not synced (gap, watchdog, lost socket, refused  *)
(* snapshot) is synced again, unless it is told to stop.                   *)
Resyncs == (pc # "idle" /\ ~book.isSynced /\ ~stopped) ~> (book.isSynced \/ stopped)

(* Backpressure with every buffer full blocks, but not for good: whatever  *)
(* the socket has delivered is read or its session ends.                   *)
WireDrains == (wire # << >>) ~> (wire = << >>)

(* No stop() leaves the task waiting for its own pump, also with every     *)
(* queue full.  A cancellation on its way out ("stopping") can only end    *)
(* the task, and does; one that is swallowed or replaced by the socket's   *)
(* error (StopEnds) at least gives up the session: the task is back where  *)
(* it reconnects (binance_futures.py, _pump_frames and the finally clause  *)
(* over it, _run_forever).                                                 *)
CancelEnds == stopped ~> (pc \in {"idle", "connect"})

-----------------------------------------------------------------------------
(* tests/unit/test_binance_feed.py:447, test_stop_does_not_hang...: stop() *)
(* ends the task.                                                          *)
StopEnds == stopped ~> (pc = "idle")
=============================================================================
