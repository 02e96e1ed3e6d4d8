--------------------------- MODULE FeedPublishes ----------------------------
(***************************************************************************)
(* Feed with the history that Publisher keeps: the messages the venue has  *)
(* closed, the event time of what is in the queue, and where the published *)
(* stream stands.                                                          *)
(***************************************************************************)
EXTENDS FeedProps

VARIABLES
  closed,       (* diff messages the venue has closed                      *)
  stamps,       (* event times of the queued events                        *)
  answered,     (* event time of the last REST answer                      *)
  tip,          (* where the published stream stands                       *)
  newest        (* u of the last diff published                            *)

pvars == <<vars, closed, stamps, answered, tip, newest>>

Put == Len(queue') > Len(queue)
Event == queue'[Len(queue')]

PInit ==
  /\ Init
  /\ closed = {} /\ stamps = << >> /\ answered = 0
  /\ tip = [last |-> NoId, seqReady |-> FALSE] /\ newest = NoId

\* The message closed in this step; its U shows only where it was sent.
Closing ==
  IF batchEnd' = batchEnd THEN UNCHANGED closed
  ELSE \E U \in (batchEnd + 1) .. head :
         /\ IsDiff(Diff(U, head, batchEnd))
         /\ (wire' # wire /\ wire'[Len(wire')].kind = "depth") => wire'[Len(wire')].U = U
         /\ closed' = closed \cup {Diff(U, head, batchEnd)}

Noting ==
  /\ Closing
  /\ answered' = IF pc = "fetch" /\ pc' \in {"next", "publish"} THEN head ELSE answered
  /\ stamps' = IF Put THEN Append(stamps, IF Event.kind = "snapshot" THEN answered' ELSE Event.u)
               ELSE IF queue' # queue THEN Tail(stamps) ELSE stamps
  /\ tip' = IF Put THEN [last |-> Event.u, seqReady |-> Event.kind = "depth"] ELSE tip
  /\ newest' = IF Put /\ Event.kind = "depth" THEN Event.u ELSE newest

PNext == Next /\ Noting

PSpec == PInit /\ [][PNext]_pvars

\* The feed that is checked: consumed, and fair.
FairPSpec == PInit /\ [][FeedNext /\ Noting]_pvars /\ Fairness

-----------------------------------------------------------------------------
\* Queued events with their event times.
Published(q, ts) ==
  [i \in 1..Len(q) |-> [kind |-> q[i].kind, U |-> q[i].U, u |-> q[i].u, pu |-> q[i].pu,
                        ts |-> ts[i]]]

(* The queue keeps the promise the recorder relies on: what is published   *)
(* follows what was published before, and no message comes twice, across   *)
(* resyncs, new sessions, cancelled puts and restarts of the task          *)
(* (binance_futures.py, _synced_events and _publish).                      *)
Stream == INSTANCE Publisher WITH
  trades <- 0, MaxTrades <- 0, queue <- Published(queue, stamps)
QueueKeepsItsPromise == Stream!StreamSpec
=============================================================================
