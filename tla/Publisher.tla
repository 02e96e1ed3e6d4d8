----------------------------- MODULE Publisher ------------------------------
(***************************************************************************)
(* What the feed promises to whoever takes events from its queue, in one   *)
(* variable each: snapshots whenever it likes, and after one of them only  *)
(* diffs that follow what was published last, each message at most once.   *)
(* FeedPublishes shows that the feed implements it; the recorder is built  *)
(* on it.  A published event carries its event time, for which the         *)
(* venue's id at that moment stands: a diff is stamped with its u, a REST  *)
(* answer with the time of the answer, which is later than its id.         *)
(***************************************************************************)
EXTENDS OrderBook, Sequences

CONSTANTS
  RestLag,      (* bound: how many ids a REST snapshot may lag the venue   *)
  MaxTrades     (* bound: trades of the venue's future                     *)

ASSUME PublisherAssumption == RestLag \in Nat /\ MaxTrades \in Nat

VARIABLES
  head,         (* venue: last update id                                   *)
  closed,       (* venue: the diff messages it has closed                  *)
  trades,       (* venue: trades printed                                   *)
  queue,        (* published and not taken                                 *)
  tip,          (* where the published stream stands: last id, and whether *)
                (* a diff was its last move                                *)
  newest        (* u of the last diff message this feed will not publish   *)
                (* any more: published, or closed before it connected      *)

streamVars == <<head, closed, trades, queue, tip, newest>>

BatchEnd == IF closed = {} THEN 0 ELSE CHOOSE u \in {d.u : d \in closed} : \A d \in closed : d.u <= u

NoTip  == [last |-> NoId, seqReady |-> FALSE]

\* A published event: the message and its event time.
Stamped(m, ts) == [kind |-> m.kind, U |-> m.U, u |-> m.u, pu |-> m.pu, ts |-> ts]

\* Trades are told apart by their trade id.
Trade(n) == [Mark("trade") EXCEPT !.u = n]

StreamInit ==
  /\ head = 0 /\ closed = {} /\ trades = 0
  /\ queue = << >> /\ tip = NoTip /\ newest = NoId

VenueUpdate ==
  /\ head < MaxId
  /\ head' = head + 1
  /\ UNCHANGED <<closed, trades, queue, tip, newest>>

VenueDiff ==
  /\ BatchEnd < head
  /\ \E U \in (BatchEnd + 1) .. head :
       /\ IsDiff(Diff(U, head, BatchEnd))
       /\ closed' = closed \cup {Diff(U, head, BatchEnd)}
  /\ UNCHANGED <<head, trades, queue, tip, newest>>

\* RestOk of the feed, and the put() that follows it sooner or later.
PublishSnapshot ==
  /\ \E ts \in 0..head, L \in UpdateId :
       /\ L <= ts /\ ts - L <= RestLag
       /\ queue' = Append(queue, Stamped(Snapshot(L), ts))
       /\ tip' = [last |-> L, seqReady |-> FALSE]
  /\ UNCHANGED <<head, closed, trades, newest>>

PublishDiff ==
  /\ \E d \in closed :
       /\ d.u > newest /\ Verdict(tip, d) = "applied"
       /\ queue' = Append(queue, Stamped(d, d.u))
       /\ tip' = [last |-> d.u, seqReady |-> TRUE]
       /\ newest' = d.u
  /\ UNCHANGED <<head, closed, trades>>

PublishTrade ==
  /\ trades < MaxTrades
  /\ trades' = trades + 1
  /\ queue' = Append(queue, Stamped(Trade(trades), head))
  /\ UNCHANGED <<head, closed, tip, newest>>

Taken ==
  /\ queue # << >>
  /\ queue' = Tail(queue)
  /\ UNCHANGED <<head, closed, trades, tip, newest>>

VenueMoves == VenueUpdate \/ VenueDiff
Publish    == PublishSnapshot \/ PublishDiff \/ PublishTrade

StreamNext == VenueMoves \/ Publish \/ Taken

StreamSpec == StreamInit /\ [][StreamNext]_streamVars
=============================================================================
