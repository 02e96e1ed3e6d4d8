---------------------------- MODULE LatencyAudit ----------------------------
(***************************************************************************)
(* One latency audit (run_latency_audit in ingestion/latency_audit.py and  *)
(* scripts/latency_audit.py): server-time samples at the start, halfway    *)
(* and at the end, and between them the public frames of as many           *)
(* connections as it takes.  The venue and the network are external.       *)
(***************************************************************************)
EXTENDS LatencyMath, FiniteSets

CONSTANTS
  NEvents,        (* n_events: depth frames asked for                      *)
  OffsetSamples,  (* offset_samples: server-time samples of a phase        *)
  MaxReconnects,  (* max_reconnects                                        *)
  Skew,           (* the local clock less the venue's                      *)
  MaxDelay,       (* bound on one leg of a server-time request             *)
  MaxUpdates,     (* bound on the depth events of the venue                *)
  MaxOther        (* bound on its other frames                             *)

ASSUME AuditAssumption ==
  /\ NEvents \in Nat \ {0} /\ OffsetSamples \in Nat \ {0}
  /\ {MaxReconnects, MaxDelay, MaxUpdates, MaxOther} \subseteq Nat /\ Skew \in Int

VARIABLES
  phase,      (* where the audit is: see TypeOK                            *)
  samples,    (* offsets: the server-time samples taken                    *)
  depth, nTrade, gaps, decodeErrors, lastU,  (* ProbeAccumulator           *)
  midSampled, (* mid_sampled                                               *)
  reconnects,
  expired,    (* cap_s seconds have passed since t0                        *)
  now,        (* the venue's clock                                         *)
  venueU,     (* the venue's last update id                                *)
  others,     (* other frames sent so far                                  *)
  socket      (* frames that arrived and were not read yet                 *)

accVars == <<depth, nTrade, gaps, decodeErrors, lastU>>
venueVars == <<now, venueU, others, socket>>
vars == <<phase, samples, accVars, midSampled, reconnects, expired, venueVars>>

None == 0   (* no update id                                                *)

Acc == [depth |-> depth, nTrade |-> nTrade, gaps |-> gaps,
        decodeErrors |-> decodeErrors, lastU |-> lastU]

Connected == phase \in {"draining", "mid"}

Init ==
  /\ phase = "start" /\ samples = << >>
  /\ depth = << >> /\ nTrade = 0 /\ gaps = 0 /\ decodeErrors = 0 /\ lastU = None
  /\ midSampled = FALSE /\ reconnects = 0 /\ expired = FALSE
  /\ now = 0 /\ venueU = 1 /\ others = 0 /\ socket = << >>

-----------------------------------------------------------------------------
\* The venue sends a diff; it arrives now, or is lost.  What it sends before
\* the first connection or after the last one no audit can tell.
VenueDepth ==
  /\ venueU < MaxUpdates /\ (Connected \/ phase = "closed")
  /\ venueU' = venueU + 1 /\ now' = now + 1
  /\ socket' \in {socket} \cup
       (IF Connected THEN {Append(socket, [kind |-> "depth", pu |-> venueU, u |-> venueU + 1, at |-> now + 1])}
                     ELSE {})
  /\ UNCHANGED <<phase, samples, accVars, midSampled, reconnects, expired, others>>

\* A trade, a frame that is no JSON object, or one of an unknown shape.
VenueOther ==
  /\ Connected /\ others < MaxOther
  /\ others' = others + 1
  /\ \E kind \in {"trade", "junk", "unknown"} : socket' = Append(socket, [kind |-> kind])
  /\ UNCHANGED <<phase, samples, accVars, midSampled, reconnects, expired, now, venueU>>

CapPasses ==
  /\ ~expired
  /\ expired' = TRUE
  /\ UNCHANGED <<phase, samples, accVars, midSampled, reconnects, venueVars>>

-----------------------------------------------------------------------------
\* A phase's samples, one round trip after the other; frames go on arriving.
\* A request that fails is not caught: the audit is lost.
SamplesOf(p) == Cardinality({i \in DOMAIN samples : samples[i].phase = p})

Phases == {"start", "mid", "end"}

\* What follows a phase's last sample.
AfterSamples ==
  CASE phase = "start" -> "loop"
    [] phase = "mid"   -> IF Len(depth) >= NEvents THEN "closed" ELSE "draining"
    [] phase = "end"   -> "done"

ServerTime ==
  /\ phase \in Phases
  /\ \E out \in 0..MaxDelay, back \in 0..MaxDelay :
       /\ now' = now + out + back
       /\ samples' = Append(samples, [before |-> now + Skew, server |-> now + out,
                                      after  |-> now + out + back + Skew, phase |-> phase])
  /\ phase' = IF SamplesOf(phase) + 1 >= OffsetSamples THEN AfterSamples ELSE phase
  /\ UNCHANGED <<accVars, midSampled, reconnects, expired, venueU, others, socket>>

RequestFails ==
  /\ phase \in Phases
  /\ phase' = "failed"
  /\ UNCHANGED <<samples, accVars, midSampled, reconnects, expired, venueVars>>

-----------------------------------------------------------------------------
\* _collect_with_reconnect: the checks before a connection.  Mutant: the
\* limit stops the audit one connection later.
MayConnectOnceMore == Len(depth) < NEvents /\ ~expired /\ reconnects <= MaxReconnects + 1

MayConnect == Len(depth) < NEvents /\ ~expired /\ reconnects <= MaxReconnects

Connect ==
  /\ phase = "loop" /\ MayConnect
  /\ phase' \in {"draining", "closed", "failed"}  (* failed: a refused handshake is not caught *)
  /\ socket' = << >>
  /\ UNCHANGED <<samples, accVars, midSampled, reconnects, expired, now, venueU, others>>

GivesUp ==
  /\ phase = "loop" /\ ~MayConnect
  /\ phase' = "end"
  /\ UNCHANGED <<samples, accVars, midSampled, reconnects, expired, venueVars>>

\* The connection ends, with an error or without; unread frames are lost.
SocketEnds ==
  /\ phase = "draining"
  /\ phase' = "closed"
  /\ UNCHANGED <<samples, accVars, midSampled, reconnects, expired, venueVars>>

\* Enough depth, or back off and connect again.
Closed ==
  /\ phase = "closed"
  /\ socket' = << >>
  /\ IF Len(depth) >= NEvents
     THEN phase' = "end" /\ UNCHANGED reconnects
     ELSE phase' = "loop" /\ reconnects' = reconnects + 1
  /\ UNCHANGED <<samples, accVars, midSampled, expired, now, venueU, others>>

-----------------------------------------------------------------------------
\* ingest_raw: a gap is a diff that does not continue the last one recorded,
\* also when a connection was lost in between.  Mutant: the last id is not
\* advanced over a gap.
IngestStuck(acc, f, recv) ==
  CASE f.kind = "depth" ->
         LET breaks == acc.lastU # None /\ f.pu # acc.lastU
         IN  [acc EXCEPT !.depth = Append(@, [pu |-> f.pu, u |-> f.u, at |-> f.at, recv |-> recv]),
                         !.gaps = IF breaks THEN @ + 1 ELSE @,
                         !.lastU = IF breaks THEN @ ELSE f.u]
    [] f.kind = "trade" -> [acc EXCEPT !.nTrade = @ + 1]
    [] f.kind = "junk"  -> [acc EXCEPT !.decodeErrors = @ + 1]
    [] OTHER -> acc

Ingest(acc, f, recv) ==
  CASE f.kind = "depth" ->
         LET breaks == acc.lastU # None /\ f.pu # acc.lastU
         IN  [acc EXCEPT !.depth = Append(@, [pu |-> f.pu, u |-> f.u, at |-> f.at, recv |-> recv]),
                         !.gaps = IF breaks THEN @ + 1 ELSE @,
                         !.lastU = f.u]
    [] f.kind = "trade" -> [acc EXCEPT !.nTrade = @ + 1]
    [] f.kind = "junk"  -> [acc EXCEPT !.decodeErrors = @ + 1]
    [] OTHER -> acc

\* on_progress: the halfway samples are due.  Mutant: whether they were taken
\* is not remembered.
Halfway == IF NEvents \div 2 >= 1 THEN NEvents \div 2 ELSE 1

MidDueAlways(taken, n) == n >= Halfway

MidDue(taken, n) == ~taken /\ n >= Halfway

\* The exit of drain_until.  Mutant: it wants one frame more.
EnoughTooLate(n) == n > NEvents

Enough(n) == n >= NEvents

\* drain_until: one frame, stamped when it is read.
Receive ==
  /\ phase = "draining" /\ socket # << >>
  /\ LET acc == Ingest(Acc, Head(socket), now + Skew)
         n   == Len(acc.depth)
     IN  /\ depth' = acc.depth /\ nTrade' = acc.nTrade /\ gaps' = acc.gaps
         /\ decodeErrors' = acc.decodeErrors /\ lastU' = acc.lastU
         /\ midSampled' = (midSampled \/ MidDue(midSampled, n))
         /\ phase' = CASE MidDue(midSampled, n) -> "mid"
                       [] ~MidDue(midSampled, n) /\ Enough(n) -> "closed"
                       [] OTHER -> phase
  /\ socket' = Tail(socket)
  /\ UNCHANGED <<samples, reconnects, expired, now, venueU, others>>

\* An audit that has reported, or was lost, stays so.
Over == phase \in {"done", "failed"} /\ UNCHANGED vars

Venue   == VenueDepth \/ VenueOther
Auditor == ServerTime \/ Connect \/ GivesUp \/ Closed \/ Receive

Next == Venue \/ CapPasses \/ RequestFails \/ SocketEnds \/ Auditor \/ Over

Spec == Init /\ [][Next]_vars

\* The auditor takes its steps; time passes.  Nothing is assumed of the
\* connection: a peer that answers pings may keep it open and send no depth.
Fairness == WF_vars(Auditor) /\ WF_vars(CapPasses)

FairSpec == Spec /\ Fairness

-----------------------------------------------------------------------------
\* build_audit_results and the exit code of the script.
Report ==
  LET offset == MeanOffset(samples)
      delays == Delays(depth, offset)
  IN  [offset |-> offset, raw |-> Distribution(delays.raw), adjusted |-> Distribution(delays.adjusted),
       adjustedNs |-> delays.adjusted]

ExitCode == IF Len(depth) < NEvents THEN 1 ELSE 0

-----------------------------------------------------------------------------
\* Types; an audit never records more depth frames than it was asked for.
TypeOK ==
  /\ phase \in Phases \cup {"loop", "draining", "closed", "done", "failed"}
  /\ Len(depth) <= NEvents /\ Len(samples) <= 3 * OffsetSamples
  /\ reconnects \in 0..(MaxReconnects + 1) /\ gaps \in Nat /\ {midSampled, expired} \subseteq BOOLEAN

\* The gaps reported are the places where the venue sent something the record
\* lacks, within a connection and between two: none reported, none missing.
GapsAreHoles ==
  gaps = Cardinality({i \in 1..(Len(depth) - 1) : depth[i + 1].u # depth[i].u + 1})

\* The clock is sampled before the first frame, halfway and after the last
\* one, whatever connections are lost in between and whatever arrives while
\* a sample is awaited; a short record has no halfway samples.
ClockBracketsRecord ==
  phase = "done" =>
    LET block(p) == [i \in 1..OffsetSamples |-> p]
    IN  Each(samples, LAMBDA x : x.phase)
          = block("start") \o (IF Len(depth) >= Halfway THEN block("mid") ELSE << >>) \o block("end")

\* A report is incomplete, and the script exits with 1, only when time or
\* connections ran out; the connections are never more than allowed.
IncompleteIsExplained ==
  /\ reconnects <= MaxReconnects + 1
  /\ phase = "done" /\ ExitCode = 1 => expired \/ reconnects = MaxReconnects + 1

\* What the report calls adjusted is the true delay from the event to its
\* stamp, short of it by at most the longest round trip of the samples.
AdjustedWithinRtt ==
  phase = "done" /\ depth # << >> =>
    LET report == Report
    IN  \A i \in DOMAIN depth :
          LET actual == depth[i].recv - Skew - depth[i].at
              a      == report.adjustedNs[i]
          IN  a <= actual /\ actual - a <= Greatest(Each(samples, Rtt))

\* The percentiles of a report are in order between the extremes, its median
\* has half of the delays on either side, and adjusting shifts them all alike.
DistributionIsSound ==
  phase = "done" /\ depth # << >> =>
    LET report == Report
        d      == report.adjusted
        delays == report.adjustedNs
        n      == Len(depth)
    IN  /\ d.min <= d.p50 /\ d.p50 <= d.p90 /\ d.p90 <= d.p99 /\ d.p99 <= d.p99_9 /\ d.p99_9 <= d.max
        /\ 2 * Cardinality({i \in 1..n : 1000 * delays[i] < d.p50}) <= n
        /\ 2 * Cardinality({i \in 1..n : 1000 * delays[i] > d.p50}) <= n
        /\ report.raw.p99 - d.p99 = 1000 * report.offset

\* An audit ends, unless one connection stays open for ever without the depth
\* that is missing: the frame loop waits with no timeout and the wall-clock cap
\* is looked at only between two connections, so such a connection outlives it
\* (_collect_with_reconnect, drain_until).  Nothing else outlives the cap:
\* neither the samples nor the reconnections, nor a record that is complete.
AuditEnds ==
  \/ <>(phase \in {"done", "failed"})
  \/ <>[](phase = "draining" /\ expired /\ Len(depth) < NEvents)

(* The numbers of a report: delays true up to a round trip, and percentiles *)
(* that are those of the delays.                                            *)
ReportIsSound == AdjustedWithinRtt /\ DistributionIsSound

(* The record never grows past what was asked for, and falls short of it    *)
(* only for a reason.                                                       *)
AuditInv == TypeOK /\ IncompleteIsExplained
=============================================================================
