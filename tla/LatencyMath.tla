---------------------------- MODULE LatencyMath ----------------------------
(***************************************************************************)
(* The arithmetic of ingestion/latency_audit.py: clock offsets, delays and *)
(* their distribution.  Times are integers; what the code divides is kept  *)
(* as an integer scaled by what it divides by.                             *)
(***************************************************************************)
EXTENDS Integers, Sequences, SequencesExt, FiniteSets, Sums

Each(s, f(_)) == [i \in DOMAIN s |-> f(s[i])]

Least(s)    == CHOOSE x \in Range(s) : \A y \in Range(s) : x <= y
Greatest(s) == CHOOSE x \in Range(s) : \A y \in Range(s) : x >= y

\* A round trip to /fapi/v1/time: [before, server, after, phase], all read on
\* the local clock but server.  Mutant: the offset of the request's departure.
OffsetAtDeparture(sample) == sample.before - sample.server

Offset(sample) == sample.after - sample.server
Rtt(sample)    == sample.after - sample.before

\* round(mean), halves to even: the one offset a report adjusts by.
MeanOffset(samples) ==
  LET n     == Len(samples)
      total == Total(Each(samples, Offset))
      floor == total \div n
      rest  == 2 * (total % n)
  IN  IF rest < n \/ (rest = n /\ floor % 2 = 0) THEN floor ELSE floor + 1

\* event_latencies: delays as measured, and less the clocks' offset.
Delays(events, offset) ==
  [raw      |-> Each(events, LAMBDA e : e.recv - e.at),
   adjusted |-> Each(events, LAMBDA e : e.recv - e.at - offset)]

\* sorted(samples)[k - 1]: fewer than k samples are under it, k or more up to it.
Under(samples, v) == {i \in DOMAIN samples : samples[i] < v}
UpTo(samples, v)  == {i \in DOMAIN samples : samples[i] <= v}

Ranked(samples, k) ==
  CHOOSE v \in Range(samples) :
    Cardinality(Under(samples, v)) < k /\ k <= Cardinality(UpTo(samples, v))

\* percentile, in thousandths, interpolated between the two ranks around it.
Percentile(samples, pct) ==
  LET rank    == pct * (Len(samples) - 1)
      weight  == rank % 1000
      at(i)   == Ranked(samples, IF i + 1 > Len(samples) THEN Len(samples) ELSE i + 1)
  IN  at(rank \div 1000) * (1000 - weight) + at(rank \div 1000 + 1) * weight

\* distribution of a series that is not empty; the mean is scaled by n.
Distribution(samples) ==
  [n    |-> Len(samples),
   min  |-> 1000 * Least(samples),        max   |-> 1000 * Greatest(samples),
   p50  |-> Percentile(samples, 500),     p90   |-> Percentile(samples, 900),
   p99  |-> Percentile(samples, 990),     p99_9 |-> Percentile(samples, 999),
   mean |-> Total(samples)]
=============================================================================
