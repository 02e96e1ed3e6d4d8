------------------------------- MODULE Honesty ------------------------------
(***************************************************************************)
(* ingestion/live.py on top of the running feed: when the validation       *)
(* window is over nobody takes events any more, _honesty_snapshot freezes  *)
(* the feed, copies its book, asks REST for a snapshot newer than the      *)
(* copy, replays the frozen diffs on the copy until it is level with the   *)
(* snapshot and compares the two; then the feed is stopped.                *)
(***************************************************************************)
EXTENDS Feed, FiniteSets

CONSTANTS
  Rank,         (* Rank[p]: place of level p counted from the best price   *)
  TopN          (* levels: how many of the best levels are compared        *)

\* depth(levels): the best levels of a book.
Top(quantity) ==
  {p \in Level : /\ quantity[p] > 0
                 /\ Cardinality({q \in Level : quantity[q] > 0 /\ Rank[q] < Rank[p]}) < TopN}

\* The compared levels lie well inside the depth of every snapshot: 20 of 1000.
ASSUME DepthAssumption ==
  /\ IsFiniteSet(Level) /\ Rank \in [Level -> Nat] /\ TopN \in Nat
  /\ \A i, j \in UpdateId : Top(History[i]) \subseteq Visible[j]

VARIABLES
  hpc,          (* await point: "window", "rest", "again", "replay", "done" *)
  copy,         (* book_copy                                               *)
  restId,       (* lastUpdateId of the REST answer                         *)
  replayed,     (* applied_idx: diffs replayed on the copy                 *)
  report        (* what _honesty_snapshot returns                          *)

honestyVars == <<copy, restId, replayed, report>>
hvars == <<vars, hpc, honestyVars>>

(* HonestyReport: "none" (not run yet), "raised", "stale", "compared".     *)
NoReport == [kind |-> "none", ahead |-> 0, batches |-> 0, mismatches |-> {}]
Outcome(kind) == [NoReport EXCEPT !.kind = kind]

HTypeOK ==
  /\ TypeOK
  /\ hpc \in {"window", "rest", "again", "replay", "done"}
  /\ copy \in Book /\ restId \in UpdateId /\ replayed \in Nat
  /\ report.kind \in {"none", "raised", "stale", "compared"}
  /\ report.ahead \in Nat /\ report.batches \in Nat /\ report.mismatches \subseteq Level

HInit ==
  /\ Init
  /\ hpc = "window" /\ copy = EmptyBook /\ restId = 0 /\ replayed = 0 /\ report = NoReport

-----------------------------------------------------------------------------
feedVars == <<venueVars, socketVars, pump, rawVars, pc, tries, out, stopped, sync,
              book, queue, replica>>

\* _compare_side: the top of the snapshot against the top of the book, by
\* price; a price that is not in the top of the book is a mismatch too.
Mismatches(b, R) ==
  {p \in Top(History[R]) : p \notin Top(b.levels) \/ b.levels[p] # History[R][p]}

\* Mutant: the live book is compared instead of the copy.
ComparedLive(b, R, n) ==
  [kind |-> "compared", ahead |-> b.last - R, batches |-> n, mismatches |-> Mismatches(book, R)]

Compared(b, R, n) ==
  [kind |-> "compared", ahead |-> b.last - R, batches |-> n, mismatches |-> Mismatches(b, R)]

\* The finally clause: whatever was held aside is thrown away.
Finish(r) ==
  /\ frozen' = FALSE /\ frozenDeltas' = << >>
  /\ hpc' = "done" /\ report' = r
  /\ UNCHANGED feedVars

\* freeze_for_honesty and copy_book; a book that never had a snapshot raises.
Freeze ==
  /\ hpc = "window"
  /\ \/ /\ book.last = NoId
        /\ Finish(Outcome("raised"))
        /\ UNCHANGED <<copy, restId, replayed>>
     \/ /\ book.last # NoId
        /\ frozen' = TRUE /\ frozenDeltas' = << >>
        /\ copy' = book /\ hpc' = "rest"
        /\ UNCHANGED <<feedVars, restId, replayed, report>>

Answer(R) == R \in UpdateId /\ R <= head /\ head - R <= RestLag

\* _fetch_rest_newer_than: one more try when the answer is older than L0.
RestAnswered ==
  /\ hpc \in {"rest", "again"}
  /\ \E R \in UpdateId :
       /\ Answer(R)
       /\ restId' = R
       /\ \/ R > copy.last /\ hpc' = "replay"
             /\ UNCHANGED <<feedVars, freezeVars, report>>
          \/ R <= copy.last /\ hpc = "rest" /\ hpc' = "again"
             /\ UNCHANGED <<feedVars, freezeVars, report>>
          \/ R <= copy.last /\ hpc = "again" /\ Finish(Outcome("stale"))
  /\ UNCHANGED <<copy, replayed>>

RestRaises ==
  /\ hpc \in {"rest", "again"}
  /\ Finish(Outcome("raised"))
  /\ UNCHANGED <<copy, restId, replayed>>

\* Mutant: the diffs are replayed without their sequence rules.
CatchUpOneBlind(acc, d, R) ==
  IF acc.book.last >= R THEN acc
  ELSE [book |-> SetLevels(acc.book, d), n |-> acc.n + 1, gap |-> FALSE]

CatchUpOne(acc, d, R) ==
  IF acc.gap \/ acc.book.last >= R THEN acc
  ELSE [book |-> ApplyDelta(acc.book, d), n |-> acc.n + 1,
        gap |-> Verdict(acc.book, d) = "gap"]

\* One pass of the catch-up loop over the diffs drained since the last pass,
\* up to the first that reaches R or breaks the sequence.
CatchUp(b, n, deltas, R) ==
  LET pass[i \in 0..Len(deltas)] ==
        IF i = 0 THEN [book |-> b, n |-> n, gap |-> FALSE]
        ELSE CatchUpOne(pass[i - 1], deltas[i], R)
  IN  pass[Len(deltas)]

Replay ==
  /\ hpc = "replay" /\ frozenDeltas # << >>
  /\ LET pass == CatchUp(copy, replayed, frozenDeltas, restId)
     IN  /\ copy' = pass.book /\ replayed' = pass.n
         /\ \/ pass.gap /\ Finish(Outcome("stale"))
            \/ ~pass.gap /\ copy'.last >= restId
               /\ Finish(Compared(copy', restId, replayed'))
            \/ ~pass.gap /\ copy'.last < restId
               /\ frozenDeltas' = << >>
               /\ UNCHANGED <<feedVars, frozen, hpc, report>>
  /\ UNCHANGED restId

CatchUpTimeout ==
  /\ hpc = "replay"
  /\ Finish(Outcome("stale"))
  /\ UNCHANGED <<copy, restId, replayed>>

-----------------------------------------------------------------------------
\* The feed meanwhile: the consumer has left once the window is over, and
\* stop() comes after the report.
FeedTask ==
  \/ VenueStep \/ PumpStep \/ LoopStep \/ HandleStep \/ RestStep \/ Start
  \/ Connect \/ ConnectFails \/ PutDone \/ Stale

Meanwhile == FeedTask /\ UNCHANGED <<hpc, honestyVars>>
Taken     == hpc = "window" /\ Consume /\ UNCHANGED <<hpc, honestyVars>>
StopAfter == hpc = "done" /\ Stop /\ UNCHANGED <<hpc, honestyVars>>

HonestyStep == Freeze \/ RestAnswered \/ RestRaises \/ Replay \/ CatchUpTimeout

HNext == Meanwhile \/ Taken \/ StopAfter \/ HonestyStep

HSpec == HInit /\ [][HNext]_hvars
=============================================================================
