----------------------------- MODULE OrderBook ------------------------------
(***************************************************************************)
(* orderbook/book.py: an L2 book fed by snapshots and diffs.  The two      *)
(* sorted dictionaries are one function over levels, 0 for an absent       *)
(* level; `seqReady` and `isSynced` are _seq_ready and _is_synced.         *)
(* `known` is a history field: the levels some message has told the book   *)
(* about since its last snapshot, the others being deeper than the REST    *)
(* limit.                                                                  *)
(***************************************************************************)
EXTENDS Venue

NoId == -1                                   \* last_update_id is None

Book == [last : UpdateId \cup {NoId}, levels : [Level -> Nat],
         known : SUBSET Level, seqReady : BOOLEAN, isSynced : BOOLEAN]

EmptyBook == [last |-> NoId, levels |-> [p \in Level |-> 0], known |-> {},
              seqReady |-> FALSE, isSynced |-> FALSE]

MarkUnsynced(b) == [b EXCEPT !.isSynced = FALSE]

ApplySnapshot(L) ==
  [last |-> L,
   levels |-> [p \in Level |-> IF p \in Visible[L] THEN History[L][p] ELSE 0],
   known |-> Visible[L], seqReady |-> FALSE, isSynced |-> TRUE]

\* Mutant: the first diff may start after the snapshot.
BracketsEndOnly(d, id) == id <= d.u

Brackets(d, id) == d.U <= id /\ id <= d.u

\* What apply_delta does with d: EmptyBookError, apply, return False, or
\* SequenceGapError.
Verdict(b, d) ==
  CASE b.last = NoId -> "empty"
    [] b.last # NoId /\ d.pu = b.last -> "applied"
    [] b.last # NoId /\ d.pu # b.last /\ ~b.seqReady /\ d.u < b.last -> "ignored"
    [] b.last # NoId /\ d.pu # b.last /\ ~b.seqReady /\ Brackets(d, b.last) -> "applied"
    [] OTHER -> "gap"

\* Mutant: a level whose quantity is 0 is not removed.
SetLevelsKeepingZeros(b, d) ==
  [last |-> d.u,
   levels |-> [p \in Level |-> IF p \in Touched(d) /\ History[d.u][p] > 0
                              THEN History[d.u][p] ELSE b.levels[p]],
   known |-> b.known \cup Touched(d),
   seqReady |-> TRUE, isSynced |-> b.isSynced]

\* _set_level on every level of the diff, then the sequence fields.
SetLevels(b, d) ==
  [last |-> d.u,
   levels |-> [p \in Level |-> IF p \in Touched(d) THEN History[d.u][p] ELSE b.levels[p]],
   known |-> b.known \cup Touched(d),
   seqReady |-> TRUE, isSynced |-> b.isSynced]

ApplyDelta(b, d) ==
  CASE Verdict(b, d) = "applied" -> SetLevels(b, d)
    [] Verdict(b, d) = "gap" -> MarkUnsynced(b)
    [] OTHER -> b

\* A consumer of the published stream applies what it takes and survives a
\* gap (scripts/record_l2.py, _apply); trades do not touch the book.
ApplyEvent(b, e) ==
  CASE e.kind = "snapshot" -> ApplySnapshot(e.u)
    [] e.kind = "depth" -> ApplyDelta(b, e)
    [] OTHER -> b

-----------------------------------------------------------------------------
\* The book is the venue's book at the id it claims: exactly on the levels it
\* has been told about, and silent on the others.
Faithful(b) ==
  b.last # NoId =>
    \A p \in Level : b.levels[p] = IF p \in b.known THEN History[b.last][p] ELSE 0
=============================================================================
