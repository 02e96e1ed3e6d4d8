----------------------------- MODULE DepthSync ------------------------------
(***************************************************************************)
(* ingestion/sync.py: DepthSequenceValidator, the venue's sequence rules,  *)
(* and DepthSynchronizer, which holds diffs until a snapshot arrives and   *)
(* decides what becomes of each.                                           *)
(***************************************************************************)
EXTENDS OrderBook, Sequences, SequencesExt

CONSTANT MaxBuffer      (* max_buffer: diffs held while no snapshot is in  *)

ASSUME MaxBufferAssumption == MaxBuffer \in Nat

Validator   == [last : UpdateId \cup {NoId}, synced : BOOLEAN]
NoValidator == [last |-> NoId, synced |-> FALSE]

NewValidator(L) == [last |-> L, synced |-> FALSE]

\* validate(): the diff is to be applied, is stale, or breaks the sequence.
Judge(v, d) ==
  CASE v.synced /\ d.pu = v.last -> "apply"
    [] v.synced /\ d.pu # v.last -> "gap"
    [] ~v.synced /\ d.u < v.last -> "stale"
    [] ~v.synced /\ Brackets(d, v.last) -> "apply"
    [] OTHER -> "gap"

Synchronizer  == [validator : Validator, buffer : Seq(Msg)]
NoEpoch       == [validator |-> NoValidator, buffer |-> << >>]
OnDisconnect  == NoEpoch
Awaiting(s)   == s.validator.last = NoId

\* decide(): the decision, and the synchronizer after it.  A full buffer
\* drops the diff without a word.
Decision(s, d) ==
  IF Awaiting(s) THEN "buffer"
  ELSE CASE Judge(s.validator, d) = "apply" -> "apply"
         [] Judge(s.validator, d) = "stale" -> "drop_stale"
         [] OTHER -> "resync"

\* Mutant: a gap does not end the epoch.
DecideKeepingEpoch(s, d) ==
  CASE Decision(s, d) = "buffer" ->
         [s EXCEPT !.buffer = IF Len(@) < MaxBuffer THEN Append(@, d) ELSE @]
    [] Decision(s, d) = "apply" -> [s EXCEPT !.validator = [last |-> d.u, synced |-> TRUE]]
    [] OTHER -> s

Decide(s, d) ==
  CASE Decision(s, d) = "buffer" ->
         [s EXCEPT !.buffer = IF Len(@) < MaxBuffer THEN Append(@, d) ELSE @]
    [] Decision(s, d) = "apply" -> [s EXCEPT !.validator = [last |-> d.u, synced |-> TRUE]]
    [] Decision(s, d) = "resync" -> NoEpoch
    [] OTHER -> s

\* install_snapshot(): a fresh validator, then the held diffs one by one; the
\* synchronizer after each of them, and the decisions that the call returns.
Fresh(L) == [validator |-> NewValidator(L), buffer |-> << >>]

ReplayTable(s, L) ==
  LET at[i \in 0..Len(s.buffer)] == IF i = 0 THEN Fresh(L) ELSE Decide(at[i - 1], s.buffer[i])
  IN  at

InstallSnapshot(s, L) == IF s.buffer = << >> THEN Fresh(L) ELSE ReplayTable(s, L)[Len(s.buffer)]

Decisions(s, L) ==
  LET at == ReplayTable(s, L)
  IN  [i \in 1..Len(s.buffer) |->
         [diff |-> s.buffer[i], decision |-> Decision(at[i - 1], s.buffer[i])]]
=============================================================================
