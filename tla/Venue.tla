------------------------------- MODULE Venue --------------------------------
(***************************************************************************)
(* The exchange, as the code under src/ uses it: the book it keeps, its    *)
(* depth stream and its REST snapshot.  The venue numbers every change of  *)
(* its book with an update id.  A diff-depth message covers the ids U..u   *)
(* and names in pu the last id of the message sent before it; it carries,  *)
(* for every level that changed, the new absolute quantity.  A REST        *)
(* snapshot at lastUpdateId L shows the best levels of the book at L.      *)
(*                                                                         *)
(* The venue's whole future is a constant, so that what is proved holds    *)
(* for every future and what is model-checked is a chosen one.             *)
(***************************************************************************)
EXTENDS Integers

CONSTANTS
  Level,      (* side and price of a level                                 *)
  MaxId,      (* bound: the last update id of the venue's future           *)
  History,    (* History[i][p]: quantity of level p after update i, or 0   *)
  Visible     (* Visible[i]: levels a REST snapshot at i is deep enough    *)
              (* to show (the request's `limit`)                           *)

ASSUME VenueAssumption ==
  /\ MaxId \in Nat
  /\ History \in [0..MaxId -> [Level -> Nat]]
  /\ Visible \in [0..MaxId -> SUBSET Level]

UpdateId == 0..MaxId

(***************************************************************************)
(* Messages.  Quantities are determined by the ids, so a message carries   *)
(* the ids only.  "garbled" is a frame that a parser rejects, "list" one   *)
(* that is JSON but no object, "eof" the sentinel the pump leaves behind,  *)
(* "none" the absence of a message.                                        *)
(***************************************************************************)
Kind == {"depth", "trade", "garbled", "list", "eof", "snapshot", "none"}
Msg  == [kind : Kind, U : UpdateId, u : UpdateId, pu : UpdateId]

Mark(k)        == [kind |-> k, U |-> 0, u |-> 0, pu |-> 0]
NoMsg          == Mark("none")
Sentinel       == Mark("eof")
Snapshot(L)    == [kind |-> "snapshot", U |-> 0, u |-> L, pu |-> 0]
Diff(U, u, pu) == [kind |-> "depth", U |-> U, u |-> u, pu |-> pu]

\* What the documentation of the stream promises of a diff: ids grow from pu
\* to U to u, and no id between pu and U changed the book.
IsDiff(d) ==
  /\ d.kind = "depth"
  /\ d.pu < d.U /\ d.U <= d.u
  /\ \A i \in d.pu .. (d.U - 1) : History[i] = History[d.pu]

\* The levels a diff carries: those that differ anywhere in pu..u from u.
Touched(d) == {p \in Level : \E i \in d.pu .. d.u : History[i][p] # History[d.u][p]}
=============================================================================
