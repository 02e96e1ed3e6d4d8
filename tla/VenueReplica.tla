---------------------------- MODULE VenueReplica ----------------------------
(***************************************************************************)
(* What a local book promises, whoever keeps it: it shows the venue's book *)
(* as it was at one update id, on the levels it has been told about.  It   *)
(* can adopt any snapshot, can move only forward between two snapshots,    *)
(* and having lost the venue it stays where it is until the next snapshot. *)
(***************************************************************************)
EXTENDS Venue

VARIABLES
  head,     (* last update id of the venue                                 *)
  at,       (* the id the copy claims, NoId before the first snapshot      *)
  copy,     (* quantity shown per level                                    *)
  known,    (* levels the copy has been told about                         *)
  live      (* the copy may be read as current                             *)

vars == <<head, at, copy, known, live>>
copyVars == <<at, copy, known, live>>

Init ==
  /\ head = 0 /\ at = -1 /\ copy = [p \in Level |-> 0]
  /\ known = {} /\ live = FALSE

\* The venue's book at id i, cut to the levels in K.
Slice(i, K) == [p \in Level |-> IF p \in K THEN History[i][p] ELSE 0]

Grow == head < MaxId /\ head' = head + 1 /\ UNCHANGED copyVars

Adopt ==
  \E L \in 0..head :
    /\ at' = L /\ known' = Visible[L] /\ copy' = Slice(L, Visible[L])
    /\ live' = TRUE /\ UNCHANGED head

Advance ==
  /\ live
  /\ \E u \in 0..head, K \in SUBSET Level :
       /\ at <= u
       /\ at' = u /\ known' = known \cup K /\ copy' = Slice(u, known \cup K)
  /\ UNCHANGED <<head, live>>

Lose == live' = FALSE /\ UNCHANGED <<head, at, copy, known>>

Next == Grow \/ Adopt \/ Advance \/ Lose

Spec == Init /\ [][Next]_vars
=============================================================================
