------------------------------- MODULE MCFeed -------------------------------
(***************************************************************************)
(* Instances of Feed for TLC: two levels, a future in which a level        *)
(* shrinks, the other goes and comes back, one id changes nothing, and     *)
(* the REST snapshot at one id does not reach the deeper level.            *)
(***************************************************************************)
EXTENDS FeedInv

CONSTANTS near, deep

MCLevel == {near, deep}

Row(n, d) == [p \in MCLevel |-> IF p = near THEN n ELSE d]

Future == <<Row(1, 3), Row(1, 2), Row(0, 2), Row(0, 2), Row(2, 1), Row(2, 0)>>

MCHistory == [i \in 0..MaxId |-> Future[i + 1]]
MCVisible == [i \in 0..MaxId |-> IF i = 1 THEN {near} ELSE MCLevel]
=============================================================================
