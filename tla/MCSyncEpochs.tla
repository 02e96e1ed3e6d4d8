---------------------------- MODULE MCSyncEpochs ----------------------------
(***************************************************************************)
(* SyncEpochs for TLC: the same two levels and future as MCFeed, long      *)
(* enough for a held diff, a dropped one, a gap and the replay after it.   *)
(***************************************************************************)
EXTENDS SyncEpochs

CONSTANTS near, deep

MCLevel == {near, deep}

Row(n, d) == [p \in MCLevel |-> IF p = near THEN n ELSE d]

Future == <<Row(1, 3), Row(0, 3), Row(0, 3), Row(2, 1), Row(2, 0), Row(1, 2), Row(1, 4)>>

MCHistory == [i \in 0..MaxId |-> Future[i + 1]]
MCVisible == [i \in 0..MaxId |-> IF i = 1 THEN {near} ELSE MCLevel]
=============================================================================
