---------------------------- MODULE MCRecorder ------------------------------
(***************************************************************************)
(* Instances of RecorderProps for TLC: the near level goes and comes back, *)
(* the deep one changes where no snapshot reaches it.  Nothing changes at  *)
(* id 1, so a diff may start after it or at it, and a REST answer at id 1  *)
(* fall between two diffs.                                                 *)
(***************************************************************************)
EXTENDS RecorderProps

CONSTANTS near, deep

MCLevel == {near, deep}

Row(n, d) == [p \in MCLevel |-> IF p = near THEN n ELSE d]

Future == <<Row(1, 3), Row(1, 3), Row(0, 2), Row(2, 2), Row(3, 2)>>

MCHistory == [i \in 0..MaxId |-> Future[i + 1]]
MCVisible == [i \in 0..MaxId |-> IF i = 1 THEN {near} ELSE MCLevel]
=============================================================================
