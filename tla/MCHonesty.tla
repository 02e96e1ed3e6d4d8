----------------------------- MODULE MCHonesty ------------------------------
(***************************************************************************)
(* Instances of Honesty for TLC: three levels of which the best one is     *)
(* compared; the best level goes, comes back and changes size, the next    *)
(* one takes its place, and one snapshot does not reach the deepest.       *)
(***************************************************************************)
EXTENDS HonestyProps

CONSTANTS near, next, deep

MCLevel == {near, next, deep}
MCRank  == (near :> 1) @@ (next :> 2) @@ (deep :> 3)

Row(a, b, c) == (near :> a) @@ (next :> b) @@ (deep :> c)

Future == <<Row(1, 3, 1), Row(0, 3, 1), Row(0, 2, 2), Row(4, 2, 0), Row(5, 2, 1)>>

MCHistory == [i \in 0..MaxId |-> Future[i + 1]]
MCVisible == [i \in 0..MaxId |-> IF i = 1 THEN MCLevel \ {deep} ELSE MCLevel]
=============================================================================
