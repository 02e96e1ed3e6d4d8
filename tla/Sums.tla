-------------------------------- MODULE Sums --------------------------------
(***************************************************************************)
(* The sum of a list of numbers, as a loop adds them.                      *)
(***************************************************************************)
EXTENDS Integers, Sequences

TotalTable(f) ==
  LET sum[n \in 0..Len(f)] == IF n = 0 THEN 0 ELSE sum[n - 1] + f[n] IN sum

Total(f) == TotalTable(f)[Len(f)]
=============================================================================
