----------------------------- MODULE MCMetrics ------------------------------
(***************************************************************************)
(* Metrics for TLC: a book of two levels, one whose touch has moved, one   *)
(* without its second ask and one without asks; trades that fall short of  *)
(* a bucket by a rounding error, exceed it by one, or fill two.            *)
(***************************************************************************)
EXTENDS Metrics

MCBooks ==
  {[bids |-> <<<<9, 2>>, <<8, 1>>>>, asks |-> <<<<11, 1>>, <<12, 3>>>>],
   [bids |-> <<<<10, 1>>, <<9, 2>>>>, asks |-> <<<<11, 2>>, <<12, 3>>>>],
   [bids |-> <<<<9, 3>>, <<8, 1>>>>, asks |-> <<<<12, 2>>>>],
   [bids |-> <<<<9, 2>>>>, asks |-> << >>]}

MCSteps == {0, 3}

MCTrades == [px : {5, 7}, qty : {100, 199, 201, 700}, sign : {-1, 1}]
              \cup {[px |-> 7, qty |-> 0, sign |-> 1]}

MCClock == <<1, 2, 5, 13>>

MCPhi(d) == IF d < 0 THEN 60 ELSE IF d = 0 THEN 150 ELSE 250
=============================================================================
