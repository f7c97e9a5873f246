--------------------------- MODULE MCBacktestCommand ---------------------------
(* A grid of five combinations: one that fits the longest first segment only
   and raises there, one out of order, and three that run. *)
EXTENDS BacktestCommand, TLC

MCGrid == <<<<0, 8>>, <<1, 2>>, <<3, 1>>, <<2, 4>>, <<2, 3>>>>
MCSharpes == -1..1

=============================================================================
