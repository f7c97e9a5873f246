------------------------------ MODULE MCBacktest ------------------------------
(* Short histories, with and without a missing minute, and all their windows. *)
EXTENDS Backtest, TLC

CONSTANT MaxCandles

(* n candles; the minute after candle g is missing if g < n. *)
History(n, g, opens, closes) ==
    [t \in 1..n |-> [ts |-> IF t > g THEN t + 1 ELSE t, open |-> opens[t], close |-> closes[t]]]

MCHistories ==
    UNION {{History(n, g, opens, closes) : g \in {1, n}, opens \in [1..n -> Prices],
                                           closes \in [1..n -> Prices]} : n \in 1..MaxCandles}

MCWindows == {<<1, 2>>, <<1, 3>>, <<2, 3>>, <<2, 1>>, <<0, 2>>}

=============================================================================
