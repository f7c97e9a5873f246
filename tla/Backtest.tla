------------------------------- MODULE Backtest -------------------------------
(***************************************************************************)
(* One call of run_backtest (src/crypto_pipeline/backtest): the checks on  *)
(* the candles, the SMA crossover, the loop of simulate over the changes   *)
(* of position, and the benchmark.  The ledger is exact, as it is in the   *)
(* code, where it is Decimal: amounts of money are integers in units of    *)
(* 1/Unit, quantities in units of 1/Lot (the code's Lot is 10^8).  The     *)
(* statistics, which the code computes in floats, are left out.            *)
(*                                                                         *)
(* Nothing runs beside it.  What is hard is the sequence: each step leaves *)
(* cash, fees, open trade and curve to the next, for any history of prices.*)
(***************************************************************************)
EXTENDS Integers, Sequences, Functions

CONSTANTS
    Prices,                 \* opens and closes, in whole units of currency
    Histories,              \* the candles run_backtest is called with
    Windows,                \* the pairs (fast_window, slow_window)
    Capital,                \* initial_capital
    FeeNum, FeeDen,         \* fee_rate
    SlipNum, SlipDen,       \* slippage
    Lot,                    \* quantities are multiples of 1/Lot
    None                    \* no exit, no pnl

Candle == [ts : Nat, open : Prices, close : Prices]

ASSUME BacktestAssumption ==
    /\ Prices \subseteq Nat \ {0}
    /\ Histories \subseteq Seq(Candle)
    /\ \A h \in Histories : h # <<>> /\ \A t, u \in DOMAIN h : t < u => h[t].ts < h[u].ts
    /\ Windows \subseteq Int \X Int
    /\ {Capital, FeeDen, SlipDen, Lot} \subseteq Nat \ {0}
    /\ FeeNum \in 0..FeeDen - 1
    /\ SlipNum \in 0..SlipDen - 1
    /\ None \notin Int

VARIABLES
    candles, windows, allowGaps,    \* the arguments
    pc,                             \* "preparing", "looping", "returned", "raised"
    i,                              \* the candle the loop is at
    cash, quantity,
    isOpen, entry, entryFee,        \* the open trade
    cashAtEntry,
    totalFees,
    trades,
    curve,                          \* curve_list: the ledger after each fill
    finalCash

arguments == <<candles, windows, allowGaps>>
vars == <<candles, windows, allowGaps, pc, i, cash, quantity, isOpen, entry, entryFee,
          cashAtEntry, totalFees, trades, curve, finalCash>>

-----------------------------------------------------------------------------
(* The signal. *)

(* Rows of prepare_candles whose predecessor is not one interval before. *)
Gaps(h) == {t \in 2..Len(h) : h[t].ts # h[t - 1].ts + 1}

(* What prepare_candles, sma and sma_crossover refuse: gaps that are not
   allowed, a window below 1 or beyond the data, swapped windows. *)
Refused(h, w, gapsAllowed) ==
    \/ Gaps(h) # {} /\ ~gapsAllowed
    \/ \E k \in {w[1], w[2]} : k < 1 \/ k > Len(h)
    \/ w[1] > w[2]

(* The sum of the n closes up to candle t. *)
CloseSum(h, t, n) == SumFunctionOnSet([k \in DOMAIN h |-> h[k].close], t - n + 1 .. t)

(* fast > slow at candle t; no average is there before its window is full. *)
FastAboveSlow(h, w, t) ==
    /\ w[1] <= t /\ w[2] <= t
    /\ CloseSum(h, t, w[1]) * w[2] > CloseSum(h, t, w[2]) * w[1]

(* Mutant: the crossover is not shifted. *)
PositionUnshifted(h, w, t) == IF FastAboveSlow(h, w, t) THEN 1 ELSE 0

(* Mutant: the first position is filled with 1 instead of 0. *)
PositionFilledOne(h, w, t) == IF t = 1 \/ FastAboveSlow(h, w, t - 1) THEN 1 ELSE 0

(* sma_crossover: the crossover, shifted by one candle. *)
Position(h, w, t) == IF t > 1 /\ FastAboveSlow(h, w, t - 1) THEN 1 ELSE 0

(* position.diff(); the first is NaN, which is neither 1 nor -1. *)
Change == IF i = 1 THEN 0 ELSE Position(candles, windows, i) - Position(candles, windows, i - 1)

-----------------------------------------------------------------------------
(* The fills. *)

Unit == Lot * SlipDen * FeeDen * FeeDen

(* The cost of q at a price, slippage included. *)
Cost(q, price) == q * price * (SlipDen + SlipNum) * FeeDen * FeeDen

(* Mutant: the quantity is rounded up. *)
ExecuteBuyRoundUp(money, price) ==
    LET fee == (money * FeeNum) \div FeeDen
    IN  [quantity |-> (money - fee) \div Cost(1, price) + 1, fee |-> fee]

(* Mutant: the quantity is rounded to whole units. *)
ExecuteBuyWhole(money, price) ==
    LET fee == (money * FeeNum) \div FeeDen
    IN  [quantity |-> Lot * ((money - fee) \div Cost(Lot, price)), fee |-> fee]

(* The fee is on the cash; the rest buys a quantity rounded down. *)
ExecuteBuy(money, price) ==
    LET fee == (money * FeeNum) \div FeeDen
    IN  [quantity |-> (money - fee) \div Cost(1, price), fee |-> fee]

ExecuteSell(q, price) ==
    LET proceeds == q * price * (SlipDen - SlipNum) * FeeDen * FeeDen
        fee == (proceeds * FeeNum) \div FeeDen
    IN  [cash |-> proceeds - fee, fee |-> fee]

(* A quantity at a price, without costs. *)
Marked(q, price) == q * price * SlipDen * FeeDen * FeeDen

FinalClose == candles[Len(candles)].close

(* buy_and_hold: in at the first open, out at the last close. *)
BuyAndHold ==
    ExecuteSell(ExecuteBuy(Capital * Unit, candles[1].open).quantity, FinalClose).cash

-----------------------------------------------------------------------------
(* The run. *)

Point(t, c, q) == [at |-> t, cash |-> c, quantity |-> q]

Init ==
    /\ candles \in Histories
    /\ windows \in Windows
    /\ allowGaps \in BOOLEAN
    /\ pc = "preparing"
    /\ i = 1
    /\ cash = Capital * Unit
    /\ quantity = 0
    /\ isOpen = FALSE
    /\ entry = 1
    /\ entryFee = 0
    /\ cashAtEntry = Capital * Unit
    /\ totalFees = 0
    /\ trades = <<>>
    /\ curve = <<Point(1, Capital * Unit, 0)>>
    /\ finalCash = 0

(* The checks before the loop: an exception, or on to simulate. *)
Prepare ==
    /\ pc = "preparing"
    /\ pc' = IF Refused(candles, windows, allowGaps) THEN "raised" ELSE "looping"
    /\ UNCHANGED <<arguments, i, cash, quantity, isOpen, entry, entryFee, cashAtEntry,
                   totalFees, trades, curve, finalCash>>

(* change == 1: all cash goes into the position, at this candle's open. *)
Buy ==
    /\ pc = "looping" /\ i <= Len(candles) /\ Change = 1
    /\ LET fill == ExecuteBuy(cash, candles[i].open) IN
          /\ quantity' = fill.quantity
          /\ entryFee' = fill.fee
          /\ totalFees' = totalFees + fill.fee
          /\ curve' = Append(curve, Point(i, 0, fill.quantity))
    /\ entry' = i
    /\ cashAtEntry' = cash
    /\ cash' = 0
    /\ isOpen' = TRUE
    /\ i' = i + 1
    /\ UNCHANGED <<arguments, pc, trades, finalCash>>

(* Mutant: the fees of a trade leave out its entry. *)
SellForgetsEntryFee ==
    /\ pc = "looping" /\ i <= Len(candles) /\ Change = -1
    /\ LET fill == ExecuteSell(quantity, candles[i].open) IN
          /\ cash' = fill.cash
          /\ totalFees' = totalFees + fill.fee
          /\ trades' = Append(trades, [entry |-> entry, exit |-> i, fees |-> fill.fee,
                                       pnl |-> fill.cash - cashAtEntry])
          /\ curve' = Append(curve, Point(i, fill.cash, 0))
    /\ quantity' = 0
    /\ entryFee' = 0
    /\ isOpen' = FALSE
    /\ i' = i + 1
    /\ UNCHANGED <<arguments, pc, entry, cashAtEntry, finalCash>>

(* Mutant: a sale is not noted in the curve. *)
SellWithoutPoint ==
    /\ pc = "looping" /\ i <= Len(candles) /\ Change = -1
    /\ LET fill == ExecuteSell(quantity, candles[i].open) IN
          /\ cash' = fill.cash
          /\ totalFees' = totalFees + fill.fee
          /\ trades' = Append(trades, [entry |-> entry, exit |-> i, fees |-> entryFee + fill.fee,
                                       pnl |-> fill.cash - cashAtEntry])
    /\ quantity' = 0
    /\ entryFee' = 0
    /\ isOpen' = FALSE
    /\ i' = i + 1
    /\ UNCHANGED <<arguments, pc, entry, cashAtEntry, curve, finalCash>>

(* change == -1: the position is sold at this candle's open. *)
Sell ==
    /\ pc = "looping" /\ i <= Len(candles) /\ Change = -1
    /\ LET fill == ExecuteSell(quantity, candles[i].open) IN
          /\ cash' = fill.cash
          /\ totalFees' = totalFees + fill.fee
          /\ trades' = Append(trades, [entry |-> entry, exit |-> i, fees |-> entryFee + fill.fee,
                                       pnl |-> fill.cash - cashAtEntry])
          /\ curve' = Append(curve, Point(i, fill.cash, 0))
    /\ quantity' = 0
    /\ entryFee' = 0
    /\ isOpen' = FALSE
    /\ i' = i + 1
    /\ UNCHANGED <<arguments, pc, entry, cashAtEntry, finalCash>>

(* Mutant: the loop runs over the row after the last one. *)
HoldTooFar ==
    /\ pc = "looping" /\ i <= Len(candles) + 1 /\ Change = 0
    /\ i' = i + 1
    /\ UNCHANGED <<arguments, pc, cash, quantity, isOpen, entry, entryFee, cashAtEntry,
                   totalFees, trades, curve, finalCash>>

(* No change of position. *)
Hold ==
    /\ pc = "looping" /\ i <= Len(candles) /\ Change = 0
    /\ i' = i + 1
    /\ UNCHANGED <<arguments, pc, cash, quantity, isOpen, entry, entryFee, cashAtEntry,
                   totalFees, trades, curve, finalCash>>

(* After the loop: an open trade is listed, and marked to the last close. *)
Return ==
    /\ pc = "looping" /\ i > Len(candles)
    /\ trades' = IF isOpen
                 THEN Append(trades, [entry |-> entry, exit |-> None, fees |-> entryFee, pnl |-> None])
                 ELSE trades
    /\ finalCash' = cash + Marked(quantity, FinalClose)
    /\ pc' = "returned"
    /\ UNCHANGED <<arguments, i, cash, quantity, isOpen, entry, entryFee, cashAtEntry,
                   totalFees, curve>>

Next == Prepare \/ Buy \/ Sell \/ Hold \/ Return

Spec == Init /\ [][Next]_vars

-----------------------------------------------------------------------------
(* Properties *)

Trade == [entry : Nat, exit : Nat \cup {None}, fees : Nat, pnl : Int \cup {None}]

TypeOK ==
    /\ candles \in Seq(Candle)
    /\ windows \in Windows
    /\ allowGaps \in BOOLEAN
    /\ pc \in {"preparing", "looping", "returned", "raised"}
    /\ i \in 1..Len(candles) + 1
    /\ cash \in Nat
    /\ quantity \in Nat
    /\ isOpen \in BOOLEAN
    /\ entry \in 1..Len(candles)
    /\ entryFee \in Nat
    /\ cashAtEntry \in Nat
    /\ totalFees \in Nat
    /\ trades \in Seq(Trade)
    /\ curve \in Seq([at : Nat, cash : Nat, quantity : Nat])
    /\ finalCash \in Nat

(* The position of a candle depends on earlier candles alone: whatever its
   own close were, its position and all positions before it are the same. *)
NoLookAhead ==
    pc = "looping" =>
        \A t \in DOMAIN candles, price \in Prices :
            \A u \in 1..t :
                Position([candles EXCEPT ![t].close = price], windows, u)
                    = Position(candles, windows, u)

(* The trade is open exactly while the signal says so, and then all of the
   money is in it: no sale without a purchase before it, and no second one. *)
FollowsSignal ==
    pc = "looping" /\ i > 1 =>
        /\ isOpen <=> Position(candles, windows, i - 1) = 1
        /\ isOpen => cash = 0
        /\ ~isOpen => quantity = 0 /\ entryFee = 0

Fees == SumFunction([k \in DOMAIN trades |-> trades[k].fees])

ClosedTrades == {k \in DOMAIN trades : trades[k].exit # None}
EarnedBefore(n) ==
    SumFunctionOnSet([k \in ClosedTrades |-> trades[k].pnl], {k \in ClosedTrades : k < n})
Earned == EarnedBefore(Len(trades) + 1)

(* The list of trades and the running totals, which the code keeps apart, agree
   after every fill: fees_paid is what the listed trades paid and the one still
   open; initial capital and the pnl of the closed trades account for all the
   cash there is, or, while a trade is open, all that went into it. *)
LedgerAddsUp ==
    /\ totalFees = Fees + (IF pc = "returned" THEN 0 ELSE entryFee)
    /\ (IF isOpen THEN cashAtEntry ELSE cash) = Capital * Unit + Earned

(* What before becomes at most when it goes in at one price and out at another:
   both fees and the slippage of both fills are paid, and rounding never pays. *)
AfterCosts(before, after, priceIn, priceOut) ==
    after * priceIn * (SlipDen + SlipNum) * FeeDen * FeeDen
        <= before * priceOut * (SlipDen - SlipNum) * (FeeDen - FeeNum) * (FeeDen - FeeNum)

(* No closed trade, and no benchmark, escapes its costs, whichever trade it is
   in the sequence and whatever the trades before it have left to spend. *)
CostsNeverPay ==
    /\ \A k \in ClosedTrades :
          LET before == Capital * Unit + EarnedBefore(k)
          IN  AfterCosts(before, before + trades[k].pnl,
                         candles[trades[k].entry].open, candles[trades[k].exit].open)
    /\ pc = "returned" => AfterCosts(Capital * Unit, BuyAndHold, candles[1].open, FinalClose)

(* The same from below: what the rounding of the purchase drops would have bought
   less than one lot. *)
AllButALot(before, after, priceIn, priceOut) ==
    before * priceOut * (SlipDen - SlipNum) * (FeeDen - FeeNum) * (FeeDen - FeeNum)
        < after * priceIn * (SlipDen + SlipNum) * FeeDen * FeeDen
            + Cost(1, priceIn) * priceOut * (SlipDen - SlipNum) * FeeDen * (FeeDen - FeeNum)

(* Cash that the rounding of a quantity leaves over is dropped (cash is set to
   0), and that is all that is ever lost: no closed trade and no benchmark earns
   less than its prices give after fees and slippage by the worth of a lot. *)
OnlyDustIsDropped ==
    /\ \A k \in ClosedTrades :
          LET before == Capital * Unit + EarnedBefore(k)
          IN  AllButALot(before, before + trades[k].pnl,
                         candles[trades[k].entry].open, candles[trades[k].exit].open)
    /\ pc = "returned" => AllButALot(Capital * Unit, BuyAndHold, candles[1].open, FinalClose)

(* The curve at candle t: the last fill at or before t, at t's close. *)
LastPoint(t) ==
    CHOOSE k \in DOMAIN curve :
        curve[k].at <= t /\ \A j \in DOMAIN curve : curve[j].at <= t => j <= k
Equity(t) == curve[LastPoint(t)].cash + Marked(curve[LastPoint(t)].quantity, candles[t].close)

(* The equity curve has one point for each time of a fill, and ends at
   final_equity, so that return and drawdown speak of the same money. *)
CurveEndsAtFinal ==
    pc = "returned" =>
        /\ \A k, j \in DOMAIN curve : k < j => curve[k].at < curve[j].at
        /\ Equity(Len(candles)) = finalCash

=============================================================================
