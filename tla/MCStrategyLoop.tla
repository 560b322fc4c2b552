--------------------------- MODULE MCStrategyLoop ---------------------------
(* Small instances of StrategyLoop for TLC.                                *)
EXTENDS StrategyLoop

CONSTANTS BTC, ETH, r1, r2

mcSymbols  == {BTC, ETH}
mcRunners  == {r1, r2}
oneSymbol  == {BTC}

snapshot(last, rsi, vwap, ema9, ema21, lower, upper) ==
    [last |-> last, rsi |-> rsi, vwap |-> vwap, ema9 |-> ema9,
     ema21 |-> ema21, lower |-> lower, upper |-> upper]

\* No price; no indicators (what the collectors write); an oversold and an
\* overbought market; and one whose midline falls back on EMA21.
mcMarket == {
    snapshot(0, Unset, Unset, Unset, Unset, Unset, Unset),
    snapshot(2, Unset, Unset, Unset, Unset, Unset, Unset),
    snapshot(2, 30, 1, 1, 1, 2, 4),
    snapshot(3, 70, 2, 2, 2, 1, 3),
    snapshot(4, 50, 0, 5, 3, 1, 6)}

\* The smallest capital there is, and one that buys a few units.
mcCapitals == {1, 700}
=============================================================================
