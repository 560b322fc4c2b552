----------------------------- MODULE MCTrading -----------------------------
(* Small instances of Trading for TLC.  With Unit = 2 a quantity is in half *)
(* contracts; the limits (overridable in every request) are 2 and 4 dollars *)
(* per trade and per position, so that a position takes several trades.     *)
EXTENDS Trading

CONSTANTS ann

mcAgents == {ann}

Scenario(prices, entries, capitals, quantities, sizings, types, disciplined, maxCalls) ==
    [prices |-> prices, entries |-> entries, capitals |-> capitals, quantities |-> quantities,
     sizings |-> sizings, types |-> types, disciplined |-> disciplined,
     maxCalls |-> maxCalls]

Kelly(win, avgWin, avgLoss) ==
    [method |-> "kelly", win |-> win, avgWin |-> avgWin, avgLoss |-> avgLoss]
Fixed(riskPct) == [method |-> "fixed_fractional", riskPct |-> riskPct]
sizes == {Kelly(55, 2, 1), Kelly(100, 1, 1), Kelly(30, 1, 1), Kelly(60, 1, 0), Fixed(2), Fixed(3)}

\* Market orders of an agent that asks the gate.
gate   == Scenario({1}, {0, 3}, {89, 100}, {1, 4, 6}, {}, {"market"}, TRUE, 3)
\* The sizes it is told, at several prices, also when there is none.
sizing == Scenario({0, 1, 3}, {0, 2}, {60, 100}, {2}, sizes, {"market"}, TRUE, 1)
\* Limit orders and cancels, without asking.
limits == Scenario({0, 1}, {0}, {100}, {3}, {}, {"limit"}, FALSE, 3)

scenarios == {gate, sizing, limits}
placing   == {Scenario({1}, {0}, {100}, {4}, {}, {"market"}, FALSE, 2)}
=============================================================================
