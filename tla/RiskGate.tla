------------------------------ MODULE RiskGate ------------------------------
(***************************************************************************)
(* swaram/risk/engine.py, as the routes of apps/api/routes/risk.py call it: *)
(* the gate (check_trade), the two position sizes, the drawdown status.    *)
(* Capital and prices are in dollars, quantities in 1/Unit of a contract;  *)
(* percentages are compared after multiplying out.                         *)
(***************************************************************************)
EXTENDS Integers, Rounding

CONSTANTS
    Unit,            \* 10000: quantities are rounded to 4 decimals
    InitialCapital,  \* DEFAULT_INITIAL_CAPITAL
    MaxDrawdownPct,  \* DEFAULT_MAX_DRAWDOWN_PCT
    MaxPositionPct,  \* DEFAULT_MAX_POSITION_PCT
    MaxLossPct       \* DEFAULT_MAX_LOSS_PER_TRADE_PCT

ASSUME GateAssumption ==
    /\ Unit \in Nat \ {0} /\ InitialCapital \in Nat \ {0}
    /\ MaxDrawdownPct \in Nat \ {0}
    /\ MaxPositionPct \in Nat /\ MaxLossPct \in Nat

DrawdownReached(capital) ==
    100 * (InitialCapital - capital) >= MaxDrawdownPct * InitialCapital

\* Is position * price more than MaxPositionPct of the initial capital?
OverExposed(position, price) ==
    100 * position * price > MaxPositionPct * InitialCapital * Unit

OverLossLimit(qty, price) ==
    100 * qty * price > MaxLossPct * InitialCapital * Unit

\* The quantity worth exactly the per-trade limit, rounded.
Suggestion(price) == Rounded(MaxLossPct * InitialCapital * Unit, 100 * price)

Verdict(allowed, suggested) == [allowed |-> allowed, suggested |-> suggested]

\* mutant: the exposure guard looks at the present position
CheckTradeCurrentExposure(capital, position, qty, price) ==
    IF DrawdownReached(capital) THEN Verdict(FALSE, 0)
    ELSE IF OverExposed(position, price) THEN Verdict(FALSE, 0)
    ELSE IF OverLossLimit(qty, price) THEN Verdict(FALSE, Suggestion(price))
    ELSE Verdict(TRUE, qty)
\* mutant: the per-trade guard comes before the exposure guard
CheckTradeLossFirst(capital, position, qty, price) ==
    IF DrawdownReached(capital) THEN Verdict(FALSE, 0)
    ELSE IF OverLossLimit(qty, price) THEN Verdict(FALSE, Suggestion(price))
    ELSE IF OverExposed(position + qty, price) THEN Verdict(FALSE, 0)
    ELSE Verdict(TRUE, qty)
\* The three guards in their order.
CheckTrade(capital, position, qty, price) ==
    IF DrawdownReached(capital) THEN Verdict(FALSE, 0)
    ELSE IF OverExposed(position + qty, price) THEN Verdict(FALSE, 0)
    ELSE IF OverLossLimit(qty, price) THEN Verdict(FALSE, Suggestion(price))
    ELSE Verdict(TRUE, qty)

\* GET /risk/state: at 70 % of the limit a warning.
risk_status(capital) ==
    IF DrawdownReached(capital) THEN "CRITICAL"
    ELSE IF 1000 * (InitialCapital - capital) >= 7 * MaxDrawdownPct * InitialCapital
         THEN "WARNING" ELSE "OK"

\* mutant: the cap of the fraction is forgotten
UncappedKelly(capital, price, win, avgWin, avgLoss) ==
    LET edge == win * avgWin - (100 - win) * avgLoss
    IN  IF avgLoss = 0 \/ price = 0 \/ edge <= 0 THEN 0
        ELSE Rounded(capital * edge * Unit, 400 * avgWin * price)
\* A quarter of the Kelly fraction win - (1 - win) / (avgWin / avgLoss), which
\* is edge / (400 * avgWin) for a win rate in percent, at most one fifth.
KellySize(capital, price, win, avgWin, avgLoss) ==
    LET edge == win * avgWin - (100 - win) * avgLoss
    IN  IF avgLoss = 0 \/ price = 0 \/ edge <= 0 THEN 0
        ELSE IF 5 * edge >= 400 * avgWin THEN Rounded(capital * Unit, 5 * price)
        ELSE Rounded(capital * edge * Unit, 400 * avgWin * price)

FixedFractionalSize(capital, price, riskPct) ==
    IF price = 0 THEN 0 ELSE Rounded(capital * riskPct * Unit, 100 * price)
=============================================================================
