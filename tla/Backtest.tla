------------------------------ MODULE Backtest ------------------------------
(***************************************************************************)
(* run_backtest over the candles: the demonstration strategy, the engine   *)
(* that executes it and the metrics it reports. Prices are in steps, money *)
(* in 1/Scale of a price step times the traded quantity (0.1), so that a   *)
(* position is 0 or 1. The Sharpe ratio is a floating-point statistic and  *)
(* is left out; the entry price is read by no caller of this route.        *)
(* For an empty table the route makes 100 candles up (backtest.py:46-64);  *)
(* they are candles like any other, and what is said here is said of any.  *)
(***************************************************************************)
EXTENDS Candles

CONSTANTS Capital,   \* initial_capital
          Scale,     \* parts of a price step
          Slip       \* slippage, in parts of Scale (slippage_pct)

ASSUME MoneyAssumption == {Capital, Scale} \subseteq Nat \ {0} /\ Slip \in 0 .. Scale

NewEngine == [cash |-> Capital, position |-> 0, trades |-> <<>>, equity |-> <<Capital>>]

Fill(side, price) == IF side = "buy" THEN price * (Scale + Slip) ELSE price * (Scale - Slip)

Execute(e, side, price) ==
  LET fill == Fill(side, price)
      sign == IF side = "buy" THEN 1 ELSE -1
  IN  [e EXCEPT !.cash = @ - sign * fill,
                !.position = @ + sign,
                !.trades = Append(@, [side |-> side, price |-> fill])]

\* Plausible bug: the strategy forgets that it already holds a position.
SignalBlind(e, b) ==
  IF b.close > b.open THEN Execute(e, "buy", b.close)
  ELSE IF b.close < b.open THEN Execute(e, "sell", b.close)
  ELSE e

Signal(e, b) ==
  IF b.close > b.open /\ e.position = 0 THEN Execute(e, "buy", b.close)
  ELSE IF b.close < b.open /\ e.position > 0 THEN Execute(e, "sell", b.close)
  ELSE e

UpdatePortfolio(e, price) ==
  [e EXCEPT !.equity = Append(@, e.cash + e.position * price * Scale)]

\* The engine before the first candle and after each candle of s.
Engines(s) ==
  LET after[n \in 0 .. Len(s)] ==
        IF n = 0 THEN NewEngine
        ELSE UpdatePortfolio(Signal(after[n - 1], s[n]), s[n].close)
  IN  after

Run(s) == Engines(s)[Len(s)]

(***************************************************************************)
(* Metrics.                                                                *)
(***************************************************************************)
\* The trades are paired in their order; trade k closes the one before it.
Pnl(trades, k) ==
  LET gain == trades[k].price - trades[k - 1].price
  IN  IF trades[k - 1].side = "sell" THEN -gain ELSE gain

Booked(g, pnl) ==
  IF pnl > 0 THEN [g EXCEPT !.profit = @ + pnl] ELSE [g EXCEPT !.loss = @ - pnl]

\* Gross profit and loss of the first trades, however many.
Gross(trades) ==
  LET after[k \in 0 .. Len(trades)] ==
        IF k = 0 THEN [profit |-> 0, loss |-> 0]
        ELSE IF k % 2 = 0 THEN Booked(after[k - 1], Pnl(trades, k))
        ELSE after[k - 1]
  IN  after

\* Plausible bug: the peak is the initial capital for good.
DrawdownFromStart(d, val) ==
  IF d.peak > 0 /\ (d.peak - val) * d.of > d.fall * d.peak
  THEN [d EXCEPT !.fall = d.peak - val, !.of = d.peak] ELSE d

\* One step of the loop over the equity curve; the worst drawdown is fall/of.
Drawdown(d, val) ==
  LET peak == IF val > d.peak THEN val ELSE d.peak
  IN  IF peak > 0 /\ (peak - val) * d.of > d.fall * peak
      THEN [peak |-> peak, fall |-> peak - val, of |-> peak]
      ELSE [d EXCEPT !.peak = peak]

\* The worst drawdown of the first points of the equity curve.
Drawdowns(equity) ==
  LET after[n \in 0 .. Len(equity)] ==
        IF n = 0 THEN [peak |-> Capital, fall |-> 0, of |-> 1]
        ELSE Drawdown(after[n - 1], equity[n])
  IN  after

MaxDrawdown(equity) == Drawdowns(equity)[Len(equity)]

(***************************************************************************)
(* Properties.                                                             *)
(***************************************************************************)

\* Gross profit and loss, paired from the list of trades afterwards, account
\* for every unit of cash the orders moved: cash is the capital plus profit
\* minus loss, less the price of a position that is still open
\* (engine.py:20-47 against :74-96, with the strategy of backtest.py:58-68).
ProfitIsCash ==
  LET e    == Run(bars)
      last == Len(e.trades)
      open == IF e.position = 0 THEN 0 ELSE e.trades[last].price
      g    == Gross(e.trades)[last]
  IN  e.cash = Capital + g.profit - g.loss - open

\* The drawdown of the single pass is the worst fall between any two points
\* of the equity curve, in proportion to the first, and there is one with
\* exactly that fall (engine.py:103-111) - as long as the account is not
\* overdrawn: below zero a fall from a lower point can be the larger part.
DrawdownIsWorstFall ==
  LET q == Run(bars).equity
      d == MaxDrawdown(q)
      Pairs == {p \in (DOMAIN q) \X (DOMAIN q) : p[1] =< p[2] /\ q[p[1]] > 0}
      Fall(p) == q[p[1]] - q[p[2]]
  IN  (\A i \in DOMAIN q : q[i] >= 0) =>
        /\ \A p \in Pairs : Fall(p) * d.of =< d.fall * q[p[1]]
        /\ \E p \in Pairs : Fall(p) * d.of = d.fall * q[p[1]]
==============================================================================
