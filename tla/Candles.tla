------------------------------- MODULE Candles -------------------------------
(***************************************************************************)
(* The candles of one instrument and timeframe as the analytics and the    *)
(* backtest read them: get_recent_candles(limit) answers the newest Limit  *)
(* rows in ascending order, so that a new candle pushes the oldest out.    *)
(***************************************************************************)
EXTENDS Integers, Sequences

CONSTANTS Bars,   \* the candles: [open, high, low, close] in price steps, and volume
          Limit   \* candles per answer (200 for the analytics, 1000 for a backtest)

ASSUME BarsAssumption ==
  \A b \in Bars : /\ {b.open, b.high, b.low, b.close} \subseteq Nat \ {0}
                  /\ b.low =< b.open /\ b.low =< b.close
                  /\ b.open =< b.high /\ b.close =< b.high
                  /\ b.volume \in Nat

ASSUME LimitAssumption == Limit \in Nat \ {0}

VARIABLE bars     \* the answer, oldest candle first

Newest(s) == IF Len(s) > Limit THEN Tail(s) ELSE s

CandlesInit == bars = <<>>

NewBar == \E b \in Bars : bars' = Newest(Append(bars, b))

CandlesSpec == CandlesInit /\ [][NewBar]_bars

\* How many candles a step pushed out of the answer.
Shift == Len(bars) + 1 - Len(bars')
==============================================================================
