----------------------------- MODULE Indicators -----------------------------
(***************************************************************************)
(* The indicators of compute_analytics: EMA, RSI, MACD, ATR and VWAP over  *)
(* the candles of one answer. Values are exact quotients, as pairs of a    *)
(* numerator and a denominator. A line is the part of the array that is    *)
(* not NaN; no line means None. Bollinger bands and realized volatility    *)
(* are square roots and logarithms and are left out.                       *)
(***************************************************************************)
EXTENDS Candles, Sums, SequencesExt, FiniteSetsExt

CONSTANTS EmaPeriod,     \* of the four moving averages (9, 21, 50, 200)
          RsiPeriod,     \* 14
          FastPeriod, SlowPeriod, SignalPeriod,   \* 12, 26, 9
          AtrPeriod      \* 14

\* Of one bar, a Wilder average forgets all bars before.
ASSUME PeriodsAssumption ==
  /\ {EmaPeriod, RsiPeriod, FastPeriod, SlowPeriod, SignalPeriod, AtrPeriod} \subseteq Nat \ {0}
  /\ RsiPeriod > 1 /\ FastPeriod < SlowPeriod

Closes(s) == [i \in DOMAIN s |-> s[i].close]

\* Running averages of v: the mean of the first period values, which each
\* later value moves by share / (period - 1 + share) of the way.
Averages(v, period, share) ==
  LET avg[i \in 1 .. Len(v) - period + 1] ==
        IF i = 1 THEN <<Total(SubSeq(v, 1, period)), period>>
        ELSE LET last == avg[i - 1]
             IN  <<last[1] * (period - 1) + share * v[period + i - 1] * last[2],
                   last[2] * (period - 1 + share)>>
  IN  avg

\* calculate_ema
EmaLine(v, period) == Averages(v, period, 2)

\* Wilder's average, the last value.
Smoothed(d, period) == Last(Averages(d, period, 1))

\* The changes from bar to bar, upwards and downwards.
Gains(v) == [i \in 1 .. Len(v) - 1 |-> Max({v[i + 1] - v[i], 0})]
Losses(v) == [i \in 1 .. Len(v) - 1 |-> Max({v[i] - v[i + 1], 0})]

\* Plausible bug: only the last period counts.
RsiOfLastPeriod(v) ==
  IF Len(v) =< RsiPeriod THEN <<>>
  ELSE LET LastSum(d) == Total(SubSeq(d, Len(d) - RsiPeriod + 1, Len(d)))
           g == LastSum(Gains(v))
           l == LastSum(Losses(v))
       IN  IF l = 0 THEN <<100, 1>> ELSE <<100 * g, g + l>>

\* calculate_rsi: 100 - 100 / (1 + gain / loss); both averages have the same
\* denominator.
Rsi(v) ==
  IF Len(v) =< RsiPeriod THEN <<>>
  ELSE LET g == Smoothed(Gains(v), RsiPeriod)[1]
           l == Smoothed(Losses(v), RsiPeriod)[1]
       IN  IF l = 0 THEN <<100, 1>> ELSE <<100 * g, g + l>>

\* calculate_macd: the difference of two averages, from the slow one's start.
Minus(a, b) == <<a[1] * b[2] - b[1] * a[2], a[2] * b[2]>>

MacdLine(v) ==
  LET fast == EmaLine(v, FastPeriod)
      slow == EmaLine(v, SlowPeriod)
  IN  [i \in DOMAIN slow |-> Minus(fast[i + SlowPeriod - FastPeriod], slow[i])]

\* The numerators over the last denominator, of which the others are divisors.
Common(line) == [i \in DOMAIN line |-> line[i][1] * (Last(line)[2] \div line[i][2])]

SignalLine(v) ==
  LET macd == MacdLine(v)
      avg  == EmaLine(Common(macd), SignalPeriod)
  IN  [i \in DOMAIN avg |-> <<avg[i][1], avg[i][2] * Last(macd)[2]>>]

TrueRange(s, i) ==
  LET high == s[i].high low == s[i].low
      Abs(x) == IF x < 0 THEN -x ELSE x
  IN  IF i = 1 THEN high - low
      ELSE Max({high - low, Abs(high - s[i - 1].close), Abs(low - s[i - 1].close)})

\* calculate_atr
AtrLine(s) ==
  IF Len(s) < 2 THEN <<>> ELSE EmaLine([i \in DOMAIN s |-> TrueRange(s, i)], AtrPeriod)

\* calculate_vwap, the last value: of three times the typical price.
Vwap(s) ==
  LET traded == Total([i \in DOMAIN s |-> (s[i].high + s[i].low + s[i].close) * s[i].volume])
      volume == Total([i \in DOMAIN s |-> s[i].volume])
  IN  IF volume = 0 THEN <<0, 1>> ELSE <<traded, 3 * volume>>

(***************************************************************************)
(* Properties.                                                             *)
(***************************************************************************)

\* The average of all of v by its definition, a weight for each value: a
\* share of 2 / (period + 1) for the newest, what is left for those before.
Weighted(v, period) ==
  LET n == Len(v) - period
      Weight(j) == 2 * Power(period - 1, n - j) * Power(period + 1, j - 1)
  IN  <<Total(SubSeq(v, 1, period)) * Power(period - 1, n)
          + period * Total([j \in 1 .. n |-> Weight(j) * v[period + j]]),
        period * Power(period + 1, n)>>

\* The moving average in closed form.
EmaIsWeighted ==
  LET v   == Closes(bars)
      ema == EmaLine(v, EmaPeriod)
  IN  /\ ema # <<>> <=> Len(bars) >= EmaPeriod
      /\ ema # <<>> => Last(ema) = Weighted(v, EmaPeriod)

\* Between 0 and 100, and 100 exactly as long as no close of the answer fell.
RsiTellsLosses ==
  LET v   == Closes(bars)
      rsi == Rsi(v)
  IN  /\ rsi # <<>> <=> Len(bars) >= RsiPeriod + 1
      /\ rsi # <<>> =>
           /\ 0 =< rsi[1] /\ rsi[1] =< 100 * rsi[2]
           /\ rsi[1] = 100 * rsi[2] <=> \A i \in 1 .. Len(v) - 1 : v[i] =< v[i + 1]

\* Below zero, and its average too, after closes that only fell.
MacdFollowsFall ==
  LET v      == Closes(bars)
      signal == SignalLine(v)
  IN  /\ signal # <<>> <=> Len(bars) >= SlowPeriod + SignalPeriod - 1
      /\ signal # <<>> /\ (\A i \in 1 .. Len(v) - 1 : v[i + 1] < v[i]) =>
           Last(MacdLine(v))[1] < 0 /\ Last(signal)[1] < 0

LowestOf(set)  == Min({bars[i].low : i \in set})
HighestOf(set) == Max({bars[i].high : i \in set})

\* No larger than the range of all candles, no smaller than the smallest.
AtrFitsRanges ==
  LET atr == AtrLine(bars)
      a   == Last(atr)
      All == DOMAIN bars
  IN  /\ atr # <<>> <=> Len(bars) >= Max({2, AtrPeriod})
      /\ atr # <<>> =>
           /\ a[1] >= a[2] * Min({bars[i].high - bars[i].low : i \in All})
           /\ a[1] =< a[2] * (HighestOf(All) - LowestOf(All))

\* Between the lowest low and the highest high of the candles with volume.
VwapFitsPrices ==
  LET vwap   == Vwap(bars)
      Active == {i \in DOMAIN bars : bars[i].volume > 0}
  IN  Active # {} => /\ vwap[1] >= vwap[2] * LowestOf(Active)
                     /\ vwap[1] =< vwap[2] * HighestOf(Active)

\* Each indicator is what its definition says, and is there from the first
\* candle on that completes it: the moving average in closed form; RSI between
\* 0 and 100, and 100 exactly as long as no close of the answer fell, also in
\* a market that does not move at all; the MACD below zero after closes that
\* only fell; the ATR no larger than the range of all candles and no smaller
\* than the smallest; VWAP between the lowest low and the highest high of the
\* candles that were traded (indicators.py:18-107, volume.py:15-33).
IndicatorsMatchDefinitions ==
  /\ EmaIsWeighted
  /\ RsiTellsLosses
  /\ MacdFollowsFall
  /\ AtrFitsRanges
  /\ VwapFitsPrices
==============================================================================
