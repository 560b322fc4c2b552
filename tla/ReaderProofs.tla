---------------------------- MODULE ReaderProofs ----------------------------
(***************************************************************************)
(* Proofs about what the readers of the API are told, for any candles, any *)
(* window, any book and any sockets: the swings, gaps and breaks of the    *)
(* market structure agree (MarketStructure), the metrics of a backtest     *)
(* agree with its books (Backtest), the value area holds its share of the  *)
(* volume (VolumeProfile), the measures of a book agree with it            *)
(* (OrderFlow), the indicators are what their definitions say              *)
(* (Indicators), and the registry of the streams counts exactly the        *)
(* sockets that are served (WsStreams).                                    *)
(***************************************************************************)
EXTENDS MarketStructure, Backtest, VolumeProfile, OrderFlow, Indicators, WsStreams,
        FiniteSetTheorems, WellFoundedInduction, TLAPS

-----------------------------------------------------------------------------
(* The window of candles.                                                  *)

BarsTypeOK == bars \in Seq(Bars) /\ Len(bars) <= Limit

\* The window moves by at most one candle, and only its last one is new.
LEMMA WindowMoves ==
    ASSUME LimitAssumption, BarsTypeOK, NewBar
    PROVE  /\ BarsTypeOK'
           /\ Shift \in {0, 1} /\ Len(bars) \in Nat /\ Len(bars') \in Nat
           /\ Len(bars') = Len(bars) + 1 - Shift
           /\ \A i \in 1 .. Len(bars') - 1 : bars'[i] = bars[i + Shift]
<1>1. PICK b \in Bars : bars' = Newest(Append(bars, b))
  BY DEF NewBar
<1> DEFINE s == Append(bars, b)
<1>2. /\ bars \in Seq(Bars) /\ Len(bars) \in Nat /\ Limit \in Nat \ {0} /\ Len(bars) <= Limit
  BY DEF BarsTypeOK, LimitAssumption
<1>3. /\ s \in Seq(Bars) /\ Len(s) = Len(bars) + 1
      /\ \A i \in 1 .. Len(bars) : s[i] = bars[i]
  BY <1>2
<1> HIDE DEF s
<1>4. CASE Len(s) > Limit
  <2>1. bars' = Tail(s)
    BY <1>1, <1>4 DEF Newest, s
  <2>2. /\ Tail(s) \in Seq(Bars) /\ Len(Tail(s)) = Len(s) - 1
        /\ \A i \in 1 .. Len(s) - 1 : Tail(s)[i] = s[i + 1]
    BY <1>2, <1>3
  <2>3. Len(bars') = Len(bars) /\ Shift = 1
    BY <1>2, <1>3, <2>1, <2>2 DEF Shift
  <2>4. \A i \in 1 .. Len(bars') - 1 : bars'[i] = bars[i + 1]
    BY <1>2, <1>3, <2>1, <2>2, <2>3
  <2>5. QED BY <1>2, <2>1, <2>2, <2>3, <2>4 DEF BarsTypeOK
<1>5. CASE ~(Len(s) > Limit)
  <2>1. bars' = s
    BY <1>1, <1>5 DEF Newest, s
  <2>2. Shift = 0
    BY <1>2, <1>3, <2>1 DEF Shift
  <2>3. QED BY <1>2, <1>3, <1>5, <2>1, <2>2 DEF BarsTypeOK
<1>6. QED BY <1>4, <1>5

-----------------------------------------------------------------------------
(* Swings.                                                                 *)

\* Whether candle i is a swing is decided by the candles around it alone.
LEMMA SwingsMove ==
    ASSUME SidesAssumption, LimitAssumption, BarsTypeOK, NewBar
    PROVE  /\ \A i \in Confirmed(bars) :
                 Moved(i) > Left => Moved(i) \in Confirmed(bars') /\ Moved(i) + Shift = i
           /\ \A i \in Confirmed(bars') :
                 i = Len(bars') - Right \/ i + Shift \in Confirmed(bars)
           /\ \A i \in Confirmed(bars') : i + Shift \in Confirmed(bars) =>
                 /\ bars'[i] = bars[i + Shift]
                 /\ \A j \in Around(i) : j + Shift \in Around(i + Shift)
                                         /\ bars'[j] = bars[j + Shift]
                 /\ \A j \in Around(i + Shift) : j - Shift \in Around(i)
                                                 /\ bars'[j - Shift] = bars[j]
<1>1. Left \in Nat /\ Right \in Nat
  BY DEF SidesAssumption
<1>2. /\ Shift \in {0, 1} /\ Len(bars) \in Nat /\ Len(bars') \in Nat
      /\ Len(bars') = Len(bars) + 1 - Shift
      /\ \A i \in 1 .. Len(bars') - 1 : bars'[i] = bars[i + Shift]
  BY WindowMoves
<1>3. /\ \A i \in Confirmed(bars) :
            Moved(i) > Left => Moved(i) \in Confirmed(bars') /\ Moved(i) + Shift = i
      /\ \A i \in Confirmed(bars') :
            i = Len(bars') - Right \/ i + Shift \in Confirmed(bars)
  <2>1. /\ Shift \in {0, 1} /\ Len(bars) \in Nat /\ Len(bars') \in Nat
        /\ Len(bars') = Len(bars) + 1 - Shift
    BY <1>2
  <2>2. ASSUME NEW i \in Confirmed(bars), Moved(i) > Left
        PROVE  Moved(i) \in Confirmed(bars') /\ Moved(i) + Shift = i
    BY <1>1, <2>1, <2>2 DEF Confirmed, Moved
  <2>3. ASSUME NEW i \in Confirmed(bars'), i # Len(bars') - Right
        PROVE  i + Shift \in Confirmed(bars)
    BY <1>1, <2>1, <2>3 DEF Confirmed
  <2>4. QED BY <2>2, <2>3
<1>4. ASSUME NEW i \in Confirmed(bars'), i + Shift \in Confirmed(bars)
      PROVE  /\ bars'[i] = bars[i + Shift]
             /\ \A j \in Around(i) : j + Shift \in Around(i + Shift)
                                     /\ bars'[j] = bars[j + Shift]
             /\ \A j \in Around(i + Shift) : j - Shift \in Around(i)
                                             /\ bars'[j - Shift] = bars[j]
  <2>1. /\ i \in Nat /\ i > Left /\ i + Right <= Len(bars') - 1
    BY <1>1, <1>2, <1>4 DEF Confirmed
  <2>2. i \in 1 .. Len(bars') - 1
    BY <1>1, <1>2, <2>1
  <2>3. \A j \in Around(i) : j \in 1 .. Len(bars') - 1 /\ j + Shift \in Around(i + Shift)
    BY <1>1, <1>2, <2>1 DEF Around
  <2>4. \A j \in Around(i + Shift) : j - Shift \in 1 .. Len(bars') - 1 /\ j - Shift \in Around(i)
                                     /\ j - Shift + Shift = j
    BY <1>1, <1>2, <2>1 DEF Around
  <2>5. QED BY <1>2, <2>2, <2>3, <2>4
<1>5. QED BY <1>3, <1>4

LEMMA SwingsAgree ==
    ASSUME SidesAssumption, LimitAssumption, BarsTypeOK, NewBar,
           NEW i \in Confirmed(bars'), i + Shift \in Confirmed(bars)
    PROVE  /\ i \in SwingHighs(bars') <=> i + Shift \in SwingHighs(bars)
           /\ i \in SwingLows(bars') <=> i + Shift \in SwingLows(bars)
<1>1. /\ bars'[i] = bars[i + Shift]
      /\ \A j \in Around(i) : j + Shift \in Around(i + Shift) /\ bars'[j] = bars[j + Shift]
      /\ \A j \in Around(i + Shift) : j - Shift \in Around(i) /\ bars'[j - Shift] = bars[j]
  BY SwingsMove
<1>2. i \in SwingHighs(bars') <=> i + Shift \in SwingHighs(bars)
  BY <1>1 DEF SwingHighs
<1>3. i \in SwingLows(bars') <=> i + Shift \in SwingLows(bars)
  BY <1>1 DEF SwingLows
<1>4. QED BY <1>2, <1>3

\* One step of SwingsNeverRepaint.
LEMMA SwingsStep ==
    ASSUME SidesAssumption, LimitAssumption, BarsTypeOK, NewBar
    PROVE  \A highs \in BOOLEAN :
             LET old == IF highs THEN SwingHighs(bars) ELSE SwingLows(bars)
                 new == IF highs THEN SwingHighs(bars') ELSE SwingLows(bars')
             IN  /\ \A i \in old : Moved(i) > Left => Moved(i) \in new
                 /\ \A i \in new : i = Len(bars') - Right \/ i + Shift \in old
<1>1. /\ SwingHighs(bars) \subseteq Confirmed(bars) /\ SwingLows(bars) \subseteq Confirmed(bars)
      /\ SwingHighs(bars') \subseteq Confirmed(bars') /\ SwingLows(bars') \subseteq Confirmed(bars')
  BY DEF SwingHighs, SwingLows
<1>2. ASSUME NEW i \in Confirmed(bars), Moved(i) > Left
      PROVE  /\ i \in SwingHighs(bars) => Moved(i) \in SwingHighs(bars')
             /\ i \in SwingLows(bars) => Moved(i) \in SwingLows(bars')
  <2>1. Moved(i) \in Confirmed(bars') /\ Moved(i) + Shift = i
    BY <1>2, SwingsMove
  <2>2. QED BY <2>1, SwingsAgree
<1>3. ASSUME NEW i \in Confirmed(bars'), i # Len(bars') - Right
      PROVE  /\ i \in SwingHighs(bars') => i + Shift \in SwingHighs(bars)
             /\ i \in SwingLows(bars') => i + Shift \in SwingLows(bars)
  <2>1. i + Shift \in Confirmed(bars)
    BY <1>3, SwingsMove
  <2>2. QED BY <2>1, SwingsAgree
<1>4. QED BY <1>1, <1>2, <1>3

-----------------------------------------------------------------------------
(* Gaps.                                                                   *)

\* What a gap is.
LEMMA GapFacts ==
    ASSUME NEW s, NEW g \in Gaps(s), Len(s) \in Nat
    PROVE  /\ g.index \in 3 .. Len(s) /\ g.bullish \in BOOLEAN
           /\ g.bullish => /\ Bullish(s, g.index)
                           /\ g.top = s[g.index].low /\ g.bottom = s[g.index - 2].high
           /\ ~g.bullish => /\ Bearish(s, g.index)
                            /\ g.top = s[g.index - 2].low /\ g.bottom = s[g.index].high
           /\ g = [index |-> g.index, bullish |-> g.bullish, top |-> g.top, bottom |-> g.bottom]
<1>1. CASE \E i \in 3 .. Len(s) : /\ Bullish(s, i)
             /\ g = [index |-> i, bullish |-> TRUE, top |-> s[i].low, bottom |-> s[i - 2].high]
  BY <1>1
<1>2. CASE \E i \in 3 .. Len(s) : /\ Bearish(s, i)
             /\ g = [index |-> i, bullish |-> FALSE, top |-> s[i - 2].low, bottom |-> s[i].high]
  BY <1>2
<1>3. QED BY <1>1, <1>2 DEF Gaps

\* A gap of the candles i and i-2 is among the gaps.
LEMMA GapIsThere ==
    ASSUME NEW s, NEW i \in 3 .. Len(s)
    PROVE  /\ Bullish(s, i) => [index |-> i, bullish |-> TRUE, top |-> s[i].low,
                                bottom |-> s[i - 2].high] \in Gaps(s)
           /\ Bearish(s, i) => [index |-> i, bullish |-> FALSE, top |-> s[i - 2].low,
                                bottom |-> s[i].high] \in Gaps(s)
  BY DEF Gaps

\* One step of GapsStayFilled.
LEMMA GapsStep ==
    ASSUME LimitAssumption, BarsTypeOK, NewBar
    PROVE  \A g \in ActiveGaps(bars') :
             g.index = Len(bars') \/ [g EXCEPT !.index = @ + Shift] \in ActiveGaps(bars)
<1>1. SUFFICES ASSUME NEW g \in ActiveGaps(bars'), g.index # Len(bars')
               PROVE  [g EXCEPT !.index = @ + Shift] \in ActiveGaps(bars)
  OBVIOUS
<1>2. /\ Shift \in {0, 1} /\ Len(bars) \in Nat /\ Len(bars') \in Nat
      /\ Len(bars') = Len(bars) + 1 - Shift
      /\ \A i \in 1 .. Len(bars') - 1 : bars'[i] = bars[i + Shift]
  BY WindowMoves
<1> DEFINE i == g.index
           k == i + Shift
           moved == [index |-> k, bullish |-> g.bullish, top |-> g.top, bottom |-> g.bottom]
<1>3. g \in Gaps(bars') /\ ~Mitigated(bars', g)
  BY DEF ActiveGaps
<1>4. /\ i \in 3 .. Len(bars') /\ g.bullish \in BOOLEAN
      /\ g.bullish => /\ Bullish(bars', i)
                      /\ g.top = bars'[i].low /\ g.bottom = bars'[i - 2].high
      /\ ~g.bullish => /\ Bearish(bars', i)
                       /\ g.top = bars'[i - 2].low /\ g.bottom = bars'[i].high
      /\ g = [index |-> i, bullish |-> g.bullish, top |-> g.top, bottom |-> g.bottom]
  BY <1>2, <1>3, GapFacts
<1>5. [g EXCEPT !.index = @ + Shift] = moved
  BY <1>4
<1>6. /\ k \in 3 .. Len(bars) /\ i - 2 \in 1 .. Len(bars') - 1 /\ i \in 1 .. Len(bars') - 1
      /\ i - 2 + Shift = k - 2
  BY <1>1, <1>2, <1>4
<1>7. bars'[i] = bars[k] /\ bars'[i - 2] = bars[k - 2]
  <2>1. bars'[i - 2] = bars[i - 2 + Shift]
    BY <1>2, <1>6
  <2>2. QED BY <1>2, <1>6, <2>1
<1>8. moved \in Gaps(bars)
  <2>1. CASE g.bullish = TRUE
    <3>1. Bullish(bars, k)
      BY <1>4, <1>7, <2>1 DEF Bullish
    <3>2. moved = [index |-> k, bullish |-> TRUE, top |-> bars[k].low, bottom |-> bars[k - 2].high]
      BY <1>4, <1>7, <2>1
    <3>3. QED BY <1>6, <3>1, <3>2, GapIsThere
  <2>2. CASE g.bullish = FALSE
    <3>1. Bearish(bars, k)
      BY <1>4, <1>7, <2>2 DEF Bearish
    <3>2. moved = [index |-> k, bullish |-> FALSE, top |-> bars[k - 2].low, bottom |-> bars[k].high]
      BY <1>4, <1>7, <2>2
    <3>3. QED BY <1>6, <3>1, <3>2, GapIsThere
  <2>3. QED BY <1>4, <2>1, <2>2
\* A candle that fills it in the old window fills it in the new one.
<1>9. ~Mitigated(bars, moved)
  <2>1. SUFFICES ASSUME NEW l \in k + 1 .. Len(bars),
                        IF g.bullish THEN bars[l].low =< g.top ELSE bars[l].high >= g.bottom
                 PROVE  FALSE
    BY DEF Mitigated
  <2>2. /\ l - Shift \in 1 .. Len(bars') - 1 /\ l - Shift \in i + 1 .. Len(bars')
        /\ l - Shift + Shift = l
    BY <1>2, <1>4, <1>6
  <2>3. bars'[l - Shift] = bars[l]
    BY <1>2, <2>2
  <2>4. QED BY <1>3, <2>1, <2>2, <2>3 DEF Mitigated
<1>10. QED BY <1>5, <1>8, <1>9 DEF ActiveGaps

-----------------------------------------------------------------------------
(* The theorems about the structure.                                       *)

LEMMA WindowType == CandlesSpec => []BarsTypeOK
<1>1. CandlesInit => BarsTypeOK
  <2>1. ASSUME CandlesInit PROVE BarsTypeOK
    BY <2>1, LimitAssumption DEF CandlesInit, BarsTypeOK, LimitAssumption
  <2>2. QED BY <2>1
<1>2. BarsTypeOK /\ [NewBar]_bars => BarsTypeOK'
  <2>1. ASSUME BarsTypeOK, NewBar PROVE BarsTypeOK'
    BY <2>1, WindowMoves, LimitAssumption
  <2>2. QED BY <2>1 DEF BarsTypeOK
<1>3. QED BY <1>1, <1>2, PTL DEF CandlesSpec

\* However the window moves, swings are neither withdrawn nor backfilled
\* (structure.py:56-75).
THEOREM NoRepaint == CandlesSpec => SwingsNeverRepaint
<1>1. ASSUME BarsTypeOK, [NewBar]_bars
      PROVE  [\A highs \in BOOLEAN :
               LET old == IF highs THEN SwingHighs(bars) ELSE SwingLows(bars)
                   new == IF highs THEN SwingHighs(bars') ELSE SwingLows(bars')
               IN  /\ \A i \in old : Moved(i) > Left => Moved(i) \in new
                   /\ \A i \in new : i = Len(bars') - Right \/ i + Shift \in old]_bars
  BY <1>1, SwingsStep, SidesAssumption, LimitAssumption
<1>2. QED BY <1>1, WindowType, PTL DEF CandlesSpec, SwingsNeverRepaint

\* A filled gap stays filled in every later answer (structure.py:102-132).
THEOREM GapsDoNotReopen == CandlesSpec => GapsStayFilled
<1>1. ASSUME BarsTypeOK, [NewBar]_bars
      PROVE  [\A g \in ActiveGaps(bars') :
                g.index = Len(bars') \/ [g EXCEPT !.index = @ + Shift] \in ActiveGaps(bars)]_bars
  BY <1>1, GapsStep, LimitAssumption
<1>2. QED BY <1>1, WindowType, PTL DEF CandlesSpec, GapsStayFilled

\* The active gaps of one answer leave room for the price: support below
\* resistance (structure.py:121-132, 219).
THEOREM GapsLeaveRoom == CandlesSpec => []SupportBelowResistance
<1>1. ASSUME BarsTypeOK PROVE SupportBelowResistance
  <2>1. SUFFICES ASSUME NEW g \in ActiveGaps(bars), NEW h \in ActiveGaps(bars),
                        g.bullish, ~h.bullish
                 PROVE  g.top < h.bottom
    BY DEF SupportBelowResistance
  <2> DEFINE i == g.index
             j == h.index
  <2>2. Len(bars) \in Nat
    BY <1>1 DEF BarsTypeOK
  <2>3. /\ i \in 3 .. Len(bars) /\ Bullish(bars, i) /\ g.top = bars[i].low
        /\ j \in 3 .. Len(bars) /\ Bearish(bars, j) /\ h.bottom = bars[j].high
        /\ ~Mitigated(bars, g) /\ ~Mitigated(bars, h)
    <3>1. g \in Gaps(bars) /\ h \in Gaps(bars) /\ ~Mitigated(bars, g) /\ ~Mitigated(bars, h)
      BY DEF ActiveGaps
    <3>2. QED BY <2>1, <2>2, <3>1, GapFacts
  <2>4. \A k \in 1 .. Len(bars) :
           bars[k].low \in Nat /\ bars[k].high \in Nat /\ bars[k].low <= bars[k].high
    <3>1. ASSUME NEW k \in 1 .. Len(bars)
          PROVE  bars[k].low \in Nat /\ bars[k].high \in Nat /\ bars[k].low <= bars[k].high
      <4>1. bars[k] \in Bars
        BY <1>1 DEF BarsTypeOK
      <4>2. /\ {bars[k].open, bars[k].high, bars[k].low, bars[k].close} \subseteq Nat \ {0}
            /\ bars[k].low <= bars[k].open /\ bars[k].open <= bars[k].high
        BY <4>1, BarsAssumption DEF BarsAssumption
      <4>3. QED BY <4>2
    <3>2. QED BY <3>1
  <2>5. /\ \A k \in i + 1 .. Len(bars) : bars[k].low > bars[i].low
        /\ \A k \in j + 1 .. Len(bars) : bars[k].high < bars[j].high
    <3>1. \A k \in i + 1 .. Len(bars) : ~(bars[k].low <= bars[i].low)
      BY <2>1, <2>3 DEF Mitigated
    <3>2. \A k \in j + 1 .. Len(bars) : ~(bars[k].high >= bars[j].high)
      BY <2>1, <2>3 DEF Mitigated
    <3>3. QED BY <2>2, <2>3, <2>4, <3>1, <3>2
  <2> HIDE DEF i, j
  <2>6. CASE i = j
    <3>1. i - 2 \in 1 .. Len(bars)
      BY <2>2, <2>3
    <3>2. bars[i].low > bars[i - 2].high /\ bars[i].high < bars[i - 2].low
      BY <2>3, <2>6 DEF Bullish, Bearish
    <3>3. QED BY <2>2, <2>3, <2>4, <3>1, <3>2
  <2>7. CASE i < j
    <3>1. bars[j].low > bars[i].low
      BY <2>2, <2>3, <2>5, <2>7
    <3>2. QED BY <2>2, <2>3, <2>4, <3>1
  <2>8. CASE j < i
    <3>1. bars[i].high < bars[j].high
      BY <2>2, <2>3, <2>5, <2>8
    <3>2. QED BY <2>2, <2>3, <2>4, <3>1
  <2>9. QED BY <2>2, <2>3, <2>6, <2>7, <2>8
<1>2. QED BY <1>1, WindowType, PTL

-----------------------------------------------------------------------------
(* Loops. Induction is stated on a set of numbers in place of a predicate. *)

\* A set of natural numbers that lacks one lacks a least one.
LEMMA InductionOn ==
    ASSUME NEW S, 0 \in S, \A n \in Nat : n \in S => n + 1 \in S
    PROVE  Nat \subseteq S
<1> DEFINE T == Nat \ S
           R == {ss \in Nat \X Nat : ss[1] < ss[2]}
<1>1. SUFFICES ASSUME T # {} PROVE FALSE
  OBVIOUS
<1>2. IsWellFoundedOn(R, Nat)
  BY NatLessThanWellFounded DEF OpToRel
<1>3. \A x, y \in Nat : y < x => <<y, x>> \in R
  OBVIOUS
<1> HIDE DEF R
<1>4. PICK x \in T : \A y \in T : ~ (<<y, x>> \in R)
  BY <1>1, <1>2, WFMin
<1>5. x \in Nat /\ x # 0 /\ x - 1 \in Nat /\ x - 1 < x
  BY <1>4
<1>6. x - 1 \notin T
  BY <1>3, <1>4, <1>5
<1>7. QED BY <1>4, <1>5, <1>6

LEMMA InductionUpTo ==
    ASSUME NEW N \in Nat, NEW D, 0 \in D, \A n \in 1 .. N : n - 1 \in D => n \in D
    PROVE  0 .. N \subseteq D
<1> DEFINE T == {n \in Nat : n <= N => n \in D}
<1>1. 0 \in T
  OBVIOUS
<1>2. ASSUME NEW n \in Nat, n \in T PROVE n + 1 \in T
  <2>1. SUFFICES ASSUME n + 1 <= N PROVE n + 1 \in D
    OBVIOUS
  <2>2. n \in D /\ n + 1 \in 1 .. N /\ (n + 1) - 1 = n
    BY <1>2, <2>1
  <2>3. QED BY <2>2
<1> HIDE DEF T
<1>3. Nat \subseteq T
  BY <1>1, <1>2, InductionOn
<1>4. QED BY <1>3 DEF T

\* What a loop of N rounds computes, when every round keeps its states in S.
Loop(g, N, base, step) ==
    g[0] = base /\ \A n \in 1 .. N : g[n] = step[n][g[n - 1]]

LEMMA Recursion ==
    ASSUME NEW S, NEW base \in S, NEW N \in Nat, NEW step \in [1 .. N -> [S -> S]]
    PROVE  \E g \in [0 .. N -> S] : Loop(g, N, base, step)
<1> DEFINE D == {n \in Nat : n <= N => \E g \in [0 .. n -> S] : Loop(g, n, base, step)}
<1>1. 0 \in D
  <2> DEFINE g == [k \in 0 .. 0 |-> base]
  <2>1. g \in [0 .. 0 -> S] /\ Loop(g, 0, base, step)
    BY DEF Loop
  <2>2. QED BY <2>1
<1>2. ASSUME NEW n \in Nat, n \in D PROVE n + 1 \in D
  <2>1. SUFFICES ASSUME n + 1 <= N
                 PROVE  \E g \in [0 .. n + 1 -> S] : Loop(g, n + 1, base, step)
    OBVIOUS
  <2>2. PICK h \in [0 .. n -> S] : Loop(h, n, base, step)
    BY <1>2, <2>1
  <2> DEFINE last == step[n + 1][h[n]]
             g    == [k \in 0 .. n + 1 |-> IF k = n + 1 THEN last ELSE h[k]]
  <2>3. step[n + 1] \in [S -> S] /\ h[n] \in S
    BY <2>1
  <2>4. last \in S
    BY <2>3
  <2>5. g \in [0 .. n + 1 -> S]
    <3> HIDE DEF last
    <3>1. QED BY <2>4
  <2>6. g[0] = base
    BY <2>2 DEF Loop
  <2>7. ASSUME NEW k \in 1 .. n + 1 PROVE g[k] = step[k][g[k - 1]]
    <3>1. CASE k = n + 1
      BY <3>1
    <3>2. CASE k # n + 1
      <4>1. k \in 1 .. n /\ k - 1 \in 0 .. n /\ k - 1 # n + 1
        BY <3>2
      <4>2. h[k] = step[k][h[k - 1]]
        BY <2>2, <4>1 DEF Loop
      <4>3. QED BY <4>1, <4>2
    <3>3. QED BY <3>1, <3>2
  <2>8. Loop(g, n + 1, base, step)
    BY <2>6, <2>7 DEF Loop
  <2>9. QED BY <2>5, <2>8
<1> HIDE DEF D
<1>3. Nat \subseteq D
  BY <1>1, <1>2, InductionOn
<1>4. QED BY <1>3 DEF D

-----------------------------------------------------------------------------
(* The engine of a backtest.                                               *)

Trade  == [side : {"buy", "sell"}, price : Int]
Engine == [cash : Int, position : Int, trades : Seq(Trade), equity : Seq(Int)]

LEMMA FillType ==
    ASSUME MoneyAssumption, NEW side, NEW price \in Nat
    PROVE  Fill(side, price) \in Int
BY DEF MoneyAssumption, Fill

LEMMA ExecuteEffect ==
    ASSUME MoneyAssumption, NEW e \in Engine, NEW side \in {"buy", "sell"}, NEW price \in Nat
    PROVE  LET f == Fill(side, price)
               r == Execute(e, side, price)
           IN  /\ r \in Engine
               /\ r.cash = IF side = "buy" THEN e.cash - f ELSE e.cash + f
               /\ r.position = IF side = "buy" THEN e.position + 1 ELSE e.position - 1
               /\ r.trades = Append(e.trades, [side |-> side, price |-> f])
               /\ r.equity = e.equity
<1> DEFINE f == Fill(side, price)
           t == [side |-> side, price |-> f]
           sign == IF side = "buy" THEN 1 ELSE -1
<1>1. f \in Int
  BY FillType
<1> HIDE DEF f
<1>2. t \in Trade
  BY <1>1 DEF Trade
<1>3. Append(e.trades, t) \in Seq(Trade)
  BY <1>2 DEF Engine
<1>4. e.cash \in Int /\ e.position \in Int
  BY DEF Engine
<1>5. Execute(e, side, price) = [e EXCEPT !.cash = e.cash - sign * f, !.position = e.position + sign,
                                   !.trades = Append(e.trades, t)]
  BY DEF Execute, f
<1>6. e.cash - sign * f = IF side = "buy" THEN e.cash - f ELSE e.cash + f
  BY <1>1, <1>4
<1>7. e.position + sign = IF side = "buy" THEN e.position + 1 ELSE e.position - 1
  BY <1>4
<1>8. e.cash - sign * f \in Int /\ e.position + sign \in Int
  BY <1>1, <1>4, <1>6
<1> HIDE DEF t, sign
<1>9. Execute(e, side, price) \in Engine
  BY <1>3, <1>5, <1>8 DEF Engine
<1>10. QED BY <1>5, <1>6, <1>7, <1>9 DEF Engine, f, t

\* What one candle does to the engine.
OneCandle(e, b) == UpdatePortfolio(Signal(e, b), b.close)

LEMMA PortfolioEffect ==
    ASSUME MoneyAssumption, NEW e \in Engine, NEW price \in Nat
    PROVE  LET r == UpdatePortfolio(e, price)
           IN  /\ r \in Engine
               /\ r.cash = e.cash /\ r.position = e.position /\ r.trades = e.trades
               /\ r.equity = Append(e.equity, e.cash + e.position * price * Scale)
<1> DEFINE v == e.cash + e.position * price * Scale
<1>1. v \in Int
  BY DEF Engine, MoneyAssumption
<1> HIDE DEF v
<1>2. Append(e.equity, v) \in Seq(Int)
  BY <1>1 DEF Engine
<1>3. UpdatePortfolio(e, price) = [e EXCEPT !.equity = Append(e.equity, v)]
  BY DEF UpdatePortfolio, v
<1>4. UpdatePortfolio(e, price) \in Engine
  BY <1>2, <1>3 DEF Engine
<1>5. QED BY <1>3, <1>4 DEF Engine, v

LEMMA OneCandleType ==
    ASSUME MoneyAssumption, BarsAssumption, NEW e \in Engine, NEW b \in Bars
    PROVE  Signal(e, b) \in Engine /\ OneCandle(e, b) \in Engine
<1>1. b.close \in Nat
  BY DEF BarsAssumption
<1>2. Signal(e, b) \in Engine
  <2>1. Execute(e, "buy", b.close) \in Engine /\ Execute(e, "sell", b.close) \in Engine
    BY <1>1, ExecuteEffect
  <2>2. QED BY <2>1 DEF Signal
<1>3. QED BY <1>1, <1>2, PortfolioEffect DEF OneCandle

LEMMA EnginesRecur ==
    ASSUME MoneyAssumption, BarsAssumption, NEW s \in Seq(Bars)
    PROVE  /\ Engines(s) \in [0 .. Len(s) -> Engine]
           /\ Engines(s)[0] = NewEngine
           /\ \A n \in 1 .. Len(s) : Engines(s)[n] = OneCandle(Engines(s)[n - 1], s[n])
<1> DEFINE N == Len(s)
           step == [n \in 1 .. N |-> [e \in Engine |-> OneCandle(e, s[n])]]
<1>1. N \in Nat /\ \A n \in 1 .. N : s[n] \in Bars
  OBVIOUS
<1>2. NewEngine \in Engine
  BY DEF NewEngine, Engine, MoneyAssumption
<1>3. step \in [1 .. N -> [Engine -> Engine]]
  BY <1>1, OneCandleType
<1>4. PICK g \in [0 .. N -> Engine] : Loop(g, N, NewEngine, step)
  <2> HIDE DEF step, N
  <2>1. QED BY <1>1, <1>2, <1>3, Recursion
<1>5. \A n \in 1 .. N : n - 1 \in 0 .. N /\ g[n] = OneCandle(g[n - 1], s[n])
  <2>1. TAKE n \in 1 .. N
  <2>2. n - 1 \in 0 .. N
    BY <1>1
  <2>3. g[n - 1] \in Engine
    BY <1>4, <2>2
  <2>4. step[n][g[n - 1]] = OneCandle(g[n - 1], s[n])
    BY <2>3
  <2>5. g[n] = step[n][g[n - 1]]
    BY <1>4 DEF Loop
  <2>6. QED BY <2>2, <2>4, <2>5
<1>6. g = [n \in 0 .. N |-> IF n = 0 THEN NewEngine
                           ELSE UpdatePortfolio(Signal(g[n - 1], s[n]), s[n].close)]
  <2>1. \A n \in 0 .. N : g[n] = IF n = 0 THEN NewEngine
                           ELSE UpdatePortfolio(Signal(g[n - 1], s[n]), s[n].close)
    BY <1>1, <1>4, <1>5 DEF Loop, OneCandle
  <2> HIDE DEF step
  <2>2. QED BY <2>1
<1> DEFINE E == Engines(s)
<1>7. E = [n \in 0 .. N |-> IF n = 0 THEN NewEngine
                           ELSE UpdatePortfolio(Signal(E[n - 1], s[n]), s[n].close)]
  BY <1>6 DEF Engines
<1> HIDE DEF E
<1>8. E[0] = NewEngine /\ \A n \in 1 .. N : E[n] = OneCandle(E[n - 1], s[n])
  BY <1>1, <1>7 DEF OneCandle
<1> DEFINE D == {n \in 0 .. N : E[n] \in Engine}
<1>9. 0 \in D
  BY <1>1, <1>2, <1>8
<1>10. ASSUME NEW n \in 1 .. N, n - 1 \in D PROVE n \in D
  <2>1. E[n - 1] \in Engine /\ E[n] = OneCandle(E[n - 1], s[n])
    BY <1>8, <1>10
  <2>2. QED BY <1>1, <2>1, OneCandleType
<1> HIDE DEF D
<1>11. 0 .. N \subseteq D
  BY <1>1, <1>9, <1>10, InductionUpTo
<1>12. \A n \in 0 .. N : E[n] \in Engine
  BY <1>11 DEF D
<1>13. E \in [0 .. N -> Engine]
  BY <1>7, <1>12
<1>14. QED BY <1>8, <1>13 DEF E

-----------------------------------------------------------------------------
(* The drawdown: one pass finds the worst fall.                            *)

LEMMA TimesMonotone ==
    ASSUME NEW x \in Int, NEW y \in Int, NEW p \in Nat, x <= y
    PROVE  x * p <= y * p /\ x * p \in Int /\ y * p \in Int
<1> DEFINE d == y - x
<1>1. d \in Nat /\ y = x + d
  OBVIOUS
<1> HIDE DEF d
<1>2. y * p = x * p + d * p /\ d * p \in Nat
  BY <1>1
<1>3. QED BY <1>2

LEMMA TimesCancel ==
    ASSUME NEW x \in Int, NEW y \in Int, NEW n \in Nat \ {0}, x * n <= y * n
    PROVE  x <= y
<1>1. SUFFICES ASSUME x >= y + 1 PROVE FALSE
  OBVIOUS
<1>2. (y + 1) * n <= x * n
  BY <1>1, TimesMonotone
<1>3. (y + 1) * n = y * n + n
  OBVIOUS
<1>4. y * n \in Int /\ x * n \in Int
  OBVIOUS
<1>5. QED BY <1>2, <1>3, <1>4

\* The worst fall so far is f / o, and another one of x from a is no worse; a
\* fall of w from p that is worse than f / o is worse than that one, too.
LEMMA NewWorst ==
    ASSUME NEW x \in Int, NEW a \in Nat, NEW f \in Nat, NEW o \in Nat \ {0},
           NEW w \in Int, NEW p \in Nat \ {0},
           x * o <= f * a, f * p <= w * o
    PROVE  x * p <= w * a
<1>1. (x * o) * p <= (f * a) * p
  BY TimesMonotone
<1>2. (f * p) * a <= (w * o) * a
  BY TimesMonotone
<1>3. (x * o) * p = (x * p) * o
  OBVIOUS
<1>4. (w * o) * a = (w * a) * o
  OBVIOUS
<1>5. (f * a) * p = (f * p) * a
  OBVIOUS
<1>6. /\ (x * p) * o \in Int /\ (w * a) * o \in Int /\ (f * p) * a \in Int
      /\ x * p \in Int /\ w * a \in Int
  OBVIOUS
<1> DEFINE xp == x * p
           wa == w * a
           xpo == xp * o
           wao == wa * o
           fpa == (f * p) * a
<1>7. xpo <= fpa
  BY <1>1, <1>3, <1>5
<1>8. fpa <= wao
  BY <1>2, <1>4
<1>9. xpo <= wao
  <2>1. xpo \in Int /\ wao \in Int /\ fpa \in Int
    BY <1>6
  <2> HIDE DEF xpo, wao, fpa
  <2>2. QED BY <1>7, <1>8, <2>1
<1>10. xp \in Int /\ wa \in Int
  BY <1>6
<1> HIDE DEF xp, wa
<1>11. xp <= wa
  BY <1>9, <1>10, TimesCancel
<1>12. QED BY <1>11 DEF xp, wa

\* To the same point, the fall from a peak is worse than from a lower point.
LEMMA PeakIsWorst ==
    ASSUME NEW a \in Nat, NEW p \in Nat, NEW v \in Nat, a <= p
    PROVE  (a - v) * p <= (p - v) * a
<1>1. (a - v) * p = a * p - v * p
  OBVIOUS
<1>2. (p - v) * a = a * p - v * a
  OBVIOUS
<1>3. a * v <= p * v
  BY TimesMonotone
<1>4. a * v = v * a /\ p * v = v * p
  OBVIOUS
<1>5. v * a \in Int /\ v * p \in Int /\ a * p \in Int
  OBVIOUS
<1>6. QED BY <1>1, <1>2, <1>3, <1>4, <1>5

\* If the fall from the peak is no worse than f / o, that from a lower point
\* is not either.
LEMMA PeakNotWorse ==
    ASSUME NEW a \in Nat, NEW p \in Nat, NEW v \in Nat, a <= p,
           NEW f \in Nat, NEW o \in Nat \ {0}, (p - v) * o <= f * p
    PROVE  (a - v) * o <= f * a
<1>1. (a - v) * o = a * o - v * o /\ (p - v) * o = p * o - v * o
  OBVIOUS
<1>2. v * o \in Nat /\ a * o \in Nat /\ p * o \in Nat /\ f * a \in Nat /\ f * p \in Nat
  OBVIOUS
<1>3. CASE o <= f
  <2>1. o * a <= f * a
    BY <1>3, TimesMonotone
  <2>2. o * a = a * o
    OBVIOUS
  <2>3. QED BY <1>1, <1>2, <2>1, <2>2
<1>4. CASE ~(o <= f)
  <2>1. o - f \in Nat
    BY <1>4
  <2>2. a * (o - f) <= p * (o - f)
    BY <2>1, TimesMonotone
  <2>3. a * (o - f) = a * o - f * a
    OBVIOUS
  <2>4. p * (o - f) = p * o - f * p
    OBVIOUS
  <2>5. QED BY <1>1, <1>2, <2>2, <2>3, <2>4
<1>5. QED BY <1>3, <1>4

Worst == [peak : Int, fall : Int, of : Int]

\* Nothing fell further than d in the first n points of the curve, and one
\* fall was as far.
Falls(q, n) == {p \in (1 .. n) \X (1 .. n) : p[1] =< p[2] /\ q[p[1]] > 0}
IsPeak(q, d, n) ==
    /\ d.peak \in Nat \ {0} /\ d.fall \in Nat /\ d.of \in Nat \ {0}
    /\ \A i \in 1 .. n : q[i] <= d.peak
    /\ \E i \in 1 .. n : q[i] = d.peak
IsWorst(q, d, n) ==
    /\ \A p \in Falls(q, n) : (q[p[1]] - q[p[2]]) * d.of <= d.fall * q[p[1]]
    /\ \E p \in Falls(q, n) : (q[p[1]] - q[p[2]]) * d.of = d.fall * q[p[1]]

Falling(p, v, d) == (p - v) * d.of > d.fall * p

Higher(d, v) == IF v > d.peak THEN v ELSE d.peak
Deeper(d, v) == Higher(d, v) > 0 /\ Falling(Higher(d, v), v, d)
Goes(r, d, v) == r.fall = Higher(d, v) - v /\ r.of = Higher(d, v)
Stays(r, d)   == r.fall = d.fall /\ r.of = d.of

LEMMA DrawdownEffect ==
    ASSUME NEW d \in Worst, NEW v \in Int
    PROVE  /\ Drawdown(d, v) \in Worst /\ Drawdown(d, v).peak = Higher(d, v)
           /\ Deeper(d, v) => Goes(Drawdown(d, v), d, v)
           /\ ~Deeper(d, v) => Stays(Drawdown(d, v), d)
<1> DEFINE p == Higher(d, v)
           r == Drawdown(d, v)
<1>1. p \in Int
  BY DEF Worst, Higher
<1>2. r = IF Deeper(d, v) THEN [peak |-> p, fall |-> p - v, of |-> p]
          ELSE [d EXCEPT !.peak = p]
  BY DEF Drawdown, Falling, Deeper, Higher
<1> HIDE DEF p, r
<1>3. CASE Deeper(d, v)
  BY <1>1, <1>2, <1>3 DEF Worst, p, r, Goes
<1>4. CASE ~Deeper(d, v)
  BY <1>1, <1>2, <1>4 DEF Worst, p, r, Stays
<1>5. QED BY <1>3, <1>4

LEMMA PeakStep ==
    ASSUME NEW q \in Seq(Int), NEW n \in 1 .. Len(q) - 1, \A i \in DOMAIN q : q[i] >= 0,
           NEW d \in Worst, IsPeak(q, d, n)
    PROVE  LET r == Drawdown(d, q[n + 1]) IN r \in Worst /\ IsPeak(q, r, n + 1)
<1> DEFINE v == q[n + 1]
           p == Higher(d, v)
           r == Drawdown(d, v)
<1>1. v \in Nat /\ n \in Nat /\ n + 1 \in 1 .. n + 1
  OBVIOUS
<1>2. d.peak \in Nat \ {0} /\ d.fall \in Nat /\ d.of \in Nat \ {0}
  BY DEF IsPeak
<1>3. /\ r \in Worst /\ r.peak = p
      /\ Deeper(d, v) => Goes(r, d, v)
      /\ ~Deeper(d, v) => Stays(r, d)
  <2> HIDE DEF v
  <2>1. v \in Int
    BY <1>1
  <2>2. QED BY <2>1, DrawdownEffect
<1>4. p \in Nat \ {0} /\ p - v \in Nat /\ d.peak <= p /\ v <= p
  BY <1>1, <1>2 DEF Higher
<1>5. \A i \in 1 .. n + 1 : q[i] <= p
  <2>1. TAKE i \in 1 .. n + 1
  <2>2. CASE i = n + 1
    BY <1>4, <2>2
  <2>3. CASE i # n + 1
    <3>1. i \in 1 .. n /\ q[i] \in Int
      BY <2>3
    <3>2. q[i] <= d.peak
      BY <3>1 DEF IsPeak
    <3> HIDE DEF p
    <3>3. QED BY <1>2, <1>4, <3>1, <3>2
  <2>4. QED BY <2>2, <2>3
<1>6. \E i \in 1 .. n + 1 : q[i] = p
  <2>1. CASE v > d.peak
    BY <1>1, <2>1 DEF Higher
  <2>2. CASE ~(v > d.peak)
    <3>1. PICK i \in 1 .. n : q[i] = d.peak
      BY DEF IsPeak
    <3>2. i \in 1 .. n + 1 /\ q[i] = p
      BY <2>2, <3>1 DEF Higher
    <3>3. QED BY <3>2
  <2>3. QED BY <2>1, <2>2
<1> HIDE DEF p, r
<1>7. r.fall \in Nat /\ r.of \in Nat \ {0}
  BY <1>2, <1>3, <1>4 DEF Goes, Stays, p
<1>8. QED BY <1>3, <1>4, <1>5, <1>6, <1>7 DEF IsPeak, r

LEMMA WorstStep ==
    ASSUME NEW q \in Seq(Int), NEW n \in 1 .. Len(q) - 1, \A i \in DOMAIN q : q[i] >= 0,
           NEW d \in Worst, IsPeak(q, d, n), IsWorst(q, d, n)
    PROVE  IsWorst(q, Drawdown(d, q[n + 1]), n + 1)
<1> DEFINE v == q[n + 1]
           p == Higher(d, v)
           r == Drawdown(d, v)
<1>1. v \in Nat /\ n \in Nat /\ n + 1 \in 1 .. n + 1
  OBVIOUS
<1>2. d.peak \in Nat \ {0} /\ d.fall \in Nat /\ d.of \in Nat \ {0}
  BY DEF IsPeak
<1>3. /\ r \in Worst /\ r.peak = p
      /\ Deeper(d, v) => Goes(r, d, v)
      /\ ~Deeper(d, v) => Stays(r, d)
  <2> HIDE DEF v
  <2>1. v \in Int
    BY <1>1
  <2>2. QED BY <2>1, DrawdownEffect
<1>4. r \in Worst /\ IsPeak(q, r, n + 1)
  BY PeakStep
<1>5. p \in Nat \ {0} /\ p - v \in Nat /\ v <= p
  BY <1>1, <1>2 DEF Higher
<1> DEFINE F(pair) == q[pair[1]] - q[pair[2]]
<1>6. \A pair \in Falls(q, n + 1) :
         /\ q[pair[1]] \in Nat \ {0} /\ q[pair[1]] <= p
         /\ F(pair) \in Int
         /\ pair \in Falls(q, n) \/ (pair[2] = n + 1 /\ F(pair) = q[pair[1]] - v)
  <2>1. TAKE pair \in Falls(q, n + 1)
  <2>2. /\ pair[1] \in 1 .. n + 1 /\ pair[2] \in 1 .. n + 1
        /\ pair[1] <= pair[2] /\ q[pair[1]] > 0 /\ pair = <<pair[1], pair[2]>>
    BY DEF Falls
  <2>3. q[pair[1]] \in Int /\ q[pair[2]] \in Int
    BY <2>2
  <2>4. q[pair[1]] <= p
    BY <1>3, <1>4, <2>2 DEF IsPeak
  <2>5. pair[2] # n + 1 => pair \in Falls(q, n)
    BY <2>2 DEF Falls
  <2>6. q[pair[1]] \in Nat \ {0} /\ F(pair) \in Int
    <3> DEFINE a == q[pair[1]]
               b == q[pair[2]]
    <3>1. a \in Int /\ b \in Int /\ a > 0
      BY <2>2, <2>3
    <3> HIDE DEF a, b
    <3>2. a \in Nat \ {0} /\ a - b \in Int
      BY <3>1
    <3>3. QED BY <3>2 DEF a, b
  <2>7. CASE pair[2] = n + 1
    <3>1. F(pair) = q[pair[1]] - v
      BY <2>7
    <3> HIDE DEF F, v, p
    <3>2. QED BY <2>4, <2>6, <2>7, <3>1
  <2>8. CASE pair[2] # n + 1
    <3> HIDE DEF F, v, p
    <3>1. QED BY <2>4, <2>5, <2>6, <2>8
  <2>9. QED BY <2>7, <2>8
<1>7. \A pair \in Falls(q, n) : F(pair) * d.of <= d.fall * q[pair[1]]
  BY DEF IsWorst
<1>8. Falls(q, n) \subseteq Falls(q, n + 1)
  BY DEF Falls
<1> HIDE DEF r, p, v, F
<1>9. CASE Falling(p, v, d)
  <2>1. r.fall = p - v /\ r.of = p
    BY <1>3, <1>5, <1>9 DEF Deeper, Goes, p
  <2>2. d.fall * p <= (p - v) * d.of
    <3>1. (p - v) * d.of > d.fall * p
      BY <1>9 DEF Falling
    <3>2. (p - v) * d.of \in Int /\ d.fall * p \in Int
      BY <1>2, <1>5
    <3>3. QED BY <3>1, <3>2
  <2>3. \A pair \in Falls(q, n + 1) : F(pair) * p <= (p - v) * q[pair[1]]
    <3>1. TAKE pair \in Falls(q, n + 1)
    <3>2. /\ q[pair[1]] \in Nat \ {0} /\ q[pair[1]] <= p
          /\ F(pair) \in Int
      BY <1>6
    <3>3. CASE pair \in Falls(q, n)
      <4>1. F(pair) * d.of <= d.fall * q[pair[1]]
        BY <1>7, <3>3
      <4> DEFINE x == F(pair)
                 a == q[pair[1]]
                 w == p - v
                 f == d.fall
                 o == d.of
      <4>2. x \in Int /\ a \in Nat /\ w \in Int /\ f \in Nat /\ o \in Nat \ {0}
        BY <1>2, <1>5, <3>2
      <4>3. x * o <= f * a /\ f * p <= w * o
        BY <2>2, <4>1
      <4> HIDE DEF x, a, w, f, o
      <4>4. x * p <= w * a
        BY <1>5, <4>2, <4>3, NewWorst
      <4>5. QED BY <4>4 DEF x, a, w
    <3>4. CASE F(pair) = q[pair[1]] - v
      <4>1. (q[pair[1]] - v) * p <= (p - v) * q[pair[1]]
        BY <1>1, <1>5, <3>2, PeakIsWorst
      <4>2. QED BY <3>4, <4>1
    <3>5. QED BY <1>6, <3>3, <3>4
  <2>4. PICK i \in 1 .. n + 1 : q[i] = p
    BY <1>3, <1>4 DEF IsPeak
  <2> DEFINE pair == <<i, n + 1>>
  <2>5. pair \in Falls(q, n + 1)
    BY <1>1, <1>5, <2>4 DEF Falls
  <2>6. F(pair) * p = (p - v) * q[pair[1]]
    <3>1. F(pair) = p - v /\ q[pair[1]] = p
      BY <2>4 DEF F, v
    <3>2. QED BY <3>1
  <2>7. QED BY <2>1, <2>3, <2>5, <2>6 DEF IsWorst, r, F, v
<1>10. CASE ~Falling(p, v, d)
  <2>1. r.fall = d.fall /\ r.of = d.of
    BY <1>3, <1>10 DEF Deeper, Stays, p
  <2>2. (p - v) * d.of <= d.fall * p
    <3>1. ~((p - v) * d.of > d.fall * p)
      BY <1>10 DEF Falling
    <3>2. (p - v) * d.of \in Int /\ d.fall * p \in Int
      BY <1>2, <1>5
    <3>3. QED BY <3>1, <3>2
  <2>3. \A pair \in Falls(q, n + 1) : F(pair) * d.of <= d.fall * q[pair[1]]
    <3>1. TAKE pair \in Falls(q, n + 1)
    <3>2. /\ q[pair[1]] \in Nat \ {0} /\ q[pair[1]] <= p
      BY <1>6
    <3>3. CASE pair \in Falls(q, n)
      BY <1>7, <3>3
    <3>4. CASE F(pair) = q[pair[1]] - v
      <4>1. (q[pair[1]] - v) * d.of <= d.fall * q[pair[1]]
        BY <1>1, <1>2, <1>5, <2>2, <3>2, PeakNotWorse
      <4>2. QED BY <3>4, <4>1
    <3>5. QED BY <1>6, <3>3, <3>4
  <2>4. PICK pair \in Falls(q, n) : F(pair) * d.of = d.fall * q[pair[1]]
    BY DEF IsWorst, F
  <2>5. QED BY <1>8, <2>1, <2>3, <2>4 DEF IsWorst, r, F, v
<1>11. QED BY <1>9, <1>10

LEMMA DrawdownsRecur ==
    ASSUME MoneyAssumption, NEW q \in Seq(Int)
    PROVE  /\ Drawdowns(q) \in [0 .. Len(q) -> Worst]
           /\ Drawdowns(q)[0] = [peak |-> Capital, fall |-> 0, of |-> 1]
           /\ \A n \in 1 .. Len(q) : Drawdowns(q)[n] = Drawdown(Drawdowns(q)[n - 1], q[n])
<1> DEFINE N == Len(q)
           base == [peak |-> Capital, fall |-> 0, of |-> 1]
           step == [n \in 1 .. N |-> [d \in Worst |-> Drawdown(d, q[n])]]
           Body(f) == [n \in 0 .. N |-> IF n = 0 THEN base ELSE Drawdown(f[n - 1], q[n])]
<1>1. N \in Nat /\ \A n \in 1 .. N : q[n] \in Int
  OBVIOUS
<1>2. base \in Worst
  BY DEF Worst, MoneyAssumption
<1>3. \A n \in 1 .. N, d \in Worst : Drawdown(d, q[n]) \in Worst
  BY <1>1, DrawdownEffect
<1>4. step \in [1 .. N -> [Worst -> Worst]]
  BY <1>3
<1>5. PICK g \in [0 .. N -> Worst] : Loop(g, N, base, step)
  <2> HIDE DEF step, N, base
  <2>1. QED BY <1>1, <1>2, <1>4, Recursion
<1>6. \A n \in 0 .. N : g[n] = IF n = 0 THEN base ELSE Drawdown(g[n - 1], q[n])
  <2>1. TAKE n \in 0 .. N
  <2>2. CASE n = 0
    BY <1>5, <2>2 DEF Loop
  <2>3. CASE n # 0
    <3>1. n \in 1 .. N /\ n - 1 \in 0 .. N
      BY <1>1, <2>3
    <3>2. g[n - 1] \in Worst
      BY <1>5, <3>1
    <3>3. step[n][g[n - 1]] = Drawdown(g[n - 1], q[n])
      BY <3>1, <3>2
    <3>4. g[n] = step[n][g[n - 1]]
      BY <1>5, <3>1 DEF Loop
    <3>5. QED BY <2>3, <3>3, <3>4
  <2>4. QED BY <2>2, <2>3
<1> HIDE DEF step
<1>7. g = Body(g)
  BY <1>6
<1> DEFINE W == Drawdowns(q)
<1>8. W = Body(W)
  BY <1>7 DEF Drawdowns
<1> HIDE DEF W
<1>9. /\ W[0] = base
      /\ \A n \in 1 .. N : W[n] = Drawdown(W[n - 1], q[n])
  <2> HIDE DEF base
  <2>1. 0 \in 0 .. N /\ \A n \in 1 .. N : n \in 0 .. N /\ n # 0
    BY <1>1
  <2>2. \A n \in 0 .. N : W[n] = IF n = 0 THEN base ELSE Drawdown(W[n - 1], q[n])
    BY <1>8
  <2>3. QED BY <2>1, <2>2
<1> DEFINE D == {n \in 0 .. N : W[n] \in Worst}
<1>10. 0 \in D
  BY <1>1, <1>2, <1>9
<1>11. ASSUME NEW n \in 1 .. N, n - 1 \in D PROVE n \in D
  BY <1>3, <1>9, <1>11
<1> HIDE DEF D
<1>12. 0 .. N \subseteq D
  BY <1>1, <1>10, <1>11, InductionUpTo
<1>13. \A n \in 0 .. N : W[n] \in Worst
  BY <1>12 DEF D
<1>14. W \in [0 .. N -> Worst]
  BY <1>8, <1>13
<1>15. QED BY <1>9, <1>14 DEF W

LEMMA FirstPoint ==
    ASSUME MoneyAssumption, NEW q \in Seq(Int), Len(q) >= 1, q[1] = Capital
    PROVE  LET d == Drawdown([peak |-> Capital, fall |-> 0, of |-> 1], q[1])
           IN  d \in Worst /\ IsPeak(q, d, 1) /\ IsWorst(q, d, 1)
<1> DEFINE base == [peak |-> Capital, fall |-> 0, of |-> 1]
           d == Drawdown(base, q[1])
<1>1. Capital \in Nat \ {0} /\ 1 .. 1 = {1}
  BY DEF MoneyAssumption
<1>2. d = base
  BY <1>1 DEF Drawdown
<1> HIDE DEF d
<1>3. d \in Worst /\ IsPeak(q, d, 1)
  BY <1>1, <1>2 DEF Worst, IsPeak
<1> DEFINE pair == <<1, 1>>
<1>4. Falls(q, 1) = {pair}
  BY <1>1 DEF Falls
<1>5. q[pair[1]] - q[pair[2]] = 0 /\ d.fall = 0 /\ d.of = 1 /\ q[pair[1]] \in Nat
  BY <1>1, <1>2
<1>6. (q[pair[1]] - q[pair[2]]) * d.of = 0 /\ d.fall * q[pair[1]] = 0
  BY <1>5
<1> HIDE DEF pair
<1>7. IsWorst(q, d, 1)
  BY <1>4, <1>6 DEF IsWorst
<1>8. QED BY <1>3, <1>7 DEF d

LEMMA OnePassSuffices ==
    ASSUME MoneyAssumption, NEW q \in Seq(Int), Len(q) >= 1, q[1] = Capital,
           \A i \in DOMAIN q : q[i] >= 0
    PROVE  IsWorst(q, MaxDrawdown(q), Len(q))
<1> DEFINE N == Len(q)
           W == Drawdowns(q)
           Good(n) == W[n] \in Worst /\ IsPeak(q, W[n], n) /\ IsWorst(q, W[n], n)
           D == {n \in 0 .. N : n >= 1 => Good(n)}
<1>1. N \in Nat \ {0}
  OBVIOUS
<1>2. W[0] = [peak |-> Capital, fall |-> 0, of |-> 1]
      /\ \A n \in 1 .. N : W[n] = Drawdown(W[n - 1], q[n])
  BY DrawdownsRecur
<1> HIDE DEF W
<1>3. 0 \in D
  BY <1>1
<1>4. ASSUME NEW n \in 1 .. N, n - 1 \in D PROVE n \in D
  <2>1. W[n] = Drawdown(W[n - 1], q[n])
    BY <1>2
  <2>2. CASE n = 1
    <3>1. W[1] = Drawdown([peak |-> Capital, fall |-> 0, of |-> 1], q[1])
      BY <1>2, <2>1, <2>2
    <3>2. Good(1)
      BY <3>1, FirstPoint
    <3>3. QED BY <2>2, <3>2
  <2>3. CASE n # 1
    <3> DEFINE m == n - 1
    <3>1. m \in 1 .. N - 1 /\ n = m + 1 /\ m >= 1 /\ m \in D
      BY <1>4, <2>3
    <3>2. W[m] \in Worst /\ IsPeak(q, W[m], m) /\ IsWorst(q, W[m], m)
      BY <3>1
    <3> HIDE DEF m
    <3>3. W[m + 1] = Drawdown(W[m], q[m + 1])
      BY <2>1, <3>1 DEF m
    <3>4. W[m + 1] \in Worst /\ IsPeak(q, W[m + 1], m + 1)
      BY <3>1, <3>2, <3>3, PeakStep
    <3>5. IsWorst(q, W[m + 1], m + 1)
      BY <3>1, <3>2, <3>3, WorstStep
    <3>6. QED BY <3>1, <3>4, <3>5
  <2>4. QED BY <2>2, <2>3
<1> HIDE DEF D
<1>5. 0 .. N \subseteq D
  BY <1>1, <1>3, <1>4, InductionUpTo
<1>6. N \in D
  BY <1>1, <1>5
<1>7. IsWorst(q, W[N], N)
  BY <1>1, <1>6 DEF D
<1>8. QED BY <1>7 DEF MaxDrawdown, W

\* The curve starts with the capital.
LEMMA CurveStarts ==
    ASSUME MoneyAssumption, BarsAssumption, NEW s \in Seq(Bars)
    PROVE  /\ Run(s) \in Engine
           /\ Len(Run(s).equity) >= 1 /\ Run(s).equity[1] = Capital
<1> DEFINE N == Len(s)
           E == Engines(s)
           Starts(n) == Len(E[n].equity) >= 1 /\ E[n].equity[1] = Capital
           D == {n \in 0 .. N : Starts(n)}
<1>1. N \in Nat /\ \A n \in 1 .. N : s[n] \in Bars
  OBVIOUS
<1>2. /\ E \in [0 .. N -> Engine]
      /\ E[0] = NewEngine
      /\ \A n \in 1 .. N : E[n] = OneCandle(E[n - 1], s[n])
  BY EnginesRecur
<1> HIDE DEF E
<1>3. 0 \in D
  BY <1>1, <1>2 DEF NewEngine
<1>4. ASSUME NEW n \in 1 .. N, n - 1 \in D PROVE n \in D
  <2> DEFINE e == E[n - 1]
             b == s[n]
             x == Signal(e, b)
             v == x.cash + x.position * b.close * Scale
  <2>1. e \in Engine /\ b \in Bars /\ E[n] = OneCandle(e, b)
    BY <1>1, <1>2
  <2>2. e.equity \in Seq(Int) /\ Len(e.equity) >= 1 /\ e.equity[1] = Capital
    BY <1>4, <2>1 DEF Engine
  <2> HIDE DEF e, b
  <2>3. b.close \in Nat
    BY <2>1 DEF BarsAssumption
  <2>4. x \in Engine
    BY <2>1, OneCandleType
  <2>5. x.equity = e.equity
    BY <2>1, <2>3, ExecuteEffect DEF Signal
  <2> HIDE DEF x
  <2>6. E[n].equity = Append(e.equity, v)
    <3>1. E[n] = UpdatePortfolio(x, b.close)
      BY <2>1 DEF OneCandle, x
    <3>2. UpdatePortfolio(x, b.close).equity = Append(x.equity, v)
      BY <2>3, <2>4, PortfolioEffect
    <3>3. QED BY <2>5, <3>1, <3>2
  <2> HIDE DEF v
  <2>7. Starts(n)
    BY <2>2, <2>6
  <2>8. QED BY <2>7
<1> HIDE DEF D
<1>5. 0 .. N \subseteq D
  BY <1>1, <1>3, <1>4, InductionUpTo
<1>6. N \in D /\ E[N] \in Engine
  BY <1>1, <1>2, <1>5
<1>7. QED BY <1>6 DEF Run, E, D

LEMMA WorstFallHolds ==
    ASSUME MoneyAssumption, BarsAssumption, BarsTypeOK
    PROVE  DrawdownIsWorstFall
<1> DEFINE q == Run(bars).equity
           d == MaxDrawdown(q)
           N == Len(q)
<1>1. q \in Seq(Int) /\ Len(q) >= 1 /\ q[1] = Capital
  BY CurveStarts DEF BarsTypeOK, Engine
<1> HIDE DEF q
<1>2. (\A i \in DOMAIN q : q[i] >= 0) => IsWorst(q, d, N)
  BY <1>1, OnePassSuffices
<1>3. DOMAIN q = 1 .. N
  BY <1>1
<1> HIDE DEF d
<1>4. QED BY <1>2, <1>3 DEF DrawdownIsWorstFall, q, d, IsWorst, Falls

-----------------------------------------------------------------------------
(* Gross profit and loss account for the cash.                             *)

Ledgers == [profit : Int, loss : Int]
Nothing == [profit |-> 0, loss |-> 0]

\* One round of the loop over the trades.
Paired(g, t, k) == IF k % 2 = 0 THEN Booked(g, Pnl(t, k)) ELSE g

LEMMA BookedEffect ==
    ASSUME NEW g \in Ledgers, NEW x \in Int
    PROVE  /\ Booked(g, x) \in Ledgers
           /\ Booked(g, x).profit - Booked(g, x).loss = g.profit - g.loss + x
BY DEF Booked, Ledgers

LEMMA PnlType ==
    ASSUME NEW t \in Seq(Trade), NEW k \in 2 .. Len(t)
    PROVE  Pnl(t, k) \in Int
<1>1. k \in 1 .. Len(t) /\ k - 1 \in 1 .. Len(t)
  OBVIOUS
<1>2. t[k] \in Trade /\ t[k - 1] \in Trade
  BY <1>1
<1> DEFINE a == t[k].price
           b == t[k - 1].price
<1>3. a \in Int /\ b \in Int
  BY <1>2 DEF Trade
<1>4. Pnl(t, k) = IF t[k - 1].side = "sell" THEN -(a - b) ELSE a - b
  BY DEF Pnl
<1> HIDE DEF a, b
<1>5. QED BY <1>3, <1>4

LEMMA PairedType ==
    ASSUME NEW t \in Seq(Trade), NEW k \in 1 .. Len(t), NEW g \in Ledgers
    PROVE  Paired(g, t, k) \in Ledgers
<1>1. CASE k % 2 = 0
  <2>1. k \in 2 .. Len(t)
    BY <1>1
  <2>2. Pnl(t, k) \in Int
    BY <2>1, PnlType
  <2>3. QED BY <1>1, <2>2, BookedEffect DEF Paired
<1>2. CASE k % 2 # 0
  BY <1>2 DEF Paired
<1>3. QED BY <1>1, <1>2

LEMMA GrossRecurs ==
    ASSUME NEW t \in Seq(Trade)
    PROVE  /\ Gross(t) \in [0 .. Len(t) -> Ledgers]
           /\ Gross(t)[0] = Nothing
           /\ \A k \in 1 .. Len(t) : Gross(t)[k] = Paired(Gross(t)[k - 1], t, k)
<1> DEFINE N == Len(t)
           step == [k \in 1 .. N |-> [g \in Ledgers |-> Paired(g, t, k)]]
           Body(f) == [k \in 0 .. N |-> IF k = 0 THEN Nothing ELSE Paired(f[k - 1], t, k)]
<1>1. N \in Nat
  OBVIOUS
<1>2. Nothing \in Ledgers
  BY DEF Nothing, Ledgers
<1>3. step \in [1 .. N -> [Ledgers -> Ledgers]]
  BY PairedType
<1>4. PICK h \in [0 .. N -> Ledgers] : Loop(h, N, Nothing, step)
  <2> HIDE DEF step, N
  <2>1. QED BY <1>1, <1>2, <1>3, Recursion
<1>5. \A k \in 0 .. N : h[k] = IF k = 0 THEN Nothing ELSE Paired(h[k - 1], t, k)
  <2>1. TAKE k \in 0 .. N
  <2>2. CASE k = 0
    BY <1>4, <2>2 DEF Loop
  <2>3. CASE k # 0
    <3>1. k \in 1 .. N /\ k - 1 \in 0 .. N
      BY <1>1, <2>3
    <3>2. h[k - 1] \in Ledgers
      BY <1>4, <3>1
    <3>3. step[k][h[k - 1]] = Paired(h[k - 1], t, k)
      BY <3>1, <3>2
    <3>4. h[k] = step[k][h[k - 1]]
      BY <1>4, <3>1 DEF Loop
    <3>5. QED BY <2>3, <3>3, <3>4
  <2>4. QED BY <2>2, <2>3
<1> HIDE DEF step
<1>6. h = Body(h)
  BY <1>5
<1> DEFINE G == Gross(t)
<1>7. G = Body(G)
  BY <1>6 DEF Gross, Paired, Nothing
<1> HIDE DEF G
<1>8. G[0] = Nothing /\ \A k \in 1 .. N : G[k] = Paired(G[k - 1], t, k)
  <2>1. 0 \in 0 .. N /\ \A k \in 1 .. N : k \in 0 .. N /\ k # 0
    BY <1>1
  <2>2. QED BY <1>7, <2>1
<1> DEFINE D == {k \in 0 .. N : G[k] \in Ledgers}
<1>9. 0 \in D
  BY <1>1, <1>2, <1>8
<1>10. ASSUME NEW k \in 1 .. N, k - 1 \in D PROVE k \in D
  BY <1>8, <1>10, PairedType
<1> HIDE DEF D
<1>11. 0 .. N \subseteq D
  BY <1>1, <1>9, <1>10, InductionUpTo
<1>12. \A k \in 0 .. N : G[k] \in Ledgers
  BY <1>11 DEF D
<1>13. G \in [0 .. N -> Ledgers]
  BY <1>7, <1>12
<1>14. QED BY <1>8, <1>13 DEF G

\* A further trade leaves what was booked for the trades before it.
LEMMA GrossOfMore ==
    ASSUME NEW t \in Seq(Trade), NEW x \in Trade
    PROVE  LET u == Append(t, x)
               n == Len(t)
           IN  Gross(u)[n + 1] = Paired(Gross(t)[n], u, n + 1)
<1> DEFINE u == Append(t, x)
           N == Len(t)
           D == {k \in 0 .. N : Gross(u)[k] = Gross(t)[k]}
<1>1. /\ u \in Seq(Trade) /\ N \in Nat /\ Len(u) = N + 1
      /\ \A k \in 1 .. N : u[k] = t[k]
  OBVIOUS
<1> HIDE DEF u
<1>2. /\ Gross(t)[0] = Nothing
      /\ \A k \in 1 .. N : Gross(t)[k] = Paired(Gross(t)[k - 1], t, k)
  BY GrossRecurs
<1>3. /\ Gross(u)[0] = Nothing
      /\ \A k \in 1 .. N + 1 : Gross(u)[k] = Paired(Gross(u)[k - 1], u, k)
  BY <1>1, GrossRecurs
<1>4. 0 \in D
  BY <1>1, <1>2, <1>3
<1>5. ASSUME NEW k \in 1 .. N, k - 1 \in D PROVE k \in D
  <2>1. Gross(u)[k - 1] = Gross(t)[k - 1] /\ k \in 1 .. N + 1
    BY <1>1, <1>5
  <2>2. \A g : Paired(g, u, k) = Paired(g, t, k)
    <3>1. CASE k % 2 = 0
      <4>1. k - 1 \in 1 .. N
        BY <1>1, <3>1
      <4>2. u[k] = t[k] /\ u[k - 1] = t[k - 1]
        BY <1>1, <4>1
      <4>3. Pnl(u, k) = Pnl(t, k)
        BY <4>2 DEF Pnl
      <4>4. QED BY <4>3 DEF Paired
    <3>2. CASE k % 2 # 0
      BY <3>2 DEF Paired
    <3>3. QED BY <3>1, <3>2
  <2>3. QED BY <1>2, <1>3, <2>1, <2>2
<1> HIDE DEF D
<1>6. 0 .. N \subseteq D
  BY <1>1, <1>4, <1>5, InductionUpTo
<1>7. Gross(u)[N] = Gross(t)[N]
  BY <1>1, <1>6 DEF D
<1>8. N + 1 \in 1 .. N + 1 /\ (N + 1) - 1 = N
  BY <1>1
<1>9. QED BY <1>3, <1>7, <1>8 DEF u

Bought(e) == e.trades[Len(e.trades)].price
Closed(e) == Gross(e.trades)[Len(e.trades)]
Held(e)   == IF e.position = 0 THEN 0 ELSE Bought(e)
Balanced(e) == e.cash = Capital + Closed(e).profit - Closed(e).loss - Held(e)

\* The trades are a purchase and a sale in turn, and the cash is what they
\* brought and cost.
Alternates(e) ==
    /\ e.position = Len(e.trades) % 2
    /\ \A k \in 1 .. Len(e.trades) : k % 2 = 1 => e.trades[k].side = "buy"
InBalance(e) == Alternates(e) /\ Balanced(e)

LEMMA Parity ==
    ASSUME NEW n \in Nat
    PROVE  /\ n % 2 \in {0, 1}
           /\ n % 2 = 0 => (n + 1) % 2 = 1
           /\ n % 2 = 1 => (n + 1) % 2 = 0
OBVIOUS

LEMMA BuyKeepsBooks ==
    ASSUME MoneyAssumption, NEW e \in Engine, NEW price \in Nat, InBalance(e), e.position = 0
    PROVE  InBalance(Execute(e, "buy", price))
<1> DEFINE f == Fill("buy", price)
           x == [side |-> "buy", price |-> f]
           r == Execute(e, "buy", price)
           t == e.trades
           u == Append(t, x)
           n == Len(t)
<1>1. f \in Int
  BY FillType
<1>2. /\ r \in Engine /\ r.cash = e.cash - f
      /\ r.position = e.position + 1 /\ r.trades = u
  BY ExecuteEffect
<1> HIDE DEF f, r
<1>3. x \in Trade /\ t \in Seq(Trade) /\ e.cash \in Int
  BY <1>1 DEF Trade, Engine
<1> HIDE DEF x
<1>4. /\ u \in Seq(Trade) /\ n \in Nat /\ Len(u) = n + 1
      /\ u[n + 1] = x /\ \A k \in 1 .. n : u[k] = t[k]
  BY <1>3
<1> HIDE DEF u
<1>5. /\ n % 2 = 0 /\ (n + 1) % 2 = 1
      /\ \A k \in 1 .. n : k % 2 = 1 => t[k].side = "buy"
  <2>1. e.position = n % 2 /\ \A k \in 1 .. n : k % 2 = 1 => t[k].side = "buy"
    BY DEF InBalance, Alternates
  <2> HIDE DEF n
  <2>2. QED BY <1>4, <2>1, Parity
<1> HIDE DEF n
<1>6. Alternates(r)
  <2>1. r.position = Len(r.trades) % 2
    BY <1>2, <1>4, <1>5
  <2>2. ASSUME NEW k \in 1 .. n + 1, k % 2 = 1 PROVE u[k].side = "buy"
    <3>1. CASE k = n + 1
      BY <1>4, <3>1 DEF x
    <3>2. CASE k # n + 1
      <4>1. k \in 1 .. n
        BY <1>4, <3>2
      <4>2. QED BY <1>4, <1>5, <2>2, <4>1
    <3>3. QED BY <3>1, <3>2
  <2>3. QED BY <1>2, <1>4, <2>1, <2>2 DEF Alternates
<1>7. Closed(r) = Closed(e)
  <2>1. Gross(u)[n + 1] = Paired(Gross(t)[n], u, n + 1)
    BY <1>3, GrossOfMore DEF u, n
  <2>2. Closed(r) = Gross(u)[n + 1]
    BY <1>2, <1>4 DEF Closed
  <2>3. Closed(e) = Gross(t)[n]
    BY DEF Closed, n
  <2>4. (n + 1) % 2 # 0
    BY <1>5
  <2>5. QED BY <2>1, <2>2, <2>3, <2>4 DEF Paired
<1>8. Held(r) = f
  <2>1. r.trades[Len(r.trades)] = x
    BY <1>2, <1>4
  <2>2. r.position = 1
    BY <1>2
  <2>3. QED BY <2>1, <2>2 DEF Held, Bought, x
<1>9. Held(e) = 0
  BY DEF Held
<1>10. Closed(e).profit \in Int /\ Closed(e).loss \in Int
  <2>1. Gross(t) \in [0 .. n -> Ledgers] /\ n \in 0 .. n
    BY <1>3, <1>4, GrossRecurs DEF n
  <2>2. Closed(e) \in Ledgers
    BY <2>1 DEF Closed, n
  <2>3. QED BY <2>2 DEF Ledgers
<1>11. Balanced(r)
  <2>1. e.cash = Capital + Closed(e).profit - Closed(e).loss - 0
    BY <1>9 DEF InBalance, Balanced
  <2>2. r.cash = Capital + Closed(e).profit - Closed(e).loss - f
    BY <1>1, <1>2, <1>10, <2>1 DEF MoneyAssumption
  <2>3. QED BY <1>7, <1>8, <2>2 DEF Balanced
<1>12. QED BY <1>6, <1>11 DEF InBalance, r

LEMMA SellKeepsBooks ==
    ASSUME MoneyAssumption, NEW e \in Engine, NEW price \in Nat, InBalance(e), e.position > 0
    PROVE  InBalance(Execute(e, "sell", price))
<1> DEFINE f == Fill("sell", price)
           x == [side |-> "sell", price |-> f]
           r == Execute(e, "sell", price)
           t == e.trades
           u == Append(t, x)
           n == Len(t)
           a == t[n].price
<1>1. f \in Int
  BY FillType
<1>2. /\ r \in Engine /\ r.cash = e.cash + f
      /\ r.position = e.position - 1 /\ r.trades = u
  BY ExecuteEffect
<1> HIDE DEF f, r
<1>3. x \in Trade /\ t \in Seq(Trade) /\ e.cash \in Int /\ e.position \in Int
  BY <1>1 DEF Trade, Engine
<1> HIDE DEF x
<1>4. /\ u \in Seq(Trade) /\ n \in Nat /\ Len(u) = n + 1
      /\ u[n + 1] = x /\ \A k \in 1 .. n : u[k] = t[k]
  BY <1>3
<1> HIDE DEF u
<1>5. /\ n % 2 = 1 /\ (n + 1) % 2 = 0 /\ e.position = 1 /\ n \in 1 .. n
      /\ \A k \in 1 .. n : k % 2 = 1 => t[k].side = "buy"
  <2>1. e.position = n % 2 /\ \A k \in 1 .. n : k % 2 = 1 => t[k].side = "buy"
    BY DEF InBalance, Alternates
  <2> HIDE DEF n
  <2>2. n % 2 = 1 /\ (n + 1) % 2 = 0 /\ e.position = 1
    BY <1>3, <1>4, <2>1, Parity
  <2>3. n # 0
    BY <2>2
  <2>4. QED BY <1>4, <2>1, <2>2, <2>3
<1>6. a \in Int /\ t[n].side = "buy" /\ u[n] = t[n]
  <2>1. t[n] \in Trade
    BY <1>3, <1>5
  <2>2. QED BY <1>4, <1>5, <2>1 DEF Trade
<1> HIDE DEF n
<1>7. Alternates(r)
  <2>1. r.position = Len(r.trades) % 2
    BY <1>2, <1>4, <1>5
  <2>2. ASSUME NEW k \in 1 .. n + 1, k % 2 = 1 PROVE u[k].side = "buy"
    <3>1. k # n + 1
      BY <1>5, <2>2
    <3>2. k \in 1 .. n
      BY <1>4, <3>1
    <3>3. QED BY <1>4, <1>5, <2>2, <3>2
  <2>3. QED BY <1>2, <1>4, <2>1, <2>2 DEF Alternates
<1>8. Closed(e) \in Ledgers
  <2>1. Gross(t) \in [0 .. n -> Ledgers] /\ n \in 0 .. n
    BY <1>3, <1>4, GrossRecurs DEF n
  <2>2. QED BY <2>1 DEF Closed, n
<1>9. Closed(r) = Booked(Closed(e), f - a)
  <2>1. Gross(u)[n + 1] = Paired(Gross(t)[n], u, n + 1)
    BY <1>3, GrossOfMore DEF u, n
  <2>2. u[n + 1].price = f /\ u[(n + 1) - 1] = t[n] /\ t[n].side # "sell"
    BY <1>4, <1>6 DEF x
  <2>3. Pnl(u, n + 1) = f - a
    BY <2>2 DEF Pnl
  <2> HIDE DEF a
  <2>4. QED BY <1>2, <1>4, <1>5, <2>1, <2>3 DEF Closed, Paired, n
<1>10. Held(r) = 0 /\ Held(e) = a
  BY <1>2, <1>5 DEF Held, Bought, n
<1> DEFINE g == Closed(e)
           h == Closed(r)
<1> HIDE DEF a
<1>11. /\ g.profit \in Int /\ g.loss \in Int /\ h.profit \in Int /\ h.loss \in Int
       /\ h.profit - h.loss = g.profit - g.loss + (f - a)
  <2>1. f - a \in Int
    BY <1>1, <1>6
  <2>2. h \in Ledgers /\ h.profit - h.loss = g.profit - g.loss + (f - a)
    BY <1>8, <1>9, <2>1, BookedEffect
  <2>3. QED BY <1>8, <2>2 DEF Ledgers
<1>12. Balanced(r)
  <2>1. e.cash = Capital + g.profit - g.loss - a
    BY <1>10 DEF InBalance, Balanced
  <2> HIDE DEF g, h
  <2>2. r.cash = Capital + h.profit - h.loss - 0
    BY <1>1, <1>2, <1>6, <1>11, <2>1 DEF MoneyAssumption
  <2>3. QED BY <1>10, <2>2 DEF Balanced, h
<1>13. QED BY <1>7, <1>12 DEF InBalance, r

LEMMA OneCandleKeepsBooks ==
    ASSUME MoneyAssumption, BarsAssumption, NEW e \in Engine, NEW b \in Bars, InBalance(e)
    PROVE  InBalance(OneCandle(e, b))
<1> DEFINE x == Signal(e, b)
           y == OneCandle(e, b)
<1>1. b.close \in Nat
  BY DEF BarsAssumption
<1>2. x \in Engine
  BY OneCandleType
<1>3. InBalance(x)
  BY <1>1, BuyKeepsBooks, SellKeepsBooks DEF Signal
<1> HIDE DEF x
<1>4. y.cash = x.cash /\ y.position = x.position /\ y.trades = x.trades
  BY <1>1, <1>2, PortfolioEffect DEF OneCandle, x
<1> HIDE DEF y
<1>5. InBalance(y)
  BY <1>3, <1>4 DEF InBalance, Alternates, Balanced, Closed, Held, Bought
<1>6. QED BY <1>5 DEF y

LEMMA CashIsProfit ==
    ASSUME MoneyAssumption, BarsAssumption, BarsTypeOK
    PROVE  ProfitIsCash
<1> DEFINE N == Len(bars)
           E == Engines(bars)
           D == {n \in 0 .. N : InBalance(E[n])}
<1>1. N \in Nat /\ \A n \in 1 .. N : bars[n] \in Bars
  BY DEF BarsTypeOK
<1>2. /\ E \in [0 .. N -> Engine]
      /\ E[0] = NewEngine
      /\ \A n \in 1 .. N : E[n] = OneCandle(E[n - 1], bars[n])
  BY EnginesRecur DEF BarsTypeOK
<1> HIDE DEF E
<1>3. InBalance(NewEngine)
  <2>1. Gross(<<>>)[0] = Nothing
    <3>1. <<>> \in Seq(Trade)
      OBVIOUS
    <3>2. QED BY <3>1, GrossRecurs
  <2>2. NewEngine.trades = <<>> /\ NewEngine.position = 0 /\ NewEngine.cash = Capital
    BY DEF NewEngine
  <2>3. QED BY <2>1, <2>2
            DEF InBalance, Alternates, Balanced, Closed, Held, Nothing, MoneyAssumption
<1>4. 0 \in D
  BY <1>1, <1>2, <1>3
<1>5. ASSUME NEW n \in 1 .. N, n - 1 \in D PROVE n \in D
  BY <1>1, <1>2, <1>5, OneCandleKeepsBooks
<1> HIDE DEF D
<1>6. 0 .. N \subseteq D
  BY <1>1, <1>4, <1>5, InductionUpTo
<1>7. InBalance(Run(bars))
  BY <1>1, <1>6 DEF D, E, Run
<1>8. QED BY <1>7 DEF ProfitIsCash, InBalance, Balanced, Closed, Held, Bought

-----------------------------------------------------------------------------
(* The theorems about the backtest.                                        *)

\* Gross profit and loss, paired from the list of trades, account for the
\* cash, for any candles, capital and slippage (engine.py:20-47, 74-96).
THEOREM GrossAccountsForCash == CandlesSpec => []ProfitIsCash
<1>1. BarsTypeOK => ProfitIsCash
  BY CashIsProfit, MoneyAssumption, BarsAssumption
<1>2. QED BY <1>1, WindowType, PTL

\* One pass over the equity curve finds the worst fall, for a curve of any
\* length that is not overdrawn (engine.py:103-111).
THEOREM OnePassFindsWorst == CandlesSpec => []DrawdownIsWorstFall
<1>1. BarsTypeOK => DrawdownIsWorstFall
  BY WorstFallHolds, MoneyAssumption, BarsAssumption
<1>2. QED BY <1>1, WindowType, PTL

-----------------------------------------------------------------------------
(* The walk over the candles.                                              *)

Directions == {"BULLISH", "BEARISH"}
AnyEvent   == [type : {"SWEEP", "BOS", "CHOCH"}, direction : Directions, index : Int]
AnyBlock   == [index : Int, direction : Directions]
AnyWalk    == [trend : Directions \cup {"NEUTRAL"}, events : Seq(AnyEvent), blocks : Seq(AnyBlock)]

LEMMA SweepsType ==
    ASSUME NEW s, NEW i \in Int
    PROVE  /\ Sweeps(s, i) \in Seq(AnyEvent)
           /\ \A k \in DOMAIN Sweeps(s, i) : Sweeps(s, i)[k].type = "SWEEP"
<1> DEFINE T == {e \in AnyEvent : e.type = "SWEEP"}
           up == <<Event("SWEEP", "BEARISH", i)>>
           down == <<Event("SWEEP", "BULLISH", i)>>
<1>1. Event("SWEEP", "BEARISH", i) \in T /\ Event("SWEEP", "BULLISH", i) \in T
  BY DEF Event, AnyEvent, Directions
<1>2. up \in Seq(T) /\ down \in Seq(T) /\ <<>> \in Seq(T)
  BY <1>1
<1> HIDE DEF up, down, T
<1>3. \E a, b \in Seq(T) : Sweeps(s, i) = a \o b
  BY <1>2 DEF Sweeps, up, down
<1>4. Sweeps(s, i) \in Seq(T)
  BY <1>3
<1>5. T \subseteq AnyEvent /\ \A e \in T : e.type = "SWEEP"
  BY DEF T
<1>6. QED BY <1>4, <1>5

Swept(m, s, i) == [m EXCEPT !.events = @ \o Sweeps(s, i)]

LEMMA SweptEffect ==
    ASSUME NEW m \in AnyWalk, NEW s, NEW i \in Int
    PROVE  LET r == Swept(m, s, i)
           IN  /\ r \in AnyWalk /\ r.trend = m.trend /\ r.blocks = m.blocks
               /\ Len(r.events) >= Len(m.events)
               /\ \A k \in 1 .. Len(m.events) : r.events[k] = m.events[k]
               /\ \A k \in Len(m.events) + 1 .. Len(r.events) : r.events[k].type = "SWEEP"
<1> DEFINE q == Sweeps(s, i)
           e == m.events
           f == e \o q
<1>1. q \in Seq(AnyEvent) /\ \A k \in DOMAIN q : q[k].type = "SWEEP"
  BY SweepsType
<1>2. e \in Seq(AnyEvent)
  BY DEF AnyWalk
<1> HIDE DEF q, e
<1>3. /\ f \in Seq(AnyEvent) /\ Len(f) >= Len(e)
      /\ \A k \in 1 .. Len(e) : f[k] = e[k]
      /\ \A k \in Len(e) + 1 .. Len(f) : f[k].type = "SWEEP"
  <2>1. f \in Seq(AnyEvent) /\ Len(f) = Len(e) + Len(q) /\ Len(e) \in Nat /\ Len(q) \in Nat
    BY <1>1, <1>2
  <2>2. \A k \in 1 .. Len(e) : f[k] = e[k]
    BY <1>1, <1>2
  <2>3. \A k \in Len(e) + 1 .. Len(f) : f[k] = q[k - Len(e)] /\ k - Len(e) \in DOMAIN q
    BY <1>1, <1>2, <2>1
  <2>4. QED BY <1>1, <2>1, <2>2, <2>3
<1> HIDE DEF f
<1>4. Swept(m, s, i) = [m EXCEPT !.events = f]
  BY DEF Swept, f, e, q
<1>5. QED BY <1>3, <1>4 DEF AnyWalk, e

LEMMA BreakEffect ==
    ASSUME NEW m \in AnyWalk, NEW d \in Directions, NEW i \in Int
    PROVE  LET r == Break(m, d, i)
           IN  /\ r \in AnyWalk /\ r.trend = d
               /\ r.events = Append(m.events, Event(IF m.trend = d THEN "BOS" ELSE "CHOCH", d, i))
               /\ m.trend = d => r.blocks = m.blocks
               /\ m.trend # d => r.blocks = Append(m.blocks, [index |-> i - 1, direction |-> d])
<1> DEFINE e == Event(IF m.trend = d THEN "BOS" ELSE "CHOCH", d, i)
           b == [index |-> i - 1, direction |-> d]
           es == Append(m.events, e)
           bs == Append(m.blocks, b)
           r == Break(m, d, i)
<1>1. e \in AnyEvent /\ b \in AnyBlock
  BY DEF Event, AnyEvent, AnyBlock
<1> HIDE DEF e, b
<1>2. /\ m.events \in Seq(AnyEvent) /\ m.blocks \in Seq(AnyBlock)
      /\ m.trend \in Directions \cup {"NEUTRAL"}
  BY DEF AnyWalk
<1>3. es \in Seq(AnyEvent) /\ bs \in Seq(AnyBlock)
  BY <1>1, <1>2
<1>4. CASE m.trend = d
  <2>1. r = [m EXCEPT !.events = es]
    BY <1>4 DEF Break, e
  <2> HIDE DEF es, bs, r
  <2>2. r \in AnyWalk /\ r.trend = d /\ r.events = es /\ r.blocks = m.blocks
    BY <1>2, <1>3, <1>4, <2>1 DEF AnyWalk
  <2>3. QED BY <1>4, <2>2 DEF es, e, r
<1>5. CASE m.trend # d
  <2>1. r = [trend |-> d, events |-> es, blocks |-> bs]
    BY <1>5 DEF Break, e, b
  <2> HIDE DEF es, bs, r
  <2>2. r \in AnyWalk /\ r.trend = d /\ r.events = es /\ r.blocks = bs
    BY <1>2, <1>3, <2>1 DEF AnyWalk
  <2>3. QED BY <1>5, <2>2 DEF es, e, bs, b, r
<1>6. QED BY <1>4, <1>5

LEMMA OneBarType ==
    ASSUME NEW m \in AnyWalk, NEW s, NEW i \in Int
    PROVE  OneBar(m, s, i) \in AnyWalk
<1>1. Swept(m, s, i) \in AnyWalk
  BY SweptEffect
<1>2. "BULLISH" \in Directions /\ "BEARISH" \in Directions
  BY DEF Directions
<1>3. Break(Swept(m, s, i), "BULLISH", i) \in AnyWalk
  BY <1>1, <1>2, BreakEffect
<1>4. Break(Swept(m, s, i), "BEARISH", i) \in AnyWalk
  BY <1>1, <1>2, BreakEffect
<1>5. QED BY <1>1, <1>3, <1>4 DEF OneBar, Swept

LEMMA WalksRecur ==
    ASSUME NEW s \in Seq(Bars)
    PROVE  /\ Walks(s) \in [0 .. Len(s) -> AnyWalk]
           /\ Walks(s)[0] = Unmarked
           /\ \A i \in 1 .. Len(s) : Walks(s)[i] = OneBar(Walks(s)[i - 1], s, i)
<1> DEFINE N == Len(s)
           step == [i \in 1 .. N |-> [m \in AnyWalk |-> OneBar(m, s, i)]]
           Body(f) == [i \in 0 .. N |-> IF i = 0 THEN Unmarked ELSE OneBar(f[i - 1], s, i)]
<1>1. N \in Nat
  OBVIOUS
<1>2. Unmarked \in AnyWalk
  BY DEF Unmarked, AnyWalk
<1>3. \A i \in 1 .. N, m \in AnyWalk : OneBar(m, s, i) \in AnyWalk
  BY OneBarType
<1>4. step \in [1 .. N -> [AnyWalk -> AnyWalk]]
  BY <1>3
<1>5. PICK h \in [0 .. N -> AnyWalk] : Loop(h, N, Unmarked, step)
  <2> HIDE DEF step, N
  <2>1. QED BY <1>1, <1>2, <1>4, Recursion
<1>6. \A i \in 0 .. N : h[i] = IF i = 0 THEN Unmarked ELSE OneBar(h[i - 1], s, i)
  <2>1. TAKE i \in 0 .. N
  <2>2. CASE i = 0
    BY <1>5, <2>2 DEF Loop
  <2>3. CASE i # 0
    <3>1. i \in 1 .. N /\ i - 1 \in 0 .. N
      BY <1>1, <2>3
    <3>2. h[i - 1] \in AnyWalk
      BY <1>5, <3>1
    <3>3. step[i][h[i - 1]] = OneBar(h[i - 1], s, i)
      BY <3>1, <3>2
    <3>4. h[i] = step[i][h[i - 1]]
      BY <1>5, <3>1 DEF Loop
    <3>5. QED BY <2>3, <3>3, <3>4
  <2>4. QED BY <2>2, <2>3
<1> HIDE DEF step
<1>7. h = Body(h)
  BY <1>6
<1> DEFINE W == Walks(s)
<1>8. W = Body(W)
  BY <1>7 DEF Walks
<1> HIDE DEF W
<1>9. W[0] = Unmarked /\ \A i \in 1 .. N : W[i] = OneBar(W[i - 1], s, i)
  <2>1. 0 \in 0 .. N /\ \A i \in 1 .. N : i \in 0 .. N /\ i # 0
    BY <1>1
  <2>2. QED BY <1>8, <2>1
<1> DEFINE D == {i \in 0 .. N : W[i] \in AnyWalk}
<1>10. 0 \in D
  BY <1>1, <1>2, <1>9
<1>11. ASSUME NEW i \in 1 .. N, i - 1 \in D PROVE i \in D
  BY <1>3, <1>9, <1>11
<1> HIDE DEF D
<1>12. 0 .. N \subseteq D
  BY <1>1, <1>10, <1>11, InductionUpTo
<1>13. \A i \in 0 .. N : W[i] \in AnyWalk
  BY <1>12 DEF D
<1>14. W \in [0 .. N -> AnyWalk]
  BY <1>8, <1>13
<1>15. QED BY <1>9, <1>14 DEF W

-----------------------------------------------------------------------------
(* One story.                                                              *)

IsBreak(e) == e.type # "SWEEP"
NoneBetween(es, k, l) == \A j \in DOMAIN es : IsBreak(es[j]) => j <= k \/ j >= l

\* The trend is the direction of the last break, and a break turns it exactly
\* when it is called a reversal.
Turns(m) ==
    /\ \A k \in DOMAIN m.events : IsBreak(m.events[k]) /\ NoneBetween(m.events, k, Len(m.events) + 1)
          => m.events[k].direction = m.trend
    /\ \A k, l \in DOMAIN m.events :
          IsBreak(m.events[k]) /\ IsBreak(m.events[l]) /\ k < l /\ NoneBetween(m.events, k, l) =>
             (m.events[l].type = "CHOCH" <=> m.events[l].direction # m.events[k].direction)

\* The trend is neutral before the first break, and that of the last block
\* afterwards.
Marks(m) ==
    /\ m.trend = "NEUTRAL" <=> m.blocks = <<>>
    /\ m.blocks # <<>> => m.trend = m.blocks[Len(m.blocks)].direction

\* The reversals are enumerated by the blocks they left.
Enumerates(f, m) ==
    /\ f \in [1 .. Len(m.blocks) -> 1 .. Len(m.events)]
    /\ \A i, j \in 1 .. Len(m.blocks) : i < j => f[i] < f[j]
    /\ \A k \in 1 .. Len(m.events) :
          m.events[k].type = "CHOCH" => \E j \in 1 .. Len(m.blocks) : f[j] = k
    /\ \A j \in 1 .. Len(m.blocks) : LET e == m.events[f[j]] IN
          /\ e.type = "CHOCH" /\ e.direction = m.blocks[j].direction
          /\ e.index = m.blocks[j].index + 1

Story(m) == Turns(m) /\ Marks(m) /\ \E f : Enumerates(f, m)

\* A sweep is none of it.
LEMMA SweptKeepsStory ==
    ASSUME NEW m \in AnyWalk, NEW s, NEW i \in Int, Story(m)
    PROVE  Story(Swept(m, s, i))
<1> DEFINE r == Swept(m, s, i)
           e == m.events
           g == r.events
<1>1. /\ r.trend = m.trend /\ r.blocks = m.blocks /\ Len(g) >= Len(e)
      /\ \A k \in 1 .. Len(e) : g[k] = e[k]
      /\ \A k \in Len(e) + 1 .. Len(g) : g[k].type = "SWEEP"
      /\ r \in AnyWalk
  BY SweptEffect
<1>2. e \in Seq(AnyEvent) /\ g \in Seq(AnyEvent) /\ Len(e) \in Nat /\ Len(g) \in Nat
  BY <1>1 DEF AnyWalk
<1>3. DOMAIN e = 1 .. Len(e) /\ DOMAIN g = 1 .. Len(g)
  BY <1>2
<1> HIDE DEF r, e, g
<1>4. \A k \in DOMAIN g : IsBreak(g[k]) => k \in DOMAIN e /\ g[k] = e[k] /\ k < Len(e) + 1
  BY <1>1, <1>2, <1>3 DEF IsBreak
<1>5. \A k \in DOMAIN e : k \in DOMAIN g /\ g[k] = e[k]
  BY <1>1, <1>2, <1>3
<1>6. \A k, l \in DOMAIN e : NoneBetween(g, k, l) => NoneBetween(e, k, l)
  BY <1>5 DEF NoneBetween
<1>7. \A k \in DOMAIN e : NoneBetween(g, k, Len(g) + 1) => NoneBetween(e, k, Len(e) + 1)
  <2>1. TAKE k \in DOMAIN e
  <2>2. SUFFICES ASSUME NoneBetween(g, k, Len(g) + 1), NEW j \in DOMAIN e, IsBreak(e[j])
                 PROVE  j <= k \/ j >= Len(e) + 1
    BY DEF NoneBetween
  <2>3. j \in DOMAIN g /\ IsBreak(g[j]) /\ j < Len(g) + 1
    BY <1>1, <1>2, <1>3, <1>5, <2>2
  <2>4. j <= k \/ j >= Len(g) + 1
    BY <2>2, <2>3 DEF NoneBetween
  <2>5. QED BY <1>2, <1>3, <2>3, <2>4
<1>8. Turns(r)
  <2>1. ASSUME NEW k \in DOMAIN g, IsBreak(g[k]), NoneBetween(g, k, Len(g) + 1)
        PROVE  g[k].direction = r.trend
    <3>1. k \in DOMAIN e /\ g[k] = e[k] /\ NoneBetween(e, k, Len(e) + 1)
      BY <1>4, <1>7, <2>1
    <3>2. e[k].direction = m.trend
      BY <2>1, <3>1 DEF Story, Turns, e
    <3>3. QED BY <1>1, <3>1, <3>2
  <2>2. ASSUME NEW k \in DOMAIN g, NEW l \in DOMAIN g, IsBreak(g[k]), IsBreak(g[l]), k < l,
               NoneBetween(g, k, l)
        PROVE  g[l].type = "CHOCH" <=> g[l].direction # g[k].direction
    <3>1. /\ k \in DOMAIN e /\ g[k] = e[k] /\ l \in DOMAIN e /\ g[l] = e[l]
          /\ NoneBetween(e, k, l)
      BY <1>4, <1>6, <2>2
    <3>2. e[l].type = "CHOCH" <=> e[l].direction # e[k].direction
      BY <2>2, <3>1 DEF Story, Turns, e
    <3>3. QED BY <3>1, <3>2
  <2>3. QED BY <2>1, <2>2 DEF Turns, g
<1>9. Marks(r)
  BY <1>1 DEF Story, Marks
<1>10. PICK f : Enumerates(f, m)
  BY DEF Story
<1>11. Enumerates(f, r)
  <2>1. /\ f \in [1 .. Len(r.blocks) -> 1 .. Len(g)]
        /\ \A a, b \in 1 .. Len(r.blocks) : a < b => f[a] < f[b]
    BY <1>1, <1>2, <1>10 DEF Enumerates, e
  <2>2. ASSUME NEW k \in 1 .. Len(g), g[k].type = "CHOCH"
        PROVE  \E j \in 1 .. Len(r.blocks) : f[j] = k
    <3>1. k \in 1 .. Len(e) /\ e[k].type = "CHOCH"
      BY <1>3, <1>4, <2>2 DEF IsBreak
    <3>2. QED BY <1>1, <1>10, <3>1 DEF Enumerates, e
  <2>3. ASSUME NEW j \in 1 .. Len(r.blocks)
        PROVE  LET x == g[f[j]] IN
                 /\ x.type = "CHOCH" /\ x.direction = r.blocks[j].direction
                 /\ x.index = r.blocks[j].index + 1
    <3>1. j \in 1 .. Len(m.blocks) /\ f[j] \in 1 .. Len(e)
      BY <1>1, <1>10 DEF Enumerates, e
    <3>2. g[f[j]] = e[f[j]]
      BY <1>1, <3>1
    <3>3. QED BY <1>1, <1>10, <3>1, <3>2 DEF Enumerates, e
  <2>4. QED BY <2>1, <2>2, <2>3 DEF Enumerates, g
<1>12. QED BY <1>8, <1>9, <1>11 DEF Story, r

\* A break in the direction of the trend goes on, any other one turns it.
LEMMA BreakKeepsStory ==
    ASSUME NEW m \in AnyWalk, NEW d \in Directions, NEW i \in Int, Story(m)
    PROVE  Story(Break(m, d, i))
<1> DEFINE r == Break(m, d, i)
           e == m.events
           x == Event(IF m.trend = d THEN "BOS" ELSE "CHOCH", d, i)
           g == Append(e, x)
           n == Len(e)
           b == [index |-> i - 1, direction |-> d]
           B == m.blocks
           C == r.blocks
           N == Len(B)
<1>1. /\ r \in AnyWalk /\ r.trend = d /\ r.events = g
      /\ m.trend = d => C = B
      /\ m.trend # d => C = Append(B, b)
  BY BreakEffect
<1>2. /\ x \in AnyEvent /\ IsBreak(x) /\ x.direction = d /\ x.index = i
      /\ x.type = "CHOCH" <=> m.trend # d
  BY DEF Event, AnyEvent, IsBreak
<1>3. e \in Seq(AnyEvent) /\ B \in Seq(AnyBlock)
  BY DEF AnyWalk
<1> HIDE DEF x
<1>4. /\ g \in Seq(AnyEvent) /\ Len(g) = n + 1 /\ n \in Nat
      /\ g[n + 1] = x /\ \A k \in 1 .. n : g[k] = e[k]
      /\ DOMAIN e = 1 .. n /\ DOMAIN g = 1 .. n + 1
  BY <1>2, <1>3
<1>5. N \in Nat /\ DOMAIN B = 1 .. N
  BY <1>3
<1>6. m.trend # d => /\ Len(C) = N + 1 /\ C[N + 1] = b /\ \A j \in 1 .. N : C[j] = B[j]
  BY <1>1, <1>3, <1>5 DEF AnyBlock
<1>7. b.direction = d /\ b.index + 1 = i
  OBVIOUS
<1> HIDE DEF r, e, g, n, b, B, C, N
<1>8. ASSUME NEW k \in DOMAIN g, NEW l, NoneBetween(g, k, l), k < l
      PROVE  /\ l = n + 1 /\ k # n + 1 => NoneBetween(e, k, n + 1)
             /\ l \in 1 .. n => k \in DOMAIN e /\ NoneBetween(e, k, l)
  BY <1>4, <1>8 DEF NoneBetween
<1>9. Turns(r)
  <2>1. ASSUME NEW k \in DOMAIN g, IsBreak(g[k]), NoneBetween(g, k, Len(g) + 1)
        PROVE  g[k].direction = r.trend
    <3>1. n + 1 \in DOMAIN g /\ IsBreak(g[n + 1])
      BY <1>2, <1>4
    <3>2. n + 1 <= k \/ n + 1 >= Len(g) + 1
      BY <2>1, <3>1 DEF NoneBetween
    <3>3. k = n + 1
      BY <1>4, <3>2
    <3>4. QED BY <1>1, <1>2, <1>4, <3>3
  <2>2. ASSUME NEW k \in DOMAIN g, NEW l \in DOMAIN g, IsBreak(g[k]), IsBreak(g[l]), k < l,
               NoneBetween(g, k, l)
        PROVE  g[l].type = "CHOCH" <=> g[l].direction # g[k].direction
    <3>1. CASE l = n + 1
      <4>1. k \in DOMAIN e /\ g[k] = e[k] /\ NoneBetween(e, k, n + 1)
        BY <1>4, <1>8, <2>2, <3>1
      <4>2. e[k].direction = m.trend
        BY <2>2, <4>1 DEF Story, Turns, e, n
      <4>3. QED BY <1>2, <1>4, <3>1, <4>1, <4>2
    <3>2. CASE l # n + 1
      <4>1. /\ l \in 1 .. n /\ k \in DOMAIN e /\ l \in DOMAIN e
            /\ g[k] = e[k] /\ g[l] = e[l] /\ NoneBetween(e, k, l)
        BY <1>4, <1>8, <2>2, <3>2
      <4>2. e[l].type = "CHOCH" <=> e[l].direction # e[k].direction
        BY <2>2, <4>1 DEF Story, Turns, e
      <4>3. QED BY <4>1, <4>2
    <3>3. QED BY <3>1, <3>2
  <2>3. QED BY <1>1, <2>1, <2>2 DEF Turns
<1>10. PICK f : Enumerates(f, m)
  BY DEF Story
<1>11. /\ f \in [1 .. N -> 1 .. n]
       /\ \A a, c \in 1 .. N : a < c => f[a] < f[c]
       /\ \A k \in 1 .. n : e[k].type = "CHOCH" => \E j \in 1 .. N : f[j] = k
       /\ \A j \in 1 .. N : /\ e[f[j]].type = "CHOCH" /\ e[f[j]].direction = B[j].direction
                           /\ e[f[j]].index = B[j].index + 1
  BY <1>10 DEF Enumerates, e, n, B, N
<1>12. CASE m.trend = d
  <2>1. C = B /\ Len(C) = N
    BY <1>1, <1>12 DEF N
  <2>2. Marks(r)
    <3>1. r.trend = m.trend /\ r.blocks = m.blocks
      BY <1>1, <1>12 DEF C, B
    <3>2. QED BY <3>1 DEF Story, Marks
  <2>3. Enumerates(f, r)
    <3>1. f \in [1 .. Len(C) -> 1 .. Len(g)]
      BY <1>4, <1>11, <2>1
    <3>2. ASSUME NEW k \in 1 .. Len(g), g[k].type = "CHOCH" PROVE \E j \in 1 .. Len(C) : f[j] = k
      <4>1. k # n + 1
        BY <1>2, <1>4, <1>12, <3>2
      <4>2. k \in 1 .. n /\ e[k].type = "CHOCH"
        BY <1>4, <3>2, <4>1
      <4>3. QED BY <1>11, <2>1, <4>2
    <3>3. \A j \in 1 .. Len(C) : g[f[j]] = e[f[j]]
      BY <1>4, <1>11, <2>1
    <3>4. QED BY <1>1, <1>11, <2>1, <3>1, <3>2, <3>3 DEF Enumerates, C
  <2>4. QED BY <1>9, <2>2, <2>3 DEF Story, r
<1>13. CASE m.trend # d
  <2> DEFINE h == [j \in 1 .. N + 1 |-> IF j = N + 1 THEN n + 1 ELSE f[j]]
  <2>1. /\ Len(C) = N + 1 /\ C[N + 1] = b /\ \A j \in 1 .. N : C[j] = B[j]
        /\ C # <<>>
    BY <1>5, <1>6, <1>13
  <2>2. Marks(r)
    <3>1. r.trend = C[Len(C)].direction /\ r.trend # "NEUTRAL"
      BY <1>1, <1>7, <2>1 DEF Directions
    <3>2. QED BY <2>1, <3>1 DEF Marks, C
  <2>3. /\ h \in [1 .. N + 1 -> 1 .. n + 1] /\ h[N + 1] = n + 1
        /\ \A j \in 1 .. N : h[j] = f[j] /\ h[j] \in 1 .. n
    BY <1>4, <1>5, <1>11
  <2> HIDE DEF h
  <2>4. \A a, c \in 1 .. N + 1 : a < c => h[a] < h[c]
    <3>1. TAKE a, c \in 1 .. N + 1
    <3>2. CASE c = N + 1
      BY <1>4, <1>5, <2>3, <3>2
    <3>3. CASE c # N + 1
      <4>1. c \in 1 .. N /\ (a < c => a \in 1 .. N)
        BY <1>5, <3>3
      <4>2. QED BY <1>11, <2>3, <4>1
    <3>4. QED BY <3>2, <3>3
  <2>5. ASSUME NEW k \in 1 .. n + 1, g[k].type = "CHOCH" PROVE \E j \in 1 .. N + 1 : h[j] = k
    <3>1. CASE k = n + 1
      BY <1>5, <2>3, <3>1
    <3>2. CASE k # n + 1
      <4>1. k \in 1 .. n /\ e[k].type = "CHOCH"
        BY <1>4, <2>5, <3>2
      <4>2. PICK j \in 1 .. N : f[j] = k
        BY <1>11, <4>1
      <4>3. j \in 1 .. N + 1 /\ h[j] = k
        BY <1>5, <2>3, <4>2
      <4>4. QED BY <4>3
    <3>3. QED BY <3>1, <3>2
  <2>6. ASSUME NEW j \in 1 .. N + 1
        PROVE  /\ g[h[j]].type = "CHOCH" /\ g[h[j]].direction = C[j].direction
               /\ g[h[j]].index = C[j].index + 1
    <3>1. CASE j = N + 1
      <4>1. g[h[j]] = x /\ C[j] = b
        BY <1>4, <2>1, <2>3, <3>1
      <4>2. QED BY <1>2, <1>7, <1>13, <4>1
    <3>2. CASE j # N + 1
      <4>1. j \in 1 .. N
        BY <1>5, <3>2
      <4>2. g[h[j]] = e[f[j]] /\ C[j] = B[j]
        BY <1>4, <2>1, <2>3, <4>1
      <4>3. QED BY <1>11, <4>1, <4>2
    <3>3. QED BY <3>1, <3>2
  <2>7. Enumerates(h, r)
    BY <1>1, <1>4, <2>1, <2>3, <2>4, <2>5, <2>6 DEF Enumerates, C
  <2>8. QED BY <1>9, <2>2, <2>7 DEF Story, r
<1>14. QED BY <1>12, <1>13

LEMMA WalkTellsStory ==
    ASSUME NEW s \in Seq(Bars)
    PROVE  Walks(s)[Len(s)] \in AnyWalk /\ Story(Walks(s)[Len(s)])
<1> DEFINE N == Len(s)
           W == Walks(s)
           D == {i \in 0 .. N : Story(W[i])}
<1>1. N \in Nat
  OBVIOUS
<1>2. /\ W \in [0 .. N -> AnyWalk] /\ W[0] = Unmarked
      /\ \A i \in 1 .. N : W[i] = OneBar(W[i - 1], s, i)
  BY WalksRecur
<1> HIDE DEF W
<1>3. Story(Unmarked)
  <2>1. /\ Unmarked.events = <<>> /\ Unmarked.blocks = <<>> /\ Unmarked.trend = "NEUTRAL"
    BY DEF Unmarked
  <2> DEFINE f == [j \in 1 .. 0 |-> 0]
  <2>2. Turns(Unmarked)
    <3>1. DOMAIN Unmarked.events = {}
      BY <2>1
    <3>2. QED BY <3>1 DEF Turns
  <2>3. Marks(Unmarked)
    BY <2>1 DEF Marks
  <2>4. Enumerates(f, Unmarked)
    <3>1. Len(Unmarked.blocks) = 0 /\ Len(Unmarked.events) = 0 /\ 1 .. 0 = {}
      BY <2>1
    <3>2. f \in [1 .. 0 -> 1 .. 0]
      OBVIOUS
    <3> HIDE DEF f
    <3>3. QED BY <3>1, <3>2 DEF Enumerates
  <2>5. QED BY <2>2, <2>3, <2>4 DEF Story
<1>4. 0 \in D
  BY <1>1, <1>2, <1>3
<1>5. ASSUME NEW i \in 1 .. N, i - 1 \in D PROVE i \in D
  <2> DEFINE m == W[i - 1]
             t == Swept(m, s, i)
  <2>1. m \in AnyWalk /\ Story(m) /\ i \in Int /\ W[i] = OneBar(m, s, i)
    BY <1>2, <1>5
  <2> HIDE DEF m
  <2>2. t \in AnyWalk /\ Story(t)
    BY <2>1, SweptEffect, SweptKeepsStory
  <2> HIDE DEF t
  <2>3. "BULLISH" \in Directions /\ "BEARISH" \in Directions
    BY DEF Directions
  <2>4. Story(Break(t, "BULLISH", i)) /\ Story(Break(t, "BEARISH", i))
    BY <2>1, <2>2, <2>3, BreakKeepsStory
  <2>5. Story(OneBar(m, s, i))
    BY <2>2, <2>4 DEF OneBar, Swept, t
  <2>6. QED BY <2>1, <2>5
<1> HIDE DEF D
<1>6. 0 .. N \subseteq D
  BY <1>1, <1>4, <1>5, InductionUpTo
<1>7. N \in D /\ W[N] \in AnyWalk
  BY <1>1, <1>2, <1>6
<1>8. QED BY <1>7 DEF D, W

-----------------------------------------------------------------------------
(* What is left of the story when the older part was cut off.              *)

LEMMA RecentFacts ==
    ASSUME NEW T, NEW q \in Seq(T), NEW n \in Nat \ {0}
    PROVE  LET r == Recent(q, n)
               cut == Len(q) - Len(r)
           IN  /\ Len(r) \in Nat /\ cut \in Nat /\ DOMAIN r = 1 .. Len(r)
               /\ Len(r) = IF Len(q) > n THEN n ELSE Len(q)
               /\ \A k \in 1 .. Len(r) : r[k] = q[k + cut] /\ k + cut \in 1 .. Len(q)
<1> DEFINE L == Len(q)
           from == IF L > n THEN L - n + 1 ELSE 1
           r == SubSeq(q, from, L)
<1>1. L \in Nat /\ n \in Nat \ {0} /\ from \in Nat \ {0} /\ from <= L + 1
  <2>1. L \in Nat
    OBVIOUS
  <2> HIDE DEF L
  <2>2. CASE L > n
    BY <2>1, <2>2
  <2>3. CASE ~(L > n)
    BY <2>1, <2>3
  <2>4. QED BY <2>2, <2>3
<1>2. L - from + 1 = IF L > n THEN n ELSE L
  <2>1. L \in Nat
    OBVIOUS
  <2> HIDE DEF L
  <2>2. CASE L > n
    BY <2>1, <2>2
  <2>3. CASE ~(L > n)
    BY <2>1, <2>3
  <2>4. QED BY <2>2, <2>3
<1>3. Recent(q, n) = r
  BY DEF Recent
<1> HIDE DEF from
<1>4. /\ Len(r) = L - from + 1
      /\ DOMAIN r = 1 .. L - from + 1
      /\ \A k \in 1 .. L - from + 1 : r[k] = q[k + from - 1]
  <2>1. CASE from <= L
    BY <1>1, <2>1
  <2>2. CASE from = L + 1
    BY <1>1, <2>2
  <2>3. QED BY <1>1, <2>1, <2>2
<1> HIDE DEF L, r
<1>5. /\ Len(r) \in Nat /\ L - Len(r) \in Nat
      /\ \A k \in 1 .. Len(r) :
            k + from - 1 = k + (L - Len(r)) /\ k + (L - Len(r)) \in 1 .. L
  BY <1>1, <1>4
<1>6. QED BY <1>2, <1>3, <1>4, <1>5 DEF L

Increases(f, N) == \A i, j \in 1 .. N : i < j => f[i] < f[j]

\* S holds what f lists from position J on, shifted by cut.
Listed(f, J, N, cut, S) ==
    /\ \A k \in S : k \in Int /\ \E j \in J .. N : f[j] = k + cut
    /\ \A j \in J .. N : f[j] - cut \in S

\* An increasing enumeration lists as many numbers from position J on as there
\* are positions left.
LEMMA RestOfEnumeration ==
    ASSUME NEW N \in Nat, NEW M \in Nat, NEW f \in [1 .. N -> 1 .. M],
           NEW cut \in Nat, NEW J \in 1 .. N + 1, NEW S,
           Increases(f, N), Listed(f, J, N, cut, S)
    PROVE  Cardinality(S) = N + 1 - J
<1> USE DEF Increases, Listed
<1> DEFINE h == [j \in J .. N |-> f[j] - cut]
<1>1. J \in Int /\ N \in Int /\ \A j \in J .. N : j \in 1 .. N /\ f[j] \in Int
  OBVIOUS
<1>2. h \in [J .. N -> S]
  OBVIOUS
<1>3. \A i, j \in J .. N : h[i] = h[j] => i = j
  <2>1. TAKE i, j \in J .. N
  <2>2. SUFFICES ASSUME h[i] = h[j] PROVE i = j
    OBVIOUS
  <2>3. f[i] = f[j] /\ f[i] \in Int /\ f[j] \in Int /\ i \in 1 .. N /\ j \in 1 .. N
    BY <1>1, <2>2
  <2>4. ~(i < j) /\ ~(j < i)
    BY <2>3
  <2>5. QED BY <2>3, <2>4
<1>4. \A k \in S : \E j \in J .. N : h[j] = k
  <2>1. TAKE k \in S
  <2>2. PICK j \in J .. N : f[j] = k + cut
    OBVIOUS
  <2>3. h[j] = k
    BY <2>2
  <2>4. QED BY <2>3
<1> HIDE DEF h
<1>5. h \in Bijection(J .. N, S)
  BY <1>2, <1>3, <1>4 DEF Bijection, Injection, Surjection, IsInjective
<1>6. IsFiniteSet(J .. N) /\ Cardinality(J .. N) = N + 1 - J
  <2>1. IsFiniteSet(J .. N) /\ Cardinality(J .. N) = IF J > N THEN 0 ELSE N - J + 1
    BY <1>1, FS_Interval
  <2>2. QED BY <1>1, <2>1
<1>7. IsFiniteSet(S) /\ Cardinality(S) = Cardinality(J .. N)
  BY <1>5, <1>6, FS_Bijection DEF ExistsBijection
<1>8. QED BY <1>6, <1>7

LEMMA StoryIsTold ==
    ASSUME BarsTypeOK, LimitAssumption, KeptAssumption
    PROVE  TrendFollowsBreaks
<1> DEFINE m == Walks(bars)[Len(bars)]
           E == m.events
           B == m.blocks
           M == Len(E)
           N == Len(B)
           e == Recent(E, MaxEvents)
           blocks == Recent(B, MaxBlocks)
           n == Len(blocks)
           cut == M - Len(e)
           gone == N - n
           Breaks == {k \in DOMAIN e : e[k].type # "SWEEP"}
           Chochs == {k \in DOMAIN e : e[k].type = "CHOCH"}
           Later(k) == {l \in Chochs : l >= k}
<1>1. m \in AnyWalk /\ Story(m)
  BY WalkTellsStory DEF BarsTypeOK
<1> HIDE DEF m
<1>2. E \in Seq(AnyEvent) /\ B \in Seq(AnyBlock) /\ M \in Nat /\ N \in Nat
  BY <1>1 DEF AnyWalk
<1> HIDE DEF E, B
<1>3. /\ Len(e) \in Nat /\ cut \in Nat /\ DOMAIN e = 1 .. Len(e)
      /\ Len(e) = IF M > MaxEvents THEN MaxEvents ELSE M
      /\ \A k \in 1 .. Len(e) : e[k] = E[k + cut] /\ k + cut \in 1 .. M
  BY <1>2, RecentFacts DEF KeptAssumption
<1>4. /\ n \in Nat /\ gone \in Nat /\ DOMAIN blocks = 1 .. n
      /\ n = IF N > MaxBlocks THEN MaxBlocks ELSE N
      /\ \A k \in 1 .. n : blocks[k] = B[k + gone] /\ k + gone \in 1 .. N
  BY <1>2, RecentFacts DEF KeptAssumption
<1>5. DOMAIN E = 1 .. M /\ MaxEvents \in Nat \ {0} /\ MaxBlocks \in Nat \ {0}
  BY <1>2 DEF KeptAssumption
<1>6. /\ Answer(bars).recent_events = e /\ Answer(bars).market_trend = m.trend
      /\ Answer(bars).active_order_blocks_count = n /\ Structure(bars).blocks = blocks
  BY <1>1 DEF Answer, Structure, AnyWalk, m, E, B
<1> HIDE DEF e, blocks, M, N
<1>7. M = Len(e) + cut /\ N = n + gone
  BY <1>2, <1>3, <1>4
<1>sizes. M \in Nat /\ N \in Nat /\ n \in Nat /\ cut \in Nat /\ gone \in Nat /\ Len(e) \in Nat
  BY <1>2, <1>3, <1>4
<1> HIDE DEF cut, gone, n
<1>8. ASSUME NEW k \in DOMAIN e, NEW l \in Int,
             \A j \in Breaks : j <= k \/ j >= l
      PROVE  NoneBetween(E, k + cut, l + cut)
  <2>1. SUFFICES ASSUME NEW j \in 1 .. M, IsBreak(E[j])
                 PROVE  j <= k + cut \/ j >= l + cut
    BY <1>5 DEF NoneBetween
  <2>2. CASE j - cut \in 1 .. Len(e)
    <3>1. e[j - cut] = E[j]
      <4>1. (j - cut) + cut = j
        BY <1>3
      <4>2. QED BY <1>3, <2>2, <4>1
    <3>2. j - cut \in Breaks
      BY <1>3, <2>1, <2>2, <3>1 DEF IsBreak
    <3>3. j - cut <= k \/ j - cut >= l
      BY <1>8, <3>2
    <3>4. QED BY <1>3, <3>3
  <2>3. CASE ~(j - cut \in 1 .. Len(e))
    <3>1. j <= cut
      BY <1>3, <1>7, <2>3
    <3>2. QED BY <1>3, <3>1
  <2>4. QED BY <2>2, <2>3
<1>9. \A k \in Breaks : /\ k \in DOMAIN e /\ e[k] = E[k + cut] /\ k + cut \in DOMAIN E
                        /\ IsBreak(E[k + cut]) /\ k \in Int
  BY <1>3, <1>5 DEF IsBreak
<1>10. ASSUME NEW k \in Breaks, NEW l \in Breaks, k < l, \A j \in Breaks : j <= k \/ j >= l
       PROVE  e[l].type = "CHOCH" <=> e[l].direction # e[k].direction
  <2>1. NoneBetween(E, k + cut, l + cut)
    BY <1>8, <1>9, <1>10
  <2>2. k + cut < l + cut
    BY <1>3, <1>9, <1>10
  <2>3. E[l + cut].type = "CHOCH" <=> E[l + cut].direction # E[k + cut].direction
    BY <1>1, <1>9, <2>1, <2>2 DEF Story, Turns, E
  <2>4. QED BY <1>9, <2>3
<1>11. m.trend = "NEUTRAL" <=> n = 0
  <2>1. m.trend = "NEUTRAL" <=> N = 0
    BY <1>1, <1>2 DEF Story, Marks, B, N
  <2>2. N = 0 <=> n = 0
    BY <1>2, <1>4, <1>5
  <2>3. QED BY <2>1, <2>2
<1>12. n > 0 => m.trend = blocks[n].direction
  <2>1. SUFFICES ASSUME n > 0 PROVE m.trend = blocks[n].direction
    OBVIOUS
  <2>2. N > 0 /\ n \in 1 .. n
    BY <1>4, <1>7, <2>1
  <2>3. m.trend = B[N].direction
    BY <1>1, <1>2, <2>2 DEF Story, Marks, B, N
  <2>4. QED BY <1>4, <1>7, <2>2, <2>3
<1>13. ASSUME NEW k \in Breaks, \A l \in Breaks : l <= k
       PROVE  m.trend = e[k].direction
  <2>1. NoneBetween(E, k + cut, (Len(e) + 1) + cut)
    BY <1>3, <1>8, <1>9, <1>13
  <2>2. (Len(e) + 1) + cut = M + 1
    BY <1>7, <1>sizes
  <2>3. E[k + cut].direction = m.trend
    BY <1>1, <1>9, <2>1, <2>2 DEF Story, Turns, E, M
  <2>4. QED BY <1>9, <2>3
<1>14. PICK f : Enumerates(f, m)
  BY <1>1 DEF Story
<1>15. /\ f \in [1 .. N -> 1 .. M]
       /\ \A a, c \in 1 .. N : a < c => f[a] < f[c]
       /\ \A k \in 1 .. M : E[k].type = "CHOCH" => \E j \in 1 .. N : f[j] = k
       /\ \A j \in 1 .. N : /\ E[f[j]].type = "CHOCH" /\ E[f[j]].direction = B[j].direction
                           /\ E[f[j]].index = B[j].index + 1
  BY <1>14 DEF Enumerates, E, B, M, N
<1>16. \A k \in Chochs : /\ k \in 1 .. Len(e) /\ e[k] = E[k + cut] /\ k + cut \in 1 .. M
                         /\ \E j \in 1 .. N : f[j] = k + cut
  BY <1>3, <1>15
<1>17. \A j \in 1 .. N : f[j] > cut => f[j] - cut \in Chochs
  <2>1. TAKE j \in 1 .. N
  <2>2. SUFFICES ASSUME f[j] > cut PROVE f[j] - cut \in Chochs
    OBVIOUS
  <2>3. f[j] \in 1 .. M /\ f[j] - cut \in 1 .. Len(e) /\ (f[j] - cut) + cut = f[j]
    <3> DEFINE x == f[j]
    <3>1. x \in 1 .. M /\ x > cut
      BY <1>15, <2>2
    <3> HIDE DEF x
    <3>2. x - cut \in 1 .. Len(e) /\ (x - cut) + cut = x
      BY <1>7, <1>sizes, <3>1
    <3>3. QED BY <3>1, <3>2 DEF x
  <2>4. e[f[j] - cut] = E[f[j]]
    BY <1>3, <2>3
  <2>5. QED BY <1>3, <1>15, <2>3, <2>4
<1> DEFINE BlockOf(k) == n + 1 - Cardinality(Later(k))
<1>18. ASSUME NEW k \in Chochs, BlockOf(k) > 0
       PROVE  /\ e[k].direction = blocks[BlockOf(k)].direction
              /\ e[k].index = blocks[BlockOf(k)].index + 1
  <2>1. PICK J \in 1 .. N : f[J] = k + cut
    BY <1>16
  <2>2. Cardinality(Later(k)) = N + 1 - J
    <3>1. \A l \in Later(k) : l \in Int /\ \E j \in J .. N : f[j] = l + cut
      <4>1. TAKE l \in Later(k)
      <4>2. l \in Chochs /\ l >= k /\ l \in Int /\ k \in Int
        BY <1>16
      <4>3. PICK j \in 1 .. N : f[j] = l + cut
        BY <1>16, <4>2
      <4>4. ~(f[j] < f[J])
        BY <1>3, <2>1, <4>2, <4>3
      <4>5. ~(j < J)
        BY <1>15, <4>4
      <4>6. j \in J .. N
        BY <1>2, <4>5
      <4>7. QED BY <4>2, <4>3, <4>6
    <3>2. \A j \in J .. N : f[j] - cut \in Later(k)
      <4>1. TAKE j \in J .. N
      <4>2. j \in 1 .. N /\ (j = J \/ J < j)
        BY <1>2
      <4>3. f[J] <= f[j] /\ f[j] \in Int /\ k \in Int
        BY <1>15, <1>16, <4>2
      <4>4. f[j] > cut /\ f[j] - cut >= k
        BY <1>3, <1>16, <2>1, <4>3
      <4>5. QED BY <1>17, <4>2, <4>4
    <3>3. J \in 1 .. N + 1
      BY <1>sizes
    <3>4. /\ f \in [1 .. N -> 1 .. M] /\ Increases(f, N)
          /\ N \in Nat /\ M \in Nat /\ cut \in Nat
      BY <1>15, <1>sizes DEF Increases
    <3> DEFINE S == Later(k)
    <3>5. Listed(f, J, N, cut, S)
      BY <3>1, <3>2 DEF Listed
    <3> HIDE DEF S
    <3> HIDE DEF Increases, Listed
    <3>6. Cardinality(S) = N + 1 - J
      BY ONLY <3>3, <3>4, <3>5, RestOfEnumeration
    <3>7. QED BY <3>6 DEF S
  <2>3. BlockOf(k) = J - gone /\ J - gone \in 1 .. n /\ (J - gone) + gone = J
    <3> DEFINE x == Cardinality(Later(k))
    <3>1. x = N + 1 - J /\ n + 1 - x > 0
      BY <1>18, <2>2
    <3>2. BlockOf(k) = n + 1 - x
      OBVIOUS
    <3> HIDE DEF x, BlockOf
    <3>3. J \in Int /\ J <= N
      BY <1>sizes
    <3>4. n + 1 - x = J - gone
      BY <1>7, <1>sizes, <3>1, <3>3
    <3>5. J - gone \in 1 .. n /\ (J - gone) + gone = J
      BY <1>7, <1>sizes, <3>1, <3>3, <3>4
    <3>6. QED BY <3>2, <3>4, <3>5
  <2>4. blocks[BlockOf(k)] = B[J]
    BY <1>4, <2>3
  <2>5. e[k] = E[f[J]]
    BY <1>16, <2>1
  <2>6. QED BY <1>15, <2>4, <2>5
<1> DEFINE c == Cardinality(Chochs)
<1>19. c \in Nat /\ c <= N /\ (cut = 0 => c = N)
  <2> DEFINE P == {j \in 1 .. N : f[j] > cut}
             h == [j \in P |-> f[j] - cut]
  <2>1. h \in [P -> Chochs]
    BY <1>17
  <2>2. \A i, j \in P : h[i] = h[j] => i = j
    <3>1. TAKE i, j \in P
    <3>2. SUFFICES ASSUME h[i] = h[j] PROVE i = j
      OBVIOUS
    <3>3. /\ i \in 1 .. N /\ j \in 1 .. N /\ f[i] \in Int /\ f[j] \in Int
          /\ f[i] - cut = f[j] - cut
      BY <1>15, <3>2
    <3>4. ~(f[i] < f[j]) /\ ~(f[j] < f[i])
      BY <1>3, <3>3
    <3>5. ~(i < j) /\ ~(j < i)
      BY <1>15, <3>3, <3>4
    <3>6. QED BY <1>2, <3>3, <3>5
  <2>3. \A k \in Chochs : \E j \in P : h[j] = k
    <3>1. TAKE k \in Chochs
    <3>2. PICK j \in 1 .. N : f[j] = k + cut
      BY <1>16
    <3>3. k \in Int /\ k >= 1
      BY <1>16
    <3>4. j \in P /\ f[j] - cut = k
      BY <1>3, <3>2, <3>3
    <3>5. QED BY <3>4
  <2>4. IsFiniteSet(1 .. N) /\ Cardinality(1 .. N) = N
    <3>1. N \in Nat /\ 1 \in Int /\ N \in Int
      BY <1>sizes
    <3>2. /\ IsFiniteSet(1 .. N)
          /\ Cardinality(1 .. N) = IF 1 > N THEN 0 ELSE N - 1 + 1
      BY <3>1, FS_Interval
    <3>3. QED BY <3>1, <3>2
  <2>5. IsFiniteSet(P) /\ Cardinality(P) \in Nat /\ Cardinality(P) <= N
    <3>1. P \subseteq 1 .. N
      OBVIOUS
    <3> HIDE DEF P
    <3>2. QED BY <2>4, <3>1, FS_Subset, FS_CardinalityType
  <2>6. cut = 0 => P = 1 .. N
    BY <1>15
  <2> HIDE DEF h, P
  <2>7. h \in Bijection(P, Chochs)
    BY <2>1, <2>2, <2>3 DEF Bijection, Injection, Surjection, IsInjective
  <2>8. Cardinality(Chochs) = Cardinality(P)
    <3> HIDE DEF Chochs
    <3>1. QED BY <2>5, <2>7, FS_Bijection DEF ExistsBijection
  <2>9. QED BY <2>4, <2>5, <2>6, <2>8
<1>20. n <= c \/ Len(e) = MaxEvents
  <2>1. CASE M > MaxEvents
    BY <1>3, <2>1
  <2>2. CASE ~(M > MaxEvents)
    <3>1. cut = 0
      BY <1>2, <1>3, <1>5, <1>7, <2>2
    <3>2. QED BY <1>2, <1>4, <1>7, <1>19, <3>1
  <2>3. QED BY <2>1, <2>2
<1>21. c <= n \/ n = MaxBlocks
  BY <1>2, <1>4, <1>5, <1>7, <1>19
<1> HIDE DEF c, Later
<1>22. QED
  BY <1>6, <1>10, <1>11, <1>12, <1>13, <1>18, <1>20, <1>21
     DEF TrendFollowsBreaks, OneStory, c, Later

\* A reader of the structure is told one story: the trend, the breaks and
\* reversals of the answer and its order blocks agree, also where the older events
\* and blocks are cut off (analyze_market_structure, compute_analytics).
THEOREM BreaksTellTrend == CandlesSpec => []TrendFollowsBreaks
<1>1. BarsTypeOK => TrendFollowsBreaks
  BY StoryIsTold, LimitAssumption, KeptAssumption
<1>2. QED BY <1>1, WindowType, PTL

-----------------------------------------------------------------------------
(* Sums.                                                                   *)

Numbers(N) == [1 .. N -> Int]

LEMMA SumsRecur ==
    ASSUME NEW N \in Nat, NEW f \in Numbers(N)
    PROVE  /\ Len(f) = N /\ Total(f) = Sums(f)[N]
           /\ Sums(f) \in [0 .. N -> Int]
           /\ Sums(f)[0] = 0
           /\ \A n \in 1 .. N : Sums(f)[n] = Sums(f)[n - 1] + f[n]
<1> DEFINE step == [n \in 1 .. N |-> [x \in Int |-> x + f[n]]]
<1>1. f \in [1 .. N -> Int] /\ f \in Seq(Int) /\ Len(f) = N
  BY DEF Numbers
<1>2. step \in [1 .. N -> [Int -> Int]]
  BY <1>1
<1>3. PICK g \in [0 .. N -> Int] : Loop(g, N, 0, step)
  <2> HIDE DEF step
  <2>1. 0 \in Int
    OBVIOUS
  <2>2. QED BY <1>2, <2>1, Recursion
<1>4. \A n \in 1 .. N : n - 1 \in 0 .. N /\ g[n] = g[n - 1] + f[n]
  <2>1. TAKE n \in 1 .. N
  <2>2. n - 1 \in 0 .. N /\ n \in 0 .. N
    OBVIOUS
  <2>3. g[n - 1] \in Int
    BY <1>3, <2>2
  <2>4. step[n][g[n - 1]] = g[n - 1] + f[n]
    BY <2>3
  <2>5. g[n] = step[n][g[n - 1]]
    BY <1>3 DEF Loop
  <2>6. QED BY <2>2, <2>4, <2>5
<1>5. g = [n \in 0 .. N |-> IF n = 0 THEN 0 ELSE g[n - 1] + f[n]]
  <2>1. \A n \in 0 .. N : g[n] = IF n = 0 THEN 0 ELSE g[n - 1] + f[n]
    BY <1>3, <1>4 DEF Loop
  <2> HIDE DEF step
  <2>2. QED BY <1>3, <2>1
<1> DEFINE F == Sums(f)
<1>6. F = [n \in 0 .. N |-> IF n = 0 THEN 0 ELSE F[n - 1] + f[n]]
  BY <1>1, <1>5 DEF Sums
<1>7. Total(f) = F[N]
  BY <1>1 DEF Total
<1> HIDE DEF F
<1>8. F[0] = 0 /\ \A n \in 1 .. N : F[n] = F[n - 1] + f[n]
  BY <1>6
<1> DEFINE D == {n \in 0 .. N : F[n] \in Int}
<1>9. 0 \in D
  BY <1>8
<1>10. ASSUME NEW n \in 1 .. N, n - 1 \in D PROVE n \in D
  <2>1. F[n - 1] \in Int /\ f[n] \in Int /\ F[n] = F[n - 1] + f[n]
    BY <1>1, <1>8, <1>10
  <2>2. QED BY <2>1
<1> HIDE DEF D
<1>11. 0 .. N \subseteq D
  BY <1>9, <1>10, InductionUpTo
<1>12. \A n \in 0 .. N : F[n] \in Int
  BY <1>11 DEF D
<1>13. F \in [0 .. N -> Int]
  BY <1>6, <1>12
<1>14. QED BY <1>1, <1>7, <1>8, <1>13 DEF F

LEMMA TotalType ==
    ASSUME NEW N \in Nat, NEW f \in Numbers(N)
    PROVE  Total(f) \in Int
BY SumsRecur

\* What an element adds to a sum depends on nothing else.
LEMMA TotalAtMost ==
    ASSUME NEW N \in Nat, NEW f \in Numbers(N), NEW g \in Numbers(N),
           \A n \in 1 .. N : f[n] <= g[n]
    PROVE  Total(f) <= Total(g)
<1> DEFINE F == Sums(f)
           G == Sums(g)
           D == {n \in 0 .. N : F[n] <= G[n]}
<1>1. /\ F \in [0 .. N -> Int] /\ F[0] = 0 /\ Total(f) = F[N]
      /\ \A n \in 1 .. N : F[n] = F[n - 1] + f[n]
  BY SumsRecur
<1>2. /\ G \in [0 .. N -> Int] /\ G[0] = 0 /\ Total(g) = G[N]
      /\ \A n \in 1 .. N : G[n] = G[n - 1] + g[n]
  BY SumsRecur
<1> HIDE DEF F, G
<1>3. 0 \in D
  BY <1>1, <1>2
<1>4. ASSUME NEW n \in 1 .. N, n - 1 \in D PROVE n \in D
  <2>1. n - 1 \in 0 .. N /\ n \in 0 .. N
    OBVIOUS
  <2>2. F[n - 1] \in Int /\ G[n - 1] \in Int /\ f[n] \in Int /\ g[n] \in Int
    BY <1>1, <1>2, <2>1 DEF Numbers
  <2>3. F[n - 1] <= G[n - 1] /\ f[n] <= g[n]
    BY <1>4
  <2>4. F[n] <= G[n]
    BY <1>1, <1>2, <2>2, <2>3
  <2>5. QED BY <2>1, <2>4
<1> HIDE DEF D
<1>5. 0 .. N \subseteq D
  BY <1>3, <1>4, InductionUpTo
<1>6. N \in 0 .. N
  OBVIOUS
<1>7. F[N] <= G[N]
  BY <1>5, <1>6 DEF D
<1>8. QED BY <1>1, <1>2, <1>7

\* A number and a multiple of another one, also element by element.
WithTimes(x, c, y) == x + c * y
Plus(f, c, g, N) == [n \in 1 .. N |-> f[n] + c * g[n]]

LEMMA TotalLinear ==
    ASSUME NEW N \in Nat, NEW f \in Numbers(N), NEW g \in Numbers(N), NEW c \in Int
    PROVE  /\ Plus(f, c, g, N) \in Numbers(N)
           /\ Total(Plus(f, c, g, N)) = WithTimes(Total(f), c, Total(g))
<1> DEFINE h == Plus(f, c, g, N)
           F == Sums(f)
           G == Sums(g)
           H == Sums(h)
           D == {n \in 0 .. N : H[n] = F[n] + c * G[n]}
<1>1. /\ F \in [0 .. N -> Int] /\ F[0] = 0 /\ Total(f) = F[N]
      /\ \A n \in 1 .. N : F[n] = F[n - 1] + f[n]
  BY SumsRecur
<1>2. /\ G \in [0 .. N -> Int] /\ G[0] = 0 /\ Total(g) = G[N]
      /\ \A n \in 1 .. N : G[n] = G[n - 1] + g[n]
  BY SumsRecur
<1>3. h \in Numbers(N) /\ \A n \in 1 .. N : h[n] = f[n] + c * g[n]
  BY DEF Numbers, Plus
<1> HIDE DEF h
<1>4. /\ H[0] = 0 /\ Total(h) = H[N]
      /\ \A n \in 1 .. N : H[n] = H[n - 1] + h[n]
  BY <1>3, SumsRecur
<1> HIDE DEF F, G, H
<1>5. 0 \in D
  <2>1. c * 0 = 0 /\ 0 \in 0 .. N
    OBVIOUS
  <2>2. c * G[0] = 0
    BY <1>2, <2>1
  <2>3. H[0] = F[0] + c * G[0]
    BY <1>1, <1>4, <2>2
  <2>4. QED BY <2>1, <2>3
<1>6. ASSUME NEW n \in 1 .. N, n - 1 \in D PROVE n \in D
  <2>1. n - 1 \in 0 .. N /\ n \in 0 .. N
    OBVIOUS
  <2>2. F[n - 1] \in Int /\ G[n - 1] \in Int /\ f[n] \in Int /\ g[n] \in Int
    BY <1>1, <1>2, <2>1 DEF Numbers
  <2>3. c * (G[n - 1] + g[n]) = c * G[n - 1] + c * g[n]
    <3> DEFINE x == G[n - 1]
               y == g[n]
    <3>1. x \in Int /\ y \in Int
      BY <2>2
    <3> HIDE DEF x, y
    <3>2. c * (x + y) = c * x + c * y
      BY <3>1
    <3>3. QED BY <3>2 DEF x, y
  <2>4. c * G[n - 1] \in Int /\ c * g[n] \in Int
    BY <2>2
  <2>5. H[n - 1] = F[n - 1] + c * G[n - 1]
    BY <1>6
  <2>6. H[n] = (F[n - 1] + c * G[n - 1]) + (f[n] + c * g[n])
    BY <1>3, <1>4, <2>5
  <2>7. F[n] + c * G[n] = (F[n - 1] + f[n]) + (c * G[n - 1] + c * g[n])
    BY <1>1, <1>2, <2>3
  <2>8. H[n] = F[n] + c * G[n]
    <3> DEFINE x == c * G[n - 1]
               y == c * g[n]
    <3> HIDE DEF x, y
    <3>1. QED BY <2>2, <2>4, <2>6, <2>7 DEF x, y
  <2>9. QED BY <2>1, <2>8
<1> HIDE DEF D
<1>7. 0 .. N \subseteq D
  BY <1>5, <1>6, InductionUpTo
<1>8. N \in 0 .. N
  OBVIOUS
<1>9. H[N] = F[N] + c * G[N]
  BY <1>7, <1>8 DEF D
<1>10. QED BY <1>1, <1>2, <1>3, <1>4, <1>9 DEF h, WithTimes

\* A cardinality is a sum of ones.
Ones(S, N) == [n \in 1 .. N |-> IF n \in S THEN 1 ELSE 0]

LEMMA CardinalityIsTotal ==
    ASSUME NEW N \in Nat, NEW S \in SUBSET (1 .. N)
    PROVE  /\ Ones(S, N) \in Numbers(N)
           /\ IsFiniteSet(S) /\ Total(Ones(S, N)) = Cardinality(S)
<1> DEFINE f == Ones(S, N)
           F == Sums(f)
           Upto(n) == S \cap 1 .. n
           D == {n \in 0 .. N : IsFiniteSet(Upto(n)) /\ F[n] = Cardinality(Upto(n))}
<1>1. f \in Numbers(N) /\ \A n \in 1 .. N : f[n] = IF n \in S THEN 1 ELSE 0
  BY DEF Ones, Numbers
<1> HIDE DEF f
<1>2. /\ F[0] = 0 /\ Total(f) = F[N]
      /\ \A n \in 1 .. N : F[n] = F[n - 1] + f[n]
  BY <1>1, SumsRecur
<1> HIDE DEF F
<1>3. 0 \in D
  <2>1. Upto(0) = {} /\ 0 \in 0 .. N
    OBVIOUS
  <2>2. QED BY <1>2, <2>1, FS_EmptySet
<1>4. ASSUME NEW n \in 1 .. N, n - 1 \in D PROVE n \in D
  <2>1. n - 1 \in 0 .. N /\ n \in 0 .. N
    OBVIOUS
  <2>2. IsFiniteSet(Upto(n - 1)) /\ F[n - 1] = Cardinality(Upto(n - 1))
    BY <1>4
  <2>3. Cardinality(Upto(n - 1)) \in Nat /\ n \notin Upto(n - 1)
    BY <2>2, FS_CardinalityType
  <2>4. CASE n \in S
    <3>1. Upto(n) = Upto(n - 1) \cup {n}
      BY <2>4
    <3> DEFINE U == Upto(n - 1)
    <3> HIDE DEF Upto
    <3>2. IsFiniteSet(Upto(n)) /\ Cardinality(Upto(n)) = Cardinality(Upto(n - 1)) + 1
      <4>1. IsFiniteSet(U) /\ n \notin U
        BY <2>2, <2>3
      <4> HIDE DEF U
      <4>2. IsFiniteSet(U \cup {n}) /\ Cardinality(U \cup {n}) = Cardinality(U) + 1
        BY <4>1, FS_AddElement
      <4>3. QED BY <3>1, <4>2 DEF U
    <3>3. F[n] = F[n - 1] + 1
      BY <1>1, <1>2, <2>4
    <3>4. QED BY <2>1, <2>2, <3>2, <3>3
  <2>5. CASE n \notin S
    <3>1. Upto(n) = Upto(n - 1)
      BY <2>5
    <3> HIDE DEF Upto
    <3>2. F[n] = F[n - 1] + 0
      BY <1>1, <1>2, <2>5
    <3>3. QED BY <2>1, <2>2, <2>3, <3>1, <3>2
  <2>6. QED BY <2>4, <2>5
<1> HIDE DEF D
<1>5. 0 .. N \subseteq D
  BY <1>3, <1>4, InductionUpTo
<1>6. N \in 0 .. N /\ Upto(N) = S
  <2>1. S \cap 1 .. N = S
    OBVIOUS
  <2>2. QED BY <2>1
<1>7. IsFiniteSet(S) /\ F[N] = Cardinality(S)
  BY <1>5, <1>6 DEF D
<1>8. QED BY <1>1, <1>2, <1>7 DEF f

-----------------------------------------------------------------------------
(* The measures of a book.                                                 *)

\* A rounded quotient is at most half a unit away, and even if it is half a unit.
Halfway(a, b, x) == 2 * (b * x) = 2 * a + b \/ 2 * a - b = 2 * (b * x)

LEMMA RoundedNearest ==
    ASSUME NEW a \in Nat, NEW b \in Nat \ {0}
    PROVE  /\ Rounded(a, b) \in Nat
           /\ 2 * (b * Rounded(a, b)) <= 2 * a + b
           /\ 2 * a - b <= 2 * (b * Rounded(a, b))
           /\ Halfway(a, b, Rounded(a, b)) => Rounded(a, b) % 2 = 0
<1> DEFINE q == a \div b
           r == a % b
           x == Rounded(a, b)
<1>1. q \in Nat /\ r \in 0 .. (b - 1) /\ a = b * q + r
  OBVIOUS
<1>2. b * (q + 1) = b * q + b /\ b * q \in Nat
  BY <1>1
<1>3. \/ x = q /\ 2 * r <= b /\ (2 * r = b => q % 2 = 0)
      \/ x = q + 1 /\ 2 * r >= b /\ (2 * r = b => q % 2 # 0)
  BY <1>1 DEF Rounded
<1> HIDE DEF q, r, x
<1>4. CASE x = q /\ 2 * r <= b /\ (2 * r = b => q % 2 = 0)
  <2>1. b * x = a - r
    BY <1>1, <1>2, <1>4
  <2>2. Halfway(a, b, x) => 2 * r = b
    BY <1>1, <2>1 DEF Halfway
  <2>3. QED BY <1>1, <1>4, <2>1, <2>2 DEF x
<1>5. CASE x = q + 1 /\ 2 * r >= b /\ (2 * r = b => q % 2 # 0)
  <2>1. b * x = a - r + b
    BY <1>1, <1>2, <1>5
  <2>2. Halfway(a, b, x) => 2 * r = b
    BY <1>1, <2>1 DEF Halfway
  <2>3. q % 2 # 0 => x % 2 = 0
    BY <1>1, <1>5
  <2>4. QED BY <1>1, <1>5, <2>1, <2>2, <2>3 DEF x
<1>6. QED BY <1>3, <1>4, <1>5

\* Rounding keeps the order of quotients, also between ties.
LEMMA RoundedMonotone ==
    ASSUME NEW a \in Nat, NEW b \in Nat \ {0}, NEW c \in Nat, NEW d \in Nat \ {0},
           a * d <= c * b
    PROVE  Rounded(a, b) <= Rounded(c, d)
<1> DEFINE x == Rounded(a, b)
           y == Rounded(c, d)
           e == b * d
           f == 2 * (b * x)
           g == 2 * a + b
           h == 2 * c - d
           k == 2 * (d * y)
<1>1. /\ x \in Nat /\ f <= g /\ (Halfway(a, b, x) => x % 2 = 0)
      /\ y \in Nat /\ h <= k /\ (Halfway(c, d, y) => y % 2 = 0)
  BY RoundedNearest
<1> HIDE DEF x, y
<1>2. SUFFICES ASSUME x >= y + 1 PROVE FALSE
  BY <1>1 DEF x, y
<1>3. f \in Int /\ g \in Int /\ h \in Int /\ k \in Int
  BY <1>1
<1>4. e \in Nat \ {0} /\ a * d \in Nat /\ c * b \in Nat
  OBVIOUS
<1>5. /\ f * d = 2 * (x * e) /\ g * d = 2 * (a * d) + e
      /\ h * b = 2 * (c * b) - e /\ k * b = 2 * (y * e)
  BY <1>1
<1>6. x * e \in Int /\ y * e \in Int /\ (y + 1) * e = y * e + e /\ (y + 2) * e = y * e + e + e
  BY <1>1
<1> HIDE DEF e, f, g, h, k
<1>7. f * d <= g * d /\ h * b <= k * b
  BY <1>1, <1>3, TimesMonotone
<1>8. (y + 1) * e <= x * e
  BY <1>1, <1>2, <1>4, TimesMonotone
<1>9. f * d = g * d /\ h * b = k * b /\ x * e = y * e + e
  BY <1>4, <1>5, <1>6, <1>7, <1>8
<1>10. f = g /\ h = k
  <2>1. g <= f
    BY <1>3, <1>9, TimesCancel
  <2>2. k <= h
    BY <1>3, <1>9, TimesCancel
  <2>3. QED BY <1>1, <1>3, <2>1, <2>2
<1>11. x = y + 1
  <2>1. SUFFICES ASSUME x >= y + 2 PROVE FALSE
    BY <1>1, <1>2
  <2>2. (y + 2) * e <= x * e
    BY <1>1, <1>4, <2>1, TimesMonotone
  <2>3. QED BY <1>4, <1>6, <1>9, <2>2
<1>12. x % 2 = 0 /\ y % 2 = 0
  BY <1>1, <1>10 DEF Halfway, f, g, h, k
<1>13. QED BY <1>1, <1>11, <1>12

\* What is rounded is at most half a unit outside what it lay between.
LEMMA RoundedStaysWithin ==
    ASSUME NEW a \in Nat, NEW w \in Nat \ {0}, NEW lo \in Nat, NEW hi \in Nat,
           Grain \in Nat \ {0}, lo * w <= a, a <= hi * w
    PROVE  Within(Rounded(a, w * Grain), lo, hi)
<1> DEFINE x == Rounded(a, w * Grain)
           f == 2 * lo - Grain
           g == 2 * Grain * x
           h == 2 * hi + Grain
<1>1. w * Grain \in Nat \ {0}
  OBVIOUS
<1>2. /\ x \in Nat
      /\ 2 * ((w * Grain) * x) <= 2 * a + w * Grain
      /\ 2 * a - w * Grain <= 2 * ((w * Grain) * x)
  BY <1>1, RoundedNearest
<1> HIDE DEF x
<1>3. /\ f * w = 2 * (lo * w) - w * Grain
      /\ g * w = 2 * ((w * Grain) * x)
      /\ h * w = 2 * (hi * w) + w * Grain
  BY <1>2
<1>4. f \in Int /\ g \in Int /\ h \in Int
  BY <1>2
<1>5. lo * w \in Int /\ hi * w \in Int /\ w * Grain \in Int /\ (w * Grain) * x \in Int
  BY <1>2
<1> HIDE DEF f, g, h
<1>6. f * w <= g * w /\ g * w <= h * w
  BY <1>2, <1>3, <1>5
<1>7. f <= g /\ g <= h
  BY <1>4, <1>6, TimesCancel
<1>8. QED BY <1>7 DEF Within, f, g, h, x

Level == [price : Nat, size : Nat]

LEMMA TopFacts ==
    ASSUME DepthAssumption, NEW side \in Side
    PROVE  LET N == Len(Top(side))
           IN  /\ N \in Nat /\ N <= Levels /\ N <= Len(side)
               /\ DOMAIN Top(side) = 1 .. N
               /\ side # <<>> => N > 0
               /\ \A i \in 1 .. N : side[i].size \in Nat
<1> DEFINE L == Len(side)
           M == IF L < Levels THEN L ELSE Levels
           top == SubSeq(side, 1, M)
<1>1. side \in Seq(Level) /\ L \in Nat /\ Levels \in Nat \ {0}
  BY DEF Side, Level, DepthAssumption
<1>2. \A i \in 1 .. L : side[i].size \in Nat
  <2>1. \A i \in 1 .. L : side[i] \in Level
    BY <1>1
  <2>2. QED BY <2>1 DEF Level
<1>3. M \in Nat /\ M <= L /\ M <= Levels /\ (L > 0 => M > 0)
  <2> HIDE DEF L
  <2>1. QED BY <1>1
<1>4. Top(side) = top
  BY DEF Top
<1> HIDE DEF M
<1>5. Len(top) = M /\ DOMAIN top = 1 .. M
  BY <1>1, <1>3
<1>6. side # <<>> => L > 0
  BY <1>1
<1> HIDE DEF L, top
<1>7. LET N == Len(Top(side))
      IN  /\ N \in Nat /\ N <= Levels /\ N <= L /\ DOMAIN Top(side) = 1 .. N
          /\ side # <<>> => N > 0
  BY <1>3, <1>4, <1>5, <1>6
<1>8. \A i \in 1 .. Len(Top(side)) : side[i].size \in Nat
  <2>1. \A i \in 1 .. Len(Top(side)) : i \in 1 .. L
    BY <1>1, <1>7
  <2>2. QED BY <1>2, <2>1
<1>9. QED BY <1>7, <1>8 DEF L

LEMMA WallsStand ==
    ASSUME DepthAssumption, NEW side \in Side, side # <<>>
    PROVE  WallsStandOut(Walls(side), side)
<1> DEFINE N == Len(Top(side))
           x == [i \in 1 .. N |-> side[i].size]
           d == Depth(side)
           W == Walls(side)
           w == Ones(W, N)
           zero == [i \in 1 .. N |-> 0]
           k == WallFactor * d
<1>1. /\ N \in Nat \ {0} /\ N <= Levels /\ DOMAIN Top(side) = 1 .. N
      /\ \A i \in 1 .. N : side[i].size \in Nat
  BY TopFacts
<1>2. WallFactor \in Nat \ {0} /\ Levels \in Nat \ {0}
  BY DEF DepthAssumption
<1> HIDE DEF N
<1>3. /\ x \in Numbers(N) /\ zero \in Numbers(N)
      /\ \A i \in 1 .. N : x[i] = side[i].size /\ x[i] \in Nat /\ zero[i] = 0
  BY <1>1 DEF Numbers
<1>4. d = Total(x)
  BY <1>1 DEF Depth
<1>5. W = {i \in 1 .. N : d > 0 /\ x[i] * N >= WallFactor * d}
  BY <1>1, <1>3 DEF Walls, N
<1> HIDE DEF x, zero, d
<1>6. d \in Int
  BY <1>1, <1>3, <1>4, TotalType
<1>7. k \in Int
  BY <1>2, <1>6
<1>8. W = {i \in 1 .. N : d > 0 /\ x[i] * N >= k}
  BY <1>5
<1> HIDE DEF W, k
<1>9. w \in Numbers(N) /\ Total(w) = Cardinality(W) /\ IsFiniteSet(W)
      /\ \A i \in 1 .. N : w[i] = IF i \in W THEN 1 ELSE 0
  <2>1. W \in SUBSET (1 .. N)
    BY <1>8
  <2>2. \A i \in 1 .. N : w[i] = IF i \in W THEN 1 ELSE 0
    BY DEF Ones
  <2> HIDE DEF w
  <2>3. QED BY <1>1, <2>1, <2>2, CardinalityIsTotal DEF w
<1> HIDE DEF w
\* The shares of the walls in the depth.
<1>10. Total(zero) + k * Total(w) <= Total(zero) + N * Total(x)
  <2> DEFINE f == Plus(zero, k, w, N)
             g == Plus(zero, N, x, N)
  <2>1. f \in Numbers(N) /\ Total(f) = WithTimes(Total(zero), k, Total(w))
    <3>1. N \in Nat /\ zero \in Numbers(N) /\ w \in Numbers(N)
      BY <1>1, <1>3, <1>9
    <3>2. QED BY <1>7, <3>1, TotalLinear
  <2>2. g \in Numbers(N) /\ Total(g) = WithTimes(Total(zero), N, Total(x))
    <3>1. N \in Nat /\ N \in Int
      BY <1>1
    <3>2. x \in Numbers(N) /\ zero \in Numbers(N)
      BY <1>3
    <3>3. QED BY <3>1, <3>2, TotalLinear
  <2>3. \A i \in 1 .. N : f[i] <= g[i]
    <3>1. TAKE i \in 1 .. N
    <3>2. f[i] = zero[i] + k * w[i] /\ g[i] = zero[i] + N * x[i] /\ zero[i] = 0
      BY <1>3 DEF Plus
    <3> HIDE DEF f, g
    <3>3. x[i] \in Nat /\ N * x[i] \in Nat /\ x[i] * N = N * x[i]
      BY <1>1, <1>3
    <3>4. CASE i \in W
      <4>1. k * w[i] = k
        BY <1>7, <1>9, <3>4
      <4>2. k <= N * x[i]
        BY <1>8, <3>3, <3>4
      <4>3. QED BY <1>7, <3>2, <3>3, <4>1, <4>2
    <3>5. CASE i \notin W
      <4>1. k * w[i] = 0
        BY <1>7, <1>9, <3>5
      <4>2. QED BY <3>2, <3>3, <4>1
    <3>6. QED BY <3>4, <3>5
  <2> HIDE DEF f, g
  <2>4. Total(f) <= Total(g)
    BY <1>1, <2>1, <2>2, <2>3, TotalAtMost
  <2>5. QED BY <2>1, <2>2, <2>4 DEF WithTimes
<1>11. CASE d <= 0
  <2>1. W = {}
    BY <1>6, <1>8, <1>11
  <2>2. WallFactor * Cardinality(W) = 0
    BY <1>2, <2>1, FS_EmptySet
  <2>3. QED BY <1>2, <2>1, <2>2 DEF WallsStandOut, W
<1>12. ASSUME d > 0 PROVE WallFactor * Cardinality(W) <= Levels
  <2> DEFINE c == Cardinality(W)
             z == Total(zero)
             y == WallFactor * c
  <2>1. c \in Nat /\ z \in Int
    BY <1>1, <1>3, <1>9, FS_CardinalityType, TotalType
  <2>2. z + k * c <= z + N * d
    BY <1>4, <1>9, <1>10
  <2>3. y \in Int
    BY <1>2, <2>1
  <2>4. k * c = y * d
    <3> HIDE DEF c
    <3>1. (WallFactor * d) * c = (WallFactor * c) * d
      BY <1>2, <1>6, <2>1
    <3>2. QED BY <3>1 DEF k
  <2> HIDE DEF c, z, y
  <2>5. y * d \in Int /\ N * d \in Int
    BY <1>1, <1>6, <2>3
  <2>6. y * d <= N * d
    BY <2>1, <2>2, <2>4, <2>5
  <2>7. y <= N
    BY <1>1, <1>6, <1>12, <2>3, <2>6, TimesCancel
  <2>8. QED BY <1>1, <1>2, <2>3, <2>7 DEF y, c
<1>13. ASSUME NEW i \in W, NEW j \in DOMAIN Top(side) \ W
       PROVE  side[i].size > side[j].size
  <2>1. i \in 1 .. N /\ j \in 1 .. N /\ x[i] * N >= k /\ ~(x[j] * N >= k)
    BY <1>1, <1>8, <1>13
  <2>2. x[i] \in Nat /\ x[j] \in Nat
    BY <1>3, <2>1
  <2>3. SUFFICES ASSUME x[i] <= x[j] PROVE FALSE
    BY <1>3, <2>1, <2>2
  <2>4. x[i] * N <= x[j] * N /\ x[i] * N \in Int /\ x[j] * N \in Int
    <3> DEFINE y == x[i]
               z == x[j]
    <3>1. y \in Int /\ z \in Int /\ N \in Nat /\ y <= z
      BY <1>1, <2>2, <2>3
    <3> HIDE DEF y, z
    <3>2. y * N <= z * N /\ y * N \in Int /\ z * N \in Int
      BY <3>1, TimesMonotone
    <3>3. QED BY <3>2 DEF y, z
  <2>5. QED BY <1>7, <2>1, <2>4
<1>14. QED BY <1>6, <1>11, <1>12, <1>13 DEF WallsStandOut, W

\* Of two prices, each weighted with the size at the other one.
LEMMA Weighting ==
    ASSUME NEW p \in Nat, NEW q \in Nat, p < q, NEW s \in Nat, NEW t \in Nat
    PROVE  LET m == p * t + q * s
           IN  /\ m \in Nat /\ p * (s + t) <= m /\ m <= q * (s + t)
               /\ s >= t => 2 * m >= (p + q) * (s + t)
               /\ s <= t => 2 * m <= (p + q) * (s + t)
<1> DEFINE d == q - p
           e == d * s
           f == d * t
           g == p * (s + t)
           m == p * t + q * s
<1>1. d \in Nat \ {0} /\ q = p + d
  OBVIOUS
<1> HIDE DEF d
<1>2. m = g + e
  BY <1>1
<1>3. q * (s + t) = g + e + f
  BY <1>1
<1>4. (p + q) * (s + t) = 2 * g + e + f
  BY <1>1
<1>5. e \in Nat /\ f \in Nat /\ g \in Nat
  BY <1>1
<1>6. (s >= t => e >= f) /\ (s <= t => e <= f)
  <2>1. ASSUME NEW x \in Nat, NEW y \in Nat, x <= y PROVE x * d <= y * d
    BY <1>1, <2>1, TimesMonotone
  <2>2. e = s * d /\ f = t * d
    BY <1>1
  <2>3. QED BY <2>1, <2>2
<1> HIDE DEF e, f, g, m
<1>7. QED BY <1>2, <1>3, <1>4, <1>5, <1>6 DEF m, g

(***************************************************************************)
(* What may be said of a book; a book of one side has no measures.         *)
(***************************************************************************)
\* The microprice of two best levels, also when nothing is offered there.
LEMMA MicropriceFits ==
    ASSUME Grain \in Nat \ {0}, NEW b \in Level, NEW a \in Level, b.price < a.price
    PROVE  /\ Within(Microprice(b, a), b.price, a.price)
           /\ b.size >= a.size => Microprice(b, a) >= MidPrice(b, a)
           /\ b.size <= a.size => Microprice(b, a) <= MidPrice(b, a)
<1> DEFINE p == b.price
           q == a.price
           s == b.size
           t == a.size
           w == s + t
           m == CrossWeighted(b, a)
           n == p + q
<1>1. p \in Nat /\ q \in Nat /\ s \in Nat /\ t \in Nat /\ p < q /\ w \in Nat /\ n \in Nat
  BY DEF Level
<1>2. /\ m = p * t + q * s
      /\ MidPrice(b, a) = Rounded(n, 2 * Grain)
      /\ w = 0 => Microprice(b, a) = MidPrice(b, a)
      /\ w # 0 => Microprice(b, a) = Rounded(m, w * Grain)
  BY DEF CrossWeighted, MidPrice, Microprice
<1> HIDE DEF p, q, s, t, n, m, w
<1>3. CASE w = 0
  <2>1. p * 2 <= n /\ n <= q * 2
    BY <1>1 DEF n
  <2>2. Within(Rounded(n, 2 * Grain), p, q)
    BY <1>1, <2>1, RoundedStaysWithin
  <2>3. MidPrice(b, a) \in Nat
    <3>1. 2 * Grain \in Nat \ {0}
      OBVIOUS
    <3>2. QED BY <1>1, <1>2, <3>1, RoundedNearest
  <2>4. QED BY <1>2, <1>3, <2>2, <2>3 DEF p, q
<1>4. CASE w # 0
  <2>1. /\ m \in Nat /\ p * w <= m /\ m <= q * w
        /\ s >= t => 2 * m >= n * w
        /\ s <= t => 2 * m <= n * w
    BY <1>1, <1>2, Weighting DEF w, n
  <2>2. w \in Nat \ {0}
    BY <1>1, <1>4
  <2>3. Within(Rounded(m, w * Grain), p, q)
    BY <1>1, <2>1, <2>2, RoundedStaysWithin
  <2>4. w * Grain \in Nat \ {0} /\ 2 * Grain \in Nat \ {0}
    BY <2>2
  <2>5. m * (2 * Grain) = (2 * m) * Grain /\ n * (w * Grain) = (n * w) * Grain
    BY <1>1, <2>1, <2>2
  <2>6. 2 * m \in Int /\ n * w \in Int
    BY <1>1, <2>1, <2>2
  <2>7. ASSUME s >= t PROVE Rounded(n, 2 * Grain) <= Rounded(m, w * Grain)
    <3>1. n * w <= 2 * m
      BY <2>1, <2>6, <2>7
    <3>2. (n * w) * Grain <= (2 * m) * Grain
      BY <2>6, <3>1, TimesMonotone
    <3>3. n * (w * Grain) <= m * (2 * Grain)
      BY <2>5, <3>2
    <3>4. QED BY <1>1, <2>1, <2>4, <3>3, RoundedMonotone
  <2>8. ASSUME s <= t PROVE Rounded(m, w * Grain) <= Rounded(n, 2 * Grain)
    <3>1. 2 * m <= n * w
      BY <2>1, <2>8
    <3>2. (2 * m) * Grain <= (n * w) * Grain
      BY <2>6, <3>1, TimesMonotone
    <3>3. m * (2 * Grain) <= n * (w * Grain)
      BY <2>5, <3>2
    <3>4. QED BY <1>1, <2>1, <2>4, <3>3, RoundedMonotone
  <2>9. Rounded(m, w * Grain) \in Nat /\ Rounded(n, 2 * Grain) \in Nat
    BY <1>1, <2>1, <2>4, RoundedNearest
  <2>10. QED BY <1>2, <1>4, <2>3, <2>7, <2>8, <2>9 DEF p, q, s, t
<1>5. QED BY <1>3, <1>4

Measured(book, r) ==
    LET b == Head(book.bids)
        a == Head(book.asks)
    IN  /\ r.best_bid = b.price /\ r.best_ask = a.price
        /\ Within(r.spread, a.price - b.price, a.price - b.price)
        /\ Within(r.microprice, b.price, a.price)
        /\ b.size >= a.size => r.microprice >= r.mid_price
        /\ b.size =< a.size => r.microprice =< r.mid_price
        /\ WallsStandOut(r.bid_walls, book.bids)
        /\ WallsStandOut(r.ask_walls, book.asks)

LEMMA BookIsMeasured ==
    ASSUME DepthAssumption, NEW book, book.bids \in Side, book.asks \in Side, Apart(book),
           Whole(book)
    PROVE  Measured(book, Analysis(book))
<1> DEFINE r == Analysis(book)
           b == Head(book.bids)
           a == Head(book.asks)
           d == a.price - b.price
<1>1. b = book.bids[1] /\ b \in Level /\ 1 \in DOMAIN book.bids
  <2>1. book.bids \in Seq(Level) /\ book.bids # <<>>
    BY DEF Whole, Side, Level
  <2>2. QED BY <2>1
<1>2. a = book.asks[1] /\ a \in Level /\ 1 \in DOMAIN book.asks
  <2>1. book.asks \in Seq(Level) /\ book.asks # <<>>
    BY DEF Whole, Side, Level
  <2>2. QED BY <2>1
<1>3. b.price \in Nat /\ a.price \in Nat /\ b.price < a.price /\ Grain \in Nat \ {0}
  BY <1>1, <1>2 DEF Level, Apart, DepthAssumption
<1>4. /\ r.best_bid = b.price /\ r.best_ask = a.price
      /\ r.spread = Rounded(Max({0, d}), Grain)
      /\ r.mid_price = MidPrice(b, a) /\ r.microprice = Microprice(b, a)
      /\ r.bid_walls = Walls(book.bids) /\ r.ask_walls = Walls(book.asks)
  BY DEF Analysis
<1> HIDE DEF r
<1>5. Within(r.spread, d, d)
  <2>1. d \in Nat /\ Max({0, d}) = d
    BY <1>3 DEF Max
  <2> HIDE DEF d
  <2>2. d * 1 <= d /\ d <= d * 1 /\ 1 * Grain = Grain
    BY <1>3, <2>1
  <2>3. Within(Rounded(d, 1 * Grain), d, d)
    <3>1. 1 \in Nat \ {0}
      OBVIOUS
    <3>2. QED BY <1>3, <2>1, <2>2, <3>1, RoundedStaysWithin
  <2>4. QED BY <1>4, <2>1, <2>2, <2>3
<1>6. /\ Within(Microprice(b, a), b.price, a.price)
      /\ b.size >= a.size => Microprice(b, a) >= MidPrice(b, a)
      /\ b.size <= a.size => Microprice(b, a) <= MidPrice(b, a)
  <2>1. b \in Level /\ a \in Level
    BY <1>1, <1>2
  <2> HIDE DEF a, b
  <2>2. QED BY <1>3, <2>1, MicropriceFits
<1>7. WallsStandOut(Walls(book.bids), book.bids) /\ WallsStandOut(Walls(book.asks), book.asks)
  BY WallsStand DEF Whole
<1> HIDE DEF a, b
<1>8. QED BY <1>4, <1>5, <1>6, <1>7 DEF Measured, a, b, d, r

(***************************************************************************)
(* The answers.                                                            *)
(***************************************************************************)
Quotable  == Books \cup {OneLevel(mid) : mid \in Mids \cup {DefaultMid}} \cup {NoBook}

\* What has been asked for was answered unless it could not be.
Answered  == \/ answer = Said("never", NoBook)
             \/ answer = Failed("after") /\ stored
             \/ answer = Failed("before") /\ venue = "delta" /\ ~imports
             \/ /\ ~(venue = "delta" /\ ~imports)
                /\ \E b \in Quotable : answer = Said("before", b)
FlowInv   == /\ venue \in {"delta", "ctrader"} /\ imports \in BOOLEAN /\ stored \in BOOLEAN
             /\ venue = "delta" => market \in Books
             /\ venue = "ctrader" => market \in Mids
             /\ Answered

LEMMA QuotableType ==
    ASSUME BooksAssumption, MidsAssumption, NEW b \in Quotable
    PROVE  b.bids \in Side /\ b.asks \in Side /\ Apart(b)
<1>1. CASE b \in Books
  BY <1>1 DEF BooksAssumption
<1>2. CASE b = NoBook
  BY <1>2 DEF NoBook, Side, Apart
<1>3. ASSUME NEW mid \in Mids \cup {DefaultMid}, b = OneLevel(mid)
      PROVE  b.bids \in Side /\ b.asks \in Side /\ Apart(b)
  <2> DEFINE lo == 2 * mid - Spread
             hi == 2 * mid + Spread
             x == Rounded(lo, 2)
             y == Rounded(hi, 2)
  <2>1. lo \in Nat /\ hi \in Nat /\ hi >= lo + 4
    BY DEF MidsAssumption
  <2>2. b.bids = <<[price |-> x, size |-> 1]>> /\ b.asks = <<[price |-> y, size |-> 1]>>
    BY <1>3 DEF OneLevel
  <2> HIDE DEF lo, hi
  <2>3. x \in Nat /\ y \in Nat /\ 2 * (2 * x) <= 2 * lo + 2 /\ 2 * hi - 2 <= 2 * (2 * y)
    <3>1. 2 \in Nat \ {0}
      OBVIOUS
    <3>2. QED BY <2>1, <3>1, RoundedNearest
  <2> HIDE DEF x, y
  <2>4. x < y
    BY <2>1, <2>3
  <2>5. b.bids \in Side /\ b.asks \in Side
    BY <2>2, <2>3 DEF Side
  <2>6. /\ DOMAIN b.bids = {1} /\ DOMAIN b.asks = {1}
        /\ b.bids[1].price = x /\ b.asks[1].price = y
    BY <2>2
  <2>7. Apart(b)
    BY <2>4, <2>6 DEF Apart
  <2>8. QED BY <2>5, <2>7
<1>4. QED BY <1>1, <1>2, <1>3 DEF Quotable

\* What is said of a book, asked for when it may be said.
LEMMA SaidFits ==
    ASSUME BooksAssumption, MidsAssumption, DepthAssumption, NEW b \in Quotable,
           \/ answer = Said("never", b)
           \/ answer = Said("before", b) /\ ~(venue = "delta" /\ ~imports)
    PROVE  MeasuresFitBook
<1>1. /\ answer.failed = FALSE /\ answer.book = b /\ answer.result = Analysis(b)
      /\ \/ answer.asked = "never"
         \/ answer.asked = "before" /\ ~(venue = "delta" /\ ~imports)
  BY DEF Said
<1>2. CASE Whole(b)
  <2>1. Measured(answer.book, answer.result)
    BY <1>1, <1>2, QuotableType, BookIsMeasured
  <2>2. QED BY <1>1, <1>2, <2>1 DEF Measured, MeasuresFitBook
<1>3. CASE ~Whole(b)
  <2>1. answer.result = Zeros
    BY <1>1, <1>3 DEF Analysis
  <2>2. QED BY <1>1, <1>3, <2>1 DEF MeasuresFitBook
<1>4. QED BY <1>2, <1>3

LEMMA FlowHolds ==
    ASSUME BooksAssumption, MidsAssumption, DepthAssumption, FlowInv
    PROVE  MeasuresFitBook
<1>1. CASE answer = Failed("after") /\ stored
  BY <1>1 DEF MeasuresFitBook, Failed
<1>2. CASE answer = Failed("before") /\ venue = "delta" /\ ~imports
  BY <1>2 DEF MeasuresFitBook, Failed
<1>3. CASE answer = Said("never", NoBook)
  BY <1>3, SaidFits DEF Quotable
<1>4. CASE ~(venue = "delta" /\ ~imports) /\ \E b \in Quotable : answer = Said("before", b)
  BY <1>4, SaidFits
<1>5. QED BY <1>1, <1>2, <1>3, <1>4 DEF FlowInv, Answered

LEMMA FlowStart == FlowInit => FlowInv
BY DEF FlowInit, FlowInv, Answered, NoAnswer

LEMMA FlowStep == FlowInv /\ [FlowNext]_flow => FlowInv'
<1> SUFFICES ASSUME FlowInv, [FlowNext]_flow PROVE FlowInv'
  OBVIOUS
<1>1. ASSUME NEW reachable \in BOOLEAN, GetOrderflow(reachable) PROVE FlowInv'
  <2>1. UNCHANGED <<venue, imports, market, stored>>
    BY <1>1 DEF GetOrderflow
  <2> DEFINE f == Fetched(reachable)
  <2>2. f \in Quotable
    BY DEF FlowInv, Fetched, Quotable
  <2>3. answer' = IF Raises THEN Failed(Asked) ELSE Said(Asked, f)
    BY <1>1 DEF GetOrderflow
  <2> HIDE DEF f
  <2>4. Answered'
    <3>1. CASE stored
      BY <2>1, <2>3, <3>1 DEF Raises, Asked, Answered, Failed
    <3>2. CASE ~stored /\ venue = "delta" /\ ~imports
      BY <2>1, <2>3, <3>2 DEF Raises, Asked, Answered, Failed
    <3>3. CASE ~stored /\ ~(venue = "delta" /\ ~imports)
      <4>1. answer' = Said("before", f)
        BY <2>3, <3>3 DEF Raises, Asked
      <4>2. \E x \in Quotable : answer' = Said("before", x)
        BY <2>2, <4>1
      <4>3. QED BY <2>1, <3>3, <4>2 DEF Answered, Said, Quotable
    <3>4. QED BY <3>1, <3>2, <3>3
  <2>5. QED BY <2>1, <2>4 DEF FlowInv
<1>2. CASE StoreBook
  BY <1>2 DEF StoreBook, FlowInv, Answered, Said, Failed
<1>3. CASE MarketQuotes
  BY <1>3 DEF MarketQuotes, FlowInv, Answered, Said, Failed
<1>4. CASE UNCHANGED flow
  BY <1>4 DEF flow, FlowInv, Answered, Said, Failed
<1>5. QED BY <1>1, <1>2, <1>3, <1>4 DEF FlowNext

\* Whatever the exchange quotes, a request fails exactly when a book has been
\* stored or the client of Delta is needed and cannot be imported, and what
\* is said of a book otherwise agrees with it (analyze_orderbook_depth).
THEOREM MeasuresFit == FlowSpec => []MeasuresFitBook
<1>1. FlowInv => MeasuresFitBook
  BY FlowHolds, BooksAssumption, MidsAssumption, DepthAssumption
<1>2. QED BY <1>1, FlowStart, FlowStep, PTL DEF FlowSpec

-----------------------------------------------------------------------------
(* Least and greatest.                                                     *)

LEMMA LeastOf ==
    ASSUME NEW S \in SUBSET Nat, S # {}
    PROVE  Min(S) \in S /\ \A y \in S : Min(S) <= y
<1> DEFINE R == {ss \in Nat \X Nat : ss[1] < ss[2]}
<1>1. IsWellFoundedOn(R, Nat)
  BY NatLessThanWellFounded DEF OpToRel
<1>2. \A x, y \in Nat : y < x => <<y, x>> \in R
  OBVIOUS
<1> HIDE DEF R
<1>3. PICK x \in S : \A y \in S : ~ (<<y, x>> \in R)
  BY <1>1, WFMin
<1>4. \A y \in S : x <= y
  <2>1. TAKE y \in S
  <2>2. ~(y < x)
    BY <1>2, <1>3
  <2>3. QED BY <2>2
<1>5. \E z \in S : \A y \in S : z <= y
  BY <1>4
<1>6. QED BY <1>5 DEF Min

LEMMA GreatestOf ==
    ASSUME NEW N \in Nat, NEW S \in SUBSET (0 .. N), S # {}
    PROVE  Max(S) \in S /\ \A y \in S : y <= Max(S)
<1> DEFINE T == {N - x : x \in S}
<1>1. T \in SUBSET Nat /\ T # {}
  <2>1. \A x \in S : N - x \in Nat
    OBVIOUS
  <2>2. PICK x \in S : TRUE
    OBVIOUS
  <2>3. N - x \in T
    BY <2>2
  <2>4. QED BY <2>1, <2>3
<1>2. Min(T) \in T /\ \A y \in T : Min(T) <= y
  <2> HIDE DEF T
  <2>1. QED BY <1>1, LeastOf
<1>3. PICK x \in S : Min(T) = N - x
  BY <1>2
<1>4. \A y \in S : y <= x
  <2>1. TAKE y \in S
  <2>2. N - y \in T
    OBVIOUS
  <2>3. N - x <= N - y
    BY <1>2, <1>3, <2>2
  <2>4. QED BY <2>3
<1>5. \E z \in S : \A y \in S : z >= y
  <2>1. \A y \in S : x >= y
    BY <1>4
  <2>2. QED BY <2>1
<1>6. Max(S) \in S /\ \A y \in S : Max(S) >= y
  BY <1>5 DEF Max
<1>7. QED BY <1>6

\* Among the first n elements, f is least at i and greatest at k.
Spans(f, n, i, k) == \A j \in 1 .. n : f[i] <= f[j] /\ f[j] <= f[k]

LEMMA Extremes ==
    ASSUME NEW N \in Nat \ {0}, NEW f \in Numbers(N)
    PROVE  \E i, k \in 1 .. N : Spans(f, N, i, k)
<1> DEFINE Upto(n) == \E i, k \in 1 .. n : Spans(f, n, i, k)
           D == {n \in 0 .. N : n > 0 => Upto(n)}
<1>1. \A j \in 1 .. N : f[j] \in Int
  BY DEF Numbers
<1>2. 0 \in D
  OBVIOUS
<1>3. ASSUME NEW n \in 1 .. N, n - 1 \in D PROVE n \in D
  <2>1. n \in 0 .. N
    OBVIOUS
  <2>2. CASE n = 1
    <3>1. 1 \in 1 .. n /\ \A j \in 1 .. n : j = 1
      BY <2>2
    <3>2. Upto(n)
      <4>1. Spans(f, n, 1, 1)
        BY <1>1, <2>2 DEF Spans
      <4>2. QED BY <3>1, <4>1
    <3>3. QED BY <2>1, <3>2
  <2>3. CASE n # 1
    <3>1. Upto(n - 1)
      BY <1>3, <2>3
    <3>2. PICK i, k \in 1 .. n - 1 : Spans(f, n - 1, i, k)
      BY <3>1
    <3> DEFINE l == IF f[n] < f[i] THEN n ELSE i
               h == IF f[n] > f[k] THEN n ELSE k
    <3>3. l \in 1 .. n /\ h \in 1 .. n
      OBVIOUS
    <3>4. /\ f[i] \in Int /\ f[k] \in Int /\ f[n] \in Int
          /\ f[l] <= f[n] /\ f[n] <= f[h] /\ f[l] <= f[i] /\ f[k] <= f[h]
          /\ f[l] \in Int /\ f[h] \in Int
      BY <1>1
    <3> HIDE DEF l, h
    <3>5. \A j \in 1 .. n : f[l] <= f[j] /\ f[j] <= f[h]
      <4>1. TAKE j \in 1 .. n
      <4>2. CASE j = n
        BY <3>4, <4>2
      <4>3. CASE j # n
        <5>1. j \in 1 .. n - 1 /\ f[j] \in Int
          BY <1>1, <4>3
        <5>2. f[i] <= f[j] /\ f[j] <= f[k]
          BY <3>2, <5>1 DEF Spans
        <5>3. QED BY <3>4, <5>1, <5>2
      <4>4. QED BY <4>2, <4>3
    <3>6. Upto(n)
      BY <3>3, <3>5 DEF Spans
    <3> HIDE DEF Upto
    <3>7. QED BY <2>1, <3>6
  <2>4. QED BY <2>2, <2>3
<1> HIDE DEF D
<1>4. 0 .. N \subseteq D
  BY <1>2, <1>3, InductionUpTo
<1>5. N \in 0 .. N
  OBVIOUS
<1>6. Upto(N)
  BY <1>4, <1>5 DEF D
<1>7. QED BY <1>6

-----------------------------------------------------------------------------
(* What was traded in a set of bins.                                       *)

Volumes(N) == [1 .. N -> Nat]
Part(c, N, B) == [k \in 1 .. N |-> IF k \in B THEN c[k] ELSE 0]

LEMMA NothingIsZero ==
    ASSUME NEW N \in Nat, NEW f \in Numbers(N), \A k \in 1 .. N : f[k] = 0
    PROVE  Total(f) = 0
<1> DEFINE z == Ones({}, N)
<1>1. z \in Numbers(N) /\ Total(z) = Cardinality({})
  BY CardinalityIsTotal
<1>2. f = z
  BY DEF Ones, Numbers
<1>3. QED BY <1>1, <1>2, FS_EmptySet

LEMMA TotalVolumeType ==
    ASSUME NEW N \in Nat, NEW f \in Volumes(N)
    PROVE  f \in Numbers(N) /\ Total(f) \in Nat
<1> DEFINE z == Ones({}, N)
<1>1. f \in Numbers(N) /\ \A k \in 1 .. N : f[k] \in Nat
  BY DEF Numbers, Volumes
<1>2. z \in Numbers(N) /\ \A k \in 1 .. N : z[k] = 0
  BY DEF Ones, Numbers
<1> HIDE DEF z
<1>3. Total(z) = 0
  BY <1>2, NothingIsZero
<1>4. \A k \in 1 .. N : z[k] <= f[k]
  BY <1>1, <1>2
<1>5. Total(z) <= Total(f)
  BY <1>1, <1>2, <1>4, TotalAtMost
<1>6. Total(f) \in Int
  BY <1>1, TotalType
<1>7. QED BY <1>1, <1>3, <1>5, <1>6

LEMMA TradedFacts ==
    ASSUME NEW N \in Nat, NEW c \in Volumes(N), NEW B
    PROVE  /\ DOMAIN c = 1 .. N
           /\ Part(c, N, B) \in Numbers(N)
           /\ Traded(c, B) = Total(Part(c, N, B))
           /\ Traded(c, B) \in Nat
           /\ \A k \in 1 .. N : c[k] \in Nat /\ Part(c, N, B)[k] = IF k \in B THEN c[k] ELSE 0
<1>1. DOMAIN c = 1 .. N /\ \A k \in 1 .. N : c[k] \in Nat
  BY DEF Volumes
<1>2. /\ Part(c, N, B) \in Volumes(N)
      /\ \A k \in 1 .. N : Part(c, N, B)[k] = IF k \in B THEN c[k] ELSE 0
  BY <1>1 DEF Part, Volumes
<1>3. Traded(c, B) = Total(Part(c, N, B))
  BY <1>1 DEF Traded, Part
<1>4. QED BY <1>1, <1>2, <1>3, TotalVolumeType

LEMMA TradedGrows ==
    ASSUME NEW N \in Nat, NEW c \in Volumes(N), NEW A, NEW B, A \subseteq B
    PROVE  Traded(c, A) <= Traded(c, B)
<1>1. \A k \in 1 .. N : Part(c, N, A)[k] <= Part(c, N, B)[k]
  <2>1. TAKE k \in 1 .. N
  <2>2. /\ Part(c, N, A)[k] = IF k \in A THEN c[k] ELSE 0
        /\ Part(c, N, B)[k] = IF k \in B THEN c[k] ELSE 0
        /\ c[k] \in Nat
    BY TradedFacts
  <2>3. QED BY <2>2
<1>2. /\ Part(c, N, A) \in Numbers(N) /\ Traded(c, A) = Total(Part(c, N, A))
      /\ Part(c, N, B) \in Numbers(N) /\ Traded(c, B) = Total(Part(c, N, B))
  BY TradedFacts
<1>3. QED BY <1>1, <1>2, TotalAtMost

(***************************************************************************)
(* No choice of bins holds more than as many of the largest.               *)
(***************************************************************************)
LEMMA LargestHoldMost ==
    ASSUME NEW N \in Nat, NEW c \in Volumes(N), NEW F \in SUBSET (1 .. N), NEW B \in SUBSET (1 .. N),
           NEW t \in Nat,
           \A k \in F : c[k] >= t,
           \A k \in 1 .. N \ F : c[k] <= t,
           Cardinality(B) <= Cardinality(F)
    PROVE  Traded(c, B) <= Traded(c, F)
<1> DEFINE f == Part(c, N, F)
           b == Part(c, N, B)
           o == Ones(F, N)
           q == Ones(B, N)
           x == Plus(b, t, o, N)
           y == Plus(f, t, q, N)
<1>1. /\ f \in Numbers(N) /\ Traded(c, F) = Total(f)
      /\ \A k \in 1 .. N : c[k] \in Nat /\ f[k] = IF k \in F THEN c[k] ELSE 0
  BY TradedFacts
<1>2. /\ b \in Numbers(N) /\ Traded(c, B) = Total(b)
      /\ \A k \in 1 .. N : b[k] = IF k \in B THEN c[k] ELSE 0
  BY TradedFacts
<1>3. /\ o \in Numbers(N) /\ IsFiniteSet(F) /\ Total(o) = Cardinality(F)
      /\ q \in Numbers(N) /\ IsFiniteSet(B) /\ Total(q) = Cardinality(B)
  BY CardinalityIsTotal
<1>4. \A k \in 1 .. N : /\ o[k] = IF k \in F THEN 1 ELSE 0
                        /\ q[k] = IF k \in B THEN 1 ELSE 0
  BY DEF Ones
<1>t. t \in Int
  OBVIOUS
<1> HIDE DEF f, b, o, q
<1>5. x \in Numbers(N) /\ Total(x) = WithTimes(Total(b), t, Total(o))
  BY <1>2, <1>3, <1>t, TotalLinear
<1>6. y \in Numbers(N) /\ Total(y) = WithTimes(Total(f), t, Total(q))
  BY <1>1, <1>3, <1>t, TotalLinear
<1>7. \A k \in 1 .. N : x[k] <= y[k]
  <2>1. TAKE k \in 1 .. N
  <2>2. x[k] = b[k] + t * o[k] /\ y[k] = f[k] + t * q[k]
    BY DEF Plus
  <2> HIDE DEF x, y
  <2>3. t * 0 = 0 /\ t * 1 = t /\ c[k] \in Nat
    BY <1>1
  <2>4. CASE k \in F /\ k \in B
    BY <1>1, <1>2, <1>4, <2>2, <2>3, <2>4
  <2>5. CASE k \in F /\ k \notin B
    <3>1. c[k] >= t
      BY <2>5
    <3>2. x[k] = 0 + t /\ y[k] = c[k] + 0
      BY <1>1, <1>2, <1>4, <2>2, <2>3, <2>5
    <3>3. QED BY <2>3, <3>1, <3>2
  <2>6. CASE k \notin F /\ k \in B
    <3>1. c[k] <= t
      BY <2>6
    <3>2. x[k] = c[k] + 0 /\ y[k] = 0 + t
      BY <1>1, <1>2, <1>4, <2>2, <2>3, <2>6
    <3>3. QED BY <2>3, <3>1, <3>2
  <2>7. CASE k \notin F /\ k \notin B
    BY <1>1, <1>2, <1>4, <2>2, <2>3, <2>7
  <2>8. QED BY <2>4, <2>5, <2>6, <2>7
<1> HIDE DEF x, y
<1>8. Total(x) <= Total(y)
  BY <1>5, <1>6, <1>7, TotalAtMost
<1> DEFINE m == Cardinality(F)
           n == Cardinality(B)
<1>9. m \in Nat /\ n \in Nat /\ n <= m
  BY <1>3, FS_CardinalityType
<1>10. Total(b) + t * m <= Total(f) + t * n
  BY <1>3, <1>5, <1>6, <1>8 DEF WithTimes
<1> HIDE DEF m, n
<1>11. t * n <= t * m /\ t * n \in Nat /\ t * m \in Nat
  <2>1. n * t <= m * t
    BY <1>9, TimesMonotone
  <2>2. n * t = t * n /\ m * t = t * m /\ t * n \in Nat /\ t * m \in Nat
    BY <1>9
  <2>3. QED BY <2>1, <2>2
<1>12. Total(b) \in Int /\ Total(f) \in Int
  BY <1>1, <1>2, TotalType
<1>13. QED BY <1>1, <1>2, <1>10, <1>11, <1>12

-----------------------------------------------------------------------------
(* The volume profile.                                                     *)

LEMMA SameNumbers ==
    ASSUME NEW N, NEW f \in Numbers(N), NEW g \in Numbers(N), \A n \in 1 .. N : f[n] = g[n]
    PROVE  f = g
<1>1. f = [n \in 1 .. N |-> f[n]] /\ g = [n \in 1 .. N |-> g[n]]
  BY DEF Numbers
<1>2. QED BY <1>1

LEMMA QuotientType ==
    ASSUME NEW x \in Nat, NEW d \in Nat \ {0}
    PROVE  x \div d \in Nat
<1> DEFINE q == x \div d
           r == x % d
<1>1. q \in Int /\ r \in 0 .. d - 1 /\ x = d * q + r
  OBVIOUS
<1> HIDE DEF q, r
<1>2. SUFFICES ASSUME q <= -1 PROVE FALSE
  BY <1>1 DEF q
<1>3. q * d <= (-1) * d /\ q * d \in Int
  BY <1>1, <1>2, TimesMonotone
<1>4. d * q = q * d /\ (-1) * d = -d
  BY <1>1
<1>5. QED BY <1>1, <1>3, <1>4

LEMMA BinType ==
    ASSUME BarsAssumption, ProfileAssumption, NEW s \in Seq(Bars), Lowest(s) < Highest(s),
           NEW i \in 1 .. Len(s)
    PROVE  BinOf(s, s[i].close) \in 1 .. NumBins
<1> DEFINE L == Len(s)
           c == [j \in 1 .. L |-> s[j].close]
           S == ClosesOf(s)
           low == Lowest(s)
           high == Highest(s)
           price == s[i].close
<1>1. L \in Nat \ {0} /\ \A j \in 1 .. L : s[j] \in Bars /\ s[j].close \in Nat
  BY DEF BarsAssumption
<1>2. S = {s[j].close : j \in 1 .. L}
  BY DEF ClosesOf
<1>3. low = Min(S) /\ high = Max(S)
  BY DEF Lowest, Highest
<1> HIDE DEF L, S
<1>4. S \in SUBSET Nat /\ S # {} /\ price \in S
  <2>1. i \in 1 .. L
    BY DEF L
  <2>2. QED BY <1>1, <1>2, <2>1
<1>5. Min(S) \in S /\ \A y \in S : Min(S) <= y
  BY <1>4, LeastOf
<1>6. c \in Numbers(L) /\ \A j \in 1 .. L : c[j] = s[j].close
  BY <1>1 DEF Numbers
<1> HIDE DEF c
<1>7. PICK a, b \in 1 .. L : Spans(c, L, a, b)
  BY <1>1, <1>6, Extremes
<1>8. \E z \in S : \A y \in S : z >= y
  <2>1. s[b].close \in S /\ \A j \in 1 .. L : s[b].close >= s[j].close
    BY <1>1, <1>2, <1>6, <1>7 DEF Spans
  <2>2. QED BY <1>2, <2>1
<1>9. Max(S) \in S
  BY <1>8 DEF Max
<1>10. low \in Nat /\ high \in Nat /\ low < high /\ price \in Nat /\ low <= price
  BY <1>3, <1>4, <1>5, <1>9
<1> DEFINE z == 1 + ((price - low) * NumBins) \div (high - low)
<1>11. BinOf(s, price) = Min({NumBins, z})
  BY DEF BinOf
<1> HIDE DEF low, high, price
<1>12. z \in Nat \ {0}
  <2> DEFINE x == (price - low) * NumBins
             d == high - low
  <2>1. price - low \in Nat /\ NumBins \in Nat
    BY <1>10 DEF ProfileAssumption
  <2>2. x \in Nat
    <3> DEFINE y == price - low
    <3>1. y \in Nat /\ NumBins \in Nat
      BY <2>1
    <3> HIDE DEF y
    <3>2. y * NumBins \in Nat
      BY <3>1
    <3>3. QED BY <3>2 DEF y
  <2>3. d \in Nat \ {0}
    BY <1>10
  <2> HIDE DEF x, d
  <2>4. x \div d \in Nat
    BY <2>2, <2>3, QuotientType
  <2>5. QED BY <2>4 DEF x, d
<1> HIDE DEF z
<1>13. NumBins \in Nat \ {0}
  BY DEF ProfileAssumption
<1>14. Min({NumBins, z}) \in {NumBins, z} /\ Min({NumBins, z}) <= NumBins
  BY <1>12, <1>13, LeastOf
<1>15. Min({NumBins, z}) \in 1 .. NumBins
  BY <1>12, <1>13, <1>14
<1>16. QED BY <1>11, <1>15 DEF price

(***************************************************************************)
(* Each candle is in one bin: the bins hold together what was traded.      *)
(***************************************************************************)
LEMMA BinsHoldAll ==
    ASSUME BarsAssumption, ProfileAssumption, NEW s \in Seq(Bars), Lowest(s) < Highest(s)
    PROVE  Counts(s) \in Volumes(NumBins) /\ Total(Counts(s)) = TotalVolume(s)
<1> DEFINE L == Len(s)
           N == NumBins
           v == [i \in 1 .. L |-> s[i].volume]
           bin(i) == BinOf(s, s[i].close)
           f(k) == [i \in 1 .. L |-> IF bin(i) = k THEN v[i] ELSE 0]
           V == Sums(v)
           F(k) == Sums(f(k))
           C(n) == [k \in 1 .. N |-> F(k)[n]]
           D == {n \in 0 .. L : Total(C(n)) = V[n]}
<1>1. /\ L \in Nat /\ N \in Nat /\ DOMAIN s = 1 .. L
      /\ \A i \in 1 .. L : s[i].volume \in Nat
  BY DEF BarsAssumption, ProfileAssumption
<1>2. v \in Volumes(L) /\ v \in Numbers(L) /\ \A i \in 1 .. L : v[i] = s[i].volume /\ v[i] \in Nat
  BY <1>1 DEF Volumes, Numbers
<1>3. \A i \in 1 .. L : bin(i) \in 1 .. N
  BY BinType
<1>4. ASSUME NEW k
      PROVE  /\ f(k) \in Volumes(L) /\ f(k) \in Numbers(L)
             /\ \A i \in 1 .. L : f(k)[i] = IF bin(i) = k THEN v[i] ELSE 0
  <2> HIDE DEF v, bin, L
  <2>1. QED BY <1>2 DEF Volumes, Numbers
<1>5. \A k : VolumeAt(s, k) = Total(f(k))
  BY <1>1, <1>2 DEF VolumeAt
<1>6. TotalVolume(s) = Total(v)
  BY <1>1 DEF TotalVolume
<1> HIDE DEF L, N, v, bin, f
<1>7. /\ V \in [0 .. L -> Int] /\ V[0] = 0 /\ Total(v) = V[L]
      /\ \A n \in 1 .. L : V[n] = V[n - 1] + v[n]
  BY <1>1, <1>2, SumsRecur
<1>8. ASSUME NEW k
      PROVE  /\ F(k) \in [0 .. L -> Int] /\ F(k)[0] = 0 /\ Total(f(k)) = F(k)[L]
             /\ \A n \in 1 .. L : F(k)[n] = F(k)[n - 1] + f(k)[n]
  BY <1>1, <1>4, SumsRecur
<1> HIDE DEF V, F
<1>9. ASSUME NEW n \in 0 .. L
      PROVE  C(n) \in Numbers(N) /\ \A k \in 1 .. N : C(n)[k] = F(k)[n]
  BY <1>8 DEF Numbers
<1> HIDE DEF C
<1>10. 0 \in D
  <2>1. 0 \in 0 .. L
    BY <1>1
  <2>2. Total(C(0)) = 0
    <3>1. C(0) \in Numbers(N) /\ \A k \in 1 .. N : C(0)[k] = 0
      BY <1>8, <1>9, <2>1
    <3>2. QED BY <1>1, <3>1, NothingIsZero
  <2>3. QED BY <1>7, <2>1, <2>2
<1>11. ASSUME NEW n \in 1 .. L, n - 1 \in D PROVE n \in D
  <2> DEFINE B == {bin(n)}
             o == Ones(B, N)
             h == Plus(C(n - 1), v[n], o, N)
  <2>1. n - 1 \in 0 .. L /\ n \in 0 .. L /\ v[n] \in Nat
    BY <1>1, <1>2
  <2>2. o \in Numbers(N) /\ Total(o) = 1
    <3>1. B \in SUBSET (1 .. N)
      BY <1>3
    <3>2. Cardinality(B) = 1
      BY FS_Singleton
    <3> HIDE DEF B
    <3>3. QED BY <1>1, <3>1, <3>2, CardinalityIsTotal
  <2>3. \A k \in 1 .. N : o[k] = IF k = bin(n) THEN 1 ELSE 0
    BY DEF Ones
  <2> HIDE DEF o
  <2>4. h \in Numbers(N) /\ Total(h) = WithTimes(Total(C(n - 1)), v[n], Total(o))
    <3> DEFINE c == C(n - 1)
               w == v[n]
    <3>1. c \in Numbers(N) /\ w \in Int
      BY <1>9, <2>1
    <3> HIDE DEF c, w
    <3> DEFINE g == Plus(c, w, o, N)
    <3>2. g \in Numbers(N) /\ Total(g) = WithTimes(Total(c), w, Total(o))
      <4>1. N \in Nat /\ o \in Numbers(N)
        BY <1>1, <2>2
      <4>2. QED BY <3>1, <4>1, TotalLinear
    <3>3. QED BY <3>2 DEF c, w
  <2>5. \A k \in 1 .. N : h[k] = C(n)[k]
    <3>1. TAKE k \in 1 .. N
    <3>2. C(n)[k] = C(n - 1)[k] + f(k)[n] /\ C(n - 1)[k] \in Int
      <4>1. F(k) \in [0 .. L -> Int] /\ F(k)[n] = F(k)[n - 1] + f(k)[n]
        BY <1>8
      <4>2. C(n)[k] = F(k)[n] /\ C(n - 1)[k] = F(k)[n - 1]
        BY <1>9, <2>1
      <4>3. QED BY <2>1, <4>1, <4>2
    <3>3. v[n] * o[k] = f(k)[n]
      <4>1. v[n] * 1 = v[n] /\ v[n] * 0 = 0
        BY <2>1
      <4>2. QED BY <1>4, <2>3, <4>1
    <3>4. h[k] = C(n - 1)[k] + v[n] * o[k]
      BY DEF Plus
    <3>5. QED BY <3>2, <3>3, <3>4
  <2>6. C(n) = h
    <3> HIDE DEF h
    <3> DEFINE c == C(n)
    <3>1. c \in Numbers(N) /\ h \in Numbers(N)
      BY <1>9, <2>1, <2>4
    <3>2. \A k \in 1 .. N : c[k] = h[k]
      BY <2>5
    <3> HIDE DEF c
    <3>3. c = h
      BY <3>1, <3>2, SameNumbers
    <3>4. QED BY <3>3 DEF c
  <2>7. Total(C(n - 1)) = V[n - 1] /\ V[n - 1] \in Int
    BY <1>7, <1>11, <2>1
  <2> HIDE DEF h
  <2>8. Total(C(n)) = V[n - 1] + v[n]
    BY <2>1, <2>2, <2>4, <2>6, <2>7 DEF WithTimes
  <2>9. QED BY <1>7, <2>1, <2>8
<1> HIDE DEF D
<1>12. 0 .. L \subseteq D
  BY <1>1, <1>10, <1>11, InductionUpTo
<1>13. L \in 0 .. L
  BY <1>1
<1>14. Total(C(L)) = TotalVolume(s)
  BY <1>6, <1>7, <1>12, <1>13 DEF D
<1>15. Counts(s) = [k \in 1 .. N |-> VolumeAt(s, k)]
  BY DEF Counts, N
<1>16. \A k \in 1 .. N : VolumeAt(s, k) = C(L)[k] /\ VolumeAt(s, k) \in Nat
  BY <1>1, <1>4, <1>5, <1>8, <1>9, <1>13, TotalVolumeType
<1>17. Counts(s) \in Volumes(N) /\ Counts(s) = C(L)
  BY <1>9, <1>13, <1>15, <1>16 DEF Volumes, Numbers
<1>18. QED BY <1>14, <1>17 DEF N

FirstBins(p, m) == {p[i] : i \in 1 .. m}

\* p lists each bin once, the larger ones first.
Orders(p, c, N) ==
    /\ p \in [1 .. N -> 1 .. N]
    /\ \A k \in 1 .. N : \E i \in 1 .. N : p[i] = k
    /\ \A i, j \in 1 .. N : p[i] = p[j] => i = j
    /\ \A i, j \in 1 .. N : i < j => c[p[i]] >= c[p[j]]

LEMMA OrderFacts ==
    ASSUME NEW N \in Nat, NEW c \in Volumes(N), NEW p \in Descending(c)
    PROVE  Orders(p, c, N)
<1>1. DOMAIN c = 1 .. N
  BY DEF Volumes
<1>2. /\ p \in [1 .. N -> 1 .. N]
      /\ \A i, j \in 1 .. N : i < j => p[i] # p[j] /\ c[p[i]] >= c[p[j]]
  BY <1>1 DEF Descending
<1>3. \A i, j \in 1 .. N : p[i] = p[j] => i = j
  BY <1>2
<1>4. p \in Injection(1 .. N, 1 .. N)
  BY <1>2, <1>3 DEF Injection, IsInjective
<1>5. IsFiniteSet(1 .. N)
  BY FS_Interval
<1>6. p \in Surjection(1 .. N, 1 .. N)
  BY <1>4, <1>5, FS_Injection
<1>7. \A k \in 1 .. N : \E i \in 1 .. N : p[i] = k
  BY <1>6 DEF Surjection
<1>8. QED BY <1>2, <1>3, <1>7 DEF Orders

LEMMA FirstFacts ==
    ASSUME NEW N \in Nat, NEW c \in Volumes(N), NEW p \in Descending(c), NEW m \in 0 .. N
    PROVE  /\ FirstBins(p, m) \in SUBSET (1 .. N)
           /\ IsFiniteSet(FirstBins(p, m)) /\ Cardinality(FirstBins(p, m)) = m
           /\ m = N => FirstBins(p, m) = 1 .. N
<1> DEFINE F == FirstBins(p, m)
           h == [i \in 1 .. m |-> p[i]]
<1>1. /\ p \in [1 .. N -> 1 .. N]
      /\ \A k \in 1 .. N : \E i \in 1 .. N : p[i] = k
      /\ \A i, j \in 1 .. N : p[i] = p[j] => i = j
  BY OrderFacts DEF Orders
<1>2. F \in SUBSET (1 .. N) /\ (m = N => F = 1 .. N)
  <2>1. \A i \in 1 .. m : p[i] \in 1 .. N
    BY <1>1
  <2>2. F \subseteq 1 .. N
    BY <2>1 DEF FirstBins
  <2>3. m = N => \A k \in 1 .. N : k \in F
    BY <1>1 DEF FirstBins
  <2> HIDE DEF F
  <2>4. QED BY <2>2, <2>3
<1>3. h \in [1 .. m -> F] /\ \A k \in F : \E i \in 1 .. m : h[i] = k
  BY DEF FirstBins
<1>4. \A i, j \in 1 .. m : h[i] = h[j] => i = j
  BY <1>1
<1> HIDE DEF F, h
<1>5. h \in Bijection(1 .. m, F)
  BY <1>3, <1>4 DEF Bijection, Injection, Surjection, IsInjective
<1>6. IsFiniteSet(1 .. m) /\ Cardinality(1 .. m) = m
  <2>1. m \in Int /\ 1 \in Int /\ m >= 0
    OBVIOUS
  <2>2. IsFiniteSet(1 .. m) /\ Cardinality(1 .. m) = IF 1 > m THEN 0 ELSE m - 1 + 1
    BY <2>1, FS_Interval
  <2>3. QED BY <2>1, <2>2
<1>7. IsFiniteSet(F) /\ Cardinality(F) = Cardinality(1 .. m)
  BY <1>5, <1>6, FS_Bijection DEF ExistsBijection
<1>8. QED BY <1>2, <1>6, <1>7 DEF F

LEMMA WholeIsEnough ==
    ASSUME ProfileAssumption, NEW N \in Nat, NEW c \in Volumes(N)
    PROVE  Enough(c, 1 .. N)
<1> DEFINE t == Traded(c, 1 .. N)
<1>1. t \in Nat /\ DOMAIN c = 1 .. N
  BY TradedFacts
<1> HIDE DEF t
<1>2. AreaPct \in Nat /\ AreaPct <= 100 /\ 100 \in Nat
  BY DEF ProfileAssumption
<1>3. AreaPct * t <= 100 * t
  BY <1>1, <1>2, TimesMonotone
<1>4. Enough(c, 1 .. N) <=> 100 * t >= AreaPct * t
  BY <1>1 DEF Enough, t
<1>5. AreaPct * t \in Int /\ 100 * t \in Int
  BY <1>1, <1>2
<1>6. QED BY <1>3, <1>4, <1>5

\* Less than what is not enough is not enough.
LEMMA EnoughGrows ==
    ASSUME ProfileAssumption, NEW N \in Nat, NEW c \in Volumes(N), NEW A, NEW B,
           Traded(c, A) <= Traded(c, B), Enough(c, A)
    PROVE  Enough(c, B)
<1> DEFINE a == Traded(c, A)
           b == Traded(c, B)
           t == AreaPct * Traded(c, DOMAIN c)
<1>1. a \in Nat /\ b \in Nat /\ Traded(c, DOMAIN c) \in Nat /\ AreaPct \in Nat
  BY TradedFacts DEF ProfileAssumption
<1>2. t \in Int
  BY <1>1
<1>3. 100 * a >= t /\ a <= b
  BY DEF Enough
<1> HIDE DEF a, b, t
<1>4. 100 * b >= t
  BY <1>1, <1>2, <1>3
<1>5. QED BY <1>4 DEF Enough, b, t

LEMMA AreaIsLeast ==
    ASSUME ProfileAssumption, NEW N \in Nat \ {0}, NEW c \in Volumes(N), NEW p \in Descending(c)
    PROVE  \E n \in 1 .. N : /\ Area(c, p) = FirstBins(p, n) /\ Enough(c, FirstBins(p, n))
                             /\ \A m \in 1 .. n - 1 : ~Enough(c, FirstBins(p, m))
<1> DEFINE S == {n \in 1 .. N : Enough(c, FirstBins(p, n))}
           n == Min(S)
<1>1. DOMAIN c = 1 .. N
  BY DEF Volumes
<1>2. N \in S
  <2>1. FirstBins(p, N) = 1 .. N
    BY FirstFacts
  <2>2. QED BY <2>1, WholeIsEnough
<1>3. n \in S /\ \A m \in S : n <= m
  <2>1. S \in SUBSET Nat /\ S # {}
    BY <1>2
  <2> HIDE DEF S
  <2>2. QED BY <2>1, LeastOf
<1>4. Area(c, p) = FirstBins(p, n)
  BY <1>1 DEF Area, FirstBins
<1>5. ASSUME NEW m \in 1 .. n - 1 PROVE ~Enough(c, FirstBins(p, m))
  <2> HIDE DEF n
  <2>1. m \in 1 .. N /\ ~(n <= m)
    BY <1>3
  <2>2. QED BY <1>3, <2>1
<1> HIDE DEF n
<1>6. QED BY <1>3, <1>4, <1>5

(***************************************************************************)
(* The area is a smallest set of bins that is enough.                      *)
(***************************************************************************)
LEMMA FewerAreTooFew ==
    ASSUME ProfileAssumption, NEW N \in Nat \ {0}, NEW c \in Volumes(N), NEW p \in Descending(c),
           Total(c) > 0, NEW B \in SUBSET (1 .. N), Cardinality(B) < Cardinality(Area(c, p))
    PROVE  ~Enough(c, B)
<1>1. PICK n \in 1 .. N : /\ Area(c, p) = FirstBins(p, n)
                          /\ \A m \in 1 .. n - 1 : ~Enough(c, FirstBins(p, m))
  BY AreaIsLeast
<1> DEFINE m == n - 1
           F == FirstBins(p, m)
<1>2. Cardinality(FirstBins(p, n)) = n
  BY FirstFacts
<1>3. IsFiniteSet(B) /\ Cardinality(B) \in Nat
  BY CardinalityIsTotal, FS_CardinalityType
<1>4. Cardinality(B) <= m /\ m \in 0 .. N
  BY <1>1, <1>2, <1>3
<1>5. F \in SUBSET (1 .. N) /\ IsFiniteSet(F) /\ Cardinality(F) = m
  BY <1>4, FirstFacts
<1>6. CASE m = 0
  <2>1. B = {}
    BY <1>3, <1>4, <1>6, FS_EmptySet
  <2> DEFINE T == Traded(c, 1 .. N)
  <2>2. Traded(c, B) = 0 /\ DOMAIN c = 1 .. N
    <3>1. Part(c, N, {}) \in Numbers(N) /\ \A k \in 1 .. N : Part(c, N, {})[k] = 0
      BY TradedFacts
    <3>2. QED BY <2>1, <3>1, TradedFacts, NothingIsZero
  <2>3. T = Total(c) /\ T \in Nat
    <3>1. Part(c, N, 1 .. N) = c
      BY DEF Part, Volumes
    <3>2. QED BY <3>1, TradedFacts
  <2>4. AreaPct \in Nat \ {0}
    BY DEF ProfileAssumption
  <2> HIDE DEF T
  <2>5. T \in Nat \ {0}
    BY <2>3
  <2>6. AreaPct * T \in Nat \ {0}
    BY <2>4, <2>5
  <2>7. QED BY <2>2, <2>6 DEF Enough, T
<1>7. CASE m # 0
  <2> DEFINE t == c[p[m]]
  <2>1. m \in 1 .. N /\ m \in 1 .. n - 1
    BY <1>4, <1>7
  <2>2. /\ p \in [1 .. N -> 1 .. N] /\ c \in [1 .. N -> Nat]
        /\ \A k \in 1 .. N : \E i \in 1 .. N : p[i] = k
        /\ \A i, j \in 1 .. N : i < j => c[p[i]] >= c[p[j]]
    <3>1. c \in [1 .. N -> Nat]
      BY DEF Volumes
    <3>2. Orders(p, c, N)
      BY OrderFacts
    <3>3. QED BY <3>1, <3>2 DEF Orders
  <2> HIDE DEF m
  <2>3. t \in Nat
    BY <2>1, <2>2
  <2>4. ASSUME NEW k \in F PROVE c[k] >= t
    <3>1. PICK i \in 1 .. m : k = p[i]
      BY DEF FirstBins
    <3>2. i \in 1 .. N /\ (i < m \/ i = m)
      BY <2>1
    <3>3. CASE i = m
      BY <2>3, <3>1, <3>3
    <3>4. CASE i < m
      <4>1. c[p[i]] >= c[p[m]]
        BY <2>1, <2>2, <3>2, <3>4
      <4>2. QED BY <3>1, <4>1
    <3>5. QED BY <3>2, <3>3, <3>4
  <2>5. ASSUME NEW k \in 1 .. N \ F PROVE c[k] <= t
    <3>1. PICK i \in 1 .. N : p[i] = k
      BY <2>2
    <3>2. i \notin 1 .. m
      BY <2>5, <3>1 DEF FirstBins
    <3>3. m < i
      BY <2>1, <3>2
    <3>4. QED BY <2>1, <2>2, <2>3, <3>1, <3>3
  <2>6. Cardinality(B) <= Cardinality(F)
    BY <1>4, <1>5
  <2> HIDE DEF t, F
  <2>7. Traded(c, B) <= Traded(c, F)
    BY <1>5, <2>3, <2>4, <2>5, <2>6, LargestHoldMost
  <2>8. ~Enough(c, F)
    BY <1>1, <2>1 DEF F, m
  <2>9. QED BY <2>7, <2>8, EnoughGrows
<1>8. QED BY <1>6, <1>7

LEMMA ProfileHolds ==
    ASSUME BarsAssumption, ProfileAssumption, BarsTypeOK
    PROVE  ValueAreaAroundPoc
<1> DEFINE c == Counts(bars)
           N == NumBins
           poc == Poc(c)
<1>1. SUFFICES ASSUME HasBins(bars), NEW p \in Descending(c)
               PROVE  LET a == Area(c, p)
                      IN  /\ Enough(c, Val(a) .. Vah(a))
                          /\ \A bins \in SUBSET DOMAIN c :
                                Cardinality(bins) < Cardinality(a) => ~Enough(c, bins)
                          /\ \/ poc \in Val(a) .. Vah(a)
                             \/ \E k \in DOMAIN c \ {poc} : c[k] = c[poc]
  BY DEF ValueAreaAroundPoc
<1>2. c \in Volumes(N) /\ Total(c) > 0 /\ N \in Nat \ {0}
  BY <1>1, BinsHoldAll DEF HasBins, BarsTypeOK, ProfileAssumption
<1> HIDE DEF c, N
<1>3. DOMAIN c = 1 .. N /\ \A k \in 1 .. N : c[k] \in Nat
  BY <1>2 DEF Volumes
<1> DEFINE a == Area(c, p)
<1>4. PICK n \in 1 .. N : a = FirstBins(p, n) /\ Enough(c, FirstBins(p, n))
  BY <1>2, AreaIsLeast
<1>5. a \in SUBSET (1 .. N) /\ p[1] \in a
  <2>1. n \in 0 .. N /\ N \in Nat /\ 1 \in 1 .. n
    BY <1>2
  <2>2. FirstBins(p, n) \in SUBSET (1 .. N)
    BY <1>2, <2>1, FirstFacts
  <2>3. QED BY <1>4, <2>1, <2>2 DEF FirstBins
<1>6. Min(a) \in a /\ Max(a) \in a /\ \A k \in a : Min(a) <= k /\ k <= Max(a)
  <2>1. a \in SUBSET Nat /\ a \in SUBSET (0 .. N) /\ a # {} /\ N \in Nat
    BY <1>2, <1>5
  <2> HIDE DEF a
  <2>2. QED BY <2>1, LeastOf, GreatestOf
<1>7. a \subseteq Val(a) .. Vah(a)
  <2> HIDE DEF a
  <2>1. \A k \in a : k \in Int
    BY <1>2, <1>5
  <2>2. Min(a) \in Int /\ Max(a) \in Int
    BY <1>6, <2>1
  <2>3. \A k \in a : k \in Min(a) .. Max(a)
    BY <1>6, <2>1, <2>2
  <2>4. QED BY <2>3 DEF Val, Vah
<1> HIDE DEF a
<1>8. Enough(c, Val(a) .. Vah(a))
  <2>1. Traded(c, a) <= Traded(c, Val(a) .. Vah(a))
    BY <1>2, <1>7, TradedGrows
  <2>2. QED BY <1>2, <1>4, <2>1, EnoughGrows
<1>9. \A bins \in SUBSET DOMAIN c : Cardinality(bins) < Cardinality(a) => ~Enough(c, bins)
  BY <1>2, <1>3, FewerAreTooFew DEF a
<1>10. \/ poc \in Val(a) .. Vah(a)
       \/ \E k \in DOMAIN c \ {poc} : c[k] = c[poc]
  <2> DEFINE S == {k \in 1 .. N : \A j \in 1 .. N : c[j] <= c[k]}
             first == p[1]
  <2>1. /\ p \in [1 .. N -> 1 .. N] /\ \A k \in 1 .. N : \E i \in 1 .. N : p[i] = k
        /\ \A i, j \in 1 .. N : i < j => c[p[i]] >= c[p[j]]
    <3>1. N \in Nat
      BY <1>2
    <3>2. Orders(p, c, N)
      BY <1>2, <3>1, OrderFacts
    <3>3. QED BY <3>2 DEF Orders
  <2>2. first \in S
    <3>1. 1 \in 1 .. N /\ first \in 1 .. N
      BY <1>2, <2>1
    <3>2. ASSUME NEW j \in 1 .. N PROVE c[j] <= c[first]
      <4>1. PICK i \in 1 .. N : p[i] = j
        BY <2>1
      <4>2. i = 1 \/ 1 < i
        OBVIOUS
      <4>3. CASE i = 1
        BY <1>3, <4>1, <4>3
      <4>4. CASE 1 < i
        <5>1. c[p[1]] >= c[p[i]]
          BY <2>1, <3>1, <4>4
        <5>2. QED BY <4>1, <5>1
      <4>5. QED BY <4>2, <4>3, <4>4
    <3>3. QED BY <3>1, <3>2
  <2>3. poc \in S
    <3>1. S \in SUBSET Nat /\ S # {}
      BY <2>2
    <3>2. poc = Min(S)
      BY <1>3 DEF Poc
    <3> HIDE DEF S
    <3>3. QED BY <3>1, <3>2, LeastOf
  <2> HIDE DEF poc, first
  <2>4. first \in 1 .. N /\ poc \in 1 .. N /\ c[first] = c[poc]
    BY <1>3, <2>2, <2>3
  <2>5. CASE first = poc
    BY <1>5, <1>7, <2>5 DEF first
  <2>6. CASE first # poc
    BY <1>3, <2>4, <2>6
  <2>7. QED BY <2>5, <2>6
<1>11. QED BY <1>8, <1>9, <1>10 DEF a

\* The value area of any candles holds its share of the volume in as few bins
\* as possible, and the price with the most is in it or is not the only one
\* (calculate_volume_profile).
THEOREM AreaHoldsShare == CandlesSpec => []ValueAreaAroundPoc
<1>1. BarsTypeOK => ValueAreaAroundPoc
  BY ProfileHolds, BarsAssumption, ProfileAssumption
<1>2. QED BY <1>1, WindowType, PTL

-----------------------------------------------------------------------------
(* Sums of a part, of equal numbers and of multiples.                      *)

\* The first numbers add up to the sum after as many rounds.
LEMMA SumsOfFirst ==
    ASSUME NEW N \in Nat, NEW K \in 0 .. N, NEW f \in Numbers(N), NEW g \in Numbers(K),
           \A n \in 1 .. K : g[n] = f[n]
    PROVE  Total(g) = Sums(f)[K]
<1> DEFINE F == Sums(f)
           G == Sums(g)
           D == {n \in 0 .. K : G[n] = F[n]}
<1>1. /\ F \in [0 .. N -> Int] /\ F[0] = 0
      /\ \A n \in 1 .. N : F[n] = F[n - 1] + f[n]
  BY SumsRecur
<1>2. K \in Nat
  OBVIOUS
<1>3. /\ G \in [0 .. K -> Int] /\ G[0] = 0 /\ Total(g) = G[K]
      /\ \A n \in 1 .. K : G[n] = G[n - 1] + g[n]
  BY <1>2, SumsRecur
<1> HIDE DEF F, G
<1>4. 0 \in D
  BY <1>1, <1>3
<1>5. ASSUME NEW n \in 1 .. K, n - 1 \in D PROVE n \in D
  <2>1. n \in 1 .. N /\ n \in 0 .. K
    OBVIOUS
  <2>2. G[n - 1] = F[n - 1] /\ g[n] = f[n]
    BY <1>5
  <2>3. QED BY <1>1, <1>3, <2>1, <2>2
<1> HIDE DEF D
<1>6. 0 .. K \subseteq D
  BY <1>2, <1>4, <1>5, InductionUpTo
<1>7. K \in D
  BY <1>6
<1>8. QED BY <1>3, <1>7 DEF D, F

\* The first numbers, as a part of a sequence.
LEMMA PartOfSequence ==
    ASSUME NEW N \in Nat, NEW f \in Numbers(N), NEW K \in 0 .. N
    PROVE  /\ SubSeq(f, 1, K) \in Numbers(K)
           /\ Total(SubSeq(f, 1, K)) = Sums(f)[K]
<1> DEFINE g == SubSeq(f, 1, K)
<1>1. f \in Seq(Int) /\ Len(f) = N
  BY DEF Numbers
<1>2. g \in Seq(Int) /\ Len(g) = K /\ \A n \in 1 .. K : g[n] = f[n]
  BY <1>1
<1> HIDE DEF g
<1>3. g \in Numbers(K)
  BY <1>2 DEF Numbers
<1>4. Total(g) = Sums(f)[K]
  BY <1>2, <1>3, SumsOfFirst
<1>5. QED BY <1>3, <1>4 DEF g

LEMMA SumOfOneMore ==
    ASSUME NEW K \in Nat, NEW f \in Numbers(K + 1), NEW g \in Numbers(K),
           \A n \in 1 .. K : g[n] = f[n]
    PROVE  Total(f) = Total(g) + f[K + 1]
<1>1. K + 1 \in Nat /\ K \in 0 .. K + 1 /\ K + 1 \in 1 .. K + 1 /\ (K + 1) - 1 = K
  OBVIOUS
<1>2. Total(g) = Sums(f)[K]
  BY <1>1, SumsOfFirst
<1>3. /\ Total(f) = Sums(f)[K + 1]
      /\ \A n \in 1 .. K + 1 : Sums(f)[n] = Sums(f)[n - 1] + f[n]
  BY <1>1, SumsRecur
<1>4. QED BY <1>1, <1>2, <1>3

LEMMA TotalTimes ==
    ASSUME NEW N \in Nat, NEW c \in Int, NEW f \in Numbers(N), NEW g \in Numbers(N),
           \A n \in 1 .. N : g[n] = c * f[n]
    PROVE  Total(g) = c * Total(f)
<1> DEFINE z == [n \in 1 .. N |-> 0]
           p == Plus(z, c, f, N)
<1>1. z \in Numbers(N) /\ Total(z) = 0
  <2>1. z \in Numbers(N) /\ \A n \in 1 .. N : z[n] = 0
    BY DEF Numbers
  <2> HIDE DEF z
  <2>2. QED BY <2>1, NothingIsZero
<1>2. p \in Numbers(N) /\ Total(p) = WithTimes(Total(z), c, Total(f))
  <2> HIDE DEF z
  <2>1. QED BY <1>1, TotalLinear
<1>3. g = p
  <2>1. \A n \in 1 .. N : c * f[n] \in Int
    BY DEF Numbers
  <2>2. \A n \in 1 .. N : p[n] = c * f[n]
    BY <2>1 DEF Plus
  <2>3. \A n \in 1 .. N : g[n] = p[n]
    BY <2>2
  <2> HIDE DEF p
  <2>4. QED BY <1>2, <2>3, SameNumbers
<1>4. Total(f) \in Int /\ c * Total(f) \in Int
  BY TotalType
<1> HIDE DEF p, z
<1>5. QED BY <1>1, <1>2, <1>3, <1>4 DEF WithTimes

\* A bound of each number bounds the sum.
LEMMA TotalBounds ==
    ASSUME NEW N \in Nat, NEW c \in Int, NEW f \in Numbers(N)
    PROVE  /\ (\A n \in 1 .. N : c <= f[n]) => c * N <= Total(f)
           /\ (\A n \in 1 .. N : f[n] <= c) => Total(f) <= c * N
<1> DEFINE one == Ones(1 .. N, N)
           g == [n \in 1 .. N |-> c]
<1>1. one \in Numbers(N) /\ Total(one) = N
  <2>1. (1 .. N) \in SUBSET (1 .. N)
    OBVIOUS
  <2>2. one \in Numbers(N) /\ Total(one) = Cardinality(1 .. N)
    BY <2>1, CardinalityIsTotal
  <2>3. N \in Int /\ 1 \in Int
    OBVIOUS
  <2>4. Cardinality(1 .. N) = IF 1 > N THEN 0 ELSE N - 1 + 1
    BY <2>3, FS_Interval
  <2>5. QED BY <2>2, <2>4
<1>2. \A n \in 1 .. N : g[n] = c * one[n]
  BY DEF Ones
<1>3. g \in Numbers(N)
  BY DEF Numbers
<1>4. \A n \in 1 .. N : g[n] = c
  OBVIOUS
<1> HIDE DEF one, g
<1>5. Total(g) = c * N
  BY <1>1, <1>2, <1>3, TotalTimes
<1>6. ASSUME \A n \in 1 .. N : c <= f[n] PROVE c * N <= Total(f)
  <2>1. \A n \in 1 .. N : g[n] <= f[n]
    BY <1>4, <1>6
  <2>2. QED BY <1>3, <1>5, <2>1, TotalAtMost
<1>7. ASSUME \A n \in 1 .. N : f[n] <= c PROVE Total(f) <= c * N
  <2>1. \A n \in 1 .. N : f[n] <= g[n]
    BY <1>4, <1>7
  <2>2. QED BY <1>3, <1>5, <2>1, TotalAtMost
<1>8. QED BY <1>6, <1>7

\* One number that is not zero is enough.
LEMMA TotalPositive ==
    ASSUME NEW N \in Nat, NEW f \in Numbers(N), \A n \in 1 .. N : f[n] >= 0,
           NEW k \in 1 .. N, f[k] > 0
    PROVE  Total(f) > 0
<1> DEFINE one == Ones({k}, N)
<1>1. one \in Numbers(N) /\ Total(one) = 1
  <2>1. {k} \in SUBSET (1 .. N)
    OBVIOUS
  <2>2. one \in Numbers(N) /\ Total(one) = Cardinality({k})
    BY <2>1, CardinalityIsTotal
  <2>3. QED BY <2>2, FS_Singleton
<1>2. \A n \in 1 .. N : one[n] <= f[n]
  BY DEF Ones, Numbers
<1> HIDE DEF one
<1>3. Total(one) <= Total(f)
  BY <1>1, <1>2, TotalAtMost
<1>4. QED BY <1>1, <1>3, TotalType

-----------------------------------------------------------------------------
(* Powers.                                                                 *)

\* Powers, one factor at a time.
LEMMA PowerRecurs ==
    ASSUME NEW b \in Int, NEW n \in Nat
    PROVE  Power(b, 0) = 1 /\ Power(b, n + 1) = b * Power(b, n) /\ Power(b, n) \in Int
<1> DEFINE P(m) == CHOOSE f : f = [k \in 0 .. m |-> IF k = 0 THEN 1 ELSE b * f[k - 1]]
           N == n + 1
           step == [k \in 1 .. N |-> [x \in Int |-> b * x]]
<1>1. step \in [1 .. N -> [Int -> Int]]
  OBVIOUS
<1>2. PICK g \in [0 .. N -> Int] : Loop(g, N, 1, step)
  <2> HIDE DEF step
  <2>1. N \in Nat /\ 1 \in Int
    OBVIOUS
  <2>2. QED BY <1>1, <2>1, Recursion
<1>3. g[0] = 1 /\ \A k \in 1 .. N : k - 1 \in 0 .. N /\ g[k] = b * g[k - 1]
  <2>1. g[0] = 1
    BY <1>2 DEF Loop
  <2>2. ASSUME NEW k \in 1 .. N PROVE k - 1 \in 0 .. N /\ g[k] = b * g[k - 1]
    <3>1. k - 1 \in 0 .. N
      OBVIOUS
    <3>2. g[k - 1] \in Int
      BY <1>2, <3>1
    <3>3. step[k][g[k - 1]] = b * g[k - 1]
      BY <3>2
    <3>4. QED BY <1>2, <3>1, <3>3 DEF Loop
  <2>3. QED BY <2>1, <2>2
<1> HIDE DEF step
<1>4. ASSUME NEW m \in 0 .. N PROVE Power(b, m) = g[m]
  <2> DEFINE h == [k \in 0 .. m |-> g[k]]
             F == P(m)
             D == {k \in 0 .. m : F[k] = g[k]}
  <2>1. h = [k \in 0 .. m |-> IF k = 0 THEN 1 ELSE b * h[k - 1]]
    <3>1. \A k \in 0 .. m : h[k] = IF k = 0 THEN 1 ELSE b * h[k - 1]
      <4>1. TAKE k \in 0 .. m
      <4>2. CASE k = 0
        BY <1>3, <4>2
      <4>3. CASE k # 0
        <5>1. k \in 1 .. N /\ k - 1 \in 0 .. m
          BY <4>3
        <5>2. QED BY <1>3, <4>3, <5>1
      <4>4. QED BY <4>2, <4>3
    <3>2. QED BY <3>1
  <2> HIDE DEF h
  <2>2. F = [k \in 0 .. m |-> IF k = 0 THEN 1 ELSE b * F[k - 1]]
    BY <2>1
  <2>3. Power(b, m) = F[m]
    BY DEF Power
  <2> HIDE DEF F
  <2>4. 0 \in D
    BY <1>3, <2>2
  <2>5. ASSUME NEW k \in 1 .. m, k - 1 \in D PROVE k \in D
    <3>1. k \in 0 .. m /\ k \in 1 .. N /\ k # 0
      OBVIOUS
    <3>2. F[k] = b * F[k - 1]
      BY <2>2, <3>1
    <3>3. QED BY <1>3, <2>5, <3>1, <3>2
  <2> HIDE DEF D
  <2>6. m \in Nat
    OBVIOUS
  <2>7. 0 .. m \subseteq D
    BY <2>4, <2>5, <2>6, InductionUpTo
  <2>8. m \in D
    BY <2>6, <2>7
  <2>9. QED BY <2>3, <2>8 DEF D
<1>5. 0 \in 0 .. N /\ n \in 0 .. N /\ n + 1 \in 0 .. N /\ n + 1 \in 1 .. N /\ (n + 1) - 1 = n
  OBVIOUS
<1>6. Power(b, 0) = g[0] /\ Power(b, n) = g[n] /\ Power(b, n + 1) = g[n + 1]
  BY <1>4, <1>5
<1>7. g[n + 1] = b * g[n] /\ g[n] \in Int
  BY <1>2, <1>3, <1>5
<1>8. QED BY <1>3, <1>6, <1>7

-----------------------------------------------------------------------------
(* Running averages.                                                       *)

Quotients == Int \X (Nat \ {0})

\* The average q, moved towards x.
Nearer(q, x, p, s) == <<q[1] * (p - 1) + s * x * q[2], q[2] * (p - 1 + s)>>

IsAverages(A, v, N, p, s) ==
    /\ A \in [1 .. N - p + 1 -> Quotients]
    /\ A[1] = <<Total(SubSeq(v, 1, p)), p>>
    /\ \A i \in 1 .. N - p : A[i + 1] = Nearer(A[i], v[p + i], p, s)

LEMMA ProductPositive ==
    ASSUME NEW x \in Nat \ {0}, NEW y \in Nat \ {0}
    PROVE  x * y \in Nat \ {0}
<1>1. x * y \in Nat /\ x * y # 0
  OBVIOUS
<1>2. QED BY <1>1

LEMMA NearerType ==
    ASSUME NEW q \in Quotients, NEW x \in Int, NEW p \in Nat \ {0}, NEW s \in Nat \ {0}
    PROVE  Nearer(q, x, p, s) \in Quotients
<1> DEFINE d == q[2]
           m == p - 1
           t == m + s
<1>1. q[1] \in Int /\ d \in Nat \ {0} /\ m \in Int /\ t \in Nat \ {0}
  BY DEF Quotients
<1>2. Nearer(q, x, p, s) = <<q[1] * m + s * x * d, d * t>>
  BY DEF Nearer
<1> HIDE DEF d, m, t
<1>3. q[1] * m \in Int /\ s * x \in Int /\ s * x * d \in Int
  BY <1>1
<1>4. d * t \in Nat \ {0}
  BY <1>1, ProductPositive
<1>5. q[1] * m + s * x * d \in Int
  BY <1>3
<1>6. QED BY <1>2, <1>4, <1>5 DEF Quotients

\* The recursive function computes what calculate_ema's loop does, one average
\* for each value from the first whole period on.
LEMMA AveragesRecur ==
    ASSUME NEW N \in Nat, NEW v \in Numbers(N), NEW p \in 1 .. N, NEW s \in Nat \ {0}
    PROVE  /\ IsAverages(Averages(v, p, s), v, N, p, s)
           /\ Len(v) = N /\ N - p + 1 \in Nat \ {0}
           /\ Averages(v, p, s) \in Seq(Quotients)
           /\ Len(Averages(v, p, s)) = N - p + 1
           /\ Averages(v, p, s) # <<>>
           /\ Last(Averages(v, p, s)) = Averages(v, p, s)[N - p + 1]
<1> DEFINE L == N - p
           M == N - p + 1
           base == <<Total(SubSeq(v, 1, p)), p>>
           step == [n \in 1 .. L |-> [q \in Quotients |-> Nearer(q, v[p + n], p, s)]]
<1>1. L \in Nat /\ M \in Nat \ {0} /\ M = L + 1 /\ p \in Nat \ {0}
  OBVIOUS
<1>2. Len(v) = N /\ \A n \in 1 .. N : v[n] \in Int
  BY DEF Numbers
<1>3. base \in Quotients
  <2>1. p \in 0 .. N
    OBVIOUS
  <2>2. Total(SubSeq(v, 1, p)) \in Int
    BY <1>1, <2>1, PartOfSequence, TotalType
  <2>3. QED BY <1>1, <2>2 DEF Quotients
<1>4. \A n \in 1 .. L : p + n \in 1 .. N /\ v[p + n] \in Int
  BY <1>2
<1>5. step \in [1 .. L -> [Quotients -> Quotients]]
  <2>1. \A n \in 1 .. L : \A q \in Quotients : Nearer(q, v[p + n], p, s) \in Quotients
    BY <1>1, <1>4, NearerType
  <2>2. QED BY <2>1
<1> HIDE DEF base
<1>6. PICK g \in [0 .. L -> Quotients] : Loop(g, L, base, step)
  <2> HIDE DEF step, L
  <2>1. QED BY <1>1, <1>3, <1>5, Recursion
<1>7. g[0] = base /\ \A n \in 1 .. L : n - 1 \in 0 .. L /\ g[n] = Nearer(g[n - 1], v[p + n], p, s)
  <2>1. g[0] = base
    BY <1>6 DEF Loop
  <2>2. ASSUME NEW n \in 1 .. L
        PROVE  n - 1 \in 0 .. L /\ g[n] = Nearer(g[n - 1], v[p + n], p, s)
    <3>1. n - 1 \in 0 .. L
      OBVIOUS
    <3>2. g[n - 1] \in Quotients
      BY <1>6, <3>1
    <3>3. step[n][g[n - 1]] = Nearer(g[n - 1], v[p + n], p, s)
      BY <3>2
    <3>4. g[n] = step[n][g[n - 1]]
      BY <1>6 DEF Loop
    <3>5. QED BY <3>1, <3>3, <3>4
  <2>3. QED BY <2>1, <2>2
<1> HIDE DEF step
<1> DEFINE h == [i \in 1 .. M |-> g[i - 1]]
<1>8. h = [i \in 1 .. M |-> IF i = 1 THEN base ELSE Nearer(h[i - 1], v[p + i - 1], p, s)]
  <2>1. ASSUME NEW i \in 1 .. M
        PROVE  h[i] = IF i = 1 THEN base ELSE Nearer(h[i - 1], v[p + i - 1], p, s)
    <3>1. CASE i = 1
      BY <1>7, <3>1
    <3>2. CASE i # 1
      <4>1. i - 1 \in 1 .. L /\ i - 1 \in 1 .. M /\ p + (i - 1) = p + i - 1
        BY <1>1, <3>2
      <4>2. h[i] = g[i - 1] /\ h[i - 1] = g[(i - 1) - 1]
        BY <4>1
      <4>3. QED BY <1>7, <3>2, <4>1, <4>2
    <3>3. QED BY <3>1, <3>2
  <2> HIDE DEF M
  <2>2. QED BY <2>1
<1> HIDE DEF h
<1> DEFINE A == Averages(v, p, s)
<1>9. A = [i \in 1 .. M |-> IF i = 1 THEN base ELSE Nearer(A[i - 1], v[p + i - 1], p, s)]
  BY <1>2, <1>8 DEF Averages, Nearer, base
<1> HIDE DEF A
<1>10. \A i \in 1 .. L : A[i + 1] = Nearer(A[i], v[p + i], p, s)
  <2>1. TAKE i \in 1 .. L
  <2>2. i + 1 \in 1 .. M /\ i + 1 # 1 /\ (i + 1) - 1 = i /\ p + (i + 1) - 1 = p + i
    BY <1>1
  <2>3. QED BY <1>9, <2>2
<1>11. A[1] = base
  BY <1>1, <1>9
<1>12. A \in [1 .. M -> Quotients]
  <2> DEFINE D == {n \in 0 .. L : A[n + 1] \in Quotients}
  <2>1. 0 \in D
    BY <1>1, <1>3, <1>11
  <2>2. ASSUME NEW n \in 1 .. L, n - 1 \in D PROVE n \in D
    <3>1. (n - 1) + 1 = n /\ n \in 0 .. L
      OBVIOUS
    <3>2. A[n] \in Quotients
      BY <2>2, <3>1
    <3>3. A[n + 1] \in Quotients
      BY <1>1, <1>4, <1>10, <3>2, NearerType
    <3>4. QED BY <3>1, <3>3
  <2> HIDE DEF D, L
  <2>3. 0 .. L \subseteq D
    BY <1>1, <2>1, <2>2, InductionUpTo
  <2>4. \A i \in 1 .. M : A[i] \in Quotients
    <3>1. TAKE i \in 1 .. M
    <3>2. i - 1 \in 0 .. L /\ (i - 1) + 1 = i
      BY <1>1
    <3>3. i - 1 \in D
      BY <2>3, <3>2
    <3>4. QED BY <3>2, <3>3 DEF D
  <2>5. QED BY <1>9, <2>4
<1>13. IsAverages(A, v, N, p, s)
  BY <1>10, <1>11, <1>12 DEF IsAverages, base
<1>14. A \in Seq(Quotients) /\ Len(A) = M
  <2> HIDE DEF M
  <2>1. QED BY <1>1, <1>12
<1>15. A # <<>>
  BY <1>1, <1>14
<1>16. Last(A) = A[M]
  BY <1>14 DEF Last
<1>17. QED BY <1>1, <1>2, <1>13, <1>14, <1>15, <1>16 DEF A

\* Fewer values than the period: no line.
LEMMA NoAverages ==
    ASSUME NEW N \in Nat, NEW v \in Numbers(N), NEW p \in Nat, p > N, NEW s \in Nat
    PROVE  Averages(v, p, s) = <<>>
<1> DEFINE M == N - p + 1
           base == <<Total(SubSeq(v, 1, p)), p>>
           A == Averages(v, p, s)
<1>1. 1 .. M = {} /\ Len(v) = N
  BY DEF Numbers
<1> HIDE DEF base
<1>2. A = [i \in 1 .. M |-> IF i = 1 THEN base ELSE Nearer(A[i - 1], v[p + i - 1], p, s)]
  <2> DEFINE h == [i \in 1 .. M |-> 0]
  <2>1. h = [i \in 1 .. M |-> IF i = 1 THEN base ELSE Nearer(h[i - 1], v[p + i - 1], p, s)]
    BY <1>1
  <2> HIDE DEF h
  <2>2. QED BY <1>1, <2>1 DEF Averages, Nearer, base
<1> HIDE DEF A
<1>3. DOMAIN A = {}
  BY <1>1, <1>2
<1>4. A \in Seq(Quotients) /\ Len(A) = 0
  <2>1. A \in [1 .. 0 -> Quotients]
    BY <1>1, <1>2
  <2>2. QED BY <2>1
<1>5. A = <<>>
  BY <1>4
<1>6. QED BY <1>5 DEF A

-----------------------------------------------------------------------------
(* An average lies between the bounds of what it is taken of.              *)

AtLeast(q, c) == c * q[2] <= q[1]
AtMost(q, c)  == q[1] <= c * q[2]

\* A step towards a value within the bound stays within it.
LEMMA NearerBounds ==
    ASSUME NEW q \in Quotients, NEW x \in Int, NEW c \in Int,
           NEW p \in Nat \ {0}, NEW s \in Nat \ {0}
    PROVE  /\ AtLeast(q, c) /\ c <= x => AtLeast(Nearer(q, x, p, s), c)
           /\ AtMost(q, c) /\ x <= c => AtMost(Nearer(q, x, p, s), c)
<1> DEFINE a == q[1]
           d == q[2]
           m == p - 1
           y == s * d
           D == c * d
<1>1. a \in Int /\ d \in Nat \ {0} /\ m \in Nat
  BY DEF Quotients
<1>2. /\ Nearer(q, x, p, s) = <<a * m + s * x * d, d * (m + s)>>
      /\ AtLeast(q, c) <=> c * d <= a
      /\ AtMost(q, c) <=> a <= c * d
  BY DEF Nearer, AtLeast, AtMost
<1> HIDE DEF a, d, m
<1>3. y \in Nat /\ D \in Int
  BY <1>1
<1>4. s * x * d = x * y
  BY <1>1
<1>5. c * (d * (m + s)) = D * m + c * y
  BY <1>1
<1> HIDE DEF y
<1>6. AtLeast(q, c) <=> D <= a
  BY <1>2
<1>7. AtMost(q, c) <=> a <= D
  BY <1>2
<1> HIDE DEF D
<1>8. a * m \in Int /\ x * y \in Int /\ D * m \in Int /\ c * y \in Int
  BY <1>1, <1>3
<1>9. ASSUME AtLeast(q, c), c <= x PROVE AtLeast(Nearer(q, x, p, s), c)
  <2>1. D * m <= a * m
    BY <1>1, <1>3, <1>6, <1>9, TimesMonotone
  <2>2. c * y <= x * y
    BY <1>3, <1>9, TimesMonotone
  <2>3. D * m + c * y <= a * m + x * y
    BY <1>8, <2>1, <2>2
  <2>4. QED BY <1>2, <1>4, <1>5, <2>3 DEF AtLeast
<1>10. ASSUME AtMost(q, c), x <= c PROVE AtMost(Nearer(q, x, p, s), c)
  <2>1. a * m <= D * m
    BY <1>1, <1>3, <1>7, <1>10, TimesMonotone
  <2>2. x * y <= c * y
    BY <1>3, <1>10, TimesMonotone
  <2>3. a * m + x * y <= D * m + c * y
    BY <1>8, <2>1, <2>2
  <2>4. QED BY <1>2, <1>4, <1>5, <2>3 DEF AtMost
<1>11. QED BY <1>9, <1>10

\* What holds of the first average and is kept by every value holds of all.
LEMMA AveragesInduct ==
    ASSUME NEW M \in Nat \ {0}, NEW D, 1 \in D, \A i \in 1 .. M - 1 : i \in D => i + 1 \in D
    PROVE  \A i \in 1 .. M : i \in D
<1> DEFINE E == {n \in 0 .. M - 1 : n + 1 \in D}
<1>1. M - 1 \in Nat /\ 0 \in E
  OBVIOUS
<1>2. ASSUME NEW n \in 1 .. M - 1, n - 1 \in E PROVE n \in E
  <2>1. (n - 1) + 1 = n /\ n \in 0 .. M - 1
    OBVIOUS
  <2>2. QED BY <1>2, <2>1
<1> HIDE DEF E
<1>3. 0 .. M - 1 \subseteq E
  BY <1>1, <1>2, InductionUpTo
<1>4. \A i \in 1 .. M : i - 1 \in 0 .. M - 1 /\ (i - 1) + 1 = i
  OBVIOUS
<1>5. QED BY <1>3, <1>4 DEF E

\* No average is below all the values it is taken of.
LEMMA AveragesAtLeast ==
    ASSUME NEW N \in Nat, NEW v \in Numbers(N), NEW p \in 1 .. N, NEW s \in Nat \ {0},
           NEW A, IsAverages(A, v, N, p, s), NEW c \in Int, NEW k \in 1 .. N - p + 1,
           \A n \in 1 .. p + k - 1 : c <= v[n]
    PROVE  AtLeast(A[k], c)
<1> DEFINE D == {i \in 1 .. k : AtLeast(A[i], c)}
<1>1. p \in Nat \ {0} /\ k \in Nat \ {0} /\ p \in 0 .. N /\ \A n \in 1 .. N : v[n] \in Int
  BY DEF Numbers
<1>2. 1 \in D
  <2>1. /\ SubSeq(v, 1, p) \in Numbers(p) /\ v \in Seq(Int) /\ Len(v) = N
        /\ \A n \in 1 .. p : SubSeq(v, 1, p)[n] = v[n]
    BY <1>1, PartOfSequence DEF Numbers
  <2>2. \A n \in 1 .. p : c <= SubSeq(v, 1, p)[n]
    BY <2>1
  <2>3. c * p <= Total(SubSeq(v, 1, p))
    BY <1>1, <2>1, <2>2, TotalBounds
  <2>4. QED BY <1>1, <2>3 DEF IsAverages, AtLeast
<1>3. ASSUME NEW i \in 1 .. k - 1, i \in D PROVE i + 1 \in D
  <2>1. i \in 1 .. N - p /\ i \in 1 .. N - p + 1 /\ p + i \in 1 .. N /\ p + i \in 1 .. p + k - 1
    BY <1>1
  <2>2. A[i] \in Quotients /\ A[i + 1] = Nearer(A[i], v[p + i], p, s)
    BY <2>1 DEF IsAverages
  <2>3. c <= v[p + i] /\ v[p + i] \in Int /\ AtLeast(A[i], c)
    BY <1>1, <1>3, <2>1
  <2>4. AtLeast(A[i + 1], c)
    BY <1>1, <2>2, <2>3, NearerBounds
  <2>5. QED BY <2>4
<1> HIDE DEF D
<1>4. k \in D
  BY <1>1, <1>2, <1>3, AveragesInduct
<1>5. QED BY <1>4 DEF D

\* No average is above all the values it is taken of.
LEMMA AveragesAtMost ==
    ASSUME NEW N \in Nat, NEW v \in Numbers(N), NEW p \in 1 .. N, NEW s \in Nat \ {0},
           NEW A, IsAverages(A, v, N, p, s), NEW c \in Int, NEW k \in 1 .. N - p + 1,
           \A n \in 1 .. p + k - 1 : v[n] <= c
    PROVE  AtMost(A[k], c)
<1> DEFINE D == {i \in 1 .. k : AtMost(A[i], c)}
<1>1. p \in Nat \ {0} /\ k \in Nat \ {0} /\ p \in 0 .. N /\ \A n \in 1 .. N : v[n] \in Int
  BY DEF Numbers
<1>2. 1 \in D
  <2>1. /\ SubSeq(v, 1, p) \in Numbers(p) /\ v \in Seq(Int) /\ Len(v) = N
        /\ \A n \in 1 .. p : SubSeq(v, 1, p)[n] = v[n]
    BY <1>1, PartOfSequence DEF Numbers
  <2>2. \A n \in 1 .. p : SubSeq(v, 1, p)[n] <= c
    BY <2>1
  <2>3. Total(SubSeq(v, 1, p)) <= c * p
    BY <1>1, <2>1, <2>2, TotalBounds
  <2>4. QED BY <1>1, <2>3 DEF IsAverages, AtMost
<1>3. ASSUME NEW i \in 1 .. k - 1, i \in D PROVE i + 1 \in D
  <2>1. i \in 1 .. N - p /\ i \in 1 .. N - p + 1 /\ p + i \in 1 .. N /\ p + i \in 1 .. p + k - 1
    BY <1>1
  <2>2. A[i] \in Quotients /\ A[i + 1] = Nearer(A[i], v[p + i], p, s)
    BY <2>1 DEF IsAverages
  <2>3. v[p + i] <= c /\ v[p + i] \in Int /\ AtMost(A[i], c)
    BY <1>1, <1>3, <2>1
  <2>4. AtMost(A[i + 1], c)
    BY <1>1, <2>2, <2>3, NearerBounds
  <2>5. QED BY <2>4
<1> HIDE DEF D
<1>4. k \in D
  BY <1>1, <1>2, <1>3, AveragesInduct
<1>5. QED BY <1>4 DEF D

\* An average over more than one value forgets nothing: it is not zero if one
\* of the values is not.
LEMMA AveragesPositive ==
    ASSUME NEW N \in Nat, NEW v \in Numbers(N), NEW p \in 1 .. N, p > 1, NEW s \in Nat \ {0},
           NEW A, IsAverages(A, v, N, p, s), \A n \in 1 .. N : v[n] >= 0,
           NEW j \in 1 .. N, v[j] > 0
    PROVE  A[N - p + 1][1] > 0
<1> DEFINE M == N - p + 1
           D == {i \in 1 .. M : j <= p + i - 1 => A[i][1] > 0}
<1>1. p \in Nat \ {0} /\ M \in Nat \ {0} /\ p \in 0 .. N /\ \A n \in 1 .. N : v[n] \in Int
  BY DEF Numbers
<1>2. 1 \in D
  <2>1. /\ SubSeq(v, 1, p) \in Numbers(p) /\ v \in Seq(Int) /\ Len(v) = N
        /\ \A n \in 1 .. p : SubSeq(v, 1, p)[n] = v[n]
    BY <1>1, PartOfSequence DEF Numbers
  <2>2. SUFFICES ASSUME j <= p PROVE A[1][1] > 0
    BY <1>1
  <2>3. /\ \A n \in 1 .. p : SubSeq(v, 1, p)[n] >= 0
        /\ j \in 1 .. p /\ SubSeq(v, 1, p)[j] > 0
    BY <2>1, <2>2
  <2>4. Total(SubSeq(v, 1, p)) > 0
    BY <1>1, <2>1, <2>3, TotalPositive
  <2>5. QED BY <2>4 DEF IsAverages
<1>3. ASSUME NEW i \in 1 .. M - 1, i \in D PROVE i + 1 \in D
  <2>1. /\ i \in 1 .. N - p /\ i \in 1 .. M /\ i + 1 \in 1 .. M /\ p + i \in 1 .. N
        /\ p + (i + 1) - 1 = p + i
    BY <1>1
  <2> DEFINE a == A[i][1]
             d == A[i][2]
             x == v[p + i]
             m == p - 1
  <2>2. A[i] \in Quotients /\ A[i + 1] = Nearer(A[i], v[p + i], p, s)
    BY <2>1 DEF IsAverages
  <2>3. a \in Int /\ d \in Nat \ {0} /\ x \in Nat /\ m \in Nat \ {0}
    BY <1>1, <2>1, <2>2 DEF Quotients
  <2>4. A[i + 1][1] = a * m + s * x * d
    BY <2>2 DEF Nearer
  <2>5. a >= 0
    <3>1. \A n \in 1 .. p + i - 1 : 0 <= v[n]
      BY <1>1, <2>1
    <3>2. AtLeast(A[i], 0)
      BY <2>1, <3>1, AveragesAtLeast
    <3>3. QED BY <2>3, <3>2 DEF AtLeast
  <2>6. j <= p + i - 1 => a > 0
    BY <1>3
  <2>7. j <= p + i => j <= p + i - 1 \/ j = p + i
    BY <1>1, <2>1
  <2>8. j = p + i => x > 0
    OBVIOUS
  <2> HIDE DEF a, d, x, m
  <2>9. SUFFICES ASSUME a > 0 \/ x > 0 PROVE a * m + s * x * d > 0
    BY <2>1, <2>4, <2>6, <2>7, <2>8
  <2>10. a * m \in Nat /\ s * x \in Nat /\ s * x * d \in Nat
    BY <2>3, <2>5
  <2>11. CASE a > 0
    <3>1. a \in Nat \ {0}
      BY <2>3, <2>11
    <3>2. a * m \in Nat \ {0}
      BY <2>3, <3>1, ProductPositive
    <3>3. QED BY <2>10, <3>2
  <2>12. CASE x > 0
    <3>1. x \in Nat \ {0}
      BY <2>3, <2>12
    <3>2. s * x \in Nat \ {0}
      BY <3>1, ProductPositive
    <3>3. s * x * d \in Nat \ {0}
      BY <2>3, <3>2, ProductPositive
    <3>4. QED BY <2>10, <3>3
  <2>13. QED BY <2>9, <2>11, <2>12
<1> HIDE DEF D
<1>4. M \in D
  <2> HIDE DEF M
  <2>1. M \in 1 .. M
    BY <1>1
  <2>2. QED BY <1>1, <1>2, <1>3, <2>1, AveragesInduct
<1>5. j <= p + M - 1
  BY <1>1
<1>6. QED BY <1>4, <1>5 DEF D

-----------------------------------------------------------------------------
(* The moving average in closed form.                                      *)

\* The weighted values after k rounds.
WeightedAfter(v, p, k) ==
    [j \in 1 .. k |-> 2 * Power(p - 1, k - j) * Power(p + 1, j - 1) * v[p + j]]

LEMMA WeightedType ==
    ASSUME NEW N \in Nat, NEW v \in Numbers(N), NEW p \in 1 .. N, NEW k \in 0 .. N - p
    PROVE  WeightedAfter(v, p, k) \in Numbers(k)
<1>1. ASSUME NEW j \in 1 .. k
      PROVE  2 * Power(p - 1, k - j) * Power(p + 1, j - 1) * v[p + j] \in Int
  <2>1. /\ p - 1 \in Int /\ p + 1 \in Int /\ k - j \in Nat /\ j - 1 \in Nat
        /\ p + j \in 1 .. N /\ v[p + j] \in Int
    BY DEF Numbers
  <2>2. Power(p - 1, k - j) \in Int /\ Power(p + 1, j - 1) \in Int
    BY <2>1, PowerRecurs
  <2> DEFINE a == Power(p - 1, k - j)
             b == Power(p + 1, j - 1)
             x == v[p + j]
  <2>3. a \in Int /\ b \in Int /\ x \in Int
    BY <2>1, <2>2
  <2> HIDE DEF a, b, x
  <2>4. 2 * a * b * x \in Int
    BY <2>3
  <2>5. QED BY <2>4 DEF a, b, x
<1>2. QED BY <1>1 DEF WeightedAfter, Numbers

\* One more value: the weights of those before shrink alike.
LEMMA WeightedGrows ==
    ASSUME NEW N \in Nat, NEW v \in Numbers(N), NEW p \in 1 .. N, NEW k \in 0 .. N - p - 1
    PROVE  Total(WeightedAfter(v, p, k + 1)) =
             (p - 1) * Total(WeightedAfter(v, p, k)) + 2 * Power(p + 1, k) * v[p + k + 1]
<1> DEFINE old == WeightedAfter(v, p, k)
           new == WeightedAfter(v, p, k + 1)
           shrunk == [j \in 1 .. k |-> new[j]]
           x == v[p + k + 1]
           q == Power(p + 1, k)
<1>1. /\ k \in Nat /\ k \in 0 .. N - p /\ k + 1 \in 0 .. N - p /\ p - 1 \in Int /\ p + 1 \in Int
      /\ p + k + 1 \in 1 .. N /\ x \in Int
  BY DEF Numbers
<1>2. old \in Numbers(k) /\ new \in Numbers(k + 1)
  BY <1>1, WeightedType
<1>3. shrunk \in Numbers(k) /\ \A j \in 1 .. k : shrunk[j] = new[j]
  BY <1>2 DEF Numbers
<1>4. ASSUME NEW j \in 1 .. k PROVE shrunk[j] = (p - 1) * old[j]
  <2> DEFINE a == Power(p - 1, k - j)
             b == Power(p + 1, j - 1)
             y == v[p + j]
             m == p - 1
  <2>1. /\ k - j \in Nat /\ j - 1 \in Nat /\ (k - j) + 1 = k + 1 - j
        /\ p + j \in 1 .. N /\ y \in Int /\ m \in Int
    BY DEF Numbers
  <2>2. Power(p - 1, (k - j) + 1) = m * a /\ a \in Int /\ b \in Int
    BY <1>1, <2>1, PowerRecurs
  <2>3. new[j] = 2 * Power(p - 1, k + 1 - j) * b * y
    BY <1>1 DEF WeightedAfter
  <2>4. new[j] = 2 * (m * a) * b * y
    BY <2>1, <2>2, <2>3
  <2>5. old[j] = 2 * a * b * y
    BY DEF WeightedAfter
  <2>6. shrunk[j] = new[j]
    OBVIOUS
  <2> HIDE DEF a, b, y, m, old, new, shrunk
  <2>7. 2 * (m * a) * b * y = m * (2 * a * b * y)
    BY <2>1, <2>2
  <2>8. QED BY <2>4, <2>5, <2>6, <2>7 DEF m
<1>5. new[k + 1] = 2 * q * x
  <2>1. k + 1 \in 1 .. k + 1 /\ (k + 1) - (k + 1) = 0 /\ (k + 1) - 1 = k /\ p + (k + 1) = p + k + 1
    BY <1>1
  <2>2. new[k + 1] = 2 * Power(p - 1, (k + 1) - (k + 1)) * Power(p + 1, (k + 1) - 1) * v[p + (k + 1)]
    BY <2>1 DEF WeightedAfter
  <2>3. Power(p - 1, 0) = 1 /\ q \in Int
    BY <1>1, PowerRecurs
  <2>4. new[k + 1] = 2 * 1 * q * x
    BY <2>1, <2>2, <2>3
  <2> HIDE DEF q, x
  <2>5. QED BY <2>3, <2>4
<1> HIDE DEF old, new, shrunk
<1>6. Total(new) = Total(shrunk) + new[k + 1]
  BY <1>1, <1>2, <1>3, SumOfOneMore
<1>7. Total(shrunk) = (p - 1) * Total(old)
  BY <1>1, <1>2, <1>3, <1>4, TotalTimes
<1>8. QED BY <1>5, <1>6, <1>7 DEF new, old

\* The closed form of the last average.
LEMMA AveragesAreWeighted ==
    ASSUME NEW N \in Nat, NEW v \in Numbers(N), NEW p \in 1 .. N,
           NEW A, IsAverages(A, v, N, p, 2)
    PROVE  A[N - p + 1] = Weighted(v, p)
<1> DEFINE M == N - p + 1
           T == Total(SubSeq(v, 1, p))
           P(k) == Power(p - 1, k)
           Q(k) == Power(p + 1, k)
           S(k) == Total(WeightedAfter(v, p, k))
           After(k) == <<T * P(k) + p * S(k), p * Q(k)>>
           D == {i \in 1 .. M : A[i] = After(i - 1)}
<1>1. p \in Nat \ {0} /\ M \in Nat \ {0} /\ p \in 0 .. N /\ \A n \in 1 .. N : v[n] \in Int
  BY DEF Numbers
<1>2. p - 1 \in Int /\ p + 1 \in Int /\ T \in Int
  BY <1>1, PartOfSequence, TotalType
<1>3. 1 \in D
  <2>1. 0 \in Nat /\ 0 \in 0 .. N - p
    OBVIOUS
  <2>2. P(0) = 1 /\ Q(0) = 1
    BY <1>2, <2>1, PowerRecurs
  <2>3. S(0) = 0
    <3> DEFINE w == WeightedAfter(v, p, 0)
    <3>1. w \in Numbers(0)
      BY <2>1, WeightedType
    <3>2. \A j \in 1 .. 0 : w[j] = 0
      OBVIOUS
    <3> HIDE DEF w
    <3>3. Total(w) = 0
      BY <2>1, <3>1, <3>2, NothingIsZero
    <3>4. QED BY <3>3 DEF w
  <2>4. A[1] = <<T, p>>
    BY DEF IsAverages
  <2> HIDE DEF P, Q, S, T
  <2>5. After(0) = <<T, p>>
    BY <1>1, <1>2, <2>2, <2>3
  <2> HIDE DEF After
  <2>6. QED BY <1>1, <2>4, <2>5
<1>4. ASSUME NEW i \in 1 .. M - 1, i \in D PROVE i + 1 \in D
  <2> DEFINE k == i - 1
             x == v[p + k + 1]
  <2>1. /\ k \in Nat /\ k \in 0 .. N - p /\ k \in 0 .. N - p - 1 /\ i = k + 1 /\ (i + 1) - 1 = k + 1
        /\ i \in 1 .. N - p /\ i + 1 \in 1 .. M /\ p + i = p + k + 1
        /\ p + k + 1 \in 1 .. N
    BY <1>1
  <2>2. x \in Int
    BY <1>1, <2>1
  <2>3. A[i + 1] = Nearer(A[i], x, p, 2) /\ A[i] = After(k)
    BY <1>4, <2>1 DEF IsAverages
  <2>4. /\ P(k) \in Int /\ Q(k) \in Int
        /\ P(k + 1) = (p - 1) * P(k) /\ Q(k + 1) = (p + 1) * Q(k)
    BY <1>2, <2>1, PowerRecurs
  <2>5. S(k + 1) = (p - 1) * S(k) + 2 * Q(k) * x
    BY <2>1, WeightedGrows
  <2>6. S(k) \in Int
    <3> DEFINE w == WeightedAfter(v, p, k)
    <3>1. w \in Numbers(k)
      BY <2>1, WeightedType
    <3> HIDE DEF w, k
    <3>2. Total(w) \in Int
      BY <2>1, <3>1, TotalType
    <3>3. QED BY <3>2 DEF w
  <2> DEFINE a == P(k)
             b == Q(k)
             c == S(k)
             m == p - 1
  <2>7. /\ a \in Int /\ b \in Int /\ c \in Int /\ m \in Int
        /\ P(k + 1) = m * a /\ Q(k + 1) = (m + 2) * b /\ S(k + 1) = m * c + 2 * b * x
        /\ A[i + 1] = <<(T * a + p * c) * m + 2 * x * (p * b), (p * b) * (m + 2)>>
    <3>1. p + 1 = m + 2
      BY <1>1
    <3>2. A[i + 1] = <<(T * a + p * c) * m + 2 * x * (p * b), (p * b) * (p - 1 + 2)>>
      BY <2>3 DEF Nearer
    <3>3. p - 1 + 2 = m + 2
      BY <1>1
    <3>4. QED BY <2>4, <2>5, <2>6, <3>1, <3>2, <3>3
  <2>8. After(k + 1) = <<T * P(k + 1) + p * S(k + 1), p * Q(k + 1)>>
    OBVIOUS
  <2> HIDE DEF a, b, c, m, P, Q, S, T, x, k, After
  <2>9. (T * a + p * c) * m + 2 * x * (p * b) = T * (m * a) + p * (m * c + 2 * b * x)
    BY <1>1, <1>2, <2>2, <2>7
  <2>10. (p * b) * (m + 2) = p * ((m + 2) * b)
    BY <1>1, <2>7
  <2>11. A[i + 1] = After(k + 1)
    BY <2>7, <2>8, <2>9, <2>10
  <2>12. QED BY <2>1, <2>11
<1> HIDE DEF D
<1>5. M \in D
  <2> HIDE DEF M
  <2>1. M \in 1 .. M
    BY <1>1
  <2>2. QED BY <1>1, <1>3, <1>4, <2>1, AveragesInduct
<1>6. A[M] = After(N - p)
  <2>1. M - 1 = N - p
    BY <1>1
  <2>2. QED BY <1>5, <2>1 DEF D
<1>7. Weighted(v, p) = After(N - p)
  <2>1. Len(v) = N
    BY DEF Numbers
  <2>2. QED BY <2>1 DEF Weighted, WeightedAfter
<1>8. QED BY <1>6, <1>7

LEMMA ClosesType ==
    ASSUME BarsTypeOK, BarsAssumption
    PROVE  /\ Len(bars) \in Nat /\ Closes(bars) \in Numbers(Len(bars))
           /\ Len(Closes(bars)) = Len(bars)
           /\ \A n \in 1 .. Len(bars) : Closes(bars)[n] = bars[n].close /\ bars[n] \in Bars
<1>1. bars \in Seq(Bars) /\ DOMAIN bars = 1 .. Len(bars) /\ Len(bars) \in Nat
  BY DEF BarsTypeOK
<1>2. \A n \in 1 .. Len(bars) : bars[n] \in Bars /\ bars[n].close \in Int
  BY <1>1 DEF BarsAssumption
<1>3. Closes(bars) = [n \in 1 .. Len(bars) |-> bars[n].close]
  BY <1>1 DEF Closes
<1>4. Closes(bars) \in Numbers(Len(bars))
  BY <1>2, <1>3 DEF Numbers
<1>5. QED BY <1>1, <1>2, <1>3, <1>4

\* calculate_ema is the weighted sum, from the first whole period on.
LEMMA EmaHolds ==
    ASSUME BarsTypeOK, BarsAssumption, PeriodsAssumption
    PROVE  EmaIsWeighted
<1> DEFINE v == Closes(bars)
           N == Len(bars)
           ema == EmaLine(v, EmaPeriod)
<1>1. N \in Nat /\ v \in Numbers(N) /\ EmaPeriod \in Nat \ {0} /\ 2 \in Nat \ {0}
  BY ClosesType DEF PeriodsAssumption
<1> HIDE DEF v, N
<1>2. ema = Averages(v, EmaPeriod, 2)
  BY DEF EmaLine
<1>3. CASE EmaPeriod <= N
  <2>1. EmaPeriod \in 1 .. N
    BY <1>1, <1>3
  <2>2. /\ IsAverages(ema, v, N, EmaPeriod, 2) /\ ema # <<>>
        /\ Last(ema) = ema[N - EmaPeriod + 1]
    BY <1>1, <1>2, <2>1, AveragesRecur
  <2>3. Last(ema) = Weighted(v, EmaPeriod)
    <3> HIDE DEF ema
    <3>1. QED BY <1>1, <2>1, <2>2, AveragesAreWeighted
  <2>4. QED BY <1>1, <1>3, <2>2, <2>3 DEF EmaIsWeighted, v, N
<1>4. CASE EmaPeriod > N
  <2>1. ema = <<>>
    BY <1>1, <1>2, <1>4, NoAverages
  <2>2. QED BY <1>1, <1>4, <2>1 DEF EmaIsWeighted, v, N
<1>5. QED BY <1>1, <1>3, <1>4

-----------------------------------------------------------------------------
(* RSI.                                                                    *)

LEMMA LargerOf ==
    ASSUME NEW x \in Int, NEW y \in Int
    PROVE  Max({x, y}) = IF x > y THEN x ELSE y
<1> DEFINE z == IF x > y THEN x ELSE y
<1>1. z \in {x, y} /\ \A w \in {x, y} : z >= w
  OBVIOUS
<1>2. \A u \in {x, y} : (\A w \in {x, y} : u >= w) => u = z
  OBVIOUS
<1> HIDE DEF z
<1>3. Max({x, y}) = z
  BY <1>1, <1>2 DEF Max
<1>4. QED BY <1>3 DEF z

\* There is no loss exactly if the value does not fall.
LossIsFall(v, d, n) == d[n] = 0 <=> v[n] <= v[n + 1]

LEMMA ChangesType ==
    ASSUME NEW N \in Nat \ {0}, NEW v \in Numbers(N)
    PROVE  /\ Gains(v) \in Numbers(N - 1) /\ Losses(v) \in Numbers(N - 1)
           /\ \A n \in 1 .. N - 1 : Gains(v)[n] >= 0 /\ Losses(v)[n] >= 0
           /\ \A n \in 1 .. N - 1 : LossIsFall(v, Losses(v), n)
<1>1. Len(v) = N
  BY DEF Numbers
<1>2. ASSUME NEW n \in 1 .. N - 1
      PROVE  /\ Max({v[n + 1] - v[n], 0}) \in Nat /\ Max({v[n] - v[n + 1], 0}) \in Nat
             /\ Max({v[n] - v[n + 1], 0}) = 0 <=> v[n] <= v[n + 1]
  <2>1. n \in 1 .. N /\ n + 1 \in 1 .. N
    OBVIOUS
  <2>2. v[n] \in Int /\ v[n + 1] \in Int
    BY <2>1 DEF Numbers
  <2>3. v[n + 1] - v[n] \in Int /\ v[n] - v[n + 1] \in Int /\ 0 \in Int
    BY <2>2
  <2>4. /\ Max({v[n + 1] - v[n], 0}) = IF v[n + 1] - v[n] > 0 THEN v[n + 1] - v[n] ELSE 0
        /\ Max({v[n] - v[n + 1], 0}) = IF v[n] - v[n + 1] > 0 THEN v[n] - v[n + 1] ELSE 0
    BY <2>3, LargerOf
  <2>5. QED BY <2>2, <2>4
<1>3. /\ Gains(v) = [n \in 1 .. N - 1 |-> Max({v[n + 1] - v[n], 0})]
      /\ Losses(v) = [n \in 1 .. N - 1 |-> Max({v[n] - v[n + 1], 0})]
  BY <1>1 DEF Gains, Losses
<1> DEFINE G == Gains(v)
           D == Losses(v)
<1>4. \A n \in 1 .. N - 1 : /\ G[n] = Max({v[n + 1] - v[n], 0})
                           /\ D[n] = Max({v[n] - v[n + 1], 0})
  BY <1>3
<1>5. G = [n \in 1 .. N - 1 |-> G[n]] /\ D = [n \in 1 .. N - 1 |-> D[n]]
  BY <1>3
<1> HIDE DEF G, D
<1>6. \A n \in 1 .. N - 1 : G[n] \in Nat /\ D[n] \in Nat /\ LossIsFall(v, D, n)
  <2>1. TAKE n \in 1 .. N - 1
  <2>2. G[n] \in Nat /\ D[n] \in Nat
    BY <1>2, <1>4
  <2>3. LossIsFall(v, D, n)
    BY <1>2, <1>4 DEF LossIsFall
  <2>4. QED BY <2>2, <2>3
<1>7. \A n \in 1 .. N - 1 : G[n] \in Int /\ D[n] \in Int /\ G[n] >= 0 /\ D[n] >= 0
  BY <1>6
<1>8. G \in Numbers(N - 1) /\ D \in Numbers(N - 1)
  BY <1>5, <1>7 DEF Numbers
<1>9. QED BY <1>6, <1>7, <1>8 DEF G, D

\* calculate_rsi: the average loss is zero exactly if there was no loss.
LEMMA RsiHolds ==
    ASSUME BarsTypeOK, BarsAssumption, PeriodsAssumption
    PROVE  RsiTellsLosses
<1> DEFINE v == Closes(bars)
           N == Len(bars)
           p == RsiPeriod
           rsi == Rsi(v)
           NoLoss == \A i \in 1 .. Len(v) - 1 : v[i] <= v[i + 1]
<1>1. N \in Nat /\ v \in Numbers(N) /\ Len(v) = N /\ p \in Nat \ {0} /\ p > 1 /\ 1 \in Nat \ {0}
  BY ClosesType DEF PeriodsAssumption
<1>2. SUFFICES /\ rsi # <<>> <=> N >= p + 1
               /\ rsi # <<>> =>
                    /\ 0 <= rsi[1] /\ rsi[1] <= 100 * rsi[2]
                    /\ rsi[1] = 100 * rsi[2] <=> NoLoss
  BY DEF RsiTellsLosses
<1> HIDE DEF v, N, p
<1>3. CASE ~(N > p)
  <2>1. rsi = <<>>
    BY <1>1, <1>3 DEF Rsi, p
  <2>2. ~(N >= p + 1)
    BY <1>1, <1>3
  <2>3. QED BY <2>1, <2>2
<1>4. CASE N > p
  <2> DEFINE L == N - 1
             G == Gains(v)
             D == Losses(v)
             M == L - p + 1
             A == Averages(G, p, 1)
             B == Averages(D, p, 1)
             g == A[M][1]
             l == B[M][1]
  <2>1. L \in Nat /\ p \in 1 .. L /\ N \in Nat \ {0} /\ M \in 1 .. M /\ p + M - 1 = L
    BY <1>1, <1>4
  <2>2. /\ G \in Numbers(L) /\ D \in Numbers(L)
        /\ \A n \in 1 .. L : G[n] >= 0 /\ D[n] >= 0
        /\ \A n \in 1 .. L : LossIsFall(v, D, n)
    BY <1>1, <2>1, ChangesType
  <2> HIDE DEF L, G, D, A, B
  <2>3. IsAverages(A, G, L, p, 1) /\ Last(A) = A[M]
    <3>1. L \in Nat /\ G \in Numbers(L) /\ p \in 1 .. L /\ 1 \in Nat \ {0}
      BY <2>1, <2>2
    <3>2. /\ IsAverages(Averages(G, p, 1), G, L, p, 1)
          /\ Last(Averages(G, p, 1)) = Averages(G, p, 1)[L - p + 1]
      BY ONLY <3>1, AveragesRecur
    <3>3. QED BY <3>2 DEF A
  <2>4. IsAverages(B, D, L, p, 1) /\ Last(B) = B[M]
    <3>1. L \in Nat /\ D \in Numbers(L) /\ p \in 1 .. L /\ 1 \in Nat \ {0}
      BY <2>1, <2>2
    <3>2. /\ IsAverages(Averages(D, p, 1), D, L, p, 1)
          /\ Last(Averages(D, p, 1)) = Averages(D, p, 1)[L - p + 1]
      BY ONLY <3>1, AveragesRecur
    <3>3. QED BY <3>2 DEF B
  <2>5. A[M] \in Quotients /\ B[M] \in Quotients
    BY <2>1, <2>3, <2>4 DEF IsAverages
  <2>6. g \in Int /\ l \in Int
    BY <2>5 DEF Quotients
  <2>7. g >= 0 /\ l >= 0
    <3>1. /\ \A n \in 1 .. p + M - 1 : 0 <= G[n]
          /\ \A n \in 1 .. p + M - 1 : 0 <= D[n]
      BY <2>1, <2>2
    <3>2. AtLeast(A[M], 0) /\ AtLeast(B[M], 0)
      BY <1>1, <2>1, <2>2, <2>3, <2>4, <3>1, AveragesAtLeast
    <3>3. 0 * A[M][2] = 0 /\ 0 * B[M][2] = 0
      BY <2>5 DEF Quotients
    <3>4. QED BY <3>2, <3>3 DEF AtLeast
  <2>8. rsi = IF l = 0 THEN <<100, 1>> ELSE <<100 * g, g + l>>
    <3>1. Smoothed(G, p) = A[M] /\ Smoothed(D, p) = B[M]
      BY <2>3, <2>4 DEF Smoothed, A, B
    <3>2. ~(Len(v) <= p)
      BY <1>1, <1>4
    <3>3. Rsi(v) = IF Smoothed(D, p)[1] = 0 THEN <<100, 1>>
                   ELSE <<100 * Smoothed(G, p)[1], Smoothed(G, p)[1] + Smoothed(D, p)[1]>>
      BY <3>2 DEF Rsi, G, D, p
    <3>4. QED BY <3>1, <3>3
  <2>9. NoLoss => l = 0
    <3>1. SUFFICES ASSUME NoLoss PROVE l <= 0
      BY <2>6, <2>7
    <3>2. \A n \in 1 .. L : v[n] <= v[n + 1]
      BY <1>1, <3>1 DEF L
    <3>3. \A n \in 1 .. p + M - 1 : D[n] <= 0
      BY <2>1, <2>2, <3>2 DEF LossIsFall
    <3>4. AtMost(B[M], 0)
      <4>1. L \in Nat /\ D \in Numbers(L) /\ p \in 1 .. L /\ 1 \in Nat \ {0}
        BY <2>1, <2>2
      <4>2. M \in 1 .. L - p + 1 /\ 0 \in Int
        BY <2>1
      <4> HIDE DEF M
      <4>3. QED BY ONLY <2>4, <3>3, <4>1, <4>2, AveragesAtMost
    <3>5. 0 * B[M][2] = 0
      BY <2>5 DEF Quotients
    <3>6. QED BY <3>4, <3>5 DEF AtMost
  <2>10. ~NoLoss => l > 0
    <3>1. SUFFICES ASSUME ~NoLoss PROVE l > 0
      OBVIOUS
    <3>2. PICK j \in 1 .. L : ~(v[j] <= v[j + 1])
      BY <1>1, <3>1 DEF L
    <3>3. D[j] \in Int /\ D[j] >= 0 /\ D[j] # 0
      BY <2>2, <3>2 DEF Numbers, LossIsFall
    <3>4. D[j] > 0
      BY <3>3
    <3>5. QED BY <1>1, <2>1, <2>2, <2>4, <3>4, AveragesPositive
  <2> HIDE DEF g, l, NoLoss, rsi, M
  <2>11. CASE l = 0
    <3>1. rsi = <<100, 1>> /\ NoLoss
      BY <2>8, <2>10, <2>11
    <3>2. rsi # <<>> /\ rsi[1] = 100 /\ rsi[2] = 1
      BY <3>1
    <3>3. QED BY <1>1, <1>4, <3>1, <3>2
  <2>12. CASE l # 0
    <3>1. rsi = <<100 * g, g + l>> /\ ~NoLoss
      BY <2>8, <2>9, <2>12
    <3>2. rsi # <<>> /\ rsi[1] = 100 * g /\ rsi[2] = g + l
      BY <3>1
    <3>3. 0 <= 100 * g /\ 100 * g < 100 * (g + l)
      BY <2>6, <2>7, <2>12
    <3>4. QED BY <1>1, <1>4, <2>6, <3>1, <3>2, <3>3
  <2>13. QED BY <2>11, <2>12
<1>5. QED BY <1>3, <1>4

-----------------------------------------------------------------------------
(* VWAP and ATR.                                                           *)

\* Lowest and highest prices of some of the candles.
LEMMA PriceExtremes ==
    ASSUME BarsTypeOK, BarsAssumption, NEW S \in SUBSET (1 .. Len(bars)), S # {}
    PROVE  /\ LowestOf(S) \in Nat /\ HighestOf(S) \in Nat
           /\ \A i \in S : LowestOf(S) <= bars[i].low /\ bars[i].high <= HighestOf(S)
<1> DEFINE N == Len(bars)
           lows == {bars[i].low : i \in S}
           highs == {bars[i].high : i \in S}
<1>1. N \in Nat /\ \A i \in S : bars[i].low \in Nat /\ bars[i].high \in Nat
  <2>1. N \in Nat /\ \A i \in S : bars[i] \in Bars
    BY DEF BarsTypeOK
  <2>2. ASSUME NEW i \in S PROVE bars[i].low \in Nat /\ bars[i].high \in Nat
    <3> DEFINE b == bars[i]
    <3>1. b \in Bars
      BY <2>1
    <3> HIDE DEF b
    <3>2. {b.open, b.high, b.low, b.close} \subseteq Nat \ {0}
      BY <3>1, Zenon DEF BarsAssumption
    <3>3. QED BY <3>2 DEF b
  <2>3. QED BY <2>1, <2>2
<1>2. lows \in SUBSET Nat /\ lows # {} /\ \A i \in S : bars[i].low \in lows
  BY <1>1
<1>3. Min(lows) \in lows /\ \A y \in lows : Min(lows) <= y
  <2> HIDE DEF lows
  <2>1. QED BY <1>2, LeastOf
<1>4. LowestOf(S) \in Nat /\ \A i \in S : LowestOf(S) <= bars[i].low
  BY <1>2, <1>3 DEF LowestOf
<1> DEFINE f == [i \in 1 .. N |-> IF i \in S THEN bars[i].high ELSE 0]
<1>5. f \in Numbers(N) /\ N \in Nat \ {0}
  <2>1. \A i \in 1 .. N : (IF i \in S THEN bars[i].high ELSE 0) \in Int
    BY <1>1
  <2>2. f \in Numbers(N)
    BY <2>1 DEF Numbers
  <2>3. PICK i \in S : i \in 1 .. N
    OBVIOUS
  <2>4. QED BY <1>1, <2>2, <2>3
<1>6. PICK l, k \in 1 .. N : Spans(f, N, l, k)
  <2> HIDE DEF f
  <2>1. QED BY <1>5, Extremes
<1>7. f[k] \in Nat /\ \A i \in S : f[i] = bars[i].high /\ f[i] <= f[k]
  BY <1>1, <1>6 DEF Spans
<1> HIDE DEF f
<1>8. highs \in SUBSET (0 .. f[k]) /\ highs # {} /\ \A i \in S : bars[i].high \in highs
  <2>1. \A i \in S : bars[i].high \in 0 .. f[k]
    BY <1>1, <1>7
  <2>2. PICK i \in S : TRUE
    OBVIOUS
  <2>3. QED BY <2>1, <2>2
<1>9. Max(highs) \in highs /\ \A y \in highs : y <= Max(highs)
  <2> HIDE DEF highs
  <2>1. QED BY <1>7, <1>8, GreatestOf
<1>10. HighestOf(S) \in Nat /\ \A i \in S : bars[i].high <= HighestOf(S)
  <2>1. Max(highs) \in Nat
    BY <1>7, <1>8, <1>9
  <2>2. HighestOf(S) = Max(highs)
    BY DEF HighestOf
  <2> HIDE DEF highs
  <2>3. QED BY <1>8, <1>9, <2>1, <2>2
<1>11. QED BY <1>4, <1>10

\* calculate_vwap: an average weighted with the volume.
LEMMA VwapHolds ==
    ASSUME BarsTypeOK, BarsAssumption
    PROVE  VwapFitsPrices
<1> DEFINE N == Len(bars)
           S == {i \in DOMAIN bars : bars[i].volume > 0}
           f == [i \in DOMAIN bars |-> (bars[i].high + bars[i].low + bars[i].close) * bars[i].volume]
           w == [i \in DOMAIN bars |-> bars[i].volume]
           lo == LowestOf(S)
           hi == HighestOf(S)
           vwap == Vwap(bars)
<1>1. N \in Nat /\ DOMAIN bars = 1 .. N /\ \A i \in 1 .. N : bars[i] \in Bars
  BY DEF BarsTypeOK
<1>2. \A i \in 1 .. N : /\ bars[i].high \in Nat /\ bars[i].low \in Nat /\ bars[i].close \in Nat
                        /\ bars[i].low <= bars[i].close /\ bars[i].close <= bars[i].high
                        /\ bars[i].volume \in Nat
  BY <1>1 DEF BarsAssumption
<1>3. SUFFICES ASSUME S # {}
               PROVE  vwap[1] >= vwap[2] * lo /\ vwap[1] <= vwap[2] * hi
  BY DEF VwapFitsPrices
<1>4. /\ S \in SUBSET (1 .. N) /\ lo \in Nat /\ hi \in Nat
      /\ \A i \in S : lo <= bars[i].low /\ bars[i].high <= hi
  <2>1. S \in SUBSET (1 .. N)
    BY <1>1
  <2> HIDE DEF S
  <2>2. QED BY <1>3, <2>1, PriceExtremes
<1>5. \A i \in 1 .. N : i \in S <=> w[i] > 0
  BY <1>1
<1>6. w \in Numbers(N) /\ \A i \in 1 .. N : w[i] \in Nat /\ w[i] = bars[i].volume
  BY <1>1, <1>2 DEF Numbers
<1>7. /\ \A i \in 1 .. N : f[i] = (bars[i].high + bars[i].low + bars[i].close) * w[i]
      /\ f = [i \in 1 .. N |-> f[i]] /\ w = [i \in 1 .. N |-> w[i]]
  BY <1>1
<1>8. vwap = IF Total(w) = 0 THEN <<0, 1>> ELSE <<Total(f), 3 * Total(w)>>
  BY DEF Vwap
<1> HIDE DEF S, f, w, lo, hi, vwap, N
<1>9. f \in Numbers(N)
  <2>1. \A i \in 1 .. N : f[i] \in Int
    <3>1. TAKE i \in 1 .. N
    <3> DEFINE x == bars[i].high + bars[i].low + bars[i].close
               y == w[i]
    <3>2. x \in Nat /\ y \in Nat /\ f[i] = x * y
      BY <1>2, <1>6, <1>7
    <3> HIDE DEF x, y
    <3>3. QED BY <3>2
  <2>2. QED BY <1>7, <2>1 DEF Numbers
<1>10. Total(w) > 0 /\ Total(w) \in Int /\ Total(f) \in Int
  <2>1. PICK k \in S : TRUE
    BY <1>3
  <2>2. k \in 1 .. N /\ w[k] > 0
    BY <1>4, <1>5, <2>1
  <2>3. Total(w) > 0
    BY <1>1, <1>6, <2>2, TotalPositive
  <2>4. QED BY <1>1, <1>6, <1>9, <2>3, TotalType
<1>11. vwap[1] = Total(f) /\ vwap[2] = 3 * Total(w)
  BY <1>8, <1>10
<1>12. ASSUME NEW i \in 1 .. N
       PROVE  (3 * lo) * w[i] <= f[i] /\ f[i] <= (3 * hi) * w[i]
  <2> DEFINE x == bars[i].high + bars[i].low + bars[i].close
             y == w[i]
  <2>1. x \in Nat /\ y \in Nat /\ f[i] = x * y /\ 3 * lo \in Int /\ 3 * hi \in Int
    <3>1. x \in Nat /\ y \in Nat
      BY <1>2, <1>6
    <3>2. f[i] = x * y
      BY <1>7
    <3>3. 3 * lo \in Int /\ 3 * hi \in Int
      BY <1>4
    <3>4. QED BY <3>1, <3>2, <3>3
  <2>2. CASE y > 0
    <3>1. 3 * lo <= x /\ x <= 3 * hi
      <4>1. i \in S
        BY <1>5, <2>2
      <4>2. lo <= bars[i].low /\ bars[i].high <= hi
        BY <1>4, <4>1
      <4>3. QED BY <1>2, <1>4, <4>2
    <3> HIDE DEF x, y
    <3>2. (3 * lo) * y <= x * y /\ x * y <= (3 * hi) * y
      BY <2>1, <3>1, TimesMonotone
    <3>3. QED BY <2>1, <3>2 DEF y
  <2>3. CASE ~(y > 0)
    <3>1. y = 0
      BY <2>1, <2>3
    <3> HIDE DEF x, y
    <3>2. x * y = 0 /\ (3 * lo) * y = 0 /\ (3 * hi) * y = 0
      BY <2>1, <3>1
    <3>3. QED BY <2>1, <3>2 DEF y
  <2>4. QED BY <2>2, <2>3
<1>13. ASSUME NEW c \in Nat
       PROVE  \E g \in Numbers(N) : /\ \A i \in 1 .. N : g[i] = (3 * c) * w[i]
                                    /\ Total(g) = (3 * c) * Total(w)
  <2> DEFINE g == [i \in 1 .. N |-> (3 * c) * w[i]]
  <2>1. \A i \in 1 .. N : (3 * c) * w[i] \in Int
    <3>1. TAKE i \in 1 .. N
    <3>2. w[i] \in Int /\ 3 * c \in Int
      BY <1>6
    <3>3. QED BY <3>2
  <2>2. g \in Numbers(N) /\ \A i \in 1 .. N : g[i] = (3 * c) * w[i]
    BY <2>1 DEF Numbers
  <2> HIDE DEF g
  <2>3. 3 * c \in Int
    OBVIOUS
  <2>4. Total(g) = (3 * c) * Total(w)
    BY <1>1, <1>6, <2>2, <2>3, TotalTimes
  <2>5. QED BY <2>2, <2>4
<1>14. (3 * lo) * Total(w) <= Total(f)
  <2>1. PICK g \in Numbers(N) : /\ \A i \in 1 .. N : g[i] = (3 * lo) * w[i]
                                /\ Total(g) = (3 * lo) * Total(w)
    BY <1>4, <1>13
  <2>2. \A i \in 1 .. N : g[i] <= f[i]
    BY <1>12, <2>1
  <2>3. Total(g) <= Total(f)
    BY <1>1, <1>9, <2>2, TotalAtMost
  <2>4. QED BY <2>1, <2>3
<1>15. Total(f) <= (3 * hi) * Total(w)
  <2>1. PICK g \in Numbers(N) : /\ \A i \in 1 .. N : g[i] = (3 * hi) * w[i]
                                /\ Total(g) = (3 * hi) * Total(w)
    BY <1>4, <1>13
  <2>2. \A i \in 1 .. N : f[i] <= g[i]
    BY <1>12, <2>1
  <2>3. Total(f) <= Total(g)
    BY <1>1, <1>9, <2>2, TotalAtMost
  <2>4. QED BY <2>1, <2>3
<1> DEFINE t == Total(w)
           u == Total(f)
<1>16. t \in Int /\ u \in Int /\ (3 * lo) * t <= u /\ u <= (3 * hi) * t
  BY <1>10, <1>14, <1>15
<1> HIDE DEF t, u
<1>17. (3 * t) * lo = (3 * lo) * t /\ (3 * t) * hi = (3 * hi) * t
  BY <1>4, <1>16
<1>18. QED BY <1>11, <1>16, <1>17 DEF t, u

LEMMA LargestOfThree ==
    ASSUME NEW x \in Int, NEW y \in Int, NEW z \in Int
    PROVE  /\ Max({x, y, z}) \in {x, y, z}
           /\ x <= Max({x, y, z}) /\ y <= Max({x, y, z}) /\ z <= Max({x, y, z})
<1> DEFINE S == {x, y, z}
           g == IF x >= y /\ x >= z THEN x ELSE IF y >= z THEN y ELSE z
<1>1. g \in S /\ \A w \in S : g >= w
  OBVIOUS
<1>2. \E u \in S : \A w \in S : u >= w
  BY <1>1
<1> HIDE DEF g
<1>3. Max(S) \in S /\ \A w \in S : Max(S) >= w
  BY <1>2 DEF Max
<1>4. QED BY <1>3

\* A range is at least that of its candle, and spans no more than all prices.
LEMMA RangeFits ==
    ASSUME BarsTypeOK, BarsAssumption, NEW i \in 1 .. Len(bars),
           NEW lo \in Nat, NEW hi \in Nat,
           \A n \in 1 .. Len(bars) : lo <= bars[n].low /\ bars[n].high <= hi
    PROVE  /\ TrueRange(bars, i) \in Int
           /\ bars[i].high - bars[i].low <= TrueRange(bars, i)
           /\ TrueRange(bars, i) <= hi - lo
<1>1. \A n \in 1 .. Len(bars) :
        /\ bars[n].high \in Nat /\ bars[n].low \in Nat /\ bars[n].close \in Nat
        /\ bars[n].low <= bars[n].close /\ bars[n].close <= bars[n].high
        /\ lo <= bars[n].low /\ bars[n].high <= hi
  BY DEF BarsTypeOK, BarsAssumption
<1>2. CASE i = 1
  BY <1>1, <1>2 DEF TrueRange
<1>3. CASE i # 1
  <2> DEFINE h == bars[i].high
             l == bars[i].low
             c == bars[i - 1].close
             Abs(x) == IF x < 0 THEN -x ELSE x
  <2>1. i - 1 \in 1 .. Len(bars)
    BY <1>3 DEF BarsTypeOK
  <2>2. /\ h \in Nat /\ l \in Nat /\ c \in Nat
        /\ lo <= l /\ l <= h /\ h <= hi /\ lo <= c /\ c <= hi
    <3>1. lo <= bars[i - 1].low /\ bars[i - 1].low <= c /\ c <= bars[i - 1].high /\ bars[i - 1].high <= hi
      BY <1>1, <2>1
    <3>2. bars[i - 1].low \in Nat /\ bars[i - 1].high \in Nat
      BY <1>1, <2>1
    <3>3. h \in Nat /\ l \in Nat /\ c \in Nat
      BY <1>1, <2>1
    <3>4. lo <= l /\ l <= h /\ h <= hi
      <4>1. bars[i].low <= bars[i].close /\ bars[i].close <= bars[i].high /\ bars[i].close \in Nat
        BY <1>1
      <4>2. QED BY <1>1, <4>1
    <3>5. QED BY <3>1, <3>2, <3>3, <3>4
  <2>3. TrueRange(bars, i) = Max({h - l, Abs(h - c), Abs(l - c)})
    BY <1>3 DEF TrueRange
  <2> DEFINE x == h - l
             y == Abs(h - c)
             z == Abs(l - c)
  <2>4. /\ x \in Int /\ y \in Int /\ z \in Int
        /\ x <= hi - lo /\ y <= hi - lo /\ z <= hi - lo
    <3> HIDE DEF h, l, c
    <3>1. x \in Int /\ x <= hi - lo
      BY <2>2
    <3>2. y \in Int /\ y <= hi - lo
      BY <2>2
    <3>3. z \in Int /\ z <= hi - lo
      BY <2>2
    <3>4. QED BY <3>1, <3>2, <3>3
  <2>5. TrueRange(bars, i) = Max({x, y, z})
    BY <2>3
  <2>6. h - l = x
    OBVIOUS
  <2> HIDE DEF x, y, z
  <2>7. Max({x, y, z}) \in {x, y, z} /\ x <= Max({x, y, z})
    BY <2>4, LargestOfThree
  <2>8. QED BY <2>4, <2>5, <2>6, <2>7
<1>4. QED BY <1>2, <1>3

\* calculate_atr: an average of ranges, each within that of all candles.
LEMMA AtrHolds ==
    ASSUME BarsTypeOK, BarsAssumption, PeriodsAssumption
    PROVE  AtrFitsRanges
<1> DEFINE N == Len(bars)
           p == AtrPeriod
           t == [i \in DOMAIN bars |-> TrueRange(bars, i)]
           atr == AtrLine(bars)
           a == Last(atr)
           ranges == {bars[i].high - bars[i].low : i \in DOMAIN bars}
           lo == LowestOf(DOMAIN bars)
           hi == HighestOf(DOMAIN bars)
<1>1. /\ N \in Nat /\ DOMAIN bars = 1 .. N /\ p \in Nat \ {0} /\ 2 \in Nat \ {0}
      /\ \A i \in 1 .. N : bars[i] \in Bars
  BY DEF BarsTypeOK, PeriodsAssumption
<1>2. Max({2, p}) = IF 2 > p THEN 2 ELSE p
  <2>1. 2 \in Int /\ p \in Int
    BY <1>1
  <2> HIDE DEF p
  <2>2. QED BY <2>1, LargerOf
<1>3. SUFFICES /\ atr # <<>> <=> (N >= 2 /\ N >= p)
               /\ atr # <<>> => a[1] >= a[2] * Min(ranges) /\ a[1] <= a[2] * (hi - lo)
  BY <1>1, <1>2 DEF AtrFitsRanges
<1>4. CASE N < 2
  BY <1>1, <1>4 DEF AtrLine
<1>5. CASE N >= 2
  <2>1. /\ lo \in Nat /\ hi \in Nat
        /\ \A i \in 1 .. N : lo <= bars[i].low /\ bars[i].high <= hi
    <3>1. (1 .. N) \in SUBSET (1 .. N) /\ (1 .. N) # {}
      BY <1>1, <1>5
    <3>2. QED BY <1>1, <3>1, PriceExtremes
  <2>2. \A i \in 1 .. N : /\ TrueRange(bars, i) \in Int
                          /\ bars[i].high - bars[i].low <= TrueRange(bars, i)
                          /\ TrueRange(bars, i) <= hi - lo
    <3> HIDE DEF lo, hi
    <3>1. QED BY <2>1, RangeFits
  <2>3. ranges \in SUBSET Nat /\ ranges # {} /\ \A i \in 1 .. N : bars[i].high - bars[i].low \in ranges
    <3>1. \A i \in 1 .. N : bars[i].high - bars[i].low \in Nat
      <4>1. TAKE i \in 1 .. N
      <4>2. /\ bars[i].low <= bars[i].close /\ bars[i].close <= bars[i].high
            /\ bars[i].low \in Nat /\ bars[i].close \in Nat /\ bars[i].high \in Nat
        BY <1>1 DEF BarsAssumption
      <4>3. QED BY <4>2
    <3>2. 1 \in 1 .. N
      BY <1>1, <1>5
    <3>3. QED BY <1>1, <3>1, <3>2
  <2>4. Min(ranges) \in Nat /\ \A y \in ranges : Min(ranges) <= y
    <3> HIDE DEF ranges
    <3>1. QED BY <2>3, LeastOf
  <2> DEFINE r == Min(ranges)
             d == hi - lo
  <2>5. t = [i \in 1 .. N |-> TrueRange(bars, i)]
    BY <1>1
  <2>6. t \in Numbers(N)
    BY <2>2, <2>5 DEF Numbers
  <2>7. r \in Int /\ d \in Int /\ \A i \in 1 .. N : r <= t[i] /\ t[i] <= d
    <3>1. r \in Int /\ d \in Int
      BY <2>1, <2>4
    <3>2. ASSUME NEW i \in 1 .. N PROVE r <= t[i] /\ t[i] <= d
      <4> DEFINE x == bars[i].high - bars[i].low
      <4>1. r <= x /\ x \in Nat /\ t[i] = TrueRange(bars, i) /\ x <= t[i] /\ t[i] \in Int
        BY <2>2, <2>3, <2>4, <2>5
      <4>2. t[i] <= d
        BY <2>2, <2>5
      <4> HIDE DEF x, r, d, t
      <4>3. QED BY <3>1, <4>1, <4>2
    <3>3. QED BY <3>1, <3>2
  <2>8. atr = Averages(t, p, 2)
    BY <1>1, <1>5 DEF AtrLine, EmaLine
  <2> HIDE DEF t, r, d, atr, N, p
  <2>9. CASE p <= N
    <3>1. p \in 1 .. N
      BY <1>1, <2>9
    <3> DEFINE M == N - p + 1
    <3>2. /\ IsAverages(atr, t, N, p, 2) /\ atr # <<>> /\ a = atr[M] /\ M \in Nat \ {0}
      <4>1. /\ IsAverages(Averages(t, p, 2), t, N, p, 2) /\ N - p + 1 \in Nat \ {0}
            /\ Averages(t, p, 2) # <<>>
            /\ Last(Averages(t, p, 2)) = Averages(t, p, 2)[N - p + 1]
        <5>1. N \in Nat /\ 2 \in Nat \ {0}
          BY <1>1
        <5>2. QED BY ONLY <2>6, <3>1, <5>1, AveragesRecur
      <4>2. QED BY <2>8, <4>1
    <3>3. M \in 1 .. N - p + 1 /\ p + M - 1 = N
      BY <1>1, <3>2
    <3>4. atr[M] \in Quotients
      BY <3>2, <3>3 DEF IsAverages
    <3> HIDE DEF M
    <3>5. AtLeast(atr[M], r)
      <4>1. \A n \in 1 .. p + M - 1 : r <= t[n]
        BY <2>7, <3>3
      <4>2. /\ N \in Nat /\ 2 \in Nat \ {0} /\ r \in Int /\ d \in Int
            /\ IsAverages(atr, t, N, p, 2) /\ M \in 1 .. N - p + 1
        BY <1>1, <2>7, <3>2, <3>3
      <4>3. QED BY ONLY <2>6, <3>1, <4>1, <4>2, AveragesAtLeast
    <3>6. AtMost(atr[M], d)
      <4>1. \A n \in 1 .. p + M - 1 : t[n] <= d
        BY <2>7, <3>3
      <4>2. /\ N \in Nat /\ 2 \in Nat \ {0} /\ r \in Int /\ d \in Int
            /\ IsAverages(atr, t, N, p, 2) /\ M \in 1 .. N - p + 1
        BY <1>1, <2>7, <3>2, <3>3
      <4>3. QED BY ONLY <2>6, <3>1, <4>1, <4>2, AveragesAtMost
    <3>7. a[1] \in Int /\ a[2] \in Int /\ r * a[2] <= a[1] /\ a[1] <= d * a[2]
      BY <3>2, <3>4, <3>5, <3>6 DEF AtLeast, AtMost, Quotients
    <3> HIDE DEF a
    <3>8. r * a[2] = a[2] * r /\ d * a[2] = a[2] * d
      BY <2>7, <3>7
    <3>9. a[2] * r <= a[1] /\ a[1] <= a[2] * d
      BY <3>7, <3>8
    <3>10. a[2] * r \in Int
      BY <2>7, <3>7
    <3>11. a[1] >= a[2] * r
      BY <3>7, <3>9, <3>10
    <3>12. QED BY <1>5, <2>9, <3>2, <3>9, <3>11 DEF r, d
  <2>10. CASE p > N
    <3>1. atr = <<>>
      BY <1>1, <2>6, <2>8, <2>10, NoAverages
    <3>2. QED BY <1>1, <2>10, <3>1
  <2>11. QED BY <1>1, <2>9, <2>10
<1>6. QED BY <1>1, <1>4, <1>5

-----------------------------------------------------------------------------
(* MACD: in a fall, the slow average stays behind the fast one.            *)

Below(q, r)    == q[1] * r[2] < r[1] * q[2]
NotAbove(q, r) == q[1] * r[2] <= r[1] * q[2]

\* Two averages, one not above the other, move towards a value below them: the
\* one that gives the new value the larger share comes out lower.
LEMMA Slower ==
    ASSUME NEW q \in Quotients, NEW r \in Quotients, NotAbove(q, r), NEW x \in Int,
           x * r[2] < r[1], NEW f \in Nat \ {0}, NEW m \in Nat, NEW k \in Nat \ {0},
           k * (f + 1) < 2 * (m + k)
    PROVE  Below(Nearer(q, x, f, 2), Nearer(r, x, m + 1, k))
<1> DEFINE a == q[1]
           b == q[2]
           c == r[1]
           d == r[2]
           u == c * b - a * d
           w == c - x * d
           g == f - 1
           M == m + k
           e == 2 * m + k - k * f
           left == (a * g + 2 * x * b) * (d * M)
           right == (c * m + k * x * d) * (b * (g + 2))
<1>1. a \in Int /\ c \in Int /\ b \in Nat \ {0} /\ d \in Nat \ {0}
  BY DEF Quotients
<1>2. /\ Nearer(q, x, f, 2) = <<a * g + 2 * x * b, b * (g + 2)>>
      /\ Nearer(r, x, m + 1, k) = <<c * m + k * x * d, d * M>>
  <2>1. (m + 1) - 1 = m /\ g + 2 = f - 1 + 2
    OBVIOUS
  <2>2. QED BY <2>1 DEF Nearer
<1>3. SUFFICES left < right
  BY <1>2 DEF Below
<1>4. a * d <= c * b /\ x * d < c
  BY DEF NotAbove
<1> HIDE DEF a, b, c, d
<1>5. u \in Nat /\ w \in Nat \ {0} /\ g \in Nat /\ M \in Nat \ {0}
  BY <1>1, <1>4
<1>6. e \in Nat \ {0}
  <2>1. k * (f + 1) = k * f + k /\ k * f \in Int
    OBVIOUS
  <2>2. QED BY <2>1
<1>7. right - left = M * g * u + b * w * e
  <2>1. f = g + 1
    OBVIOUS
  <2>2. g \in Int
    BY <1>5
  <2> HIDE DEF g
  <2>3. e = 2 * m - k * g
    BY <2>1, <2>2
  <2>4. QED BY <1>1, <2>2, <2>3
<1>8. M * g * u \in Nat /\ b * w * e \in Nat \ {0}
  <2> HIDE DEF u, w, g, M, e
  <2>1. M * g \in Nat
    BY <1>5
  <2>2. M * g * u \in Nat
    BY <1>5, <2>1
  <2>3. b * w \in Nat \ {0}
    BY <1>1, <1>5, ProductPositive
  <2>4. b * w * e \in Nat \ {0}
    BY <1>6, <2>3, ProductPositive
  <2>5. QED BY <2>2, <2>4
<1>9. left \in Int /\ right \in Int
  BY <1>1, <1>5
<1> HIDE DEF left, right
<1> DEFINE y == M * g * u
           z == b * w * e
<1>10. y \in Nat /\ z \in Nat \ {0} /\ right - left = y + z
  BY <1>7, <1>8
<1> HIDE DEF y, z
<1>11. QED BY <1>9, <1>10

\* Closes that only fall.
OnlyFalls(v, N) == \A i \in 1 .. N - 1 : v[i + 1] < v[i]

\* Each close is below all closes before it.
LEMMA FallsBelowAll ==
    ASSUME NEW N \in Nat \ {0}, NEW v \in Numbers(N), OnlyFalls(v, N)
    PROVE  \A i \in 1 .. N : \A j \in 1 .. i - 1 : v[i] < v[j]
<1> DEFINE D == {i \in 1 .. N : \A j \in 1 .. i - 1 : v[i] < v[j]}
<1>1. \A i \in 1 .. N : v[i] \in Int
  BY DEF Numbers
<1>2. 1 \in D
  OBVIOUS
<1>3. ASSUME NEW i \in 1 .. N - 1, i \in D PROVE i + 1 \in D
  <2>1. i \in 1 .. N /\ i + 1 \in 1 .. N /\ v[i + 1] < v[i]
    BY DEF OnlyFalls
  <2>2. ASSUME NEW j \in 1 .. (i + 1) - 1 PROVE v[i + 1] < v[j]
    <3>1. j \in 1 .. N /\ (j = i \/ j \in 1 .. i - 1)
      OBVIOUS
    <3>2. CASE j = i
      BY <2>1, <3>2
    <3>3. CASE j \in 1 .. i - 1
      <4>1. v[i] < v[j] /\ v[i] \in Int /\ v[j] \in Int /\ v[i + 1] \in Int
        BY <1>1, <1>3, <2>1, <3>1, <3>3
      <4>2. QED BY <2>1, <4>1
    <3>4. QED BY <3>1, <3>2, <3>3
  <2>3. QED BY <2>1, <2>2
<1> HIDE DEF D
<1>4. \A i \in 1 .. N : i \in D
  BY <1>2, <1>3, AveragesInduct
<1>5. QED BY <1>4 DEF D

\* The mean of the first t values.
Mean(v, t) == <<Total(SubSeq(v, 1, t)), t>>

\* The mean of the closes so far is above the next one.
LEMMA MeanAboveNext ==
    ASSUME NEW N \in Nat \ {0}, NEW v \in Numbers(N), OnlyFalls(v, N), NEW t \in 1 .. N - 1
    PROVE  /\ Mean(v, t) \in Quotients /\ Mean(v, t + 1) \in Quotients
           /\ v[t + 1] * Mean(v, t)[2] < Mean(v, t)[1]
           /\ Mean(v, t + 1)[1] = Mean(v, t)[1] + v[t + 1]
<1> DEFINE f == SubSeq(v, 1, t)
           g == SubSeq(v, 1, t + 1)
           x == v[t + 1]
           c == x + 1
<1>1. /\ t \in Nat \ {0} /\ t \in 0 .. N /\ t + 1 \in 0 .. N /\ t + 1 \in 1 .. N
      /\ t + 1 \in Nat \ {0} /\ (t + 1) - 1 = t
  OBVIOUS
<1>2. /\ f \in Numbers(t) /\ Total(f) = Sums(v)[t]
      /\ g \in Numbers(t + 1) /\ Total(g) = Sums(v)[t + 1]
  BY <1>1, PartOfSequence
<1>3. /\ Sums(v)[t] \in Int /\ Sums(v)[t + 1] \in Int
      /\ Sums(v)[t + 1] = Sums(v)[t] + x
  <2>1. /\ Sums(v) \in [0 .. N -> Int]
        /\ \A n \in 1 .. N : Sums(v)[n] = Sums(v)[n - 1] + v[n]
    BY SumsRecur
  <2>2. QED BY <1>1, <2>1
<1>4. x \in Int /\ c \in Int /\ \A n \in 1 .. t : c <= f[n]
  <2>1. x \in Int /\ \A n \in 1 .. N : v[n] \in Int
    BY <1>1 DEF Numbers
  <2>2. ASSUME NEW n \in 1 .. t PROVE c <= f[n]
    <3>1. n \in 1 .. N /\ n \in 1 .. (t + 1) - 1
      BY <1>1
    <3>2. x < v[n] /\ v[n] \in Int
      BY <1>1, <2>1, <3>1, FallsBelowAll
    <3>3. f[n] = v[n]
      <4>1. v \in Seq(Int) /\ Len(v) = N
        BY DEF Numbers
      <4>2. QED BY <1>1, <4>1
    <3> HIDE DEF x, f
    <3>4. QED BY <2>1, <3>2, <3>3
  <2>3. QED BY <2>1, <2>2
<1> HIDE DEF f, g, x
<1>5. c * t <= Total(f) /\ Total(f) \in Int
  <2>1. t \in Nat
    BY <1>1
  <2> HIDE DEF c
  <2>2. c * t <= Total(f)
    BY <1>2, <1>4, <2>1, TotalBounds
  <2>3. QED BY <1>2, <1>3, <2>2
<1>6. x * t < Total(f)
  <2>1. c * t = x * t + t /\ x * t \in Int
    BY <1>1, <1>4
  <2>2. QED BY <1>1, <1>5, <2>1
<1>7. Mean(v, t) = <<Total(f), t>> /\ Mean(v, t + 1) = <<Total(g), t + 1>>
  BY DEF Mean, f, g
<1>8. QED BY <1>1, <1>2, <1>3, <1>5, <1>6, <1>7 DEF Quotients, x


\* While all values fall, the average with the larger share is below the mean
\* of all values so far.
LEMMA BelowMean ==
    ASSUME NEW N \in Nat \ {0}, NEW v \in Numbers(N), OnlyFalls(v, N), NEW f \in 1 .. N,
           NEW A, IsAverages(A, v, N, f, 2), NEW i \in 1 .. N - f + 1
    PROVE  NotAbove(A[i], Mean(v, f + i - 1)) /\ (i # 1 => Below(A[i], Mean(v, f + i - 1)))
<1> DEFINE M == N - f + 1
           D == {n \in 1 .. M : /\ NotAbove(A[n], Mean(v, f + n - 1))
                                /\ n # 1 => Below(A[n], Mean(v, f + n - 1))}
<1>1. f \in Nat \ {0} /\ M \in Nat \ {0} /\ f + 1 - 1 = f /\ 1 \in 1 .. M
  OBVIOUS
<1>2. 1 \in D
  <2>1. A[1] = Mean(v, f) /\ A[1] \in Quotients
    BY <1>1 DEF IsAverages, Mean
  <2>2. NotAbove(A[1], A[1])
    BY <2>1 DEF NotAbove, Quotients
  <2>3. QED BY <1>1, <2>1, <2>2
<1>3. ASSUME NEW n \in 1 .. M - 1, n \in D PROVE n + 1 \in D
  <2> DEFINE t == f + n - 1
             x == v[t + 1]
             q == A[n]
             r == Mean(v, t)
             T == r[1]
             new == A[n + 1]
  <2>1. /\ n \in 1 .. M /\ n + 1 \in 1 .. M /\ n \in 1 .. N - f /\ n + 1 # 1
        /\ t \in 1 .. N - 1 /\ t \in Nat \ {0} /\ t + 1 = f + n /\ f + (n + 1) - 1 = t + 1
        /\ t + 1 \in 1 .. N /\ f <= t
    BY <1>1
  <2>2. /\ q \in Quotients /\ new \in Quotients /\ new = Nearer(q, x, f, 2)
        /\ NotAbove(q, r)
    BY <1>3, <2>1 DEF IsAverages
  <2>3. x \in Int
    BY <2>1 DEF Numbers
  <2>4. /\ r \in Quotients /\ Mean(v, t + 1) \in Quotients /\ r[2] = t
        /\ x * r[2] < r[1] /\ Mean(v, t + 1) = <<T + x, t + 1>>
    <3> HIDE DEF t
    <3>1. /\ r \in Quotients /\ Mean(v, t + 1) \in Quotients
          /\ x * r[2] < r[1] /\ Mean(v, t + 1)[1] = T + x
      BY <2>1, MeanAboveNext
    <3>2. QED BY <3>1 DEF Mean
  <2> HIDE DEF q, r, t, x, new
  <2>5. Below(Nearer(q, x, f, 2), Nearer(r, x, t + 1, 1))
    <3>1. t \in Nat /\ 1 \in Nat \ {0} /\ 1 * (f + 1) < 2 * (t + 1)
      BY <1>1, <2>1
    <3>2. QED BY ONLY <1>1, <2>2, <2>3, <2>4, <3>1, Slower
  <2>6. Below(new, <<T + x, t + 1>>)
    <3> DEFINE a == new[1]
               b == new[2]
    <3>1. a \in Int /\ b \in Int /\ T \in Int /\ t \in Int /\ t > 0
      BY <2>1, <2>2, <2>4 DEF Quotients
    <3>2. Nearer(r, x, t + 1, 1) = <<T * t + x * t, t * (t + 1)>>
      <4>1. (t + 1) - 1 = t /\ 1 * x = x
        BY <2>1, <2>3
      <4>2. QED BY <2>4, <4>1 DEF Nearer
    <3>3. a * (t * (t + 1)) < (T * t + x * t) * b
      BY <2>2, <2>5, <3>2 DEF Below
    <3> HIDE DEF a, b, T
    <3> DEFINE left == a * (t + 1)
               right == (T + x) * b
    <3>4. left \in Int /\ right \in Int
      BY <2>3, <3>1
    <3>5. a * (t * (t + 1)) = t * left /\ (T * t + x * t) * b = t * right
      BY <2>3, <3>1
    <3> HIDE DEF left, right
    <3>6. t * left < t * right
      BY <3>3, <3>5
    <3>7. left < right
      BY <3>1, <3>4, <3>6
    <3>8. QED BY <3>7 DEF Below, a, b, left, right
  <2>7. NotAbove(new, <<T + x, t + 1>>)
    <3>1. T \in Int /\ t \in Int /\ new[1] \in Int /\ new[2] \in Int
      BY <2>1, <2>2, <2>4 DEF Quotients
    <3> HIDE DEF T
    <3>2. QED BY <2>3, <2>6, <3>1 DEF Below, NotAbove
  <2>8. QED BY <2>1, <2>4, <2>6, <2>7 DEF new
<1> HIDE DEF D, M
<1>4. \A n \in 1 .. M : n \in D
  BY <1>1, <1>2, <1>3, AveragesInduct
<1>5. QED BY <1>4 DEF D, M

\* The slow average stays above the fast one of the same candle.
LEMMA FastBelowSlow ==
    ASSUME NEW N \in Nat \ {0}, NEW v \in Numbers(N), OnlyFalls(v, N),
           NEW f \in 1 .. N, NEW s \in 1 .. N, f < s,
           NEW A, IsAverages(A, v, N, f, 2), NEW B, IsAverages(B, v, N, s, 2),
           NEW i \in 1 .. N - s + 1
    PROVE  Below(A[i + s - f], B[i])
<1> DEFINE M == N - s + 1
           D == {n \in 1 .. M : Below(A[n + s - f], B[n])}
<1>1. f \in Nat \ {0} /\ s \in Nat \ {0} /\ M \in Nat \ {0} /\ 1 \in 1 .. M
  OBVIOUS
<1>2. 1 \in D
  <2> DEFINE j == 1 + s - f
  <2>1. j \in 1 .. N - f + 1 /\ j # 1 /\ f + j - 1 = s
    BY <1>1
  <2> HIDE DEF j
  <2>2. Below(A[j], Mean(v, s))
    BY <2>1, BelowMean
  <2>3. B[1] = Mean(v, s)
    BY DEF IsAverages, Mean
  <2>4. QED BY <1>1, <2>2, <2>3 DEF j
<1>3. ASSUME NEW n \in 1 .. M - 1, n \in D PROVE n + 1 \in D
  <2> DEFINE j == n + s - f
             x == v[s + n]
             q == A[j]
             r == B[n]
  <2>1. /\ n \in 1 .. M /\ n + 1 \in 1 .. M /\ n \in 1 .. N - s
        /\ j \in 1 .. N - f /\ j \in 1 .. N - f + 1 /\ f + j = s + n
        /\ (n + 1) + s - f = j + 1 /\ s + n \in 1 .. N
    BY <1>1
  <2>2. /\ q \in Quotients /\ A[j + 1] = Nearer(q, v[f + j], f, 2)
        /\ r \in Quotients /\ B[n + 1] = Nearer(r, x, s, 2)
    BY <2>1 DEF IsAverages
  <2>3. x \in Int /\ x + 1 \in Int
    BY <2>1 DEF Numbers
  <2>4. AtLeast(r, x + 1)
    <3>1. ASSUME NEW k \in 1 .. s + n - 1 PROVE x + 1 <= v[k]
      <4>1. k \in 1 .. N /\ k \in 1 .. (s + n) - 1
        BY <2>1
      <4>2. v[k] \in Int /\ x < v[k]
        BY <2>1, <4>1, FallsBelowAll DEF Numbers
      <4> HIDE DEF x
      <4>3. QED BY <2>3, <4>2
    <3>2. N \in Nat /\ 2 \in Nat \ {0} /\ n \in 1 .. N - s + 1
      BY <2>1
    <3> HIDE DEF x
    <3>3. QED BY ONLY <2>3, <3>1, <3>2, AveragesAtLeast, IsAverages(B, v, N, s, 2),
                 v \in Numbers(N), s \in 1 .. N DEF r
  <2>5. NotAbove(q, r)
    <3>1. Below(q, r)
      BY <1>3
    <3> HIDE DEF q, r
    <3>2. QED BY <2>2, <3>1 DEF Below, NotAbove, Quotients
  <2> HIDE DEF q, r, x
  <2>6. x * r[2] < r[1]
    <3>1. r[2] \in Nat \ {0} /\ r[1] \in Int /\ (x + 1) * r[2] <= r[1]
      BY <2>2, <2>4 DEF AtLeast, Quotients
    <3> DEFINE d == r[2]
    <3>2. d \in Int /\ x \in Int
      BY <2>3, <3>1
    <3> HIDE DEF d
    <3>3. (x + 1) * d = x * d + d /\ x * d \in Int
      BY <3>2
    <3>4. QED BY <3>1, <3>3 DEF d
  <2>7. Below(Nearer(q, x, f, 2), Nearer(r, x, (s - 1) + 1, 2))
    <3>1. s - 1 \in Nat /\ 2 \in Nat \ {0} /\ 2 * (f + 1) < 2 * ((s - 1) + 2)
      BY <1>1
    <3>2. QED BY ONLY <1>1, <2>2, <2>3, <2>5, <2>6, <3>1, Slower
  <2>8. (s - 1) + 1 = s
    BY <1>1
  <2>9. QED BY <2>1, <2>2, <2>7, <2>8 DEF x
<1> HIDE DEF D, M
<1>4. \A n \in 1 .. M : n \in D
  BY <1>1, <1>2, <1>3, AveragesInduct
<1>5. QED BY <1>4 DEF D, M


LEMMA ProductsGrow ==
    ASSUME NEW a \in Nat \ {0}, NEW b \in Nat \ {0}, NEW c \in Nat, NEW d \in Nat,
           a <= c, b <= d
    PROVE  a * b <= c * d
<1> DEFINE x == c - a
           y == d - b
<1>1. x \in Nat /\ y \in Nat /\ c = a + x /\ d = b + y
  OBVIOUS
<1> HIDE DEF x, y
<1>2. c * d = a * b + a * y + x * b + x * y
  BY <1>1
<1>3. a * b \in Nat /\ a * y \in Nat /\ x * b \in Nat /\ x * y \in Nat
  BY <1>1
<1>4. QED BY <1>2, <1>3

\* The last denominator is the largest, so that each of the others is in it.
LEMMA DenominatorsGrow ==
    ASSUME NEW N \in Nat, NEW v \in Numbers(N), NEW p \in 1 .. N, NEW s \in Nat \ {0},
           NEW A, IsAverages(A, v, N, p, s), NEW j \in 1 .. N - p + 1, NEW i \in 1 .. j
    PROVE  A[i][2] <= A[j][2]
<1> DEFINE M == N - p + 1
           D == {k \in 1 .. M : \A n \in 1 .. k : A[n][2] <= A[k][2]}
<1>1. p \in Nat \ {0} /\ M \in Nat \ {0} /\ 1 \in 1 .. M
  OBVIOUS
<1>2. \A n \in 1 .. M : A[n][2] \in Nat \ {0}
  BY DEF IsAverages, Quotients
<1>3. 1 \in D
  BY <1>1, <1>2
<1>4. ASSUME NEW k \in 1 .. M - 1, k \in D PROVE k + 1 \in D
  <2> DEFINE d == A[k][2]
             e == A[k + 1][2]
  <2>1. k \in 1 .. M /\ k + 1 \in 1 .. M /\ k \in 1 .. N - p
    BY <1>1
  <2>2. d \in Nat \ {0} /\ e \in Nat \ {0} /\ e = d * (p - 1 + s)
    BY <1>2, <2>1 DEF IsAverages, Nearer
  <2> HIDE DEF d, e
  <2>3. d <= e
    <3> DEFINE g == p - 2 + s
    <3>1. g \in Nat /\ p - 1 + s = g + 1
      BY <1>1
    <3> HIDE DEF g
    <3>2. e = d * g + d /\ d * g \in Nat
      BY <2>2, <3>1
    <3>3. QED BY <2>2, <3>2
  <2>4. ASSUME NEW n \in 1 .. k + 1 PROVE A[n][2] <= e
    <3>1. CASE n = k + 1
      BY <2>2, <3>1 DEF e
    <3>2. CASE n # k + 1
      <4>1. n \in 1 .. k /\ n \in 1 .. M
        BY <2>1, <3>2
      <4>2. A[n][2] <= d /\ A[n][2] \in Nat \ {0}
        BY <1>2, <1>4, <4>1 DEF d
      <4>3. QED BY <2>2, <2>3, <4>2
    <3>3. QED BY <3>1, <3>2
  <2>5. QED BY <2>1, <2>4 DEF e
<1> HIDE DEF D, M
<1>5. \A k \in 1 .. M : k \in D
  BY <1>1, <1>3, <1>4, AveragesInduct
<1>6. QED BY <1>5 DEF D, M

\* A larger denominator holds a smaller one at least once.
LEMMA QuotientPositive ==
    ASSUME NEW x \in Nat \ {0}, NEW d \in Nat \ {0}
    PROVE  x \div d \in Nat /\ (d <= x => x \div d >= 1)
<1> DEFINE q == x \div d
           r == x % d
<1>1. q \in Nat /\ r \in 0 .. d - 1 /\ x = d * q + r
  <2>1. q \in Nat
    BY QuotientType
  <2>2. r \in 0 .. d - 1 /\ x = d * q + r
    OBVIOUS
  <2>3. QED BY <2>1, <2>2
<1> HIDE DEF q, r
<1>2. SUFFICES ASSUME d <= x, q = 0 PROVE FALSE
  BY <1>1 DEF q
<1>3. d * q = 0
  BY <1>2
<1>4. QED BY <1>1, <1>2, <1>3

\* The line of differences, and its numerators over one denominator.
IsLine(line, M) ==
    /\ line \in [1 .. M -> Quotients]
    /\ \A j \in 1 .. M : line[j][2] <= line[M][2]

\* Over one denominator, a numerator below zero is at most -1.
LEMMA CommonType ==
    ASSUME NEW M \in Nat \ {0}, NEW line, IsLine(line, M)
    PROVE  /\ Common(line) \in Numbers(M) /\ Last(line) = line[M] /\ line # <<>>
           /\ \A j \in 1 .. M : line[j][1] < 0 => Common(line)[j] <= -1
<1> DEFINE L == line[M][2]
<1>1. /\ DOMAIN line = 1 .. M /\ M \in 1 .. M /\ L \in Nat \ {0}
      /\ \A j \in 1 .. M : /\ line[j][1] \in Int /\ line[j][2] \in Nat \ {0}
                           /\ line[j][2] <= L
  BY DEF IsLine, Quotients
<1>2. Last(line) = line[M] /\ line # <<>>
  <2>1. line \in Seq(Quotients) /\ Len(line) = M
    BY DEF IsLine
  <2>2. QED BY <2>1 DEF Last
<1>3. Common(line) = [j \in 1 .. M |-> line[j][1] * (L \div line[j][2])]
  BY <1>1, <1>2 DEF Common
<1> HIDE DEF L
<1>4. ASSUME NEW j \in 1 .. M
      PROVE  /\ line[j][1] * (L \div line[j][2]) \in Int
             /\ line[j][1] < 0 => line[j][1] * (L \div line[j][2]) <= -1
  <2> DEFINE n == line[j][1]
             d == line[j][2]
             q == L \div d
  <2>1. n \in Int /\ d \in Nat \ {0} /\ d <= L
    BY <1>1
  <2> HIDE DEF n, d
  <2>2. q \in Nat /\ q >= 1
    BY <1>1, <2>1, QuotientPositive
  <2> HIDE DEF q
  <2>3. n * q \in Int
    BY <2>1, <2>2
  <2>4. ASSUME n < 0 PROVE n * q <= -1
    <3>1. -n \in Nat \ {0} /\ q \in Nat \ {0}
      BY <2>1, <2>2, <2>4
    <3>2. (-n) * q \in Nat \ {0}
      BY <3>1, ProductPositive
    <3>3. (-n) * q = -(n * q)
      BY <2>1, <2>2
    <3>4. QED BY <2>3, <3>2, <3>3
  <2>5. QED BY <2>3, <2>4 DEF n, d, q
<1>5. QED BY <1>2, <1>3, <1>4 DEF Numbers


BelowZero(line, M) == \A j \in 1 .. M : line[j][1] < 0

\* calculate_macd, the line: below zero in a fall.
LEMMA MacdLineType ==
    ASSUME PeriodsAssumption, NEW N \in Nat \ {0}, NEW v \in Numbers(N), SlowPeriod <= N
    PROVE  /\ IsLine(MacdLine(v), N - SlowPeriod + 1)
           /\ OnlyFalls(v, N) => BelowZero(MacdLine(v), N - SlowPeriod + 1)
<1> DEFINE f == FastPeriod
           s == SlowPeriod
           M == N - s + 1
           A == EmaLine(v, f)
           B == EmaLine(v, s)
           line == MacdLine(v)
<1>1. f \in 1 .. N /\ s \in 1 .. N /\ f < s /\ M \in Nat \ {0} /\ M \in 1 .. M
  BY DEF PeriodsAssumption
<1>2. line = [j \in DOMAIN B |-> Minus(A[j + s - f], B[j])]
  BY DEF MacdLine
<1>3. IsAverages(A, v, N, f, 2) /\ IsAverages(B, v, N, s, 2)
  <2>1. A = Averages(v, f, 2) /\ B = Averages(v, s, 2)
    BY DEF EmaLine
  <2>2. N \in Nat /\ 2 \in Nat \ {0}
    OBVIOUS
  <2> HIDE DEF f, s, A, B
  <2>3. QED BY ONLY v \in Numbers(N), <1>1, <2>1, <2>2, AveragesRecur
<1>4. DOMAIN B = 1 .. M
  BY <1>3 DEF IsAverages
<1> HIDE DEF A, B, f, s, line
<1>5. \A j \in 1 .. M : /\ j + s - f \in 1 .. N - f + 1 /\ j \in 1 .. N - s + 1
                        /\ M + s - f \in 1 .. N - f + 1 /\ j + s - f \in 1 .. M + s - f
  BY <1>1
<1>6. /\ \A j \in 1 .. N - f + 1 : A[j] \in Quotients
      /\ \A j \in 1 .. M : B[j] \in Quotients
  BY <1>3 DEF IsAverages
<1> HIDE DEF M
<1>7. ASSUME NEW j \in 1 .. M
      PROVE  /\ line[j] \in Quotients /\ line[j][2] = A[j + s - f][2] * B[j][2]
             /\ Below(A[j + s - f], B[j]) => line[j][1] < 0
  <2> DEFINE q == A[j + s - f]
             r == B[j]
  <2>1. q \in Quotients /\ r \in Quotients
    BY <1>5, <1>6
  <2>2. line[j] = <<q[1] * r[2] - r[1] * q[2], q[2] * r[2]>>
    BY <1>2, <1>4 DEF Minus
  <2> HIDE DEF q, r
  <2>3. /\ q[1] * r[2] \in Int /\ r[1] * q[2] \in Int /\ q[2] * r[2] \in Nat \ {0}
    <3> DEFINE x == q[2]
               y == r[2]
    <3>1. x \in Nat \ {0} /\ y \in Nat \ {0} /\ q[1] \in Int /\ r[1] \in Int
      BY <2>1 DEF Quotients
    <3> HIDE DEF x, y
    <3>2. x * y \in Nat \ {0}
      BY <3>1, ProductPositive
    <3>3. QED BY <3>1, <3>2 DEF x, y
  <2>4. line[j] \in Quotients /\ line[j][2] = q[2] * r[2]
    BY <2>2, <2>3 DEF Quotients
  <2>5. ASSUME Below(q, r) PROVE line[j][1] < 0
    BY <2>2, <2>3, <2>5 DEF Below
  <2>6. QED BY <2>4, <2>5 DEF q, r
<1>8. ASSUME NEW j \in 1 .. M PROVE line[j][2] <= line[M][2]
  <2> DEFINE a == A[j + s - f][2]
             b == B[j][2]
             c == A[M + s - f][2]
             d == B[M][2]
  <2>1. a \in Nat \ {0} /\ b \in Nat \ {0} /\ c \in Nat /\ d \in Nat
    BY <1>1, <1>5, <1>6 DEF Quotients
  <2>2. N \in Nat /\ 2 \in Nat \ {0} /\ M \in 1 .. N - s + 1
    BY <1>1, <1>5
  <2>3. a <= c
    BY ONLY <1>1, <1>3, <1>5, <2>2, v \in Numbers(N), j \in 1 .. M, DenominatorsGrow
  <2>4. b <= d
    BY ONLY <1>1, <1>3, <2>2, v \in Numbers(N), j \in 1 .. M, DenominatorsGrow
  <2>5. line[j][2] = a * b /\ line[M][2] = c * d
    BY <1>1, <1>7
  <2> HIDE DEF a, b, c, d
  <2>6. a * b <= c * d
    BY <2>1, <2>3, <2>4, ProductsGrow
  <2>7. QED BY <2>5, <2>6
<1>9. line = [j \in 1 .. M |-> line[j]]
  BY <1>2, <1>4
<1>10. IsLine(line, M)
  <2>1. \A j \in 1 .. M : line[j] \in Quotients
    BY <1>7
  <2>2. line \in [1 .. M -> Quotients]
    BY ONLY <1>9, <2>1
  <2>3. QED BY <1>8, <2>2 DEF IsLine
<1>11. ASSUME OnlyFalls(v, N) PROVE BelowZero(line, M)
  <2>1. ASSUME NEW j \in 1 .. M PROVE line[j][1] < 0
    <3>1. j \in 1 .. N - s + 1
      BY <1>5
    <3>2. Below(A[j + s - f], B[j])
      BY ONLY <1>1, <1>3, <1>11, <3>1, v \in Numbers(N), N \in Nat \ {0}, FastBelowSlow
    <3>3. QED BY <1>7, <3>2
  <2>2. QED BY <2>1 DEF BelowZero
<1>12. QED BY <1>10, <1>11 DEF line, M, s

\* calculate_macd, the line and its signal.
LEMMA MacdHolds ==
    ASSUME BarsTypeOK, BarsAssumption, PeriodsAssumption
    PROVE  MacdFollowsFall
<1> DEFINE v == Closes(bars)
           N == Len(bars)
           s == SlowPeriod
           p == SignalPeriod
           M == N - s + 1
           macd == MacdLine(v)
           common == Common(macd)
           avg == EmaLine(common, p)
           signal == SignalLine(v)
<1>1. N \in Nat /\ v \in Numbers(N) /\ Len(v) = N /\ s \in Nat \ {0} /\ p \in Nat \ {0}
  BY ClosesType DEF PeriodsAssumption
<1>2. /\ avg = Averages(common, p, 2)
      /\ signal = [i \in DOMAIN avg |-> <<avg[i][1], avg[i][2] * Last(macd)[2]>>]
  BY DEF SignalLine, EmaLine
<1>3. SUFFICES /\ signal # <<>> <=> N >= s + p - 1
               /\ signal # <<>> /\ OnlyFalls(v, N) => Last(macd)[1] < 0 /\ Last(signal)[1] < 0
  BY <1>1 DEF MacdFollowsFall, OnlyFalls
<1> HIDE DEF v, N, s, p
<1>4. CASE N < s
  <2>1. macd = <<>>
    <3> DEFINE B == EmaLine(v, s)
    <3>1. B = <<>>
      BY <1>1, <1>4, NoAverages DEF EmaLine
    <3>2. DOMAIN B = {}
      BY <3>1
    <3>3. macd = [i \in DOMAIN B |-> Minus(EmaLine(v, FastPeriod)[i + s - FastPeriod], B[i])]
      BY DEF MacdLine, s
    <3> HIDE DEF B
    <3>4. QED BY <3>2, <3>3
  <2>2. common = <<>>
    <3>1. DOMAIN macd = {}
      BY <2>1
    <3> HIDE DEF macd
    <3>2. QED BY <3>1 DEF Common
  <2>3. common \in Numbers(0)
    BY <2>2 DEF Numbers
  <2> HIDE DEF macd, common
  <2>4. avg = <<>>
    <3>1. 0 \in Nat /\ p \in Nat /\ p > 0 /\ 2 \in Nat
      BY <1>1
    <3>2. QED BY ONLY <1>2, <2>3, <3>1, NoAverages
  <2>5. signal = <<>>
    BY <1>2, <2>4
  <2>6. QED BY <1>1, <1>4, <2>5
<1>5. CASE s <= N
  <2>1. N \in Nat \ {0} /\ M \in Nat \ {0}
    BY <1>1, <1>5
  <2>2. IsLine(macd, M) /\ (OnlyFalls(v, N) => BelowZero(macd, M))
    BY <1>1, <1>5, <2>1, MacdLineType DEF s
  <2> HIDE DEF macd, M
  <2>3. /\ common \in Numbers(M) /\ Last(macd) = macd[M]
        /\ \A j \in 1 .. M : macd[j][1] < 0 => common[j] <= -1
    BY <2>1, <2>2, CommonType
  <2> HIDE DEF common
  <2>4. CASE M < p
    <3>1. M \in Nat /\ p \in Nat /\ p > M /\ 2 \in Nat
      BY <1>1, <2>1, <2>4
    <3>2. avg = <<>>
      BY ONLY <1>2, <2>3, <3>1, NoAverages
    <3>3. signal = <<>>
      BY <1>2, <3>2
    <3>4. QED BY <1>1, <1>5, <2>4, <3>3 DEF M
  <2>5. CASE p <= M
    <3> DEFINE K == M - p + 1
    <3>1. p \in 1 .. M /\ M \in Nat /\ 2 \in Nat \ {0} /\ K \in Nat \ {0} /\ K \in 1 .. K
      BY <1>1, <2>1, <2>5
    <3>2. IsAverages(avg, common, M, p, 2)
      <4>1. IsAverages(Averages(common, p, 2), common, M, p, 2)
        BY ONLY <2>3, <3>1, AveragesRecur
      <4>2. QED BY <1>2, <4>1
    <3>3. DOMAIN avg = 1 .. K /\ avg[K] \in Quotients
      BY <3>1, <3>2 DEF IsAverages
    <3> HIDE DEF avg, K
    <3>4. signal = [i \in 1 .. K |-> <<avg[i][1], avg[i][2] * Last(macd)[2]>>]
      BY <1>2, <3>3
    <3>5. Len(signal) = K /\ signal # <<>> /\ Last(signal) = signal[K]
      <4> DEFINE e(i) == <<avg[i][1], avg[i][2] * Last(macd)[2]>>
      <4>1. signal = [i \in 1 .. K |-> e(i)]
        BY <3>4
      <4> HIDE DEF e, signal
      <4>2. Len(signal) = K
        BY <3>1, <4>1
      <4>3. signal # <<>>
        BY <3>1, <4>2
      <4>4. QED BY <4>2, <4>3 DEF Last
    <3>6. signal[K][1] = avg[K][1]
      BY <3>1, <3>4
    <3>7. ASSUME OnlyFalls(v, N) PROVE Last(macd)[1] < 0 /\ avg[K][1] < 0
      <4>1. \A j \in 1 .. M : macd[j][1] < 0
        BY <2>2, <3>7 DEF BelowZero
      <4>2. Last(macd)[1] < 0
        <5>1. M \in 1 .. M
          BY <2>1
        <5>2. QED BY <2>3, <4>1, <5>1
      <4>3. AtMost(avg[K], -1)
        <5>1. K \in 1 .. M - p + 1 /\ p + K - 1 = M /\ -1 \in Int
          BY <3>1 DEF K
        <5>2. \A j \in 1 .. p + K - 1 : common[j] <= -1
          BY <2>3, <4>1, <5>1
        <5>3. QED BY ONLY <2>3, <3>1, <3>2, <5>1, <5>2, AveragesAtMost
      <4>4. avg[K][1] < 0
        <5> DEFINE d == avg[K][2]
        <5>1. d \in Nat \ {0} /\ avg[K][1] \in Int /\ avg[K][1] <= (-1) * d
          BY <3>3, <4>3 DEF AtMost, Quotients
        <5> HIDE DEF d
        <5>2. (-1) * d < 0 /\ (-1) * d \in Int
          BY <5>1
        <5>3. QED BY <5>1, <5>2
      <4>5. QED BY <4>2, <4>4
    <3>8. QED BY <1>1, <1>5, <2>5, <3>5, <3>6, <3>7 DEF M
  <2>6. QED BY <1>1, <2>1, <2>4, <2>5
<1>6. QED BY <1>1, <1>4, <1>5

\* The indicators of any answer, and with any periods, are what their
\* definitions say: averages whose weights shrink with age, RSI at 100 exactly
\* without a loss, the MACD below zero in a fall, ATR and VWAP within the
\* prices they are taken of (calculate_ema, calculate_rsi, calculate_macd,
\* calculate_atr, calculate_vwap).
THEOREM IndicatorsAreRight == CandlesSpec => []IndicatorsMatchDefinitions
<1>1. BarsTypeOK => IndicatorsMatchDefinitions
  BY EmaHolds, RsiHolds, MacdHolds, AtrHolds, VwapHolds, BarsAssumption, PeriodsAssumption
     DEF IndicatorsMatchDefinitions
<1>2. QED BY <1>1, WindowType, PTL

-----------------------------------------------------------------------------
(* The registry of the streams.                                            *)

Labels == {"new", "read", "send", "receive", "sleep", "closed"}

\* A socket is registered under the name it wrote, as long as its loop runs:
\* the entries of one name do not tell whether the others are right.
RegistryInv ==
    /\ ask \in Requests
    /\ pc \in [Asking -> Labels]
    /\ registry \in [Names -> SUBSET Asking]
    /\ \A ws \in Asking, n \in Names :
          ws \in registry[n] <=> Open(ws) /\ n = ask[ws].name

Moves(ws, label) == /\ pc' = [pc EXCEPT ![ws] = label] /\ UNCHANGED ask

LEMMA StayKeeps ==
    ASSUME RegistryInv, NEW ws \in Asking, NEW label \in Labels \ {"new", "closed"},
           Open(ws), Moves(ws, label), UNCHANGED registry
    PROVE  RegistryInv'
  BY DEF RegistryInv, Moves, Open, Labels, Asking, Names

LEMMA RegisterKeeps ==
    ASSUME RegistryInv, NEW ws \in Asking, Moves(ws, "read"), Register(ws)
    PROVE  RegistryInv'
<1>1. /\ Asking' = Asking /\ Names' = Names /\ ask' = ask
      /\ pc' \in [Asking -> Labels]
      /\ \A o \in Asking : pc'[o] = IF o = ws THEN "read" ELSE pc[o]
  BY DEF RegistryInv, Moves, Labels, Asking, Names
<1>2. ask[ws].name \in Names
  BY DEF Names
<1>3. /\ registry' \in [Names -> SUBSET Asking]
      /\ \A n \in Names : registry'[n] = IF n = ask[ws].name THEN registry[n] \cup {ws}
                                                             ELSE registry[n]
  BY <1>2 DEF RegistryInv, Register
<1>4. QED BY <1>1, <1>2, <1>3 DEF RegistryInv, Open

LEMMA LeaveKeeps ==
    ASSUME RegistryInv, NEW ws \in Asking, Moves(ws, "closed"), Unregister(ws)
    PROVE  RegistryInv'
<1>1. /\ Asking' = Asking /\ Names' = Names /\ ask' = ask
      /\ pc' \in [Asking -> Labels]
      /\ \A o \in Asking : pc'[o] = IF o = ws THEN "closed" ELSE pc[o]
  BY DEF RegistryInv, Moves, Labels, Asking, Names
<1>2. ask[ws].name \in Names
  BY DEF Names
<1>3. /\ registry' \in [Names -> SUBSET Asking]
      /\ \A n \in Names : registry'[n] = IF n = ask[ws].name THEN registry[n] \ {ws}
                                                             ELSE registry[n]
  BY <1>2 DEF RegistryInv, Unregister
<1>4. QED BY <1>1, <1>2, <1>3 DEF RegistryInv, Open

LEMMA RegistryStep ==
    ASSUME RegistryInv, [Next]_vars
    PROVE  RegistryInv'
<1>1. ASSUME NEW ws \in Asking, Accept(ws) PROVE RegistryInv'
  BY <1>1, RegisterKeeps DEF Accept, Goto, Moves
<1>2. ASSUME NEW ws \in Asking, Serve(ws) PROVE RegistryInv'
  <2>1. Open(ws)
    BY <1>2 DEF Serve, GetSnapshot, GetSnapshotFails, SendFrame, SendToNobody, NothingSaid,
                Receive, Wake, Open
  <2>2. \/ \E label \in Labels \ {"new", "closed"} : Moves(ws, label) /\ UNCHANGED registry
        \/ Moves(ws, "closed") /\ Unregister(ws)
    <3>1. CASE GetSnapshot(ws)
      BY <3>1 DEF GetSnapshot, Stay, Goto, Moves, Labels
    <3>2. CASE GetSnapshotFails(ws)
      BY <3>2 DEF GetSnapshotFails, Leave, Goto, Moves
    <3>3. CASE SendFrame(ws)
      BY <3>3 DEF SendFrame, Stay, Goto, Moves, Labels
    <3>4. CASE SendToNobody(ws)
      BY <3>4 DEF SendToNobody, Leave, Stay, Goto, Moves, Labels
    <3>5. CASE NothingSaid(ws)
      BY <3>5 DEF NothingSaid, Stay, Goto, Moves, Labels
    <3>6. CASE Receive(ws)
      <4>1. (Leave(ws) \/ Stay(ws, "sleep")) /\ UNCHANGED ask
        BY <3>6 DEF Receive
      <4>2. QED BY <4>1 DEF Leave, Stay, Goto, Moves, Labels
    <3>7. CASE Wake(ws)
      BY <3>7 DEF Wake, Stay, Goto, Moves, Labels
    <3>8. QED BY <1>2, <3>1, <3>2, <3>3, <3>4, <3>5, <3>6, <3>7 DEF Serve
  <2>3. QED BY <2>1, <2>2, StayKeeps, LeaveKeeps
<1>3. ASSUME UNCHANGED <<ask, pc, registry>> PROVE RegistryInv'
  BY <1>3 DEF RegistryInv, Open, Asking, Names
<1>4. ASSUME NEW ws \in Asking, Talk(ws) PROVE UNCHANGED <<ask, pc, registry>>
  BY <1>4 DEF Talk, Disconnect, Say
<1>5. ASSUME NEW k \in Keys, UpdateSnapshot(k) PROVE UNCHANGED <<ask, pc, registry>>
  BY <1>5 DEF UpdateSnapshot
<1>6. QED BY <1>1, <1>2, <1>3, <1>4, <1>5 DEF Next, vars

\* One registration per open socket, so that the sizes add up.
LEMMA CountIsOpen ==
    ASSUME RequestsAssumption, RegistryInv
    PROVE  get_active_ws_count = Cardinality({ws \in Asking : Open(ws)})
<1> DEFINE opened == {ws \in Asking : Open(ws)}
           entries == {e \in Names \X Asking : e[2] \in registry[e[1]]}
           f == [ws \in opened |-> <<ask[ws].name, ws>>]
<1>1. IsFiniteSet(Asking)
  BY DEF RequestsAssumption, RegistryInv, Asking
<1>2. IsFiniteSet(opened)
  BY <1>1, FS_Subset
<1>3. f \in [opened -> entries]
  <2>1. ASSUME NEW ws \in opened PROVE <<ask[ws].name, ws>> \in entries
    BY DEF RegistryInv, Names
  <2>2. QED BY <2>1
<1>4. \A v, w \in opened : f[v] = f[w] => v = w
  OBVIOUS
<1>5. ASSUME NEW e \in entries PROVE \E ws \in opened : f[ws] = e
  <2>1. e[1] \in Names /\ e[2] \in Asking /\ e = <<e[1], e[2]>> /\ e[2] \in registry[e[1]]
    OBVIOUS
  <2>2. e[2] \in opened /\ e[1] = ask[e[2]].name
    BY <2>1 DEF RegistryInv
  <2>3. QED BY <2>1, <2>2
<1> HIDE DEF f, opened, entries
<1>6. f \in Bijection(opened, entries)
  BY <1>3, <1>4, <1>5 DEF Bijection, Injection, Surjection, IsInjective
<1>7. Cardinality(entries) = Cardinality(opened)
  BY <1>2, <1>6, FS_Bijection DEF ExistsBijection
<1>8. QED BY <1>7 DEF get_active_ws_count, opened, entries

\* The registry, and the gauge that counts it, hold exactly the sockets whose
\* loop runs, for any number of sockets, names and ways to leave
\* (ws.py:20-25, 50, 96, 165; metrics.py:15).
THEOREM RegistryIsRight == Spec => []RegisteredIsServed
<1>1. ASSUME Init PROVE RegistryInv
  BY <1>1 DEF Init, RegistryInv, Open, Labels, Names
<1>2. ASSUME RegistryInv, [Next]_vars
      PROVE  RegistryInv'
  BY <1>2, RegistryStep
<1>3. ASSUME RegistryInv PROVE RegisteredIsServed
  <2>1. \A ws \in Asking : Open(ws) <=> \E n \in Names : ws \in registry[n]
    <3>1. \A ws \in Asking : ask[ws].name \in Names
      BY DEF Names
    <3>2. QED BY <1>3, <3>1 DEF RegistryInv
  <2>2. QED BY <1>3, <2>1, CountIsOpen, RequestsAssumption DEF RegisteredIsServed
<1>4. QED BY <1>1, <1>2, <1>3, PTL DEF Spec
=============================================================================
