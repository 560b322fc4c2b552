--------------------------- MODULE MarketStructure ---------------------------
(***************************************************************************)
(* detect_swing_points and analyze_market_structure, as operators on a     *)
(* sequence s of candles. Every answer is computed from the whole window   *)
(* again; the properties say what a reader who compares two answers, or    *)
(* two parts of one, may rely on.                                          *)
(***************************************************************************)
EXTENDS Candles, FiniteSets

CONSTANTS Left, Right,            \* bars that confirm a swing on either side (2 and 2)
          MaxEvents, MaxBlocks    \* how many of each are reported (20 and 10)

ASSUME SidesAssumption == {Left, Right} \subseteq Nat /\ Left + Right >= 2
ASSUME KeptAssumption == {MaxEvents, MaxBlocks} \subseteq Nat \ {0}

(***************************************************************************)
(* Swings.                                                                 *)
(***************************************************************************)
Confirmed(s) == Left + 1 .. Len(s) - Right

Around(i) == (i - Left .. i + Right) \ {i}

\* Plausible bug: a swing is reported before its right bars are there.
Unconfirmed(s) ==
  {i \in Left + 1 .. Len(s) : \A j \in Around(i) \intersect DOMAIN s : s[j].high < s[i].high}

SwingHighs(s) == {i \in Confirmed(s) : \A j \in Around(i) : s[j].high < s[i].high}
SwingLows(s)  == {i \in Confirmed(s) : \A j \in Around(i) : s[j].low > s[i].low}

(***************************************************************************)
(* Fair value gaps: candle i leaves a gap to candle i-2, until a later     *)
(* candle trades back into it.                                             *)
(***************************************************************************)
Bullish(s, i) == s[i].low > s[i - 2].high
Bearish(s, i) == s[i].high < s[i - 2].low

Gaps(s) ==
  {[index |-> i, bullish |-> TRUE, top |-> s[i].low, bottom |-> s[i - 2].high] :
      i \in {k \in 3 .. Len(s) : Bullish(s, k)}}
  \union
  {[index |-> i, bullish |-> FALSE, top |-> s[i - 2].low, bottom |-> s[i].high] :
      i \in {k \in 3 .. Len(s) : Bearish(s, k)}}

\* Plausible bugs: only the newest candle is compared; only closes fill a gap.
MitigatedByLast(s, g) ==
  g.index < Len(s) /\ IF g.bullish THEN s[Len(s)].low =< g.top
                                   ELSE s[Len(s)].high >= g.bottom
MitigatedByClose(s, g) ==
  \E i \in g.index + 1 .. Len(s) :
     IF g.bullish THEN s[i].close < g.bottom ELSE s[i].close > g.top

Mitigated(s, g) ==
  \E i \in g.index + 1 .. Len(s) :
     IF g.bullish THEN s[i].low =< g.top ELSE s[i].high >= g.bottom

ActiveGaps(s) == {g \in Gaps(s) : ~Mitigated(s, g)}

(***************************************************************************)
(* Trend and events. Candle i is compared with the last swing high and the *)
(* last swing low before it: a wick beyond one is a SWEEP, a close beyond  *)
(* it a break: CHOCH when it turns the trend, BOS when it goes on.         *)
(***************************************************************************)
Before(swings, i) == {k \in swings : k < i}
LastOf(swings, i) == CHOOSE k \in Before(swings, i) : \A l \in Before(swings, i) : l =< k

Event(type, direction, i) == [type |-> type, direction |-> direction, index |-> i]

Sweeps(s, i) ==
  LET sh == SwingHighs(s)
      sl == SwingLows(s)
      high == Before(sh, i) # {} /\ s[i].high > s[LastOf(sh, i)].high
                                 /\ s[i].close < s[LastOf(sh, i)].high
      low  == Before(sl, i) # {} /\ s[i].low < s[LastOf(sl, i)].low
                                 /\ s[i].close > s[LastOf(sl, i)].low
  IN  (IF high THEN <<Event("SWEEP", "BEARISH", i)>> ELSE <<>>)
      \o (IF low THEN <<Event("SWEEP", "BULLISH", i)>> ELSE <<>>)

BreaksUp(s, i) ==
  LET sh == SwingHighs(s) IN Before(sh, i) # {} /\ s[i].close > s[LastOf(sh, i)].high

BreaksDown(s, i) ==
  LET sl == SwingLows(s)
  IN  ~BreaksUp(s, i) /\ Before(sl, i) # {} /\ s[i].close < s[LastOf(sl, i)].low

\* Plausible bug: a BOS is not told from a CHOCH by the running trend.
BreakFirst(m, d, i) ==
  [m EXCEPT !.events = Append(@, Event(IF @ = <<>> THEN "CHOCH" ELSE "BOS", d, i)),
            !.trend = d]

\* A break in the trend's direction goes on, any other one turns the trend
\* and leaves the candle before it as an order block.
Break(m, d, i) ==
  IF m.trend = d
  THEN [m EXCEPT !.events = Append(@, Event("BOS", d, i))]
  ELSE [trend  |-> d,
        events |-> Append(m.events, Event("CHOCH", d, i)),
        blocks |-> Append(m.blocks, [index |-> i - 1, direction |-> d])]

\* The walk over the candles up to i, the sweeps of a candle before its break.
OneBar(m, s, i) ==
  LET swept == [m EXCEPT !.events = @ \o Sweeps(s, i)]
  IN  IF BreaksUp(s, i) THEN Break(swept, "BULLISH", i)
      ELSE IF BreaksDown(s, i) THEN Break(swept, "BEARISH", i)
      ELSE swept

Unmarked == [trend |-> "NEUTRAL", events |-> <<>>, blocks |-> <<>>]

Walks(s) ==
  LET after[i \in 0 .. Len(s)] == IF i = 0 THEN Unmarked ELSE OneBar(after[i - 1], s, i)
  IN  after

Recent(q, n) == SubSeq(q, IF Len(q) > n THEN Len(q) - n + 1 ELSE 1, Len(q))

Structure(s) ==
  LET m == Walks(s)[Len(s)]
  IN  [m EXCEPT !.events = Recent(@, MaxEvents), !.blocks = Recent(@, MaxBlocks)]

\* The part of the analytics snapshot that tells of the market structure.
Answer(s) ==
  LET m == Structure(s)
  IN  [market_trend  |-> m.trend,
       recent_events |-> m.events,
       latest_event  |-> IF m.events = <<>> THEN <<>> ELSE <<m.events[Len(m.events)]>>,
       active_order_blocks_count |-> Len(m.blocks),
       active_fvgs_count |-> Cardinality(ActiveGaps(s))]

(***************************************************************************)
(* Properties. The answer is recomputed on every request over a window     *)
(* that has moved; nothing in the code ties two answers together.          *)
(***************************************************************************)
Moved(i) == i - Shift

\* A swing, once reported, is reported again as long as its left bars are in
\* the window, and a new one appears only when its last right bar arrives:
\* detect_swing_points neither repaints nor backfills (structure.py:56-75).
SwingsNeverRepaint ==
  [][\A highs \in BOOLEAN :
       LET old == IF highs THEN SwingHighs(bars) ELSE SwingLows(bars)
           new == IF highs THEN SwingHighs(bars') ELSE SwingLows(bars')
       IN  /\ \A i \in old : Moved(i) > Left => Moved(i) \in new
           /\ \A i \in new : i = Len(bars') - Right \/ i + Shift \in old]_bars

\* A gap that was filled, or that was never there, does not come back: an
\* active gap was active in the answer before, at the same levels, or is the
\* newest candle's (structure.py:102-132).
GapsStayFilled ==
  [][\A g \in ActiveGaps(bars') :
       g.index = Len(bars') \/ [g EXCEPT !.index = @ + Shift] \in ActiveGaps(bars)]_bars

\* The gaps reported as active never contradict each other: every bullish
\* one (support) lies below every bearish one (resistance), however they are
\* ordered in time (structure.py:121-132, 219).
SupportBelowResistance ==
  \A g, h \in ActiveGaps(bars) : g.bullish /\ ~h.bullish => g.top < h.bottom

\* The answer a, with its order blocks.
OneStory(a, blocks) ==
  LET e      == a.recent_events
      n      == a.active_order_blocks_count
      Breaks == {k \in DOMAIN e : e[k].type # "SWEEP"}
      Chochs == {k \in DOMAIN e : e[k].type = "CHOCH"}
      c      == Cardinality(Chochs)
      \* The block of a reversal: both are counted from the newest.
      BlockOf(k) == n + 1 - Cardinality({l \in Chochs : l >= k})
  IN  /\ \A k, l \in Breaks :
           k < l /\ (\A j \in Breaks : j =< k \/ j >= l) =>
             (e[l].type = "CHOCH" <=> e[l].direction # e[k].direction)
      /\ a.market_trend = "NEUTRAL" <=> n = 0
      /\ n > 0 => a.market_trend = blocks[n].direction
      /\ \A k \in Breaks :
           (\A l \in Breaks : l =< k) => a.market_trend = e[k].direction
      /\ \A k \in Chochs :
           BlockOf(k) > 0 => /\ e[k].direction = blocks[BlockOf(k)].direction
                             /\ e[k].index = blocks[BlockOf(k)].index + 1
      /\ n =< c \/ Len(e) = MaxEvents
      /\ c =< n \/ n = MaxBlocks

\* Trend, events and order blocks of one answer tell one story, also after
\* the older events and blocks were cut off: a break is a CHOCH exactly when
\* it turns the direction of the break before it, the trend is neutral only
\* without an order block and otherwise the direction of the last break and
\* of the last block, the reported reversals are the last ones that left a
\* block, in the same order, and no reversal that fits in the answer is
\* missing (structure.py:134-227, engine.py:140-185).
TrendFollowsBreaks == OneStory(Answer(bars), Structure(bars).blocks)
==============================================================================
