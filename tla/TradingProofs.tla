---------------------------- MODULE TradingProofs ----------------------------
(***************************************************************************)
(* Proofs about Trading for any agents, limits, prices and requests: an    *)
(* answer that is not made up is true, what is recommended fits its limit, *)
(* and the position of an agent that asks the gate stays within its limit  *)
(* until the API makes something up.                                       *)
(***************************************************************************)
EXTENDS Trading, SequenceTheorems, TLAPS

-----------------------------------------------------------------------------
(* Types.                                                                  *)

PlaceCall ==
    [op : {"place"}, agent : Agents, type : {"market", "limit"}, qty : Nat \ {0}, size : Nat,
     informed : BOOLEAN, state : {"sent", "rejected", "open", "filled", "cancelled"},
     answered : BOOLEAN, simulated : BOOLEAN]
CancelCall ==
    [op : {"cancel"}, agent : Agents, target : Nat, state : {"sent", "rejected", "accepted"},
     answered : BOOLEAN, simulated : BOOLEAN]
Call == PlaceCall \cup CancelCall

Read    == [position : Nat, capital : Nat, real : BOOLEAN]
Ruling  == [allowed : BOOLEAN, suggested : Nat]
Checked == [qty : Nat \ {0}, price : Nat, account : Read, verdict : Ruling]
Advice  == [qty : Nat, sizing : UNION {s.sizings : s \in Scenarios}, capital : Nat, price : Nat]

CallsOK ==
    /\ calls \in Seq(Call)
    /\ \A i \in DOMAIN calls :
          IF IsOrder(i)
          THEN /\ calls[i].size * Unit <= calls[i].qty /\ calls[i].type \in scenario.types
               /\ calls[i].state \in {"open", "cancelled"} => calls[i].type = "limit"
          ELSE calls[i].target \in DOMAIN calls /\ IsOrder(calls[i].target)

TypeOK ==
    /\ scenario \in Scenarios
    /\ price \in scenario.prices /\ capital \in scenario.capitals /\ position \in Nat
    /\ known \in [Agents -> Read \cup {Unread}]
    /\ sized \in [Agents -> Advice \cup {None}]
    /\ asked \in [Agents -> Checked \cup {None}]
    /\ CallsOK

-----------------------------------------------------------------------------
(* The inductive invariants.                                               *)

\* What the answers promise holds at the exchange, and stays so: a cancel
\* that was accepted has cancelled, also before it is answered.
AnswersInv ==
    \A i \in DOMAIN calls :
        /\ calls[i].simulated => calls[i].answered
        /\ calls[i].answered /\ ~calls[i].simulated =>
              IF IsOrder(i) THEN calls[i].state \in {"open", "filled", "cancelled"}
              ELSE calls[i].state = "accepted"
        /\ ~IsOrder(i) /\ calls[i].state = "accepted" =>
              calls[calls[i].target].state = "cancelled"

\* What was recommended came from the gate.
AdviceInv ==
    \A a \in Agents :
        /\ asked[a] = None \/ asked[a].verdict =
              CheckTrade(asked[a].account.capital, asked[a].account.position,
                         asked[a].qty, asked[a].price)
        /\ sized[a] = None \/ LET z == sized[a] IN z.qty =
              IF z.sizing.method = "kelly"
              THEN KellySize(z.capital, z.price, z.sizing.win, z.sizing.avgWin, z.sizing.avgLoss)
              ELSE FixedFractionalSize(z.capital, z.price, z.sizing.riskPct)

\* The API made something up: an account, or the answer to an executed order.
MadeUp == \E i \in Filled : calls[i].simulated \/ ~calls[i].informed

\* The position is within its limit, would still be when the order that is
\* on its way is executed, and an agent that may order knows it.
Within(n) == ~OverExposed(n * Unit, price)
OnItsWay(i) ==
    IsOrder(i) /\ calls[i].state = "sent" /\ calls[i].informed /\ ~calls[i].answered
Knows(a) ==
    /\ known[a] # Unread =>
          ~Waiting(a) /\ (known[a].real => known[a].position = position * Unit)
    /\ asked[a] # None =>
          /\ known[a] # Unread /\ asked[a].account = known[a]
          /\ price > 0 => asked[a].price = price
InLimit ==
    /\ Within(position)
    /\ \A i \in DOMAIN calls : OnItsWay(i) => Within(position + calls[i].size)
    /\ \A a \in Agents : Knows(a)
ExposureInv == OneAskingAgent /\ ~MadeUp => InLimit

\* An agent waits for one answer at a time.
OneAtATime ==
    \A i, j \in DOMAIN calls :
        calls[i].agent = calls[j].agent /\ ~calls[i].answered /\ ~calls[j].answered => i = j

Core == TypeOK /\ AnswersInv /\ AdviceInv /\ OneAtATime
IInv == Core /\ ExposureInv

-----------------------------------------------------------------------------
(* Arithmetic of the gate.                                                 *)

LEMMA TimesMonotone ==
    ASSUME NEW x \in Int, NEW y \in Int, NEW p \in Nat, x <= y
    PROVE  x * p <= y * p /\ x * p \in Int /\ y * p \in Int
<1> DEFINE d == y - x
<1>1. d \in Nat /\ y = x + d
  OBVIOUS
<1> HIDE DEF d
<1>2. y * p = x * p + d * p /\ d * p \in Nat
  BY <1>1
<1>3. QED BY <1>2

LEMMA TimesCancel ==
    ASSUME NEW x \in Int, NEW y \in Int, NEW n \in Nat \ {0}, n * x <= n * y
    PROVE  x <= y
<1>1. SUFFICES ASSUME x >= y + 1 PROVE FALSE
  OBVIOUS
<1>2. (y + 1) * n <= x * n
  BY <1>1, TimesMonotone
<1>3. (y + 1) * n = n * y + n /\ x * n = n * x
  OBVIOUS
<1>4. n * y \in Int /\ n * x \in Int
  OBVIOUS
<1>5. QED BY <1>2, <1>3, <1>4

\* A rounded quotient is the natural number within half a unit of it.
LEMMA RoundedWithin ==
    ASSUME NEW a \in Nat, NEW b \in Nat \ {0}
    PROVE  /\ Rounded(a, b) \in Nat /\ b * Rounded(a, b) \in Nat
           /\ 2 * (b * Rounded(a, b)) <= 2 * a + b
           /\ 2 * a <= 2 * (b * Rounded(a, b)) + b
<1> DEFINE q == a \div b
           r == a % b
<1>1. q \in Nat /\ r \in 0..(b - 1) /\ a = b * q + r
  OBVIOUS
<1>2. b * (q + 1) = b * q + b
  BY <1>1
<1> HIDE DEF q, r
<1>3. \/ Rounded(a, b) = q /\ 2 * r <= b
      \/ Rounded(a, b) = q + 1 /\ 2 * r >= b
  BY <1>1 DEF Rounded, q, r
<1>4. b * q \in Nat
  BY <1>1
<1>5. CASE Rounded(a, b) = q /\ 2 * r <= b
  BY <1>1, <1>4, <1>5
<1>6. CASE Rounded(a, b) = q + 1 /\ 2 * r >= b
  <2>1. b * Rounded(a, b) = b * q + b
    BY <1>2, <1>6
  <2>2. QED BY <1>1, <1>4, <1>6, <2>1
<1>7. QED BY <1>3, <1>5, <1>6

\* More is not exposed less.
LEMMA ExposureGrows ==
    ASSUME GateAssumption, NEW x \in Nat, NEW y \in Nat, NEW p \in Nat, x <= y,
           ~OverExposed(y, p)
    PROVE  ~OverExposed(x, p)
<1>1. 100 * x \in Int /\ 100 * y \in Int /\ 100 * x <= 100 * y
  OBVIOUS
<1>2. (100 * x) * p <= (100 * y) * p /\ (100 * x) * p \in Int /\ (100 * y) * p \in Int
  BY <1>1, TimesMonotone
<1>3. MaxPositionPct * InitialCapital * Unit \in Nat
  BY DEF GateAssumption
<1>4. QED BY <1>2, <1>3 DEF OverExposed

\* What is worth nothing is within every limit.
LEMMA WorthlessFits ==
    ASSUME GateAssumption, NEW x \in Nat
    PROVE  ~OverExposed(x, 0)
<1>1. MaxPositionPct * InitialCapital * Unit \in Nat
  BY DEF GateAssumption
<1>2. 100 * x * 0 = 0
  OBVIOUS
<1>3. QED BY <1>1, <1>2 DEF OverExposed

\* The quantity suggested in place of a larger one is not larger.
LEMMA SuggestionFits ==
    ASSUME GateAssumption, NEW qty \in Nat \ {0}, NEW p \in Nat, OverLossLimit(qty, p)
    PROVE  /\ Suggestion(p) \in Nat /\ Suggestion(p) <= qty
           /\ Suggestion(p) = 0 => 50 * p >= MaxLossPct * InitialCapital * Unit
<1> DEFINE m == MaxLossPct * InitialCapital * Unit
           n == 100 * p
           s == Suggestion(p)
<1>1. m \in Nat
  BY DEF GateAssumption
<1>2. 100 * qty * p > m
  BY DEF OverLossLimit
<1> HIDE DEF m
<1>3. p # 0
  BY <1>1, <1>2
<1>4. n \in Nat \ {0}
  BY <1>3
<1>5. s = Rounded(m, n)
  BY DEF Suggestion, m
<1>6. 100 * qty * p = n * qty /\ n * qty \in Nat /\ n = 100 * p
  OBVIOUS
<1> HIDE DEF n, s
<1>7. s \in Nat /\ n * s \in Nat /\ 2 * (n * s) <= 2 * m + n /\ 2 * m <= 2 * (n * s) + n
  BY <1>1, <1>4, <1>5, RoundedWithin
<1>8. s <= qty
  <2>1. SUFFICES ASSUME s >= qty + 1 PROVE FALSE
    BY <1>7
  <2>2. (qty + 1) * n <= s * n
    BY <1>4, <1>7, <2>1, TimesMonotone
  <2>3. (qty + 1) * n = n * qty + n /\ s * n = n * s
    BY <1>4, <1>7
  <2>4. QED BY <1>1, <1>2, <1>4, <1>6, <1>7, <2>2, <2>3
<1>9. s = 0 => 50 * p >= m
  <2>1. s = 0 => n * s = 0
    BY <1>4
  <2>2. QED BY <1>1, <1>6, <1>7, <2>1
<1>10. QED BY <1>7, <1>8, <1>9 DEF s, m

\* A size of c * k / n, rounded, is worth c * k / n give or take half a unit.
LEMMA FixedFractionalFits ==
    ASSUME GateAssumption, NEW c \in Nat, NEW p \in Nat, NEW k \in Nat
    PROVE  LET s == FixedFractionalSize(c, p, k)
           IN  s \in Nat /\ (s > 0 => 50 * Worth(2 * s - 1, p) <= k * c * Unit)
<1> DEFINE s == FixedFractionalSize(c, p, k)
           m == c * k * Unit
           n == 100 * p
<1>1. CASE p = 0
  BY <1>1 DEF FixedFractionalSize
<1>2. CASE p # 0
  <2>1. m \in Nat /\ n \in Nat \ {0} /\ s = Rounded(m, n) /\ m = k * c * Unit
    BY <1>2 DEF FixedFractionalSize, GateAssumption
  <2> HIDE DEF s, m
  <2>2. s \in Nat /\ n * s \in Nat /\ 2 * (n * s) <= 2 * m + n
    BY <2>1, RoundedWithin
  <2>3. 2 * (50 * Worth(2 * s - 1, p)) = 2 * (n * s) - n
    BY <2>2 DEF Worth
  <2>4. 50 * Worth(2 * s - 1, p) \in Int
    BY <2>2 DEF Worth
  <2> HIDE DEF n
  <2>5. 50 * Worth(2 * s - 1, p) <= m
    BY <2>1, <2>2, <2>3, <2>4
  <2>6. QED BY <2>1, <2>2, <2>5 DEF s
<1>3. QED BY <1>1, <1>2

\* Kelly's fraction of the capital is at most one fifth, capped or not.
LEMMA KellyFits ==
    ASSUME GateAssumption, NEW c \in Nat, NEW p \in Nat, NEW win \in 0..100,
           NEW w \in Nat \ {0}, NEW l \in Nat
    PROVE  LET s == KellySize(c, p, win, w, l)
           IN  s \in Nat /\ (s > 0 => 50 * Worth(2 * s - 1, p) <= 20 * c * Unit)
<1> DEFINE s == KellySize(c, p, win, w, l)
           e == win * w - (100 - win) * l
           cu == c * Unit
           x == (2 * s - 1) * p
<1>1. e \in Int
  OBVIOUS
<1>2. cu \in Nat /\ Unit \in Nat
  BY DEF GateAssumption
<1>3. CASE l = 0 \/ p = 0 \/ e <= 0
  <2>1. s = 0
    BY <1>3 DEF KellySize
  <2>2. QED BY <2>1
<1>4. CASE ~(l = 0 \/ p = 0 \/ e <= 0) /\ 5 * e >= 400 * w
  <2> DEFINE n == 5 * p
  <2>1. s = Rounded(cu, n) /\ n \in Nat \ {0}
    BY <1>4 DEF KellySize
  <2> HIDE DEF s, e, cu
  <2>2. s \in Nat /\ n * s \in Nat /\ 2 * (n * s) <= 2 * cu + n
    BY <1>2, <2>1, RoundedWithin
  <2>3. 5 * x = 2 * (n * s) - n /\ x \in Int
    BY <2>2
  <2> HIDE DEF n, x
  <2>4. 50 * x <= 20 * cu
    BY <1>2, <2>1, <2>2, <2>3
  <2>5. 20 * c * Unit = 20 * cu
    BY <1>2 DEF cu
  <2>6. QED BY <2>2, <2>4, <2>5 DEF Worth, x, s
<1>5. CASE ~(l = 0 \/ p = 0 \/ e <= 0) /\ ~(5 * e >= 400 * w)
  <2> DEFINE k == 400 * w
             n == k * p
             m == c * e * Unit
  <2>1. s = Rounded(m, n)
    <3>1. n = 400 * w * p
      OBVIOUS
    <3>2. s = Rounded(c * e * Unit, 400 * w * p)
      BY <1>5 DEF KellySize
    <3>3. QED BY <3>1, <3>2
  <2> HIDE DEF s, e
  <2>2. e \in Nat /\ k \in Nat \ {0} /\ 5 * e < k /\ p \in Nat \ {0}
    BY <1>1, <1>5
  <2>3. m \in Nat /\ n \in Nat \ {0} /\ m = cu * e
    BY <1>2, <2>2
  <2> HIDE DEF m, cu, k
  <2>4. s \in Nat /\ n * s \in Nat /\ 2 * (n * s) <= 2 * m + n
    BY <2>1, <2>3, RoundedWithin
  <2>5. k * x = 2 * (n * s) - n /\ x \in Int /\ k * x \in Int
    BY <2>2, <2>4
  <2> HIDE DEF n, x
  <2>6. k * x <= 2 * m
    BY <2>3, <2>4, <2>5
  <2>7. (5 * e) * cu <= k * cu /\ k * cu \in Int
    BY <1>2, <2>2, TimesMonotone
  <2>8. (5 * e) * cu = 5 * m
    BY <1>2, <2>2, <2>3
  <2>9. 5 * (k * x) <= 2 * (k * cu)
    BY <2>3, <2>5, <2>6, <2>7, <2>8
  <2>10. k * (5 * x) = 5 * (k * x) /\ k * (2 * cu) = 2 * (k * cu)
    BY <1>2, <2>2, <2>5
  <2>11. 5 * x <= 2 * cu
    <3>1. 5 * x \in Int /\ 2 * cu \in Int /\ k * (5 * x) <= k * (2 * cu)
      BY <1>2, <2>5, <2>9, <2>10
    <3>2. QED BY <2>2, <3>1, TimesCancel
  <2>12. 50 * x <= 20 * cu
    BY <1>2, <2>5, <2>11
  <2>13. 20 * c * Unit = 20 * cu
    BY <1>2 DEF cu
  <2>14. QED BY <2>4, <2>12, <2>13 DEF Worth, x, s
<1>6. QED BY <1>3, <1>4, <1>5

\* What check_trade answers.
LEMMA GateFacts ==
    ASSUME GateAssumption, NEW c \in Nat, NEW n \in Nat, NEW qty \in Nat \ {0}, NEW p \in Nat
    PROVE  LET v == CheckTrade(c, n, qty, p)
           IN  /\ v \in Ruling
               /\ v.allowed => ~OverExposed(n + qty, p)
               /\ ~v.allowed =>
                     /\ v.suggested <= qty
                     /\ v.suggested = 0 /\ risk_status(c) # "CRITICAL" =>
                           \/ OverExposed(n + qty, p)
                           \/ 50 * p >= MaxLossPct * InitialCapital * Unit
                     /\ v.suggested > 0 => ~OverExposed(n + v.suggested, p)
                                           /\ OverLossLimit(qty, p)
<1> DEFINE v == CheckTrade(c, n, qty, p)
<1>1. CASE DrawdownReached(c)
  <2>1. v = [allowed |-> FALSE, suggested |-> 0] /\ risk_status(c) = "CRITICAL"
    BY <1>1 DEF CheckTrade, Verdict, risk_status
  <2>2. QED BY <2>1 DEF Ruling
<1>2. CASE ~DrawdownReached(c) /\ OverExposed(n + qty, p)
  <2>1. v = [allowed |-> FALSE, suggested |-> 0]
    BY <1>2 DEF CheckTrade, Verdict
  <2>2. QED BY <1>2, <2>1 DEF Ruling
<1>3. CASE ~DrawdownReached(c) /\ ~OverExposed(n + qty, p) /\ OverLossLimit(qty, p)
  <2>1. v = [allowed |-> FALSE, suggested |-> Suggestion(p)]
    BY <1>3 DEF CheckTrade, Verdict
  <2>2. /\ Suggestion(p) \in Nat /\ Suggestion(p) <= qty
        /\ Suggestion(p) = 0 => 50 * p >= MaxLossPct * InitialCapital * Unit
    BY <1>3, SuggestionFits
  <2>3. ~OverExposed(n + Suggestion(p), p)
    <3>1. n + Suggestion(p) \in Nat /\ n + qty \in Nat /\ n + Suggestion(p) <= n + qty
      BY <2>2
    <3>2. QED BY <1>3, <3>1, ExposureGrows
  <2> HIDE DEF v
  <2>4. v.allowed = FALSE /\ v.suggested = Suggestion(p) /\ v \in Ruling
    BY <2>1, <2>2 DEF Ruling
  <2>5. QED BY <1>3, <2>2, <2>3, <2>4 DEF v
<1>4. CASE ~DrawdownReached(c) /\ ~OverExposed(n + qty, p) /\ ~OverLossLimit(qty, p)
  <2>1. v = [allowed |-> TRUE, suggested |-> qty]
    BY <1>4 DEF CheckTrade, Verdict
  <2>2. QED BY <1>4, <2>1 DEF Ruling
<1>5. QED BY <1>1, <1>2, <1>3, <1>4

-----------------------------------------------------------------------------
(* What the variables are.                                                 *)

LEMMA ScenarioFacts ==
    ASSUME TradingAssumption, GateAssumption, TypeOK
    PROVE  /\ price \in Nat /\ capital \in Nat /\ position \in Nat /\ position * Unit \in Nat
           /\ Unit \in Nat \ {0} /\ InitialCapital \in Nat
           /\ scenario.quantities \subseteq Nat \ {0} /\ scenario.entries \subseteq Nat
           /\ scenario.types \subseteq {"market", "limit"} /\ scenario.disciplined \in BOOLEAN
           /\ \A z \in scenario.sizings :
                 \/ z.method = "fixed_fractional" /\ z.riskPct \in Nat
                 \/ /\ z.method = "kelly" /\ z.win \in 0..100
                    /\ z.avgWin \in Nat \ {0} /\ z.avgLoss \in Nat
<1>1. scenario \in Scenarios /\ price \in scenario.prices /\ capital \in scenario.capitals
      /\ position \in Nat
  BY DEF TypeOK
<1>2. Unit \in Nat \ {0} /\ InitialCapital \in Nat
  BY DEF GateAssumption
<1>3. position * Unit \in Nat
  BY <1>1, <1>2
<1>4. QED BY <1>1, <1>2, <1>3 DEF TradingAssumption

LEMMA AgentFacts ==
    ASSUME TypeOK, NEW a \in Agents
    PROVE  /\ known[a] # Unread => known[a] \in Read
           /\ asked[a] # None => asked[a] \in Checked
           /\ sized[a] # None => sized[a] \in Advice
           /\ sized[a].qty \in Nat
<1>1. /\ known[a] \in Read \cup {Unread} /\ asked[a] \in Checked \cup {None}
      /\ sized[a] \in Advice \cup {None}
  BY DEF TypeOK
<1>2. None.qty = 0 /\ \A z \in Advice : z.qty \in Nat
  BY DEF None, Advice
<1>3. QED BY <1>1, <1>2

LEMMA WantedFacts ==
    ASSUME TradingAssumption, GateAssumption, TypeOK, NEW a \in Agents, NEW qty \in Wanted(a)
    PROVE  /\ qty \in Nat \ {0} /\ Size(qty) \in Nat /\ Size(qty) * Unit <= qty
<1>1. qty \in Nat \ {0}
  BY ScenarioFacts, AgentFacts DEF Wanted
<1>2. Unit \in Nat \ {0}
  BY DEF GateAssumption
<1> DEFINE q == qty \div Unit
           r == qty % Unit
<1>3. q \in Nat /\ r \in 0..(Unit - 1) /\ qty = Unit * q + r
  BY <1>1, <1>2
<1> HIDE DEF q, r
<1>4. Unit * q = q * Unit /\ q * Unit \in Nat
  BY <1>2, <1>3
<1>5. QED BY <1>1, <1>3, <1>4 DEF Size, q

LEMMA CallFacts ==
    ASSUME TypeOK, NEW i \in DOMAIN calls
    PROVE  /\ calls[i] \in Call /\ calls[i].agent \in Agents
           /\ calls[i].answered \in BOOLEAN /\ calls[i].simulated \in BOOLEAN
           /\ IsOrder(i) => calls[i] \in PlaceCall
           /\ ~IsOrder(i) => calls[i] \in CancelCall
<1>1. calls[i] \in Call
  BY DEF TypeOK, CallsOK
<1>2. QED BY <1>1 DEF Call, PlaceCall, CancelCall, IsOrder

-----------------------------------------------------------------------------
(* What a step does to the calls.                                          *)

\* What is fixed when a call is made.
Same(c, d) ==
    /\ d.op = c.op /\ d.agent = c.agent
    /\ c.op = "place" =>
          d.type = c.type /\ d.qty = c.qty /\ d.size = c.size /\ d.informed = c.informed
    /\ c.op = "cancel" => d.target = c.target

LEMMA StateOfRecord ==
    ASSUME NEW c \in Call, NEW st,
           c \in PlaceCall => st \in {"sent", "rejected", "open", "filled", "cancelled"},
           c \in CancelCall => st \in {"sent", "rejected", "accepted"}
    PROVE  /\ [c EXCEPT !.state = st] \in Call /\ Same(c, [c EXCEPT !.state = st])
           /\ [c EXCEPT !.state = st].state = st
           /\ [c EXCEPT !.state = st].answered = c.answered
           /\ [c EXCEPT !.state = st].simulated = c.simulated
<1>1. CASE c \in PlaceCall
  BY <1>1 DEF Call, PlaceCall, Same
<1>2. CASE c \in CancelCall
  BY <1>2 DEF Call, CancelCall, Same
<1>3. QED BY <1>1, <1>2 DEF Call

LEMMA AnswerOfRecord ==
    ASSUME NEW c \in Call, NEW si \in BOOLEAN
    PROVE  /\ [c EXCEPT !.answered = TRUE, !.simulated = si] \in Call
           /\ Same(c, [c EXCEPT !.answered = TRUE, !.simulated = si])
           /\ [c EXCEPT !.answered = TRUE, !.simulated = si].state = c.state
           /\ [c EXCEPT !.answered = TRUE, !.simulated = si].answered = TRUE
           /\ [c EXCEPT !.answered = TRUE, !.simulated = si].simulated = si
<1>1. CASE c \in PlaceCall
  BY <1>1 DEF Call, PlaceCall, Same
<1>2. CASE c \in CancelCall
  BY <1>2 DEF Call, CancelCall, Same
<1>3. QED BY <1>1, <1>2 DEF Call

\* Call i becomes c.
LEMMA Replaced ==
    ASSUME NEW i \in DOMAIN calls, calls \in Seq(Call), NEW c \in Call,
           calls' = [calls EXCEPT ![i] = c]
    PROVE  /\ calls' \in Seq(Call) /\ DOMAIN calls' = DOMAIN calls /\ calls'[i] = c
           /\ \A j \in DOMAIN calls : j # i => calls'[j] = calls[j]
<1>1. \A j \in 1 .. Len(calls) : calls[j] \in Call
  OBVIOUS
<1>2. DOMAIN calls = 1 .. Len(calls) /\ Len(calls) \in Nat
  OBVIOUS
<1>3. calls' \in [1 .. Len(calls) -> Call]
  BY <1>1, <1>2
<1>4. QED BY <1>2, <1>3

\* No call is made, and what is fixed stays.
Kept == /\ calls' \in Seq(Call) /\ DOMAIN calls' = DOMAIN calls
        /\ \A j \in DOMAIN calls : Same(calls[j], calls'[j])

Alone(i) == Kept /\ \A j \in DOMAIN calls : j # i => calls'[j] = calls[j]

Others == UNCHANGED <<scenario, price, capital, known, sized, asked>>

LEMMA StateChange ==
    ASSUME TypeOK, NEW i \in DOMAIN calls, NEW st,
           IsOrder(i) => st \in {"sent", "rejected", "open", "filled", "cancelled"},
           ~IsOrder(i) => st \in {"sent", "rejected", "accepted"},
           calls' = [calls EXCEPT ![i].state = st]
    PROVE  /\ Alone(i) /\ calls'[i].state = st
           /\ calls'[i].answered = calls[i].answered /\ calls'[i].simulated = calls[i].simulated
<1> DEFINE c == calls[i]
           d == [c EXCEPT !.state = st]
<1>1. /\ c \in Call /\ (IsOrder(i) => c \in PlaceCall) /\ (~IsOrder(i) => c \in CancelCall)
      /\ calls \in Seq(Call)
  BY CallFacts DEF TypeOK, CallsOK
<1>2. (c \in PlaceCall => IsOrder(i)) /\ (c \in CancelCall => ~IsOrder(i))
  BY DEF PlaceCall, CancelCall, IsOrder
<1>3. /\ d \in Call /\ Same(c, d) /\ d.state = st
      /\ d.answered = c.answered /\ d.simulated = c.simulated
  <2>1. /\ c \in PlaceCall => st \in {"sent", "rejected", "open", "filled", "cancelled"}
        /\ c \in CancelCall => st \in {"sent", "rejected", "accepted"}
    BY <1>2
  <2> HIDE DEF c
  <2>2. QED BY <1>1, <2>1, StateOfRecord
<1>4. calls' = [calls EXCEPT ![i] = d]
  OBVIOUS
<1> HIDE DEF c, d
<1>5. /\ calls' \in Seq(Call) /\ DOMAIN calls' = DOMAIN calls /\ calls'[i] = d
      /\ \A j \in DOMAIN calls : j # i => calls'[j] = calls[j]
  BY <1>1, <1>3, <1>4, Replaced
<1>6. \A j \in DOMAIN calls : Same(calls[j], calls'[j])
  <2>1. \A e : Same(e, e)
    BY DEF Same
  <2>2. Same(calls[i], calls'[i])
    BY <1>3, <1>5 DEF c
  <2>3. QED BY <1>5, <2>1, <2>2
<1>7. QED BY <1>3, <1>5, <1>6 DEF Alone, Kept, c

LEMMA AnswerChange ==
    ASSUME TypeOK, NEW i \in DOMAIN calls, NEW si \in BOOLEAN,
           calls' = [calls EXCEPT ![i].answered = TRUE, ![i].simulated = si]
    PROVE  /\ Alone(i) /\ calls'[i].state = calls[i].state
           /\ calls'[i].answered = TRUE /\ calls'[i].simulated = si
<1> DEFINE c == calls[i]
           d == [c EXCEPT !.answered = TRUE, !.simulated = si]
<1>1. /\ c \in Call /\ (IsOrder(i) => c \in PlaceCall) /\ (~IsOrder(i) => c \in CancelCall)
      /\ calls \in Seq(Call)
  BY CallFacts DEF TypeOK, CallsOK
<1>3. /\ d \in Call /\ Same(c, d) /\ d.state = c.state
      /\ d.answered = TRUE /\ d.simulated = si
  <2> HIDE DEF c
  <2>1. QED BY <1>1, AnswerOfRecord
<1>4. calls' = [calls EXCEPT ![i] = d]
  OBVIOUS
<1> HIDE DEF c, d
<1>5. /\ calls' \in Seq(Call) /\ DOMAIN calls' = DOMAIN calls /\ calls'[i] = d
      /\ \A j \in DOMAIN calls : j # i => calls'[j] = calls[j]
  BY <1>1, <1>3, <1>4, Replaced
<1>6. \A j \in DOMAIN calls : Same(calls[j], calls'[j])
  <2>1. \A e : Same(e, e)
    BY DEF Same
  <2>2. Same(calls[i], calls'[i])
    BY <1>3, <1>5 DEF c
  <2>3. QED BY <1>5, <2>1, <2>2
<1>7. QED BY <1>3, <1>5, <1>6 DEF Alone, Kept, c

\* What every step that makes no call leaves true of a call.
Good(j) ==
    /\ calls[j].answered => calls'[j].answered
    /\ calls[j].simulated => calls'[j].simulated
    /\ IsOrder(j) /\ calls'[j].state \in {"open", "cancelled"} => calls[j].type = "limit"
    /\ \A st \in {"filled", "cancelled"} :
          IsOrder(j) /\ calls[j].state = st => calls'[j].state = st
    /\ calls'[j].simulated => calls'[j].answered
    /\ calls'[j].answered /\ ~calls'[j].simulated =>
          IF IsOrder(j) THEN calls'[j].state \in {"open", "filled", "cancelled"}
          ELSE calls'[j].state = "accepted"
    /\ ~IsOrder(j) /\ calls'[j].state = "accepted" =>
          \/ calls[j].state = "accepted"
          \/ calls'[calls[j].target].state = "cancelled"

\* A call that does not change is good.
LEMMA UnchangedIsGood ==
    ASSUME TypeOK, AnswersInv, NEW j \in DOMAIN calls, calls'[j] = calls[j]
    PROVE  Good(j)
<1>1. IsOrder(j) /\ calls[j].state \in {"open", "cancelled"} => calls[j].type = "limit"
  BY DEF TypeOK, CallsOK
<1>2. QED BY <1>1 DEF Good, AnswersInv

LEMMA SameOrder ==
    ASSUME TypeOK, Kept, NEW j \in DOMAIN calls
    PROVE  /\ IsOrder(j)' <=> IsOrder(j)
           /\ calls'[j].agent = calls[j].agent
           /\ IsOrder(j) => /\ calls'[j].type = calls[j].type /\ calls'[j].qty = calls[j].qty
                            /\ calls'[j].size = calls[j].size
                            /\ calls'[j].informed = calls[j].informed
           /\ ~IsOrder(j) => calls'[j].target = calls[j].target
<1>1. calls[j].op \in {"place", "cancel"}
  BY CallFacts DEF Call, PlaceCall, CancelCall
<1>2. QED BY <1>1 DEF Kept, Same, IsOrder

LEMMA GoodStep ==
    ASSUME TypeOK, AnswersInv, OneAtATime, Kept, scenario' = scenario,
           \A j \in DOMAIN calls : Good(j)
    PROVE  CallsOK' /\ AnswersInv' /\ OneAtATime' /\ (MadeUp => MadeUp')
<1>1. calls' \in Seq(Call) /\ DOMAIN calls' = DOMAIN calls
  BY DEF Kept
<1>2. CallsOK'
  <2>1. ASSUME NEW i \in DOMAIN calls
        PROVE  (IF IsOrder(i)
                THEN /\ calls[i].size * Unit <= calls[i].qty /\ calls[i].type \in scenario.types
                     /\ calls[i].state \in {"open", "cancelled"} => calls[i].type = "limit"
                ELSE calls[i].target \in DOMAIN calls /\ IsOrder(calls[i].target))'
    <3>1. CASE IsOrder(i)
      <4>1. calls[i].size * Unit <= calls[i].qty /\ calls[i].type \in scenario.types
        BY <3>1 DEF TypeOK, CallsOK
      <4>2. QED BY <3>1, <4>1, SameOrder DEF Good
    <3>2. CASE ~IsOrder(i)
      <4>1. calls[i].target \in DOMAIN calls /\ IsOrder(calls[i].target)
        BY <3>2 DEF TypeOK, CallsOK
      <4>2. IsOrder(calls[i].target)'
        BY <3>2, <4>1, SameOrder DEF IsOrder
      <4>3. QED BY <1>1, <3>2, <4>1, <4>2, SameOrder
    <3>3. QED BY <3>1, <3>2
  <2>2. QED BY <1>1, <2>1 DEF CallsOK
<1>3. AnswersInv'
  <2>1. ASSUME NEW i \in DOMAIN calls
        PROVE  /\ calls'[i].simulated => calls'[i].answered
               /\ calls'[i].answered /\ ~calls'[i].simulated =>
                     IF IsOrder(i)' THEN calls'[i].state \in {"open", "filled", "cancelled"}
                     ELSE calls'[i].state = "accepted"
               /\ ~IsOrder(i)' /\ calls'[i].state = "accepted" =>
                     calls'[calls'[i].target].state = "cancelled"
    <3>1. Good(i) /\ (IsOrder(i)' <=> IsOrder(i))
      BY SameOrder
    <3>2. ASSUME ~IsOrder(i), calls'[i].state = "accepted"
          PROVE  calls'[calls'[i].target].state = "cancelled"
      <4>1. /\ calls'[i].target = calls[i].target
            /\ calls[i].target \in DOMAIN calls /\ IsOrder(calls[i].target)
        BY <3>2, SameOrder DEF TypeOK, CallsOK
      <4>2. calls[i].state = "accepted" => calls[calls[i].target].state = "cancelled"
        BY <3>2 DEF AnswersInv
      <4>3. QED BY <3>1, <3>2, <4>1, <4>2 DEF Good
    <3>3. QED BY <3>1, <3>2 DEF Good
  <2>2. QED BY <1>1, <2>1 DEF AnswersInv, IsOrder
<1>4. OneAtATime'
  BY <1>1, SameOrder DEF OneAtATime, Good
<1>5. ASSUME MadeUp PROVE MadeUp'
  <2>1. PICK i \in DOMAIN calls : /\ IsOrder(i) /\ calls[i].state = "filled"
                                  /\ calls[i].simulated \/ ~calls[i].informed
    BY <1>5 DEF MadeUp, Filled
  <2>2. /\ IsOrder(i)' /\ calls'[i].state = "filled" /\ i \in DOMAIN calls'
        /\ calls'[i].simulated \/ ~calls'[i].informed
    BY <1>1, <2>1, SameOrder DEF Good
  <2>3. QED BY <2>2 DEF MadeUp, Filled
<1>6. QED BY <1>2, <1>3, <1>4, <1>5

LEMMA AloneIsGood ==
    ASSUME TypeOK, AnswersInv, NEW i \in DOMAIN calls, Alone(i), Good(i)
    PROVE  Kept /\ \A j \in DOMAIN calls : Good(j)
BY UnchangedIsGood DEF Alone

LEMMA ReplyIsGood ==
    ASSUME TypeOK, AnswersInv, NEW i \in DOMAIN calls, Reply(i)
    PROVE  Kept /\ \A j \in DOMAIN calls : Good(j)
<1> DEFINE si == calls[i].state = "rejected"
<1>1. si \in BOOLEAN /\ calls' = [calls EXCEPT ![i].answered = TRUE, ![i].simulated = si]
  BY DEF Reply
<1>2. (si => calls[i].state = "rejected") /\ (~si => calls[i].state # "rejected")
  OBVIOUS
<1> HIDE DEF si
<1>3. /\ Alone(i) /\ calls'[i].state = calls[i].state
      /\ calls'[i].answered = TRUE /\ calls'[i].simulated = si
  BY <1>1, AnswerChange
<1>4. calls[i].answered = FALSE /\ calls[i].state # "sent"
  BY CallFacts DEF Reply
<1>5. calls[i].simulated = FALSE
  BY <1>4, CallFacts DEF AnswersInv
<1>6. /\ IsOrder(i) => calls[i].state \in {"sent", "rejected", "open", "filled", "cancelled"}
      /\ ~IsOrder(i) => calls[i].state \in {"sent", "rejected", "accepted"}
  BY CallFacts DEF PlaceCall, CancelCall
<1>7. IsOrder(i) /\ calls[i].state \in {"open", "cancelled"} => calls[i].type = "limit"
  BY DEF TypeOK, CallsOK
<1>8. Good(i)
  BY <1>2, <1>3, <1>4, <1>5, <1>6, <1>7 DEF Good
<1>9. QED BY <1>3, <1>8, AloneIsGood

LEMMA TimesOutIsGood ==
    ASSUME TypeOK, AnswersInv, NEW i \in DOMAIN calls, TimesOut(i)
    PROVE  Kept /\ \A j \in DOMAIN calls : Good(j)
<1>1. calls' = [calls EXCEPT ![i].answered = TRUE, ![i].simulated = TRUE]
  BY DEF TimesOut
<1>2. /\ Alone(i) /\ calls'[i].state = calls[i].state
      /\ calls'[i].answered = TRUE /\ calls'[i].simulated = TRUE
  BY <1>1, AnswerChange, TRUE \in BOOLEAN
<1>3. IsOrder(i) /\ calls[i].state \in {"open", "cancelled"} => calls[i].type = "limit"
  BY DEF TypeOK, CallsOK
<1>4. Good(i)
  BY <1>2, <1>3 DEF Good
<1>5. QED BY <1>2, <1>4, AloneIsGood

\* The exchange changes the state of a call, and only from "sent" or "open".
StateOnly(i) ==
    Alone(i) /\ calls'[i].answered = calls[i].answered /\ calls'[i].simulated = calls[i].simulated

LEMMA StateIsGood ==
    ASSUME TypeOK, AnswersInv, NEW i \in DOMAIN calls, StateOnly(i),
           calls[i].state \in {"sent", "open"},
           calls'[i].state \in {"rejected", "open", "filled"},
           calls'[i].state = "rejected" => calls[i].state = "sent",
           calls'[i].state # "rejected" => IsOrder(i),
           calls'[i].state = "open" => calls[i].type = "limit"
    PROVE  Kept /\ \A j \in DOMAIN calls : Good(j)
<1>1. /\ calls[i].simulated => calls[i].answered
      /\ calls[i].answered /\ ~calls[i].simulated =>
            /\ IsOrder(i) => calls[i].state \in {"open", "filled", "cancelled"}
            /\ ~IsOrder(i) => calls[i].state = "accepted"
  BY DEF AnswersInv
<1>2. Good(i)
  BY <1>1 DEF Good, StateOnly
<1>3. QED BY <1>2, AloneIsGood DEF StateOnly

LEMMA AcceptIsGood ==
    ASSUME TypeOK, AnswersInv, NEW i \in DOMAIN calls, Accept(i)
    PROVE  /\ Kept /\ \A j \in DOMAIN calls : Good(j)
           /\ StateOnly(i) /\ calls'[i].state \in {"open", "filled"}
<1>1. IsOrder(i) /\ calls[i].state = "sent" /\ calls[i].type \in {"market", "limit"}
  BY CallFacts DEF Accept, PlaceCall
<1>2. /\ StateOnly(i) /\ calls'[i].state \in {"open", "filled"}
      /\ calls'[i].state = "open" => calls[i].type = "limit"
  <2>1. CASE calls[i].type = "market"
    <3>1. calls' = [calls EXCEPT ![i].state = "filled"]
      BY <2>1 DEF Accept
    <3>2. /\ Alone(i) /\ calls'[i].state = "filled"
          /\ calls'[i].answered = calls[i].answered /\ calls'[i].simulated = calls[i].simulated
      BY <1>1, <3>1, StateChange
    <3>3. QED BY <3>2 DEF StateOnly
  <2>2. CASE calls[i].type = "limit"
    <3>1. calls' = [calls EXCEPT ![i].state = "open"]
      BY <2>2 DEF Accept
    <3>2. /\ Alone(i) /\ calls'[i].state = "open"
          /\ calls'[i].answered = calls[i].answered /\ calls'[i].simulated = calls[i].simulated
      BY <1>1, <3>1, StateChange
    <3>3. QED BY <2>2, <3>2 DEF StateOnly
  <2>3. QED BY <1>1, <2>1, <2>2
<1>3. QED BY <1>1, <1>2, StateIsGood

LEMMA RejectIsGood ==
    ASSUME TypeOK, AnswersInv, NEW i \in DOMAIN calls, Reject(i)
    PROVE  Kept /\ \A j \in DOMAIN calls : Good(j)
<1>1. calls[i].state = "sent" /\ calls' = [calls EXCEPT ![i].state = "rejected"]
  BY DEF Reject
<1>2. StateOnly(i) /\ calls'[i].state = "rejected"
  BY <1>1, StateChange DEF StateOnly
<1>3. QED BY <1>1, <1>2, StateIsGood

LEMMA FillIsGood ==
    ASSUME TypeOK, AnswersInv, NEW i \in DOMAIN calls, Fill(i)
    PROVE  Kept /\ \A j \in DOMAIN calls : Good(j)
<1>1. /\ IsOrder(i) /\ calls[i].state = "open"
      /\ calls' = [calls EXCEPT ![i].state = "filled"]
  BY DEF Fill
<1>2. StateOnly(i) /\ calls'[i].state = "filled"
  BY <1>1, StateChange DEF StateOnly
<1>3. QED BY <1>1, <1>2, StateIsGood

LEMMA CancelIsGood ==
    ASSUME TypeOK, AnswersInv, NEW i \in DOMAIN calls, CancelAccepted(i)
    PROVE  Kept /\ \A j \in DOMAIN calls : Good(j)
<1> DEFINE t == calls[i].target
           c == [calls[i] EXCEPT !.state = "accepted"]
           d == [calls[t] EXCEPT !.state = "cancelled"]
<1>1. /\ ~IsOrder(i) /\ calls[i].state = "sent" /\ calls[t].state = "open"
      /\ t \in DOMAIN calls /\ IsOrder(t) /\ i # t
  BY DEF CancelAccepted, TypeOK, CallsOK
<1>2. calls[i] \in CancelCall /\ calls[t] \in PlaceCall /\ calls \in Seq(Call)
  BY <1>1, CallFacts DEF TypeOK, CallsOK
<1>3. /\ c \in Call /\ Same(calls[i], c) /\ c.state = "accepted"
      /\ c.answered = calls[i].answered /\ c.simulated = calls[i].simulated
  BY <1>2 DEF Call, CancelCall, Same
<1>4. /\ d \in Call /\ Same(calls[t], d) /\ d.state = "cancelled"
      /\ d.answered = calls[t].answered /\ d.simulated = calls[t].simulated
  BY <1>2 DEF Call, PlaceCall, Same
<1>5. calls' = [[calls EXCEPT ![i] = c] EXCEPT ![t] = d]
  BY <1>1 DEF CancelAccepted
<1> HIDE DEF t, c, d
<1>6. /\ calls' \in Seq(Call) /\ DOMAIN calls' = DOMAIN calls /\ calls'[i] = c /\ calls'[t] = d
      /\ \A j \in DOMAIN calls : j # i /\ j # t => calls'[j] = calls[j]
  <2>1. \A j \in 1 .. Len(calls) : calls[j] \in Call
    BY <1>2
  <2>2. DOMAIN calls = 1 .. Len(calls) /\ Len(calls) \in Nat
    BY <1>2
  <2> DEFINE f == [calls EXCEPT ![i] = c]
  <2>3. /\ f \in [1 .. Len(calls) -> Call] /\ f[i] = c
        /\ \A j \in DOMAIN calls : j # i => f[j] = calls[j]
    BY <1>1, <1>3, <2>1, <2>2
  <2>4. calls' = [f EXCEPT ![t] = d] /\ i \in 1 .. Len(calls) /\ t \in 1 .. Len(calls) /\ i # t
    BY <1>1, <1>5, <2>2
  <2> HIDE DEF f
  <2>5. /\ calls' \in [1 .. Len(calls) -> Call] /\ calls'[t] = d
        /\ \A j \in 1 .. Len(calls) : j # t => calls'[j] = f[j]
    BY <1>4, <2>3, <2>4
  <2>6. DOMAIN calls' = 1 .. Len(calls) /\ calls' \in Seq(Call)
    BY <2>2, <2>5
  <2>7. QED BY <2>2, <2>3, <2>4, <2>5, <2>6
<1>7. Kept
  <2>1. \A e : Same(e, e)
    BY DEF Same
  <2>2. Same(calls[i], calls'[i]) /\ Same(calls[t], calls'[t])
    BY <1>3, <1>4, <1>6
  <2>3. \A j \in DOMAIN calls : Same(calls[j], calls'[j])
    BY <1>6, <2>1, <2>2
  <2>4. QED BY <1>6, <2>3 DEF Kept
<1>8. Good(i)
  <2>1. calls[i].answered => calls[i].simulated
    BY <1>1 DEF AnswersInv
  <2>2. calls[i].simulated => calls[i].answered
    BY DEF AnswersInv
  <2>3. calls[i].target = t
    BY DEF t
  <2>4. calls'[i].state = "accepted" /\ calls'[t].state = "cancelled"
    BY <1>3, <1>4, <1>6
  <2>5. calls'[i].answered = calls[i].answered /\ calls'[i].simulated = calls[i].simulated
    BY <1>3, <1>6
  <2>6. /\ calls'[i].answered => calls'[i].simulated
        /\ calls'[i].simulated => calls'[i].answered
    BY <2>1, <2>2, <2>5
  <2>7. calls'[calls[i].target].state = "cancelled"
    BY <2>3, <2>4
  <2>8. QED BY <1>1, <2>4, <2>5, <2>6, <2>7 DEF Good
<1>9. Good(t)
  <2>1. calls[t].type = "limit" /\ (calls[t].simulated => calls[t].answered)
    BY <1>1 DEF TypeOK, CallsOK, AnswersInv
  <2>2. QED BY <1>1, <1>4, <1>6, <2>1 DEF Good
<1>10. QED BY <1>6, <1>7, <1>8, <1>9, UnchangedIsGood

-----------------------------------------------------------------------------
(* A new call.                                                             *)

Fresh == Len(calls) + 1

AddsCall(c) ==
    /\ c \in Call /\ calls' \in Seq(Call)
    /\ DOMAIN calls' = DOMAIN calls \cup {Fresh} /\ Fresh \notin DOMAIN calls
    /\ calls'[Fresh] = c /\ \A j \in DOMAIN calls : calls'[j] = calls[j]

\* A call that has just left for the exchange.
JustSent(c, a) ==
    c.state = "sent" /\ c.agent = a /\ c.answered = FALSE /\ c.simulated = FALSE

LEMMA AddedCall ==
    ASSUME TypeOK, NEW c \in Call, calls' = Append(calls, c)
    PROVE  AddsCall(c)
<1>1. calls \in Seq(Call)
  BY DEF TypeOK, CallsOK
<1>2. /\ calls' \in Seq(Call) /\ Len(calls') = Len(calls) + 1
      /\ calls'[Len(calls) + 1] = c
      /\ \A j \in 1 .. Len(calls) : calls'[j] = calls[j]
  BY <1>1, AppendProperties
<1>3. /\ DOMAIN calls = 1 .. Len(calls) /\ DOMAIN calls' = 1 .. Len(calls')
      /\ Len(calls) \in Nat
  BY <1>1, <1>2
<1>4. QED BY <1>2, <1>3 DEF AddsCall, Fresh

LEMMA AddStep ==
    ASSUME TypeOK, AnswersInv, OneAtATime, NEW c, AddsCall(c), scenario' = scenario,
           NEW a \in Agents, JustSent(c, a), ~Waiting(a),
           c.op = "place" => c.size * Unit <= c.qty /\ c.type \in scenario.types,
           c.op # "place" => c.target \in DOMAIN calls /\ IsOrder(c.target)
    PROVE  CallsOK' /\ AnswersInv' /\ OneAtATime' /\ (MadeUp => MadeUp')
<1>1. /\ calls' \in Seq(Call) /\ calls'[Fresh] = c
      /\ DOMAIN calls' = DOMAIN calls \cup {Fresh} /\ Fresh \notin DOMAIN calls
      /\ \A j \in DOMAIN calls : calls'[j] = calls[j]
  BY DEF AddsCall
<1> DEFINE n == Fresh
<1> HIDE DEF n
<1>2. \A j \in DOMAIN calls : IsOrder(j)' <=> IsOrder(j)
  BY <1>1 DEF IsOrder
<1>3. CallsOK'
  <2>1. ASSUME NEW i \in DOMAIN calls'
        PROVE  IF calls'[i].op = "place"
               THEN /\ calls'[i].size * Unit <= calls'[i].qty
                    /\ calls'[i].type \in scenario'.types
                    /\ calls'[i].state \in {"open", "cancelled"} => calls'[i].type = "limit"
               ELSE /\ calls'[i].target \in DOMAIN calls'
                    /\ calls'[calls'[i].target].op = "place"
    <3>1. CASE i \in DOMAIN calls
      <4>1. IF IsOrder(i)
            THEN /\ calls[i].size * Unit <= calls[i].qty /\ calls[i].type \in scenario.types
                 /\ calls[i].state \in {"open", "cancelled"} => calls[i].type = "limit"
            ELSE calls[i].target \in DOMAIN calls /\ IsOrder(calls[i].target)
        BY <3>1 DEF TypeOK, CallsOK
      <4>2. calls'[i] = calls[i]
        BY <1>1, <3>1
      <4>3. CASE IsOrder(i)
        BY <4>1, <4>2, <4>3 DEF IsOrder
      <4>4. CASE ~IsOrder(i)
        BY <1>1, <4>1, <4>2, <4>4 DEF IsOrder
      <4>5. QED BY <4>3, <4>4
    <3>2. CASE i = Fresh
      <4>1. calls'[i] = c
        BY <1>1, <3>2
      <4>2. CASE c.op = "place"
        BY <4>1, <4>2 DEF JustSent
      <4>3. CASE c.op # "place"
        BY <1>1, <4>1, <4>3 DEF IsOrder
      <4>4. QED BY <4>2, <4>3
    <3>3. QED BY <1>1, <3>1, <3>2
  <2>2. QED BY <1>1, <2>1 DEF CallsOK, IsOrder
<1>4. AnswersInv'
  <2>1. ASSUME NEW i \in DOMAIN calls'
        PROVE  /\ calls'[i].simulated => calls'[i].answered
               /\ calls'[i].answered /\ ~calls'[i].simulated =>
                     IF IsOrder(i)' THEN calls'[i].state \in {"open", "filled", "cancelled"}
                     ELSE calls'[i].state = "accepted"
               /\ ~IsOrder(i)' /\ calls'[i].state = "accepted" =>
                     calls'[calls'[i].target].state = "cancelled"
    <3>1. CASE i \in DOMAIN calls
      <4>1. ~IsOrder(i) => calls[i].target \in DOMAIN calls
        BY <3>1 DEF TypeOK, CallsOK
      <4>2. QED BY <1>1, <1>2, <3>1, <4>1 DEF AnswersInv
    <3>2. CASE i = Fresh
      BY <1>1, <3>2 DEF JustSent
    <3>3. QED BY <1>1, <3>1, <3>2
  <2>2. QED BY <2>1 DEF AnswersInv, IsOrder
<1>5. OneAtATime'
  <2>1. \A j \in DOMAIN calls : calls[j].agent = c.agent => calls[j].answered
    BY DEF Waiting, JustSent
  <2>2. QED BY <1>1, <2>1 DEF OneAtATime
<1>6. ASSUME MadeUp PROVE MadeUp'
  <2>1. PICK i \in DOMAIN calls : /\ IsOrder(i) /\ calls[i].state = "filled"
                                  /\ calls[i].simulated \/ ~calls[i].informed
    BY <1>6 DEF MadeUp, Filled
  <2>2. /\ IsOrder(i)' /\ calls'[i].state = "filled" /\ i \in DOMAIN calls'
        /\ calls'[i].simulated \/ ~calls'[i].informed
    BY <1>1, <1>2, <2>1
  <2>3. QED BY <2>2 DEF MadeUp, Filled
<1>7. QED BY <1>3, <1>4, <1>5, <1>6

\* What an order or a cancel is when it leaves for the exchange.
LEMMA PlacedCall ==
    ASSUME TypeOK, TradingAssumption, GateAssumption, NEW a \in Agents,
           NEW qty \in Wanted(a), NEW type \in scenario.types, PlaceOrder(a, qty, type)
    PROVE  \E c \in PlaceCall :
              /\ AddsCall(c) /\ JustSent(c, a)
              /\ c.type = type /\ c.qty = qty /\ c.size = Size(qty)
              /\ c.informed => scenario.disciplined /\ asked[a].account.real
<1> DEFINE informed == scenario.disciplined /\ asked[a].account.real
           c == [op |-> "place", agent |-> a, type |-> type, qty |-> qty, size |-> Size(qty),
                 informed |-> informed, state |-> "sent", answered |-> FALSE,
                 simulated |-> FALSE]
<1>1. informed \in BOOLEAN /\ (informed => scenario.disciplined /\ asked[a].account.real)
  OBVIOUS
<1>2. calls' = Append(calls, c)
  BY DEF PlaceOrder
<1> HIDE DEF informed
<1>3. type \in {"market", "limit"} /\ qty \in Nat \ {0} /\ Size(qty) \in Nat
  BY ScenarioFacts, WantedFacts
<1>4. c \in PlaceCall
  BY <1>1, <1>3 DEF PlaceCall
<1>5. /\ JustSent(c, a)
      /\ c.type = type /\ c.qty = qty /\ c.size = Size(qty) /\ c.informed = informed
  BY DEF JustSent
<1> HIDE DEF c
<1>6. AddsCall(c)
  BY <1>2, <1>4, AddedCall DEF Call
<1>7. QED BY <1>1, <1>4, <1>5, <1>6

LEMMA CancelledCall ==
    ASSUME TypeOK, NEW a \in Agents, NEW i \in DOMAIN calls, CancelOrder(a, i)
    PROVE  \E c \in CancelCall :
              /\ AddsCall(c) /\ JustSent(c, a)
              /\ c.target = i
<1> DEFINE c == [op |-> "cancel", agent |-> a, target |-> i, state |-> "sent",
                 answered |-> FALSE, simulated |-> FALSE]
<1>1. i \in Nat
  BY DEF TypeOK, CallsOK
<1>2. calls' = Append(calls, c)
  BY DEF CancelOrder
<1>3. c \in CancelCall
  BY <1>1 DEF CancelCall
<1>4. JustSent(c, a) /\ c.target = i
  BY DEF JustSent
<1> HIDE DEF c
<1>5. AddsCall(c)
  BY <1>2, <1>3, AddedCall DEF Call
<1>6. QED BY <1>3, <1>4, <1>5

-----------------------------------------------------------------------------
(* The steps preserve the invariants.                                      *)

\* What the account, the gate and the sizing return has its type.
LEMMA AccountIsRead ==
    ASSUME TypeOK, TradingAssumption, GateAssumption,
           NEW balancesOk \in BOOLEAN, NEW positionsOk \in BOOLEAN
    PROVE  /\ Account(balancesOk, positionsOk) \in Read
           /\ Account(balancesOk, positionsOk).real =>
                 Account(balancesOk, positionsOk).position = position * Unit
<1>1. capital \in Nat /\ position * Unit \in Nat /\ InitialCapital \in Nat
  BY ScenarioFacts
<1> DEFINE r == balancesOk /\ positionsOk
<1>2. r \in BOOLEAN /\ (r => positionsOk)
  OBVIOUS
<1>3. Account(balancesOk, positionsOk) =
         [position |-> IF positionsOk THEN position * Unit ELSE 0,
          capital |-> IF balancesOk THEN capital ELSE InitialCapital, real |-> r]
  BY DEF Account
<1> HIDE DEF r
<1>4. QED BY <1>1, <1>2, <1>3 DEF Read

LEMMA SizingIsAdvice ==
    ASSUME TypeOK, TradingAssumption, GateAssumption,
           NEW a \in Agents, NEW sizing \in scenario.sizings, PositionSize(a, sizing)
    PROVE  /\ sized' \in [Agents -> Advice \cup {None}]
           /\ \A b \in Agents : b # a => sized'[b] = sized[b]
           /\ sized'[a].qty =
                 IF sized'[a].sizing.method = "kelly"
                 THEN KellySize(sized'[a].capital, sized'[a].price, sized'[a].sizing.win,
                                sized'[a].sizing.avgWin, sized'[a].sizing.avgLoss)
                 ELSE FixedFractionalSize(sized'[a].capital, sized'[a].price,
                                          sized'[a].sizing.riskPct)
<1> DEFINE k == known[a].capital
           q == IF sizing.method = "kelly"
                THEN KellySize(k, price, sizing.win, sizing.avgWin, sizing.avgLoss)
                ELSE FixedFractionalSize(k, price, sizing.riskPct)
           z == [qty |-> q, sizing |-> sizing, capital |-> k, price |-> price]
<1>1. k \in Nat /\ price \in Nat
  BY AgentFacts, ScenarioFacts DEF PositionSize, Read
<1>2. sized' = [sized EXCEPT ![a] = z]
  BY DEF PositionSize
<1> HIDE DEF k
<1>3. q \in Nat
  <2>1. CASE sizing.method = "kelly"
    <3>1. /\ sizing.win \in 0..100 /\ sizing.avgWin \in Nat \ {0} /\ sizing.avgLoss \in Nat
      BY <2>1, ScenarioFacts
    <3>2. KellySize(k, price, sizing.win, sizing.avgWin, sizing.avgLoss) \in Nat
      BY <1>1, <3>1, KellyFits
    <3>3. QED BY <2>1, <3>2
  <2>2. CASE sizing.method # "kelly"
    <3>1. sizing.riskPct \in Nat
      BY <2>2, ScenarioFacts
    <3>2. FixedFractionalSize(k, price, sizing.riskPct) \in Nat
      BY <1>1, <3>1, FixedFractionalFits
    <3>3. QED BY <2>2, <3>2
  <2>3. QED BY <2>1, <2>2
<1>4. z.qty = q /\ z.sizing = sizing /\ z.capital = k /\ z.price = price
  OBVIOUS
<1>5. sizing \in UNION {s.sizings : s \in Scenarios}
  BY DEF TypeOK
<1>6. z \in Advice
  <2> HIDE DEF q
  <2>1. QED BY <1>1, <1>3, <1>5 DEF Advice
<1>7. z.qty = IF z.sizing.method = "kelly"
              THEN KellySize(z.capital, z.price, z.sizing.win, z.sizing.avgWin, z.sizing.avgLoss)
              ELSE FixedFractionalSize(z.capital, z.price, z.sizing.riskPct)
  BY <1>4
<1> HIDE DEF z
<1>8. sized \in [Agents -> Advice \cup {None}]
  BY DEF TypeOK
<1>9. sized'[a] = z
  BY <1>2, <1>8
<1>10. QED BY <1>2, <1>6, <1>7, <1>8, <1>9

LEMMA CheckIsChecked ==
    ASSUME TypeOK, TradingAssumption, GateAssumption,
           NEW a \in Agents, NEW qty \in Wanted(a),
           NEW entry \in scenario.entries, RiskCheck(a, qty, entry)
    PROVE  /\ asked' \in [Agents -> Checked \cup {None}]
           /\ \A b \in Agents : b # a => asked'[b] = asked[b]
           /\ asked'[a].account = known[a] /\ (price > 0 => asked'[a].price = price)
           /\ asked'[a].verdict = CheckTrade(asked'[a].account.capital,
                 asked'[a].account.position, asked'[a].qty, asked'[a].price)
<1> DEFINE p == GatePrice(entry)
           v == CheckTrade(known[a].capital, known[a].position, qty, p)
           q == [qty |-> qty, price |-> p, account |-> known[a], verdict |-> v]
<1>1. /\ known[a] \in Read /\ qty \in Nat \ {0}
      /\ p \in Nat /\ (price > 0 => p = price)
  <2>1. known[a] \in Read /\ qty \in Nat \ {0}
    BY AgentFacts, WantedFacts DEF RiskCheck
  <2>2. price \in Nat /\ entry \in Nat
    BY ScenarioFacts
  <2>3. QED BY <2>1, <2>2 DEF GatePrice
<1>2. known[a].capital \in Nat /\ known[a].position \in Nat
  BY <1>1 DEF Read
<1>3. v \in Ruling
  BY <1>1, <1>2, GateFacts
<1>4. asked' = [asked EXCEPT ![a] = q]
  BY DEF RiskCheck
<1> HIDE DEF p
<1>5. q.qty = qty /\ q.price = p /\ q.account = known[a] /\ q.verdict = v
  OBVIOUS
<1>6. q.verdict = CheckTrade(q.account.capital, q.account.position, q.qty, q.price)
  OBVIOUS
<1>7. q \in Checked
  <2> HIDE DEF v
  <2>1. QED BY <1>1, <1>3 DEF Checked
<1> HIDE DEF q, v
<1>8. asked \in [Agents -> Checked \cup {None}]
  BY DEF TypeOK
<1>9. asked'[a] = q
  BY <1>4, <1>8
<1>10. QED BY <1>1, <1>4, <1>5, <1>6, <1>7, <1>8, <1>9

\* A step that makes no call and tells no agent anything.
LEMMA SilentStep ==
    ASSUME Core, CallsOK', AnswersInv', OneAtATime', position' \in Nat,
           scenario' = scenario, price' = price, capital' = capital,
           known' = known, sized' = sized, asked' = asked
    PROVE  Core'
<1>1. TypeOK'
  BY DEF Core, TypeOK
<1>2. AdviceInv'
  BY DEF Core, AdviceInv
<1>3. QED BY <1>1, <1>2 DEF Core

\* A step that makes no call leaves the calls and what is known of them.
LEMMA CallsStay ==
    ASSUME Core, calls' = calls, scenario' = scenario
    PROVE  CallsOK' /\ AnswersInv' /\ OneAtATime' /\ (MadeUp => MadeUp')
<1>1. CallsOK'
  BY DEF Core, TypeOK, CallsOK, IsOrder
<1>2. AnswersInv' /\ OneAtATime'
  BY DEF Core, AnswersInv, OneAtATime, IsOrder
<1>3. MadeUp => MadeUp'
  BY DEF MadeUp, Filled, IsOrder
<1>4. QED BY <1>1, <1>2, <1>3

LEMMA CoreInit ==
    ASSUME TradingAssumption, Init
    PROVE  Core
<1>1. calls = <<>> /\ DOMAIN calls = {} /\ calls \in Seq(Call)
  BY DEF Init
<1>2. TypeOK
  BY <1>1 DEF Init, TypeOK, CallsOK
<1>3. AdviceInv
  BY DEF Init, AdviceInv
<1>4. QED BY <1>1, <1>2, <1>3 DEF Core, AnswersInv, OneAtATime

LEMMA AgentKeepsCore ==
    ASSUME TradingAssumption, GateAssumption, Core, NEW a \in Agents, AgentStep(a)
    PROVE  Core' /\ (MadeUp => MadeUp')
<1>1. ASSUME ReadAccount(a) PROVE Core' /\ (MadeUp => MadeUp')
  <2>1. PICK balancesOk \in BOOLEAN, positionsOk \in BOOLEAN :
           known' = [known EXCEPT ![a] = Account(balancesOk, positionsOk)]
    BY <1>1 DEF ReadAccount
  <2>2. /\ asked' = [asked EXCEPT ![a] = None] /\ sized' = [sized EXCEPT ![a] = None]
        /\ scenario' = scenario /\ price' = price /\ capital' = capital
        /\ position' = position /\ calls' = calls
    BY <1>1 DEF ReadAccount
  <2>3. Account(balancesOk, positionsOk) \in Read
    BY AccountIsRead DEF Core
  <2>4. CallsOK' /\ AnswersInv' /\ OneAtATime' /\ (MadeUp => MadeUp')
    BY <2>2, CallsStay
  <2>5. TypeOK'
    BY <2>1, <2>2, <2>3, <2>4 DEF Core, TypeOK
  <2>6. AdviceInv'
    BY <2>2 DEF Core, TypeOK, AdviceInv
  <2>7. QED BY <2>4, <2>5, <2>6 DEF Core
<1>2. ASSUME NEW sizing \in scenario.sizings, PositionSize(a, sizing)
      PROVE  Core' /\ (MadeUp => MadeUp')
  <2>1. /\ scenario' = scenario /\ price' = price /\ capital' = capital
        /\ position' = position /\ known' = known /\ asked' = asked /\ calls' = calls
    BY <1>2 DEF PositionSize
  <2>2. CallsOK' /\ AnswersInv' /\ OneAtATime' /\ (MadeUp => MadeUp')
    BY <2>1, CallsStay
  <2>3. TypeOK'
    BY <1>2, <2>1, <2>2, SizingIsAdvice DEF Core, TypeOK
  <2>4. AdviceInv'
    BY <1>2, <2>1, SizingIsAdvice DEF Core, AdviceInv
  <2>5. QED BY <2>2, <2>3, <2>4 DEF Core
<1>3. ASSUME NEW qty \in Wanted(a), NEW entry \in scenario.entries, RiskCheck(a, qty, entry)
      PROVE  Core' /\ (MadeUp => MadeUp')
  <2>1. /\ scenario' = scenario /\ price' = price /\ capital' = capital
        /\ position' = position /\ known' = known /\ sized' = sized /\ calls' = calls
    BY <1>3 DEF RiskCheck
  <2>2. CallsOK' /\ AnswersInv' /\ OneAtATime' /\ (MadeUp => MadeUp')
    BY <2>1, CallsStay
  <2>3. TypeOK'
    BY <1>3, <2>1, <2>2, CheckIsChecked DEF Core, TypeOK
  <2>4. AdviceInv'
    BY <1>3, <2>1, CheckIsChecked DEF Core, AdviceInv
  <2>5. QED BY <2>2, <2>3, <2>4 DEF Core
<1>4. ASSUME NEW qty \in Wanted(a), NEW type \in scenario.types, PlaceOrder(a, qty, type)
      PROVE  Core' /\ (MadeUp => MadeUp')
  <2>1. PICK c \in PlaceCall :
           /\ AddsCall(c) /\ JustSent(c, a)
           /\ c.type = type /\ c.qty = qty /\ c.size = Size(qty)
           /\ c.informed => scenario.disciplined /\ asked[a].account.real
    <3>1. TypeOK
      BY DEF Core
    <3>2. QED BY <1>4, <3>1, PlacedCall
  <2>2. /\ scenario' = scenario /\ price' = price /\ capital' = capital
        /\ position' = position /\ known' = [known EXCEPT ![a] = Unread]
        /\ asked' = [asked EXCEPT ![a] = None] /\ sized' = [sized EXCEPT ![a] = None]
        /\ ~Waiting(a)
    BY <1>4 DEF PlaceOrder
  <2>3. c.op = "place" /\ c.size * Unit <= c.qty /\ c.type \in scenario.types
    BY <1>4, <2>1, WantedFacts DEF Core, PlaceCall
  <2>4. CallsOK' /\ AnswersInv' /\ OneAtATime' /\ (MadeUp => MadeUp')
    BY <2>1, <2>2, <2>3, AddStep DEF Core
  <2>5. TypeOK'
    BY <2>2, <2>4 DEF Core, TypeOK
  <2>6. AdviceInv'
    BY <2>2 DEF Core, TypeOK, AdviceInv
  <2>7. QED BY <2>4, <2>5, <2>6 DEF Core
<1>5. ASSUME NEW i \in DOMAIN calls, CancelOrder(a, i) PROVE Core' /\ (MadeUp => MadeUp')
  <2>1. PICK c \in CancelCall :
           AddsCall(c) /\ JustSent(c, a) /\ c.target = i
    <3>1. TypeOK
      BY DEF Core
    <3>2. QED BY <1>5, <3>1, CancelledCall
  <2>2. /\ scenario' = scenario /\ price' = price /\ capital' = capital
        /\ position' = position /\ known' = known /\ sized' = sized /\ asked' = asked
        /\ ~Waiting(a) /\ IsOrder(i)
    BY <1>5 DEF CancelOrder
  <2>3. c.op # "place"
    BY DEF CancelCall
  <2>4. CallsOK' /\ AnswersInv' /\ OneAtATime' /\ (MadeUp => MadeUp')
    BY <2>1, <2>2, <2>3, AddStep DEF Core
  <2>5. position' \in Nat
    BY <2>2 DEF Core, TypeOK
  <2>6. QED BY <2>2, <2>4, <2>5, SilentStep
<1>6. QED BY <1>1, <1>2, <1>3, <1>4, <1>5 DEF AgentStep, ToolPlace, ToolCancel

LEMMA CallKeepsCore ==
    ASSUME TradingAssumption, GateAssumption, Core, NEW i \in DOMAIN calls,
           Answer(i) \/ Exchange(i)
    PROVE  Core' /\ (MadeUp => MadeUp')
<1>1. Kept /\ \A j \in DOMAIN calls : Good(j)
  BY ReplyIsGood, TimesOutIsGood, AcceptIsGood, RejectIsGood, FillIsGood, CancelIsGood
     DEF Core, Answer, Exchange
<1>2. /\ scenario' = scenario /\ price' = price /\ capital' = capital
      /\ known' = known /\ sized' = sized /\ asked' = asked
  BY DEF Answer, Exchange, Reply, TimesOut, Accept, Reject, Fill, CancelAccepted
<1>3. CallsOK' /\ AnswersInv' /\ OneAtATime' /\ (MadeUp => MadeUp')
  BY <1>1, <1>2, GoodStep DEF Core
<1>4. position' \in Nat
  <2>1. position \in Nat /\ (IsOrder(i) => calls[i].size \in Nat)
    BY CallFacts DEF Core, TypeOK, PlaceCall
  <2>2. position' = position \/ (IsOrder(i) /\ position' = position + calls[i].size)
    <3>1. CASE Accept(i) \/ Fill(i)
      BY <3>1 DEF Accept, Fill
    <3>2. CASE ~(Accept(i) \/ Fill(i))
      BY <3>2 DEF Answer, Exchange, Reply, TimesOut, Reject, CancelAccepted
    <3>3. QED BY <3>1, <3>2
  <2>3. QED BY <2>1, <2>2
<1>5. QED BY <1>2, <1>3, <1>4, SilentStep

LEMMA MarketKeepsCore ==
    ASSUME Core, MarketMoves \/ CapitalMoves \/ UNCHANGED vars
    PROVE  Core' /\ (MadeUp => MadeUp')
<1>1. /\ scenario' = scenario /\ calls' = calls /\ position' = position
      /\ known' = known /\ sized' = sized /\ asked' = asked
      /\ price' \in scenario.prices /\ capital' \in scenario.capitals
  BY DEF MarketMoves, CapitalMoves, vars, Core, TypeOK
<1>2. CallsOK' /\ AnswersInv' /\ OneAtATime' /\ (MadeUp => MadeUp')
  BY <1>1, CallsStay
<1>3. TypeOK'
  BY <1>1, <1>2 DEF Core, TypeOK
<1>4. AdviceInv'
  BY <1>1 DEF Core, AdviceInv
<1>5. QED BY <1>2, <1>3, <1>4 DEF Core

LEMMA CoreStep ==
    ASSUME TradingAssumption, GateAssumption, Core, [Next]_vars
    PROVE  Core' /\ (MadeUp => MadeUp')
BY AgentKeepsCore, CallKeepsCore, MarketKeepsCore DEF Next

-----------------------------------------------------------------------------
(* The exposure of one asking agent.                                       *)

\* With one agent that only places market orders nothing is ever open: no
\* order is filled later, none is cancelled, and one answer is waited for.
LEMMA OneAgentFacts ==
    ASSUME Core, OneAskingAgent
    PROVE  /\ \A i \in DOMAIN calls : IsOrder(i) => calls[i].type = "market"
           /\ \A i \in DOMAIN calls : IsOrder(i) => calls[i].state # "open"
           /\ \A i, j \in DOMAIN calls : ~calls[i].answered /\ ~calls[j].answered => i = j
           /\ \A i \in DOMAIN calls, a \in Agents : ~calls[i].answered => Waiting(a)
           /\ \A a, b \in Agents : a = b
<1>1. \A a, b \in Agents : a = b
  BY DEF OneAskingAgent
<1>2. \A i \in DOMAIN calls : calls[i].agent \in Agents
  BY CallFacts DEF Core
<1>3. \A i \in DOMAIN calls : IsOrder(i) => calls[i].type = "market"
  BY DEF Core, TypeOK, CallsOK, OneAskingAgent
<1>4. \A i \in DOMAIN calls : IsOrder(i) => calls[i].state # "open"
  BY <1>3 DEF Core, TypeOK, CallsOK
<1>5. \A i, j \in DOMAIN calls : ~calls[i].answered /\ ~calls[j].answered => i = j
  BY <1>1, <1>2 DEF Core, OneAtATime
<1>6. \A i \in DOMAIN calls, a \in Agents : ~calls[i].answered => Waiting(a)
  BY <1>1, <1>2 DEF Waiting
<1>7. QED BY <1>1, <1>3, <1>4, <1>5, <1>6

LEMMA ExposureInit ==
    ASSUME TradingAssumption, GateAssumption, Init
    PROVE  InLimit
<1>1. Within(position)
  <2>1. Core
    BY CoreInit
  <2>2. price \in Nat /\ Unit \in Nat /\ position = 0
    BY <2>1, ScenarioFacts DEF Core, Init
  <2>3. MaxPositionPct * InitialCapital * Unit \in Nat
    BY DEF GateAssumption
  <2>4. 100 * (0 * Unit) * price = 0
    BY <2>2
  <2>5. QED BY <2>2, <2>3, <2>4 DEF Within, OverExposed
<1>2. QED BY <1>1 DEF Init, InLimit, Knows

\* The answers and rejections only take calls off their way.
LEMMA WithinStays ==
    ASSUME Core, InLimit, Kept, position' = position, price' = price,
           known' = known, asked' = asked,
           \A j \in DOMAIN calls :
              /\ calls'[j].state = "sent" => calls[j].state = "sent"
              /\ calls[j].answered => calls'[j].answered
    PROVE  InLimit'
<1>1. Within(position)'
  BY DEF InLimit, Within, OverExposed
<1>2. \A i \in DOMAIN calls' : OnItsWay(i)' => Within(position + calls[i].size)'
  <2>1. TAKE i \in DOMAIN calls'
  <2>2. HAVE OnItsWay(i)'
  <2>3. i \in DOMAIN calls
    BY DEF Kept
  <2>4. OnItsWay(i) /\ calls'[i].size = calls[i].size
    BY <2>2, <2>3, SameOrder DEF OnItsWay, Core
  <2>5. Within(position + calls[i].size)
    BY <2>3, <2>4 DEF InLimit
  <2>6. QED BY <2>4, <2>5 DEF Within
<1>3. \A a \in Agents : Waiting(a)' => Waiting(a)
  BY SameOrder DEF Kept, Waiting, Core
<1>4. \A a \in Agents : Knows(a)'
  BY <1>3 DEF InLimit, Knows
<1>5. QED BY <1>1, <1>2, <1>4 DEF InLimit

LEMMA CallKeepsExposure ==
    ASSUME TradingAssumption, GateAssumption, Core, OneAskingAgent, InLimit, ~MadeUp',
           NEW i \in DOMAIN calls, Answer(i) \/ Exchange(i)
    PROVE  InLimit'
<1> USE DEF Core
<1>1. CASE Reply(i)
  <2>1. Kept /\ \A j \in DOMAIN calls : Good(j)
    BY <1>1, ReplyIsGood
  <2>2. /\ position' = position /\ price' = price /\ known' = known /\ asked' = asked
        /\ calls' = [calls EXCEPT ![i].answered = TRUE,
                                  ![i].simulated = calls[i].state = "rejected"]
    BY <1>1 DEF Reply
  <2>3. \A j \in DOMAIN calls : calls'[j].state = calls[j].state
    <3> DEFINE si == calls[i].state = "rejected"
    <3>1. si \in BOOLEAN /\ calls' = [calls EXCEPT ![i].answered = TRUE, ![i].simulated = si]
      BY <2>2
    <3> HIDE DEF si
    <3>2. Alone(i) /\ calls'[i].state = calls[i].state
      BY <3>1, AnswerChange
    <3>3. QED BY <3>2 DEF Alone
  <2>4. QED BY <2>1, <2>2, <2>3, WithinStays DEF Good
<1>2. CASE TimesOut(i)
  <2>1. Kept /\ \A j \in DOMAIN calls : Good(j)
    BY <1>2, TimesOutIsGood
  <2>2. /\ position' = position /\ price' = price /\ known' = known /\ asked' = asked
        /\ calls' = [calls EXCEPT ![i].answered = TRUE, ![i].simulated = TRUE]
    BY <1>2 DEF TimesOut
  <2>3. \A j \in DOMAIN calls : calls'[j].state = calls[j].state
    <3>1. Alone(i) /\ calls'[i].state = calls[i].state
      BY <2>2, AnswerChange, TRUE \in BOOLEAN
    <3>2. QED BY <3>1 DEF Alone
  <2>4. QED BY <2>1, <2>2, <2>3, WithinStays DEF Good
<1>3. CASE Reject(i)
  <2>1. Kept /\ \A j \in DOMAIN calls : Good(j)
    BY <1>3, RejectIsGood
  <2>2. /\ position' = position /\ price' = price /\ known' = known /\ asked' = asked
        /\ calls[i].state = "sent" /\ calls' = [calls EXCEPT ![i].state = "rejected"]
    BY <1>3 DEF Reject
  <2>3. Alone(i) /\ calls'[i].state = "rejected"
    BY <2>2, StateChange
  <2>4. \A j \in DOMAIN calls : calls'[j].state = "sent" => calls[j].state = "sent"
    BY <2>3 DEF Alone
  <2>5. QED BY <2>1, <2>2, <2>4, WithinStays DEF Good
<1>4. CASE Accept(i)
  <2>1. /\ Kept /\ Alone(i)
        /\ calls'[i].answered = calls[i].answered /\ calls'[i].simulated = calls[i].simulated
    BY <1>4, AcceptIsGood DEF StateOnly
  <2>2. /\ IsOrder(i) /\ calls[i].state = "sent"
        /\ price' = price /\ known' = known /\ asked' = asked
        /\ position' = position + calls[i].size
        /\ calls' = [calls EXCEPT ![i].state = "filled"]
    BY <1>4, OneAgentFacts DEF Accept
  <2>3. calls'[i].state = "filled"
    BY <2>2, StateChange
  <2>4. calls[i].informed /\ ~calls[i].simulated
    <3>1. IsOrder(i)' /\ calls'[i].informed = calls[i].informed /\ i \in DOMAIN calls'
      BY <2>1, <2>2, SameOrder DEF Kept
    <3>2. QED BY <2>1, <2>3, <3>1 DEF MadeUp, Filled
  <2>5. ~calls[i].answered
    BY <2>2, <2>4 DEF AnswersInv
  <2>6. Within(position + calls[i].size)
    BY <2>2, <2>4, <2>5 DEF InLimit, OnItsWay
  <2>7. Within(position)'
    BY <2>2, <2>6 DEF Within
  <2>8. \A j \in DOMAIN calls' : ~OnItsWay(j)'
    <3>1. SUFFICES ASSUME NEW j \in DOMAIN calls', OnItsWay(j)' PROVE FALSE
      OBVIOUS
    <3>2. j \in DOMAIN calls /\ ~calls'[j].answered /\ calls'[j].state = "sent"
      BY <2>1, <3>1 DEF Kept, OnItsWay
    <3>3. j # i /\ calls'[j] = calls[j]
      BY <2>1, <2>3, <3>2 DEF Alone
    <3>4. QED BY <2>5, <3>2, <3>3, OneAgentFacts
  <2>9. \A a \in Agents : known[a] = Unread /\ asked[a] = None
    BY <2>5, OneAgentFacts DEF InLimit, Knows
  <2>10. QED BY <2>2, <2>7, <2>8, <2>9 DEF InLimit, Knows
<1>5. CASE Fill(i)
  BY <1>5, OneAgentFacts DEF Fill
<1>6. CASE CancelAccepted(i)
  <2>1. calls[i].target \in DOMAIN calls /\ IsOrder(calls[i].target)
    BY <1>6 DEF CancelAccepted, TypeOK, CallsOK
  <2>2. QED BY <1>6, <2>1, OneAgentFacts DEF CancelAccepted
<1>7. QED BY <1>1, <1>2, <1>3, <1>4, <1>5, <1>6 DEF Answer, Exchange

\* What the gate allowed is within the limit when it is executed.
LEMMA AllowedFits ==
    ASSUME TradingAssumption, GateAssumption, Core, InLimit,
           NEW a \in Agents, NEW qty \in Wanted(a), Allowed(a, qty),
           asked[a].account.real
    PROVE  Within(position + Size(qty))
<1>1. asked[a] # None /\ asked[a].qty = qty /\ asked[a].verdict.allowed
  BY DEF Allowed
<1>2. /\ known[a] # Unread /\ asked[a].account = known[a]
      /\ price > 0 => asked[a].price = price
      /\ known[a].real => known[a].position = position * Unit
  BY <1>1 DEF InLimit, Knows
<1>3. asked[a].account.position = position * Unit
  BY <1>2
<1>4. /\ price \in Nat /\ position \in Nat /\ Unit \in Nat /\ position * Unit \in Nat
      /\ qty \in Nat \ {0} /\ Size(qty) \in Nat /\ Size(qty) * Unit <= qty
  BY ScenarioFacts, WantedFacts DEF Core
<1>5. known[a] \in Read /\ known[a].capital \in Nat
  BY <1>2, AgentFacts DEF Core, Read
<1>6. CASE price = 0
  <2>1. (position + Size(qty)) * Unit \in Nat
    BY <1>4
  <2>2. QED BY <1>6, <2>1, WorthlessFits DEF Within
<1>7. SUFFICES ASSUME price > 0 PROVE Within(position + Size(qty))
  BY <1>4, <1>6
<1> DEFINE c == asked[a].account.capital
           v == CheckTrade(c, position * Unit, qty, price)
<1>8. asked[a].verdict = v /\ c \in Nat
  BY <1>1, <1>2, <1>3, <1>5, <1>7 DEF Core, AdviceInv
<1>9. v.allowed
  BY <1>1, <1>8
<1> HIDE DEF c
<1>10. v.allowed => ~OverExposed(position * Unit + qty, price)
  BY <1>4, <1>8, GateFacts
<1>11. (position + Size(qty)) * Unit = position * Unit + Size(qty) * Unit
  BY <1>4
<1>12. /\ (position + Size(qty)) * Unit \in Nat /\ position * Unit + qty \in Nat
       /\ (position + Size(qty)) * Unit <= position * Unit + qty
  BY <1>4, <1>11
<1>13. QED BY <1>4, <1>9, <1>10, <1>12, ExposureGrows DEF Within

LEMMA AgentKeepsExposure ==
    ASSUME TradingAssumption, GateAssumption, Core, OneAskingAgent, InLimit,
           NEW a \in Agents, AgentStep(a)
    PROVE  InLimit'
<1>1. position' = position /\ price' = price
  BY DEF AgentStep, ReadAccount, PositionSize, RiskCheck, PlaceOrder, CancelOrder,
         ToolPlace, ToolCancel
<1>2. Within(position)'
  BY <1>1 DEF InLimit, Within
<1>3. ASSUME calls' = calls, \A b \in Agents : Knows(b)' PROVE InLimit'
  <2>1. \A i \in DOMAIN calls' : OnItsWay(i)' => Within(position + calls[i].size)'
    BY <1>1, <1>3 DEF InLimit, OnItsWay, IsOrder, Within
  <2>2. QED BY <1>2, <1>3, <2>1 DEF InLimit
<1>4. ASSUME ReadAccount(a) PROVE InLimit'
  <2>1. PICK balancesOk \in BOOLEAN, positionsOk \in BOOLEAN :
           known' = [known EXCEPT ![a] = Account(balancesOk, positionsOk)]
    BY <1>4 DEF ReadAccount
  <2> DEFINE r == Account(balancesOk, positionsOk)
  <2>2. r \in Read /\ (r.real => r.position = position * Unit)
    BY AccountIsRead DEF Core
  <2>3. known' = [known EXCEPT ![a] = r]
    BY <2>1
  <2> HIDE DEF r
  <2>4. ~Waiting(a) /\ calls' = calls /\ asked' = [asked EXCEPT ![a] = None]
    BY <1>4 DEF ReadAccount
  <2>5. \A b \in Agents : b = a
    BY OneAgentFacts
  <2>6. known'[a] = r /\ asked'[a] = None
    BY <2>3, <2>4 DEF Core, TypeOK
  <2>7. ~Waiting(a)'
    BY <2>4 DEF Waiting
  <2>8. Knows(a)'
    BY <1>1, <2>2, <2>6, <2>7 DEF Knows
  <2>9. QED BY <1>3, <2>4, <2>5, <2>8
<1>5. ASSUME NEW sizing \in scenario.sizings, PositionSize(a, sizing) PROVE InLimit'
  <2>1. calls' = calls /\ known' = known /\ asked' = asked
    BY <1>5 DEF PositionSize
  <2>2. \A b \in Agents : Knows(b)'
    BY <1>1, <2>1 DEF InLimit, Knows, Waiting
  <2>3. QED BY <1>3, <2>1, <2>2
<1>6. ASSUME NEW qty \in Wanted(a), NEW entry \in scenario.entries, RiskCheck(a, qty, entry)
      PROVE  InLimit'
  <2>1. calls' = calls /\ known' = known /\ known[a] # Unread
    BY <1>6 DEF RiskCheck
  <2>2. asked'[a].account = known[a] /\ (price > 0 => asked'[a].price = price)
    BY <1>6, CheckIsChecked DEF Core
  <2>3. \A b \in Agents : b = a
    BY OneAgentFacts
  <2>4. Knows(a)
    BY DEF InLimit
  <2>5. Knows(a)'
    BY <1>1, <2>1, <2>2, <2>4 DEF Knows, Waiting
  <2>6. QED BY <1>3, <2>1, <2>3, <2>5
<1>7. ASSUME NEW qty \in Wanted(a), NEW type \in scenario.types, PlaceOrder(a, qty, type)
      PROVE  InLimit'
  <2>1. PICK c \in PlaceCall :
           /\ AddsCall(c) /\ JustSent(c, a)
           /\ c.type = type /\ c.qty = qty /\ c.size = Size(qty)
           /\ c.informed => scenario.disciplined /\ asked[a].account.real
    BY <1>7, PlacedCall DEF Core
  <2>2. /\ known' = [known EXCEPT ![a] = Unread] /\ asked' = [asked EXCEPT ![a] = None]
        /\ ~Waiting(a) /\ (scenario.disciplined => Allowed(a, qty))
    BY <1>7 DEF PlaceOrder
  <2>3. \A b \in Agents : known'[b] = Unread /\ asked'[b] = None
    BY <2>2, OneAgentFacts DEF Core, TypeOK
  <2>4. \A b \in Agents : Knows(b)'
    BY <2>3 DEF Knows
  <2>5. ASSUME NEW i \in DOMAIN calls', OnItsWay(i)' PROVE Within(position + calls[i].size)'
    <3>1. CASE i \in DOMAIN calls
      <4>1. calls'[i] = calls[i]
        BY <2>1, <3>1 DEF AddsCall
      <4>2. OnItsWay(i)
        BY <2>5, <4>1 DEF OnItsWay, IsOrder
      <4>3. QED BY <1>1, <3>1, <4>1, <4>2 DEF InLimit, Within
    <3>2. CASE i = Fresh
      <4>1. calls'[i] = c
        BY <2>1, <3>2 DEF AddsCall
      <4>2. c.informed
        BY <2>5, <4>1 DEF OnItsWay
      <4>3. Within(position + Size(qty))
        BY <1>7, <2>1, <2>2, <4>2, AllowedFits
      <4>4. calls'[i].size = Size(qty)
        BY <2>1, <4>1
      <4>5. QED BY <1>1, <4>3, <4>4 DEF Within
    <3>3. QED BY <2>1, <3>1, <3>2 DEF AddsCall
  <2>6. QED BY <1>2, <2>4, <2>5 DEF InLimit
<1>8. ASSUME NEW i \in DOMAIN calls, CancelOrder(a, i) PROVE InLimit'
  BY <1>8, OneAgentFacts DEF CancelOrder
<1>9. QED BY <1>4, <1>5, <1>6, <1>7, <1>8 DEF AgentStep, ToolPlace, ToolCancel

LEMMA ExposureStep ==
    ASSUME TradingAssumption, GateAssumption, IInv, [Next]_vars
    PROVE  ExposureInv'
<1> SUFFICES ASSUME OneAskingAgent', ~MadeUp' PROVE InLimit'
  BY DEF ExposureInv
<1>1. Core /\ ~MadeUp
  BY CoreStep DEF IInv
<1>2. scenario' = scenario /\ price' \in scenario.prices
  <2>1. scenario' = scenario
    BY DEF Next, AgentStep, Answer, Exchange, vars, ReadAccount, PositionSize, RiskCheck,
           PlaceOrder, CancelOrder, ToolPlace, ToolCancel, Reply, TimesOut, Accept, Reject,
           Fill, CancelAccepted, MarketMoves, CapitalMoves
  <2>2. Core'
    BY CoreStep DEF IInv
  <2>3. QED BY <2>1, <2>2 DEF Core, TypeOK
<1>3. price' = price /\ OneAskingAgent
  <2>1. price \in scenario.prices /\ scenario.prices = {price'}
    BY <1>1, <1>2 DEF Core, TypeOK, OneAskingAgent
  <2>2. QED BY <1>2, <2>1 DEF OneAskingAgent
<1>4. InLimit
  BY <1>1, <1>3 DEF IInv, ExposureInv
<1>5. ASSUME MarketMoves \/ CapitalMoves \/ UNCHANGED vars PROVE InLimit'
  <2>1. position' = position /\ calls' = calls /\ known' = known /\ asked' = asked
    BY <1>5 DEF MarketMoves, CapitalMoves, vars
  <2>2. Within(position)'
    BY <1>3, <1>4, <2>1 DEF InLimit, Within
  <2>3. \A i \in DOMAIN calls' : OnItsWay(i)' => Within(position + calls[i].size)'
    BY <1>3, <1>4, <2>1 DEF InLimit, Within, OnItsWay, IsOrder
  <2>4. \A a \in Agents : Knows(a)'
    BY <1>3, <1>4, <2>1 DEF InLimit, Knows, Waiting
  <2>5. QED BY <2>2, <2>3, <2>4 DEF InLimit
<1>6. ASSUME NEW a \in Agents, AgentStep(a) PROVE InLimit'
  BY <1>1, <1>3, <1>4, <1>6, AgentKeepsExposure
<1>7. ASSUME NEW i \in DOMAIN calls, Answer(i) \/ Exchange(i) PROVE InLimit'
  BY <1>1, <1>3, <1>4, <1>7, CallKeepsExposure
<1>8. QED BY <1>5, <1>6, <1>7 DEF Next

-----------------------------------------------------------------------------
(* The theorems.                                                           *)

\* Every variable keeps its type, and the parts above hold together, in every
\* state: the inductive invariant the theorems below follow from.
THEOREM Invariance == Spec => []IInv
<1> USE TradingAssumption, GateAssumption
<1>1. ASSUME Init PROVE IInv
  BY <1>1, CoreInit, ExposureInit DEF IInv, ExposureInv
<1>2. ASSUME IInv, [Next]_vars PROVE IInv'
  <2>1. Core'
    BY <1>2, CoreStep DEF IInv
  <2>2. ExposureInv'
    BY <1>2, ExposureStep
  <2>3. QED BY <2>1, <2>2 DEF IInv
<1>3. QED BY <1>1, <1>2, PTL DEF Spec

\* An answer that is not made up is true: the order was taken by the
\* exchange, for no more than was asked, and a cancel has cancelled, whatever
\* the exchange did between the request and the answer, or after it
\* (delta_private.py:115-148).
THEOREM AnswersAreHonest == Spec => []HonestAnswers
<1>1. ASSUME IInv PROVE HonestAnswers
  <2>1. ASSUME NEW i \in DOMAIN calls, calls[i].answered, ~calls[i].simulated
        PROVE  IF IsOrder(i)
               THEN /\ calls[i].state \in {"open", "filled", "cancelled"}
                    /\ calls[i].size * Unit <= calls[i].qty
               ELSE calls[calls[i].target].state = "cancelled"
    <3>1. CASE IsOrder(i)
      BY <1>1, <2>1, <3>1 DEF IInv, Core, AnswersInv, TypeOK, CallsOK
    <3>2. CASE ~IsOrder(i)
      BY <1>1, <2>1, <3>2 DEF IInv, Core, AnswersInv
    <3>3. QED BY <3>1, <3>2
  <2>2. QED BY <2>1 DEF HonestAnswers
<1>2. QED BY <1>1, Invariance, PTL

LEMMA CheckFits ==
    ASSUME TradingAssumption, GateAssumption, Core, NEW a \in Agents,
           asked[a] # None, ~asked[a].verdict.allowed
    PROVE  LET q == asked[a] IN
           /\ q.verdict.suggested <= q.qty
           /\ q.verdict.suggested = 0 /\ risk_status(q.account.capital) # "CRITICAL" =>
                 \/ OverExposed(q.account.position + q.qty, q.price)
                 \/ 50 * q.price >= MaxLossPct * InitialCapital * Unit
           /\ q.verdict.suggested > 0 =>
                 /\ ~OverExposed(q.account.position + q.verdict.suggested, q.price)
                 /\ OverLossLimit(q.qty, q.price)
<1> DEFINE q == asked[a]
           c == q.account.capital
           n == q.account.position
           v == CheckTrade(c, n, q.qty, q.price)
<1>1. q \in Checked /\ c \in Nat /\ n \in Nat /\ q.qty \in Nat \ {0} /\ q.price \in Nat
  BY AgentFacts DEF Core, Checked, Read
<1>2. q.verdict = v
  BY DEF Core, AdviceInv
<1> DEFINE qty == q.qty
           p == q.price
<1> HIDE DEF c, n, qty, p
<1>3. /\ ~v.allowed =>
            /\ v.suggested <= qty
            /\ v.suggested = 0 /\ risk_status(c) # "CRITICAL" =>
                  \/ OverExposed(n + qty, p)
                  \/ 50 * p >= MaxLossPct * InitialCapital * Unit
            /\ v.suggested > 0 => ~OverExposed(n + v.suggested, p) /\ OverLossLimit(qty, p)
  BY <1>1, GateFacts DEF qty, p
<1>4. QED BY <1>2, <1>3 DEF c, n, qty, p

LEMMA SizeFits ==
    ASSUME TradingAssumption, GateAssumption, Core, NEW a \in Agents,
           sized[a] # None, sized[a].qty > 0
    PROVE  LET z == sized[a]
           IN  50 * Worth(2 * z.qty - 1, z.price) <= SizeLimit(z) * z.capital * Unit
<1> DEFINE z == sized[a]
           c == z.capital
           p == z.price
<1>1. z \in Advice /\ c \in Nat /\ p \in Nat
  BY AgentFacts DEF Core, Advice
<1>2. PICK s \in Scenarios : z.sizing \in s.sizings
  BY <1>1 DEF Advice
<1>3. z.qty = IF z.sizing.method = "kelly"
              THEN KellySize(c, p, z.sizing.win, z.sizing.avgWin, z.sizing.avgLoss)
              ELSE FixedFractionalSize(c, p, z.sizing.riskPct)
  BY DEF Core, AdviceInv
<1>4. CASE z.sizing.method = "kelly"
  <2>1. z.sizing.win \in 0..100 /\ z.sizing.avgWin \in Nat \ {0} /\ z.sizing.avgLoss \in Nat
    BY <1>2, <1>4 DEF TradingAssumption
  <2>2. 50 * Worth(2 * z.qty - 1, p) <= 20 * c * Unit
    <3> DEFINE win == z.sizing.win
               w   == z.sizing.avgWin
               l   == z.sizing.avgLoss
               k   == KellySize(c, p, win, w, l)
    <3>1. z.qty = k /\ k > 0
      BY <1>3, <1>4
    <3>2. c \in Nat /\ p \in Nat /\ win \in 0..100 /\ w \in Nat \ {0} /\ l \in Nat
      BY <1>1, <2>1
    <3> HIDE DEF c, p, win, w, l
    <3>3. k > 0 => 50 * Worth(2 * k - 1, p) <= 20 * c * Unit
      BY <3>2, KellyFits
    <3>4. QED BY <3>1, <3>3
  <2>3. QED BY <1>4, <2>2 DEF SizeLimit
<1>5. CASE z.sizing.method # "kelly"
  <2>1. z.sizing.riskPct \in Nat
    BY <1>2, <1>5 DEF TradingAssumption
  <2>2. 50 * Worth(2 * z.qty - 1, p) <= z.sizing.riskPct * c * Unit
    BY <1>1, <1>3, <1>5, <2>1, FixedFractionalFits
  <2>3. QED BY <1>5, <2>2 DEF SizeLimit
<1>6. QED BY <1>4, <1>5

\* What the gate suggests and what the two sizings recommend keep the limits
\* they are computed from, however they were rounded, for every limit, price,
\* capital and position (engine.py:66-113; risk.py:115-130).
THEOREM RecommendationsKeepLimits == Spec => []RecommendationsFit
<1> USE TradingAssumption, GateAssumption
<1>1. ASSUME Core PROVE RecommendationsFit
  <2>1. ASSUME NEW a \in Agents, asked[a] # None, sized[a] # None,
               asked[a].qty = sized[a].qty, asked[a].price = sized[a].price,
               ~asked[a].verdict.allowed, asked[a].verdict.suggested > 0
        PROVE  50 * Worth(2 * sized[a].qty + 1, sized[a].price)
                  > MaxLossPct * InitialCapital * Unit
    <3> DEFINE n == asked[a].qty
               p == asked[a].price
    <3>1. n \in Nat /\ p \in Nat
      BY <1>1, <2>1, AgentFacts DEF Core, Checked
    <3>2. 100 * n * p > MaxLossPct * InitialCapital * Unit
      BY <1>1, <2>1, CheckFits DEF OverLossLimit
    <3>3. MaxLossPct * InitialCapital * Unit \in Nat
      BY DEF GateAssumption
    <3> DEFINE m == MaxLossPct * InitialCapital * Unit
    <3> HIDE DEF n, p, m
    <3>4. 50 * ((2 * n + 1) * p) = 100 * n * p + 50 * p /\ 50 * p >= 0
      BY <3>1
    <3>5. 50 * ((2 * n + 1) * p) > m
      BY <3>1, <3>2, <3>3, <3>4 DEF m
    <3>6. QED BY <2>1, <3>5 DEF Worth, n, p, m
  <2>2. ASSUME NEW a \in Agents, asked[a] # None, ~asked[a].verdict.allowed
        PROVE  LET q == asked[a] IN
               /\ q.verdict.suggested <= q.qty
               /\ q.verdict.suggested = 0 /\ risk_status(q.account.capital) # "CRITICAL" =>
                     \/ OverExposed(q.account.position + q.qty, q.price)
                     \/ 50 * q.price >= MaxLossPct * InitialCapital * Unit
               /\ q.verdict.suggested > 0 =>
                     ~OverExposed(q.account.position + q.verdict.suggested, q.price)
    BY <1>1, <2>2, CheckFits
  <2>3. ASSUME NEW a \in Agents, sized[a] # None, sized[a].qty > 0
        PROVE  LET z == sized[a]
               IN  50 * Worth(2 * z.qty - 1, z.price) <= SizeLimit(z) * z.capital * Unit
    BY <1>1, <2>3, SizeFits
  <2>4. QED BY <2>1, <2>2, <2>3 DEF RecommendationsFit
<1>2. QED BY <1>1, Invariance, PTL DEF IInv

\* The position of one agent that asks the gate before every market order
\* stays within the limit, whatever answers it waits for and however late
\* they come, until the API makes something up (docs/RISK.md:10).
THEOREM ExposureIsCapped == Spec => []ExposureCapped
<1>1. ASSUME IInv PROVE ExposureCapped
  BY <1>1 DEF IInv, ExposureInv, InLimit, Within, MadeUp, ExposureCapped
<1>2. QED BY <1>1, Invariance, PTL
=============================================================================
