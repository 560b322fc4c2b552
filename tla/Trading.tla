------------------------------ MODULE Trading ------------------------------
(***************************************************************************)
(* Order execution: apps/api/routes/execution.py with                       *)
(* swaram/providers/crypto/delta_private.py, and the risk gate             *)
(* (apps/api/routes/risk.py) that docs/RISK.md puts in front of it.        *)
(*                                                                         *)
(* Agents read the account, ask for a size, ask POST /risk/check, and      *)
(* place or cancel orders, over HTTP or as agent tools                     *)
(* (swaram/agents/tools.py).  The API keeps no state of its own: a call    *)
(* waits for the exchange at most 5 seconds and then answers whatever it   *)
(* heard.  The exchange is external: it accepts or rejects a request some  *)
(* time after it was sent, fills open orders, and may be reached after the *)
(* API has stopped waiting.                                                *)
(***************************************************************************)
EXTENDS RiskGate, Sequences

CONSTANTS
    Agents,
    Scenarios     \* what the agents and the market may do, see below

\* A scenario is a record of
\*   prices       values of the snapshot's last price; 0: there is none
\*   entries      entry prices an agent may write into a risk check; 0: none
\*   capitals     values the account's capital may take
\*   quantities   quantities an agent may ask for, in 1/Unit contracts
\*   sizings      requests to /risk/position-size: the win rate in percent,
\*                avgWin not 0, for which the route divides by zero
\*   types        order types the agents use
\*   disciplined  do agents place only what /risk/check allowed?
\*   maxCalls     bound on order/place and order/cancel calls
ASSUME TradingAssumption ==
    \A s \in Scenarios :
        /\ s.prices \subseteq Nat /\ s.entries \subseteq Nat /\ s.capitals \subseteq Nat
        /\ s.quantities \subseteq Nat \ {0}
        /\ \A z \in s.sizings :
              \/ z.method = "fixed_fractional" /\ z.riskPct \in Nat
              \/ /\ z.method = "kelly" /\ z.win \in 0..100
                 /\ z.avgWin \in Nat \ {0} /\ z.avgLoss \in Nat
        /\ s.types \subseteq {"market", "limit"}
        /\ s.disciplined \in BOOLEAN /\ s.maxCalls \in Nat

VARIABLES
    scenario, \* never changes
    price,    \* last price in the Redis snapshot
    capital,  \* capital of the account at the exchange
    position, \* whole contracts held there: the agents only buy
    known,    \* what each agent read of the account since its last order
    sized,    \* the last position size recommended to each agent
    asked,    \* each agent's last risk check, None if used or none yet
    calls     \* the calls of /order/place and /order/cancel so far

vars == <<scenario, price, capital, position, known, sized, asked, calls>>

None   == [qty |-> 0]
Unread == [real |-> TRUE]

\* At the exchange a place call is "sent", then "rejected", or "open" or
\* "filled"; an open order may become "filled" or "cancelled".  A cancel call
\* is "sent", then "rejected" or "accepted".
IsOrder(i) == calls[i].op = "place"
Filled     == {i \in DOMAIN calls : IsOrder(i) /\ calls[i].state = "filled"}

\* int(quantity): whole contracts.
Size(qty) == qty \div Unit

-----------------------------------------------------------------------------
(* Reading the account and asking the gate.                                *)

\* An agent makes one request at a time.
Waiting(a) == \E i \in DOMAIN calls : calls[i].agent = a /\ ~calls[i].answered

\* GET /account/balances and /account/positions, or the tool
\* get_account_state: two requests to the exchange, and the one that fails is
\* answered with the placeholder balance, or with no positions.
Account(balancesOk, positionsOk) ==
    [position |-> IF positionsOk THEN position * Unit ELSE 0,
     capital  |-> IF balancesOk THEN capital ELSE InitialCapital,
     real     |-> balancesOk /\ positionsOk]
ReadAccount(a) ==
    /\ ~Waiting(a)
    /\ \E balancesOk, positionsOk \in BOOLEAN :
          known' = [known EXCEPT ![a] = Account(balancesOk, positionsOk)]
    /\ asked' = [asked EXCEPT ![a] = None]
    /\ sized' = [sized EXCEPT ![a] = None]
    /\ UNCHANGED <<scenario, price, capital, position, calls>>

\* POST /risk/position-size with the capital the agent knows and the price.
\* The route divides by the capital when it formats its answer.
PositionSize(a, sizing) ==
    /\ known[a] # Unread /\ known[a].capital > 0
    /\ LET c == known[a].capital
       IN  sized' = [sized EXCEPT ![a] =
             [qty |-> IF sizing.method = "kelly"
                      THEN KellySize(c, price, sizing.win, sizing.avgWin, sizing.avgLoss)
                      ELSE FixedFractionalSize(c, price, sizing.riskPct),
              sizing |-> sizing, capital |-> c, price |-> price]]
    /\ UNCHANGED <<scenario, price, capital, position, known, asked, calls>>

\* POST /risk/check with what the agent knows. Without a last price the gate
\* takes the entry price of the request.
GatePrice(entry) == IF price > 0 THEN price ELSE entry
RiskCheck(a, qty, entry) ==
    /\ known[a] # Unread /\ asked[a] = None
    /\ asked' = [asked EXCEPT ![a] =
          [qty |-> qty, price |-> GatePrice(entry), account |-> known[a],
           verdict |-> CheckTrade(known[a].capital, known[a].position, qty,
                                  GatePrice(entry))]]
    /\ UNCHANGED <<scenario, price, capital, position, known, sized, calls>>

Allowed(a, qty) == /\ asked[a] # None /\ asked[a].qty = qty
                   /\ asked[a].verdict.allowed

-----------------------------------------------------------------------------
(* POST /order/place and /order/cancel.                                    *)

\* The instrument is found and the signed request leaves for the exchange.
PlaceOrder(a, qty, type) ==
    /\ Len(calls) < scenario.maxCalls /\ ~Waiting(a)
    /\ scenario.disciplined => Allowed(a, qty)
    /\ calls' = Append(calls,
          [op |-> "place", agent |-> a, type |-> type, qty |-> qty, size |-> Size(qty),
           informed |-> scenario.disciplined /\ asked[a].account.real,
           state |-> "sent", answered |-> FALSE, simulated |-> FALSE])
    /\ known' = [known EXCEPT ![a] = Unread]
    /\ asked' = [asked EXCEPT ![a] = None]
    /\ sized' = [sized EXCEPT ![a] = None]
    /\ UNCHANGED <<scenario, price, capital, position>>

\* The agent cancels an order it was told is pending.
CancelOrder(a, i) ==
    /\ Len(calls) < scenario.maxCalls /\ ~Waiting(a)
    /\ i \in DOMAIN calls /\ IsOrder(i) /\ calls[i].agent = a
    /\ calls[i].type = "limit" /\ calls[i].answered
    /\ calls' = Append(calls,
          [op |-> "cancel", agent |-> a, target |-> i, state |-> "sent",
           answered |-> FALSE, simulated |-> FALSE])
    /\ UNCHANGED <<scenario, price, capital, position, known, sized, asked>>

\* The tools place_order and cancel_order: the same steps, with an error in
\* place of the 404 for an unknown instrument.
ToolPlace(a, qty, type) == PlaceOrder(a, qty, type)
ToolCancel(a, i)        == CancelOrder(a, i)

\* mutant: a rejection is answered like an acceptance
ReplyUnread(i) ==
    /\ ~calls[i].answered /\ calls[i].state # "sent"
    /\ calls' = [calls EXCEPT ![i].answered = TRUE]
    /\ UNCHANGED <<scenario, price, capital, position, known, sized, asked>>
\* An answer of the exchange arrives in time.  200 gives the result; anything
\* else gives None, which the route turns into a made-up success.
Reply(i) ==
    /\ ~calls[i].answered /\ calls[i].state # "sent"
    /\ calls' = [calls EXCEPT ![i].answered = TRUE,
                              ![i].simulated = calls[i].state = "rejected"]
    /\ UNCHANGED <<scenario, price, capital, position, known, sized, asked>>

\* ClientTimeout, or a connection error: also None.
TimesOut(i) ==
    /\ ~calls[i].answered
    /\ calls' = [calls EXCEPT ![i].answered = TRUE, ![i].simulated = TRUE]
    /\ UNCHANGED <<scenario, price, capital, position, known, sized, asked>>

-----------------------------------------------------------------------------
(* The exchange.                                                           *)

Accept(i) ==
    /\ IsOrder(i) /\ calls[i].state = "sent" /\ calls[i].size > 0
    /\ IF calls[i].type = "market"
       THEN /\ calls' = [calls EXCEPT ![i].state = "filled"]
            /\ position' = position + calls[i].size
       ELSE /\ calls' = [calls EXCEPT ![i].state = "open"]
            /\ UNCHANGED position
    /\ UNCHANGED <<scenario, price, capital, known, sized, asked>>

Reject(i) ==
    /\ calls[i].state = "sent"
    /\ calls' = [calls EXCEPT ![i].state = "rejected"]
    /\ UNCHANGED <<scenario, price, capital, position, known, sized, asked>>

Fill(i) ==
    /\ IsOrder(i) /\ calls[i].state = "open"
    /\ calls' = [calls EXCEPT ![i].state = "filled"]
    /\ position' = position + calls[i].size
    /\ UNCHANGED <<scenario, price, capital, known, sized, asked>>

\* Only an order that is open, cancelled under its own id.
CancelAccepted(i) ==
    /\ ~IsOrder(i) /\ calls[i].state = "sent"
    /\ LET t == calls[i].target
       IN  /\ calls[t].state = "open" /\ ~calls[t].simulated
           /\ calls' = [calls EXCEPT ![i].state = "accepted",
                                     ![t].state = "cancelled"]
    /\ UNCHANGED <<scenario, price, capital, position, known, sized, asked>>

MarketMoves == /\ price' \in scenario.prices \ {price}
               /\ UNCHANGED <<scenario, capital, position, known, sized, asked, calls>>
CapitalMoves == /\ capital' \in scenario.capitals \ {capital}
                /\ UNCHANGED <<scenario, price, position, known, sized, asked, calls>>

-----------------------------------------------------------------------------
Init ==
    /\ scenario \in Scenarios
    /\ price \in scenario.prices /\ capital \in scenario.capitals
    /\ position = 0 /\ calls = <<>>
    /\ known = [a \in Agents |-> Unread]
    /\ sized = [a \in Agents |-> None]
    /\ asked = [a \in Agents |-> None]

\* An agent asks for a quantity of its own or for the one recommended to it.
Wanted(a) == scenario.quantities \union ({sized[a].qty} \ {0})

AgentStep(a) ==
    \/ ReadAccount(a)
    \/ \E sizing \in scenario.sizings : PositionSize(a, sizing)
    \/ \E qty \in Wanted(a), entry \in scenario.entries : RiskCheck(a, qty, entry)
    \/ \E qty \in Wanted(a), type \in scenario.types :
           PlaceOrder(a, qty, type) \/ ToolPlace(a, qty, type)
    \/ \E i \in DOMAIN calls : CancelOrder(a, i) \/ ToolCancel(a, i)

Answer(i)   == Reply(i) \/ TimesOut(i)
Exchange(i) == Accept(i) \/ Reject(i) \/ Fill(i) \/ CancelAccepted(i)

Next == \/ \E a \in Agents : AgentStep(a)
        \/ \E i \in DOMAIN calls : Answer(i) \/ Exchange(i)
        \/ MarketMoves \/ CapitalMoves

Spec == Init /\ [][Next]_vars

-----------------------------------------------------------------------------
(* Properties.                                                             *)

\* "Exposure Limits: Caps max capital exposure on any single instrument"
\* (docs/RISK.md:10): the position of one agent that asks before every market
\* order stays within the limit, at a price that stands still, unless the API
\* made something up: an account it could not read, or the answer to an order
\* that was executed (execution.py:46, 65, 96).
OneAskingAgent ==
    /\ \A a, b \in Agents : a = b
    /\ scenario.disciplined
    /\ scenario.types = {"market"} /\ scenario.prices = {price}
ExposureCapped ==
    OneAskingAgent =>
        \/ ~OverExposed(position * Unit, price)
        \/ \E i \in Filled : calls[i].simulated \/ ~calls[i].informed

\* What the API recommends keeps the limits it is computed from, however it
\* was rounded. "Per-Trade Loss Limit: Recommends scaling down sizes"
\* (docs/RISK.md:11): the quantity suggested instead of a refused one is not
\* larger and does not take the position past its limit, and there is one
\* unless the position or the drawdown status forbids any, or the limit is
\* not worth half of the smallest unit. A recommended position size is worth
\* at most the fraction of the capital it stands for, Kelly's at most one
\* fifth, give or take half a unit; and such a size, in the next request, is
\* refused for its own value only if it is more than the limit allows
\* (engine.py:66-113; risk.py:115-130).
Worth(q, p)  == q * p
SizeLimit(z) == IF z.sizing.method = "kelly" THEN 20 ELSE z.sizing.riskPct
RecommendationsFit ==
    \A a \in Agents :
        /\ asked[a] # None /\ ~asked[a].verdict.allowed => LET q == asked[a] IN
            /\ q.verdict.suggested <= q.qty
            /\ q.verdict.suggested = 0 /\ risk_status(q.account.capital) # "CRITICAL" =>
                \/ OverExposed(q.account.position + q.qty, q.price)
                \/ 50 * q.price >= MaxLossPct * InitialCapital * Unit
            /\ q.verdict.suggested > 0 =>
                ~OverExposed(q.account.position + q.verdict.suggested, q.price)
        /\ sized[a] # None /\ sized[a].qty > 0 => LET z == sized[a] IN
            50 * Worth(2 * z.qty - 1, z.price) <= SizeLimit(z) * z.capital * Unit
        /\ asked[a] # None /\ sized[a] # None => LET q == asked[a] z == sized[a] IN
            /\ q.qty = z.qty /\ q.price = z.price /\ ~q.verdict.allowed
            /\ q.verdict.suggested > 0
            => 50 * Worth(2 * z.qty + 1, z.price) > MaxLossPct * InitialCapital * Unit

\* An answer that is not made up is true, whenever it comes and whatever
\* happens to the order in between: the exchange has taken the order, and for
\* no more than was asked; a cancel has cancelled (delta_private.py:115-148).
HonestAnswers ==
    \A i \in DOMAIN calls : calls[i].answered /\ ~calls[i].simulated =>
        IF IsOrder(i)
        THEN /\ calls[i].state \in {"open", "filled", "cancelled"}
             /\ calls[i].size * Unit <= calls[i].qty
        ELSE calls[calls[i].target].state = "cancelled"

\* "Generate a simulated response when running in demo/offline mode"
\* (execution.py:97): an order that was answered with a simulated response
\* exists only in the simulation.
SimulatedHasNoEffect ==
    \A i \in DOMAIN calls :
        IsOrder(i) /\ calls[i].answered /\ calls[i].simulated =>
            calls[i].state \notin {"open", "filled"}
=============================================================================
