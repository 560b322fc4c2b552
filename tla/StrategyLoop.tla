---------------------------- MODULE StrategyLoop ----------------------------
(***************************************************************************)
(* The autonomous strategy loops of the API process:                       *)
(* swaram/agents/loop.py, swaram/agents/strategy.py and the handlers of    *)
(* apps/api/routes/strategy.py.                                            *)
(*                                                                         *)
(* Two registries are keyed by the symbol of the request: _active_runners  *)
(* (active) and _running_loops (tasks).  A handler runs without an await   *)
(* between its checks and its updates, so it is one step; a loop's steps   *)
(* run from one await to the next.  Quantities are in 1/10000 of a unit    *)
(* and capital in 1/10000 of a dollar, the precision of round(.., 4).      *)
(***************************************************************************)
EXTENDS Integers, Rounding

CONSTANTS
    Symbols,    \* symbols a request may name
    Runners,    \* StrategyRunner objects (bound: how many exist at a time)
    NoRunner,   \* absent from a registry
    Market,     \* snapshots Redis may hold
    Capitals,   \* capital a request may give
    MaxTrades   \* bound on simulated trades

Unset == -1     \* a field the snapshot does not have
Snapshots == [last : Nat, rsi : Nat \cup {Unset}, vwap : Nat \cup {Unset},
              ema9 : Nat \cup {Unset}, ema21 : Nat \cup {Unset},
              lower : Nat \cup {Unset}, upper : Nat \cup {Unset}]

ASSUME LoopAssumption ==
    /\ NoRunner \notin Runners
    /\ Market \subseteq Snapshots
    /\ Capitals \subseteq Nat
    /\ MaxTrades \in Nat

Strategies == {"momentum", "mean_reversion"}    \* STRATEGY_REGISTRY

VARIABLES
    active,     \* _active_runners
    tasks,      \* _running_loops: the runner whose task it is
    run,        \* the StrategyRunner objects and their tasks
    trades      \* history: simulated trades so far

vars == <<active, tasks, run, trades>>

\* phase: where the task of a runner is; "free" when nothing refers to it.
\* price: the last price its run_once evaluated.
Phases == {"free", "created", "fetching", "sleeping", "dead"}
RunnerType == [phase : Phases, cancelled : BOOLEAN, running : BOOLEAN,
               strategy : Strategies, capital : Nat, position : Nat,
               price : Nat]
Unused == [phase |-> "free", cancelled |-> FALSE, running |-> FALSE,
           strategy |-> "momentum", capital |-> 0, position |-> 0,
           price |-> 0]

-----------------------------------------------------------------------------
(* One cycle: decide, then the simulated execution.                        *)

\* 2% of the capital.
OrderSize(capital, price) == Rounded(capital, 50 * price)

Enters(strategy, m) ==
    IF strategy = "momentum"
    THEN /\ m.rsi # Unset /\ m.vwap # Unset
         /\ m.rsi < 35 /\ m.last > m.vwap
    ELSE /\ m.lower # Unset /\ m.upper # Unset
         /\ m.last <= m.lower

Midline(m) == IF m.vwap \in {0, Unset} THEN m.ema21 ELSE m.vwap

Exits(strategy, m) ==
    IF strategy = "momentum"
    THEN /\ m.rsi # Unset /\ m.vwap # Unset
         /\ m.rsi > 65
    ELSE /\ m.lower # Unset /\ m.upper # Unset
         /\ Midline(m) \notin {0, Unset} /\ m.last >= Midline(m)

Buy(r, p) == LET qty == OrderSize(r.capital, p)
             IN  [r EXCEPT !.capital = @ - qty * p, !.position = @ + qty]
\* mutant: sells the size of an entry instead of the position
SellEntrySize(r, p) == [r EXCEPT !.capital = @ + OrderSize(@, p) * p,
                                 !.position = 0]
Sell(r, p) == [r EXCEPT !.capital = @ + r.position * p, !.position = 0]

\* run_once with the snapshot m; without a live price nothing happens.
AfterCycle(r, m) ==
    LET priced == [r EXCEPT !.price = m.last]
    IN  IF m.last = 0 THEN r
        ELSE IF r.position = 0 /\ Enters(r.strategy, m) THEN Buy(priced, m.last)
        ELSE IF r.position > 0 /\ Exits(r.strategy, m) THEN Sell(priced, m.last)
        ELSE priced

-----------------------------------------------------------------------------
(* The handlers.                                                           *)

\* mutant: the test for a running loop is lost
StartAnyway(s, strategy, c) ==
    \E r \in Runners :
        /\ run[r].phase = "free"
        /\ active' = [active EXCEPT ![s] = r]
        /\ tasks' = [tasks EXCEPT ![s] = r]
        /\ run' = [run EXCEPT ![r] = [Unused EXCEPT !.phase = "created",
                        !.strategy = strategy, !.capital = c]]
        /\ UNCHANGED trades
\* POST /strategy/start.
Start(s, strategy, c) ==
    /\ active[s] = NoRunner
    /\ \E r \in Runners :
        /\ run[r].phase = "free"
        /\ active' = [active EXCEPT ![s] = r]
        /\ tasks' = [tasks EXCEPT ![s] = r]
        /\ run' = [run EXCEPT ![r] = [Unused EXCEPT !.phase = "created",
                        !.strategy = strategy, !.capital = c]]
    /\ UNCHANGED trades

\* POST /strategy/stop/{symbol}: runner.stop(), remove_runner().
\* Cancelling a task that has ended does nothing.
Stop(s) ==
    /\ active[s] # NoRunner
    /\ run' = [r \in Runners |->
                  IF r \notin {active[s], tasks[s]} THEN run[r]
                  ELSE IF run[r].phase = "dead" THEN Unused
                  ELSE [run[r] EXCEPT
                            !.running = @ /\ r # active[s],
                            !.cancelled = @ \/ r = tasks[s]]]
    /\ tasks' = [tasks EXCEPT ![s] = NoRunner]
    /\ active' = [active EXCEPT ![s] = NoRunner]
    /\ UNCHANGED trades

-----------------------------------------------------------------------------
(* _loop.                                                                  *)

TaskBegins(r) ==
    /\ run[r].phase = "created" /\ ~run[r].cancelled
    /\ run' = [run EXCEPT ![r].phase = "fetching", ![r].running = TRUE]
    /\ UNCHANGED <<active, tasks, trades>>

\* mutant: a cancellation that arrives with the snapshot is swallowed
FetchedAnyway(r, m) ==
    LET after == AfterCycle(run[r], m)
    IN  /\ run[r].phase = "fetching"
        /\ after.position # run[r].position => trades < MaxTrades
        /\ run' = [run EXCEPT ![r] = [after EXCEPT !.phase = "sleeping"]]
        /\ trades' = IF after.position # run[r].position THEN trades + 1
                                                         ELSE trades
        /\ UNCHANGED <<active, tasks>>
\* The snapshot m arrives; the cycle runs to the next sleep.
Fetched(r, m) ==
    LET after == AfterCycle(run[r], m)
    IN  /\ run[r].phase = "fetching" /\ ~run[r].cancelled
        /\ after.position # run[r].position => trades < MaxTrades
        /\ run' = [run EXCEPT ![r] = [after EXCEPT !.phase = "sleeping"]]
        /\ trades' = IF after.position # run[r].position THEN trades + 1
                                                         ELSE trades
        /\ UNCHANGED <<active, tasks>>

\* Redis fails, or the snapshot does not compute: the exception leaves _loop,
\* the task ends, and both registries keep the runner.
FetchFails(r) ==
    /\ run[r].phase = "fetching" /\ ~run[r].cancelled
    /\ run' = [run EXCEPT ![r].phase = "dead", ![r].running = FALSE]
    /\ UNCHANGED <<active, tasks, trades>>

SleepEnds(r) ==
    /\ run[r].phase = "sleeping" /\ ~run[r].cancelled
    /\ run' = [run EXCEPT ![r].phase = "fetching"]
    /\ UNCHANGED <<active, tasks, trades>>

\* mutant: the except clause is inside the while loop
CancelSurvived(r) ==
    /\ run[r].phase \in {"fetching", "sleeping"} /\ run[r].cancelled
    /\ run' = [run EXCEPT ![r].phase = "sleeping"]
    /\ UNCHANGED <<active, tasks, trades>>
\* CancelledError is raised where the task waits, and ends it.
TaskCancelled(r) ==
    /\ run[r].phase \in {"created", "fetching", "sleeping"}
    /\ run[r].cancelled
    /\ run' = [run EXCEPT ![r] = Unused]
    /\ UNCHANGED <<active, tasks, trades>>

-----------------------------------------------------------------------------
Empty == [s \in Symbols |-> NoRunner]

\* The API process restarts: runners, tasks and positions are only in memory.
Restart ==
    /\ active' = Empty /\ tasks' = Empty
    /\ run' = [r \in Runners |-> Unused]
    /\ UNCHANGED trades

Init ==
    /\ active = Empty /\ tasks = Empty
    /\ run = [r \in Runners |-> Unused]
    /\ trades = 0

Awaited(r) == (\E m \in Market : Fetched(r, m)) \/ FetchFails(r)

Next ==
    \/ \E s \in Symbols : Stop(s)
    \/ \E s \in Symbols, strategy \in Strategies, c \in Capitals :
           Start(s, strategy, c)
    \/ \E r \in Runners : \/ TaskBegins(r) \/ Awaited(r)
                          \/ SleepEnds(r) \/ TaskCancelled(r)
    \/ Restart

Spec == Init /\ [][Next]_vars

\* The event loop runs every task that is ready; Redis answers or fails.
Fairness == \A r \in Runners :
    /\ WF_vars(TaskBegins(r)) /\ WF_vars(Awaited(r))
    /\ WF_vars(SleepEnds(r)) /\ WF_vars(TaskCancelled(r))

FairSpec == Spec /\ Fairness

-----------------------------------------------------------------------------
(* Properties.                                                             *)

\* The types.
TypeOK ==
    /\ active \in [Symbols -> Runners \cup {NoRunner}]
    /\ tasks \in [Symbols -> Runners \cup {NoRunner}]
    /\ run \in [Runners -> RunnerType]
    /\ trades \in 0..MaxTrades

\* A loop that was not asked to stop is the registered one of its symbol in
\* both registries, whatever was started, stopped or failed before: no loop
\* goes on trading that /strategy/stop can no longer reach.
Alive(r) == run[r].phase \in {"created", "fetching", "sleeping"}
NoOrphanLoop ==
    \A r \in Runners : Alive(r) /\ ~run[r].cancelled =>
        \E s \in Symbols : active[s] = r /\ tasks[s] = r

\* After /strategy/stop has answered "stopped" the runner never trades again.
StopIsFinal ==
    [][\A r \in Runners : run[r].cancelled =>
          \/ run'[r].phase = "free"
          \/ /\ run'[r].position = run[r].position
             /\ run'[r].capital = run[r].capital]_vars

\* A simulated trade creates no value and overdraws nothing: at the price it
\* evaluated, a cycle leaves capital + position * price as it was, and no
\* rounding of the order size, at whatever price, takes the capital below zero
\* (strategy.py:88, loop.py:77-86).
EquityConserved ==
    [][\A r \in Runners :
          run[r].phase = "fetching" /\ run'[r].phase = "sleeping" =>
              /\ run'[r].capital + run'[r].position * run'[r].price
                     = run[r].capital + run[r].position * run'[r].price
              /\ run'[r].capital >= 0]_vars

\* A task told to stop ends (loop.py:111-115).
StoppedLoopEnds ==
    \A r \in Runners : run[r].cancelled ~> (run[r].phase = "free")

\* "Strategy loop already running for ..." (routes/strategy.py:61): what
\* /strategy/start refuses for is a loop that is running.
RefusedBecauseRunning ==
    \A s \in Symbols : active[s] # NoRunner => Alive(active[s])
=============================================================================
