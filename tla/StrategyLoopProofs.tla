------------------------- MODULE StrategyLoopProofs -------------------------
(***************************************************************************)
(* Proofs about StrategyLoop for any symbols, runners, snapshots and       *)
(* capitals: the registries reach every live loop, a stopped loop does not *)
(* trade, and a trade keeps the equity and never overdraws the capital.    *)
(***************************************************************************)
EXTENDS StrategyLoop, TLAPS

-----------------------------------------------------------------------------
(* The rounding.                                                           *)

\* A rounded quotient is a natural number at most half a unit above it.
LEMMA RoundedBound ==
    ASSUME NEW a \in Nat, NEW b \in Nat \ {0}
    PROVE  Rounded(a, b) \in Nat /\ 2 * (b * Rounded(a, b)) <= 2 * a + b
<1> DEFINE q == a \div b
           r == a % b
<1>1. q \in Nat /\ r \in 0..(b - 1) /\ a = b * q + r
  OBVIOUS
<1>2. b * (q + 1) = b * q + b
  BY <1>1
<1> HIDE DEF q, r
<1>3. \/ Rounded(a, b) = q
      \/ Rounded(a, b) = q + 1 /\ 2 * r >= b
  BY <1>1 DEF Rounded, q, r
<1>4. b * q \in Nat
  BY <1>1
<1>5. CASE Rounded(a, b) = q
  BY <1>1, <1>4, <1>5
<1>6. CASE Rounded(a, b) = q + 1 /\ 2 * r >= b
  <2>1. b * Rounded(a, b) = b * q + b
    BY <1>2, <1>6
  <2>2. QED BY <1>1, <1>4, <1>6, <2>1
<1>7. QED BY <1>3, <1>5, <1>6

\* The order of 2 % of the capital costs no more than there is, at whatever
\* price: half a unit too much is bought only if it is affordable.
LEMMA OrderIsAffordable ==
    ASSUME NEW c \in Nat, NEW p \in Nat \ {0}
    PROVE  OrderSize(c, p) \in Nat /\ OrderSize(c, p) * p <= c
<1> DEFINE qty == OrderSize(c, p)
<1>1. 50 * p \in Nat \ {0}
  OBVIOUS
<1>2. qty \in Nat /\ 2 * ((50 * p) * qty) <= 2 * c + 50 * p
  BY <1>1, RoundedBound DEF OrderSize
<1> HIDE DEF qty
<1>3. (50 * p) * qty = 50 * (qty * p) /\ qty * p \in Nat
  BY <1>2
<1>4. qty = 0 => qty * p = 0
  BY <1>2
<1>5. qty # 0 => qty * p >= p
  BY <1>2
<1>6. qty * p <= c
  BY <1>2, <1>3, <1>4, <1>5
<1>7. QED BY <1>2, <1>6 DEF qty

-----------------------------------------------------------------------------
(* A cycle.                                                                *)

\* A runner with other capital and position.
Rebook(r, c, n) == [r EXCEPT !.capital = c, !.position = n]

LEMMA Rebooked ==
    ASSUME NEW r \in RunnerType, NEW c \in Nat, NEW n \in Nat
    PROVE  /\ Rebook(r, c, n) \in RunnerType
           /\ Rebook(r, c, n).phase = r.phase /\ Rebook(r, c, n).cancelled = r.cancelled
           /\ Rebook(r, c, n).capital = c /\ Rebook(r, c, n).position = n
           /\ Rebook(r, c, n).price = r.price
<1>1. Rebook(r, c, n) \in RunnerType
  BY DEF RunnerType, Rebook
<1>2. /\ Rebook(r, c, n).phase = r.phase /\ Rebook(r, c, n).cancelled = r.cancelled
      /\ Rebook(r, c, n).price = r.price
  BY DEF RunnerType, Rebook
<1>3. Rebook(r, c, n).capital = c /\ Rebook(r, c, n).position = n
  BY DEF RunnerType, Rebook
<1>4. QED BY <1>1, <1>2, <1>3

\* What run_once may do to a runner.
LEMMA CycleEffect ==
    ASSUME LoopAssumption, NEW r \in RunnerType, NEW m \in Market
    PROVE  /\ AfterCycle(r, m) \in RunnerType
           /\ AfterCycle(r, m).phase = r.phase
           /\ AfterCycle(r, m).cancelled = r.cancelled
           /\ AfterCycle(r, m).capital + AfterCycle(r, m).position * AfterCycle(r, m).price
                = r.capital + r.position * AfterCycle(r, m).price
<1> DEFINE p == m.last
           qty == OrderSize(r.capital, p)
           priced == [r EXCEPT !.price = p]
<1>1. p \in Nat
  BY DEF LoopAssumption, Snapshots
<1> HIDE DEF p
<1>2. /\ r.capital \in Nat /\ r.position \in Nat /\ r.price \in Nat
      /\ r.position * p \in Nat
  BY <1>1 DEF RunnerType
<1>3. /\ priced \in RunnerType /\ priced.price = p /\ priced.phase = r.phase
      /\ priced.cancelled = r.cancelled /\ priced.capital = r.capital
      /\ priced.position = r.position
  BY <1>1 DEF RunnerType
<1> HIDE DEF priced
<1>4. \/ AfterCycle(r, m) = r
      \/ AfterCycle(r, m) = priced
      \/ p # 0 /\ r.position = 0 /\ AfterCycle(r, m) = Buy(priced, p)
      \/ AfterCycle(r, m) = Sell(priced, p)
  BY DEF AfterCycle, p, priced
<1>5. CASE AfterCycle(r, m) = r \/ AfterCycle(r, m) = priced
  BY <1>2, <1>3, <1>5
<1>6. CASE p # 0 /\ r.position = 0 /\ AfterCycle(r, m) = Buy(priced, p)
  <2>1. qty \in Nat /\ qty * p <= r.capital /\ qty * p \in Nat
    BY <1>1, <1>2, <1>6, OrderIsAffordable
  <2> HIDE DEF qty
  <2> DEFINE left == r.capital - qty * p
  <2>2. AfterCycle(r, m) = Rebook(priced, left, qty)
    <3>1. priced.position + qty = qty
      BY <1>3, <1>6, <2>1
    <3>2. Buy(priced, p) = Rebook(priced, priced.capital - qty * p, priced.position + qty)
      <4>1. qty = OrderSize(priced.capital, p)
        BY <1>3 DEF qty
      <4>2. QED BY <4>1 DEF Buy, Rebook
    <3>3. QED BY <1>3, <1>6, <3>1, <3>2
  <2>3. left \in Nat /\ left = r.capital - qty * p
    BY <1>2, <2>1
  <2> HIDE DEF left
  <2>4. /\ AfterCycle(r, m) \in RunnerType
        /\ AfterCycle(r, m).phase = r.phase /\ AfterCycle(r, m).cancelled = r.cancelled
        /\ AfterCycle(r, m).capital = left
        /\ AfterCycle(r, m).position = qty /\ AfterCycle(r, m).price = p
    <3>1. qty \in Nat /\ left \in Nat
      BY <2>1, <2>3
    <3>2. /\ Rebook(priced, left, qty) \in RunnerType
          /\ Rebook(priced, left, qty).phase = priced.phase
          /\ Rebook(priced, left, qty).cancelled = priced.cancelled
          /\ Rebook(priced, left, qty).capital = left
          /\ Rebook(priced, left, qty).position = qty
          /\ Rebook(priced, left, qty).price = priced.price
      BY <1>3, <3>1, Rebooked
    <3>3. QED BY <1>3, <2>2, <3>2
  <2>5. r.position * p = 0
    BY <1>1, <1>6
  <2>6. QED BY <1>2, <2>1, <2>3, <2>4, <2>5
<1>7. CASE AfterCycle(r, m) = Sell(priced, p)
  <2>1. AfterCycle(r, m) = Rebook(priced, r.capital + r.position * p, 0)
    BY <1>3, <1>7 DEF Sell, Rebook
  <2>2. r.capital + r.position * p \in Nat
    BY <1>2
  <2>3. /\ AfterCycle(r, m) \in RunnerType
        /\ AfterCycle(r, m).phase = r.phase /\ AfterCycle(r, m).cancelled = r.cancelled
        /\ AfterCycle(r, m).capital = r.capital + r.position * p
        /\ AfterCycle(r, m).position = 0 /\ AfterCycle(r, m).price = p
    BY <1>3, <2>1, <2>2, Rebooked
  <2>4. 0 * p = 0
    BY <1>1
  <2>5. QED BY <1>2, <2>3, <2>4
<1>8. QED BY <1>4, <1>5, <1>6, <1>7

-----------------------------------------------------------------------------
(* The invariant.                                                          *)

\* A registered runner is in use, is not told to stop, and has one symbol.
Registered ==
    /\ \A s \in Symbols : active[s] # NoRunner =>
           run[active[s]].phase # "free" /\ ~run[active[s]].cancelled
    /\ \A s, x \in Symbols : active[s] = active[x] /\ active[s] # NoRunner => s = x

\* The two registries never differ, and a runner that nothing refers to is
\* not marked as cancelled.
LoopInv ==
    /\ TypeOK /\ NoOrphanLoop /\ Registered
    /\ active = tasks
    /\ \A r \in Runners : run[r].phase = "free" => ~run[r].cancelled

LEMMA UnusedType == Unused \in RunnerType /\ Unused.phase = "free" /\ Unused.cancelled = FALSE
  BY DEF Unused, RunnerType, Phases, Strategies

LEMMA InitLoopInv == ASSUME LoopAssumption, Init PROVE LoopInv
<1>1. \A r \in Runners : run[r] = Unused
  BY DEF Init
<1>2. TypeOK
  BY UnusedType DEF LoopAssumption, Init, TypeOK, Empty
<1>3. Registered
  BY DEF Init, Registered, Empty
<1>4. QED BY <1>1, <1>2, <1>3, UnusedType DEF Init, LoopInv, NoOrphanLoop, Alive

\* A task's own step changes one runner and no registry.
TaskStep(r) ==
    \/ TaskBegins(r) \/ (\E m \in Market : Fetched(r, m)) \/ FetchFails(r)
    \/ SleepEnds(r) \/ TaskCancelled(r)

\* What it may do to the runner.
LEMMA TaskEffect ==
    ASSUME LoopAssumption, LoopInv, NEW r \in Runners, TaskStep(r)
    PROVE  \E after \in RunnerType :
               /\ run' = [run EXCEPT ![r] = after]
               /\ UNCHANGED <<active, tasks>> /\ trades' \in 0..MaxTrades
               /\ \/ after = Unused /\ run[r].cancelled
                  \/ /\ after.cancelled = run[r].cancelled /\ after.phase # "free"
                     /\ Alive(r)
                     /\ run[r].cancelled => after.position = run[r].position
                                            /\ after.capital = run[r].capital
               /\ run[r].phase = "fetching" /\ after.phase = "sleeping" =>
                     after.capital + after.position * after.price
                       = run[r].capital + run[r].position * after.price
<1>0. /\ run[r] \in RunnerType /\ trades \in 0..MaxTrades /\ MaxTrades \in Nat
      /\ run[r].cancelled \in BOOLEAN /\ run \in [Runners -> RunnerType]
  BY DEF LoopInv, TypeOK, RunnerType, LoopAssumption
<1>1. CASE TaskBegins(r)
  <2> DEFINE after == [run[r] EXCEPT !.phase = "fetching", !.running = TRUE]
  <2>1. /\ after \in RunnerType /\ after.phase = "fetching"
        /\ after.cancelled = run[r].cancelled /\ after.position = run[r].position
        /\ after.capital = run[r].capital
    BY <1>0 DEF RunnerType, Phases
  <2>2. run' = [run EXCEPT ![r] = after] /\ Alive(r) /\ UNCHANGED <<active, tasks, trades>>
    BY <1>0, <1>1 DEF TaskBegins, Alive
  <2>3. run[r].phase # "fetching"
    BY <1>1 DEF TaskBegins
  <2>4. QED BY <1>0, <2>1, <2>2, <2>3
<1>2. ASSUME NEW m \in Market, Fetched(r, m)
      PROVE  /\ ~run[r].cancelled /\ Alive(r) /\ UNCHANGED <<active, tasks>>
             /\ trades' \in 0..MaxTrades
             /\ \E after \in RunnerType :
                   /\ run' = [run EXCEPT ![r] = after]
                   /\ after.phase = "sleeping" /\ after.cancelled = FALSE
                   /\ after.capital + after.position * after.price
                        = run[r].capital + run[r].position * after.price
  <2> DEFINE cycle == AfterCycle(run[r], m)
             after == [cycle EXCEPT !.phase = "sleeping"]
  <2>1. /\ cycle \in RunnerType /\ cycle.cancelled = run[r].cancelled
        /\ cycle.capital + cycle.position * cycle.price
             = run[r].capital + run[r].position * cycle.price
    BY <1>0, CycleEffect
  <2>2. /\ run[r].phase = "fetching" /\ ~run[r].cancelled
        /\ run' = [run EXCEPT ![r] = after] /\ UNCHANGED <<active, tasks>>
    BY <1>2 DEF Fetched
  <2>3. trades' \in 0..MaxTrades
    BY <1>0, <1>2 DEF Fetched
  <2> HIDE DEF cycle
  <2>4. /\ after \in RunnerType /\ after.phase = "sleeping"
        /\ after.cancelled = cycle.cancelled /\ after.capital = cycle.capital
        /\ after.position = cycle.position /\ after.price = cycle.price
    BY <2>1 DEF RunnerType, Phases
  <2> HIDE DEF after
  <2>5. cycle.cancelled = FALSE
    BY <1>0, <2>1, <2>2
  <2>6. QED BY <2>1, <2>2, <2>3, <2>4, <2>5 DEF Alive
<1>3. CASE FetchFails(r)
  <2> DEFINE after == [run[r] EXCEPT !.phase = "dead", !.running = FALSE]
  <2>1. /\ after \in RunnerType /\ after.phase = "dead"
        /\ after.cancelled = run[r].cancelled
    BY <1>0 DEF RunnerType, Phases
  <2>2. /\ run' = [run EXCEPT ![r] = after] /\ Alive(r) /\ UNCHANGED <<active, tasks, trades>>
        /\ ~run[r].cancelled
    BY <1>0, <1>3 DEF FetchFails, Alive
  <2>3. QED BY <1>0, <2>1, <2>2
<1>4. CASE SleepEnds(r)
  <2> DEFINE after == [run[r] EXCEPT !.phase = "fetching"]
  <2>1. /\ after \in RunnerType /\ after.phase = "fetching"
        /\ after.cancelled = run[r].cancelled
    BY <1>0 DEF RunnerType, Phases
  <2>2. /\ run' = [run EXCEPT ![r] = after] /\ Alive(r) /\ UNCHANGED <<active, tasks, trades>>
        /\ ~run[r].cancelled
    BY <1>0, <1>4 DEF SleepEnds, Alive
  <2>3. QED BY <1>0, <2>1, <2>2
<1>5. CASE TaskCancelled(r)
  BY <1>0, <1>5, UnusedType DEF TaskCancelled
<1>6. CASE \E m \in Market : Fetched(r, m)
  <2>1. PICK m \in Market : Fetched(r, m)
    BY <1>6
  <2>2. PICK after \in RunnerType :
           /\ run' = [run EXCEPT ![r] = after]
           /\ after.phase = "sleeping" /\ after.cancelled = FALSE
           /\ after.capital + after.position * after.price
                = run[r].capital + run[r].position * after.price
    BY <1>2, <2>1
  <2>3. /\ run[r].cancelled = FALSE /\ Alive(r) /\ UNCHANGED <<active, tasks>>
        /\ trades' \in 0..MaxTrades
    BY <1>0, <1>2, <2>1
  <2>4. QED BY <2>2, <2>3
<1>7. QED BY <1>1, <1>3, <1>4, <1>5, <1>6 DEF TaskStep

\* It keeps the invariant.
LEMMA TaskKeepsLoopInv ==
    ASSUME LoopAssumption, LoopInv, NEW r \in Runners, TaskStep(r)
    PROVE  LoopInv'
<1>1. PICK after \in RunnerType :
          /\ run' = [run EXCEPT ![r] = after]
          /\ UNCHANGED <<active, tasks>> /\ trades' \in 0..MaxTrades
          /\ \/ after = Unused /\ run[r].cancelled
             \/ /\ after.cancelled = run[r].cancelled /\ after.phase # "free"
                /\ Alive(r)
  BY TaskEffect
<1>2. /\ run'[r] = after /\ \A q \in Runners : q # r => run'[q] = run[q]
      /\ run' \in [Runners -> RunnerType]
  BY <1>1 DEF LoopInv, TypeOK
<1>3. TypeOK' /\ active' = tasks'
  BY <1>1, <1>2 DEF LoopInv, TypeOK
<1>4. ASSUME NEW q \in Runners, Alive(q)', ~run'[q].cancelled
      PROVE  Alive(q) /\ ~run[q].cancelled
  BY <1>1, <1>2, <1>4, UnusedType DEF Alive
<1>5. NoOrphanLoop'
  BY <1>1, <1>4 DEF LoopInv, NoOrphanLoop
<1>6. \A q \in Runners : run'[q].phase = "free" => ~run'[q].cancelled
  BY <1>1, <1>2, UnusedType DEF LoopInv
<1>7. Registered'
  <2>1. ASSUME NEW s \in Symbols, active'[s] # NoRunner
        PROVE  run'[active'[s]].phase # "free" /\ ~run'[active'[s]].cancelled
    <3>1. active[s] \in Runners /\ active'[s] = active[s]
          /\ run[active[s]].phase # "free" /\ ~run[active[s]].cancelled
      BY <1>1, <2>1 DEF LoopInv, TypeOK, Registered
    <3>2. QED BY <1>1, <1>2, <3>1
  <2>2. QED BY <1>1, <2>1 DEF LoopInv, Registered
<1>8. QED BY <1>3, <1>5, <1>6, <1>7 DEF LoopInv

\* POST /strategy/start: the runner becomes the one of its symbol.
LEMMA StartKeepsLoopInv ==
    ASSUME LoopAssumption, LoopInv, NEW s \in Symbols, NEW strategy \in Strategies,
           NEW c \in Capitals, Start(s, strategy, c)
    PROVE  LoopInv'
<1> DEFINE new == [Unused EXCEPT !.phase = "created", !.strategy = strategy, !.capital = c]
<1>1. /\ new \in RunnerType /\ new.phase = "created" /\ new.cancelled = FALSE
      /\ c \in Nat
  BY UnusedType DEF LoopAssumption, RunnerType, Phases
<1> HIDE DEF new
<1>2. PICK r \in Runners :
          /\ run[r].phase = "free" /\ run' = [run EXCEPT ![r] = new]
          /\ active' = [active EXCEPT ![s] = r] /\ tasks' = [tasks EXCEPT ![s] = r]
  BY DEF Start, new
<1>3. active[s] = NoRunner /\ trades' = trades
  BY DEF Start
<1>4. /\ run'[r] = new /\ \A q \in Runners : q # r => run'[q] = run[q]
      /\ active'[s] = r /\ \A x \in Symbols : x # s => active'[x] = active[x]
  BY <1>2 DEF LoopInv, TypeOK
<1>5. TypeOK' /\ active' = tasks'
  BY <1>1, <1>2, <1>3 DEF LoopInv, TypeOK
<1>6. ASSUME NEW q \in Runners, Alive(q)', ~run'[q].cancelled
      PROVE  \E x \in Symbols : active'[x] = q
  <2>1. CASE q = r
    BY <1>4, <2>1
  <2>2. CASE q # r
    <3>1. PICK x \in Symbols : active[x] = q
      BY <1>4, <1>6, <2>2 DEF LoopInv, NoOrphanLoop, Alive
    <3>2. x # s
      BY <1>3, <3>1 DEF LoopAssumption
    <3>3. QED BY <1>4, <3>1, <3>2
  <2>3. QED BY <2>1, <2>2
<1>7. NoOrphanLoop'
  BY <1>5, <1>6 DEF NoOrphanLoop
<1>8. \A q \in Runners : run'[q].phase = "free" => ~run'[q].cancelled
  BY <1>1, <1>4 DEF LoopInv
<1>9. Registered'
  <2>1. \A x \in Symbols : active[x] # r
    BY <1>2 DEF LoopInv, Registered, LoopAssumption
  <2>2. \A x \in Symbols : active'[x] # NoRunner =>
            run'[active'[x]].phase # "free" /\ ~run'[active'[x]].cancelled
    BY <1>1, <1>4, <2>1 DEF LoopInv, TypeOK, Registered
  <2>3. \A x, y \in Symbols : active'[x] = active'[y] /\ active'[x] # NoRunner => x = y
    BY <1>4, <2>1 DEF LoopInv, Registered
  <2>4. QED BY <2>2, <2>3 DEF Registered
<1>10. QED BY <1>5, <1>7, <1>8, <1>9 DEF LoopInv

\* POST /strategy/stop: the runner of the symbol is cancelled, no other is.
LEMMA StopKeepsLoopInv ==
    ASSUME LoopAssumption, LoopInv, NEW s \in Symbols, Stop(s)
    PROVE  LoopInv'
<1>1. /\ active[s] \in Runners /\ tasks[s] = active[s]
      /\ active' = [active EXCEPT ![s] = NoRunner] /\ tasks' = [tasks EXCEPT ![s] = NoRunner]
      /\ trades' = trades
  BY DEF Stop, LoopInv, TypeOK
<1>2. \A q \in Runners : q # active[s] => run'[q] = run[q]
  BY <1>1 DEF Stop
<1>3. LET r == active[s]
      IN  /\ run'[r] \in RunnerType
          /\ \/ run'[r] = Unused
             \/ run'[r].phase = run[r].phase /\ run'[r].cancelled = TRUE
  <2> DEFINE r == active[s]
             stopped == [run[r] EXCEPT !.running = @ /\ r # active[s],
                                       !.cancelled = @ \/ r = tasks[s]]
  <2>1. run[r] \in RunnerType
    BY <1>1 DEF LoopInv, TypeOK
  <2>2. /\ stopped \in RunnerType /\ stopped.phase = run[r].phase
        /\ stopped.cancelled = TRUE
    BY <1>1, <2>1 DEF RunnerType
  <2>3. run'[r] \in {Unused, stopped}
    BY <1>1 DEF Stop
  <2>4. QED BY <2>2, <2>3, UnusedType
<1>4. TypeOK' /\ active' = tasks'
  <2>1. run' \in [Runners -> RunnerType]
    BY <1>1, <1>2, <1>3 DEF Stop, LoopInv, TypeOK
  <2>2. QED BY <1>1, <2>1 DEF LoopInv, TypeOK
<1>5. ASSUME NEW q \in Runners, Alive(q)', ~run'[q].cancelled
      PROVE  \E x \in Symbols : active'[x] = q
  <2>1. q # active[s]
    BY <1>1, <1>3, <1>5, UnusedType DEF Alive
  <2>2. PICK x \in Symbols : active[x] = q
    BY <1>2, <1>5, <2>1 DEF LoopInv, NoOrphanLoop, Alive
  <2>3. active'[x] = q
    BY <1>1, <2>1, <2>2 DEF LoopInv, TypeOK
  <2>4. QED BY <2>3
<1>6. NoOrphanLoop'
  BY <1>4, <1>5 DEF NoOrphanLoop
<1>7. \A q \in Runners : run'[q].phase = "free" => ~run'[q].cancelled
  <2>1. run[active[s]].phase # "free"
    BY <1>1 DEF LoopInv, Registered, LoopAssumption
  <2>2. QED BY <1>1, <1>2, <1>3, <2>1, UnusedType DEF LoopInv
<1>8. Registered'
  <2>1. \A x \in Symbols : active'[x] # NoRunner => x # s /\ active'[x] = active[x]
    BY <1>1 DEF LoopInv, TypeOK
  <2>2. \A x \in Symbols : active'[x] # NoRunner => active[x] # active[s]
    BY <2>1 DEF LoopInv, Registered
  <2>3. QED BY <1>2, <2>1, <2>2 DEF LoopInv, TypeOK, Registered
<1>9. QED BY <1>4, <1>6, <1>7, <1>8 DEF LoopInv

\* The API process restarts.
LEMMA RestartKeepsLoopInv ==
    ASSUME LoopAssumption, LoopInv, Restart
    PROVE  LoopInv'
<1>1. \A r \in Runners : run'[r] = Unused
  BY DEF Restart
<1>2. TypeOK'
  BY UnusedType DEF Restart, Empty, LoopInv, TypeOK
<1>3. NoOrphanLoop' /\ Registered'
  BY <1>1, UnusedType DEF Restart, Empty, NoOrphanLoop, Registered, Alive
<1>4. QED BY <1>1, <1>2, <1>3, UnusedType DEF Restart, LoopInv

-----------------------------------------------------------------------------
\* The steps of a runner and those of the handlers.
LEMMA NextCases ==
    ASSUME Next
    PROVE  \/ \E r \in Runners : TaskStep(r)
           \/ \E s \in Symbols : Stop(s)
           \/ \E s \in Symbols, strategy \in Strategies, c \in Capitals : Start(s, strategy, c)
           \/ Restart
  BY DEF Next, TaskStep, Awaited

\* The invariant holds of every behaviour.
THEOREM LoopInvariance == Spec => []LoopInv
<1>1. Init => LoopInv
  BY LoopAssumption, InitLoopInv
<1>2. LoopInv /\ [Next]_vars => LoopInv'
  <2> SUFFICES ASSUME LoopInv, [Next]_vars PROVE LoopInv'
    OBVIOUS
  <2>1. CASE UNCHANGED vars
    BY <2>1 DEF vars, LoopInv, TypeOK, NoOrphanLoop, Registered, Alive
  <2>2. CASE Next
    BY <2>2, LoopAssumption, NextCases, TaskKeepsLoopInv, StartKeepsLoopInv,
       StopKeepsLoopInv, RestartKeepsLoopInv
  <2>3. QED BY <2>1, <2>2
<1>3. QED BY <1>1, <1>2, PTL DEF Spec

\* /strategy/stop reaches every loop that trades (routes/strategy.py).
THEOREM LoopsAreReachable == Spec => []NoOrphanLoop
<1>1. LoopInv => NoOrphanLoop
  BY DEF LoopInv
<1>2. QED BY <1>1, LoopInvariance, PTL

\* A runner that was told to stop does not trade again (loop.py:95-115).
THEOREM StopEndsTrading == Spec => StopIsFinal
<1>1. ASSUME LoopInv, [Next]_vars, NEW r \in Runners, run[r].cancelled
      PROVE  \/ run'[r].phase = "free"
             \/ /\ run'[r].position = run[r].position
                /\ run'[r].capital = run[r].capital
  <2>0. run \in [Runners -> RunnerType] /\ run[r].phase # "free"
    BY <1>1 DEF LoopInv, TypeOK
  <2>1. CASE UNCHANGED vars
    BY <2>1 DEF vars
  <2>2. ASSUME NEW q \in Runners, TaskStep(q)
        PROVE  \/ run'[r].phase = "free"
               \/ /\ run'[r].position = run[r].position
                  /\ run'[r].capital = run[r].capital
    <3>1. PICK after \in RunnerType :
              /\ run' = [run EXCEPT ![q] = after]
              /\ \/ after = Unused
                 \/ run[q].cancelled => after.position = run[q].position
                                        /\ after.capital = run[q].capital
      BY <1>1, <2>2, LoopAssumption, TaskEffect
    <3>2. QED BY <1>1, <2>0, <3>1, UnusedType
  <2>3. ASSUME NEW s \in Symbols, Stop(s)
        PROVE  \/ run'[r].phase = "free"
               \/ /\ run'[r].position = run[r].position
                  /\ run'[r].capital = run[r].capital
    BY <2>0, <2>3, UnusedType DEF Stop, RunnerType
  <2>4. ASSUME NEW s \in Symbols, NEW strategy \in Strategies, NEW c \in Capitals,
               Start(s, strategy, c)
        PROVE  run'[r] = run[r]
    BY <2>0, <2>4 DEF Start
  <2>5. CASE Restart
    BY <2>5, UnusedType DEF Restart
  <2>6. QED BY <1>1, <2>1, <2>2, <2>3, <2>4, <2>5, NextCases
<1>2. ASSUME LoopInv, [Next]_vars
      PROVE  \A r \in Runners : run[r].cancelled =>
                \/ run'[r].phase = "free"
                \/ /\ run'[r].position = run[r].position
                   /\ run'[r].capital = run[r].capital
  BY <1>1, <1>2
<1>3. QED BY <1>2, LoopInvariance, PTL DEF Spec, StopIsFinal

\* Whatever the price, the rounding and the strategy: a cycle keeps the equity
\* and leaves the capital non-negative (strategy.py:88, loop.py:77-86).
THEOREM TradesConserveEquity == Spec => EquityConserved
<1>1. ASSUME LoopInv, LoopInv', [Next]_vars, NEW r \in Runners,
             run[r].phase = "fetching", run'[r].phase = "sleeping"
      PROVE  /\ run'[r].capital + run'[r].position * run'[r].price
                    = run[r].capital + run[r].position * run'[r].price
             /\ run'[r].capital >= 0
  <2>0. run \in [Runners -> RunnerType] /\ run' \in [Runners -> RunnerType]
    BY <1>1 DEF LoopInv, TypeOK
  <2>1. run'[r].capital >= 0
    BY <2>0 DEF RunnerType
  <2>2. run'[r] # run[r]
    BY <1>1
  <2>3. \E q \in Runners : TaskStep(q)
    <3>1. ~UNCHANGED vars
      BY <2>2 DEF vars
    <3>2. ASSUME NEW s \in Symbols, Stop(s) PROVE FALSE
      BY <1>1, <2>0, <3>2, UnusedType DEF Stop, RunnerType
    <3>3. ASSUME NEW s \in Symbols, NEW strategy \in Strategies, NEW c \in Capitals,
                 Start(s, strategy, c)
          PROVE  FALSE
      BY <1>1, <2>0, <2>2, <3>3 DEF Start
    <3>4. CASE Restart
      BY <1>1, <3>4, UnusedType DEF Restart
    <3>5. QED BY <1>1, <3>1, <3>2, <3>3, <3>4, NextCases
  <2>4. PICK q \in Runners : TaskStep(q)
    BY <2>3
  <2>5. PICK after \in RunnerType :
            /\ run' = [run EXCEPT ![q] = after]
            /\ run[q].phase = "fetching" /\ after.phase = "sleeping" =>
                  after.capital + after.position * after.price
                    = run[q].capital + run[q].position * after.price
    BY <1>1, <2>4, LoopAssumption, TaskEffect
  <2>6. q = r /\ run'[r] = after
    BY <2>0, <2>2, <2>5
  <2>7. QED BY <1>1, <2>1, <2>5, <2>6
<1>2. ASSUME LoopInv, LoopInv', [Next]_vars
      PROVE  \A r \in Runners :
                run[r].phase = "fetching" /\ run'[r].phase = "sleeping" =>
                    /\ run'[r].capital + run'[r].position * run'[r].price
                           = run[r].capital + run[r].position * run'[r].price
                    /\ run'[r].capital >= 0
  BY <1>1, <1>2
<1>3. QED BY <1>2, LoopInvariance, PTL DEF Spec, EquityConserved
==============================================================================
