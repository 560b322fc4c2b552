# Swaram: a formal model of the collectors, the strategy loops and the trading API

The repository is a market-data and trading-assistant system: two collector
processes feed Redis (the live state) and Postgres (the history), and a FastAPI
process serves agents from both, simulates strategies, checks risk and forwards
orders to Delta Exchange. The TLA+ modules in this directory model the parts
whose correctness depends on order: asyncio tasks that interleave at their
`await`s, transactions, restarts, and answers that come late or never.

Every module is translated from the code; the table `map` of `PROJECT.json` names
the lines each definition stands for. Where code and documentation differ, the
model does what the code does.

**The rule for steps.** All Python code here is `asyncio` on one thread, so a task runs
undisturbed from one `await` that really suspends to the next. That stretch is
one action. An `await` that completes without yielding is not a boundary; an
`await` on Redis, Postgres, a socket, `sleep` or another task is. A failure of the
awaited call is an action of its own, and so is a cancellation that arrives there.

## 1. Inventory

| Part | State | Operations | Hard because |
|---|---|---|---|
| **Delta collector** `apps/collectors/delta_runner.py` | `_running`, five write buffers, a flush task, `instrument_map` | `initialize`, `start` (consume the stream, update Redis, buffer, flush at the batch size), `_periodic_flush` every 2 s, signal handler, shutdown in `finally` | two tasks drain the same lists while one is inside `commit()`; the shutdown cancels one of them; one bad row fails five kinds |
| **Delta WebSocket feed** `providers/crypto/delta_ws.py` | `_running`, `_ws`, `_heartbeat_task`, backoff delay | `connect`, `disconnect`, `_heartbeat_loop`, `stream_events` (reconnect with backoff), parsers | three tasks write one connection state; a stop may come in the handshake |
| **Provider health** `core/health.py` | connected, age, error count | `record_message`, `record_error`, `status`; published by the flush loops | written by several tasks, read by a fourth, stored in Redis |
| **FX/metals collector** `apps/collectors/multi_asset_runner.py`, `providers/forex/ctrader.py` | as the Delta collector, one buffer; a price cache and health in the provider | polling pass, tick per cached price, flushes, shutdown | a pass is a generator that yields in the middle; stop and drain come between its ticks |
| **Live snapshot** `storage/redis.py`, `core/events.py`, `routes/market.py`, `agents/tools.py` | one Redis hash per instrument | merge of an event's fields; read; REST fallback that writes | two writers, field-wise merge, no version |
| **Sessions, schema** `storage/postgres.py` | a transaction per `get_db_session` | commit / rollback; `init_db` | a swallowed statement error in an aborted transaction |
| **Instrument seeding** `storage/seed.py`, `instrument_repo.py` | `instruments` | `get_or_create` for every row of `symbols.yaml` | all services do it at the same time |
| **Candle backfill** `delta_runner.py:66-100`, `routes/analytics.py:17-69` | `candles` | count, fetch by REST, insert | check-then-insert by two processes, primary key |
| **Strategy loops** `agents/loop.py`, `agents/strategy.py`, `routes/strategy.py` | two registries, one runner (capital, position) per loop | start, stop, status, cycle | registry and task can disagree; stop during a fetch |
| **Risk gate** `risk/engine.py`, `routes/risk.py` | none | `check_trade`, `kelly_size`, `fixed_fractional_size`, the drawdown status | order of guards, rounding, stale inputs |
| **Order execution** `routes/execution.py`, `providers/crypto/delta_private.py` | none; the exchange's orders | place, cancel, balances, positions | time-outs with a remote effect; made-up answers |
| **Market structure** `analytics/structure.py` | none | swings, gaps, sweeps, breaks, order blocks over the recent candles | recomputed on a moving window; several passes must agree |
| **Backtest** `backtest/engine.py`, `routes/backtest.py` | books of one run | signal, fill, mark to market, metrics | metrics reconstruct what the books did |
| **Services** `docker-compose.yml` | – | start, restart unless stopped | crash loops |
| **WebSocket streams** `routes/ws.py`, `routes/metrics.py` | `_active_connections`, one task per socket | accept, frame, ping, unregister in `finally`, the connection gauge | a client leaves while the task sends, receives or sleeps; one message per frame |
| **Symbol names** `core/symbols.py` | none | `to_canonical`, `resolve_canonical` | writer and reader of a Redis key use different tables |
| **Agent tools** `agents/tools.py`, `routes/agent_tools.py` | none | the API's operations under other names, with defaults of their own | a second copy of each fallback |
| **Indicators, volume profile** `analytics/indicators.py`, `analytics/volume.py` | none | EMA, RSI, MACD, ATR, VWAP; POC and value area | first value, flat markets, ties of a sort |
| **Order flow** `routes/orderflow.py`, `analytics/orderbook.py` | none | depth, walls, microprice of a stored or fetched book | a stored book is not what the reader takes it for |
| **Provider health route** `routes/health.py` | none | reads the published records | absent and old records |
| Macro watchdog, Hermes context, positioning, anomalies, correlation, telemetry reads, settings, scripts | mostly none | reads and pure formulas | not modelled, see section 8 |

Interactions. The feed hands parsed events to the collector through an async
generator; the collector writes the snapshot (Redis) *before* it buffers the row
(Postgres). The API reads both, and writes the snapshot itself when it found it
empty. All services share one database and seed it at start. Strategy loops
read the snapshot and trade only in memory. `/risk/check` and `/order/place` do not
know of each other; an agent is expected to call the first before the second.

What makes each part correct is the list of properties in section 4; the
hazards behind them are in `PROJECT.json` under `hazards`, each at its line.

## 2. Modules

| Module | Models | Main variables and their code |
|---|---|---|
| `DurableLog` | abstract: a log that takes rows and then stores or loses them, for good | `held`, `stored`, `lost` |
| `Collector` | `DeltaCollectorRunner` | `pc` main task, `fl` flush loop, `running`, `provRunning`, `pending` events of the message in hand, `buf` the five lists, `batch[t]` rows task t is committing, `db`; `delivered`, `shown`, `accepted`, `signalled`, `failed` are history |
| `CollectorProofs` | theorems about `Collector` | – |
| `DeltaFeed` | `DeltaWebSocketProvider` + `ProviderHealth` + the health in Redis and its route | `pc`, `link`/`wsRef` (the open connection / `self._ws`), `handle`/`beats` (`_heartbeat_task` / the tasks that live), `disc` a running `disconnect()`, `connected`, `fresh`, `errors`, `delay`, `published` (`Absent` before the first record) |
| `DeltaFeedProofs` | theorems about `DeltaFeed` | – |
| `FxCollector` | `MultiAssetRunner` + `CTraderForexProvider` | as `Collector`, plus `cache`, `polls`, `todo`, `hand` for the polling generator |
| `FxCollectorProofs` | theorems about `FxCollector` | – |
| `StrategyLoop`, `Rounding` | `StrategyRunner`, both strategies, the `/strategy` routes | `active` = `_active_runners`, `tasks` = `_running_loops`, `run[r]` a runner and its task |
| `StrategyLoopProofs` | theorems about `StrategyLoop` and `Rounding` | – |
| `RiskGate` | `RiskEngine`, as operators: the gate, both position sizes, the status | – |
| `Trading` | agents, `/account`, `/risk/*`, `/order`, the tools that do the same, the client, the exchange (external) | `scenario` what agents and market may do; `price`, `capital` the market's and the account's; `position` the whole contracts held there; `known`, `sized`, `asked` what an agent read, was recommended and was told; `calls` every place/cancel with the state at the exchange and the answer |
| `TradingProofs` | theorems about `Trading` and `RiskGate` | – |
| `Bootstrap` | `init_db`, seeding, backfill, restarts | `imports` whether `delta_rest.py` can be imported, `online` the services that reach Postgres (both fixed at the start); `pc[p]`, `schema`, `table`, `mine[p]` uncommitted rows, `at[p]`; `candles` by their age in minutes, `old` the count of those out of the window, `listed` the exchange's history, `fetched[p]` |
| `BootstrapProofs` | theorems about `Bootstrap` | – |
| `LiveSnapshot` | parsers → events → Redis hash ← REST fallback | `wire`, `events`, `snap`, `rest[q]`; `sent`, `dropped`, `byRest` history |
| `LiveSnapshotProofs` | theorems about `LiveSnapshot` | – |
| `Symbols` | the tables and functions of `symbols.py`, a name as its parts | – |
| `WsStreams` | `/ws/market`, `/ws/agent`, the connection gauge | `ask` who wants what under which name, `redis`, `pc`, `frame`, `registry` = `_active_connections`, `inbox`, `client` |
| `Candles` | the recent candles a query answers, a sliding window | `bars` |
| `MarketStructure` | `detect_swing_points`, `analyze_market_structure`, its part of `compute_analytics` | operators on `bars` |
| `Backtest` | the strategy of `run_backtest`, `BacktestEngine`, its metrics | operators on `bars` |
| `VolumeProfile` | `calculate_volume_profile` | operators on `bars` |
| `Indicators` | EMA, RSI, MACD, ATR, VWAP of `compute_analytics` | operators on `bars` |
| `Sums` | `sum()` and `np.sum`; powers, for the closed form of a moving average | – |
| `OrderFlow` | `/market/{symbol}/orderflow`, `analyze_orderbook_depth` | `venue`, `imports` as in `Bootstrap`, `market` what is quoted, `stored`, `answer` |
| `ReaderProofs` | theorems about `MarketStructure`, `Backtest`, `VolumeProfile`, `Indicators`, `OrderFlow` and `WsStreams` | – |
| `MC*` | constants for TLC | – |

Composition: `Collector` and `FxCollector` instantiate `DurableLog` (refinement mapping
`held` = buffered or in a transaction, `stored` = committed, `lost` = accepted and in
neither). `Trading` extends `RiskGate`, which shares `Rounding` with `StrategyLoop`.
`MarketStructure`, `Backtest`, `VolumeProfile` and `Indicators` extend `Candles` and are checked together by
`MCHistory`; `OrderFlow` shares no state with them and is explored in the same run, one machine at a time.
`WsStreams` extends `Symbols`: what a collector publishes under `to_canonical` a stream reads under `resolve_canonical`. `DeltaFeed` and `LiveSnapshot` are two views of the provider: the first has
the connection and no values, the second the values and a connection that may break at
any time. `Collector` sees the feed as messages that may come, or end, at any time.

Correspondence of `Collector`, as an example of the style: `Start` is the container's
start; `InitOk`/`InitFail` are `initialize()`; `NextMessage` is one
message of the provider's generator; `RedisOk`/`RedisFail` are `_process_event` around its `update_snapshot`
(the event is buffered and the trigger evaluated in the same step); `MainCommitOk/Fail`,
`LoopWake`, `LoopCommitOk`, `LoopHealth` are `_flush_buffers` and `_periodic_flush`; `StreamEnd`,
`LoopCancelled`, `FinalCommitOk/Fail`, `Close`, `Exit` are the `finally` block; `Signal` and
`Crash` come from outside. `Store(t)` is all-or-nothing and refuses a batch with a
repeated primary key, as one Postgres transaction does.

## 3. What is abstracted

Prices, sizes and texts are left out where no property is about them. Events are model values
with a kind and a primary key. Time is abstract except for the backoff delay: a
sleep or time-out may end at any moment after it began, and *fresh* says whether the
last message is younger than the stale threshold. Latencies are left out. Redis and
Postgres are reliable stores behind calls that may fail.
Money and quantities are integers in the unit of the code's rounding; `Rounded` is
`round(x, 4)` with ties to even. The prices of `OrderFlow` are in steps of the fifth decimal and its results rounded to the fourth, as in the code. Indicators are exact quotients, kept as numerator and denominator and never reduced; the signal
line averages the MACD over one denominator, of which the others are divisors. A symbol is the record of its parts
(class, base, separator, quote). Volume bins are numbered, their centres left out; the order in which an unstable sort
leaves equal bins is any order. The Sharpe ratio, Bollinger bands and realized volatility are
floating-point statistics and are left out.

## 4. Runs: what is checked and what it shows

Passing runs (TLC explores the whole state graph; no symmetry and no state
constraint is used).

**Collector** (78,666 states). Six events of four kinds, two candle updates with one
primary key, batch size 2, signals, crashes and failures at every await.
- `IInv`, the inductive invariant of section 6, with `TypeOK`, `OnePlace` and `BatchBound`: the three buffers the
  trigger reads stay below the batch size whenever the main task is suspended. It says nothing of order books
  and funding rates, because the code does not (section 7).
  Its part `OnePlace` says that an accepted row is in the buffers, in one task's transaction or in the
  database, never in two of them.
- `LiveBeforeDurable`: no row is ahead of its Redis update.
- `LossOnlyByFailedFlush`: rows are lost only a whole transaction at a time, or with the process.
- `ImplementsLog`: refinement of `DurableLog`.
- `BufferedRowsMove`: no row waits for ever.
- `StopLeadsToExit`: a stop ends the process, if the `recv()` under the stream comes back (`RecvComesBack`). It has no time-out
  (`delta_ws.py:130`): with a stop during the handshake, when there is no socket to close yet, and a feed that stays silent afterwards
  the process does not end.
  The run sets `RestImports` to TRUE: it is about the collector once its import of `delta_rest.py` works (section 7).

**DeltaFeed** (2,100 states). The real delays 1 s to 30 s; the history counter of
failures saturates at 7, past the sixth that reaches the cap; `DEGRADED` after 1 error instead of 10.
`OneHeartbeat`, `OpenFeedNotDisconnected`, `DelayMatchesFailures` (the delay is what the recursion of the code gives for the failures since the last success, 1, 2, 4, ..., 30),
`Reconnects`, `DisconnectEndsStream`, `StaleIsPublished`. The last is about `/health/providers` as well: a feed that
stays silent is not counted healthy for ever.

**FxCollector** (71,848 states). Two mapped symbols, two polls, batch size 2. `IInv` (with its
own `BatchBound` and `FlushedAtEnd`), `ImplementsLog`, `StopLeadsToExit`. Rows
have distinct keys: a pass stamps each symbol once.

**StrategyLoop** (68,313 states). Two symbols, two runner objects, both strategies, five markets
(none, without indicators, oversold, overbought, without VWAP), two trades.
`NoOrphanLoop` (a live loop that nobody stopped is in both registries, and can be stopped),
`StopIsFinal` (no trade after the stop), `EquityConserved` (an execution neither creates nor destroys value, and no
rounding of the order size overdraws the capital), `StoppedLoopEnds`. Prices are dollars in 1/10000 units of quantity, capital in 1/10000
dollars; capital 1 makes every rounded quantity zero and 700 rounds both ways.

**Trading** (1,131,608 states). One agent, halves of a contract, a per-trade limit of 2 and a position limit of 4 dollars, so
that it takes several orders to meet them; three scenarios in one run. In `gate` the agent asks before each of three market
orders and waits for the fill, with or without an entry price of its own in the request; in `sizing` it asks for a position size, at several prices and capitals, and takes it to the gate; in
`limits` it places and cancels limit orders without asking. The exchange accepts, rejects, fills and answers at any time or never.
- `ExposureCapped`: the position of the asking agent stays within the limit, unless the API made up an account or an answer.
- `RecommendationsFit`: the quantity suggested instead of a refused one is no larger and passes the exposure guard, and there is
  one unless the limit is not worth half of the smallest unit; a position
  size is worth at most its share of the capital, up to half a unit; the gate and the sizes agree.
- `HonestAnswers`: an answer that is not simulated is true at the exchange.

**Bootstrap** (55,340 states). Three services, two instruments, one crash, a REST window of three minutes and a backfill below two
candles. Time is unbounded: a candle is known by its age, and one out of the window is only counted. At this commit
`delta_rest.py` cannot be imported and `collector-delta` is not in the network of Postgres; the run starts in all four
combinations of either defect being there or repaired.
- `SeedAllOrNothing`, `SeedingNeverDeadlocks`: the waits for row locks follow the order of `symbols.yaml`.
- `EveryServiceComesUp`: a service comes up, although each may lose both races, and although a collector that starts
  over a few candles crashes until they have left the window. The Delta collector is excepted while its import fails or it cannot
  reach Postgres, that is, in the repository as it is: then it is restarted for ever, is never up, and the two other services come up without it.

**Streams** (104,512 states). One socket that asks for any collected instrument, by the symbol of the venue, by its canonical name, and for a pair
with or without its class and with any of three separators, or two sockets under one name; two messages of the clients, one update per snapshot.
- `RegisteredIsServed`: registry and gauge hold a socket exactly as long as its loop runs.
- `GoneClientForgotten`: a client that left without a word is found out.
- `PingAnswered`: every ping is answered, though the loop takes one message per frame.
- `FreshReachesClients`: each update, or a newer one, reaches a client that wrote the instrument without its class. A client that
  wrote the class is never shown anything: a name with a `/` matches no route, so that nothing opens, and `resolve_canonical` knows no
  other name with a class, not even the canonical `RATE:US10Y`. (Nor does a name like `BTC/USD`, without a class, open anything.)

**LiveSnapshot** (269,872 states). Eleven messages (full, partial, nested, malformed, of every
channel), one API request, at most three versions. `EveryValueAccounted`: every value the feed gave
is on the wire, in an event, in the hash (or superseded there), dropped with a connection, or
was not readable where the parser looks. `OnlyRestGoesBack`: the collector alone
never takes a field back in time.
This run and `Streams` have `CHECK_DEADLOCK FALSE`: the exchange stops at the
bound of versions, the sockets of `Streams` are opened once, and nothing left to handle is a legitimate end.

**History** (56,134 states). Every window of up to six candles out of six kinds over five price levels, and
every slide of it. One confirming bar per side instead of two, so that both reversals fit; only
two events and one block are kept, so that truncation happens (20 and 10 in the code).
- `SwingsNeverRepaint`, `GapsStayFilled`: what two successive answers say agrees.
- `SupportBelowResistance`: active bullish gaps lie below active bearish ones.
- `TrendFollowsBreaks`: trend, events and blocks of an answer agree, also truncated.
- `ProfitIsCash`: gross profit minus gross loss, paired from the list of trades, is what the cash says.
- `DrawdownIsWorstFall`: the single pass finds the worst fall, as long as the account is not overdrawn.
  With a smaller capital TLC shows that condition to be needed: after equity 60, 56, -5 the
  single pass reports 65/60, but 61/56 is worse.
- `ValueAreaAroundPoc`: in whatever order equal bins are taken, the value area holds its share with as few bins as possible, and POC
  lies in it unless another bin holds as much. Four bins instead of 50, so that ties and full bins occur.
- `IndicatorsMatchDefinitions`: each indicator against its closed form or its bounds, and from the first candle that completes
  it: the moving average equals the weighted sum of all closes; RSI is 100 exactly without a loss; the MACD and its signal are below zero
  after closes that only fell; ATR and VWAP lie within the prices they are taken of. Periods 2 and 3 instead of 9 to 200, so that six
  candles have values before and after the first.
- `MeasuresFitBook` (the other machine of the run; six books, two of them with one side and one without sizes, prices whose mean
  falls between two results, and a book made up from an odd spread): a request fails exactly if the collector has stored a book, or if it is for Delta and the
  client cannot be imported; in any other answer best prices, spread, microprice and walls agree with the book, as far as the rounding lets them.

Runs that end in a violation; each is a finding in `PROJECT.json`.

| Run | Property | What happens |
|---|---|---|
| `Collector_cleanstop` | `NothingLostWithoutFault` | SIGTERM while the flush loop is in `commit()`: `flush_task.cancel()` (`delta_runner.py:163`) rolls the transaction back, its rows have left the buffers, and the log says "shut down cleanly" |
| `StrategyLoop_zombie` | `RefusedBecauseRunning` | a loop that died of an exception stays in both registries; starting it again is refused as "already running" |
| `Trading_simulated` | `SimulatedHasNoEffect` | the exchange executes an order whose answer came late; the API answers a simulated one |

Every property of a passing run has a *mutant* in `PROJECT.json`: a plausible bug in a mapped
definition that makes TLC report a violation under the same configuration.

## 5. Fairness

Safety runs that need none use `Spec`. Liveness is checked under `FairSpec`:
- Weak fairness of the steps of a task: the event loop runs every ready task, and
  each awaited call ends. Redis and Postgres clients fail rather than hang, `sleep` ends,
  and the HTTP client has a 5 second time-out (`delta_private.py`). The `recv()` of the feed has none:
  `StreamStep` of `DeltaFeed` therefore does not promise a message, and
  `DisconnectEndsStream` is stated under an assumption of its own, `TalkativeFeed`. In `Collector` neither `NextMessage` nor `StreamEnd` is
  fair, and `StopLeadsToExit` has the assumption `RecvComesBack` on its left. `StopLeadsToExit` of `FxCollector` needs none: there
  every call has a time-out.
- Weak fairness of `Start`: `restart: unless-stopped` in `docker-compose.yml`.
- Weak fairness of the loop of each socket (`Serve` in `WsStreams`): a receive has a time-out, a sleep ends, and a send into a dead
  connection fails at the latest when the server's keepalive does. Clients and collectors have no fairness.
- Strong fairness of `Minute` in `Bootstrap`: time goes on, so that candles leave the window.
- Strong fairness of an attempt's success (`InitOk`, `InitDbOk`, `ConnectOk`, `SubscribeOk`): an
  operation that is retried for ever eventually succeeds. Liveness of a service that can never
  reach its database is not claimed: `InitDbOk` of `Bootstrap` has the guard `p \in online`, and the fairness asks
  nothing of a service outside of the network. `InitOk` of `Collector` has the guard `RestImports`. `Crash`, `Signal` and failures have no fairness.
- `Trading`, `LiveSnapshot` and `History` are checked for safety only and assume no fairness.

## 6. Proofs

`CollectorProofs` proves, for all events, kinds, keys, messages and batch sizes that satisfy
`ConstantsAssumption`:

| Theorem | States |
|---|---|
| `Invariance` | `Spec => []IInv` |
| `NoDoubleInsert` | `Spec => []OnePlace` |
| `BatchBounded` | `Spec => []BatchBound` |
| `LiveFirst` | `Spec => []LiveBeforeDurable` |
| `AccountOfLosses` | `Spec => LossOnlyByFailedFlush` |
| `Implementation` | `Spec => ImplementsLog` |

Argument. None of the properties is inductive alone. `OnePlace` survives the append of a row only if the event in hand
was never accepted before, which needs `Unprocessed` (the pending events are delivered, pairwise distinct and
not yet shown or accepted) and `Provenance` (stored and held rows were accepted, accepted rows were
shown). It survives a drain only if the draining task's transaction is empty, which is
`BatchOnlyInCommit` (a task has a batch only while it is inside a commit). `BatchBound` needs
the same to know that a drain empties the lists, `FlushedAtEnd` says that nothing is
appended after the final drain, and the key constraint `UniqueKeys(db)` makes `Store` well behaved.
`IInv` is their conjunction with `TypeOK`; TLC checks it as an invariant of the run `Collector` before it is proved.
The proof has one lemma per group of actions (`ControlKeepsIInv`, `NextMessageKeepsIInv`,
`RedisOkKeepsIInv`, `CommitKeepsIInv`, ...), `StepKeepsIInv` joins them, and the temporal step is PTL.
The size argument uses `FewerRows` (a subset has at most as many rows of a kind). For
the refinement, `RowsMove` says how a step may move rows, one lemma per group of actions shows it
(`RedisOkMoves`, `StopMoves`, `CommitMoves`, `CrashMoves`, `OtherMoves`), and the mapping follows.

The other proofs follow the same plan: an inductive invariant, one lemma per group of actions, a lemma for `[Next]_vars`, PTL.

| Module | Theorem | States | For every value of |
|---|---|---|---|
| `FxCollectorProofs` | `Invariance` | `Spec => []IInv` | symbols, mapped symbols, batch size, polls |
| | `Implementation` | `Spec => ImplementsLog` | |
| `DeltaFeedProofs` | `SingleHeartbeat` | `Spec => []OneHeartbeat` | delays and thresholds |
| | `OpenFeedIsConnected` | `Spec => []OpenFeedNotDisconnected` | |
| | `DelayDoubles` | `Spec => []DelayMatchesFailures` | |
| `BootstrapProofs` | `SeedingIsAtomic` | `Spec => []SeedAllOrNothing` | services, instruments, window, crashes, and with the import and the network as they are or repaired |
| | `SeedingIsOrdered` | `Spec => []SeedingNeverDeadlocks` | |
| `StrategyLoopProofs` | `LoopsAreReachable` | `Spec => []NoOrphanLoop` | symbols, runners, markets, capitals |
| | `StopEndsTrading` | `Spec => StopIsFinal` | |
| | `TradesConserveEquity` | `Spec => EquityConserved` | |
| `LiveSnapshotProofs` | `TypeCorrect` | `Spec => []TypeOK` | messages, requests, versions |
| | `ValuesAccounted` | `Spec => []EveryValueAccounted` | |
| | `FeedNeverGoesBack` | `Spec => OnlyRestGoesBack` | |
| `TradingProofs` | `Invariance` | `Spec => []IInv` | agents, scenarios, prices, capitals, sizes, limits |
| | `AnswersAreHonest` | `Spec => []HonestAnswers` | |
| | `RecommendationsKeepLimits` | `Spec => []RecommendationsFit` | |
| | `ExposureIsCapped` | `Spec => []ExposureCapped` | |
| `ReaderProofs` | `NoRepaint` | `CandlesSpec => SwingsNeverRepaint` | candles, window, confirming bars |
| | `GapsDoNotReopen` | `CandlesSpec => GapsStayFilled` | |
| | `GapsLeaveRoom` | `CandlesSpec => []SupportBelowResistance` | |
| | `BreaksTellTrend` | `CandlesSpec => []TrendFollowsBreaks` | also the limits of the answer |
| | `GrossAccountsForCash` | `CandlesSpec => []ProfitIsCash` | candles, window, capital, slippage |
| | `OnePassFindsWorst` | `CandlesSpec => []DrawdownIsWorstFall` | |
| | `AreaHoldsShare` | `CandlesSpec => []ValueAreaAroundPoc` | candles, bins, share |
| | `IndicatorsAreRight` | `CandlesSpec => []IndicatorsMatchDefinitions` | candles, window, periods |
| | `MeasuresFit` | `FlowSpec => []MeasuresFitBook` | books, prices, spread, unit of the results, levels, wall factor |
| | `RegistryIsRight` | `Spec => []RegisteredIsServed` | sockets, requests, instruments |

`FxCollector`. `IInv` is the one TLC checks. Its `Provenance` says that the ticks a pass has still to yield were not accepted before
and that one tick is in hand at a time; that makes the row appended by `RedisOk` new (`RowIsNew`), and a single
`Log!Accept`. `EndOfTransaction` is the one lemma behind all commits and drains of either task. The bound on the buffer rests on
`FiniteTicks`, the finiteness of symbols times polls. `RowsMove` and `RowsLeave` carry the refinement.

`DeltaFeed`. `FeedInv`: `_heartbeat_task` refers to the only heartbeat there can be, and a subscribed
stream of a running provider has it and was recorded as connected. Without the first part `ConnectOk`, which cancels the task it refers to and starts another, could leave two.
`DelayInv` adds for `DelayDoubles` that the delay is `DelayAfter` of the failures, which is the code's own recursion, and that a stream in its backoff has counted a
failure, so that the doubled delay is the next value of the recursion. That `DelayAfter`
satisfies its own recursion (`DelayAfterRecurs`) is proved from the existence and uniqueness of its initial segments, by induction on a *set* of
numbers (`InductionOn`): the library's `WFMin` gives a least counterexample and takes no operator.

`Bootstrap`. `SeedInv` adds to the two properties that a process holds exactly the items it has passed and that are not
committed by somebody else (`PassedItems`), and that open transactions are `Disjoint`. From these a commit takes the table
from none to all, and a wait goes from a smaller to a larger position.

`StrategyLoop`. `LoopInv` adds that both registries are equal, that each registered runner is in use, under one symbol, and not cancelled,
and that an unused one is not marked. For the trades, `RoundedBound` (a rounded quotient exceeds the quotient by at most one half) gives `OrderIsAffordable`: half of the
capital, rounded up, is never more than the capital, also at prices that make the quantity zero.

`LiveSnapshot`. `IInv` is `TypeOK`, `InOrder` (wire and event in hand are ordered by their versions), `Located` (each readable value the feed gave is
on the wire, in an event, dropped, or overtaken: then everything still in flight is at least as new) and `FeedIsOlder` (what the collector put
into the hash is no newer than what is in flight). The property alone is not inductive: it is satisfied by *a* message with the version, while a value
leaves the accounting when a newer one of its field is stored over it, which only the order excludes for values in flight. What a parser does is one lemma, `ParseReads`: it reads
every part that is where it looks, and nothing else. The assumption `Carries` (a channel carries only the parts its
parser looks for) is what the channels of the exchange are for.

`Trading`. `IInv` has five parts: `TypeOK`; `AnswersInv` (`HonestAnswers`, only an answered call is
simulated, and the target of an accepted cancel is cancelled, also before the answer); `AdviceInv` (a recommended size and a verdict are those of
`RiskGate` for the account and the price they were asked with); `OneAtATime` (an agent waits for at most one
call); `ExposureInv` (for an agent that asks and waits: an order that is not yet filled keeps the position within its
limit at the price, and an agent that may order next knows the position as it is). The last is not implied by
`ExposureCapped`, which speaks of the position alone: the limit is kept by the check *before* the order, and the fill
only completes it. Arithmetic: `RoundedWithin` (a rounded quotient is within half a unit), from it `SuggestionFits`, `FixedFractionalFits` and `KellyFits`, `WorthlessFits` for a gate without any price, and
`GateFacts` for the guards of `check_trade` in their order. `position` is a variable of its own, the sum of what was filled, so that no proof has to fold over the calls.

`ReaderProofs` has six parts. *Structure*: swings and gaps of two answers are compared candle by candle, from `WindowMoves` (a step moves the window by
at most one and changes only its last candle); `GapsLeaveRoom` uses that a candle after a gap has not traded back into it, and so decides the order of two gaps by
the later of them. `TrendFollowsBreaks` is the loop invariant `Story` of the walk: `Turns` (a break is a reversal exactly if the break before it went the other way, and the last one gave the
trend), `Marks` (the trend is that of the last block) and `Enumerates` (the blocks are the reversals, in order: a growing function from blocks to events, kept by sweeps and extended by
a reversal). The answer shows the end of both lists, cut at different lengths; `RecentFacts` and `RestOfEnumeration` count from the newest to match a reversal with its block. *Backtest*: the engine after n candles, the gross profit after n trades and the drawdown after n points are recursive functions;
`Recursion` shows once that a loop whose rounds keep their states in a set computes something, and `EnginesRecur`, `GrossRecurs` and `DrawdownsRecur` that the three functions are
what their loops say. `ProfitIsCash` is the loop invariant `Balanced`, which needs `Alternates` (purchase and sale take turns) to know that the trade a sale is paired
with is the purchase that opened the position. `DrawdownIsWorstFall` is the loop invariant `IsWorst`; it needs `IsPeak` (the
running peak is a point of the curve and none is above it) and three facts about proportions without division: `NewWorst`, `PeakIsWorst`
and `PeakNotWorse`, the last two only for points that are not below zero. *Sums*: a sum is a recursive function, too (`SumsRecur`), monotone (`TotalAtMost`) and linear (`TotalLinear`), and a cardinality is a sum of ones. *Volume profile*: `BinsHoldAll` (each candle is in one bin, so that the bins
hold all that was traded), `LargestHoldMost` (no choice of bins holds more than as many of the largest: compare, bin by bin, volumes that are exchanged for the smallest of them) and the least number of bins that is enough. *Order flow*: the walls' shares of the
depth bound their number (`WallsStand`), `Weighting` is the algebra of the microprice, and `MicropriceFits` carries it over the rounding, which is
within half a unit (`RoundedNearest`) and `RoundedMonotone`; `SaidFits` is the measures of one book, `FlowInv` what an answer can be, and that `asked` in it tells whether a book was stored. *Indicators*: `AveragesRecur` says what the running average of all indicators is (`IsAverages`: the mean of the first values, which each later value moves
`Nearer`), and every other fact is an induction along it (`AveragesInduct`, on a set of numbers). `AveragesAreWeighted` is the closed form, with the weights of one more value from
`WeightedGrows` and `PowerRecurs`. `AveragesAtLeast` and `AveragesAtMost` (an average stays within the bounds of its values) give the ATR, and the signal of a MACD whose numerators are all below zero;
`AveragesPositive` (no value is ever forgotten) gives RSI 100 exactly without a loss. That is where `RsiPeriod > 1` is needed: of one bar, Wilder's average is the last value. The MACD compares *two* averages in a fall, which neither bound does. `Slower` is the
step: if the fast one is not above the slow one, both are moved by a value below them, and the fast one gives it the larger share, the fast one ends strictly below. While only the fast
one exists it is compared with the mean of all values so far (`BelowMean`), which moves by 1 / t and is what the slow one starts from; `FastBelowSlow` goes on from there.
*Streams*: `RegistryInv` (a socket is registered, under the name it asked for,
while its loop runs); the gauge is the cardinality of the registered pairs, and
`CountIsOpen` is a bijection to the sockets that are open, which are finitely many by `RequestsAssumption`.

Only model-checked: every liveness property (ENABLED and fairness are out of the prover's reach), and with them `GoneClientForgotten`,
`PingAnswered` and `FreshReachesClients`. Every safety property of a passing run, invariant or action property, is a theorem.
The indicators are proved of exact quotients: what binary floating point adds in the last digits is neither modelled nor proved.

## 7. What the code does that a reader may not expect

Found while modelling. Those with a run are in section 4; the others are seen in the
modules or in the lines named here.

*Collector.* The trigger looks at ticks, trades and candles only (`delta_runner.py:287-288`): order
book and funding rows wait for the periodic flush, whatever their number, although `README.md:24` promises batch
buffering for order books, too. A periodic commit that fails is logged and its rows are lost
(`:107-113`), and that round publishes no health. One duplicate key fails the rows of all five
kinds (`:115-144`). A signal during `initialize()` is undone by `connect()` (`:149`, `delta_ws.py:59`). A failed
final flush skips `disconnect` and `close` (`:164-167`). The last status stays in Redis after the end.
A stop during the handshake of a feed that then stays silent does not end the process (`delta_ws.py:62-75`, `:130`).

*The Delta collector does not start.* `delta_rest.py:47-57` is not valid Python (a `try` without `except`), and `delta_runner.py:67`
imports it outside of any `try`: `initialize()` raises a `SyntaxError` at every start, after the seeding is committed, and `restart: unless-stopped`
starts it again, for ever. It does not get that far with `docker-compose.yml` as it is, where `collector-delta` (`:62-80`) lacks
`networks: swaram-net`, so that it does not reach Postgres and `init_db` raises. `Bootstrap` has both, as they are and repaired. The other
importers raise, too, whenever they get to the import: the analytics of an instrument of any venue with fewer than ten candles (`analytics.py:22`), the order flow of Delta
(`orderflow.py:24`), and both REST fallbacks of the snapshot (`market.py:53`, `tools.py:148`). `OrderFlow` examines both cases. `Collector` has
the switch `RestImports`, which its runs set to TRUE: with FALSE the collector never leaves `initialize()` and there is nothing to see. `DeltaFeed` and `LiveSnapshot`
are about the provider and the fallback once the file compiles; without it no REST answer is stored, which only removes behaviours, and
`OnlyRestGoesBack` says that then no field ever goes back.

*Backfill of few candles* (`delta_runner.py:66` "if DB has few/no candles"). With one to nine candles in the
table and an answer of the exchange that contains one of them, `add_candles` inserts them all, the
primary key conflict makes `initialize()` raise, and the collector is restarted until the answers no longer
reach back to them: one hundred minutes after the last of them. In `Bootstrap` this is `BackfillConflicts`, and
`EveryServiceComesUp` holds because time goes on. All this is about the code once `delta_rest.py` can be imported.

*Feed.* Pongs are never checked and a silent connection is never replaced, only reported `STALE`
(`ARCHITECTURE.md:15` speaks of a stale feed watchdog). A clean close is no exception: the reconnect skips
the backoff, and `connected` stays TRUE. `error_count` is never reset, so `DEGRADED` is for ever. With
websockets 14 the heartbeat's `.open` does not exist, and the exception is caught at every beat.

*FX collector.* When the price source fails, cached prices are published with new timestamps, and the feed is
`HEALTHY`. A disconnect in the middle of a pass is undone by the next tick's
`record_message` (`ctrader.py:126`). Error counts stay below the `DEGRADED` threshold in the model.

*Start-up.* A failed statement in `init_db` is swallowed while Postgres has aborted the transaction
(`postgres.py:88-93`). `get_by_canonical` takes `.first()` of several venues without an order. 
*Snapshot.* A field missing from a message keeps its older value beside newer ones (`redis.py:43-51`). Funding in a
nested ticker is lost (`delta_ws.py:238`). The REST fallback writes what it read over a newer
snapshot (`market.py:72`), and `tools.py` falls back without a look at the database. Nothing in the repository writes indicators
into the snapshot, so the strategies see none and never enter; EMA9 is stored and not compared
(`strategy.py:74`). The model allows the indicators, so that the loops trade at all.

*Risk and orders.* Without a last price the gate takes the `entry_price` the agent wrote (`risk.py:86`); with 0 for that, too, only the
drawdown guard is left. Short selling passes the exposure limit
(`engine.py:44`). Two agents may pass the gate with one position (`risk.py:88`). `place_order` is not gated at
all (`execution.py:88`, `RISK.md:8`): the guarantees of `Trading` are those of an agent that asks. The limits may be overridden
in each request. The quantity is truncated to whole contracts (`delta_private.py:104`, although `HERMES_MCP.md:27` orders 0.05).
A recommended quantity is rounded to 4 decimals and may exceed the limit by the rounding (`engine.py:73`). A failed
cancel is answered as done (`execution.py:137`), a balance that cannot be read is made up (`execution.py:46`),
`initial_capital` 0 divides by zero (`engine.py:43`).

*Structure and backtest.* An order block is the candle before the break, whatever its colour, while the comment says
"the last bearish candle before this breakout". An event at a bar may be withdrawn later: a swing counts from the bar
after its peak, but is confirmed by two more. With one confirming bar on the left and two on the
right, seven candles show it: the second is a swing high, two lower ones confirm it, the fifth closes far above, the sixth closes low but its wick
still passes the old swing and is reported as a SWEEP, the seventh is low, too. It confirms the fifth candle as the swing to compare with, and
the sweep reported at the sixth candle is gone. A backtest without a trade raises `KeyError: final_capital` (`backtest.py:90`).
Nothing checks that the cash covers a purchase. For an instrument without candles the route makes up 100 of them around 65000
(`backtest.py:46-64`) and does not say so; to the model they are candles like any other.

*Order flow.* A row of `orderbook_snapshots` has no `bids` and no `asks` (`market_data.py:51-66`), but `orderflow.py:19` reads them: once the
collector has stored a book, every request fails with an `AttributeError`, for good. `tests/integration/test_orderflow_api.py:32-39` passes a row
of its own making. Before that every request for Delta fails with the `SyntaxError` of its client (`:24`).
For `ctrader` the book is made up around the last price, or 1.0850 for any instrument (`orderflow.py:36`). Results are rounded to 4 decimals
(`orderbook.py:112-117`), which is coarser than a quote: the spread of GBPUSD is 0.00015, and the microprice of a currency pair may be below its bid.
The positioning regime is computed from the constants 5000, 4800 and 1.2 (`tools.py:300-303`).
`orderflow.py:91` and `tools.py:291` call `get_latest_funding`, which does not exist.

*Indicators.* RSI is 100 in a market that does not move. VWAP is 0 without volume. EMA200 of an answer of 200 candles
is their mean. With four equal bins POC may lie outside the "70% of total volume around POC" (`volume.py:71`).

*Health and telemetry.* A provider without a record, or `DEGRADED`, counts as healthy in `/health/providers`; a record never expires, so
that a dead collector keeps its last status. `telemetry.py` sums `message_count`, while `health.to_dict` writes
`messages_received`: the total is always 0. The calendar watchdog cannot warn. `market.py:26` reads the health of the Delta feed for every symbol.

*Streams and names.* The snapshot of a dead collector is streamed with a fresh timestamp. A message of bytes ends the stream with a `KeyError`.
`resolve_canonical("RATE:US10Y")` is `"UNKNOWN:RATE:US10Y"`: the stream of that rate is reached by the venue's symbol `US10Y` only.
The path `/ws/market/{symbol}` carries one segment, and the server decodes a percent-encoded `/` before it matches: no canonical pair
(`CRYPTO:BTC/USD`) and no `BTC/USD` opens a stream, and with another separator a name with its class is `UNKNOWN`.
`BTC-PERPETUAL`, a symbol of a venue without a collector, is not known at all.

*Placeholders of the tools.* With an account that cannot be read the tools go on with a made-up balance and no positions, which the gate lets pass.

## 8. Not modelled

Of the tools: news, calendar, context and correlation (reads and pure formulas). Of the analytics: Bollinger bands and
realized volatility, positioning (its inputs are constants), anomalies and correlation (called by nothing that runs). The macro
watchdog is a function of a static calendar, the Hermes context is text. Telemetry reads, settings, logging,
migrations apart from the primary keys, and operator scripts keep no state. The HMAC signature is a pure function with a test.
`AgentBacktestSimulator` is used by nothing; `to_provider_symbol` and `parse_canonical` are called by tests only.
Redis pub/sub (`publish_event`) has neither a publisher nor a subscriber.

## 9. Plan

Done, in this order: `DurableLog`, `Collector` and its proofs, `DeltaFeed`, `StrategyLoop`, `FxCollector`, `RiskGate` and `Trading`,
`Bootstrap`, `LiveSnapshot`, `Candles` with `MarketStructure` and `Backtest`, `Symbols` and `WsStreams`, `VolumeProfile`, `Indicators`, `OrderFlow`;
then the proofs of `DeltaFeed`, `Bootstrap`, `StrategyLoop`, `FxCollector`, `LiveSnapshot`, `Trading`, of the registry, the swings, gaps and breaks, the backoff delay, the backtest, the volume profile, the order flow and the indicators.

A further model worth having is a composition of `DeltaFeed` with `Collector`, in which health and flush share a task.
