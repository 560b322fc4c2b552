----------------------------- MODULE FxCollector -----------------------------
(***************************************************************************)
(* The forex, metals and commodities collector:                            *)
(* apps/collectors/multi_asset_runner.py (MultiAssetRunner) with           *)
(* swaram/providers/forex/ctrader.py (CTraderForexProvider).               *)
(*                                                                         *)
(* Same two tasks as Collector, but the events come from polling: each     *)
(* poll merges the prices Yahoo answered into a cache and then yields one  *)
(* tick per cached price, whether this poll answered it or not.  A step    *)
(* runs from one await to the next.  Error counts stay below the DEGRADED  *)
(* threshold.                                                              *)
(***************************************************************************)
EXTENDS Naturals, FiniteSets

CONSTANTS
    Symbols,    \* provider symbols, the keys of YAHOO_SYMBOLS
    Mapped,     \* those whose instrument is in instrument_map
    BatchSize,  \* settings.db_batch_size
    MaxPolls    \* bound on the number of polls

ASSUME FxAssumption ==
    /\ IsFiniteSet(Symbols)
    /\ Mapped \subseteq Symbols
    /\ BatchSize \in Nat \ {0}
    /\ MaxPolls \in Nat

Ticks == Symbols \X (1..MaxPolls)       \* a tick's row: its symbol and poll
Tasks == {"main", "loop"}

VARIABLES
    pc,           \* where the main task is suspended
    fl,           \* where the flush-loop task is suspended
    running,      \* runner._running; cleared together with flush_task.cancel()
    provRunning,  \* provider._running
    cache,        \* keys of provider._prices
    polls,        \* number of the current poll, whose time stamps its ticks
    hand,         \* symbol of the tick being processed, {} if none
    todo,         \* symbols the current pass has still to look at
    connected,    \* health.connected
    fresh,        \* health.age_seconds <= stale_threshold_sec
    published,    \* status in Redis, health:provider:ctrader
    buf,          \* runner._ticks_buf
    batch,        \* ticks a task has drained and is committing
    db,           \* ticks in Postgres
    accepted,     \* history: ticks appended to the buffer
    signalled     \* history: this process was sent SIGTERM or SIGINT

vars == <<pc, fl, running, provRunning, cache, polls, hand, todo, connected,
          fresh, published, buf, batch, db, accepted, signalled>>
health   == <<connected, fresh, published>>
pass     == <<hand, todo>>
rows     == <<buf, batch, db, accepted>>
inMemory == buf \cup batch["main"] \cup batch["loop"]
Lost     == accepted \ (inMemory \cup db)

Status == IF ~connected THEN "DISCONNECTED"
          ELSE IF ~fresh THEN "STALE" ELSE "HEALTHY"

-----------------------------------------------------------------------------
(* The write buffer and the database session.                              *)

\* mutant: the list is copied but not cleared
DrainWithoutClear(t) == /\ batch' = [batch EXCEPT ![t] = buf]
                        /\ UNCHANGED buf
Drain(t) == /\ batch' = [batch EXCEPT ![t] = buf]
            /\ buf' = {}

Settled(t) == batch' = [batch EXCEPT ![t] = {}]
\* mutant: the rows that the other task is committing are marked stored too
StoreAll(t) == db' = db \cup inMemory
Store(t)   == db' = db \cup batch[t]
Abort(t)   == UNCHANGED db \/ Store(t)

-----------------------------------------------------------------------------
(* Process start, and provider.connect() with its warm-up fetch.           *)

Start ==
    /\ pc = "down"
    /\ pc' = "init"
    /\ running' = TRUE
    /\ UNCHANGED <<fl, provRunning, cache, polls, pass, health, rows, signalled>>

InitOk ==
    /\ pc = "init"
    /\ pc' = "warmup"
    /\ provRunning' = TRUE /\ connected' = TRUE
    /\ UNCHANGED <<fl, running, cache, polls, pass, fresh, published, rows,
                   signalled>>

InitFail ==
    /\ pc = "init"
    /\ pc' = "down"
    /\ running' = FALSE /\ provRunning' = FALSE /\ signalled' = FALSE
    /\ connected' = FALSE
    /\ UNCHANGED <<fl, cache, polls, pass, fresh, published, rows>>

\* stream_events' "while self._running": the next poll begins, or the stream
\* ends and start() goes to its finally block.
TopOfLoop == IF provRunning THEN "poll" ELSE "ended"

WarmedUp ==
    /\ pc = "warmup"
    /\ cache' \in SUBSET Symbols
    /\ fl' = "sleep"
    /\ pc' = TopOfLoop
    /\ UNCHANGED <<running, provRunning, polls, pass, health, rows, signalled>>

-----------------------------------------------------------------------------
(* start()'s finally block up to the final flush's commit.                 *)

BeginShutdown ==
    /\ running' = FALSE
    /\ hand' = {} /\ todo' = {}
    /\ IF buf = {} THEN pc' = "closing" /\ Settled("main") /\ UNCHANGED buf
                   ELSE pc' = "final" /\ Drain("main")

StreamEnd ==
    /\ pc = "ended"
    /\ BeginShutdown
    /\ UNCHANGED <<fl, provRunning, cache, polls, health, db, accepted,
                   signalled>>

-----------------------------------------------------------------------------
(* Polling.                                                                *)

\* The next tick of the pass, yielded to the runner; at the end of the pass
\* the provider sleeps.  _running is not looked at in between.
Emit(S) ==
    IF S = {}
    THEN /\ pc' = "pause"
         /\ hand' = {} /\ todo' = {}
         /\ UNCHANGED <<connected, fresh>>
    ELSE /\ pc' = "redis"
         /\ \E s \in S : hand' = {s} /\ todo' = S \ {s}
         /\ connected' = TRUE /\ fresh' = TRUE

\* The poll returns prices for some of the symbols; the others keep the price
\* they had.
Polled ==
    /\ pc = "poll" /\ polls < MaxPolls
    /\ \E got \in SUBSET Symbols : cache' = cache \cup got
    /\ Emit(cache')
    /\ polls' = polls + 1
    /\ UNCHANGED <<fl, running, provRunning, published, rows, signalled>>

\* The poll raises: recorded, and retried after a sleep.
PollFails ==
    /\ pc = "poll"
    /\ pc' = "pause"
    /\ UNCHANGED <<fl, running, provRunning, cache, polls, pass, health, rows,
                   signalled>>

PauseEnds ==
    /\ pc = "pause"
    /\ pc' = TopOfLoop
    /\ UNCHANGED <<fl, running, provRunning, cache, polls, pass, health, rows,
                   signalled>>

-----------------------------------------------------------------------------
(* _process_event.                                                         *)

BatchFull(B) == Cardinality(B) >= BatchSize

\* update_snapshot has returned: append the tick, and flush a full buffer.
RedisOk ==
    /\ pc = "redis"
    /\ LET row   == (hand \cap Mapped) \X {polls}
           after == buf \cup row
       IN  /\ accepted' = accepted \cup row
           /\ IF BatchFull(after)
              THEN /\ batch' = [batch EXCEPT !["main"] = after]
                   /\ buf' = {} /\ hand' = {}
                   /\ pc' = "commit"
                   /\ UNCHANGED <<todo, connected, fresh>>
              ELSE /\ buf' = after
                   /\ UNCHANGED batch
                   /\ Emit(todo)
    /\ UNCHANGED <<fl, running, provRunning, cache, polls, published, db,
                   signalled>>

RedisFail ==
    /\ pc = "redis"
    /\ BeginShutdown
    /\ UNCHANGED <<fl, provRunning, cache, polls, health, db, accepted,
                   signalled>>

CommitOk ==
    /\ pc = "commit"
    /\ Store("main") /\ Settled("main")
    /\ Emit(todo)
    /\ UNCHANGED <<fl, running, provRunning, cache, polls, published, buf,
                   accepted, signalled>>

CommitFail ==
    /\ pc = "commit"
    /\ Abort("main")
    /\ BeginShutdown
    /\ UNCHANGED <<fl, provRunning, cache, polls, health, accepted, signalled>>

-----------------------------------------------------------------------------
(* The rest of the finally block, and asyncio.run's cleanup.               *)

FinalCommitOk ==
    /\ pc = "final"
    /\ Store("main") /\ Settled("main")
    /\ pc' = "closing"
    /\ UNCHANGED <<fl, running, provRunning, cache, polls, pass, health, buf,
                   accepted, signalled>>

FinalCommitFail ==
    /\ pc = "final"
    /\ Abort("main") /\ Settled("main")
    /\ pc' = "exiting"
    /\ UNCHANGED <<fl, running, provRunning, cache, polls, pass, health, buf,
                   accepted, signalled>>

\* provider.disconnect(), close_redis(), close_db().
Close ==
    /\ pc = "closing"
    /\ provRunning' = FALSE /\ connected' = FALSE
    /\ pc' = "exiting"
    /\ UNCHANGED <<fl, running, cache, polls, pass, fresh, published, rows,
                   signalled>>

FreshProcess ==
    /\ pc' = "down" /\ fl' = "none"
    /\ running' = FALSE /\ provRunning' = FALSE /\ signalled' = FALSE
    /\ cache' = {}
    /\ hand' = {} /\ todo' = {}
    /\ connected' = FALSE /\ fresh' = FALSE
    /\ buf' = {} /\ batch' = [t \in Tasks |-> {}]

Exit ==
    /\ pc = "exiting" /\ fl = "done"
    /\ FreshProcess
    /\ UNCHANGED <<polls, published, db, accepted>>

-----------------------------------------------------------------------------
(* The flush loop.                                                         *)

LoopWake ==
    /\ fl = "sleep" /\ running
    /\ IF buf = {} THEN fl' = "health" /\ UNCHANGED <<buf, batch>>
                   ELSE fl' = "commit" /\ Drain("loop")
    /\ UNCHANGED <<pc, running, provRunning, cache, polls, pass, health, db,
                   accepted, signalled>>

LoopCommitOk ==
    /\ fl = "commit" /\ running
    /\ Store("loop") /\ Settled("loop")
    /\ fl' = "health"
    /\ UNCHANGED <<pc, running, provRunning, cache, polls, pass, health, buf,
                   accepted, signalled>>

LoopCommitFail ==
    /\ fl = "commit" /\ running
    /\ Abort("loop") /\ Settled("loop")
    /\ fl' = "sleep"
    /\ UNCHANGED <<pc, running, provRunning, cache, polls, pass, health, buf,
                   accepted, signalled>>

\* update_provider_health writes the current status, or raises and is logged.
LoopHealthOk ==
    /\ fl = "health" /\ running
    /\ published' = Status
    /\ fl' = "sleep"
    /\ UNCHANGED <<pc, running, provRunning, cache, polls, pass, connected,
                   fresh, rows, signalled>>

LoopHealthFail ==
    /\ fl = "health" /\ running
    /\ fl' = "sleep"
    /\ UNCHANGED <<pc, running, provRunning, cache, polls, pass, health, rows,
                   signalled>>

\* mutant: the loop's handler swallows the cancellation and sleeps again
LoopIgnoresCancel ==
    /\ fl \in {"sleep", "health"} /\ ~running
    /\ fl' = "sleep"
    /\ UNCHANGED <<pc, running, provRunning, cache, polls, pass, health, rows,
                   signalled>>
LoopCancelled ==
    /\ fl \in {"sleep", "health"} /\ ~running
    /\ fl' = "done"
    /\ UNCHANGED <<pc, running, provRunning, cache, polls, pass, health, rows,
                   signalled>>

LoopCancelledInCommit ==
    /\ fl = "commit" /\ ~running
    /\ Abort("loop") /\ Settled("loop")
    /\ fl' = "done"
    /\ UNCHANGED <<pc, running, provRunning, cache, polls, pass, health, buf,
                   accepted, signalled>>

-----------------------------------------------------------------------------
(* The environment.                                                        *)

\* The signal handler's task runs provider.disconnect().
Signal ==
    /\ pc # "down" /\ ~signalled
    /\ signalled' = TRUE
    /\ provRunning' = FALSE /\ connected' = FALSE
    /\ UNCHANGED <<pc, fl, running, cache, polls, pass, fresh, published, rows>>

Crash ==
    /\ pc # "down"
    /\ \E T \in SUBSET Tasks : db' = db \cup UNION {batch[t] : t \in T}
    /\ FreshProcess
    /\ UNCHANGED <<polls, published, accepted>>

\* stale_threshold_sec passes without a tick.
TimePasses ==
    /\ fresh
    /\ fresh' = FALSE
    /\ UNCHANGED <<pc, fl, running, provRunning, cache, polls, pass, connected,
                   published, rows, signalled>>

-----------------------------------------------------------------------------
Init ==
    /\ pc = "down" /\ fl = "none"
    /\ running = FALSE /\ provRunning = FALSE /\ signalled = FALSE
    /\ cache = {}
    /\ polls = 0 /\ hand = {} /\ todo = {}
    /\ connected = FALSE /\ fresh = FALSE /\ published = "DISCONNECTED"
    /\ buf = {} /\ batch = [t \in Tasks |-> {}] /\ db = {} /\ accepted = {}

MainStep == \/ InitOk \/ InitFail \/ WarmedUp
            \/ Polled \/ PollFails \/ PauseEnds
            \/ RedisOk \/ RedisFail \/ CommitOk \/ CommitFail
            \/ StreamEnd \/ FinalCommitOk \/ FinalCommitFail \/ Close \/ Exit

LoopStep == \/ LoopWake \/ LoopCommitOk \/ LoopCommitFail
            \/ LoopHealthOk \/ LoopHealthFail
            \/ LoopCancelled \/ LoopCancelledInCommit

Next == \/ Start \/ MainStep \/ LoopStep \/ Signal \/ Crash
        \/ TimePasses

Spec == Init /\ [][Next]_vars

\* docker-compose restarts the container; every await of the two tasks ends.
Fairness == WF_vars(Start) /\ WF_vars(MainStep) /\ WF_vars(LoopStep)

FairSpec == Spec /\ Fairness

-----------------------------------------------------------------------------
(* Properties.                                                             *)

TypeOK ==
    /\ pc \in {"down", "init", "warmup", "poll", "pause", "redis", "commit",
               "ended", "final", "closing", "exiting"}
    /\ fl \in {"none", "sleep", "commit", "health", "done"}
    /\ running \in BOOLEAN /\ provRunning \in BOOLEAN
    /\ cache \subseteq Symbols
    /\ polls \in 0..MaxPolls
    /\ hand \subseteq Symbols /\ todo \subseteq Symbols
    /\ connected \in BOOLEAN /\ fresh \in BOOLEAN
    /\ published \in {"DISCONNECTED", "STALE", "HEALTHY"}
    /\ buf \subseteq Ticks /\ batch \in [Tasks -> SUBSET Ticks]
    /\ db \subseteq Ticks /\ accepted \subseteq Ticks
    /\ signalled \in BOOLEAN

\* A tick is in one place only: the buffer, one of the two transactions, or
\* Postgres (multi_asset_runner.py:52-59).
OnePlace ==
    /\ buf \cap (batch["main"] \cup batch["loop"] \cup db) = {}
    /\ batch["main"] \cap (batch["loop"] \cup db) = {}
    /\ batch["loop"] \cap db = {}

\* When the main task is suspended the buffer has not reached the batch size,
\* however the flush loop's drains fall in between (multi_asset_runner.py:113).
BatchBound == Cardinality(buf) < BatchSize

\* Once the provider is told to stop after its warm-up, the process ends.
StopLeadsToExit ==
    (pc \in {"poll", "pause", "redis", "commit"} /\ ~provRunning) ~> (pc = "down")

-----------------------------------------------------------------------------
(* The inductive invariant behind the safety properties.                   *)

BatchOnlyInCommit == /\ pc \notin {"commit", "final"} => batch["main"] = {}
                     /\ fl # "commit" => batch["loop"] = {}
                     /\ pc \in {"down", "init", "warmup"} => fl = "none"

\* Rows come from accepted ticks, of polls made so far; the ticks the current
\* pass has still to yield are not among them.  One tick is in hand at a time.
Provenance == /\ inMemory \cup db \subseteq accepted
              /\ accepted \subseteq Symbols \X (1..polls)
              /\ ((hand \cup todo) \X {polls}) \cap accepted = {}
              /\ hand \cap todo = {}
              /\ \A s, u \in hand : s = u
              /\ pc \in {"redis", "commit"} => polls > 0

FlushedAtEnd == pc \in {"final", "closing", "exiting"} => buf = {}

IInv == /\ TypeOK /\ OnePlace /\ BatchOnlyInCommit /\ Provenance
        /\ FlushedAtEnd /\ BatchBound

-----------------------------------------------------------------------------
Log == INSTANCE DurableLog WITH
           Events <- Ticks, RowKey <- [e \in Ticks |-> e],
           held <- inMemory, stored <- db, lost <- Lost

\* Every step of this collector, too, is a step of the abstract log.
ImplementsLog == Log!LogSpec
=============================================================================
