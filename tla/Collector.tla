------------------------------ MODULE Collector ------------------------------
(***************************************************************************)
(* apps/collectors/delta_runner.py: DeltaCollectorRunner, one asyncio      *)
(* process with two tasks, the main task (initialize, then                 *)
(* stream -> Redis -> buffer -> batch flush, then shutdown) and the flush   *)
(* loop, plus the SIGTERM/SIGINT handler's task.                           *)
(*                                                                         *)
(* A step runs from one suspension point (an await that really yields to   *)
(* the event loop) to the next, so all that a task does in between is one  *)
(* action.  _flush_buffers copies and clears the five buffers and adds the *)
(* rows to a session without yielding: it first suspends in                *)
(* session.commit().  The five lists are one set, buf; Rows(k) is the list *)
(* of kind k.                                                              *)
(***************************************************************************)
EXTENDS Naturals, Sequences, FiniteSets, SequencesExt

CONSTANTS
    Events,       \* the events the exchange may send, each sent at most once
    Kind,         \* [Events -> Kinds]
    RowKey,       \* [Events -> primary key the event's row would have]
    Mapped,       \* events of instruments found in instrument_map
    Messages,     \* parsed messages: sequences of events
    BatchSize,    \* settings.db_batch_size
    RestImports   \* does delta_rest.py compile?  FALSE for the file as it is

Kinds      == {"tick", "trade", "candle", "orderbook", "funding", "markspot"}
BatchKinds == {"tick", "trade", "candle"}   \* lengths the batch trigger reads
Tasks      == {"main", "loop"}

ASSUME ConstantsAssumption ==
    /\ IsFiniteSet(Events)
    /\ Kind \in [Events -> Kinds]
    /\ DOMAIN RowKey = Events
    /\ Mapped \subseteq Events
    /\ Messages \subseteq Seq(Events)
    /\ \A m \in Messages : Len(m) > 0 /\ IsInjective(m)
    /\ BatchSize \in Nat \ {0}
    /\ RestImports \in BOOLEAN

VARIABLES
    pc,           \* where the main task is suspended
    fl,           \* where the flush-loop task is suspended
    running,      \* runner._running; cleared together with flush_task.cancel()
    provRunning,  \* provider._running
    pending,      \* events of the current message, the one in hand first
    buf,          \* rows in the five write buffers
    batch,        \* rows a task has drained and is committing
    db,           \* rows in Postgres
    delivered,    \* history: events the exchange has sent
    shown,        \* history: events whose Redis snapshot update completed
    accepted,     \* history: events that were appended to a buffer
    signalled,    \* history: this process was sent SIGTERM or SIGINT
    failed        \* history: some awaited call raised, or the process died

vars == <<pc, fl, running, provRunning, pending, buf, batch, db, delivered,
          shown, accepted, signalled, failed>>

history   == <<delivered, shown, accepted>>
inMemory  == buf \cup batch["main"] \cup batch["loop"]
Lost      == accepted \ (inMemory \cup db)

UniqueKeys(S) == \A e, f \in S : RowKey[e] = RowKey[f] => e = f
RowsOf(S, k)  == {e \in S : Kind[e] = k}
Rows(k)       == RowsOf(buf, k)
HasRow(e)     == Kind[e] # "markspot" /\ e \in Mapped

-----------------------------------------------------------------------------
(* The write buffers and the database session.                             *)

\* mutant: the early return of _flush_buffers looks at three buffers only
NothingBufferedForThree == \A e \in buf : Kind[e] \notin BatchKinds
NothingBuffered == buf = {}

\* mutant: the lists are copied but not cleared
DrainWithoutClear(t) == /\ batch' = [batch EXCEPT ![t] = buf]
                        /\ UNCHANGED buf
Drain(t) == /\ batch' = [batch EXCEPT ![t] = buf]
            /\ buf' = {}

\* The transaction of task t commits: all its rows, and only if none of them
\* collides with a stored row or with another one of the batch.
\* mutant: rows that do not collide are stored, the others skipped
StoreWithoutConflicts(t) ==
    db' = db \cup {e \in batch[t] : UniqueKeys(db \cup {e})}
Store(t) == /\ UniqueKeys(db \cup batch[t])
            /\ db' = db \cup batch[t]

\* commit() raises, or is cancelled: rolled back, unless only the reply was
\* lost and the server had committed.
Abort(t) == UNCHANGED db \/ Store(t)

Settled(t) == batch' = [batch EXCEPT ![t] = {}]

-----------------------------------------------------------------------------
(* Process start.                                                          *)

Start ==
    /\ pc = "down"
    /\ pc' = "init"
    /\ running' = TRUE
    /\ UNCHANGED <<fl, provRunning, pending, buf, batch, db, history,
                   signalled, failed>>

\* initialize() returns; connect() sets provider._running; the flush-loop task
\* is created and reaches its first sleep.
InitOk ==
    /\ pc = "init" /\ RestImports
    /\ pc' = "stream"
    /\ provRunning' = TRUE
    /\ fl' = "sleep"
    /\ UNCHANGED <<running, pending, buf, batch, db, history, signalled, failed>>

\* initialize() raises (Postgres down, seeding or bootstrap conflict, import
\* of delta_rest): start()'s try/finally is not entered yet.
InitFail ==
    /\ pc = "init"
    /\ pc' = "down"
    /\ running' = FALSE /\ provRunning' = FALSE /\ signalled' = FALSE
    /\ failed' = TRUE
    /\ UNCHANGED <<fl, pending, buf, batch, db, history>>

-----------------------------------------------------------------------------
(* start()'s finally block up to the final flush's commit.                 *)

\* mutant: no final flush
StopWithoutFlush ==
    /\ running' = FALSE
    /\ pending' = <<>>
    /\ pc' = "closing"
    /\ batch' = [batch EXCEPT !["main"] = {}]
    /\ UNCHANGED buf
BeginShutdown ==
    /\ running' = FALSE
    /\ pending' = <<>>
    /\ IF NothingBuffered
       THEN /\ pc' = "closing"
            /\ batch' = [batch EXCEPT !["main"] = {}]
            /\ UNCHANGED buf
       ELSE pc' = "final" /\ Drain("main")

-----------------------------------------------------------------------------
(* The main task while streaming.                                          *)

\* The generator yields the first event of a parsed message.
NextMessage ==
    /\ pc = "stream" /\ provRunning
    /\ \E m \in Messages :
        /\ ToSet(m) \cap delivered = {}
        /\ delivered' = delivered \cup ToSet(m)
        /\ pending' = m
    /\ pc' = "redis"
    /\ UNCHANGED <<fl, running, provRunning, buf, batch, db, shown, accepted,
                   signalled, failed>>

Waiting(rest) == IF rest = <<>> THEN "stream" ELSE "redis"

BatchFull(B) == \E k \in BatchKinds : Cardinality(RowsOf(B, k)) >= BatchSize

\* The rest of _process_event once update_snapshot has returned: append the
\* row, and flush if a buffer reached the batch size.
RedisOk ==
    /\ pc = "redis"
    /\ LET e     == Head(pending)
           row   == IF HasRow(e) THEN {e} ELSE {}
           after == buf \cup row
       IN  /\ shown' = shown \cup {e}
           /\ accepted' = accepted \cup row
           /\ pending' = Tail(pending)
           /\ IF BatchFull(after)
              THEN /\ batch' = [batch EXCEPT !["main"] = after]
                   /\ buf' = {}
                   /\ pc' = "commit"
              ELSE /\ buf' = after
                   /\ UNCHANGED batch
                   /\ pc' = Waiting(Tail(pending))
    /\ UNCHANGED <<fl, running, provRunning, db, delivered, signalled, failed>>

\* mutant: a failed Redis update is logged and the row buffered all the same
RedisFailIgnored ==
    /\ pc = "redis"
    /\ LET row == IF HasRow(Head(pending)) THEN {Head(pending)} ELSE {}
       IN  buf' = buf \cup row /\ accepted' = accepted \cup row
    /\ pending' = Tail(pending)
    /\ pc' = Waiting(Tail(pending))
    /\ UNCHANGED <<fl, running, provRunning, batch, db, delivered, shown,
                   signalled, failed>>
\* update_snapshot raises: the exception leaves the async for, then finally.
RedisFail ==
    /\ pc = "redis"
    /\ BeginShutdown
    /\ failed' = TRUE
    /\ UNCHANGED <<fl, provRunning, db, history, signalled>>

MainCommitOk ==
    /\ pc = "commit"
    /\ Store("main") /\ Settled("main")
    /\ pc' = Waiting(pending)
    /\ UNCHANGED <<fl, running, provRunning, pending, buf, history, signalled,
                   failed>>

MainCommitFail ==
    /\ pc = "commit"
    /\ Abort("main")
    /\ BeginShutdown
    /\ failed' = TRUE
    /\ UNCHANGED <<fl, provRunning, history, signalled>>

\* provider._running was cleared, and recv() has returned or raised: the
\* generator looks at _running only then and between two connections
\* (delta_ws.py:106, 130, 150).
StreamEnd ==
    /\ pc = "stream" /\ ~provRunning
    /\ BeginShutdown
    /\ UNCHANGED <<fl, provRunning, db, history, signalled, failed>>

-----------------------------------------------------------------------------
(* The rest of the finally block, and asyncio.run's cleanup.               *)

FinalCommitOk ==
    /\ pc = "final"
    /\ Store("main") /\ Settled("main")
    /\ pc' = "closing"
    /\ UNCHANGED <<fl, running, provRunning, pending, buf, history, signalled,
                   failed>>

\* The exception skips disconnect, close_redis and close_db.
FinalCommitFail ==
    /\ pc = "final"
    /\ Abort("main") /\ Settled("main")
    /\ pc' = "exiting"
    /\ failed' = TRUE
    /\ UNCHANGED <<fl, running, provRunning, pending, buf, history, signalled>>

\* provider.disconnect(), close_redis(), close_db(), "shut down cleanly".
Close ==
    /\ pc = "closing"
    /\ provRunning' = FALSE
    /\ pc' = "exiting"
    /\ UNCHANGED <<fl, running, pending, buf, batch, db, history, signalled,
                   failed>>

\* asyncio.run returns once the cancelled flush loop has ended.
Exit ==
    /\ pc = "exiting" /\ fl = "done"
    /\ pc' = "down"
    /\ fl' = "none"
    /\ buf' = {}
    /\ provRunning' = FALSE /\ signalled' = FALSE
    /\ UNCHANGED <<running, pending, batch, db, history, failed>>

-----------------------------------------------------------------------------
(* The flush loop.                                                         *)

LoopWake ==
    /\ fl = "sleep" /\ running
    /\ IF NothingBuffered
       THEN fl' = "health" /\ UNCHANGED <<buf, batch>>
       ELSE fl' = "commit" /\ Drain("loop")
    /\ UNCHANGED <<pc, running, provRunning, pending, db, history, signalled,
                   failed>>

LoopCommitOk ==
    /\ fl = "commit" /\ running
    /\ Store("loop") /\ Settled("loop")
    /\ fl' = "health"
    /\ UNCHANGED <<pc, running, provRunning, pending, buf, history, signalled,
                   failed>>

\* Logged ("Error in periodic DB flush"); the loop goes on.
LoopCommitFail ==
    /\ fl = "commit" /\ running
    /\ Abort("loop") /\ Settled("loop")
    /\ fl' = "sleep"
    /\ failed' = TRUE
    /\ UNCHANGED <<pc, running, provRunning, pending, buf, history, signalled>>

\* update_provider_health returns or raises; either way the loop goes on.
LoopHealth ==
    /\ fl = "health" /\ running
    /\ fl' = "sleep"
    /\ UNCHANGED <<pc, running, provRunning, pending, buf, batch, db, history,
                   signalled, failed>>

\* mutant: the loop's handler swallows the cancellation and sleeps again
LoopIgnoresCancel ==
    /\ fl \in {"sleep", "health"} /\ ~running
    /\ fl' = "sleep"
    /\ UNCHANGED <<pc, running, provRunning, pending, buf, batch, db, history,
                   signalled, failed>>
\* CancelledError at the sleep or at the health update: break.
LoopCancelled ==
    /\ fl \in {"sleep", "health"} /\ ~running
    /\ fl' = "done"
    /\ UNCHANGED <<pc, running, provRunning, pending, buf, batch, db, history,
                   signalled, failed>>

\* CancelledError in the middle of commit(): the batch is rolled back (or had
\* just reached the server), and nobody puts its rows back.
LoopCancelledInCommit ==
    /\ fl = "commit" /\ ~running
    /\ Abort("loop") /\ Settled("loop")
    /\ fl' = "done"
    /\ UNCHANGED <<pc, running, provRunning, pending, buf, history, signalled,
                   failed>>

-----------------------------------------------------------------------------
(* The environment.                                                        *)

\* The signal handler's task runs provider.disconnect().
Signal ==
    /\ pc # "down" /\ ~signalled
    /\ signalled' = TRUE
    /\ provRunning' = FALSE
    /\ UNCHANGED <<pc, fl, running, pending, buf, batch, db, history, failed>>

\* The process is killed; a transaction in flight may still commit.
Crash ==
    /\ pc # "down"
    /\ \E T \in SUBSET Tasks :
        LET S == UNION {batch[t] : t \in T}
        IN  UniqueKeys(db \cup S) /\ db' = db \cup S
    /\ pc' = "down" /\ fl' = "none"
    /\ running' = FALSE /\ provRunning' = FALSE /\ signalled' = FALSE
    /\ pending' = <<>> /\ buf' = {} /\ batch' = [t \in Tasks |-> {}]
    /\ failed' = TRUE
    /\ UNCHANGED history

-----------------------------------------------------------------------------
Init ==
    /\ pc = "down" /\ fl = "none"
    /\ running = FALSE /\ provRunning = FALSE
    /\ pending = <<>>
    /\ buf = {} /\ batch = [t \in Tasks |-> {}] /\ db = {}
    /\ delivered = {} /\ shown = {} /\ accepted = {}
    /\ signalled = FALSE /\ failed = FALSE

MainStep == \/ InitOk \/ InitFail
            \/ RedisOk \/ RedisFail
            \/ MainCommitOk \/ MainCommitFail
            \/ FinalCommitOk \/ FinalCommitFail \/ Close \/ Exit

LoopStep == \/ LoopWake \/ LoopCommitOk \/ LoopCommitFail \/ LoopHealth
            \/ LoopCancelled \/ LoopCancelledInCommit

Next == Start \/ MainStep \/ NextMessage \/ StreamEnd \/ LoopStep \/ Signal \/ Crash

Spec == Init /\ [][Next]_vars

\* docker-compose restarts the container; every call that the runner awaits
\* itself returns or raises; the event loop runs every ready task;
\* initialize() succeeds if it is able to, again and again.  The recv() under
\* the stream has no timeout: NextMessage and StreamEnd are not fair.
Fairness == /\ WF_vars(Start)
            /\ WF_vars(MainStep)
            /\ WF_vars(LoopStep)
            /\ SF_vars(InitOk)

FairSpec == Spec /\ Fairness

-----------------------------------------------------------------------------
(* Properties.                                                             *)

TypeOK ==
    /\ pc \in {"down", "init", "stream", "redis", "commit", "final",
               "closing", "exiting"}
    /\ fl \in {"none", "sleep", "commit", "health", "done"}
    /\ running \in BOOLEAN /\ provRunning \in BOOLEAN
    /\ pending \in Seq(Events)
    /\ buf \subseteq Events
    /\ batch \in [Tasks -> SUBSET Events]
    /\ db \subseteq Events
    /\ delivered \subseteq Events
    /\ shown \subseteq Events
    /\ accepted \subseteq Events
    /\ signalled \in BOOLEAN /\ failed \in BOOLEAN

\* A row is in one place only: a buffer, the main task's transaction, the
\* flush loop's transaction, or Postgres.  The two tasks drain the same lists,
\* each while the other may be committing; a row in two places would be
\* inserted twice and its second transaction fail (delta_runner.py:119-144).
OnePlace ==
    /\ buf \cap (batch["main"] \cup batch["loop"] \cup db) = {}
    /\ batch["main"] \cap (batch["loop"] \cup db) = {}
    /\ batch["loop"] \cap db = {}

\* "Trigger batch flush if buffer size exceeded" (delta_runner.py:287): when
\* the main task is suspended no tick, trade or candle buffer has reached the
\* batch size, however the flush loop's drains fall in between.
BatchBound == \A k \in BatchKinds : Cardinality(Rows(k)) < BatchSize

\* The live snapshot is never behind the database: a row is accepted for
\* Postgres only after its Redis update completed (delta_runner.py:176-189).
LiveBeforeDurable == inMemory \cup db \subseteq shown

\* Rows are lost a whole transaction at a time, when its commit fails or is
\* cancelled, or when the process is killed; never one by one, and never by a
\* shutdown that got as far as leaving start() (delta_runner.py:161-168).
LossOnlyByFailedFlush ==
    [][Lost' # Lost =>
          \/ \E t \in Tasks : batch[t] # {} /\ Lost' = Lost \cup batch[t]
          \/ pc' = "down" /\ (pc # "exiting" \/ batch["loop"] # {})]_vars

\* What the log line "shut down cleanly" (delta_runner.py:168) and the README's
\* "durable" hypertables would have: without any fault no row is lost.
NothingLostWithoutFault == Lost # {} => failed

\* Every buffered row is handed to a transaction (or dies with the process):
\* the flush loop and the shutdown leave no buffer out (delta_runner.py:104-144).
BufferedRowsMove == \A e \in Events : (e \in buf) ~> (e \notin buf)

\* Once the provider is told to stop while streaming, and recv() comes back
\* whenever it is stopped, the process ends: it does not hang in the finally
\* block or on its own flush loop (delta_runner.py:104-113, 161-168).  recv()
\* comes back when the exchange sends or closes, or when disconnect() found a
\* socket to close; one that came during the handshake found none, and on a
\* feed that stays silent the stop then has no effect (delta_ws.py:62-75, 130).
RecvComesBack   == WF_vars(StreamEnd)
StopLeadsToExit ==
    RecvComesBack =>
        ((pc \in {"stream", "redis", "commit"} /\ ~provRunning) ~> (pc = "down"))

-----------------------------------------------------------------------------
(* The inductive invariant behind the safety properties.                   *)

\* A batch exists only while its task is in commit(), and the flush loop only
\* once the process is streaming.
BatchOnlyInCommit == /\ pc \notin {"commit", "final"} => batch["main"] = {}
                     /\ fl # "commit" => batch["loop"] = {}
                     /\ pc \in {"down", "init"} => fl = "none"

\* Rows come from accepted events, those from shown ones, those from
\* delivered ones.
Provenance == /\ inMemory \cup db \subseteq accepted
              /\ accepted \subseteq shown
              /\ shown \subseteq delivered

\* The rest of the message in hand has not been shown yet.
Unprocessed == /\ pc = "redis" => pending # <<>>
               /\ IsInjective(pending)
               /\ ToSet(pending) \subseteq delivered \ shown

\* From the final flush on the buffers stay empty.
FlushedAtEnd == pc \in {"final", "closing", "exiting"} => buf = {}

IInv == /\ TypeOK /\ OnePlace /\ BatchOnlyInCommit /\ Provenance
        /\ Unprocessed /\ FlushedAtEnd /\ BatchBound /\ UniqueKeys(db)

-----------------------------------------------------------------------------
Log == INSTANCE DurableLog WITH held <- inMemory, stored <- db, lost <- Lost

\* Every step of the collector is a step of the abstract log.
ImplementsLog == Log!LogSpec
=============================================================================
