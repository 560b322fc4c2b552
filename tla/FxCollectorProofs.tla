-------------------------- MODULE FxCollectorProofs --------------------------
(***************************************************************************)
(* Proofs about FxCollector for any symbols, batch size and polls: its     *)
(* inductive invariant, and that it implements DurableLog.                 *)
(***************************************************************************)
EXTENDS FxCollector, FiniteSetTheorems, TLAPS

-----------------------------------------------------------------------------
(* Sizes and passes.                                                       *)

LEMMA TheTasks == "main" \in Tasks /\ "loop" \in Tasks /\ Tasks = {"main", "loop"}
  BY DEF Tasks

LEMMA FiniteTicks ==
    ASSUME FxAssumption, NEW S \in SUBSET Ticks, NEW T \in SUBSET S
    PROVE  /\ Cardinality(S) \in Nat /\ Cardinality(T) \in Nat
           /\ Cardinality(T) <= Cardinality(S)
<1>1. IsFiniteSet(Ticks)
  <2>1. IsFiniteSet(1..MaxPolls) /\ IsFiniteSet(Symbols)
    BY FS_Interval DEF FxAssumption
  <2>2. QED BY <2>1, FS_Product DEF Ticks
<1>2. IsFiniteSet(S)
  BY <1>1, FS_Subset
<1>3. QED BY <1>2, FS_Subset, FS_CardinalityType

\* A pass goes on with some of the symbols it has left.
LEMMA EmitEffect ==
    ASSUME TypeOK, NEW S \in SUBSET Symbols, Emit(S)
    PROVE  /\ pc' \in {"pause", "redis"}
           /\ hand' \subseteq S /\ todo' \subseteq S /\ hand' \cap todo' = {}
           /\ \A s, u \in hand' : s = u
           /\ connected' \in BOOLEAN /\ fresh' \in BOOLEAN
<1>1. CASE S = {}
  BY <1>1 DEF Emit, TypeOK
<1>2. CASE S # {}
  <2>1. PICK s \in S : hand' = {s} /\ todo' = S \ {s}
    BY <1>2 DEF Emit
  <2>2. pc' = "redis" /\ connected' = TRUE /\ fresh' = TRUE
    BY <1>2 DEF Emit
  <2>3. QED BY <2>1, <2>2
<1>3. QED BY <1>1, <1>2

-----------------------------------------------------------------------------
(* The invariant, action by action.                                        *)

LEMMA InitIInv == ASSUME FxAssumption, Init PROVE IInv
<1>1. batch["main"] = {} /\ batch["loop"] = {}
  BY TheTasks DEF Init
<1>2. TypeOK
  <2>1. polls \in 0..MaxPolls
    BY DEF FxAssumption, Init
  <2>2. batch \in [Tasks -> SUBSET Ticks]
    BY DEF Init
  <2>3. QED BY <2>1, <2>2 DEF Init, TypeOK
<1>3. OnePlace /\ BatchOnlyInCommit /\ Provenance /\ FlushedAtEnd
  BY <1>1 DEF Init, OnePlace, BatchOnlyInCommit, Provenance, FlushedAtEnd, inMemory
<1>4. BatchBound
  BY FS_EmptySet DEF Init, BatchBound, FxAssumption
<1>5. QED BY <1>2, <1>3, <1>4 DEF IInv

\* A smaller buffer keeps the bound.
LEMMA KeepsBound ==
    ASSUME FxAssumption, IInv, buf' \subseteq buf
    PROVE  BatchBound'
<1>1. buf \in SUBSET Ticks /\ buf' \in SUBSET buf
  BY DEF IInv, TypeOK
<1>2. /\ Cardinality(buf) \in Nat /\ Cardinality(buf') \in Nat
      /\ Cardinality(buf') <= Cardinality(buf)
  BY <1>1, FiniteTicks
<1>3. Cardinality(buf) < BatchSize /\ BatchSize \in Nat
  BY DEF IInv, BatchBound, FxAssumption
<1>4. QED BY <1>2, <1>3 DEF BatchBound

\* Steps that move no row and do not begin a pass.
LEMMA ControlKeepsIInv ==
    ASSUME FxAssumption, IInv,
           Start \/ InitOk \/ InitFail \/ WarmedUp \/ PollFails \/ PauseEnds \/ Close
             \/ LoopHealthOk \/ LoopHealthFail \/ LoopCancelled \/ Signal \/ TimePasses
    PROVE  IInv'
<1> USE DEF IInv
<1>1. UNCHANGED <<buf, batch, db, accepted, polls, hand, todo>>
  BY DEF Start, InitOk, InitFail, WarmedUp, PollFails, PauseEnds, Close, LoopHealthOk,
     LoopHealthFail, LoopCancelled, Signal, TimePasses, rows, pass
<1>2. TypeOK'
  <2>1. CASE Start \/ InitOk \/ InitFail
    BY <1>1, <2>1 DEF TypeOK, Start, InitOk, InitFail, health
  <2>2. CASE WarmedUp \/ PollFails \/ PauseEnds
    BY <1>1, <2>2 DEF TypeOK, WarmedUp, PollFails, PauseEnds, health, TopOfLoop
  <2>3. CASE Close \/ Signal \/ TimePasses
    <3>1. /\ pc' \in {pc, "exiting"} /\ fresh' \in {fresh, FALSE} /\ connected' \in {connected, FALSE}
          /\ provRunning' \in {provRunning, FALSE} /\ signalled' \in {signalled, TRUE}
          /\ UNCHANGED <<fl, running, cache, published>>
      BY <2>3 DEF Close, Signal, TimePasses
    <3>2. /\ running' \in BOOLEAN /\ provRunning' \in BOOLEAN /\ connected' \in BOOLEAN
          /\ fresh' \in BOOLEAN /\ signalled' \in BOOLEAN
      <4>1. /\ running \in BOOLEAN /\ provRunning \in BOOLEAN /\ connected \in BOOLEAN
            /\ fresh \in BOOLEAN /\ signalled \in BOOLEAN
        BY DEF TypeOK
      <4>2. QED BY <3>1, <4>1
    <3>3. QED BY <1>1, <3>1, <3>2 DEF TypeOK
  <2>4. CASE LoopHealthOk \/ LoopHealthFail \/ LoopCancelled
    BY <1>1, <2>4 DEF TypeOK, LoopHealthOk, LoopHealthFail, LoopCancelled, Status, health
  <2>5. QED BY <2>1, <2>2, <2>3, <2>4
<1>3. BatchOnlyInCommit'
  <2>1. CASE Start \/ InitOk \/ InitFail \/ Signal \/ TimePasses
    BY <1>1, <2>1 DEF BatchOnlyInCommit, Start, InitOk, InitFail, Signal, TimePasses
  <2>2. CASE WarmedUp \/ PollFails \/ PauseEnds \/ Close
    <3>1. /\ pc' \in {"poll", "pause", "ended", "exiting"} /\ pc \notin {"commit", "final"}
          /\ fl' \in {fl, "sleep"} /\ (fl' = fl \/ fl = "none")
      BY <2>2 DEF WarmedUp, PollFails, PauseEnds, Close, TopOfLoop, BatchOnlyInCommit
    <3>2. QED BY <1>1, <3>1 DEF BatchOnlyInCommit
  <2>3. CASE LoopHealthOk \/ LoopHealthFail \/ LoopCancelled
    <3>1. fl \notin {"commit", "none"} /\ fl' # "commit" /\ pc' = pc
      BY <2>3 DEF LoopHealthOk, LoopHealthFail, LoopCancelled
    <3>2. QED BY <1>1, <3>1 DEF BatchOnlyInCommit
  <2>4. QED BY <2>1, <2>2, <2>3
<1>4. FlushedAtEnd'
  BY <1>1 DEF FlushedAtEnd, Start, InitOk, InitFail, WarmedUp, PollFails, PauseEnds, Close,
     LoopHealthOk, LoopHealthFail, LoopCancelled, Signal, TimePasses, TopOfLoop
<1>5. pc' \in {"redis", "commit"} => pc' = pc
  BY DEF Start, InitOk, InitFail, WarmedUp, PollFails, PauseEnds, Close, LoopHealthOk,
     LoopHealthFail, LoopCancelled, Signal, TimePasses, TopOfLoop
<1>6. OnePlace' /\ Provenance' /\ BatchBound'
  BY <1>1, <1>5 DEF OnePlace, Provenance, BatchBound, inMemory
<1>7. QED BY <1>2, <1>3, <1>4, <1>6

\* A poll begins a pass, whose ticks are new.
LEMMA PolledKeepsIInv == ASSUME FxAssumption, IInv, Polled PROVE IInv'
<1> USE DEF IInv
<1>1. cache' \in SUBSET Symbols /\ Emit(cache')
  BY DEF Polled, TypeOK
<1>2. /\ pc' \in {"pause", "redis"} /\ hand' \subseteq Symbols /\ todo' \subseteq Symbols
      /\ hand' \cap todo' = {} /\ connected' \in BOOLEAN /\ fresh' \in BOOLEAN
      /\ \A s, u \in hand' : s = u
  BY <1>1, EmitEffect
<1>3. /\ pc = "poll" /\ polls < MaxPolls /\ polls' = polls + 1
      /\ UNCHANGED <<fl, running, provRunning, published, buf, batch, db, accepted, signalled>>
  BY DEF Polled, rows
<1>4. polls \in Nat /\ polls' \in 0..MaxPolls /\ polls' > 0
  BY <1>3 DEF TypeOK, FxAssumption
<1>5. TypeOK'
  BY <1>1, <1>2, <1>3, <1>4 DEF TypeOK
<1>6. Provenance'
  <2>1. accepted \subseteq Symbols \X (1..polls) /\ polls + 1 \notin 1..polls
    BY <1>4 DEF Provenance
  <2>2. ((hand' \cup todo') \X {polls'}) \cap accepted' = {}
    BY <1>3, <2>1
  <2>3. accepted' \subseteq Symbols \X (1..polls')
    <3>1. 1..polls \subseteq 1..(polls + 1)
      BY <1>4
    <3>2. QED BY <1>3, <2>1, <3>1
  <2>4. QED BY <1>2, <1>3, <1>4, <2>2, <2>3 DEF Provenance, inMemory
<1>7. BatchOnlyInCommit' /\ FlushedAtEnd' /\ OnePlace' /\ BatchBound'
  BY <1>2, <1>3 DEF BatchOnlyInCommit, FlushedAtEnd, OnePlace, BatchBound
<1>8. QED BY <1>5, <1>6, <1>7

\* A tick's row, unless it has no instrument.
Row == (hand \cap Mapped) \X {polls}

LEMMA RowIsNew ==
    ASSUME FxAssumption, IInv, pc = "redis"
    PROVE  /\ Row \subseteq Ticks /\ Row \subseteq Symbols \X (1..polls)
           /\ Row \cap (accepted \cup inMemory \cup db) = {}
           /\ (todo \X {polls}) \cap (accepted \cup Row) = {}
<1> USE DEF IInv
<1>1. polls \in 1..MaxPolls /\ polls \in 1..polls
  BY DEF TypeOK, Provenance, FxAssumption
<1>2. Row \subseteq Symbols \X {polls}
  BY DEF Row, TypeOK
<1>3. Row \subseteq Ticks /\ Row \subseteq Symbols \X (1..polls)
  BY <1>1, <1>2 DEF Ticks
<1>4. Row \cap accepted = {}
  BY DEF Row, Provenance
<1>5. (todo \X {polls}) \cap (accepted \cup Row) = {}
  BY DEF Row, Provenance
<1>6. QED BY <1>3, <1>4, <1>5 DEF Provenance

\* Where the tick's row goes.
LEMMA RedisOkRows ==
    ASSUME FxAssumption, IInv, RedisOk
    PROVE  /\ accepted' = accepted \cup Row /\ db' = db /\ polls' = polls
           /\ batch["main"] = {} /\ batch'["loop"] = batch["loop"]
           /\ batch' \in [Tasks -> SUBSET Ticks] /\ buf' \subseteq Ticks
           /\ \/ /\ buf' = {} /\ batch'["main"] = buf \cup Row
                 /\ pc' = "commit" /\ hand' = {} /\ UNCHANGED <<todo, connected, fresh>>
              \/ /\ buf' = buf \cup Row /\ batch'["main"] = {}
                 /\ ~BatchFull(buf \cup Row) /\ Emit(todo)
<1> USE DEF IInv
<1>1. /\ pc = "redis" /\ batch["main"] = {}
      /\ Row \subseteq Ticks /\ buf \cup Row \subseteq Ticks
  BY RowIsNew DEF RedisOk, BatchOnlyInCommit, TypeOK
<1>2. /\ accepted' = accepted \cup Row /\ db' = db /\ polls' = polls
      /\ \/ /\ batch' = [batch EXCEPT !["main"] = buf \cup Row] /\ buf' = {} /\ hand' = {}
            /\ pc' = "commit" /\ UNCHANGED <<todo, connected, fresh>>
         \/ /\ buf' = buf \cup Row /\ batch' = batch
            /\ ~BatchFull(buf \cup Row) /\ Emit(todo)
  BY DEF RedisOk, Row
<1>3. QED BY <1>1, <1>2, TheTasks DEF TypeOK

LEMMA RedisOkKeepsIInv == ASSUME FxAssumption, IInv, RedisOk PROVE IInv'
<1> USE DEF IInv
<1>1. pc = "redis" /\ UNCHANGED <<fl, running, provRunning, cache, published, signalled>>
  BY DEF RedisOk
<1>2. /\ pc' \in {"pause", "redis", "commit"} /\ hand' \subseteq todo /\ todo' \subseteq todo
      /\ hand' \cap todo' = {} /\ connected' \in BOOLEAN /\ fresh' \in BOOLEAN
      /\ \A s, u \in hand' : s = u
  <2>1. todo \in SUBSET Symbols /\ connected \in BOOLEAN /\ fresh \in BOOLEAN
    BY DEF TypeOK
  <2>2. CASE Emit(todo)
    BY <2>1, <2>2, EmitEffect
  <2>3. CASE pc' = "commit" /\ hand' = {} /\ UNCHANGED <<todo, connected, fresh>>
    BY <2>1, <2>3
  <2>4. QED BY <2>2, <2>3, RedisOkRows
<1>3. TypeOK'
  <2>1. accepted' \subseteq Ticks
    BY <1>1, RedisOkRows, RowIsNew DEF TypeOK
  <2>2. QED BY <1>1, <1>2, <2>1, RedisOkRows DEF TypeOK
<1>4. OnePlace'
  BY <1>1, RedisOkRows, RowIsNew DEF OnePlace, inMemory
<1>5. Provenance'
  <2>1. accepted' \subseteq Symbols \X (1..polls')
    BY <1>1, RedisOkRows, RowIsNew DEF Provenance
  <2>2. ((hand' \cup todo') \X {polls'}) \cap accepted' = {}
    BY <1>1, <1>2, RedisOkRows, RowIsNew
  <2>3. inMemory' \cup db' \subseteq accepted'
    BY RedisOkRows DEF Provenance, inMemory
  <2>4. polls' > 0
    BY <1>1, RedisOkRows DEF Provenance
  <2>5. QED BY <1>2, <2>1, <2>2, <2>3, <2>4 DEF Provenance
<1>6. BatchOnlyInCommit' /\ FlushedAtEnd'
  BY <1>1, <1>2, RedisOkRows DEF BatchOnlyInCommit, FlushedAtEnd
<1>7. BatchBound'
  <2>1. CASE buf' = {}
    BY <2>1, KeepsBound
  <2>2. CASE buf' = buf \cup Row /\ ~BatchFull(buf \cup Row)
    <3>1. Cardinality(buf') \in Nat /\ ~(Cardinality(buf') >= BatchSize)
      BY <2>2, RedisOkRows, FiniteTicks DEF BatchFull
    <3>2. QED BY <3>1 DEF BatchBound, FxAssumption
  <2>3. QED BY <2>1, <2>2, RedisOkRows
<1>8. QED BY <1>3, <1>4, <1>5, <1>6, <1>7

\* Task t's transaction ends: its ticks are stored, or not, and it forgets
\* them or takes the buffer in their place.
LEMMA EndOfTransaction ==
    ASSUME FxAssumption, IInv, NEW t \in Tasks, Store(t) \/ Abort(t),
           UNCHANGED <<accepted, polls>>,
           \/ Settled(t) /\ buf' = buf
           \/ Drain(t)
    PROVE  /\ batch' \in [Tasks -> SUBSET Ticks] /\ db' \subseteq Ticks /\ buf' \subseteq buf
           /\ \/ batch'[t] = {} /\ buf' = buf
              \/ batch'[t] = buf /\ buf' = {}
           /\ \A u \in Tasks \ {t} : batch'[u] = batch[u]
           /\ OnePlace' /\ BatchBound'
           /\ inMemory' \cup db' \subseteq accepted'
<1> USE DEF IInv
<1>1. db' \in {db, db \cup batch[t]}
  BY DEF Store, Abort
<1>2. /\ batch' \in [Tasks -> SUBSET Ticks]
      /\ \/ batch'[t] = {} /\ buf' = buf
         \/ batch'[t] = buf /\ buf' = {}
      /\ \A u \in Tasks \ {t} : batch'[u] = batch[u]
  BY DEF Settled, Drain, TypeOK
<1>3. db' \subseteq Ticks /\ buf' \subseteq buf
  BY <1>1, <1>2 DEF TypeOK
<1>4. OnePlace'
  BY <1>1, <1>2, TheTasks DEF OnePlace
<1>5. inMemory' \cup db' \subseteq accepted'
  BY <1>1, <1>2, TheTasks DEF Provenance, inMemory
<1>6. QED BY <1>2, <1>3, <1>4, <1>5, KeepsBound

\* A smaller pass is as good as the pass.
LEMMA SmallerPass ==
    ASSUME IInv, UNCHANGED <<accepted, polls>>, inMemory' \cup db' \subseteq accepted',
           hand' \subseteq hand \cup todo, todo' \subseteq todo, hand' \cap todo' = {},
           \A s, u \in hand' : s = u,
           pc' \in {"redis", "commit"} => polls > 0
    PROVE  Provenance'
  BY DEF IInv, Provenance

\* start()'s finally block, entered from the stream, from an update of Redis
\* or from a commit that failed.
LEMMA StopKeepsIInv ==
    ASSUME FxAssumption, IInv, RedisFail \/ CommitFail \/ StreamEnd
    PROVE  IInv'
<1> USE DEF IInv
<1>1. /\ BeginShutdown
      /\ UNCHANGED <<fl, provRunning, cache, polls, connected, fresh, published, accepted, signalled>>
      /\ pc \in {"redis", "commit", "ended"} /\ (pc # "commit" => db' = db)
  BY DEF RedisFail, CommitFail, StreamEnd, health
<1>2. Abort("main")
  BY DEF RedisFail, CommitFail, StreamEnd, Abort
<1>3. /\ running' = FALSE /\ hand' = {} /\ todo' = {} /\ pc' \in {"closing", "final"}
      /\ \/ Settled("main") /\ buf' = buf /\ buf = {} /\ pc' = "closing"
         \/ Drain("main") /\ pc' = "final"
  BY <1>1 DEF BeginShutdown
<1>4. /\ batch' \in [Tasks -> SUBSET Ticks] /\ db' \subseteq Ticks /\ buf' \subseteq buf
      /\ OnePlace' /\ BatchBound'
      /\ inMemory' \cup db' \subseteq accepted'
      /\ batch'["loop"] = batch["loop"]
  BY <1>1, <1>2, <1>3, TheTasks, EndOfTransaction
<1>5. buf' = {} /\ (pc' = "closing" => batch'["main"] = {})
  BY <1>3, TheTasks DEF Drain, Settled, TypeOK
<1>6. TypeOK'
  BY <1>1, <1>3, <1>4 DEF TypeOK
<1>7. BatchOnlyInCommit' /\ FlushedAtEnd'
  BY <1>1, <1>3, <1>4, <1>5 DEF BatchOnlyInCommit, FlushedAtEnd
<1>8. Provenance'
  BY <1>1, <1>3, <1>4, SmallerPass
<1>9. QED BY <1>4, <1>6, <1>7, <1>8

\* The commits of the main task, and those of the flush loop.
LEMMA MainCommitKeepsIInv ==
    ASSUME FxAssumption, IInv, CommitOk \/ FinalCommitOk \/ FinalCommitFail
    PROVE  IInv'
<1> USE DEF IInv
<1>1. /\ Store("main") \/ Abort("main")
      /\ Settled("main")
      /\ UNCHANGED <<fl, running, provRunning, cache, polls, published, buf, accepted, signalled>>
  BY DEF CommitOk, FinalCommitOk, FinalCommitFail, health
<1>2. /\ batch' \in [Tasks -> SUBSET Ticks] /\ db' \subseteq Ticks
      /\ OnePlace' /\ BatchBound' /\ inMemory' \cup db' \subseteq accepted'
      /\ batch'["loop"] = batch["loop"] /\ batch'["main"] = {}
  <2>1. batch'["main"] = {}
    BY <1>1, TheTasks DEF Settled, TypeOK
  <2>2. QED BY <1>1, <2>1, TheTasks, EndOfTransaction
<1>3. /\ pc' \in {"pause", "redis", "closing", "exiting"} /\ connected' \in BOOLEAN
      /\ fresh' \in BOOLEAN /\ hand' \subseteq hand \cup todo /\ todo' \subseteq todo
      /\ hand' \cap todo' = {} /\ (\A s, u \in hand' : s = u)
      /\ (pc' \in {"closing", "exiting"} => pc = "final")
  <2>1. CASE CommitOk
    <3>1. todo \in SUBSET Symbols /\ Emit(todo)
      BY <2>1 DEF CommitOk, TypeOK
    <3>2. QED BY <3>1, EmitEffect
  <2>2. CASE FinalCommitOk \/ FinalCommitFail
    BY <2>2 DEF FinalCommitOk, FinalCommitFail, pass, health, TypeOK, Provenance
  <2>3. QED BY <2>1, <2>2
<1>4. TypeOK'
  BY <1>1, <1>2, <1>3 DEF TypeOK
<1>5. BatchOnlyInCommit' /\ FlushedAtEnd'
  BY <1>1, <1>2, <1>3 DEF BatchOnlyInCommit, FlushedAtEnd, CommitOk, FinalCommitOk,
     FinalCommitFail
<1>6. Provenance'
  <2>1. pc' \in {"redis", "commit"} => polls > 0
    <3>1. pc \in {"commit", "final"} /\ (pc = "final" => pc' \in {"closing", "exiting"})
      BY DEF CommitOk, FinalCommitOk, FinalCommitFail
    <3>2. QED BY <3>1 DEF Provenance
  <2>2. QED BY <1>1, <1>2, <1>3, <2>1, SmallerPass
<1>7. QED BY <1>2, <1>4, <1>5, <1>6

LEMMA LoopKeepsIInv ==
    ASSUME FxAssumption, IInv,
           LoopWake \/ LoopCommitOk \/ LoopCommitFail \/ LoopCancelledInCommit
    PROVE  IInv'
<1> USE DEF IInv
<1>1. /\ UNCHANGED <<pc, running, provRunning, cache, polls, hand, todo, connected, fresh,
                     published, accepted, signalled>>
      /\ fl \in {"sleep", "commit"} /\ fl' \in {"sleep", "health", "done", "commit"}
  BY DEF LoopWake, LoopCommitOk, LoopCommitFail, LoopCancelledInCommit, pass, health
<1>2. /\ Store("loop") \/ Abort("loop")
      /\ \/ Settled("loop") /\ buf' = buf
         \/ Drain("loop") /\ fl' = "commit"
  <2>1. CASE LoopWake
    <3>1. batch["loop"] = {} /\ db' = db
      BY <2>1 DEF LoopWake, BatchOnlyInCommit
    <3>2. CASE buf = {}
      <4>1. batch' = batch /\ buf' = buf
        BY <2>1, <3>2 DEF LoopWake
      <4>2. Settled("loop")
        BY <3>1, <4>1 DEF Settled, TypeOK
      <4>3. QED BY <3>1, <4>1, <4>2 DEF Abort
    <3>3. CASE buf # {}
      BY <2>1, <3>1, <3>3 DEF LoopWake, Abort
    <3>4. QED BY <3>2, <3>3
  <2>2. CASE LoopCommitOk \/ LoopCommitFail \/ LoopCancelledInCommit
    BY <2>2 DEF LoopCommitOk, LoopCommitFail, LoopCancelledInCommit
  <2>3. QED BY <2>1, <2>2
<1>3. /\ batch' \in [Tasks -> SUBSET Ticks] /\ db' \subseteq Ticks /\ buf' \subseteq buf
      /\ OnePlace' /\ BatchBound' /\ inMemory' \cup db' \subseteq accepted'
      /\ batch'["main"] = batch["main"]
  BY <1>1, <1>2, TheTasks, EndOfTransaction
<1>4. fl' # "commit" => batch'["loop"] = {}
  BY <1>2, TheTasks DEF Settled, TypeOK
<1>5. TypeOK'
  BY <1>1, <1>3 DEF TypeOK
<1>6. BatchOnlyInCommit' /\ FlushedAtEnd'
  BY <1>1, <1>3, <1>4 DEF BatchOnlyInCommit, FlushedAtEnd
<1>7. Provenance'
  BY <1>1, <1>3 DEF Provenance
<1>8. QED BY <1>3, <1>5, <1>6, <1>7

\* The process ends with nothing in memory, or dies with some of its rows
\* committed.
LEMMA EndKeepsIInv == ASSUME FxAssumption, IInv, Exit \/ Crash PROVE IInv'
<1> USE DEF IInv
<1>1. FreshProcess /\ UNCHANGED <<polls, published, accepted>>
  BY DEF Exit, Crash
<1>2. db \subseteq db' /\ db' \subseteq db \cup batch["main"] \cup batch["loop"]
  BY TheTasks DEF Exit, Crash
<1>3. buf' = {} /\ batch'["main"] = {} /\ batch'["loop"] = {} /\ batch' \in [Tasks -> SUBSET Ticks]
  BY <1>1, TheTasks DEF FreshProcess
<1>4. /\ pc' = "down" /\ fl' = "none" /\ running' = FALSE /\ provRunning' = FALSE
      /\ signalled' = FALSE /\ cache' = {} /\ hand' = {} /\ todo' = {}
      /\ connected' = FALSE /\ fresh' = FALSE
  BY <1>1 DEF FreshProcess
<1>5. db' \subseteq Ticks
  BY <1>2, TheTasks DEF TypeOK
<1>6. TypeOK'
  BY <1>1, <1>3, <1>4, <1>5 DEF TypeOK
<1>7. OnePlace' /\ BatchOnlyInCommit' /\ FlushedAtEnd'
  BY <1>3, <1>4 DEF OnePlace, BatchOnlyInCommit, FlushedAtEnd
<1>8. Provenance'
  <2>1. inMemory' \cup db' \subseteq accepted'
    BY <1>1, <1>2, <1>3 DEF Provenance, inMemory
  <2>2. QED BY <1>1, <1>4, <2>1, SmallerPass
<1>9. BatchBound'
  BY <1>3, KeepsBound
<1>10. QED BY <1>6, <1>7, <1>8, <1>9

LEMMA StepKeepsIInv == ASSUME FxAssumption, IInv, [Next]_vars PROVE IInv'
<1>1. CASE Next
  BY <1>1, ControlKeepsIInv, PolledKeepsIInv, RedisOkKeepsIInv, StopKeepsIInv,
     MainCommitKeepsIInv, LoopKeepsIInv, EndKeepsIInv DEF Next, MainStep, LoopStep
<1>2. CASE UNCHANGED vars
  <2>1. /\ UNCHANGED <<pc, fl, running, provRunning, cache, polls, hand, todo, connected>>
        /\ UNCHANGED <<fresh, published, buf, batch, db, accepted, signalled>>
    BY <1>2 DEF vars
  <2>2. TypeOK'
    BY <2>1 DEF IInv, TypeOK
  <2>3. OnePlace' /\ BatchOnlyInCommit' /\ Provenance' /\ FlushedAtEnd' /\ BatchBound'
    BY <2>1 DEF IInv, OnePlace, BatchOnlyInCommit, Provenance, FlushedAtEnd, BatchBound,
       inMemory
  <2>4. QED BY <2>2, <2>3 DEF IInv
<1>3. QED BY <1>1, <1>2

\* The inductive invariant holds: types, one place per row, the batch bound,
\* and where rows come from.
THEOREM Invariance == Spec => []IInv
<1>1. ASSUME Init PROVE IInv
  BY <1>1, FxAssumption, InitIInv
<1>2. ASSUME IInv, [Next]_vars PROVE IInv'
  BY <1>2, FxAssumption, StepKeepsIInv
<1>3. QED BY <1>1, <1>2, PTL DEF Spec

-----------------------------------------------------------------------------
(* How rows move: the refinement of DurableLog.                            *)

\* With rows as their own keys, every set of rows has unique keys.
LEMMA RowsAreKeys == ASSUME NEW S \in SUBSET Ticks PROVE Log!UniqueKeys(S)
  BY DEF Log!UniqueKeys

LEMMA Stutter ==
    ASSUME IInv, accepted' = accepted, inMemory' = inMemory, db' = db
    PROVE  Log!Settle({}, {})
<1>1. Lost' = Lost
  BY DEF Lost
<1>2. Log!UniqueKeys(db)
  BY RowsAreKeys DEF IInv, TypeOK
<1>3. QED BY <1>1, <1>2 DEF Log!Settle

\* Rows leave memory, S of them for the database.
LEMMA RowsLeave ==
    ASSUME FxAssumption, IInv, NEW R \in SUBSET inMemory, NEW S \in SUBSET R,
           accepted' = accepted, inMemory' = inMemory \ R, db' = db \cup S
    PROVE  Log!Settle(S, R \ S)
<1>1. inMemory \cap db = {} /\ inMemory \subseteq accepted /\ inMemory \subseteq Ticks
  BY TheTasks DEF IInv, TypeOK, OnePlace, Provenance, inMemory
<1>2. Lost' = Lost \cup (R \ S)
  BY <1>1 DEF Lost
<1>3. Log!UniqueKeys(db \cup S)
  BY <1>1, RowsAreKeys DEF IInv, TypeOK
<1>4. QED BY <1>1, <1>2, <1>3 DEF Log!Settle

\* Every step accepts a tick, or has rows leave memory.
RowsMove == \/ \E e \in Ticks : Log!Accept(e)
            \/ \E S, L \in SUBSET inMemory : Log!Settle(S, L)

LEMMA RedisOkMoves == ASSUME FxAssumption, IInv, RedisOk PROVE RowsMove
<1>1. pc = "redis" /\ accepted' = accepted \cup Row /\ db' = db
  BY RedisOkRows DEF RedisOk
<1>2. inMemory' = inMemory \cup Row
  BY RedisOkRows DEF inMemory
<1>3. CASE Row = {}
  BY <1>1, <1>2, <1>3, Stutter DEF RowsMove
<1>4. CASE Row # {}
  <2>1. PICK e \in Row : TRUE
    BY <1>4
  <2>2. Row = {e}
    BY <2>1 DEF Row, IInv, Provenance
  <2>3. e \in Ticks /\ e \notin accepted /\ e \notin inMemory /\ e \notin db
    BY <1>1, <2>1, RowIsNew
  <2>4. Lost' = Lost
    BY <1>1, <1>2, <2>2, <2>3 DEF Lost
  <2>5. Log!Accept(e)
    BY <1>1, <1>2, <2>2, <2>3, <2>4 DEF Log!Accept, Lost
  <2>6. QED BY <2>3, <2>5 DEF RowsMove
<1>5. QED BY <1>3, <1>4

\* A task's transaction ends: its batch is stored, or all of it is lost.
LEMMA BatchLeaves ==
    ASSUME FxAssumption, IInv, NEW t \in Tasks, Store(t) \/ Abort(t),
           accepted' = accepted, inMemory' = inMemory \ batch[t]
    PROVE  RowsMove
<1>1. batch[t] \in SUBSET inMemory
  BY TheTasks DEF inMemory
<1>2. CASE db' = db
  <2>1. Log!Settle({}, batch[t] \ {})
    BY <1>1, <1>2, RowsLeave
  <2>2. QED BY <1>1, <2>1 DEF RowsMove
<1>3. CASE db' = db \cup batch[t]
  <2>1. Log!Settle(batch[t], batch[t] \ batch[t])
    BY <1>1, <1>3, RowsLeave
  <2>2. QED BY <1>1, <2>1 DEF RowsMove
<1>4. QED BY <1>2, <1>3 DEF Store, Abort

LEMMA StopMoves ==
    ASSUME FxAssumption, IInv, RedisFail \/ CommitFail \/ StreamEnd
    PROVE  RowsMove
<1>1. BeginShutdown /\ accepted' = accepted /\ Abort("main")
  BY DEF RedisFail, CommitFail, StreamEnd, Abort
<1>2. buf' = {} /\ batch'["main"] = buf /\ batch'["loop"] = batch["loop"]
  BY <1>1, TheTasks DEF BeginShutdown, Drain, Settled, IInv, TypeOK
<1>3. inMemory' = inMemory \ batch["main"]
  BY <1>2 DEF inMemory, IInv, OnePlace
<1>4. QED BY <1>1, <1>3, TheTasks, BatchLeaves

LEMMA CommitMoves ==
    ASSUME FxAssumption, IInv,
           CommitOk \/ FinalCommitOk \/ FinalCommitFail \/ LoopCommitOk
             \/ LoopCommitFail \/ LoopCancelledInCommit
    PROVE  RowsMove
<1>1. PICK t \in Tasks : (Store(t) \/ Abort(t)) /\ Settled(t)
  BY TheTasks DEF CommitOk, FinalCommitOk, FinalCommitFail, LoopCommitOk, LoopCommitFail,
     LoopCancelledInCommit
<1>2. buf' = buf /\ accepted' = accepted
  BY DEF CommitOk, FinalCommitOk, FinalCommitFail, LoopCommitOk, LoopCommitFail,
     LoopCancelledInCommit
<1>3. batch'[t] = {} /\ \A u \in Tasks \ {t} : batch'[u] = batch[u]
  BY <1>1 DEF Settled, IInv, TypeOK
<1>4. inMemory' = inMemory \ batch[t]
  BY <1>2, <1>3, TheTasks DEF inMemory, IInv, OnePlace
<1>5. QED BY <1>1, <1>2, <1>4, BatchLeaves

LEMMA EndMoves == ASSUME FxAssumption, IInv, Exit \/ Crash PROVE RowsMove
<1>1. PICK S \in SUBSET inMemory : db' = db \cup S
  <2>1. CASE Exit
    <3>1. db' = db \cup {}
      BY <2>1 DEF Exit
    <3>2. QED BY <3>1
  <2>2. CASE Crash
    <3>1. PICK T \in SUBSET Tasks : db' = db \cup UNION {batch[t] : t \in T}
      BY <2>2 DEF Crash
    <3>2. UNION {batch[t] : t \in T} \subseteq inMemory
      BY TheTasks DEF inMemory
    <3>3. QED BY <3>1, <3>2
  <2>3. QED BY <2>1, <2>2
<1>2. inMemory' = {} /\ accepted' = accepted
  BY TheTasks DEF Exit, Crash, FreshProcess, inMemory
<1>3. Log!Settle(S, inMemory \ S)
  BY <1>1, <1>2, RowsLeave
<1>4. QED BY <1>3 DEF RowsMove

LEMMA OtherMoves ==
    ASSUME FxAssumption, IInv,
           Start \/ InitOk \/ InitFail \/ WarmedUp \/ Polled \/ PollFails \/ PauseEnds
             \/ Close \/ LoopWake \/ LoopHealthOk \/ LoopHealthFail \/ LoopCancelled
             \/ Signal \/ TimePasses
    PROVE  RowsMove
<1>1. db' = db /\ accepted' = accepted
  BY DEF Start, InitOk, InitFail, WarmedUp, Polled, PollFails, PauseEnds, Close, LoopWake,
     LoopHealthOk, LoopHealthFail, LoopCancelled, Signal, TimePasses, rows
<1>2. inMemory' = inMemory
  <2>1. CASE LoopWake
    <3>1. batch["loop"] = {}
      BY <2>1 DEF IInv, LoopWake, BatchOnlyInCommit
    <3>2. \/ buf' = buf /\ batch' = batch
          \/ buf' = {} /\ batch'["loop"] = buf /\ batch'["main"] = batch["main"]
      BY <2>1, TheTasks DEF LoopWake, Drain, IInv, TypeOK
    <3>3. QED BY <3>1, <3>2 DEF inMemory
  <2>2. CASE ~LoopWake
    BY <2>2 DEF Start, InitOk, InitFail, WarmedUp, Polled, PollFails, PauseEnds, Close,
       LoopHealthOk, LoopHealthFail, LoopCancelled, Signal, TimePasses, rows, inMemory
  <2>3. QED BY <2>1, <2>2
<1>3. QED BY <1>1, <1>2, Stutter DEF RowsMove

LEMMA StepMovesRows == ASSUME FxAssumption, IInv, [Next]_vars PROVE RowsMove
<1>1. CASE Next
  BY <1>1, RedisOkMoves, StopMoves, CommitMoves, EndMoves, OtherMoves
  DEF Next, MainStep, LoopStep
<1>2. CASE UNCHANGED vars
  <2>1. buf' = buf /\ batch' = batch /\ db' = db /\ accepted' = accepted
    BY <1>2 DEF vars, rows
  <2>2. QED BY <2>1, Stutter DEF RowsMove, inMemory
<1>3. QED BY <1>1, <1>2

\* The forex collector implements the abstract log: a tick is accepted once,
\* then stored or lost once.
THEOREM Implementation == Spec => ImplementsLog
<1>1. ASSUME Init PROVE Log!LogInit
  BY <1>1, TheTasks DEF Init, Log!LogInit, inMemory, Lost
<1>2. ASSUME IInv, [Next]_vars PROVE [Log!LogNext]_(Log!logVars)
  <2>1. RowsMove
    BY <1>2, FxAssumption, StepMovesRows
  <2>2. QED BY <2>1 DEF RowsMove, Log!LogNext
<1>3. QED BY <1>1, <1>2, Invariance, PTL DEF Spec, ImplementsLog, Log!LogSpec
=============================================================================
