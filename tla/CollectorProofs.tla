--------------------------- MODULE CollectorProofs ---------------------------
(***************************************************************************)
(* Proofs about Collector for all constants: the inductive invariant, the  *)
(* safety invariants, the action property, and that the collector          *)
(* implements DurableLog.                                                   *)
(***************************************************************************)
EXTENDS Collector, FiniteSetTheorems, TLAPS

\* The first event of a message and the rest of it.
LEMMA HeadAndTail ==
    ASSUME NEW s \in Seq(Events), s # <<>>, IsInjective(s)
    PROVE  /\ Head(s) \in ToSet(s)
           /\ Tail(s) \in Seq(Events)
           /\ IsInjective(Tail(s))
           /\ ToSet(Tail(s)) \subseteq ToSet(s) \ {Head(s)}
<1>1. /\ Len(s) \in Nat \ {0}
      /\ DOMAIN s = 1..Len(s)
      /\ Head(s) = s[1]
      /\ Tail(s) \in Seq(Events)
      /\ Len(Tail(s)) = Len(s) - 1
      /\ DOMAIN Tail(s) = 1..(Len(s) - 1)
      /\ \A i \in 1..(Len(s) - 1) : Tail(s)[i] = s[i+1]
  OBVIOUS
<1>2. \A i, j \in 1..Len(s) : s[i] = s[j] => i = j
  BY <1>1 DEF IsInjective
<1>3. Head(s) \in ToSet(s)
  BY <1>1 DEF ToSet
<1>4. IsInjective(Tail(s))
  BY <1>1, <1>2 DEF IsInjective
<1>5. ToSet(Tail(s)) \subseteq ToSet(s) \ {Head(s)}
  BY <1>1, <1>2 DEF ToSet
<1>6. QED BY <1>1, <1>3, <1>4, <1>5

\* Counting the rows of one kind in a set and in a subset of it.
LEMMA FewerRows ==
    ASSUME ConstantsAssumption, NEW S \in SUBSET Events, NEW T \in SUBSET S,
           NEW k
    PROVE  /\ Cardinality(RowsOf(S, k)) \in Nat
           /\ Cardinality(RowsOf(T, k)) \in Nat
           /\ Cardinality(RowsOf(T, k)) <= Cardinality(RowsOf(S, k))
<1>1. RowsOf(S, k) \in SUBSET Events /\ RowsOf(T, k) \in SUBSET RowsOf(S, k)
  BY DEF RowsOf
<1>2. IsFiniteSet(RowsOf(S, k))
  BY <1>1, FS_Subset DEF ConstantsAssumption
<1>3. IsFiniteSet(RowsOf(T, k))
  BY <1>1, <1>2, FS_Subset
<1>4. QED
  BY <1>1, <1>2, <1>3, FS_CardinalityType, FS_Subset

-----------------------------------------------------------------------------
(* The inductive invariant.                                                *)

LEMMA InitIInv == ConstantsAssumption /\ Init => IInv
<1> SUFFICES ASSUME ConstantsAssumption, Init PROVE IInv
  OBVIOUS
<1>1. 0 < BatchSize /\ Cardinality({}) = 0
  BY FS_EmptySet DEF ConstantsAssumption
<1>2. BatchBound
  <2>1. ASSUME NEW k \in BatchKinds PROVE Rows(k) = {}
    BY DEF Init, Rows, RowsOf
  <2>2. QED BY <1>1, <2>1 DEF BatchBound
<1>3. Unprocessed
  BY DEF Init, Unprocessed, IsInjective, ToSet
<1>4. TypeOK
  <2>1. pending \in Seq(Events)
    BY DEF Init
  <2>2. batch \in [Tasks -> SUBSET Events]
    BY DEF Init
  <2>3. QED BY <2>1, <2>2 DEF Init, TypeOK
<1>5. batch["main"] = {} /\ batch["loop"] = {}
  BY DEF Init, Tasks
<1>6. OnePlace /\ BatchOnlyInCommit /\ Provenance
  BY <1>5 DEF Init, OnePlace, BatchOnlyInCommit, Provenance, inMemory
<1>7. FlushedAtEnd /\ UniqueKeys(db)
  BY DEF Init, FlushedAtEnd, UniqueKeys
<1>8. QED
  BY <1>2, <1>3, <1>4, <1>6, <1>7 DEF IInv

\* Steps that touch neither buffers, batches, the database nor the histories.
LEMMA KeepsRows ==
    ASSUME ConstantsAssumption, IInv,
           UNCHANGED <<buf, batch, db, delivered, shown, accepted>>
    PROVE  /\ OnePlace' /\ Provenance' /\ BatchBound' /\ UniqueKeys(db)'
  BY DEF IInv, OnePlace, Provenance, BatchBound, Rows, UniqueKeys, inMemory

\* A smaller buffer keeps the bound.
LEMMA KeepsBound ==
    ASSUME ConstantsAssumption, IInv, buf' \subseteq buf
    PROVE  BatchBound'
<1> SUFFICES ASSUME NEW k \in BatchKinds
             PROVE  Cardinality(RowsOf(buf', k)) < BatchSize
  BY DEF BatchBound, Rows, RowsOf
<1>1. buf \in SUBSET Events /\ buf' \in SUBSET buf
  BY DEF IInv, TypeOK
<1>2. /\ Cardinality(RowsOf(buf, k)) \in Nat
      /\ Cardinality(RowsOf(buf', k)) \in Nat
      /\ Cardinality(RowsOf(buf', k)) <= Cardinality(RowsOf(buf, k))
  BY <1>1, FewerRows
<1>3. Cardinality(RowsOf(buf, k)) < BatchSize
  BY DEF IInv, BatchBound, Rows
<1>4. QED BY <1>2, <1>3 DEF ConstantsAssumption

\* start()'s finally block, entered from any state of the stream.
LEMMA ShutdownKeepsIInv ==
    ASSUME ConstantsAssumption, IInv, BeginShutdown,
           pc \in {"stream", "redis", "commit"},
           pc # "commit" => db' = db,
           pc = "commit" => Abort("main"),
           UNCHANGED <<fl, provRunning, delivered, shown, accepted, signalled>>,
           failed' \in BOOLEAN
    PROVE  IInv'
<1> USE DEF IInv
<1>0. "main" \in Tasks /\ "loop" \in Tasks /\ Tasks = {"main", "loop"}
  BY DEF Tasks
<1>1. /\ running' = FALSE /\ pending' = <<>>
      /\ buf' = {}
      /\ batch'["main"] = buf /\ batch'["loop"] = batch["loop"]
      /\ batch' \in [Tasks -> SUBSET Events]
      /\ pc' \in {"final", "closing"}
      /\ pc' = "closing" => batch'["main"] = {}
  BY <1>0 DEF BeginShutdown, NothingBuffered, Drain, TypeOK
<1>2. /\ db' \in {db, db \cup batch["main"]}
      /\ UniqueKeys(db')
  BY DEF Abort, Store, UniqueKeys
<1>3. TypeOK'
  <2>1. db' \subseteq Events
    BY <1>0, <1>2 DEF TypeOK
  <2>2. pending' \in Seq(Events)
    BY <1>1
  <2>3. QED
    BY <1>1, <2>1, <2>2 DEF TypeOK
<1>4. OnePlace'
  BY <1>0, <1>1, <1>2 DEF OnePlace, TypeOK
<1>5. BatchOnlyInCommit'
  BY <1>1 DEF BatchOnlyInCommit
<1>6. Provenance'
  BY <1>1, <1>2 DEF Provenance, inMemory
<1>7. Unprocessed' /\ FlushedAtEnd'
  BY <1>1 DEF Unprocessed, FlushedAtEnd, IsInjective, ToSet
<1>8. BatchBound'
  BY <1>1, KeepsBound
<1>9. UniqueKeys(db)'
  BY <1>2 DEF UniqueKeys
<1>10. QED
  BY <1>3, <1>4, <1>5, <1>6, <1>7, <1>8, <1>9

-----------------------------------------------------------------------------
(* One lemma per action.                                                   *)

\* Actions that move no row: IInv's row facts are unchanged.
LEMMA ControlKeepsIInv ==
    ASSUME ConstantsAssumption, IInv,
           Start \/ InitOk \/ InitFail \/ Close \/ LoopHealth \/ LoopCancelled
             \/ Signal
    PROVE  IInv'
<1> USE DEF IInv
<1>1. UNCHANGED <<buf, batch, db, delivered, shown, accepted, pending>>
  BY DEF Start, InitOk, InitFail, Close, LoopHealth, LoopCancelled, Signal,
     history
<1>2. OnePlace' /\ Provenance' /\ BatchBound' /\ UniqueKeys(db)'
  BY <1>1, KeepsRows
<1>3. TypeOK'
  BY <1>1 DEF TypeOK, Start, InitOk, InitFail, Close, LoopHealth,
     LoopCancelled, Signal
<1>4. BatchOnlyInCommit' /\ FlushedAtEnd'
  BY <1>1 DEF BatchOnlyInCommit, FlushedAtEnd, Start, InitOk, InitFail, Close,
     LoopHealth, LoopCancelled, Signal
<1>5. Unprocessed'
  BY <1>1 DEF Unprocessed, Start, InitOk, InitFail, Close, LoopHealth,
     LoopCancelled, Signal
<1>6. QED BY <1>2, <1>3, <1>4, <1>5

LEMMA NextMessageKeepsIInv ==
    ASSUME ConstantsAssumption, IInv, NextMessage PROVE IInv'
<1> USE DEF IInv
<1>1. PICK m \in Messages : /\ ToSet(m) \cap delivered = {}
                            /\ delivered' = delivered \cup ToSet(m)
                            /\ pending' = m
  BY DEF NextMessage
<1>2. /\ m \in Seq(Events) /\ m # <<>> /\ IsInjective(m)
      /\ ToSet(m) \subseteq Events
  BY DEF ConstantsAssumption, ToSet
<1>3. TypeOK'
  BY <1>1, <1>2 DEF TypeOK, NextMessage
<1>4. Unprocessed'
  BY <1>1, <1>2 DEF Unprocessed, NextMessage, Provenance
<1>5. OnePlace' /\ BatchOnlyInCommit' /\ FlushedAtEnd' /\ UniqueKeys(db)'
  BY DEF OnePlace, BatchOnlyInCommit, FlushedAtEnd, UniqueKeys, NextMessage
<1>6. Provenance'
  BY <1>1 DEF Provenance, inMemory, NextMessage
<1>7. BatchBound'
  BY DEF BatchBound, Rows, RowsOf, NextMessage
<1>8. QED BY <1>3, <1>4, <1>5, <1>6, <1>7

LEMMA RedisOkKeepsIInv ==
    ASSUME ConstantsAssumption, IInv, RedisOk PROVE IInv'
<1> USE DEF IInv
<1> DEFINE e     == Head(pending)
           row   == IF HasRow(e) THEN {e} ELSE {}
           after == buf \cup row
<1>1. /\ e \in ToSet(pending)
      /\ Tail(pending) \in Seq(Events)
      /\ IsInjective(Tail(pending))
      /\ ToSet(Tail(pending)) \subseteq ToSet(pending) \ {e}
  <2>1. pending \in Seq(Events) /\ pending # <<>> /\ IsInjective(pending)
    BY DEF TypeOK, Unprocessed, RedisOk
  <2>2. QED BY <2>1, HeadAndTail
<1>2. e \in delivered \ shown /\ e \in Events /\ row \subseteq {e}
  BY <1>1 DEF Unprocessed, TypeOK
<1>3. /\ pending' = Tail(pending)
      /\ shown' = shown \cup {e}
      /\ accepted' = accepted \cup row
      /\ UNCHANGED <<fl, running, provRunning, db, delivered, signalled, failed>>
  BY DEF RedisOk
<1>4. "main" \in Tasks /\ "loop" \in Tasks
  BY DEF Tasks
<1>5. batch["main"] = {} /\ pc = "redis"
  BY DEF BatchOnlyInCommit, RedisOk
<1>6. CASE BatchFull(after)
  <2>1. /\ batch' = [batch EXCEPT !["main"] = after]
        /\ buf' = {} /\ pc' = "commit"
    BY <1>6 DEF RedisOk
  <2>2. batch'["main"] = after /\ batch'["loop"] = batch["loop"]
    BY <2>1, <1>4 DEF TypeOK
  <2>3. TypeOK'
    BY <1>1, <1>2, <1>3, <2>1 DEF TypeOK
  <2>4. OnePlace'
    BY <1>2, <1>3, <1>5, <2>1, <2>2 DEF OnePlace, Provenance, inMemory
  <2>5. Provenance'
    BY <1>2, <1>3, <2>1, <2>2 DEF Provenance, inMemory
  <2>6. BatchOnlyInCommit' /\ FlushedAtEnd'
    BY <1>3, <2>1, <2>2 DEF BatchOnlyInCommit, FlushedAtEnd
  <2>7. Unprocessed'
    BY <1>1, <1>3, <2>1 DEF Unprocessed
  <2>8. BatchBound'
    BY <2>1, KeepsBound
  <2>9. UniqueKeys(db)'
    BY <1>3 DEF UniqueKeys
  <2>10. QED BY <2>3, <2>4, <2>5, <2>6, <2>7, <2>8, <2>9
<1>7. CASE ~BatchFull(after)
  <2>1. /\ buf' = after /\ batch' = batch
        /\ pc' = Waiting(Tail(pending))
    BY <1>7 DEF RedisOk
  <2>2. pc' \in {"stream", "redis"} /\ (pc' = "redis" => Tail(pending) # <<>>)
    BY <2>1 DEF Waiting
  <2>3. TypeOK'
    BY <1>1, <1>2, <1>3, <2>1, <2>2 DEF TypeOK
  <2>4. OnePlace'
    BY <1>2, <1>3, <2>1 DEF OnePlace, Provenance, inMemory
  <2>5. Provenance'
    BY <1>2, <1>3, <2>1 DEF Provenance, inMemory
  <2>6. BatchOnlyInCommit' /\ FlushedAtEnd'
    BY <1>3, <1>5, <2>1, <2>2 DEF BatchOnlyInCommit, FlushedAtEnd
  <2>7. Unprocessed'
    BY <1>1, <1>3, <2>2 DEF Unprocessed
  <2>8. BatchBound'
    <3>1. SUFFICES ASSUME NEW k \in BatchKinds
                   PROVE  Cardinality(RowsOf(after, k)) < BatchSize
      BY <2>1 DEF BatchBound, Rows, RowsOf
    <3>2. ~(Cardinality(RowsOf(after, k)) >= BatchSize)
      BY <1>7 DEF BatchFull
    <3>3. after \in SUBSET Events
      BY <1>2 DEF TypeOK
    <3>4. Cardinality(RowsOf(after, k)) \in Nat
      BY <3>3, FewerRows
    <3>5. QED BY <3>2, <3>4 DEF ConstantsAssumption
  <2>9. UniqueKeys(db)'
    BY <1>3 DEF UniqueKeys
  <2>10. QED BY <2>3, <2>4, <2>5, <2>6, <2>7, <2>8, <2>9
<1>8. QED BY <1>6, <1>7

LEMMA StopKeepsIInv ==
    ASSUME ConstantsAssumption, IInv, RedisFail \/ MainCommitFail \/ StreamEnd
    PROVE  IInv'
<1>1. BeginShutdown /\ pc \in {"stream", "redis", "commit"}
  BY DEF RedisFail, MainCommitFail, StreamEnd
<1>2. /\ pc # "commit" => db' = db
      /\ pc = "commit" => Abort("main")
      /\ UNCHANGED <<fl, provRunning, delivered, shown, accepted, signalled>>
      /\ failed' \in BOOLEAN
  BY DEF RedisFail, MainCommitFail, StreamEnd, history, IInv, TypeOK
<1>3. QED BY <1>1, <1>2, ShutdownKeepsIInv

\* Task t's transaction ends: its rows are stored, or not, and forgotten.
LEMMA EndOfTransaction ==
    ASSUME ConstantsAssumption, IInv, NEW t \in Tasks,
           Store(t) \/ Abort(t), Settled(t),
           UNCHANGED <<buf, delivered, shown, accepted>>
    PROVE  /\ batch' \in [Tasks -> SUBSET Events] /\ db' \subseteq Events
           /\ batch'[t] = {}
           /\ \A u \in Tasks \ {t} : batch'[u] = batch[u]
           /\ OnePlace' /\ Provenance' /\ BatchBound' /\ UniqueKeys(db)'
<1> USE DEF IInv
<1>0. "main" \in Tasks /\ "loop" \in Tasks /\ Tasks = {"main", "loop"}
  BY DEF Tasks
<1>1. /\ batch' \in [Tasks -> SUBSET Events]
      /\ batch'[t] = {}
      /\ \A u \in Tasks \ {t} : batch'[u] = batch[u]
  BY DEF Settled, TypeOK
<1>2. db' \in {db, db \cup batch[t]} /\ UniqueKeys(db')
  BY DEF Abort, Store, UniqueKeys
<1>3. db' \subseteq Events
  BY <1>2 DEF TypeOK
<1>4. OnePlace'
  BY <1>0, <1>1, <1>2 DEF OnePlace
<1>5. Provenance'
  BY <1>0, <1>1, <1>2 DEF Provenance, inMemory
<1>6. BatchBound'
  BY KeepsBound
<1>7. UniqueKeys(db)'
  BY <1>2 DEF UniqueKeys
<1>8. QED BY <1>1, <1>3, <1>4, <1>5, <1>6, <1>7

LEMMA CommitKeepsIInv ==
    ASSUME ConstantsAssumption, IInv,
           MainCommitOk \/ FinalCommitOk \/ FinalCommitFail \/ LoopCommitOk
             \/ LoopCommitFail \/ LoopCancelledInCommit
    PROVE  IInv'
<1> USE DEF IInv
<1>0. "main" \in Tasks /\ "loop" \in Tasks /\ Tasks = {"main", "loop"}
  BY DEF Tasks
<1>1. UNCHANGED <<buf, delivered, shown, accepted, pending>>
  BY DEF MainCommitOk, FinalCommitOk, FinalCommitFail, LoopCommitOk,
     LoopCommitFail, LoopCancelledInCommit, history
<1>2. CASE MainCommitOk \/ FinalCommitOk \/ FinalCommitFail
  <2>1. (Store("main") \/ Abort("main")) /\ Settled("main")
    BY <1>2 DEF MainCommitOk, FinalCommitOk, FinalCommitFail
  <2>2. /\ batch' \in [Tasks -> SUBSET Events] /\ db' \subseteq Events
        /\ batch'["main"] = {} /\ batch'["loop"] = batch["loop"]
        /\ OnePlace' /\ Provenance' /\ BatchBound' /\ UniqueKeys(db)'
    BY <1>0, <1>1, <2>1, EndOfTransaction
  <2>3. /\ fl' = fl
        /\ pc' = Waiting(pending) \/ pc' \in {"closing", "exiting"}
        /\ pc' \in {"closing", "exiting"} => pc = "final"
    BY <1>2 DEF MainCommitOk, FinalCommitOk, FinalCommitFail, Waiting
  <2>4. pc' \in {"stream", "redis", "closing", "exiting"}
        /\ (pc' = "redis" => pending # <<>>)
    BY <2>3 DEF Waiting
  <2>5. TypeOK'
    BY <1>1, <1>2, <2>2, <2>4 DEF TypeOK, MainCommitOk, FinalCommitOk,
       FinalCommitFail
  <2>6. BatchOnlyInCommit' /\ FlushedAtEnd'
    BY <1>1, <2>2, <2>3, <2>4 DEF BatchOnlyInCommit, FlushedAtEnd
  <2>7. Unprocessed'
    BY <1>1, <2>4 DEF Unprocessed
  <2>8. QED BY <2>2, <2>5, <2>6, <2>7
<1>3. CASE LoopCommitOk \/ LoopCommitFail \/ LoopCancelledInCommit
  <2>1. (Store("loop") \/ Abort("loop")) /\ Settled("loop")
    BY <1>3 DEF LoopCommitOk, LoopCommitFail, LoopCancelledInCommit
  <2>2. /\ batch' \in [Tasks -> SUBSET Events] /\ db' \subseteq Events
        /\ batch'["loop"] = {} /\ batch'["main"] = batch["main"]
        /\ OnePlace' /\ Provenance' /\ BatchBound' /\ UniqueKeys(db)'
    BY <1>0, <1>1, <2>1, EndOfTransaction
  <2>3. pc' = pc /\ fl = "commit" /\ fl' \in {"health", "sleep", "done"}
    BY <1>3 DEF LoopCommitOk, LoopCommitFail, LoopCancelledInCommit
  <2>4. TypeOK'
    BY <1>1, <1>3, <2>2, <2>3 DEF TypeOK, LoopCommitOk, LoopCommitFail,
       LoopCancelledInCommit
  <2>5. BatchOnlyInCommit' /\ FlushedAtEnd' /\ Unprocessed'
    BY <1>1, <2>2, <2>3 DEF BatchOnlyInCommit, FlushedAtEnd, Unprocessed
  <2>6. QED BY <2>2, <2>4, <2>5
<1>4. QED BY <1>2, <1>3

LEMMA LoopWakeKeepsIInv ==
    ASSUME ConstantsAssumption, IInv, LoopWake PROVE IInv'
<1> USE DEF IInv
<1>0. "main" \in Tasks /\ "loop" \in Tasks
  BY DEF Tasks
<1>1. /\ UNCHANGED <<pc, running, provRunning, pending, db, delivered, shown,
                     accepted, signalled, failed>>
      /\ fl = "sleep" /\ batch["loop"] = {}
  BY DEF LoopWake, history, BatchOnlyInCommit
<1>2. CASE buf = {}
  <2>1. fl' = "health" /\ UNCHANGED <<buf, batch>>
    BY <1>2 DEF LoopWake, NothingBuffered
  <2>2. OnePlace' /\ Provenance' /\ BatchBound' /\ UniqueKeys(db)'
    BY <1>1, <2>1, KeepsRows
  <2>3. TypeOK' /\ BatchOnlyInCommit' /\ FlushedAtEnd' /\ Unprocessed'
    BY <1>1, <2>1 DEF TypeOK, BatchOnlyInCommit, FlushedAtEnd, Unprocessed
  <2>4. QED BY <2>2, <2>3
<1>3. CASE buf # {}
  <2>1. fl' = "commit" /\ batch' = [batch EXCEPT !["loop"] = buf] /\ buf' = {}
    BY <1>3 DEF LoopWake, NothingBuffered, Drain
  <2>2. batch'["loop"] = buf /\ batch'["main"] = batch["main"]
    BY <1>0, <2>1 DEF TypeOK
  <2>3. TypeOK'
    BY <1>1, <2>1 DEF TypeOK
  <2>4. OnePlace' /\ Provenance'
    BY <1>1, <2>1, <2>2 DEF OnePlace, Provenance, inMemory
  <2>5. BatchOnlyInCommit' /\ FlushedAtEnd' /\ Unprocessed'
    BY <1>1, <2>1, <2>2 DEF BatchOnlyInCommit, FlushedAtEnd, Unprocessed
  <2>6. BatchBound'
    BY <2>1, KeepsBound
  <2>7. UniqueKeys(db)'
    BY <1>1 DEF UniqueKeys
  <2>8. QED BY <2>3, <2>4, <2>5, <2>6, <2>7
<1>4. QED BY <1>2, <1>3

LEMMA ExitKeepsIInv ==
    ASSUME ConstantsAssumption, IInv, Exit PROVE IInv'
<1> USE DEF IInv
<1>1. UNCHANGED <<buf, batch, db, delivered, shown, accepted, pending>>
  BY DEF Exit, history, FlushedAtEnd
<1>2. OnePlace' /\ Provenance' /\ BatchBound' /\ UniqueKeys(db)'
  BY <1>1, KeepsRows
<1>3. TypeOK' /\ BatchOnlyInCommit' /\ FlushedAtEnd' /\ Unprocessed'
  BY <1>1 DEF Exit, TypeOK, BatchOnlyInCommit, FlushedAtEnd, Unprocessed
<1>4. QED BY <1>2, <1>3

LEMMA CrashKeepsIInv ==
    ASSUME ConstantsAssumption, IInv, Crash PROVE IInv'
<1> USE DEF IInv
<1>0. "main" \in Tasks /\ "loop" \in Tasks /\ Tasks = {"main", "loop"}
  BY DEF Tasks
<1>1. PICK T \in SUBSET Tasks :
         LET S == UNION {batch[t] : t \in T}
         IN  UniqueKeys(db \cup S) /\ db' = db \cup S
  BY DEF Crash
<1> DEFINE S == UNION {batch[t] : t \in T}
<1>2. UniqueKeys(db \cup S) /\ db' = db \cup S
  BY <1>1
<1>3. S \subseteq batch["main"] \cup batch["loop"]
  BY <1>0
<1> HIDE DEF S
<1>4. /\ pc' = "down" /\ fl' = "none" /\ pending' = <<>> /\ buf' = {}
      /\ batch' = [t \in Tasks |-> {}]
      /\ UNCHANGED <<delivered, shown, accepted>>
  BY DEF Crash, history
<1>5. batch'["main"] = {} /\ batch'["loop"] = {}
  BY <1>0, <1>4
<1>6. TypeOK'
  <2>1. pending' \in Seq(Events) /\ batch' \in [Tasks -> SUBSET Events]
    BY <1>4
  <2>2. db' \subseteq Events
    BY <1>0, <1>2, <1>3 DEF TypeOK
  <2>3. QED BY <1>4, <2>1, <2>2 DEF TypeOK, Crash
<1>7. OnePlace' /\ BatchOnlyInCommit' /\ FlushedAtEnd'
  BY <1>4, <1>5 DEF OnePlace, BatchOnlyInCommit, FlushedAtEnd
<1>8. Provenance'
  BY <1>2, <1>3, <1>4, <1>5 DEF Provenance, inMemory
<1>9. Unprocessed'
  BY <1>4 DEF Unprocessed, IsInjective, ToSet
<1>10. BatchBound'
  BY <1>4, KeepsBound
<1>11. UniqueKeys(db)'
  BY <1>2 DEF UniqueKeys
<1>12. QED BY <1>6, <1>7, <1>8, <1>9, <1>10, <1>11

LEMMA StepKeepsIInv ==
    ASSUME ConstantsAssumption, IInv, [Next]_vars PROVE IInv'
<1>1. CASE Next
  BY <1>1, ControlKeepsIInv, NextMessageKeepsIInv, RedisOkKeepsIInv,
     StopKeepsIInv, CommitKeepsIInv, LoopWakeKeepsIInv, ExitKeepsIInv,
     CrashKeepsIInv DEF Next, MainStep, LoopStep
<1>2. CASE UNCHANGED vars
  <2>1. UNCHANGED <<buf, batch, db, delivered, shown, accepted>>
    BY <1>2 DEF vars, history
  <2>2. OnePlace' /\ Provenance' /\ BatchBound' /\ UniqueKeys(db)'
    BY <2>1, KeepsRows
  <2>3. TypeOK' /\ BatchOnlyInCommit' /\ FlushedAtEnd' /\ Unprocessed'
    BY <1>2 DEF vars, IInv, TypeOK, BatchOnlyInCommit, FlushedAtEnd,
       Unprocessed
  <2>4. QED BY <2>2, <2>3 DEF IInv
<1>3. QED BY <1>1, <1>2

\* The inductive invariant holds: types, one place per row, the batch bound,
\* and what the other theorems rest on.
THEOREM Invariance == Spec => []IInv
<1>1. Init => IInv
  BY ConstantsAssumption, InitIInv
<1>2. IInv /\ [Next]_vars => IInv'
  BY ConstantsAssumption, StepKeepsIInv
<1>3. QED BY <1>1, <1>2, PTL DEF Spec

\* No row is ever in two of: the buffers, the main task's transaction, the
\* flush loop's transaction, the database.
THEOREM NoDoubleInsert == Spec => []OnePlace
<1>1. IInv => OnePlace
  BY DEF IInv
<1>2. QED BY <1>1, Invariance, PTL

\* The tick, trade and candle buffers stay below the batch size.
THEOREM BatchBounded == Spec => []BatchBound
<1>1. IInv => BatchBound
  BY DEF IInv
<1>2. QED BY <1>1, Invariance, PTL

\* What is buffered or stored has been shown in Redis before.
THEOREM LiveFirst == Spec => []LiveBeforeDurable
<1>1. IInv => LiveBeforeDurable
  BY DEF IInv, Provenance, LiveBeforeDurable
<1>2. QED BY <1>1, Invariance, PTL

-----------------------------------------------------------------------------
(* How rows move: the refinement of DurableLog and the account of losses.  *)

\* The state of a row's life after a step in which task t's batch leaves
\* memory, all of it stored or all of it lost.
LEMMA BatchLeaves ==
    ASSUME ConstantsAssumption, IInv, NEW t \in Tasks,
           Store(t) \/ Abort(t),
           accepted' = accepted, inMemory' = inMemory \ batch[t]
    PROVE  Log!Settle(batch[t], {}) \/ Log!Settle({}, batch[t])
<1> USE DEF IInv
<1>0. "main" \in Tasks /\ "loop" \in Tasks /\ Tasks = {"main", "loop"}
  BY DEF Tasks
<1>1. batch[t] \subseteq inMemory /\ inMemory \cap db = {}
      /\ inMemory \subseteq accepted
  BY <1>0 DEF inMemory, OnePlace, Provenance
<1>2. CASE Store(t)
  <2>1. Lost' = Lost
    BY <1>1, <1>2 DEF Lost, Store
  <2>2. QED BY <1>1, <1>2, <2>1 DEF Log!Settle, Log!UniqueKeys, Store, UniqueKeys
<1>3. CASE db' = db
  <2>1. Lost' = Lost \cup batch[t]
    BY <1>1, <1>3 DEF Lost
  <2>2. QED BY <1>1, <1>3, <2>1 DEF Log!Settle, Log!UniqueKeys, UniqueKeys
<1>4. QED BY <1>2, <1>3 DEF Abort

LEMMA Stutter ==
    ASSUME IInv, accepted' = accepted, inMemory' = inMemory, db' = db
    PROVE  Log!Settle({}, {})
<1>1. Lost' = Lost
  BY DEF Lost
<1>2. QED BY <1>1 DEF IInv, Log!Settle, Log!UniqueKeys, UniqueKeys

\* Every step moves rows in one of four ways.
RowsMove ==
    \/ \E e \in Events : Log!Accept(e)
    \/ Log!Settle({}, {})
    \/ \E t \in Tasks : Log!Settle(batch[t], {}) \/ Log!Settle({}, batch[t])
    \/ /\ pc' = "down" /\ (pc # "exiting" \/ batch["loop"] # {})
       /\ \E S, L \in SUBSET inMemory : Log!Settle(S, L)

LEMMA RedisOkMoves == ASSUME ConstantsAssumption, IInv, RedisOk PROVE RowsMove
<1> USE DEF IInv
<1> DEFINE e     == Head(pending)
           row   == IF HasRow(e) THEN {e} ELSE {}
           after == buf \cup row
<1>1. e \in delivered \ shown /\ e \in Events
  <2>1. pending \in Seq(Events) /\ pending # <<>> /\ IsInjective(pending)
    BY DEF TypeOK, Unprocessed, RedisOk
  <2>2. QED BY <2>1, HeadAndTail DEF Unprocessed, TypeOK
<1>2. /\ batch["main"] = {} /\ db' = db
      /\ accepted' = accepted \cup row
  BY DEF BatchOnlyInCommit, RedisOk
<1>3. inMemory' = inMemory \cup row
  <2>1. "main" \in Tasks /\ "loop" \in Tasks
    BY DEF Tasks
  <2>2. \/ buf' = after /\ batch' = batch
        \/ buf' = {} /\ batch' = [batch EXCEPT !["main"] = after]
    BY DEF RedisOk
  <2>3. \/ buf' = after /\ batch' = batch
        \/ buf' = {} /\ batch'["main"] = after /\ batch'["loop"] = batch["loop"]
    BY <2>1, <2>2 DEF TypeOK
  <2>4. QED BY <1>2, <2>3 DEF inMemory
<1>4. e \notin accepted /\ e \notin inMemory \cup db /\ e \notin Lost
  BY <1>1 DEF Provenance, Lost
<1>5. CASE HasRow(e)
  <2>1. Lost' = Lost
    BY <1>2, <1>3, <1>4, <1>5 DEF Lost
  <2>2. Log!Accept(e)
    BY <1>2, <1>3, <1>4, <1>5, <2>1 DEF Log!Accept
  <2>3. QED BY <1>1, <2>2 DEF RowsMove
<1>6. CASE ~HasRow(e)
  BY <1>2, <1>3, <1>6, Stutter DEF RowsMove
<1>7. QED BY <1>5, <1>6

LEMMA StopMoves ==
    ASSUME ConstantsAssumption, IInv, RedisFail \/ MainCommitFail \/ StreamEnd
    PROVE  RowsMove
<1> USE DEF IInv
<1>0. "main" \in Tasks /\ "loop" \in Tasks
  BY DEF Tasks
<1>1. BeginShutdown /\ accepted' = accepted
  BY DEF RedisFail, MainCommitFail, StreamEnd, history
<1>2. buf' = {} /\ batch'["main"] = buf /\ batch'["loop"] = batch["loop"]
  BY <1>0, <1>1 DEF BeginShutdown, NothingBuffered, Drain, TypeOK
<1>3. inMemory' = inMemory \ batch["main"]
  BY <1>2 DEF inMemory, OnePlace
<1>4. CASE MainCommitFail
  BY <1>0, <1>1, <1>3, <1>4, BatchLeaves DEF MainCommitFail, RowsMove
<1>5. CASE RedisFail \/ StreamEnd
  <2>1. batch["main"] = {} /\ db' = db
    BY <1>5 DEF RedisFail, StreamEnd, BatchOnlyInCommit
  <2>2. QED BY <1>1, <1>3, <2>1, Stutter DEF RowsMove
<1>6. QED BY <1>4, <1>5

LEMMA CommitMoves ==
    ASSUME ConstantsAssumption, IInv,
           MainCommitOk \/ FinalCommitOk \/ FinalCommitFail \/ LoopCommitOk
             \/ LoopCommitFail \/ LoopCancelledInCommit
    PROVE  RowsMove
<1> USE DEF IInv
<1>0. "main" \in Tasks /\ "loop" \in Tasks /\ Tasks = {"main", "loop"}
  BY DEF Tasks
<1>1. PICK t \in Tasks : (Store(t) \/ Abort(t)) /\ Settled(t)
  BY <1>0 DEF MainCommitOk, FinalCommitOk, FinalCommitFail, LoopCommitOk,
     LoopCommitFail, LoopCancelledInCommit
<1>2. buf' = buf /\ accepted' = accepted
  BY DEF MainCommitOk, FinalCommitOk, FinalCommitFail, LoopCommitOk,
     LoopCommitFail, LoopCancelledInCommit, history
<1>3. batch'[t] = {} /\ \A u \in Tasks \ {t} : batch'[u] = batch[u]
  BY <1>1 DEF Settled, TypeOK
<1>4. inMemory' = inMemory \ batch[t]
  BY <1>0, <1>2, <1>3 DEF inMemory, OnePlace
<1>5. QED BY <1>1, <1>2, <1>4, BatchLeaves DEF RowsMove

LEMMA CrashMoves == ASSUME ConstantsAssumption, IInv, Crash PROVE RowsMove
<1> USE DEF IInv
<1>0. "main" \in Tasks /\ "loop" \in Tasks /\ Tasks = {"main", "loop"}
  BY DEF Tasks
<1>1. PICK S \in SUBSET inMemory : UniqueKeys(db \cup S) /\ db' = db \cup S
  <2>1. PICK T \in SUBSET Tasks :
          LET R == UNION {batch[t] : t \in T}
          IN  UniqueKeys(db \cup R) /\ db' = db \cup R
    BY DEF Crash
  <2>2. UNION {batch[t] : t \in T} \subseteq inMemory
    BY <1>0 DEF inMemory
  <2>3. QED BY <2>1, <2>2
<1>2. inMemory' = {} /\ accepted' = accepted /\ pc' = "down"
  BY <1>0 DEF Crash, history, inMemory
<1>3. Lost' = Lost \cup (inMemory \ S)
  BY <1>1, <1>2 DEF Lost, Provenance, OnePlace, inMemory
<1>4. Log!Settle(S, inMemory \ S)
  BY <1>1, <1>2, <1>3 DEF Log!Settle, Log!UniqueKeys, UniqueKeys
<1>5. CASE pc = "exiting" /\ batch["loop"] = {}
  <2>1. inMemory = {}
    BY <1>5 DEF inMemory, FlushedAtEnd, BatchOnlyInCommit
  <2>2. QED BY <1>1, <1>2, <2>1, Stutter DEF RowsMove
<1>6. QED BY <1>2, <1>4, <1>5 DEF RowsMove

LEMMA OtherMoves ==
    ASSUME IInv,
           Start \/ InitOk \/ InitFail \/ Close \/ LoopHealth \/ LoopCancelled
             \/ Signal \/ NextMessage \/ LoopWake \/ Exit
    PROVE  RowsMove
<1>1. inMemory' = inMemory
  <2>1. CASE LoopWake
    <3>1. "main" \in Tasks /\ "loop" \in Tasks
      BY DEF Tasks
    <3>2. \/ buf' = buf /\ batch' = batch
          \/ buf' = {} /\ batch'["loop"] = buf /\ batch'["main"] = batch["main"]
      BY <2>1, <3>1 DEF LoopWake, Drain, IInv, TypeOK
    <3>3. batch["loop"] = {}
      BY <2>1 DEF IInv, LoopWake, BatchOnlyInCommit
    <3>4. QED BY <3>2, <3>3 DEF inMemory
  <2>2. CASE ~LoopWake
    BY <2>2 DEF IInv, inMemory, FlushedAtEnd, Start, InitOk, InitFail, Close,
       LoopHealth, LoopCancelled, Signal, NextMessage, Exit
  <2>3. QED BY <2>1, <2>2
<1>2. db' = db /\ accepted' = accepted
  BY DEF Start, InitOk, InitFail, Close, LoopHealth, LoopCancelled, Signal,
     NextMessage, LoopWake, Exit, history
<1>3. QED BY <1>1, <1>2, Stutter DEF RowsMove

LEMMA StepMovesRows ==
    ASSUME ConstantsAssumption, IInv, [Next]_vars PROVE RowsMove
<1>1. CASE Next
  BY <1>1, RedisOkMoves, StopMoves, CommitMoves, CrashMoves, OtherMoves
  DEF Next, MainStep, LoopStep
<1>2. CASE UNCHANGED vars
  <2>1. inMemory' = inMemory /\ db' = db /\ accepted' = accepted
    BY <1>2 DEF vars, history, inMemory
  <2>2. QED BY <2>1, Stutter DEF RowsMove
<1>3. QED BY <1>1, <1>2

\* A row is lost only with its whole transaction, or when the process dies
\* with it in memory.
THEOREM AccountOfLosses == Spec => LossOnlyByFailedFlush
<1>1. ASSUME IInv, [Next]_vars, Lost' # Lost
      PROVE  \/ \E t \in Tasks : batch[t] # {} /\ Lost' = Lost \cup batch[t]
             \/ pc' = "down" /\ (pc # "exiting" \/ batch["loop"] # {})
  <2>1. RowsMove
    BY <1>1, ConstantsAssumption, StepMovesRows
  <2>2. QED BY <1>1, <2>1 DEF RowsMove, Log!Accept, Log!Settle
<1>2. QED BY <1>1, Invariance, PTL DEF Spec, LossOnlyByFailedFlush

\* The collector implements the abstract log: a row is accepted once, then
\* stored or lost once, and stored keys are unique.
THEOREM Implementation == Spec => ImplementsLog
<1>1. Init => Log!LogInit
  BY DEF Init, Log!LogInit, inMemory, Lost, Tasks
<1>2. IInv /\ [Next]_vars => [Log!LogNext]_(Log!logVars)
  <2> SUFFICES ASSUME IInv, [Next]_vars PROVE Log!LogNext
    OBVIOUS
  <2>1. RowsMove
    BY ConstantsAssumption, StepMovesRows
  <2>2. \A t \in Tasks : batch[t] \in SUBSET inMemory
    BY DEF Tasks, inMemory
  <2>3. QED BY <2>1, <2>2 DEF RowsMove, Log!LogNext
<1>3. QED BY <1>1, <1>2, Invariance, PTL DEF Spec, ImplementsLog, Log!LogSpec
=============================================================================
