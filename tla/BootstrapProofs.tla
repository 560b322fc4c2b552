--------------------------- MODULE BootstrapProofs ---------------------------
(***************************************************************************)
(* Proofs about Bootstrap for any set of services and any number of        *)
(* instruments, crashes and restarts: seeding is all or nothing, and the   *)
(* seeding services never wait for each other in a circle.                 *)
(***************************************************************************)
EXTENDS Bootstrap, TLAPS

Seeding(p) == pc[p] \in {"seed", "insert"}
Seeded(p)  == pc[p] \in {"count", "fetch", "backfill", "up"}

\* An open transaction holds only items the service has passed in the file,
\* and has, with the committed ones, all of them.
PassedItems ==
    \A p \in Procs :
        /\ mine[p] \subseteq 1..(at[p] - 1)
        /\ ~Seeding(p) => mine[p] = {}
        /\ Seeding(p) => 1..(at[p] - 1) \subseteq table \cup mine[p]
        /\ pc[p] = "initdb" => at[p] = 1
        /\ pc[p] = "insert" => at[p] <= NItems

Disjoint ==
    /\ \A p, q \in Procs : p # q => mine[p] \cap mine[q] = {}
    /\ \A p \in Procs : mine[p] \cap table = {}

SeedInv == TypeOK /\ PassedItems /\ Disjoint /\ SeedAllOrNothing

\* What the history of candles does is of no concern to the instruments.
LEMMA OlderAges == \A S : Older(S) \in SUBSET Ages
  BY DEF Older

LEMMA AtMostIsBounded ==
    ASSUME NEW n \in Nat, NEW k \in Nat
    PROVE  AtMost(n, k) \in 0..n /\ (AtMost(n, k) = n \/ AtMost(n, k) = k)
  BY DEF AtMost

LEMMA InitSeedInv == ASSUME BootAssumption, Init PROVE SeedInv
<1>1. TypeOK
  <2>1. listed \in Listed..Window /\ old \in 0..Few /\ crashes \in 0..MaxCrashes
    BY DEF BootAssumption, Init
  <2>2. at \in [Procs -> 1..(NItems + 1)]
    BY DEF BootAssumption, Init
  <2>3. /\ pc \in [Procs -> {"down"}] /\ mine \in [Procs -> {{}}] /\ fetched \in [Procs -> {{}}]
        /\ schema = FALSE /\ table = {} /\ candles = {}
    BY DEF Init
  <2>4. imports \in BOOLEAN /\ online \subseteq Procs
    BY DEF Init
  <2>5. QED BY <2>1, <2>2, <2>3, <2>4 DEF TypeOK
<1>2. PassedItems /\ Disjoint /\ SeedAllOrNothing
  BY DEF Init, PassedItems, Disjoint, SeedAllOrNothing, Seeding
<1>3. QED BY <1>1, <1>2 DEF SeedInv

\* Steps that leave the instruments alone and move a service between states
\* in which it has no transaction on them (init_db, backfill, live candles).
LEMMA CandlesKeepSeedInv ==
    ASSUME BootAssumption, SeedInv, TypeOK', UNCHANGED seedVars,
           \A p \in Procs : \/ pc'[p] = pc[p]
                            \/ Seeded(p) /\ pc'[p] \in {"fetch", "backfill", "up", "down"}
    PROVE  SeedInv'
<1>1. PassedItems'
  BY DEF SeedInv, PassedItems, seedVars, Seeding, Seeded
<1>2. Disjoint'
  BY DEF SeedInv, Disjoint, seedVars
<1>3. SeedAllOrNothing'
  BY DEF SeedInv, SeedAllOrNothing, seedVars, Seeded
<1>4. QED BY <1>1, <1>2, <1>3 DEF SeedInv

\* A service ends or its transaction is rolled back (crash, conflict, no table).
LEMMA RollbackKeepsSeedInv ==
    ASSUME BootAssumption, SeedInv, TypeOK', NEW p \in Procs,
           mine' = [mine EXCEPT ![p] = {}], UNCHANGED <<table, at>>,
           \E label \in {"down", "up"} :
               /\ pc' = [pc EXCEPT ![p] = label]
               /\ label = "up" => Seeded(p)
    PROVE  SeedInv'
<1> USE DEF SeedInv, TypeOK
<1>1. /\ mine'[p] = {} /\ ~Seeding(p)' /\ pc'[p] # "initdb" /\ pc'[p] # "insert"
      /\ \A q \in Procs : q # p => mine'[q] = mine[q] /\ pc'[q] = pc[q]
  BY DEF Seeding
<1>2. PassedItems'
  BY <1>1 DEF PassedItems, Seeding
<1>3. Disjoint'
  BY <1>1 DEF Disjoint
<1>4. SeedAllOrNothing'
  BY <1>1 DEF SeedAllOrNothing, Seeded
<1>5. QED BY <1>2, <1>3, <1>4

\* init_db and one step of seed_instruments.
LEMMA SeedStepKeepsSeedInv ==
    ASSUME BootAssumption, SeedInv, TypeOK', NEW p \in Procs,
           \/ Start(p) \/ InitDbOk(p) \/ InitDbRolledBack(p)
           \/ Lookup(p) \/ Insert(p) \/ SeedCommits(p)
    PROVE  SeedInv'
<1> USE DEF SeedInv, TypeOK
<1>1. CASE Start(p)
  <2>1. /\ pc'[p] = "initdb" /\ at'[p] = 1 /\ mine[p] = {} /\ UNCHANGED <<mine, table>>
        /\ \A q \in Procs : q # p => pc'[q] = pc[q] /\ at'[q] = at[q]
    BY <1>1 DEF Start, Goto, PassedItems, Seeding
  <2>2. PassedItems'
    BY <2>1 DEF PassedItems, Seeding
  <2>3. QED BY <2>1, <2>2 DEF Disjoint, SeedAllOrNothing
<1>2. CASE InitDbOk(p) \/ InitDbRolledBack(p)
  <2>1. /\ pc[p] = "initdb" /\ pc'[p] = "seed" /\ at[p] = 1
        /\ UNCHANGED <<mine, table, at>>
        /\ \A q \in Procs : q # p => pc'[q] = pc[q]
    BY <1>2 DEF InitDbOk, InitDbRolledBack, Goto, PassedItems, seedVars
  <2>2. PassedItems'
    BY <2>1 DEF PassedItems, Seeding
  <2>3. QED BY <2>1, <2>2 DEF Disjoint, SeedAllOrNothing
<1>3. CASE Lookup(p)
  <2>1. /\ pc[p] = "seed" /\ at[p] <= NItems /\ UNCHANGED <<mine, table>>
        /\ \A q \in Procs : q # p => pc'[q] = pc[q] /\ at'[q] = at[q]
    BY <1>3 DEF Lookup, Goto
  <2>2. \/ pc'[p] = "seed" /\ at'[p] = at[p] + 1 /\ at[p] \in table \cup mine[p]
        \/ pc'[p] = "insert" /\ at'[p] = at[p]
    BY <1>3 DEF Lookup, Goto, Item, ItemAt
  <2>3. /\ mine'[p] \subseteq 1..(at'[p] - 1)
        /\ 1..(at'[p] - 1) \subseteq table' \cup mine'[p]
    <3>1. mine[p] \subseteq 1..(at[p] - 1) /\ 1..(at[p] - 1) \subseteq table \cup mine[p]
      BY <2>1 DEF PassedItems, Seeding
    <3>2. at[p] \in Nat
      OBVIOUS
    <3>3. QED BY <2>1, <2>2, <3>1, <3>2
  <2>4. PassedItems'
    BY <2>1, <2>2, <2>3 DEF PassedItems, Seeding
  <2>5. QED BY <2>1, <2>2, <2>4 DEF Disjoint, SeedAllOrNothing
<1>4. CASE Insert(p)
  <2>1. /\ pc[p] = "insert" /\ pc'[p] = "seed" /\ at'[p] = at[p] + 1
        /\ mine'[p] = mine[p] \cup {at[p]} /\ at[p] \notin table
        /\ \A q \in Procs \ {p} : at[p] \notin mine[q]
        /\ \A q \in Procs : q # p => pc'[q] = pc[q] /\ at'[q] = at[q] /\ mine'[q] = mine[q]
        /\ UNCHANGED table
    BY <1>4 DEF Insert, Goto, Item, ItemAt, Locked
  <2>2. /\ mine'[p] \subseteq 1..(at'[p] - 1)
        /\ 1..(at'[p] - 1) \subseteq table' \cup mine'[p]
    <3>1. mine[p] \subseteq 1..(at[p] - 1) /\ 1..(at[p] - 1) \subseteq table \cup mine[p]
      BY <2>1 DEF PassedItems, Seeding
    <3>2. at[p] \in Nat \ {0}
      OBVIOUS
    <3>3. QED BY <2>1, <3>1, <3>2
  <2>3. PassedItems'
    BY <2>1, <2>2 DEF PassedItems, Seeding
  <2>4. Disjoint'
    BY <2>1 DEF Disjoint
  <2>5. QED BY <2>1, <2>3, <2>4 DEF SeedAllOrNothing
<1>5. CASE SeedCommits(p)
  <2>1. /\ pc[p] = "seed" /\ pc'[p] \in {"count", "up"} /\ UNCHANGED at
        /\ table' = table \cup mine[p] /\ mine'[p] = {}
        /\ \A q \in Procs : q # p => pc'[q] = pc[q] /\ mine'[q] = mine[q]
    BY <1>5 DEF SeedCommits, Goto, AfterSeeding
  <2>2. Items \subseteq table \cup mine[p]
    BY <1>5, <2>1 DEF SeedCommits, PassedItems, Seeding, Items, BootAssumption
  <2>3. table' = Items
    BY <2>1, <2>2
  <2>4. PassedItems'
    BY <2>1 DEF PassedItems, Seeding
  <2>5. Disjoint'
    BY <2>1 DEF Disjoint
  <2>6. QED BY <2>3, <2>4, <2>5 DEF SeedAllOrNothing
<1>6. QED BY <1>1, <1>2, <1>3, <1>4, <1>5

-----------------------------------------------------------------------------
(* The types, action by action.                                            *)

LEMMA SeedStepKeepsTypes ==
    ASSUME BootAssumption, SeedInv, NEW p \in Procs,
           \/ Start(p) \/ InitDbOk(p) \/ InitDbRolledBack(p) \/ InitDbFails(p)
           \/ Lookup(p) \/ LookupFails(p) \/ Insert(p) \/ InsertConflicts(p)
           \/ SeedCommits(p)
    PROVE  TypeOK'
<1> USE DEF SeedInv, TypeOK, Goto, seedVars, history, given
<1>1. CASE Start(p)
  <2>1. 1 \in 1..(NItems + 1)
    BY DEF BootAssumption
  <2>2. QED BY <1>1, <2>1 DEF Start
<1>2. CASE InitDbOk(p)
  BY <1>2 DEF InitDbOk
<1>3. CASE InitDbRolledBack(p)
  BY <1>3 DEF InitDbRolledBack
<1>4. CASE Lookup(p)
  <2>1. at[p] + 1 \in 1..(NItems + 1)
    BY <1>4 DEF Lookup, BootAssumption
  <2>2. /\ at' \in [Procs -> 1..(NItems + 1)]
        /\ pc' \in [Procs -> {"down", "initdb", "seed", "insert", "count", "fetch",
                             "backfill", "up"}]
    BY <1>4, <2>1 DEF Lookup
  <2>3. QED BY <1>4, <2>2 DEF Lookup
<1>5. CASE LookupFails(p)
  BY <1>5 DEF LookupFails, Rollback
<1>6. CASE Insert(p)
  <2>1. at[p] + 1 \in 1..(NItems + 1) /\ Item(p) \in Items
    BY <1>6 DEF Insert, PassedItems, BootAssumption, Item, ItemAt, Items
  <2>2. QED BY <1>6, <2>1 DEF Insert
<1>7. CASE InsertConflicts(p)
  BY <1>7 DEF InsertConflicts, Rollback
<1>8. CASE SeedCommits(p)
  <2>1. AfterSeeding(p) \in {"count", "up"}
    BY DEF AfterSeeding
  <2>2. QED BY <1>8, <2>1 DEF SeedCommits
<1>9. CASE InitDbFails(p)
  BY <1>9 DEF InitDbFails
<1>10. QED BY <1>1, <1>2, <1>3, <1>4, <1>5, <1>6, <1>7, <1>8, <1>9

LEMMA CandleStepKeepsTypes ==
    ASSUME BootAssumption, SeedInv,
           \/ \E p \in Procs : \/ CountCandles(p) \/ FetchCandles(p) \/ Backfill(p)
                               \/ BackfillConflicts(p) \/ ImportFails(p) \/ Crash(p)
           \/ LiveCandle \/ Minute
    PROVE  TypeOK'
<1> USE DEF SeedInv, TypeOK, Goto, seedVars, history, given
<1>1. ASSUME NEW p \in Procs, CountCandles(p) PROVE TypeOK'
  <2>1. Counted(p) \in {"fetch", "up"}
    BY DEF Counted
  <2>2. QED BY <1>1, <2>1 DEF CountCandles
<1>2. ASSUME NEW p \in Procs, FetchCandles(p) PROVE TypeOK'
  <2>1. History \subseteq Ages
    BY DEF History, Ages, BootAssumption
  <2>2. QED BY <1>2, <2>1 DEF FetchCandles
<1>3. ASSUME NEW p \in Procs, Backfill(p) PROVE TypeOK'
  BY <1>3 DEF Backfill
<1>4. ASSUME NEW p \in Procs, BackfillConflicts(p) PROVE TypeOK'
  <2>1. AfterError(p) \in {"down", "up"}
    BY DEF AfterError
  <2>2. QED BY <1>4, <2>1 DEF BackfillConflicts, Rollback
<1>5. ASSUME NEW p \in Procs, Crash(p) PROVE TypeOK'
  <2>1. crashes' \in 0..MaxCrashes
    BY <1>5 DEF Crash, BootAssumption
  <2>2. QED BY <1>5, <2>1 DEF Crash, Rollback
<1>6. CASE LiveCandle
  <2>1. 0 \in Ages
    BY DEF Ages, BootAssumption
  <2>2. QED BY <1>6, <2>1 DEF LiveCandle
<1>7. CASE Minute
  <2>1. old' \in 0..Few
    <3>1. CASE Window \in candles
      BY <1>7, <3>1, AtMostIsBounded DEF Minute, BootAssumption
    <3>2. CASE Window \notin candles
      BY <1>7, <3>2, AtMostIsBounded DEF Minute, BootAssumption
    <3>3. QED BY <3>1, <3>2
  <2>2. listed' \in Listed..Window
    <3>1. listed' = AtMost(Window, listed + 1) /\ listed \in Listed..Window
      BY <1>7 DEF Minute
    <3>2. QED BY <3>1 DEF AtMost, BootAssumption
  <2>3. candles' \subseteq Ages /\ fetched' \in [Procs -> SUBSET Ages]
    BY <1>7, OlderAges DEF Minute
  <2>4. QED BY <1>7, <2>1, <2>2, <2>3 DEF Minute
<1>8. ASSUME NEW p \in Procs, ImportFails(p) PROVE TypeOK'
  <2>1. AfterError(p) \in {"down", "up"}
    BY DEF AfterError
  <2>2. QED BY <1>8, <2>1 DEF ImportFails
<1>9. QED BY <1>1, <1>2, <1>3, <1>4, <1>5, <1>6, <1>7, <1>8

-----------------------------------------------------------------------------
LEMMA NextKeepsSeedInv ==
    ASSUME BootAssumption, SeedInv, Next
    PROVE  SeedInv'
<1> USE DEF Goto, seedVars, history
<1>1. ASSUME NEW p \in Procs,
             \/ Start(p) \/ InitDbOk(p) \/ InitDbRolledBack(p)
             \/ Lookup(p) \/ Insert(p) \/ SeedCommits(p)
      PROVE  SeedInv'
  BY <1>1, SeedStepKeepsTypes, SeedStepKeepsSeedInv
<1>2. ASSUME NEW p \in Procs, LookupFails(p) \/ InsertConflicts(p)
      PROVE  SeedInv'
  <2>1. TypeOK'
    BY <1>2, SeedStepKeepsTypes
  <2>2. /\ mine' = [mine EXCEPT ![p] = {}] /\ UNCHANGED <<table, at>>
        /\ pc' = [pc EXCEPT ![p] = "down"]
    BY <1>2 DEF LookupFails, InsertConflicts, Rollback
  <2>3. QED BY <2>1, <2>2, RollbackKeepsSeedInv
<1>3. ASSUME NEW p \in Procs, BackfillConflicts(p) PROVE SeedInv'
  <2>1. TypeOK'
    BY <1>3, CandleStepKeepsTypes
  <2>2. /\ mine' = [mine EXCEPT ![p] = {}] /\ UNCHANGED <<table, at>>
        /\ pc' = [pc EXCEPT ![p] = AfterError(p)]
        /\ AfterError(p) \in {"down", "up"} /\ Seeded(p)
    BY <1>3 DEF BackfillConflicts, Rollback, AfterError, Seeded
  <2>3. QED BY <2>1, <2>2, RollbackKeepsSeedInv
<1>4. ASSUME NEW p \in Procs, Crash(p) PROVE SeedInv'
  <2>1. TypeOK'
    BY <1>4, CandleStepKeepsTypes
  <2>2. /\ mine' = [mine EXCEPT ![p] = {}] /\ UNCHANGED <<table, at>>
        /\ pc' = [pc EXCEPT ![p] = "down"]
    BY <1>4 DEF Crash, Rollback
  <2>3. QED BY <2>1, <2>2, RollbackKeepsSeedInv
<1>5. ASSUME NEW p \in Procs,
             CountCandles(p) \/ FetchCandles(p) \/ Backfill(p) \/ ImportFails(p)
      PROVE  SeedInv'
  <2>1. TypeOK'
    BY <1>5, CandleStepKeepsTypes
  <2>2. /\ UNCHANGED seedVars /\ Seeded(p)
        /\ \A q \in Procs : q # p => pc'[q] = pc[q]
        /\ pc'[p] \in {"fetch", "backfill", "up", "down"}
    BY <1>5 DEF CountCandles, FetchCandles, Backfill, ImportFails, Counted, AfterError,
       Seeded, SeedInv, TypeOK
  <2>3. QED BY <2>1, <2>2, CandlesKeepSeedInv
<1>6. CASE LiveCandle \/ Minute
  <2>1. TypeOK'
    BY <1>6, CandleStepKeepsTypes
  <2>2. UNCHANGED <<pc, seedVars>>
    BY <1>6 DEF LiveCandle, Minute
  <2>3. QED BY <2>1, <2>2, CandlesKeepSeedInv
<1>7. ASSUME NEW p \in Procs, InitDbFails(p) PROVE SeedInv'
  <2>1. TypeOK'
    BY <1>7, SeedStepKeepsTypes
  <2>2. /\ UNCHANGED <<mine, table, at>> /\ mine[p] = {}
        /\ pc' = [pc EXCEPT ![p] = "down"]
    BY <1>7 DEF InitDbFails, SeedInv, PassedItems, Seeding
  <2>3. mine' = [mine EXCEPT ![p] = {}]
    BY <2>2 DEF SeedInv, TypeOK
  <2>4. QED BY <2>1, <2>2, <2>3, RollbackKeepsSeedInv
<1>8. QED BY <1>1, <1>2, <1>3, <1>4, <1>5, <1>6, <1>7 DEF Next, Step

\* The invariant holds of every behaviour.
THEOREM SeedInvariance == Spec => []SeedInv
<1>1. Init => SeedInv
  BY BootAssumption, InitSeedInv
<1>2. SeedInv /\ [Next]_vars => SeedInv'
  <2> SUFFICES ASSUME SeedInv, [Next]_vars PROVE SeedInv'
    OBVIOUS
  <2>1. CASE UNCHANGED vars
    BY <2>1 DEF vars, given, SeedInv, TypeOK, PassedItems, Disjoint, SeedAllOrNothing, Seeding
  <2>2. CASE Next
    BY <2>2, BootAssumption, NextKeepsSeedInv
  <2>3. QED BY <2>1, <2>2
<1>3. QED BY <1>1, <1>2, PTL DEF Spec

\* No observer sees a part of the instruments, whoever seeds and crashes
\* (seed.py:16-37).
THEOREM SeedingIsAtomic == Spec => []SeedAllOrNothing
<1>1. SeedInv => SeedAllOrNothing
  BY DEF SeedInv
<1>2. QED BY <1>1, SeedInvariance, PTL

\* Every wait is for a service that is further in the file, so waits have no
\* circle (seed.py:18-37).
THEOREM SeedingIsOrdered == Spec => []SeedingNeverDeadlocks
<1>1. SeedInv => SeedingNeverDeadlocks
  <2> SUFFICES ASSUME SeedInv PROVE SeedingNeverDeadlocks
    OBVIOUS
  <2>1. ASSUME NEW p \in Procs, NEW q \in Procs, Waits(p, q)
        PROVE  at[p] < at[q]
    <3>1. at[p] \in mine[q] /\ mine[q] \subseteq 1..(at[q] - 1)
      BY <2>1 DEF Waits, Item, ItemAt, SeedInv, PassedItems
    <3>2. at[p] \in Nat /\ at[q] \in Nat
      BY DEF SeedInv, TypeOK
    <3>3. QED BY <3>1, <3>2
  <2>2. QED BY <2>1 DEF SeedingNeverDeadlocks, SeedInv, Disjoint
<1>2. QED BY <1>1, SeedInvariance, PTL
==============================================================================
