------------------------------ MODULE Bootstrap ------------------------------
(***************************************************************************)
(* How the services come up on one Postgres: init_db()                      *)
(* (swaram/storage/postgres.py), seed_instruments() (swaram/storage/seed.py *)
(* over InstrumentRepository.get_or_create), and the backfill of candles    *)
(* from the exchange's REST history, by the Delta collector while it        *)
(* initializes (delta_runner.py:66-100) and by the API on demand            *)
(* (apps/api/routes/analytics.py:17-69).                                    *)
(*                                                                         *)
(* The processes are started together and restarted by docker-compose.  A  *)
(* step runs from one await to the next; a transaction that inserts a key  *)
(* another open transaction has inserted waits for that one to end         *)
(* (Postgres, READ COMMITTED).  One instrument's candles stand for all.    *)
(*                                                                         *)
(* At this commit the Delta collector can not come up: delta_rest.py, which *)
(* it imports, is not valid Python (delta_rest.py:47-57), and               *)
(* docker-compose.yml leaves it out of the network Postgres is in.  Both are *)
(* states the system starts in, as is either of them repaired.              *)
(***************************************************************************)
EXTENDS Naturals, FiniteSets

CONSTANTS
    Procs,         \* the services, every one of which seeds
    Collector,     \* the Delta collector
    Api,           \* the API service
    NItems,        \* (venue, symbol) pairs in symbols.yaml, in file order
    Few,           \* a backfill is made below this many candles (10)
    Window,        \* candles a REST answer holds at most (100)
    Listed,        \* minutes of history the exchange has at the start
    MaxCrashes     \* bound on crashes

ASSUME BootAssumption ==
    /\ Collector \in Procs /\ Api \in Procs /\ Collector # Api
    /\ {NItems, Few, Window, Listed, MaxCrashes} \subseteq Nat
    /\ Few <= Window /\ Listed <= Window

Items == 1..NItems

\* A candle is told by its age in minutes.  One that has left the window a
\* minute ago is only counted, and the counting ends at Few: time needs no
\* bound.
Ages == 0..Window
Older(ages) == {a + 1 : a \in ages} \cap Ages
AtMost(n, k) == IF k < n THEN k ELSE n

VARIABLES
    imports,   \* can delta_rest.py be imported?  FALSE at this commit
    online,    \* the services that reach Postgres; neither ever changes
    pc,        \* where each process is
    schema,    \* do the tables exist?
    table,     \* committed rows of instruments
    mine,      \* rows each process has inserted and not committed
    at,        \* the item each process looks at
    candles,   \* committed candles
    old,       \* committed candles that are older, at most Few
    fetched,   \* candles a process has got from REST and adds to its session
    listed,    \* minutes of history the exchange has, at most Window
    crashes    \* history: crashes so far

given == <<imports, online>>
vars  == <<given, pc, schema, table, mine, at, candles, old, fetched, listed,
           crashes>>
seedVars == <<table, mine, at>>
history == <<candles, old, listed>>

\* mutant: the collector goes through the items in another order
ItemAtReversed(p, n) == IF p = Collector THEN (NItems + 1) - n ELSE n
\* The n-th item of symbols.yaml, the same for every process.
ItemAt(p, n) == n
Item(p) == ItemAt(p, at[p])

Goto(p, label) == pc' = [pc EXCEPT ![p] = label]

\* The transaction of p ends without effect.
Rollback(p) == /\ mine' = [mine EXCEPT ![p] = {}]
               /\ fetched' = [fetched EXCEPT ![p] = {}]

-----------------------------------------------------------------------------
(* init_db().                                                              *)

Start(p) ==
    /\ pc[p] = "down"
    /\ Goto(p, "initdb")
    /\ at' = [at EXCEPT ![p] = 1]
    /\ UNCHANGED <<schema, table, mine, history, fetched, crashes, given>>

InitDbOk(p) ==
    /\ pc[p] = "initdb" /\ p \in online
    /\ schema' = TRUE
    /\ Goto(p, "seed")
    /\ UNCHANGED <<seedVars, history, fetched, crashes, given>>

\* A statement fails (create_all, or create_hypertable): the exception is
\* caught and logged, but Postgres rolls the whole transaction back.
InitDbRolledBack(p) ==
    /\ pc[p] = "initdb" /\ p \in online
    /\ Goto(p, "seed")
    /\ UNCHANGED <<schema, seedVars, history, fetched, crashes, given>>

\* No connection, for now or for want of a network: the process ends.
InitDbFails(p) ==
    /\ pc[p] = "initdb"
    /\ Goto(p, "down")
    /\ UNCHANGED <<schema, seedVars, history, fetched, crashes, given>>

-----------------------------------------------------------------------------
(* seed_instruments(): one transaction over all the items.                 *)

Lookup(p) ==
    /\ pc[p] = "seed" /\ schema /\ at[p] <= NItems
    /\ IF Item(p) \in table \cup mine[p]
       THEN at' = [at EXCEPT ![p] = @ + 1] /\ UNCHANGED pc
       ELSE Goto(p, "insert") /\ UNCHANGED at
    /\ UNCHANGED <<schema, table, mine, history, fetched, crashes, given>>

\* The tables are not there.
LookupFails(p) ==
    /\ pc[p] = "seed" /\ ~schema
    /\ Goto(p, "down")
    /\ Rollback(p)
    /\ UNCHANGED <<schema, table, at, history, crashes, given>>

Locked(p) == \E q \in Procs \ {p} : Item(p) \in mine[q]

\* flush(): waits for another process's insert of the same key, and raises if
\* that one was committed.
Insert(p) ==
    /\ pc[p] = "insert" /\ ~Locked(p) /\ Item(p) \notin table
    /\ mine' = [mine EXCEPT ![p] = @ \cup {Item(p)}]
    /\ at' = [at EXCEPT ![p] = @ + 1]
    /\ Goto(p, "seed")
    /\ UNCHANGED <<schema, table, history, fetched, crashes, given>>

\* mutant: the same insert is tried again
InsertRetried(p) ==
    /\ pc[p] = "insert" /\ ~Locked(p) /\ Item(p) \in table
    /\ Rollback(p)
    /\ UNCHANGED <<pc, schema, table, at, history, crashes, given>>
InsertConflicts(p) ==
    /\ pc[p] = "insert" /\ ~Locked(p) /\ Item(p) \in table
    /\ Goto(p, "down")
    /\ Rollback(p)
    /\ UNCHANGED <<schema, table, at, history, crashes, given>>

\* The API and the forex collector are up; the Delta collector goes on to the
\* import of the REST client and the backfill.
AfterSeeding(p) == IF p = Collector THEN "count" ELSE "up"

\* mutant: the transaction is committed after every item
SeedCommitsEarly(p) ==
    /\ pc[p] = "seed" /\ schema /\ at[p] > 1
    /\ table' = table \cup mine[p]
    /\ mine' = [mine EXCEPT ![p] = {}]
    /\ Goto(p, AfterSeeding(p))
    /\ UNCHANGED <<schema, at, history, fetched, crashes, given>>
SeedCommits(p) ==
    /\ pc[p] = "seed" /\ schema /\ at[p] > NItems
    /\ table' = table \cup mine[p]
    /\ mine' = [mine EXCEPT ![p] = {}]
    /\ Goto(p, AfterSeeding(p))
    /\ UNCHANGED <<schema, at, history, fetched, crashes, given>>

-----------------------------------------------------------------------------
(* The candle backfill, by the collector ("count") or by an API request.   *)

History == 0..(listed - 1)

\* An exception in initialize() ends the collector; the API answers 500 and
\* goes on.
AfterError(p) == IF p = Collector THEN "down" ELSE "up"

\* The collector imports the REST client before it looks at the candles, the
\* API only when there are few.
ImportFails(p) ==
    /\ ~imports
    /\ pc[p] = IF p = Collector THEN "count" ELSE "fetch"
    /\ Goto(p, AfterError(p))
    /\ UNCHANGED <<schema, seedVars, history, fetched, crashes, given>>

Counted(p) == IF Cardinality(candles) + old < Few THEN "fetch" ELSE "up"

CountCandles(p) ==
    /\ \/ p = Collector /\ pc[p] = "count" /\ imports
       \/ p = Api /\ pc[p] = "up"
    /\ Goto(p, Counted(p))
    /\ UNCHANGED <<schema, seedVars, history, fetched, crashes, given>>

\* get_candles(): an answer, or [] for any error.
FetchCandles(p) ==
    /\ pc[p] = "fetch" /\ imports
    /\ \E answer \in {History, {}} : fetched' = [fetched EXCEPT ![p] = answer]
    /\ Goto(p, "backfill")
    /\ UNCHANGED <<schema, seedVars, history, crashes, given>>

\* commit(): every candle is inserted, so one that is stored already raises.
Backfill(p) ==
    /\ pc[p] = "backfill" /\ fetched[p] \cap candles = {}
    /\ candles' = candles \cup fetched[p]
    /\ fetched' = [fetched EXCEPT ![p] = {}]
    /\ Goto(p, "up")
    /\ UNCHANGED <<schema, seedVars, old, listed, crashes, given>>

\* mutant: the same candles are inserted again
BackfillRetried(p) ==
    /\ pc[p] = "backfill" /\ fetched[p] \cap candles # {}
    /\ UNCHANGED vars
BackfillConflicts(p) ==
    /\ pc[p] = "backfill" /\ fetched[p] \cap candles # {}
    /\ Goto(p, AfterError(p))
    /\ Rollback(p)
    /\ UNCHANGED <<schema, table, at, history, crashes, given>>

\* The running collector stores the candle of the current minute.
LiveCandle ==
    /\ pc[Collector] = "up" /\ 0 \notin candles
    /\ candles' = candles \cup {0}
    /\ UNCHANGED <<pc, schema, seedVars, old, listed, fetched, crashes, given>>

-----------------------------------------------------------------------------
(* The environment.                                                        *)

\* A bound: an answer of the exchange is committed before its second minute
\* ends (delta_rest.py gives up after seconds).
Minute ==
    /\ \A p \in Procs : Window \notin fetched[p]
    /\ candles' = Older(candles)
    /\ old' = AtMost(Few, IF Window \in candles THEN old + 1 ELSE old)
    /\ fetched' = [p \in Procs |-> Older(fetched[p])]
    /\ listed' = AtMost(Window, listed + 1)
    /\ UNCHANGED <<pc, schema, seedVars, crashes, given>>

Crash(p) ==
    /\ pc[p] # "down" /\ crashes < MaxCrashes
    /\ crashes' = crashes + 1
    /\ Goto(p, "down")
    /\ Rollback(p)
    /\ UNCHANGED <<schema, table, at, history, given>>

Init ==
    /\ imports \in BOOLEAN /\ online \in {Procs, Procs \ {Collector}}
    /\ pc = [p \in Procs |-> "down"]
    /\ schema = FALSE /\ table = {} /\ candles = {} /\ old = 0
    /\ mine = [p \in Procs |-> {}] /\ fetched = [p \in Procs |-> {}]
    /\ at = [p \in Procs |-> 1]
    /\ listed = Listed /\ crashes = 0

Step(p) == \/ Start(p) \/ InitDbOk(p) \/ InitDbRolledBack(p) \/ InitDbFails(p)
           \/ Lookup(p) \/ LookupFails(p) \/ Insert(p) \/ InsertConflicts(p)
           \/ SeedCommits(p)
           \/ ImportFails(p) \/ CountCandles(p) \/ FetchCandles(p) \/ Backfill(p)
           \/ BackfillConflicts(p)

Next == \/ \E p \in Procs : Step(p) \/ Crash(p)
        \/ LiveCandle \/ Minute

Spec == Init /\ [][Next]_vars

\* docker-compose restarts a process that ended; the exchange answers or the
\* request times out; a service that is in Postgres' network reaches it, and
\* init_db's statements succeed, one time or another; time goes on.
Fairness == /\ \A p \in Procs : WF_vars(Step(p)) /\ SF_vars(InitDbOk(p))
            /\ SF_vars(Minute)
FairSpec == Spec /\ Fairness

-----------------------------------------------------------------------------
(* Properties.                                                             *)

TypeOK ==
    /\ imports \in BOOLEAN /\ online \subseteq Procs
    /\ pc \in [Procs -> {"down", "initdb", "seed", "insert", "count", "fetch",
                         "backfill", "up"}]
    /\ schema \in BOOLEAN
    /\ table \subseteq Items
    /\ mine \in [Procs -> SUBSET Items]
    /\ at \in [Procs -> 1..(NItems + 1)]
    /\ candles \subseteq Ages /\ old \in 0..Few
    /\ fetched \in [Procs -> SUBSET Ages]
    /\ listed \in Listed..Window
    /\ crashes \in 0..MaxCrashes

\* Seeding is all or nothing for every observer: whichever of the processes
\* that seed at the same time gets its transaction through, the instruments
\* table has no row or all of them, and a service that is up has them all
\* (seed.py:16-37).
SeedAllOrNothing ==
    /\ table \in {{}, Items}
    /\ \A p \in Procs : pc[p] \in {"count", "fetch", "backfill", "up"} =>
           table = Items

\* No two open transactions hold the same instrument, none holds one that is
\* committed, and a process that waits for another is behind it in the file:
\* seeding processes never wait for each other in a circle (seed.py:18-37).
Waits(p, q) == pc[p] = "insert" /\ q # p /\ Item(p) \in mine[q]
SeedingNeverDeadlocks ==
    /\ \A p, q \in Procs : p # q => mine[p] \cap mine[q] = {}
    /\ \A p \in Procs : mine[p] \cap table = {}
    /\ \A p, q \in Procs : Waits(p, q) => at[p] < at[q]

\* A service comes up in the end, although each may lose the seeding race, or
\* the backfill race against an API request, and be restarted; and although a
\* collector that starts over fewer than Few candles fetches those it has and
\* ends, again and again, until they have left the window.  The Delta collector
\* is excepted as long as it is outside of Postgres' network or its import
\* fails, as at this commit: it is restarted for ever and never up, and the
\* others come up without it (seed.py, delta_runner.py:51-100,
\* delta_rest.py:47-57, docker-compose.yml:62-80).
CanComeUp(p) == p \in online /\ (p = Collector => imports)
EveryServiceComesUp ==
    /\ \A p \in Procs : (pc[p] = "down" /\ CanComeUp(p)) ~> (pc[p] = "up")
    /\ \A p \in Procs : ~CanComeUp(p) => []<>(pc[p] = "down") /\ [](pc[p] # "up")
=============================================================================
