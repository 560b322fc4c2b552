----------------------------- MODULE DurableLog -----------------------------
(***************************************************************************)
(* What the Delta collector promises about a market-data row, without its  *)
(* buffers, tasks or transactions: a row it accepted is held in memory     *)
(* until it is settled, once, as stored in Postgres or as lost, and no two *)
(* stored rows share a primary key.  Collector implements this.            *)
(***************************************************************************)
CONSTANTS Events,  \* market events the collector may accept as rows
          RowKey   \* [Events -> primary key of the row]

VARIABLES held,    \* accepted, still in the process's memory
          stored,  \* committed to Postgres
          lost     \* accepted, neither in memory nor in Postgres

logVars == <<held, stored, lost>>

UniqueKeys(S) == \A e, f \in S : RowKey[e] = RowKey[f] => e = f

LogInit == held = {} /\ stored = {} /\ lost = {}

Accept(e) == /\ e \notin held \cup stored \cup lost
             /\ held' = held \cup {e}
             /\ UNCHANGED <<stored, lost>>

Settle(S, L) == /\ S \cup L \subseteq held
                /\ S \cap L = {}
                /\ UniqueKeys(stored \cup S)
                /\ held' = held \ (S \cup L)
                /\ stored' = stored \cup S
                /\ lost' = lost \cup L

LogNext == \/ \E e \in Events : Accept(e)
           \/ \E S, L \in SUBSET held : Settle(S, L)

LogSpec == LogInit /\ [][LogNext]_logVars
=============================================================================
