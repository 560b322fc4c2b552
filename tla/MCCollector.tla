---------------------------- MODULE MCCollector ----------------------------
(* Small instances of Collector for TLC.                                   *)
EXTENDS Collector, TLC

CONSTANTS t1, t2, c1, c2, f1, m1

\* Two ticks (the first one in a ticker message with funding and mark price,
\* as _parse_ticker builds it), two candle updates of one
\* minute: c1 and c2 have the same primary key.
mcEvents   == {t1, t2, c1, c2, f1, m1}
mcKind     == (t1 :> "tick") @@ (t2 :> "tick") @@ (c1 :> "candle")
              @@ (c2 :> "candle") @@ (f1 :> "funding") @@ (m1 :> "markspot")
mcRowKey   == [e \in mcEvents |-> IF e = c2 THEN c1 ELSE e]
mcMapped   == mcEvents
mcMessages == {<<t1, f1, m1>>, <<t2>>, <<c1>>, <<c2>>}
=============================================================================
