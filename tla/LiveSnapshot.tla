---------------------------- MODULE LiveSnapshot ----------------------------
(***************************************************************************)
(* The live market snapshot of one instrument: the Redis hash              *)
(* market:snapshot:<symbol> (swaram/storage/redis.py), into which the      *)
(* Delta collector merges every event it parses from the feed              *)
(* (swaram/providers/crypto/delta_ws.py:155-440, delta_runner.py:170-285)  *)
(* and an API request that found the hash empty stores a REST answer       *)
(* (apps/api/routes/market.py:17-113, swaram/agents/tools.py:137-189).     *)
(*                                                                         *)
(* A value is abstracted to its version: the moment at which the exchange  *)
(* said it, 0 for a field the hash does not have.  Instruments do not      *)
(* share a hash, so one stands for all.  Reconnection is DeltaFeed's       *)
(* subject and the buffers are Collector's.                                *)
(***************************************************************************)
EXTENDS Naturals, Sequences

CONSTANTS
    Messages,    \* what the exchange may send, see Message
    Requests,    \* API requests in progress at the same time
    MaxVersion,  \* bound on messages and REST answers
    MaxWire      \* bound on messages sent and not yet received

Quotes == {"bid", "ask", "last"}
Parts  == Quotes \cup {"funding", "mark", "spot", "trade", "candle", "book"}
Fields == Parts \cup {"mid", "spread", "timestamp"}

\* has: the parts the message gives a value for ("book": both sides, "candle":
\* a list of six or an object).  nested: they are under its key "data".
Message == [type : {"ticker", "trade", "candle", "orderbook", "mark_price",
                    "spot_price", "pong"},
            has : SUBSET Parts, nested : BOOLEAN, valid : BOOLEAN]

\* The parts each channel is read for (delta_ws.py:199-440).
Carries == [ticker |-> Quotes \cup {"funding", "mark", "spot"}, trade |-> {"trade"},
            candle |-> {"candle"}, orderbook |-> {"book"}, pong |-> {},
            mark_price |-> {"mark", "spot"}, spot_price |-> {"mark", "spot"}]

ASSUME SnapshotAssumption ==
    /\ Messages \subseteq Message
    /\ \A m \in Messages : m.has \subseteq Carries[m.type]
    /\ MaxVersion \in Nat /\ MaxWire \in Nat

VARIABLES
    now,      \* the latest version the exchange has given out
    wire,     \* messages sent and not yet received, with their versions
    events,   \* updates of the message in hand that Redis has not yet
    snap,     \* the hash
    byRest,   \* history: fields whose value a REST answer put there
    rest,     \* where each API request is, and the REST answer it holds
    sent,     \* history: the versions the feed has given of each part
    dropped   \* history: versions lost with a connection or a process

vars == <<now, wire, events, snap, byRest, rest, sent, dropped>>

-----------------------------------------------------------------------------
(* Parsing.  One update of the hash per event; a field whose value is None *)
(* is left out.                                                            *)

TickFields(has) ==
    (has \cap Quotes) \cup {"timestamp"}
        \cup (IF {"bid", "ask"} \subseteq has THEN {"mid"} ELSE {})

When(condition, fields) == IF condition THEN <<fields>> ELSE <<>>

\* mutant: a ticker is either a funding or a mark/spot message
ParseTickerElse(m) ==
    <<TickFields(m.has)>>
        \o IF "funding" \in m.has /\ ~m.nested THEN <<{"funding"}>>
           ELSE When(m.has \cap {"mark", "spot"} # {}, m.has \cap {"mark", "spot"})
\* The funding rate is looked up outside of "data" (delta_ws.py:238), and so
\* are all parts of the messages of other channels but the order book.
ParseTicker(m) ==
    <<TickFields(m.has)>>
        \o When("funding" \in m.has /\ ~m.nested, {"funding"})
        \o When(m.has \cap {"mark", "spot"} # {}, m.has \cap {"mark", "spot"})

ParseBook(m) == When("book" \in m.has, {"book", "spread"})

\* A trade, mark or spot price the message does not give is written as 0.
Always == [trade |-> {"trade"}, mark_price |-> {"mark"}, spot_price |-> {"spot"},
           candle |-> {}, pong |-> {}]
ParseFlat(m) == LET fields == m.has \cup Always[m.type]
                IN  When(fields # {} /\ ~m.nested, fields)

Parse(m) == IF m.type = "ticker" THEN ParseTicker(m)
            ELSE IF m.type = "orderbook" THEN ParseBook(m)
            ELSE ParseFlat(m)

-----------------------------------------------------------------------------
(* The exchange and the collector.                                         *)

Send(m) ==
    /\ now < MaxVersion /\ Len(wire) < MaxWire
    /\ now' = now + 1
    /\ wire' = Append(wire, [msg |-> m, ver |-> now'])
    /\ sent' = [f \in Parts |->
                  IF f \in m.has THEN sent[f] \cup {now'} ELSE sent[f]]
    /\ UNCHANGED <<events, snap, byRest, rest, dropped>>

\* mutant: the newest message first
ReceiveNewest ==
    /\ events = <<>> /\ wire # <<>>
    /\ LET m == wire[Len(wire)]
       IN  IF m.msg.valid
           THEN /\ events' = [i \in DOMAIN Parse(m.msg) |->
                       [fields |-> Parse(m.msg)[i], ver |-> m.ver]]
                /\ UNCHANGED dropped
           ELSE /\ dropped' = dropped \cup {m.ver}
                /\ UNCHANGED events
    /\ wire' = SubSeq(wire, 1, Len(wire) - 1)
    /\ UNCHANGED <<now, snap, byRest, rest, sent>>
\* "async for message in ws": a message that does not parse is logged and
\* dropped as a whole.
Receive ==
    /\ events = <<>> /\ wire # <<>>
    /\ LET m == Head(wire)
       IN  IF m.msg.valid
           THEN /\ events' = [i \in DOMAIN Parse(m.msg) |->
                       [fields |-> Parse(m.msg)[i], ver |-> m.ver]]
                /\ UNCHANGED dropped
           ELSE /\ dropped' = dropped \cup {m.ver}
                /\ UNCHANGED events
    /\ wire' = Tail(wire)
    /\ UNCHANGED <<now, snap, byRest, rest, sent>>

Merged(fields, ver) ==
    [f \in Fields |-> IF f \in fields THEN ver ELSE snap[f]]

\* update_snapshot: one HSET, which overwrites the fields it names.
Store ==
    /\ events # <<>>
    /\ snap' = Merged(Head(events).fields, Head(events).ver)
    /\ byRest' = byRest \ Head(events).fields
    /\ events' = Tail(events)
    /\ UNCHANGED <<now, wire, rest, sent, dropped>>

Versions(seq) == {seq[i].ver : i \in DOMAIN seq}

\* The connection breaks: what is on it is lost, what was parsed goes on.
ConnectionLost ==
    /\ wire # <<>>
    /\ dropped' = dropped \cup Versions(wire)
    /\ wire' = <<>>
    /\ UNCHANGED <<now, events, snap, byRest, rest, sent>>

\* update_snapshot raises, before or after Redis took it, or the process is
\* killed: the collector starts anew.
CollectorEnds ==
    /\ events # <<>>
    /\ \/ UNCHANGED <<snap, byRest>>
       \/ /\ snap' = Merged(Head(events).fields, Head(events).ver)
          /\ byRest' = byRest \ Head(events).fields
    /\ dropped' = dropped \cup Versions(events) \cup Versions(wire)
    /\ events' = <<>> /\ wire' = <<>>
    /\ UNCHANGED <<now, rest, sent>>

-----------------------------------------------------------------------------
(* GET /market/{symbol} and the agents' get_market_snapshot.               *)

Idle == [at |-> "idle", has |-> {}, ver |-> 0]
Goto(q, record) == rest' = [rest EXCEPT ![q] = record]
market == <<now, wire, events, snap, byRest, sent, dropped>>

\* The hash is empty; the database is asked next.
FindsNothing(q) ==
    /\ rest[q].at = "idle"
    /\ \A f \in Fields : snap[f] = 0
    /\ Goto(q, [Idle EXCEPT !.at = "database"])
    /\ UNCHANGED market

\* A stored tick or order book answers the request; without one the exchange
\* is asked.
DatabaseAnswers(q) == /\ rest[q].at = "database"
                      /\ Goto(q, Idle)
                      /\ UNCHANGED market
DatabaseEmpty(q)   == /\ rest[q].at = "database"
                      /\ Goto(q, [Idle EXCEPT !.at = "exchange"])
                      /\ UNCHANGED market

\* The exchange answers with what it knows now, or not at all.
RestAnswers(q) ==
    /\ rest[q].at = "exchange" /\ now < MaxVersion
    /\ now' = now + 1
    /\ \E has \in SUBSET Quotes :
           Goto(q, [at |-> "storing", has |-> has, ver |-> now'])
    /\ UNCHANGED <<wire, events, snap, byRest, sent, dropped>>
RestFails(q) ==
    /\ rest[q].at = "exchange"
    /\ Goto(q, Idle)
    /\ UNCHANGED market

\* mid is the middle of the quotes, or else the last price.
RestFields(has) ==
    has \cup {"timestamp"}
        \cup (IF {"bid", "ask"} \subseteq has THEN {"mid", "spread"}
              ELSE IF "last" \in has THEN {"mid"} ELSE {})

\* update_snapshot, whatever the collector has stored in the meantime.
RestStores(q) ==
    /\ rest[q].at = "storing"
    /\ LET fields == RestFields(rest[q].has)
       IN  /\ snap' = Merged(fields, rest[q].ver)
           /\ byRest' = byRest \cup fields
    /\ Goto(q, Idle)
    /\ UNCHANGED <<now, wire, events, sent, dropped>>

-----------------------------------------------------------------------------
Init ==
    /\ now = 0 /\ wire = <<>> /\ events = <<>> /\ dropped = {} /\ byRest = {}
    /\ snap = [f \in Fields |-> 0]
    /\ sent = [f \in Parts |-> {}]
    /\ rest = [q \in Requests |-> Idle]

Request(q) == \/ FindsNothing(q) \/ DatabaseAnswers(q) \/ DatabaseEmpty(q)
              \/ RestAnswers(q) \/ RestFails(q) \/ RestStores(q)

Next == \/ \E m \in Messages : Send(m)
        \/ Receive \/ Store \/ ConnectionLost \/ CollectorEnds
        \/ \E q \in Requests : Request(q)

Spec == Init /\ [][Next]_vars

-----------------------------------------------------------------------------
(* Properties.                                                             *)

Answer == [at : {"idle", "database", "exchange", "storing"},
           has : SUBSET Quotes, ver : 0..MaxVersion]
TypeOK ==
    /\ now \in 0..MaxVersion
    /\ wire \in Seq([msg : Messages, ver : 1..MaxVersion]) /\ Len(wire) <= MaxWire
    /\ events \in Seq([fields : SUBSET Fields, ver : 1..MaxVersion])
    /\ snap \in [Fields -> 0..MaxVersion]
    /\ byRest \subseteq Fields
    /\ rest \in [Requests -> Answer]
    /\ sent \in [Parts -> SUBSET (1..MaxVersion)]
    /\ dropped \subseteq 1..MaxVersion

\* Every value the feed gave is on its way, is in the hash or was replaced
\* there by a newer one, unless its message was lost or a REST answer was put
\* over it: no branch of the parser, and no order of updates, loses one
\* (delta_ws.py:155-440).  Excepted are the parts looked up outside of "data"
\* when they are nested there.
InFlight == Versions(wire) \cup Versions(events)
Readable(f) == \A m \in Messages : f \in m.has /\ m.nested =>
                   m.type \in {"ticker", "orderbook"} /\ f # "funding"
EveryValueAccounted ==
    \A f \in Parts : \A v \in sent[f] :
        Readable(f) =>
            v \in InFlight \cup dropped \/ snap[f] >= v \/ f \in byRest

\* A field goes back in time only where a REST answer and the feed meet: an
\* API request stores an answer it got before the feed's newer value
\* (market.py:23-72: the hash was empty when it was read, but need not be any
\* more), or the feed replaces a newer answer by what was on its way.
OnlyRestGoesBack ==
    [][\A f \in Fields : snap'[f] < snap[f] => f \in byRest \cup byRest']_vars

=============================================================================
