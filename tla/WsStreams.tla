----------------------------- MODULE WsStreams -----------------------------
(***************************************************************************)
(* apps/api/routes/ws.py: the streams /ws/market and /ws/agent.            *)
(*                                                                         *)
(* Each accepted socket has a task of its own: read the snapshot under the *)
(* canonical name, send a frame, take at most one message of the client,   *)
(* sleep, again. A client says ping or something else and may leave at any *)
(* moment, by closing or without a word; the server (external) then queues *)
(* a disconnect message behind what the client said before. Sockets are    *)
(* registered by the name the client wrote; GET /metrics counts them. The  *)
(* two routes are one loop: they differ in the wording of the frame and in *)
(* the length of the sleep.                                                *)
(***************************************************************************)
EXTENDS Naturals, Sequences, FiniteSets, Symbols

CONSTANTS Sockets,    \* connections, each opened once
          Requests,   \* set of functions from sockets to [wants, name]
          MaxSaid,    \* bound on the messages of the clients
          MaxTicks    \* bound on the updates of one snapshot

ASSUME RequestsAssumption ==
  \A r \in Requests : /\ DOMAIN r \subseteq Sockets /\ IsFiniteSet(DOMAIN r)
                      /\ \A ws \in DOMAIN r : /\ r[ws].wants \in Collected
                                              /\ r[ws].name \in Writings(r[ws].wants)

VARIABLES
  ask,       \* the request each socket makes; never changes
  redis,     \* updates of market:snapshot:{name} so far; 0: there is no hash
  pc,        \* where the task of each socket is
  frame,     \* how new the snapshot in the frame it is about to send is
  registry,  \* _active_connections, by the name as it was written
  inbox,     \* what a client said and the task did not read yet
  client,    \* what a client is and has: here, pings, pongs, shown
  said       \* messages of the clients so far

vars == <<ask, redis, pc, frame, registry, inbox, client, said>>

Asking == DOMAIN ask
Names  == {ask[ws].name : ws \in Asking}

\* The name the collector publishes an instrument under, and the one the
\* stream reads.
Published(l) == to_canonical(l.venue, l.symbol)
Read(ws)     == resolve_canonical(ask[ws].name)
Keys         == {Published(ask[ws].wants) : ws \in Asking}

Open(ws) == pc[ws] \notin {"new", "closed"}

-----------------------------------------------------------------------------
(* The registry.                                                           *)

Register(ws) == registry' = [registry EXCEPT ![ask[ws].name] = @ \union {ws}]

\* mutant: discards under the canonical name
UnregisterCanonical(ws) ==
  registry' = [n \in Names |-> IF n = Read(ws) THEN registry[n] \ {ws} ELSE registry[n]]
Unregister(ws) == registry' = [registry EXCEPT ![ask[ws].name] = @ \ {ws}]

\* The sum of the sizes of the sets in the registry.
get_active_ws_count == Cardinality({e \in Names \X Asking : e[2] \in registry[e[1]]})

-----------------------------------------------------------------------------
(* The task of a socket.                                                   *)

Goto(ws, label) == pc' = [pc EXCEPT ![ws] = label]

\* However the loop is left, the finally clause unregisters.
Leave(ws) == Goto(ws, "closed") /\ Unregister(ws)

Stay(ws, label) == Goto(ws, label) /\ UNCHANGED registry

\* The path /ws/market/{symbol} carries one segment: it matches no name with
\* a "/", which is one also when it is percent-encoded, and nothing opens.
Routed(n) == n.sep # "/"

Accept(ws) ==
    /\ pc[ws] = "new" /\ Routed(ask[ws].name)
    /\ Goto(ws, "read") /\ Register(ws)
    /\ UNCHANGED <<ask, redis, frame, inbox, client, said>>

\* 0: an empty hash, which makes a "waiting" frame on the market route and a
\* context that says "Unavailable" on the agent route.
Snapshot(ws) == IF Read(ws) \in Keys THEN redis[Read(ws)] ELSE 0

GetSnapshot(ws) ==
    /\ pc[ws] = "read"
    /\ frame' = [frame EXCEPT ![ws] = Snapshot(ws)] /\ Stay(ws, "send")
    /\ UNCHANGED <<ask, redis, inbox, client, said>>

\* Redis does not answer: the exception ends the task.
GetSnapshotFails(ws) ==
    /\ pc[ws] = "read" /\ Leave(ws)
    /\ UNCHANGED <<ask, redis, frame, inbox, client, said>>

SendFrame(ws) ==
    /\ pc[ws] = "send" /\ client[ws].here
    /\ client' = [client EXCEPT ![ws].shown = frame[ws]] /\ Stay(ws, "receive")
    /\ UNCHANGED <<ask, redis, frame, inbox, said>>

\* A client that left: the send may raise, or vanish in a buffer.
SendToNobody(ws) ==
    /\ pc[ws] = "send" /\ ~client[ws].here
    /\ Leave(ws) \/ Stay(ws, "receive")
    /\ UNCHANGED <<ask, redis, frame, inbox, client, said>>

\* wait_for(receive_text(), 0.05): at most one message, or none.
NothingSaid(ws) ==
    /\ pc[ws] = "receive" /\ inbox[ws] = <<>> /\ Stay(ws, "sleep")
    /\ UNCHANGED <<ask, redis, frame, inbox, client, said>>

\* mutant: an exception of the receive is passed over like the timeout
ReceiveSwallows(ws) ==
    /\ pc[ws] = "receive" /\ inbox[ws] # <<>>
    /\ inbox' = [inbox EXCEPT ![ws] = Tail(@)] /\ Stay(ws, "sleep")
    /\ client' = [client EXCEPT ![ws].pongs =
            IF Head(inbox[ws]) = "ping" /\ client[ws].here THEN @ + 1 ELSE @]
    /\ UNCHANGED <<ask, redis, frame, said>>
\* mutant: what queued up behind the message is dropped
ReceiveNewest(ws) ==
    /\ pc[ws] = "receive" /\ inbox[ws] # <<>>
    /\ inbox' = [inbox EXCEPT ![ws] = <<>>]
    /\ LET msg == inbox[ws][Len(inbox[ws])]
       IN  /\ IF msg \in {"bytes", "disconnect"} THEN Leave(ws) ELSE Stay(ws, "sleep")
           /\ client' = [client EXCEPT ![ws].pongs =
                IF msg = "ping" /\ client[ws].here THEN @ + 1 ELSE @]
    /\ UNCHANGED <<ask, redis, frame, said>>
\* A ping is answered, whether or not the answer still arrives; bytes have no
\* "text" and end the task with a KeyError, the disconnect message ends it
\* with WebSocketDisconnect.
Receive(ws) ==
    /\ pc[ws] = "receive" /\ inbox[ws] # <<>>
    /\ inbox' = [inbox EXCEPT ![ws] = Tail(@)]
    /\ LET msg == Head(inbox[ws])
       IN  /\ IF msg \in {"bytes", "disconnect"} THEN Leave(ws) ELSE Stay(ws, "sleep")
           /\ client' = [client EXCEPT ![ws].pongs =
                IF msg = "ping" /\ client[ws].here THEN @ + 1 ELSE @]
    /\ UNCHANGED <<ask, redis, frame, said>>

Wake(ws) ==
    /\ pc[ws] = "sleep" /\ Stay(ws, "read")
    /\ UNCHANGED <<ask, redis, frame, inbox, client, said>>

-----------------------------------------------------------------------------
(* Clients and collectors.                                                 *)

Say(ws, msg) ==
    /\ Open(ws) /\ client[ws].here /\ said < MaxSaid
    /\ said' = said + 1
    /\ inbox' = [inbox EXCEPT ![ws] = Append(@, msg)]
    /\ client' = [client EXCEPT ![ws].pings = IF msg = "ping" THEN @ + 1 ELSE @]
    /\ UNCHANGED <<ask, redis, pc, frame, registry>>

Disconnect(ws) ==
    /\ Open(ws) /\ client[ws].here
    /\ client' = [client EXCEPT ![ws].here = FALSE]
    /\ inbox' = [inbox EXCEPT ![ws] = Append(@, "disconnect")]
    /\ UNCHANGED <<ask, redis, pc, frame, registry, said>>

UpdateSnapshot(k) ==
    /\ redis[k] < MaxTicks
    /\ redis' = [redis EXCEPT ![k] = @ + 1]
    /\ UNCHANGED <<ask, pc, frame, registry, inbox, client, said>>

-----------------------------------------------------------------------------
Init ==
    /\ ask \in Requests
    /\ redis = [k \in Keys |-> 0]
    /\ pc = [ws \in Asking |-> "new"]
    /\ frame = [ws \in Asking |-> 0]
    /\ registry = [n \in Names |-> {}]
    /\ inbox = [ws \in Asking |-> <<>>]
    /\ client = [ws \in Asking |->
                   [here |-> TRUE, pings |-> 0, pongs |-> 0, shown |-> 0]]
    /\ said = 0

\* The body of the loop.
Serve(ws) ==
    \/ GetSnapshot(ws) \/ GetSnapshotFails(ws)
    \/ SendFrame(ws) \/ SendToNobody(ws)
    \/ NothingSaid(ws) \/ Receive(ws) \/ Wake(ws)

Talk(ws) == Disconnect(ws) \/ \E msg \in {"ping", "text", "bytes"} : Say(ws, msg)

Next == \/ \E ws \in Asking : Accept(ws) \/ Serve(ws) \/ Talk(ws)
        \/ \E k \in Keys : UpdateSnapshot(k)

\* The event loop runs a task that can go on: every await of the loop ends,
\* by its own timeout, its sleep, Redis or the server's keepalive.
Spec == Init /\ [][Next]_vars /\ \A ws \in Sockets : WF_vars(ws \in Asking /\ Serve(ws))

-----------------------------------------------------------------------------
(* Properties.                                                             *)

\* The registry, and with it the gauge swaram_ws_connections, holds a socket
\* exactly as long as its loop runs, once, however the loop ends and however
\* many sockets wrote the same name (ws.py:20-25, 50, 96, 165; metrics.py:15).
RegisteredIsServed ==
    /\ \A ws \in Asking : Open(ws) <=> \E n \in Names : ws \in registry[n]
    /\ get_active_ws_count = Cardinality({ws \in Asking : Open(ws)})

\* A client that left without a word is found out, although the loop looks
\* for messages only once per frame, takes one at a time and a send into a
\* dead connection need not fail (ws.py:80-96).
ServesNobody(ws) == ws \in Asking /\ Open(ws) /\ ~client[ws].here
GoneClientForgotten == \A ws \in Sockets : ServesNobody(ws) ~> ~ServesNobody(ws)

\* Every ping is answered, also of a client that says more than one thing
\* per frame, unless it leaves or the task ends (ws.py:86-90).
Unanswered(ws, k) ==
    /\ ws \in Asking /\ Open(ws) /\ client[ws].here
    /\ client[ws].pings >= k /\ client[ws].pongs < k
PingAnswered ==
    \A ws \in Sockets, k \in 1 .. MaxSaid : Unanswered(ws, k) ~> ~Unanswered(ws, k)

\* Every update that a collector publishes reaches a client that asks for the
\* instrument without its class, with or without a separator, or a newer one
\* does, unless its stream ends: there the two functions of symbols.py agree,
\* and the loop always comes back to Redis. A client that names the class
\* is never shown anything: with a "/" no stream opens, also not for a name
\* without a class, and any other such name is UNKNOWN, also the canonical
\* RATE:US10Y (symbols.py:102-173; ws.py:41-92, 105-152).
Qualified(ws) == ws \in Asking /\ ask[ws].name.class # ""
Behind(ws, k) ==
    /\ ws \in Asking /\ Open(ws) /\ client[ws].here
    /\ redis[Published(ask[ws].wants)] >= k /\ client[ws].shown < k
FreshReachesClients ==
    /\ \A ws \in Sockets, k \in 1 .. MaxTicks :
          (Behind(ws, k) /\ ~Qualified(ws)) ~> ~Behind(ws, k)
    /\ [](\A ws \in Sockets : Qualified(ws) => client[ws].shown = 0)
=============================================================================
