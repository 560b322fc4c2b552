------------------------------ MODULE DeltaFeed ------------------------------
(***************************************************************************)
(* swaram/providers/crypto/delta_ws.py: DeltaWebSocketProvider, with       *)
(* swaram/core/health.py: ProviderHealth, and the health record the         *)
(* collector's flush loop publishes in Redis (delta_runner.py:109), which  *)
(* GET /health/providers reads (apps/api/routes/health.py).                 *)
(*                                                                         *)
(* Three tasks share the provider: the one that iterates stream_events()   *)
(* (pc), the heartbeat loops it creates, and whoever calls disconnect()    *)
(* (the signal handler, or the runner's finally block).  A step runs from  *)
(* one await to the next.  Time is abstracted: fresh says that the last    *)
(* message is younger than stale_threshold_sec; a sleep may end at any     *)
(* moment.  Prices are left out: a message either yields events, counts as *)
(* a sign of life, is ignored, or fails to parse.                          *)
(***************************************************************************)
EXTENDS Integers

CONSTANTS
    DegradedAfter,  \* error_count above which status is DEGRADED (10)
    BaseDelay,      \* base_delay (1 s)
    MaxDelay,       \* max_delay (30 s)
    FailureCap      \* bound: the history variable failures saturates here

ASSUME FeedAssumption ==
    /\ DegradedAfter \in Nat /\ FailureCap \in Nat \ {0}
    /\ BaseDelay \in Nat \ {0} /\ MaxDelay \in Nat /\ BaseDelay <= MaxDelay

Statuses == {"DISCONNECTED", "STALE", "DEGRADED", "HEALTHY"}
Absent   == "absent"    \* Redis has no record of the provider

VARIABLES
    pc,          \* where the stream task is
    provRunning, \* provider._running
    link,        \* the connection of the current "async with"
    wsRef,       \* self._ws: none, the current connection, or a closed one
    handle,      \* is the task in self._heartbeat_task alive and uncancelled?
    beats,       \* heartbeat tasks alive and uncancelled
    disc,        \* a running disconnect(): no, closing the websocket, done
    connected,   \* health.connected
    fresh,       \* health.age_seconds <= stale_threshold_sec
    errors,      \* health.error_count, saturating at DegradedAfter + 1
    delay,       \* stream_events' delay
    failures,    \* history: failed attempts since the last connect
    published    \* status in Redis, health:provider:delta

vars == <<pc, provRunning, link, wsRef, handle, beats, disc, connected, fresh,
          errors, delay, failures, published>>
health == <<connected, fresh, errors>>
hbVars == <<handle, beats>>

Smaller(a, b) == IF a <= b THEN a ELSE b

-----------------------------------------------------------------------------
(* ProviderHealth.                                                         *)

RecordError == errors' = Smaller(errors + 1, DegradedAfter + 1)

\* mutant: a message does not bring the feed back from DISCONNECTED
RecordMessageAgeOnly == fresh' = TRUE /\ UNCHANGED connected
RecordMessage == connected' = TRUE /\ fresh' = TRUE

\* mutant: the age of the last message is not looked at
StatusWithoutAge == IF ~connected THEN "DISCONNECTED"
                    ELSE IF errors > DegradedAfter THEN "DEGRADED"
                    ELSE "HEALTHY"
Status == IF ~connected THEN "DISCONNECTED"
          ELSE IF ~fresh THEN "STALE"
          ELSE IF errors > DegradedAfter THEN "DEGRADED"
          ELSE "HEALTHY"

\* What GET /health/providers answers of the records in Redis: a feed that has
\* none is not among them, and DEGRADED is well enough.
AllProvidersHealthy == published \notin {"DISCONNECTED", "STALE"}

-----------------------------------------------------------------------------
(* stream_events.                                                          *)

TopOfLoop == IF provRunning THEN "connecting" ELSE "ended"

\* Leaving "async with": the connection is closed, self._ws keeps pointing
\* at it.
LeaveConnection == /\ link' = "none"
                   /\ wsRef' = IF wsRef = "live" THEN "dead" ELSE wsRef

\* provider.connect(), then the consumer starts iterating.
Begin ==
    /\ pc = "idle"
    /\ provRunning' = TRUE
    /\ pc' = "connecting"
    /\ UNCHANGED <<link, wsRef, hbVars, disc, health, delay, failures, published>>

\* mutant: the previous heartbeat task is not cancelled
KeepOldHeartbeat == beats' = beats + 1 /\ handle' = TRUE
NewHeartbeat == /\ beats' = (IF handle THEN beats - 1 ELSE beats) + 1
                /\ handle' = TRUE

\* mutant: the backoff is not reset by a successful connect
KeepDelay == UNCHANGED delay /\ failures' = 0
ResetDelay == delay' = BaseDelay /\ failures' = 0

ConnectOk ==
    /\ pc = "connecting"
    /\ link' = "open" /\ wsRef' = "live"
    /\ RecordMessage
    /\ ResetDelay
    /\ NewHeartbeat
    /\ pc' = "subscribing"
    /\ UNCHANGED <<provRunning, disc, errors, published>>

\* mutant: the stream ends on the first failure
GiveUp ==
    /\ LeaveConnection
    /\ connected' = FALSE /\ RecordError
    /\ failures' = Smaller(failures + 1, FailureCap)
    /\ pc' = "ended"
    /\ UNCHANGED <<provRunning, hbVars, disc, fresh, delay, published>>
\* The except clause: record, then stop or back off.
Recover ==
    /\ LeaveConnection
    /\ connected' = FALSE /\ RecordError
    /\ failures' = Smaller(failures + 1, FailureCap)
    /\ pc' = IF provRunning THEN "backoff" ELSE "ended"
    /\ UNCHANGED <<provRunning, hbVars, disc, fresh, delay, published>>

ConnectFail == pc = "connecting" /\ Recover

SubscribeOk ==
    /\ pc = "subscribing" /\ link = "open"
    /\ pc' = "receiving"
    /\ UNCHANGED <<provRunning, link, wsRef, hbVars, disc, health, delay,
                   failures, published>>

SubscribeFail == pc = "subscribing" /\ link # "open" /\ Recover

\* asyncio.sleep(min(max_delay, delay * jitter)) ends.
BackoffEnds ==
    /\ pc = "backoff"
    /\ delay' = Smaller(MaxDelay, 2 * delay)
    /\ pc' = TopOfLoop
    /\ UNCHANGED <<provRunning, link, wsRef, hbVars, disc, health, failures,
                   published>>

\* A message arrives while the provider runs: events are yielded to the
\* runner; or it is a pong, an empty book, ...; or of no known type; or it
\* does not parse (some parsers have recorded it before they raise).
Message ==
    /\ pc = "receiving" /\ link = "open" /\ provRunning
    /\ \/ RecordMessage /\ pc' = "consuming" /\ UNCHANGED errors
       \/ RecordMessage /\ UNCHANGED <<pc, errors>>
       \/ UNCHANGED <<pc, health>>
       \/ RecordError /\ UNCHANGED pc
          /\ (RecordMessage \/ UNCHANGED <<connected, fresh>>)
    /\ UNCHANGED <<provRunning, link, wsRef, hbVars, disc, delay, failures,
                   published>>

\* mutant: the test of _running is lost, the message is taken as any other
MessageTakenAfterStop ==
    /\ pc = "receiving" /\ link = "open" /\ ~provRunning
    /\ RecordMessage
    /\ UNCHANGED <<pc, provRunning, link, wsRef, hbVars, disc, errors, delay,
                   failures, published>>
\* The first message after disconnect() breaks the loop.
MessageAfterStop ==
    /\ pc = "receiving" /\ link = "open" /\ ~provRunning
    /\ LeaveConnection
    /\ pc' = "ended"
    /\ UNCHANGED <<provRunning, hbVars, disc, health, delay, failures, published>>

\* The runner has processed the yielded events and asks for more.
Resume ==
    /\ pc = "consuming"
    /\ pc' = "receiving"
    /\ UNCHANGED <<provRunning, link, wsRef, hbVars, disc, health, delay,
                   failures, published>>

\* Processing an event raised in the runner, which stops iterating and goes
\* to its finally block; the generator is abandoned with its connection.
RunnerFails ==
    /\ pc = "consuming"
    /\ pc' = "ended"
    /\ UNCHANGED <<provRunning, link, wsRef, hbVars, disc, health, delay,
                   failures, published>>

\* ConnectionClosedOK ends "async for message in ws" without an exception.
CloseSeen ==
    /\ pc = "receiving" /\ link = "closedOk"
    /\ LeaveConnection
    /\ pc' = TopOfLoop
    /\ UNCHANGED <<provRunning, hbVars, disc, health, delay, failures, published>>

ErrorSeen == pc = "receiving" /\ link = "closedErr" /\ Recover

-----------------------------------------------------------------------------
(* disconnect() and the heartbeat loop.                                    *)

Disconnect ==
    /\ pc # "idle" /\ disc # "closing"
    /\ provRunning' = FALSE
    /\ connected' = FALSE
    /\ beats' = (IF handle THEN beats - 1 ELSE beats) /\ handle' = FALSE
    /\ IF wsRef = "live" THEN disc' = "closing" /\ UNCHANGED wsRef
                         ELSE disc' = "done" /\ wsRef' = "none"
    /\ UNCHANGED <<pc, link, fresh, errors, delay, failures, published>>

\* ws.close() returns after the closing handshake or close_timeout.
DisconnectEnd ==
    /\ disc = "closing"
    /\ disc' = "done" /\ wsRef' = "none"
    /\ link' = IF link = "open" THEN "closedOk" ELSE link
    /\ UNCHANGED <<pc, provRunning, hbVars, health, delay, failures, published>>

\* A heartbeat task wakes up, finds _running cleared and ends.  (While it is
\* set, a ping is sent or fails, and is logged: no state here changes.)
HeartbeatEnds ==
    /\ beats > 0 /\ ~provRunning
    /\ beats' = beats - 1
    /\ handle' = IF beats = 1 THEN FALSE ELSE handle
    /\ UNCHANGED <<pc, provRunning, link, wsRef, disc, health, delay, failures,
                   published>>

-----------------------------------------------------------------------------
(* The exchange, time, and the collector process.                          *)

ServerCloses ==
    /\ link = "open"
    /\ link' \in {"closedOk", "closedErr"}
    /\ UNCHANGED <<pc, provRunning, wsRef, hbVars, disc, health, delay,
                   failures, published>>

FeedAges ==
    /\ fresh
    /\ fresh' = FALSE
    /\ UNCHANGED <<pc, provRunning, link, wsRef, hbVars, disc, connected,
                   errors, delay, failures, published>>

\* The runner's flush loop; it is cancelled as soon as the stream has ended.
Publish ==
    /\ pc \notin {"idle", "ended"}
    /\ published' = Status
    /\ UNCHANGED <<pc, provRunning, link, wsRef, hbVars, disc, health, delay,
                   failures>>

FreshProcess ==
    /\ pc' = "idle" /\ provRunning' = FALSE
    /\ link' = "none" /\ wsRef' = "none"
    /\ handle' = FALSE /\ beats' = 0 /\ disc' = "no"
    /\ connected' = FALSE /\ fresh' = FALSE /\ errors' = 0
    /\ delay' = BaseDelay /\ failures' = 0
    /\ UNCHANGED published

\* The container is restarted, after an orderly exit or a kill.
Restart == pc = "ended" /\ disc = "done" /\ FreshProcess
Kill    == pc # "idle" /\ FreshProcess

-----------------------------------------------------------------------------
Init ==
    /\ pc = "idle" /\ provRunning = FALSE
    /\ link = "none" /\ wsRef = "none"
    /\ handle = FALSE /\ beats = 0 /\ disc = "no"
    /\ connected = FALSE /\ fresh = FALSE /\ errors = 0
    /\ delay = BaseDelay /\ failures = 0
    /\ published = Absent

StreamStep == \/ Begin \/ ConnectOk \/ ConnectFail \/ SubscribeOk
              \/ SubscribeFail \/ BackoffEnds \/ Resume \/ RunnerFails
              \/ CloseSeen \/ ErrorSeen

Next == \/ StreamStep \/ Message \/ MessageAfterStop
        \/ Disconnect \/ DisconnectEnd \/ HeartbeatEnds
        \/ ServerCloses \/ FeedAges \/ Publish \/ Restart \/ Kill

Spec == Init /\ [][Next]_vars

\* Every await of the stream, of ws.close() and of the heartbeat's sleep ends
\* (recv() only if the exchange sends or closes); the exchange lets one of
\* infinitely many attempts through.  Nothing is assumed of Kill, Disconnect,
\* Message and the exchange's closing.
Fairness == /\ WF_vars(StreamStep) /\ WF_vars(DisconnectEnd)
            /\ WF_vars(HeartbeatEnds) /\ WF_vars(Publish) /\ WF_vars(FeedAges)
            /\ SF_vars(ConnectOk) /\ SF_vars(SubscribeOk)

FairSpec == Spec /\ Fairness

-----------------------------------------------------------------------------
(* Properties.                                                             *)

TypeOK ==
    /\ pc \in {"idle", "connecting", "subscribing", "receiving", "consuming",
               "backoff", "ended"}
    /\ provRunning \in BOOLEAN
    /\ link \in {"none", "open", "closedOk", "closedErr"}
    /\ wsRef \in {"none", "live", "dead"}
    /\ handle \in BOOLEAN /\ beats \in Nat
    /\ disc \in {"no", "closing", "done"}
    /\ connected \in BOOLEAN /\ fresh \in BOOLEAN
    /\ errors \in 0..(DegradedAfter + 1)
    /\ delay \in BaseDelay..MaxDelay
    /\ failures \in 0..FailureCap
    /\ published \in Statuses \cup {Absent}

\* However connects, failures and a disconnect() interleave there is never
\* more than one heartbeat loop, and an open connection of a running provider
\* has one (delta_ws.py:121-123, 64-65).
OneHeartbeat ==
    /\ beats <= 1
    /\ pc \in {"subscribing", "receiving", "consuming"} /\ provRunning
          => beats = 1

\* A running provider that is subscribed, or about to be, is not reported
\* DISCONNECTED (delta_ws.py:116, health.py:41-42).
OpenFeedNotDisconnected ==
    pc \in {"subscribing", "receiving", "consuming"} /\ provRunning
        => Status # "DISCONNECTED"

\* The delay before attempt n+1 doubles with the failures since the last
\* connect and never passes the maximum (delta_ws.py:117, 147, 153).
DelayAfter[n \in Nat] == IF n = 0 THEN BaseDelay
                         ELSE Smaller(MaxDelay, 2 * DelayAfter[n - 1])
DelayMatchesFailures ==
    failures < FailureCap /\ pc # "ended" =>
        delay = DelayAfter[IF pc = "backoff" THEN failures - 1 ELSE failures]

\* "Resilient": while the provider runs it ends up receiving again, whatever
\* the connection goes through (delta_ws.py:106-153).
Reconnects == (provRunning /\ pc \in {"connecting", "subscribing", "backoff"})
                  ~> (pc = "receiving" \/ ~provRunning)

\* On a feed that goes on sending, disconnect() ends the stream, from whatever
\* state of the connection ("Gracefully disconnect and cleanup resources.",
\* base.py:29).  On one that is silent it may not: a disconnect() during the
\* opening handshake is noticed by the next message only (delta_ws.py:115-132).
TalkativeFeed == WF_vars(Message) /\ WF_vars(MessageAfterStop)
DisconnectEndsStream ==
    TalkativeFeed => ((~provRunning /\ pc # "idle") ~> (pc \in {"ended", "idle"}))

\* "Watchdog flags feed status as HEALTHY, STALE, DEGRADED, or DISCONNECTED"
\* (docs/ARCHITECTURE.md:43): while the stream runs, a feed that falls silent
\* does not stay among the healthy ones of GET /health/providers.  (Once the
\* stream has ended it may: the flush loop is cancelled without a last
\* publication, delta_runner.py:163, and the record never expires.)
StaleIsPublished ==
    (pc = "receiving" /\ ~fresh)
        ~> (fresh \/ pc # "receiving" \/ ~AllProvidersHealthy)
=============================================================================
