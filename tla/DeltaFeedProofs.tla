--------------------------- MODULE DeltaFeedProofs ---------------------------
(***************************************************************************)
(* Proofs about DeltaFeed for every threshold and every delay: its types,  *)
(* the single heartbeat, and the status of a connected feed.               *)
(***************************************************************************)
EXTENDS DeltaFeed, WellFoundedInduction, TLAPS

Subscribed == pc \in {"subscribing", "receiving", "consuming"}

\* self._heartbeat_task is the only heartbeat there can be, and a subscribed
\* stream of a running provider has it, and has been recorded as connected.
FeedInv ==
    /\ TypeOK
    /\ \/ handle = TRUE /\ beats = 1
       \/ handle = FALSE /\ beats = 0
    /\ Subscribed /\ provRunning = TRUE => handle = TRUE /\ connected = TRUE

\* Smaller is the minimum.
LEMMA SmallerIsMin ==
    ASSUME NEW a \in Int, NEW b \in Int
    PROVE  Smaller(a, b) \in {a, b} /\ Smaller(a, b) <= a /\ Smaller(a, b) <= b
  BY DEF Smaller

\* What a failed attempt does to the types (delta_ws.py:140-153).
LEMMA RecoverKeepsInv ==
    ASSUME FeedAssumption, FeedInv, Recover
    PROVE  FeedInv'
<1>1. errors' \in 0..(DegradedAfter + 1)
  BY SmallerIsMin DEF Recover, RecordError, FeedInv, TypeOK, FeedAssumption
<1>2. failures' \in 0..FailureCap
  BY SmallerIsMin DEF Recover, FeedInv, TypeOK, FeedAssumption
<1>3. pc' \in {"backoff", "ended"} /\ connected' = FALSE
  BY DEF Recover
<1>4. link' \in {"none", "open", "closedOk", "closedErr"} /\ wsRef' \in {"none", "live", "dead"}
  BY DEF Recover, LeaveConnection, FeedInv, TypeOK
<1>5. UNCHANGED <<provRunning, handle, beats, disc, fresh, delay, published>>
  BY DEF Recover, hbVars
<1>6. QED
  BY <1>1, <1>2, <1>3, <1>4, <1>5 DEF FeedInv, TypeOK, Subscribed

LEMMA InitFeedInv == FeedAssumption /\ Init => FeedInv
<1> SUFFICES ASSUME FeedAssumption, Init PROVE FeedInv
  OBVIOUS
<1>1. /\ delay \in BaseDelay..MaxDelay /\ failures \in 0..FailureCap
      /\ errors \in 0..(DegradedAfter + 1)
  BY DEF FeedAssumption, Init
<1>2. TypeOK
  BY <1>1 DEF Init, TypeOK
<1>3. QED
  BY <1>2 DEF Init, FeedInv, Subscribed

\* The stream's own steps.
LEMMA StreamKeepsInv ==
    ASSUME FeedAssumption, FeedInv, StreamStep
    PROVE  FeedInv'
<1> USE DEF FeedInv, TypeOK, Subscribed, hbVars, health
<1>1. CASE Begin
  BY <1>1 DEF Begin
<1>2. CASE ConnectOk
  <2>1. beats' = 1 /\ handle' = TRUE
    BY <1>2 DEF ConnectOk, NewHeartbeat
  <2>2. delay' \in BaseDelay..MaxDelay /\ failures' \in 0..FailureCap
    BY <1>2 DEF ConnectOk, ResetDelay, FeedAssumption
  <2>3. /\ pc' = "subscribing" /\ link' = "open" /\ wsRef' = "live"
        /\ connected' = TRUE /\ fresh' = TRUE
        /\ UNCHANGED <<provRunning, disc, errors, published>>
    BY <1>2 DEF ConnectOk, RecordMessage
  <2>4. QED BY <2>1, <2>2, <2>3
<1>3. CASE ConnectFail
  BY <1>3, RecoverKeepsInv DEF ConnectFail
<1>4. CASE SubscribeOk
  BY <1>4 DEF SubscribeOk
<1>5. CASE SubscribeFail
  BY <1>5, RecoverKeepsInv DEF SubscribeFail
<1>6. CASE BackoffEnds
  <2>1. delay' \in BaseDelay..MaxDelay
    BY <1>6, SmallerIsMin DEF BackoffEnds, FeedAssumption
  <2>2. pc' \in {"connecting", "ended"}
    BY <1>6 DEF BackoffEnds, TopOfLoop
  <2>3. QED BY <1>6, <2>1, <2>2 DEF BackoffEnds
<1>7. CASE Resume
  BY <1>7 DEF Resume
<1>8. CASE RunnerFails
  BY <1>8 DEF RunnerFails
<1>9. CASE CloseSeen
  <2>1. pc' \in {"connecting", "ended"}
    BY <1>9 DEF CloseSeen, TopOfLoop
  <2>2. QED BY <1>9, <2>1 DEF CloseSeen, LeaveConnection
<1>10. CASE ErrorSeen
  BY <1>10, RecoverKeepsInv DEF ErrorSeen
<1>11. QED
  BY <1>1, <1>2, <1>3, <1>4, <1>5, <1>6, <1>7, <1>8, <1>9, <1>10 DEF StreamStep

\* Messages, disconnect(), the heartbeat task and the world outside.
LEMMA OtherKeepsInv ==
    ASSUME FeedAssumption, FeedInv,
           \/ Message \/ MessageAfterStop \/ Disconnect \/ DisconnectEnd \/ HeartbeatEnds
           \/ ServerCloses \/ FeedAges \/ Publish \/ Restart \/ Kill
    PROVE  FeedInv'
<1> USE DEF FeedInv, TypeOK, Subscribed, hbVars, health
<1>1. CASE Message
  <2>1. errors' \in 0..(DegradedAfter + 1)
    <3>1. errors' = errors \/ errors' = Smaller(errors + 1, DegradedAfter + 1)
      BY <1>1 DEF Message, RecordError
    <3>2. QED BY <3>1, SmallerIsMin DEF FeedAssumption
  <2>2. pc' \in {"receiving", "consuming"} /\ fresh' \in BOOLEAN /\ connected' \in BOOLEAN
    BY <1>1 DEF Message, RecordMessage
  <2>3. connected' \in {connected, TRUE}
    BY <1>1 DEF Message, RecordMessage, health
  <2>4. pc = "receiving"
        /\ UNCHANGED <<provRunning, link, wsRef, hbVars, disc, delay, failures, published>>
    BY <1>1 DEF Message
  <2>5. QED BY <2>1, <2>2, <2>3, <2>4
<1>2. CASE MessageAfterStop
  <2>1. /\ pc' = "ended" /\ link' = "none" /\ wsRef' \in {"none", "live", "dead"}
        /\ UNCHANGED <<provRunning, hbVars, disc, health, delay, failures, published>>
    BY <1>2 DEF MessageAfterStop, LeaveConnection
  <2>2. QED BY <2>1
<1>3. CASE Disconnect
  <2>1. /\ provRunning' = FALSE /\ connected' = FALSE /\ handle' = FALSE
        /\ disc' \in {"closing", "done"} /\ wsRef' \in {"none", "live", "dead"}
        /\ UNCHANGED <<pc, link, fresh, errors, delay, failures, published>>
    BY <1>3 DEF Disconnect
  <2>2. beats' = 0
    <3>1. CASE handle = TRUE
      BY <1>3, <3>1 DEF Disconnect
    <3>2. CASE handle = FALSE
      BY <1>3, <3>2 DEF Disconnect
    <3>3. QED BY <3>1, <3>2
  <2>3. QED BY <2>1, <2>2
<1>4. CASE DisconnectEnd
  BY <1>4 DEF DisconnectEnd
<1>5. CASE HeartbeatEnds
  <2>1. provRunning = FALSE /\ handle = TRUE /\ beats = 1
    BY <1>5 DEF HeartbeatEnds
  <2>2. /\ beats' = 0 /\ handle' = FALSE
        /\ UNCHANGED <<pc, provRunning, link, wsRef, disc, health, delay, failures, published>>
    BY <1>5, <2>1 DEF HeartbeatEnds
  <2>3. QED BY <2>1, <2>2
<1>6. CASE ServerCloses
  BY <1>6 DEF ServerCloses
<1>7. CASE FeedAges
  <2>1. fresh' = FALSE
        /\ UNCHANGED <<pc, provRunning, link, wsRef, hbVars, disc, connected,
                       errors, delay, failures, published>>
    BY <1>7 DEF FeedAges
  <2>2. TypeOK'
    BY <2>1
  <2>3. QED BY <2>1, <2>2
<1>8. CASE Publish
  <2>1. published' \in Statuses
    BY <1>8 DEF Publish, Status, Statuses
  <2>2. QED BY <1>8, <2>1 DEF Publish
<1>9. CASE Restart \/ Kill
  <2>1. FreshProcess
    BY <1>9 DEF Restart, Kill
  <2>2. delay' \in BaseDelay..MaxDelay /\ failures' \in 0..FailureCap
        /\ errors' \in 0..(DegradedAfter + 1)
    BY <2>1 DEF FreshProcess, FeedAssumption
  <2>3. /\ pc' = "idle" /\ provRunning' = FALSE /\ link' = "none" /\ wsRef' = "none"
        /\ handle' = FALSE /\ beats' = 0 /\ disc' = "no"
        /\ connected' = FALSE /\ fresh' = FALSE /\ published' = published
    BY <2>1 DEF FreshProcess
  <2>4. QED BY <2>2, <2>3
<1>10. QED
  BY <1>1, <1>2, <1>3, <1>4, <1>5, <1>6, <1>7, <1>8, <1>9

\* The invariant holds of every behaviour.
THEOREM FeedInvariance == Spec => []FeedInv
<1>1. Init => FeedInv
  BY FeedAssumption, InitFeedInv
<1>2. FeedInv /\ [Next]_vars => FeedInv'
  <2> SUFFICES ASSUME FeedInv, [Next]_vars PROVE FeedInv'
    OBVIOUS
  <2>1. CASE UNCHANGED vars
    BY <2>1 DEF vars, hbVars, health, FeedInv, TypeOK, Subscribed
  <2>2. CASE Next
    BY <2>2, FeedAssumption, StreamKeepsInv, OtherKeepsInv DEF Next
  <2>3. QED BY <2>1, <2>2
<1>3. QED BY <1>1, <1>2, PTL DEF Spec

\* Never more than one heartbeat loop, and one for an open feed
\* (delta_ws.py:121-123, 64-65).
THEOREM SingleHeartbeat == Spec => []OneHeartbeat
<1>1. FeedInv => OneHeartbeat
  BY DEF FeedInv, TypeOK, OneHeartbeat, Subscribed
<1>2. QED BY <1>1, FeedInvariance, PTL

\* A subscribed feed of a running provider is not reported DISCONNECTED
\* (delta_ws.py:116, health.py:41-42).
THEOREM OpenFeedIsConnected == Spec => []OpenFeedNotDisconnected
<1>1. FeedInv => OpenFeedNotDisconnected
  BY DEF FeedInv, TypeOK, OpenFeedNotDisconnected, Subscribed, Status
<1>2. QED BY <1>1, FeedInvariance, PTL

-----------------------------------------------------------------------------
(* Induction, on a set of numbers in place of a predicate: a set of natural *)
(* numbers has a least one, so that one with 0 and every successor is all. *)

LEMMA LeastOf ==
    ASSUME NEW T, T \subseteq Nat, T # {}
    PROVE  \E x \in T : \A y \in T : x <= y
<1> DEFINE R == {ss \in Nat \X Nat : ss[1] < ss[2]}
<1>1. IsWellFoundedOn(R, Nat)
  BY NatLessThanWellFounded DEF OpToRel
<1>2. \A x, y \in Nat : y < x => <<y, x>> \in R
  OBVIOUS
<1> HIDE DEF R
<1>3. PICK x \in T : \A y \in T : ~ (<<y, x>> \in R)
  BY <1>1, WFMin
<1>4. \A y \in T : x <= y
  <2>1. TAKE y \in T
  <2>2. x \in Nat /\ y \in Nat /\ ~(<<y, x>> \in R)
    BY <1>3
  <2>3. ~(y < x)
    BY <1>2, <2>2
  <2>4. QED BY <2>2, <2>3
<1>5. QED BY <1>4

LEMMA InductionOn ==
    ASSUME NEW S, 0 \in S, \A n \in Nat : n \in S => n + 1 \in S
    PROVE  Nat \subseteq S
<1> DEFINE T == Nat \ S
<1>1. SUFFICES ASSUME T # {} PROVE FALSE
  OBVIOUS
<1>2. PICK x \in T : \A y \in T : x <= y
  BY <1>1, LeastOf
<1>3. x \in Nat /\ x # 0 /\ x - 1 \in Nat
  BY <1>2
<1>4. x - 1 \notin T
  BY <1>2, <1>3
<1>5. QED BY <1>3, <1>4

-----------------------------------------------------------------------------
(* The recursion of the delay.                                             *)

\* h is the delay after 0, 1, ..., n failures.
Doubles(h, n) == /\ h \in [0 .. n -> Nat] /\ h[0] = BaseDelay
                 /\ \A k \in 1 .. n : h[k] = Smaller(MaxDelay, 2 * h[k - 1])

LEMMA DoublesExists == \A n \in Nat : \E h : Doubles(h, n)
<1> DEFINE S == {n \in Nat : \E h : Doubles(h, n)}
<1>1. 0 \in S
  <2> DEFINE h == [k \in 0 .. 0 |-> BaseDelay]
  <2>1. Doubles(h, 0)
    BY FeedAssumption DEF Doubles, FeedAssumption
  <2>2. QED BY <2>1
<1>2. ASSUME NEW n \in Nat, n \in S PROVE n + 1 \in S
  <2>1. PICK h : Doubles(h, n)
    BY <1>2
  <2> DEFINE g == [k \in 0 .. n + 1 |-> IF k = n + 1 THEN Smaller(MaxDelay, 2 * h[n]) ELSE h[k]]
  <2>2. Doubles(g, n + 1)
    BY <2>1, FeedAssumption DEF FeedAssumption, Doubles, Smaller
  <2>3. QED BY <2>2
<1> HIDE DEF S
<1>3. Nat \subseteq S
  BY <1>1, <1>2, InductionOn
<1>4. QED BY <1>3 DEF S

LEMMA DoublesUnique ==
    ASSUME NEW m \in Nat, NEW n \in Nat, NEW g, NEW h, Doubles(g, m), Doubles(h, n)
    PROVE  \A k \in Nat : k <= m /\ k <= n => g[k] = h[k]
<1> DEFINE S == {k \in Nat : k <= m /\ k <= n => g[k] = h[k]}
<1>1. 0 \in S
  BY DEF Doubles
<1>2. ASSUME NEW k \in Nat, k \in S PROVE k + 1 \in S
  <2>1. SUFFICES ASSUME k + 1 <= m, k + 1 <= n PROVE g[k + 1] = h[k + 1]
    OBVIOUS
  <2>2. g[k] = h[k]
    BY <1>2, <2>1
  <2>3. k + 1 \in 1 .. m /\ k + 1 \in 1 .. n /\ (k + 1) - 1 = k
    BY <2>1
  <2>4. QED BY <2>2, <2>3 DEF Doubles
<1> HIDE DEF S
<1>3. Nat \subseteq S
  BY <1>1, <1>2, InductionOn
<1>4. QED BY <1>3 DEF S

LEMMA DelayAfterRecurs ==
    /\ DelayAfter \in [Nat -> Nat] /\ DelayAfter[0] = BaseDelay
    /\ \A n \in Nat : DelayAfter[n + 1] = Smaller(MaxDelay, 2 * DelayAfter[n])
<1> DEFINE H(n) == CHOOSE h : Doubles(h, n)
           g == [n \in Nat |-> H(n)[n]]
           d == [n \in Nat |-> IF n = 0 THEN BaseDelay ELSE Smaller(MaxDelay, 2 * g[n - 1])]
<1>1. \A n \in Nat : Doubles(H(n), n)
  BY DoublesExists
<1> HIDE DEF H
<1>2. \A n \in Nat : g[n] = H(n)[n] /\ g[n] \in Nat
  BY <1>1 DEF Doubles
<1>3. g[0] = BaseDelay
  BY <1>1, <1>2 DEF Doubles
<1>4. ASSUME NEW n \in Nat PROVE g[n + 1] = Smaller(MaxDelay, 2 * g[n])
  <2>1. H(n + 1)[n] = H(n)[n]
    BY <1>1, DoublesUnique
  <2>2. H(n + 1)[n + 1] = Smaller(MaxDelay, 2 * H(n + 1)[n])
    <3>1. Doubles(H(n + 1), n + 1) /\ n + 1 \in 1 .. n + 1 /\ (n + 1) - 1 = n
      BY <1>1
    <3>2. QED BY <3>1 DEF Doubles
  <2>3. QED BY <1>2, <2>1, <2>2
<1> HIDE DEF g
<1>5. \A n \in Nat : d[n] = g[n]
  <2>1. TAKE n \in Nat
  <2>2. CASE n = 0
    BY <1>3, <2>2
  <2>3. CASE n # 0
    <3>1. n - 1 \in Nat /\ (n - 1) + 1 = n
      BY <2>3
    <3>2. g[n] = Smaller(MaxDelay, 2 * g[n - 1])
      BY <1>4, <3>1
    <3>3. QED BY <2>3, <3>2
  <2>4. QED BY <2>2, <2>3
<1>6. g = d
  BY <1>5 DEF g
<1>7. DelayAfter = [n \in Nat |-> IF n = 0 THEN BaseDelay ELSE Smaller(MaxDelay, 2 * DelayAfter[n - 1])]
  BY <1>6 DEF DelayAfter
<1>8. QED
  <2>1. DelayAfter[0] = BaseDelay
    BY <1>7
  <2>2. \A n \in Nat : DelayAfter[n + 1] = Smaller(MaxDelay, 2 * DelayAfter[n])
    BY <1>7
  <2> DEFINE S == {n \in Nat : DelayAfter[n] \in Nat}
  <2>3. 0 \in S
    BY <2>1, FeedAssumption DEF FeedAssumption
  <2>4. \A n \in Nat : n \in S => n + 1 \in S
    BY <2>2, FeedAssumption DEF FeedAssumption, Smaller
  <2> HIDE DEF S
  <2>5. Nat \subseteq S
    BY <2>3, <2>4, InductionOn
  <2>6. \A n \in Nat : DelayAfter[n] \in Nat
    BY <2>5 DEF S
  <2>7. DelayAfter \in [Nat -> Nat]
    BY <1>7, <2>6
  <2>8. QED BY <2>1, <2>2, <2>7

\* The delay is the one its recursion gives, and a failure has been counted
\* by the time the stream backs off.
DelayInv == FeedInv /\ DelayMatchesFailures /\ (pc = "backoff" => failures >= 1)

LEMMA DelayStep ==
    ASSUME FeedAssumption, DelayInv, [Next]_vars
    PROVE  DelayMatchesFailures' /\ (pc' = "backoff" => failures' >= 1)
<1> USE DEF DelayInv, DelayMatchesFailures
<1> DEFINE D == DelayAfter
<1>1. /\ failures \in 0 .. FailureCap /\ D[0] = BaseDelay
      /\ \A n \in Nat : D[n + 1] = Smaller(MaxDelay, 2 * D[n])
  BY DelayAfterRecurs DEF FeedInv, TypeOK
<1> HIDE DEF D
<1>2. CASE Recover /\ pc \in {"connecting", "subscribing", "receiving"}
  <2>1. /\ failures' = Smaller(failures + 1, FailureCap) /\ delay' = delay
        /\ pc' \in {"backoff", "ended"}
    BY <1>2 DEF Recover
  <2>2. failures' >= 1
    BY <1>1, <2>1 DEF Smaller, FeedAssumption
  <2>3. ASSUME failures' < FailureCap PROVE failures < FailureCap /\ failures' = failures + 1
    BY <1>1, <2>1, <2>3 DEF Smaller, FeedAssumption
  <2>4. QED BY <1>1, <1>2, <2>1, <2>2, <2>3 DEF D
<1>3. CASE BackoffEnds
  <2>1. /\ pc = "backoff" /\ failures' = failures /\ delay' = Smaller(MaxDelay, 2 * delay)
        /\ pc' \in {"connecting", "ended"}
    BY <1>3 DEF BackoffEnds, TopOfLoop
  <2>2. D[failures] = Smaller(MaxDelay, 2 * D[failures - 1])
    <3>1. failures - 1 \in Nat /\ (failures - 1) + 1 = failures
      BY <1>1, <2>1
    <3>2. QED BY <1>1, <3>1
  <2>3. QED BY <2>1, <2>2 DEF D
<1>4. CASE ConnectOk \/ Restart \/ Kill
  <2>1. delay' = BaseDelay /\ failures' = 0 /\ pc' \in {"subscribing", "idle"}
    BY <1>4 DEF ConnectOk, ResetDelay, Restart, Kill, FreshProcess
  <2>2. QED BY <1>1, <2>1 DEF D
<1>5. CASE UNCHANGED <<delay, failures>> /\ (pc' = "backoff" <=> pc = "backoff")
           /\ (pc = "ended" => pc' = "ended")
  BY <1>5
<1>6. CASE Begin \/ SubscribeOk \/ Resume \/ RunnerFails \/ CloseSeen
  BY <1>5, <1>6 DEF Begin, SubscribeOk, Resume, RunnerFails, CloseSeen, TopOfLoop
<1>7. CASE \/ Message \/ MessageAfterStop \/ Disconnect \/ DisconnectEnd \/ HeartbeatEnds
           \/ ServerCloses \/ FeedAges \/ Publish
  BY <1>5, <1>7 DEF Message, MessageAfterStop, Disconnect, DisconnectEnd, HeartbeatEnds,
                    ServerCloses, FeedAges, Publish
<1>8. CASE UNCHANGED vars
  BY <1>5, <1>8 DEF vars
<1>9. QED
  BY <1>2, <1>3, <1>4, <1>6, <1>7, <1>8
     DEF Next, StreamStep, ConnectFail, SubscribeFail, ErrorSeen

\* Whatever connects, failures, closings and restarts come in which order, the
\* delay before an attempt is the base delay, doubled once for each failure
\* since the last connect, and never more than the maximum
\* (delta_ws.py:117, 147, 153).
THEOREM DelayDoubles == Spec => []DelayMatchesFailures
<1>1. ASSUME Init PROVE DelayInv
  <2>1. FeedInv
    BY <1>1, FeedAssumption, InitFeedInv
  <2>2. QED BY <1>1, <2>1, DelayAfterRecurs DEF Init, DelayInv, DelayMatchesFailures
<1>2. ASSUME DelayInv, FeedInv', [Next]_vars PROVE DelayInv'
  BY <1>2, FeedAssumption, DelayStep DEF DelayInv
<1>3. DelayInv => DelayMatchesFailures
  BY DEF DelayInv
<1>4. QED BY <1>1, <1>2, <1>3, FeedInvariance, PTL DEF Spec
==============================================================================
