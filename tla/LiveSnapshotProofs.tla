------------------------- MODULE LiveSnapshotProofs -------------------------
(***************************************************************************)
(* Proofs about LiveSnapshot for any messages, requests and bounds: every  *)
(* value the feed gave is accounted for, and the hash goes back in time    *)
(* only where a REST answer is involved.                                   *)
(***************************************************************************)
EXTENDS LiveSnapshot, SequenceTheorems, TLAPS

-----------------------------------------------------------------------------
(* The inductive invariant.                                                *)

\* What is in flight arrives in the order in which it was said, and nothing
\* is newer than the latest version.
InOrder ==
    /\ \A i, j \in DOMAIN wire : i < j => wire[i].ver <= wire[j].ver
    /\ \A i, j \in DOMAIN events : events[i].ver = events[j].ver
    /\ \A i \in DOMAIN events, j \in DOMAIN wire : events[i].ver <= wire[j].ver
    /\ \A i \in DOMAIN wire : wire[i].ver <= now
    /\ \A i \in DOMAIN events : events[i].ver <= now

OnWire(f, v)   == \E i \in DOMAIN wire : wire[i].ver = v /\ f \in wire[i].msg.has
InEvents(f, v) == \E i \in DOMAIN events : events[i].ver = v /\ f \in events[i].fields

\* Nothing in flight, or still to be said, is older than v.
Passed(v) == /\ v <= now
             /\ \A i \in DOMAIN wire : v <= wire[i].ver
             /\ \A i \in DOMAIN events : v <= events[i].ver

\* Where each value is: a version alone does not tell, since the message may
\* be on its way after the field was lost. A value that has arrived is older
\* than all that has not.
Located ==
    \A f \in Parts : Readable(f) => \A v \in sent[f] :
        \/ OnWire(f, v) \/ InEvents(f, v) \/ v \in dropped
        \/ Passed(v) /\ (snap[f] >= v \/ f \in byRest)

\* What the feed put into the hash is not newer than what is in flight.
FeedIsOlder == \A f \in Fields \ byRest : Passed(snap[f])

IInv == TypeOK /\ InOrder /\ Located /\ FeedIsOlder

-----------------------------------------------------------------------------
(* Sequences.                                                              *)

LEMMA TailFacts ==
    ASSUME NEW S, NEW s \in Seq(S), s # <<>>
    PROVE  /\ Tail(s) \in Seq(S) /\ Head(s) \in S /\ Len(Tail(s)) < Len(s)
           /\ 1 \in DOMAIN s /\ Head(s) = s[1]
           /\ \A i \in DOMAIN Tail(s) : i + 1 \in DOMAIN s /\ Tail(s)[i] = s[i + 1]
           /\ \A i \in DOMAIN s : 
                 \/ i = 1
                 \/ i - 1 \in DOMAIN Tail(s) /\ Tail(s)[i - 1] = s[i]
<1>1. /\ Head(s) \in S /\ Tail(s) \in Seq(S) /\ Len(Tail(s)) = Len(s) - 1
      /\ \A i \in 1 .. Len(Tail(s)) : Tail(s)[i] = s[i + 1]
  BY HeadTailProperties
<1>2. Len(s) \in Nat /\ Len(s) # 0 /\ DOMAIN s = 1 .. Len(s) /\ Head(s) = s[1]
  OBVIOUS
<1>3. DOMAIN Tail(s) = 1 .. Len(s) - 1
  BY <1>1
<1>4. QED BY <1>1, <1>2, <1>3

LEMMA AppendFacts ==
    ASSUME NEW S, NEW s \in Seq(S), NEW e \in S
    PROVE  /\ Append(s, e) \in Seq(S) /\ Len(Append(s, e)) = Len(s) + 1
           /\ \A i \in DOMAIN Append(s, e) :
                 \/ i \in DOMAIN s /\ Append(s, e)[i] = s[i]
                 \/ i = Len(s) + 1 /\ Append(s, e)[i] = e
           /\ \A i \in DOMAIN s : i \in DOMAIN Append(s, e) /\ Append(s, e)[i] = s[i]
           /\ Len(s) + 1 \in DOMAIN Append(s, e) /\ Append(s, e)[Len(s) + 1] = e
           /\ \A i \in DOMAIN s : i < Len(s) + 1
  OBVIOUS

\* What is in a part of a concatenation is in it.
LEMMA InConcat ==
    ASSUME NEW S, NEW s \in Seq(S), NEW t \in Seq(S), NEW f,
           (\E i \in DOMAIN s : f \in s[i]) \/ (\E i \in DOMAIN t : f \in t[i])
    PROVE  \E i \in DOMAIN (s \o t) : f \in (s \o t)[i]
<1>1. /\ Len(s) \in Nat /\ Len(t) \in Nat /\ DOMAIN s = 1 .. Len(s) /\ DOMAIN t = 1 .. Len(t)
      /\ s \o t \in Seq(S) /\ DOMAIN (s \o t) = 1 .. Len(s) + Len(t)
      /\ \A i \in 1 .. Len(s) + Len(t) :
            (s \o t)[i] = IF i <= Len(s) THEN s[i] ELSE t[i - Len(s)]
  BY ConcatProperties
<1>2. CASE \E i \in DOMAIN s : f \in s[i]
  BY <1>1, <1>2
<1>3. CASE \E i \in DOMAIN t : f \in t[i]
  <2>1. PICK i \in DOMAIN t : f \in t[i]
    BY <1>3
  <2>2. Len(s) + i \in 1 .. Len(s) + Len(t) /\ (s \o t)[Len(s) + i] = t[i]
    BY <1>1, <2>1
  <2>3. QED BY <1>1, <2>1, <2>2
<1>4. QED BY <1>2, <1>3

-----------------------------------------------------------------------------
(* Parsing.                                                                *)

LEMMA WhenType ==
    ASSUME NEW fields \in SUBSET Fields, NEW condition \in BOOLEAN
    PROVE  /\ When(condition, fields) \in Seq(SUBSET Fields)
           /\ \A f \in fields : condition =>
                 \E i \in DOMAIN When(condition, fields) : f \in When(condition, fields)[i]
<1>1. CASE condition
  <2>1. When(condition, fields) = <<fields>>
    BY <1>1 DEF When
  <2>2. 1 \in DOMAIN <<fields>> /\ <<fields>>[1] = fields /\ <<fields>> \in Seq(SUBSET Fields)
    OBVIOUS
  <2>3. QED BY <2>1, <2>2
<1>2. CASE ~condition
  BY <1>2 DEF When
<1>3. QED BY <1>1, <1>2

LEMMA TickFieldsType ==
    ASSUME NEW has \in SUBSET Parts
    PROVE  TickFields(has) \in SUBSET Fields /\ has \cap Quotes \subseteq TickFields(has)
  BY DEF TickFields, Fields, Parts, Quotes

\* A message is parsed into updates of fields of the hash, and no part it
\* gives a value for is missing, but for the parts it hides under "data".
LEMMA ParseReads ==
    ASSUME SnapshotAssumption, NEW m \in Messages
    PROVE  /\ Parse(m) \in Seq(SUBSET Fields)
           /\ \A f \in m.has : Readable(f) => \E i \in DOMAIN Parse(m) : f \in Parse(m)[i]
<1>1. m \in Message /\ m.has \subseteq Carries[m.type]
  BY DEF SnapshotAssumption
<1>2. m.has \in SUBSET Parts /\ m.nested \in BOOLEAN /\ m.type \in DOMAIN Carries
  BY <1>1 DEF Message, Carries
<1>3. Parts \subseteq Fields
  BY DEF Fields
<1>4. \A f \in m.has : Readable(f) /\ m.nested =>
         m.type \in {"ticker", "orderbook"} /\ f # "funding"
  BY DEF Readable
<1>5. CASE m.type = "ticker"
  <2> DEFINE tick == <<TickFields(m.has)>>
             funding == When("funding" \in m.has /\ ~m.nested, {"funding"})
             prices == When(m.has \cap {"mark", "spot"} # {}, m.has \cap {"mark", "spot"})
  <2>1. Parse(m) = tick \o funding \o prices
    BY <1>5 DEF Parse, ParseTicker
  <2>2. tick \in Seq(SUBSET Fields) /\ \A f \in m.has \cap Quotes : 1 \in DOMAIN tick /\ f \in tick[1]
    BY <1>2, TickFieldsType
  <2>3. {"funding"} \in SUBSET Fields /\ m.has \cap {"mark", "spot"} \in SUBSET Fields
    BY <1>2, <1>3 DEF Fields, Parts
  <2>4. /\ funding \in Seq(SUBSET Fields)
        /\ "funding" \in m.has /\ ~m.nested => \E i \in DOMAIN funding : "funding" \in funding[i]
    BY <2>3, WhenType, ("funding" \in m.has /\ ~m.nested) \in BOOLEAN
  <2>5. /\ prices \in Seq(SUBSET Fields)
        /\ \A f \in m.has \cap {"mark", "spot"} : \E i \in DOMAIN prices : f \in prices[i]
    BY <2>3, WhenType, (m.has \cap {"mark", "spot"} # {}) \in BOOLEAN
  <2> HIDE DEF tick, funding, prices
  <2>6. tick \o funding \in Seq(SUBSET Fields) /\ Parse(m) \in Seq(SUBSET Fields)
    BY <2>1, <2>2, <2>4, <2>5
  <2>7. ASSUME NEW f \in m.has, Readable(f)
        PROVE  \E i \in DOMAIN Parse(m) : f \in Parse(m)[i]
    <3>1. f \in Quotes \/ f = "funding" \/ f \in {"mark", "spot"}
      BY <1>1, <1>5 DEF Carries
    <3>2. CASE f \in Quotes
      <4>1. \E i \in DOMAIN (tick \o funding) : f \in (tick \o funding)[i]
        BY <2>2, <2>4, <3>2, InConcat
      <4>2. QED BY <2>1, <2>5, <2>6, <4>1, InConcat
    <3>3. CASE f = "funding"
      <4>1. ~m.nested
        BY <1>2, <1>4, <2>7, <3>3
      <4>2. \E i \in DOMAIN (tick \o funding) : f \in (tick \o funding)[i]
        BY <2>2, <2>4, <2>7, <3>3, <4>1, InConcat
      <4>3. QED BY <2>1, <2>5, <2>6, <4>2, InConcat
    <3>4. CASE f \in {"mark", "spot"}
      BY <2>1, <2>5, <2>6, <2>7, <3>4, InConcat
    <3>5. QED BY <3>1, <3>2, <3>3, <3>4
  <2>8. QED BY <2>6, <2>7
<1>6. CASE m.type = "orderbook"
  <2> DEFINE fields == {"book", "spread"}
             reads  == "book" \in m.has
  <2>1. Parse(m) = When(reads, fields)
    BY <1>6 DEF Parse, ParseBook
  <2>2. fields \in SUBSET Fields /\ reads \in BOOLEAN
    BY DEF Fields, Parts
  <2>3. \A f \in m.has : reads /\ f \in fields
    BY <1>1, <1>6 DEF Carries
  <2> HIDE DEF fields, reads
  <2>4. QED BY <2>1, <2>2, <2>3, WhenType
<1>7. CASE m.type \notin {"ticker", "orderbook"}
  <2> DEFINE fields == m.has \cup Always[m.type]
             reads  == fields # {} /\ ~m.nested
  <2>1. Parse(m) = When(reads, fields)
    BY <1>7 DEF Parse, ParseFlat
  <2>2. fields \in SUBSET Fields /\ m.has \subseteq fields
    BY <1>2, <1>3, <1>7 DEF Always, Carries, Parts
  <2>3. reads \in BOOLEAN
    OBVIOUS
  <2>4. \A f \in m.has : Readable(f) => reads
    BY <1>2, <1>4, <1>7, <2>2
  <2> HIDE DEF fields, reads
  <2>5. QED BY <2>1, <2>2, <2>3, <2>4, WhenType
<1>8. QED BY <1>5, <1>6, <1>7

\* The updates of a message, with its version.
Updates(m) == [i \in DOMAIN Parse(m.msg) |-> [fields |-> Parse(m.msg)[i], ver |-> m.ver]]

LEMMA UpdatesType ==
    ASSUME SnapshotAssumption, NEW m \in [msg : Messages, ver : 1..MaxVersion]
    PROVE  /\ Updates(m) \in Seq([fields : SUBSET Fields, ver : 1..MaxVersion])
           /\ \A i \in DOMAIN Updates(m) : Updates(m)[i].ver = m.ver
           /\ \A f \in m.msg.has : Readable(f) =>
                 \E i \in DOMAIN Updates(m) : f \in Updates(m)[i].fields
<1>1. /\ Parse(m.msg) \in Seq(SUBSET Fields)
      /\ \A f \in m.msg.has : Readable(f) =>
            \E i \in DOMAIN Parse(m.msg) : f \in Parse(m.msg)[i]
  BY ParseReads
<1>2. \A i \in DOMAIN Parse(m.msg) : Parse(m.msg)[i] \in SUBSET Fields
  BY <1>1
<1>3. DOMAIN Parse(m.msg) = 1 .. Len(Parse(m.msg)) /\ Len(Parse(m.msg)) \in Nat
  BY <1>1
<1>4. \A i \in DOMAIN Parse(m.msg) :
         /\ Updates(m)[i] \in [fields : SUBSET Fields, ver : 1..MaxVersion]
         /\ Updates(m)[i].ver = m.ver /\ Updates(m)[i].fields = Parse(m.msg)[i]
  BY <1>2 DEF Updates
<1>5. DOMAIN Updates(m) = DOMAIN Parse(m.msg)
  BY DEF Updates
<1>6. Updates(m) \in Seq([fields : SUBSET Fields, ver : 1..MaxVersion])
  <2> DEFINE n == Len(Parse(m.msg))
             S == [fields : SUBSET Fields, ver : 1..MaxVersion]
  <2>1. n \in Nat /\ DOMAIN Updates(m) = 1 .. n
    BY <1>3, <1>5
  <2>2. Updates(m) = [i \in 1 .. n |-> Updates(m)[i]] /\ \A i \in 1 .. n : Updates(m)[i] \in S
    BY <1>3, <1>4 DEF Updates
  <2> HIDE DEF n, S
  <2>3. Updates(m) \in [1 .. n -> S]
    BY <2>2
  <2>4. Updates(m) \in Seq(S)
    BY <2>1, <2>3
  <2>5. QED BY <2>4 DEF S
<1>7. QED BY <1>1, <1>4, <1>5, <1>6

-----------------------------------------------------------------------------
(* Types.                                                                  *)

WireElement == [msg : Messages, ver : 1..MaxVersion]
Update      == [fields : SUBSET Fields, ver : 1..MaxVersion]

LEMMA MergedFacts ==
    ASSUME NEW fields \in SUBSET Fields, NEW ver \in 0..MaxVersion,
           snap \in [Fields -> 0..MaxVersion]
    PROVE  /\ Merged(fields, ver) \in [Fields -> 0..MaxVersion]
           /\ \A f \in fields : Merged(fields, ver)[f] = ver
           /\ \A f \in Fields \ fields : Merged(fields, ver)[f] = snap[f]
  BY DEF Merged

LEMMA RestFieldsType ==
    ASSUME NEW has \in SUBSET Quotes
    PROVE  RestFields(has) \in SUBSET Fields
  BY DEF RestFields, Fields, Parts, Quotes

LEMMA InFlightTypes ==
    ASSUME TypeOK
    PROVE  /\ wire \in Seq(WireElement) /\ events \in Seq(Update)
           /\ \A i \in DOMAIN wire : wire[i] \in WireElement /\ wire[i].ver \in 1..MaxVersion
           /\ \A i \in DOMAIN events : events[i] \in Update /\ events[i].ver \in 1..MaxVersion
           /\ Versions(wire) \subseteq 1..MaxVersion /\ Versions(events) \subseteq 1..MaxVersion
<1>1. wire \in Seq(WireElement) /\ events \in Seq(Update)
  BY DEF TypeOK, WireElement, Update
<1>2. /\ \A i \in DOMAIN wire : wire[i] \in WireElement
      /\ \A i \in DOMAIN events : events[i] \in Update
  BY <1>1
<1>3. /\ \A e \in WireElement : e.ver \in 1..MaxVersion
      /\ \A e \in Update : e.ver \in 1..MaxVersion
  BY DEF WireElement, Update
<1>4. QED BY <1>1, <1>2, <1>3 DEF Versions

\* The message in hand becomes its updates, or is dropped as a whole.
LEMMA ReceiveEffect ==
    ASSUME SnapshotAssumption, TypeOK, Receive
    PROVE  /\ wire # <<>> /\ events = <<>> /\ wire' = Tail(wire)
           /\ Head(wire) = wire[1] /\ 1 \in DOMAIN wire /\ wire[1] \in WireElement
           /\ \/ events' = Updates(wire[1]) /\ dropped' = dropped
              \/ events' = <<>> /\ dropped' = dropped \cup {wire[1].ver}
           /\ UNCHANGED <<now, snap, byRest, rest, sent>>
<1>1. /\ wire # <<>> /\ events = <<>> /\ wire' = Tail(wire)
      /\ UNCHANGED <<now, snap, byRest, rest, sent>>
  BY DEF Receive
<1>2. wire \in Seq(WireElement)
  BY DEF TypeOK, WireElement
<1>3. Head(wire) = wire[1] /\ 1 \in DOMAIN wire /\ wire[1] \in WireElement
  BY <1>1, <1>2, TailFacts
<1>4. CASE Head(wire).msg.valid
  BY <1>1, <1>3, <1>4 DEF Receive, Updates
<1>5. CASE ~Head(wire).msg.valid
  BY <1>1, <1>3, <1>5 DEF Receive
<1>6. QED BY <1>1, <1>3, <1>4, <1>5

\* One HSET of the first update.
StoresHead == /\ snap' = Merged(Head(events).fields, Head(events).ver)
              /\ byRest' = byRest \ Head(events).fields

LEMMA StoresHeadEffect ==
    ASSUME TypeOK, events # <<>>, StoresHead
    PROVE  /\ 1 \in DOMAIN events /\ Head(events) = events[1]
           /\ events[1] \in Update
           /\ snap' \in [Fields -> 0..MaxVersion] /\ byRest' \subseteq Fields
           /\ byRest' = byRest \ events[1].fields
           /\ \A f \in events[1].fields : snap'[f] = events[1].ver
           /\ \A f \in Fields \ events[1].fields : snap'[f] = snap[f]
<1>1. events \in Seq(Update) /\ snap \in [Fields -> 0..MaxVersion] /\ byRest \subseteq Fields
  BY DEF TypeOK, Update
<1>2. 1 \in DOMAIN events /\ Head(events) = events[1] /\ events[1] \in Update
  BY <1>1, TailFacts
<1> DEFINE fields == events[1].fields
           ver == events[1].ver
<1>3. fields \in SUBSET Fields /\ ver \in 0..MaxVersion
  BY <1>2 DEF Update
<1>4. snap' = Merged(fields, ver) /\ byRest' = byRest \ fields
  BY <1>2 DEF StoresHead
<1> HIDE DEF fields, ver
<1>5. /\ snap' \in [Fields -> 0..MaxVersion]
      /\ \A f \in fields : snap'[f] = ver
      /\ \A f \in Fields \ fields : snap'[f] = snap[f]
  <2>1. snap \in [Fields -> 0..MaxVersion]
    BY <1>1
  <2>2. /\ Merged(fields, ver) \in [Fields -> 0..MaxVersion]
        /\ \A f \in fields : Merged(fields, ver)[f] = ver
        /\ \A f \in Fields \ fields : Merged(fields, ver)[f] = snap[f]
    BY <1>3, <2>1, MergedFacts
  <2>3. QED BY <1>4, <2>2
<1>6. QED BY <1>1, <1>2, <1>4, <1>5 DEF fields, ver

\* A REST answer is stored over the hash.
LEMMA RestStoresEffect ==
    ASSUME TypeOK, NEW q \in Requests, RestStores(q)
    PROVE  \E fields \in SUBSET Fields :
              /\ byRest' = byRest \cup fields
              /\ snap' \in [Fields -> 0..MaxVersion]
              /\ \A f \in fields : snap'[f] = rest[q].ver
              /\ \A f \in Fields \ fields : snap'[f] = snap[f]
<1>1. rest[q] \in Answer
  BY DEF TypeOK
<1>2. RestFields(rest[q].has) \in SUBSET Fields /\ rest[q].ver \in 0..MaxVersion
  BY <1>1, RestFieldsType DEF Answer
<1>3. snap \in [Fields -> 0..MaxVersion]
  BY DEF TypeOK
<1> DEFINE fields == RestFields(rest[q].has)
<1>4. byRest' = byRest \cup fields /\ snap' = Merged(fields, rest[q].ver)
  BY DEF RestStores
<1> HIDE DEF fields
<1>5. /\ snap' \in [Fields -> 0..MaxVersion]
      /\ \A f \in fields : snap'[f] = rest[q].ver
      /\ \A f \in Fields \ fields : snap'[f] = snap[f]
  BY <1>2, <1>3, <1>4, MergedFacts DEF fields
<1>6. QED BY <1>2, <1>4, <1>5 DEF fields

LEMMA EmptySeqs == <<>> \in Seq(WireElement) /\ <<>> \in Seq(Update)
  OBVIOUS

LEMMA InitType == ASSUME SnapshotAssumption, Init PROVE TypeOK
<1>1. wire \in Seq(WireElement) /\ events \in Seq(Update) /\ Len(wire) = 0
  BY DEF Init
<1>2. rest \in [Requests -> Answer]
  BY DEF Init, Idle, Answer, SnapshotAssumption
<1>3. QED BY <1>1, <1>2 DEF Init, TypeOK, WireElement, Update, SnapshotAssumption

\* Requests change their own state, and at most take a version or store.
LEMMA RequestType ==
    ASSUME SnapshotAssumption, TypeOK, NEW q \in Requests, Request(q)
    PROVE  TypeOK'
<1>1. rest[q] \in Answer /\ rest \in [Requests -> Answer] /\ now \in 0..MaxVersion /\ MaxVersion \in Nat
  BY DEF TypeOK, SnapshotAssumption
<1>2. \A r \in Answer : [rest EXCEPT ![q] = r] \in [Requests -> Answer]
  BY <1>1
<1>3. Idle \in Answer /\ \A at \in {"database", "exchange"} : [Idle EXCEPT !.at = at] \in Answer
  BY <1>1 DEF Idle, Answer
<1>4. CASE FindsNothing(q) \/ DatabaseAnswers(q) \/ DatabaseEmpty(q) \/ RestFails(q)
  <2>1. rest' \in [Requests -> Answer]
    BY <1>2, <1>3, <1>4 DEF FindsNothing, DatabaseAnswers, DatabaseEmpty, RestFails, Goto
  <2>2. UNCHANGED market
    BY <1>4 DEF FindsNothing, DatabaseAnswers, DatabaseEmpty, RestFails
  <2>3. QED BY <2>1, <2>2 DEF TypeOK, market
<1>5. CASE RestAnswers(q)
  <2>1. now' \in 0..MaxVersion
    BY <1>1, <1>5 DEF RestAnswers
  <2>2. PICK has \in SUBSET Quotes : Goto(q, [at |-> "storing", has |-> has, ver |-> now'])
    BY <1>5 DEF RestAnswers
  <2>3. [at |-> "storing", has |-> has, ver |-> now'] \in Answer
    BY <2>1 DEF Answer
  <2>4. rest' \in [Requests -> Answer]
    BY <1>2, <2>2, <2>3 DEF Goto
  <2>5. UNCHANGED <<wire, events, snap, byRest, sent, dropped>>
    BY <1>5 DEF RestAnswers
  <2>6. QED BY <2>1, <2>4, <2>5 DEF TypeOK
<1>6. CASE RestStores(q)
  <2>1. snap' \in [Fields -> 0..MaxVersion] /\ byRest' \subseteq Fields
    <3>1. byRest \subseteq Fields
      BY DEF TypeOK
    <3>2. QED BY <1>6, <3>1, RestStoresEffect
  <2>2. rest' \in [Requests -> Answer]
    BY <1>2, <1>3, <1>6 DEF RestStores, Goto
  <2>3. UNCHANGED <<now, wire, events, sent, dropped>>
    BY <1>6 DEF RestStores
  <2>4. QED BY <2>1, <2>2, <2>3 DEF TypeOK
<1>7. QED BY <1>4, <1>5, <1>6 DEF Request

LEMMA StepType ==
    ASSUME SnapshotAssumption, TypeOK, [Next]_vars
    PROVE  TypeOK'
<1>1. /\ now \in 0..MaxVersion /\ MaxVersion \in Nat /\ MaxWire \in Nat
      /\ Len(wire) <= MaxWire /\ dropped \subseteq 1..MaxVersion
      /\ sent \in [Parts -> SUBSET (1..MaxVersion)]
  BY DEF TypeOK, SnapshotAssumption
<1>2. ASSUME NEW m \in Messages, Send(m) PROVE TypeOK'
  <2>1. now' \in 1..MaxVersion
    BY <1>1, <1>2 DEF Send
  <2>2. [msg |-> m, ver |-> now'] \in WireElement
    BY <2>1 DEF WireElement
  <2>3. wire' \in Seq(WireElement) /\ Len(wire') <= MaxWire
    BY <1>1, <1>2, <2>2, InFlightTypes, AppendFacts DEF Send
  <2>4. sent' \in [Parts -> SUBSET (1..MaxVersion)]
    BY <1>1, <1>2, <2>1 DEF Send
  <2>5. UNCHANGED <<events, snap, byRest, rest, dropped>>
    BY <1>2 DEF Send
  <2>6. QED BY <2>1, <2>3, <2>4, <2>5 DEF TypeOK, WireElement
<1>3. CASE Receive
  <2>1. Tail(wire) \in Seq(WireElement) /\ Len(Tail(wire)) < Len(wire) /\ Len(wire) \in Nat
    BY <1>3, ReceiveEffect, InFlightTypes, TailFacts
  <2>2. wire' \in Seq(WireElement) /\ Len(wire') <= MaxWire
    <3>1. Len(Tail(wire)) \in Nat
      BY <2>1
    <3>2. wire' = Tail(wire)
      BY <1>3, ReceiveEffect
    <3>3. QED BY <1>1, <2>1, <3>1, <3>2
  <2>3. Updates(wire[1]) \in Seq(Update) /\ wire[1].ver \in 1..MaxVersion
    BY <1>3, ReceiveEffect, UpdatesType, InFlightTypes DEF WireElement, Update
  <2>4. events' \in Seq(Update) /\ dropped' \subseteq 1..MaxVersion
    BY <1>1, <1>3, <2>3, ReceiveEffect, EmptySeqs
  <2>5. UNCHANGED <<now, snap, byRest, rest, sent>>
    BY <1>3, ReceiveEffect
  <2>6. QED BY <2>2, <2>4, <2>5 DEF TypeOK, WireElement, Update
<1>4. CASE Store
  <2>1. events # <<>> /\ StoresHead /\ events' = Tail(events)
    BY <1>4 DEF Store, StoresHead
  <2>2. events' \in Seq(Update)
    BY <2>1, InFlightTypes, TailFacts
  <2>3. snap' \in [Fields -> 0..MaxVersion] /\ byRest' \subseteq Fields
    BY <2>1, StoresHeadEffect
  <2>4. UNCHANGED <<now, wire, rest, sent, dropped>>
    BY <1>4 DEF Store
  <2>5. QED BY <2>2, <2>3, <2>4 DEF TypeOK, Update
<1>5. CASE ConnectionLost
  <2>1. dropped' \subseteq 1..MaxVersion
    BY <1>1, <1>5, InFlightTypes DEF ConnectionLost
  <2>2. wire' \in Seq(WireElement) /\ Len(wire') <= MaxWire
    BY <1>1, <1>5 DEF ConnectionLost
  <2>3. UNCHANGED <<now, events, snap, byRest, rest, sent>>
    BY <1>5 DEF ConnectionLost
  <2>4. QED BY <2>1, <2>2, <2>3 DEF TypeOK, WireElement
<1>6. CASE CollectorEnds
  <2>1. dropped' \subseteq 1..MaxVersion
    BY <1>1, <1>6, InFlightTypes DEF CollectorEnds
  <2>2. wire' \in Seq(WireElement) /\ Len(wire') <= MaxWire /\ events' \in Seq(Update)
    BY <1>1, <1>6 DEF CollectorEnds
  <2>3. events # <<>> /\ (StoresHead \/ UNCHANGED <<snap, byRest>>)
    BY <1>6 DEF CollectorEnds, StoresHead
  <2>4. snap' \in [Fields -> 0..MaxVersion] /\ byRest' \subseteq Fields
    BY <2>3, StoresHeadEffect DEF TypeOK
  <2>5. UNCHANGED <<now, rest, sent>>
    BY <1>6 DEF CollectorEnds
  <2>6. QED BY <2>1, <2>2, <2>4, <2>5 DEF TypeOK, WireElement, Update
<1>7. ASSUME NEW q \in Requests, Request(q) PROVE TypeOK'
  BY <1>7, RequestType
<1>8. CASE UNCHANGED vars
  BY <1>8 DEF vars, TypeOK
<1>9. QED BY <1>2, <1>3, <1>4, <1>5, <1>6, <1>7, <1>8 DEF Next

-----------------------------------------------------------------------------
(* Preservation, one lemma per action that moves a value.                  *)

LEMMA SendKeeps ==
    ASSUME SnapshotAssumption, IInv, NEW m \in Messages, Send(m)
    PROVE  InOrder' /\ Located' /\ FeedIsOlder'
<1> DEFINE n == Len(wire) + 1
<1>1. /\ now \in Nat /\ now' = now + 1 /\ sent \in [Parts -> SUBSET (1..MaxVersion)]
      /\ MaxVersion \in Nat
  BY DEF IInv, TypeOK, Send, SnapshotAssumption
<1>2. [msg |-> m, ver |-> now'] \in WireElement
  BY <1>1 DEF WireElement, Send
<1>3. wire' = Append(wire, [msg |-> m, ver |-> now']) /\ UNCHANGED <<events, snap, byRest, dropped>>
  BY DEF Send
<1>4. /\ \A i \in DOMAIN wire' : \/ i \in DOMAIN wire /\ wire'[i] = wire[i]
                                 \/ i = n /\ wire'[i] = [msg |-> m, ver |-> now']
      /\ \A i \in DOMAIN wire : i \in DOMAIN wire' /\ wire'[i] = wire[i] /\ i < n
      /\ n \in DOMAIN wire' /\ wire'[n] = [msg |-> m, ver |-> now']
  BY <1>2, <1>3, InFlightTypes, AppendFacts DEF IInv
<1> HIDE DEF n
<1>5. /\ \A i \in DOMAIN wire' : \/ i \in DOMAIN wire /\ wire'[i].ver = wire[i].ver
                                 \/ i = n /\ wire'[i].ver = now + 1
      /\ \A i \in DOMAIN wire : i \in Nat /\ wire[i].ver \in Nat /\ i < n
      /\ \A i \in DOMAIN events : events[i].ver \in Nat
      /\ n \in DOMAIN wire' /\ wire'[n].ver = now + 1 /\ wire'[n].msg = m
  <2>1. \A i \in DOMAIN wire : i \in Nat
    BY InFlightTypes DEF IInv
  <2>2. QED BY <1>1, <1>4, <2>1, InFlightTypes DEF IInv
<1>6. InOrder'
  BY <1>1, <1>3, <1>5 DEF IInv, InOrder
<1>7. \A v \in Nat : Passed(v) => Passed(v)'
  BY <1>1, <1>3, <1>5 DEF Passed
<1>8. FeedIsOlder'
  BY <1>3, <1>7 DEF FeedIsOlder, IInv, TypeOK
<1>9. ASSUME NEW f \in Parts, Readable(f), NEW v \in sent'[f]
      PROVE  \/ OnWire(f, v)' \/ InEvents(f, v)' \/ v \in dropped'
             \/ Passed(v)' /\ (snap'[f] >= v \/ f \in byRest')
  <2>1. CASE v \in sent[f]
    <3>1. v \in Nat
      BY <1>1, <2>1
    <3>2. OnWire(f, v) => OnWire(f, v)'
      BY <1>4 DEF OnWire
    <3>3. InEvents(f, v) => InEvents(f, v)'
      BY <1>3 DEF InEvents
    <3>4. QED BY <1>3, <1>7, <1>9, <2>1, <3>1, <3>2, <3>3 DEF IInv, Located
  <2>2. CASE v \notin sent[f]
    <3>1. f \in m.has /\ v = now + 1
      BY <1>1, <2>2 DEF Send
    <3>2. QED BY <1>5, <3>1 DEF OnWire
  <2>3. QED BY <2>1, <2>2
<1>10. Located'
  BY <1>9 DEF Located, Readable
<1>11. QED BY <1>6, <1>8, <1>10

LEMMA ReceiveKeeps ==
    ASSUME SnapshotAssumption, IInv, Receive
    PROVE  InOrder' /\ Located' /\ FeedIsOlder'
<1>1. /\ wire # <<>> /\ events = <<>> /\ wire' = Tail(wire)
      /\ 1 \in DOMAIN wire /\ wire[1] \in WireElement
      /\ UNCHANGED <<now, snap, byRest, sent>>
  BY ReceiveEffect DEF IInv
<1>2. /\ \A i \in DOMAIN wire' : i + 1 \in DOMAIN wire /\ wire'[i] = wire[i + 1]
      /\ \A i \in DOMAIN wire : \/ i = 1
                                \/ i - 1 \in DOMAIN wire' /\ wire'[i - 1] = wire[i]
  BY <1>1, InFlightTypes, TailFacts DEF IInv
<1>3. /\ \A i \in DOMAIN events' : events'[i].ver = wire[1].ver
      /\ \A f \in wire[1].msg.has : Readable(f) =>
            \/ wire[1].ver \in dropped'
            \/ \E i \in DOMAIN events' :
                  events'[i].ver = wire[1].ver /\ f \in events'[i].fields
      /\ dropped \subseteq dropped'
  <2>1. CASE events' = Updates(wire[1]) /\ dropped' = dropped
    <3>1. /\ \A i \in DOMAIN events' : events'[i].ver = wire[1].ver
          /\ \A f \in wire[1].msg.has : Readable(f) =>
                \E i \in DOMAIN events' : f \in events'[i].fields
      BY <1>1, <2>1, UpdatesType DEF WireElement
    <3>2. QED BY <2>1, <3>1
  <2>2. CASE events' = <<>> /\ dropped' = dropped \cup {wire[1].ver}
    BY <2>2
  <2>3. QED BY <2>1, <2>2, ReceiveEffect DEF IInv
<1>4. /\ \A i \in DOMAIN wire : i \in Nat /\ wire[i].ver \in Nat
      /\ \A i \in DOMAIN wire' : i \in Nat /\ 1 < i + 1
      /\ now \in Nat /\ sent \in [Parts -> SUBSET (1..MaxVersion)]
  <2>1. wire' \in Seq(WireElement)
    BY <1>1, InFlightTypes, TailFacts DEF IInv
  <2>2. \A i \in DOMAIN wire' : i \in 1 .. Len(wire')
    BY <2>1
  <2>3. Len(wire') \in Nat /\ Len(wire) \in Nat /\ DOMAIN wire = 1 .. Len(wire)
    BY <2>1, InFlightTypes DEF IInv
  <2>4. MaxVersion \in Nat /\ now \in Nat /\ sent \in [Parts -> SUBSET (1..MaxVersion)]
    BY DEF IInv, TypeOK, SnapshotAssumption
  <2>5. QED BY <2>2, <2>3, <2>4, InFlightTypes DEF IInv
<1>5. InOrder'
  BY <1>1, <1>2, <1>3, <1>4 DEF IInv, InOrder
<1>6. \A v \in Nat : Passed(v) => Passed(v)'
  BY <1>1, <1>2, <1>3, <1>4 DEF Passed
<1>7. FeedIsOlder'
  BY <1>1, <1>6 DEF FeedIsOlder, IInv, TypeOK
<1>8. ASSUME NEW f \in Parts, Readable(f), NEW v \in sent'[f]
      PROVE  \/ OnWire(f, v)' \/ InEvents(f, v)' \/ v \in dropped'
             \/ Passed(v)' /\ (snap'[f] >= v \/ f \in byRest')
  <2>1. v \in sent[f] /\ v \in Nat
    BY <1>1, <1>4
  <2>2. OnWire(f, v) => OnWire(f, v)' \/ InEvents(f, v)' \/ v \in dropped'
    <3>1. SUFFICES ASSUME NEW i \in DOMAIN wire, wire[i].ver = v, f \in wire[i].msg.has
                   PROVE  OnWire(f, v)' \/ InEvents(f, v)' \/ v \in dropped'
      BY DEF OnWire
    <3>2. CASE i = 1
      BY <1>3, <1>8, <3>1, <3>2 DEF InEvents
    <3>3. CASE i # 1
      BY <1>2, <3>1, <3>3 DEF OnWire
    <3>4. QED BY <3>2, <3>3
  <2>3. ~InEvents(f, v)
    BY <1>1 DEF InEvents
  <2>4. QED BY <1>1, <1>3, <1>6, <1>8, <2>1, <2>2, <2>3 DEF IInv, Located
<1>9. Located'
  BY <1>8 DEF Located, Readable
<1>10. QED BY <1>5, <1>7, <1>9

LEMMA StoreKeeps ==
    ASSUME SnapshotAssumption, IInv, Store
    PROVE  InOrder' /\ Located' /\ FeedIsOlder'
<1>1. /\ events # <<>> /\ StoresHead /\ events' = Tail(events)
      /\ UNCHANGED <<now, wire, sent, dropped>>
  BY DEF Store, StoresHead
<1>2. /\ 1 \in DOMAIN events /\ events[1] \in Update
      /\ byRest' = byRest \ events[1].fields
      /\ \A f \in events[1].fields : snap'[f] = events[1].ver
      /\ \A f \in Fields \ events[1].fields : snap'[f] = snap[f]
  BY <1>1, StoresHeadEffect DEF IInv
<1>3. /\ \A i \in DOMAIN events' : i + 1 \in DOMAIN events /\ events'[i] = events[i + 1]
      /\ \A i \in DOMAIN events : \/ i = 1
                                  \/ i - 1 \in DOMAIN events' /\ events'[i - 1] = events[i]
  BY <1>1, InFlightTypes, TailFacts DEF IInv
<1>4. /\ \A i \in DOMAIN wire : wire[i].ver \in Nat
      /\ \A i \in DOMAIN events : events[i].ver \in Nat
      /\ now \in Nat /\ sent \in [Parts -> SUBSET (1..MaxVersion)]
      /\ MaxVersion \in Nat /\ snap \in [Fields -> 0..MaxVersion]
  BY InFlightTypes DEF IInv, TypeOK, SnapshotAssumption
<1>5. InOrder'
  BY <1>1, <1>3 DEF IInv, InOrder
<1>6. \A v \in Nat : Passed(v) => Passed(v)'
  BY <1>1, <1>3 DEF Passed
\* What is stored is as old as what is left of its message.
<1>7. Passed(events[1].ver) /\ events[1].ver \in Nat
  BY <1>2, <1>4 DEF IInv, InOrder, Passed
<1>8. FeedIsOlder'
  <2>1. ASSUME NEW f \in Fields \ byRest'
        PROVE  \E v \in Nat : snap'[f] = v /\ Passed(v)
    <3>1. CASE f \in events[1].fields
      BY <1>2, <1>7, <3>1
    <3>2. CASE f \notin events[1].fields
      BY <1>2, <1>4, <2>1, <3>2 DEF IInv, FeedIsOlder
    <3>3. QED BY <3>1, <3>2
  <2>2. QED BY <1>6, <2>1 DEF FeedIsOlder
<1>9. ASSUME NEW f \in Parts, Readable(f), NEW v \in sent'[f]
      PROVE  \/ OnWire(f, v)' \/ InEvents(f, v)' \/ v \in dropped'
             \/ Passed(v)' /\ (snap'[f] >= v \/ f \in byRest')
  <2>1. v \in sent[f] /\ v \in Nat /\ f \in Fields /\ snap[f] \in Nat
    BY <1>1, <1>4 DEF Fields
  <2>2. OnWire(f, v) => OnWire(f, v)'
    BY <1>1 DEF OnWire
  <2>3. ASSUME InEvents(f, v), ~InEvents(f, v)'
        PROVE  Passed(v)' /\ snap'[f] >= v
    <3>1. PICK i \in DOMAIN events : events[i].ver = v /\ f \in events[i].fields
      BY <2>3 DEF InEvents
    <3>2. i = 1
      BY <1>3, <2>3, <3>1 DEF InEvents
    <3>3. snap'[f] = v /\ Passed(v)
      BY <1>2, <1>7, <3>1, <3>2
    <3>4. QED BY <1>6, <2>1, <3>3
  <2>4. ASSUME Passed(v), snap[f] >= v \/ f \in byRest
        PROVE  Passed(v)' /\ (snap'[f] >= v \/ f \in byRest')
    <3>1. CASE f \in events[1].fields
      BY <1>2, <1>4, <1>6, <2>1, <2>4, <3>1 DEF Passed
    <3>2. CASE f \notin events[1].fields
      BY <1>2, <1>6, <2>1, <2>4, <3>2
    <3>3. QED BY <3>1, <3>2
  <2>5. QED BY <1>1, <1>9, <2>1, <2>2, <2>3, <2>4 DEF IInv, Located
<1>10. Located'
  BY <1>9 DEF Located, Readable
<1>11. QED BY <1>5, <1>8, <1>10

\* What is lost on the wire, or with the process, is dropped.
LEMMA LossKeeps ==
    ASSUME SnapshotAssumption, IInv, ConnectionLost \/ CollectorEnds
    PROVE  InOrder' /\ Located' /\ FeedIsOlder'
<1>1. /\ wire' = <<>> /\ (events' = events \/ events' = <<>>)
      /\ UNCHANGED <<now, sent>> /\ dropped \subseteq dropped'
      /\ \A i \in DOMAIN wire : wire[i].ver \in dropped'
      /\ events' = <<>> => \A i \in DOMAIN events : events[i].ver \in dropped'
  <2>1. CASE ConnectionLost
    BY <2>1 DEF ConnectionLost, Versions
  <2>2. CASE CollectorEnds
    BY <2>2 DEF CollectorEnds, Versions
  <2>3. QED BY <2>1, <2>2
<1>2. \/ UNCHANGED <<snap, byRest>>
      \/ events # <<>> /\ StoresHead /\ events' = <<>>
  BY DEF ConnectionLost, CollectorEnds, StoresHead
<1>3. DOMAIN wire' = {} /\ (DOMAIN events' = {} \/ events' = events)
  BY <1>1
<1>4. /\ \A i \in DOMAIN events : events[i].ver \in Nat
      /\ now \in Nat /\ sent \in [Parts -> SUBSET (1..MaxVersion)]
      /\ MaxVersion \in Nat /\ snap \in [Fields -> 0..MaxVersion]
  BY InFlightTypes DEF IInv, TypeOK, SnapshotAssumption
<1>5. InOrder'
  BY <1>1, <1>3 DEF IInv, InOrder
<1>6. \A v \in Nat : Passed(v) => Passed(v)'
  BY <1>1, <1>3 DEF Passed
<1>7. ASSUME NEW f \in Fields
      PROVE  \/ snap'[f] = snap[f] /\ (f \in byRest' <=> f \in byRest)
             \/ \E v \in Nat : snap'[f] = v /\ Passed(v) /\ \A w \in Nat : Passed(w) => w <= v
  <2>1. CASE UNCHANGED <<snap, byRest>>
    BY <2>1
  <2>2. CASE events # <<>> /\ StoresHead
    <3>1. /\ 1 \in DOMAIN events /\ byRest' = byRest \ events[1].fields
          /\ \A g \in events[1].fields : snap'[g] = events[1].ver
          /\ \A g \in Fields \ events[1].fields : snap'[g] = snap[g]
      BY <2>2, StoresHeadEffect DEF IInv
    <3>2. Passed(events[1].ver) /\ events[1].ver \in Nat
      BY <1>4, <3>1 DEF IInv, InOrder, Passed
    <3>3. \A w \in Nat : Passed(w) => w <= events[1].ver
      BY <3>1 DEF Passed
    <3>4. QED BY <3>1, <3>2, <3>3
  <2>3. QED BY <1>2, <2>1, <2>2
<1>8. FeedIsOlder'
  <2>1. ASSUME NEW f \in Fields \ byRest'
        PROVE  \E v \in Nat : snap'[f] = v /\ Passed(v)
    BY <1>4, <1>7, <2>1 DEF IInv, FeedIsOlder
  <2>2. QED BY <1>6, <2>1 DEF FeedIsOlder
<1>9. ASSUME NEW f \in Parts, Readable(f), NEW v \in sent'[f]
      PROVE  \/ OnWire(f, v)' \/ InEvents(f, v)' \/ v \in dropped'
             \/ Passed(v)' /\ (snap'[f] >= v \/ f \in byRest')
  <2>1. v \in sent[f] /\ v \in Nat /\ f \in Fields
    BY <1>1, <1>4 DEF Fields
  <2>2. OnWire(f, v) => v \in dropped'
    BY <1>1 DEF OnWire
  <2>3. InEvents(f, v) => InEvents(f, v)' \/ v \in dropped'
    BY <1>1 DEF InEvents
  <2>4. ASSUME Passed(v), snap[f] >= v \/ f \in byRest
        PROVE  Passed(v)' /\ (snap'[f] >= v \/ f \in byRest')
    BY <1>6, <1>7, <2>1, <2>4
  <2>5. QED BY <1>1, <1>9, <2>1, <2>2, <2>3, <2>4 DEF IInv, Located
<1>10. Located'
  BY <1>9 DEF Located, Readable
<1>11. QED BY <1>5, <1>8, <1>10

LEMMA RequestKeeps ==
    ASSUME SnapshotAssumption, IInv, NEW q \in Requests, Request(q)
    PROVE  InOrder' /\ Located' /\ FeedIsOlder'
<1>1. /\ \A i \in DOMAIN wire : wire[i].ver \in Nat
      /\ \A i \in DOMAIN events : events[i].ver \in Nat
      /\ now \in Nat /\ sent \in [Parts -> SUBSET (1..MaxVersion)]
      /\ MaxVersion \in Nat /\ snap \in [Fields -> 0..MaxVersion]
  BY InFlightTypes DEF IInv, TypeOK, SnapshotAssumption
<1>2. UNCHANGED <<wire, events, sent, dropped>> /\ now' \in Nat /\ now <= now'
  <2>1. CASE RestAnswers(q)
    BY <1>1, <2>1 DEF RestAnswers
  <2>2. CASE RestStores(q)
    BY <1>1, <2>2 DEF RestStores
  <2>3. CASE FindsNothing(q) \/ DatabaseAnswers(q) \/ DatabaseEmpty(q) \/ RestFails(q)
    BY <1>1, <2>3 DEF FindsNothing, DatabaseAnswers, DatabaseEmpty, RestFails, market
  <2>4. QED BY <2>1, <2>2, <2>3 DEF Request
\* Only RestStores touches the hash, and it owns up to it.
<1>3. \A f \in Fields : f \in byRest' \/ (snap'[f] = snap[f] /\ f \notin byRest)
  <2>1. CASE RestStores(q)
    BY <2>1, RestStoresEffect DEF IInv
  <2>2. CASE ~RestStores(q)
    BY <2>2 DEF Request, RestAnswers, FindsNothing, DatabaseAnswers, DatabaseEmpty,
                RestFails, market
  <2>3. QED BY <2>1, <2>2
<1>4. InOrder'
  BY <1>1, <1>2 DEF IInv, InOrder
<1>5. \A v \in Nat : Passed(v) => Passed(v)'
  BY <1>1, <1>2 DEF Passed
<1>6. FeedIsOlder'
  BY <1>1, <1>3, <1>5 DEF IInv, FeedIsOlder
<1>7. ASSUME NEW f \in Parts, Readable(f), NEW v \in sent'[f]
      PROVE  \/ OnWire(f, v)' \/ InEvents(f, v)' \/ v \in dropped'
             \/ Passed(v)' /\ (snap'[f] >= v \/ f \in byRest')
  <2>1. v \in sent[f] /\ v \in Nat /\ f \in Fields
    BY <1>1, <1>2 DEF Fields
  <2>2. (OnWire(f, v) => OnWire(f, v)') /\ (InEvents(f, v) => InEvents(f, v)')
    BY <1>2 DEF OnWire, InEvents
  <2>3. ASSUME Passed(v), snap[f] >= v \/ f \in byRest
        PROVE  Passed(v)' /\ (snap'[f] >= v \/ f \in byRest')
    BY <1>3, <1>5, <2>1, <2>3
  <2>4. QED BY <1>2, <1>7, <2>1, <2>2, <2>3 DEF IInv, Located
<1>8. Located'
  BY <1>7 DEF Located, Readable
<1>9. QED BY <1>4, <1>6, <1>8

LEMMA InductiveInit == ASSUME SnapshotAssumption, Init PROVE IInv
<1>1. DOMAIN wire = {} /\ DOMAIN events = {} /\ now = 0 /\ snap = [f \in Fields |-> 0]
      /\ \A f \in Parts : sent[f] = {}
  BY DEF Init
<1>2. QED BY <1>1, InitType DEF IInv, InOrder, Located, FeedIsOlder, Passed

LEMMA InductiveStep == ASSUME SnapshotAssumption, IInv, [Next]_vars PROVE IInv'
<1>1. TypeOK'
  BY StepType DEF IInv
<1>2. ASSUME NEW m \in Messages, Send(m) PROVE InOrder' /\ Located' /\ FeedIsOlder'
  BY <1>2, SendKeeps
<1>3. ASSUME NEW q \in Requests, Request(q) PROVE InOrder' /\ Located' /\ FeedIsOlder'
  BY <1>3, RequestKeeps
<1>4. ASSUME Receive PROVE InOrder' /\ Located' /\ FeedIsOlder'
  BY <1>4, ReceiveKeeps
<1>5. ASSUME Store PROVE InOrder' /\ Located' /\ FeedIsOlder'
  BY <1>5, StoreKeeps
<1>6. ASSUME ConnectionLost \/ CollectorEnds PROVE InOrder' /\ Located' /\ FeedIsOlder'
  BY <1>6, LossKeeps
<1>7. ASSUME UNCHANGED vars PROVE InOrder' /\ Located' /\ FeedIsOlder'
  BY <1>7 DEF vars, IInv, InOrder, Located, FeedIsOlder, OnWire, InEvents, Passed, Readable
<1>8. InOrder' /\ Located' /\ FeedIsOlder'
  BY <1>2, <1>3, <1>4, <1>5, <1>6, <1>7 DEF Next
<1>9. QED BY <1>1, <1>8 DEF IInv

-----------------------------------------------------------------------------
(* The theorems.                                                           *)

\* Every variable keeps its type, whatever the feed sends.
THEOREM TypeCorrect == Spec => []TypeOK
<1>1. Init => IInv
  BY InductiveInit, SnapshotAssumption
<1>2. IInv /\ [Next]_vars => IInv'
  BY InductiveStep, SnapshotAssumption
<1>3. IInv => TypeOK
  BY DEF IInv
<1>4. QED BY <1>1, <1>2, <1>3, PTL DEF Spec

\* No branch of the parser, no order of updates and no lost connection makes
\* a value disappear that was not on the lost connection: each is in flight,
\* dropped with its message, in the hash or replaced there by a newer one, or
\* a REST answer was put over it (delta_ws.py:155-440).
THEOREM ValuesAccounted == Spec => []EveryValueAccounted
<1>1. Init => IInv
  BY InductiveInit, SnapshotAssumption
<1>2. IInv /\ [Next]_vars => IInv'
  BY InductiveStep, SnapshotAssumption
<1>3. ASSUME IInv PROVE EveryValueAccounted
  <2>1. SUFFICES ASSUME NEW f \in Parts, NEW v \in sent[f], Readable(f)
                 PROVE  v \in InFlight \cup dropped \/ snap[f] >= v \/ f \in byRest
    BY DEF EveryValueAccounted
  <2>2. OnWire(f, v) => v \in InFlight
    BY DEF OnWire, InFlight, Versions
  <2>3. InEvents(f, v) => v \in InFlight
    BY DEF InEvents, InFlight, Versions
  <2>4. QED BY <1>3, <2>1, <2>2, <2>3 DEF IInv, Located
<1>4. QED BY <1>1, <1>2, <1>3, PTL DEF Spec

\* The feed alone never takes a field back in time: where a step does, the
\* value replaced, or the value put there, is a REST answer's
\* (market.py:23-72).
THEOREM FeedNeverGoesBack == Spec => OnlyRestGoesBack
<1>1. Init => IInv
  BY InductiveInit, SnapshotAssumption
<1>2. IInv /\ [Next]_vars => IInv'
  BY InductiveStep, SnapshotAssumption
<1>3. ASSUME IInv, [Next]_vars
      PROVE  [\A f \in Fields : snap'[f] < snap[f] => f \in byRest \cup byRest']_vars
  <2>1. snap \in [Fields -> 0..MaxVersion] /\ MaxVersion \in Nat
    BY <1>3, SnapshotAssumption DEF IInv, TypeOK, SnapshotAssumption
  <2>2. ASSUME NEW f \in Fields, snap' = snap
        PROVE  ~(snap'[f] < snap[f])
    BY <2>1, <2>2
  <2>3. ASSUME NEW f \in Fields, events # <<>>, StoresHead, snap'[f] < snap[f]
        PROVE  f \in byRest
    <3>1. /\ 1 \in DOMAIN events /\ events[1].ver \in Nat
          /\ \A g \in events[1].fields : snap'[g] = events[1].ver
          /\ \A g \in Fields \ events[1].fields : snap'[g] = snap[g]
      BY <1>3, <2>3, StoresHeadEffect, InFlightTypes DEF IInv
    <3>2. f \notin byRest => snap[f] <= events[1].ver
      BY <1>3, <3>1 DEF IInv, FeedIsOlder, Passed
    <3>3. QED BY <2>1, <2>3, <3>1, <3>2
  <2>4. ASSUME NEW q \in Requests, RestStores(q), NEW f \in Fields, snap'[f] < snap[f]
        PROVE  f \in byRest'
    BY <1>3, <2>1, <2>4, RestStoresEffect DEF IInv
  <2>5. \/ snap' = snap
        \/ events # <<>> /\ StoresHead
        \/ \E q \in Requests : RestStores(q)
    BY <1>3 DEF Next, vars, Send, Receive, Store, StoresHead, ConnectionLost, CollectorEnds,
                Request, FindsNothing, DatabaseAnswers, DatabaseEmpty, RestAnswers, RestFails,
                market
  <2>6. QED BY <2>2, <2>3, <2>4, <2>5
<1>4. QED BY <1>1, <1>2, <1>3, PTL DEF Spec, OnlyRestGoesBack
=============================================================================
