------------------------- MODULE RelayPipelineProofs -------------------------
(* Proofs about RelayPipeline, for any messages, timestamps and capacities,  *)
(* any tolerance, and any duplicate cache that outlives twice the tolerance  *)
(* and the time a message may wait.  First the filter registry, a part of it. *)
EXTENDS RelayPipeline, TLAPS

(* The provers of the leaves that name none. An attempt with SMT ends when the
   translation takes five seconds, whatever its limit: on a busy machine a leaf
   needs a later attempt. *)
USE SMTT(15), Zenon, SMTT(30), ZenonT(30), SMTT(40), SMTT(50),
    ZenonT(60), SMTT(60), SMTT(70), SMTT(80), SMTT(90)

(* Nobody is pushed anything. *)
LEMMA NoPushTyped == NoPush \in [Client -> Seq(Msg)]
<1>1. <<>> \in Seq(Msg)
  OBVIOUS
<1>2. QED
  BY <1>1, ZenonT(60) DEF NoPush

(* The counts stay counts under every request and every push. *)
LEMMA FilterTypePreserved ==
  ASSUME FilterTypeOK, FilterNext \/ UNCHANGED filterVars
  PROVE  FilterTypeOK'
<1> USE FilterAssumption DEF FilterTypeOK
<1>1. CASE FilterRequest
  <2>1. CASE FilterNoop
    BY <2>1 DEF FilterNoop, filterVars, Request
  <2>2. ASSUME NEW p \in Client, NEW f \in Filter, Subscribe(p, f) \/ Unsubscribe(p, f)
        PROVE  FilterTypeOK'
    <3>0. pushes' \in [Client -> Seq(Msg)]
      BY <2>2, NoPushTyped, ZenonT(60) DEF Subscribe, Unsubscribe, Ack
    <3>1. acked' \in Request
      BY <2>2 DEF Subscribe, Unsubscribe, Ack, Request
    <3>2. filters' \in [Client -> [Filter -> 0..MaxSubs]]
      <4>1. CASE Subscribe(p, f)
        <5>1. filters[p][f] + 1 \in 0..MaxSubs
          BY <4>1 DEF Subscribe
        <5>2. QED
          BY <4>1, <5>1 DEF Subscribe
      <4>2. CASE Unsubscribe(p, f)
        BY <4>2 DEF Unsubscribe
      <4>3. QED
        BY <2>2, <4>1, <4>2
    <3>3. QED
      BY <3>0, <3>1, <3>2, ZenonT(60)
  <2>3. ASSUME NEW p \in Client, UnsubscribeAll(p)
        PROVE  FilterTypeOK'
    <3>0. pushes' \in [Client -> Seq(Msg)]
      BY <2>3, NoPushTyped, ZenonT(60) DEF UnsubscribeAll, Ack
    <3>1. acked' \in Request
      BY <2>3 DEF UnsubscribeAll, Ack, Request
    <3>2. filters' \in [Client -> [Filter -> 0..MaxSubs]]
      BY <2>3 DEF UnsubscribeAll
    <3>3. QED
      BY <3>0, <3>1, <3>2, ZenonT(60)
  <2>4. QED
    BY <1>1, <2>1, <2>2, <2>3 DEF FilterRequest
<1>2. ASSUME NEW m \in Msg, PushFilterMatches(m)
      PROVE  FilterTypeOK'
  <2>1. <<m>> \in Seq(Msg) /\ <<>> \in Seq(Msg)
    OBVIOUS
  <2>2. pushes' \in [Client -> Seq(Msg)]
    BY <1>2, <2>1, ZenonT(60) DEF PushFilterMatches
  <2>3. QED
    BY <1>2, <2>2 DEF PushFilterMatches, Request
<1>3. CASE UNCHANGED filterVars
  BY <1>3 DEF filterVars, Request
<1>4. QED
  BY <1>1, <1>2, <1>3 DEF FilterNext

(* A step of the registry is a step of the abstract service: a filter that is
   installed again is not wanted twice, and retain removes all its copies. *)
LEMMA StepRefines ==
  ASSUME FilterTypeOK, FilterNext \/ UNCHANGED filterVars
  PROVE  Abstract!Next \/ UNCHANGED <<Wants, acked, pushes>>
<1> USE FilterAssumption DEF FilterTypeOK
<1>1. ASSUME NEW p \in Client, NEW f \in Filter, Subscribe(p, f)
      PROVE  Abstract!Install(p, f)
  <2>1. \A q \in Client : Wants'[q] = IF q = p THEN Wants[p] \cup {f} ELSE Wants[q]
    BY <1>1 DEF Subscribe, Wants
  <2>2. QED
    BY ZenonT(60), <1>1, <2>1 DEF Subscribe, Ack, Wants, NoPush, Abstract!NoPush, Abstract!Install
<1>2. ASSUME NEW p \in Client, NEW f \in Filter, Unsubscribe(p, f)
      PROVE  Abstract!Remove(p, f)
  <2>1. \A q \in Client : Wants'[q] = IF q = p THEN Wants[p] \ {f} ELSE Wants[q]
    BY <1>2 DEF Unsubscribe, Wants
  <2>2. QED
    BY ZenonT(60), <1>2, <2>1 DEF Unsubscribe, Ack, Wants, NoPush, Abstract!NoPush, Abstract!Remove
<1>3. ASSUME NEW p \in Client, UnsubscribeAll(p)
      PROVE  Abstract!RemoveAll(p)
  <2>1. \A q \in Client : Wants'[q] = IF q = p THEN {} ELSE Wants[q]
    BY <1>3 DEF UnsubscribeAll, Wants
  <2>2. QED
    BY ZenonT(60), <1>3, <2>1 DEF UnsubscribeAll, Ack, Wants, NoPush, Abstract!NoPush, Abstract!RemoveAll
<1>4. ASSUME NEW m \in Msg, PushFilterMatches(m)
      PROVE  Abstract!Relay(m)
  <2>1. \A p \in Client : p \in Targets(m) <=> \E f \in Wants[p] : Matches(f, m)
    BY ZenonT(60) DEF Targets, Wants
  <2>2. pushes' = [p \in Client |-> IF \E f \in Wants[p] : Matches(f, m) THEN <<m>> ELSE <<>>]
    BY <1>4, <2>1, ZenonT(60) DEF PushFilterMatches
  <2>3. UNCHANGED Wants
    BY <1>4 DEF PushFilterMatches, Wants
  <2>4. QED
    BY <1>4, <2>2, <2>3, ZenonT(60) DEF PushFilterMatches, Abstract!Relay
<1>5. ASSUME UNCHANGED filterVars
      PROVE  UNCHANGED <<Wants, acked, pushes>>
  BY <1>5 DEF filterVars, Wants
<1>6. QED
  BY <1>1, <1>2, <1>3, <1>4, <1>5
  DEF FilterNext, FilterRequest, FilterNoop, Abstract!Next

(* Type correctness of the registry. *)
THEOREM FilterTypeCorrect == FilterSpecification => []FilterTypeOK
<1>1. FilterInit => FilterTypeOK
  BY FilterAssumption, NoPushTyped DEF FilterInit, FilterTypeOK, Request
<1>2. FilterTypeOK /\ [FilterNext]_filterVars => FilterTypeOK'
  BY FilterTypePreserved
<1>3. QED
  BY <1>1, <1>2, PTL DEF FilterSpecification

(* apply_filter_request and push_filter_matches implement the filter service
   of FilterSpec: a client has a set of filters and gets one push per message
   that one of them matches. *)
THEOREM RegistryRefinesFilter == FilterSpecification => ImplementsFilterSpec
<1>1. FilterInit => Abstract!Init
  BY FilterAssumption DEF FilterInit, NoPush, Wants, Abstract!NoPush, Abstract!Init
<1>2. FilterTypeOK /\ [FilterNext]_filterVars => [Abstract!Next]_<<Wants, acked, pushes>>
  BY StepRefines
<1>3. QED
  BY <1>1, <1>2, FilterTypeCorrect, PTL
  DEF FilterSpecification, ImplementsFilterSpec, Abstract!Spec
-----------------------------------------------------------------------------
(* The furthest a timestamp validate accepts is from the clock. *)
Window == (Tolerance + 1) * Second - 1

InQueue(m) == \E i \in DOMAIN queue : queue[i] = m

(* An accepted timestamp was in the window. *)
NearWhenTaken ==
  \A m \in Msg : Stamp[m] # NoStamp /\ taken[m] >= 0
                   => taken[m] - Stamp[m] \in -Window..Window

(* Queued messages are different and recent; no message is from the future. *)
QueueIsRecent ==
  /\ \A m \in Msg : cache[m] <= now
  /\ \A i \in DOMAIN queue : cache[queue[i]] >= 0 /\ now <= cache[queue[i]] + MaxLag
  /\ \A i, j \in DOMAIN queue : queue[i] = queue[j] => i = j

(* A message is remembered from shortly before it was accepted, or has come
   again since, later than the window allows. *)
TakenIsRemembered ==
  \A m \in Msg : taken[m] >= 0 =>
    /\ cache[m] >= 0 /\ cache[m] >= taken[m] - MaxLag
    /\ InQueue(m) => cache[m] > taken[m] + 2 * Window

(* The same for a message the node published itself. *)
NearWhenPosted ==
  \A m \in Msg : Stamp[m] # NoStamp /\ posted[m] >= 0
                   => posted[m] - Stamp[m] \in -Window..Window

PostedIsRemembered ==
  \A m \in Msg : posted[m] >= 0 =>
    /\ cache[m] >= posted[m]
    /\ InQueue(m) => cache[m] > posted[m] + 2 * Window

(* A stamped message is counted only once it is taken, and not while its event
   is being sent. *)
CountedOnce ==
  \A m \in Msg : Stamp[m] # NoStamp =>
    /\ surfaced[m] <= 1
    /\ surfaced[m] = 1 \/ handling = <<m>> => taken[m] >= 0
    /\ handling = <<m>> => surfaced[m] = 0

IInv ==
  /\ TypeOK
  /\ NearWhenTaken /\ QueueIsRecent /\ TakenIsRemembered /\ CountedOnce
  /\ NearWhenPosted /\ PostedIsRemembered /\ OwnNotEchoed
  /\ ForwardedIsSurfaced

(* A quotient of at most t leaves less than t + 1 divisors. *)
LEMMA QuotientBound ==
  ASSUME NEW a \in Nat, NEW b \in Nat \ {0}, NEW t \in Nat, a \div b <= t
  PROVE  a <= (t + 1) * b - 1
<1>1. a \div b \in Nat /\ a % b \in 0..(b - 1) /\ a = b * (a \div b) + (a % b)
  OBVIOUS
<1>2. b * (a \div b) <= b * t
  BY <1>1
<1>3. (t + 1) * b = b * t + b
  OBVIOUS
<1>4. b * t \in Nat
  OBVIOUS
<1>5. QED
  BY <1>1, <1>2, <1>3, <1>4

(* validate accepts a timestamp only in the window: the subtraction wraps for
   timestamps so old that the wrapped gap is out of tolerance too. *)
LEMMA ValidInWindow ==
  ASSUME TypeOK, NEW m \in Msg, Stamp[m] # NoStamp, Validate(m)
  PROVE  now - Stamp[m] \in -Window..Window
<1> DEFINE d == now - Stamp[m]
           w == Wrap(d)
<1>1. now \in 0..MaxNow /\ Stamp[m] \in -Half..(Half - 1)
  BY RelayAssumption DEF TypeOK
<1>2. Window \in Nat /\ MaxNow + Window + 1 < Half /\ Second \in Nat \ {0} /\ Tolerance \in Nat
      /\ Half \in Nat /\ MaxNow \in Nat
  <2>1. (Tolerance + 1) * Second \in Nat \ {0}
    BY RelayAssumption
  <2>2. QED
    BY <2>1, RelayAssumption DEF Window
<1>3. w \in Int
  BY <1>1, <1>2 DEF Wrap
<1>4. Abs(TruncDiv(w, Second)) <= Tolerance
  BY DEF Validate, TimestampGapSecs
<1>5. w <= Window /\ -w <= Window
  <2>1. CASE w >= 0
    <3>1. w \in Nat /\ w \div Second \in Nat
      BY <1>2, <1>3, <2>1
    <3>2. w \div Second <= Tolerance
      BY <1>3, <1>4, <2>1, <3>1 DEF Abs, TruncDiv
    <3>3. QED
      BY <1>2, <3>1, <3>2, QuotientBound DEF Window
  <2>2. CASE w < 0
    <3>1. -w \in Nat /\ (-w) \div Second \in Nat
      BY <1>2, <1>3, <2>2
    <3>2. (-w) \div Second <= Tolerance
      BY <1>3, <1>4, <2>2, <3>1 DEF Abs, TruncDiv
    <3>3. -w <= Window
      BY <1>2, <3>1, <3>2, QuotientBound DEF Window
    <3>4. QED
      BY <1>2, <1>3, <2>2, <3>3
  <2>3. QED
    BY <1>3, <2>1, <2>2
<1>6. QED
  BY <1>1, <1>2, <1>3, <1>5 DEF Wrap

(* The lengths of time the argument compares. *)
LEMMA Times ==
  /\ Window \in Nat /\ MaxLag \in Nat /\ CacheTime \in Nat /\ MaxNow \in Nat
  /\ CacheTime > 2 * Window + MaxLag
<1>1. (Tolerance + 1) * Second \in Nat \ {0}
  BY RelayAssumption
<1>2. QED
  BY <1>1, RelayAssumption DEF Window

(* A sequence after Append. *)
LEMMA AppendIs ==
  ASSUME NEW S, NEW s \in Seq(S), NEW e \in S
  PROVE  /\ DOMAIN Append(s, e) = DOMAIN s \cup {Len(s) + 1}
         /\ \A i \in DOMAIN s : Append(s, e)[i] = s[i] /\ i # Len(s) + 1
         /\ Append(s, e)[Len(s) + 1] = e
OBVIOUS

(* A sequence after Tail. *)
LEMMA TailIs ==
  ASSUME NEW S, NEW s \in Seq(S), s # <<>>
  PROVE  Tail(s) \in Seq(S) /\ Len(Tail(s)) = Len(s) - 1
OBVIOUS

(* A count up to two. *)
LEMMA Counted == \A k \in 0..2 : (IF k = 2 THEN 2 ELSE k + 1) \in 0..2
OBVIOUS

(* Type correctness of every step. *)
LEMMA TypePreserved == TypeOK /\ [Next]_vars => TypeOK'
<1> SUFFICES ASSUME TypeOK, [Next]_vars PROVE TypeOK'
  OBVIOUS
<1> USE RelayAssumption DEF TypeOK, driverVars, appVars, storeVars, vars
<1>1. FilterTypeOK'
  <2>1. FilterNext \/ UNCHANGED filterVars
    BY ZenonT(60) DEF Next, Tick, Gossip, Publish, Accept, Reject, Sent, ConsumerGone, Shutdown, Exit,
           HandleFilterRequest, PutDone, PutFails, Receive, DropConsumer, FilterNext
  <2>2. QED
    BY <2>1, FilterTypePreserved
<1>2. CASE Tick
  BY <1>1, <1>2 DEF Tick
<1>3. ASSUME NEW m \in Msg, Gossip(m) PROVE TypeOK'
  <2>1. queue' \in Seq(Msg) /\ Len(queue') <= QueueCap
    BY <1>3 DEF Gossip
  <2>2. cache' \in [Msg -> -1..MaxNow]
    BY <1>3 DEF Gossip
  <2>3. UNCHANGED <<now, taken, posted, handling, run, reported, events, consumer, surfaced,
                    puts, stored>>
    BY <1>3 DEF Gossip
  <2>4. QED
    BY ZenonT(60), <1>1, <2>1, <2>2, <2>3
<1>4. ASSUME NEW m \in Msg, Accept(m) PROVE TypeOK'
  <2>1. queue' \in Seq(Msg) /\ Len(queue') <= QueueCap
    BY <1>4, TailIs DEF Accept
  <2>2. taken' \in [Msg -> -1..MaxNow] /\ puts' \in SUBSET Msg /\ handling' = <<m>>
    BY <1>4 DEF Accept, Persisted
  <2>3. UNCHANGED <<now, cache, posted, run, reported, events, consumer, surfaced, stored>>
    BY <1>4 DEF Accept
  <2>4. QED
    BY ZenonT(60), <1>1, <2>1, <2>2, <2>3
<1>5. ASSUME NEW m \in Msg, Reject(m) PROVE TypeOK'
  <2>1. queue' \in Seq(Msg) /\ Len(queue') <= QueueCap
    BY <1>5, TailIs DEF Reject
  <2>2. reported' \in SUBSET (Msg \X {"Accept", "Reject"})
    BY <1>5 DEF Reject
  <2>3. UNCHANGED <<now, cache, taken, posted, handling, run, events, consumer, surfaced,
                    puts, stored>>
    BY <1>5 DEF Reject
  <2>4. QED
    BY ZenonT(60), <1>1, <2>1, <2>2, <2>3
<1>6. CASE Sent
  <2>1. PICK m \in Msg : handling = <<m>>
    BY <1>6 DEF Sent
  <2>2. Head(handling) = m
    BY <2>1
  <2>3. events' \in Seq(Msg) /\ Len(events') <= EvtCap
    BY <1>6, <2>2 DEF Sent
  <2>4. surfaced' \in [Msg -> 0..2]
    <3>1. surfaced' = [surfaced EXCEPT ![m] = IF @ = 2 THEN 2 ELSE @ + 1]
      BY <1>6, <2>2, ZenonT(60) DEF Sent
    <3>2. surfaced \in [Msg -> 0..2]
      OBVIOUS
    <3>3. (IF surfaced[m] = 2 THEN 2 ELSE surfaced[m] + 1) \in 0..2
      BY <3>2, Counted, ZenonT(60)
    <3>4. QED
      BY <3>1, <3>2, <3>3, ZenonT(60)
  <2>5. reported' \in SUBSET (Msg \X {"Accept", "Reject"})
    BY <1>6, <2>2 DEF Sent
  <2>6. QED
    BY ZenonT(60), <1>1, <1>6, <2>3, <2>4, <2>5 DEF Sent
<1>7. CASE ConsumerGone \/ Shutdown \/ Exit
  BY <1>1, <1>7 DEF ConsumerGone, Shutdown, Exit
<1>8. CASE HandleFilterRequest
  BY <1>1, <1>8 DEF HandleFilterRequest
<1>9. ASSUME NEW m \in Msg, PutDone(m) \/ PutFails(m) PROVE TypeOK'
  BY ZenonT(60), <1>1, <1>9 DEF PutDone, PutFails
<1>10. CASE Receive \/ DropConsumer
  <2>1. consumer' \in BOOLEAN
    BY <1>10, ZenonT(60) DEF Receive, DropConsumer
  <2>2. events' \in Seq(Msg) /\ Len(events') <= EvtCap
    <3>1. CASE Receive
      BY <3>1 DEF Receive
    <3>2. CASE DropConsumer
      <4>1. events' = <<>>
        BY <3>2, ZenonT(60) DEF DropConsumer
      <4>2. QED
        BY <4>1
    <3>3. QED
      BY <1>10, <3>1, <3>2
  <2>3. QED
    BY ZenonT(60), <1>1, <1>10, <2>1, <2>2 DEF Receive, DropConsumer
<1>11. CASE UNCHANGED vars
  BY <1>1, <1>11
<1>12. ASSUME NEW m \in Own, Publish(m) PROVE TypeOK'
  BY <1>1, <1>12 DEF Publish
<1>13. QED
  BY ZenonT(60), <1>2, <1>3, <1>4, <1>5, <1>6, <1>7, <1>8, <1>9, <1>10, <1>11, <1>12 DEF Next

(* The steps that touch neither the clock, gossipsub nor the verdicts. *)
QuietStep ==
  \/ ConsumerGone \/ Shutdown \/ Exit \/ HandleFilterRequest \/ Receive \/ DropConsumer
  \/ \E m \in Msg : PutDone(m) \/ PutFails(m)
  \/ UNCHANGED vars

(* A stamped message is not accepted twice: what it takes to be queued again
   puts the clock past its window. *)
LEMMA AcceptedAnew ==
  ASSUME IInv, NEW m \in Msg, Accept(m), Stamp[m] # NoStamp
  PROVE  taken[m] = -1
<1> SUFFICES ASSUME taken[m] # -1 PROVE FALSE
  OBVIOUS
<1>1. taken[m] \in 0..MaxNow /\ cache[m] \in -1..MaxNow /\ now \in 0..MaxNow
  BY Times DEF IInv, TypeOK
<1>2. 1 \in DOMAIN queue /\ queue[1] = m
  BY DEF Accept, IInv, TypeOK
<1>3. cache[m] > taken[m] + 2 * Window
  BY <1>1, <1>2 DEF IInv, TakenIsRemembered, InQueue
<1>4. now >= cache[m]
  BY DEF IInv, QueueIsRecent
<1>5. now - Stamp[m] \in -Window..Window
  BY ValidInWindow DEF Accept, Accepts, IInv
<1>6. taken[m] - Stamp[m] \in -Window..Window
  BY <1>1 DEF IInv, NearWhenTaken
<1>7. Stamp[m] \in Int
  BY RelayAssumption
<1>8. QED
  BY <1>1, <1>3, <1>4, <1>5, <1>6, <1>7, Times

(* Nor is a stamped message accepted after the node published it. *)
LEMMA PostedNotAccepted ==
  ASSUME IInv, NEW m \in Msg, Accept(m), Stamp[m] # NoStamp
  PROVE  posted[m] = -1
<1> SUFFICES ASSUME posted[m] # -1 PROVE FALSE
  OBVIOUS
<1>1. posted[m] \in 0..MaxNow /\ cache[m] \in -1..MaxNow /\ now \in 0..MaxNow
  BY Times DEF IInv, TypeOK
<1>2. 1 \in DOMAIN queue /\ queue[1] = m
  BY DEF Accept, IInv, TypeOK
<1>3. cache[m] > posted[m] + 2 * Window
  BY <1>1, <1>2 DEF IInv, PostedIsRemembered, InQueue
<1>4. now >= cache[m]
  BY DEF IInv, QueueIsRecent
<1>5. now - Stamp[m] \in -Window..Window
  BY ValidInWindow DEF Accept, Accepts, IInv
<1>6. posted[m] - Stamp[m] \in -Window..Window
  BY <1>1 DEF IInv, NearWhenPosted
<1>7. Stamp[m] \in Int
  BY RelayAssumption
<1>8. QED
  BY <1>1, <1>3, <1>4, <1>5, <1>6, <1>7, Times

(* gossipsub's queue and memory, and the times of acceptance. *)
LEMMA TimePreserved ==
  ASSUME IInv, [Next]_vars
  PROVE  (NearWhenTaken /\ QueueIsRecent /\ TakenIsRemembered)'
<1> USE Times DEF driverVars
<1>0. TypeOK
  BY DEF IInv
<1>i. NearWhenTaken /\ QueueIsRecent /\ TakenIsRemembered
  BY DEF IInv
<1>1. CASE Tick
  <2>1. now' = now + 1 /\ UNCHANGED <<cache, taken, queue>> /\ now \in 0..MaxNow
    BY <1>0, <1>1 DEF Tick, TypeOK
  <2>2. NearWhenTaken'
    BY <2>1, <1>i DEF NearWhenTaken
  <2>3. QueueIsRecent'
    <3>1. \A i \in DOMAIN queue : queue[i] \in Msg /\ now < cache[queue[i]] + MaxLag
      BY <1>0, <1>1 DEF Tick, TypeOK
    <3>2. cache \in [Msg -> -1..MaxNow]
      BY <1>0 DEF TypeOK
    <3>3. QED
      BY <2>1, <3>1, <3>2, <1>i DEF QueueIsRecent
  <2>4. TakenIsRemembered'
    BY <2>1, <1>i DEF TakenIsRemembered, InQueue
  <2>5. QED
    BY <2>2, <2>3, <2>4
<1>2. ASSUME NEW m \in Msg, Gossip(m)
      PROVE  (NearWhenTaken /\ QueueIsRecent /\ TakenIsRemembered)'
  <2>1. /\ now \in 0..MaxNow /\ cache \in [Msg -> -1..MaxNow] /\ taken \in [Msg -> -1..MaxNow]
        /\ queue \in Seq(Msg)
        /\ cache[m] = -1 \/ now - cache[m] >= CacheTime
        /\ cache' = [cache EXCEPT ![m] = now] /\ queue' = Append(queue, m)
        /\ UNCHANGED <<now, taken>>
    BY <1>0, <1>2 DEF TypeOK, Gossip
  <2>2. \A i \in DOMAIN queue : queue[i] # m
    BY <2>1, <1>i DEF QueueIsRecent
  <2>3. /\ DOMAIN queue' = DOMAIN queue \cup {Len(queue) + 1}
        /\ \A i \in DOMAIN queue : queue'[i] = queue[i] /\ i # Len(queue) + 1
        /\ queue'[Len(queue) + 1] = m
    <3>1. queue \in Seq(Msg) /\ queue' = Append(queue, m)
      BY <2>1
    <3>2. QED
      BY <3>1, AppendIs
  <2>4. NearWhenTaken'
    BY <2>1, <1>i DEF NearWhenTaken
  <2>5. QueueIsRecent'
    <3>1. \A n \in Msg : cache'[n] <= now'
      BY <2>1, <1>i DEF QueueIsRecent
    <3>2. \A i \in DOMAIN queue' : cache'[queue'[i]] >= 0 /\ now' <= cache'[queue'[i]] + MaxLag
      BY <2>1, <2>2, <2>3, <1>i DEF QueueIsRecent
    <3>3. \A i, j \in DOMAIN queue' : queue'[i] = queue'[j] => i = j
      BY <2>2, <2>3, <1>i DEF QueueIsRecent
    <3>4. QED
      BY <3>1, <3>2, <3>3 DEF QueueIsRecent
  <2>6. TakenIsRemembered'
    <3> SUFFICES ASSUME NEW n \in Msg, taken'[n] >= 0
                 PROVE  /\ cache'[n] >= 0 /\ cache'[n] >= taken'[n] - MaxLag
                        /\ InQueue(n)' => cache'[n] > taken'[n] + 2 * Window
      BY DEF TakenIsRemembered
    <3>1. taken[n] >= 0 /\ cache[n] >= 0 /\ cache[n] >= taken[n] - MaxLag
          /\ (InQueue(n) => cache[n] > taken[n] + 2 * Window)
      BY <2>1, <1>i DEF TakenIsRemembered
    <3>2. CASE n = m
      <4>1. now - cache[m] >= CacheTime /\ cache'[n] = now /\ taken'[n] = taken[n]
        BY <2>1, <3>1, <3>2
      <4>2. QED
        BY <2>1, <3>1, <3>2, <4>1
    <3>3. CASE n # m
      BY ZenonT(60), <2>1, <2>3, <3>1, <3>3 DEF InQueue
    <3>4. QED
      BY <3>2, <3>3
  <2>7. QED
    BY <2>4, <2>5, <2>6
<1>3. ASSUME NEW m \in Msg, Accept(m) \/ Reject(m)
      PROVE  (NearWhenTaken /\ QueueIsRecent /\ TakenIsRemembered)'
  <2>1. /\ now \in 0..MaxNow /\ cache \in [Msg -> -1..MaxNow] /\ taken \in [Msg -> -1..MaxNow]
        /\ queue \in Seq(Msg) /\ queue # <<>> /\ m = queue[1] /\ queue' = Tail(queue)
        /\ UNCHANGED <<now, cache>>
        /\ taken' = taken \/ (Accept(m) /\ taken' = [taken EXCEPT ![m] = now])
    <3>1. CASE Accept(m)
      BY <1>0, <3>1 DEF TypeOK, Accept
    <3>2. CASE Reject(m)
      BY <1>0, <3>2 DEF TypeOK, Reject
    <3>3. QED
      BY <1>3, <3>1, <3>2
  <2>2. /\ 1 \in DOMAIN queue
        /\ \A i \in DOMAIN queue' : i + 1 \in DOMAIN queue /\ queue'[i] = queue[i + 1] /\ i + 1 # 1
                                    /\ i \in Nat
    BY <2>1
  <2>3. ~InQueue(m)'
    BY <2>1, <2>2, <1>i DEF QueueIsRecent, InQueue
  <2>4. NearWhenTaken'
    <3>1. Accept(m) /\ Stamp[m] # NoStamp => now - Stamp[m] \in -Window..Window
      BY <1>0, ValidInWindow DEF Accept, Accepts
    <3>2. QED
      BY ZenonT(60), <2>1, <3>1, <1>i DEF NearWhenTaken
  <2>5. QueueIsRecent'
    <3>1. \A i, j \in DOMAIN queue' : queue'[i] = queue'[j] => i = j
      BY <2>2, <1>i DEF QueueIsRecent
    <3>2. QED
      BY <2>1, <2>2, <3>1, <1>i DEF QueueIsRecent
  <2>6. TakenIsRemembered'
    <3>1. now <= cache[m] + MaxLag
      BY <2>1, <2>2, <1>i DEF QueueIsRecent
    <3>2. \A n \in Msg : InQueue(n)' => InQueue(n)
      BY <2>2 DEF InQueue
    <3>3. cache[m] >= 0 /\ now \in Int /\ cache[m] \in Int
      BY <2>1, <2>2, <1>i DEF QueueIsRecent
    <3>4. \A n \in Msg \ {m} : taken'[n] = taken[n]
      BY <2>1
    <3>5. taken'[m] = taken[m] \/ taken'[m] = now
      BY <2>1
    <3> SUFFICES ASSUME NEW n \in Msg, taken'[n] >= 0
                 PROVE  /\ cache'[n] >= 0 /\ cache'[n] >= taken'[n] - MaxLag
                        /\ InQueue(n)' => cache'[n] > taken'[n] + 2 * Window
      BY DEF TakenIsRemembered
    <3>6. CASE taken'[n] = taken[n]
      BY <2>1, <3>2, <3>6, <1>i DEF TakenIsRemembered
    <3>7. CASE n = m /\ taken'[n] = now
      BY <2>1, <2>3, <3>1, <3>3, <3>7
    <3>8. QED
      BY <3>4, <3>5, <3>6, <3>7
  <2>7. QED
    BY <2>4, <2>5, <2>6
<1>4. CASE Sent
  BY <1>4, <1>i DEF Sent, NearWhenTaken, QueueIsRecent, TakenIsRemembered, InQueue
<1>5. CASE QuietStep
  <2>1. UNCHANGED <<now, cache, taken, queue>>
    BY <1>5 DEF QuietStep, ConsumerGone, Shutdown, Exit, HandleFilterRequest, Receive,
                DropConsumer, PutDone, PutFails, vars
  <2>2. QED
    BY <2>1, <1>i DEF NearWhenTaken, QueueIsRecent, TakenIsRemembered, InQueue
<1>6. ASSUME NEW m \in Own, Publish(m)
      PROVE  (NearWhenTaken /\ QueueIsRecent /\ TakenIsRemembered)'
  <2>1. /\ now \in 0..MaxNow /\ cache \in [Msg -> -1..MaxNow] /\ taken \in [Msg -> -1..MaxNow]
        /\ queue \in Seq(Msg) /\ m \in Msg
        /\ cache[m] = -1 \/ now - cache[m] >= CacheTime
        /\ cache' = [cache EXCEPT ![m] = now]
        /\ UNCHANGED <<now, taken, queue>>
    BY <1>0, <1>6, RelayAssumption DEF TypeOK, Publish
  <2>2. \A i \in DOMAIN queue : queue[i] \in Msg /\ queue[i] # m
    BY <2>1, <1>i DEF QueueIsRecent
  <2>3. NearWhenTaken'
    BY <2>1, <1>i DEF NearWhenTaken
  <2>4. QueueIsRecent'
    BY <2>1, <2>2, <1>i DEF QueueIsRecent
  <2>5. TakenIsRemembered'
    BY <2>1, <2>2, <1>i DEF TakenIsRemembered, InQueue
  <2>6. QED
    BY <2>3, <2>4, <2>5
<1>7. QED
  BY <1>1, <1>2, <1>3, <1>4, <1>5, <1>6 DEF Next, QuietStep, vars

(* How often messages surfaced, and what gossipsub was told. *)
LEMMA CountPreserved ==
  ASSUME IInv, [Next]_vars
  PROVE  (CountedOnce /\ ForwardedIsSurfaced)'
<1> USE DEF driverVars, appVars
<1>i. CountedOnce /\ ForwardedIsSurfaced
  BY DEF IInv
<1>1. ASSUME NEW m \in Msg, Accept(m)
      PROVE  (CountedOnce /\ ForwardedIsSurfaced)'
  <2>1. /\ handling' = <<m>> /\ UNCHANGED <<surfaced, reported>>
        /\ taken' = [taken EXCEPT ![m] = now]
    BY <1>1 DEF Accept
  <2>2. /\ now \in Nat /\ taken \in [Msg -> -1..MaxNow] /\ surfaced \in [Msg -> 0..2]
        /\ MaxNow \in Nat
    BY Times DEF IInv, TypeOK
  <2>3. Stamp[m] # NoStamp => surfaced[m] = 0
    BY <1>1, <2>2, AcceptedAnew, <1>i DEF CountedOnce
  <2>4. QED
    BY <2>1, <2>2, <2>3, <1>i DEF CountedOnce, ForwardedIsSurfaced
<1>2. CASE Sent
  <2>1. PICK m \in Msg : handling = <<m>>
    BY <1>2 DEF Sent, IInv, TypeOK
  <2>2. Head(handling) = m
    BY <2>1
  <2>3. /\ surfaced' = [surfaced EXCEPT ![m] = IF @ = 2 THEN 2 ELSE @ + 1]
        /\ reported' = reported \cup {<<m, "Accept">>}
        /\ handling' = <<>> /\ taken' = taken
    BY <1>2, <2>2, ZenonT(60) DEF Sent
  <2>4. surfaced \in [Msg -> 0..2]
    BY DEF IInv, TypeOK
  <2>5. \A n \in Msg : n # m => surfaced'[n] = surfaced[n]
    BY <2>3, <2>4
  <2>6. surfaced'[m] = IF surfaced[m] = 2 THEN 2 ELSE surfaced[m] + 1
    BY <2>3, <2>4
  <2>7. surfaced'[m] > 0
    BY <2>4, <2>6
  <2>8. CountedOnce'
    BY <2>1, <2>3, <2>4, <2>5, <2>6, <1>i DEF CountedOnce
  <2>9. ForwardedIsSurfaced'
    BY ZenonT(60), <2>3, <2>5, <2>7, <1>i DEF ForwardedIsSurfaced
  <2>10. QED
    BY <2>8, <2>9
<1>3. ASSUME NEW m \in Msg, Reject(m)
      PROVE  (CountedOnce /\ ForwardedIsSurfaced)'
  BY <1>3, <1>i DEF Reject, CountedOnce, ForwardedIsSurfaced
<1>4. CASE \/ Tick \/ QuietStep \/ (\E m \in Msg : Gossip(m)) \/ \E m \in Own : Publish(m)
  <2>1. /\ UNCHANGED <<surfaced, reported, taken>>
        /\ handling' = handling \/ handling' = <<>>
    BY ZenonT(60), <1>4 DEF Tick, Gossip, Publish, QuietStep, ConsumerGone, Shutdown, Exit, HandleFilterRequest,
                Receive, DropConsumer, PutDone, PutFails, vars
  <2>2. QED
    BY <2>1, <1>i DEF CountedOnce, ForwardedIsSurfaced
<1>5. QED
  BY <1>1, <1>2, <1>3, <1>4 DEF Next, QuietStep, vars

(* What the node published, and that it does not come back. *)
LEMMA PostPreserved ==
  ASSUME IInv, [Next]_vars
  PROVE  (NearWhenPosted /\ PostedIsRemembered /\ OwnNotEchoed)'
<1> USE Times DEF driverVars
<1>0. TypeOK
  BY DEF IInv
<1>i. QueueIsRecent /\ NearWhenPosted /\ PostedIsRemembered /\ OwnNotEchoed
  BY DEF IInv
<1>1. ASSUME NEW m \in Own, Publish(m)
      PROVE  (NearWhenPosted /\ PostedIsRemembered /\ OwnNotEchoed)'
  <2>1. /\ now \in 0..MaxNow /\ cache \in [Msg -> -1..MaxNow] /\ posted \in [Msg -> -1..MaxNow]
        /\ queue \in Seq(Msg) /\ m \in Msg /\ handling = <<>>
        /\ cache[m] = -1 \/ now - cache[m] >= CacheTime
        /\ cache' = [cache EXCEPT ![m] = now]
        /\ UNCHANGED <<now, queue, handling>>
    BY <1>0, <1>1, RelayAssumption DEF TypeOK, Publish, Idle
  <2>2. \A i \in DOMAIN queue : queue[i] \in Msg /\ queue[i] # m
    BY <2>1, <1>i DEF QueueIsRecent
  <2>3. posted' = posted \/ (Validate(m) /\ posted' = [posted EXCEPT ![m] = now])
    <3>1. posted' = [posted EXCEPT ![m] = IF Validate(m) THEN now ELSE posted[m]]
      BY <1>1, ZenonT(60) DEF Publish
    <3>2. CASE Validate(m)
      BY <3>1, <3>2, ZenonT(60)
    <3>3. CASE ~Validate(m)
      <4>1. posted' = [posted EXCEPT ![m] = posted[m]]
        BY <3>1, <3>3, ZenonT(60)
      <4>2. QED
        BY <2>1, <4>1
    <3>4. QED
      BY <3>2, <3>3
  <2>4. NearWhenPosted'
    <3>1. Validate(m) /\ Stamp[m] # NoStamp => now - Stamp[m] \in -Window..Window
      BY <1>0, <2>1, ValidInWindow
    <3>2. QED
      BY ZenonT(60), <2>1, <2>3, <3>1, <1>i DEF NearWhenPosted
  <2>5. PostedIsRemembered'
    BY <2>1, <2>2, <2>3, <1>i DEF PostedIsRemembered, InQueue
  <2>6. OwnNotEchoed'
    BY <2>1 DEF OwnNotEchoed
  <2>7. QED
    BY <2>4, <2>5, <2>6
<1>2. ASSUME NEW m \in Msg, Gossip(m)
      PROVE  (NearWhenPosted /\ PostedIsRemembered /\ OwnNotEchoed)'
  <2>1. /\ now \in 0..MaxNow /\ cache \in [Msg -> -1..MaxNow] /\ posted \in [Msg -> -1..MaxNow]
        /\ queue \in Seq(Msg) /\ queue' = Append(queue, m) /\ handling' = handling
        /\ cache[m] = -1 \/ now - cache[m] >= CacheTime
        /\ cache' = [cache EXCEPT ![m] = now] /\ posted' = posted
    BY <1>0, <1>2 DEF TypeOK, Gossip
  <2>2. ASSUME NEW n \in Msg, InQueue(n)' PROVE n = m \/ InQueue(n)
    <3>1. PICK i \in DOMAIN Append(queue, m) : Append(queue, m)[i] = n
      BY <2>1, <2>2 DEF InQueue
    <3>2. (i \in DOMAIN queue /\ Append(queue, m)[i] = queue[i]) \/ Append(queue, m)[i] = m
      BY <2>1, AppendIs
    <3>3. QED
      BY <3>1, <3>2 DEF InQueue
  <2>3. PostedIsRemembered'
    BY <2>1, <2>2, <1>i DEF PostedIsRemembered
  <2>4. QED
    BY <2>1, <2>3, <1>i DEF NearWhenPosted, OwnNotEchoed
<1>3. ASSUME NEW m \in Msg, Accept(m) \/ Reject(m)
      PROVE  (NearWhenPosted /\ PostedIsRemembered /\ OwnNotEchoed)'
  <2>1. /\ queue \in Seq(Msg) /\ queue # <<>> /\ m = queue[1] /\ queue' = Tail(queue)
        /\ UNCHANGED <<cache, posted>>
    <3>1. CASE Accept(m)
      BY <1>0, <3>1 DEF TypeOK, Accept
    <3>2. CASE Reject(m)
      BY <1>0, <3>2 DEF TypeOK, Reject
    <3>3. QED
      BY <1>3, <3>1, <3>2
  <2>2. \A n \in Msg : InQueue(n)' => InQueue(n)
    BY <2>1 DEF InQueue
  <2>3. NearWhenPosted' /\ PostedIsRemembered'
    BY <2>1, <2>2, <1>i DEF NearWhenPosted, PostedIsRemembered
  <2>4. OwnNotEchoed'
    <3>1. CASE Accept(m)
      <4>1. handling' = <<m>>
        BY <3>1 DEF Accept
      <4>2. Stamp[m] # NoStamp => posted[m] = -1
        BY <3>1, PostedNotAccepted
      <4>3. QED
        BY <2>1, <4>1, <4>2 DEF OwnNotEchoed
    <3>2. CASE Reject(m)
      BY <2>1, <3>2, <1>i DEF Reject, OwnNotEchoed
    <3>3. QED
      BY <1>3, <3>1, <3>2
  <2>5. QED
    BY <2>3, <2>4
<1>4. CASE Tick \/ Sent \/ QuietStep
  <2>1. UNCHANGED <<cache, posted, queue>> /\ (handling' = handling \/ handling' = <<>>)
    BY ZenonT(60), <1>4 DEF Tick, Sent, QuietStep, ConsumerGone, Shutdown, Exit, HandleFilterRequest,
                Receive, DropConsumer, PutDone, PutFails, vars
  <2>2. QED
    BY <2>1, <1>i DEF NearWhenPosted, PostedIsRemembered, OwnNotEchoed, InQueue
<1>5. QED
  BY <1>1, <1>2, <1>3, <1>4 DEF Next, QuietStep, vars

(* IInv holds in every reachable state. *)
THEOREM InductiveInvariant == Spec => []IInv
<1>1. Init => IInv
  <2> SUFFICES ASSUME Init PROVE IInv
    OBVIOUS
  <2>1. TypeOK
    BY RelayAssumption, FilterAssumption, NoPushTyped DEF Init, FilterInit, TypeOK, FilterTypeOK
  <2>2. NearWhenTaken /\ QueueIsRecent /\ TakenIsRemembered
    BY DEF Init, NearWhenTaken, QueueIsRecent, TakenIsRemembered
  <2>3. CountedOnce /\ ForwardedIsSurfaced
    BY DEF Init, CountedOnce, ForwardedIsSurfaced
  <2>4. NearWhenPosted /\ PostedIsRemembered /\ OwnNotEchoed
    BY DEF Init, NearWhenPosted, PostedIsRemembered, OwnNotEchoed
  <2>5. QED
    BY <2>1, <2>2, <2>3, <2>4 DEF IInv
<1>2. IInv /\ [Next]_vars => IInv'
  BY TypePreserved, TimePreserved, PostPreserved, CountPreserved DEF IInv
<1>3. QED
  BY <1>1, <1>2, PTL DEF Spec

(* Type correctness: the event channel and gossipsub's queue keep to
   their capacities. *)
THEOREM TypeCorrect == Spec => []TypeOK
<1>1. IInv => TypeOK
  BY DEF IInv
<1>2. QED
  BY <1>1, InductiveInvariant, PTL

(* A timestamped relay message reaches the application at most once, for every
   duplicate_cache_time longer than twice the timestamp window and the time a
   message may wait behind a handler blocked on the event channel. *)
THEOREM StampedMessagesSurfaceOnce == Spec => []StampedOnce
<1>1. IInv => StampedOnce
  BY DEF IInv, CountedOnce, StampedOnce
<1>2. QED
  BY <1>1, InductiveInvariant, PTL

(* Under the same condition the node's own timestamped messages, published by a
   caller or for a light client, are not handed back to its application. *)
THEOREM OwnMessagesStayAway == Spec => []OwnNotEchoed
<1>1. IInv => OwnNotEchoed
  BY DEF IInv
<1>2. QED
  BY <1>1, InductiveInvariant, PTL

(* gossipsub is told to forward exactly the messages the application was
   given. *)
THEOREM ForwardsWhatSurfaced == Spec => []ForwardedIsSurfaced
<1>1. IInv => ForwardedIsSurfaced
  BY DEF IInv
<1>2. QED
  BY <1>1, InductiveInvariant, PTL

(* The driver changes the filter registry only as FilterRegistry says, so
   light clients of the whole pipeline get the service FilterSpec promises. *)
THEOREM PipelineRefinesFilter == Spec => ImplementsFilterSpec
<1>1. Init => FilterInit
  BY DEF Init
<1>2. [Next]_vars => [FilterNext]_filterVars
  <2> SUFFICES ASSUME [Next]_vars PROVE [FilterNext]_filterVars
    OBVIOUS
  <2>1. ASSUME NEW m \in Msg, Accept(m) PROVE FilterNext
    BY <2>1 DEF Accept, FilterNext
  <2>2. CASE HandleFilterRequest
    BY <2>2 DEF HandleFilterRequest, FilterNext
  <2>3. ASSUME NEW m \in Msg, Gossip(m) \/ Reject(m) \/ PutDone(m) \/ PutFails(m)
        PROVE  UNCHANGED filterVars
    BY <2>3 DEF Gossip, Reject, PutDone, PutFails
  <2>4. CASE \/ Tick \/ Sent \/ ConsumerGone \/ Shutdown \/ Exit
             \/ Receive \/ DropConsumer \/ UNCHANGED vars \/ \E m \in Own : Publish(m)
    BY <2>4 DEF Tick, Publish, Sent, ConsumerGone, Shutdown, Exit, Receive, DropConsumer, vars
  <2>5. QED
    BY <2>1, <2>2, <2>3, <2>4 DEF Next
<1>3. Spec => FilterSpecification
  BY <1>1, <1>2, PTL DEF Spec, FilterSpecification
<1>4. QED
  BY <1>3, RegistryRefinesFilter
=============================================================================
