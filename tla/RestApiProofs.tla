---------------------------- MODULE RestApiProofs ----------------------------
(* Proofs about RestApi, for any shards, topics, requests, messages and      *)
(* capacities.                                                               *)
EXTENDS RestApi, FiniteSetTheorems, TLAPS

(* The provers of the leaves that name none. An attempt with SMT ends when the
   translation takes five seconds, whatever its limit: on a busy machine a leaf
   needs a later attempt. *)
USE SMTT(15), Zenon, SMTT(30), ZenonT(30), SMTT(40), SMTT(50),
    ZenonT(60), SMTT(60), SMTT(70), SMTT(80), SMTT(90)

(* A handler is at a content topic that parses while it awaits the driver, and
   the driver has subscribed when the handler is about to register it. *)
HandlerKnows ==
  \A r \in Request :
    /\ status[r] \in {"awaiting", "replied", "orphaned"} => Body[r][at[r]] \in Topic
    /\ status[r] = "replied" => ShardOf[Body[r][at[r]]] \in subs

(* No topic is cached without its subscription. *)
RegisteredIsSubscribed == \A t \in DOMAIN cache : ShardOf[t] \in subs

(* The auto endpoint publishes on the shard of the content topic. *)
AutoGoesToShard ==
  \A w \in onWire : w[3] => TopicOf[w[1]] \in Topic /\ w[2] = ShardOf[TopicOf[w[1]]]

PromisedIsRegistered == \A m \in promised : TopicOf[m] \in DOMAIN cache

SubscribeInv ==
  /\ TypeOK /\ HandlerKnows /\ RegisteredIsSubscribed /\ AutoGoesToShard
  /\ PromisedIsRegistered /\ PromisedIsKept

(* How many of the arrived messages main has taken from the channel. *)
Handled == Len(arrived) - Len(events)

Done(x) == \E k \in 1..Handled : arrived[k] = x

Before(x, y) == \E k, l \in DOMAIN arrived : k < l /\ arrived[k] = x /\ arrived[l] = y

Sorted(s) == \A i, j \in DOMAIN s : i < j => Before(s[i], s[j])

ArrivedOnce ==
  /\ Elems(arrived) \subseteq seen
  /\ \A i, j \in DOMAIN arrived : arrived[i] = arrived[j] => i = j

(* The channel holds the latest arrivals. *)
EventsAreLast ==
  /\ Len(events) <= Len(arrived)
  /\ \A i \in DOMAIN events : events[i] = arrived[Handled + i]

(* What was polled and what waits to be, main has taken; it was polled before
   what waits. *)
PollsSorted ==
  \A t \in Topic :
    /\ \A x \in Elems(polled[t]) : Done(x)
    /\ \A x \in Elems(Queue(t)) : Done(x) /\ TopicOf[x] = t
    /\ Sorted(polled[t]) /\ Sorted(Queue(t))
    /\ \A x \in Elems(polled[t]), y \in Elems(Queue(t)) : Before(x, y)

EvictedIsDone == \A m \in evicted : Done(m)

OrderInv == ArrivedOnce /\ EventsAreLast /\ PollsSorted /\ EvictedIsDone /\ NewestAreKept

(* What a sequence holds after Append, Tail and \o. *)
LEMMA AppendIs ==
  ASSUME NEW S, NEW s \in Seq(S), NEW e \in S
  PROVE  /\ Append(s, e) \in Seq(S) /\ Len(Append(s, e)) = Len(s) + 1
         /\ \A i \in DOMAIN s : Append(s, e)[i] = s[i]
         /\ Append(s, e)[Len(s) + 1] = e
         /\ Elems(Append(s, e)) = Elems(s) \cup {e}
<1>1. /\ Append(s, e) \in Seq(S) /\ Len(Append(s, e)) = Len(s) + 1
      /\ \A i \in DOMAIN s : Append(s, e)[i] = s[i]
      /\ Append(s, e)[Len(s) + 1] = e
      /\ DOMAIN Append(s, e) = DOMAIN s \cup {Len(s) + 1}
  OBVIOUS
<1>2. QED
  BY <1>1 DEF Elems

LEMMA TailIs ==
  ASSUME NEW S, NEW s \in Seq(S), s # <<>>
  PROVE  /\ Tail(s) \in Seq(S) /\ Len(Tail(s)) = Len(s) - 1 /\ Len(s) \in Nat \ {0}
         /\ \A i \in DOMAIN Tail(s) : i + 1 \in DOMAIN s /\ Tail(s)[i] = s[i + 1]
         /\ Head(s) \in S /\ Head(s) = s[1]
         /\ Elems(s) = {Head(s)} \cup Elems(Tail(s))
<1>1. /\ Tail(s) \in Seq(S) /\ Len(Tail(s)) = Len(s) - 1 /\ Len(s) \in Nat \ {0}
      /\ \A i \in DOMAIN Tail(s) : i + 1 \in DOMAIN s /\ Tail(s)[i] = s[i + 1]
      /\ Head(s) \in S /\ Head(s) = s[1]
  OBVIOUS
<1>2. DOMAIN s = 1..Len(s) /\ DOMAIN Tail(s) = 1..(Len(s) - 1)
  BY <1>1
<1>3. \A i \in DOMAIN s : i = 1 \/ (i - 1 \in DOMAIN Tail(s) /\ Tail(s)[i - 1] = s[i])
  BY <1>1, <1>2
<1>4. 1 \in DOMAIN s
  BY <1>1, <1>2
<1>5. QED
  BY <1>1, <1>3, <1>4 DEF Elems

LEMMA ConcatIs ==
  ASSUME NEW S, NEW s \in Seq(S), NEW u \in Seq(S)
  PROVE  /\ s \o u \in Seq(S) /\ Len(s \o u) = Len(s) + Len(u)
         /\ \A i \in DOMAIN s : i \in DOMAIN (s \o u) /\ (s \o u)[i] = s[i]
         /\ \A i \in DOMAIN u : Len(s) + i \in DOMAIN (s \o u) /\ (s \o u)[Len(s) + i] = u[i]
         /\ \A i \in DOMAIN (s \o u) : i \in DOMAIN s \/ i - Len(s) \in DOMAIN u
         /\ Elems(s \o u) = Elems(s) \cup Elems(u)
<1>1. /\ s \o u \in Seq(S) /\ Len(s \o u) = Len(s) + Len(u)
      /\ \A i \in DOMAIN s : i \in DOMAIN (s \o u) /\ (s \o u)[i] = s[i]
      /\ \A i \in DOMAIN u : Len(s) + i \in DOMAIN (s \o u) /\ (s \o u)[Len(s) + i] = u[i]
  OBVIOUS
<1>2. \A i \in DOMAIN (s \o u) : i \in DOMAIN s \/ i - Len(s) \in DOMAIN u
  BY <1>1
<1>3. \A i \in DOMAIN (s \o u) : \/ i \in DOMAIN s /\ (s \o u)[i] = s[i]
                                 \/ i - Len(s) \in DOMAIN u /\ (s \o u)[i] = u[i - Len(s)]
  BY <1>1, <1>2
<1>4. Elems(s \o u) \subseteq Elems(s) \cup Elems(u)
  BY <1>3 DEF Elems
<1>5. Elems(s) \cup Elems(u) \subseteq Elems(s \o u)
  BY ZenonT(60), <1>1 DEF Elems
<1>6. QED
  BY <1>1, <1>2, <1>4, <1>5, ZenonT(60)

(* The queue of a topic after record. *)
LEMMA RecordedIs ==
  ASSUME TypeOK, NEW m \in Msg, TopicOf[m] \in DOMAIN cache
  PROVE  /\ Recorded(m).queue \in Seq(Msg) /\ Len(Recorded(m).queue) <= CacheCap
         /\ Recorded(m).out \in SUBSET Msg
         /\ Elems(cache[TopicOf[m]]) \cup {m} = Elems(Recorded(m).queue) \cup Recorded(m).out
<1> DEFINE q == cache[TopicOf[m]]
<1>1. q \in Seq(Msg) /\ Len(q) \in Nat /\ Len(q) <= CacheCap /\ CacheCap \in Nat \ {0}
  BY RestAssumption DEF TypeOK
<1>2. CASE Len(q) >= CacheCap
  <2>1. q # <<>>
    BY <1>1, <1>2
  <2>2. Recorded(m).queue = Append(Tail(q), m) /\ Recorded(m).out = {Head(q)}
    BY <1>2 DEF Recorded
  <2>3. /\ Tail(q) \in Seq(Msg) /\ Len(Tail(q)) = Len(q) - 1 /\ Head(q) \in Msg
        /\ Elems(q) = {Head(q)} \cup Elems(Tail(q))
    BY <1>1, <2>1, TailIs
  <2>4. /\ Append(Tail(q), m) \in Seq(Msg) /\ Len(Append(Tail(q), m)) = Len(Tail(q)) + 1
        /\ Elems(Append(Tail(q), m)) = Elems(Tail(q)) \cup {m}
    <3>1. \A s \in Seq(Msg) : /\ Append(s, m) \in Seq(Msg) /\ Len(Append(s, m)) = Len(s) + 1
                              /\ Elems(Append(s, m)) = Elems(s) \cup {m}
      BY AppendIs
    <3>2. QED
      BY ZenonT(60), <2>3, <3>1
  <2>5. Len(Recorded(m).queue) <= CacheCap
    BY <1>1, <2>2, <2>3, <2>4
  <2>6. Elems(q) \cup {m} = Elems(Recorded(m).queue) \cup Recorded(m).out
    BY <2>2, <2>3, <2>4
  <2>7. QED
    BY <2>2, <2>3, <2>4, <2>5, <2>6
<1>3. CASE ~(Len(q) >= CacheCap)
  <2>1. Recorded(m).queue = Append(q, m) /\ Recorded(m).out = {}
    BY <1>3 DEF Recorded
  <2>2. /\ Append(q, m) \in Seq(Msg) /\ Len(Append(q, m)) = Len(q) + 1
        /\ Elems(Append(q, m)) = Elems(q) \cup {m}
    BY <1>1, AppendIs
  <2>3. QED
    BY <1>1, <1>3, <2>1, <2>2
<1>4. QED
  BY <1>2, <1>3

(* The steps that leave the cache and the messages alone. *)
QuietStep ==
  \/ \E r \in Request : Submit(r) \/ Subscribed(r) \/ SubscribeFails(r) \/ HangUp(r)
  \/ \E s \in Shard : StartupSubscribe(s)
  \/ \E p \in Post : Refused(p) \/ PublishFails(p)
  \/ UNCHANGED vars

(* They change at most the subscriptions, and only add to them. *)
LEMMA QuietIsQuiet ==
  ASSUME QuietStep
  PROVE  /\ UNCHANGED <<cache, messageVars, polled, evicted, onWire>>
         /\ subs \subseteq subs'
BY DEF QuietStep, Submit, Turn, Subscribed, SubscribeFails, HangUp, StartupSubscribe, Refused,
       PublishFails, vars, publishVars, requestVars

(* A handler that turns to a string is in a state of its type, and awaits the
   driver only at a topic that parses. *)
LEMMA TurnIs ==
  ASSUME TypeOK, NEW r \in Request, NEW i \in Nat \ {0}, Turn(r, i)
  PROVE  /\ at' \in [Request -> Nat \ {0}]
         /\ status' \in [Request -> {"new", "awaiting", "replied", "orphaned", "dropped", "200", "400", "503"}]
         /\ \A x \in Request \ {r} : at'[x] = at[x] /\ status'[x] = status[x]
         /\ status'[r] \notin {"replied", "orphaned"}
         /\ status'[r] = "awaiting" => Body[r][at'[r]] \in Topic
BY DEF TypeOK, Turn

(* Type correctness of every step. *)
LEMMA TypePreserved ==
  ASSUME TypeOK, HandlerKnows, [Next]_vars
  PROVE  TypeOK'
<1> USE DEF requestVars, publishVars, messageVars
<1>1. ASSUME NEW r \in Request, Submit(r) PROVE TypeOK'
  BY <1>1, TurnIs DEF Submit, TypeOK
<1>2. ASSUME NEW r \in Request, Subscribed(r) PROVE TypeOK'
  <2>1. subs' \in SUBSET Shard
    BY <1>2, RestAssumption DEF Subscribed, TypeOK, HandlerKnows
  <2>2. QED
    BY <1>2, <2>1 DEF Subscribed, TypeOK
<1>3. ASSUME NEW r \in Request, SubscribeFails(r) \/ HangUp(r) PROVE TypeOK'
  BY ZenonT(60), <1>3 DEF SubscribeFails, HangUp, TypeOK
<1>4. ASSUME NEW r \in Request, Resume(r) PROVE TypeOK'
  <2>1. at[r] + 1 \in Nat \ {0} /\ Body[r][at[r]] \in Topic
    BY <1>4 DEF Resume, TypeOK, HandlerKnows
  <2>2. /\ DOMAIN cache' \in SUBSET Topic
        /\ \A t \in DOMAIN cache' : cache'[t] \in Seq(Msg) /\ Len(cache'[t]) <= CacheCap
    BY <1>4, <2>1, RestAssumption DEF Resume, Register, TypeOK
  <2>3. QED
    BY <1>4, <2>1, <2>2, TurnIs DEF Resume, TypeOK
<1>5. ASSUME NEW s \in Shard, StartupSubscribe(s) PROVE TypeOK'
  BY <1>5 DEF StartupSubscribe, TypeOK
<1>6. ASSUME NEW m \in Msg, Arrive(m) PROVE TypeOK'
  <2>1. /\ events' \in Seq(Msg) /\ Len(events') <= EvtCap /\ arrived' \in Seq(Msg)
    BY <1>6, AppendIs, RestAssumption DEF Arrive, TypeOK
  <2>2. seen' \in SUBSET Msg /\ promised' \in SUBSET Msg
    BY <1>6 DEF Arrive, TypeOK
  <2>3. QED
    BY <1>6, <2>1, <2>2 DEF Arrive, TypeOK
<1>7. CASE Record
  <2>1. events \in Seq(Msg) /\ events # <<>> /\ Len(events) <= EvtCap
    BY <1>7 DEF Record, TypeOK
  <2>2. Head(events) \in Msg /\ Tail(events) \in Seq(Msg) /\ Len(Tail(events)) <= EvtCap
    BY <2>1, TailIs, RestAssumption
  <2>3. /\ DOMAIN cache' \in SUBSET Topic /\ evicted' \in SUBSET Msg
        /\ \A t \in DOMAIN cache' : cache'[t] \in Seq(Msg) /\ Len(cache'[t]) <= CacheCap
    <3>1. CASE TopicOf[Head(events)] \in DOMAIN cache
      <4> DEFINE m == Head(events)
      <4>1. /\ cache' = [cache EXCEPT ![TopicOf[m]] = Recorded(m).queue]
            /\ evicted' = evicted \cup Recorded(m).out
        BY <1>7, <3>1 DEF Record
      <4>2. /\ Recorded(m).queue \in Seq(Msg) /\ Len(Recorded(m).queue) <= CacheCap
            /\ Recorded(m).out \in SUBSET Msg
        BY <2>2, <3>1, RecordedIs
      <4> HIDE DEF m
      <4>3. QED
        BY <4>1, <4>2 DEF TypeOK
    <3>2. CASE TopicOf[Head(events)] \notin DOMAIN cache
      BY <1>7, <3>2 DEF Record, TypeOK
    <3>3. QED
      BY <3>1, <3>2
  <2>4. QED
    BY <1>7, <2>2, <2>3 DEF Record, TypeOK
<1>8. ASSUME NEW t \in Topic, Get(t) PROVE TypeOK'
  <2>1. \A u, v \in Seq(Msg) : u \o v \in Seq(Msg)
    BY ConcatIs
  <2>2. polled' \in [Topic -> Seq(Msg)]
    BY <1>8, <2>1 DEF Get, TypeOK
  <2>3. /\ DOMAIN cache' \in SUBSET Topic
        /\ \A u \in DOMAIN cache' : cache'[u] \in Seq(Msg) /\ Len(cache'[u]) <= CacheCap
    BY <1>8, RestAssumption DEF Get, Drained, TypeOK
  <2>4. QED
    BY <1>8, <2>2, <2>3 DEF Get, TypeOK
<1>9. ASSUME NEW p \in Post, Refused(p) \/ PublishFails(p) PROVE TypeOK'
  BY ZenonT(60), <1>9 DEF Refused, PublishFails, TypeOK
<1>10. ASSUME NEW p \in Post, NEW s \in Shard, Published(p, s) PROVE TypeOK'
  <2>1. p.msg \in Msg
    BY RestAssumption
  <2>2. (p.pubsub = AutoShard) \in BOOLEAN
    OBVIOUS
  <2>3. onWire' \in SUBSET (Msg \X Shard \X BOOLEAN)
    <3>1. <<p.msg, s, p.pubsub = AutoShard>> \in Msg \X Shard \X BOOLEAN
      BY ZenonT(60), <2>1, <2>2
    <3>2. onWire' = onWire \cup {<<p.msg, s, p.pubsub = AutoShard>>}
      BY <1>10, ZenonT(60) DEF Published
    <3>3. onWire \subseteq Msg \X Shard \X BOOLEAN
      BY DEF TypeOK
    <3>4. QED
      BY <3>1, <3>2, <3>3, ZenonT(60)
  <2>4. seen' \in SUBSET Msg /\ answer' \in [Post -> {"none", "200", "400", "503"}]
    BY <1>10, <2>1 DEF Published, TypeOK
  <2>5. QED
    BY <1>10, <2>3, <2>4 DEF Published, TypeOK
<1>11. CASE UNCHANGED vars
  BY <1>11 DEF vars, TypeOK
<1>12. QED
  BY <1>1, <1>2, <1>3, <1>4, <1>5, <1>6, <1>7, <1>8, <1>9, <1>10, <1>11 DEF Next

(* Handlers, subscriptions and where the auto endpoint publishes. *)
LEMMA SubscriptionsPreserved ==
  ASSUME SubscribeInv, [Next]_vars
  PROVE  (HandlerKnows /\ RegisteredIsSubscribed /\ AutoGoesToShard)'
<1> USE DEF requestVars, publishVars, messageVars
<1>0. TypeOK /\ HandlerKnows /\ RegisteredIsSubscribed /\ AutoGoesToShard
  BY DEF SubscribeInv
<1>1. HandlerKnows'
  <2>1. ASSUME NEW r \in Request, Submit(r) PROVE HandlerKnows'
    BY <1>0, <2>1, TurnIs DEF Submit, HandlerKnows
  <2>2. ASSUME NEW r \in Request, Subscribed(r) \/ SubscribeFails(r) \/ HangUp(r) PROVE HandlerKnows'
    BY <1>0, <2>2 DEF Subscribed, SubscribeFails, HangUp, HandlerKnows, TypeOK
  <2>3. ASSUME NEW r \in Request, Resume(r) PROVE HandlerKnows'
    <3>1. at[r] + 1 \in Nat \ {0}
      BY <1>0 DEF TypeOK
    <3>2. QED
      BY <1>0, <2>3, <3>1, TurnIs DEF Resume, HandlerKnows
  <2>4. ASSUME UNCHANGED requestVars, subs \subseteq subs' PROVE HandlerKnows'
    BY <1>0, <2>4 DEF HandlerKnows
  <2>5. QED
    BY ZenonT(60), <2>1, <2>2, <2>3, <2>4
       DEF Next, vars, StartupSubscribe, Arrive, Record, Get, Refused, Published, PublishFails
<1>2. RegisteredIsSubscribed'
  <2>1. ASSUME NEW r \in Request, Resume(r) PROVE RegisteredIsSubscribed'
    BY <1>0, <2>1 DEF Resume, Register, RegisteredIsSubscribed, HandlerKnows
  <2>2. ASSUME DOMAIN cache' = DOMAIN cache, subs \subseteq subs' PROVE RegisteredIsSubscribed'
    BY <1>0, <2>2 DEF RegisteredIsSubscribed
  <2>3. CASE QuietStep
    BY <2>2, <2>3, QuietIsQuiet
  <2>4. CASE Record \/ (\E m \in Msg : Arrive(m)) \/ (\E t \in Topic : Get(t))
    BY ZenonT(60), <2>2, <2>4 DEF Record, Arrive, Get, Drained
  <2>5. ASSUME NEW p \in Post, NEW s \in Shard, Published(p, s) PROVE RegisteredIsSubscribed'
    BY <2>2, <2>5 DEF Published
  <2>6. QED
    BY <2>1, <2>3, <2>4, <2>5 DEF Next, QuietStep
<1>3. AutoGoesToShard'
  <2>1. ASSUME NEW p \in Post, NEW s \in Shard, Published(p, s) PROVE AutoGoesToShard'
    <3>1. p.pubsub = AutoShard => TopicOf[p.msg] \in Topic /\ s = ShardOf[TopicOf[p.msg]]
      BY <2>1 DEF Published, TargetShards
    <3>2. onWire' = onWire \cup {<<p.msg, s, p.pubsub = AutoShard>>}
      BY <2>1 DEF Published
    <3> SUFFICES ASSUME NEW w \in onWire', w[3]
                 PROVE  TopicOf[w[1]] \in Topic /\ w[2] = ShardOf[TopicOf[w[1]]]
      BY DEF AutoGoesToShard
    <3>3. CASE w \in onWire
      BY <1>0, <3>3 DEF AutoGoesToShard
    <3>4. CASE w = <<p.msg, s, p.pubsub = AutoShard>>
      <4>1. w[1] = p.msg /\ w[2] = s
        BY <3>4
      <4>2. p.pubsub = AutoShard
        BY ZenonT(60), <3>4
      <4>3. QED
        BY <3>1, <4>1, <4>2
    <3>5. QED
      BY <3>2, <3>3, <3>4
  <2>2. CASE UNCHANGED onWire
    BY <1>0, <2>2 DEF AutoGoesToShard
  <2>3. CASE QuietStep
    BY <2>2, <2>3, QuietIsQuiet
  <2>4. CASE \/ Record \/ (\E m \in Msg : Arrive(m)) \/ (\E t \in Topic : Get(t))
             \/ \E r \in Request : Resume(r)
    BY ZenonT(60), <2>2, <2>4 DEF Record, Arrive, Get, Resume
  <2>5. QED
    BY <2>1, <2>3, <2>4 DEF Next, QuietStep
<1>4. QED
  BY <1>1, <1>2, <1>3

(* Every message of a registered topic stays accounted for. *)
LEMMA PromisesPreserved ==
  ASSUME SubscribeInv, [Next]_vars
  PROVE  (PromisedIsRegistered /\ PromisedIsKept)'
<1> USE DEF requestVars, publishVars, messageVars
<1>0. TypeOK /\ HandlerKnows /\ PromisedIsRegistered /\ PromisedIsKept
  BY DEF SubscribeInv
<1>1. CASE QuietStep \/ \E p \in Post, s \in Shard : Published(p, s)
  <2>1. UNCHANGED <<cache, events, promised, polled, evicted>>
    BY <1>1, QuietIsQuiet DEF Published
  <2>2. QED
    BY <1>0, <2>1 DEF PromisedIsRegistered, PromisedIsKept, Queue
<1>2. ASSUME NEW r \in Request, Resume(r) PROVE (PromisedIsRegistered /\ PromisedIsKept)'
  <2>1. /\ DOMAIN cache \subseteq DOMAIN cache'
        /\ \A t \in DOMAIN cache : cache'[t] = cache[t]
        /\ UNCHANGED <<events, promised, polled, evicted>>
    BY <1>2 DEF Resume, Register
  <2>2. QED
    BY <1>0, <2>1 DEF PromisedIsRegistered, PromisedIsKept, Queue
<1>3. ASSUME NEW m \in Msg, Arrive(m) PROVE (PromisedIsRegistered /\ PromisedIsKept)'
  <2>1. Elems(events') = Elems(events) \cup {m}
    BY <1>0, <1>3, AppendIs DEF Arrive, TypeOK
  <2>2. UNCHANGED <<cache, polled, evicted>>
    BY <1>3 DEF Arrive
  <2>3. promised' = IF TopicOf[m] \in DOMAIN cache THEN promised \cup {m} ELSE promised
    BY <1>3 DEF Arrive
  <2>4. QED
    BY <1>0, <2>1, <2>2, <2>3 DEF PromisedIsRegistered, PromisedIsKept, Queue
<1>4. CASE Record
  <2> DEFINE m == Head(events)
  <2>1. m \in Msg /\ Elems(events) = {m} \cup Elems(events')
    BY <1>0, <1>4, TailIs DEF Record, TypeOK
  <2>2. UNCHANGED <<promised, polled>>
    BY <1>4 DEF Record
  <2>3. CASE TopicOf[m] \in DOMAIN cache
    <3>1. /\ cache' = [cache EXCEPT ![TopicOf[m]] = Recorded(m).queue]
          /\ evicted' = evicted \cup Recorded(m).out
      BY <1>4, <2>3 DEF Record
    <3>2. Elems(cache[TopicOf[m]]) \cup {m} = Elems(Recorded(m).queue) \cup Recorded(m).out
      BY <1>0, <2>1, <2>3, RecordedIs
    <3> HIDE DEF m
    <3>3. DOMAIN cache' = DOMAIN cache
      BY <3>1
    <3>4. ASSUME NEW n \in promised
          PROVE  n \in Elems(events') \cup Elems(Queue(TopicOf[n])') \cup Elems(polled[TopicOf[n]])
                         \cup evicted'
      <4>1. /\ TopicOf[n] \in DOMAIN cache
            /\ n \in Elems(events) \cup Elems(cache[TopicOf[n]]) \cup Elems(polled[TopicOf[n]])
                       \cup evicted
        BY <1>0, <3>4 DEF PromisedIsRegistered, PromisedIsKept, Queue
      <4>2. Queue(TopicOf[n])' = cache'[TopicOf[n]]
        BY <3>3, <4>1 DEF Queue
      <4>3. CASE TopicOf[n] = TopicOf[m]
        <5>1. cache'[TopicOf[n]] = Recorded(m).queue
          BY <2>3, <3>1, <4>3
        <5>2. QED
          BY <2>1, <3>1, <3>2, <4>1, <4>2, <4>3, <5>1
      <4>4. CASE TopicOf[n] # TopicOf[m]
        <5>1. cache'[TopicOf[n]] = cache[TopicOf[n]] /\ n # m
          BY <3>1, <4>1, <4>4
        <5>2. QED
          BY <2>1, <3>1, <4>1, <4>2, <5>1
      <4>5. QED
        BY <4>3, <4>4
    <3>5. QED
      BY <1>0, <2>2, <3>3, <3>4 DEF PromisedIsRegistered, PromisedIsKept
  <2>4. CASE TopicOf[m] \notin DOMAIN cache
    <3>1. UNCHANGED <<cache, evicted>>
      BY <1>4, <2>4 DEF Record
    <3> HIDE DEF m
    <3>2. m \notin promised
      BY <1>0, <2>4 DEF PromisedIsRegistered
    <3>3. QED
      BY <1>0, <2>1, <2>2, <3>1, <3>2 DEF PromisedIsRegistered, PromisedIsKept, Queue
  <2>5. QED
    BY <2>3, <2>4
<1>5. ASSUME NEW t \in Topic, Get(t) PROVE (PromisedIsRegistered /\ PromisedIsKept)'
  <2>1. UNCHANGED <<events, promised, evicted>> /\ DOMAIN cache' = DOMAIN cache
    BY <1>5 DEF Get, Drained
  <2>2. Elems(polled'[t]) = Elems(polled[t]) \cup Elems(Queue(t))
    <3>1. polled[t] \in Seq(Msg) /\ Queue(t) \in Seq(Msg)
      BY <1>0 DEF TypeOK, Queue
    <3>2. polled'[t] = polled[t] \o Queue(t)
      BY <1>0, <1>5 DEF TypeOK, Get, Queue
    <3>3. QED
      BY <3>1, <3>2, ConcatIs
  <2>3. \A u \in Topic \ {t} : polled'[u] = polled[u] /\ Queue(u)' = Queue(u)
    BY <1>0, <1>5 DEF Get, Drained, TypeOK, Queue
  <2>4. \A n \in promised : TopicOf[n] \in Topic
    BY <1>0 DEF PromisedIsRegistered, TypeOK
  <2>5. ASSUME NEW n \in promised
        PROVE  n \in Elems(events) \cup Elems(Queue(TopicOf[n])') \cup Elems(polled'[TopicOf[n]])
                       \cup evicted
    BY <1>0, <2>2, <2>3, <2>4 DEF PromisedIsKept
  <2>6. QED
    BY <1>0, <2>1, <2>5 DEF PromisedIsRegistered, PromisedIsKept
<1>6. QED
  BY <1>1, <1>2, <1>3, <1>4, <1>5 DEF Next, QuietStep

(* Positions in the order of arrival. *)
LEMMA PosIs ==
  ASSUME ArrivedOnce, NEW k \in DOMAIN arrived
  PROVE  Pos(arrived[k]) = k
BY DEF ArrivedOnce, Pos

LEMMA BeforeIs ==
  ASSUME TypeOK, ArrivedOnce, NEW x, NEW y, Before(x, y)
  PROVE  /\ x \in Elems(arrived) /\ y \in Elems(arrived)
         /\ Pos(x) < Pos(y) /\ x # y
<1>1. PICK k, l \in DOMAIN arrived : k < l /\ arrived[k] = x /\ arrived[l] = y
  BY DEF Before
<1>2. Pos(x) = k /\ Pos(y) = l
  BY <1>1, PosIs
<1>3. k \in Int /\ l \in Int
  BY DEF TypeOK
<1>4. QED
  BY <1>1, <1>2, <1>3 DEF Elems

(* What main has taken came before what it has not. *)
LEMMA DoneIs ==
  ASSUME TypeOK, EventsAreLast, ArrivedOnce, NEW x, Done(x)
  PROVE  /\ x \in Elems(arrived) \ Elems(events)
         /\ events # <<>> => Before(x, Head(events))
<1>1. arrived \in Seq(Msg) /\ events \in Seq(Msg) /\ Len(arrived) \in Nat /\ Len(events) \in Nat
  BY DEF TypeOK
<1>2. DOMAIN arrived = 1..Len(arrived) /\ DOMAIN events = 1..Len(events)
  BY <1>1
<1>3. PICK k \in 1..Handled : arrived[k] = x
  BY DEF Done
<1>4. Handled \in 0..Len(arrived) /\ k \in DOMAIN arrived /\ k \in Nat
  BY <1>1, <1>2 DEF EventsAreLast, Handled
<1>5. x \in Elems(arrived)
  BY <1>3, <1>4 DEF Elems
<1>6. ASSUME NEW i \in DOMAIN events
      PROVE  Handled + i \in DOMAIN arrived /\ k < Handled + i /\ events[i] = arrived[Handled + i]
  <2>1. i \in 1..Len(events)
    BY <1>2
  <2>2. Handled + i \in 1..Len(arrived)
    BY <1>1, <2>1, <1>4 DEF Handled
  <2>3. QED
    BY <1>2, <1>4, <2>1, <2>2 DEF EventsAreLast
<1>7. x \notin Elems(events)
  <2> SUFFICES ASSUME NEW i \in DOMAIN events, events[i] = x PROVE FALSE
    BY DEF Elems
  <2>1. k = Handled + i
    BY <1>3, <1>4, <1>6 DEF ArrivedOnce
  <2>2. QED
    BY <1>4, <1>6, <2>1
<1>8. ASSUME events # <<>> PROVE Before(x, Head(events))
  <2>1. 1 \in DOMAIN events /\ Head(events) = events[1]
    BY <1>1, <1>8
  <2>2. QED
    BY <1>3, <1>4, <1>6, <2>1 DEF Before
<1>9. QED
  BY <1>5, <1>7, <1>8

(* A set that includes a sequence without repetition is as large. *)
LEMMA HoldsAsMany ==
  ASSUME NEW S, NEW s \in Seq(S), \A i, j \in DOMAIN s : s[i] = s[j] => i = j,
         NEW F, IsFiniteSet(F), Elems(s) \subseteq F
  PROVE  Cardinality(F) >= Len(s)
<1>1. Len(s) \in Nat /\ DOMAIN s = 1..Len(s) /\ s \in [1..Len(s) -> S]
  OBVIOUS
<1>2. s \in Injection(1..Len(s), F)
  BY <1>1 DEF Injection, IsInjective, Elems
<1>3. Cardinality(1..Len(s)) <= Cardinality(F)
  BY <1>2, FS_Injection
<1>4. Cardinality(1..Len(s)) = Len(s)
  BY <1>1, FS_Interval
<1>5. Cardinality(F) \in Nat
  BY FS_CardinalityType
<1>6. QED
  BY <1>1, <1>3, <1>4, <1>5

(* Finitely many messages have arrived. *)
LEMMA ArrivedFinite ==
  ASSUME TypeOK
  PROVE  IsFiniteSet(Elems(arrived))
<1>1. Len(arrived) \in Nat /\ DOMAIN arrived = 1..Len(arrived) /\ arrived \in [1..Len(arrived) -> Msg]
  BY DEF TypeOK
<1>2. arrived \in Surjection(1..Len(arrived), Elems(arrived))
  BY <1>1 DEF Surjection, Elems
<1>3. IsFiniteSet(1..Len(arrived))
  BY <1>1, FS_Interval
<1>4. QED
  BY <1>2, <1>3, FS_Surjection

(* Steps after which everything is as it was, as far as the order goes. *)
LEMMA OrderUndisturbed ==
  ASSUME OrderInv, UNCHANGED <<arrived, events, polled, evicted>>, seen \subseteq seen',
         \A t \in Topic : Queue(t)' = Queue(t)
  PROVE  OrderInv'
<1>1. ArrivedOnce' /\ EventsAreLast' /\ EvictedIsDone'
  BY DEF OrderInv, ArrivedOnce, EventsAreLast, EvictedIsDone, Done, Handled
<1>2. PollsSorted'
  <2>1. \A x, y : (Done(x)' <=> Done(x)) /\ (Before(x, y)' <=> Before(x, y))
    BY DEF Done, Handled, Before
  <2>2. \A t \in Topic : (Sorted(polled[t])' <=> Sorted(polled[t]))
                         /\ (Sorted(Queue(t))' <=> Sorted(Queue(t)))
    BY <2>1 DEF Sorted
  <2>3. QED
    BY ZenonT(60), <2>1, <2>2 DEF OrderInv, PollsSorted
<1>3. NewestAreKept'
  BY DEF OrderInv, NewestAreKept, Newer, Pos
<1>4. QED
  BY <1>1, <1>2, <1>3 DEF OrderInv

(* A message arrives behind all others. *)
LEMMA ArriveKeepsOrder ==
  ASSUME TypeOK, OrderInv, NEW m \in Msg, Arrive(m)
  PROVE  OrderInv'
<1>1. /\ arrived \in Seq(Msg) /\ events \in Seq(Msg)
      /\ arrived' = Append(arrived, m) /\ events' = Append(events, m)
      /\ seen' = seen \cup {m} /\ m \notin seen
      /\ UNCHANGED <<cache, polled, evicted>>
  BY DEF TypeOK, Arrive
<1>2. /\ Len(arrived) \in Nat /\ Len(arrived') = Len(arrived) + 1
      /\ DOMAIN arrived = 1..Len(arrived) /\ DOMAIN arrived' = 1..(Len(arrived) + 1)
      /\ \A k \in DOMAIN arrived : arrived'[k] = arrived[k]
      /\ arrived'[Len(arrived) + 1] = m
      /\ Elems(arrived') = Elems(arrived) \cup {m}
  BY <1>1, AppendIs
<1>3. /\ Len(events) \in Nat /\ Len(events') = Len(events) + 1
      /\ DOMAIN events = 1..Len(events) /\ DOMAIN events' = 1..(Len(events) + 1)
      /\ \A k \in DOMAIN events : events'[k] = events[k]
      /\ events'[Len(events) + 1] = m
      /\ Elems(events') = Elems(events) \cup {m}
  BY <1>1, AppendIs
<1>4. Handled' = Handled /\ Handled \in 0..Len(arrived)
  BY <1>2, <1>3 DEF OrderInv, EventsAreLast, Handled
<1>5. \A k \in DOMAIN arrived : arrived[k] # m
  BY <1>1 DEF OrderInv, ArrivedOnce, Elems
<1>6. ArrivedOnce'
  <2>1. Elems(arrived') \subseteq seen'
    BY <1>1, <1>2 DEF OrderInv, ArrivedOnce
  <2>2. \A i \in DOMAIN arrived' : i \in DOMAIN arrived \/ i = Len(arrived) + 1
    BY <1>2
  <2>3. \A i, j \in DOMAIN arrived' : arrived'[i] = arrived'[j] => i = j
    BY <1>2, <1>5, <2>2 DEF OrderInv, ArrivedOnce
  <2>4. QED
    BY <2>1, <2>3 DEF ArrivedOnce
<1>7. EventsAreLast'
  <2>1. \A i \in DOMAIN events : Handled + i \in DOMAIN arrived /\ events[i] = arrived[Handled + i]
    BY <1>2, <1>3, <1>4 DEF OrderInv, EventsAreLast, Handled
  <2>2. Handled + Len(events) + 1 = Len(arrived) + 1
    BY <1>2, <1>3 DEF Handled
  <2>3. ASSUME NEW i \in DOMAIN events' PROVE events'[i] = arrived'[Handled + i]
    <3>1. CASE i \in DOMAIN events
      BY <1>2, <1>3, <2>1, <3>1
    <3>2. CASE i = Len(events) + 1
      <4>1. Handled + i = Len(arrived) + 1
        BY <1>2, <1>3, <2>2, <3>2 DEF Handled
      <4>2. QED
        BY <1>2, <1>3, <3>2, <4>1
    <3>3. QED
      BY <1>3, <3>1, <3>2
  <2>4. QED
    BY <1>2, <1>3, <1>4, <2>3 DEF OrderInv, EventsAreLast
<1>8. \A x : Done(x) => Done(x)'
  BY <1>2, <1>4 DEF Done
<1>9. \A x, y : Before(x, y) => Before(x, y)'
  BY <1>2 DEF Before
<1>10. PollsSorted' /\ EvictedIsDone'
  <2>1. \A t \in Topic : Queue(t)' = Queue(t)
    BY <1>1 DEF Queue
  <2>2. \A s : Sorted(s) => Sorted(s)'
    BY <1>9 DEF Sorted
  <2>3. QED
    BY <1>1, <1>8, <1>9, <2>1, <2>2 DEF OrderInv, PollsSorted, EvictedIsDone, Sorted
<1>11. NewestAreKept'
  <2> SUFFICES ASSUME NEW e \in evicted PROVE Cardinality(Newer(e)') >= CacheCap
    BY <1>1 DEF NewestAreKept
  <2>1. \A k \in DOMAIN arrived : Pos(arrived[k]) = k
    BY PosIs DEF OrderInv
  <2>2. \A x : \A k \in DOMAIN arrived' : arrived'[k] = x => Pos(x)' = k
    BY <1>6 DEF ArrivedOnce, Pos
  <2>3. \A x \in Elems(arrived) : Pos(x)' = Pos(x)
    BY <1>2, <2>1, <2>2 DEF Elems
  <2>4. e \in Elems(arrived)
    BY DoneIs DEF OrderInv, EvictedIsDone
  <2>5. m \notin Elems(arrived)
    BY <1>5 DEF Elems
  <2>6. Newer(e) \subseteq Newer(e)'
    BY ZenonT(60), <1>2, <1>3, <2>3, <2>4, <2>5 DEF Newer
  <2>7. IsFiniteSet(Newer(e)')
    <3>1. IsFiniteSet(Elems(arrived) \cup {m})
      BY ArrivedFinite, FS_AddElement
    <3>2. Newer(e)' \subseteq Elems(arrived) \cup {m}
      BY ZenonT(60), <1>2 DEF Newer
    <3>3. QED
      BY <3>1, <3>2, FS_Subset
  <2>8. Cardinality(Newer(e)) <= Cardinality(Newer(e)') /\ IsFiniteSet(Newer(e))
    BY <2>6, <2>7, FS_Subset
  <2>9. Cardinality(Newer(e)) \in Nat /\ Cardinality(Newer(e)') \in Nat
    BY <2>7, <2>8, FS_CardinalityType
  <2>10. Cardinality(Newer(e)) >= CacheCap
    BY DEF OrderInv, NewestAreKept
  <2>11. QED
    BY <2>8, <2>9, <2>10, RestAssumption
<1>12. QED
  BY <1>6, <1>7, <1>10, <1>11 DEF OrderInv

(* Appending what comes after all of it, and dropping the first, keep a
   sequence sorted. *)
LEMMA SortedAppend ==
  ASSUME NEW s \in Seq(Msg), NEW m \in Msg, Sorted(s), \A x \in Elems(s) : Before(x, m)
  PROVE  Sorted(Append(s, m))
<1>1. /\ Len(s) \in Nat /\ DOMAIN s = 1..Len(s) /\ DOMAIN Append(s, m) = 1..(Len(s) + 1)
      /\ \A i \in DOMAIN s : Append(s, m)[i] = s[i]
      /\ Append(s, m)[Len(s) + 1] = m
  BY AppendIs
<1> SUFFICES ASSUME NEW i \in DOMAIN Append(s, m), NEW j \in DOMAIN Append(s, m), i < j
             PROVE  Before(Append(s, m)[i], Append(s, m)[j])
  BY DEF Sorted
<1>2. i \in DOMAIN s /\ (j \in DOMAIN s \/ j = Len(s) + 1)
  BY <1>1
<1>3. s[i] \in Elems(s)
  BY <1>2 DEF Elems
<1>4. QED
  BY <1>1, <1>2, <1>3 DEF Sorted

LEMMA SortedTail ==
  ASSUME NEW s \in Seq(Msg), s # <<>>, Sorted(s)
  PROVE  Sorted(Tail(s)) /\ \A x \in Elems(Tail(s)) : Before(Head(s), x)
<1>1. /\ Len(s) \in Nat \ {0} /\ DOMAIN s = 1..Len(s) /\ Tail(s) \in Seq(Msg)
      /\ \A i \in DOMAIN Tail(s) : i + 1 \in DOMAIN s /\ Tail(s)[i] = s[i + 1]
      /\ Head(s) = s[1]
  BY TailIs
<1>2. \A i \in DOMAIN Tail(s) : i \in Nat \ {0}
  BY <1>1
<1>3. 1 \in DOMAIN s
  BY <1>1
<1>4. \A i, j \in DOMAIN Tail(s) : i < j => Before(Tail(s)[i], Tail(s)[j])
  BY <1>1, <1>2 DEF Sorted
<1>5. \A i \in DOMAIN Tail(s) : Before(Head(s), Tail(s)[i])
  BY <1>1, <1>2, <1>3 DEF Sorted
<1>6. QED
  BY <1>4, <1>5 DEF Sorted, Elems

LEMMA SortedConcat ==
  ASSUME NEW s \in Seq(Msg), NEW u \in Seq(Msg), Sorted(s), Sorted(u),
         \A x \in Elems(s), y \in Elems(u) : Before(x, y)
  PROVE  Sorted(s \o u)
<1>1. /\ Len(s) \in Nat /\ DOMAIN s = 1..Len(s) /\ DOMAIN u = 1..Len(u) /\ Len(u) \in Nat
      /\ \A i \in DOMAIN s : (s \o u)[i] = s[i]
      /\ \A i \in DOMAIN u : (s \o u)[Len(s) + i] = u[i]
      /\ DOMAIN (s \o u) = 1..(Len(s) + Len(u))
  BY ConcatIs
<1> SUFFICES ASSUME NEW i \in DOMAIN (s \o u), NEW j \in DOMAIN (s \o u), i < j
             PROVE  Before((s \o u)[i], (s \o u)[j])
  BY DEF Sorted
<1>2. CASE i \in DOMAIN s /\ j \in DOMAIN s
  BY <1>1, <1>2 DEF Sorted
<1>3. CASE i \in DOMAIN s /\ j \notin DOMAIN s
  <2>1. j - Len(s) \in DOMAIN u /\ Len(s) + (j - Len(s)) = j
    BY <1>1, <1>3
  <2>2. (s \o u)[j] = u[j - Len(s)]
    BY <1>1, <2>1
  <2>3. QED
    BY <1>1, <1>3, <2>1, <2>2 DEF Elems
<1>4. CASE i \notin DOMAIN s
  <2>1. /\ i - Len(s) \in DOMAIN u /\ Len(s) + (i - Len(s)) = i
        /\ j - Len(s) \in DOMAIN u /\ Len(s) + (j - Len(s)) = j
        /\ i - Len(s) < j - Len(s)
    BY <1>1, <1>4
  <2>2. (s \o u)[i] = u[i - Len(s)] /\ (s \o u)[j] = u[j - Len(s)]
    BY <1>1, <2>1
  <2>3. QED
    BY <2>1, <2>2 DEF Sorted
<1>5. QED
  BY <1>2, <1>3, <1>4

(* A GET moves a sorted queue behind a sorted past that precedes it. *)
LEMMA GetKeepsOrder ==
  ASSUME TypeOK, OrderInv, NEW t \in Topic, Get(t)
  PROVE  OrderInv'
<1>1. /\ UNCHANGED <<seen, arrived, events, evicted>>
      /\ polled \in [Topic -> Seq(Msg)] /\ Queue(t) \in Seq(Msg)
      /\ polled'[t] = polled[t] \o Queue(t) /\ Queue(t)' = <<>>
      /\ \A u \in Topic \ {t} : polled'[u] = polled[u] /\ Queue(u)' = Queue(u)
  BY DEF TypeOK, Get, Drained, Queue, messageVars
<1>2. ArrivedOnce' /\ EventsAreLast' /\ EvictedIsDone'
  BY <1>1 DEF OrderInv, ArrivedOnce, EventsAreLast, EvictedIsDone, Done, Handled
<1>3. NewestAreKept'
  <2>1. UNCHANGED <<arrived, events, evicted>>
    BY <1>1
  <2>2. \A e : Newer(e)' = Newer(e)
    BY <2>1 DEF Newer, Pos
  <2>3. QED
    BY <2>1, <2>2 DEF OrderInv, NewestAreKept
<1>4. \A x, y : (Done(x)' <=> Done(x)) /\ (Before(x, y)' <=> Before(x, y))
  BY <1>1 DEF Done, Handled, Before
<1>5. PollsSorted'
  <2>1. PollsSorted
    BY DEF OrderInv
  <2>2. \A s : Sorted(s)' <=> Sorted(s)
    BY <1>4 DEF Sorted
  <2>3. Sorted(polled[t] \o Queue(t)) /\ Elems(polled[t] \o Queue(t)) = Elems(polled[t]) \cup Elems(Queue(t))
    <3>1. polled[t] \in Seq(Msg) /\ Queue(t) \in Seq(Msg)
      BY <1>1
    <3>2. Elems(polled[t] \o Queue(t)) = Elems(polled[t]) \cup Elems(Queue(t))
      BY <3>1, ConcatIs
    <3>3. /\ Sorted(polled[t]) /\ Sorted(Queue(t))
          /\ \A x \in Elems(polled[t]), y \in Elems(Queue(t)) : Before(x, y)
      BY <2>1 DEF PollsSorted
    <3>4. Sorted(polled[t] \o Queue(t))
      BY <3>1, <3>3, SortedConcat
    <3>5. QED
      BY <3>2, <3>4
  <2>4. Sorted(<<>>) /\ Elems(<<>>) = {}
    BY DEF Sorted, Elems
  <2> SUFFICES ASSUME NEW u \in Topic
               PROVE  /\ \A x \in Elems(polled'[u]) : Done(x)
                      /\ \A x \in Elems(Queue(u)') : Done(x) /\ TopicOf[x] = u
                      /\ Sorted(polled[u])' /\ Sorted(Queue(u))'
                      /\ \A x \in Elems(polled'[u]), y \in Elems(Queue(u)') : Before(x, y)
    BY <1>4 DEF PollsSorted
  <2>5. CASE u = t
    <3>1. Sorted(polled[u])' /\ Sorted(Queue(u))'
      BY ZenonT(60), <1>1, <1>4, <2>3, <2>4, <2>5 DEF Sorted
    <3>2. QED
      BY ZenonT(60), <1>1, <2>1, <2>3, <2>4, <2>5, <3>1 DEF PollsSorted
  <2>6. CASE u # t
    <3>1. polled'[u] = polled[u] /\ Queue(u)' = Queue(u)
      BY ZenonT(60), <1>1, <2>6
    <3>2. Sorted(polled[u]) /\ Sorted(Queue(u))
      BY ZenonT(60), <2>1 DEF PollsSorted
    <3>3. Sorted(polled[u])' /\ Sorted(Queue(u))'
      BY ZenonT(60), <1>4, <3>1, <3>2 DEF Sorted
    <3>4. QED
      BY ZenonT(60), <2>1, <3>1, <3>3 DEF PollsSorted
  <2>7. QED
    BY <2>5, <2>6
<1>6. QED
  BY <1>2, <1>3, <1>5 DEF OrderInv

(* main takes the oldest message from the channel: it comes after all that main
   has taken, and what it pushes out has a whole queue of newer ones. *)
LEMMA RecordKeepsOrder ==
  ASSUME TypeOK, OrderInv, Record
  PROVE  OrderInv'
<1>0. ArrivedOnce /\ EventsAreLast /\ PollsSorted /\ EvictedIsDone /\ NewestAreKept
  BY DEF OrderInv
<1>1. /\ arrived \in Seq(Msg) /\ events \in Seq(Msg) /\ events # <<>>
      /\ events' = Tail(events) /\ UNCHANGED <<seen, arrived, polled>>
  BY DEF TypeOK, Record
<1>m. PICK m \in Msg : m = Head(events)
  BY <1>1, TailIs
<1> DEFINE T == TopicOf[m]
<1>2. /\ m = events[1] /\ Len(events) \in Nat \ {0} /\ Len(events') = Len(events) - 1
      /\ DOMAIN events = 1..Len(events)
      /\ \A i \in DOMAIN events' : i + 1 \in DOMAIN events /\ events'[i] = events[i + 1]
      /\ Elems(events) = {m} \cup Elems(events')
  BY <1>1, <1>m, TailIs
<1>3. Len(arrived) \in Nat /\ Handled \in Nat /\ Handled' = Handled + 1 /\ Handled' <= Len(arrived)
  BY <1>0, <1>1, <1>2 DEF EventsAreLast, Handled
<1>4. arrived[Handled + 1] = m
  BY <1>0, <1>2 DEF EventsAreLast
<1>5. ArrivedOnce'
  BY <1>0, <1>1 DEF ArrivedOnce
<1>6. EventsAreLast'
  <2>1. \A i \in DOMAIN events' : i \in Nat
    BY <1>1
  <2>2. ASSUME NEW i \in DOMAIN events' PROVE events'[i] = arrived[Handled + 1 + i]
    <3>1. events'[i] = events[i + 1] /\ events[i + 1] = arrived[Handled + (i + 1)]
      BY <1>0, <1>2 DEF EventsAreLast
    <3>2. Handled + (i + 1) = Handled + 1 + i
      BY <1>3, <2>1
    <3>3. QED
      BY <3>1, <3>2
  <2>3. Len(events') <= Len(arrived)
    BY <1>0, <1>2, <1>3 DEF EventsAreLast
  <2>4. QED
    BY <1>1, <1>3, <2>2, <2>3 DEF EventsAreLast
<1>7. \A x : Done(x) => Done(x)' /\ Before(x, m) /\ x \in Elems(arrived) \ Elems(events)
  BY <1>0, <1>1, <1>3, <1>m, DoneIs DEF Done
<1>8. Done(m)' /\ m \in Elems(arrived) \ Elems(events')
  <2>1. Done(m)'
    BY <1>1, <1>3, <1>4 DEF Done
  <2>2. Handled + 1 \in DOMAIN arrived
    BY <1>1, <1>3
  <2>3. ASSUME NEW i \in DOMAIN events', events'[i] = m PROVE FALSE
    <3>1. i \in Nat \ {0} /\ i + 1 \in DOMAIN events /\ events[i + 1] = m
      BY <1>1, <1>2, <2>3
    <3>2. arrived[Handled + (i + 1)] = m /\ Handled + (i + 1) \in DOMAIN arrived
      BY <1>0, <1>1, <1>2, <1>3, <3>1 DEF EventsAreLast, Handled
    <3>3. Handled + (i + 1) = Handled + 1
      BY <1>0, <1>4, <2>2, <3>2 DEF ArrivedOnce
    <3>4. QED
      BY <1>3, <3>1, <3>3
  <2>4. QED
    BY <1>4, <2>1, <2>2, <2>3 DEF Elems
<1>9. \A x, y : Before(x, y)' <=> Before(x, y)
  BY <1>1 DEF Before
<1>10. \A e : Newer(e) \subseteq Newer(e)' /\ IsFiniteSet(Newer(e)')
  <2>1. IsFiniteSet(Elems(arrived))
    BY ArrivedFinite
  <2>2. \A e : Newer(e) \subseteq Newer(e)' /\ Newer(e)' \subseteq Elems(arrived)
    BY <1>1, <1>2 DEF Newer, Pos
  <2>3. QED
    BY <2>1, <2>2, FS_Subset
<1>11. \A e \in evicted : Cardinality(Newer(e)') >= CacheCap
  <2> TAKE e \in evicted
  <2>1. Cardinality(Newer(e)) <= Cardinality(Newer(e)') /\ IsFiniteSet(Newer(e))
    BY <1>10, FS_Subset
  <2>2. Cardinality(Newer(e)) \in Nat /\ Cardinality(Newer(e)') \in Nat
    BY <1>10, <2>1, FS_CardinalityType
  <2>3. QED
    BY <1>0, <2>1, <2>2, RestAssumption DEF NewestAreKept
<1>12. CASE T \notin DOMAIN cache
  <2>1. UNCHANGED <<cache, evicted>>
    BY <1>12, <1>m DEF Record
  <2>2. NewestAreKept' /\ EvictedIsDone'
    BY <1>0, <1>7, <1>11, <2>1 DEF NewestAreKept, EvictedIsDone
  <2>3. PollsSorted'
    BY ZenonT(60), <1>0, <1>1, <1>7, <1>9, <2>1 DEF PollsSorted, Sorted, Queue
  <2>4. QED
    BY <1>5, <1>6, <2>2, <2>3 DEF OrderInv
<1>13. CASE T \in DOMAIN cache
  <2> DEFINE q == cache[T]
             new == Recorded(m).queue
             out == Recorded(m).out
  <2>1. /\ cache' = [cache EXCEPT ![T] = new] /\ evicted' = evicted \cup out
    BY <1>13, <1>m DEF Record
  <2>2. T \in Topic /\ q \in Seq(Msg) /\ Queue(T) = q /\ Queue(T)' = new
    BY <1>13, <2>1 DEF TypeOK, Queue
  <2>3. \A t \in Topic \ {T} : Queue(t)' = Queue(t)
    BY <1>13, <2>1 DEF Queue
  <2>4. Sorted(q) /\ \A x \in Elems(q) : Done(x) /\ Before(x, m) /\ TopicOf[x] = T
    BY <1>0, <1>7, <2>2 DEF PollsSorted
  <2>5. /\ new \in Seq(Msg) /\ Sorted(new) /\ Elems(new) \subseteq Elems(q) \cup {m}
        /\ out \subseteq Elems(q)
        /\ \A x \in out : Len(new) >= CacheCap /\ \A y \in Elems(new) : Before(x, y)
    <3>1. CASE Len(q) >= CacheCap
      <4>1. q # <<>> /\ Len(q) \in Nat
        BY <2>2, <3>1, RestAssumption
      <4>2. new = Append(Tail(q), m) /\ out = {Head(q)}
        BY <3>1 DEF Recorded
      <4>3. /\ Tail(q) \in Seq(Msg) /\ Len(Tail(q)) = Len(q) - 1
            /\ Elems(q) = {Head(q)} \cup Elems(Tail(q))
        BY <2>2, <4>1, TailIs
      <4>4. Sorted(Tail(q)) /\ \A x \in Elems(Tail(q)) : Before(Head(q), x)
        BY <2>2, <2>4, <4>1, SortedTail
      <4>5. /\ Append(Tail(q), m) \in Seq(Msg) /\ Len(Append(Tail(q), m)) = Len(Tail(q)) + 1
            /\ Elems(Append(Tail(q), m)) = Elems(Tail(q)) \cup {m}
        <5>1. \A s \in Seq(Msg) : /\ Append(s, m) \in Seq(Msg) /\ Len(Append(s, m)) = Len(s) + 1
                                  /\ Elems(Append(s, m)) = Elems(s) \cup {m}
          BY AppendIs
        <5>2. QED
          BY ZenonT(60), <4>3, <5>1
      <4>6. Sorted(Append(Tail(q), m))
        BY ZenonT(60), <2>4, <4>3, <4>4, SortedAppend
      <4>7. Len(new) >= CacheCap
        BY <3>1, <4>1, <4>2, <4>3, <4>5, RestAssumption
      <4> HIDE DEF T, q
      <4>8. QED
        BY <2>4, <4>2, <4>3, <4>4, <4>5, <4>6, <4>7
    <3>2. CASE ~(Len(q) >= CacheCap)
      <4>1. new = Append(q, m) /\ out = {}
        BY <3>2 DEF Recorded
      <4>2. Append(q, m) \in Seq(Msg) /\ Elems(Append(q, m)) = Elems(q) \cup {m}
        BY <2>2, AppendIs
      <4>3. Sorted(Append(q, m))
        BY <2>2, <2>4, SortedAppend
      <4> HIDE DEF T, q
      <4>4. QED
        BY <4>1, <4>2, <4>3
    <3>3. QED
      BY ZenonT(60), <3>1, <3>2
  <2> HIDE DEF T, q, new, out
  <2>6. EvictedIsDone'
    BY <1>0, <1>7, <2>1, <2>4, <2>5 DEF EvictedIsDone
  <2>7. PollsSorted'
    <3> SUFFICES ASSUME NEW t \in Topic
                 PROVE  /\ \A x \in Elems(polled[t]) : Done(x)'
                        /\ \A x \in Elems(Queue(t)') : Done(x)' /\ TopicOf[x] = t
                        /\ Sorted(polled[t])' /\ Sorted(Queue(t))'
                        /\ \A x \in Elems(polled[t]), y \in Elems(Queue(t)') : Before(x, y)
      BY <1>1, <1>9 DEF PollsSorted
    <3>1. \A x \in Elems(polled[t]) : Done(x)' /\ Before(x, m)
      BY <1>0, <1>7 DEF PollsSorted
    <3>2. Sorted(polled[t])'
      BY <1>0, <1>1, <1>9 DEF PollsSorted, Sorted
    <3>3. CASE t = T
      <4>1. Sorted(Queue(t))'
        BY <1>9, <2>2, <2>5, <3>3 DEF Sorted
      <4>2. \A x \in Elems(new) : Done(x)' /\ TopicOf[x] = T
        BY <1>7, <1>8, <2>4, <2>5 DEF T
      <4>3. \A x \in Elems(polled[t]), y \in Elems(new) : Before(x, y)
        BY <1>0, <2>2, <2>5, <3>1, <3>3 DEF PollsSorted
      <4>4. QED
        BY <2>2, <3>1, <3>2, <3>3, <4>1, <4>2, <4>3
    <3>4. CASE t # T
      <4>1. Queue(t)' = Queue(t)
        BY <2>3, <3>4
      <4>2. Sorted(Queue(t))'
        BY <1>0, <1>9, <4>1 DEF PollsSorted, Sorted
      <4>3. QED
        BY ZenonT(60), <1>0, <1>7, <3>1, <3>2, <4>1, <4>2 DEF PollsSorted
    <3>5. QED
      BY <3>3, <3>4
  <2>8. ASSUME NEW e \in out PROVE Cardinality(Newer(e)') >= CacheCap
    <3>1. \A i, j \in DOMAIN new : new[i] = new[j] => i = j
      <4>1. \A i, j \in DOMAIN new : i < j => new[i] # new[j]
        BY <1>0, <2>5, BeforeIs DEF Sorted
      <4>2. \A i \in DOMAIN new : i \in Int
        BY <2>5
      <4>3. QED
        BY <4>1, <4>2
    <3>2. Elems(new) \subseteq Newer(e)'
      <4> SUFFICES ASSUME NEW y \in Elems(new) PROVE y \in Newer(e)'
        OBVIOUS
      <4>1. Pos(e) < Pos(y) /\ y \in Elems(arrived)
        BY <1>0, <2>5, <2>8, BeforeIs
      <4>2. Pos(e)' = Pos(e) /\ Pos(y)' = Pos(y)
        BY <1>1 DEF Pos
      <4>3. y \notin Elems(events')
        BY <1>2, <1>7, <1>8, <2>4, <2>5
      <4>4. TopicOf[y] = TopicOf[e]
        BY <2>4, <2>5, <2>8 DEF T
      <4>5. Pos(e) \in Int /\ Pos(y) \in Int
        <5>1. \A x \in Elems(arrived) : Pos(x) \in Int
          BY <1>0, <1>1, PosIs DEF Elems
        <5>2. QED
          BY <1>7, <2>4, <2>5, <2>8, <4>1, <5>1
      <4>6. QED
        BY <1>1, <4>1, <4>2, <4>3, <4>4, <4>5 DEF Newer
    <3>3. Cardinality(Newer(e)') >= Len(new)
      BY <1>10, <2>5, <3>1, <3>2, HoldsAsMany
    <3>4. Cardinality(Newer(e)') \in Nat
      BY <1>10, FS_CardinalityType
    <3>5. QED
      BY <2>5, <2>8, <3>3, <3>4, RestAssumption
  <2>9. NewestAreKept'
    BY <1>11, <2>1, <2>8 DEF NewestAreKept
  <2>10. QED
    BY <1>5, <1>6, <2>6, <2>7, <2>9 DEF OrderInv
<1>14. QED
  BY <1>12, <1>13

(* SubscribeInv and OrderInv hold in every reachable state. *)
THEOREM InductiveInvariant == Spec => [](SubscribeInv /\ OrderInv)
<1>1. Init => SubscribeInv /\ OrderInv
  <2> SUFFICES ASSUME Init PROVE SubscribeInv /\ OrderInv
    OBVIOUS
  <2>1. Elems(<<>>) = {} /\ Sorted(<<>>) /\ <<>> \in Seq(Msg) /\ Len(<<>>) = 0 /\ DOMAIN <<>> = {}
    BY DEF Elems, Sorted
  <2>2. cache = <<>> /\ \A t \in Topic : Queue(t) = <<>>
    BY <2>1 DEF Init, Queue
  <2>3. TypeOK
    BY <2>1, <2>2, RestAssumption DEF Init, TypeOK
  <2>4. HandlerKnows /\ RegisteredIsSubscribed /\ AutoGoesToShard
    BY <2>1 DEF Init, HandlerKnows, RegisteredIsSubscribed, AutoGoesToShard
  <2>5. PromisedIsRegistered /\ PromisedIsKept
    BY DEF Init, PromisedIsRegistered, PromisedIsKept
  <2>6. ArrivedOnce /\ EventsAreLast /\ EvictedIsDone /\ NewestAreKept
    BY <2>1 DEF Init, ArrivedOnce, EventsAreLast, EvictedIsDone, NewestAreKept
  <2>7. PollsSorted
    BY <2>1, <2>2 DEF Init, PollsSorted
  <2>8. QED
    BY <2>3, <2>4, <2>5, <2>6, <2>7 DEF SubscribeInv, OrderInv
<1>2. SubscribeInv /\ OrderInv /\ [Next]_vars => (SubscribeInv /\ OrderInv)'
  <2> SUFFICES ASSUME SubscribeInv, OrderInv, [Next]_vars PROVE (SubscribeInv /\ OrderInv)'
    OBVIOUS
  <2>0. TypeOK /\ HandlerKnows
    BY DEF SubscribeInv
  <2>1. SubscribeInv'
    BY <2>0, TypePreserved, SubscriptionsPreserved, PromisesPreserved DEF SubscribeInv
  <2>2. OrderInv'
    <3>1. CASE QuietStep
      BY <3>1, QuietIsQuiet, OrderUndisturbed DEF messageVars, Queue
    <3>2. ASSUME NEW r \in Request, Resume(r) PROVE OrderInv'
      <4>1. \A t \in Topic : Queue(t)' = Queue(t)
        BY <3>2 DEF Resume, Register, Queue
      <4>2. QED
        BY <3>2, <4>1, OrderUndisturbed DEF Resume, messageVars
    <3>3. ASSUME NEW p \in Post, NEW s \in Shard, Published(p, s) PROVE OrderInv'
      <4>1. \A t \in Topic : Queue(t)' = Queue(t)
        BY <3>3 DEF Published, Queue
      <4>2. QED
        BY <3>3, <4>1, OrderUndisturbed DEF Published
    <3>4. QED
      BY <2>0, <3>1, <3>2, <3>3, ArriveKeepsOrder, RecordKeepsOrder, GetKeepsOrder
         DEF Next, QuietStep
  <2>3. QED
    BY <2>1, <2>2
<1>3. QED
  BY <1>1, <1>2, PTL DEF Spec

(* Type correctness: the queues of the cache and the event channel keep to
   their capacities. *)
THEOREM TypeCorrect == Spec => []TypeOK
<1>1. SubscribeInv => TypeOK
  BY DEF SubscribeInv
<1>2. QED
  BY <1>1, InductiveInvariant, PTL

(* No message of a registered content topic goes missing between the event
   channel, the cache and the polls. *)
THEOREM PromisesAreKept == Spec => []PromisedIsKept
<1>1. SubscribeInv => PromisedIsKept
  BY DEF SubscribeInv
<1>2. QED
  BY <1>1, InductiveInvariant, PTL

(* relay_publish and relay_subscribe agree on the shard of a topic, and a topic
   is registered only after its subscription. *)
THEOREM AutoPublishIsHeard == Spec => []PublishersMeetSubscribers
<1>1. SubscribeInv => PublishersMeetSubscribers
  BY DEF SubscribeInv, RegisteredIsSubscribed, AutoGoesToShard, PublishersMeetSubscribers
<1>2. QED
  BY <1>1, InductiveInvariant, PTL

(* Polls return each message once, in the order of arrival. *)
THEOREM PollsAreOrdered == Spec => []PollsInOrder
<1>1. SubscribeInv /\ OrderInv => PollsInOrder
  <2> SUFFICES ASSUME SubscribeInv, OrderInv, NEW t \in Topic
               PROVE  LET h == polled[t] \o Queue(t)
                      IN \A i, j \in DOMAIN h : i < j => Pos(h[i]) < Pos(h[j])
    BY DEF PollsInOrder
  <2>1. TypeOK /\ ArrivedOnce /\ PollsSorted
    BY DEF SubscribeInv, OrderInv
  <2>2. polled[t] \in Seq(Msg) /\ Queue(t) \in Seq(Msg)
    BY <2>1 DEF TypeOK, Queue
  <2>3. Sorted(polled[t] \o Queue(t))
    BY <2>1, <2>2, SortedConcat DEF PollsSorted
  <2>4. \A x, y : Before(x, y) => Pos(x) < Pos(y)
    BY <2>1, BeforeIs
  <2>5. QED
    BY <2>3, <2>4 DEF Sorted
<1>2. QED
  BY <1>1, InductiveInvariant, PTL

(* The cap of the cache costs a topic only its oldest messages. *)
THEOREM CapDropsOldest == Spec => []NewestAreKept
<1>1. OrderInv => NewestAreKept
  BY DEF OrderInv
<1>2. QED
  BY <1>1, InductiveInvariant, PTL
=============================================================================
