------------------------------- MODULE RestApi -------------------------------
(***************************************************************************)
(* The REST server of waku-rest/src/lib.rs and what main does for it.      *)
(* relay_subscribe handlers run as tasks of their own and give up the      *)
(* processor while the driver subscribes; main's loop records received     *)
(* messages; GET drains them.  The MessageCache is behind a mutex, so each *)
(* of its operations is one step.                                          *)
(*                                                                         *)
(* A shard, once subscribed, stays so: nothing in the program leaves one.  *)
(* A Msg is a message for as long as gossipsub's duplicate cache remembers *)
(* it: one that comes, or is published, again after that is another Msg.   *)
(***************************************************************************)
EXTENDS Integers, Sequences, FiniteSets

CONSTANTS
  Shard,
  Topic,       \* content topics that parse
  ShardOf,     \* autoshard of each of them
  Request,     \* POSTs of subscriptions
  Body,        \* their strings, in order; those not in Topic do not parse
  Msg, TopicOf,
  ComesOn,     \* the shard other nodes publish a message on
  Post,        \* publish requests: [msg, pubsub, decodes]; pubsub is the shard
               \* a light push names, BadShard, or AutoShard
  AutoShard, BadShard,
  Configured,  \* shards main subscribes to at start-up
  CacheCap,    \* CACHE_PER_TOPIC
  EvtCap       \* capacity of the event channel

ASSUME RestAssumption ==
  /\ ShardOf \in [Topic -> Shard]
  /\ \A m \in Msg : ComesOn[m] \in Shard
  /\ \A p \in Post : p.msg \in Msg /\ p.pubsub \in Shard \cup {AutoShard, BadShard}
  /\ {AutoShard, BadShard} \cap Shard = {}
  /\ Configured \in SUBSET Shard
  /\ CacheCap \in Nat \ {0} /\ EvtCap \in Nat \ {0}

VARIABLES
  subs,      \* shards gossipsub is subscribed to
  starting,  \* shards main has yet to subscribe to
  cache,     \* MessageCache: the queue of each registered topic
  at,        \* the string of its body a subscribe request is at
  status,    \* "new", "awaiting", "replied", "orphaned", "dropped" or the answer
  answer,    \* of each publish request
  onWire,    \* messages we published: <<message, shard, whether auto>>
  seen,      \* message ids in gossipsub's duplicate cache
  events,    \* messages in the event channel
  arrived,   \* messages in the order in which they entered it
  promised,  \* those of them whose topic was registered by then
  polled,    \* what GETs returned for each topic, in order
  evicted    \* messages pushed out of a full queue

requestVars == <<at, status>>
publishVars == <<answer, onWire>>
messageVars == <<seen, events, arrived, promised>>
vars == <<subs, starting, cache, requestVars, publishVars, messageVars, polled, evicted>>

Elems(s) == {s[i] : i \in DOMAIN s}

Init ==
  /\ subs = {} /\ starting = Configured
  /\ cache = <<>>
  /\ at = [r \in Request |-> 1] /\ status = [r \in Request |-> "new"]
  /\ answer = [p \in Post |-> "none"] /\ onWire = {}
  /\ seen = {} /\ events = <<>> /\ arrived = <<>> /\ promised = {}
  /\ polled = [t \in Topic |-> <<>>] /\ evicted = {}
-----------------------------------------------------------------------------
(* Where the handler stands when it turns to the i-th string: past the last
   one it answers, a string that does not parse ends it, and otherwise it
   awaits node.subscribe. *)
Turn(r, i) ==
  /\ at' = [at EXCEPT ![r] = i]
  /\ status' = [status EXCEPT ![r] =
       IF i > Len(Body[r]) THEN "200" ELSE IF Body[r][i] \notin Topic THEN "400" ELSE "awaiting"]

Submit(r) ==
  /\ status[r] = "new"
  /\ Turn(r, 1)
  /\ UNCHANGED <<subs, starting, cache, publishVars, messageVars, polled, evicted>>

(* The driver subscribes and replies; the handler is not resumed yet, or is no
   longer there. *)
Subscribed(r) ==
  /\ status[r] \in {"awaiting", "orphaned"}
  /\ subs' = subs \cup {ShardOf[Body[r][at[r]]]}
  /\ status' = [status EXCEPT ![r] = IF @ = "awaiting" THEN "replied" ELSE "dropped"]
  /\ UNCHANGED <<starting, cache, at, publishVars, messageVars, polled, evicted>>

(* Mutant: the topic is registered whether or not the subscription succeeds. *)
SubscribeFailsQuietly(r) ==
  /\ status[r] = "awaiting"
  /\ cache' = [u \in DOMAIN cache \cup {Body[r][at[r]]} |-> IF u \in DOMAIN cache THEN cache[u] ELSE <<>>]
  /\ Turn(r, at[r] + 1)
  /\ UNCHANGED <<subs, starting, messageVars, publishVars, polled, evicted>>

(* gossipsub refuses, or the driver has stopped. *)
SubscribeFails(r) ==
  /\ status[r] = "awaiting"
  /\ status' = [status EXCEPT ![r] = "503"]
  /\ UNCHANGED <<subs, starting, cache, at, publishVars, messageVars, polled, evicted>>

(* The client hangs up and axum drops the handler at its await; the command it
   sent, if it had, stays in the driver's queue. *)
HangUp(r) ==
  /\ status[r] \in {"awaiting", "replied"}
  /\ status' = [status EXCEPT ![r] = IF @ = "awaiting" THEN "orphaned" ELSE "dropped"]
  /\ UNCHANGED <<subs, starting, cache, at, publishVars, messageVars, polled, evicted>>

(* Mutant: registering a topic again empties its queue. *)
RegisterAfresh(t) ==
  cache' = [u \in DOMAIN cache \cup {t} |-> IF u = t THEN <<>> ELSE cache[u]]

(* MessageCache::register *)
Register(t) ==
  cache' = [u \in DOMAIN cache \cup {t} |-> IF u \in DOMAIN cache THEN cache[u] ELSE <<>>]

Resume(r) ==
  /\ status[r] = "replied"
  /\ Register(Body[r][at[r]])
  /\ Turn(r, at[r] + 1)
  /\ UNCHANGED <<subs, starting, messageVars, publishVars, polled, evicted>>
-----------------------------------------------------------------------------
(* main subscribes to the configured shards before it receives events; the
   REST server is up already. *)
StartupSubscribe(s) ==
  /\ s \in starting
  /\ subs' = subs \cup {s} /\ starting' = starting \ {s}
  /\ UNCHANGED <<cache, requestVars, publishVars, messageVars, polled, evicted>>

(* A new message on one of our shards passes the relay pipeline. *)
Arrive(m) ==
  /\ ComesOn[m] \in subs /\ m \notin seen
  /\ Len(events) < EvtCap
  /\ seen' = seen \cup {m}
  /\ events' = Append(events, m) /\ arrived' = Append(arrived, m)
  /\ promised' = IF TopicOf[m] \in DOMAIN cache THEN promised \cup {m} ELSE promised
  /\ UNCHANGED <<subs, starting, cache, requestVars, publishVars, polled, evicted>>

(* Mutant: a queue keeps one message less than it may. *)
RecordEarly(m) ==
  LET q == cache[TopicOf[m]] IN
    IF Len(q) >= CacheCap - 1 /\ q # <<>>
      THEN [queue |-> Append(Tail(q), m), out |-> {Head(q)}]
      ELSE [queue |-> Append(q, m), out |-> {}]

(* MessageCache::record on a registered topic: the oldest makes room. *)
Recorded(m) ==
  LET q == cache[TopicOf[m]] IN
    IF Len(q) >= CacheCap
      THEN [queue |-> Append(Tail(q), m), out |-> {Head(q)}]
      ELSE [queue |-> Append(q, m), out |-> {}]

(* main's loop takes an event; the message of another topic is ignored. *)
Record ==
  /\ starting = {} /\ events # <<>>
  /\ events' = Tail(events)
  /\ LET m == Head(events) IN
       IF TopicOf[m] \in DOMAIN cache
         THEN /\ cache' = [cache EXCEPT ![TopicOf[m]] = Recorded(m).queue]
              /\ evicted' = evicted \cup Recorded(m).out
         ELSE UNCHANGED <<cache, evicted>>
  /\ UNCHANGED <<subs, starting, requestVars, seen, arrived, promised, publishVars, polled>>

(* Mutant: the messages stay. *)
DrainKeeps(t) == cache

(* MessageCache::drain; a topic that is not registered has no messages. *)
Drained(t) == [cache EXCEPT ![t] = <<>>]

Get(t) ==
  /\ polled' = [polled EXCEPT ![t] = @ \o (IF t \in DOMAIN cache THEN cache[t] ELSE <<>>)]
  /\ cache' = IF t \in DOMAIN cache THEN Drained(t) ELSE cache
  /\ UNCHANGED <<subs, starting, requestVars, messageVars, publishVars, evicted>>
-----------------------------------------------------------------------------
TargetShards(p) ==
  IF p.pubsub = AutoShard
    THEN {ShardOf[t] : t \in {TopicOf[p.msg]} \cap Topic}
    ELSE {p.pubsub} \ {BadShard}

(* relay_publish and lightpush up to node.publish: the shard is autoshard of
   the content topic or the one named, if that parses. *)
Refused(p) ==
  /\ answer[p] = "none"
  /\ TargetShards(p) = {} \/ ~p.decodes
  /\ answer' = [answer EXCEPT ![p] = "400"]
  /\ UNCHANGED <<subs, starting, cache, requestVars, onWire, messageVars, polled, evicted>>

(* gossipsub takes a message that it does not remember; none of our own comes
   back as an event. *)
Published(p, s) ==
  /\ answer[p] = "none" /\ s \in TargetShards(p) /\ p.decodes
  /\ p.msg \notin seen
  /\ seen' = seen \cup {p.msg}
  /\ onWire' = onWire \cup {<<p.msg, s, p.pubsub = AutoShard>>}
  /\ answer' = [answer EXCEPT ![p] = "200"]
  /\ UNCHANGED <<subs, starting, cache, requestVars, events, arrived, promised, polled, evicted>>

(* A duplicate, no peers, or a driver that has stopped. *)
PublishFails(p) ==
  /\ answer[p] = "none" /\ TargetShards(p) # {} /\ p.decodes
  /\ answer' = [answer EXCEPT ![p] = "503"]
  /\ UNCHANGED <<subs, starting, cache, requestVars, onWire, messageVars, polled, evicted>>

Next ==
  \/ \E r \in Request : Submit(r) \/ Subscribed(r) \/ SubscribeFails(r) \/ HangUp(r) \/ Resume(r)
  \/ \E s \in Shard : StartupSubscribe(s)
  \/ \E m \in Msg : Arrive(m)
  \/ Record
  \/ \E t \in Topic : Get(t)
  \/ \E p \in Post : Refused(p) \/ PublishFails(p) \/ \E s \in Shard : Published(p, s)

Spec == Init /\ [][Next]_vars
-----------------------------------------------------------------------------
(* Every variable holds a value of its type; no queue is longer than its cap. *)
TypeOK ==
  /\ subs \in SUBSET Shard /\ starting \in SUBSET Shard
  /\ DOMAIN cache \in SUBSET Topic
  /\ \A t \in DOMAIN cache : cache[t] \in Seq(Msg) /\ Len(cache[t]) <= CacheCap
  /\ at \in [Request -> Nat \ {0}]
  /\ status \in [Request -> {"new", "awaiting", "replied", "orphaned", "dropped", "200", "400", "503"}]
  /\ answer \in [Post -> {"none", "200", "400", "503"}]
  /\ onWire \in SUBSET (Msg \X Shard \X BOOLEAN)
  /\ seen \in SUBSET Msg /\ promised \in SUBSET Msg /\ evicted \in SUBSET Msg
  /\ events \in Seq(Msg) /\ Len(events) <= EvtCap
  /\ arrived \in Seq(Msg)
  /\ polled \in [Topic -> Seq(Msg)]

Queue(t) == IF t \in DOMAIN cache THEN cache[t] ELSE <<>>

(* "Start caching their messages for polling": from the moment a topic is
   registered no message of it goes missing, whatever requests subscribe to it
   again, fail half-way or poll it meanwhile; it waits for main, is in the
   queue, was polled, or was pushed out by the cap. *)
PromisedIsKept ==
  \A m \in promised :
    m \in Elems(events) \cup Elems(Queue(TopicOf[m])) \cup Elems(polled[TopicOf[m]]) \cup evicted

Pos(m) == CHOOSE i \in DOMAIN arrived : arrived[i] = m

(* The polls of a topic, however many clients make them, return each message
   once and in the order of arrival. *)
PollsInOrder ==
  \A t \in Topic :
    LET h == polled[t] \o Queue(t)
    IN \A i, j \in DOMAIN h : i < j => Pos(h[i]) < Pos(h[j])

(* Messages of m's topic that main recorded and that arrived after m. *)
Newer(m) ==
  {n \in Elems(arrived) \ Elems(events) : TopicOf[n] = TopicOf[m] /\ Pos(n) > Pos(m)}

(* A message is pushed out only by as many newer ones of its topic as the
   cache holds. *)
NewestAreKept == \A m \in evicted : Cardinality(Newer(m)) >= CacheCap

(* What the auto endpoint publishes goes where those who registered its topic
   listen: no topic is registered, not even by a request that failed half-way or
   whose client hung up, without the subscription to the shard that autoshard
   gives publisher and subscriber alike. *)
PublishersMeetSubscribers ==
  \A w \in onWire : w[3] /\ TopicOf[w[1]] \in DOMAIN cache => w[2] \in subs
=============================================================================
