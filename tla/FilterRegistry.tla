--------------------------- MODULE FilterRegistry ----------------------------
(***************************************************************************)
(* The filter service of waku-node/src/runtime.rs: apply_filter_request    *)
(* and push_filter_matches on the FilterRegistry.  A filter is a pubsub    *)
(* topic, or none, and a list of content topics.  The Vec of a client is   *)
(* the number of times each filter occurs in it: the code pushes without   *)
(* looking for an equal one, and its order does not matter.                *)
(***************************************************************************)
EXTENDS Integers, Sequences, FiniteSets

CONSTANTS
  Client,   \* peers that use our filter service
  Filter,   \* the filters they ask for: [topic, content_topics]
  Msg,      \* relayed messages
  TopicOf, ContentTopicOf,  \* of a message
  NoTopic,  \* FilterSub::pubsub_topic is None
  MaxSubs   \* bound: copies of one filter a client installs

ASSUME FilterAssumption == MaxSubs \in Nat \ {0}

VARIABLES
  filters,  \* FilterRegistry: how often each filter occurs at each client
  acked,    \* the request answered 200 last, <<>> once a message was relayed
  pushes    \* the MessagePush requests the last relayed message caused, by client

filterVars == <<filters, acked, pushes>>

(* FilterSub::matches; no content topics is all of them. *)
Matches(f, m) ==
  /\ f.topic \in {NoTopic, TopicOf[m]}
  /\ f.content_topics = <<>> \/ \E i \in DOMAIN f.content_topics : f.content_topics[i] = ContentTopicOf[m]

NoPush == [p \in Client |-> <<>>]

FilterInit ==
  /\ filters = [p \in Client |-> [f \in Filter |-> 0]]
  /\ acked = <<>>
  /\ pushes = NoPush

Ack(request) == acked' = request /\ pushes' = NoPush

Subscribe(p, f) ==
  /\ filters[p][f] < MaxSubs
  /\ filters' = [filters EXCEPT ![p][f] = @ + 1]
  /\ Ack(<<"SUBSCRIBE", p, f>>)

(* retain drops every entry equal to the request's filter, topics in the same
   order. *)
Unsubscribe(p, f) ==
  /\ filters' = [filters EXCEPT ![p][f] = 0]
  /\ Ack(<<"UNSUBSCRIBE", p, f>>)

UnsubscribeAll(p) ==
  /\ filters' = [filters EXCEPT ![p] = [f \in Filter |-> 0]]
  /\ Ack(<<"UNSUBSCRIBE_ALL", p>>)

(* A PING, a request of unknown type (answered 400), and the client's
   disconnection leave the registry alone. *)
FilterNoop == UNCHANGED filterVars

FilterRequest ==
  \/ \E p \in Client, f \in Filter : Subscribe(p, f) \/ Unsubscribe(p, f)
  \/ \E p \in Client : UnsubscribeAll(p)
  \/ FilterNoop

(* One push per client with some matching filter, however many match. *)
Targets(m) == {p \in Client : \E f \in Filter : filters[p][f] > 0 /\ Matches(f, m)}

(* Mutant: one push per filter that matches. *)
PushPerFilter(m) ==
  /\ pushes' = [p \in Client |->
       LET matching == {e \in Filter \X (1..MaxSubs) : e[2] <= filters[p][e[1]] /\ Matches(e[1], m)}
       IN [i \in 1..Cardinality(matching) |-> m]]
  /\ acked' = <<>>
  /\ UNCHANGED filters

PushFilterMatches(m) ==
  /\ pushes' = [p \in Client |-> IF p \in Targets(m) THEN <<m>> ELSE <<>>]
  /\ acked' = <<>>
  /\ UNCHANGED filters

FilterNext == FilterRequest \/ \E m \in Msg : PushFilterMatches(m)

FilterSpecification == FilterInit /\ [][FilterNext]_filterVars
-----------------------------------------------------------------------------
Request ==
  {<<"SUBSCRIBE", p, f>> : p \in Client, f \in Filter}
    \cup {<<"UNSUBSCRIBE", p, f>> : p \in Client, f \in Filter}
    \cup {<<"UNSUBSCRIBE_ALL", p>> : p \in Client}

(* Every client has a count for every filter, requests are answered and
   relayed messages pushed. *)
FilterTypeOK ==
  /\ filters \in [Client -> [Filter -> 0..MaxSubs]]
  /\ acked \in Request \cup {<<>>}
  /\ pushes \in [Client -> Seq(Msg)]

Wants == [p \in Client |-> {f \in Filter : filters[p][f] > 0}]

Abstract == INSTANCE FilterSpec WITH wants <- Wants

(* The registry implements the filter service: a filter installed twice pushes
   once, and when an unsubscribe is acknowledged the filter is gone however
   often it was installed. *)
ImplementsFilterSpec == Abstract!Spec
=============================================================================
