---------------------------- MODULE RelayPipeline ----------------------------
(***************************************************************************)
(* What happens to a relay message: the gossipsub arm of handle_event in   *)
(* waku-node/src/runtime.rs with waku-relay's validate, the tasks it       *)
(* spawns to store messages, and the filter service it shares the driver   *)
(* with.  gossipsub queues the new messages of an RPC and hands them up    *)
(* one at a time; it takes a message again once its entry left the         *)
(* duplicate cache.                                                        *)
(*                                                                         *)
(* Time is a count of clock units, Second of them to a second.             *)
(***************************************************************************)
EXTENDS FilterRegistry, Sequences, FiniteSets

CONSTANTS
  Decodes,    \* messages whose topic parses and whose data decodes
  Ephemeral,  \* messages with ephemeral = Some(true)
  Stamp,      \* the timestamp of a message, or NoStamp
  NoStamp,
  Second,     \* clock units in a second
  Tolerance,  \* TIMESTAMP_TOLERANCE_SECS
  CacheTime,  \* duplicate_cache_time, in clock units
  MaxLag,     \* bound: how long a message waits in gossipsub's queue
  Half,       \* a timestamp is in -Half..Half-1 (2^63)
  Own,        \* messages that callers and light clients publish through us
  StoreOn,    \* whether the node has a store
  EvtCap,     \* capacity of the event channel
  QueueCap,   \* bound: messages waiting in gossipsub
  MaxNow      \* bound on the clock

ASSUME RelayAssumption ==
  /\ Second \in Nat \ {0} /\ Tolerance \in Nat /\ MaxLag \in Nat
  /\ Half \in Nat /\ CacheTime \in Nat /\ MaxNow \in Nat
  /\ \A m \in Msg : Stamp[m] = NoStamp \/ Stamp[m] \in -Half..(Half - 1)
  /\ CacheTime > 2 * ((Tolerance + 1) * Second - 1) + MaxLag
  /\ MaxNow + (Tolerance + 1) * Second < Half
  /\ StoreOn \in BOOLEAN /\ Own \in SUBSET Msg
  /\ EvtCap \in Nat \ {0} /\ QueueCap \in Nat \ {0}

VARIABLES
  now,       \* the clock
  cache,     \* when gossipsub last took each message, or -1
  queue,     \* gossipsub's Event::Message not handled yet
  handling,  \* <<m>> while the handler awaits the send of m's event
  events,    \* messages in the event channel
  run,       \* the driver: "up", "stopped", and "exited" with its process
  consumer,  \* whether the application holds the event receiver
  surfaced,  \* how often each message entered the event channel, up to 2
  puts,      \* spawned store.put tasks not finished yet
  stored,    \* messages in the store
  reported,  \* verdicts given to gossipsub
  taken,     \* when each message was last accepted, or -1
  posted     \* when this node last published it, with a valid timestamp, or -1

driverVars == <<queue, handling, run, reported>>
appVars == <<events, consumer, surfaced>>
storeVars == <<puts, stored>>
vars == <<now, cache, taken, posted, driverVars, appVars, storeVars, filterVars>>
-----------------------------------------------------------------------------
(* Arithmetic of i64: a difference of two timestamps wraps in the release
   build, a division truncates. *)
Wrap(n) == IF n >= Half THEN n - 2 * Half ELSE IF n < -Half THEN n + 2 * Half ELSE n

TruncDiv(a, b) == IF a >= 0 THEN a \div b ELSE -((-a) \div b)

Abs(n) == IF n >= 0 THEN n ELSE -n

TimestampGapSecs(m) == TruncDiv(Wrap(now - Stamp[m]), Second)

(* Mutant: only old messages are refused. *)
ValidateOldOnly(m) == Stamp[m] # NoStamp => TimestampGapSecs(m) <= Tolerance

(* validate with the default policy, which does not enforce RLN. *)
Validate(m) == Stamp[m] # NoStamp => Abs(TimestampGapSecs(m)) <= Tolerance

Init ==
  /\ now = 0
  /\ cache = [m \in Msg |-> -1]
  /\ queue = <<>>
  /\ handling = <<>>
  /\ events = <<>>
  /\ run = "up"
  /\ consumer = TRUE
  /\ surfaced = [m \in Msg |-> 0]
  /\ puts = {} /\ stored = {}
  /\ reported = {}
  /\ taken = [m \in Msg |-> -1] /\ posted = [m \in Msg |-> -1]
  /\ FilterInit

Tick ==
  /\ now < MaxNow
  /\ \A i \in DOMAIN queue : now < cache[queue[i]] + MaxLag
  /\ now' = now + 1
  /\ UNCHANGED <<cache, taken, posted, driverVars, appVars, storeVars, filterVars>>

Idle == run = "up" /\ handling = <<>>

(* gossipsub, polled between two handlers, reads a message it does not
   remember. *)
Gossip(m) ==
  /\ Idle
  /\ Len(queue) < QueueCap
  /\ cache[m] = -1 \/ now - cache[m] >= CacheTime
  /\ cache' = [cache EXCEPT ![m] = now]
  /\ queue' = Append(queue, m)
  /\ UNCHANGED <<now, taken, posted, handling, run, reported, appVars, storeVars, filterVars>>

(* Mutant: a message is published under another id than it arrives with. *)
PublishOtherId(m) ==
  /\ Idle
  /\ cache[m] = -1 \/ now - cache[m] >= CacheTime
  /\ posted' = [posted EXCEPT ![m] = IF Validate(m) THEN now ELSE @]
  /\ UNCHANGED <<now, cache, taken, driverVars, appVars, storeVars, filterVars>>

(* Command::Publish and serve_lightpush: gossipsub sends a message that it does
   not remember and keeps its id.  It is neither validated, nor stored, nor
   handed to our own application. *)
Publish(m) ==
  /\ Idle
  /\ cache[m] = -1 \/ now - cache[m] >= CacheTime
  /\ cache' = [cache EXCEPT ![m] = now]
  /\ posted' = [posted EXCEPT ![m] = IF Validate(m) THEN now ELSE @]
  /\ UNCHANGED <<now, taken, driverVars, appVars, storeVars, filterVars>>

Accepts(m) == m \in Decodes /\ Validate(m)

Persisted(m) == IF StoreOn /\ m \notin Ephemeral THEN {m} ELSE {}

(* Mutant: the verdict is reported before the event is sent. *)
AcceptReportsFirst(m) ==
  /\ Idle /\ queue # <<>> /\ m = Head(queue)
  /\ Accepts(m)
  /\ puts' = puts \cup Persisted(m)
  /\ PushFilterMatches(m)
  /\ handling' = <<m>>
  /\ reported' = reported \cup {<<m, "Accept">>}
  /\ taken' = [taken EXCEPT ![m] = now]
  /\ queue' = Tail(queue)
  /\ UNCHANGED <<now, cache, posted, run, appVars, stored>>

(* An accepted message up to evt_tx.send: spawn the put, push to filters. *)
Accept(m) ==
  /\ Idle /\ queue # <<>> /\ m = Head(queue)
  /\ Accepts(m)
  /\ puts' = puts \cup Persisted(m)
  /\ PushFilterMatches(m)
  /\ handling' = <<m>>
  /\ taken' = [taken EXCEPT ![m] = now]
  /\ queue' = Tail(queue)
  /\ UNCHANGED <<now, cache, posted, run, reported, appVars, stored>>

(* An undecodable message, or one validate refuses. *)
Reject(m) ==
  /\ Idle /\ queue # <<>> /\ m = Head(queue)
  /\ ~Accepts(m)
  /\ reported' = reported \cup {<<m, "Reject">>}
  /\ queue' = Tail(queue)
  /\ UNCHANGED <<now, cache, taken, posted, handling, run, appVars, storeVars, filterVars>>

(* Mutant: the handler awaits the put. *)
SentAfterPut ==
  /\ handling # <<>> /\ run = "up" /\ consumer
  /\ Len(events) < EvtCap
  /\ LET m == Head(handling) IN
       /\ m \notin puts
       /\ events' = Append(events, m)
       /\ surfaced' = [surfaced EXCEPT ![m] = IF @ = 2 THEN 2 ELSE @ + 1]
       /\ reported' = reported \cup {<<m, "Accept">>}
  /\ handling' = <<>>
  /\ UNCHANGED <<now, cache, taken, posted, queue, run, consumer, storeVars, filterVars>>

(* The rest of the handler: the event is in, the verdict is reported. *)
Sent ==
  /\ handling # <<>> /\ run = "up" /\ consumer
  /\ Len(events) < EvtCap
  /\ LET m == Head(handling) IN
       /\ events' = Append(events, m)
       /\ surfaced' = [surfaced EXCEPT ![m] = IF @ = 2 THEN 2 ELSE @ + 1]
       /\ reported' = reported \cup {<<m, "Accept">>}
  /\ handling' = <<>>
  /\ UNCHANGED <<now, cache, taken, posted, queue, run, consumer, storeVars, filterVars>>

(* The send fails when the receiver is gone: no verdict, the driver ends. *)
ConsumerGone ==
  /\ handling # <<>> /\ run = "up" /\ ~consumer
  /\ run' = "stopped"
  /\ handling' = <<>>
  /\ UNCHANGED <<now, cache, taken, posted, queue, reported, appVars, storeVars, filterVars>>

(* Command::Shutdown is taken between two handlers. *)
Shutdown ==
  /\ Idle
  /\ run' = "stopped"
  /\ UNCHANGED <<now, cache, taken, posted, queue, handling, reported, appVars, storeVars, filterVars>>

(* The process ends and cuts off the tasks that still run. *)
Exit ==
  /\ run = "stopped"
  /\ run' = "exited"
  /\ puts' = {}
  /\ UNCHANGED <<now, cache, taken, posted, queue, handling, reported, appVars, stored, filterVars>>

(* A filter-subscribe request, also between two handlers. *)
HandleFilterRequest ==
  /\ Idle
  /\ FilterRequest
  /\ UNCHANGED <<now, cache, taken, posted, driverVars, appVars, storeVars>>

(* A put task ends; a failure is only logged. *)
PutDone(m) ==
  /\ m \in puts
  /\ puts' = puts \ {m}
  /\ stored' = stored \cup {m}
  /\ UNCHANGED <<now, cache, taken, posted, driverVars, appVars, filterVars>>

PutFails(m) ==
  /\ m \in puts
  /\ puts' = puts \ {m}
  /\ UNCHANGED <<now, cache, taken, posted, driverVars, appVars, stored, filterVars>>

(* The application. *)
Receive ==
  /\ consumer /\ events # <<>>
  /\ events' = Tail(events)
  /\ UNCHANGED <<now, cache, taken, posted, driverVars, consumer, surfaced, storeVars, filterVars>>

DropConsumer ==
  /\ consumer
  /\ consumer' = FALSE
  /\ events' = <<>>
  /\ UNCHANGED <<now, cache, taken, posted, driverVars, surfaced, storeVars, filterVars>>

Next ==
  \/ Tick \/ Sent \/ ConsumerGone \/ Shutdown \/ Exit
  \/ Receive \/ DropConsumer \/ HandleFilterRequest
  \/ \E m \in Own : Publish(m)
  \/ \E m \in Msg : Gossip(m) \/ Accept(m) \/ Reject(m) \/ PutDone(m) \/ PutFails(m)

Spec == Init /\ [][Next]_vars

(* The application receives and the driver's task is polled.  A put may take
   for ever. *)
FairSpec ==
  /\ Spec
  /\ WF_vars(Sent) /\ WF_vars(ConsumerGone) /\ WF_vars(Receive)
  /\ \A m \in Msg : WF_vars(Accept(m) \/ Reject(m))
-----------------------------------------------------------------------------
(* Every variable holds a value of its type; the event channel and gossipsub's
   queue keep to their capacities. *)
TypeOK ==
  /\ FilterTypeOK
  /\ now \in 0..MaxNow
  /\ cache \in [Msg -> -1..MaxNow] /\ taken \in [Msg -> -1..MaxNow]
  /\ posted \in [Msg -> -1..MaxNow]
  /\ queue \in Seq(Msg) /\ Len(queue) <= QueueCap
  /\ handling = <<>> \/ \E m \in Msg : handling = <<m>>
  /\ events \in Seq(Msg) /\ Len(events) <= EvtCap
  /\ run \in {"up", "stopped", "exited"} /\ consumer \in BOOLEAN
  /\ surfaced \in [Msg -> 0..2]
  /\ puts \in SUBSET Msg /\ stored \in SUBSET Msg
  /\ reported \in SUBSET (Msg \X {"Accept", "Reject"})

(* A message that carries a timestamp reaches the application at most once:
   by the time gossipsub has forgotten it, its timestamp is out of tolerance,
   also when the first copy waited for a slow application (up to MaxLag). *)
StampedOnce == \A m \in Msg : Stamp[m] # NoStamp => surfaced[m] <= 1

(* A stamped message that the node published itself, with a timestamp its own
   validation would accept, never comes back to its application, whatever
   peers send it. *)
OwnNotEchoed ==
  \A m \in Msg : Stamp[m] # NoStamp /\ posted[m] >= 0 => handling # <<m>>

(* gossipsub is told to forward exactly what the application was given: no
   message is forwarded by a handler that then fails to hand it over. *)
ForwardedIsSurfaced ==
  \A m \in Msg : (<<m, "Accept">> \in reported) <=> surfaced[m] > 0

(* A message that gossipsub queued is handed over or refused, however full the
   event channel was, unless the driver ends first; and "DB latency never stalls
   the swarm": also if no put ever ends. *)
QueuedIsJudged ==
  \A m \in Msg :
    (run = "up" /\ \E i \in DOMAIN queue : queue[i] = m)
      ~> (\E v \in {"Accept", "Reject"} : <<m, v>> \in reported) \/ run # "up"
=============================================================================
