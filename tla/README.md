# rs-waku in TLA+

Specifications of the parts of rs-waku (`src/`) that are concurrent, stateful or
easy to get wrong, with TLC configurations that check them on small instances
and TLAPS proofs of the properties that matter most. Every definition follows
the Rust code; `PROJECT.json` gives the source lines of each one (`map`), the
runs, the hazards each property is aimed at, and the proved theorems.

Run a check with `tlc -config MCNodeDriver.cfg MCNodeDriver`, a proof with
`tlapm NodeDriverProofs.tla`.

## The system

A node is one tokio task, `run` in `crates/waku-node/src/runtime.rs`, which owns
the libp2p swarm and alternates between two sources: commands that
`NodeHandle` methods send through a channel of 64, and swarm events. A handler
of a swarm event may end in `evt_tx.send(..).await` on a channel of 256 that the
application drains; until there is room the task does nothing else.

| Part | Source | Module | Status |
|---|---|---|---|
| Driver: `NodeHandle`, channels, `run`, pending requests | `waku-node/src/runtime.rs` | `NodeDriver`, `CallSpec` | modelled; refinement proved |
| Connections, ip-colocation guard, metadata handshake | `runtime.rs`, `waku-metadata` | `Connections` | requester's side; proved |
| Relay: validation, verdicts, store-on-relay, own publishes | `runtime.rs`, `waku-relay` | `RelayPipeline` | default policy; proved |
| Filter service | `runtime.rs`, `waku-filter` | `FilterRegistry`, `FilterSpec` | server side; refinement proved |
| Request rate limits | `waku-node/src/ratelimit.rs` | `RateLimiter` | modelled, proved |
| Light push | `waku-lightpush`, `runtime.rs` | `LightPush`, `Framing` | both sides; proved |
| Store and store query | `waku-store` | `MessageStore` | put, retention, paging; proved |
| RLN validator | `waku-rln` | `RlnValidator` | all but the proof system; proved |
| Key file, DNS discovery, discovery loop, peer book, peer exchange | `main.rs`, `waku-discv5`, `runtime.rs` | `Discovery` | proved |
| Relay-shards fields of ENRs | `waku-enr`, `waku-discv5` | `Enr` | modelled; both forms proved |
| Binary: start-up, event loop, signals | `wakunode/src/main.rs` | `WakunodeMain` | composed with `NodeDriver`; what may stop it proved |
| REST API | `waku-rest`, `main.rs` | `RestApi`, calls in `WakunodeMain` | what changes state; proved |
| Core types, protobuf and text encodings, metrics, config file, SDS | own crates | none | not modelled |

`WakunodeMain` extends `NodeDriver`, `RelayPipeline` extends `FilterRegistry`,
`LightPush` extends `RateLimiter` and `Framing`, and `Discovery` extends `Enr`,
because those parts share a task, state or data. The other modules share nothing with
each other but the driver's rule that one handler runs at a time, which each of
them states for itself (`sending`, `handling`, `Idle`).

An `MC...` module gives the constants of a module small values; a `...Proofs`
module holds its theorems, and those of the modules it composes
(`RelayPipelineProofs` the filter's, `LightPushProofs` the limiter's and the frames',
`NodeDriverProofs` the binary's, `DiscoveryProofs` the ENR fields'). Definitions commented as *Mutant* are wrong variants
of the operator after them, kept to show that a property can fail.

## Modules

**NodeDriver.** A call is one invocation of a `NodeHandle` method, or one `Dial`
sent by `discovery_loop`. `Begin`, `Enqueue`/`EnqueueFails`, `Return` are its
awaits; `Abandon` is a caller whose future is dropped. `HandleCommand`,
`AllHandlesDropped`, `SwarmEvent`, `Sent`, `ConsumerGone` are the steps of
`run`, `Settle` the response or failure of a request. `Stop` is what leaving the
loop drops: the queued commands, `Pending`, the swarm. Events that change nothing of
this are stuttering steps. So is the other await of a handler, `store_query::serve`
for the query of a peer: the task takes no step until the database has answered.

**CallSpec.** What a `NodeHandle` promises, without channels, queues and requests: a
node that is up or not, and per call what was decided and what the caller was told.
The refinement reads "decided" off the oneshot, "told" off the caller, and "up" off
`run`. A `shutdown` has no oneshot and is told ok when its command is sent.

**WakunodeMain.** `main` on top of the driver: `spawn`, subscribes, dials, then the
`select!` over signals and events, then `shutdown()`. REST calls come from tasks
of their own. The driver runs from within `spawn`; `main` receives no event before
its loop nor while it awaits a call, and nothing bounds the events meanwhile.

**Connections.** `Accept`, `Refuse`, `Closed` are the connection arms of
`handle_event`, `MetadataResponse` and `MetadataFailure` the handshake. libp2p's
part (limits, `disconnect_peer_id` closing all connections of a peer) is in
`Admitted` and `Disconnecting`. `seen` is an application's own view, built from
events.

**RelayPipeline.** `Gossip` is gossipsub taking a message it does not remember;
`Accept`/`Reject`/`Sent` are the relay arm of `handle_event`, cut at the await;
`Publish` is the node's own message, whose id enters the duplicate cache;
`PutDone`/`PutFails` are the spawned store tasks, which may also hang; `Exit` cuts
them off.
Timestamps are 64-bit integers (`Half` for 2^63) with wrapping subtraction and
truncating division. `surfaced`, `posted`, `taken` only record history.

**FilterRegistry, FilterSpec.** `FilterSpec` is the promise: a client has a set
of filters and gets one push for a message that some filter matches. The registry
keeps a list with repetitions, here a count per filter. The refinement maps a
count to membership; the pushes of a step are compared as they are sent, in number
too. Unsubscribing compares the content topics in order, as the
code's `Vec` equality does.

**RateLimiter.** Tokens are counted in units of 1/`Period`, so refill is exact;
the rounding of `f64` is left out. A window opened at any instant counts allowed
requests, so a bound on it is a bound on every window.

**Framing, LightPush.** `Framing` has the varint and the length-prefixed frame,
with `Group` for 2^7 and `Word` for 2^64; the other request-response crates have
copies of these functions. `LightPush` is a push from the handling of its command
to the reply: `ReadRequest` and `ReadResponse` get a prefix of what the other side
wrote, `Limited`, `MissingMessage`, `Published`, `PublishFails` are the server's
four answers, `Fails` is any `OutboundFailure`. A failed call may be made again once
the server is done with its request; meanwhile another call may push the same
message. `cached` is gossipsub's duplicate cache, which may forget a message after
`CacheTime`; `by` and `at` record who made it publish, and when. The protobuf
encoding is an injective function.

**RestApi.** A subscribe request goes through its strings one by one: `Submit`,
then for each string `Subscribed` (the driver), `Resume` (the handler, which
registers the topic) or `SubscribeFails`; `HangUp` drops the handler at its await, and
the driver still subscribes if the command was queued. A message is one for as long
as gossipsub's duplicate cache remembers it: one that returns later is another here.
`Arrive` is the driver putting a message in the event channel, `Record` main's loop
taking it, `Get` a poll. `Refused`, `Published`, `PublishFails` are the outcomes of
the two publish endpoints. `arrived`, `promised`, `polled`, `evicted` record
history.

**MessageStore.** A table from hash to `sort_time` and a client that walks a
query. A query is two statements (`Resolve`, `Select`) with no transaction, so
`Put`, `DeleteOlderThan` and `EnforceCapacity` run in between. `issued` and `moved`
record the key a cursor had when it was handed out, and which cursors were looked up
under another. `page_size` is an
unsigned integer below twice `SignBit` (2^63), cast to signed as the code does.

**RlnValidator.** Several nodes with membership trees of their own; proofs may
reach any node at any time, any number of times. zerokit is taken at its word:
nullifiers are equal exactly for equal identity, epoch and slot, shares exactly
for equal nullifier and signal; a root is the sequence of leaves. `forget_epoch` has
no caller and is left out: the log only grows.

**Discovery.** The life of a node's discovery, from `load_or_create_key` on.
`GenerateKey` creates the file and `WriteKey` fills it; `Crash` may come between
any two steps and leaves nothing but the file. Then the `enrtree://` trees are
walked one after the other, with a resolver that may fail or return the content of
another node, and `discovery_loop` takes the bootstrap records and rounds of
discv5 results. `dial_discovered` marks a peer as known, then awaits room for its
command. `ServedPeers` is the answer to a peer-exchange query. Content is known by
its hash. `lost` records what a walk could not get.

**Enr.** The relay-shards field as bytes of `Bits` bits: the list (`rs`) and the bit
vector (`rsv`), writing and reading. Our own records have the list; records of other
implementations may have either. What they write is taken to be what
`to_bit_vector` writes; whether theirs has the same order of bits is not in the
repository.

## Runs

| Run | Properties | Shows |
|---|---|---|
| `driver` | `OneSenderPerReply` `PendingIsInFlight` `ImplementsCallSpec` `CallsReturn` `ShutdownStops` `DroppedHandlesStop` | every call returns, with what was decided about it or, if nothing ever will be, `NodeStopped`, whatever stops the driver and whoever hangs up |
| `driver_discovery` (violated) | `DroppedHandlesStop` | with discovery on, dropping all handles does not stop `run` |
| `wakunode` | `StartupEndsOrFills` `SignalExitsUnlessFull` `RestCallsReturn` | start-up and shutdown of the binary get stuck in no other way than on a full event channel |
| `startup` (violated) | `StartupCompletes` | `main` and the driver may wait for each other before the event loop |
| `connections` | `NobodyLockedOut` `ConnectedIsLive` `AppViewConverges` `MismatchDrops` | no address is locked out, no departed peer is listed, event stream and `connected_peers` agree |
| `ip_limit` (violated) | `IpLimitHolds` | a refused connection gives back a slot twice |
| `relay` | `StampedOnce` `OwnNotEchoed` `ForwardedIsSurfaced` `QueuedIsJudged` `ImplementsFilterSpec` | no stamped message surfaces twice or comes back to its publisher, verdicts match what the application got and do not wait for the store, light clients get the filter service |
| `light_push` | `WindowBounded` `DeniedOnlyIfBusy` `FramesAreExact` `AnswersAreTrue` | the limit holds in every window and hits only clients above their rate; cut streams and retries never give a wrong answer |
| `rest` | `PromisedIsKept` `PollsInOrder` `NewestAreKept` `PublishersMeetSubscribers` | what arrives for a registered topic is polled once and in order, or pushed out by newer messages; publishers and subscribers meet |
| `store` | `CompleteWalk` `PagesAdvance` `WalkEnds` | paging misses nothing under concurrent writes and sweeps |
| `rln` | `RateLimited` `FlaggedIsGuilty` | the rate limit holds on every node; honest members are never flagged |
| `discovery` | `WalkFindsAll` `ServesDistinctPeers` `IdentityIsStable` `ShardsAsAdvertised` `DialledOnce` `KnownIsDialled` `LoopEnds` | one identity through crashes, the walk finds what the tree holds, records are read as written, each peer is dialled once, the task ends with the driver |

The type invariants are not runs' properties; each module with an inductive
invariant has its own proved (`TypeCorrect`).

### Findings

Three runs are expected to fail; each shows where the code and its documentation
disagree.

- `ip_limit`. A connection over the limit is uncounted in `ConnectionEstablished`
  (`runtime.rs:940`) and again when it closes (`runtime.rs:963`), so an address
  can hold more than "Max concurrent connections from a single IP"
  (`runtime.rs:205`). The double release never errs to the other side:
  `NobodyLockedOut` holds. A `Refuse` that leaves the count to `Closed` satisfies
  both in the run's instance.
- `driver_discovery`. The comment on `runtime.rs:786` says "shutdown or all
  handles dropped", but `discovery_loop` holds a sender and waits for the channel
  to close, which only `run` can do.
- `startup`. "Drive the event stream until a shutdown signal" (`main.rs:288`) is a
  loop that `main` may never reach. `spawn` starts the driver (`runtime.rs:621`), and
  `main` receives nothing until its subscribes and dials have returned. With one
  event more than the channel's 256 before that, the driver waits for `main` inside
  a handler and `main` for the driver's reply; `StartupDeadlock` proves that neither
  moves again. The same wait is possible at shutdown (`main.rs:303`), against
  "graceful shutdown (Ctrl-C/SIGTERM → clean stop)" (`README.md:126`): if the command
  channel is full as well, `shutdown()` finds no room (`ShutdownDeadlock`).
  `SignalExitsUnlessFull` shows that this is the only way.

Smaller observations met while modelling:

- `connected_peers` drops a peer when one of its two connections closes
  (`runtime.rs:969`); `ConnectedIsLive` holds, its converse does not.
- A cursor that retention deleted restarts a walk from the first page
  (`sqlite.rs:176`), which is why `PagesAdvance` and `WalkEnds` assume no sweep.
  A message without a timestamp that is swept and stored again moves in the sort
  order; as a cursor it can make a walk skip rows. `CompleteWalk` excepts walks in
  which a cursor was looked up under another key than it was issued with, and says
  that such a cursor had no timestamp and its row was swept.
- `page_size.max(1) as i64` is negative from 2^63 on (`sqlite.rs:231`), and
  `limit + 1` of 2^63 - 1 wraps (in a build without overflow checks). SQLite takes
  either as "no limit". Of u64::MAX, `limit + 1` is 0: the page is empty and the
  walk is over, which `CompleteWalk` excludes.
- `enforce_capacity` casts `max as i64` too (`sqlite.rs:91`). SQLite takes a negative
  OFFSET as 0, so a `max` from 2^63 on deletes every row, where the comment says "Keep
  only the `max` most recent messages".
- The timestamp gap is divided before it is compared (`runtime.rs:993`), so a
  tolerance of 20 s accepts gaps up to 20.99 s. `Window` in the proofs says so.
- `relay_config` speaks of a 150 KiB limit "enforced separately at the validation
  layer" (`waku-relay/src/lib.rs:67`), which `validate` does not do.
- A process that ends while `fs::write` fills the key file (`main.rs:117`) leaves a
  file that every later start rejects until somebody removes it. Rejecting it is
  what keeps `IdentityIsStable`.
- A light push whose answer was lost is told 503 (duplicate) when it is made again,
  although the message is published (`runtime.rs:1289`). `AnswersAreTrue` says that
  200 means "by this request", and that two calls are told so of one message only if
  the duplicate cache could forget it between them.
- `write_lp` writes frames larger than `read_lp` takes (`waku-lightpush/src/lib.rs:159`);
  the reader's refusal then looks like any broken stream.
- A poll empties the queue before its response is delivered
  (`waku-rest/src/lib.rs:306`), and a message that arrives between the subscription
  and the registration of its topic is not cached (`:290-293`). `PromisedIsKept`
  starts at the registration.
- `waku-enr/src/lib.rs:8` describes the bit vector as the form for more than 64
  shards; `build_waku_enr` always writes the list.

### Bounds

The bounds are named constants in the guards. They are as small as lets every
action happen and the interesting orders occur.

- `driver`: one immediate call, one request and a shutdown over channels of one
  slot, so that both are full while calls are waiting. With a second request the
  liveness check, which has a strong fairness condition per call, no longer ends
  in reasonable time; the safety properties are proved for any number of calls.
- `wakunode`, `startup`: two start-up calls, two REST calls and the shutdown, over a
  command channel of one slot and an event channel of two, so that both fill up
  before and after the loop is reached. The events are not bounded.
- `connections`: four connections, two of each peer, three from one address under
  a limit of two (one in `ip_limit`), and a dial by name, without address. That
  gives a refusal with an accepted connection of the same peer and one with an
  accepted connection of another.
- `relay`: a second is two units, the tolerance one second and the duplicate cache
  the shortest that the assumption allows (8 > 2*3 + 1). Eleven units let a
  stamped message be too early, in time, and too late. The real values are a
  tolerance of 20 s and a cache of 120 s, which leaves 78 s of waiting in
  gossipsub's queue (`MaxLag`). A longer wait is outside what is shown. One
  client installs one filter up to twice; the refinement is proved for any
  clients and filters.
- `store`: four messages, of which two tie on their timestamp and one has none;
  page sizes 0, 1 and 2 in both directions, and in a word of four bits the largest
  positive one, the smallest negative one and -1; capacities two and -1.
- `light_push`: two tokens in three ticks, so that refill is fractional, and a
  duplicate cache of three ticks; time runs from 0 to 4, enough for a message to be
  forgotten and published again. Two calls of one client. A digit of a prefix is below four and a word
  below eight, so prefixes have one byte or two; one message is as long as a frame
  may be, one is longer, and a stream is cut after any of its bytes.
- `rest`: three messages of a topic for a queue of two, one of another topic on
  another shard, two requests whose topics overlap and one of which ends at a
  string that does not parse, an event channel of two.
- `rln`: limits one and two, two proofs in all, three epochs, so that an epoch
  ages out of the window of two. Nodes are symmetric.
- `discovery`: six tree nodes with a shared branch and a shared leaf, a cap of
  four; a book of two records for three nodes; two keys, so that a second identity
  could happen. A byte has two bits: lists of up to three shards and one too many,
  a bit vector of two shards.

Runs without deadlock checking (`CHECK_DEADLOCK FALSE`) are those in which the
system may stop: the driver ends, the process exits, a walk is over, or a bounded
clock runs out.

### Fairness

- A tokio task that is ready is polled: weak fairness of single awaits (`Sent`,
  `Return`, `EnqueueFails`, `main`'s own steps, the steps of `Discovery`).
- `select!` picks a ready branch at random and mpsc senders queue in order: strong
  fairness of `HandleCommand`, `AllHandlesDropped` and `Enqueue`.
- request_response reports an outcome for every request, by timeout at the latest:
  strong fairness of `Settle`. The database answers the queries the task awaits, and
  `spawn` returns.
- libp2p closes a connection told to close: strong fairness of `Closed` in that
  state.
- The application drains its events (`Receive`). The binary does so only in its
  loop, so `WakunodeMain` has fairness of `RecvEvent` instead.

Nothing is assumed about calls being made, hang-ups, signals, messages arriving,
failures, put tasks ending or the driver being stopped.

## Proofs

The theorems hold for all values of the constants that satisfy the `ASSUME` of
the module, which TLC evaluates in the runs. In each module the invariant `IInv`
is inductive, with one step per action in its preservation proof.

| Module | Theorems | Why `IInv` is stronger than the property |
|---|---|---|
| `NodeDriverProofs` | `TypeCorrect` `EveryReplyHasOneSender` `PendingMatchesRequests` `StoppedForGood` `DriverImplementsCallSpec`; `MainUsesDriver` `MainImplementsCallSpec` `MainStopsOnSignal` `StartupDeadlock` `ShutdownDeadlock` `ShutdownFindsRoom` | a call not sent yet is nowhere (`UnsentIsUnknown`), so enqueueing it cannot make a second sender; for the refinement and the binary, see below |
| `ConnectionsProofs` | `TypeCorrect` `AddressesAreNotLockedOut` `ListedPeersAreLive` `EventsTellTheTruth` `LimitHoldsUntilRefusal` | a count is at most the accepted connections of its address (`CountsAccepted`), which are up (`AcceptedIsLive`); for the events, `ViewInv` says that of every peer either no event on its way tells anything, or there is a last that does and it agrees with `connected_peers`; for the limit, see below |
| `LightPushProofs` | `TypeCorrect` `WindowsAreBounded` `OnlyBusyPeersAreDenied`; `LightPushUsesLimiter` `PushesAreBounded` `PushersInRateAreServed`; `FramesReadBack` `RequestsAreExact` `CallersAreToldTheTruth` | limiter: balances of tokens held, requests passed and time since the window opened, from above and below; service: see below |
| `MessageStoreProofs` | `TypeCorrect` `WalksAreComplete` `PagesAreOrdered` `WalksMakeProgress` `RetentionKeepsNewest` | see below |
| `RelayPipelineProofs` | `FilterTypeCorrect` `RegistryRefinesFilter`; `TypeCorrect` `StampedMessagesSurfaceOnce` `OwnMessagesStayAway` `ForwardsWhatSurfaced` `PipelineRefinesFilter` | an accepted timestamp was near the clock, the queue is recent, and a message taken again came after the window had passed; likewise one that was posted. The filter refinement needs types only |
| `RlnValidatorProofs` | `TypeCorrect` `RateLimitHolds` `HonestMembersAreSafe` | originals are in the log; a slot has one original; logged shares were proved |
| `RestApiProofs` | `TypeCorrect` `PromisesAreKept` `PollsAreOrdered` `CapDropsOldest` `AutoPublishIsHeard` | what was polled, then the queue, then the channel follow the order of arrival (`OrderInv`); a request past its await has its shard subscribed (`SubscribeInv`) |
| `DiscoveryProofs` | `TypeCorrect` `WalksAreComplete` `WalksTerminate` `BootstrapIsBounded` `AnswersAreDistinct` `OneIdentity` `NoSecondDial` `NobodyIsSkipped`; `ListReadsBack` `VectorReadsBack` `AdvertsAreRead` | see below |

`StampedMessagesSurfaceOnce` rests on the assumption that the duplicate cache
outlives twice the accepted window plus `MaxLag`. `RateLimitHolds` ends with a
counting step: the originals of an epoch map onto at most as many slots as the
limit.

**Driver.** `DriverImplementsCallSpec` shows step by step that a step of the driver is
one of `CallSpec` or a stutter. `StoppedForGood` alone would let a caller be told
`NodeStopped` of a call that was decided, or the decision about another. The step that
needs an invariant is `Return`: a oneshot is closed without a decision only by the end
of `run` (`ClosedByStop`), so whoever is told `NodeStopped` finds the node down. That
a decision is made once comes from `OneSenderPerReply`.

**Connections.** `IpLimitHolds` is violated (`ip_limit`), and `LimitHoldsUntilRefusal`
says by what: in a history without refusals the live connections are the accepted ones
and a counter equals their number (`ExactInv`), so that the guard keeps the limit.

**Light push.** `LightPushUsesLimiter` shows that every step of the service is a
step of the limiter or leaves it alone, so that the limiter's theorems hold of the
service. `FramesReadBack` says, for any base, word and limit, that a stream with any
beginning of a frame in it is read as the frame's data when all of it is there and
within the limit, and as no frame otherwise. The digits of a length are those of its
quotients by powers of the base (`PrefixIs`); a reader has the value modulo the power
after as many digits (`DigitsAre`); no proper beginning of a prefix is a prefix.
`RequestsAreExact` and `CallersAreToldTheTruth` follow from `PushInv`: a request that
was read is the one written, an answer under way belongs to the call that waits, and
a call with a request under way is not yet counted as published. `CreditInv` adds
that calls credited with one message are a cache time apart. They rest on the
encoding being injective and on encoded messages being shorter than a word, which the
`usize` length of a `Vec` is.

**Store.** Every row that matched when the walk began, was not deleted and has not
been delivered (`Missed`) lies behind the cursor, and behind the key that was read
for the cursor, in query order (`WalkInv`). A put moves no row. A sweep may delete the
cursor's row: then no key is found and the walk starts again, which owes no less; or
the row comes back, with its old key if it has a timestamp (`IssuedInv`), and walks
that looked a cursor up under another key are excepted. At the end of a page
`LIMIT` is resolved by counting the rows ahead of one (`AheadIs`): what a page leaves
out is after what it takes, for every page size but u64::MAX. `AdvanceInv` adds that
without sweeps the cursor is the last row delivered, which orders the pages. From the
same invariant `WalksMakeProgress`: each page but the last delivers a row that was not
delivered before. `RetentionKeepsNewest` reads the OFFSET of `enforce_capacity` as the
same counting of rows ahead, in descending order.

**Binary.** `MainUsesDriver`: every step of `WakunodeMain` is a step of `NodeDriver` or
leaves the driver alone, so that the driver's theorems hold of the process,
the refinement of `CallSpec` among them (`MainImplementsCallSpec`). `MainStopsOnSignal` (`OnlySignalStops`): until a signal arrives the driver runs and no
caller is told `NodeStopped`. `main` keeps a handle and the receiver, and only it calls
`shutdown`, once (`main.rs:303,308`), which `MainAssumption` states.
`StartupDeadlock` and `ShutdownDeadlock`: the states that `StartupEndsOrFills` and
`SignalExitsUnlessFull` except are never left, whatever the capacities. `main` makes
its calls in order (`InOrder`), so the one it awaits is the only one of its own, and a
driver that waits for room takes no command and settles no request.
`ShutdownFindsRoom`: the command channel is full for the shutdown only if as many
calls as it has slots, 64 in the code, are unanswered.

**Discovery.** `WalksAreComplete` needs an invariant of graph search (`WalkInv`): the children of
what was visited and kept are visited, on the stack or lost, which makes the result
complete; and every set that has the root and is closed under the branches kept so
far holds all that was visited or is on the stack, which makes it sound. The second
part speaks of all closed sets, as reachability itself does, and so takes no
induction along paths. `WalksTerminate` is the variant of the walk: a
fetch spends from the budget, any other step shortens the stack. `OneIdentity` rests on `KeyInv`: until the file is whole the
node has used no key. `ListReadsBack` and
`VectorReadsBack` are the inverse laws of the two forms of the relay-shards field, for
any width of a byte. In the second, a byte of the vector is split at a bit: what is
below is less than its mask, what is above is a multiple of twice the mask (`ByteSoFar`,
`ByteFromHere`). `AdvertsAreRead` carries both to the records of the running system
(`AdvertInv`); clusters and shards are u16.

**Induction.** The provers cannot instantiate the library's induction rules. Where a
proof needs induction over numbers it takes the least counterexample (`Least`, from the
well-foundedness of `<`), and what a recursive function computes is derived from the
existence and uniqueness of finite runs of its step (`StepsExist`, `StepsAgree`,
`PrimitiveRecursion`). `LightPushProofs` and `DiscoveryProofs` both need these lemmas.

Only model-checked: the liveness properties (`CallsReturn`, `ShutdownStops`,
`DroppedHandlesStop`, `StartupEndsOrFills`, `SignalExitsUnlessFull`, `RestCallsReturn`,
`MismatchDrops`, `QueuedIsJudged`, `WalkEnds`, `LoopEnds`), since fairness is out of
the prover's reach. Of `WalkEnds` the variant is proved (`WalksMakeProgress`). `LoopEnds`
starts after the DNS walk, whose end is `WalksTerminate`. Every safety property of a
passing run has a theorem. Timestamps at the ends of the 64-bit word are reached by
`StampedMessagesSurfaceOnce` only; the run's stay near its clock.

## Not modelled

- Encodings: protobuf, `enrtree` text, content topics, shard names, REST JSON. They
  are pure functions of strings without state. Frames and relay-shards fields are
  modelled.
- Cryptography: message hashes, signatures, RLN proofs. Ideal here.
- gossipsub's mesh, discv5, SQLite and zerokit, beyond what the code relies on.
- The RLN branches of `validate`: the node always passes `RlnStatus::Absent`.
- The client sides of filter and peer exchange beyond their requests in
  `NodeDriver`, the metadata responder, and REST endpoints that only read. They
  change no state of the node.
- Metrics, which are independent counters; command line and config file; SDS, which
  is a stub.
- What `store.put` leaves behind: a failed put is logged, a running one goes with the
  process, and nothing promises that a relayed message is stored.
- `forget_epoch` of the RLN log, which nothing calls.
- Three hazards have no property: the lost puts just named, tables that grow without a bound in the code
  (`buckets`, the filter registry, the RLN log), and a Ctrl-C that arrives while
  `main` handles an event (`main.rs:301`), which depends on tokio's signal driver.
