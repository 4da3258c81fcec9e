----------------------------- MODULE Connections -----------------------------
(***************************************************************************)
(* Connection bookkeeping of one node: the ConnectionEstablished,          *)
(* ConnectionClosed and metadata arms of handle_event in                   *)
(* waku-node/src/runtime.rs, together with what libp2p guarantees about    *)
(* the order of its swarm events.                                          *)
(*                                                                         *)
(* A connection of Conn is a slot that a remote peer may use again after   *)
(* it closed.  A handler changes the shared state first and sends at most  *)
(* one event last: it is one step up to that send and one after it (Sent). *)
(* The driver takes no other swarm event while a send waits for room.      *)
(***************************************************************************)
EXTENDS Integers, Sequences, FiniteSets

CONSTANTS
  Conn,          \* connections the swarm can establish
  Peer,          \* remote peer ids
  Ip,            \* remote IP addresses
  NoIp,          \* multiaddr_ip found neither an ip4 nor an ip6 component
  PeerOf,        \* the peer at the other end of a connection
  IpOf,          \* the address of a connection, as multiaddr_ip extracts it
  IpLimit,       \* NodeConfig::ip_colocation_limit, 0 = unlimited
  MaxConnections,\* NodeConfig::max_connections
  MaxPerPeer,    \* with_max_established_per_peer
  LocalCluster,  \* our cluster id
  NoCluster,     \* a metadata response that carries no cluster id
  ClusterOf,     \* the cluster id a peer reports
  EvtCap,        \* capacity of the event channel
  MaxAsks        \* bound: metadata requests outstanding at one peer

ASSUME ConnectionsAssumption ==
  /\ IsFiniteSet(Conn)
  /\ NoIp \notin Ip
  /\ PeerOf \in [Conn -> Peer]
  /\ IpOf \in [Conn -> Ip \cup {NoIp}]
  /\ IpLimit \in Nat
  /\ MaxConnections \in Nat
  /\ MaxPerPeer \in Nat
  /\ EvtCap \in Nat \ {0}
  /\ MaxAsks \in Nat \ {0}

VARIABLES
  link,       \* state of each connection inside the swarm
  accepted,   \* connections that passed the ip-colocation guard and are not down
  ip_counts,  \* HashMap<IpAddr, usize>; an absent key counts 0
  connected,  \* the set behind NodeHandle::connected_peers
  asks,       \* metadata requests sent and neither answered nor failed
  sending,    \* the event a handler is sending: <<e>>, or <<>> between handlers
  events,     \* the event channel
  seen        \* the peers an application tracking the events believes connected

vars == <<link, accepted, ip_counts, connected, asks, sending, events, seen>>

Event == [kind : {"PeerConnected", "PeerDisconnected", "MetadataMismatch"}, peer : Peer]

Live == {c \in Conn : link[c] # "down"}
LiveOf(p) == {c \in Live : PeerOf[c] = p}
LiveFrom(ip) == {c \in Live : IpOf[c] = ip}
AcceptedFrom(ip) == {c \in accepted : IpOf[c] = ip}

Init ==
  /\ link = [c \in Conn |-> "down"]
  /\ accepted = {}
  /\ ip_counts = [ip \in Ip |-> 0]
  /\ connected = {}
  /\ asks = [p \in Peer |-> 0]
  /\ sending = <<>>
  /\ events = <<>>
  /\ seen = {}

(* evt_tx.send(e), reached by a handler that ran to its last statement. *)
Emit(k, p) == sending' = <<[kind |-> k, peer |-> p]>>

(* The await on that send completes and the driver polls the swarm again. *)
Sent ==
  /\ sending # <<>>
  /\ Len(events) < EvtCap
  /\ events' = events \o sending
  /\ sending' = <<>>
  /\ UNCHANGED <<link, accepted, ip_counts, connected, asks, seen>>

(* swarm.disconnect_peer_id(p) starts closing every established connection
   of the peer, the one being handled included. *)
Disconnecting(l, p) ==
  [c \in Conn |-> IF l[c] = "open" /\ PeerOf[c] = p THEN "closing" ELSE l[c]]

(* connection_limits admits a connection before the node hears of it. *)
Admitted(c) ==
  /\ sending = <<>>
  /\ link[c] = "down"
  /\ Cardinality(Live) < MaxConnections
  /\ Cardinality(LiveOf(PeerOf[c])) < MaxPerPeer

Guarded(ip) == IpLimit > 0 /\ ip # NoIp

OverLimit(ip) == Guarded(ip) /\ ip_counts[ip] + 1 > IpLimit

CountUp(ip) == IF Guarded(ip) THEN [ip_counts EXCEPT ![ip] = @ + 1] ELSE ip_counts

CountDown(ip) ==
  IF ip \in Ip /\ ip_counts[ip] > 0 THEN [ip_counts EXCEPT ![ip] = @ - 1] ELSE ip_counts

(* ConnectionEstablished within the limit. *)
Accept(c) ==
  /\ Admitted(c)
  /\ ~OverLimit(IpOf[c])
  /\ asks[PeerOf[c]] < MaxAsks
  /\ link' = [link EXCEPT ![c] = "open"]
  /\ accepted' = accepted \cup {c}
  /\ ip_counts' = CountUp(IpOf[c])
  /\ connected' = connected \cup {PeerOf[c]}
  /\ asks' = [asks EXCEPT ![PeerOf[c]] = @ + 1]
  /\ Emit("PeerConnected", PeerOf[c])
  /\ UNCHANGED <<events, seen>>

(* Mutant: the peer is listed before the guard decides. *)
RefuseAfterListing(c) ==
  /\ Admitted(c)
  /\ OverLimit(IpOf[c])
  /\ link' = Disconnecting([link EXCEPT ![c] = "open"], PeerOf[c])
  /\ connected' = connected \cup {PeerOf[c]}
  /\ UNCHANGED <<accepted, ip_counts, asks, sending, events, seen>>

(* ConnectionEstablished over the limit: the count is taken back, the peer is
   disconnected and the handler returns early, with no event. *)
Refuse(c) ==
  /\ Admitted(c)
  /\ OverLimit(IpOf[c])
  /\ link' = Disconnecting([link EXCEPT ![c] = "open"], PeerOf[c])
  /\ UNCHANGED <<accepted, ip_counts, connected, asks, sending, events, seen>>

(* Mutants: the peer stays listed when its connection closes; the count is given
   back only for a peer that is still listed. *)
ClosedKeepsListed(c) ==
  /\ sending = <<>>
  /\ link[c] # "down"
  /\ link' = [link EXCEPT ![c] = "down"]
  /\ accepted' = accepted \ {c}
  /\ ip_counts' = CountDown(IpOf[c])
  /\ Emit("PeerDisconnected", PeerOf[c])
  /\ UNCHANGED <<connected, asks, events, seen>>

ClosedOnceCounts(c) ==
  /\ sending = <<>>
  /\ link[c] # "down"
  /\ link' = [link EXCEPT ![c] = "down"]
  /\ accepted' = accepted \ {c}
  /\ ip_counts' = IF PeerOf[c] \in connected THEN CountDown(IpOf[c]) ELSE ip_counts
  /\ connected' = connected \ {PeerOf[c]}
  /\ Emit("PeerDisconnected", PeerOf[c])
  /\ UNCHANGED <<asks, events, seen>>

(* ConnectionClosed, of any connection that was established. *)
Closed(c) ==
  /\ sending = <<>>
  /\ link[c] # "down"
  /\ link' = [link EXCEPT ![c] = "down"]
  /\ accepted' = accepted \ {c}
  /\ ip_counts' = CountDown(IpOf[c])
  /\ connected' = connected \ {PeerOf[c]}
  /\ Emit("PeerDisconnected", PeerOf[c])
  /\ UNCHANGED <<asks, events, seen>>

(* Mutant: the mismatch is reported and the peer kept. *)
MismatchKeepsPeer(p) ==
  /\ sending = <<>>
  /\ asks[p] > 0
  /\ LiveOf(p) # {}
  /\ asks' = [asks EXCEPT ![p] = @ - 1]
  /\ IF ClusterOf[p] \notin {NoCluster, LocalCluster}
       THEN Emit("MetadataMismatch", p)
       ELSE UNCHANGED sending
  /\ UNCHANGED <<link, accepted, ip_counts, connected, events, seen>>

(* handle_metadata on a response to our request. *)
MetadataResponse(p) ==
  /\ sending = <<>>
  /\ asks[p] > 0
  /\ LiveOf(p) # {}
  /\ asks' = [asks EXCEPT ![p] = @ - 1]
  /\ IF ClusterOf[p] \notin {NoCluster, LocalCluster}
       THEN /\ link' = Disconnecting(link, p)
            /\ Emit("MetadataMismatch", p)
       ELSE UNCHANGED <<link, sending>>
  /\ UNCHANGED <<accepted, ip_counts, connected, events, seen>>

(* An OutboundFailure of the metadata protocol falls into the `_ => {}` arm. *)
MetadataFailure(p) ==
  /\ sending = <<>>
  /\ asks[p] > 0
  /\ asks' = [asks EXCEPT ![p] = @ - 1]
  /\ UNCHANGED <<link, accepted, ip_counts, connected, sending, events, seen>>

(* The application receives the next event and updates the set it tracks. *)
Receive ==
  /\ events # <<>>
  /\ LET e == Head(events) IN
       seen' = CASE e.kind = "PeerConnected"    -> seen \cup {e.peer}
                 [] e.kind = "PeerDisconnected" -> seen \ {e.peer}
                 [] OTHER                       -> seen
  /\ events' = Tail(events)
  /\ UNCHANGED <<link, accepted, ip_counts, connected, asks, sending>>

Next ==
  \/ \E c \in Conn : Accept(c) \/ Refuse(c) \/ Closed(c)
  \/ \E p \in Peer : MetadataResponse(p) \/ MetadataFailure(p)
  \/ Sent \/ Receive

Spec == Init /\ [][Next]_vars

(* A connection told to close does close, and the swarm reports it even when
   other events keep the driver busy; the application keeps receiving. *)
Fairness ==
  /\ \A c \in Conn : SF_vars(link[c] = "closing" /\ Closed(c))
  /\ WF_vars(Sent)
  /\ WF_vars(Receive)

FairSpec == Spec /\ Fairness
-----------------------------------------------------------------------------
(* Every variable holds a value the code's types allow. *)
TypeOK ==
  /\ link \in [Conn -> {"down", "open", "closing"}]
  /\ accepted \in SUBSET Conn
  /\ ip_counts \in [Ip -> Nat]
  /\ connected \in SUBSET Peer
  /\ asks \in [Peer -> Nat]
  /\ sending \in Seq(Event)
  /\ events \in Seq(Event)
  /\ seen \in SUBSET Peer

(* No address is locked out: the guard refuses the next connection from an
   address only while IpLimit others from it are up, whatever sequence of
   refusals and closes, of several connections of a peer, came before. *)
NobodyLockedOut ==
  \A ip \in Ip : OverLimit(ip) => Cardinality(LiveFrom(ip)) >= IpLimit

(* connected_peers never lists a peer whose last connection has closed: some
   accepted connection of it is still up. *)
ConnectedIsLive ==
  \A p \in connected : \E c \in accepted : PeerOf[c] = p /\ link[c] # "down"

(* An application that tracks PeerConnected and PeerDisconnected agrees with
   connected_peers once it has received what is still on its way to it. *)
AppViewConverges ==
  LET ahead == events \o sending
      About(p) == {i \in DOMAIN ahead : ahead[i].peer = p /\ ahead[i].kind # "MetadataMismatch"}
      LastWord(p) == CHOOSE i \in About(p) : \A j \in About(p) : j <= i
  IN \A p \in Peer :
       p \in connected <=> IF About(p) = {} THEN p \in seen
                           ELSE ahead[LastWord(p)].kind = "PeerConnected"

(* Whenever a peer reported another cluster, and the application is being told
   so, the peer drops out of connected_peers. *)
MismatchDrops ==
  \A p \in Peer : sending = <<[kind |-> "MetadataMismatch", peer |-> p]>> ~> p \notin connected

(* "Max concurrent connections from a single IP (0 = unlimited)": the
   connections the guard let in from one address, and nobody is closing, stay
   within the limit. *)
IpLimitHolds ==
  IpLimit > 0 =>
    \A ip \in Ip : Cardinality({c \in AcceptedFrom(ip) : link[c] = "open"}) <= IpLimit
=============================================================================
