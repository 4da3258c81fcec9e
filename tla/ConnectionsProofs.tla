-------------------------- MODULE ConnectionsProofs --------------------------
(* Proofs about Connections, for any set of connections, peers and addresses *)
(* and any limits.                                                           *)
EXTENDS Connections, FiniteSetTheorems, TLAPS

(* The provers of the leaves that name none. An attempt with SMT ends when the
   translation takes five seconds, whatever its limit: on a busy machine a leaf
   needs a later attempt. *)
USE SMTT(15), Zenon, SMTT(30), ZenonT(30), SMTT(40), SMTT(50),
    ZenonT(60), SMTT(60), SMTT(70), SMTT(80), SMTT(90)

(* The accepted connections are up, and ip_counts of an address counts no more
   than them: a close gives a slot back whether or not its connection took one. *)
AcceptedIsLive == accepted \subseteq Live

CountsAccepted ==
  \A ip \in Ip : ip_counts[ip] <= Cardinality(AcceptedFrom(ip))

IInv == TypeOK /\ AcceptedIsLive /\ CountsAccepted /\ ConnectedIsLive

(* AcceptedFrom(ip) is a set of connections, hence finite. *)
LEMMA AcceptedFromFinite ==
  ASSUME TypeOK, NEW ip \in Ip
  PROVE  /\ IsFiniteSet(AcceptedFrom(ip))
         /\ Cardinality(AcceptedFrom(ip)) \in Nat
<1>1. AcceptedFrom(ip) \in SUBSET Conn
  BY DEF TypeOK, AcceptedFrom
<1>2. IsFiniteSet(AcceptedFrom(ip))
  BY <1>1, ConnectionsAssumption, FS_Subset
<1>3. QED
  BY <1>2, FS_CardinalityType

(* What handle_event sends is an event of the stream. *)
LEMMA EmitType ==
  ASSUME NEW p \in Peer,
         NEW k \in {"PeerConnected", "PeerDisconnected", "MetadataMismatch"},
         Emit(k, p)
  PROVE  sending' \in Seq(Event)
BY DEF Emit, Event

(* Type correctness of every handler. *)
LEMMA TypePreserved == TypeOK /\ [Next]_vars => TypeOK'
<1> SUFFICES ASSUME TypeOK, [Next]_vars PROVE TypeOK'
  OBVIOUS
<1> USE ConnectionsAssumption
<1>1. ASSUME NEW c \in Conn, Accept(c) PROVE TypeOK'
  <2>1. PeerOf[c] \in Peer /\ IpOf[c] \in Ip \cup {NoIp}
    OBVIOUS
  <2>2. sending' \in Seq(Event)
    BY <1>1, <2>1, EmitType DEF TypeOK, Accept
  <2>3. ip_counts' \in [Ip -> Nat]
    BY <1>1, <2>1 DEF TypeOK, Accept, CountUp, Guarded
  <2>4. asks' \in [Peer -> Nat]
    BY <1>1, <2>1 DEF TypeOK, Accept
  <2>5. QED
    BY <1>1, <2>1, <2>2, <2>3, <2>4 DEF TypeOK, Accept
<1>2. ASSUME NEW c \in Conn, Refuse(c) PROVE TypeOK'
  BY <1>2 DEF TypeOK, Refuse, Disconnecting
<1>3. ASSUME NEW c \in Conn, Closed(c) PROVE TypeOK'
  <2>1. PeerOf[c] \in Peer /\ IpOf[c] \in Ip \cup {NoIp}
    OBVIOUS
  <2>2. sending' \in Seq(Event)
    BY <1>3, <2>1, EmitType DEF TypeOK, Closed
  <2>3. ip_counts' \in [Ip -> Nat]
    BY <1>3, <2>1 DEF TypeOK, Closed, CountDown
  <2>4. QED
    BY <1>3, <2>1, <2>2, <2>3 DEF TypeOK, Closed
<1>4. ASSUME NEW p \in Peer, MetadataResponse(p) PROVE TypeOK'
  <2>1. sending' \in Seq(Event)
    BY ZenonT(60), <1>4, EmitType DEF TypeOK, MetadataResponse
  <2>2. asks' \in [Peer -> Nat]
    BY <1>4 DEF TypeOK, MetadataResponse
  <2>3. link' \in [Conn -> {"down", "open", "closing"}]
    BY <1>4 DEF TypeOK, MetadataResponse, Disconnecting
  <2>4. QED
    BY <1>4, <2>1, <2>2, <2>3 DEF TypeOK, MetadataResponse
<1>5. ASSUME NEW p \in Peer, MetadataFailure(p) PROVE TypeOK'
  BY <1>5 DEF TypeOK, MetadataFailure
<1>6. CASE Receive
  <2>1. Head(events) \in Event /\ events' \in Seq(Event)
    BY <1>6 DEF TypeOK, Receive
  <2>2. seen' \in SUBSET Peer
    BY <1>6, <2>1 DEF TypeOK, Receive, Event
  <2>3. QED
    BY <1>6, <2>1, <2>2 DEF TypeOK, Receive
<1>7. CASE UNCHANGED vars
  BY <1>7 DEF TypeOK, vars
<1>8. CASE Sent
  BY <1>8 DEF TypeOK, Sent
<1>9. QED
  BY <1>1, <1>2, <1>3, <1>4, <1>5, <1>6, <1>7, <1>8 DEF Next

(* The inductive step, one part per conjunct. *)
LEMMA InvPreserved == IInv /\ [Next]_vars => IInv'
<1> SUFFICES ASSUME IInv, [Next]_vars PROVE IInv'
  OBVIOUS
<1> USE ConnectionsAssumption
<1>t. TypeOK /\ TypeOK'
  BY TypePreserved DEF IInv
<1>a. \A ip \in Ip : IsFiniteSet(AcceptedFrom(ip)) /\ Cardinality(AcceptedFrom(ip)) \in Nat
  BY <1>t, AcceptedFromFinite
<1>1. ASSUME NEW c \in Conn, Accept(c) PROVE IInv'
  <2>1. PeerOf[c] \in Peer /\ IpOf[c] \in Ip \cup {NoIp} /\ c \notin accepted
    BY <1>1 DEF IInv, AcceptedIsLive, Live, Accept, Admitted
  <2>2. AcceptedIsLive'
    BY <1>1, <1>t DEF IInv, AcceptedIsLive, Live, Accept, TypeOK
  <2>3. CountsAccepted'
    <3> SUFFICES ASSUME NEW ip \in Ip
                 PROVE  ip_counts'[ip] <= Cardinality(AcceptedFrom(ip)')
      BY DEF CountsAccepted
    <3>1. ip_counts[ip] <= Cardinality(AcceptedFrom(ip))
      BY DEF IInv, CountsAccepted
    <3>2. CASE IpOf[c] = ip
      <4>1. AcceptedFrom(ip)' = AcceptedFrom(ip) \cup {c} /\ c \notin AcceptedFrom(ip)
        BY <1>1, <2>1, <3>2 DEF AcceptedFrom, Accept
      <4>2. Cardinality(AcceptedFrom(ip)') = Cardinality(AcceptedFrom(ip)) + 1
        BY ZenonT(60), <1>a, <4>1, FS_AddElement
      <4>3. ip_counts'[ip] <= ip_counts[ip] + 1
        BY <1>1, <1>t, <3>2 DEF Accept, CountUp, TypeOK
      <4>4. QED
        BY <1>a, <1>t, <3>1, <4>2, <4>3 DEF TypeOK
    <3>3. CASE IpOf[c] # ip
      <4>1. AcceptedFrom(ip)' = AcceptedFrom(ip)
        BY <1>1, <3>3 DEF AcceptedFrom, Accept
      <4>2. ip_counts'[ip] = ip_counts[ip]
        BY <1>1, <1>t, <2>1, <3>3 DEF Accept, CountUp, Guarded, TypeOK
      <4>3. QED
        BY <3>1, <4>1, <4>2
    <3>4. QED
      BY <3>2, <3>3
  <2>4. ConnectedIsLive'
    BY <1>1, <1>t DEF IInv, ConnectedIsLive, Accept, TypeOK
  <2>5. QED
    BY <1>t, <2>2, <2>3, <2>4 DEF IInv
<1>2. ASSUME NEW c \in Conn, Refuse(c) PROVE IInv'
  <2>1. \A d \in Conn : link[d] # "down" => link'[d] # "down"
    BY <1>2, <1>t DEF Refuse, Disconnecting, TypeOK
  <2>2. accepted' = accepted /\ ip_counts' = ip_counts /\ connected' = connected
    BY <1>2 DEF Refuse
  <2>3. QED
    BY <1>t, <2>1, <2>2 DEF IInv, AcceptedIsLive, Live, CountsAccepted, AcceptedFrom,
                            ConnectedIsLive, TypeOK
<1>3. ASSUME NEW c \in Conn, Closed(c) PROVE IInv'
  <2>1. PeerOf[c] \in Peer /\ IpOf[c] \in Ip \cup {NoIp}
    OBVIOUS
  <2>2. AcceptedIsLive'
    BY <1>3, <1>t DEF IInv, AcceptedIsLive, Live, Closed, TypeOK
  <2>3. CountsAccepted'
    <3> SUFFICES ASSUME NEW ip \in Ip
                 PROVE  ip_counts'[ip] <= Cardinality(AcceptedFrom(ip)')
      BY DEF CountsAccepted
    <3>1. ip_counts[ip] <= Cardinality(AcceptedFrom(ip))
      BY DEF IInv, CountsAccepted
    <3>2. CASE IpOf[c] = ip
      <4>1. AcceptedFrom(ip)' = AcceptedFrom(ip) \ {c}
        BY <1>3 DEF AcceptedFrom, Closed
      <4>2. /\ Cardinality(AcceptedFrom(ip)') \in Nat
            /\ Cardinality(AcceptedFrom(ip)') >= Cardinality(AcceptedFrom(ip)) - 1
        <5>1. IsFiniteSet(AcceptedFrom(ip))
          BY <1>a
        <5>2. /\ IsFiniteSet(AcceptedFrom(ip) \ {c})
              /\ Cardinality(AcceptedFrom(ip) \ {c}) =
                   IF c \in AcceptedFrom(ip) THEN Cardinality(AcceptedFrom(ip)) - 1
                                             ELSE Cardinality(AcceptedFrom(ip))
          BY <5>1, FS_RemoveElement
        <5>3. Cardinality(AcceptedFrom(ip) \ {c}) \in Nat
          BY <5>2, FS_CardinalityType
        <5>4. QED
          BY <1>a, <4>1, <5>2, <5>3
      <4>3. ip_counts'[ip] = IF ip_counts[ip] > 0 THEN ip_counts[ip] - 1 ELSE 0
        BY <1>3, <1>t, <3>2 DEF Closed, CountDown, TypeOK
      <4>4. QED
        BY <1>a, <1>t, <3>1, <4>2, <4>3 DEF TypeOK
    <3>3. CASE IpOf[c] # ip
      <4>1. AcceptedFrom(ip)' = AcceptedFrom(ip)
        BY <1>3, <3>3 DEF AcceptedFrom, Closed
      <4>2. ip_counts'[ip] = ip_counts[ip]
        BY <1>3, <1>t, <2>1, <3>3 DEF Closed, CountDown, TypeOK
      <4>3. QED
        BY <3>1, <4>1, <4>2
    <3>4. QED
      BY <3>2, <3>3
  <2>4. ConnectedIsLive'
    BY <1>3, <1>t DEF IInv, ConnectedIsLive, Closed, TypeOK
  <2>5. QED
    BY <1>t, <2>2, <2>3, <2>4 DEF IInv
<1>4. ASSUME NEW p \in Peer, MetadataResponse(p) PROVE IInv'
  <2>1. \A d \in Conn : link[d] # "down" => link'[d] # "down"
    BY <1>4, <1>t DEF MetadataResponse, Disconnecting, TypeOK
  <2>2. accepted' = accepted /\ ip_counts' = ip_counts /\ connected' = connected
    BY <1>4 DEF MetadataResponse
  <2>3. QED
    BY <1>t, <2>1, <2>2 DEF IInv, AcceptedIsLive, Live, CountsAccepted, AcceptedFrom,
                            ConnectedIsLive, TypeOK
<1>5. CASE UNCHANGED <<link, accepted, ip_counts, connected>>
  BY <1>5, <1>t DEF IInv, AcceptedIsLive, Live, CountsAccepted, AcceptedFrom, ConnectedIsLive
<1>6. QED
  BY <1>1, <1>2, <1>3, <1>4, <1>5 DEF Next, MetadataFailure, Sent, Receive, vars

(* Every reachable state is well typed. *)
THEOREM TypeCorrect == Spec => []TypeOK
<1>1. Init => TypeOK
  BY ConnectionsAssumption DEF Init, TypeOK
<1>2. QED
  BY <1>1, TypePreserved, PTL DEF Spec

(* The invariant that ties the counters and the connected set to the
   connections that are really up holds in every reachable state. *)
THEOREM InductiveInvariant == Spec => []IInv
<1>1. Init => IInv
  <2> SUFFICES ASSUME Init PROVE IInv
    OBVIOUS
  <2>1. TypeOK
    BY ConnectionsAssumption DEF Init, TypeOK
  <2>2. AcceptedIsLive /\ ConnectedIsLive
    BY DEF Init, AcceptedIsLive, ConnectedIsLive
  <2>3. CountsAccepted
    BY FS_EmptySet DEF Init, CountsAccepted, AcceptedFrom
  <2>4. QED
    BY <2>1, <2>2, <2>3 DEF IInv
<1>2. QED
  BY <1>1, InvPreserved, PTL DEF Spec

(* The ip-colocation guard of handle_event locks no address out. *)
THEOREM AddressesAreNotLockedOut == Spec => []NobodyLockedOut
<1>1. IInv => NobodyLockedOut
  <2> SUFFICES ASSUME IInv, NEW ip \in Ip, OverLimit(ip)
               PROVE  Cardinality(LiveFrom(ip)) >= IpLimit
    BY DEF NobodyLockedOut
  <2>1. /\ TypeOK /\ accepted \subseteq Live
        /\ ip_counts[ip] <= Cardinality(AcceptedFrom(ip))
    BY DEF IInv, AcceptedIsLive, CountsAccepted
  <2>2. IpLimit \in Nat /\ ip_counts[ip] \in Nat /\ ip_counts[ip] + 1 > IpLimit
    BY <2>1, ConnectionsAssumption DEF TypeOK, OverLimit
  <2>3. AcceptedFrom(ip) \subseteq LiveFrom(ip) /\ LiveFrom(ip) \subseteq Conn
    BY <2>1 DEF AcceptedFrom, LiveFrom, Live
  <2>4. IsFiniteSet(LiveFrom(ip))
    BY <2>3, ConnectionsAssumption, FS_Subset
  <2>5. /\ Cardinality(AcceptedFrom(ip)) <= Cardinality(LiveFrom(ip))
        /\ Cardinality(LiveFrom(ip)) \in Nat
    BY <2>3, <2>4, FS_Subset, FS_CardinalityType
  <2>6. Cardinality(AcceptedFrom(ip)) \in Nat
    BY <2>1, AcceptedFromFinite
  <2>7. QED
    BY <2>1, <2>2, <2>5, <2>6
<1>2. QED
  BY <1>1, InductiveInvariant, PTL

(* NodeHandle::connected_peers never lists a peer without a connection. *)
THEOREM ListedPeersAreLive == Spec => []ConnectedIsLive
<1>1. IInv => ConnectedIsLive
  BY DEF IInv
<1>2. QED
  BY <1>1, InductiveInvariant, PTL
-----------------------------------------------------------------------------
(* The steps of a node that refuses no connection. *)
RefusesNothing == Next /\ \A c \in Conn : ~Refuse(c)

(* Without a refusal every live connection was let in, and the counter of an
   address is the number of its connections. *)
ExactInv ==
  /\ accepted = Live
  /\ IpLimit > 0 => \A ip \in Ip :
       ip_counts[ip] = Cardinality(AcceptedFrom(ip)) /\ ip_counts[ip] <= IpLimit

(* A set that loses an element has one less. *)
LEMMA OneLess ==
  ASSUME NEW S, NEW x \in S, IsFiniteSet(S)
  PROVE  Cardinality(S \ {x}) = Cardinality(S) - 1
BY FS_RemoveElement

LEMMA ExactPreserved == IInv /\ ExactInv /\ [RefusesNothing]_vars => ExactInv'
<1> SUFFICES ASSUME IInv, ExactInv, [RefusesNothing]_vars PROVE ExactInv'
  OBVIOUS
<1> USE ConnectionsAssumption
<1>t. TypeOK /\ TypeOK'
  BY TypePreserved DEF IInv, RefusesNothing
<1>a. \A ip \in Ip : IsFiniteSet(AcceptedFrom(ip)) /\ Cardinality(AcceptedFrom(ip)) \in Nat
  BY <1>t, AcceptedFromFinite
<1>1. ASSUME NEW c \in Conn, Accept(c) PROVE ExactInv'
  <2>1. IpOf[c] \in Ip \cup {NoIp} /\ c \notin accepted
    BY <1>1 DEF ExactInv, Live, Accept, Admitted
  <2>2. accepted' = Live'
    BY <1>1, <1>t DEF ExactInv, Live, Accept, TypeOK
  <2>3. ASSUME IpLimit > 0, NEW ip \in Ip
        PROVE  ip_counts'[ip] = Cardinality(AcceptedFrom(ip)') /\ ip_counts'[ip] <= IpLimit
    <3>1. ip_counts[ip] = Cardinality(AcceptedFrom(ip)) /\ ip_counts[ip] <= IpLimit
      BY <2>3 DEF ExactInv
    <3>2. CASE IpOf[c] = ip
      <4>1. AcceptedFrom(ip)' = AcceptedFrom(ip) \cup {c} /\ c \notin AcceptedFrom(ip)
        BY <1>1, <2>1, <3>2 DEF AcceptedFrom, Accept
      <4>2. Cardinality(AcceptedFrom(ip)') = Cardinality(AcceptedFrom(ip)) + 1
        BY ZenonT(60), <1>a, <4>1, FS_AddElement
      <4>3. Guarded(ip)
        BY <2>3 DEF Guarded
      <4>4. ip_counts'[ip] = ip_counts[ip] + 1
        BY <1>1, <1>t, <3>2, <4>3 DEF Accept, CountUp, TypeOK
      <4>5. ip_counts[ip] + 1 <= IpLimit
        BY <1>1, <1>t, <3>2, <4>3 DEF Accept, OverLimit, TypeOK
      <4>6. QED
        BY <3>1, <4>2, <4>4, <4>5
    <3>3. CASE IpOf[c] # ip
      <4>1. AcceptedFrom(ip)' = AcceptedFrom(ip)
        BY <1>1, <3>3 DEF AcceptedFrom, Accept
      <4>2. ip_counts'[ip] = ip_counts[ip]
        BY <1>1, <1>t, <2>1, <3>3 DEF Accept, CountUp, Guarded, TypeOK
      <4>3. QED
        BY <3>1, <4>1, <4>2
    <3>4. QED
      BY <3>2, <3>3
  <2>4. QED
    BY <2>2, <2>3 DEF ExactInv
<1>2. ASSUME NEW c \in Conn, Closed(c) PROVE ExactInv'
  <2>1. IpOf[c] \in Ip \cup {NoIp} /\ c \in accepted
    BY <1>2 DEF ExactInv, Live, Closed
  <2>2. accepted' = Live'
    BY <1>2, <1>t DEF ExactInv, Live, Closed, TypeOK
  <2>3. ASSUME IpLimit > 0, NEW ip \in Ip
        PROVE  ip_counts'[ip] = Cardinality(AcceptedFrom(ip)') /\ ip_counts'[ip] <= IpLimit
    <3>1. ip_counts[ip] = Cardinality(AcceptedFrom(ip)) /\ ip_counts[ip] <= IpLimit
      BY <2>3 DEF ExactInv
    <3>2. CASE IpOf[c] = ip
      <4>1. AcceptedFrom(ip)' = AcceptedFrom(ip) \ {c} /\ c \in AcceptedFrom(ip)
        BY <1>2, <2>1, <3>2 DEF AcceptedFrom, Closed
      <4>2. Cardinality(AcceptedFrom(ip)') = Cardinality(AcceptedFrom(ip)) - 1
        BY ZenonT(60), <1>a, <4>1, OneLess
      <4>3. Cardinality(AcceptedFrom(ip)') \in Nat
        BY <1>t, <1>a, <4>1, FS_RemoveElement, FS_CardinalityType
      <4>4. ip_counts'[ip] = IF ip_counts[ip] > 0 THEN ip_counts[ip] - 1 ELSE 0
        BY <1>2, <1>t, <3>2 DEF Closed, CountDown, TypeOK
      <4>5. QED
        BY <1>a, <3>1, <4>2, <4>3, <4>4
    <3>3. CASE IpOf[c] # ip
      <4>1. AcceptedFrom(ip)' = AcceptedFrom(ip)
        BY <1>2, <3>3 DEF AcceptedFrom, Closed
      <4>2. ip_counts'[ip] = ip_counts[ip]
        BY <1>2, <1>t, <2>1, <3>3 DEF Closed, CountDown, TypeOK
      <4>3. QED
        BY <3>1, <4>1, <4>2
    <3>4. QED
      BY <3>2, <3>3
  <2>4. QED
    BY <2>2, <2>3 DEF ExactInv
<1>3. ASSUME NEW p \in Peer, MetadataResponse(p) PROVE ExactInv'
  <2>1. \A d \in Conn : link[d] # "down" <=> link'[d] # "down"
    BY <1>3, <1>t DEF MetadataResponse, Disconnecting, TypeOK
  <2>2. accepted' = accepted /\ ip_counts' = ip_counts
    BY <1>3 DEF MetadataResponse
  <2>3. QED
    BY <2>1, <2>2 DEF ExactInv, Live, AcceptedFrom
<1>4. CASE UNCHANGED <<link, accepted, ip_counts>>
  BY <1>4 DEF ExactInv, Live, AcceptedFrom
<1>5. QED
  BY <1>1, <1>2, <1>3, <1>4 DEF RefusesNothing, Next, MetadataFailure, Sent, Receive, vars

(* The limit per address fails only through refusals: as long as no connection
   was refused, the guard of ConnectionEstablished keeps "Max concurrent
   connections from a single IP", for any peers, limits and orders of events. *)
THEOREM LimitHoldsUntilRefusal == Init /\ [][RefusesNothing]_vars => []IpLimitHolds
<1>1. Init => ExactInv
  <2>1. Init => accepted = Live
    BY DEF Init, Live
  <2>2. ASSUME Init, NEW ip \in Ip PROVE ip_counts[ip] = 0 /\ AcceptedFrom(ip) = {}
    BY <2>2 DEF Init, AcceptedFrom
  <2>3. QED
    BY <2>1, <2>2, FS_EmptySet, ConnectionsAssumption DEF ExactInv
<1>2. [RefusesNothing]_vars => [Next]_vars
  BY DEF RefusesNothing
<1>3. IInv /\ ExactInv => IpLimitHolds
  <2> SUFFICES ASSUME IInv, ExactInv, IpLimit > 0, NEW ip \in Ip
               PROVE  Cardinality({c \in AcceptedFrom(ip) : link[c] = "open"}) <= IpLimit
    BY DEF IpLimitHolds
  <2> DEFINE O == {c \in AcceptedFrom(ip) : link[c] = "open"}
  <2>1. IsFiniteSet(AcceptedFrom(ip)) /\ Cardinality(AcceptedFrom(ip)) \in Nat
    BY AcceptedFromFinite DEF IInv
  <2>2. O \in SUBSET AcceptedFrom(ip)
    OBVIOUS
  <2>3. IsFiniteSet(O) /\ Cardinality(O) <= Cardinality(AcceptedFrom(ip))
    BY <2>1, <2>2, FS_Subset
  <2>4. Cardinality(O) \in Nat
    BY <2>3, FS_CardinalityType
  <2>5. Cardinality(AcceptedFrom(ip)) <= IpLimit
    BY DEF ExactInv
  <2>6. QED
    BY <2>1, <2>3, <2>4, <2>5, ConnectionsAssumption
<1>4. QED
  BY <1>1, <1>2, <1>3, ExactPreserved, InductiveInvariant, PTL DEF Spec
-----------------------------------------------------------------------------
(* Event e changes what an application believes about p. *)
Tells(e, p) == e.peer = p /\ e.kind # "MetadataMismatch"

(* After the events of s an application that starts from S agrees with C about
   p: no event tells, or the last that does tells what C says. *)
Agree(s, p, S, C) ==
  \/ (\A j \in DOMAIN s : ~Tells(s[j], p)) /\ (p \in C <=> p \in S)
  \/ \E i \in DOMAIN s : /\ Tells(s[i], p) /\ \A j \in DOMAIN s : Tells(s[j], p) => j <= i
                         /\ p \in C <=> s[i].kind = "PeerConnected"

(* A handler sends one more event. *)
LEMMA AgreeAppend ==
  ASSUME NEW s \in Seq(Event), NEW e \in Event, NEW p, NEW S, NEW C, NEW D, Agree(s, p, S, C),
         IF Tells(e, p) THEN p \in D <=> e.kind = "PeerConnected" ELSE p \in D <=> p \in C
  PROVE  Agree(Append(s, e), p, S, D)
<1>1. /\ DOMAIN Append(s, e) = DOMAIN s \cup {Len(s) + 1} /\ Append(s, e)[Len(s) + 1] = e
      /\ \A j \in DOMAIN s : Append(s, e)[j] = s[j] /\ j <= Len(s) + 1
      /\ Len(s) + 1 <= Len(s) + 1
  OBVIOUS
<1>2. CASE Tells(e, p)
  <2>1. \A j \in DOMAIN Append(s, e) : j <= Len(s) + 1
    BY <1>1
  <2>2. QED
    BY <1>1, <1>2, <2>1, ZenonT(60) DEF Agree
<1>3. CASE ~Tells(e, p)
  <2>1. CASE (\A j \in DOMAIN s : ~Tells(s[j], p)) /\ (p \in C <=> p \in S)
    BY <1>1, <1>3, <2>1 DEF Agree
  <2>2. CASE \E i \in DOMAIN s : /\ Tells(s[i], p) /\ \A j \in DOMAIN s : Tells(s[j], p) => j <= i
                                 /\ p \in C <=> s[i].kind = "PeerConnected"
    BY <1>1, <1>3, <2>2 DEF Agree
  <2>3. QED
    BY <2>1, <2>2 DEF Agree
<1>4. QED
  BY <1>2, <1>3

(* The application receives the first event. *)
LEMMA AgreeTail ==
  ASSUME NEW s \in Seq(Event), s # <<>>, NEW p, NEW S, NEW C, NEW R, Agree(s, p, S, C),
         IF Tells(Head(s), p) THEN p \in R <=> Head(s).kind = "PeerConnected" ELSE p \in R <=> p \in S
  PROVE  Agree(Tail(s), p, R, C)
<1>1. /\ Len(s) \in Nat \ {0} /\ DOMAIN s = 1..Len(s) /\ DOMAIN Tail(s) = 1..(Len(s) - 1)
      /\ Head(s) = s[1] /\ \A j \in DOMAIN Tail(s) : Tail(s)[j] = s[j + 1]
  OBVIOUS
<1>2. \A j \in DOMAIN Tail(s) : j \in Int /\ j + 1 \in DOMAIN s
  BY <1>1
<1>3. CASE (\A j \in DOMAIN s : ~Tells(s[j], p)) /\ (p \in C <=> p \in S)
  <2>1. 1 \in DOMAIN s
    BY <1>1
  <2>2. QED
    BY <1>1, <1>2, <1>3, <2>1 DEF Agree
<1>4. ASSUME NEW i \in DOMAIN s, Tells(s[i], p), \A j \in DOMAIN s : Tells(s[j], p) => j <= i,
             p \in C <=> s[i].kind = "PeerConnected"
      PROVE  Agree(Tail(s), p, R, C)
  <2>1. CASE i = 1
    <3>1. \A j \in DOMAIN Tail(s) : ~(j + 1 <= 1)
      BY <1>1
    <3>2. \A j \in DOMAIN Tail(s) : ~Tells(Tail(s)[j], p)
      BY <1>1, <1>2, <1>4, <2>1, <3>1
    <3>3. p \in C <=> p \in R
      BY <1>1, <1>4, <2>1
    <3>4. QED
      BY <3>2, <3>3 DEF Agree
  <2>2. CASE i # 1
    <3>1. i - 1 \in DOMAIN Tail(s) /\ (i - 1) + 1 = i /\ i \in Int
      BY <1>1, <2>2
    <3>2. Tail(s)[i - 1] = s[i]
      BY <1>1, <3>1
    <3>3. \A j \in DOMAIN Tail(s) : Tells(Tail(s)[j], p) => j <= i - 1
      BY <1>1, <1>2, <1>4, <3>1
    <3>4. QED
      BY ZenonT(60), <1>4, <3>1, <3>2, <3>3 DEF Agree
  <2>3. QED
    BY <2>1, <2>2
<1>5. QED
  BY <1>3, <1>4 DEF Agree

(* The handlers send one event at most, and with what is on its way to it the
   application agrees with connected_peers. *)
Ahead == IF sending = <<>> THEN events ELSE Append(events, sending[1])

ViewInv ==
  /\ sending = <<>> \/ \E e \in Event : sending = <<e>>
  /\ \A p \in Peer : Agree(Ahead, p, seen, connected)

LEMMA ViewPreserved == TypeOK /\ ViewInv /\ [Next]_vars => ViewInv'
<1> SUFFICES ASSUME TypeOK, ViewInv, [Next]_vars PROVE ViewInv'
  OBVIOUS
<1>0. events \in Seq(Event) /\ PeerOf \in [Conn -> Peer]
  BY ConnectionsAssumption DEF TypeOK
<1>1. ASSUME NEW e \in Event, sending = <<>>, sending' = <<e>>, UNCHANGED <<events, seen>>,
             \A p \in Peer : IF Tells(e, p) THEN p \in connected' <=> e.kind = "PeerConnected"
                                            ELSE p \in connected' <=> p \in connected
      PROVE  ViewInv'
  <2>1. Ahead = events /\ Ahead' = Append(events, e)
    BY <1>1 DEF Ahead
  <2>2. \A p \in Peer : Agree(Append(events, e), p, seen, connected')
    BY <1>0, <1>1, <2>1, AgreeAppend DEF ViewInv
  <2>3. QED
    BY <1>1, <2>1, <2>2 DEF ViewInv
<1>2. ASSUME NEW c \in Conn, Accept(c) PROVE ViewInv'
  <2>1. PICK e \in Event : e = [kind |-> "PeerConnected", peer |-> PeerOf[c]]
    BY ZenonT(60), <1>0 DEF Event
  <2>2. /\ sending = <<>> /\ sending' = <<e>> /\ UNCHANGED <<events, seen>>
        /\ connected' = connected \cup {PeerOf[c]}
    BY <1>2, <2>1 DEF Accept, Admitted, Emit
  <2>3. e.kind = "PeerConnected" /\ \A p : Tells(e, p) <=> p = PeerOf[c]
    BY <2>1 DEF Tells
  <2>4. QED
    BY <1>1, <2>2, <2>3
<1>3. ASSUME NEW c \in Conn, Closed(c) PROVE ViewInv'
  <2>1. PICK e \in Event : e = [kind |-> "PeerDisconnected", peer |-> PeerOf[c]]
    BY ZenonT(60), <1>0 DEF Event
  <2>2. /\ sending = <<>> /\ sending' = <<e>> /\ UNCHANGED <<events, seen>>
        /\ connected' = connected \ {PeerOf[c]}
    BY <1>3, <2>1 DEF Closed, Emit
  <2>3. e.kind # "PeerConnected" /\ \A p : Tells(e, p) <=> p = PeerOf[c]
    BY <2>1 DEF Tells
  <2>4. QED
    BY <1>1, <2>2, <2>3
<1>4. ASSUME NEW q \in Peer, MetadataResponse(q) PROVE ViewInv'
  <2>1. CASE sending' = <<>>
    <3>1. sending = <<>> /\ UNCHANGED <<events, seen, connected>>
      BY <1>4 DEF MetadataResponse
    <3>2. QED
      BY <2>1, <3>1 DEF ViewInv, Ahead
  <2>2. CASE Emit("MetadataMismatch", q)
    <3>1. PICK e \in Event : e = [kind |-> "MetadataMismatch", peer |-> q]
      BY ZenonT(60) DEF Event
    <3>2. sending = <<>> /\ sending' = <<e>> /\ UNCHANGED <<events, seen, connected>>
      BY <1>4, <2>2, <3>1 DEF MetadataResponse, Emit
    <3>3. \A p : ~Tells(e, p)
      BY <3>1 DEF Tells
    <3>4. QED
      BY <1>1, <3>2, <3>3
  <2>3. QED
    BY <1>4, <2>1, <2>2 DEF MetadataResponse
<1>5. CASE Sent
  <2>1. PICK e \in Event : sending = <<e>>
    BY <1>5 DEF Sent, ViewInv
  <2>2. sending # <<>> /\ sending' = <<>> /\ UNCHANGED <<seen, connected>> /\ events' = events \o <<e>>
    BY <1>5, <2>1 DEF Sent
  <2>3. events \o <<e>> = Append(events, e)
    BY <1>0
  <2>4. Ahead' = Ahead
    BY <2>1, <2>2, <2>3 DEF Ahead
  <2>5. QED
    BY <2>2, <2>4 DEF ViewInv
<1>6. CASE Receive
  <2>1. PICK e : e = Head(events)
    OBVIOUS
  <2>2. /\ events # <<>> /\ events' = Tail(events) /\ UNCHANGED <<sending, connected>>
        /\ seen' = CASE e.kind = "PeerConnected"    -> seen \cup {e.peer}
                     [] e.kind = "PeerDisconnected" -> seen \ {e.peer}
                     [] OTHER                       -> seen
    BY <1>6, <2>1 DEF Receive
  <2>3. e \in Event /\ e.kind \in {"PeerConnected", "PeerDisconnected", "MetadataMismatch"}
    <3>1. e \in Event
      BY <1>0, <2>1, <2>2
    <3>2. QED
      BY <3>1 DEF Event
  <2>4. \A p \in Peer : IF Tells(e, p) THEN p \in seen' <=> e.kind = "PeerConnected"
                                       ELSE p \in seen' <=> p \in seen
    BY <2>2, <2>3 DEF Tells
  <2>5. Ahead \in Seq(Event) /\ Ahead # <<>> /\ Head(Ahead) = e /\ Tail(Ahead) = Ahead'
    <3>1. CASE sending = <<>>
      BY <1>0, <2>1, <2>2, <3>1 DEF Ahead
    <3>2. ASSUME NEW f \in Event, sending = <<f>>
          PROVE  Ahead \in Seq(Event) /\ Ahead # <<>> /\ Head(Ahead) = e /\ Tail(Ahead) = Ahead'
      <4>1. Ahead = Append(events, f) /\ Ahead' = Append(Tail(events), f)
        BY <2>2, <3>2 DEF Ahead
      <4>2. /\ Append(events, f) \in Seq(Event) /\ Append(events, f) # <<>>
            /\ Head(Append(events, f)) = Head(events)
        BY <1>0, <2>2
      <4>3. Tail(Append(events, f)) = Append(Tail(events), f)
        BY <1>0, <2>2
      <4>4. QED
        BY <2>1, <4>1, <4>2, <4>3
    <3>3. QED
      BY <3>1, <3>2 DEF ViewInv
  <2>6. \A p \in Peer : Agree(Tail(Ahead), p, seen', connected)
    BY <2>4, <2>5, AgreeTail DEF ViewInv
  <2>7. QED
    BY ZenonT(60), <2>2, <2>5, <2>6 DEF ViewInv
<1>7. CASE UNCHANGED <<sending, events, seen, connected>>
  BY <1>7 DEF ViewInv, Ahead
<1>8. QED
  BY ZenonT(60), <1>2, <1>3, <1>4, <1>5, <1>6, <1>7 DEF Next, Refuse, MetadataFailure, vars

(* Whatever connections come, are refused and go, PeerConnected and
   PeerDisconnected tell an application what connected_peers says. *)
THEOREM EventsTellTheTruth == Spec => []AppViewConverges
<1>1. Init => ViewInv
  BY DEF Init, ViewInv, Ahead, Agree
<1>2. TypeOK /\ ViewInv => AppViewConverges
  <2> SUFFICES ASSUME TypeOK, ViewInv PROVE AppViewConverges
    OBVIOUS
  <2>1. events \o sending = Ahead
    <3>1. events \in Seq(Event) /\ \A e \in Event : events \o <<e>> = Append(events, e)
      BY DEF TypeOK
    <3>2. events \o <<>> = events
      BY <3>1
    <3>3. CASE sending = <<>>
      BY <3>2, <3>3 DEF Ahead
    <3>4. ASSUME NEW e \in Event, sending = <<e>> PROVE events \o sending = Ahead
      <4>1. sending # <<>> /\ sending[1] = e
        BY <3>4
      <4>2. QED
        BY <3>1, <3>4, <4>1 DEF Ahead
    <3>5. QED
      BY <3>3, <3>4 DEF ViewInv
  <2>2. ASSUME NEW p \in Peer,
               NEW A, A = {i \in DOMAIN Ahead : Ahead[i].peer = p /\ Ahead[i].kind # "MetadataMismatch"}
        PROVE  p \in connected <=>
                 IF A = {} THEN p \in seen
                 ELSE Ahead[CHOOSE i \in A : \A j \in A : j <= i].kind = "PeerConnected"
    <3>1. Agree(Ahead, p, seen, connected) /\ \A i \in DOMAIN Ahead : i \in A <=> Tells(Ahead[i], p)
      BY <2>2 DEF ViewInv, Tells
    <3>2. A \subseteq DOMAIN Ahead /\ A \subseteq Int
      <4>1. Ahead \in Seq(Event)
        BY DEF TypeOK, ViewInv, Ahead
      <4>2. DOMAIN Ahead \subseteq Int
        BY <4>1
      <4>3. QED
        BY <2>2, <4>2
    <3>3. CASE (\A j \in DOMAIN Ahead : ~Tells(Ahead[j], p)) /\ (p \in connected <=> p \in seen)
      BY <3>1, <3>2, <3>3
    <3>4. ASSUME NEW i \in A, \A j \in A : j <= i, p \in connected <=> Ahead[i].kind = "PeerConnected"
          PROVE  p \in connected <=>
                   IF A = {} THEN p \in seen
                   ELSE Ahead[CHOOSE k \in A : \A j \in A : j <= k].kind = "PeerConnected"
      <4>1. PICK l : l = CHOOSE k \in A : \A j \in A : j <= k
        OBVIOUS
      <4>2. l \in A /\ \A j \in A : j <= l
        BY <3>4, <4>1
      <4>3. l = i
        BY <3>2, <3>4, <4>2
      <4>4. QED
        BY ZenonT(60), <3>4, <4>1, <4>3
    <3>5. QED
      BY <3>1, <3>2, <3>3, <3>4 DEF Agree
  <2>3. QED
    BY ZenonT(60), <2>1, <2>2 DEF AppViewConverges
<1>3. QED
  BY <1>1, <1>2, TypeCorrect, ViewPreserved, PTL DEF Spec
=============================================================================
