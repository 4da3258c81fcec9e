--------------------------- MODULE DiscoveryProofs ---------------------------
(* Proofs about Discovery, for any trees, records, peers and capacities, and *)
(* any answers of the resolver.                                              *)
EXTENDS Discovery, FiniteSetTheorems, WellFoundedInduction, TLAPS

(* The provers of the leaves that name none. An attempt with SMT ends when the
   translation takes five seconds, whatever its limit: on a busy machine a leaf
   needs a later attempt. *)
USE SMTT(15), Zenon, SMTT(30), ZenonT(30), SMTT(40), SMTT(50),
    ZenonT(60), SMTT(60), SMTT(70), SMTT(80), SMTT(90)

(* A sequence after Append, Tail, \o and without its last element. *)
LEMMA AppendIs ==
  ASSUME NEW S, NEW s \in Seq(S), NEW e \in S
  PROVE  /\ Append(s, e) \in Seq(S) /\ Len(Append(s, e)) = Len(s) + 1
         /\ \A i \in DOMAIN s : Append(s, e)[i] = s[i]
         /\ Append(s, e)[Len(s) + 1] = e
         /\ Elems(Append(s, e)) = Elems(s) \cup {e}
<1>1. /\ Append(s, e) \in Seq(S) /\ Len(Append(s, e)) = Len(s) + 1
      /\ \A i \in DOMAIN s : Append(s, e)[i] = s[i]
      /\ Append(s, e)[Len(s) + 1] = e
      /\ DOMAIN Append(s, e) = DOMAIN s \cup {Len(s) + 1}
  OBVIOUS
<1>2. QED
  BY <1>1 DEF Elems

LEMMA TailIs ==
  ASSUME NEW S, NEW s \in Seq(S), s # <<>>
  PROVE  /\ Tail(s) \in Seq(S) /\ Len(s) \in Nat \ {0} /\ Len(Tail(s)) = Len(s) - 1
         /\ \A i \in DOMAIN Tail(s) : i + 1 \in DOMAIN s /\ Tail(s)[i] = s[i + 1]
         /\ Head(s) \in S /\ Head(s) \in Elems(s)
<1>1. /\ Tail(s) \in Seq(S) /\ Len(s) \in Nat \ {0} /\ Len(Tail(s)) = Len(s) - 1
      /\ \A i \in DOMAIN Tail(s) : i + 1 \in DOMAIN s /\ Tail(s)[i] = s[i + 1]
      /\ Head(s) \in S /\ Head(s) = s[1] /\ 1 \in DOMAIN s
  OBVIOUS
<1>2. QED
  BY <1>1 DEF Elems

LEMMA ConcatIs ==
  ASSUME NEW S, NEW s \in Seq(S), NEW u \in Seq(S)
  PROVE  /\ s \o u \in Seq(S) /\ Elems(s \o u) = Elems(s) \cup Elems(u)
         /\ Len(s \o u) = Len(s) + Len(u)
         /\ \A i \in DOMAIN s : (s \o u)[i] = s[i]
         /\ \A i \in DOMAIN u : (s \o u)[Len(s) + i] = u[i]
<1>1. /\ s \o u \in Seq(S) /\ Len(s \o u) = Len(s) + Len(u)
      /\ \A i \in DOMAIN s : i \in DOMAIN (s \o u) /\ (s \o u)[i] = s[i]
      /\ \A i \in DOMAIN u : Len(s) + i \in DOMAIN (s \o u) /\ (s \o u)[Len(s) + i] = u[i]
  OBVIOUS
<1>2. \A i \in DOMAIN (s \o u) : i \in DOMAIN s \/ i - Len(s) \in DOMAIN u
  BY <1>1
<1>3. \A i \in DOMAIN (s \o u) : \/ i \in DOMAIN s /\ (s \o u)[i] = s[i]
                                 \/ i - Len(s) \in DOMAIN u /\ (s \o u)[i] = u[i - Len(s)]
  BY <1>1, <1>2
<1>4. Elems(s \o u) \subseteq Elems(s) \cup Elems(u)
  BY <1>3 DEF Elems
<1>5. Elems(s) \cup Elems(u) \subseteq Elems(s \o u)
  BY ZenonT(60), <1>1 DEF Elems
<1>6. QED
  BY <1>1, <1>4, <1>5, ZenonT(60)

LEMMA FrontIs ==
  ASSUME NEW S, NEW s \in Seq(S), s # <<>>
  PROVE  /\ Front(s) \in Seq(S) /\ Last(s) \in S
         /\ Elems(s) = Elems(Front(s)) \cup {Last(s)}
<1>1. /\ Len(s) \in Nat \ {0} /\ DOMAIN s = 1..Len(s)
      /\ Front(s) \in Seq(S) /\ DOMAIN Front(s) = 1..(Len(s) - 1)
      /\ \A i \in DOMAIN Front(s) : Front(s)[i] = s[i]
  BY DEF Front
<1>2. Len(s) \in DOMAIN s /\ Last(s) = s[Len(s)]
  BY <1>1 DEF Last
<1>3. \A i \in DOMAIN s : i \in DOMAIN Front(s) \/ i = Len(s)
  BY <1>1
<1>4. \A i \in DOMAIN Front(s) : i \in DOMAIN s
  BY <1>1
<1>5. QED
  BY <1>1, <1>2, <1>3, <1>4 DEF Elems
-----------------------------------------------------------------------------
(* The peer book after remember_enr: of distinct nodes if it was, and within
   its cap. *)
OneRecordEach(b) == \A i, j \in DOMAIN b : NodeOf[b[i]] = NodeOf[b[j]] => i = j

LEMMA RememberIs ==
  ASSUME book \in Seq(Enr), Len(book) <= BookCap, OneRecordEach(book), NEW e \in Enr
  PROVE  /\ RememberEnr(e) \in Seq(Enr) /\ Len(RememberEnr(e)) <= BookCap
         /\ OneRecordEach(RememberEnr(e))
<1>1. CASE \E i \in DOMAIN book : NodeOf[book[i]] = NodeOf[e]
  BY <1>1 DEF RememberEnr
<1>2. CASE \A i \in DOMAIN book : NodeOf[book[i]] # NodeOf[e]
  <2>0. PICK b : b = IF Len(book) >= BookCap THEN Tail(book) ELSE book
    BY ZenonT(60)
  <2>1. RememberEnr(e) = Append(b, e)
    BY <1>2, <2>0 DEF RememberEnr
  <2>2. /\ b \in Seq(Enr) /\ Len(b) + 1 <= BookCap /\ OneRecordEach(b)
        /\ \A i \in DOMAIN b : NodeOf[b[i]] # NodeOf[e]
    <3>1. CASE Len(book) >= BookCap
      <4>1. book # <<>> /\ b = Tail(book)
        BY <2>0, <3>1, DiscoveryAssumption
      <4>2. /\ b \in Seq(Enr) /\ Len(b) = Len(book) - 1 /\ Len(book) \in Nat
            /\ \A i \in DOMAIN b : i + 1 \in DOMAIN book /\ b[i] = book[i + 1]
        BY <4>1, TailIs
      <4>3. \A i \in DOMAIN b : i \in Int
        BY <4>2
      <4>4. OneRecordEach(b)
        BY <4>2, <4>3 DEF OneRecordEach
      <4>5. Len(b) + 1 <= BookCap
        BY <4>2, DiscoveryAssumption
      <4>6. QED
        BY <1>2, <4>2, <4>4, <4>5
    <3>2. CASE ~(Len(book) >= BookCap)
      BY <1>2, <2>0, <3>2, DiscoveryAssumption
    <3>3. QED
      BY <3>1, <3>2
  <2>3. /\ Append(b, e) \in Seq(Enr) /\ Len(Append(b, e)) = Len(b) + 1 /\ Append(b, e)[Len(b) + 1] = e
        /\ \A i \in DOMAIN b : Append(b, e)[i] = b[i]
    BY <2>2, AppendIs
  <2>4. \A i \in DOMAIN Append(b, e) : i \in DOMAIN b \/ i = Len(b) + 1
    BY <2>2
  <2>5. OneRecordEach(Append(b, e))
    BY <2>2, <2>3, <2>4 DEF OneRecordEach
  <2>6. QED
    BY <2>1, <2>2, <2>3, <2>5
<1>3. QED
  BY <1>1, <1>2
-----------------------------------------------------------------------------
(* Until a file is whole the node has appeared with no key, and afterwards with
   the saved one only. *)
KeyInv ==
  /\ keyFile # "whole" => used = {}
  /\ keyFile = "whole" => used \subseteq {saved} /\ saved > 0
  /\ phase = "write" => keyFile = "torn" /\ key > 0

(* A peer has been dialled once it is known, except the one whose command is
   being sent. *)
DialInv ==
  /\ sending = <<>> \/ \E p \in Peer : sending = <<p>>
  /\ \A p \in Elems(sending) : p \in known /\ dials[p] = 0
  /\ \A p \in Peer : dials[p] <= 1 /\ (dials[p] > 0 => p \in known)
  /\ KnownIsDialled

(* What was visited and kept: all its children are visited, waiting or lost; it
   follows from the root by the branches kept, so that any set that has the root
   and is closed under them holds it; and its records are those collected. *)
Kept == visited \ lost

WalkInv ==
  phase = "walk" =>
    /\ urls # <<>>
    /\ lost \subseteq visited \/ stack = <<>>
    /\ Head(urls) \in visited \cup Elems(stack) \cup lost
    /\ \A h \in Kept : Elems(Children[h]) \subseteq visited \cup Elems(stack) \cup lost
    /\ \A S \in SUBSET Hash :
         Head(urls) \in S /\ (\A h \in S \cap Kept : Elems(Children[h]) \subseteq S)
           => visited \cup Elems(stack) \subseteq S
    /\ Elems(enrs) = {EnrAt[h] : h \in Kept} \ {NoEnr}

IInv == TypeOK /\ KeyInv /\ OneRecordEach(book) /\ DialInv /\ WalkInv

LEMMA KeyPreserved == IInv /\ [Next]_vars => KeyInv' /\ used' \subseteq 1..MaxKeys
                                /\ saved' \in 0..MaxKeys /\ key' \in 0..MaxKeys
<1> SUFFICES ASSUME IInv, [Next]_vars
             PROVE  KeyInv' /\ used' \subseteq 1..MaxKeys /\ saved' \in 0..MaxKeys /\ key' \in 0..MaxKeys
  OBVIOUS
<1>0. /\ KeyInv /\ used \subseteq 1..MaxKeys /\ saved \in 0..MaxKeys /\ key \in 0..MaxKeys
      /\ MaxKeys \in Nat \ {0}
  BY DiscoveryAssumption DEF IInv, TypeOK
<1>1. CASE LoadKey
  BY <1>0, <1>1 DEF LoadKey, Identify, KeyInv
<1>2. CASE GenerateKey
  <2>1. used = {} /\ Cardinality(used) = 0
    BY ZenonT(60), <1>0, <1>2, FS_EmptySet DEF GenerateKey, KeyInv
  <2>2. key' = 1
    BY <1>2, <2>1 DEF GenerateKey
  <2>3. QED
    BY <1>0, <1>2, <2>1, <2>2 DEF GenerateKey, KeyInv
<1>3. CASE WriteKey
  BY <1>0, <1>3 DEF WriteKey, Identify, KeyInv
<1>4. CASE Crash
  BY <1>0, <1>4 DEF Crash, KeyInv
<1>5. CASE /\ UNCHANGED keyVars
           /\ phase' = phase \/ phase' \in {"down", "key", "walk", "root", "boot", "sleep", "query", "done", "dial"}
  BY <1>0, <1>5 DEF keyVars, KeyInv
<1>6. CASE RejectKey \/ BeginWalk \/ SkipUrl \/ PopVisited \/ Truncate \/ FetchFails \/ EndWalk
             \/ StartLoop \/ Consider \/ SendDial \/ EndRound \/ DriverStops \/ Restart
  BY <1>5, <1>6 DEF RejectKey, BeginWalk, SkipUrl, PopVisited, Truncate, FetchFails, EndWalk,
       StartLoop, Consider, SendDial, EndRound, DriverStops, Restart
<1>7. CASE Wake
  BY <1>5, <1>7 DEF Wake
<1>8. CASE (\E c \in Hash : Fetch(c)) \/ (\E found \in Found : Query(found))
  BY <1>5, <1>8 DEF Fetch, Query
<1>9. CASE UNCHANGED vars
  BY <1>5, <1>9 DEF vars
<1>10. QED
  BY <1>1, <1>2, <1>3, <1>4, <1>6, <1>7, <1>8, <1>9 DEF Next, Progress

LEMMA TypePreserved == IInv /\ [Next]_vars => TypeOK' /\ OneRecordEach(book')
<1> SUFFICES ASSUME IInv, [Next]_vars
             PROVE  TypeOK' /\ OneRecordEach(book')
  OBVIOUS
<1>0. TypeOK /\ OneRecordEach(book)
  BY DEF IInv
<1>k. used' \subseteq 1..MaxKeys /\ saved' \in 0..MaxKeys /\ key' \in 0..MaxKeys
  BY KeyPreserved
<1>1. CASE LoadKey \/ RejectKey \/ GenerateKey \/ WriteKey \/ Restart
  BY ZenonT(60), <1>0, <1>k, <1>1 DEF LoadKey, RejectKey, GenerateKey, WriteKey, Restart, Identify,
       keyVars, walkVars, peerVars, TypeOK
<1>2. CASE Crash
  <2>1. OneRecordEach(<<>>)
    BY DEF OneRecordEach
  <2>2. QED
    BY <1>0, <1>k, <1>2, <2>1, DiscoveryAssumption DEF Crash, TypeOK
<1>3. CASE BeginWalk
  <2>1. <<Head(urls)>> \in Seq(Hash)
    BY <1>0, <1>3 DEF BeginWalk, TypeOK
  <2>2. QED
    BY <1>0, <1>k, <1>3, <2>1, DiscoveryAssumption DEF BeginWalk, keyVars, peerVars, TypeOK
<1>4. CASE SkipUrl
  <2>1. Tail(urls) \in Seq(Hash)
    BY <1>0, <1>4 DEF SkipUrl, TypeOK
  <2>2. QED
    BY <1>0, <1>k, <1>4, <2>1 DEF SkipUrl, keyVars, walkVars, peerVars, TypeOK
<1>5. CASE PopVisited \/ Truncate \/ FetchFails \/ \E c \in Hash : Fetch(c)
  <2>0. stack # <<>> /\ stack \in Seq(Hash)
    BY <1>0, <1>5 DEF PopVisited, Truncate, FetchFails, Fetch, TypeOK
  <2>1. Front(stack) \in Seq(Hash) /\ Last(stack) \in Hash /\ Elems(stack) \subseteq Hash
    <3>1. Elems(stack) \subseteq Hash
      BY <2>0 DEF Elems
    <3>2. QED
      BY <2>0, <3>1, FrontIs
  <2>2. CASE PopVisited
    BY <1>0, <1>k, <2>1, <2>2 DEF PopVisited, keyVars, peerVars, TypeOK
  <2>3. CASE Truncate
    BY <1>0, <1>k, <2>1, <2>3 DEF Truncate, keyVars, peerVars, TypeOK
  <2>4. CASE FetchFails
    BY <1>0, <1>k, <2>1, <2>4, DiscoveryAssumption DEF FetchFails, keyVars, peerVars, TypeOK
  <2>5. ASSUME NEW c \in Hash, Fetch(c) PROVE TypeOK' /\ OneRecordEach(book')
    <3>1. Front(stack) \o Children[c] \in Seq(Hash)
      BY <2>1, DiscoveryAssumption
    <3>2. EnrAt[c] # NoEnr => Append(enrs, EnrAt[c]) \in Seq(Enr)
      BY <1>0, DiscoveryAssumption DEF TypeOK
    <3>3. stack' \in Seq(Hash) /\ visited' \subseteq Hash /\ lost' \subseteq Hash /\ enrs' \in Seq(Enr)
      BY ZenonT(60), <1>0, <2>1, <2>5, <3>1, <3>2 DEF Fetch, TypeOK
    <3>4. budget' \in 0..MaxRecords
      BY <1>0, <2>5, DiscoveryAssumption DEF Fetch, TypeOK
    <3>5. QED
      BY <1>0, <1>k, <2>5, <3>3, <3>4 DEF Fetch, keyVars, peerVars, TypeOK
  <2>6. QED
    BY <1>5, <2>2, <2>3, <2>4, <2>5
<1>6. CASE EndWalk
  <2>1. boot \o enrs \in Seq(Enr)
    BY <1>0 DEF TypeOK
  <2>2. urls # <<>>
    BY <1>6 DEF EndWalk, IInv, WalkInv
  <2>3. Tail(urls) \in Seq(Hash)
    BY <1>0, <2>2 DEF TypeOK
  <2>4. QED
    BY <1>0, <1>k, <1>6, <2>1, <2>3 DEF EndWalk, keyVars, walkVars, peerVars, TypeOK
<1>7. CASE StartLoop
  BY <1>0, <1>k, <1>7 DEF StartLoop, keyVars, walkVars, TypeOK
<1>8. CASE Consider
  <2>1. PICK e : e = Head(todo)
    OBVIOUS
  <2>2. e \in Enr /\ Tail(todo) \in Seq(Enr) /\ NodeOf[e] \in Peer
    BY <1>0, <1>8, <2>1, DiscoveryAssumption DEF Consider, TypeOK
  <2>3. /\ book' \in Seq(Enr) /\ Len(book') <= BookCap /\ OneRecordEach(book')
    BY <1>0, <1>8, <2>1, <2>2, RememberIs DEF Consider, TypeOK
  <2>4. known' \subseteq Peer /\ sending' \in Seq(Peer)
    BY <1>0, <1>8, <2>1, <2>2 DEF Consider, TypeOK, Knows
  <2>5. QED
    BY <1>0, <1>k, <1>8, <2>2, <2>3, <2>4 DEF Consider, keyVars, walkVars, TypeOK
<1>9. CASE SendDial
  <2>1. dials' \in [Peer -> 0..2]
    <3>1. PICK p : p = Head(sending)
      OBVIOUS
    <3>2. p \in Peer /\ dials[p] \in 0..2 /\ dials \in [Peer -> 0..2]
      BY <1>0, <1>9, <3>1 DEF SendDial, TypeOK
    <3>3. dials' = dials \/ dials' = [dials EXCEPT ![p] = IF dials[p] = 2 THEN 2 ELSE dials[p] + 1]
      BY <1>9, <3>1 DEF SendDial
    <3>4. QED
      BY <3>2, <3>3
  <2>2. QED
    BY <1>0, <1>k, <1>9, <2>1 DEF SendDial, keyVars, walkVars, TypeOK
<1>10. CASE EndRound \/ Wake \/ DriverStops
  BY ZenonT(60), <1>0, <1>k, <1>10 DEF EndRound, Wake, DriverStops, keyVars, walkVars, peerVars, TypeOK
<1>11. ASSUME NEW found \in Found, Query(found) PROVE TypeOK' /\ OneRecordEach(book')
  <2>1. found \in Seq(Enr)
    <3>1. found = <<>> \/ (\E e \in Enr : found = <<e>>) \/ (\E e, f \in Enr : found = <<e, f>>)
      BY DEF Found
    <3>2. <<>> \in Seq(Enr) /\ \A e \in Enr : <<e>> \in Seq(Enr)
      OBVIOUS
    <3>3. \A e, f \in Enr : <<e, f>> \in Seq(Enr)
      OBVIOUS
    <3>4. QED
      BY <3>1, <3>2, <3>3, ZenonT(60)
  <2>2. QED
    BY <1>0, <1>k, <1>11, <2>1 DEF Query, keyVars, walkVars, TypeOK
<1>12. CASE UNCHANGED vars
  BY <1>0, <1>12 DEF vars, keyVars, walkVars, peerVars, TypeOK
<1>13. QED
  BY <1>1, <1>2, <1>3, <1>4, <1>5, <1>6, <1>7, <1>8, <1>9, <1>10, <1>11, <1>12 DEF Next, Progress
-----------------------------------------------------------------------------
LEMMA DialPreserved == IInv /\ [Next]_vars => DialInv'
<1> SUFFICES ASSUME IInv, [Next]_vars
             PROVE  DialInv'
  OBVIOUS
<1>0. DialInv /\ dials \in [Peer -> 0..2] /\ known \subseteq Peer /\ TypeOK
  BY DEF IInv, TypeOK
<1>e. Elems(<<>>) = {} /\ \A p : Elems(<<p>>) = {p}
  BY DEF Elems
<1>1. CASE Consider
  <2>1. PICK e : e = Head(todo)
    OBVIOUS
  <2>2. e \in Enr /\ NodeOf[e] \in Peer
    BY <1>0, <1>1, <2>1, DiscoveryAssumption DEF Consider, TypeOK
  <2>3. /\ known \subseteq known' /\ known' \subseteq known \cup {NodeOf[e]}
        /\ sending = <<>> /\ dials' = dials /\ open' = open
    BY <1>1, <2>1 DEF Consider, Knows
  <2>4. CASE Dials(e)
    <3>1. sending' = <<NodeOf[e]>> /\ NodeOf[e] \in known' /\ NodeOf[e] \notin known
      BY <1>1, <2>1, <2>4 DEF Consider, Knows, Dials
    <3>2. dials[NodeOf[e]] = 0
      BY <1>0, <2>2, <3>1 DEF DialInv
    <3>3. Elems(sending') = {NodeOf[e]} /\ Elems(sending) = {}
      BY <1>e, <2>3, <3>1
    <3>4. KnownIsDialled'
      BY <1>0, <2>3, <3>3 DEF DialInv, KnownIsDialled
    <3>5. QED
      BY <1>0, <2>2, <2>3, <3>1, <3>2, <3>3, <3>4 DEF DialInv
  <2>5. CASE ~Dials(e)
    <3>1. sending' = <<>> /\ known' = known
      BY <1>1, <2>1, <2>5 DEF Consider, Knows, Dials
    <3>2. QED
      BY <1>0, <2>3, <3>1 DEF DialInv, KnownIsDialled
  <2>6. QED
    BY <2>4, <2>5
<1>2. CASE SendDial
  <2>1. PICK p \in Peer : sending = <<p>>
    BY <1>0, <1>2 DEF DialInv, SendDial
  <2>2. Elems(sending) = {p} /\ Head(sending) = p /\ p \in known /\ dials[p] = 0
    BY <1>0, <1>e, <2>1 DEF DialInv
  <2>3. /\ sending' = <<>> /\ Elems(sending') = {} /\ known' = known /\ open' = open
        /\ dials' = IF open THEN [dials EXCEPT ![p] = 1] ELSE dials
    <3>1. sending' = <<>> /\ known' = known /\ open' = open
      BY <1>2 DEF SendDial
    <3>2. dials' = IF open THEN [dials EXCEPT ![p] = IF dials[p] = 2 THEN 2 ELSE dials[p] + 1] ELSE dials
      BY ZenonT(60), <1>2, <2>2 DEF SendDial
    <3>3. (IF dials[p] = 2 THEN 2 ELSE dials[p] + 1) = 1
      BY <2>2
    <3>4. QED
      BY ZenonT(60), <1>e, <3>1, <3>2, <3>3
  <2>4. /\ \A q \in Peer : dials'[q] = dials[q] \/ (q = p /\ dials'[q] = 1)
        /\ open => dials'[p] = 1
    BY <1>0, <2>3
  <2>5. \A q \in Peer : dials'[q] <= 1 /\ (dials'[q] > 0 => q \in known')
    BY <1>0, <2>2, <2>3, <2>4 DEF DialInv
  <2>6. KnownIsDialled'
    BY <1>0, <2>2, <2>3, <2>4 DEF DialInv, KnownIsDialled
  <2>7. QED
    BY <2>3, <2>5, <2>6 DEF DialInv
<1>3. CASE Crash
  <2>1. /\ sending' = <<>> /\ Elems(sending') = {} /\ known' = {}
        /\ \A p \in Peer : dials'[p] = 0
    BY <1>3, <1>e DEF Crash
  <2>2. KnownIsDialled'
    BY <2>1 DEF KnownIsDialled
  <2>3. QED
    BY <2>1, <2>2 DEF DialInv
<1>4. CASE UNCHANGED <<sending, known, dials>> /\ (open' => open)
  BY <1>0, <1>4 DEF DialInv, KnownIsDialled, Elems
<1>5. CASE LoadKey \/ RejectKey \/ GenerateKey \/ WriteKey \/ Restart \/ EndRound \/ Wake \/ DriverStops
             \/ BeginWalk \/ SkipUrl \/ PopVisited \/ Truncate \/ FetchFails \/ EndWalk \/ StartLoop
  BY <1>4, <1>5 DEF LoadKey, RejectKey, GenerateKey, WriteKey, Restart, EndRound, Wake, DriverStops,
       BeginWalk, SkipUrl, PopVisited, Truncate, FetchFails, EndWalk, StartLoop, peerVars
<1>6. CASE (\E c \in Hash : Fetch(c)) \/ (\E found \in Found : Query(found))
  BY <1>4, <1>6 DEF Fetch, Query, peerVars
<1>7. CASE UNCHANGED vars
  BY <1>4, <1>7 DEF vars, peerVars
<1>8. QED
  BY <1>1, <1>2, <1>3, <1>5, <1>6, <1>7 DEF Next, Progress
-----------------------------------------------------------------------------
(* A step of the walk that takes h from the stack and keeps nothing of it. *)
LEMMA DropPreserved ==
  ASSUME IInv, phase = "walk", phase' = "walk", UNCHANGED <<urls, enrs>>,
         NEW h, visited \cup {h} = visited',
         visited \cup Elems(stack) \subseteq visited' \cup Elems(stack') \cup lost',
         visited' \cup Elems(stack') \subseteq visited \cup Elems(stack),
         lost \subseteq lost', lost' \ lost \subseteq Elems(stack) \ visited,
         h \in visited \/ h \in lost',
         lost' \subseteq visited' \/ stack' = <<>>
  PROVE  WalkInv'
<1>0. WalkInv /\ phase = "walk"
  BY DEF IInv
<1>1. visited' \ lost' = visited \ lost
  OBVIOUS
<1>2. \A S \in SUBSET Hash :
        Head(urls) \in S /\ (\A x \in S \cap (visited \ lost) : Elems(Children[x]) \subseteq S)
          => visited' \cup Elems(stack') \subseteq S
  <2>1. \A S \in SUBSET Hash :
          Head(urls) \in S /\ (\A x \in S \cap (visited \ lost) : Elems(Children[x]) \subseteq S)
            => visited \cup Elems(stack) \subseteq S
    BY <1>0 DEF WalkInv, Kept
  <2>2. QED
    BY <2>1
<1>3. Head(urls) \in visited' \cup Elems(stack') \cup lost'
  BY <1>0 DEF WalkInv
<1>4. \A x \in visited \ lost : Elems(Children[x]) \subseteq visited' \cup Elems(stack') \cup lost'
  BY <1>0 DEF WalkInv, Kept
<1>5. Elems(enrs) = {EnrAt[x] : x \in visited \ lost} \ {NoEnr}
  BY <1>0 DEF WalkInv, Kept
<1>6. Elems(stack)' = Elems(stack') /\ Elems(enrs)' = Elems(enrs)
  BY DEF Elems
<1>7. Kept' = visited \ lost
  BY <1>1 DEF Kept
<1>8. QED
  BY <1>0, <1>2, <1>3, <1>4, <1>5, <1>6, <1>7 DEF WalkInv

LEMMA WalkPreserved == IInv /\ [Next]_vars => WalkInv'
<1> SUFFICES ASSUME IInv, [Next]_vars
             PROVE  WalkInv'
  OBVIOUS
<1>0. TypeOK /\ WalkInv
  BY DEF IInv
<1>1. CASE BeginWalk
  <2>1. /\ urls' = urls /\ urls # <<>> /\ stack' = <<Head(urls)>> /\ visited' = {} /\ lost' = {}
        /\ enrs' = <<>>
    BY <1>1 DEF BeginWalk
  <2>2. Elems(stack)' = {Head(urls)} /\ Elems(enrs)' = {} /\ Kept' = {}
    BY <2>1 DEF Elems, Kept
  <2>3. QED
    BY <2>1, <2>2 DEF WalkInv
<1>2. CASE PopVisited \/ Truncate \/ FetchFails \/ \E c \in Hash : Fetch(c)
  <2>0. stack # <<>> /\ stack \in Seq(Hash) /\ phase = "walk" /\ phase' = "walk" /\ UNCHANGED urls
    BY <1>0, <1>2 DEF PopVisited, Truncate, FetchFails, Fetch, TypeOK
  <2>1. PICK h : h = Last(stack)
    OBVIOUS
  <2>2. Front(stack) \in Seq(Hash) /\ h \in Hash /\ Elems(stack) = Elems(Front(stack)) \cup {h}
    BY <2>0, <2>1, FrontIs
  <2>3. lost \subseteq visited
    BY <1>0, <2>0 DEF WalkInv
  <2>4. CASE PopVisited
    <3>1. stack' = Front(stack) /\ UNCHANGED <<visited, lost, enrs>> /\ h \in visited
      BY <2>1, <2>4 DEF PopVisited
    <3>2. QED
      BY <2>0, <2>2, <2>3, <3>1, DropPreserved
  <2>5. CASE Truncate
    <3>1. /\ stack' = <<>> /\ UNCHANGED enrs /\ visited' = visited \cup {h}
          /\ lost' = lost \cup (Elems(stack) \ visited) /\ h \notin visited
      BY <2>1, <2>5 DEF Truncate
    <3>2. Elems(stack') = {}
      BY <3>1 DEF Elems
    <3>3. QED
      BY <2>0, <2>2, <2>3, <3>1, <3>2, DropPreserved
  <2>6. CASE FetchFails
    <3>1. /\ stack' = Front(stack) /\ UNCHANGED enrs /\ visited' = visited \cup {h}
          /\ lost' = lost \cup {h} /\ h \notin visited
      BY <2>1, <2>6 DEF FetchFails
    <3>2. QED
      BY <2>0, <2>2, <2>3, <3>1, DropPreserved
  <2>7. ASSUME NEW c \in Hash, Fetch(c), ~Verifies(c, h) PROVE WalkInv'
    <3>1. /\ stack' = Front(stack) /\ UNCHANGED enrs /\ visited' = visited \cup {h}
          /\ lost' = lost \cup {h} /\ h \notin visited
      BY <2>1, <2>7 DEF Fetch
    <3>2. QED
      BY <2>0, <2>2, <2>3, <3>1, DropPreserved
  <2>8. ASSUME NEW c \in Hash, Fetch(c), Verifies(c, h) PROVE WalkInv'
    <3>1. /\ c = h /\ h \notin visited /\ visited' = visited \cup {h} /\ UNCHANGED lost
          /\ stack' = Front(stack) \o Children[h]
          /\ enrs' = IF EnrAt[h] = NoEnr THEN enrs ELSE Append(enrs, EnrAt[h])
      BY <2>1, <2>8 DEF Fetch, Verifies
    <3>2. Elems(stack)' = Elems(Front(stack)) \cup Elems(Children[h])
      <4>1. Children[h] \in Seq(Hash)
        BY <2>2, DiscoveryAssumption
      <4>2. Elems(Front(stack) \o Children[h]) = Elems(Front(stack)) \cup Elems(Children[h])
        BY <2>2, <4>1, ConcatIs
      <4>3. QED
        BY ZenonT(60), <3>1, <4>2 DEF Elems
    <3>3. Elems(enrs)' = (Elems(enrs) \cup {EnrAt[h]}) \ {NoEnr}
      <4>1. enrs \in Seq(Enr) /\ NoEnr \notin Elems(enrs) /\ EnrAt[h] \in Enr \cup {NoEnr}
        BY <1>0, <2>2, DiscoveryAssumption DEF TypeOK, Elems
      <4>2. EnrAt[h] # NoEnr => Elems(Append(enrs, EnrAt[h])) = Elems(enrs) \cup {EnrAt[h]}
        BY <4>1, AppendIs
      <4>3. Elems(enrs') = (Elems(enrs) \cup {EnrAt[h]}) \ {NoEnr}
        BY <3>1, <4>1, <4>2, DiscoveryAssumption
      <4>4. QED
        BY <4>3 DEF Elems
    <3>4. Kept' = Kept \cup {h}
      BY <2>3, <3>1 DEF Kept
    <3>5. lost' \subseteq visited' /\ urls' = urls /\ urls # <<>>
      BY <1>0, <2>0, <2>3, <3>1 DEF WalkInv
    <3>6. visited \cup Elems(stack) \cup lost \subseteq visited' \cup Elems(stack)' \cup lost'
      BY <2>2, <3>1, <3>2
    <3>7. Head(urls) \in visited' \cup Elems(stack)' \cup lost'
      BY <1>0, <2>0, <3>6 DEF WalkInv
    <3>8. \A x \in Kept' : Elems(Children[x]) \subseteq visited' \cup Elems(stack)' \cup lost'
      BY <1>0, <2>0, <3>2, <3>4, <3>6 DEF WalkInv
    <3>9. ASSUME NEW S \in SUBSET Hash, Head(urls) \in S,
                 \A x \in S \cap Kept' : Elems(Children[x]) \subseteq S
          PROVE  visited' \cup Elems(stack)' \subseteq S
      <4>1. visited \cup Elems(stack) \subseteq S
        BY <1>0, <2>0, <3>4, <3>9 DEF WalkInv
      <4>2. Elems(Children[h]) \subseteq S
        BY <2>2, <3>4, <3>9, <4>1
      <4>3. QED
        BY <2>2, <3>1, <3>2, <4>1, <4>2
    <3>10. Elems(enrs)' = {EnrAt[x] : x \in Kept'} \ {NoEnr}
      <4>1. Elems(enrs) = {EnrAt[x] : x \in Kept} \ {NoEnr}
        BY <1>0, <2>0 DEF WalkInv
      <4>2. {EnrAt[x] : x \in Kept'} = {EnrAt[x] : x \in Kept} \cup {EnrAt[h]}
        BY <3>4
      <4>3. QED
        BY <3>3, <4>1, <4>2
    <3>11. QED
      BY <3>5, <3>7, <3>8, <3>9, <3>10 DEF WalkInv
  <2>9. QED
    BY <1>2, <2>4, <2>5, <2>6, <2>7, <2>8
<1>3. CASE LoadKey \/ RejectKey \/ GenerateKey \/ WriteKey \/ Restart \/ Crash \/ EndRound \/ Wake
             \/ EndWalk \/ StartLoop \/ \E found \in Found : Query(found)
  <2>1. phase' # "walk"
    BY <1>3 DEF LoadKey, RejectKey, GenerateKey, WriteKey, Restart, Crash, EndRound, Wake,
         EndWalk, StartLoop, Query, Identify
  <2>2. QED
    BY <2>1 DEF WalkInv
<1>4. CASE SkipUrl \/ Consider \/ DriverStops
  <2>1. phase' # "walk"
    BY <1>4 DEF SkipUrl, Consider, DriverStops
  <2>2. QED
    BY <2>1 DEF WalkInv
<1>5. CASE UNCHANGED <<phase, urls, walkVars>>
  <2>1. UNCHANGED <<phase, urls, stack, visited, lost, enrs>>
    BY <1>5 DEF walkVars
  <2>2. WalkInv
    BY <1>0
  <2>3. QED
    BY ZenonT(90), <2>1, <2>2 DEF WalkInv, Kept, Elems
<1>6. QED
  BY <1>1, <1>2, <1>3, <1>4, <1>5 DEF Next, Progress, SendDial, vars
-----------------------------------------------------------------------------
(* The conjunction of the invariants is inductive over starts, crashes, walks
   and rounds. *)
THEOREM InductiveInvariant == Spec => []IInv
<1>1. Init => IInv
  <2> SUFFICES ASSUME Init PROVE IInv
    OBVIOUS
  <2>0. Elems(<<>>) = {}
    BY DEF Elems
  <2>1. TypeOK
    BY DiscoveryAssumption DEF Init, TypeOK
  <2>2. KeyInv /\ OneRecordEach(book) /\ WalkInv
    BY DEF Init, KeyInv, OneRecordEach, WalkInv
  <2>3. DialInv
    BY <2>0 DEF Init, DialInv, KnownIsDialled
  <2>4. QED
    BY <2>1, <2>2, <2>3 DEF IInv
<1>2. IInv /\ [Next]_vars => IInv'
  <2>1. OneRecordEach(book)' <=> OneRecordEach(book')
    BY DEF OneRecordEach
  <2>2. QED
    BY <2>1, KeyPreserved, TypePreserved, DialPreserved, WalkPreserved DEF IInv
<1>3. QED
  BY <1>1, <1>2, PTL DEF Spec

(* Every variable of discovery always holds a value of its type. *)
THEOREM TypeCorrect == Spec => []TypeOK
<1>1. IInv => TypeOK
  BY DEF IInv
<1>2. QED
  BY <1>1, InductiveInvariant, PTL

(* The walk of dns.rs, which keeps one stack and one visited set, computes
   reachability: in a tree of any shape, shared children and cycles included, it
   ends with the records of exactly the nodes that can be reached through nodes
   that resolved and verified. *)
THEOREM WalksAreComplete == Spec => []WalkFindsAll
<1>1. IInv => WalkFindsAll
  <2> SUFFICES ASSUME IInv, phase = "walk", stack = <<>>
               PROVE  Elems(enrs) = {EnrAt[h] : h \in Reachable(Head(urls), lost)} \ {NoEnr}
    BY DEF WalkFindsAll
  <2> DEFINE r == Head(urls)
  <2>0. Elems(stack) = {} /\ WalkInv /\ visited \subseteq Hash /\ lost \subseteq Hash
    BY DEF IInv, TypeOK, Elems
  <2>1. Kept \subseteq Reachable(r, lost)
    <3> SUFFICES ASSUME NEW h \in Kept, NEW S \in SUBSET Hash, r \in S,
                        \A x \in S \ lost : Elems(Children[x]) \subseteq S
                 PROVE  h \in S
      BY <2>0 DEF Reachable, Kept
    <3>1. \A x \in S \cap Kept : Elems(Children[x]) \subseteq S
      BY DEF Kept
    <3>2. visited \subseteq S
      BY <2>0, <3>1 DEF WalkInv
    <3>3. QED
      BY <3>2 DEF Kept
  <2>2. Reachable(r, lost) \subseteq Kept
    <3>1. visited \cup lost \in SUBSET Hash /\ r \in visited \cup lost
      BY <2>0 DEF WalkInv
    <3>2. \A x \in (visited \cup lost) \ lost : Elems(Children[x]) \subseteq visited \cup lost
      BY <2>0 DEF WalkInv, Kept
    <3>3. \A h \in Reachable(r, lost) : h \in visited \cup lost /\ h \notin lost
      BY ZenonT(60), <3>1, <3>2 DEF Reachable
    <3>4. QED
      BY <3>3 DEF Kept
  <2>3. Reachable(r, lost) = Kept
    BY ZenonT(60), <2>1, <2>2
  <2>4. QED
    BY <2>0, <2>3 DEF WalkInv
<1>2. QED
  BY <1>1, InductiveInvariant, PTL

(* An answer to a peer-exchange query names no node twice and is as long as was
   asked or as the book is, whatever remember_enr evicted. *)
THEOREM AnswersAreDistinct == Spec => []ServesDistinctPeers
<1>1. IInv => ServesDistinctPeers
  <2> SUFFICES ASSUME IInv, NEW num \in 0..(BookCap + 1)
               PROVE  LET r == ServedPeers(num)
                      IN /\ Len(r) \in {num, Len(book)} /\ Len(r) <= num /\ Len(r) <= BookCap
                         /\ \A i, j \in DOMAIN r : NodeOf[r[i]] = NodeOf[r[j]] => i = j
    BY DEF ServesDistinctPeers
  <2>1. book \in Seq(Enr) /\ Len(book) <= BookCap /\ OneRecordEach(book) /\ BookCap \in Nat
    BY DiscoveryAssumption DEF IInv, TypeOK
  <2>2. PICK n : n = IF num < Len(book) THEN num ELSE Len(book)
    OBVIOUS
  <2>3. n \in 0..Len(book) /\ n \in {num, Len(book)} /\ n <= num /\ n <= BookCap
    BY <2>1, <2>2
  <2>4. PICK r : r = SubSeq(book, 1, n)
    BY ZenonT(60)
  <2>5. Len(r) = n /\ DOMAIN r = 1..n /\ \A i \in 1..n : r[i] = book[i] /\ i \in DOMAIN book
    BY <2>1, <2>3, <2>4
  <2>6. \A i, j \in DOMAIN r : NodeOf[r[i]] = NodeOf[r[j]] => i = j
    BY <2>1, <2>5 DEF OneRecordEach
  <2>7. ServedPeers(num) = r
    BY <2>2, <2>4 DEF ServedPeers
  <2>8. QED
    BY <2>3, <2>5, <2>6, <2>7
<1>2. QED
  BY <1>1, InductiveInvariant, PTL

(* load_or_create_key gives a node one identity for life: a crash between
   creating the file and filling it cannot lead to a second one. *)
THEOREM OneIdentity == Spec => []IdentityIsStable
<1>1. IInv => IdentityIsStable
  <2> SUFFICES ASSUME IInv PROVE Cardinality(used) <= 1
    BY DEF IdentityIsStable
  <2>1. used = {} \/ used = {saved}
    BY DEF IInv, KeyInv
  <2>2. Cardinality({}) = 0 /\ Cardinality({saved}) = 1
    BY ZenonT(60), FS_EmptySet, FS_Singleton
  <2>3. QED
    BY <2>1, <2>2
<1>2. QED
  BY <1>1, InductiveInvariant, PTL

(* dial_discovered sends at most one Dial command for a peer while the process
   runs, whatever the bootstrap lists and the rounds find. *)
THEOREM NoSecondDial == Spec => []DialledOnce
<1>1. IInv => DialledOnce
  BY DEF IInv, DialInv, DialledOnce
<1>2. QED
  BY <1>1, InductiveInvariant, PTL

(* A peer that `known` would keep from being dialled later has been dialled, is
   being dialled now, or there is no driver any more. *)
THEOREM NobodyIsSkipped == Spec => []KnownIsDialled
<1>1. IInv => KnownIsDialled
  BY DEF IInv, DialInv
<1>2. QED
  BY <1>1, InductiveInvariant, PTL
-----------------------------------------------------------------------------
(* A command is sent during a round only. *)
SendsInRound == sending # <<>> => phase \in {"boot", "dial"}

LEMMA SendsPreserved == SendsInRound /\ [Next]_vars => SendsInRound'
<1> SUFFICES ASSUME SendsInRound, [Next]_vars PROVE SendsInRound'
  OBVIOUS
<1>1. CASE Consider
  BY <1>1 DEF Consider, SendsInRound
<1>2. CASE SendDial \/ Crash
  BY <1>2 DEF SendDial, Crash, SendsInRound
<1>3. CASE UNCHANGED <<phase, sending>>
  BY <1>3 DEF SendsInRound
<1>4. CASE /\ phase \notin {"boot", "dial"} \/ sending = <<>>
           /\ sending' = sending
  BY <1>4 DEF SendsInRound
<1>5. CASE LoadKey \/ RejectKey \/ GenerateKey \/ WriteKey \/ BeginWalk \/ Restart
           \/ EndWalk \/ StartLoop \/ EndRound \/ Wake \/ \E found \in Found : Query(found)
  BY <1>4, <1>5 DEF LoadKey, RejectKey, GenerateKey, WriteKey, BeginWalk, Restart, EndWalk,
                    StartLoop, EndRound, Wake, Query, peerVars
<1>6. CASE SkipUrl \/ PopVisited \/ Truncate \/ FetchFails \/ DriverStops
           \/ (\E c \in Hash : Fetch(c)) \/ UNCHANGED vars
  BY <1>3, <1>6 DEF SkipUrl, PopVisited, Truncate, FetchFails, DriverStops, Fetch, peerVars, vars
<1>7. QED
  BY <1>1, <1>2, <1>5, <1>6 DEF Next, Progress

(* Taking the last element off a stack shortens it. *)
LEMMA ShorterFront ==
  ASSUME NEW s \in Seq(Hash), s # <<>>
  PROVE  Len(s) \in Nat /\ Len(Front(s)) = Len(s) - 1
<1>1. PICK n \in Nat : n = Len(s) - 1
  OBVIOUS
<1>2. Front(s) = SubSeq(s, 1, n) /\ Front(s) \in Seq(Hash)
  BY <1>1, FrontIs DEF Front
<1>3. Len(SubSeq(s, 1, n)) = n
  BY <1>1
<1>4. QED
  BY <1>1, <1>2, <1>3

(* Every step of a walk uses up budget, or leaves it and shortens the stack. *)
WalkAdvances ==
  [][phase = "walk" /\ phase' = "walk" =>
       budget' < budget \/ (budget' = budget /\ Len(stack') < Len(stack))]_vars

(* Why a walk of dns.rs ends, in a tree of any shape, branches in a circle
   included, and whatever the resolver answers: a pair of naturals decreases in
   lexicographic order. *)
THEOREM WalksTerminate == Spec => WalkAdvances
<1>1. ASSUME IInv, SendsInRound, Next, phase = "walk", phase' = "walk"
      PROVE  budget' < budget \/ (budget' = budget /\ Len(stack') < Len(stack))
  <2>1. stack \in Seq(Hash) /\ budget \in Nat
    BY <1>1, DiscoveryAssumption DEF IInv, TypeOK
  <2>2. CASE PopVisited
    <3>1. stack # <<>> /\ stack' = Front(stack) /\ budget' = budget
      BY <2>2 DEF PopVisited
    <3>2. Len(Front(stack)) = Len(stack) - 1 /\ Len(stack) \in Nat
      BY <2>1, <3>1, ShorterFront
    <3>3. QED
      BY <3>1, <3>2
  <2>3. CASE Truncate
    <3>1. stack # <<>> /\ stack' = <<>> /\ budget' = budget
      BY <2>3 DEF Truncate
    <3>2. QED
      BY <2>1, <3>1
  <2>4. CASE FetchFails \/ \E c \in Hash : Fetch(c)
    <3>1. budget' = budget - 1
      BY <2>4, ZenonT(60) DEF FetchFails, Fetch
    <3>2. QED
      BY <2>1, <3>1
  <2>5. CASE SendDial
    BY <1>1, <2>5 DEF SendDial, SendsInRound
  <2>6. QED
    BY <1>1, <2>2, <2>3, <2>4, <2>5, ZenonT(60)
    DEF Next, Progress, LoadKey, RejectKey, GenerateKey, WriteKey, Identify, BeginWalk, SkipUrl,
        EndWalk, StartLoop, Consider, EndRound, Wake, Query, DriverStops, Crash, Restart
<1>2. Init => SendsInRound
  BY DEF Init, SendsInRound
<1>3. QED
  BY <1>1, <1>2, InductiveInvariant, SendsPreserved, PTL DEF Spec, WalkAdvances

(* MAX_RECORDS bounds what DNS can add to the configured bootstrap records. *)
BootIsCapped == Len(boot) <= Len(Bootstrap) + Len(Roots) * MaxRecords

(* The records of a walk are paid from its budget, those of the walks before
   from their URLs. *)
CapInv ==
  /\ phase = "walk" => Len(enrs) + budget <= MaxRecords
  /\ Len(urls) <= Len(Roots)
  /\ Len(boot) <= Len(Bootstrap) + (Len(Roots) - Len(urls)) * MaxRecords

(* One more URL, resolved or not, allows for MAX_RECORDS more. *)
LEMMA OneUrlMore ==
  ASSUME NEW n \in Nat, NEW u \in Nat \ {0}, NEW M \in Nat
  PROVE  (n - (u - 1)) * M = (n - u) * M + M
OBVIOUS

LEMMA CapPreserved == IInv /\ CapInv /\ [Next]_vars => CapInv'
<1> SUFFICES ASSUME IInv, CapInv, [Next]_vars PROVE CapInv'
  OBVIOUS
<1>t. /\ urls \in Seq(Hash) /\ enrs \in Seq(Enr) /\ boot \in Seq(Enr)
      /\ budget \in 0..MaxRecords /\ MaxRecords \in Nat
      /\ Roots \in Seq(Hash) /\ Bootstrap \in Seq(Enr)
  BY DiscoveryAssumption DEF IInv, TypeOK
<1>l. /\ Len(urls) \in Nat /\ Len(enrs) \in Nat /\ Len(boot) \in Nat
      /\ Len(Roots) \in Nat /\ Len(Bootstrap) \in Nat
  BY <1>t
<1>1. ASSUME UNCHANGED <<urls, boot>>, phase' = "walk" => Len(enrs') + budget' <= MaxRecords
      PROVE  CapInv'
  BY <1>1 DEF CapInv
<1>2. CASE Crash
  <2>1. phase' = "down" /\ urls' = Roots /\ boot' = Bootstrap
    BY <1>2 DEF Crash
  <2>2. (Len(Roots) - Len(Roots)) * MaxRecords = 0
    BY <1>t, <1>l
  <2>3. QED
    BY <1>l, <2>1, <2>2 DEF CapInv
<1>3. ASSUME urls # <<>>, urls' = Tail(urls), phase' = "root",
             Len(boot') \in Nat, Len(boot') <= Len(boot) + MaxRecords
      PROVE  CapInv'
  <2>1. Len(urls) \in Nat \ {0} /\ Len(urls') = Len(urls) - 1
    BY <1>3, <1>t
  <2>2. (Len(Roots) - Len(urls')) * MaxRecords
          = (Len(Roots) - Len(urls)) * MaxRecords + MaxRecords
    BY <1>t, <1>l, <2>1, OneUrlMore
  <2>3. (Len(Roots) - Len(urls)) * MaxRecords \in Int
    BY <1>t, <1>l
  <2>4. Len(boot') <= Len(Bootstrap) + (Len(Roots) - Len(urls')) * MaxRecords
    BY <1>t, <1>l, <1>3, <2>2, <2>3 DEF CapInv
  <2>5. QED
    BY <1>l, <1>3, <2>1, <2>4 DEF CapInv
<1>4. CASE SkipUrl
  BY <1>3, <1>4, <1>t, <1>l DEF SkipUrl
<1>5. CASE EndWalk
  <2>1. urls # <<>> /\ Len(enrs) <= MaxRecords
    BY <1>5, <1>t, <1>l DEF EndWalk, CapInv, IInv, WalkInv
  <2>2. Len(boot \o enrs) = Len(boot) + Len(enrs)
    BY <1>t
  <2>3. QED
    BY <1>3, <1>5, <1>l, <1>t, <2>1, <2>2 DEF EndWalk
<1>6. CASE BeginWalk
  <2>1. enrs' = <<>> /\ budget' = MaxRecords /\ UNCHANGED <<urls, boot>>
    BY <1>6 DEF BeginWalk
  <2>2. QED
    BY <1>1, <1>t, <2>1
<1>7. ASSUME NEW c \in Hash, Fetch(c) PROVE CapInv'
  <2>1. /\ phase = "walk" /\ budget' = budget - 1 /\ UNCHANGED <<urls, boot>>
        /\ enrs' = enrs \/ (EnrAt[c] # NoEnr /\ enrs' = Append(enrs, EnrAt[c]))
    BY <1>7, ZenonT(60) DEF Fetch
  <2>2. Len(enrs') <= Len(enrs) + 1 /\ Len(enrs') \in Nat
    BY <1>t, <2>1, DiscoveryAssumption
  <2>3. QED
    BY <1>1, <1>t, <1>l, <2>1, <2>2 DEF CapInv
<1>8. CASE FetchFails
  <2>1. phase = "walk" /\ budget' = budget - 1 /\ UNCHANGED <<urls, boot, enrs>>
    BY <1>8 DEF FetchFails
  <2>2. QED
    BY <1>1, <1>t, <1>l, <2>1 DEF CapInv
<1>9. ASSUME UNCHANGED <<urls, boot, enrs, budget>>, phase' = "walk" => phase = "walk"
      PROVE  CapInv'
  BY <1>1, <1>9 DEF CapInv
<1>10. CASE LoadKey \/ RejectKey \/ GenerateKey \/ WriteKey \/ PopVisited \/ Truncate \/ Restart
            \/ StartLoop \/ Consider \/ SendDial
  BY ZenonT(60), <1>9, <1>10 DEF LoadKey, RejectKey, GenerateKey, WriteKey, Identify, PopVisited, Truncate,
                     Restart, StartLoop, Consider, SendDial, walkVars
<1>11. CASE EndRound \/ Wake \/ DriverStops \/ (\E found \in Found : Query(found)) \/ UNCHANGED vars
  BY <1>9, <1>11 DEF EndRound, Wake, DriverStops, Query, walkVars, vars
<1>12. QED
  BY ZenonT(60), <1>2, <1>4, <1>5, <1>6, <1>7, <1>8, <1>10, <1>11 DEF Next, Progress

(* However large the trees are, and whatever the resolver returns, discovery
   starts with at most MAX_RECORDS records per URL beyond the configured ones. *)
THEOREM BootstrapIsBounded == Spec => []BootIsCapped
<1>1. ASSUME Init PROVE CapInv
  <2>1. phase # "walk" /\ urls = Roots /\ boot = Bootstrap
    BY <1>1, ZenonT(60) DEF Init
  <2>2. Len(Roots) \in Nat /\ Len(Bootstrap) \in Nat /\ MaxRecords \in Nat
    BY DiscoveryAssumption
  <2>3. QED
    BY <2>1, <2>2 DEF CapInv
<1>2. IInv /\ CapInv => BootIsCapped
  <2> SUFFICES ASSUME IInv, CapInv PROVE BootIsCapped
    OBVIOUS
  <2>1. /\ Len(urls) \in Nat /\ Len(Roots) \in Nat /\ MaxRecords \in Nat /\ Len(boot) \in Nat
        /\ Len(Bootstrap) \in Nat
    BY DiscoveryAssumption DEF IInv, TypeOK
  <2>2. (Len(Roots) - Len(urls)) * MaxRecords <= Len(Roots) * MaxRecords
    <3>1. (Len(Roots) - Len(urls)) * MaxRecords = Len(Roots) * MaxRecords - Len(urls) * MaxRecords
      BY <2>1
    <3>2. Len(urls) * MaxRecords \in Nat
      BY <2>1
    <3>3. QED
      BY <2>1, <3>1, <3>2
  <2>3. QED
    BY <2>1, <2>2 DEF CapInv, BootIsCapped
<1>3. QED
  BY <1>1, <1>2, InductiveInvariant, CapPreserved, PTL DEF Spec
-----------------------------------------------------------------------------
(* A set of naturals has a least element: what stands for induction here. *)
LEMMA Least ==
  ASSUME NEW T \in SUBSET Nat, T # {}
  PROVE  \E n \in T : \A m \in T : n <= m
<1> DEFINE R == OpToRel(<, Nat)
<1>1. IsWellFoundedOn(R, Nat)
  BY ZenonT(60), NatLessThanWellFounded
<1>2. PICK n \in T : \A m \in T : <<m, n>> \notin R
  <2> HIDE DEF R
  <2> QED
    BY ZenonT(60), <1>1, WFMin
<1>3. \A m \in T : ~(m < n)
  BY ZenonT(60), <1>2 DEF OpToRel
<1>4. QED
  BY <1>3

(* g is defined up to n by its first value and the step F. *)
Steps(V, a, F, g, n) ==
  g \in [0..n -> V] /\ g[0] = a /\ \A i \in 0..(n - 1) : g[i + 1] = F[i][g[i]]

(* Such functions exist for every n, ... *)
LEMMA StepsExist ==
  ASSUME NEW V, NEW a \in V, NEW F \in [Nat -> [V -> V]], NEW n \in Nat
  PROVE  \E g \in [0..n -> V] : Steps(V, a, F, g, n)
<1> DEFINE T == {m \in Nat : ~\E g \in [0..m -> V] : Steps(V, a, F, g, m)}
<1> SUFFICES ASSUME T # {} PROVE FALSE
  OBVIOUS
<1>1. PICK m \in T : \A l \in T : m <= l
  <2>1. T \in SUBSET Nat
    OBVIOUS
  <2> HIDE DEF T
  <2>2. QED
    BY <2>1, Least
<1>2. m \in Nat /\ ~\E g \in [0..m -> V] : Steps(V, a, F, g, m)
  OBVIOUS
<1>3. CASE m = 0
  <2>1. PICK g : g = [i \in 0..m |-> a]
    BY ZenonT(60)
  <2>2. g \in [0..m -> V] /\ g[0] = a
    BY <1>2, <2>1
  <2>3. Steps(V, a, F, g, m)
    BY <1>3, <2>2 DEF Steps
  <2>4. QED
    BY <1>2, <2>2, <2>3
<1>4. CASE m # 0
  <2>1. m - 1 \in Nat /\ ~(m <= m - 1)
    BY <1>2, <1>4
  <2>2. PICK h \in [0..(m - 1) -> V] : Steps(V, a, F, h, m - 1)
    BY <1>1, <2>1
  <2>3. PICK g : g = [i \in 0..m |-> IF i = m THEN F[m - 1][h[m - 1]] ELSE h[i]]
    BY ZenonT(60)
  <2>4. h[m - 1] \in V /\ F[m - 1][h[m - 1]] \in V
    BY <2>1
  <2>5. \A i \in 0..m : i # m => i \in 0..(m - 1)
    BY <2>1
  <2>6. g \in [0..m -> V] /\ g[m] = F[m - 1][h[m - 1]] /\ \A i \in 0..(m - 1) : g[i] = h[i]
    BY <2>1, <2>3, <2>4, <2>5
  <2>7. g[0] = a
    BY <2>1, <2>2, <2>6 DEF Steps
  <2>8. ASSUME NEW i \in 0..(m - 1) PROVE g[i + 1] = F[i][g[i]]
    <3>1. CASE i = m - 1
      BY <2>1, <2>6, <3>1
    <3>2. CASE i # m - 1
      <4>1. i \in 0..(m - 1 - 1) /\ i + 1 \in 0..(m - 1)
        BY <2>1, <3>2
      <4>2. QED
        BY <2>2, <2>6, <4>1 DEF Steps
    <3>3. QED
      BY <3>1, <3>2
  <2>9. QED
    BY ZenonT(60), <1>2, <2>6, <2>7, <2>8 DEF Steps
<1>5. QED
  BY <1>3, <1>4

(* ... agree with each other, ... *)
LEMMA StepsAgree ==
  ASSUME NEW V, NEW a, NEW F, NEW n \in Nat, NEW m \in Nat, NEW g, NEW h,
         Steps(V, a, F, g, n), Steps(V, a, F, h, m), NEW k \in Nat, k <= n, k <= m
  PROVE  g[k] = h[k]
<1> DEFINE T == {i \in Nat : i <= n /\ i <= m /\ g[i] # h[i]}
<1> SUFFICES ASSUME T # {} PROVE FALSE
  OBVIOUS
<1>1. PICK i \in T : \A j \in T : i <= j
  <2>1. T \in SUBSET Nat
    OBVIOUS
  <2> HIDE DEF T
  <2>2. QED
    BY <2>1, Least
<1>2. i # 0
  BY <1>1 DEF Steps
<1>3. i - 1 \in Nat /\ i - 1 \notin T /\ (i - 1) + 1 = i /\ i - 1 \in 0..(n - 1) /\ i - 1 \in 0..(m - 1)
  BY <1>1, <1>2
<1>4. g[i - 1] = h[i - 1]
  BY <1>3
<1>5. g[i] = F[i - 1][g[i - 1]] /\ h[i] = F[i - 1][h[i - 1]]
  BY <1>3 DEF Steps
<1>6. QED
  BY <1>4, <1>5

(* ... and make one function on the naturals. *)
IsStep(V, a, F) == a \in V /\ F \in [Nat -> [V -> V]]
IsRun(V, a, F, f) == f \in [Nat -> V] /\ f[0] = a /\ \A n \in Nat : f[n + 1] = F[n][f[n]]

LEMMA PrimitiveRecursion ==
  ASSUME NEW V, NEW a, NEW F, IsStep(V, a, F)
  PROVE  \E f : IsRun(V, a, F, f)
<1> USE DEF IsStep, IsRun
<1> DEFINE G(n) == CHOOSE g \in [0..n -> V] : Steps(V, a, F, g, n)
<1>1. \A n \in Nat : G(n) \in [0..n -> V] /\ Steps(V, a, F, G(n), n)
  BY StepsExist
<1> HIDE DEF G
<1>2. PICK f : f = [n \in Nat |-> G(n)[n]]
  BY ZenonT(60)
<1>3. f \in [Nat -> V]
  <2>1. \A n \in Nat : n \in 0..n
    OBVIOUS
  <2>2. \A n \in Nat : G(n)[n] \in V
    BY <1>1, <2>1
  <2>3. QED
    BY <1>2, <2>2
<1>4. f[0] = a
  BY <1>1, <1>2 DEF Steps
<1>5. ASSUME NEW n \in Nat PROVE f[n + 1] = F[n][f[n]]
  <2>1. n + 1 \in Nat /\ n \in 0..((n + 1) - 1) /\ n <= n /\ n <= n + 1
    OBVIOUS
  <2>2. G(n + 1)[n + 1] = F[n][G(n + 1)[n]]
    BY <1>1, <2>1 DEF Steps
  <2>3. G(n + 1)[n] = G(n)[n]
    BY <1>1, <2>1, StepsAgree
  <2>4. QED
    BY <1>2, <2>1, <2>2, <2>3
<1>6. QED
  BY <1>3, <1>4, <1>5

(* What Shl computes. *)
LEMMA ShlIs ==
  /\ Shl \in [Nat -> Nat \ {0}] /\ Shl[0] = 1
  /\ \A n \in Nat : Shl[n + 1] = 2 * Shl[n]
<1> DEFINE V == Nat \ {0}
           F == [n \in Nat |-> [x \in V |-> 2 * x]]
<1>1. IsStep(V, 1, F) /\ \A n \in Nat, x \in V : F[n][x] = 2 * x
  BY DEF IsStep
<1>2. PICK f : IsRun(V, 1, F, f)
  <2> HIDE DEF V, F
  <2>1. QED
    BY <1>1, PrimitiveRecursion
<1> HIDE DEF F, V
<1>3. f \in [Nat -> V] /\ f[0] = 1 /\ \A n \in Nat : f[n + 1] = 2 * f[n]
  BY ZenonT(60), <1>1, <1>2 DEF IsRun
<1>4. f = [n \in Nat |-> IF n = 0 THEN 1 ELSE 2 * f[n - 1]]
  <2>1. ASSUME NEW n \in Nat, n # 0 PROVE f[n] = 2 * f[n - 1]
    <3>1. n - 1 \in Nat /\ (n - 1) + 1 = n
      BY <2>1
    <3>2. QED
      BY <1>3, <3>1
  <2>2. QED
    BY <1>3, <2>1
<1>5. Shl = [n \in Nat |-> IF n = 0 THEN 1 ELSE 2 * Shl[n - 1]]
  BY <1>4, ZenonT(60) DEF Shl
<1>6. Shl[0] = 1 /\ \A n \in Nat : Shl[n + 1] = 2 * Shl[n]
  <2>1. \A n \in Nat : n + 1 \in Nat /\ n + 1 # 0 /\ (n + 1) - 1 = n
    OBVIOUS
  <2> HIDE DEF Shl
  <2>2. QED
    BY <1>5, <2>1
<1> DEFINE T == {i \in Nat : Shl[i] \notin V}
<1>7. T = {}
  <2> SUFFICES ASSUME T # {} PROVE FALSE
    OBVIOUS
  <2>1. PICK i \in T : \A j \in T : i <= j
    <3>1. T \in SUBSET Nat
      OBVIOUS
    <3> HIDE DEF T
    <3>2. QED
      BY <3>1, Least
  <2>2. i # 0
    BY <1>6, <2>1 DEF V
  <2>3. i - 1 \in Nat /\ i - 1 \notin T /\ (i - 1) + 1 = i
    BY <2>1, <2>2
  <2>4. Shl[i - 1] \in V /\ Shl[i] = 2 * Shl[i - 1]
    BY <1>6, <2>3
  <2>5. QED
    BY <2>4 DEF V
<1>8. QED
  BY ZenonT(60), <1>5, <1>6, <1>7 DEF V

(* What VectorByte computes: the last of the values of a loop. *)
Bit(S, b, k) == IF b * Bits + k \in S THEN 1 ELSE 0

Sets(S, b, v) ==
  /\ v \in [0..Bits -> Nat] /\ v[0] = 0
  /\ \A k \in 1..Bits : v[k] = v[k - 1] + Bit(S, b, k - 1) * Shl[Bits - k]

LEMMA VectorByteIs ==
  ASSUME NEW S, NEW b \in Nat
  PROVE  \E v : Sets(S, b, v) /\ VectorByte(S, b) = v[Bits]
<1> DEFINE A(k, x) == x + (IF b * Bits + (k - 1) \in S THEN Mask(k - 1) ELSE 0)
           F == [i \in Nat |-> [x \in Nat |-> IF i < Bits THEN A(i + 1, x) ELSE 0]]
           Body(v) == [k \in 0..Bits |-> IF k = 0 THEN 0 ELSE A(k, v[k - 1])]
           d == CHOOSE v : v = Body(v)
<1>0. Bits \in Nat /\ Bits > 0
  BY EnrAssumption
<1>1. VectorByte(S, b) = d[Bits]
  BY DEF VectorByte
<1>2. ASSUME NEW k \in 1..Bits, NEW x \in Nat
      PROVE  A(k, x) \in Nat /\ A(k, x) = x + Bit(S, b, k - 1) * Shl[Bits - k]
  <2>1. k - 1 \in 0..(Bits - 1) /\ Bits - 1 - (k - 1) = Bits - k /\ Bits - k \in Nat
    BY <1>0
  <2>2. (k - 1) % Bits = k - 1
    <3>1. \A z \in 0..(Bits - 1) : z % Bits = z
      BY <1>0
    <3>2. QED
      BY <2>1, <3>1
  <2>3. Mask(k - 1) = Shl[Bits - k] /\ Shl[Bits - k] \in Nat
    BY <2>1, <2>2, ShlIs DEF Mask
  <2>4. QED
    BY <2>3 DEF Bit
<1> HIDE DEF A
<1>3. IsStep(Nat, 0, F) /\ \A i \in Nat, x \in Nat : i < Bits => F[i][x] = A(i + 1, x)
  <2>1. \A i \in Nat, x \in Nat : i < Bits => A(i + 1, x) \in Nat
    BY <1>0, <1>2
  <2>2. QED
    BY <2>1 DEF IsStep
<1> HIDE DEF F
<1>4. PICK f : IsRun(Nat, 0, F, f)
  BY <1>3, PrimitiveRecursion
<1>5. PICK g : g = [k \in 0..Bits |-> f[k]]
  BY ZenonT(60)
<1>6. /\ \A k \in 0..Bits : g[k] = f[k] /\ f[k] \in Nat
      /\ f[0] = 0
  <2>1. \A k \in 0..Bits : k \in Nat
    BY <1>0
  <2>2. QED
    BY <1>4, <1>5, <2>1 DEF IsRun
<1>7. ASSUME NEW k \in 1..Bits PROVE g[k] = A(k, g[k - 1])
  <2>1. k - 1 \in Nat /\ k - 1 < Bits /\ k - 1 \in 0..Bits /\ (k - 1) + 1 = k /\ k \in 0..Bits
    BY <1>0
  <2>2. f[k] = F[k - 1][f[k - 1]]
    BY <1>4, <2>1 DEF IsRun
  <2>3. F[k - 1][f[k - 1]] = A((k - 1) + 1, f[k - 1])
    BY <1>3, <1>6, <2>1
  <2>4. QED
    BY <1>6, <2>1, <2>2, <2>3
<1>8. g = Body(g)
  <2>1. 0 \in 0..Bits /\ \A k \in 0..Bits : k # 0 => k \in 1..Bits
    BY <1>0
  <2>2. g[0] = 0
    BY <1>6, <2>1
  <2>3. QED
    BY ZenonT(60), <1>5, <1>7, <2>1, <2>2
<1>9. d = Body(d)
  BY <1>8, ZenonT(60)
<1> HIDE DEF d
<1>10. d[0] = 0 /\ \A k \in 1..Bits : d[k] = A(k, d[k - 1])
  <2>1. 0 \in 0..Bits /\ \A k \in 1..Bits : k \in 0..Bits /\ k # 0
    BY <1>0
  <2>2. QED
    BY ZenonT(60), <1>9, <2>1
<1> DEFINE T == {k \in Nat : k <= Bits /\ d[k] \notin Nat}
<1>11. T = {}
  <2> SUFFICES ASSUME T # {} PROVE FALSE
    OBVIOUS
  <2>1. PICK k \in T : \A j \in T : k <= j
    <3>1. T \in SUBSET Nat
      OBVIOUS
    <3> HIDE DEF T
    <3>2. QED
      BY <3>1, Least
  <2>2. k # 0
    BY <1>10, <2>1
  <2>3. k - 1 \in Nat /\ k \in 1..Bits /\ d[k - 1] \in Nat
    BY <1>0, <2>1, <2>2
  <2>4. d[k] \in Nat
    BY <1>2, <1>10, <2>3
  <2>5. QED
    BY <2>4
<1>12. d \in [0..Bits -> Nat]
  <2>1. \A k \in 0..Bits : k \in Nat /\ k <= Bits
    BY <1>0
  <2>2. \A k \in 0..Bits : d[k] \in Nat
    BY <1>11, <2>1
  <2>3. QED
    BY <1>9, <2>2
<1>13. \A k \in 1..Bits : d[k] = d[k - 1] + Bit(S, b, k - 1) * Shl[Bits - k]
  <2> TAKE k \in 1..Bits
  <2>1. k - 1 \in 0..Bits
    BY <1>0
  <2>2. d[k - 1] \in Nat
    BY <1>12, <2>1
  <2>3. QED
    BY <1>2, <1>10, <2>2
<1>14. QED
  BY ZenonT(60), <1>1, <1>10, <1>12, <1>13 DEF Sets

(* Before bit k is set the byte is a multiple of what the bits from k on count;
   bit k makes the multiple odd or even. *)
LEMMA ByteSoFar ==
  ASSUME NEW S, NEW b \in Nat, NEW v, Sets(S, b, v), NEW m \in 0..Bits
  PROVE  \E h \in Nat : v[m] = h * Shl[Bits - m] /\ (m > 0 => h % 2 = Bit(S, b, m - 1))
<1>0. Bits \in Nat /\ Bits > 0
  BY EnrAssumption
<1> DEFINE Good(k) == \E h \in Nat : v[k] = h * Shl[Bits - k] /\ (k > 0 => h % 2 = Bit(S, b, k - 1))
           T == {k \in Nat : k <= Bits /\ ~Good(k)}
<1> SUFFICES ASSUME T # {} PROVE FALSE
  BY <1>0
<1>1. PICK k \in T : \A j \in T : k <= j
  <2>1. T \in SUBSET Nat
    OBVIOUS
  <2> HIDE DEF T
  <2>2. QED
    BY <2>1, Least
<1>2. k \in Nat /\ k <= Bits /\ ~Good(k)
  OBVIOUS
<1>3. k # 0
  <2>1. v[0] = 0 /\ Shl[Bits - 0] \in Nat
    BY <1>0, ShlIs DEF Sets
  <2>2. v[0] = 0 * Shl[Bits - 0]
    BY <2>1
  <2>3. Good(0)
    BY <2>2
  <2> HIDE DEF Good
  <2>4. QED
    BY <1>2, <2>3
<1>4. k - 1 \in Nat /\ k - 1 <= Bits /\ ~(k <= k - 1) /\ k \in 1..Bits
  BY <1>0, <1>2, <1>3
<1>5. Good(k - 1)
  <2> HIDE DEF Good
  <2>1. QED
    BY <1>1, <1>4
<1>6. PICK g \in Nat : v[k - 1] = g * Shl[Bits - (k - 1)]
  BY <1>5
<1> HIDE DEF T
<1>7. PICK P \in Nat : P = Shl[Bits - k] /\ Shl[Bits - (k - 1)] = 2 * P
  <2>1. Bits - k \in Nat /\ (Bits - k) + 1 = Bits - (k - 1)
    BY <1>0, <1>2
  <2>2. QED
    BY <2>1, ShlIs
<1>8. PICK c \in {0, 1} : c = Bit(S, b, k - 1)
  BY DEF Bit
<1>9. v[k] = g * (2 * P) + c * P
  BY <1>4, <1>6, <1>7, <1>8 DEF Sets
<1>10. v[k] = (2 * g + c) * P
  <2>1. (2 * g + c) * P = g * (2 * P) + c * P
    OBVIOUS
  <2>2. QED
    BY <1>9, <2>1
<1>11. 2 * g + c \in Nat /\ (2 * g + c) % 2 = c
  OBVIOUS
<1>12. Good(k)
  BY <1>7, <1>8, <1>10, <1>11
<1>13. QED
  BY <1>2, <1>12

(* The bits from m on add less than what bit m - 1 counts. *)
LEMMA ByteFromHere ==
  ASSUME NEW S, NEW b \in Nat, NEW v, Sets(S, b, v), NEW m \in 0..Bits
  PROVE  \E r \in Nat : v[Bits] = v[m] + r /\ r < Shl[Bits - m]
<1>0. Bits \in Nat /\ Bits > 0 /\ m \in Nat /\ m <= Bits
  BY EnrAssumption
<1> DEFINE Good(k) == \E r \in Nat : v[k] = v[m] + r /\ r + Shl[Bits - k] <= Shl[Bits - m]
           T == {k \in Nat : m <= k /\ k <= Bits /\ ~Good(k)}
<1>p. \A k \in 0..Bits : v[k] \in Nat /\ Shl[Bits - k] \in Nat \ {0}
  <2>1. \A k \in 0..Bits : Bits - k \in Nat
    BY <1>0
  <2>2. QED
    BY ZenonT(60), <2>1, ShlIs DEF Sets
<1>t. T = {}
  <2> SUFFICES ASSUME T # {} PROVE FALSE
    OBVIOUS
  <2>1. PICK k \in T : \A j \in T : k <= j
    <3>1. T \in SUBSET Nat
      OBVIOUS
    <3> HIDE DEF T
    <3>2. QED
      BY <3>1, Least
  <2>2. k \in Nat /\ m <= k /\ k <= Bits /\ ~Good(k)
    OBVIOUS
  <2>3. k # m
    <3>1. Good(m)
      <4>1. v[m] = v[m] + 0 /\ 0 + Shl[Bits - m] <= Shl[Bits - m]
        BY <1>p
      <4>2. QED
        BY <4>1
    <3> HIDE DEF Good
    <3>2. QED
      BY <2>2, <3>1
  <2>4. k - 1 \in Nat /\ m <= k - 1 /\ k - 1 <= Bits /\ ~(k <= k - 1) /\ k \in 1..Bits /\ k - 1 \in 0..Bits /\ k \in 0..Bits
    BY <1>0, <2>2, <2>3
  <2>5. Good(k - 1)
    <3> HIDE DEF Good
    <3>1. QED
      BY <2>1, <2>4
  <2>6. PICK r \in Nat : v[k - 1] = v[m] + r /\ r + Shl[Bits - (k - 1)] <= Shl[Bits - m]
    BY <2>5
  <2> HIDE DEF T
  <2>7. PICK P \in Nat : P = Shl[Bits - k] /\ Shl[Bits - (k - 1)] = 2 * P
    <3>1. Bits - k \in Nat /\ (Bits - k) + 1 = Bits - (k - 1)
      BY <1>0, <2>2
    <3>2. QED
      BY <3>1, ShlIs
  <2>8. PICK c \in Nat : c = Bit(S, b, k - 1) * P /\ c <= P
    <3>1. Bit(S, b, k - 1) \in {0, 1}
      BY DEF Bit
    <3>2. QED
      BY <3>1
  <2>9. v[k] = v[k - 1] + c
    BY <2>4, <2>7, <2>8 DEF Sets
  <2>10. PICK Q \in Nat, x \in Nat : Q = Shl[Bits - m] /\ x = v[m]
    BY <1>0, <1>p
  <2>11. v[k] = v[m] + (r + c) /\ (r + c) + Shl[Bits - k] <= Shl[Bits - m]
    <3>1. v[k] = (x + r) + c /\ r + 2 * P <= Q
      BY <2>6, <2>7, <2>9, <2>10
    <3>2. (x + r) + c = x + (r + c) /\ (r + c) + P <= Q
      BY <2>8, <3>1
    <3>3. QED
      BY <2>7, <2>10, <3>1, <3>2
  <2>12. Good(k)
    BY <2>11
  <2> HIDE DEF Good
  <2>13. QED
    BY <2>2, <2>12
<1>1. Good(Bits)
  <2> HIDE DEF Good
  <2>1. QED
    BY <1>0, <1>t
<1>2. PICK r \in Nat : v[Bits] = v[m] + r /\ r + Shl[Bits - Bits] <= Shl[Bits - m]
  BY <1>1
<1>3. Shl[Bits - Bits] \in Nat \ {0} /\ Shl[Bits - m] \in Nat
  BY <1>0, <1>p
<1>4. r < Shl[Bits - m]
  BY <1>2, <1>3
<1>5. QED
  BY <1>2, <1>4

(* Bit k of a byte of the vector tells whether its shard is in the set. *)
LEMMA BitReadsBack ==
  ASSUME NEW S, NEW b \in Nat, NEW k \in 0..(Bits - 1)
  PROVE  (VectorByte(S, b) \div Shl[Bits - 1 - k]) % 2 = 1 <=> b * Bits + k \in S
<1>0. Bits \in Nat /\ Bits > 0
  BY EnrAssumption
<1>1. PICK v : Sets(S, b, v) /\ VectorByte(S, b) = v[Bits]
  BY VectorByteIs
<1>2. k + 1 \in 0..Bits /\ k + 1 > 0 /\ (k + 1) - 1 = k /\ Bits - (k + 1) = Bits - 1 - k /\ Bits - 1 - k \in Nat
  BY <1>0
<1>3. PICK P \in Nat \ {0} : P = Shl[Bits - 1 - k]
  BY <1>2, ShlIs
<1>m. PICK m \in 0..Bits : m = k + 1
  BY <1>2
<1>4. PICK h \in Nat : v[m] = h * P /\ h % 2 = Bit(S, b, k)
  <2>1. \E h \in Nat : v[m] = h * Shl[Bits - m] /\ (m > 0 => h % 2 = Bit(S, b, m - 1))
    BY <1>1, ByteSoFar
  <2>2. QED
    BY <1>2, <1>3, <1>m, <2>1
<1>5. PICK r \in Nat : v[Bits] = v[m] + r /\ r < P
  <2>1. \E r \in Nat : v[Bits] = v[m] + r /\ r < Shl[Bits - m]
    BY <1>1, ByteFromHere
  <2>2. QED
    BY <1>2, <1>3, <1>m, <2>1
<1>6. VectorByte(S, b) = h * P + r
  BY <1>1, <1>4, <1>5
<1>7. (h * P + r) \div P = h
  <2>1. PICK q, u : q = (h * P + r) \div P /\ u = (h * P + r) % P
    OBVIOUS
  <2>2. h * P \in Nat
    OBVIOUS
  <2>3. q \in Nat /\ u \in 0..(P - 1) /\ h * P + r = P * q + u
    <3>1. PICK y \in Nat : y = h * P + r
      BY <2>2
    <3>2. y \div P \in Nat /\ y % P \in 0..(P - 1) /\ y = P * (y \div P) + (y % P)
      OBVIOUS
    <3>3. QED
      BY <2>1, <3>1, <3>2
  <2>4. CASE q > h
    <3>1. P * q >= P * (h + 1)
      BY <2>3, <2>4
    <3>2. P * (h + 1) = h * P + P
      OBVIOUS
    <3>3. PICK z \in Nat : z = P * q
      BY <2>3
    <3>4. QED
      BY <1>5, <2>2, <2>3, <3>1, <3>2, <3>3
  <2>5. CASE q < h
    <3>1. h * P >= P * (q + 1)
      BY <2>3, <2>5
    <3>2. P * (q + 1) = P * q + P
      BY <2>3
    <3>3. PICK z \in Nat : z = P * q
      BY <2>3
    <3>4. QED
      BY <1>5, <2>2, <2>3, <3>1, <3>2, <3>3
  <2>6. QED
    BY <2>1, <2>3, <2>4, <2>5
<1>8. (VectorByte(S, b) \div P) % 2 = Bit(S, b, k)
  BY <1>4, <1>6, <1>7
<1>9. QED
  BY <1>3, <1>8 DEF Bit

(* A finite set of naturals can be listed in ascending order. *)
Ascending(q, n, S) == q \in [1..n -> S] /\ \A i, j \in 1..n : i < j => q[i] < q[j]

LEMMA AscendingExists ==
  ASSUME NEW S \in SUBSET Nat, IsFiniteSet(S)
  PROVE  \E q : Ascending(q, Cardinality(S), S)
<1> DEFINE Bad(U) == U \in SUBSET Nat /\ IsFiniteSet(U) /\ ~\E q : Ascending(q, Cardinality(U), U)
           T == {n \in Nat : \E U : Bad(U) /\ Cardinality(U) = n}
<1> SUFFICES ASSUME Bad(S) PROVE FALSE
  OBVIOUS
<1>1. Cardinality(S) \in T
  <2>1. Cardinality(S) \in Nat
    BY FS_CardinalityType
  <2>2. QED
    BY <2>1, ZenonT(60)
<1>2. PICK n \in T : \A m \in T : n <= m
  <2>1. T \in SUBSET Nat
    OBVIOUS
  <2> HIDE DEF T
  <2>2. QED
    BY <1>1, <2>1, Least
<1>3. PICK U : Bad(U) /\ Cardinality(U) = n /\ n \in Nat
  BY ZenonT(60)
<1> HIDE DEF T
<1>4. U \in SUBSET Nat /\ IsFiniteSet(U) /\ ~\E q : Ascending(q, n, U)
  BY <1>3
<1>5. U # {}
  <2> SUFFICES ASSUME U = {} PROVE FALSE
    OBVIOUS
  <2>1. n = 0
    BY <1>3, FS_EmptySet
  <2>2. PICK q : q = [i \in 1..0 |-> 0]
    OBVIOUS
  <2>3. Ascending(q, 0, {})
    BY <2>2 DEF Ascending
  <2>4. QED
    BY <1>4, <2>1, <2>3
<1>6. PICK a \in U : \A x \in U : a <= x
  BY <1>4, <1>5, Least
<1> DEFINE W == U \ {a}
<1>7. W \in SUBSET Nat /\ IsFiniteSet(W) /\ Cardinality(W) = n - 1
  BY <1>3, <1>4, FS_RemoveElement
<1>8. Cardinality(W) \in Nat
  BY <1>7, FS_CardinalityType
<1> HIDE DEF W
<1>9. PICK r : Ascending(r, n - 1, W)
  <2>1. n - 1 \notin T
    <3>1. n - 1 \in Nat /\ ~(n <= n - 1)
      BY <1>3, <1>7, <1>8
    <3>2. QED
      BY <1>2, <3>1
  <2>2. n - 1 \in Nat
    BY <1>7, <1>8
  <2>3. ~Bad(W)
    <3> HIDE DEF Bad
    <3>1. QED
      BY <1>7, <2>1, <2>2, ZenonT(60) DEF T
  <2>4. QED
    BY <1>7, <2>3
<1>10. n \in Nat /\ n > 0
  BY <1>3, <1>7, <1>8
<1>11. PICK q : q = [i \in 1..n |-> IF i = 1 THEN a ELSE r[i - 1]]
  BY ZenonT(60)
<1>12. ASSUME NEW i \in 1..n PROVE q[i] \in U /\ (i = 1 => q[i] = a) /\ (i # 1 => q[i] = r[i - 1] /\ i - 1 \in 1..(n - 1) /\ q[i] \in W)
  <2>1. i # 1 => i - 1 \in 1..(n - 1)
    BY <1>10
  <2>2. i # 1 => r[i - 1] \in W
    BY <1>9, <2>1 DEF Ascending
  <2>3. QED
    BY <1>11, <2>1, <2>2 DEF W
<1>13. ASSUME NEW i \in 1..n, NEW j \in 1..n, i < j PROVE q[i] < q[j]
  <2>1. j # 1
    BY <1>13
  <2>2. CASE i = 1
    <3>1. q[i] = a /\ q[j] \in U /\ q[j] # a
      BY <1>12, <2>1, <2>2 DEF W
    <3>2. \A x \in U : x # a => a < x
      BY <1>4, <1>6
    <3>3. QED
      BY <3>1, <3>2
  <2>3. CASE i # 1
    <3>1. q[i] = r[i - 1] /\ q[j] = r[j - 1] /\ i - 1 \in 1..(n - 1) /\ j - 1 \in 1..(n - 1) /\ i - 1 < j - 1
      BY <1>10, <1>12, <1>13, <2>1, <2>3
    <3>2. QED
      BY <1>9, <3>1 DEF Ascending
  <2>4. QED
    BY <2>2, <2>3
<1>14. Ascending(q, n, U)
  <2>1. q \in [1..n -> U]
    BY <1>11, <1>12
  <2>2. QED
    BY <1>13, <2>1 DEF Ascending
<1>15. QED
  BY <1>4, <1>14

(* RelayShards::new lists exactly the shards it is given. *)
LEMMA NewListsAll ==
  ASSUME NEW cluster, NEW S \in SUBSET Nat, IsFiniteSet(S)
  PROVE  LET rs == NewRelayShards(cluster, S)
         IN /\ rs = [cluster |-> cluster, shards |-> rs.shards]
            /\ rs.shards \in Seq(Nat) /\ {rs.shards[i] : i \in DOMAIN rs.shards} = S
<1> DEFINE n == Cardinality(S)
           rs == NewRelayShards(cluster, S)
           q == rs.shards
<1>1. n \in Nat
  BY FS_CardinalityType
<1>2. rs = [cluster |-> cluster, shards |-> rs.shards]
  BY DEF NewRelayShards
<1>3. q = CHOOSE p \in [1..n -> S] : \A i, j \in DOMAIN p : i < j => p[i] < p[j]
  BY DEF NewRelayShards
<1>4. q \in [1..n -> S] /\ \A i, j \in 1..n : i < j => q[i] < q[j]
  <2>1. PICK p : Ascending(p, n, S)
    BY AscendingExists
  <2>2. p \in [1..n -> S] /\ \A i, j \in DOMAIN p : i < j => p[i] < p[j]
    BY <2>1 DEF Ascending
  <2> HIDE DEF n, q
  <2>3. q \in [1..n -> S] /\ \A i, j \in DOMAIN q : i < j => q[i] < q[j]
    BY <1>3, <2>2, ZenonT(60)
  <2>4. QED
    BY <2>3
<1> HIDE DEF n, q
<1>5. q \in Injection(1..n, S)
  <2>1. ASSUME NEW i \in 1..n, NEW j \in 1..n, q[i] = q[j] PROVE i = j
    <3>1. q[i] \in Nat /\ q[j] \in Nat
      BY ZenonT(60), <1>4
    <3>2. ~(i < j) /\ ~(j < i)
      BY <1>4, <2>1, <3>1
    <3>3. QED
      BY <1>1, <3>2
  <2>2. QED
    BY <1>4, <2>1 DEF Injection, IsInjective
<1>6. Cardinality(1..n) = Cardinality(S)
  BY <1>1, FS_Interval DEF n
<1>7. q \in Surjection(1..n, S)
  BY <1>5, <1>6, FS_Injection
<1>8. \A x \in S : \E i \in 1..n : q[i] = x
  BY <1>7 DEF Surjection
<1>9. DOMAIN q = 1..n /\ {q[i] : i \in DOMAIN q} = S
  BY ZenonT(60), <1>4, <1>8
<1>10. q \in Seq(Nat)
  <2>1. q \in [1..n -> Nat]
    BY ZenonT(60), <1>4
  <2>2. QED
    BY <1>1, <2>1
<1>11. QED
  BY <1>2, <1>9, <1>10 DEF q

(* A 16-bit value survives to_be_bytes and from_be_bytes. *)
LEMMA BeBytes ==
  ASSUME NEW v \in Nat
  PROVE  /\ ToBeBytes(v) = <<v \div Byte, v % Byte>>
         /\ FromBeBytes(v \div Byte, v % Byte) = v
<1>1. Byte \in Nat \ {0}
  BY EnrAssumption, ShlIs DEF Byte
<1>2. \A k \in Nat \ {0} : ((v \div k) * k) + (v % k) = v
  OBVIOUS
<1>3. QED
  BY <1>1, <1>2 DEF ToBeBytes, FromBeBytes

(* Three bytes before a function on 1..m. *)
LEMMA PrefixIs ==
  ASSUME NEW m \in Nat, NEW f, f = [j \in 1..m |-> f[j]], NEW x, NEW y, NEW z
  PROVE  LET b == <<x, y>> \o <<z>> \o f
         IN /\ Len(b) = 3 + m /\ b[1] = x /\ b[2] = y /\ b[3] = z
            /\ \A j \in 1..m : b[3 + j] = f[j]
<1> DEFINE S == {x, y, z} \cup {f[j] : j \in 1..m}
<1>1. f \in [1..m -> S] /\ x \in S /\ y \in S /\ z \in S
  OBVIOUS
<1> HIDE DEF S
<1>2. f \in Seq(S) /\ Len(f) = m /\ DOMAIN f = 1..m
  BY <1>1
<1>3. PICK h : h = <<x, y>> \o <<z>>
  BY ZenonT(60)
<1>4. h \in Seq(S) /\ Len(h) = 3 /\ h[1] = x /\ h[2] = y /\ h[3] = z
  BY <1>1, <1>3
<1>5. /\ Len(h \o f) = 3 + m /\ \A i \in 1..3 : (h \o f)[i] = h[i]
      /\ \A j \in 1..m : (h \o f)[3 + j] = f[j]
  <2>1. \A s, u \in Seq(S) : /\ Len(s \o u) = Len(s) + Len(u)
                             /\ \A i \in DOMAIN s : (s \o u)[i] = s[i]
                             /\ \A i \in DOMAIN u : (s \o u)[Len(s) + i] = u[i]
    BY ConcatIs
  <2>2. /\ Len(h \o f) = Len(h) + Len(f)
        /\ \A i \in DOMAIN h : (h \o f)[i] = h[i]
        /\ \A i \in DOMAIN f : (h \o f)[Len(h) + i] = f[i]
    BY <1>2, <1>4, <2>1, ZenonT(60)
  <2>3. DOMAIN h = 1..3
    BY <1>4
  <2>4. QED
    BY <1>2, <1>4, <2>2, <2>3, ZenonT(60)
<1>6. QED
  BY <1>3, <1>4, <1>5

(* from_indices_list reads back whatever to_indices_list wrote: any cluster, and
   any list of shards that is not too long for its count. *)
THEOREM ListReadsBack ==
  ASSUME NEW cluster \in Nat, NEW shards \in Seq(Nat), Len(shards) < Byte
  PROVE  LET rs == [cluster |-> cluster, shards |-> shards]
         IN FromIndicesList(ToIndicesList(rs)) = rs
<1> DEFINE rs == [cluster |-> cluster, shards |-> shards]
           n == Len(shards)
           pairs == [j \in 1..(2 * n) |-> ToBeBytes(shards[(j + 1) \div 2])[2 - (j % 2)]]
           b == ToIndicesList(rs)
<1>0. n \in Nat /\ Byte \in Nat
  BY EnrAssumption, ShlIs DEF Byte
<1>1. b = ToBeBytes(cluster) \o <<n>> \o pairs
  <2>1. rs.shards = shards /\ rs.cluster = cluster /\ ~(n >= Byte)
    BY <1>0
  <2> HIDE DEF rs
  <2>2. QED
    BY <2>1, ZenonT(60) DEF ToIndicesList
<1>2. ASSUME NEW i \in 1..n
      PROVE  /\ 2 * i - 1 \in 1..(2 * n) /\ 2 * i \in 1..(2 * n)
             /\ pairs[2 * i - 1] = shards[i] \div Byte /\ pairs[2 * i] = shards[i] % Byte
  <2>1. shards[i] \in Nat /\ i \in Nat \ {0} /\ i <= n
    BY <1>0
  <2>2. ToBeBytes(shards[i]) = <<shards[i] \div Byte, shards[i] % Byte>>
    BY <2>1, BeBytes
  <2>3. 2 * i - 1 \in 1..(2 * n) /\ 2 * i \in 1..(2 * n)
    BY <1>0, <2>1
  <2>4. /\ ((2 * i - 1) + 1) \div 2 = i /\ 2 - ((2 * i - 1) % 2) = 1
        /\ (2 * i + 1) \div 2 = i /\ 2 - ((2 * i) % 2) = 2
    BY <2>1
  <2>5. QED
    BY <2>2, <2>3, <2>4
<1>3. 2 * n \in Nat /\ pairs = [j \in 1..(2 * n) |-> pairs[j]]
  BY <1>0
<1>4. /\ Len(b) = 3 + 2 * n /\ b[1] = cluster \div Byte /\ b[2] = cluster % Byte /\ b[3] = n
      /\ \A j \in 1..(2 * n) : b[3 + j] = pairs[j]
  <2>1. b = <<cluster \div Byte, cluster % Byte>> \o <<n>> \o pairs
    BY ZenonT(60), <1>1, BeBytes
  <2> HIDE DEF pairs, n, b
  <2>2. QED
    BY <1>3, <2>1, PrefixIs
<1>5. \A i \in 1..n : FromBeBytes(b[2 * i + 2], b[2 * i + 3]) = shards[i]
  <2> SUFFICES ASSUME NEW i \in 1..n PROVE FromBeBytes(b[2 * i + 2], b[2 * i + 3]) = shards[i]
    OBVIOUS
  <2>1. 2 * i + 2 = 3 + (2 * i - 1) /\ 2 * i + 3 = 3 + 2 * i /\ shards[i] \in Nat
    BY <1>0
  <2>2. b[2 * i + 2] = shards[i] \div Byte /\ b[2 * i + 3] = shards[i] % Byte
    BY ZenonT(60), <1>2, <1>4, <2>1
  <2>3. QED
    BY <2>1, <2>2, BeBytes
<1>6. FromBeBytes(b[1], b[2]) = cluster
  BY <1>4, BeBytes
<1>7. [i \in 1..n |-> FromBeBytes(b[2 * i + 2], b[2 * i + 3])] = shards
  <2> HIDE DEF b
  <2>1. QED
    BY <1>5
<1>8. FromIndicesList(b) = rs
  <2> HIDE DEF b
  <2>1. ~(Len(b) < 3) /\ Len(b) = 3 + b[3] * 2
    BY <1>0, <1>4
  <2>2. QED
    BY ZenonT(60), <1>4, <1>6, <1>7, <2>1 DEF FromIndicesList
<1>9. QED
  BY <1>8

(* from_bit_vector reads back whatever to_bit_vector wrote: any cluster, and
   any shards that have a bit. *)
THEOREM VectorReadsBack ==
  ASSUME NEW cluster \in Nat, NEW S \in SUBSET Nat, IsFiniteSet(S), \A s \in S : s < VectorShards
  PROVE  LET rs == NewRelayShards(cluster, S)
         IN FromBitVector(ToBitVector(rs)) = rs /\ ToBitVector(rs) # Missing
<1> DEFINE rs == NewRelayShards(cluster, S)
           f == [j \in 1..VectorBytes |-> VectorByte(S, j - 1)]
           b == <<cluster \div Byte, cluster % Byte>> \o f
<1>0. Bits \in Nat /\ Bits > 0 /\ VectorBytes \in Nat /\ VectorBytes > 0
  BY EnrAssumption
<1>1. ToBitVector(rs) = b
  <2>1. {rs.shards[i] : i \in DOMAIN rs.shards} = S /\ rs.cluster = cluster
    BY NewListsAll
  <2>2. VectorShards \in Nat
    BY <1>0 DEF VectorShards
  <2>3. ~\E s \in S : s >= VectorShards
    BY <2>2
  <2>4. ToBeBytes(cluster) = <<cluster \div Byte, cluster % Byte>>
    BY BeBytes
  <2> HIDE DEF rs
  <2>5. QED
    BY ZenonT(60), <2>1, <2>3, <2>4 DEF ToBitVector
<1>2. /\ Len(b) = 2 + VectorBytes /\ b[1] = cluster \div Byte /\ b[2] = cluster % Byte
      /\ \A j \in 1..VectorBytes : b[2 + j] = f[j]
  <2> DEFINE U == {cluster \div Byte, cluster % Byte} \cup {f[j] : j \in 1..VectorBytes}
             h == <<cluster \div Byte, cluster % Byte>>
  <2>1. f \in [1..VectorBytes -> U] /\ cluster \div Byte \in U /\ cluster % Byte \in U
    OBVIOUS
  <2> HIDE DEF U, f
  <2>2. f \in Seq(U) /\ Len(f) = VectorBytes /\ DOMAIN f = 1..VectorBytes
    BY <1>0, <2>1
  <2>3. h \in Seq(U) /\ Len(h) = 2 /\ DOMAIN h = 1..2 /\ h[1] = cluster \div Byte /\ h[2] = cluster % Byte
    BY <2>1
  <2>4. b = h \o f
    OBVIOUS
  <2> HIDE DEF h, b
  <2>5. /\ Len(h \o f) = Len(h) + Len(f)
        /\ \A i \in DOMAIN h : (h \o f)[i] = h[i]
        /\ \A i \in DOMAIN f : (h \o f)[Len(h) + i] = f[i]
    BY <2>2, <2>3, ConcatIs
  <2>6. 1 \in 1..2 /\ 2 \in 1..2
    OBVIOUS
  <2>7. QED
    BY <2>2, <2>3, <2>4, <2>5, <2>6, ZenonT(60)
<1> HIDE DEF b
<1>3. ASSUME NEW i \in 0..(VectorShards - 1)
      PROVE  (b[3 + (i \div Bits)] \div Mask(i)) % 2 = 1 <=> i \in S
  <2>1. PICK y \in Nat, k \in 0..(Bits - 1) : y = i \div Bits /\ k = i % Bits /\ i = y * Bits + k
    <3>1. i \in Nat
      BY <1>0 DEF VectorShards
    <3>2. /\ i \div Bits \in Nat /\ i % Bits \in 0..(Bits - 1)
          /\ i = (i \div Bits) * Bits + (i % Bits)
      BY <1>0, <3>1
    <3>3. QED
      BY <3>2
  <2>2. y < VectorBytes
    <3>1. i < VectorBytes * Bits /\ y * Bits <= i
      <4>1. VectorBytes * Bits \in Nat /\ y * Bits \in Nat
        BY <1>0
      <4>2. QED
        BY <2>1, <4>1 DEF VectorShards
    <3>2. y >= VectorBytes => y * Bits >= VectorBytes * Bits
      BY <1>0
    <3>3. QED
      <4>1. PICK z \in Nat, x \in Nat : z = y * Bits /\ x = VectorBytes * Bits
        BY <1>0
      <4>2. i \in Int
        OBVIOUS
      <4>3. QED
        BY <1>0, <3>1, <3>2, <4>1, <4>2
  <2>3. b[3 + y] = VectorByte(S, y)
    <3>1. y + 1 \in 1..VectorBytes /\ 2 + (y + 1) = 3 + y /\ (y + 1) - 1 = y
      BY <1>0, <2>2
    <3>2. f[y + 1] = VectorByte(S, y)
      BY <3>1
    <3> HIDE DEF f
    <3>3. QED
      BY <1>2, <3>1, <3>2
  <2>4. Mask(i) = Shl[Bits - 1 - k]
    BY <2>1 DEF Mask
  <2>5. (VectorByte(S, y) \div Shl[Bits - 1 - k]) % 2 = 1 <=> y * Bits + k \in S
    BY BitReadsBack
  <2>6. QED
    BY <2>1, <2>3, <2>4, <2>5
<1>4. {i \in 0..(VectorShards - 1) : (b[3 + (i \div Bits)] \div Mask(i)) % 2 = 1} = S
  <2>1. \A s \in S : s \in 0..(VectorShards - 1)
    BY <1>0 DEF VectorShards
  <2>2. QED
    BY <1>3, <2>1, ZenonT(60)
<1>5. FromBeBytes(b[1], b[2]) = cluster
  BY <1>2, BeBytes
<1>6. FromBitVector(b) = rs
  BY ZenonT(60), <1>2, <1>4, <1>5 DEF FromBitVector
<1>7. b # Missing
  <2>1. Len(Missing) = 0
    BY DEF Missing
  <2>2. QED
    BY <1>0, <1>2, <2>1
<1>8. QED
  BY <1>1, <1>6, <1>7

(* Whatever could be written of a configuration is read as it was meant. *)
LEMMA FieldsReadBack ==
  ASSUME NEW a, a.cluster \in Nat, a.shards \in SUBSET Nat, IsFiniteSet(a.shards),
         a.form \in {"rs", "rsv"}, Fields(a) # [rs |-> Missing, rsv |-> Missing]
  PROVE  EnrRelayShards(Fields(a)) = NewRelayShards(a.cluster, a.shards)
<1> DEFINE rs == NewRelayShards(a.cluster, a.shards)
<1>1. /\ rs = [cluster |-> a.cluster, shards |-> rs.shards] /\ rs.shards \in Seq(Nat)
      /\ {rs.shards[i] : i \in DOMAIN rs.shards} = a.shards
  BY NewListsAll
<1>2. CASE a.form = "rs"
  <2>1. Fields(a) = [rs |-> ToIndicesList(rs), rsv |-> Missing]
    BY ZenonT(60), <1>2 DEF Fields, BuildWakuEnr
  <2> HIDE DEF rs
  <2>2. ToIndicesList(rs) # Missing
    BY <2>1, ZenonT(60)
  <2>3. ~(Len(rs.shards) >= Byte)
    BY ZenonT(60), <2>2 DEF ToIndicesList
  <2>4. Len(rs.shards) \in Nat /\ Byte \in Nat
    BY <1>1, EnrAssumption, ShlIs DEF Byte
  <2>5. FromIndicesList(ToIndicesList(rs)) = rs
    <3>1. PICK q \in Seq(Nat) : q = rs.shards /\ Len(q) < Byte
      BY <1>1, <2>3, <2>4
    <3>2. FromIndicesList(ToIndicesList([cluster |-> a.cluster, shards |-> q])) = [cluster |-> a.cluster, shards |-> q]
      BY ZenonT(60), <3>1, ListReadsBack
    <3>3. rs = [cluster |-> a.cluster, shards |-> q]
      BY <1>1, <3>1
    <3>4. QED
      BY <3>2, <3>3, ZenonT(60)
  <2>6. Fields(a).rs = ToIndicesList(rs)
    BY <2>1
  <2>7. EnrRelayShards(Fields(a)) = rs
    BY ZenonT(60), <2>2, <2>5, <2>6 DEF EnrRelayShards
  <2>8. QED
    BY ZenonT(60), <2>7 DEF rs
<1>3. CASE a.form = "rsv"
  <2>1. Fields(a) = [rs |-> Missing, rsv |-> ToBitVector(rs)]
    BY ZenonT(60), <1>3 DEF Fields, VectorEnr
  <2> HIDE DEF rs
  <2>2. ToBitVector(rs) # Missing
    BY ZenonT(60), <2>1
  <2>3. ~\E s \in a.shards : s >= VectorShards
    BY <1>1, <2>2, ZenonT(60) DEF ToBitVector
  <2>4. \A s \in a.shards : s < VectorShards
    <3>1. VectorShards \in Nat
      BY EnrAssumption DEF VectorShards
    <3>2. QED
      BY <2>3, <3>1
  <2>5. FromBitVector(ToBitVector(rs)) = rs
    BY <2>4, VectorReadsBack DEF rs
  <2>6. Fields(a).rs = Missing /\ Fields(a).rsv = ToBitVector(rs)
    BY <2>1
  <2>7. EnrRelayShards(Fields(a)) = rs
    BY ZenonT(60), <2>2, <2>5, <2>6 DEF EnrRelayShards
  <2>8. QED
    BY ZenonT(60), <2>7 DEF rs
<1>4. QED
  BY <1>2, <1>3, ZenonT(60)

(* Records stay as they were written, and what is left of a round of queries is
   of our cluster. *)
AdvertInv ==
  /\ record = [e \in Enr |-> Fields(advert[e])]
  /\ phase = "dial" => \A e \in Elems(todo) : advert[e].cluster = Cluster

LEMMA RecordsReadBack ==
  ASSUME IInv, record = [x \in Enr |-> Fields(advert[x])], NEW e \in Enr,
         record[e] # [rs |-> Missing, rsv |-> Missing]
  PROVE  EnrRelayShards(record[e]) = NewRelayShards(advert[e].cluster, advert[e].shards)
<1>1. advert \in Adverts /\ record[e] = Fields(advert[e])
  BY DEF IInv, TypeOK
<1>2. Byte \in Nat
  BY EnrAssumption, ShlIs DEF Byte
<1>3. PICK B \in Int : B = Byte * Byte - 1
  BY <1>2
<1>4. /\ advert[e].cluster \in 0..B /\ advert[e].shards \in SUBSET (0..B)
      /\ advert[e].form \in {"rs", "rsv"}
  BY <1>1, <1>3, AdvertAssumption, ZenonT(60)
<1>5. IsFiniteSet(advert[e].shards)
  <2>1. IsFiniteSet(0..B)
    BY FS_Interval
  <2>2. QED
    BY <1>4, <2>1, FS_Subset
<1>6. advert[e].cluster \in Nat /\ advert[e].shards \in SUBSET Nat
  BY <1>4
<1>7. QED
  BY ZenonT(60), <1>1, <1>4, <1>5, <1>6, FieldsReadBack

(* A record with neither field tells a reader nothing. *)
LEMMA BlankIsUnreadable == EnrRelayShards([rs |-> Missing, rsv |-> Missing]) = Unreadable
  BY DEF EnrRelayShards

(* Only a query fills the batch, and it keeps the records of the own cluster. *)
LEMMA AdvertPreserved == IInv /\ AdvertInv /\ [Next]_vars => AdvertInv'
<1> SUFFICES ASSUME IInv, AdvertInv, [Next]_vars PROVE AdvertInv'
  OBVIOUS
<1>1. advert' = advert /\ record' = record
  BY ZenonT(60) DEF Next, Progress, vars, keyVars, LoadKey, RejectKey, GenerateKey, WriteKey, BeginWalk, SkipUrl,
         PopVisited, Truncate, FetchFails, EndWalk, Fetch, StartLoop, Consider, SendDial, EndRound,
         Wake, Query, DriverStops, Crash, Restart
<1>2. todo \in Seq(Enr) /\ record = [e \in Enr |-> Fields(advert[e])]
  BY DEF IInv, TypeOK, AdvertInv
<1>3. ASSUME NEW found \in Found, Query(found) PROVE AdvertInv'
  <2>1. ASSUME NEW e \in Elems(found) PROVE advert[e].cluster = Cluster
    <3>1. e \in Enr
      BY <1>3, <2>1 DEF Found, Elems
    <3>2. EnrRelayShards(record[e]) # Unreadable /\ EnrRelayShards(record[e]).cluster = Cluster
      BY <1>3 DEF Query, InCluster, Dialable
    <3>3. record[e] # [rs |-> Missing, rsv |-> Missing]
      BY <3>2, BlankIsUnreadable, ZenonT(60)
    <3>4. EnrRelayShards(record[e]) = NewRelayShards(advert[e].cluster, advert[e].shards)
      BY <1>2, <3>1, <3>3, RecordsReadBack
    <3>5. NewRelayShards(advert[e].cluster, advert[e].shards).cluster = advert[e].cluster
      BY DEF NewRelayShards
    <3>6. QED
      BY <3>2, <3>4, <3>5
  <2>2. todo' = found
    BY <1>3 DEF Query
  <2>3. QED
    BY <1>1, <1>2, <2>1, <2>2 DEF AdvertInv
<1>4. CASE Consider
  <2>1. todo # <<>> /\ todo' = Tail(todo) /\ phase' = phase
    BY <1>4 DEF Consider
  <2>2. Elems(Tail(todo)) \subseteq Elems(todo)
    BY <1>2, <2>1, TailIs DEF Elems
  <2>3. QED
    BY <1>1, <2>1, <2>2 DEF AdvertInv
<1>5. ASSUME phase' = "dial" => phase = "dial" /\ todo' = todo PROVE AdvertInv'
  BY <1>1, <1>5 DEF AdvertInv
<1>6. CASE SendDial \/ DriverStops
  BY <1>5, <1>6 DEF SendDial, DriverStops, peerVars
<1>7. CASE Wake
  BY <1>5, <1>7 DEF Wake
<1>8. CASE LoadKey \/ RejectKey \/ GenerateKey \/ WriteKey \/ BeginWalk \/ EndWalk \/ StartLoop
           \/ EndRound \/ Crash \/ Restart
  <2>1. CASE LoadKey \/ RejectKey \/ GenerateKey \/ WriteKey
    BY ZenonT(60), <1>5, <2>1 DEF LoadKey, Identify, RejectKey, GenerateKey, WriteKey
  <2>2. CASE BeginWalk \/ EndWalk \/ StartLoop
    BY <1>5, <2>2 DEF BeginWalk, EndWalk, StartLoop
  <2>3. CASE EndRound \/ Crash \/ Restart
    BY ZenonT(60), <1>5, <2>3 DEF EndRound, Crash, Restart
  <2>4. QED
    BY ZenonT(60), <1>8, <2>1, <2>2, <2>3
<1>9. CASE SkipUrl \/ PopVisited \/ Truncate \/ FetchFails \/ \E c \in Hash : Fetch(c)
  BY ZenonT(60), <1>5, <1>9 DEF SkipUrl, PopVisited, Truncate, FetchFails, Fetch
<1>10. CASE UNCHANGED vars
  BY <1>5, <1>10 DEF vars, peerVars
<1>11. QED
  BY <1>3, <1>4, <1>6, <1>7, <1>8, <1>9, <1>10, ZenonT(60) DEF Next, Progress

(* Readers of a record, and the rounds of discovery_loop, go by what its node
   was configured with. *)
THEOREM AdvertsAreRead == Spec => []ShardsAsAdvertised
<1>1. Init => AdvertInv
  BY DEF Init, AdvertInv
<1>2. IInv /\ AdvertInv => ShardsAsAdvertised
  BY RecordsReadBack DEF AdvertInv, ShardsAsAdvertised
<1>3. QED
  BY <1>1, <1>2, AdvertPreserved, InductiveInvariant, PTL DEF Spec

=============================================================================
