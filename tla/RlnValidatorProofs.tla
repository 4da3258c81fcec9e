------------------------- MODULE RlnValidatorProofs --------------------------
(* RLN's rate limit, for any nodes, identities, limits and epoch sizes.      *)
(*                                                                           *)
(* The log has an entry for every message accepted as original               *)
(* (OriginalsAreLogged).  A second message in the same slot therefore meets  *)
(* that entry, and a slot has one original at most; an identity has no more  *)
(* slots than its limit.                                                     *)
EXTENDS RlnValidator, FiniteSetTheorems, TLAPS

(* The provers of the leaves that name none. An attempt with SMT ends when the
   translation takes five seconds, whatever its limit: on a busy machine a leaf
   needs a later attempt. *)
USE SMTT(15), Zenon, SMTT(30), ZenonT(30), SMTT(40), SMTT(50),
    ZenonT(60), SMTT(60), SMTT(70), SMTT(80), SMTT(90)

(* A message that was accepted as original is the one logged. *)
OriginalsAreLogged ==
  \A v \in Node : \A x \in accepted[v] :
    x.double = FALSE => seen[v][x.proof.epoch][<<x.proof.id, x.proof.slot>>] = x.proof.signal

(* One original in a slot. *)
SlotsAreUsedOnce ==
  \A v \in Node : \A x, y \in accepted[v] :
    x.double = FALSE /\ y.double = FALSE /\ x.proof.id = y.proof.id
    /\ x.proof.epoch = y.proof.epoch /\ x.proof.slot = y.proof.slot
      => x.proof.signal = y.proof.signal

(* prove refuses a slot beyond the limit. *)
SlotsInLimit == \A p \in proofs : p.slot \in 0..(Limit[p.id] - 1)

AcceptedWasProved == \A v \in Node : \A x \in accepted[v] : x.proof \in proofs

(* What the log holds was signed by the identity. *)
LoggedWasProved ==
  \A v \in Node, e \in Epoch, i \in Identity, k \in Slot :
    seen[v][e][<<i, k>>] # NoShare
      => \E p \in proofs : p.id = i /\ p.epoch = e /\ p.slot = k /\ p.signal = seen[v][e][<<i, k>>]

IInv ==
  /\ TypeOK /\ SlotsInLimit /\ AcceptedWasProved /\ LoggedWasProved
  /\ OriginalsAreLogged /\ SlotsAreUsedOnce /\ FlaggedIsGuilty

(* Appending to a tree that is not full keeps it a tree. *)
LEMMA Grown ==
  ASSUME NEW t \in Seq(Identity), NEW i \in Identity, Len(t) < Capacity
  PROVE  Append(t, i) \in Seq(Identity) /\ Len(Append(t, i)) <= Capacity
BY RlnAssumption

(* observe adds the share of a nullifier that has none, and nothing else. *)
LEMMA Observed ==
  ASSUME TypeOK, NEW v \in Node, NEW p \in proofs, NEW s \in Signal, VerifyInbound(v, p, s)
  PROVE  /\ seen' \in [Node -> [Epoch -> [Identity \X Slot -> Signal \cup {NoShare}]]]
         /\ \A u \in Node, e \in Epoch, i \in Identity, k \in Slot :
              seen'[u][e][<<i, k>>] =
                IF u = v /\ e = p.epoch /\ i = p.id /\ k = p.slot /\ seen[u][e][<<i, k>>] = NoShare
                  THEN p.signal ELSE seen[u][e][<<i, k>>]
<1> DEFINE N == Identity \X Slot
           S == Signal \cup {NoShare}
           n == <<p.id, p.slot>>
           w == IF seen[v][p.epoch][n] = NoShare THEN p.signal ELSE seen[v][p.epoch][n]
<1>1. p.epoch \in Epoch /\ p.id \in Identity /\ p.slot \in Slot /\ p.signal \in Signal
  BY DEF TypeOK, Proof
<1>2. n \in N
  BY <1>1
<1>3. w \in S
  BY <1>1, <1>2 DEF TypeOK
<1>4. seen' = [seen EXCEPT ![v][p.epoch][n] = w]
  BY DEF VerifyInbound, Observe
<1>5. seen \in [Node -> [Epoch -> [N -> S]]]
  BY ZenonT(60) DEF TypeOK
<1> HIDE DEF w, n, N, S
<1>6. /\ seen' \in [Node -> [Epoch -> [N -> S]]]
      /\ \A u \in Node, e \in Epoch, z \in N :
           seen'[u][e][z] = IF u = v /\ e = p.epoch /\ z = n THEN w ELSE seen[u][e][z]
  BY <1>1, <1>2, <1>3, <1>4, <1>5
<1>7. ASSUME NEW u \in Node, NEW e \in Epoch, NEW i \in Identity, NEW k \in Slot
      PROVE  seen'[u][e][<<i, k>>] =
                IF u = v /\ e = p.epoch /\ i = p.id /\ k = p.slot /\ seen[u][e][<<i, k>>] = NoShare
                  THEN p.signal ELSE seen[u][e][<<i, k>>]
  <2>1. <<i, k>> \in N /\ (<<i, k>> = n <=> i = p.id /\ k = p.slot)
    BY DEF n, N
  <2>2. seen'[u][e][<<i, k>>] = IF u = v /\ e = p.epoch /\ <<i, k>> = n THEN w ELSE seen[u][e][<<i, k>>]
    BY <1>6, <2>1
  <2>3. QED
    BY <2>1, <2>2 DEF w
<1>8. QED
  BY ZenonT(60), <1>6, <1>7 DEF N, S

(* Every action keeps the types. *)
LEMMA TypePreserved == TypeOK /\ [Next]_vars => TypeOK'
<1> SUFFICES ASSUME TypeOK, [Next]_vars PROVE TypeOK'
  OBVIOUS
<1>1. CASE Tick
  <2>1. now' \in 0..MaxNow
    BY <1>1, RlnAssumption DEF Tick, TypeOK
  <2>2. QED
    BY ZenonT(60), <1>1, <2>1 DEF Tick, TypeOK
<1>2. ASSUME NEW v \in Node, NEW i \in Identity, Register(v, i)
      PROVE  TypeOK'
  BY ZenonT(60), <1>2, Grown DEF Register, TypeOK
<1>3. ASSUME NEW v \in Node, NEW i \in Identity, NEW index \in 1..Capacity, NEW s \in Signal,
             NEW e \in Epoch, NEW k \in Slot, Prove(v, i, index, s, e, k)
      PROVE  TypeOK'
  <2>1. PICK r \in Seq(Identity) \cup {NoRoot} :
          proofs' = proofs \cup {[id |-> i, root |-> r, signal |-> s, epoch |-> e, slot |-> k]}
    BY ZenonT(60), <1>3 DEF Prove, TypeOK
  <2>2. proofs' \subseteq Proof
    BY <2>1 DEF TypeOK, Proof
  <2>3. QED
    BY ZenonT(60), <1>3, <2>2 DEF Prove, TypeOK
<1>4. ASSUME NEW v \in Node, NEW p \in proofs, NEW s \in Signal, VerifyInbound(v, p, s)
      PROVE  TypeOK'
  <2>1. p \in Proof /\ p.epoch \in Epoch /\ <<p.id, p.slot>> \in Identity \X Slot /\ p.signal \in Signal
    BY DEF TypeOK, Proof
  <2>2. seen' \in [Node -> [Epoch -> [Identity \X Slot -> Signal \cup {NoShare}]]]
    BY ZenonT(60), <1>4, Observed
  <2>3. DoubleSignaling(v, p) \in BOOLEAN
    BY DEF DoubleSignaling
  <2>4. accepted' \in [Node -> SUBSET [proof : Proof, double : BOOLEAN]]
    BY <1>4, <2>1, <2>3 DEF VerifyInbound, TypeOK
  <2>5. QED
    BY ZenonT(60), <1>4, <2>2, <2>4 DEF VerifyInbound, TypeOK
<1>5. CASE UNCHANGED vars
  BY ZenonT(60), <1>5 DEF vars, TypeOK
<1>6. QED
  BY <1>1, <1>2, <1>3, <1>4, <1>5 DEF Next, RefuseInbound

(* What an accepted message is: its proof was made, and it is an original only
   if the log has no other share for its nullifier. *)
LEMMA Accepted ==
  ASSUME TypeOK, NEW v \in Node, NEW p \in proofs, NEW s \in Signal, VerifyInbound(v, p, s)
  PROVE  /\ p.epoch \in Epoch /\ p.id \in Identity /\ p.slot \in Slot /\ p.signal \in Signal
         /\ UNCHANGED <<now, proofs>>
         /\ \A u \in Node \ {v} : accepted'[u] = accepted[u]
         /\ \E d \in BOOLEAN :
              /\ accepted'[v] = accepted[v] \cup {[proof |-> p, double |-> d]}
              /\ d = FALSE <=> seen[v][p.epoch][<<p.id, p.slot>>] \in {NoShare, p.signal}
<1>1. p.epoch \in Epoch /\ p.id \in Identity /\ p.slot \in Slot /\ p.signal \in Signal
  BY DEF TypeOK, Proof
<1>2. UNCHANGED <<now, proofs>> /\ \A u \in Node \ {v} : accepted'[u] = accepted[u]
  BY DEF VerifyInbound, TypeOK
<1>3. accepted'[v] = accepted[v] \cup {[proof |-> p, double |-> DoubleSignaling(v, p)]}
  BY DEF VerifyInbound, TypeOK
<1>4. /\ DoubleSignaling(v, p) \in BOOLEAN
      /\ DoubleSignaling(v, p) = FALSE <=> seen[v][p.epoch][<<p.id, p.slot>>] \in {NoShare, p.signal}
  BY ZenonT(60) DEF DoubleSignaling
<1>5. QED
  BY <1>1, <1>2, <1>3, <1>4, ZenonT(60)

(* Slots, accepted proofs and log entries go back to proofs that were made. *)
LEMMA ProofsPreserved ==
  ASSUME IInv, [Next]_vars
  PROVE  SlotsInLimit' /\ AcceptedWasProved' /\ LoggedWasProved' /\ FlaggedIsGuilty'
<1> USE DEF IInv
<1>1. ASSUME NEW v \in Node, NEW i \in Identity, NEW index \in 1..Capacity, NEW s \in Signal,
             NEW e \in Epoch, NEW k \in Slot, Prove(v, i, index, s, e, k)
      PROVE  SlotsInLimit' /\ AcceptedWasProved' /\ LoggedWasProved' /\ FlaggedIsGuilty'
  <2>1. PICK r : proofs' = proofs \cup {[id |-> i, root |-> r, signal |-> s, epoch |-> e, slot |-> k]}
    BY ZenonT(60), <1>1 DEF Prove
  <2>2. k \in 0..(Limit[i] - 1)
    <3>1. k \in Nat /\ Limit[i] \in Nat
      BY RlnAssumption DEF Slot
    <3>2. QED
      BY <1>1, <3>1 DEF Prove
  <2>3. SlotsInLimit'
    BY <2>1, <2>2 DEF SlotsInLimit
  <2>4. proofs \subseteq proofs' /\ UNCHANGED <<seen, accepted>>
    BY <1>1, <2>1 DEF Prove
  <2>5. QED
    BY <2>3, <2>4 DEF AcceptedWasProved, LoggedWasProved, FlaggedIsGuilty
<1>2. ASSUME NEW v \in Node, NEW p \in proofs, NEW s \in Signal, VerifyInbound(v, p, s)
      PROVE  SlotsInLimit' /\ AcceptedWasProved' /\ LoggedWasProved' /\ FlaggedIsGuilty'
  <2>1. PICK d \in BOOLEAN :
          /\ accepted'[v] = accepted[v] \cup {[proof |-> p, double |-> d]}
          /\ d = FALSE <=> seen[v][p.epoch][<<p.id, p.slot>>] \in {NoShare, p.signal}
    BY ZenonT(60), <1>2, Accepted
  <2>2. /\ UNCHANGED <<now, proofs>> /\ \A u \in Node \ {v} : accepted'[u] = accepted[u]
        /\ p.epoch \in Epoch /\ p.id \in Identity /\ p.slot \in Slot
    BY ZenonT(60), <1>2, Accepted
  <2>3. SlotsInLimit' /\ AcceptedWasProved'
    BY <2>1, <2>2 DEF SlotsInLimit, AcceptedWasProved
  <2>4. LoggedWasProved'
    <3> SUFFICES ASSUME NEW u \in Node, NEW e \in Epoch, NEW i \in Identity, NEW k \in Slot,
                        seen'[u][e][<<i, k>>] # NoShare
                 PROVE  \E q \in proofs' : /\ q.id = i /\ q.epoch = e /\ q.slot = k
                                          /\ q.signal = seen'[u][e][<<i, k>>]
      BY ZenonT(60) DEF LoggedWasProved
    <3>1. seen'[u][e][<<i, k>>] =
            IF u = v /\ e = p.epoch /\ i = p.id /\ k = p.slot /\ seen[u][e][<<i, k>>] = NoShare
              THEN p.signal ELSE seen[u][e][<<i, k>>]
      BY <1>2, Observed
    <3>2. QED
      BY <2>2, <3>1 DEF LoggedWasProved
  <2>5. d => \E q \in proofs : q.id = p.id /\ q.epoch = p.epoch /\ q.slot = p.slot /\ q.signal # p.signal
    <3>1. ASSUME d
          PROVE  seen[v][p.epoch][<<p.id, p.slot>>] # NoShare /\ seen[v][p.epoch][<<p.id, p.slot>>] # p.signal
      BY <2>1, <3>1
    <3>2. QED
      BY <2>2, <3>1 DEF LoggedWasProved
  <2>6. FlaggedIsGuilty'
    <3> SUFFICES ASSUME NEW u \in Node, NEW x \in accepted'[u], x.double
                 PROVE  \E q \in proofs : /\ q.id = x.proof.id /\ q.epoch = x.proof.epoch
                                         /\ q.slot = x.proof.slot /\ q.signal # x.proof.signal
      BY <2>2 DEF FlaggedIsGuilty
    <3>1. CASE x \in accepted[u]
      BY <3>1 DEF FlaggedIsGuilty
    <3>2. CASE x = [proof |-> p, double |-> d]
      BY <2>5, <3>2
    <3>3. QED
      BY <2>1, <2>2, <3>1, <3>2
  <2>7. QED
    BY <2>3, <2>4, <2>6
<1>3. CASE Tick \/ UNCHANGED vars \/ \E v \in Node, i \in Identity : Register(v, i)
  <2>1. UNCHANGED <<proofs, seen, accepted>>
    BY <1>3 DEF Tick, vars, Register
  <2>2. QED
    BY <2>1 DEF SlotsInLimit, AcceptedWasProved, LoggedWasProved, FlaggedIsGuilty
<1>4. QED
  BY <1>1, <1>2, <1>3 DEF Next, RefuseInbound

(* The log keeps the original of every slot, so no slot gets a second one. *)
LEMMA LogPreserved ==
  ASSUME IInv, [Next]_vars
  PROVE  OriginalsAreLogged' /\ SlotsAreUsedOnce'
<1> USE DEF IInv
<1>1. ASSUME NEW v \in Node, NEW p \in proofs, NEW s \in Signal, VerifyInbound(v, p, s)
      PROVE  OriginalsAreLogged' /\ SlotsAreUsedOnce'
  <2>1. PICK d \in BOOLEAN :
          /\ accepted'[v] = accepted[v] \cup {[proof |-> p, double |-> d]}
          /\ d = FALSE <=> seen[v][p.epoch][<<p.id, p.slot>>] \in {NoShare, p.signal}
    BY ZenonT(60), <1>1, Accepted
  <2>2. /\ UNCHANGED <<now, proofs>> /\ \A u \in Node \ {v} : accepted'[u] = accepted[u]
        /\ p.epoch \in Epoch /\ p.id \in Identity /\ p.slot \in Slot /\ p.signal \in Signal
    BY ZenonT(60), <1>1, Accepted
  <2>3. \A u \in Node : \A x \in accepted[u] :
          x.proof.epoch \in Epoch /\ x.proof.id \in Identity /\ x.proof.slot \in Slot /\ x.proof.signal \in Signal
    BY DEF TypeOK, Proof
  <2>4. OriginalsAreLogged'
    <3> SUFFICES ASSUME NEW u \in Node, NEW x \in accepted'[u], x.double = FALSE
                 PROVE  seen'[u][x.proof.epoch][<<x.proof.id, x.proof.slot>>] = x.proof.signal
      BY ZenonT(60) DEF OriginalsAreLogged
    <3>1. CASE x \in accepted[u]
      <4>1. seen[u][x.proof.epoch][<<x.proof.id, x.proof.slot>>] = x.proof.signal
        BY <3>1 DEF OriginalsAreLogged
      <4>2. x.proof.signal # NoShare
        BY <2>3, <3>1, RlnAssumption
      <4>3. \A e \in Epoch, i \in Identity, k \in Slot :
              seen[u][e][<<i, k>>] # NoShare => seen'[u][e][<<i, k>>] = seen[u][e][<<i, k>>]
        BY <1>1, Observed
      <4>4. QED
        BY <2>3, <3>1, <4>1, <4>2, <4>3
    <3>2. CASE u = v /\ x = [proof |-> p, double |-> d]
      <4>1. seen[v][p.epoch][<<p.id, p.slot>>] \in {NoShare, p.signal}
        BY <2>1, <3>2
      <4>2. QED
        BY <1>1, <2>2, <3>2, <4>1, Observed
    <3>3. QED
      BY <2>1, <2>2, <3>1, <3>2
  <2>5. ASSUME NEW x \in accepted[v], x.double = FALSE, d = FALSE, x.proof.id = p.id,
               x.proof.epoch = p.epoch, x.proof.slot = p.slot
        PROVE  x.proof.signal = p.signal
    <3>1. seen[v][p.epoch][<<p.id, p.slot>>] = x.proof.signal
      BY ZenonT(60), <2>2, <2>5 DEF OriginalsAreLogged
    <3>2. x.proof.signal # NoShare
      BY <2>3, RlnAssumption
    <3>3. QED
      BY <2>1, <2>5, <3>1, <3>2
  <2>6. SlotsAreUsedOnce'
    <3> SUFFICES ASSUME NEW u \in Node, NEW x \in accepted'[u], NEW y \in accepted'[u],
                        x.double = FALSE, y.double = FALSE, x.proof.id = y.proof.id,
                        x.proof.epoch = y.proof.epoch, x.proof.slot = y.proof.slot
                 PROVE  x.proof.signal = y.proof.signal
      BY ZenonT(60) DEF SlotsAreUsedOnce
    <3>1. CASE x \in accepted[u] /\ y \in accepted[u]
      BY <3>1 DEF SlotsAreUsedOnce
    <3>2. CASE u = v /\ x \in accepted[v] /\ y = [proof |-> p, double |-> d]
      BY ZenonT(60), <2>5, <3>2
    <3>3. CASE u = v /\ y \in accepted[v] /\ x = [proof |-> p, double |-> d]
      BY ZenonT(60), <2>5, <3>3
    <3>4. CASE x = y
      BY <3>4
    <3>5. QED
      BY <2>1, <2>2, <3>1, <3>2, <3>3, <3>4
  <2>7. QED
    BY <2>4, <2>6
<1>2. CASE \/ Tick \/ UNCHANGED vars
           \/ \E v \in Node, i \in Identity :
                \/ Register(v, i)
                \/ \E index \in 1..Capacity, s \in Signal, e \in Epoch, k \in Slot : Prove(v, i, index, s, e, k)
  <2>1. UNCHANGED <<seen, accepted>>
    BY <1>2 DEF Tick, vars, Register, Prove
  <2>2. QED
    BY <2>1 DEF OriginalsAreLogged, SlotsAreUsedOnce
<1>3. QED
  BY <1>1, <1>2 DEF Next, RefuseInbound

(* IInv holds in every reachable state. *)
THEOREM InductiveInvariant == Spec => []IInv
<1>1. Init => IInv
  <2> SUFFICES ASSUME Init PROVE IInv
    OBVIOUS
  <2>1. TypeOK
    <3>1. EmptyLog \in [Epoch -> [Identity \X Slot -> Signal \cup {NoShare}]]
      BY DEF EmptyLog
    <3>2. leaves \in [Node -> Seq(Identity)] /\ \A v \in Node : Len(leaves[v]) <= Capacity
      BY RlnAssumption DEF Init
    <3>3. now \in 0..MaxNow
      BY RlnAssumption DEF Init
    <3>4. QED
      BY ZenonT(60), <3>1, <3>2, <3>3 DEF Init, TypeOK
  <2>2. LoggedWasProved
    BY DEF Init, EmptyLog, LoggedWasProved
  <2>3. SlotsInLimit /\ AcceptedWasProved /\ OriginalsAreLogged /\ SlotsAreUsedOnce /\ FlaggedIsGuilty
    BY DEF Init, SlotsInLimit, AcceptedWasProved, OriginalsAreLogged, SlotsAreUsedOnce, FlaggedIsGuilty
  <2>4. QED
    BY <2>1, <2>2, <2>3 DEF IInv
<1>2. IInv /\ [Next]_vars => IInv'
  BY TypePreserved, ProofsPreserved, LogPreserved DEF IInv
<1>3. QED
  BY <1>1, <1>2, PTL DEF Spec

(* The originals of an identity in an epoch are the image of its slots. *)
LEMMA OriginalsFitSlots ==
  ASSUME IInv, NEW v \in Node, NEW i \in Identity, NEW e \in Epoch
  PROVE  Cardinality(Originals(v, i, e)) <= Limit[i]
<1> DEFINE S == 0..(Limit[i] - 1)
           Used(k, s) == \E x \in accepted[v] : /\ x.double = FALSE /\ x.proof.id = i /\ x.proof.epoch = e
                                               /\ x.proof.slot = k /\ x.proof.signal = s
           f == [k \in S |-> CHOOSE s : Used(k, s)]
           T == {f[k] : k \in S}
<1>1. IsFiniteSet(S) /\ Cardinality(S) = Limit[i]
  <2>1. Limit[i] \in Nat
    BY RlnAssumption
  <2>2. Limit[i] - 1 \in Int /\ 0 \in Int
    BY <2>1
  <2>3. /\ IsFiniteSet(S)
        /\ Cardinality(S) = IF 0 > Limit[i] - 1 THEN 0 ELSE (Limit[i] - 1) - 0 + 1
    BY <2>2, FS_Interval
  <2>4. QED
    BY <2>1, <2>3
<1>2. IsFiniteSet(T) /\ Cardinality(T) <= Cardinality(S)
  <2>1. f \in Surjection(S, T)
    BY ZenonT(60) DEF Surjection
  <2>2. QED
    BY <1>1, <2>1, FS_Surjection
<1>3. Originals(v, i, e) \subseteq T
  <2> SUFFICES ASSUME NEW s \in Originals(v, i, e) PROVE s \in T
    BY ZenonT(60)
  <2>1. PICK x \in accepted[v] : ~x.double /\ x.proof.id = i /\ x.proof.epoch = e /\ x.proof.signal = s
    BY DEF Originals
  <2>2. x.double = FALSE
    <3>1. x.double \in BOOLEAN
      BY DEF IInv, TypeOK
    <3>2. QED
      BY <2>1, <3>1
  <2>3. x.proof.slot \in S
    BY <2>1 DEF IInv, AcceptedWasProved, SlotsInLimit
  <2>4. Used(x.proof.slot, s)
    BY <2>1, <2>2
  <2>5. \A t : Used(x.proof.slot, t) => t = s
    BY <2>1, <2>2 DEF IInv, SlotsAreUsedOnce
  <2>6. f[x.proof.slot] = s
    <3> HIDE DEF Used
    <3>1. f[x.proof.slot] = CHOOSE t : Used(x.proof.slot, t)
      BY <2>3
    <3>2. QED
      BY <2>4, <2>5, <3>1
  <2>7. QED
    BY <2>3, <2>6
<1>4. QED
  <2>1. Cardinality(Originals(v, i, e)) <= Cardinality(T) /\ IsFiniteSet(Originals(v, i, e))
    BY ZenonT(60), <1>2, <1>3, FS_Subset
  <2>2. Cardinality(T) \in Nat /\ Cardinality(Originals(v, i, e)) \in Nat
    BY <1>2, <2>1, FS_CardinalityType
  <2>3. Limit[i] \in Nat
    BY RlnAssumption
  <2> HIDE DEF T, S
  <2>4. QED
    BY <1>1, <1>2, <2>1, <2>2, <2>3

(* Type correctness: no membership tree outgrows its capacity. *)
THEOREM TypeCorrect == Spec => []TypeOK
<1>1. IInv => TypeOK
  BY DEF IInv
<1>2. QED
  BY <1>1, InductiveInvariant, PTL

(* In any epoch a node accepts at most user_message_limit unflagged messages
   from an identity, for any number of identities, nodes and registrations. *)
THEOREM RateLimitHolds == Spec => []RateLimited
<1>1. IInv => RateLimited
  BY OriginalsFitSlots DEF RateLimited
<1>2. QED
  BY <1>1, InductiveInvariant, PTL

(* verify_inbound flags a message only if its sender used the slot twice. *)
THEOREM HonestMembersAreSafe == Spec => []FlaggedIsGuilty
<1>1. IInv => FlaggedIsGuilty
  BY DEF IInv
<1>2. QED
  BY <1>1, InductiveInvariant, PTL
=============================================================================
