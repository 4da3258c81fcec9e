--------------------------- MODULE LightPushProofs ---------------------------
(* Proofs about RateLimiter, Framing and LightPush, for any peers, capacity,  *)
(* period, frames and calls.  Of the limiter, one pair of inequalities per    *)
(* peer accounts for every unit of the bucket.  Of the frames, what was read  *)
(* of a prefix and what is left of it add up to the length at every byte.  Of *)
(* the service, the answer under way and the publication agree.               *)
EXTENDS LightPush, SequenceTheorems, WellFoundedInduction, TLAPS

(* The provers of the leaves that name none. An attempt with SMT ends when the
   translation takes five seconds, whatever its limit: on a busy machine a leaf
   needs a later attempt. *)
USE SMTT(15), Zenon, SMTT(30), ZenonT(30), SMTT(40), SMTT(50),
    ZenonT(60), SMTT(60), SMTT(70), SMTT(80), SMTT(90)

(* Nothing was allowed in a window opened after the bucket was last used; in
   any other, the requests allowed and what is left of the bucket account for
   no more than a full bucket and the refill, ... *)
Upper(p) ==
  IF p \in known /\ opened[p] <= last[p]
    THEN passed[p] * Period + tokens[p] <= Full + Capacity * (last[p] - opened[p])
    ELSE passed[p] = 0

(* ... and for no less than the refill, or a full bucket where the cap was
   reached. *)
Lower(p) ==
  p \in known /\ opened[p] <= last[p] =>
    \/ passed[p] * Period + tokens[p] >= Full
    \/ passed[p] * Period + tokens[p] >= Capacity * (last[p] - opened[p])

(* A peer is denied only with less than one token left. *)
DeniedIsDry == \A p \in denied : tokens[p] < Period

IInv ==
  /\ TypeOK
  /\ \A p \in Peer : Upper(p) /\ Lower(p)
  /\ DeniedIsDry

(* Capacity * Period is a positive number of units. *)
LEMMA FullIsNat == Full \in Nat
BY RateAssumption DEF Full

(* The refill leaves a bucket between what it held and its capacity. *)
LEMMA RefilledType ==
  ASSUME TypeOK, NEW p \in Peer
  PROVE  /\ Refilled(p) \in 0..Full
         /\ Capacity * (now - last[p]) \in Nat
<1>1. now \in Nat /\ last[p] \in Nat /\ last[p] <= now /\ tokens[p] \in 0..Full
  BY RateAssumption, FullIsNat DEF TypeOK
<1>2. now - last[p] \in Nat
  BY <1>1
<1>3. Capacity * (now - last[p]) \in Nat
  BY <1>2, RateAssumption
<1>4. QED
  BY <1>1, <1>3, FullIsNat DEF Refilled

(* Type correctness of every step. *)
LEMMA TypePreserved == TypeOK /\ [Next]_vars => TypeOK'
<1> SUFFICES ASSUME TypeOK, [Next]_vars PROVE TypeOK'
  OBVIOUS
<1> USE RateAssumption, FullIsNat
<1>1. CASE Tick
  BY <1>1 DEF TypeOK, Tick
<1>2. ASSUME NEW p \in Peer, Allow(p) PROVE TypeOK'
  <2>1. Refilled(p) \in 0..Full
    BY RefilledType
  <2>2. tokens' \in [Peer -> 0..Full]
    BY <1>2, <2>1 DEF TypeOK, Allow
  <2>3. passed' \in [Peer -> Nat] /\ last' \in [Peer -> 0..now']
    BY <1>2 DEF TypeOK, Allow
  <2>4. QED
    BY <1>2, <2>2, <2>3 DEF TypeOK, Allow
<1>3. ASSUME NEW p \in Peer, Open(p) PROVE TypeOK'
  BY <1>3 DEF TypeOK, Open
<1>4. CASE UNCHANGED vars
  BY <1>4 DEF TypeOK, vars
<1>5. QED
  BY <1>1, <1>2, <1>3, <1>4 DEF Next

(* A request keeps the account of its peer balanced. *)
LEMMA AllowBalances ==
  ASSUME IInv, NEW p \in Peer, Allow(p)
  PROVE  Upper(p)' /\ Lower(p)'
<1> USE RateAssumption, FullIsNat
<1>t. TypeOK /\ TypeOK' /\ Upper(p) /\ Lower(p)
  BY TypePreserved DEF IInv, Next
<1> DEFINE r == Refilled(p)
           o == opened[p]
           n == now
           l == last[p]
           k == passed[p]
<1>1. /\ r \in Int /\ o \in Int /\ n \in Int /\ l \in Int /\ k \in Nat
      /\ o <= n /\ l <= n /\ r <= Full /\ tokens[p] \in Int /\ tokens[p] >= 0 /\ r >= 0
  BY <1>t, RefilledType DEF TypeOK
<1>2. known' = known \cup {p} /\ last'[p] = n /\ opened'[p] = o
  BY <1>t DEF Allow, TypeOK
<1>3. passed'[p] * Period + tokens'[p] = k * Period + r
  <2>1. CASE r >= Period
    <3>1. passed'[p] = k + 1 /\ tokens'[p] = r - Period
      BY <1>t, <2>1 DEF Allow, TypeOK
    <3>2. QED
      BY <1>1, <3>1
  <2>2. CASE ~(r >= Period)
    <3>1. passed'[p] = k /\ tokens'[p] = r
      BY <1>t, <2>2 DEF Allow, TypeOK
    <3>2. QED
      BY <3>1
  <2>3. QED
    BY <2>1, <2>2
<1>4. Capacity * (n - o) \in Nat
  BY <1>1
<1>5. k * Period + r <= Full + Capacity * (n - o)
  <2>1. CASE p \in known /\ o <= l
    <3>1. k * Period + tokens[p] <= Full + Capacity * (l - o)
      BY <1>t, <2>1 DEF Upper
    <3>2. r <= tokens[p] + Capacity * (n - l)
      BY <1>1, <2>1 DEF Refilled
    <3>3. Capacity * (l - o) + Capacity * (n - l) = Capacity * (n - o)
      BY <1>1
    <3>4. k * Period \in Int /\ Capacity * (l - o) \in Int /\ Capacity * (n - l) \in Int
      BY <1>1
    <3>5. QED
      BY <1>1, <1>4, <3>1, <3>2, <3>3, <3>4
  <2>2. CASE ~(p \in known /\ o <= l)
    <3>1. k = 0
      BY <1>t, <2>2 DEF Upper
    <3>2. QED
      BY <1>1, <1>4, <3>1
  <2>3. QED
    BY <2>1, <2>2
<1>6. k * Period + r >= Full \/ k * Period + r >= Capacity * (n - o)
  <2>k. k * Period \in Nat
    BY <1>1
  <2>1. CASE r = Full
    BY <1>1, <2>1, <2>k
  <2>2. CASE r # Full
    <3>1. p \in known /\ r = tokens[p] + Capacity * (n - l)
      BY <1>1, <2>2 DEF Refilled
    <3>2. Capacity * (n - l) \in Nat /\ Capacity * (l - o) \in Int
      BY <1>1
    <3>3. CASE o <= l
      <4>1. \/ k * Period + tokens[p] >= Full
            \/ k * Period + tokens[p] >= Capacity * (l - o)
        BY <1>t, <3>1, <3>3 DEF Lower
      <4>2. Capacity * (l - o) + Capacity * (n - l) = Capacity * (n - o)
        BY <1>1
      <4>3. QED
        BY <1>1, <1>4, <2>k, <3>1, <3>2, <4>1, <4>2
    <3>4. CASE ~(o <= l)
      <4>1. n - l >= n - o /\ n - o \in Nat /\ n - l \in Nat
        BY <1>1, <3>4
      <4>2. Capacity * (n - l) >= Capacity * (n - o)
        BY <4>1
      <4>3. QED
        BY <1>1, <1>4, <2>k, <3>1, <3>2, <4>2
    <3>5. QED
      BY <3>3, <3>4
  <2>3. QED
    BY <2>1, <2>2
<1>7. p \in known' /\ opened'[p] <= last'[p]
  BY <1>1, <1>2
<1>8. QED
  BY <1>2, <1>3, <1>5, <1>6, <1>7 DEF Upper, Lower

(* The inductive step. *)
LEMMA InvPreserved == IInv /\ [Next]_vars => IInv'
<1> SUFFICES ASSUME IInv, [Next]_vars PROVE IInv'
  OBVIOUS
<1> USE RateAssumption, FullIsNat
<1>t. TypeOK /\ TypeOK'
  BY TypePreserved DEF IInv
<1>1. CASE Tick
  <2>1. \A p \in Peer : (Upper(p) <=> Upper(p)') /\ (Lower(p) <=> Lower(p)')
    BY <1>1 DEF Tick, Upper, Lower
  <2>2. QED
    BY <1>1, <1>t, <2>1 DEF IInv, DeniedIsDry, Tick
<1>2. ASSUME NEW p \in Peer, Allow(p) PROVE IInv'
  <2>1. Upper(p)' /\ Lower(p)'
    BY <1>2, AllowBalances
  <2>2. ASSUME NEW q \in Peer, q # p PROVE Upper(q)' /\ Lower(q)'
    <3>1. /\ q \in known' <=> q \in known
          /\ tokens'[q] = tokens[q] /\ last'[q] = last[q]
          /\ opened'[q] = opened[q] /\ passed'[q] = passed[q]
      BY <1>2, <1>t, <2>2 DEF Allow, TypeOK
    <3>2. QED
      BY <3>1 DEF IInv, Upper, Lower
  <2>3. DeniedIsDry'
    <3>1. \A q \in denied' : q # p => q \in denied /\ tokens'[q] = tokens[q]
      BY <1>2, <1>t DEF Allow, TypeOK
    <3>2. p \in denied' => tokens'[p] < Period
      BY <1>2, <1>t, RefilledType DEF Allow, TypeOK
    <3>3. QED
      BY <3>1, <3>2 DEF IInv, DeniedIsDry
  <2>4. QED
    BY <1>t, <2>1, <2>2, <2>3 DEF IInv
<1>3. ASSUME NEW p \in Peer, Open(p) PROVE IInv'
  <2>1. ASSUME NEW q \in Peer, q # p PROVE Upper(q)' /\ Lower(q)'
    <3>1. /\ known' = known /\ tokens' = tokens /\ last' = last
          /\ opened'[q] = opened[q] /\ passed'[q] = passed[q]
      BY <1>3, <1>t, <2>1 DEF Open, TypeOK
    <3>2. QED
      BY <3>1 DEF IInv, Upper, Lower
  <2>2. Upper(p)' /\ Lower(p)'
    <3>1. /\ known' = known /\ tokens' = tokens /\ last' = last
          /\ opened'[p] = now /\ passed'[p] = 0
      BY <1>3, <1>t DEF Open, TypeOK
    <3>2. tokens[p] \in 0..Full /\ now \in Int /\ last[p] \in Int /\ last[p] <= now
      BY <1>t DEF TypeOK
    <3>3. now <= last[p] => Capacity * (last[p] - now) = 0
      BY <3>2
    <3>4. QED
      BY <3>1, <3>2, <3>3 DEF Upper, Lower
  <2>3. DeniedIsDry'
    BY <1>3 DEF IInv, DeniedIsDry, Open
  <2>4. QED
    BY <1>t, <2>1, <2>2, <2>3 DEF IInv
<1>4. CASE UNCHANGED vars
  BY <1>4, <1>t DEF IInv, Upper, Lower, DeniedIsDry, vars
<1>5. QED
  BY <1>1, <1>2, <1>3, <1>4 DEF Next

(* The account of every bucket is balanced in every reachable state. *)
THEOREM InductiveInvariant == Spec => []IInv
<1>1. Init => IInv
  BY RateAssumption, FullIsNat DEF Init, IInv, TypeOK, Upper, Lower, DeniedIsDry
<1>2. QED
  BY <1>1, InvPreserved, PTL DEF Spec

(* RateLimiter::allow bounds the requests of every peer in every window. *)
THEOREM WindowsAreBounded == Spec => []WindowBounded
<1>1. IInv => WindowBounded
  <2> SUFFICES ASSUME IInv, NEW p \in Peer
               PROVE  passed[p] * Period <= Full + Capacity * (now - opened[p])
    BY ZenonT(60) DEF WindowBounded
  <2> USE RateAssumption, FullIsNat
  <2>1. /\ now \in Nat /\ last[p] \in 0..now /\ opened[p] \in 0..now
        /\ tokens[p] \in 0..Full /\ passed[p] \in Nat
    BY DEF IInv, TypeOK
  <2>2. Capacity * (now - opened[p]) \in Nat /\ passed[p] * Period \in Nat
    BY <2>1
  <2>3. CASE p \in known /\ opened[p] <= last[p]
    <3>1. passed[p] * Period + tokens[p] <= Full + Capacity * (last[p] - opened[p])
      BY <2>3 DEF IInv, Upper
    <3>2. Capacity * (last[p] - opened[p]) <= Capacity * (now - opened[p])
      BY <2>1, <2>3
    <3>3. Capacity * (last[p] - opened[p]) \in Int
      BY <2>1
    <3>4. QED
      BY <2>1, <2>2, <3>1, <3>2, <3>3
  <2>4. CASE ~(p \in known /\ opened[p] <= last[p])
    <3>1. passed[p] = 0
      BY <2>4 DEF IInv, Upper
    <3>2. QED
      BY <2>2, <3>1
  <2>5. QED
    BY <2>3, <2>4
<1>2. QED
  BY <1>1, InductiveInvariant, PTL

(* RateLimiter::allow turns away only a peer that had its full share. *)
THEOREM OnlyBusyPeersAreDenied == Spec => []DeniedOnlyIfBusy
<1>1. IInv => DeniedOnlyIfBusy
  <2> SUFFICES ASSUME IInv, NEW p \in denied, last[p] - opened[p] >= Period
               PROVE  passed[p] >= Capacity
    BY DEF DeniedOnlyIfBusy
  <2> USE RateAssumption, FullIsNat
  <2>1. /\ p \in Peer /\ p \in known /\ last[p] \in Int /\ opened[p] \in Int
        /\ tokens[p] \in Int /\ passed[p] \in Nat
    BY DEF IInv, TypeOK
  <2>2. tokens[p] < Period
    BY DEF IInv, DeniedIsDry
  <2>3. Capacity * (last[p] - opened[p]) >= Full
    BY <2>1 DEF Full
  <2>4. passed[p] * Period + tokens[p] >= Full
    <3>1. \/ passed[p] * Period + tokens[p] >= Full
          \/ passed[p] * Period + tokens[p] >= Capacity * (last[p] - opened[p])
      BY <2>1 DEF IInv, Lower
    <3>2. passed[p] * Period \in Int /\ Capacity * (last[p] - opened[p]) \in Int
      BY <2>1
    <3>3. QED
      BY <2>1, <2>3, <3>1, <3>2
  <2>5. (passed[p] + 1) * Period > Capacity * Period
    BY <2>1, <2>2, <2>4 DEF Full
  <2>6. QED
    BY <2>1, <2>5
<1>2. QED
  BY <1>1, InductiveInvariant, PTL

(* Buckets never hold more than their capacity, nor less than nothing. *)
THEOREM TypeCorrect == Spec => []TypeOK
<1>1. IInv => TypeOK
  BY DEF IInv
<1>2. QED
  BY <1>1, InductiveInvariant, PTL

(* The light-push service asks the limiter once for every request it reads and
   touches its buckets in no other way. *)
THEOREM LightPushUsesLimiter == PushSpec => Spec
<1>1. PushInit => Init
  BY DEF PushInit
<1>2. [PushNext]_allVars => [Next]_vars
  <2> SUFFICES ASSUME [PushNext]_allVars PROVE [Next]_vars
    OBVIOUS
  <2>1. CASE Tick \/ \E p \in Peer : Open(p)
    BY <2>1 DEF Next
  <2>2. ASSUME NEW c \in Call, Allow(PeerOf[c]) PROVE Next
    BY <2>2, PushAssumption DEF Next
  <2>3. ASSUME NEW c \in Call, Limited(c) \/ MissingMessage(c) PROVE Next
    BY <2>2, <2>3 DEF Limited, MissingMessage, Served
  <2>4. ASSUME NEW c \in Call, NEW m \in Push, Published(c, m) \/ PublishFails(c, m) PROVE Next
    BY <2>2, <2>4 DEF Published, PublishFails, Served
  <2>5. ASSUME NEW c \in Call, Fails(c) \/ \E m \in Push : LightPush(c, m) PROVE UNCHANGED vars
    BY <2>5 DEF Fails, LightPush
  <2>6. ASSUME NEW c \in Call, NEW k \in 0..MaxStream, ReadRequest(c, k) \/ ReadResponse(c, k)
        PROVE  UNCHANGED vars
    BY <2>6 DEF ReadRequest, ReadResponse
  <2>7. CASE UNCHANGED allVars
    BY <2>7 DEF allVars
  <2>8. ASSUME NEW c \in Call,
               \/ Limited(c) \/ MissingMessage(c) \/ Fails(c)
               \/ \E k \in 0..MaxStream : ReadRequest(c, k) \/ ReadResponse(c, k)
               \/ \E m \in Push : LightPush(c, m) \/ Published(c, m) \/ PublishFails(c, m)
        PROVE  Next \/ UNCHANGED vars
    BY <2>3, <2>4, <2>5, <2>6, <2>8, ZenonT(60)
  <2>9. QED
    BY <2>1, <2>7, <2>8, ZenonT(60) DEF PushNext
<1>3. QED
  BY <1>1, <1>2, PTL DEF PushSpec, Spec

(* The light-push requests served to a peer in any window are bounded, ... *)
THEOREM PushesAreBounded == PushSpec => []WindowBounded
BY LightPushUsesLimiter, WindowsAreBounded, PTL

(* ... and a peer that keeps to the rate is never answered 429. *)
THEOREM PushersInRateAreServed == PushSpec => []DeniedOnlyIfBusy
BY LightPushUsesLimiter, OnlyBusyPeersAreDenied, PTL

-----------------------------------------------------------------------------
(* A set of naturals has a least element: what stands for induction here. *)
LEMMA Least ==
  ASSUME NEW T \in SUBSET Nat, T # {}
  PROVE  \E n \in T : \A m \in T : n <= m
<1> DEFINE R == OpToRel(<, Nat)
<1>1. IsWellFoundedOn(R, Nat)
  BY ZenonT(60), NatLessThanWellFounded
<1>2. PICK n \in T : \A m \in T : <<m, n>> \notin R
  <2> HIDE DEF R
  <2> QED
    BY ZenonT(60), <1>1, WFMin
<1>3. \A m \in T : ~(m < n)
  BY ZenonT(60), <1>2 DEF OpToRel
<1>4. QED
  BY <1>3

(* g is defined up to n by its first value and the step F. *)
Steps(V, a, F, g, n) ==
  g \in [0..n -> V] /\ g[0] = a /\ \A i \in 0..(n - 1) : g[i + 1] = F[i][g[i]]

(* Such functions exist for every n, ... *)
LEMMA StepsExist ==
  ASSUME NEW V, NEW a \in V, NEW F \in [Nat -> [V -> V]], NEW n \in Nat
  PROVE  \E g \in [0..n -> V] : Steps(V, a, F, g, n)
<1> DEFINE T == {m \in Nat : ~\E g \in [0..m -> V] : Steps(V, a, F, g, m)}
<1> SUFFICES ASSUME T # {} PROVE FALSE
  OBVIOUS
<1>1. PICK m \in T : \A l \in T : m <= l
  <2>1. T \in SUBSET Nat
    OBVIOUS
  <2> HIDE DEF T
  <2>2. QED
    BY <2>1, Least
<1>2. m \in Nat /\ ~\E g \in [0..m -> V] : Steps(V, a, F, g, m)
  OBVIOUS
<1>3. CASE m = 0
  <2>1. PICK g : g = [i \in 0..m |-> a]
    BY ZenonT(60)
  <2>2. g \in [0..m -> V] /\ g[0] = a
    BY <1>2, <2>1
  <2>3. Steps(V, a, F, g, m)
    BY <1>3, <2>2 DEF Steps
  <2>4. QED
    BY <1>2, <2>2, <2>3
<1>4. CASE m # 0
  <2>1. m - 1 \in Nat /\ ~(m <= m - 1)
    BY <1>2, <1>4
  <2>2. PICK h \in [0..(m - 1) -> V] : Steps(V, a, F, h, m - 1)
    BY <1>1, <2>1
  <2>3. PICK g : g = [i \in 0..m |-> IF i = m THEN F[m - 1][h[m - 1]] ELSE h[i]]
    BY ZenonT(60)
  <2>4. h[m - 1] \in V /\ F[m - 1][h[m - 1]] \in V
    BY <2>1
  <2>5. \A i \in 0..m : i # m => i \in 0..(m - 1)
    BY <2>1
  <2>6. g \in [0..m -> V] /\ g[m] = F[m - 1][h[m - 1]] /\ \A i \in 0..(m - 1) : g[i] = h[i]
    BY <2>1, <2>3, <2>4, <2>5
  <2>7. g[0] = a
    BY <2>1, <2>2, <2>6 DEF Steps
  <2>8. ASSUME NEW i \in 0..(m - 1) PROVE g[i + 1] = F[i][g[i]]
    <3>1. CASE i = m - 1
      BY <2>1, <2>6, <3>1
    <3>2. CASE i # m - 1
      <4>1. i \in 0..(m - 1 - 1) /\ i + 1 \in 0..(m - 1)
        BY <2>1, <3>2
      <4>2. QED
        BY <2>2, <2>6, <4>1 DEF Steps
    <3>3. QED
      BY <3>1, <3>2
  <2>9. QED
    BY ZenonT(60), <1>2, <2>6, <2>7, <2>8 DEF Steps
<1>5. QED
  BY <1>3, <1>4

(* ... agree with each other, ... *)
LEMMA StepsAgree ==
  ASSUME NEW V, NEW a, NEW F, NEW n \in Nat, NEW m \in Nat, NEW g, NEW h,
         Steps(V, a, F, g, n), Steps(V, a, F, h, m), NEW k \in Nat, k <= n, k <= m
  PROVE  g[k] = h[k]
<1> DEFINE T == {i \in Nat : i <= n /\ i <= m /\ g[i] # h[i]}
<1> SUFFICES ASSUME T # {} PROVE FALSE
  OBVIOUS
<1>1. PICK i \in T : \A j \in T : i <= j
  <2>1. T \in SUBSET Nat
    OBVIOUS
  <2> HIDE DEF T
  <2>2. QED
    BY <2>1, Least
<1>2. i # 0
  BY <1>1 DEF Steps
<1>3. i - 1 \in Nat /\ i - 1 \notin T /\ (i - 1) + 1 = i /\ i - 1 \in 0..(n - 1) /\ i - 1 \in 0..(m - 1)
  BY <1>1, <1>2
<1>4. g[i - 1] = h[i - 1]
  BY <1>3
<1>5. g[i] = F[i - 1][g[i - 1]] /\ h[i] = F[i - 1][h[i - 1]]
  BY <1>3 DEF Steps
<1>6. QED
  BY <1>4, <1>5

(* ... and make one function on the naturals. *)
IsStep(V, a, F) == a \in V /\ F \in [Nat -> [V -> V]]
IsRun(V, a, F, f) == f \in [Nat -> V] /\ f[0] = a /\ \A n \in Nat : f[n + 1] = F[n][f[n]]

LEMMA PrimitiveRecursion ==
  ASSUME NEW V, NEW a, NEW F, IsStep(V, a, F)
  PROVE  \E f : IsRun(V, a, F, f)
<1> USE DEF IsStep, IsRun
<1> DEFINE G(n) == CHOOSE g \in [0..n -> V] : Steps(V, a, F, g, n)
<1>1. \A n \in Nat : G(n) \in [0..n -> V] /\ Steps(V, a, F, G(n), n)
  BY StepsExist
<1> HIDE DEF G
<1>2. PICK f : f = [n \in Nat |-> G(n)[n]]
  BY ZenonT(60)
<1>3. f \in [Nat -> V]
  <2>1. \A n \in Nat : n \in 0..n
    OBVIOUS
  <2>2. \A n \in Nat : G(n)[n] \in V
    BY <1>1, <2>1
  <2>3. QED
    BY <1>2, <2>2
<1>4. f[0] = a
  BY <1>1, <1>2 DEF Steps
<1>5. ASSUME NEW n \in Nat PROVE f[n + 1] = F[n][f[n]]
  <2>1. n + 1 \in Nat /\ n \in 0..((n + 1) - 1) /\ n <= n /\ n <= n + 1
    OBVIOUS
  <2>2. G(n + 1)[n + 1] = F[n][G(n + 1)[n]]
    BY <1>1, <2>1 DEF Steps
  <2>3. G(n + 1)[n] = G(n)[n]
    BY <1>1, <2>1, StepsAgree
  <2>4. QED
    BY <1>2, <2>1, <2>2, <2>3
<1>6. QED
  BY <1>3, <1>4, <1>5

(* What Weight computes. *)
LEMMA WeightIs ==
  /\ Weight \in [Nat -> Nat \ {0}] /\ Weight[0] = 1
  /\ \A n \in Nat : Weight[n + 1] = Group * Weight[n]
<1> DEFINE F == [n \in Nat |-> [x \in Nat \ {0} |-> Group * x]]
<1>1. F \in [Nat -> [Nat \ {0} -> Nat \ {0}]] /\ \A n \in Nat, x \in Nat \ {0} : F[n][x] = Group * x
  <2>1. \A x \in Nat \ {0} : Group * x \in Nat \ {0}
    BY FramingAssumption
  <2>2. QED
    BY <2>1
<1> HIDE DEF F
<1>2. PICK f \in [Nat -> Nat \ {0}] : f[0] = 1 /\ \A n \in Nat : f[n + 1] = F[n][f[n]]
  <2> DEFINE V == Nat \ {0}
  <2>1. IsStep(V, 1, F)
    BY <1>1 DEF IsStep
  <2> HIDE DEF V
  <2>2. \E f : IsRun(V, 1, F, f)
    BY <2>1, PrimitiveRecursion
  <2>3. QED
    BY <2>2 DEF V, IsRun
<1>3. f = [i \in Nat |-> IF i = 0 THEN 1 ELSE Group * f[i - 1]]
  <2>1. ASSUME NEW i \in Nat PROVE f[i] = IF i = 0 THEN 1 ELSE Group * f[i - 1]
    <3>1. CASE i # 0
      <4>1. i - 1 \in Nat /\ (i - 1) + 1 = i
        BY <3>1
      <4>2. f[i] = F[i - 1][f[i - 1]]
        BY <1>2, <4>1
      <4>3. QED
        BY ZenonT(60), <1>1, <3>1, <4>1, <4>2
    <3>2. QED
      BY <1>2, <3>1
  <2>2. QED
    BY <2>1
<1>4. Weight = [i \in Nat |-> IF i = 0 THEN 1 ELSE Group * Weight[i - 1]]
  BY <1>3, ZenonT(60) DEF Weight
<1>5. Weight[0] = 1 /\ \A n \in Nat : Weight[n + 1] = Group * Weight[n]
  <2>1. \A n \in Nat : n + 1 \in Nat /\ n + 1 # 0 /\ (n + 1) - 1 = n
    OBVIOUS
  <2> HIDE DEF Weight
  <2>2. QED
    BY <1>4, <2>1
<1>6. Weight \in [Nat -> Nat \ {0}]
  <2> DEFINE T == {i \in Nat : Weight[i] \notin Nat \ {0}}
  <2> SUFFICES ASSUME T # {} PROVE FALSE
    BY ZenonT(60), <1>4
  <2>1. PICK i \in T : \A j \in T : i <= j
    <3>1. T \in SUBSET Nat
      OBVIOUS
    <3> HIDE DEF T
    <3>2. QED
      BY <3>1, Least
  <2>2. i # 0
    BY <1>5, <2>1
  <2>3. i - 1 \in Nat /\ i - 1 \notin T /\ (i - 1) + 1 = i
    BY <2>1, <2>2
  <2>4. Weight[i - 1] \in Nat \ {0} /\ Weight[i] = Group * Weight[i - 1]
    BY <1>5, <2>3
  <2>5. QED
    BY <2>4, FramingAssumption
<1>7. QED
  BY <1>5, <1>6
(* Division with remainder. *)
LEMMA DivMod ==
  ASSUME NEW v \in Nat
  PROVE  /\ v \div Group \in Nat /\ v % Group \in 0..(Group - 1)
         /\ v = Group * (v \div Group) + (v % Group)
         /\ v < Group => v \div Group = 0 /\ v % Group = v
         /\ v >= Group => v \div Group # 0 /\ v \div Group < v
<1>0. Group \in Nat /\ Group > 1
  BY FramingAssumption
<1>1. v \div Group \in Nat /\ v % Group \in 0..(Group - 1) /\ v = Group * (v \div Group) + (v % Group)
  BY <1>0
<1>2. PICK q, r : q = v \div Group /\ r = v % Group
  OBVIOUS
<1>3. q \in Nat /\ r \in 0..(Group - 1) /\ v = Group * q + r
  BY <1>1, <1>2
<1>4. q # 0 => Group * q >= Group /\ Group * q > q
  BY <1>0, <1>3
<1>5. v < Group => q = 0 /\ r = v
  BY <1>0, <1>3, <1>4
<1>6. v >= Group => q # 0 /\ q < v
  BY <1>0, <1>3, <1>4
<1>7. QED
  BY <1>1, <1>2, <1>5, <1>6
(* What WriteUvarint computes. *)
LEMMA WriteIs ==
  /\ WriteUvarint \in [Nat -> Seq(Nat)]
  /\ \A v \in Nat :
       WriteUvarint[v] = IF v < Group THEN <<v>>
                         ELSE <<Group + (v % Group)>> \o WriteUvarint[v \div Group]
<1> DEFINE V == [Nat -> Seq(Nat)]
           E(n, h) == IF n < Group THEN <<n>> ELSE <<Group + (n % Group)>> \o h[n \div Group]
           F == [n \in Nat |-> [h \in V |-> [h EXCEPT ![n] = E(n, h)]]]
<1>0. Group \in Nat /\ Group > 1
  BY FramingAssumption
<1>1. \A n \in Nat, h \in V : E(n, h) \in Seq(Nat)
  <2> SUFFICES ASSUME NEW n \in Nat, NEW h \in V PROVE E(n, h) \in Seq(Nat)
    BY ZenonT(60)
  <2>1. n \div Group \in Nat /\ Group + (n % Group) \in Nat
    BY <1>0, DivMod
  <2>2. h[n \div Group] \in Seq(Nat)
    BY <2>1
  <2>3. QED
    BY <2>1, <2>2
<1>2. F \in [Nat -> [V -> V]] /\ \A n \in Nat, h \in V : F[n][h] = [h EXCEPT ![n] = E(n, h)]
  <2> HIDE DEF E
  <2>1. \A n \in Nat, h \in V : [h EXCEPT ![n] = E(n, h)] \in V
    BY <1>1
  <2> HIDE DEF V
  <2>2. QED
    BY <2>1
<1>3. PICK a : a = [n \in Nat |-> <<>>]
  BY ZenonT(60)
<1>4. a \in V
  BY <1>3
<1>5. PICK f \in [Nat -> V] : f[0] = a /\ \A n \in Nat : f[n + 1] = F[n][f[n]]
  <2> HIDE DEF F, V
  <2>1. IsStep(V, a, F)
    BY <1>2, <1>4 DEF IsStep
  <2>2. QED
    BY <2>1, PrimitiveRecursion DEF IsRun
<1>6. \A n \in Nat : f[n] \in V /\ f[n + 1] = [f[n] EXCEPT ![n] = E(n, f[n])]
  <2> HIDE DEF F, V, E
  <2>1. QED
    BY <1>2, <1>5
<1> HIDE DEF F
<1>7. ASSUME NEW n \in Nat, NEW i \in Nat, i < n PROVE f[n][i] = f[i + 1][i]
  <2> DEFINE T == {m \in Nat : i < m /\ f[m][i] # f[i + 1][i]}
  <2> SUFFICES ASSUME T # {} PROVE FALSE
    BY ZenonT(60), <1>7
  <2>1. PICK m \in T : \A l \in T : m <= l
    <3>1. T \in SUBSET Nat
      OBVIOUS
    <3> HIDE DEF T
    <3>2. QED
      BY ZenonT(60), <3>1, Least
  <2>2. m \in Nat /\ i < m /\ m # i + 1
    BY ZenonT(60), <2>1
  <2>3. m - 1 \in Nat /\ (m - 1) + 1 = m /\ i < m - 1 /\ m - 1 \notin T
    BY <2>1, <2>2
  <2>4. f[m] = [f[m - 1] EXCEPT ![m - 1] = E(m - 1, f[m - 1])] /\ f[m - 1] \in V
    <3> HIDE DEF E, V
    <3>1. QED
      BY ZenonT(60), <1>6, <2>3
  <2>5. f[m][i] = f[m - 1][i]
    <3> HIDE DEF E
    <3>1. QED
      BY <2>3, <2>4
  <2>6. QED
    BY <2>1, <2>3, <2>5
<1>8. PICK g : g = [n \in Nat |-> f[n + 1][n]]
  BY ZenonT(60)
<1>9. ASSUME NEW n \in Nat PROVE g[n] = E(n, g)
  <2>1. f[n + 1] = [f[n] EXCEPT ![n] = E(n, f[n])] /\ f[n] \in V
    <3> HIDE DEF E, V
    <3>1. QED
      BY <1>6
  <2>2. g[n] = E(n, f[n])
    <3> HIDE DEF E
    <3>1. QED
      BY <1>8, <2>1
  <2>3. n >= Group => n \div Group \in Nat /\ n \div Group < n
    BY DivMod
  <2>4. n >= Group => f[n][n \div Group] = g[n \div Group]
    BY ZenonT(60), <1>7, <1>8, <2>3
  <2>5. E(n, f[n]) = E(n, g)
    BY <1>0, <2>4
  <2>6. QED
    BY <2>2, <2>5
<1>10. g = [n \in Nat |-> E(n, g)]
  <2> HIDE DEF E
  <2>1. QED
    BY ZenonT(60), <1>8, <1>9
<1>11. WriteUvarint = [n \in Nat |-> E(n, WriteUvarint)]
  BY <1>10, ZenonT(60) DEF WriteUvarint
<1> DEFINE T == {n \in Nat : WriteUvarint[n] \notin Seq(Nat)}
<1>12. T = {}
  <2> SUFFICES ASSUME T # {} PROVE FALSE
    BY ZenonT(60)
  <2>1. PICK m \in T : \A l \in T : m <= l
    <3>1. T \in SUBSET Nat
      OBVIOUS
    <3> HIDE DEF T
    <3>2. QED
      BY ZenonT(60), <3>1, Least
  <2>2. WriteUvarint[m] = E(m, WriteUvarint)
    <3> HIDE DEF E, WriteUvarint
    <3>1. QED
      BY ZenonT(60), <1>11
  <2>3. m \in Nat /\ Group + (m % Group) \in Nat
    BY <1>0, DivMod
  <2>4. m >= Group => m \div Group \in Nat /\ m \div Group < m
    BY <2>3, DivMod
  <2>5. m >= Group => m \div Group \notin T
    <3> HIDE DEF T
    <3>1. \A l \in Nat : l < m => l \notin T
      BY <2>1, <2>3
    <3>2. QED
      BY <2>4, <3>1
  <2>6. m >= Group => WriteUvarint[m \div Group] \in Seq(Nat)
    BY ZenonT(60), <2>4, <2>5
  <2>7. WriteUvarint[m] \in Seq(Nat)
    BY <1>0, <2>2, <2>3, <2>6
  <2>8. QED
    BY ZenonT(60), <2>7
<1>13. QED
  <2>1. \A n \in Nat : WriteUvarint[n] = E(n, WriteUvarint)
    <3> HIDE DEF E, WriteUvarint
    <3>1. QED
      BY ZenonT(60), <1>11
  <2>2. WriteUvarint \in [Nat -> Seq(Nat)]
    <3> HIDE DEF E, WriteUvarint
    <3>1. QED
      BY ZenonT(60), <1>11, <1>12
  <2>3. QED
    BY ZenonT(60), <2>1, <2>2
(* u is what is left of v before each byte of the prefix w, and after it. *)
Quotients(v, w, u) ==
  /\ w \in Seq(Nat) /\ Len(w) # 0 /\ u \in [0..Len(w) -> Nat]
  /\ u[0] = v /\ u[Len(w)] = 0
  /\ \A i \in 1..Len(w) :
       /\ u[i - 1] = Group * u[i] + (w[i] % Group)
       /\ IF i = Len(w) THEN w[i] < Group ELSE w[i] >= Group /\ u[i] # 0

(* write_uvarint writes a prefix with such quotients. *)
LEMMA PrefixIs ==
  ASSUME NEW v \in Nat
  PROVE  \E u : Quotients(v, WriteUvarint[v], u)
<1> DEFINE T == {x \in Nat : ~\E u : Quotients(x, WriteUvarint[x], u)}
<1>0. Group \in Nat /\ Group > 1
  BY FramingAssumption
<1> SUFFICES ASSUME T # {} PROVE FALSE
  OBVIOUS
<1>1. PICK x \in T : \A y \in T : x <= y
  <2>1. T \in SUBSET Nat
    OBVIOUS
  <2> HIDE DEF T
  <2>2. QED
    BY <2>1, Least
<1>2. x \in Nat /\ ~\E u : Quotients(x, WriteUvarint[x], u)
  OBVIOUS
<1> DEFINE w == WriteUvarint[x]
<1>3. CASE x < Group
  <2>1. w = <<x>> /\ Len(w) = 1 /\ w[1] = x /\ w \in Seq(Nat)
    <3> HIDE DEF T
    <3>1. w = <<x>>
      BY ZenonT(60), <1>2, <1>3, WriteIs
    <3> HIDE DEF w
    <3>2. QED
      BY <1>2, <3>1
  <2>2. PICK u : u = [i \in 0..1 |-> IF i = 0 THEN x ELSE 0]
    BY ZenonT(60)
  <2>3. u \in [0..1 -> Nat] /\ u[0] = x /\ u[1] = 0
    BY <1>2, <2>2
  <2>4. x = Group * 0 + (x % Group)
    BY <1>0, <1>2, <1>3, DivMod
  <2>5. Quotients(x, w, u)
    <3> HIDE DEF w
    <3>1. QED
      BY <1>3, <2>1, <2>3, <2>4 DEF Quotients
  <2>6. QED
    BY <1>2, <2>5
<1>4. CASE x >= Group
  <2> DEFINE y == x \div Group
             r == WriteUvarint[y]
             b == Group + (x % Group)
  <2>1. /\ y \in Nat /\ y < x /\ y # 0 /\ b \in Nat /\ b >= Group
        /\ x = Group * y + (x % Group)
    BY <1>0, <1>2, <1>4, DivMod
  <2>2. b % Group = x % Group
    BY <1>0, <1>2, DivMod
  <2>3. r \in Seq(Nat) /\ w = <<b>> \o r
    <3> HIDE DEF T
    <3>1. r \in Seq(Nat)
      <4> HIDE DEF y
      <4>1. QED
        BY <2>1, WriteIs
    <3>2. ~(x < Group)
      BY <1>0, <1>2, <1>4
    <3>3. w = <<Group + (x % Group)>> \o WriteUvarint[x \div Group]
      BY <1>2, <3>2, WriteIs
    <3>4. QED
      BY <3>1, <3>3
  <2> HIDE DEF y, r, b, w
  <2>4. y \notin T
    <3> HIDE DEF T
    <3>1. QED
      BY <1>1, <1>2, <2>1
  <2>5. PICK t : Quotients(y, r, t)
    BY <2>1, <2>4 DEF r
  <2>6. /\ Len(w) = Len(r) + 1 /\ w \in Seq(Nat) /\ w[1] = b
        /\ \A i \in 2..Len(w) : w[i] = r[i - 1]
    BY <2>1, <2>3
  <2>7. PICK u : u = [i \in 0..Len(w) |-> IF i = 0 THEN x ELSE t[i - 1]]
    BY ZenonT(60)
  <2>8. Len(r) \in Nat /\ Len(r) # 0 /\ t \in [0..Len(r) -> Nat]
    BY <2>3, <2>5 DEF Quotients
  <2>9. /\ u \in [0..Len(w) -> Nat] /\ u[0] = x
        /\ \A i \in 1..Len(w) : u[i] = t[i - 1]
    BY <1>2, <2>6, <2>7, <2>8
  <2>10. u[Len(w)] = 0
    BY <2>5, <2>6, <2>8, <2>9 DEF Quotients
  <2>11. ASSUME NEW i \in 1..Len(w)
         PROVE  /\ u[i - 1] = Group * u[i] + (w[i] % Group)
                /\ IF i = Len(w) THEN w[i] < Group ELSE w[i] >= Group /\ u[i] # 0
    <3>1. CASE i = 1
      <4>1. u[0] = x /\ u[1] = y /\ w[1] = b /\ 1 # Len(w)
        BY <2>5, <2>6, <2>8, <2>9 DEF Quotients
      <4>2. QED
        BY <2>1, <2>2, <3>1, <4>1
    <3>2. CASE i # 1
      <4>1. i - 1 \in 1..Len(r) /\ (i - 1 = Len(r) <=> i = Len(w))
        BY <2>6, <2>8, <3>2
      <4>2. u[i - 1] = t[(i - 1) - 1] /\ u[i] = t[i - 1] /\ w[i] = r[i - 1]
        <5>1. i - 1 \in 1..Len(w) /\ i \in 2..Len(w)
          BY <2>6, <2>8, <3>2
        <5> HIDE DEF T
        <5>2. QED
          BY ZenonT(60), <2>6, <2>9, <5>1
      <4>3. /\ t[(i - 1) - 1] = Group * t[i - 1] + (r[i - 1] % Group)
            /\ IF i - 1 = Len(r) THEN r[i - 1] < Group ELSE r[i - 1] >= Group /\ t[i - 1] # 0
        BY ZenonT(60), <2>5, <4>1 DEF Quotients
      <4>4. QED
        BY <4>1, <4>2, <4>3
    <3>3. QED
      BY <3>1, <3>2
  <2>12. Quotients(x, w, u)
    BY <2>6, <2>8, <2>9, <2>10, <2>11 DEF Quotients
  <2>13. QED
    BY <1>2, <2>12 DEF w
<1>5. QED
  BY <1>0, <1>2, <1>3, <1>4
(* What Digits computes: the last of the values of a loop. *)
Reads(s, n, d) ==
  /\ d \in [0..n -> Nat] /\ d[0] = 0
  /\ \A i \in 1..n : d[i] = (d[i - 1] + (s[i] % Group) * Weight[i - 1]) % Word

LEMMA DigitsAre ==
  ASSUME NEW s \in Seq(Nat), NEW n \in 0..Len(s)
  PROVE  \E d : Reads(s, n, d) /\ Digits(s, n) = d[n]
<1> DEFINE A(i, x) == (x + (s[i] % Group) * Weight[i - 1]) % Word
           F == [i \in Nat |-> [x \in Nat |-> IF i < n THEN A(i + 1, x) ELSE 0]]
           Body(v) == [i \in 0..n |-> IF i = 0 THEN 0 ELSE A(i, v[i - 1])]
           d == CHOOSE v : v = Body(v)
<1>0. Group \in Nat /\ Group > 1 /\ Word \in Nat /\ Word > 0 /\ n \in Nat
  BY FramingAssumption
<1>1. ASSUME NEW i \in 1..n, NEW x \in Nat PROVE A(i, x) \in Nat
  <2>1. s[i] \in Nat /\ Weight[i - 1] \in Nat
    <3>1. i \in 1..Len(s) /\ i - 1 \in Nat
      BY <1>0
    <3>2. s[i] \in Nat
      BY <3>1
    <3>3. QED
      BY ZenonT(60), <3>1, <3>2, WeightIs
  <2>2. s[i] % Group \in Nat
    BY <2>1, <1>0
  <2>3. (s[i] % Group) * Weight[i - 1] \in Nat
    BY <2>1, <2>2
  <2>4. QED
    BY <1>0, <2>3
<1>2. Digits(s, n) = d[n]
  BY DEF Digits
<1>3. \A g : Reads(s, n, g) <=>
             g \in [0..n -> Nat] /\ g[0] = 0 /\ \A i \in 1..n : g[i] = A(i, g[i - 1])
  BY DEF Reads
<1> HIDE DEF A
<1>4. F \in [Nat -> [Nat -> Nat]] /\ \A i \in Nat, x \in Nat : i < n => F[i][x] = A(i + 1, x)
  <2>1. \A i \in Nat, x \in Nat : i < n => A(i + 1, x) \in Nat
    BY <1>0, <1>1
  <2>2. QED
    BY <2>1
<1> HIDE DEF F
<1>5. PICK f : IsRun(Nat, 0, F, f)
  <2>1. IsStep(Nat, 0, F)
    BY ZenonT(60), <1>4 DEF IsStep
  <2>2. QED
    BY <2>1, PrimitiveRecursion
<1>6. PICK g : g = [i \in 0..n |-> f[i]]
  BY ZenonT(60)
<1>7. /\ \A i \in 0..n : g[i] = f[i] /\ f[i] \in Nat
      /\ f[0] = 0
  <2>1. \A i \in 0..n : i \in Nat
    OBVIOUS
  <2>2. QED
    BY ZenonT(60), <1>5, <1>6, <2>1 DEF IsRun
<1>8. ASSUME NEW i \in 1..n PROVE g[i] = A(i, g[i - 1])
  <2>1. i - 1 \in Nat /\ i - 1 < n /\ i - 1 \in 0..n /\ (i - 1) + 1 = i /\ i \in 0..n
    BY <1>0
  <2>2. f[i] = F[i - 1][f[i - 1]]
    BY ZenonT(60), <1>5, <2>1 DEF IsRun
  <2>3. F[i - 1][f[i - 1]] = A((i - 1) + 1, f[i - 1])
    BY ZenonT(60), <1>4, <1>7, <2>1
  <2>4. QED
    BY <1>7, <2>1, <2>2, <2>3
<1>9. g = Body(g)
  <2>1. \A i \in 0..n : i # 0 => i \in 1..n
    OBVIOUS
  <2>2. g[0] = 0
    BY <1>0, <1>7
  <2>3. QED
    BY ZenonT(60), <1>6, <1>8, <2>1, <2>2
<1>10. d = Body(d)
  BY <1>9, ZenonT(60)
<1> HIDE DEF d
<1>11. d[0] = 0 /\ \A i \in 1..n : d[i] = A(i, d[i - 1])
  <2>1. 0 \in 0..n /\ \A i \in 1..n : i \in 0..n /\ i # 0
    BY <1>0
  <2>2. QED
    BY <1>10, <2>1
<1>12. \A i \in 0..n : d[i] \in Nat
  <2> DEFINE T == {i \in Nat : i <= n /\ d[i] \notin Nat}
  <2> SUFFICES ASSUME T # {} PROVE FALSE
    BY <1>0
  <2>1. PICK i \in T : \A j \in T : i <= j
    <3>1. T \in SUBSET Nat
      OBVIOUS
    <3> HIDE DEF T
    <3>2. QED
      BY <3>1, Least
  <2>2. i # 0
    BY <1>11, <2>1
  <2>3. i - 1 \in Nat /\ i \in 1..n /\ d[i - 1] \in Nat
    BY <1>0, <2>1, <2>2
  <2>4. d[i] \in Nat
    BY ZenonT(60), <1>1, <1>11, <2>3
  <2>5. QED
    BY <2>4
<1>13. d \in [0..n -> Nat]
  BY <1>10, <1>12
<1>14. QED
  BY ZenonT(60), <1>2, <1>3, <1>11, <1>13

(* Reading back a prefix: at every byte, what was read and what is left add up
   to the number, so nothing is lost in a word that holds it. *)
LEMMA PrefixReadsBack ==
  ASSUME NEW v \in Nat, v < Word, NEW w, NEW u, Quotients(v, w, u),
         NEW s \in Seq(Nat), Len(w) <= Len(s), \A i \in 1..Len(w) : s[i] = w[i]
  PROVE  /\ Digits(s, Len(w)) = v
         /\ \A i \in 1..(Len(w) - 1) : Weight[i] < Word
<1> DEFINE n == Len(w)
<1>0. Group \in Nat /\ Group > 1 /\ Word \in Nat /\ n \in Nat /\ n # 0 /\ n \in 0..Len(s)
  BY FramingAssumption DEF Quotients
<1>1. PICK d : Reads(s, n, d) /\ Digits(s, n) = d[n]
  BY <1>0, DigitsAre
<1>2. \A i \in 0..n : d[i] \in Nat /\ u[i] \in Nat /\ i \in Nat /\ Weight[i] \in Nat \ {0}
  <2>1. \A i \in 0..n : i \in Nat
    OBVIOUS
  <2>2. d \in [0..n -> Nat] /\ u \in [0..n -> Nat]
    BY <1>1 DEF Reads, Quotients
  <2> HIDE DEF n
  <2>3. QED
    BY ZenonT(60), <2>1, <2>2, WeightIs
<1> HIDE DEF n
<1> DEFINE T == {i \in Nat : i <= n /\ d[i] + u[i] * Weight[i] # v}
<1>3. T = {}
  <2> SUFFICES ASSUME T # {} PROVE FALSE
    OBVIOUS
  <2>1. PICK i \in T : \A j \in T : i <= j
    <3>1. T \in SUBSET Nat
      OBVIOUS
    <3> HIDE DEF T
    <3>2. QED
      BY <3>1, Least
  <2>2. i \in Nat /\ i <= n /\ d[i] + u[i] * Weight[i] # v
    OBVIOUS
  <2>3. i # 0
    <3>1. d[0] = 0 /\ u[0] = v /\ Weight[0] = 1
      BY <1>1, WeightIs DEF Reads, Quotients
    <3>2. QED
      BY <2>2, <3>1
  <2>4. i - 1 \in 0..n /\ i \in 1..n /\ i \in 0..n /\ i - 1 \in Nat /\ (i - 1) + 1 = i /\ ~(i <= i - 1)
    <3> HIDE DEF T
    <3>1. QED
      BY <1>0, <2>2, <2>3
  <2>5. d[i - 1] + u[i - 1] * Weight[i - 1] = v
    <3>1. i - 1 \notin T
      <4> HIDE DEF T
      <4>1. QED
        BY <2>1, <2>4
    <3>2. QED
      BY <2>4, <3>1
  <2>6. PICK c \in Nat : c = s[i] % Group
    <3>1. s[i] \in Nat
      BY <1>0, <2>4
    <3>2. QED
      BY <1>0, <3>1
  <2>7. d[i] = (d[i - 1] + c * Weight[i - 1]) % Word
    BY <1>1, <2>4, <2>6 DEF Reads
  <2>8. u[i - 1] = Group * u[i] + c
    BY <2>4, <2>6 DEF Quotients, n
  <2>9. Weight[i] = Group * Weight[i - 1]
    BY <2>4, WeightIs
  <2>10. PICK W \in Nat, x \in Nat, y \in Nat : W = Weight[i - 1] /\ x = d[i - 1] /\ y = u[i]
    BY ZenonT(60), <1>2, <2>4
  <2>11. x + (Group * y + c) * W = v
    BY <2>5, <2>8, <2>10
  <2>12. (Group * y + c) * W = y * (Group * W) + c * W
    BY <1>0
  <2>13. y * (Group * W) \in Nat /\ c * W \in Nat
    BY <1>0
  <2>14. (x + c * W) + y * (Group * W) = v /\ x + c * W \in 0..(Word - 1)
    BY <1>0, <2>11, <2>12, <2>13
  <2>15. (x + c * W) % Word = x + c * W
    <3>1. \A z \in 0..(Word - 1) : z % Word = z
      BY <1>0
    <3>2. QED
      BY <2>14, <3>1
  <2>16. d[i] = x + c * W /\ u[i] * Weight[i] = y * (Group * W)
    BY <2>7, <2>9, <2>10, <2>15
  <2>17. QED
    BY <2>2, <2>14, <2>16
<1>4. \A i \in 0..n : d[i] + u[i] * Weight[i] = v
  <2> TAKE i \in 0..n
  <2>1. i \in Nat /\ i <= n
    BY <1>0
  <2>2. i \notin T
    BY <1>3, ZenonT(60)
  <2>3. QED
    BY <2>1, <2>2
<1>5. Digits(s, n) = v
  <2>1. n \in 0..n /\ u[n] = 0
    BY <1>0 DEF Quotients, n
  <2>2. d[n] + 0 * Weight[n] = v
    BY <1>4, <2>1
  <2>3. QED
    BY <1>1, <1>2, <2>1, <2>2
<1>6. ASSUME NEW i \in 1..(n - 1) PROVE Weight[i] < Word
  <2>1. i \in 0..n /\ u[i] # 0
    BY <1>0 DEF Quotients, n
  <2>2. PICK W \in Nat, y \in Nat, x \in Nat : W = Weight[i] /\ y = u[i] /\ x = d[i]
    BY ZenonT(60), <1>2, <2>1
  <2>3. x + y * W = v /\ y > 0
    BY <1>4, <2>1, <2>2
  <2>4. PICK z \in Nat : z = y * W
    OBVIOUS
  <2>5. z >= W
    BY <2>3, <2>4
  <2>6. x + z = v
    BY <2>3, <2>4
  <2>7. W < Word
    BY <1>0, <2>5, <2>6
  <2>8. QED
    BY <2>2, <2>7
<1>7. QED
  BY <1>5, <1>6 DEF n

(* A frame is read back as it was written; of a frame that is cut anywhere, or
   above the limit, nothing is read. *)
THEOREM FramesReadBack ==
  ASSUME NEW data \in Seq(Nat), Len(data) < Word, NEW k \in 0..Len(WriteLp(data))
  PROVE  ReadLp(SubSeq(WriteLp(data), 1, k)) =
           IF k = Len(WriteLp(data)) /\ Len(data) <= MaxFrameLen
             THEN [ok |-> TRUE, data |-> data] ELSE NoFrame
<1> DEFINE L == Len(data)
           w == WriteUvarint[L]
           n == Len(w)
           all == w \o data
           s == SubSeq(all, 1, k)
<1>0. Group \in Nat /\ MaxFrameLen \in Nat /\ L \in Nat /\ k \in Nat /\ WriteLp(data) = all
  BY FramingAssumption DEF WriteLp
<1>1. PICK u : Quotients(L, w, u)
  <2> HIDE DEF L
  <2>1. QED
    BY <1>0, PrefixIs
<1> HIDE DEF w
<1>2. /\ w \in Seq(Nat) /\ n \in Nat /\ n # 0 /\ w[n] < Group
      /\ \A i \in 1..(n - 1) : w[i] >= Group
  <2>1. w \in Seq(Nat) /\ n \in Nat /\ n # 0
    BY <1>1 DEF Quotients
  <2>2. n \in 1..n /\ \A i \in 1..(n - 1) : i \in 1..n /\ i # n
    BY <2>1
  <2>3. QED
    BY <1>1, <2>1, <2>2 DEF Quotients
<1>3. /\ all \in Seq(Nat) /\ Len(all) = n + L
      /\ \A i \in 1..n : all[i] = w[i]
      /\ \A i \in 1..L : all[n + i] = data[i]
  BY <1>0, <1>2
<1>4. k <= n + L
  BY <1>0, <1>3
<1>5. s \in Seq(Nat) /\ Len(s) = k /\ \A i \in 1..k : s[i] = all[i]
  <2> HIDE DEF all
  <2>1. QED
    BY <1>0, <1>3, <1>4
<1> HIDE DEF all
<1>6. \A i \in 1..n : i <= k => s[i] = w[i]
  BY <1>0, <1>3, <1>5
<1> HIDE DEF s
<1>7. ASSUME NEW m \in PrefixLengths(s) PROVE m = n
  <2>1. m \in 1..k /\ s[m] < Group /\ \A i \in 1..(m - 1) : s[i] >= Group
    BY <1>0, <1>5 DEF PrefixLengths
  <2>2. \A i \in 1..k : s[i] \in Nat
    BY <1>5
  <2>3. CASE m < n
    <3>1. m \in 1..(n - 1) /\ m \in 1..n /\ m <= k
      BY <1>0, <1>2, <2>1, <2>3
    <3>2. s[m] >= Group /\ s[m] \in Nat
      BY ZenonT(60), <1>2, <1>6, <2>1, <2>2, <3>1
    <3>3. QED
      BY <1>0, <2>1, <3>2
  <2>4. CASE m > n
    <3>1. n \in 1..(m - 1) /\ n \in 1..n /\ n <= k /\ n \in 1..k
      BY <1>0, <1>2, <2>1, <2>4
    <3>2. s[n] >= Group /\ s[n] = w[n] /\ s[n] \in Nat
      BY <1>6, <2>1, <2>2, <3>1
    <3>3. QED
      BY <1>0, <1>2, <3>2
  <2>5. QED
    BY <1>2, <2>1, <2>3, <2>4
<1>8. CASE k < n
  <2>1. n \notin PrefixLengths(s)
    BY <1>0, <1>2, <1>5, <1>8 DEF PrefixLengths
  <2>2. PrefixLengths(s) = {}
    BY <1>7, <2>1
  <2>3. ReadLp(s) = NoFrame
    BY <2>2 DEF ReadLp
  <2>4. k # n + L
    BY <1>0, <1>2, <1>8
  <2>5. QED
    BY <1>0, <1>3, <2>3, <2>4 DEF s
<1>9. CASE k >= n
  <2>1. Len(w) <= Len(s) /\ \A i \in 1..Len(w) : s[i] = w[i]
    BY <1>0, <1>2, <1>5, <1>6, <1>9
  <2>2. Digits(s, n) = L /\ \A i \in 1..(n - 1) : Weight[i] < Word
    <3> HIDE DEF L
    <3>1. L < Word
      BY DEF L
    <3>2. QED
      BY <1>0, <1>1, <1>5, <2>1, <3>1, PrefixReadsBack
  <2>3. n \in PrefixLengths(s)
    <3>1. n \in DOMAIN s
      BY <1>0, <1>2, <1>5, <1>9
    <3>2. s[n] < Group /\ \A i \in 1..(n - 1) : s[i] >= Group
      <4>1. n \in 1..n /\ \A i \in 1..(n - 1) : i \in 1..n
        BY <1>2
      <4>2. QED
        BY ZenonT(60), <1>2, <2>1, <4>1
    <3> HIDE DEF n
    <3>3. QED
      BY <2>2, <3>1, <3>2 DEF PrefixLengths
  <2>4. PrefixLengths(s) # {} /\ (CHOOSE m \in PrefixLengths(s) : TRUE) = n
    BY <1>7, <2>3
  <2> HIDE DEF n, L
  <2>5. ReadLp(s) = IF L > MaxFrameLen \/ n + L > k THEN NoFrame
                    ELSE [ok |-> TRUE, data |-> SubSeq(s, n + 1, n + L)]
    BY ZenonT(60), <1>5, <2>2, <2>4 DEF ReadLp
  <2>6. k = n + L => SubSeq(s, n + 1, n + L) = data
    <3> SUFFICES ASSUME k = n + L PROVE SubSeq(s, n + 1, n + L) = data
      OBVIOUS
    <3>1. PICK t : t = SubSeq(s, n + 1, n + L)
      BY ZenonT(60)
    <3>2. t \in Seq(Nat) /\ Len(t) = L /\ \A i \in 1..L : t[i] = s[n + i]
      <4>1. n + 1 \in Int /\ n + L \in Int /\ \A i \in (n + 1)..(n + L) : s[i] \in Nat
        BY <1>0, <1>2, <1>5
      <4>2. /\ t \in Seq(Nat)
            /\ Len(t) = IF n + 1 <= n + L THEN (n + L) - (n + 1) + 1 ELSE 0
            /\ \A i \in 1..((n + L) - (n + 1) + 1) : t[i] = s[(n + 1) + i - 1]
        BY <3>1, <4>1, SubSeqProperties
      <4>3. Len(t) = L
        BY <1>0, <1>2, <4>2
      <4>4. \A i \in 1..L : i \in 1..((n + L) - (n + 1) + 1) /\ (n + 1) + i - 1 = n + i
        BY <1>0, <1>2
      <4>5. QED
        BY ZenonT(60), <4>2, <4>3, <4>4
    <3>3. \A i \in 1..L : s[n + i] = data[i]
      BY <1>0, <1>2, <1>3, <1>5
    <3>4. \A i \in 1..L : t[i] = data[i]
      BY ZenonT(60), <3>2, <3>3
    <3>5. t = data
      BY <3>2, <3>4, SeqEqual DEF L
    <3>6. QED
      BY <3>1, <3>5
  <2>7. CASE k = n + L /\ L <= MaxFrameLen
    <3>1. ~(L > MaxFrameLen) /\ ~(n + L > k)
      BY <1>0, <1>2, <2>7
    <3>2. QED
      BY ZenonT(60), <1>0, <1>3, <2>5, <2>6, <2>7, <3>1 DEF s, L
  <2>8. CASE ~(k = n + L /\ L <= MaxFrameLen)
    <3>1. L > MaxFrameLen \/ n + L > k
      BY <1>0, <1>2, <1>4, <2>8
    <3>2. QED
      BY <1>0, <1>3, <2>5, <2>8, <3>1 DEF s, L
  <2>9. QED
    BY <2>7, <2>8
<1>10. QED
  BY <1>0, <1>2, <1>8, <1>9

-----------------------------------------------------------------------------
(* The types of a call, its request and its answer. *)
PushTypeOK ==
  /\ call \in [Call -> {"new", "waiting", "failed"} \cup Status]
  /\ request \in [Call -> {"none", "sent", "read"}]
  /\ answer \in [Call -> {"none"} \cup Status]
  /\ DOMAIN msg = Call /\ DOMAIN frame = Call
  /\ by \subseteq Call

(* Between a request and its answer the call is not counted as published; an
   answer under way is that of the call that waits for it. *)
AnswerInv(c) ==
  /\ request[c] # "none" => c \notin by /\ call[c] \notin Status
  /\ answer[c] # "none" => /\ call[c] = "waiting" /\ request[c] = "none"
                           /\ (answer[c] = "200") <=> c \in by
  /\ call[c] \in Status => ((call[c] = "200") <=> c \in by)

(* A request that was read is the one that was written. *)
FrameInv(c) ==
  /\ request[c] # "none" => msg[c] \in Push
  /\ request[c] = "read" => /\ frame[c] = [ok |-> TRUE, data |-> Encoded[msg[c]]]
                            /\ Len(Encoded[msg[c]]) <= MaxFrameLen

PushInv == PushTypeOK /\ \A c \in Call : AnswerInv(c) /\ FrameInv(c)

(* What is encoded can be framed. *)
LEMMA EncodedFrames ==
  ASSUME NEW x \in Push \cup Status, NEW k \in 0..Len(WriteLp(Encoded[x]))
  PROVE  ReadLp(SubSeq(WriteLp(Encoded[x]), 1, k)) =
           IF k = Len(WriteLp(Encoded[x])) /\ Len(Encoded[x]) <= MaxFrameLen
             THEN [ok |-> TRUE, data |-> Encoded[x]] ELSE NoFrame
<1>1. Encoded[x] \in Seq(Nat) /\ Len(Encoded[x]) < Word
  BY PushAssumption
<1>2. QED
  BY <1>1, FramesReadBack

(* A frame is a sequence, so its length is one, and all of it is a prefix. *)
LEMMA FrameIsSeq ==
  ASSUME NEW x \in Push \cup Status
  PROVE  /\ Len(WriteLp(Encoded[x])) \in Nat
         /\ SubSeq(WriteLp(Encoded[x]), 1, Len(WriteLp(Encoded[x]))) = WriteLp(Encoded[x])
<1>1. Encoded[x] \in Seq(Nat) /\ Len(Encoded[x]) \in Nat
  BY PushAssumption
<1>2. WriteUvarint[Len(Encoded[x])] \in Seq(Nat)
  BY <1>1, WriteIs
<1>3. PICK s \in Seq(Nat) : s = WriteLp(Encoded[x])
  <2>1. WriteUvarint[Len(Encoded[x])] \o Encoded[x] \in Seq(Nat)
    BY <1>1, <1>2, ConcatProperties
  <2>2. QED
    BY ZenonT(60), <2>1 DEF WriteLp
<1>4. Len(s) \in Nat /\ SubSeq(s, 1, Len(s)) = s
  BY SubSeqFull
<1>5. QED
  BY <1>3, <1>4

(* A call that a step does not concern keeps its invariant. *)
Same(d) ==
  /\ call'[d] = call[d] /\ msg'[d] = msg[d] /\ request'[d] = request[d]
  /\ frame'[d] = frame[d] /\ answer'[d] = answer[d] /\ (d \in by' <=> d \in by)

LEMMA SameKeeps ==
  ASSUME NEW d, AnswerInv(d), FrameInv(d), Same(d)
  PROVE  AnswerInv(d)' /\ FrameInv(d)'
BY DEF Same, AnswerInv, FrameInv

(* send_response, after the outcome that it reports. *)
LEMMA AnswerKeeps ==
  ASSUME PushInv, NEW c \in Call, NEW s \in Status, request[c] = "read", Answer(c, s),
         by' = IF s = "200" THEN by \cup {c} ELSE by
  PROVE  PushInv'
<1>1. PushTypeOK /\ AnswerInv(c)
  BY DEF PushInv
<1>2. PushTypeOK'
  BY <1>1 DEF PushTypeOK, Answer, Status
<1>3. \A d \in Call : d # c => Same(d)
  BY <1>1 DEF PushTypeOK, Answer, Same
<1>4. AnswerInv(c)'
  <2>1. /\ request'[c] = "none" /\ call'[c] = call[c] /\ call[c] \notin Status /\ c \notin by
        /\ answer'[c] = IF call[c] = "waiting" THEN s ELSE "none"
    BY <1>1 DEF PushTypeOK, AnswerInv, Answer
  <2>2. s = "200" <=> c \in by'
    BY <2>1
  <2>3. QED
    BY <2>1, <2>2 DEF AnswerInv
<1>5. FrameInv(c)'
  BY <1>1 DEF PushTypeOK, FrameInv, Answer
<1>6. QED
  BY <1>2, <1>3, <1>4, <1>5, SameKeeps DEF PushInv

(* Every step of the service and of its clients. *)
LEMMA PushPreserved == PushInv /\ [PushNext]_allVars => PushInv'
<1> SUFFICES ASSUME PushInv, [PushNext]_allVars PROVE PushInv'
  OBVIOUS
<1>t. PushTypeOK /\ \A c \in Call : AnswerInv(c) /\ FrameInv(c)
  BY DEF PushInv
<1>1. CASE UNCHANGED pushVars
  <2>1. PushTypeOK' /\ \A c \in Call : Same(c)
    BY <1>1, <1>t DEF PushTypeOK, pushVars, gossipVars, Same
  <2>2. QED
    BY <1>t, <2>1, SameKeeps DEF PushInv
<1>2. ASSUME NEW c \in Call, Limited(c) \/ MissingMessage(c) PROVE PushInv'
  <2>1. \E s \in Status : s # "200" /\ Answer(c, s) /\ request[c] = "read" /\ by' = by
    BY <1>2 DEF Limited, MissingMessage, Served, Status, gossipVars
  <2>2. QED
    BY <2>1, AnswerKeeps
<1>3. ASSUME NEW c \in Call, NEW m \in Push, PublishFails(c, m) PROVE PushInv'
  <2>1. \E s \in Status : s # "200" /\ Answer(c, s) /\ request[c] = "read" /\ by' = by
    BY <1>3 DEF PublishFails, Served, Status, gossipVars
  <2>2. QED
    BY <2>1, AnswerKeeps
<1>4. ASSUME NEW c \in Call, NEW m \in Push, Published(c, m) PROVE PushInv'
  <2>1. "200" \in Status /\ Answer(c, "200") /\ request[c] = "read" /\ by' = by \cup {c}
    BY <1>4 DEF Published, Served, Status
  <2>2. QED
    BY <2>1, AnswerKeeps
<1>5. ASSUME NEW c \in Call, NEW m \in Push, LightPush(c, m) PROVE PushInv'
  <2>1. PushTypeOK'
    BY <1>5, <1>t DEF PushTypeOK, LightPush
  <2>2. \A d \in Call : d # c => Same(d)
    BY <1>5, <1>t DEF PushTypeOK, LightPush, Same
  <2>3. /\ call'[c] = "waiting" /\ request'[c] = "sent" /\ msg'[c] = m /\ c \notin by'
        /\ answer'[c] = answer[c] /\ call[c] # "waiting"
    BY <1>5, <1>t DEF PushTypeOK, LightPush
  <2>4. AnswerInv(c)' /\ FrameInv(c)'
    BY ZenonT(60), <1>t, <2>3 DEF AnswerInv, FrameInv, Status
  <2>5. QED
    BY <1>t, <2>1, <2>2, <2>4, SameKeeps DEF PushInv
<1>6. ASSUME NEW c \in Call, Fails(c) PROVE PushInv'
  <2>1. PushTypeOK'
    BY <1>6, <1>t DEF PushTypeOK, Fails, gossipVars
  <2>2. \A d \in Call : d # c => Same(d)
    BY <1>6, <1>t DEF PushTypeOK, Fails, Same, gossipVars
  <2>3. /\ call'[c] = "failed" /\ answer'[c] = "none" /\ request' = request
        /\ msg' = msg /\ frame' = frame /\ by' = by
    BY <1>6, <1>t DEF PushTypeOK, Fails, gossipVars
  <2>4. AnswerInv(c)' /\ FrameInv(c)'
    BY <1>t, <2>3 DEF AnswerInv, FrameInv, Status
  <2>5. QED
    BY <1>t, <2>1, <2>2, <2>4, SameKeeps DEF PushInv
<1>7. ASSUME NEW c \in Call, NEW k \in 0..MaxStream, ReadRequest(c, k) PROVE PushInv'
  <2>1. PICK f : /\ f = ReadLp(SubSeq(Sent(c), 1, k))
                 /\ frame' = [frame EXCEPT ![c] = f]
                 /\ request' = [request EXCEPT ![c] = IF f.ok THEN "read" ELSE "none"]
    BY ZenonT(60), <1>7 DEF ReadRequest
  <2>2. /\ request[c] = "sent" /\ k <= Len(Sent(c)) /\ k \in Nat
        /\ call' = call /\ msg' = msg /\ answer' = answer /\ by' = by
    BY <1>7 DEF ReadRequest, gossipVars
  <2>3. msg[c] \in Push
    BY ZenonT(60), <1>t, <2>2 DEF FrameInv
  <2>4. f.ok => f = [ok |-> TRUE, data |-> Encoded[msg[c]]] /\ Len(Encoded[msg[c]]) <= MaxFrameLen
    <3>1. k \in 0..Len(WriteLp(Encoded[msg[c]]))
      BY <2>2, <2>3, FrameIsSeq DEF Sent
    <3>2. f = IF k = Len(WriteLp(Encoded[msg[c]])) /\ Len(Encoded[msg[c]]) <= MaxFrameLen
                THEN [ok |-> TRUE, data |-> Encoded[msg[c]]] ELSE NoFrame
      BY ZenonT(60), <2>1, <2>3, <3>1, EncodedFrames DEF Sent
    <3>3. QED
      BY <3>2 DEF NoFrame
  <2>5. PushTypeOK'
    BY <1>t, <2>1, <2>2 DEF PushTypeOK
  <2>6. \A d \in Call : d # c => Same(d)
    BY <1>t, <2>1, <2>2 DEF PushTypeOK, Same
  <2>7. frame'[c] = f /\ request'[c] = IF f.ok THEN "read" ELSE "none"
    BY <1>t, <2>1 DEF PushTypeOK
  <2>8. AnswerInv(c)'
    BY <1>t, <2>2, <2>7 DEF AnswerInv
  <2>9. FrameInv(c)'
    BY <2>2, <2>3, <2>4, <2>7 DEF FrameInv
  <2>10. QED
    BY <1>t, <2>5, <2>6, <2>8, <2>9, SameKeeps DEF PushInv
<1>8. ASSUME NEW c \in Call, NEW k \in 0..MaxStream, ReadResponse(c, k) PROVE PushInv'
  <2>1. PICK got : /\ got = Decoded(ReadLp(SubSeq(WriteLp(Encoded[answer[c]]), 1, k)), Status)
                   /\ call' = [call EXCEPT ![c] = IF got = {} THEN "failed" ELSE CHOOSE s \in got : TRUE]
    BY ZenonT(60), <1>8 DEF ReadResponse
  <2>2. /\ answer[c] # "none" /\ k <= Len(WriteLp(Encoded[answer[c]])) /\ k \in Nat
        /\ answer' = [answer EXCEPT ![c] = "none"]
        /\ msg' = msg /\ request' = request /\ frame' = frame /\ by' = by
    BY <1>8 DEF ReadResponse, gossipVars
  <2>3. answer[c] \in Status
    BY <1>t, <2>2 DEF PushTypeOK
  <2>4. got \subseteq {answer[c]}
    <3>1. k \in 0..Len(WriteLp(Encoded[answer[c]]))
      BY <2>2, <2>3, FrameIsSeq
    <3>2. PICK f : /\ f = [ok |-> TRUE, data |-> Encoded[answer[c]]] \/ f = NoFrame
                   /\ got = Decoded(f, Status)
      BY ZenonT(60), <2>1, <2>3, <3>1, EncodedFrames
    <3>3. \A x \in got : x \in Status /\ Encoded[x] = Encoded[answer[c]]
      BY <3>2 DEF Decoded, NoFrame
    <3>4. QED
      BY <2>3, <3>3, PushAssumption
  <2>5. call'[c] = "failed" \/ call'[c] = answer[c]
    BY <1>t, <2>1, <2>4 DEF PushTypeOK
  <2>6. PushTypeOK'
    <3>1. call' \in [Call -> {"new", "waiting", "failed"} \cup Status]
      BY ZenonT(60), <1>t, <2>1, <2>3, <2>5 DEF PushTypeOK
    <3>2. QED
      BY ZenonT(60), <1>t, <2>2, <3>1 DEF PushTypeOK
  <2>7. \A d \in Call : d # c => Same(d)
    BY <1>t, <2>1, <2>2 DEF PushTypeOK, Same
  <2>8. answer'[c] = "none"
    BY <1>t, <2>2 DEF PushTypeOK
  <2>9. AnswerInv(c)' /\ FrameInv(c)'
    BY <1>t, <2>2, <2>5, <2>8 DEF AnswerInv, FrameInv, Status
  <2>10. QED
    BY <1>t, <2>6, <2>7, <2>9, SameKeeps DEF PushInv
<1>9. CASE PushNext
  <2>1. CASE UNCHANGED pushVars
    BY <1>1, <2>1
  <2>2. ASSUME NEW c \in Call,
               \/ Limited(c) \/ MissingMessage(c) \/ Fails(c)
               \/ \E k \in 0..MaxStream : ReadRequest(c, k) \/ ReadResponse(c, k)
               \/ \E m \in Push : LightPush(c, m) \/ Published(c, m) \/ PublishFails(c, m)
        PROVE  PushInv'
    BY <1>2, <1>3, <1>4, <1>5, <1>6, <1>7, <1>8, <2>2, ZenonT(60)
  <2>3. QED
    BY <1>9, <2>1, <2>2, ZenonT(60) DEF PushNext
<1>10. QED
  BY <1>1, <1>9 DEF allVars

(* Requests, answers and publications agree in every reachable state. *)
THEOREM PushInductiveInvariant == PushSpec => []PushInv
<1>1. PushInit => PushInv
  BY DEF PushInit, PushInv, PushTypeOK, AnswerInv, FrameInv, Status
<1>2. QED
  BY <1>1, PushPreserved, PTL DEF PushSpec

(* read_request returns what the client framed or nothing, wherever the stream
   is cut, and every complete frame within the limit. *)
THEOREM RequestsAreExact == PushSpec => []FramesAreExact
<1>1. PushInv => FramesAreExact
  <2> SUFFICES ASSUME PushInv, NEW c \in Call
               PROVE  LET data == Encoded[msg[c]] IN
                        /\ request[c] = "read" => frame[c].data = data /\ Len(data) <= MaxFrameLen
                        /\ request[c] = "sent" /\ Len(data) <= MaxFrameLen => ReadLp(Sent(c)).ok
    BY DEF FramesAreExact
  <2>1. FrameInv(c)
    BY DEF PushInv
  <2>2. ASSUME request[c] = "sent", Len(Encoded[msg[c]]) <= MaxFrameLen PROVE ReadLp(Sent(c)).ok
    <3>1. msg[c] \in Push
      BY <2>1, <2>2 DEF FrameInv
    <3>2. PICK n \in Nat : /\ n = Len(WriteLp(Encoded[msg[c]]))
                           /\ SubSeq(WriteLp(Encoded[msg[c]]), 1, n) = Sent(c)
      BY <3>1, FrameIsSeq DEF Sent
    <3>3. ReadLp(Sent(c)) = [ok |-> TRUE, data |-> Encoded[msg[c]]]
      <4>1. n \in 0..Len(WriteLp(Encoded[msg[c]])) /\ msg[c] \in Push \cup Status
        BY <3>1, <3>2
      <4>2. ReadLp(SubSeq(WriteLp(Encoded[msg[c]]), 1, n)) = [ok |-> TRUE, data |-> Encoded[msg[c]]]
        BY ZenonT(60), <2>2, <3>2, <4>1, EncodedFrames
      <4>3. QED
        BY ZenonT(60), <3>2, <4>2
    <3>4. QED
      BY <3>3
  <2>3. request[c] = "read" =>
          frame[c].data = Encoded[msg[c]] /\ Len(Encoded[msg[c]]) <= MaxFrameLen
    BY <2>1 DEF FrameInv
  <2>4. QED
    BY <2>2, <2>3
<1>2. QED
  BY <1>1, PushInductiveInvariant, PTL

(* A message that a call made gossipsub publish is remembered from then on, and
   no other call did so until it could be forgotten. *)
Apart(c, d) == at[c] - at[d] >= CacheTime \/ at[d] - at[c] >= CacheTime

CreditInv ==
  /\ cached \in [Push -> Int] /\ at \in [Call -> Nat]
  /\ \A c \in by : msg[c] \in Push /\ at[c] <= cached[msg[c]]
  /\ \A c, d \in by : msg[c] = msg[d] /\ c # d => Apart(c, d)

(* gossipsub publishes what the request of the call says, and not again before
   its cache has forgotten it. *)
LEMMA CreditPreserved == TypeOK /\ PushInv /\ CreditInv /\ [PushNext]_allVars => CreditInv'
<1> SUFFICES ASSUME TypeOK, PushInv, CreditInv, [PushNext]_allVars PROVE CreditInv'
  OBVIOUS
<1>t. PushTypeOK /\ \A c \in Call : FrameInv(c)
  BY DEF PushInv
<1>u. by \subseteq Call /\ now \in Nat
  BY <1>t DEF PushTypeOK, TypeOK
<1>1. ASSUME UNCHANGED <<msg, by, at, cached>> PROVE CreditInv'
  BY ZenonT(60), <1>1 DEF CreditInv, Apart
<1>2. ASSUME NEW c \in Call, NEW m \in Push, Published(c, m) PROVE CreditInv'
  <2>1. /\ request[c] = "read" /\ m \in Decoded(frame[c], Push) /\ Forgotten(m)
        /\ cached' = [cached EXCEPT ![m] = now] /\ by' = by \cup {c}
        /\ at' = [at EXCEPT ![c] = now] /\ msg' = msg
    BY <1>2 DEF Published, Served, Answer
  <2>2. msg[c] = m
    <3>1. msg[c] \in Push /\ frame[c].data = Encoded[msg[c]]
      <4>1. msg[c] \in Push /\ frame[c] = [ok |-> TRUE, data |-> Encoded[msg[c]]]
        BY ZenonT(60), <1>t, <2>1 DEF FrameInv
      <4>2. QED
        BY <4>1
    <3>2. Encoded[m] = frame[c].data
      BY <2>1 DEF Decoded
    <3>3. QED
      BY <3>1, <3>2, PushAssumption
  <2>3. cached' \in [Push -> Int] /\ at' \in [Call -> Nat]
    BY <1>u, <2>1 DEF CreditInv
  <2>4. /\ at'[c] = now /\ cached'[m] = now
        /\ \A d \in by : d # c => at'[d] = at[d]
        /\ \A x \in Push : x # m => cached'[x] = cached[x]
    BY <1>u, <2>1 DEF CreditInv
  <2>5. ASSUME NEW d \in by, msg[d] = m PROVE at[d] <= now /\ now - at[d] >= CacheTime
    <3>1. at[d] \in Nat /\ cached[m] \in Int /\ at[d] <= cached[m]
      BY <1>u, <2>5 DEF CreditInv
    <3>2. now - cached[m] >= CacheTime
      BY <2>1, <3>1 DEF Forgotten, Never
    <3>3. QED
      BY <1>u, <3>1, <3>2, PushAssumption
  <2>6. ASSUME NEW d \in by' PROVE msg'[d] \in Push /\ at'[d] <= cached'[msg'[d]]
    <3>1. CASE d = c
      BY <1>u, <2>1, <2>2, <2>4, <3>1
    <3>2. CASE d # c
      <4>1. d \in by /\ at'[d] = at[d] /\ msg'[d] = msg[d] /\ msg[d] \in Push /\ at[d] <= cached[msg[d]]
        BY <2>1, <2>4, <2>6, <3>2 DEF CreditInv
      <4>2. CASE msg[d] = m
        BY <2>4, <2>5, <4>1, <4>2
      <4>3. CASE msg[d] # m
        BY <2>4, <4>1, <4>3
      <4>4. QED
        BY <4>2, <4>3
    <3>3. QED
      BY <3>1, <3>2
  <2>7. ASSUME NEW d \in by', NEW e \in by', msg'[d] = msg'[e], d # e PROVE Apart(d, e)'
    <3>1. CASE d # c /\ e # c
      BY <2>1, <2>4, <2>7, <3>1 DEF CreditInv, Apart
    <3>2. CASE d = c
      BY <2>1, <2>2, <2>4, <2>5, <2>7, <3>2 DEF Apart
    <3>3. CASE e = c
      BY <2>1, <2>2, <2>4, <2>5, <2>7, <3>3 DEF Apart
    <3>4. QED
      BY <3>1, <3>2, <3>3
  <2>8. QED
    BY <2>3, <2>6, <2>7 DEF CreditInv
<1>3. ASSUME NEW c \in Call, NEW m \in Push, LightPush(c, m) PROVE CreditInv'
  <2>1. /\ by' = by \ {c} /\ cached' = cached /\ at' = [at EXCEPT ![c] = 0]
        /\ \A d \in Call : d # c => msg'[d] = msg[d]
    BY <1>3, <1>t DEF LightPush, PushTypeOK
  <2>2. at' \in [Call -> Nat] /\ \A d \in Call : d # c => at'[d] = at[d]
    BY <2>1 DEF CreditInv
  <2>3. QED
    BY <1>u, <2>1, <2>2 DEF CreditInv, Apart
<1>4. ASSUME NEW c \in Call,
             \/ Limited(c) \/ MissingMessage(c) \/ Fails(c)
             \/ (\E k \in 0..MaxStream : ReadRequest(c, k) \/ ReadResponse(c, k))
             \/ \E m \in Push : PublishFails(c, m)
      PROVE  UNCHANGED <<msg, by, at, cached>>
  BY <1>4 DEF Limited, MissingMessage, Fails, ReadRequest, ReadResponse, PublishFails, Answer, gossipVars
<1>5. CASE UNCHANGED pushVars
  BY <1>1, <1>5 DEF pushVars, gossipVars
<1>6. QED
  BY <1>1, <1>2, <1>3, <1>4, <1>5, ZenonT(60) DEF PushNext, allVars

(* The status a caller of light_push is given is that of its own request, and
   two callers are told that they published the same message only if gossipsub
   could forget it in between, for every duplicate_cache_time. *)
THEOREM CallersAreToldTheTruth == PushSpec => []AnswersAreTrue
<1>1. PushInv /\ CreditInv => AnswersAreTrue
  <2> SUFFICES ASSUME PushInv, CreditInv PROVE AnswersAreTrue
    OBVIOUS
  <2>1. \A c \in Call : call[c] \in Status => ((call[c] = "200") <=> c \in by)
    BY DEF PushInv, AnswerInv
  <2>2. QED
    BY <2>1 DEF CreditInv, AnswersAreTrue, Apart, Status
<1>2. PushInit => CreditInv
  BY DEF PushInit, CreditInv, Never
<1>3. QED
  BY <1>1, <1>2, CreditPreserved, PushInductiveInvariant, LightPushUsesLimiter, TypeCorrect, PTL DEF PushSpec
=============================================================================
